SPECIFICATION Spec
CONSTANTS
  s1 = s1
  s2 = s2
  x = x
  y = y
  a = a
  Public = {a}
  Random = {x, y}
  Scanners = {s1, s2}
  Mobile = {s1}
  Observations <- MCObservations
  Requests = {r1, r2}
  MissingAfter = 1
  OfflineAfter = 2
  PlaceAge = 1
  Retention = 1
  Horizon = 2
  MaxDevices = 3
  Budget = 4
SYMMETRY MCSymmetry
INVARIANTS
  TypeOK
  EvidenceShown
  LatestRowIsCanonical
  PresenceTrue
  AnchorOfScanner
  AcceptedTogether
  RefusedOnlyAfterRace
CHECK_DEADLOCK FALSE
