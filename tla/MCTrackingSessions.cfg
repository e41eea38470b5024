SPECIFICATION Spec
CONSTANTS
  Modes = {"walk"}
  Devices = {d1, d2}
  Requests = {r1, r2}
  Maintenance = loop
  Samples = {x1}
  Positions = {p1}
  Lease = 2
  StaleAfter = 1
  OfflineAfter = 1
  Horizon = 3
  MaxSessions = 2
  Budget = 3
INVARIANTS
  TypeOK
  Accounted
  OneAtATime
  SerialSessionsRight
PROPERTIES
  AllEnd
\* When the budget is spent and the sessions have ended, only idle rounds are left.
CHECK_DEADLOCK FALSE
