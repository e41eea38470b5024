---------------------------- MODULE DeviceRecords ----------------------------
(***************************************************************************)
(* What the backend makes of observations: the observed identities, the    *)
(* logical devices they belong to, their presence and place, and what      *)
(* correlation, the operator and retention do to them.                     *)
(*                                                                         *)
(* A batch of observations and the presence sweep read rows early and      *)
(* write late, and what others commit in between is neither seen nor       *)
(* undone (UnitOfWork).  The first statement that writes takes the lock of *)
(* SQLite and sees what is committed by then: for a new identity that is   *)
(* its INSERT, so that the device is looked up in fresh rows.  What the    *)
(* loop of a batch adds is flushed after it: an observation does not find  *)
(* the rows of the ones before it.                                         *)
(*                                                                         *)
(* A batch has one observation here, or two of one address, looked up at   *)
(* the same moment; a third would find the device of the first, and of     *)
(* other addresses are other batches.  Correlation finds one match at      *)
(* most.  The other requests are one step each.                            *)
(*                                                                         *)
(* Left out: names and categories, zones, the signal model, the scores of  *)
(* correlation, and the events, which nothing reads back.                  *)
(***************************************************************************)
EXTENDS Integers, Sequences, FiniteSets, UnitOfWork

CONSTANTS
  Public, Random,  \* the addresses, by address type
  Scanners,
  Mobile,          \* the ones that have a position
  Observations,    \* what scanners send: [id, scanner, address, delay]
  Requests,        \* request threads
  MissingAfter,    \* presence_missing_seconds
  OfflineAfter,    \* presence_offline_seconds
  PlaceAge,        \* BROWSER_SCANNER_POSITION_MAX_AGE_SECONDS
  Retention,       \* raw_observation_retention_days
  Horizon,         \* bound on the time
  MaxDevices,      \* bound on the logical devices
  Budget           \* bound on the batches, sweeps and other requests

ASSUME AddressesAssumption == Public \cap Random = {}
ASSUME TimesAssumption ==
  /\ {MissingAfter, OfflineAfter, PlaceAge, Retention, Horizon, MaxDevices, Budget} \subseteq Nat
  /\ MissingAfter <= OfflineAfter
ASSUME ObservationsAssumption ==
  \A o \in Observations :
    o.scanner \in Scanners /\ o.address \in Public \cup Random /\ o.delay \in Nat
ASSUME RequestsAssumption == IsFiniteSet(Requests)

VARIABLES
  db,        \* the committed rows
  now,       \* utcnow()
  places,    \* where each scanner is: the time its last position was observed
  batches,   \* the batch of each request thread: its observations and what it read
  sweep,     \* the presence sweep: the devices that it means to change
  spent,     \* how much of the Budget is spent
  accidents  \* history: what met one of the known accidents (see Properties)

vars == <<db, now, places, batches, sweep, spent, accidents>>

Addresses == Public \cup Random
NoScanner == "none"
Nowhere == [scanner |-> NoScanner, at |-> 0]
Places == {Nowhere} \cup [scanner : Scanners, at : 0 .. Horizon]
NoBatch == [batch |-> "none"]
NoObservation == [observation |-> "none"]

Absent == {"temporarily_missing", "offline", "identity_expired"}
Statuses == Absent \cup {"newly_detected", "active", "returned", "merged", "split_empty"}

Device ==
  [address : Addresses, status : Statuses, ignored : BOOLEAN, known : BOOLEAN,
   scanner : Scanners \cup {NoScanner}, place : Places, seen : 0 .. Horizon]
Row ==
  [obs : Observations, identity : 1 .. Budget, device : 1 .. MaxDevices, at : 0 .. Horizon,
   anchor : Places]
Link ==
  [predecessor : 1 .. Budget, successor : 1 .. Budget, from : 1 .. MaxDevices,
   to : 1 .. MaxDevices, method : {"apple", "rssi", "token"},
   status : {"proposal", "accepted", "rejected"}]
Database ==
  [identities : Seq(Addresses), devices : Seq(Device), rows : SUBSET Row, links : Seq(Link),
   enriched : SUBSET [identity : 1 .. Budget, device : 1 .. MaxDevices]]

Init ==
  /\ db = [identities |-> <<>>, devices |-> <<>>, rows |-> {}, links |-> <<>>, enriched |-> {}]
  /\ now = 0
  /\ places = [s \in Scanners |-> Nowhere]
  /\ batches = [t \in Requests |-> NoBatch]
  /\ sweep = {}
  /\ spent = 0
  /\ accidents = [doubled |-> {}, refused |-> {}, raced |-> {}, twinned |-> {},
                  clouded |-> {}, hidden |-> {}, parted |-> {}, misplaced |-> {}]

RowsOf(d, s) == {r \in d.rows : r.device = s}
Evidence(d, identity) == {r \in d.rows : r.identity = identity}
Homes(d, identity) == {r.device : r \in Evidence(d, identity)}
Latest(rows) == {r \in rows : \A q \in rows : q.at <= r.at}
Earliest(rows) == {r \in rows : \A q \in rows : r.at <= q.at}
Displaced(device) == device.place # Nowhere /\ device.place.scanner # device.scanner
Retired(device) == device.status \in {"merged", "split_empty"}

-----------------------------------------------------------------------------
(* One observation.                                                        *)

\* find_or_create_observed_identity: the rows it finds.
Identities(d, address) == {i \in DOMAIN d.identities : d.identities[i] = address}

\* Fault: the latest observation of the identity is not looked for.
DevicesByAddress(d, identity, address) ==
  LET same == {s \in DOMAIN d.devices : d.devices[s].address = address}
  IN  IF address \in Public /\ same # {}
        THEN {s \in same : \A u \in same : d.devices[u].seen <= d.devices[s].seen}
        ELSE {0}

\* find_or_create_logical_device: the device of the latest observation of the
\* identity, else one with the same public address, else a new one, which is 0.
DevicesFor(d, identity, address) ==
  LET same == {s \in DOMAIN d.devices : d.devices[s].address = address}
  IN  IF Evidence(d, identity) # {} THEN {r.device : r \in Latest(Evidence(d, identity))}
      ELSE IF address \in Public /\ same # {}
        THEN {s \in same : \A u \in same : d.devices[u].seen <= d.devices[s].seen}
      ELSE {0}

NewDevice(address, scanner, place, at) ==
  [address |-> address, status |-> "newly_detected", ignored |-> FALSE, known |-> FALSE,
   scanner |-> scanner, place |-> place, seen |-> at]

\* observed_again_status and what process_observation makes of it.
Again(status) ==
  IF status \in {"temporarily_missing", "offline"} THEN "returned"
  ELSE IF status \in {"identity_expired", "newly_detected", "returned"} THEN "active"
  ELSE status

\* Fault: the coordinates of the scanner before stay.
AnchoredByName(device, scanner, place, at) ==
  IF place # Nowhere /\ at - place.at \in -PlaceAge .. PlaceAge
    THEN [device EXCEPT !.scanner = scanner, !.place = place]
    ELSE [device EXCEPT !.scanner = scanner]

\* The location anchor moves to another scanner, and with a scanner whose
\* position is current (scanner_position_is_current, for the browser's).
Anchored(device, scanner, place, at) ==
  LET current == place # Nowhere /\ at - place.at \in -PlaceAge .. PlaceAge
      elsewhere == device.scanner # scanner
  IN  IF elsewhere
        THEN [device EXCEPT !.scanner = scanner, !.place = IF current THEN place ELSE Nowhere]
      ELSE IF current THEN [device EXCEPT !.place = place]
      ELSE device

\* Fault: an older observation counts as the last one.
SeenLate(device, scanner, place, at) ==
  [Anchored(device, scanner, place, at) EXCEPT !.status = Again(@), !.seen = at]

\* process_observation: an observation that is older than the last one moves
\* nothing, but it is stored.
Seen(device, scanner, place, at) ==
  IF at >= device.seen
    THEN [Anchored(device, scanner, place, at) EXCEPT !.status = Again(@), !.seen = at]
    ELSE device

-----------------------------------------------------------------------------
(* Records: what an operator or correlation does to devices.               *)

\* merge_logical_devices.
CanMerge(d, canonical, merged) == canonical # merged /\ d.devices[canonical].status # "merged"

\* Fault: the observations stay with the device that was merged.
MergedInName(d, canonical, merged) ==
  [d EXCEPT
     !.devices[canonical] = [@ EXCEPT !.ignored = FALSE],
     !.devices[merged] = [@ EXCEPT !.ignored = TRUE, !.status = "merged"]]

Merged(d, canonical, merged) ==
  LET from == d.devices[merged]
      to == d.devices[canonical]
      newer == from.seen >= to.seen
      Moved(r) == IF r.device = merged THEN [r EXCEPT !.device = canonical] ELSE r
  IN  [d EXCEPT
         !.devices[canonical] = [IF newer THEN from ELSE to EXCEPT
                                   !.known = from.known \/ to.known, !.ignored = FALSE],
         !.devices[merged] = [from EXCEPT !.ignored = TRUE, !.status = "merged",
                                          !.scanner = NoScanner, !.place = Nowhere],
         !.rows = {Moved(r) : r \in @},
         !.enriched = {Moved(e) : e \in @}]

\* A merge leaves its mark on the canonical device.
MergeAccidents(a, d, canonical, merged) ==
  LET Spread(set) == IF merged \in set THEN set \cup {canonical} ELSE set
      result == Merged(d, canonical, merged).devices[canonical]
  IN  [a EXCEPT !.clouded = Spread(@), !.misplaced = Spread(@),
                !.hidden = IF Retired(result) THEN Spread(@) \cup {canonical} ELSE Spread(@)]

\* Fault: the state of a tracking session.
StatusOfSession(seen, address) ==
  IF address \in Random /\ now - seen >= MissingAfter THEN "expired" ELSE "active"

\* _status_for_last_seen.
StatusByAge(seen, address) ==
  IF address \in Random /\ now - seen >= MissingAfter THEN "identity_expired"
  ELSE IF now - seen >= OfflineAfter THEN "offline"
  ELSE IF now - seen >= MissingAfter THEN "temporarily_missing"
  ELSE "active"

\* _refresh_device_from_observations: by the latest row of the device.
Refreshed(d, s) ==
  LET FromRow(r) ==
        LET address == d.identities[r.identity]
        IN  [d.devices[s] EXCEPT !.ignored = FALSE, !.address = address, !.seen = r.at,
                                 !.status = StatusByAge(r.at, address),
                                 !.scanner = r.obs.scanner, !.place = r.anchor]
      emptied == [d.devices[s] EXCEPT !.status = "split_empty", !.ignored = TRUE,
                                      !.scanner = NoScanner, !.place = Nowhere]
  IN  IF RowsOf(d, s) = {} THEN {emptied} ELSE {FromRow(r) : r \in Latest(RowsOf(d, s))}

\* split_logical_identity, up to the refresh of the two devices.
Parted(d, identity, source, target) ==
  LET Moved(r) == IF r.device = source /\ r.identity = identity
                    THEN [r EXCEPT !.device = target] ELSE r
      fresh == [address |-> d.identities[identity], status |-> "active", ignored |-> FALSE,
                known |-> FALSE, scanner |-> NoScanner, place |-> Nowhere, seen |-> 0]
  IN  [d EXCEPT !.devices = IF target \in DOMAIN @ THEN @ ELSE Append(@, fresh),
                !.rows = {Moved(r) : r \in @},
                !.enriched = {Moved(e) : e \in @}]

-----------------------------------------------------------------------------
(* Batches.                                                                *)

Spend == spent < Budget /\ spent' = spent + 1

\* What process_observation reads before its first write: the identity, and if
\* there is one its device, and the devices that have rows of the identity.
Reads(d, b, identity) ==
  {[b EXCEPT !.identity = identity, !.device = s, !.homes = Homes(d, identity),
             !.row = IF s = 0 THEN @ ELSE d.devices[s]] :
     s \in DevicesFor(d, identity, b.obs.address)}

\* observations_batch up to its first write.  A second observation was captured
\* after the first, by the order of the scanner's ring.
OpenBatch(t, obs, again) ==
  LET found == Identities(db, obs.address)
      last == IF again = NoObservation THEN obs ELSE again
      b == [obs |-> obs, again |-> again, at |-> now - obs.delay, then |-> now - last.delay,
            place |-> places[obs.scanner], identity |-> 0, device |-> 0, homes |-> {},
            row |-> NewDevice(obs.address, obs.scanner, places[obs.scanner], now - obs.delay)]
  IN  /\ batches[t] = NoBatch
      /\ again # obs /\ <<last.scanner, last.address>> = <<obs.scanner, obs.address>>
      /\ last.delay <= obs.delay /\ obs.delay <= now
      /\ \A r \in db.rows : r.obs \notin {obs, again}
      /\ Spend
      /\ IF Cardinality(found) > 1
           THEN /\ accidents' = [accidents EXCEPT !.refused = @ \cup {obs.address}]
                /\ UNCHANGED batches
           ELSE /\ \E read \in IF found = {} THEN {b} ELSE UNION {Reads(db, b, i) : i \in found} :
                     batches' = [batches EXCEPT ![t] = read]
                /\ UNCHANGED accidents
      /\ UNCHANGED <<db, now, places, sweep>>

\* What the three methods ask of a pair: two random addresses, of which one is
\* not seen any more when the other appears, that are no pair of this method
\* yet (_correlation_exists).  _logical_for_identity gives the devices.
Candidates(d, successor, method, status) ==
  {m \in [predecessor : DOMAIN d.identities, successor : {successor}, from : DOMAIN d.devices,
          to : DOMAIN d.devices, method : {method}, status : {status}] :
     /\ m.predecessor # successor
     /\ {d.identities[m.predecessor], d.identities[successor]} \subseteq Random
     /\ \E last \in Latest(Evidence(d, m.predecessor)), first \in Earliest(Evidence(d, successor)) :
          last.at <= first.at /\ last.device = m.from
     /\ m.to \in {r.device : r \in Latest(Evidence(d, successor))}
     /\ \A k \in DOMAIN d.links :
          <<d.links[k].predecessor, d.links[k].successor, d.links[k].method>>
            # <<m.predecessor, successor, method>>}

\* Did the scanner that saw the successor first also see one of these rows?
SameScanner(d, rows, successor) ==
  \E r \in rows, first \in Earliest(Evidence(d, successor)) :
    r.at <= first.at /\ r.obs.scanner = first.obs.scanner

\* _accepted_correlation_for_successor.
Settled(d, successor) ==
  \E k \in DOMAIN d.links : d.links[k].successor = successor /\ d.links[k].status = "accepted"

\* run_apple_continuity_correlation.
AppleMatches(d, successor) ==
  {m \in Candidates(d, successor, "apple", "proposal") :
     m.from # m.to /\ SameScanner(d, Evidence(d, m.predecessor), successor)}

\* run_identity_correlation: the approved tokens, whose matches are accepted.
TokenMatches(d, successor) ==
  {m \in Candidates(d, successor, "token", "accepted") : ~Settled(d, successor)}

\* run_identity_correlation: the pairs that the assignment may choose.
RssiMatches(d, successor) ==
  {m \in Candidates(d, successor, "rssi", "proposal") :
     ~Settled(d, successor) /\ SameScanner(d, Latest(Evidence(d, m.predecessor)), successor)}

Matches(d, successor) ==
  AppleMatches(d, successor) \cup TokenMatches(d, successor) \cup RssiMatches(d, successor)

\* Fault: an accepted match is recorded, and the devices stay apart.
CorrelatedOnly(d, match) == [d EXCEPT !.links = Append(@, match)]

\* run_identity_correlation, and _merge_accepted_identity_correlation.
Correlated(d, match) ==
  LET linked == [d EXCEPT !.links = Append(@, match)]
  IN  IF match.method = "token" /\ CanMerge(d, match.from, match.to)
        THEN Merged(linked, match.from, match.to) ELSE linked

\* Another batch has made an identity of the address of a new one meanwhile.
Doubled(b) ==
  b.identity \notin DOMAIN db.identities /\ Identities(db, b.obs.address) # {}

\* The batch stores a second observation, which fails if it finds two identities.
StoresAgain(b) == b.again # NoObservation /\ ~Doubled(b)

\* The second observation of a random address without rows does not find the
\* device of the first: the row that would name it is not flushed.
Twins(b) == StoresAgain(b) /\ b.device = 0 /\ b.obs.address \in Random

FirstSeen(b) == Seen(b.row, b.obs.scanner, b.place, b.at)

\* The device that the first observation was assigned to, after the loop.
LastSeen(b) ==
  IF StoresAgain(b) /\ ~Twins(b)
    THEN Seen(FirstSeen(b), b.obs.scanner, b.place, b.then) ELSE FirstSeen(b)

\* Fault: every observation makes an identity.
StoredAnew(b) ==
  LET s == IF b.device = 0 THEN Len(db.devices) + 1 ELSE b.device
  IN  [db EXCEPT
         !.identities = Append(@, b.obs.address),
         !.devices = IF b.device = 0 THEN Append(@, LastSeen(b)) ELSE [@ EXCEPT ![s] = LastSeen(b)],
         !.rows = @ \cup {[obs |-> b.obs, identity |-> Len(db.identities) + 1, device |-> s,
                           at |-> b.at, anchor |-> FirstSeen(b).place]}]

\* The rows once the first observation is written, ...
StoredFirst(b) ==
  LET s == IF b.device = 0 THEN Len(db.devices) + 1 ELSE b.device
  IN  [db EXCEPT
         !.identities = IF b.identity \in DOMAIN @ THEN @ ELSE Append(@, b.obs.address),
         !.devices = IF b.device = 0 THEN Append(@, LastSeen(b))
                      ELSE [@ EXCEPT ![s] = WrittenRow(db.devices[s], b.row, LastSeen(b))],
         !.rows = @ \cup {[obs |-> b.obs, identity |-> b.identity, device |-> s, at |-> b.at,
                           anchor |-> FirstSeen(b).place]}]

\* ... and with the second beside it, or on a device of its own.
Stored(b) ==
  LET first == StoredFirst(b)
      twin == Seen(NewDevice(b.obs.address, b.obs.scanner, b.place, b.then),
                   b.obs.scanner, b.place, b.then)
      second == [obs |-> b.again, identity |-> b.identity, at |-> b.then,
                 device |-> IF b.device = 0 THEN Len(first.devices) ELSE b.device,
                 anchor |-> LastSeen(b).place]
  IN  IF Twins(b)
        THEN [first EXCEPT
                !.devices = Append(@, twin),
                !.rows = @ \cup {[second EXCEPT !.device = @ + 1, !.anchor = twin.place]}]
      ELSE IF StoresAgain(b) THEN [first EXCEPT !.rows = @ \cup {second}]
      ELSE first

BatchAccidents(b) ==
  LET known == b.device # 0
      old == b.identity \in DOMAIN db.identities
      lost == Doubled(b) /\ b.again # NoObservation /\ \A r \in db.rows : r.obs # b.again
      Marked(set, condition, element) == IF condition THEN set \cup {element} ELSE set
  IN  [accidents EXCEPT
         !.doubled = Marked(@, Doubled(b), b.obs.address),
         !.refused = Marked(@, lost, b.obs.address),
         !.raced = Marked(@, Homes(db, b.identity) \ b.homes # {}, b.identity),
         !.twinned = Marked(@, Twins(b), b.identity),
         !.clouded = Marked(@, known /\ db.devices[b.device] # b.row, b.device),
         !.hidden = Marked(@, known /\ b.homes = {} /\ Retired(b.row), b.device),
         !.parted = Marked(@, old /\ Homes(db, b.identity) = {}, b.identity)]

\* process_batch from its first write to its commit.
CommitBatch(t) ==
  LET read == batches[t]
  IN  /\ read # NoBatch
      /\ batches' = [batches EXCEPT ![t] = NoBatch]
      /\ UNCHANGED <<now, places, sweep, spent>>
      /\ IF \E r \in db.rows :
              r.obs = read.obs \/ (read.identity # 0 /\ r.obs = read.again)
           THEN UNCHANGED <<db, accidents>>  \* uq_observation_scanner_batch_item
           ELSE \E b \in IF read.identity # 0 THEN {read}
                         ELSE Reads(db, read, Len(db.identities) + 1) :
                  LET stored == Stored(b)
                      marked == BatchAccidents(b)
                  IN  /\ Len(stored.devices) <= MaxDevices
                      /\ \/ db' = stored /\ accidents' = marked
                         \/ \E match \in Matches(stored, b.identity) :
                              /\ db' = Correlated(stored, match)
                              /\ accidents' =
                                   IF match.method # "token" \/ match.from = match.to THEN marked
                                   ELSE IF CanMerge(stored, match.from, match.to)
                                     THEN MergeAccidents(marked, stored, match.from, match.to)
                                   ELSE [marked EXCEPT !.parted = @ \cup {b.identity}]

-----------------------------------------------------------------------------
(* The presence sweep.                                                     *)

\* presence_identity_bases: a random address that nothing ties to a device.
Unresolved(d, s) ==
  /\ d.devices[s].address \in Random
  /\ ~d.devices[s].known
  /\ \A e \in d.enriched : e.device # s
  /\ Cardinality({r.identity : r \in RowsOf(d, s)}) <= 1

\* refresh_presence_states and evaluate_presence_status, for one device.
Swept(d, s) ==
  LET device == d.devices[s]
      age == now - device.seen
  IN  IF device.ignored THEN device
      ELSE IF Unresolved(d, s)
        THEN [device EXCEPT !.status = IF age >= MissingAfter THEN "identity_expired" ELSE @]
      ELSE [device EXCEPT !.status =
              IF age >= OfflineAfter THEN "offline"
              ELSE IF age >= MissingAfter /\ @ # "offline" THEN "temporarily_missing"
              ELSE @]

BeginSweep ==
  LET read == {[device |-> s, old |-> db.devices[s], new |-> Swept(db, s)] :
                 s \in DOMAIN db.devices}
  IN  /\ sweep = {}
      /\ sweep' = {c \in read : c.new # c.old}
      /\ sweep' # {}
      /\ Spend
      /\ UNCHANGED <<db, now, places, batches, accidents>>

CommitSweep ==
  /\ sweep # {}
  /\ sweep' = {}
  /\ db' = [db EXCEPT !.devices = [s \in DOMAIN @ |->
       IF \E c \in sweep : c.device = s
         THEN LET c == CHOOSE c \in sweep : c.device = s IN WrittenRow(@[s], c.old, c.new)
         ELSE @[s]]]
  /\ accidents' = [accidents EXCEPT !.clouded = @ \cup
       {c.device : c \in {c \in sweep : db.devices[c.device] # c.old}}]
  /\ UNCHANGED <<now, places, batches, spent>>

-----------------------------------------------------------------------------
(* The other requests.                                                     *)

Devices == DOMAIN db.devices

Request(next, marks) ==
  /\ Spend
  /\ db' = next
  /\ accidents' = marks
  /\ UNCHANGED <<now, places, batches, sweep>>

\* record_scanner_position: only a newer position is taken.
MovePlace(scanner) ==
  /\ places[scanner] = Nowhere \/ now > places[scanner].at
  /\ Spend
  /\ places' = [places EXCEPT ![scanner] = [scanner |-> scanner, at |-> now]]
  /\ UNCHANGED <<db, now, batches, sweep, accidents>>

\* record_gatt_enrichment, of a report that has a stable identifier.
Enrich(r) ==
  LET record == [identity |-> r.identity, device |-> r.device]
  IN  /\ record \notin db.enriched
      /\ Request([db EXCEPT !.enriched = @ \cup {record}], accidents)

\* _apply_tracking_presence_evidence.
TrackingEvidence(r) ==
  LET device == db.devices[r.device]
      status == IF device.status \in Absent THEN "returned"
                ELSE IF device.status \in {"newly_detected", "returned"} THEN "active"
                ELSE device.status
      next == [db EXCEPT !.devices[r.device].seen = now, !.devices[r.device].status = status]
  IN  ~device.ignored /\ next # db /\ Request(next, accidents)

\* apply_manual_correlation and patch_device_metadata.
MarkKnown(s) ==
  ~db.devices[s].known /\ Request([db EXCEPT !.devices[s].known = TRUE], accidents)

Ignore(s, ignored) ==
  /\ db.devices[s].ignored # ignored
  /\ Request([db EXCEPT !.devices[s].ignored = ignored], accidents)

Merge(source, target) ==
  /\ CanMerge(db, target, source)
  /\ Request(Merged(db, target, source), MergeAccidents(accidents, db, target, source))

\* The device that was split off is refreshed, and so is the source.
Split(identity, source, target) ==
  LET parted == Parted(db, identity, source, target)
  IN  /\ \E r \in db.rows : r.identity = identity /\ r.device = source
      /\ source # target /\ target <= MaxDevices
      /\ \E to \in Refreshed(parted, target), from \in Refreshed(parted, source) :
           Request([parted EXCEPT !.devices[target] = to, !.devices[source] = from],
                   [accidents EXCEPT
                      !.parted = @ \cup {identity},
                      !.misplaced = @ \cup
                        (IF Displaced(to) THEN {target} ELSE {})
                        \cup (IF Displaced(from) THEN {source} ELSE {})])

Reject(k) ==
  /\ db.links[k].status = "proposal"
  /\ Request([db EXCEPT !.links[k].status = "rejected"], accidents)

\* The devices are the ones of the time of the proposal.
Accept(k) ==
  LET l == db.links[k]
      accepted == [db EXCEPT !.links[k].status = "accepted"]
      stale == Homes(db, l.predecessor) \ {l.from} # {} \/ Homes(db, l.successor) \ {l.to} # {}
      marked == [accidents EXCEPT !.parted = IF stale THEN @ \cup {l.successor} ELSE @]
  IN  /\ l.status = "proposal"
      /\ IF l.from = l.to THEN Request(accepted, marked)
         ELSE /\ CanMerge(db, l.from, l.to)
              /\ Request(Merged(accepted, l.from, l.to), MergeAccidents(marked, db, l.from, l.to))

\* cleanup_retained_history, of the observations.
Retain ==
  /\ \E r \in db.rows : r.at + Retention < now
  /\ db' = [db EXCEPT !.rows = {r \in @ : r.at + Retention >= now}]
  /\ UNCHANGED <<now, places, batches, sweep, spent, accidents>>

Tick ==
  /\ now < Horizon
  /\ now' = now + 1
  /\ UNCHANGED <<db, places, batches, sweep, spent, accidents>>

Batch(t) ==
  \/ \E obs \in Observations, again \in Observations \cup {NoObservation} :
       OpenBatch(t, obs, again)
  \/ CommitBatch(t)

Operator ==
  \/ \E s \in Devices : MarkKnown(s) \/ Ignore(s, TRUE) \/ Ignore(s, FALSE)
  \/ \E s, u \in Devices : Merge(s, u)
  \/ \E i \in DOMAIN db.identities, s \in Devices, u \in 1 .. Len(db.devices) + 1 : Split(i, s, u)
  \/ \E k \in DOMAIN db.links : Accept(k) \/ Reject(k)

Next ==
  \/ \E t \in Requests : Batch(t)
  \/ BeginSweep
  \/ CommitSweep
  \/ Operator
  \/ \E scanner \in Mobile : MovePlace(scanner)
  \/ \E r \in db.rows : Enrich(r) \/ TrackingEvidence(r)
  \/ Retain
  \/ Tick

Spec == Init /\ [][Next]_vars

-----------------------------------------------------------------------------
(* Properties.  The accidents, which the code does not guard against:      *)
(*   doubled    an address of which two overlapping batches each made an   *)
(*              identity;                                                  *)
(*   refused    an address whose observations end in an error;             *)
(*   raced      an identity whose rows were moved while a batch had its    *)
(*              device in hand;                                            *)
(*   twinned    an identity to which one batch gave two devices, since it  *)
(*              brought two observations of a random address without rows; *)
(*   clouded    a device that a batch or a sweep wrote over a change it    *)
(*              had not read, and what it was merged into;                 *)
(*   hidden     a device that took over the status of a device that was    *)
(*              merged or emptied before, or got an observation when it    *)
(*              was one itself, found by its public address;               *)
(*   parted     an identity that was split off, whose proposal was         *)
(*              accepted for devices that no longer had it, or that was    *)
(*              seen again after retention had removed all its rows;       *)
(*   misplaced  a device that a split gave a place of another scanner.     *)

TypeOK ==
  /\ db \in Database
  /\ now \in 0 .. Horizon
  /\ places \in [Scanners -> Places]
  /\ \A t \in Requests : batches[t] = NoBatch \/
       batches[t] \in [obs : Observations, again : Observations \cup {NoObservation},
                       at : 0 .. Horizon, then : 0 .. Horizon, place : Places,
                       identity : 0 .. Budget, device : 0 .. MaxDevices,
                       homes : SUBSET (1 .. MaxDevices), row : Device]
  /\ sweep \subseteq [device : 1 .. MaxDevices, old : Device, new : Device]
  /\ spent \in 0 .. Budget
  /\ accidents \in [doubled : SUBSET Addresses, refused : SUBSET Addresses,
                    raced : SUBSET (1 .. Budget), twinned : SUBSET (1 .. Budget),
                    clouded : SUBSET (1 .. MaxDevices), hidden : SUBSET (1 .. MaxDevices),
                    parted : SUBSET (1 .. Budget), misplaced : SUBSET (1 .. MaxDevices)]

\* merge_logical_devices and split_logical_identity leave no observation
\* behind: a device with observations is neither merged nor emptied, so that
\* the dashboard lists it, but for the accidents.
EvidenceShown ==
  \A r \in db.rows :
    Retired(db.devices[r.device]) => r.device \in accidents.hidden \cup accidents.clouded

\* _logical_for_identity: the latest row of an identity names its canonical
\* device, and the others with it, since all its rows are always moved together.
\* The comment there says so of every identity; it is not so of those whose
\* rows one batch, or an overlapping one, put on two devices.
LatestRowIsCanonical ==
  \A i \in DOMAIN db.identities \ (accidents.raced \cup accidents.twinned) :
    Cardinality(Homes(db, i)) <= 1

\* process_observation, merges, splits, sweeps and tracking samples in any
\* order: no device was seen later than it says, and one that is said to be
\* absent has not been seen for that long.
PresenceTrue ==
  \A s \in Devices \ accidents.clouded :
    LET device == db.devices[s]
    IN  /\ \A r \in RowsOf(db, s) : r.at <= device.seen
        /\ device.status \in Absent => now - device.seen >= MissingAfter
        /\ device.status = "offline" => now - device.seen >= OfflineAfter

\* process_observation and merge_logical_devices: the coordinates of a device
\* are those of the scanner that it is said to be near.
AnchorOfScanner ==
  \A s \in Devices \ (accidents.clouded \cup accidents.misplaced) : ~Displaced(db.devices[s])

\* _merge_accepted_identity_correlation: two identities that are accepted to be
\* one device have their observations on one device until the operator parts
\* them, but for identities whose rows were on two devices: the merge moves the
\* rows of the device that the latest one names.
AcceptedTogether ==
  \A k \in DOMAIN db.links :
    LET l == db.links[k]
        pair == {l.predecessor, l.successor}
        astray == accidents.parted \cup accidents.raced \cup accidents.twinned
    IN  l.status = "accepted" /\ pair \cap astray = {}
          => Cardinality(Homes(db, l.predecessor) \cup Homes(db, l.successor)) <= 1

\* find_or_create_observed_identity: the observations of an address are
\* refused only when two overlapping batches each made an identity of it.
RefusedOnlyAfterRace == accidents.refused \subseteq accidents.doubled
=============================================================================
