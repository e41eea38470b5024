-------------------------- MODULE TrackingSessions --------------------------
(***************************************************************************)
(* The tracking sessions of one scanner on the backend.  Every request has *)
(* a thread and a database session of its own, and so has the maintenance  *)
(* loop.  A thread reads rows, works on its copies, and one commit writes  *)
(* the columns it changed and the rows it added: SELECT opens no           *)
(* transaction, so what another thread commits in between is neither seen  *)
(* nor undone.  That is the pair of actions Begin and Commit, and each     *)
(* handler is the operator that says what the database would be if its     *)
(* reads were still true.                                                  *)
(*                                                                         *)
(* A session has one assignment (start_tracking_session inserts it); the   *)
(* columns of the two rows are one record here.  The configuration version *)
(* that a change of focus bumps is left out: the firmware takes whatever   *)
(* configuration comes, and nothing else compares versions.                *)
(***************************************************************************)
EXTENDS Naturals, Sequences, FiniteSets, UnitOfWork

CONSTANTS
  Modes,         \* "fixed" and "walk"
  Devices,       \* logical devices that the scanner observed
  Requests,      \* request threads
  Maintenance,   \* the thread of refresh_runtime_states
  Samples,       \* sample ids
  Positions,     \* position ids
  Lease,         \* TRACKING_LEASE_SECONDS
  StaleAfter,    \* tracking_stale_seconds
  OfflineAfter,  \* heartbeat_timeout_seconds
  Horizon,       \* bound on the time
  MaxSessions,   \* bound on the sessions started
  Budget         \* bound on requests, failed transactions and new identities

ASSUME ThreadsAssumption == Maintenance \notin Requests
ASSUME FiniteAssumption == IsFiniteSet(Requests) /\ IsFiniteSet(Samples)
ASSUME ModesAssumption == Modes \subseteq {"fixed", "walk"}
ASSUME BoundsAssumption ==
  /\ {StaleAfter, OfflineAfter, Horizon, MaxSessions, Budget} \subseteq Nat
  /\ Lease \in Nat \ {0}

VARIABLES
  db,         \* the committed rows
  now,        \* utcnow()
  targets,    \* what _tracking_targets finds of each device
  pending,    \* what each thread read and means to commit
  spent,      \* how much of the Budget is spent
  (* History. *)
  overlapped, \* sessions brought into force by a commit that overlapped another one
  raced       \* sessions of which a commit wrote over something it had not read

vars == <<db, now, targets, pending, spent, overlapped, raced>>

Threads == Requests \cup {Maintenance}

None == [time |-> 0]
At(t) == [time |-> t + 1]
Instants == {None} \cup {At(t) : t \in 0 .. Horizon}

ActiveStates ==
  {"arming", "waiting_for_advertisement", "live", "stale", "scanner_offline",
   "identity_changed"}
States == ActiveStates \cup {"stopped", "expired"}

Session ==
  [device : Devices, mode : Modes, state : States, assignment : States,
   targets : 0 .. Budget, expires : 0 .. Horizon, ended : Instants,
   last : Instants, summary : 0 .. Cardinality(Samples)]
Sample == [session : 1 .. MaxSessions, id : Samples]
Position == [session : 1 .. MaxSessions, id : Positions]
Database ==
  [sessions : Seq(Session), samples : SUBSET Sample, positions : SUBSET Position,
   stopEvents : SUBSET (1 .. MaxSessions),
   scanner : [status : {"online", "offline"}, seen : 0 .. Horizon]]

\* _active_session tests the two one after the other; the focus needs both.
Active(row) == row.state \in ActiveStates
Over(row) == row.expires <= now
InForce(d) == {s \in DOMAIN d.sessions : Active(d.sessions[s]) /\ ~Over(d.sessions[s])}

\* Nothing to write; "then" names what the request does after its commit.
Idle(then) == [stage |-> "idle", then |-> then]

Init ==
  /\ db = [sessions |-> <<>>, samples |-> {}, positions |-> {}, stopEvents |-> {},
           scanner |-> [status |-> "online", seen |-> 0]]
  /\ now = 0
  /\ targets = [d \in Devices |-> 0]
  /\ pending = [t \in Threads |-> Idle("none")]
  /\ spent = 0
  /\ overlapped = {}
  /\ raced = {}

-----------------------------------------------------------------------------
(* The handlers, as functions of the rows they read.                       *)

Placed(row, state) == [row EXCEPT !.state = state, !.assignment = state]

\* _session_summary, of which only the number of samples is kept.
Summary(d, s) == Cardinality({r \in d.samples : r.session = s})

\* _finish_session; create_event leaves an event that is there alone.
Finish(d, s, state) ==
  IF Active(d.sessions[s])
    THEN [d EXCEPT !.sessions[s] = [Placed(@, state) EXCEPT !.ended = At(now),
                                                            !.summary = Summary(d, s)],
                   !.stopEvents = @ \cup {s}]
    ELSE d

\* Fault: the lease goes on from its end.
RenewedFromEnd(d, s) == [d EXCEPT !.sessions[s].expires = @ + Lease]

Renewed(d, s) == [d EXCEPT !.sessions[s].expires = now + Lease]

\* _active_session: what becomes of an active session, or of one that is over.
IfActive(d, s, then) ==
  IF ~Active(d.sessions[s]) THEN d
  ELSE IF Over(d.sessions[s]) THEN Finish(d, s, "expired")
  ELSE then

\* Fault: only a session of the same device is in the way.
StartOfAnother(d, device, mode) ==
  IF \E s \in InForce(d) : d.sessions[s].device = device
    THEN d
    ELSE [d EXCEPT !.sessions = Append(@,
            [device |-> device, mode |-> mode, state |-> "arming", assignment |-> "arming",
             targets |-> targets[device], expires |-> now + Lease,
             ended |-> None, last |-> None, summary |-> 0])]

\* start_tracking_session.
Start(d, device, mode) ==
  IF InForce(d) # {}
    THEN LET s == CHOOSE s \in InForce(d) : TRUE
         IN  IF d.sessions[s].device = device THEN Renewed(d, s) ELSE d
    ELSE LET state == IF d.scanner.status = "online" THEN "arming" ELSE "scanner_offline"
         IN  [d EXCEPT !.sessions = Append(@,
                [device |-> device, mode |-> mode, state |-> state, assignment |-> state,
                 targets |-> targets[device], expires |-> now + Lease,
                 ended |-> None, last |-> None, summary |-> 0])]

\* record_tracking_position.
Place(d, s, id) ==
  IfActive(d, s, IF d.sessions[s].mode = "walk"
                   THEN [d EXCEPT !.positions = @ \cup {[session |-> s, id |-> id]}]
                   ELSE d)

\* Fault: a late sample makes the session live, too.
IngestLate(d, s, id, delayed) ==
  IfActive(d, s,
    [d EXCEPT !.samples = @ \cup {[session |-> s, id |-> id]},
              !.sessions[s] = [Placed(@, "live") EXCEPT !.last = IF delayed THEN @ ELSE At(now)]])

\* ingest_tracking_samples, for a sample of a target.
Ingest(d, s, id, delayed) ==
  IfActive(d, s,
    LET stored == [d EXCEPT !.samples = @ \cup {[session |-> s, id |-> id]}]
    IN  IF delayed THEN stored
        ELSE [stored EXCEPT !.sessions[s] = [Placed(@, "live") EXCEPT !.last = At(now)]])

\* Fault: the state of the session is not looked at.
HeartbeatOfAny(d, s, reported) ==
  [d EXCEPT !.sessions[s] = Placed(@, IF reported # "inactive"
                                        THEN "waiting_for_advertisement" ELSE "arming")]

\* record_tracking_heartbeat, with the state that the firmware reports.
Heartbeat(d, s, reported) ==
  LET row == d.sessions[s]
      session(state) == IF row.state \in {"live", "stale"} THEN row.state ELSE state
  IN  IF ~Active(row) THEN d
      ELSE IF reported # "inactive"
        THEN [d EXCEPT !.sessions[s].assignment =
                         IF @ = "live" THEN @ ELSE "waiting_for_advertisement",
                       !.sessions[s].state = session("waiting_for_advertisement")]
      ELSE IF row.assignment = "scanner_offline" THEN d
      ELSE [d EXCEPT !.sessions[s].assignment = "arming",
                     !.sessions[s].state = session("arming")]

\* refresh_tracking_targets_for_scanner; a session whose lease is over counts.
Retarget(d) ==
  LET Retargeted(row) ==
        IF Active(row) /\ row.targets # targets[row.device]
          THEN [Placed(row, "identity_changed") EXCEPT !.targets = targets[row.device]]
          ELSE row
  IN  [d EXCEPT !.sessions = [s \in DOMAIN @ |-> Retargeted(@[s])]]

\* refresh_tracking_states: what becomes of one session that is not over.
Watched(d, row) ==
  IF d.scanner.status # "online"
    THEN IF row.assignment = "scanner_offline" THEN row ELSE Placed(row, "scanner_offline")
  ELSE IF /\ row.last # None
          /\ now + 1 - row.last.time > StaleAfter
          /\ row.assignment = "live"
    THEN Placed(row, "stale")
  ELSE row

\* Fault: a session of a scanner that is offline is passed over.
SweepOnline(d) ==
  IF d.scanner.status # "online" THEN d
  ELSE LET over == {s \in DOMAIN d.sessions : Active(d.sessions[s]) /\ Over(d.sessions[s])}
       IN  [d EXCEPT !.sessions = [s \in DOMAIN @ |->
                       IF s \in over THEN Finish(d, s, "expired").sessions[s] ELSE @[s]],
                     !.stopEvents = @ \cup over]

\* refresh_tracking_states: all active sessions in one commit.
Sweep(d) ==
  LET over == {s \in DOMAIN d.sessions : Active(d.sessions[s]) /\ Over(d.sessions[s])}
      swept(s) == IF s \in over THEN Finish(d, s, "expired").sessions[s]
                  ELSE IF Active(d.sessions[s]) THEN Watched(d, d.sessions[s])
                  ELSE d.sessions[s]
  IN  [d EXCEPT !.sessions = [s \in DOMAIN @ |-> swept(s)],
                !.stopEvents = @ \cup over]

-----------------------------------------------------------------------------
(* Transactions.                                                           *)

Spend == spent < Budget /\ spent' = spent + 1

\* What a request read and what it would have the database be.  A request
\* that writes nothing, now or later, is not worth a step.
Begin(t, new, then) ==
  /\ new # db \/ then # pending[t].then
  /\ pending' = [pending EXCEPT ![t] =
       IF new = db THEN Idle(then)
                   ELSE [stage |-> "commit", old |-> db, new |-> new, then |-> then]]
  /\ IF t # Maintenance /\ pending[t].then = "none" THEN Spend ELSE UNCHANGED spent
  /\ UNCHANGED <<db, now, targets, overlapped, raced>>

\* A commit writes the columns that the request changed, over what is there.
Merged(old, new) ==
  [sessions |-> WrittenTable(db.sessions, old.sessions, new.sessions),
   samples |-> db.samples \cup Inserted(old.samples, new.samples),
   positions |-> db.positions \cup Inserted(old.positions, new.positions),
   stopEvents |-> db.stopEvents \cup Inserted(old.stopEvents, new.stopEvents),
   scanner |-> WrittenRow(db.scanner, old.scanner, new.scanner)]

\* uq_tracking_sample_scanner_item, uq_tracking_position_session_item and the
\* unique dedupe_key of an event.
Collides(old, new) ==
  \/ \E added \in Inserted(old.samples, new.samples), row \in db.samples : added.id = row.id
  \/ Inserted(old.positions, new.positions) \cap db.positions # {}
  \/ Inserted(old.stopEvents, new.stopEvents) \cap db.stopEvents # {}

\* What a database says of one session.
View(d, s) == <<d.sessions[s], {r \in d.samples : r.session = s}>>

Commit(t) ==
  LET request == pending[t]
      old == request.old
      new == request.new
      merged == Merged(old, new)
  IN  /\ request.stage = "commit"
      /\ IF Collides(old, new)
           THEN /\ pending' = [pending EXCEPT ![t] = Idle("none")]
                /\ UNCHANGED <<db, overlapped, raced>>
           ELSE /\ pending' = [pending EXCEPT ![t] = Idle(request.then)]
                /\ db' = merged
                /\ overlapped' = overlapped \cup
                     {s \in InForce(merged) \ InForce(db) : db.sessions # old.sessions}
                /\ raced' = raced \cup
                     {s \in DOMAIN old.sessions :
                        View(new, s) # View(old, s) /\ View(db, s) # View(old, s)}
      /\ UNCHANGED <<now, targets, spent>>

\* The database is busy, or the backend is restarted: the request is gone.
Fail(t) ==
  /\ pending[t].stage = "commit"
  /\ Spend
  /\ pending' = [pending EXCEPT ![t] = Idle("none")]
  /\ UNCHANGED <<db, now, targets, overlapped, raced>>

-----------------------------------------------------------------------------
(* Requests.  Bounds: no lease may end after the Horizon.                  *)

Ready(t, then) == pending[t] = Idle(then)
SessionIds == DOMAIN db.sessions
Leasable == now + Lease <= Horizon

\* api_start_tracking_session.
StartTracking(t, device, mode) ==
  /\ Ready(t, "none") /\ Leasable
  /\ Len(db.sessions)
       + Cardinality({u \in Threads : /\ pending[u].stage = "commit"
                                      /\ Len(pending[u].new.sessions)
                                           > Len(pending[u].old.sessions)}) < MaxSessions
  /\ Begin(t, Start(db, device, mode), "none")

\* api_renew_tracking_lease.
RenewLease(t, s) ==
  /\ Ready(t, "none") /\ Leasable
  /\ Begin(t, IfActive(db, s, Renewed(db, s)), "none")

\* api_stop_tracking_session.
StopTracking(t, s) ==
  /\ Ready(t, "none")
  /\ Begin(t, Finish(db, s, "stopped"), "none")

\* api_tracking_position; a position that is there is answered as it is.
RecordPosition(t, s, id) ==
  /\ Ready(t, "none")
  /\ Begin(t, Place(db, s, id), "none")

\* api_tracking_samples.
IngestSample(t, s, id, delayed) ==
  /\ Ready(t, "none")
  /\ \A row \in db.samples : row.id # id
  /\ Begin(t, Ingest(db, s, id, delayed), "none")

\* heartbeat and observations_batch: the commit of record_heartbeat or of
\* process_batch finds the scanner online, and the second transaction of the
\* request is still to come.
ReportIn(t, then) ==
  /\ Ready(t, "none")
  /\ then \in {"heartbeat", "targets"}
  /\ Spend
  /\ db' = [db EXCEPT !.scanner = [status |-> "online", seen |-> now]]
  /\ pending' = [pending EXCEPT ![t] = Idle(then)]
  /\ UNCHANGED <<now, targets, overlapped, raced>>

TrackingHeartbeat(t, s, reported) ==
  /\ Ready(t, "heartbeat")
  /\ reported \in {"active", "waiting", "inactive"}
  /\ Begin(t, Heartbeat(db, s, reported), "none")

\* A heartbeat that names no session it could be about.
NoTrackingHeartbeat(t) ==
  /\ Ready(t, "heartbeat")
  /\ Begin(t, db, "none")

RefreshTargets(t) ==
  /\ Ready(t, "targets")
  /\ Begin(t, Retarget(db), "none")

\* refresh_scanner_states, first in a round of refresh_runtime_state_once.
SweepScanners ==
  /\ Ready(Maintenance, "none")
  /\ Begin(Maintenance,
           IF db.scanner.seen + OfflineAfter < now
             THEN [db EXCEPT !.scanner.status = "offline"] ELSE db,
           "sessions")

\* refresh_tracking_states, the second transaction of the round.
SweepSessions ==
  /\ Ready(Maintenance, "sessions")
  /\ Begin(Maintenance, Sweep(db), "none")

\* An observation of a new address of the device.
NewIdentity(device) ==
  /\ Spend
  /\ targets' = [targets EXCEPT ![device] = @ + 1]
  /\ UNCHANGED <<db, now, pending, overlapped, raced>>

Tick ==
  /\ now < Horizon
  /\ now' = now + 1
  /\ UNCHANGED <<db, targets, pending, spent, overlapped, raced>>

Request(t) ==
  \/ \E device \in Devices, mode \in Modes : StartTracking(t, device, mode)
  \/ \E s \in SessionIds :
       \/ RenewLease(t, s)
       \/ StopTracking(t, s)
       \/ \E id \in Positions : RecordPosition(t, s, id)
       \/ \E id \in Samples, delayed \in BOOLEAN : IngestSample(t, s, id, delayed)
       \/ \E reported \in {"active", "waiting", "inactive"} : TrackingHeartbeat(t, s, reported)
  \/ \E then \in {"heartbeat", "targets"} : ReportIn(t, then)
  \/ NoTrackingHeartbeat(t)
  \/ RefreshTargets(t)

Maintain == SweepScanners \/ SweepSessions \/ Commit(Maintenance)

Next ==
  \/ \E t \in Requests : Request(t) \/ Commit(t)
  \/ Maintain
  \/ \E t \in Threads : Fail(t)
  \/ \E device \in Devices : NewIdentity(device)
  \/ Tick

\* Time passes, and refresh_runtime_states goes round for ever, whatever
\* exception a round ends with.  A request may take as long as it likes.
Fairness == WF_vars(Tick) /\ WF_vars(Maintain)

Spec == Init /\ [][Next]_vars /\ Fairness

-----------------------------------------------------------------------------
(* Properties.                                                             *)

TypeOK ==
  /\ db \in Database /\ Len(db.sessions) <= MaxSessions
  /\ now \in 0 .. Horizon
  /\ targets \in [Devices -> 0 .. Budget]
  /\ \A t \in Threads :
       \/ pending[t] \in [stage : {"idle"}, then : {"none", "heartbeat", "targets", "sessions"}]
       \/ pending[t] \in [stage : {"commit"}, old : Database, new : Database,
                          then : {"none", "heartbeat", "targets", "sessions"}]
  /\ spent \in 0 .. Budget
  /\ overlapped \subseteq SessionIds
  /\ raced \subseteq SessionIds

\* _finish_session and ingest_tracking_samples, whatever requests overlap: a
\* session that is not active says when it ended, one that says so has its
\* event, and a live one has a sample and says when it came.
Accounted ==
  \A s \in SessionIds :
    LET row == db.sessions[s]
    IN  /\ ~Active(row) => row.ended # None /\ s \in db.stopEvents
        /\ row.ended # None => s \in db.stopEvents
        /\ row.state = "live" => row.last # None /\ \E r \in db.samples : r.session = s

\* start_tracking_session keeps one session at a time: two are in force together
\* only when a request brought one of them into force whose sessions another
\* commit had changed since it read them.
OneAtATime ==
  \A s, u \in InForce(db) : s # u => s \in overlapped \/ u \in overlapped

\* _finish_session of a session that no request wrote over unread: it is
\* active until its end and never after, both rows agree on the end, the
\* lease of an expired one was over, and the summary has every sample.
SerialSessionsRight ==
  \A s \in SessionIds \ raced :
    LET row == db.sessions[s]
    IN  /\ Active(row) <=> row.ended = None
        /\ ~Active(row) => /\ row.assignment = row.state
                           /\ row.summary = Summary(db, s)
        /\ row.state = "expired" => row.expires < row.ended.time

\* refresh_tracking_states gets to every session: when nobody renews them any
\* more (the Horizon), all are ended for good, whatever transactions failed or
\* collided and whatever late batch took one back to live.
AllEnd == <>[](\A s \in SessionIds : ~Active(db.sessions[s]))
=============================================================================
