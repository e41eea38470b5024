----------------------- MODULE TrackingSessionsProofs -----------------------
(***************************************************************************)
(* Theorems about TrackingSessions, for any number of request threads,     *)
(* sessions and samples: whatever transactions overlap, fail or collide,   *)
(* the rows keep account of every session that is over.                    *)
(***************************************************************************)
EXTENDS TrackingSessions, FiniteSetTheorems, SequenceTheorems, TLAPS

\* What one database says of its sessions (Accounted is Good(db)).
Good(d) ==
  \A s \in DOMAIN d.sessions :
    LET row == d.sessions[s]
    IN  /\ ~Active(row) => row.ended # None /\ s \in d.stopEvents
        /\ row.ended # None => s \in d.stopEvents
        /\ row.state = "live" => row.last # None /\ \E r \in d.samples : r.session = s

\* What is written is never taken back: e comes after d.
Kept(d, e) ==
  /\ Len(d.sessions) <= Len(e.sessions)
  /\ d.samples \subseteq e.samples
  /\ d.stopEvents \subseteq e.stopEvents
  /\ \A s \in DOMAIN d.sessions :
       /\ d.sessions[s].ended # None => e.sessions[s].ended # None
       /\ d.sessions[s].last # None => e.sessions[s].last # None

\* A request starts one session at most, and the row of it is a fresh one.
Fresh(d, e) ==
  /\ Len(e.sessions) <= Len(d.sessions) + 1
  /\ \A s \in DOMAIN e.sessions \ DOMAIN d.sessions :
       /\ Active(e.sessions[s])
       /\ e.sessions[s].state # "live"
       /\ e.sessions[s].ended = None

\* How a session ends that has n samples.
EndsWell(row, n) ==
  /\ row.ended # None
  /\ row.assignment = row.state
  /\ row.summary = n
  /\ row.state = "expired" => row.expires < row.ended.time

\* One session is as SerialSessionsRight wants it.
Right(d, s) ==
  LET row == d.sessions[s]
  IN  /\ Active(row) => row.ended = None
      /\ ~Active(row) => EndsWell(row, Summary(d, s))

\* A request that reads the truth of a session writes the truth of it.
Proper(d, e) ==
  /\ \A s \in DOMAIN d.sessions : Right(d, s) => Right(e, s)
  /\ \A r \in e.samples \ d.samples : r.session \in DOMAIN d.sessions

\* What a handler makes of the rows it read.
Sound(d, e) == e \in Database /\ Good(e) /\ Kept(d, e) /\ Fresh(d, e) /\ Proper(d, e)

\* A request gives at most one session another lease, one that was in force when
\* it was read, and makes none active that was not.
Careful(d, e) ==
  /\ \A s \in DOMAIN d.sessions :
       /\ Active(e.sessions[s]) => Active(d.sessions[s])
       /\ e.sessions[s].expires # d.sessions[s].expires => s \in InForce(d)
  /\ \A s, u \in DOMAIN d.sessions :
       /\ e.sessions[s].expires # d.sessions[s].expires
       /\ e.sessions[u].expires # d.sessions[u].expires
       => s = u

\* A handler that starts no session.
Steady(d, e) == Sound(d, e) /\ Careful(d, e) /\ Len(e.sessions) = Len(d.sessions)

-----------------------------------------------------------------------------
(* The handlers.                                                           *)

\* A summary counts samples of one session, which have ids of their own.
LEMMA SummaryType ==
  ASSUME NEW d \in Database, NEW s
  PROVE  Summary(d, s) \in 0 .. Cardinality(Samples)
  <1> DEFINE T == {r \in d.samples : r.session = s}
             f == [r \in T |-> r.id]
  <1>1. d.samples \subseteq Sample
    BY DEF Database
  <1>2. f \in Injection(T, Samples)
    <2>1. f \in [T -> Samples]
      BY <1>1 DEF Sample
    <2>2. \A q, r \in T : f[q] = f[r] => q = r
      BY <1>1 DEF Sample
    <2> QED
      BY <2>1, <2>2 DEF Injection, IsInjective
  <1>3. Cardinality(T) <= Cardinality(Samples) /\ IsFiniteSet(T)
    BY <1>2, FS_Injection, FiniteAssumption
  <1>4. Cardinality(T) \in Nat /\ Cardinality(Samples) \in Nat
    BY <1>3, FS_CardinalityType, FiniteAssumption
  <1> QED
    BY <1>3, <1>4 DEF Summary

\* A request that changes nothing.
LEMMA Nothing ==
  ASSUME NEW d \in Database, Good(d)
  PROVE  Steady(d, d)
  <1>1. d.sessions \in Seq(Session)
    BY DEF Database
  <1> QED
    BY <1>1 DEF Steady, Sound, Kept, Fresh, Proper, Careful

\* A request that leaves the sessions as they are.
LEMMA SameRows ==
  ASSUME NEW d \in Database, Good(d), NEW e \in Database,
         e.sessions = d.sessions, e.samples = d.samples, e.stopEvents = d.stopEvents
  PROVE  Steady(d, e)
  <1>1. d.sessions \in Seq(Session)
    BY DEF Database
  <1>2. \A s : Summary(e, s) = Summary(d, s)
    BY DEF Summary
  <1>3. Proper(d, e)
    BY <1>2 DEF Proper, Right
  <1>4. Good(e) /\ Kept(d, e) /\ Fresh(d, e) /\ Careful(d, e)
    BY <1>1 DEF Good, Kept, Fresh, Careful
  <1> QED
    BY <1>3, <1>4 DEF Steady, Sound

\* A request that writes one row, and perhaps a sample, a position or an event.
LEMMA OneRow ==
  ASSUME NEW d \in Database, Good(d), NEW e \in Database, NEW s \in DOMAIN d.sessions,
         NEW row \in Session,
         e.sessions = [d.sessions EXCEPT ![s] = row],
         d.samples \subseteq e.samples, d.stopEvents \subseteq e.stopEvents,
         d.sessions[s].ended # None => row.ended # None,
         d.sessions[s].last # None => row.last # None,
         ~Active(row) => row.ended # None /\ s \in e.stopEvents,
         row.ended # None => s \in e.stopEvents,
         row.state = "live" => row.last # None /\ \E r \in e.samples : r.session = s,
         \A r \in e.samples \ d.samples : r.session = s,
         Active(d.sessions[s]),
         Active(row) => row.ended = d.sessions[s].ended,
         ~Active(row) => EndsWell(row, Summary(e, s)),
         row.expires # d.sessions[s].expires => ~Over(d.sessions[s])
  PROVE  Steady(d, e)
  <1>1. d.sessions \in Seq(Session) /\ e.sessions \in Seq(Session)
    BY DEF Database
  <1>2. Len(e.sessions) = Len(d.sessions) /\ DOMAIN e.sessions = DOMAIN d.sessions
    BY <1>1
  <1>3. \A u \in DOMAIN d.sessions : e.sessions[u] = IF u = s THEN row ELSE d.sessions[u]
    BY <1>1
  <1>4. Good(e)
    BY <1>2, <1>3 DEF Good
  <1>5. Kept(d, e)
    BY <1>1, <1>2, <1>3 DEF Kept
  <1>6. Fresh(d, e)
    BY <1>1, <1>2 DEF Fresh
  <1>7. Proper(d, e)
    <2>1. ASSUME NEW u \in DOMAIN d.sessions, Right(d, u)
          PROVE  Right(e, u)
      <3>1. CASE u = s
        BY <1>3, <2>1, <3>1 DEF Right
      <3>2. CASE u # s
        <4>1. {r \in e.samples : r.session = u} = {r \in d.samples : r.session = u}
          BY <3>2
        <4>2. Summary(e, u) = Summary(d, u)
          BY <4>1 DEF Summary
        <4> QED
          BY <1>3, <2>1, <3>2, <4>2 DEF Right
      <3> QED
        BY <3>1, <3>2
    <2> QED
      BY <2>1 DEF Proper
  <1>8. Careful(d, e)
    BY <1>3 DEF Careful, InForce
  <1> QED
    BY <1>2, <1>4, <1>5, <1>6, <1>7, <1>8 DEF Steady, Sound

LEMMA PlacedRow ==
  ASSUME NEW row \in Session, NEW state \in States
  PROVE  /\ Placed(row, state) \in Session
         /\ Placed(row, state).state = state
         /\ Placed(row, state).ended = row.ended
         /\ Placed(row, state).last = row.last
         /\ Placed(row, state).assignment = state
         /\ Placed(row, state).expires = row.expires
  BY DEF Placed, Session

LEMMA NowType ==
  ASSUME now \in 0 .. Horizon
  PROVE  At(now) \in Instants /\ At(now) # None /\ None \in Instants
  BY BoundsAssumption DEF At, None, Instants

\* The end of a session, in one row and one event.
LEMMA FinishSound ==
  ASSUME NEW d \in Database, Good(d), NEW s \in DOMAIN d.sessions,
         NEW state \in {"stopped", "expired"}, now \in 0 .. Horizon,
         Len(d.sessions) <= MaxSessions,
         state = "expired" => Over(d.sessions[s])
  PROVE  Steady(d, Finish(d, s, state))
  <1>1. CASE ~Active(d.sessions[s])
    BY <1>1, Nothing DEF Finish
  <1>2. CASE Active(d.sessions[s])
    <2> DEFINE row == [Placed(d.sessions[s], state) EXCEPT !.ended = At(now),
                                                           !.summary = Summary(d, s)]
               e == [d EXCEPT !.sessions = [d.sessions EXCEPT ![s] = row],
                              !.stopEvents = d.stopEvents \cup {s}]
    <2>0. Finish(d, s, state) = e
      BY <1>2 DEF Finish, Database
    <2>1. d.sessions \in Seq(Session) /\ d.sessions[s] \in Session /\ s \in 1 .. MaxSessions
      BY BoundsAssumption DEF Database
    <2>2. Placed(d.sessions[s], state) \in Session
      BY <2>1, PlacedRow DEF States
    <2>3. row \in Session
      BY <2>2, NowType, SummaryType DEF Session
    <2>4. row.state = state /\ row.ended = At(now) /\ row.last = d.sessions[s].last
      BY <2>1, PlacedRow DEF Placed, Session
    <2>5. /\ e.sessions = [d.sessions EXCEPT ![s] = row]
          /\ e.stopEvents = d.stopEvents \cup {s}
          /\ e.samples = d.samples
      BY DEF Database
    <2>6. e \in Database
      <3>1. [d.sessions EXCEPT ![s] = row] \in Seq(Session)
        BY <2>1, <2>3, ExceptSeq
      <3>2. d.stopEvents \cup {s} \in SUBSET (1 .. MaxSessions)
        BY <2>1 DEF Database
      <3> HIDE DEF row
      <3> QED
        BY <3>1, <3>2 DEF Database
    <2>7. row.state # "live" /\ row.ended # None
      BY <2>4, NowType
    <2>8. row.assignment = state /\ row.summary = Summary(d, s)
          /\ row.expires = d.sessions[s].expires
      BY <2>1, <2>2, PlacedRow, SMTT(30) DEF States, Session
    <2>9. state = "expired" => row.expires < At(now).time
      <3>1. d.sessions[s].expires \in 0 .. Horizon
        BY <2>1 DEF Session
      <3> QED
        BY <2>8, <3>1, BoundsAssumption DEF Over, At
    <2> HIDE DEF row, e
    <2>10. EndsWell(row, Summary(e, s)) /\ ~Active(row)
      BY <2>4, <2>5, <2>7, <2>8, <2>9 DEF EndsWell, Summary, Active, ActiveStates
    <2> QED
      BY <1>2, <2>0, <2>3, <2>4, <2>5, <2>6, <2>7, <2>8, <2>10, OneRow
  <1> QED
    BY <1>1, <1>2

\* A session whose row is written over with an EXCEPT, and nothing else changes
\* but perhaps the samples.
LEMMA RowWritten ==
  ASSUME NEW d \in Database, NEW s \in DOMAIN d.sessions, NEW row \in Session
  PROVE  LET e == [d EXCEPT !.sessions = [d.sessions EXCEPT ![s] = row]]
         IN  /\ e \in Database
             /\ e.sessions = [d.sessions EXCEPT ![s] = row]
             /\ e.samples = d.samples
             /\ e.stopEvents = d.stopEvents
  <1>1. d.sessions \in Seq(Session)
    BY DEF Database
  <1>2. [d.sessions EXCEPT ![s] = row] \in Seq(Session)
    BY <1>1, ExceptSeq
  <1> QED
    BY <1>2 DEF Database

LEMMA RenewedSound ==
  ASSUME NEW d \in Database, Good(d), NEW s \in DOMAIN d.sessions,
         now \in 0 .. Horizon, Leasable, Active(d.sessions[s]), ~Over(d.sessions[s])
  PROVE  Steady(d, Renewed(d, s))
  <1> DEFINE row == [d.sessions[s] EXCEPT !.expires = now + Lease]
             e == [d EXCEPT !.sessions = [d.sessions EXCEPT ![s] = row]]
  <1>1. Renewed(d, s) = e
    BY DEF Renewed, Database
  <1>2. d.sessions[s] \in Session
    BY DEF Database
  <1>3. now + Lease \in 0 .. Horizon
    BY BoundsAssumption DEF Leasable
  <1>4. /\ row \in Session
        /\ row.state = d.sessions[s].state
        /\ row.ended = d.sessions[s].ended
        /\ row.last = d.sessions[s].last
    BY <1>2, <1>3 DEF Session
  <1> HIDE DEF row
  <1>5. /\ e \in Database
        /\ e.sessions = [d.sessions EXCEPT ![s] = row]
        /\ e.samples = d.samples
        /\ e.stopEvents = d.stopEvents
    BY <1>4, RowWritten
  <1> HIDE DEF e
  <1>6. Active(row)
    BY <1>4 DEF Active
  <1> QED
    BY <1>1, <1>4, <1>5, <1>6, OneRow DEF Good

\* _active_session: an active session, or one that is over.
LEMMA IfActiveSound ==
  ASSUME NEW d \in Database, Good(d), NEW s \in DOMAIN d.sessions,
         now \in 0 .. Horizon, Len(d.sessions) <= MaxSessions,
         NEW then, Active(d.sessions[s]) /\ ~Over(d.sessions[s]) => Steady(d, then)
  PROVE  Steady(d, IfActive(d, s, then))
  <1>1. Over(d.sessions[s]) => Steady(d, Finish(d, s, "expired"))
    BY FinishSound
  <1> QED
    BY <1>1, Nothing DEF IfActive

LEMMA StartSound ==
  ASSUME NEW d \in Database, Good(d), NEW device \in Devices, NEW mode \in Modes,
         now \in 0 .. Horizon, Leasable, targets \in [Devices -> 0 .. Budget]
  PROVE  /\ Sound(d, Start(d, device, mode))
         /\ Careful(d, Start(d, device, mode))
         /\ Len(Start(d, device, mode).sessions) > Len(d.sessions) => InForce(d) = {}
  <1>1. CASE InForce(d) # {}
    <2> DEFINE s == CHOOSE s \in InForce(d) : TRUE
    <2>1. s \in DOMAIN d.sessions /\ Active(d.sessions[s]) /\ ~Over(d.sessions[s])
      BY <1>1 DEF InForce
    <2> HIDE DEF s
    <2>2. Steady(d, Renewed(d, s)) /\ Steady(d, d)
      BY <2>1, RenewedSound, Nothing
    <2> USE DEF s
    <2>3. Steady(d, Start(d, device, mode))
      BY <1>1, <2>2 DEF Start
    <2>4. Len(Start(d, device, mode).sessions) = Len(d.sessions) /\ Len(d.sessions) \in Nat
      BY <2>3 DEF Steady, Database
    <2> QED
      BY <2>3, <2>4 DEF Steady
  <1>2. CASE InForce(d) = {}
    <2> DEFINE state == IF d.scanner.status = "online" THEN "arming" ELSE "scanner_offline"
               row == [device |-> device, mode |-> mode, state |-> state,
                       assignment |-> state, targets |-> targets[device],
                       expires |-> now + Lease, ended |-> None, last |-> None,
                       summary |-> 0]
               e == [d EXCEPT !.sessions = Append(d.sessions, row)]
    <2>1. Start(d, device, mode) = e
      BY <1>2 DEF Start, Database
    <2>2. now + Lease \in 0 .. Horizon /\ Cardinality(Samples) \in Nat /\ None \in Instants
      BY BoundsAssumption, NowType, FiniteAssumption, FS_CardinalityType DEF Leasable
    <2>3. row \in Session
      BY <2>2 DEF Session, States, ActiveStates
    <2>4. Active(row) /\ row.state # "live" /\ row.ended = None
      BY DEF Active, ActiveStates
    <2> HIDE DEF row
    <2>5. d.sessions \in Seq(Session)
      BY DEF Database
    <2>6. /\ Append(d.sessions, row) \in Seq(Session)
          /\ Len(Append(d.sessions, row)) = Len(d.sessions) + 1
          /\ \A u \in 1 .. Len(d.sessions) : Append(d.sessions, row)[u] = d.sessions[u]
          /\ Append(d.sessions, row)[Len(d.sessions) + 1] = row
      BY <2>3, <2>5, AppendProperties
    <2>7. /\ e \in Database
          /\ e.sessions = Append(d.sessions, row)
          /\ e.samples = d.samples
          /\ e.stopEvents = d.stopEvents
      BY <2>6 DEF Database
    <2> HIDE DEF e
    <2>8. /\ DOMAIN e.sessions = 1 .. Len(d.sessions) + 1
          /\ DOMAIN d.sessions = 1 .. Len(d.sessions)
          /\ Len(d.sessions) \in Nat
      BY <2>5, <2>6, <2>7
    <2>9. \A u \in DOMAIN e.sessions :
            (u \in DOMAIN d.sessions /\ e.sessions[u] = d.sessions[u]) \/ e.sessions[u] = row
      BY <2>6, <2>7, <2>8
    <2>10. Good(e)
      BY <2>4, <2>7, <2>9 DEF Good
    <2>11. Kept(d, e)
      BY <2>6, <2>7, <2>8 DEF Kept
    <2>12. Fresh(d, e)
      BY <2>4, <2>6, <2>7, <2>8 DEF Fresh
    <2>13. Proper(d, e)
      <3>1. \A u : Summary(e, u) = Summary(d, u)
        BY <2>7 DEF Summary
      <3>2. \A u \in DOMAIN d.sessions : e.sessions[u] = d.sessions[u]
        BY <2>6, <2>7, <2>8
      <3> QED
        BY <2>7, <3>1, <3>2 DEF Proper, Right
    <2>14. Careful(d, e)
      BY <2>6, <2>7, <2>8 DEF Careful
    <2> QED
      BY <1>2, <2>1, <2>7, <2>10, <2>11, <2>12, <2>13, <2>14 DEF Sound
  <1> QED
    BY <1>1, <1>2

LEMMA PlaceSound ==
  ASSUME NEW d \in Database, Good(d), NEW s \in DOMAIN d.sessions, NEW id \in Positions,
         now \in 0 .. Horizon, Len(d.sessions) <= MaxSessions
  PROVE  Steady(d, Place(d, s, id))
  <1> DEFINE e == [d EXCEPT !.positions = @ \cup {[session |-> s, id |-> id]}]
  <1>1. d.sessions \in Seq(Session) /\ s \in 1 .. MaxSessions
    BY BoundsAssumption DEF Database
  <1>2. [session |-> s, id |-> id] \in Position
    BY <1>1 DEF Position
  <1>3. /\ e \in Database
        /\ e.sessions = d.sessions
        /\ e.samples = d.samples
        /\ e.stopEvents = d.stopEvents
    BY <1>2 DEF Database
  <1> HIDE DEF e
  <1>4. Steady(d, e)
    BY <1>3, SameRows
  <1> USE DEF e
  <1> QED
    BY <1>4, Nothing, IfActiveSound DEF Place

LEMMA IngestSound ==
  ASSUME NEW d \in Database, Good(d), NEW s \in DOMAIN d.sessions, NEW id \in Samples,
         NEW delayed \in BOOLEAN,
         now \in 0 .. Horizon, Len(d.sessions) <= MaxSessions
  PROVE  Steady(d, Ingest(d, s, id, delayed))
  <1> DEFINE sample == [session |-> s, id |-> id]
             stored == [d EXCEPT !.samples = @ \cup {sample}]
             row == [Placed(d.sessions[s], "live") EXCEPT !.last = At(now)]
             e == [stored EXCEPT !.sessions = [stored.sessions EXCEPT ![s] = row]]
  <1>1. d.sessions \in Seq(Session) /\ s \in 1 .. MaxSessions /\ d.sessions[s] \in Session
    BY BoundsAssumption DEF Database
  <1>2. sample \in Sample /\ sample.session = s
    BY <1>1 DEF Sample
  <1> HIDE DEF sample
  <1>3. /\ stored \in Database
        /\ stored.sessions = d.sessions
        /\ stored.samples = d.samples \cup {sample}
        /\ stored.stopEvents = d.stopEvents
    BY <1>2 DEF Database
  <1>4. ASSUME Active(d.sessions[s])
        PROVE  Steady(d, stored)
    <2>1. d.sessions = [d.sessions EXCEPT ![s] = d.sessions[s]]
      BY <1>1
    <2>2. /\ d.sessions[s].ended # None => s \in d.stopEvents
          /\ d.sessions[s].state = "live" =>
               d.sessions[s].last # None /\ \E r \in d.samples : r.session = s
      BY DEF Good
    <2> HIDE DEF stored
    <2> QED
      BY <1>1, <1>2, <1>3, <1>4, <2>1, <2>2, OneRow
  <1>5. Placed(d.sessions[s], "live") \in Session
    BY <1>1, PlacedRow DEF States, ActiveStates
  <1>6. /\ row \in Session
        /\ row.state = "live"
        /\ row.ended = d.sessions[s].ended
        /\ row.last = At(now)
        /\ row.expires = d.sessions[s].expires
    BY <1>1, <1>5, NowType DEF Placed, Session
  <1> HIDE DEF row
  <1>7. /\ e \in Database
        /\ e.sessions = [d.sessions EXCEPT ![s] = row]
        /\ e.samples = d.samples \cup {sample}
        /\ e.stopEvents = d.stopEvents
    <2> HIDE DEF stored
    <2> QED
      BY <1>3, <1>6, RowWritten
  <1>8. Active(row)
    BY <1>6 DEF Active, ActiveStates
  <1>9. ASSUME Active(d.sessions[s])
        PROVE  Steady(d, e)
    <2>1. d.sessions[s].ended # None => s \in d.stopEvents
      BY DEF Good
    <2> HIDE DEF e
    <2> QED
      BY <1>2, <1>6, <1>7, <1>8, <1>9, <2>1, NowType, OneRow
  <1>10. Active(d.sessions[s]) => Steady(d, IF delayed THEN stored ELSE e)
    BY <1>4, <1>9
  <1>11. Ingest(d, s, id, delayed) = IfActive(d, s, IF delayed THEN stored ELSE e)
    BY <1>3 DEF Ingest, sample, row
  <1> HIDE DEF stored, e
  <1> QED
    BY <1>10, <1>11, IfActiveSound

LEMMA HeartbeatSound ==
  ASSUME NEW d \in Database, Good(d), NEW s \in DOMAIN d.sessions, NEW reported
  PROVE  Steady(d, Heartbeat(d, s, reported))
  <1>0. d.sessions \in Seq(Session) /\ d.sessions[s] \in Session
    BY DEF Database
  <1>1. \A assignment, state \in States :
          LET row == [d.sessions[s] EXCEPT !.assignment = assignment, !.state = state]
          IN  state \in ActiveStates
              /\ (state = "live" => d.sessions[s].state = "live")
              /\ Active(d.sessions[s])
              => Steady(d, [d EXCEPT !.sessions = [d.sessions EXCEPT ![s] = row]])
    <2> SUFFICES ASSUME NEW assignment \in States, NEW state \in ActiveStates,
                        state = "live" => d.sessions[s].state = "live",
                        Active(d.sessions[s])
                 PROVE  Steady(d, [d EXCEPT !.sessions = [d.sessions EXCEPT ![s] =
                          [d.sessions[s] EXCEPT !.assignment = assignment, !.state = state]]])
      OBVIOUS
    <2> DEFINE row == [d.sessions[s] EXCEPT !.assignment = assignment, !.state = state]
               e == [d EXCEPT !.sessions = [d.sessions EXCEPT ![s] = row]]
    <2>1. /\ row \in Session
          /\ row.state = state
          /\ row.ended = d.sessions[s].ended
          /\ row.last = d.sessions[s].last
          /\ row.expires = d.sessions[s].expires
      BY <1>0 DEF Session, States
    <2>2. Active(row)
      BY <2>1 DEF Active
    <2> HIDE DEF row
    <2>3. /\ e \in Database
          /\ e.sessions = [d.sessions EXCEPT ![s] = row]
          /\ e.samples = d.samples
          /\ e.stopEvents = d.stopEvents
      BY <2>1, RowWritten
    <2> HIDE DEF e
    <2>4. Steady(d, e)
      BY <2>1, <2>2, <2>3, OneRow DEF Good
    <2> USE DEF e, row
    <2> QED
      BY <2>4
  <1>2. CASE ~Active(d.sessions[s])
    BY <1>2, Nothing DEF Heartbeat
  <1>3. CASE Active(d.sessions[s]) /\ reported # "inactive"
    <2> DEFINE state == IF d.sessions[s].state \in {"live", "stale"}
                          THEN d.sessions[s].state ELSE "waiting_for_advertisement"
               assignment == IF d.sessions[s].assignment = "live"
                               THEN d.sessions[s].assignment ELSE "waiting_for_advertisement"
    <2>1. /\ state \in ActiveStates /\ state \in States
          /\ assignment \in States
          /\ state = "live" => d.sessions[s].state = "live"
      BY <1>0 DEF Session, States, ActiveStates
    <2>2. Heartbeat(d, s, reported)
            = [d EXCEPT !.sessions = [d.sessions EXCEPT ![s] =
                 [d.sessions[s] EXCEPT !.assignment = assignment, !.state = state]]]
      BY <1>0, <1>3, ZenonT(60) DEF Heartbeat, Database, Session
    <2> HIDE DEF state, assignment
    <2> QED
      BY <1>1, <1>3, <2>1, <2>2
  <1>4. CASE Active(d.sessions[s]) /\ reported = "inactive"
    <2> DEFINE state == IF d.sessions[s].state \in {"live", "stale"}
                          THEN d.sessions[s].state ELSE "arming"
    <2>1. /\ state \in ActiveStates /\ state \in States
          /\ "arming" \in States
          /\ state = "live" => d.sessions[s].state = "live"
      BY <1>0 DEF Session, States, ActiveStates
    <2>2. CASE d.sessions[s].assignment = "scanner_offline"
      BY <1>4, <2>2, Nothing DEF Heartbeat
    <2>3. CASE d.sessions[s].assignment # "scanner_offline"
      <3>1. Heartbeat(d, s, reported)
              = [d EXCEPT !.sessions = [d.sessions EXCEPT ![s] =
                   [d.sessions[s] EXCEPT !.assignment = "arming", !.state = state]]]
        BY <1>0, <1>4, <2>3 DEF Heartbeat, Database, Session
      <3> HIDE DEF state
      <3> QED
        BY <1>1, <1>4, <2>1, <3>1
    <2> QED
      BY <2>2, <2>3
  <1> QED
    BY <1>2, <1>3, <1>4

\* Rows that are written over, each from what it was, with events for some.
Rewritten(d, rows, events) ==
  /\ rows = [s \in DOMAIN d.sessions |-> rows[s]]
  /\ \A s \in DOMAIN d.sessions :
       /\ rows[s] \in Session
       /\ d.sessions[s].ended # None => rows[s].ended # None
       /\ rows[s].last = d.sessions[s].last
       /\ rows[s].expires = d.sessions[s].expires
       /\ Active(rows[s]) => Active(d.sessions[s]) /\ rows[s].ended = d.sessions[s].ended
       /\ rows[s].state = "live" => d.sessions[s].state = "live"
       /\ ~Active(rows[s]) => \/ s \in events /\ EndsWell(rows[s], Summary(d, s))
                              \/ rows[s] = d.sessions[s]

\* A request that writes over any number of rows.
LEMMA AllRows ==
  ASSUME NEW d \in Database, Good(d), NEW events \in SUBSET DOMAIN d.sessions,
         NEW rows, Len(d.sessions) <= MaxSessions, Rewritten(d, rows, events),
         NEW e, e = [d EXCEPT !.sessions = rows, !.stopEvents = @ \cup events]
  PROVE  Steady(d, e)
  <1>1. d.sessions \in Seq(Session) /\ Len(d.sessions) \in Nat
        /\ DOMAIN d.sessions = 1 .. Len(d.sessions)
    BY DEF Database
  <1>2. rows \in Seq(Session) /\ Len(rows) = Len(d.sessions)
    <2>1. rows \in [1 .. Len(d.sessions) -> Session]
      BY <1>1 DEF Rewritten
    <2> QED
      BY <1>1, <2>1
  <1>3. events \subseteq 1 .. MaxSessions
    BY <1>1, BoundsAssumption
  <1>4. /\ e \in Database
        /\ e.sessions = rows
        /\ e.samples = d.samples
        /\ e.stopEvents = d.stopEvents \cup events
    BY <1>2, <1>3 DEF Database
  <1>5. Good(e)
    <2> SUFFICES ASSUME NEW s \in DOMAIN d.sessions
                 PROVE  /\ ~Active(rows[s]) => rows[s].ended # None /\ s \in e.stopEvents
                        /\ rows[s].ended # None => s \in e.stopEvents
                        /\ rows[s].state = "live" =>
                             rows[s].last # None /\ \E r \in e.samples : r.session = s
      BY <1>1, <1>2, <1>4 DEF Good
    <2>1. /\ ~Active(d.sessions[s]) => d.sessions[s].ended # None /\ s \in d.stopEvents
          /\ d.sessions[s].ended # None => s \in d.stopEvents
          /\ d.sessions[s].state = "live" =>
               d.sessions[s].last # None /\ \E r \in d.samples : r.session = s
      BY DEF Good
    <2> QED
      BY <1>4, <2>1 DEF Rewritten, EndsWell
  <1>6. Kept(d, e)
    <2>1. Len(d.sessions) <= Len(e.sessions)
      BY <1>1, <1>2, <1>4
    <2>2. \A s \in DOMAIN d.sessions :
            /\ d.sessions[s].ended # None => e.sessions[s].ended # None
            /\ d.sessions[s].last # None => e.sessions[s].last # None
      BY <1>4 DEF Rewritten
    <2> QED
      BY <1>4, <2>1, <2>2 DEF Kept
  <1>7. Fresh(d, e)
    <2>1. DOMAIN e.sessions = DOMAIN d.sessions
      BY <1>4 DEF Rewritten
    <2> QED
      BY <1>1, <1>2, <1>4, <2>1 DEF Fresh
  <1>8. Proper(d, e)
    <2>1. ASSUME NEW s \in DOMAIN d.sessions, Right(d, s)
          PROVE  Right(e, s)
      <3>1. Summary(e, s) = Summary(d, s)
        BY <1>4 DEF Summary
      <3>2. /\ Active(rows[s]) => Active(d.sessions[s]) /\ rows[s].ended = d.sessions[s].ended
            /\ ~Active(rows[s]) => EndsWell(rows[s], Summary(d, s)) \/ rows[s] = d.sessions[s]
        BY DEF Rewritten
      <3> QED
        BY <1>4, <2>1, <3>1, <3>2 DEF Right
    <2> QED
      BY <1>4, <2>1 DEF Proper
  <1>9. Careful(d, e)
    BY <1>4 DEF Careful, Rewritten
  <1> QED
    BY <1>1, <1>2, <1>4, <1>5, <1>6, <1>7, <1>8, <1>9 DEF Steady, Sound

LEMMA RetargetSound ==
  ASSUME NEW d \in Database, Good(d), targets \in [Devices -> 0 .. Budget],
         Len(d.sessions) <= MaxSessions
  PROVE  Steady(d, Retarget(d))
  <1> DEFINE Retargeted(row) ==
               IF Active(row) /\ row.targets # targets[row.device]
                 THEN [Placed(row, "identity_changed") EXCEPT !.targets = targets[row.device]]
                 ELSE row
             rows == [s \in DOMAIN d.sessions |-> Retargeted(d.sessions[s])]
  <1>1. \A row \in Session :
          /\ Retargeted(row) \in Session
          /\ Retargeted(row).ended = row.ended
          /\ Retargeted(row).last = row.last
          /\ Retargeted(row).expires = row.expires
          /\ Active(row) <=> Active(Retargeted(row))
          /\ Retargeted(row).state = "live" => row.state = "live"
          /\ ~Active(row) => Retargeted(row) = row
    <2> SUFFICES ASSUME NEW row \in Session, Active(row), row.targets # targets[row.device]
                 PROVE  LET new == [Placed(row, "identity_changed")
                                      EXCEPT !.targets = targets[row.device]]
                        IN  /\ new \in Session
                            /\ new.ended = row.ended
                            /\ new.last = row.last
                            /\ new.expires = row.expires
                            /\ new.state = "identity_changed"
                            /\ Active(new)
      OBVIOUS
    <2>1. targets[row.device] \in 0 .. Budget
      BY DEF Session
    <2> QED
      BY <2>1 DEF Placed, Session, States, ActiveStates, Active
  <1>2. d.sessions \in Seq(Session)
    BY DEF Database
  <1>3. Retarget(d) = [d EXCEPT !.sessions = rows, !.stopEvents = @ \cup {}]
    BY DEF Retarget, Database
  <1>4. \A s \in DOMAIN d.sessions : d.sessions[s] \in Session /\ rows[s] = Retargeted(d.sessions[s])
    BY <1>2
  <1>5. rows = [s \in DOMAIN d.sessions |-> rows[s]]
    OBVIOUS
  <1> DEFINE events == {}
  <1>6. events \in SUBSET DOMAIN d.sessions
    OBVIOUS
  <1>7. ASSUME NEW s \in DOMAIN d.sessions
        PROVE  /\ rows[s] \in Session
               /\ d.sessions[s].ended # None => rows[s].ended # None
               /\ rows[s].last = d.sessions[s].last
               /\ rows[s].expires = d.sessions[s].expires
               /\ Active(rows[s]) =>
                    Active(d.sessions[s]) /\ rows[s].ended = d.sessions[s].ended
               /\ rows[s].state = "live" => d.sessions[s].state = "live"
               /\ ~Active(rows[s]) => \/ s \in events /\ EndsWell(rows[s], Summary(d, s))
                                      \/ rows[s] = d.sessions[s]
    <2> HIDE DEF Retargeted, rows, events
    <2> QED
      BY <1>1, <1>4
  <1>8. Retarget(d) = [d EXCEPT !.sessions = rows, !.stopEvents = @ \cup events]
    BY <1>3
  <1> HIDE DEF rows, events
  <1>9. Rewritten(d, rows, events)
    BY <1>5, <1>7 DEF Rewritten
  <1> QED
    BY <1>6, <1>8, <1>9, AllRows

LEMMA SweepSound ==
  ASSUME NEW d \in Database, Good(d), now \in 0 .. Horizon, Len(d.sessions) <= MaxSessions
  PROVE  Steady(d, Sweep(d))
  <1> DEFINE over == {s \in DOMAIN d.sessions : Active(d.sessions[s]) /\ Over(d.sessions[s])}
             Ended(s) == [Placed(d.sessions[s], "expired") EXCEPT !.ended = At(now),
                                                                !.summary = Summary(d, s)]
             Swept(s) == IF s \in over THEN Finish(d, s, "expired").sessions[s]
                         ELSE IF Active(d.sessions[s]) THEN Watched(d, d.sessions[s])
                         ELSE d.sessions[s]
             rows == [s \in DOMAIN d.sessions |-> Swept(s)]
  <1>1. d.sessions \in Seq(Session)
    BY DEF Database
  <1>2. ASSUME NEW s \in over
        PROVE  /\ Swept(s) \in Session
               /\ Swept(s).state = "expired"
               /\ EndsWell(Swept(s), Summary(d, s))
               /\ Swept(s).last = d.sessions[s].last
               /\ Swept(s).expires = d.sessions[s].expires
    <2>1. Swept(s) = Ended(s)
      BY <1>1 DEF Finish, Database
    <2>2. /\ Placed(d.sessions[s], "expired") \in Session
          /\ Placed(d.sessions[s], "expired").state = "expired"
          /\ Placed(d.sessions[s], "expired").last = d.sessions[s].last
          /\ Placed(d.sessions[s], "expired").assignment = "expired"
          /\ Placed(d.sessions[s], "expired").expires = d.sessions[s].expires
      BY <1>1, PlacedRow DEF States
    <2>3. /\ Ended(s) \in Session
          /\ Ended(s).state = "expired"
          /\ Ended(s).assignment = "expired"
          /\ Ended(s).expires = d.sessions[s].expires
          /\ Ended(s).ended = At(now)
          /\ Ended(s).summary = Summary(d, s)
          /\ Ended(s).last = d.sessions[s].last
      BY <2>2, NowType, SummaryType DEF Session
    <2>4. d.sessions[s].expires < At(now).time
      <3>1. d.sessions[s].expires \in 0 .. Horizon /\ Over(d.sessions[s])
        <4>1. d.sessions[s] \in Session /\ Over(d.sessions[s])
          BY <1>1
        <4> QED
          BY <4>1 DEF Session
      <3> QED
        BY <3>1, BoundsAssumption DEF Over, At
    <2> HIDE DEF Ended
    <2>5. EndsWell(Ended(s), Summary(d, s))
      BY <2>3, <2>4, NowType DEF EndsWell
    <2> HIDE DEF Swept
    <2> QED
      BY <2>1, <2>3, <2>5
  <1>3. \A row \in Session :
          Active(row) => /\ Watched(d, row) \in Session
                         /\ Active(Watched(d, row))
                         /\ Watched(d, row).ended = row.ended
                         /\ Watched(d, row).last = row.last
                         /\ Watched(d, row).expires = row.expires
                         /\ Watched(d, row).state = "live" => row.state = "live"
    BY PlacedRow DEF Watched, Active, States, ActiveStates
  <1>4. Sweep(d) = [d EXCEPT !.sessions = rows, !.stopEvents = @ \cup over]
    BY DEF Sweep
  <1>5. ASSUME NEW s \in DOMAIN d.sessions
        PROVE  /\ rows[s] \in Session
               /\ d.sessions[s].ended # None => rows[s].ended # None
               /\ rows[s].last = d.sessions[s].last
               /\ rows[s].expires = d.sessions[s].expires
               /\ Active(rows[s]) =>
                    Active(d.sessions[s]) /\ rows[s].ended = d.sessions[s].ended
               /\ rows[s].state = "live" => d.sessions[s].state = "live"
               /\ ~Active(rows[s]) => \/ s \in over /\ EndsWell(rows[s], Summary(d, s))
                                      \/ rows[s] = d.sessions[s]
    <2>1. rows[s] = Swept(s) /\ d.sessions[s] \in Session
      BY <1>1
    <2>2. CASE s \in over
      <3>1. ~Active(rows[s])
        BY <1>2, <2>1, <2>2 DEF Active, ActiveStates
      <3>2. rows[s].ended # None
        BY <1>2, <2>1, <2>2 DEF EndsWell
      <3> HIDE DEF Swept, rows, over
      <3> QED
        BY <1>2, <2>1, <2>2, <3>1, <3>2
    <2>3. CASE s \notin over /\ Active(d.sessions[s])
      <3>1. rows[s] = Watched(d, d.sessions[s])
        BY <2>1, <2>3
      <3> HIDE DEF rows, over
      <3> QED
        BY <1>3, <2>1, <2>3, <3>1
    <2>4. CASE s \notin over /\ ~Active(d.sessions[s])
      <3>1. rows[s] = d.sessions[s]
        BY <2>1, <2>4
      <3> HIDE DEF rows, over
      <3> QED
        BY <2>1, <2>4, <3>1
    <2> QED
      BY <2>2, <2>3, <2>4
  <1>6. rows = [s \in DOMAIN d.sessions |-> rows[s]] /\ over \in SUBSET DOMAIN d.sessions
    OBVIOUS
  <1> HIDE DEF rows, over
  <1>7. Rewritten(d, rows, over)
    BY <1>5, <1>6 DEF Rewritten
  <1> QED
    BY <1>4, <1>6, <1>7, AllRows

-----------------------------------------------------------------------------
(* The commit.                                                             *)

LEMMA WrittenRowType ==
  ASSUME NEW row \in Session, NEW old \in Session, NEW new \in Session
  PROVE  LET w == WrittenRow(row, old, new)
         IN  /\ w \in Session
             /\ w.state = IF new.state = old.state THEN row.state ELSE new.state
             /\ w.ended = IF new.ended = old.ended THEN row.ended ELSE new.ended
             /\ w.last = IF new.last = old.last THEN row.last ELSE new.last
  <1>1. DOMAIN row = {"device", "mode", "state", "assignment", "targets", "expires",
                      "ended", "last", "summary"}
    BY DEF Session
  <1>2. \A c \in DOMAIN row :
          WrittenRow(row, old, new)[c] = IF new[c] = old[c] THEN row[c] ELSE new[c]
    BY DEF WrittenRow
  <1>3. WrittenRow(row, old, new) = [c \in DOMAIN row |-> WrittenRow(row, old, new)[c]]
    BY DEF WrittenRow
  <1> QED
    BY <1>1, <1>2, <1>3 DEF Session

LEMMA FunctionIsSequence ==
  ASSUME NEW S, NEW n \in Nat, NEW f \in [1 .. n -> S]
  PROVE  f \in Seq(S) /\ Len(f) = n
  OBVIOUS

\* Three sequences in a row.
InARow(w, a, b, c) ==
  /\ Len(w) = Len(a) + Len(b) + Len(c)
  /\ \A i \in 1 .. Len(a) : w[i] = a[i]
  /\ \A i \in 1 .. Len(b) : w[Len(a) + i] = b[i]
  /\ \A i \in 1 .. Len(c) : w[Len(a) + Len(b) + i] = c[i]

LEMMA ThreeParts ==
  ASSUME NEW S, NEW a \in Seq(S), NEW b \in Seq(S), NEW c \in Seq(S)
  PROVE  a \o b \o c \in Seq(S) /\ InARow(a \o b \o c, a, b, c)
  <1>1. /\ a \o b \in Seq(S)
        /\ Len(a \o b) = Len(a) + Len(b)
        /\ \A i \in 1 .. Len(a) : (a \o b)[i] = a[i]
        /\ \A i \in 1 .. Len(b) : (a \o b)[Len(a) + i] = b[i]
    OBVIOUS
  <1>2. PICK ab \in Seq(S) : ab = a \o b
    BY <1>1
  <1>3. /\ ab \o c \in Seq(S)
        /\ Len(ab \o c) = Len(ab) + Len(c)
        /\ \A i \in 1 .. Len(ab) : (ab \o c)[i] = ab[i]
        /\ \A i \in 1 .. Len(c) : (ab \o c)[Len(ab) + i] = c[i]
    OBVIOUS
  <1>4. \A i \in 1 .. Len(b) : Len(a) + i \in 1 .. Len(ab)
    BY <1>1, <1>2
  <1>5. \A i \in 1 .. Len(a) : i \in 1 .. Len(ab)
    BY <1>1, <1>2
  <1> QED
    BY <1>1, <1>2, <1>3, <1>4, <1>5 DEF InARow

\* The rows of a table after a commit: those that were read, those that were
\* inserted meanwhile, and those that the commit inserts.
HasRows(w, table, old, new) ==
  /\ w \in Seq(Session)
  /\ Len(w) = Len(table) + Len(new) - Len(old)
  /\ \A s \in 1 .. Len(old) : w[s] = WrittenRow(table[s], old[s], new[s])
  /\ \A s \in Len(old) + 1 .. Len(table) : w[s] = table[s]
  /\ \A s \in Len(table) + 1 .. Len(w) : w[s] = new[s - Len(table) + Len(old)]

LEMMA WrittenTableRows ==
  ASSUME NEW table \in Seq(Session), NEW old \in Seq(Session), NEW new \in Seq(Session),
         Len(old) <= Len(table), Len(old) <= Len(new),
         NEW w, w = WrittenTable(table, old, new)
  PROVE  HasRows(w, table, old, new)
  <1>0. Len(table) \in Nat /\ Len(old) \in Nat /\ Len(new) \in Nat
    OBVIOUS
  <1>1. PICK A : A = [s \in 1 .. Len(old) |-> WrittenRow(table[s], old[s], new[s])]
    OBVIOUS
  <1>2. PICK B : B = SubSeq(table, Len(old) + 1, Len(table))
    OBVIOUS
  <1>3. PICK C : C = SubSeq(new, Len(old) + 1, Len(new))
    OBVIOUS
  <1>4. A \in Seq(Session) /\ Len(A) = Len(old)
    <2>1. \A s \in 1 .. Len(old) : WrittenRow(table[s], old[s], new[s]) \in Session
      BY <1>0, WrittenRowType
    <2>2. A \in [1 .. Len(old) -> Session]
      BY <1>1, <2>1
    <2> QED
      BY <1>0, <2>2, FunctionIsSequence
  <1>5. /\ B \in Seq(Session)
        /\ Len(B) = Len(table) - Len(old)
        /\ \A i \in 1 .. Len(B) : B[i] = table[Len(old) + i]
    BY <1>0, <1>2, SubSeqProperties
  <1>6. /\ C \in Seq(Session)
        /\ Len(C) = Len(new) - Len(old)
        /\ \A i \in 1 .. Len(C) : C[i] = new[Len(old) + i]
    BY <1>0, <1>3, SubSeqProperties
  <1>7. w = A \o B \o C
    BY <1>1, <1>2, <1>3 DEF WrittenTable
  <1>8. /\ w \in Seq(Session)
        /\ Len(w) = Len(A) + Len(B) + Len(C)
        /\ \A i \in 1 .. Len(A) : w[i] = A[i]
        /\ \A i \in 1 .. Len(B) : w[Len(A) + i] = B[i]
        /\ \A i \in 1 .. Len(C) : w[Len(A) + Len(B) + i] = C[i]
    <2>1. A \in Seq(Session) /\ B \in Seq(Session) /\ C \in Seq(Session)
      BY <1>4, <1>5, <1>6
    <2>2. w \in Seq(Session) /\ InARow(w, A, B, C)
      BY <1>7, <2>1, ThreeParts
    <2> QED
      BY <2>2 DEF InARow
  <1>9. \A s \in 1 .. Len(old) : w[s] = WrittenRow(table[s], old[s], new[s])
    BY <1>1, <1>4, <1>8
  <1>10. ASSUME NEW s \in Len(old) + 1 .. Len(table) PROVE w[s] = table[s]
    <2>1. s - Len(old) \in 1 .. Len(B) /\ s = Len(A) + (s - Len(old))
      BY <1>0, <1>4, <1>5
    <2>2. w[s] = B[s - Len(old)]
      BY <1>8, <2>1
    <2>3. B[s - Len(old)] = table[Len(old) + (s - Len(old))]
      BY <1>5, <2>1
    <2> QED
      BY <1>0, <2>2, <2>3
  <1>11. ASSUME NEW s \in Len(table) + 1 .. Len(w)
         PROVE  w[s] = new[s - Len(table) + Len(old)]
    <2>1. s - Len(table) \in 1 .. Len(C) /\ s = Len(A) + Len(B) + (s - Len(table))
      BY <1>0, <1>4, <1>5, <1>6, <1>8
    <2>2. w[s] = C[s - Len(table)]
      BY <1>8, <2>1
    <2>3. C[s - Len(table)] = new[Len(old) + (s - Len(table))]
      BY <1>6, <2>1
    <2>4. Len(old) + (s - Len(table)) = s - Len(table) + Len(old)
      BY <1>0
    <2> QED
      BY <2>2, <2>3, <2>4
  <1>12. Len(w) = Len(table) + Len(new) - Len(old)
    BY <1>0, <1>4, <1>5, <1>6, <1>8
  <1> QED
    BY <1>8, <1>9, <1>10, <1>11, <1>12 DEF HasRows

\* Whatever was committed since the request read, its own commit leaves every
\* account in order.
LEMMA MergedSound ==
  ASSUME db \in Database, Good(db), NEW old \in Database, NEW new,
         Kept(old, db), Sound(old, new)
  PROVE  /\ Merged(old, new) \in Database
         /\ Good(Merged(old, new))
         /\ Kept(db, Merged(old, new))
         /\ Len(Merged(old, new).sessions)
              = Len(db.sessions) + Len(new.sessions) - Len(old.sessions)
  <1>1. PICK e, was, from, to, is :
          /\ e = Merged(old, new)
          /\ was = db.sessions /\ from = old.sessions /\ to = new.sessions
          /\ is = e.sessions
    OBVIOUS
  <1>2. new \in Database /\ Good(new) /\ Kept(old, new) /\ Fresh(old, new)
    BY DEF Sound
  <1>3. was \in Seq(Session) /\ from \in Seq(Session) /\ to \in Seq(Session)
    BY <1>1, <1>2 DEF Database
  <1>4. Len(from) <= Len(was) /\ Len(from) <= Len(to)
    BY <1>1, <1>2 DEF Kept
  <1>5. PICK n \in Nat, o \in Nat, k \in Nat :
          n = Len(was) /\ o = Len(from) /\ k = Len(to) /\ o <= n /\ o <= k
    BY <1>3, <1>4
  <1>6. /\ is = WrittenTable(was, from, to)
        /\ e.samples = db.samples \cup (new.samples \ old.samples)
        /\ e.stopEvents = db.stopEvents \cup (new.stopEvents \ old.stopEvents)
    BY <1>1 DEF Merged, Inserted
  <1>7. /\ new.samples \subseteq e.samples /\ db.samples \subseteq e.samples
        /\ new.stopEvents \subseteq e.stopEvents /\ db.stopEvents \subseteq e.stopEvents
    BY <1>2, <1>6 DEF Kept
  <1>8. /\ is \in Seq(Session)
        /\ Len(is) = Len(was) + Len(to) - Len(from)
        /\ \A s \in 1 .. Len(from) : is[s] = WrittenRow(was[s], from[s], to[s])
        /\ \A s \in Len(from) + 1 .. Len(was) : is[s] = was[s]
        /\ \A s \in Len(was) + 1 .. Len(is) : is[s] = to[s - Len(was) + Len(from)]
    <2>1. HasRows(is, was, from, to)
      BY <1>3, <1>4, <1>6, WrittenTableRows
    <2> QED
      BY <2>1 DEF HasRows
  <1>9. is \in Seq(Session) /\ Len(is) = n + k - o
    BY <1>5, <1>8
  <1>10. \A s \in 1 .. Len(is) : s \in 1 .. o \/ s \in o + 1 .. n \/ s \in n + 1 .. Len(is)
    BY <1>5, <1>9
  <1>11. e \in Database
    <2>1. WrittenRow(db.scanner, old.scanner, new.scanner)
            \in [status : {"online", "offline"}, seen : 0 .. Horizon]
      <3>1. {db.scanner, old.scanner, new.scanner}
              \subseteq [status : {"online", "offline"}, seen : 0 .. Horizon]
        BY <1>2 DEF Database
      <3> QED
        BY <3>1 DEF WrittenRow
    <2>2. db.positions \cup Inserted(old.positions, new.positions) \in SUBSET Position
      BY <1>2 DEF Database, Inserted
    <2>3. e.samples \in SUBSET Sample /\ e.stopEvents \in SUBSET (1 .. MaxSessions)
      BY <1>2, <1>6 DEF Database
    <2> QED
      BY <1>1, <1>9, <2>1, <2>2, <2>3 DEF Merged, Database
  <1>12. ASSUME NEW s \in 1 .. o
         PROVE  /\ is[s].state \in {was[s].state, to[s].state}
                /\ is[s].ended \in {was[s].ended, to[s].ended}
                /\ was[s].ended # None => is[s].ended # None
                /\ to[s].ended # None => is[s].ended # None
                /\ was[s].last # None => is[s].last # None
                /\ to[s].last # None => is[s].last # None
    <2>1. was[s] \in Session /\ from[s] \in Session /\ to[s] \in Session
      BY <1>3, <1>5
    <2>2. is[s] = WrittenRow(was[s], from[s], to[s])
      BY <1>5, <1>8
    <2>3. /\ is[s].state = IF to[s].state = from[s].state THEN was[s].state ELSE to[s].state
          /\ is[s].ended = IF to[s].ended = from[s].ended THEN was[s].ended ELSE to[s].ended
          /\ is[s].last = IF to[s].last = from[s].last THEN was[s].last ELSE to[s].last
      BY <2>1, <2>2, WrittenRowType
    <2>4. s \in DOMAIN from
      BY <1>3, <1>5
    <2>5. /\ from[s].ended # None => was[s].ended # None /\ to[s].ended # None
          /\ from[s].last # None => was[s].last # None /\ to[s].last # None
      BY <1>1, <1>2, <2>4 DEF Kept
    <2> QED
      BY <2>3, <2>5
  <1>13. ASSUME NEW s \in 1 .. Len(is)
         PROVE  /\ ~Active(is[s]) => is[s].ended # None /\ s \in e.stopEvents
                /\ is[s].ended # None => s \in e.stopEvents
                /\ is[s].state = "live" =>
                     is[s].last # None /\ \E r \in e.samples : r.session = s
    <2>1. s \in DOMAIN was =>
            /\ ~Active(was[s]) => was[s].ended # None /\ s \in e.stopEvents
            /\ was[s].ended # None => s \in e.stopEvents
            /\ was[s].state = "live" => was[s].last # None /\ \E r \in e.samples : r.session = s
      BY <1>1, <1>7 DEF Good
    <2>2. s \in DOMAIN to =>
            /\ ~Active(to[s]) => to[s].ended # None /\ s \in e.stopEvents
            /\ to[s].ended # None => s \in e.stopEvents
            /\ to[s].state = "live" => to[s].last # None /\ \E r \in e.samples : r.session = s
      BY <1>1, <1>2, <1>7 DEF Good
    <2>3. CASE s \in 1 .. o
      <3>1. s \in DOMAIN was /\ s \in DOMAIN to
        BY <1>3, <1>5, <2>3
      <3> QED
        BY <1>12, <2>1, <2>2, <2>3, <3>1 DEF Active
    <2>4. CASE s \in o + 1 .. n
      <3>1. s \in DOMAIN was
        BY <1>3, <1>5, <2>4
      <3>2. is[s] = was[s]
        BY <1>5, <1>8, <2>4
      <3> QED
        BY <2>1, <3>1, <3>2
    <2>5. CASE s \in n + 1 .. Len(is)
      <3>1. PICK u \in Nat : u = s - n + o /\ u \in 1 .. k /\ u \notin 1 .. o
        <4>1. s - n + o \in Nat
          BY <1>5, <1>9, <2>5
        <4>2. s - n + o \in 1 .. k /\ s - n + o \notin 1 .. o
          BY <1>5, <1>9, <2>5
        <4> QED
          BY <4>1, <4>2
      <3>2. u \in DOMAIN to \ DOMAIN from
        BY <1>3, <1>5, <3>1
      <3>3. is[s] = to[u]
        BY <1>5, <1>8, <2>5, <3>1
      <3>4. Active(to[u]) /\ to[u].state # "live" /\ to[u].ended = None
        BY <1>1, <1>2, <3>2 DEF Fresh
      <3> QED
        BY <3>3, <3>4
    <2> QED
      BY <1>10, <2>3, <2>4, <2>5
  <1>14. Good(e)
    <2>1. DOMAIN is = 1 .. Len(is)
      BY <1>9
    <2> QED
      BY <1>1, <1>13, <2>1 DEF Good
  <1>15. ASSUME NEW s \in DOMAIN was
         PROVE  /\ was[s].ended # None => is[s].ended # None
                /\ was[s].last # None => is[s].last # None
    <2>1. s \in 1 .. o \/ s \in o + 1 .. n
      BY <1>3, <1>5
    <2>2. CASE s \in 1 .. o
      BY <1>12, <2>2
    <2>3. CASE s \in o + 1 .. n
      <3>1. is[s] = was[s]
        BY <1>5, <1>8, <2>3
      <3> QED
        BY <3>1
    <2> QED
      BY <2>1, <2>2, <2>3
  <1>16. Kept(db, e)
    <2>1. Len(was) <= Len(is)
      BY <1>5, <1>9
    <2> QED
      BY <1>1, <1>7, <1>15, <2>1 DEF Kept
  <1> QED
    BY <1>1, <1>8, <1>11, <1>14, <1>16

\* A session that the request did not change, or that nobody else changed.
LEMMA WrittenRowSame ==
  ASSUME NEW row \in Session, NEW old \in Session, NEW new \in Session
  PROVE  /\ new = old => WrittenRow(row, old, new) = row
         /\ row = old => WrittenRow(row, old, new) = new
  <1>1. CASE new = old
    <2>1. row = [c \in DOMAIN row |-> row[c]]
      BY DEF Session
    <2> QED
      BY <1>1, <2>1 DEF WrittenRow
  <1>2. CASE row = old
    <2>1. new = [c \in DOMAIN row |-> new[c]]
      BY DEF Session
    <2>2. WrittenRow(row, old, new) = [c \in DOMAIN row |-> new[c]]
      BY <1>2 DEF WrittenRow
    <2> QED
      BY <1>2, <2>1, <2>2 DEF WrittenRow
  <1> QED
    BY <1>1, <1>2 DEF WrittenRow

\* A session that no commit writes over unread stays right.
LEMMA MergedRight ==
  ASSUME db \in Database, NEW old \in Database, NEW new,
         Kept(old, db), Sound(old, new), NEW s \in DOMAIN Merged(old, new).sessions,
         s \in DOMAIN db.sessions => Right(db, s),
         s \in DOMAIN old.sessions => Right(old, s),
         s \in DOMAIN old.sessions =>
           View(new, s) = View(old, s) \/ View(db, s) = View(old, s)
  PROVE  Right(Merged(old, new), s)
  <1>1. PICK e, was, from, to, is :
          /\ e = Merged(old, new)
          /\ was = db.sessions /\ from = old.sessions /\ to = new.sessions
          /\ is = e.sessions
    OBVIOUS
  <1>2. new \in Database /\ Kept(old, new) /\ Fresh(old, new) /\ Proper(old, new)
    BY DEF Sound
  <1>3. was \in Seq(Session) /\ from \in Seq(Session) /\ to \in Seq(Session)
    BY <1>1, <1>2 DEF Database
  <1>4. Len(from) <= Len(was) /\ Len(from) <= Len(to)
    BY <1>1, <1>2 DEF Kept
  <1>5. HasRows(is, was, from, to)
    BY <1>1, <1>3, <1>4, WrittenTableRows DEF Merged
  <1>6. e.samples = db.samples \cup (new.samples \ old.samples)
    BY <1>1 DEF Merged, Inserted
  <1>7. PICK n \in Nat, o \in Nat, k \in Nat :
          n = Len(was) /\ o = Len(from) /\ k = Len(to) /\ o <= n /\ o <= k
    BY <1>3, <1>4
  <1>8. /\ s \in 1 .. Len(is)
        /\ Len(is) = n + k - o
        /\ \A u \in 1 .. o : is[u] = WrittenRow(was[u], from[u], to[u])
        /\ \A u \in o + 1 .. n : is[u] = was[u]
        /\ \A u \in n + 1 .. Len(is) : is[u] = to[u - n + o]
    <2>1. is \in Seq(Session) /\ s \in DOMAIN is
      BY <1>1, <1>5 DEF HasRows
    <2>2. s \in 1 .. Len(is)
      BY <2>1
    <2> QED
      BY <1>5, <1>7, <2>2 DEF HasRows
  <1>9. CASE s \in 1 .. o
    <2>1. s \in DOMAIN was /\ s \in DOMAIN from /\ s \in DOMAIN to
      BY <1>3, <1>7, <1>9
    <2>2. was[s] \in Session /\ from[s] \in Session /\ to[s] \in Session
      BY <1>3, <2>1
    <2>3. is[s] = WrittenRow(was[s], from[s], to[s])
      BY <1>8, <1>9
    <2>4. Right(db, s) /\ Right(new, s)
      BY <1>1, <1>2, <2>1 DEF Proper
    <2>5. CASE View(new, s) = View(old, s)
      <3>1. to[s] = from[s]
            /\ {r \in new.samples : r.session = s} = {r \in old.samples : r.session = s}
        BY <1>1, <2>5 DEF View
      <3>2. is[s] = was[s]
        BY <2>2, <2>3, <3>1, WrittenRowSame
      <3>3. {r \in e.samples : r.session = s} = {r \in db.samples : r.session = s}
        BY <1>6, <3>1
      <3> QED
        BY <1>1, <2>4, <3>2, <3>3 DEF Right, Summary
    <2>6. CASE View(db, s) = View(old, s)
      <3>1. was[s] = from[s]
            /\ {r \in db.samples : r.session = s} = {r \in old.samples : r.session = s}
        BY <1>1, <2>6 DEF View
      <3>2. is[s] = to[s]
        BY <2>2, <2>3, <3>1, WrittenRowSame
      <3>3. {r \in e.samples : r.session = s} = {r \in new.samples : r.session = s}
        BY <1>2, <1>6, <3>1 DEF Kept
      <3> QED
        BY <1>1, <2>4, <3>2, <3>3 DEF Right, Summary
    <2> QED
      BY <1>1, <2>1, <2>5, <2>6
  <1>10. CASE s \in o + 1 .. n
    <2>1. s \in DOMAIN was /\ s \notin DOMAIN from
      BY <1>3, <1>7, <1>10
    <2>2. is[s] = was[s]
      BY <1>8, <1>10
    <2>3. {r \in e.samples : r.session = s} = {r \in db.samples : r.session = s}
      BY <1>1, <1>2, <1>6, <2>1 DEF Proper
    <2> QED
      BY <1>1, <2>1, <2>2, <2>3 DEF Right, Summary
  <1>11. CASE s \in n + 1 .. Len(is)
    <2>1. PICK u \in Nat : u = s - n + o /\ u \in 1 .. k /\ u \notin 1 .. o
      <3>1. s - n + o \in Nat
        BY <1>7, <1>8, <1>11
      <3>2. s - n + o \in 1 .. k /\ s - n + o \notin 1 .. o
        BY <1>7, <1>8, <1>11
      <3> QED
        BY <3>1, <3>2
    <2>2. u \in DOMAIN to \ DOMAIN from
      BY <1>3, <1>7, <2>1
    <2>3. is[s] = to[u]
      BY <1>8, <1>11, <2>1
    <2>4. Active(to[u]) /\ to[u].ended = None
      BY <1>1, <1>2, <2>2 DEF Fresh
    <2> QED
      BY <1>1, <2>3, <2>4 DEF Right
  <1>12. s \in 1 .. o \/ s \in o + 1 .. n \/ s \in n + 1 .. Len(is)
    BY <1>7, <1>8
  <1> QED
    BY <1>9, <1>10, <1>11, <1>12

-----------------------------------------------------------------------------
(* The inductive invariant.                                                *)

Thens == {"none", "heartbeat", "targets", "sessions"}

PendingOK(p) ==
  \/ p \in [stage : {"idle"}, then : Thens]
  \/ p \in [stage : {"commit"}, old : Database, new : Database, then : Thens]

\* What a thread read has only been added to since, and what it makes of it is
\* right for what it read.
Sane(p, d) == p.stage = "commit" => Kept(p.old, d) /\ Sound(p.old, p.new)

\* The threads that have a session to insert.
Inserting ==
  {u \in Threads : /\ pending[u].stage = "commit"
                   /\ Len(pending[u].new.sessions) > Len(pending[u].old.sessions)}

IInv ==
  /\ TypeOK
  /\ DOMAIN pending = Threads
  /\ \A d \in Devices : targets[d] <= spent
  /\ Good(db)
  /\ \A t \in Threads : Sane(pending[t], db)
  /\ Len(db.sessions) + Cardinality(Inserting) <= MaxSessions

LEMMA TypeParts ==
  TypeOK <=> /\ db \in Database
             /\ Len(db.sessions) <= MaxSessions
             /\ now \in 0 .. Horizon
             /\ targets \in [Devices -> 0 .. Budget]
             /\ \A t \in Threads : PendingOK(pending[t])
             /\ spent \in 0 .. Budget
             /\ overlapped \subseteq DOMAIN db.sessions
             /\ raced \subseteq DOMAIN db.sessions
  BY DEF TypeOK, PendingOK, Thens, SessionIds

LEMMA KeptTransitive ==
  ASSUME NEW d \in Database, NEW e \in Database, NEW f \in Database, Kept(d, e), Kept(e, f)
  PROVE  Kept(d, f)
  <1>1. /\ d.sessions \in Seq(Session)
        /\ e.sessions \in Seq(Session)
        /\ f.sessions \in Seq(Session)
    BY DEF Database
  <1>2. Len(d.sessions) <= Len(f.sessions) /\ DOMAIN d.sessions \subseteq DOMAIN e.sessions
    BY <1>1 DEF Kept
  <1>3. d.samples \subseteq f.samples /\ d.stopEvents \subseteq f.stopEvents
    BY DEF Kept
  <1>4. ASSUME NEW s \in DOMAIN d.sessions
        PROVE  /\ d.sessions[s].ended # None => f.sessions[s].ended # None
               /\ d.sessions[s].last # None => f.sessions[s].last # None
    BY <1>2 DEF Kept
  <1> QED
    BY <1>2, <1>3, <1>4 DEF Kept

LEMMA InsertingFinite ==
  IsFiniteSet(Inserting) /\ Cardinality(Inserting) \in Nat
  <1>1. IsFiniteSet(Requests \cup {Maintenance})
    BY FiniteAssumption, FS_AddElement
  <1>2. Inserting \subseteq Requests \cup {Maintenance}
    BY DEF Inserting, Threads
  <1> QED
    BY <1>1, <1>2, FS_Subset, FS_CardinalityType

LEMMA InitInv == Init => IInv
  <1> SUFFICES ASSUME Init PROVE IInv
    OBVIOUS
  <1> USE DEF Init
  <1>1. db.sessions = <<>> /\ Len(db.sessions) = 0 /\ DOMAIN db.sessions = {}
    OBVIOUS
  <1>2. \A t \in Threads : pending[t].stage = "idle" /\ PendingOK(pending[t])
    BY DEF Idle, PendingOK, Thens
  <1>3. db \in Database
    <2>1. <<>> \in Seq(Session)
      OBVIOUS
    <2>2. 0 \in 0 .. Horizon
      BY BoundsAssumption
    <2> QED
      BY <2>1, <2>2 DEF Database
  <1>4. 0 \in 0 .. Horizon /\ 0 \in 0 .. Budget /\ 0 <= MaxSessions
    BY BoundsAssumption
  <1>5. TypeOK
    BY <1>1, <1>2, <1>3, <1>4, TypeParts
  <1>6. Inserting = {}
    BY <1>2 DEF Inserting
  <1>7. Good(db)
    BY <1>1 DEF Good
  <1>8. \A t \in Threads : Sane(pending[t], db)
    BY <1>2 DEF Sane
  <1> QED
    BY <1>1, <1>4, <1>5, <1>6, <1>7, <1>8, FS_EmptySet DEF IInv

\* The requests that are under way do not notice a change that adds to the rows.
LEMMA StillSane ==
  ASSUME NEW p, PendingOK(p), NEW d \in Database, NEW e \in Database,
         Sane(p, d), Kept(d, e)
  PROVE  Sane(p, e)
  <1> SUFFICES ASSUME p.stage = "commit" PROVE Kept(p.old, e)
    BY DEF Sane
  <1>1. p.old \in Database /\ Kept(p.old, d)
    BY DEF PendingOK, Sane
  <1> QED
    BY <1>1, KeptTransitive

\* A request, or a round of the maintenance loop, begins with a handler of what
\* it reads.
Begins(t, new, then) ==
  /\ Begin(t, new, then)
  /\ then \in Thens
  /\ pending[t].stage = "idle"
  /\ Sound(db, new)
  /\ Careful(db, new)
  /\ \/ Len(new.sessions) = Len(db.sessions)
     \/ /\ InForce(db) = {}
        /\ Len(db.sessions) + Cardinality(Inserting) < MaxSessions

\* A thread that begins to wait for its commit.
LEMMA BeginInv ==
  ASSUME IInv, NEW t \in Threads, NEW new, NEW then, Begins(t, new, then)
  PROVE  IInv'
  <1>0. /\ Begin(t, new, then) /\ then \in Thens /\ pending[t].stage = "idle"
        /\ Sound(db, new)
        /\ \/ Len(new.sessions) = Len(db.sessions)
           \/ Len(db.sessions) + Cardinality(Inserting) < MaxSessions
    BY DEF Begins
  <1>1. TypeOK /\ DOMAIN pending = Threads /\ new \in Database
    BY <1>0 DEF IInv, Sound
  <1>2. UNCHANGED <<db, now, targets, overlapped, raced>>
    BY <1>0 DEF Begin
  <1>3. spent' \in 0 .. Budget /\ spent <= spent'
    BY <1>0, <1>1, TypeParts, BoundsAssumption DEF Begin, Spend
  <1> DEFINE p == IF new = db THEN Idle(then)
                  ELSE [stage |-> "commit", old |-> db, new |-> new, then |-> then]
  <1>4. pending' = [pending EXCEPT ![t] = p]
    BY <1>0 DEF Begin
  <1>5. PendingOK(p) /\ Sane(p, db)
    <2>1. CASE new = db
      BY <1>0, <2>1 DEF Idle, PendingOK, Sane
    <2>2. CASE new # db
      <3>1. Kept(db, db)
        BY <1>1, TypeParts DEF Kept, Database
      <3> QED
        BY <1>0, <1>1, <2>2, <3>1, TypeParts DEF PendingOK, Sane
    <2> QED
      BY <2>1, <2>2
  <1>6. p.stage = "commit" => p.old = db /\ p.new = new
    BY DEF Idle
  <1> HIDE DEF p
  <1>7. /\ DOMAIN pending' = Threads
        /\ \A u \in Threads : pending'[u] = IF u = t THEN p ELSE pending[u]
    BY <1>1, <1>4
  <1>8. TypeOK'
    <2>1. \A u \in Threads : PendingOK(pending'[u])
      BY <1>1, <1>5, <1>7, TypeParts
    <2> QED
      BY <1>1, <1>2, <1>3, <2>1 DEF TypeOK, PendingOK, Thens, SessionIds
  <1>9. \A u \in Threads : Sane(pending'[u], db')
    BY <1>2, <1>5, <1>7 DEF IInv
  <1>10. t \notin Inserting
    BY <1>0 DEF Inserting
  <1>11. Len(db.sessions) + Cardinality(Inserting') <= MaxSessions
    <2>1. CASE Len(new.sessions) = Len(db.sessions)
      <3>1. Inserting' = Inserting
        <4>1. db.sessions \in Seq(Session)
          BY <1>1, TypeParts DEF Database
        <4> QED
          BY <1>0, <1>6, <1>7, <2>1, <4>1 DEF Inserting
      <3> QED
        BY <3>1 DEF IInv
    <2>2. CASE Len(db.sessions) + Cardinality(Inserting) < MaxSessions
      <3>1. Inserting' \subseteq Inserting \cup {t}
        BY <1>7 DEF Inserting
      <3>2. /\ IsFiniteSet(Inserting \cup {t})
            /\ Cardinality(Inserting \cup {t}) = Cardinality(Inserting) + 1
        BY <1>10, InsertingFinite, FS_AddElement
      <3>3. /\ Cardinality(Inserting') <= Cardinality(Inserting \cup {t})
            /\ Cardinality(Inserting') \in Nat
        BY <3>1, <3>2, FS_Subset, FS_CardinalityType
      <3>4. Len(db.sessions) \in Nat /\ MaxSessions \in Nat
        BY <1>1, TypeParts, BoundsAssumption DEF Database
      <3> QED
        BY <2>2, <3>2, <3>3, <3>4, InsertingFinite
    <2> QED
      BY <1>0, <2>1, <2>2
  <1>12. \A d \in Devices : targets'[d] <= spent'
    BY <1>1, <1>2, <1>3, TypeParts DEF IInv
  <1> QED
    BY <1>2, <1>7, <1>8, <1>9, <1>11, <1>12 DEF IInv

\* The thread has nothing to commit any more.
LEMMA CommitInv ==
  ASSUME IInv, NEW t \in Threads, Commit(t)
  PROVE  IInv'
  <1>1. TypeOK /\ DOMAIN pending = Threads /\ Good(db)
    BY DEF IInv
  <1>2. PICK old, new, then :
          /\ old = pending[t].old /\ new = pending[t].new /\ then = pending[t].then
    OBVIOUS
  <1>3. pending[t].stage = "commit" /\ UNCHANGED <<now, targets, spent>>
    BY DEF Commit
  <1>4. old \in Database /\ new \in Database /\ then \in Thens
    BY <1>1, <1>2, <1>3, TypeParts DEF PendingOK
  <1>5. Kept(old, db) /\ Sound(old, new)
    BY <1>2, <1>3 DEF IInv, Sane
  <1>6. db \in Database /\ db.sessions \in Seq(Session) /\ Len(db.sessions) \in Nat
        /\ old.sessions \in Seq(Session) /\ new.sessions \in Seq(Session)
    BY <1>1, <1>4, TypeParts DEF Database
  <1>7. Len(old.sessions) <= Len(new.sessions) /\ Len(new.sessions) <= Len(old.sessions) + 1
    BY <1>5 DEF Sound, Kept, Fresh
  <1>8. PICK idle \in Thens : pending' = [pending EXCEPT ![t] = Idle(idle)]
    BY <1>2, <1>4 DEF Commit, Thens
  <1>9. /\ DOMAIN pending' = Threads
        /\ \A u \in Threads : pending'[u] = IF u = t THEN Idle(idle) ELSE pending[u]
        /\ Idle(idle).stage = "idle"
        /\ PendingOK(Idle(idle))
    BY <1>1, <1>8 DEF Idle, PendingOK
  <1>10. /\ db' \in Database
         /\ Good(db')
         /\ Kept(db, db')
         /\ \/ Len(db'.sessions) = Len(db.sessions)
            \/ /\ Len(new.sessions) = Len(old.sessions) + 1
               /\ Len(db'.sessions) = Len(db.sessions) + 1
    <2>1. CASE Collides(old, new)
      <3>1. db' = db
        BY <1>2, <2>1 DEF Commit
      <3>2. Kept(db, db)
        BY <1>6 DEF Kept
      <3> QED
        BY <1>1, <1>6, <3>1, <3>2
    <2>2. CASE ~Collides(old, new)
      <3>1. db' = Merged(old, new)
        BY <1>2, <2>2 DEF Commit
      <3>2. /\ db' \in Database
            /\ Good(db')
            /\ Kept(db, db')
            /\ Len(db'.sessions) = Len(db.sessions) + Len(new.sessions) - Len(old.sessions)
        BY <1>1, <1>4, <1>5, <1>6, <3>1, MergedSound
      <3>3. \/ Len(new.sessions) = Len(old.sessions)
            \/ Len(new.sessions) = Len(old.sessions) + 1
        BY <1>6, <1>7
      <3>4. CASE Len(new.sessions) = Len(old.sessions)
        <4>1. Len(old.sessions) \in Nat
          BY <1>6
        <4> QED
          BY <1>6, <3>2, <3>4, <4>1
      <3>5. CASE Len(new.sessions) = Len(old.sessions) + 1
        <4>1. Len(old.sessions) \in Nat
          BY <1>6
        <4> QED
          BY <1>6, <3>2, <3>5, <4>1
      <3> QED
        BY <3>3, <3>4, <3>5
    <2> QED
      BY <2>1, <2>2
  <1>11. Len(db'.sessions) + Cardinality(Inserting') <= MaxSessions
    <2>1. Inserting' = Inserting \ {t}
      BY <1>9 DEF Inserting
    <2>2. CASE Len(db'.sessions) = Len(db.sessions)
      <3>1. Cardinality(Inserting') <= Cardinality(Inserting) /\ Cardinality(Inserting') \in Nat
        BY <2>1, InsertingFinite, FS_Subset, FS_CardinalityType
      <3> QED
        BY <1>6, <2>2, <3>1, InsertingFinite, BoundsAssumption DEF IInv
    <2>3. CASE /\ Len(new.sessions) = Len(old.sessions) + 1
               /\ Len(db'.sessions) = Len(db.sessions) + 1
      <3>1. t \in Inserting
        BY <1>2, <1>3, <1>6, <2>3 DEF Inserting
      <3>2. Cardinality(Inserting') = Cardinality(Inserting) - 1
        BY <2>1, <3>1, InsertingFinite, FS_RemoveElement
      <3> QED
        BY <1>6, <2>3, <3>2, InsertingFinite, BoundsAssumption DEF IInv
    <2> QED
      BY <1>10, <2>2, <2>3
  <1>12. Len(db'.sessions) <= MaxSessions
    <2>1. IsFiniteSet(Inserting')
      <3>1. Inserting' \subseteq Inserting
        BY <1>9 DEF Inserting
      <3> QED
        BY <3>1, InsertingFinite, FS_Subset
    <2>2. Cardinality(Inserting') \in Nat /\ Len(db'.sessions) \in Nat
      BY <1>10, <2>1, FS_CardinalityType DEF Database
    <2> QED
      BY <1>11, <2>2, BoundsAssumption
  <1>13. DOMAIN db.sessions \subseteq DOMAIN db'.sessions
    BY <1>6, <1>10 DEF Database, Kept
  <1>14. DOMAIN old.sessions \subseteq DOMAIN db.sessions
    BY <1>5, <1>6 DEF Kept
  <1>15. overlapped' \subseteq DOMAIN db'.sessions /\ raced' \subseteq DOMAIN db'.sessions
    <2>1. CASE Collides(old, new)
      BY <1>1, <1>2, <1>13, <2>1, TypeParts DEF Commit
    <2>2. CASE ~Collides(old, new)
      <3>1. db' = Merged(old, new)
        BY <1>2, <2>2 DEF Commit
      <3>2. overlapped' \subseteq overlapped \cup InForce(Merged(old, new))
        BY <1>2, <2>2 DEF Commit
      <3>3. InForce(Merged(old, new)) \subseteq DOMAIN db'.sessions
        BY <3>1 DEF InForce
      <3>4. raced' \subseteq raced \cup DOMAIN old.sessions
        BY <1>2, <2>2 DEF Commit
      <3> QED
        BY <1>1, <1>13, <1>14, <3>2, <3>3, <3>4, TypeParts
    <2> QED
      BY <2>1, <2>2
  <1>16. TypeOK'
    <2>1. \A u \in Threads : PendingOK(pending'[u])
      BY <1>1, <1>9, TypeParts
    <2> QED
      BY <1>1, <1>3, <1>10, <1>12, <1>15, <2>1 DEF TypeOK, PendingOK, Thens, SessionIds
  <1>17. \A u \in Threads : Sane(pending'[u], db')
    <2> SUFFICES ASSUME NEW u \in Threads PROVE Sane(pending'[u], db')
      OBVIOUS
    <2>1. CASE u = t
      BY <1>9, <2>1 DEF Sane
    <2>2. CASE u # t
      BY <1>1, <1>6, <1>9, <1>10, <2>2, StillSane, TypeParts DEF IInv
    <2> QED
      BY <2>1, <2>2
  <1> QED
    BY <1>3, <1>9, <1>10, <1>11, <1>16, <1>17 DEF IInv

\* A step that leaves the rows and the requests as they are.
LEMMA OtherInv ==
  ASSUME IInv, UNCHANGED <<db, pending, overlapped, raced>>,
         now' \in 0 .. Horizon, spent' \in 0 .. Budget,
         targets' \in [Devices -> 0 .. Budget],
         \A d \in Devices : targets'[d] <= spent'
  PROVE  IInv'
  <1>1. Inserting' = Inserting
    BY DEF Inserting
  <1>2. TypeOK'
    BY DEF IInv, TypeOK, SessionIds
  <1> QED
    BY <1>1, <1>2 DEF IInv

LEMMA SteadyBegins ==
  ASSUME NEW t, NEW new, NEW then \in Thens, Begin(t, new, then),
         pending[t].stage = "idle", Steady(db, new)
  PROVE  \E e, next : Begins(t, e, next)
  BY DEF Begins, Steady

LEMMA RequestBegins ==
  ASSUME IInv, NEW t \in Requests, Request(t)
  PROVE  (\E then : ReportIn(t, then)) \/ (\E e, next : Begins(t, e, next))
  <1>1. /\ db \in Database /\ Good(db) /\ Len(db.sessions) <= MaxSessions
        /\ now \in 0 .. Horizon /\ targets \in [Devices -> 0 .. Budget]
    BY TypeParts DEF IInv
  <1>2. \A then : Ready(t, then) => pending[t].stage = "idle"
    BY DEF Ready, Idle
  <1>3. {"none", "heartbeat", "targets", "sessions"} \subseteq Thens
    BY DEF Thens
  <1>4. ASSUME NEW device \in Devices, NEW mode \in Modes, StartTracking(t, device, mode)
        PROVE  \E e, next : Begins(t, e, next)
    <2>1. PICK e : e = Start(db, device, mode)
      OBVIOUS
    <2>2. Sound(db, e) /\ Careful(db, e) /\ (Len(e.sessions) > Len(db.sessions) => InForce(db) = {})
      BY <1>1, <1>4, <2>1, StartSound DEF StartTracking
    <2>3. Len(db.sessions) + Cardinality(Inserting) < MaxSessions
      BY <1>4 DEF StartTracking, Inserting
    <2>4. Len(e.sessions) = Len(db.sessions) \/ Len(e.sessions) > Len(db.sessions)
      <3>1. Len(db.sessions) \in Nat /\ Len(e.sessions) \in Nat
        BY <1>1, <2>2 DEF Sound, Database
      <3> QED
        BY <2>2, <3>1 DEF Sound, Kept
    <2>5. Begin(t, e, "none") /\ Ready(t, "none")
      BY <1>4, <2>1 DEF StartTracking
    <2> QED
      BY <1>2, <1>3, <2>2, <2>3, <2>4, <2>5 DEF Begins
  <1>5. ASSUME NEW s \in SessionIds, RenewLease(t, s)
        PROVE  \E e, next : Begins(t, e, next)
    <2>1. s \in DOMAIN db.sessions
      BY DEF SessionIds
    <2>2. Active(db.sessions[s]) /\ ~Over(db.sessions[s]) => Steady(db, Renewed(db, s))
      BY <1>1, <1>5, <2>1, RenewedSound DEF RenewLease
    <2>3. Steady(db, IfActive(db, s, Renewed(db, s)))
      BY <1>1, <2>1, <2>2, IfActiveSound
    <2> QED
      BY <1>1, <1>2, <1>3, <1>5, <2>3, SteadyBegins DEF RenewLease
  <1>6. ASSUME NEW s \in SessionIds, StopTracking(t, s)
        PROVE  \E e, next : Begins(t, e, next)
    <2>1. Steady(db, Finish(db, s, "stopped"))
      BY <1>1, FinishSound DEF SessionIds
    <2> QED
      BY <1>1, <1>2, <1>3, <1>6, <2>1, SteadyBegins DEF StopTracking
  <1>7. ASSUME NEW s \in SessionIds, NEW id \in Positions, RecordPosition(t, s, id)
        PROVE  \E e, next : Begins(t, e, next)
    <2>1. Steady(db, Place(db, s, id))
      BY <1>1, PlaceSound DEF SessionIds
    <2> QED
      BY <1>1, <1>2, <1>3, <1>7, <2>1, SteadyBegins DEF RecordPosition
  <1>8. ASSUME NEW s \in SessionIds, NEW id \in Samples, NEW delayed \in BOOLEAN,
               IngestSample(t, s, id, delayed)
        PROVE  \E e, next : Begins(t, e, next)
    <2>1. Steady(db, Ingest(db, s, id, delayed))
      BY <1>1, IngestSound DEF SessionIds
    <2> QED
      BY <1>1, <1>2, <1>3, <1>8, <2>1, SteadyBegins DEF IngestSample
  <1>9. ASSUME NEW s \in SessionIds, NEW reported, TrackingHeartbeat(t, s, reported)
        PROVE  \E e, next : Begins(t, e, next)
    <2>1. Steady(db, Heartbeat(db, s, reported))
      BY <1>1, HeartbeatSound DEF SessionIds
    <2> QED
      BY <1>1, <1>2, <1>3, <1>9, <2>1, SteadyBegins DEF TrackingHeartbeat
  <1>10. ASSUME NoTrackingHeartbeat(t)
         PROVE  \E e, next : Begins(t, e, next)
    <2>1. Steady(db, db)
      BY <1>1, Nothing
    <2> QED
      BY <1>1, <1>2, <1>3, <1>10, <2>1, SteadyBegins DEF NoTrackingHeartbeat
  <1>11. ASSUME RefreshTargets(t)
         PROVE  \E e, next : Begins(t, e, next)
    <2>1. Steady(db, Retarget(db))
      BY <1>1, RetargetSound
    <2> QED
      BY <1>1, <1>2, <1>3, <1>11, <2>1, SteadyBegins DEF RefreshTargets
  <1> QED
    BY <1>4, <1>5, <1>6, <1>7, <1>8, <1>9, <1>10, <1>11 DEF Request

LEMMA SweepBegins ==
  ASSUME IInv, SweepScanners \/ SweepSessions
  PROVE  \E e, next : Begins(Maintenance, e, next)
  <1>1. /\ db \in Database /\ Good(db) /\ Len(db.sessions) <= MaxSessions
        /\ now \in 0 .. Horizon /\ Maintenance \in Threads
    BY TypeParts DEF IInv, Threads
  <1>2. \A then : Ready(Maintenance, then) => pending[Maintenance].stage = "idle"
    BY DEF Ready, Idle
  <1>3. {"none", "sessions"} \subseteq Thens
    BY DEF Thens
  <1>4. CASE SweepScanners
    <2> DEFINE e == [db EXCEPT !.scanner.status = "offline"]
    <2>1. Steady(db, db)
      BY <1>1, Nothing
    <2>2. Steady(db, e)
      <3>1. /\ e \in Database
            /\ e.sessions = db.sessions
            /\ e.samples = db.samples
            /\ e.stopEvents = db.stopEvents
        BY <1>1 DEF Database
      <3> HIDE DEF e
      <3> QED
        BY <1>1, <3>1, SameRows
    <2>3. PICK new : Steady(db, new) /\ Begin(Maintenance, new, "sessions")
      BY <1>4, <2>1, <2>2 DEF SweepScanners
    <2> QED
      BY <1>1, <1>2, <1>3, <1>4, <2>3, SteadyBegins DEF SweepScanners
  <1>5. CASE SweepSessions
    <2>1. Steady(db, Sweep(db))
      BY <1>1, SweepSound
    <2> QED
      BY <1>1, <1>2, <1>3, <1>5, <2>1, SteadyBegins DEF SweepSessions
  <1> QED
    BY <1>4, <1>5

LEMMA ReportInv ==
  ASSUME IInv, NEW t \in Threads, NEW then, ReportIn(t, then)
  PROVE  IInv'
  <1>0. /\ db \in Database /\ Good(db) /\ DOMAIN pending = Threads
        /\ now \in 0 .. Horizon /\ targets \in [Devices -> 0 .. Budget]
    BY TypeParts DEF IInv
  <1>1. /\ db' = [db EXCEPT !.scanner = [status |-> "online", seen |-> now]]
        /\ pending' = [pending EXCEPT ![t] = Idle(then)]
        /\ then \in Thens
        /\ UNCHANGED <<now, targets, overlapped, raced>>
        /\ pending[t].stage = "idle"
    BY DEF ReportIn, Ready, Idle, Thens
  <1>2. spent' \in 0 .. Budget /\ spent <= spent'
    BY TypeParts, BoundsAssumption DEF IInv, ReportIn, Spend
  <1>3. /\ db' \in Database
        /\ db'.sessions = db.sessions
        /\ db'.samples = db.samples
        /\ db'.stopEvents = db.stopEvents
    BY <1>0, <1>1 DEF Database
  <1>4. Good(db') /\ Kept(db, db')
    <2>1. db.sessions \in Seq(Session)
      BY <1>0 DEF Database
    <2> QED
      BY <1>0, <1>3, <2>1 DEF Good, Kept
  <1>5. /\ DOMAIN pending' = Threads
        /\ \A u \in Threads : pending'[u] = IF u = t THEN Idle(then) ELSE pending[u]
        /\ Idle(then).stage = "idle"
        /\ PendingOK(Idle(then))
    BY <1>0, <1>1 DEF Idle, PendingOK
  <1>6. Inserting' = Inserting
    BY <1>1, <1>5 DEF Inserting
  <1>7. \A u \in Threads : PendingOK(pending'[u]) /\ Sane(pending'[u], db')
    <2> SUFFICES ASSUME NEW u \in Threads
                 PROVE  PendingOK(pending'[u]) /\ Sane(pending'[u], db')
      OBVIOUS
    <2>1. CASE u = t
      BY <1>5, <2>1 DEF Sane
    <2>2. CASE u # t
      BY <1>0, <1>3, <1>4, <1>5, <2>2, StillSane, TypeParts DEF IInv
    <2> QED
      BY <2>1, <2>2
  <1>8. TypeOK'
    <2>1. TypeOK
      BY DEF IInv
    <2> QED
      BY <1>0, <1>1, <1>2, <1>3, <1>7, <2>1 DEF TypeOK, PendingOK, Thens, SessionIds
  <1>9. \A d \in Devices : targets'[d] <= spent'
    BY <1>0, <1>1, <1>2, TypeParts DEF IInv
  <1> QED
    BY <1>3, <1>4, <1>5, <1>6, <1>7, <1>8, <1>9 DEF IInv

LEMMA FailInv ==
  ASSUME IInv, NEW t \in Threads, Fail(t)
  PROVE  IInv'
  <1>1. /\ UNCHANGED <<db, now, targets, overlapped, raced>>
        /\ pending' = [pending EXCEPT ![t] = Idle("none")]
    BY DEF Fail
  <1>2. TypeOK /\ DOMAIN pending = Threads
    BY DEF IInv
  <1>3. spent' \in 0 .. Budget /\ spent <= spent'
    BY <1>2, TypeParts, BoundsAssumption DEF Fail, Spend
  <1>4. /\ DOMAIN pending' = Threads
        /\ \A u \in Threads : pending'[u] = IF u = t THEN Idle("none") ELSE pending[u]
        /\ Idle("none").stage = "idle"
        /\ PendingOK(Idle("none"))
    BY <1>1, <1>2 DEF Idle, PendingOK, Thens
  <1>5. Inserting' \subseteq Inserting
    BY <1>4 DEF Inserting
  <1>6. Len(db.sessions) + Cardinality(Inserting') <= MaxSessions
    <2>1. Cardinality(Inserting') <= Cardinality(Inserting) /\ Cardinality(Inserting') \in Nat
      BY <1>5, InsertingFinite, FS_Subset, FS_CardinalityType
    <2>2. Len(db.sessions) \in Nat
      BY <1>2, TypeParts DEF Database
    <2> QED
      BY <2>1, <2>2, InsertingFinite, BoundsAssumption DEF IInv
  <1>7. \A u \in Threads : PendingOK(pending'[u]) /\ Sane(pending'[u], db')
    <2>1. \A u \in Threads : PendingOK(pending[u]) /\ Sane(pending[u], db)
      BY <1>2, TypeParts DEF IInv
    <2> QED
      BY <1>1, <1>4, <2>1 DEF Sane
  <1>8. TypeOK'
    BY <1>1, <1>2, <1>3, <1>7 DEF TypeOK, PendingOK, Thens, SessionIds
  <1>9. \A d \in Devices : targets'[d] <= spent'
    BY <1>1, <1>2, <1>3, TypeParts DEF IInv
  <1> QED
    BY <1>1, <1>4, <1>6, <1>7, <1>8, <1>9 DEF IInv

LEMMA IdentityInv ==
  ASSUME IInv, NEW device \in Devices, NewIdentity(device)
  PROVE  IInv'
  <1>1. TypeOK /\ \A d \in Devices : targets[d] <= spent
    BY DEF IInv
  <1>2. spent' \in 0 .. Budget /\ spent' = spent + 1
    BY <1>1, TypeParts, BoundsAssumption DEF NewIdentity, Spend
  <1>3. /\ targets' = [targets EXCEPT ![device] = targets[device] + 1]
        /\ UNCHANGED <<db, now, pending, overlapped, raced>>
    BY DEF NewIdentity
  <1>4. targets[device] + 1 \in 0 .. Budget
    BY <1>1, <1>2, TypeParts, BoundsAssumption
  <1>5. targets' \in [Devices -> 0 .. Budget] /\ \A d \in Devices : targets'[d] <= spent'
    BY <1>1, <1>2, <1>3, <1>4, TypeParts
  <1> QED
    BY <1>1, <1>2, <1>3, <1>5, OtherInv, TypeParts

LEMMA StepInv == IInv /\ [Next]_vars => IInv'
  <1> SUFFICES ASSUME IInv, [Next]_vars PROVE IInv'
    OBVIOUS
  <1>1. /\ TypeOK /\ now \in 0 .. Horizon /\ spent \in 0 .. Budget
        /\ targets \in [Devices -> 0 .. Budget]
        /\ \A d \in Devices : targets[d] <= spent
    BY TypeParts DEF IInv
  <1>2. ASSUME NEW t \in Requests, Request(t) \/ Commit(t)
        PROVE  IInv'
    BY <1>2, RequestBegins, BeginInv, ReportInv, CommitInv DEF Threads
  <1>3. CASE Maintain
    BY <1>3, SweepBegins, BeginInv, CommitInv DEF Maintain, Threads
  <1>4. ASSUME NEW t \in Threads, Fail(t)
        PROVE  IInv'
    BY <1>4, FailInv
  <1>5. ASSUME NEW device \in Devices, NewIdentity(device)
        PROVE  IInv'
    BY <1>5, IdentityInv
  <1>6. CASE Tick
    <2>1. now' \in 0 .. Horizon /\ UNCHANGED <<db, targets, pending, spent, overlapped, raced>>
      BY <1>1, <1>6, BoundsAssumption DEF Tick
    <2> QED
      BY <1>1, <2>1, OtherInv
  <1>7. CASE UNCHANGED vars
    BY <1>1, <1>7, OtherInv DEF vars
  <1> QED
    BY <1>2, <1>3, <1>4, <1>5, <1>6, <1>7 DEF Next

LEMMA Invariance == Spec => []IInv
  BY InitInv, StepInv, PTL DEF Spec

-----------------------------------------------------------------------------
(* Sessions that no commit wrote over unread.                              *)

TrueOf(p) ==
  p.stage = "commit" => \A s \in DOMAIN p.old.sessions \ raced : Right(p.old, s)

Truthful ==
  /\ \A s \in DOMAIN db.sessions \ raced : Right(db, s)
  /\ \A t \in Threads : TrueOf(pending[t])

LEMMA BeginTruth ==
  ASSUME IInv, Truthful, NEW t \in Threads, NEW new, NEW then, Begin(t, new, then)
  PROVE  Truthful'
  <1>1. db' = db /\ raced' = raced
    BY DEF Begin
  <1> DEFINE p == IF new = db THEN Idle(then)
                  ELSE [stage |-> "commit", old |-> db, new |-> new, then |-> then]
  <1>2. pending' = [pending EXCEPT ![t] = p]
    BY DEF Begin
  <1>3. p.stage = "commit" => p.old = db
    BY DEF Idle
  <1> HIDE DEF p
  <1>4. \A u \in Threads : pending'[u] = IF u = t THEN p ELSE pending[u]
    BY <1>2 DEF IInv
  <1>5. TrueOf(p)
    BY <1>3 DEF TrueOf, Truthful
  <1>6. \A u \in Threads : TrueOf(pending[u])
    BY DEF Truthful
  <1>7. \A u \in Threads : TrueOf(pending'[u])
    BY <1>4, <1>5, <1>6
  <1> QED
    BY <1>1, <1>7 DEF Truthful, TrueOf

\* A step after which a thread, if any, has nothing to commit, and which leaves
\* the sessions and the samples as they were.
LEMMA QuietTruth ==
  ASSUME IInv, Truthful, raced' = raced,
         db'.sessions = db.sessions, db'.samples = db.samples,
         \A u \in Threads : pending'[u] = pending[u] \/ pending'[u].stage = "idle"
  PROVE  Truthful'
  <1>1. \A s : Summary(db', s) = Summary(db, s)
    BY DEF Summary
  <1>2. \A s : Right(db, s) => Right(db', s)
    BY <1>1 DEF Right
  <1>3. \A u \in Threads : TrueOf(pending'[u])
    BY DEF Truthful, TrueOf
  <1> QED
    BY <1>2, <1>3 DEF Truthful, TrueOf

LEMMA CommitTruth ==
  ASSUME IInv, Truthful, NEW t \in Threads, Commit(t)
  PROVE  Truthful'
  <1>1. /\ pending[t].stage = "commit"
        /\ \A u \in Threads : pending'[u] = pending[u] \/ pending'[u].stage = "idle"
    BY DEF Commit, IInv, Idle
  <1>2. PICK old, new : old = pending[t].old /\ new = pending[t].new
    OBVIOUS
  <1>3. db \in Database /\ old \in Database /\ Kept(old, db) /\ Sound(old, new)
    BY <1>1, <1>2, TypeParts DEF IInv, PendingOK, Sane
  <1>4. CASE Collides(old, new)
    BY <1>1, <1>2, <1>4, QuietTruth DEF Commit
  <1>5. CASE ~Collides(old, new)
    <2>1. /\ db' = Merged(old, new)
          /\ raced' = raced \cup {s \in DOMAIN old.sessions :
                        View(new, s) # View(old, s) /\ View(db, s) # View(old, s)}
      BY <1>2, <1>5 DEF Commit
    <2>2. ASSUME NEW s \in DOMAIN Merged(old, new).sessions, s \notin raced'
          PROVE  Right(Merged(old, new), s)
      <3>1. s \in DOMAIN db.sessions => Right(db, s)
        BY <2>1, <2>2 DEF Truthful
      <3>2. s \in DOMAIN old.sessions => Right(old, s)
        BY <1>1, <1>2, <2>1, <2>2 DEF Truthful, TrueOf
      <3>3. s \in DOMAIN old.sessions =>
              View(new, s) = View(old, s) \/ View(db, s) = View(old, s)
        BY <2>1, <2>2
      <3> QED
        BY <1>3, <3>1, <3>2, <3>3, MergedRight
    <2>3. \A s \in DOMAIN db'.sessions \ raced' : Right(db', s)
      BY <2>1, <2>2
    <2>4. \A u \in Threads : pending'[u].stage = "commit" =>
            \A s \in DOMAIN pending'[u].old.sessions \ raced' : Right(pending'[u].old, s)
      BY <1>1, <2>1 DEF Truthful, TrueOf
    <2> QED
      BY <2>3, <2>4 DEF Truthful, TrueOf
  <1> QED
    BY <1>4, <1>5

LEMMA StepTruth == IInv /\ Truthful /\ [Next]_vars => Truthful'
  <1> SUFFICES ASSUME IInv, Truthful, [Next]_vars PROVE Truthful'
    OBVIOUS
  <1>1. DOMAIN pending = Threads
    BY DEF IInv
  <1>2. ASSUME NEW t \in Requests, Request(t)
        PROVE  Truthful'
    <2>1. t \in Threads
      BY DEF Threads
    <2>2. CASE \E e, next : Begins(t, e, next)
      BY <2>1, <2>2, BeginTruth DEF Begins
    <2>3. CASE \E then : ReportIn(t, then)
      <3>1. PICK then : ReportIn(t, then)
        BY <2>3
      <3>2. /\ db' = [db EXCEPT !.scanner = [status |-> "online", seen |-> now]]
            /\ pending' = [pending EXCEPT ![t] = Idle(then)]
            /\ raced' = raced
        BY <3>1 DEF ReportIn
      <3>3. db'.sessions = db.sessions /\ db'.samples = db.samples
        BY <3>2, TypeParts DEF IInv, Database
      <3>4. \A u \in Threads : pending'[u] = pending[u] \/ pending'[u].stage = "idle"
        BY <1>1, <3>2 DEF Idle
      <3> QED
        BY <3>2, <3>3, <3>4, QuietTruth
    <2> QED
      BY <1>2, <2>2, <2>3, RequestBegins
  <1>3. ASSUME NEW t \in Threads, Commit(t)
        PROVE  Truthful'
    BY <1>3, CommitTruth
  <1>4. CASE SweepScanners \/ SweepSessions
    BY <1>4, BeginTruth DEF SweepScanners, SweepSessions, Threads
  <1>5. ASSUME NEW t \in Threads, Fail(t)
        PROVE  Truthful'
    BY <1>1, <1>5, QuietTruth DEF Fail, Idle
  <1>6. ASSUME NEW device \in Devices, NewIdentity(device)
        PROVE  Truthful'
    BY <1>6, QuietTruth DEF NewIdentity
  <1>7. CASE Tick
    BY <1>7, QuietTruth DEF Tick
  <1>8. CASE UNCHANGED vars
    BY <1>8, QuietTruth DEF vars
  <1> QED
    BY <1>2, <1>3, <1>4, <1>5, <1>6, <1>7, <1>8 DEF Next, Maintain, Threads

LEMMA Truth == Spec => []Truthful
  <1>1. Init => Truthful
    BY DEF Init, Truthful, TrueOf, Idle
  <1> QED
    BY <1>1, StepTruth, Invariance, PTL DEF Spec

-----------------------------------------------------------------------------
(* Sessions that are in force together.                                    *)

\* The sessions in force at a time.
ForceAt(d, time) ==
  {s \in DOMAIN d.sessions : Active(d.sessions[s]) /\ ~(d.sessions[s].expires <= time)}

OneAt(d, time, except) ==
  \A s, u \in ForceAt(d, time) : s # u => s \in except \/ u \in except

\* A request gives a session another lease, or starts one, only where it saw no
\* other session in force that is still so.
Apart(p, time, except) ==
  p.stage = "commit" =>
    LET was == p.old.sessions
        is == p.new.sessions
    IN  /\ \A s \in DOMAIN was : Active(is[s]) => Active(was[s])
        /\ \A s \in DOMAIN was : is[s].expires # was[s].expires =>
             \A u \in ForceAt(p.old, time) : u # s => s \in except \/ u \in except
        /\ \A s, u \in DOMAIN was :
             is[s].expires # was[s].expires /\ is[u].expires # was[u].expires => s = u
        /\ Len(is) > Len(was) =>
             /\ ForceAt(p.old, time) = {}
             /\ \A s \in DOMAIN was : is[s].expires = was[s].expires

AllApart ==
  /\ OneAt(db, now, overlapped)
  /\ \A t \in Threads : Apart(pending[t], now, overlapped)

LEMMA ForceNow == \A d : InForce(d) = ForceAt(d, now)
  BY DEF InForce, ForceAt, Over

LEMMA ForceShrinks ==
  ASSUME NEW d \in Database, NEW time \in Nat, NEW later \in Nat, time <= later
  PROVE  ForceAt(d, later) \subseteq ForceAt(d, time)
  <1> SUFFICES ASSUME NEW s \in DOMAIN d.sessions, ~(d.sessions[s].expires <= later)
               PROVE  ~(d.sessions[s].expires <= time)
    BY DEF ForceAt
  <1>1. d.sessions[s].expires \in Nat
    <2>1. d.sessions[s] \in Session
      BY DEF Database
    <2> QED
      BY <2>1, BoundsAssumption DEF Session
  <1> QED
    BY <1>1

\* Neither the time nor another commit brings two sessions together.
LEMMA StillApart ==
  ASSUME NEW p, PendingOK(p), NEW time \in Nat, NEW later \in Nat, time <= later,
         NEW except, NEW more, except \subseteq more, Apart(p, time, except)
  PROVE  Apart(p, later, more)
  <1> SUFFICES ASSUME p.stage = "commit" PROVE Apart(p, later, more)
    BY DEF Apart
  <1>1. p.old \in Database
    BY DEF PendingOK
  <1>2. ForceAt(p.old, later) \subseteq ForceAt(p.old, time)
    BY <1>1, ForceShrinks
  <1> QED
    BY <1>2 DEF Apart

LEMMA StillOne ==
  ASSUME NEW d \in Database, NEW time \in Nat, NEW later \in Nat, time <= later,
         NEW e, e.sessions = d.sessions,
         NEW except, NEW more, except \subseteq more, OneAt(d, time, except)
  PROVE  OneAt(e, later, more)
  <1>1. ForceAt(d, later) \subseteq ForceAt(d, time)
    BY ForceShrinks
  <1>2. ForceAt(e, later) = ForceAt(d, later)
    BY DEF ForceAt
  <1> QED
    BY <1>1, <1>2 DEF OneAt

\* A step that neither begins nor commits anything.
LEMMA QuietApart ==
  ASSUME IInv, AllApart, now' \in Nat, now <= now', overlapped' = overlapped,
         db'.sessions = db.sessions,
         \A u \in Threads : pending'[u] = pending[u] \/ pending'[u].stage = "idle"
  PROVE  AllApart'
  <1>1. db \in Database /\ now \in Nat /\ \A t \in Threads : PendingOK(pending[t])
    BY TypeParts, BoundsAssumption DEF IInv
  <1>2. OneAt(db', now', overlapped')
    BY <1>1, StillOne DEF AllApart
  <1>3. ASSUME NEW u \in Threads
        PROVE  Apart(pending'[u], now', overlapped')
    <2>1. CASE pending'[u] = pending[u]
      BY <1>1, <2>1, StillApart DEF AllApart
    <2>2. CASE pending'[u].stage = "idle"
      BY <2>2 DEF Apart
    <2> QED
      BY <2>1, <2>2
  <1> QED
    BY <1>2, <1>3 DEF AllApart

LEMMA BeginApart ==
  ASSUME IInv, AllApart, NEW t \in Threads, NEW new, NEW then, Begins(t, new, then)
  PROVE  AllApart'
  <1>1. /\ db' = db /\ now' = now /\ overlapped' = overlapped
        /\ Careful(db, new)
        /\ Len(new.sessions) = Len(db.sessions) \/ InForce(db) = {}
    BY DEF Begins, Begin
  <1> DEFINE p == IF new = db THEN Idle(then)
                  ELSE [stage |-> "commit", old |-> db, new |-> new, then |-> then]
  <1>2. pending' = [pending EXCEPT ![t] = p]
    BY DEF Begins, Begin
  <1>3. p.stage = "commit" => p.old = db /\ p.new = new
    BY DEF Idle
  <1> HIDE DEF p
  <1>4. \A u \in Threads : pending'[u] = IF u = t THEN p ELSE pending[u]
    BY <1>2 DEF IInv
  <1>5. Len(new.sessions) > Len(db.sessions) => ForceAt(db, now) = {}
    <2>1. Len(db.sessions) \in Nat
      BY TypeParts DEF IInv, Database
    <2> QED
      BY <1>1, <2>1, ForceNow
  <1>6. \A s \in DOMAIN db.sessions : new.sessions[s].expires # db.sessions[s].expires =>
          s \in ForceAt(db, now)
    BY <1>1, ForceNow DEF Careful
  <1>7. Apart(p, now, overlapped)
    <2> SUFFICES ASSUME p.stage = "commit" PROVE Apart(p, now, overlapped)
      BY DEF Apart
    <2>1. OneAt(db, now, overlapped)
      BY DEF AllApart
    <2> QED
      BY <1>1, <1>3, <1>5, <1>6, <2>1 DEF Apart, Careful, OneAt
  <1>8. \A u \in Threads : Apart(pending'[u], now, overlapped)
    BY <1>4, <1>7 DEF AllApart
  <1> QED
    BY <1>1, <1>8 DEF AllApart

LEMMA CommitApart ==
  ASSUME IInv, AllApart, NEW t \in Threads, Commit(t)
  PROVE  AllApart'
  <1>1. /\ pending[t].stage = "commit" /\ now' = now
        /\ \A u \in Threads : pending'[u] = pending[u] \/ pending'[u].stage = "idle"
    BY DEF Commit, IInv, Idle
  <1>2. PICK old, new : old = pending[t].old /\ new = pending[t].new
    OBVIOUS
  <1>3. /\ db \in Database /\ old \in Database /\ Kept(old, db) /\ Sound(old, new)
        /\ now \in Nat /\ \A u \in Threads : PendingOK(pending[u])
    BY <1>1, <1>2, TypeParts, BoundsAssumption DEF IInv, PendingOK, Sane
  <1>4. CASE Collides(old, new)
    <2>1. db' = db /\ overlapped' = overlapped
      BY <1>2, <1>4 DEF Commit
    <2> QED
      BY <1>1, <1>3, <2>1, QuietApart
  <1>5. CASE ~Collides(old, new)
    <2>1. PICK e : e = Merged(old, new)
      OBVIOUS
    <2>2. /\ db' = e
          /\ overlapped' = overlapped \cup
               {s \in ForceAt(e, now) \ ForceAt(db, now) : db.sessions # old.sessions}
      BY <1>2, <1>5, <2>1, ForceNow DEF Commit
    <2>3. OneAt(db, now, overlapped) /\ Apart(pending[t], now, overlapped)
      BY DEF AllApart
    <2>4. CASE db.sessions # old.sessions
      <3>1. OneAt(e, now, overlapped')
        BY <2>2, <2>3, <2>4 DEF OneAt
      <3>2. \A u \in Threads : Apart(pending'[u], now, overlapped')
        <4>1. overlapped \subseteq overlapped'
          BY <2>2
        <4> SUFFICES ASSUME NEW u \in Threads PROVE Apart(pending'[u], now, overlapped')
          OBVIOUS
        <4>2. CASE pending'[u] = pending[u]
          BY <1>3, <4>1, <4>2, StillApart DEF AllApart
        <4>3. CASE pending'[u].stage = "idle"
          BY <4>3 DEF Apart
        <4> QED
          BY <1>1, <4>2, <4>3
      <3> QED
        BY <1>1, <2>2, <3>1, <3>2 DEF AllApart
    <2>5. CASE db.sessions = old.sessions
      <3>1. overlapped' = overlapped
        BY <2>2, <2>5
      <3>2. PICK from, to, is : from = old.sessions /\ to = new.sessions /\ is = e.sessions
        OBVIOUS
      <3>3. /\ from \in Seq(Session) /\ to \in Seq(Session)
            /\ Len(from) <= Len(to) /\ Len(to) <= Len(from) + 1
        BY <1>3, <3>2 DEF Sound, Database, Kept, Fresh
      <3>4. HasRows(is, from, from, to)
        <4>1. is = WrittenTable(from, from, to)
          BY <2>1, <2>5, <3>2 DEF Merged
        <4>2. Len(from) <= Len(from)
          BY <3>3
        <4> QED
          BY <3>3, <4>1, <4>2, WrittenTableRows
      <3>5. PICK o \in Nat, k \in Nat : o = Len(from) /\ k = Len(to) /\ o <= k /\ k <= o + 1
        BY <3>3
      <3>6. is \in Seq(Session) /\ Len(is) = k
            /\ \A s \in 1 .. o : is[s] = WrittenRow(from[s], from[s], to[s])
        BY <3>4, <3>5 DEF HasRows
      <3>7. \A s \in 1 .. o : is[s] = to[s]
        <4>1. \A s \in 1 .. o : from[s] \in Session /\ to[s] \in Session
          BY <3>3, <3>5
        <4> QED
          BY <3>6, <4>1, WrittenRowSame
      <3>8. DOMAIN from = 1 .. o /\ DOMAIN is = 1 .. k
        BY <3>3, <3>5, <3>6
      <3>9. ForceAt(old, now) = ForceAt(db, now)
        BY <2>5 DEF ForceAt
      <3>10. /\ \A s \in 1 .. o : Active(is[s]) => Active(from[s])
             /\ \A s \in 1 .. o : is[s].expires # from[s].expires =>
                  \A u \in ForceAt(db, now) : u # s => s \in overlapped \/ u \in overlapped
             /\ \A s, u \in 1 .. o :
                  is[s].expires # from[s].expires /\ is[u].expires # from[u].expires => s = u
             /\ k > o => /\ ForceAt(db, now) = {}
                         /\ \A s \in 1 .. o : is[s].expires = from[s].expires
        <4>1. /\ \A s \in 1 .. o : Active(to[s]) => Active(from[s])
              /\ \A s \in 1 .. o : to[s].expires # from[s].expires =>
                  \A u \in ForceAt(db, now) : u # s => s \in overlapped \/ u \in overlapped
              /\ \A s, u \in 1 .. o :
                  to[s].expires # from[s].expires /\ to[u].expires # from[u].expires => s = u
              /\ k > o => /\ ForceAt(db, now) = {}
                          /\ \A s \in 1 .. o : to[s].expires = from[s].expires
          BY <1>1, <1>2, <2>3, <3>2, <3>5, <3>8, <3>9 DEF Apart
        <4> QED
          BY <3>7, <4>1
      <3>11. \A s \in 1 .. o : s \in ForceAt(e, now) =>
               s \in ForceAt(db, now) \/ is[s].expires # from[s].expires
        BY <2>5, <3>2, <3>8, <3>10 DEF ForceAt
      <3>12. \A s \in ForceAt(e, now) : s \in 1 .. k
        BY <3>2, <3>8 DEF ForceAt
      <3>13. ASSUME NEW s \in ForceAt(e, now), NEW u \in ForceAt(e, now), s # u
             PROVE  s \in overlapped \/ u \in overlapped
        <4>1. CASE s \in 1 .. o /\ u \in 1 .. o
          BY <2>3, <3>10, <3>11, <3>13, <4>1 DEF OneAt
        <4>2. CASE ~(s \in 1 .. o /\ u \in 1 .. o)
          <5>1. k = o + 1 /\ (s = k \/ u = k)
            BY <3>5, <3>12, <4>2
          <5>2. ForceAt(db, now) = {}
            BY <3>10, <5>1
          <5>3. \A v \in 1 .. o : is[v].expires = from[v].expires
            BY <3>10, <5>1
          <5>4. s \notin 1 .. o /\ u \notin 1 .. o
            BY <3>11, <5>2, <5>3
          <5>5. s = k /\ u = k
            <6>1. s \in 1 .. k /\ u \in 1 .. k
              BY <3>12
            <6> QED
              BY <3>5, <5>1, <5>4, <6>1
          <5> QED
            BY <3>13, <5>5
        <4> QED
          BY <4>1, <4>2
      <3>14. OneAt(e, now, overlapped)
        BY <3>13 DEF OneAt
      <3>15. \A u \in Threads : Apart(pending'[u], now, overlapped)
        <4> SUFFICES ASSUME NEW u \in Threads PROVE Apart(pending'[u], now, overlapped)
          OBVIOUS
        <4>1. CASE pending'[u] = pending[u]
          BY <4>1 DEF AllApart
        <4>2. CASE pending'[u].stage = "idle"
          BY <4>2 DEF Apart
        <4> QED
          BY <1>1, <4>1, <4>2
      <3> QED
        BY <1>1, <2>2, <3>1, <3>14, <3>15 DEF AllApart
    <2> QED
      BY <2>4, <2>5
  <1> QED
    BY <1>4, <1>5

LEMMA StepApart == IInv /\ AllApart /\ [Next]_vars => AllApart'
  <1> SUFFICES ASSUME IInv, AllApart, [Next]_vars PROVE AllApart'
    OBVIOUS
  <1>1. DOMAIN pending = Threads /\ now \in Nat /\ db \in Database
    BY TypeParts, BoundsAssumption DEF IInv
  <1>2. ASSUME NEW t \in Requests, Request(t)
        PROVE  AllApart'
    <2>1. t \in Threads
      BY DEF Threads
    <2>2. CASE \E e, next : Begins(t, e, next)
      BY <2>1, <2>2, BeginApart
    <2>3. CASE \E then : ReportIn(t, then)
      <3>1. PICK then : ReportIn(t, then)
        BY <2>3
      <3>2. /\ db' = [db EXCEPT !.scanner = [status |-> "online", seen |-> now]]
            /\ pending' = [pending EXCEPT ![t] = Idle(then)]
            /\ now' = now /\ overlapped' = overlapped
        BY <3>1 DEF ReportIn
      <3>3. db'.sessions = db.sessions
        BY <1>1, <3>2 DEF Database
      <3>4. \A u \in Threads : pending'[u] = pending[u] \/ pending'[u].stage = "idle"
        BY <1>1, <3>2 DEF Idle
      <3> QED
        BY <1>1, <3>2, <3>3, <3>4, QuietApart
    <2> QED
      BY <1>2, <2>2, <2>3, RequestBegins
  <1>3. ASSUME NEW t \in Threads, Commit(t)
        PROVE  AllApart'
    BY <1>3, CommitApart
  <1>4. CASE SweepScanners \/ SweepSessions
    BY <1>4, SweepBegins, BeginApart DEF Threads
  <1>5. ASSUME NEW t \in Threads, Fail(t)
        PROVE  AllApart'
    BY <1>1, <1>5, QuietApart DEF Fail, Idle
  <1>6. ASSUME NEW device \in Devices, NewIdentity(device)
        PROVE  AllApart'
    BY <1>1, <1>6, QuietApart DEF NewIdentity
  <1>7. CASE Tick
    <2>1. now' \in Nat /\ now <= now'
      BY <1>1, <1>7 DEF Tick
    <2> QED
      BY <1>7, <2>1, QuietApart DEF Tick
  <1>8. CASE UNCHANGED vars
    BY <1>1, <1>8, QuietApart DEF vars
  <1> QED
    BY <1>2, <1>3, <1>4, <1>5, <1>6, <1>7, <1>8 DEF Next, Maintain, Threads

-----------------------------------------------------------------------------
(* The theorems.                                                           *)

\* A thread takes up no more rows than the bound lets it, and whatever commits
\* overlap, every column keeps a value that the code gives it (the handlers of
\* tracking.py).
THEOREM TypeCorrect == Spec => []TypeOK
  <1>1. IInv => TypeOK
    BY DEF IInv
  <1> QED
    BY <1>1, Invariance, PTL

\* _finish_session and ingest_tracking_samples, whatever requests overlap, fail
\* or collide: a session that is over says when it ended and has its event, and
\* a live one has a sample.
THEOREM EverySessionAccounted == Spec => []Accounted
  <1>1. IInv => Accounted
    BY DEF IInv, Good, Accounted, SessionIds
  <1> QED
    BY <1>1, Invariance, PTL

\* _finish_session, for a session that no commit wrote over unread: it is active
\* until its end and never after, both of its rows agree on the end, the lease
\* of an expired one was over, and the summary has every sample.
THEOREM SerialRight == Spec => []SerialSessionsRight
  <1>1. Truthful => SerialSessionsRight
    <2> SUFFICES ASSUME Truthful, NEW s \in SessionIds \ raced
                 PROVE  LET row == db.sessions[s]
                        IN  /\ Active(row) <=> row.ended = None
                            /\ ~Active(row) => /\ row.assignment = row.state
                                               /\ row.summary = Summary(db, s)
                            /\ row.state = "expired" => row.expires < row.ended.time
      BY DEF SerialSessionsRight
    <2>1. Right(db, s)
      BY DEF Truthful, SessionIds
    <2>2. db.sessions[s].state = "expired" => ~Active(db.sessions[s])
      BY DEF Active, ActiveStates
    <2> QED
      BY <2>1, <2>2 DEF Right, EndsWell
  <1> QED
    BY <1>1, Truth, PTL

\* start_tracking_session keeps one session at a time, however many requests
\* overlap: of two that are in force together, one was brought into force by a
\* request whose sessions another commit had changed since it read them.
THEOREM OneSessionAtATime == Spec => []OneAtATime
  <1>1. Init => AllApart
    BY DEF Init, AllApart, OneAt, ForceAt, Apart, Idle
  <1>2. AllApart => OneAtATime
    BY ForceNow DEF AllApart, OneAt, OneAtATime
  <1> QED
    BY <1>1, <1>2, StepApart, Invariance, PTL DEF Spec
=============================================================================
