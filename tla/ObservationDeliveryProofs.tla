---------------------- MODULE ObservationDeliveryProofs ----------------------
(***************************************************************************)
(* Safety of ObservationDelivery for every queue size, frame size, number  *)
(* of backend threads and number of observations and resets.               *)
(*                                                                         *)
(* TypeOK and BatchInv are inductive whatever the answers do, and give     *)
(* OneBatchPerObservation and StoredAtMostOnce.  RetainedUntilSettled also *)
(* needs AnswerInv, which is inductive only when no answer outlives its    *)
(* request.  On it rests the refinement of BoundedDelivery.                *)
(***************************************************************************)
EXTENDS ObservationDelivery, SequenceTheorems, FiniteSetTheorems, TLAPS

CurrentBatch == [id |-> batchId, first |-> released + 1, last |-> released + batchSize]

\* A transmitted frame is the batch under retry, or lies behind the cursor.
SentInv ==
  \A f \in sent :
    /\ f.id \in 1 .. batchSequence
    /\ f.first >= 1 /\ f.first <= f.last /\ f.last <= taken
    /\ f.id = batchId => f = CurrentBatch
    /\ f.id # batchId => f.last <= released

\* Whatever travels, or is being processed, was transmitted as it is.
InFlightInv ==
  /\ frames \in Seq(sent \union {NoObservations})
  /\ request \in sent \union {NoObservations, NoRequest}
  /\ request.id > 0 => request = CurrentBatch
  /\ \A w \in Worker :
       /\ workers[w].phase # "idle" => workers[w].frame \in sent
       /\ workers[w].phase = "checked" => workers[w].fresh \subseteq Positions(workers[w].frame)

\* A row belongs to a transmitted frame, and the uniqueness constraint holds.
RowInv ==
  /\ \A r \in rows : \E f \in sent : r.batch = f.id /\ r.position \in Positions(f)
  /\ \A r, s \in rows : r.batch = s.batch /\ r.position = s.position => r = s

\* A batch that was given an identifier fits: its retries never overflow.
BatchInv ==
  /\ CursorsOK
  /\ batchId <= batchSequence
  /\ batchId # 0 => Fits(released + 1, released + batchSize)
  /\ SentInv
  /\ OneBatchPerObservation
  /\ InFlightInv
  /\ RowInv

-----------------------------------------------------------------------------
\* All observations of the frame have reached the backend's books.
FrameSettled(f) == Positions(f) \subseteq Settled

\* The request in progress is in one place at most: on the line, with the bridge
\* that waits for the backend, on the way back, or answered.
LineInv ==
  /\ frames \in {<<>>, <<request>>}
  /\ acks \in {<<>>, <<"ok">>, <<"failed">>}
  /\ frames # <<>> =>
       acks = <<>> /\ response = "none" /\ bridge # "forwarding" /\ request # NoRequest
  /\ acks # <<>> => response = "none" /\ bridge # "forwarding" /\ request # NoRequest
  /\ response # "none" => bridge # "forwarding" /\ request # NoRequest
  /\ bridge = "forwarding" => request # NoRequest

\* A positive answer means that the observations of the request are settled.
AckInv ==
  (acks = <<"ok">> \/ response = "ok") /\ request.id > 0 => FrameSettled(request)

\* The bridge waits for one thread at most, which has the request's frame.
AwaitInv ==
  /\ \A w \in Worker :
       workers[w].awaited =>
         /\ workers[w].phase # "idle"
         /\ bridge = "forwarding"
         /\ workers[w].frame = request
  /\ \A v, w \in Worker : workers[v].awaited /\ workers[w].awaited => v = w

\* A thread has missed no observation of its frame.
CheckedInv ==
  \A w \in Worker :
    workers[w].phase = "checked" =>
      Positions(workers[w].frame) \subseteq Stored \union workers[w].fresh

AnswerInv == LineInv /\ AckInv /\ AwaitInv /\ CheckedInv /\ RetainedUntilSettled

-----------------------------------------------------------------------------
(* Type correctness                                                          *)

\* The arithmetic of uploadBatch stays in the naturals.
LEMMA BatchTypes ==
  ASSUME TypeOK, DeliveryAssumption, NEW refill \in 1 .. FrameCapacity,
         NEW capacity \in 1 .. FrameCapacity,
         CursorsOK, batchId <= batchSequence, TakenAfterRefill(refill) > released
  PROVE  /\ TakenAfterRefill(refill) \in Nat
         /\ taken <= TakenAfterRefill(refill)
         /\ TakenAfterRefill(refill) <= admitted
         /\ TakenAfterRefill(refill) - released <= FrameCapacity
         /\ NextBatch(refill, capacity) \in Frame
         /\ NextBatch(refill, capacity).first = released + 1
         /\ NextBatch(refill, capacity).last \in released + 1 .. TakenAfterRefill(refill)
         /\ batchId # 0 => NextBatch(refill, capacity) = CurrentBatch
         /\ batchId # 0 => TakenAfterRefill(refill) = taken
         /\ batchId = 0 => NextBatch(refill, capacity).id = batchSequence + 1
  BY DEF TypeOK, DeliveryAssumption, CursorsOK, TakenAfterRefill, NextBatch, Smaller,
         Frame, CurrentBatch

LEMMA NoObservationsIsFrame == NoObservations \in Frame
  BY DEF NoObservations, Frame

LEMMA IdleWorkerType == IdleWorker \in WorkerState
  BY DEF IdleWorker, WorkerState

LEMMA UnawaitedType ==
  ASSUME TypeOK
  PROVE  /\ Unawaited \in [Worker -> WorkerState]
         /\ \A w \in Worker : /\ Unawaited[w].phase = workers[w].phase
                             /\ Unawaited[w].frame = workers[w].frame
                             /\ Unawaited[w].fresh = workers[w].fresh
                             /\ ~Unawaited[w].awaited
<1>1. ASSUME NEW w \in Worker
      PROVE  /\ [workers[w] EXCEPT !.awaited = FALSE] \in WorkerState
             /\ Unawaited[w] = [workers[w] EXCEPT !.awaited = FALSE]
  <2>1. workers[w] \in WorkerState
    BY DEF TypeOK
  <2> QED
    BY <2>1 DEF WorkerState, Unawaited
<1>2. Unawaited \in [Worker -> WorkerState]
  BY <1>1 DEF Unawaited
<1>3. ASSUME NEW w \in Worker
      PROVE  /\ Unawaited[w].phase = workers[w].phase
             /\ Unawaited[w].frame = workers[w].frame
             /\ Unawaited[w].fresh = workers[w].fresh
             /\ ~Unawaited[w].awaited
  <2>1. workers[w] \in WorkerState
    BY DEF TypeOK
  <2> QED
    BY <1>1, <2>1 DEF WorkerState
<1> QED
  BY <1>2, <1>3

\* A thread that works has a frame of natural positions.
LEMMA WorkerTypes ==
  ASSUME TypeOK, NEW w \in Worker, workers[w].phase # "idle"
  PROVE  /\ workers[w] \in [phase : {"received", "checked"}, frame : Frame,
                            fresh : SUBSET Nat, awaited : BOOLEAN]
         /\ workers[w].frame \in Frame
         /\ workers[w].fresh \in SUBSET Nat
         /\ Positions(workers[w].frame) \in SUBSET Nat
<1>1. workers[w] \in [phase : {"received", "checked"}, frame : Frame,
                      fresh : SUBSET Nat, awaited : BOOLEAN]
  BY DEF TypeOK, WorkerState
<1> QED
  BY <1>1 DEF Positions, Frame

LEMMA AnswerTypes ==
  ASSUME TypeOK, NEW w \in Worker, NEW status \in Status, Answer(w, status)
  PROVE  /\ workers' \in [Worker -> WorkerState]
         /\ bridge' \in {"down", "reading", "forwarding"}
         /\ acks' \in Seq(Status)
<1>1. workers' \in [Worker -> WorkerState]
  BY IdleWorkerType DEF TypeOK, Answer
<1>2. bridge' \in {"down", "reading", "forwarding"}
  BY DEF TypeOK, Answer
<1>3. acks' \in Seq(Status)
  <2>1. acks \in Seq(Status) /\ Append(acks, status) \in Seq(Status)
    BY DEF TypeOK
  <2> QED
    BY <2>1 DEF Answer
<1> QED
  BY <1>1, <1>2, <1>3

LEMMA TypeInit == DeliveryAssumption /\ Init => TypeOK
  BY IdleWorkerType DEF DeliveryAssumption, Init, TypeOK, Status

\* TypeOK needs the cursors' order: the batch's last position is a difference.
LEMMA TypeStep ==
  ASSUME DeliveryAssumption, TypeOK, CursorsOK, batchId <= batchSequence, [Next]_vars
  PROVE  TypeOK'
<1> USE DEF TypeOK
<1>1. CASE PushObservation
  BY <1>1 DEF PushObservation, hostVars, historyVars
<1>2. CASE SendBatch
  <2>1. PICK refill, capacity \in 1 .. FrameCapacity :
          /\ BuildBatch(refill)
          /\ Transmit(NextBatch(refill, capacity))
          /\ batchId' = NextBatch(refill, capacity).id
          /\ batchSize' = NextBatch(refill, capacity).last - released
          /\ sent' = sent \union {NextBatch(refill, capacity)}
    BY <1>2 DEF SendBatch
  <2>2. /\ NextBatch(refill, capacity) \in Frame
        /\ TakenAfterRefill(refill) \in Nat
        /\ NextBatch(refill, capacity).last \in released + 1 .. TakenAfterRefill(refill)
    BY <2>1, BatchTypes DEF BuildBatch
  <2>3. batchId' \in Nat /\ batchSize' \in Nat /\ sent' \in SUBSET Frame
    BY <2>1, <2>2 DEF Frame
  <2>4. request' \in Frame \union {NoRequest} /\ frames' \in Seq(Frame)
    BY <2>1, <2>2 DEF Transmit
  <2> QED
    BY <1>2, <2>1, <2>2, <2>3, <2>4, SMTT(30) DEF SendBatch, BuildBatch, Transmit, hostVars
<1>3. CASE OverflowBatch
  <2>1. PICK refill, capacity \in 1 .. FrameCapacity :
          /\ BuildBatch(refill)
          /\ batchId' = 0
          /\ \/ /\ NextBatch(refill, capacity).last - released > 1
                /\ batchSize' = (NextBatch(refill, capacity).last - released) \div 2
                /\ UNCHANGED <<released, droppedObservations, oversized>>
             \/ /\ batchSize' = 0
                /\ released' = released + 1
                /\ droppedObservations' = Smaller(droppedObservations + 1, MaxDropped)
                /\ oversized' = oversized \union {released + 1}
    BY <1>3 DEF OverflowBatch
  <2>2. /\ NextBatch(refill, capacity) \in Frame
        /\ TakenAfterRefill(refill) \in Nat
        /\ NextBatch(refill, capacity).last \in released + 1 .. TakenAfterRefill(refill)
    BY <2>1, BatchTypes DEF BuildBatch
  <2>3. NextBatch(refill, capacity).last - released \in Nat
    BY <2>2
  <2>4. Smaller(droppedObservations + 1, MaxDropped) \in Nat
    BY DEF Smaller, DeliveryAssumption
  <2>5. batchSize' \in Nat
    <3>1. \A n \in Nat : n \div 2 \in Nat
      OBVIOUS
    <3> QED
      BY <2>1, <2>3, <3>1
  <2>7. released' \in Nat /\ oversized' \in SUBSET Nat /\ droppedObservations' \in Nat
    <3>1. \/ UNCHANGED <<released, droppedObservations, oversized>>
          \/ /\ released' = released + 1
             /\ droppedObservations' = Smaller(droppedObservations + 1, MaxDropped)
             /\ oversized' = oversized \union {released + 1}
      BY <2>1
    <3>2. CASE UNCHANGED <<released, droppedObservations, oversized>>
      BY <3>2
    <3>3. CASE ~UNCHANGED <<released, droppedObservations, oversized>>
      <4>1. released' = released + 1 /\ oversized' = oversized \union {released + 1}
        BY <3>1, <3>3
      <4>2. droppedObservations' = Smaller(droppedObservations + 1, MaxDropped)
        BY <3>1, <3>3
      <4> QED
        BY <2>4, <4>1, <4>2
    <3> QED
      BY <3>2, <3>3
  <2>6. taken' \in Nat /\ batchSequence' \in Nat
    BY <2>1, <2>2 DEF BuildBatch
  <2> QED
    BY <1>3, <2>1, <2>5, <2>6, <2>7 DEF OverflowBatch, BuildBatch, hostVars
<1>4. CASE SendOther
  BY <1>4, NoObservationsIsFrame DEF SendOther, Transmit, firmwareVars, hostVars, historyVars
<1>5. CASE PollAck
  BY <1>5 DEF PollAck, Status, firmwareVars, hostVars, historyVars
<1>6. CASE FinishRequest
  BY <1>6 DEF FinishRequest, hostVars, historyVars
<1>7. CASE ResponseTimeout
  BY <1>7 DEF ResponseTimeout, firmwareVars, hostVars, historyVars
<1>8. CASE Reboot
  <2>1. workers' \in [Worker -> WorkerState]
    BY <1>8, UnawaitedType DEF Reboot
  <2>2. lost' \in SUBSET Nat
    BY <1>8 DEF Reboot
  <2> QED
    <3>1. frames' \in Seq(Frame) /\ bridge' \in {"down", "reading", "forwarding"}
      <4>1. CASE StaleAcks
        BY <1>8, <4>1 DEF Reboot
      <4>2. CASE ~StaleAcks
        BY <1>8, <4>2 DEF Reboot
      <4> QED
        BY <4>1, <4>2
    <3>2. acks' \in Seq(Status) /\ oversized' \in SUBSET Nat
      BY <1>8 DEF Reboot
    <3> QED
      BY <1>8, <2>1, <2>2, <3>1, <3>2 DEF Reboot
<1>9. CASE LoseFrame
  BY <1>9 DEF LoseFrame, firmwareVars, hostVars, historyVars
<1>10. CASE LoseAck
  BY <1>10 DEF LoseAck, firmwareVars, hostVars, historyVars
<1>11. CASE BridgeConnect
  BY <1>11 DEF BridgeConnect, firmwareVars, historyVars
<1>12. CASE BridgeAnswer
  BY <1>12 DEF BridgeAnswer, firmwareVars, hostVars, historyVars
<1>13. CASE BridgeForward
  <2>1. Head(frames) \in Frame /\ Tail(frames) \in Seq(Frame)
    BY <1>13 DEF BridgeForward
  <2>2. [phase |-> "received", frame |-> Head(frames), fresh |-> {}, awaited |-> TRUE]
          \in WorkerState
    BY <2>1 DEF WorkerState
  <2>3. workers' \in [Worker -> WorkerState]
    BY <1>13, <2>2 DEF BridgeForward
  <2> QED
    BY <1>13, <2>1, <2>3 DEF BridgeForward, firmwareVars, historyVars
<1>14. CASE BridgeGiveUp
  BY <1>14, UnawaitedType DEF BridgeGiveUp, Status, firmwareVars, historyVars
<1>15. CASE BridgeCrash
  BY <1>15, UnawaitedType DEF BridgeCrash, firmwareVars, historyVars
<1>16. ASSUME NEW w \in Worker, CheckDuplicates(w) PROVE TypeOK'
  <2>1. workers[w].phase # "idle"
    BY <1>16 DEF CheckDuplicates
  <2>2. [workers[w] EXCEPT !.phase = "checked",
                           !.fresh = Positions(workers[w].frame) \ Stored] \in WorkerState
    <3>1. Positions(workers[w].frame) \ Stored \in SUBSET Nat
      <4>1. Positions(workers[w].frame) \in SUBSET Nat
        BY <2>1, WorkerTypes
      <4> QED
        BY <4>1, Zenon
    <3>2. workers[w] \in [phase : {"received", "checked"}, frame : Frame,
                          fresh : SUBSET Nat, awaited : BOOLEAN]
      BY <2>1, WorkerTypes
    <3> QED
      BY <3>1, <3>2 DEF WorkerState
  <2>3. workers' \in [Worker -> WorkerState]
    BY <1>16, <2>2 DEF CheckDuplicates
  <2> QED
    BY <1>16, <2>3 DEF CheckDuplicates, firmwareVars, historyVars
<1>17. ASSUME NEW w \in Worker, CommitBatch(w) PROVE TypeOK'
  <2>1. workers[w].frame \in Frame /\ workers[w].fresh \in SUBSET Nat
    BY <1>17, WorkerTypes DEF CommitBatch
  <2>2. rows' \in SUBSET Row /\ refused' \in SUBSET Nat
    <3>1. workers[w].frame.id \in Nat
      BY <2>1 DEF Frame
    <3>2. PICK left \in SUBSET workers[w].fresh :
            /\ rows' = rows \union {[batch |-> workers[w].frame.id, position |-> p, before |-> Stored] :
                                     p \in workers[w].fresh \ left}
            /\ refused' = refused \union left
      BY <1>17 DEF CommitBatch
    <3>5. Stored \in SUBSET Nat
      BY DEF Stored, Row
    <3>3. \A p \in workers[w].fresh \ left :
            [batch |-> workers[w].frame.id, position |-> p, before |-> Stored] \in Row
      BY <2>1, <3>1, <3>5 DEF Row
    <3>4. {[batch |-> workers[w].frame.id, position |-> p, before |-> Stored] :
            p \in workers[w].fresh \ left} \subseteq Row
      BY <3>3
    <3> QED
      BY <2>1, <3>2, <3>4
  <2> QED
    BY <1>17, <2>2, AnswerTypes DEF CommitBatch, firmwareVars, historyVars, Status
<1>18. ASSUME NEW w \in Worker, FailBatch(w) PROVE TypeOK'
  BY <1>18, AnswerTypes DEF FailBatch, firmwareVars, historyVars, Status
<1>19. CASE UNCHANGED vars
  BY <1>19 DEF vars, firmwareVars, hostVars, historyVars
<1> QED
  BY <1>1, <1>2, <1>3, <1>4, <1>5, <1>6, <1>7, <1>8, <1>9, <1>10, <1>11, <1>12, <1>13,
     <1>14, <1>15, <1>16, <1>17, <1>18, <1>19 DEF Next

-----------------------------------------------------------------------------
(* Batches keep their identity                                               *)

LEMMA SeqOfLarger ==
  ASSUME NEW A, NEW B, A \subseteq B, NEW s \in Seq(A)
  PROVE  s \in Seq(B)
  OBVIOUS

LEMMA BatchInit == DeliveryAssumption /\ Init => BatchInv
<1> SUFFICES ASSUME DeliveryAssumption, Init PROVE BatchInv
  OBVIOUS
<1>1. CursorsOK /\ batchId <= batchSequence /\ batchId = 0
  BY DEF DeliveryAssumption, Init, CursorsOK
<1>2. SentInv /\ OneBatchPerObservation /\ RowInv
  BY DEF Init, SentInv, OneBatchPerObservation, RowInv
<1>3. InFlightInv
  BY DEF Init, InFlightInv, NoRequest, IdleWorker
<1> QED
  BY <1>1, <1>2, <1>3 DEF BatchInv

\* What a step that builds no batch, releases none and resets nothing keeps.
LEMMA BatchKept ==
  ASSUME BatchInv,
         UNCHANGED <<taken, released, batchId, batchSize, batchSequence, sent>>,
         admitted' = admitted \/ (admitted' = admitted + 1 /\ admitted - taken < QueueSize),
         TypeOK, DeliveryAssumption,
         InFlightInv', RowInv'
  PROVE  BatchInv'
<1>1. CursorsOK'
  BY DEF BatchInv, CursorsOK, TypeOK, DeliveryAssumption
<1>2. SentInv' /\ OneBatchPerObservation'
  BY DEF BatchInv, SentInv, CurrentBatch, OneBatchPerObservation
<1> QED
  BY <1>1, <1>2 DEF BatchInv

LEMMA RowsKept ==
  ASSUME BatchInv, sent \subseteq sent', rows' = rows PROVE RowInv'
  BY DEF BatchInv, RowInv

\* Threads that go on with the frames they had.
WorkersGoOn ==
  \A w \in Worker :
    workers'[w].phase # "idle" =>
      /\ workers[w].phase = workers'[w].phase
      /\ workers[w].frame = workers'[w].frame
      /\ workers[w].fresh = workers'[w].fresh

LEMMA InFlightKept ==
  ASSUME TypeOK, BatchInv,
         UNCHANGED <<released, batchId, batchSize, sent>>,
         frames' \in Seq(sent \union {NoObservations}),
         request' = request \/ request' = NoRequest \/ request' = NoObservations,
         WorkersGoOn
  PROVE  InFlightInv'
<1>1. request' \in sent' \union {NoObservations, NoRequest}
  BY DEF BatchInv, InFlightInv
<1>2. (request.id > 0 => request = CurrentBatch)'
  BY DEF BatchInv, InFlightInv, CurrentBatch, NoRequest, NoObservations
<1>3. ASSUME NEW w \in Worker
      PROVE  /\ workers'[w].phase # "idle" => workers'[w].frame \in sent
             /\ workers'[w].phase = "checked" =>
                  workers'[w].fresh \subseteq Positions(workers'[w].frame)
  BY DEF BatchInv, InFlightInv, WorkersGoOn
<1> QED
  BY <1>1, <1>2, <1>3 DEF InFlightInv

\* Sending: the frame is the batch under retry or a new interval behind every
\* frame sent before.
LEMMA SendBatchKeeps ==
  ASSUME DeliveryAssumption, TypeOK, TypeOK', BatchInv, SendBatch
  PROVE  BatchInv'
<1>0. /\ admitted \in Nat /\ taken \in Nat /\ released \in Nat
      /\ batchId \in Nat /\ batchSize \in Nat /\ batchSequence \in Nat
      /\ taken' \in Nat /\ released' \in Nat /\ batchSize' \in Nat /\ batchSequence' \in Nat
      /\ admitted' \in Nat
  BY DEF TypeOK
<1>1. PICK refill, capacity \in 1 .. FrameCapacity :
        /\ BuildBatch(refill)
        /\ Fits(NextBatch(refill, capacity).first, NextBatch(refill, capacity).last)
        /\ Transmit(NextBatch(refill, capacity))
        /\ batchId' = NextBatch(refill, capacity).id
        /\ batchSize' = NextBatch(refill, capacity).last - released
        /\ sent' = sent \union {NextBatch(refill, capacity)}
  BY DEF SendBatch
<1> DEFINE b == NextBatch(refill, capacity)
<1>2. /\ b \in Frame
      /\ b.first = released + 1
      /\ b.last \in Nat /\ released + 1 <= b.last /\ b.last <= taken'
      /\ batchId # 0 => b = CurrentBatch /\ taken' = taken
      /\ batchId = 0 => b.id = batchSequence + 1
      /\ taken <= taken' /\ taken' <= admitted /\ taken' - released <= FrameCapacity
  <2>1. /\ b \in Frame /\ b.first = released + 1
        /\ b.last \in released + 1 .. TakenAfterRefill(refill)
        /\ TakenAfterRefill(refill) = taken'
    BY <1>1, BatchTypes DEF BuildBatch, BatchInv
  <2>2. b.last \in Nat /\ released + 1 <= b.last /\ b.last <= taken'
    BY <1>0, <2>1 DEF Frame
  <2>3. /\ batchId # 0 => b = CurrentBatch /\ taken' = taken
        /\ batchId = 0 => b.id = batchSequence + 1
        /\ taken <= taken' /\ taken' <= admitted /\ taken' - released <= FrameCapacity
    BY <1>1, BatchTypes DEF BuildBatch, BatchInv
  <2> QED
    BY <2>1, <2>2, <2>3
<1>3. /\ released' = released /\ admitted' = admitted
      /\ batchSequence' = IF batchId = 0 THEN batchSequence + 1 ELSE batchSequence
      /\ rows' = rows /\ workers' = workers
  BY <1>1 DEF SendBatch, BuildBatch, hostVars
<1> HIDE DEF b
<1>4. CurrentBatch' = b
  <2>1. b = [id |-> b.id, first |-> b.first, last |-> b.last]
    BY <1>2 DEF Frame
  <2>2. released + (b.last - released) = b.last
    BY <1>2, SMTT(30) DEF TypeOK
  <2> QED
    BY <1>1, <1>2, <1>3, <2>1, <2>2 DEF b, CurrentBatch
<1>5. b.id \in 1 .. batchSequence' /\ batchSequence <= batchSequence' /\ batchId' = b.id
  <2>1. batchId' = b.id
    BY <1>1 DEF b
  <2>2. \A n \in Nat : n <= batchSequence /\ n # 0 => n \in 1 .. batchSequence
    BY <1>0
  <2>3. batchSequence + 1 \in 1 .. batchSequence + 1 /\ batchSequence <= batchSequence + 1
    BY <1>0
  <2>4. CASE batchId = 0
    BY <1>2, <1>3, <2>1, <2>3, <2>4
  <2>5. CASE batchId # 0
    <3>1. b.id = batchId
      BY <1>2, <2>5 DEF CurrentBatch
    <3>2. batchId <= batchSequence
      BY DEF BatchInv
    <3> QED
      BY <1>0, <1>3, <2>1, <2>2, <2>5, <3>1, <3>2
  <2> QED
    BY <2>4, <2>5
<1>6. ASSUME NEW f \in sent
      PROVE  /\ f.id \in 1 .. batchSequence' /\ f.first >= 1 /\ f.first <= f.last
             /\ f.last <= taken'
             /\ f = b \/ (f.id # b.id /\ f.last <= released)
  <2>1. /\ f.id \in 1 .. batchSequence /\ f.first >= 1 /\ f.first <= f.last
        /\ f.last <= taken
        /\ f.id = batchId => f = CurrentBatch
        /\ f.id # batchId => f.last <= released
    BY DEF BatchInv, SentInv
  <2>2. f.id \in Nat /\ f.last \in Nat
    BY DEF TypeOK, Frame
  <2>3. f = b \/ (f.id # b.id /\ f.last <= released)
    <3>1. CASE batchId = 0
      BY <1>2, <2>1, <3>1, SMTT(30) DEF TypeOK
    <3>2. CASE batchId # 0
      BY <1>2, <2>1, <3>2 DEF CurrentBatch
    <3> QED
      BY <3>1, <3>2
  <2> QED
    BY <1>0, <1>2, <1>5, <2>1, <2>2, <2>3
<1>7. CursorsOK'
  <2>1. batchSize' = b.last - released /\ batchId' # 0
    BY <1>0, <1>1, <1>5 DEF b
  <2>2. admitted - taken <= QueueSize
    BY DEF BatchInv, CursorsOK
  <2>3. QueueSize \in Nat /\ FrameCapacity \in Nat
    BY DEF DeliveryAssumption
  <2>4. released' <= taken' /\ taken' <= admitted'
    BY <1>0, <1>2, <1>3
  <2>5. admitted' - taken' <= QueueSize
    <3>1. \A t \in Nat : taken <= t => admitted - t <= QueueSize
      BY <1>0, <2>2, <2>3
    <3> QED
      BY <1>0, <1>2, <1>3, <3>1
  <2>6. taken' - released' <= FrameCapacity
    BY <1>2, <1>3
  <2>7. batchSize' <= taken' - released' /\ batchSize' > 0
    BY <1>0, <1>2, <1>3, <2>1
  <2> QED
    BY <2>4, <2>5, <2>6, <2>7 DEF CursorsOK
<1>8. (batchId # 0 => Fits(released + 1, released + batchSize))'
  <2>1. released' + 1 = b.first /\ released' + batchSize' = b.last
    BY <1>4 DEF CurrentBatch
  <2> QED
    BY <1>1, <2>1 DEF b
<1>9. SentInv'
  <2>1. ASSUME NEW f \in sent'
        PROVE  /\ f.id \in 1 .. batchSequence'
               /\ f.first >= 1 /\ f.first <= f.last /\ f.last <= taken'
               /\ f.id = batchId' => f = CurrentBatch'
               /\ f.id # batchId' => f.last <= released'
    <3>1. CASE f = b
      BY <1>2, <1>4, <1>5, <3>1, SMTT(30) DEF TypeOK
    <3>2. CASE f \in sent
      BY <1>3, <1>4, <1>5, <1>6, <3>2
    <3> QED
      BY <1>1, <3>1, <3>2 DEF b
  <2> QED
    BY <2>1 DEF SentInv
<1>10. OneBatchPerObservation'
  <2>1. ASSUME NEW f \in sent', NEW g \in sent'
        PROVE  /\ f.id = g.id => f = g
               /\ f # g => Positions(f) \intersect Positions(g) = {}
    <3>1. CASE f \in sent /\ g \in sent
      BY <3>1 DEF BatchInv, OneBatchPerObservation
    <3>2. ASSUME NEW h \in sent, h # b
          PROVE h.id # b.id /\ Positions(h) \intersect Positions(b) = {}
      <4>1. h.id # b.id /\ h.last <= released
        BY <1>6, <3>2
      <4>2. h.last \in Nat /\ h.first \in Nat
        BY DEF TypeOK, Frame
      <4> QED
        BY <1>0, <1>2, <4>1, <4>2 DEF Positions
    <3>3. sent' = sent \union {b}
      BY <1>1 DEF b
    <3> QED
      BY <3>1, <3>2, <3>3
  <2> QED
    BY <2>1 DEF OneBatchPerObservation
<1>11. InFlightInv'
  <2>1. request' = b /\ b \in sent'
    BY <1>1 DEF Transmit, b
  <2>2. frames' \in Seq(sent' \union {NoObservations})
    <3>1. frames \in Seq(sent' \union {NoObservations})
      BY <1>1, SeqOfLarger DEF BatchInv, InFlightInv
    <3>2. Append(frames, b) \in Seq(sent' \union {NoObservations})
      BY <2>1, <3>1
    <3> QED
      BY <1>1, <3>1, <3>2 DEF Transmit, b
  <2>3. sent \subseteq sent'
    BY <1>1
  <2> QED
    BY <1>3, <1>4, <2>1, <2>2, <2>3 DEF BatchInv, InFlightInv
<1>12. RowInv'
  BY <1>1, <1>3, RowsKept
<1> QED
  BY <1>5, <1>7, <1>8, <1>9, <1>10, <1>11, <1>12 DEF BatchInv, TypeOK

\* An overflow changes the next batch only, and none that has an identifier
\* overflows.
LEMMA OverflowKeeps ==
  ASSUME DeliveryAssumption, TypeOK, TypeOK', BatchInv, OverflowBatch
  PROVE  BatchInv'
<1>0. /\ admitted \in Nat /\ taken \in Nat /\ released \in Nat
      /\ batchId \in Nat /\ batchSize \in Nat /\ batchSequence \in Nat
      /\ taken' \in Nat /\ released' \in Nat /\ batchSize' \in Nat /\ batchSequence' \in Nat
      /\ admitted' \in Nat
  BY DEF TypeOK
<1>1. PICK refill, capacity \in 1 .. FrameCapacity :
        /\ BuildBatch(refill)
        /\ ~Fits(NextBatch(refill, capacity).first, NextBatch(refill, capacity).last)
        /\ batchId' = 0
        /\ \/ /\ NextBatch(refill, capacity).last - released > 1
              /\ batchSize' = (NextBatch(refill, capacity).last - released) \div 2
              /\ released' = released
           \/ /\ NextBatch(refill, capacity).last - released = 1
              /\ batchSize' = 0
              /\ released' = released + 1
  BY DEF OverflowBatch
<1> DEFINE last == NextBatch(refill, capacity).last
<1>2. /\ last \in Nat /\ released + 1 <= last /\ last <= taken'
      /\ batchId # 0 => NextBatch(refill, capacity) = CurrentBatch
      /\ taken <= taken' /\ taken' <= admitted /\ taken' - released <= FrameCapacity
  <2>1. /\ last \in released + 1 .. TakenAfterRefill(refill)
        /\ TakenAfterRefill(refill) = taken'
    BY <1>1, BatchTypes DEF BuildBatch, BatchInv
  <2>2. last \in Nat /\ released + 1 <= last /\ last <= taken'
    BY <1>0, <2>1
  <2>3. /\ batchId # 0 => NextBatch(refill, capacity) = CurrentBatch
        /\ taken <= taken' /\ taken' <= admitted /\ taken' - released <= FrameCapacity
    BY <1>1, BatchTypes DEF BuildBatch, BatchInv
  <2> HIDE DEF last
  <2> QED
    BY <2>2, <2>3
<1>3. batchId = 0
  BY <1>1, <1>2 DEF BatchInv, CurrentBatch
<1>4. /\ batchSequence' = batchSequence + 1
      /\ UNCHANGED <<admitted, rows, workers, sent, request, frames>>
  BY <1>1, <1>3 DEF OverflowBatch, BuildBatch, hostVars
<1> HIDE DEF last
<1>5. CursorsOK'
  <2>1. released <= released' /\ released' <= taken' /\ batchSize' <= taken' - released'
    <3>1. CASE released' = released + 1
      <4>1. \A t \in Nat : released + 1 <= t => 0 <= t - (released + 1)
        BY <1>0
      <4>2. released + 1 <= taken' /\ batchSize' = 0
        <5>1. \A l, t \in Nat : released + 1 <= l /\ l <= t => released + 1 <= t
          BY <1>0
        <5>2. released + 1 # released
          BY <1>0
        <5> QED
          BY <1>0, <1>1, <1>2, <3>1, <5>1, <5>2
      <4>3. released <= released + 1
        BY <1>0
      <4> QED
        BY <1>0, <3>1, <4>1, <4>2, <4>3
    <3>2. CASE released' = released
      <4>1. batchSize' = (last - released) \div 2
        <5>1. released + 1 # released
          BY <1>0
        <5> QED
          BY <1>1, <3>2, <5>1 DEF last
      <4>2. \A l, t \in Nat : released + 1 <= l /\ l <= t =>
              released <= t /\ (l - released) \div 2 <= t - released
        BY <1>0
      <4>3. released <= released
        BY <1>0
      <4> QED
        BY <1>0, <1>2, <3>2, <4>1, <4>2, <4>3
    <3> QED
      BY <1>1, <3>1, <3>2
  <2> QED
    <3>1. admitted - taken <= QueueSize /\ taken - released <= FrameCapacity
      BY DEF BatchInv, CursorsOK
    <3>2. QueueSize \in Nat /\ FrameCapacity \in Nat
      BY DEF DeliveryAssumption
    <3>3. \A t \in Nat : taken <= t => admitted - t <= QueueSize
      BY <1>0, <3>1, <3>2
    <3>4. \A t, r \in Nat : r >= released /\ t - released <= FrameCapacity =>
            t - r <= FrameCapacity
      BY <1>0, <3>2
    <3>5. taken' - released' <= FrameCapacity
      BY <1>0, <1>2, <2>1, <3>4
    <3>6. admitted' - taken' <= QueueSize
      BY <1>0, <1>2, <1>4, <3>3
    <3>7. taken' <= admitted' /\ batchId' = 0
      BY <1>1, <1>2, <1>4
    <3> QED
      BY <2>1, <3>5, <3>6, <3>7 DEF CursorsOK
<1>6. SentInv'
  <2>1. released <= released'
    BY <1>1 DEF TypeOK
  <2>2. ASSUME NEW f \in sent
        PROVE  /\ f.id \in 1 .. batchSequence' /\ f.id # batchId'
               /\ f.first >= 1 /\ f.first <= f.last /\ f.last <= taken'
               /\ f.last <= released'
    <3>1. f.id \in 1 .. batchSequence /\ f.id # batchId /\ f.first >= 1
          /\ f.first <= f.last /\ f.last <= released /\ f.last <= taken
      BY <1>3 DEF BatchInv, SentInv
    <3>2. f.last \in Nat
      BY DEF TypeOK, Frame
    <3> QED
      BY <1>0, <1>1, <1>2, <1>4, <2>1, <3>1, <3>2
  <2> QED
    BY <1>4, <2>2 DEF SentInv
<1>7. InFlightInv'
  <2> QED
    <3>1. sent' = sent /\ workers' = workers /\ request' = request /\ frames' = frames
      BY <1>4
    <3>2. ~(request'.id > 0)
      BY <1>1, <3>1 DEF BuildBatch, NoRequest
    <3> QED
      BY <3>1, <3>2 DEF BatchInv, InFlightInv
<1>8. RowInv' /\ OneBatchPerObservation'
  BY <1>4, RowsKept DEF BatchInv, OneBatchPerObservation
<1> QED
  BY <1>1, <1>3, <1>4, <1>5, <1>6, <1>7, <1>8 DEF BatchInv, TypeOK

\* A reset moves both cursors to the head: every frame sent lies behind it.
LEMMA RebootKeeps ==
  ASSUME DeliveryAssumption, TypeOK, TypeOK', BatchInv, Reboot
  PROVE  BatchInv'
<1>1. /\ taken' = admitted /\ released' = admitted /\ admitted' = admitted
      /\ batchId' = 0 /\ batchSize' = 0 /\ request' = NoRequest
      /\ UNCHANGED <<batchSequence, rows, sent>>
  BY DEF Reboot
<1>2. admitted \in Nat /\ taken \in Nat /\ released \in Nat /\ batchSequence \in Nat
  BY DEF TypeOK
<1>3. CursorsOK'
  <2>1. QueueSize \in Nat /\ FrameCapacity \in Nat
    BY DEF DeliveryAssumption
  <2> QED
    BY <1>1, <1>2, <2>1 DEF CursorsOK
<1>4. SentInv'
  <2>1. released <= taken /\ taken <= admitted
    BY DEF BatchInv, CursorsOK
  <2>2. ASSUME NEW f \in sent
        PROVE  /\ f.id \in 1 .. batchSequence /\ f.id # 0
               /\ f.first >= 1 /\ f.first <= f.last /\ f.last <= admitted
    <3>1. /\ f.id \in 1 .. batchSequence /\ f.first >= 1 /\ f.first <= f.last
          /\ f.last <= taken
      BY DEF BatchInv, SentInv
    <3>2. f.id \in Nat /\ f.last \in Nat
      BY DEF TypeOK, Frame
    <3> QED
      BY <1>2, <2>1, <3>1, <3>2
  <2> QED
    BY <1>1, <2>2 DEF SentInv
<1>5. InFlightInv'
  <2>1. frames' \in Seq(sent' \union {NoObservations})
    <3>1. frames' = frames \/ frames' = <<>>
      BY DEF Reboot
    <3>2. frames \in Seq(sent \union {NoObservations})
      BY DEF BatchInv, InFlightInv
    <3>3. <<>> \in Seq(sent \union {NoObservations})
      OBVIOUS
    <3>4. frames' \in Seq(sent \union {NoObservations})
      BY <3>1, <3>2, <3>3
    <3> QED
      BY <1>1, <3>4
  <2>2. WorkersGoOn
    <3>1. workers' = workers \/ workers' = Unawaited
      BY DEF Reboot
    <3> QED
      BY <3>1, UnawaitedType DEF WorkersGoOn
  <2>3. \A w \in Worker :
          /\ workers'[w].phase # "idle" => workers'[w].frame \in sent'
          /\ workers'[w].phase = "checked" =>
               workers'[w].fresh \subseteq Positions(workers'[w].frame)
    BY <1>1, <2>2 DEF WorkersGoOn, BatchInv, InFlightInv
  <2> QED
    BY <1>1, <2>1, <2>3 DEF InFlightInv, NoRequest
<1>6. RowInv' /\ OneBatchPerObservation'
  BY <1>1, RowsKept DEF BatchInv, OneBatchPerObservation
<1> QED
  BY <1>1, <1>2, <1>3, <1>4, <1>5, <1>6 DEF BatchInv

\* The answer "ok" moves the cursor over the batch that was under retry, any
\* other leaves it there.
LEMMA FinishKeeps ==
  ASSUME DeliveryAssumption, TypeOK, TypeOK', BatchInv, FinishRequest
  PROVE  BatchInv'
<1>1. /\ request' = NoRequest
      /\ UNCHANGED <<admitted, taken, batchSequence, frames, workers, rows, sent>>
  BY DEF FinishRequest, hostVars, historyVars
<1>2. InFlightInv'
  BY <1>1 DEF BatchInv, InFlightInv, NoRequest
<1>3. RowInv'
  BY <1>1, RowsKept
<1>4. CASE response = "ok" /\ request.id > 0
  <2>1. released' = released + batchSize /\ batchId' = 0 /\ batchSize' = 0
    BY <1>4 DEF FinishRequest
  <2>2. /\ admitted \in Nat /\ taken \in Nat /\ released \in Nat /\ batchSequence \in Nat
        /\ batchSize \in Nat /\ QueueSize \in Nat /\ FrameCapacity \in Nat
    BY DEF TypeOK, DeliveryAssumption
  <2>3. /\ released <= taken /\ taken <= admitted /\ admitted - taken <= QueueSize
        /\ taken - released <= FrameCapacity /\ batchSize <= taken - released
    BY DEF BatchInv, CursorsOK
  <2>4. CursorsOK'
    <3>1. /\ released + batchSize <= taken
          /\ taken - (released + batchSize) <= FrameCapacity
          /\ 0 <= taken - (released + batchSize)
      BY <2>2, <2>3
    <3>2. taken' - released' <= FrameCapacity /\ batchSize' <= taken' - released'
      BY <1>1, <2>1, <3>1
    <3> QED
      BY <1>1, <2>1, <2>3, <3>1, <3>2 DEF CursorsOK
  <2>5. SentInv'
    <3>1. ASSUME NEW f \in sent
          PROVE  /\ f.id \in 1 .. batchSequence /\ f.id # 0
                 /\ f.first >= 1 /\ f.first <= f.last /\ f.last <= taken
                 /\ f.last <= released + batchSize
      <4>1. /\ f.id \in 1 .. batchSequence /\ f.first >= 1 /\ f.first <= f.last
            /\ f.last <= taken
            /\ f.id = batchId => f = CurrentBatch
            /\ f.id # batchId => f.last <= released
        BY DEF BatchInv, SentInv
      <4>2. f.last \in Nat /\ f.id \in Nat
        BY DEF TypeOK, Frame
      <4>3. f.id = batchId => f.last = released + batchSize
        BY <4>1 DEF CurrentBatch
      <4> QED
        BY <2>2, <4>1, <4>2, <4>3
    <3> QED
      BY <1>1, <2>1, <3>1 DEF SentInv
  <2>6. OneBatchPerObservation'
    BY <1>1 DEF BatchInv, OneBatchPerObservation
  <2> QED
    BY <1>1, <1>2, <1>3, <2>1, <2>2, <2>4, <2>5, <2>6 DEF BatchInv
<1>5. CASE ~(response = "ok" /\ request.id > 0)
  <2>1. UNCHANGED <<released, batchId, batchSize>>
    BY <1>5 DEF FinishRequest
  <2> QED
    BY <1>1, <1>2, <1>3, <2>1, BatchKept
<1> QED
  BY <1>4, <1>5

\* Threads only take frames that were transmitted, and only rows of such a
\* frame are stored.
LEMMA WorkerKeeps ==
  ASSUME DeliveryAssumption, TypeOK, TypeOK', BatchInv, NEW w \in Worker,
         CheckDuplicates(w) \/ CommitBatch(w) \/ FailBatch(w)
  PROVE  BatchInv'
<1>1. UNCHANGED <<admitted, taken, released, batchId, batchSize, batchSequence, sent,
                  request, frames>>
  BY DEF CheckDuplicates, CommitBatch, FailBatch, firmwareVars, historyVars
<1>2. frames \in Seq(sent \union {NoObservations})
  BY DEF BatchInv, InFlightInv
<1>3. CASE CheckDuplicates(w)
  <2>1. workers[w].phase = "received"
    BY <1>3 DEF CheckDuplicates
  <2>2. workers[w] \in [phase : {"received", "checked"}, frame : Frame,
                        fresh : SUBSET Nat, awaited : BOOLEAN]
    BY <2>1, WorkerTypes
  <2>3. /\ workers'[w].frame = workers[w].frame
        /\ workers'[w].fresh = Positions(workers[w].frame) \ Stored
    BY <1>3, <2>2 DEF CheckDuplicates, TypeOK
  <2>4. \A v \in Worker : v # w => workers'[v] = workers[v]
    BY <1>3 DEF CheckDuplicates, TypeOK
  <2>5. \A v \in Worker :
          /\ workers'[v].phase # "idle" => workers'[v].frame \in sent'
          /\ workers'[v].phase = "checked" =>
               workers'[v].fresh \subseteq Positions(workers'[v].frame)
    BY <1>1, <2>1, <2>3, <2>4 DEF BatchInv, InFlightInv
  <2>6. InFlightInv'
    BY <1>1, <2>5 DEF BatchInv, InFlightInv, CurrentBatch
  <2>7. RowInv'
    BY <1>1, <1>3, RowsKept DEF CheckDuplicates
  <2> QED
    BY <1>1, <2>6, <2>7, BatchKept
<1>4. CASE CommitBatch(w) \/ FailBatch(w)
  <2>1. workers' = [workers EXCEPT ![w] = IdleWorker]
    BY <1>4 DEF CommitBatch, FailBatch, Answer
  <2>2. WorkersGoOn
    BY <2>1 DEF WorkersGoOn, IdleWorker, TypeOK
  <2>3. InFlightInv'
    BY <1>1, <1>2, <2>2, InFlightKept
  <2>4. RowInv'
    <3>1. CASE FailBatch(w)
      BY <1>1, <3>1, RowsKept DEF FailBatch
    <3>2. CASE CommitBatch(w)
      <4>1. PICK left \in SUBSET workers[w].fresh :
              LET new == {[batch |-> workers[w].frame.id, position |-> p, before |-> Stored] :
                            p \in workers[w].fresh \ left}
              IN ~Conflicts(new) /\ rows' = rows \union new
        BY <3>2 DEF CommitBatch
      <4> DEFINE new == {[batch |-> workers[w].frame.id, position |-> p, before |-> Stored] :
                           p \in workers[w].fresh \ left}
      <4>2. /\ workers[w].frame \in sent
            /\ workers[w].fresh \subseteq Positions(workers[w].frame)
        BY <3>2 DEF CommitBatch, BatchInv, InFlightInv
      <4>3. ASSUME NEW r \in new
            PROVE  /\ r.batch = workers[w].frame.id
                   /\ r.position \in Positions(workers[w].frame)
                   /\ r = [batch |-> workers[w].frame.id, position |-> r.position,
                           before |-> Stored]
        BY <4>2
      <4>4. \A r \in new, s \in rows : ~(r.batch = s.batch /\ r.position = s.position)
        BY <4>1 DEF Conflicts
      <4>5. rows' = rows \union new
        BY <4>1
      <4> HIDE DEF new
      <4>6. ASSUME NEW r \in rows'
            PROVE  \E f \in sent : r.batch = f.id /\ r.position \in Positions(f)
        BY <4>2, <4>3, <4>5 DEF BatchInv, RowInv
      <4>7. ASSUME NEW r \in rows', NEW s \in rows',
                   r.batch = s.batch, r.position = s.position
            PROVE  r = s
        <5>1. CASE r \in rows /\ s \in rows
          BY <4>7, <5>1 DEF BatchInv, RowInv
        <5>2. CASE r \in new /\ s \in new
          BY <4>3, <4>7, <5>2
        <5> QED
          BY <4>4, <4>5, <4>7, <5>1, <5>2
      <4> QED
        BY <1>1, <4>6, <4>7 DEF RowInv
    <3> QED
      BY <1>4, <3>1, <3>2
  <2> QED
    BY <1>1, <2>3, <2>4, BatchKept
<1> QED
  BY <1>3, <1>4

LEMMA BatchStep ==
  ASSUME DeliveryAssumption, TypeOK, TypeOK', BatchInv, [Next]_vars
  PROVE  BatchInv'
<1> DEFINE Line == Seq(sent \union {NoObservations})
<1>0. frames \in Line
  BY DEF BatchInv, InFlightInv
<1>1. CASE PushObservation
  <2>1. /\ UNCHANGED <<taken, released, batchId, batchSize, batchSequence, sent,
                       frames, request, workers, rows>>
        /\ admitted' = admitted \/ (admitted' = admitted + 1 /\ admitted - taken < QueueSize)
    BY <1>1 DEF PushObservation, hostVars, historyVars
  <2>2. InFlightInv' /\ RowInv'
    BY <1>0, <2>1, InFlightKept, RowsKept DEF WorkersGoOn
  <2> QED
    BY <2>1, <2>2, BatchKept
<1>2. CASE SendBatch
  BY <1>2, SendBatchKeeps
<1>3. CASE OverflowBatch
  BY <1>3, OverflowKeeps
<1>4. CASE SendOther
  <2>1. frames' = frames \/ frames' = Append(frames, NoObservations)
    BY <1>4 DEF SendOther, Transmit
  <2>2. frames' \in Line /\ request' = NoObservations
    BY <1>0, <1>4, <2>1 DEF SendOther, Transmit
  <2>3. UNCHANGED <<admitted, taken, released, batchId, batchSize, batchSequence, sent,
                    workers, rows>>
    BY <1>4 DEF SendOther, firmwareVars, hostVars, historyVars
  <2>4. InFlightInv' /\ RowInv'
    BY <2>2, <2>3, InFlightKept, RowsKept DEF WorkersGoOn
  <2> QED
    BY <2>3, <2>4, BatchKept
<1>5. CASE FinishRequest
  BY <1>5, FinishKeeps
<1>6. CASE Reboot
  BY <1>6, RebootKeeps
<1>7. CASE PollAck \/ ResponseTimeout \/ LoseFrame \/ LoseAck \/ BridgeConnect
           \/ BridgeAnswer \/ BridgeGiveUp \/ BridgeCrash \/ UNCHANGED vars
  <2>1. UNCHANGED <<admitted, taken, released, batchId, batchSize, batchSequence, sent, rows>>
    BY <1>7 DEF PollAck, ResponseTimeout, LoseFrame, LoseAck, BridgeConnect,
       BridgeAnswer, BridgeGiveUp, BridgeCrash, vars, firmwareVars, hostVars, historyVars
  <2>2. request' = request \/ request' = NoRequest
    BY <1>7 DEF PollAck, ResponseTimeout, LoseFrame, LoseAck, BridgeConnect,
       BridgeAnswer, BridgeGiveUp, BridgeCrash, vars
  <2>3. frames' \in Line
    <3>1. frames' = frames \/ frames' = <<>> \/ (frames # <<>> /\ frames' = Tail(frames))
      BY <1>7 DEF PollAck, ResponseTimeout, LoseFrame, LoseAck, BridgeConnect,
         BridgeAnswer, BridgeGiveUp, BridgeCrash, vars
    <3>2. <<>> \in Line
      OBVIOUS
    <3>3. frames # <<>> => Tail(frames) \in Line
      BY <1>0
    <3> HIDE DEF Line
    <3> QED
      BY <1>0, <3>1, <3>2, <3>3
  <2>4. WorkersGoOn
    <3>1. workers' = workers \/ workers' = Unawaited
      BY <1>7 DEF PollAck, ResponseTimeout, LoseFrame, LoseAck, BridgeConnect,
         BridgeAnswer, BridgeGiveUp, BridgeCrash, vars, hostVars
    <3> QED
      BY <3>1, UnawaitedType DEF WorkersGoOn
  <2>5. InFlightInv' /\ RowInv'
    BY <2>1, <2>2, <2>3, <2>4, InFlightKept, RowsKept
  <2> QED
    BY <2>1, <2>5, BatchKept
<1>8. CASE BridgeForward
  <2>1. UNCHANGED <<admitted, taken, released, batchId, batchSize, batchSequence, sent,
                    rows, request>>
    BY <1>8 DEF BridgeForward, firmwareVars, historyVars
  <2>2. PICK w \in Worker :
          workers' = [workers EXCEPT ![w] =
            [phase |-> "received", frame |-> Head(frames), fresh |-> {}, awaited |-> TRUE]]
    BY <1>8 DEF BridgeForward
  <2>3. Head(frames) \in sent
    <3>1. Head(frames) \in sent \union {NoObservations}
      BY <1>0, <1>8 DEF BridgeForward
    <3>2. Head(frames) # NoObservations
      BY <1>8 DEF BridgeForward, NoObservations
    <3> QED
      BY <3>1, <3>2
  <2>4. frames' \in Line
    BY <1>0, <1>8 DEF BridgeForward
  <2>5. \A v \in Worker :
          /\ workers'[v].phase # "idle" => workers'[v].frame \in sent
          /\ workers'[v].phase = "checked" =>
               workers'[v].fresh \subseteq Positions(workers'[v].frame)
    BY <2>2, <2>3 DEF TypeOK, BatchInv, InFlightInv
  <2>6. InFlightInv'
    BY <2>1, <2>4, <2>5 DEF BatchInv, InFlightInv, CurrentBatch
  <2> QED
    BY <2>1, <2>6, RowsKept, BatchKept
<1>9. ASSUME NEW w \in Worker, CheckDuplicates(w) \/ CommitBatch(w) \/ FailBatch(w)
      PROVE  BatchInv'
  BY <1>9, WorkerKeeps
<1> QED
  BY <1>1, <1>2, <1>3, <1>4, <1>5, <1>6, <1>7, <1>8, <1>9 DEF Next

LEMMA BatchTypesHold == Spec => [](TypeOK /\ BatchInv)
<1>1. Init => TypeOK /\ BatchInv
  BY TypeInit, BatchInit, DeliveryAssumption
<1>2. TypeOK /\ BatchInv /\ [Next]_vars => (TypeOK /\ BatchInv)'
  <2> SUFFICES ASSUME TypeOK, BatchInv, [Next]_vars PROVE TypeOK' /\ BatchInv'
    OBVIOUS
  <2>1. TypeOK'
    BY TypeStep, DeliveryAssumption DEF BatchInv
  <2> QED
    BY <2>1, BatchStep, DeliveryAssumption
<1> QED
  BY <1>1, <1>2, PTL DEF Spec

\* The queue's cursors, the exchange and the database stay in their types.
THEOREM TypeCorrect == Spec => []TypeOK
  BY BatchTypesHold, PTL

\* Refill, halving, release, drop and reset keep the two firmware buffers
\* within their bounds and the batch under retry a prefix of the second.
THEOREM CursorsCorrect == Spec => []CursorsOK
<1>1. BatchInv => CursorsOK
  BY DEF BatchInv
<1> QED
  BY <1>1, BatchTypesHold, PTL

\* A batch identifier never names two intervals of observations, and no
\* observation is sent under two identifiers.
THEOREM OneBatch == Spec => []OneBatchPerObservation
<1>1. BatchInv => OneBatchPerObservation
  BY DEF BatchInv
<1> QED
  BY <1>1, BatchTypesHold, PTL

\* However many copies of a batch arrive and however many threads process them
\* at once, no observation has two rows: the identity that OneBatch keeps, and
\* the database's uniqueness constraint, suffice.  Late answers do no harm here.
THEOREM AtMostOnce == Spec => []StoredAtMostOnce
<1>1. TypeOK /\ BatchInv => StoredAtMostOnce
  <2> SUFFICES ASSUME TypeOK, BatchInv, NEW r \in rows, NEW s \in rows,
                      r.position = s.position
               PROVE  r = s
    BY DEF StoredAtMostOnce
  <2>1. PICK f \in sent : r.batch = f.id /\ r.position \in Positions(f)
    BY DEF BatchInv, RowInv
  <2>2. PICK g \in sent : s.batch = g.id /\ s.position \in Positions(g)
    BY DEF BatchInv, RowInv
  <2>3. f = g
    BY <2>1, <2>2 DEF BatchInv, OneBatchPerObservation
  <2> QED
    BY <2>1, <2>2, <2>3 DEF BatchInv, RowInv
<1> QED
  BY <1>1, BatchTypesHold, PTL

-----------------------------------------------------------------------------
(* Nothing is released before it is settled                                  *)

LEMMA OneMessage ==
  \A x : /\ Head(<<x>>) = x /\ Tail(<<x>>) = <<>>
         /\ Append(<<>>, x) = <<x>> /\ <<x>> # <<>>
  OBVIOUS

LEMMA AnswerInit == Init => AnswerInv
<1> SUFFICES ASSUME Init PROVE AnswerInv
  OBVIOUS
<1>1. LineInv /\ AckInv
  BY OneMessage DEF Init, LineInv, AckInv
<1>2. AwaitInv /\ CheckedInv
  BY DEF Init, AwaitInv, CheckedInv, IdleWorker
<1>3. RetainedUntilSettled
  BY DEF Init, RetainedUntilSettled
<1> QED
  BY <1>1, <1>2, <1>3 DEF AnswerInv

\* The database and the list of refusals only grow.
LEMMA SettledGrows ==
  ASSUME [Next]_vars
  PROVE  rows \subseteq rows' /\ refused \subseteq refused'
  BY DEF Next, vars, firmwareVars, hostVars, historyVars, PushObservation, SendBatch,
     BuildBatch, OverflowBatch, SendOther, PollAck, FinishRequest, ResponseTimeout, Reboot,
     LoseFrame, LoseAck, BridgeConnect, BridgeAnswer, BridgeForward, BridgeGiveUp,
     BridgeCrash, CheckDuplicates, CommitBatch, FailBatch

\* Steps at the host end: the cursor and the request stay.
LEMMA HostSteps ==
  ASSUME rows \subseteq rows', refused \subseteq refused', AnswerInv,
         UNCHANGED <<released, oversized, lost>>
  PROVE  RetainedUntilSettled'
  BY DEF AnswerInv, RetainedUntilSettled, Settled, Stored

LEMMA CheckedKept ==
  ASSUME rows \subseteq rows', AnswerInv, WorkersGoOn
  PROVE  CheckedInv'
<1>1. Stored \subseteq Stored'
  BY DEF Stored
<1>2. ASSUME NEW w \in Worker, workers'[w].phase = "checked"
      PROVE  Positions(workers'[w].frame) \subseteq Stored' \union workers'[w].fresh
  <2>1. /\ workers[w].phase = "checked" /\ workers[w].frame = workers'[w].frame
        /\ workers[w].fresh = workers'[w].fresh
    BY <1>2 DEF WorkersGoOn
  <2> QED
    BY <1>1, <2>1 DEF AnswerInv, CheckedInv
<1> QED
  BY <1>2 DEF CheckedInv

\* A 2xx answer to a batch: what it releases is settled.
LEMMA ReleaseSettled ==
  ASSUME TypeOK, BatchInv, AnswerInv, FinishRequest
  PROVE  RetainedUntilSettled'
<1>1. UNCHANGED <<rows, refused, oversized, lost>>
  BY DEF FinishRequest, hostVars, historyVars
<1>2. CASE response = "ok" /\ request.id > 0
  <2>1. released' = released + batchSize
    BY <1>2 DEF FinishRequest
  <2>2. FrameSettled(request) /\ request = CurrentBatch
    BY <1>2 DEF AnswerInv, AckInv, BatchInv, InFlightInv
  <2>3. released + 1 .. released + batchSize \subseteq Settled
    BY <2>2 DEF FrameSettled, Positions, CurrentBatch
  <2>4. \A p \in 1 .. released + batchSize :
          p \in 1 .. released \/ p \in released + 1 .. released + batchSize
    BY DEF TypeOK
  <2> QED
    BY <1>1, <2>1, <2>3, <2>4 DEF AnswerInv, RetainedUntilSettled, Settled, Stored
<1>3. CASE ~(response = "ok" /\ request.id > 0)
  <2>1. released' = released
    BY <1>3 DEF FinishRequest
  <2> QED
    BY <1>1, <2>1, HostSteps
<1> QED
  BY <1>2, <1>3

\* What the threads do: only a commit answers "ok", and it settles the frame.
LEMMA ThreadStep ==
  ASSUME TypeOK, BatchInv, AnswerInv, NEW w \in Worker,
         CommitBatch(w) \/ FailBatch(w)
  PROVE  AnswerInv'
<1>1. PICK status \in Status :
        /\ Answer(w, status)
        /\ status = "ok" => CommitBatch(w)
  BY DEF CommitBatch, FailBatch, Status
<1>2. UNCHANGED <<request, response, frames, released, oversized, lost>>
  BY DEF CommitBatch, FailBatch, firmwareVars, historyVars
<1>3. rows \subseteq rows' /\ refused \subseteq refused'
  BY DEF CommitBatch, FailBatch
<1>4. /\ workers' = [workers EXCEPT ![w] = IdleWorker]
      /\ \A v \in Worker : v # w => workers'[v] = workers[v]
      /\ workers'[w] = IdleWorker
  BY <1>1 DEF Answer, TypeOK
<1>5. WorkersGoOn
  BY <1>4 DEF WorkersGoOn, IdleWorker
<1>6. FrameSettled(request) => FrameSettled(request)'
  BY <1>2, <1>3 DEF FrameSettled, Settled, Stored, Positions
<1>7. CheckedInv' /\ RetainedUntilSettled'
  BY <1>2, <1>3, <1>5, CheckedKept, HostSteps
<1>8. CASE workers[w].awaited
  <2>1. /\ bridge = "forwarding" /\ workers[w].frame = request
        /\ \A v \in Worker : v # w => ~workers[v].awaited
    BY <1>8 DEF AnswerInv, AwaitInv
  <2>2. acks = <<>> /\ response = "none" /\ request # NoRequest /\ frames = <<>>
    BY <2>1 DEF AnswerInv, LineInv
  <2>3. bridge' = "reading" /\ acks' = <<status>>
    BY <1>1, <1>8, <2>2, OneMessage DEF Answer
  <2>4. LineInv'
    BY <1>2, <2>2, <2>3 DEF LineInv, Status
  <2>5. status = "ok" => FrameSettled(request)'
    <3>1. SUFFICES ASSUME CommitBatch(w) PROVE FrameSettled(request)'
      BY <1>1
    <3>2. PICK left \in SUBSET workers[w].fresh :
            /\ rows' = rows \union {[batch |-> workers[w].frame.id, position |-> p,
                                     before |-> Stored] : p \in workers[w].fresh \ left}
            /\ refused' = refused \union left
      BY <3>1 DEF CommitBatch
    <3>3. Positions(request) \subseteq Stored \union workers[w].fresh
      BY <2>1, <3>1 DEF AnswerInv, CheckedInv, CommitBatch
    <3>4. ASSUME NEW p \in workers[w].fresh \ left
          PROVE  p \in Stored'
      <4>1. [batch |-> workers[w].frame.id, position |-> p, before |-> Stored] \in rows'
        BY <3>2
      <4> QED
        BY <4>1 DEF Stored
    <3>5. Stored \subseteq Stored'
      BY <1>3 DEF Stored
    <3> QED
      BY <1>2, <3>2, <3>3, <3>4, <3>5 DEF FrameSettled, Settled, Positions
  <2>6. AckInv'
    BY <1>2, <2>2, <2>3, <2>5 DEF AckInv, FrameSettled, Positions
  <2>7. AwaitInv'
    BY <1>4, <2>1 DEF AwaitInv, IdleWorker
  <2> QED
    BY <1>7, <2>4, <2>6, <2>7 DEF AnswerInv
<1>9. CASE ~workers[w].awaited
  <2>1. UNCHANGED <<bridge, acks>>
    BY <1>1, <1>9 DEF Answer
  <2>2. LineInv'
    BY <1>2, <2>1 DEF AnswerInv, LineInv
  <2>3. AckInv'
    BY <1>2, <1>6, <2>1 DEF AnswerInv, AckInv, FrameSettled, Positions
  <2>4. AwaitInv'
    BY <1>2, <1>4, <2>1 DEF AnswerInv, AwaitInv, IdleWorker
  <2> QED
    BY <1>7, <2>2, <2>3, <2>4 DEF AnswerInv
<1> QED
  BY <1>8, <1>9

LEMMA AnswerStep ==
  ASSUME ~StaleAcks, DeliveryAssumption, TypeOK, BatchInv, AnswerInv, [Next]_vars
  PROVE  AnswerInv'
<1>0. /\ rows \subseteq rows' /\ refused \subseteq refused'
      /\ FrameSettled(request) /\ request' = request => FrameSettled(request)'
  BY SettledGrows DEF FrameSettled, Settled, Stored, Positions
<1>00. LineInv /\ AckInv /\ AwaitInv /\ CheckedInv /\ RetainedUntilSettled
  BY DEF AnswerInv
<1>1. CASE PushObservation \/ UNCHANGED vars
  <2>1. UNCHANGED <<request, response, frames, acks, bridge, workers, rows, refused,
                    released, oversized, lost>>
    BY <1>1 DEF PushObservation, vars, firmwareVars, hostVars, historyVars
  <2> QED
    BY <2>1 DEF AnswerInv, LineInv, AckInv, AwaitInv, CheckedInv, RetainedUntilSettled,
       FrameSettled, Settled, Stored, Positions
<1>2. CASE SendBatch \/ SendOther
  <2>1. PICK frame : Transmit(frame) /\ frame # NoRequest
    <3>1. CASE SendOther
      BY <3>1 DEF SendOther, NoObservations, NoRequest
    <3>2. CASE SendBatch
      <4>1. PICK refill, capacity \in 1 .. FrameCapacity :
              BuildBatch(refill) /\ Transmit(NextBatch(refill, capacity))
        BY <3>2 DEF SendBatch
      <4>2. NextBatch(refill, capacity).id # -1
        BY <4>1, BatchTypes DEF BuildBatch, BatchInv, Frame
      <4> QED
        BY <4>1, <4>2 DEF NoRequest
    <3> QED
      BY <1>2, <3>1, <3>2
  <2>2. request = NoRequest
    BY <1>2 DEF SendBatch, SendOther, BuildBatch
  <2>3. UNCHANGED <<acks, bridge, workers, rows, refused, released, oversized, lost>>
    BY <1>2 DEF SendBatch, SendOther, BuildBatch, firmwareVars, hostVars, historyVars
  <2>4. frames = <<>> /\ acks = <<>> /\ bridge # "forwarding"
    BY <2>2, <1>00 DEF LineInv
  <2>5. /\ request' = frame /\ response' = "none"
        /\ frames' = <<>> \/ frames' = <<frame>>
    BY <2>1, <2>4, OneMessage DEF Transmit
  <2>6. LineInv' /\ AckInv'
    BY <2>1, <2>3, <2>4, <2>5, OneMessage DEF LineInv, AckInv
  <2>7. AwaitInv'
    BY <2>3, <2>4, <1>00 DEF AwaitInv
  <2>8. CheckedInv' /\ RetainedUntilSettled'
    BY <2>3, <1>0, CheckedKept, HostSteps DEF WorkersGoOn
  <2> QED
    BY <2>6, <2>7, <2>8 DEF AnswerInv
<1>3. CASE OverflowBatch
  <2>1. PICK refill, capacity \in 1 .. FrameCapacity :
          /\ BuildBatch(refill)
          /\ \/ UNCHANGED <<released, oversized>>
             \/ released' = released + 1 /\ oversized' = oversized \union {released + 1}
    BY <1>3 DEF OverflowBatch
  <2>2. UNCHANGED <<request, response, frames, acks, bridge, workers, rows, refused, lost>>
    BY <1>3, <2>1 DEF OverflowBatch, BuildBatch, hostVars
  <2>3. RetainedUntilSettled'
    <3>1. CASE UNCHANGED <<released, oversized>>
      BY <2>2, <3>1, <1>0, HostSteps
    <3>2. CASE released' = released + 1 /\ oversized' = oversized \union {released + 1}
      <4>1. \A p \in 1 .. released + 1 : p \in 1 .. released \/ p = released + 1
        BY DEF TypeOK
      <4> QED
        BY <2>2, <3>2, <4>1, <1>00 DEF RetainedUntilSettled, Settled, Stored
    <3> QED
      BY <2>1, <3>1, <3>2
  <2>4. CheckedInv'
    BY <2>2, <1>0, CheckedKept DEF WorkersGoOn
  <2>5. LineInv' /\ AckInv' /\ AwaitInv'
    BY <2>2, <1>00 DEF LineInv, AckInv, AwaitInv, FrameSettled, Settled, Stored, Positions
  <2> QED
    BY <2>3, <2>4, <2>5 DEF AnswerInv
<1>4. CASE PollAck
  <2>1. /\ acks # <<>> /\ response' = Head(acks) /\ acks' = Tail(acks)
        /\ UNCHANGED <<request, frames, bridge, workers, rows, refused,
                       released, oversized, lost>>
    BY <1>4 DEF PollAck, firmwareVars, hostVars, historyVars
  <2>2. /\ acks' = <<>> /\ response' \in Status
        /\ response' = "ok" => acks = <<"ok">>
    BY <2>1, <1>00, OneMessage DEF LineInv, Status
  <2>3. LineInv'
    BY <2>1, <2>2, <1>00 DEF LineInv, Status
  <2>4. AckInv'
    BY <2>1, <2>2, <1>00, OneMessage DEF AckInv, FrameSettled, Settled, Stored, Positions
  <2>5. AwaitInv' /\ CheckedInv' /\ RetainedUntilSettled'
    BY <2>1, <1>00 DEF AwaitInv, CheckedInv, RetainedUntilSettled, Settled, Stored
  <2> QED
    BY <2>3, <2>4, <2>5 DEF AnswerInv
<1>5. CASE FinishRequest
  <2>1. /\ request # NoRequest /\ response # "none"
        /\ request' = NoRequest /\ response' = "none"
        /\ UNCHANGED <<frames, acks, bridge, workers, rows, refused>>
    BY <1>5 DEF FinishRequest, hostVars, historyVars
  <2>2. frames = <<>> /\ acks = <<>> /\ bridge # "forwarding"
    BY <2>1, <1>00 DEF LineInv
  <2>3. LineInv' /\ AckInv'
    BY <2>1, <2>2, OneMessage DEF LineInv, AckInv
  <2>4. AwaitInv' /\ CheckedInv'
    BY <2>1, <2>2, <1>00 DEF AwaitInv, CheckedInv, Stored
  <2>5. RetainedUntilSettled'
    BY <1>5, ReleaseSettled
  <2> QED
    BY <2>3, <2>4, <2>5 DEF AnswerInv
<1>6. CASE ResponseTimeout
  <2>1. /\ response = "none" /\ frames = <<>> /\ acks = <<>> /\ bridge # "forwarding"
        /\ request' = NoRequest
        /\ UNCHANGED <<response, frames, acks, bridge, workers, rows, refused,
                       released, oversized, lost>>
    BY <1>6 DEF ResponseTimeout, firmwareVars, hostVars, historyVars
  <2>2. LineInv' /\ AckInv'
    BY <2>1, OneMessage DEF LineInv, AckInv
  <2>3. AwaitInv' /\ CheckedInv'
    BY <2>1, <1>00 DEF AwaitInv, CheckedInv, Stored
  <2> QED
    BY <2>1, <2>2, <2>3, <1>0, HostSteps DEF AnswerInv
<1>7. CASE Reboot
  <2>1. /\ request' = NoRequest /\ response' = "none" /\ acks' = <<>> /\ frames' = <<>>
        /\ bridge' # "forwarding" /\ workers' = Unawaited
        /\ rows' = rows /\ refused' = refused
        /\ released' = admitted
        /\ lost' = lost \union oversized \union (released + 1 .. admitted)
    BY <1>7 DEF Reboot
  <2>2. LineInv' /\ AckInv'
    BY <2>1, OneMessage DEF LineInv, AckInv
  <2>3. AwaitInv'
    BY <2>1, UnawaitedType DEF AwaitInv
  <2>4. CheckedInv'
    BY <2>1, UnawaitedType, CheckedKept DEF WorkersGoOn
  <2>5. RetainedUntilSettled'
    <3>1. \A p \in 1 .. admitted : p \in 1 .. released \/ p \in released + 1 .. admitted
      BY DEF TypeOK
    <3> QED
      BY <2>1, <3>1, <1>00 DEF RetainedUntilSettled, Settled, Stored
  <2> QED
    BY <2>2, <2>3, <2>4, <2>5 DEF AnswerInv
<1>8. CASE LoseFrame \/ LoseAck \/ BridgeConnect \/ BridgeAnswer
  <2>1. UNCHANGED <<request, response, workers, rows, refused, released, oversized, lost>>
    BY <1>8 DEF LoseFrame, LoseAck, BridgeConnect, BridgeAnswer, firmwareVars, hostVars,
       historyVars
  <2>2. LineInv' /\ AckInv' /\ (bridge = "forwarding" => bridge' = "forwarding")
    <3>1. CASE LoseFrame
      BY <3>1, <2>1, <1>00, OneMessage
         DEF LoseFrame, hostVars, LineInv, AckInv, FrameSettled, Settled, Stored, Positions
    <3>2. CASE LoseAck
      BY <3>2, <2>1, <1>00, OneMessage
         DEF LoseAck, hostVars, LineInv, AckInv, FrameSettled, Settled, Stored, Positions
    <3>3. CASE BridgeConnect
      BY <3>3, <2>1, <1>00, OneMessage
         DEF BridgeConnect, LineInv, AckInv, FrameSettled, Settled, Stored, Positions
    <3>4. CASE BridgeAnswer
      <4>1. PICK status \in Status :
              /\ status = "ok" => Head(frames).id = 0
              /\ acks' = Append(acks, status)
        BY <3>4 DEF BridgeAnswer
      <4>2. frames # <<>> /\ frames' = Tail(frames) /\ bridge' = bridge
        BY <3>4 DEF BridgeAnswer, hostVars
      <4>3. /\ frames = <<request>> /\ acks = <<>> /\ response = "none"
            /\ bridge # "forwarding" /\ request # NoRequest
        BY <4>2, <1>00 DEF LineInv
      <4>4. frames' = <<>> /\ acks' = <<status>> /\ (status = "ok" => request.id = 0)
        BY <4>1, <4>2, <4>3, OneMessage
      <4>5. status = "ok" \/ status = "failed"
        BY DEF Status
      <4>6. LineInv'
        BY <2>1, <4>2, <4>3, <4>4, <4>5 DEF LineInv
      <4>7. AckInv'
        BY <2>1, <4>3, <4>4, <4>5, OneMessage DEF AckInv
      <4> QED
        BY <4>2, <4>6, <4>7
    <3> QED
      BY <1>8, <3>1, <3>2, <3>3, <3>4
  <2>3. AwaitInv' /\ CheckedInv'
    BY <2>1, <2>2, <1>00 DEF AwaitInv, CheckedInv, Stored
  <2> QED
    BY <2>1, <2>2, <2>3, <1>0, HostSteps DEF AnswerInv
<1>9. CASE BridgeForward
  <2>1. /\ UNCHANGED <<request, response, acks, rows, refused, released, oversized, lost>>
        /\ bridge = "reading" /\ bridge' = "forwarding"
        /\ frames # <<>> /\ frames' = Tail(frames)
    BY <1>9 DEF BridgeForward, firmwareVars, historyVars
  <2>2. PICK w \in Worker :
          /\ workers[w].phase = "idle"
          /\ workers' = [workers EXCEPT ![w] =
               [phase |-> "received", frame |-> Head(frames), fresh |-> {}, awaited |-> TRUE]]
    BY <1>9 DEF BridgeForward
  <2>3. frames = <<request>> /\ acks = <<>> /\ response = "none" /\ request # NoRequest
    BY <2>1, <1>00 DEF LineInv
  <2>4. LineInv' /\ AckInv'
    BY <2>1, <2>3, OneMessage DEF LineInv, AckInv
  <2>5. /\ workers'[w] = [phase |-> "received", frame |-> request, fresh |-> {},
                          awaited |-> TRUE]
        /\ \A v \in Worker : v # w => workers'[v] = workers[v] /\ ~workers[v].awaited
    BY <2>1, <2>2, <2>3, <1>00, OneMessage DEF AwaitInv, TypeOK
  <2>6. AwaitInv' /\ CheckedInv'
    BY <2>1, <2>5, <1>00 DEF AwaitInv, CheckedInv, Stored
  <2> QED
    BY <2>1, <2>4, <2>6, <1>0, HostSteps DEF AnswerInv
<1>10. CASE BridgeGiveUp \/ BridgeCrash
  <2>1. /\ UNCHANGED <<request, response, rows, refused, released, oversized, lost>>
        /\ workers' = Unawaited /\ bridge' # "forwarding"
    BY <1>10 DEF BridgeGiveUp, BridgeCrash, firmwareVars, historyVars
  <2>2. LineInv' /\ AckInv'
    <3>1. CASE BridgeCrash
      BY <3>1, <2>1, <1>00, OneMessage
         DEF BridgeCrash, LineInv, AckInv, FrameSettled, Settled, Stored, Positions
    <3>2. CASE BridgeGiveUp
      <4>1. /\ bridge = "forwarding" /\ acks' = Append(acks, "failed") /\ frames' = frames
        BY <3>2 DEF BridgeGiveUp
      <4>2. acks = <<>> /\ response = "none" /\ request # NoRequest /\ frames = <<>>
        BY <4>1, <1>00 DEF LineInv
      <4>3. acks' = <<"failed">>
        BY <4>1, <4>2, OneMessage
      <4> QED
        BY <2>1, <4>1, <4>2, <4>3, OneMessage DEF LineInv, AckInv
    <3> QED
      BY <1>10, <3>1, <3>2
  <2>3. AwaitInv'
    BY <2>1, UnawaitedType DEF AwaitInv
  <2>4. CheckedInv'
    BY <2>1, UnawaitedType, CheckedKept DEF WorkersGoOn
  <2> QED
    BY <2>1, <2>2, <2>3, <2>4, <1>0, HostSteps DEF AnswerInv
<1>11. ASSUME NEW w \in Worker, CheckDuplicates(w) PROVE AnswerInv'
  <2>1. UNCHANGED <<request, response, frames, acks, bridge, rows, refused,
                    released, oversized, lost>>
    BY <1>11 DEF CheckDuplicates, firmwareVars, historyVars
  <2>2. workers[w] \in [phase : {"received", "checked"}, frame : Frame,
                        fresh : SUBSET Nat, awaited : BOOLEAN]
    BY <1>11, WorkerTypes DEF CheckDuplicates
  <2>3. /\ workers'[w].phase = "checked"
        /\ workers'[w].frame = workers[w].frame
        /\ workers'[w].fresh = Positions(workers[w].frame) \ Stored
        /\ workers'[w].awaited = workers[w].awaited
        /\ \A v \in Worker : v # w => workers'[v] = workers[v]
    BY <1>11, <2>2 DEF CheckDuplicates, TypeOK
  <2>4. LineInv' /\ AckInv'
    BY <2>1, <1>00 DEF LineInv, AckInv, FrameSettled, Settled, Stored, Positions
  <2>5. AwaitInv' /\ CheckedInv'
    BY <2>1, <2>3, <1>00 DEF AwaitInv, CheckedInv, Stored
  <2> QED
    BY <2>1, <2>4, <2>5, <1>0, HostSteps DEF AnswerInv
<1>12. ASSUME NEW w \in Worker, CommitBatch(w) \/ FailBatch(w) PROVE AnswerInv'
  BY <1>12, ThreadStep
<1> QED
  BY <1>1, <1>2, <1>3, <1>4, <1>5, <1>6, <1>7, <1>8, <1>9, <1>10, <1>11, <1>12 DEF Next

\* With answers that do not outlive their requests, an observation leaves the
\* scanner's buffers only when the backend has settled it, or it was too large
\* to send, or a reset lost it.
THEOREM Retained == ~StaleAcks => (Spec => []RetainedUntilSettled)
<1> SUFFICES ASSUME ~StaleAcks PROVE Spec => []RetainedUntilSettled
  OBVIOUS
<1>1. Init => AnswerInv
  BY AnswerInit
<1>2. TypeOK /\ BatchInv /\ AnswerInv /\ [Next]_vars => AnswerInv'
  BY AnswerStep, DeliveryAssumption
<1>3. AnswerInv => RetainedUntilSettled
  BY DEF AnswerInv
<1> QED
  BY <1>1, <1>2, <1>3, BatchTypesHold, PTL DEF Spec
-----------------------------------------------------------------------------
(***************************************************************************)
(* The path implements BoundedDelivery.  Settlement is whole: the backend  *)
(* settles all observations of a frame in one transaction, so a commit of  *)
(* the batch under retry is a prefix of what the scanner holds, and one of *)
(* an older batch is a late delivery of what the scanner gave up.          *)
(***************************************************************************)
Held == (released + 1 .. admitted) \ Settled
Gone == (oversized \union lost) \ Settled

SettledInv ==
  /\ \A f \in sent : Positions(f) \subseteq Settled \/ Positions(f) \intersect Settled = {}
  /\ \A p \in Settled : \E f \in sent : p \in Positions(f)

\* What was given up has left the scanner.
GoneInv == oversized \union lost \subseteq 1 .. released

DeliveryInv == TypeOK /\ BatchInv /\ AnswerInv /\ SettledInv /\ GoneInv

LEMMA CommitSettles ==
  ASSUME TypeOK, BatchInv, AnswerInv, NEW w \in Worker, CommitBatch(w)
  PROVE  /\ workers[w].frame \in sent
         /\ Settled' = Settled \union Positions(workers[w].frame)
<1> DEFINE f == workers[w].frame
<1>1. /\ workers[w].phase = "checked" /\ f \in sent
      /\ workers[w].fresh \subseteq Positions(f)
      /\ Positions(f) \subseteq Stored \union workers[w].fresh
  BY DEF CommitBatch, BatchInv, InFlightInv, AnswerInv, CheckedInv
<1>2. PICK left \in SUBSET workers[w].fresh :
        /\ rows' = rows \union {[batch |-> f.id, position |-> p, before |-> Stored] :
                                 p \in workers[w].fresh \ left}
        /\ refused' = refused \union left
  BY DEF CommitBatch
<1>3. Stored' = Stored \union (workers[w].fresh \ left)
  <2> DEFINE new == {[batch |-> f.id, position |-> p, before |-> Stored] :
                       p \in workers[w].fresh \ left}
  <2>1. {row.position : row \in new} = workers[w].fresh \ left
    <3>1. \A row \in new : row.position \in workers[w].fresh \ left
      OBVIOUS
    <3>2. ASSUME NEW q \in workers[w].fresh \ left
          PROVE  q \in {row.position : row \in new}
      <4> DEFINE row == [batch |-> f.id, position |-> q, before |-> Stored]
      <4>1. row \in new /\ row.position = q
        OBVIOUS
      <4> HIDE DEF row, new
      <4> QED
        BY <4>1
    <3> HIDE DEF new
    <3> QED
      BY <3>1, <3>2
  <2> HIDE DEF new
  <2>2. rows' = rows \union new
    BY <1>2 DEF new
  <2>3. {row.position : row \in rows \union new}
          = {row.position : row \in rows} \union {row.position : row \in new}
    OBVIOUS
  <2> QED
    BY <2>1, <2>2, <2>3 DEF Stored
<1> HIDE DEF f
<1>4. Settled' = Settled \union workers[w].fresh
  BY <1>2, <1>3 DEF Settled
<1>5. Settled' = Settled \union Positions(f)
  BY <1>1, <1>4 DEF Settled
<1> QED
  BY <1>1, <1>5 DEF f

\* Steps that neither transmit a batch nor commit one.
LEMMA SettlesNothing ==
  ASSUME Next, ~SendBatch, \A w \in Worker : ~CommitBatch(w)
  PROVE  UNCHANGED <<sent, rows, refused>> /\ Settled' = Settled
<1>1. UNCHANGED <<sent, rows, refused>>
  BY DEF Next, firmwareVars, hostVars, historyVars, PushObservation,
     BuildBatch, OverflowBatch, SendOther, PollAck, FinishRequest, ResponseTimeout, Reboot,
     LoseFrame, LoseAck, BridgeConnect, BridgeAnswer, BridgeForward, BridgeGiveUp,
     BridgeCrash, CheckDuplicates, FailBatch
<1> QED
  BY <1>1 DEF Settled, Stored

LEMMA SettledStep ==
  ASSUME TypeOK, BatchInv, BatchInv', AnswerInv, SettledInv, [Next]_vars
  PROVE  SettledInv'
<1>1. CASE SendBatch
  <2>1. PICK b : sent' = sent \union {b}
    BY <1>1 DEF SendBatch
  <2>2. Settled' = Settled
    BY <1>1 DEF SendBatch, BuildBatch, hostVars, Settled, Stored
  <2>3. b \notin sent => Positions(b) \intersect Settled = {}
    <3> SUFFICES ASSUME b \notin sent, NEW p \in Settled, p \in Positions(b) PROVE FALSE
      OBVIOUS
    <3>1. PICK f \in sent : p \in Positions(f)
      BY DEF SettledInv
    <3>2. f # b /\ f \in sent' /\ b \in sent'
      BY <2>1
    <3> QED
      BY <3>1, <3>2 DEF BatchInv, OneBatchPerObservation
  <2>4. \A f \in sent' :
          Positions(f) \subseteq Settled \/ Positions(f) \intersect Settled = {}
    BY <2>1, <2>3 DEF SettledInv
  <2>5. \A p \in Settled : \E f \in sent' : p \in Positions(f)
    BY <2>1 DEF SettledInv
  <2> QED
    BY <2>2, <2>4, <2>5 DEF SettledInv, Positions
<1>2. ASSUME NEW w \in Worker, CommitBatch(w) PROVE SettledInv'
  <2> DEFINE g == workers[w].frame
  <2>1. g \in sent /\ Settled' = Settled \union Positions(g) /\ sent' = sent
    BY <1>2, CommitSettles DEF CommitBatch, historyVars
  <2> HIDE DEF g
  <2>2. \A f \in sent : f # g => Positions(f) \intersect Positions(g) = {}
    BY <2>1 DEF BatchInv, OneBatchPerObservation
  <2>3. \A f \in sent :
          Positions(f) \subseteq Settled' \/ Positions(f) \intersect Settled' = {}
    BY <2>1, <2>2 DEF SettledInv
  <2>4. \A p \in Settled' : \E f \in sent : p \in Positions(f)
    BY <2>1 DEF SettledInv
  <2> QED
    BY <2>1, <2>3, <2>4 DEF SettledInv, Positions
<1>3. CASE UNCHANGED vars
  BY <1>3 DEF vars, hostVars, historyVars, SettledInv, Settled, Stored, Positions
<1>4. CASE Next /\ ~SendBatch /\ \A w \in Worker : ~CommitBatch(w)
  <2>1. sent' = sent /\ Settled' = Settled
    BY <1>4, SettlesNothing
  <2> QED
    BY <2>1 DEF SettledInv, Positions
<1> QED
  BY <1>1, <1>2, <1>3, <1>4

\* Steps that leave the history of the given-up observations.
LEMMA GivesUpNothing ==
  ASSUME Next, ~OverflowBatch, ~Reboot
  PROVE  UNCHANGED <<oversized, lost>>
BY DEF Next, firmwareVars, hostVars, historyVars, PushObservation, SendBatch,
   BuildBatch, SendOther, PollAck, FinishRequest, ResponseTimeout,
   LoseFrame, LoseAck, BridgeConnect, BridgeAnswer, BridgeForward, BridgeGiveUp,
   BridgeCrash, CheckDuplicates, CommitBatch, FailBatch

LEMMA GoneStep ==
  ASSUME TypeOK, BatchInv, GoneInv, [Next]_vars
  PROVE  GoneInv'
<1>0. /\ released \in Nat /\ admitted \in Nat /\ batchSize \in Nat
      /\ released <= admitted
  BY DEF TypeOK, BatchInv, CursorsOK
<1>1. CASE OverflowBatch
  <2>1. /\ lost' = lost
        /\ \/ released' = released /\ oversized' = oversized
           \/ released' = released + 1 /\ oversized' = oversized \union {released + 1}
    BY <1>1 DEF OverflowBatch, BuildBatch
  <2>2. 1 .. released \subseteq 1 .. released + 1 /\ released + 1 \in 1 .. released + 1
    BY <1>0
  <2> QED
    BY <2>1, <2>2 DEF GoneInv
<1>2. CASE Reboot
  <2>1. /\ released' = admitted /\ oversized' = {}
        /\ lost' = lost \union oversized \union (released + 1 .. admitted)
    BY <1>2 DEF Reboot
  <2>2. 1 .. released \subseteq 1 .. admitted /\ released + 1 .. admitted \subseteq 1 .. admitted
    BY <1>0
  <2> QED
    BY <2>1, <2>2 DEF GoneInv
<1>3. CASE ~OverflowBatch /\ ~Reboot
  <2>1. UNCHANGED <<oversized, lost>>
    BY <1>3, GivesUpNothing DEF vars, historyVars
  <2>2. released' = released \/ released' = released + batchSize
    BY <1>3 DEF Next, vars, firmwareVars, PushObservation, SendBatch, SendOther, PollAck,
       FinishRequest, ResponseTimeout, LoseFrame, LoseAck, BridgeConnect, BridgeAnswer,
       BridgeForward, BridgeGiveUp, BridgeCrash, CheckDuplicates, CommitBatch, FailBatch
  <2>3. 1 .. released \subseteq 1 .. released'
    BY <1>0, <2>2
  <2> QED
    BY <2>1, <2>3 DEF GoneInv
<1> QED
  BY <1>1, <1>2, <1>3

LEMMA DeliveryInvariant == ~StaleAcks => (Spec => []DeliveryInv)
<1> SUFFICES ASSUME ~StaleAcks PROVE Spec => []DeliveryInv
  OBVIOUS
<1>1. Init => TypeOK /\ BatchInv /\ AnswerInv /\ SettledInv /\ GoneInv
  <2>1. Init => SettledInv /\ GoneInv
    BY DEF Init, SettledInv, GoneInv, Settled, Stored
  <2> QED
    BY <2>1, TypeInit, BatchInit, AnswerInit, DeliveryAssumption
<1>2. DeliveryInv /\ [Next]_vars => DeliveryInv'
  <2> SUFFICES ASSUME DeliveryInv, [Next]_vars PROVE DeliveryInv'
    OBVIOUS
  <2>1. TypeOK' /\ BatchInv'
    <3>1. TypeOK'
      BY TypeStep, DeliveryAssumption DEF DeliveryInv, BatchInv
    <3> QED
      BY <3>1, BatchStep, DeliveryAssumption DEF DeliveryInv
  <2>2. AnswerInv'
    BY AnswerStep, DeliveryAssumption DEF DeliveryInv
  <2>3. SettledInv' /\ GoneInv'
    BY <2>1, SettledStep, GoneStep DEF DeliveryInv
  <2> QED
    BY <2>1, <2>2, <2>3 DEF DeliveryInv
<1> QED
  BY <1>1, <1>2, PTL DEF Spec, DeliveryInv

-----------------------------------------------------------------------------
(* Every step is one of BoundedDelivery, or changes nothing it speaks of.    *)

Unchanged == UNCHANGED <<admitted, Held, Settled, Gone>>

\* The instance has its own copy of the operator.
LEMMA SameCardinality ==
  ASSUME NEW S
  PROVE  Promise!Cardinality(S) = Cardinality(S)
BY Zenon DEF Promise!Cardinality, Cardinality

LEMMA HeldFits ==
  ASSUME TypeOK, BatchInv, DeliveryAssumption, admitted - taken < QueueSize
  PROVE  Cardinality(Held) < QueueSize + FrameCapacity
<1>1. /\ admitted \in Nat /\ taken \in Nat /\ released \in Nat
      /\ QueueSize \in Nat /\ FrameCapacity \in Nat
      /\ released <= taken /\ taken <= admitted /\ taken - released <= FrameCapacity
  BY DEF TypeOK, BatchInv, CursorsOK, DeliveryAssumption
<1>2. /\ IsFiniteSet(released + 1 .. admitted)
      /\ Cardinality(released + 1 .. admitted)
           = IF released + 1 > admitted THEN 0 ELSE admitted - (released + 1) + 1
  BY <1>1, FS_Interval
<1>3. Cardinality(released + 1 .. admitted) <= admitted - released
  BY <1>1, <1>2
<1>4. /\ Cardinality(Held) <= Cardinality(released + 1 .. admitted)
      /\ IsFiniteSet(Held)
  BY <1>2, FS_Subset DEF Held
<1>5. Cardinality(Held) \in Nat /\ Cardinality(released + 1 .. admitted) \in Nat
  BY <1>2, <1>4, FS_CardinalityType
<1> QED
  BY <1>1, <1>3, <1>4, <1>5

\* What is settled was transmitted, so it was taken from the queue.
LEMMA SettledWasTaken ==
  ASSUME TypeOK, BatchInv, SettledInv, NEW p \in Settled
  PROVE  p \in 1 .. taken /\ (batchId = 0 => p <= released)
<1>1. PICK f \in sent : p \in Positions(f)
  BY DEF SettledInv
<1>2. /\ f.first >= 1 /\ f.last <= taken /\ f.id \in 1 .. batchSequence
      /\ f.id # batchId => f.last <= released
  BY DEF BatchInv, SentInv
<1>3. /\ f.first \in Nat /\ f.last \in Nat /\ f.id # 0
      /\ taken \in Nat /\ released \in Nat /\ batchSequence \in Nat
  <2>1. f.first \in Nat /\ f.last \in Nat /\ taken \in Nat /\ released \in Nat
        /\ batchSequence \in Nat
    BY DEF TypeOK, Frame
  <2> QED
    BY <1>2, <2>1
<1> QED
  BY <1>1, <1>2, <1>3 DEF Positions

LEMMA PushImplements ==
  ASSUME DeliveryInv, DeliveryAssumption, PushObservation
  PROVE  Promise!Accept \/ Unchanged
<1>1. /\ TypeOK /\ BatchInv /\ SettledInv
      /\ admitted \in Nat /\ taken \in Nat /\ released \in Nat
      /\ released <= taken /\ taken <= admitted
  BY DEF DeliveryInv, TypeOK, BatchInv, CursorsOK
<1>2. /\ UNCHANGED <<released, oversized, lost>> /\ Settled' = Settled /\ Gone' = Gone
  BY DEF PushObservation, hostVars, historyVars, Settled, Stored, Gone
<1>3. CASE admitted' = admitted
  BY <1>2, <1>3 DEF Unchanged, Held
<1>4. CASE admitted' # admitted
  <2>1. admitted' = admitted + 1 /\ admitted - taken < QueueSize
    BY <1>4 DEF PushObservation
  <2>2. admitted + 1 \notin Settled
    BY <1>1, SettledWasTaken
  <2>3. Held' = Held \union {admitted + 1}
    <3>1. released + 1 .. admitted + 1 = (released + 1 .. admitted) \union {admitted + 1}
      BY <1>1
    <3> QED
      BY <1>2, <2>1, <2>2, <3>1 DEF Held
  <2>4. Cardinality(Held) < QueueSize + FrameCapacity
    BY <1>1, <2>1, HeldFits
  <2> QED
    <3>1. Promise!Cardinality((released + 1 .. admitted) \ Settled)
            < QueueSize + FrameCapacity
      BY <2>4, SameCardinality DEF Held
    <3>2. ((released + 1 .. admitted) \ Settled)'
            = ((released + 1 .. admitted) \ Settled) \union {admitted + 1}
      BY <2>3 DEF Held
    <3>3. Settled' = Settled
          /\ ((oversized \union lost) \ Settled)' = (oversized \union lost) \ Settled
      BY <1>2 DEF Gone
    <3> QED
      BY <2>1, <3>1, <3>2, <3>3, Zenon DEF Promise!Accept
<1> QED
  BY <1>3, <1>4

LEMMA OverflowImplements ==
  ASSUME DeliveryInv, DeliveryAssumption, OverflowBatch
  PROVE  Promise!Discard \/ Unchanged
<1>1. /\ TypeOK /\ BatchInv /\ SettledInv /\ GoneInv
      /\ admitted \in Nat /\ taken \in Nat /\ released \in Nat /\ batchSize \in Nat
      /\ released <= taken /\ taken <= admitted /\ batchId <= batchSequence
  BY DEF DeliveryInv, TypeOK, BatchInv, CursorsOK
<1>2. PICK refill, capacity \in 1 .. FrameCapacity :
        /\ BuildBatch(refill)
        /\ ~Fits(NextBatch(refill, capacity).first, NextBatch(refill, capacity).last)
        /\ \/ released' = released /\ oversized' = oversized
           \/ released' = released + 1 /\ oversized' = oversized \union {released + 1}
  BY DEF OverflowBatch
<1>3. /\ admitted' = admitted /\ lost' = lost /\ Settled' = Settled
  BY <1>2 DEF OverflowBatch, BuildBatch, hostVars, Settled, Stored
<1>4. CASE released' = released /\ oversized' = oversized
  BY <1>3, <1>4 DEF Unchanged, Held, Gone
<1>5. CASE released' = released + 1 /\ oversized' = oversized \union {released + 1}
  <2>1. batchId = 0
    <3>1. batchId # 0 => NextBatch(refill, capacity) = CurrentBatch
      BY <1>1, <1>2, BatchTypes DEF BuildBatch, BatchInv
    <3> QED
      BY <1>2, <3>1 DEF DeliveryInv, BatchInv, CurrentBatch
  <2>2. TakenAfterRefill(refill) <= admitted /\ TakenAfterRefill(refill) > released
        /\ TakenAfterRefill(refill) \in Nat
    BY <1>1, <1>2, BatchTypes DEF BuildBatch, BatchInv
  <2>3. released + 1 \notin Settled
    <3> SUFFICES ASSUME released + 1 \in Settled PROVE FALSE
      OBVIOUS
    <3>1. released + 1 <= released
      BY <1>1, <2>1, SettledWasTaken
    <3> QED
      BY <1>1, <3>1
  <2>4. released + 1 \in released + 1 .. admitted
    BY <1>1, <2>2
  <2>5. \A q \in released + 1 .. admitted : released + 1 <= q
    OBVIOUS
  <2>6. (released + 1) + 1 .. admitted = (released + 1 .. admitted) \ {released + 1}
    BY <1>1
  <2>7. released + 1 \in Held /\ (\A q \in Held : released + 1 <= q)
        /\ Held' = Held \ {released + 1} /\ Gone' = Gone \union {released + 1}
    BY <1>3, <1>5, <2>3, <2>4, <2>5, <2>6 DEF Held, Gone
  <2> QED
    BY <1>3, <2>7 DEF Promise!Discard, Held, Gone
<1> QED
  BY <1>2, <1>4, <1>5

LEMMA RebootImplements ==
  ASSUME DeliveryInv, Reboot
  PROVE  Promise!Reset
<1>1. admitted \in Nat
  BY DEF DeliveryInv, TypeOK
<1>2. /\ admitted' = admitted /\ released' = admitted /\ oversized' = {}
      /\ lost' = lost \union oversized \union (released + 1 .. admitted)
      /\ Settled' = Settled
  BY DEF Reboot, Settled, Stored
<1>3. admitted + 1 .. admitted = {}
  BY <1>1
<1>4. Held' = {} /\ Gone' = Gone \union Held
  BY <1>2, <1>3 DEF Held, Gone
<1> QED
  BY <1>2, <1>4 DEF Promise!Reset, Held, Gone

\* A 2xx answer to the batch releases what is settled.
LEMMA FinishImplements ==
  ASSUME DeliveryInv, FinishRequest
  PROVE  Unchanged
<1>1. /\ admitted \in Nat /\ released \in Nat /\ batchSize \in Nat /\ BatchInv /\ AnswerInv
  BY DEF DeliveryInv, TypeOK
<1>2. /\ admitted' = admitted /\ Settled' = Settled /\ Gone' = Gone
  BY DEF FinishRequest, hostVars, historyVars, Settled, Stored, Gone
<1>3. CASE response = "ok" /\ request.id > 0
  <2>1. released' = released + batchSize
    BY <1>3 DEF FinishRequest
  <2>2. FrameSettled(request) /\ request = CurrentBatch
    BY <1>1, <1>3 DEF AnswerInv, AckInv, BatchInv, InFlightInv
  <2>3. released + 1 .. released + batchSize \subseteq Settled
    BY <2>2 DEF FrameSettled, Positions, CurrentBatch
  <2>4. \A p : p \in released + 1 .. admitted /\ p \notin released + 1 .. released + batchSize
                 <=> p \in (released + batchSize) + 1 .. admitted
    BY <1>1
  <2>5. Held' = Held
    BY <1>2, <2>1, <2>3, <2>4 DEF Held
  <2> QED
    BY <1>2, <2>5 DEF Unchanged
<1>4. CASE ~(response = "ok" /\ request.id > 0)
  BY <1>2, <1>4 DEF FinishRequest, Unchanged, Held
<1> QED
  BY <1>3, <1>4

\* A commit of the batch under retry delivers the oldest that are held; one of
\* an older batch delivers what was given up, or repeats what is settled.
LEMMA CommitImplements ==
  ASSUME DeliveryInv, NEW w \in Worker, CommitBatch(w)
  PROVE  Promise!Deliver \/ Promise!DeliverLate \/ Unchanged
<1>1. /\ TypeOK /\ BatchInv /\ AnswerInv /\ SettledInv /\ GoneInv
      /\ admitted \in Nat /\ taken \in Nat /\ released \in Nat
      /\ batchId \in Nat /\ batchSize \in Nat
      /\ released <= taken /\ taken <= admitted /\ batchSize <= taken - released
      /\ batchId # 0 => batchSize > 0
  BY DEF DeliveryInv, TypeOK, BatchInv, CursorsOK
<1>2. PICK f \in sent : Settled' = Settled \union Positions(f)
  BY <1>1, CommitSettles
<1>3. UNCHANGED <<admitted, released, oversized, lost>>
  BY DEF CommitBatch, firmwareVars, historyVars
<1>4. CASE Positions(f) \subseteq Settled
  <2>1. Settled' = Settled
    BY <1>2, <1>4
  <2> QED
    BY <1>3, <2>1 DEF Unchanged, Held, Gone
<1>5. CASE ~(Positions(f) \subseteq Settled)
  <2>1. Positions(f) \intersect Settled = {} /\ Positions(f) # {}
    BY <1>1, <1>5 DEF SettledInv
  <2>2. CASE f.id = batchId
    <3>1. f = CurrentBatch /\ batchId # 0
      BY <1>1, <2>2 DEF BatchInv, SentInv, OneBatchPerObservation, TypeOK, Frame
    <3>2. Positions(f) = released + 1 .. released + batchSize
      BY <3>1 DEF Positions, CurrentBatch
    <3>3. /\ released + batchSize \in released + 1 .. admitted
          /\ {q \in released + 1 .. admitted : q <= released + batchSize}
               = released + 1 .. released + batchSize
          /\ (released + 1 .. released + batchSize) \intersect (1 .. released) = {}
      BY <1>1, <3>1
    <3>4. released + batchSize \in Held
      BY <2>1, <3>2, <3>3, <1>1, <3>1 DEF Held
    <3>5. {q \in Held : q <= released + batchSize} = Positions(f)
      BY <2>1, <3>2, <3>3 DEF Held
    <3>6. Held' = Held \ Positions(f)
      BY <1>2, <1>3 DEF Held
    <3>7. Gone' = Gone
      BY <1>1, <1>2, <1>3, <3>2, <3>3 DEF Gone, GoneInv
    <3> QED
      BY <1>2, <1>3, <3>4, <3>5, <3>6, <3>7 DEF Promise!Deliver, Held, Gone
  <2>3. CASE f.id # batchId
    <3>1. f.first >= 1 /\ f.last <= released /\ f.first \in Nat /\ f.last \in Nat
      BY <1>1, <2>3 DEF BatchInv, SentInv, TypeOK, Frame
    <3>2. Positions(f) \subseteq 1 .. released
      BY <1>1, <3>1 DEF Positions
    <3>3. Positions(f) \subseteq Gone
      BY <1>1, <2>1, <3>2 DEF AnswerInv, RetainedUntilSettled, Gone
    <3>4. Gone' = Gone \ Positions(f)
      BY <1>2, <1>3 DEF Gone
    <3>5. (1 .. released) \intersect (released + 1 .. admitted) = {}
      BY <1>1
    <3>6. Held' = Held
      BY <1>2, <1>3, <3>2, <3>5 DEF Held
    <3>7. Positions(f) \in (SUBSET Gone) \ {{}}
      BY <2>1, <3>3
    <3> QED
      BY <1>2, <1>3, <3>4, <3>6, <3>7 DEF Promise!DeliverLate, Held, Gone
  <2> QED
    BY <2>2, <2>3
<1> QED
  BY <1>4, <1>5

\* What the transport task does between two answers, the line, the bridge and
\* an abandoned transaction change nothing that the promise speaks of.
LEMMA OthersImplement ==
  ASSUME [Next]_vars, ~PushObservation, ~OverflowBatch, ~Reboot, ~FinishRequest,
         \A w \in Worker : ~CommitBatch(w)
  PROVE  Unchanged
<1>1. UNCHANGED <<admitted, released, oversized, lost, rows, refused>>
  BY DEF Next, vars, firmwareVars, hostVars, historyVars, SendBatch, BuildBatch,
     SendOther, PollAck, ResponseTimeout, LoseFrame, LoseAck, BridgeConnect,
     BridgeAnswer, BridgeForward, BridgeGiveUp, BridgeCrash, CheckDuplicates, FailBatch
<1> QED
  BY <1>1 DEF Unchanged, Held, Gone, Settled, Stored

\* With answers that do not outlive their requests, every behaviour of the
\* path is one of the bounded store-and-forward queue: uploadBatch and
\* process_batch together deliver oldest first, and give nothing up otherwise
\* than by dropping the oldest oversized observation or by a reset.
THEOREM Implements == ~StaleAcks => (Spec => DeliversInOrder)
<1> SUFFICES ASSUME ~StaleAcks PROVE Spec => DeliversInOrder
  OBVIOUS
<1>1. Init => Promise!Init
  BY DEF Init, Promise!Init, Settled, Stored
<1>2. DeliveryInv /\ [Next]_vars => [Promise!Next]_(Promise!vars)
  <2> SUFFICES ASSUME DeliveryInv, [Next]_vars
               PROVE  [Promise!Next]_(Promise!vars)
    OBVIOUS
  <2>1. Promise!Next \/ Unchanged
    <3>1. CASE PushObservation
      BY <3>1, PushImplements, DeliveryAssumption DEF Promise!Next
    <3>2. CASE OverflowBatch
      BY <3>2, OverflowImplements, DeliveryAssumption DEF Promise!Next
    <3>3. CASE Reboot
      BY <3>3, RebootImplements DEF Promise!Next
    <3>4. CASE FinishRequest
      BY <3>4, FinishImplements
    <3>5. ASSUME NEW w \in Worker, CommitBatch(w)
          PROVE  Promise!Next \/ Unchanged
      BY <3>5, CommitImplements DEF Promise!Next
    <3> QED
      BY <3>1, <3>2, <3>3, <3>4, <3>5, OthersImplement
  <2>2. Unchanged => UNCHANGED Promise!vars
    BY DEF Unchanged, Held, Gone, Promise!vars
  <2> QED
    BY <2>1, <2>2
<1>3. Spec => []DeliveryInv
  BY DeliveryInvariant
<1> QED
  BY <1>1, <1>2, <1>3, PTL DEF Spec, DeliversInOrder, Promise!Spec

-----------------------------------------------------------------------------
(* What the promise amounts to for the scanner and the database.            *)

\* Every observation is in the scanner, or in the backend's books, or given up;
\* what is in the scanner is younger than all the others, and has room there.
HeldLast ==
  /\ Held \union Settled \union Gone = 1 .. admitted
  /\ \A p \in Held, q \in Settled \union Gone : q < p
  /\ Cardinality(Held) <= QueueSize + FrameCapacity

LEMMA HeldIsLast ==
  ASSUME DeliveryInv, DeliveryAssumption
  PROVE  HeldLast
<1>1. /\ TypeOK /\ BatchInv /\ AnswerInv /\ SettledInv /\ GoneInv
      /\ admitted \in Nat /\ taken \in Nat /\ released \in Nat
      /\ batchId \in Nat /\ batchSize \in Nat
      /\ released <= taken /\ taken <= admitted /\ taken - released <= FrameCapacity
      /\ admitted - taken <= QueueSize /\ QueueSize \in Nat /\ FrameCapacity \in Nat
  BY DEF DeliveryInv, TypeOK, BatchInv, CursorsOK, DeliveryAssumption
<1>2. \A q \in Settled : q \in 1 .. admitted
  <2> SUFFICES ASSUME NEW q \in Settled PROVE q \in 1 .. admitted
    OBVIOUS
  <2>1. q \in 1 .. taken
    BY <1>1, SettledWasTaken
  <2> QED
    BY <1>1, <2>1
<1>3. Held \union Settled \union Gone = 1 .. admitted
  <2>1. 1 .. admitted = (1 .. released) \union (released + 1 .. admitted)
    BY <1>1
  <2>2. Gone \subseteq 1 .. released
    BY <1>1 DEF GoneInv, Gone
  <2>3. 1 .. released \subseteq Settled \union Gone
    BY <1>1 DEF AnswerInv, RetainedUntilSettled, Gone
  <2>4. released + 1 .. admitted \subseteq Settled \union Held
    BY DEF Held
  <2>5. Held \subseteq released + 1 .. admitted
    BY DEF Held
  <2> QED
    BY <1>2, <2>1, <2>2, <2>3, <2>4, <2>5
\* A settled observation behind the cursor is older; one ahead of it belongs to
\* the batch under retry, all of which is settled.
<1>4. ASSUME NEW p \in Held, NEW q \in Settled PROVE q < p
  <2>1. p \in released + 1 .. admitted /\ p \notin Settled
    BY DEF Held
  <2>2. PICK f \in sent : q \in Positions(f)
    BY <1>1 DEF SettledInv
  <2>3. Positions(f) \subseteq Settled
    BY <1>1, <2>2 DEF SettledInv
  <2>4. f.first \in Nat /\ f.last \in Nat
    BY <1>1 DEF TypeOK, Frame
  <2>5. CASE f.id = batchId
    <3>1. Positions(f) = released + 1 .. released + batchSize
      BY <1>1, <2>5 DEF BatchInv, SentInv, Positions, CurrentBatch
    <3>2. p \notin released + 1 .. released + batchSize
      BY <2>1, <2>3, <3>1
    <3> QED
      BY <1>1, <2>1, <2>2, <3>1, <3>2
  <2>6. CASE f.id # batchId
    <3>1. f.last <= released
      BY <1>1, <2>6 DEF BatchInv, SentInv
    <3> QED
      BY <1>1, <2>1, <2>2, <2>4, <3>1 DEF Positions
  <2> QED
    BY <2>5, <2>6
<1>5. ASSUME NEW p \in Held, NEW q \in Gone PROVE q < p
  <2>1. p \in released + 1 .. admitted /\ q \in 1 .. released
    BY <1>1 DEF Held, Gone, GoneInv
  <2> QED
    BY <1>1, <2>1
<1>6. Cardinality(Held) <= QueueSize + FrameCapacity
  <2>1. /\ IsFiniteSet(released + 1 .. admitted)
        /\ Cardinality(released + 1 .. admitted)
             = IF released + 1 > admitted THEN 0 ELSE admitted - (released + 1) + 1
    BY <1>1, FS_Interval
  <2>2. /\ Cardinality(Held) <= Cardinality(released + 1 .. admitted)
        /\ IsFiniteSet(Held)
    BY <2>1, FS_Subset DEF Held
  <2>3. Cardinality(Held) \in Nat /\ Cardinality(released + 1 .. admitted) \in Nat
    BY <2>1, <2>2, FS_CardinalityType
  <2>4. Cardinality(released + 1 .. admitted) <= QueueSize + FrameCapacity
    BY <1>1, <2>1
  <2> QED
    BY <1>1, <2>2, <2>3, <2>4
<1> QED
  BY <1>3, <1>4, <1>5, <1>6 DEF HeldLast

\* No observation disappears on the way: uploadBatch and process_batch leave each
\* one held, settled or given up, and never reach one before an older one.
THEOREM OldestFirst == ~StaleAcks => (Spec => []HeldLast)
<1> SUFFICES ASSUME ~StaleAcks PROVE Spec => []HeldLast
  OBVIOUS
<1>1. DeliveryInv => HeldLast
  BY HeldIsLast, DeliveryAssumption
<1> QED
  BY <1>1, DeliveryInvariant, PTL
=============================================================================
