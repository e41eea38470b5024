------------------------- MODULE ObservationDelivery -------------------------
(***************************************************************************)
(* The way of a normal observation from the radio callback to its database *)
(* row: the scanner's ring buffer and in-flight batch (firmware            *)
(* uploadBatch), the stop-and-wait exchange over the USB serial line       *)
(* (httpRequestJson / pollSerialControl against serial_bridge.py), and the *)
(* backend's idempotent ingestion (process_batch).                         *)
(*                                                                         *)
(* An observation is the absolute position it got in the ring buffer, so   *)
(* bufferCount = admitted - taken and the in-flight buffer holds the       *)
(* positions released + 1 .. taken.  A batch is an interval of positions.  *)
(***************************************************************************)
EXTENDS Integers, Sequences, FiniteSets

CONSTANTS
  QueueSize,      \* OBSERVATION_BUFFER_SIZE
  FrameCapacity,  \* MAX_SERIAL_FRAME_OBSERVATIONS
  Fits(_, _),     \* whether positions first .. last serialise within the
                  \* static JSON capacity: a function of their content
  Worker,         \* request threads of the backend
  StaleAcks,      \* may an ACK arrive after the request it answers is over?
  MaxAdmitted,    \* bound: observations offered to the queue
  MaxDropped,     \* bound: the drop counter saturates here
  MaxReboots,     \* bound: resets of the scanner
  MaxFrames       \* bound: frames on the serial line at once

ASSUME DeliveryAssumption ==
  /\ QueueSize \in Nat \ {0}
  /\ FrameCapacity \in Nat \ {0}
  /\ \A first, last \in 1 .. MaxAdmitted : Fits(first, last) \in BOOLEAN
  /\ StaleAcks \in BOOLEAN
  /\ MaxAdmitted \in Nat
  /\ MaxDropped \in Nat
  /\ MaxReboots \in Nat
  /\ MaxFrames \in Nat \ {0}

VARIABLES
  \* firmware: queue and in-flight batch
  admitted,             \* absolute ring head
  taken,                \* absolute ring tail
  released,             \* last position that left the in-flight buffer
  batchId,              \* pendingBatchId, 0 when empty
  batchSize,            \* pendingBatchSize
  batchSequence,        \* identifiers made so far (makeId never repeats one)
  droppedObservations,
  reboots,
  \* firmware: the exchange in progress
  request,              \* the frame httpRequestJson waits on, or NoRequest
  response,             \* bridgeResponseReady and bridgeResponseStatus
  \* serial line and host
  frames,               \* frames on their way to the bridge
  acks,                 \* ACK lines on their way to the firmware
  bridge,               \* the bridge process
  workers,              \* requests inside the backend
  \* database
  rows,                 \* observations table
  refused,              \* ignored, or recorded in processing_errors
  \* history of what happened, read by no action of the program
  sent,                 \* observation frames ever transmitted
  oversized,            \* dropped because one alone overflows the JSON document
  lost                  \* in RAM when the scanner reset

firmwareVars == <<admitted, taken, released, batchId, batchSize, batchSequence,
                  droppedObservations, reboots>>
hostVars == <<bridge, workers, rows, refused>>
historyVars == <<sent, oversized, lost>>
vars == <<firmwareVars, request, response, frames, acks, hostVars, historyVars>>

-----------------------------------------------------------------------------
(* Messages.  A frame of another path (heartbeat, config, focus batch, GATT  *)
(* report) is NoObservations: it carries the empty interval.  An ACK line    *)
(* is a status, "ok" for 2xx: it does not say which request it answers.      *)

Frame == [id : Nat, first : Nat, last : Nat]
NoObservations == [id |-> 0, first |-> 1, last |-> 0]
NoRequest == [id |-> -1, first |-> 1, last |-> 0]
Status == {"ok", "failed"}

Positions(frame) == frame.first .. frame.last

IdleWorker == [phase |-> "idle", frame |-> NoRequest, fresh |-> {}, awaited |-> FALSE]
WorkerState ==
  [phase : {"idle"}, frame : {NoRequest}, fresh : {{}}, awaited : {FALSE}] \union
  [phase : {"received", "checked"}, frame : Frame, fresh : SUBSET Nat, awaited : BOOLEAN]

\* before is what the table held when the row was inserted: it tells two
\* copies of one observation apart.
Row == [batch : Nat, position : Nat, before : SUBSET Nat]
Stored == {row.position : row \in rows}
Settled == Stored \union refused

Smaller(m, n) == IF m < n THEN m ELSE n

-----------------------------------------------------------------------------
Init ==
  /\ admitted = 0 /\ taken = 0 /\ released = 0
  /\ batchId = 0 /\ batchSize = 0 /\ batchSequence = 0
  /\ droppedObservations = 0 /\ reboots = 0
  /\ request = NoRequest /\ response = "none"
  /\ frames = <<>> /\ acks = <<>>
  /\ bridge = "down"
  /\ workers = [w \in Worker |-> IdleWorker]
  /\ rows = {} /\ refused = {}
  /\ sent = {} /\ oversized = {} /\ lost = {}

(***************************************************************************)
(* The radio callback.  A full queue refuses the new observation, so that  *)
(* what is queued keeps its order.                                         *)
(***************************************************************************)
PushObservation ==
  /\ admitted < MaxAdmitted
  /\ \/ /\ admitted - taken < QueueSize
        /\ admitted' = admitted + 1
        /\ UNCHANGED droppedObservations
     \/ /\ admitted - taken = QueueSize
        /\ droppedObservations < MaxDropped
        /\ droppedObservations' = droppedObservations + 1
        /\ UNCHANGED admitted
  /\ UNCHANGED <<taken, released, batchId, batchSize, batchSequence, reboots,
                 request, response, frames, acks, hostVars, historyVars>>

(***************************************************************************)
(* The transport task.  NextBatch is the batch uploadBatch works on: the   *)
(* one it retries, or else one made from the in-flight buffer, refilled    *)
(* from the queue only when empty.  refill and capacity are the configured *)
(* batch size, which the code reads twice and the configuration that       *)
(* loop() applies may change in between, as between any two calls.         *)
(***************************************************************************)
\* Fault: refills an in-flight buffer that is not empty.
RefillOnTop(refill) ==
  IF batchId = 0 THEN taken + Smaller(admitted - taken, refill) ELSE taken

TakenAfterRefill(refill) ==
  IF batchId = 0 /\ taken = released
    THEN taken + Smaller(admitted - taken, refill)
    ELSE taken

\* Fault: a retry gets a new identifier.
RetryRenamed(refill, capacity) ==
  LET pending == TakenAfterRefill(refill) - released
      limit == IF batchSize > 0 THEN batchSize ELSE capacity
  IN [id |-> batchSequence + 1, first |-> released + 1,
      last |-> released + Smaller(pending, limit)]

NextBatch(refill, capacity) ==
  LET pending == TakenAfterRefill(refill) - released
      limit == IF batchSize > 0 THEN batchSize ELSE capacity
  IN IF batchId # 0
       THEN [id |-> batchId, first |-> released + 1, last |-> released + batchSize]
       ELSE [id |-> batchSequence + 1, first |-> released + 1,
             last |-> released + Smaller(pending, limit)]

\* What both outcomes of building the JSON document have in common.
BuildBatch(refill) ==
  /\ request = NoRequest
  /\ TakenAfterRefill(refill) > released
  /\ taken' = TakenAfterRefill(refill)
  /\ batchSequence' = IF batchId = 0 THEN batchSequence + 1 ELSE batchSequence
  /\ UNCHANGED <<admitted, reboots, acks, hostVars, lost>>

\* httpRequestJson: forget any earlier response, write the frame.  With the
\* port closed on the host side the bytes go nowhere.
Transmit(frame) ==
  /\ Len(frames) < MaxFrames
  /\ request' = frame
  /\ response' = "none"
  /\ frames' = IF bridge = "down" THEN frames ELSE Append(frames, frame)

SendBatch ==
  /\ \E refill, capacity \in 1 .. FrameCapacity :
       LET batch == NextBatch(refill, capacity)
       IN /\ BuildBatch(refill)
          /\ Fits(batch.first, batch.last)
          /\ Transmit(batch)
          /\ batchId' = batch.id
          /\ batchSize' = batch.last - released
          /\ sent' = sent \union {batch}
  /\ UNCHANGED <<released, droppedObservations, oversized>>

\* The document overflowed: halve the batch under a new identifier, or drop
\* an observation that does not fit on its own.
OverflowBatch ==
  /\ \E refill, capacity \in 1 .. FrameCapacity :
       LET batch == NextBatch(refill, capacity)
           size == batch.last - released
       IN /\ BuildBatch(refill)
          /\ ~Fits(batch.first, batch.last)
          /\ batchId' = 0
          /\ \/ /\ size > 1
                /\ batchSize' = size \div 2
                /\ UNCHANGED <<released, droppedObservations, oversized>>
             \/ /\ size = 1
                /\ batchSize' = 0
                /\ released' = released + 1
                /\ droppedObservations' = Smaller(droppedObservations + 1, MaxDropped)
                /\ oversized' = oversized \union {released + 1}
  /\ UNCHANGED <<request, response, frames, sent>>

\* A heartbeat, configuration, focus or GATT request takes the line.
SendOther ==
  /\ request = NoRequest
  /\ Transmit(NoObservations)
  /\ UNCHANGED <<firmwareVars, acks, hostVars, historyVars>>

\* pollSerialControl reads one ACK line: whatever it answers, it becomes the
\* response.  It runs while a request waits and between requests.
PollAck ==
  /\ acks # <<>>
  /\ response' = Head(acks)
  /\ acks' = Tail(acks)
  /\ UNCHANGED <<firmwareVars, request, frames, hostVars, historyVars>>

\* Fault: releases the batch whatever the status.
FinishIgnoringStatus ==
  /\ request # NoRequest
  /\ response # "none"
  /\ request' = NoRequest
  /\ response' = "none"
  /\ IF request.id > 0
       THEN released' = released + batchSize /\ batchId' = 0 /\ batchSize' = 0
       ELSE UNCHANGED <<released, batchId, batchSize>>
  /\ UNCHANGED <<admitted, taken, batchSequence, droppedObservations, reboots,
                 frames, acks, hostVars, historyVars>>

\* Fault: a 2xx answer empties the in-flight buffer, not the batch alone.
FinishReleasingBuffer ==
  /\ request # NoRequest
  /\ response # "none"
  /\ request' = NoRequest
  /\ response' = "none"
  /\ IF response = "ok" /\ request.id > 0
       THEN released' = taken /\ batchId' = 0 /\ batchSize' = 0
       ELSE UNCHANGED <<released, batchId, batchSize>>
  /\ UNCHANGED <<admitted, taken, batchSequence, droppedObservations, reboots,
                 frames, acks, hostVars, historyVars>>

\* waitForBridgeResponse returns and uploadBatch acts on the status.
FinishRequest ==
  /\ request # NoRequest
  /\ response # "none"
  /\ request' = NoRequest
  /\ response' = "none"
  /\ IF response = "ok" /\ request.id > 0
       THEN /\ released' = released + batchSize
            /\ batchId' = 0
            /\ batchSize' = 0
       ELSE UNCHANGED <<released, batchId, batchSize>>
  /\ UNCHANGED <<admitted, taken, batchSequence, droppedObservations, reboots,
                 frames, acks, hostVars, historyVars>>

\* Fault: the timeout starts the wait again instead of ending it.
WaitAgain ==
  /\ request # NoRequest
  /\ response = "none"
  /\ UNCHANGED vars

\* SERIAL_BRIDGE_RESPONSE_TIMEOUT_MS passes: the batch stays as it is.  Unless
\* answers may come late, it passes only when no answer can come any more.
ResponseTimeout ==
  /\ request # NoRequest
  /\ response = "none"
  /\ ~StaleAcks => frames = <<>> /\ acks = <<>> /\ bridge # "forwarding"
  /\ request' = NoRequest
  /\ UNCHANGED <<firmwareVars, response, frames, acks, hostVars, historyVars>>

\* No backend thread has a bridge that waits for it.
Unawaited == [w \in Worker |-> [workers[w] EXCEPT !.awaited = FALSE]]

\* The scanner resets: all of its RAM is lost, the new boot identifier keeps
\* later batch identifiers distinct.  Unless answers may come late, nothing
\* that the previous boot asked is answered to the new one.
Reboot ==
  /\ reboots < MaxReboots
  /\ reboots' = reboots + 1
  /\ lost' = lost \union oversized \union (released + 1 .. admitted)
  /\ oversized' = {}
  /\ taken' = admitted /\ released' = admitted
  /\ batchId' = 0 /\ batchSize' = 0
  /\ droppedObservations' = 0
  /\ request' = NoRequest /\ response' = "none"
  /\ acks' = <<>>
  /\ IF StaleAcks
       THEN UNCHANGED <<frames, bridge, workers>>
       ELSE /\ frames' = <<>>
            /\ bridge' = IF bridge = "down" THEN "down" ELSE "reading"
            /\ workers' = Unawaited
  /\ UNCHANGED <<admitted, batchSequence, rows, refused, sent>>

(***************************************************************************)
(* The serial line.  A frame whose markers are damaged is not a frame; an  *)
(* ACK line that is damaged, or cut by the 4096-byte limit, is not an ACK. *)
(***************************************************************************)
LoseFrame ==
  /\ frames # <<>>
  /\ frames' = Tail(frames)
  /\ UNCHANGED <<firmwareVars, request, response, acks, hostVars, historyVars>>

LoseAck ==
  /\ acks # <<>>
  /\ acks' = Tail(acks)
  /\ UNCHANGED <<firmwareVars, request, response, frames, hostVars, historyVars>>

(***************************************************************************)
(* The bridge: one thread, no reads while it forwards.                     *)
(***************************************************************************)
BridgeConnect ==
  /\ bridge = "down"
  /\ bridge' = "reading"
  /\ UNCHANGED <<firmwareVars, request, response, frames, acks, workers, rows,
                 refused, historyVars>>

\* forward_frame answers without HTTP (a document that does not parse, 400),
\* or the request is another path's, whose outcome is not followed here.
BridgeAnswer ==
  /\ bridge = "reading"
  /\ frames # <<>>
  /\ frames' = Tail(frames)
  /\ \E status \in Status :
       /\ status = "ok" => Head(frames).id = 0
       /\ acks' = Append(acks, status)
  /\ UNCHANGED <<firmwareVars, request, response, hostVars, historyVars>>

BridgeForward ==
  /\ bridge = "reading"
  /\ frames # <<>>
  /\ Head(frames).id # 0
  /\ \E w \in Worker :
       /\ workers[w].phase = "idle"
       /\ workers' = [workers EXCEPT ![w] =
            [phase |-> "received", frame |-> Head(frames), fresh |-> {}, awaited |-> TRUE]]
  /\ bridge' = "forwarding"
  /\ frames' = Tail(frames)
  /\ UNCHANGED <<firmwareVars, request, response, acks, rows, refused, historyVars>>

\* DEFAULT_BACKEND_TIMEOUT_SECONDS, or the connection broke: status 0.  The
\* backend thread is not told.
BridgeGiveUp ==
  /\ bridge = "forwarding"
  /\ bridge' = "reading"
  /\ workers' = Unawaited
  /\ acks' = Append(acks, "failed")
  /\ UNCHANGED <<firmwareVars, request, response, frames, rows, refused, historyVars>>

\* The port fails or the process ends: what it had not read is gone.
BridgeCrash ==
  /\ bridge # "down"
  /\ bridge' = "down"
  /\ frames' = <<>>
  /\ workers' = Unawaited
  /\ UNCHANGED <<firmwareVars, request, response, acks, rows, refused, historyVars>>

(***************************************************************************)
(* The backend: process_batch in a request thread.  The duplicate query    *)
(* and the commit are separate steps, other threads run in between.        *)
(***************************************************************************)
\* process_observation asks, per observation, whether it is stored already.
CheckDuplicates(w) ==
  /\ workers[w].phase = "received"
  /\ workers' = [workers EXCEPT ![w] =
       [@ EXCEPT !.phase = "checked", !.fresh = Positions(workers[w].frame) \ Stored]]
  /\ UNCHANGED <<firmwareVars, request, response, frames, acks, bridge, rows,
                 refused, historyVars>>

\* Fault: the thread keeps the request it has answered.
AnswerOnly(w, status) ==
  /\ workers' = [workers EXCEPT ![w].phase = "idle"]
  /\ IF workers[w].awaited
       THEN /\ bridge' = "reading"
            /\ acks' = Append(acks, status)
       ELSE UNCHANGED <<bridge, acks>>

\* The answer reaches the bridge if it still waits for this thread.
Answer(w, status) ==
  /\ workers' = [workers EXCEPT ![w] = IdleWorker]
  /\ IF workers[w].awaited
       THEN /\ bridge' = "reading"
            /\ acks' = Append(acks, status)
       ELSE UNCHANGED <<bridge, acks>>

\* Fault: no uniqueness constraint on the table.
NoConflict(new) == FALSE

\* uq_observation_scanner_batch_item
Conflicts(new) ==
  \E n \in new, row \in rows : n.batch = row.batch /\ n.position = row.position

\* One transaction.  An observation that raises, or that is ignored, is left
\* out of it without failing the batch.  What the handler does after the commit
\* (refresh_tracking_targets_for_scanner) may still fail the request.
CommitBatch(w) ==
  /\ workers[w].phase = "checked"
  /\ \E left \in SUBSET workers[w].fresh :
       LET new == {[batch |-> workers[w].frame.id, position |-> p, before |-> Stored] :
                     p \in workers[w].fresh \ left}
       IN /\ ~Conflicts(new)
          /\ rows' = rows \union new
          /\ refused' = refused \union left
  /\ \E status \in Status : Answer(w, status)
  /\ UNCHANGED <<firmwareVars, request, response, frames, historyVars>>

\* Rejected before processing (401, 422), a constraint or lock error, or the
\* server stopped: nothing is committed, the status is not 2xx.
FailBatch(w) ==
  /\ workers[w].phase # "idle"
  /\ Answer(w, "failed")
  /\ UNCHANGED <<firmwareVars, request, response, frames, rows, refused, historyVars>>

Next ==
  \/ PushObservation \/ SendBatch \/ OverflowBatch \/ SendOther
  \/ PollAck \/ FinishRequest \/ ResponseTimeout \/ Reboot
  \/ LoseFrame \/ LoseAck
  \/ BridgeConnect \/ BridgeAnswer \/ BridgeForward \/ BridgeGiveUp \/ BridgeCrash
  \/ \E w \in Worker : CheckDuplicates(w) \/ CommitBatch(w) \/ FailBatch(w)

Spec == Init /\ [][Next]_vars

-----------------------------------------------------------------------------
TypeOK ==
  /\ admitted \in Nat /\ taken \in Nat /\ released \in Nat
  /\ batchId \in Nat /\ batchSize \in Nat /\ batchSequence \in Nat
  /\ droppedObservations \in Nat /\ reboots \in Nat
  /\ request \in Frame \union {NoRequest}
  /\ response \in Status \union {"none"}
  /\ frames \in Seq(Frame) /\ acks \in Seq(Status)
  /\ bridge \in {"down", "reading", "forwarding"}
  /\ workers \in [Worker -> WorkerState]
  /\ rows \in SUBSET Row
  /\ refused \in SUBSET Nat
  /\ sent \in SUBSET Frame
  /\ oversized \in SUBSET Nat /\ lost \in SUBSET Nat

\* The two firmware buffers never hold more than they have room for, and the
\* batch under retry is always a prefix of the in-flight buffer: uploadBatch's
\* refill, halving and release, with a changing batch size, keep the cursors
\* consistent across retries.
CursorsOK ==
  /\ released <= taken /\ taken <= admitted
  /\ admitted - taken <= QueueSize
  /\ taken - released <= FrameCapacity
  /\ batchSize <= taken - released
  /\ batchId # 0 => batchSize > 0

\* A batch identifier names one interval of observations for ever, and an
\* observation travels under one identifier only.  The database's uniqueness
\* constraint is on (scanner, batch, observation), so this is what makes it
\* stop a second copy that passed the duplicate query of process_observation.
OneBatchPerObservation ==
  \A f, g \in sent :
    /\ f.id = g.id => f = g
    /\ f # g => Positions(f) \intersect Positions(g) = {}

\* No observation has two rows, whatever is retried, answered late or
\* processed by two backend threads at once.
StoredAtMostOnce ==
  \A r, s \in rows : r.position = s.position => r = s

\* An observation that the queue accepted is in the scanner, or settled at the
\* backend (stored, or refused with a record), or was dropped as unsendable,
\* or was lost to a reset: uploadBatch releases a batch only on a 2xx answer
\* to that very batch.
RetainedUntilSettled ==
  1 .. released \subseteq Settled \union oversized \union lost

\* The path implements a bounded store-and-forward queue.
Promise == INSTANCE BoundedDelivery WITH
  Capacity <- QueueSize + FrameCapacity,
  accepted <- admitted,
  held <- (released + 1 .. admitted) \ Settled,
  delivered <- Settled,
  gone <- (oversized \union lost) \ Settled

\* Observations are accepted one by one, reach the database oldest first, and
\* leave the scanner in no other way than the ones BoundedDelivery names.
DeliversInOrder == Promise!Spec

-----------------------------------------------------------------------------
(***************************************************************************)
(* Fairness.  The transport task, the bridge loop and the backend threads  *)
(* run for ever.  A due observation upload gets its turn among the other   *)
(* requests; a frame, an answer and a transaction do not fail every time.  *)
(***************************************************************************)
AckForBatch == acks # <<>> /\ Head(acks) = "ok" /\ request.id > 0

Fairness ==
  /\ SF_vars(SendBatch) /\ SF_vars(OverflowBatch)
  /\ SF_vars(PollAck /\ AckForBatch)
  /\ WF_vars(PollAck) /\ WF_vars(FinishRequest) /\ WF_vars(ResponseTimeout)
  /\ WF_vars(BridgeConnect)
  /\ WF_vars(BridgeAnswer)
  /\ SF_vars(BridgeForward)
  /\ \A w \in Worker : WF_vars(CheckDuplicates(w) \/ CommitBatch(w) \/ FailBatch(w))
  /\ SF_vars(\E w \in Worker : CheckDuplicates(w) /\ workers[w].awaited)
  /\ SF_vars(\E w \in Worker :
               CommitBatch(w) /\ workers[w].awaited /\ acks' = Append(acks, "ok"))

FairSpec == Spec /\ Fairness

\* Whoever unplugs the scanner or stops the bridge stops doing it at some time.
PortStaysOpen == <>[](bridge # "down")

\* With the port open in the end, every accepted observation leaves the
\* scanner, settled at the backend, or dropped as unsendable, or lost to a
\* reset: no order of losses, timeouts and retries leaves the in-flight batch
\* stuck or starves the queue behind it.
EventuallySettled ==
  PortStaysOpen =>
    \A p \in 1 .. MaxAdmitted :
      (p <= admitted) ~>
        (p <= released /\ p \in Settled \union oversized \union lost)
=============================================================================
