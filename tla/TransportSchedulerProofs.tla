----------------------- MODULE TransportSchedulerProofs -----------------------
(***************************************************************************)
(* The deadlines of TransportScheduler, for every choice of intervals and  *)
(* of the response timeout, and the turn of an observation upload, for     *)
(* heartbeats that are far apart against both.                             *)
(***************************************************************************)
EXTENDS TransportScheduler, TLAPS

HardDeadline == 2 * ConfigInterval
Other == {"focus", "upload", "gatt"}

\* How late each deadline can be, by what the line does.  A request that is not
\* a heartbeat began before the heartbeat was due; one that is neither a
\* heartbeat nor a fetch began before the fetch was overdue.
DeadlineInv ==
  /\ serving = "none" =>
       /\ sinceHeartbeat <= HeartbeatInterval + MaxRequest
       /\ sinceConfig <= HardDeadline + 2 * MaxRequest
       /\ HeartbeatDue => sinceConfig <= HardDeadline + MaxRequest
  /\ serving = "heartbeat" =>
       /\ sinceHeartbeat <= HeartbeatInterval + MaxRequest + elapsed
       /\ sinceConfig <= HardDeadline + MaxRequest + elapsed
  /\ serving = "config" =>
       /\ sinceHeartbeat <= HeartbeatInterval + elapsed
       /\ sinceConfig <= HardDeadline + 2 * MaxRequest + elapsed
  /\ serving \in Other =>
       /\ sinceHeartbeat <= HeartbeatInterval + elapsed
       /\ sinceConfig <= HardDeadline + elapsed

LEMMA Constants ==
  /\ HeartbeatInterval \in Nat /\ HeartbeatInterval > 0
  /\ ConfigInterval \in Nat /\ FocusConfigInterval \in Nat
  /\ FocusConfigInterval <= ConfigInterval /\ ConfigInterval > 0
  /\ RetryBackoff \in Nat /\ MaxRequest \in Nat
  /\ RefreshInterval \in Nat /\ RefreshInterval <= ConfigInterval
  BY SchedulerAssumption DEF SchedulerAssumption, RefreshInterval

LEMMA TypeInit == Init => TypeOK
<1> SUFFICES ASSUME Init PROVE TypeOK
  OBVIOUS
<1>1. sinceHeartbeat \in Nat /\ sinceConfig \in Nat /\ sinceGatt \in Nat
  BY Constants DEF Init
<1>2. /\ uploadInterval \in UploadIntervals /\ sinceUpload \in Nat
      /\ focusUploadInterval \in FocusUploadIntervals /\ sinceFocus \in Nat
  BY SchedulerAssumption DEF SchedulerAssumption, Init
<1>3. elapsed \in 0 .. MaxRequest
  BY Constants DEF Init
<1>4. /\ focusActive \in BOOLEAN /\ modeChanged \in BOOLEAN /\ focusPending \in BOOLEAN
      /\ retryPending \in BOOLEAN /\ gattPending \in BOOLEAN
  BY DEF Init
<1>5. backlog \in 0 .. 2 /\ consecutive \in 0 .. 2 /\ passedOver \in Nat
  BY DEF Init
<1>6. serving \in Kind \union {"none"}
  BY DEF Init
<1> QED
  BY <1>1, <1>2, <1>3, <1>4, <1>5, <1>6 DEF TypeOK

LEMMA TypeStep == ASSUME TypeOK, [Next]_vars PROVE TypeOK'
<1> USE DEF TypeOK
<1>1. ASSUME NEW kind \in Kind, Begin(kind) PROVE TypeOK'
  <2>1. elapsed' = 0 /\ serving' = kind /\ passedOver' \in Nat
    BY <1>1 DEF Begin
  <2>2. 0 \in 0 .. MaxRequest
    BY Constants
  <2> QED
    BY <1>1, <2>1, <2>2 DEF Begin, ages, configuration, queues
<1>2. CASE BeginHeartbeat \/ BeginConfig \/ BeginFocus \/ BeginUpload \/ BeginGatt
  BY <1>1, <1>2 DEF BeginHeartbeat, BeginConfig, BeginFocus, BeginUpload, BeginGatt, Kind
<1>3. ASSUME NEW kind \in Kind, Complete(kind)
      PROVE  /\ serving' = "none" /\ elapsed' \in 0 .. MaxRequest /\ consecutive' \in 0 .. 2
             /\ UNCHANGED <<uploadInterval, focusUploadInterval, focusActive, modeChanged>>
             /\ kind # "focus" => passedOver' = passedOver
  BY <1>3, Constants DEF Complete, configuration
<1>4. CASE CompleteHeartbeat
  BY <1>3, <1>4 DEF CompleteHeartbeat, queues, Kind
<1>5. CASE CompleteConfig
  BY <1>3, <1>5 DEF CompleteConfig, queues, Kind
<1>6. CASE CompleteFocus
  <2>1. passedOver' \in Nat
    BY <1>6 DEF CompleteFocus
  <2> QED
    BY <1>3, <1>6, <2>1 DEF CompleteFocus, Kind
<1>7. CASE CompleteUpload
  <2>1. /\ serving' = "none" /\ elapsed' \in 0 .. MaxRequest /\ consecutive' \in 0 .. 2
        /\ UNCHANGED <<uploadInterval, focusUploadInterval, focusActive, modeChanged, passedOver>>
    BY <1>3, <1>7 DEF CompleteUpload, Kind
  <2>2. \A n \in 0 .. backlog : n \in 0 .. 2
    OBVIOUS
  <2>3. backlog' \in 0 .. backlog \/ backlog' = backlog
    BY <1>7 DEF CompleteUpload
  <2>4. backlog' \in 0 .. 2
    BY <2>2, <2>3
  <2>5. retryPending' \in BOOLEAN
    BY <1>7 DEF CompleteUpload
  <2> QED
    BY <1>7, <2>1, <2>4, <2>5 DEF CompleteUpload
<1>8. CASE CompleteGatt
  BY <1>3, <1>8 DEF CompleteGatt, Kind
<1>9. CASE Tick
  <2>1. elapsed' \in 0 .. MaxRequest
    BY <1>9, Constants DEF Tick
  <2>2. \A age \in Nat : \A limit : Older(age, limit) \in Nat
    BY DEF Older
  <2> QED
    BY <1>9, <2>1, <2>2 DEF Tick, configuration, queues
<1>10. CASE Observe
  BY <1>10 DEF Observe, ages, configuration, line
<1>11. CASE CaptureSample
  BY <1>11 DEF CaptureSample, ages, configuration, line
<1>12. CASE StoreGattResult
  BY <1>12 DEF StoreGattResult, ages, configuration, line
<1>13. CASE ApplyConfig
  <2>1. /\ focusActive' \in BOOLEAN /\ modeChanged' \in BOOLEAN
        /\ focusPending' \in BOOLEAN /\ passedOver' \in Nat
    BY <1>13 DEF ApplyConfig
  <2>2. /\ backlog' \in 0 .. 2
        /\ uploadInterval' \in UploadIntervals /\ focusUploadInterval' \in FocusUploadIntervals
    BY <1>13 DEF ApplyConfig
  <2> QED
    BY <1>13, <2>1, <2>2 DEF ApplyConfig, ages
<1>14. CASE ApplyTrackingModeChange
  <2>1. sinceFocus' = sinceFocus \/ sinceFocus' = 0
    BY <1>14 DEF ApplyTrackingModeChange
  <2>2. sinceFocus' \in Nat
    BY <2>1
  <2> QED
    BY <1>14, <2>2 DEF ApplyTrackingModeChange, queues, line
<1>15. CASE UNCHANGED vars
  BY <1>15 DEF vars, ages, configuration, queues, line
<1> QED
  BY <1>2, <1>4, <1>5, <1>6, <1>7, <1>8, <1>9, <1>10, <1>11, <1>12, <1>13, <1>14,
     <1>15 DEF Next

LEMMA DeadlineInit == Init => DeadlineInv
  BY Constants DEF Init, DeadlineInv, HardDeadline, HeartbeatDue, Other

LEMMA DeadlineStep == ASSUME TypeOK, DeadlineInv, [Next]_vars PROVE DeadlineInv'
<1>0. /\ sinceHeartbeat \in Nat /\ sinceConfig \in Nat
      /\ elapsed \in Nat /\ elapsed <= MaxRequest
      /\ HardDeadline \in Nat
  BY Constants DEF TypeOK, HardDeadline
<1>1. CASE BeginHeartbeat
  <2>1. /\ serving = "none" /\ serving' = "heartbeat" /\ elapsed' = 0 /\ HeartbeatDue
        /\ UNCHANGED <<sinceHeartbeat, sinceConfig>>
    BY <1>1 DEF BeginHeartbeat, Begin, ages
  <2> QED
    BY <1>0, <2>1, Constants DEF DeadlineInv, Other
<1>2. CASE BeginConfig
  <2>1. /\ serving = "none" /\ serving' = "config" /\ elapsed' = 0 /\ ~HeartbeatDue
        /\ UNCHANGED <<sinceHeartbeat, sinceConfig>>
    BY <1>2 DEF BeginConfig, Begin, ages
  <2> QED
    BY <1>0, <2>1, Constants DEF DeadlineInv, Other, HeartbeatDue
<1>3. CASE BeginFocus \/ BeginUpload \/ BeginGatt
  <2>1. /\ serving = "none" /\ serving' \in Other /\ elapsed' = 0
        /\ ~HeartbeatDue /\ ~ConfigHardDue
        /\ UNCHANGED <<sinceHeartbeat, sinceConfig>>
    BY <1>3 DEF BeginFocus, BeginUpload, BeginGatt, Begin, ages, Other
  <2>2. sinceHeartbeat <= HeartbeatInterval /\ sinceConfig <= HardDeadline
    BY <1>0, <2>1, Constants DEF HeartbeatDue, ConfigHardDue, HardDeadline
  <2> QED
    BY <1>0, <2>1, <2>2, Constants DEF DeadlineInv, Other
<1>4. CASE CompleteHeartbeat
  <2>1. /\ serving = "heartbeat" /\ serving' = "none"
        /\ sinceHeartbeat' = 0 /\ sinceConfig' = sinceConfig
    BY <1>4 DEF CompleteHeartbeat, Complete
  <2>2. sinceConfig <= HardDeadline + 2 * MaxRequest
    BY <1>0, <2>1, Constants DEF DeadlineInv
  <2>3. ~HeartbeatDue'
    BY <2>1, Constants DEF HeartbeatDue
  <2> QED
    BY <2>1, <2>2, <2>3, Constants DEF DeadlineInv, Other
<1>5. CASE CompleteConfig
  <2>1. /\ serving = "config" /\ serving' = "none"
        /\ sinceConfig' = 0 /\ sinceHeartbeat' = sinceHeartbeat
    BY <1>5 DEF CompleteConfig, Complete
  <2>2. sinceHeartbeat <= HeartbeatInterval + MaxRequest
    BY <1>0, <2>1, Constants DEF DeadlineInv
  <2>3. 0 <= HardDeadline + 2 * MaxRequest /\ 0 <= HardDeadline + MaxRequest
    BY <1>0, Constants
  <2> QED
    BY <2>1, <2>2, <2>3 DEF DeadlineInv, Other
<1>6. CASE CompleteFocus \/ CompleteUpload \/ CompleteGatt
  <2>1. /\ serving \in Other /\ serving' = "none"
        /\ UNCHANGED <<sinceHeartbeat, sinceConfig>>
    BY <1>6 DEF CompleteFocus, CompleteUpload, CompleteGatt, Complete, Other
  <2>2. /\ sinceHeartbeat <= HeartbeatInterval + MaxRequest
        /\ sinceConfig <= HardDeadline + MaxRequest
        /\ sinceConfig <= HardDeadline + 2 * MaxRequest
    BY <1>0, <2>1, Constants DEF DeadlineInv
  <2> QED
    BY <2>1, <2>2 DEF DeadlineInv, Other
<1>7. CASE Tick
  <2>1. /\ sinceHeartbeat' = sinceHeartbeat + 1 /\ sinceConfig' = sinceConfig + 1
        /\ serving' = serving
    BY <1>7 DEF Tick
  <2>2. CASE serving = "none"
    <3>1. ~HeartbeatDue /\ ~ConfigDue
      BY <1>7, <2>2 DEF Tick, NothingDue
    <3>2. /\ sinceHeartbeat + 1 <= HeartbeatInterval + MaxRequest
          /\ sinceConfig + 1 <= HardDeadline + MaxRequest
          /\ sinceConfig + 1 <= HardDeadline + 2 * MaxRequest
      BY <1>0, <3>1, Constants DEF HeartbeatDue, ConfigDue, HardDeadline
    <3> QED
      BY <2>1, <2>2, <3>2 DEF DeadlineInv, Other
  <2>3. CASE serving # "none"
    <3>1. elapsed' = elapsed + 1
      BY <1>7, <2>3 DEF Tick
    <3>2. \A a, b, e \in Nat : a <= b + e => a + 1 <= b + (e + 1)
      OBVIOUS
    <3>3. /\ serving = "heartbeat" =>
               /\ sinceHeartbeat + 1 <= HeartbeatInterval + MaxRequest + (elapsed + 1)
               /\ sinceConfig + 1 <= HardDeadline + MaxRequest + (elapsed + 1)
          /\ serving = "config" =>
               /\ sinceHeartbeat + 1 <= HeartbeatInterval + (elapsed + 1)
               /\ sinceConfig + 1 <= HardDeadline + 2 * MaxRequest + (elapsed + 1)
          /\ serving \in Other =>
               /\ sinceHeartbeat + 1 <= HeartbeatInterval + (elapsed + 1)
               /\ sinceConfig + 1 <= HardDeadline + (elapsed + 1)
      BY <1>0, Constants DEF DeadlineInv
    <3> QED
      BY <2>1, <2>3, <3>1, <3>3 DEF DeadlineInv
  <2> QED
    BY <2>2, <2>3
<1>8. CASE Observe \/ CaptureSample \/ StoreGattResult \/ ApplyConfig
           \/ ApplyTrackingModeChange \/ UNCHANGED vars
  <2>1. UNCHANGED <<sinceHeartbeat, sinceConfig, serving, elapsed>>
    BY <1>8 DEF Observe, CaptureSample, StoreGattResult, ApplyConfig,
       ApplyTrackingModeChange, vars, ages, line
  <2> QED
    BY <2>1 DEF DeadlineInv, HeartbeatDue
<1> QED
  BY <1>1, <1>2, <1>3, <1>4, <1>5, <1>6, <1>7, <1>8 DEF Next

LEMMA SchedulerInvariant == Spec => [](TypeOK /\ DeadlineInv)
<1>1. Init => TypeOK /\ DeadlineInv
  BY TypeInit, DeadlineInit
<1>2. TypeOK /\ DeadlineInv /\ [Next]_vars => (TypeOK /\ DeadlineInv)'
  BY TypeStep, DeadlineStep
<1> QED
  BY <1>1, <1>2, PTL DEF Spec

\* The scheduler's ages, flags and counters stay in their types.
THEOREM TypeCorrect == Spec => []TypeOK
  BY SchedulerInvariant, PTL

\* Whatever the queues hold, two heartbeats are at most one interval and two
\* response timeouts apart (transportTask tests the heartbeat first).
THEOREM HeartbeatInTime == Spec => []HeartbeatDeadline
<1>1. TypeOK /\ DeadlineInv => HeartbeatDeadline
  <2> SUFFICES ASSUME TypeOK, DeadlineInv PROVE HeartbeatDeadline
    OBVIOUS
  <2>1. /\ sinceHeartbeat \in Nat /\ elapsed \in Nat /\ elapsed <= MaxRequest
        /\ serving = "none" \/ serving = "heartbeat" \/ serving = "config" \/ serving \in Other
    BY Constants DEF TypeOK, Kind, Other
  <2> QED
    BY <2>1, Constants DEF DeadlineInv, HeartbeatDeadline
<1> QED
  BY <1>1, SchedulerInvariant, PTL

\* Two configuration fetches are at most one hard deadline and three response
\* timeouts apart, in and out of focus mode.
THEOREM ConfigInTime == Spec => []ConfigDeadline
<1>1. TypeOK /\ DeadlineInv => ConfigDeadline
  <2> SUFFICES ASSUME TypeOK, DeadlineInv PROVE ConfigDeadline
    OBVIOUS
  <2>1. /\ sinceConfig \in Nat /\ elapsed \in Nat /\ elapsed <= MaxRequest
        /\ serving = "none" \/ serving = "heartbeat" \/ serving = "config" \/ serving \in Other
    BY Constants DEF TypeOK, Kind, Other
  <2> QED
    BY <2>1, Constants DEF DeadlineInv, ConfigDeadline, HardDeadline
<1> QED
  BY <1>1, SchedulerInvariant, PTL
-----------------------------------------------------------------------------
(***************************************************************************)
(* The turn of an observation upload.  Passed(n, later) allows for n more  *)
(* requests before it, with the line taken until a number of ticks later   *)
(* at most; if a heartbeat falls due by then, for four more: the heartbeat *)
(* and a focus upload, a fetch and a focus upload after it.                *)
(***************************************************************************)
Passed(n, later) ==
  /\ passedOver + n <= 7
  /\ sinceHeartbeat + later >= HeartbeatInterval => passedOver + n + 4 <= 7

EarliestDeadline == 2 * FocusConfigInterval

\* Between two focus uploads there is another request, since none is due right
\* after one.  The next focus upload follows a fetch at once, so that the fetch
\* is overdue after it only if it outlasts the deadline itself.
TurnInv ==
  /\ passedOver > 0 => ObservationDue
  /\ passedOver <= 7
  /\ serving = "none" =>
       IF sinceFocus > 0
         THEN IF sinceConfig = 0
                THEN Passed(1, EarliestDeadline)
                ELSE Passed(3, MaxRequest + 2 * EarliestDeadline)
         ELSE IF sinceConfig < EarliestDeadline
                THEN Passed(0, 0) ELSE Passed(2, MaxRequest + EarliestDeadline)
  /\ serving = "heartbeat" => passedOver + 3 <= 7
  /\ serving = "config" => Passed(1, (MaxRequest - elapsed) + EarliestDeadline)
  /\ serving = "focus" /\ elapsed < EarliestDeadline =>
       IF sinceConfig <= elapsed
         THEN Passed(0, EarliestDeadline - elapsed)
         ELSE Passed(2, (EarliestDeadline - elapsed) + MaxRequest + EarliestDeadline)
  /\ serving \in {"upload", "gatt"} => passedOver = 0

\* A heartbeat does not fall due again before two focus uploads that do not
\* outlast the deadline and a fetch between them are over: 20 s against 30 s.
HeartbeatsApart == MaxRequest + 2 * EarliestDeadline < HeartbeatInterval

LEMMA TurnFacts ==
  ASSUME TypeOK
  PROVE  /\ sinceHeartbeat \in Nat /\ sinceConfig \in Nat /\ sinceFocus \in Nat
         /\ sinceUpload \in Nat /\ passedOver \in Nat /\ elapsed \in Nat
         /\ elapsed <= MaxRequest /\ MaxRequest \in Nat /\ HeartbeatInterval \in Nat
         /\ EarliestDeadline \in Nat /\ EarliestDeadline > 0
         /\ EarliestDeadline <= 2 * RefreshInterval /\ 2 * RefreshInterval \in Nat
         /\ focusUploadInterval \in Nat /\ focusUploadInterval > 0
         /\ uploadInterval \in Nat /\ uploadInterval <= LongestInterval
         /\ LongestInterval \in Nat
<1>1. /\ FocusConfigInterval \in Nat /\ FocusConfigInterval <= RefreshInterval
      /\ RefreshInterval \in Nat /\ FocusConfigInterval > 0
  BY SchedulerAssumption DEF RefreshInterval
<1>2. focusUploadInterval \in Nat \ {0} /\ uploadInterval \in Nat
      /\ uploadInterval <= LongestInterval
  BY SchedulerAssumption DEF TypeOK
<1> QED
  BY <1>1, <1>2, SchedulerAssumption DEF TypeOK, EarliestDeadline

\* An upload that was passed over stays due until it begins.
LEMMA StaysDue ==
  ASSUME TypeOK, TurnInv, [Next]_vars, passedOver' > 0
  PROVE  ObservationDue'
<1> USE TurnFacts
<1>1. CASE BeginHeartbeat \/ BeginConfig \/ BeginFocus \/ BeginUpload \/ BeginGatt
  BY <1>1 DEF BeginHeartbeat, BeginConfig, BeginFocus, BeginUpload, BeginGatt, Begin,
     ObservationDue, ages, configuration, queues
<1>2. CASE CompleteHeartbeat \/ CompleteConfig \/ CompleteFocus \/ CompleteGatt
  <2>1. /\ UNCHANGED <<backlog, retryPending, sinceUpload, uploadInterval>>
        /\ passedOver' = 0 \/ passedOver' = passedOver
    BY <1>2 DEF CompleteHeartbeat, CompleteConfig, CompleteFocus, CompleteGatt, Complete,
       configuration, queues
  <2> QED
    BY <2>1 DEF ObservationDue, TurnInv
<1>3. CASE CompleteUpload
  BY <1>3 DEF CompleteUpload, Complete, TurnInv
<1>4. CASE Tick
  <2>1. sinceUpload' = Older(sinceUpload, LongestInterval) /\ UNCHANGED <<configuration, queues>>
        /\ passedOver' = passedOver
    BY <1>4 DEF Tick
  <2>2. sinceUpload >= uploadInterval => sinceUpload' >= uploadInterval
    BY <2>1 DEF Older
  <2> QED
    BY <2>1, <2>2 DEF ObservationDue, TurnInv, configuration, queues
<1>5. CASE Observe
  <2>1. backlog \in 0 .. 2 /\ backlog < 2 /\ backlog' = backlog + 1
        /\ UNCHANGED <<sinceUpload, uploadInterval, retryPending, passedOver>>
    BY <1>5 DEF Observe, TypeOK, ages, configuration, line
  <2> QED
    BY <2>1 DEF ObservationDue, TurnInv
<1>6. CASE CaptureSample \/ StoreGattResult \/ ApplyTrackingModeChange \/ UNCHANGED vars
  BY <1>6 DEF CaptureSample, StoreGattResult, ApplyTrackingModeChange, vars, ObservationDue,
     TurnInv, ages, configuration, queues, line
<1>7. CASE ApplyConfig
  BY <1>7 DEF ApplyConfig
<1> QED
  BY <1>1, <1>2, <1>3, <1>4, <1>5, <1>6, <1>7 DEF Next

\* What a request that begins while the upload is due leaves of the allowance.
LEMMA BeginKeepsTurn ==
  ASSUME TypeOK, TurnInv, HeartbeatsApart,
         BeginHeartbeat \/ BeginConfig \/ BeginFocus \/ BeginUpload \/ BeginGatt
  PROVE  TurnInv'
<1> USE TurnFacts
<1>1. passedOver' > 0 => ObservationDue'
  BY StaysDue DEF Next
<1>2. /\ serving = "none" /\ elapsed' = 0
      /\ UNCHANGED <<sinceHeartbeat, sinceConfig, sinceFocus>>
      /\ passedOver' \in {0, passedOver + 1}
  BY DEF BeginHeartbeat, BeginConfig, BeginFocus, BeginUpload, BeginGatt, Begin, ages
<1>3. IF sinceFocus > 0
        THEN IF sinceConfig = 0
               THEN Passed(1, EarliestDeadline)
               ELSE Passed(3, MaxRequest + 2 * EarliestDeadline)
        ELSE IF sinceConfig < EarliestDeadline
               THEN Passed(0, 0) ELSE Passed(2, MaxRequest + EarliestDeadline)
  BY <1>2 DEF TurnInv
<1>4. CASE BeginHeartbeat
  <2>1. serving' = "heartbeat" /\ sinceHeartbeat >= HeartbeatInterval
    BY <1>4 DEF BeginHeartbeat, Begin, HeartbeatDue
  <2>2. \A n \in {0, 1, 2, 3}, later \in Nat : Passed(n, later) => passedOver + 4 <= 7
    BY <2>1 DEF Passed
  <2>3. passedOver + 4 <= 7
    BY <1>3, <2>2
  <2>4. passedOver' = 0 \/ passedOver' = passedOver + 1
    BY <1>2
  <2>5. passedOver \in Nat
    BY DEF TypeOK
  <2>6. passedOver' + 3 <= 7 /\ passedOver' <= 7
    BY <2>3, <2>4, <2>5
  <2> QED
    BY <1>1, <2>1, <2>6 DEF TurnInv
<1>5. CASE BeginConfig
  <2>1. serving' = "config"
    BY <1>5 DEF BeginConfig, Begin
  <2>2. CASE passedOver' = 0
    BY <1>1, <1>2, <2>1, <2>2 DEF TurnInv, Passed
  <2>3. CASE passedOver' # 0
    <3>1. passedOver' = passedOver + 1 /\ ObservationDue
      BY <1>2, <1>5, <2>3 DEF BeginConfig, Begin
    <3>2. sinceConfig >= EarliestDeadline
      BY <1>5, <3>1 DEF BeginConfig, ConfigHardDue
    <3>3. Passed(2, MaxRequest + EarliestDeadline)
      BY <1>3, <3>2 DEF Passed
    <3>4. Passed(1, (MaxRequest - elapsed) + EarliestDeadline)'
      BY <1>2, <3>1, <3>3 DEF Passed, EarliestDeadline
    <3>5. passedOver' <= 7
      BY <3>1, <3>3 DEF Passed
    <3> QED
      BY <1>1, <2>1, <3>4, <3>5 DEF TurnInv, EarliestDeadline
  <2> QED
    BY <2>2, <2>3
<1>6. CASE BeginFocus
  <2>1. serving' = "focus"
    BY <1>6 DEF BeginFocus, Begin
  <2>2. CASE passedOver' = 0
    BY <1>1, <1>2, <2>1, <2>2 DEF TurnInv, Passed
  <2>3. CASE passedOver' # 0
    <3>1. passedOver' = passedOver + 1 /\ ObservationDue
      BY <1>2, <1>6, <2>3 DEF BeginFocus, Begin
    <3>2. sinceFocus > 0
      BY <1>6 DEF BeginFocus, FocusTurn, FocusDue
    <3>3. IF sinceConfig' <= elapsed'
            THEN Passed(0, EarliestDeadline - elapsed)'
            ELSE Passed(2, (EarliestDeadline - elapsed) + MaxRequest + EarliestDeadline)'
      BY <1>2, <1>3, <3>1, <3>2 DEF Passed, EarliestDeadline
    <3>4. passedOver' <= 7
      BY <1>3, <3>1, <3>2 DEF Passed
    <3> QED
      BY <1>1, <2>1, <3>3, <3>4 DEF TurnInv, EarliestDeadline
  <2> QED
    BY <2>2, <2>3
<1>7. CASE BeginUpload \/ BeginGatt
  <2>1. serving' \in {"upload", "gatt"} /\ passedOver' = 0
    BY <1>7 DEF BeginUpload, BeginGatt, Begin
  <2> QED
    BY <1>1, <2>1 DEF TurnInv
<1> QED
  BY <1>4, <1>5, <1>6, <1>7

\* What a request that is over leaves of the allowance.
LEMMA CompleteKeepsTurn ==
  ASSUME TypeOK, TurnInv, HeartbeatsApart,
         \/ CompleteHeartbeat \/ CompleteConfig \/ CompleteFocus
         \/ CompleteUpload \/ CompleteGatt
  PROVE  TurnInv'
<1> USE TurnFacts
<1>1. passedOver' > 0 => ObservationDue'
  BY StaysDue DEF Next
<1>2. serving' = "none" /\ (~CompleteFocus => passedOver' = passedOver)
  BY DEF CompleteHeartbeat, CompleteConfig, CompleteFocus, CompleteUpload, CompleteGatt, Complete
<1>3. sinceHeartbeat' \in Nat /\ sinceConfig' \in Nat /\ sinceFocus' \in Nat
  BY TypeStep DEF TypeOK, Next
<1>4. CASE CompleteHeartbeat
  <2>1. serving = "heartbeat" /\ sinceHeartbeat' = 0
    BY <1>4 DEF CompleteHeartbeat, Complete
  <2>2. passedOver + 3 <= 7 /\ passedOver' = passedOver
    BY <1>4, <2>1 DEF TurnInv, CompleteHeartbeat, Complete
  <2>3. /\ Passed(3, MaxRequest + 2 * EarliestDeadline)' /\ Passed(0, 0)' /\ passedOver' <= 7
        /\ Passed(2, MaxRequest + EarliestDeadline)' /\ Passed(1, EarliestDeadline)'
    BY <2>1, <2>2 DEF Passed, HeartbeatsApart, EarliestDeadline
  <2> QED
    BY <1>1, <1>2, <2>3 DEF TurnInv, EarliestDeadline
<1>5. CASE CompleteConfig
  <2>1. /\ serving = "config" /\ sinceConfig' = 0
        /\ UNCHANGED <<sinceHeartbeat, sinceFocus>>
    BY <1>5 DEF CompleteConfig, Complete
  <2>2. Passed(1, (MaxRequest - elapsed) + EarliestDeadline) /\ passedOver' = passedOver
    BY <1>5, <2>1 DEF TurnInv, CompleteConfig, Complete
  <2>3. Passed(1, EarliestDeadline)' /\ Passed(0, 0)' /\ passedOver' <= 7
    BY <2>1, <2>2 DEF Passed, EarliestDeadline
  <2>4. sinceConfig' = 0 /\ sinceConfig' < EarliestDeadline
    BY <2>1
  <2> QED
    BY <1>1, <1>2, <2>3, <2>4 DEF TurnInv, EarliestDeadline
<1>6. CASE CompleteFocus
  <2>1. /\ serving = "focus" /\ sinceFocus' = 0
        /\ UNCHANGED <<sinceHeartbeat, sinceConfig>>
    BY <1>6 DEF CompleteFocus, Complete
  <2>2. CASE elapsed < EarliestDeadline
    <3>1. passedOver' = passedOver
      BY <1>6, <2>2 DEF CompleteFocus, Outlasts, EarliestDeadline
    <3>2. IF sinceConfig <= elapsed
            THEN Passed(0, EarliestDeadline - elapsed)
            ELSE Passed(2, (EarliestDeadline - elapsed) + MaxRequest + EarliestDeadline)
      BY <2>1, <2>2 DEF TurnInv
    <3>3. IF sinceConfig' < EarliestDeadline
            THEN Passed(0, 0)' ELSE Passed(2, MaxRequest + EarliestDeadline)'
      BY <2>1, <2>2, <3>1, <3>2 DEF Passed, EarliestDeadline
    <3>4. passedOver' <= 7
      BY <3>1 DEF TurnInv
    <3> QED
      BY <1>1, <1>2, <2>1, <3>3, <3>4 DEF TurnInv, EarliestDeadline
  <2>3. CASE ~(elapsed < EarliestDeadline)
    <3>1. passedOver' = 0
      BY <1>6, <2>3 DEF CompleteFocus, Outlasts, EarliestDeadline
    <3> QED
      BY <1>1, <1>2, <2>1, <3>1 DEF TurnInv, Passed
  <2> QED
    BY <2>2, <2>3
<1>7. CASE CompleteUpload \/ CompleteGatt
  <2>1. passedOver = 0 /\ passedOver' = passedOver
    BY <1>7 DEF CompleteUpload, CompleteGatt, Complete, TurnInv
  <2> QED
    BY <1>1, <1>2, <2>1 DEF TurnInv, Passed
<1> QED
  BY <1>4, <1>5, <1>6, <1>7

\* Time only takes from the allowance what the request on the line may last.
LEMMA TickKeepsTurn ==
  ASSUME TypeOK, TurnInv, HeartbeatsApart, Tick
  PROVE  TurnInv'
<1> USE TurnFacts
<1>1. passedOver' > 0 => ObservationDue'
  BY StaysDue DEF Next
<1>2. /\ serving' = serving /\ passedOver' = passedOver
      /\ sinceHeartbeat' = sinceHeartbeat + 1 /\ sinceConfig' = sinceConfig + 1
  BY DEF Tick
<1>3. CASE serving = "none"
  <2>1. passedOver = 0
    BY <1>3 DEF Tick, NothingDue, TurnInv
  <2> QED
    BY <1>1, <1>2, <1>3, <2>1 DEF TurnInv, Passed
<1>4. CASE serving # "none"
  <2>1. elapsed' = elapsed + 1
    BY <1>4 DEF Tick
  <2>2. Passed(1, (MaxRequest - elapsed) + EarliestDeadline)
          => Passed(1, (MaxRequest - elapsed) + EarliestDeadline)'
    BY <1>2, <2>1 DEF Passed, EarliestDeadline
  <2>3. /\ Passed(0, EarliestDeadline - elapsed) => Passed(0, EarliestDeadline - elapsed)'
        /\ Passed(2, (EarliestDeadline - elapsed) + MaxRequest + EarliestDeadline)
             => Passed(2, (EarliestDeadline - elapsed) + MaxRequest + EarliestDeadline)'
    BY <1>2, <2>1 DEF Passed, EarliestDeadline
  <2>4. /\ sinceConfig' <= elapsed' <=> sinceConfig <= elapsed
        /\ elapsed' < EarliestDeadline => elapsed < EarliestDeadline
    BY <1>2, <2>1
  <2> QED
    BY <1>1, <1>2, <1>4, <2>2, <2>3, <2>4 DEF TurnInv, EarliestDeadline
<1> QED
  BY <1>3, <1>4

\* The other tasks do not change how long the line was taken.
LEMMA OthersKeepTurn ==
  ASSUME TypeOK, TurnInv, HeartbeatsApart,
         \/ Observe \/ CaptureSample \/ StoreGattResult \/ ApplyConfig
         \/ ApplyTrackingModeChange \/ UNCHANGED vars
  PROVE  TurnInv'
<1> USE TurnFacts
<1>1. passedOver' > 0 => ObservationDue'
  BY StaysDue DEF Next
<1>2. /\ UNCHANGED <<serving, elapsed, sinceHeartbeat, sinceConfig>>
      /\ passedOver' \in {0, passedOver} /\ sinceFocus' \in {0, sinceFocus}
  BY DEF Observe, CaptureSample, StoreGattResult, ApplyConfig, ApplyTrackingModeChange, vars,
     ages, line
<1>3. /\ serving' = serving /\ elapsed' = elapsed
      /\ sinceHeartbeat' = sinceHeartbeat /\ sinceConfig' = sinceConfig
      /\ passedOver' = 0 \/ passedOver' = passedOver
  BY <1>2
<1>0. passedOver' <= 7
  BY <1>3 DEF TurnInv
<1>4. ASSUME NEW n \in Nat, NEW m \in Nat, NEW later \in Int, NEW sooner \in Int,
             n <= 3, m <= n, sooner <= later, Passed(n, later)
      PROVE  Passed(m, sooner)'
  <2>1. passedOver' = 0 \/ passedOver' = passedOver
    BY <1>2
  <2>2. sinceHeartbeat' = sinceHeartbeat
    BY <1>2
  <2> QED
    BY <1>4, <2>1, <2>2 DEF Passed
<1>5. CASE serving = "none"
  <2>1. /\ Passed(1, EarliestDeadline) => Passed(1, EarliestDeadline)' /\ Passed(0, 0)'
        /\ Passed(3, MaxRequest + 2 * EarliestDeadline)
             => /\ Passed(3, MaxRequest + 2 * EarliestDeadline)'
                /\ Passed(2, MaxRequest + EarliestDeadline)' /\ Passed(0, 0)'
        /\ Passed(0, 0) => Passed(0, 0)'
        /\ Passed(2, MaxRequest + EarliestDeadline) => Passed(2, MaxRequest + EarliestDeadline)'
    BY <1>4
  <2>2. serving' = "none" /\ sinceConfig' = sinceConfig
        /\ (sinceFocus' = 0 \/ sinceFocus' = sinceFocus)
    BY <1>2, <1>5
  <2>3. sinceConfig = 0 => sinceConfig < EarliestDeadline
    OBVIOUS
  <2>4. IF sinceFocus > 0
          THEN IF sinceConfig = 0
                 THEN Passed(1, EarliestDeadline)
                 ELSE Passed(3, MaxRequest + 2 * EarliestDeadline)
          ELSE IF sinceConfig < EarliestDeadline
                 THEN Passed(0, 0) ELSE Passed(2, MaxRequest + EarliestDeadline)
    BY <1>5 DEF TurnInv
  <2>5. IF sinceFocus' > 0
          THEN IF sinceConfig = 0
                 THEN Passed(1, EarliestDeadline)'
                 ELSE Passed(3, MaxRequest + 2 * EarliestDeadline)'
          ELSE IF sinceConfig < EarliestDeadline
                 THEN Passed(0, 0)' ELSE Passed(2, MaxRequest + EarliestDeadline)'
    BY <2>1, <2>2, <2>3, <2>4
  <2> QED
    BY <1>0, <1>1, <2>2, <2>5 DEF TurnInv, EarliestDeadline
<1>6. CASE serving = "heartbeat"
  <2>1. passedOver + 3 <= 7 /\ passedOver \in Nat
    BY <1>6 DEF TurnInv, TypeOK
  <2>2. passedOver' + 3 <= 7
    BY <1>3, <2>1
  <2> QED
    BY <1>0, <1>1, <1>6, <1>3, <2>2 DEF TurnInv
<1>7. CASE serving = "config"
  <2>1. Passed(1, (MaxRequest - elapsed) + EarliestDeadline)
    BY <1>7 DEF TurnInv
  <2>2. Passed(1, (MaxRequest - elapsed) + EarliestDeadline)'
    BY <1>3, <2>1 DEF Passed, EarliestDeadline
  <2> QED
    BY <1>0, <1>1, <1>7, <1>3, <2>2 DEF TurnInv
<1>8. CASE serving = "focus"
  <2>1. /\ Passed(0, EarliestDeadline - elapsed) => Passed(0, EarliestDeadline - elapsed)'
        /\ Passed(2, (EarliestDeadline - elapsed) + MaxRequest + EarliestDeadline)
             => Passed(2, (EarliestDeadline - elapsed) + MaxRequest + EarliestDeadline)'
    BY <1>3 DEF Passed, EarliestDeadline
  <2> QED
    BY <1>0, <1>1, <1>8, <1>3, <2>1 DEF TurnInv, EarliestDeadline
<1>9. CASE serving \in {"upload", "gatt"}
  <2>1. passedOver' = 0
    BY <1>9, <1>3 DEF TurnInv
  <2> QED
    BY <1>0, <1>1, <1>9, <1>3, <2>1 DEF TurnInv
<1> QED
  BY <1>5, <1>6, <1>7, <1>8, <1>9 DEF TypeOK, Kind

LEMMA TurnInit == Init => TurnInv
  BY SchedulerAssumption DEF Init, TurnInv, Passed, EarliestDeadline

LEMMA TurnInvariant == HeartbeatsApart => (Spec => [](TypeOK /\ TurnInv))
<1> SUFFICES ASSUME HeartbeatsApart PROVE Spec => [](TypeOK /\ TurnInv)
  OBVIOUS
<1>1. Init => TypeOK /\ TurnInv
  BY TypeInit, TurnInit
<1>2. TypeOK /\ TurnInv /\ [Next]_vars => (TypeOK /\ TurnInv)'
  BY TypeStep, BeginKeepsTurn, CompleteKeepsTurn, TickKeepsTurn, OthersKeepTurn DEF Next
<1> QED
  BY <1>1, <1>2, PTL DEF Spec

\* transportTask, for intervals in the order of the firmware's (the heartbeat's
\* longer than the response timeout and two hard deadlines): an observation
\* upload that is due is passed over by seven requests at most, whatever the
\* focus mode and the configuration do, unless a focus upload outlasts the hard
\* deadline of the configuration.
THEOREM UploadInTurn == HeartbeatsApart => (Spec => []ObservationTurn)
<1>1. TypeOK /\ TurnInv => ObservationTurn
  <2> SUFFICES ASSUME TypeOK, TurnInv PROVE ObservationTurn
    OBVIOUS
  <2>1. serving \in {"none", "heartbeat", "config", "focus", "upload", "gatt"}
    BY DEF TypeOK, Kind
  <2> QED
    BY <2>1, TurnFacts DEF TurnInv, Passed, ObservationTurn
<1> QED
  BY <1>1, TurnInvariant, PTL
=============================================================================
