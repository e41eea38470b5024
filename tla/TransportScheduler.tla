-------------------------- MODULE TransportScheduler --------------------------
(***************************************************************************)
(* The scanner's transport task: one thread that chooses, again and again, *)
(* which of five kinds of request takes the serial line (transportTask).   *)
(* Time passes in ticks.  The task is never idle while something is due,   *)
(* and a request keeps the line for at most MaxRequest ticks, the response *)
(* timeout.  The ages count from the completion of a request, as the last* *)
(* times of the code do.                                                   *)
(*                                                                         *)
(* The radio callback, the GATT worker and the configuration that loop()   *)
(* applies change what is due between, and during, the requests.           *)
(***************************************************************************)
EXTENDS Integers

CONSTANTS
  HeartbeatInterval,      \* HEARTBEAT_INTERVAL_MS
  ConfigInterval,         \* CONFIG_REFRESH_INTERVAL_MS
  FocusConfigInterval,    \* TRACKING_CONFIG_REFRESH_INTERVAL_MS
  UploadIntervals,        \* the values scannerConfig.uploadIntervalMs may have
  FocusUploadIntervals,   \* and tracking.uploadIntervalMs
  LongestInterval,        \* bound: an age beyond it tells nothing more
  RetryBackoff,           \* TRANSPORT_RETRY_BACKOFF_MS
  MaxRequest              \* SERIAL_BRIDGE_RESPONSE_TIMEOUT_MS

ASSUME SchedulerAssumption ==
  /\ HeartbeatInterval \in Nat \ {0}
  /\ ConfigInterval \in Nat \ {0}
  /\ FocusConfigInterval \in 1 .. ConfigInterval
  /\ UploadIntervals \subseteq Nat \ {0}
  /\ FocusUploadIntervals \subseteq Nat \ {0}
  /\ LongestInterval \in Nat
  /\ \A n \in UploadIntervals \union FocusUploadIntervals : n <= LongestInterval
  /\ RetryBackoff \in Nat \ {0}
  /\ MaxRequest \in Nat \ {0}

VARIABLES
  sinceHeartbeat, sinceConfig,          \* ticks since the last completion
  sinceFocus, sinceUpload, sinceGatt,   \* the same, up to the longest interval
  uploadInterval, focusUploadInterval,  \* the configuration in force
  focusActive,        \* tracking.active
  modeChanged,        \* trackingConfigChanged
  focusPending,       \* trackingUploadPending()
  backlog,            \* observations: 0 none, 1 up to a frame, 2 more than a frame
  retryPending,       \* an observation batch waits under its identifier
  gattPending,        \* gattResultIsPending()
  consecutive,        \* consecutiveTrackingUploads
  serving,            \* the request on the line
  elapsed,            \* ticks it has been there
  passedOver          \* history: other requests begun while an upload was due,
                      \* since the last focus upload that outlasted the deadline

ages == <<sinceHeartbeat, sinceConfig, sinceFocus, sinceUpload, sinceGatt>>
configuration == <<uploadInterval, focusUploadInterval, focusActive, modeChanged>>
queues == <<focusPending, backlog, retryPending, gattPending>>
line == <<consecutive, serving, elapsed, passedOver>>
vars == <<ages, configuration, queues, line>>

Kind == {"heartbeat", "config", "focus", "upload", "gatt"}

-----------------------------------------------------------------------------
(* What is due.                                                              *)

RefreshInterval == IF focusActive THEN FocusConfigInterval ELSE ConfigInterval

ConfigDue == sinceConfig >= RefreshInterval

\* Fault: the deadline has no margin over the ordinary refresh.
ConfigHardDueEarly == sinceConfig >= RefreshInterval

\* Fault: there is no deadline.
ConfigNeverHardDue == FALSE

ConfigHardDue == sinceConfig >= 2 * RefreshInterval
FocusDue == focusActive /\ focusPending /\ sinceFocus >= focusUploadInterval
ObservationDue ==
  /\ backlog > 0
  /\ (backlog = 2 /\ ~retryPending) \/ sinceUpload >= uploadInterval
GattDue == gattPending /\ sinceGatt >= RetryBackoff

\* Fault: the heartbeat waits for the observations.
HeartbeatAfterUploads == sinceHeartbeat >= HeartbeatInterval /\ ~ObservationDue

HeartbeatDue == sinceHeartbeat >= HeartbeatInterval

\* A focus upload that goes before the observations: two in a row at most.
FocusTurn == FocusDue /\ consecutive < 2

NothingDue ==
  ~HeartbeatDue /\ ~ConfigDue /\ ~FocusDue /\ ~ObservationDue /\ ~GattDue

Init ==
  /\ sinceHeartbeat = HeartbeatInterval
  /\ sinceConfig = 2 * ConfigInterval
  /\ uploadInterval \in UploadIntervals
  /\ focusUploadInterval \in FocusUploadIntervals
  /\ sinceFocus = LongestInterval
  /\ sinceUpload = LongestInterval
  /\ sinceGatt = RetryBackoff
  /\ focusActive = FALSE /\ modeChanged = FALSE /\ focusPending = FALSE
  /\ backlog = 0 /\ retryPending = FALSE /\ gattPending = FALSE
  /\ consecutive = 0 /\ serving = "none" /\ elapsed = 0 /\ passedOver = 0

-----------------------------------------------------------------------------
(* The loop of transportTask: one alternative per branch of its else-if.     *)

Begin(kind) ==
  /\ serving = "none"
  /\ serving' = kind
  /\ elapsed' = 0
  /\ passedOver' = IF kind # "upload" /\ ObservationDue THEN passedOver + 1 ELSE 0
  /\ UNCHANGED <<ages, configuration, queues, consecutive>>

BeginHeartbeat == HeartbeatDue /\ Begin("heartbeat")

BeginConfig ==
  /\ ~HeartbeatDue
  /\ ConfigHardDue \/ (ConfigDue /\ ~FocusTurn /\ ~ObservationDue /\ ~GattDue)
  /\ Begin("config")

BeginFocus ==
  /\ ~HeartbeatDue /\ ~ConfigHardDue
  /\ FocusTurn \/ (FocusDue /\ ~ObservationDue /\ ~GattDue /\ ~ConfigDue)
  /\ Begin("focus")

BeginUpload ==
  /\ ~HeartbeatDue /\ ~ConfigHardDue /\ ~FocusTurn
  /\ ObservationDue
  /\ Begin("upload")

BeginGatt ==
  /\ ~HeartbeatDue /\ ~ConfigHardDue /\ ~FocusTurn /\ ~ObservationDue
  /\ GattDue
  /\ Begin("gatt")

\* The request is over, answered or timed out; the branch's last statements.
\* The consecutive count starts again at one after the lowest branch.
Complete(kind) ==
  /\ serving = kind
  /\ serving' = "none"
  /\ elapsed' = 0
  /\ consecutive' = IF kind # "focus" THEN 0 ELSE IF consecutive < 2 THEN consecutive + 1 ELSE 1
  /\ kind # "focus" => passedOver' = passedOver
  /\ UNCHANGED configuration

\* A focus upload has held the line until the configuration is overdue whenever
\* it was fetched.
Outlasts == elapsed >= 2 * FocusConfigInterval

CompleteHeartbeat ==
  /\ Complete("heartbeat")
  /\ sinceHeartbeat' = 0
  /\ UNCHANGED <<sinceConfig, sinceFocus, sinceUpload, sinceGatt, queues>>

CompleteConfig ==
  /\ Complete("config")
  /\ sinceConfig' = 0
  /\ UNCHANGED <<sinceHeartbeat, sinceFocus, sinceUpload, sinceGatt, queues>>

CompleteFocus ==
  /\ Complete("focus")
  /\ passedOver' = IF Outlasts THEN 0 ELSE passedOver
  /\ sinceFocus' = 0
  /\ focusPending' \in {FALSE, focusPending}
  /\ UNCHANGED <<sinceHeartbeat, sinceConfig, sinceUpload, sinceGatt,
                 backlog, retryPending, gattPending>>

\* uploadBatch: acknowledged; not acknowledged; or it did not fit in the frame
\* and was halved or dropped without a request.
CompleteUpload ==
  /\ Complete("upload")
  /\ sinceUpload' = 0
  /\ \/ /\ backlog' \in 0 .. backlog
        /\ retryPending' = FALSE
     \/ /\ backlog > 0
        /\ backlog' = backlog
        /\ retryPending' = TRUE
  /\ UNCHANGED <<sinceHeartbeat, sinceConfig, sinceFocus, sinceGatt,
                 focusPending, gattPending>>

\* uploadGattEnrichment: acknowledged or dropped, or kept for a retry.
CompleteGatt ==
  /\ Complete("gatt")
  /\ sinceGatt' = 0
  /\ gattPending' \in {FALSE, gattPending}
  /\ UNCHANGED <<sinceHeartbeat, sinceConfig, sinceFocus, sinceUpload,
                 focusPending, backlog, retryPending>>

-----------------------------------------------------------------------------
(* Time.  vTaskDelay sleeps only when nothing is due; the response timeout   *)
(* ends a request.                                                           *)

Older(age, limit) == IF age < limit THEN age + 1 ELSE age

\* Fault: a request waits for its answer for ever.
TickWithoutTimeout ==
  /\ \/ serving = "none" /\ NothingDue /\ UNCHANGED elapsed
     \/ serving # "none" /\ elapsed' = elapsed + 1
  /\ sinceHeartbeat' = sinceHeartbeat + 1
  /\ sinceConfig' = sinceConfig + 1
  /\ UNCHANGED <<sinceFocus, sinceUpload, sinceGatt, configuration, queues, consecutive,
                 serving, passedOver>>

Tick ==
  /\ \/ serving = "none" /\ NothingDue /\ UNCHANGED elapsed
     \/ serving # "none" /\ elapsed < MaxRequest /\ elapsed' = elapsed + 1
  /\ sinceHeartbeat' = sinceHeartbeat + 1
  /\ sinceConfig' = sinceConfig + 1
  /\ sinceFocus' = Older(sinceFocus, LongestInterval)
  /\ sinceUpload' = Older(sinceUpload, LongestInterval)
  /\ sinceGatt' = Older(sinceGatt, RetryBackoff)
  /\ UNCHANGED <<configuration, queues, consecutive, serving, passedOver>>

-----------------------------------------------------------------------------
(* The other tasks.                                                          *)

\* pushObservation, from the radio callback
Observe ==
  /\ backlog < 2
  /\ backlog' = backlog + 1
  /\ UNCHANGED <<ages, configuration, focusPending, retryPending, gattPending, line>>

\* captureTrackingSample, from the radio callback
CaptureSample ==
  /\ focusActive /\ ~focusPending
  /\ focusPending' = TRUE
  /\ UNCHANGED <<ages, configuration, backlog, retryPending, gattPending, line>>

\* storeGattResult, when loop() collects a finished GATT operation
StoreGattResult ==
  /\ ~gattPending
  /\ gattPending' = TRUE
  /\ UNCHANGED <<ages, configuration, focusPending, backlog, retryPending, line>>

\* applyConfig: other intervals, or another batch size, which moves the border
\* between one frame and more; with other focus targets the ring of samples is
\* emptied, an upload under retry stays until uploadTrackingBatch discards it.
ApplyConfig ==
  /\ uploadInterval' \in UploadIntervals
  /\ focusUploadInterval' \in FocusUploadIntervals
  /\ backlog' \in IF backlog = 0 THEN {0} ELSE {1, 2}
  /\ \/ UNCHANGED <<focusActive, focusPending, modeChanged>>
     \/ /\ focusActive' \in BOOLEAN
        /\ focusPending' \in {FALSE, focusPending}
        /\ modeChanged' = TRUE
  /\ UNCHANGED <<ages, retryPending, gattPending, consecutive, serving, elapsed>>
  /\ passedOver' = IF ObservationDue' THEN passedOver ELSE 0

\* Later in loop(): the first upload of a focus waits a whole interval.  (The
\* result of a GATT operation it cancels comes by StoreGattResult.)
ApplyTrackingModeChange ==
  /\ modeChanged
  /\ modeChanged' = FALSE
  /\ sinceFocus' = IF focusActive THEN 0 ELSE sinceFocus
  /\ UNCHANGED <<sinceHeartbeat, sinceConfig, sinceUpload, sinceGatt, uploadInterval,
                 focusUploadInterval, focusActive, queues, line>>

Next ==
  \/ BeginHeartbeat \/ BeginConfig \/ BeginFocus \/ BeginUpload \/ BeginGatt
  \/ CompleteHeartbeat \/ CompleteConfig \/ CompleteFocus \/ CompleteUpload \/ CompleteGatt
  \/ Tick
  \/ Observe \/ CaptureSample \/ StoreGattResult
  \/ ApplyConfig \/ ApplyTrackingModeChange

Spec == Init /\ [][Next]_vars

-----------------------------------------------------------------------------
TypeOK ==
  /\ sinceHeartbeat \in Nat /\ sinceConfig \in Nat
  /\ sinceFocus \in Nat /\ sinceUpload \in Nat /\ sinceGatt \in Nat
  /\ uploadInterval \in UploadIntervals /\ focusUploadInterval \in FocusUploadIntervals
  /\ focusActive \in BOOLEAN /\ modeChanged \in BOOLEAN /\ focusPending \in BOOLEAN
  /\ backlog \in 0 .. 2 /\ retryPending \in BOOLEAN /\ gattPending \in BOOLEAN
  /\ consecutive \in 0 .. 2
  /\ serving \in Kind \union {"none"}
  /\ elapsed \in 0 .. MaxRequest
  /\ passedOver \in Nat

\* A heartbeat completes at most two response timeouts late, whatever the other
\* queues hold: the request that was on the line when it fell due, and its own.
HeartbeatDeadline == sinceHeartbeat <= HeartbeatInterval + 2 * MaxRequest

\* A configuration fetch completes at most three timeouts after its hard
\* deadline: the request on the line, a heartbeat, and its own.
ConfigDeadline == sinceConfig <= 2 * ConfigInterval + 3 * MaxRequest

\* An observation upload that is due gets its turn: at most seven requests are
\* begun before it, unless a focus upload outlasts the hard deadline of the
\* configuration.  Then a fetch goes first and starts the count of consecutive
\* focus uploads again, the next focus upload goes before the observations too,
\* and nothing bounds how often that happens: the count of requests passed over
\* starts again with each such upload.
ObservationTurn == passedOver <= 7
=============================================================================
