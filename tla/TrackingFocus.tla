---------------------------- MODULE TrackingFocus ----------------------------
(***************************************************************************)
(* Focused tracking of one scanner, from the advertisement to the row: the *)
(* radio callback captures samples of the targets of the assigned session  *)
(* (captureTrackingSample), loop() replaces the assignment when a new      *)
(* configuration has come (applyConfig), the transport task sends samples  *)
(* in batches (uploadTrackingBatch), and the backend stores them           *)
(* (ingest_tracking_samples).  The three tasks of the firmware run on two  *)
(* cores; uploadTrackingBatch reads the configuration under one mutex and  *)
(* takes samples under another, so applyConfig may come between.           *)
(*                                                                         *)
(* On the backend a session is active or ended; how it gets there is left  *)
(* to the operator and to the clock.  The line is as in                    *)
(* ObservationDelivery without its stale acknowledgements: stop-and-wait,  *)
(* frames and answers get lost, and a batch that timed out may still be    *)
(* with a backend thread.                                                  *)
(***************************************************************************)
EXTENDS Naturals, Sequences, SequencesExt, FiniteSets

CONSTANTS
  TargetLists,    \* what _tracking_targets may find: sequences of addresses
  BufferSize,     \* TRACKING_SAMPLE_BUFFER_SIZE
  FrameSamples,   \* MAX_TRACKING_SERIAL_FRAME_SAMPLES
  MaxSessions,    \* bound on the sessions started
  MaxRefreshes,   \* bound on the refreshes of a session's targets
  MaxCaptures,    \* bound on the samples captured
  MaxBoots,       \* bound on the boots of the scanner
  MaxLingering    \* bound on the frames that backend threads have past a timeout

ASSUME SizesAssumption ==
  /\ BufferSize \in Nat \ {0}
  /\ FrameSamples \in Nat \ {0}
  /\ MaxBoots \in Nat \ {0}
  /\ {MaxSessions, MaxRefreshes, MaxCaptures, MaxLingering} \subseteq Nat
ASSUME TargetsAssumption ==
  \A list \in TargetLists :
    /\ list \in Seq(ToSet(list)) /\ list # <<>>
    /\ IsInjective(list)

VARIABLES
  (* Backend. *)
  sessions,       \* the tracking sessions: state and target_identities
  rows,           \* device_tracking_samples
  (* Firmware: configuration. *)
  pendingConfig,  \* pendingSerialConfig, at most one
  config,         \* trackingConfig
  generation,     \* trackingConfigGeneration
  sequence,       \* trackingSequence
  (* Firmware: samples. *)
  ring,           \* trackingSampleBuffer
  batch,          \* the pendingTracking variables: the batch under retry, if any
  (* Firmware: transport task. *)
  upload,         \* the locals of uploadTrackingBatch and how far it is
  (* Line and backend threads. *)
  lingering,      \* frames whose request timed out and which a thread still has
  (* History. *)
  boot,           \* the number of the boot
  captures,       \* what each sample was captured for
  original,       \* the frame in which the batch under retry was first sent
  raced,          \* captures taken under a configuration newer than the snapshot
  refreshes       \* how often targets were refreshed

backendVars == <<sessions, rows>>
configVars == <<config, generation, sequence>>
sampleVars == <<ring, batch>>
history == <<boot, captures, original, raced, refreshes>>
vars == <<backendVars, pendingConfig, configVars, sampleVars, upload, lingering, history>>

Off == [session |-> 0, targets |-> <<>>]
NoBatch == [samples |-> <<>>, generation |-> 0]
NoFrame == [session |-> 0, samples |-> <<>>]
Idle == [stage |-> "idle"]

SessionIds == 1 .. Len(sessions)
Active(s) == s \in SessionIds /\ sessions[s].state = "active"

\* tracking_focus_for_scanner: what the configuration says of tracking.
Focus ==
  IF \E s \in SessionIds : Active(s)
    THEN LET s == CHOOSE s \in SessionIds : Active(s)
         IN  [session |-> s, targets |-> sessions[s].targets]
    ELSE Off

Init ==
  /\ sessions = <<>>
  /\ rows = {}
  /\ pendingConfig = <<>>
  /\ config = Off
  /\ generation = 0
  /\ sequence = 0
  /\ ring = <<>>
  /\ batch = NoBatch
  /\ upload = Idle
  /\ lingering = {}
  /\ boot = 1
  /\ captures = <<>>
  /\ original = NoFrame
  /\ raced = {}
  /\ refreshes = 0

-----------------------------------------------------------------------------
(* Sessions.                                                               *)

\* start_tracking_session, for a scanner that has no active one.
StartSession(targets) ==
  /\ Len(sessions) < MaxSessions
  /\ \A s \in SessionIds : ~Active(s)
  /\ sessions' = Append(sessions, [state |-> "active", targets |-> targets])
  /\ UNCHANGED <<rows, pendingConfig, configVars, sampleVars, upload, lingering, history>>

\* _finish_session: the operator stops it, or its lease is over.
FinishSession(s) ==
  /\ Active(s)
  /\ sessions' = [sessions EXCEPT ![s].state = "ended"]
  /\ UNCHANGED <<rows, pendingConfig, configVars, sampleVars, upload, lingering, history>>

\* refresh_tracking_targets_for_scanner, after an observation batch.
RefreshTargets(s, targets) ==
  /\ Active(s)
  /\ refreshes < MaxRefreshes
  /\ targets # sessions[s].targets
  /\ sessions' = [sessions EXCEPT ![s].targets = targets]
  /\ refreshes' = refreshes + 1
  /\ UNCHANGED <<rows, pendingConfig, configVars, sampleVars, upload, lingering,
                 boot, captures, original, raced>>

-----------------------------------------------------------------------------
(* Configuration.                                                          *)

\* fetchConfig: the configuration line comes before the acknowledgement.
FetchConfig ==
  /\ upload = Idle
  /\ pendingConfig' = <<Focus>>
  /\ UNCHANGED <<backendVars, configVars, sampleVars, upload, lingering, history>>

\* Fault: the samples of the old targets stay in the ring.
ApplyKeepingRing ==
  /\ pendingConfig # <<>>
  /\ pendingConfig' = <<>>
  /\ IF Head(pendingConfig) # config
       THEN /\ config' = Head(pendingConfig)
            /\ generation' = generation + 1
            /\ sequence' = 0
       ELSE UNCHANGED configVars
  /\ UNCHANGED <<backendVars, sampleVars, upload, lingering, history>>

\* Fault: a configuration without a focus changes nothing.
ApplyActiveOnly ==
  /\ pendingConfig # <<>>
  /\ pendingConfig' = <<>>
  /\ IF Head(pendingConfig) \notin {config, Off}
       THEN /\ config' = Head(pendingConfig)
            /\ generation' = generation + 1
            /\ sequence' = 0
            /\ ring' = <<>>
       ELSE UNCHANGED <<configVars, ring>>
  /\ UNCHANGED <<backendVars, batch, upload, lingering, history>>

\* applyPendingSerialControl and applyConfig, in loop().
ApplyConfig ==
  /\ pendingConfig # <<>>
  /\ pendingConfig' = <<>>
  /\ IF Head(pendingConfig) # config
       THEN /\ config' = Head(pendingConfig)
            /\ generation' = generation + 1
            /\ sequence' = 0
            /\ ring' = <<>>
       ELSE UNCHANGED <<configVars, ring>>
  /\ UNCHANGED <<backendVars, batch, upload, lingering, history>>

-----------------------------------------------------------------------------
(* Capture.                                                                *)

\* Fault: a full ring grows.
CaptureWithoutDropping(i) ==
  LET sample == [capture |-> Len(captures) + 1, sequence |-> sequence + 1, target |-> i]
  IN  /\ Len(captures) < MaxCaptures
      /\ i \in DOMAIN config.targets
      /\ sequence' = sequence + 1
      /\ ring' = Append(ring, sample)
      /\ captures' = Append(captures, [session |-> config.session,
                                       address |-> config.targets[i]])
      /\ UNCHANGED <<backendVars, pendingConfig, config, generation, batch, upload,
                     lingering, boot, original, raced, refreshes>>

\* captureTrackingSample: an advertisement of the target at index i.
CaptureTrackingSample(i) ==
  LET sample == [capture |-> Len(captures) + 1, sequence |-> sequence + 1, target |-> i]
  IN  /\ Len(captures) < MaxCaptures
      /\ i \in DOMAIN config.targets
      /\ sequence' = sequence + 1
      /\ ring' = Append(IF Len(ring) = BufferSize THEN Tail(ring) ELSE ring, sample)
      /\ captures' = Append(captures, [session |-> config.session,
                                       address |-> config.targets[i]])
      /\ UNCHANGED <<backendVars, pendingConfig, config, generation, batch, upload,
                     lingering, boot, original, raced, refreshes>>

-----------------------------------------------------------------------------
(* uploadTrackingBatch.                                                    *)

Pending == batch # NoBatch

\* Fault: whether the configuration has changed is not asked.
OutdatedNever == FALSE

\* A batch of an earlier configuration is not sent again.
Outdated == Pending /\ batch.generation # generation

\* transportTask: a focus and something to send make an upload due.
TrackingDue ==
  /\ upload = Idle
  /\ config # Off
  /\ Pending \/ ring # <<>>
  /\ upload' = [stage |-> "due"]
  /\ UNCHANGED <<backendVars, pendingConfig, configVars, sampleVars, lingering, history>>

\* The snapshot, under trackingConfigMutex; the focus may be gone by now.
BeginUpload ==
  /\ upload.stage = "due"
  /\ IF Outdated
       THEN batch' = NoBatch /\ original' = NoFrame
       ELSE UNCHANGED <<batch, original>>
  /\ upload' = IF config = Off
                 THEN Idle
                 ELSE [stage |-> "begun", config |-> config, generation |-> generation]
  /\ UNCHANGED <<backendVars, pendingConfig, configVars, ring, lingering, boot, captures,
                 raced, refreshes>>

\* Fault: a retry takes along what has been captured since.
NextBatchRefilled ==
  LET samples == batch.samples \o ring
  IN  [samples |-> SubSeq(samples, 1, IF Len(samples) < FrameSamples THEN Len(samples)
                                                                   ELSE FrameSamples),
       generation |-> upload.generation]

\* The batch that is sent now: the one under retry, or what the ring holds, under
\* trackingBufferMux alone.
NextBatch ==
  IF Pending
    THEN batch
    ELSE [samples |-> SubSeq(ring, 1, IF Len(ring) < FrameSamples THEN Len(ring)
                                                                  ELSE FrameSamples),
          generation |-> upload.generation]

\* The frame: samples are labelled by the snapshot.
Frame(b) ==
  [session |-> upload.config.session,
   samples |-> [k \in DOMAIN b.samples |->
                  [capture |-> b.samples[k].capture,
                   id |-> <<upload.config.session, b.samples[k].sequence>>,
                   address |-> upload.config.targets[b.samples[k].target]]]]

Labelled(b) ==
  \A k \in DOMAIN b.samples : b.samples[k].target \in DOMAIN upload.config.targets

\* The samples of a new batch leave the ring.
TakeBatch ==
  IF Pending
    THEN UNCHANGED <<ring, raced>>
    ELSE LET taken == Len(NextBatch.samples)
         IN  /\ ring' = SubSeq(ring, taken + 1, Len(ring))
             /\ raced' = IF upload.generation = generation
                           THEN raced
                           ELSE raced \cup {ring[k].capture : k \in 1 .. taken}

\* The ring is empty.
SendNothing ==
  /\ upload.stage = "begun"
  /\ NextBatch.samples = <<>>
  /\ upload' = Idle
  /\ UNCHANGED <<backendVars, pendingConfig, configVars, sampleVars, lingering, history>>

\* A sample of a target that the snapshot does not have: no frame.
SendRefused ==
  /\ upload.stage = "begun"
  /\ NextBatch.samples # <<>>
  /\ ~Labelled(NextBatch)
  /\ TakeBatch
  /\ batch' = NextBatch
  /\ upload' = Idle
  /\ UNCHANGED <<backendVars, pendingConfig, configVars, lingering, boot, captures,
                 original, refreshes>>

SendBatch ==
  /\ upload.stage = "begun"
  /\ NextBatch.samples # <<>>
  /\ Labelled(NextBatch)
  /\ TakeBatch
  /\ batch' = NextBatch
  /\ upload' = [stage |-> "sent", frame |-> Frame(NextBatch), answer |-> "none"]
  /\ original' = IF Pending THEN original ELSE Frame(NextBatch)
  /\ UNCHANGED <<backendVars, pendingConfig, configVars, lingering, boot, captures,
                 refreshes>>

\* The answer has come: 2xx releases the batch.
FinishUpload ==
  /\ upload.stage = "sent"
  /\ upload.answer # "none"
  /\ IF upload.answer = "ok"
       THEN batch' = NoBatch /\ original' = NoFrame
       ELSE UNCHANGED <<batch, original>>
  /\ upload' = Idle
  /\ UNCHANGED <<backendVars, pendingConfig, configVars, ring, lingering, boot, captures,
                 raced, refreshes>>

\* Nobody waits for the frame any more: it is lost, or a thread still has it.
KeepOrLose(frame) ==
  \/ UNCHANGED lingering
  \/ /\ Cardinality(lingering \cup {frame}) <= MaxLingering
     /\ lingering' = lingering \cup {frame}

\* waitForBridgeResponse gives up.
ResponseTimeout ==
  /\ upload.stage = "sent"
  /\ upload.answer = "none"
  /\ KeepOrLose(upload.frame)
  /\ upload' = Idle
  /\ UNCHANGED <<backendVars, pendingConfig, configVars, sampleVars, history>>

\* A reset; setup.
Reboot ==
  /\ boot < MaxBoots
  /\ boot' = boot + 1
  /\ pendingConfig' = <<>>
  /\ config' = Off
  /\ generation' = 0
  /\ sequence' = 0
  /\ ring' = <<>>
  /\ batch' = NoBatch
  /\ original' = NoFrame
  /\ upload' = Idle
  /\ IF upload.stage = "sent" /\ upload.answer = "none"
       THEN KeepOrLose(upload.frame)
       ELSE UNCHANGED lingering
  /\ UNCHANGED <<backendVars, captures, raced, refreshes>>

-----------------------------------------------------------------------------
(* ingest_tracking_samples.                                                *)

\* The samples of the frame that become rows: identifiers not yet seen, addresses
\* of the session's targets of now.
Accepted(frame) ==
  {frame.samples[k] : k \in {k \in DOMAIN frame.samples :
     /\ \A row \in rows : row.id # frame.samples[k].id
     /\ frame.samples[k].address \in ToSet(sessions[frame.session].targets)}}

\* One transaction.  A session that has ended takes nothing and is no error.
Ingest(frame) ==
  IF Active(frame.session)
    THEN rows' = rows \cup Accepted(frame) /\ UNCHANGED sessions
    ELSE UNCHANGED backendVars

\* The request is processed; its answer reaches the firmware or is lost.
IngestSent(answer) ==
  /\ upload.stage = "sent"
  /\ upload.answer = "none"
  /\ Ingest(upload.frame)
  /\ \/ answer = "ok" /\ upload' = [upload EXCEPT !.answer = "ok"]
     \/ answer = "lost" /\ upload' = Idle
  /\ UNCHANGED <<pendingConfig, configVars, sampleVars, lingering, history>>

\* The bridge rejects the frame, or the transaction fails: a conflict with a copy
\* of the same samples, a busy database.
IngestFails ==
  /\ upload.stage = "sent"
  /\ upload.answer = "none"
  /\ upload' = [upload EXCEPT !.answer = "error"]
  /\ UNCHANGED <<backendVars, pendingConfig, configVars, sampleVars, lingering, history>>

IngestLingering(frame) ==
  /\ frame \in lingering
  /\ lingering' = lingering \ {frame}
  /\ Ingest(frame) \/ UNCHANGED backendVars
  /\ UNCHANGED <<pendingConfig, configVars, sampleVars, upload, history>>

-----------------------------------------------------------------------------
Next ==
  \/ \E targets \in TargetLists : StartSession(targets)
  \/ \E s \in SessionIds : FinishSession(s)
  \/ \E s \in SessionIds, targets \in TargetLists : RefreshTargets(s, targets)
  \/ FetchConfig
  \/ ApplyConfig
  \/ \E i \in DOMAIN config.targets : CaptureTrackingSample(i)
  \/ TrackingDue
  \/ BeginUpload
  \/ SendNothing
  \/ SendRefused
  \/ SendBatch
  \/ FinishUpload
  \/ ResponseTimeout
  \/ \E answer \in {"ok", "lost"} : IngestSent(answer)
  \/ IngestFails
  \/ \E frame \in lingering : IngestLingering(frame)
  \/ Reboot

Spec == Init /\ [][Next]_vars

\* loop() applies what has come.  The transport task finishes what it began and
\* gives both kinds of request their turn (TransportScheduler).  A frame is not
\* lost or refused every time.
Fairness ==
  /\ WF_vars(ApplyConfig)
  /\ SF_vars(FetchConfig)
  /\ SF_vars(TrackingDue)
  /\ WF_vars(BeginUpload)
  /\ WF_vars(SendNothing \/ SendRefused \/ SendBatch)
  /\ SF_vars(IngestSent("ok"))
  /\ WF_vars(FinishUpload)
  /\ WF_vars(ResponseTimeout)

FairSpec == Spec /\ Fairness

-----------------------------------------------------------------------------
(* Properties.                                                             *)

Addresses == UNION {ToSet(list) : list \in TargetLists}
FocusValues == [session : 1 .. MaxSessions, targets : TargetLists] \cup {Off}
CapturedSamples == [capture : 1 .. MaxCaptures, sequence : 1 .. MaxCaptures, target : Nat]
Labels == [capture : 1 .. MaxCaptures, id : (1 .. MaxSessions) \X (1 .. MaxCaptures),
           address : Addresses]
Frames == [session : 1 .. MaxSessions, samples : Seq(Labels)]

\* Type invariant; the ring and the batch stay within their sizes.
TypeOK ==
  /\ sessions \in Seq([state : {"active", "ended"}, targets : TargetLists])
  /\ Len(sessions) <= MaxSessions
  /\ rows \subseteq Labels
  /\ pendingConfig \in Seq(FocusValues) /\ Len(pendingConfig) <= 1
  /\ config \in FocusValues
  /\ generation \in Nat
  /\ sequence \in 0 .. MaxCaptures
  /\ ring \in Seq(CapturedSamples) /\ Len(ring) <= BufferSize
  /\ batch \in [samples : Seq(CapturedSamples), generation : Nat]
  /\ Len(batch.samples) <= FrameSamples
  /\ \/ upload \in [stage : {"idle", "due"}]
     \/ upload \in [stage : {"begun"}, config : FocusValues \ {Off}, generation : Nat]
     \/ upload \in [stage : {"sent"}, frame : Frames, answer : {"none", "ok", "error"}]
  /\ lingering \subseteq Frames /\ Cardinality(lingering) <= MaxLingering
  /\ original \in Frames \cup {NoFrame}
  /\ boot \in 1 .. MaxBoots
  /\ captures \in Seq([session : 1 .. MaxSessions, address : Addresses])
  /\ raced \subseteq 1 .. MaxCaptures
  /\ refreshes \in 0 .. MaxRefreshes

\* A batch that was sent is immutable: whatever happens to the configuration
\* before it is acknowledged, it is sent again as it was or not at all
\* (CHANGELOG.md:885, "a separate immutable in-flight batch").
RetriedUnchanged ==
  upload.stage = "sent" => upload.frame = original

\* A measurement is stored once, however often its batch is sent and however long
\* a copy of the batch stays with a thread.
NoSampleTwice ==
  \A q, r \in rows : q.capture = r.capture => q = r

\* A measurement is stored for the session and the address it was captured for,
\* although the firmware keeps only a target index with it.  The exception is a
\* sample that was captured after applyConfig and taken by an upload that had its
\* snapshot from before.
StoredAsCaptured ==
  \A r \in rows : r.capture \notin raced =>
    captures[r.capture] = [session |-> r.id[1], address |-> r.address]

\* A sample identifier names one measurement ("stable sample and batch
\* identifiers", CHANGELOG.md:875).  The code does not keep it: the identifier is
\* the session and trackingSequence, and the sequence starts again with every
\* change of the targets and with every boot.
SampleIdsNameSamples ==
  upload.stage = "sent" =>
    \A sample \in ToSet(upload.frame.samples), row \in rows :
      sample.id = row.id => sample.capture = row.capture

Held(n) ==
  \/ \E k \in DOMAIN ring : ring[k].capture = n
  \/ \E k \in DOMAIN batch.samples : batch.samples[k].capture = n

\* While there is a focus no sample stays in the firmware for ever: neither a batch
\* that cannot be labelled nor one of an earlier configuration blocks the queue.
\* (Without a focus nothing is uploaded: a batch under retry waits for the next
\* focus, which discards it.)
SamplesLeave ==
  \A n \in 1 .. MaxCaptures : Held(n) ~> (~Held(n) \/ config = Off)

\* A session that has ended is over on the scanner too, for good.
FocusFollows ==
  \A s \in 1 .. MaxSessions :
    (s \in SessionIds /\ ~Active(s)) ~> [](config.session # s)
=============================================================================
