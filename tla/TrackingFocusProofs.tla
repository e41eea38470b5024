------------------------ MODULE TrackingFocusProofs ------------------------
(***************************************************************************)
(* Theorems about TrackingFocus, for any targets, buffer sizes and bounds. *)
(***************************************************************************)
EXTENDS TrackingFocus, SequenceTheorems, FiniteSetTheorems, TLAPS

\* What TypeOK needs to be inductive: sequence numbers count captures.
TypeInv ==
  /\ TypeOK
  /\ sequence <= Len(captures)
  /\ Len(captures) <= MaxCaptures
  /\ IsFiniteSet(lingering)

\* A target of a focus has one of the addresses.
LEMMA TargetAddress ==
  ASSUME NEW list \in TargetLists, NEW i \in DOMAIN list
  PROVE  list[i] \in Addresses
  BY DEF Addresses, ToSet

\* What the configuration says of tracking is a focus or none.
LEMMA FocusType == TypeOK => Focus \in FocusValues
  <1> SUFFICES ASSUME TypeOK, NEW t, t = (CHOOSE s \in SessionIds : Active(s)),
                      \E s \in SessionIds : Active(s)
               PROVE  [session |-> t, targets |-> sessions[t].targets] \in FocusValues
    BY DEF Focus, FocusValues
  <1>1. t \in SessionIds
    OBVIOUS
  <1>2. sessions \in Seq([state : {"active", "ended"}, targets : TargetLists])
        /\ Len(sessions) \in Nat /\ Len(sessions) <= MaxSessions /\ MaxSessions \in Nat
    BY SizesAssumption DEF TypeOK
  <1>3. t \in 1 .. Len(sessions)
    BY <1>1 DEF SessionIds
  <1>4. sessions[t] \in [state : {"active", "ended"}, targets : TargetLists]
    BY <1>2, <1>3, ElementOfSeq
  <1>5. t \in 1 .. MaxSessions
    BY <1>2, <1>3
  <1>6. QED  BY <1>4, <1>5 DEF FocusValues

\* The first samples of the ring fit in a frame, the others stay in the ring.
LEMMA Split ==
  ASSUME NEW S, NEW s \in Seq(S), NEW n \in Nat, n <= Len(s)
  PROVE  /\ SubSeq(s, 1, n) \in Seq(S) /\ Len(SubSeq(s, 1, n)) = n
         /\ SubSeq(s, n + 1, Len(s)) \in Seq(S)
         /\ Len(SubSeq(s, n + 1, Len(s))) <= Len(s)
  <1>1. Len(s) \in Nat /\ \A k \in 1 .. Len(s) : s[k] \in S
    OBVIOUS
  <1>2. SubSeq(s, 1, n) \in Seq(S) /\ Len(SubSeq(s, 1, n)) = n
    BY <1>1, SubSeqProperties
  <1>3. SubSeq(s, n + 1, Len(s)) \in Seq(S) /\ Len(SubSeq(s, n + 1, Len(s))) <= Len(s)
    BY <1>1, SubSeqProperties
  <1>4. QED  BY <1>2, <1>3

\* The batch that is sent has its type, and the ring keeps its own without it.
LEMMA NextBatchType ==
  ASSUME TypeOK, upload.stage = "begun"
  PROVE  /\ NextBatch \in [samples : Seq(CapturedSamples), generation : Nat]
         /\ Len(NextBatch.samples) <= FrameSamples
         /\ upload.generation \in Nat /\ upload.config \in FocusValues \ {Off}
         /\ TakeBatch => /\ ring' \in Seq(CapturedSamples) /\ Len(ring') <= BufferSize
  <1> DEFINE n == IF Len(ring) < FrameSamples THEN Len(ring) ELSE FrameSamples
  <1>1. upload \in [stage : {"begun"}, config : FocusValues \ {Off}, generation : Nat]
    BY DEF TypeOK
  <1>2. ring \in Seq(CapturedSamples) /\ Len(ring) <= BufferSize /\ Len(ring) \in Nat
    BY DEF TypeOK
  <1>3. n \in Nat /\ n <= Len(ring) /\ n <= FrameSamples
    BY <1>2, SizesAssumption
  <1>4. CASE Pending
    BY <1>1, <1>2, <1>4 DEF NextBatch, TakeBatch, TypeOK
  <1>5. CASE ~Pending
    <2>1. NextBatch = [samples |-> SubSeq(ring, 1, n), generation |-> upload.generation]
      BY <1>5 DEF NextBatch
    <2>2. /\ SubSeq(ring, 1, n) \in Seq(CapturedSamples) /\ Len(SubSeq(ring, 1, n)) = n
          /\ SubSeq(ring, n + 1, Len(ring)) \in Seq(CapturedSamples)
          /\ Len(SubSeq(ring, n + 1, Len(ring))) <= Len(ring)
      <3> HIDE DEF n
      <3>1. QED  BY <1>2, <1>3, Split
    <2>3. TakeBatch => ring' = SubSeq(ring, n + 1, Len(ring))
      <3> HIDE DEF n
      <3>1. QED  BY <1>5, <2>1, <2>2 DEF TakeBatch
    <2>4. Len(SubSeq(ring, n + 1, Len(ring))) <= BufferSize
      <3> HIDE DEF n
      <3>1. Len(SubSeq(ring, n + 1, Len(ring))) \in Nat
        BY <2>2
      <3>2. QED  BY <1>2, <2>2, <3>1, SizesAssumption
    <2>5. QED
      <3> HIDE DEF n
      <3>1. QED  BY <1>1, <1>3, <2>1, <2>2, <2>3, <2>4
  <1>6. QED  BY <1>4, <1>5

\* A frame that is sent is a frame.
LEMMA FrameType ==
  ASSUME TypeOK, upload.stage = "begun", Labelled(NextBatch)
  PROVE  Frame(NextBatch) \in Frames
  <1> DEFINE b == NextBatch
             label(k) == [capture |-> b.samples[k].capture,
                          id |-> <<upload.config.session, b.samples[k].sequence>>,
                          address |-> upload.config.targets[b.samples[k].target]]
  <1>1. b.samples \in Seq(CapturedSamples) /\ upload.config \in FocusValues \ {Off}
    BY NextBatchType
  <1>2. upload.config.session \in 1 .. MaxSessions /\ upload.config.targets \in TargetLists
    BY <1>1 DEF FocusValues
  <1>3. \A k \in DOMAIN b.samples : b.samples[k] \in CapturedSamples
    BY <1>1
  <1>4. \A k \in DOMAIN b.samples : label(k) \in Labels
    <2>1. SUFFICES ASSUME NEW k \in DOMAIN b.samples PROVE label(k) \in Labels
      OBVIOUS
    <2>2. b.samples[k].target \in DOMAIN upload.config.targets
      BY DEF Labelled
    <2>3. upload.config.targets[b.samples[k].target] \in Addresses
      BY <1>2, <2>2, TargetAddress
    <2>4. b.samples[k].capture \in 1 .. MaxCaptures /\ b.samples[k].sequence \in 1 .. MaxCaptures
      BY <1>3 DEF CapturedSamples
    <2>5. QED  BY <1>2, <2>3, <2>4 DEF Labels
  <1>5. [k \in DOMAIN b.samples |-> label(k)] \in Seq(Labels)
    <2>1. DOMAIN b.samples = 1 .. Len(b.samples) /\ Len(b.samples) \in Nat
      BY <1>1
    <2> HIDE DEF b, label
    <2>2. QED  BY <1>4, <2>1
  <1>6. Frame(NextBatch) = [session |-> upload.config.session,
                            samples |-> [k \in DOMAIN b.samples |-> label(k)]]
    BY DEF Frame
  <1>7. QED
    <2> HIDE DEF b, label
    <2>1. QED  BY <1>2, <1>5, <1>6 DEF Frames

\* What becomes rows are samples of the frame.
LEMMA IngestType ==
  ASSUME rows \subseteq Labels, NEW frame \in Frames, Ingest(frame)
  PROVE  rows' \subseteq Labels /\ UNCHANGED sessions
  <1>1. Accepted(frame) \subseteq Labels
    BY DEF Accepted, Frames
  <1>2. QED  BY <1>1 DEF Ingest, backendVars

\* A frame nobody waits for leaves the bound on the lingering ones.
LEMMA KeepOrLoseType ==
  ASSUME lingering \subseteq Frames, IsFiniteSet(lingering),
         Cardinality(lingering) <= MaxLingering, NEW frame \in Frames, KeepOrLose(frame)
  PROVE  /\ lingering' \subseteq Frames /\ IsFiniteSet(lingering')
         /\ Cardinality(lingering') <= MaxLingering
  BY FS_AddElement DEF KeepOrLose

LEMMA TypeInitial == Init => TypeInv
  <1> SUFFICES ASSUME Init PROVE TypeInv
    OBVIOUS
  <1> USE SizesAssumption DEF Init
  <1>1. IsFiniteSet(lingering) /\ Cardinality(lingering) = 0
    BY FS_EmptySet
  <1>2. /\ sessions \in Seq([state : {"active", "ended"}, targets : TargetLists])
        /\ Len(sessions) <= MaxSessions
        /\ ring \in Seq(CapturedSamples) /\ Len(ring) <= BufferSize
        /\ captures \in Seq([session : 1 .. MaxSessions, address : Addresses])
        /\ pendingConfig \in Seq(FocusValues) /\ Len(pendingConfig) <= 1
        /\ Len(captures) = 0
    OBVIOUS
  <1>3. batch \in [samples : Seq(CapturedSamples), generation : Nat]
        /\ Len(batch.samples) <= FrameSamples
    BY DEF NoBatch
  <1>4. config \in FocusValues
    BY DEF FocusValues
  <1>5. original \in Frames \cup {NoFrame} /\ upload \in [stage : {"idle", "due"}]
    BY DEF Idle
  <1>6. rows \subseteq Labels /\ generation \in Nat /\ sequence \in 0 .. MaxCaptures
        /\ boot \in 1 .. MaxBoots /\ refreshes \in 0 .. MaxRefreshes
        /\ raced \subseteq 1 .. MaxCaptures /\ lingering \subseteq Frames
        /\ Cardinality(lingering) <= MaxLingering
        /\ sequence <= Len(captures) /\ Len(captures) <= MaxCaptures
    BY <1>1, <1>2
  <1>7. QED  BY <1>1, <1>2, <1>3, <1>4, <1>5, <1>6 DEF TypeInv, TypeOK

LEMMA TypeInductive == TypeInv /\ [Next]_vars => TypeInv'
  <1> SUFFICES ASSUME TypeInv, [Next]_vars PROVE TypeInv'
    OBVIOUS
  <1>0. TypeOK
    BY DEF TypeInv
  <1> DEFINE Session == [state : {"active", "ended"}, targets : TargetLists]
  <1>a. /\ sessions \in Seq(Session) /\ Len(sessions) \in Nat /\ Len(sessions) <= MaxSessions
        /\ MaxSessions \in Nat
    BY <1>0, SizesAssumption DEF TypeOK
  <1>1. ASSUME NEW targets \in TargetLists, StartSession(targets) PROVE TypeInv'
    <2>1. sessions' = Append(sessions, [state |-> "active", targets |-> targets])
          /\ Len(sessions) < MaxSessions
      BY <1>1 DEF StartSession
    <2>2. sessions' \in Seq(Session) /\ Len(sessions') = Len(sessions) + 1
      BY <1>a, <2>1
    <2>3. Len(sessions') <= MaxSessions
      BY <1>a, <2>1, <2>2
    <2>4. UNCHANGED <<rows, pendingConfig, configVars, sampleVars, upload, lingering, history>>
      BY <1>1 DEF StartSession
    <2>5. QED
      BY <2>2, <2>3, <2>4 DEF TypeInv, TypeOK, configVars, sampleVars, history
  <1>2. ASSUME NEW s \in SessionIds, FinishSession(s) PROVE TypeInv'
    <2>1. sessions' = [sessions EXCEPT ![s].state = "ended"]
      BY <1>2 DEF FinishSession
    <2>2. sessions' \in Seq(Session) /\ Len(sessions') = Len(sessions)
      <3>1. s \in 1 .. Len(sessions)
        BY DEF SessionIds
      <3>2. sessions[s] \in Session
        BY <1>a, <3>1, ElementOfSeq
      <3>3. [sessions[s] EXCEPT !.state = "ended"] \in Session
        BY <3>2
      <3>4. sessions' = [sessions EXCEPT ![s] = [sessions[s] EXCEPT !.state = "ended"]]
        BY <2>1
      <3>5. QED  BY <1>a, <3>1, <3>3, <3>4, ExceptSeq
    <2>3. UNCHANGED <<rows, pendingConfig, configVars, sampleVars, upload, lingering, history>>
      BY <1>2 DEF FinishSession
    <2>4. QED
      BY <1>a, <2>2, <2>3 DEF TypeInv, TypeOK, configVars, sampleVars, history
  <1>3. ASSUME NEW s \in SessionIds, NEW targets \in TargetLists, RefreshTargets(s, targets)
        PROVE  TypeInv'
    <2>1. sessions' = [sessions EXCEPT ![s].targets = targets]
      BY <1>3 DEF RefreshTargets
    <2>2. sessions' \in Seq(Session) /\ Len(sessions') = Len(sessions)
      <3>1. s \in 1 .. Len(sessions)
        BY DEF SessionIds
      <3>2. sessions[s] \in Session
        BY <1>a, <3>1, ElementOfSeq
      <3>3. [sessions[s] EXCEPT !.targets = targets] \in Session
        BY <3>2
      <3>4. sessions' = [sessions EXCEPT ![s] = [sessions[s] EXCEPT !.targets = targets]]
        BY <2>1
      <3>5. QED  BY <1>a, <3>1, <3>3, <3>4, ExceptSeq
    <2>3. refreshes' \in 0 .. MaxRefreshes
      <3>1. refreshes \in Nat /\ refreshes < MaxRefreshes /\ MaxRefreshes \in Nat
            /\ refreshes' = refreshes + 1
        BY <1>0, <1>3, SizesAssumption DEF RefreshTargets, TypeOK
      <3>2. QED  BY <3>1
    <2>4. UNCHANGED <<rows, pendingConfig, configVars, sampleVars, upload, lingering,
                      boot, captures, original, raced>>
      BY <1>3 DEF RefreshTargets
    <2>5. QED
      BY <1>a, <2>2, <2>3, <2>4 DEF TypeInv, TypeOK, configVars, sampleVars
  <1>4. ASSUME FetchConfig PROVE TypeInv'
    <2>1. <<Focus>> \in Seq(FocusValues) /\ Len(<<Focus>>) = 1
      BY <1>0, FocusType
    <2>2. QED
      BY <1>4, <2>1 DEF FetchConfig, TypeInv, TypeOK, backendVars, configVars, sampleVars, history
  <1>5. ASSUME ApplyConfig PROVE TypeInv'
    <2>1. Head(pendingConfig) \in FocusValues
      BY <1>0, <1>5 DEF ApplyConfig, TypeOK
    <2>2. /\ <<>> \in Seq(FocusValues) /\ Len(<<>>) = 0
          /\ <<>> \in Seq(CapturedSamples)
      BY EmptySeq
    <2>3. pendingConfig' \in Seq(FocusValues) /\ Len(pendingConfig') <= 1
      BY <1>5, <2>2 DEF ApplyConfig
    <2>4. ring' \in Seq(CapturedSamples) /\ Len(ring') <= BufferSize
      <3>1. ring' = <<>> \/ ring' = ring
        BY <1>5 DEF ApplyConfig
      <3>2. ring \in Seq(CapturedSamples) /\ Len(ring) <= BufferSize /\ 0 <= BufferSize
        BY <1>0, SizesAssumption DEF TypeOK
      <3>3. QED  BY <2>2, <3>1, <3>2
    <2>5. config' \in FocusValues /\ generation' \in Nat
      BY <1>0, <1>5, <2>1 DEF ApplyConfig, TypeOK, configVars
    <2>6. sequence' \in 0 .. MaxCaptures /\ sequence' <= Len(captures)
      <3>1. Len(captures) \in Nat /\ MaxCaptures \in Nat
        BY <1>0, SizesAssumption DEF TypeOK
      <3>2. QED  BY <1>5, <3>1 DEF ApplyConfig, TypeInv, TypeOK, configVars
    <2>7. UNCHANGED <<backendVars, batch, upload, lingering, history>>
      BY <1>5 DEF ApplyConfig
    <2>8. QED
      BY <2>3, <2>4, <2>5, <2>6, <2>7 DEF TypeInv, TypeOK, backendVars, history
  <1>6. ASSUME NEW i \in DOMAIN config.targets, CaptureTrackingSample(i) PROVE TypeInv'
    <2> DEFINE sample == [capture |-> Len(captures) + 1, sequence |-> sequence + 1, target |-> i]
               label == [session |-> config.session, address |-> config.targets[i]]
    <2>1. /\ Len(captures) \in Nat /\ MaxCaptures \in Nat /\ Len(captures) < MaxCaptures
          /\ sequence \in Nat /\ sequence <= Len(captures)
      BY <1>0, <1>6, SizesAssumption DEF CaptureTrackingSample, TypeOK, TypeInv
    <2>2. config.session \in 1 .. MaxSessions /\ config.targets \in TargetLists
      <3>1. config # Off
        BY DEF Off
      <3>2. QED  BY <1>0, <3>1 DEF TypeOK, FocusValues
    <2>3. i \in Nat
      BY <2>2, TargetsAssumption
    <2>4. sample \in CapturedSamples
      BY <2>1, <2>3 DEF CapturedSamples
    <2>5. label \in [session : 1 .. MaxSessions, address : Addresses]
      BY <2>2, TargetAddress
    <2>6. ring' \in Seq(CapturedSamples) /\ Len(ring') <= BufferSize
      <3>1. ring \in Seq(CapturedSamples) /\ Len(ring) <= BufferSize /\ Len(ring) \in Nat
            /\ BufferSize \in Nat \ {0}
        BY <1>0, SizesAssumption DEF TypeOK
      <3>2. PICK kept \in Seq(CapturedSamples) :
              ring' = Append(kept, sample) /\ Len(kept) < BufferSize
        <4>1. CASE Len(ring) = BufferSize
          <5>1. Tail(ring) \in Seq(CapturedSamples) /\ Len(Tail(ring)) = Len(ring) - 1
            BY <3>1, <4>1
          <5>2. Len(Tail(ring)) < BufferSize
            BY <3>1, <4>1, <5>1
          <5>3. ring' = Append(Tail(ring), sample)
            BY <1>6, <4>1 DEF CaptureTrackingSample
          <5>4. QED  BY <5>1, <5>2, <5>3
        <4>2. CASE Len(ring) # BufferSize
          BY <1>6, <3>1, <4>2 DEF CaptureTrackingSample
        <4>3. QED  BY <4>1, <4>2
      <3>3. Append(kept, sample) \in Seq(CapturedSamples)
            /\ Len(Append(kept, sample)) = Len(kept) + 1 /\ Len(kept) \in Nat
        BY <2>4, <3>2
      <3>4. QED  BY <3>1, <3>2, <3>3
    <2>7. /\ captures' \in Seq([session : 1 .. MaxSessions, address : Addresses])
          /\ Len(captures') = Len(captures) + 1
      <3>1. captures' = Append(captures, label)
        BY <1>6 DEF CaptureTrackingSample
      <3> HIDE DEF label
      <3>2. QED  BY <1>0, <2>5, <3>1 DEF TypeOK
    <2>8. sequence' = sequence + 1
      BY <1>6 DEF CaptureTrackingSample
    <2>9. sequence' \in 0 .. MaxCaptures /\ sequence' <= Len(captures')
           /\ Len(captures') <= MaxCaptures
      BY <2>1, <2>7, <2>8
    <2>10. UNCHANGED <<backendVars, pendingConfig, config, generation, batch, upload,
                       lingering, boot, original, raced, refreshes>>
      BY <1>6 DEF CaptureTrackingSample
    <2> HIDE DEF sample, label
    <2>11. QED
      BY <2>6, <2>7, <2>9, <2>10 DEF TypeInv, TypeOK, backendVars
  <1>b. /\ NoBatch \in [samples : Seq(CapturedSamples), generation : Nat]
        /\ Len(NoBatch.samples) <= FrameSamples
    BY SizesAssumption DEF NoBatch
  <1>7. ASSUME TrackingDue PROVE TypeInv'
    BY <1>7 DEF TrackingDue, TypeInv, TypeOK, backendVars, configVars, sampleVars, history
  <1>8. ASSUME BeginUpload PROVE TypeInv'
    <2>1. batch' \in [samples : Seq(CapturedSamples), generation : Nat]
          /\ Len(batch'.samples) <= FrameSamples
          /\ original' \in Frames \cup {NoFrame}
      BY <1>0, <1>8, <1>b DEF BeginUpload, TypeOK
    <2>2. \/ upload' \in [stage : {"idle", "due"}]
          \/ upload' \in [stage : {"begun"}, config : FocusValues \ {Off}, generation : Nat]
      BY <1>0, <1>8 DEF BeginUpload, TypeOK, Idle
    <2>3. UNCHANGED <<backendVars, pendingConfig, configVars, ring, lingering, boot, captures,
                      raced, refreshes>>
      BY <1>8 DEF BeginUpload
    <2>4. QED  BY <2>1, <2>2, <2>3 DEF TypeInv, TypeOK, backendVars, configVars
  <1>9. ASSUME SendNothing PROVE TypeInv'
    BY <1>9 DEF SendNothing, Idle, TypeInv, TypeOK, backendVars, configVars, sampleVars, history
  <1>c. ASSUME upload.stage = "begun", TakeBatch PROVE raced' \subseteq 1 .. MaxCaptures
    <2>1. CASE Pending
      BY <1>0, <1>c, <2>1 DEF TakeBatch, TypeOK
    <2>2. CASE ~Pending
      <3>1. raced' \subseteq raced \cup {ring[k].capture : k \in 1 .. Len(NextBatch.samples)}
        BY <1>c, <2>2 DEF TakeBatch
      <3>2. ring \in Seq(CapturedSamples) /\ Len(NextBatch.samples) <= Len(ring)
            /\ Len(NextBatch.samples) \in Nat
        <4> DEFINE n == IF Len(ring) < FrameSamples THEN Len(ring) ELSE FrameSamples
        <4>1. ring \in Seq(CapturedSamples) /\ Len(ring) \in Nat
          BY <1>0 DEF TypeOK
        <4>2. n \in Nat /\ n <= Len(ring)
          BY <4>1, SizesAssumption
        <4>3. NextBatch.samples = SubSeq(ring, 1, n)
          BY <2>2 DEF NextBatch
        <4> HIDE DEF n
        <4>4. QED  BY <4>1, <4>2, <4>3, Split
      <3>3. \A k \in 1 .. Len(NextBatch.samples) : ring[k] \in CapturedSamples
        BY <3>2
      <3>4. \A k \in 1 .. Len(NextBatch.samples) : ring[k].capture \in 1 .. MaxCaptures
        BY <3>3 DEF CapturedSamples
      <3>5. {ring[k].capture : k \in 1 .. Len(NextBatch.samples)} \subseteq 1 .. MaxCaptures
        BY <3>4
      <3>6. raced \subseteq 1 .. MaxCaptures
        BY <1>0 DEF TypeOK
      <3>7. QED  BY <3>1, <3>5, <3>6
    <2>3. QED  BY <2>1, <2>2
  <1>10. ASSUME SendRefused PROVE TypeInv'
    <2>1. /\ batch' \in [samples : Seq(CapturedSamples), generation : Nat]
          /\ Len(batch'.samples) <= FrameSamples
          /\ ring' \in Seq(CapturedSamples) /\ Len(ring') <= BufferSize
      BY <1>0, <1>10, NextBatchType DEF SendRefused
    <2>2. raced' \subseteq 1 .. MaxCaptures
      BY <1>10, <1>c DEF SendRefused
    <2>3. upload' \in [stage : {"idle", "due"}]
      BY <1>10 DEF SendRefused, Idle
    <2>4. UNCHANGED <<backendVars, pendingConfig, configVars, lingering, boot, captures,
                      original, refreshes>>
      BY <1>10 DEF SendRefused
    <2>5. QED  BY <2>1, <2>2, <2>3, <2>4 DEF TypeInv, TypeOK, backendVars, configVars
  <1>11. ASSUME SendBatch PROVE TypeInv'
    <2>1. /\ batch' \in [samples : Seq(CapturedSamples), generation : Nat]
          /\ Len(batch'.samples) <= FrameSamples
          /\ ring' \in Seq(CapturedSamples) /\ Len(ring') <= BufferSize
      BY <1>0, <1>11, NextBatchType DEF SendBatch
    <2>2. raced' \subseteq 1 .. MaxCaptures
      BY <1>11, <1>c DEF SendBatch
    <2>3. Frame(NextBatch) \in Frames
      BY <1>0, <1>11, FrameType DEF SendBatch
    <2>4. /\ upload' \in [stage : {"sent"}, frame : Frames, answer : {"none", "ok", "error"}]
          /\ original' \in Frames \cup {NoFrame}
      BY <1>0, <1>11, <2>3 DEF SendBatch, TypeOK
    <2>5. UNCHANGED <<backendVars, pendingConfig, configVars, lingering, boot, captures,
                      refreshes>>
      BY <1>11 DEF SendBatch
    <2>6. QED  BY <2>1, <2>2, <2>4, <2>5 DEF TypeInv, TypeOK, backendVars, configVars
  <1>12. ASSUME FinishUpload PROVE TypeInv'
    <2>1. batch' \in [samples : Seq(CapturedSamples), generation : Nat]
          /\ Len(batch'.samples) <= FrameSamples
          /\ original' \in Frames \cup {NoFrame}
      BY <1>0, <1>12, <1>b DEF FinishUpload, TypeOK
    <2>2. QED
      BY <1>12, <2>1 DEF FinishUpload, Idle, TypeInv, TypeOK, backendVars, configVars
  <1>d. upload.stage = "sent" =>
          upload \in [stage : {"sent"}, frame : Frames, answer : {"none", "ok", "error"}]
    BY <1>0 DEF TypeOK
  <1>e. lingering \subseteq Frames /\ IsFiniteSet(lingering)
        /\ Cardinality(lingering) <= MaxLingering
    BY DEF TypeInv, TypeOK
  <1>13. ASSUME ResponseTimeout PROVE TypeInv'
    <2>1. /\ lingering' \subseteq Frames /\ IsFiniteSet(lingering')
          /\ Cardinality(lingering') <= MaxLingering
      BY <1>13, <1>d, <1>e, KeepOrLoseType DEF ResponseTimeout
    <2>2. QED
      BY <1>13, <2>1 DEF ResponseTimeout, Idle, TypeInv, TypeOK, backendVars, configVars,
                         sampleVars, history
  <1>14. ASSUME NEW answer \in {"ok", "lost"}, IngestSent(answer) PROVE TypeInv'
    <2>1. rows' \subseteq Labels /\ UNCHANGED sessions
      BY <1>0, <1>14, <1>d, IngestType DEF IngestSent, TypeOK
    <2>2. \/ upload' \in [stage : {"idle", "due"}]
          \/ upload' \in [stage : {"sent"}, frame : Frames, answer : {"none", "ok", "error"}]
      BY <1>14, <1>d DEF IngestSent, Idle
    <2>3. UNCHANGED <<pendingConfig, configVars, sampleVars, lingering, history>>
      BY <1>14 DEF IngestSent
    <2>4. QED
      BY <1>a, <2>1, <2>2, <2>3 DEF TypeInv, TypeOK, configVars, sampleVars, history
  <1>15. ASSUME IngestFails PROVE TypeInv'
    <2>1. upload' \in [stage : {"sent"}, frame : Frames, answer : {"none", "ok", "error"}]
      BY <1>15, <1>d DEF IngestFails
    <2>2. QED
      BY <1>15, <2>1 DEF IngestFails, TypeInv, TypeOK, backendVars, configVars, sampleVars,
                         history
  <1>16. ASSUME NEW frame \in lingering, IngestLingering(frame) PROVE TypeInv'
    <2>1. rows' \subseteq Labels /\ UNCHANGED sessions
      BY <1>0, <1>16, <1>e, IngestType DEF IngestLingering, TypeOK, backendVars
    <2>2. lingering' = lingering \ {frame}
      BY <1>16 DEF IngestLingering
    <2>3. IsFiniteSet(lingering') /\ Cardinality(lingering') = Cardinality(lingering) - 1
      BY <1>e, <2>2, FS_RemoveElement
    <2>4. Cardinality(lingering) \in Nat /\ MaxLingering \in Nat
      BY <1>e, FS_CardinalityType, SizesAssumption
    <2>5. lingering' \subseteq Frames /\ Cardinality(lingering') <= MaxLingering
      BY <1>e, <2>2, <2>3, <2>4
    <2>6. UNCHANGED <<pendingConfig, configVars, sampleVars, upload, history>>
      BY <1>16 DEF IngestLingering
    <2>7. QED
      BY <1>a, <2>1, <2>3, <2>5, <2>6 DEF TypeInv, TypeOK, configVars, sampleVars, history
  <1>17. ASSUME Reboot PROVE TypeInv'
    <2>1. /\ <<>> \in Seq(FocusValues) /\ Len(<<>>) = 0
          /\ <<>> \in Seq(CapturedSamples)
      BY EmptySeq
    <2>2. /\ lingering' \subseteq Frames /\ IsFiniteSet(lingering')
          /\ Cardinality(lingering') <= MaxLingering
      BY <1>17, <1>d, <1>e, KeepOrLoseType DEF Reboot
    <2>3. /\ pendingConfig' \in Seq(FocusValues) /\ Len(pendingConfig') <= 1
          /\ ring' \in Seq(CapturedSamples) /\ Len(ring') <= BufferSize
      BY <1>17, <2>1, SizesAssumption DEF Reboot
    <2>4. boot' \in 1 .. MaxBoots
      BY <1>0, <1>17, SizesAssumption DEF Reboot, TypeOK
    <2>5. /\ batch' \in [samples : Seq(CapturedSamples), generation : Nat]
          /\ Len(batch'.samples) <= FrameSamples
          /\ config' \in FocusValues /\ generation' \in Nat
          /\ original' \in Frames \cup {NoFrame} /\ upload' \in [stage : {"idle", "due"}]
      BY <1>17, <1>b DEF Reboot, FocusValues, Idle
    <2>6. sequence' \in 0 .. MaxCaptures /\ sequence' <= Len(captures)
      <3>1. Len(captures) \in Nat /\ MaxCaptures \in Nat
        BY <1>0, SizesAssumption DEF TypeOK
      <3>2. QED  BY <1>17, <3>1 DEF Reboot
    <2>7. UNCHANGED <<backendVars, captures, raced, refreshes>>
      BY <1>17 DEF Reboot
    <2>8. QED
      BY <2>2, <2>3, <2>4, <2>5, <2>6, <2>7 DEF TypeInv, TypeOK, backendVars
  <1>18. CASE UNCHANGED vars
    BY <1>18 DEF vars, TypeInv, TypeOK, backendVars, configVars, sampleVars, history
  <1>19. QED
    BY <1>1, <1>2, <1>3, <1>4, <1>5, <1>6, <1>7, <1>8, <1>9, <1>10, <1>11, <1>12, <1>13,
       <1>14, <1>15, <1>16, <1>17, <1>18 DEF Next

\* Every reachable state is well typed, and the ring and the batch stay within
\* their sizes, for any of them.
THEOREM TypeCorrect == Spec => []TypeOK
  <1>1. TypeInv => TypeOK
    BY DEF TypeInv
  <1>2. QED  BY <1>1, TypeInitial, TypeInductive, PTL DEF Spec
-----------------------------------------------------------------------------
(* A batch is retried as it was or not at all.                             *)

\* The labels that a focus gives to the samples of a batch.
FrameBy(focus, b) ==
  [session |-> focus.session,
   samples |-> [k \in DOMAIN b.samples |->
                  [capture |-> b.samples[k].capture,
                   id |-> <<focus.session, b.samples[k].sequence>>,
                   address |-> focus.targets[b.samples[k].target]]]]

LabelledBy(focus, b) ==
  \A k \in DOMAIN b.samples : b.samples[k].target \in DOMAIN focus.targets

\* The batch under retry was sent with the labels of this focus, or cannot be sent.
SentBy(focus) ==
  LabelledBy(focus, batch) => original = FrameBy(focus, batch)

\* A generation names one configuration; so a batch of the present generation has
\* the labels of the present configuration.
RetryInv ==
  /\ Pending => batch.generation <= generation
  /\ Pending /\ batch.generation = generation => SentBy(config)
  /\ upload.stage = "begun" =>
       /\ upload.generation <= generation
       /\ upload.generation = generation => upload.config = config
       /\ Pending => batch.generation = upload.generation /\ SentBy(upload.config)
  /\ RetriedUnchanged

LEMMA RetryInitial == Init => RetryInv
  BY DEF Init, RetryInv, RetriedUnchanged, Pending, Idle

\* What only the backend, the ring and the line do leaves the batch as it is.
LEMMA RetryUnchanged ==
  ASSUME RetryInv, UNCHANGED <<batch, generation, config, upload, original>>
  PROVE  RetryInv'
  BY DEF RetryInv, RetriedUnchanged, Pending, SentBy, LabelledBy, FrameBy

\* So does the end of an upload.
LEMMA RetryIdle ==
  ASSUME RetryInv, UNCHANGED <<batch, generation, config, original>>,
         upload'.stage \in {"idle", "due"}
  PROVE  RetryInv'
  BY DEF RetryInv, RetriedUnchanged, Pending, SentBy, LabelledBy, FrameBy

LEMMA RetryInductive == TypeInv /\ RetryInv /\ [Next]_vars => RetryInv'
  <1> SUFFICES ASSUME TypeInv, RetryInv, [Next]_vars PROVE RetryInv'
    OBVIOUS
  <1>0. TypeOK /\ generation \in Nat /\ batch.generation \in Nat
    BY DEF TypeInv, TypeOK
  <1>a. upload.stage = "begun" => upload.generation \in Nat
    BY <1>0 DEF TypeOK
  <1>b. upload.stage = "sent" =>
          upload \in [stage : {"sent"}, frame : Frames, answer : {"none", "ok", "error"}]
    BY <1>0 DEF TypeOK
  <1>1. ASSUME ApplyConfig PROVE RetryInv'
    <2>1. UNCHANGED <<batch, upload, original>>
      BY <1>1 DEF ApplyConfig, history
    <2>2. CASE UNCHANGED configVars
      BY <2>1, <2>2, RetryUnchanged DEF configVars
    <2>3. CASE generation' = generation + 1
      <3>1. Pending => batch.generation <= generation
        BY DEF RetryInv
      <3>2. Pending => batch.generation <= generation + 1 /\ batch.generation # generation + 1
        BY <1>0, <3>1
      <3>3. upload.stage = "begun" => upload.generation <= generation
        BY DEF RetryInv
      <3>4. upload.stage = "begun" => /\ upload.generation <= generation + 1
                                      /\ upload.generation # generation + 1
        BY <1>0, <1>a, <3>3
      <3>5. QED
        BY <2>1, <2>3, <3>2, <3>4 DEF RetryInv, RetriedUnchanged, Pending, SentBy, LabelledBy, FrameBy
    <2>4. QED  BY <1>1, <2>2, <2>3 DEF ApplyConfig, configVars
  <1>2. ASSUME BeginUpload PROVE RetryInv'
    <2>1. /\ UNCHANGED <<generation, config>>
          /\ upload' = IF config = Off
                         THEN Idle
                         ELSE [stage |-> "begun", config |-> config, generation |-> generation]
      BY <1>2 DEF BeginUpload, configVars
    <2>2. CASE Outdated
      <3>1. batch' = NoBatch
        BY <1>2, <2>2 DEF BeginUpload
      <3>2. ~Pending'
        BY <3>1 DEF Pending
      <3>3. upload'.stage = "begun" => upload'.generation = generation /\ upload'.config = config
        BY <2>1 DEF Idle
      <3>4. upload'.stage # "sent"
        BY <2>1 DEF Idle
      <3>5. QED  BY <1>0, <2>1, <3>2, <3>3, <3>4 DEF RetryInv, RetriedUnchanged
    <2>3. CASE ~Outdated
      <3>1. UNCHANGED <<batch, original>>
        BY <1>2, <2>3 DEF BeginUpload
      <3>2. Pending => batch.generation = generation /\ SentBy(config)
        BY <2>3 DEF Outdated, RetryInv
      <3>3. upload'.stage = "begun" => upload'.generation = generation /\ upload'.config = config
        BY <2>1 DEF Idle
      <3>4. upload'.stage # "sent"
        BY <2>1 DEF Idle
      <3>5. QED
        BY <1>0, <2>1, <3>1, <3>2, <3>3, <3>4
        DEF RetryInv, RetriedUnchanged, Pending, SentBy, LabelledBy, FrameBy
    <2>4. QED  BY <2>2, <2>3
  <1>3. ASSUME SendRefused PROVE RetryInv'
    <2>1. /\ upload.stage = "begun" /\ ~LabelledBy(upload.config, NextBatch)
          /\ batch' = NextBatch /\ upload' = Idle
          /\ UNCHANGED <<generation, config, original>>
      BY <1>3 DEF SendRefused, configVars, Labelled, LabelledBy
    <2>2. NextBatch.generation = upload.generation
      BY <2>1 DEF NextBatch, RetryInv
    <2>3. upload.generation <= generation
          /\ (upload.generation = generation => upload.config = config)
      BY <2>1 DEF RetryInv
    <2>4. batch'.generation = generation' => ~LabelledBy(config', batch')
      BY <2>1, <2>2, <2>3
    <2>5. batch'.generation <= generation'
      BY <2>1, <2>2, <2>3
    <2>6. batch'.generation = generation' => SentBy(config)'
      BY <2>1, <2>4 DEF SentBy
    <2>7. upload'.stage = "idle"
      BY <2>1 DEF Idle
    <2>8. QED  BY <2>5, <2>6, <2>7 DEF RetryInv, RetriedUnchanged
  <1>4. ASSUME SendBatch PROVE RetryInv'
    <2>1. /\ upload.stage = "begun" /\ LabelledBy(upload.config, NextBatch)
          /\ batch' = NextBatch
          /\ upload' = [stage |-> "sent", frame |-> Frame(NextBatch), answer |-> "none"]
          /\ original' = IF Pending THEN original ELSE Frame(NextBatch)
          /\ UNCHANGED <<generation, config>>
      BY <1>4 DEF SendBatch, configVars, Labelled, LabelledBy
    <2>2. Frame(NextBatch) = FrameBy(upload.config, NextBatch)
      BY DEF Frame, FrameBy
    <2>3. NextBatch.generation = upload.generation
      BY <2>1 DEF NextBatch, RetryInv
    <2>4. Pending => NextBatch = batch /\ SentBy(upload.config)
      BY <2>1 DEF NextBatch, RetryInv
    <2>5. original' = Frame(NextBatch)
      BY <2>1, <2>2, <2>4 DEF SentBy
    <2>6. upload.generation <= generation
          /\ (upload.generation = generation => upload.config = config)
      BY <2>1 DEF RetryInv
    <2>7. batch'.generation = generation' => SentBy(config)'
      BY <2>1, <2>2, <2>3, <2>5, <2>6 DEF SentBy, FrameBy
    <2>8. batch'.generation <= generation' /\ upload'.stage = "sent"
          /\ upload'.frame = original'
      BY <2>1, <2>3, <2>5, <2>6
    <2>9. QED  BY <2>7, <2>8 DEF RetryInv, RetriedUnchanged
  <1>5. ASSUME FinishUpload PROVE RetryInv'
    <2>1. /\ UNCHANGED <<generation, config>> /\ upload'.stage = "idle"
          /\ batch' = NoBatch \/ UNCHANGED <<batch, original>>
      BY <1>5 DEF FinishUpload, configVars, Idle
    <2>2. CASE batch' = NoBatch
      BY <2>1, <2>2 DEF RetryInv, RetriedUnchanged, Pending
    <2>3. QED  BY <2>1, <2>2, RetryIdle
  <1>6. ASSUME NEW answer \in {"ok", "lost"}, IngestSent(answer) PROVE RetryInv'
    <2>1. UNCHANGED <<batch, generation, config, original>>
      BY <1>6 DEF IngestSent, configVars, sampleVars, history
    <2>2. CASE upload' = Idle
      BY <2>1, <2>2, RetryIdle DEF Idle
    <2>3. CASE upload' = [upload EXCEPT !.answer = "ok"]
      <3>1. upload'.stage = "sent" /\ upload'.frame = upload.frame /\ upload.stage = "sent"
        BY <1>6, <1>b, <2>3 DEF IngestSent
      <3>2. QED
        BY <2>1, <3>1 DEF RetryInv, RetriedUnchanged, Pending, SentBy, LabelledBy, FrameBy
    <2>4. QED  BY <1>6, <2>2, <2>3 DEF IngestSent
  <1>7. ASSUME IngestFails PROVE RetryInv'
    <2>1. UNCHANGED <<batch, generation, config, original>>
      BY <1>7 DEF IngestFails, configVars, sampleVars, history
    <2>2. upload'.stage = "sent" /\ upload'.frame = upload.frame /\ upload.stage = "sent"
      BY <1>7, <1>b DEF IngestFails
    <2>3. QED
      BY <2>1, <2>2 DEF RetryInv, RetriedUnchanged, Pending, SentBy, LabelledBy, FrameBy
  <1>8. ASSUME Reboot PROVE RetryInv'
    BY <1>8 DEF Reboot, RetryInv, RetriedUnchanged, Pending, Idle
  <1>9. ASSUME TrackingDue \/ SendNothing \/ ResponseTimeout PROVE RetryInv'
    <2>1. UNCHANGED <<batch, generation, config, original>> /\ upload'.stage \in {"idle", "due"}
      BY <1>9 DEF TrackingDue, SendNothing, ResponseTimeout, configVars, sampleVars, history, Idle
    <2>2. QED  BY <2>1, RetryIdle
  <1>10. ASSUME \/ \E targets \in TargetLists : StartSession(targets)
                \/ \E s \in SessionIds : FinishSession(s)
                \/ \E s \in SessionIds, targets \in TargetLists : RefreshTargets(s, targets)
                \/ FetchConfig
                \/ \E i \in DOMAIN config.targets : CaptureTrackingSample(i)
                \/ \E frame \in lingering : IngestLingering(frame)
                \/ UNCHANGED vars
         PROVE  RetryInv'
    <2>1. UNCHANGED <<batch, generation, config, upload, original>>
      BY <1>10 DEF StartSession, FinishSession, RefreshTargets, FetchConfig,
                   CaptureTrackingSample, IngestLingering, vars, configVars, sampleVars, history
    <2>2. QED  BY <2>1, RetryUnchanged
  <1>11. QED
    BY <1>1, <1>2, <1>3, <1>4, <1>5, <1>6, <1>7, <1>8, <1>9, <1>10 DEF Next

\* A batch that was sent is sent again as it was, or not at all: whatever happens to
\* the configuration, to the line and to the scanner in between, for any targets and
\* sizes.
THEOREM Retried == Spec => []RetriedUnchanged
  <1>1. RetryInv => RetriedUnchanged
    BY DEF RetryInv
  <1>2. QED
    BY <1>1, TypeInitial, TypeInductive, RetryInitial, RetryInductive, PTL DEF Spec
-----------------------------------------------------------------------------
(* A measurement is stored for what it was captured for.                   *)

\* The sample was captured for what this focus says of it.
CapturedFor(focus, sample) ==
  /\ sample.capture \in DOMAIN captures
  /\ sample.target \in DOMAIN focus.targets
  /\ captures[sample.capture] = [session |-> focus.session,
                                 address |-> focus.targets[sample.target]]

\* The label is what the sample was captured for.
Right(label) ==
  /\ label.capture \in DOMAIN captures
  /\ \/ label.capture \in raced
     \/ captures[label.capture] = [session |-> label.id[1], address |-> label.address]

RightFrame(frame) ==
  \A k \in DOMAIN frame.samples : Right(frame.samples[k])

\* Samples are labelled by the configuration they were captured under, or raced.
CaptureInv ==
  /\ \A k \in DOMAIN ring : CapturedFor(config, ring[k])
  /\ \A row \in rows : Right(row)
  /\ \A frame \in lingering : RightFrame(frame)
  /\ RightFrame(original)

\* A new batch is the front of the ring.
LEMMA Taken ==
  ASSUME TypeOK, upload.stage = "begun", ~Pending, TakeBatch
  PROVE  \E n \in Nat :
           /\ n <= Len(ring)
           /\ DOMAIN NextBatch.samples = 1 .. n
           /\ \A k \in 1 .. n : NextBatch.samples[k] = ring[k]
           /\ DOMAIN ring' = 1 .. (Len(ring) - n)
           /\ \A k \in 1 .. (Len(ring) - n) : ring'[k] = ring[n + k]
           /\ raced' = IF upload.generation = generation
                         THEN raced
                         ELSE raced \cup {ring[k].capture : k \in 1 .. n}
  <1> DEFINE n == IF Len(ring) < FrameSamples THEN Len(ring) ELSE FrameSamples
  <1>1. ring \in Seq(CapturedSamples) /\ Len(ring) \in Nat
    BY DEF TypeOK
  <1>2. n \in Nat /\ n <= Len(ring)
    BY <1>1, SizesAssumption
  <1>3. NextBatch.samples = SubSeq(ring, 1, n)
    BY DEF NextBatch
  <1> HIDE DEF n
  <1>4. /\ Len(SubSeq(ring, 1, n)) = n /\ DOMAIN SubSeq(ring, 1, n) = 1 .. n
        /\ \A k \in 1 .. n : SubSeq(ring, 1, n)[k] = ring[k]
    BY <1>1, <1>2
  <1>5. /\ DOMAIN SubSeq(ring, n + 1, Len(ring)) = 1 .. (Len(ring) - n)
        /\ \A k \in 1 .. (Len(ring) - n) : SubSeq(ring, n + 1, Len(ring))[k] = ring[n + k]
    BY <1>1, <1>2
  <1>6. ring' = SubSeq(ring, n + 1, Len(ring))
        /\ raced' = IF upload.generation = generation
                      THEN raced
                      ELSE raced \cup {ring[k].capture : k \in 1 .. n}
    BY <1>3, <1>4 DEF TakeBatch
  <1>7. QED  BY <1>2, <1>3, <1>4, <1>5, <1>6

\* A capture is recorded at the end, with the session and address of the focus.
LEMMA Recorded ==
  ASSUME TypeOK, NEW i \in DOMAIN config.targets, CaptureTrackingSample(i)
  PROVE  /\ DOMAIN captures' = 1 .. (Len(captures) + 1)
         /\ DOMAIN captures = 1 .. Len(captures)
         /\ \A n \in 1 .. Len(captures) : captures'[n] = captures[n]
         /\ captures'[Len(captures) + 1] =
              [session |-> config.session, address |-> config.targets[i]]
  <1> DEFINE value == [session |-> config.session, address |-> config.targets[i]]
  <1>1. captures' = Append(captures, value)
    BY DEF CaptureTrackingSample
  <1>2. config # Off
    BY DEF Off
  <1>3. config.session \in 1 .. MaxSessions /\ config.targets \in TargetLists
    BY <1>2 DEF TypeOK, FocusValues
  <1>4. value \in [session : 1 .. MaxSessions, address : Addresses]
    BY <1>3, TargetAddress
  <1> HIDE DEF value
  <1>5. captures \in Seq([session : 1 .. MaxSessions, address : Addresses])
    BY DEF TypeOK
  <1>6. /\ DOMAIN captures' = 1 .. (Len(captures) + 1)
        /\ DOMAIN captures = 1 .. Len(captures)
        /\ \A n \in 1 .. Len(captures) : captures'[n] = captures[n]
        /\ captures'[Len(captures) + 1] = value
    BY <1>1, <1>4, <1>5
  <1>7. QED  BY <1>6 DEF value

\* A captured sample goes to the end of the ring.
LEMMA Captured ==
  ASSUME TypeOK, NEW i \in DOMAIN config.targets, CaptureTrackingSample(i)
  PROVE  \E d \in Nat :
           /\ d <= Len(ring)
           /\ DOMAIN ring' = 1 .. (Len(ring) - d + 1)
           /\ \A k \in 1 .. (Len(ring) - d) : ring'[k] = ring[d + k]
           /\ ring'[Len(ring) - d + 1] =
                [capture |-> Len(captures) + 1, sequence |-> sequence + 1, target |-> i]
  <1> DEFINE sample == [capture |-> Len(captures) + 1, sequence |-> sequence + 1, target |-> i]
  <1>1. ring \in Seq(CapturedSamples) /\ Len(ring) \in Nat /\ BufferSize \in Nat \ {0}
    BY SizesAssumption DEF TypeOK
  <1>2. ring' = Append(IF Len(ring) = BufferSize THEN Tail(ring) ELSE ring, sample)
    BY DEF CaptureTrackingSample
  <1> HIDE DEF sample
  <1>3. CASE Len(ring) = BufferSize
    <2>1. Len(Tail(ring)) = Len(ring) - 1 /\ Len(Tail(ring)) \in Nat /\ 1 <= Len(ring)
          /\ DOMAIN Tail(ring) = 1 .. (Len(ring) - 1)
          /\ \A k \in 1 .. (Len(ring) - 1) : Tail(ring)[k] = ring[1 + k]
      BY <1>1, <1>3
    <2>2. ring' = Append(Tail(ring), sample)
      BY <1>2, <1>3
    <2>3. Tail(ring) \in Seq(CapturedSamples)
      BY <1>1, <1>3
    <2>4. /\ DOMAIN Append(Tail(ring), sample) = 1 .. (Len(Tail(ring)) + 1)
          /\ \A k \in 1 .. Len(Tail(ring)) : Append(Tail(ring), sample)[k] = Tail(ring)[k]
          /\ Append(Tail(ring), sample)[Len(Tail(ring)) + 1] = sample
      BY <2>3
    <2>5. QED  BY <2>1, <2>2, <2>4 DEF sample
  <1>4. CASE Len(ring) # BufferSize
    <2>1. ring' = Append(ring, sample)
      BY <1>2, <1>4
    <2>2. /\ DOMAIN Append(ring, sample) = 1 .. (Len(ring) + 1)
          /\ \A k \in 1 .. Len(ring) : Append(ring, sample)[k] = ring[k]
          /\ Append(ring, sample)[Len(ring) + 1] = sample
      BY <1>1
    <2>3. /\ 0 \in Nat /\ 0 <= Len(ring) /\ Len(ring) - 0 = Len(ring)
          /\ \A k \in 1 .. Len(ring) : 0 + k = k
      BY <1>1
    <2>4. QED  BY <2>1, <2>2, <2>3 DEF sample
  <1>5. QED  BY <1>3, <1>4

\* What the backend and the line keep was in a frame or a row before.
LEMMA CaptureShrinks ==
  ASSUME CaptureInv, UNCHANGED <<captures, raced>>,
         \A k \in DOMAIN ring' : CapturedFor(config', ring'[k]),
         \A row \in rows' :
           \/ row \in rows
           \/ \E k \in DOMAIN original.samples : row = original.samples[k]
           \/ \E frame \in lingering : \E k \in DOMAIN frame.samples : row = frame.samples[k],
         lingering' \subseteq lingering \cup {original},
         original' \in {original, NoFrame}
  PROVE  CaptureInv'
  <1>1. \A label : Right(label) => Right(label)'
    BY DEF Right
  <1>2. \A frame : RightFrame(frame) => RightFrame(frame)'
    BY <1>1 DEF RightFrame
  <1>3. \A row \in rows' : Right(row)'
    BY <1>1 DEF CaptureInv, RightFrame
  <1>4. DOMAIN NoFrame.samples = {}
    BY DEF NoFrame
  <1>5. RightFrame(original)'
    <2>1. CASE original' = original
      BY <1>1, <2>1 DEF CaptureInv, RightFrame
    <2>2. CASE original' = NoFrame
      BY <1>4, <2>2 DEF RightFrame
    <2>3. QED  BY <2>1, <2>2
  <1>6. \A frame \in lingering' : RightFrame(frame)'
    BY <1>2 DEF CaptureInv
  <1>7. \A k \in DOMAIN ring' : CapturedFor(config, ring[k])'
    BY DEF CapturedFor
  <1>8. QED  BY <1>3, <1>5, <1>6, <1>7 DEF CaptureInv, RightFrame

\* What Ingest adds are samples of the frame.
LEMMA IngestAdds ==
  ASSUME NEW frame, Ingest(frame), NEW row \in rows'
  PROVE  row \in rows \/ \E k \in DOMAIN frame.samples : row = frame.samples[k]
  BY DEF Ingest, Accepted, backendVars

LEMMA CaptureInductive == TypeInv /\ RetryInv /\ CaptureInv /\ [Next]_vars => CaptureInv'
  <1> SUFFICES ASSUME TypeInv, RetryInv, CaptureInv, [Next]_vars PROVE CaptureInv'
    OBVIOUS
  <1>0. TypeOK
    BY DEF TypeInv
  <1>a. \A k \in DOMAIN ring : CapturedFor(config, ring[k])
    BY DEF CaptureInv
  <1>b. upload.stage = "sent" => upload.frame = original
    BY DEF RetryInv, RetriedUnchanged
  <1>c. captures \in Seq([session : 1 .. MaxSessions, address : Addresses])
        /\ Len(captures) \in Nat
    BY <1>0 DEF TypeOK
  <1>1. ASSUME ApplyConfig PROVE CaptureInv'
    <2>1. UNCHANGED <<rows, lingering, original, captures, raced>>
      BY <1>1 DEF ApplyConfig, backendVars, history
    <2>2. \A k \in DOMAIN ring' : CapturedFor(config', ring'[k])
      BY <1>1, <1>a DEF ApplyConfig, configVars
    <2>3. QED  BY <2>1, <2>2, CaptureShrinks
  <1>2. ASSUME NEW i \in DOMAIN config.targets, CaptureTrackingSample(i) PROVE CaptureInv'
    <2> DEFINE value == [session |-> config.session, address |-> config.targets[i]]
    <2>1. UNCHANGED <<config, rows, lingering, original, raced>>
      BY <1>2 DEF CaptureTrackingSample, backendVars
    <2>2. /\ DOMAIN captures' = 1 .. (Len(captures) + 1)
          /\ DOMAIN captures = 1 .. Len(captures)
          /\ \A n \in 1 .. Len(captures) : captures'[n] = captures[n]
          /\ captures'[Len(captures) + 1] = value
      BY <1>0, <1>2, Recorded
    <2> HIDE DEF value
    <2>3. /\ \A n \in DOMAIN captures : n \in DOMAIN captures' /\ captures'[n] = captures[n]
          /\ Len(captures) + 1 \in DOMAIN captures'
      BY <1>c, <2>2
    <2>4. \A label : Right(label) => Right(label)'
      BY <2>1, <2>3 DEF Right
    <2>5. \A sample : CapturedFor(config, sample) => CapturedFor(config, sample)'
      BY <2>1, <2>3 DEF CapturedFor
    <2>6. (\A k \in DOMAIN ring : CapturedFor(config, ring[k]))'
      <3>1. PICK d \in Nat :
              /\ d <= Len(ring)
              /\ DOMAIN ring' = 1 .. (Len(ring) - d + 1)
              /\ \A k \in 1 .. (Len(ring) - d) : ring'[k] = ring[d + k]
              /\ ring'[Len(ring) - d + 1] =
                   [capture |-> Len(captures) + 1, sequence |-> sequence + 1, target |-> i]
        BY <1>0, <1>2, Captured
      <3>2. Len(ring) \in Nat /\ DOMAIN ring = 1 .. Len(ring)
        BY <1>0 DEF TypeOK
      <3>3. ASSUME NEW k \in DOMAIN ring' PROVE CapturedFor(config, ring[k])'
        <4>1. CASE k \in 1 .. (Len(ring) - d)
          <5>1. d + k \in DOMAIN ring /\ ring'[k] = ring[d + k]
            BY <3>1, <3>2, <4>1
          <5>2. CapturedFor(config, ring[d + k])
            BY <1>a, <5>1
          <5>3. CapturedFor(config, ring'[k])
            BY <5>1, <5>2
          <5>4. ring'[k].capture \in DOMAIN captures'
                /\ captures'[ring'[k].capture] = captures[ring'[k].capture]
            BY <2>3, <5>3 DEF CapturedFor
          <5>5. QED  BY <2>1, <5>3, <5>4 DEF CapturedFor
        <4>2. CASE k = Len(ring) - d + 1
          <5>1. ring'[k].capture = Len(captures) + 1 /\ ring'[k].target = i
            BY <3>1, <4>2
          <5>2. captures'[ring'[k].capture] = value /\ ring'[k].capture \in DOMAIN captures'
            BY <2>2, <2>3, <5>1
          <5>3. config' = config /\ i \in DOMAIN config.targets
            BY <2>1
          <5>4. QED  BY <5>1, <5>2, <5>3 DEF CapturedFor, value
        <4>3. k \in 1 .. (Len(ring) - d) \/ k = Len(ring) - d + 1
          BY <3>1, <3>2, <3>3
        <4>4. QED  BY <4>1, <4>2, <4>3
      <3>4. QED  BY <3>3
    <2>7. QED  BY <2>1, <2>4, <2>6 DEF CaptureInv, RightFrame, CapturedFor
  <1>3. ASSUME upload.stage = "begun", TakeBatch, UNCHANGED <<config, rows, lingering, captures>>,
               \/ UNCHANGED original
               \/ Labelled(NextBatch)
                  /\ original' = IF Pending THEN original ELSE Frame(NextBatch)
        PROVE  CaptureInv'
    <2>1. CASE Pending
      <3>1. UNCHANGED <<ring, raced, original>>
        BY <1>3, <2>1 DEF TakeBatch
      <3>2. \A k \in DOMAIN ring' : CapturedFor(config', ring'[k])
        BY <1>3, <1>a, <3>1
      <3>3. QED  BY <1>3, <3>1, <3>2, CaptureShrinks
    <2>2. CASE ~Pending
      <3>1. PICK n \in Nat :
              /\ n <= Len(ring)
              /\ DOMAIN NextBatch.samples = 1 .. n
              /\ \A k \in 1 .. n : NextBatch.samples[k] = ring[k]
              /\ DOMAIN ring' = 1 .. (Len(ring) - n)
              /\ \A k \in 1 .. (Len(ring) - n) : ring'[k] = ring[n + k]
              /\ raced' = IF upload.generation = generation
                            THEN raced
                            ELSE raced \cup {ring[k].capture : k \in 1 .. n}
        BY <1>0, <1>3, <2>2, Taken
      <3>2. Len(ring) \in Nat /\ DOMAIN ring = 1 .. Len(ring)
        BY <1>0 DEF TypeOK
      <3>3. /\ \A k \in 1 .. n : k \in DOMAIN ring
            /\ \A k \in DOMAIN ring' : n + k \in DOMAIN ring /\ ring'[k] = ring[n + k]
        BY <3>1, <3>2
      <3>4. raced \subseteq raced'
        BY <3>1
      <3>5. \A label : Right(label) => Right(label)'
        BY <1>3, <3>4 DEF Right
      <3>6. (\A k \in DOMAIN ring : CapturedFor(config, ring[k]))'
        <4>1. ASSUME NEW k \in DOMAIN ring' PROVE CapturedFor(config, ring'[k])
          <5>1. CapturedFor(config, ring[n + k])
            BY <1>a, <3>3
          <5>2. QED  BY <3>3, <5>1
        <4>2. QED  BY <1>3, <4>1 DEF CapturedFor
      <3>7. RightFrame(original)'
        <4>1. CASE UNCHANGED original
          BY <3>5, <4>1 DEF CaptureInv, RightFrame
        <4>2. CASE original' = Frame(NextBatch)
          <5>1. DOMAIN original'.samples = 1 .. n
            BY <3>1, <4>2 DEF Frame
          <5>2. ASSUME NEW k \in 1 .. n PROVE Right(original.samples[k])'
            <6>1. original'.samples[k] =
                    [capture |-> ring[k].capture,
                     id |-> <<upload.config.session, ring[k].sequence>>,
                     address |-> upload.config.targets[ring[k].target]]
              BY <3>1, <4>2 DEF Frame
            <6>2. CapturedFor(config, ring[k])
              BY <1>a, <3>3
            <6>3. CASE upload.generation = generation
              <7>1. upload.config = config
                BY <1>3, <6>3 DEF RetryInv
              <7>2. original'.samples[k].capture = ring[k].capture
                    /\ original'.samples[k].id[1] = config.session
                    /\ original'.samples[k].address = config.targets[ring[k].target]
                BY <6>1, <7>1
              <7>3. QED  BY <1>3, <6>2, <7>2 DEF CapturedFor, Right
            <6>4. CASE upload.generation # generation
              <7>1. original'.samples[k].capture = ring[k].capture
                BY <6>1
              <7>2. ring[k].capture \in raced'
                BY <3>1, <6>4
              <7>3. QED  BY <1>3, <6>2, <7>1, <7>2 DEF CapturedFor, Right
            <6>5. QED  BY <6>3, <6>4
          <5>3. QED  BY <5>1, <5>2 DEF RightFrame
        <4>3. QED  BY <1>3, <2>2, <4>1, <4>2
      <3>8. (\A row \in rows : Right(row))' /\ (\A frame \in lingering : RightFrame(frame))'
        BY <1>3, <3>5 DEF CaptureInv, RightFrame
      <3>9. QED  BY <3>6, <3>7, <3>8 DEF CaptureInv
    <2>3. QED  BY <2>1, <2>2
  <1>4. ASSUME SendRefused \/ SendBatch PROVE CaptureInv'
    BY <1>3, <1>4 DEF SendRefused, SendBatch, backendVars, configVars
  <1>5. ASSUME BeginUpload \/ FinishUpload PROVE CaptureInv'
    <2>1. /\ UNCHANGED <<ring, config, rows, lingering, captures, raced>>
          /\ original' \in {original, NoFrame}
      BY <1>5 DEF BeginUpload, FinishUpload, backendVars, configVars
    <2>2. \A k \in DOMAIN ring' : CapturedFor(config', ring'[k])
      BY <1>a, <2>1
    <2>3. QED  BY <2>1, <2>2, CaptureShrinks
  <1>6. ASSUME ResponseTimeout PROVE CaptureInv'
    <2>1. /\ UNCHANGED <<ring, config, rows, captures, raced, original>>
          /\ lingering' \subseteq lingering \cup {original}
      BY <1>6, <1>b DEF ResponseTimeout, KeepOrLose, backendVars, configVars, sampleVars, history
    <2>2. \A k \in DOMAIN ring' : CapturedFor(config', ring'[k])
      BY <1>a, <2>1
    <2>3. QED  BY <2>1, <2>2, CaptureShrinks
  <1>7. ASSUME NEW answer \in {"ok", "lost"}, IngestSent(answer) PROVE CaptureInv'
    <2>1. /\ UNCHANGED <<ring, config, lingering, captures, raced, original>>
          /\ Ingest(original)
      BY <1>7, <1>b DEF IngestSent, configVars, sampleVars, history
    <2>2. \A k \in DOMAIN ring' : CapturedFor(config', ring'[k])
      BY <1>a, <2>1
    <2>3. \A row \in rows' :
            row \in rows \/ \E k \in DOMAIN original.samples : row = original.samples[k]
      BY <2>1, IngestAdds
    <2>4. QED  BY <2>1, <2>2, <2>3, CaptureShrinks
  <1>8. ASSUME NEW frame \in lingering, IngestLingering(frame) PROVE CaptureInv'
    <2>1. /\ UNCHANGED <<ring, config, captures, raced, original>>
          /\ lingering' \subseteq lingering
      BY <1>8 DEF IngestLingering, configVars, sampleVars, history
    <2>2. \A k \in DOMAIN ring' : CapturedFor(config', ring'[k])
      BY <1>a, <2>1
    <2>3. \A row \in rows' :
            row \in rows \/ \E k \in DOMAIN frame.samples : row = frame.samples[k]
      BY <1>8, IngestAdds DEF IngestLingering, backendVars
    <2>4. QED  BY <2>1, <2>2, <2>3, CaptureShrinks
  <1>9. ASSUME Reboot PROVE CaptureInv'
    <2>1. /\ UNCHANGED <<rows, captures, raced>> /\ ring' = <<>>
          /\ original' = NoFrame /\ lingering' \subseteq lingering \cup {original}
      BY <1>9, <1>b DEF Reboot, KeepOrLose, backendVars
    <2>2. \A k \in DOMAIN ring' : CapturedFor(config', ring'[k])
      BY <2>1
    <2>3. QED  BY <2>1, <2>2, CaptureShrinks
  <1>10. ASSUME \/ \E targets \in TargetLists : StartSession(targets)
                \/ \E s \in SessionIds : FinishSession(s)
                \/ \E s \in SessionIds, targets \in TargetLists : RefreshTargets(s, targets)
                \/ FetchConfig
                \/ TrackingDue
                \/ SendNothing
                \/ IngestFails
                \/ UNCHANGED vars
         PROVE  CaptureInv'
    <2>1. UNCHANGED <<ring, config, rows, lingering, captures, raced, original>>
      BY <1>10 DEF StartSession, FinishSession, RefreshTargets, FetchConfig, TrackingDue,
                   SendNothing, IngestFails, vars, backendVars, configVars, sampleVars, history
    <2>2. \A k \in DOMAIN ring' : CapturedFor(config', ring'[k])
      BY <1>a, <2>1
    <2>3. QED  BY <2>1, <2>2, CaptureShrinks
  <1>11. QED
    BY <1>1, <1>2, <1>4, <1>5, <1>6, <1>7, <1>8, <1>9, <1>10 DEF Next

\* A measurement is stored for the session and the address it was captured for, unless
\* its upload began before the change of the focus that the sample was captured under.
THEOREM StoredRight == Spec => []StoredAsCaptured
  <1>1. Init => CaptureInv
    BY DEF Init, CaptureInv, RightFrame, NoFrame
  <1>2. CaptureInv => StoredAsCaptured
    BY DEF CaptureInv, StoredAsCaptured, Right
  <1>3. QED
    BY <1>1, <1>2, TypeInitial, TypeInductive, RetryInitial, RetryInductive,
       CaptureInductive, PTL DEF Spec
-----------------------------------------------------------------------------
(* A measurement is stored once.                                           *)

InFrame(label, frame) == \E k \in DOMAIN frame.samples : label = frame.samples[k]

\* The labels that are stored or that a frame has which may still be stored.
Shown(label) ==
  \/ label \in rows
  \/ \E frame \in lingering : InFrame(label, frame)
  \/ InFrame(label, original)

\* A measurement has one label, and one that is in the ring has none yet.
LabelInv ==
  /\ \A a, b : Shown(a) /\ Shown(b) /\ a.capture = b.capture => a = b
  /\ \A a : Shown(a) => a.capture \in DOMAIN captures
  /\ \A j, k \in DOMAIN ring : ring[j].capture = ring[k].capture => j = k
  /\ \A k \in DOMAIN ring : \A a : Shown(a) => ring[k].capture # a.capture
  /\ \A k \in DOMAIN ring : ring[k].capture \in DOMAIN captures

\* Losing labels does no harm.
LEMMA LabelShrinks ==
  ASSUME LabelInv, UNCHANGED captures, ring' = ring \/ ring' = <<>>,
         \A a : Shown(a)' => Shown(a)
  PROVE  LabelInv'
  <1>1. DOMAIN <<>> = {}
    OBVIOUS
  <1>2. \A k \in DOMAIN ring' : k \in DOMAIN ring /\ ring'[k] = ring[k]
    BY <1>1
  <1>3. \A a, b : Shown(a)' /\ Shown(b)' /\ a.capture = b.capture => a = b
    BY DEF LabelInv
  <1>4. \A a : Shown(a)' => a.capture \in DOMAIN captures'
    BY DEF LabelInv
  <1>5. \A j, k \in DOMAIN ring' : ring'[j].capture = ring'[k].capture => j = k
    BY <1>2 DEF LabelInv
  <1>6. \A k \in DOMAIN ring' : \A a : Shown(a)' => ring'[k].capture # a.capture
    BY <1>2 DEF LabelInv
  <1>7. \A k \in DOMAIN ring' : ring'[k].capture \in DOMAIN captures'
    BY <1>2 DEF LabelInv
  <1>8. QED  BY <1>3, <1>4, <1>5, <1>6, <1>7 DEF LabelInv

LEMMA LabelInductive == TypeInv /\ RetryInv /\ LabelInv /\ [Next]_vars => LabelInv'
  <1> SUFFICES ASSUME TypeInv, RetryInv, LabelInv, [Next]_vars PROVE LabelInv'
    OBVIOUS
  <1>0. TypeOK
    BY DEF TypeInv
  <1>a. upload.stage = "sent" => upload.frame = original
    BY DEF RetryInv, RetriedUnchanged
  <1>b. Len(ring) \in Nat /\ DOMAIN ring = 1 .. Len(ring)
        /\ Len(captures) \in Nat /\ DOMAIN captures = 1 .. Len(captures)
    BY <1>0 DEF TypeOK
  <1>c. DOMAIN NoFrame.samples = {}
    BY DEF NoFrame
  <1>1. ASSUME ApplyConfig PROVE LabelInv'
    <2>1. UNCHANGED <<rows, lingering, original, captures>> /\ (ring' = ring \/ ring' = <<>>)
      BY <1>1 DEF ApplyConfig, backendVars, history
    <2>2. QED  BY <2>1, LabelShrinks DEF Shown, InFrame
  <1>2. ASSUME NEW i \in DOMAIN config.targets, CaptureTrackingSample(i) PROVE LabelInv'
    <2>1. UNCHANGED <<rows, lingering, original>>
      BY <1>2 DEF CaptureTrackingSample, backendVars
    <2>2. /\ DOMAIN captures \subseteq DOMAIN captures'
          /\ Len(captures) + 1 \in DOMAIN captures'
          /\ Len(captures) + 1 \notin DOMAIN captures
      <3>1. DOMAIN captures' = 1 .. (Len(captures) + 1)
        BY <1>0, <1>2, Recorded
      <3>2. QED  BY <1>b, <3>1
    <2>3. PICK d \in Nat :
            /\ d <= Len(ring)
            /\ DOMAIN ring' = 1 .. (Len(ring) - d + 1)
            /\ \A k \in 1 .. (Len(ring) - d) : ring'[k] = ring[d + k]
            /\ ring'[Len(ring) - d + 1] =
                 [capture |-> Len(captures) + 1, sequence |-> sequence + 1, target |-> i]
      BY <1>0, <1>2, Captured
    <2>4. \A a : Shown(a)' <=> Shown(a)
      BY <2>1 DEF Shown, InFrame
    <2> DEFINE last == Len(ring) - d + 1
    <2>5. /\ DOMAIN ring' = 1 .. last
          /\ ring'[last].capture = Len(captures) + 1
          /\ \A k \in DOMAIN ring' : k # last =>
               d + k \in DOMAIN ring /\ ring'[k] = ring[d + k]
      <3>1. ring'[last].capture = Len(captures) + 1
        BY <2>3
      <3>2. \A k \in 1 .. last : k # last =>
              d + k \in DOMAIN ring /\ k \in 1 .. (Len(ring) - d)
        <4>1. d \in Nat /\ d <= Len(ring) /\ Len(ring) \in Nat
          BY <1>b, <2>3
        <4>2. \A k \in 1 .. last : k # last =>
                d + k \in 1 .. Len(ring) /\ k \in 1 .. (Len(ring) - d)
          BY <4>1
        <4>3. QED  BY <1>b, <4>2
      <3>3. QED  BY <2>3, <3>1, <3>2
    <2>6. \A k \in DOMAIN ring' : k \in Nat
      BY <1>b, <2>3
    <2> HIDE DEF last
    <2>7. \A k \in DOMAIN ring' : k # last =>
            ring'[k].capture \in DOMAIN captures /\ ring'[k].capture # Len(captures) + 1
      BY <2>2, <2>5 DEF LabelInv
    <2>8. \A j, k \in DOMAIN ring' : ring'[j].capture = ring'[k].capture => j = k
      <3>1. SUFFICES ASSUME NEW j \in DOMAIN ring', NEW k \in DOMAIN ring',
                            ring'[j].capture = ring'[k].capture, j # last, k # last
                     PROVE  j = k
        BY <2>5, <2>7
      <3>2. d + j = d + k
        BY <2>5, <3>1 DEF LabelInv
      <3>3. QED  BY <2>6, <3>2
    <2>9. \A k \in DOMAIN ring' : \A a : Shown(a) => ring'[k].capture # a.capture
      <3>1. SUFFICES ASSUME NEW k \in DOMAIN ring', NEW a, Shown(a)
                     PROVE  ring'[k].capture # a.capture
        OBVIOUS
      <3>2. CASE k = last
        BY <2>2, <2>5, <3>1, <3>2 DEF LabelInv
      <3>3. CASE k # last
        BY <2>5, <3>1, <3>3 DEF LabelInv
      <3>4. QED  BY <3>2, <3>3
    <2>10. \A k \in DOMAIN ring' : ring'[k].capture \in DOMAIN captures'
      BY <2>2, <2>5, <2>7
    <2>11. QED  BY <2>2, <2>4, <2>8, <2>9, <2>10 DEF LabelInv
  <1>3. ASSUME upload.stage = "begun", TakeBatch, UNCHANGED <<rows, lingering, captures>>,
               \/ UNCHANGED original
               \/ original' = IF Pending THEN original ELSE Frame(NextBatch)
        PROVE  LabelInv'
    <2>1. CASE Pending
      BY <1>3, <2>1, LabelShrinks DEF TakeBatch, Shown, InFrame
    <2>2. CASE ~Pending
      <3>1. PICK n \in Nat :
              /\ n <= Len(ring)
              /\ DOMAIN NextBatch.samples = 1 .. n
              /\ \A k \in 1 .. n : NextBatch.samples[k] = ring[k]
              /\ DOMAIN ring' = 1 .. (Len(ring) - n)
              /\ \A k \in 1 .. (Len(ring) - n) : ring'[k] = ring[n + k]
        BY <1>0, <1>3, <2>2, Taken
      <3>2. /\ \A k \in 1 .. n : k \in DOMAIN ring
            /\ \A k \in DOMAIN ring' : k \in Nat /\ n + k \in DOMAIN ring
                                       /\ ring'[k] = ring[n + k] /\ n + k \notin 1 .. n
        BY <1>b, <3>1
      <3>3. \A a : Shown(a)' =>
              Shown(a) \/ \E k \in 1 .. n : a = Frame(NextBatch).samples[k]
        <4>1. DOMAIN Frame(NextBatch).samples = 1 .. n
          BY <3>1 DEF Frame
        <4>2. QED  BY <1>3, <2>2, <4>1 DEF Shown, InFrame
      <3>4. \A k \in 1 .. n : Frame(NextBatch).samples[k].capture = ring[k].capture
        BY <3>1 DEF Frame
      <3>5. \A a, b : Shown(a)' /\ Shown(b)' /\ a.capture = b.capture => a = b
        BY <3>2, <3>3, <3>4 DEF LabelInv
      <3>6. \A a : Shown(a)' => a.capture \in DOMAIN captures'
        BY <1>3, <3>2, <3>3, <3>4 DEF LabelInv
      <3>7. \A j, k \in DOMAIN ring' : ring'[j].capture = ring'[k].capture => j = k
        <4>1. SUFFICES ASSUME NEW j \in DOMAIN ring', NEW k \in DOMAIN ring',
                              ring'[j].capture = ring'[k].capture
                       PROVE  j = k
          OBVIOUS
        <4>2. n + j = n + k
          BY <3>2, <4>1 DEF LabelInv
        <4>3. QED  BY <3>2, <4>2
      <3>8. \A k \in DOMAIN ring' : \A a : Shown(a)' => ring'[k].capture # a.capture
        <4>1. SUFFICES ASSUME NEW k \in DOMAIN ring', NEW a, Shown(a)'
                       PROVE  ring'[k].capture # a.capture
          OBVIOUS
        <4>2. CASE Shown(a)
          BY <3>2, <4>1, <4>2 DEF LabelInv
        <4>3. ASSUME NEW j \in 1 .. n, a = Frame(NextBatch).samples[j]
              PROVE  ring'[k].capture # a.capture
          <5>1. a.capture = ring[j].capture /\ j \in DOMAIN ring
            BY <3>2, <3>4, <4>3
          <5>2. n + k # j /\ n + k \in DOMAIN ring /\ ring'[k] = ring[n + k]
            BY <3>2, <4>1, <4>3
          <5>3. QED  BY <5>1, <5>2 DEF LabelInv
        <4>4. QED  BY <3>3, <4>1, <4>2, <4>3
      <3>9. \A k \in DOMAIN ring' : ring'[k].capture \in DOMAIN captures'
        BY <1>3, <3>2 DEF LabelInv
      <3>10. QED  BY <3>5, <3>6, <3>7, <3>8, <3>9 DEF LabelInv
    <2>3. QED  BY <2>1, <2>2
  <1>4. ASSUME SendRefused \/ SendBatch PROVE LabelInv'
    BY <1>3, <1>4 DEF SendRefused, SendBatch, backendVars, configVars
  <1>5. ASSUME BeginUpload \/ FinishUpload PROVE LabelInv'
    <2>1. /\ UNCHANGED <<ring, rows, lingering, captures>>
          /\ original' \in {original, NoFrame}
      BY <1>5 DEF BeginUpload, FinishUpload, backendVars, configVars
    <2>2. QED  BY <1>c, <2>1, LabelShrinks DEF Shown, InFrame
  <1>6. ASSUME ResponseTimeout \/ Reboot PROVE LabelInv'
    <2>1. /\ UNCHANGED <<rows, captures>> /\ (ring' = ring \/ ring' = <<>>)
          /\ original' \in {original, NoFrame}
          /\ lingering' \subseteq lingering \cup {original}
      BY <1>6, <1>a DEF ResponseTimeout, Reboot, KeepOrLose, backendVars, configVars,
                        sampleVars, history
    <2>2. QED  BY <1>c, <2>1, LabelShrinks DEF Shown, InFrame
  <1>7. ASSUME NEW answer \in {"ok", "lost"}, IngestSent(answer) PROVE LabelInv'
    <2>1. /\ UNCHANGED <<ring, lingering, captures, original>> /\ Ingest(original)
      BY <1>7, <1>a DEF IngestSent, configVars, sampleVars, history
    <2>2. \A row \in rows' : row \in rows \/ InFrame(row, original)
      BY <2>1, IngestAdds DEF InFrame
    <2>3. \A a : Shown(a)' => Shown(a)
      BY <2>1, <2>2 DEF Shown, InFrame
    <2>4. QED  BY <2>1, <2>3, LabelShrinks
  <1>8. ASSUME NEW frame \in lingering, IngestLingering(frame) PROVE LabelInv'
    <2>1. UNCHANGED <<ring, captures, original>> /\ lingering' \subseteq lingering
      BY <1>8 DEF IngestLingering, configVars, sampleVars, history
    <2>2. \A row \in rows' : row \in rows \/ InFrame(row, frame)
      BY <1>8, IngestAdds DEF IngestLingering, backendVars, InFrame
    <2>3. \A a : Shown(a)' => Shown(a)
      BY <2>1, <2>2 DEF Shown, InFrame
    <2>4. QED  BY <2>1, <2>3, LabelShrinks
  <1>9. ASSUME \/ \E targets \in TargetLists : StartSession(targets)
               \/ \E s \in SessionIds : FinishSession(s)
               \/ \E s \in SessionIds, targets \in TargetLists : RefreshTargets(s, targets)
               \/ FetchConfig
               \/ TrackingDue
               \/ SendNothing
               \/ IngestFails
               \/ UNCHANGED vars
        PROVE  LabelInv'
    <2>1. UNCHANGED <<ring, rows, lingering, captures, original>>
      BY <1>9 DEF StartSession, FinishSession, RefreshTargets, FetchConfig, TrackingDue,
                  SendNothing, IngestFails, vars, backendVars, configVars, sampleVars, history
    <2>2. QED  BY <2>1, LabelShrinks DEF Shown, InFrame
  <1>10. QED
    BY <1>1, <1>2, <1>4, <1>5, <1>6, <1>7, <1>8, <1>9 DEF Next

\* A measurement gets one row, however often its batch is sent, however long copies of
\* it stay with backend threads, and whatever the configuration becomes meanwhile.
THEOREM StoredOnce == Spec => []NoSampleTwice
  <1>1. Init => LabelInv
    BY DEF Init, LabelInv, Shown, InFrame, NoFrame
  <1>2. LabelInv => NoSampleTwice
    BY DEF LabelInv, NoSampleTwice, Shown
  <1>3. QED
    BY <1>1, <1>2, TypeInitial, TypeInductive, RetryInitial, RetryInductive,
       LabelInductive, PTL DEF Spec
=============================================================================
