------------------------ MODULE RealtimeBrokerProofs ------------------------
(***************************************************************************)
(* Theorems about RealtimeBroker, for any streams, topics and capacities   *)
(* of at least two.                                                        *)
(***************************************************************************)
EXTENDS RealtimeBroker, SequenceTheorems, FiniteSetTheorems, TLAPS

\* What a queue holds is never more than what asyncio.Queue lets in, and the
\* helpers keep it a queue of numbers.
LEMMA ForcedFits ==
  ASSUME TypeOK, NEW s \in Streams, NEW item \in Nat
  PROVE  /\ Forced(s, item) \in Seq(Nat)
         /\ Len(Forced(s, item)) <= Capacity(s)
         /\ Len(Forced(s, item)) > 0
         /\ Forced(s, item)[Len(Forced(s, item))] = item
  <1>1. queue[s] \in Seq(Nat) /\ Len(queue[s]) <= Capacity(s)
    BY DEF TypeOK
  <1>2. Capacity(s) \in Nat /\ Capacity(s) >= 2
    BY CapacityAssumption DEF Capacity
  <1>3. PICK kept \in Seq(Nat) : Forced(s, item) = Append(kept, item) /\ Len(kept) < Capacity(s)
    <2>1. CASE Full(s)
      <3>1. queue[s] # <<>>
        BY <1>1, <1>2, <2>1 DEF Full
      <3>2. Tail(queue[s]) \in Seq(Nat) /\ Len(Tail(queue[s])) = Len(queue[s]) - 1
        BY <1>1, <3>1
      <3>3. Len(Tail(queue[s])) < Capacity(s)
        BY <1>1, <1>2, <3>2
      <3>4. Forced(s, item) = Append(Tail(queue[s]), item)
        BY <2>1 DEF Forced
      <3>5. QED  BY <3>2, <3>3, <3>4
    <2>2. CASE ~Full(s)
      <3>1. Forced(s, item) = Append(queue[s], item)
        BY <2>2 DEF Forced
      <3>2. Len(queue[s]) < Capacity(s)
        BY <1>1, <1>2, <2>2 DEF Full
      <3>3. QED  BY <1>1, <3>1, <3>2
    <2>3. QED  BY <2>1, <2>2
  <1>4. /\ Append(kept, item) \in Seq(Nat)
        /\ Len(Append(kept, item)) = Len(kept) + 1
        /\ Append(kept, item)[Len(kept) + 1] = item
    BY <1>3
  <1>5. Len(kept) \in Nat
    BY <1>3
  <1>6. QED  BY <1>2, <1>3, <1>4, <1>5

\* The variables keep their types, and the queues their capacity.
LEMMA TypeInductive == TypeOK /\ [Next]_vars => TypeOK'
  <1> SUFFICES ASSUME TypeOK, [Next]_vars PROVE TypeOK'
    OBVIOUS
  <1> USE TopicAssumption
  <1>0. \A s \in Streams : Capacity(s) \in Nat
    BY CapacityAssumption DEF Capacity
  <1>1. ASSUME NEW channel \in Channels, BeginPublish(channel) PROVE TypeOK'
    <2>1. Cardinality({channel}) = 1
      BY FS_Singleton
    <2>2. publishing' \subseteq Channels /\ Cardinality(publishing') <= 1
      BY <1>1, <2>1 DEF BeginPublish
    <2>3. QED  BY <1>1, <2>2 DEF BeginPublish, TypeOK, Capacity, history
  <1>2. ASSUME EndPublish PROVE TypeOK'
    <2>1. PICK channel \in publishing :
            /\ IF channel = Live THEN LivePut(Len(published) + 1)
                                 ELSE TopicPut(channel, Len(published) + 1)
            /\ published' = Append(published, channel)
            /\ publishing' = {}
            /\ UNCHANGED <<closing, pc, hand, joined, missed, received>>
      BY <1>2 DEF EndPublish
    <2>2. channel \in Channels /\ published \in Seq(Channels)
      BY <2>1 DEF TypeOK
    <2>3. published' \in Seq(Channels)
      BY <2>1, <2>2
    <2>4. Len(published) + 1 \in Nat
      BY <2>2
    <2>5. /\ queue' \in [Streams -> Seq(Nat)]
          /\ \A s \in Streams : Len(queue'[s]) <= Capacity(s)
          /\ subscribers' \subseteq Streams
      <3>1. CASE channel = Live
        <4>1. LivePut(Len(published) + 1)
          BY <2>1, <3>1
        <4> DEFINE slow == {s \in Recipients(Live) : Full(s)}
        <4>2. /\ queue' = [s \in Streams |-> IF s \in Recipients(Live) \ slow
                            THEN Append(queue[s], Len(published) + 1) ELSE queue[s]]
              /\ subscribers' = subscribers \ slow
          BY <4>1 DEF LivePut
        <4>3. ASSUME NEW s \in Streams
              PROVE  queue'[s] \in Seq(Nat) /\ Len(queue'[s]) <= Capacity(s)
          <5>1. queue[s] \in Seq(Nat) /\ Len(queue[s]) <= Capacity(s)
            BY DEF TypeOK
          <5>2. CASE s \in Recipients(Live) \ slow
            <6>1. Len(queue[s]) < Capacity(s)
              BY <5>1, <5>2, <1>0 DEF Full
            <6>2. queue'[s] = Append(queue[s], Len(published) + 1)
              BY <4>2, <5>2
            <6>3. Append(queue[s], Len(published) + 1) \in Seq(Nat)
                  /\ Len(Append(queue[s], Len(published) + 1)) = Len(queue[s]) + 1
              BY <2>4, <5>1
            <6>4. Len(queue[s]) + 1 <= Capacity(s)
              BY <1>0, <5>1, <6>1
            <6>5. QED  BY <6>2, <6>3, <6>4
          <5>3. CASE s \notin Recipients(Live) \ slow
            BY <4>2, <5>1, <5>3
          <5>4. QED  BY <5>2, <5>3
        <4>4. subscribers' \subseteq Streams
          BY <4>2 DEF TypeOK
        <4>5. DOMAIN queue' = Streams /\ queue' = [s \in Streams |-> queue'[s]]
          BY <4>2
        <4>6. QED  BY <4>3, <4>4, <4>5
      <3>2. CASE channel # Live
        <4>1. /\ queue' = [s \in Streams |-> IF s \in Recipients(channel)
                            THEN Forced(s, Len(published) + 1) ELSE queue[s]]
              /\ subscribers' = subscribers
          BY <2>1, <3>2 DEF TopicPut
        <4>2. ASSUME NEW s \in Streams
              PROVE  queue'[s] \in Seq(Nat) /\ Len(queue'[s]) <= Capacity(s)
          <5>1. Forced(s, Len(published) + 1) \in Seq(Nat)
                /\ Len(Forced(s, Len(published) + 1)) <= Capacity(s)
            BY <2>4, ForcedFits
          <5>2. queue[s] \in Seq(Nat) /\ Len(queue[s]) <= Capacity(s)
            BY DEF TypeOK
          <5>3. QED  BY <4>1, <5>1, <5>2
        <4>3. DOMAIN queue' = Streams /\ queue' = [s \in Streams |-> queue'[s]]
          BY <4>1
        <4>4. QED  BY <4>1, <4>2, <4>3 DEF TypeOK
      <3>3. QED  BY <3>1, <3>2
    <2>6. publishing' \subseteq Channels /\ Cardinality(publishing') <= 1
      BY <2>1, FS_EmptySet
    <2>7. QED  BY <2>1, <2>3, <2>5, <2>6 DEF TypeOK, Capacity
  <1>3. ASSUME RequestShutdown PROVE TypeOK'
    <2>1. /\ queue' = [s \in Streams |-> IF s \in subscribers THEN Forced(s, None) ELSE queue[s]]
          /\ closing' = TRUE
          /\ UNCHANGED <<subscribers, pc, hand, publishing, history>>
      BY <1>3 DEF RequestShutdown
    <2>2. ASSUME NEW s \in Streams
          PROVE  queue'[s] \in Seq(Nat) /\ Len(queue'[s]) <= Capacity(s)
      <3>1. Forced(s, None) \in Seq(Nat) /\ Len(Forced(s, None)) <= Capacity(s)
        BY ForcedFits DEF None
      <3>2. queue[s] \in Seq(Nat) /\ Len(queue[s]) <= Capacity(s)
        BY DEF TypeOK
      <3>3. QED  BY <2>1, <3>1, <3>2
    <2>3. DOMAIN queue' = Streams /\ queue' = [s \in Streams |-> queue'[s]]
      BY <2>1
    <2>4. queue' \in [Streams -> Seq(Nat)]
      BY <2>2, <2>3
    <2>5. QED  BY <2>1, <2>2, <2>4 DEF TypeOK, Capacity, history
  <1>4. ASSUME NEW s \in Streams, StreamStep(s) PROVE TypeOK'
    <2>0. queue[s] \in Seq(Nat) /\ hand[s] \in Seq(Nat) /\ received[s] \in Seq(Nat)
          /\ Len(queue[s]) <= Capacity(s)
      BY DEF TypeOK
    <2>1. CASE Connect(s)
      BY <2>1 DEF Connect, TypeOK, Capacity, StreamPc, history
    <2>2. CASE Subscribe(s)
      <3>1. Len(published) \in Nat
        BY DEF TypeOK
      <3>2. QED  BY <2>2, <3>1 DEF Subscribe, TypeOK, Capacity, StreamPc
    <2>3. CASE Send(s)
      <3>1. received[s] \o hand[s] \in Seq(Nat)
        BY <2>0
      <3>2. <<>> \in Seq(Nat)
        OBVIOUS
      <3>3. QED  BY <2>3, <3>1, <3>2 DEF Send, TypeOK, Capacity, StreamPc
    <2>4. ASSUME queue[s] # <<>>
          PROVE  /\ Tail(queue[s]) \in Seq(Nat)
                 /\ Len(Tail(queue[s])) <= Capacity(s)
                 /\ <<Head(queue[s])>> \in Seq(Nat)
      <3>1. Tail(queue[s]) \in Seq(Nat) /\ Head(queue[s]) \in Nat
            /\ Len(Tail(queue[s])) = Len(queue[s]) - 1 /\ Len(queue[s]) \in Nat
        BY <2>0, <2>4
      <3>2. QED  BY <1>0, <2>0, <3>1
    <2>5. CASE GetEvent(s)
      BY <2>4, <2>5 DEF GetEvent, TypeOK, Capacity, StreamPc, history
    <2>6. CASE GetNone(s)
      BY <2>4, <2>6 DEF GetNone, TypeOK, Capacity, StreamPc, history
    <2>7. CASE Ping(s)
      BY <2>7 DEF Ping, TypeOK, Capacity, StreamPc, history
    <2>8. CASE Disconnect(s)
      BY <2>8 DEF Disconnect, TypeOK, Capacity, StreamPc, history
    <2>9. CASE Close(s)
      BY <2>9 DEF Close, TypeOK, Capacity, StreamPc, history
    <2>10. QED
      BY <1>4, <2>1, <2>2, <2>3, <2>5, <2>6, <2>7, <2>8, <2>9 DEF StreamStep
  <1>5. CASE UNCHANGED vars
    BY <1>5 DEF vars, TypeOK, Capacity
  <1>6. QED
    BY <1>1, <1>2, <1>3, <1>4, <1>5 DEF Next

\* Type correctness (TypeOK): in particular no queue exceeds its capacity.
THEOREM TypeCorrect == Spec => []TypeOK
  <1>1. Init => TypeOK
    <2>1. \A s \in Streams : Capacity(s) \in Nat
      BY CapacityAssumption DEF Capacity
    <2>2. Cardinality({}) = 0
      BY FS_EmptySet
    <2>3. <<>> \in Seq(Nat) /\ <<>> \in Seq(Channels) /\ Len(<<>>) = 0
      OBVIOUS
    <2>4. ASSUME Init
          PROVE  /\ queue \in [Streams -> Seq(Nat)]
                 /\ \A s \in Streams : Len(queue[s]) <= Capacity(s)
      <3>1. \A s \in Streams : queue[s] = <<>>
        BY <2>4 DEF Init
      <3>2. \A s \in Streams : Len(queue[s]) <= Capacity(s)
        BY <2>1, <2>3, <3>1
      <3>3. queue \in [Streams -> Seq(Nat)]
        BY <2>3, <2>4 DEF Init
      <3>4. QED  BY <3>2, <3>3
    <2>5. ASSUME Init
          PROVE  /\ hand \in [Streams -> Seq(Nat)]
                 /\ received \in [Streams -> Seq(Nat)]
                 /\ joined \in [Streams -> Nat]
                 /\ published \in Seq(Channels)
      BY <2>3, <2>5 DEF Init
    <2>6. ASSUME Init
          PROVE  /\ closing \in BOOLEAN /\ subscribers \subseteq Streams
                 /\ pc \in [Streams -> StreamPc] /\ missed \subseteq Streams
                 /\ publishing \subseteq Channels
      BY <2>6 DEF Init, StreamPc
    <2>7. ASSUME Init PROVE Cardinality(publishing) <= 1
      <3>1. publishing = {}
        BY <2>7 DEF Init
      <3>2. Cardinality(publishing) = 0
        BY <2>2, <3>1
      <3>3. QED  BY <3>2
    <2>8. QED  BY <2>4, <2>5, <2>6, <2>7 DEF TypeOK
  <1>2. QED
    BY <1>1, TypeInductive, PTL DEF Spec

-----------------------------------------------------------------------------
(***************************************************************************)
(* The sentinel.  A publish call that was past its test of _closing when   *)
(* the signal came may still drop the oldest item of a queue; the sentinel *)
(* is then the newest item, and a queue that is full holds another one.    *)
(***************************************************************************)
Holds(s) == \E i \in DOMAIN queue[s] : queue[s][i] = None
EndsWithNone(s) == queue[s] # <<>> /\ queue[s][Len(queue[s])] = None

SentinelInv ==
  closing =>
    /\ \A s \in subscribers \ missed : Holds(s)
    /\ publishing # {} => \A s \in subscribers \ missed : EndsWithNone(s)

\* What is appended after the sentinel leaves it in the queue.
LEMMA AppendHolds ==
  ASSUME NEW q \in Seq(Nat), NEW item \in Nat, NEW i \in DOMAIN q, q[i] = None
  PROVE  \E j \in DOMAIN Append(q, item) : Append(q, item)[j] = None
  <1>1. i \in DOMAIN Append(q, item) /\ Append(q, item)[i] = q[i]
    OBVIOUS
  <1>2. QED  BY <1>1

\* What is taken before the sentinel leaves it in the queue.
LEMMA TailHolds ==
  ASSUME NEW q \in Seq(Nat), NEW i \in DOMAIN q, q[i] = None, i # 1
  PROVE  /\ Tail(q) \in Seq(Nat)
         /\ i - 1 \in DOMAIN Tail(q)
         /\ Tail(q)[i - 1] = None
  <1>1. i \in 1 .. Len(q) /\ q # <<>> /\ Len(q) \in Nat
    OBVIOUS
  <1>2. Tail(q) \in Seq(Nat) /\ Len(Tail(q)) = Len(q) - 1
    BY <1>1
  <1>3. i - 1 \in 1 .. Len(Tail(q))
    BY <1>1, <1>2
  <1>4. Tail(q)[i - 1] = q[(i - 1) + 1]
    BY <1>1, <1>2, <1>3
  <1>5. (i - 1) + 1 = i
    BY <1>1
  <1>6. QED  BY <1>2, <1>3, <1>4, <1>5

LEMMA SentinelInductive ==
  TypeOK /\ SentinelInv /\ [Next]_vars => SentinelInv'
  <1> SUFFICES ASSUME TypeOK, SentinelInv, [Next]_vars, closing' PROVE
        /\ \A s \in subscribers' \ missed' : Holds(s)'
        /\ publishing' # {} => \A s \in subscribers' \ missed' : EndsWithNone(s)'
    BY DEF SentinelInv
  <1> USE TopicAssumption
  <1>0. \A s \in Streams : queue[s] \in Seq(Nat)
    BY DEF TypeOK
  <1>1. ASSUME NEW channel \in Channels, BeginPublish(channel) PROVE FALSE
    BY <1>1 DEF BeginPublish, Accepting
  <1>2. CASE EndPublish
    <2>1. PICK channel \in publishing :
            /\ IF channel = Live THEN LivePut(Len(published) + 1)
                                 ELSE TopicPut(channel, Len(published) + 1)
            /\ publishing' = {}
            /\ UNCHANGED <<closing, missed>>
      BY <1>2 DEF EndPublish
    <2>2. Len(published) + 1 \in Nat
      BY DEF TypeOK
    <2>3. closing /\ publishing # {}
      BY <2>1
    <2>4. ASSUME NEW s \in subscribers' \ missed' PROVE Holds(s)'
      <3>1. subscribers' \subseteq subscribers
        BY <2>1 DEF LivePut, TopicPut
      <3>2. s \in subscribers \ missed /\ s \in Streams
        BY <2>1, <3>1 DEF TypeOK
      <3>3. queue[s] # <<>> /\ queue[s][Len(queue[s])] = None
        BY <2>3, <3>2 DEF SentinelInv, EndsWithNone
      <3>4. Len(queue[s]) \in DOMAIN queue[s] /\ Len(queue[s]) \in Nat
        BY <1>0, <3>2, <3>3
      <3>5. \/ queue'[s] = queue[s]
            \/ queue'[s] = Append(queue[s], Len(published) + 1)
            \/ queue'[s] = Append(Tail(queue[s]), Len(published) + 1) /\ Full(s)
        BY <2>1, <3>2 DEF LivePut, TopicPut, Forced
      <3>6. CASE queue'[s] = queue[s]
        BY <3>3, <3>4, <3>6 DEF Holds
      <3>7. CASE queue'[s] = Append(queue[s], Len(published) + 1)
        <4>1. \E j \in DOMAIN Append(queue[s], Len(published) + 1) :
                Append(queue[s], Len(published) + 1)[j] = None
          BY <1>0, <2>2, <3>2, <3>3, <3>4, AppendHolds
        <4>2. QED  BY <3>7, <4>1 DEF Holds
      <3>8. CASE queue'[s] = Append(Tail(queue[s]), Len(published) + 1) /\ Full(s)
        <4>1. Capacity(s) \in Nat /\ Capacity(s) >= 2
          BY CapacityAssumption DEF Capacity
        <4>2. Len(queue[s]) # 1
          BY <3>4, <3>8, <4>1 DEF Full
        <4>3. /\ Tail(queue[s]) \in Seq(Nat)
              /\ Len(queue[s]) - 1 \in DOMAIN Tail(queue[s])
              /\ Tail(queue[s])[Len(queue[s]) - 1] = None
          BY <1>0, <3>2, <3>3, <3>4, <4>2, TailHolds
        <4>4. \E j \in DOMAIN Append(Tail(queue[s]), Len(published) + 1) :
                Append(Tail(queue[s]), Len(published) + 1)[j] = None
          BY <2>2, <4>3, AppendHolds
        <4>5. QED  BY <3>8, <4>4 DEF Holds
      <3>9. QED  BY <3>5, <3>6, <3>7, <3>8
    <2>5. QED  BY <2>1, <2>4
  <1>3. CASE RequestShutdown
    <2>1. /\ queue' = [s \in Streams |-> IF s \in subscribers THEN Forced(s, None) ELSE queue[s]]
          /\ subscribers' = subscribers
      BY <1>3 DEF RequestShutdown
    <2>2. ASSUME NEW s \in subscribers' \ missed' PROVE Holds(s)' /\ EndsWithNone(s)'
      <3>1. s \in subscribers /\ s \in Streams
        BY <2>1 DEF TypeOK
      <3>2. /\ Forced(s, None) \in Seq(Nat)
            /\ Len(Forced(s, None)) > 0
            /\ Forced(s, None)[Len(Forced(s, None))] = None
        BY <3>1, ForcedFits DEF None
      <3>3. Len(Forced(s, None)) \in DOMAIN Forced(s, None) /\ Forced(s, None) # <<>>
        BY <3>2
      <3>4. queue'[s] = Forced(s, None)
        BY <2>1, <3>1
      <3>5. QED  BY <3>2, <3>3, <3>4 DEF Holds, EndsWithNone
    <2>3. QED  BY <2>2
  <1>4. ASSUME NEW r \in Streams, StreamStep(r)
        PROVE  /\ \A s \in subscribers' \ missed' : Holds(s)'
               /\ publishing' # {} => \A s \in subscribers' \ missed' : EndsWithNone(s)'
    <2>1. CASE UNCHANGED <<closing, subscribers, queue, publishing, missed>>
      BY <2>1 DEF SentinelInv, Holds, EndsWithNone
    <2>2. CASE Subscribe(r)
      <3>1. closing /\ UNCHANGED <<queue, publishing>>
            /\ subscribers' = subscribers \cup {r} /\ missed' = missed \cup {r}
        BY <2>2 DEF Subscribe
      <3>2. subscribers' \ missed' \subseteq subscribers \ missed
        BY <3>1
      <3>3. QED  BY <3>1, <3>2 DEF SentinelInv, Holds, EndsWithNone
    <2>3. CASE GetEvent(r)
      <3>1. /\ closing /\ UNCHANGED <<subscribers, missed>>
            /\ publishing = {} /\ publishing' = {}
            /\ Head(queue[r]) # None
            /\ queue' = [queue EXCEPT ![r] = Tail(@)]
        BY <2>3 DEF GetEvent, LoopFree, history
      <3>2. ASSUME NEW s \in subscribers \ missed PROVE Holds(s)'
        <4>1. s \in Streams
          BY DEF TypeOK
        <4>2. PICK i \in DOMAIN queue[s] : queue[s][i] = None
          BY <3>1 DEF SentinelInv, Holds
        <4>3. CASE s = r
          <5>1. queue[s] # <<>> /\ Head(queue[s]) = queue[s][1]
            BY <1>0, <4>1, <4>2
          <5>2. i # 1
            BY <3>1, <4>2, <4>3, <5>1
          <5>3. i - 1 \in DOMAIN Tail(queue[s]) /\ Tail(queue[s])[i - 1] = None
            BY <1>0, <4>1, <4>2, <5>2, TailHolds
          <5>4. queue'[s] = Tail(queue[s])
            BY <3>1, <4>1, <4>3 DEF TypeOK
          <5>5. QED  BY <5>3, <5>4 DEF Holds
        <4>4. CASE s # r
          BY <3>1, <4>1, <4>2, <4>4 DEF Holds, TypeOK
        <4>5. QED  BY <4>3, <4>4
      <3>3. QED  BY <3>1, <3>2
    <2>4. CASE GetNone(r)
      <3>1. /\ closing /\ UNCHANGED missed
            /\ publishing' = {}
            /\ queue' = [queue EXCEPT ![r] = Tail(@)]
            /\ subscribers' = subscribers \ {r}
        BY <2>4 DEF GetNone, LoopFree, history
      <3>2. \A s \in subscribers' : queue'[s] = queue[s] /\ s \in subscribers
        BY <3>1 DEF TypeOK
      <3>3. QED  BY <3>1, <3>2 DEF SentinelInv, Holds
    <2>5. CASE Close(r)
      <3>1. closing /\ UNCHANGED <<queue, publishing, missed>>
            /\ subscribers' = subscribers \ {r}
        BY <2>5 DEF Close, history
      <3>2. subscribers' \ missed' \subseteq subscribers \ missed
        BY <3>1
      <3>3. QED  BY <3>1, <3>2 DEF SentinelInv, Holds, EndsWithNone
    <2>6. CASE Connect(r) \/ Send(r) \/ Ping(r) \/ Disconnect(r)
      BY <2>1, <2>6 DEF Connect, Send, Ping, Disconnect, history
    <2>7. QED
      BY <1>4, <2>2, <2>3, <2>4, <2>5, <2>6 DEF StreamStep
  <1>5. CASE UNCHANGED vars
    BY <1>5 DEF vars, SentinelInv, Holds, EndsWithNone
  <1>6. QED
    BY <1>1, <1>2, <1>3, <1>4, <1>5 DEF Next

\* The sentinel of request_shutdown is never dropped (SentinelKept): whatever is
\* published meanwhile and however slow the client, a stream that was subscribed
\* when shutdown was requested finds it.
THEOREM SentinelStays == Spec => []SentinelKept
  <1>1. Init => SentinelInv
    BY DEF Init, SentinelInv
  <1>2. SentinelInv => SentinelKept
    BY DEF SentinelInv, SentinelKept, Holds
  <1>3. QED
    BY <1>1, <1>2, SentinelInductive, TypeCorrect, PTL DEF Spec
-----------------------------------------------------------------------------
(***************************************************************************)
(* What a stream is given.  A queue only grows at its end and shrinks at   *)
(* its head, so that a stream's flow keeps the order of publication and    *)
(* loses an event only when its queue is full.                             *)
(***************************************************************************)

\* The events of a flow are of the topic, newer than low, and each is newer than
\* whatever stands before it.
Ordered(flow, low, log, topic) ==
  \A i \in DOMAIN flow : flow[i] # None =>
    /\ flow[i] \in 1 .. Len(log) /\ flow[i] > low
    /\ log[flow[i]] = topic
    /\ \A j \in DOMAIN flow : j < i => flow[j] < flow[i]

Contains(flow, event) == \E i \in DOMAIN flow : flow[i] = event

\* The events that a stream which reads everything gets.
Own(s) == {e \in Events : e > joined[s] /\ published[e] = TopicOf[s]}

\* The inductive invariant of the order.
FlowInv ==
  \A s \in Streams :
    /\ Ordered(Flow(s), joined[s], published, TopicOf[s])
    /\ joined[s] <= Len(published)
    /\ pc[s] = "waiting" => hand[s] = <<>>
    /\ pc[s] \in {"new", "entering"} => s \notin subscribers /\ Flow(s) = <<>>
    /\ ~closing => ~Contains(queue[s], None)

\* ... and of what is not lost: the latest event, and by the live broker none.
LatestIn(s) ==
  \A e \in Own(s) : (\A f \in Own(s) : f <= e) => Contains(Flow(s), e)
AllIn(s) == \A e \in Own(s) : Contains(Flow(s), e)

KeptInv ==
  \A s \in subscribers :
    /\ TopicOf[s] # Live => LatestIn(s)
    /\ ~closing /\ TopicOf[s] = Live => AllIn(s)

\* What a stream was given before what is in its queue.
Front(s) == received[s] \o hand[s]

LEMMA AppendToConcat ==
  ASSUME NEW front \in Seq(Nat), NEW q \in Seq(Nat), NEW item \in Nat
  PROVE  front \o Append(q, item) = Append(front \o q, item)
<1>1. /\ front \o q \in Seq(Nat) /\ Append(q, item) \in Seq(Nat)
      /\ Len(front \o q) = Len(front) + Len(q)
      /\ Len(Append(q, item)) = Len(q) + 1
  BY ConcatProperties
<1>2. /\ front \o Append(q, item) \in Seq(Nat) /\ Append(front \o q, item) \in Seq(Nat)
      /\ Len(front \o Append(q, item)) = Len(front) + Len(q) + 1
      /\ Len(Append(front \o q, item)) = Len(front) + Len(q) + 1
  BY <1>1, ConcatProperties
<1>3. ASSUME NEW i \in 1 .. Len(front) + Len(q) + 1
      PROVE  (front \o Append(q, item))[i] = Append(front \o q, item)[i]
  <2>1. CASE i <= Len(front)
    BY <1>1, <1>3, <2>1, ConcatProperties
  <2>2. CASE i > Len(front) /\ i <= Len(front) + Len(q)
    BY <1>1, <1>3, <2>2, ConcatProperties
  <2>3. CASE i = Len(front) + Len(q) + 1
    BY <1>1, <1>3, <2>3, ConcatProperties
  <2> QED
    BY <1>3, <2>1, <2>2, <2>3
<1> DEFINE left == front \o Append(q, item)
           right == Append(front \o q, item)
<1>4. /\ left \in Seq(Nat) /\ right \in Seq(Nat) /\ Len(left) = Len(right)
      /\ \A i \in 1 .. Len(left) : left[i] = right[i]
  BY <1>2, <1>3
<1> HIDE DEF left, right
<1>5. left = right
  BY <1>4, SeqEqual
<1> QED
  BY <1>5 DEF left, right

LEMMA ConcatOfThree ==
  \A a, b, c \in Seq(Nat) : (a \o b) \o c = a \o (b \o c)
<1> SUFFICES ASSUME NEW a \in Seq(Nat), NEW b \in Seq(Nat), NEW c \in Seq(Nat)
             PROVE  (a \o b) \o c = a \o (b \o c)
  OBVIOUS
<1> QED
  BY ConcatAssociative

LEMMA HeadFirst ==
  ASSUME NEW q \in Seq(Nat), q # <<>>
  PROVE  /\ Tail(q) \in Seq(Nat) /\ <<Head(q)>> \in Seq(Nat)
         /\ <<Head(q)>> \o Tail(q) = q
<1>1. /\ Tail(q) \in Seq(Nat) /\ Head(q) \in Nat /\ Head(q) = q[1] /\ Len(q) \in Nat \ {0}
      /\ Tail(q) = SubSeq(q, 2, Len(q))
  BY HeadTailProperties, EmptySeq, TailIsSubSeq
<1>2. 1 \in 1 .. Len(q) /\ Len(q) \in 1 .. Len(q) /\ 1 + 1 = 2
  BY <1>1
<1>3. SubSeq(q, 1, Len(q)) = <<q[1]>> \o SubSeq(q, 1 + 1, Len(q))
  BY <1>2, SubSeqRecursiveFirst
<1>4. SubSeq(q, 1, Len(q)) = q
  BY SubSeqFull
<1> QED
  BY <1>1, <1>2, <1>3, <1>4

\* What is left when the head of the last part of a flow goes: the same items, in
\* the same order, but for that one.
LEMMA DropHead ==
  ASSUME NEW front \in Seq(Nat), NEW q \in Seq(Nat), q # <<>>
  PROVE  /\ front \o q \in Seq(Nat) /\ front \o Tail(q) \in Seq(Nat)
         /\ \A i \in DOMAIN (front \o Tail(q)) :
              LET k == IF i <= Len(front) THEN i ELSE i + 1
              IN  k \in DOMAIN (front \o q) /\ (front \o Tail(q))[i] = (front \o q)[k]
         /\ \A k \in DOMAIN (front \o q) : k # Len(front) + 1 =>
              LET i == IF k <= Len(front) THEN k ELSE k - 1
              IN  i \in DOMAIN (front \o Tail(q)) /\ (front \o Tail(q))[i] = (front \o q)[k]
         /\ (front \o q)[Len(front) + 1] = Head(q)
<1>1. /\ Tail(q) \in Seq(Nat) /\ Len(Tail(q)) = Len(q) - 1
      /\ \A i \in 1 .. Len(Tail(q)) : Tail(q)[i] = q[i + 1]
      /\ Len(q) \in Nat \ {0} /\ Len(front) \in Nat /\ Head(q) = q[1]
  BY HeadTailProperties, EmptySeq
<1>2. /\ front \o q \in Seq(Nat) /\ Len(front \o q) = Len(front) + Len(q)
      /\ \A i \in 1 .. Len(front) + Len(q) :
           (front \o q)[i] = IF i <= Len(front) THEN front[i] ELSE q[i - Len(front)]
      /\ DOMAIN (front \o q) = 1 .. Len(front) + Len(q)
  BY ConcatProperties, LenProperties
<1>3. /\ front \o Tail(q) \in Seq(Nat) /\ Len(front \o Tail(q)) = Len(front) + Len(q) - 1
      /\ \A i \in 1 .. Len(front) + Len(q) - 1 :
           (front \o Tail(q))[i] = IF i <= Len(front) THEN front[i] ELSE q[i - Len(front) + 1]
      /\ DOMAIN (front \o Tail(q)) = 1 .. Len(front) + Len(q) - 1
  <2>1. /\ front \o Tail(q) \in Seq(Nat) /\ Len(front \o Tail(q)) = Len(front) + Len(Tail(q))
        /\ \A i \in 1 .. Len(front) + Len(Tail(q)) :
             (front \o Tail(q))[i]
               = IF i <= Len(front) THEN front[i] ELSE Tail(q)[i - Len(front)]
    BY <1>1, ConcatProperties
  <2> QED
    BY <1>1, <2>1, LenProperties
<1>4. \A i \in 1 .. Len(front) + Len(q) - 1 :
        LET k == IF i <= Len(front) THEN i ELSE i + 1
        IN  k \in 1 .. Len(front) + Len(q) /\ (front \o Tail(q))[i] = (front \o q)[k]
  BY <1>1, <1>2, <1>3
<1>5. \A k \in 1 .. Len(front) + Len(q) : k # Len(front) + 1 =>
        LET i == IF k <= Len(front) THEN k ELSE k - 1
        IN  /\ i \in 1 .. Len(front) + Len(q) - 1
            /\ (front \o Tail(q))[i] = (front \o q)[k]
  BY <1>1, <1>2, <1>3
<1>6. \A i \in DOMAIN (front \o Tail(q)) :
        LET k == IF i <= Len(front) THEN i ELSE i + 1
        IN  k \in DOMAIN (front \o q) /\ (front \o Tail(q))[i] = (front \o q)[k]
  BY <1>2, <1>3, <1>4
<1>7. \A k \in DOMAIN (front \o q) : k # Len(front) + 1 =>
        LET i == IF k <= Len(front) THEN k ELSE k - 1
        IN  i \in DOMAIN (front \o Tail(q)) /\ (front \o Tail(q))[i] = (front \o q)[k]
  BY <1>2, <1>3, <1>5
<1>8. (front \o q)[Len(front) + 1] = Head(q)
  BY <1>1, <1>2
<1> QED
  BY <1>2, <1>3, <1>6, <1>7, <1>8

LEMMA DropHeadKeeps ==
  ASSUME NEW front \in Seq(Nat), NEW q \in Seq(Nat), q # <<>>,
         NEW k \in DOMAIN (front \o q), k # Len(front) + 1
  PROVE  Contains(front \o Tail(q), (front \o q)[k])
<1> DEFINE i == IF k <= Len(front) THEN k ELSE k - 1
<1>1. i \in DOMAIN (front \o Tail(q)) /\ (front \o Tail(q))[i] = (front \o q)[k]
  BY DropHead
<1> QED
  BY <1>1 DEF Contains

\* Publishing leaves an ordered flow ordered, and a flow may take the new event
\* at its end if it is of the topic, or the sentinel, or lose an item.
LEMMA OrderedSteps ==
  ASSUME NEW flow \in Seq(Nat), NEW low \in Nat, NEW log \in Seq(Channels),
         NEW topic, Ordered(flow, low, log, topic)
  PROVE  /\ \A channel \in Channels : Ordered(flow, low, Append(log, channel), topic)
         /\ topic \in Channels /\ low <= Len(log) =>
              Ordered(Append(flow, Len(log) + 1), low, Append(log, topic), topic)
         /\ Ordered(Append(flow, None), low, log, topic)
<1>1. Len(log) \in Nat /\ Len(flow) \in Nat /\ DOMAIN flow = 1 .. Len(flow)
  BY LenProperties
<1>2. \A channel \in Channels :
        /\ Len(Append(log, channel)) = Len(log) + 1
        /\ \A e \in 1 .. Len(log) : Append(log, channel)[e] = log[e]
        /\ Append(log, channel)[Len(log) + 1] = channel
  OBVIOUS
<1>3. ASSUME NEW channel \in Channels
      PROVE  Ordered(flow, low, Append(log, channel), topic)
  BY <1>1, <1>2 DEF Ordered
<1>4. \A item \in Nat :
        /\ DOMAIN Append(flow, item) = 1 .. Len(flow) + 1
        /\ \A i \in 1 .. Len(flow) : Append(flow, item)[i] = flow[i]
        /\ Append(flow, item)[Len(flow) + 1] = item
  BY <1>1
<1>5. None \in Nat
  BY DEF None
<1>6. \A i \in 1 .. Len(flow) : flow[i] \in Nat /\ flow[i] < Len(log) + 1
  <2>1. \A i \in 1 .. Len(flow) : flow[i] \in Nat
    BY ElementOfSeq
  <2>2. ASSUME NEW i \in 1 .. Len(flow) PROVE flow[i] < Len(log) + 1
    <3>1. flow[i] = 0 \/ flow[i] \in 1 .. Len(log)
      BY <1>1 DEF Ordered, None
    <3> QED
      BY <1>1, <3>1
  <2> QED
    BY <2>1, <2>2
<1>7. Ordered(Append(flow, None), low, log, topic)
  <2> SUFFICES ASSUME NEW i \in 1 .. Len(flow) + 1, Append(flow, None)[i] # None
               PROVE  LET e == Append(flow, None)[i]
                      IN  /\ e \in 1 .. Len(log) /\ e > low /\ log[e] = topic
                          /\ \A j \in 1 .. Len(flow) + 1 :
                               j < i => Append(flow, None)[j] < e
    BY <1>4, <1>5 DEF Ordered
  <2>1. i \in 1 .. Len(flow)
    BY <1>1, <1>4, <1>5
  <2>2. /\ Append(flow, None)[i] = flow[i]
        /\ \A j \in 1 .. Len(flow) + 1 :
             j < i => j \in 1 .. Len(flow) /\ Append(flow, None)[j] = flow[j]
    BY <1>1, <1>4, <1>5, <2>1
  <2>3. /\ flow[i] \in 1 .. Len(log) /\ flow[i] > low /\ log[flow[i]] = topic
        /\ \A j \in 1 .. Len(flow) : j < i => flow[j] < flow[i]
    BY <1>1, <2>1, <2>2 DEF Ordered
  <2> QED
    BY <2>2, <2>3
<1>8. ASSUME topic \in Channels, low <= Len(log)
      PROVE  Ordered(Append(flow, Len(log) + 1), low, Append(log, topic), topic)
  <2> DEFINE next == Append(flow, Len(log) + 1)
  <2>1. /\ DOMAIN next = 1 .. Len(flow) + 1
        /\ \A i \in 1 .. Len(flow) : next[i] = flow[i]
        /\ next[Len(flow) + 1] = Len(log) + 1
    BY <1>1, <1>4
  <2>2. ASSUME NEW i \in 1 .. Len(flow) + 1, next[i] # None
        PROVE  /\ next[i] \in 1 .. Len(log) + 1 /\ next[i] > low
               /\ Append(log, topic)[next[i]] = topic
               /\ \A j \in 1 .. Len(flow) + 1 : j < i => next[j] < next[i]
    <3>1. CASE i = Len(flow) + 1
      BY <1>1, <1>2, <1>6, <1>8, <2>1, <3>1
    <3>2. CASE i \in 1 .. Len(flow)
      <4>1. /\ next[i] = flow[i] /\ flow[i] # None
            /\ \A j \in 1 .. Len(flow) + 1 :
                 j < i => j \in 1 .. Len(flow) /\ next[j] = flow[j]
        BY <1>1, <2>1, <2>2, <3>2
      <4>2. /\ flow[i] \in 1 .. Len(log) /\ flow[i] > low /\ log[flow[i]] = topic
            /\ \A j \in 1 .. Len(flow) : j < i => flow[j] < flow[i]
        BY <1>1, <3>2, <4>1 DEF Ordered
      <4>3. Append(log, topic)[flow[i]] = topic /\ flow[i] \in 1 .. Len(log) + 1
        BY <1>1, <1>2, <1>8, <4>2
      <4> QED
        BY <4>1, <4>2, <4>3
    <3> QED
      BY <1>1, <3>1, <3>2
  <2>3. Len(Append(log, topic)) = Len(log) + 1
    BY <1>2, <1>8
  <2> HIDE DEF next
  <2>4. Ordered(next, low, Append(log, topic), topic)
    BY <2>1, <2>2, <2>3 DEF Ordered
  <2> QED
    BY <2>4 DEF next
<1> QED
  BY <1>3, <1>7, <1>8

LEMMA AppendContains ==
  ASSUME NEW flow \in Seq(Nat), NEW item \in Nat
  PROVE  /\ Contains(Append(flow, item), item)
         /\ \A e : Contains(flow, e) => Contains(Append(flow, item), e)
<1>1. /\ Len(flow) + 1 \in DOMAIN Append(flow, item)
      /\ Append(flow, item)[Len(flow) + 1] = item
      /\ \A i \in DOMAIN flow : i \in DOMAIN Append(flow, item) /\ Append(flow, item)[i] = flow[i]
  BY LenProperties
<1>2. Contains(Append(flow, item), item)
  BY <1>1 DEF Contains
<1>3. \A e : Contains(flow, e) => Contains(Append(flow, item), e)
  BY <1>1, Zenon DEF Contains
<1> QED
  BY <1>2, <1>3

\* The item after the head of the last part of a flow.
LEMMA SecondOfLast ==
  ASSUME NEW front \in Seq(Nat), NEW q \in Seq(Nat), Len(q) >= 2
  PROVE  /\ Len(front) + 1 \in DOMAIN (front \o q)
         /\ (Len(front) + 1) + 1 \in DOMAIN (front \o q)
         /\ Len(front) + 1 < (Len(front) + 1) + 1
         /\ (front \o q)[(Len(front) + 1) + 1] = q[2]
         /\ 2 \in DOMAIN q
<1>1. Len(front) \in Nat /\ Len(q) \in Nat
  BY LenProperties
<1>2. /\ DOMAIN (front \o q) = 1 .. Len(front) + Len(q) /\ DOMAIN q = 1 .. Len(q)
      /\ \A i \in 1 .. Len(front) + Len(q) :
           (front \o q)[i] = IF i <= Len(front) THEN front[i] ELSE q[i - Len(front)]
  BY ConcatProperties, LenProperties
<1>3. /\ (Len(front) + 1) + 1 \in 1 .. Len(front) + Len(q)
      /\ ((Len(front) + 1) + 1) - Len(front) = 2
  BY <1>1
<1> QED
  BY <1>1, <1>2, <1>3

HasNewer(item, low, log, topic) ==
  \E e \in 1 .. Len(log) : e > low /\ log[e] = topic /\ item < e

\* If no sentinel follows the head of a full queue, a newer event does.
LEMMA HeadIsNotLatest ==
  ASSUME NEW front \in Seq(Nat), NEW q \in Seq(Nat), Len(q) >= 2, ~Contains(q, None),
         NEW low \in Nat, NEW log \in Seq(Channels), NEW topic,
         NEW flow, flow = front \o q, Ordered(flow, low, log, topic)
  PROVE  HasNewer(flow[Len(front) + 1], low, log, topic)
<1> DEFINE h == Len(front) + 1
<1>1. /\ h \in DOMAIN flow /\ h + 1 \in DOMAIN flow /\ h < h + 1
      /\ flow[h + 1] = q[2] /\ 2 \in DOMAIN q
  BY SecondOfLast
<1>2. q[2] # None
  BY <1>1 DEF Contains
<1> HIDE DEF h
<1>3. /\ flow[h + 1] \in 1 .. Len(log) /\ flow[h + 1] > low /\ log[flow[h + 1]] = topic
      /\ flow[h] < flow[h + 1]
  BY <1>1, <1>2 DEF Ordered
<1> QED
  BY <1>3 DEF h, HasNewer

LEMMA OrderedDrop ==
  ASSUME NEW front \in Seq(Nat), NEW q \in Seq(Nat), q # <<>>, NEW low \in Nat,
         NEW log \in Seq(Channels), NEW topic, Ordered(front \o q, low, log, topic)
  PROVE  Ordered(front \o Tail(q), low, log, topic)
<1> DEFINE flow == front \o q
           left == front \o Tail(q)
           old(i) == IF i <= Len(front) THEN i ELSE i + 1
<1>1. /\ left \in Seq(Nat) /\ Len(front) \in Nat /\ DOMAIN left = 1 .. Len(left)
      /\ \A i \in DOMAIN left : old(i) \in DOMAIN flow /\ left[i] = flow[old(i)]
  BY DropHead, LenProperties
<1>2. \A i, j \in DOMAIN left : j < i => old(j) < old(i)
  BY <1>1
<1>3. Ordered(flow, low, log, topic)
  OBVIOUS
<1> HIDE DEF flow, left, old
<1>4. Ordered(left, low, log, topic)
  BY <1>1, <1>2, <1>3 DEF Ordered
<1> QED
  BY <1>4 DEF left

\* The parts of a flow, and what its queue may be once an item is in.
LEMMA FlowTypes ==
  ASSUME TypeOK, NEW s \in Streams
  PROVE  /\ received[s] \in Seq(Nat) /\ hand[s] \in Seq(Nat) /\ queue[s] \in Seq(Nat)
         /\ Front(s) \in Seq(Nat) /\ Flow(s) \in Seq(Nat) /\ Flow(s) = Front(s) \o queue[s]
         /\ joined[s] \in Nat /\ published \in Seq(Channels) /\ Len(published) \in Nat
         /\ TopicOf[s] \in Channels
<1>1. received[s] \in Seq(Nat) /\ hand[s] \in Seq(Nat) /\ queue[s] \in Seq(Nat)
  BY DEF TypeOK
<1>2. Front(s) \in Seq(Nat) /\ Flow(s) \in Seq(Nat) /\ Flow(s) = Front(s) \o queue[s]
  BY <1>1, ConcatProperties DEF Flow, Front
<1>3. joined[s] \in Nat /\ published \in Seq(Channels) /\ Len(published) \in Nat
  BY DEF TypeOK
<1> QED
  BY <1>1, <1>2, <1>3, TopicAssumption DEF Channels

\* What a queue that takes an item had kept for it.
Kept(s, q) ==
  \/ q = queue[s]
  \/ q = Tail(queue[s]) /\ queue[s] # <<>> /\ Len(queue[s]) >= 2 /\ TopicOf[s] # Live

LEMMA KeptFits ==
  ASSUME TypeOK, NEW s \in Streams, NEW q, Kept(s, q), NEW item \in Nat
  PROVE  /\ q \in Seq(Nat) /\ Front(s) \o q \in Seq(Nat)
         /\ Front(s) \o Append(q, item) = Append(Front(s) \o q, item)
<1>1. q \in Seq(Nat)
  BY FlowTypes, HeadTailProperties DEF Kept
<1> QED
  BY <1>1, FlowTypes, AppendToConcat, ConcatProperties

LEMMA ForcedKeeps ==
  ASSUME TypeOK, NEW s \in Streams, TopicOf[s] # Live, NEW item \in Nat
  PROVE  \E q \in Seq(Nat) : Kept(s, q) /\ Forced(s, item) = Append(q, item)
<1>1. queue[s] \in Seq(Nat) /\ Len(queue[s]) \in Nat
  BY FlowTypes, LenProperties
<1>2. CASE Full(s)
  <2>1. Len(queue[s]) >= 2 /\ queue[s] # <<>>
    BY <1>1, <1>2, CapacityAssumption, EmptySeq DEF Full, Capacity
  <2>2. Kept(s, Tail(queue[s])) /\ Tail(queue[s]) \in Seq(Nat)
    BY <1>1, <2>1, HeadTailProperties DEF Kept
  <2> QED
    BY <1>2, <2>2 DEF Forced
<1>3. CASE ~Full(s)
  BY <1>1, <1>3 DEF Forced, Kept
<1> QED
  BY <1>2, <1>3

\* publish: a stream's flow gets the event if it is of its topic.
LEMMA PublishFlow ==
  ASSUME TypeOK, EndPublish, NEW s \in Streams
  PROVE  /\ UNCHANGED <<closing, pc, hand, joined, received>>
         /\ subscribers' \subseteq subscribers
         /\ \E channel \in Channels :
              /\ published' = Append(published, channel)
              /\ \/ /\ queue'[s] = queue[s]
                    /\ s \in subscribers' => TopicOf[s] # channel
                 \/ /\ TopicOf[s] = channel /\ s \in subscribers
                    /\ \E q \in Seq(Nat) :
                         Kept(s, q) /\ queue'[s] = Append(q, Len(published) + 1)
<1>1. PICK channel \in publishing :
        /\ IF channel = Live THEN LivePut(Len(published) + 1)
                             ELSE TopicPut(channel, Len(published) + 1)
        /\ published' = Append(published, channel)
        /\ UNCHANGED <<closing, pc, hand, joined, received>>
  BY DEF EndPublish
<1>2. channel \in Channels /\ Len(published) + 1 \in Nat /\ queue[s] \in Seq(Nat)
  BY <1>1, FlowTypes DEF TypeOK
<1>3. CASE channel = Live
  <2> DEFINE slow == {r \in Recipients(Live) : Full(r)}
  <2>1. /\ queue'[s] = IF s \in Recipients(Live) \ slow
                         THEN Append(queue[s], Len(published) + 1) ELSE queue[s]
        /\ subscribers' = subscribers \ slow
    BY <1>1, <1>3 DEF LivePut
  <2>2. CASE s \in Recipients(Live) \ slow
    BY <1>1, <1>2, <1>3, <2>1, <2>2 DEF Recipients, Kept
  <2>3. CASE s \notin Recipients(Live) \ slow
    BY <1>1, <1>2, <1>3, <2>1, <2>3 DEF Recipients
  <2> QED
    BY <2>2, <2>3
<1>4. CASE channel # Live
  <2>1. /\ queue'[s] = IF s \in Recipients(channel)
                         THEN Forced(s, Len(published) + 1) ELSE queue[s]
        /\ subscribers' = subscribers
    BY <1>1, <1>4 DEF TopicPut
  <2>2. CASE s \in Recipients(channel)
    <3>1. TopicOf[s] = channel /\ s \in subscribers
      BY <2>2 DEF Recipients
    <3>2. \E q \in Seq(Nat) : Kept(s, q) /\ queue'[s] = Append(q, Len(published) + 1)
      BY <1>2, <1>4, <2>1, <2>2, <3>1, ForcedKeeps
    <3> QED
      BY <1>1, <1>2, <2>1, <3>1, <3>2
  <2>3. CASE s \notin Recipients(channel)
    BY <1>1, <1>2, <2>1, <2>3 DEF Recipients
  <2> QED
    BY <2>2, <2>3
<1> QED
  BY <1>3, <1>4

\* A stream's own steps leave its flow as it is, but for the sentinel it reads.
LEMMA StreamFlow ==
  ASSUME TypeOK, FlowInv, NEW r \in Streams, StreamStep(r), NEW s \in Streams
  PROVE  /\ published' = published /\ closing' = closing
         /\ \/ Flow(s)' = Flow(s)
            \/ /\ s = r /\ s \notin subscribers' /\ queue[s] # <<>>
               /\ Flow(s)' = Front(s) \o Tail(queue[s]) /\ pc'[s] = "ended"
<1> USE FlowTypes
<1>1. published' = published /\ closing' = closing
  BY DEF StreamStep, Connect, Subscribe, Send, GetEvent, GetNone, Ping, Disconnect, Close,
     history
<1>2. CASE s # r
  <2>1. received'[s] = received[s] /\ hand'[s] = hand[s] /\ queue'[s] = queue[s]
    BY <1>2 DEF StreamStep, Connect, Subscribe, Send, GetEvent, GetNone, Ping, Disconnect,
       Close, history, TypeOK
  <2> QED
    BY <1>1, <2>1 DEF Flow
<1>3. CASE s = r /\ (Connect(s) \/ Subscribe(s) \/ Ping(s) \/ Disconnect(s) \/ Close(s))
  BY <1>1, <1>3 DEF Connect, Subscribe, Ping, Disconnect, Close, history, Flow
<1>4. CASE s = r /\ Send(s)
  <2>1. /\ received'[s] = received[s] \o hand[s] /\ hand'[s] = <<>>
        /\ queue'[s] = queue[s]
    BY <1>4 DEF Send, TypeOK
  <2>2. Front(s) \o <<>> = Front(s)
    BY ConcatEmptySeq
  <2> QED
    BY <1>1, <2>1, <2>2 DEF Flow, Front
<1>5. CASE s = r /\ GetEvent(s)
  <2>1. /\ received'[s] = received[s] /\ hand'[s] = <<Head(queue[s])>>
        /\ queue'[s] = Tail(queue[s]) /\ queue[s] # <<>> /\ hand[s] = <<>>
    BY <1>5 DEF GetEvent, history, TypeOK, FlowInv
  <2>2. /\ Tail(queue[s]) \in Seq(Nat) /\ <<Head(queue[s])>> \in Seq(Nat)
        /\ <<Head(queue[s])>> \o Tail(queue[s]) = queue[s]
    BY <2>1, HeadFirst
  <2>3. Flow(s)' = (received[s] \o <<Head(queue[s])>>) \o Tail(queue[s])
    BY <2>1 DEF Flow
  <2>4. Flow(s)' = received[s] \o queue[s]
    <3>1. received[s] \in Seq(Nat)
      OBVIOUS
    <3>2. Flow(s)' = received[s] \o (<<Head(queue[s])>> \o Tail(queue[s]))
      BY <2>2, <2>3, <3>1, ConcatOfThree
    <3> QED
      BY <2>2, <3>2
  <2>5. Flow(s) = received[s] \o queue[s]
    BY <2>1, ConcatEmptySeq DEF Flow
  <2> QED
    BY <1>1, <2>4, <2>5
<1>6. CASE s = r /\ GetNone(s)
  BY <1>1, <1>6 DEF GetNone, history, TypeOK, Flow, Front
<1> QED
  BY <1>2, <1>3, <1>4, <1>5, <1>6 DEF StreamStep

\* What a flow may become: it takes the new event, or the sentinel.
LEMMA TakingKeepsOrder ==
  ASSUME TypeOK, NEW s \in Streams, NEW q, Kept(s, q),
         Ordered(Flow(s), joined[s], published, TopicOf[s]), joined[s] <= Len(published)
  PROVE  /\ Ordered(Front(s) \o Append(q, None), joined[s], published, TopicOf[s])
         /\ Ordered(Front(s) \o Append(q, Len(published) + 1), joined[s],
                    Append(published, TopicOf[s]), TopicOf[s])
<1> USE FlowTypes
<1>1. /\ q \in Seq(Nat) /\ Front(s) \o q \in Seq(Nat) /\ None \in Nat
      /\ Front(s) \o Append(q, None) = Append(Front(s) \o q, None)
      /\ Front(s) \o Append(q, Len(published) + 1) = Append(Front(s) \o q, Len(published) + 1)
  <2>1. q \in Seq(Nat) /\ Front(s) \o q \in Seq(Nat)
    BY KeptFits
  <2>2. None \in Nat /\ Len(published) + 1 \in Nat
    BY DEF None
  <2>3. \A item \in Nat : Front(s) \o Append(q, item) = Append(Front(s) \o q, item)
    BY KeptFits
  <2> QED
    BY <2>1, <2>2, <2>3
<1>2. Ordered(Front(s) \o q, joined[s], published, TopicOf[s])
  BY OrderedDrop DEF Kept
<1> QED
  BY <1>1, <1>2, OrderedSteps

\* request_shutdown: a flow stays, or takes the sentinel at its end.
LEMMA ShutdownFlow ==
  ASSUME TypeOK, RequestShutdown, NEW s \in Streams
  PROVE  /\ UNCHANGED <<subscribers, pc, hand, history>> /\ ~closing /\ closing'
         /\ \/ queue'[s] = queue[s]
            \/ /\ s \in subscribers
               /\ TopicOf[s] # Live =>
                    \E q \in Seq(Nat) : Kept(s, q) /\ queue'[s] = Append(q, None)
               /\ \E q \in Seq(Nat) :
                    /\ queue'[s] = Append(q, None)
                    /\ q = queue[s] \/ (q = Tail(queue[s]) /\ queue[s] # <<>>)
<1>1. /\ UNCHANGED <<subscribers, pc, hand, history>> /\ ~closing /\ closing'
      /\ queue'[s] = IF s \in subscribers THEN Forced(s, None) ELSE queue[s]
  BY DEF RequestShutdown
<1>2. queue[s] \in Seq(Nat) /\ Len(queue[s]) \in Nat /\ None \in Nat
  BY FlowTypes, LenProperties DEF None
<1>3. Full(s) => queue[s] # <<>> /\ Tail(queue[s]) \in Seq(Nat)
  BY <1>2, CapacityAssumption, EmptySeq, HeadTailProperties DEF Full, Capacity
<1>4. \E q \in Seq(Nat) :
        /\ Forced(s, None) = Append(q, None)
        /\ q = queue[s] \/ (q = Tail(queue[s]) /\ queue[s] # <<>>)
  <2>1. CASE Full(s)
    BY <1>2, <1>3, <2>1 DEF Forced
  <2>2. CASE ~Full(s)
    BY <1>2, <2>2 DEF Forced
  <2> QED
    BY <2>1, <2>2
<1> QED
  BY <1>1, <1>2, <1>4, ForcedKeeps

\* No sentinel comes into a queue with an event, or by taking the head.
LEMMA NoneFromNowhere ==
  ASSUME NEW q \in Seq(Nat), ~Contains(q, None)
  PROVE  /\ q # <<>> => ~Contains(Tail(q), None)
         /\ \A item \in Nat \ {0} : ~Contains(Append(q, item), None)
<1>1. q # <<>> => ~Contains(Tail(q), None)
  <2> SUFFICES ASSUME q # <<>>, NEW i \in DOMAIN Tail(q), Tail(q)[i] = None PROVE FALSE
    BY DEF Contains
  <2>1. /\ Tail(q) \in Seq(Nat) /\ Len(Tail(q)) = Len(q) - 1 /\ Len(q) \in Nat
        /\ \A j \in 1 .. Len(Tail(q)) : Tail(q)[j] = q[j + 1]
    BY HeadTailProperties, LenProperties
  <2>2. i \in 1 .. Len(q) - 1 /\ q[i + 1] = None
    BY <2>1, LenProperties
  <2>3. i + 1 \in DOMAIN q
    BY <2>1, <2>2, LenProperties
  <2> QED
    BY <2>2, <2>3 DEF Contains
<1>2. ASSUME NEW item \in Nat \ {0} PROVE ~Contains(Append(q, item), None)
  <2>1. \A i \in DOMAIN Append(q, item) :
          (i \in DOMAIN q /\ Append(q, item)[i] = q[i]) \/ Append(q, item)[i] = item
    OBVIOUS
  <2> QED
    BY <2>1 DEF Contains, None
<1> QED
  BY <1>1, <1>2

LEMMA FlowInductive == TypeOK /\ FlowInv /\ [Next]_vars => FlowInv'
<1> SUFFICES ASSUME TypeOK, FlowInv, [Next]_vars, NEW s \in Streams
             PROVE  /\ Ordered(Flow(s), joined[s], published, TopicOf[s])'
                    /\ (joined[s] <= Len(published))'
                    /\ (pc[s] = "waiting" => hand[s] = <<>>)'
                    /\ (pc[s] \in {"new", "entering"} => s \notin subscribers /\ Flow(s) = <<>>)'
                    /\ (~closing => ~Contains(queue[s], None))'
  BY DEF FlowInv
<1> USE FlowTypes
<1>0. /\ Ordered(Flow(s), joined[s], published, TopicOf[s])
      /\ joined[s] <= Len(published)
      /\ pc[s] = "waiting" => hand[s] = <<>>
      /\ pc[s] \in {"new", "entering"} => s \notin subscribers /\ Flow(s) = <<>>
      /\ ~closing => ~Contains(queue[s], None)
  BY DEF FlowInv
<1>1. ASSUME UNCHANGED <<subscribers, queue, pc, hand, history>>, closing => closing'
      PROVE  /\ Ordered(Flow(s), joined[s], published, TopicOf[s])'
             /\ (joined[s] <= Len(published))'
             /\ (pc[s] = "waiting" => hand[s] = <<>>)'
             /\ (pc[s] \in {"new", "entering"} => s \notin subscribers /\ Flow(s) = <<>>)'
             /\ (~closing => ~Contains(queue[s], None))'
  BY <1>0, <1>1 DEF Flow, history
<1>2. CASE \E channel \in Channels : BeginPublish(channel)
  BY <1>1, <1>2 DEF BeginPublish
<1>3. CASE UNCHANGED vars
  BY <1>1, <1>3 DEF vars, history
<1>4. CASE EndPublish
  <2>1. /\ UNCHANGED <<closing, pc, hand, joined, received>>
        /\ subscribers' \subseteq subscribers
    BY <1>4, PublishFlow
  <2>2. PICK channel \in Channels :
          /\ published' = Append(published, channel)
          /\ \/ queue'[s] = queue[s]
             \/ /\ TopicOf[s] = channel /\ s \in subscribers
                /\ \E q \in Seq(Nat) :
                     Kept(s, q) /\ queue'[s] = Append(q, Len(published) + 1)
    BY <1>4, PublishFlow
  <2>3. (joined[s] <= Len(published))'
    BY <1>0, <2>1, <2>2
  <2>4. CASE queue'[s] = queue[s]
    <3>1. Flow(s)' = Flow(s)
      BY <2>1, <2>4 DEF Flow
    <3>2. Ordered(Flow(s), joined[s], published', TopicOf[s])
      BY <1>0, <2>2, OrderedSteps
    <3> QED
      BY <1>0, <2>1, <2>3, <2>4, <3>1, <3>2
  <2>5. ASSUME TopicOf[s] = channel, s \in subscribers,
               NEW q \in Seq(Nat), Kept(s, q), queue'[s] = Append(q, Len(published) + 1)
        PROVE  /\ Ordered(Flow(s), joined[s], published, TopicOf[s])'
               /\ (pc[s] \in {"new", "entering"}
                    => s \notin subscribers /\ Flow(s) = <<>>)'
               /\ (~closing => ~Contains(queue[s], None))'
    <3>1. Flow(s)' = Front(s) \o Append(q, Len(published) + 1)
      BY <2>1, <2>5 DEF Flow, Front
    <3>2. Ordered(Flow(s)', joined[s], published', TopicOf[s])
      BY <1>0, <2>2, <2>5, <3>1, TakingKeepsOrder
    <3>3. pc'[s] \notin {"new", "entering"}
      BY <1>0, <2>1, <2>5
    <3>4. ~closing => ~Contains(queue'[s], None)
      <4>1. ASSUME ~closing PROVE ~Contains(q, None)
        BY <1>0, <2>5, <4>1, NoneFromNowhere DEF Kept
      <4>2. Len(published) + 1 \in Nat \ {0}
        OBVIOUS
      <4> QED
        BY <2>5, <4>1, <4>2, NoneFromNowhere
    <3> QED
      BY <2>1, <3>2, <3>3, <3>4
  <2> QED
    BY <1>0, <2>1, <2>2, <2>3, <2>4, <2>5
<1>5. CASE RequestShutdown
  <2>1. /\ UNCHANGED <<subscribers, pc, hand, published, joined, received>> /\ closing'
        /\ \/ queue'[s] = queue[s]
           \/ /\ s \in subscribers
              /\ \E q \in Seq(Nat) :
                   /\ queue'[s] = Append(q, None)
                   /\ q = queue[s] \/ (q = Tail(queue[s]) /\ queue[s] # <<>>)
    BY <1>5, ShutdownFlow DEF history
  <2>2. CASE queue'[s] = queue[s]
    BY <1>0, <2>1, <2>2 DEF Flow
  <2>3. ASSUME s \in subscribers, NEW q \in Seq(Nat), queue'[s] = Append(q, None),
               q = queue[s] \/ (q = Tail(queue[s]) /\ queue[s] # <<>>)
        PROVE  /\ Ordered(Flow(s), joined[s], published, TopicOf[s])'
               /\ (pc[s] \in {"new", "entering"}
                    => s \notin subscribers /\ Flow(s) = <<>>)'
    <3>1. Ordered(Front(s) \o q, joined[s], published, TopicOf[s])
      BY <1>0, <2>3, OrderedDrop
    <3>2. None \in Nat
      BY DEF None
    <3>3. Front(s) \o q \in Seq(Nat) /\ Front(s) \o Append(q, None) = Append(Front(s) \o q, None)
      BY <3>2, AppendToConcat, ConcatProperties
    <3>4. Flow(s)' = Append(Front(s) \o q, None)
      BY <2>1, <2>3, <3>3 DEF Flow, Front
    <3>5. Ordered(Flow(s)', joined[s], published, TopicOf[s])
      BY <3>1, <3>3, <3>4, OrderedSteps
    <3>6. pc'[s] \notin {"new", "entering"}
      BY <1>0, <2>1, <2>3
    <3> QED
      BY <2>1, <3>5, <3>6
  <2> QED
    BY <1>0, <2>1, <2>2, <2>3
<1>6. ASSUME NEW r \in Streams, StreamStep(r)
      PROVE  /\ Ordered(Flow(s), joined[s], published, TopicOf[s])'
             /\ (joined[s] <= Len(published))'
             /\ (pc[s] = "waiting" => hand[s] = <<>>)'
             /\ (pc[s] \in {"new", "entering"} => s \notin subscribers /\ Flow(s) = <<>>)'
             /\ (~closing => ~Contains(queue[s], None))'
  <2>1. /\ published' = published /\ closing' = closing
        /\ \/ Flow(s)' = Flow(s)
           \/ /\ queue[s] # <<>> /\ Flow(s)' = Front(s) \o Tail(queue[s]) /\ pc'[s] = "ended"
    BY <1>6, StreamFlow
  <2>2. \/ joined'[s] = joined[s]
        \/ joined'[s] = Len(published) /\ Flow(s) = <<>> /\ pc'[s] = "yielding"
    BY <1>0, <1>6 DEF StreamStep, Connect, Subscribe, Send, GetEvent, GetNone, Ping,
       Disconnect, Close, history, TypeOK
  <2>3. Ordered(Flow(s), joined'[s], published, TopicOf[s])
    BY <1>0, <2>2 DEF Ordered
  <2>4. Ordered(Flow(s)', joined'[s], published, TopicOf[s])
    <3>1. joined'[s] \in Nat
      BY <2>2
    <3> QED
      BY <2>1, <2>3, <3>1, OrderedDrop
  <2>5. (joined[s] <= Len(published))'
    <3>1. Len(published) \in Nat /\ published' = published
      BY <2>1
    <3> QED
      BY <1>0, <2>2, <3>1
  <2>6. (pc[s] = "waiting" => hand[s] = <<>>)'
    BY <1>0, <1>6 DEF StreamStep, Connect, Subscribe, Send, GetEvent, GetNone, Ping,
       Disconnect, Close, history, TypeOK
  <2>7. pc'[s] \in {"new", "entering"} => /\ pc[s] \in {"new", "entering"}
                                          /\ s \in subscribers' => s \in subscribers
    <3>1. CASE s # r
      BY <1>6, <3>1 DEF StreamStep, Connect, Subscribe, Send, GetEvent, GetNone, Ping,
         Disconnect, Close, history, TypeOK
    <3>2. CASE s = r /\ Connect(r)
      BY <3>2 DEF Connect
    <3>3. CASE s = r /\ ~Connect(r)
      BY <1>6, <3>3 DEF StreamStep, Subscribe, Send, GetEvent, GetNone, Ping,
         Disconnect, Close, history, TypeOK
    <3> QED
      BY <3>1, <3>2, <3>3
  <2>8. (pc[s] \in {"new", "entering"} => s \notin subscribers /\ Flow(s) = <<>>)'
    BY <1>0, <2>1, <2>7
  <2>9. queue'[s] = queue[s] \/ (queue[s] # <<>> /\ queue'[s] = Tail(queue[s]))
    BY <1>6 DEF StreamStep, Connect, Subscribe, Send, GetEvent, GetNone, Ping,
       Disconnect, Close, history, TypeOK
  <2>10. (~closing => ~Contains(queue[s], None))'
    BY <1>0, <2>1, <2>9, NoneFromNowhere
  <2> QED
    BY <2>1, <2>4, <2>5, <2>6, <2>8, <2>10
<1> QED
  BY <1>2, <1>3, <1>4, <1>5, <1>6 DEF Next

\* What a stream should get grows by what is published of its topic.
LEMMA OwnGrows ==
  ASSUME TypeOK, NEW s \in Streams, joined[s] <= Len(published), NEW channel \in Channels,
         published' = Append(published, channel), joined' = joined
  PROVE  Own(s)' = IF TopicOf[s] = channel THEN Own(s) \cup {Len(published) + 1} ELSE Own(s)
<1>1. /\ joined[s] \in Nat /\ Len(published) \in Nat /\ published \in Seq(Channels)
  BY FlowTypes
<1>2. /\ Len(published') = Len(published) + 1
      /\ \A e \in 1 .. Len(published) : published'[e] = published[e]
      /\ published'[Len(published) + 1] = channel
  BY <1>1
<1> QED
  BY <1>1, <1>2 DEF Own, Events

\* The sentinel comes at a time when none is in the queue, so that what it may
\* push out is an event with a newer one after it.
LEMMA ShutdownKeepsLatest ==
  ASSUME TypeOK, FlowInv, NEW s \in Streams, ~closing, NEW q \in Seq(Nat), Kept(s, q),
         NEW e \in Own(s), \A f \in Own(s) : f <= e, Contains(Flow(s), e)
  PROVE  Contains(Front(s) \o Append(q, None), e)
<1> USE FlowTypes
<1> DEFINE kept == Front(s) \o q
<1>1. /\ kept \in Seq(Nat) /\ None \in Nat
      /\ Front(s) \o Append(q, None) = Append(kept, None)
  BY KeptFits DEF None
<1>2. Contains(kept, e)
  <2>1. CASE q = queue[s]
    BY <2>1
  <2>2. CASE q = Tail(queue[s]) /\ queue[s] # <<>> /\ Len(queue[s]) >= 2
    <3>1. PICK k \in DOMAIN Flow(s) : Flow(s)[k] = e
      BY DEF Contains
    <3>2. Flow(s) = Front(s) \o queue[s] /\ Front(s) \in Seq(Nat) /\ queue[s] \in Seq(Nat)
      OBVIOUS
    <3>3. Ordered(Flow(s), joined[s], published, TopicOf[s]) /\ ~Contains(queue[s], None)
      BY DEF FlowInv
    <3>4. PICK newer \in Own(s) : Flow(s)[Len(Front(s)) + 1] < newer
      <4>1. joined[s] \in Nat /\ published \in Seq(Channels) /\ Len(queue[s]) >= 2
        BY <2>2
      <4>2. HasNewer(Flow(s)[Len(Front(s)) + 1], joined[s], published, TopicOf[s])
        BY <3>2, <3>3, <4>1, HeadIsNotLatest
      <4> QED
        BY <4>2 DEF HasNewer, Own, Events
    <3>5. k # Len(Front(s)) + 1
      <4>1. newer <= e /\ newer \in Nat /\ e \in Nat
        BY DEF Own, Events
      <4>2. ~(e < newer)
        BY <4>1
      <4> QED
        BY <3>1, <3>4, <4>2
    <3> QED
      BY <2>2, <3>1, <3>2, <3>5, DropHeadKeeps
  <2> QED
    BY <2>1, <2>2 DEF Kept
<1> HIDE DEF kept
<1>3. Contains(Append(kept, None), e)
  BY <1>1, <1>2, AppendContains
<1> QED
  BY <1>1, <1>3

LEMMA KeptInductive == TypeOK /\ FlowInv /\ KeptInv /\ [Next]_vars => KeptInv'
<1> SUFFICES ASSUME TypeOK, FlowInv, KeptInv, [Next]_vars, NEW s \in subscribers'
             PROVE  /\ (TopicOf[s] # Live => LatestIn(s)')
                    /\ (~closing /\ TopicOf[s] = Live)' => AllIn(s)'
  BY DEF KeptInv
<1>0. TypeOK'
  BY TypeInductive
<1>1. s \in Streams
  BY <1>0 DEF TypeOK
<1> USE FlowTypes
<1>2. joined[s] <= Len(published)
  BY <1>1 DEF FlowInv
<1>3. ASSUME s \in subscribers, Flow(s)' = Flow(s), Own(s)' = Own(s), closing => closing'
      PROVE  /\ (TopicOf[s] # Live => LatestIn(s)')
             /\ (~closing /\ TopicOf[s] = Live)' => AllIn(s)'
  BY <1>3 DEF KeptInv, LatestIn, AllIn
<1>4. CASE \E channel \in Channels : BeginPublish(channel)
  BY <1>3, <1>4 DEF BeginPublish, history, Flow, Own, Events
<1>5. CASE UNCHANGED vars
  BY <1>3, <1>5 DEF vars, Flow, Own, Events
<1>6. CASE EndPublish
  <2>1. UNCHANGED <<closing, pc, hand, joined, received>> /\ s \in subscribers
    BY <1>1, <1>6, PublishFlow
  <2>2. PICK channel \in Channels :
          /\ published' = Append(published, channel)
          /\ \/ queue'[s] = queue[s] /\ TopicOf[s] # channel
             \/ /\ TopicOf[s] = channel
                /\ \E q \in Seq(Nat) :
                     Kept(s, q) /\ queue'[s] = Append(q, Len(published) + 1)
    BY <1>1, <1>6, PublishFlow
  <2>3. CASE queue'[s] = queue[s] /\ TopicOf[s] # channel
    <3>1. Own(s)' = Own(s)
      BY <1>1, <1>2, <2>1, <2>2, <2>3, OwnGrows
    <3>2. Flow(s)' = Flow(s)
      BY <2>1, <2>3 DEF Flow
    <3> QED
      BY <1>3, <2>1, <3>1, <3>2
  <2>4. ASSUME TopicOf[s] = channel, NEW q \in Seq(Nat), Kept(s, q),
               queue'[s] = Append(q, Len(published) + 1)
        PROVE  /\ (TopicOf[s] # Live => LatestIn(s)')
               /\ (~closing /\ TopicOf[s] = Live)' => AllIn(s)'
    <3> DEFINE e == Len(published) + 1
    <3>1. /\ Own(s)' = Own(s) \cup {e} /\ e \in Nat /\ Own(s) \subseteq Nat
         /\ \A f \in Own(s) : f < e
      BY <1>1, <1>2, <2>1, <2>2, <2>4, OwnGrows DEF Own, Events
    <3>2. /\ Front(s) \o q \in Seq(Nat)
          /\ Flow(s)' = Append(Front(s) \o q, e)
      BY <1>1, <2>1, <2>4, <3>1, KeptFits DEF Flow, Front
    <3>3. Contains(Flow(s)', e)
      BY <3>1, <3>2, AppendContains
    <3>4. TopicOf[s] # Live => LatestIn(s)'
      <4>1. \A f \in Own(s)' : (\A g \in Own(s)' : g <= f) => f = e
        BY <3>1
      <4>2. LatestIn(s)' <=>
              \A f \in Own(s)' : (\A g \in Own(s)' : g <= f) => Contains(Flow(s)', f)
        BY DEF LatestIn, Contains
      <4> QED
        BY <3>3, <4>1, <4>2
    <3>5. ASSUME (~closing /\ TopicOf[s] = Live)' PROVE AllIn(s)'
      <4>1. q = queue[s] /\ AllIn(s)
        BY <2>1, <2>4, <3>5 DEF KeptInv, Kept
      <4>2. \A f \in Own(s) : Contains(Flow(s), f)
        BY <4>1 DEF AllIn
      <4>3. Flow(s)' = Append(Flow(s), e) /\ Flow(s) \in Seq(Nat)
        BY <1>1, <3>2, <4>1
      <4>4. \A f \in Own(s) : Contains(Flow(s)', f)
        <5> SUFFICES ASSUME NEW f \in Own(s) PROVE Contains(Flow(s)', f)
          OBVIOUS
        <5>1. PICK i \in DOMAIN Flow(s) : Flow(s)[i] = f
          BY <4>2 DEF Contains
        <5>2. i \in DOMAIN Append(Flow(s), e) /\ Append(Flow(s), e)[i] = f
          BY <3>1, <4>3, <5>1
        <5> QED
          BY <4>3, <5>2 DEF Contains
      <4>5. AllIn(s)' <=> \A f \in Own(s)' : Contains(Flow(s)', f)
        BY DEF AllIn, Contains
      <4> QED
        BY <3>1, <3>3, <4>4, <4>5
    <3> QED
      BY <3>4, <3>5
  <2> QED
    BY <2>2, <2>3, <2>4
<1>7. CASE RequestShutdown
  <2>1. /\ UNCHANGED <<subscribers, pc, hand, published, joined, received>> /\ ~closing /\ closing'
        /\ \/ queue'[s] = queue[s]
           \/ TopicOf[s] # Live =>
                \E q \in Seq(Nat) : Kept(s, q) /\ queue'[s] = Append(q, None)
    BY <1>1, <1>7, ShutdownFlow DEF history
  <2>2. s \in subscribers /\ Own(s)' = Own(s)
    BY <2>1 DEF Own, Events
  <2>3. CASE queue'[s] = queue[s]
    BY <1>3, <2>1, <2>2, <2>3 DEF Flow
  <2>4. ASSUME TopicOf[s] # Live, NEW q \in Seq(Nat), Kept(s, q), queue'[s] = Append(q, None)
        PROVE  LatestIn(s)'
    <3>1. Flow(s)' = Front(s) \o Append(q, None)
      BY <2>1, <2>4 DEF Flow, Front
    <3>2. LatestIn(s)
      BY <2>2, <2>4 DEF KeptInv
    <3>3. \A e \in Own(s) : (\A f \in Own(s) : f <= e)
            => Contains(Front(s) \o Append(q, None), e)
      BY <1>1, <2>1, <2>4, <3>2, ShutdownKeepsLatest DEF LatestIn
    <3>4. LatestIn(s)' <=>
            \A e \in Own(s)' : (\A f \in Own(s)' : f <= e) => Contains(Flow(s)', e)
      BY DEF LatestIn, Contains
    <3> QED
      BY <2>2, <3>1, <3>3, <3>4
  <2> QED
    BY <2>1, <2>3, <2>4
<1>8. ASSUME NEW r \in Streams, StreamStep(r)
      PROVE  /\ (TopicOf[s] # Live => LatestIn(s)')
             /\ (~closing /\ TopicOf[s] = Live)' => AllIn(s)'
  <2>1. published' = published /\ closing' = closing /\ Flow(s)' = Flow(s)
    BY <1>1, <1>8, StreamFlow
  <2>2. CASE s = r /\ Subscribe(r)
    <3>1. joined'[s] = Len(published)
      BY <1>1, <2>2 DEF Subscribe, TypeOK
    <3>2. Own(s)' = {}
      BY <1>1, <2>1, <3>1 DEF Own, Events
    <3> QED
      BY <3>2 DEF LatestIn, AllIn
  <2>3. CASE ~(s = r /\ Subscribe(r))
    <3>1. joined'[s] = joined[s] /\ s \in subscribers
      BY <1>1, <1>8, <2>3 DEF StreamStep, Connect, Subscribe, Send, GetEvent, GetNone, Ping,
         Disconnect, Close, history, TypeOK
    <3> QED
      BY <1>3, <2>1, <3>1 DEF Own, Events
  <2> QED
    BY <2>2, <2>3
<1> QED
  BY <1>4, <1>5, <1>6, <1>7, <1>8 DEF Next

LEMMA FlowInvariant == Spec => [](TypeOK /\ FlowInv /\ KeptInv)
<1>1. ASSUME Init PROVE FlowInv /\ KeptInv
  <2>1. subscribers = {} /\ ~closing
    BY <1>1 DEF Init
  <2>2. ASSUME NEW s \in Streams
        PROVE  /\ Flow(s) = <<>> /\ queue[s] = <<>> /\ joined[s] = 0
               /\ pc[s] = "new" /\ Len(published) = 0 /\ DOMAIN <<>> = {}
    <3>1. received[s] = <<>> /\ hand[s] = <<>> /\ queue[s] = <<>> /\ joined[s] = 0
          /\ pc[s] = "new" /\ published = <<>>
      BY <1>1, <2>2 DEF Init
    <3>2. <<>> \in Seq(Nat) /\ <<>> \o <<>> = <<>>
      BY ConcatEmptySeq, EmptySeq
    <3> QED
      BY <3>1, <3>2 DEF Flow
  <2>3. FlowInv
    BY <2>1, <2>2 DEF FlowInv, Ordered, Contains
  <2> QED
    BY <2>1, <2>3 DEF KeptInv
<1> QED
  BY <1>1, FlowInductive, KeptInductive, TypeCorrect, PTL DEF Spec

\* A client sees the events of its own session only, those published after it
\* joined, each once and in the order of publication, whatever its queue dropped.
THEOREM OrderedForAll == Spec => []OwnEventsInOrder
<1>1. TypeOK /\ FlowInv => OwnEventsInOrder
  BY DEF FlowInv, Ordered, OwnEventsInOrder, Events
<1> QED
  BY <1>1, FlowInvariant, PTL

\* TopicRealtimeBroker.publish: what a full queue drops, for an event or for the
\* sentinel, is never the newest event of the session.
THEOREM LatestStays == Spec => []LatestKept
<1>1. TypeOK /\ KeptInv => LatestKept
  BY DEF TypeOK, KeptInv, LatestIn, Own, Contains, LatestKept
<1> QED
  BY <1>1, FlowInvariant, PTL

\* RealtimeBroker.publish: before shutdown a dashboard that is still subscribed
\* has every event since it joined, or will be given it.
THEOREM NoHoleEver == Spec => []NoHole
<1>1. TypeOK /\ KeptInv => NoHole
  BY DEF TypeOK, KeptInv, AllIn, Own, Contains, NoHole
<1> QED
  BY <1>1, FlowInvariant, PTL
=============================================================================
