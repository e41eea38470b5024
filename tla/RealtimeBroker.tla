--------------------------- MODULE RealtimeBroker ---------------------------
(***************************************************************************)
(* The two server-sent-event brokers of backend/app/realtime.py: the live  *)
(* one (RealtimeBroker), whose subscribers all get every event, and the    *)
(* tracking one (TopicRealtimeBroker), whose subscribers get the events of *)
(* one tracking session.  They differ in what they do with a subscriber    *)
(* whose queue is full: the live broker forgets it, the tracking broker    *)
(* drops its oldest event.                                                 *)
(*                                                                         *)
(* Everything runs on one asyncio loop, so what is between two awaits is   *)
(* one step, except for the signal handler of run.py, which calls both     *)
(* request_shutdown and which uvicorn installs with signal.signal: it may  *)
(* run between any two bytecodes.  publish and stream are therefore cut    *)
(* after their test of _closing, and RequestShutdown alone may come there. *)
(*                                                                         *)
(* An event is its number in the order of publication; a stream is one     *)
(* HTTP connection.  The client of a stream may be slow: the stream waits  *)
(* at its yield until the connection takes what it was given.              *)
(***************************************************************************)
EXTENDS Naturals, Sequences, FiniteSets

CONSTANTS
  Streams,        \* the connections to /api/live/events and .../{id}/events
  Topics,         \* the tracking sessions
  Live,           \* stands for the live broker, which has no topics
  TopicOf,        \* what each stream follows: a topic or Live
  LiveCapacity,   \* realtime.py:46
  TopicCapacity,  \* realtime.py:97
  MaxPublished    \* bound on the events published

ASSUME CapacityAssumption ==
  LiveCapacity \in Nat \ {0, 1} /\ TopicCapacity \in Nat \ {0, 1}
ASSUME TopicAssumption ==
  Live \notin Topics /\ TopicOf \in [Streams -> Topics \cup {Live}]

VARIABLES
  closing,      \* _closing, which both brokers get in the same call
  subscribers,  \* the streams whose queue is in _subscribers
  queue,        \* the queue of each stream
  pc,           \* where each stream is
  hand,         \* the event a stream has yielded and not yet passed on, if any
  publishing,   \* the topic of the publish call past its test of _closing, if any
  published,    \* history: the topic of each event, in order
  joined,       \* history: how many events were published before the stream's queue
  missed,       \* history: streams that tested _closing before and joined after
  received      \* history: the events each client got

vars == <<closing, subscribers, queue, pc, hand, publishing, published, joined,
          missed, received>>
history == <<published, joined, missed, received>>

Channels == Topics \cup {Live}
None == 0                       \* the sentinel of request_shutdown
Events == 1..Len(published)

\* No callback of the loop is interrupted by the signal handler.
LoopFree == publishing = {} /\ \A s \in Streams : pc[s] # "entering"

Init ==
  /\ closing = FALSE
  /\ subscribers = {}
  /\ queue = [s \in Streams |-> <<>>]
  /\ pc = [s \in Streams |-> "new"]
  /\ hand = [s \in Streams |-> <<>>]
  /\ publishing = {}
  /\ published = <<>>
  /\ joined = [s \in Streams |-> 0]
  /\ missed = {}
  /\ received = [s \in Streams |-> <<>>]

-----------------------------------------------------------------------------
(* Publication.                                                            *)

Capacity(s) == IF TopicOf[s] = Live THEN LiveCapacity ELSE TopicCapacity
\* Fault: one item too many before the queue counts as full.
FullLate(s) == Len(queue[s]) > Capacity(s)

Full(s) == Len(queue[s]) >= Capacity(s)

\* Fault: a full queue keeps what it has and the new item is lost.
ForcedKeepingOldest(s, item) == IF Full(s) THEN queue[s] ELSE Append(queue[s], item)

\* Puts an item in a queue that drops its oldest one when it is full.
Forced(s, item) == Append(IF Full(s) THEN Tail(queue[s]) ELSE queue[s], item)

\* Fault: the topic is ignored.
RecipientsOfAll(channel) == subscribers

Recipients(channel) == {s \in subscribers : TopicOf[s] = channel}

\* Fault: events are published after shutdown was requested.
AcceptingAlways == TRUE

Accepting == ~closing

\* A background task of a request, or refresh_runtime_states, calls publish.
BeginPublish(channel) ==
  /\ LoopFree
  /\ Accepting
  /\ Len(published) < MaxPublished
  /\ publishing' = {channel}
  /\ UNCHANGED <<closing, subscribers, queue, pc, hand, history>>

\* Fault: the live broker drops the oldest event of a slow subscriber too.
LivePutDropping(event) ==
  /\ queue' = [s \in Streams |-> IF s \in Recipients(Live)
                                 THEN Forced(s, event) ELSE queue[s]]
  /\ UNCHANGED subscribers

\* What each queue holds, and who remains subscribed, once the next event is out.
LivePut(event) ==
  LET slow == {s \in Recipients(Live) : Full(s)}
  IN  /\ queue' = [s \in Streams |-> IF s \in Recipients(Live) \ slow
                                     THEN Append(queue[s], event) ELSE queue[s]]
      /\ subscribers' = subscribers \ slow

TopicPut(topic, event) ==
  /\ queue' = [s \in Streams |-> IF s \in Recipients(topic)
                                 THEN Forced(s, event) ELSE queue[s]]
  /\ UNCHANGED subscribers

EndPublish ==
  \E channel \in publishing :
    /\ IF channel = Live THEN LivePut(Len(published) + 1)
                         ELSE TopicPut(channel, Len(published) + 1)
    /\ published' = Append(published, channel)
    /\ publishing' = {}
    /\ UNCHANGED <<closing, pc, hand, joined, missed, received>>

\* Fault: no sentinel for a queue that has no room.
ShutdownSkippingFull ==
  /\ ~closing
  /\ closing' = TRUE
  /\ queue' = [s \in Streams |-> IF s \in subscribers /\ ~Full(s)
                                 THEN Append(queue[s], None) ELSE queue[s]]
  /\ UNCHANGED <<subscribers, pc, hand, publishing, history>>

\* The first Ctrl+C or SIGTERM; the lifespan's second call finds no connection.
RequestShutdown ==
  /\ ~closing
  /\ closing' = TRUE
  /\ queue' = [s \in Streams |-> IF s \in subscribers THEN Forced(s, None) ELSE queue[s]]
  /\ UNCHANGED <<subscribers, pc, hand, publishing, history>>

-----------------------------------------------------------------------------
(* One stream.                                                             *)

Connect(s) ==
  /\ LoopFree
  /\ pc[s] = "new"
  /\ pc' = [pc EXCEPT ![s] = IF closing THEN "ended" ELSE "entering"]
  /\ UNCHANGED <<closing, subscribers, queue, hand, publishing, history>>

\* The queue is added, and the stream yields "connected".
Subscribe(s) ==
  /\ pc[s] = "entering"
  /\ subscribers' = subscribers \cup {s}
  /\ pc' = [pc EXCEPT ![s] = "yielding"]
  /\ joined' = [joined EXCEPT ![s] = Len(published)]
  /\ missed' = IF closing THEN missed \cup {s} ELSE missed
  /\ UNCHANGED <<closing, queue, hand, publishing, published, received>>

\* The connection takes what the stream yielded; the stream asks for more.
Send(s) ==
  /\ LoopFree
  /\ pc[s] = "yielding"
  /\ pc' = [pc EXCEPT ![s] = "waiting"]
  /\ received' = [received EXCEPT ![s] = @ \o hand[s]]
  /\ hand' = [hand EXCEPT ![s] = <<>>]
  /\ UNCHANGED <<closing, subscribers, queue, publishing, published, joined, missed>>

GetEvent(s) ==
  /\ LoopFree
  /\ pc[s] = "waiting"
  /\ queue[s] # <<>>
  /\ Head(queue[s]) # None
  /\ pc' = [pc EXCEPT ![s] = "yielding"]
  /\ hand' = [hand EXCEPT ![s] = <<Head(queue[s])>>]
  /\ queue' = [queue EXCEPT ![s] = Tail(@)]
  /\ UNCHANGED <<closing, subscribers, publishing, history>>

\* The sentinel: the stream returns through its finally clause.
GetNone(s) ==
  /\ LoopFree
  /\ pc[s] = "waiting"
  /\ queue[s] # <<>>
  /\ Head(queue[s]) = None
  /\ pc' = [pc EXCEPT ![s] = "ended"]
  /\ queue' = [queue EXCEPT ![s] = Tail(@)]
  /\ subscribers' = subscribers \ {s}
  /\ UNCHANGED <<closing, hand, publishing, history>>

\* Nothing for 20 s.
Ping(s) ==
  /\ LoopFree
  /\ pc[s] = "waiting"
  /\ queue[s] = <<>>
  /\ pc' = [pc EXCEPT ![s] = "yielding"]
  /\ UNCHANGED <<closing, subscribers, queue, hand, publishing, history>>

\* The client goes away.  The response task is cancelled, and the generator is
\* closed later: at the yield only when the loop finalises it.
Disconnect(s) ==
  /\ LoopFree
  /\ pc[s] \in {"yielding", "waiting"}
  /\ pc' = [pc EXCEPT ![s] = "cancelled"]
  /\ UNCHANGED <<closing, subscribers, queue, hand, publishing, history>>

Close(s) ==
  /\ LoopFree
  /\ pc[s] = "cancelled"
  /\ pc' = [pc EXCEPT ![s] = "ended"]
  /\ subscribers' = subscribers \ {s}
  /\ UNCHANGED <<closing, queue, hand, publishing, history>>

-----------------------------------------------------------------------------
StreamStep(s) ==
  Connect(s) \/ Subscribe(s) \/ Send(s) \/ GetEvent(s) \/ GetNone(s) \/ Ping(s)
    \/ Disconnect(s) \/ Close(s)

Next ==
  \/ \E channel \in Channels : BeginPublish(channel)
  \/ EndPublish
  \/ RequestShutdown
  \/ \E s \in Streams : StreamStep(s)

Spec == Init /\ [][Next]_vars

\* The loop runs what is ready and its timers; a client that neither takes what it is sent nor
\* goes away would hold its stream for ever, so a client does one of them.
Fairness ==
  /\ WF_vars(EndPublish)
  /\ \A s \in Streams :
       /\ WF_vars(Subscribe(s))
       /\ WF_vars(Send(s))
       /\ WF_vars(GetEvent(s) \/ GetNone(s))
       /\ WF_vars(Ping(s))
       /\ WF_vars(Close(s))

FairSpec == Spec /\ Fairness

-----------------------------------------------------------------------------
(* Properties.                                                             *)

StreamPc == {"new", "entering", "yielding", "waiting", "cancelled", "ended"}

\* Type invariant: queues stay within the capacity asyncio.Queue enforces.
TypeOK ==
  /\ closing \in BOOLEAN
  /\ subscribers \subseteq Streams
  /\ queue \in [Streams -> Seq(Nat)]
  /\ \A s \in Streams : Len(queue[s]) <= Capacity(s)
  /\ pc \in [Streams -> StreamPc]
  /\ hand \in [Streams -> Seq(Nat)]
  /\ publishing \subseteq Channels /\ Cardinality(publishing) <= 1
  /\ published \in Seq(Channels)
  /\ joined \in [Streams -> Nat]
  /\ missed \subseteq Streams
  /\ received \in [Streams -> Seq(Nat)]

\* Everything a stream was given and has not lost, oldest first, with the
\* sentinel among it.
Flow(s) == received[s] \o hand[s] \o queue[s]

\* Isolation and order: a client sees the events of its own session only, those
\* published after it joined, each once and in the order of publication, however
\* slow it is (realtime.py:63, "isolated by tracking-session ID").
OwnEventsInOrder ==
  \A s \in Streams : \A i \in DOMAIN Flow(s) :
    Flow(s)[i] # None =>
      /\ Flow(s)[i] \in Events /\ Flow(s)[i] > joined[s]
      /\ published[Flow(s)[i]] = TopicOf[s]
      /\ \A j \in DOMAIN Flow(s) : j < i => Flow(s)[j] < Flow(s)[i]

\* The tracking broker sheds old samples and never the newest one: a stream that
\* is still read ends up with the latest event of its session
\* (tests/test_realtime.py, "keeps_latest_sample").
LatestKept ==
  \A s \in subscribers : TopicOf[s] # Live =>
    LET own == {e \in Events : e > joined[s] /\ published[e] = TopicOf[s]}
    IN  \A e \in own : (\A f \in own : f <= e) =>
          \E i \in DOMAIN Flow(s) : Flow(s)[i] = e

\* The live broker never leaves a hole in what a subscriber sees: before
\* shutdown, a stream that is still subscribed has, or will be given, every live
\* event since it joined; one that could not keep up is no longer subscribed.
NoHole ==
  ~closing =>
    \A s \in subscribers : TopicOf[s] = Live =>
      \A e \in Events : e > joined[s] /\ published[e] = Live =>
        \E i \in DOMAIN Flow(s) : Flow(s)[i] = e

\* Once shutdown is requested, the sentinel stays in the queue of every stream
\* that was subscribed until the stream reads it, whatever the tracking broker
\* drops to make room.
SentinelKept ==
  closing => \A s \in subscribers \ missed : \E i \in DOMAIN queue[s] : queue[s][i] = None

Connected(s) == pc[s] \in {"yielding", "waiting"}

\* Shutdown: the streams of tracking sessions end, so that uvicorn, which waits
\* for open connections, can stop (run.py:177).  Not the ones that the signal
\* caught between the test of _closing and the addition of the queue.
TopicStreamsEnd ==
  \A s \in Streams : TopicOf[s] # Live =>
    ((closing /\ Connected(s) /\ s \notin missed) ~> (pc[s] = "ended"))

\* The same of the dashboard's streams, as README.md:121 promises.  The code does
\* not keep it: the live broker forgets a subscriber whose queue was full once,
\* and request_shutdown no longer finds it.
LiveStreamsEnd ==
  \A s \in Streams : TopicOf[s] = Live =>
    ((closing /\ Connected(s) /\ s \notin missed) ~> (pc[s] = "ended"))
=============================================================================
