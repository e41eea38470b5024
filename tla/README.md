# MultiBLEscanner in TLA+

An ESP32 scans for BLE advertisements, a bridge process on the host carries its
requests over a USB serial line, and a FastAPI backend stores the observations
and derives devices, presence and tracking from them. These modules model the
parts of that system whose correctness depends on ordering, failure and
concurrency; TLC checks them on small instances and TLAPS proves the main
results for all instances. `PROJECT.json` lists the components, the runs, the
mutants, the source lines of every definition, the hazards and the theorems.

Run a model with `tlc -config X.cfg M`, check proofs with `tlapm M.tla`.

## 1. The system

| Component | State it keeps | Operations | Talks to |
|---|---|---|---|
| Observation queue and upload (`firmware/src/main.cpp`) | ring of 96 observations, in-flight buffer of at most 12, identifier and size of the batch under retry | `pushObservation` (radio callback), `uploadBatch` (transport task) | bridge, by request frames |
| Transport task (same file) | times of the last completions, count of consecutive focus uploads | `transportTask`, `httpRequest[Json]`, `waitForBridgeResponse`, `pollSerialControl` | all queues of the firmware |
| Focus tracking, firmware | ring of 64 samples, configuration and its generation, batch under retry | `captureTrackingSample`, `applyConfig`, `uploadTrackingBatch` | backend configuration |
| GATT worker and scan supervision | candidate queue and cooldown cache, worker context, one result slot | `enrichNextTarget`, `gattWorkerTask`, `processGattWorker`, `abandonGattWorker`, `superviseContinuousScan` | radio, upload |
| Serial bridge (`serial_bridge.py`) | line buffer, frame being assembled | `run_bridge`, `forward_frame`, `send_bridge_response` | firmware by lines, backend by HTTP |
| Ingestion (`backend/app/services.py`) | `observations`, `processing_errors` | `process_batch`, `process_observation` | database |
| Identities, devices, presence, correlation | `observed_identities`, `logical_devices`, correlations, events | find-or-create, merge, split, `refresh_presence_states`, `run_identity_correlation` | ingestion, operator, timer |
| Focus sessions (`backend/app/tracking.py`) | sessions, assignments, leases, samples | start, renew, stop, ingest, `refresh_tracking_states` | scanner configuration |
| SSE brokers (`backend/app/realtime.py`) | bounded queue per subscriber | publish, stream, shutdown | every endpoint, `run.py` |
| Scripts, dashboard, retention, settings | files, browser state | | |

Tasks of the firmware (radio callback, transport task, `loop()`, GATT worker)
run concurrently and share buffers under mutexes, and some variables under
none. The bridge is one thread. The backend runs each request in a thread of a
pool, with a database session of its own; SQLite sees a transaction only from
the first statement that writes to the commit. A firmware request is stop-and-wait:
write a frame, wait up to 12 s for an `@@BT_SCANNER_ACK@@<status>` line.

What makes each part correct:

- delivery: an accepted observation is kept until the backend has settled it,
  reaches the database at most once and in order, and the queue never blocks;
- transport: heartbeats and configuration fetches keep their deadlines whatever
  else is queued, and no queue is starved;
- focus: samples belong to the session and target they are labelled with, a
  scanner has one session, leases end, and a session that is over stays over;
- GATT: one operation at a time, no result lost, scanning always resumes;
- brokers: a slow subscriber harms nobody and every stream ends at shutdown;
- devices: an old observation never moves a device back, no observation is left
  on a device that is hidden, each identity has one device, and two identities
  that were accepted to be one are on one device;
- assignment: no successor is linked twice, and no other choice is cheaper.

## 2. Modules

| Module | Models |
|---|---|
| `BoundedDelivery` | the abstract promise of the delivery path: a bounded store that delivers oldest first, each observation at most once |
| `ObservationDelivery` | firmware queue and `uploadBatch`, the serial line, the bridge, `process_batch` in concurrent threads |
| `TransportScheduler` | `transportTask` in ticks of time, with what the radio callback, the GATT worker and `loop()` change meanwhile |
| `RealtimeBroker` | both SSE brokers, their streams, and the shutdown signal |
| `TrackingFocus` | focused tracking of one scanner: sessions and sample rows of the backend, configuration, sample ring and `uploadTrackingBatch` of the firmware |
| `UnitOfWork` | what a commit of the backend writes over what others have committed since its reads |
| `TrackingSessions` | the tracking sessions of one scanner in the backend: request threads and the maintenance loop |
| `DeviceRecords` | observed identities and logical devices: batches, presence sweep, correlation, operator, retention |
| `Assignment` | `minimum_cost_assignment` and `assign_akiyama_pairs` |
| `Sums` | the sum of the first n terms, for what a choice of pairs costs |
| `MC*` | instances for TLC |
| `ObservationDeliveryProofs`, `TransportSchedulerProofs`, `TrackingFocusProofs`, `RealtimeBrokerProofs`, `AssignmentProofs`, `TrackingSessionsProofs`, `DeviceRecordsProofs` | theorems |
| `SumsProofs` | lemmas about sums, by induction |

### ObservationDelivery

An observation is its absolute position in the ring, so the two buffers of the
code become three cursors: `admitted` (ring head), `taken` (ring tail) and
`released` (front of the in-flight buffer). The in-flight buffer is
`released+1 .. taken`, the ring `taken+1 .. admitted`, a batch an interval.
Batch identifiers are numbers that grow. `makeId` puts a boot identifier, the
time and a counter together, and draws the boot identifier at random: that it
differs from boot to boot is assumed, so a repetition across boots is not
looked for. Each action is one uninterrupted step of one thread: the radio
callback's push, `uploadBatch` up to the write of the frame, one line read by
`pollSerialControl`, the return of `waitForBridgeResponse` with what
`uploadBatch` does then, the timeout, one iteration of the bridge, the duplicate
query of a backend thread, its commit. Requests of other kinds take the line
too (`SendOther`); their content is not followed.

Abstractions, and what they rest on:

- `Fits(first, last)` says whether a batch fits in the static JSON document. It
  is a function of the positions: the envelope (times, counters) has its own
  reserve of 2048 bytes, so whether a batch fits does not change between a send
  and its retry.
- A damaged frame or ACK line is a lost one. A frame that the bridge answers
  with 400 without forwarding it is `BridgeAnswer`.
- `StaleAcks = FALSE` excludes answers that arrive after their request is over.
  The code does not exclude them; see the finding below.
- An observation of a batch may be refused on its own (a synthetic address, an
  exception that is recorded in `processing_errors`); then it is settled.

### TransportScheduler

`sinceX` counts the ticks since the completion of the last request of that kind
(the code's `last*At`), `serving` is the request on the line and `elapsed` how
long it has been there, at most `MaxRequest`, the response timeout. The five
`Begin` actions are the branches of the else-if chain, in its order. `Tick` is
only possible when a request is on the line or nothing is due: the task sleeps
10 ms per iteration, which is no time in ticks. `backlog` is 0, 1 (at most a
frame) or 2 (more), which is all the code asks of it. `passedOver` is history:
the requests begun while an observation upload was due. Ages start with the
response timeout, which in the code starts when the frame has been written:
what the write itself takes comes on top of each bound.

`ObservationTurn` has an exception, which is a weakness of the code. Two focus
uploads may go in a row before the observations, and a configuration fetch
starts that count again. When a focus upload holds the line for as long as the
hard deadline of the configuration under a focus (4 s; the timeout is 12 s), the
fetch comes first, then a focus upload, and so on: observation and GATT uploads
wait while the focus lasts and the backend is that slow, against the "bounded
tracking bursts" of CHANGELOG.md:1099 and the draining "until the backlog is
bounded" of README.md:103. The count of requests passed over starts again with
each focus upload that `Outlasts` that deadline. Without the exception
(`Outlasts == FALSE`) TLC finds this behaviour in the instance.

### RealtimeBroker

Each `stream` coroutine has a program counter with its awaits as values:
`yielding` (the connection has not taken what was yielded), `waiting`
(`queue.get()`), `cancelled` (the client is gone, the `finally` clause has not
run: a generator suspended at a `yield` is closed when the loop finalises it).
Code between awaits is one step. The exception is the signal handler, which may
run anywhere: `publish` and `stream` are cut after their test of `_closing`, and
`LoopFree` lets nothing but `RequestShutdown` in between. An interruption inside
the loop over the queues is not modelled. Mostly it differs only in which of the
in-progress event's copies come before the sentinel; but a signal between making
room in a queue, or seeing it there, and `put_nowait` (realtime.py:90-92) fills
the last place with the sentinel, `put_nowait` raises `QueueFull`, and the
subscribers after that queue do not get the event. It can only happen at
shutdown, and each queue still gets its sentinel. `missed` records the
streams the signal caught between test and registration; nothing ends those, so
the shutdown properties except them.

### TrackingFocus

A session is active or ended, with the list of addresses that
`_tracking_targets` last found; the configuration carries the focus of the active
one. `generation` and `sequence` are the firmware's counters, a sample in the
ring has a sequence number and the index of its target, as in the code, and a
row or a sample on the line has the identifier (session, sequence) and the
address that `uploadTrackingBatch` gives it. An upload is cut where the code lets
other tasks in: transportTask's test (`TrackingDue`), the snapshot of the
configuration (`BeginUpload`), taking samples and sending them (`Send...`), the
answer. `captures` is history: what each measurement was taken for. `raced` is
history too: the samples that were captured after `applyConfig` and taken by an
upload with the earlier snapshot. Such samples are sent under the old session
and target; the window is the time between two locks of one function, so
`StoredAsCaptured` excepts them and the hazard list names it.

Bluetooth addresses stand for targets: `new` before `old` when a private address
has rotated. An answer that is an error, a frame the bridge rejects and a
transaction that fails all keep the batch. Left out: the limit of one sample per
200 ms, the count of dropped samples, the smoothing of the signal, and the branch
of `uploadTrackingBatch` for a batch that overflows its document. Lease and
states of an active session are in `TrackingSessions`, and so is a session that
a late batch revives: here one that ended stays ended. The rows are a set, so
`NoSampleTwice` says that no measurement is stored under two labels; that an
identical copy makes no second row is the unique constraint on scanner and
sample identifier (models.py:287).

### UnitOfWork

SQLAlchemy with `autoflush` off reads rows into objects and writes, at the
commit, the columns that were changed and the rows that were added. pysqlite
opens no transaction for a `SELECT`, so nothing that was read is locked.
`WrittenRow` is the `UPDATE` of the changed columns over the row as it is by
then, `WrittenTable` a table of such rows. `TrackingSessions` and
`DeviceRecords` are built on them, so that the requests they cut into a read and
a write lose updates as those of the code do.

### TrackingSessions

The rows of one scanner: sessions (with their one assignment), samples,
positions, stop events, and the scanner's status. A handler of `tracking.py` is
an operator that says what the database would be if its reads were still true
(`Start`, `Ingest`, `Finish`, ...). `Begin` keeps what a thread read and what it
made of it, `Commit` writes the difference, and a unique constraint that fails
rolls all of it back. A heartbeat and a batch of observations are two
transactions: the first finds the scanner online (`ReportIn`), the second goes
on from there (`TrackingHeartbeat`, `RefreshTargets`). The maintenance loop goes
from `SweepScanners` to `SweepSessions` and back, as `refresh_runtime_state_once`
does, and a round that fails is over (`Fail`).

`overlapped` is history: the sessions brought into force by a commit whose
sessions another commit had changed since it read them. `raced` is history too: the sessions that a commit
wrote over while they differed from what it had read. `OneAtATime` and
`SerialSessionsRight` except them, because the code does not prevent them:

- two starts that overlap give one scanner two sessions, against the
  "one-session-per-scanner enforcement" of CHANGELOG.md:857: the check and the
  insertion are two steps, and nothing in the schema repeats the check;
- a batch of samples that was read before a stop writes "live" over it
  (CHANGELOG.md:944 has such a batch "acknowledged without storing" it, which
  holds only of one that is read after the stop). The session is in
  force until its lease is over; then it ends a second time. As a rule
  `create_event` finds the stop event of the first end there and adds none; if
  that end commits only after the look, the events collide, the round of the
  maintenance loop is rolled back, and the next round ends the session.

Left out: a heartbeat that reads the scanner as online and so writes no status
(services.py:368-369) while the maintenance loop commits "offline", `ReportIn`
being one step; the configuration version, merges of the tracked device, retention of
sessions and samples, and how stale a sample must be: `tracking_stale_seconds`
is the constant `StaleAfter`.

### DeviceRecords

Identities are numbered by address, devices are records of status, place and
time, a row is an observation with the device it belongs to and the snapshot of
the device's place. A batch is two steps: what `process_observation` reads
(`OpenBatch`) and its writes up to the commit, correlation included
(`CommitBatch`). For a new identity the first write is its `INSERT`, which
precedes the query for the device, so that query is part of the second step.

A batch has one observation, or two of one address. What the loop of
`process_batch` adds is flushed after it (services.py:2030, and `autoflush` is
off), so the second observation does not find the row of the first. If the
identity has rows or the address is public it gets the device of the first all
the same; a random address without rows gets a second device (`Twins`). A third
observation would find the row of the first, which the making of the second
device has flushed; it goes the way of a second one. The two are looked up at one
moment: for an identity without rows the device of the first is not yet
committed, and for one with rows it is the same query. Observations of other
addresses are other batches. The presence sweep is two steps likewise; every other request is one.

The three methods of correlation differ in what they ask of a pair
(`AppleMatches`, `TokenMatches`, `RssiMatches`) and in what they do with it: a
token merges the devices at once, the others leave a proposal that the operator
accepts or rejects much later. Which pairs score well enough is any.

`accidents` is history: what met one of the races and sequences that the code
does not guard against. Each property excepts the ones that can break it, and
the runs show that nothing else does:

- two batches that overlap make two identities of one new address, and every
  later observation of that address ends in an error
  (`scalar_one_or_none`, services.py:547), the second of such a batch too;
- the first batch of a random address has two observations of it: no overlap is
  needed for its rows to be on two devices (`twinned`, services.py:598 and 1106).
  Later observations go to the device of the latest row, a merge by token moves
  only that one, and the comment at services.py:1257, "every observation for one
  MAC identity is reassigned together", is not true of such an identity;
- a merge with a tombstone as source (device_records.py:77 looks at the target
  only) gives the canonical device the status "merged" or "split_empty", so the
  dashboard hides a device with observations. The operator can do so, and so can
  a proposal that is accepted after its successor was merged elsewhere;
- a public address whose rows retention has deleted is attached to the device
  that had it, a tombstone included;
- a late observation keeps the device's place as its snapshot, so a split that
  makes it the latest row gives the new device the place of another scanner
  (CHANGELOG.md:1266 describes the snapshot as the row's own);
- a batch or a sweep writes back columns of a device that was merged, split or
  seen again meanwhile;
- when the merge of a token match raises, the batch commits the correlation as
  accepted and the devices stay apart;
- an identity whose rows retention has removed, before a batch or while it has
  the device in hand, comes back on a device that a merge may have emptied
  meanwhile, apart from the one it was accepted to belong to.

Left out: batches of more addresses and more than one match to a run,
an observation with a time in the future, batches that fail altogether,
deletions of enrichments (summary retention outlives the horizon), names,
categories, zones, the signal model and the events, which nothing reads back.

### Assignment

A step is one turn of one of the two inner loops of the algorithm, with the
code's variables and its column 0. Costs are integers, where the code has
floating point numbers: ties and rounding of close sums are the code's own.
`min_value` is infinite before the first scan of a row, and finite for every
free column after it, so `used = {}` stands for infinity. `u[0]` and `v[0]` are
written and never read.

## 3. Runs

| Run | Question | Bounds |
|---|---|---|
| `delivery` | safety of the path and refinement of `BoundedDelivery` | ring 2, in-flight 2, 3 admitted, 1 drop, 1 reset, 2 threads, 1 frame on the line; observation 2 fits in no frame |
| `delivery_liveness` | no observation is stuck | the same without reset |
| `delivery_stale_ack` | what a late answer does (violated) | 2 admitted, 2 frames on the line |
| `scheduler` | deadlines and turns | ticks of 2 s: heartbeat 15, configuration 2, focus configuration 1, requests up to 6 |
| `realtime` | isolation, order, what slow clients miss, shutdown | a dashboard stream and a tracking stream, queues of 2, 3 events |
| `realtime_forgotten` | do dashboard streams end at shutdown (violated) | the same |
| `focus` | is a batch retried as it was, is a measurement stored once and as captured | 3 samples, ring 2, frames of 2, 2 sessions, 1 refresh of targets, 1 lingering frame, no reset |
| `focus_liveness` | do samples leave, does the end of a session reach the scanner | 1 sample, ring and frame 1, 2 sessions, 1 reset |
| `focus_sample_ids` | does an identifier name one measurement (violated) | as `focus`, with 1 reset |
| `tracking_sessions` | do sessions start, live and end as they should when requests overlap | 2 request threads and the loop, 2 devices, 2 sessions, 3 requests, faults or new identities, lease 2, horizon 3 |
| `device_records` | do devices keep their observations, presence and place | 5 observations of 3 addresses by 2 scanners, one or two to a batch, 2 request threads, 3 devices, 4 batches, sweeps or requests, horizon 2 |
| `assignment` | is the assignment the cheapest, and does it end | every 3 x 2 matrix of 4 costs and "no pair" |

The bounds of `delivery` let the ring fill up while a batch is in flight, a
batch be halved and an observation dropped alone, a batch time out at the bridge
while its thread still runs and be retried into the second thread, and a reset
at every point. Two threads are enough for a race of a batch with its own
retry; the proofs hold for any number. `scheduler` has the intervals of `config.example.h` in
ticks of two seconds: 30 s, 2 s and 12 s as they are, 5 s as 4 s, and the focus
upload interval and the retry delay as one tick. A request may outlast both hard
deadlines, as in the code. The deadlines are proved for all intervals.

Fairness (`delivery_liveness`): the endless loops of the transport task, the
bridge and the request threads give weak fairness to what only they do. Strong
fairness says that a due upload gets its turn (`scheduler` and its
`ObservationTurn` are about that), and that an ACK, a forward and a transaction
do not fail every time. `PortStaysOpen` is the property's own assumption:
nothing is delivered to an unplugged scanner.

`ObservationTurn` holds in the instance with requests of any length up to the
timeout, but for the exception described above: while focus uploads take 4 s or
more the fairness of `delivery_liveness` is more than the code gives. The proof
assumes of the constants only that a heartbeat can not fall due twice while an
upload waits (`HeartbeatsApart`: a request and two early deadlines, 12 s + 8 s,
are shorter than the 30 s of the heartbeat). `ConfigDeadline` is stated with the
longer interval of the two, the one without a focus; under a focus the code's
deadline is earlier. `HeartbeatDeadline` gives 30 s + 2 x 12 s = 54 s,
and the time of two writes to the serial line, below the backend's
`heartbeat_timeout_seconds` of 90 s.

`realtime`: three events fill a queue of two, overflow it, and make the sentinel
compete for room. The loop runs what is ready, so the steps of streams and of
`publish` are weakly fair. `Send` is fair on behalf of the client: one that
neither reads nor goes away holds its stream, and the server, whatever the
broker does.

`focus`: three samples overflow a ring of two and leave one behind for a second
batch; two sessions and a refresh give four configurations (with none between),
which is what it takes for a batch of the first to meet the second while a copy
of it is still with the backend. A reset empties the firmware and adds only
identifiers that repeat, which `focus_sample_ids` is about; `focus_liveness` has
one.

Fairness (`focus_liveness`): `loop()` applies a configuration that has come, and
the transport task finishes an upload it began. Fetching the configuration and
uploading are strongly fair: the transport task does each again and again
(`TransportScheduler`), although another may be first at any moment. `IngestSent`
with its answer is strongly fair: not every frame is lost or refused.

`tracking_sessions`: three requests are a start, a stop and a batch that overlaps
them, or two starts and a heartbeat. The second tick beyond a lease lets the
maintenance loop meet the session after its end; the horizon bounds renewals, so
that every lease is over before time stops, which is what `AllEnd` is about.
Fairness: time passes and the maintenance loop goes round. Nothing is assumed of
requests, which may take as long as they like and never commit.

`device_records`: the observations are two of one random address by one scanner,
of which the first may travel late or both in one batch, one of another random
address, and two of one public address by two scanners, one of them delayed.
Four steps are enough for two overlapping
batches with a merge and an acceptance between, for a split after a late
observation, and for a row that retention deletes before its address is seen
again; ages of 1 and 2 are "missing" and "offline".

`assignment`: with three predecessors and two successors at least one stays
unmatched, a search has to move rows that have a column, and costs below, at and
above `unmatched_cost` give every kind of tie. That the links are the cheapest is
proved for all sizes.

### Findings

`focus_sample_ids`: the sample identifier is the session and `trackingSequence`,
which `applyConfig` and a reset set back to 0. After a refresh of the targets the
next measurements get identifiers that rows already have, and the backend drops
them as duplicates (README.md:103, "unique across scanner boots"; CHANGELOG.md:875,
"stable sample and batch identifiers").

`realtime_forgotten`: a dashboard stream whose queue was full once is no longer
in `_subscribers`. It drains what it has, then pings for ever; it misses every
later event and the sentinel of the shutdown, so one Ctrl+C does not stop the
server while that client is connected (README.md:121).

`delivery_stale_ack`: the ACK line carries no request identifier. A heartbeat
times out; the firmware sends a batch; the heartbeat's 2xx arrives and releases
the batch; the batch's frame is then lost or fails. CHANGELOG.md:566 says that
batches are kept "until the backend acknowledges success".

## 4. Proofs

`ObservationDeliveryProofs`, for every value of the constants:

- `TypeCorrect`, `CursorsCorrect`, `OneBatch` and `AtMostOnce` rest on one
  inductive invariant, `BatchInv`. `OneBatchPerObservation` is not inductive:
  one needs that every frame sent lies at or before the batch under retry and
  that the batch under retry is the one sent under its identifier (`SentInv`),
  that frames on the line, requests and threads only hold frames that were sent
  (`InFlightInv`), and that rows come from sent frames with one row per batch
  and position (`RowInv`). `AtMostOnce` combines the last with `OneBatch`: the
  constraint of the table is on batch and observation, so it only prevents
  duplicates because an observation never changes its batch.
- `Retained` assumes `~StaleAcks`. Its invariant `AnswerInv` says where the
  answer to the current request can be: at most one message of frame, thread,
  ACK and response exists, an "ok" on the way means the frame is settled, and a
  thread that the bridge waits for holds the current frame.
- `Implements` shows the refinement of `BoundedDelivery`, under the same
  assumption, from `DeliveryInv`. A transaction settles a frame as a whole, so a
  transmitted frame is settled or untouched, and nothing else is settled
  (`SettledInv`); what was given up lies behind the cursor (`GoneInv`). A commit of
  the batch under retry then delivers exactly the oldest that are held. One of an
  older batch delivers what was given up, because by `Retained` what lies behind
  the cursor and is not settled can only be that. A 2xx answer releases what is
  settled already, which the abstract queue does not see. The room for one more
  comes from the bounds of the ring and the in-flight buffer (`HeldFits`).
- `OldestFirst` says what this amounts to: every observation is held, settled or
  given up, and the held ones are younger than all the others (`HeldLast`).

`TransportSchedulerProofs`: `HeartbeatInTime` and `ConfigInTime` from
`DeadlineInv`, which says for each kind of request on the line how late each
deadline can be: a request that is no heartbeat began before the heartbeat was
due, so it adds at most its own length. `UploadInTurn` from `TurnInv`: for each
kind of request on the line and each state of the deadlines it bounds how many
requests can still come before the upload. Between two focus uploads something
else gets the line, and only a heartbeat, a fetch or the upload itself can, so
the count is spent on the fetches and heartbeats that may fall due meanwhile:
`Passed(n, later)` adds four requests when a heartbeat can fall due within
`later` ticks. A focus upload that does not outlast the deadline leaves the
configuration fetched just before it below its deadline; that is where the
exception is needed.

`RealtimeBrokerProofs`: `TypeCorrect`, and `SentinelStays` from `SentinelInv`.
`SentinelKept` is not inductive: a `publish` that passed its test before the
signal still drops the oldest item of a full queue. `SentinelInv` adds that while
such a call is in progress the sentinel is the newest item of its queue; a full
queue holds at least two, so it is not the one dropped.

`OrderedForAll`, `LatestStays` and `NoHoleEver` speak of what a stream has
received, has in hand and has queued as one sequence (`Flow`): a delivery moves
the boundary in it, a full queue loses its oldest item from the middle, and a
publication or the sentinel is appended. `FlowInv` says that the events of this
sequence are the stream's own, of after it joined and in order; `KeptInv` that a
subscribed stream of a tracking session has its latest event in it, and a
subscribed dashboard stream every event. The drop never takes the latest because
a full queue holds two items, and it takes none of a dashboard, whose broker
unsubscribes the stream instead.

`TrackingFocusProofs`, for any targets, sizes and bounds:

- `Retried` from `RetryInv`: a generation names one configuration, so a batch of
  the present generation has the labels of the present configuration or cannot be
  sent, and an upload of the present generation has it as its snapshot.
- `StoredRight` from `CaptureInv`: what is in the ring was captured under the
  present configuration (`applyConfig` empties the ring under the mutex that
  `captureTrackingSample` holds), so its labels are right when the snapshot is
  the present one, and the sample counts as raced when it is not.
- `StoredOnce` from `LabelInv`: among the rows and the frames that may still be
  processed a measurement has one label, and one that is in the ring has none.
  This needs `Retried`: a row is recognised by its identifier, so a batch that
  was relabelled would be stored again.

`StoredAsCaptured` and `NoSampleTwice` hold although identifiers repeat: a
repeated identifier makes the backend drop a measurement, never store one wrongly.

`AssignmentProofs`, for any numbers of predecessors and successors and any costs:
`PotentialsCertify` says that after every turn no cost is below the sum of its
potentials, and every matched pair is tight.
The inductive invariant adds `Distances` (the distance of a free column is its
least slack to the rows that were reached, attained at `way`), `Distinct` (a row
has one column, but for the one that gives its row away), `Used`, `RowsInOrder`,
and `Tree`: there is a rank by which every `way` leads back to a column reached
earlier at no distance. On the way back only the columns of lower rank have yet
to move, so what `Tree` says of them is still true. `Search` keeps it because the
rows and columns reached move by the least distance, `Augment` because it matches
along tight pairs.

`Cheapest` is what the potentials are for. `Placed` says that the rows which came
before keep a column on every turn of the way back, so that in the end each row
has exactly one (`EachRowPlaced`). A row then pays at most the potentials of
itself and its column (`LinkedCost`: a pair that is no candidate, or not below
`unmatched_cost`, is not linked, and staying unmatched costs no more). Any other
choice of pairs is a matching too, with the columns beyond the successors for the
rows it leaves, and its rows pay at least their potentials (`OtherCost`). Sums of
the two differ only in the columns, where the algorithm's matching takes every
one with a negative potential (`SumMoved` turns a sum over rows into one over
columns). `SumsProofs` has the lemmas about sums. The library's induction
theorems take an operator as a parameter, which the provers cannot instantiate,
so `Induction` is proved for a set of numbers, from the least element of its
complement (`NatLessThanWellFounded`), and each lemma names its set.

`NeverStuck` and `NoCircle` are the safety part of `Terminates`. There are more
columns than rows, and the columns that were used have distinct rows, so one is
free and one of those is nearest. A turn goes to the next row or the end, finds a
free column, uses one more of finitely many, or lowers the `Depth` of the current
column, which is the least rank that `Tree` allows it.

`TrackingSessionsProofs`, for any finite sets of requests and samples (one needs
to count the inserting threads and the samples of a session) and any bounds:

- `EverySessionAccounted` from `IInv`: a request means to write rows that keep
  to `Good` (what `Accounted` says), and the rows it read were those of an
  earlier database. `Commit` mixes the two column by column. `Good` survives the
  mixture because what it relies on is never taken back (`Kept`): ends, last
  samples, stop events and samples only come. That is also why a batch that
  writes "live" over a stop leaves a session that has its end and its event.
- `SerialRight` from `Truthful`: the sessions that are not raced are `Right`, in
  the database and in every copy a thread has read, and a handler that reads the
  truth of a session writes the truth of it (`Proper`).
- `OneSessionAtATime` from `AllApart`: a thread means to give a lease only where
  it saw no other session in force that is still so, and every commit that
  changes the sessions puts what it brings into force into `overlapped` when a
  thread's view is no longer the present. Leases only run out as time goes
  (`ForceShrinks`), so what was apart stays apart.

`DeviceRecordsProofs`, for any addresses, scanners and observations, finitely
many requests and any bounds: all seven invariants of `DeviceRecords` from one,
`IInv`, since they hold each other up.

- `Records` is about one database and the accidents so far: references resolve
  (`Consistent`), and the six properties hold (`Kept`, `Together`). A step either
  changes devices gently (`Gentle`: a device keeps its place, is not seen
  earlier, does not become a tombstone, is not absent too early), which
  `MildKeeps` shows to be harmless, or it moves rows. A merge moves all rows of a
  device and a split all rows of an identity, so an identity keeps one home
  (`MergeKeeps`, `SplitKeeps`); what else they disturb, they mark. A second
  observation of a batch adds a row beside the first (`BesideKeeps`) or on a
  device of its own (`TwinKeeps`). `LatestRowNamesAll` and `AcceptedStayTogether`
  except the identities that were raced or twinned.
- `Together` has a parameter for the two devices of a match: between the
  acceptance and the merge that follows in the same commit, the pair is apart on
  these two (`CorrelateKeeps`, `AcceptKeeps`).
- `Holds` says what a batch has read: its device was a home of its identity, and
  a batch that knew no device brings a fresh one. None of it can be undone but
  by a request that moved the rows, which the commit then sees and marks
  (`StoreKeeps`). `Sweeps` says that the sweep's writes are gentle against what
  it read.
- `Newcomers` counts the batches that may still insert an identity: with them
  the identities stay within the budget of requests, so `TypeOK` is inductive.

The proofs assume only the named assumptions on the constants, which TLC
evaluates in every run, and where they say so that no answer outlives its request
(`~StaleAcks`) or that heartbeats are far enough apart (`HeartbeatsApart`). Every invariant that
a passing run checks has a theorem. Model-checked only are the liveness
properties, which need fairness and ENABLED: `EventuallySettled`,
`TopicStreamsEnd`, `SamplesLeave`, `FocusFollows`, `AllEnd` and `Terminates`.

## 5. Not modelled

- GATT worker and scan supervision of the firmware: candidate queue, worker,
  timeout, cancellation by a focus, result slot. `TransportScheduler` takes a
  result as an upload that may come at any time; the hazards are listed without a
  property. It would be the next module.
- Signal bands, movement, location estimates, AD structures, device
  classification: functions of one observation or of a window of values, without
  interleaving, and tables of data.
- The prices of correlation (`akiyama_pair_cost`, the regressions,
  `alpha_from_p90_overlap`) and the evidence of the Apple method: floating point
  formulas; `DeviceRecords` and `Assignment` take any outcome of them.
- The configuration version: `record_heartbeat` stores what the scanner reports
  over what `_bump_scanner_config` counted, and nothing compares versions.
- Line framing and time synchronisation of the bridge; registration of scanners.
- Deletion of rows other than observations.
- The dashboard, setup, seed and migrations (no protocol of their own), request
  validation (its outcomes are answers).
