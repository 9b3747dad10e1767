# Retroactive sampling: TLA+ models, checks and proofs

TLA+ modules for the parts of this repository whose correctness rests on
interleavings, limits, failures and time: the file-backed span buffer of the
collector processor, the processor around it, the sampling policies, the coordinator
service with its three pub/sub back ends, and the clients and proxies that connect
them. TLC checks them on small instances; TLAPS proves their safety properties for
every size, that `groupByTrace` divides batches of any shape faithfully, and that the
buffer implements the abstract queue the processor is modelled on. Liveness is checked
by TLC only.

`PROJECT.json` is the index: components, runs, the map from definitions to source
lines, the mutant that shows each property can fail, hazards, findings, theorems.
Source paths below are relative to `src/`.

## 1. The system

Collectors run the `retroactive_sampling` processor. It evaluates the policies on
the spans of a trace as they arrive; what is not interesting goes into an on-disk
ring. When a collector finds a trace interesting it forwards its spans, marks the
trace in its interest set and notifies a coordinator, which deduplicates the
notification and broadcasts the decision to all processors; they mark the trace
too, and their sweepers deliver the buffered spans.

| Component | State | Operations | Talks to |
|---|---|---|---|
| span buffer, `processor/.../internal/buffer` | ring file, `used`, writer and sweeper positions, staged page, request channel, two one-slot token channels, interest list, timers | `New`, `Write`, `AddInterest`, `HasInterest`, `Close`; goroutines `runWriter`, `runSweeper`/`processPage` | processor (callbacks `onMatch`, `evictObs`) |
| evaluator, `processor/.../internal/evaluator` | the chain built from the configuration (immutable), a regex cache | `Build`, `Chain.Evaluate`, 13 policies | processor |
| processor, `processor.go`, `split.go` | none of its own | `processTraces`, `groupByTrace`, `onMatch`, `onDecision`, `Start`, `Shutdown` | evaluator, buffer, client, next consumer |
| client, `internal/coordinator/client.go` | bounded `sendCh`, current stream, backoff | `Notify`, `run`/`connect`, `Close` | coordinator stream, processor (`onDecision`) |
| coordinator server, `coordinator/server` | map of streams, a bounded queue and a sender goroutine per stream, counters | `Connect`, `Broadcast`, `Start` | clients, pub/sub back end |
| memory and redis back ends | decided keys with TTL; Redis channel and subscription | `Publish`, `receive`, `Close` | server (`Broadcast`) |
| proxy back end | bounded `sendCh`, current stream, backoff | `Publish`, `run`, `recv`, `send` | parent coordinator |
| coordinator main | the signal context | `onNotify`, choice of mode, shutdown order | all of the above |
| configuration, TLS, generated code, `tracegen` | — | — | — |

What is hard in it:

* *span buffer*: two goroutines keep private ring positions and agree only through
  one counter and two lossy wake-up channels; records span pages; a page is scanned
  many times before it is freed; decisions arrive in the middle of a scan; time is
  read at several points; file operations fail; the file outlives the process;
* *evaluator*: decisions are taken on the part of a trace a collector happens to
  have, in whatever order spans come, and some are said to be the same everywhere;
* *coordinator*: many streams and several processes race on one key; set and publish
  are two commands; queues are bounded; streams end while broadcasts go on;
  shutdown waits for peers with a timeout;
* *processor, client, proxy*: reconnects and bounded queues lose notifications; a
  decision may arrive between the check of the interest set and the write.

What makes each correct: the buffer neither loses, duplicates nor reorders accepted
records, never lets positions and count drift apart, always wakes up and always
closes; the policies give order-independent and, where promised, fleet-wide uniform
results; the coordinator announces a decision once per key lifetime, keeps each
stream in order, accounts for what it drops, and stops when told; the processor gives
every part of a batch one fate and overlooks no decision in its window; clients and
proxies carry each notification at most once, deliver decisions or lose them by name,
and come back after a failure.

## 2. Modules

| Module | Models | Lines of the program it stands for |
|---|---|---|
| `SpanBuffer` | the span buffer | `buffer.go` |
| `SpanBufferProofs` | theorems: types, ring positions, wake-up of the writer, interest list | — |
| `SpanBufferRecords` | theorems: where every record is, whatever fails | — |
| `SpanBufferReliable` | theorems: order, framing and wake-ups while pages are written and read | — |
| `SpanBufferRefinement` | theorem: the buffer implements `SpanQueue` | — |
| `SpanQueue` | what the buffer promises, without pages and goroutines | the callers' view of `buffer.go` |
| `SpanBufferImpl` | the refinement mapping from `SpanBuffer` to `SpanQueue` | — |
| `Split` | `groupByTrace` | `split.go` |
| `Processor` | the processor, on `SpanQueue` | `processor.go` |
| `Evaluator` | `Build`, the policies, a fleet that evaluates the parts of a trace | `internal/evaluator/*.go` |
| `Coordinator` | server, memory and redis back ends, `main`'s `onNotify` and shutdown | `server.go`, `memory/pubsub.go`, `redis/pubsub.go`, `redis/config.go` (retries), `main.go` |
| `Client` | the coordinator client of a processor | `client.go` |
| `Proxy` | the pub/sub back end of proxy mode | `proxy/pubsub.go` |
| `Fleet` | clients, local coordinators and a parent, with the streams between them | how `main.go` and the gRPC streams connect them |
| `CoordinatorProofs`, `FleetProofs`, `EvaluatorProofs` | theorems of these modules | — |
| `ProcessorProofs` | theorems of `Processor`, and what `Split` computes | — |
| `MCSpanBuffer`, `MCEvaluator`, `MCCoordinator`, `MCProcessor`, `MCFleet` | constants for TLC | — |

### SpanBuffer

Data: a page is a list of record headers (trace ID, payload, length, insertion
time) or a continuation chunk of a large record. A payload is the number of its
`Write` call, lengths are in abstract units with a header of `HdrSize`, `used` and
positions are in pages, and time is a counter that saturates at `MaxTime`. Byte
layout and `flock` are left out.

Control: each action is a stretch of code between two points where another goroutine
can see or change something. The writer's program counter `wpc` says where
`runWriter` stands: `select`; `flush`/`flushWait` in `flush`, before the write or
blocked; `large`/`largeWait` likewise for a large record; `publish` between
`WriteAt` and `used.Add`; `wake` before the send on `wakeup`. `wreq` is the request
`handle` resumes after a flush. The sweeper's `spc` says where `runSweeper` stands:
`top`, `wait`, `scan` at a record, `age` between the interest lookup and the clock,
`writeback`, `free`, `signal`. `scan` holds the locals of `processPage`, with the
value of `used` loaded on entry. `AddInterest` is two actions because the wake-up is
sent after the unlock. `Close` is the closing of `closeCh`; it has returned when both
goroutines are `done`.

Failures: `Faults` names the file operations that may fail, `MaxFaults` times. A
panic in the writer (staging beyond the page after an ignored flush error) ends the
process. After a failed last flush the writer returns with records in its stage, which
are gone. A sweeper that skips the unreadable first page of a large record goes on in its
payload, whose bytes it parses as headers; `ScanPayload` lets them spell anything: the
page, or as many pages as are counted, are freed, whoever's they are, or the page is kept
with any timer or with none. (Two things are left out: that the bytes spell the
tombstone's ID with a length beyond the count, which `ReservedIDs` excludes for records,
and that `onMatch` is called with such bytes, which are no record.) `StalePages` is what
an earlier process may have left in the file.

`history` records what became of each payload (delivered, corrupt, evicted, early,
dropped, unreadable, unflushed at the end, overwritten by a large record after a failed
flush, torn by a failed chunk, split by a failed read of its first page), `written` the
accepted requests. `Torn` is one of the last three: from then on the sweeper may read
what the writer never wrote as a page, and nothing below `TypeOK` and `WriterArmed` is
claimed.

### SpanQueue

The promise: a bag of accepted records, each handed over once (`Deliver`, on a mark
made before its window closed) or given up once (`Evict`, `Drop`), and a map of marked
traces that keeps a mark for two decision waits. A record is given up only after the
sweeper found it undecided (`Pass`): a mark made between `Pass` and `Evict` is too
late, which is the gap between the interest lookup and the clock in `processPage`.
`SpanBufferImpl` maps `SpanBuffer` to it: the interest list to the map, `history` to
`fate` (a second outcome maps to a value the queue never has), the sweeper's `age`
state to `passed`, both goroutines being `done` to `stopped`. The promise is for file
operations that succeed; what remains when they fail is `FaultsContained`.

### Split and Processor

A `ptrace.Traces` is a sequence of ResourceSpans of ScopeSpans of spans. `AddSpan` is
the body of the innermost loop with `rsMap` and `ssMap`; `SpanLoop`, `ScopeLoop` and
`GroupByTrace` are the three loops, as recursive functions. `OfTrace` says what each
group should be without any map: the batch with the spans of other traces, and what
that leaves empty, taken out at every level. `Processor` runs several `processTraces` calls, each
between `HasInterest` (`TakeKnown`, `TakeUnknown`), the result of `Evaluate` (any of
the four, since `Evaluator` is the module about that), `Notify` and `Return`; the
buffer is `SpanQueue`; `OnMatch` and `OnDecision` are the callbacks. `Shutdown` comes
when no call is under way, which the collector guarantees. `groups`, `verdict`,
`ended`, `groupOf` and `marks` are history.

### Evaluator

A batch is a sequence of ResourceSpans; the ScopeSpans level, which the policies
only walk through, is flattened. Attribute values carry their kind, because the
pdata accessors return the zero value for another kind. OTTL conditions, regular
expressions and the hash are external functions or outcomes attached to spans.
Every collector of a fleet runs the chain of one configuration, spans arrive at
collectors in any order (`Arrive`), and a collector evaluates its batch once
(`Evaluate`). Keys left out of a configuration are decoded to zero (`Decoded`), so
that the treatment of zero bounds is visible. The loops over a chain and over the
policies of an `and` return at the first deciding one, which is the one of least index
(`FirstOf`); `latency` carries its window from span to span (`Widen`), since the code
takes a minimum of 0 for "not set".

### Client, Proxy and Fleet

`run` (client) and `loop` (proxy) say where the reconnect loop stands: about to
connect, sending, waiting, returned. The stream of an endpoint is `link` (asked for,
registered by the server, broken), `up` and `down`. `Connect` registers a stream before it
reads from it, so a server reads only from a stream it has registered, and what is left
of a former one (`old`). A broken stream has let a prefix
through in both directions. When the sender gives a stream up, its receiver goroutine
is not awaited: what it holds is `late`, and it may hand it over while the next stream
is up, or meet the end first. The parent reads, deduplicates and broadcasts in one
step; its inner steps are `Coordinator`'s. `lost` and `missed` name every way in which
a notification or a decision fails to arrive.

### Coordinator

The deployment (single mode, or Redis with the streams spread over two coordinators)
is chosen in the initial state. A stream is one connection, used once. `handler` says where its `Connect` stands
(receiving, about to set the key, about to announce, removed from the map, `done`
closed), `sender` where its sender goroutine stands. `Decide` is `cache.Add` or
`SET NX`, `Announce` is `Broadcast` or `PUBLISH`; between them other streams and
coordinators run. Redis commands may fail, also after they took effect and also
because the signal cancelled the context; and when only the answer is lost the Redis
client sends them again (`max_retries`, 3 by default), so that a command takes effect
twice and then succeeds (`DecideAgain`, `AnnounceAgain`). `feed` holds the messages of the Redis
channel that a subscribed coordinator has not yet received. `log`, `out`, `rejected`,
`wins` and `resent` are history: what entered a stream's queue, what was handed to
`stream.Send`, what met a full queue, how often a key was set, and how often a `PUBLISH`
took effect and was sent again.

## 3. Runs

`tlc -config <cfg> <module>`; every run ends within five minutes on two workers.

| Run | Question | Bounds |
|---|---|---|
| `buffer_safety` | Are ring, records and wake-ups right in every interleaving? | 3 pages, 3 records of one trace, each small or of two pages, all calls within the first two ticks |
| `buffer_liveness` | Does every record meet an end, does `Close` return, and does the buffer implement `SpanQueue` over an old file? | 2 pages, each empty or left over, 3 records, small or filling the ring |
| `buffer_faults` | What survives when any file operation fails? | 3 pages, 3 records, small or of two pages, 2 faults of any kind |
| `buffer_renewal` | *violation*: does an in-time decision keep matching? | 1 record, decision wait 2 |
| `evaluator_policies` | Are the policies order-independent, monotone and uniform? | every policy type and 12 compound or chained configurations, 2 collectors, batches of up to 2 of 5 ResourceSpans, among them one whose span has no start time |
| `evaluator_local` | *violation*: do all collectors agree with a local decision? | a drop policy ahead of `always_sample` |
| `coordinator_safety` | Are streams ordered, drops accounted for, decisions deduplicated? | 1 coordinator, or 2 that share Redis; 2 streams, 2 interchangeable traces (symmetry), notifications, an expiry, a fault (a failure, a crash or a command sent twice), queues of 1, batches of 2, shutdown of one coordinator |
| `coordinator_heard` | Does a decision reach everyone with room, and does shutdown end? | both deployments, one trace, no faults |
| `coordinator_unsubscribed` | *violation*: does every connected processor hear of a decision? | 2 coordinators, 2 streams |
| `processor` | Is a batch divided faithfully, does each group meet one fate, is no decision overlooked? | 2 callers, 2 traces, 2 groups, 1 coordinator decision, decision wait 2, 4 ticks |
| `processor_drop` | *violation*: does a batch that a `drop` policy dropped stay behind? | as `processor` |
| `fleet` | Are notifications not multiplied, do decisions arrive, do ends reconnect and close? | 2 clients behind one proxy or one each, channels of 1, 1 trace, up to 2 notifications, 1 fault, closing ends |

Why the bounds are enough for what is asked. Three pages with records of one and two
pages make the ring wrap, fill, cross three quarters and be claimed by a large record
while small ones are staged; three records are needed for one consumed, one under
the sweeper and one waiting. Decision wait 1 with calls in two ticks lets records age
out before, between and after decisions. The clock saturates where everything has
aged out, so `MaxTime` stands for every later time. A capacity of 1 makes every queue
hit its limit; a batch of 2 is partial or full. Two streams suffice for stream
properties, which relate one stream to one competing publisher. In `processor` two
calls in progress, or one with two groups, and up to three marks let a decision fall
anywhere around a store, be renewed and be pruned; the batch of two traces has equal
resources and scopes, an empty one of each, and a repeated span. In `fleet` one fault
breaks a stream at any point or fails a connect, and a stopped coordinator fails any
number of them; `MaxBackoff = 2` makes the wait reach its limit. With one trace the
queue of a stream never fills on the way down: that limit is `coordinator_safety`'s.
The runs other than the buffer's switch off deadlock checking, since these systems may
rest when nobody connects, notifies or sends spans, or, in `processor`, the bound on
the clock is reached.

The properties, in words, are the comments above them in the modules. In
`SpanBuffer`: `UsedInRing`, `RingAligned`, `RingFramed` (count, positions and
contents of the ring), `AtMostOnce`, `NoSilentLoss`, `InsertionOrder`, `EverySettled`
(the fate of records), `FaultsContained`, `RedeliveryBounded` (the same under failing
operations), `WriterArmed`, `SweeperArmed`, `DecisionWakes`, `CloseReturns` (nobody
sleeps for ever), `EarlyOnlyUnderPressure`; in `SpanBufferImpl`
`ImplementsQueue`. In `Evaluator`: `DecisionOK`, `OrderIndependent`, `KeepMonotone`,
`LocalUniform`, `LatencyIsDuration`. In `Coordinator`: `StreamOrder`,
`DropsAccounted`, `Deduplicated`, `DecisionHeard`, `ShutdownEnds`. In `Processor`:
`GroupsFaithful`, `OneFate`, `ForwardedOnDecision`, `WholeTrace`,
`QuietAfterShutdown`. In `Fleet`: `NoEcho`, `KeptWasDecided`, `DecisionReachesFleet`,
`ConnectedOrClosed`.

### Fairness

`SpanBuffer!Fairness` is weak fairness of the writer, the sweeper, the second half
of `AddInterest`, due timer callbacks and the clock: the Go scheduler runs goroutines
that can run, and time passes. Nothing obliges callers to write, decide or close.
The writer's ticker is part of `Writer`. `Coordinator!Fairness` is weak fairness of
each handler's own steps, each sender, each receive goroutine and the shutdown
sequence (its timeout passes); it includes that processors read their streams, since
a `Send` that never returns is indistinguishable from a peer that stopped reading.
Connecting, notifying, hanging up, faults and expiry are not fair. `Fleet!Fairness` is
weak fairness of each reconnect loop (its waits end, and a connect that meets no fault
succeeds), each receiver, former ones included, and each server's reading and
registering of streams; processors need not notify, nothing need break, nobody need
close. `Processor` and `SpanQueue` state no fairness: that the buffer settles every
record is `EverySettled` of `SpanBuffer`.

## 4. Disagreements between text and code

Each of these has a run that expects a violation, and a finding in `PROJECT.json`:

* `buffer_renewal`: a repeated `AddInterest` moves `addedAt` past a record's
  retention window and thereby takes back an earlier decision that came in time.
  The coordinator's echo of a processor's own notification is such a repetition.
* `evaluator_local`: a drop policy (or a policy that reports an error) in front of
  `always_sample` or `probabilistic` makes `SampledLocal` a matter of which spans a
  collector saw.
* `coordinator_unsubscribed`: streams are served before the Redis subscription
  exists.
* `processor_drop`: `processor.go:96` has no case for `Dropped`; the batch is buffered
  and forwarded if any collector keeps the trace, although the processor's README (line
  86), `evaluator.go:11` and the design of the policies say that it is not sampled.
  `ForwardedOnDecision` states what does hold of it.

Others met on the way, without a run of their own:

* `buffer.go:155`: an entry that expired before a record was inserted still matches
  it until it is pruned; the design document
  (`2026-05-03-buffer-channel-refactor-design.md:242`) says it does not.
* `buffer.go:394-408`: a decision that arrives between the lookup and the look at the
  clock does not save a record that then is too old.
* `buffer.go:329`: the all-zero trace ID ends the parse of a page, and the records
  behind it are freed without a callback. Put `zero` into `TraceIDs` of
  `MCSpanBuffer_safety.cfg` and `NoSilentLoss` fails.
* `buffer.go:449-452`: skipping an unreadable head page by one page leaves the sweeper
  inside a large record, whose payload it parses as headers. With `Faults = {"read"}` and
  `MaxFaults = 1` in that file `NoSilentLoss` fails: pages of other records are freed.
* `buffer.go:308-311`: when the last flush fails the writer returns, and what it had
  staged is gone, without `onMatch` and without an eviction being counted (`unflushed`).
* `buffer.go:266-284`: a failed write of a chunk moves `wHead` without `used`. With
  `Faults = {"large"}` and `MaxFaults = 1`, `RingAligned` fails, and under `FairSpec` so does
  `CloseReturns`: the sweeper may wait for chunks that never come. With five records
  `UsedInRing` fails as well: the tombstone of a torn head is written over a page of
  another record, and later frees two pages (`buffer.go:338-340`) where one is counted.
* `buffer.go:230`: the error of `flush` is ignored, and staging goes past the page
  (a panic), or a large record is built on top of the staged ones.
* `latency.go:22-33`: the bounds are tested after every span on the window so far, so
  with `upper_threshold_ms` a batch that is longer than the bound is sampled if its
  first spans fit, and the order of the spans matters; the processor's README (line
  75) speaks of the trace's duration.
* `latency.go:23`: a minimum of 0 is taken for "no span yet", so a span without a start
  time is forgotten with the next one. Spans of (0, 10) and (50, 60) in this order make
  windows of 10 and 10; in the other order the second window is 60, which is "earliest
  start to latest end" (processor README, line 75). `OrderIndependent` and
  `LatencyIsDuration` therefore speak of batches whose spans all have a start (`Started`);
  without that condition the run finds both violated.
* `registry.go:52-57`: a bound of 0 on a numeric attribute is taken for no bound.
* `server.go:107`: what is left in the queue of a stream that ends counts as dropped
  for a full buffer, which is not what the metric's help text (`main.go:60`) says;
  the batch in the sender's hand at that moment is not counted at all.
* `redis/pubsub.go:60`: a `SET NX` whose answer is lost and which the Redis client sends
  again (`redis/config.go:42`) finds its own key, so `Publish` reports that the trace was
  known and announces nothing until the key expires; the comment at line 55 has only
  "Returns true if newly published". A `PUBLISH` that is sent again reaches every stream
  twice, which processors take for a renewal.
* `client.go:72`: the wait doubles while it is below 30 s, so it ends at 32 s; the
  design (`2026-04-23-daisy-chain-coordinators-design.md`) says "1s → 30s cap ... same
  pattern as processor coordinator client". In both loops the reset to one second is
  reached only when the context is done, so a connection that lasted for days does not
  shorten the next wait.
* `client.go:55`: `Close` waits for `run` and not for the receiver, which may call the
  handler afterwards; in the processor that only marks a trace in a closed buffer
  (`QuietAfterShutdown`).
* `processor.go:122`: when the next consumer refuses a batch, its sender retries all of
  it, and the groups that were stored the first time are stored again.

## 5. Proofs

Every theorem holds for every value of the constants that the named assumptions of the
component's module allow: any number of pages, page and header size, set of lengths and
of trace IDs, decision wait, number of callers, streams, coordinators, clients,
proxies, and any bound on calls, faults and time. The assumptions say what `New`, the
configuration or the deployment ensures (`SizeAssumption`, `TimeAssumption`,
`BoundAssumption`, `StaleAssumption` of `SpanBuffer`; `DeploymentAssumption`,
`BoundAssumption` of `Coordinator`; `FleetAssumption`; `ProcessorAssumption`: finitely
many traces, and batches of any shape that hold their spans; `EvaluatorAssumption`,
`ArrivalAssumption`, `ConfigAssumption`: a trace of any spans, in the non-empty
ResourceSpans that `groupByTrace` makes, and configurations as decoding leaves them), and
TLC evaluates them in each run. Each property below but `DecisionKept` is also one a run
checks.

### The span buffer

Two further hypotheses appear. `ReservedUnused`: no trace has the ID that stamps a
consumed record (`tombstoneID`, `buffer.go:25`); `ReservedIDs` adds that none has the
all-zero ID, which ends a page. The code relies on both and checks neither; a trace
with such an ID would be skipped or would hide the rest of its page. And each theorem
names the file operations that must succeed, if any.

| Theorem | Property | Operations that must succeed |
|---|---|---|
| `TypeCorrect`, `WriterNeverForgotten`, `DecisionsSurvivePruning` | `TypeOK`, `WriterArmed`, `DecisionKept` | none (nor reserved IDs) |
| `RingSafe`, `CountInRing`, `PressureIsReal` | `RingAligned`, `UsedInRing`, `EarlyOnlyUnderPressure` | writes of large records (`ReservedUnused` only) |
| `FaultsAreContained`, `RedeliveriesBounded` | `FaultsContained`, `RedeliveryBounded` | none; the properties speak of a buffer that is not `Torn` |
| `NothingLost`, `ConsumedInOrder`, `PagesFramed`, `SweeperNeverForgotten` | `NoSilentLoss`, `InsertionOrder`, `RingFramed`, `SweeperArmed` | writes and reads of pages (`PagesSucceed`) |
| `HandedOverOnce`, `NoDecisionMissed` | `AtMostOnce`, `DecisionWakes` | the same and writes of tombstones |
| `BufferIsQueue` | `ImplementsQueue` | all |

`SpanBufferProofs`: types and positions. `TypeOK` is not inductive, since an action
at a record needs the scan cursor to be on one: the invariant is
`TypeInv == TypeOK /\ CursorOK`. That the count stays within the ring and that the
writer's position is the sweeper's plus the counted and in-flight pages depend on each
other, so `RingInv` has both and adds `WriterInv` (while chunks are written the pages of
the record are still free, and as many are written as will be published), `SweeperInv`
(what is about to be freed was seen counted) and `FileInv` (only the page under the
sweeper carries tombstones; otherwise a consumed large record could be met with fewer
pages counted than it frees). Each writer step is an instance of `AppendPage`: pages
are appended outside the counted ones, because positions less than a lap apart differ
(`AdvanceApart`); `ChunkCount` shows that the chunk loop of `handle` writes the number
of pages computed by division. `PressureIsReal` needs `ClosingInv` as well: the sweeper
compares a count it loaded earlier, and only the sweeper lowers the count.

`SpanBufferRecords`: the records, whatever fails. The invariant is
`RecordInv == TypeInv /\ (~Torn => Whole)`, where `Torn` is what `FaultsContained`
excepts: a large record in the file in part, written over staged ones, or without its
first page. Its core is `Custody`. Requests are numbered in order of acceptance, and the numbers increase
strictly from the head of the ring through the counted pages, the pages in flight, the
stage and the hand of the writer to the channel; hence a record is in one place, and
which one says what `history` may hold for it. The delicate place is the page under
the sweeper, of which there are two versions while `processPage` runs; `HeadView`
picks the valid one and `SnapOK` says what the copy may differ in. `ContOK` (a counted
chunk has its record's first page at the right distance before it) goes with it: it keeps
the sweeper off continuation chunks, so that `ScanPayload` is never taken (`NoPayload`),
and only a `split` breaks it. `Bounded` (no
record is delivered more often than once plus the failed write-backs) and
`OutcomesOK` stand outside `Custody`, since they outlive the process.

`SpanBufferReliable`: with page writes and reads that succeed nothing is torn and the
process does not panic, `ReliableInv == RecordInv /\ NoStage /\ ~Torn`, which with `ContOK`
gives `RingFramed`. On top of it `TimeLeft` (a page that is kept is kept for a record with
time left, at most `DecisionWait`) gives `SweeperArmed`; `Undecided` (no decision matches
a record already looked up, unless a token is pending or about to be sent) gives
`DecisionWakes`.

`SpanBufferRefinement`: `RefineInv == ReliableInv /\ ListInv /\ ClosingInv /\ DrainInv`.
`ListInv` says that the interest list names a trace once and gets older towards its
back, so that pruning from the back is the abstract set without what is two decision
waits old; `DrainInv` says that the writer returns only with channel, hand and stage
empty and the sweeper after it, so that `stopped` means that nothing waits. `Write` maps to
`Accept`, `AddInterest`, `Close` and `Tick` to their namesakes, `WriterGivesUp` to
`Drop`, `ScanUndecided` to `Pass`, `ScanMatch` to `Deliver`, `AgeEvict` to `Evict`,
`AgeKeep` to `Keep`, the sweeper's last `SweepEmpty` to `Stop`; all other steps
(flushing, publishing, tokens, timers, freeing) change nothing the queue has.
`SpanQueue` states no fairness, so the theorem is the whole of `ImplementsQueue`.

### Coordinator, fleet, processor

`CoordinatorProofs`: `CoordinatorTypes` (`TypeOK`), `StreamsInOrder` (`StreamOrder`),
`EveryDropCounted` (`DropsAccounted`), `DecisionsDeduplicated` (`Deduplicated`). Order
and drops need `StreamInv`, which adds `SenderInv` to the two properties: a sender that
waits has no decision in hand, and when it has returned its stream has left the map,
so that nothing is queued after the rest was counted. `Deduplicated` needs two counting
invariants.
`WinsInv`: a key that is not set was set at most once per expiry, unless it was lost with the
process that kept it in single mode, in which case (`Closed`) nobody can set it again.
`OfferInv`: for each stream, what was offered to it, is in the feed of its coordinator
and is held by handlers between `SET NX` and `PUBLISH` is together no more than the
key was set and a `PUBLISH` was sent again. The sets of handlers and positions are counted with the theorems on
finite cardinality, for which the streams are assumed finite.

`FleetProofs`: `FleetTypes` (`TypeOK`), `OnlyDecidedIsKept` (`KeptWasDecided`),
`NotificationsNotMultiplied` (`NoEcho`). For the second, everything on its way down,
late receivers included, is decided (`DownTypes`). For the third, `EchoInv`: what the
parent has read of a trace, and what is in the clients' channels, on streams and in the
proxies' channels, is together no more than was notified; each step moves one
notification on, or loses some (`Moves`).

`ProcessorProofs`, over `SpanQueue`: `ProcessorTypes` (`TypeOK`), `EveryGroupOnce`
(`OneFate`) from `PlaceInv` (a group is in the hands of one call, in its batch, in one
record, or gone, and a call's current group is no longer in its rest),
`NothingForwardedUndecided` (`ForwardedOnDecision`) from `DecideInv` (a record carries
the trace and the time of its group; what is in an outgoing batch has a marked trace),
`TraceSampledWhole` (`WholeTrace`) from `MarkInv` (the interest set has the last mark
of a trace, or all its marks are two decision waits old), `ShutdownIsFinal`
(`QuietAfterShutdown`) from `QuietInv` (no call after `Shutdown`, and a stopped buffer
is empty). What `Processor` assumes of the buffer, `BufferIsQueue` proves of it while
file operations succeed.

### groupByTrace

`BatchesDividedFaithfully` (`GroupsFaithful`) is in `ProcessorProofs`. Its core is the
lemma `Grouped`: for every batch, `GroupByTrace(td) = [t \in TracesOf(td) |-> OfTrace(td,
t)]`. The loop invariant `At(st, T, r, s, res, sc, O, A, B)` describes the state in
ScopeSpans `s` of ResourceSpans `r`: for each trace, `O` is its part of the ResourceSpans
before, `A` of the ScopeSpans before in this one, `B` of the spans before in this one;
its group is `O` with `A` and `B` closed at the end (`Filled`, `Whole`), unless that is
empty; `rsMap` and `ssMap` have an entry exactly for what is open and not empty, it
names the last members, and no key further on is taken. Without the last conjunct a
second resource with equal contents could be found under the key of the first.
`SpanAdded` is the body of the innermost loop, `ScopeDone` and `ResourceDone` the end of
the two inner loops, and `SpansGrouped`, `ScopesGrouped` and `AllGrouped` the loops.
`PartsInv` then says that the groups in the hands of a call are the parts of its batch.

Induction over data is done in two steps, because the library's induction theorems take
an operator as a parameter, which the installed provers cannot instantiate. `LeastNat`
derives from the well-foundedness of `<` that a set of natural numbers has a least
member, and `Upward` that a set with a first number and every successor has all of them;
each induction forms the set of the numbers for which its claim holds. That a recursively
defined function satisfies its equation is proved in the same way, by building it up to
each index (`SpanLoopRuns`, `ScopeLoopRuns`, `ResourceLoopRuns`, `FlattenExists`, and
`WindowExists` of `EvaluatorProofs`).

### The evaluator

`EvaluatorProofs`, for every configuration and every trace: `DecisionsAreExplained`
(`DecisionOK`), `LocalIsUniform` (`LocalUniform`), `KeepsStayKept` (`KeepMonotone`),
`OrderDoesNotMatter` (`OrderIndependent`), `LatencyMeansDuration` (`LatencyIsDuration`).
The last two speak of batches whose spans all have a start time (`Started`), by the spans
of section 4; the data model of OpenTelemetry expects a start time, and the code checks
none.

The inductive invariant `EvalInv` is small: the chain is what `Build` made of the
configuration, a decision is what the chain says of the collector's batch, and there are
no batches without a chain. The work is in the operators. `BuildChain` shows what `Build`
lets through: no `drop` below the top, no unknown type, valid parts. `FirstHit` and
`NoHit` characterise the loops that stop at the first deciding policy. `Covers(ud, td)`
says that a batch has the spans and resources of another; `PolicyGrows` and `PolicySame`
lift it from the single policies (`SharedGrows`, `SharedSame`) through `and` and `not` to
the chain: more spans keep a witness, the same spans in another order are the same
witnesses. The policy that is no search for a witness is `latency`: `LatencyPair` shows
that its running window reaches a threshold after some span exactly when two spans of the
batch, the start of one and the end of the other, are that far apart, which no longer
mentions an order.

Two definitions changed on the way. `buildPolicy` was a `CASE` whose arms overlapped for
a `not` over an invalid policy, which leaves the result open in TLA+; it is a chain of
conditions now, as in the code. And the assumptions on spans and configurations, which
TLC's constants had satisfied tacitly, were made explicit.

### Only model-checked

* Liveness under fairness is out of the prover's reach: `EverySettled`, `CloseReturns`,
  `DecisionHeard`, `ShutdownEnds`, `DecisionReachesFleet`, `ConnectedOrClosed`.
* The expected violations of section 4 are counterexamples.

## 6. Not modelled

Configuration decoding and validation, TLS, generated protobuf and telemetry code,
the load generator and test helpers have no behaviour over time. The regex cache of
`string_attribute` memoises a pure function; that it is not safe for concurrent use
is listed as a hazard. The failure paths of `newProcessor` run before anything
concurrent exists. Trace IDs of a wrong length, which client and server skip, and the
byte counters of the server are left out. Chains of more than one proxy repeat what
`Fleet` has between a client and its proxy.

## 7. Plan

Done, in this order: span buffer and its first theorems, evaluator, coordinator;
abstract queue and refinement, processor with `groupByTrace`, client, proxy and fleet;
proofs of the safety properties of buffer, coordinator, fleet and processor and of the
refinement; proofs of the evaluator's properties and of `groupByTrace`. Every safety and
action property of a passing run is stated by a theorem.

Left: liveness stays with TLC. A model of the regex cache's unlocked list would give the
last hazard a property; it needs the inner steps of the external LRU.
