# heap-analysis: specifications

`heap-analysis` traces the heap of a Rust program. The traced program (`track/`) installs
`TrackingAllocator` as its global allocator; every thread writes its allocations into a buffer, a
gatherer thread collects the buffers and writes them to a TCP connection. The analysis program
(`analyze/`) reads the connection, pairs deallocations with allocations in a timely dataflow, and
publishes the results to web clients. This directory holds TLA+ models of that program, TLC
configurations that check them, and proofs about them.

## 1. The system

| component | code | state | operations |
|---|---|---|---|
| allocator hooks, `AllocationWriter` | `track/src/lib.rs` 104-135, 630-818 | per thread: `WRITER` (None, Ready, Disabled), `TraceTree`, `ThreadState` (buffer, dead) behind a mutex | `alloc`, `dealloc`, `realloc`, `alloc_zeroed`, `writer`, `push`, `drop` |
| `start`, `stop` | 45-75 | `ENABLE_TRACKING`, `GATHER` | `start`, `stop` |
| `GatherHandle` | 162-302 | channel senders, shared join handles | `new`, `register`, `flush`, `shutdown`, `drop` |
| gatherer | 304-571 | vector of `ThreadState`s, receivers, connection, last timestamp | `run`, `handle_buffers`, `handle_register`, `handle_flush`, `handle_details`, `shutdown` |
| resolver | 573-628 | request and answer channels | `run`, `resolve` |
| `TraceTree`, `Trace` | `track/src/stacktrace.rs` 1-150 | a tree of frames per thread, next index | `index`, `fill` |
| `GlobalTraceTree` | 152-264 | children of every global node, a table per thread | `push`, `lookup`, `for_thread`, `remove_thread` |
| wire types | `track-types/src/lib.rs` | - | `TraceIndex::from` |
| network reader, trace source | `analyze/src/dataflow.rs` 56-184 | bounded channel, capability | receive, downgrade, park |
| Match ptr | 186-252 | stash, leak capability | alloc, dealloc, leaks |
| windows | 24-30, 260-299 | stash per window | `round_up`, `group_by_window` |
| web | `analyze/src/web.rs`, `main.rs` | map of clients | connect, broadcast, disconnect |

How they meet. A thread and the gatherer share a `ThreadState` under a mutex; the thread hands over
a full buffer through a bounded channel, and the gatherer takes a partly full one from the shared
state on a tick. A thread registers through an unbounded channel and waits on a condition variable.
`stop()` sends a request and joins the gatherer. The gatherer asks the resolver for symbols over two
more channels. The gatherer and the analysis share the connection: a stream of `TraceProtocol`
messages. In the analysis a reader thread feeds a bounded channel, and the dataflow feeds an
unbounded one that ends in a broadcast to web clients.

What is hard. A buffer has two ways to the connection, and events must not overtake each other
between them. The gatherer works on a snapshot of what threads go on changing. Every thread blocks
on the gatherer in two places, the gatherer blocks on threads in one, and the gatherer's own thread
runs the same allocator. `stop()` runs against hooks that have already passed the check of
`ENABLE_TRACKING`. The gatherer translates frame numbers by counting. The analysis sees the events of
different threads in any order.

What makes each part correct:

- tracker: no event lost, repeated or out of order within a thread; everything delivered in the end;
  a thread's termination announced last; no deadlock; `stop()` returns, and flushes;
- frames: an event's frame index means, after translation, the instruction the thread meant;
- matching: each allocation and each deallocation has one fate; no false errors beyond the
  limitation the repository's README admits (threads whose events are reordered); leaks are final;
- resolver, reader: both sides terminate; capability never goes back; windows: every pair counted
  once, in the right window; web: a client gets results from connection to removal.

## 2. The plan

| step | module | state |
|---|---|---|
| 1 | `EventLog` - abstract: what the connection promises about a thread | done |
| 2 | `Tracker` - threads, gatherer, start and stop; implements `EventLog` | done |
| 3 | `TrackerProofs` - type invariant, safety, the refinement | done |
| 4 | `TraceFrames` - capture of traces, local and global frame numbers | done |
| 5 | `Matching` - Match ptr, against a heap used by threads, with failed allocations | done |
| 6 | `Resolver` - gatherer and resolver over an unbounded and a bounded channel; shutdown hand-shake, batches of details, lost connections | done |
| 7 | `TraceReader`, `Windows` - reader thread, source with fuel and activations, capability; windows | done |
| 8 | `Lifecycle` - handles, their count and their drop, `start()` after `stop()` or after `start()` | done |
| 9 | `WebClients` - broadcast to clients that come and go | done |
| 10 | `MatchingProofs`, `MatchingErrorProofs`, `WebClientsProofs` | done |
| 11 | `TraceFramesProofs`, `LifecycleProofs` (with the resolver), `WindowsProofs` (with the reader), `TrackerFlushProofs`: every invariant the runs check | done |

`EventLog` is instantiated by `Tracker`. `Lifecycle` extends `Resolver`: a session is one gatherer with
its resolver, and the life cycle says how sessions begin and end. `Windows` extends `TraceReader`: the
operators of the dataflow share a worker with the source. `TraceFrames` and `Matching` start from
what `Tracker` establishes, that the events of one thread arrive complete and in order, and have a
queue or a log per thread in place of the buffers. `WebClients` starts where the dataflow captures a
result.

## 3. The modules

### EventLog
The abstract specification of the connection: per thread a number of recorded events, a delivered
prefix and a phase. Nothing is recorded before the thread is announced, nothing is recorded or
delivered after its termination, which delivers the rest.

### Tracker (`track/src/lib.rs`)
One variable for each piece of shared state (listed with the names of the code in the module), one
program counter per thread and one for the gatherer. Granularity follows the locks: a thread never
blocks while it holds one, so its critical section is one step that needs the lock free; the gatherer
sends on the network and drains the data channel with a `ThreadState` locked, so its critical section
spans `lockedDrain` and `swap`. An event is named by its position in its thread.

| code | actions |
|---|---|
| `start()` | `StartInstall`, `StartEnable` |
| a hook: `writer`, `register`, `push`, `flush` | `EnterHook`; the first time `CloneHandle`, `SendRegister`, `AwaitStart`; then `Push` and, for a full buffer, `Flush` |
| `flush` of threads that are not followed | `OthersFlush` |
| `AllocationWriter::drop` | `Exit` |
| `stop()`, `GatherHandle::shutdown` | `StopDisable`, `StopTake`, `StopSignal`, `StopJoin` |
| gatherer's bootstrap | `GathererBoot` |
| `run` | `RecvTick`, `RecvData`, `RecvRegister`, `RecvShutdown` |
| `handle_buffers` | `Drain`, `Capture`, `Visit`, `LockedDrain`, `Swap`, `SendHand`, `Stamp` |
| end of `shutdown()`, drop of the fields | `Close` |

Decisions. `start()` is called once, first thing in `main`, as its doc asks, so other threads run only
after `main` has recorded an allocation; `main` does not end. Time is abstracted: `horizon` is how much
each thread had recorded when `next_timestamp` was captured, which is all a timestamp says. A tick
that `maybe_tick` ignores changes nothing and is not a step. `drain_receiver` goes on until it finds the channel
empty, message by message (`DrainReceiver`), and other threads may fill it all the time: in the runs with
liveness, `OthersFlush` stands for full buffers of any number of threads beyond the two, without a bound. A thread that panics stays where it died
(`noGather`, `sendFailed`). What the gatherer has to do with the resolver, writes to the connection
that fail, and handles other than the one in `GATHER` are in `Resolver` and `Lifecycle`.

### Resolver, Lifecycle (`track/src/lib.rs`)
A session is what one `start()` brings up. `Resolver` has its gatherer and resolver as far as they
concern each other, for every session; frames are numbered in the order they are asked for.

| code | actions |
|---|---|
| `GatherHandle::new` | `Spawn`, in `StartNew` |
| `send_buffer` meets a new frame | `Ask` |
| `Resolver::run`, `resolve` | `Resolve`, `Answer` |
| `handle_details` in `run` and in `shutdown()` | `TakeDetails` |
| `Gatherer::shutdown` | `BeginFlush` (in `EndRun`), `Ask`, `SendShutdown`, `TakeDetails`, `FlushDetails` |
| a write that fails | `LoseConnection`, `FailedWrite` |
| `start()` | `StartNew`, `StartLock`, `StartStore`, `StartEnable` |
| a thread's begin and end | `SpawnThread`, `Exit`, `Exited` |
| its first hook: `writer`, `register`; `push` and `flush` of every hook | `EnterHook`, `CloneLock`, `Clone`, `Register`; `EndHook` |
| `handle_register` | `Accept` |
| `stop()`, `GatherHandle::shutdown` | `StopDisable`, `StopTake`, `StopSignal`, `StopLock`, `StopJoin` |
| `Drop for GatherHandle` | `DropSenders`, `ReadCount`, `TakeStatic`, `DropLock`, `DropJoin`, `DropRelease` |
| the end of `run` | `EndRun` |

Decisions. A drop may drop the handle it finds in `GATHER`, so every thread has a stack of drops. A
failed write in the run loop panics, and the drop of the `Gatherer` writes again while the thread
unwinds: the program is aborted. In the final flush it ends the thread, and what `join` does with that
differs: `stop()` ignores it, a drop unwraps it. When nothing is left to write, a lost connection is not
noticed and the gatherer ends in peace (`FlushDetails`); details that were written but not yet flushed may
still be in the `BufWriter`, so then it may also fail (`FailedWrite`). Of a hook there is what it does with
handles: it reads `ENABLE_TRACKING` (`EnterHook`), and `stop()`, another `start()` or the end of the gatherer may come
before each of its next steps: without a handle it panics (`Clone`), a send to a gatherer that has ended
panics (`Register`, and `EndHook` if the buffer was full, also in a thread that has kept the handle of an earlier
session), and a registration that the run loop leaves behind is never accepted. A panic in the
allocator ends the program. `main` may call `start()` and `stop()` in any order,
also a `start()` over a handle that is still installed; it may return at any time outside them.

### TraceFrames (`track/src/stacktrace.rs`, `send_buffer`)
`Traces` are the traces that `Trace::new` may capture: the stacks an unwinder may walk, cut as `fill`
(`Filled`, `Size`) and `deref` (`Deref`) cut them. `Hook` walks one through the thread's tree and queues
the new frames, then the event; `Translate` takes the next instruction of a thread through `push` or
`lookup`; `RemoveThread` drops the table of a thread that has exited and is shipped. A hook's
instructions enter the queue in one step: a thread's tree is its own. Each queued instruction carries,
for the properties only, the instruction pointer that its index stands for. A failed lookup is a panic
of the gatherer. An index keeps 32 bits on the wire (`Truncated`, `IndexLimit`); `SameInstruction` is
about threads that have met fewer frames than that.

### Matching (`analyze/src/dataflow.rs`, hooks of `track/src/lib.rs`)
A heap of addresses and threads that allocate, free and reallocate it, recording as the hooks do; a
reader that forwards any next piece of a thread's log; and the Match ptr operator, instruction by
instruction. Instructions are exchanged by the hash of their pointer, so all that concern one address
meet one worker in order of arrival, and one operator stands for all workers. Sizes, frames and time
windows are left out. A realloc is two steps, `Realloc` when the memory moves and `RecordRealloc` when it
is recorded; others may act in between. Allocations may fail: `alloc` then records nothing,
`alloc_zeroed` an allocation of null (`AllocZeroedFails`), and a realloc that fails leaves the memory
where it is and is recorded as if it had moved to null. That last one makes the analysis report the
next use of the address as an error, so `NoSpuriousErrors` excepts addresses it happened to
(`RecordedAsMoved`).

### TraceReader, Windows (`analyze/src/dataflow.rs`)
`TraceReader` is the reader thread (`Read`, `Send`, `Activate`, `EndOfStream`, `CloseChannel`, `WakeSource`) and
the source (`TimerFires`, `Schedule`, `TakeMessage`, `FindEmpty`, `EndRun`), which a message or the end of the
connection activates. `Windows` adds the operators behind it, `MatchPtr` for the window of a pair and the
leak capability, `Consolidate` and `GroupByWindow`. Operators run to their end: the worker is one thread.
Each of them goes by what may still arrive (`MatchFrontier`, `PairFrontier`, `BatchFrontier`), which timely
computes from capabilities and messages under way. Timely and differential dataflow are modelled from
their use.

### WebClients (`analyze/src/main.rs`, `web.rs`)
The dataflow captures results (`CaptureResult`, `EndCapture`), a thread passes them on (`PassOn`), and a task
broadcasts each to the clients in a map (`TakeResult`, `BeginBroadcast`, `SendTo`, `EndBroadcast`). A connection
is a task (`Connect`, `Insert`, `Leave`, `Remove`) and the forward task of its queue (`Forward`, `ForwardFails`,
`ForwardEnds`). The read lock spans the broadcast from `BeginBroadcast` to `EndBroadcast`; a writer has the lock
for one step.

## 4. The runs

Passing:

| run | checks | shows |
|---|---|---|
| `tracker_safety` | `TypeOK`, `InOrder`, `PipelineHoldsLog`, `DestroyedIsComplete`, `TimestampLag`, `ImplementsLog` | with `stop()` at any time, the stages of the pipeline hold each thread's events exactly once and in order; `EventLog` is implemented |
| `tracker_live` | `NoPanicWhileTracking`, `FlushCompletes`, `AcceptedWhileTracking`, `EventuallyDelivered`, `EventuallyDestroyed`, `StopReturns`, `StopFlushesQuiescent` | with other threads that allocate without pause: nothing panics while tracking is on; a thread that blocks on a full buffer goes on; if no drain goes on for ever, every registration is accepted, everything arrives and ends are announced; `stop()` returns, and what a thread outside a hook had recorded is on the connection by then |
| `trace_frames` | `TypeOK`, `LookupSucceeds`, `SameInstruction`, `RealCalls` | counting frames is right under every interleaving of shipments |
| `matching` | `TypeOK`, `Accounted`, `NoSpuriousErrors`, `LeaksAreFinal`, `EventuallyReported` | one fate for each instruction; errors other than leaks only where threads share an address or a realloc has failed |
| `lifecycle` | `TypeOK`, `DetailsArrive`, `ResolverServes`, `ShutdownEnds`, `LastOutFlushes`, `StopReturns` | every frame gets its details, once and in order; the final hand-shake ends though both sides may be blocked on a channel; the last thread out flushes; `stop()` returns whatever other handles do, unless a write fails or a hook that it has overtaken panics |
| `windows` | `TypeOK`, `CountedOnce`, `WindowsClose`, `AllRead`, `AllReported` | nothing stays in the reader's channel; every pair is in one report; a window that was reported gets nothing more; everything is reported in the end |
| `web_clients` | `TypeOK`, `NoGap`, `ResultsArrive` | a client gets the results from its insertion to its removal without a gap; a client that stops reading holds up nobody |

Where the code departs from what it says of itself (each run ends in a counterexample):

| run | statement | what happens |
|---|---|---|
| `stop_panic` | `NoPanic` | a hook that has read `ENABLE_TRACKING` before `stop()` cleared it finds no handle (line 668), or no receiver (239, 255), and panics inside the allocator |
| `stop_hang` | `RegistrationAccepted` | a registration in the channel when the gatherer stops is dropped, and its thread waits for ever |
| `timestamp` | `TimestampIsComplete` | a timestamp overtakes a full buffer that its thread has taken out but not sent; `TimestampLag` gives the exact bound |
| `frames_updated` | `MetOnce` | children are inserted at the root (`stacktrace.rs:218`), so a frame below the root is announced again by every thread that meets it |
| `exit_flush` | `ExitDiscards` | `main` returns without `stop()`; the destructor of its thread-local writer drops a handle with a count of two (`lib.rs:289`), takes the one in `GATHER` and joins the gatherer, which flushes everything and closes the connection, where the doc of `stop()` (65-67) and the repository's README say that data is discarded and the connection left half-open |

`stop_hang` states fairness (`FairSpec`), so its counterexample is not a system that merely stands still.

`exit_flush` relies on the destructor of the main thread's thread-local, which Rust runs at the exit of
the process where the platform does (Linux does). The doc is right when some other thread still has a
handle; `LastOutFlushes` says when it is not.

Other behaviours of the code that the models have. No run ends in them, but the conditions in the
passing properties are there because of the first four; each was seen as a counterexample to the
property without its condition:

- while other threads fill the data channel faster than the gatherer empties it, `drain_receiver` (`lib.rs`
  464-473) does not end, and as long as it does not, no registration is accepted, no partly full buffer is
  visited and no end of a thread announced; if it is the drain under a thread's lock (489), that thread
  waits, too. Hence `AcceptedWhileTracking`, `EventuallyDelivered` and `EventuallyDestroyed` assume `DrainsEnd`.
  `FlushCompletes` needs no such thing: a drain makes room;
- two handles dropped at the same time both read a count of 3 (`lib.rs:289`), and neither ends the
  gatherer, although the drop of the last handle is to do so (comment at 281). Hence `LastOutFlushes`
  speaks of a last thread that finds all others gone;
- `main` returns while a thread in its first hook has `GATHER` locked: `try_lock` (293) fails, the handle in
  `GATHER` keeps its sender, and the join waits for ever ("Now, the gatherer thread can exit", 294), even
  after the other thread has exited. The same condition of `LastOutFlushes` leaves it out;
- windows that pass together come from `consolidate` in one batch, and `group_by_window`
  (`dataflow.rs:280`) ignores which pair is of which window: they are reported as one, contrary to the comment
  at 260. Hence `WindowsClose` says that no window is in two reports, not that a report has one;
- a second `start()` drops the first handle with `GATHER` locked. If the main thread's own writer is the
  only other handle, that drop takes itself for the last and joins a gatherer that the writer keeps
  alive: `start()` does not return. The doc asks for one call at the beginning of `main`;
- after `stop()` and `start()`, threads that registered before keep the ended session. When one of them
  drops its handle with a count of two it takes the handle of the new session from `GATHER`;
- a connection lost while tracking aborts the program; lost during the final flush it is ignored by
  `stop()` and a panic in a thread that joins from a drop;
- a failed realloc is recorded as a move to null, a failed `alloc_zeroed` as an allocation of null;
- a pair is counted in the window of the message that carried the deallocation, not in that of the
  deallocation; `TimestampLag` bounds how far the two are apart;
- the timer of the source never decides anything: every message, the end and a run that used up its
  fuel activate it anyway.

### Bounds
- `Tracker`: two threads, `main` and one worker, are the two roles there are; the gatherer treats
  states independently except for their order in its vector, and two are enough for a removal to
  move the next one. `Capacity` 2 (1024 in the code) distinguishes an empty, a partly full and a full
  buffer; `DataCapacity` 1 (64) makes the channel full with one buffer, and with the taken buffer and
  the shared one a thread has all stages in use. `MaxEvents` 4 in the safety run gives every
  thread two full buffers in a row; `tracker_live` uses 2, which has one full buffer,
  a rest and an exit, besides the buffers of other threads (`OthersFlush`), of which there is no bound.
  Its `VIEW` (`LiveView`) leaves out `horizon` and `announced`, which are written and never read.
- `TraceFrames`: two threads, two instruction pointers, two frames per thread and three queued
  instructions: two threads that meet the same frames in different orders and under different parents.
  `Skip` 1 (2 in the code), `TraceMaxSize` 4 (64) and stacks of up to `MaxStack` 5: traces of up to two
  frames, with null pointers at and before the end, and stacks that do not fit. `IndexLimit` 4 (2^32) is
  reached when both threads have met their frames. Threads and instruction pointers are symmetric; the
  run checks invariants only.
- `Matching`: two threads, two addresses and four recorded instructions: a reallocation that races
  with the reuse of its old address takes three.
- `Lifecycle`: `main` and one worker give every pair of operations that meet, including two drops, a drop
  and a first hook, a drop and `stop()`; two sessions give a `start()` after `stop()` and after `start()`. The
  first session asks for up to two frames (`MaxFrames`) and may lose its connection (`Unreliable`), the second
  has neither. The `VIEW` (`EndView`) keeps, of a
  program that has ended, the variables that the properties look at; the step that ends it changes
  nothing else. With `AnswerCapacity` 1 (64) the resolver blocks on its second answer, with `BatchSize` 2
  (1024) there are full batches and rests.
- `Windows`: `Capacity` 1 (64) makes the reader block at its second message; `Fuel` 2 (256) is more than
  `Capacity`, as in the code, and is used up when the reader sends while the source runs. Three messages
  with times to 3 and windows of 2 give pairs on an edge and within a window, two pairs in one window,
  windows that pass one by one, together, and with the end of the stream.
- `WebClients`: two clients, of whom one may stop reading, and three results: a client that is inserted
  between two broadcasts and still gets one with others queued.

### Fairness
`Tracker`: a thread inside a hook keeps running (weak fairness of each of its steps), with strong
fairness of `Push` and `Flush`: the gatherer takes a thread's lock at every tick, and other threads compete
for the room in the channel, but mutex and channel serve everyone who goes on asking. A thread is not
obliged to allocate, exit or call `stop()`. The gatherer's own steps are weakly fair. The arms of
`select!` are chosen at random among the ready ones, and a tick comes every half second, so `RecvTick`,
`RecvRegister` and `RecvShutdown` are strongly fair; `RecvData` needs nothing, the drains of a tick empty the
channel too. That a drain ends, which brings the gatherer back to `select!`, the code does not guarantee: it
is no fairness but the assumption `DrainsEnd`, in the properties that need it. `stop()` needs it not:
it has disabled tracking, and nobody fills the channel any more. `Matching`: timely schedules an operator that has
input or whose frontier moved, so `Match` and `ReportLeaks` are weakly fair; the program and the connection
owe nothing.

`Lifecycle`: a thread goes on with what it has begun (`Continues`), the gatherer and the resolver run on;
what a thread begins is its own choice. Weak fairness is enough: nobody competes for a lock for ever.
That a registration is accepted (`Accept`) is not assumed.
`Windows`: the reader thread and the worker run on, and timely schedules every operator with something to
do; the connection may stay silent. `WebClients`: the thread and the tasks run on. Broadcasts may follow
each other for ever, but tokio's `RwLock` queues its writers fairly, hence strong fairness of `Insert` and
`Remove`; `Forward` is fair only for clients that are not in `Slow`.

Deadlock is not checked as such: every system here may really stop, after `stop()`, when the gatherer has
ended, when the program or the connection has, or when the bounded events are used up. That nobody is
stuck while there is work is what the liveness properties say.

## 5. The proofs

### `TrackerProofs`
For every set of threads, every `Main` in it, every positive `Capacity` and `DataCapacity` and every
`MaxEvents` (`TrackerAssumption`, nothing else):

| theorem | states |
|---|---|
| `TypeCorrect` | `Spec => []TypeOK` |
| `Invariance` | `Spec => []IInv` |
| `InOrderHolds` | `Spec => []InOrder` |
| `DestroyedIsCompleteHolds` | `Spec => []DestroyedIsComplete` |
| `TrackerImplementsLog` | `Spec => ImplementsLog` |

`InOrder` is not inductive: that the next buffer shipped continues what was received depends on
where the rest of the events are. The inductive invariant `IInv` is `TypeOK` with two parts. `Registry`
says who is where: a thread is started exactly when it has been announced, it is in the gatherer's
vector exactly while it is announced and not destroyed, the vector and the registration channel hold
no thread twice, and a dead thread has left its hooks. `Pipeline` says that what was received, what is
in the gatherer's hand, what is in the channel, and what is taken or buffered are consecutive runs of
1, 2, 3, ... that end at `recorded` (`Writing`, `Chain`), message by message for each thread. The fact the
second drain under the lock is there for is `Swapping`: when the gatherer is about to swap a thread's
buffer and the channel holds a message of that thread, the message was sent since the drain, so the
buffer is empty and the thread alive. A dead thread has nothing taken and nothing in the channel when
its last buffer is in hand (`Finishing`), which gives `DestroyedIsComplete`. Each part is preserved
action by action. The refinement maps `SendHand` of a dead thread to `Destroy`, other shipments to
`Deliver`, `Push` to `Record`, `RecvRegister` to `Announce`, and everything else to a stutter.

### `TrackerFlushProofs`
Under the same assumption:

| theorem | states |
|---|---|
| `TimestampLagHolds` | `Spec => []TimestampLag` |
| `NoPanicHolds` | `LiveSpec => []NoPanicWhileTracking` |
| `PipelineHoldsLogHolds` | `Spec => []PipelineHoldsLog` |
| `StopFlushes` | `Spec => StopFlushesQuiescent` |

`TimestampLag` needs, over `IInv`, what holds between the capture of the time and its announcement
(`LagInv`): each thread is still to be visited (`Pending`), or what it had recorded at the capture has been
collected but for one buffer, and then a full buffer is under way (`Lags`). The bound of one buffer
comes from the critical section: at the swap a thread has at most one buffer taken or in the channel
that was not there at the drain. `PipelineHoldsLog` concatenates the channel's buffers; that the
concatenation is the run of events between `Collected` and `HandedOver` is an induction over the channel
from `Chain`. `NoPanicWhileTracking` is inductive with the order of `start()`: the handle is
installed before tracking is enabled, and until `stop()` nothing takes it out or ends the gatherer
(`Serving`); after `stop()` tracking stays disabled (`Stopped`). It is proved with `OthersFlush` among the steps. For `StopFlushes`, the
gatherer ends only when asked by a `stop()` that has the handle (`Asking`); a thread in no hook stays out
(`Still`); and from the final drain on no message of it is in the channel and its buffer is empty once
it has been visited (`Flushed`).

### `TraceFramesProofs`
For all threads and instruction pointers, any `Skip` that a trace has room for twice, all sizes
and bounds (`TraceFramesAssumption`):

| theorem | states |
|---|---|
| `Invariant` | `Spec => []IInv` |
| `TypeCorrect` | `Spec => []TypeOK` |
| `LookupsSucceed` | `Spec => []LookupSucceeds` |
| `SameInstructions` | `Spec => []SameInstruction` |
| `CallsAreReal` | `Spec => []RealCalls` |

The gatherer numbers a thread's frames by counting them, so the invariant must say what it will have
counted when each queued instruction comes (`Announced`): the sizes its table goes through are a
function `count` on the queue that starts at the table's size, ends at the tree's, and at which every
instruction fits: a queued frame is the next one of the thread's tree, an event is about an earlier
one. `Counted` says that what has been translated has the same pointer in the tree and among the written
frames, `Nodes` that the gatherer's children are under their frames' pointers, `Treed` and `Linked` that parents
come before. What a hook appends to a tree and a queue is proved by induction over its trace
(`WalkWalked`).

### `LifecycleProofs`
For all threads and sessions, and all capacities and bounds
(`ResolverAssumption`, `LifecycleAssumption`); `Resolver` is proved as it runs in `Lifecycle`:

| theorem | states |
|---|---|
| `Invariant` | `Spec => []IInv` |
| `TypeCorrect` | `Spec => []TypeOK` |
| `CountsHandles` | `Spec => []AllCounting`: the reference count that a drop decides by is the number of handles there are, and the channels close with the last that has its senders |
| `HeldRuns` | `Spec => [][RunsWhileHeld]_vars`: a gatherer leaves its run loop only when asked to, or when no handle has its senders |
| `Serves` | `Spec => []ResolverServes` |
| `Arrive` | `Spec => []DetailsArrive` |

`SessionsInv` says of every session that its frames, in the order of their numbers, are written, then in
the batch, answered, in the resolver's hand, and requested, with the order to stop behind them
(`InOrder`). `HandlesInv` counts: a place of a handle is a writer, the variable of `start()` or `stop()`, `GATHER`,
or a drop in a thread's stack of drops, and `AllCounting` says that a session's `strong` and `senders` are the
cardinalities of the sets of such places. Each step moves, adds or removes one place; the locks
(`CloneLocks`, `ReplaceLocks`) are what keeps a clone and a replacement from seeing the same handle. `CloneLocks`
also says which hooks have a handle: none before the clone, all that register or send.

### `WindowsProofs`
For every positive `Capacity`, `Fuel` and `RoundTo` and all bounds (`ReaderAssumption`, `WindowsAssumption`);
`TraceReader` is proved as it runs in `Windows`:

| theorem | states |
|---|---|
| `Invariant` | `Spec => []IInv` |
| `TypeCorrect` | `Spec => []TypeOK` |
| `Counted` | `Spec => []CountedOnce` |
| `Closes` | `Spec => []WindowsClose` |

`WindowsClose` depends on frontiers, which are computed from what is under way. `OrderInv` lines everything
up by time: reported pairs before waiting batches, those before what `consolidate` holds and before its
capability, and all that was sent on before anything that may still come (`SentBefore`). `CountedOnce` is
about a cardinality over seven places; `PlacesInv` says that every number that was read is in exactly one
and every other in none, and each step moves numbers from one to the next.

### `MatchingProofs`, `MatchingErrorProofs`
For every finite set of threads, every set of addresses and every `MaxTime` (`MatchingAssumption`):

| theorem | states |
|---|---|
| `TypeCorrect` | `Spec => []TypeOK` |
| `Invariance` | `Spec => []IInv` |
| `AccountedHolds` | `Spec => []Accounted` |
| `LeaksAreFinalHolds` | `Spec => LeaksAreFinal` |
| `NoSpuriousErrorsHolds` | `Spec => []NoSpuriousErrors` |

`Accounted` counts fates, and a step gives an instruction a fate: what must be known is that it had none
before. `IInv` says that logs are in the order of their times and the threads' times are distinct
(`LogOrder`), that what is in the input was read and is there once (`InputOnce`), that fates are given to
what was matched only (`Known`), that no two fates are given to one (`OneFate`), and that nothing is open
after the leaks are reported (`Ending`). `LeaksAreFinal` follows from `Ending`.

That there are no spurious errors relates the stash to the heap of a program that is many instructions
ahead of it. `EInv` adds to `IInv` that the input keeps the order of each thread (`InputOrder`), and, for
an address that one thread uses and no failed realloc has touched (`Orderly`): allocations and
deallocations alternate in the log of that thread; the log ends in an allocation exactly when the
address is allocated, or is about to once a realloc is recorded (`LogIsHeap`); the stash holds an
allocation exactly when it is the latest matched instruction about the address (`StashIsLatest`). Then
the next one to be matched fits the stash, whatever the buffers of other threads do in between.

### `WebClientsProofs`
For every set of clients and any `MaxResults` (`WebAssumption`):

| theorem | states |
|---|---|
| `TypeCorrect` | `Spec => []TypeOK` |
| `NoGapHolds` | `Spec => []NoGap` |

`NoGap` needs besides the types that a client's queue is empty until it is inserted, or the stream would
not begin at its insertion, and that between broadcasts no client is left to reach (`Idle`).

### Only model-checked
The liveness properties (`ENABLED` and fairness are beyond the prover): `AcceptedWhileTracking`,
`FlushCompletes`, `EventuallyDelivered`, `EventuallyDestroyed` and `StopReturns` of the tracker,
`EventuallyReported`, `ShutdownEnds`, `LastOutFlushes` and `StopReturns` of the life cycle, `AllRead`, `AllReported` and
`ResultsArrive`. All invariants and action properties that passing runs check are also proved.
Induction over data is used where a set will do: `SetInduction` (in `TraceFramesProofs` and
`TrackerFlushProofs`) says that a set with 0 and all successors contains the natural numbers, which
follows from the well-foundedness of their order.

## 6. Not modelled

- `publish_handler`, `register_handler` and `unregister_handler` of `web.rs`: no route of `main.rs` reaches
  them.
- The start of the analysis: `construct_dataflow` polls for the receiver that the worker leaves it, and
  nothing else runs before it has one. Routing and serving (warp).
- A `start()` that cannot connect: it panics before anything is installed.
- Symbol lookup, serialisation, sockets: data and I/O. What a lost connection does to the traced program
  is in `Resolver`; to the analysis it is the end of the stream.
- Hooks that return at once (re-entrant, on an internal thread, or after the thread's destructors) have no
  effect and are no steps.
- The examples and the static page: programs that use the tracker and a page that shows the results.
