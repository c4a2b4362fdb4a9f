------------------------------ MODULE Tracker ------------------------------
(***************************************************************************)
(* The tracked program: its threads, each with the thread-local            *)
(* AllocationWriter that records allocation events into a buffer shared    *)
(* with the gatherer, and the gatherer thread that collects the buffers    *)
(* and writes them to the connection (track/src/lib.rs).                   *)
(*                                                                         *)
(* An event (a stack frame, an allocation or a deallocation) is named by   *)
(* its position among the events of its thread, which is all that its      *)
(* order, loss or duplication depends on.  A critical section of a tracked *)
(* thread never blocks, so it is one step that needs the lock free; the    *)
(* gatherer's critical section spans several steps (GathererHolds).        *)
(***************************************************************************)
EXTENDS Naturals, Sequences, SequencesExt

CONSTANTS
  Threads,       \* the threads of the tracked program
  Main,          \* the thread that calls start() and stop()
  Capacity,      \* TraceBuffer::capacity(), 1024
  DataCapacity,  \* bound of the data channel, 64
  MaxEvents      \* bound of the model: events a thread may record

ASSUME TrackerAssumption ==
  /\ Main \in Threads
  /\ Capacity \in Nat \ {0}
  /\ DataCapacity \in Nat \ {0}
  /\ MaxEvents \in Nat

VARIABLES
  enabled,       \* ENABLE_TRACKING
  gather,        \* is the GATHER handle present?
  pc,            \* where each thread is
  started,       \* threads whose registration was accepted (writer is Ready)
  dead,          \* threads whose ThreadState is marked dead
  recorded,      \* number of events each thread has pushed
  buffer,        \* ThreadState.buffer of each thread
  taken,         \* full buffer a thread took out and has not sent yet
  data,          \* data channel: full buffers
  registration,  \* registration channel: threads
  shutdown,      \* is there a shutdown request in its channel?
  gpc,           \* where the gatherer is
  states,        \* Gatherer.buffers: accepted, not yet removed threads
  index,         \* handle_buffers: position in states
  hand,          \* handle_buffers: contents swapped out of a ThreadState
  handDead,      \* handle_buffers: the dead flag read with them
  final,         \* has the run loop ended?
  horizon,       \* events recorded when next_timestamp was captured
  received,      \* events of each thread written to the connection
  phase,         \* CreateThread / DestroyThread written for each thread
  announced      \* events recorded before the last announced timestamp

controlVars == <<enabled, gather>>
writerVars == <<pc, recorded, buffer, taken>>
gathererVars == <<gpc, states, index, hand, handDead, final, horizon>>
wireVars == <<received, phase, announced>>
vars == <<controlVars, writerVars, started, dead, data, registration, shutdown,
          gathererVars, wireVars>>

ThreadPc ==
  {"start", "installed",                     \* start(), on Main
   "idle",                                   \* outside the allocator hooks
   "init", "registering", "waiting",         \* writer(): None becomes Ready
   "hook", "flush",                          \* pushing events
   "stopping", "signalling", "joining",      \* stop(), on Main
   "exited",
   "noGather", "sendFailed"}                 \* died in an unwrap()

GathererPc ==
  {"boot", "selfWait", "select", "drain", "capture", "visit", "lockedDrain", "swap",
   "send", "stamp", "close", "done"}

Batch == [thread : Threads, buffer : Seq(Nat)]

TypeOK ==
  /\ enabled \in BOOLEAN /\ gather \in BOOLEAN
  /\ pc \in [Threads -> ThreadPc]
  /\ started \in SUBSET Threads /\ dead \in SUBSET Threads
  /\ recorded \in [Threads -> Nat]
  /\ buffer \in [Threads -> Seq(Nat)] /\ taken \in [Threads -> Seq(Nat)]
  /\ \A t \in Threads : Len(buffer[t]) < Capacity
  /\ data \in Seq(Batch) /\ Len(data) <= DataCapacity
  /\ registration \in Seq(Threads)
  /\ shutdown \in BOOLEAN
  /\ gpc \in GathererPc
  /\ states \in Seq(Threads)
  /\ index \in 1 .. Len(states) + 1
  /\ gpc \in {"lockedDrain", "swap", "send"} => index <= Len(states)
  /\ hand \in Seq(Nat) /\ handDead \in BOOLEAN
  /\ final \in BOOLEAN
  /\ horizon \in [Threads -> Nat]
  /\ received \in [Threads -> Seq(Nat)]
  /\ phase \in [Threads -> {"unknown", "live", "destroyed"}]
  /\ announced \in [Threads -> Nat]

Init ==
  /\ enabled = FALSE /\ gather = FALSE
  /\ pc = [t \in Threads |-> IF t = Main THEN "start" ELSE "idle"]
  /\ started = {} /\ dead = {}
  /\ recorded = [t \in Threads |-> 0]
  /\ buffer = [t \in Threads |-> << >>]
  /\ taken = [t \in Threads |-> << >>]
  /\ data = << >> /\ registration = << >> /\ shutdown = FALSE
  /\ gpc = "boot"
  /\ states = << >> /\ index = 1
  /\ hand = << >> /\ handDead = FALSE
  /\ final = FALSE
  /\ horizon = [t \in Threads |-> 0]
  /\ received = [t \in Threads |-> << >>]
  /\ phase = [t \in Threads |-> "unknown"]
  /\ announced = [t \in Threads |-> 0]

-----------------------------------------------------------------------------
(* Tracked threads *)

Goto(t, l) == pc' = [pc EXCEPT ![t] = l]

\* The gatherer holds the mutex of t's ThreadState.
GathererHolds(t) ==
  /\ gpc \in {"lockedDrain", "swap"}
  /\ states[index] = t

\* One hook pushes one or more events: the new stack frames of its trace,
\* then the allocation or deallocation (both, for a realloc).
AfterPush(t, n) == {"idle"} \cup IF n < MaxEvents THEN {"hook"} ELSE {}

\* start(): the new handle goes into GATHER before tracking is enabled.
StartInstall ==
  /\ pc[Main] = "start"
  /\ gather' = TRUE
  /\ Goto(Main, "installed")
  /\ UNCHANGED <<enabled, recorded, buffer, taken, started, dead, data,
                 registration, shutdown, gathererVars, wireVars>>

\* Enabled only when the handle is there: a failed start() panics.
MayEnableEarly == pc[Main] \in {"start", "installed"}  \* mutant of MayEnable
MayEnable == pc[Main] = "installed"

StartEnable ==
  /\ MayEnable
  /\ enabled' = TRUE
  /\ Goto(Main, "idle")
  /\ UNCHANGED <<gather, recorded, buffer, taken, started, dead, data,
                 registration, shutdown, gathererVars, wireVars>>

\* start() is the first call in main: another thread runs when an allocation
\* of its spawn has been recorded by Main.
Spawned(t) == t = Main \/ recorded[Main] > 0

\* An allocator hook calls writer(), which reads ENABLE_TRACKING once.
EnterHook(t) ==
  /\ pc[t] = "idle" /\ Spawned(t) /\ enabled
  /\ recorded[t] < MaxEvents
  /\ Goto(t, IF t \in started THEN "hook" ELSE "init")
  /\ UNCHANGED <<controlVars, recorded, buffer, taken, started, dead, data,
                 registration, shutdown, gathererVars, wireVars>>

\* GATHER.lock().unwrap().clone().unwrap()
CloneHandle(t) ==
  /\ pc[t] = "init"
  /\ Goto(t, IF gather THEN "registering" ELSE "noGather")
  /\ UNCHANGED <<controlVars, recorded, buffer, taken, started, dead, data,
                 registration, shutdown, gathererVars, wireVars>>

\* The registration channel is unbounded; sending fails once the gatherer
\* has dropped its receivers.
SendRegister(t) ==
  /\ pc[t] = "registering"
  /\ \/ /\ gpc = "done"
        /\ Goto(t, "sendFailed")
        /\ UNCHANGED registration
     \/ /\ gpc # "done"
        /\ Goto(t, "waiting")
        /\ registration' = Append(registration, t)
  /\ UNCHANGED <<controlVars, recorded, buffer, taken, started, dead, data,
                 shutdown, gathererVars, wireVars>>

AwaitStart(t) ==
  /\ pc[t] = "waiting" /\ t \in started
  /\ Goto(t, "hook")
  /\ UNCHANGED <<controlVars, recorded, buffer, taken, started, dead, data,
                 registration, shutdown, gathererVars, wireVars>>

\* push releases its lock before it flushes: no thread blocks with it held.
KeepsLock(t) == pc[t] = "flush"     \* mutant of HoldsLock
HoldsLock(t) == FALSE

\* TraceBuffer::push, up to the release of the lock.
Push(t) ==
  LET event == recorded[t] + 1
      filled == Append(buffer[t], event)
  IN
  /\ pc[t] = "hook" /\ ~GathererHolds(t)
  /\ recorded' = [recorded EXCEPT ![t] = event]
  /\ \/ /\ Len(filled) = Capacity
        /\ taken' = [taken EXCEPT ![t] = filled]
        /\ buffer' = [buffer EXCEPT ![t] = << >>]
        /\ Goto(t, "flush")
     \/ /\ Len(filled) < Capacity
        /\ buffer' = [buffer EXCEPT ![t] = filled]
        /\ \E l \in AfterPush(t, event) : Goto(t, l)
        /\ UNCHANGED taken
  /\ UNCHANGED <<controlVars, started, dead, data, registration, shutdown,
                 gathererVars, wireVars>>

\* Blocks while the data channel is full.  The mutant gives up instead.
TrySend(t) ==
  data' = IF Len(data) < DataCapacity
          THEN Append(data, [thread |-> t, buffer |-> taken[t]]) ELSE data
SendData(t) ==
  /\ Len(data) < DataCapacity
  /\ data' = Append(data, [thread |-> t, buffer |-> taken[t]])

\* GatherHandle::flush
Flush(t) ==
  /\ pc[t] = "flush"
  /\ \/ /\ gpc = "done"
        /\ Goto(t, "sendFailed")
        /\ UNCHANGED <<data, taken>>
     \/ /\ gpc # "done"
        /\ SendData(t)
        /\ taken' = [taken EXCEPT ![t] = << >>]
        /\ \E l \in AfterPush(t, recorded[t]) : Goto(t, l)
  /\ UNCHANGED <<controlVars, recorded, buffer, started, dead, registration,
                 shutdown, gathererVars, wireVars>>

\* The threads outside Threads, as many as there are, flush full buffers for
\* as long as they like.  Nobody follows their events: the message is empty.
OthersFlush ==
  /\ enabled /\ recorded[Main] > 0
  /\ Len(data) < DataCapacity
  /\ data' = Append(data, [thread |-> Main, buffer |-> << >>])
  /\ UNCHANGED <<controlVars, writerVars, started, dead, registration,
                 shutdown, gathererVars, wireVars>>

\* A thread with a writer exits: AllocationWriter::drop.  Its GatherHandle is
\* dropped too, but is never the last: Main and GATHER (or stop()) hold theirs.
Exit(t) ==
  /\ t # Main /\ pc[t] = "idle" /\ t \in started
  /\ ~GathererHolds(t)
  /\ dead' = dead \cup {t}
  /\ Goto(t, "exited")
  /\ UNCHANGED <<controlVars, recorded, buffer, taken, started, data,
                 registration, shutdown, gathererVars, wireVars>>

-----------------------------------------------------------------------------
(* stop(), called by Main *)

StopDisable ==
  /\ pc[Main] = "idle"
  /\ enabled' = FALSE
  /\ Goto(Main, "stopping")
  /\ UNCHANGED <<gather, recorded, buffer, taken, started, dead, data,
                 registration, shutdown, gathererVars, wireVars>>

StopTake ==
  /\ pc[Main] = "stopping"
  /\ gather' = FALSE
  /\ Goto(Main, IF gather THEN "signalling" ELSE "idle")
  /\ UNCHANGED <<enabled, recorded, buffer, taken, started, dead, data,
                 registration, shutdown, gathererVars, wireVars>>

\* GatherHandle::shutdown: the request, then the join.
StopSignal ==
  /\ pc[Main] = "signalling"
  /\ shutdown' = (gpc # "done")
  /\ Goto(Main, "joining")
  /\ UNCHANGED <<controlVars, recorded, buffer, taken, started, dead, data,
                 registration, gathererVars, wireVars>>

StopJoin ==
  /\ pc[Main] = "joining" /\ gpc = "done"
  /\ Goto(Main, "idle")
  /\ UNCHANGED <<controlVars, recorded, buffer, taken, started, dead, data,
                 registration, shutdown, gathererVars, wireVars>>

-----------------------------------------------------------------------------
(* The gatherer thread *)

\* send_buffer: an empty buffer writes nothing.
Ship(t, b) == received' = [received EXCEPT ![t] = @ \o b]

\* handle_flush for the oldest buffer in the data channel.
ShipHead ==
  /\ data # << >>
  /\ Ship(Head(data).thread, Head(data).buffer)
  /\ data' = Tail(data)

\* drain_receiver: one message, or on to the next step when there is none.
DrainReceiver(next) ==
  \/ ShipHead /\ UNCHANGED gpc
  \/ data = << >> /\ gpc' = next /\ UNCHANGED <<data, received>>

\* is_internal_thread: the gatherer is named with the internal prefix.
NotInternal == FALSE                \* mutant of IsInternalThread
IsInternalThread == TRUE

\* The runtime allocates while bootstrapping the gatherer thread, possibly
\* after tracking was enabled: a thread that is not internal would register
\* with itself and wait.
GathererBoot ==
  /\ gpc = "boot"
  /\ gpc' = IF enabled /\ ~IsInternalThread THEN "selfWait" ELSE "select"
  /\ UNCHANGED <<controlVars, writerVars, started, dead, data, registration,
                 shutdown, states, index, hand, handDead, final, horizon,
                 wireVars>>

\* The arms of the select! in run().
RecvTick ==
  /\ gpc = "select"
  /\ gpc' = "drain"
  /\ UNCHANGED <<controlVars, writerVars, started, dead, data, registration,
                 shutdown, states, index, hand, handDead, final, horizon,
                 wireVars>>

RecvData ==
  /\ gpc = "select"
  /\ ShipHead
  /\ UNCHANGED <<controlVars, writerVars, started, dead, registration,
                 shutdown, gathererVars, phase, announced>>

\* handle_register.  The condvar's mutex is held to the end, so the thread
\* cannot run on before its CreateThread is written.
RecvRegister ==
  LET t == Head(registration) IN
  /\ gpc = "select"
  /\ registration # << >>
  /\ states' = Append(states, t)
  /\ started' = started \cup {t}
  /\ phase' = [phase EXCEPT ![t] = "live"]
  /\ registration' = Tail(registration)
  /\ UNCHANGED <<controlVars, writerVars, dead, data, shutdown, gpc, index,
                 hand, handDead, final, horizon, received, announced>>

ClosesAtOnce == "close"             \* mutant of AfterShutdown
AfterShutdown == "drain"

\* The run loop ends; Drop for Gatherer begins with handle_buffers.
RecvShutdown ==
  /\ gpc = "select" /\ shutdown
  /\ shutdown' = FALSE
  /\ final' = TRUE
  /\ gpc' = AfterShutdown
  /\ UNCHANGED <<controlVars, writerVars, started, dead, data, registration,
                 states, index, hand, handDead, horizon, wireVars>>

\* handle_buffers: the first drain_receiver, then the time is captured.
Drain ==
  /\ gpc = "drain"
  /\ DrainReceiver("capture")
  /\ UNCHANGED <<controlVars, writerVars, started, dead, registration,
                 shutdown, states, index, hand, handDead, final, horizon,
                 phase, announced>>

Capture ==
  /\ gpc = "capture"
  /\ horizon' = recorded
  /\ index' = 1
  /\ gpc' = "visit"
  /\ UNCHANGED <<controlVars, writerVars, started, dead, data, registration,
                 shutdown, states, hand, handDead, final, wireVars>>

MissesLast == index < Len(states)   \* mutant of MoreStates
MoreStates == index <= Len(states)

\* The next ThreadState is locked, or there is none left.
Visit ==
  /\ gpc = "visit"
  /\ \/ MoreStates /\ ~HoldsLock(states[index]) /\ gpc' = "lockedDrain"
     \/ ~MoreStates /\ gpc' = "stamp"
  /\ UNCHANGED <<controlVars, writerVars, started, dead, data, registration,
                 shutdown, states, index, hand, handDead, final, horizon,
                 wireVars>>

\* Mutant of LockedDrain: the second drain is taken for redundant.
SkipLockedDrain ==
  /\ gpc = "lockedDrain"
  /\ gpc' = "swap"
  /\ UNCHANGED <<controlVars, writerVars, started, dead, data, registration,
                 shutdown, states, index, hand, handDead, final, horizon,
                 wireVars>>

\* The second drain_receiver, with the lock held.
LockedDrain ==
  /\ gpc = "lockedDrain"
  /\ DrainReceiver("swap")
  /\ UNCHANGED <<controlVars, writerVars, started, dead, registration,
                 shutdown, states, index, hand, handDead, final, horizon,
                 phase, announced>>

Copied(t) == buffer                 \* mutant of Emptied
Emptied(t) == [buffer EXCEPT ![t] = << >>]

\* The buffers are swapped, the dead flag is read, the lock is released.
Swap ==
  LET t == states[index] IN
  /\ gpc = "swap"
  /\ hand' = buffer[t]
  /\ buffer' = Emptied(t)
  /\ handDead' = (t \in dead)
  /\ gpc' = "send"
  /\ UNCHANGED <<controlVars, pc, recorded, taken, started, dead, data,
                 registration, shutdown, states, index, final, horizon,
                 wireVars>>

\* Is the thread whose buffer is in hand to be removed?  Mutants read the
\* flag again outside the lock, or take an empty buffer for no news.
ReadsDeadLate == states[index] \in dead
SkipsEmpty == handDead /\ hand # << >>
FoundDead == handDead

\* A removal moves the next thread to this index.
AlwaysAdvance(removed) == index + 1 \* mutant of NextIndex
NextIndex(removed) == IF removed THEN index ELSE index + 1

\* send_buffer outside the lock, then the dead thread's removal.
SendHand ==
  LET t == states[index] IN
  /\ gpc = "send"
  /\ Ship(t, hand)
  /\ hand' = << >> /\ handDead' = FALSE
  /\ index' = NextIndex(FoundDead)
  /\ \/ /\ FoundDead
        /\ states' = RemoveAt(states, index)
        /\ phase' = [phase EXCEPT ![t] = "destroyed"]
     \/ /\ ~FoundDead
        /\ UNCHANGED <<states, phase>>
  /\ gpc' = "visit"
  /\ UNCHANGED <<controlVars, writerVars, started, dead, data, registration,
                 shutdown, final, horizon, announced>>

StampsNow == recorded               \* mutant of NextTimestamp
NextTimestamp == horizon

ReturnsToLoop == "select"           \* mutant of AfterBuffers
AfterBuffers == IF final THEN "close" ELSE "select"

\* TraceProtocol::Timestamp(next_timestamp); handle_buffers returns.
Stamp ==
  /\ gpc = "stamp"
  /\ announced' = NextTimestamp
  /\ index' = 1
  /\ gpc' = AfterBuffers
  /\ UNCHANGED <<controlVars, writerVars, started, dead, data, registration,
                 shutdown, states, hand, handDead, final, horizon, received,
                 phase>>

\* The gatherer's fields are dropped: what its channels hold is discarded.
Close ==
  /\ gpc = "close"
  /\ data' = << >> /\ registration' = << >> /\ shutdown' = FALSE
  /\ gpc' = "done"
  /\ UNCHANGED <<controlVars, writerVars, started, dead, states, index, hand,
                 handDead, final, horizon, wireVars>>

-----------------------------------------------------------------------------
ThreadNext(t) ==
  \/ EnterHook(t) \/ CloneHandle(t) \/ SendRegister(t) \/ AwaitStart(t)
  \/ Push(t) \/ Flush(t) \/ Exit(t)

GathererNext ==
  \/ GathererBoot \/ RecvTick \/ RecvData \/ RecvRegister
  \/ Drain \/ Capture \/ Visit \/ LockedDrain \/ Swap \/ SendHand \/ Stamp

\* The program while it does not call stop().
RunNext ==
  \/ StartInstall \/ StartEnable
  \/ \E t \in Threads : ThreadNext(t)
  \/ GathererNext

StopNext ==
  \/ StopDisable \/ StopTake \/ StopSignal \/ StopJoin
  \/ RecvShutdown \/ Close

Next == RunNext \/ StopNext

Spec == Init /\ [][Next]_vars

(***************************************************************************)
(* Fairness.  A thread inside a hook keeps running, and so does the        *)
(* gatherer; a thread decides for itself whether to allocate again, to     *)
(* exit or to call stop().  Threads compete with the gatherer for a mutex  *)
(* and with each other for room in the channel: one that finds what it     *)
(* waits for again and again gets it, hence strong fairness of Push and    *)
(* Flush.  select! picks at random among its ready arms, so an arm that is *)
(* ready again and again is taken.  Nothing says that a drain ends: that   *)
(* is an assumption of its own (DrainsEnd).                                *)
(***************************************************************************)
ThreadFairness(t) ==
  /\ WF_vars(CloneHandle(t)) /\ WF_vars(SendRegister(t))
  /\ WF_vars(AwaitStart(t))
  /\ SF_vars(Push(t)) /\ SF_vars(Flush(t))

GathererInternal ==
  \/ GathererBoot \/ Drain \/ Capture \/ Visit \/ LockedDrain
  \/ Swap \/ SendHand \/ Stamp \/ Close

Fairness ==
  /\ \A t \in Threads : ThreadFairness(t)
  /\ WF_vars(StartInstall) /\ WF_vars(StartEnable)
  /\ WF_vars(StopTake) /\ WF_vars(StopSignal) /\ WF_vars(StopJoin)
  /\ WF_vars(GathererInternal)
  /\ SF_vars(RecvTick) /\ SF_vars(RecvRegister) /\ SF_vars(RecvShutdown)

FairSpec == Spec /\ Fairness

\* With other threads that go on allocating.
LiveSpec == Init /\ [][Next \/ OthersFlush]_vars /\ Fairness

-----------------------------------------------------------------------------
(* What the tracker promises. *)

Log == INSTANCE EventLog WITH delivered <- received

\* The tracker implements the log: what is written for a thread, and when
\* its creation and termination are announced (handle_buffers, handle_flush,
\* handle_register), is a behaviour of the buffer-free EventLog.
ImplementsLog == Log!Spec

\* The connection carries the events of each thread in the order they were
\* recorded, each exactly once, whichever way its buffers travel: pushed
\* through the data channel when full, or swapped out by the gatherer.
InOrder ==
  \A t \in Threads : received[t] = Log!FirstEvents(Len(received[t]))

\* The events of t that wait in the data channel, in channel order.
InChannel(t) ==
  LET upTo[n \in 0 .. Len(data)] ==
        IF n = 0 THEN << >>
        ELSE IF data[n].thread = t THEN upTo[n - 1] \o data[n].buffer ELSE upTo[n - 1]
  IN  upTo[Len(data)]

InHand(t) == IF gpc = "send" /\ states[index] = t THEN hand ELSE << >>

\* No event is lost, duplicated or overtaken on its way: while the gatherer
\* lives, the stages an event passes through hold, one after the other,
\* exactly the events the thread has recorded.
PipelineHoldsLog ==
  gpc # "done" =>
    \A t \in Threads :
      received[t] \o InHand(t) \o InChannel(t) \o taken[t] \o buffer[t]
        = Log!FirstEvents(recorded[t])

\* DestroyThread is the last word about a thread (handle_buffers, the dead
\* branch): by then everything the thread recorded has been written.
DestroyedIsComplete ==
  \A t \in Threads :
    phase[t] = "destroyed" => Len(received[t]) = recorded[t]

\* An announced timestamp may be ahead of the data of a thread, but only by
\* the one full buffer the thread had taken out and not yet handed over.
TimestampLag ==
  \A t \in Threads :
    announced[t] > Len(received[t]) =>
      /\ announced[t] <= Len(received[t]) + Capacity
      /\ gpc # "done" => \/ taken[t] # << >>
                         \/ \E i \in DOMAIN data : data[i].thread = t

\* What TraceProtocol::Timestamp says of itself: all data up to this point
\* has been shipped.  It does not hold: a full buffer may be under way.
TimestampIsComplete == \A t \in Threads : announced[t] <= Len(received[t])

\* No hook dies in an unwrap(): GATHER is present and the gatherer's receivers
\* are alive whenever a thread uses them.
NoPanic == \A t \in Threads : pc[t] \notin {"noGather", "sendFailed"}

\* No hook dies in an unwrap() from start() to stop(): the handle is installed
\* before tracking is enabled, and what a hook uses stays until stop().
NoPanicWhileTracking == enabled => NoPanic

\* A thread that has to hand over a full buffer does not block for ever,
\* although the channel is bounded, other threads fill it too, and the gatherer
\* takes that thread's lock; a drain that does not end goes on making room.
FlushCompletes ==
  \A t \in Threads : pc[t] = "flush" ~> pc[t] # "flush"

\* The assumption that drain_receiver returns.  It loops until it finds the
\* channel empty, which the code does not bound: threads that fill buffers
\* faster than the gatherer writes them keep it from its other work for ever.
DrainsEnd == []<>(gpc \notin {"drain", "lockedDrain"})

\* stop() is not called, and drains end although other threads go on.
Undisturbed == <>[]enabled /\ DrainsEnd

\* A thread that registers is accepted: it does not wait in its first
\* allocation for ever (GatherHandle::register).
RegistrationAccepted ==
  \A t \in Threads : pc[t] = "waiting" ~> pc[t] = "hook"

\* It is accepted if drains end and nobody calls stop(): neither the traffic of
\* other threads nor the gatherer's own allocations keep it waiting.
AcceptedWhileTracking == Undisturbed => RegistrationAccepted

\* Whatever a thread has recorded reaches the connection, full buffer or not,
\* if drains end: the thread itself need not allocate again.
EventuallyDelivered ==
  Undisturbed =>
    \A t \in Threads : \A n \in 1 .. MaxEvents :
      recorded[t] >= n ~> Len(received[t]) >= n

\* The termination of a traced thread is announced, if drains end.
EventuallyDestroyed ==
  Undisturbed => \A t \in Threads : t \in dead ~> phase[t] = "destroyed"

\* stop() returns, whatever the other threads are doing.
StopReturns == pc[Main] = "joining" ~> pc[Main] = "idle"

\* Not inside a hook: no critical section, no buffer on its way.
Quiescent(t) == pc[t] \in {"stopping", "idle", "exited"}

\* A thread that is not inside a hook when stop() is called, the caller
\* included, has all of its events on the connection when stop() returns
\* (the doc of stop(): "flush all pending data").
StopFlushesQuiescent ==
  \A t \in Threads :
    [](pc[Main] = "stopping" /\ gather /\ Quiescent(t)
         => [](gpc = "done" => Len(received[t]) = recorded[t]))

=============================================================================
