----------------------------- MODULE Lifecycle -----------------------------
(***************************************************************************)
(* How sessions begin and end (track/src/lib.rs): start() and stop() on    *)
(* the main thread, the GatherHandle in GATHER and its clones in the       *)
(* threads' writers, and Drop for GatherHandle, which ends the session     *)
(* when it takes itself for the last.  The drop is followed lock by lock:  *)
(* it closes its senders, reads the reference count, takes what GATHER     *)
(* holds (and drops that), takes the join handles and joins.               *)
(*                                                                         *)
(* The data of a session, the drains and the buffers, are the subject of   *)
(* Tracker; of a hook there is here what it does with the handles.         *)
(***************************************************************************)
EXTENDS Resolver

CONSTANTS
  Threads,    \* threads of the traced program
  Main,       \* the one that runs main
  NoSession,  \* no handle
  Nobody      \* holder of a free lock

ASSUME LifecycleAssumption ==
  /\ Main \in Threads
  /\ NoSession \notin Sessions
  /\ Nobody \notin Threads

VARIABLES
  enabled,     \* ENABLE_TRACKING
  gather,      \* GATHER: the session whose handle it holds
  gatherLock,  \* who holds the mutex of GATHER
  pc,          \* where each thread is
  writer,      \* the session whose handle a thread's writer holds
  held,        \* the session whose handle stop() or start() has in a variable
  drops,       \* the drops a thread is in, innermost first
  strong,      \* reference count of a session's join handles
  senders,     \* handles whose data and registration senders are not dropped
  joinable,    \* sessions whose join handles were not yet taken
  joinLock,    \* who holds the mutex of a session's join handles
  requested    \* sessions with a request in their shutdown channel

staticVars == <<enabled, gather, gatherLock>>
threadVars == <<pc, writer, held, drops>>
handleVars == <<strong, senders, joinable, joinLock, requested>>
vars == <<sessionVars, staticVars, threadVars, handleVars>>

DropFrame ==
  [session : Sessions,
   at : {"senders", "count", "static", "lock", "join", "release"}]

\* A thread's life, the first hook and the later ones, start() and stop().
Points ==
  {"none", "idle", "exiting", "exited"}
    \cup {"init", "cloning", "register", "waiting", "hook"}
    \cup {"install", "replace", "enable"} \cup {"stopping", "signal", "lock", "join"}

Fresh(s) == [session |-> s, at |-> "senders"]

TypeOK ==
  /\ ResolverTypeOK
  /\ enabled \in BOOLEAN
  /\ gather \in Sessions \cup {NoSession}
  /\ gatherLock \in Threads \cup {Nobody}
  /\ pc \in [Threads -> Points]
  /\ writer \in [Threads -> Sessions \cup {NoSession}]
  /\ held \in Sessions \cup {NoSession}
  /\ drops \in [Threads -> Seq(DropFrame)]
  /\ strong \in [Sessions -> Nat] /\ senders \in [Sessions -> Nat]
  /\ \A s \in Sessions : senders[s] <= strong[s]
  /\ joinable \in SUBSET Sessions
  /\ joinLock \in [Sessions -> Threads \cup {Nobody}]
  /\ requested \in SUBSET Sessions

Init ==
  /\ ResolverInit
  /\ enabled = FALSE /\ gather = NoSession /\ gatherLock = Nobody
  /\ pc = [t \in Threads |-> IF t = Main THEN "idle" ELSE "none"]
  /\ writer = [t \in Threads |-> NoSession]
  /\ held = NoSession
  /\ drops = [t \in Threads |-> << >>]
  /\ strong = [s \in Sessions |-> 0] /\ senders = [s \in Sessions |-> 0]
  /\ joinable = {}
  /\ joinLock = [s \in Sessions |-> Nobody]
  /\ requested = {}

-----------------------------------------------------------------------------
At(t, l) == Running /\ pc[t] = l
Idle(t) == At(t, "idle") /\ drops[t] = << >>
Goto(t, l) == pc' = [pc EXCEPT ![t] = l]

\* The end of a step that only moves a thread.
OnlyThreads == UNCHANGED <<sessionVars, staticVars, handleVars>>

-----------------------------------------------------------------------------
(* start() *)

StartNew ==
  /\ Idle(Main)
  /\ \E s \in Sessions :
       /\ Spawn(s) /\ \A r \in Sessions : r < s => gatherer[r] # "none"
       /\ held' = s
       /\ strong' = [strong EXCEPT ![s] = 1]
       /\ senders' = [senders EXCEPT ![s] = 1]
       /\ joinable' = joinable \cup {s}
  /\ Goto(Main, "install")
  /\ UNCHANGED <<program, staticVars, writer, drops, joinLock, requested>>

\* *GATHER.lock().unwrap() = Some(handle): a handle that was there is dropped
\* with the mutex held.
StartLock ==
  /\ At(Main, "install") /\ gatherLock = Nobody
  /\ gatherLock' = Main
  /\ drops' = IF gather = NoSession THEN drops
              ELSE [drops EXCEPT ![Main] = <<Fresh(gather)>>]
  /\ Goto(Main, "replace")
  /\ UNCHANGED <<sessionVars, enabled, gather, writer, held, handleVars>>

StartStore ==
  /\ At(Main, "replace") /\ drops[Main] = << >>
  /\ gather' = held /\ held' = NoSession
  /\ gatherLock' = Nobody
  /\ Goto(Main, "enable")
  /\ UNCHANGED <<sessionVars, enabled, writer, drops, handleVars>>

StartEnable ==
  /\ At(Main, "enable")
  /\ enabled' = TRUE
  /\ Goto(Main, "idle")
  /\ UNCHANGED <<sessionVars, gather, gatherLock, writer, held, drops, handleVars>>

-----------------------------------------------------------------------------
(* Threads *)

\* The spawn of a thread allocates on the spawning thread.
SpawnThread(t) ==
  /\ Idle(Main) /\ writer[Main] # NoSession
  /\ pc[t] = "none"
  /\ Goto(t, "idle")
  /\ UNCHANGED <<writer, held, drops>> /\ OnlyThreads

\* A hook reads ENABLE_TRACKING; from then on stop() may overtake it.
EnterHook(t) ==
  /\ Idle(t) /\ enabled
  /\ Goto(t, IF writer[t] = NoSession THEN "init" ELSE "hook")
  /\ UNCHANGED <<writer, held, drops>> /\ OnlyThreads

\* The first hook of a thread locks GATHER ...
CloneLock(t) ==
  /\ At(t, "init") /\ gatherLock = Nobody
  /\ gatherLock' = t
  /\ Goto(t, "cloning")
  /\ UNCHANGED <<sessionVars, enabled, gather, writer, held, drops, handleVars>>

\* The mutant shares the join handles without counting itself.
Uncounted(s) == strong
Counted(s) == [strong EXCEPT ![s] = @ + 1]

\* ... and clones the handle; without one the allocator panics.
Clone(t) ==
  /\ At(t, "cloning")
  /\ gatherLock' = Nobody
  /\ \/ /\ gather # NoSession
        /\ writer' = [writer EXCEPT ![t] = gather]
        /\ strong' = Counted(gather)
        /\ senders' = [senders EXCEPT ![gather] = @ + 1]
        /\ Goto(t, "register")
        /\ UNCHANGED program
     \/ /\ gather = NoSession
        /\ program' = "aborted"
        /\ UNCHANGED <<writer, strong, senders, pc>>
  /\ UNCHANGED <<gatherer, resolver, channelVars, lost, enabled, gather, held, drops,
                 joinable, joinLock, requested>>

\* A hook goes on to l after its send, which panics in the allocator when the
\* gatherer is gone.
Send(t, l) ==
  /\ \/ ~Ended(writer[t]) /\ Goto(t, l) /\ UNCHANGED program
     \/ Ended(writer[t]) /\ program' = "aborted" /\ UNCHANGED pc
  /\ UNCHANGED <<gatherer, resolver, channelVars, lost, staticVars, writer, held, drops,
                 handleVars>>

Register(t) == At(t, "register") /\ Send(t, "waiting")

\* The run loop accepts a registration; one that it leaves behind is never
\* accepted, and its thread waits for ever.
Accept(s) ==
  /\ Running /\ gatherer[s] = "run"
  /\ \E t \in Threads : pc[t] = "waiting" /\ writer[t] = s /\ Goto(t, "hook")
  /\ UNCHANGED <<writer, held, drops>> /\ OnlyThreads

\* The hook has recorded its event: the buffer has room for more, or is sent.
EndHook(t) ==
  /\ At(t, "hook")
  /\ \/ Goto(t, "idle") /\ UNCHANGED <<writer, held, drops>> /\ OnlyThreads
     \/ Send(t, "idle")

\* A thread exits: the handle in its writer is dropped.
Exit(t) ==
  /\ Idle(t)
  /\ writer' = [writer EXCEPT ![t] = NoSession]
  /\ drops' = IF writer[t] = NoSession THEN drops
              ELSE [drops EXCEPT ![t] = <<Fresh(writer[t])>>]
  /\ Goto(t, "exiting")
  /\ UNCHANGED held /\ OnlyThreads

\* With the main thread the program ends; the handle in GATHER is not dropped.
Exited(t) ==
  /\ At(t, "exiting") /\ drops[t] = << >>
  /\ program' = IF t = Main THEN "exited" ELSE program
  /\ Goto(t, "exited")
  /\ UNCHANGED <<gatherer, resolver, channelVars, lost, staticVars, writer, held,
                 drops, handleVars>>

-----------------------------------------------------------------------------
(* stop() *)

StopDisable ==
  /\ Idle(Main)
  /\ enabled' = FALSE
  /\ Goto(Main, "stopping")
  /\ UNCHANGED <<sessionVars, gather, gatherLock, writer, held, drops, handleVars>>

StopTake ==
  /\ At(Main, "stopping") /\ gatherLock = Nobody
  /\ gather' = NoSession /\ held' = gather
  /\ Goto(Main, IF gather = NoSession THEN "idle" ELSE "signal")
  /\ UNCHANGED <<sessionVars, enabled, gatherLock, writer, drops, handleVars>>

\* The mutant relies on the drop of the handle.
NotSignalled(s) == requested
Signalled(s) == requested \cup {s}

StopSignal ==
  /\ At(Main, "signal")
  /\ requested' = IF Ended(held) THEN requested ELSE Signalled(held)
  /\ Goto(Main, "lock")
  /\ UNCHANGED <<sessionVars, staticVars, writer, held, drops, strong, senders,
                 joinable, joinLock>>

\* The join handles, if nobody has taken them before, are joined with their
\* mutex held.
StopLock ==
  /\ At(Main, "lock") /\ joinLock[held] = Nobody
  /\ joinable' = joinable \ {held}
  /\ \/ /\ held \in joinable
        /\ joinLock' = [joinLock EXCEPT ![held] = Main]
        /\ Goto(Main, "join")
        /\ UNCHANGED <<held, drops>>
     \/ /\ held \notin joinable
        /\ drops' = [drops EXCEPT ![Main] = <<Fresh(held)>>]
        /\ held' = NoSession
        /\ Goto(Main, "idle")
        /\ UNCHANGED joinLock
  /\ UNCHANGED <<sessionVars, staticVars, writer, strong, senders, requested>>

Joined(s) == Ended(s) /\ resolver[s] = "done"

\* A panic of the gatherer is ignored.
StopJoin ==
  /\ At(Main, "join") /\ Joined(held)
  /\ joinLock' = [joinLock EXCEPT ![held] = Nobody]
  /\ drops' = [drops EXCEPT ![Main] = <<Fresh(held)>>]
  /\ held' = NoSession
  /\ Goto(Main, "idle")
  /\ UNCHANGED <<sessionVars, staticVars, writer, strong, senders, joinable, requested>>

-----------------------------------------------------------------------------
(* Drop for GatherHandle *)

\* Thread t is in a drop, about to do what "at" names.
DropAt(t, at) == Running /\ drops[t] # << >> /\ Head(drops[t]).at = at
Session(t) == Head(drops[t]).session
Then(t, at) == <<[Head(drops[t]) EXCEPT !.at = at]>> \o Tail(drops[t])
Continue(t, at) == drops' = [drops EXCEPT ![t] = Then(t, at)]

DropSenders(t) ==
  /\ DropAt(t, "senders")
  /\ senders' = [senders EXCEPT ![Session(t)] = @ - 1]
  /\ Continue(t, "count")
  /\ UNCHANGED <<sessionVars, staticVars, pc, writer, held, strong, joinable,
                 joinLock, requested>>

\* strong_count == 2: only GATHER is thought to be left.  The mutant forgets it.
IsOnly(s) == strong[s] = 1
IsLast(s) == strong[s] = 2

ReadCount(t) ==
  /\ DropAt(t, "count")
  /\ Continue(t, IF IsLast(Session(t)) THEN "static" ELSE "release")
  /\ UNCHANGED <<pc, writer, held>> /\ OnlyThreads

\* try_lock, to avoid a recursive lock: what GATHER holds is taken and dropped;
\* if somebody has the lock it stays.
TakeStatic(t) ==
  /\ DropAt(t, "static")
  /\ \/ /\ gatherLock = Nobody /\ gather # NoSession
        /\ gather' = NoSession
        /\ drops' = [drops EXCEPT ![t] = <<Fresh(gather)>> \o Then(t, "lock")]
     \/ /\ gatherLock # Nobody \/ gather = NoSession
        /\ Continue(t, "lock")
        /\ UNCHANGED gather
  /\ UNCHANGED <<sessionVars, enabled, gatherLock, pc, writer, held, handleVars>>

DropLock(t) ==
  LET s == Session(t) IN
  /\ DropAt(t, "lock") /\ joinLock[s] = Nobody
  /\ joinable' = joinable \ {s}
  /\ joinLock' = IF s \in joinable THEN [joinLock EXCEPT ![s] = t] ELSE joinLock
  /\ Continue(t, IF s \in joinable THEN "join" ELSE "release")
  /\ UNCHANGED <<sessionVars, staticVars, pc, writer, held, strong, senders, requested>>

\* join().unwrap(): a panic of the gatherer is passed on, out of a drop.
DropJoin(t) ==
  LET s == Session(t) IN
  /\ DropAt(t, "join")
  /\ \/ /\ gatherer[s] = "panicked"
        /\ program' = "aborted"
        /\ UNCHANGED <<drops, joinLock>>
     \/ /\ gatherer[s] = "done" /\ resolver[s] = "done"
        /\ joinLock' = [joinLock EXCEPT ![s] = Nobody]
        /\ Continue(t, "release")
        /\ UNCHANGED program
  /\ UNCHANGED <<gatherer, resolver, channelVars, lost, staticVars, pc, writer, held,
                 strong, senders, joinable, requested>>

DropRelease(t) ==
  /\ DropAt(t, "release")
  /\ strong' = [strong EXCEPT ![Session(t)] = @ - 1]
  /\ drops' = [drops EXCEPT ![t] = Tail(@)]
  /\ UNCHANGED <<sessionVars, staticVars, pc, writer, held, senders, joinable,
                 joinLock, requested>>

-----------------------------------------------------------------------------
\* The run loop ends: a request, or no sender is left.
EndRun(s) ==
  /\ Running /\ gatherer[s] = "run"
  /\ s \in requested \/ senders[s] = 0
  /\ requested' = requested \ {s}
  /\ BeginFlush(s)
  /\ UNCHANGED <<program, resolver, asked, hand, answers, batch, written, lost,
                 staticVars, threadVars, strong, senders, joinable, joinLock>>

\* A thread goes on with what it has begun.
DropNext(t) ==
  \/ DropSenders(t) \/ ReadCount(t) \/ TakeStatic(t) \/ DropLock(t)
  \/ DropJoin(t) \/ DropRelease(t)

MainNext ==
  \/ StartLock \/ StartStore \/ StartEnable
  \/ StopTake \/ StopSignal \/ StopLock \/ StopJoin

Continues(t) ==
  \/ CloneLock(t) \/ Clone(t) \/ Register(t) \/ EndHook(t)
  \/ Exited(t) \/ DropNext(t) \/ (t = Main /\ MainNext)

\* What it begins is the program's choice.
Begins(t) ==
  \/ SpawnThread(t) \/ EnterHook(t) \/ Exit(t)
  \/ t = Main /\ (StartNew \/ StopDisable)

GathererNext(s) ==
  \/ EndRun(s) \/ Accept(s)
  \/ SessionNext(s) /\ UNCHANGED <<staticVars, threadVars, handleVars>>

Next ==
  \/ \E t \in Threads : Begins(t) \/ Continues(t)
  \/ \E s \in Sessions : GathererNext(s)

Fairness ==
  /\ \A t \in Threads : WF_vars(Continues(t))
  /\ \A s \in Sessions : WF_vars(EndRun(s)) /\ SessionFairness(s)

Spec == Init /\ [][Next]_vars /\ Fairness

-----------------------------------------------------------------------------
\* The main thread begins to drop a handle of the only session there was, and
\* all other threads are gone.
LastOut(s) ==
  /\ At(Main, "exiting") /\ drops[Main] = <<Fresh(s)>>
  /\ \A t \in Threads \ {Main} : pc[t] \in {"none", "exited"}
  /\ \A r \in Sessions \ {s} : gatherer[r] = "none"

\* The last handle ends the gatherer (the comment in Drop for GatherHandle):
\* when main returns without stop() after all other threads, everything is
\* flushed before the program ends, unless the connection is lost.
LastOutFlushes ==
  (\E s \in Sessions : LastOut(s)) ~>
    \/ \E s \in Sessions : lost[s]
    \/ program = "exited" /\ \A s \in Sessions : gatherer[s] \in {"none", "done"}

\* The hook a thread is in has no gatherer to turn to: it panics.
HookFails(t) ==
  \/ pc[t] = "cloning" /\ gather = NoSession
  \/ pc[t] \in {"register", "hook"} /\ Ended(writer[t])

\* stop() returns whatever other threads do with their handles at the time, even
\* if a drop has the join handles; only an abort keeps it from returning, and
\* that takes a lost connection or a hook that stop() has overtaken.
StopReturns ==
  pc[Main] = "stopping" ~>
    \/ Idle(Main)
    \/ program = "aborted" /\ ((\E s \in Sessions : lost[s]) \/ \E t \in Threads : HookFails(t))

\* A program that exits without stop() leaves a gatherer behind whose buffers are
\* not flushed and whose connection is not closed: the doc of stop() says so.
ExitDiscards ==
  program = "exited" /\ enabled => \E s \in Sessions : gatherer[s] \notin {"none", "done"}

=============================================================================
