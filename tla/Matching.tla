------------------------------ MODULE Matching ------------------------------
(***************************************************************************)
(* The analysis of a trace (analyze/src/dataflow.rs): the trace reader     *)
(* takes what the tracker has written and the "Match ptr" operator pairs   *)
(* each deallocation with the allocation it frees, by pointer, reporting   *)
(* what does not fit.  All instructions for a pointer go to one worker, in *)
(* the order they arrived, so one operator stands for all of them.         *)
(*                                                                         *)
(* The tracked program is its heap and the allocator hooks of its threads  *)
(* (track/src/lib.rs).  Of the tracker, only what Tracker shows is left:   *)
(* the events of one thread arrive in order, those of several threads in   *)
(* any interleaving.  The time windows the pairs are counted in are not    *)
(* part of this module.                                                    *)
(***************************************************************************)
EXTENDS Naturals, Sequences, FiniteSets

CONSTANTS
  Threads,    \* threads of the tracked program
  Ptrs,       \* addresses
  Null,       \* the null pointer, what a failed allocation returns
  MaxTime     \* bound of the model: instructions recorded

ASSUME MatchingAssumption ==
  MaxTime \in Nat /\ Null \notin Ptrs /\ IsFiniteSet(Threads)

VARIABLES
  clock,         \* instructions recorded so far: the time of the last one
  live,          \* allocated addresses
  moving,        \* threads between the real realloc and its record: old, new
  log,           \* the instructions recorded by each thread
  read,          \* how many of them the trace reader has read
  open,          \* does the reader still hold its capability?
  input,         \* instructions on their way to the operator
  stash,         \* allocations not yet matched
  leakCap,       \* does the operator still hold its leak capability?
  pairs,         \* MatchEvent::Pair: allocation, deallocation
  doubleAllocs,  \* AllocError::DoubleAlloc: old, new
  doubleFrees,   \* AllocError::DoubleFree
  leaks          \* AllocError::Leak

programVars == <<clock, live, moving, log>>
readerVars == <<read, open>>
outputVars == <<leakCap, pairs, doubleAllocs, doubleFrees, leaks>>
vars == <<programVars, readerVars, input, stash, outputVars>>

Instruction ==
  [op : {"alloc", "free"}, ptr : Ptrs \cup {Null}, thread : Threads, time : 1 .. MaxTime]

TypeOK ==
  /\ clock \in 0 .. MaxTime /\ live \in SUBSET Ptrs
  /\ \A t \in DOMAIN moving : t \in Threads /\ moving[t] \in Ptrs \X (Ptrs \cup {Null})
  /\ log \in [Threads -> Seq(Instruction)]
  /\ read \in [Threads -> Nat] /\ \A t \in Threads : read[t] <= Len(log[t])
  /\ open \in BOOLEAN
  /\ input \in Seq(Instruction)
  /\ stash \in SUBSET Instruction /\ leakCap \in BOOLEAN
  /\ \A e, f \in stash : e.ptr = f.ptr => e = f
  /\ pairs \subseteq [alloc : Instruction, free : Instruction]
  /\ doubleAllocs \subseteq [old : Instruction, new : Instruction]
  /\ doubleFrees \in SUBSET Instruction /\ leaks \in SUBSET Instruction

Init ==
  /\ clock = 0 /\ live = {} /\ moving = << >>
  /\ log = [t \in Threads |-> << >>]
  /\ read = [t \in Threads |-> 0]
  /\ open = TRUE
  /\ input = << >> /\ stash = {} /\ leakCap = TRUE
  /\ pairs = {} /\ doubleAllocs = {} /\ doubleFrees = {} /\ leaks = {}

-----------------------------------------------------------------------------
(* The tracked program *)

\* Thread t records instructions, given as a sequence of op and pointer.
Record(t, instrs) ==
  /\ clock + Len(instrs) <= MaxTime
  /\ log' = [log EXCEPT ![t] = @ \o
       [i \in 1 .. Len(instrs) |->
          [op |-> instrs[i][1], ptr |-> instrs[i][2], thread |-> t, time |-> clock + i]]]
  /\ clock' = clock + Len(instrs)

Busy(t) == t \in DOMAIN moving

\* What a realloc has allocated, or kept when it failed, belongs to nobody until
\* it returns.
InCall(t) == IF moving[t][2] = Null THEN moving[t][1] ELSE moving[t][2]
Owned == live \ {InCall(t) : t \in DOMAIN moving}

\* The memory is allocated, then recorded; nobody else can have it before.
Alloc(t) ==
  \E p \in Ptrs \ live :
    /\ ~Busy(t)
    /\ live' = live \cup {p}
    /\ Record(t, << <<"alloc", p>> >>)
    /\ UNCHANGED <<moving, readerVars, input, stash, outputVars>>

\* alloc_zeroed records what it returns, be it null; alloc records no failure.
AllocZeroedFails(t) ==
  /\ ~Busy(t)
  /\ Record(t, << <<"alloc", Null>> >>)
  /\ UNCHANGED <<live, moving, readerVars, input, stash, outputVars>>

\* A deallocation is recorded, then the memory is given back.
Dealloc(t) ==
  \E p \in Owned :
    /\ ~Busy(t)
    /\ live' = live \ {p}
    /\ Record(t, << <<"free", p>> >>)
    /\ UNCHANGED <<moving, readerVars, input, stash, outputVars>>

\* A realloc has given back the old memory, and others may get it, before
\* anything of it is recorded.  One that fails returns null and keeps it.
Realloc(t) ==
  \E p \in Owned : \E q \in (Ptrs \ live) \cup {p, Null} :
    /\ ~Busy(t)
    /\ live' = IF q = Null THEN live ELSE (live \ {p}) \cup {q}
    /\ moving' = [u \in DOMAIN moving \cup {t} |-> IF u = t THEN <<p, q>> ELSE moving[u]]
    /\ UNCHANGED <<clock, log, readerVars, input, stash, outputVars>>

\* handle_realloc: a deallocation, then an allocation, even if the realloc has
\* failed.  The mutant swaps them.
AllocFirst(p, q) == << <<"alloc", q>>, <<"free", p>> >>
FreeFirst(p, q) == << <<"free", p>>, <<"alloc", q>> >>

RecordRealloc(t) ==
  /\ Busy(t)
  /\ Record(t, FreeFirst(moving[t][1], moving[t][2]))
  /\ moving' = [u \in DOMAIN moving \ {t} |-> moving[u]]
  /\ UNCHANGED <<live, readerVars, input, stash, outputVars>>

-----------------------------------------------------------------------------
(* The trace reader *)

\* TraceProtocol::Instructions: what one message holds is sent on.
ReadInstructions(t) ==
  \E n \in read[t] + 1 .. Len(log[t]) :
    /\ open
    /\ read' = [read EXCEPT ![t] = n]
    /\ input' = input \o SubSeq(log[t], read[t] + 1, n)
    /\ UNCHANGED <<programVars, open, stash, outputVars>>

\* The connection is closed: the reader drops its capability.
ReadEnd ==
  /\ open
  /\ open' = FALSE
  /\ UNCHANGED <<programVars, read, input, stash, outputVars>>

-----------------------------------------------------------------------------
(* Match ptr *)

Stashed(p) == {e \in stash : e.ptr = p}

\* stash.insert: what was there is replaced, and reported.  The mutant keeps it.
Added(e) == stash \cup {e}
Inserted(e) == (stash \ Stashed(e.ptr)) \cup {e}

MatchAlloc(e) ==
  /\ e.op = "alloc"
  /\ stash' = Inserted(e)
  /\ doubleAllocs' = doubleAllocs \cup {[old |-> old, new |-> e] : old \in Stashed(e.ptr)}
  /\ UNCHANGED <<pairs, doubleFrees>>

\* stash.remove; the mutant forgets to remove.
Keep(p) == stash
Without(p) == stash \ Stashed(p)

MatchDealloc(e) ==
  /\ e.op = "free"
  /\ stash' = Without(e.ptr)
  /\ pairs' = pairs \cup {[alloc |-> a, free |-> e] : a \in Stashed(e.ptr)}
  /\ doubleFrees' = doubleFrees \cup IF Stashed(e.ptr) = {} THEN {e} ELSE {}
  /\ UNCHANGED doubleAllocs

Match ==
  /\ input # << >>
  /\ MatchAlloc(Head(input)) \/ MatchDealloc(Head(input))
  /\ input' = Tail(input)
  /\ UNCHANGED <<programVars, readerVars, leakCap, leaks>>

\* Is the frontier empty?  One mutant takes an idle input for its end, the
\* other looks only while there is input.
Idle == input = << >>
InLoop == input # << >> /\ ~open
Exhausted == input = << >> /\ ~open

\* The input is exhausted: what is still stashed has leaked.
ReportLeaks ==
  /\ Exhausted /\ leakCap
  /\ leakCap' = FALSE
  /\ leaks' = stash
  /\ stash' = {}
  /\ UNCHANGED <<programVars, readerVars, input, pairs, doubleAllocs, doubleFrees>>

ProgramNext ==
  \E t \in Threads :
    \/ Alloc(t) \/ AllocZeroedFails(t) \/ Dealloc(t)
    \/ Realloc(t) \/ RecordRealloc(t)

ReaderNext ==
  ReadEnd \/ \E t \in Threads : ReadInstructions(t)

Next == ProgramNext \/ ReaderNext \/ Match \/ ReportLeaks

\* Timely schedules an operator as long as it has input or its frontier moves.
Spec == Init /\ [][Next]_vars /\ WF_vars(Match) /\ WF_vars(ReportLeaks)

-----------------------------------------------------------------------------
(* What the analysis promises. *)

\* The instructions the operator has processed.
Read == UNION {{log[t][i] : i \in 1 .. read[t]} : t \in Threads}
Pending == {input[i] : i \in DOMAIN input}
Matched == Read \ Pending

Of(op) == {e \in Matched : e.op = op}

\* Every allocation is accounted for exactly once: freed, replaced, leaked or
\* still stashed; every deallocation either frees an allocation or is an error.
Accounted ==
  /\ \A e \in Of("alloc") :
       Cardinality({m \in pairs : m.alloc = e})
         + Cardinality({d \in doubleAllocs : d.old = e})
         + Cardinality({e} \cap leaks) + Cardinality({e} \cap stash) = 1
  /\ \A e \in Of("free") :
       Cardinality({m \in pairs : m.free = e}) + Cardinality({e} \cap doubleFrees) = 1

\* An address is one thread's own: no other has recorded an instruction
\* about it, or is about to.
Touches(t, p) ==
  \/ \E i \in DOMAIN log[t] : log[t][i].ptr = p
  \/ t \in DOMAIN moving /\ \E i \in 1 .. 2 : moving[t][i] = p

OneThread(p) == Cardinality({t \in Threads : Touches(t, p)}) <= 1

\* A deallocation of p is followed by an allocation of null: that is how a
\* realloc of p that failed is recorded, though p stays allocated.
RecordedAsMoved(p) ==
  \E t \in Threads : \E i \in 1 .. Len(log[t]) - 1 :
    /\ log[t][i].op = "free" /\ log[t][i].ptr = p
    /\ log[t][i + 1].ptr = Null

\* The limitation the README of the repository names, and the failures of
\* realloc, are the only ones: an address that a single thread uses gets no
\* error but a leak, however the buffers of the threads interleave and whatever
\* a realloc does in place or an allocation that fails records.
NoSpuriousErrors ==
  \A p \in Ptrs : OneThread(p) /\ ~RecordedAsMoved(p) =>
    /\ \A d \in doubleAllocs : d.new.ptr # p
    /\ \A e \in doubleFrees : e.ptr # p

\* A leak is reported for an allocation that nothing read later frees: it is
\* final, and no pair or error follows it.
LeaksAreFinal ==
  [][~leakCap => UNCHANGED <<pairs, doubleAllocs, doubleFrees, leaks>>]_vars

\* When the connection is closed, everything read is matched and whatever was
\* not freed is reported: the operator ends with nothing pending or stashed.
EventuallyReported == ~open ~> Pending = {} /\ stash = {}

=============================================================================
