------------------------------ MODULE Windows ------------------------------
(***************************************************************************)
(* Aggregation of matched pairs by time window (analyze/src/dataflow.rs),  *)
(* behind the source of TraceReader.  "Match ptr" puts each pair into the  *)
(* window of the message it came with; consolidate holds it until no       *)
(* message can fall into its window any more; group_by_window collects     *)
(* what is sent to it by time and reports it when that time has passed.    *)
(* Which pairs there are is the subject of Matching: here every message    *)
(* with instructions is one.                                               *)
(*                                                                         *)
(* The operators share a worker thread with the source and so run when it  *)
(* does not.  What timely tells an operator of its input is the set of the *)
(* times at which something may still arrive; differential dataflow's      *)
(* consolidate is modelled from its use.                                   *)
(***************************************************************************)
EXTENDS TraceReader, FiniteSets

CONSTANT RoundTo  \* width of a window

ASSUME WindowsAssumption == RoundTo \in Nat \ {0}

VARIABLES
  leakCap,   \* capability of Match ptr for the leaks: no time or one
  held,      \* pairs in consolidate
  heldCap,   \* its capability: no time or one
  sealed,    \* batches from consolidate to group_by_window
  stash,     \* pairs in group_by_window, by the time of their batch
  reported   \* AllocPerThreadPairs sent to the output

windowVars == <<leakCap, held, heldCap, sealed, stash, reported>>
vars == <<readerVars, windowVars>>

Times == 0 .. MaxTime + RoundTo
Pair == [number : 1 .. MaxMessages, window : Times]

TypeOK ==
  /\ ReaderTypeOK
  /\ leakCap \subseteq Times /\ Cardinality(leakCap) <= 1
  /\ held \subseteq Pair
  /\ heldCap \subseteq Times /\ Cardinality(heldCap) <= 1
  /\ held = {} <=> heldCap = {}
  /\ sealed \subseteq [time : Times, pairs : SUBSET Pair]
  /\ stash \in [Times -> SUBSET Pair]
  /\ reported \in Seq(SUBSET Pair)

Init ==
  /\ ReaderInit
  /\ leakCap = {0}
  /\ held = {} /\ heldCap = {} /\ sealed = {}
  /\ stash = [t \in Times |-> {}]
  /\ reported = << >>

-----------------------------------------------------------------------------
Least(times) == {t \in times : \A u \in times : t <= u}

\* The one enumeration of the times in their order.
Ascending(times) ==
  {order \in [1 .. Cardinality(times) -> times] :
     /\ \A i, j \in DOMAIN order : i < j => order[i] < order[j]
     /\ \A t \in times : \E i \in DOMAIN order : order[i] = t}

\* A time is past when nothing at it or before it may still arrive.
Past(t, frontier) == \A u \in frontier : t < u

\* What may still arrive at Match ptr, at consolidate and at group_by_window.
MatchFrontier == (IF open THEN {cap} ELSE {}) \cup {m.time : m \in flight}
PairFrontier == MatchFrontier \cup leakCap
BatchFrontier == PairFrontier \cup heldCap \cup {b.time : b \in sealed}

\* The mutant rounds down.
round_down(time) == (time \div RoundTo) * RoundTo
round_up(time) == ((time + RoundTo - 1) \div RoundTo) * RoundTo

\* Match ptr is scheduled: its input turns into pairs, and its capability
\* follows the frontier, or is dropped at its end.
MatchPtr ==
  /\ source = "idle"
  /\ flight # {} \/ leakCap # Least(MatchFrontier)
  /\ held' = held \cup {[number |-> m.number, window |-> round_up(m.time)] : m \in flight}
  /\ heldCap' = Least(heldCap \cup {m.time : m \in flight})
  /\ leakCap' = Least(MatchFrontier)
  /\ flight' = {}
  /\ UNCHANGED <<readVars, channel, wakeVars, source, fuel, exit, open, cap,
                 sealed, stash, reported>>

\* consolidate sends on, in one batch, the pairs of all windows that are past.
Consolidate ==
  LET batch == {p \in held : Past(p.window, PairFrontier)} IN
  /\ source = "idle"
  /\ \E t \in heldCap :
       /\ Past(t, PairFrontier)
       /\ sealed' = IF batch = {} THEN sealed
                    ELSE sealed \cup {[time |-> t, pairs |-> batch]}
  /\ held' = held \ batch
  /\ heldCap' = Least({p.window : p \in held'})
  /\ UNCHANGED <<readerVars, leakCap, stash, reported>>

\* group_by_window is scheduled: its input goes to the stash, and the times
\* that are past are reported in their order.
GroupByWindow ==
  LET due == {t \in Times : stash[t] # {} /\ Past(t, BatchFrontier)}
      arrived(t) == UNION {b.pairs : b \in {c \in sealed : c.time = t}}
  IN
  /\ source = "idle"
  /\ sealed # {} \/ due # {}
  /\ stash' = [t \in Times |-> IF t \in due THEN {} ELSE stash[t] \cup arrived(t)]
  /\ \E order \in Ascending(due) :
       reported' = reported \o [i \in DOMAIN order |-> stash[order[i]]]
  /\ sealed' = {}
  /\ UNCHANGED <<readerVars, leakCap, held, heldCap>>

-----------------------------------------------------------------------------
ReaderNext == Read \/ EndOfStream \/ ReaderThread \/ Source

Next ==
  \/ ReaderNext /\ UNCHANGED windowVars
  \/ MatchPtr \/ Consolidate \/ GroupByWindow

\* The reader thread and the worker run on, and timely schedules every
\* operator that has something to do.  The connection may stay silent.
Fairness ==
  /\ WF_readerVars(ReaderThread) /\ WF_readerVars(Source)
  /\ WF_vars(MatchPtr) /\ WF_vars(Consolidate) /\ WF_vars(GroupByWindow)

Spec == Init /\ [][Next]_vars /\ Fairness

-----------------------------------------------------------------------------
Reported == UNION {reported[i] : i \in DOMAIN reported}
Unreported ==
  held \cup (UNION {b.pairs : b \in sealed}) \cup (UNION {stash[t] : t \in Times})
    \cup {[number |-> m.number, window |-> round_up(m.time)] : m \in flight}

Numbers(entries) == {e.number : e \in entries}

\* Where message n's instructions, or their pair, are: the place, what of the
\* place, and what is there.
Where(n) ==
  LET Of(things) == {x \in things : x.number = n} IN
  {<<"hand", 0, m>> : m \in Of({m \in {hand} : m.instructions})}
    \cup {<<"channel", i, channel[i]>> :
            i \in {i \in DOMAIN channel : channel[i].instructions /\ channel[i].number = n}}
    \cup {<<"flight", 0, m>> : m \in Of(flight)}
    \cup {<<"held", 0, p>> : p \in Of(held)}
    \cup (UNION {{<<"sealed", b, p>> : p \in Of(b.pairs)} : b \in sealed})
    \cup (UNION {{<<"stash", t, p>> : p \in Of(stash[t])} : t \in Times})
    \cup (UNION {{<<"reported", i, p>> : p \in Of(reported[i])} : i \in DOMAIN reported})

\* Every pair read is counted exactly once: it is in one place on its way to
\* a report, or in one report.
CountedOnce ==
  \A n \in 1 .. MaxMessages :
    /\ n \in carried <=> Where(n) # {}
    /\ \A x, y \in Where(n) : x = y

\* A report is final: every window is in one report, reports are in the order
\* of their windows, and nothing that is still to be reported belongs to a
\* window that was.
WindowsClose ==
  /\ \A i, j \in DOMAIN reported :
       i < j => \A p \in reported[i], q \in reported[j] : p.window < q.window
  /\ \A p \in Reported, q \in Unreported : p.window < q.window

\* When the connection is closed everything that was read is reported, and the
\* dataflow ends (no operator keeps a capability).
AllReported ==
  reader = "close" ~>
    /\ ~open /\ leakCap = {} /\ heldCap = {}
    /\ Numbers(Reported) = carried

=============================================================================
