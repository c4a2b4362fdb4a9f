------------------------------ MODULE EventLog ------------------------------
(***************************************************************************)
(* What the tracing connection promises to the analysis side, with no      *)
(* buffers, channels or locks: every traced thread has a log of events,    *)
(* and the connection delivers a growing prefix of it.  A thread is        *)
(* announced before it records any event, and its termination is announced    *)
(* only when the whole of its log has been delivered; nothing is recorded  *)
(* or delivered for it after that.                                         *)
(*                                                                         *)
(* An event is named by its position in its thread's log, so a log is the  *)
(* number of its events and a delivery is the sequence of those names.     *)
(***************************************************************************)
EXTENDS Naturals, Sequences

CONSTANT Threads   \* the traced threads

VARIABLES
  recorded,   \* recorded[t]: how many events thread t has recorded
  delivered,  \* delivered[t]: the events of t written to the connection
  phase       \* phase[t]: what the connection has said about t itself

vars == <<recorded, delivered, phase>>

Phases == {"unknown", "live", "destroyed"}

\* The first n events of a thread, in the order it recorded them.
FirstEvents(n) == [i \in 1..n |-> i]

TypeOK ==
  /\ recorded \in [Threads -> Nat]
  /\ delivered \in [Threads -> Seq(Nat)]
  /\ phase \in [Threads -> Phases]

Init ==
  /\ recorded = [t \in Threads |-> 0]
  /\ delivered = [t \in Threads |-> << >>]
  /\ phase = [t \in Threads |-> "unknown"]

Record(t) ==
  /\ phase[t] = "live"
  /\ recorded' = [recorded EXCEPT ![t] = @ + 1]
  /\ UNCHANGED <<delivered, phase>>

Announce(t) ==
  /\ phase[t] = "unknown"
  /\ phase' = [phase EXCEPT ![t] = "live"]
  /\ UNCHANGED <<recorded, delivered>>

\* Some more of t's log reaches the connection.
Deliver(t) ==
  /\ phase[t] = "live"
  /\ \E n \in Len(delivered[t]) + 1 .. recorded[t] :
       delivered' = [delivered EXCEPT ![t] = FirstEvents(n)]
  /\ UNCHANGED <<recorded, phase>>

\* The rest of t's log, if there is one, and then t's termination.
Destroy(t) ==
  /\ phase[t] = "live"
  /\ delivered' = [delivered EXCEPT ![t] = FirstEvents(recorded[t])]
  /\ phase' = [phase EXCEPT ![t] = "destroyed"]
  /\ UNCHANGED recorded

Next == \E t \in Threads : Record(t) \/ Announce(t) \/ Deliver(t) \/ Destroy(t)

Spec == Init /\ [][Next]_vars

=============================================================================
