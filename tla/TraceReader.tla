---------------------------- MODULE TraceReader ----------------------------
(***************************************************************************)
(* Reading the trace on the analysis side (analyze/src/dataflow.rs).  A    *)
(* thread reads messages from the connection into a bounded channel and    *)
(* activates the source operator of the dataflow; the source takes a       *)
(* limited number of messages each time it is scheduled, moves its         *)
(* capability along with their timestamps and sends their instructions on. *)
(* The source must run again whenever messages may be left, and must give  *)
(* up its capability when the connection is closed, and not before.        *)
(*                                                                         *)
(* A message is its number, its timestamp and whether it is Instructions;  *)
(* the kinds without a timestamp have the effect of a Timestamp that is    *)
(* not new.  Timely (activations, timer) is modelled from its use.         *)
(***************************************************************************)
EXTENDS Naturals, Sequences

CONSTANTS
  Capacity,     \* bound of the reader's channel, 64
  Fuel,         \* messages the source takes when it is scheduled, 256
  MaxMessages,  \* bound of the model: messages sent by the traced program
  MaxTime       \* bound of the model: timestamps

ASSUME ReaderAssumption ==
  /\ Capacity \in Nat \ {0} /\ Fuel \in Nat \ {0}
  /\ MaxMessages \in Nat /\ MaxTime \in Nat

VARIABLES
  reader,     \* where the reader thread is
  hand,       \* message the reader has deserialized
  reads,      \* number of messages read
  carried,    \* which of them are Instructions
  clock,      \* timestamp of the last of them
  channel,    \* messages on their way to the source
  activated,  \* is the source to be scheduled?
  timer,      \* is a timed activation pending?
  source,     \* where the source is
  fuel,       \* what is left of it
  exit,       \* has the source seen the channel disconnected?
  open,       \* does the source have its capability?
  cap,        \* time of the capability
  flight      \* instructions sent by the source and not matched

readVars == <<reader, hand, reads, carried, clock>>
wakeVars == <<activated, timer>>
sourceVars == <<source, fuel, exit, open, cap, flight>>
readerVars == <<readVars, channel, wakeVars, sourceVars>>

Message == [number : 1 .. MaxMessages, time : 0 .. MaxTime, instructions : BOOLEAN]
NoMessage == [number |-> 0, time |-> 0, instructions |-> FALSE]

ReaderTypeOK ==
  /\ reader \in {"read", "send", "activate", "close", "wake", "done"}
  /\ hand \in Message \cup {NoMessage}
  /\ reader = "send" <=> hand # NoMessage
  /\ reads \in 0 .. MaxMessages
  /\ carried \subseteq 1 .. reads
  /\ clock \in 0 .. MaxTime
  /\ channel \in Seq(Message) /\ Len(channel) <= Capacity
  /\ activated \in BOOLEAN /\ timer \in BOOLEAN
  /\ source \in {"idle", "run", "end"}
  /\ fuel \in 0 .. Fuel
  /\ exit \in BOOLEAN /\ open \in BOOLEAN
  /\ cap \in 0 .. clock
  /\ flight \subseteq [number : carried, time : 0 .. cap]

ReaderInit ==
  /\ reader = "read" /\ hand = NoMessage
  /\ reads = 0 /\ carried = {} /\ clock = 0
  /\ channel = << >>
  /\ activated = TRUE /\ timer = FALSE
  /\ source = "idle" /\ fuel = 0 /\ exit = FALSE
  /\ open = TRUE /\ cap = 0
  /\ flight = {}

-----------------------------------------------------------------------------
(* The reader thread *)

\* A message arrives; the traced program's timestamps do not decrease.
Read ==
  /\ reader = "read" /\ reads < MaxMessages
  /\ \E time \in clock .. MaxTime, instructions \in BOOLEAN :
       /\ hand' = [number |-> reads + 1, time |-> time, instructions |-> instructions]
       /\ carried' = IF instructions THEN carried \cup {reads + 1} ELSE carried
       /\ clock' = time
  /\ reads' = reads + 1
  /\ reader' = "send"
  /\ UNCHANGED <<channel, wakeVars, sourceVars>>

\* The mutant's channel is not bounded.
Unbounded == TRUE
HasRoom == Len(channel) < Capacity

\* send() waits for room; the source keeps the receiver until it is closed.
Send ==
  /\ reader = "send" /\ HasRoom
  /\ channel' = Append(channel, hand)
  /\ hand' = NoMessage
  /\ reader' = "activate"
  /\ UNCHANGED <<reads, carried, clock, wakeVars, sourceVars>>

Activate ==
  /\ reader = "activate"
  /\ activated' = TRUE
  /\ reader' = "read"
  /\ UNCHANGED <<hand, reads, carried, clock, channel, timer, sourceVars>>

\* The connection is closed, or does not make sense any more.
EndOfStream ==
  /\ reader = "read"
  /\ reader' = "close"
  /\ UNCHANGED <<hand, reads, carried, clock, channel, wakeVars, sourceVars>>

\* drop(sender), and then the last activation.
CloseChannel ==
  /\ reader = "close"
  /\ reader' = "wake"
  /\ UNCHANGED <<hand, reads, carried, clock, channel, wakeVars, sourceVars>>

WakeSource ==
  /\ reader = "wake"
  /\ activated' = TRUE
  /\ reader' = "done"
  /\ UNCHANGED <<hand, reads, carried, clock, channel, timer, sourceVars>>

-----------------------------------------------------------------------------
(* The source operator *)

\* The time is up.
TimerFires ==
  /\ timer
  /\ timer' = FALSE /\ activated' = TRUE
  /\ UNCHANGED <<readVars, channel, sourceVars>>

Schedule ==
  /\ source = "idle" /\ activated
  /\ activated' = FALSE
  /\ source' = IF open THEN "run" ELSE "idle"
  /\ fuel' = IF open THEN Fuel ELSE 0
  /\ UNCHANGED <<readVars, channel, timer, exit, open, cap, flight>>

\* What the source sends on from a message.  The mutant does so only if the
\* capability moves.
SendsIfLater(m) == m.instructions /\ cap < m.time
Sends(m) == m.instructions

TakeMessage ==
  LET m == Head(channel) IN
  /\ source = "run" /\ channel # << >>
  /\ cap' = IF cap < m.time THEN m.time ELSE cap
  /\ flight' = IF Sends(m) THEN flight \cup {[number |-> m.number, time |-> cap']}
                ELSE flight
  /\ channel' = Tail(channel)
  /\ fuel' = fuel - 1
  /\ source' = IF fuel' = 0 THEN "end" ELSE "run"
  /\ UNCHANGED <<readVars, wakeVars, exit, open>>

\* try_recv on an empty channel: has the sender been dropped?  The mutants take
\* a channel that ran dry for a closed one, and a closed one for a dry one.
DryIsClosed == TRUE
ClosedIsDry == FALSE
Disconnected == reader \in {"wake", "done"}

FindEmpty ==
  /\ source = "run" /\ channel = << >>
  /\ exit' = Disconnected
  /\ fuel' = fuel - 1
  /\ source' = "end"
  /\ UNCHANGED <<readVars, channel, wakeVars, open, cap, flight>>

\* A run that used up its fuel asks for another, one that ran dry polls again
\* after a while, and one that found the channel closed drops the capability.
EndRun ==
  /\ source = "end"
  /\ activated' = (activated \/ fuel = 0)
  /\ timer' = (timer \/ (fuel # 0 /\ ~exit))
  /\ open' = ~exit
  /\ source' = "idle" /\ fuel' = 0
  /\ UNCHANGED <<readVars, channel, exit, cap, flight>>

ReaderThread == Send \/ Activate \/ CloseChannel \/ WakeSource
Source == TimerFires \/ Schedule \/ TakeMessage \/ FindEmpty \/ EndRun

-----------------------------------------------------------------------------
\* Every message read from the connection gets to the source, though the
\* reader may wait for room in the channel when the source stops and though
\* no further message may arrive to wake it.
AllRead ==
  \A n \in 1 .. MaxMessages :
    reads = n ~>
      reads >= n /\ \A m \in {hand} \cup {channel[i] : i \in DOMAIN channel} :
        m = NoMessage \/ m.number > n

=============================================================================
