--------------------------- MODULE WindowsProofs ---------------------------
(***************************************************************************)
(* The invariants of Windows, for all capacities, fuels, widths of a       *)
(* window and bounds: types, the one place of every pair, and the order in *)
(* which windows are reported.                                             *)
(***************************************************************************)
EXTENDS Windows, SequenceTheorems, FiniteSetTheorems, WellFoundedInduction, TLAPS

USE ReaderAssumption, WindowsAssumption
    DEF readVars, wakeVars, sourceVars, readerVars, windowVars, vars

-----------------------------------------------------------------------------
(* Times. *)

LEMMA RoundUp ==
  ASSUME NEW t \in Nat
  PROVE  round_up(t) \in Nat /\ t <= round_up(t) /\ round_up(t) < t + RoundTo
<1> DEFINE n == t + RoundTo - 1
           q == n \div RoundTo
<1>1. n \in Nat
  OBVIOUS
<1> HIDE DEF n
<1>2. q \in Nat /\ n = q * RoundTo + (n % RoundTo) /\ n % RoundTo \in 0 .. RoundTo - 1
  BY <1>1
<1> HIDE DEF q
<1>3. q * RoundTo \in Nat /\ round_up(t) = q * RoundTo
  BY <1>2 DEF round_up, q, n
<1>4. PICK x \in Nat, r \in 0 .. RoundTo - 1 : x = q * RoundTo /\ n = x + r
  BY <1>2, <1>3
<1>5. x = round_up(t) /\ t + RoundTo - 1 = x + r
  BY <1>3, <1>4 DEF n
<1> QED BY <1>5

LEMMA LeastExists ==
  ASSUME NEW S \in SUBSET Nat, S # {}
  PROVE  \E x \in S : \A y \in S : x <= y
<1> DEFINE R == {p \in Nat \X Nat : p[1] < p[2]}
<1>1. IsWellFoundedOn(R, Nat)
  BY NatLessThanWellFounded DEF OpToRel
<1>2. PICK x \in S : \A y \in S : ~(<<y, x>> \in R)
  <2> HIDE DEF R
  <2> QED BY <1>1, WFMin
<1>3. \A y \in S : ~(y < x)
  BY <1>2
<1> QED BY <1>3

LEMMA LeastOf ==
  ASSUME NEW S \in SUBSET Nat
  PROVE  /\ Least(S) \subseteq S /\ Cardinality(Least(S)) <= 1
         /\ \A x \in Least(S), y \in S : x <= y
         /\ S = {} <=> Least(S) = {}
<1>1. Least(S) \subseteq S /\ \A x \in Least(S), y \in S : x <= y
  BY DEF Least
<1>2. S # {} => Least(S) # {}
  BY LeastExists DEF Least
<1>3. ASSUME NEW x \in Least(S) PROVE Least(S) = {x}
  <2>1. ASSUME NEW y \in Least(S) PROVE y = x
    <3>1. x \in Nat /\ y \in Nat /\ x <= y /\ y <= x
      BY <1>1, <1>3, <2>1
    <3> QED BY <3>1
  <2> QED BY <2>1
<1>4. Cardinality(Least(S)) <= 1
  <2>1. CASE Least(S) = {}
    <3>1. Cardinality(Least(S)) = 0
      BY <2>1, FS_EmptySet
    <3> QED BY <3>1
  <2>2. CASE Least(S) # {}
    <3>1. PICK x : Least(S) = {x}
      BY <1>3, <2>2
    <3>2. Cardinality(Least(S)) = 1
      BY <3>1, FS_Singleton
    <3> QED BY <3>2
  <2> QED BY <2>1, <2>2
<1> QED BY <1>1, <1>2, <1>4

LEMMA ChannelTypes ==
  ASSUME ReaderTypeOK
  PROVE  /\ channel \in Seq(Message) /\ Len(channel) \in Nat
         /\ \A i \in DOMAIN channel : channel[i] \in Message
         /\ DOMAIN channel = 1 .. Len(channel)
<1>1. channel \in Seq(Message)
  BY DEF ReaderTypeOK
<1>2. \A i \in 1 .. Len(channel) : channel[i] \in Message
  BY <1>1, ElementOfSeq
<1> QED BY <1>1, <1>2

-----------------------------------------------------------------------------
(* The reader's invariant. *)

\* What was read is known: what is on its way to the source is from the past,
\* and counted.
Known ==
  /\ hand.time <= clock /\ (hand.instructions => hand.number \in carried)
  /\ \A i \in DOMAIN channel :
       /\ channel[i].time <= clock
       /\ channel[i].instructions => channel[i].number \in carried

\* The source runs with its capability and with fuel.
Runs ==
  /\ source # "idle" => open
  /\ source = "run" => fuel > 0

ReaderInv == ReaderTypeOK /\ Known /\ Runs

LEMMA ReadInv ==
  ASSUME ReaderInv, Read
  PROVE  ReaderInv'
<1>1. /\ reader = "read" /\ reads < MaxMessages
      /\ reads' = reads + 1 /\ reader' = "send"
      /\ UNCHANGED <<channel, wakeVars, sourceVars>>
  BY DEF Read
<1>2. PICK time \in clock .. MaxTime, instructions \in BOOLEAN :
        /\ hand' = [number |-> reads + 1, time |-> time, instructions |-> instructions]
        /\ carried' = IF instructions THEN carried \cup {reads + 1} ELSE carried
        /\ clock' = time
  BY DEF Read
<1>3. /\ ReaderTypeOK /\ clock \in 0 .. MaxTime /\ time \in 0 .. MaxTime /\ clock <= time
      /\ reads + 1 \in 1 .. MaxMessages
  BY <1>1 DEF ReaderInv, ReaderTypeOK
<1>4. hand' \in Message /\ hand' # NoMessage
  BY <1>2, <1>3 DEF Message, NoMessage
<1>5. carried' \subseteq 1 .. reads' /\ carried \subseteq carried'
  BY <1>1, <1>2, <1>3 DEF ReaderTypeOK
<1>6. flight' \subseteq [number : carried', time : 0 .. cap'] /\ cap' \in 0 .. clock'
  BY <1>1, <1>2, <1>3, <1>5 DEF ReaderTypeOK
<1>7. ReaderTypeOK'
  BY <1>1, <1>2, <1>3, <1>4, <1>5, <1>6 DEF ReaderTypeOK
<1>8. Known'
  <2>1. hand'.time <= clock' /\ (hand'.instructions => hand'.number \in carried')
    BY <1>2, <1>3
  <2>2. ASSUME NEW i \in DOMAIN channel
        PROVE  /\ channel[i].time <= clock'
               /\ channel[i].instructions => channel[i].number \in carried'
    <3>1. channel[i] \in Message
      BY <1>3, ChannelTypes
    <3> QED BY <1>2, <1>3, <1>5, <3>1 DEF ReaderInv, Known, Message
  <2> QED BY <1>1, <2>1, <2>2 DEF Known
<1> QED BY <1>1, <1>7, <1>8 DEF ReaderInv, Runs

LEMMA SendInv ==
  ASSUME ReaderInv, Send
  PROVE  ReaderInv'
<1>1. /\ reader = "send" /\ Len(channel) < Capacity
      /\ channel' = Append(channel, hand) /\ hand' = NoMessage /\ reader' = "activate"
      /\ UNCHANGED <<reads, carried, clock, wakeVars, sourceVars>>
  BY DEF Send, HasRoom
<1>2. ReaderTypeOK /\ hand \in Message /\ channel \in Seq(Message)
  BY <1>1 DEF ReaderInv, ReaderTypeOK
<1>3. /\ channel' \in Seq(Message) /\ Len(channel') = Len(channel) + 1
      /\ \A i \in 1 .. Len(channel) : channel'[i] = channel[i]
      /\ channel'[Len(channel) + 1] = hand
      /\ DOMAIN channel = 1 .. Len(channel) /\ DOMAIN channel' = 1 .. Len(channel) + 1
      /\ Len(channel) \in Nat
  BY <1>1, <1>2, AppendProperties
<1>4. Len(channel') <= Capacity
  BY <1>1, <1>3
<1>5. ReaderTypeOK'
  BY <1>1, <1>2, <1>3, <1>4 DEF ReaderTypeOK
<1>6. Known'
  <2>1. ASSUME NEW i \in DOMAIN channel'
        PROVE  /\ channel'[i].time <= clock
               /\ channel'[i].instructions => channel'[i].number \in carried
    <3>1. CASE i = Len(channel) + 1
      BY <1>3, <3>1 DEF ReaderInv, Known
    <3>2. CASE i # Len(channel) + 1
      <4>1. i \in DOMAIN channel /\ channel'[i] = channel[i]
        BY <1>3, <2>1, <3>2
      <4> QED BY <4>1 DEF ReaderInv, Known
    <3> QED BY <3>1, <3>2
  <2>2. 0 <= clock
    BY <1>2 DEF ReaderTypeOK
  <2> QED BY <1>1, <2>1, <2>2 DEF Known, NoMessage
<1> QED BY <1>1, <1>5, <1>6 DEF ReaderInv, Runs

LEMMA TakeMessageInv ==
  ASSUME ReaderInv, TakeMessage
  PROVE  ReaderInv'
<1> DEFINE m == Head(channel)
<1>1. /\ source = "run" /\ channel # << >>
      /\ cap' = IF cap < m.time THEN m.time ELSE cap
      /\ flight' = IF m.instructions THEN flight \cup {[number |-> m.number, time |-> cap']}
                   ELSE flight
      /\ channel' = Tail(channel)
      /\ fuel' = fuel - 1
      /\ source' = IF fuel' = 0 THEN "end" ELSE "run"
      /\ UNCHANGED <<readVars, wakeVars, exit, open>>
  BY DEF TakeMessage, Sends
<1>2. ReaderTypeOK /\ channel \in Seq(Message)
  BY DEF ReaderInv, ReaderTypeOK
<1>3. /\ m = channel[1] /\ m \in Message /\ 1 \in DOMAIN channel
      /\ channel' \in Seq(Message) /\ Len(channel') = Len(channel) - 1
      /\ Len(channel) \in Nat \ {0}
      /\ \A i \in 1 .. Len(channel') : channel'[i] = channel[i + 1]
      /\ DOMAIN channel = 1 .. Len(channel) /\ DOMAIN channel' = 1 .. Len(channel')
  BY <1>1, <1>2, HeadTailProperties
<1>4. m.time <= clock /\ (m.instructions => m.number \in carried)
  BY <1>3 DEF ReaderInv, Known
<1> HIDE DEF m
<1>5. cap' \in 0 .. clock /\ cap <= cap' /\ cap \in Nat
  BY <1>1, <1>2, <1>3, <1>4 DEF ReaderTypeOK, Message
<1>6. flight' \subseteq [number : carried, time : 0 .. cap']
  BY <1>1, <1>2, <1>4, <1>5 DEF ReaderTypeOK
<1>7. fuel' \in 0 .. Fuel /\ (source' = "run" => fuel' > 0)
  BY <1>1, <1>2 DEF ReaderInv, Runs, ReaderTypeOK
<1>8. Len(channel') <= Capacity
  BY <1>2, <1>3 DEF ReaderTypeOK
<1>9. ReaderTypeOK'
  BY <1>1, <1>2, <1>3, <1>5, <1>6, <1>7, <1>8 DEF ReaderTypeOK
<1>10. Known'
  <2>1. ASSUME NEW i \in DOMAIN channel'
        PROVE  /\ channel'[i].time <= clock
               /\ channel'[i].instructions => channel'[i].number \in carried
    <3>1. i + 1 \in DOMAIN channel /\ channel'[i] = channel[i + 1]
      BY <1>3, <2>1
    <3> QED BY <3>1 DEF ReaderInv, Known
  <2> QED BY <1>1, <2>1 DEF ReaderInv, Known
<1> QED BY <1>1, <1>7, <1>9, <1>10 DEF ReaderInv, Runs

LEMMA ReaderStepInv ==
  ASSUME ReaderInv, ReaderNext
  PROVE  ReaderInv'
<1>1. CASE Read
  BY <1>1, ReadInv
<1>2. CASE Send
  BY <1>2, SendInv
<1>3. CASE TakeMessage
  BY <1>3, TakeMessageInv
<1>4. CASE EndOfStream \/ Activate \/ CloseChannel \/ WakeSource
  BY <1>4 DEF EndOfStream, Activate, CloseChannel, WakeSource, ReaderInv, ReaderTypeOK,
              Known, Runs
<1>5. CASE TimerFires
  BY <1>5 DEF TimerFires, ReaderInv, ReaderTypeOK, Known, Runs
<1>6. CASE Schedule
  <2>1. /\ activated' = FALSE /\ source' = (IF open THEN "run" ELSE "idle")
        /\ fuel' = (IF open THEN Fuel ELSE 0)
        /\ UNCHANGED <<readVars, channel, timer, exit, open, cap, flight>>
    BY <1>6 DEF Schedule
  <2>2. fuel' \in 0 .. Fuel /\ source' \in {"idle", "run", "end"} /\ activated' \in BOOLEAN
    <3>1. fuel' \in 0 .. Fuel
      BY <2>1
    <3>2. source' \in {"idle", "run", "end"}
      BY <2>1
    <3> QED BY <2>1, <3>1, <3>2
  <2>3. ReaderTypeOK'
    BY <2>1, <2>2 DEF ReaderInv, ReaderTypeOK
  <2> QED BY <2>1, <2>3 DEF ReaderInv, Known, Runs
<1>7. CASE FindEmpty
  <2>1. /\ source = "run" /\ exit' = Disconnected /\ fuel' = fuel - 1 /\ source' = "end"
        /\ UNCHANGED <<readVars, channel, wakeVars, open, cap, flight>>
    BY <1>7 DEF FindEmpty
  <2>2. fuel' \in 0 .. Fuel /\ exit' \in BOOLEAN
    BY <2>1 DEF Disconnected, ReaderInv, ReaderTypeOK, Runs
  <2>3. ReaderTypeOK'
    BY <2>1, <2>2 DEF ReaderInv, ReaderTypeOK
  <2> QED BY <2>1, <2>3 DEF ReaderInv, Known, Runs
<1>8. CASE EndRun
  <2>1. /\ activated' \in BOOLEAN /\ timer' \in BOOLEAN /\ open' \in BOOLEAN
        /\ source' = "idle" /\ fuel' = 0
        /\ UNCHANGED <<readVars, channel, exit, cap, flight>>
    BY <1>8 DEF EndRun, ReaderInv, ReaderTypeOK
  <2>2. ReaderTypeOK'
    BY <2>1 DEF ReaderInv, ReaderTypeOK
  <2> QED BY <2>1, <2>2 DEF ReaderInv, Known, Runs
<1> QED BY <1>1, <1>2, <1>3, <1>4, <1>5, <1>6, <1>7, <1>8
  DEF ReaderNext, ReaderThread, Source

\* The operators take what is in flight, and leave the reader alone.
LEMMA ReaderRest ==
  ASSUME ReaderInv, flight' \in {flight, {}},
         UNCHANGED <<readVars, channel, wakeVars, source, fuel, exit, open, cap>>
  PROVE  ReaderInv'
  BY DEF ReaderInv, ReaderTypeOK, Known, Runs

-----------------------------------------------------------------------------
(* Pairs and where they are. *)

PairsOK ==
  /\ leakCap \subseteq Times
  /\ held \subseteq Pair
  /\ heldCap \subseteq Times
  /\ held = {} <=> heldCap = {}
  /\ sealed \subseteq [time : Times, pairs : SUBSET Pair]
  /\ stash \in [Times -> SUBSET Pair]
  /\ reported \in Seq(SUBSET Pair)

CapsOK == Cardinality(leakCap) <= 1 /\ Cardinality(heldCap) <= 1

\* The pairs in batches of time t that are not reported.
Waiting(t) == stash[t] \cup UNION {b.pairs : b \in {c \in sealed : c.time = t}}
AllWaiting == UNION {Waiting(t) : t \in Times}

LEMMA Ranges ==
  ASSUME ReaderInv, PairsOK
  PROVE  /\ Times \subseteq Nat /\ \A p \in Pair : p.window \in Nat /\ p.window \in Times
         /\ \A m \in flight : /\ m.time \in 0 .. MaxTime /\ m.time \in Times
                              /\ [number |-> m.number, window |-> round_up(m.time)] \in Pair
                              /\ m.time <= round_up(m.time) /\ round_up(m.time) \in Nat
         /\ MatchFrontier \subseteq Times /\ PairFrontier \subseteq Times
         /\ BatchFrontier \subseteq Times
<1>1. /\ Times \subseteq Nat /\ 0 .. MaxTime \subseteq Times
      /\ \A p \in Pair : p.window \in Nat /\ p.window \in Times
  BY DEF Times, Pair
<1>2. /\ flight \subseteq [number : carried, time : 0 .. cap] /\ cap \in 0 .. MaxTime
      /\ carried \subseteq 1 .. MaxMessages
  BY DEF ReaderInv, ReaderTypeOK
<1>3. ASSUME NEW m \in flight
      PROVE  /\ m.time \in 0 .. MaxTime /\ m.time \in Times
             /\ [number |-> m.number, window |-> round_up(m.time)] \in Pair
             /\ m.time <= round_up(m.time) /\ round_up(m.time) \in Nat
  <2>1. m.time \in 0 .. MaxTime /\ m.number \in 1 .. MaxMessages
    <3>1. m \in [number : carried, time : 0 .. cap]
      BY <1>2
    <3>2. m.number \in carried /\ m.time \in 0 .. cap
      BY <3>1
    <3>3. m.number \in 1 .. MaxMessages
      BY <1>2, <3>2
    <3>4. m.time \in 0 .. MaxTime
      <4> DEFINE t == m.time
      <4>1. t \in 0 .. cap
        BY <3>2
      <4> HIDE DEF t
      <4>2. t \in 0 .. MaxTime
        BY <1>2, <4>1
      <4> QED BY <4>2 DEF t
    <3> QED BY <3>3, <3>4
  <2>2. /\ round_up(m.time) \in Nat /\ m.time <= round_up(m.time)
        /\ round_up(m.time) < m.time + RoundTo
    BY <2>1, RoundUp
  <2>3. round_up(m.time) \in Times
    BY <2>1, <2>2 DEF Times
  <2> QED BY <1>1, <2>1, <2>2, <2>3 DEF Pair
<1>4. MatchFrontier \subseteq Times
  BY <1>1, <1>2, <1>3 DEF MatchFrontier
<1>5. PairFrontier \subseteq Times
  BY <1>4 DEF PairFrontier, PairsOK
<1>6. BatchFrontier \subseteq Times
  BY <1>5 DEF BatchFrontier, PairsOK
<1> QED BY <1>1, <1>3, <1>4, <1>5, <1>6

LEMMA WaitingPairs ==
  ASSUME PairsOK
  PROVE  /\ \A t \in Times : Waiting(t) \subseteq Pair
         /\ AllWaiting \subseteq Pair /\ Reported \subseteq Pair
<1>1. \A t \in Times : Waiting(t) \subseteq Pair
  BY DEF Waiting, PairsOK
<1>2. ASSUME NEW i \in DOMAIN reported PROVE reported[i] \subseteq Pair
  <2>1. reported \in Seq(SUBSET Pair) /\ i \in 1 .. Len(reported)
    BY DEF PairsOK
  <2>2. reported[i] \in SUBSET Pair
    BY <2>1, ElementOfSeq
  <2> QED BY <2>2
<1> QED BY <1>1, <1>2 DEF AllWaiting, Reported

\* What may still arrive comes later and later.
Advances == \A v \in PairFrontier' : \E u \in PairFrontier : u <= v

LEMMA FrontierLater ==
  ASSUME ReaderInv', PairsOK'
  PROVE  PairFrontier' \subseteq Nat
<1>1. \A m \in flight' : m.time \in Nat
  BY DEF ReaderInv, ReaderTypeOK
<1>2. MatchFrontier' \subseteq Nat
  BY <1>1 DEF MatchFrontier, ReaderInv, ReaderTypeOK
<1> QED BY <1>2 DEF PairFrontier, PairsOK, Times

LEMMA ReaderAdvances ==
  ASSUME ReaderInv, PairsOK, ReaderNext, UNCHANGED windowVars
  PROVE  Advances
<1>1. leakCap' = leakCap
  OBVIOUS
<1>2. CASE TakeMessage
  <2>1. cap' = (IF cap < Head(channel).time THEN Head(channel).time ELSE cap) /\ open' = open
        /\ (flight' = flight
            \/ flight' = flight \cup {[number |-> Head(channel).number, time |-> cap']})
        /\ source = "run" /\ channel # << >>
    BY <1>2 DEF TakeMessage
  <2>2. open /\ cap \in Nat
    BY <2>1 DEF ReaderInv, Runs, ReaderTypeOK
  <2>3. Head(channel).time \in Nat
    <3>1. channel \in Seq(Message) /\ Len(channel) \in Nat \ {0} /\ Head(channel) = channel[1]
      BY <2>1, ChannelTypes DEF ReaderInv
    <3>2. Head(channel) \in Message
      BY <3>1, ChannelTypes DEF ReaderInv
    <3> QED BY <3>2 DEF Message
  <2>4. cap <= cap'
    BY <2>1, <2>2, <2>3
  <2>5. ASSUME NEW v \in PairFrontier' PROVE v \in PairFrontier \/ v = cap'
    BY <1>1, <2>1 DEF PairFrontier, MatchFrontier
  <2>6. cap \in PairFrontier
    BY <2>2 DEF PairFrontier, MatchFrontier
  <2>7. PairFrontier \subseteq Nat
    BY Ranges
  <2>8. ASSUME NEW v \in PairFrontier' PROVE \E u \in PairFrontier : u <= v
    <3>1. CASE v = cap'
      BY <2>4, <2>6, <3>1
    <3>2. CASE v # cap'
      <4>1. v \in PairFrontier /\ v \in Nat
        BY <2>5, <2>7, <3>2
      <4> QED BY <4>1
    <3> QED BY <3>1, <3>2
  <2> QED BY <2>8 DEF Advances
<1>3. CASE ~TakeMessage
  <2>1. /\ cap' = cap /\ flight' = flight
        /\ open' = open \/ (open' = (~exit) /\ source = "end")
    BY <1>3 DEF ReaderNext, ReaderThread, Source, Read, EndOfStream, Send, Activate,
       CloseChannel, WakeSource, TimerFires, Schedule, FindEmpty, EndRun
  <2>2. open' => open
    BY <2>1 DEF ReaderInv, Runs
  <2>3. PairFrontier' \subseteq PairFrontier
    BY <1>1, <2>1, <2>2 DEF PairFrontier, MatchFrontier
  <2>4. PairFrontier \subseteq Nat
    BY Ranges
  <2> QED BY <2>3, <2>4 DEF Advances
<1> QED BY <1>2, <1>3

-----------------------------------------------------------------------------
(* The order of windows. *)

\* The pairs of a batch are not before its time, ...
BatchesHold == \A t \in Times : \A p \in Waiting(t) : t <= p.window

\* ... and all before the time of a later one.
BatchesOrdered ==
  \A t, u \in Times : t < u /\ Waiting(u) # {} => \A p \in Waiting(t) : p.window < u

ReportsBefore ==
  \A p \in Reported : \A u \in Times : Waiting(u) # {} => p.window < u

\* A pair that consolidate has sent on is before all that is still to come.
SentBefore ==
  \A p \in Reported \cup AllWaiting :
    /\ Past(p.window, PairFrontier)
    /\ \A q \in held : p.window < q.window
    /\ \A c \in heldCap : p.window < c

HeldAfter == \A c \in heldCap : \A p \in held : c <= p.window

ReportsOrdered ==
  \A i, j \in DOMAIN reported :
    i < j => \A p \in reported[i], q \in reported[j] : p.window < q.window

OrderInv ==
  /\ BatchesHold /\ BatchesOrdered /\ ReportsBefore /\ SentBefore /\ HeldAfter
  /\ ReportsOrdered

\* The reader's steps.
LEMMA ReaderOrder ==
  ASSUME ReaderInv, PairsOK, OrderInv, ReaderInv', PairsOK',
         UNCHANGED <<held, heldCap, sealed, stash, reported>>, Advances
  PROVE  OrderInv'
<1>1. \A p \in Reported \cup AllWaiting : p.window \in Nat
  BY Ranges, WaitingPairs
<1>2. Reported' = Reported /\ AllWaiting' = AllWaiting /\ \A t : Waiting(t)' = Waiting(t)
  BY DEF Reported, AllWaiting, Waiting
<1>3. SentBefore'
  <2> SUFFICES ASSUME NEW p \in Reported \cup AllWaiting
               PROVE  /\ Past(p.window, PairFrontier)'
                      /\ \A q \in held : p.window < q.window
                      /\ \A c \in heldCap : p.window < c
    BY <1>2 DEF SentBefore, Past
  <2>1. /\ Past(p.window, PairFrontier)
        /\ \A q \in held : p.window < q.window
        /\ \A c \in heldCap : p.window < c
    BY DEF OrderInv, SentBefore
  <2>2. p.window \in Nat
    BY <1>1
  <2>3. \A v \in PairFrontier' : p.window < v
    <3>1. PairFrontier \subseteq Nat /\ PairFrontier' \subseteq Nat
      BY Ranges, FrontierLater
    <3> QED BY <2>1, <2>2, <3>1 DEF Advances, Past
  <2> QED BY <2>1, <2>3 DEF Past
<1>4. BatchesHold' /\ BatchesOrdered' /\ ReportsBefore' /\ HeldAfter' /\ ReportsOrdered'
  BY <1>2 DEF OrderInv, BatchesHold, BatchesOrdered, ReportsBefore, HeldAfter,
              ReportsOrdered
<1> QED BY <1>3, <1>4 DEF OrderInv

-----------------------------------------------------------------------------
(* Match ptr *)

NewPair(m) == [number |-> m.number, window |-> round_up(m.time)]

LEMMA MatchTypes ==
  ASSUME ReaderInv, PairsOK, MatchPtr
  PROVE  /\ ReaderInv' /\ PairsOK' /\ CapsOK'
         /\ heldCap' \subseteq heldCap \cup {m.time : m \in flight}
         /\ \A c \in heldCap', d \in heldCap \cup {m.time : m \in flight} : c <= d
         /\ leakCap' \subseteq MatchFrontier
<1> DEFINE caps == heldCap \cup {m.time : m \in flight}
<1>1. /\ held' = held \cup {NewPair(m) : m \in flight}
      /\ heldCap' = Least(caps)
      /\ leakCap' = Least(MatchFrontier)
      /\ flight' = {}
      /\ UNCHANGED <<readVars, channel, wakeVars, source, fuel, exit, open, cap,
                     sealed, stash, reported>>
  BY DEF MatchPtr, NewPair
<1>2. /\ \A m \in flight : m.time \in Times /\ NewPair(m) \in Pair
      /\ MatchFrontier \subseteq Times /\ Times \subseteq Nat
  BY Ranges DEF NewPair
<1>3. caps \subseteq Times /\ caps \in SUBSET Nat /\ MatchFrontier \in SUBSET Nat
  BY <1>2 DEF PairsOK
<1>4. /\ Least(caps) \subseteq caps /\ Cardinality(Least(caps)) <= 1
      /\ \A x \in Least(caps), y \in caps : x <= y
      /\ caps = {} <=> Least(caps) = {}
  BY <1>3, LeastOf
<1>5. Least(MatchFrontier) \subseteq MatchFrontier /\ Cardinality(Least(MatchFrontier)) <= 1
  BY <1>3, LeastOf
<1>6. ReaderInv'
  BY <1>1, ReaderRest
<1>7. held' \subseteq Pair
  BY <1>1, <1>2 DEF PairsOK
<1>8. held' = {} <=> heldCap' = {}
  <2>1. held' = {} <=> held = {} /\ flight = {}
    BY <1>1
  <2>2. caps = {} <=> heldCap = {} /\ flight = {}
    OBVIOUS
  <2> QED BY <1>1, <1>4, <2>1, <2>2 DEF PairsOK
<1>9. leakCap' \subseteq Times /\ heldCap' \subseteq Times
  BY <1>1, <1>2, <1>3, <1>4, <1>5
<1>10. PairsOK'
  BY <1>1, <1>7, <1>8, <1>9 DEF PairsOK
<1> QED BY <1>1, <1>4, <1>5, <1>6, <1>10 DEF CapsOK

LEMMA MatchOrder ==
  ASSUME ReaderInv, PairsOK, OrderInv, MatchPtr
  PROVE  OrderInv'
<1>1. /\ held' = held \cup {NewPair(m) : m \in flight}
      /\ flight' = {}
      /\ UNCHANGED <<open, cap, sealed, stash, reported>>
  BY DEF MatchPtr, NewPair
<1>2. /\ ReaderInv' /\ PairsOK'
      /\ heldCap' \subseteq heldCap \cup {m.time : m \in flight}
      /\ \A c \in heldCap', d \in heldCap \cup {m.time : m \in flight} : c <= d
      /\ leakCap' \subseteq MatchFrontier
  BY MatchTypes
<1>3. Reported' = Reported /\ AllWaiting' = AllWaiting /\ \A t : Waiting(t)' = Waiting(t)
  BY <1>1 DEF Reported, AllWaiting, Waiting
<1>4. PairFrontier' \subseteq PairFrontier
  BY <1>1, <1>2 DEF PairFrontier, MatchFrontier
<1>5. \A m \in flight : /\ m.time \in PairFrontier /\ m.time \in Nat
                        /\ m.time <= NewPair(m).window /\ NewPair(m).window \in Nat
  BY Ranges DEF PairFrontier, MatchFrontier, NewPair, Times
<1>6. \A p \in Reported \cup AllWaiting : p.window \in Nat
  BY Ranges, WaitingPairs
<1>7. SentBefore'
  <2> SUFFICES ASSUME NEW p \in Reported \cup AllWaiting
               PROVE  /\ Past(p.window, PairFrontier)'
                      /\ \A q \in held' : p.window < q.window
                      /\ \A c \in heldCap' : p.window < c
    BY <1>3 DEF SentBefore, Past
  <2>1. /\ \A u \in PairFrontier : p.window < u
        /\ \A q \in held : p.window < q.window
        /\ \A c \in heldCap : p.window < c
        /\ p.window \in Nat
    BY <1>6 DEF OrderInv, SentBefore, Past
  <2>2. Past(p.window, PairFrontier)'
    BY <1>4, <2>1 DEF Past
  <2>3. ASSUME NEW q \in held' PROVE p.window < q.window
    <3>1. CASE q \in held
      BY <2>1, <3>1
    <3>2. CASE q \notin held
      <4>1. PICK m \in flight : q = NewPair(m)
        BY <1>1, <3>2
      <4>2. /\ p.window < m.time /\ m.time <= q.window
            /\ m.time \in Nat /\ q.window \in Nat
        BY <1>5, <2>1, <4>1
      <4> QED BY <2>1, <4>2
    <3> QED BY <3>1, <3>2
  <2>4. \A c \in heldCap' : p.window < c
    BY <1>2, <1>5, <2>1
  <2> QED BY <2>2, <2>3, <2>4
<1>8. HeldAfter'
  <2> SUFFICES ASSUME NEW c \in heldCap', NEW p \in held' PROVE c <= p.window
    BY DEF HeldAfter
  <2>1. c \in Nat
    BY <1>2 DEF PairsOK, Times
  <2>2. CASE p \in held
    <3>1. PICK d \in heldCap : TRUE
      BY <2>2 DEF PairsOK
    <3>2. c <= d /\ d <= p.window /\ d \in Nat /\ p.window \in Nat
      BY <1>2, <2>2, Ranges DEF OrderInv, HeldAfter, PairsOK
    <3> QED BY <2>1, <3>2
  <2>3. CASE p \notin held
    <3>1. PICK m \in flight : p = NewPair(m)
      BY <1>1, <2>3
    <3>2. c <= m.time /\ m.time <= p.window /\ m.time \in Nat /\ p.window \in Nat
      BY <1>2, <1>5, <3>1
    <3> QED BY <2>1, <3>2
  <2> QED BY <2>2, <2>3
<1>9. BatchesHold' /\ BatchesOrdered' /\ ReportsBefore' /\ ReportsOrdered'
  BY <1>1, <1>3 DEF OrderInv, BatchesHold, BatchesOrdered, ReportsBefore, ReportsOrdered
<1> QED BY <1>7, <1>8, <1>9 DEF OrderInv

-----------------------------------------------------------------------------
(* consolidate *)

LEMMA InWaiting ==
  ASSUME NEW t, NEW p
  PROVE  p \in Waiting(t) <=> p \in stash[t] \/ \E b \in sealed : b.time = t /\ p \in b.pairs
  BY DEF Waiting

LEMMA ConsolidateStep ==
  ASSUME ReaderInv, PairsOK, Consolidate
  PROVE  \E batch \in SUBSET held, t \in heldCap :
           /\ \A p \in held : p \in batch <=> Past(p.window, PairFrontier)
           /\ Past(t, PairFrontier)
           /\ sealed' = IF batch = {} THEN sealed
                        ELSE sealed \cup {[time |-> t, pairs |-> batch]}
           /\ held' = held \ batch
           /\ heldCap' = Least({p.window : p \in held'})
           /\ UNCHANGED <<readerVars, leakCap, stash, reported>>
<1> DEFINE batch == {p \in held : Past(p.window, PairFrontier)}
<1>1. PICK t \in heldCap :
           /\ Past(t, PairFrontier)
           /\ sealed' = IF batch = {} THEN sealed
                        ELSE sealed \cup {[time |-> t, pairs |-> batch]}
  BY DEF Consolidate
<1>2. /\ held' = held \ batch
      /\ heldCap' = Least({p.window : p \in held'})
      /\ UNCHANGED <<readerVars, leakCap, stash, reported>>
  BY DEF Consolidate
<1>3. batch \in SUBSET held /\ \A p \in held : p \in batch <=> Past(p.window, PairFrontier)
  OBVIOUS
<1> HIDE DEF batch
<1> QED BY <1>1, <1>2, <1>3

LEMMA ConsolidateTypes ==
  ASSUME ReaderInv, PairsOK, CapsOK, Consolidate
  PROVE  ReaderInv' /\ PairsOK' /\ CapsOK'
<1>1. PICK batch \in SUBSET held, t \in heldCap :
           /\ sealed' = IF batch = {} THEN sealed
                        ELSE sealed \cup {[time |-> t, pairs |-> batch]}
           /\ held' = held \ batch
           /\ heldCap' = Least({p.window : p \in held'})
           /\ UNCHANGED <<readerVars, leakCap, stash, reported>>
  BY ConsolidateStep
<1> DEFINE windows == {p.window : p \in held'}
<1>2. held' \subseteq Pair /\ windows \subseteq Times /\ windows \in SUBSET Nat
  BY <1>1, Ranges DEF PairsOK
<1>3. /\ Least(windows) \subseteq windows /\ Cardinality(Least(windows)) <= 1
      /\ windows = {} <=> Least(windows) = {}
  BY <1>2, LeastOf
<1>4. windows = {} <=> held' = {}
  OBVIOUS
<1>5. sealed' \subseteq [time : Times, pairs : SUBSET Pair]
  BY <1>1 DEF PairsOK
<1> HIDE DEF windows
<1>6. heldCap' = Least(windows) /\ (held' = {} <=> heldCap' = {}) /\ heldCap' \subseteq Times
  BY <1>1, <1>2, <1>3, <1>4 DEF windows
<1>7. PairsOK' /\ CapsOK'
  BY <1>1, <1>2, <1>3, <1>5, <1>6 DEF PairsOK, CapsOK
<1> QED BY <1>1, <1>7, ReaderRest

LEMMA ConsolidateOrder ==
  ASSUME ReaderInv, PairsOK, CapsOK, OrderInv, Consolidate
  PROVE  OrderInv'
<1>1. PICK batch \in SUBSET held, t \in heldCap :
           /\ \A p \in held : p \in batch <=> Past(p.window, PairFrontier)
           /\ Past(t, PairFrontier)
           /\ sealed' = IF batch = {} THEN sealed
                        ELSE sealed \cup {[time |-> t, pairs |-> batch]}
           /\ held' = held \ batch
           /\ heldCap' = Least({p.window : p \in held'})
           /\ UNCHANGED <<readerVars, leakCap, stash, reported>>
  BY ConsolidateStep
<1>2. t \in Times /\ t \in Nat /\ Times \subseteq Nat /\ PairFrontier \subseteq Nat
  BY Ranges DEF PairsOK
<1>3. \A u \in Times : Waiting(u)' = IF u = t THEN Waiting(u) \cup batch ELSE Waiting(u)
  <2> SUFFICES ASSUME NEW u \in Times
               PROVE  Waiting(u)' = IF u = t THEN Waiting(u) \cup batch ELSE Waiting(u)
    OBVIOUS
  <2>1. CASE batch = {}
    BY <1>1, <2>1 DEF Waiting
  <2>2. CASE batch # {}
    <3>1. sealed' = sealed \cup {[time |-> t, pairs |-> batch]} /\ stash' = stash
      BY <1>1, <2>2
    <3>2. ASSUME NEW p
          PROVE  p \in Waiting(u)' <=> p \in Waiting(u) \/ (u = t /\ p \in batch)
      <4> DEFINE new == [time |-> t, pairs |-> batch]
      <4>1. new.time = t /\ new.pairs = batch
        OBVIOUS
      <4>2. sealed' = sealed \cup {new}
        BY <3>1
      <4> HIDE DEF new
      <4>3. p \in Waiting(u)' <=>
              p \in stash[u] \/ \E b \in sealed' : b.time = u /\ p \in b.pairs
        BY <3>1 DEF Waiting
      <4> QED BY <4>1, <4>2, <4>3, InWaiting
    <3>3. CASE u = t
      <4>1. \A p : p \in Waiting(u)' <=> p \in Waiting(u) \cup batch
        BY <3>2, <3>3
      <4>2. Waiting(u)' = Waiting(u) \cup batch
        BY <4>1
      <4> QED BY <3>3, <4>2
    <3>4. CASE u # t
      <4>1. \A p : p \in Waiting(u)' <=> p \in Waiting(u)
        BY <3>2, <3>4
      <4>2. Waiting(u)' = Waiting(u)
        BY <4>1
      <4> QED BY <3>4, <4>2
    <3> QED BY <3>3, <3>4
  <2> QED BY <2>1, <2>2
<1>4. Reported' = Reported /\ AllWaiting' = AllWaiting \cup batch
  BY <1>1, <1>2, <1>3 DEF Reported, AllWaiting
<1>5. PairFrontier' = PairFrontier
  BY <1>1 DEF PairFrontier, MatchFrontier
<1>6. \A p \in Reported \cup AllWaiting \cup held : p.window \in Nat
  BY Ranges, WaitingPairs DEF PairsOK
<1>7. \A p \in Reported \cup AllWaiting :
        p.window < t /\ Past(p.window, PairFrontier) /\ \A q \in held : p.window < q.window
  BY DEF OrderInv, SentBefore
<1>8. \A p \in batch : t <= p.window /\ \A u \in PairFrontier : p.window < u
  BY <1>1 DEF OrderInv, HeldAfter, Past
<1>9. ASSUME NEW p \in batch, NEW q \in held' PROVE p.window < q.window
  <2>1. q \in held /\ ~Past(q.window, PairFrontier)
    BY <1>1
  <2>2. PICK u \in PairFrontier : ~(q.window < u)
    BY <2>1 DEF Past
  <2>3. p.window \in Nat /\ q.window \in Nat /\ u \in Nat /\ p.window < u
    BY <1>2, <1>6, <1>8, <2>1
  <2> QED BY <2>2, <2>3
<1>10. \A c \in heldCap' : /\ \E q \in held' : c = q.window
                           /\ \A q \in held' : c <= q.window
  BY <1>1 DEF Least
<1>11. SentBefore'
  <2>1. \A p \in Reported' \cup AllWaiting' :
          /\ Past(p.window, PairFrontier)
          /\ \A q \in held' : p.window < q.window
    BY <1>1, <1>4, <1>7, <1>9
  <2>2. \A p \in Reported' \cup AllWaiting' : \A c \in heldCap' : p.window < c
    BY <1>10, <2>1
  <2> QED BY <1>5, <2>1, <2>2 DEF SentBefore, Past
<1>12. HeldAfter'
  BY <1>10 DEF HeldAfter
<1>13. BatchesHold'
  BY <1>3, <1>8 DEF OrderInv, BatchesHold
<1>14. ASSUME NEW u \in Times, Waiting(u) # {} PROVE u < t
  <2>1. PICK q \in Waiting(u) : TRUE
    BY <1>14
  <2>2. q \in AllWaiting /\ u <= q.window /\ u \in Nat
    BY <1>2, <2>1 DEF AllWaiting, OrderInv, BatchesHold
  <2>3. q.window < t /\ q.window \in Nat
    BY <1>6, <1>7, <2>2
  <2> QED BY <1>2, <2>2, <2>3
<1>15. BatchesOrdered'
  <2> SUFFICES ASSUME NEW v \in Times, NEW u \in Times, v < u, Waiting(u)' # {},
                      NEW p \in Waiting(v)'
               PROVE  p.window < u
    BY DEF BatchesOrdered
  <2>1. v \in Nat /\ u \in Nat
    BY <1>2
  <2>2. CASE u = t
    <3>1. p \in Waiting(v)
      BY <1>3, <2>1, <2>2
    <3>2. p \in AllWaiting
      BY <3>1 DEF AllWaiting
    <3> QED BY <1>7, <2>2, <3>2
  <2>3. CASE u # t
    <3>1. Waiting(u) # {} /\ u < t
      BY <1>3, <1>14, <2>3
    <3>2. v # t
      BY <1>2, <2>1, <3>1
    <3>3. p \in Waiting(v)
      BY <1>3, <3>2
    <3> QED BY <3>1, <3>3 DEF OrderInv, BatchesOrdered
  <2> QED BY <2>2, <2>3
<1>16. ReportsBefore'
  <2> SUFFICES ASSUME NEW p \in Reported, NEW u \in Times, Waiting(u)' # {}
               PROVE  p.window < u
    BY <1>4 DEF ReportsBefore
  <2>1. CASE u = t
    BY <1>7, <2>1
  <2>2. CASE u # t
    BY <1>3, <2>2 DEF OrderInv, ReportsBefore
  <2> QED BY <2>1, <2>2
<1>17. ReportsOrdered'
  BY <1>1 DEF OrderInv, ReportsOrdered
<1> QED BY <1>11, <1>12, <1>13, <1>15, <1>16, <1>17 DEF OrderInv

-----------------------------------------------------------------------------
(* group_by_window *)

\* A step that reports the batches of the times due, in order: n of them.
Reports(due, n, order) ==
  /\ n \in Nat /\ order \in [1 .. n -> due] /\ due \subseteq Times
  /\ \A t \in Times : t \in due <=> stash[t] # {} /\ Past(t, BatchFrontier)
  /\ \A i, j \in 1 .. n : i < j => order[i] < order[j]
  /\ \A t \in due : \E i \in 1 .. n : order[i] = t
  /\ Len(reported) \in Nat /\ DOMAIN reported = 1 .. Len(reported)
  /\ DOMAIN reported' = 1 .. Len(reported) + n
  /\ \A i \in 1 .. Len(reported) : reported'[i] = reported[i]
  /\ \A i \in 1 .. n : reported'[Len(reported) + i] = stash[order[i]]
  /\ \A t \in due : Waiting(t) = stash[t] /\ \A b \in sealed : b.time # t
  /\ \A t \in Times : stash'[t] = IF t \in due THEN {} ELSE Waiting(t)
  /\ sealed' = {}
  /\ UNCHANGED <<readerVars, leakCap, held, heldCap>>

LEMMA GroupStep ==
  ASSUME ReaderInv, PairsOK, GroupByWindow
  PROVE  /\ PairsOK'
         /\ \E due, n, order : Reports(due, n, order)
<1> DEFINE due == {t \in Times : stash[t] # {} /\ Past(t, BatchFrontier)}
           n == Cardinality(due)
<1>1. PICK order \in Ascending(due) :
        reported' = reported \o [i \in DOMAIN order |-> stash[order[i]]]
  BY DEF GroupByWindow
<1>2. n \in Nat
  <2>1. IsFiniteSet(Times)
    BY FS_Interval DEF Times
  <2>2. IsFiniteSet(due)
    BY <2>1, FS_Subset
  <2> QED BY <2>2, FS_CardinalityType
<1>3. due \subseteq Times /\ \A t \in Times : t \in due <=> stash[t] # {} /\ Past(t, BatchFrontier)
  OBVIOUS
<1>4. /\ stash' = [t \in Times |-> IF t \in due THEN {}
                   ELSE stash[t] \cup UNION {b.pairs : b \in {c \in sealed : c.time = t}}]
      /\ sealed' = {}
      /\ UNCHANGED <<readerVars, leakCap, held, heldCap>>
  BY DEF GroupByWindow
<1> HIDE DEF due
<1>5. /\ order \in [1 .. n -> due]
      /\ \A i, j \in 1 .. n : i < j => order[i] < order[j]
      /\ \A t \in due : \E i \in 1 .. n : order[i] = t
  BY <1>1 DEF Ascending
<1> HIDE DEF n
<1> DEFINE new == [i \in 1 .. n |-> stash[order[i]]]
<1>6. reported \in Seq(SUBSET Pair) /\ new \in Seq(SUBSET Pair) /\ Len(new) = n
      /\ \A i \in 1 .. n : new[i] = stash[order[i]]
  BY <1>2, <1>3, <1>5 DEF PairsOK
<1>7. reported' = reported \o new
  BY <1>1, <1>5
<1> HIDE DEF new
<1>8. /\ reported' \in Seq(SUBSET Pair) /\ Len(reported') = Len(reported) + Len(new)
      /\ \A i \in 1 .. Len(reported) + Len(new) :
           reported'[i] = IF i <= Len(reported) THEN reported[i] ELSE new[i - Len(reported)]
  <2>1. /\ reported \o new \in Seq(SUBSET Pair)
        /\ Len(reported \o new) = Len(reported) + Len(new)
        /\ \A i \in 1 .. Len(reported) + Len(new) :
             (reported \o new)[i] = IF i <= Len(reported) THEN reported[i]
                                    ELSE new[i - Len(reported)]
    BY <1>6, ConcatProperties, ZenonT(40)
  <2> QED BY <1>7, <2>1, Zenon
<1>9. Len(reported) \in Nat /\ DOMAIN reported = 1 .. Len(reported)
      /\ DOMAIN reported' = 1 .. Len(reported) + n
  BY <1>6, <1>8
<1>10. \A i \in 1 .. Len(reported) : reported'[i] = reported[i]
  BY <1>2, <1>6, <1>8, <1>9
<1>11. ASSUME NEW i \in 1 .. n PROVE reported'[Len(reported) + i] = stash[order[i]]
  <2>1. /\ Len(reported) + i \in 1 .. Len(reported) + n
        /\ ~(Len(reported) + i <= Len(reported)) /\ (Len(reported) + i) - Len(reported) = i
    BY <1>2, <1>9
  <2> QED BY <1>6, <1>8, <2>1
<1>12. ASSUME NEW t \in due PROVE Waiting(t) = stash[t] /\ \A b \in sealed : b.time # t
  <2>1. ASSUME NEW b \in sealed PROVE b.time # t
    <3>1. t < b.time /\ t \in Nat
      BY <1>3, Ranges DEF BatchFrontier, Past
    <3> QED BY <3>1
  <2>2. \A p : p \in Waiting(t) <=> p \in stash[t]
    BY <2>1, InWaiting
  <2> QED BY <2>1, <2>2
<1>13. \A t \in Times : stash'[t] = IF t \in due THEN {} ELSE Waiting(t)
  BY <1>4 DEF Waiting
<1>14. PairsOK'
  <2>1. stash' \in [Times -> SUBSET Pair]
    <3>1. \A t \in Times : (IF t \in due THEN {} ELSE Waiting(t)) \in SUBSET Pair
      BY WaitingPairs
    <3> QED BY <1>4, <3>1 DEF Waiting
  <2> QED BY <1>4, <1>8, <2>1 DEF PairsOK
<1>15. Reports(due, n, order)
  BY <1>2, <1>3, <1>4, <1>5, <1>9, <1>10, <1>11, <1>12, <1>13 DEF Reports
<1> QED BY <1>14, <1>15

LEMMA GroupOrder ==
  ASSUME ReaderInv, PairsOK, CapsOK, OrderInv, GroupByWindow
  PROVE  ReaderInv' /\ PairsOK' /\ CapsOK' /\ OrderInv'
<1>1. PICK due, n, order : Reports(due, n, order)
  BY GroupStep
<1> DEFINE l == Len(reported)
<1>2. /\ n \in Nat /\ order \in [1 .. n -> due] /\ due \subseteq Times
      /\ \A t \in Times : t \in due <=> stash[t] # {} /\ Past(t, BatchFrontier)
      /\ \A i, j \in 1 .. n : i < j => order[i] < order[j]
      /\ \A t \in due : \E i \in 1 .. n : order[i] = t
      /\ l \in Nat /\ DOMAIN reported = 1 .. l /\ DOMAIN reported' = 1 .. l + n
      /\ \A i \in 1 .. l : reported'[i] = reported[i]
      /\ \A i \in 1 .. n : reported'[l + i] = stash[order[i]]
      /\ \A t \in due : Waiting(t) = stash[t]
  BY <1>1 DEF Reports
<1>3. /\ \A t \in Times : stash'[t] = IF t \in due THEN {} ELSE Waiting(t)
      /\ sealed' = {}
      /\ UNCHANGED <<readerVars, leakCap, held, heldCap>>
  BY <1>1 DEF Reports
<1> HIDE DEF l
<1>4. \A t \in Times : Waiting(t)' = IF t \in due THEN {} ELSE Waiting(t)
  <2> SUFFICES ASSUME NEW t \in Times
               PROVE  Waiting(t)' = IF t \in due THEN {} ELSE Waiting(t)
    OBVIOUS
  <2>1. Waiting(t)' = stash'[t] \cup UNION {b.pairs : b \in {c \in sealed' : c.time = t}}
    BY DEF Waiting
  <2>2. {b.pairs : b \in {c \in sealed' : c.time = t}} = {}
    BY <1>3
  <2>3. Waiting(t)' = stash'[t]
    BY <2>1, <2>2
  <2> QED BY <1>3, <2>3
<1>5. ASSUME NEW i \in 1 .. l + n
      PROVE  i \in 1 .. l \/ \E j \in 1 .. n : i = l + j
  <2>1. CASE i <= l
    BY <1>2, <2>1
  <2>2. CASE ~(i <= l)
    <3>1. i - l \in 1 .. n /\ i = l + (i - l)
      BY <1>2, <2>2
    <3> QED BY <3>1
  <2> QED BY <2>1, <2>2
<1>6. ASSUME NEW p \in Reported'
      PROVE  p \in Reported \/ \E t \in due : p \in Waiting(t)
  <2>1. PICK i \in 1 .. l + n : p \in reported'[i]
    BY <1>2 DEF Reported
  <2>2. CASE i \in 1 .. l
    BY <1>2, <2>1, <2>2 DEF Reported
  <2>3. CASE \E j \in 1 .. n : i = l + j
    <3>1. PICK j \in 1 .. n : i = l + j
      BY <2>3
    <3>2. order[j] \in due /\ reported'[i] = stash[order[j]]
      BY <1>2, <3>1
    <3>3. p \in Waiting(order[j])
      BY <1>2, <2>1, <3>2
    <3> QED BY <3>2, <3>3
  <2> QED BY <1>5, <2>2, <2>3
<1>7. \A p \in Reported' \cup AllWaiting' : p \in Reported \cup AllWaiting
  BY <1>2, <1>4, <1>6 DEF AllWaiting
<1>8. PairFrontier' = PairFrontier
  BY <1>3 DEF PairFrontier, MatchFrontier
<1>9. SentBefore'
  BY <1>3, <1>7, <1>8 DEF OrderInv, SentBefore, Past
<1>10. BatchesHold' /\ BatchesOrdered' /\ HeldAfter'
  BY <1>3, <1>4 DEF OrderInv, BatchesHold, BatchesOrdered, HeldAfter
<1>11. ASSUME NEW t \in due, NEW u \in Times, Waiting(u) # {}, u \notin due
       PROVE  t < u
  <2>1. Past(t, BatchFrontier) /\ t \in Nat /\ u \in Nat /\ BatchFrontier \subseteq Nat
    BY <1>2, Ranges
  <2>2. CASE stash[u] = {}
    <3>1. PICK b \in sealed : b.time = u
      BY <1>11, <2>2, InWaiting
    <3> QED BY <2>1, <3>1 DEF BatchFrontier, Past
  <2>3. CASE stash[u] # {}
    <3>1. PICK v \in BatchFrontier : ~(u < v)
      BY <1>2, <1>11, <2>3 DEF Past
    <3>2. t < v /\ v \in Nat
      BY <2>1, <3>1 DEF Past
    <3> QED BY <2>1, <3>1, <3>2
  <2> QED BY <2>2, <2>3
<1>12. ReportsBefore'
  <2> SUFFICES ASSUME NEW p \in Reported', NEW u \in Times, Waiting(u)' # {}
               PROVE  p.window < u
    BY DEF ReportsBefore
  <2>1. u \notin due /\ Waiting(u) # {}
    BY <1>4
  <2>2. CASE p \in Reported
    BY <2>1, <2>2 DEF OrderInv, ReportsBefore
  <2>3. CASE p \notin Reported
    <3>1. PICK t \in due : p \in Waiting(t)
      BY <1>6, <2>3
    <3>2. t < u /\ t \in Times
      BY <1>2, <1>11, <2>1
    <3> QED BY <2>1, <3>1, <3>2 DEF OrderInv, BatchesOrdered
  <2> QED BY <2>2, <2>3
<1>13. ReportsOrdered'
  <2> SUFFICES ASSUME NEW i \in 1 .. l + n, NEW j \in 1 .. l + n, i < j,
                      NEW p \in reported'[i], NEW q \in reported'[j]
               PROVE  p.window < q.window
    BY <1>2 DEF ReportsOrdered
  <2>1. CASE j \in 1 .. l
    <3>1. i \in 1 .. l
      BY <1>2, <2>1
    <3> QED BY <1>2, <2>1, <3>1 DEF OrderInv, ReportsOrdered
  <2>2. CASE j \notin 1 .. l
    <3>1. PICK jj \in 1 .. n : j = l + jj
      BY <1>5, <2>2
    <3> DEFINE u == order[jj]
    <3>2. u \in due /\ u \in Times /\ u \in Nat /\ q \in Waiting(u)
      BY <1>2, <3>1, Ranges
    <3>3. u <= q.window /\ q.window \in Nat
      BY <3>2, Ranges, WaitingPairs DEF OrderInv, BatchesHold
    <3>4. p.window < u /\ p.window \in Nat
      <4>1. CASE i \in 1 .. l
        <5>1. p \in Reported
          BY <1>2, <4>1 DEF Reported
        <5> QED BY <3>2, <5>1, Ranges, WaitingPairs DEF OrderInv, ReportsBefore
      <4>2. CASE i \notin 1 .. l
        <5>1. PICK ii \in 1 .. n : i = l + ii
          BY <1>5, <4>2
        <5>2. ii < jj
          BY <1>2, <3>1, <5>1
        <5>3. order[ii] \in due /\ reported'[i] = stash[order[ii]]
          BY <1>2, <5>1
        <5>4. order[ii] < u /\ order[ii] \in Times
          BY <1>2, <5>2, <5>3
        <5>5. p \in Waiting(order[ii])
          BY <1>2, <5>3
        <5> QED BY <3>2, <5>4, <5>5, Ranges, WaitingPairs DEF OrderInv, BatchesOrdered
      <4> QED BY <4>1, <4>2
    <3> QED BY <3>2, <3>3, <3>4
  <2> QED BY <2>1, <2>2
<1>14. ReaderInv'
  BY <1>3, ReaderRest
<1>15. CapsOK'
  BY <1>3 DEF CapsOK
<1> QED BY <1>9, <1>10, <1>12, <1>13, <1>14, <1>15, GroupStep DEF OrderInv

-----------------------------------------------------------------------------
(* The one place of every pair. *)

\* Message n's instructions, or their pair, are the e in place k, i.
Has(n, k, i, e) ==
  /\ e.number = n
  /\ \/ k = "hand" /\ i = 0 /\ e = hand /\ hand.instructions
     \/ k = "channel" /\ i \in DOMAIN channel /\ e = channel[i] /\ channel[i].instructions
     \/ k = "flight" /\ i = 0 /\ e \in flight
     \/ k = "held" /\ i = 0 /\ e \in held
     \/ k = "sealed" /\ i \in sealed /\ e \in i.pairs
     \/ k = "stash" /\ i \in Times /\ e \in stash[i]
     \/ k = "reported" /\ i \in DOMAIN reported /\ e \in reported[i]

Only(n, l, j, d) == \A k, i, e : Has(n, k, i, e) <=> k = l /\ i = j /\ e = d
Nowhere(n) == \A k, i, e : ~Has(n, k, i, e)

OnePlace(n) == IF n \in carried THEN \E l, j, d : Only(n, l, j, d) ELSE Nowhere(n)

PlacesInv == \A n \in 1 .. MaxMessages : OnePlace(n)

LEMMA WhereHas ==
  ASSUME NEW n, NEW x
  PROVE  x \in Where(n) <=> \E k, i, e : x = <<k, i, e>> /\ Has(n, k, i, e)
<1> DEFINE Of(things) == {y \in things : y.number = n}
           Sealed(b) == {<<"sealed", b, p>> : p \in Of(b.pairs)}
           Stash(t) == {<<"stash", t, p>> : p \in Of(stash[t])}
           Report(i) == {<<"reported", i, p>> : p \in Of(reported[i])}
<1> DEFINE Hand == {<<"hand", 0, m>> : m \in Of({m \in {hand} : m.instructions})}
           Channel == {<<"channel", i, channel[i]>> :
                         i \in {i \in DOMAIN channel : channel[i].instructions
                                                       /\ channel[i].number = n}}
           Flight == {<<"flight", 0, m>> : m \in Of(flight)}
           Held == {<<"held", 0, p>> : p \in Of(held)}
           AllSealed == UNION {Sealed(b) : b \in sealed}
           AllStash == UNION {Stash(t) : t \in Times}
           AllReports == UNION {Report(i) : i \in DOMAIN reported}
<1>0. Where(n) = Hand \cup Channel \cup Flight \cup Held \cup AllSealed \cup AllStash
                   \cup AllReports
  BY Zenon DEF Where
<1>1. x \in Where(n) <=> \/ x \in Hand \/ x \in Channel \/ x \in Flight \/ x \in Held
                          \/ x \in AllSealed \/ x \in AllStash \/ x \in AllReports
  <2> HIDE DEF Hand, Channel, Flight, Held, AllSealed, AllStash, AllReports
  <2> QED BY <1>0
<1>2. /\ \A b : x \in Sealed(b) <=> \E p \in b.pairs : p.number = n /\ x = <<"sealed", b, p>>
      /\ \A t : x \in Stash(t) <=> \E p \in stash[t] : p.number = n /\ x = <<"stash", t, p>>
      /\ \A i : x \in Report(i) <=>
                  \E p \in reported[i] : p.number = n /\ x = <<"reported", i, p>>
  OBVIOUS
<1>3. /\ x \in {<<"hand", 0, m>> : m \in Of({m \in {hand} : m.instructions})}
           <=> hand.instructions /\ hand.number = n /\ x = <<"hand", 0, hand>>
      /\ x \in {<<"channel", i, channel[i]>> :
                    i \in {i \in DOMAIN channel : channel[i].instructions
                                                  /\ channel[i].number = n}}
           <=> \E i \in DOMAIN channel : /\ channel[i].instructions /\ channel[i].number = n
                                         /\ x = <<"channel", i, channel[i]>>
      /\ x \in {<<"flight", 0, m>> : m \in Of(flight)}
           <=> \E m \in flight : m.number = n /\ x = <<"flight", 0, m>>
      /\ x \in {<<"held", 0, p>> : p \in Of(held)}
           <=> \E p \in held : p.number = n /\ x = <<"held", 0, p>>
  OBVIOUS
<1> HIDE DEF Sealed, Stash, Report
<1>4. /\ x \in UNION {Sealed(b) : b \in sealed} <=> \E b \in sealed : x \in Sealed(b)
      /\ x \in UNION {Stash(t) : t \in Times} <=> \E t \in Times : x \in Stash(t)
      /\ x \in UNION {Report(i) : i \in DOMAIN reported} <=>
           \E i \in DOMAIN reported : x \in Report(i)
  OBVIOUS
<1>5. x \in Where(n) <=>
        \/ hand.instructions /\ hand.number = n /\ x = <<"hand", 0, hand>>
        \/ \E i \in DOMAIN channel : /\ channel[i].instructions /\ channel[i].number = n
                                     /\ x = <<"channel", i, channel[i]>>
        \/ \E m \in flight : m.number = n /\ x = <<"flight", 0, m>>
        \/ \E p \in held : p.number = n /\ x = <<"held", 0, p>>
        \/ \E b \in sealed : \E p \in b.pairs : p.number = n /\ x = <<"sealed", b, p>>
        \/ \E t \in Times : \E p \in stash[t] : p.number = n /\ x = <<"stash", t, p>>
        \/ \E i \in DOMAIN reported : \E p \in reported[i] :
             p.number = n /\ x = <<"reported", i, p>>
  BY <1>1, <1>2, <1>3, <1>4
<1>6. ASSUME NEW k, NEW i, NEW e, x = <<k, i, e>>, Has(n, k, i, e) PROVE x \in Where(n)
  BY <1>5, <1>6 DEF Has
<1>7. ASSUME x \in Where(n) PROVE \E k, i, e : x = <<k, i, e>> /\ Has(n, k, i, e)
  BY <1>5, <1>7 DEF Has
<1> QED BY <1>6, <1>7

LEMMA PlacesCount ==
  ASSUME PlacesInv
  PROVE  CountedOnce
<1> SUFFICES ASSUME NEW n \in 1 .. MaxMessages
             PROVE  /\ n \in carried <=> Where(n) # {}
                    /\ \A x, y \in Where(n) : x = y
  BY DEF CountedOnce
<1>1. CASE n \in carried
  <2>1. PICK l, j, d : \A k, i, e : Has(n, k, i, e) <=> k = l /\ i = j /\ e = d
    BY <1>1 DEF PlacesInv, OnePlace, Only
  <2>2. \A x : x \in Where(n) <=> x = <<l, j, d>>
    BY <2>1, WhereHas
  <2>3. Where(n) = {<<l, j, d>>}
    BY <2>2
  <2> QED BY <1>1, <2>3
<1>2. CASE n \notin carried
  <2>1. \A k, i, e : ~Has(n, k, i, e)
    BY <1>2 DEF PlacesInv, OnePlace, Nowhere
  <2>2. \A x : x \notin Where(n)
    BY <2>1, WhereHas
  <2> QED BY <1>2, <2>2
<1> QED BY <1>1, <1>2

LEMMA PlacesSame ==
  ASSUME PlacesInv, carried' = carried,
         \A n, k, i, e : Has(n, k, i, e)' <=> Has(n, k, i, e)
  PROVE  PlacesInv'
<1>1. ASSUME NEW n \in 1 .. MaxMessages PROVE OnePlace(n)'
  <2>1. OnePlace(n)
    BY DEF PlacesInv
  <2>2. CASE n \in carried
    <3>1. PICK l, j, d : Only(n, l, j, d)
      BY <2>1, <2>2 DEF OnePlace
    <3>2. Only(n, l, j, d)'
      BY <3>1 DEF Only
    <3> QED BY <2>2, <3>2 DEF OnePlace
  <2>3. CASE n \notin carried
    BY <2>1, <2>3 DEF OnePlace, Nowhere
  <2> QED BY <2>2, <2>3
<1> QED BY <1>1 DEF PlacesInv

\* A step that takes what is in one place to one place.
LEMMA PlacesMove ==
  ASSUME PlacesInv, carried' = carried,
         \A n : Nowhere(n) => Nowhere(n)',
         \A n, k, i, e : Only(n, k, i, e) => \E l, j, d : Only(n, l, j, d)'
  PROVE  PlacesInv'
<1>1. ASSUME NEW n \in 1 .. MaxMessages PROVE OnePlace(n)'
  <2>1. OnePlace(n)
    BY DEF PlacesInv
  <2>2. CASE n \in carried
    <3>1. PICK k, i, e : Only(n, k, i, e)
      BY <2>1, <2>2 DEF OnePlace
    <3>2. \E l, j, d : Only(n, l, j, d)'
      BY <3>1
    <3> QED BY <2>2, <3>2 DEF OnePlace
  <2>3. CASE n \notin carried
    <3>1. Nowhere(n)'
      BY <2>1, <2>3 DEF OnePlace
    <3> QED BY <2>3, <3>1 DEF OnePlace
  <2> QED BY <2>2, <2>3
<1> QED BY <1>1 DEF PlacesInv

LEMMA ReadPlaces ==
  ASSUME ReaderInv, PlacesInv, Read, UNCHANGED windowVars
  PROVE  PlacesInv'
<1>1. PICK instructions \in BOOLEAN :
        /\ hand'.number = reads + 1 /\ hand'.instructions = instructions
        /\ carried' = IF instructions THEN carried \cup {reads + 1} ELSE carried
        /\ UNCHANGED <<channel, flight, held, sealed, stash, reported>>
  BY DEF Read
<1>2. /\ hand = NoMessage /\ reads \in Nat /\ reads + 1 \notin carried
      /\ ReaderTypeOK
  BY DEF Read, ReaderInv, ReaderTypeOK
<1>3. ASSUME NEW n, NEW k, NEW i, NEW e
      PROVE  Has(n, k, i, e)' <=>
               \/ Has(n, k, i, e)
               \/ n = reads + 1 /\ instructions /\ k = "hand" /\ i = 0 /\ e = hand'
  BY <1>1, <1>2 DEF Has, NoMessage
<1>4. ASSUME NEW n \in 1 .. MaxMessages PROVE OnePlace(n)'
  <2>1. OnePlace(n)
    BY DEF PlacesInv
  <2>2. CASE n = reads + 1 /\ instructions
    <3>1. Nowhere(n) /\ n \in carried'
      BY <1>1, <1>2, <2>1, <2>2 DEF OnePlace
    <3> DEFINE h == hand
    <3>2. \A k, i, e : Has(n, k, i, e)' <=> k = "hand" /\ i = 0 /\ e = hand'
      BY <1>3, <2>2, <3>1 DEF Nowhere
    <3>3. PICK d : d = hand'
      OBVIOUS
    <3>4. Only(n, "hand", 0, d)'
      BY <3>2, <3>3 DEF Only
    <3> QED BY <3>1, <3>4 DEF OnePlace
  <2>3. CASE ~(n = reads + 1 /\ instructions)
    <3>1. \A k, i, e : Has(n, k, i, e)' <=> Has(n, k, i, e)
      BY <1>3, <2>3
    <3>2. n \in carried' <=> n \in carried
      BY <1>1, <2>3
    <3> QED BY <2>1, <3>1, <3>2 DEF OnePlace, Only, Nowhere
  <2> QED BY <2>2, <2>3
<1> QED BY <1>4 DEF PlacesInv

LEMMA SendPlaces ==
  ASSUME ReaderInv, PlacesInv, Send, UNCHANGED windowVars
  PROVE  PlacesInv'
<1>1. /\ channel' = Append(channel, hand) /\ hand' = NoMessage
      /\ UNCHANGED <<carried, flight, held, sealed, stash, reported>>
      /\ hand \in Message /\ channel \in Seq(Message)
  BY DEF Send, ReaderInv, ReaderTypeOK
<1> DEFINE l == Len(channel)
<1>2. /\ l \in Nat /\ DOMAIN channel = 1 .. l /\ DOMAIN channel' = 1 .. l + 1
      /\ \A i \in 1 .. l : channel'[i] = channel[i]
      /\ channel'[l + 1] = hand
  BY <1>1, AppendProperties
<1>3. PICK last : last = l + 1
  OBVIOUS
<1> HIDE DEF l
<1>4. /\ DOMAIN channel' = DOMAIN channel \cup {last} /\ last \notin DOMAIN channel
      /\ \A i \in DOMAIN channel : channel'[i] = channel[i]
      /\ channel'[last] = hand
  BY <1>2, <1>3
<1>5. ASSUME NEW n, NEW k, NEW i, NEW e
      PROVE  Has(n, k, i, e)' <=>
               \/ k # "hand" /\ Has(n, k, i, e)
               \/ k = "channel" /\ i = last /\ Has(n, "hand", 0, e)
  BY <1>1, <1>4 DEF Has, NoMessage
<1>6. ASSUME NEW n \in 1 .. MaxMessages PROVE OnePlace(n)'
  <2>1. OnePlace(n)
    BY DEF PlacesInv
  <2>2. CASE n \in carried
    <3>1. PICK k0, i0, e0 : Only(n, k0, i0, e0)
      BY <2>1, <2>2 DEF OnePlace
    <3>2. CASE k0 = "hand"
      <4>1. i0 = 0
        BY <3>1, <3>2 DEF Only, Has
      <4>2. Only(n, "channel", last, e0)'
        BY <1>5, <3>1, <3>2, <4>1 DEF Only
      <4> QED BY <1>1, <2>2, <4>2 DEF OnePlace
    <3>3. CASE k0 # "hand"
      <4>1. Only(n, k0, i0, e0)'
        BY <1>5, <3>1, <3>3 DEF Only
      <4> QED BY <1>1, <2>2, <4>1 DEF OnePlace
    <3> QED BY <3>2, <3>3
  <2>3. CASE n \notin carried
    BY <1>1, <1>5, <2>1, <2>3 DEF OnePlace, Nowhere
  <2> QED BY <2>2, <2>3
<1> QED BY <1>6 DEF PlacesInv

LEMMA TakeMessagePlaces ==
  ASSUME ReaderInv, PlacesInv, TakeMessage, UNCHANGED windowVars
  PROVE  PlacesInv'
<1> DEFINE m == Head(channel)
           last == Len(channel)
<1>1. PICK t, new : t = cap' /\ new = [number |-> m.number, time |-> t]
  OBVIOUS
<1>2. /\ channel # << >> /\ channel' = Tail(channel)
      /\ flight' = IF m.instructions THEN flight \cup {new} ELSE flight
      /\ UNCHANGED <<hand, carried, held, sealed, stash, reported>>
      /\ channel \in Seq(Message)
  BY <1>1 DEF TakeMessage, Sends, ReaderInv, ReaderTypeOK
<1>3. new.number = m.number
  BY <1>1
<1>4. /\ m = channel[1] /\ last \in Nat \ {0} /\ 1 \in DOMAIN channel
      /\ DOMAIN channel = 1 .. last /\ DOMAIN channel' = 1 .. last - 1
      /\ \A i \in 1 .. last - 1 : channel'[i] = channel[i + 1]
  BY <1>2, HeadTailProperties
<1> HIDE DEF m, last
<1>5. ASSUME NEW n, NEW i, NEW e
      PROVE  Has(n, "channel", i, e)' <=> i \in 1 .. last - 1 /\ Has(n, "channel", i + 1, e)
  <2>1. i \in 1 .. last - 1 => i + 1 \in DOMAIN channel
    BY <1>4
  <2> QED BY <1>4, <2>1 DEF Has
<1>6. ASSUME NEW n, NEW i, NEW e
      PROVE  Has(n, "flight", i, e)' <=>
               \/ Has(n, "flight", i, e)
               \/ i = 0 /\ e = new /\ Has(n, "channel", 1, m)
  BY <1>2, <1>3, <1>4 DEF Has
<1>7. ASSUME NEW n, NEW k, NEW i, NEW e, k \notin {"channel", "flight"}
      PROVE  Has(n, k, i, e)' <=> Has(n, k, i, e)
  BY <1>2, <1>7 DEF Has
<1>8. ASSUME NEW n, Nowhere(n) PROVE Nowhere(n)'
  BY <1>5, <1>6, <1>7, <1>8 DEF Nowhere
<1>9. ASSUME NEW n, NEW k, NEW i, NEW e, Only(n, k, i, e)
      PROVE  \E l, j, d : Only(n, l, j, d)'
  <2>1. \A l, j, d : Has(n, l, j, d) <=> l = k /\ j = i /\ d = e
    BY <1>9 DEF Only
  <2>2. CASE k # "channel"
    <3>1. Only(n, k, i, e)'
      BY <1>5, <1>6, <1>7, <2>1, <2>2 DEF Only
    <3> QED BY <3>1
  <2>3. CASE k = "channel" /\ i = 1
    <3>1. e = m
      BY <1>4, <2>1, <2>3 DEF Has
    <3>2. \A j, d : ~Has(n, "channel", j, d)'
      <4>1. \A j \in 1 .. last - 1 : j + 1 # 1
        BY <1>4
      <4> QED BY <1>5, <2>1, <2>3, <4>1
    <3>3. Only(n, "flight", 0, new)'
      BY <1>6, <1>7, <2>1, <2>3, <3>1, <3>2 DEF Only
    <3> QED BY <3>3
  <2>4. CASE k = "channel" /\ i # 1
    <3>1. i \in 1 .. last
      BY <1>4, <2>1, <2>4 DEF Has
    <3>2. PICK h \in 1 .. last - 1 : i = h + 1
      <4>1. i - 1 \in 1 .. last - 1 /\ i = (i - 1) + 1
        BY <1>4, <2>4, <3>1
      <4> QED BY <4>1
    <3>3. \A j \in 1 .. last - 1 : j + 1 = i <=> j = h
      BY <1>4, <3>2
    <3>4. \A j, d : Has(n, "channel", j, d)' <=> j = h /\ d = e
      BY <1>5, <2>1, <2>4, <3>2, <3>3
    <3>5. \A j, d : ~Has(n, "flight", j, d)'
      BY <1>6, <2>1, <2>4
    <3>6. Only(n, "channel", h, e)'
      BY <1>7, <2>1, <2>4, <3>4, <3>5 DEF Only
    <3> QED BY <3>6
  <2> QED BY <2>2, <2>3, <2>4
<1> QED BY <1>2, <1>8, <1>9, PlacesMove

LEMMA ReaderPlaces ==
  ASSUME ReaderInv, PlacesInv, ReaderNext, UNCHANGED windowVars
  PROVE  PlacesInv'
<1>1. CASE Read \/ Send \/ TakeMessage
  BY <1>1, ReadPlaces, SendPlaces, TakeMessagePlaces
<1>2. CASE ~(Read \/ Send \/ TakeMessage)
  <2>1. UNCHANGED <<hand, carried, channel, flight, held, sealed, stash, reported>>
    BY <1>2 DEF ReaderNext, ReaderThread, Source, EndOfStream, Activate, CloseChannel,
                WakeSource, TimerFires, Schedule, FindEmpty, EndRun
  <2>2. \A n, k, i, e : Has(n, k, i, e)' <=> Has(n, k, i, e)
    BY <2>1 DEF Has
  <2> QED BY <2>1, <2>2, PlacesSame
<1> QED BY <1>1, <1>2

LEMMA MatchPlaces ==
  ASSUME PlacesInv, MatchPtr
  PROVE  PlacesInv'
<1>1. /\ held' = held \cup {NewPair(m) : m \in flight} /\ flight' = {}
      /\ UNCHANGED <<hand, carried, channel, sealed, stash, reported>>
  BY DEF MatchPtr, NewPair
<1>2. \A m : NewPair(m).number = m.number
  BY DEF NewPair
<1>3. ASSUME NEW n, NEW i, NEW e
      PROVE  Has(n, "held", i, e)' <=>
               \/ Has(n, "held", i, e)
               \/ i = 0 /\ \E m : Has(n, "flight", 0, m) /\ e = NewPair(m)
  BY <1>1, <1>2 DEF Has
<1>4. ASSUME NEW n, NEW i, NEW e PROVE ~Has(n, "flight", i, e)'
  BY <1>1 DEF Has
<1>5. ASSUME NEW n, NEW k, NEW i, NEW e, k \notin {"flight", "held"}
      PROVE  Has(n, k, i, e)' <=> Has(n, k, i, e)
  BY <1>1, <1>5 DEF Has
<1>6. ASSUME NEW n, Nowhere(n) PROVE Nowhere(n)'
  BY <1>3, <1>4, <1>5, <1>6 DEF Nowhere
<1>7. ASSUME NEW n, NEW k, NEW i, NEW e, Only(n, k, i, e)
      PROVE  \E l, j, d : Only(n, l, j, d)'
  <2>1. \A l, j, d : Has(n, l, j, d) <=> l = k /\ j = i /\ d = e
    BY <1>7 DEF Only
  <2>2. CASE k = "flight"
    <3>1. PICK d : d = NewPair(e)
      OBVIOUS
    <3>2. i = 0
      BY <2>1, <2>2 DEF Has
    <3>3. Only(n, "held", 0, d)'
      BY <1>3, <1>4, <1>5, <2>1, <2>2, <3>1, <3>2 DEF Only
    <3> QED BY <3>3
  <2>3. CASE k # "flight"
    <3>1. Only(n, k, i, e)'
      BY <1>3, <1>4, <1>5, <2>1, <2>3 DEF Only
    <3> QED BY <3>1
  <2> QED BY <2>2, <2>3
<1> QED BY <1>1, <1>6, <1>7, PlacesMove

LEMMA ConsolidatePlaces ==
  ASSUME ReaderInv, PairsOK, PlacesInv, Consolidate
  PROVE  PlacesInv'
<1>1. PICK batch \in SUBSET held, t \in heldCap :
           /\ sealed' = IF batch = {} THEN sealed
                        ELSE sealed \cup {[time |-> t, pairs |-> batch]}
           /\ held' = held \ batch
           /\ UNCHANGED <<readerVars, leakCap, stash, reported>>
  BY ConsolidateStep
<1>2. PICK new : new = [time |-> t, pairs |-> batch]
  OBVIOUS
<1>3. new.pairs = batch /\ sealed' = IF batch = {} THEN sealed ELSE sealed \cup {new}
  BY <1>1, <1>2
<1>4. ASSUME NEW n, NEW i, NEW e
      PROVE  Has(n, "sealed", i, e)' <=>
               \/ Has(n, "sealed", i, e)
               \/ i = new /\ Has(n, "held", 0, e) /\ e \in batch
  BY <1>3 DEF Has
<1>5. ASSUME NEW n, NEW i, NEW e
      PROVE  Has(n, "held", i, e)' <=> Has(n, "held", i, e) /\ e \notin batch
  BY <1>1 DEF Has
<1>6. ASSUME NEW n, NEW k, NEW i, NEW e, k \notin {"held", "sealed"}
      PROVE  Has(n, k, i, e)' <=> Has(n, k, i, e)
  BY <1>1, <1>6 DEF Has
<1>7. ASSUME NEW n, Nowhere(n) PROVE Nowhere(n)'
  BY <1>4, <1>5, <1>6, <1>7 DEF Nowhere
<1>8. ASSUME NEW n, NEW k, NEW i, NEW e, Only(n, k, i, e)
      PROVE  \E l, j, d : Only(n, l, j, d)'
  <2>1. \A l, j, d : Has(n, l, j, d) <=> l = k /\ j = i /\ d = e
    BY <1>8 DEF Only
  <2>2. CASE k = "held" /\ e \in batch
    <3>1. i = 0
      BY <2>1, <2>2 DEF Has
    <3>2. Only(n, "sealed", new, e)'
      BY <1>4, <1>5, <1>6, <2>1, <2>2, <3>1 DEF Only
    <3> QED BY <3>2
  <2>3. CASE ~(k = "held" /\ e \in batch)
    <3>1. Only(n, k, i, e)'
      BY <1>4, <1>5, <1>6, <2>1, <2>3 DEF Only
    <3> QED BY <3>1
  <2> QED BY <2>2, <2>3
<1> QED BY <1>1, <1>7, <1>8, PlacesMove

LEMMA GroupPlaces ==
  ASSUME ReaderInv, PairsOK, PlacesInv, GroupByWindow
  PROVE  PlacesInv'
<1>1. PICK due, n, order : Reports(due, n, order)
  BY GroupStep
<1>2. PICK last : last = Len(reported)
  OBVIOUS
<1>3. /\ n \in Nat /\ order \in [1 .. n -> due] /\ due \subseteq Times
      /\ \A i, j \in 1 .. n : i < j => order[i] < order[j]
      /\ \A t \in due : \E i \in 1 .. n : order[i] = t
      /\ last \in Nat /\ DOMAIN reported = 1 .. last /\ DOMAIN reported' = 1 .. last + n
      /\ \A i \in 1 .. last : reported'[i] = reported[i]
      /\ \A i \in 1 .. n : reported'[last + i] = stash[order[i]]
      /\ \A t \in due : \A b \in sealed : b.time # t
      /\ \A t \in Times : stash'[t] = IF t \in due THEN {} ELSE Waiting(t)
      /\ sealed' = {}
  BY <1>1, <1>2 DEF Reports
<1>4. UNCHANGED <<hand, carried, channel, flight, held>>
  BY <1>1 DEF Reports
<1>5. /\ \A i, j \in 1 .. n : order[i] = order[j] => i = j
      /\ \A i \in 1 .. n : order[i] \in due /\ order[i] \in Times
  <2>1. \A i \in 1 .. n : order[i] \in due /\ order[i] \in Times /\ order[i] \in Nat
    BY <1>3, Ranges
  <2>2. ASSUME NEW i \in 1 .. n, NEW j \in 1 .. n, order[i] = order[j] PROVE i = j
    <3>1. ~(i < j) /\ ~(j < i)
      BY <1>3, <2>1, <2>2, SMTT(30)
    <3> QED BY <3>1
  <2> QED BY <2>1, <2>2
<1>6. ASSUME NEW m, NEW t, NEW e
      PROVE  Has(m, "stash", t, e)' <=>
               /\ t \in Times \ due
               /\ \/ Has(m, "stash", t, e)
                  \/ \E b : Has(m, "sealed", b, e) /\ b.time = t
  BY <1>3, InWaiting DEF Has
<1>7. ASSUME NEW m, NEW i, NEW e
      PROVE  Has(m, "reported", i, e)' <=>
               \/ Has(m, "reported", i, e)
               \/ \E j \in 1 .. n : i = last + j /\ Has(m, "stash", order[j], e)
  <2>1. CASE i \in 1 .. last
    <3>1. i \in 1 .. last + n /\ \A j \in 1 .. n : i # last + j
      BY <1>3, <2>1
    <3> QED BY <1>3, <2>1, <3>1 DEF Has
  <2>2. CASE i \notin 1 .. last
    <3>1. i \in 1 .. last + n <=> \E j \in 1 .. n : i = last + j
      <4>1. ASSUME i \in 1 .. last + n PROVE \E j \in 1 .. n : i = last + j
        <5>1. i - last \in 1 .. n /\ i = last + (i - last)
          BY <1>3, <2>2, <4>1
        <5> QED BY <5>1
      <4>2. \A j \in 1 .. n : last + j \in 1 .. last + n
        BY <1>3
      <4> QED BY <4>1, <4>2
    <3>2. ~Has(m, "reported", i, e)
      BY <1>3, <2>2 DEF Has
    <3>3. Has(m, "reported", i, e)' <=>
            e.number = m /\ i \in 1 .. last + n /\ e \in reported'[i]
      BY <1>3 DEF Has
    <3>4. \A t \in Times : Has(m, "stash", t, e) <=> e.number = m /\ e \in stash[t]
      BY DEF Has
    <3>5. \A j \in 1 .. n :
            e \in reported'[last + j] <=> e \in stash[order[j]]
      BY <1>3
    <3>6. ASSUME Has(m, "reported", i, e)'
          PROVE  \E j \in 1 .. n : i = last + j /\ Has(m, "stash", order[j], e)
      <4>1. PICK j \in 1 .. n : i = last + j
        BY <3>1, <3>3, <3>6
      <4>2. e.number = m /\ e \in stash[order[j]] /\ order[j] \in Times
        BY <1>5, <3>3, <3>5, <3>6, <4>1
      <4>3. Has(m, "stash", order[j], e)
        BY <3>4, <4>2
      <4> QED BY <4>1, <4>3
    <3>7. ASSUME NEW j \in 1 .. n, i = last + j, Has(m, "stash", order[j], e)
          PROVE  Has(m, "reported", i, e)'
      <4>1. e.number = m /\ e \in stash[order[j]]
        BY <1>5, <3>4, <3>7
      <4> QED BY <3>1, <3>3, <3>5, <3>7, <4>1
    <3> QED BY <3>2, <3>6, <3>7
  <2> QED BY <2>1, <2>2
<1>8. ASSUME NEW m, NEW i, NEW e PROVE ~Has(m, "sealed", i, e)'
  BY <1>3 DEF Has
<1>9. ASSUME NEW m, NEW k, NEW i, NEW e, k \notin {"sealed", "stash", "reported"}
      PROVE  Has(m, k, i, e)' <=> Has(m, k, i, e)
  BY <1>4, <1>9 DEF Has
<1>10. ASSUME NEW m, Nowhere(m) PROVE Nowhere(m)'
  BY <1>6, <1>7, <1>8, <1>9, <1>10 DEF Nowhere
<1>11. ASSUME NEW m, NEW k, NEW i, NEW e, Only(m, k, i, e)
       PROVE  \E l, j, d : Only(m, l, j, d)'
  <2>1. \A l, j, d : Has(m, l, j, d) <=> l = k /\ j = i /\ d = e
    BY <1>11 DEF Only
  <2>2. CASE k \notin {"sealed", "stash"}
    <3>1. /\ \A t, d : ~Has(m, "stash", t, d)'
          /\ \A j, d : Has(m, "reported", j, d)' <=> Has(m, "reported", j, d)
      BY <1>6, <1>7, <2>1, <2>2
    <3>2. Only(m, k, i, e)'
      BY <1>8, <1>9, <2>1, <2>2, <3>1 DEF Only
    <3> QED BY <3>2
  <2>3. CASE k = "sealed"
    <3>1. PICK t : t = i.time
      OBVIOUS
    <3>2. i \in sealed /\ t \in Times \ due
      <4>1. i \in sealed
        BY <2>1, <2>3 DEF Has
      <4> QED BY <1>3, <3>1, <4>1 DEF PairsOK
    <3>3. /\ \A u, d : Has(m, "stash", u, d)' <=> u = t /\ d = e
          /\ \A j, d : ~Has(m, "reported", j, d)'
      BY <1>6, <1>7, <2>1, <2>3, <3>1, <3>2
    <3>4. Only(m, "stash", t, e)'
      BY <1>8, <1>9, <2>1, <2>3, <3>3 DEF Only
    <3> QED BY <3>4
  <2>4. CASE k = "stash" /\ i \notin due
    <3>1. i \in Times
      BY <2>1, <2>4 DEF Has
    <3>2. /\ \A u, d : Has(m, "stash", u, d)' <=> u = i /\ d = e
          /\ \A j, d : ~Has(m, "reported", j, d)'
      BY <1>5, <1>6, <1>7, <2>1, <2>4, <3>1
    <3>3. Only(m, "stash", i, e)'
      BY <1>8, <1>9, <2>1, <2>4, <3>2 DEF Only
    <3> QED BY <3>3
  <2>5. CASE k = "stash" /\ i \in due
    <3>1. PICK h \in 1 .. n : order[h] = i
      BY <1>3, <2>5
    <3>2. PICK place : place = last + h
      OBVIOUS
    <3>3. \A j, d : Has(m, "reported", j, d)' <=> j = place /\ d = e
      BY <1>5, <1>7, <2>1, <2>5, <3>1, <3>2
    <3>4. \A u, d : ~Has(m, "stash", u, d)'
      BY <1>6, <2>1, <2>5
    <3>5. Only(m, "reported", place, e)'
      BY <1>8, <1>9, <2>1, <2>5, <3>3, <3>4 DEF Only
    <3> QED BY <3>5
  <2> QED BY <2>2, <2>3, <2>4, <2>5
<1> QED BY <1>4, <1>10, <1>11, PlacesMove

-----------------------------------------------------------------------------
(* The invariant. *)

IInv == ReaderInv /\ PairsOK /\ CapsOK /\ OrderInv /\ PlacesInv

LEMMA InitInv ==
  ASSUME Init
  PROVE  IInv
<1>1. /\ ReaderInit /\ leakCap = {0} /\ held = {} /\ heldCap = {} /\ sealed = {}
      /\ stash = [t \in Times |-> {}] /\ reported = << >>
  BY DEF Init
<1>2. channel = << >> /\ DOMAIN channel = {} /\ DOMAIN reported = {}
  BY <1>1 DEF ReaderInit
<1>3. ReaderInv
  <2>1. ReaderTypeOK
    <3>1. channel \in Seq(Message) /\ Len(channel) <= Capacity
      BY <1>2
    <3>2. /\ carried \subseteq 1 .. reads /\ reads \in 0 .. MaxMessages
          /\ clock \in 0 .. MaxTime /\ cap \in 0 .. clock /\ fuel \in 0 .. Fuel
          /\ flight \subseteq [number : carried, time : 0 .. cap]
      BY <1>1 DEF ReaderInit
    <3> QED BY <1>1, <3>1, <3>2 DEF ReaderInit, ReaderTypeOK
  <2> QED BY <1>1, <1>2, <2>1 DEF ReaderInit, ReaderInv, Known, Runs, NoMessage
<1>4. PairsOK /\ CapsOK
  <2>1. 0 \in Times
    BY DEF Times
  <2>2. Cardinality(leakCap) <= 1 /\ Cardinality(heldCap) <= 1
    <3>1. Cardinality(leakCap) = 1 /\ Cardinality(heldCap) = 0
      BY <1>1, FS_Singleton, FS_EmptySet
    <3> QED BY <3>1
  <2> QED BY <1>1, <2>1, <2>2 DEF PairsOK, CapsOK
<1>5. \A t \in Times : Waiting(t) = {}
  BY <1>1 DEF Waiting
<1>6. AllWaiting = {} /\ Reported = {}
  BY <1>2, <1>5 DEF AllWaiting, Reported
<1>7. OrderInv
  BY <1>1, <1>2, <1>5, <1>6 DEF OrderInv, BatchesHold, BatchesOrdered, ReportsBefore,
     SentBefore, HeldAfter, ReportsOrdered
<1>8. PlacesInv
  <2>1. \A n, k, i, e : ~Has(n, k, i, e)
    BY <1>1, <1>2 DEF Has, ReaderInit, NoMessage
  <2>2. carried = {}
    BY <1>1 DEF ReaderInit
  <2> QED BY <2>1, <2>2 DEF PlacesInv, OnePlace, Nowhere
<1> QED BY <1>3, <1>4, <1>7, <1>8 DEF IInv

LEMMA StepInv ==
  ASSUME IInv, [Next]_vars
  PROVE  IInv'
<1> USE DEF IInv
<1>1. CASE ReaderNext /\ UNCHANGED windowVars
  <2>1. ReaderInv' /\ PlacesInv' /\ Advances
    BY <1>1, ReaderStepInv, ReaderPlaces, ReaderAdvances
  <2>2. PairsOK' /\ CapsOK'
    BY <1>1 DEF PairsOK, CapsOK
  <2>3. OrderInv'
    BY <1>1, <2>1, <2>2, ReaderOrder
  <2> QED BY <2>1, <2>2, <2>3
<1>2. CASE MatchPtr
  BY <1>2, MatchTypes, MatchOrder, MatchPlaces
<1>3. CASE Consolidate
  BY <1>3, ConsolidateTypes, ConsolidateOrder, ConsolidatePlaces
<1>4. CASE GroupByWindow
  BY <1>4, GroupOrder, GroupPlaces
<1>5. CASE UNCHANGED vars
  <2>1. ReaderInv'
    BY <1>5, ReaderRest
  <2>2. PairsOK' /\ CapsOK'
    BY <1>5 DEF PairsOK, CapsOK
  <2>3. PairFrontier' = PairFrontier
    BY <1>5 DEF PairFrontier, MatchFrontier
  <2>4. Advances
    BY <2>3, Ranges DEF Advances
  <2>5. OrderInv'
    BY <1>5, <2>1, <2>2, <2>4, ReaderOrder
  <2>6. PlacesInv'
    <3>1. \A n, k, i, e : Has(n, k, i, e)' <=> Has(n, k, i, e)
      BY <1>5 DEF Has
    <3> QED BY <1>5, <3>1, PlacesSame
  <2> QED BY <2>1, <2>2, <2>5, <2>6
<1> QED BY <1>1, <1>2, <1>3, <1>4, <1>5 DEF Next

\* The invariant holds of every execution.
THEOREM Invariant == Spec => []IInv
<1>1. Init => IInv
  BY InitInv
<1>2. IInv /\ [Next]_vars => IInv'
  BY StepInv
<1> QED BY <1>1, <1>2, PTL DEF Spec

\* The types: what the reader, the source and the operators keep, and that
\* consolidate has a capability exactly as long as it holds pairs.
THEOREM TypeCorrect == Spec => []TypeOK
<1>1. IInv => TypeOK
  BY DEF IInv, TypeOK, ReaderInv, PairsOK, CapsOK
<1> QED BY <1>1, Invariant, PTL

\* A pair that was read is counted once: it is in one place on its way to a
\* report (the reader's hand, the channel, in flight, in consolidate, in a
\* batch, in the stash), or in one report, and what was not read is nowhere.
THEOREM Counted == Spec => []CountedOnce
<1>1. IInv => CountedOnce
  BY PlacesCount DEF IInv
<1> QED BY <1>1, Invariant, PTL

\* A report is final: reports come in the order of their windows, no window is
\* in two, and nothing that is still to be reported belongs to a window that
\* was.
THEOREM Closes == Spec => []WindowsClose
<1>1. ASSUME IInv PROVE WindowsClose
  <2>1. ReportsOrdered
    BY <1>1 DEF IInv, OrderInv
  <2>2. ASSUME NEW p \in Reported, NEW q \in Unreported PROVE p.window < q.window
    <3>1. \/ q \in held
          \/ \E b \in sealed : q \in b.pairs
          \/ \E t \in Times : q \in stash[t]
          \/ \E m \in flight : q = NewPair(m)
      BY DEF Unreported, NewPair
    <3>2. CASE q \in held
      BY <1>1, <3>2 DEF IInv, OrderInv, SentBefore
    <3>3. CASE \E t \in Times : q \in Waiting(t)
      <4>1. PICK t \in Times : q \in Waiting(t)
        BY <3>3
      <4>2. p.window < t /\ t <= q.window
        BY <1>1, <4>1 DEF IInv, OrderInv, ReportsBefore, BatchesHold
      <4>3. p.window \in Nat /\ t \in Nat /\ q.window \in Nat
        BY <1>1, <4>1, Ranges, WaitingPairs DEF IInv
      <4> QED BY <4>2, <4>3
    <3>4. CASE \E t \in Times : q \in stash[t]
      BY <3>3, <3>4, InWaiting
    <3>5. CASE \E b \in sealed : q \in b.pairs
      <4>1. \A b \in sealed : b.time \in Times
        BY <1>1 DEF IInv, PairsOK
      <4> QED BY <3>3, <3>5, <4>1, InWaiting
    <3>6. CASE \E m \in flight : q = NewPair(m)
      <4>1. PICK m \in flight : q = NewPair(m)
        BY <3>6
      <4>2. m.time \in PairFrontier
        BY <4>1 DEF PairFrontier, MatchFrontier
      <4>3. p.window < m.time
        BY <1>1, <4>2 DEF IInv, OrderInv, SentBefore, Past
      <4>4. m.time <= q.window /\ m.time \in Nat /\ q.window \in Nat
        BY <1>1, <4>1, Ranges DEF IInv, NewPair
      <4>5. p.window \in Nat
        BY <1>1, Ranges, WaitingPairs DEF IInv
      <4> QED BY <4>3, <4>4, <4>5
    <3> QED BY <3>1, <3>2, <3>4, <3>5, <3>6
  <2> QED BY <2>1, <2>2 DEF WindowsClose, ReportsOrdered
<1> QED BY <1>1, Invariant, PTL

=============================================================================
