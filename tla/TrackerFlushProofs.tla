-------------------------- MODULE TrackerFlushProofs --------------------------
(***************************************************************************)
(* What the tracker has under way: when a time is announced, between the   *)
(* stages of the pipeline, and when stop() returns; and that no hook fails *)
(* while nobody calls stop().  For every set of threads and capacity.      *)
(***************************************************************************)
EXTENDS TrackerProofs, WellFoundedInduction

USE DEF controlVars, writerVars, gathererVars, wireVars, vars

-----------------------------------------------------------------------------
(* Lengths *)

\* The last event of t that is not in its buffer.
Full(t) == recorded[t] - Len(buffer[t])

LEMMA Lengths ==
  ASSUME TypeOK, NEW t \in Threads
  PROVE  /\ received[t] \in Seq(Nat) /\ InHand(t) \in Seq(Nat)
         /\ taken[t] \in Seq(Nat) /\ buffer[t] \in Seq(Nat) /\ hand \in Seq(Nat)
         /\ Len(received[t]) \in Nat /\ Len(InHand(t)) \in Nat
         /\ Len(taken[t]) \in Nat /\ Len(buffer[t]) \in Nat /\ Len(hand) \in Nat
         /\ recorded[t] \in Nat /\ horizon[t] \in Nat /\ announced[t] \in Nat
         /\ Collected(t) \in Nat /\ HandedOver(t) \in Int /\ Full(t) \in Int
         /\ Capacity \in Nat \ {0} /\ Len(<< >>) = 0
<1>1. /\ received[t] \in Seq(Nat) /\ hand \in Seq(Nat) /\ << >> \in Seq(Nat)
      /\ taken[t] \in Seq(Nat) /\ buffer[t] \in Seq(Nat)
      /\ recorded[t] \in Nat /\ horizon[t] \in Nat /\ announced[t] \in Nat
  BY DEF TypeOK
<1>2. InHand(t) \in Seq(Nat)
  BY <1>1 DEF InHand
<1>3. /\ Len(received[t]) \in Nat /\ Len(InHand(t)) \in Nat
      /\ Len(taken[t]) \in Nat /\ Len(buffer[t]) \in Nat /\ Len(hand) \in Nat
      /\ Len(<< >>) = 0
  BY <1>1, <1>2
<1>4. Collected(t) \in Nat
  BY <1>3 DEF Collected
<1>5. HandedOver(t) \in Int /\ Full(t) \in Int
  BY <1>1, <1>3 DEF HandedOver, Full
<1> QED
  BY <1>1, <1>2, <1>3, <1>4, <1>5, TrackerAssumption

\* Nothing is collected that was not handed over, and all of it if no message
\* is under way.
LEMMA Between ==
  ASSUME IInv, gpc # "done", NEW t \in Threads
  PROVE  /\ Collected(t) <= HandedOver(t)
         /\ NoMessage(t) => Collected(t) = HandedOver(t)
         /\ HandedOver(t) + Len(taken[t]) = Full(t)
         /\ taken[t] # << >> => Len(buffer[t]) = 0
         /\ pc[t] \notin {"flush", "sendFailed"} => taken[t] = << >>
<1>1. TypeOK /\ Writing /\ Messages
  BY DEF IInv, Pipeline
<1>2. /\ Collected(t) <= HandedOver(t)
      /\ NoMessage(t) => Collected(t) = HandedOver(t)
  BY <1>1 DEF Messages, Chain, NoMessage
<1>3. HandedOver(t) + Len(taken[t]) = Full(t)
  BY <1>1, Lengths DEF HandedOver, Full
<1> QED
  BY <1>1, <1>2, <1>3, Lengths DEF Writing

\* What is handed over but not collected is in a message of the channel.
LEMMA ShipsFrom ==
  ASSUME IInv, gpc # "done", gpc # "send", data # << >>
  PROVE  /\ Head(data).thread \in Threads /\ Head(data).buffer \in Seq(Nat)
         /\ Head(data) = data[1] /\ 1 \in 1 .. Len(data) /\ data[1].buffer # << >>
<1>1. data \in Seq(Batch)
  BY DEF IInv, TypeOK
<1>2. Head(data) = data[1] /\ 1 \in 1 .. Len(data) /\ Head(data) \in Batch
  BY <1>1, TailShift
<1>3. data[1].buffer # << >>
  BY <1>2 DEF IInv, Pipeline, Messages, Chain
<1> QED
  BY <1>2, <1>3 DEF Batch

-----------------------------------------------------------------------------
(* The kinds of steps *)

\* A message is shipped.
Shipping ==
  /\ ShipHead /\ gpc \in {"select", "drain", "lockedDrain"} /\ gpc' = gpc
  /\ UNCHANGED <<pc, recorded, buffer, taken, started, dead, states, index, hand,
                 handDead, final, phase, horizon, announced>>

\* Nothing moves in the pipeline.
Quiet ==
  UNCHANGED <<recorded, buffer, taken, data, received, hand, horizon, announced>>

LEMMA Kinds ==
  ASSUME [Next]_vars
  PROVE  \/ \E t \in Threads : Push(t)
         \/ \E t \in Threads : Flush(t) /\ gpc # "done"
         \/ Shipping \/ Swap \/ SendHand \/ Capture \/ Stamp \/ Close
         \/ /\ Quiet
            /\ gpc' = gpc
            /\ states' = states
            /\ index' = index
            /\ started' = started
         \/ /\ Quiet
            /\ GathererBoot \/ RecvTick \/ RecvRegister \/ RecvShutdown \/ Visit
               \/ (Drain /\ data = << >>) \/ (LockedDrain /\ data = << >>)
<1>1. CASE UNCHANGED vars
  BY <1>1 DEF Quiet
<1>2. ASSUME NEW t \in Threads, ThreadNext(t), ~Push(t), ~(Flush(t) /\ gpc # "done")
      PROVE  /\ Quiet
             /\ gpc' = gpc
             /\ states' = states
             /\ index' = index
             /\ started' = started
  BY <1>2 DEF ThreadNext, EnterHook, CloneHandle, SendRegister, AwaitStart, Flush, Exit, Quiet
<1>3. CASE StartInstall \/ StartEnable \/ StopDisable \/ StopTake \/ StopSignal \/ StopJoin
  BY <1>3 DEF StartInstall, StartEnable, StopDisable, StopTake, StopSignal, StopJoin, Quiet
<1>4. CASE RecvData
  BY <1>4 DEF RecvData, Shipping
<1>5. CASE Drain \/ LockedDrain
  <2>1. CASE ShipHead /\ UNCHANGED gpc
    BY <1>5, <2>1 DEF Drain, LockedDrain, Shipping
  <2>2. CASE ~(ShipHead /\ UNCHANGED gpc)
    BY <1>5, <2>2 DEF Drain, LockedDrain, DrainReceiver, Quiet
  <2> QED
    BY <2>1, <2>2
<1>6. CASE GathererBoot \/ RecvTick \/ RecvRegister \/ RecvShutdown \/ Visit
  BY <1>6 DEF GathererBoot, RecvTick, RecvRegister, RecvShutdown, Visit, Quiet
<1> QED
  BY <1>1, <1>2, <1>3, <1>4, <1>5, <1>6 DEF Next, RunNext, StopNext, GathererNext

\* The gatherer's hand is filled by Swap and emptied by SendHand.
LEMMA HandKept ==
  ASSUME Quiet,
         \/ gpc' = gpc /\ states' = states /\ index' = index
         \/ gpc # "send" /\ gpc' # "send",
         NEW t
  PROVE  InHand(t)' = InHand(t) /\ Collected(t)' = Collected(t)
<1>1. InHand(t)' = InHand(t)
  BY DEF InHand, Quiet
<1> QED
  BY <1>1 DEF Collected, Quiet

LEMMA HandFree ==
  ASSUME GathererBoot \/ RecvTick \/ RecvRegister \/ RecvShutdown \/ Visit
           \/ (Drain /\ data = << >>) \/ (LockedDrain /\ data = << >>)
  PROVE  gpc # "send" /\ gpc' # "send"
  BY DEF GathererBoot, RecvTick, RecvRegister, RecvShutdown, Visit, Drain, LockedDrain,
     DrainReceiver, ShipHead, AfterShutdown

-----------------------------------------------------------------------------
(* How far the announced time may be ahead of the data *)

\* A buffer leaves its thread when it is full.
Sizes ==
  /\ \A t \in Threads : taken[t] # << >> => Len(taken[t]) = Capacity
  /\ \A i \in 1 .. Len(data) : Len(data[i].buffer) = Capacity

\* The events up to n are among the c that have come, or all but one buffer,
\* and a full buffer is under way.
Lags(t, n, c) == n <= c \/ (n <= c + Capacity /\ Collected(t) < Full(t))

Visiting == gpc \in {"visit", "lockedDrain", "swap", "send", "stamp"}

\* The thread has still to be visited.
Pending(t) ==
  \E i \in 1 .. Len(states) :
    states[i] = t /\ (i > index \/ (i = index /\ gpc # "send"))

LagInv ==
  /\ Sizes
  /\ \A t \in Threads : t \notin started => recorded[t] = 0
  /\ \A t \in Threads : horizon[t] <= recorded[t]
  /\ gpc = "stamp" => index = Len(states) + 1
  /\ gpc = "swap" => Full(states[index]) <= Collected(states[index]) + Capacity
  /\ Visiting => \A t \in Threads : Pending(t) \/ Lags(t, horizon[t], Collected(t))
  /\ \A t \in Threads : Lags(t, announced[t], Len(received[t]))

LEMMA SizesStep ==
  ASSUME IInv, Sizes, [Next]_vars
  PROVE  Sizes'
<1>1. /\ taken \in [Threads -> Seq(Nat)] /\ buffer \in [Threads -> Seq(Nat)]
      /\ data \in Seq(Batch) /\ Capacity \in Nat \ {0}
  BY TrackerAssumption DEF IInv, TypeOK
<1>2. ASSUME NEW t \in Threads, Push(t) PROVE Sizes'
  <2>1. data' = data /\ (taken' = taken \/ \E f : Len(f) = Capacity
                                               /\ taken' = [taken EXCEPT ![t] = f])
    BY <1>2 DEF Push
  <2> QED
    BY <1>1, <2>1 DEF Sizes
<1>3. ASSUME NEW t \in Threads, Flush(t), gpc # "done" PROVE Sizes'
  <2> DEFINE new == [thread |-> t, buffer |-> taken[t]]
  <2>1. taken' = [taken EXCEPT ![t] = << >>] /\ data' = Append(data, new) /\ pc[t] = "flush"
    BY <1>3 DEF Flush, SendData
  <2>2. new \in Batch /\ new.buffer = taken[t] /\ Len(taken[t]) = Capacity
    <3>1. taken[t] # << >>
      BY <1>3, <2>1 DEF IInv, Pipeline, Writing
    <3> QED
      BY <1>1, <3>1 DEF Sizes, Batch
  <2> HIDE DEF new
  <2>3. /\ Len(data) \in Nat /\ Len(data') = Len(data) + 1 /\ data'[Len(data) + 1] = new
        /\ \A i \in 1 .. Len(data) : data'[i] = data[i]
    BY <1>1, <2>1, <2>2, AppendProperties
  <2>4. \A i \in 1 .. Len(data') : i \in 1 .. Len(data) \/ i = Len(data) + 1
    BY <2>3
  <2> QED
    BY <1>1, <2>1, <2>2, <2>3, <2>4 DEF Sizes
<1>4. ASSUME Shipping PROVE Sizes'
  <2>1. taken' = taken /\ data' = Tail(data) /\ data # << >>
    BY <1>4 DEF Shipping, ShipHead
  <2>2. /\ Len(data) \in Nat /\ Len(data') = Len(data) - 1
        /\ \A i \in 1 .. Len(data) - 1 : data'[i] = data[i + 1]
    BY <1>1, <2>1, TailShift
  <2>3. \A i \in 1 .. Len(data') : i + 1 \in 1 .. Len(data) /\ data'[i] = data[i + 1]
    BY <2>2
  <2> QED
    BY <2>1, <2>3 DEF Sizes
<1>5. ASSUME Close PROVE Sizes'
  BY <1>5 DEF Close, Sizes
<1>6. ASSUME Quiet \/ Swap \/ SendHand \/ Capture \/ Stamp PROVE Sizes'
  BY <1>6 DEF Quiet, Swap, SendHand, Capture, Stamp, Sizes
<1> QED
  BY <1>2, <1>3, <1>4, <1>5, <1>6, Kinds

\* What a step does to a thread's part of the pipeline.
Moves(t) ==
  /\ Full(t) <= Full(t)'
  /\ \/ Collected(t)' = Collected(t) /\ Len(received[t]) <= Len(received'[t])
     \/ /\ Collected(t)' = Collected(t) + Capacity
        /\ Len(received'[t]) = Len(received[t]) + Capacity
     \/ /\ Collected(t) = Full(t) /\ Collected(t) <= Collected(t)'
        /\ received'[t] = received[t]

LEMMA PushMoves ==
  ASSUME IInv, NEW u \in Threads, Push(u), NEW t \in Threads
  PROVE  Moves(t)
<1>1. /\ gpc' = gpc /\ states' = states /\ index' = index /\ hand' = hand
      /\ received' = received /\ recorded' = [recorded EXCEPT ![u] = recorded[u] + 1]
      /\ \/ buffer' = [buffer EXCEPT ![u] = << >>]
         \/ buffer' = [buffer EXCEPT ![u] = Append(buffer[u], recorded[u] + 1)]
      /\ recorded \in [Threads -> Nat] /\ buffer \in [Threads -> Seq(Nat)]
  BY DEF Push, IInv, TypeOK
<1>2. InHand(t)' = InHand(t)
  BY <1>1 DEF InHand
<1>3. Collected(t)' = Collected(t) /\ received'[t] = received[t]
  BY <1>1, <1>2 DEF Collected
<1>4. /\ Len(received[t]) \in Nat /\ Len(buffer[t]) \in Nat /\ recorded[t] \in Nat
      /\ Len(<< >>) = 0
  BY Lengths DEF IInv
<1>5. Full(t) <= Full(t)'
  <2>1. CASE t # u
    <3>1. recorded'[t] = recorded[t] /\ buffer'[t] = buffer[t]
      BY <1>1, <2>1
    <3> QED
      BY <1>4, <3>1 DEF Full
  <2>2. CASE t = u
    <3>1. recorded'[t] = recorded[t] + 1
          /\ (buffer'[t] = << >> \/ buffer'[t] = Append(buffer[t], recorded[t] + 1))
      BY <1>1, <2>2
    <3>2. Len(Append(buffer[t], recorded[t] + 1)) = Len(buffer[t]) + 1
      BY <1>1, <1>4
    <3> QED
      BY <1>4, <3>1, <3>2 DEF Full
  <2> QED
    BY <2>1, <2>2
<1> QED
  BY <1>3, <1>4, <1>5 DEF Moves

LEMMA ShippingMoves ==
  ASSUME IInv, Sizes, Shipping, NEW t \in Threads
  PROVE  Moves(t)
<1>1. /\ gpc \notin {"send", "done"} /\ gpc' = gpc /\ data # << >>
      /\ recorded' = recorded /\ buffer' = buffer
      /\ received' = [received EXCEPT ![Head(data).thread] = @ \o Head(data).buffer]
      /\ received \in [Threads -> Seq(Nat)]
  BY DEF Shipping, ShipHead, Ship, IInv, TypeOK
<1>2. PICK u \in Threads, b \in Seq(Nat) :
        u = Head(data).thread /\ b = Head(data).buffer /\ Len(b) = Capacity
  BY <1>1, ShipsFrom DEF Sizes
<1>3. InHand(t) = << >> /\ InHand(t)' = << >>
  BY <1>1 DEF InHand
<1>4. /\ Collected(t) = Len(received[t]) + 0 /\ Collected(t)' = Len(received'[t]) + 0
      /\ Len(received[t]) \in Nat /\ Full(t)' = Full(t) /\ Full(t) \in Int
      /\ Capacity \in Nat
  BY <1>1, <1>3, Lengths DEF Collected, Full, IInv
<1>5. CASE t = u
  <2>1. received'[t] = received[t] \o b
    BY <1>1, <1>2, <1>5
  <2>2. received[t] \in Seq(Nat)
    BY <1>1
  <2>3. Len(received[t] \o b) = Len(received[t]) + Len(b)
    BY <2>2, ConcatProperties
  <2>4. Len(received'[t]) = Len(received[t]) + Capacity
    BY <1>2, <2>1, <2>3
  <2> QED
    BY <1>4, <2>4 DEF Moves
<1>6. CASE t # u
  <2>1. received'[t] = received[t]
    BY <1>1, <1>2, <1>6
  <2> QED
    BY <1>4, <2>1 DEF Moves
<1> QED
  BY <1>5, <1>6

LEMMA SwapMoves ==
  ASSUME IInv, Swap, NEW t \in Threads
  PROVE  /\ Moves(t)
         /\ t = states[index] =>
              /\ Full(t)' = recorded[t] /\ recorded[t] = Full(t) + Len(buffer[t])
              /\ Collected(t)' = Collected(t) + Len(buffer[t])
              /\ Collected(t) = Full(t) \/ Len(buffer[t]) = 0
         /\ t # states[index] => Full(t)' = Full(t) /\ Collected(t)' = Collected(t)
<1>1. /\ gpc = "swap" /\ gpc' = "send" /\ states' = states /\ index' = index
      /\ hand' = buffer[states[index]] /\ received' = received /\ recorded' = recorded
      /\ buffer' = [buffer EXCEPT ![states[index]] = << >>]
      /\ buffer \in [Threads -> Seq(Nat)]
  BY DEF Swap, Emptied, IInv, TypeOK
<1>2. /\ Len(received[t]) \in Nat /\ Len(buffer[t]) \in Nat /\ recorded[t] \in Nat
      /\ Len(<< >>) = 0 /\ Collected(t) \in Nat /\ Full(t) \in Int
  BY Lengths DEF IInv
<1>3. Collected(t) = Len(received[t])
  <2>1. InHand(t) = << >>
    BY <1>1 DEF InHand
  <2> QED
    BY <1>2, <2>1 DEF Collected
<1>4. CASE t # states[index]
  <2>1. InHand(t)' = << >> /\ buffer'[t] = buffer[t]
    BY <1>1, <1>4 DEF InHand
  <2>2. Collected(t)' = Collected(t) /\ Full(t)' = Full(t)
    BY <1>1, <1>2, <1>3, <2>1 DEF Collected, Full
  <2> QED
    BY <1>1, <1>2, <1>4, <2>2 DEF Moves
<1>5. CASE t = states[index]
  <2>1. InHand(t)' = buffer[t] /\ buffer'[t] = << >>
    BY <1>1, <1>5 DEF InHand
  <2>2. /\ Collected(t)' = Collected(t) + Len(buffer[t]) /\ Full(t)' = recorded[t]
        /\ recorded[t] = Full(t) + Len(buffer[t])
    <3>1. Collected(t)' = Len(received[t]) + Len(buffer[t])
      BY <1>1, <2>1 DEF Collected
    <3>2. Full(t)' = recorded[t] - Len(<< >>)
      BY <1>1, <2>1 DEF Full
    <3> QED
      BY <1>2, <1>3, <3>1, <3>2 DEF Full
  <2>3. Collected(t) = Full(t) \/ Len(buffer[t]) = 0
    <3>1. CASE NoMessage(t) /\ taken[t] = << >>
      BY <1>1, <1>2, <3>1, Between, Lengths DEF IInv
    <3>2. CASE ~NoMessage(t)
      <4>1. buffer[t] = << >>
        BY <1>1, <1>5, <3>2 DEF IInv, Pipeline, Swapping
      <4> QED
        BY <1>2, <4>1
    <3>3. CASE taken[t] # << >>
      BY <1>1, <3>3, Between
    <3> QED
      BY <3>1, <3>2, <3>3
  <2>4. Full(t) <= Full(t)' /\ Collected(t) <= Collected(t)'
    BY <1>2, <2>2
  <2>5. Moves(t)
    <3>1. CASE Collected(t) = Full(t)
      BY <1>1, <2>4, <3>1 DEF Moves
    <3>2. CASE Len(buffer[t]) = 0
      <4>1. Collected(t)' = Collected(t) /\ Len(received[t]) <= Len(received'[t])
        BY <1>1, <1>2, <2>2, <3>2
      <4> QED
        BY <2>4, <4>1 DEF Moves
    <3> QED
      BY <2>3, <3>1, <3>2
  <2> QED
    BY <1>5, <2>2, <2>3, <2>5
<1> QED
  BY <1>4, <1>5

LEMMA SendHandMoves ==
  ASSUME IInv, SendHand, NEW t \in Threads
  PROVE  Moves(t) /\ Full(t)' = Full(t) /\ Collected(t)' = Collected(t)
<1>1. /\ gpc = "send" /\ gpc' = "visit" /\ recorded' = recorded /\ buffer' = buffer
      /\ received' = [received EXCEPT ![states[index]] = @ \o hand]
      /\ received \in [Threads -> Seq(Nat)]
  BY DEF SendHand, Ship, IInv, TypeOK
<1>2. /\ received[t] \in Seq(Nat) /\ hand \in Seq(Nat)
      /\ Len(received[t]) \in Nat /\ Len(hand) \in Nat /\ Full(t) \in Int /\ Len(<< >>) = 0
  BY Lengths DEF IInv
<1>3. InHand(t)' = << >> /\ Full(t)' = Full(t)
  BY <1>1 DEF InHand, Full
<1>4. CASE t = states[index]
  <2>1. InHand(t) = hand
    BY <1>1, <1>4 DEF InHand
  <2>2. received'[t] = received[t] \o hand
    BY <1>1, <1>4
  <2>3. Len(received'[t]) = Len(received[t]) + Len(hand)
    BY <1>2, <2>2
  <2> QED
    BY <1>2, <1>3, <2>1, <2>3 DEF Collected, Moves
<1>5. CASE t # states[index]
  <2>1. InHand(t) = << >> /\ received'[t] = received[t]
    BY <1>1, <1>5 DEF InHand
  <2> QED
    BY <1>2, <1>3, <2>1 DEF Collected, Moves
<1> QED
  BY <1>4, <1>5

\* A step that neither records nor ships.
LEMMA OtherMoves ==
  ASSUME IInv, NEW t \in Threads,
         UNCHANGED <<recorded, buffer, received, hand>>,
         \/ gpc' = gpc /\ states' = states /\ index' = index
         \/ gpc # "send" /\ gpc' # "send"
  PROVE  Moves(t) /\ Full(t)' = Full(t) /\ Collected(t)' = Collected(t)
<1>1. InHand(t)' = InHand(t)
  BY DEF InHand
<1>2. Collected(t)' = Collected(t) /\ Full(t)' = Full(t)
  BY <1>1 DEF Collected, Full
<1>3. Full(t) \in Int /\ Len(received[t]) \in Nat
  BY Lengths DEF IInv
<1> QED
  BY <1>2, <1>3 DEF Moves

LEMMA AllMove ==
  ASSUME IInv, Sizes, [Next]_vars
  PROVE  \A t \in Threads : Moves(t)
<1> SUFFICES ASSUME NEW t \in Threads PROVE Moves(t)
  OBVIOUS
<1>1. CASE \E u \in Threads : Push(u)
  BY <1>1, PushMoves
<1>2. CASE Shipping
  BY <1>2, ShippingMoves
<1>3. CASE Swap
  BY <1>3, SwapMoves
<1>4. CASE SendHand
  BY <1>4, SendHandMoves
<1>5. CASE \E u \in Threads : Flush(u) /\ gpc # "done"
  BY <1>5, OtherMoves DEF Flush
<1>6. CASE Capture \/ Stamp \/ Close
  <2>1. UNCHANGED <<recorded, buffer, received, hand>> /\ gpc # "send" /\ gpc' # "send"
    BY <1>6 DEF Capture, Stamp, Close, AfterBuffers
  <2> QED
    BY <2>1, OtherMoves
<1>7. CASE Quiet /\ gpc' = gpc /\ states' = states /\ index' = index
  BY <1>7, OtherMoves DEF Quiet
<1>8. CASE Quiet /\ (GathererBoot \/ RecvTick \/ RecvRegister \/ RecvShutdown \/ Visit
                     \/ (Drain /\ data = << >>) \/ (LockedDrain /\ data = << >>))
  <2>1. gpc # "send" /\ gpc' # "send"
    BY <1>8, HandFree
  <2> QED
    BY <1>8, <2>1, OtherMoves DEF Quiet
<1> QED
  BY <1>1, <1>2, <1>3, <1>4, <1>5, <1>6, <1>7, <1>8, Kinds

\* A thread that is no more than one buffer behind stays so.
LEMMA LagsKept ==
  ASSUME IInv, IInv', NEW t \in Threads, Moves(t), NEW n \in Nat
  PROVE  /\ Lags(t, n, Collected(t)) => Lags(t, n, Collected(t))'
         /\ Lags(t, n, Len(received[t])) => Lags(t, n, Len(received[t]))'
<1>1. /\ Len(received[t]) \in Nat /\ Collected(t) \in Nat /\ Full(t) \in Int
      /\ Len(received[t])' \in Nat /\ Collected(t)' \in Nat /\ Full(t)' \in Int
      /\ Capacity \in Nat \ {0}
  <2>1. (TypeOK => Len(received[t]) \in Nat /\ Collected(t) \in Nat /\ Full(t) \in Int)'
    BY Lengths, PTL
  <2> QED
    BY <2>1, Lengths DEF IInv
<1>2. Len(received[t])' = Len(received'[t])
  OBVIOUS
<1> QED
  BY <1>1, <1>2 DEF Lags, Moves


LEMMA KeptLags ==
  ASSUME IInv, IInv', NEW t \in Threads, Moves(t), UNCHANGED <<horizon, announced>>
  PROVE  /\ Lags(t, horizon[t], Collected(t)) => Lags(t, horizon[t], Collected(t))'
         /\ Lags(t, announced[t], Len(received[t])) => Lags(t, announced[t], Len(received[t]))'
<1>1. PICK h \in Nat, a \in Nat : h = horizon[t] /\ a = announced[t]
  BY Lengths DEF IInv
<1>2. h = horizon'[t] /\ a = announced'[t]
  BY <1>1
<1>3. /\ Lags(t, h, Collected(t)) => Lags(t, h, Collected(t))'
      /\ Lags(t, a, Len(received[t])) => Lags(t, a, Len(received[t]))'
  BY LagsKept
<1> QED
  BY <1>1, <1>2, <1>3 DEF Lags

\* What was recorded is not forgotten, and nothing is before the start.
LEMMA RecordedStep ==
  ASSUME IInv, [Next]_vars, NEW t \in Threads, recorded[t] >= horizon[t],
         t \notin started => recorded[t] = 0
  PROVE  /\ recorded'[t] >= horizon'[t] /\ recorded'[t] >= recorded[t]
         /\ t \notin started' => recorded'[t] = 0
<1>1. recorded \in [Threads -> Nat] /\ recorded[t] \in Nat /\ horizon[t] \in Nat
  BY DEF IInv, TypeOK
<1>2. CASE \E u \in Threads : Push(u)
  <2>1. PICK u \in Threads : Push(u)
    BY <1>2
  <2>2. /\ recorded' = [recorded EXCEPT ![u] = recorded[u] + 1]
        /\ started' = started /\ horizon' = horizon /\ u \in started
    BY <2>1 DEF Push, IInv, Registry
  <2> QED
    BY <1>1, <2>2
<1>3. CASE ~\E u \in Threads : Push(u)
  <2>1. recorded' = recorded /\ started \subseteq started'
        /\ (horizon' = horizon \/ horizon' = recorded)
    <3>1. CASE Shipping \/ Swap \/ SendHand \/ Capture \/ Stamp \/ Close
      BY <3>1 DEF Shipping, Swap, SendHand, Capture, Stamp, Close
    <3>2. CASE \E u \in Threads : Flush(u)
      BY <3>2 DEF Flush
    <3>3. CASE Quiet /\ started' = started
      BY <3>3 DEF Quiet
    <3>4. CASE Quiet /\ (GathererBoot \/ RecvTick \/ RecvRegister \/ RecvShutdown \/ Visit
                         \/ (Drain /\ data = << >>) \/ (LockedDrain /\ data = << >>))
      BY <3>4 DEF Quiet, GathererBoot, RecvTick, RecvRegister, RecvShutdown, Visit, Drain,
                  LockedDrain
    <3> QED
      BY <1>3, <3>1, <3>2, <3>3, <3>4, Kinds
  <2> QED
    BY <1>1, <2>1
<1> QED
  BY <1>2, <1>3

\* When the time is captured, only listed threads can have events not written.
LEMMA CaptureCovers ==
  ASSUME IInv, LagInv, gpc = "capture", NEW t \in Threads
  PROVE  Listed(t) \/ recorded[t] <= Collected(t)
<1>1. CASE phase[t] = "unknown"
  <2>1. recorded[t] = 0
    BY <1>1 DEF LagInv, IInv, Registry
  <2> QED
    BY <2>1, Lengths DEF IInv
<1>2. CASE phase[t] = "destroyed"
  <2>1. Len(received[t]) = recorded[t]
    BY <1>2 DEF IInv, Pipeline
  <2> QED
    BY <2>1, Lengths DEF IInv, Collected
<1>3. CASE phase[t] = "live"
  BY <1>3 DEF IInv, Registry
<1>4. phase[t] \in {"unknown", "live", "destroyed"}
  BY DEF IInv, TypeOK
<1> QED
  BY <1>1, <1>2, <1>3, <1>4

\* Who is still to be visited, after a removal or without one.
LEMMA SendHandPending ==
  ASSUME IInv, SendHand, NEW t \in Threads
  PROVE  Pending(t) => Pending(t)'
<1>1. /\ states \in Seq(Threads) /\ index \in 1 .. Len(states) /\ Len(states) \in Nat
  BY LockedType DEF IInv, TypeOK, SendHand
<1>2. /\ gpc = "send" /\ gpc' = "visit"
      /\ index' = IF handDead THEN index ELSE index + 1
      /\ states' = IF handDead THEN RemoveAt(states, index) ELSE states
  BY DEF SendHand, FoundDead, NextIndex
<1> SUFFICES ASSUME NEW i \in 1 .. Len(states), states[i] = t, i > index
             PROVE  Pending(t)'
  BY <1>2 DEF Pending
<1>3. CASE handDead
  <2>1. /\ Len(states') = Len(states) - 1
        /\ \A j \in 1 .. Len(states) - 1 :
             states'[j] = IF j < index THEN states[j] ELSE states[j + 1]
    BY <1>1, <1>2, <1>3, RemoveAtShift
  <2>2. i - 1 \in 1 .. Len(states) - 1 /\ ~(i - 1 < index) /\ (i - 1) + 1 = i
    BY <1>1
  <2>3. i - 1 \in 1 .. Len(states') /\ states'[i - 1] = t
    BY <2>1, <2>2
  <2>4. i - 1 > index' \/ i - 1 = index'
    BY <1>1, <1>2, <1>3, <2>2
  <2> QED
    BY <1>2, <2>3, <2>4 DEF Pending
<1>4. CASE ~handDead
  <2>1. i > index' \/ i = index'
    BY <1>1, <1>2, <1>4
  <2> QED
    BY <1>2, <1>4, <2>1 DEF Pending
<1> QED
  BY <1>3, <1>4

\* The thread whose lock is taken has at most one buffer under way.
LEMMA OneBuffer ==
  ASSUME IInv, IInv', LagInv, [Next]_vars, gpc' = "swap"
  PROVE  Full(states[index])' <= Collected(states[index])' + Capacity
<1>1. CASE gpc = "swap"
  <2>1. PICK t \in Threads : t = states[index]
    BY <1>1, LockedType DEF IInv
  <2>2. /\ states' = states /\ index' = index
        /\ Full(t)' = Full(t) /\ Collected(t)' = Collected(t)
    <3>1. CASE \E u \in Threads : Push(u)
      <4>1. PICK u \in Threads : Push(u)
        BY <3>1
      <4>2. u # t
        BY <1>1, <2>1, <4>1 DEF Push, GathererHolds
      <4>3. /\ states' = states /\ index' = index /\ received' = received /\ hand' = hand
            /\ gpc' = gpc /\ recorded'[t] = recorded[t] /\ buffer'[t] = buffer[t]
        BY <4>1, <4>2 DEF Push, IInv, TypeOK
      <4>4. InHand(t)' = InHand(t)
        BY <4>3 DEF InHand
      <4> QED
        BY <4>3, <4>4 DEF Full, Collected
    <3>2. CASE \E u \in Threads : Flush(u)
      <4>1. UNCHANGED <<recorded, buffer, received, hand, gpc, states, index>>
        BY <3>2 DEF Flush
      <4> QED
        BY <4>1, OtherMoves
    <3>3. CASE Quiet /\ gpc' = gpc /\ states' = states /\ index' = index
      BY <3>3, OtherMoves DEF Quiet
    <3>4. ~Shipping /\ ~Swap /\ ~SendHand /\ ~Capture /\ ~Stamp /\ ~Close
      BY <1>1 DEF Shipping, Swap, SendHand, Capture, Stamp, Close
    <3>5. /\ ~GathererBoot /\ ~RecvTick /\ ~RecvRegister /\ ~RecvShutdown /\ ~Visit
          /\ ~Drain /\ ~LockedDrain
      BY <1>1 DEF GathererBoot, RecvTick, RecvRegister, RecvShutdown, Visit, Drain, LockedDrain
    <3> QED
      BY <3>1, <3>2, <3>3, <3>4, <3>5, Kinds
  <2>3. Full(t) <= Collected(t) + Capacity
    BY <1>1, <2>1 DEF LagInv
  <2>4. Full(states[index])' = Full(t)' /\ Collected(states[index])' = Collected(t)'
    BY <2>1, <2>2
  <2> QED
    BY <2>2, <2>3, <2>4
<1>2. CASE gpc # "swap"
  <2>1. LockedDrain /\ data = << >> /\ Quiet
    <3>1. ~\E u \in Threads : Push(u) \/ Flush(u)
      BY <1>2 DEF Push, Flush
    <3>2. ~Shipping /\ ~Swap /\ ~SendHand /\ ~Capture /\ ~Stamp /\ ~Close
      BY <1>2 DEF Shipping, Swap, SendHand, Capture, Stamp, Close, AfterBuffers
    <3>3. /\ ~GathererBoot /\ ~RecvTick /\ ~RecvRegister /\ ~RecvShutdown /\ ~Visit
          /\ ~(Drain /\ data = << >>)
      BY <1>2 DEF GathererBoot, RecvTick, RecvRegister, RecvShutdown, Visit, Drain,
                  DrainReceiver, ShipHead, AfterShutdown
    <3> QED
      BY <1>2, <3>1, <3>2, <3>3, Kinds
  <2>2. PICK t \in Threads : t = states[index]
    BY <2>1, LockedType DEF LockedDrain, IInv
  <2>3. states' = states /\ index' = index /\ gpc = "lockedDrain"
    BY <2>1 DEF LockedDrain
  <2>4. Full(t)' = Full(t) /\ Collected(t)' = Collected(t)
    BY <1>2, <2>1, <2>3, OtherMoves DEF Quiet
  <2>5. NoMessage(t)
    BY <2>1 DEF NoMessage
  <2>6. Collected(t) + Len(taken[t]) = Full(t)
    BY <2>3, <2>5, Between
  <2>7. Len(taken[t]) = 0 \/ Len(taken[t]) = Capacity
    BY Lengths DEF LagInv, Sizes, IInv
  <2>8. Full(t) <= Collected(t) + Capacity
    BY <2>6, <2>7, Lengths DEF IInv
  <2>9. Full(states[index])' = Full(t)' /\ Collected(states[index])' = Collected(t)'
    BY <2>2, <2>3
  <2> QED
    BY <2>4, <2>8, <2>9
<1> QED
  BY <1>1, <1>2


\* The visits go on, and whoever has been visited stays close behind.
LEMMA VisitsStep ==
  ASSUME IInv, IInv', LagInv, [Next]_vars, Visiting', NEW t \in Threads
  PROVE  (Pending(t) \/ Lags(t, horizon[t], Collected(t)))'
<1> USE DEF Visiting
<1>0. Moves(t) /\ horizon[t] <= recorded[t] /\ horizon[t] \in Nat /\ recorded[t] \in Nat
  BY AllMove, Lengths DEF LagInv, IInv
<1>1. CASE Capture
  <2>1. /\ gpc = "capture" /\ gpc' = "visit" /\ index' = 1 /\ states' = states
        /\ horizon' = recorded /\ UNCHANGED <<recorded, buffer, received, hand>>
    BY <1>1 DEF Capture
  <2>2. CASE Listed(t)
    <3>1. PICK i \in 1 .. Len(states) : states[i] = t
      BY <2>2 DEF Listed
    <3>2. i > index' \/ i = index'
      BY <2>1
    <3>3. Pending(t)'
      BY <2>1, <3>1, <3>2 DEF Pending
    <3> QED
      BY <3>3
  <2>3. CASE recorded[t] <= Collected(t)
    <3>1. Collected(t)' = Collected(t)
      BY <2>1, OtherMoves
    <3> QED
      BY <2>1, <2>3, <3>1 DEF Lags
  <2> QED
    BY <2>1, <2>2, <2>3, CaptureCovers
<1>2. CASE ~Capture
  <2>1. Visiting /\ horizon' = horizon
    <3>1. CASE \E u \in Threads : Push(u) \/ Flush(u)
      BY <3>1 DEF Push, Flush
    <3>2. CASE Shipping \/ Swap \/ SendHand \/ Stamp \/ Close
      BY <3>2 DEF Shipping, Swap, SendHand, Stamp, Close, AfterBuffers
    <3>3. CASE Quiet /\ gpc' = gpc
      BY <3>3 DEF Quiet
    <3>4. CASE Quiet /\ (GathererBoot \/ RecvTick \/ RecvRegister \/ RecvShutdown \/ Visit
                         \/ (Drain /\ data = << >>) \/ (LockedDrain /\ data = << >>))
      BY <3>4 DEF Quiet, GathererBoot, RecvTick, RecvRegister, RecvShutdown, Visit, Drain,
                  LockedDrain, DrainReceiver, ShipHead, AfterShutdown
    <3> QED
      BY <1>2, <3>1, <3>2, <3>3, <3>4, Kinds
  <2>2. Pending(t) \/ Lags(t, horizon[t], Collected(t))
    BY <2>1 DEF LagInv
  <2>3. CASE Lags(t, horizon[t], Collected(t))
    <3>1. PICK h \in Nat : h = horizon[t]
      BY <1>0
    <3>2. Lags(t, h, Collected(t))'
      BY <1>0, <2>3, <3>1, LagsKept
    <3>3. h = horizon'[t]
      BY <2>1, <3>1
    <3> QED
      BY <3>2, <3>3 DEF Lags
  <2>4. CASE Pending(t)
    <3>1. CASE Swap
      <4>1. /\ gpc = "swap" /\ gpc' = "send" /\ states' = states /\ index' = index
        BY <3>1 DEF Swap
      <4>2. CASE t = states[index]
        <5>1. /\ Full(t)' = recorded[t] /\ recorded[t] = Full(t) + Len(buffer[t])
              /\ Collected(t)' = Collected(t) + Len(buffer[t])
              /\ Collected(t) = Full(t) \/ Len(buffer[t]) = 0
          BY <3>1, <4>2, SwapMoves
        <5>2. Full(t) <= Collected(t) + Capacity
          BY <4>1, <4>2 DEF LagInv
        <5>3. /\ Full(t) \in Int /\ Collected(t) \in Nat /\ Len(buffer[t]) \in Nat
              /\ Capacity \in Nat
          BY Lengths DEF IInv
        <5>4. \/ horizon[t] <= Collected(t)'
              \/ horizon[t] <= Collected(t)' + Capacity /\ Collected(t)' < Full(t)'
          BY <1>0, <5>1, <5>2, <5>3
        <5> QED
          BY <2>1, <5>4 DEF Lags
      <4>3. CASE t # states[index]
        BY <2>4, <4>1, <4>3 DEF Pending
      <4> QED
        BY <4>2, <4>3
    <3>2. CASE SendHand
      BY <2>4, <3>2, SendHandPending
    <3>3. CASE ~Swap /\ ~SendHand
      <4>1. states' = states /\ index' = index /\ (gpc' = "send" <=> gpc = "send")
        <5>1. CASE \E u \in Threads : Push(u) \/ Flush(u)
          BY <5>1 DEF Push, Flush
        <5>2. CASE Shipping
          BY <5>2 DEF Shipping
        <5>3. CASE Visit \/ (LockedDrain /\ data = << >>)
          BY <5>3 DEF Visit, LockedDrain, DrainReceiver, ShipHead
        <5>4. ~Stamp /\ ~Close
          BY DEF Stamp, Close, AfterBuffers
        <5>5. /\ ~GathererBoot /\ ~RecvTick /\ ~RecvRegister /\ ~RecvShutdown
              /\ ~(Drain /\ data = << >>)
          BY <2>1 DEF GathererBoot, RecvTick, RecvRegister, RecvShutdown, Drain
        <5> QED
          BY <1>2, <3>3, <5>1, <5>2, <5>3, <5>4, <5>5, Kinds
      <4> QED
        BY <2>4, <4>1 DEF Pending
    <3> QED
      BY <3>1, <3>2, <3>3
  <2> QED
    BY <2>2, <2>3, <2>4
<1> QED
  BY <1>1, <1>2

\* When the time is announced, everyone has been visited.
LEMMA StampStep ==
  ASSUME IInv, LagInv, [Next]_vars, gpc' = "stamp"
  PROVE  index' = Len(states') + 1
<1>1. CASE gpc = "stamp"
  <2>1. states' = states /\ index' = index
    <3>1. CASE \E u \in Threads : Push(u) \/ Flush(u)
      BY <3>1 DEF Push, Flush
    <3>2. CASE Shipping
      BY <3>2 DEF Shipping
    <3>3. ~Swap /\ ~SendHand /\ ~Capture /\ ~Stamp /\ ~Close
      BY <1>1 DEF Swap, SendHand, Capture, Stamp, Close, AfterBuffers
    <3>4. /\ ~GathererBoot /\ ~RecvTick /\ ~RecvRegister /\ ~RecvShutdown /\ ~Visit
          /\ ~Drain /\ ~LockedDrain
      BY <1>1 DEF GathererBoot, RecvTick, RecvRegister, RecvShutdown, Visit, Drain,
                  LockedDrain
    <3> QED
      BY <3>1, <3>2, <3>3, <3>4, Kinds
  <2> QED
    BY <1>1, <2>1 DEF LagInv
<1>2. CASE gpc # "stamp"
  <2>1. Visit
    <3>1. ~\E u \in Threads : Push(u) \/ Flush(u)
      BY <1>2 DEF Push, Flush
    <3>2. ~Shipping /\ ~Swap /\ ~SendHand /\ ~Capture /\ ~Stamp /\ ~Close
      BY <1>2 DEF Shipping, Swap, SendHand, Capture, Stamp, Close, AfterBuffers
    <3>3. /\ ~GathererBoot /\ ~RecvTick /\ ~RecvRegister /\ ~RecvShutdown
          /\ ~(Drain /\ data = << >>) /\ ~(LockedDrain /\ data = << >>)
      BY <1>2 DEF GathererBoot, RecvTick, RecvRegister, RecvShutdown, Drain, LockedDrain,
                  DrainReceiver, ShipHead, AfterShutdown
    <3> QED
      BY <1>2, <3>1, <3>2, <3>3, Kinds
  <2>2. ~MoreStates /\ states' = states /\ index' = index
    BY <1>2, <2>1 DEF Visit
  <2>3. index \in 1 .. Len(states) + 1 /\ Len(states) \in Nat
    BY DEF IInv, TypeOK
  <2> QED
    BY <2>2, <2>3 DEF MoreStates
<1> QED
  BY <1>1, <1>2

\* The announced time is the captured one.
LEMMA AnnouncedStep ==
  ASSUME IInv, IInv', LagInv, [Next]_vars, NEW t \in Threads
  PROVE  Lags(t, announced[t], Len(received[t]))'
<1>1. CASE Stamp
  <2>1. /\ gpc = "stamp" /\ announced' = horizon /\ gpc' \in {"select", "close"}
        /\ UNCHANGED <<recorded, buffer, received, hand>>
    BY <1>1 DEF Stamp, NextTimestamp, AfterBuffers
  <2>2. ~Pending(t)
    <3>1. index = Len(states) + 1 /\ Len(states) \in Nat
      BY <2>1 DEF LagInv, IInv, TypeOK
    <3> QED
      BY <3>1 DEF Pending
  <2>3. Lags(t, horizon[t], Collected(t))
    BY <2>1, <2>2 DEF LagInv, Visiting
  <2>4. Collected(t) = Len(received[t])
    <3>1. InHand(t) = << >>
      BY <2>1 DEF InHand
    <3> QED
      BY <3>1, Lengths DEF Collected, IInv
  <2>5. Full(t)' = Full(t) /\ Collected(t)' = Collected(t)
    BY <2>1, OtherMoves
  <2> QED
    BY <2>1, <2>3, <2>4, <2>5 DEF Lags
<1>2. CASE ~Stamp
  <2>1. announced' = announced
    <3>1. CASE \E u \in Threads : Push(u) \/ Flush(u)
      BY <3>1 DEF Push, Flush
    <3>2. CASE Shipping \/ Swap \/ SendHand \/ Capture \/ Close
      BY <3>2 DEF Shipping, Swap, SendHand, Capture, Close
    <3>3. CASE Quiet
      BY <3>3 DEF Quiet
    <3> QED
      BY <1>2, <3>1, <3>2, <3>3, Kinds
  <2>2. PICK a \in Nat : a = announced[t]
    BY Lengths DEF IInv
  <2>3. Moves(t)
    BY AllMove DEF LagInv
  <2>4. Lags(t, a, Len(received[t]))'
    BY <2>2, <2>3, LagsKept DEF LagInv
  <2>5. a = announced'[t]
    BY <2>1, <2>2
  <2> QED
    BY <2>4, <2>5 DEF Lags
<1> QED
  BY <1>1, <1>2

LEMMA LagInit == Init => LagInv
<1> SUFFICES ASSUME Init PROVE LagInv
  OBVIOUS
<1>1. TypeOK
  BY TypeInit
<1>2. /\ gpc = "boot" /\ data = << >> /\ recorded = [t \in Threads |-> 0]
      /\ taken = [t \in Threads |-> << >>] /\ horizon = [t \in Threads |-> 0]
      /\ announced = [t \in Threads |-> 0] /\ Len(<< >>) = 0
  BY DEF Init
<1>3. Sizes
  BY <1>2 DEF Sizes
<1>4. \A t \in Threads : recorded[t] = 0 /\ horizon[t] = 0 /\ announced[t] = 0
  BY <1>2
<1>5. \A t \in Threads : Lags(t, announced[t], Len(received[t]))
  BY <1>1, <1>4, Lengths DEF Lags
<1> QED
  BY <1>2, <1>3, <1>4, <1>5 DEF LagInv, Visiting

LEMMA LagStep == IInv /\ IInv' /\ LagInv /\ [Next]_vars => LagInv'
<1> SUFFICES ASSUME IInv, IInv', LagInv, [Next]_vars PROVE LagInv'
  OBVIOUS
<1>1. Sizes'
  BY SizesStep DEF LagInv
<1>2. \A t \in Threads : /\ horizon'[t] <= recorded'[t]
                         /\ t \notin started' => recorded'[t] = 0
  <2>1. \A t \in Threads : recorded[t] >= horizon[t] /\ (t \notin started => recorded[t] = 0)
    BY Lengths DEF LagInv, IInv
  <2>2. \A t \in Threads : horizon'[t] \in Nat /\ recorded'[t] \in Nat
    BY DEF IInv, TypeOK
  <2> QED
    BY <2>1, <2>2, RecordedStep
<1>3. gpc' = "stamp" => index' = Len(states') + 1
  BY StampStep
<1>4. (gpc = "swap" => Full(states[index]) <= Collected(states[index]) + Capacity)'
  BY OneBuffer
<1>5. (Visiting => \A t \in Threads : Pending(t) \/ Lags(t, horizon[t], Collected(t)))'
  BY VisitsStep
<1>6. (\A t \in Threads : Lags(t, announced[t], Len(received[t])))'
  BY AnnouncedStep
<1> QED
  BY <1>1, <1>2, <1>3, <1>4, <1>5, <1>6 DEF LagInv

LEMMA LagInvariance == Spec => [](IInv /\ LagInv)
<1>1. Init => LagInv
  BY LagInit
<1> QED
  BY <1>1, LagStep, Invariance, PTL DEF Spec

\* An announced timestamp is ahead of the data of a thread by no more than one
\* full buffer, and that is under way (handle_buffers: the time is captured
\* after the first drain, each thread is visited after it, with its lock held).
THEOREM TimestampLagHolds == Spec => []TimestampLag
<1>1. IInv /\ LagInv => TimestampLag
  <2> SUFFICES ASSUME IInv, LagInv, NEW t \in Threads, announced[t] > Len(received[t])
               PROVE  /\ announced[t] <= Len(received[t]) + Capacity
                      /\ gpc # "done" => \/ taken[t] # << >>
                                         \/ \E i \in DOMAIN data : data[i].thread = t
    BY DEF TimestampLag
  <2>1. announced[t] <= Len(received[t]) + Capacity /\ Collected(t) < Full(t)
    BY Lengths DEF LagInv, Lags, IInv
  <2>2. ASSUME gpc # "done", taken[t] = << >> PROVE ~NoMessage(t)
    <3>1. ASSUME NoMessage(t) PROVE FALSE
      <4>1. Collected(t) + Len(taken[t]) = Full(t)
        BY <2>2, <3>1, Between
      <4> QED
        BY <2>1, <2>2, <4>1, Lengths DEF IInv
    <3> QED
      BY <3>1
  <2>3. DOMAIN data = 1 .. Len(data)
    BY DEF IInv, TypeOK
  <2> QED
    BY <2>1, <2>2, <2>3 DEF NoMessage
<1> QED
  BY <1>1, LagInvariance, PTL

-----------------------------------------------------------------------------
(* Nothing fails from start() to stop() *)

\* The handle is in GATHER whenever a hook may look for it, the gatherer runs
\* on, and the main thread is not in stop().
Serving ==
  /\ \A t \in Threads : /\ pc[t] \notin {"noGather", "sendFailed"}
                        /\ pc[t] = "init" => gather
  /\ enabled \/ pc[Main] = "installed" => gather
  /\ enabled => pc[Main] \notin {"stopping", "signalling", "joining"}
  /\ ~shutdown /\ ~final /\ gpc \notin {"close", "done"}

\* stop() was called: tracking is never enabled again.
Stopped == ~enabled /\ pc[Main] \notin {"start", "installed"}

LEMMA ServingStep ==
  ASSUME TypeOK, Serving, ~Stopped, [Next \/ OthersFlush]_vars
  PROVE  Serving' \/ Stopped'
<1>0. pc \in [Threads -> ThreadPc] /\ Main \in Threads
  BY TrackerAssumption DEF TypeOK
<1>1. CASE StartInstall
  BY <1>0, <1>1 DEF StartInstall, Goto, Serving
<1>2. CASE StartEnable
  BY <1>0, <1>2 DEF StartEnable, MayEnable, Goto, Serving
<1>3. ASSUME NEW t \in Threads, ThreadNext(t) PROVE Serving'
  <2>1. \E l : pc' = [pc EXCEPT ![t] = l] /\ (l = "init" => enabled)
               /\ l \notin {"noGather", "sendFailed", "installed", "stopping",
                            "signalling", "joining"}
    <3>1. CASE EnterHook(t)
      BY <3>1 DEF EnterHook, Goto
    <3>2. CASE CloneHandle(t)
      <4>1. pc[t] = "init" /\ gather
        BY <3>2 DEF CloneHandle, Serving
      <4>2. pc' = [pc EXCEPT ![t] = "registering"]
        BY <3>2, <4>1 DEF CloneHandle, Goto
      <4> WITNESS "registering"
      <4> QED
        BY <4>2
    <3>3. CASE SendRegister(t)
      BY <3>3 DEF SendRegister, Goto, Serving
    <3>4. CASE AwaitStart(t) \/ Exit(t)
      BY <3>4 DEF AwaitStart, Exit, Goto
    <3>5. CASE Push(t)
      <4>1. \E l \in {"flush", "idle", "hook"} : pc' = [pc EXCEPT ![t] = l]
        BY <3>5 DEF Push, AfterPush, Goto
      <4> QED
        BY <4>1
    <3>6. CASE Flush(t)
      <4>1. \E l \in {"idle", "hook"} : pc' = [pc EXCEPT ![t] = l]
        BY <3>6 DEF Flush, AfterPush, Goto, Serving
      <4> QED
        BY <4>1
    <3> QED
      BY <1>3, <3>1, <3>2, <3>3, <3>4, <3>5, <3>6 DEF ThreadNext
  <2>2. UNCHANGED <<enabled, gather, shutdown, final, gpc>>
    BY <1>3 DEF ThreadNext, EnterHook, CloneHandle, SendRegister, AwaitStart, Push, Flush,
                Exit
  <2> QED
    BY <1>0, <2>1, <2>2 DEF Serving
<1>4. CASE GathererNext
  <2>1. UNCHANGED <<enabled, gather, pc, shutdown, final>>
    BY <1>4 DEF GathererNext, GathererBoot, RecvTick, RecvData, RecvRegister, Drain, Capture,
                Visit, LockedDrain, Swap, SendHand, Stamp
  <2>2. gpc' \notin {"close", "done"}
    BY <1>4 DEF GathererNext, GathererBoot, RecvTick, RecvData, RecvRegister, Drain, Capture,
                Visit, LockedDrain, Swap, SendHand, Stamp, DrainReceiver, AfterBuffers,
                Serving
  <2> QED
    BY <2>1, <2>2 DEF Serving
<1>5. CASE UNCHANGED vars
  BY <1>5 DEF Serving
<1>6. CASE OthersFlush
  BY <1>6 DEF OthersFlush, Serving
<1>7. CASE StopDisable
  BY <1>0, <1>7 DEF StopDisable, Goto, Stopped
<1>8. CASE StopTake \/ StopSignal \/ StopJoin \/ RecvShutdown \/ Close
  BY <1>8 DEF StopTake, StopSignal, StopJoin, RecvShutdown, Close, Serving, Stopped
<1> QED
  BY <1>1, <1>2, <1>3, <1>4, <1>5, <1>6, <1>7, <1>8 DEF Next, RunNext, StopNext

LEMMA StoppedStep ==
  ASSUME TypeOK, Stopped, [Next \/ OthersFlush]_vars
  PROVE  Stopped'
<1>0. pc \in [Threads -> ThreadPc] /\ Main \in Threads
  BY TrackerAssumption DEF TypeOK
<1>1. CASE StartInstall \/ StartEnable
  BY <1>1 DEF StartInstall, StartEnable, MayEnable, Stopped
<1>2. ASSUME NEW t \in Threads, ThreadNext(t) PROVE Stopped'
  <2>1. UNCHANGED enabled
    BY <1>2 DEF ThreadNext, EnterHook, CloneHandle, SendRegister, AwaitStart, Push, Flush,
                Exit
  <2>2. \E l : pc' = [pc EXCEPT ![t] = l] /\ l \notin {"start", "installed"}
    BY <1>2 DEF ThreadNext, EnterHook, CloneHandle, SendRegister, AwaitStart, Push, Flush,
                Exit, AfterPush, Goto
  <2> QED
    BY <1>0, <2>1, <2>2 DEF Stopped
<1>3. CASE GathererNext \/ RecvShutdown \/ Close \/ OthersFlush \/ UNCHANGED vars
  <2>1. UNCHANGED <<enabled, pc>>
    BY <1>3 DEF GathererNext, GathererBoot, RecvTick, RecvData, RecvRegister, Drain, Capture,
                Visit, LockedDrain, Swap, SendHand, Stamp, RecvShutdown, Close, OthersFlush
  <2> QED
    BY <2>1 DEF Stopped
<1>4. CASE StopDisable \/ StopTake \/ StopSignal \/ StopJoin
  BY <1>0, <1>4 DEF StopDisable, StopTake, StopSignal, StopJoin, Goto, Stopped
<1> QED
  BY <1>1, <1>2, <1>3, <1>4 DEF Next, RunNext, StopNext

\* What other threads flush is well typed too.
LEMMA LiveTypeStep == TypeOK /\ [Next \/ OthersFlush]_vars => TypeOK'
<1>1. ASSUME TypeOK, OthersFlush PROVE TypeOK'
  <2>1. [thread |-> Main, buffer |-> << >>] \in Batch
    BY TrackerAssumption DEF Batch
  <2>2. /\ data' = Append(data, [thread |-> Main, buffer |-> << >>])
        /\ Len(data) < DataCapacity
    BY <1>1 DEF OthersFlush
  <2>3. data' \in Seq(Batch) /\ Len(data') <= DataCapacity
    BY <1>1, <2>1, <2>2, TrackerAssumption DEF TypeOK
  <2>4. UNCHANGED <<controlVars, writerVars, started, dead, registration, shutdown,
                    gathererVars, wireVars>>
    BY <1>1 DEF OthersFlush
  <2> QED
    BY <1>1, <2>3, <2>4 DEF TypeOK
<1> QED
  BY <1>1, TypeStep

\* From start() to stop(), no hook dies in an unwrap() of its handle or of a
\* send (writer(), GatherHandle::register and flush), whatever other threads do.
THEOREM NoPanicHolds == LiveSpec => []NoPanicWhileTracking
<1>1. Init => TypeOK /\ (Serving \/ Stopped)
  <2>1. Init => Serving
    BY TrackerAssumption DEF Init, Serving
  <2> QED
    BY <2>1, TypeInit
<1>2. /\ TypeOK /\ (Serving \/ Stopped)
      /\ [Next \/ OthersFlush]_vars
      => (TypeOK /\ (Serving \/ Stopped))'
  BY LiveTypeStep, ServingStep, StoppedStep
<1>3. Serving \/ Stopped => NoPanicWhileTracking
  BY DEF Serving, Stopped, NoPanic, NoPanicWhileTracking
<1> QED
  BY <1>1, <1>2, <1>3, PTL DEF LiveSpec

-----------------------------------------------------------------------------
(* The stages of the pipeline hold the log *)

\* Induction over the natural numbers, about a set instead of a predicate.
LEMMA SetInduction ==
  ASSUME NEW S, 0 \in S, \A n \in Nat : n \in S => n + 1 \in S
  PROVE  Nat \subseteq S
<1> DEFINE R == {p \in Nat \X Nat : p[1] < p[2]}
           Missing == Nat \ S
<1>1. IsWellFoundedOn(R, Nat)
  BY NatLessThanWellFounded DEF OpToRel
<1>2. SUFFICES ASSUME Missing # {} PROVE FALSE
  OBVIOUS
<1>3. PICK x \in Missing : \A y \in Missing : ~(<<y, x>> \in R)
  <2> HIDE DEF R
  <2> QED
    BY <1>1, <1>2, WFMin
<1>4. x \in Nat /\ x # 0
  OBVIOUS
<1>5. x - 1 \in Nat /\ x - 1 < x
  BY <1>4
<1>6. x - 1 \notin Missing
  BY <1>3, <1>4, <1>5
<1>7. (x - 1) + 1 \in S
  BY <1>5, <1>6
<1> QED
  BY <1>4, <1>7

LEMMA FollowsConcat ==
  ASSUME NEW s1 \in Seq(Nat), NEW s2 \in Seq(Nat), NEW n \in Int,
         Follows(s1, n), Follows(s2, n + Len(s1))
  PROVE  /\ s1 \o s2 \in Seq(Nat) /\ Follows(s1 \o s2, n)
         /\ Len(s1 \o s2) = Len(s1) + Len(s2)
<1>1. Len(s1) \in Nat /\ Len(s2) \in Nat
  OBVIOUS
<1>2. /\ s1 \o s2 \in Seq(Nat) /\ Len(s1 \o s2) = Len(s1) + Len(s2)
      /\ \A i \in 1 .. Len(s1) + Len(s2) :
           (s1 \o s2)[i] = IF i <= Len(s1) THEN s1[i] ELSE s2[i - Len(s1)]
  BY ConcatProperties
<1>3. ASSUME NEW i \in 1 .. Len(s1) + Len(s2) PROVE (s1 \o s2)[i] = n + i
  <2>1. CASE i <= Len(s1)
    BY <1>1, <1>2, <1>3, <2>1 DEF Follows
  <2>2. CASE ~(i <= Len(s1))
    <3>1. i - Len(s1) \in 1 .. Len(s2)
      BY <1>1, <2>2
    <3>2. s2[i - Len(s1)] = n + Len(s1) + (i - Len(s1))
      BY <3>1 DEF Follows
    <3> QED
      BY <1>1, <1>2, <2>2, <3>2
  <2> QED
    BY <2>1, <2>2
<1> QED
  BY <1>2, <1>3 DEF Follows

\* The events of t in the channel, in its order, are those it has handed over and
\* the gatherer has not collected.
LEMMA ChannelHolds ==
  ASSUME IInv, gpc # "done", NEW t \in Threads
  PROVE  /\ InChannel(t) \in Seq(Nat)
         /\ Follows(InChannel(t), Collected(t))
         /\ Collected(t) + Len(InChannel(t)) = HandedOver(t)
<1> DEFINE Longer(s, i) == IF data[i].thread = t THEN s \o data[i].buffer ELSE s
           Solves(f, n) == f = [i \in 0 .. n |-> IF i = 0 THEN << >>
                                                 ELSE Longer(f[i - 1], i)]
           S == {n \in Nat : \E f : Solves(f, n)}
<1>1. 0 \in S
  <2>1. Solves([i \in 0 .. 0 |-> << >>], 0)
    OBVIOUS
  <2> QED
    BY <2>1
<1>2. ASSUME NEW n \in Nat, n \in S PROVE n + 1 \in S
  <2>1. PICK f : Solves(f, n)
    BY <1>2
  <2> HIDE DEF Longer
  <2> DEFINE g == [i \in 0 .. n + 1 |-> IF i <= n THEN f[i] ELSE Longer(f[n], n + 1)]
  <2>2. \A i \in 0 .. n + 1 : g[i] = IF i = 0 THEN << >> ELSE Longer(g[i - 1], i)
    BY <2>1
  <2>3. Solves(g, n + 1)
    BY <2>2
  <2> HIDE DEF g
  <2>4. \E h : Solves(h, n + 1)
    BY <2>3
  <2> HIDE DEF Solves
  <2> QED
    BY <2>4
<1>3. Nat \subseteq S
  <2> HIDE DEF S
  <2> QED
    BY <1>1, <1>2, SetInduction
<1>4. Len(data) \in Nat /\ \A i \in 1 .. Len(data) : data[i].buffer \in Seq(Nat)
  BY MessageType DEF IInv
<1> DEFINE upTo == CHOOSE f : Solves(f, Len(data))
<1>5. Solves(upTo, Len(data))
  <2>1. \E f : Solves(f, Len(data))
    BY <1>3, <1>4
  <2> HIDE DEF Solves
  <2> QED
    BY <2>1
<1>6. InChannel(t) = upTo[Len(data)]
  BY DEF InChannel
<1> HIDE DEF upTo
<1>7. upTo[0] = << >> /\ \A n \in 1 .. Len(data) : upTo[n] = Longer(upTo[n - 1], n)
  <2> HIDE DEF Longer
  <2> QED
    BY <1>4, <1>5
<1> HIDE DEF Solves
<1> DEFINE Latest(n, i) == data[i].thread = t /\ \A j \in i + 1 .. n : data[j].thread # t
           Ends(n) == \/ /\ \A i \in 1 .. n : data[i].thread # t
                         /\ Len(upTo[n]) = 0
                      \/ \E i \in 1 .. n : /\ Latest(n, i)
                                           /\ Collected(t) + Len(upTo[n]) = Through(data[i])
           Held(n) == upTo[n] \in Seq(Nat) /\ Follows(upTo[n], Collected(t)) /\ Ends(n)
           W == {n \in Nat : n <= Len(data) => Held(n)}
<1>8. Collected(t) \in Nat /\ Len(<< >>) = 0 /\ << >> \in Seq(Nat)
  BY Lengths DEF IInv
<1>9. Chain(data, [u \in Threads |-> Collected(u)], [u \in Threads |-> HandedOver(u)])
  BY DEF IInv, Pipeline, Messages
<1>10. 0 \in W
  <2>1. \A i \in 1 .. 0 : FALSE
    OBVIOUS
  <2>2. upTo[0] \in Seq(Nat) /\ Len(upTo[0]) = 0
    BY <1>7, <1>8
  <2>3. Follows(upTo[0], Collected(t))
    BY <2>1, <2>2 DEF Follows
  <2>4. Ends(0)
    <3> HIDE DEF Latest
    <3> QED
      BY <2>1, <2>2
  <2> HIDE DEF Ends
  <2> QED
    BY <2>2, <2>3, <2>4
<1>11. ASSUME NEW n \in Nat, n \in W PROVE n + 1 \in W
  <2>1. SUFFICES ASSUME n + 1 <= Len(data) PROVE Held(n + 1)
    OBVIOUS
  <2>2. n + 1 \in 1 .. Len(data) /\ n <= Len(data) /\ Held(n)
    BY <1>4, <1>11, <2>1
  <2>3. upTo[n + 1] = Longer(upTo[n], n + 1)
    BY <1>7, <2>2
  <2>4. upTo[n] \in Seq(Nat) /\ Follows(upTo[n], Collected(t)) /\ Ends(n)
    BY <2>2
  <2> HIDE DEF Ends, W
  <2>5. CASE data[n + 1].thread # t
    <3>1. upTo[n + 1] = upTo[n]
      BY <2>3, <2>5
    <3>2. Ends(n + 1)
      <4>1. CASE (\A i \in 1 .. n : data[i].thread # t) /\ Len(upTo[n]) = 0
        <5>1. \A i \in 1 .. n + 1 : data[i].thread # t
          BY <2>5, <4>1
        <5> QED
          BY <3>1, <4>1, <5>1 DEF Ends
      <4>2. ASSUME NEW i \in 1 .. n, Latest(n, i),
                   Collected(t) + Len(upTo[n]) = Through(data[i])
            PROVE  Ends(n + 1)
        <5>1. Latest(n + 1, i) /\ i \in 1 .. n + 1
          BY <2>5, <4>2
        <5> HIDE DEF Latest
        <5> QED
          BY <3>1, <4>2, <5>1 DEF Ends
      <4> HIDE DEF Latest
      <4> QED
        BY <2>4, <4>1, <4>2 DEF Ends
    <3> QED
      BY <2>4, <3>1, <3>2
  <2>6. CASE data[n + 1].thread = t
    <3> DEFINE b == data[n + 1].buffer
    <3>1. upTo[n + 1] = upTo[n] \o b
      BY <2>3, <2>6
    <3>2. b \in Seq(Nat) /\ Follows(b, Before(data[n + 1]))
      BY <1>4, <1>9, <2>2 DEF Chain
    <3>3. Before(data[n + 1]) = Collected(t) + Len(upTo[n])
      <4>1. CASE (\A i \in 1 .. n : data[i].thread # t) /\ Len(upTo[n]) = 0
        <5>1. \A j \in 1 .. (n + 1) - 1 : data[j].thread # data[n + 1].thread
          BY <2>6, <4>1
        <5>2. Before(data[n + 1]) = [u \in Threads |-> Collected(u)][data[n + 1].thread]
          BY <1>9, <2>2, <5>1 DEF Chain
        <5> QED
          BY <1>8, <2>6, <4>1, <5>2
      <4>2. ASSUME NEW i \in 1 .. n, Latest(n, i),
                   Collected(t) + Len(upTo[n]) = Through(data[i])
            PROVE  Before(data[n + 1]) = Collected(t) + Len(upTo[n])
        <5>1. /\ i \in 1 .. Len(data) /\ i < n + 1 /\ data[i].thread = data[n + 1].thread
              /\ \A k \in i + 1 .. (n + 1) - 1 : data[k].thread # data[i].thread
          BY <1>4, <2>2, <2>6, <4>2
        <5>2. Before(data[n + 1]) = Through(data[i])
          BY <1>9, <2>2, <5>1 DEF Chain
        <5> QED
          BY <4>2, <5>2
      <4> HIDE DEF Latest
      <4> QED
        BY <2>4, <4>1, <4>2 DEF Ends
    <3> HIDE DEF b
    <3>4. Follows(b, Collected(t) + Len(upTo[n]))
      BY <3>2, <3>3
    <3>5. /\ upTo[n] \o b \in Seq(Nat) /\ Follows(upTo[n] \o b, Collected(t))
          /\ Len(upTo[n] \o b) = Len(upTo[n]) + Len(b)
      <4>1. /\ upTo[n] \in Seq(Nat) /\ b \in Seq(Nat) /\ Collected(t) \in Int
            /\ Follows(upTo[n], Collected(t)) /\ Follows(b, Collected(t) + Len(upTo[n]))
        BY <1>8, <2>4, <3>2, <3>4
      <4> QED
        BY <4>1, FollowsConcat
    <3>6. Through(data[n + 1]) = Collected(t) + Len(upTo[n + 1])
      <4>1. Len(upTo[n]) \in Nat /\ Len(b) \in Nat
        BY <2>4, <3>2
      <4>2. Through(data[n + 1]) = Before(data[n + 1]) + Len(b)
        BY DEF Through, b
      <4> QED
        BY <1>8, <3>1, <3>3, <3>5, <4>1, <4>2
    <3>7. Latest(n + 1, n + 1) /\ n + 1 \in 1 .. n + 1
      BY <2>6
    <3>8. Ends(n + 1)
      <4> HIDE DEF Latest
      <4> QED
        BY <3>6, <3>7 DEF Ends
    <3> QED
      BY <3>1, <3>5, <3>8
  <2> QED
    BY <2>5, <2>6
<1>12. Nat \subseteq W
  <2> HIDE DEF W
  <2> QED
    BY <1>10, <1>11, SetInduction
<1>13. Held(Len(data))
  <2> HIDE DEF Held
  <2> QED
    BY <1>4, <1>12
<1>14. Collected(t) + Len(upTo[Len(data)]) = HandedOver(t)
  <2>1. CASE (\A i \in 1 .. Len(data) : data[i].thread # t) /\ Len(upTo[Len(data)]) = 0
    <3>1. [u \in Threads |-> Collected(u)][t] = [u \in Threads |-> HandedOver(u)][t]
      BY <1>9, <2>1 DEF Chain
    <3> QED
      BY <1>8, <2>1, <3>1
  <2>2. ASSUME NEW i \in 1 .. Len(data), Latest(Len(data), i),
               Collected(t) + Len(upTo[Len(data)]) = Through(data[i])
        PROVE  Collected(t) + Len(upTo[Len(data)]) = HandedOver(t)
    <3>1. \A j \in i + 1 .. Len(data) : data[j].thread # data[i].thread
      BY <2>2
    <3>2. Through(data[i]) = [u \in Threads |-> HandedOver(u)][data[i].thread]
      BY <1>9, <3>1 DEF Chain
    <3> QED
      BY <2>2, <3>2
  <2> HIDE DEF Latest
  <2> QED
    BY <1>13, <2>1, <2>2
<1> QED
  BY <1>6, <1>13, <1>14

\* Nothing is lost, doubled or overtaken on its way: what was received, what is in
\* the gatherer's hand and in the channel, and what the thread has taken out and
\* in its buffer is, one after the other, what it has recorded (handle_alloc to
\* send_buffer).
THEOREM PipelineHoldsLogHolds == Spec => []PipelineHoldsLog
<1>1. IInv => PipelineHoldsLog
  <2> SUFFICES ASSUME IInv, gpc # "done", NEW t \in Threads
               PROVE  received[t] \o InHand(t) \o InChannel(t) \o taken[t] \o buffer[t]
                        = Log!FirstEvents(recorded[t])
    BY DEF PipelineHoldsLog
  <2> DEFINE s1 == received[t]
             s2 == s1 \o InHand(t)
             s3 == s2 \o InChannel(t)
             s4 == s3 \o taken[t]
             s5 == s4 \o buffer[t]
  <2>1. /\ s1 \in Seq(Nat) /\ InHand(t) \in Seq(Nat) /\ InChannel(t) \in Seq(Nat)
        /\ taken[t] \in Seq(Nat) /\ buffer[t] \in Seq(Nat) /\ recorded[t] \in Nat
        /\ Len(s1) \in Nat /\ Len(InHand(t)) \in Nat /\ Len(taken[t]) \in Nat
        /\ Len(buffer[t]) \in Nat
    BY Lengths, ChannelHolds DEF IInv
  <2>2. /\ Follows(s1, 0) /\ Follows(InHand(t), Len(s1))
        /\ Follows(taken[t], HandedOver(t))
        /\ Follows(buffer[t], HandedOver(t) + Len(taken[t]))
    BY DEF IInv, Pipeline, Writing
  <2>3. Len(InChannel(t)) \in Nat
    BY <2>1
  <2>4. /\ Collected(t) = Len(s1) + Len(InHand(t)) /\ Follows(InChannel(t), Collected(t))
        /\ Collected(t) + Len(InChannel(t)) = HandedOver(t)
    BY ChannelHolds DEF Collected
  <2>5. HandedOver(t) + Len(taken[t]) + Len(buffer[t]) = recorded[t]
    BY <2>1 DEF HandedOver
  <2> HIDE DEF s1
  <2>6. s2 \in Seq(Nat) /\ Follows(s2, 0) /\ Len(s2) = Collected(t)
    <3>1. Follows(InHand(t), 0 + Len(s1))
      BY <2>1, <2>2
    <3> QED
      BY <2>1, <2>2, <2>4, <3>1, FollowsConcat
  <2> HIDE DEF s2
  <2>7. s3 \in Seq(Nat) /\ Follows(s3, 0) /\ Len(s3) = HandedOver(t)
    <3>1. Follows(InChannel(t), 0 + Len(s2))
      BY <2>1, <2>4, <2>6
    <3>2. s3 \in Seq(Nat) /\ Follows(s3, 0) /\ Len(s3) = Len(s2) + Len(InChannel(t))
      <4>1. s2 \in Seq(Nat) /\ Follows(s2, 0) /\ InChannel(t) \in Seq(Nat)
        BY <2>1, <2>6
      <4> QED
        BY <3>1, <4>1, FollowsConcat
    <3> QED
      BY <2>4, <2>6, <3>2
  <2> HIDE DEF s3
  <2>8. s4 \in Seq(Nat) /\ Follows(s4, 0) /\ Len(s4) = HandedOver(t) + Len(taken[t])
    <3>1. Len(s3) \in Nat
      BY <2>7
    <3>2. Follows(taken[t], 0 + Len(s3))
      BY <2>2, <2>7, <3>1
    <3>3. s4 \in Seq(Nat) /\ Follows(s4, 0) /\ Len(s4) = Len(s3) + Len(taken[t])
      <4>1. s3 \in Seq(Nat) /\ Follows(s3, 0) /\ taken[t] \in Seq(Nat)
        BY <2>1, <2>7
      <4> QED
        BY <3>2, <4>1, FollowsConcat
    <3> QED
      BY <2>7, <3>3
  <2> HIDE DEF s4
  <2>9. s5 \in Seq(Nat) /\ Follows(s5, 0) /\ Len(s5) = recorded[t]
    <3>1. Len(s4) \in Nat
      BY <2>8
    <3>2. Follows(buffer[t], 0 + Len(s4))
      BY <2>2, <2>8, <3>1
    <3>3. s5 \in Seq(Nat) /\ Follows(s5, 0) /\ Len(s5) = Len(s4) + Len(buffer[t])
      <4>1. s4 \in Seq(Nat) /\ Follows(s4, 0) /\ buffer[t] \in Seq(Nat)
        BY <2>1, <2>8
      <4> QED
        BY <3>2, <4>1, FollowsConcat
    <3> QED
      BY <2>5, <2>8, <3>3
  <2> HIDE DEF s5
  <2>10. \A k \in 1 .. Len(s5) : s5[k] = k
    BY <2>9 DEF Follows
  <2>11. s5 = Log!FirstEvents(recorded[t])
    BY <2>9, <2>10 DEF Log!FirstEvents
  <2> QED
    BY <2>11 DEF s5, s4, s3, s2, s1
<1> QED
  BY <1>1, Invariance, PTL

-----------------------------------------------------------------------------
(* stop() flushes what is complete *)

\* The gatherer is asked to end only by a stop() that has taken the handle.
Asking ==
  /\ gather \/ pc[Main] \in {"start", "installed"} =>
       ~shutdown /\ ~final /\ gpc \notin {"close", "done"}
  /\ pc[Main] = "signalling" => ~gather
  /\ pc[Main] \in {"stopping", "signalling", "joining"} => ~enabled

LEMMA AskingStep ==
  ASSUME TypeOK, Asking, [Next]_vars
  PROVE  Asking'
<1>0. pc \in [Threads -> ThreadPc] /\ Main \in Threads
  BY TrackerAssumption DEF TypeOK
<1>1. CASE StartInstall
  BY <1>0, <1>1 DEF StartInstall, Goto, Asking
<1>2. CASE StartEnable
  BY <1>0, <1>2 DEF StartEnable, MayEnable, Goto, Asking
<1>3. ASSUME NEW t \in Threads, ThreadNext(t) PROVE Asking'
  <2>1. UNCHANGED <<enabled, gather, shutdown, final, gpc>>
    BY <1>3 DEF ThreadNext, EnterHook, CloneHandle, SendRegister, AwaitStart, Push, Flush,
                Exit
  <2>2. \/ pc'[Main] = pc[Main]
        \/ pc'[Main] \in {"init", "hook", "noGather", "registering", "sendFailed", "waiting",
                          "flush", "idle"}
    BY <1>0, <1>3 DEF ThreadNext, EnterHook, CloneHandle, SendRegister, AwaitStart, Push,
                      Flush, Exit, AfterPush, Goto
  <2> QED
    BY <2>1, <2>2 DEF Asking
<1>4. CASE GathererNext
  <2>1. UNCHANGED <<enabled, gather, pc, shutdown, final>>
    BY <1>4 DEF GathererNext, GathererBoot, RecvTick, RecvData, RecvRegister, Drain, Capture,
                Visit, LockedDrain, Swap, SendHand, Stamp
  <2>2. gpc' \in {"close", "done"} => gpc' = gpc \/ final
    BY <1>4 DEF GathererNext, GathererBoot, RecvTick, RecvData, RecvRegister, Drain, Capture,
                Visit, LockedDrain, Swap, SendHand, Stamp, DrainReceiver, AfterBuffers
  <2> QED
    BY <2>1, <2>2 DEF Asking
<1>5. CASE StopDisable
  BY <1>0, <1>5 DEF StopDisable, Goto, Asking
<1>6. CASE StopTake
  BY <1>0, <1>6 DEF StopTake, Goto, Asking
<1>7. CASE StopSignal
  BY <1>0, <1>7 DEF StopSignal, Goto, Asking
<1>8. CASE StopJoin
  BY <1>0, <1>8 DEF StopJoin, Goto, Asking
<1>9. CASE RecvShutdown \/ Close
  BY <1>9 DEF RecvShutdown, Close, Asking
<1>10. CASE UNCHANGED vars
  BY <1>10 DEF Asking
<1> QED
  BY <1>1, <1>2, <1>3, <1>4, <1>5, <1>6, <1>7, <1>8, <1>9, <1>10 DEF Next, RunNext, StopNext

\* A thread that is in no hook and, tracking being off, enters none.
Still(t) ==
  /\ ~enabled /\ pc[Main] \notin {"start", "installed"}
  /\ pc[t] \in {"idle", "exited", "stopping", "signalling", "joining"}
  /\ taken[t] = << >>

\* From the final drain on no message of the thread is in the channel, and its
\* buffer is taken in turn.
Flushed(t) ==
  /\ final /\ (gpc = "capture" \/ Visiting) => NoMessage(t)
  /\ final /\ Visiting => Pending(t) \/ buffer[t] = << >>
  /\ gpc = "close" => NoMessage(t) /\ buffer[t] = << >>
  /\ gpc = "done" => Len(received[t]) = recorded[t]

LEMMA StillStep ==
  ASSUME TypeOK, NEW t \in Threads, Still(t), [Next]_vars
  PROVE  /\ Still(t)'
         /\ recorded'[t] = recorded[t]
         /\ buffer'[t] = buffer[t] \/ buffer'[t] = << >>
         /\ NoMessage(t) => NoMessage(t)'
<1>0. /\ pc \in [Threads -> ThreadPc] /\ Main \in Threads /\ data \in Seq(Batch)
      /\ taken \in [Threads -> Seq(Nat)] /\ buffer \in [Threads -> Seq(Nat)]
      /\ recorded \in [Threads -> Nat] /\ Len(data) \in Nat
  <2>1. data \in Seq(Batch)
    BY DEF TypeOK
  <2>2. Len(data) \in Nat
    BY <2>1
  <2> QED
    BY <2>1, <2>2, TrackerAssumption DEF TypeOK
<1>1. ASSUME NEW u \in Threads, u # t, Push(u) \/ Flush(u)
      PROVE  /\ ~enabled' /\ pc'[t] = pc[t] /\ pc'[Main] \notin {"start", "installed"}
             /\ recorded'[t] = recorded[t] /\ buffer'[t] = buffer[t] /\ taken'[t] = taken[t]
             /\ data' = data \/ data' = Append(data, [thread |-> u, buffer |-> taken[u]])
  <2>1. \E l : pc' = [pc EXCEPT ![u] = l] /\ l \notin {"start", "installed"}
    <3>1. CASE Push(u)
      BY <3>1 DEF Push, AfterPush, Goto
    <3>2. CASE Flush(u)
      BY <3>2 DEF Flush, AfterPush, Goto
    <3> QED
      BY <1>1, <3>1, <3>2
  <2>2. /\ enabled' = enabled /\ recorded'[t] = recorded[t] /\ buffer'[t] = buffer[t]
        /\ taken'[t] = taken[t]
        /\ data' = data \/ data' = Append(data, [thread |-> u, buffer |-> taken[u]])
    <3>1. CASE Push(u)
      BY <1>0, <1>1, <3>1 DEF Push
    <3>2. CASE Flush(u)
      BY <1>0, <1>1, <3>2 DEF Flush, SendData
    <3> QED
      BY <1>1, <3>1, <3>2
  <2>3. pc'[t] = pc[t] /\ pc'[Main] \notin {"start", "installed"}
    BY <1>0, <1>1, <2>1 DEF Still
  <2> QED
    BY <2>2, <2>3 DEF Still
<1>2. ASSUME NEW u \in Threads, u # t, data' = Append(data, [thread |-> u, buffer |-> taken[u]])
      PROVE  NoMessage(t) => NoMessage(t)'
  <2> DEFINE new == [thread |-> u, buffer |-> taken[u]]
  <2>1. new \in Batch /\ new.thread = u
    BY <1>0 DEF Batch
  <2> HIDE DEF new
  <2>2. /\ Len(data') = Len(data) + 1 /\ data'[Len(data) + 1] = new
        /\ \A i \in 1 .. Len(data) : data'[i] = data[i]
    BY <1>0, <1>2, <2>1, AppendProperties DEF new
  <2>3. \A i \in 1 .. Len(data') : i \in 1 .. Len(data) \/ i = Len(data) + 1
    <3>1. Len(data) \in Nat /\ Len(data') = Len(data) + 1
      BY <1>0, <2>2
    <3> QED
      BY <3>1
  <2> QED
    BY <1>2, <2>1, <2>2, <2>3 DEF NoMessage
<1>3. ASSUME NEW u \in Threads, Push(u) \/ Flush(u)
      PROVE  u # t
  BY <1>3 DEF Push, Flush, Still
<1>4. CASE \E u \in Threads : Push(u) \/ Flush(u)
  <2>1. PICK u \in Threads : Push(u) \/ Flush(u)
    BY <1>4
  <2>2. /\ ~enabled' /\ pc'[t] = pc[t] /\ pc'[Main] \notin {"start", "installed"}
        /\ recorded'[t] = recorded[t] /\ buffer'[t] = buffer[t] /\ taken'[t] = taken[t]
        /\ data' = data \/ data' = Append(data, [thread |-> u, buffer |-> taken[u]])
    BY <1>1, <1>3, <2>1
  <2>3. NoMessage(t) => NoMessage(t)'
    <3>1. CASE data' = data
      BY <3>1 DEF NoMessage
    <3> QED
      BY <1>2, <1>3, <2>1, <2>2, <3>1
  <2> QED
    BY <2>2, <2>3 DEF Still
<1>5. ASSUME NEW u \in Threads, ThreadNext(u), ~Push(u), ~Flush(u)
      PROVE  /\ Still(t)' /\ UNCHANGED <<recorded, buffer, data>>
  <2>1. UNCHANGED <<enabled, taken, recorded, buffer, data>>
    BY <1>5 DEF ThreadNext, EnterHook, CloneHandle, SendRegister, AwaitStart, Exit
  <2>2. \E l : pc' = [pc EXCEPT ![u] = l] /\ l \notin {"start", "installed"}
               /\ (u = t => l = "exited")
    BY <1>5 DEF ThreadNext, EnterHook, CloneHandle, SendRegister, AwaitStart, Exit, Goto,
                Still
  <2> QED
    BY <1>0, <2>1, <2>2 DEF Still
<1>6. CASE StopDisable \/ StopTake \/ StopSignal \/ StopJoin
  <2>1. UNCHANGED <<taken, recorded, buffer, data>> /\ ~enabled'
    BY <1>6 DEF StopDisable, StopTake, StopSignal, StopJoin, Still
  <2>2. \E l \in {"idle", "stopping", "signalling", "joining"} : pc' = [pc EXCEPT ![Main] = l]
    BY <1>6 DEF StopDisable, StopTake, StopSignal, StopJoin, Goto
  <2> QED
    BY <1>0, <2>1, <2>2 DEF Still, NoMessage
<1>7. CASE GathererNext \/ RecvShutdown \/ Close
  <2>1. UNCHANGED <<enabled, taken, recorded, pc>>
    BY <1>7 DEF GathererNext, GathererBoot, RecvTick, RecvData, RecvRegister, Drain, Capture,
                Visit, LockedDrain, Swap, SendHand, Stamp, RecvShutdown, Close
  <2>2. buffer' = buffer \/ \E u : buffer' = [buffer EXCEPT ![u] = << >>]
    BY <1>7 DEF GathererNext, GathererBoot, RecvTick, RecvData, RecvRegister, Drain, Capture,
                Visit, LockedDrain, Swap, SendHand, Stamp, RecvShutdown, Close, Emptied
  <2>3. data' = data \/ data' = << >> \/ (data' = Tail(data) /\ data # << >>)
    BY <1>7 DEF GathererNext, GathererBoot, RecvTick, RecvData, RecvRegister, Drain, Capture,
                Visit, LockedDrain, Swap, SendHand, Stamp, RecvShutdown, Close, ShipHead,
                DrainReceiver
  <2>4. NoMessage(t) => NoMessage(t)'
    <3>1. CASE data' = Tail(data) /\ data # << >>
      <4>1. /\ Len(data') = Len(data) - 1
            /\ \A i \in 1 .. Len(data) - 1 : data'[i] = data[i + 1]
        BY <1>0, <3>1, TailShift
      <4>2. \A i \in 1 .. Len(data') : i + 1 \in 1 .. Len(data) /\ data'[i] = data[i + 1]
        BY <1>0, <4>1
      <4> QED
        BY <4>2 DEF NoMessage
    <3>2. CASE data' = << >>
      <4>1. Len(data') = 0
        BY <3>2
      <4> QED
        BY <4>1 DEF NoMessage
    <3> QED
      BY <2>3, <3>1, <3>2 DEF NoMessage
  <2> QED
    BY <1>0, <2>1, <2>2, <2>4 DEF Still
<1>8. CASE StartInstall \/ StartEnable
  BY <1>8 DEF StartInstall, StartEnable, MayEnable, Still
<1>9. CASE UNCHANGED vars
  BY <1>9 DEF Still, NoMessage
<1> QED
  BY <1>4, <1>5, <1>6, <1>7, <1>8, <1>9 DEF Next, RunNext, StopNext, NoMessage

LEMMA FlushedStep ==
  ASSUME IInv, IInv', LagInv, NEW t \in Threads, Still(t), Flushed(t), [Next]_vars
  PROVE  Flushed(t)'
<1>0. TypeOK
  BY DEF IInv
<1>1. /\ Still(t)' /\ recorded'[t] = recorded[t]
      /\ buffer'[t] = buffer[t] \/ buffer'[t] = << >>
      /\ NoMessage(t) => NoMessage(t)'
  BY <1>0, StillStep
<1>2. \/ gpc' = gpc /\ states' = states /\ index' = index /\ final' = final
         /\ gpc # "select"
      \/ gpc \in {"boot", "select"} /\ gpc' \in {"select", "drain"}
      \/ Drain /\ data = << >> /\ gpc = "drain" /\ gpc' = "capture"
      \/ Capture \/ Visit \/ (LockedDrain /\ data = << >>) \/ Swap \/ SendHand \/ Stamp
      \/ Close
  <2>1. ASSUME NEW u \in Threads, ThreadNext(u)
        PROVE  UNCHANGED <<gpc, states, index, final>>
    BY <2>1 DEF ThreadNext, EnterHook, CloneHandle, SendRegister, AwaitStart, Push, Flush,
                Exit
  <2>2. CASE StartInstall \/ StartEnable \/ StopDisable \/ StopTake \/ StopSignal \/ StopJoin
             \/ UNCHANGED vars
    BY <2>2 DEF StartInstall, StartEnable, StopDisable, StopTake, StopSignal, StopJoin
  <2>3. CASE GathererBoot \/ RecvTick \/ RecvData \/ RecvRegister \/ RecvShutdown
    BY <2>3 DEF GathererBoot, RecvTick, RecvData, RecvRegister, RecvShutdown, AfterShutdown,
                IsInternalThread
  <2>4. CASE Drain \/ LockedDrain
    BY <2>4 DEF Drain, LockedDrain, DrainReceiver
  <2> QED
    BY <2>1, <2>2, <2>3, <2>4 DEF Next, RunNext, StopNext, GathererNext
<1>3. (final /\ (gpc = "capture" \/ Visiting) => NoMessage(t))'
  <2>1. CASE Drain /\ data = << >>
    <3>1. data' = << >>
      BY <2>1 DEF Drain, DrainReceiver, ShipHead
    <3>2. Len(data') = 0
      BY <3>1
    <3> QED
      BY <3>2 DEF NoMessage
  <2>2. CASE gpc \in {"boot", "select"} /\ gpc' \in {"select", "drain"}
    BY <2>2 DEF Visiting
  <2>3. CASE gpc' = gpc /\ final' = final
    BY <1>1, <2>3 DEF Flushed, Visiting
  <2>4. CASE Capture \/ Visit \/ LockedDrain \/ Swap \/ SendHand
    <3>1. (gpc = "capture" \/ Visiting) /\ final' = final
      BY <2>4 DEF Capture, Visit, LockedDrain, Swap, SendHand, Visiting
    <3> QED
      BY <1>1, <3>1 DEF Flushed
  <2>5. CASE Stamp \/ Close
    BY <2>5 DEF Stamp, AfterBuffers, Close, Visiting
  <2> QED
    BY <1>2, <2>1, <2>2, <2>3, <2>4, <2>5
<1>4. (final /\ Visiting => Pending(t) \/ buffer[t] = << >>)'
  <2>1. CASE Capture
    <3>1. /\ gpc = "capture" /\ gpc' = "visit" /\ index' = 1 /\ states' = states
          /\ buffer' = buffer
      BY <2>1 DEF Capture
    <3>2. CASE Listed(t)
      <4>1. PICK i \in 1 .. Len(states) : states[i] = t
        BY <3>2 DEF Listed
      <4>2. i > 1 \/ i = 1
        <5>1. Len(states) \in Nat
          BY DEF IInv, TypeOK
        <5> QED
          BY <5>1
      <4> QED
        BY <3>1, <4>1, <4>2 DEF Pending
    <3>3. CASE recorded[t] <= Collected(t)
      <4>1. /\ Collected(t) <= HandedOver(t) /\ HandedOver(t) + Len(taken[t]) = Full(t)
        BY <3>1, Between
      <4>2. /\ recorded[t] \in Nat /\ Len(buffer[t]) \in Nat /\ Len(taken[t]) \in Nat
            /\ Collected(t) \in Nat /\ HandedOver(t) \in Int
        BY Lengths DEF IInv
      <4>3. Full(t) = recorded[t] - Len(buffer[t])
        BY DEF Full
      <4>4. Len(buffer[t]) = 0
        BY <3>3, <4>1, <4>2, <4>3
      <4>5. buffer[t] = << >>
        BY <4>4, Lengths DEF IInv
      <4> QED
        BY <3>1, <4>5
    <3> QED
      BY <3>1, <3>2, <3>3, CaptureCovers
  <2>2. CASE Visit \/ LockedDrain \/ (Visiting /\ gpc' = gpc /\ final' = final
                                      /\ states' = states /\ index' = index)
    <3>1. /\ Visiting /\ final' = final /\ states' = states /\ index' = index
          /\ (gpc' = "send" <=> gpc = "send")
      BY <2>2 DEF Visit, LockedDrain, DrainReceiver, Visiting, ShipHead
    <3>2. Pending(t)' <=> Pending(t)
      BY <3>1 DEF Pending
    <3> QED
      BY <1>1, <3>1, <3>2 DEF Flushed
  <2>3. CASE Swap
    <3>1. /\ gpc = "swap" /\ gpc' = "send" /\ states' = states /\ index' = index
          /\ final' = final /\ buffer' = [buffer EXCEPT ![states[index]] = << >>]
          /\ buffer \in [Threads -> Seq(Nat)]
      BY <1>0, <2>3 DEF Swap, Emptied, TypeOK
    <3>2. CASE t = states[index]
      BY <3>1, <3>2
    <3>3. CASE t # states[index]
      <4>1. Pending(t)' <=> Pending(t)
        BY <3>1, <3>3 DEF Pending
      <4> QED
        BY <1>1, <3>1, <4>1 DEF Flushed, Visiting
    <3> QED
      BY <3>2, <3>3
  <2>4. CASE SendHand
    <3>1. Visiting /\ final' = final
      BY <2>4 DEF SendHand, Visiting
    <3>2. Pending(t) => Pending(t)'
      BY <2>4, SendHandPending
    <3> QED
      BY <1>1, <3>1, <3>2 DEF Flushed
  <2>5. CASE Drain \/ Stamp \/ Close \/ gpc' \in {"select", "drain"}
    BY <1>2, <2>5 DEF Drain, DrainReceiver, ShipHead, Stamp, AfterBuffers, Close, Visiting
  <2> QED
    BY <1>2, <2>1, <2>2, <2>3, <2>4, <2>5 DEF Visiting
<1>5. (gpc = "close" => NoMessage(t) /\ buffer[t] = << >>)'
  <2>1. CASE gpc = "close"
    BY <1>1, <2>1 DEF Flushed
  <2>2. CASE Stamp /\ gpc' = "close"
    <3>1. gpc = "stamp" /\ final
      BY <2>2 DEF Stamp, AfterBuffers
    <3>2. ~Pending(t)
      <4>1. index = Len(states) + 1 /\ Len(states) \in Nat
        BY <3>1 DEF LagInv, IInv, TypeOK
      <4> QED
        BY <4>1 DEF Pending
    <3> QED
      BY <1>1, <3>1, <3>2 DEF Flushed, Visiting
  <2>3. gpc' = "close" => gpc = "close" \/ Stamp
    BY <1>2 DEF Capture, Visit, LockedDrain, DrainReceiver, ShipHead, Swap, SendHand, Close
  <2> QED
    BY <2>1, <2>2, <2>3
<1>6. (gpc = "done" => Len(received[t]) = recorded[t])'
  <2>1. CASE gpc = "done"
    <3>1. received' = received
      BY <2>1 DEF Next, RunNext, StopNext, GathererNext, ThreadNext, EnterHook, CloneHandle,
                  SendRegister, AwaitStart, Push, Flush, Exit, StartInstall, StartEnable,
                  StopDisable, StopTake, StopSignal, StopJoin, GathererBoot, RecvTick,
                  RecvData, RecvRegister, RecvShutdown, Drain, Capture, Visit, LockedDrain,
                  Swap, SendHand, Stamp, Close
    <3> QED
      BY <1>1, <2>1, <3>1 DEF Flushed
  <2>2. CASE Close
    <3>1. gpc = "close" /\ received' = received /\ NoMessage(t) /\ buffer[t] = << >>
      BY <2>2 DEF Close, Flushed
    <3>2. Collected(t) = HandedOver(t)
      BY <3>1, Between
    <3>3. InHand(t) = << >> /\ taken[t] = << >>
      BY <3>1 DEF InHand, Still
    <3>4. Len(received[t]) = recorded[t]
      BY <1>0, <3>1, <3>2, <3>3, Lengths DEF Collected, HandedOver
    <3> QED
      BY <1>1, <3>1, <3>4
  <2>3. gpc' = "done" => gpc = "done" \/ Close
    BY <1>2 DEF Capture, Visit, LockedDrain, DrainReceiver, ShipHead, Swap, SendHand, Stamp,
                AfterBuffers
  <2> QED
    BY <2>1, <2>2, <2>3
<1> QED
  BY <1>3, <1>4, <1>5, <1>6 DEF Flushed

\* A thread that is in no hook when stop() is called has everything it recorded on
\* the connection when the gatherer has ended (stop, GatherHandle::shutdown, Drop for
\* Gatherer).
THEOREM StopFlushes == Spec => StopFlushesQuiescent
<1> DEFINE All == IInv /\ LagInv /\ Asking
           J(t) == Still(t) /\ Flushed(t)
<1>1. Spec => []All
  <2>1. Init => Asking
    BY TrackerAssumption DEF Init, Asking
  <2>2. IInv /\ LagInv /\ Asking /\ [Next]_vars => Asking'
    BY AskingStep DEF IInv
  <2> QED
    BY <2>1, <2>2, LagInvariance, PTL DEF Spec
<1>2. ASSUME NEW t \in Threads
      PROVE  Spec => [](pc[Main] = "stopping" /\ gather /\ Quiescent(t)
                          => [](gpc = "done" => Len(received[t]) = recorded[t]))
  <2>1. All /\ (pc[Main] = "stopping" /\ gather /\ Quiescent(t)) => J(t)
    <3> SUFFICES ASSUME All, pc[Main] = "stopping", gather, Quiescent(t) PROVE J(t)
      OBVIOUS
    <3>1. ~final /\ gpc \notin {"close", "done"} /\ ~enabled
      BY DEF Asking
    <3>2. taken[t] = << >>
      BY <3>1, Between DEF Quiescent
    <3> QED
      BY <3>1, <3>2 DEF Quiescent, Still, Flushed
  <2>2. All /\ All' /\ J(t) /\ [Next]_vars => J(t)'
    BY StillStep, FlushedStep DEF IInv
  <2>3. J(t) => (gpc = "done" => Len(received[t]) = recorded[t])
    BY DEF Flushed
  <2> HIDE DEF All, J
  <2> QED
    BY <1>1, <2>1, <2>2, <2>3, PTL DEF Spec
<1> QED
  BY <1>2 DEF StopFlushesQuiescent

=============================================================================
