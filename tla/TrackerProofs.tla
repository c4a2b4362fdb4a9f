--------------------------- MODULE TrackerProofs ---------------------------
(* Proofs about Tracker, for every set of threads and every capacity. *)
EXTENDS Tracker, SequenceTheorems, TLAPS

USE DEF controlVars, writerVars, gathererVars, wireVars, vars

-----------------------------------------------------------------------------
(* Sequences *)

\* Taking the head off a sequence shifts the rest down by one.
LEMMA TailShift ==
  ASSUME NEW S, NEW s \in Seq(S), s # << >>
  PROVE  /\ Head(s) = s[1] /\ Head(s) \in S /\ Len(s) \in Nat \ {0}
         /\ Tail(s) \in Seq(S) /\ Len(Tail(s)) = Len(s) - 1
         /\ \A i \in 1 .. Len(s) - 1 : Tail(s)[i] = s[i + 1]
  OBVIOUS

\* RemoveAt leaves out one position and keeps the others in order.
LEMMA RemoveAtShift ==
  ASSUME NEW S, NEW s \in Seq(S), NEW k \in 1 .. Len(s)
  PROVE  /\ RemoveAt(s, k) \in Seq(S)
         /\ Len(RemoveAt(s, k)) = Len(s) - 1
         /\ \A i \in 1 .. Len(s) - 1 :
              RemoveAt(s, k)[i] = IF i < k THEN s[i] ELSE s[i + 1]
<1> DEFINE front == SubSeq(s, 1, k - 1)
           back == SubSeq(s, k + 1, Len(s))
<1>0. Len(s) \in Nat /\ \A i \in 1 .. Len(s) : s[i] \in S
  BY ElementOfSeq
<1>1. front \in Seq(S) /\ Len(front) = k - 1
      /\ \A i \in 1 .. k - 1 : front[i] = s[i]
  BY <1>0, SubSeqProperties
<1>2. back \in Seq(S) /\ Len(back) = Len(s) - k
      /\ \A i \in 1 .. Len(s) - k : back[i] = s[k + i]
  BY <1>0, SubSeqProperties
<1> HIDE DEF front, back
<1>3. /\ front \o back \in Seq(S)
      /\ Len(front \o back) = Len(s) - 1
  <2>1. front \o back \in Seq(S) /\ Len(front \o back) = Len(front) + Len(back)
    BY <1>1, <1>2, ConcatProperties
  <2> QED
    BY <1>0, <1>1, <1>2, <2>1
<1>4. ASSUME NEW i \in 1 .. Len(s) - 1
      PROVE  (front \o back)[i] = IF i < k THEN s[i] ELSE s[i + 1]
  <2>1. (front \o back)[i] = IF i <= k - 1 THEN front[i] ELSE back[i - (k - 1)]
    <3>1. i \in 1 .. Len(front) + Len(back)
      BY <1>0, <1>1, <1>2
    <3> QED
      BY <1>1, <1>2, <3>1, ConcatProperties
  <2>2. CASE i < k
    BY <1>1, <2>1, <2>2
  <2>3. CASE i >= k
    <3>1. /\ i - (k - 1) \in 1 .. Len(s) - k
          /\ k + (i - (k - 1)) = i + 1
      BY <1>0, <2>3
    <3> QED
      BY <1>2, <2>1, <2>3, <3>1
  <2>4. i < k \/ i >= k
    BY <1>0
  <2> QED
    BY <2>2, <2>3, <2>4
<1> QED
  BY <1>3, <1>4 DEF RemoveAt, front, back

-----------------------------------------------------------------------------
(* Type correctness *)

LEMMA TypeInit == Init => TypeOK
<1> SUFFICES ASSUME Init PROVE TypeOK
  OBVIOUS
<1>1. /\ data \in Seq(Batch) /\ registration \in Seq(Threads)
      /\ states \in Seq(Threads) /\ hand \in Seq(Nat)
      /\ Len(data) = 0 /\ Len(states) = 0
  BY DEF Init
<1>2. buffer \in [Threads -> Seq(Nat)] /\ taken \in [Threads -> Seq(Nat)]
      /\ received \in [Threads -> Seq(Nat)]
      /\ \A t \in Threads : Len(buffer[t]) = 0
  BY DEF Init
<1>3. /\ enabled \in BOOLEAN /\ gather \in BOOLEAN
      /\ pc \in [Threads -> ThreadPc] /\ gpc \in GathererPc
      /\ started \in SUBSET Threads /\ dead \in SUBSET Threads
      /\ gpc = "boot" /\ index = 1
  BY DEF Init, ThreadPc, GathererPc
<1>4. /\ recorded \in [Threads -> Nat] /\ horizon \in [Threads -> Nat]
      /\ announced \in [Threads -> Nat]
      /\ phase \in [Threads -> {"unknown", "live", "destroyed"}]
      /\ shutdown \in BOOLEAN /\ handDead \in BOOLEAN /\ final \in BOOLEAN
  BY DEF Init
<1> QED
  BY <1>1, <1>2, <1>3, <1>4, TrackerAssumption DEF TypeOK

LEMMA TypeThread ==
  ASSUME TypeOK, NEW t \in Threads, ThreadNext(t)
  PROVE  TypeOK'
<1>p. pc \in [Threads -> ThreadPc]
  BY DEF TypeOK
<1>b. /\ recorded \in [Threads -> Nat]
      /\ buffer \in [Threads -> Seq(Nat)] /\ taken \in [Threads -> Seq(Nat)]
      /\ \A u \in Threads : Len(buffer[u]) < Capacity
  BY DEF TypeOK
<1>1. CASE EnterHook(t)
  BY <1>1 DEF TypeOK, EnterHook, ThreadPc, Goto
<1>2. CASE CloneHandle(t)
  BY <1>2 DEF TypeOK, CloneHandle, ThreadPc, Goto
<1>3. CASE SendRegister(t)
  <2>1. registration' \in Seq(Threads)
    <3>1. registration \in Seq(Threads)
      BY DEF TypeOK
    <3> QED
      BY <1>3, <3>1 DEF SendRegister
  <2>2. pc' \in [Threads -> ThreadPc]
    BY <1>p, <1>3 DEF SendRegister, ThreadPc, Goto
  <2> QED
    BY <1>3, <2>1, <2>2 DEF TypeOK, SendRegister
<1>4. CASE AwaitStart(t)
  BY <1>4 DEF TypeOK, AwaitStart, ThreadPc, Goto
<1>5. CASE Push(t)
  <2>1. recorded[t] + 1 \in Nat
    BY <1>b
  <2>2. /\ Append(buffer[t], recorded[t] + 1) \in Seq(Nat)
        /\ << >> \in Seq(Nat) /\ Len(<< >>) = 0
    BY <1>b, <2>1
  <2>3. /\ recorded' \in [Threads -> Nat]
        /\ buffer' \in [Threads -> Seq(Nat)]
        /\ taken' \in [Threads -> Seq(Nat)]
    BY <1>5, <1>b, <2>1, <2>2 DEF Push
  <2>4. ASSUME NEW u \in Threads
        PROVE  Len(buffer'[u]) < Capacity
    <3>1. \/ buffer' = [buffer EXCEPT ![t] = << >>]
          \/ /\ Len(Append(buffer[t], recorded[t] + 1)) < Capacity
             /\ buffer' = [buffer EXCEPT ![t] = Append(@, recorded[t] + 1)]
      BY <1>5 DEF Push
    <3>2. CASE u = t
      BY <1>b, <2>2, <3>1, <3>2, TrackerAssumption
    <3>3. CASE u # t
      BY <1>b, <3>1, <3>3
    <3> QED
      BY <3>2, <3>3
  <2>5. pc' \in [Threads -> ThreadPc]
    BY <1>5, <1>p DEF Push, ThreadPc, AfterPush, Goto
  <2> QED
    BY <1>5, <2>3, <2>4, <2>5 DEF TypeOK, Push
<1>6. CASE Flush(t)
  <2>1. pc' \in [Threads -> ThreadPc]
    BY <1>6, <1>p DEF Flush, ThreadPc, AfterPush, Goto
  <2>2. taken' \in [Threads -> Seq(Nat)]
    <3>1. taken' = taken \/ taken' = [taken EXCEPT ![t] = << >>]
      BY <1>6 DEF Flush
    <3>2. << >> \in Seq(Nat)
      OBVIOUS
    <3> QED
      BY <1>b, <3>1, <3>2
  <2>3. data' \in Seq(Batch) /\ Len(data') <= DataCapacity
    <3>1. data \in Seq(Batch) /\ Len(data) <= DataCapacity
      BY DEF TypeOK
    <3>2. [thread |-> t, buffer |-> taken[t]] \in Batch
      BY <1>b DEF Batch
    <3> QED
      BY <1>6, <3>1, <3>2, TrackerAssumption DEF Flush, SendData
  <2> QED
    BY <1>6, <2>1, <2>2, <2>3 DEF TypeOK, Flush
<1>7. CASE Exit(t)
  BY <1>7 DEF TypeOK, Exit, ThreadPc, Goto
<1> QED
  BY <1>1, <1>2, <1>3, <1>4, <1>5, <1>6, <1>7 DEF ThreadNext

LEMMA TypeStop ==
  ASSUME TypeOK,
         StartInstall \/ StartEnable \/ StopDisable \/ StopTake \/ StopSignal
           \/ StopJoin
  PROVE  TypeOK'
<1>1. CASE StartInstall
  BY <1>1, TrackerAssumption DEF TypeOK, StartInstall, ThreadPc, Goto
<1>2. CASE StartEnable
  BY <1>2, TrackerAssumption DEF TypeOK, StartEnable, ThreadPc, Goto
<1>3. CASE StopDisable
  BY <1>3, TrackerAssumption DEF TypeOK, StopDisable, ThreadPc, Goto
<1>4. CASE StopTake
  BY <1>4, TrackerAssumption DEF TypeOK, StopTake, ThreadPc, Goto
<1>5. CASE StopSignal
  BY <1>5, TrackerAssumption DEF TypeOK, StopSignal, ThreadPc, Goto
<1>6. CASE StopJoin
  BY <1>6, TrackerAssumption DEF TypeOK, StopJoin, ThreadPc, Goto
<1> QED
  BY <1>1, <1>2, <1>3, <1>4, <1>5, <1>6

\* send_buffer keeps the type of what has been written.
LEMMA TypeShip ==
  ASSUME TypeOK, NEW t \in Threads, NEW b \in Seq(Nat), Ship(t, b)
  PROVE  received' \in [Threads -> Seq(Nat)]
<1>1. received \in [Threads -> Seq(Nat)]
  BY DEF TypeOK
<1>2. received[t] \o b \in Seq(Nat)
  BY <1>1, ConcatProperties
<1> QED
  BY <1>1, <1>2 DEF Ship

\* Handling the oldest message keeps the types.
LEMMA TypeShipHead ==
  ASSUME TypeOK, ShipHead
  PROVE  /\ received' \in [Threads -> Seq(Nat)]
         /\ data' \in Seq(Batch) /\ Len(data') <= DataCapacity
<1>1. data \in Seq(Batch) /\ data # << >> /\ Len(data) <= DataCapacity
  BY DEF TypeOK, ShipHead
<1>2. /\ Head(data) \in Batch /\ Tail(data) \in Seq(Batch)
      /\ Len(data) \in Nat /\ Len(Tail(data)) = Len(data) - 1
  BY <1>1, TailShift
<1>3. Head(data).thread \in Threads /\ Head(data).buffer \in Seq(Nat)
  BY <1>2 DEF Batch
<1>4. received' \in [Threads -> Seq(Nat)]
  BY <1>3, TypeShip DEF ShipHead
<1> QED
  BY <1>1, <1>2, <1>4, TrackerAssumption DEF ShipHead

LEMMA TypeGatherer ==
  ASSUME TypeOK, GathererNext \/ RecvShutdown \/ Close
  PROVE  TypeOK'
<1>r. registration \in Seq(Threads) /\ states \in Seq(Threads)
  BY DEF TypeOK
<1>1. CASE GathererBoot
  BY <1>1 DEF TypeOK, GathererBoot, GathererPc
<1>2. CASE RecvTick
  BY <1>2 DEF TypeOK, RecvTick, GathererPc
<1>3. CASE RecvData
  <2>1. /\ received' \in [Threads -> Seq(Nat)]
        /\ data' \in Seq(Batch) /\ Len(data') <= DataCapacity
    BY <1>3, TypeShipHead DEF RecvData
  <2> QED
    BY <1>3, <2>1 DEF TypeOK, RecvData
<1>4. CASE RecvRegister
  <2>1. Head(registration) \in Threads /\ Tail(registration) \in Seq(Threads)
    BY <1>4, <1>r, TailShift DEF RecvRegister
  <2>2. /\ Append(states, Head(registration)) \in Seq(Threads)
        /\ Len(Append(states, Head(registration))) = Len(states) + 1
        /\ Len(states) \in Nat
    BY <1>r, <2>1
  <2>3. index' \in 1 .. Len(states') + 1
    BY <1>4, <2>2 DEF TypeOK, RecvRegister
  <2>4. /\ registration' \in Seq(Threads) /\ states' \in Seq(Threads)
        /\ started' \in SUBSET Threads
        /\ phase' \in [Threads -> {"unknown", "live", "destroyed"}]
    BY <1>4, <2>1, <2>2 DEF TypeOK, RecvRegister
  <2> QED
    BY <1>4, <2>3, <2>4 DEF TypeOK, RecvRegister
<1>5. CASE Drain
  <2>1. /\ received' \in [Threads -> Seq(Nat)]
        /\ data' \in Seq(Batch) /\ Len(data') <= DataCapacity
    BY <1>5, TypeShipHead DEF TypeOK, Drain, DrainReceiver
  <2>2. gpc' \in {"drain", "capture"}
    BY <1>5 DEF Drain, DrainReceiver
  <2> QED
    BY <1>5, <2>1, <2>2 DEF TypeOK, Drain, GathererPc
<1>6. CASE Capture
  <2>1. index' \in 1 .. Len(states') + 1
    BY <1>6, <1>r DEF Capture
  <2> QED
    BY <1>6, <2>1 DEF TypeOK, Capture, GathererPc
<1>7. CASE Visit
  BY <1>7, <1>r DEF TypeOK, Visit, MoreStates, GathererPc
<1>8. CASE LockedDrain
  <2>1. /\ received' \in [Threads -> Seq(Nat)]
        /\ data' \in Seq(Batch) /\ Len(data') <= DataCapacity
    BY <1>8, TypeShipHead DEF TypeOK, LockedDrain, DrainReceiver
  <2>2. gpc' \in {"lockedDrain", "swap"}
    BY <1>8 DEF LockedDrain, DrainReceiver
  <2> QED
    BY <1>8, <2>1, <2>2 DEF TypeOK, LockedDrain, GathererPc
<1>9. CASE Swap
  <2>1. states[index] \in Threads
    BY <1>9, <1>r DEF TypeOK, Swap
  <2>2. /\ hand' \in Seq(Nat) /\ handDead' \in BOOLEAN
        /\ buffer' \in [Threads -> Seq(Nat)]
        /\ \A t \in Threads : Len(buffer'[t]) < Capacity
    <3>1. << >> \in Seq(Nat) /\ Len(<< >>) = 0
      OBVIOUS
    <3>2. /\ buffer \in [Threads -> Seq(Nat)]
          /\ \A t \in Threads : Len(buffer[t]) < Capacity
      BY DEF TypeOK
    <3> QED
      BY <1>9, <2>1, <3>1, <3>2, TrackerAssumption DEF Swap, Emptied
  <2> QED
    BY <1>9, <2>2 DEF TypeOK, Swap, GathererPc
<1>10. CASE SendHand
  <2>1. index \in 1 .. Len(states) /\ Len(states) \in Nat
    BY <1>10, <1>r DEF TypeOK, SendHand
  <2>2. states[index] \in Threads
    BY <1>r, <2>1
  <2>3. received' \in [Threads -> Seq(Nat)]
    BY <1>10, <2>2, TypeShip DEF TypeOK, SendHand
  <2>4. states' \in Seq(Threads) /\ index' \in 1 .. Len(states') + 1
    <3>1. CASE handDead
      BY <1>10, <1>r, <2>1, <3>1, RemoveAtShift
         DEF SendHand, FoundDead, NextIndex
    <3>2. CASE ~handDead
      BY <1>10, <1>r, <2>1, <3>2 DEF SendHand, FoundDead, NextIndex
    <3> QED
      BY <3>1, <3>2
  <2>5. phase' \in [Threads -> {"unknown", "live", "destroyed"}]
    BY <1>10, <2>2 DEF TypeOK, SendHand
  <2>6. /\ gpc' = "visit" /\ hand' = << >> /\ handDead' = FALSE
        /\ << >> \in Seq(Nat)
    BY <1>10 DEF SendHand
  <2> QED
    BY <1>10, <2>3, <2>4, <2>5, <2>6 DEF TypeOK, SendHand, GathererPc
<1>11. CASE Stamp
  <2>1. index' \in 1 .. Len(states') + 1
    BY <1>11, <1>r DEF Stamp
  <2> QED
    BY <1>11, <2>1
       DEF TypeOK, Stamp, GathererPc, NextTimestamp, AfterBuffers
<1>12. CASE RecvShutdown
  BY <1>12 DEF TypeOK, RecvShutdown, GathererPc, AfterShutdown
<1>13. CASE Close
  <2>1. /\ data' \in Seq(Batch) /\ Len(data') <= DataCapacity
        /\ registration' \in Seq(Threads)
    BY <1>13, TrackerAssumption DEF Close
  <2> QED
    BY <1>13, <2>1 DEF TypeOK, Close, GathererPc
<1> QED
  BY <1>1, <1>2, <1>3, <1>4, <1>5, <1>6, <1>7, <1>8, <1>9, <1>10, <1>11,
     <1>12, <1>13 DEF GathererNext

LEMMA TypeStep == TypeOK /\ [Next]_vars => TypeOK'
<1> SUFFICES ASSUME TypeOK, [Next]_vars PROVE TypeOK'
  OBVIOUS
<1>1. CASE \E t \in Threads : ThreadNext(t)
  BY <1>1, TypeThread
<1>2. CASE StartInstall \/ StartEnable \/ StopDisable \/ StopTake
             \/ StopSignal \/ StopJoin
  BY <1>2, TypeStop
<1>3. CASE GathererNext \/ RecvShutdown \/ Close
  BY <1>3, TypeGatherer
<1>4. CASE UNCHANGED vars
  BY <1>4 DEF TypeOK
<1> QED
  BY <1>1, <1>2, <1>3, <1>4 DEF Next, RunNext, StopNext

\* Every variable keeps its type; no buffer outgrows its capacity while its
\* lock is free, the data channel its bound, and handle_buffers its list.
THEOREM TypeCorrect == Spec => []TypeOK
  BY TypeInit, TypeStep, PTL DEF Spec

-----------------------------------------------------------------------------
(***************************************************************************)
(* The inductive invariant, in two parts.                                  *)
(*                                                                         *)
(* Registry: who is registered, live and dead, as seen by the threads, the *)
(* gatherer's list, the registration channel and the connection.           *)
(*                                                                         *)
(* Pipeline: every stage an event passes through holds consecutive events, *)
(* and each stage begins where the stage before it ends.  The messages in  *)
(* the data channel are chained one to the next of the same thread, so     *)
(* that no operator over the whole channel is needed.                      *)
(***************************************************************************)
Listed(t) == \E i \in 1 .. Len(states) : states[i] = t

NoDuplicates(s) ==
  \A i, j \in 1 .. Len(s) : s[i] = s[j] => i = j

Registry ==
  /\ \A t \in Threads :
       /\ t \in started <=> phase[t] # "unknown"
       /\ Listed(t) <=> phase[t] = "live"
       /\ pc[t] \in {"init", "registering"} => t \notin started
       /\ pc[t] \in {"hook", "flush"} => t \in started
       /\ t \in dead => pc[t] = "exited" /\ t \in started
  /\ NoDuplicates(states)
  /\ \A i \in 1 .. Len(registration) :
       pc[registration[i]] = "waiting" /\ registration[i] \notin started
  /\ NoDuplicates(registration)

\* s holds the consecutive events after the first n.
Follows(s, n) == \A k \in 1 .. Len(s) : s[k] = n + k

\* The last event of t in the gatherer's care: written, or in its hand.
Collected(t) == Len(received[t]) + Len(InHand(t))

\* The last event of t that is neither in its buffer nor taken out of it.
HandedOver(t) == recorded[t] - Len(buffer[t]) - Len(taken[t])

NoMessage(t) == \A i \in 1 .. Len(data) : data[i].thread # t

\* The stages of a thread's own side.
Writing ==
  \A t \in Threads :
    /\ pc[t] = "flush" => taken[t] # << >>
    /\ taken[t] # << >> => buffer[t] = << >> /\ pc[t] \in {"flush", "sendFailed"}
    /\ Follows(taken[t], HandedOver(t))
    /\ Follows(buffer[t], HandedOver(t) + Len(taken[t]))

\* The last event before a message, and its own last event.
Before(msg) == msg.buffer[1] - 1
Through(msg) == Before(msg) + Len(msg.buffer)

\* The messages of each thread t in m hold the events after lo[t], up to hi[t].
Chain(m, lo, hi) ==
  /\ \A i \in 1 .. Len(m) :
       m[i].buffer # << >> /\ Follows(m[i].buffer, Before(m[i]))
  /\ \A i \in 1 .. Len(m) :
       (\A j \in 1 .. i - 1 : m[j].thread # m[i].thread)
         => Before(m[i]) = lo[m[i].thread]
  /\ \A i, j \in 1 .. Len(m) :
       /\ i < j /\ m[i].thread = m[j].thread
       /\ \A k \in i + 1 .. j - 1 : m[k].thread # m[i].thread
       => Before(m[j]) = Through(m[i])
  /\ \A i \in 1 .. Len(m) :
       (\A j \in i + 1 .. Len(m) : m[j].thread # m[i].thread)
         => Through(m[i]) = hi[m[i].thread]
  /\ \A t \in Threads : (\A i \in 1 .. Len(m) : m[i].thread # t) => lo[t] = hi[t]
  /\ \A i \in 1 .. Len(m) : Through(m[i]) <= hi[m[i].thread]
  /\ \A t \in Threads : lo[t] <= hi[t]

\* The data channel.
Messages ==
  /\ \A i \in 1 .. Len(data) : data[i].thread \in started
  /\ Chain(data, [t \in Threads |-> Collected(t)],
                 [t \in Threads |-> HandedOver(t)])

\* What the second drain is for: a message of the locked thread can only
\* have been sent since, by a thread whose buffer is empty and who is alive.
Swapping ==
  gpc = "swap" /\ ~NoMessage(states[index]) =>
    buffer[states[index]] = << >> /\ states[index] \notin dead

\* A dead thread's last buffer is in hand: nothing of it is elsewhere.
Finishing ==
  gpc = "send" /\ handDead =>
    /\ states[index] \in dead
    /\ buffer[states[index]] = << >> /\ NoMessage(states[index])

Pipeline ==
  /\ \A t \in Threads : Follows(received[t], 0)
  /\ \A t \in Threads : Follows(InHand(t), Len(received[t]))
  /\ gpc # "done" => Writing /\ Messages
  /\ gpc = "done" => data = << >>
  /\ Swapping
  /\ Finishing
  /\ \A t \in Threads : phase[t] = "destroyed" =>
       t \in dead /\ NoMessage(t) /\ Len(received[t]) = recorded[t]

IInv == TypeOK /\ Registry /\ Pipeline

-----------------------------------------------------------------------------
(* The registry is kept *)

LEMMA RegistryInit == Init => Registry
  BY DEF Init, Registry, Listed, NoDuplicates

LEMMA RegistryThread ==
  ASSUME TypeOK, Registry, NEW t \in Threads, ThreadNext(t)
  PROVE  Registry'
<1>p. /\ pc \in [Threads -> ThreadPc] /\ registration \in Seq(Threads)
      /\ started \in SUBSET Threads /\ dead \in SUBSET Threads
  BY DEF TypeOK
<1>1. CASE EnterHook(t)
  BY <1>1, <1>p DEF EnterHook, Registry, Listed, NoDuplicates, Goto
<1>2. CASE CloneHandle(t)
  BY <1>2, <1>p DEF CloneHandle, Registry, Listed, NoDuplicates, Goto
<1>3. CASE SendRegister(t)
  <2>1. CASE registration' = registration
    BY <1>3, <1>p, <2>1 DEF SendRegister, Registry, Listed, NoDuplicates, Goto
  <2>2. CASE registration' = Append(registration, t) /\ Goto(t, "waiting")
    <3>1. \A i \in 1 .. Len(registration) : registration[i] # t
      BY <1>3, <1>p DEF SendRegister, Registry
    <3>2. /\ Len(registration') = Len(registration) + 1
          /\ Len(registration) \in Nat
          /\ registration'[Len(registration) + 1] = t
          /\ \A i \in 1 .. Len(registration) :
               /\ registration'[i] = registration[i]
               /\ registration[i] \in Threads
      BY <1>p, <2>2
    <3>3. /\ t \notin started /\ pc'[t] = "waiting"
          /\ \A u \in Threads : u # t => pc'[u] = pc[u]
      BY <1>3, <1>p, <2>2 DEF SendRegister, Registry, Goto
    <3>4. \A i \in 1 .. Len(registration') :
             pc'[registration'[i]] = "waiting" /\ registration'[i] \notin started
      BY <1>p, <3>1, <3>2, <3>3 DEF Registry
    <3>5. NoDuplicates(registration')
      BY <3>1, <3>2 DEF NoDuplicates, Registry
    <3> QED
      BY <1>3, <1>p, <3>3, <3>4, <3>5
         DEF SendRegister, Registry, Listed, NoDuplicates
  <2> QED
    BY <1>3, <2>1, <2>2 DEF SendRegister
<1>4. CASE AwaitStart(t)
  BY <1>4, <1>p, SMTT(30) DEF AwaitStart, Registry, Listed, NoDuplicates, Goto
<1>5. CASE Push(t)
  <2>1. /\ pc[t] = "hook" /\ pc' \in [Threads -> ThreadPc]
        /\ pc'[t] \in {"flush", "idle", "hook"}
        /\ \A u \in Threads : u # t => pc'[u] = pc[u]
    BY <1>5, <1>p DEF Push, AfterPush, ThreadPc, Goto
  <2>2. UNCHANGED <<started, dead, phase, states, registration>>
    BY <1>5 DEF Push
  <2> QED
    BY <1>p, <2>1, <2>2 DEF Registry, Listed, NoDuplicates
<1>6. CASE Flush(t)
  BY <1>6, <1>p DEF Flush, AfterPush, Registry, Listed, NoDuplicates, Goto
<1>7. CASE Exit(t)
  BY <1>7, <1>p DEF Exit, Registry, Listed, NoDuplicates, Goto
<1> QED
  BY <1>1, <1>2, <1>3, <1>4, <1>5, <1>6, <1>7 DEF ThreadNext

LEMMA RegistryStop ==
  ASSUME TypeOK, Registry,
         StartInstall \/ StartEnable \/ StopDisable \/ StopTake \/ StopSignal
           \/ StopJoin
  PROVE  Registry'
<1>1. /\ UNCHANGED <<started, dead, phase, states, registration>>
      /\ pc[Main] \in {"start", "installed", "idle", "stopping", "signalling",
                       "joining"}
      /\ \E l \in {"installed", "idle", "stopping", "signalling", "joining"} :
           Goto(Main, l)
  BY DEF StartInstall, StartEnable, MayEnable, StopDisable, StopTake,
         StopSignal, StopJoin
<1>2. /\ pc \in [Threads -> ThreadPc] /\ registration \in Seq(Threads)
      /\ started \in SUBSET Threads /\ dead \in SUBSET Threads
  BY DEF TypeOK
<1>3. /\ pc'[Main] \in {"installed", "idle", "stopping", "signalling",
                        "joining"}
      /\ \A u \in Threads : u # Main => pc'[u] = pc[u]
  BY <1>1, <1>2, TrackerAssumption DEF Goto
<1>4. Main \notin dead /\ pc[Main] # "waiting"
  BY <1>1, TrackerAssumption DEF Registry
<1> QED
  BY <1>1, <1>2, <1>3, <1>4 DEF Registry, Listed, NoDuplicates

\* handle_register: the thread moves from the channel to the list.
LEMMA RegistryRecvRegister ==
  ASSUME TypeOK, Registry, RecvRegister
  PROVE  Registry'
<1> DEFINE t == Head(registration)
<1>1. /\ registration \in Seq(Threads) /\ registration # << >>
      /\ states \in Seq(Threads) /\ started \in SUBSET Threads
      /\ phase \in [Threads -> {"unknown", "live", "destroyed"}]
  BY DEF TypeOK, RecvRegister
<1>2. /\ t = registration[1] /\ t \in Threads /\ Len(registration) \in Nat \ {0}
      /\ Len(registration') = Len(registration) - 1
      /\ \A i \in 1 .. Len(registration) - 1 :
           registration'[i] = registration[i + 1]
  BY <1>1, TailShift DEF RecvRegister
<1>3. /\ Len(states') = Len(states) + 1 /\ Len(states) \in Nat
      /\ states'[Len(states) + 1] = t
      /\ \A i \in 1 .. Len(states) : states'[i] = states[i]
  BY <1>1, <1>2 DEF RecvRegister
<1>4. /\ pc[t] = "waiting" /\ t \notin started
      /\ phase[t] = "unknown" /\ ~Listed(t)
  BY <1>1, <1>2 DEF Registry
<1>5. /\ UNCHANGED <<pc, dead>> /\ started' = started \cup {t}
      /\ phase' = [phase EXCEPT ![t] = "live"]
  BY DEF RecvRegister
<1> HIDE DEF t
<1>6. ASSUME NEW i \in 1 .. Len(registration')
      PROVE  /\ pc'[registration'[i]] = "waiting"
             /\ registration'[i] \notin started'
  <2>1. i + 1 \in 1 .. Len(registration) /\ registration'[i] = registration[i + 1]
    BY <1>2
  <2>2. registration[i + 1] # t
    BY <1>2, <2>1 DEF Registry, NoDuplicates
  <2> QED
    BY <1>5, <2>1, <2>2 DEF Registry
<1>7. NoDuplicates(registration')
  <2> SUFFICES ASSUME NEW i \in 1 .. Len(registration'),
                      NEW j \in 1 .. Len(registration'),
                      registration'[i] = registration'[j]
               PROVE  i = j
    BY DEF NoDuplicates
  <2>1. i + 1 \in 1 .. Len(registration) /\ j + 1 \in 1 .. Len(registration)
        /\ registration[i + 1] = registration[j + 1]
    BY <1>2
  <2>2. i + 1 = j + 1
    BY <2>1 DEF Registry, NoDuplicates
  <2> QED
    BY <1>2, <2>2
<1>8. NoDuplicates(states')
  BY <1>3, <1>4 DEF Registry, NoDuplicates, Listed
<1>9. ASSUME NEW u \in Threads
      PROVE  Listed(u)' <=> Listed(u) \/ u = t
  BY <1>3 DEF Listed
<1>10. ASSUME NEW u \in Threads
       PROVE  /\ u \in started' <=> phase'[u] # "unknown"
              /\ Listed(u)' <=> phase'[u] = "live"
              /\ pc'[u] \in {"init", "registering"} => u \notin started'
              /\ pc'[u] \in {"hook", "flush"} => u \in started'
              /\ u \in dead' => pc'[u] = "exited" /\ u \in started'
  BY <1>1, <1>4, <1>5, <1>9 DEF Registry
<1> QED
  BY <1>6, <1>7, <1>8, <1>10 DEF Registry, NoDuplicates

\* The dead thread leaves the list, and no other does.
LEMMA RegistrySendHand ==
  ASSUME TypeOK, Registry, Finishing, SendHand
  PROVE  Registry'
<1>1. /\ states \in Seq(Threads) /\ index \in 1 .. Len(states)
      /\ Len(states) \in Nat
      /\ phase \in [Threads -> {"unknown", "live", "destroyed"}]
  <2>1. /\ states \in Seq(Threads) /\ index \in 1 .. Len(states) + 1
        /\ index <= Len(states)
        /\ phase \in [Threads -> {"unknown", "live", "destroyed"}]
    BY DEF TypeOK, SendHand
  <2> QED
    BY <2>1
<1>2. UNCHANGED <<pc, started, dead, registration>>
  BY DEF SendHand
<1>3. CASE ~handDead
  BY <1>2, <1>3 DEF SendHand, FoundDead, Registry, Listed, NoDuplicates
<1>4. CASE handDead
  <2>0. PICK t \in Threads : t = states[index]
    BY <1>1
  <2>1. t \in dead /\ Listed(t)
    BY <1>1, <1>4, <2>0 DEF Finishing, SendHand, Listed
  <2>2. phase' = [phase EXCEPT ![t] = "destroyed"]
    BY <1>4, <2>0 DEF SendHand, FoundDead
  <2>3. /\ Len(states') = Len(states) - 1
        /\ \A i \in 1 .. Len(states) - 1 :
             states'[i] = IF i < index THEN states[i] ELSE states[i + 1]
    <3>1. states' = RemoveAt(states, index)
      BY <1>4 DEF SendHand, FoundDead
    <3> QED
      BY <1>1, <3>1, RemoveAtShift
  <2>4. NoDuplicates(states')
    <3> SUFFICES ASSUME NEW i \in 1 .. Len(states'), NEW j \in 1 .. Len(states'),
                        states'[i] = states'[j]
                 PROVE  i = j
      BY DEF NoDuplicates
    <3>1. \A m, n \in 1 .. Len(states) : states[m] = states[n] => m = n
      BY DEF Registry, NoDuplicates
    <3> QED
      BY <1>1, <2>0, <2>3, <3>1
  <2>5. ASSUME NEW u \in Threads, u # t
        PROVE  Listed(u)' <=> Listed(u)
    <3>1. ASSUME Listed(u) PROVE Listed(u)'
      <4>1. PICK i \in 1 .. Len(states) : states[i] = u
        BY <3>1 DEF Listed
      <4>2. CASE i < index
        BY <1>1, <2>3, <4>1, <4>2 DEF Listed
      <4>3. CASE i > index
        <5>1. i - 1 \in 1 .. Len(states) - 1 /\ ~(i - 1 < index)
          BY <1>1, <4>3
        <5>2. states'[i - 1] = u
          BY <1>1, <2>3, <4>1, <5>1
        <5> QED
          BY <2>3, <5>1, <5>2 DEF Listed
      <4> QED
        BY <1>1, <2>0, <2>5, <4>1, <4>2, <4>3
    <3>2. ASSUME Listed(u)' PROVE Listed(u)
      BY <1>1, <2>3, <3>2 DEF Listed
    <3> QED
      BY <3>1, <3>2
  <2>6. ~Listed(t)'
    <3>1. \A m, n \in 1 .. Len(states) : states[m] = states[n] => m = n
      BY DEF Registry, NoDuplicates
    <3>2. ASSUME NEW i \in 1 .. Len(states) - 1 PROVE states'[i] # t
      BY <1>1, <2>0, <2>3, <3>1
    <3> QED
      BY <2>3, <3>2 DEF Listed
  <2>7. ASSUME NEW u \in Threads
        PROVE  /\ u \in started' <=> phase'[u] # "unknown"
               /\ Listed(u)' <=> phase'[u] = "live"
    <3>1. CASE u = t
      BY <1>1, <1>2, <2>1, <2>2, <2>6, <3>1 DEF Registry
    <3>2. CASE u # t
      BY <1>1, <1>2, <2>1, <2>2, <2>5, <3>2 DEF Registry
    <3> QED
      BY <3>1, <3>2
  <2> QED
    BY <1>2, <2>4, <2>7 DEF Registry, NoDuplicates
<1> QED
  BY <1>3, <1>4

LEMMA RegistryGatherer ==
  ASSUME TypeOK, Registry, Finishing, GathererNext \/ RecvShutdown \/ Close
  PROVE  Registry'
<1>1. CASE RecvRegister
  BY <1>1, RegistryRecvRegister
<1>2. CASE SendHand
  BY <1>2, RegistrySendHand
<1>3. CASE Close
  BY <1>3 DEF Close, Registry, Listed, NoDuplicates
<1>4. CASE /\ UNCHANGED <<pc, started, dead, phase, states, registration>>
  BY <1>4 DEF Registry, Listed, NoDuplicates
<1> QED
  BY <1>1, <1>2, <1>3, <1>4
     DEF GathererNext, GathererBoot, RecvTick, RecvData, Drain, Capture, Visit,
         LockedDrain, Swap, Stamp, RecvShutdown

-----------------------------------------------------------------------------
(* The pipeline is kept *)

LEMMA PipelineInit == Init => Pipeline
<1> SUFFICES ASSUME Init PROVE Pipeline
  OBVIOUS
<1>1. /\ data = << >> /\ gpc = "boot"
      /\ \A t \in Threads :
           /\ recorded[t] = 0 /\ buffer[t] = << >> /\ taken[t] = << >>
           /\ received[t] = << >> /\ phase[t] = "unknown"
           /\ pc[t] \in {"start", "idle"}
      /\ Len(<< >>) = 0
  BY DEF Init
<1>2. \A t \in Threads : InHand(t) = << >>
  BY <1>1 DEF InHand
<1>3. Writing
  BY <1>1 DEF Writing, Follows
<1>4. Messages
  <2>1. \A t \in Threads : Collected(t) = 0 /\ HandedOver(t) = 0
    BY <1>1, <1>2 DEF Collected, HandedOver
  <2> QED
    BY <1>1, <2>1 DEF Messages, Chain
<1> QED
  BY <1>1, <1>2, <1>3, <1>4 DEF Pipeline, Swapping, Finishing, Follows

\* What the pipeline's proofs use of the types of compound values.
LEMMA MessageType ==
  ASSUME TypeOK
  PROVE  /\ Len(data) \in Nat
         /\ \A i \in 1 .. Len(data) :
              data[i].thread \in Threads /\ data[i].buffer \in Seq(Nat)
<1>1. data \in Seq(Batch)
  BY DEF TypeOK
<1>2. \A i \in 1 .. Len(data) : data[i] \in Batch
  BY <1>1, ElementOfSeq
<1> QED
  BY <1>1, <1>2 DEF Batch

LEMMA CollectedType ==
  ASSUME TypeOK
  PROVE  [t \in Threads |-> Collected(t)] \in [Threads -> Int]
<1> SUFFICES ASSUME NEW t \in Threads
             PROVE  Collected(t) \in Int
  OBVIOUS
<1>1. received[t] \in Seq(Nat) /\ hand \in Seq(Nat) /\ << >> \in Seq(Nat)
  BY DEF TypeOK
<1>2. InHand(t) \in Seq(Nat)
  BY <1>1 DEF InHand
<1>3. Len(received[t]) \in Nat /\ Len(InHand(t)) \in Nat
  BY <1>1, <1>2
<1> QED
  BY <1>3 DEF Collected

LEMMA LockedType ==
  ASSUME TypeOK, gpc \in {"lockedDrain", "swap", "send"}
  PROVE  /\ index \in 1 .. Len(states) /\ Len(states) \in Nat
         /\ states[index] \in Threads /\ Listed(states[index])
<1>1. /\ states \in Seq(Threads) /\ index \in 1 .. Len(states) + 1
      /\ index <= Len(states)
  BY DEF TypeOK
<1> QED
  BY <1>1 DEF Listed

\* The channel's invariant depends only on where its ends are.
LEMMA MessagesKept ==
  ASSUME Messages, UNCHANGED data, started \subseteq started',
         \A t \in Threads : Collected(t)' = Collected(t),
         \A t \in Threads : HandedOver(t)' = HandedOver(t)
  PROVE  Messages'
<1>1. /\ [t \in Threads |-> Collected(t)]' = [t \in Threads |-> Collected(t)]
      /\ [t \in Threads |-> HandedOver(t)]' = [t \in Threads |-> HandedOver(t)]
  OBVIOUS
<1> QED
  BY <1>1 DEF Messages

\* A message with the events after hi[t] is one more link.
LEMMA ChainAppend ==
  ASSUME NEW m \in Seq(Batch),
         NEW lo \in [Threads -> Int], NEW hi \in [Threads -> Int],
         Chain(m, lo, hi),
         NEW t \in Threads, NEW b \in Seq(Nat), b # << >>, Follows(b, hi[t])
  PROVE  Chain(Append(m, [thread |-> t, buffer |-> b]), lo,
               [hi EXCEPT ![t] = @ + Len(b)])
<1> DEFINE new == [thread |-> t, buffer |-> b]
           m2 == Append(m, new)
           hi2 == [hi EXCEPT ![t] = @ + Len(b)]
           n == Len(m) + 1
<1>1. new \in Batch
  BY DEF Batch
<1>2. /\ Len(m) \in Nat /\ Len(m2) = n
      /\ m2[n] = new /\ \A i \in 1 .. Len(m) : m2[i] = m[i]
      /\ \A i \in 1 .. Len(m) : m[i].thread \in Threads
  <2>1. \A i \in 1 .. Len(m) : m[i] \in Batch
    BY ElementOfSeq
  <2> QED
    BY <1>1, <2>1, AppendProperties DEF Batch
<1>3. /\ new.thread = t /\ new.buffer = b
      /\ Before(new) = hi[t] /\ Through(new) = hi[t] + Len(b)
  <2>1. Len(b) \in Nat \ {0} /\ hi[t] \in Int
    OBVIOUS
  <2>2. 1 \in 1 .. Len(b)
    BY <2>1
  <2>3. b[1] = hi[t] + 1
    BY <2>2 DEF Follows
  <2>4. Before(new) = hi[t]
    BY <2>1, <2>3 DEF Before
  <2> QED
    BY <2>4 DEF Through
<1>4. /\ hi2[t] = hi[t] + Len(b) /\ \A u \in Threads : u # t => hi2[u] = hi[u]
      /\ Len(b) \in Nat /\ \A u \in Threads : hi[u] \in Int /\ lo[u] \in Int
  OBVIOUS
<1>e. \A i \in 1 .. n : i # n => i \in 1 .. Len(m) /\ m2[i] = m[i]
  BY <1>2
<1> HIDE DEF new, m2, hi2
<1>5. ASSUME NEW i \in 1 .. n
      PROVE  m2[i].buffer # << >> /\ Follows(m2[i].buffer, Before(m2[i]))
  <2>1. CASE i = n
    BY <1>2, <1>3, <2>1
  <2>2. CASE i # n
    BY <1>e, <2>2 DEF Chain
  <2> QED
    BY <2>1, <2>2
<1>6. ASSUME NEW i \in 1 .. n, \A j \in 1 .. i - 1 : m2[j].thread # m2[i].thread
      PROVE  Before(m2[i]) = lo[m2[i].thread]
  <2>1. CASE i = n
    <3>1. \A j \in 1 .. Len(m) : m[j].thread # t
      BY <1>2, <1>3, <1>6, <2>1
    <3>2. lo[t] = hi[t]
      BY <3>1 DEF Chain
    <3> QED
      BY <1>2, <1>3, <2>1, <3>2
  <2>2. CASE i # n
    <3>1. i \in 1 .. Len(m) /\ m2[i] = m[i]
      BY <1>e, <2>2
    <3>2. \A j \in 1 .. i - 1 : j \in 1 .. n /\ j # n
      BY <1>2, <3>1
    <3>3. \A j \in 1 .. i - 1 : m[j].thread # m[i].thread
      BY <1>6, <1>e, <3>1, <3>2
    <3> QED
      BY <3>1, <3>3 DEF Chain
  <2> QED
    BY <2>1, <2>2
<1>7. ASSUME NEW i \in 1 .. n, NEW j \in 1 .. n,
             i < j, m2[i].thread = m2[j].thread,
             \A k \in i + 1 .. j - 1 : m2[k].thread # m2[i].thread
      PROVE  Before(m2[j]) = Through(m2[i])
  <2>1. i \in 1 .. Len(m)
    BY <1>2, <1>7
  <2>2. CASE j = n
    <3>1. /\ m[i].thread = t
          /\ \A k \in i + 1 .. Len(m) : m[k].thread # m[i].thread
      BY <1>2, <1>3, <1>7, <2>1, <2>2, SMTT(30)
    <3>2. Through(m[i]) = hi[t]
      BY <2>1, <3>1 DEF Chain
    <3> QED
      BY <1>2, <1>3, <2>1, <2>2, <3>2
  <2>3. CASE j # n
    <3>1. j \in 1 .. Len(m) /\ m2[j] = m[j] /\ m2[i] = m[i]
      BY <1>2, <1>e, <2>1, <2>3
    <3>2. \A k \in i + 1 .. j - 1 : k \in 1 .. n /\ k # n
      BY <1>2, <2>1, <3>1
    <3>3. \A k \in i + 1 .. j - 1 : m[k].thread # m[i].thread
      BY <1>7, <1>e, <3>1, <3>2
    <3>4. Before(m[j]) = Through(m[i])
      BY <1>7, <2>1, <3>1, <3>3 DEF Chain
    <3> QED
      BY <3>1, <3>4
  <2> QED
    BY <2>2, <2>3
<1>8. ASSUME NEW i \in 1 .. n, \A j \in i + 1 .. n : m2[j].thread # m2[i].thread
      PROVE  Through(m2[i]) = hi2[m2[i].thread]
  <2>1. CASE i = n
    BY <1>2, <1>3, <1>4, <2>1
  <2>2. CASE i # n
    <3>0. i \in 1 .. Len(m) /\ m2[i] = m[i] /\ n \in i + 1 .. n
      BY <1>2, <1>e, <2>2
    <3>1. \A j \in i + 1 .. Len(m) : m[j].thread # m[i].thread
      <4>1. \A j \in i + 1 .. Len(m) : j \in i + 1 .. n /\ j \in 1 .. Len(m)
        BY <1>2, <3>0
      <4> QED
        BY <1>2, <1>8, <3>0, <4>1
    <3>2. m[i].thread # t
      BY <1>2, <1>3, <1>8, <3>0
    <3>3. Through(m[i]) = hi[m[i].thread]
      BY <3>0, <3>1 DEF Chain
    <3> QED
      BY <1>2, <1>4, <3>0, <3>2, <3>3
  <2> QED
    BY <2>1, <2>2
<1>9. ASSUME NEW u \in Threads, \A i \in 1 .. n : m2[i].thread # u
      PROVE  lo[u] = hi2[u]
  <2>1. n \in 1 .. n
    BY <1>2
  <2>2. u # t /\ \A i \in 1 .. Len(m) : m[i].thread # u
    BY <1>2, <1>3, <1>9, <2>1
  <2> QED
    BY <1>4, <2>2 DEF Chain
<1>10. ASSUME NEW i \in 1 .. n
       PROVE  Through(m2[i]) <= hi2[m2[i].thread]
  <2>1. CASE i = n
    BY <1>2, <1>3, <1>4, <2>1
  <2>2. CASE i # n
    <3>1. i \in 1 .. Len(m) /\ m2[i] = m[i] /\ m[i] \in Batch
      BY <1>e, <2>2, ElementOfSeq
    <3>2. Through(m[i]) <= hi[m[i].thread]
      BY <3>1 DEF Chain
    <3>3. m[i].buffer \in Seq(Nat) /\ m[i].buffer # << >>
      BY <3>1 DEF Chain, Batch
    <3>4. Through(m[i]) \in Int
      BY <3>3 DEF Through, Before
    <3>5. PICK u \in Threads : u = m[i].thread
      BY <1>2, <3>1
    <3>6. hi[u] \in Int /\ hi2[u] \in Int /\ hi[u] <= hi2[u]
      <4>1. CASE u = t
        BY <1>4, <4>1
      <4>2. CASE u # t
        BY <1>4, <4>2
      <4> QED
        BY <4>1, <4>2
    <3>7. Through(m[i]) <= hi2[u]
      BY <3>2, <3>4, <3>5, <3>6
    <3> QED
      BY <3>1, <3>5, <3>7
  <2> QED
    BY <2>1, <2>2
<1>11. ASSUME NEW u \in Threads
       PROVE  lo[u] <= hi2[u]
  <2>1. lo[u] <= hi[u] /\ lo[u] \in Int /\ hi[u] \in Int
    BY DEF Chain
  <2>2. CASE u = t
    BY <1>4, <2>1, <2>2
  <2>3. CASE u # t
    BY <1>4, <2>1, <2>3
  <2> QED
    BY <2>2, <2>3
<1>12. Chain(m2, lo, hi2)
  BY <1>2, <1>5, <1>6, <1>7, <1>8, <1>9, <1>10, <1>11 DEF Chain
<1> QED
  BY <1>12 DEF m2, hi2, new

\* Without its first message the chain begins after that message.
LEMMA ChainTail ==
  ASSUME NEW m \in Seq(Batch), m # << >>, NEW lo \in [Threads -> Int], NEW hi,
         Chain(m, lo, hi)
  PROVE  /\ Before(Head(m)) = lo[Head(m).thread]
         /\ Chain(Tail(m), [lo EXCEPT ![Head(m).thread] = Through(Head(m))], hi)
<1> DEFINE t == Head(m).thread
           m2 == Tail(m)
           lo2 == [lo EXCEPT ![t] = Through(Head(m))]
           n == Len(m) - 1
<1>1. /\ Len(m) \in Nat \ {0} /\ Len(m2) = n /\ n \in Nat /\ Head(m) = m[1]
      /\ \A i \in 1 .. n : m2[i] = m[i + 1]
      /\ \A i \in 1 .. Len(m) : m[i].thread \in Threads
      /\ t \in Threads
  <2>1. \A i \in 1 .. Len(m) : m[i] \in Batch
    BY ElementOfSeq
  <2>2. /\ Len(m) \in Nat \ {0} /\ Len(m2) = n /\ Head(m) = m[1]
        /\ \A i \in 1 .. n : m2[i] = m[i + 1]
    BY TailShift
  <2> QED
    BY <2>1, <2>2 DEF Batch
<1>2. lo2[t] = Through(m[1]) /\ \A u \in Threads : u # t => lo2[u] = lo[u]
  BY <1>1
<1>3. t = m[1].thread
  BY <1>1
<1> HIDE DEF t, m2, lo2
<1>4. Before(m[1]) = lo[t]
  <2>1. 1 \in 1 .. Len(m) /\ \A j \in 1 .. 1 - 1 : m[j].thread # m[1].thread
    BY <1>1
  <2> QED
    BY <1>3, <2>1 DEF Chain
<1>5. ASSUME NEW i \in 1 .. n
      PROVE  m2[i].buffer # << >> /\ Follows(m2[i].buffer, Before(m2[i]))
  <2>1. i + 1 \in 1 .. Len(m)
    BY <1>1
  <2> QED
    BY <1>1, <2>1 DEF Chain
<1>6. ASSUME NEW i \in 1 .. n, \A j \in 1 .. i - 1 : m2[j].thread # m2[i].thread
      PROVE  Before(m2[i]) = lo2[m2[i].thread]
  <2>1. /\ i + 1 \in 1 .. Len(m) /\ m2[i] = m[i + 1]
        /\ 1 \in 1 .. Len(m) /\ 1 < i + 1
    BY <1>1
  <2>2. ASSUME NEW j \in 2 .. i
        PROVE  m[j].thread # m[i + 1].thread
    <3>1. j - 1 \in 1 .. i - 1 /\ j - 1 \in 1 .. n /\ (j - 1) + 1 = j
      BY <1>1
    <3>2. m2[j - 1] = m[j]
      BY <1>1, <3>1
    <3> QED
      BY <1>6, <2>1, <3>1, <3>2
  <2>3. CASE m[i + 1].thread = t
    <3>1. \A k \in 1 + 1 .. (i + 1) - 1 : m[k].thread # m[1].thread
      BY <1>3, <2>2, <2>3
    <3>2. Before(m[i + 1]) = Through(m[1])
      BY <1>3, <2>1, <2>3, <3>1 DEF Chain
    <3> QED
      BY <1>2, <2>1, <2>3, <3>2
  <2>4. CASE m[i + 1].thread # t
    <3>1. \A j \in 1 .. (i + 1) - 1 : m[j].thread # m[i + 1].thread
      BY <1>3, <2>2, <2>4
    <3>2. Before(m[i + 1]) = lo[m[i + 1].thread]
      BY <2>1, <3>1 DEF Chain
    <3> QED
      BY <1>1, <1>2, <2>1, <2>4, <3>2
  <2> QED
    BY <2>3, <2>4
<1>7. ASSUME NEW i \in 1 .. n, NEW j \in 1 .. n,
             i < j, m2[i].thread = m2[j].thread,
             \A k \in i + 1 .. j - 1 : m2[k].thread # m2[i].thread
      PROVE  Before(m2[j]) = Through(m2[i])
  <2>1. /\ i + 1 \in 1 .. Len(m) /\ j + 1 \in 1 .. Len(m) /\ i + 1 < j + 1
        /\ m2[i] = m[i + 1] /\ m2[j] = m[j + 1]
    BY <1>1, <1>7
  <2>2. ASSUME NEW k \in (i + 1) + 1 .. (j + 1) - 1
        PROVE  m[k].thread # m[i + 1].thread
    <3>1. k - 1 \in i + 1 .. j - 1 /\ k - 1 \in 1 .. n /\ (k - 1) + 1 = k
      BY <1>1
    <3>2. m2[k - 1] = m[k]
      BY <1>1, <3>1
    <3> QED
      BY <1>7, <2>1, <3>1, <3>2
  <2>3. Before(m[j + 1]) = Through(m[i + 1])
    BY <1>7, <2>1, <2>2 DEF Chain
  <2> QED
    BY <2>1, <2>3
<1>8. ASSUME NEW i \in 1 .. n, \A j \in i + 1 .. n : m2[j].thread # m2[i].thread
      PROVE  Through(m2[i]) = hi[m2[i].thread]
  <2>1. i + 1 \in 1 .. Len(m) /\ m2[i] = m[i + 1]
    BY <1>1
  <2>2. ASSUME NEW k \in (i + 1) + 1 .. Len(m)
        PROVE  m[k].thread # m[i + 1].thread
    <3>1. k - 1 \in i + 1 .. n /\ k - 1 \in 1 .. n /\ (k - 1) + 1 = k
      BY <1>1
    <3>2. m2[k - 1] = m[k]
      BY <1>1, <3>1
    <3> QED
      BY <1>8, <2>1, <3>1, <3>2
  <2>3. Through(m[i + 1]) = hi[m[i + 1].thread]
    BY <2>1, <2>2 DEF Chain
  <2> QED
    BY <2>1, <2>3
<1>9. ASSUME NEW u \in Threads, \A i \in 1 .. n : m2[i].thread # u
      PROVE  lo2[u] = hi[u]
  <2>1. ASSUME NEW k \in 2 .. Len(m)
        PROVE  m[k].thread # u
    <3>1. k - 1 \in 1 .. n /\ (k - 1) + 1 = k
      BY <1>1
    <3> QED
      BY <1>1, <1>9, <3>1
  <2>2. CASE u = t
    <3>1. 1 \in 1 .. Len(m) /\ \A k \in 1 + 1 .. Len(m) : m[k].thread # m[1].thread
      BY <1>1, <1>3, <2>1, <2>2
    <3>2. Through(m[1]) = hi[m[1].thread]
      BY <3>1 DEF Chain
    <3> QED
      BY <1>2, <1>3, <2>2, <3>2
  <2>3. CASE u # t
    <3>1. \A k \in 1 .. Len(m) : m[k].thread # u
      BY <1>3, <2>1, <2>3
    <3> QED
      BY <1>2, <2>3, <3>1 DEF Chain
  <2> QED
    BY <2>2, <2>3
<1>10. \A i \in 1 .. n : Through(m2[i]) <= hi[m2[i].thread]
  BY <1>1, SMTT(30) DEF Chain
<1>11. \A u \in Threads : lo2[u] <= hi[u]
  BY <1>1, <1>2, <1>3 DEF Chain
<1>12. Chain(m2, lo2, hi)
  BY <1>1, <1>5, <1>6, <1>7, <1>8, <1>9, <1>10, <1>11 DEF Chain
<1> QED
  BY <1>1, <1>4, <1>12 DEF m2, lo2, t

\* A step that moves no event, and begins to swap only after a drain.
LEMMA PipelineQuiet ==
  ASSUME TypeOK, Pipeline,
         UNCHANGED <<recorded, buffer, taken, data, received, hand, handDead>>,
         started \subseteq started', dead \subseteq dead',
         \A t \in Threads : phase'[t] = "destroyed" => phase[t] = "destroyed",
         \A t \in Threads : pc'[t] = "flush" => pc[t] = "flush",
         \A t \in Threads : pc[t] \in {"flush", "sendFailed"}
                              => pc'[t] \in {"flush", "sendFailed"},
         \/ /\ UNCHANGED <<gpc, states, index>>
            /\ gpc = "swap" => (states[index] \in dead' => states[index] \in dead)
         \/ /\ gpc \notin {"send", "done"} /\ gpc' \notin {"send", "done"}
            /\ gpc' = "swap" => data = << >>
  PROVE  Pipeline'
<1>1. \A t \in Threads : InHand(t)' = InHand(t)
  BY DEF InHand
<1>2. \A t \in Threads : /\ Collected(t)' = Collected(t)
                         /\ HandedOver(t)' = HandedOver(t)
                         /\ NoMessage(t)' = NoMessage(t)
  BY <1>1 DEF Collected, HandedOver, NoMessage
<1>3. Writing => Writing'
  BY <1>2 DEF Writing, Follows
<1>4. Messages => Messages'
  BY <1>2, MessagesKept
<1>5. gpc' # "done" <=> gpc # "done"
  OBVIOUS
<1>6. Swapping' /\ Finishing'
  BY DEF Pipeline, Swapping, Finishing, NoMessage
<1> QED
  BY <1>1, <1>2, <1>3, <1>4, <1>5, <1>6 DEF Pipeline, Follows

LEMMA PipelinePush ==
  ASSUME TypeOK, Registry, Pipeline, NEW t \in Threads, Push(t)
  PROVE  Pipeline'
<1> DEFINE filled == Append(buffer[t], recorded[t] + 1)
<1>1. /\ recorded \in [Threads -> Nat]
      /\ buffer \in [Threads -> Seq(Nat)] /\ taken \in [Threads -> Seq(Nat)]
      /\ pc \in [Threads -> ThreadPc]
  BY DEF TypeOK
<1>2. /\ pc[t] = "hook" /\ ~GathererHolds(t)
      /\ recorded' = [recorded EXCEPT ![t] = recorded[t] + 1]
      /\ UNCHANGED <<started, dead, data, states, index, gpc, hand, handDead,
                     received, phase>>
      /\ pc'[t] \in {"flush", "idle", "hook"}
      /\ \A u \in Threads : u # t => pc'[u] = pc[u]
  BY <1>1 DEF Push, AfterPush, Goto
<1>3. \/ /\ taken' = [taken EXCEPT ![t] = filled]
         /\ buffer' = [buffer EXCEPT ![t] = << >>]
         /\ pc'[t] = "flush"
      \/ /\ buffer' = [buffer EXCEPT ![t] = filled] /\ UNCHANGED taken
         /\ pc'[t] # "flush"
  BY <1>1 DEF Push, AfterPush, Goto
<1>4. /\ Len(filled) = Len(buffer[t]) + 1 /\ Len(buffer[t]) \in Nat
      /\ filled[Len(buffer[t]) + 1] = recorded[t] + 1
      /\ \A k \in 1 .. Len(buffer[t]) : filled[k] = buffer[t][k]
      /\ filled # << >> /\ Len(<< >>) = 0
  <2>1. /\ buffer[t] \in Seq(Nat) /\ recorded[t] + 1 \in Nat
        /\ Len(buffer[t]) \in Nat
    BY <1>1
  <2>2. Len(filled) = Len(buffer[t]) + 1
    BY <2>1
  <2>3. /\ filled[Len(buffer[t]) + 1] = recorded[t] + 1
        /\ \A k \in 1 .. Len(buffer[t]) : filled[k] = buffer[t][k]
    BY <2>1
  <2> QED
    BY <2>1, <2>2, <2>3
<1> HIDE DEF filled
<1>5. t \notin dead /\ phase[t] # "destroyed"
  BY <1>2 DEF Registry, Pipeline
<1>6. \A u \in Threads : /\ InHand(u)' = InHand(u)
                         /\ Collected(u)' = Collected(u)
                         /\ NoMessage(u)' = NoMessage(u)
  BY <1>2 DEF InHand, Collected, NoMessage
<1>7. ASSUME gpc # "done"
      PROVE  Writing' /\ Messages'
  <2>1. taken[t] = << >> /\ Follows(buffer[t], HandedOver(t))
    BY <1>1, <1>2, <1>7 DEF Pipeline, Writing, HandedOver
  <2>2. \A u \in Threads : HandedOver(u)' = HandedOver(u)
    <3>1. ASSUME NEW u \in Threads, u # t
          PROVE  HandedOver(u)' = HandedOver(u)
      BY <1>1, <1>2, <1>3, <3>1 DEF HandedOver
    <3>2. HandedOver(t)' = HandedOver(t)
      BY <1>1, <1>2, <1>3, <1>4, <2>1 DEF HandedOver
    <3> QED
      BY <3>1, <3>2
  <2>3. Follows(filled, HandedOver(t))
    <3>1. HandedOver(t) + Len(buffer[t]) = recorded[t]
      BY <1>1, <1>4, <2>1 DEF HandedOver
    <3>2. recorded[t] + 1 = HandedOver(t) + (Len(buffer[t]) + 1)
      BY <1>1, <1>4, <2>1 DEF HandedOver
    <3> QED
      BY <1>4, <2>1, <3>2 DEF Follows
  <2>4. Writing'
    <3> SUFFICES ASSUME NEW u \in Threads
        PROVE
          /\ pc'[u] = "flush" => taken'[u] # << >>
          /\ taken'[u] # << >> =>
               buffer'[u] = << >> /\ pc'[u] \in {"flush", "sendFailed"}
          /\ Follows(taken'[u], HandedOver(u)')
          /\ Follows(buffer'[u], HandedOver(u)' + Len(taken'[u]))
      BY DEF Writing, Follows
    <3>1. CASE u # t
      BY <1>1, <1>2, <1>3, <1>7, <2>2, <3>1 DEF Pipeline, Writing
    <3>2. CASE u = t /\ pc'[t] = "flush"
      <4>1. taken'[t] = filled /\ buffer'[t] = << >>
        BY <1>1, <1>3, <3>2
      <4> QED
        BY <1>4, <2>2, <2>3, <3>2, <4>1 DEF Follows
    <3>3. CASE u = t /\ pc'[t] # "flush"
      <4>1. taken'[t] = << >> /\ buffer'[t] = filled
        BY <1>1, <1>3, <2>1, <3>3
      <4>2. HandedOver(t) \in Int
        BY <1>1 DEF HandedOver
      <4>3. HandedOver(t) + Len(<< >>) = HandedOver(t)
        BY <1>4, <4>2
      <4> QED
        BY <1>4, <2>2, <2>3, <3>3, <4>1, <4>3 DEF Follows
    <3> QED
      BY <3>1, <3>2, <3>3
  <2>5. Messages'
    BY <1>2, <1>6, <1>7, <2>2, MessagesKept DEF Pipeline
  <2> QED
    BY <2>4, <2>5
<1>8. Swapping'
  <2>1. ASSUME gpc = "swap"
        PROVE  states[index] # t
    BY <1>2, <2>1 DEF GathererHolds
  <2>2. ASSUME gpc = "swap"
        PROVE  buffer'[states[index]] = buffer[states[index]]
    BY <1>1, <1>3, <2>1, <2>2, LockedType
  <2> QED
    BY <1>2, <2>2 DEF Pipeline, Swapping, NoMessage
<1>9. Finishing'
  BY <1>1, <1>2, <1>3, <1>5, LockedType DEF Pipeline, Finishing, NoMessage
<1>10. ASSUME NEW u \in Threads, phase'[u] = "destroyed"
       PROVE  /\ u \in dead' /\ NoMessage(u)'
              /\ Len(received'[u]) = recorded'[u]
  BY <1>1, <1>2, <1>5, <1>6, <1>10 DEF Pipeline
<1>11. \A u \in Threads :
         Follows(received'[u], 0) /\ Follows(InHand(u)', Len(received'[u]))
  BY <1>2, <1>6 DEF Pipeline
<1> QED
  BY <1>2, <1>7, <1>8, <1>9, <1>10, <1>11 DEF Pipeline, Follows

\* GatherHandle::flush appends one more link to the chain.
LEMMA PipelineFlush ==
  ASSUME TypeOK, Registry, Pipeline, NEW t \in Threads, Flush(t), gpc # "done"
  PROVE  Pipeline'
<1>1. /\ recorded \in [Threads -> Nat]
      /\ buffer \in [Threads -> Seq(Nat)] /\ taken \in [Threads -> Seq(Nat)]
      /\ pc \in [Threads -> ThreadPc] /\ data \in Seq(Batch)
  BY DEF TypeOK
<1>2. /\ pc[t] = "flush" /\ pc'[t] \in {"idle", "hook"}
      /\ \A u \in Threads : u # t => pc'[u] = pc[u]
      /\ taken' = [taken EXCEPT ![t] = << >>]
      /\ data' = Append(data, [thread |-> t, buffer |-> taken[t]])
      /\ UNCHANGED <<started, dead, recorded, buffer, states, index, gpc, hand,
                     handDead, received, phase>>
  BY <1>1 DEF Flush, SendData, AfterPush, Goto
<1>3. /\ taken[t] # << >> /\ buffer[t] = << >> /\ t \notin dead
      /\ t \in started /\ phase[t] # "destroyed"
      /\ taken[t] \in Seq(Nat)
      /\ Follows(taken[t], HandedOver(t))
  BY <1>1, <1>2 DEF Pipeline, Writing, Registry
<1>4. Len(taken[t]) \in Nat /\ Len(<< >>) = 0
  BY <1>3
<1>5. \A u \in Threads : InHand(u)' = InHand(u) /\ Collected(u)' = Collected(u)
  BY <1>2 DEF InHand, Collected
<1>6. /\ \A u \in Threads : u # t => HandedOver(u)' = HandedOver(u)
      /\ HandedOver(t)' = HandedOver(t) + Len(taken[t])
      /\ \A u \in Threads : HandedOver(u) \in Int
  <2>1. ASSUME NEW u \in Threads, u # t
        PROVE  HandedOver(u)' = HandedOver(u)
    BY <1>1, <1>2, <2>1 DEF HandedOver
  <2>2. HandedOver(t) = recorded[t] - Len(taken[t]) /\ HandedOver(t)' = recorded[t]
    BY <1>1, <1>2, <1>3, <1>4 DEF HandedOver
  <2>3. \A u \in Threads : HandedOver(u) \in Int
    BY <1>1 DEF HandedOver
  <2> QED
    BY <1>1, <1>4, <2>1, <2>2, <2>3
<1>7. /\ \A u \in Threads : NoMessage(u)' <=> u # t /\ NoMessage(u)
      /\ \A i \in 1 .. Len(data') : data'[i].thread \in started
  <2>1. [thread |-> t, buffer |-> taken[t]] \in Batch
    BY <1>3 DEF Batch
  <2>2. /\ Len(data) \in Nat /\ Len(data') = Len(data) + 1
        /\ data'[Len(data) + 1].thread = t
        /\ \A i \in 1 .. Len(data) : data'[i] = data[i]
    BY <1>1, <1>2, <2>1, AppendProperties
  <2>3. \A i \in 1 .. Len(data') : i = Len(data) + 1 \/ i \in 1 .. Len(data)
    BY <2>2
  <2>4. Len(data) + 1 \in 1 .. Len(data')
        /\ \A i \in 1 .. Len(data) : i \in 1 .. Len(data')
    BY <2>2
  <2>5. \A u \in Threads : NoMessage(u)' <=> u # t /\ NoMessage(u)
    BY <2>2, <2>3, <2>4 DEF NoMessage
  <2> QED
    BY <1>3, <2>2, <2>3, <2>5 DEF Pipeline, Messages
<1>8. ASSUME NEW u \in Threads
      PROVE
          /\ pc'[u] = "flush" => taken'[u] # << >>
          /\ taken'[u] # << >> =>
               buffer'[u] = << >> /\ pc'[u] \in {"flush", "sendFailed"}
          /\ Follows(taken'[u], HandedOver(u)')
          /\ Follows(buffer'[u], HandedOver(u)' + Len(taken'[u]))
  <2>1. CASE u = t
    <3>1. taken'[t] = << >> /\ buffer'[t] = << >>
      BY <1>1, <1>2, <1>3
    <3> QED
      BY <1>2, <1>4, <2>1, <3>1 DEF Follows
  <2>2. CASE u # t
    <3>1. taken'[u] = taken[u] /\ buffer'[u] = buffer[u] /\ pc'[u] = pc[u]
      BY <1>1, <1>2, <2>2
    <3> QED
      BY <1>6, <2>2, <3>1 DEF Pipeline, Writing
  <2> QED
    BY <2>1, <2>2
<1>9. Messages'
  <2> DEFINE lo == [u \in Threads |-> Collected(u)]
             hi == [u \in Threads |-> HandedOver(u)]
  <2>1. Chain(data, lo, hi)
    BY DEF Pipeline, Messages
  <2>2. /\ hi \in [Threads -> Int] /\ hi[t] = HandedOver(t)
        /\ lo \in [Threads -> Int]
    <3>1. lo \in [Threads -> Int]
      BY CollectedType
    <3> QED
      BY <1>6, <3>1
  <2>3. Chain(data', lo, [hi EXCEPT ![t] = @ + Len(taken[t])])
    <3> HIDE DEF lo, hi
    <3> QED
      BY <1>1, <1>2, <1>3, <2>1, <2>2, ChainAppend
  <2>4. /\ [u \in Threads |-> Collected(u)]' = lo
        /\ [u \in Threads |-> HandedOver(u)]'
             = [hi EXCEPT ![t] = @ + Len(taken[t])]
    BY <1>5, <1>6
  <2>5. Chain(data', [u \in Threads |-> Collected(u)]',
                     [u \in Threads |-> HandedOver(u)]')
    BY <2>3, <2>4
  <2> QED
    BY <1>2, <1>7, <2>5 DEF Messages
<1>10. Swapping' /\ Finishing'
  BY <1>2, <1>3, <1>7, LockedType DEF Pipeline, Swapping, Finishing
<1>11. ASSUME NEW u \in Threads, phase'[u] = "destroyed"
       PROVE  /\ u \in dead' /\ NoMessage(u)'
              /\ Len(received'[u]) = recorded'[u]
  BY <1>2, <1>3, <1>7, <1>11 DEF Pipeline
<1>12. Writing'
  BY <1>8 DEF Writing, Follows
<1> QED
  BY <1>2, <1>5, <1>9, <1>10, <1>11, <1>12 DEF Pipeline, Follows

\* Handling a message moves the beginning of the chain past it.
LEMMA PipelineShipHead ==
  ASSUME TypeOK, Registry, Pipeline, ShipHead,
         gpc \notin {"swap", "send", "done"},
         UNCHANGED <<pc, started, dead, recorded, buffer, taken, states, index,
                     gpc, hand, handDead, phase>>
  PROVE  Pipeline'
<1> DEFINE lo == [u \in Threads |-> Collected(u)]
           hi == [u \in Threads |-> HandedOver(u)]
<1>1. /\ data \in Seq(Batch) /\ data # << >> /\ data' = Tail(data)
      /\ received \in [Threads -> Seq(Nat)]
  BY DEF TypeOK, ShipHead
<1>2. PICK t \in Threads, b \in Seq(Nat) :
         t = Head(data).thread /\ b = Head(data).buffer
  <2>1. Head(data) \in Batch
    BY <1>1, TailShift
  <2> QED
    BY <2>1 DEF Batch
<1>3. received' = [received EXCEPT ![t] = @ \o b]
  BY <1>2 DEF ShipHead, Ship
<1>4. \A u \in Threads : InHand(u) = << >> /\ InHand(u)' = << >>
  BY DEF InHand
<1>5. \A u \in Threads : /\ Collected(u) = Len(received[u])
                         /\ Collected(u)' = Len(received'[u])
                         /\ HandedOver(u)' = HandedOver(u)
  <2>1. received' \in [Threads -> Seq(Nat)] /\ Len(<< >>) = 0
    BY TypeShipHead
  <2>2. \A u \in Threads : Len(received[u]) \in Nat /\ Len(received'[u]) \in Nat
    BY <1>1, <2>1
  <2>3. ASSUME NEW u \in Threads
        PROVE  Collected(u) = Len(received[u]) /\ Collected(u)' = Len(received'[u])
    <3>1. Collected(u) = Len(received[u]) + Len(<< >>)
      BY <1>4 DEF Collected
    <3>2. Collected(u)' = Len(received'[u]) + Len(<< >>)
      BY <1>4 DEF Collected
    <3> QED
      BY <2>1, <2>2, <3>1, <3>2
  <2>4. \A u \in Threads : HandedOver(u)' = HandedOver(u)
    BY DEF HandedOver
  <2> QED
    BY <2>3, <2>4
<1>6. /\ Before(Head(data)) = Len(received[t])
      /\ Chain(data', [lo EXCEPT ![t] = Through(Head(data))], hi)
  <2>1. Chain(data, lo, hi)
    BY DEF Pipeline, Messages
  <2>2. lo \in [Threads -> Int] /\ lo[t] = Len(received[t])
    BY <1>1, <1>5
  <2> HIDE DEF lo, hi
  <2>3. /\ Before(Head(data)) = lo[t]
        /\ Chain(Tail(data), [lo EXCEPT ![t] = Through(Head(data))], hi)
    BY <1>1, <1>2, <2>1, <2>2, ChainTail
  <2> QED
    BY <1>1, <2>2, <2>3
<1>7. /\ Len(received'[t]) = Len(received[t]) + Len(b)
      /\ \A k \in 1 .. Len(received'[t]) :
           received'[t][k] = IF k <= Len(received[t]) THEN received[t][k]
                                                 ELSE b[k - Len(received[t])]
      /\ \A u \in Threads : u # t => received'[u] = received[u]
      /\ Len(b) \in Nat /\ Len(received[t]) \in Nat
  <2>1. received[t] \in Seq(Nat) /\ received'[t] = received[t] \o b
    BY <1>1, <1>3
  <2>2. /\ Len(received'[t]) = Len(received[t]) + Len(b)
        /\ Len(b) \in Nat /\ Len(received[t]) \in Nat
    BY <2>1, ConcatProperties
  <2>3. \A k \in 1 .. Len(received'[t]) :
           received'[t][k] = IF k <= Len(received[t]) THEN received[t][k]
                                                 ELSE b[k - Len(received[t])]
    BY <2>1, <2>2, ConcatProperties
  <2> QED
    BY <1>1, <1>3, <2>2, <2>3
<1>8. Follows(b, Len(received[t]))
  <2>1. Head(data) = data[1] /\ 1 \in 1 .. Len(data)
    BY <1>1, TailShift
  <2>2. Follows(b, Before(Head(data)))
    BY <1>2, <2>1 DEF Pipeline, Messages, Chain
  <2> QED
    BY <1>6, <2>2
<1>9. ASSUME NEW u \in Threads
      PROVE  Follows(received'[u], 0)
  <2>1. Follows(received[u], 0)
    BY DEF Pipeline
  <2>2. CASE u = t
    <3>1. ASSUME NEW k \in 1 .. Len(received'[t])
          PROVE  received'[t][k] = 0 + k
      <4>1. CASE k <= Len(received[t])
        BY <1>7, <2>1, <2>2, <4>1 DEF Follows
      <4>2. CASE k > Len(received[t])
        <5>1. k - Len(received[t]) \in 1 .. Len(b)
          BY <1>7, <4>2
        <5>2. b[k - Len(received[t])] = Len(received[t]) + (k - Len(received[t]))
          BY <1>8, <5>1 DEF Follows
        <5> QED
          BY <1>7, <4>2, <5>2
      <4> QED
        BY <1>7, <4>1, <4>2
    <3> QED
      BY <2>2, <3>1 DEF Follows
  <2>3. CASE u # t
    BY <1>7, <2>1, <2>3
  <2> QED
    BY <2>2, <2>3
<1>10. Messages'
  <2>1. Through(Head(data)) = Len(received'[t])
    BY <1>2, <1>6, <1>7 DEF Through
  <2>2. [u \in Threads |-> Collected(u)]'
          = [lo EXCEPT ![t] = Through(Head(data))]
    BY <1>5, <1>7, <2>1
  <2>3. [u \in Threads |-> HandedOver(u)]' = hi
    BY <1>5
  <2>4. Chain(data', [u \in Threads |-> Collected(u)]',
                     [u \in Threads |-> HandedOver(u)]')
    BY <1>6, <2>2, <2>3
  <2>5. \A i \in 1 .. Len(data') : data'[i].thread \in started
    <3>1. /\ Len(data) \in Nat /\ Len(data') = Len(data) - 1
          /\ \A i \in 1 .. Len(data) - 1 : data'[i] = data[i + 1]
      BY <1>1, TailShift
    <3>2. \A i \in 1 .. Len(data') : i + 1 \in 1 .. Len(data)
      BY <3>1
    <3> QED
      BY <3>1, <3>2 DEF Pipeline, Messages
  <2> QED
    BY <2>4, <2>5 DEF Messages
<1>11. Writing'
  BY <1>5 DEF Pipeline, Writing, Follows
<1>12. ASSUME NEW u \in Threads, phase'[u] = "destroyed"
       PROVE  /\ u \in dead' /\ NoMessage(u)'
              /\ Len(received'[u]) = recorded'[u]
  <2>1. /\ Len(data) \in Nat /\ Len(data') = Len(data) - 1
        /\ \A i \in 1 .. Len(data) - 1 : data'[i] = data[i + 1]
        /\ Head(data) = data[1] /\ 1 \in 1 .. Len(data)
    BY <1>1, TailShift
  <2>2. /\ u \in dead /\ NoMessage(u) /\ Len(received[u]) = recorded[u]
    BY <1>12 DEF Pipeline
  <2>3. u # t
    BY <1>2, <2>1, <2>2 DEF NoMessage
  <2>4. NoMessage(u)'
    <3>1. \A i \in 1 .. Len(data') : i + 1 \in 1 .. Len(data)
      BY <2>1
    <3> QED
      BY <2>1, <2>2, <3>1 DEF NoMessage
  <2> QED
    BY <1>7, <2>2, <2>3, <2>4
<1>13. \A u \in Threads : Follows(InHand(u)', Len(received'[u]))
  <2>1. Len(<< >>) = 0
    OBVIOUS
  <2> QED
    BY <1>4, <2>1 DEF Follows
<1>14. Swapping' /\ Finishing'
  BY DEF Swapping, Finishing
<1> QED
  BY <1>9, <1>10, <1>11, <1>12, <1>13, <1>14 DEF Pipeline, Follows

\* The swap takes the end of the log in hand, or nothing.
LEMMA PipelineSwap ==
  ASSUME TypeOK, Registry, Pipeline, Swap
  PROVE  Pipeline'
<1>1. PICK t \in Threads : t = states[index]
  BY LockedType DEF Swap
<1>2. /\ recorded \in [Threads -> Nat] /\ received \in [Threads -> Seq(Nat)]
      /\ buffer \in [Threads -> Seq(Nat)] /\ taken \in [Threads -> Seq(Nat)]
  BY DEF TypeOK
<1>3. /\ gpc = "swap" /\ gpc' = "send"
      /\ hand' = buffer[t] /\ buffer' = [buffer EXCEPT ![t] = << >>]
      /\ handDead' = (t \in dead)
      /\ UNCHANGED <<pc, recorded, taken, started, dead, data, states, index,
                     received, phase>>
  BY <1>1 DEF Swap, Emptied
<1>4. /\ \A u \in Threads : InHand(u) = << >>
      /\ \A u \in Threads : u # t => InHand(u)' = << >>
      /\ InHand(t)' = buffer[t]
      /\ \A u \in Threads : NoMessage(u)' = NoMessage(u)
  BY <1>1, <1>3 DEF InHand, NoMessage
<1>5. /\ \A u \in Threads : /\ Len(received[u]) \in Nat /\ Len(buffer[u]) \in Nat
                            /\ Len(taken[u]) \in Nat /\ recorded[u] \in Nat
      /\ Len(<< >>) = 0
      /\ \A u \in Threads : /\ u # t => buffer'[u] = buffer[u]
                            /\ buffer'[t] = << >>
  BY <1>2, <1>3
<1>6. Writing /\ Messages
  BY <1>3 DEF Pipeline
<1>7. /\ \A u \in Threads : u # t => /\ Collected(u)' = Collected(u)
                                     /\ HandedOver(u)' = HandedOver(u)
      /\ HandedOver(t)' = HandedOver(t) + Len(buffer[t])
      /\ Collected(t)' = Collected(t) + Len(buffer[t])
      /\ Collected(t) = Len(received[t])
      /\ HandedOver(t) \in Int
  <2>1. ASSUME NEW u \in Threads, u # t
        PROVE  Collected(u)' = Collected(u) /\ HandedOver(u)' = HandedOver(u)
    <3>1. InHand(u)' = InHand(u)
      BY <1>4, <2>1
    <3>2. HandedOver(u)' = HandedOver(u)
      BY <1>3, <1>5, <2>1 DEF HandedOver
    <3> QED
      BY <1>3, <3>1, <3>2 DEF Collected
  <2>2. HandedOver(t)' = HandedOver(t) + Len(buffer[t]) /\ HandedOver(t) \in Int
    <3>1. buffer'[t] = << >> /\ recorded' = recorded /\ taken' = taken
      BY <1>3, <1>5
    <3>2. HandedOver(t)' = recorded[t] - Len(<< >>) - Len(taken[t])
      BY <3>1 DEF HandedOver
    <3> QED
      BY <1>5, <3>2 DEF HandedOver
  <2>3. Collected(t) = Len(received[t]) + Len(<< >>)
    BY <1>4 DEF Collected
  <2>4. Collected(t)' = Len(received[t]) + Len(buffer[t])
    BY <1>3, <1>4 DEF Collected
  <2> QED
    BY <1>5, <2>1, <2>2, <2>3, <2>4
<1>s. Swapping' /\ ~(gpc' = "done")
  BY <1>3 DEF Swapping
<1>d. ASSUME NEW u \in Threads, phase'[u] = "destroyed"
      PROVE  /\ u \in dead' /\ NoMessage(u)'
             /\ Len(received'[u]) = recorded'[u]
  BY <1>3, <1>4, <1>d DEF Pipeline
<1>f. (t \in dead => NoMessage(t)) => Finishing'
  BY <1>1, <1>3, <1>4, <1>5 DEF Finishing
<1>8. CASE buffer[t] = << >>
  <2>1. \A u \in Threads : /\ Collected(u)' = Collected(u)
                           /\ HandedOver(u)' = HandedOver(u)
                           /\ buffer'[u] = buffer[u]
    BY <1>5, <1>7, <1>8
  <2>2. Messages'
    BY <1>3, <1>6, <2>1, MessagesKept
  <2>3. Writing'
    BY <1>3, <1>6, <2>1 DEF Writing, Follows
  <2>4. \A u \in Threads : Follows(InHand(u)', Len(received'[u]))
    BY <1>3, <1>4, <1>5, <1>8 DEF Follows
  <2>5. t \in dead => NoMessage(t)
    BY <1>1, <1>3 DEF Pipeline, Swapping
  <2>6. \A u \in Threads : Follows(received'[u], 0)
    BY <1>3 DEF Pipeline
  <2> QED
    BY <1>s, <1>d, <1>f, <2>2, <2>3, <2>4, <2>5, <2>6 DEF Pipeline, Follows
<1>9. CASE buffer[t] # << >>
  <2>1. NoMessage(t) /\ taken[t] = << >>
    BY <1>1, <1>3, <1>6, <1>9 DEF Pipeline, Swapping, Writing
  <2>2. Collected(t) = HandedOver(t)
    BY <1>6, <2>1 DEF Messages, Chain, NoMessage
  <2>3. Follows(buffer[t], Len(received[t]))
    <3>1. HandedOver(t) + Len(taken[t]) = Len(received[t])
      BY <1>5, <1>7, <2>1, <2>2
    <3> QED
      BY <1>6, <3>1 DEF Writing
  <2>4. Messages'
    <3> DEFINE lo == [u \in Threads |-> Collected(u)]
               hi == [u \in Threads |-> HandedOver(u)]
               lo2 == [u \in Threads |-> Collected(u)']
               hi2 == [u \in Threads |-> HandedOver(u)']
    <3>1. Chain(data, lo, hi)
      BY <1>6 DEF Messages
    <3>2. /\ \A u \in Threads : u # t => lo2[u] = lo[u] /\ hi2[u] = hi[u]
          /\ lo2[t] = hi2[t] /\ hi2[t] \in Int
      BY <1>5, <1>7, <2>2
    <3>3. \A i \in 1 .. Len(data) : data[i].thread \in Threads \ {t}
      BY <2>1, MessageType DEF NoMessage
    <3> HIDE DEF lo, hi, lo2, hi2
    <3>a. \A u \in Threads : lo2[u] <= hi2[u]
      BY <3>1, <3>2 DEF Chain
    <3>b. \A i \in 1 .. Len(data) : /\ lo2[data[i].thread] = lo[data[i].thread]
                                   /\ hi2[data[i].thread] = hi[data[i].thread]
      BY <3>2, <3>3
    <3>c. \A u \in Threads :
            (\A i \in 1 .. Len(data) : data[i].thread # u) => lo2[u] = hi2[u]
      BY <3>1, <3>2 DEF Chain
    <3>4. Chain(data, lo2, hi2)
      BY <3>1, <3>a, <3>b, <3>c DEF Chain
    <3> QED
      BY <1>3, <1>6, <3>4 DEF Messages, lo2, hi2
  <2>5. Writing'
    <3> SUFFICES ASSUME NEW u \in Threads
        PROVE
          /\ pc'[u] = "flush" => taken'[u] # << >>
          /\ taken'[u] # << >> =>
               buffer'[u] = << >> /\ pc'[u] \in {"flush", "sendFailed"}
          /\ Follows(taken'[u], HandedOver(u)')
          /\ Follows(buffer'[u], HandedOver(u)' + Len(taken'[u]))
      BY DEF Writing, Follows
    <3>1. CASE u = t
      BY <1>3, <1>5, <1>6, <2>1, <3>1 DEF Writing, Follows
    <3>2. CASE u # t
      BY <1>3, <1>5, <1>6, <1>7, <3>2 DEF Writing
    <3> QED
      BY <3>1, <3>2
  <2>6. ASSUME NEW u \in Threads
        PROVE  Follows(InHand(u)', Len(received'[u]))
    <3>1. CASE u = t
      <4>1. InHand(u)' = buffer[t] /\ Len(received'[u]) = Len(received[t])
        BY <1>3, <1>4, <3>1
      <4> QED
        BY <2>3, <4>1
    <3>2. CASE u # t
      <4>1. InHand(u)' = << >>
        BY <1>4, <3>2
      <4> QED
        BY <1>5, <4>1 DEF Follows
    <3> QED
      BY <3>1, <3>2
  <2>7. \A u \in Threads : Follows(received'[u], 0)
    BY <1>3 DEF Pipeline
  <2> QED
    BY <1>s, <1>d, <1>f, <2>1, <2>4, <2>5, <2>6, <2>7 DEF Pipeline, Follows
<1> QED
  BY <1>8, <1>9

\* Writing what is in hand only moves it; a dead thread's log is then complete.
LEMMA PipelineSendHand ==
  ASSUME TypeOK, Registry, Pipeline, SendHand
  PROVE  Pipeline'
<1>1. PICK t \in Threads : t = states[index] /\ Listed(t)
  BY LockedType DEF SendHand
<1>2. /\ recorded \in [Threads -> Nat] /\ received \in [Threads -> Seq(Nat)]
      /\ buffer \in [Threads -> Seq(Nat)] /\ taken \in [Threads -> Seq(Nat)]
      /\ phase \in [Threads -> {"unknown", "live", "destroyed"}]
      /\ hand \in Seq(Nat)
  BY DEF TypeOK
<1>3. /\ gpc = "send" /\ gpc' = "visit"
      /\ received' = [received EXCEPT ![t] = @ \o hand]
      /\ UNCHANGED <<pc, recorded, buffer, taken, started, dead, data>>
      /\ phase' = IF handDead THEN [phase EXCEPT ![t] = "destroyed"] ELSE phase
  BY <1>1 DEF SendHand, Ship, FoundDead
<1>4. /\ \A u \in Threads : u # t => InHand(u) = << >>
      /\ InHand(t) = hand
      /\ \A u \in Threads : InHand(u)' = << >> /\ NoMessage(u)' = NoMessage(u)
  BY <1>1, <1>3 DEF InHand, NoMessage
<1>5. /\ Len(received'[t]) = Len(received[t]) + Len(hand)
      /\ \A k \in 1 .. Len(received'[t]) :
           received'[t][k] = IF k <= Len(received[t]) THEN received[t][k]
                                                 ELSE hand[k - Len(received[t])]
      /\ \A u \in Threads : u # t => received'[u] = received[u]
      /\ Len(hand) \in Nat /\ Len(<< >>) = 0
      /\ \A u \in Threads : Len(received[u]) \in Nat
  <2>1. received[t] \in Seq(Nat) /\ received'[t] = received[t] \o hand
    BY <1>2, <1>3
  <2>2. /\ Len(received'[t]) = Len(received[t]) + Len(hand)
        /\ Len(hand) \in Nat /\ Len(received[t]) \in Nat
    BY <1>2, <2>1, ConcatProperties
  <2>3. \A k \in 1 .. Len(received'[t]) :
           received'[t][k] = IF k <= Len(received[t]) THEN received[t][k]
                                                 ELSE hand[k - Len(received[t])]
    BY <1>2, <2>1, <2>2, ConcatProperties
  <2> QED
    BY <1>2, <1>3, <2>2, <2>3
<1>6. /\ \A u \in Threads : Collected(u)' = Collected(u)
      /\ \A u \in Threads : HandedOver(u)' = HandedOver(u)
      /\ Collected(t) = Len(received'[t])
  <2>1. ASSUME NEW u \in Threads
        PROVE  Collected(u)' = Collected(u)
    <3>1. CASE u = t
      <4>1. Collected(t) = Len(received[t]) + Len(hand)
        BY <1>4 DEF Collected
      <4>2. Collected(t)' = Len(received'[t]) + Len(<< >>)
        BY <1>4 DEF Collected
      <4>3. Len(received[t]) \in Nat
        BY <1>5
      <4> QED
        BY <1>5, <3>1, <4>1, <4>2, <4>3
    <3>2. CASE u # t
      <4>1. InHand(u)' = InHand(u) /\ received'[u] = received[u]
        BY <1>4, <1>5, <3>2
      <4> QED
        BY <4>1 DEF Collected
    <3> QED
      BY <3>1, <3>2
  <2>2. \A u \in Threads : HandedOver(u)' = HandedOver(u)
    BY <1>3 DEF HandedOver
  <2>3. Collected(t) = Len(received'[t])
    BY <1>4, <1>5 DEF Collected
  <2> QED
    BY <2>1, <2>2, <2>3
<1>7. Writing /\ Messages
  BY <1>3 DEF Pipeline
<1>8. Messages'
  BY <1>3, <1>6, <1>7, MessagesKept
<1>9. Writing'
  BY <1>3, <1>6, <1>7 DEF Writing, Follows
<1>10. ASSUME NEW u \in Threads
       PROVE  Follows(received'[u], 0)
  <2>1. Follows(received[u], 0) /\ Follows(hand, Len(received[t]))
    BY <1>4 DEF Pipeline
  <2>2. CASE u = t
    <3>1. ASSUME NEW k \in 1 .. Len(received'[t])
          PROVE  received'[t][k] = 0 + k
      <4>1. CASE k <= Len(received[t])
        <5>1. k \in 1 .. Len(received[t]) /\ Follows(received[t], 0)
          BY <1>5, <2>1, <2>2, <4>1
        <5>2. received[t][k] = 0 + k
          BY <5>1 DEF Follows
        <5>3. received'[t][k] = received[t][k]
          BY <1>5, <4>1
        <5> QED
          BY <5>2, <5>3
      <4>2. CASE k > Len(received[t])
        <5>1. k - Len(received[t]) \in 1 .. Len(hand)
          BY <1>5, <4>2
        <5>2. hand[k - Len(received[t])]
                = Len(received[t]) + (k - Len(received[t]))
          BY <2>1, <5>1 DEF Follows
        <5> QED
          BY <1>5, <4>2, <5>2
      <4> QED
        BY <1>5, <4>1, <4>2
    <3> QED
      BY <2>2, <3>1 DEF Follows
  <2>3. CASE u # t
    BY <1>5, <2>1, <2>3
  <2> QED
    BY <2>2, <2>3
<1>11. ASSUME handDead
       PROVE  /\ t \in dead /\ NoMessage(t)
              /\ Len(received'[t]) = recorded[t]
  <2>1. t \in dead /\ NoMessage(t) /\ buffer[t] = << >> /\ pc[t] = "exited"
    BY <1>1, <1>3, <1>11 DEF Pipeline, Finishing, Registry
  <2>2. taken[t] = << >>
    BY <1>7, <2>1 DEF Writing
  <2>3. HandedOver(t) = recorded[t]
    BY <1>2, <1>5, <2>1, <2>2 DEF HandedOver
  <2>4. Collected(t) = HandedOver(t)
    BY <1>7, <2>1 DEF Messages, Chain, NoMessage
  <2> QED
    BY <1>6, <2>1, <2>3, <2>4
<1>12. ASSUME NEW u \in Threads, phase'[u] = "destroyed"
       PROVE  /\ u \in dead' /\ NoMessage(u)'
              /\ Len(received'[u]) = recorded'[u]
  <2>1. phase[t] # "destroyed"
    BY <1>1 DEF Registry
  <2>2. CASE u = t
    <3>1. handDead
      BY <1>3, <1>12, <2>1, <2>2
    <3> QED
      BY <1>3, <1>4, <1>11, <2>2, <3>1
  <2>3. CASE u # t
    <3>1. phase[u] = "destroyed"
      BY <1>2, <1>3, <1>12, <2>3
    <3> QED
      BY <1>3, <1>4, <1>5, <2>3, <3>1 DEF Pipeline
  <2> QED
    BY <2>2, <2>3
<1>13. \A u \in Threads : Follows(InHand(u)', Len(received'[u]))
  BY <1>4, <1>5 DEF Follows
<1>14. Swapping' /\ Finishing'
  BY <1>3 DEF Swapping, Finishing
<1> QED
  BY <1>3, <1>8, <1>9, <1>10, <1>12, <1>13, <1>14 DEF Pipeline, Follows

\* Nothing is under way any more for a thread that has been told dead.
LEMMA PipelineClose ==
  ASSUME TypeOK, Registry, Pipeline, Close
  PROVE  Pipeline'
<1>1. /\ gpc = "close" /\ gpc' = "done" /\ data' = << >> /\ Len(<< >>) = 0
      /\ UNCHANGED <<received, recorded, dead, phase>>
  BY DEF Close
<1>2. \A u \in Threads : NoMessage(u)' /\ InHand(u)' = << >>
  BY <1>1 DEF NoMessage, InHand
<1>3. Swapping' /\ Finishing'
  BY <1>1 DEF Swapping, Finishing
<1>4. \A u \in Threads : phase'[u] = "destroyed" =>
        u \in dead' /\ NoMessage(u)' /\ Len(received'[u]) = recorded'[u]
  BY <1>1, <1>2 DEF Pipeline
<1>5. \A u \in Threads : /\ Follows(received'[u], 0)
                         /\ Follows(InHand(u)', Len(received'[u]))
  BY <1>1, <1>2 DEF Pipeline, Follows
<1> QED
  BY <1>1, <1>3, <1>4, <1>5 DEF Pipeline, Follows

\* Steps of a thread.  Exit needs the lock that a swap holds.
LEMMA PipelineThread ==
  ASSUME TypeOK, Registry, Pipeline, NEW t \in Threads, ThreadNext(t)
  PROVE  Pipeline'
<1>p. pc \in [Threads -> ThreadPc]
  BY DEF TypeOK
<1>1. CASE EnterHook(t) \/ CloneHandle(t) \/ SendRegister(t) \/ AwaitStart(t)
  <2>1. /\ UNCHANGED <<recorded, buffer, taken, data, received, hand, handDead,
                       started, dead, phase, gpc, states, index>>
        /\ \A u \in Threads : u # t => pc'[u] = pc[u]
        /\ pc[t] \notin {"flush", "sendFailed"} /\ pc'[t] # "flush"
    BY <1>1, <1>p DEF EnterHook, CloneHandle, SendRegister, AwaitStart, Goto,
                      gathererVars, wireVars
  <2> QED
    BY <1>p, <2>1, PipelineQuiet
<1>2. CASE Push(t)
  BY <1>2, PipelinePush
<1>3. CASE Flush(t) /\ gpc # "done"
  BY <1>3, PipelineFlush
<1>4. CASE Flush(t) /\ gpc = "done"
  <2>1. /\ UNCHANGED <<recorded, buffer, taken, data, received, hand, handDead,
                       started, dead, phase, gpc, states, index>>
        /\ \A u \in Threads : u # t => pc'[u] = pc[u]
        /\ pc'[t] = "sendFailed"
    BY <1>4, <1>p DEF Flush, Goto, gathererVars, wireVars
  <2> QED
    BY <1>p, <2>1, PipelineQuiet
<1>5. CASE Exit(t)
  <2>1. /\ UNCHANGED <<recorded, buffer, taken, data, received, hand, handDead,
                       started, phase, gpc, states, index>>
        /\ dead' = dead \cup {t}
        /\ gpc = "swap" => states[index] # t
        /\ \A u \in Threads : u # t => pc'[u] = pc[u]
        /\ pc[t] = "idle" /\ pc'[t] = "exited"
    BY <1>5, <1>p DEF Exit, Goto, GathererHolds, gathererVars, wireVars
  <2> QED
    BY <1>p, <2>1, PipelineQuiet
<1> QED
  BY <1>1, <1>2, <1>3, <1>4, <1>5 DEF ThreadNext

\* Steps of start() and stop().
LEMMA PipelineStop ==
  ASSUME TypeOK, Pipeline,
         \/ StartInstall \/ StartEnable
         \/ StopDisable \/ StopTake \/ StopSignal \/ StopJoin
  PROVE  Pipeline'
<1>1. pc \in [Threads -> ThreadPc] /\ Main \in Threads
  BY TrackerAssumption DEF TypeOK
<1>2. /\ UNCHANGED <<recorded, buffer, taken, data, received, hand, handDead,
                     started, dead, phase, gpc, states, index>>
      /\ \A u \in Threads : u # Main => pc'[u] = pc[u]
      /\ pc[Main] \notin {"flush", "sendFailed"} /\ pc'[Main] # "flush"
  BY <1>1 DEF StartInstall, StartEnable, StopDisable, StopTake, StopSignal,
              StopJoin, MayEnable, Goto, gathererVars, wireVars
<1> QED
  BY <1>1, <1>2, PipelineQuiet

LEMMA PipelineGatherer ==
  ASSUME TypeOK, Registry, Pipeline, GathererNext \/ RecvShutdown \/ Close
  PROVE  Pipeline'
<1>1. CASE \/ GathererBoot \/ RecvTick \/ RecvShutdown \/ RecvRegister
           \/ Capture \/ Visit \/ Stamp
           \/ (Drain \/ LockedDrain) /\ data = << >>
  <2>1. CASE RecvRegister
    <3>1. /\ UNCHANGED <<pc, recorded, buffer, taken, data, received, hand,
                         handDead, dead, gpc, index>>
          /\ gpc = "select" /\ started \subseteq started'
          /\ phase' = [phase EXCEPT ![Head(registration)] = "live"]
          /\ phase \in [Threads -> {"unknown", "live", "destroyed"}]
      BY <2>1 DEF RecvRegister, TypeOK, controlVars, writerVars
    <3>2. \A t \in Threads : phase'[t] = "destroyed" => phase[t] = "destroyed"
      BY <3>1
    <3> QED
      BY <3>1, <3>2, PipelineQuiet
  <2>2. CASE ~RecvRegister
    <3>1. /\ UNCHANGED <<pc, recorded, buffer, taken, data, received, hand,
                         handDead, started, dead, phase>>
          /\ gpc \notin {"send", "done"} /\ gpc' \notin {"send", "done"}
          /\ gpc' = "swap" => data = << >>
      <4>1. CASE (Drain \/ LockedDrain) /\ data = << >>
        BY <4>1 DEF Drain, LockedDrain, DrainReceiver, ShipHead, writerVars
      <4>2. CASE \/ GathererBoot \/ RecvTick \/ RecvShutdown
                 \/ Capture \/ Visit \/ Stamp
        BY <4>2
           DEF GathererBoot, RecvTick, RecvShutdown, Capture, Visit, Stamp,
               AfterShutdown, AfterBuffers, writerVars, wireVars
      <4> QED
        BY <1>1, <2>2, <4>1, <4>2
    <3> QED
      BY <3>1, PipelineQuiet
  <2> QED
    BY <2>1, <2>2
<1>2. CASE RecvData \/ ((Drain \/ LockedDrain) /\ data # << >>)
  <2>1. /\ ShipHead /\ gpc \notin {"swap", "send", "done"}
        /\ UNCHANGED <<pc, started, dead, recorded, buffer, taken, states,
                       index, gpc, hand, handDead, phase>>
    <3>1. CASE RecvData
      BY <3>1 DEF RecvData, writerVars, gathererVars
    <3>2. CASE (Drain \/ LockedDrain) /\ data # << >>
      BY <3>2 DEF Drain, LockedDrain, DrainReceiver, writerVars
    <3> QED
      BY <1>2, <3>1, <3>2
  <2> QED
    BY <2>1, PipelineShipHead
<1>3. CASE Swap
  BY <1>3, PipelineSwap
<1>4. CASE SendHand
  BY <1>4, PipelineSendHand
<1>5. CASE Close
  BY <1>5, PipelineClose
<1> QED
  BY <1>1, <1>2, <1>3, <1>4, <1>5 DEF GathererNext

LEMMA IInvStep == IInv /\ [Next]_vars => IInv'
<1> SUFFICES ASSUME IInv, [Next]_vars
             PROVE  IInv'
  OBVIOUS
<1>1. TypeOK /\ Registry /\ Pipeline /\ Finishing
  BY DEF IInv, Pipeline
<1>2. TypeOK'
  BY <1>1, TypeStep
<1>3. Registry'
  <2>1. CASE \E t \in Threads : ThreadNext(t)
    BY <1>1, <2>1, RegistryThread
  <2>2. CASE \/ StartInstall \/ StartEnable
             \/ StopDisable \/ StopTake \/ StopSignal \/ StopJoin
    BY <1>1, <2>2, RegistryStop
  <2>3. CASE GathererNext \/ RecvShutdown \/ Close
    BY <1>1, <2>3, RegistryGatherer
  <2>4. CASE UNCHANGED vars
    BY <1>1, <2>4 DEF Registry, Listed, NoDuplicates, vars, gathererVars,
                      writerVars, wireVars
  <2> QED
    BY <2>1, <2>2, <2>3, <2>4 DEF Next, RunNext, StopNext
<1>4. Pipeline'
  <2>1. CASE \E t \in Threads : ThreadNext(t)
    BY <1>1, <2>1, PipelineThread
  <2>2. CASE \/ StartInstall \/ StartEnable
             \/ StopDisable \/ StopTake \/ StopSignal \/ StopJoin
    BY <1>1, <2>2, PipelineStop
  <2>3. CASE GathererNext \/ RecvShutdown \/ Close
    BY <1>1, <2>3, PipelineGatherer
  <2>4. CASE UNCHANGED vars
    BY <1>1, <2>4, PipelineQuiet DEF vars, gathererVars, writerVars, wireVars
  <2> QED
    BY <2>1, <2>2, <2>3, <2>4 DEF Next, RunNext, StopNext
<1> QED
  BY <1>2, <1>3, <1>4 DEF IInv

\* The inductive invariant: no buffer is lost, repeated or overtaken between
\* a thread's hook and the connection, and the gatherer's list, the threads
\* and the connection agree on who is registered and who is gone.
THEOREM Invariance == Spec => []IInv
<1>1. Init => IInv
  BY TypeInit, RegistryInit, PipelineInit DEF IInv
<1> QED
  BY <1>1, IInvStep, PTL DEF Spec

-----------------------------------------------------------------------------
(* What follows from the invariant *)

\* The connection carries each thread's events in order, each exactly once.
THEOREM InOrderHolds == Spec => []InOrder
<1>1. IInv => InOrder
  <2> SUFFICES ASSUME IInv, NEW t \in Threads
               PROVE  received[t] = Log!FirstEvents(Len(received[t]))
    BY DEF InOrder
  <2>1. received[t] \in Seq(Nat)
    BY DEF IInv, TypeOK
  <2>2. \A k \in 1 .. Len(received[t]) : received[t][k] = k
    BY DEF IInv, Pipeline, Follows
  <2> QED
    BY <2>1, <2>2 DEF Log!FirstEvents
<1> QED
  BY <1>1, Invariance, PTL

\* When a thread's end is announced, all it recorded has been written.
THEOREM DestroyedIsCompleteHolds == Spec => []DestroyedIsComplete
<1>1. IInv => DestroyedIsComplete
  BY DEF IInv, Pipeline, DestroyedIsComplete
<1> QED
  BY <1>1, Invariance, PTL

-----------------------------------------------------------------------------
(* The tracker implements the log *)

\* A delivery seen through the log: t's part of the connection grows to n.
LEMMA Delivered ==
  ASSUME IInv, IInv', NEW t \in Threads, phase[t] = "live",
         NEW b \in Seq(Nat), received' = [received EXCEPT ![t] = @ \o b]
  PROVE  /\ received' = [received EXCEPT ![t] = Log!FirstEvents(Len(received'[t]))]
         /\ Len(received'[t]) \in Nat /\ Len(received[t]) \in Nat
         /\ Len(received[t]) <= Len(received'[t])
         /\ b # << >> => Len(received[t]) < Len(received'[t])
         /\ b = << >> => received' = received
<1>1. received \in [Threads -> Seq(Nat)] /\ received' \in [Threads -> Seq(Nat)]
  BY DEF IInv, TypeOK
<1>2. received'[t] = received[t] \o b
  BY <1>1
<1>3. \A k \in 1 .. Len(received'[t]) : received'[t][k] = k
  BY <1>1 DEF IInv, Pipeline, Follows
<1>4. received'[t] = Log!FirstEvents(Len(received'[t]))
  <2>1. PICK s \in Seq(Nat) : s = received'[t]
    BY <1>1
  <2>2. \A k \in 1 .. Len(s) : s[k] = k
    BY <1>3, <2>1
  <2>3. s = Log!FirstEvents(Len(s))
    BY <2>2 DEF Log!FirstEvents
  <2> QED
    BY <2>1, <2>3
<1>5. Len(received'[t]) = Len(received[t]) + Len(b)
  BY <1>1, <1>2
<1>6. Len(b) \in Nat /\ (b # << >> => Len(b) # 0)
  OBVIOUS
<1>7. ASSUME b = << >> PROVE received' = received
  <2>1. received[t] \o << >> = received[t]
    BY <1>1
  <2> QED
    BY <1>1, <1>2, <1>7, <2>1
<1>8. received' = [received EXCEPT ![t] = received'[t]]
  BY <1>1
<1>9. Len(received'[t]) \in Nat /\ Len(received[t]) \in Nat
  BY <1>1
<1>10. received' = [received EXCEPT ![t] = Log!FirstEvents(Len(received'[t]))]
  BY <1>4, <1>8
<1> QED
  BY <1>5, <1>6, <1>7, <1>9, <1>10

\* A thread that is started and still has events under way is live.
LEMMA StartedLive ==
  ASSUME IInv, NEW t \in Threads, t \in started,
         pc[t] # "exited" \/ ~NoMessage(t)
  PROVE  phase[t] = "live"
<1>1. phase \in [Threads -> {"unknown", "live", "destroyed"}]
  BY DEF IInv, TypeOK
<1>2. phase[t] # "unknown"
  BY DEF IInv, Registry
<1>3. phase[t] # "destroyed"
  BY DEF IInv, Registry, Pipeline
<1> QED
  BY <1>1, <1>2, <1>3

\* Nothing beyond what is recorded is ever written.
NotAhead ==
  \A t \in Threads : /\ Len(received[t]) \in Nat /\ recorded[t] \in Nat
                     /\ Len(received[t]) <= recorded[t]

LEMMA NeverAhead == IInv /\ gpc # "done" => NotAhead
<1> SUFFICES ASSUME IInv, gpc # "done", NEW t \in Threads
             PROVE  /\ Len(received[t]) \in Nat /\ recorded[t] \in Nat
                    /\ Len(received[t]) <= recorded[t]
  BY DEF NotAhead
<1>1. /\ received[t] \in Seq(Nat) /\ hand \in Seq(Nat) /\ << >> \in Seq(Nat)
      /\ buffer[t] \in Seq(Nat) /\ taken[t] \in Seq(Nat) /\ recorded[t] \in Nat
  BY DEF IInv, TypeOK
<1>2. InHand(t) \in Seq(Nat)
  BY <1>1 DEF InHand
<1>3. /\ Len(received[t]) \in Nat /\ Len(InHand(t)) \in Nat
      /\ Len(buffer[t]) \in Nat /\ Len(taken[t]) \in Nat
  BY <1>1, <1>2
<1>4. Collected(t) <= HandedOver(t)
  BY DEF IInv, Pipeline, Messages, Chain
<1> QED
  BY <1>1, <1>3, <1>4, SMTT(30) DEF Collected, HandedOver

\* Writing a message of the data channel delivers.
LEMMA ShipHeadDelivers ==
  ASSUME IInv, IInv', ShipHead, gpc \notin {"send", "done"},
         UNCHANGED <<recorded, phase>>, gpc' = gpc
  PROVE  \E t \in Threads : Log!Deliver(t)
<1>1. PICK t \in Threads, b \in Seq(Nat) :
        t = Head(data).thread /\ b = Head(data).buffer
  <2>1. Head(data) \in Batch
    BY TailShift DEF ShipHead, IInv, TypeOK
  <2> QED
    BY <2>1 DEF Batch
<1>2. received' = [received EXCEPT ![t] = @ \o b]
  BY <1>1 DEF ShipHead, Ship
<1>3. data[1] = Head(data) /\ 1 \in 1 .. Len(data)
  <2>1. data \in Seq(Batch) /\ data # << >>
    BY DEF IInv, TypeOK, ShipHead
  <2> QED
    BY <2>1, TailShift
<1>4. b # << >> /\ t \in started /\ ~NoMessage(t)
  <2>1. Messages
    BY DEF IInv, Pipeline
  <2> QED
    BY <1>1, <1>3, <2>1 DEF Messages, Chain, NoMessage
<1>5. phase[t] = "live"
  BY <1>4, StartedLive
<1>6. /\ received' = [received EXCEPT ![t] = Log!FirstEvents(Len(received'[t]))]
      /\ Len(received'[t]) \in Nat /\ Len(received[t]) \in Nat
      /\ Len(received[t]) < Len(received'[t])
  BY <1>2, <1>4, <1>5, Delivered
<1>7. Len(received'[t]) <= recorded'[t] /\ recorded'[t] \in Nat
  <2>1. (IInv /\ gpc # "done" => NotAhead)'
    BY NeverAhead, PTL
  <2> QED
    BY <2>1 DEF NotAhead
<1>8. Len(received'[t]) \in Len(received[t]) + 1 .. recorded[t]
  BY <1>6, <1>7
<1> QED
  BY <1>5, <1>6, <1>8 DEF Log!Deliver

\* Writing what is in hand delivers, ends the thread's log, or does nothing.
LEMMA SendHandDelivers ==
  ASSUME IInv, IInv', SendHand
  PROVE  \/ \E t \in Threads : Log!Deliver(t) \/ Log!Destroy(t)
         \/ UNCHANGED <<recorded, received, phase>>
<1>1. PICK t \in Threads : t = states[index] /\ Listed(t)
  BY LockedType DEF SendHand, IInv
<1>2. /\ received' = [received EXCEPT ![t] = @ \o hand] /\ hand \in Seq(Nat)
      /\ recorded' = recorded /\ gpc' # "done"
      /\ phase' = IF handDead THEN [phase EXCEPT ![t] = "destroyed"] ELSE phase
      /\ phase \in [Threads -> {"unknown", "live", "destroyed"}]
  BY <1>1 DEF SendHand, Ship, FoundDead, writerVars, IInv, TypeOK
<1>3. phase[t] = "live"
  BY <1>1 DEF IInv, Registry
<1>4. /\ received' = [received EXCEPT ![t] = Log!FirstEvents(Len(received'[t]))]
      /\ Len(received'[t]) \in Nat /\ Len(received[t]) \in Nat
      /\ hand # << >> => Len(received[t]) < Len(received'[t])
      /\ hand = << >> => received' = received
  BY <1>2, <1>3, Delivered
<1>5. CASE handDead
  <2>1. phase'[t] = "destroyed"
    BY <1>2, <1>5
  <2>2. Len(received'[t]) = recorded[t]
    BY <1>2, <2>1 DEF IInv, Pipeline
  <2>3. Log!Destroy(t)
    BY <1>2, <1>3, <1>4, <1>5, <2>2 DEF Log!Destroy
  <2> QED
    BY <2>3
<1>6. CASE ~handDead /\ hand # << >>
  <2>1. Len(received'[t]) <= recorded'[t] /\ recorded'[t] \in Nat
    <3>1. (IInv /\ gpc # "done" => NotAhead)'
      BY NeverAhead, PTL
    <3> QED
      BY <1>2, <3>1 DEF NotAhead
  <2>2. Len(received'[t]) \in Len(received[t]) + 1 .. recorded[t]
    BY <1>2, <1>4, <1>6, <2>1
  <2>3. Log!Deliver(t)
    BY <1>2, <1>3, <1>4, <1>6, <2>2 DEF Log!Deliver
  <2> QED
    BY <2>3
<1>7. CASE ~handDead /\ hand = << >>
  BY <1>2, <1>4, <1>7
<1> QED
  BY <1>5, <1>6, <1>7

\* Every step of the tracker is a step of the log, or changes nothing in it.
LEMMA LogStep == IInv /\ IInv' /\ [Next]_vars => [Log!Next]_(Log!vars)
<1> SUFFICES ASSUME IInv, IInv', [Next]_vars
             PROVE  \/ \E t \in Threads : \/ Log!Record(t) \/ Log!Announce(t)
                                          \/ Log!Deliver(t) \/ Log!Destroy(t)
                    \/ UNCHANGED <<recorded, received, phase>>
  BY DEF Log!Next, Log!vars
<1>1. ASSUME NEW t \in Threads, Push(t)
      PROVE  Log!Record(t)
  <2>1. t \in started /\ pc[t] = "hook"
    BY <1>1 DEF Push, IInv, Registry
  <2>2. phase[t] = "live"
    BY <2>1, StartedLive
  <2>3. /\ recorded' = [recorded EXCEPT ![t] = recorded[t] + 1]
        /\ UNCHANGED <<received, phase>>
    BY <1>1 DEF Push, wireVars
  <2> QED
    BY <2>2, <2>3 DEF Log!Record
<1>2. ASSUME RecvRegister
      PROVE  \E t \in Threads : Log!Announce(t)
  <2>1. registration \in Seq(Threads) /\ registration # << >>
    BY <1>2 DEF IInv, TypeOK, RecvRegister
  <2>2. /\ Head(registration) \in Threads
        /\ 1 \in 1 .. Len(registration) /\ Head(registration) = registration[1]
    BY <2>1, TailShift
  <2>3. PICK t \in Threads : t = Head(registration)
    BY <2>2
  <2>4. phase[t] = "unknown"
    BY <2>2, <2>3 DEF IInv, Registry
  <2>5. phase' = [phase EXCEPT ![t] = "live"] /\ UNCHANGED <<recorded, received>>
    BY <1>2, <2>3 DEF RecvRegister, writerVars
  <2> QED
    BY <2>3, <2>4, <2>5 DEF Log!Announce
<1>3. ASSUME SendHand
      PROVE  \/ \E t \in Threads : Log!Deliver(t) \/ Log!Destroy(t)
             \/ UNCHANGED <<recorded, received, phase>>
  BY <1>3, SendHandDelivers
<1>4. ASSUME RecvData \/ ((Drain \/ LockedDrain) /\ data # << >>)
      PROVE  \E t \in Threads : Log!Deliver(t)
  <2>1. CASE RecvData
    BY <2>1, ShipHeadDelivers DEF RecvData, writerVars, gathererVars
  <2>2. CASE (Drain \/ LockedDrain) /\ data # << >>
    BY <2>2, ShipHeadDelivers DEF Drain, LockedDrain, DrainReceiver, writerVars
  <2> QED
    BY <1>4, <2>1, <2>2
<1>5. ASSUME NEW t \in Threads, ThreadNext(t), ~Push(t)
      PROVE  UNCHANGED <<recorded, received, phase>>
  BY <1>5 DEF ThreadNext, EnterHook, CloneHandle, SendRegister, AwaitStart,
              Flush, Exit, wireVars
<1>6. ASSUME \/ StartInstall \/ StartEnable
             \/ StopDisable \/ StopTake \/ StopSignal \/ StopJoin
      PROVE  UNCHANGED <<recorded, received, phase>>
  BY <1>6 DEF StartInstall, StartEnable, StopDisable, StopTake, StopSignal,
              StopJoin, wireVars
<1>7. ASSUME \/ GathererBoot \/ RecvTick \/ RecvShutdown \/ Capture \/ Visit
             \/ Swap \/ Stamp \/ Close
      PROVE  UNCHANGED <<recorded, received, phase>>
  BY <1>7 DEF GathererBoot, RecvTick, RecvShutdown, Capture, Visit, Swap, Stamp,
              Close, writerVars, wireVars
<1>8. ASSUME (Drain \/ LockedDrain) /\ data = << >>
      PROVE  UNCHANGED <<recorded, received, phase>>
  BY <1>8 DEF Drain, LockedDrain, DrainReceiver, ShipHead, writerVars
<1>9. CASE UNCHANGED vars
  BY <1>9 DEF vars, writerVars, wireVars
<1> QED
  BY <1>1, <1>2, <1>3, <1>4, <1>5, <1>6, <1>7, <1>8, <1>9
     DEF Next, RunNext, StopNext, GathererNext

\* The tracker, its buffers, channels and locks included, implements the log.
THEOREM TrackerImplementsLog == Spec => ImplementsLog
<1>1. Init => Log!Init
  BY DEF Init, Log!Init
<1> QED
  BY <1>1, LogStep, Invariance, PTL DEF Spec, ImplementsLog, Log!Spec

=============================================================================
