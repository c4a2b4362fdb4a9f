------------------------- MODULE TraceFramesProofs -------------------------
(***************************************************************************)
(* The invariants of TraceFrames, for all threads, stacks and bounds.      *)
(***************************************************************************)
EXTENDS TraceFrames, SequenceTheorems, WellFoundedInduction, TLAPS

USE TraceFramesAssumption DEF vars

-----------------------------------------------------------------------------
(* Induction over the natural numbers, about a set instead of a predicate. *)

LEMMA SetInduction ==
  ASSUME NEW S, 0 \in S, \A n \in Nat : n \in S => n + 1 \in S
  PROVE  Nat \subseteq S
<1> DEFINE R == {p \in Nat \X Nat : p[1] < p[2]}
           Missing == Nat \ S
<1>1. IsWellFoundedOn(R, Nat)
  BY NatLessThanWellFounded DEF OpToRel
<1>2. SUFFICES ASSUME Missing # {} PROVE FALSE
  OBVIOUS
<1>3. PICK x \in Missing : \A y \in Missing : ~(<<y, x>> \in R)
  <2> HIDE DEF R
  <2> QED BY <1>1, <1>2, WFMin
<1>4. x \in Nat /\ x # 0
  OBVIOUS
<1>5. x - 1 \in Nat /\ x - 1 < x
  BY <1>4
<1>6. x - 1 \notin Missing
  BY <1>3, <1>4, <1>5
<1>7. (x - 1) + 1 \in S
  BY <1>5, <1>6
<1> QED BY <1>4, <1>7

-----------------------------------------------------------------------------
(* A captured trace is a sequence of pointers. *)

Pointers == Ips \cup {Null}

LEMMA SizeInRange ==
  ASSUME NEW data, Len(data) \in Nat
  PROVE  Size(data) \in 0 .. Len(data)
<1> DEFINE Good(m, n) == /\ m \in 0 .. n
                         /\ m = 0 \/ data[m] # Null
                         /\ \A i \in m + 1 .. n : data[i] = Null
           S == {n \in Nat : \E m \in Nat : Good(m, n)}
<1>1. 0 \in S
  <2>1. Good(0, 0)
    OBVIOUS
  <2> QED BY <2>1
<1>2. ASSUME NEW n \in Nat, n \in S PROVE n + 1 \in S
  <2>1. PICK m \in Nat : Good(m, n)
    BY <1>2
  <2>2. CASE data[n + 1] = Null
    <3>1. Good(m, n + 1)
      BY <2>1, <2>2
    <3> QED BY <3>1
  <2>3. CASE data[n + 1] # Null
    <3>1. Good(n + 1, n + 1)
      BY <2>3
    <3> QED BY <3>1
  <2> QED BY <2>2, <2>3
<1>3. Nat \subseteq S
  <2> HIDE DEF S
  <2> QED BY <1>1, <1>2, SetInduction
<1>4. PICK m \in Nat : Good(m, Len(data))
  BY <1>3
<1> QED BY <1>4 DEF Size

LEMMA TracesType == Traces \subseteq Seq(Pointers)
<1> SUFFICES ASSUME NEW stack \in Stacks
             PROVE  Reverse(Deref(Filled(stack))) \in Seq(Pointers)
  BY DEF Traces
<1>1. PICK n \in 2 * Skip .. MaxStack : stack \in [1 .. n -> Pointers]
  BY DEF Stacks, Pointers
<1>2. n \in Nat /\ TraceMaxSize \in Int
  BY <1>1
<1>3. stack \in Seq(Pointers) /\ Len(stack) = n
  BY <1>1, <1>2
<1> DEFINE data == Filled(stack)
<1>4. data \in Seq(Pointers)
  <2>1. CASE Len(stack) > TraceMaxSize
    BY <1>2, <1>3, <2>1, SubSeqProperties DEF Filled
  <2>2. CASE ~(Len(stack) > TraceMaxSize)
    BY <1>3, <2>2 DEF Filled
  <2> QED BY <2>1, <2>2
<1> HIDE DEF data
<1>5. Size(data) \in 0 .. Len(data)
  BY <1>4, SizeInRange
<1>6. \A i \in Skip + 1 .. Size(data) - Skip : data[i] \in Pointers
  BY <1>4, <1>5
<1>7. Deref(data) \in Seq(Pointers)
  <2>1. Skip + 1 \in Int /\ Size(data) - Skip \in Int
    BY <1>4, <1>5
  <2> QED BY <1>6, <2>1, SubSeqProperties DEF Deref
<1> DEFINE d == Deref(data)
<1>8. \A i \in 1 .. Len(d) : d[(Len(d) - i) + 1] \in Pointers
  <2> HIDE DEF d
  <2> SUFFICES ASSUME d \in Seq(Pointers), NEW i \in 1 .. Len(d)
               PROVE  d[(Len(d) - i) + 1] \in Pointers
    BY <1>7 DEF d
  <2> QED OBVIOUS
<1>9. Reverse(d) \in Seq(Pointers)
  <2>1. Len(d) \in Nat
    BY <1>7
  <2> HIDE DEF d
  <2> QED BY <1>8, <2>1 DEF Reverse
<1> QED BY <1>9 DEF data

-----------------------------------------------------------------------------
(* A walk extends the tree of its thread, and reports what it adds. *)

Parented(frameList) == \A i \in 1 .. Len(frameList) : frameList[i].parent < i

\* What a walk that began in the tree base has done.
Walked(base, w) ==
  /\ w \in [tree : Seq(Frame), at : Nat, ip : Pointers, out : Seq(Instruction)]
  /\ w.at <= Len(w.tree)
  /\ w.ip = IF w.at = 0 THEN Null ELSE w.tree[w.at].ip
  /\ Len(w.tree) = Len(base) + Len(w.out)
  /\ \A i \in 1 .. Len(base) : w.tree[i] = base[i]
  /\ Parented(w.tree)
  /\ \A k \in 1 .. Len(w.out) :
       w.out[k] = [kind   |-> "stack",
                   parent |-> w.tree[Len(base) + k].parent,
                   ip     |-> w.tree[Len(base) + k].ip]

LEMMA DescendWalked ==
  ASSUME NEW base \in Seq(Frame), NEW w, Walked(base, w), NEW ip \in Pointers
  PROVE  Walked(base, Descend(w, ip))
<1> DEFINE frame == [parent |-> w.at, ip |-> ip]
           found == CHOOSE i \in DOMAIN w.tree : w.tree[i] = frame
           next == NextIndex(w.tree)
           told == [kind |-> "stack", parent |-> w.at, ip |-> ip]
<1>1. CASE ip = Null
  BY <1>1 DEF Descend
<1>2. ASSUME ip # Null, \E i \in DOMAIN w.tree : w.tree[i] = frame
      PROVE  Walked(base, Descend(w, ip))
  <2>1. found \in DOMAIN w.tree /\ w.tree[found] = frame
    BY <1>2
  <2> HIDE DEF found
  <2>2. Descend(w, ip) = [w EXCEPT !.at = found, !.ip = ip]
    BY <1>2 DEF Descend, found
  <2>3. w.tree \in Seq(Frame) /\ DOMAIN w.tree = 1 .. Len(w.tree)
    BY DEF Walked
  <2>4. found \in Nat /\ found <= Len(w.tree) /\ found # 0 /\ w.tree[found].ip = ip
    BY <2>1, <2>3
  <2> QED BY <2>2, <2>3, <2>4 DEF Walked
<1>3. ASSUME ip # Null, ~ \E i \in DOMAIN w.tree : w.tree[i] = frame
      PROVE  Walked(base, Descend(w, ip))
  <2> DEFINE longer == Append(w.tree, frame)
             more == Append(w.out, told)
  <2>1. Descend(w, ip) = [tree |-> longer, at |-> next, ip |-> ip, out |-> more]
    BY <1>3 DEF Descend
  <2>2. w.tree \in Seq(Frame) /\ w.out \in Seq(Instruction) /\ w.at \in Nat
        /\ Len(w.tree) \in Nat /\ Len(w.out) \in Nat
    BY DEF Walked
  <2>3. frame \in Frame /\ told \in Instruction
    BY <1>3, <2>2 DEF Frame, Instruction, Pointers
  <2>4. /\ longer \in Seq(Frame) /\ Len(longer) = Len(w.tree) + 1
        /\ \A i \in 1 .. Len(w.tree) : longer[i] = w.tree[i]
        /\ longer[Len(w.tree) + 1] = frame
    BY <2>2, <2>3, AppendProperties
  <2>5. /\ more \in Seq(Instruction) /\ Len(more) = Len(w.out) + 1
        /\ \A i \in 1 .. Len(w.out) : more[i] = w.out[i]
        /\ more[Len(w.out) + 1] = told
    BY <2>2, <2>3, AppendProperties
  <2>6. next = Len(w.tree) + 1
    BY DEF NextIndex
  <2> HIDE DEF longer, more, next
  <2>7. /\ Len(w.tree) = Len(base) + Len(w.out) /\ Len(base) \in Nat
        /\ w.at <= Len(w.tree)
    BY DEF Walked
  <2>8. \A i \in 1 .. Len(base) : longer[i] = base[i]
    BY <2>2, <2>4, <2>7 DEF Walked
  <2>9. Parented(longer)
    <3>1. ASSUME NEW i \in 1 .. Len(longer) PROVE longer[i].parent < i
      <4>1. CASE i \in 1 .. Len(w.tree)
        BY <2>4, <4>1 DEF Walked, Parented
      <4>2. CASE i = Len(w.tree) + 1
        BY <2>2, <2>4, <2>7, <4>2
      <4> QED BY <2>2, <2>4, <4>1, <4>2
    <3> QED BY <3>1 DEF Parented
  <2>10. ASSUME NEW k \in 1 .. Len(more)
         PROVE  more[k] = [kind   |-> "stack",
                           parent |-> longer[Len(base) + k].parent,
                           ip     |-> longer[Len(base) + k].ip]
    <3>1. CASE k = Len(w.out) + 1
      BY <2>2, <2>4, <2>5, <2>7, <3>1
    <3>2. CASE k \in 1 .. Len(w.out)
      <4>1. Len(base) + k \in 1 .. Len(w.tree)
        BY <2>2, <2>7, <3>2
      <4>2. longer[Len(base) + k] = w.tree[Len(base) + k] /\ more[k] = w.out[k]
        BY <2>4, <2>5, <3>2, <4>1
      <4> QED BY <3>2, <4>2 DEF Walked
    <3> QED BY <2>2, <2>5, <3>1, <3>2
  <2>11. longer[next].ip = ip /\ next # 0 /\ next \in Nat /\ next <= Len(longer)
    BY <2>2, <2>4, <2>6
  <2>12. /\ longer \in Seq(Frame) /\ more \in Seq(Instruction)
         /\ Len(longer) = Len(base) + Len(more)
    BY <2>2, <2>4, <2>5, <2>7
  <2> DEFINE d == [tree |-> longer, at |-> next, ip |-> ip, out |-> more]
  <2>13. d \in [tree : Seq(Frame), at : Nat, ip : Pointers, out : Seq(Instruction)]
    BY <2>11, <2>12
  <2>14. Walked(base, d)
    <3> HIDE DEF frame, told
    <3> QED BY <2>8, <2>9, <2>10, <2>11, <2>12, <2>13 DEF Walked
  <2> QED BY <2>1, <2>14
<1> QED BY <1>1, <1>2, <1>3

\* The recursion in Walk has a solution, and every step of it is a Descend.
LEMMA WalkWalked ==
  ASSUME NEW t, tree[t] \in Seq(Frame), Parented(tree[t]),
         NEW trace \in Seq(Pointers)
  PROVE  Walked(tree[t], Walk(t, trace))
<1> DEFINE start == [tree |-> tree[t], at |-> 0, ip |-> Null, out |-> << >>]
           Solves(f, n) == f = [i \in 0 .. n |-> IF i = 0 THEN start
                                                 ELSE Descend(f[i - 1], trace[i])]
           S == {n \in Nat : \E f : Solves(f, n)}
<1>1. 0 \in S
  <2>1. Solves([i \in 0 .. 0 |-> start], 0)
    OBVIOUS
  <2> QED BY <2>1
<1>2. ASSUME NEW n \in Nat, n \in S PROVE n + 1 \in S
  <2>1. PICK f : Solves(f, n)
    BY <1>2
  <2> DEFINE g == [i \in 0 .. n + 1 |-> IF i <= n THEN f[i]
                                        ELSE Descend(f[n], trace[n + 1])]
  <2>2. \A i \in 0 .. n + 1 : g[i] = IF i = 0 THEN start
                                     ELSE Descend(g[i - 1], trace[i])
    BY <2>1
  <2>3. Solves(g, n + 1)
    BY <2>2
  <2> HIDE DEF g
  <2>4. \E h : Solves(h, n + 1)
    BY <2>3
  <2> HIDE DEF Solves
  <2> QED BY <2>4
<1>3. Nat \subseteq S
  <2> HIDE DEF S
  <2> QED BY <1>1, <1>2, SetInduction
<1> DEFINE walk == CHOOSE f : Solves(f, Len(trace))
<1>4. Len(trace) \in Nat
  OBVIOUS
<1>5. Solves(walk, Len(trace))
  BY <1>3, <1>4
<1>6. Walk(t, trace) = walk[Len(trace)]
  BY DEF Walk
<1> HIDE DEF walk
<1> DEFINE W == {n \in Nat : n <= Len(trace) => Walked(tree[t], walk[n])}
<1>7. 0 \in W
  <2>1. walk[0] = start
    BY <1>4, <1>5
  <2>2. Walked(tree[t], start)
    BY DEF Walked, Pointers
  <2> QED BY <2>1, <2>2
<1>8. ASSUME NEW n \in Nat, n \in W PROVE n + 1 \in W
  <2>1. SUFFICES ASSUME n + 1 <= Len(trace) PROVE Walked(tree[t], walk[n + 1])
    OBVIOUS
  <2>2. walk[n + 1] = Descend(walk[n], trace[n + 1])
    BY <1>4, <1>5, <2>1
  <2>3. Walked(tree[t], walk[n]) /\ trace[n + 1] \in Pointers
    BY <1>4, <1>8, <2>1
  <2> QED BY <2>2, <2>3, DescendWalked
<1>9. Nat \subseteq W
  <2> HIDE DEF W
  <2> QED BY <1>7, <1>8, SetInduction
<1> QED BY <1>4, <1>6, <1>9

-----------------------------------------------------------------------------
(* The inductive invariant. *)

\* A frame's parent was met before it.
Treed == \A t \in Threads : Parented(tree[t])

\* A written frame has a parent that was written, or is at the root.
Linked == \A g \in 1 .. Len(frames) : frames[g].parent <= Len(frames)

\* A node for every written frame, and the children under their frames' pointers.
Nodes ==
  /\ Len(children) = Len(frames) + 1
  /\ \A n \in DOMAIN children : \A i \in DOMAIN children[n] :
       frames[children[n][i].index].ip = children[n][i].ip

\* The table of a thread translates its first frames, each to one with its pointer.
Counted ==
  \A t \in Threads :
    /\ Len(known[t]) \in 1 .. Len(tree[t]) + 1
    /\ known[t][1] = 0
    /\ \A i \in 2 .. Len(known[t]) :
         /\ known[t][i] \in 1 .. Len(frames)
         /\ frames[known[t][i]].ip = tree[t][i - 1].ip

\* An instruction that finds size entries in the table of its thread: a frame is
\* the next one of the thread's tree, an event is about an earlier one.
IpIn(frameList, i) == IF i = 0 THEN Null ELSE frameList[i].ip
Fits(frameList, s, size) ==
  IF s.kind = "stack"
  THEN size <= Len(frameList) /\ frameList[size] = [parent |-> s.parent, ip |-> s.ip]
  ELSE /\ s.index < size
       /\ Len(frameList) < IndexLimit => s.ip = IpIn(frameList, s.index)

\* The sizes the table of a thread goes through as the instructions in q are
\* translated, until it has all the frames.
Increment(s) == IF s.kind = "stack" THEN 1 ELSE 0
Sizes(frameList, size, q, count) ==
  /\ count \in [0 .. Len(q) -> 1 .. Len(frameList) + 1]
  /\ count[0] = size
  /\ count[Len(q)] = Len(frameList) + 1
  /\ \A i \in 1 .. Len(q) :
       /\ count[i] = count[i - 1] + Increment(q[i])
       /\ Fits(frameList, q[i], count[i - 1])

\* The table of a thread that may still be used counts as the thread did.
Finished(t) == t \in ended /\ queue[t] = << >>
Announced ==
  \A t \in Threads :
    ~Finished(t) => \E count : Sizes(tree[t], Len(known[t]), queue[t], count)

IInv ==
  /\ TypeOK
  /\ Treed
  /\ Linked
  /\ Nodes
  /\ Counted
  /\ Announced
  /\ LookupSucceeds
  /\ RealCalls

-----------------------------------------------------------------------------
(* Tables and trees that grow. *)

\* A longer list of frames that begins with the shorter one.
Extends(longer, frameList) ==
  /\ Len(frameList) <= Len(longer)
  /\ \A i \in 1 .. Len(frameList) : longer[i] = frameList[i]

\* The first instruction of a queue is translated.
LEMMA SizesTail ==
  ASSUME NEW frameList \in Seq(Frame), NEW size, NEW q \in Seq(Instruction), q # << >>,
         NEW count, Sizes(frameList, size, q, count)
  PROVE  /\ size \in 1 .. Len(frameList) + 1
         /\ Fits(frameList, Head(q), size)
         /\ \E c : Sizes(frameList, size + Increment(Head(q)), Tail(q), c)
<1>1. /\ Len(q) \in Nat /\ Len(q) >= 1 /\ Head(q) = q[1]
      /\ Tail(q) \in Seq(Instruction) /\ Len(Tail(q)) = Len(q) - 1
      /\ \A i \in 1 .. Len(Tail(q)) : Tail(q)[i] = q[i + 1]
  BY HeadTailProperties
<1> DEFINE rest == Tail(q)
           c == [i \in 0 .. Len(rest) |-> count[i + 1]]
<1>2. count[0] = size /\ size \in 1 .. Len(frameList) + 1
  BY <1>1 DEF Sizes
<1>3. Fits(frameList, Head(q), size)
  <2>1. 1 \in 1 .. Len(q) /\ 1 - 1 = 0
    BY <1>1
  <2> QED BY <1>1, <1>2, <2>1 DEF Sizes
<1>4. count[1] = size + Increment(Head(q))
  <2>1. 1 \in 1 .. Len(q) /\ 1 - 1 = 0
    BY <1>1
  <2> QED BY <1>1, <1>2, <2>1 DEF Sizes
<1> HIDE DEF rest
<1>5. c \in [0 .. Len(rest) -> 1 .. Len(frameList) + 1]
  BY <1>1 DEF Sizes, rest
<1>6. c[0] = size + Increment(Head(q)) /\ c[Len(rest)] = Len(frameList) + 1
  BY <1>1, <1>4 DEF Sizes, rest
<1>7. ASSUME NEW i \in 1 .. Len(rest)
      PROVE  /\ c[i] = c[i - 1] + Increment(rest[i])
             /\ Fits(frameList, rest[i], c[i - 1])
  <2>1. /\ i + 1 \in 1 .. Len(q) /\ (i + 1) - 1 = i /\ rest[i] = q[i + 1]
        /\ c[i] = count[i + 1] /\ c[i - 1] = count[i]
    BY <1>1 DEF rest
  <2> HIDE DEF c
  <2> QED BY <2>1 DEF Sizes
<1>8. Sizes(frameList, size + Increment(Head(q)), rest, c)
  <2> HIDE DEF c
  <2> QED BY <1>5, <1>6, <1>7 DEF Sizes
<1> QED BY <1>2, <1>3, <1>8 DEF rest

\* An instruction that fits a list fits a longer one.
LEMMA FitsLonger ==
  ASSUME NEW frameList \in Seq(Frame), NEW longer \in Seq(Frame),
         Extends(longer, frameList), NEW s \in Instruction,
         NEW size \in Nat \ {0}, size <= Len(frameList) + 1, Fits(frameList, s, size)
  PROVE  Fits(longer, s, size)
<1>1. CASE s.kind = "stack"
  BY <1>1 DEF Fits, Extends
<1>2. CASE s.kind # "stack"
  <2>1. s.index \in Nat
    BY <1>2 DEF Instruction
  <2>2. s.index < size /\ Len(longer) \in Nat /\ Len(frameList) \in Nat
    BY <1>2 DEF Fits
  <2>3. IpIn(longer, s.index) = IpIn(frameList, s.index)
    <3>1. CASE s.index = 0
      BY <3>1 DEF IpIn
    <3>2. CASE s.index # 0
      <4>1. s.index \in 1 .. Len(frameList)
        BY <2>1, <2>2, <3>2
      <4> QED BY <3>2, <4>1 DEF IpIn, Extends
    <3> QED BY <3>1, <3>2
  <2> QED BY <1>2, <2>2, <2>3 DEF Fits, Extends
<1> QED BY <1>1, <1>2

LEMMA TruncatedIndex ==
  ASSUME NEW i \in Nat
  PROVE  /\ Truncated(i) \in Nat
         /\ Truncated(i) <= i
         /\ i < IndexLimit => Truncated(i) = i
  BY DEF Truncated

LEMMA ConcatAppend ==
  ASSUME NEW S, NEW q \in Seq(S), NEW r \in Seq(S), NEW e \in S
  PROVE  LET longer == q \o Append(r, e) IN
         /\ longer \in Seq(S) /\ Len(longer) = Len(q) + Len(r) + 1
         /\ \A i \in 1 .. Len(q) : longer[i] = q[i]
         /\ \A k \in 1 .. Len(r) : longer[Len(q) + k] = r[k]
         /\ longer[Len(q) + Len(r) + 1] = e
<1> DEFINE out == Append(r, e)
<1>1. /\ out \in Seq(S) /\ Len(out) = Len(r) + 1 /\ out[Len(r) + 1] = e
      /\ \A k \in 1 .. Len(r) : out[k] = r[k]
  BY AppendProperties
<1>2. Len(q) \in Nat /\ Len(r) \in Nat
  OBVIOUS
<1> HIDE DEF out
<1>3. /\ q \o out \in Seq(S) /\ Len(q \o out) = Len(q) + Len(out)
      /\ \A i \in 1 .. Len(q) + Len(out) :
           (q \o out)[i] = IF i <= Len(q) THEN q[i] ELSE out[i - Len(q)]
  BY <1>1, ConcatProperties
<1>4. \A i \in 1 .. Len(q) : (q \o out)[i] = q[i]
  BY <1>1, <1>2, <1>3
<1>5. ASSUME NEW k \in 1 .. Len(r) + 1 PROVE (q \o out)[Len(q) + k] = out[k]
  BY <1>1, <1>2, <1>3
<1> QED BY <1>1, <1>2, <1>3, <1>4, <1>5 DEF out

\* The instructions of a hook fit behind those that are under way: the frames
\* that the tree has got, and an event about a frame of the longer tree.
LEMMA SizesLonger ==
  ASSUME NEW base \in Seq(Frame), NEW longer \in Seq(Frame), Extends(longer, base),
         NEW out \in Seq(Instruction), Len(longer) = Len(base) + Len(out),
         \A k \in 1 .. Len(out) :
           /\ out[k].kind = "stack"
           /\ longer[Len(base) + k] = [parent |-> out[k].parent, ip |-> out[k].ip],
         NEW event \in Instruction, event.kind = "event",
         Fits(longer, event, Len(longer) + 1),
         NEW size, NEW q \in Seq(Instruction),
         NEW count, Sizes(base, size, q, count)
  PROVE  \E c : Sizes(longer, size, q \o Append(out, event), c)
<1> DEFINE all == q \o Append(out, event)
           n == Len(q)
           m == Len(out)
           b == Len(base)
           c == [i \in 0 .. n + m + 1 |->
                   IF i <= n THEN count[i]
                   ELSE IF i <= n + m THEN b + 1 + (i - n) ELSE b + 1 + m]
<1>1. /\ all \in Seq(Instruction) /\ Len(all) = n + m + 1
      /\ \A i \in 1 .. n : all[i] = q[i]
      /\ \A k \in 1 .. m : all[n + k] = out[k]
      /\ all[n + m + 1] = event
  BY ConcatAppend
<1>2. n \in Nat /\ m \in Nat /\ b \in Nat /\ Len(longer) = b + m
  OBVIOUS
<1>3. /\ count \in [0 .. n -> 1 .. b + 1] /\ count[0] = size /\ count[n] = b + 1
      /\ \A i \in 1 .. n : /\ count[i] = count[i - 1] + Increment(q[i])
                           /\ Fits(base, q[i], count[i - 1])
  BY DEF Sizes
<1>4. \A k \in 1 .. m :
        /\ out[k].kind = "stack"
        /\ longer[b + k] = [parent |-> out[k].parent, ip |-> out[k].ip]
  OBVIOUS
<1>5. \A i \in 1 .. n : q[i] \in Instruction
  OBVIOUS
<1> HIDE DEF all, n, m, b
<1>6. c \in [0 .. n + m + 1 -> 1 .. b + m + 1]
  BY <1>2, <1>3
<1>7. c[0] = size /\ c[n + m + 1] = b + m + 1
  BY <1>2, <1>3
<1>8. ASSUME NEW i \in 1 .. n
      PROVE  c[i] = c[i - 1] + Increment(all[i]) /\ Fits(longer, all[i], c[i - 1])
  <2>1. c[i] = count[i] /\ c[i - 1] = count[i - 1] /\ all[i] = q[i]
    <3>1. i \in 0 .. n + m + 1 /\ i - 1 \in 0 .. n + m + 1 /\ i <= n /\ i - 1 <= n
      BY <1>2
    <3> QED BY <1>1, <3>1
  <2>2. count[i - 1] \in Nat \ {0} /\ count[i - 1] <= b + 1
    <3>1. i - 1 \in 0 .. n
      BY <1>2
    <3>2. count[i - 1] \in 1 .. b + 1
      BY <1>3, <3>1
    <3> QED BY <1>2, <3>2
  <2> HIDE DEF c
  <2>3. Fits(longer, q[i], count[i - 1])
    BY <1>3, <1>5, <2>2, FitsLonger DEF b
  <2> QED BY <1>3, <2>1, <2>3
<1>9. ASSUME NEW k \in 1 .. m
      PROVE  /\ c[n + k] = c[n + k - 1] + Increment(all[n + k])
             /\ Fits(longer, all[n + k], c[n + k - 1])
  <2>1. c[n + k] = b + 1 + k
    BY <1>2
  <2>2. c[n + k - 1] = b + k
    <3>1. CASE k = 1
      BY <1>2, <1>3, <3>1
    <3>2. CASE k # 1
      <4>1. n + k - 1 \in 0 .. n + m + 1 /\ ~(n + k - 1 <= n) /\ n + k - 1 <= n + m
        BY <1>2, <3>2
      <4>2. b + 1 + ((n + k - 1) - n) = b + k
        BY <1>2
      <4> QED BY <4>1, <4>2
    <3> QED BY <3>1, <3>2
  <2> HIDE DEF c
  <2>3. all[n + k] = out[k] /\ b + k <= Len(longer)
    <3>1. all[n + k] = out[k]
      BY <1>1
    <3>2. b + k <= Len(longer)
      BY <1>2
    <3> QED BY <3>1, <3>2
  <2>4. Increment(out[k]) = 1 /\ Fits(longer, out[k], b + k)
    BY <1>4, <2>3 DEF Fits, Increment
  <2> QED BY <1>2, <2>1, <2>2, <2>3, <2>4
<1>10. /\ c[n + m + 1] = c[n + m] + Increment(all[n + m + 1])
       /\ Fits(longer, all[n + m + 1], c[n + m])
  <2>1. c[n + m + 1] = b + 1 + m /\ c[n + m] = b + 1 + m
    <3>1. CASE m = 0
      BY <1>2, <1>3, <3>1
    <3>2. CASE m # 0
      BY <1>2, <3>2
    <3> QED BY <3>1, <3>2
  <2> HIDE DEF c
  <2>2. Increment(event) = 0
    BY DEF Increment
  <2>3. Fits(longer, event, b + 1 + m)
    <3>1. b + 1 + m = Len(longer) + 1
      BY <1>2
    <3> QED BY <3>1
  <2>4. b + 1 + m \in Nat
    BY <1>2
  <2> QED BY <1>1, <2>1, <2>2, <2>3, <2>4
<1> HIDE DEF c
<1>11. ASSUME NEW i \in 1 .. n + m + 1
       PROVE  c[i] = c[i - 1] + Increment(all[i]) /\ Fits(longer, all[i], c[i - 1])
  <2>1. CASE i \in 1 .. n
    BY <1>8, <2>1
  <2>2. CASE i - n \in 1 .. m
    <3>1. PICK k \in 1 .. m : i = n + k
      BY <1>2, <2>2
    <3>2. i - 1 = n + k - 1
      BY <1>2, <3>1
    <3> QED BY <1>9, <3>1, <3>2
  <2>3. CASE i = n + m + 1
    <3>1. (n + m + 1) - 1 = n + m
      BY <1>2
    <3> QED BY <1>10, <2>3, <3>1
  <2> QED BY <1>2, <2>1, <2>2, <2>3
<1>12. Sizes(longer, size, all, c)
  BY <1>1, <1>2, <1>6, <1>7, <1>11 DEF Sizes
<1> QED BY <1>12 DEF all

-----------------------------------------------------------------------------
(* The steps. *)

\* A hook lengthens its thread's tree, and announces what it adds.
LEMMA HookAnnounces ==
  ASSUME TypeOK, Treed, NEW t \in Threads, Hook(t)
  PROVE  \E longer \in Seq(Frame), all \in Seq(Instruction) :
           /\ t \notin ended
           /\ Extends(longer, tree[t]) /\ Parented(longer)
           /\ tree' = [tree EXCEPT ![t] = longer]
           /\ queue' = [queue EXCEPT ![t] = all]
           /\ \A size, count : Sizes(tree[t], size, queue[t], count)
                                 => \E c : Sizes(longer, size, all, c)
<1>1. PICK trace \in Traces :
        LET walk == Walk(t, trace)
            event == [kind |-> "event", index |-> Truncated(walk.at), ip |-> walk.ip]
        IN
        /\ t \notin ended
        /\ tree' = [tree EXCEPT ![t] = walk.tree]
        /\ queue' = [queue EXCEPT ![t] = @ \o Append(walk.out, event)]
  BY DEF Hook
<1> DEFINE w == Walk(t, trace)
           base == tree[t]
           event == [kind |-> "event", index |-> Truncated(w.at), ip |-> w.ip]
<1>2. tree[t] \in Seq(Frame) /\ Parented(tree[t]) /\ queue[t] \in Seq(Instruction)
  BY DEF TypeOK, Treed
<1>3. Walked(base, w)
  BY <1>2, TracesType, WalkWalked
<1> HIDE DEF w, base
<1>4. /\ w.tree \in Seq(Frame) /\ w.at \in Nat /\ w.ip \in Pointers
      /\ w.out \in Seq(Instruction) /\ w.at <= Len(w.tree)
      /\ Len(w.tree) = Len(base) + Len(w.out)
      /\ Extends(w.tree, base) /\ Parented(w.tree)
      /\ w.ip = IpIn(w.tree, w.at)
      /\ base \in Seq(Frame)
  BY <1>2, <1>3 DEF Walked, Extends, IpIn, base
<1>5. event \in Instruction /\ event.kind = "event"
  BY <1>4, TruncatedIndex DEF Instruction, Pointers
<1>6. Fits(w.tree, event, Len(w.tree) + 1)
  <2>1. event.kind = "event" /\ event.index = Truncated(w.at) /\ event.ip = w.ip
    OBVIOUS
  <2> HIDE DEF event
  <2>2. /\ Truncated(w.at) < Len(w.tree) + 1
        /\ Len(w.tree) < IndexLimit => Truncated(w.at) = w.at
    <3>1. /\ Truncated(w.at) \in Nat /\ Truncated(w.at) <= w.at
          /\ w.at < IndexLimit => Truncated(w.at) = w.at
      BY <1>4, TruncatedIndex
    <3>2. Len(w.tree) \in Nat
      BY <1>4
    <3> QED BY <1>4, <3>1, <3>2
  <2> QED BY <1>4, <2>1, <2>2 DEF Fits
<1>7. ASSUME NEW k \in 1 .. Len(w.out)
      PROVE  /\ w.out[k].kind = "stack"
             /\ w.tree[Len(base) + k] = [parent |-> w.out[k].parent, ip |-> w.out[k].ip]
  <2> DEFINE r == w.tree[Len(base) + k]
  <2>1. r \in Frame
    <3>1. Len(base) + k \in 1 .. Len(w.tree)
      BY <1>4
    <3> QED BY <1>4, <3>1
  <2>2. w.out[k] = [kind |-> "stack", parent |-> r.parent, ip |-> r.ip]
    BY <1>3 DEF Walked
  <2> HIDE DEF r
  <2>3. w.out[k].kind = "stack" /\ r = [parent |-> w.out[k].parent, ip |-> w.out[k].ip]
    BY <2>1, <2>2 DEF Frame
  <2> QED BY <2>3 DEF r
<1> DEFINE all == queue[t] \o Append(w.out, event)
<1>8. all \in Seq(Instruction)
  BY <1>2, <1>4, <1>5, ConcatAppend
<1>9. ASSUME NEW size, NEW count, Sizes(base, size, queue[t], count)
      PROVE  \E c : Sizes(w.tree, size, all, c)
  <2> HIDE DEF event
  <2> QED BY <1>2, <1>4, <1>5, <1>6, <1>7, <1>9, SizesLonger
<1>10. tree' = [tree EXCEPT ![t] = w.tree] /\ queue' = [queue EXCEPT ![t] = all]
  BY <1>1 DEF w
<1> HIDE DEF all
<1> QED BY <1>1, <1>4, <1>8, <1>9, <1>10 DEF base

LEMMA HookInv ==
  ASSUME IInv, NEW t \in Threads, Hook(t)
  PROVE  IInv'
<1>1. PICK longer \in Seq(Frame), all \in Seq(Instruction) :
        /\ t \notin ended
        /\ Extends(longer, tree[t]) /\ Parented(longer)
        /\ tree' = [tree EXCEPT ![t] = longer]
        /\ queue' = [queue EXCEPT ![t] = all]
        /\ \A size, count : Sizes(tree[t], size, queue[t], count)
                              => \E c : Sizes(longer, size, all, c)
  BY HookAnnounces DEF IInv
<1>2. UNCHANGED <<ended, children, known, frames, panicked>>
  BY DEF Hook
<1>3. TypeOK /\ tree[t] \in Seq(Frame)
  BY DEF IInv, TypeOK
<1>4. TypeOK'
  BY <1>1, <1>2, <1>3 DEF TypeOK
<1>5. \A u \in Threads : /\ u # t => tree'[u] = tree[u] /\ queue'[u] = queue[u]
                         /\ Extends(tree'[u], tree[u])
  BY <1>1, <1>3 DEF TypeOK, Extends
<1>6. tree'[t] = longer /\ queue'[t] = all
  BY <1>1, <1>3 DEF TypeOK
<1>7. Treed'
  BY <1>1, <1>5, <1>6 DEF IInv, Treed
<1>8. Linked' /\ Nodes' /\ LookupSucceeds'
  BY <1>2 DEF IInv, Linked, Nodes, LookupSucceeds
<1>9. Counted'
  <2> SUFFICES ASSUME NEW u \in Threads
               PROVE  /\ Len(known[u]) \in 1 .. Len(tree'[u]) + 1
                      /\ known[u][1] = 0
                      /\ \A i \in 2 .. Len(known[u]) :
                           /\ known[u][i] \in 1 .. Len(frames)
                           /\ frames[known[u][i]].ip = tree'[u][i - 1].ip
    BY <1>2 DEF Counted
  <2>1. /\ Len(known[u]) \in 1 .. Len(tree[u]) + 1
        /\ known[u][1] = 0
        /\ \A i \in 2 .. Len(known[u]) :
             /\ known[u][i] \in 1 .. Len(frames)
             /\ frames[known[u][i]].ip = tree[u][i - 1].ip
    BY DEF IInv, Counted
  <2>2. Len(tree[u]) \in Nat /\ Len(tree'[u]) \in Nat /\ Len(tree[u]) <= Len(tree'[u])
    BY <1>3, <1>4, <1>5, SMTT(30) DEF TypeOK, Extends
  <2>3. Len(known[u]) \in 1 .. Len(tree'[u]) + 1
    BY <2>1, <2>2
  <2>4. ASSUME NEW i \in 2 .. Len(known[u])
        PROVE  tree'[u][i - 1] = tree[u][i - 1]
    <3>1. i - 1 \in 1 .. Len(tree[u])
      BY <2>1, <2>2
    <3> QED BY <1>5, <3>1 DEF Extends
  <2> QED BY <2>1, <2>3, <2>4
<1>10. Announced'
  <2> SUFFICES ASSUME NEW u \in Threads, ~Finished(u)'
               PROVE  \E c : Sizes(tree'[u], Len(known[u]), queue'[u], c)
    BY <1>2 DEF Announced
  <2>1. CASE u = t
    <3>1. ~Finished(t)
      BY <1>1 DEF Finished
    <3>2. PICK count : Sizes(tree[t], Len(known[t]), queue[t], count)
      BY <3>1 DEF IInv, Announced
    <3> QED BY <1>1, <1>6, <2>1, <3>2
  <2>2. CASE u # t
    <3>1. ~Finished(u)
      BY <1>2, <1>5, <2>2 DEF Finished
    <3> QED BY <1>5, <2>2, <3>1 DEF IInv, Announced
  <2> QED BY <2>1, <2>2
<1>11. RealCalls'
  <2> SUFFICES ASSUME NEW g \in DOMAIN frames
               PROVE  \E u \in Threads : \E i \in DOMAIN tree'[u] :
                        /\ tree'[u][i].ip = frames[g].ip
                        /\ IpIn(tree'[u], tree'[u][i].parent) = GlobalIp(frames[g].parent)
    BY <1>2 DEF RealCalls, GlobalIp, LocalIp, IpIn
  <2>1. PICK u \in Threads : \E i \in DOMAIN tree[u] :
          /\ tree[u][i].ip = frames[g].ip
          /\ IpIn(tree[u], tree[u][i].parent) = GlobalIp(frames[g].parent)
    BY DEF IInv, RealCalls, LocalIp, IpIn
  <2>2. PICK i \in DOMAIN tree[u] :
          /\ tree[u][i].ip = frames[g].ip
          /\ IpIn(tree[u], tree[u][i].parent) = GlobalIp(frames[g].parent)
    BY <2>1
  <2>3. tree[u] \in Seq(Frame) /\ tree'[u] \in Seq(Frame) /\ Extends(tree'[u], tree[u])
    BY <1>3, <1>4, <1>5 DEF TypeOK
  <2>4. Parented(tree[u])
    BY DEF IInv, Treed
  <2>5. i \in 1 .. Len(tree[u]) /\ Len(tree[u]) \in Nat /\ Len(tree'[u]) \in Nat
    BY <2>3
  <2>6. i \in DOMAIN tree'[u] /\ tree'[u][i] = tree[u][i]
    BY <2>3, <2>5 DEF Extends
  <2>7. tree[u][i].parent \in Nat /\ tree[u][i].parent < i
    <3>1. tree[u][i] \in Frame
      BY <2>3, <2>5
    <3> QED BY <2>4, <2>5, <3>1 DEF Frame, Parented
  <2>8. IpIn(tree'[u], tree[u][i].parent) = IpIn(tree[u], tree[u][i].parent)
    <3> DEFINE j == tree[u][i].parent
    <3>1. j # 0 => j \in 1 .. Len(tree[u])
      BY <2>5, <2>7
    <3> HIDE DEF j
    <3>2. IpIn(tree'[u], j) = IpIn(tree[u], j)
      BY <2>3, <3>1 DEF IpIn, Extends
    <3> QED BY <3>2 DEF j
  <2> QED BY <2>2, <2>6, <2>8
<1> QED BY <1>4, <1>7, <1>8, <1>9, <1>10, <1>11 DEF IInv

\* What the gatherer finds when it takes the next instruction of a thread: the
\* table has the frame it looks up, and there is a node for that frame.
LEMMA TranslateFinds ==
  ASSUME IInv, NEW t \in Threads, queue[t] # << >>
  PROVE  LET s == Head(queue[t])
             i == IF s.kind = "stack" THEN s.parent ELSE s.index
         IN
         /\ s \in Instruction /\ i \in Nat
         /\ Fits(tree[t], s, Len(known[t]))
         /\ Knows(t, i)
         /\ i = 0 => Lookup(t, i) = 0
         /\ i # 0 => /\ i \in 1 .. Len(tree[t])
                     /\ Lookup(t, i) \in 1 .. Len(frames)
                     /\ frames[Lookup(t, i)].ip = tree[t][i].ip
<1> DEFINE s == Head(queue[t])
           i == IF s.kind = "stack" THEN s.parent ELSE s.index
           size == Len(known[t])
<1>1. /\ tree[t] \in Seq(Frame) /\ queue[t] \in Seq(Instruction) /\ Parented(tree[t])
      /\ known[t] \in Seq({0} \cup DOMAIN frames)
  BY DEF IInv, TypeOK, Treed
<1>2. /\ size \in 1 .. Len(tree[t]) + 1 /\ known[t][1] = 0
      /\ \A j \in 2 .. size : /\ known[t][j] \in 1 .. Len(frames)
                              /\ frames[known[t][j]].ip = tree[t][j - 1].ip
  BY DEF IInv, Counted
<1>3. PICK count : Sizes(tree[t], size, queue[t], count)
  BY DEF IInv, Announced, Finished
<1>4. Fits(tree[t], s, size) /\ s \in Instruction
  BY <1>1, <1>3, SizesTail, HeadTailProperties
<1> HIDE DEF s, size
<1>5. i \in Nat /\ i < size
  <2>1. CASE s.kind = "stack"
    <3>1. s.parent \in Nat /\ size \in 1 .. Len(tree[t])
      BY <1>1, <1>2, <1>4, <2>1 DEF Instruction, Fits
    <3>2. tree[t][size].parent = s.parent
      BY <1>4, <2>1 DEF Fits
    <3> QED BY <1>1, <2>1, <3>1, <3>2 DEF Parented
  <2>2. CASE s.kind # "stack"
    BY <1>4, <2>2 DEF Instruction, Fits
  <2> QED BY <2>1, <2>2
<1> HIDE DEF i
<1>6. i + 1 \in 1 .. size /\ DOMAIN known[t] = 1 .. size /\ Len(tree[t]) \in Nat
  BY <1>1, <1>2, <1>5 DEF size
<1>7. Knows(t, i)
  BY <1>6 DEF Knows
<1>8. i = 0 => Lookup(t, i) = 0
  BY <1>2 DEF Lookup
<1>9. ASSUME i # 0
      PROVE  /\ i \in 1 .. Len(tree[t])
             /\ Lookup(t, i) \in 1 .. Len(frames)
             /\ frames[Lookup(t, i)].ip = tree[t][i].ip
  <2>1. i + 1 \in 2 .. size /\ (i + 1) - 1 = i /\ i \in 1 .. Len(tree[t])
    BY <1>2, <1>5, <1>6, <1>9
  <2>2. /\ known[t][i + 1] \in 1 .. Len(frames)
        /\ frames[known[t][i + 1]].ip = tree[t][i].ip
    BY <1>2, <2>1
  <2> QED BY <2>1, <2>2 DEF Lookup
<1> QED BY <1>4, <1>5, <1>7, <1>8, <1>9 DEF s, i, size

LEMMA ElementInSet ==
  ASSUME NEW S, NEW seq \in Seq(S), NEW i \in DOMAIN seq
  PROVE  seq[i] \in S
  OBVIOUS

\* The table of a thread gets the global index of its next frame.
Counts(t, g) ==
  LET s == Head(queue[t]) IN
  /\ g \in 1 .. Len(frames')
  /\ frames'[g].ip = s.ip
  /\ known' = [known EXCEPT ![t] = Append(@, g)]
  /\ frames' \in Seq(Frame)
  /\ Extends(frames', frames)
  /\ children' \in Seq(Seq([ip : Ips, index : 1 .. Len(frames')]))
  /\ Linked' /\ Nodes' /\ RealCalls'

LEMMA FoundCounts ==
  ASSUME IInv, NEW t \in Threads, queue[t] # << >>, Head(queue[t]).kind = "stack",
         tree' = tree, PushFound(t, Head(queue[t]))
  PROVE  \E g : Counts(t, g)
<1> DEFINE s == Head(queue[t])
           parent == GlobalParent(t, s)
<1>1. PICK i \in Matching(parent, s.ip) :
        /\ known' = [known EXCEPT ![t] = Append(@, children[parent + 1][i].index)]
        /\ UNCHANGED <<children, frames>>
  BY DEF PushFound
<1> DEFINE g == children[parent + 1][i].index
<1>2. parent \in 0 .. Len(frames)
  <2>1. frames \in Seq(Frame)
    BY DEF IInv, TypeOK
  <2> QED BY <2>1, TranslateFinds, SMTT(30) DEF GlobalParent
<1>3. parent + 1 \in DOMAIN children
  <2>1. children \in Seq(Seq([ip : Ips, index : DOMAIN frames])) /\ frames \in Seq(Frame)
    BY DEF IInv, TypeOK
  <2>2. Len(children) = Len(frames) + 1
    BY DEF IInv, Nodes
  <2> QED BY <1>2, <2>1, <2>2
<1>4. i \in DOMAIN children[parent + 1] /\ children[parent + 1][i].ip = s.ip
  BY <1>1 DEF Matching
<1>5. g \in 1 .. Len(frames) /\ frames[g].ip = s.ip
  <2>1. children \in Seq(Seq([ip : Ips, index : DOMAIN frames])) /\ frames \in Seq(Frame)
    BY DEF IInv, TypeOK
  <2> HIDE DEF parent, s
  <2>2. children[parent + 1] \in Seq([ip : Ips, index : DOMAIN frames])
    BY <1>3, <2>1
  <2>3. children[parent + 1][i] \in [ip : Ips, index : DOMAIN frames]
    BY <1>4, <2>2, ElementInSet
  <2>4. g \in 1 .. Len(frames)
    BY <2>1, <2>3
  <2> QED BY <1>3, <1>4, <2>4 DEF IInv, Nodes
<1>6. /\ frames \in Seq(Frame) /\ Extends(frames, frames)
      /\ children \in Seq(Seq([ip : Ips, index : 1 .. Len(frames)]))
  <2>1. frames \in Seq(Frame)
    BY DEF IInv, TypeOK
  <2>2. DOMAIN frames = 1 .. Len(frames)
    BY <2>1
  <2>3. children \in Seq(Seq([ip : Ips, index : 1 .. Len(frames)]))
    BY <2>2 DEF IInv, TypeOK
  <2>4. Extends(frames, frames)
    BY <2>1 DEF Extends
  <2> QED BY <2>1, <2>3, <2>4
<1>7. Linked' /\ Nodes' /\ RealCalls'
  BY <1>1 DEF IInv, Linked, Nodes, RealCalls, LocalIp, GlobalIp
<1> HIDE DEF g
<1>8. Counts(t, g)
  BY <1>1, <1>5, <1>6, <1>7 DEF Counts, g
<1> QED BY <1>8

LEMMA NewCounts ==
  ASSUME IInv, NEW t \in Threads, queue[t] # << >>, Head(queue[t]).kind = "stack",
         tree' = tree, PushNew(t, Head(queue[t]))
  PROVE  \E g : Counts(t, g)
<1> DEFINE s == Head(queue[t])
           parent == GlobalParent(t, s)
           g == GlobalIndex
           new == [parent |-> parent, ip |-> s.ip]
           child == [ip |-> s.ip, index |-> g]
           Child == [ip : Ips, index : 1 .. Len(frames)]
           Child2 == [ip : Ips, index : 1 .. Len(frames) + 1]
<1>1. /\ known' = [known EXCEPT ![t] = Append(@, g)]
      /\ children' = Append([children EXCEPT ![1] = Append(@, child)], << >>)
      /\ frames' = Append(frames, new)
  BY DEF PushNew
<1>2. /\ frames \in Seq(Frame) /\ Len(frames) \in Nat
      /\ children \in Seq(Seq(Child)) /\ Len(children) = Len(frames) + 1
  <2>1. frames \in Seq(Frame) /\ DOMAIN frames = 1 .. Len(frames)
    BY DEF IInv, TypeOK
  <2> QED BY <2>1 DEF IInv, TypeOK, Nodes
<1>3. g = Len(frames) + 1
  BY <1>2 DEF GlobalIndex
<1>4. s \in Instruction /\ s.kind = "stack" /\ s.ip \in Ips
  <2>1. s \in Instruction
    BY TranslateFinds
  <2> QED BY <2>1 DEF Instruction
<1>5. /\ Fits(tree[t], s, Len(known[t])) /\ s.parent \in Nat
      /\ parent \in 0 .. Len(frames)
      /\ GlobalIp(parent) = IpIn(tree[t], s.parent)
  <2>1. /\ Fits(tree[t], s, Len(known[t])) /\ s.parent \in Nat
        /\ s.parent # 0 => /\ Lookup(t, s.parent) \in 1 .. Len(frames)
                           /\ frames[Lookup(t, s.parent)].ip = tree[t][s.parent].ip
    BY TranslateFinds
  <2>2. CASE s.parent = 0
    <3>1. parent = 0
      BY <2>2 DEF GlobalParent
    <3> QED BY <1>2, <2>1, <2>2, <3>1 DEF GlobalIp, IpIn
  <2>3. CASE s.parent # 0
    <3>1. parent = Lookup(t, s.parent)
      BY <2>3 DEF GlobalParent
    <3> QED BY <1>2, <2>1, <2>3, <3>1 DEF GlobalIp, IpIn
  <2> QED BY <2>2, <2>3
<1> HIDE DEF s, parent, g
<1>6. new \in Frame
  BY <1>2, <1>4, <1>5 DEF Frame
<1>7. /\ frames' \in Seq(Frame) /\ Len(frames') = Len(frames) + 1
      /\ \A h \in 1 .. Len(frames) : frames'[h] = frames[h]
      /\ frames'[g] = new
  <2> HIDE DEF new
  <2> QED BY <1>1, <1>2, <1>3, <1>6, AppendProperties
<1>8. Extends(frames', frames)
  BY <1>2, <1>7 DEF Extends
<1>9. child \in Child2
  BY <1>2, <1>3, <1>4
<1> DEFINE mid == [children EXCEPT ![1] = Append(@, child)]
<1> HIDE DEF Child, Child2, child, new
<1>10. Child \subseteq Child2
  BY <1>2 DEF Child, Child2
<1>11. children \in Seq(Seq(Child2))
  <2>1. Seq(Child) \subseteq Seq(Child2)
    BY <1>10, SeqMonotonic
  <2> QED BY <1>2, <2>1, SeqMonotonic
<1>12. /\ 1 \in 1 .. Len(children) /\ children[1] \in Seq(Child2)
       /\ Append(children[1], child) \in Seq(Child2)
  <2>1. 1 \in 1 .. Len(children)
    BY <1>2
  <2>2. children[1] \in Seq(Child2)
    BY <1>11, <2>1, ElementOfSeq
  <2> QED BY <1>9, <2>1, <2>2, AppendProperties
<1>13. /\ mid \in Seq(Seq(Child2)) /\ Len(mid) = Len(children)
       /\ \A n \in 1 .. Len(children) :
            mid[n] = IF n = 1 THEN Append(children[1], child) ELSE children[n]
  BY <1>11, <1>12, ExceptSeq
<1> HIDE DEF mid
<1>14. /\ children' \in Seq(Seq(Child2)) /\ Len(children') = Len(children) + 1
       /\ \A n \in 1 .. Len(children) : children'[n] = mid[n]
       /\ children'[Len(children) + 1] = << >>
  <2>1. << >> \in Seq(Child2) /\ children' = Append(mid, << >>)
    BY <1>1 DEF mid
  <2> QED BY <1>13, <2>1, AppendProperties
<1>15. Linked'
  <2> SUFFICES ASSUME NEW h \in 1 .. Len(frames') PROVE frames'[h].parent <= Len(frames')
    BY DEF Linked
  <2>1. CASE h = g
    BY <1>2, <1>5, <1>7, <2>1 DEF new
  <2>2. CASE h # g
    <3>1. h \in 1 .. Len(frames) /\ frames'[h] = frames[h]
      BY <1>2, <1>3, <1>7, <2>2
    <3>2. frames[h] \in Frame /\ frames[h].parent <= Len(frames)
      BY <1>2, <3>1, ElementOfSeq DEF IInv, Linked
    <3> QED BY <1>2, <1>7, <3>1, <3>2 DEF Frame
  <2> QED BY <2>1, <2>2
<1>16. \A n \in DOMAIN children : \A i \in DOMAIN children[n] :
         /\ children[n][i].index \in 1 .. Len(frames)
         /\ frames'[children[n][i].index].ip = children[n][i].ip
  <2> TAKE n \in DOMAIN children
  <2> TAKE i \in DOMAIN children[n]
  <2>1. children[n] \in Seq(Child)
    BY <1>2, ElementInSet
  <2>2. children[n][i] \in Child
    BY <2>1, ElementInSet
  <2>3. children[n][i].index \in 1 .. Len(frames)
    BY <2>2 DEF Child
  <2>4. frames[children[n][i].index].ip = children[n][i].ip
    BY DEF IInv, Nodes
  <2> QED BY <1>7, <2>3, <2>4
<1>17. Nodes'
  <2>1. Len(children') = Len(frames') + 1
    BY <1>2, <1>7, <1>14
  <2>2. ASSUME NEW n \in DOMAIN children', NEW i \in DOMAIN children'[n]
        PROVE  frames'[children'[n][i].index].ip = children'[n][i].ip
    <3>1. n \in 1 .. Len(children) + 1 /\ Len(children) \in Nat
      BY <1>2, <1>14
    <3>2. CASE n = 1
      <4> DEFINE old == children[1]
      <4>1. children'[n] = Append(old, child)
        BY <1>12, <1>13, <1>14, <3>2
      <4>2. old \in Seq(Child2) /\ 1 \in DOMAIN children
        BY <1>11, <1>12
      <4>3. /\ Len(old) \in Nat
            /\ \A j \in 1 .. Len(old) : Append(old, child)[j] = old[j]
            /\ Append(old, child)[Len(old) + 1] = child
            /\ i \in 1 .. Len(old) + 1
        BY <1>9, <4>1, <4>2, AppendProperties
      <4> HIDE DEF old
      <4>4. CASE i = Len(old) + 1
        <5>1. children'[n][i] = child
          BY <4>1, <4>3, <4>4
        <5> QED BY <1>7, <5>1 DEF child, new
      <4>5. CASE i # Len(old) + 1
        <5>1. i \in 1 .. Len(old)
          BY <4>3, <4>5
        <5>2. i \in DOMAIN old /\ children'[n][i] = old[i]
          BY <4>1, <4>2, <4>3, <5>1
        <5> QED BY <1>16, <4>2, <5>2 DEF old
      <4> QED BY <4>4, <4>5
    <3>3. CASE n \in 2 .. Len(children)
      <4>1. n \in DOMAIN children /\ children'[n] = children[n]
        BY <1>11, <1>13, <1>14, <3>1, <3>3
      <4> QED BY <1>16, <4>1
    <3>4. CASE n = Len(children) + 1
      BY <1>14, <3>4
    <3> QED BY <3>1, <3>2, <3>3, <3>4
  <2> QED BY <2>1, <2>2 DEF Nodes
<1>18. RealCalls'
  <2> SUFFICES ASSUME NEW h \in DOMAIN frames'
               PROVE  \E u \in Threads : \E i \in DOMAIN tree[u] :
                        /\ tree[u][i].ip = frames'[h].ip
                        /\ IpIn(tree[u], tree[u][i].parent) = IpIn(frames', frames'[h].parent)
    BY DEF RealCalls, GlobalIp, LocalIp, IpIn
  <2>1. ASSUME NEW p \in 0 .. Len(frames) PROVE IpIn(frames', p) = GlobalIp(p)
    BY <1>7 DEF IpIn, GlobalIp
  <2>2. CASE h = g
    <3> DEFINE i == Len(known[t])
    <3>1. /\ tree[t] \in Seq(Frame) /\ i \in 1 .. Len(tree[t])
          /\ tree[t][i] = [parent |-> s.parent, ip |-> s.ip]
      BY <1>4, <1>5 DEF Fits, IInv, TypeOK, Counted
    <3>2. i \in DOMAIN tree[t] /\ tree[t][i].ip = s.ip /\ tree[t][i].parent = s.parent
      BY <3>1
    <3>3. frames'[h].ip = s.ip /\ frames'[h].parent = parent
      BY <1>7, <2>2 DEF new
    <3> HIDE DEF i
    <3> QED BY <1>5, <2>1, <3>2, <3>3
  <2>3. CASE h # g
    <3>1. h \in 1 .. Len(frames) /\ frames'[h] = frames[h]
      BY <1>2, <1>3, <1>7, <2>3
    <3>2. frames[h].parent \in 0 .. Len(frames)
      <4>1. frames[h] \in Frame
        BY <1>2, <3>1
      <4> QED BY <1>2, <3>1, <4>1 DEF Frame, IInv, Linked
    <3>3. \E u \in Threads : \E i \in DOMAIN tree[u] :
            /\ tree[u][i].ip = frames[h].ip
            /\ IpIn(tree[u], tree[u][i].parent) = GlobalIp(frames[h].parent)
      <4>1. h \in DOMAIN frames /\ RealCalls
        BY <1>2, <3>1 DEF IInv
      <4> QED BY <4>1 DEF RealCalls, LocalIp, IpIn
    <3> QED BY <2>1, <3>1, <3>2, <3>3
  <2> QED BY <2>2, <2>3
<1>19. children' \in Seq(Seq([ip : Ips, index : 1 .. Len(frames')]))
  BY <1>7, <1>14 DEF Child2
<1>20. g \in 1 .. Len(frames') /\ frames'[g].ip = s.ip
  BY <1>2, <1>3, <1>7 DEF new
<1>21. Counts(t, g)
  BY <1>1, <1>7, <1>8, <1>15, <1>17, <1>18, <1>19, <1>20 DEF Counts, s
<1> QED BY <1>21

LEMMA TranslateInv ==
  ASSUME IInv, NEW t \in Threads, Translate(t)
  PROVE  IInv'
<1> DEFINE s == Head(queue[t])
           i == IF s.kind = "stack" THEN s.parent ELSE s.index
<1>1. /\ queue[t] # << >>
      /\ queue' = [queue EXCEPT ![t] = Tail(@)]
      /\ UNCHANGED <<tree, ended>>
      /\ ~panicked
  BY DEF Translate, LookupSucceeds, IInv
<1>2. TypeOK
  BY DEF IInv
<1>3. s \in Instruction /\ Knows(t, i) /\ Fits(tree[t], s, Len(known[t]))
  BY <1>1, TranslateFinds
<1>4. PICK count : Sizes(tree[t], Len(known[t]), queue[t], count)
  BY <1>1 DEF IInv, Announced, Finished
<1>5. /\ tree[t] \in Seq(Frame) /\ queue[t] \in Seq(Instruction)
      /\ Tail(queue[t]) \in Seq(Instruction)
      /\ queue' \in [Threads -> Seq(Instruction)]
  <2>1. tree[t] \in Seq(Frame) /\ queue[t] \in Seq(Instruction)
    BY <1>2 DEF TypeOK
  <2>2. Tail(queue[t]) \in Seq(Instruction)
    BY <1>1, <2>1, HeadTailProperties
  <2> QED BY <1>1, <1>2, <2>1, <2>2 DEF TypeOK
<1>6. /\ Len(known[t]) \in 1 .. Len(tree[t]) + 1
      /\ \E c : Sizes(tree[t], Len(known[t]) + Increment(s), Tail(queue[t]), c)
  BY <1>1, <1>4, <1>5, SizesTail
<1>7. \A u \in Threads : u # t => queue'[u] = queue[u]
  BY <1>1, <1>2 DEF TypeOK
<1>8. queue'[t] = Tail(queue[t])
  BY <1>1, <1>2 DEF TypeOK
<1>9. \A u \in Threads \ {t} :
        ~Finished(u)' => \E c : Sizes(tree[u], Len(known[u]), queue'[u], c)
  BY <1>1, <1>7 DEF IInv, Announced, Finished
<1> HIDE DEF s, i
<1>10. CASE s.kind = "stack"
  <2>1. /\ PushFound(t, s) \/ PushNew(t, s)
        /\ panicked' = panicked
    BY <1>3, <1>10 DEF Translate, s, i
  <2>2. PICK g : Counts(t, g)
    BY <1>1, <1>10, <2>1, FoundCounts, NewCounts DEF s
  <2>3. /\ g \in 1 .. Len(frames') /\ frames'[g].ip = s.ip
        /\ known' = [known EXCEPT ![t] = Append(@, g)]
        /\ frames' \in Seq(Frame) /\ Extends(frames', frames)
        /\ children' \in Seq(Seq([ip : Ips, index : 1 .. Len(frames')]))
        /\ Linked' /\ Nodes' /\ RealCalls'
    BY <2>2 DEF Counts, s
  <2>4. /\ DOMAIN frames' = 1 .. Len(frames') /\ frames \in Seq(Frame)
        /\ DOMAIN frames = 1 .. Len(frames) /\ DOMAIN frames \subseteq DOMAIN frames'
    BY <1>2, <2>3 DEF TypeOK, Extends
  <2>5. \A u \in Threads : known[u] \in Seq({0} \cup DOMAIN frames')
    <3> TAKE u \in Threads
    <3>1. known[u] \in Seq({0} \cup DOMAIN frames)
      BY <1>2 DEF TypeOK
    <3> QED BY <2>4, <3>1, SeqMonotonic
  <2>6. /\ known'[t] = Append(known[t], g)
        /\ \A u \in Threads : u # t => known'[u] = known[u]
    BY <1>2, <2>3 DEF TypeOK
  <2>7. /\ known'[t] \in Seq({0} \cup DOMAIN frames')
        /\ Len(known'[t]) = Len(known[t]) + 1
        /\ \A j \in 1 .. Len(known[t]) : known'[t][j] = known[t][j]
        /\ known'[t][Len(known[t]) + 1] = g
    <3>1. g \in {0} \cup DOMAIN frames'
      BY <2>3, <2>4
    <3> QED BY <2>5, <2>6, <3>1, AppendProperties
  <2>8. TypeOK'
    <3>1. known' \in [Threads -> Seq({0} \cup DOMAIN frames')]
      BY <1>2, <2>3, <2>5, <2>6, <2>7 DEF TypeOK
    <3>2. children' \in Seq(Seq([ip : Ips, index : DOMAIN frames']))
      BY <2>3, <2>4
    <3> QED BY <1>1, <1>2, <1>5, <2>1, <2>3, <3>1, <3>2 DEF TypeOK
  <2>9. Counted'
    <3> SUFFICES ASSUME NEW u \in Threads
                 PROVE  /\ Len(known'[u]) \in 1 .. Len(tree[u]) + 1
                        /\ known'[u][1] = 0
                        /\ \A j \in 2 .. Len(known'[u]) :
                             /\ known'[u][j] \in 1 .. Len(frames')
                             /\ frames'[known'[u][j]].ip = tree[u][j - 1].ip
      BY <1>1 DEF Counted
    <3>1. /\ Len(known[u]) \in 1 .. Len(tree[u]) + 1
          /\ known[u][1] = 0
          /\ \A j \in 2 .. Len(known[u]) :
               /\ known[u][j] \in 1 .. Len(frames)
               /\ frames[known[u][j]].ip = tree[u][j - 1].ip
      BY DEF IInv, Counted
    <3>2. ASSUME NEW j \in 2 .. Len(known[u])
          PROVE  /\ known[u][j] \in 1 .. Len(frames')
                 /\ frames'[known[u][j]].ip = tree[u][j - 1].ip
      <4>1. /\ known[u][j] \in 1 .. Len(frames)
            /\ frames[known[u][j]].ip = tree[u][j - 1].ip
        BY <3>1
      <4>2. Len(frames) \in Nat /\ Len(frames') \in Nat
        BY <2>3, <2>4
      <4> QED BY <2>3, <4>1, <4>2 DEF Extends
    <3>3. CASE u = t
      <4>1. Len(known[t]) \in 1 .. Len(tree[t]) /\ tree[t][Len(known[t])].ip = s.ip
        BY <1>3, <1>6, <1>10 DEF Fits
      <4>2. Len(known'[t]) \in 1 .. Len(tree[t]) + 1 /\ known'[t][1] = 0
        BY <2>7, <3>1, <3>3, <4>1
      <4>3. ASSUME NEW j \in 2 .. Len(known'[t])
            PROVE  /\ known'[t][j] \in 1 .. Len(frames')
                   /\ frames'[known'[t][j]].ip = tree[t][j - 1].ip
        <5>1. CASE j = Len(known[t]) + 1
          <6>1. known'[t][j] = g /\ j - 1 = Len(known[t])
            BY <2>7, <4>1, <5>1
          <6> QED BY <2>3, <4>1, <6>1
        <5>2. CASE j # Len(known[t]) + 1
          <6>1. j \in 2 .. Len(known[t])
            BY <2>7, <4>1, <5>2
          <6>2. known'[t][j] = known[t][j]
            BY <2>7, <4>1, <6>1
          <6> QED BY <3>2, <3>3, <6>1, <6>2
        <5> QED BY <5>1, <5>2
      <4> QED BY <3>3, <4>2, <4>3
    <3>4. CASE u # t
      BY <2>6, <3>1, <3>2, <3>4
    <3> QED BY <3>3, <3>4
  <2>10. Announced'
    <3> SUFFICES ASSUME NEW u \in Threads, ~Finished(u)'
                 PROVE  \E c : Sizes(tree[u], Len(known'[u]), queue'[u], c)
      BY <1>1 DEF Announced
    <3>1. Increment(s) = 1
      BY <1>10 DEF Increment
    <3>2. CASE u = t
      BY <1>6, <1>8, <2>7, <3>1, <3>2
    <3>3. CASE u # t
      BY <1>9, <2>6, <3>3
    <3> QED BY <3>2, <3>3
  <2>11. Treed' /\ LookupSucceeds'
    BY <1>1, <2>1 DEF IInv, Treed, LookupSucceeds
  <2> QED BY <2>3, <2>8, <2>9, <2>10, <2>11 DEF IInv
<1>11. CASE s.kind # "stack"
  <2>1. UNCHANGED <<children, known, frames, panicked>>
    BY <1>3, <1>11 DEF Translate, s, i
  <2>2. TypeOK'
    BY <1>1, <1>2, <1>5, <2>1 DEF TypeOK
  <2>3. Announced'
    <3> SUFFICES ASSUME NEW u \in Threads, ~Finished(u)'
                 PROVE  \E c : Sizes(tree[u], Len(known[u]), queue'[u], c)
      BY <1>1, <2>1 DEF Announced
    <3>1. Increment(s) = 0 /\ Len(known[t]) + 0 = Len(known[t])
      BY <1>6, <1>11 DEF Increment
    <3>2. CASE u = t
      BY <1>6, <1>8, <3>1, <3>2
    <3>3. CASE u # t
      BY <1>9, <3>3
    <3> QED BY <3>2, <3>3
  <2>4. Treed' /\ Linked' /\ Nodes' /\ Counted' /\ LookupSucceeds' /\ RealCalls'
    BY <1>1, <2>1
       DEF IInv, Treed, Linked, Nodes, Counted, LookupSucceeds, RealCalls, LocalIp, GlobalIp
  <2> QED BY <2>2, <2>3, <2>4 DEF IInv
<1> QED BY <1>10, <1>11

LEMMA ExitInv ==
  ASSUME IInv, NEW t \in Threads, Exit(t)
  PROVE  IInv'
<1>1. ended' = ended \cup {t} /\ UNCHANGED <<tree, queue, children, known, frames, panicked>>
  BY DEF Exit
<1>2. TypeOK'
  BY <1>1 DEF IInv, TypeOK
<1>3. Announced'
  BY <1>1 DEF IInv, Announced, Finished
<1>4. Treed' /\ Linked' /\ Nodes' /\ Counted' /\ LookupSucceeds' /\ RealCalls'
  BY <1>1
     DEF IInv, Treed, Linked, Nodes, Counted, LookupSucceeds, RealCalls, LocalIp, GlobalIp
<1> QED BY <1>2, <1>3, <1>4 DEF IInv

\* The table that is removed is not used again: its thread has exited, and
\* nothing of the thread is under way.
LEMMA RemoveThreadInv ==
  ASSUME IInv, NEW t \in Threads, RemoveThread(t)
  PROVE  IInv'
<1>1. /\ Finished(t) /\ known' = [known EXCEPT ![t] = <<0>>]
      /\ UNCHANGED <<tree, queue, ended, children, frames, panicked>>
  BY DEF RemoveThread, AllShipped, Finished
<1>2. TypeOK /\ \A u \in Threads : known'[u] = IF u = t THEN <<0>> ELSE known[u]
  BY <1>1 DEF IInv, TypeOK
<1>3. TypeOK'
  <2>1. <<0>> \in Seq({0} \cup DOMAIN frames)
    OBVIOUS
  <2> QED BY <1>1, <1>2, <2>1 DEF TypeOK
<1>4. Announced'
  BY <1>1, <1>2 DEF IInv, Announced, Finished
<1>5. Counted'
  <2> SUFFICES ASSUME NEW u \in Threads
               PROVE  /\ Len(known'[u]) \in 1 .. Len(tree[u]) + 1
                      /\ known'[u][1] = 0
                      /\ \A j \in 2 .. Len(known'[u]) :
                           /\ known'[u][j] \in 1 .. Len(frames)
                           /\ frames[known'[u][j]].ip = tree[u][j - 1].ip
    BY <1>1 DEF Counted
  <2>1. CASE u = t
    <3>1. known'[t] = <<0>> /\ Len(tree[t]) \in Nat
      BY <1>2 DEF TypeOK
    <3> QED BY <2>1, <3>1
  <2>2. CASE u # t
    BY <1>2, <2>2 DEF IInv, Counted
  <2> QED BY <2>1, <2>2
<1>6. Treed' /\ Linked' /\ Nodes' /\ LookupSucceeds' /\ RealCalls'
  BY <1>1 DEF IInv, Treed, Linked, Nodes, LookupSucceeds, RealCalls, LocalIp, GlobalIp
<1> QED BY <1>3, <1>4, <1>5, <1>6 DEF IInv

-----------------------------------------------------------------------------
(* The theorems. *)

LEMMA InitInv ==
  ASSUME Init
  PROVE  IInv
<1>1. TypeOK
  <2>1. << >> \in Seq(Frame) /\ << >> \in Seq(Instruction)
        /\ <<0>> \in Seq({0} \cup DOMAIN frames)
    OBVIOUS
  <2>2. << << >> >> \in Seq(Seq([ip : Ips, index : DOMAIN frames]))
    OBVIOUS
  <2> QED BY <2>1, <2>2 DEF Init, TypeOK
<1>2. Treed /\ Linked /\ Nodes /\ LookupSucceeds /\ RealCalls
  BY DEF Init, Treed, Parented, Linked, Nodes, LookupSucceeds, RealCalls
<1>3. Counted
  BY DEF Init, Counted
<1>4. Announced
  <2> SUFFICES ASSUME NEW t \in Threads
               PROVE  \E c : Sizes(tree[t], Len(known[t]), queue[t], c)
    BY DEF Announced
  <2>1. tree[t] = << >> /\ Len(known[t]) = 1 /\ queue[t] = << >>
    BY DEF Init
  <2>2. Sizes(<< >>, 1, << >>, [i \in 0 .. 0 |-> 1])
    BY DEF Sizes
  <2> QED BY <2>1, <2>2
<1> QED BY <1>1, <1>2, <1>3, <1>4 DEF IInv

\* No step leaves the invariant.
LEMMA StepInv ==
  ASSUME IInv, [Next]_vars
  PROVE  IInv'
<1>1. CASE Next
  BY <1>1, HookInv, ExitInv, TranslateInv, RemoveThreadInv DEF Next
<1>2. CASE UNCHANGED vars
  BY <1>2 DEF IInv, TypeOK, Treed, Linked, Nodes, Counted, Announced, Finished,
              LookupSucceeds, RealCalls, LocalIp, GlobalIp
<1> QED BY <1>1, <1>2

\* What holds in every reachable state: the threads' trees, the frames under way and
\* the gatherer's tree agree on every frame and its parent.
THEOREM Invariant == Spec => []IInv
<1>1. Init => IInv
  BY InitInv
<1>2. IInv /\ [Next]_vars => IInv'
  BY StepInv
<1> QED BY <1>1, <1>2, PTL DEF Spec

\* Every reachable state is well typed.
THEOREM TypeCorrect == Spec => []TypeOK
<1>1. IInv => TypeOK
  BY DEF IInv
<1> QED BY <1>1, Invariant, PTL

\* The gatherer never looks up a frame that it has not counted (GlobalTraceTree
\* push and lookup), however the threads' hooks and the shipping interleave.
THEOREM LookupsSucceed == Spec => []LookupSucceeds
<1>1. IInv => LookupSucceeds
  BY DEF IInv
<1> QED BY <1>1, Invariant, PTL

\* An event is written with the index of a frame that has its instruction pointer.
THEOREM SameInstructions == Spec => []SameInstruction
<1>1. ASSUME IInv PROVE SameInstruction
  <2> SUFFICES ASSUME NEW t \in Threads, queue[t] # << >>,
                      Len(tree[t]) < IndexLimit, Len(frames) < IndexLimit,
                      Head(queue[t]).kind = "event"
               PROVE  GlobalIp(Truncated(Lookup(t, Head(queue[t]).index)))
                        = Head(queue[t]).ip
    BY DEF SameInstruction
  <2> DEFINE s == Head(queue[t])
             g == Lookup(t, s.index)
  <2>1. /\ s.index \in Nat
        /\ Fits(tree[t], s, Len(known[t]))
        /\ s.index = 0 => g = 0
        /\ s.index # 0 => /\ g \in 1 .. Len(frames)
                          /\ frames[g].ip = tree[t][s.index].ip
    BY <1>1, TranslateFinds
  <2>2. s.ip = IpIn(tree[t], s.index)
    BY <2>1 DEF Fits
  <2>3. Len(frames) \in Nat
    BY <1>1 DEF IInv, TypeOK
  <2> HIDE DEF g
  <2>4. Truncated(g) = g
    <3>1. g \in Nat /\ g < IndexLimit
      BY <2>1, <2>3
    <3> QED BY <3>1, TruncatedIndex
  <2>5. GlobalIp(g) = IpIn(tree[t], s.index)
    BY <2>1, <2>3 DEF GlobalIp, IpIn
  <2> QED BY <2>2, <2>4, <2>5 DEF g
<1> QED BY <1>1, Invariant, PTL

\* A written frame and its parent are a call some thread has made.
THEOREM CallsAreReal == Spec => []RealCalls
<1>1. IInv => RealCalls
  BY DEF IInv
<1> QED BY <1>1, Invariant, PTL

=============================================================================
