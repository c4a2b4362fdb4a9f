-------------------------- MODULE LifecycleProofs --------------------------
(***************************************************************************)
(* The invariants of Lifecycle, for all threads, sessions, capacities and  *)
(* bounds: first those of a session (Resolver), then the counting of its   *)
(* handles.                                                                *)
(***************************************************************************)
EXTENDS Lifecycle, SequenceTheorems, FiniteSetTheorems, TLAPS

USE ResolverAssumption, LifecycleAssumption
    DEF channelVars, sessionVars, staticVars, threadVars, handleVars, vars

-----------------------------------------------------------------------------
(* The frames from + 1, ..., from + n. *)

Series(from, n) == [i \in 1 .. n |-> from + i]

LEMMA SeriesType ==
  ASSUME NEW from \in Nat, NEW n \in Nat
  PROVE  /\ Series(from, n) \in Seq(Nat)
         /\ Len(Series(from, n)) = n
         /\ \A i \in 1 .. n : Series(from, n)[i] = from + i
  BY DEF Series

LEMMA SeriesEmpty ==
  ASSUME NEW from \in Nat
  PROVE  /\ Series(from, 0) = << >>
         /\ \A n \in Nat : Series(from, n) = << >> => n = 0
<1>1. \A n \in Nat : Len(Series(from, n)) = n
  BY SeriesType
<1>2. Series(from, 0) \in Seq(Nat)
  BY SeriesType
<1> QED BY <1>1, <1>2

LEMMA SeriesAppend ==
  ASSUME NEW from \in Nat, NEW n \in Nat
  PROVE  Append(Series(from, n), from + n + 1) = Series(from, n + 1)
<1> DEFINE l == Append(Series(from, n), from + n + 1)
           r == Series(from, n + 1)
<1>1. /\ l \in Seq(Nat) /\ Len(l) = n + 1
      /\ \A i \in 1 .. n : l[i] = from + i
      /\ l[n + 1] = from + n + 1
  <2> DEFINE q == Series(from, n)
  <2>1. q \in Seq(Nat) /\ Len(q) = n /\ \A i \in 1 .. n : q[i] = from + i
    BY SeriesType
  <2>2. from + n + 1 \in Nat
    OBVIOUS
  <2> HIDE DEF q
  <2>3. /\ Append(q, from + n + 1) \in Seq(Nat)
        /\ Len(Append(q, from + n + 1)) = n + 1
        /\ \A i \in 1 .. n : Append(q, from + n + 1)[i] = q[i]
        /\ Append(q, from + n + 1)[n + 1] = from + n + 1
    BY <2>1, <2>2, AppendProperties
  <2> QED BY <2>1, <2>3 DEF q
<1>2. r \in Seq(Nat) /\ Len(r) = n + 1 /\ \A i \in 1 .. n + 1 : r[i] = from + i
  BY SeriesType
<1> HIDE DEF l, r
<1>3. \A i \in 1 .. n + 1 : l[i] = r[i]
  BY <1>1, <1>2
<1>4. l = r
  BY <1>1, <1>2, <1>3, SeqEqual
<1> QED BY <1>4 DEF l, r

LEMMA SeriesTail ==
  ASSUME NEW from \in Nat, NEW n \in Nat \ {0}
  PROVE  /\ Series(from, n) # << >>
         /\ Head(Series(from, n)) = from + 1
         /\ Tail(Series(from, n)) = Series(from + 1, n - 1)
<1> DEFINE q == Series(from, n)
           l == Tail(q)
           r == Series(from + 1, n - 1)
<1>1. q \in Seq(Nat) /\ Len(q) = n /\ \A i \in 1 .. n : q[i] = from + i
  BY SeriesType
<1>2. q # << >> /\ Head(q) = q[1]
  BY <1>1
<1>3. r \in Seq(Nat) /\ Len(r) = n - 1 /\ \A i \in 1 .. n - 1 : r[i] = from + 1 + i
  <2>1. from + 1 \in Nat /\ n - 1 \in Nat
    OBVIOUS
  <2> QED BY <2>1, SeriesType
<1> HIDE DEF q, r
<1>4. l \in Seq(Nat) /\ Len(l) = n - 1 /\ \A i \in 1 .. n - 1 : l[i] = q[i + 1]
  BY <1>1, <1>2, HeadTailProperties
<1> HIDE DEF l
<1>5. \A i \in 1 .. n - 1 : l[i] = r[i]
  BY <1>1, <1>3, <1>4
<1>6. l = r
  BY <1>3, <1>4, <1>5, SeqEqual
<1> QED BY <1>1, <1>2, <1>6 DEF q, l, r

LEMMA SeriesConcat ==
  ASSUME NEW from \in Nat, NEW m \in Nat, NEW n \in Nat
  PROVE  Series(from, m) \o Series(from + m, n) = Series(from, m + n)
<1> DEFINE p == Series(from, m)
           q == Series(from + m, n)
           r == Series(from, m + n)
<1>1. p \in Seq(Nat) /\ Len(p) = m /\ \A i \in 1 .. m : p[i] = from + i
  BY SeriesType
<1>2. q \in Seq(Nat) /\ Len(q) = n /\ \A i \in 1 .. n : q[i] = from + m + i
  <2>1. from + m \in Nat
    OBVIOUS
  <2> QED BY <2>1, SeriesType
<1>3. r \in Seq(Nat) /\ Len(r) = m + n /\ \A i \in 1 .. m + n : r[i] = from + i
  <2>1. m + n \in Nat
    OBVIOUS
  <2> QED BY <2>1, SeriesType
<1> HIDE DEF p, q, r
<1>4. /\ p \o q \in Seq(Nat) /\ Len(p \o q) = m + n
      /\ \A i \in 1 .. m + n : (p \o q)[i] = IF i <= m THEN p[i] ELSE q[i - m]
  <2>1. /\ p \o q \in Seq(Nat) /\ Len(p \o q) = Len(p) + Len(q)
        /\ \A i \in 1 .. Len(p) + Len(q) :
             (p \o q)[i] = IF i <= Len(p) THEN p[i] ELSE q[i - Len(p)]
    <3>1. p \in Seq(Nat) /\ q \in Seq(Nat)
      BY <1>1, <1>2
    <3> QED BY <3>1, ConcatProperties
  <2> QED BY <1>1, <1>2, <2>1
<1>5. ASSUME NEW i \in 1 .. m + n PROVE (p \o q)[i] = r[i]
  <2>1. CASE i <= m
    BY <1>1, <1>3, <1>4, <2>1
  <2>2. CASE ~(i <= m)
    <3>1. i - m \in 1 .. n /\ from + m + (i - m) = from + i
      BY <2>2
    <3> QED BY <1>2, <1>3, <1>4, <2>2, <3>1
  <2> QED BY <2>1, <2>2
<1>6. p \o q = r
  BY <1>3, <1>4, <1>5, SeqEqual
<1> QED BY <1>6 DEF p, q, r

-----------------------------------------------------------------------------
(* The invariant of a session. *)

\* The frames asked for, in order: a are written, b in the batch, c answered,
\* one may be in the resolver's hand, and e are requested; behind them is the
\* order to stop, once it is sent and until it is taken.
Worked(s) == IF resolver[s] = "send" THEN 1 ELSE 0
Stopping(s) == gatherer[s] = "await" /\ resolver[s] # "done"

Stages(s, a, b, c, e) ==
  LET frames == Series(a + b + c + Worked(s), e) IN
  /\ written[s] = Series(0, a)
  /\ batch[s] = Series(a, b)
  /\ answers[s] = Series(a + b, c)
  /\ resolver[s] = "send" => hand[s] = a + b + c + 1
  /\ requests[s] = IF Stopping(s) THEN Append(frames, Shutdown) ELSE frames
  /\ asked[s] = a + b + c + Worked(s) + e
  /\ gatherer[s] \in {"await", "done"} /\ resolver[s] = "done" => e = 0
  /\ gatherer[s] = "done" => b = 0 /\ c = 0

\* The resolver ends after the gatherer has told it to, and before it.
InOrder(s) ==
  /\ gatherer[s] = "none" <=> resolver[s] = "none"
  /\ gatherer[s] = "done" => resolver[s] = "done"
  /\ resolver[s] = "done" => gatherer[s] \in {"await", "done", "panicked"}
  /\ gatherer[s] \in {"none", "run", "flush"} =>
       \A i \in 1 .. Len(requests[s]) : requests[s][i] # Shutdown
  /\ gatherer[s] # "panicked" => \E a, b, c, e \in Nat : Stages(s, a, b, c, e)

SessionsInv == ResolverTypeOK /\ \A s \in Sessions : InOrder(s)

\* A step of another session.
Same(s) ==
  /\ gatherer'[s] = gatherer[s] /\ resolver'[s] = resolver[s]
  /\ asked'[s] = asked[s] /\ requests'[s] = requests[s] /\ hand'[s] = hand[s]
  /\ answers'[s] = answers[s] /\ batch'[s] = batch[s] /\ written'[s] = written[s]

LEMMA SessionSame ==
  ASSUME NEW s \in Sessions, InOrder(s), Same(s)
  PROVE  InOrder(s)'
  BY DEF InOrder, Same, Stages, Worked, Stopping

LEMMA SessionStep ==
  ASSUME NEW s \in Sessions, \A r \in Sessions : InOrder(r),
         \A r \in Sessions \ {s} : Same(r),
         InOrder(s)', ResolverTypeOK'
  PROVE  SessionsInv'
<1>1. ASSUME NEW r \in Sessions PROVE InOrder(r)'
  BY SessionSame
<1> QED BY <1>1 DEF SessionsInv

\* Requests without the order to stop in front.
LEMMA NotStopping ==
  ASSUME NEW s \in Sessions, NEW a \in Nat, NEW b \in Nat, NEW c \in Nat, NEW e \in Nat,
         Stages(s, a, b, c, e), requests[s] # << >>
  PROVE  LET from == a + b + c + Worked(s) IN
         \/ /\ e # 0 /\ Head(requests[s]) = from + 1
            /\ Tail(requests[s]) = IF Stopping(s)
                                   THEN Append(Series(from + 1, e - 1), Shutdown)
                                   ELSE Series(from + 1, e - 1)
         \/ /\ e = 0 /\ Stopping(s) /\ Head(requests[s]) = Shutdown
            /\ Tail(requests[s]) = << >>
<1> DEFINE from == a + b + c + Worked(s)
           q == Series(from, e)
<1>1. from \in Nat
  BY DEF Worked
<1> HIDE DEF from
<1>2. q \in Seq(Nat) /\ requests[s] = IF Stopping(s) THEN Append(q, Shutdown) ELSE q
  BY <1>1, SeriesType DEF Stages, from
<1>3. CASE e = 0
  <2>1. q = << >>
    BY <1>1, <1>3, SeriesEmpty
  <2>2. Stopping(s) /\ requests[s] = Append(<< >>, Shutdown)
    BY <1>2, <2>1
  <2> QED BY <1>3, <2>2
<1>4. CASE e # 0
  <2>1. q # << >> /\ Head(q) = from + 1 /\ Tail(q) = Series(from + 1, e - 1)
    BY <1>1, <1>4, SeriesTail
  <2> HIDE DEF q
  <2>2. CASE Stopping(s)
    <3>1. /\ Head(Append(q, Shutdown)) = Head(q)
          /\ Tail(Append(q, Shutdown)) = Append(Tail(q), Shutdown)
      BY <1>2, <2>1, HeadTailAppend
    <3> QED BY <1>2, <1>4, <2>1, <2>2, <3>1 DEF from
  <2>3. CASE ~Stopping(s)
    BY <1>2, <1>4, <2>1, <2>3 DEF from
  <2> QED BY <2>2, <2>3
<1> QED BY <1>3, <1>4

-----------------------------------------------------------------------------
(* The steps of a session. *)

LEMMA StageTypes ==
  ASSUME ResolverTypeOK, NEW s \in Sessions
  PROVE  /\ asked[s] \in Nat /\ hand[s] \in Nat
         /\ requests[s] \in Seq(Nat) /\ answers[s] \in Seq(Nat)
         /\ batch[s] \in Seq(Nat) /\ written[s] \in Seq(Nat)
         /\ Worked(s) \in {0, 1}
  BY DEF ResolverTypeOK, Worked

LEMMA AskInv ==
  ASSUME SessionsInv, NEW s \in Sessions, Ask(s)
  PROVE  SessionsInv'
<1> DEFINE n == asked[s] + 1
<1>1. /\ gatherer[s] \in {"run", "flush"}
      /\ asked' = [asked EXCEPT ![s] = n]
      /\ requests' = [requests EXCEPT ![s] = Append(@, asked'[s])]
      /\ UNCHANGED <<program, gatherer, resolver, hand, answers, batch, written, lost>>
  BY DEF Ask
<1>2. ResolverTypeOK /\ InOrder(s)
  BY DEF SessionsInv
<1>3. /\ n \in Nat \ {0} /\ asked'[s] = n
      /\ requests' = [requests EXCEPT ![s] = Append(@, n)]
      /\ requests'[s] = Append(requests[s], n)
  BY <1>1, <1>2 DEF ResolverTypeOK
<1> HIDE DEF n
<1>4. /\ requests'[s] \in Seq(Nat) /\ Len(requests'[s]) = Len(requests[s]) + 1
      /\ \A i \in 1 .. Len(requests[s]) : requests'[s][i] = requests[s][i]
      /\ requests'[s][Len(requests[s]) + 1] = n
      /\ Len(requests[s]) \in Nat
  <2>1. requests[s] \in Seq(Nat) /\ n \in Nat
    BY <1>2, <1>3, StageTypes
  <2> QED BY <1>3, <2>1, AppendProperties
<1>5. ResolverTypeOK'
  <2>1. asked' \in [Sessions -> Nat] /\ requests' \in [Sessions -> Seq(Nat)]
    BY <1>1, <1>2, <1>3, <1>4 DEF ResolverTypeOK
  <2> QED BY <1>1, <1>2, <2>1 DEF ResolverTypeOK
<1>6. \A r \in Sessions \ {s} : Same(r)
  BY <1>1, <1>2, <1>3 DEF Same, ResolverTypeOK
<1>7. InOrder(s)'
  <2>1. \A i \in 1 .. Len(requests'[s]) : requests'[s][i] # Shutdown
    <3> SUFFICES ASSUME NEW i \in 1 .. Len(requests'[s]) PROVE requests'[s][i] # Shutdown
      OBVIOUS
    <3>1. CASE i = Len(requests[s]) + 1
      BY <1>3, <1>4, <3>1 DEF Shutdown
    <3>2. CASE i # Len(requests[s]) + 1
      <4>1. i \in 1 .. Len(requests[s])
        BY <1>4, <3>2
      <4> QED BY <1>1, <1>2, <1>4, <4>1 DEF InOrder
    <3> QED BY <3>1, <3>2
  <2>2. PICK a \in Nat, b \in Nat, c \in Nat, e \in Nat : Stages(s, a, b, c, e)
    BY <1>1, <1>2 DEF InOrder
  <2>3. Worked(s)' = Worked(s) /\ Worked(s) \in Nat
    BY <1>1 DEF Worked
  <2>4. ~Stopping(s) /\ ~Stopping(s)'
    BY <1>1 DEF Stopping
  <2> DEFINE from == a + b + c + Worked(s)
  <2>5. from \in Nat /\ requests[s] = Series(from, e) /\ asked[s] = from + e
    BY <2>2, <2>3, <2>4 DEF Stages
  <2>6. requests'[s] = Series(from, e + 1)
    BY <1>3, <2>5, SeriesAppend DEF n
  <2>7. asked'[s] = from + (e + 1)
    BY <1>3, <2>5 DEF n
  <2> HIDE DEF from
  <2>8. Stages(s, a, b, c, e + 1)'
    BY <1>1, <2>2, <2>3, <2>4, <2>6, <2>7 DEF Stages, from
  <2>9. \E i, j, k, l \in Nat : Stages(s, i, j, k, l)'
    <3>1. e + 1 \in Nat
      OBVIOUS
    <3> QED BY <2>8, <3>1
  <2>10. resolver'[s] # "done" /\ gatherer'[s] = gatherer[s] /\ resolver'[s] = resolver[s]
    BY <1>1, <1>2 DEF InOrder
  <2> QED BY <1>1, <1>2, <2>1, <2>9, <2>10 DEF InOrder
<1> QED BY <1>5, <1>6, <1>7, SessionStep DEF SessionsInv

LEMMA ResolveInv ==
  ASSUME SessionsInv, NEW s \in Sessions, Resolve(s)
  PROVE  SessionsInv'
<1>1. /\ resolver[s] = "recv"
      /\ UNCHANGED <<program, gatherer, asked, answers, batch, written, lost>>
  BY DEF Resolve
<1>2. ResolverTypeOK /\ InOrder(s)
  BY DEF SessionsInv
<1>3. /\ requests[s] \in Seq(Nat)
      /\ requests[s] # << >> =>
           /\ Head(requests[s]) \in Nat /\ Tail(requests[s]) \in Seq(Nat)
           /\ Len(Tail(requests[s])) = Len(requests[s]) - 1
           /\ \A i \in 1 .. Len(Tail(requests[s])) : Tail(requests[s])[i] = requests[s][i + 1]
  BY <1>2, StageTypes, HeadTailProperties
<1>4. /\ requests[s] # << >> /\ requests' = [requests EXCEPT ![s] = Tail(@)]
      => /\ requests' \in [Sessions -> Seq(Nat)]
         /\ requests'[s] = Tail(requests[s])
         /\ \A r \in Sessions \ {s} : requests'[r] = requests[r]
         /\ gatherer[s] \in {"none", "run", "flush"} =>
              \A i \in 1 .. Len(requests'[s]) : requests'[s][i] # Shutdown
  <2> SUFFICES ASSUME requests[s] # << >>, requests' = [requests EXCEPT ![s] = Tail(@)]
               PROVE  /\ requests' \in [Sessions -> Seq(Nat)]
                      /\ requests'[s] = Tail(requests[s])
                      /\ \A r \in Sessions \ {s} : requests'[r] = requests[r]
                      /\ gatherer[s] \in {"none", "run", "flush"} =>
                           \A i \in 1 .. Len(requests'[s]) : requests'[s][i] # Shutdown
    OBVIOUS
  <2>1. /\ requests' \in [Sessions -> Seq(Nat)]
        /\ requests'[s] = Tail(requests[s])
        /\ \A r \in Sessions \ {s} : requests'[r] = requests[r]
    BY <1>2, <1>3 DEF ResolverTypeOK
  <2>2. ASSUME gatherer[s] \in {"none", "run", "flush"}, NEW i \in 1 .. Len(requests'[s])
        PROVE  requests'[s][i] # Shutdown
    <3>1. i + 1 \in 1 .. Len(requests[s]) /\ requests'[s][i] = requests[s][i + 1]
      BY <1>3, <2>1
    <3> QED BY <1>2, <2>2, <3>1 DEF InOrder
  <2> QED BY <2>1, <2>2
<1>5. CASE /\ requests[s] # << >> /\ Head(requests[s]) # Shutdown
           /\ ResolverGoes(s, "send")
           /\ hand' = [hand EXCEPT ![s] = Head(requests[s])]
           /\ requests' = [requests EXCEPT ![s] = Tail(@)]
  <2>1. resolver'[s] = "send" /\ hand'[s] = Head(requests[s])
    BY <1>2, <1>5 DEF ResolverGoes, ResolverTypeOK
  <2>2. ResolverTypeOK'
    <3>1. /\ resolver' \in [Sessions -> {"none", "recv", "send", "done"}]
          /\ hand' \in [Sessions -> Nat]
      BY <1>2, <1>3, <1>5 DEF ResolverGoes, ResolverTypeOK
    <3> QED BY <1>1, <1>2, <1>4, <1>5, <3>1 DEF ResolverTypeOK
  <2>3. \A r \in Sessions \ {s} : Same(r)
    BY <1>1, <1>2, <1>5 DEF Same, ResolverTypeOK, ResolverGoes
  <2>4. ASSUME gatherer[s] # "panicked"
        PROVE  \E a, b, c, e \in Nat : Stages(s, a, b, c, e)'
    <3>1. PICK a \in Nat, b \in Nat, c \in Nat, e \in Nat : Stages(s, a, b, c, e)
      BY <1>2, <2>4 DEF InOrder
    <3>2. Worked(s) = 0 /\ Worked(s)' = 1 /\ (Stopping(s)' <=> Stopping(s))
      BY <1>1, <2>1 DEF Worked, Stopping
    <3>3. /\ e # 0 /\ Head(requests[s]) = a + b + c + 1
          /\ Tail(requests[s]) = IF Stopping(s)
                                 THEN Append(Series(a + b + c + 1, e - 1), Shutdown)
                                 ELSE Series(a + b + c + 1, e - 1)
      BY <1>5, <3>1, <3>2, NotStopping
    <3>4. e - 1 \in Nat /\ a + b + c + 1 + (e - 1) = a + b + c + 0 + e
      BY <3>3
    <3>5. Stages(s, a, b, c, e - 1)'
      BY <1>1, <1>4, <1>5, <2>1, <3>1, <3>2, <3>3, <3>4 DEF Stages
    <3> QED BY <3>4, <3>5
  <2>5. InOrder(s)'
    BY <1>1, <1>2, <1>4, <1>5, <2>1, <2>4 DEF InOrder
  <2> QED BY <2>2, <2>3, <2>5, SessionStep DEF SessionsInv
<1>6. CASE /\ requests[s] # << >> /\ Head(requests[s]) = Shutdown
           /\ ResolverGoes(s, "done")
           /\ requests' = [requests EXCEPT ![s] = Tail(@)]
           /\ UNCHANGED hand
  <2>1. resolver'[s] = "done"
    BY <1>2, <1>6 DEF ResolverGoes, ResolverTypeOK
  <2>2. ResolverTypeOK'
    <3>1. resolver' \in [Sessions -> {"none", "recv", "send", "done"}]
      BY <1>2, <1>6 DEF ResolverGoes, ResolverTypeOK
    <3> QED BY <1>1, <1>2, <1>4, <1>6, <3>1 DEF ResolverTypeOK
  <2>3. \A r \in Sessions \ {s} : Same(r)
    BY <1>1, <1>2, <1>6 DEF Same, ResolverTypeOK, ResolverGoes
  <2>4. gatherer[s] \in {"await", "done", "panicked"}
    <3>1. 1 \in 1 .. Len(requests[s]) /\ Head(requests[s]) = requests[s][1]
      BY <1>3, <1>6
    <3>2. gatherer[s] \notin {"none", "run", "flush"}
      BY <1>2, <1>6, <3>1 DEF InOrder
    <3> QED BY <1>2, <3>2 DEF ResolverTypeOK
  <2>5. ASSUME gatherer[s] # "panicked"
        PROVE  \E a, b, c, e \in Nat : Stages(s, a, b, c, e)'
    <3>1. PICK a \in Nat, b \in Nat, c \in Nat, e \in Nat : Stages(s, a, b, c, e)
      BY <1>2, <2>5 DEF InOrder
    <3>2. Worked(s) = 0 /\ Worked(s)' = 0 /\ ~Stopping(s)'
      BY <1>1, <2>1 DEF Worked, Stopping
    <3>3. e = 0 /\ Tail(requests[s]) = << >>
      <4>1. a + b + c + Worked(s) \in Nat
        BY <3>2
      <4> QED BY SMTT(30), <1>6, <3>1, <4>1, NotStopping DEF Shutdown
    <3>4. Series(a + b + c + 0, e) = << >>
      BY <3>3, SeriesEmpty
    <3>5. Stages(s, a, b, c, e)'
      BY <1>1, <1>4, <1>6, <2>1, <3>1, <3>2, <3>3, <3>4 DEF Stages
    <3> QED BY <3>5
  <2>6. InOrder(s)'
    BY <1>1, <1>2, <2>1, <2>4, <2>5 DEF InOrder
  <2> QED BY <2>2, <2>3, <2>6, SessionStep DEF SessionsInv
<1>7. CASE /\ requests[s] = << >> /\ Ended(s)
           /\ ResolverGoes(s, "done")
           /\ UNCHANGED <<requests, hand>>
  <2>1. resolver'[s] = "done"
    BY <1>2, <1>7 DEF ResolverGoes, ResolverTypeOK
  <2>2. gatherer[s] = "panicked"
    BY <1>1, <1>2, <1>7 DEF InOrder, Ended
  <2>3. ResolverTypeOK'
    BY <1>1, <1>2, <1>7 DEF ResolverGoes, ResolverTypeOK
  <2>4. \A r \in Sessions \ {s} : Same(r)
    BY <1>1, <1>2, <1>7 DEF Same, ResolverTypeOK, ResolverGoes
  <2>5. InOrder(s)'
    BY <1>1, <2>1, <2>2 DEF InOrder
  <2> QED BY <2>3, <2>4, <2>5, SessionStep DEF SessionsInv
<1> QED BY <1>5, <1>6, <1>7 DEF Resolve

LEMMA AnswerInv ==
  ASSUME SessionsInv, NEW s \in Sessions, Answer(s)
  PROVE  SessionsInv'
<1>1. /\ resolver[s] = "send" /\ hand' = [hand EXCEPT ![s] = 0]
      /\ UNCHANGED <<program, gatherer, asked, requests, batch, written, lost>>
  BY DEF Answer
<1>2. ResolverTypeOK /\ InOrder(s)
  BY DEF SessionsInv
<1>3. hand' \in [Sessions -> Nat]
  BY <1>1, <1>2 DEF ResolverTypeOK
<1>4. CASE Ended(s) /\ ResolverGoes(s, "done") /\ UNCHANGED answers
  <2>1. resolver'[s] = "done"
    BY <1>2, <1>4 DEF ResolverGoes, ResolverTypeOK
  <2>2. gatherer[s] = "panicked"
    BY <1>1, <1>2, <1>4 DEF InOrder, Ended
  <2>3. ResolverTypeOK'
    BY <1>1, <1>2, <1>3, <1>4 DEF ResolverGoes, ResolverTypeOK
  <2>4. \A r \in Sessions \ {s} : Same(r)
    BY <1>1, <1>2, <1>4 DEF Same, ResolverTypeOK, ResolverGoes
  <2>5. InOrder(s)'
    BY <1>1, <2>1, <2>2 DEF InOrder
  <2> QED BY <2>3, <2>4, <2>5, SessionStep DEF SessionsInv
<1>5. CASE /\ ~Ended(s) /\ Len(answers[s]) < AnswerCapacity
           /\ ResolverGoes(s, "recv")
           /\ answers' = [answers EXCEPT ![s] = Append(@, hand[s])]
  <2>1. /\ resolver'[s] = "recv"
        /\ answers'[s] = Append(answers[s], hand[s])
    BY <1>2, <1>5 DEF ResolverGoes, ResolverTypeOK
  <2>2. answers'[s] \in Seq(Nat) /\ Len(answers'[s]) = Len(answers[s]) + 1
        /\ Len(answers[s]) \in Nat
    <3>1. answers[s] \in Seq(Nat) /\ hand[s] \in Nat
      BY <1>2, StageTypes
    <3> QED BY <2>1, <3>1, AppendProperties
  <2>3. ResolverTypeOK'
    <3>1. answers' \in [Sessions -> Seq(Nat)]
      BY <1>2, <1>5, <2>1, <2>2 DEF ResolverTypeOK
    <3>2. resolver' \in [Sessions -> {"none", "recv", "send", "done"}]
      BY <1>2, <1>5 DEF ResolverGoes, ResolverTypeOK
    <3>3. \A r \in Sessions : Len(answers'[r]) <= AnswerCapacity
      <4> TAKE r \in Sessions
      <4>1. CASE r = s
        BY <1>5, <2>2, <4>1
      <4>2. CASE r # s
        BY <1>2, <1>5, <4>2 DEF ResolverTypeOK
      <4> QED BY <4>1, <4>2
    <3> QED BY <1>1, <1>2, <1>3, <3>1, <3>2, <3>3 DEF ResolverTypeOK
  <2>4. \A r \in Sessions \ {s} : Same(r)
    BY <1>1, <1>2, <1>5 DEF Same, ResolverTypeOK, ResolverGoes
  <2>5. ASSUME gatherer[s] # "panicked"
        PROVE  \E a, b, c, e \in Nat : Stages(s, a, b, c, e)'
    <3>1. PICK a \in Nat, b \in Nat, c \in Nat, e \in Nat : Stages(s, a, b, c, e)
      BY <1>2, <2>5 DEF InOrder
    <3>2. Worked(s) = 1 /\ Worked(s)' = 0 /\ (Stopping(s)' <=> Stopping(s))
      BY <1>1, <2>1 DEF Worked, Stopping
    <3>3. /\ answers[s] = Series(a + b, c) /\ hand[s] = (a + b) + c + 1
          /\ a + b \in Nat /\ c + 1 \in Nat
      BY <1>1, <3>1 DEF Stages
    <3>4. answers'[s] = Series(a + b, c + 1)
      BY <2>1, <3>3, SeriesAppend
    <3>5. a + b + c + 1 = a + b + (c + 1) + 0
      OBVIOUS
    <3>6. gatherer[s] # "done"
      BY <1>5 DEF Ended
    <3>7. Stages(s, a, b, c + 1, e)'
      BY <1>1, <2>1, <3>1, <3>2, <3>3, <3>4, <3>5, <3>6 DEF Stages
    <3> QED BY <3>3, <3>7
  <2>6. InOrder(s)'
    BY <1>1, <1>2, <2>1, <2>5 DEF InOrder
  <2> QED BY <2>3, <2>4, <2>6, SessionStep DEF SessionsInv
<1> QED BY <1>4, <1>5 DEF Answer

LEMMA TakeDetailsInv ==
  ASSUME SessionsInv, NEW s \in Sessions, TakeDetails(s)
  PROVE  SessionsInv'
<1> DEFINE details == Append(batch[s], Head(answers[s]))
<1>1. /\ gatherer[s] \in {"run", "await"}
      /\ answers[s] # << >>
      /\ answers' = [answers EXCEPT ![s] = Tail(@)]
      /\ UNCHANGED <<program, gatherer, resolver, asked, requests, hand, lost>>
  BY DEF TakeDetails, Receiving
<1>2. ResolverTypeOK /\ InOrder(s)
  BY DEF SessionsInv
<1>3. /\ Head(answers[s]) \in Nat /\ Tail(answers[s]) \in Seq(Nat)
      /\ Len(Tail(answers[s])) = Len(answers[s]) - 1 /\ Len(answers[s]) \in Nat
      /\ details \in Seq(Nat)
  <2>1. answers[s] \in Seq(Nat) /\ batch[s] \in Seq(Nat)
    BY <1>2, StageTypes
  <2>2. Head(answers[s]) \in Nat /\ Tail(answers[s]) \in Seq(Nat)
        /\ Len(Tail(answers[s])) = Len(answers[s]) - 1
    BY <1>1, <2>1, HeadTailProperties
  <2> QED BY <2>1, <2>2, AppendProperties
<1>4. /\ answers' \in [Sessions -> Seq(Nat)] /\ answers'[s] = Tail(answers[s])
      /\ \A r \in Sessions \ {s} : answers'[r] = answers[r]
      /\ \A r \in Sessions : Len(answers'[r]) <= AnswerCapacity
  <2>1. /\ answers' \in [Sessions -> Seq(Nat)] /\ answers'[s] = Tail(answers[s])
        /\ \A r \in Sessions \ {s} : answers'[r] = answers[r]
    BY <1>1, <1>2, <1>3 DEF ResolverTypeOK
  <2>2. Len(answers[s]) <= AnswerCapacity /\ Len(answers'[s]) <= AnswerCapacity
    BY <1>2, <1>3, <2>1 DEF ResolverTypeOK
  <2> QED BY <1>2, <2>1, <2>2 DEF ResolverTypeOK
<1>5. PICK a \in Nat, b \in Nat, c \in Nat, e \in Nat : Stages(s, a, b, c, e)
  BY <1>1, <1>2 DEF InOrder
<1>6. c # 0
  <2>1. a + b \in Nat
    OBVIOUS
  <2> QED BY <1>1, <1>5, <2>1, SeriesEmpty DEF Stages
<1>7. /\ answers'[s] = Series(a + (b + 1), c - 1)
      /\ details = Series(a, b + 1)
      /\ a + (b + 1) + (c - 1) = a + b + c /\ c - 1 \in Nat /\ b + 1 \in Nat
  <2>1. a + b \in Nat /\ c \in Nat \ {0} /\ c - 1 \in Nat /\ b + 1 \in Nat
        /\ a + (b + 1) + (c - 1) = a + b + c /\ a + b + 1 = a + (b + 1)
    BY <1>6
  <2>2. answers[s] = Series(a + b, c) /\ batch[s] = Series(a, b)
    BY <1>5 DEF Stages
  <2>3. Head(answers[s]) = a + b + 1 /\ Tail(answers[s]) = Series(a + b + 1, c - 1)
    <3>1. \A from \in Nat :
            /\ Head(Series(from, c)) = from + 1
            /\ Tail(Series(from, c)) = Series(from + 1, c - 1)
      BY <2>1, SeriesTail
    <3> QED BY <2>1, <2>2, <3>1
  <2>4. details = Series(a, b + 1)
    BY <2>2, <2>3, SeriesAppend
  <2> QED BY <1>4, <2>1, <2>3, <2>4
<1>8. Worked(s)' = Worked(s) /\ (Stopping(s)' <=> Stopping(s))
  BY <1>1 DEF Worked, Stopping
<1> HIDE DEF details
<1>9. CASE /\ Len(details) < BatchSize
           /\ batch' = [batch EXCEPT ![s] = details]
           /\ UNCHANGED written
  <2>1. batch'[s] = details /\ batch' \in [Sessions -> Seq(Nat)]
        /\ \A r \in Sessions : Len(batch'[r]) < BatchSize
    BY <1>2, <1>3, <1>9 DEF ResolverTypeOK
  <2>2. ResolverTypeOK'
    BY <1>1, <1>2, <1>4, <1>9, <2>1 DEF ResolverTypeOK
  <2>3. \A r \in Sessions \ {s} : Same(r)
    BY <1>1, <1>2, <1>4, <1>9 DEF Same, ResolverTypeOK
  <2>4. Stages(s, a, b + 1, c - 1, e)'
    BY <1>1, <1>5, <1>7, <1>8, <1>9, <2>1 DEF Stages
  <2>5. InOrder(s)'
    BY <1>1, <1>2, <1>7, <2>4 DEF InOrder
  <2> QED BY <2>2, <2>3, <2>5, SessionStep DEF SessionsInv
<1>10. CASE /\ Len(details) = BatchSize /\ ~lost[s]
            /\ batch' = [batch EXCEPT ![s] = << >>]
            /\ written' = [written EXCEPT ![s] = @ \o details]
  <2>1. /\ batch'[s] = << >> /\ written'[s] = written[s] \o details
    BY <1>2, <1>10 DEF ResolverTypeOK
  <2>2. written'[s] \in Seq(Nat)
    BY <1>2, <1>3, <2>1, StageTypes, ConcatProperties
  <2>3. /\ batch' \in [Sessions -> Seq(Nat)] /\ written' \in [Sessions -> Seq(Nat)]
        /\ \A r \in Sessions : Len(batch'[r]) < BatchSize
    <3>1. << >> \in Seq(Nat) /\ Len(<< >>) < BatchSize
      OBVIOUS
    <3> QED BY <1>2, <1>10, <2>1, <2>2, <3>1 DEF ResolverTypeOK
  <2>4. ResolverTypeOK'
    BY <1>1, <1>2, <1>4, <2>3 DEF ResolverTypeOK
  <2>5. \A r \in Sessions \ {s} : Same(r)
    BY <1>1, <1>2, <1>4, <1>10 DEF Same, ResolverTypeOK
  <2>6. written'[s] = Series(0, a + (b + 1))
    <3>1. written[s] = Series(0, a) /\ 0 + a = a
      BY <1>5 DEF Stages
    <3>2. Series(0, a) \o Series(0 + a, b + 1) = Series(0, a + (b + 1))
      <4>1. b + 1 \in Nat
        OBVIOUS
      <4> QED BY ZenonT(40), <4>1, SeriesConcat
    <3> QED BY <1>7, <2>1, <3>1, <3>2
  <2>7. batch'[s] = Series(a + (b + 1), 0) /\ a + (b + 1) \in Nat
        /\ a + (b + 1) + 0 = a + (b + 1)
    BY <1>7, <2>1, SeriesEmpty
  <2>8. Stages(s, a + (b + 1), 0, c - 1, e)'
    BY <1>1, <1>5, <1>7, <1>8, <2>6, <2>7 DEF Stages
  <2>9. InOrder(s)'
    BY <1>1, <1>2, <1>7, <2>7, <2>8 DEF InOrder
  <2> QED BY <2>4, <2>5, <2>9, SessionStep DEF SessionsInv
<1> QED BY <1>9, <1>10 DEF TakeDetails, details

LEMMA SendShutdownInv ==
  ASSUME SessionsInv, NEW s \in Sessions, SendShutdown(s)
  PROVE  SessionsInv'
<1>1. /\ gatherer[s] = "flush"
      /\ requests' = [requests EXCEPT ![s] = Append(@, Shutdown)]
      /\ GathererGoes(s, "await")
      /\ UNCHANGED <<program, resolver, asked, hand, answers, batch, written, lost>>
  BY DEF SendShutdown
<1>2. ResolverTypeOK /\ InOrder(s)
  BY DEF SessionsInv
<1>3. /\ gatherer'[s] = "await" /\ requests'[s] = Append(requests[s], Shutdown)
  BY <1>1, <1>2 DEF ResolverTypeOK, GathererGoes
<1>4. requests'[s] \in Seq(Nat)
  <2>1. requests[s] \in Seq(Nat) /\ Shutdown \in Nat
    BY <1>2, StageTypes DEF Shutdown
  <2> QED BY <1>3, <2>1, AppendProperties
<1>5. ResolverTypeOK'
  <2>1. requests' \in [Sessions -> Seq(Nat)]
    BY <1>1, <1>2, <1>3, <1>4 DEF ResolverTypeOK
  <2>2. gatherer' \in [Sessions -> {"none", "run", "flush", "await", "done", "panicked"}]
    BY <1>1, <1>2 DEF ResolverTypeOK, GathererGoes
  <2> QED BY <1>1, <1>2, <2>1, <2>2 DEF ResolverTypeOK
<1>6. \A r \in Sessions \ {s} : Same(r)
  BY <1>1, <1>2 DEF Same, ResolverTypeOK, GathererGoes
<1>7. resolver[s] # "done" /\ ~Stopping(s) /\ Stopping(s)' /\ Worked(s)' = Worked(s)
  BY <1>1, <1>2, <1>3 DEF InOrder, Stopping, Worked
<1>8. PICK a \in Nat, b \in Nat, c \in Nat, e \in Nat : Stages(s, a, b, c, e)
  BY <1>1, <1>2 DEF InOrder
<1>9. Stages(s, a, b, c, e)'
  BY <1>1, <1>3, <1>7, <1>8 DEF Stages
<1>10. InOrder(s)'
  BY <1>1, <1>2, <1>3, <1>9 DEF InOrder
<1> QED BY <1>5, <1>6, <1>10, SessionStep DEF SessionsInv

LEMMA FlushDetailsInv ==
  ASSUME SessionsInv, NEW s \in Sessions, FlushDetails(s)
  PROVE  SessionsInv'
<1>1. /\ gatherer[s] = "await" /\ resolver[s] = "done" /\ answers[s] = << >>
      /\ written' = [written EXCEPT ![s] = @ \o batch[s]]
      /\ batch' = [batch EXCEPT ![s] = << >>]
      /\ GathererGoes(s, "done")
      /\ UNCHANGED <<program, resolver, asked, requests, hand, answers, lost>>
  BY DEF FlushDetails, Rest
<1>2. ResolverTypeOK /\ InOrder(s)
  BY DEF SessionsInv
<1>3. /\ gatherer'[s] = "done" /\ batch'[s] = << >>
      /\ written'[s] = written[s] \o batch[s]
  BY <1>1, <1>2 DEF ResolverTypeOK, GathererGoes
<1>4. written'[s] \in Seq(Nat)
  BY <1>2, <1>3, StageTypes, ConcatProperties
<1>5. ResolverTypeOK'
  <2>1. written' \in [Sessions -> Seq(Nat)]
    BY <1>1, <1>2, <1>3, <1>4 DEF ResolverTypeOK
  <2>2. gatherer' \in [Sessions -> {"none", "run", "flush", "await", "done", "panicked"}]
    BY <1>1, <1>2 DEF ResolverTypeOK, GathererGoes
  <2>3. /\ batch' \in [Sessions -> Seq(Nat)]
        /\ \A r \in Sessions : Len(batch'[r]) < BatchSize
    <3>1. << >> \in Seq(Nat) /\ Len(<< >>) < BatchSize
      OBVIOUS
    <3> QED BY <1>1, <1>2, <3>1 DEF ResolverTypeOK
  <2> QED BY <1>1, <1>2, <2>1, <2>2, <2>3 DEF ResolverTypeOK
<1>6. \A r \in Sessions \ {s} : Same(r)
  BY <1>1, <1>2 DEF Same, ResolverTypeOK, GathererGoes
<1>7. Worked(s) = 0 /\ Worked(s)' = 0 /\ ~Stopping(s) /\ ~Stopping(s)'
  BY <1>1 DEF Worked, Stopping
<1>8. PICK a \in Nat, b \in Nat, c \in Nat, e \in Nat : Stages(s, a, b, c, e)
  BY <1>1, <1>2 DEF InOrder
<1>9. c = 0 /\ e = 0
  <2>1. a + b \in Nat
    OBVIOUS
  <2> QED BY <1>1, <1>8, <2>1, SeriesEmpty DEF Stages
<1>10. written'[s] = Series(0, a + b)
  <2>1. written[s] = Series(0, a) /\ batch[s] = Series(0 + a, b)
    BY <1>8 DEF Stages
  <2>2. Series(0, a) \o Series(0 + a, b) = Series(0, a + b)
    BY SeriesConcat
  <2> QED BY <1>3, <2>1, <2>2
<1>11. batch'[s] = Series(a + b, 0) /\ a + b \in Nat /\ (a + b) + 0 = a + b
  BY <1>3, SeriesEmpty
<1>12. Stages(s, a + b, 0, 0, 0)'
  BY <1>1, <1>3, <1>7, <1>8, <1>9, <1>10, <1>11 DEF Stages
<1>13. InOrder(s)'
  BY <1>1, <1>2, <1>3, <1>11, <1>12 DEF InOrder
<1> QED BY <1>5, <1>6, <1>13, SessionStep DEF SessionsInv

LEMMA LoseConnectionInv ==
  ASSUME SessionsInv, NEW s \in Sessions, LoseConnection(s)
  PROVE  SessionsInv'
<1>1. /\ lost' = [lost EXCEPT ![s] = TRUE]
      /\ UNCHANGED <<program, gatherer, resolver, channelVars>>
  BY DEF LoseConnection
<1>2. ResolverTypeOK'
  BY <1>1 DEF SessionsInv, ResolverTypeOK
<1>3. \A r \in Sessions : Same(r)
  BY <1>1 DEF Same
<1> QED BY <1>2, <1>3, SessionSame DEF SessionsInv

LEMMA FailedWriteInv ==
  ASSUME SessionsInv, NEW s \in Sessions, FailedWrite(s)
  PROVE  SessionsInv'
<1>1. UNCHANGED <<resolver, asked, requests, hand, batch, written, lost>>
  BY DEF FailedWrite
<1>2. ResolverTypeOK /\ InOrder(s)
  BY DEF SessionsInv
<1>3. CASE program' = "aborted" /\ UNCHANGED <<gatherer, answers>>
  <2>1. ResolverTypeOK'
    BY <1>1, <1>2, <1>3 DEF ResolverTypeOK
  <2>2. \A r \in Sessions : Same(r)
    BY <1>1, <1>3 DEF Same
  <2> QED BY <2>1, <2>2, SessionSame DEF SessionsInv
<1>4. CASE /\ Writes(s) /\ GathererGoes(s, "panicked")
           /\ answers' = [answers EXCEPT ![s] = << >>] /\ UNCHANGED program
  <2>1. gatherer'[s] = "panicked" /\ gatherer[s] # "none"
    BY <1>2, <1>4 DEF ResolverTypeOK, GathererGoes, Writes
  <2>2. ResolverTypeOK'
    <3>1. gatherer' \in [Sessions -> {"none", "run", "flush", "await", "done", "panicked"}]
      BY <1>2, <1>4 DEF ResolverTypeOK, GathererGoes
    <3>2. /\ answers' \in [Sessions -> Seq(Nat)]
          /\ \A r \in Sessions : Len(answers'[r]) <= AnswerCapacity
      <4>1. << >> \in Seq(Nat) /\ Len(<< >>) <= AnswerCapacity
        OBVIOUS
      <4> QED BY <1>2, <1>4, <4>1 DEF ResolverTypeOK
    <3> QED BY <1>1, <1>2, <1>4, <3>1, <3>2 DEF ResolverTypeOK
  <2>3. \A r \in Sessions \ {s} : Same(r)
    BY <1>1, <1>2, <1>4 DEF Same, ResolverTypeOK, GathererGoes
  <2>4. InOrder(s)'
    BY <1>1, <1>2, <2>1 DEF InOrder
  <2> QED BY <2>2, <2>3, <2>4, SessionStep DEF SessionsInv
<1> QED BY <1>3, <1>4 DEF FailedWrite

LEMMA SpawnInv ==
  ASSUME SessionsInv, NEW s \in Sessions, Spawn(s), program' = program
  PROVE  SessionsInv' /\ gatherer'[s] = "run"
                      /\ \A r \in Sessions \ {s} : gatherer'[r] = gatherer[r]
<1>1. /\ gatherer[s] = "none" /\ GathererGoes(s, "run") /\ ResolverGoes(s, "recv")
      /\ UNCHANGED <<channelVars, lost>>
  BY DEF Spawn
<1>2. ResolverTypeOK /\ InOrder(s)
  BY DEF SessionsInv
<1>3. /\ gatherer'[s] = "run" /\ resolver'[s] = "recv" /\ resolver[s] = "none"
  BY <1>1, <1>2 DEF ResolverTypeOK, GathererGoes, ResolverGoes, InOrder
<1>4. ResolverTypeOK'
  BY <1>1, <1>2 DEF ResolverTypeOK, GathererGoes, ResolverGoes
<1>5. \A r \in Sessions \ {s} : Same(r)
  BY <1>1, <1>2 DEF Same, ResolverTypeOK, GathererGoes, ResolverGoes
<1>6. Worked(s)' = Worked(s) /\ ~Stopping(s) /\ ~Stopping(s)'
  BY <1>1, <1>3 DEF Worked, Stopping
<1>7. PICK a \in Nat, b \in Nat, c \in Nat, e \in Nat : Stages(s, a, b, c, e)
  BY <1>1, <1>2 DEF InOrder
<1>8. Stages(s, a, b, c, e)'
  BY <1>1, <1>3, <1>6, <1>7 DEF Stages
<1>9. InOrder(s)'
  BY <1>1, <1>2, <1>3, <1>8 DEF InOrder
<1> QED BY <1>3, <1>4, <1>5, <1>9, SessionStep DEF SessionsInv, Same

LEMMA FlushInv ==
  ASSUME SessionsInv, NEW s \in Sessions, gatherer[s] = "run", BeginFlush(s),
         UNCHANGED <<program, resolver, asked, hand, answers, batch, written, lost>>
  PROVE  SessionsInv'
<1>1. GathererGoes(s, "flush") /\ UNCHANGED requests
  BY DEF BeginFlush
<1>2. ResolverTypeOK /\ InOrder(s)
  BY DEF SessionsInv
<1>3. gatherer'[s] = "flush"
  BY <1>1, <1>2 DEF ResolverTypeOK, GathererGoes
<1>4. ResolverTypeOK'
  BY <1>1, <1>2 DEF ResolverTypeOK, GathererGoes
<1>5. \A r \in Sessions \ {s} : Same(r)
  BY <1>1, <1>2 DEF Same, ResolverTypeOK, GathererGoes
<1>6. Worked(s)' = Worked(s) /\ ~Stopping(s) /\ ~Stopping(s)'
  BY <1>3 DEF Worked, Stopping
<1>7. PICK a \in Nat, b \in Nat, c \in Nat, e \in Nat : Stages(s, a, b, c, e)
  BY <1>2 DEF InOrder
<1>8. Stages(s, a, b, c, e)'
  BY <1>1, <1>3, <1>6, <1>7 DEF Stages
<1>9. InOrder(s)'
  BY <1>1, <1>2, <1>3, <1>8 DEF InOrder
<1> QED BY <1>4, <1>5, <1>9, SessionStep DEF SessionsInv

-----------------------------------------------------------------------------
(* The handles of a session. *)

\* The drop in q that i others are waiting for: that of session s, and one that
\* has not dropped its senders.
Height(q, i) == q[Len(q) - i]
FrameOf(q, i, s) == i < Len(q) /\ Height(q, i).session = s
FreshOf(q, i, s) == FrameOf(q, i, s) /\ Height(q, i).at = "senders"

\* Where a handle is: in a writer, in the variable of start() or stop(), in
\* GATHER (unless start() is dropping that one), or in a drop.
Holds(k, t, i, s) ==
  \/ k = "writer" /\ i = 0 /\ writer[t] = s
  \/ k = "held" /\ i = 0 /\ t = Main /\ held = s
  \/ k = "gather" /\ i = 0 /\ t = Main /\ gather = s /\ pc[Main] # "replace"
  \/ k = "drop" /\ FrameOf(drops[t], i, s)

\* ... and its senders are not dropped.
Sends(k, t, i, s) ==
  /\ Holds(k, t, i, s)
  /\ k = "drop" => FreshOf(drops[t], i, s)

Places == {"writer", "held", "gather", "drop"} \X Threads \X Nat
Handles(s) == {h \in Places : Holds(h[1], h[2], h[3], s)}
Sending(s) == {h \in Places : Sends(h[1], h[2], h[3], s)}

\* The reference count of the join handles counts the handles.
Counting(s) ==
  /\ IsFiniteSet(Handles(s))
  /\ strong[s] = Cardinality(Handles(s))
  /\ senders[s] = Cardinality(Sending(s))

LEMMA SendingHandles ==
  ASSUME NEW s \in Sessions
  PROVE  Sending(s) \subseteq Handles(s)
  BY DEF Sending, Handles, Sends

LEMMA CountingTypes ==
  ASSUME NEW s \in Sessions, Counting(s)
  PROVE  /\ IsFiniteSet(Sending(s))
         /\ strong[s] \in Nat /\ senders[s] \in Nat /\ senders[s] <= strong[s]
  BY SendingHandles, FS_Subset, FS_CardinalityType DEF Counting

LEMMA SomeHandle ==
  ASSUME NEW s \in Sessions, Counting(s), Handles(s) # {}
  PROVE  strong[s] \in Nat \ {0}
  BY CountingTypes, FS_EmptySet DEF Counting

\* The places of session s outside S are the same after a step.
Unmoved(s, S) ==
  \A k \in {"writer", "held", "gather", "drop"} : \A t \in Threads : \A i \in Nat :
    <<k, t, i>> \notin S =>
      /\ Holds(k, t, i, s)' <=> Holds(k, t, i, s)
      /\ Sends(k, t, i, s)' <=> Sends(k, t, i, s)

LEMMA CountingSame ==
  ASSUME NEW s \in Sessions, Counting(s), Unmoved(s, {}),
         strong'[s] = strong[s], senders'[s] = senders[s]
  PROVE  Counting(s)'
<1>1. Handles(s)' = Handles(s)
  BY DEF Handles, Unmoved, Places
<1>2. Sending(s)' = Sending(s)
  BY DEF Sending, Unmoved, Places
<1> QED BY <1>1, <1>2 DEF Counting

LEMMA CountingMove ==
  ASSUME NEW s \in Sessions, Counting(s), NEW x \in Places, NEW y \in Places,
         Unmoved(s, {x, y}),
         x \in Sending(s), y \notin Handles(s),
         (x \notin Handles(s))', (y \in Sending(s))',
         strong'[s] = strong[s], senders'[s] = senders[s]
  PROVE  Counting(s)'
<1>1. x \in Handles(s) /\ y \notin Sending(s) /\ (x \notin Sending(s))'
      /\ (y \in Handles(s))' /\ x # y
  BY DEF Sending, Handles, Sends
<1>2. Handles(s)' = (Handles(s) \ {x}) \cup {y}
  <2>1. ASSUME NEW h \in Places, h # x, h # y
        PROVE  (h \in Handles(s))' <=> h \in Handles(s)
    BY <2>1 DEF Unmoved, Handles, Places
  <2>2. Handles(s) \subseteq Places /\ Handles(s)' \subseteq Places
    BY DEF Handles, Places
  <2> QED BY <1>1, <2>1, <2>2
<1>3. Sending(s)' = (Sending(s) \ {x}) \cup {y}
  <2>1. ASSUME NEW h \in Places, h # x, h # y
        PROVE  (h \in Sending(s))' <=> h \in Sending(s)
    BY <2>1 DEF Unmoved, Sending, Places
  <2>2. Sending(s) \subseteq Places /\ Sending(s)' \subseteq Places
    BY DEF Sending, Places
  <2> QED BY <1>1, <2>1, <2>2
<1>4. ASSUME NEW S, IsFiniteSet(S), x \in S, y \notin S
      PROVE  /\ IsFiniteSet((S \ {x}) \cup {y})
             /\ Cardinality((S \ {x}) \cup {y}) = Cardinality(S)
  <2>1. /\ IsFiniteSet(S \ {x}) /\ Cardinality(S \ {x}) = Cardinality(S) - 1
        /\ Cardinality(S) \in Nat
    BY <1>4, FS_RemoveElement, FS_CardinalityType
  <2>2. y \notin S \ {x}
    BY <1>4
  <2>3. /\ IsFiniteSet((S \ {x}) \cup {y})
        /\ Cardinality((S \ {x}) \cup {y}) = Cardinality(S \ {x}) + 1
    BY <2>1, <2>2, FS_AddElement
  <2> QED BY <2>1, <2>3
<1>5. IsFiniteSet(Handles(s)) /\ IsFiniteSet(Sending(s))
  BY CountingTypes DEF Counting
<1> QED BY <1>1, <1>2, <1>3, <1>4, <1>5 DEF Counting

LEMMA CountingAdd ==
  ASSUME NEW s \in Sessions, Counting(s), NEW y \in Places,
         Unmoved(s, {y}), y \notin Handles(s), (y \in Sending(s))',
         strong'[s] = strong[s] + 1, senders'[s] = senders[s] + 1
  PROVE  Counting(s)'
<1>1. y \notin Sending(s) /\ (y \in Handles(s))'
  BY DEF Sending, Handles, Sends
<1>2. Handles(s)' = Handles(s) \cup {y}
  <2>1. ASSUME NEW h \in Places, h # y
        PROVE  (h \in Handles(s))' <=> h \in Handles(s)
    BY <2>1 DEF Unmoved, Handles, Places
  <2>2. Handles(s) \subseteq Places /\ Handles(s)' \subseteq Places
    BY DEF Handles, Places
  <2> QED BY <1>1, <2>1, <2>2
<1>3. Sending(s)' = Sending(s) \cup {y}
  <2>1. ASSUME NEW h \in Places, h # y
        PROVE  (h \in Sending(s))' <=> h \in Sending(s)
    BY <2>1 DEF Unmoved, Sending, Places
  <2>2. Sending(s) \subseteq Places /\ Sending(s)' \subseteq Places
    BY DEF Sending, Places
  <2> QED BY <1>1, <2>1, <2>2
<1>4. IsFiniteSet(Handles(s)) /\ IsFiniteSet(Sending(s))
  BY CountingTypes DEF Counting
<1>5. /\ IsFiniteSet(Handles(s) \cup {y}) /\ IsFiniteSet(Sending(s) \cup {y})
      /\ Cardinality(Handles(s) \cup {y}) = Cardinality(Handles(s)) + 1
      /\ Cardinality(Sending(s) \cup {y}) = Cardinality(Sending(s)) + 1
  BY <1>1, <1>4, FS_AddElement
<1> QED BY <1>2, <1>3, <1>5 DEF Counting

\* The senders of a handle are dropped first ...
LEMMA CountingSenders ==
  ASSUME NEW s \in Sessions, Counting(s), NEW x \in Places,
         Unmoved(s, {x}), x \in Sending(s), (x \in Handles(s))', (x \notin Sending(s))',
         strong'[s] = strong[s], senders'[s] = senders[s] - 1
  PROVE  Counting(s)'
<1>1. x \in Handles(s)
  BY DEF Sending, Handles, Sends
<1>2. Handles(s)' = Handles(s)
  <2>1. ASSUME NEW h \in Places, h # x
        PROVE  (h \in Handles(s))' <=> h \in Handles(s)
    BY <2>1 DEF Unmoved, Handles, Places
  <2>2. Handles(s) \subseteq Places /\ Handles(s)' \subseteq Places
    BY DEF Handles, Places
  <2>3. \A h \in Places : (h \in Handles(s))' <=> h \in Handles(s)
    BY <1>1, <2>1
  <2> QED BY <2>2, <2>3
<1>3. Sending(s)' = Sending(s) \ {x}
  <2>1. ASSUME NEW h \in Places, h # x
        PROVE  (h \in Sending(s))' <=> h \in Sending(s)
    BY <2>1 DEF Unmoved, Sending, Places
  <2>2. Sending(s) \subseteq Places /\ Sending(s)' \subseteq Places
    BY DEF Sending, Places
  <2> QED BY <1>1, <2>1, <2>2
<1>4. IsFiniteSet(Handles(s)) /\ IsFiniteSet(Sending(s))
  BY CountingTypes DEF Counting
<1> QED BY ZenonT(40), <1>2, <1>3, <1>4, FS_RemoveElement DEF Counting

\* ... and then the handle is gone.
LEMMA CountingRelease ==
  ASSUME NEW s \in Sessions, Counting(s), NEW x \in Places,
         Unmoved(s, {x}), x \in Handles(s), x \notin Sending(s), (x \notin Handles(s))',
         strong'[s] = strong[s] - 1, senders'[s] = senders[s]
  PROVE  Counting(s)'
<1>1. (x \notin Sending(s))'
  BY DEF Sending, Handles, Sends
<1>2. Handles(s)' = Handles(s) \ {x}
  <2>1. ASSUME NEW h \in Places, h # x
        PROVE  (h \in Handles(s))' <=> h \in Handles(s)
    BY <2>1 DEF Unmoved, Handles, Places
  <2>2. Handles(s) \subseteq Places /\ Handles(s)' \subseteq Places
    BY DEF Handles, Places
  <2> QED BY <1>1, <2>1, <2>2
<1>3. Sending(s)' = Sending(s)
  <2>1. ASSUME NEW h \in Places, h # x
        PROVE  (h \in Sending(s))' <=> h \in Sending(s)
    BY <2>1 DEF Unmoved, Sending, Places
  <2>2. Sending(s) \subseteq Places /\ Sending(s)' \subseteq Places
    BY DEF Sending, Places
  <2>3. \A h \in Places : (h \in Sending(s))' <=> h \in Sending(s)
    BY <1>1, <2>1
  <2> QED BY <2>2, <2>3
<1>4. IsFiniteSet(Handles(s)) /\ IsFiniteSet(Sending(s))
  BY CountingTypes DEF Counting
<1> QED BY <1>2, <1>3, <1>4, FS_RemoveElement DEF Counting

-----------------------------------------------------------------------------
(* The drops a thread is in. *)

LEMMA PushHeight ==
  ASSUME NEW q \in Seq(DropFrame), NEW f \in DropFrame
  PROVE  LET r == <<f>> \o q IN
         /\ r \in Seq(DropFrame) /\ Len(r) = Len(q) + 1 /\ r # << >> /\ Len(q) \in Nat
         /\ \A i \in 0 .. Len(q) - 1 : Height(r, i) = Height(q, i)
         /\ Height(r, Len(q)) = f
<1> DEFINE r == <<f>> \o q
<1>1. <<f>> \in Seq(DropFrame) /\ Len(<<f>>) = 1 /\ <<f>>[1] = f /\ Len(q) \in Nat
  OBVIOUS
<1>2. /\ r \in Seq(DropFrame) /\ Len(r) = Len(<<f>>) + Len(q)
      /\ \A i \in 1 .. Len(<<f>>) + Len(q) :
           r[i] = IF i <= Len(<<f>>) THEN <<f>>[i] ELSE q[i - Len(<<f>>)]
  BY <1>1, ConcatProperties
<1> HIDE DEF r
<1>3. Len(r) = Len(q) + 1 /\ r[1] = f /\ \A i \in 2 .. Len(q) + 1 : r[i] = q[i - 1]
  BY <1>1, <1>2
<1>4. ASSUME NEW i \in 0 .. Len(q) - 1 PROVE r[Len(r) - i] = q[Len(q) - i]
  <2>1. /\ Len(r) - i \in 2 .. Len(q) + 1 /\ (Len(r) - i) - 1 = Len(q) - i
    BY <1>1, <1>3
  <2> QED BY <1>3, <2>1
<1>5. Len(r) - Len(q) = 1 /\ r # << >>
  BY <1>1, <1>2, <1>3
<1> QED BY <1>1, <1>2, <1>3, <1>4, <1>5 DEF Height, r

LEMMA PopHeight ==
  ASSUME NEW q \in Seq(DropFrame), q # << >>
  PROVE  /\ Tail(q) \in Seq(DropFrame) /\ Len(Tail(q)) = Len(q) - 1
         /\ Len(q) \in Nat \ {0}
         /\ \A i \in 0 .. Len(q) - 2 : Height(Tail(q), i) = Height(q, i)
         /\ Height(q, Len(q) - 1) = Head(q) /\ Head(q) \in DropFrame
<1> DEFINE r == Tail(q)
<1>1. /\ Head(q) = q[1] /\ q[1] \in DropFrame /\ Len(q) \in Nat \ {0}
      /\ r \in Seq(DropFrame) /\ Len(r) = Len(q) - 1
      /\ \A i \in 1 .. Len(r) : r[i] = q[i + 1]
  BY HeadTailProperties
<1> HIDE DEF r
<1>2. ASSUME NEW i \in 0 .. Len(q) - 2 PROVE r[Len(r) - i] = q[Len(q) - i]
  <2>1. Len(r) - i \in 1 .. Len(r) /\ (Len(r) - i) + 1 = Len(q) - i
    BY <1>1
  <2> QED BY <1>1, <2>1
<1>3. Len(q) - (Len(q) - 1) = 1
  BY <1>1
<1> QED BY <1>1, <1>2, <1>3 DEF Height, r

\* A drop begins, ...
LEMMA PushFrames ==
  ASSUME NEW q \in Seq(DropFrame), NEW f \in DropFrame
  PROVE  LET r == <<f>> \o q IN
         /\ r \in Seq(DropFrame) /\ r # << >>
         /\ Len(q) \in Nat
         /\ \A s, i \in Nat :
              /\ i # Len(q) => /\ FrameOf(r, i, s) <=> FrameOf(q, i, s)
                               /\ FreshOf(r, i, s) <=> FreshOf(q, i, s)
              /\ i = Len(q) => /\ ~FrameOf(q, i, s)
                               /\ FrameOf(r, i, s) <=> f.session = s
                               /\ FreshOf(r, i, s) <=> f.session = s /\ f.at = "senders"
<1> DEFINE r == <<f>> \o q
<1>1. /\ r \in Seq(DropFrame) /\ Len(r) = Len(q) + 1 /\ r # << >> /\ Len(q) \in Nat
      /\ \A i \in 0 .. Len(q) - 1 : Height(r, i) = Height(q, i)
      /\ Height(r, Len(q)) = f
  BY PushHeight
<1> HIDE DEF r
<1>2. ASSUME NEW s, NEW i \in Nat, i # Len(q)
      PROVE  /\ FrameOf(r, i, s) <=> FrameOf(q, i, s)
             /\ FreshOf(r, i, s) <=> FreshOf(q, i, s)
  BY <1>1, <1>2 DEF FrameOf, FreshOf
<1>3. ASSUME NEW s, NEW i \in Nat, i = Len(q)
      PROVE  /\ ~FrameOf(q, i, s)
             /\ FrameOf(r, i, s) <=> f.session = s
             /\ FreshOf(r, i, s) <=> f.session = s /\ f.at = "senders"
  BY <1>1, <1>3 DEF FrameOf, FreshOf
<1> QED BY <1>1, <1>2, <1>3 DEF r

\* ... ends, ...
LEMMA PopFrames ==
  ASSUME NEW q \in Seq(DropFrame), q # << >>
  PROVE  /\ Tail(q) \in Seq(DropFrame) /\ Head(q) \in DropFrame /\ Len(q) - 1 \in Nat
         /\ \A s, i \in Nat :
              /\ i # Len(q) - 1 => /\ FrameOf(Tail(q), i, s) <=> FrameOf(q, i, s)
                                   /\ FreshOf(Tail(q), i, s) <=> FreshOf(q, i, s)
              /\ i = Len(q) - 1 => /\ ~FrameOf(Tail(q), i, s)
                                   /\ FrameOf(q, i, s) <=> Head(q).session = s
                                   /\ FreshOf(q, i, s) <=> Head(q).session = s
                                                           /\ Head(q).at = "senders"
<1> DEFINE r == Tail(q)
           h == Head(q)
<1>1. /\ r \in Seq(DropFrame) /\ Len(r) = Len(q) - 1 /\ Len(q) \in Nat \ {0}
      /\ \A i \in 0 .. Len(q) - 2 : Height(r, i) = Height(q, i)
      /\ Height(q, Len(q) - 1) = h /\ h \in DropFrame
  BY PopHeight
<1> HIDE DEF r, h
<1>2. ASSUME NEW s, NEW i \in Nat, i # Len(q) - 1
      PROVE  /\ FrameOf(r, i, s) <=> FrameOf(q, i, s)
             /\ FreshOf(r, i, s) <=> FreshOf(q, i, s)
  BY <1>1, <1>2 DEF FrameOf, FreshOf
<1>3. ASSUME NEW s, NEW i \in Nat, i = Len(q) - 1
      PROVE  /\ ~FrameOf(r, i, s)
             /\ FrameOf(q, i, s) <=> h.session = s
             /\ FreshOf(q, i, s) <=> h.session = s /\ h.at = "senders"
  BY <1>1, <1>3 DEF FrameOf, FreshOf
<1>4. \A s, i \in Nat :
        /\ i # Len(q) - 1 => /\ FrameOf(r, i, s) <=> FrameOf(q, i, s)
                             /\ FreshOf(r, i, s) <=> FreshOf(q, i, s)
        /\ i = Len(q) - 1 => /\ ~FrameOf(r, i, s)
                             /\ FrameOf(q, i, s) <=> h.session = s
                             /\ FreshOf(q, i, s) <=> h.session = s /\ h.at = "senders"
  BY <1>2, <1>3
<1>5. Len(q) - 1 \in Nat
  BY <1>1
<1> QED BY <1>1, <1>4, <1>5 DEF r, h

\* ... or goes on.
LEMMA ThenFrames ==
  ASSUME NEW q \in Seq(DropFrame), q # << >>,
         NEW at \in {"senders", "count", "static", "lock", "join", "release"}
  PROVE  LET r == <<[Head(q) EXCEPT !.at = at]>> \o Tail(q) IN
         /\ r \in Seq(DropFrame) /\ r # << >> /\ Len(r) = Len(q)
         /\ \A s, i \in Nat :
              /\ FrameOf(r, i, s) <=> FrameOf(q, i, s)
              /\ i # Len(q) - 1 => (FreshOf(r, i, s) <=> FreshOf(q, i, s))
              /\ i = Len(q) - 1 =>
                   (FreshOf(r, i, s) <=> Head(q).session = s /\ at = "senders")
<1> DEFINE p == Tail(q)
           f == [Head(q) EXCEPT !.at = at]
           r == <<f>> \o p
<1>1. /\ p \in Seq(DropFrame) /\ Head(q) \in DropFrame /\ Len(q) - 1 \in Nat
      /\ Len(p) = Len(q) - 1
      /\ \A s, i \in Nat :
              /\ i # Len(q) - 1 => /\ FrameOf(p, i, s) <=> FrameOf(q, i, s)
                                   /\ FreshOf(p, i, s) <=> FreshOf(q, i, s)
              /\ i = Len(q) - 1 => /\ ~FrameOf(p, i, s)
                                   /\ FrameOf(q, i, s) <=> Head(q).session = s
  BY PopFrames, PopHeight
<1>2. f \in DropFrame /\ f.session = Head(q).session /\ f.at = at
  BY <1>1 DEF DropFrame
<1> HIDE DEF p, f
<1>3. /\ r \in Seq(DropFrame) /\ r # << >> /\ Len(r) = Len(p) + 1
      /\ \A s, i \in Nat :
              /\ i # Len(p) => /\ FrameOf(r, i, s) <=> FrameOf(p, i, s)
                               /\ FreshOf(r, i, s) <=> FreshOf(p, i, s)
              /\ i = Len(p) => /\ FrameOf(r, i, s) <=> f.session = s
                               /\ FreshOf(r, i, s) <=> f.session = s /\ f.at = "senders"
  BY <1>1, <1>2, PushFrames, PushHeight
<1> HIDE DEF r
<1>4. ASSUME NEW s \in Nat, NEW i \in Nat
      PROVE  /\ FrameOf(r, i, s) <=> FrameOf(q, i, s)
             /\ i # Len(q) - 1 => (FreshOf(r, i, s) <=> FreshOf(q, i, s))
             /\ i = Len(q) - 1 => (FreshOf(r, i, s) <=> Head(q).session = s /\ at = "senders")
  <2>1. CASE i = Len(q) - 1
    <3>1. i = Len(p)
      BY <1>1, <2>1
    <3> QED BY <1>1, <1>2, <1>3, <2>1, <3>1
  <2>2. CASE i # Len(q) - 1
    <3>1. i # Len(p)
      BY <1>1, <2>2
    <3> QED BY <1>1, <1>3, <2>2, <3>1
  <2> QED BY <2>1, <2>2
<1>5. Len(r) = Len(q)
  BY <1>1, <1>3
<1>6. \A s, i \in Nat :
        /\ FrameOf(r, i, s) <=> FrameOf(q, i, s)
        /\ i # Len(q) - 1 => (FreshOf(r, i, s) <=> FreshOf(q, i, s))
        /\ i = Len(q) - 1 =>
             (FreshOf(r, i, s) <=> Head(q).session = s /\ at = "senders")
  BY <1>4
<1> QED BY <1>3, <1>5, <1>6 DEF p, f, r

-----------------------------------------------------------------------------
(* The inductive invariant. *)

StateOK ==
  /\ enabled \in BOOLEAN
  /\ gather \in Sessions \cup {NoSession}
  /\ gatherLock \in Threads \cup {Nobody}
  /\ pc \in [Threads -> Points]
  /\ writer \in [Threads -> Sessions \cup {NoSession}]
  /\ held \in Sessions \cup {NoSession}
  /\ drops \in [Threads -> Seq(DropFrame)]
  /\ strong \in [Sessions -> Nat] /\ senders \in [Sessions -> Nat]
  /\ joinable \in SUBSET Sessions
  /\ joinLock \in [Sessions -> Threads \cup {Nobody}]
  /\ requested \in SUBSET Sessions

\* A drop is begun by an idle thread, at its exit, or when start() replaces.
DropsIn ==
  \A t \in Threads : drops[t] # << >> => pc[t] \in {"idle", "exiting", "replace"}

HeldIn ==
  held # NoSession <=> pc[Main] \in {"install", "replace", "signal", "lock", "join"}

\* A first hook has no handle until it has cloned one with the lock of GATHER held;
\* a hook that registers or sends has one.
CloneLocks ==
  \A t \in Threads :
    /\ pc[t] \in {"init", "cloning"} => writer[t] = NoSession
    /\ pc[t] = "cloning" /\ Running => gatherLock = t
    /\ pc[t] \in {"register", "waiting", "hook"} => writer[t] # NoSession

ReplaceLocks == pc[Main] = "replace" => gatherLock = Main

\* A handle is of a session that was begun.
Begun == \A s \in Sessions : gatherer[s] = "none" => strong[s] = 0

AllCounting == \A s \in Sessions : Counting(s)

HandlesInv ==
  StateOK /\ DropsIn /\ HeldIn /\ CloneLocks /\ ReplaceLocks /\ Begun /\ AllCounting

IInv == SessionsInv /\ HandlesInv

\* A step that begins no session.
NoneBegun == \A s \in Sessions : gatherer'[s] = "none" => gatherer[s] = "none"

LEMMA StillCounting ==
  ASSUME AllCounting, UNCHANGED <<writer, held, gather, drops, strong, senders>>,
         pc'[Main] = "replace" <=> pc[Main] = "replace"
  PROVE  AllCounting'
<1> SUFFICES ASSUME NEW s \in Sessions PROVE Counting(s)'
  BY DEF AllCounting
<1>1. Unmoved(s, {})
  BY DEF Unmoved, Holds, Sends
<1> QED BY <1>1, CountingSame DEF AllCounting

\* The steps of the sessions leave the handles alone.
LEMMA Quiet ==
  ASSUME HandlesInv, UNCHANGED <<staticVars, threadVars, strong, senders>>,
         Running' => Running, NoneBegun,
         joinable' \in SUBSET Sessions, requested' \in SUBSET Sessions,
         joinLock' \in [Sessions -> Threads \cup {Nobody}]
  PROVE  HandlesInv'
<1>1. AllCounting'
  BY StillCounting DEF HandlesInv
<1>2. StateOK'
  BY DEF HandlesInv, StateOK
<1>3. DropsIn' /\ HeldIn' /\ CloneLocks' /\ ReplaceLocks' /\ Begun'
  BY DEF HandlesInv, DropsIn, HeldIn, CloneLocks, ReplaceLocks, Begun, NoneBegun
<1> QED BY <1>1, <1>2, <1>3 DEF HandlesInv

LEMMA SessionNextInv ==
  ASSUME IInv, NEW s \in Sessions, SessionNext(s),
         UNCHANGED <<staticVars, threadVars, handleVars>>
  PROVE  IInv'
<1>1. SessionsInv /\ HandlesInv
  BY DEF IInv
<1>2. SessionsInv'
  BY <1>1, AskInv, ResolveInv, AnswerInv, TakeDetailsInv, SendShutdownInv, FlushDetailsInv,
     LoseConnectionInv, FailedWriteInv DEF SessionNext, ResolverNext, GathererStep
<1>3. Running /\ NoneBegun
  <2>1. Running /\ (UNCHANGED gatherer \/ \E phase \in {"await", "done", "panicked"} :
                                            GathererGoes(s, phase))
    BY DEF SessionNext, ResolverNext, GathererStep, Ask, Resolve, Answer, TakeDetails,
           SendShutdown, FlushDetails, LoseConnection, FailedWrite
  <2> QED BY <1>1, <2>1 DEF NoneBegun, GathererGoes, SessionsInv, ResolverTypeOK
<1>4. HandlesInv'
  BY <1>1, <1>3, Quiet DEF HandlesInv, StateOK
<1> QED BY <1>2, <1>4 DEF IInv

LEMMA EndRunInv ==
  ASSUME IInv, NEW s \in Sessions, EndRun(s)
  PROVE  IInv'
<1>1. SessionsInv /\ HandlesInv
  BY DEF IInv
<1>2. /\ Running /\ gatherer[s] = "run"
      /\ requested' = requested \ {s} /\ BeginFlush(s)
      /\ UNCHANGED <<program, resolver, asked, hand, answers, batch, written, lost,
                     staticVars, threadVars, strong, senders, joinable, joinLock>>
  BY DEF EndRun
<1>3. SessionsInv'
  BY <1>1, <1>2, FlushInv
<1>4. NoneBegun
  BY <1>1, <1>2 DEF NoneBegun, BeginFlush, GathererGoes, SessionsInv, ResolverTypeOK
<1>5. HandlesInv'
  BY <1>1, <1>2, <1>4, Quiet DEF HandlesInv, StateOK
<1> QED BY <1>3, <1>5 DEF IInv

-----------------------------------------------------------------------------
(* The steps that only move a thread. *)

\* Thread t goes from one place to another, with no drop to do.
LEMMA Moves ==
  ASSUME StateOK, DropsIn, HeldIn, CloneLocks, ReplaceLocks, AllCounting, Begun,
         NEW t \in Threads, NEW l \in Points \ {"install", "replace", "cloning"},
         Goto(t, l), drops[t] = << >>,
         l = "init" => writer[t] = NoSession,
         l \in {"register", "waiting", "hook"} => writer[t] # NoSession,
         t # Main \/ (pc[t] \in {"signal", "lock", "join"} <=> l \in {"signal", "lock", "join"}),
         pc[t] \notin {"install", "replace"},
         enabled' \in BOOLEAN, gatherLock' = gatherLock, Running' => Running, NoneBegun,
         requested' \in SUBSET Sessions, joinable' \in SUBSET Sessions,
         joinLock' \in [Sessions -> Threads \cup {Nobody}],
         UNCHANGED <<writer, held, gather, drops, strong, senders>>
  PROVE  HandlesInv'
<1>1. /\ pc'[t] = l /\ \A u \in Threads \ {t} : pc'[u] = pc[u]
      /\ pc' \in [Threads -> Points]
  BY DEF Points, Goto, StateOK
<1>2. AllCounting'
  BY <1>1, StillCounting
<1>3. StateOK'
  BY <1>1 DEF StateOK
<1>4. DropsIn' /\ HeldIn'
  BY <1>1 DEF DropsIn, HeldIn
<1>5. CloneLocks' /\ ReplaceLocks' /\ Begun'
  BY <1>1 DEF CloneLocks, ReplaceLocks, Begun, NoneBegun
<1> QED BY <1>2, <1>3, <1>4, <1>5 DEF HandlesInv

LEMMA SameSessions ==
  ASSUME SessionsInv, UNCHANGED <<gatherer, resolver, channelVars, lost>>,
         program' \in {"running", "exited", "aborted"}
  PROVE  SessionsInv' /\ NoneBegun
<1>1. ResolverTypeOK'
  BY DEF SessionsInv, ResolverTypeOK
<1>2. \A s \in Sessions : Same(s)
  BY DEF Same
<1> QED BY <1>1, <1>2, SessionSame DEF SessionsInv, NoneBegun

LEMMA StartEnableInv ==
  ASSUME IInv, StartEnable
  PROVE  IInv'
<1>1. SessionsInv' /\ NoneBegun
  BY SameSessions DEF IInv, StartEnable, SessionsInv, ResolverTypeOK
<1>2. HandlesInv'
  BY <1>1, Moves DEF Points, IInv, HandlesInv, StartEnable, At, StateOK, DropsIn, Running
<1> QED BY <1>1, <1>2 DEF IInv

LEMMA SpawnThreadInv ==
  ASSUME IInv, NEW t \in Threads, SpawnThread(t)
  PROVE  IInv'
<1>1. SessionsInv' /\ NoneBegun
  BY SameSessions DEF IInv, SpawnThread, OnlyThreads, SessionsInv, ResolverTypeOK
<1>2. t # Main /\ drops[t] = << >>
  BY DEF IInv, HandlesInv, SpawnThread, Idle, At, DropsIn
<1>3. HandlesInv'
  BY <1>1, <1>2, Moves DEF Points, IInv, HandlesInv, SpawnThread, OnlyThreads, StateOK, Running
<1> QED BY <1>1, <1>3 DEF IInv

LEMMA ExitedInv ==
  ASSUME IInv, NEW t \in Threads, Exited(t)
  PROVE  IInv'
<1>1. SessionsInv' /\ NoneBegun
  BY SameSessions DEF IInv, Exited, SessionsInv, ResolverTypeOK
<1>2. HandlesInv'
  BY <1>1, Moves DEF Points, IInv, HandlesInv, Exited, At, StateOK, Running
<1> QED BY <1>1, <1>2 DEF IInv

LEMMA StopDisableInv ==
  ASSUME IInv, StopDisable
  PROVE  IInv'
<1>1. SessionsInv' /\ NoneBegun
  BY SameSessions DEF IInv, StopDisable, SessionsInv, ResolverTypeOK
<1>2. HandlesInv'
  BY <1>1, Moves DEF Points, IInv, HandlesInv, StopDisable, Idle, At, StateOK, Running
<1> QED BY <1>1, <1>2 DEF IInv

LEMMA StopSignalInv ==
  ASSUME IInv, StopSignal
  PROVE  IInv'
<1>1. SessionsInv' /\ NoneBegun
  BY SameSessions DEF IInv, StopSignal, SessionsInv, ResolverTypeOK
<1>2. requested' \in SUBSET Sessions
  BY DEF IInv, HandlesInv, StopSignal, Signalled, StateOK, HeldIn, At
<1>3. HandlesInv'
  BY <1>1, <1>2, Moves DEF Points, IInv, HandlesInv, StopSignal, At, StateOK, DropsIn, Running
<1> QED BY <1>1, <1>3 DEF IInv

LEMMA EnterHookInv ==
  ASSUME IInv, NEW t \in Threads, EnterHook(t)
  PROVE  IInv'
<1>1. SessionsInv' /\ NoneBegun
  BY SameSessions DEF IInv, EnterHook, OnlyThreads, SessionsInv, ResolverTypeOK
<1>2. PICK l \in {"init", "hook"} :
        /\ Goto(t, l)
        /\ l = "init" => writer[t] = NoSession
        /\ l = "hook" => writer[t] # NoSession
  BY DEF EnterHook
<1>3. l \in Points \ {"install", "replace", "cloning"}
  BY <1>2 DEF Points
<1>4. HandlesInv'
  BY <1>1, <1>2, <1>3, Moves
  DEF IInv, HandlesInv, EnterHook, Idle, At, OnlyThreads, StateOK, Running
<1> QED BY <1>1, <1>4 DEF IInv

LEMMA SendInv ==
  ASSUME IInv, NEW t \in Threads, pc[t] \in {"register", "hook"}, Running,
         NEW l \in {"waiting", "idle"}, Send(t, l)
  PROVE  IInv'
<1>1. /\ UNCHANGED <<gatherer, resolver, channelVars, lost, staticVars, writer, held, drops,
                     handleVars>>
      /\ \/ Goto(t, l) /\ UNCHANGED program
         \/ program' = "aborted" /\ UNCHANGED pc
  BY DEF Send
<1>2. SessionsInv /\ HandlesInv
  BY DEF IInv
<1>3. SessionsInv' /\ NoneBegun
  BY <1>1, <1>2, SameSessions DEF SessionsInv, ResolverTypeOK
<1>4. /\ joinable' \in SUBSET Sessions /\ requested' \in SUBSET Sessions
      /\ joinLock' \in [Sessions -> Threads \cup {Nobody}] /\ enabled' \in BOOLEAN
  BY <1>1, <1>2 DEF HandlesInv, StateOK
<1>5. CASE Goto(t, l) /\ UNCHANGED program
  <2>1. l \in Points \ {"install", "replace", "cloning"}
    BY DEF Points
  <2>2. drops[t] = << >> /\ writer[t] # NoSession
    BY <1>2 DEF HandlesInv, DropsIn, CloneLocks
  <2>3. HandlesInv'
    BY <1>1, <1>2, <1>3, <1>4, <1>5, <2>1, <2>2, Moves DEF HandlesInv, Running
  <2> QED BY <1>3, <2>3 DEF IInv
<1>6. CASE program' = "aborted" /\ UNCHANGED pc
  <2>1. HandlesInv'
    BY <1>1, <1>2, <1>3, <1>4, <1>6, Quiet DEF Running
  <2> QED BY <1>3, <2>1 DEF IInv
<1> QED BY <1>1, <1>5, <1>6

LEMMA RegisterInv ==
  ASSUME IInv, NEW t \in Threads, Register(t)
  PROVE  IInv'
  BY SendInv DEF Register, At

LEMMA AcceptInv ==
  ASSUME IInv, NEW s \in Sessions, Accept(s)
  PROVE  IInv'
<1>1. SessionsInv' /\ NoneBegun
  BY SameSessions DEF IInv, Accept, OnlyThreads, SessionsInv, ResolverTypeOK
<1>2. PICK t \in Threads : pc[t] = "waiting" /\ writer[t] = s /\ Goto(t, "hook")
  BY DEF Accept
<1>3. "hook" \in Points \ {"install", "replace", "cloning"}
  BY DEF Points
<1>4. drops[t] = << >> /\ writer[t] # NoSession
  BY <1>2 DEF IInv, HandlesInv, DropsIn, CloneLocks
<1>5. HandlesInv'
  BY <1>1, <1>2, <1>3, <1>4, Moves
  DEF IInv, HandlesInv, Accept, OnlyThreads, StateOK, Running
<1> QED BY <1>1, <1>5 DEF IInv

LEMMA EndHookInv ==
  ASSUME IInv, NEW t \in Threads, EndHook(t)
  PROVE  IInv'
<1>1. CASE Send(t, "idle")
  BY <1>1, SendInv DEF EndHook, At
<1>2. CASE Goto(t, "idle") /\ UNCHANGED <<writer, held, drops>> /\ OnlyThreads
  <2>1. SessionsInv' /\ NoneBegun
    BY <1>2, SameSessions DEF IInv, OnlyThreads, SessionsInv, ResolverTypeOK
  <2>2. "idle" \in Points \ {"install", "replace", "cloning"}
    BY DEF Points
  <2>3. drops[t] = << >> /\ pc[t] = "hook"
    BY DEF IInv, HandlesInv, DropsIn, EndHook, At
  <2>4. HandlesInv'
    BY <1>2, <2>1, <2>2, <2>3, Moves DEF IInv, HandlesInv, OnlyThreads, StateOK, Running
  <2> QED BY <2>1, <2>4 DEF IInv
<1> QED BY <1>1, <1>2 DEF EndHook

LEMMA CloneLockInv ==
  ASSUME IInv, NEW t \in Threads, CloneLock(t)
  PROVE  IInv'
<1>1. SessionsInv' /\ NoneBegun
  BY SameSessions DEF IInv, CloneLock, SessionsInv, ResolverTypeOK
<1>2. /\ pc[t] = "init" /\ drops[t] = << >> /\ writer[t] = NoSession
      /\ Running /\ gatherLock = Nobody /\ gatherLock' = t /\ Goto(t, "cloning")
      /\ UNCHANGED <<sessionVars, enabled, gather, writer, held, drops, handleVars>>
  BY DEF CloneLock, At, IInv, HandlesInv, DropsIn, CloneLocks
<1>3. HandlesInv
  BY DEF IInv
<1>4. /\ pc'[t] = "cloning" /\ \A u \in Threads \ {t} : pc'[u] = pc[u]
      /\ pc' \in [Threads -> Points]
  BY <1>2, <1>3 DEF Points, Goto, HandlesInv, StateOK
<1>5. AllCounting'
  BY <1>2, <1>3, <1>4, StillCounting DEF HandlesInv
<1>6. StateOK'
  BY <1>2, <1>3, <1>4 DEF HandlesInv, StateOK
<1>7. DropsIn' /\ HeldIn' /\ Begun'
  BY <1>1, <1>2, <1>3, <1>4 DEF HandlesInv, DropsIn, HeldIn, Begun, NoneBegun
<1>8. CloneLocks' /\ ReplaceLocks'
  BY <1>2, <1>3, <1>4 DEF HandlesInv, CloneLocks, ReplaceLocks, Running
<1> QED BY <1>1, <1>5, <1>6, <1>7, <1>8 DEF IInv, HandlesInv

-----------------------------------------------------------------------------
(* The steps that move a handle. *)

SameFrames(q, r) ==
  /\ q \in Seq(DropFrame) /\ Len(q) = Len(r)
  /\ \A s, i \in Nat : /\ FrameOf(q, i, s) <=> FrameOf(r, i, s)
                       /\ FreshOf(q, i, s) <=> FreshOf(r, i, s)

LEMMA FreshFrame ==
  ASSUME NEW s \in Sessions
  PROVE  Fresh(s) \in DropFrame /\ Fresh(s).session = s /\ Fresh(s).at = "senders"
  BY DEF Fresh, DropFrame

LEMMA SameFramesSelf ==
  ASSUME StateOK, NEW t \in Threads
  PROVE  SameFrames(drops[t], drops[t])
  BY DEF SameFrames, StateOK

LEMMA FirstFrame ==
  ASSUME NEW f \in DropFrame
  PROVE  <<f>> = <<f>> \o << >>
  OBVIOUS

\* The places other than the drops, and their handles after the step.
Elsewhere(s, x) ==
  \A k \in {"writer", "held", "gather"} : \A t \in Threads : \A i \in Nat :
    <<k, t, i>> # x => (Holds(k, t, i, s)' <=> Holds(k, t, i, s))

\* The handle of session c in place x is now in a drop that thread t begins.
LEMMA IntoDrop ==
  ASSUME StateOK, AllCounting, NEW c \in Sessions, NEW t \in Threads,
         NEW k \in {"writer", "held", "gather"}, NEW u \in Threads,
         NEW q, SameFrames(q, drops[t]),
         drops' = [drops EXCEPT ![t] = <<Fresh(c)>> \o q],
         \A s \in Sessions : /\ Elsewhere(s, <<k, u, 0>>)
                             /\ Holds(k, u, 0, s) <=> s = c
                             /\ ~Holds(k, u, 0, s)',
         UNCHANGED <<strong, senders>>
  PROVE  AllCounting' /\ drops' \in [Threads -> Seq(DropFrame)]
<1> DEFINE n == Len(q)
           x == <<k, u, 0>>
           y == <<"drop", t, n>>
           r == <<Fresh(c)>> \o q
<1>1. /\ r \in Seq(DropFrame) /\ n \in Nat
      /\ \A s, i \in Nat :
              /\ i # n => /\ FrameOf(r, i, s) <=> FrameOf(q, i, s)
                          /\ FreshOf(r, i, s) <=> FreshOf(q, i, s)
              /\ i = n => /\ ~FrameOf(q, i, s)
                          /\ FrameOf(r, i, s) <=> Fresh(c).session = s
                          /\ FreshOf(r, i, s) <=> Fresh(c).session = s
                                                  /\ Fresh(c).at = "senders"
  BY PushFrames, FreshFrame DEF SameFrames
<1>2. Fresh(c).session = c /\ Fresh(c).at = "senders"
  BY FreshFrame
<1> HIDE DEF n, r
<1>3. \A s, i \in Nat :
              /\ i # n => /\ FrameOf(r, i, s) <=> FrameOf(drops[t], i, s)
                          /\ FreshOf(r, i, s) <=> FreshOf(drops[t], i, s)
              /\ i = n => /\ ~FrameOf(drops[t], i, s)
                          /\ FrameOf(r, i, s) <=> c = s
                          /\ FreshOf(r, i, s) <=> c = s
  BY <1>1, <1>2 DEF SameFrames
<1>4. /\ drops' \in [Threads -> Seq(DropFrame)]
      /\ drops'[t] = r /\ \A v \in Threads \ {t} : drops'[v] = drops[v]
  BY <1>1 DEF StateOK, r
<1>5. x \in Places /\ y \in Places /\ x # y
  BY <1>1 DEF Places
<1>6. ASSUME NEW s \in Sessions PROVE Counting(s)'
  <2>1. \A v \in Threads, i \in Nat :
          <<v, i>> # <<t, n>> => /\ FrameOf(drops'[v], i, s) <=> FrameOf(drops[v], i, s)
                                 /\ FreshOf(drops'[v], i, s) <=> FreshOf(drops[v], i, s)
    <3> SUFFICES ASSUME NEW v \in Threads, NEW i \in Nat, <<v, i>> # <<t, n>>
                 PROVE  /\ FrameOf(drops'[v], i, s) <=> FrameOf(drops[v], i, s)
                        /\ FreshOf(drops'[v], i, s) <=> FreshOf(drops[v], i, s)
      OBVIOUS
    <3>1. CASE v = t
      BY <1>3, <1>4, <3>1
    <3>2. CASE v # t
      BY <1>4, <3>2
    <3> QED BY <3>1, <3>2
  <2>2. Unmoved(s, {x, y})
    <3> SUFFICES ASSUME NEW kk \in {"writer", "held", "gather", "drop"},
                        NEW v \in Threads, NEW i \in Nat, <<kk, v, i>> \notin {x, y}
                 PROVE  /\ Holds(kk, v, i, s)' <=> Holds(kk, v, i, s)
                        /\ Sends(kk, v, i, s)' <=> Sends(kk, v, i, s)
      BY DEF Unmoved
    <3>1. CASE kk = "drop"
      <4>1. <<v, i>> # <<t, n>>
        BY <3>1
      <4> QED BY <2>1, <3>1, <4>1 DEF Holds, Sends
    <3>2. CASE kk # "drop"
      <4>1. Holds(kk, v, i, s)' <=> Holds(kk, v, i, s)
        BY <3>2 DEF Elsewhere
      <4> QED BY <3>2, <4>1 DEF Sends
    <3> QED BY <3>1, <3>2
  <2>3. (x \in Handles(s) <=> s = c) /\ (x \in Sending(s) <=> s = c)
    BY <1>5 DEF Handles, Sending, Sends
  <2>4. (x \notin Handles(s))' /\ (x \notin Sending(s))'
    BY <1>5 DEF Handles, Sending, Sends
  <2>5. ~FrameOf(drops[t], n, s) /\ (FrameOf(drops'[t], n, s) <=> c = s)
        /\ (FreshOf(drops'[t], n, s) <=> c = s)
    BY <1>1, <1>3, <1>4
  <2>6. /\ y \notin Handles(s) /\ y \notin Sending(s)
        /\ (y \in Handles(s))' <=> s = c
        /\ (y \in Sending(s))' <=> s = c
    BY <1>5, <2>5 DEF Handles, Sending, Sends, Holds
  <2>7. CASE s = c
    BY <1>5, <2>2, <2>3, <2>4, <2>6, <2>7, CountingMove DEF AllCounting
  <2>8. CASE s # c
    <3>1. Handles(s)' = Handles(s)
      <4>1. ASSUME NEW h \in Places PROVE (h \in Handles(s))' <=> h \in Handles(s)
        <5>1. CASE h \in {x, y}
          BY <2>3, <2>4, <2>6, <2>8, <5>1
        <5>2. CASE h \notin {x, y}
          BY <2>2, <5>2 DEF Unmoved, Handles, Places
        <5> QED BY <5>1, <5>2
      <4>2. Handles(s) \subseteq Places /\ Handles(s)' \subseteq Places
        BY DEF Handles, Places
      <4> QED BY <4>1, <4>2
    <3>2. Sending(s)' = Sending(s)
      <4>1. ASSUME NEW h \in Places PROVE (h \in Sending(s))' <=> h \in Sending(s)
        <5>1. CASE h \in {x, y}
          BY <2>3, <2>4, <2>6, <2>8, <5>1
        <5>2. CASE h \notin {x, y}
          BY <2>2, <5>2 DEF Unmoved, Sending, Places
        <5> QED BY <5>1, <5>2
      <4>2. Sending(s) \subseteq Places /\ Sending(s)' \subseteq Places
        BY DEF Sending, Places
      <4> QED BY <4>1, <4>2
    <3> QED BY <3>1, <3>2 DEF AllCounting, Counting
  <2> QED BY <2>7, <2>8
<1> QED BY <1>4, <1>6 DEF AllCounting

\* A drop goes on, and its senders stay as they are.
LEMMA SameDrops ==
  ASSUME StateOK, AllCounting, NEW t \in Threads, NEW q, SameFrames(q, drops[t]),
         drops' = [drops EXCEPT ![t] = q],
         UNCHANGED <<writer, held, gather, pc, strong, senders>>
  PROVE  AllCounting' /\ drops' \in [Threads -> Seq(DropFrame)]
<1>1. /\ drops' \in [Threads -> Seq(DropFrame)]
      /\ drops'[t] = q /\ \A v \in Threads \ {t} : drops'[v] = drops[v]
  BY DEF StateOK, SameFrames
<1>2. ASSUME NEW s \in Sessions PROVE Counting(s)'
  <2>1. \A v \in Threads, i \in Nat :
          /\ FrameOf(drops'[v], i, s) <=> FrameOf(drops[v], i, s)
          /\ FreshOf(drops'[v], i, s) <=> FreshOf(drops[v], i, s)
    BY <1>1 DEF SameFrames
  <2>2. Unmoved(s, {})
    BY <2>1 DEF Unmoved, Holds, Sends
  <2> QED BY <2>2, CountingSame DEF AllCounting
<1> QED BY <1>1, <1>2 DEF AllCounting

LEMMA ThenSame ==
  ASSUME StateOK, NEW t \in Threads, drops[t] # << >>,
         Head(drops[t]).at # "senders",
         NEW at \in {"count", "static", "lock", "join", "release"}
  PROVE  SameFrames(Then(t, at), drops[t]) /\ Then(t, at) # << >>
<1>1. drops[t] \in Seq(DropFrame)
  BY DEF StateOK
<1>2. /\ Then(t, at) \in Seq(DropFrame) /\ Then(t, at) # << >>
      /\ Len(Then(t, at)) = Len(drops[t])
      /\ \A s, i \in Nat :
           /\ FrameOf(Then(t, at), i, s) <=> FrameOf(drops[t], i, s)
           /\ i # Len(drops[t]) - 1 =>
                (FreshOf(Then(t, at), i, s) <=> FreshOf(drops[t], i, s))
           /\ i = Len(drops[t]) - 1 =>
                (FreshOf(Then(t, at), i, s) <=> Head(drops[t]).session = s /\ at = "senders")
  BY ZenonT(40), <1>1, ThenFrames DEF Then
<1>3. \A s, i \in Nat : i = Len(drops[t]) - 1 => ~FreshOf(drops[t], i, s)
  BY <1>1, PopFrames
<1> QED BY <1>2, <1>3 DEF SameFrames

-----------------------------------------------------------------------------
(* start() *)

LEMMA StartNewInv ==
  ASSUME IInv, StartNew
  PROVE  IInv'
<1>1. PICK s \in Sessions :
        /\ Spawn(s) /\ held' = s
        /\ strong' = [strong EXCEPT ![s] = 1]
        /\ senders' = [senders EXCEPT ![s] = 1]
        /\ joinable' = joinable \cup {s}
  BY DEF StartNew
<1>2. /\ Running /\ pc[Main] = "idle" /\ drops[Main] = << >> /\ Goto(Main, "install")
      /\ UNCHANGED <<program, staticVars, writer, drops, joinLock, requested>>
  BY DEF StartNew, Idle, At
<1>3. SessionsInv /\ HandlesInv
  BY DEF IInv
<1>4. /\ SessionsInv' /\ gatherer[s] = "none" /\ gatherer'[s] = "run"
      /\ \A r \in Sessions \ {s} : gatherer'[r] = gatherer[r]
  BY <1>1, <1>2, <1>3, SpawnInv DEF Spawn
<1>5. /\ pc'[Main] = "install" /\ \A u \in Threads \ {Main} : pc'[u] = pc[u]
      /\ pc' \in [Threads -> Points]
  BY <1>2, <1>3 DEF Points, Goto, HandlesInv, StateOK
<1>6. StateOK'
  BY <1>1, <1>2, <1>3, <1>5 DEF HandlesInv, StateOK
<1>7. DropsIn' /\ HeldIn' /\ CloneLocks' /\ ReplaceLocks'
  BY <1>1, <1>2, <1>3, <1>5
  DEF HandlesInv, DropsIn, HeldIn, CloneLocks, ReplaceLocks, Running
<1>8. Begun'
  BY <1>1, <1>3, <1>4 DEF HandlesInv, StateOK, Begun
<1>9. held = NoSession
  BY <1>2, <1>3 DEF HandlesInv, HeldIn
<1>10. ASSUME NEW r \in Sessions PROVE Counting(r)'
  <2> DEFINE y == <<"held", Main, 0>>
  <2>1. Counting(r) /\ y \in Places
    BY <1>3 DEF HandlesInv, AllCounting, Places
  <2>2. Unmoved(r, {y})
    BY <1>2, <1>5 DEF Unmoved, Holds, Sends
  <2>3. CASE r = s
    <3>1. strong[r] = 0 /\ senders[r] = 0
      BY <1>3, <1>4, <2>1, <2>3, CountingTypes DEF HandlesInv, Begun
    <3>2. strong'[r] = 1 /\ senders'[r] = 1
      BY <1>1, <1>3, <2>3 DEF HandlesInv, StateOK
    <3>3. y \notin Handles(r) /\ (y \in Sending(r))'
      BY <1>1, <1>9, <2>1, <2>3 DEF Handles, Sending, Sends, Holds
    <3> QED BY <2>1, <2>2, <3>1, <3>2, <3>3, CountingAdd
  <2>4. CASE r # s
    <3>1. strong'[r] = strong[r] /\ senders'[r] = senders[r]
      BY <1>1, <1>3, <2>4 DEF HandlesInv, StateOK
    <3>2. Unmoved(r, {})
      BY <1>1, <1>2, <1>5, <1>9, <2>4 DEF Unmoved, Holds, Sends
    <3> QED BY <2>1, <3>1, <3>2, CountingSame
  <2> QED BY <2>3, <2>4
<1> QED BY <1>4, <1>6, <1>7, <1>8, <1>10 DEF IInv, HandlesInv, AllCounting

LEMMA StartLockInv ==
  ASSUME IInv, StartLock
  PROVE  IInv'
<1>1. /\ Running /\ pc[Main] = "install" /\ gatherLock = Nobody /\ gatherLock' = Main
      /\ drops' = IF gather = NoSession THEN drops
                  ELSE [drops EXCEPT ![Main] = <<Fresh(gather)>>]
      /\ Goto(Main, "replace")
      /\ UNCHANGED <<sessionVars, enabled, gather, writer, held, handleVars>>
  BY DEF StartLock, At
<1>2. SessionsInv /\ HandlesInv
  BY DEF IInv
<1>3. SessionsInv' /\ NoneBegun
  BY <1>1, <1>2, SameSessions DEF SessionsInv, ResolverTypeOK
<1>4. /\ pc'[Main] = "replace" /\ \A u \in Threads \ {Main} : pc'[u] = pc[u]
      /\ pc' \in [Threads -> Points]
  BY <1>1, <1>2 DEF Points, Goto, HandlesInv, StateOK
<1>5. drops[Main] = << >>
  BY <1>1, <1>2 DEF HandlesInv, DropsIn
<1>6. AllCounting' /\ drops' \in [Threads -> Seq(DropFrame)]
  <2>1. CASE gather = NoSession
    <3>1. ASSUME NEW s \in Sessions PROVE Counting(s)'
      <4>1. Unmoved(s, {})
        BY <1>1, <2>1 DEF Unmoved, Holds, Sends
      <4> QED BY <1>1, <1>2, <4>1, CountingSame DEF HandlesInv, AllCounting
    <3> QED BY <1>1, <1>2, <2>1, <3>1 DEF HandlesInv, StateOK, AllCounting
  <2>2. CASE gather # NoSession
    <3>1. gather \in Sessions
      BY <1>2, <2>2 DEF HandlesInv, StateOK
    <3>2. drops' = [drops EXCEPT ![Main] = <<Fresh(gather)>> \o drops[Main]]
      BY <1>1, <1>5, <2>2, <3>1, FirstFrame, FreshFrame
    <3>3. SameFrames(drops[Main], drops[Main])
      BY <1>2, SameFramesSelf DEF HandlesInv
    <3>4. \A s \in Sessions : /\ Elsewhere(s, <<"gather", Main, 0>>)
                              /\ Holds("gather", Main, 0, s) <=> s = gather
                              /\ ~Holds("gather", Main, 0, s)'
      BY <1>1, <1>4 DEF Elsewhere, Holds
    <3> QED BY <1>1, <1>2, <3>1, <3>2, <3>3, <3>4, IntoDrop DEF HandlesInv
  <2> QED BY <2>1, <2>2
<1>7. StateOK'
  BY <1>1, <1>2, <1>4, <1>6 DEF HandlesInv, StateOK
<1>8. DropsIn'
  BY <1>1, <1>2, <1>4 DEF HandlesInv, DropsIn, StateOK
<1>9. HeldIn' /\ CloneLocks' /\ ReplaceLocks' /\ Begun'
  BY <1>1, <1>2, <1>3, <1>4
  DEF HandlesInv, HeldIn, CloneLocks, ReplaceLocks, Begun, NoneBegun, Running
<1> QED BY <1>3, <1>6, <1>7, <1>8, <1>9 DEF IInv, HandlesInv

LEMMA StartStoreInv ==
  ASSUME IInv, StartStore
  PROVE  IInv'
<1>1. /\ Running /\ pc[Main] = "replace" /\ drops[Main] = << >>
      /\ gather' = held /\ held' = NoSession /\ gatherLock' = Nobody
      /\ Goto(Main, "enable")
      /\ UNCHANGED <<sessionVars, enabled, writer, drops, handleVars>>
  BY DEF StartStore, At
<1>2. SessionsInv /\ HandlesInv
  BY DEF IInv
<1>3. SessionsInv' /\ NoneBegun
  BY <1>1, <1>2, SameSessions DEF SessionsInv, ResolverTypeOK
<1>4. /\ pc'[Main] = "enable" /\ \A u \in Threads \ {Main} : pc'[u] = pc[u]
      /\ pc' \in [Threads -> Points]
  BY <1>1, <1>2 DEF Points, Goto, HandlesInv, StateOK
<1>5. held \in Sessions
  BY <1>1, <1>2 DEF HandlesInv, StateOK, HeldIn
<1>6. ASSUME NEW s \in Sessions PROVE Counting(s)'
  <2> DEFINE x == <<"held", Main, 0>>
             y == <<"gather", Main, 0>>
  <2>1. Counting(s) /\ x \in Places /\ y \in Places
    BY <1>2 DEF HandlesInv, AllCounting, Places
  <2>2. CASE s = held
    <3>1. Unmoved(s, {x, y})
      BY <1>1 DEF Unmoved, Holds, Sends
    <3>2. x \in Sending(s) /\ y \notin Handles(s)
      BY <1>1, <2>1, <2>2 DEF Sending, Sends, Handles, Holds
    <3>3. (x \notin Handles(s))' /\ (y \in Sending(s))'
      BY <1>1, <1>4, <2>1, <2>2 DEF Sending, Sends, Handles, Holds
    <3> QED BY <1>1, <2>1, <3>1, <3>2, <3>3, CountingMove
  <2>3. CASE s # held
    <3>1. Unmoved(s, {})
      BY <1>1, <1>4, <2>3 DEF Unmoved, Holds, Sends
    <3> QED BY <1>1, <2>1, <3>1, CountingSame
  <2> QED BY <2>2, <2>3
<1>7. StateOK'
  BY <1>1, <1>2, <1>4, <1>5 DEF HandlesInv, StateOK
<1>8. DropsIn' /\ HeldIn' /\ ReplaceLocks' /\ Begun'
  BY <1>1, <1>2, <1>3, <1>4
  DEF HandlesInv, DropsIn, HeldIn, ReplaceLocks, Begun, NoneBegun
<1>9. CloneLocks'
  BY <1>1, <1>2, <1>4 DEF HandlesInv, CloneLocks, ReplaceLocks, Running
<1> QED BY <1>3, <1>6, <1>7, <1>8, <1>9 DEF IInv, HandlesInv, AllCounting

-----------------------------------------------------------------------------
(* Threads *)

LEMMA CloneInv ==
  ASSUME IInv, NEW t \in Threads, Clone(t)
  PROVE  IInv'
<1>1. /\ Running /\ pc[t] = "cloning" /\ gatherLock' = Nobody
      /\ UNCHANGED <<gatherer, resolver, channelVars, lost, enabled, gather, held, drops,
                 joinable, joinLock, requested>>
  BY DEF Clone, At
<1>2. SessionsInv /\ HandlesInv
  BY DEF IInv
<1>3. gatherLock = t /\ writer[t] = NoSession /\ pc[Main] # "replace"
  BY <1>1, <1>2 DEF HandlesInv, CloneLocks, ReplaceLocks
<1>4. CASE /\ gather # NoSession
           /\ writer' = [writer EXCEPT ![t] = gather]
           /\ strong' = Counted(gather)
           /\ senders' = [senders EXCEPT ![gather] = @ + 1]
           /\ Goto(t, "register")
           /\ UNCHANGED program
  <2>1. SessionsInv' /\ NoneBegun
    BY <1>1, <1>2, <1>4, SameSessions DEF SessionsInv, ResolverTypeOK
  <2>2. /\ pc'[t] = "register" /\ \A u \in Threads \ {t} : pc'[u] = pc[u]
        /\ pc' \in [Threads -> Points]
    BY <1>2, <1>4 DEF Points, Goto, HandlesInv, StateOK
  <2>3. gather \in Sessions
    BY <1>2, <1>4 DEF HandlesInv, StateOK
  <2>4. /\ writer'[t] = gather /\ \A u \in Threads \ {t} : writer'[u] = writer[u]
        /\ strong'[gather] = strong[gather] + 1
        /\ senders'[gather] = senders[gather] + 1
        /\ \A s \in Sessions \ {gather} : strong'[s] = strong[s] /\ senders'[s] = senders[s]
    BY <1>2, <1>4, <2>3 DEF HandlesInv, StateOK, Counted
  <2>5. StateOK'
    <3>1. strong' \in [Sessions -> Nat] /\ senders' \in [Sessions -> Nat]
      BY SMTT(30), <1>2, <1>4, <2>3 DEF HandlesInv, StateOK, Counted
    <3> QED BY <1>1, <1>2, <1>4, <2>2, <2>3, <3>1 DEF HandlesInv, StateOK
  <2>6. DropsIn' /\ HeldIn' /\ ReplaceLocks'
    BY <1>1, <1>2, <1>3, <2>2 DEF HandlesInv, DropsIn, HeldIn, ReplaceLocks
  <2>7. CloneLocks'
    BY <1>1, <1>2, <1>3, <1>4, <2>2, <2>4 DEF HandlesInv, CloneLocks
  <2>8. Begun'
    <3>1. <<"gather", Main, 0>> \in Handles(gather)
      BY <1>3 DEF Handles, Holds, Places
    <3>2. strong[gather] \in Nat \ {0}
      BY <1>2, <2>3, <3>1, SomeHandle DEF HandlesInv, AllCounting
    <3>3. gatherer[gather] # "none"
      BY <1>2, <2>3, <3>2 DEF HandlesInv, Begun
    <3> QED BY <1>1, <1>2, <1>4, <2>4, <3>3 DEF HandlesInv, Begun
  <2>9. ASSUME NEW s \in Sessions PROVE Counting(s)'
    <3> DEFINE y == <<"writer", t, 0>>
    <3>1. Counting(s) /\ y \in Places
      BY <1>2 DEF HandlesInv, AllCounting, Places
    <3>2. pc'[Main] # "replace"
      BY <1>3, <2>2
    <3>3. CASE s = gather
      <4>1. Unmoved(s, {y})
        BY <1>1, <1>3, <2>4, <3>2 DEF Unmoved, Holds, Sends
      <4>2. y \notin Handles(s) /\ (y \in Sending(s))'
        BY <1>3, <2>4, <3>1, <3>3 DEF Sending, Sends, Handles, Holds
      <4> QED BY <2>4, <3>1, <3>3, <4>1, <4>2, CountingAdd
    <3>4. CASE s # gather
      <4>1. Unmoved(s, {})
        BY <1>1, <1>3, <2>4, <3>2, <3>4 DEF Unmoved, Holds, Sends
      <4> QED BY <2>4, <3>1, <3>4, <4>1, CountingSame
    <3> QED BY <3>3, <3>4
  <2> QED BY <2>1, <2>5, <2>6, <2>7, <2>8, <2>9 DEF IInv, HandlesInv, AllCounting
<1>5. CASE /\ gather = NoSession /\ program' = "aborted"
           /\ UNCHANGED <<writer, strong, senders, pc>>
  <2>1. SessionsInv' /\ NoneBegun /\ ~Running'
    BY <1>1, <1>2, <1>5, SameSessions DEF Running
  <2>2. AllCounting'
    BY <1>1, <1>2, <1>5, StillCounting DEF HandlesInv
  <2>3. StateOK' /\ DropsIn' /\ HeldIn' /\ Begun'
    BY <1>1, <1>2, <1>5, <2>1 DEF HandlesInv, StateOK, DropsIn, HeldIn, Begun, NoneBegun
  <2>4. CloneLocks' /\ ReplaceLocks'
    BY <1>1, <1>2, <1>3, <1>5, <2>1 DEF HandlesInv, CloneLocks, ReplaceLocks
  <2> QED BY <2>1, <2>2, <2>3, <2>4 DEF IInv, HandlesInv
<1> QED BY <1>4, <1>5 DEF Clone

LEMMA ExitInv ==
  ASSUME IInv, NEW t \in Threads, Exit(t)
  PROVE  IInv'
<1>1. /\ Running /\ pc[t] = "idle" /\ drops[t] = << >>
      /\ writer' = [writer EXCEPT ![t] = NoSession]
      /\ drops' = IF writer[t] = NoSession THEN drops
                  ELSE [drops EXCEPT ![t] = <<Fresh(writer[t])>>]
      /\ Goto(t, "exiting")
      /\ UNCHANGED <<sessionVars, staticVars, handleVars, held>>
  BY DEF Exit, Idle, At, OnlyThreads
<1>2. SessionsInv /\ HandlesInv
  BY DEF IInv
<1>3. SessionsInv' /\ NoneBegun
  BY <1>1, <1>2, SameSessions DEF SessionsInv, ResolverTypeOK
<1>4. /\ pc'[t] = "exiting" /\ \A u \in Threads \ {t} : pc'[u] = pc[u]
      /\ pc' \in [Threads -> Points]
      /\ pc'[Main] = "replace" <=> pc[Main] = "replace"
  BY <1>1, <1>2 DEF Points, Goto, HandlesInv, StateOK
<1>5. /\ writer'[t] = NoSession /\ \A u \in Threads \ {t} : writer'[u] = writer[u]
      /\ writer' \in [Threads -> Sessions \cup {NoSession}]
  BY <1>1, <1>2 DEF HandlesInv, StateOK
<1>6. AllCounting' /\ drops' \in [Threads -> Seq(DropFrame)]
  <2>1. CASE writer[t] = NoSession
    <3>1. writer' = writer /\ drops' = drops
      BY <1>1, <1>2, <2>1 DEF HandlesInv, StateOK
    <3> QED BY <1>1, <1>2, <1>4, <3>1, StillCounting DEF HandlesInv, StateOK
  <2>2. CASE writer[t] # NoSession
    <3>1. writer[t] \in Sessions
      BY <1>2, <2>2 DEF HandlesInv, StateOK
    <3>2. drops' = [drops EXCEPT ![t] = <<Fresh(writer[t])>> \o drops[t]]
      BY <1>1, <2>2, <3>1, FirstFrame, FreshFrame
    <3>3. SameFrames(drops[t], drops[t])
      BY <1>2, SameFramesSelf DEF HandlesInv
    <3>4. \A s \in Sessions : /\ Elsewhere(s, <<"writer", t, 0>>)
                              /\ Holds("writer", t, 0, s) <=> s = writer[t]
                              /\ ~Holds("writer", t, 0, s)'
      BY <1>1, <1>4, <1>5 DEF Elsewhere, Holds
    <3> QED BY <1>1, <1>2, <3>1, <3>2, <3>3, <3>4, IntoDrop DEF HandlesInv
  <2> QED BY <2>1, <2>2
<1>7. StateOK'
  BY <1>1, <1>2, <1>4, <1>5, <1>6 DEF HandlesInv, StateOK
<1>8. DropsIn'
  BY <1>1, <1>2, <1>4 DEF HandlesInv, DropsIn, StateOK
<1>9. HeldIn' /\ CloneLocks' /\ ReplaceLocks' /\ Begun'
  BY <1>1, <1>2, <1>3, <1>4, <1>5
  DEF HandlesInv, HeldIn, CloneLocks, ReplaceLocks, Begun, NoneBegun
<1> QED BY <1>3, <1>6, <1>7, <1>8, <1>9 DEF IInv, HandlesInv

-----------------------------------------------------------------------------
(* stop() *)

LEMMA StopTakeInv ==
  ASSUME IInv, StopTake
  PROVE  IInv'
<1>1. /\ Running /\ pc[Main] = "stopping" /\ gather' = NoSession /\ held' = gather
      /\ Goto(Main, IF gather = NoSession THEN "idle" ELSE "signal")
      /\ UNCHANGED <<sessionVars, enabled, gatherLock, writer, drops, handleVars>>
  BY DEF StopTake, At
<1>2. SessionsInv /\ HandlesInv
  BY DEF IInv
<1>3. SessionsInv' /\ NoneBegun
  BY <1>1, <1>2, SameSessions DEF SessionsInv, ResolverTypeOK
<1>4. /\ pc'[Main] = IF gather = NoSession THEN "idle" ELSE "signal"
      /\ \A u \in Threads \ {Main} : pc'[u] = pc[u]
      /\ pc' \in [Threads -> Points]
  BY <1>1, <1>2 DEF Points, Goto, HandlesInv, StateOK
<1>5. held = NoSession /\ drops[Main] = << >>
  BY <1>1, <1>2 DEF HandlesInv, HeldIn, DropsIn
<1>6. ASSUME NEW s \in Sessions PROVE Counting(s)'
  <2> DEFINE x == <<"gather", Main, 0>>
             y == <<"held", Main, 0>>
  <2>1. Counting(s) /\ x \in Places /\ y \in Places
    BY <1>2 DEF HandlesInv, AllCounting, Places
  <2>2. CASE s = gather
    <3>1. Unmoved(s, {x, y})
      BY <1>1 DEF Unmoved, Holds, Sends
    <3>2. x \in Sending(s) /\ y \notin Handles(s)
      BY <1>1, <1>5, <2>1, <2>2 DEF Sending, Sends, Handles, Holds
    <3>3. (x \notin Handles(s))' /\ (y \in Sending(s))'
      BY <1>1, <1>4, <2>1, <2>2 DEF Sending, Sends, Handles, Holds
    <3> QED BY <1>1, <2>1, <3>1, <3>2, <3>3, CountingMove
  <2>3. CASE s # gather
    <3>1. Unmoved(s, {})
      BY <1>1, <1>4, <1>5, <2>3 DEF Unmoved, Holds, Sends
    <3> QED BY <1>1, <2>1, <3>1, CountingSame
  <2> QED BY <2>2, <2>3
<1>7. StateOK'
  BY <1>1, <1>2, <1>4 DEF HandlesInv, StateOK
<1>8. DropsIn' /\ HeldIn' /\ CloneLocks' /\ ReplaceLocks' /\ Begun'
  BY <1>1, <1>2, <1>3, <1>4, <1>5
  DEF HandlesInv, DropsIn, HeldIn, CloneLocks, ReplaceLocks, Begun, NoneBegun, Running
<1> QED BY <1>3, <1>6, <1>7, <1>8 DEF IInv, HandlesInv, AllCounting

\* stop() lets go of the handle it took.
LEMMA StopDrops ==
  ASSUME SessionsInv, HandlesInv, pc[Main] \in {"lock", "join"}, Goto(Main, "idle"),
         drops' = [drops EXCEPT ![Main] = <<Fresh(held)>>], held' = NoSession,
         UNCHANGED <<sessionVars, staticVars, writer, strong, senders, requested>>,
         joinable' \in SUBSET Sessions, joinLock' \in [Sessions -> Threads \cup {Nobody}]
  PROVE  IInv'
<1>1. SessionsInv' /\ NoneBegun
  BY SameSessions DEF SessionsInv, ResolverTypeOK
<1>2. /\ pc'[Main] = "idle" /\ \A u \in Threads \ {Main} : pc'[u] = pc[u]
      /\ pc' \in [Threads -> Points]
  BY DEF Points, Goto, HandlesInv, StateOK
<1>3. held \in Sessions /\ drops[Main] = << >>
  BY DEF HandlesInv, StateOK, HeldIn, DropsIn
<1>4. AllCounting' /\ drops' \in [Threads -> Seq(DropFrame)]
  <2>1. drops' = [drops EXCEPT ![Main] = <<Fresh(held)>> \o drops[Main]]
    BY <1>3, FirstFrame, FreshFrame
  <2>2. SameFrames(drops[Main], drops[Main])
    BY SameFramesSelf DEF HandlesInv
  <2>3. \A s \in Sessions : /\ Elsewhere(s, <<"held", Main, 0>>)
                            /\ Holds("held", Main, 0, s) <=> s = held
                            /\ ~Holds("held", Main, 0, s)'
    BY <1>2 DEF Elsewhere, Holds
  <2> QED BY <1>3, <2>1, <2>2, <2>3, IntoDrop DEF HandlesInv
<1>5. StateOK'
  BY <1>2, <1>4 DEF HandlesInv, StateOK
<1>6. DropsIn'
  BY <1>2 DEF HandlesInv, DropsIn, StateOK
<1>7. HeldIn' /\ CloneLocks' /\ ReplaceLocks' /\ Begun'
  BY <1>1, <1>2
  DEF HandlesInv, HeldIn, CloneLocks, ReplaceLocks, Begun, NoneBegun, Running
<1> QED BY <1>1, <1>4, <1>5, <1>6, <1>7 DEF IInv, HandlesInv

LEMMA StopLockInv ==
  ASSUME IInv, StopLock
  PROVE  IInv'
<1>1. /\ Running /\ pc[Main] = "lock" /\ joinable' = joinable \ {held}
      /\ UNCHANGED <<sessionVars, staticVars, writer, strong, senders, requested>>
  BY DEF StopLock, At
<1>2. SessionsInv /\ HandlesInv
  BY DEF IInv
<1>3. joinable' \in SUBSET Sessions
  BY <1>1, <1>2 DEF HandlesInv, StateOK
<1>4. CASE /\ held \in joinable
           /\ joinLock' = [joinLock EXCEPT ![held] = Main]
           /\ Goto(Main, "join")
           /\ UNCHANGED <<held, drops>>
  <2>1. SessionsInv' /\ NoneBegun
    BY <1>1, <1>2, SameSessions DEF SessionsInv, ResolverTypeOK
  <2>2. joinLock' \in [Sessions -> Threads \cup {Nobody}]
    BY <1>2, <1>4 DEF HandlesInv, StateOK
  <2>3. HandlesInv'
    BY <1>1, <1>2, <1>3, <1>4, <2>1, <2>2, Moves
    DEF Points, HandlesInv, StateOK, DropsIn, Running
  <2> QED BY <2>1, <2>3 DEF IInv
<1>5. CASE /\ held \notin joinable
           /\ drops' = [drops EXCEPT ![Main] = <<Fresh(held)>>]
           /\ held' = NoSession
           /\ Goto(Main, "idle")
           /\ UNCHANGED joinLock
  <2>1. joinLock' \in [Sessions -> Threads \cup {Nobody}]
    BY <1>2, <1>5 DEF HandlesInv, StateOK
  <2> QED BY <1>1, <1>2, <1>3, <1>5, <2>1, StopDrops
<1> QED BY <1>4, <1>5 DEF StopLock

LEMMA StopJoinInv ==
  ASSUME IInv, StopJoin
  PROVE  IInv'
<1>1. joinLock' \in [Sessions -> Threads \cup {Nobody}] /\ joinable' \in SUBSET Sessions
  BY DEF StopJoin, IInv, HandlesInv, StateOK
<1> QED BY <1>1, StopDrops DEF StopJoin, At, IInv

-----------------------------------------------------------------------------
(* Drop for GatherHandle *)

\* What no drop disturbs.
LEMMA DropRest ==
  ASSUME HandlesInv, NEW t \in Threads, drops[t] # << >>, NEW q \in Seq(DropFrame),
         drops' = [drops EXCEPT ![t] = q],
         UNCHANGED <<gatherer, enabled, gatherLock, pc, writer, held, requested>>,
         Running' => Running, gather' \in {gather, NoSession},
         joinable' \in SUBSET Sessions,
         joinLock' \in [Sessions -> Threads \cup {Nobody}],
         strong' \in [Sessions -> Nat], senders' \in [Sessions -> Nat],
         \A s \in Sessions : strong'[s] <= strong[s]
  PROVE  StateOK' /\ DropsIn' /\ HeldIn' /\ CloneLocks' /\ ReplaceLocks' /\ Begun'
<1>1. drops' \in [Threads -> Seq(DropFrame)] /\ \A u \in Threads \ {t} : drops'[u] = drops[u]
  BY DEF HandlesInv, StateOK
<1>2. StateOK'
  BY <1>1 DEF HandlesInv, StateOK
<1>3. DropsIn'
  BY <1>1 DEF HandlesInv, DropsIn
<1>4. HeldIn' /\ CloneLocks' /\ ReplaceLocks'
  BY DEF HandlesInv, HeldIn, CloneLocks, ReplaceLocks
<1>5. Begun'
  <2>1. ASSUME NEW s \in Sessions, gatherer'[s] = "none" PROVE strong'[s] = 0
    <3>1. strong[s] = 0 /\ strong'[s] \in Nat /\ strong'[s] <= strong[s]
      BY <2>1 DEF HandlesInv, Begun
    <3> QED BY <3>1
  <2> QED BY <2>1 DEF Begun
<1> QED BY <1>2, <1>3, <1>4, <1>5

\* The drop goes on to "at", its senders being dropped before.
LEMMA DropGoesOn ==
  ASSUME SessionsInv, HandlesInv, NEW t \in Threads, Running, drops[t] # << >>,
         Head(drops[t]).at # "senders",
         NEW at \in {"count", "static", "lock", "join", "release"}, Continue(t, at),
         program' = program, UNCHANGED <<gatherer, resolver, channelVars, lost>>,
         UNCHANGED <<staticVars, pc, writer, held, strong, senders, requested>>,
         joinable' \in SUBSET Sessions, joinLock' \in [Sessions -> Threads \cup {Nobody}]
  PROVE  IInv'
<1>1. SessionsInv'
  BY SameSessions DEF SessionsInv, ResolverTypeOK
<1>2. SameFrames(Then(t, at), drops[t]) /\ drops' = [drops EXCEPT ![t] = Then(t, at)]
  BY ThenSame DEF HandlesInv, Continue
<1>3. AllCounting'
  BY <1>2, SameDrops DEF HandlesInv
<1>4. \A s \in Sessions : strong'[s] <= strong[s]
  BY DEF HandlesInv, StateOK
<1>5. StateOK' /\ DropsIn' /\ HeldIn' /\ CloneLocks' /\ ReplaceLocks' /\ Begun'
  <2>1. Then(t, at) \in Seq(DropFrame) /\ (Running' => Running)
    BY <1>2 DEF SameFrames
  <2>2. strong' \in [Sessions -> Nat] /\ senders' \in [Sessions -> Nat]
        /\ gather' \in {gather, NoSession}
    BY DEF HandlesInv, StateOK
  <2> QED BY <1>2, <1>4, <2>1, <2>2, DropRest
<1> QED BY <1>1, <1>3, <1>5 DEF IInv, HandlesInv

LEMMA ReadCountInv ==
  ASSUME IInv, NEW t \in Threads, ReadCount(t)
  PROVE  IInv'
<1>1. joinable' \in SUBSET Sessions /\ joinLock' \in [Sessions -> Threads \cup {Nobody}]
  BY DEF ReadCount, OnlyThreads, IInv, HandlesInv, StateOK
<1>2. PICK at \in {"static", "release"} : Continue(t, at)
  BY DEF ReadCount
<1> QED BY <1>1, <1>2, DropGoesOn DEF ReadCount, OnlyThreads, DropAt, IInv

LEMMA DropLockInv ==
  ASSUME IInv, NEW t \in Threads, DropLock(t)
  PROVE  IInv'
<1>1. joinable' \in SUBSET Sessions /\ joinLock' \in [Sessions -> Threads \cup {Nobody}]
  BY DEF DropLock, IInv, HandlesInv, StateOK
<1>2. PICK at \in {"join", "release"} : Continue(t, at)
  BY DEF DropLock
<1> QED BY <1>1, <1>2, DropGoesOn DEF DropLock, DropAt, IInv

LEMMA DropJoinInv ==
  ASSUME IInv, NEW t \in Threads, DropJoin(t)
  PROVE  IInv'
<1>1. /\ DropAt(t, "join")
      /\ UNCHANGED <<gatherer, resolver, channelVars, lost, staticVars, pc, writer, held,
                     strong, senders, joinable, requested>>
  BY DEF DropJoin
<1>2. SessionsInv /\ HandlesInv
  BY DEF IInv
<1>3. CASE program' = "aborted" /\ UNCHANGED <<drops, joinLock>>
  <2>1. SessionsInv' /\ NoneBegun
    BY <1>1, <1>2, <1>3, SameSessions
  <2>2. HandlesInv'
    BY <1>1, <1>2, <1>3, <2>1, Quiet DEF HandlesInv, StateOK, Running
  <2> QED BY <2>1, <2>2 DEF IInv
<1>4. CASE /\ joinLock' = [joinLock EXCEPT ![Session(t)] = Nobody]
           /\ Continue(t, "release") /\ UNCHANGED program
  <2>1. joinLock' \in [Sessions -> Threads \cup {Nobody}] /\ joinable' \in SUBSET Sessions
    BY <1>1, <1>2, <1>4 DEF HandlesInv, StateOK
  <2> QED BY <1>1, <1>2, <1>4, <2>1, DropGoesOn DEF DropAt
<1> QED BY <1>3, <1>4 DEF DropJoin

LEMMA TakeStaticInv ==
  ASSUME IInv, NEW t \in Threads, TakeStatic(t)
  PROVE  IInv'
<1>1. /\ Running /\ drops[t] # << >> /\ Head(drops[t]).at = "static"
      /\ UNCHANGED <<sessionVars, enabled, gatherLock, pc, writer, held, handleVars>>
  BY DEF TakeStatic, DropAt
<1>2. SessionsInv /\ HandlesInv
  BY DEF IInv
<1>3. joinable' \in SUBSET Sessions /\ joinLock' \in [Sessions -> Threads \cup {Nobody}]
  BY <1>1, <1>2 DEF HandlesInv, StateOK
<1>4. CASE Continue(t, "lock") /\ UNCHANGED gather
  BY <1>1, <1>2, <1>3, <1>4, DropGoesOn
<1>5. CASE /\ gatherLock = Nobody /\ gather # NoSession
           /\ gather' = NoSession
           /\ drops' = [drops EXCEPT ![t] = <<Fresh(gather)>> \o Then(t, "lock")]
  <2>1. SessionsInv'
    BY <1>1, <1>2, SameSessions DEF SessionsInv, ResolverTypeOK
  <2>2. gather \in Sessions /\ pc[Main] # "replace"
    BY <1>2, <1>5 DEF HandlesInv, StateOK, ReplaceLocks
  <2>3. SameFrames(Then(t, "lock"), drops[t])
    BY <1>1, <1>2, ThenSame DEF HandlesInv
  <2>4. \A s \in Sessions : /\ Elsewhere(s, <<"gather", Main, 0>>)
                            /\ Holds("gather", Main, 0, s) <=> s = gather
                            /\ ~Holds("gather", Main, 0, s)'
    BY <1>1, <1>5, <2>2 DEF Elsewhere, Holds
  <2>5. AllCounting'
    BY <1>1, <1>2, <1>5, <2>2, <2>3, <2>4, IntoDrop DEF HandlesInv
  <2>6. <<Fresh(gather)>> \o Then(t, "lock") \in Seq(DropFrame)
    BY <2>2, <2>3, FreshFrame, PushFrames DEF SameFrames
  <2>7. strong' \in [Sessions -> Nat] /\ senders' \in [Sessions -> Nat]
        /\ \A s \in Sessions : strong'[s] <= strong[s]
    BY <1>1, <1>2 DEF HandlesInv, StateOK
  <2>8. StateOK' /\ DropsIn' /\ HeldIn' /\ CloneLocks' /\ ReplaceLocks' /\ Begun'
    BY <1>1, <1>2, <1>3, <1>5, <2>6, <2>7, DropRest
  <2> QED BY <2>1, <2>5, <2>8 DEF IInv, HandlesInv
<1> QED BY <1>4, <1>5 DEF TakeStatic

LEMMA InnermostDrop ==
  ASSUME StateOK, NEW t \in Threads, drops[t] # << >>
  PROVE  /\ drops[t] \in Seq(DropFrame) /\ Len(drops[t]) - 1 \in Nat
         /\ Session(t) \in Sessions /\ <<"drop", t, Len(drops[t]) - 1>> \in Places
<1>1. drops[t] \in Seq(DropFrame)
  BY DEF StateOK
<1>2. Head(drops[t]) \in DropFrame /\ Len(drops[t]) - 1 \in Nat
  BY <1>1, PopFrames
<1> QED BY <1>1, <1>2 DEF Session, DropFrame, Places

LEMMA DropSendersInv ==
  ASSUME IInv, NEW t \in Threads, DropSenders(t)
  PROVE  IInv'
<1> DEFINE c == Session(t)
           q == drops[t]
           r == Then(t, "count")
<1>1. /\ Running /\ q # << >> /\ Head(q).at = "senders"
      /\ senders' = [senders EXCEPT ![c] = @ - 1]
      /\ drops' = [drops EXCEPT ![t] = r]
      /\ UNCHANGED <<sessionVars, staticVars, pc, writer, held, strong, joinable,
                 joinLock, requested>>
  BY DEF DropSenders, DropAt, Continue
<1>2. SessionsInv /\ HandlesInv /\ Head(q).session = c
  BY DEF IInv, Session
<1>3. SessionsInv'
  BY <1>1, <1>2, SameSessions DEF SessionsInv, ResolverTypeOK
<1>4. q \in Seq(DropFrame) /\ Len(q) - 1 \in Nat /\ c \in Sessions
  BY <1>1, <1>2, InnermostDrop DEF HandlesInv
<1>n. PICK n \in Nat : n = Len(q) - 1
  BY <1>4
<1> DEFINE x == <<"drop", t, n>>
<1>x. x \in Places
  BY DEF Places
<1>5. /\ r \in Seq(DropFrame)
      /\ \A s, i \in Nat :
           /\ FrameOf(r, i, s) <=> FrameOf(q, i, s)
           /\ i # n => (FreshOf(r, i, s) <=> FreshOf(q, i, s))
           /\ i = n => ~FreshOf(r, i, s)
           /\ i = n => (FrameOf(q, i, s) <=> c = s) /\ (FreshOf(q, i, s) <=> c = s)
  <2>1. /\ r \in Seq(DropFrame)
        /\ \A s, i \in Nat :
           /\ FrameOf(r, i, s) <=> FrameOf(q, i, s)
           /\ i # n => (FreshOf(r, i, s) <=> FreshOf(q, i, s))
           /\ i = n => (FreshOf(r, i, s) <=> Head(q).session = s /\ "count" = "senders")
    BY <1>1, <1>4, <1>n, ThenFrames DEF Then
  <2>2. \A s, i \in Nat :
           i = n => (FrameOf(q, i, s) <=> c = s) /\ (FreshOf(q, i, s) <=> c = s)
    BY <1>1, <1>2, <1>4, <1>n, PopFrames
  <2> QED BY <2>1, <2>2
<1>6. drops'[t] = r /\ \A u \in Threads \ {t} : drops'[u] = drops[u]
  BY <1>1, <1>2 DEF HandlesInv, StateOK
<1> HIDE DEF c, q, r
<1>7. ASSUME NEW s \in Sessions
      PROVE  Counting(s)' /\ senders'[s] \in Nat
  <2>1. Counting(s)
    BY <1>2 DEF HandlesInv, AllCounting
  <2>2. \A u \in Threads, i \in Nat :
          /\ FrameOf(drops'[u], i, s) <=> FrameOf(drops[u], i, s)
          /\ <<u, i>> # <<t, n>> => (FreshOf(drops'[u], i, s) <=> FreshOf(drops[u], i, s))
    <3> SUFFICES ASSUME NEW u \in Threads, NEW i \in Nat
                 PROVE  /\ FrameOf(drops'[u], i, s) <=> FrameOf(drops[u], i, s)
                        /\ <<u, i>> # <<t, n>> =>
                             (FreshOf(drops'[u], i, s) <=> FreshOf(drops[u], i, s))
      OBVIOUS
    <3>1. CASE u = t
      BY <1>5, <1>6, <3>1 DEF q
    <3>2. CASE u # t
      BY <1>6, <3>2
    <3> QED BY <3>1, <3>2
  <2>3. Unmoved(s, {x})
    BY <1>1, <2>2 DEF Unmoved, Holds, Sends
  <2>4. FrameOf(drops[t], n, s) <=> c = s
    BY <1>4, <1>5 DEF q
  <2>5. FreshOf(drops[t], n, s) <=> c = s
    BY <1>4, <1>5 DEF q
  <2>6. ~FreshOf(drops'[t], n, s)
    BY <1>4, <1>5, <1>6
  <2>7. CASE s = c
    <3>1. x \in Sending(s) /\ x \in Handles(s)
      BY <1>x, <2>4, <2>5, <2>7 DEF Sending, Handles, Sends, Holds
    <3>2. x \in Handles(s)' /\ x \notin Sending(s)'
      BY <1>x, <2>2, <2>4, <2>6, <2>7 DEF Sending, Handles, Sends, Holds
    <3>3. senders'[s] = senders[s] - 1 /\ strong'[s] = strong[s]
      BY <1>1, <1>2, <2>7 DEF HandlesInv, StateOK
    <3>4. Counting(s)'
      BY <1>x, <2>1, <2>3, <3>1, <3>2, <3>3, CountingSenders
    <3>5. IsFiniteSet(Sending(s)')
      <4>1. IsFiniteSet(Handles(s)') /\ Sending(s)' \subseteq Handles(s)'
        BY <3>4 DEF Counting, Sending, Handles, Sends
      <4> QED BY <4>1, FS_Subset
    <3> QED BY <3>4, <3>5, FS_CardinalityType DEF Counting
  <2>8. CASE s # c
    <3>1. Unmoved(s, {})
      <4> SUFFICES ASSUME NEW k \in {"writer", "held", "gather", "drop"},
                          NEW u \in Threads, NEW i \in Nat
                   PROVE  /\ Holds(k, u, i, s)' <=> Holds(k, u, i, s)
                          /\ Sends(k, u, i, s)' <=> Sends(k, u, i, s)
        BY DEF Unmoved
      <4>1. CASE <<k, u, i>> = x
        BY <2>2, <2>5, <2>6, <2>8, <4>1 DEF Holds, Sends
      <4>2. CASE <<k, u, i>> # x
        BY <2>3, <4>2 DEF Unmoved
      <4> QED BY <4>1, <4>2
    <3>2. senders'[s] = senders[s] /\ strong'[s] = strong[s] /\ senders[s] \in Nat
      BY <1>1, <1>2, <2>8 DEF HandlesInv, StateOK
    <3> QED BY <2>1, <3>1, <3>2, CountingSame
  <2> QED BY <2>7, <2>8
<1>8. StateOK' /\ DropsIn' /\ HeldIn' /\ CloneLocks' /\ ReplaceLocks' /\ Begun'
  <2>1. senders' \in [Sessions -> Nat] /\ strong' \in [Sessions -> Nat]
        /\ \A s \in Sessions : strong'[s] <= strong[s]
    <3>1. senders' \in [Sessions -> Nat]
      BY <1>1, <1>2, <1>4, <1>7 DEF HandlesInv, StateOK
    <3>2. strong' = strong /\ strong \in [Sessions -> Nat]
      BY <1>1, <1>2 DEF HandlesInv, StateOK
    <3> QED BY <1>7, <3>1, <3>2 DEF HandlesInv, StateOK
  <2>2. joinable' \in SUBSET Sessions /\ joinLock' \in [Sessions -> Threads \cup {Nobody}]
        /\ gather' \in {gather, NoSession} /\ (Running' => Running)
    BY <1>1, <1>2 DEF HandlesInv, StateOK
  <2> QED BY <1>1, <1>2, <1>5, <2>1, <2>2, DropRest DEF q
<1> QED BY <1>3, <1>7, <1>8 DEF IInv, HandlesInv, AllCounting

LEMMA DropReleaseInv ==
  ASSUME IInv, NEW t \in Threads, DropRelease(t)
  PROVE  IInv'
<1> DEFINE c == Session(t)
           q == drops[t]
           r == Tail(q)
<1>1. /\ Running /\ q # << >> /\ Head(q).at = "release"
      /\ strong' = [strong EXCEPT ![c] = @ - 1]
      /\ drops' = [drops EXCEPT ![t] = r]
      /\ UNCHANGED <<sessionVars, staticVars, pc, writer, held, senders, joinable,
                 joinLock, requested>>
  BY DEF DropRelease, DropAt, IInv, HandlesInv, StateOK
<1>2. SessionsInv /\ HandlesInv /\ Head(q).session = c
  BY DEF IInv, Session
<1>3. SessionsInv'
  BY <1>1, <1>2, SameSessions DEF SessionsInv, ResolverTypeOK
<1>4. q \in Seq(DropFrame) /\ Len(q) - 1 \in Nat /\ c \in Sessions
  BY <1>1, <1>2, InnermostDrop DEF HandlesInv
<1>n. PICK n \in Nat : n = Len(q) - 1
  BY <1>4
<1> DEFINE x == <<"drop", t, n>>
<1>x. x \in Places
  BY DEF Places
<1>5. /\ r \in Seq(DropFrame)
      /\ \A s, i \in Nat :
              /\ i # n => /\ FrameOf(r, i, s) <=> FrameOf(q, i, s)
                          /\ FreshOf(r, i, s) <=> FreshOf(q, i, s)
              /\ i = n => /\ ~FrameOf(r, i, s)
                          /\ FrameOf(q, i, s) <=> c = s
                          /\ ~FreshOf(q, i, s)
  BY <1>1, <1>2, <1>4, <1>n, PopFrames
<1>6. drops'[t] = r /\ \A u \in Threads \ {t} : drops'[u] = drops[u]
  BY <1>1, <1>2 DEF HandlesInv, StateOK
<1> HIDE DEF c, q, r
<1>7. ASSUME NEW s \in Sessions
      PROVE  Counting(s)' /\ strong'[s] \in Nat /\ strong'[s] <= strong[s]
  <2>1. Counting(s)
    BY <1>2 DEF HandlesInv, AllCounting
  <2>2. \A u \in Threads, i \in Nat : <<u, i>> # <<t, n>> =>
          /\ FrameOf(drops'[u], i, s) <=> FrameOf(drops[u], i, s)
          /\ FreshOf(drops'[u], i, s) <=> FreshOf(drops[u], i, s)
    <3> SUFFICES ASSUME NEW u \in Threads, NEW i \in Nat
                 PROVE  <<u, i>> # <<t, n>> =>
                          /\ FrameOf(drops'[u], i, s) <=> FrameOf(drops[u], i, s)
                          /\ FreshOf(drops'[u], i, s) <=> FreshOf(drops[u], i, s)
      OBVIOUS
    <3>1. CASE u = t
      BY <1>5, <1>6, <3>1 DEF q
    <3>2. CASE u # t
      BY <1>6, <3>2
    <3> QED BY <3>1, <3>2
  <2>3. Unmoved(s, {x})
    BY <1>1, <2>2 DEF Unmoved, Holds, Sends
  <2>4. (FrameOf(drops[t], n, s) <=> c = s) /\ ~FreshOf(drops[t], n, s)
    BY <1>4, <1>5 DEF q
  <2>5. ~FrameOf(drops'[t], n, s) /\ ~FreshOf(drops'[t], n, s)
    BY <1>4, <1>5, <1>6 DEF FreshOf
  <2>6. CASE s = c
    <3>1. x \in Handles(s) /\ x \notin Sending(s)
      BY <1>x, <2>4, <2>6 DEF Sending, Handles, Sends, Holds
    <3>2. x \notin Handles(s)'
      BY <2>5 DEF Handles, Holds
    <3>3. strong'[s] = strong[s] - 1 /\ senders'[s] = senders[s]
      BY <1>1, <1>2, <2>6 DEF HandlesInv, StateOK
    <3>4. Counting(s)'
      BY <1>x, <2>1, <2>3, <3>1, <3>2, <3>3, CountingRelease
    <3>5. strong[s] \in Nat \ {0}
      BY <2>1, <3>1, SomeHandle
    <3> QED BY <3>3, <3>4, <3>5
  <2>7. CASE s # c
    <3>1. Unmoved(s, {})
      <4> SUFFICES ASSUME NEW k \in {"writer", "held", "gather", "drop"},
                          NEW u \in Threads, NEW i \in Nat
                   PROVE  /\ Holds(k, u, i, s)' <=> Holds(k, u, i, s)
                          /\ Sends(k, u, i, s)' <=> Sends(k, u, i, s)
        BY DEF Unmoved
      <4>1. CASE <<k, u, i>> = x
        BY <2>4, <2>5, <2>7, <4>1 DEF Holds, Sends
      <4>2. CASE <<k, u, i>> # x
        BY <2>3, <4>2 DEF Unmoved
      <4> QED BY <4>1, <4>2
    <3>2. senders'[s] = senders[s] /\ strong'[s] = strong[s] /\ strong[s] \in Nat
      BY <1>1, <1>2, <2>7 DEF HandlesInv, StateOK
    <3>3. Counting(s)'
      BY <2>1, <3>1, <3>2, CountingSame
    <3> QED BY <3>2, <3>3
  <2> QED BY <2>6, <2>7
<1>8. StateOK' /\ DropsIn' /\ HeldIn' /\ CloneLocks' /\ ReplaceLocks' /\ Begun'
  <2>1. senders' \in [Sessions -> Nat] /\ strong' \in [Sessions -> Nat]
        /\ \A s \in Sessions : strong'[s] <= strong[s]
    <3>1. strong' \in [Sessions -> Nat]
      BY <1>1, <1>2, <1>4, <1>7 DEF HandlesInv, StateOK
    <3>2. senders' = senders /\ senders \in [Sessions -> Nat]
      BY <1>1, <1>2 DEF HandlesInv, StateOK
    <3> QED BY <1>7, <3>1, <3>2 DEF HandlesInv, StateOK
  <2>2. joinable' \in SUBSET Sessions /\ joinLock' \in [Sessions -> Threads \cup {Nobody}]
        /\ gather' \in {gather, NoSession} /\ (Running' => Running)
    BY <1>1, <1>2 DEF HandlesInv, StateOK
  <2> QED BY <1>1, <1>2, <1>5, <2>1, <2>2, DropRest DEF q
<1> QED BY <1>3, <1>7, <1>8 DEF IInv, HandlesInv, AllCounting

-----------------------------------------------------------------------------
(* The theorems. *)

LEMMA InitInv ==
  ASSUME Init
  PROVE  IInv
<1>1. ASSUME NEW s \in Sessions PROVE InOrder(s)
  <2>1. /\ gatherer[s] = "none" /\ resolver[s] = "none" /\ asked[s] = 0
        /\ requests[s] = << >> /\ answers[s] = << >> /\ batch[s] = << >>
        /\ written[s] = << >>
    BY DEF Init, ResolverInit
  <2>2. Worked(s) = 0 /\ ~Stopping(s) /\ Series(0, 0) = << >>
    BY <2>1, SeriesEmpty DEF Worked, Stopping
  <2>3. Stages(s, 0, 0, 0, 0)
    BY <2>1, <2>2 DEF Stages
  <2> QED BY <2>1, <2>3 DEF InOrder
<1>2. ResolverTypeOK
  BY DEF Init, ResolverInit, ResolverTypeOK
<1>3. StateOK
  <2>1. << >> \in Seq(DropFrame)
    OBVIOUS
  <2>2. drops \in [Threads -> Seq(DropFrame)]
    BY <2>1 DEF Init
  <2>3. pc \in [Threads -> Points]
    BY DEF Points, Init
  <2> QED BY <2>2, <2>3 DEF Init, StateOK
<1>4. DropsIn /\ HeldIn /\ CloneLocks /\ ReplaceLocks /\ Begun
  BY DEF Init, DropsIn, HeldIn, CloneLocks, ReplaceLocks, Begun
<1>5. ASSUME NEW s \in Sessions PROVE Counting(s)
  <2>1. Handles(s) = {} /\ Sending(s) = {}
    BY DEF Init, Handles, Sending, Sends, Holds, FrameOf, Places
  <2> QED BY <2>1, FS_EmptySet DEF Counting, Init
<1> QED BY <1>1, <1>2, <1>3, <1>4, <1>5 DEF IInv, SessionsInv, HandlesInv, AllCounting

LEMMA StutterInv ==
  ASSUME IInv, UNCHANGED vars
  PROVE  IInv'
<1>1. SessionsInv' /\ NoneBegun
  BY SameSessions DEF IInv, SessionsInv, ResolverTypeOK
<1>2. HandlesInv'
  BY <1>1, Quiet DEF IInv, HandlesInv, StateOK, Running
<1> QED BY <1>1, <1>2 DEF IInv

LEMMA StepInv ==
  ASSUME IInv, [Next]_vars
  PROVE  IInv'
<1>1. ASSUME NEW t \in Threads, Begins(t) PROVE IInv'
  BY <1>1, SpawnThreadInv, EnterHookInv, ExitInv, StartNewInv, StopDisableInv DEF Begins
<1>2. ASSUME NEW t \in Threads, DropNext(t) PROVE IInv'
  BY <1>2, DropSendersInv, ReadCountInv, TakeStaticInv, DropLockInv, DropJoinInv,
     DropReleaseInv DEF DropNext
<1>3. ASSUME MainNext PROVE IInv'
  BY <1>3, StartLockInv, StartStoreInv, StartEnableInv, StopTakeInv, StopSignalInv,
     StopLockInv, StopJoinInv DEF MainNext
<1>4. ASSUME NEW t \in Threads, Continues(t) PROVE IInv'
  BY <1>2, <1>3, <1>4, CloneLockInv, CloneInv, RegisterInv, EndHookInv, ExitedInv
  DEF Continues
<1>5. ASSUME NEW s \in Sessions, GathererNext(s) PROVE IInv'
  BY <1>5, EndRunInv, AcceptInv, SessionNextInv DEF GathererNext
<1>6. CASE UNCHANGED vars
  BY <1>6, StutterInv
<1> QED BY <1>1, <1>4, <1>5, <1>6 DEF Next

\* What holds in every reachable state: every session is in order, and the
\* reference counts that the drops go by count the handles there are.
THEOREM Invariant == Spec => []IInv
<1> QED BY InitInv, StepInv, PTL DEF Spec

\* Every variable has its type, and no session has more senders than handles.
THEOREM TypeCorrect == Spec => []TypeOK
<1>1. ASSUME IInv PROVE TypeOK
  <2>1. \A s \in Sessions : senders[s] <= strong[s]
    BY <1>1, CountingTypes DEF IInv, HandlesInv, AllCounting
  <2> QED BY <1>1, <2>1 DEF IInv, SessionsInv, HandlesInv, StateOK, TypeOK
<1> QED BY <1>1, Invariant, PTL

\* The reference count of a session's join handles, which tells a drop whether
\* it is the last (strong_count == 2), is the number of handles in writers, in
\* GATHER, with start() or stop() and in drops; the gatherer's channels close
\* with the last of them that has its senders.
THEOREM CountsHandles == Spec => []AllCounting
<1>1. IInv => AllCounting
  BY DEF IInv, HandlesInv
<1> QED BY <1>1, Invariant, PTL

\* Nobody's gatherer ends early: a gatherer leaves its run loop only when
\* stop() has asked it to or when there is no handle left, in a writer, in
\* GATHER, with start() or stop(), or in a drop, that has its senders.
RunsWhileHeld ==
  \A s \in Sessions :
    gatherer[s] = "run" /\ gatherer'[s] = "flush" => s \in requested \/ Sending(s) = {}

LEMMA OnlyEndRun ==
  ASSUME IInv, [Next]_vars, NEW s \in Sessions,
         gatherer[s] = "run", gatherer'[s] = "flush"
  PROVE  EndRun(s)
<1>1. gatherer \in [Sessions -> {"none", "run", "flush", "await", "done", "panicked"}]
  BY DEF IInv, SessionsInv, ResolverTypeOK
<1>2. ASSUME NEW r \in Sessions, Spawn(r) PROVE FALSE
  BY <1>1, <1>2 DEF Spawn, GathererGoes
<1>3. ASSUME NEW t \in Threads, Begins(t) PROVE FALSE
  <2>1. UNCHANGED gatherer \/ \E r \in Sessions : Spawn(r)
    BY <1>3 DEF Begins, SpawnThread, EnterHook, Exit, StartNew, StopDisable, OnlyThreads
  <2> QED BY <1>2, <2>1
<1>4. ASSUME NEW t \in Threads, Continues(t) PROVE FALSE
  <2>1. UNCHANGED gatherer
    BY <1>4 DEF Continues, CloneLock, Clone, Register, EndHook, Send, Exited, DropNext, DropSenders, ReadCount, TakeStatic,
       DropLock, DropJoin, DropRelease, MainNext, StartLock, StartStore, StartEnable,
       StopTake, StopSignal, StopLock, StopJoin, OnlyThreads
  <2> QED BY <2>1
<1>5. ASSUME NEW r \in Sessions, SessionNext(r) PROVE FALSE
  <2>1. UNCHANGED gatherer \/ \E phase \in {"await", "done", "panicked"} :
                                 GathererGoes(r, phase)
    BY <1>5 DEF SessionNext, ResolverNext, GathererStep, Ask, Resolve, Answer, TakeDetails,
           SendShutdown, FlushDetails, LoseConnection, FailedWrite
  <2> QED BY <1>1, <2>1 DEF GathererGoes
<1>6. ASSUME NEW r \in Sessions, EndRun(r) PROVE r = s
  BY <1>1, <1>6 DEF EndRun, BeginFlush, GathererGoes
<1>7. ASSUME NEW r \in Sessions, Accept(r) PROVE FALSE
  BY <1>7 DEF Accept, OnlyThreads
<1> QED BY <1>3, <1>4, <1>5, <1>6, <1>7 DEF Next, GathererNext

\* A gatherer leaves its run loop only when it was asked to shut down, or when no
\* handle has senders of its session: no thread's buffer is refused by a gatherer
\* that went by itself.
THEOREM HeldRuns == Spec => [][RunsWhileHeld]_vars
<1>1. ASSUME IInv, [Next]_vars PROVE RunsWhileHeld
  <2> SUFFICES ASSUME NEW s \in Sessions, gatherer[s] = "run", gatherer'[s] = "flush",
                      s \notin requested
               PROVE  Sending(s) = {}
    BY DEF RunsWhileHeld
  <2>1. senders[s] = 0
    BY <1>1, OnlyEndRun DEF EndRun
  <2>2. Counting(s)
    BY <1>1 DEF IInv, HandlesInv, AllCounting
  <2>3. IsFiniteSet(Sending(s))
    BY <2>2, CountingTypes
  <2> QED BY <2>1, <2>2, <2>3, FS_EmptySet DEF Counting
<1> QED BY <1>1, Invariant, PTL DEF Spec

\* The resolver outlives the asking, whatever the capacity of the channel, the
\* order of the steps and the connection's end.
THEOREM Serves == Spec => []ResolverServes
<1>1. IInv => ResolverServes
  BY DEF IInv, SessionsInv, InOrder, ResolverServes
<1> QED BY <1>1, Invariant, PTL

\* The frames asked for, the details on their way and those written are one
\* series: nothing is lost, doubled or reordered between the two threads.
THEOREM Arrive == Spec => []DetailsArrive
<1>1. ASSUME IInv, NEW s \in Sessions, gatherer[s] # "panicked"
      PROVE  /\ written[s] \o batch[s] \o answers[s] \o InWork(s) \o Frames(requests[s])
                  = FirstFrames(asked[s])
             /\ gatherer[s] = "done" => written[s] = FirstFrames(asked[s])
  <2> DEFINE d == Worked(s)
  <2>1. ResolverTypeOK /\ InOrder(s)
    BY <1>1 DEF IInv, SessionsInv
  <2>2. PICK a \in Nat, b \in Nat, c \in Nat, e \in Nat : Stages(s, a, b, c, e)
    BY <1>1, <2>1 DEF InOrder
  <2>3. d \in {0, 1}
    BY DEF Worked
  <2>4. FirstFrames(asked[s]) = Series(0, asked[s])
    BY <2>1 DEF FirstFrames, Series, ResolverTypeOK
  <2>5. InWork(s) = Series(a + b + c, d)
    <3>1. a + b + c \in Nat
      OBVIOUS
    <3>2. CASE resolver[s] = "send"
      <4>1. hand[s] = a + b + c + 1
        BY <2>2, <3>2 DEF Stages
      <4>2. d = 1 /\ InWork(s) = <<hand[s]>>
        BY <3>2 DEF Worked, InWork
      <4>3. Series(a + b + c, 1) = <<a + b + c + 1>>
        BY <3>1 DEF Series
      <4> QED BY <4>1, <4>2, <4>3
    <3>3. CASE resolver[s] # "send"
      BY <3>1, <3>3, SeriesEmpty DEF Worked, InWork
    <3> QED BY <3>2, <3>3
  <2> HIDE DEF d
  <2>6. Frames(requests[s]) = Series(a + b + c + d, e)
    <3> DEFINE q == Series(a + b + c + d, e)
    <3>1. a + b + c + d \in Nat
      BY <2>3
    <3>2. q \in Seq(Nat) /\ Len(q) = e /\ \A i \in 1 .. e : q[i] = a + b + c + d + i
      BY <3>1, SeriesType
    <3>3. requests[s] = IF Stopping(s) THEN Append(q, Shutdown) ELSE q
      BY <2>2 DEF Stages, d
    <3> HIDE DEF q
    <3>4. ASSUME Stopping(s) PROVE Frames(requests[s]) = q
      <4>1. /\ Append(q, Shutdown) \in Seq(Nat) /\ Len(Append(q, Shutdown)) = e + 1
            /\ Append(q, Shutdown)[e + 1] = Shutdown
            /\ \A i \in 1 .. e : Append(q, Shutdown)[i] = q[i]
        BY <3>2, AppendProperties DEF Shutdown
      <4>2. SubSeq(Append(q, Shutdown), 1, e) = q
        BY <3>2, <4>1
      <4>3. Append(q, Shutdown) # << >> /\ (e + 1) - 1 = e
        BY <4>1
      <4> QED BY <3>3, <3>4, <4>1, <4>2, <4>3 DEF Frames
    <3>5. ASSUME ~Stopping(s) PROVE Frames(requests[s]) = q
      <4>1. q # << >> => q[Len(q)] # Shutdown
        BY <2>3, <3>2 DEF Shutdown
      <4> QED BY <3>3, <3>5, <4>1 DEF Frames
    <3>6. Frames(requests[s]) = q
      BY <3>4, <3>5
    <3> QED BY <3>6 DEF q
  <2>7. /\ written[s] = Series(0, a) /\ batch[s] = Series(0 + a, b)
        /\ answers[s] = Series(a + b, c)
        /\ asked[s] = a + b + c + d + e
    BY <2>2 DEF Stages, d
  <2>8. a + b \in Nat /\ a + b + c \in Nat /\ a + b + c + d \in Nat /\ d \in Nat
    BY <2>3
  <2>9. Series(0, a) \o Series(0 + a, b) = Series(0, a + b)
    BY SeriesConcat
  <2>10. Series(0, a + b) \o Series(0 + (a + b), c) = Series(0, a + b + c)
    BY ZenonT(40), <2>8, SeriesConcat
  <2>11. Series(0, a + b + c) \o Series(0 + (a + b + c), d) = Series(0, a + b + c + d)
    BY ZenonT(40), <2>8, SeriesConcat
  <2>12. Series(0, a + b + c + d) \o Series(0 + (a + b + c + d), e)
           = Series(0, a + b + c + d + e)
    BY ZenonT(40), <2>8, SeriesConcat
  <2>13. written[s] \o batch[s] \o answers[s] \o InWork(s) \o Frames(requests[s])
           = FirstFrames(asked[s])
    <3>1. /\ 0 + (a + b) = a + b /\ 0 + (a + b + c) = a + b + c
          /\ 0 + (a + b + c + d) = a + b + c + d
      BY <2>8
    <3> QED BY <2>4, <2>5, <2>6, <2>7, <2>9, <2>10, <2>11, <2>12, <3>1
  <2>14. ASSUME gatherer[s] = "done" PROVE written[s] = FirstFrames(asked[s])
    <3>1. resolver[s] = "done"
      BY <2>1, <2>14 DEF InOrder
    <3>2. b = 0 /\ c = 0 /\ d = 0 /\ e = 0
      BY <2>2, <2>14, <3>1 DEF Stages, Worked, d
    <3>3. asked[s] = a
      BY <2>7, <3>2
    <3> QED BY <2>4, <2>7, <3>3
  <2> QED BY <2>13, <2>14
<1>2. IInv => DetailsArrive
  BY <1>1 DEF DetailsArrive
<1> QED BY <1>2, Invariant, PTL

=============================================================================
