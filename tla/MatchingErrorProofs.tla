------------------------ MODULE MatchingErrorProofs ------------------------
(***************************************************************************)
(* Proof that Match ptr reports no spurious error (NoSpuriousErrors): for  *)
(* an address that a single thread uses, what the hooks log takes turns    *)
(* between allocations and deallocations, the log keeps step with the heap *)
(* through every realloc, and the stash keeps step with the log.           *)
(***************************************************************************)
EXTENDS MatchingProofs

USE DEF programVars, readerVars, outputVars, vars

-----------------------------------------------------------------------------
(* Logs in which allocations and deallocations take turns *)

\* Of the first n instructions in s, the last about p is an allocation.
AllocatedAt(s, p, n) ==
  \E i \in 1 .. n :
    /\ s[i].ptr = p /\ s[i].op = "alloc"
    /\ \A k \in i + 1 .. n : s[k].ptr # p

\* Among the first n, allocations and deallocations of p take turns.
Alternate(s, p, n) ==
  \A i \in 1 .. n : s[i].ptr = p => (s[i].op = "free" <=> AllocatedAt(s, p, i - 1))

LEMMA AllocatedNext ==
  ASSUME NEW s, NEW p, NEW n \in Nat
  PROVE  AllocatedAt(s, p, n + 1) <=>
           IF s[n + 1].ptr = p THEN s[n + 1].op = "alloc" ELSE AllocatedAt(s, p, n)
<1>1. \A i \in 1 .. n : i \in 1 .. n + 1 /\ n + 1 \in i + 1 .. n + 1
  OBVIOUS
<1>2. \A i \in 1 .. n + 1 : i \in 1 .. n \/ i = n + 1
  OBVIOUS
<1>3. \A i \in 1 .. n + 1 : \A k \in i + 1 .. n + 1 : k \in i + 1 .. n \/ k = n + 1
  OBVIOUS
<1>4. \A i \in 1 .. n : \A k \in i + 1 .. n : k \in i + 1 .. n + 1
  OBVIOUS
<1>5. n + 1 \in 1 .. n + 1 /\ (n + 1) + 1 .. n + 1 = {}
  OBVIOUS
<1> QED
  BY <1>1, <1>2, <1>3, <1>4, <1>5 DEF AllocatedAt

LEMMA AllocatedPrefix ==
  ASSUME NEW s, NEW r, NEW p, NEW n \in Nat, \A i \in 1 .. n : r[i] = s[i]
  PROVE  /\ AllocatedAt(r, p, n) <=> AllocatedAt(s, p, n)
         /\ Alternate(s, p, n) => Alternate(r, p, n)
<1>1. ASSUME NEW m \in 0 .. n
      PROVE  AllocatedAt(r, p, m) <=> AllocatedAt(s, p, m)
  <2>1. \A i \in 1 .. m : i \in 1 .. n /\ \A k \in i + 1 .. m : k \in 1 .. n
    OBVIOUS
  <2> QED
    BY <2>1 DEF AllocatedAt
<1>2. \A i \in 1 .. n : i - 1 \in 0 .. n
  OBVIOUS
<1> QED
  BY <1>1, <1>2 DEF Alternate

LEMMA AlternateNext ==
  ASSUME NEW s, NEW p, NEW n \in Nat, Alternate(s, p, n),
         s[n + 1].ptr = p => (s[n + 1].op = "free" <=> AllocatedAt(s, p, n))
  PROVE  Alternate(s, p, n + 1)
<1>1. \A i \in 1 .. n + 1 : i \in 1 .. n \/ (i = n + 1 /\ i - 1 = n)
  OBVIOUS
<1> QED
  BY <1>1 DEF Alternate

Allocated(p, t) == AllocatedAt(log[t], p, Len(log[t]))
Alternates(p, t) == Alternate(log[t], p, Len(log[t]))

\* What RecordGrows says about the log of the thread that records.
LEMMA Recorded ==
  ASSUME TypeOK, NEW t \in Threads, NEW instrs \in Seq(Recordable), Record(t, instrs)
  PROVE  /\ Len(log[t]) \in Nat /\ Len(log'[t]) = Len(log[t]) + Len(instrs)
         /\ \A i \in 1 .. Len(log[t]) : log'[t][i] = log[t][i]
         /\ \A i \in Len(log[t]) + 1 .. Len(log'[t]) :
              /\ log'[t][i].op = instrs[i - Len(log[t])][1]
              /\ log'[t][i].ptr = instrs[i - Len(log[t])][2]
<1>1. Len(log[t]) \in Nat /\ Len(log'[t]) = Len(log[t]) + Len(instrs)
  BY RecordGrows
<1>2. \A i \in 1 .. Len(log[t]) : log'[t][i] = log[t][i]
  BY RecordGrows
<1>3. \A i \in Len(log[t]) + 1 .. Len(log'[t]) :
        /\ log'[t][i].op = instrs[i - Len(log[t])][1]
        /\ log'[t][i].ptr = instrs[i - Len(log[t])][2]
  BY RecordGrows
<1> QED
  BY <1>1, <1>2, <1>3

\* One instruction recorded, about q.
LEMMA RecordOne ==
  ASSUME TypeOK, NEW t \in Threads, NEW p, NEW op \in {"alloc", "free"},
         NEW q \in Ptrs \cup {Null}, Record(t, << <<op, q>> >>), Alternates(p, t),
         q = p => (op = "free" <=> Allocated(p, t))
  PROVE  /\ Alternates(p, t)'
         /\ Allocated(p, t)' <=> IF q = p THEN op = "alloc" ELSE Allocated(p, t)
<1> DEFINE n == Len(log[t])
           instrs == << <<op, q>> >>
           s == log'[t]
<1>1. /\ instrs \in Seq(Recordable) /\ Len(instrs) = 1 /\ Record(t, instrs)
      /\ instrs[1][1] = op /\ instrs[1][2] = q
  <2>1. <<op, q>> \in Recordable
    BY DEF Recordable
  <2> QED
    BY <2>1
<1> HIDE DEF instrs
<1>2. /\ n \in Nat /\ Len(s) = n + 1 /\ \A i \in 1 .. n : s[i] = log[t][i]
      /\ \A i \in n + 1 .. Len(s) : s[i].op = instrs[i - n][1] /\ s[i].ptr = instrs[i - n][2]
  <2>1. /\ Len(s) = n + Len(instrs)
        /\ \A i \in n + 1 .. Len(s) :
             s[i].op = instrs[i - n][1] /\ s[i].ptr = instrs[i - n][2]
    BY <1>1, Recorded
  <2>2. n \in Nat /\ \A i \in 1 .. n : s[i] = log[t][i]
    BY <1>1, Recorded
  <2> QED
    BY <1>1, <2>1, <2>2
<1> HIDE DEF n, s
<1>3. s[n + 1].op = op /\ s[n + 1].ptr = q
  <2>1. n + 1 \in n + 1 .. Len(s) /\ (n + 1) - n = 1
    BY <1>2
  <2> QED
    BY <1>1, <1>2, <2>1
<1>4. (AllocatedAt(s, p, n) <=> Allocated(p, t)) /\ Alternate(s, p, n)
  BY <1>2, AllocatedPrefix DEF Allocated, Alternates, n
<1>5. Alternate(s, p, n + 1)
  BY <1>2, <1>3, <1>4, AlternateNext
<1>6. AllocatedAt(s, p, n + 1) <=> IF q = p THEN op = "alloc" ELSE Allocated(p, t)
  BY <1>2, <1>3, <1>4, AllocatedNext
<1> QED
  BY <1>2, <1>5, <1>6 DEF Allocated, Alternates, s

\* A realloc recorded: q is freed, then r is allocated.
LEMMA RecordTwo ==
  ASSUME TypeOK, NEW t \in Threads, NEW p,
         NEW q \in Ptrs \cup {Null}, NEW r \in Ptrs \cup {Null},
         Record(t, FreeFirst(q, r)), Alternates(p, t),
         q = p => Allocated(p, t),
         r = p => q = p \/ ~Allocated(p, t)
  PROVE  /\ Alternates(p, t)'
         /\ Allocated(p, t)' <=> r = p \/ (q # p /\ Allocated(p, t))
         /\ Len(log'[t]) = Len(log[t]) + 2
         /\ log'[t][Len(log[t]) + 1].op = "free" /\ log'[t][Len(log[t]) + 1].ptr = q
         /\ log'[t][Len(log[t]) + 2].ptr = r
<1> DEFINE n == Len(log[t])
           instrs == FreeFirst(q, r)
           s == log'[t]
<1>1. /\ instrs \in Seq(Recordable) /\ Len(instrs) = 2 /\ Record(t, instrs)
      /\ instrs[1][1] = "free" /\ instrs[1][2] = q
      /\ instrs[2][1] = "alloc" /\ instrs[2][2] = r
  <2>1. <<"free", q>> \in Recordable /\ <<"alloc", r>> \in Recordable
    BY DEF Recordable
  <2> QED
    BY <2>1 DEF FreeFirst
<1> HIDE DEF instrs
<1>2. /\ n \in Nat /\ Len(s) = n + 2 /\ \A i \in 1 .. n : s[i] = log[t][i]
      /\ \A i \in n + 1 .. Len(s) : s[i].op = instrs[i - n][1] /\ s[i].ptr = instrs[i - n][2]
  <2>1. /\ Len(s) = n + Len(instrs)
        /\ \A i \in n + 1 .. Len(s) :
             s[i].op = instrs[i - n][1] /\ s[i].ptr = instrs[i - n][2]
    BY <1>1, Recorded
  <2>2. n \in Nat /\ \A i \in 1 .. n : s[i] = log[t][i]
    BY <1>1, Recorded
  <2> QED
    BY <1>1, <2>1, <2>2
<1> HIDE DEF n, s
<1>3. /\ s[n + 1].op = "free" /\ s[n + 1].ptr = q
      /\ s[n + 2].op = "alloc" /\ s[n + 2].ptr = r
  <2>1. /\ n + 1 \in n + 1 .. Len(s) /\ (n + 1) - n = 1
        /\ n + 2 \in n + 1 .. Len(s) /\ (n + 2) - n = 2
    BY <1>2
  <2> QED
    BY <1>1, <1>2, <2>1
<1>4. (AllocatedAt(s, p, n) <=> Allocated(p, t)) /\ Alternate(s, p, n)
  BY <1>2, AllocatedPrefix DEF Allocated, Alternates, n
<1>5. /\ AllocatedAt(s, p, n + 1) <=> q # p /\ Allocated(p, t)
      /\ Alternate(s, p, n + 1)
  BY <1>2, <1>3, <1>4, AllocatedNext, AlternateNext
<1>6. n + 1 \in Nat /\ (n + 1) + 1 = n + 2
  BY <1>2
<1>7. /\ AllocatedAt(s, p, n + 2) <=> r = p \/ (q # p /\ Allocated(p, t))
      /\ Alternate(s, p, n + 2)
  BY <1>3, <1>5, <1>6, AllocatedNext, AlternateNext
<1> QED
  BY <1>2, <1>3, <1>7 DEF Allocated, Alternates, n, s

-----------------------------------------------------------------------------
(* The log keeps step with the heap *)

\* Nobody but t has recorded, or is about to record, an instruction about p.
Single(p, t) == \A u \in Threads \ {t} : ~Touches(u, p)

MovesFrom(p, t) == Busy(t) /\ moving[t][1] = p
MovesTo(p, t) == Busy(t) /\ moving[t][2] = p

\* The last instruction logged about p says whether it is allocated, but for a
\* realloc under way, of which nothing is logged: it has given back the old
\* memory, unless it failed or stayed in place, and has got the new.
LogIsHeap(p, t) ==
  /\ Allocated(p, t) <=> MovesFrom(p, t) \/ (~MovesTo(p, t) /\ p \in live)
  /\ MovesTo(p, t) => p \in live
  /\ MovesFrom(p, t) /\ moving[t][2] \notin {p, Null} => p \notin live

\* Who has touched an address has touched it, and what is recorded stays so.
LEMMA TouchesGrow ==
  ASSUME TypeOK, ProgramNext, NEW p \in Ptrs, NEW u \in Threads, Touches(u, p)
  PROVE  Touches(u, p)'
<1>1. CASE \E i \in DOMAIN log[u] : log[u][i].ptr = p
  <2>1. \A i \in DOMAIN log[u] : i \in DOMAIN log'[u] /\ log'[u][i] = log[u][i]
    <3>1. DOMAIN log[u] = 1 .. Len(log[u]) /\ DOMAIN log'[u] = 1 .. Len(log'[u])
      BY ProgramLog, LenProperties DEF TypeOK
    <3>2. \A i \in 1 .. Len(log[u]) : i \in 1 .. Len(log'[u]) /\ log'[u][i] = log[u][i]
      BY ProgramLog
    <3> QED
      BY <3>1, <3>2
  <2> QED
    BY <1>1, <2>1 DEF Touches
<1>2. CASE Busy(u) /\ \E i \in 1 .. 2 : moving[u][i] = p
  <2>1. PICK w \in Threads :
          Alloc(w) \/ AllocZeroedFails(w) \/ Dealloc(w) \/ Realloc(w) \/ RecordRealloc(w)
    BY DEF ProgramNext
  <2>2. CASE RecordRealloc(w) /\ w = u
    <3> DEFINE q == moving[u][1]
               r == moving[u][2]
               instrs == FreeFirst(q, r)
    <3>1. q \in Ptrs /\ r \in Ptrs \cup {Null} /\ (q = p \/ r = p)
      BY <1>2 DEF TypeOK, Busy
    <3>2. Record(u, instrs)
      BY <2>2 DEF RecordRealloc
    <3> HIDE DEF q, r
    <3>3. /\ instrs \in Seq(Recordable) /\ Len(instrs) = 2
          /\ instrs[1][2] = q /\ instrs[2][2] = r
      <4>1. <<"free", q>> \in Recordable /\ <<"alloc", r>> \in Recordable
        BY <3>1 DEF Recordable
      <4> QED
        BY <4>1 DEF FreeFirst
    <3> HIDE DEF instrs
    <3>4. /\ Len(log[u]) \in Nat /\ Len(log'[u]) = Len(log[u]) + Len(instrs)
          /\ \A i \in Len(log[u]) + 1 .. Len(log'[u]) : log'[u][i].ptr = instrs[i - Len(log[u])][2]
          /\ log'[u] \in Seq(Instruction)
      BY <3>2, <3>3, RecordGrows, ZenonT(60)
    <3>5. DOMAIN log'[u] = 1 .. Len(log'[u])
      BY <3>4, LenProperties
    <3>6. /\ Len(log[u]) + 1 \in DOMAIN log'[u] /\ log'[u][Len(log[u]) + 1].ptr = q
          /\ Len(log[u]) + 2 \in DOMAIN log'[u] /\ log'[u][Len(log[u]) + 2].ptr = r
      <4>1. \A n \in Nat : /\ n + 1 \in n + 1 .. n + 2 /\ (n + 1) - n = 1
                           /\ n + 2 \in n + 1 .. n + 2 /\ (n + 2) - n = 2
                           /\ n + 1 \in 1 .. n + 2 /\ n + 2 \in 1 .. n + 2
        OBVIOUS
      <4> QED
        BY <3>3, <3>4, <3>5, <4>1
    <3> QED
      BY <3>1, <3>6 DEF Touches
  <2>3. CASE ~(RecordRealloc(w) /\ w = u)
    <3>1. Busy(u)' /\ moving'[u] = moving[u]
      BY <1>2, <2>1, <2>3 DEF Alloc, AllocZeroedFails, Dealloc, Realloc, RecordRealloc, Busy
    <3> QED
      BY <1>2, <3>1 DEF Touches, Busy
  <2> QED
    BY <2>2, <2>3
<1> QED
  BY <1>1, <1>2 DEF Touches, Busy

LEMMA RecordedAsMovedGrows ==
  ASSUME TypeOK, ProgramNext, NEW p \in Ptrs, RecordedAsMoved(p)
  PROVE  RecordedAsMoved(p)'
<1>1. PICK t \in Threads : \E i \in 1 .. Len(log[t]) - 1 :
        log[t][i].op = "free" /\ log[t][i].ptr = p /\ log[t][i + 1].ptr = Null
  BY DEF RecordedAsMoved
<1>2. \A i \in 1 .. Len(log[t]) - 1 :
        /\ i \in 1 .. Len(log'[t]) - 1
        /\ log'[t][i] = log[t][i] /\ log'[t][i + 1] = log[t][i + 1]
  <2>1. \A i \in 1 .. Len(log[t]) - 1 :
          i \in 1 .. Len(log'[t]) - 1 /\ i \in 1 .. Len(log[t]) /\ i + 1 \in 1 .. Len(log[t])
    BY ProgramLog
  <2> QED
    BY <2>1, ProgramLog
<1> QED
  BY <1>1, <1>2 DEF RecordedAsMoved

\* A step of another thread, which does not touch p, changes nothing about it.
LEMMA OtherThread ==
  ASSUME TypeOK, NEW p \in Ptrs, NEW t \in Threads, NEW u \in Threads \ {t},
         \/ Alloc(u) \/ AllocZeroedFails(u) \/ Dealloc(u) \/ Realloc(u) \/ RecordRealloc(u),
         ~Touches(u, p)'
  PROVE  /\ log'[t] = log[t] /\ (p \in live' <=> p \in live)
         /\ Busy(t)' <=> Busy(t)
         /\ moving'[t] = moving[t] \/ ~Busy(t)
<1>1. log'[t] = log[t]
  BY DEF Alloc, AllocZeroedFails, Dealloc, Realloc, RecordRealloc, Record, TypeOK
<1>2. /\ Busy(t)' <=> Busy(t)
      /\ moving'[t] = moving[t] \/ ~Busy(t)
  BY DEF Alloc, AllocZeroedFails, Dealloc, Realloc, RecordRealloc, Busy
<1>3. ASSUME NEW op \in {"alloc", "free"}, NEW q \in Ptrs, Record(u, << <<op, q>> >>)
      PROVE  q # p
  <2> DEFINE instrs == << <<op, q>> >>
  <2>1. /\ instrs \in Seq(Recordable) /\ Len(instrs) = 1 /\ instrs[1][2] = q
    <3>1. <<op, q>> \in Recordable
      BY DEF Recordable
    <3> QED
      BY <3>1
  <2>2. Record(u, instrs)
    BY <1>3
  <2> HIDE DEF instrs
  <2>3. /\ Len(log[u]) \in Nat /\ Len(log'[u]) = Len(log[u]) + Len(instrs)
        /\ \A i \in Len(log[u]) + 1 .. Len(log'[u]) : log'[u][i].ptr = instrs[i - Len(log[u])][2]
        /\ log'[u] \in Seq(Instruction)
    BY <2>1, <2>2, RecordGrows, ZenonT(60)
  <2>4. Len(log[u]) + 1 \in DOMAIN log'[u] /\ log'[u][Len(log[u]) + 1].ptr = q
    <3>1. \A n \in Nat : n + 1 \in n + 1 .. n + 1 /\ (n + 1) - n = 1 /\ n + 1 \in 1 .. n + 1
      OBVIOUS
    <3>2. DOMAIN log'[u] = 1 .. Len(log'[u])
      BY <2>3, LenProperties
    <3> QED
      BY <2>1, <2>3, <3>1, <3>2
  <2> QED
    BY <2>4 DEF Touches
<1>4. ASSUME Alloc(u) PROVE p \in live' <=> p \in live
  BY <1>3, <1>4 DEF Alloc
<1>5. ASSUME Dealloc(u) PROVE p \in live' <=> p \in live
  BY <1>3, <1>5 DEF Dealloc, Owned, TypeOK
<1>6. ASSUME Realloc(u) PROVE p \in live' <=> p \in live
  <2>1. PICK q \in Owned : \E r \in (Ptrs \ live) \cup {q, Null} :
          /\ live' = IF r = Null THEN live ELSE (live \ {q}) \cup {r}
          /\ u \in DOMAIN moving' /\ moving'[u] = <<q, r>>
    BY <1>6 DEF Realloc
  <2>2. PICK r :
          /\ live' = IF r = Null THEN live ELSE (live \ {q}) \cup {r}
          /\ u \in DOMAIN moving' /\ moving'[u] = <<q, r>>
    BY <2>1
  <2>3. q # p /\ r # p
    BY <2>2 DEF Touches
  <2> QED
    BY <2>2, <2>3
<1>7. ASSUME AllocZeroedFails(u) \/ RecordRealloc(u) PROVE p \in live' <=> p \in live
  BY <1>7 DEF AllocZeroedFails, RecordRealloc
<1> QED
  BY <1>1, <1>2, <1>4, <1>5, <1>6, <1>7

\* A step of the only thread that touches p.
LEMMA OwnThread ==
  ASSUME TypeOK, NEW p \in Ptrs, NEW t \in Threads,
         \/ Alloc(t) \/ AllocZeroedFails(t) \/ Dealloc(t) \/ Realloc(t) \/ RecordRealloc(t),
         Alternates(p, t), LogIsHeap(p, t), ~RecordedAsMoved(p)'
  PROVE  Alternates(p, t)' /\ LogIsHeap(p, t)'
<1>1. p # Null
  BY MatchingAssumption
<1>2. CASE Alloc(t)
  <2>1. PICK q \in Ptrs \ live :
          /\ ~Busy(t) /\ live' = live \cup {q} /\ Record(t, << <<"alloc", q>> >>)
          /\ moving' = moving
    BY <1>2 DEF Alloc
  <2>2. Allocated(p, t) <=> p \in live
    BY <2>1 DEF LogIsHeap, MovesFrom, MovesTo
  <2>3. /\ Alternates(p, t)'
        /\ Allocated(p, t)' <=> q = p \/ Allocated(p, t)
    BY <2>1, <2>2, RecordOne
  <2> QED
    BY <2>1, <2>2, <2>3 DEF LogIsHeap, MovesFrom, MovesTo, Busy
<1>3. CASE AllocZeroedFails(t)
  <2>1. ~Busy(t) /\ live' = live /\ moving' = moving /\ Record(t, << <<"alloc", Null>> >>)
    BY <1>3 DEF AllocZeroedFails
  <2>2. Alternates(p, t)' /\ (Allocated(p, t)' <=> Allocated(p, t))
    BY <1>1, <2>1, RecordOne
  <2> QED
    BY <2>1, <2>2 DEF LogIsHeap, MovesFrom, MovesTo, Busy
<1>4. CASE Dealloc(t)
  <2>1. PICK q \in Owned :
          /\ ~Busy(t) /\ live' = live \ {q} /\ Record(t, << <<"free", q>> >>)
          /\ moving' = moving
    BY <1>4 DEF Dealloc
  <2>2. (Allocated(p, t) <=> p \in live) /\ q \in live /\ q \in Ptrs
    BY <2>1 DEF LogIsHeap, MovesFrom, MovesTo, Owned, TypeOK
  <2>3. /\ Alternates(p, t)'
        /\ Allocated(p, t)' <=> q # p /\ Allocated(p, t)
    BY <2>1, <2>2, RecordOne
  <2> QED
    BY <2>1, <2>2, <2>3 DEF LogIsHeap, MovesFrom, MovesTo, Busy
<1>5. CASE Realloc(t)
  <2>1. PICK q \in Owned : \E r \in (Ptrs \ live) \cup {q, Null} :
          /\ ~Busy(t)
          /\ live' = IF r = Null THEN live ELSE (live \ {q}) \cup {r}
          /\ moving' = [u \in DOMAIN moving \cup {t} |->
                          IF u = t THEN <<q, r>> ELSE moving[u]]
          /\ log' = log
    BY <1>5 DEF Realloc
  <2>2. PICK r \in (Ptrs \ live) \cup {q, Null} :
          /\ ~Busy(t)
          /\ live' = IF r = Null THEN live ELSE (live \ {q}) \cup {r}
          /\ t \in DOMAIN moving' /\ moving'[t] = <<q, r>>
          /\ log' = log
    BY <2>1
  <2>3. q \in live /\ (Allocated(p, t) <=> p \in live)
    BY <2>2 DEF LogIsHeap, MovesFrom, MovesTo, Owned
  <2>4. Alternates(p, t)' /\ (Allocated(p, t)' <=> Allocated(p, t))
    BY <2>2 DEF Alternates, Allocated
  <2>5. (MovesFrom(p, t)' <=> q = p) /\ (MovesTo(p, t)' <=> r = p) /\ moving'[t][2] = r
    BY <2>2 DEF MovesFrom, MovesTo, Busy
  <2> QED
    BY <1>1, <2>2, <2>3, <2>4, <2>5 DEF LogIsHeap
<1>6. CASE RecordRealloc(t)
  <2> DEFINE q == moving[t][1]
             r == moving[t][2]
  <2>1. /\ Busy(t) /\ Record(t, FreeFirst(q, r)) /\ ~Busy(t)' /\ live' = live
        /\ q \in Ptrs /\ r \in Ptrs \cup {Null}
        /\ MovesFrom(p, t) <=> q = p
        /\ MovesTo(p, t) <=> r = p
    BY <1>6 DEF RecordRealloc, TypeOK, Busy, MovesFrom, MovesTo
  <2>2. /\ Allocated(p, t) <=> q = p \/ (r # p /\ p \in live)
        /\ r = p => p \in live
        /\ q = p /\ r \notin {p, Null} => p \notin live
    BY <2>1 DEF LogIsHeap
  <2> HIDE DEF q, r
  <2>3. /\ Alternates(p, t)'
        /\ Allocated(p, t)' <=> r = p \/ (q # p /\ Allocated(p, t))
        /\ Len(log'[t]) = Len(log[t]) + 2
        /\ log'[t][Len(log[t]) + 1].op = "free" /\ log'[t][Len(log[t]) + 1].ptr = q
        /\ log'[t][Len(log[t]) + 2].ptr = r
    BY <2>1, <2>2, RecordTwo
  <2>4. ~(q = p /\ r = Null)
    <3>1. SUFFICES ASSUME q = p, r = Null PROVE FALSE
      OBVIOUS
    <3>2. /\ Len(log[t]) + 1 \in 1 .. Len(log'[t]) - 1
          /\ (Len(log[t]) + 1) + 1 = Len(log[t]) + 2
      <4>1. Len(log[t]) \in Nat
        BY LogType
      <4> QED
        BY <2>3, <4>1
    <3> QED
      BY <2>3, <3>1, <3>2 DEF RecordedAsMoved
  <2>5. Allocated(p, t)' <=> p \in live'
    BY <2>1, <2>2, <2>3, <2>4
  <2> QED
    BY <2>1, <2>3, <2>5 DEF LogIsHeap, MovesFrom, MovesTo
<1> QED
  BY <1>2, <1>3, <1>4, <1>5, <1>6

-----------------------------------------------------------------------------
(* The stash keeps step with the log *)

\* The instructions of one thread are matched in the order of its log.
InputOrder ==
  \A j \in 1 .. Len(input) :
    /\ \A i \in 1 .. j - 1 :
         input[i].thread = input[j].thread => input[i].time < input[j].time
    /\ \A e \in Matched : e.thread = input[j].thread => e.time < input[j].time

\* Of what has been matched of p, e is the last.
Latest(p, e) == e.ptr = p /\ \A f \in Matched : f.ptr = p => f.time <= e.time

\* Until the leaks are reported, the stash holds an allocation of p if the last
\* of p that has been matched is one.
StashIsLatest(p) ==
  leakCap => (Stashed(p) # {} <=> \E e \in Matched : e.op = "alloc" /\ Latest(p, e))

NoError(p) ==
  /\ \A d \in doubleAllocs : d.new.ptr # p
  /\ \A e \in doubleFrees : e.ptr # p

Orderly ==
  \A p \in Ptrs, t \in Threads : Single(p, t) /\ ~RecordedAsMoved(p) =>
    Alternates(p, t) /\ LogIsHeap(p, t) /\ StashIsLatest(p) /\ NoError(p)

EInv == IInv /\ InputOrder /\ Orderly

LEMMA EInvProgram ==
  ASSUME EInv, ProgramNext
  PROVE  EInv'
<1>1. Matched' = Matched
  BY ProgramMatched DEF EInv, IInv
<1>2. InputOrder'
  BY <1>1, ProgramFrame DEF EInv, InputOrder
<1>3. ASSUME NEW p \in Ptrs, NEW t \in Threads, Single(p, t)', ~RecordedAsMoved(p)'
      PROVE  Alternates(p, t)' /\ LogIsHeap(p, t)' /\ StashIsLatest(p)' /\ NoError(p)'
  <2>1. Single(p, t) /\ ~RecordedAsMoved(p)
    BY <1>3, TouchesGrow, RecordedAsMovedGrows DEF EInv, IInv, Single
  <2>2. Alternates(p, t) /\ LogIsHeap(p, t) /\ StashIsLatest(p) /\ NoError(p)
    BY <2>1 DEF EInv, Orderly
  <2>3. StashIsLatest(p)' /\ NoError(p)'
    BY <1>1, <2>2, ProgramFrame DEF StashIsLatest, NoError, Stashed, Latest
  <2>4. PICK u \in Threads :
          Alloc(u) \/ AllocZeroedFails(u) \/ Dealloc(u) \/ Realloc(u) \/ RecordRealloc(u)
    BY DEF ProgramNext
  <2>5. CASE u = t
    BY <1>3, <2>2, <2>3, <2>4, <2>5, OwnThread DEF EInv, IInv
  <2>6. CASE u # t
    <3>1. /\ log'[t] = log[t] /\ (p \in live' <=> p \in live)
          /\ Busy(t)' <=> Busy(t)
          /\ moving'[t] = moving[t] \/ ~Busy(t)
      BY <1>3, <2>4, <2>6, OtherThread DEF EInv, IInv, Single
    <3> QED
      BY <2>2, <2>3, <3>1 DEF Alternates, Allocated, LogIsHeap, MovesFrom, MovesTo
  <2> QED
    BY <2>5, <2>6
<1>4. Orderly'
  BY <1>3 DEF Orderly
<1> QED
  BY <1>2, <1>4, ProgramStep DEF EInv

\* The same, for steps that neither log nor match.
LEMMA SameOrder ==
  ASSUME Orderly, Matched' = Matched,
         UNCHANGED <<live, moving, log, doubleAllocs, doubleFrees>>,
         ~leakCap' \/ UNCHANGED <<stash, leakCap>>
  PROVE  Orderly'
<1> SUFFICES ASSUME NEW p \in Ptrs, NEW t \in Threads, Single(p, t)', ~RecordedAsMoved(p)'
             PROVE  Alternates(p, t)' /\ LogIsHeap(p, t)' /\ StashIsLatest(p)' /\ NoError(p)'
  BY DEF Orderly
<1>1. Single(p, t) /\ ~RecordedAsMoved(p)
  BY DEF Single, Touches, RecordedAsMoved
<1>2. Alternates(p, t) /\ LogIsHeap(p, t) /\ StashIsLatest(p) /\ NoError(p)
  BY <1>1 DEF Orderly
<1>3. Alternates(p, t)' /\ LogIsHeap(p, t)'
  BY <1>2 DEF Alternates, Allocated, LogIsHeap, MovesFrom, MovesTo, Busy
<1>4. StashIsLatest(p)' /\ NoError(p)'
  BY <1>2 DEF StashIsLatest, NoError, Stashed, Latest
<1> QED
  BY <1>3, <1>4

LEMMA EInvReader ==
  ASSUME EInv, ReaderNext
  PROVE  EInv'
<1>1. Matched' = Matched /\ IInv'
  BY ReaderType, ReaderMatched, ReaderStep DEF EInv, IInv
<1>2. UNCHANGED <<live, moving, log, stash, leakCap, doubleAllocs, doubleFrees>>
  BY DEF ReaderNext, ReadEnd, ReadInstructions
<1>3. Orderly'
  BY <1>1, <1>2, SameOrder DEF EInv
<1>4. CASE ReadEnd
  <2>1. input' = input
    BY <1>4 DEF ReadEnd
  <2>2. InputOrder'
    BY <1>1, <2>1 DEF EInv, InputOrder
  <2> QED
    BY <1>1, <1>3, <2>2 DEF EInv
<1>5. ASSUME NEW t \in Threads, NEW n \in read[t] + 1 .. Len(log[t]), Appends(t, n)
      PROVE  InputOrder'
  <2> DEFINE r == read[t]
             m == Len(input)
             s == log[t]
  <2>1. /\ r \in Nat /\ n \in Nat /\ n <= Len(s) /\ Len(s) \in Nat /\ m \in Nat
        /\ TypeOK /\ LogOrder /\ InputOnce /\ InputOrder
    BY LenProperties DEF EInv, IInv, TypeOK
  <2>2. /\ Len(input') = m + (n - r) /\ Len(input') \in Nat
        /\ \A i \in 1 .. m : input'[i] = input[i]
        /\ \A i \in m + 1 .. Len(input') : input'[i] = s[r + (i - m)]
    BY <1>5, <2>1, ReaderAppends
  <2>3. \A i \in 1 .. Len(s) : s[i].thread = t /\ \A j \in 1 .. i - 1 : s[j].time < s[i].time
    BY <2>1 DEF LogOrder
  <2>4. \A e \in Read : e.thread = t => \E i \in 1 .. r : e = s[i]
    <3> TAKE e \in Read
    <3>1. PICK u \in Threads : \E i \in 1 .. read[u] : e = log[u][i]
      BY InRead
    <3>2. PICK i \in 1 .. read[u] : e = log[u][i]
      BY <3>1
    <3>3. i \in 1 .. Len(log[u])
      BY <2>1, LenProperties DEF TypeOK
    <3>4. e.thread = u
      BY <2>1, <3>2, <3>3 DEF LogOrder
    <3> QED
      BY <3>2, <3>4
  <2> HIDE DEF r, m, s
  <2>5. ASSUME NEW e \in Read, NEW j \in m + 1 .. Len(input'), e.thread = input'[j].thread
        PROVE  e.time < input'[j].time
    <3>1. r + (j - m) \in 1 .. Len(s) /\ \A i \in 1 .. r : i \in 1 .. (r + (j - m)) - 1
      BY <2>1, <2>2
    <3>2. input'[j] = s[r + (j - m)] /\ e.thread = t
      BY <2>2, <2>3, <2>5, <3>1
    <3> QED
      BY <2>3, <2>4, <3>1, <3>2
  <2>6. ASSUME NEW j \in 1 .. Len(input'), NEW i \in 1 .. j - 1,
               input'[i].thread = input'[j].thread
        PROVE  input'[i].time < input'[j].time
    <3>1. CASE j <= m
      <4>1. j \in 1 .. m /\ i \in 1 .. m
        BY <2>1, <2>2, <3>1
      <4> QED
        BY <2>1, <2>2, <2>6, <4>1 DEF InputOrder, m
    <3>2. CASE j > m /\ i <= m
      <4>1. j \in m + 1 .. Len(input') /\ i \in 1 .. m
        BY <2>1, <2>2, <3>2
      <4>2. input'[i] \in Read
        BY <2>1, <2>2, <4>1 DEF InputOnce, m
      <4> QED
        BY <2>5, <2>6, <4>1, <4>2
    <3>3. CASE j > m /\ i > m
      <4>1. /\ j \in m + 1 .. Len(input') /\ i \in m + 1 .. Len(input')
            /\ r + (j - m) \in 1 .. Len(s)
            /\ r + (i - m) \in 1 .. (r + (j - m)) - 1
        BY <2>1, <2>2, <3>3, SMTT(30)
      <4> QED
        BY <2>2, <2>3, <4>1
    <3>4. (j <= m \/ j > m) /\ (i <= m \/ i > m) /\ (j <= m => i <= m)
      BY <2>1, <2>2
    <3> QED
      BY <3>1, <3>2, <3>3, <3>4
  <2>7. ASSUME NEW j \in 1 .. Len(input'), NEW e \in Matched', e.thread = input'[j].thread
        PROVE  e.time < input'[j].time
    <3>1. e \in Matched /\ e \in Read
      BY <1>1 DEF Matched
    <3>2. CASE j <= m
      <4>1. j \in 1 .. m
        BY <2>1, <2>2, <3>2
      <4> QED
        BY <2>1, <2>2, <2>7, <3>1, <4>1 DEF InputOrder, m
    <3>3. CASE j > m
      <4>1. j \in m + 1 .. Len(input')
        BY <2>1, <2>2, <3>3
      <4> QED
        BY <2>5, <2>7, <3>1, <4>1
    <3> QED
      BY <2>1, <2>2, <3>2, <3>3
  <2> QED
    BY <2>6, <2>7 DEF InputOrder
<1>6. CASE \E t \in Threads : ReadInstructions(t)
  BY <1>1, <1>3, <1>5, <1>6 DEF ReadInstructions, Appends, EInv
<1> QED
  BY <1>4, <1>6 DEF ReaderNext

LEMMA EInvLeaks ==
  ASSUME EInv, ReportLeaks
  PROVE  EInv'
<1>1. Matched' = Matched
  BY DEF ReportLeaks, Matched, Read, Pending
<1>2. Orderly'
  BY <1>1, SameOrder DEF EInv, ReportLeaks
<1>3. InputOrder'
  BY <1>1 DEF EInv, InputOrder, ReportLeaks
<1> QED
  BY <1>2, <1>3, LeaksStep DEF EInv

LEMMA InputOrderMatch ==
  ASSUME EInv, Match
  PROVE  InputOrder'
<1>1. /\ Matched' = Matched \cup {Head(input)} /\ InputOrder
      /\ input \in Seq(Instruction) /\ input # << >> /\ input' = Tail(input)
  BY MatchMatched DEF EInv, IInv, TypeOK, Match
<1>2. /\ Len(input) \in Nat \ {0} /\ Head(input) = input[1]
      /\ Len(input') = Len(input) - 1
      /\ \A i \in 1 .. Len(input') : input'[i] = input[i + 1]
  <2>1. Head(input) = input[1] /\ Len(input) \in Nat \ {0}
    BY <1>1, EmptySeq
  <2> QED
    BY <1>1, <2>1, HeadTailProperties
<1>3. ASSUME NEW j \in 1 .. Len(input')
      PROVE  /\ \A i \in 1 .. j - 1 :
                  input'[i].thread = input'[j].thread => input'[i].time < input'[j].time
             /\ \A e \in Matched' : e.thread = input'[j].thread => e.time < input'[j].time
  <2>1. /\ j + 1 \in 1 .. Len(input) /\ 1 \in 1 .. (j + 1) - 1
        /\ \A i \in 1 .. j - 1 : i + 1 \in 1 .. (j + 1) - 1 /\ i \in 1 .. Len(input')
    BY <1>2
  <2>2. \A i \in 1 .. j - 1 :
          input'[i].thread = input'[j].thread => input'[i].time < input'[j].time
    BY <1>1, <1>2, <2>1 DEF InputOrder
  <2>3. \A e \in Matched : e.thread = input'[j].thread => e.time < input'[j].time
    BY <1>1, <1>2, <2>1 DEF InputOrder
  <2>4. Head(input).thread = input'[j].thread => Head(input).time < input'[j].time
    BY <1>1, <1>2, <2>1 DEF InputOrder
  <2> QED
    BY <1>1, <2>2, <2>3, <2>4
<1> QED
  BY <1>3 DEF InputOrder

LEMMA MatchedType ==
  ASSUME TypeOK
  PROVE  Matched \subseteq Instruction
<1>1. \A t \in Threads : \A i \in 1 .. read[t] : log[t][i] \in Instruction
  <2>1. \A t \in Threads : \A i \in 1 .. read[t] : i \in 1 .. Len(log[t])
    BY LenProperties DEF TypeOK
  <2> QED
    BY <2>1, LogType
<1> QED
  BY <1>1, InRead DEF Matched

\* What is to be matched next fits: for an address of a single thread, the next
\* instruction is a deallocation if and only if the stash holds an allocation.
LEMMA NextFits ==
  ASSUME EInv, Match, NEW p \in Ptrs, NEW t \in Threads,
         Single(p, t), ~RecordedAsMoved(p), Head(input).ptr = p
  PROVE  /\ Head(input).op = "free" <=> Stashed(p) # {}
         /\ \A e \in Matched : e.ptr = p => e.time < Head(input).time
<1> DEFINE h == Head(input)
           s == log[t]
<1>1. /\ TypeOK /\ LogOrder /\ InputOnce /\ InputOrder /\ leakCap
      /\ Alternates(p, t) /\ StashIsLatest(p)
  <2>1. input # << >>
    BY DEF Match
  <2> QED
    BY <2>1 DEF EInv, IInv, Ending, Orderly
<1>2. h = input[1] /\ 1 \in 1 .. Len(input) /\ Len(input) \in Nat
  BY <1>1, EmptySeq DEF Match, TypeOK
<1>3. \A e \in Read : e.ptr = p => \E i \in 1 .. read[t] : e = s[i]
  <2> TAKE e \in Read
  <2> HAVE e.ptr = p
  <2>1. PICK u \in Threads : \E i \in 1 .. read[u] : e = log[u][i]
    BY InRead
  <2>2. PICK i \in 1 .. read[u] : e = log[u][i]
    BY <2>1
  <2>3. i \in DOMAIN log[u]
    BY <1>1, LenProperties DEF TypeOK
  <2>4. Touches(u, p)
    BY <2>2, <2>3 DEF Touches
  <2>5. u = t
    BY <2>4 DEF Single
  <2> QED
    BY <2>2, <2>5
<1>4. /\ read[t] \in Nat /\ Len(s) \in Nat /\ read[t] <= Len(s)
      /\ \A i \in 1 .. Len(s) :
           /\ s[i].time \in Nat /\ s[i].thread = t
           /\ \A j \in 1 .. i - 1 : s[j].time < s[i].time
  BY <1>1, LogType DEF TypeOK, LogOrder
<1>5. PICK n \in 1 .. read[t] : h = s[n]
  BY <1>1, <1>2, <1>3 DEF InputOnce
<1> HIDE DEF h, s
<1>6. \A e \in Matched : e.ptr = p => e.time < h.time /\ \E i \in 1 .. n - 1 : e = s[i]
  <2> TAKE e \in Matched
  <2> HAVE e.ptr = p
  <2>1. PICK i \in 1 .. read[t] : e = s[i]
    BY <1>3 DEF Matched
  <2>2. e.time < h.time
    <3>1. i \in 1 .. Len(s) /\ n \in 1 .. Len(s)
      BY <1>4
    <3>2. e.thread = input[1].thread
      BY <1>2, <1>4, <1>5, <2>1, <3>1
    <3> QED
      BY <1>1, <1>2, <3>2 DEF InputOrder
  <2>3. ~(n < i) /\ n # i
    <3>1. n < i => n \in 1 .. i - 1
      BY <1>4
    <3>2. h.time \in Nat /\ e.time \in Nat
      BY <1>4, <1>5, <2>1
    <3> QED
      BY <1>4, <1>5, <2>1, <2>2, <3>1, <3>2
  <2>4. i \in 1 .. n - 1
    BY <1>4, <2>3
  <2> QED
    BY <2>1, <2>2, <2>4
<1>7. \A i \in 1 .. n - 1 : s[i] \in Matched
  <2> TAKE i \in 1 .. n - 1
  <2>1. i \in 1 .. read[t] /\ i \in 1 .. Len(s) /\ n \in 1 .. Len(s)
    BY <1>4
  <2>2. s[i] \in Read
    BY <2>1, InRead DEF s
  <2>3. s[i].time < h.time /\ s[i].thread = h.thread /\ s[i].time \in Nat /\ h.time \in Nat
    BY <1>4, <1>5, <2>1
  <2>4. ASSUME NEW j \in 1 .. Len(input), s[i] = input[j]
        PROVE  FALSE
    <3>1. j = 1 \/ 1 \in 1 .. j - 1
      BY <1>2
    <3>2. CASE j = 1
      BY <1>2, <2>3, <2>4, <3>2
    <3>3. CASE 1 \in 1 .. j - 1
      <4>1. h.time < s[i].time
        BY <1>1, <1>2, <2>3, <2>4, <3>3 DEF InputOrder
      <4> QED
        BY <2>3, <4>1
    <3> QED
      BY <3>1, <3>2, <3>3
  <2> QED
    BY <1>1, <2>2, <2>4, InPending DEF Matched
<1>8. (\E e \in Matched : e.op = "alloc" /\ Latest(p, e)) <=> AllocatedAt(s, p, n - 1)
  <2>1. ASSUME NEW e \in Matched, e.op = "alloc", Latest(p, e)
        PROVE  AllocatedAt(s, p, n - 1)
    <3>1. PICK i \in 1 .. n - 1 : e = s[i]
      BY <1>6, <2>1 DEF Latest
    <3>2. ASSUME NEW k \in i + 1 .. n - 1
          PROVE  s[k].ptr # p
      <4>1. k \in 1 .. n - 1 /\ k \in 1 .. Len(s) /\ i \in 1 .. k - 1
        BY <1>4
      <4>2. s[k] \in Matched /\ s[i].time < s[k].time /\ s[i].time \in Nat /\ s[k].time \in Nat
        BY <1>4, <1>7, <4>1
      <4> QED
        BY <2>1, <3>1, <4>2 DEF Latest
    <3> QED
      BY <2>1, <3>1, <3>2 DEF AllocatedAt, Latest
  <2>2. ASSUME NEW i \in 1 .. n - 1, s[i].ptr = p, s[i].op = "alloc",
               \A k \in i + 1 .. n - 1 : s[k].ptr # p
        PROVE  s[i] \in Matched /\ Latest(p, s[i])
    <3>1. ASSUME NEW f \in Matched, f.ptr = p
          PROVE  f.time <= s[i].time
      <4>1. PICK k \in 1 .. n - 1 : f = s[k]
        BY <1>6, <3>1
      <4>2. k \in 1 .. i
        BY <1>4, <2>2, <3>1, <4>1
      <4>3. k = i \/ k \in 1 .. i - 1
        BY <4>2
      <4>4. i \in 1 .. Len(s) /\ k \in 1 .. Len(s)
        BY <1>4
      <4> QED
        BY <1>4, <4>1, <4>3, <4>4
    <3> QED
      BY <1>7, <2>2, <3>1 DEF Latest
  <2> QED
    BY <2>1, <2>2 DEF AllocatedAt
<1>9. h.op = "free" <=> AllocatedAt(s, p, n - 1)
  <2>1. n \in 1 .. Len(s) /\ s[n].ptr = p
    BY <1>4, <1>5 DEF h
  <2> QED
    BY <1>1, <1>5, <2>1 DEF Alternates, Alternate, s
<1> QED
  BY <1>1, <1>6, <1>8, <1>9 DEF StashIsLatest, h

LEMMA EInvMatch ==
  ASSUME EInv, Match
  PROVE  EInv'
<1>1. PICK h \in Instruction :
      /\ h = Head(input) /\ Matched' = Matched \cup {h}
      /\ UNCHANGED <<live, moving, log, leakCap>>
      /\ MatchAlloc(h) \/ MatchDealloc(h)
  BY MatchMatched DEF EInv, IInv, Match
<1>2. ASSUME NEW p \in Ptrs, NEW t \in Threads, Single(p, t)', ~RecordedAsMoved(p)'
      PROVE  Alternates(p, t)' /\ LogIsHeap(p, t)' /\ StashIsLatest(p)' /\ NoError(p)'
  <2>1. Single(p, t) /\ ~RecordedAsMoved(p)
    BY <1>1, <1>2 DEF Single, Touches, RecordedAsMoved
  <2>2. Alternates(p, t) /\ LogIsHeap(p, t) /\ StashIsLatest(p) /\ NoError(p)
    BY <2>1 DEF EInv, Orderly
  <2>3. Alternates(p, t)' /\ LogIsHeap(p, t)'
    BY <1>1, <2>2 DEF Alternates, Allocated, LogIsHeap, MovesFrom, MovesTo, Busy
  <2>4. ASSUME h.ptr # p
        PROVE  StashIsLatest(p)' /\ NoError(p)'
    <3>1. Stashed(p)' = Stashed(p)
      BY <1>1, <2>4 DEF MatchAlloc, MatchDealloc, Inserted, Without, Stashed
    <3>2. NoError(p)'
      BY <1>1, <2>2, <2>4 DEF NoError, MatchAlloc, MatchDealloc
    <3>3. /\ \A e : e.ptr = p => (Latest(p, e)' <=> Latest(p, e))
          /\ \A e \in Matched' : e.ptr = p => e \in Matched
      BY <1>1, <2>4 DEF Latest
    <3> QED
      BY <1>1, <2>2, <3>1, <3>2, <3>3 DEF StashIsLatest, Latest
  <2>5. ASSUME h.ptr = p
        PROVE  StashIsLatest(p)' /\ NoError(p)'
    <3>1. /\ h.op = "free" <=> Stashed(p) # {}
          /\ \A e \in Matched : e.ptr = p => e.time < h.time
      BY <1>1, <2>1, <2>5, NextFits
    <3>2. h.time \in Nat /\ \A e \in Matched : e.ptr = p => e.time \in Nat
      BY <1>1, MatchingAssumption, MatchedType DEF Instruction, EInv, IInv
    <3>3. CASE MatchAlloc(h)
      <4>1. h.op = "alloc" /\ Stashed(p) = {} /\ h \in Stashed(p)'
        BY <2>5, <3>1, <3>3 DEF MatchAlloc, Inserted, Stashed
      <4>2. Latest(p, h)'
        BY <1>1, <2>5, <3>1, <3>2 DEF Latest
      <4>3. NoError(p)'
        BY <2>2, <2>5, <3>3, <4>1 DEF NoError, MatchAlloc
      <4> QED
        BY <1>1, <4>1, <4>2, <4>3 DEF StashIsLatest
    <3>4. CASE MatchDealloc(h)
      <4>1. h.op = "free" /\ Stashed(p) # {} /\ Stashed(p)' = {}
        BY <2>5, <3>1, <3>4 DEF MatchDealloc, Without, Stashed
      <4>2. \A e \in Matched' : Latest(p, e)' => e = h
        BY <1>1, <2>5, <3>1, <3>2 DEF Latest
      <4>3. NoError(p)'
        BY <2>2, <2>5, <3>4, <4>1 DEF NoError, MatchDealloc
      <4> QED
        BY <4>1, <4>2, <4>3 DEF StashIsLatest
    <3> QED
      BY <1>1, <3>3, <3>4
  <2> QED
    BY <2>3, <2>4, <2>5
<1>3. Orderly'
  BY <1>2 DEF Orderly
<1> QED
  BY <1>3, InputOrderMatch, MatchStep DEF EInv

LEMMA InitEInv == Init => EInv
<1> SUFFICES ASSUME Init PROVE EInv
  OBVIOUS
<1>1. /\ Len(<< >>) = 0 /\ 1 .. 0 = {}
      /\ \A i : i \notin 1 .. 0 - 1
  OBVIOUS
<1>2. InputOrder
  BY <1>1 DEF Init, InputOrder
<1>3. Matched = {}
  BY <1>1 DEF Init, Matched, Read
<1>4. ASSUME NEW p \in Ptrs, NEW t \in Threads
      PROVE  Alternates(p, t) /\ LogIsHeap(p, t) /\ StashIsLatest(p) /\ NoError(p)
  <2>1. log[t] = << >> /\ live = {} /\ ~Busy(t)
    BY DEF Init, Busy
  <2>2. Alternates(p, t) /\ ~Allocated(p, t)
    BY <1>1, <2>1 DEF Alternates, Alternate, Allocated, AllocatedAt
  <2>3. StashIsLatest(p) /\ NoError(p)
    BY <1>3 DEF Init, StashIsLatest, NoError, Stashed
  <2> QED
    BY <2>1, <2>2, <2>3 DEF LogIsHeap, MovesFrom, MovesTo
<1> QED
  BY <1>2, <1>4, InitIInv DEF EInv, Orderly

-----------------------------------------------------------------------------
(* The theorem *)

\* An address that a single thread uses has a thread that uses it, or none.
LEMMA OneThreadIsSingle ==
  ASSUME NEW p \in Ptrs, OneThread(p), NEW t \in Threads
  PROVE  \E u \in Threads : Single(p, u)
<1> DEFINE S == {u \in Threads : Touches(u, p)}
<1>1. IsFiniteSet(S) /\ Cardinality(S) <= 1
  <2>1. S \in SUBSET Threads
    OBVIOUS
  <2>2. IsFiniteSet(S)
    BY <2>1, MatchingAssumption, FS_Subset
  <2> QED
    BY <2>2 DEF OneThread
<1>2. ASSUME NEW u \in S, NEW w \in S, u # w
      PROVE  FALSE
  <2>1. IsFiniteSet({u}) /\ Cardinality({u}) = 1 /\ w \notin {u}
    BY <1>2, FS_Singleton
  <2>2. Cardinality({u} \cup {w}) = 2
    BY <2>1, FS_AddElement
  <2>3. Cardinality({u} \cup {w}) <= Cardinality(S)
    BY <1>1, FS_Subset
  <2>4. Cardinality(S) \in Nat
    BY <1>1, FS_CardinalityType
  <2> QED
    BY <1>1, <2>2, <2>3, <2>4
<1>3. CASE S = {}
  BY <1>3 DEF Single
<1>4. CASE S # {}
  <2>1. PICK u \in S : TRUE
    BY <1>4
  <2> QED
    BY <1>2, <2>1 DEF Single
<1> QED
  BY <1>3, <1>4

\* An address that is used by a single thread gets no double allocation and no
\* double free, however the buffers of the threads interleave, unless a realloc
\* of it fails: the only limitation is the one the repository's README names.
THEOREM NoSpuriousErrorsHolds == Spec => []NoSpuriousErrors
<1>1. ASSUME EInv, [Next]_vars
      PROVE  EInv'
  <2>1. CASE UNCHANGED vars
    <3>1. Matched' = Matched
      BY <2>1 DEF Matched, Read, Pending
    <3>2. Orderly' /\ InputOrder'
      BY <1>1, <2>1, <3>1, SameOrder DEF EInv, InputOrder
    <3>3. IInv'
      BY <1>1, NextStep DEF EInv
    <3> QED
      BY <3>2, <3>3 DEF EInv
  <2> QED
    BY <1>1, <2>1, EInvProgram, EInvReader, EInvMatch, EInvLeaks DEF Next
<1>2. EInv => NoSpuriousErrors
  <2> SUFFICES ASSUME EInv, NEW p \in Ptrs, OneThread(p), ~RecordedAsMoved(p)
               PROVE  NoError(p)
    BY DEF NoSpuriousErrors, NoError
  <2>1. CASE Threads = {}
    BY <2>1, MatchedType DEF EInv, IInv, Known, Of, TypeOK, Instruction, NoError
  <2>2. CASE Threads # {}
    <3>1. PICK t \in Threads : Single(p, t)
      BY <2>2, OneThreadIsSingle
    <3> QED
      BY <3>1 DEF EInv, Orderly
  <2> QED
    BY <2>1, <2>2
<1> QED
  BY <1>1, <1>2, InitEInv, PTL DEF Spec

=============================================================================
