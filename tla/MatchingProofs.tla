--------------------------- MODULE MatchingProofs ---------------------------
(* Proofs about Matching, for every set of threads and addresses. *)
EXTENDS Matching, SequenceTheorems, FiniteSetTheorems, TLAPS

USE DEF programVars, readerVars, outputVars, vars

-----------------------------------------------------------------------------
(* The type invariant *)

\* What a hook records: an operation and a pointer each.
Recordable == {"alloc", "free"} \X (Ptrs \cup {Null})

\* A log that grows keeps what it has; the new instructions carry the thread
\* and the times that follow.
LEMMA RecordGrows ==
  ASSUME TypeOK, NEW t \in Threads, NEW instrs \in Seq(Recordable), Record(t, instrs)
  PROVE  /\ clock' \in 0 .. MaxTime /\ clock <= clock' /\ clock \in Nat
         /\ log' \in [Threads -> Seq(Instruction)]
         /\ \A u \in Threads :
              /\ Len(log[u]) \in Nat /\ Len(log'[u]) \in Nat /\ Len(log[u]) <= Len(log'[u])
              /\ \A i \in 1 .. Len(log[u]) : log'[u][i] = log[u][i]
              /\ u # t => log'[u] = log[u]
         /\ Len(log'[t]) = Len(log[t]) + Len(instrs)
         /\ \A i \in Len(log[t]) + 1 .. Len(log'[t]) :
              /\ log'[t][i].op = instrs[i - Len(log[t])][1]
              /\ log'[t][i].ptr = instrs[i - Len(log[t])][2]
              /\ log'[t][i].thread = t
              /\ log'[t][i].time = clock + (i - Len(log[t]))
              /\ log'[t][i].time <= clock'
<1> DEFINE new == [i \in 1 .. Len(instrs) |->
                     [op |-> instrs[i][1], ptr |-> instrs[i][2],
                      thread |-> t, time |-> clock + i]]
<1>1. /\ clock \in Nat /\ Len(instrs) \in Nat /\ clock' = clock + Len(instrs)
      /\ clock' \in 0 .. MaxTime /\ clock <= clock'
  BY MatchingAssumption DEF TypeOK, Record
<1>2. \A i \in 1 .. Len(instrs) : new[i] \in Instruction
  <2> SUFFICES ASSUME NEW i \in 1 .. Len(instrs) PROVE new[i] \in Instruction
    OBVIOUS
  <2>1. instrs[i] \in Recordable
    BY ElementOfSeq
  <2>2. instrs[i][1] \in {"alloc", "free"} /\ instrs[i][2] \in Ptrs \cup {Null}
    BY <2>1 DEF Recordable
  <2>3. clock + i \in 1 .. MaxTime
    BY <1>1, MatchingAssumption
  <2> QED
    BY <2>2, <2>3 DEF Instruction
<1>3. new \in Seq(Instruction) /\ Len(new) = Len(instrs)
  BY <1>1, <1>2
<1>4. log' = [log EXCEPT ![t] = log[t] \o new]
  BY DEF Record
<1>5. \A i \in 1 .. Len(instrs) :
        /\ new[i].op = instrs[i][1] /\ new[i].ptr = instrs[i][2]
        /\ new[i].thread = t /\ new[i].time = clock + i
  OBVIOUS
<1> HIDE DEF new
<1>6. log \in [Threads -> Seq(Instruction)] /\ log[t] \in Seq(Instruction)
  BY DEF TypeOK
<1>7. /\ log[t] \o new \in Seq(Instruction)
      /\ Len(log[t] \o new) = Len(log[t]) + Len(instrs)
      /\ Len(log[t]) \in Nat
      /\ \A i \in 1 .. Len(log[t]) + Len(instrs) :
           (log[t] \o new)[i] = IF i <= Len(log[t]) THEN log[t][i] ELSE new[i - Len(log[t])]
  <2>1. Len(log[t]) \in Nat
    BY <1>6, LenProperties
  <2>2. /\ log[t] \o new \in Seq(Instruction)
        /\ Len(log[t] \o new) = Len(log[t]) + Len(new)
        /\ \A i \in 1 .. Len(log[t]) + Len(new) :
             (log[t] \o new)[i] = IF i <= Len(log[t]) THEN log[t][i] ELSE new[i - Len(log[t])]
    BY <1>3, <1>6, ConcatProperties
  <2> QED
    BY <1>3, <2>1, <2>2
<1>8. log' \in [Threads -> Seq(Instruction)] /\ log'[t] = log[t] \o new
  BY <1>4, <1>6, <1>7
<1>9. \A u \in Threads :
        /\ Len(log[u]) \in Nat /\ Len(log'[u]) \in Nat /\ Len(log[u]) <= Len(log'[u])
        /\ \A i \in 1 .. Len(log[u]) : log'[u][i] = log[u][i]
        /\ u # t => log'[u] = log[u]
  <2> TAKE u \in Threads
  <2>1. CASE u = t
    BY <1>1, <1>7, <1>8, <2>1
  <2>2. CASE u # t
    <3>1. log'[u] = log[u] /\ Len(log[u]) \in Nat
      BY <1>4, <1>6, <2>2, LenProperties
    <3> QED
      BY <2>2, <3>1
  <2> QED
    BY <2>1, <2>2
<1>10. \A i \in Len(log[t]) + 1 .. Len(log'[t]) :
         /\ log'[t][i].op = instrs[i - Len(log[t])][1]
         /\ log'[t][i].ptr = instrs[i - Len(log[t])][2]
         /\ log'[t][i].thread = t
         /\ log'[t][i].time = clock + (i - Len(log[t]))
         /\ log'[t][i].time <= clock'
  <2> TAKE i \in Len(log[t]) + 1 .. Len(log'[t])
  <2>1. /\ i - Len(log[t]) \in 1 .. Len(instrs)
        /\ log'[t][i] = new[i - Len(log[t])]
    BY <1>1, <1>7, <1>8
  <2>2. \A k \in 1 .. Len(instrs) : clock + k <= clock'
    BY <1>1
  <2> QED
    BY <1>5, <2>1, <2>2
<1>11. Len(log'[t]) = Len(log[t]) + Len(instrs)
  BY <1>7, <1>8
<1> QED
  BY <1>1, <1>8, <1>9, <1>10, <1>11

\* Every step of the program records what a hook can record, or nothing.
LEMMA ProgramRecords ==
  ASSUME TypeOK, ProgramNext
  PROVE  \/ UNCHANGED <<clock, log>>
         \/ \E t \in Threads, instrs \in Seq(Recordable) : Record(t, instrs)
<1>1. PICK t \in Threads :
        Alloc(t) \/ AllocZeroedFails(t) \/ Dealloc(t) \/ Realloc(t) \/ RecordRealloc(t)
  BY DEF ProgramNext
<1>2. ASSUME NEW op \in {"alloc", "free"}, NEW p \in Ptrs \cup {Null}
      PROVE  << <<op, p>> >> \in Seq(Recordable)
  <2>1. <<op, p>> \in Recordable
    BY DEF Recordable
  <2> QED
    BY <2>1
<1>3. CASE Alloc(t)
  BY <1>2, <1>3 DEF Alloc
<1>4. CASE AllocZeroedFails(t)
  BY <1>2, <1>4 DEF AllocZeroedFails
<1>5. CASE Dealloc(t)
  BY <1>2, <1>5 DEF Dealloc, Owned, TypeOK
<1>6. CASE Realloc(t)
  BY <1>6 DEF Realloc
<1>7. CASE RecordRealloc(t)
  <2> DEFINE p == moving[t][1]
             q == moving[t][2]
  <2>1. p \in Ptrs /\ q \in Ptrs \cup {Null}
    BY <1>7 DEF TypeOK, RecordRealloc, Busy
  <2> HIDE DEF p, q
  <2>2. <<"free", p>> \in Recordable /\ <<"alloc", q>> \in Recordable
    BY <2>1 DEF Recordable
  <2>3. FreeFirst(p, q) \in Seq(Recordable)
    BY <2>2 DEF FreeFirst
  <2> QED
    BY <1>7, <2>3 DEF RecordRealloc, p, q
<1> QED
  BY <1>1, <1>3, <1>4, <1>5, <1>6, <1>7

\* A step of the program leaves the analysis alone.
LEMMA ProgramFrame ==
  ASSUME ProgramNext
  PROVE  UNCHANGED <<read, open, input, stash, leakCap, pairs, doubleAllocs, doubleFrees, leaks>>
  BY DEF ProgramNext, Alloc, AllocZeroedFails, Dealloc, Realloc, RecordRealloc

\* The old and the new address of a realloc are addresses.
LEMMA ProgramMemory ==
  ASSUME TypeOK, ProgramNext
  PROVE  /\ live' \in SUBSET Ptrs
         /\ \A t \in DOMAIN moving' : t \in Threads /\ moving'[t] \in Ptrs \X (Ptrs \cup {Null})
<1>1. PICK t \in Threads :
        Alloc(t) \/ AllocZeroedFails(t) \/ Dealloc(t) \/ Realloc(t) \/ RecordRealloc(t)
  BY DEF ProgramNext
<1>2. CASE Alloc(t) \/ AllocZeroedFails(t) \/ Dealloc(t)
  BY <1>2 DEF TypeOK, Alloc, AllocZeroedFails, Dealloc
<1>3. CASE Realloc(t)
  BY <1>3 DEF TypeOK, Realloc, Owned
<1>4. CASE RecordRealloc(t)
  BY <1>4 DEF TypeOK, RecordRealloc
<1> QED
  BY <1>1, <1>2, <1>3, <1>4

LEMMA ProgramLog ==
  ASSUME TypeOK, ProgramNext
  PROVE  /\ clock' \in 0 .. MaxTime /\ log' \in [Threads -> Seq(Instruction)]
         /\ \A u \in Threads :
              /\ Len(log[u]) \in Nat /\ Len(log'[u]) \in Nat /\ Len(log[u]) <= Len(log'[u])
              /\ \A i \in 1 .. Len(log[u]) : log'[u][i] = log[u][i]
<1>1. CASE UNCHANGED <<clock, log>>
  <2>1. \A u \in Threads : Len(log[u]) \in Nat
    BY LenProperties DEF TypeOK
  <2> QED
    BY <1>1, <2>1 DEF TypeOK
<1>2. CASE \E t \in Threads, instrs \in Seq(Recordable) : Record(t, instrs)
  BY <1>2, RecordGrows
<1> QED
  BY <1>1, <1>2, ProgramRecords

LEMMA ProgramType ==
  ASSUME TypeOK, ProgramNext
  PROVE  TypeOK'
<1>1. \A t \in Threads : read'[t] <= Len(log'[t])
  BY ProgramFrame, ProgramLog DEF TypeOK
<1> QED
  BY <1>1, ProgramFrame, ProgramMemory, ProgramLog DEF TypeOK

LEMMA ReaderType ==
  ASSUME TypeOK, ReaderNext
  PROVE  TypeOK'
<1>1. CASE ReadEnd
  BY <1>1 DEF TypeOK, ReadEnd
<1>2. ASSUME NEW t \in Threads, NEW n \in read[t] + 1 .. Len(log[t]),
             read' = [read EXCEPT ![t] = n],
             input' = input \o SubSeq(log[t], read[t] + 1, n),
             UNCHANGED <<programVars, open, stash, outputVars>>
      PROVE  TypeOK'
  <2>1. read[t] \in Nat /\ log[t] \in Seq(Instruction) /\ Len(log[t]) \in Nat
    BY LenProperties DEF TypeOK
  <2>2. SubSeq(log[t], read[t] + 1, n) \in Seq(Instruction)
    BY <2>1, SubSeqProperties, ElementOfSeq
  <2>3. input' \in Seq(Instruction)
    BY <1>2, <2>2, ConcatProperties DEF TypeOK
  <2>4. read' \in [Threads -> Nat] /\ \A u \in Threads : read'[u] <= Len(log[u])
    BY <1>2, <2>1 DEF TypeOK
  <2> QED
    BY <1>2, <2>3, <2>4 DEF TypeOK
<1> QED
  BY <1>1, <1>2 DEF ReaderNext, ReadInstructions

LEMMA MatchType ==
  ASSUME TypeOK, Match
  PROVE  TypeOK'
<1>1. Head(input) \in Instruction /\ input' \in Seq(Instruction)
  BY HeadTailProperties DEF TypeOK, Match
<1>2. CASE MatchAlloc(Head(input))
  BY <1>1, <1>2 DEF TypeOK, Match, MatchAlloc, Inserted, Stashed
<1>3. CASE MatchDealloc(Head(input))
  BY <1>1, <1>3 DEF TypeOK, Match, MatchDealloc, Without, Stashed
<1> QED
  BY <1>2, <1>3 DEF Match

LEMMA InitType == Init => TypeOK
<1> SUFFICES ASSUME Init PROVE TypeOK
  OBVIOUS
<1>1. clock \in 0 .. MaxTime /\ DOMAIN moving = {}
  BY MatchingAssumption DEF Init
<1>2. log \in [Threads -> Seq(Instruction)] /\ input \in Seq(Instruction)
  BY DEF Init
<1>3. read \in [Threads -> Nat] /\ \A t \in Threads : read[t] <= Len(log[t])
  BY EmptySeq DEF Init
<1> QED
  BY <1>1, <1>2, <1>3 DEF Init, TypeOK

\* The analysis keeps the types of its state: above all, the stash holds at
\* most one allocation for each pointer, as the hash map of Match ptr does.
THEOREM TypeCorrect == Spec => []TypeOK
<1>2. ASSUME TypeOK, [Next]_vars
      PROVE  TypeOK'
  <2>1. CASE ReportLeaks
    BY <1>2, <2>1 DEF TypeOK, ReportLeaks
  <2>2. CASE UNCHANGED vars
    BY <1>2, <2>2 DEF TypeOK
  <2> QED
    BY <1>2, <2>1, <2>2, ProgramType, ReaderType, MatchType DEF Next
<1> QED
  BY <1>2, InitType, PTL DEF Spec

-----------------------------------------------------------------------------
(* What has been matched *)

\* The times in a thread's log increase, so that no instruction is logged twice.
LogOrder ==
  \A t \in Threads : \A i \in 1 .. Len(log[t]) :
    /\ log[t][i].thread = t /\ log[t][i].time <= clock
    /\ \A j \in 1 .. i - 1 : log[t][j].time < log[t][i].time

\* What waits for the operator has been read, and waits once.
InputOnce ==
  /\ \A i \in 1 .. Len(input) : input[i] \in Read
  /\ \A i, j \in 1 .. Len(input) : input[i] = input[j] => i = j

LEMMA LogType ==
  ASSUME TypeOK, NEW t \in Threads
  PROVE  /\ log[t] \in Seq(Instruction) /\ Len(log[t]) \in Nat
         /\ \A i \in 1 .. Len(log[t]) : log[t][i] \in Instruction /\ log[t][i].time \in Nat
<1>1. log[t] \in Seq(Instruction) /\ Len(log[t]) \in Nat
  BY LenProperties DEF TypeOK
<1>2. \A i \in 1 .. Len(log[t]) : log[t][i] \in Instruction
  BY <1>1, ElementOfSeq
<1>3. \A e \in Instruction : e.time \in Nat
  BY MatchingAssumption DEF Instruction
<1> QED
  BY <1>1, <1>2, <1>3

\* The part of a sequence that follows its first m elements.
LEMMA SubSeqShift ==
  ASSUME NEW S, NEW s \in Seq(S), NEW m \in Nat, NEW n \in m + 1 .. Len(s)
  PROVE  /\ SubSeq(s, m + 1, n) \in Seq(S)
         /\ Len(SubSeq(s, m + 1, n)) = n - m
         /\ \A i \in 1 .. n - m : SubSeq(s, m + 1, n)[i] = s[m + i]
  OBVIOUS

LEMMA LogOnce ==
  ASSUME TypeOK, LogOrder, NEW t \in Threads, NEW u \in Threads,
         NEW i \in 1 .. Len(log[t]), NEW j \in 1 .. Len(log[u]), log[t][i] = log[u][j]
  PROVE  t = u /\ i = j
<1>1. t = u
  BY DEF LogOrder
<1>2. Len(log[t]) \in Nat /\ log[t][i].time \in Nat
  BY LogType
<1>4. i < j => log[t][i].time < log[t][j].time
  BY <1>1, <1>2 DEF LogOrder
<1>5. j < i => log[t][j].time < log[t][i].time
  BY <1>1, <1>2 DEF LogOrder
<1> QED
  BY <1>1, <1>2, <1>4, <1>5

LEMMA LogOrderStep ==
  ASSUME TypeOK, LogOrder, ProgramNext
  PROVE  LogOrder'
<1>1. CASE UNCHANGED <<clock, log>>
  BY <1>1 DEF LogOrder
<1>2. ASSUME NEW t \in Threads, NEW instrs \in Seq(Recordable), Record(t, instrs)
      PROVE  LogOrder'
  <2> SUFFICES ASSUME NEW u \in Threads, NEW i \in 1 .. Len(log'[u])
               PROVE  /\ log'[u][i].thread = u /\ log'[u][i].time <= clock'
                      /\ \A j \in 1 .. i - 1 : log'[u][j].time < log'[u][i].time
    BY DEF LogOrder
  <2>1. \A k \in 1 .. Len(log[u]) : log[u][k].time \in Nat
    BY LogType
  <2>2. CASE i <= Len(log[u])
    <3>1. i \in 1 .. Len(log[u]) /\ \A j \in 1 .. i - 1 : j \in 1 .. Len(log[u])
      BY <1>2, <2>2, RecordGrows
    <3>2. clock \in Nat /\ clock' \in Nat /\ clock <= clock'
      BY <1>2, RecordGrows, MatchingAssumption
    <3>3. log'[u][i] = log[u][i] /\ \A j \in 1 .. i - 1 : log'[u][j] = log[u][j]
      BY <1>2, <3>1, RecordGrows
    <3>4. log[u][i].thread = u /\ log[u][i].time \in Nat /\ log[u][i].time <= clock
      BY <2>1, <3>1 DEF LogOrder
    <3>5. \A j \in 1 .. i - 1 : log[u][j].time < log[u][i].time
      BY <3>1 DEF LogOrder
    <3> QED
      BY <3>2, <3>3, <3>4, <3>5
  <2>3. CASE i > Len(log[u])
    <3>1. /\ u = t /\ i \in Len(log[t]) + 1 .. Len(log'[t])
          /\ Len(log[t]) \in Nat /\ Len(log'[t]) \in Nat
      BY <1>2, <2>3, RecordGrows
    <3>2. /\ log'[t][i].thread = t /\ log'[t][i].time <= clock'
          /\ log'[t][i].time = clock + (i - Len(log[t]))
      BY <1>2, <3>1, RecordGrows
    <3>3. ASSUME NEW j \in 1 .. i - 1
          PROVE  log'[t][j].time < log'[t][i].time
      <4>1. CASE j <= Len(log[t])
        <5>1. j \in 1 .. Len(log[t]) /\ log'[t][j] = log[t][j]
          BY <1>2, <3>1, <4>1, RecordGrows
        <5>2. log[t][j].time <= clock /\ log[t][j].time \in Nat /\ clock \in Nat
          BY <1>2, <2>1, <3>1, <5>1, RecordGrows DEF LogOrder
        <5> QED
          BY <3>1, <3>2, <5>1, <5>2
      <4>2. CASE j > Len(log[t])
        <5>1. j \in Len(log[t]) + 1 .. Len(log'[t])
          BY <3>1, <4>2
        <5>2. log'[t][j].time = clock + (j - Len(log[t])) /\ clock \in Nat
          BY <1>2, <5>1, RecordGrows
        <5>3. i \in Int /\ j \in Int /\ j < i
          BY <3>1
        <5>4. clock + (j - Len(log[t])) < clock + (i - Len(log[t]))
          <6>1. \A a, b, c, d \in Int : b < c => a + (b - d) < a + (c - d)
            OBVIOUS
          <6>2. clock \in Int /\ Len(log[t]) \in Int
            BY <3>1, <5>2
          <6> QED
            BY <5>3, <6>1, <6>2
        <5> QED
          BY <3>2, <5>2, <5>4
      <4> QED
        BY <3>1, <4>1, <4>2
    <3> QED
      BY <3>1, <3>2, <3>3
  <2> QED
    BY <1>2, <2>2, <2>3, RecordGrows
<1> QED
  BY <1>1, <1>2, ProgramRecords

LEMMA InRead == \A e : e \in Read <=> \E t \in Threads : \E i \in 1 .. read[t] : e = log[t][i]
  BY DEF Read

LEMMA InPending ==
  ASSUME TypeOK
  PROVE  \A e : e \in Pending <=> \E i \in 1 .. Len(input) : e = input[i]
  BY LenProperties DEF TypeOK, Pending

\* The program reads nothing.
LEMMA ProgramMatched ==
  ASSUME TypeOK, InputOnce, ProgramNext
  PROVE  InputOnce' /\ Matched' = Matched
<1>1. \A t \in Threads : \A i \in 1 .. read[t] : log'[t][i] = log[t][i]
  BY ProgramLog DEF TypeOK
<1>2. Read' = Read
  <2>1. \A e : e \in Read' <=> e \in Read
    BY <1>1, ProgramFrame, InRead DEF Read
  <2> QED
    BY <2>1
<1> QED
  BY <1>2, ProgramFrame DEF InputOnce, Matched, Pending

Appends(t, n) == input' = input \o SubSeq(log[t], read[t] + 1, n)

\* What is read from a log follows what is in the input.
LEMMA ReaderAppends ==
  ASSUME TypeOK, NEW t \in Threads, NEW n \in read[t] + 1 .. Len(log[t]), Appends(t, n)
  PROVE  /\ Len(input') = Len(input) + (n - read[t]) /\ Len(input') \in Nat
         /\ \A i \in 1 .. Len(input) : input'[i] = input[i]
         /\ \A i \in Len(input) + 1 .. Len(input') :
              input'[i] = log[t][read[t] + (i - Len(input))]
<1> DEFINE r == read[t]
           new == SubSeq(log[t], r + 1, n)
<1>1. /\ r \in Nat /\ n \in Nat /\ r < n /\ Len(log[t]) \in Nat /\ n <= Len(log[t])
      /\ log[t] \in Seq(Instruction) /\ input \in Seq(Instruction) /\ Len(input) \in Nat
  BY LenProperties DEF TypeOK
<1>2. /\ new \in Seq(Instruction) /\ Len(new) = n - r
      /\ \A i \in 1 .. n - r : new[i] = log[t][r + i]
  BY <1>1, SubSeqShift, SMTT(30)
<1>3. input' = input \o new
  BY DEF Appends
<1>4. /\ Len(input') = Len(input) + Len(new)
      /\ \A i \in 1 .. Len(input) + Len(new) :
           input'[i] = IF i <= Len(input) THEN input[i] ELSE new[i - Len(input)]
  <2> HIDE DEF r, new
  <2>1. /\ Len(input \o new) = Len(input) + Len(new)
        /\ \A i \in 1 .. Len(input) + Len(new) :
             (input \o new)[i] = IF i <= Len(input) THEN input[i] ELSE new[i - Len(input)]
    BY <1>1, <1>2, ConcatProperties, ZenonT(60)
  <2> QED
    BY <1>3, <2>1
<1>5. Len(input') = Len(input) + (n - r) /\ Len(input') \in Nat
  BY <1>1, <1>2, <1>4
<1> HIDE DEF r, new
<1>6. \A i \in 1 .. Len(input) : input'[i] = input[i]
  BY <1>1, <1>2, <1>4
<1>7. ASSUME NEW i \in Len(input) + 1 .. Len(input')
      PROVE  input'[i] = log[t][r + (i - Len(input))]
  <2>1. i \in 1 .. Len(input) + Len(new) /\ ~(i <= Len(input)) /\ i - Len(input) \in 1 .. n - r
    BY <1>1, <1>2, <1>5
  <2>2. input'[i] = new[i - Len(input)]
    BY <1>4, <2>1
  <2> QED
    BY <1>2, <2>1, <2>2
<1> QED
  BY <1>5, <1>6, <1>7 DEF r

\* What the reader sends on had not been read before, and is pending.
LEMMA ReaderMatched ==
  ASSUME TypeOK, TypeOK', LogOrder, InputOnce, ReaderNext
  PROVE  InputOnce' /\ Matched' = Matched
<1>1. CASE ReadEnd
  BY <1>1 DEF ReadEnd, InputOnce, Matched, Pending, Read
<1>2. ASSUME NEW t \in Threads, NEW n \in read[t] + 1 .. Len(log[t]),
             read' = [read EXCEPT ![t] = n],
             input' = input \o SubSeq(log[t], read[t] + 1, n),
             UNCHANGED <<programVars, open, stash, outputVars>>
      PROVE  InputOnce' /\ Matched' = Matched
  <2> DEFINE r == read[t]
  <2>1. /\ r \in Nat /\ n \in Nat /\ r < n /\ Len(log[t]) \in Nat /\ n <= Len(log[t])
        /\ log[t] \in Seq(Instruction) /\ input \in Seq(Instruction) /\ Len(input) \in Nat
    BY <1>2, LenProperties DEF TypeOK
  <2>3. /\ Len(input') = Len(input) + (n - r) /\ Len(input') \in Nat
        /\ \A i \in 1 .. Len(input) : input'[i] = input[i]
        /\ \A i \in Len(input) + 1 .. Len(input') : input'[i] = log[t][r + (i - Len(input))]
    BY <1>2, ReaderAppends DEF Appends
  <2> HIDE DEF r
  <2>4. \A e : e \in Read' <=> e \in Read \/ \E i \in r + 1 .. n : e = log[t][i]
    <3>1. read'[t] = n /\ log' = log /\ \A u \in Threads : u # t => read'[u] = read[u]
      BY <1>2 DEF TypeOK
    <3>2. \A e : e \in Read' <=> \E u \in Threads : \E i \in 1 .. read'[u] : e = log[u][i]
      BY <3>1 DEF Read
    <3>3. \A i : i \in 1 .. n <=> i \in 1 .. r \/ i \in r + 1 .. n
      BY <2>1
    <3> QED
      BY <3>1, <3>2, <3>3, InRead DEF r
  <2>5. ASSUME NEW i \in r + 1 .. n
        PROVE  log[t][i] \notin Read
    <3> SUFFICES ASSUME NEW u \in Threads, NEW j \in 1 .. read[u], log[t][i] = log[u][j]
                 PROVE  FALSE
      BY InRead
    <3>1. j \in 1 .. Len(log[u]) /\ i \in 1 .. Len(log[t])
      BY <2>1, LenProperties, SMTT(30) DEF TypeOK
    <3>2. t = u /\ i = j
      BY <3>1, LogOnce
    <3> QED
      BY <2>1, <3>2 DEF r
  <2>6. \A i \in Len(input) + 1 .. Len(input') : r + (i - Len(input)) \in r + 1 .. n
    BY <2>1, <2>3
  <2>7. \A e : e \in Pending' <=> e \in Pending \/ \E i \in r + 1 .. n : e = log[t][i]
    <3>1. \A e : e \in Pending' <=> \E i \in 1 .. Len(input') : e = input'[i]
      BY LenProperties DEF TypeOK, Pending
    <3>2. \A i \in r + 1 .. n :
            /\ Len(input) + (i - r) \in Len(input) + 1 .. Len(input')
            /\ input'[Len(input) + (i - r)] = log[t][i]
      <4> TAKE i \in r + 1 .. n
      <4>1. /\ Len(input) + (i - r) \in Len(input) + 1 .. Len(input')
            /\ r + ((Len(input) + (i - r)) - Len(input)) = i
        BY <2>1, <2>3
      <4> QED
        BY <2>3, <4>1
    <3>3. \A i : i \in 1 .. Len(input') <=>
                 i \in 1 .. Len(input) \/ i \in Len(input) + 1 .. Len(input')
      BY <2>1, <2>3
    <3>4. ASSUME NEW e \in Pending'
          PROVE  e \in Pending \/ \E i \in r + 1 .. n : e = log[t][i]
      <4>1. PICK i \in 1 .. Len(input') : e = input'[i]
        BY <3>1, <3>4
      <4>2. CASE i \in 1 .. Len(input)
        BY <2>3, <4>1, <4>2, InPending
      <4>3. CASE i \in Len(input) + 1 .. Len(input')
        BY <2>3, <2>6, <4>1, <4>3
      <4> QED
        BY <3>3, <4>2, <4>3
    <3>5. \A e \in Pending : e \in Pending'
      BY <2>3, <3>1, <3>3, InPending
    <3>6. \A i \in r + 1 .. n : log[t][i] \in Pending'
      BY <3>1, <3>2, <3>3
    <3> QED
      BY <3>4, <3>5, <3>6
  <2>8. \A e \in Pending : e \in Read
    BY InPending DEF InputOnce
  <2>9. Matched' = Matched
    BY <2>4, <2>5, <2>7, <2>8 DEF Matched
  <2>10. \A i \in 1 .. Len(input') : input'[i] \in Read'
    <3> TAKE i \in 1 .. Len(input')
    <3>1. CASE i \in 1 .. Len(input)
      BY <2>3, <2>4, <3>1 DEF InputOnce
    <3>2. CASE i \in Len(input) + 1 .. Len(input')
      BY <2>3, <2>4, <2>6, <3>2
    <3> QED
      BY <2>1, <2>3, <3>1, <3>2
  <2>11. ASSUME NEW i \in 1 .. Len(input'), NEW j \in 1 .. Len(input'), input'[i] = input'[j]
         PROVE  i = j
    <3>1. CASE i \in 1 .. Len(input) /\ j \in 1 .. Len(input)
      BY <2>3, <2>11, <3>1 DEF InputOnce
    <3>2. CASE i \in 1 .. Len(input) /\ j \in Len(input) + 1 .. Len(input')
      BY <2>3, <2>5, <2>6, <2>11, <3>2 DEF InputOnce
    <3>3. CASE j \in 1 .. Len(input) /\ i \in Len(input) + 1 .. Len(input')
      BY <2>3, <2>5, <2>6, <2>11, <3>3, SMTT(30) DEF InputOnce
    <3>4. CASE i \in Len(input) + 1 .. Len(input') /\ j \in Len(input) + 1 .. Len(input')
      <4>1. /\ r + (i - Len(input)) \in 1 .. Len(log[t])
            /\ r + (j - Len(input)) \in 1 .. Len(log[t])
        BY <2>1, <2>6, <3>4
      <4>2. r + (i - Len(input)) = r + (j - Len(input))
        <5>1. log[t][r + (i - Len(input))] = log[t][r + (j - Len(input))]
          BY <2>3, <2>11, <3>4
        <5>2. \A k, l \in 1 .. Len(log[t]) : log[t][k] = log[t][l] => k = l
          BY LogOnce
        <5> QED
          BY <4>1, <5>1, <5>2
      <4> QED
        BY <2>1, <3>4, <4>2
    <3> QED
      BY <2>1, <2>3, <3>1, <3>2, <3>3, <3>4
  <2> QED
    BY <2>9, <2>10, <2>11 DEF InputOnce
<1> QED
  BY <1>1, <1>2 DEF ReaderNext, ReadInstructions

\* What the operator takes off its input has not been matched before.
LEMMA MatchMatched ==
  ASSUME TypeOK, InputOnce, Match
  PROVE  /\ InputOnce' /\ Matched' = Matched \cup {Head(input)}
         /\ Head(input) \notin Matched /\ Head(input) \in Instruction
<1>1. /\ input \in Seq(Instruction) /\ input # << >> /\ input' = Tail(input)
      /\ Len(input) \in Nat \ {0} /\ Head(input) = input[1]
      /\ UNCHANGED <<read, log>>
  BY EmptySeq DEF TypeOK, Match
<1>2. /\ Head(input) \in Instruction
      /\ input' \in Seq(Instruction) /\ Len(input') = Len(input) - 1
      /\ \A i \in 1 .. Len(input') : input'[i] = input[i + 1]
  BY <1>1, HeadTailProperties
<1>3. Read' = Read
  BY <1>1 DEF Read
<1>4. \A e : e \in Pending <=> e = Head(input) \/ e \in Pending'
  <2>1. \A e : e \in Pending' <=> \E i \in 1 .. Len(input') : e = input'[i]
    BY <1>2, LenProperties DEF Pending
  <2>2. \A i \in 1 .. Len(input) : i = 1 \/ (i - 1 \in 1 .. Len(input') /\ (i - 1) + 1 = i)
    BY <1>1, <1>2
  <2>3. 1 \in 1 .. Len(input) /\ \A i \in 1 .. Len(input') : i + 1 \in 1 .. Len(input)
    BY <1>1, <1>2
  <2>4. ASSUME NEW e \in Pending
        PROVE  e = Head(input) \/ e \in Pending'
    <3>1. PICK i \in 1 .. Len(input) : e = input[i]
      BY <2>4, InPending
    <3>2. CASE i = 1
      BY <1>1, <3>1, <3>2
    <3>3. CASE i - 1 \in 1 .. Len(input') /\ (i - 1) + 1 = i
      <4>1. input'[i - 1] = input[i]
        BY <1>2, <3>3
      <4> QED
        BY <2>1, <3>1, <3>3, <4>1
    <3> QED
      BY <2>2, <3>2, <3>3
  <2>5. Head(input) \in Pending
    BY <1>1, <2>3, InPending
  <2>6. \A e \in Pending' : e \in Pending
    BY <1>2, <2>1, <2>3, InPending
  <2> QED
    BY <2>4, <2>5, <2>6
<1>5. Head(input) \in Read /\ \A e \in Pending : e \in Read
  BY <1>1, InPending DEF InputOnce
<1>6. \A i \in 1 .. Len(input') : i + 1 \in 1 .. Len(input) /\ i + 1 # 1
  BY <1>1, <1>2
<1>7. Head(input) \notin Pending'
  <2> SUFFICES ASSUME NEW i \in 1 .. Len(input'), Head(input) = input'[i]
               PROVE  FALSE
    BY <1>2, LenProperties DEF Pending
  <2>1. 1 \in 1 .. Len(input) /\ input[1] = input[i + 1]
    BY <1>1, <1>2
  <2> QED
    BY <1>6, <2>1 DEF InputOnce
<1>8. InputOnce'
  <2>1. \A i \in 1 .. Len(input') : input'[i] \in Read'
    BY <1>2, <1>3, <1>6 DEF InputOnce
  <2>2. ASSUME NEW i \in 1 .. Len(input'), NEW j \in 1 .. Len(input'), input'[i] = input'[j]
        PROVE  i = j
    <3>1. i + 1 = j + 1
      BY <1>2, <1>6, <2>2 DEF InputOnce
    <3> QED
      BY <3>1
  <2> QED
    BY <2>1, <2>2 DEF InputOnce
<1> QED
  BY <1>2, <1>3, <1>4, <1>5, <1>7, <1>8 DEF Matched

-----------------------------------------------------------------------------
(* Accounting *)

Freed(e) == \E m \in pairs : m.alloc = e
Frees(e) == \E m \in pairs : m.free = e
Replaced(e) == \E d \in doubleAllocs : d.old = e

\* Nothing is in the results or in the stash before it has been matched.
Known ==
  /\ stash \subseteq Of("alloc") /\ leaks \subseteq Of("alloc")
  /\ \A m \in pairs : m.alloc \in Of("alloc") /\ m.free \in Of("free")
  /\ \A d \in doubleAllocs : d.old \in Of("alloc")
  /\ doubleFrees \subseteq Of("free")

\* Accounted without the cardinalities.
OneFate ==
  /\ \A m, n \in pairs : m.alloc = n.alloc \/ m.free = n.free => m = n
  /\ \A c, d \in doubleAllocs : c.old = d.old => c = d
  /\ \A e \in Of("alloc") :
       /\ Freed(e) \/ Replaced(e) \/ e \in leaks \/ e \in stash
       /\ Freed(e) => ~Replaced(e) /\ e \notin leaks /\ e \notin stash
       /\ Replaced(e) => e \notin leaks /\ e \notin stash
       /\ e \in leaks => e \notin stash
  /\ \A e \in Of("free") : Frees(e) <=> e \notin doubleFrees

\* Leaks are reported at the end, and only then.
Ending ==
  /\ leakCap => leaks = {}
  /\ ~leakCap => input = << >> /\ ~open

IInv == TypeOK /\ LogOrder /\ InputOnce /\ Known /\ OneFate /\ Ending

LEMMA InitIInv == Init => IInv
<1> SUFFICES ASSUME Init PROVE IInv
  OBVIOUS
<1>1. Len(<< >>) = 0 /\ 1 .. 0 = {}
  OBVIOUS
<1>2. LogOrder
  BY <1>1 DEF Init, LogOrder
<1>3. InputOnce /\ Read = {}
  BY <1>1 DEF Init, InputOnce, Read
<1>4. Of("alloc") = {} /\ Of("free") = {}
  BY <1>3 DEF Of, Matched
<1> QED
  BY <1>2, <1>3, <1>4, InitType DEF IInv, Init, Known, OneFate, Ending

\* What concerns only the results stays as it is when nothing is matched.
LEMMA SameResults ==
  ASSUME IInv, Matched' = Matched,
         UNCHANGED <<stash, leakCap, pairs, doubleAllocs, doubleFrees, leaks>>
  PROVE  Known' /\ OneFate'
<1>1. Of("alloc")' = Of("alloc") /\ Of("free")' = Of("free")
  BY DEF Of
<1> QED
  BY <1>1 DEF IInv, Known, OneFate, Freed, Frees, Replaced

LEMMA ProgramStep ==
  ASSUME IInv, ProgramNext
  PROVE  IInv'
<1>1. InputOnce' /\ Matched' = Matched
  BY ProgramMatched DEF IInv
<1>2. Ending'
  BY ProgramFrame DEF IInv, Ending
<1> QED
  BY <1>1, <1>2, ProgramType, LogOrderStep, ProgramFrame, SameResults DEF IInv

LEMMA ReaderStep ==
  ASSUME IInv, ReaderNext
  PROVE  IInv'
<1>1. TypeOK' /\ InputOnce' /\ Matched' = Matched
  BY ReaderType, ReaderMatched DEF IInv
<1>2. /\ UNCHANGED <<clock, log, stash, leakCap, pairs, doubleAllocs, doubleFrees, leaks>>
      /\ open /\ (input' = input \/ open')
  BY DEF ReaderNext, ReadEnd, ReadInstructions
<1>3. LogOrder' /\ Ending'
  BY <1>2 DEF IInv, LogOrder, Ending
<1> QED
  BY <1>1, <1>2, <1>3, SameResults DEF IInv

LEMMA LeaksStep ==
  ASSUME IInv, ReportLeaks
  PROVE  IInv'
<1>1. Matched' = Matched /\ TypeOK' /\ LogOrder' /\ InputOnce' /\ Ending'
  <2>1. TypeOK'
    BY DEF IInv, ReportLeaks, TypeOK
  <2>2. Matched' = Matched /\ LogOrder' /\ InputOnce'
    BY DEF IInv, ReportLeaks, LogOrder, InputOnce, Matched, Read, Pending
  <2>3. Ending'
    BY DEF ReportLeaks, Ending, Exhausted
  <2> QED
    BY <2>1, <2>2, <2>3
<1>2. Of("alloc")' = Of("alloc") /\ Of("free")' = Of("free")
  BY <1>1 DEF Of
<1>3. leaks = {} /\ leaks' = stash /\ stash' = {} /\ UNCHANGED <<pairs, doubleAllocs, doubleFrees>>
  BY DEF IInv, Ending, ReportLeaks
<1> QED
  BY <1>1, <1>2, <1>3 DEF IInv, Known, OneFate, Freed, Frees, Replaced

\* An allocation goes to the stash; the one it replaces there is reported.
LEMMA MatchAllocStep ==
  ASSUME IInv, NEW h \in Instruction, h.op = "alloc", h \notin Matched,
         Matched' = Matched \cup {h}, MatchAlloc(h), UNCHANGED leaks
  PROVE  Known' /\ OneFate'
<1>1. /\ Of("alloc")' = Of("alloc") \cup {h} /\ h \notin Of("alloc")
      /\ Of("free")' = Of("free")
  BY DEF Of
<1>2. /\ stash' = (stash \ Stashed(h.ptr)) \cup {h} /\ Stashed(h.ptr) \subseteq stash
      /\ doubleAllocs' = doubleAllocs \cup {[old |-> o, new |-> h] : o \in Stashed(h.ptr)}
      /\ UNCHANGED <<pairs, doubleFrees, leaks>>
  BY DEF MatchAlloc, Inserted, Stashed
<1>3. h \notin stash /\ h \notin leaks /\ ~Freed(h) /\ ~Replaced(h)
  BY <1>1 DEF IInv, Known, Freed, Replaced
<1>4. \A e : /\ Freed(e)' <=> Freed(e)
             /\ Frees(e)' <=> Frees(e)
             /\ Replaced(e)' <=> Replaced(e) \/ e \in Stashed(h.ptr)
  <2>1. \A e \in Stashed(h.ptr) : [old |-> e, new |-> h] \in doubleAllocs'
    BY <1>2
  <2>2. \A e \in Stashed(h.ptr) : Replaced(e)'
    BY <2>1 DEF Replaced
  <2>3. \A d \in doubleAllocs' : d \in doubleAllocs \/ d.old \in Stashed(h.ptr)
    BY <1>2
  <2>4. \A d \in doubleAllocs : d \in doubleAllocs'
    BY <1>2
  <2> QED
    BY <1>2, <2>2, <2>3, <2>4 DEF Freed, Frees, Replaced
<1>5. Known'
  BY <1>1, <1>2 DEF IInv, Known
<1>6. \A c, d \in doubleAllocs' : c.old = d.old => c = d
  <2>1. \A o \in Stashed(h.ptr) : ~Replaced(o)
    BY <1>2 DEF IInv, Known, OneFate
  <2>2. \A d \in doubleAllocs' :
          d \in doubleAllocs \/ (d.old \in Stashed(h.ptr) /\ d = [old |-> d.old, new |-> h])
    BY <1>2
  <2> QED
    BY <2>1, <2>2 DEF IInv, OneFate, Replaced
<1>7. ASSUME NEW e \in Of("alloc")'
      PROVE  /\ Freed(e)' \/ Replaced(e)' \/ e \in leaks' \/ e \in stash'
             /\ Freed(e)' => ~Replaced(e)' /\ e \notin leaks' /\ e \notin stash'
             /\ Replaced(e)' => e \notin leaks' /\ e \notin stash'
             /\ e \in leaks' => e \notin stash'
  <2>1. CASE e = h
    BY <1>2, <1>3, <1>4, <2>1
  <2>2. CASE e # h
    <3>1. e \in Of("alloc")
      BY <1>1, <2>2
    <3> QED
      BY <1>2, <1>4, <2>2, <3>1 DEF IInv, OneFate
  <2> QED
    BY <2>1, <2>2
<1> QED
  BY <1>1, <1>2, <1>4, <1>5, <1>6, <1>7 DEF IInv, OneFate

\* A deallocation takes the allocation for its pointer from the stash into a
\* pair, or is reported.
LEMMA MatchDeallocStep ==
  ASSUME IInv, NEW h \in Instruction, h.op = "free", h \notin Matched,
         Matched' = Matched \cup {h}, MatchDealloc(h), UNCHANGED leaks
  PROVE  Known' /\ OneFate'
<1>1. /\ Of("free")' = Of("free") \cup {h} /\ h \notin Of("free")
      /\ Of("alloc")' = Of("alloc")
  BY DEF Of
<1>2. /\ stash' = stash \ Stashed(h.ptr) /\ Stashed(h.ptr) \subseteq stash
      /\ pairs' = pairs \cup {[alloc |-> a, free |-> h] : a \in Stashed(h.ptr)}
      /\ doubleFrees' = doubleFrees \cup IF Stashed(h.ptr) = {} THEN {h} ELSE {}
      /\ UNCHANGED <<doubleAllocs, leaks>>
  BY DEF MatchDealloc, Without, Stashed
<1>3. h \notin doubleFrees /\ ~Frees(h)
  BY <1>1 DEF IInv, Known, Frees
<1>4. \A e : /\ Freed(e)' <=> Freed(e) \/ e \in Stashed(h.ptr)
             /\ Frees(e)' <=> Frees(e) \/ (e = h /\ Stashed(h.ptr) # {})
             /\ Replaced(e)' <=> Replaced(e)
  <2>1. \A e \in Stashed(h.ptr) : [alloc |-> e, free |-> h] \in pairs'
    BY <1>2
  <2>2. \A e \in Stashed(h.ptr) : Freed(e)' /\ Frees(h)'
    BY <2>1 DEF Freed, Frees
  <2>3. \A m \in pairs' : m \in pairs \/ (m.alloc \in Stashed(h.ptr) /\ m.free = h)
    BY <1>2
  <2>4. \A m \in pairs : m \in pairs'
    BY <1>2
  <2> QED
    BY <1>2, <2>2, <2>3, <2>4 DEF Freed, Frees, Replaced
<1>5. Known'
  BY <1>1, <1>2 DEF IInv, Known
<1>6. \A m, n \in pairs' : m.alloc = n.alloc \/ m.free = n.free => m = n
  <2>1. \A a \in Stashed(h.ptr) : ~Freed(a)
    BY <1>2 DEF IInv, Known, OneFate
  <2>2. \A a, b \in Stashed(h.ptr) : a = b
    BY DEF IInv, TypeOK, Stashed
  <2>3. \A m \in pairs' :
          m \in pairs \/ (m.alloc \in Stashed(h.ptr) /\ m = [alloc |-> m.alloc, free |-> h])
    BY <1>2
  <2> QED
    BY <1>3, <2>1, <2>2, <2>3 DEF IInv, OneFate, Freed, Frees
<1>7. ASSUME NEW e \in Of("alloc")'
      PROVE  /\ Freed(e)' \/ Replaced(e)' \/ e \in leaks' \/ e \in stash'
             /\ Freed(e)' => ~Replaced(e)' /\ e \notin leaks' /\ e \notin stash'
             /\ Replaced(e)' => e \notin leaks' /\ e \notin stash'
             /\ e \in leaks' => e \notin stash'
  BY <1>1, <1>2, <1>4 DEF IInv, OneFate
<1>8. \A e \in Of("free")' : Frees(e)' <=> e \notin doubleFrees'
  BY <1>1, <1>2, <1>3, <1>4 DEF IInv, OneFate
<1> QED
  BY <1>2, <1>5, <1>6, <1>7, <1>8 DEF IInv, OneFate

LEMMA MatchStep ==
  ASSUME IInv, Match
  PROVE  IInv'
<1>1. TypeOK' /\ InputOnce' /\ LogOrder' /\ Ending'
  <2>1. LogOrder'
    BY DEF IInv, LogOrder, Match
  <2>2. Ending'
    BY DEF IInv, Ending, Match
  <2> QED
    BY <2>1, <2>2, MatchType, MatchMatched DEF IInv
<1>2. /\ Head(input) \in Instruction /\ Head(input) \notin Matched
      /\ Matched' = Matched \cup {Head(input)} /\ UNCHANGED leaks
  BY MatchMatched DEF IInv, Match
<1>3. Known' /\ OneFate'
  <2>1. CASE MatchAlloc(Head(input))
    BY <1>2, <2>1, MatchAllocStep DEF MatchAlloc
  <2>2. CASE MatchDealloc(Head(input))
    BY <1>2, <2>2, MatchDeallocStep DEF MatchDealloc
  <2> QED
    BY <2>1, <2>2 DEF Match
<1> QED
  BY <1>1, <1>3 DEF IInv

LEMMA NextStep ==
  ASSUME IInv, [Next]_vars
  PROVE  IInv'
<1>1. CASE UNCHANGED vars
  <2>1. TypeOK'
    BY <1>1 DEF IInv, TypeOK
  <2>2. InputOnce' /\ Matched' = Matched
    BY <1>1 DEF IInv, InputOnce, Matched, Read, Pending
  <2>3. LogOrder' /\ Ending'
    BY <1>1 DEF IInv, LogOrder, Ending
  <2> QED
    BY <1>1, <2>1, <2>2, <2>3, SameResults DEF IInv
<1> QED
  BY <1>1, ProgramStep, ReaderStep, MatchStep, LeaksStep DEF Next

\* The inductive invariant holds.
THEOREM Invariance == Spec => []IInv
  BY InitIInv, NextStep, PTL DEF Spec

\* The size of a set that has at most one element.
LEMMA CountOne ==
  ASSUME NEW S, \A x, y \in S : x = y
  PROVE  (S = {} /\ Cardinality(S) = 0) \/ (S # {} /\ Cardinality(S) = 1)
<1>1. CASE S = {}
  BY <1>1, FS_EmptySet
<1>2. CASE S # {}
  <2>1. PICK x \in S : S = {x}
    BY <1>2
  <2> QED
    BY <1>2, <2>1, FS_Singleton
<1> QED
  BY <1>1, <1>2

\* Whatever was allocated and freed, by however many threads and in whatever
\* order it arrives, Match ptr accounts for each instruction exactly once.
THEOREM AccountedHolds == Spec => []Accounted
<1>1. IInv => Accounted
  <2> SUFFICES ASSUME IInv PROVE Accounted
    OBVIOUS
  <2>1. ASSUME NEW e \in Of("alloc")
        PROVE  Cardinality({m \in pairs : m.alloc = e})
                 + Cardinality({d \in doubleAllocs : d.old = e})
                 + Cardinality({e} \cap leaks) + Cardinality({e} \cap stash) = 1
    <3> DEFINE F == {m \in pairs : m.alloc = e}
               R == {d \in doubleAllocs : d.old = e}
               L == {e} \cap leaks
               S == {e} \cap stash
    <3>1. /\ \A x, y \in F : x = y
          /\ \A x, y \in R : x = y
          /\ \A x, y \in L : x = y
          /\ \A x, y \in S : x = y
      BY DEF IInv, OneFate
    <3>2. /\ F # {} <=> Freed(e)
          /\ R # {} <=> Replaced(e)
          /\ L # {} <=> e \in leaks
          /\ S # {} <=> e \in stash
      BY DEF Freed, Replaced
    <3>3. \/ F # {} /\ R = {} /\ L = {} /\ S = {}
          \/ F = {} /\ R # {} /\ L = {} /\ S = {}
          \/ F = {} /\ R = {} /\ L # {} /\ S = {}
          \/ F = {} /\ R = {} /\ L = {} /\ S # {}
      BY <3>2 DEF IInv, OneFate
    <3> HIDE DEF F, R, L, S
    <3>4. Cardinality(F) + Cardinality(R) + Cardinality(L) + Cardinality(S) = 1
      BY <3>1, <3>3, CountOne
    <3> QED
      BY <3>4 DEF F, R, L, S
  <2>2. ASSUME NEW e \in Of("free")
        PROVE  Cardinality({m \in pairs : m.free = e})
                 + Cardinality({e} \cap doubleFrees) = 1
    <3> DEFINE F == {m \in pairs : m.free = e}
               D == {e} \cap doubleFrees
    <3>1. (\A x, y \in F : x = y) /\ (\A x, y \in D : x = y)
      BY DEF IInv, OneFate
    <3>2. F # {} <=> D = {}
      BY <2>2 DEF IInv, OneFate, Frees
    <3> HIDE DEF F, D
    <3>3. Cardinality(F) + Cardinality(D) = 1
      BY <3>1, <3>2, CountOne
    <3> QED
      BY <3>3 DEF F, D
  <2> QED
    BY <2>1, <2>2 DEF Accounted
<1> QED
  BY <1>1, Invariance, PTL

\* When Match ptr has reported the leaks it reports nothing more.
THEOREM LeaksAreFinalHolds == Spec => LeaksAreFinal
<1>1. ASSUME IInv, [Next]_vars, ~leakCap
      PROVE  UNCHANGED <<pairs, doubleAllocs, doubleFrees, leaks>>
  <2>1. input = << >>
    BY <1>1 DEF IInv, Ending
  <2>2. CASE ProgramNext
    BY <2>2, ProgramFrame
  <2>3. CASE ReaderNext
    BY <2>3 DEF ReaderNext, ReadEnd, ReadInstructions
  <2> QED
    BY <1>1, <2>1, <2>2, <2>3 DEF Next, Match, ReportLeaks
<1>2. IInv /\ [Next]_vars => [~leakCap => UNCHANGED <<pairs, doubleAllocs, doubleFrees, leaks>>]_vars
  BY <1>1
<1> QED
  BY <1>2, Invariance, PTL DEF Spec, LeaksAreFinal

=============================================================================
