-------------------------- MODULE WebClientsProofs --------------------------
(* Proofs about WebClients, for every set of clients and any number of results. *)
EXTENDS WebClients, SequenceTheorems, TLAPS

USE DEF resultVars, clientVars, vars

-----------------------------------------------------------------------------
(* Sequences *)

\* The results after the first b, n of them.
Interval(b, n) == [i \in 1 .. n |-> b + i]

\* What is queued joins the end of the stream.
LEMMA AppendToConcat ==
  ASSUME NEW S, NEW d \in Seq(S), NEW q \in Seq(S), NEW x \in S
  PROVE  d \o Append(q, x) = Append(d \o q, x)
<1>1. /\ q \o <<x>> = Append(q, x) /\ <<x>> \in Seq(S) /\ d \o q \in Seq(S)
      /\ (d \o q) \o <<x>> = Append(d \o q, x)
  OBVIOUS
<1> QED
  BY <1>1, ConcatAssociative

\* What is taken off the queue and delivered leaves the stream as it is.
LEMMA MoveHead ==
  ASSUME NEW S, NEW d \in Seq(S), NEW q \in Seq(S), q # << >>
  PROVE  Append(d, Head(q)) \o Tail(q) = d \o q
<1>1. /\ Head(q) \in S /\ Tail(q) \in Seq(S) /\ <<Head(q)>> \in Seq(S)
      /\ Append(d, Head(q)) = d \o <<Head(q)>>
  OBVIOUS
<1>2. <<Head(q)>> \o Tail(q) = q
  OBVIOUS
<1> QED
  BY <1>1, <1>2, ConcatAssociative

\* An interval is continued by the next result.
LEMMA IntervalAppend ==
  ASSUME NEW s \in Seq(Nat), NEW b \in Nat, s = Interval(b, Len(s))
  PROVE  LET t == Append(s, b + Len(s) + 1)
         IN  Len(t) = Len(s) + 1 /\ t = Interval(b, Len(t))
<1> DEFINE t == Append(s, b + Len(s) + 1)
<1>1. Len(s) \in Nat
  OBVIOUS
<1>2. /\ t \in Seq(Nat) /\ Len(t) = Len(s) + 1
      /\ \A i \in 1 .. Len(t) : t[i] = IF i <= Len(s) THEN s[i] ELSE b + Len(s) + 1
  BY <1>1
<1>3. \A i \in 1 .. Len(s) : s[i] = b + i
  BY DEF Interval
<1>4. \A i \in 1 .. Len(t) : t[i] = b + i
  BY <1>1, <1>2, <1>3
<1>5. t = [i \in 1 .. Len(t) |-> t[i]]
  BY <1>2, LenProperties
<1> QED
  BY <1>2, <1>4, <1>5 DEF Interval

\* What comes first in an interval is an interval.
LEMMA IntervalPrefix ==
  ASSUME NEW d \in Seq(Nat), NEW q \in Seq(Nat), NEW b \in Nat,
         d \o q = Interval(b, Len(d \o q))
  PROVE  d = Interval(b, Len(d))
<1>1. Len(d) \in Nat /\ Len(q) \in Nat /\ Len(d \o q) = Len(d) + Len(q)
  OBVIOUS
<1>2. \A i \in 1 .. Len(d) : (d \o q)[i] = d[i] /\ i \in 1 .. Len(d \o q)
  BY <1>1, ConcatProperties
<1>3. \A i \in 1 .. Len(d) : d[i] = b + i
  BY <1>2 DEF Interval
<1>4. d = [i \in 1 .. Len(d) |-> d[i]]
  BY LenProperties
<1> QED
  BY <1>3, <1>4 DEF Interval

\* A sequence of results stays one when the next broadcast begins.
LEMMA SeqGrows ==
  ASSUME NEW n \in Nat
  PROVE  Seq(1 .. n) \subseteq Seq(1 .. (n + 1)) /\ Seq(1 .. n) \subseteq Seq(Nat)
  BY SeqMonotonic

-----------------------------------------------------------------------------
(* The inductive invariant *)

\* NoGap is not inductive: a client is up to date when it is put into the map
\* because it has no stream before, and since nothing is left to iterate over
\* once a broadcast is over.
Idle ==
  /\ broadcast # "send" => iterating = {}
  /\ broadcast = "lock" => begun < passed
  /\ \A c \in Clients :
       conn[c] \in {"none", "joining"} => delivered[c] = << >> /\ queue[c] = << >>

IInv == TypeOK /\ NoGap /\ Idle

LEMMA InitIInv == Init => IInv
<1> SUFFICES ASSUME Init PROVE IInv
  OBVIOUS
<1>1. TypeOK
  <2>1. queue \in [Clients -> Seq(1 .. begun)] /\ delivered \in [Clients -> Seq(1 .. begun)]
    BY DEF Init
  <2>3. /\ captured \in 0 .. MaxResults /\ passed \in 0 .. captured
        /\ begun \in 0 .. passed /\ since \in [Clients -> 0 .. begun]
    BY WebAssumption DEF Init
  <2>2. clients = {c \in Clients : conn[c] \in {"reading", "leaving"}}
    BY DEF Init
  <2> QED
    BY <2>1, <2>2, <2>3 DEF Init, TypeOK
<1>2. NoGap
  <2>1. \A c \in Clients : Stream(c) = << >> /\ Len(Stream(c)) = 0
    <3>1. << >> \o << >> = << >> /\ Len(<< >>) = 0
      OBVIOUS
    <3> QED
      BY <3>1 DEF Init, Stream
  <2>2. << >> = [i \in 1 .. 0 |-> 0 + i]
    OBVIOUS
  <2> QED
    BY <2>1, <2>2 DEF Init, NoGap
<1> QED
  BY <1>1, <1>2 DEF Init, IInv, Idle

\* The parts of a stream, as sequences of numbers.
LEMMA StreamType ==
  ASSUME TypeOK, NEW c \in Clients
  PROVE  /\ delivered[c] \in Seq(Nat) /\ queue[c] \in Seq(Nat)
         /\ Stream(c) \in Seq(Nat) /\ Len(Stream(c)) \in Nat
         /\ begun \in Nat /\ since[c] \in Nat
<1>1. passed \in Nat /\ begun \in Nat /\ since[c] \in Nat
  BY WebAssumption DEF TypeOK
<1>2. delivered[c] \in Seq(1 .. begun) /\ queue[c] \in Seq(1 .. begun)
  BY DEF TypeOK
<1>3. delivered[c] \in Seq(Nat) /\ queue[c] \in Seq(Nat)
  BY <1>1, <1>2, SeqGrows
<1>4. Stream(c) \in Seq(Nat) /\ Len(Stream(c)) \in Nat
  BY <1>3, ConcatProperties, LenProperties DEF Stream
<1> QED
  BY <1>1, <1>3, <1>4

\* What a step has to keep of a client when its stream does not change.
LEMMA SameStream ==
  ASSUME NoGap, UNCHANGED <<delivered, queue, since, begun, iterating>>,
         \A c \in Clients : c \in clients' /\ task'[c] = "running" =>
                            c \in clients /\ task[c] = "running"
  PROVE  NoGap'
  BY DEF NoGap, Stream

LEMMA ResultStep ==
  ASSUME IInv, CaptureResult \/ EndCapture \/ PassOn
  PROVE  IInv'
<1>1. TypeOK'
  <2>1. /\ captured' \in 0 .. MaxResults /\ passed' \in 0 .. captured'
        /\ begun' \in 0 .. passed'
    BY WebAssumption DEF IInv, TypeOK, CaptureResult, EndCapture, PassOn
  <2>2. /\ ended' \in BOOLEAN /\ forwarder' \in {"running", "done"}
        /\ UNCHANGED <<broadcast, begun, iterating, clientVars>>
    BY DEF IInv, TypeOK, CaptureResult, EndCapture, PassOn
  <2> QED
    BY <2>1, <2>2 DEF IInv, TypeOK
<1>2. NoGap'
  BY SameStream DEF IInv, CaptureResult, EndCapture, PassOn
<1>3. Idle'
  BY WebAssumption DEF IInv, TypeOK, Idle, CaptureResult, EndCapture, PassOn
<1> QED
  BY <1>1, <1>2, <1>3 DEF IInv

LEMMA TakeStep ==
  ASSUME IInv, TakeResult \/ EndBroadcast
  PROVE  IInv'
<1>1. TypeOK'
  BY DEF IInv, TypeOK, TakeResult, EndBroadcast
<1>2. NoGap'
  BY SameStream DEF IInv, TakeResult, EndBroadcast
<1>3. Idle'
  BY DEF IInv, Idle, TakeResult, EndBroadcast
<1> QED
  BY <1>1, <1>2, <1>3 DEF IInv

\* With the read lock taken, every client in the map is one result behind.
LEMMA BeginStep ==
  ASSUME IInv, BeginBroadcast
  PROVE  IInv'
<1>1. begun \in Nat /\ begun' = begun + 1 /\ begun' \in 0 .. passed
  BY WebAssumption DEF IInv, TypeOK, Idle, BeginBroadcast
<1>2. TypeOK'
  <2>1. queue' \in [Clients -> Seq(1 .. begun')]
    BY <1>1, SeqGrows DEF IInv, TypeOK, BeginBroadcast
  <2>2. delivered' \in [Clients -> Seq(1 .. begun')]
    BY <1>1, SeqGrows DEF IInv, TypeOK, BeginBroadcast
  <2>3. since' \in [Clients -> 0 .. begun']
    BY <1>1 DEF IInv, TypeOK, BeginBroadcast
  <2> QED
    BY <1>1, <2>1, <2>2, <2>3 DEF IInv, TypeOK, BeginBroadcast
<1>3. NoGap'
  <2> SUFFICES ASSUME NEW c \in Clients
               PROVE  /\ Stream(c)' = [i \in 1 .. Len(Stream(c)') |-> since'[c] + i]
                      /\ c \in clients' /\ task'[c] = "running" =>
                           since'[c] + Len(Stream(c)')
                             = IF c \in iterating' THEN begun' - 1 ELSE begun'
    BY DEF NoGap
  <2>1. /\ Stream(c)' = Stream(c) /\ since' = since
        /\ clients' = clients /\ task' = task /\ iterating' = clients
    BY DEF BeginBroadcast, Stream
  <2>2. c \notin iterating
    BY DEF IInv, Idle, BeginBroadcast
  <2> QED
    BY <1>1, <2>1, <2>2 DEF IInv, NoGap
<1>4. Idle'
  BY DEF IInv, Idle, BeginBroadcast
<1> QED
  BY <1>2, <1>3, <1>4 DEF IInv

\* A client that is sent the result has caught up with it.
LEMMA SendStep ==
  ASSUME IInv, NEW c \in Clients, SendTo(c)
  PROVE  IInv'
<1>1. /\ begun \in Nat /\ broadcast = "send" /\ c \in iterating /\ c \in clients
      /\ UNCHANGED <<resultVars, broadcast, begun, clients, conn, task, delivered, since>>
      /\ iterating' = iterating \ {c}
      /\ queue' = IF task[c] = "running"
                    THEN [queue EXCEPT ![c] = Append(queue[c], begun)] ELSE queue
      /\ conn[c] \in {"reading", "leaving"}
  BY StreamType DEF IInv, TypeOK, SendTo, Queued
<1>2. CASE task[c] = "running"
  <2>1. since[c] + Len(Stream(c)) = begun - 1
    BY <1>1, <1>2 DEF IInv, NoGap
  <2>2. begun = since[c] + Len(Stream(c)) + 1 /\ begun \in 1 .. begun
    BY <1>1, <2>1, StreamType DEF IInv
  <2>3. Stream(c)' = Append(Stream(c), begun)
    BY <1>1, <1>2, StreamType, AppendToConcat, SMTT(30) DEF IInv, TypeOK, Stream
  <2>4. TypeOK'
    <3>1. queue' \in [Clients -> Seq(1 .. begun)]
      BY <1>1, <1>2, <2>2 DEF IInv, TypeOK
    <3> QED
      BY <1>1, <3>1 DEF IInv, TypeOK
  <2>5. NoGap'
    <3> SUFFICES ASSUME NEW d \in Clients
                 PROVE  /\ Stream(d)' = [i \in 1 .. Len(Stream(d)') |-> since'[d] + i]
                        /\ d \in clients' /\ task'[d] = "running" =>
                             since'[d] + Len(Stream(d)')
                               = IF d \in iterating' THEN begun' - 1 ELSE begun'
      BY DEF NoGap
    <3>1. CASE d = c
      <4>1. Stream(c) = Interval(since[c], Len(Stream(c)))
        BY DEF IInv, NoGap, Interval
      <4>2. /\ Len(Stream(c)') = Len(Stream(c)) + 1
            /\ Stream(c)' = Interval(since[c], Len(Stream(c)'))
        BY <2>2, <2>3, <4>1, StreamType, IntervalAppend DEF IInv
      <4> QED
        BY <1>1, <2>2, <3>1, <4>2, StreamType DEF IInv, Interval
    <3>2. CASE d # c
      <4>1. Stream(d)' = Stream(d)
        BY <1>1, <3>2 DEF Stream, IInv, TypeOK
      <4> QED
        BY <1>1, <3>2, <4>1 DEF IInv, NoGap
    <3> QED
      BY <3>1, <3>2
  <2>6. Idle'
    BY <1>1, <1>2 DEF IInv, Idle
  <2> QED
    BY <2>4, <2>5, <2>6 DEF IInv
<1>3. CASE task[c] # "running"
  <2>1. TypeOK'
    BY <1>1, <1>3 DEF IInv, TypeOK
  <2>2. NoGap'
    BY <1>1, <1>3 DEF IInv, NoGap, Stream
  <2>3. Idle'
    BY <1>1, <1>3 DEF IInv, Idle
  <2> QED
    BY <2>1, <2>2, <2>3 DEF IInv
<1> QED
  BY <1>2, <1>3

\* A connection that appears, or whose socket has ended: its stream stays.
LEMMA ConnectionStep ==
  ASSUME IInv, NEW c \in Clients, Connect(c) \/ Leave(c)
  PROVE  IInv'
<1>1. TypeOK'
  <2>1. clients' = {d \in Clients : conn'[d] \in {"reading", "leaving"}}
    BY DEF IInv, TypeOK, Connect, Leave
  <2>2. /\ conn' \in [Clients -> {"none", "joining", "reading", "leaving", "gone"}]
        /\ task' \in [Clients -> {"none", "running", "failed", "done"}]
        /\ \A d \in Clients : task'[d] = "none" <=> conn'[d] = "none"
    BY DEF IInv, TypeOK, Connect, Leave
  <2> QED
    BY <2>1, <2>2 DEF IInv, TypeOK, Connect, Leave
<1>2. NoGap'
  <2>1. \A d \in clients : clients' = clients /\ (task'[d] = "running" => task[d] = "running")
    BY DEF IInv, TypeOK, Connect, Leave
  <2> QED
    BY <2>1, SameStream DEF IInv, Connect, Leave
<1>3. Idle'
  BY SMTT(30) DEF IInv, TypeOK, Idle, Connect, Leave
<1> QED
  BY <1>1, <1>2, <1>3 DEF IInv

\* A client enters the map between two broadcasts, with nothing in its stream.
LEMMA InsertStep ==
  ASSUME IInv, NEW c \in Clients, Insert(c)
  PROVE  IInv'
<1>1. /\ begun \in Nat /\ iterating = {} /\ Stream(c) = << >> /\ Len(Stream(c)) = 0
  <2>1. delivered[c] = << >> /\ queue[c] = << >> /\ iterating = {}
    BY DEF IInv, Idle, Insert, CanWrite
  <2>2. << >> \o << >> = << >> /\ Len(<< >>) = 0
    OBVIOUS
  <2> QED
    BY <2>1, <2>2, StreamType DEF IInv, Stream
<1>2. TypeOK'
  <2>1. clients' = {d \in Clients : conn'[d] \in {"reading", "leaving"}}
    BY DEF IInv, TypeOK, Insert
  <2>2. since' \in [Clients -> 0 .. begun]
    BY <1>1 DEF IInv, TypeOK, Insert
  <2> QED
    BY <2>1, <2>2 DEF IInv, TypeOK, Insert
<1>3. NoGap'
  <2> SUFFICES ASSUME NEW d \in Clients
               PROVE  /\ Stream(d)' = [i \in 1 .. Len(Stream(d)') |-> since'[d] + i]
                      /\ d \in clients' /\ task'[d] = "running" =>
                           since'[d] + Len(Stream(d)')
                             = IF d \in iterating' THEN begun' - 1 ELSE begun'
    BY DEF NoGap
  <2>1. Stream(d)' = Stream(d) /\ begun' = begun /\ iterating' = {} /\ task' = task
    BY <1>1 DEF Stream, Insert
  <2>2. CASE d = c
    <3>1. since'[d] = begun
      BY <2>2 DEF IInv, TypeOK, Insert
    <3>2. << >> = [i \in 1 .. 0 |-> since'[d] + i]
      OBVIOUS
    <3> QED
      BY <1>1, <2>1, <2>2, <3>1, <3>2
  <2>3. CASE d # c
    <3>1. since'[d] = since[d] /\ (d \in clients' => d \in clients)
      BY <2>3 DEF IInv, TypeOK, Insert
    <3> QED
      BY <1>1, <2>1, <3>1 DEF IInv, NoGap
  <2> QED
    BY <2>2, <2>3
<1>4. Idle'
  BY DEF IInv, TypeOK, Idle, Insert
<1> QED
  BY <1>2, <1>3, <1>4 DEF IInv

\* A client leaves the map between two broadcasts, so none iterates over it.
LEMMA RemoveStep ==
  ASSUME IInv, NEW c \in Clients, Remove(c)
  PROVE  IInv'
<1>1. TypeOK'
  <2>1. clients' = {d \in Clients : conn'[d] \in {"reading", "leaving"}}
    BY DEF IInv, TypeOK, Remove, Removed
  <2>2. iterating' \subseteq clients'
    BY DEF IInv, Idle, Remove, CanWrite
  <2> QED
    BY <2>1, <2>2 DEF IInv, TypeOK, Remove
<1>2. NoGap'
  BY SameStream DEF IInv, Remove, Removed
<1>3. Idle'
  BY DEF IInv, TypeOK, Idle, Remove
<1> QED
  BY <1>1, <1>2, <1>3 DEF IInv

\* The forward task moves a result along the stream, loses what is left of it,
\* or ends with nothing left.
LEMMA ForwardStep ==
  ASSUME IInv, NEW c \in Clients, Forward(c)
  PROVE  IInv'
<1>1. Stream(c)' = Stream(c)
  <2>1. /\ queue'[c] = Tail(queue[c]) /\ queue[c] # << >>
        /\ delivered'[c] = Append(delivered[c], Head(queue[c]))
    BY DEF IInv, TypeOK, Forward
  <2> QED
    BY <2>1, StreamType, MoveHead DEF IInv, Stream
<1>2. TypeOK'
  <2>1. /\ queue[c] \in Seq(1 .. begun) /\ delivered[c] \in Seq(1 .. begun)
        /\ queue[c] # << >>
    BY DEF IInv, TypeOK, Forward
  <2>2. /\ Tail(queue[c]) \in Seq(1 .. begun)
        /\ Append(delivered[c], Head(queue[c])) \in Seq(1 .. begun)
    BY <2>1, HeadTailProperties, AppendProperties
  <2>3. queue' \in [Clients -> Seq(1 .. begun)] /\ delivered' \in [Clients -> Seq(1 .. begun)]
    BY <2>2 DEF IInv, TypeOK, Forward
  <2> QED
    BY <2>3 DEF IInv, TypeOK, Forward
<1>3. NoGap'
  <2>1. \A d \in Clients : Stream(d)' = Stream(d)
    BY <1>1 DEF IInv, TypeOK, Forward, Stream
  <2> QED
    BY <2>1 DEF IInv, NoGap, Forward
<1>4. Idle'
  BY DEF IInv, Idle, TypeOK, Forward
<1> QED
  BY <1>2, <1>3, <1>4 DEF IInv

LEMMA ForwardEndStep ==
  ASSUME IInv, NEW c \in Clients, ForwardFails(c) \/ ForwardEnds(c)
  PROVE  IInv'
<1>1. /\ queue' \in [Clients -> Seq(1 .. begun)]
      /\ task' \in [Clients -> {"none", "running", "failed", "done"}]
      /\ task'[c] # "running" /\ delivered' = delivered
      /\ queue'[c] = << >> /\ \A d \in Clients \ {c} : queue'[d] = queue[d] /\ task'[d] = task[d]
      /\ UNCHANGED <<resultVars, broadcast, begun, iterating, clients, conn, since>>
  <2>1. << >> \in Seq(1 .. begun)
    OBVIOUS
  <2> QED
    BY <2>1, ZenonT(60) DEF IInv, TypeOK, ForwardFails, ForwardEnds
<1>2. TypeOK'
  <2>1. \A d \in Clients : task'[d] = "none" <=> conn'[d] = "none"
    BY DEF IInv, TypeOK, ForwardFails, ForwardEnds
  <2> QED
    BY <1>1, <2>1 DEF IInv, TypeOK
<1>3. NoGap'
  <2> SUFFICES ASSUME NEW d \in Clients
               PROVE  /\ Stream(d)' = [i \in 1 .. Len(Stream(d)') |-> since'[d] + i]
                      /\ d \in clients' /\ task'[d] = "running" =>
                           since'[d] + Len(Stream(d)')
                             = IF d \in iterating' THEN begun' - 1 ELSE begun'
    BY DEF NoGap
  <2>1. CASE d = c
    <3>1. Stream(c) = Interval(since[c], Len(Stream(c)))
      BY DEF IInv, NoGap, Interval
    <3>2. delivered[c] = Interval(since[c], Len(delivered[c]))
      BY <3>1, StreamType, IntervalPrefix DEF IInv, Stream
    <3>3. Stream(c)' = delivered[c]
      BY <1>1, StreamType, ConcatEmptySeq DEF IInv, Stream
    <3> QED
      BY <1>1, <2>1, <3>2, <3>3 DEF Interval
  <2>2. CASE d # c
    <3>1. Stream(d)' = Stream(d) /\ task'[d] = task[d]
      BY <1>1, <2>2 DEF Stream
    <3> QED
      BY <1>1, <3>1 DEF IInv, NoGap
  <2> QED
    BY <2>1, <2>2
<1>4. Idle'
  BY <1>1 DEF IInv, Idle
<1> QED
  BY <1>2, <1>3, <1>4 DEF IInv

-----------------------------------------------------------------------------
(* The theorems *)

\* The inductive invariant holds: every step of the result path and of every
\* connection preserves it.
THEOREM Invariance == Spec => []IInv
<1>1. ASSUME IInv, [Next]_vars
      PROVE  IInv'
  <2>1. CASE CaptureResult \/ EndCapture \/ PassOn
    BY <1>1, <2>1, ResultStep
  <2>2. CASE Broadcasting
    BY <1>1, <2>2, TakeStep, BeginStep, SendStep DEF Broadcasting
  <2>3. ASSUME NEW c \in Clients, Connect(c) \/ Insert(c) \/ Leave(c) \/ Remove(c)
        PROVE  IInv'
    BY <1>1, <2>3, ConnectionStep, InsertStep, RemoveStep
  <2>4. ASSUME NEW c \in Clients, Forward(c) \/ ForwardFails(c) \/ ForwardEnds(c)
        PROVE  IInv'
    BY <1>1, <2>4, ForwardStep, ForwardEndStep
  <2>5. CASE UNCHANGED vars
    BY <1>1, <2>5, ZenonT(60) DEF IInv, TypeOK, NoGap, Stream, Idle
  <2> QED
    BY <1>1, <2>1, <2>2, <2>3, <2>4, <2>5 DEF Next
<1> QED
  BY <1>1, InitIInv, PTL DEF Spec

\* The map, the tasks and the queues of the web server (web.rs, main.rs) have
\* their types.
THEOREM TypeCorrect == Spec => []TypeOK
  BY Invariance, PTL DEF IInv

\* Whatever the order of broadcasts, insertions, removals and failing sockets,
\* a client of main.rs gets an interval of the results that begins with its
\* insertion, and is up to date while it is served.
THEOREM NoGapHolds == Spec => []NoGap
  BY Invariance, PTL DEF IInv

=============================================================================
