---------------------------- MODULE TraceFrames ----------------------------
(***************************************************************************)
(* Stack frames and their numbers (track/src/stacktrace.rs).  Every thread *)
(* numbers the frames it meets in a TraceTree of its own and mentions them *)
(* by number in its events.  The gatherer renumbers them in one            *)
(* GlobalTraceTree as it ships a thread's buffers (send_buffer in          *)
(* track/src/lib.rs).  It never reads the number a thread gave a frame: it *)
(* counts, and relies on seeing every frame of the thread once, in order.  *)
(*                                                                         *)
(* The way from a thread to the gatherer is a queue here: that the buffers *)
(* of a thread arrive complete and in order is shown in Tracker.           *)
(***************************************************************************)
EXTENDS Naturals, Sequences, SequencesExt

CONSTANTS
  Threads,    \* the tracked threads
  Ips,        \* instruction pointers
  Null,       \* the null instruction pointer
  Skip,       \* frames of the tracker that a captured trace leaves out, 2
  TraceMaxSize, \* TRACE_MAX_SIZE, 64
  IndexLimit, \* a TraceIndex has 32 bits: 2^32
  MaxStack,   \* bound of the model: depth of a thread's stack
  MaxFrames,  \* bound of the model: frames a thread meets
  MaxQueue    \* bound of the model: instructions of a thread under way

ASSUME TraceFramesAssumption ==
  /\ Null \notin Ips
  /\ Skip \in Nat /\ TraceMaxSize \in Nat /\ 2 * Skip <= TraceMaxSize
  /\ IndexLimit \in Nat \ {0}
  /\ MaxStack \in Nat /\ MaxFrames \in Nat /\ MaxQueue \in Nat

VARIABLES
  tree,       \* TraceTree: the frames of each thread, a frame's place its index
  queue,      \* instructions of each thread that were not yet shipped
  ended,      \* threads that have exited
  children,   \* GlobalTraceTree.global_parent, node 0 at 1
  known,      \* ThreadTreeData.local_to_global, root frame at 1
  frames,     \* Stack instructions written, the frame with global index g at g
  panicked    \* has a lookup in local_to_global failed?

vars == <<tree, queue, ended, children, known, frames, panicked>>

Frame == [parent : Nat, ip : Ips]

\* An event is an allocation or a deallocation; its ip, that of the frame its
\* index stands for, is not part of the program: the properties need it.
Instruction == [kind : {"stack"}, parent : Nat, ip : Ips]
                 \cup [kind : {"event"}, index : Nat, ip : Ips \cup {Null}]

TypeOK ==
  /\ tree \in [Threads -> Seq(Frame)]
  /\ queue \in [Threads -> Seq(Instruction)]
  /\ ended \in SUBSET Threads
  /\ frames \in Seq(Frame)
  /\ children \in Seq(Seq([ip : Ips, index : DOMAIN frames]))
  /\ known \in [Threads -> Seq({0} \cup DOMAIN frames)]
  /\ panicked \in BOOLEAN

Init ==
  /\ tree = [t \in Threads |-> << >>]
  /\ queue = [t \in Threads |-> << >>]
  /\ ended = {}
  /\ children = << << >> >>
  /\ known = [t \in Threads |-> <<0>>]
  /\ frames = << >>
  /\ panicked = FALSE

-----------------------------------------------------------------------------
(* Trace::new *)

\* What the unwinder walks, innermost frame first: the frames of the tracker
\* are real, further out it may fail to find an instruction pointer.
Stacks ==
  UNION {{stack \in [1 .. n -> Ips \cup {Null}] : \A i \in 1 .. 2 * Skip : stack[i] # Null}
           : n \in 2 * Skip .. MaxStack}

\* fill: a stack that is too deep loses its outermost frames, and null pointers
\* at the end are not counted.  The size leaves out skip frames ...
Filled(stack) ==
  IF Len(stack) > TraceMaxSize THEN SubSeq(stack, 1, TraceMaxSize) ELSE stack
Size(data) == CHOOSE n \in 0 .. Len(data) :
  /\ n = 0 \/ data[n] # Null
  /\ \A i \in n + 1 .. Len(data) : data[i] = Null

\* ... and so does deref, at the other end.
Deref(data) == SubSeq(data, Skip + 1, Size(data) - Skip)

\* The captured traces, outermost frame first.
Traces == {Reverse(Deref(Filled(stack))) : stack \in Stacks}

-----------------------------------------------------------------------------
(* TraceTree::index *)

\* A TraceIndex made from an index.
Truncated(index) == index % IndexLimit

\* The index the next new frame gets; its mutant begins at 0.
FromZero(frameList) == Len(frameList)
NextIndex(frameList) == Len(frameList) + 1

\* One step of the walk from node at: a null pointer is passed over, and a frame
\* is an existing child or a new frame that is reported to the gatherer with the
\* number of its parent.
Descend(walk, ip) ==
  LET frame == [parent |-> walk.at, ip |-> ip]
      next  == NextIndex(walk.tree)
  IN
  IF ip = Null THEN walk
  ELSE IF \E i \in DOMAIN walk.tree : walk.tree[i] = frame
  THEN [walk EXCEPT !.at = CHOOSE i \in DOMAIN walk.tree : walk.tree[i] = frame,
                    !.ip = ip]
  ELSE [tree |-> Append(walk.tree, frame), at |-> next, ip |-> ip,
        out  |-> Append(walk.out, [kind |-> "stack", parent |-> walk.at, ip |-> ip])]

\* The walk of a trace through t's tree, step by step; ip is the pointer of the
\* frame the walk is at.
Walk(t, trace) ==
  LET walk[i \in 0 .. Len(trace)] ==
        IF i = 0 THEN [tree |-> tree[t], at |-> 0, ip |-> Null, out |-> << >>]
        ELSE Descend(walk[i - 1], trace[i])
  IN walk[Len(trace)]

\* An allocator hook: the new frames of its trace, then the event.
Hook(t) ==
  \E trace \in Traces :
    LET walk == Walk(t, trace)
        event == [kind |-> "event", index |-> Truncated(walk.at), ip |-> walk.ip]
        out == Append(walk.out, event)
    IN
    /\ t \notin ended
    /\ Len(walk.tree) <= MaxFrames
    /\ Len(queue[t]) + Len(out) <= MaxQueue
    /\ tree' = [tree EXCEPT ![t] = walk.tree]
    /\ queue' = [queue EXCEPT ![t] = @ \o out]
    /\ UNCHANGED <<ended, children, known, frames, panicked>>

Exit(t) ==
  /\ t \notin ended
  /\ ended' = ended \cup {t}
  /\ UNCHANGED <<tree, queue, children, known, frames, panicked>>

-----------------------------------------------------------------------------
(* send_buffer *)

\* The global index of t's frame with local index i.
Knows(t, i) == i + 1 \in DOMAIN known[t]
Lookup(t, i) == known[t][i + 1]

LocalParent(t, s) == s.parent       \* mutant of GlobalParent
GlobalParent(t, s) == IF s.parent = 0 THEN 0 ELSE Lookup(t, s.parent)

\* The places of a global node's children for an instruction pointer.
Matching(node, ip) ==
  {i \in DOMAIN children[node + 1] : children[node + 1][i].ip = ip}

\* The index of a new node; its mutant reads the length after the push.
AfterInsert == Len(children) + 1
GlobalIndex == Len(children)

\* GlobalTraceTreeBorrow::push, for a frame the global tree has...
PushFound(t, s) ==
  LET parent == GlobalParent(t, s) IN
  \E i \in Matching(parent, s.ip) :
    /\ \A j \in Matching(parent, s.ip) : i <= j
    /\ known' = [known EXCEPT ![t] = Append(@, children[parent + 1][i].index)]
    /\ UNCHANGED <<children, frames>>

\* ... or has not: the new node becomes a child of node 0, whatever its parent.
PushNew(t, s) ==
  LET parent == GlobalParent(t, s)
      index == GlobalIndex
  IN
  /\ Matching(parent, s.ip) = {}
  /\ known' = [known EXCEPT ![t] = Append(@, index)]
  /\ children' = Append([children EXCEPT ![1] = Append(@, [ip |-> s.ip, index |-> index])],
                        << >>)
  /\ frames' = Append(frames, [parent |-> parent, ip |-> s.ip])

\* The next instruction of t is translated and written.
Translate(t) ==
  LET s == Head(queue[t]) IN
  /\ ~panicked
  /\ queue[t] # << >>
  /\ \/ /\ s.kind = "stack" /\ Knows(t, s.parent)
        /\ PushFound(t, s) \/ PushNew(t, s)
        /\ UNCHANGED panicked
     \/ /\ s.kind = "event" /\ Knows(t, s.index)
        /\ UNCHANGED <<children, known, frames, panicked>>
     \/ /\ ~Knows(t, IF s.kind = "stack" THEN s.parent ELSE s.index)
        /\ panicked' = TRUE
        /\ UNCHANGED <<children, known, frames>>
  /\ queue' = [queue EXCEPT ![t] = Tail(@)]
  /\ UNCHANGED <<tree, ended>>

\* handle_buffers removes a dead thread after it has shipped the last buffer.
\* The mutant removes it as soon as it is dead.
AtOnce(t) == t \in ended
AllShipped(t) == t \in ended /\ queue[t] = << >>

\* remove_thread: what is left would begin a new table (for_thread).
RemoveThread(t) ==
  /\ ~panicked
  /\ AllShipped(t)
  /\ known' = [known EXCEPT ![t] = <<0>>]
  /\ UNCHANGED <<tree, queue, ended, children, frames, panicked>>

Next == \E t \in Threads : Hook(t) \/ Exit(t) \/ Translate(t) \/ RemoveThread(t)

Spec == Init /\ [][Next]_vars

-----------------------------------------------------------------------------
(* What the renumbering promises. *)

LocalIp(t, i) == IF i = 0 THEN Null ELSE tree[t][i].ip
GlobalIp(g) == IF g = 0 THEN Null ELSE frames[g].ip

\* The gatherer never looks up a frame it has not counted yet (the unwrap in
\* GlobalTraceTreeBorrow::push, the index in lookup): a thread's table lives
\* until the last of its buffers is shipped.
LookupSucceeds == ~panicked

\* Counting instead of reading the index is right: an event is written with a
\* global index that was announced with the instruction pointer of the event's
\* own frame, whatever other threads have shipped in between (send_buffer), as
\* long as there are no more frames than a TraceIndex can tell apart.
SameInstruction ==
  \A t \in Threads :
    queue[t] # << >> /\ Len(tree[t]) < IndexLimit /\ Len(frames) < IndexLimit =>
      LET s == Head(queue[t]) IN
      s.kind = "event" /\ Knows(t, s.index) =>
        GlobalIp(Truncated(Lookup(t, s.index))) = s.ip

\* A written frame and its parent are a call some thread has really made: the
\* parent is translated with the table of the thread that met the frame (push).
RealCalls ==
  \A g \in DOMAIN frames :
    \E t \in Threads : \E i \in DOMAIN tree[t] :
      /\ tree[t][i].ip = frames[g].ip
      /\ LocalIp(t, tree[t][i].parent) = GlobalIp(frames[g].parent)

\* What push() documents: a frame is new exactly if it was not met before, so
\* that one frame under one parent has one index.  It does not hold: children
\* are only ever recorded at the root.
MetOnce ==
  \A g, h \in DOMAIN frames : frames[g] = frames[h] => g = h

=============================================================================
