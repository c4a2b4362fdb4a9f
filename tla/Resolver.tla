------------------------------ MODULE Resolver ------------------------------
(***************************************************************************)
(* A session: the gatherer and the resolver thread that one start() brings *)
(* up, and the two channels between them (track/src/lib.rs).  The gatherer *)
(* asks for the symbols of every frame that is new to it over an unbounded *)
(* channel; the resolver answers over a bounded one; the gatherer collects *)
(* the answers and writes them to the connection in batches.  Who starts   *)
(* and ends a session is the subject of Lifecycle.                         *)
(*                                                                         *)
(* A frame is named by its position among those asked for.  A write to a   *)
(* lost connection panics.                                                 *)
(***************************************************************************)
EXTENDS Naturals, Sequences

CONSTANTS
  Sessions,        \* one for each call of start(), numbered in their order
  AnswerCapacity,  \* bound of the resolved channel, 64
  BatchSize,       \* stack details in one message, 1024
  MaxFrames,       \* bound of the model: frames asked for in each session
  Unreliable       \* bound of the model: sessions that may lose the connection

ASSUME ResolverAssumption ==
  /\ Sessions \subseteq Nat
  /\ AnswerCapacity \in Nat \ {0}
  /\ BatchSize \in Nat \ {0}
  /\ MaxFrames \in [Sessions -> Nat]
  /\ Unreliable \subseteq Sessions

VARIABLES
  program,   \* has the traced program ended?
  gatherer,  \* where the gatherer of each session is
  resolver,  \* where its resolver is
  asked,     \* frames the gatherer has asked for
  requests,  \* to_resolv channel
  hand,      \* the frame the resolver is working on
  answers,   \* resolved channel
  batch,     \* stack_details_buffer
  written,   \* details written to the connection
  lost       \* does the next write to the connection fail?

channelVars == <<asked, requests, hand, answers, batch, written>>
sessionVars == <<program, gatherer, resolver, channelVars, lost>>

\* Requests: a frame's number, or the order to stop.
Shutdown == 0

ResolverTypeOK ==
  /\ program \in {"running", "exited", "aborted"}
  /\ gatherer \in
       [Sessions -> {"none", "run", "flush", "await", "done", "panicked"}]
  /\ resolver \in [Sessions -> {"none", "recv", "send", "done"}]
  /\ asked \in [Sessions -> Nat]
  /\ requests \in [Sessions -> Seq(Nat)]
  /\ hand \in [Sessions -> Nat]
  /\ answers \in [Sessions -> Seq(Nat)]
  /\ \A s \in Sessions : Len(answers[s]) <= AnswerCapacity
  /\ batch \in [Sessions -> Seq(Nat)]
  /\ \A s \in Sessions : Len(batch[s]) < BatchSize
  /\ written \in [Sessions -> Seq(Nat)]
  /\ lost \in [Sessions -> BOOLEAN]

ResolverInit ==
  /\ program = "running"
  /\ gatherer = [s \in Sessions |-> "none"]
  /\ resolver = [s \in Sessions |-> "none"]
  /\ asked = [s \in Sessions |-> 0]
  /\ requests = [s \in Sessions |-> << >>]
  /\ hand = [s \in Sessions |-> 0]
  /\ answers = [s \in Sessions |-> << >>]
  /\ batch = [s \in Sessions |-> << >>]
  /\ written = [s \in Sessions |-> << >>]
  /\ lost = [s \in Sessions |-> FALSE]

-----------------------------------------------------------------------------
Running == program = "running"

GathererGoes(s, phase) == gatherer' = [gatherer EXCEPT ![s] = phase]
ResolverGoes(s, phase) == resolver' = [resolver EXCEPT ![s] = phase]

\* The gatherer's ends of the channels are dropped.
Ended(s) == gatherer[s] \in {"done", "panicked"}

\* GatherHandle::new spawns the two threads.
Spawn(s) ==
  /\ gatherer[s] = "none"
  /\ GathererGoes(s, "run")
  /\ ResolverGoes(s, "recv")
  /\ UNCHANGED <<channelVars, lost>>

\* send_buffer meets a new frame, in the run loop or in the final flush.
Ask(s) ==
  /\ Running /\ gatherer[s] \in {"run", "flush"}
  /\ asked[s] < MaxFrames[s]
  /\ asked' = [asked EXCEPT ![s] = @ + 1]
  /\ requests' = [requests EXCEPT ![s] = Append(@, asked'[s])]
  /\ UNCHANGED <<program, gatherer, resolver, hand, answers, batch, written, lost>>

\* Resolver::run: the next request, or the end of them.
Resolve(s) ==
  /\ Running /\ resolver[s] = "recv"
  /\ \/ /\ requests[s] # << >> /\ Head(requests[s]) # Shutdown
        /\ ResolverGoes(s, "send")
        /\ hand' = [hand EXCEPT ![s] = Head(requests[s])]
        /\ requests' = [requests EXCEPT ![s] = Tail(@)]
     \/ /\ requests[s] # << >> /\ Head(requests[s]) = Shutdown
        /\ ResolverGoes(s, "done")
        /\ requests' = [requests EXCEPT ![s] = Tail(@)]
        /\ UNCHANGED hand
     \/ /\ requests[s] = << >> /\ Ended(s)
        /\ ResolverGoes(s, "done")
        /\ UNCHANGED <<requests, hand>>
  /\ UNCHANGED <<program, gatherer, asked, answers, batch, written, lost>>

\* The answer waits for room in the channel; without a receiver it is lost
\* and the resolver ends.
Answer(s) ==
  /\ Running /\ resolver[s] = "send"
  /\ hand' = [hand EXCEPT ![s] = 0]
  /\ \/ /\ Ended(s)
        /\ ResolverGoes(s, "done")
        /\ UNCHANGED answers
     \/ /\ ~Ended(s) /\ Len(answers[s]) < AnswerCapacity
        /\ ResolverGoes(s, "recv")
        /\ answers' = [answers EXCEPT ![s] = Append(@, hand[s])]
  /\ UNCHANGED <<program, gatherer, asked, requests, batch, written, lost>>

\* Where the gatherer receives answers: select! in the run loop, and the loop
\* in shutdown.  The mutant only joins there.
RunOnly == {"run"}
Receiving == {"run", "await"}

\* handle_details: a full batch is written.
TakeDetails(s) ==
  LET details == Append(batch[s], Head(answers[s])) IN
  /\ Running /\ gatherer[s] \in Receiving
  /\ answers[s] # << >>
  /\ answers' = [answers EXCEPT ![s] = Tail(@)]
  /\ \/ /\ Len(details) < BatchSize
        /\ batch' = [batch EXCEPT ![s] = details]
        /\ UNCHANGED written
     \/ /\ Len(details) = BatchSize /\ ~lost[s]
        /\ batch' = [batch EXCEPT ![s] = << >>]
        /\ written' = [written EXCEPT ![s] = @ \o details]
  /\ UNCHANGED <<program, gatherer, resolver, asked, requests, hand, lost>>

\* The phase in which Drop for Gatherer begins.  The mutant has told the
\* resolver to stop before handle_buffers has asked for the last frames.
ShutdownFirst(s) ==
  /\ requests' = [requests EXCEPT ![s] = Append(@, Shutdown)]
  /\ GathererGoes(s, "flush")
BeginFlush(s) ==
  /\ GathererGoes(s, "flush")
  /\ UNCHANGED requests

\* handle_buffers has flushed the connection; the resolver is told to stop.
SendShutdown(s) ==
  /\ Running /\ gatherer[s] = "flush" /\ ~lost[s]
  /\ requests' = [requests EXCEPT ![s] = Append(@, Shutdown)]
  /\ GathererGoes(s, "await")
  /\ UNCHANGED <<program, resolver, asked, hand, answers, batch, written, lost>>

\* What is left of the last batch; the mutant drops it.
NoRest(s) == << >>
Rest(s) == batch[s]

\* The resolver has hung up and its answers are received: the last batch is
\* written, if there is one, and the gatherer's fields are dropped.
FlushDetails(s) ==
  /\ Running /\ gatherer[s] = "await" /\ (lost[s] => batch[s] = << >>)
  /\ resolver[s] = "done" /\ answers[s] = << >>
  /\ written' = [written EXCEPT ![s] = @ \o Rest(s)]
  /\ batch' = [batch EXCEPT ![s] = << >>]
  /\ GathererGoes(s, "done")
  /\ UNCHANGED <<program, resolver, asked, requests, hand, answers, lost>>

\* The analysis side goes away.
LoseConnection(s) ==
  /\ Running /\ s \in Unreliable /\ ~lost[s]
  /\ gatherer[s] \in {"run", "flush", "await"}
  /\ lost' = [lost EXCEPT ![s] = TRUE]
  /\ UNCHANGED <<program, gatherer, resolver, channelVars>>

\* The writes of the final flush: its buffers, a full batch, and at the end the
\* last batch and what the BufWriter has kept of earlier details.
Writes(s) ==
  \/ gatherer[s] = "flush"
  \/ /\ gatherer[s] = "await"
     /\ \/ answers[s] # << >> /\ Len(batch[s]) + 1 = BatchSize
        \/ /\ answers[s] = << >> /\ resolver[s] = "done"
           /\ batch[s] # << >> \/ written[s] # << >>

\* A failed write panics.  In the run loop the Gatherer is dropped while the
\* thread unwinds, and its final flush fails and panics again: the program
\* is aborted.  In the final flush itself the thread ends.
FailedWrite(s) ==
  /\ Running /\ lost[s]
  /\ \/ /\ gatherer[s] = "run"
        /\ program' = "aborted"
        /\ UNCHANGED <<gatherer, answers>>
     \/ /\ Writes(s)
        /\ GathererGoes(s, "panicked")
        /\ answers' = [answers EXCEPT ![s] = << >>]
        /\ UNCHANGED program
  /\ UNCHANGED <<resolver, asked, requests, hand, batch, written, lost>>

ResolverNext(s) == Resolve(s) \/ Answer(s)

\* What the gatherer does with what others sent it, or in its final flush.
GathererStep(s) ==
  TakeDetails(s) \/ SendShutdown(s) \/ FlushDetails(s) \/ FailedWrite(s)

SessionNext(s) ==
  Ask(s) \/ ResolverNext(s) \/ GathererStep(s) \/ LoseConnection(s)

\* Both threads run on; whether there are new frames is the program's.
SessionFairness(s) ==
  WF_sessionVars(ResolverNext(s)) /\ WF_sessionVars(GathererStep(s))

-----------------------------------------------------------------------------
FirstFrames(n) == [i \in 1 .. n |-> i]
InWork(s) == IF resolver[s] = "send" THEN <<hand[s]>> ELSE << >>

\* The frames among the requests r: the order to stop, if it is there, is last.
Frames(r) ==
  IF r # << >> /\ r[Len(r)] = Shutdown THEN SubSeq(r, 1, Len(r) - 1) ELSE r

\* Every new frame gets its details, once and in order, however the answers
\* fall into batches; when the gatherer has ended in peace nothing is left in
\* a channel, in the resolver's hand or in an unfinished batch.
DetailsArrive ==
  \A s \in Sessions : gatherer[s] # "panicked" =>
    /\ written[s] \o batch[s] \o answers[s] \o InWork(s) \o Frames(requests[s])
         = FirstFrames(asked[s])
    /\ gatherer[s] = "done" => written[s] = FirstFrames(asked[s])

\* The resolver outlives the asking: the gatherer's sends cannot fail
\* (the unwraps in send_buffer and shutdown), and its run loop never ends
\* because the resolver has hung up.
ResolverServes ==
  \A s \in Sessions :
    resolver[s] = "done" => gatherer[s] \in {"await", "done", "panicked"}

\* The final hand-shake ends: the gatherer waits for the resolver to hang up
\* while the resolver may be waiting for room in the channel to the gatherer.
ShutdownEnds ==
  \A s \in Sessions :
    gatherer[s] = "flush" ~> ~Running \/ (Ended(s) /\ resolver[s] = "done")

=============================================================================
