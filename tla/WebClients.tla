----------------------------- MODULE WebClients -----------------------------
(***************************************************************************)
(* The live view of the analysis (analyze/src/main.rs and web.rs).  A      *)
(* thread passes the results of the dataflow on to the broadcast task,     *)
(* which sends each to every client in a map under its read lock.  Every   *)
(* connection is a task that puts its client into the map, reads from its  *)
(* socket until that ends and takes the client out again, under the write  *)
(* lock, and a forward task that empties the client's queue into the       *)
(* socket.  Connections come and go at any time, a socket may fail for     *)
(* writing before its reader notices, and a peer may stop taking messages. *)
(*                                                                         *)
(* Results are numbered; progress events, which the broadcast task skips,  *)
(* are left out.  The handlers of web.rs that no route of main.rs reaches  *)
(* are not modelled.                                                       *)
(***************************************************************************)
EXTENDS Naturals, Sequences

CONSTANTS
  Clients,    \* connections
  Slow,       \* those whose peer may stop taking messages
  MaxResults  \* bound of the model: results of the dataflow

ASSUME WebAssumption ==
  /\ Slow \subseteq Clients
  /\ MaxResults \in Nat

VARIABLES
  captured,   \* results captured from the dataflow
  ended,      \* has the dataflow dropped its end of the channel?
  passed,     \* results passed on to the broadcast task
  forwarder,  \* is the thread that does so running?
  broadcast,  \* where the broadcast task is
  begun,      \* results whose broadcast has begun
  iterating,  \* clients that the broadcast under way is still to reach
  clients,    \* the map
  conn,       \* where the task of each connection is
  task,       \* its forward task
  queue,      \* results queued for it
  delivered,  \* results written to its socket
  since       \* broadcasts begun when the client was put into the map

resultVars == <<captured, ended, passed, forwarder>>
clientVars == <<clients, conn, task, queue, delivered, since>>
vars == <<resultVars, broadcast, begun, iterating, clientVars>>

TypeOK ==
  /\ captured \in 0 .. MaxResults /\ passed \in 0 .. captured
  /\ begun \in 0 .. passed
  /\ ended \in BOOLEAN
  /\ forwarder \in {"running", "done"}
  /\ broadcast \in {"recv", "lock", "send", "done"}
  /\ iterating \subseteq clients
  /\ conn \in [Clients -> {"none", "joining", "reading", "leaving", "gone"}]
  /\ clients = {c \in Clients : conn[c] \in {"reading", "leaving"}}
  /\ task \in [Clients -> {"none", "running", "failed", "done"}]
  /\ \A c \in Clients : task[c] = "none" <=> conn[c] = "none"
  /\ queue \in [Clients -> Seq(1 .. begun)]
  /\ delivered \in [Clients -> Seq(1 .. begun)]
  /\ since \in [Clients -> 0 .. begun]

Init ==
  /\ captured = 0 /\ ended = FALSE /\ passed = 0 /\ forwarder = "running"
  /\ broadcast = "recv" /\ begun = 0 /\ iterating = {}
  /\ clients = {}
  /\ conn = [c \in Clients |-> "none"] /\ task = [c \in Clients |-> "none"]
  /\ queue = [c \in Clients |-> << >>] /\ delivered = [c \in Clients |-> << >>]
  /\ since = [c \in Clients |-> 0]

-----------------------------------------------------------------------------
(* Results *)

\* The dataflow captures a result, or comes to its end.
CaptureResult ==
  /\ ~ended /\ captured < MaxResults
  /\ captured' = captured + 1
  /\ UNCHANGED <<ended, passed, forwarder, broadcast, begun, iterating, clientVars>>

EndCapture ==
  /\ ~ended
  /\ ended' = TRUE
  /\ UNCHANGED <<captured, passed, forwarder, broadcast, begun, iterating, clientVars>>

\* The forwarding thread: recv, send to the broadcast task; it ends with the
\* channel.
PassOn ==
  /\ forwarder = "running"
  /\ \/ /\ passed < captured
        /\ passed' = passed + 1
        /\ UNCHANGED forwarder
     \/ /\ passed = captured /\ ended
        /\ forwarder' = "done"
        /\ UNCHANGED passed
  /\ UNCHANGED <<captured, ended, broadcast, begun, iterating, clientVars>>

\* treceiver.recv().await: a result, which waits for the read lock, or the end.
TakeResult ==
  /\ broadcast = "recv"
  /\ \/ begun < passed /\ broadcast' = "lock"
     \/ begun = passed /\ forwarder = "done" /\ broadcast' = "done"
  /\ UNCHANGED <<resultVars, begun, iterating, clientVars>>

\* clients.read().await: no writer keeps the lock across a step.
BeginBroadcast ==
  /\ broadcast = "lock"
  /\ begun' = begun + 1
  /\ iterating' = clients
  /\ broadcast' = "send"
  /\ UNCHANGED <<resultVars, clientVars>>

\* sender.send(): the queue is unbounded, so there is always room and nothing
\* is dropped; if the forward task is gone the failure is ignored.  The mutants
\* bound the queue and either wait for room or drop what does not fit.
WaitsForRoom(c) == task[c] = "running" => Len(queue[c]) < 1
MaySend(c) == TRUE

Dropped(c) == IF queue[c] = << >> THEN <<begun>> ELSE queue[c]
Queued(c) == Append(queue[c], begun)

SendTo(c) ==
  /\ broadcast = "send" /\ c \in iterating /\ MaySend(c)
  /\ queue' = IF task[c] = "running" THEN [queue EXCEPT ![c] = Queued(c)] ELSE queue
  /\ iterating' = iterating \ {c}
  /\ UNCHANGED <<resultVars, broadcast, begun, clients, conn, task, delivered, since>>

\* The read lock is released.
EndBroadcast ==
  /\ broadcast = "send" /\ iterating = {}
  /\ broadcast' = "recv"
  /\ UNCHANGED <<resultVars, begun, iterating, clientVars>>

-----------------------------------------------------------------------------
(* Connections *)

\* ws_handler upgrades the connection: the queue and its forward task.
Connect(c) ==
  /\ conn[c] = "none"
  /\ conn' = [conn EXCEPT ![c] = "joining"]
  /\ task' = [task EXCEPT ![c] = "running"]
  /\ UNCHANGED <<resultVars, broadcast, begun, iterating, clients, queue, delivered, since>>

\* clients.write().await waits for the end of a broadcast.
CanWrite == broadcast # "send"

Insert(c) ==
  /\ conn[c] = "joining" /\ CanWrite
  /\ clients' = clients \cup {c}
  /\ since' = [since EXCEPT ![c] = begun]
  /\ conn' = [conn EXCEPT ![c] = "reading"]
  /\ UNCHANGED <<resultVars, broadcast, begun, iterating, task, queue, delivered>>

\* The socket ends or fails for reading; its messages are only printed.
Leave(c) ==
  /\ conn[c] = "reading"
  /\ conn' = [conn EXCEPT ![c] = "leaving"]
  /\ UNCHANGED <<resultVars, broadcast, begun, iterating, clients, task, queue, delivered, since>>

\* The mutant leaves the client in the map.
NotRemoved(c) == clients
Removed(c) == clients \ {c}

Remove(c) ==
  /\ conn[c] = "leaving" /\ CanWrite
  /\ clients' = Removed(c)
  /\ conn' = [conn EXCEPT ![c] = "gone"]
  /\ UNCHANGED <<resultVars, broadcast, begun, iterating, task, queue, delivered, since>>

\* The forward task writes what is queued, ...
Forward(c) ==
  /\ task[c] = "running" /\ queue[c] # << >>
  /\ delivered' = [delivered EXCEPT ![c] = Append(@, Head(queue[c]))]
  /\ queue' = [queue EXCEPT ![c] = Tail(@)]
  /\ UNCHANGED <<resultVars, broadcast, begun, iterating, clients, conn, task, since>>

\* ... ends when a write fails, which the connection does not learn, ...
ForwardFails(c) ==
  /\ task[c] = "running" /\ queue[c] # << >>
  /\ task' = [task EXCEPT ![c] = "failed"]
  /\ queue' = [queue EXCEPT ![c] = << >>]
  /\ UNCHANGED <<resultVars, broadcast, begun, iterating, clients, conn, delivered, since>>

\* ... or when the client, and its sender with it, is no longer in the map.
ForwardEnds(c) ==
  /\ task[c] = "running" /\ queue[c] = << >> /\ conn[c] = "gone"
  /\ task' = [task EXCEPT ![c] = "done"]
  /\ UNCHANGED <<resultVars, broadcast, begun, iterating, clients, conn, queue, delivered, since>>

-----------------------------------------------------------------------------
Broadcasting ==
  TakeResult \/ BeginBroadcast \/ (\E c \in Clients : SendTo(c)) \/ EndBroadcast

Next ==
  \/ CaptureResult \/ EndCapture \/ PassOn
  \/ Broadcasting
  \/ \E c \in Clients :
       \/ Connect(c) \/ Insert(c) \/ Leave(c) \/ Remove(c)
       \/ Forward(c) \/ ForwardFails(c) \/ ForwardEnds(c)

\* The thread and the tasks run on, and tokio's lock is fair to its writers;
\* sockets take messages, but for the slow ones.
Fairness ==
  /\ WF_vars(PassOn) /\ WF_vars(Broadcasting)
  /\ \A c \in Clients : SF_vars(Insert(c)) /\ SF_vars(Remove(c)) /\ WF_vars(ForwardEnds(c))
  /\ \A c \in Clients \ Slow : WF_vars(Forward(c))

Spec == Init /\ [][Next]_vars /\ Fairness

-----------------------------------------------------------------------------
Stream(c) == delivered[c] \o queue[c]

\* A client sees every result broadcast from its insertion to its removal, in
\* order, once and without a gap, up to a failure of its socket: the stream is
\* an interval of the results, and while it is served it is up to date.
NoGap ==
  \A c \in Clients :
    /\ Stream(c) = [i \in 1 .. Len(Stream(c)) |-> since[c] + i]
    /\ c \in clients /\ task[c] = "running" =>
         since[c] + Len(Stream(c)) = IF c \in iterating THEN begun - 1 ELSE begun

\* A client gets every result whose broadcast had not begun when it was put into
\* the map, while its connection lasts, whatever the others do: one whose peer
\* has stopped taking messages, or whose socket has failed but who is still in
\* the map, holds up nobody.
ResultsArrive ==
  \A c \in Clients \ Slow : \A n \in 1 .. MaxResults :
    conn[c] = "reading" /\ since[c] < n /\ n <= captured ~>
      \/ n \in {delivered[c][i] : i \in DOMAIN delivered[c]}
      \/ task[c] = "failed" \/ conn[c] # "reading"

=============================================================================
