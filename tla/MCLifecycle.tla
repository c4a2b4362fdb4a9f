---------------------------- MODULE MCLifecycle ----------------------------
(* Threads and sessions for the run of Lifecycle: a second start() follows the *)
(* first, whose gatherer has frames to ask for and may lose its connection.    *)
EXTENDS Lifecycle

CONSTANTS main, worker

MCThreads == {main, worker}
MCSessions == {1, 2}
MCMaxFrames == [s \in MCSessions |-> IF s = 1 THEN 2 ELSE 0]
MCUnreliable == {1}

\* Of a program that has ended, what the properties look at: the step that ends
\* it changes nothing else.
EndView ==
  IF Running THEN vars ELSE <<program, gatherer, lost, enabled, gather, pc, writer>>
=============================================================================
