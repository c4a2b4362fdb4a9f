----------------------------- MODULE MCTracker -----------------------------
(* The threads of the tracked program, for the runs of Tracker. *)
EXTENDS Tracker

CONSTANTS main, worker

MCThreads == {main, worker}

\* Timestamps are written and never read: the runs with liveness leave out
\* horizon and announced.
LiveView ==
  <<controlVars, writerVars, started, dead, data, registration, shutdown, gpc,
    states, index, hand, handDead, final, received, phase>>
=============================================================================
