--------------------------- MODULE MCTraceFrames ---------------------------
\* Instances of TraceFrames for TLC: two threads and two instruction pointers.
EXTENDS TraceFrames, TLC

CONSTANTS t1, t2, p1, p2

MCThreads == {t1, t2}
MCIps == {p1, p2}

MCSymmetry == Permutations(MCThreads) \cup Permutations(MCIps)

=============================================================================
