----------------------------- MODULE MCMatching -----------------------------
\* Instances of Matching for TLC: two threads that share two addresses.
EXTENDS Matching

CONSTANTS t1, t2, a, b

MCThreads == {t1, t2}
MCPtrs == {a, b}

=============================================================================
