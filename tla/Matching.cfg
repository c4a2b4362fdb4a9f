\* The program may stop at any time, and so may the connection.
SPECIFICATION Spec
CONSTANTS
  t1 = t1
  t2 = t2
  a = a
  b = b
  Null = null
  Threads <- MCThreads
  Ptrs <- MCPtrs
  MaxTime = 4
INVARIANTS TypeOK Accounted NoSpuriousErrors
PROPERTIES LeaksAreFinal EventuallyReported
CHECK_DEADLOCK FALSE
