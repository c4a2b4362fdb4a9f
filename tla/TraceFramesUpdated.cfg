SPECIFICATION Spec
CONSTANTS
  t1 = t1
  t2 = t2
  p1 = p1
  p2 = p2
  Null = null
  Threads <- MCThreads
  Ips <- MCIps
  Skip = 1
  TraceMaxSize = 4
  IndexLimit = 4
  MaxStack = 5
  MaxFrames = 2
  MaxQueue = 3
SYMMETRY MCSymmetry
CHECK_DEADLOCK FALSE
INVARIANT MetOnce
