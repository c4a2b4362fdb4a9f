\* A timestamp is announced ahead of a buffer that is under way.
SPECIFICATION Spec
CONSTANTS
  main = main
  worker = worker
  Threads <- MCThreads
  Main = main
  Capacity = 2
  DataCapacity = 1
  MaxEvents = 2
INVARIANTS
  TimestampIsComplete
CHECK_DEADLOCK FALSE
