\* A hook that is running while stop() is called dies in an unwrap().
SPECIFICATION Spec
CONSTANTS
  main = main
  worker = worker
  Threads <- MCThreads
  Main = main
  Capacity = 2
  DataCapacity = 1
  MaxEvents = 2
INVARIANTS
  NoPanic
CHECK_DEADLOCK FALSE
