\* stop() may be called at any time: the safety of the data path.
SPECIFICATION Spec
CONSTANTS
  main = main
  worker = worker
  Threads <- MCThreads
  Main = main
  Capacity = 2
  DataCapacity = 1
  MaxEvents = 4
INVARIANTS
  TypeOK
  InOrder
  PipelineHoldsLog
  DestroyedIsComplete
  TimestampLag
PROPERTIES
  ImplementsLog
CHECK_DEADLOCK FALSE
