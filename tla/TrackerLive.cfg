\* stop() may be called at any time, and other threads go on allocating: who
\* waits does not wait for ever, what is recorded arrives, stop() flushes.
SPECIFICATION LiveSpec
CONSTANTS
  main = main
  worker = worker
  Threads <- MCThreads
  Main = main
  Capacity = 2
  DataCapacity = 1
  MaxEvents = 2
VIEW LiveView
INVARIANTS
  NoPanicWhileTracking
PROPERTIES
  FlushCompletes
  AcceptedWhileTracking
  EventuallyDelivered
  EventuallyDestroyed
  StopReturns
  StopFlushesQuiescent
CHECK_DEADLOCK FALSE
