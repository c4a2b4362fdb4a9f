\* A registration that is pending while the gatherer stops is never accepted.
SPECIFICATION FairSpec
CONSTANTS
  main = main
  worker = worker
  Threads <- MCThreads
  Main = main
  Capacity = 2
  DataCapacity = 1
  MaxEvents = 2
PROPERTIES
  RegistrationAccepted
CHECK_DEADLOCK FALSE
