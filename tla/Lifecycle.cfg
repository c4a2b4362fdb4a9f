\* Handles cloned and dropped while the program starts, stops and exits.
SPECIFICATION Spec
CONSTANTS
  main = main
  worker = worker
  Threads <- MCThreads
  Sessions <- MCSessions
  Main = main
  NoSession = NoSession
  Nobody = Nobody
  AnswerCapacity = 1
  BatchSize = 2
  MaxFrames <- MCMaxFrames
  Unreliable <- MCUnreliable
INVARIANTS
  TypeOK
  DetailsArrive
  ResolverServes
VIEW EndView
CHECK_DEADLOCK FALSE

PROPERTIES
  ShutdownEnds
  LastOutFlushes
  StopReturns
