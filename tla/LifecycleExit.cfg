\* main returns without stop().
SPECIFICATION Spec
CONSTANTS
  main = main
  worker = worker
  Threads <- MCThreads
  Sessions <- MCSessions
  Main = main
  NoSession = NoSession
  Nobody = Nobody
  AnswerCapacity = 1
  BatchSize = 2
  MaxFrames <- MCMaxFrames
  Unreliable <- MCUnreliable
INVARIANTS
  ExitDiscards
CHECK_DEADLOCK FALSE
