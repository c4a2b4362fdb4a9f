\* Two connections that come and go while results arrive.
SPECIFICATION Spec
CONSTANTS
  a = a
  b = b
  Clients <- MCClients
  Slow <- MCSlow
  MaxResults = 3
INVARIANTS
  TypeOK
  NoGap
PROPERTIES
  ResultsArrive
CHECK_DEADLOCK FALSE
