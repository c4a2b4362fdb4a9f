\* A reader that may block on its channel, a source that may run out of fuel,
\* and three windows.
SPECIFICATION Spec
CONSTANTS
  Capacity = 1
  Fuel = 2
  MaxMessages = 3
  MaxTime = 3
  RoundTo = 2
INVARIANTS
  TypeOK
  CountedOnce
  WindowsClose
PROPERTIES
  AllRead
  AllReported
CHECK_DEADLOCK FALSE
