SPECIFICATION FairSpec
CONSTANTS
  a = a
  b = b
  absent = absent
  AllFiles = {a, b}
  Absent = absent
  Setups <- PolledOrObserved
  MaxEdits = 3
INVARIANTS
  ChangesNotForgotten
PROPERTIES
  ChangesArrive
CHECK_DEADLOCK FALSE
