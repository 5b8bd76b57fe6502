SPECIFICATION Spec
CONSTANTS
    t1 = t1
    t2 = t2
    Threads = {t1, t2}
    Words <- MCWords
    Setups <- MCSetups
    CacheSize = 1
    MaxFailures = 2
    TextLimit = 4
    KeyLimit = 2
    FileLimit = 6
    FileSize = 3
    FileOverlap = 1
    MinChunk = 2
INVARIANTS
  ChunksAreTheText
  BudgetHolds
  HeadingsAreAncestors
  VectorsAreTheirTexts
  CacheBounded
  AloneAllSucceeds
PROPERTIES
  SessionFallback
CHECK_DEADLOCK FALSE
