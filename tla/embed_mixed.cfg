SPECIFICATION Spec
CONSTANTS
    t1 = t1
    t2 = t2
    Threads = {t1, t2}
    Words <- MCWords
    Setups <- Outage
    CacheSize = 1
    MaxFailures = 2
    TextLimit = 4
    KeyLimit = 2
    FileLimit = 6
    FileSize = 3
    FileOverlap = 1
    MinChunk = 2
INVARIANT
    SearchesAreAnswered
CHECK_DEADLOCK FALSE
