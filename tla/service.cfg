SPECIFICATION Spec
CONSTANTS
    s1 = s1
    q1 = q1
    q2 = q2
    Stores = {s1}
    Queries = {q1, q2}
    Modes = {"keyword", "hybrid"}
    Configs <- MCConfigs
    Batches <- MCBatches
    TTL = 2
    CacheMax = 2
    MaxClock = 3
    MaxChanges = 3
    Handshake = 1
    MaxChunks = 2
INVARIANTS
  AnswersAreSound
  FramesInOrder
  BatchIsCurrent
  BatchInOrder
PROPERTIES
  SessionsEnd
CHECK_DEADLOCK FALSE
