SPECIFICATION Spec
CONSTANTS
  loop = loop
  pool = pool
  v1 = v1
  v2 = v2
  None = None
  Essences = {v1, v2}
  SparkMax = 1
  TopK = 1
  Loop = loop
  Threads = {loop, pool}
  Glyphs <- Three
  Bits <- FourBits
  Etch <- OverlappingBits
  Shards <- OneShard
  ShardOf <- SharedShard
SYMMETRY EssencesAlike
INVARIANTS
  Consistent
  SparkCoherent
  AloneQueriesResolve
