SPECIFICATION Spec
CONSTANTS
  main = main
  other = other
  boot = boot
  a = a
  b = b
  link = link
  empty = empty
  short = short
  long = long
  Null = Null
  Default = main
  Bootstrap = boot
  Empty = empty
  BootstrapText = long
  Workers = {w1}
  Faults = {"load"}
  Stores <- OneStore
  Paths <- TwoFiles
  Contents <- FullTexts
  Aliases <- SameName
  Resolve <- AsGiven
  Lower <- AsGiven
  ChunkIds <- TwoChunks
  ChunksOf <- MCChunksOf
SYMMETRY FilesAlike
INVARIANTS
  TypeOK
  DocUrisUnique
  CleanIndexIsCurrent
