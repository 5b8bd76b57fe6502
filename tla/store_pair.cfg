SPECIFICATION Spec
CONSTANTS
  main = main
  other = other
  boot = boot
  a = a
  b = b
  link = link
  empty = empty
  short = short
  long = long
  Null = Null
  Default = main
  Bootstrap = boot
  Empty = empty
  BootstrapText = long
  Workers = {}
  Faults = {"load", "unlink"}
  Stores <- TwoStores
  Paths <- OneFile
  Contents <- FullTexts
  Aliases <- LinkedName
  Resolve <- LinkResolved
  Lower <- AsGiven
  ChunkIds <- TwoChunks
  ChunksOf <- MCChunksOf
INVARIANTS
  AtomsFollowDocs
  AtomsReachable
  FilesReachable
PROPERTIES
  ImplementsDocumentMap
