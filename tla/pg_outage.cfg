SPECIFICATION Spec
CONSTANTS
  loop = loop
  worker = worker
  Threads = {loop, worker}
  Loop = loop
  FailureThreshold = 2
  SuccessThreshold = 2
  MaxRetries = 2
  Stores = {"s"}
  Docs = {"d", "e"}
  PathOf <- TwoPaths
  Alike <- Copies
  Offered = {"d"}
  Held <- FromBefore
  MaxRows = 2
INVARIANTS
  AcknowledgedStands
  BurstBounded
PROPERTIES
  Recovers
