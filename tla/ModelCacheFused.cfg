CONSTANTS
  Spans <- McSpans
  Ops <- McFusedOps
  CacheLimit = 5
  ArenaChunk = 4
  ArenaAlign = 2
  Stages = 2
  Page = 2
  MayEvict = TRUE
  MayExpand = TRUE
  MaxKernels = 2
  MaxFaults = 0
SPECIFICATION Spec
INVARIANTS
  OperationsReadWeights
