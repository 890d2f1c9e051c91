SPECIFICATION McSpec
VIEW McView
SYMMETRY McSymmetry
CONSTANTS
  Tokens <- McTokens
  Patch = Patch
  Images <- McImages
  NoImage = NoImage
  Dawn = Dawn
  Dusk = Dusk
  Prompts <- McPrompts
  Replies <- McReplies
  Window = 2
  Align = 1
  SlidingMax = 4
  SplitMin = 2
  SplitChunk = 2
  ResumeMin = 2
  Chunks = {1, 2}
  Contexts = {3, 5}
  Backends = {"cpu", "cuda"}
  MayFail = TRUE
  Spans <- McSpans
  Ops <- McOps
  CacheLimit = 5
  ArenaChunk = 4
  ArenaAlign = 2
  Stages = 2
  Page = 2
  MayEvict = TRUE
  MayExpand = TRUE
  MaxKernels = 2
  MaxFaults = 1
INVARIANTS
  RowsFollowTokens
  SyncServesPrompt
  PayloadComplete
  KernelsReadWeights
  CachedIsComplete
CHECK_DEADLOCK FALSE
