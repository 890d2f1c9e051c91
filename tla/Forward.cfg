SPECIFICATION McSpec
VIEW McView
CONSTANTS
  Shape <- McShape
  KvHeads = 2
  DenseFf = 2
  Window = 1
  Ctx = 4
  Chunk = 2
  SlidingCap = 3
  Threads = 4
  WarpSize = 2
  Kernels = {"argmax", "partials", "normrope", "split"}
  Elements = 4
  Values = {0, 1, 2}
  NegInf <- McNegInf
  MaxSplits = 2
  Vocab = 4
  Logits = {0, 3, 4}
  TopKs = {0, 2, 3}
  TopPs = {0, 2, 3}
  MinPs = {0, 2}
  Falloff <- McFalloff
  Scale = 4
  Draws = 8
  NumExperts = 3
  TopK = 2
  TileM = 2
  Offsets <- McOffsets
  TokenCounts = {1, 3}
  ScoreVectors <- McScores
  MainSize = 8
  PatchSize = 4
  MaxSize = 12
  MinSide = 2
  VisionPatch = 1
  VisionLayers = 2
  PictureSizes <- McPictures
  MaxPictures = 2
  VisionChunk = 5
INVARIANTS
  ForwardAsOnCpu
  BlockAsOnCpu
  SampledAsWeighed
  RoutedAsOnCpu
  ImatrixExact
  PicturesReachTheirPatches
CHECK_DEADLOCK FALSE
