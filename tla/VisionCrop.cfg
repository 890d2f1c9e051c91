SPECIFICATION VisionSpec
CONSTANTS
  MainSize = 8
  PatchSize = 4
  MaxSize = 12
  MinSide = 2
  VisionPatch = 1
  VisionLayers = 1
  PictureSizes <- McThin
  MaxPictures = 1
  VisionChunk = 5
INVARIANT EveryPictureAccepted
CHECK_DEADLOCK FALSE
