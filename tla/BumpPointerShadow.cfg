CONSTANTS
  NumHeaps = 4
  BagSetSize = 2
  NumThreads = 2
  NumBags = 8
  MinBlockSize = 1
  LargeThreshold = 8
  BagSizes = {8, 16, 32}
  PageSize = 4
  InfoSize = 1
  HeapsUsed = 4
SPECIFICATION Spec
CHECK_DEADLOCK FALSE
INVARIANTS
  ShadowWordMapped
