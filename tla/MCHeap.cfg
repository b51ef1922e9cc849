\* The heap from boot to exhaustion.
CONSTANTS
  Entries = 6
  PageSize = 2
  WordBits = 4
  FrameWords = 2
  MinFrames = 10
  BlockSize <- MCBlockSize
  TableEntries = 2
  BootTables = 2
  Layouts <- MCLayouts
  MemoryInputs <- MCMemoryInputs
  MaxPages = 5
  MaxLive = 3
  MaxBuffers = 1
SPECIFICATION Spec
INVARIANTS
  FramesHaveOneHolder
  BlocksPartitionHeap
PROPERTIES
  ImplementsBlockPool
CHECK_DEADLOCK FALSE
