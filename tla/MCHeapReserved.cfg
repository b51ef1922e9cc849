\* The kernel's frames under every map, the swallowed region included.
CONSTANTS
  Entries = 6
  PageSize = 2
  WordBits = 4
  FrameWords = 2
  MinFrames = 10
  BlockSize <- MCBlockSize
  TableEntries = 2
  BootTables = 2
  Layouts <- MCLayouts
  MemoryInputs <- MCMemoryInputs
  MaxPages = 3
  MaxLive = 1
  MaxBuffers = 1
SPECIFICATION Spec
INVARIANTS
  FramesAvoidReserved
CHECK_DEADLOCK FALSE
