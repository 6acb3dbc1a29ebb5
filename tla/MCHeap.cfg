SPECIFICATION HeapSpec
CONSTANTS
  BlockSize = 4
  KB = 1
  WordBits = 8
  BitsPerByte = 4
  U32 = 256
  KernelBytes = 16
  BootInfos <- MCBootInfos
  RunSizes = {}
  Dirs = 2
  Entries = 5
  DirFrame = 1
  Junk <- MCJunk
  ClientPages = {}
  SlabCount = 2
  MinSize = 4
  PageSize = 8
  heapStart = 8
  OffsetRange = 24
  MaxGrow = 4
INVARIANTS
  HeapTypeOK
  FramesArePartition
  LiveIsExclusive
  StrayFreeHarmsOneHolder
  NoFrameIsForgotten
  LiveIsBacked
CONSTRAINT Near
