SPECIFICATION VMMSpec
CONSTANTS
  BlockSize = 4
  KB = 1
  WordBits = 8
  BitsPerByte = 4
  U32 = 256
  KernelBytes = 8
  BootInfos <- MCBootInfos
  RunSizes = {2, 3}
  Dirs = 3
  Entries = 3
  DirFrame = 1
  Junk <- MCJunk
  ClientPages <- MCClientPages
INVARIANTS
  VMMTypeOK
  FramesHaveOneUse
  ReturnedIsMapped
PROPERTIES
  MappingsAreStable
