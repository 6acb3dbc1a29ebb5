SPECIFICATION Spec
CONSTANTS
  BlockSize = 4
  KB = 1
  WordBits = 8
  BitsPerByte = 4
  U32 = 256
  KernelBytes = 24
  BootInfos <- SmallBootInfos
  RunSizes = {2, 3}
INVARIANTS
  RunsAreFree
