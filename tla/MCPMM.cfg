SPECIFICATION Spec
CONSTANTS
  BlockSize = 4
  KB = 1
  WordBits = 8
  BitsPerByte = 4
  U32 = 256
  KernelBytes = 24
  BootInfos <- MCBootInfos
  RunSizes = {2, 3}
INVARIANTS
  TypeOK
  ExactMap
  Accounting
  KernelReserved
PROPERTIES
  Implements
CONSTRAINT AllFree
