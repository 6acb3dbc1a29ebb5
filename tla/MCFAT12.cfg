SPECIFICATION FATSpec
CONSTANTS
  SECTOR_SIZE = 11
  FATSize = 2
  RootSectors = 2
  SlotsPerSector = 2
  Names = {"x", "y"}
  MaxChunks = 3
  Disks <- MCDisks
INVARIANTS
  FATTypeOK
  CompleteFilesStay
  ReadsWhatWasWritten
  NothingLeaks
PROPERTIES
  ReadingEnds
CONSTRAINT Unspilled
CHECK_DEADLOCK FALSE
