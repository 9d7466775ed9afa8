\* A disk of any speed: the interrupt may fall between test and stores.
CONSTANTS
  NULL = NULL
  NProc = 4
  Struct <- McStruct
  Content <- McContent
  PartStart = 1
  MaxSector = 1
  MaxIO = 1
  MaxCmd = 1
  EarlyCommand = FALSE
  FastDisk = TRUE
  InfoRace = TRUE
SPECIFICATION Spec
INVARIANTS NoLostInterrupt
CHECK_DEADLOCK FALSE
