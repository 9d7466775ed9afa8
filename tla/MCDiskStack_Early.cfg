\* A command typed while FS starts up.
CONSTANTS
  NULL = NULL
  NProc = 4
  Struct <- McStruct
  Content <- McContent
  PartStart = 1
  MaxSector = 1
  MaxIO = 1
  MaxCmd = 1
  EarlyCommand = TRUE
  FastDisk = FALSE
  InfoRace = TRUE
SPECIFICATION Spec
PROPERTIES OnlyReceiversGetMessages
CHECK_DEADLOCK FALSE
