\* A disk slower than msg_recv_interrupt, fair scheduling; the command comes once FS serves.
CONSTANTS
  NULL = NULL
  NProc = 4
  Struct <- McStruct
  Content <- McContent
  PartStart = 1
  MaxSector = 1
  MaxIO = 2
  MaxCmd = 1
  EarlyCommand = FALSE
  FastDisk = FALSE
  InfoRace = FALSE
SPECIFICATION FairSpec
INVARIANTS NoLostInterrupt
PROPERTIES OnlyReceiversGetMessages FsComesUp CommandsAnswered
CHECK_DEADLOCK FALSE
