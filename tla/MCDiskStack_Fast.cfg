\* A disk of any speed; the commands come once FS serves.
CONSTANTS
  NULL = NULL
  NProc = 4
  Struct <- McStruct
  Content <- McContent
  PartStart = 1
  MaxSector = 1
  MaxIO = 1
  MaxCmd = 2
  EarlyCommand = FALSE
  FastDisk = TRUE
  InfoRace = TRUE
SPECIFICATION Spec
INVARIANTS TypeOK DriverInStep AnswersMatch ShellAnswered
CHECK_DEADLOCK FALSE
