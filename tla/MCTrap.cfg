\* More tasks than slots, kills, interrupts nested in calls and in each other.
CONSTANTS
  NULL = NULL
  NProc = 3
  Struct <- McStruct
  Content <- McContent
  NTask = 6
  Name <- FullName
  Level <- FullLevel
  GDT_LENGTH = 11
  KillPids <- FullPids
  MaxKill = 3
  KillUnused = FALSE
  StartInKill = FALSE
  TickInAsk = FALSE
SPECIFICATION TrapFairSpec
INVARIANTS TrapTypeOK Mapping OwnLdt ServersKnown NestingCounted ContextKept
PROPERTIES FreeSlotsFilled ImplementsTasks
CHECK_DEADLOCK FALSE
