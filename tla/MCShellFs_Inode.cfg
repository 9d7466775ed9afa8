\* An inode of the second sector of the inode table, and a restart.
CONSTANTS
  MapSects = 1
  SECTOR_BITS = 16
  InodeSects = 2
  PerSector = 2
  INODE_SIZE = 4
  DirEntries = 4
  DIR_NAME_SIZE = 6
  DOT = DOT
  DOTDOT = DOTDOT
  a = a
  b = b
  Name = {a, b}
  NameLen <- MCNameLen
  Tty = {t1}
  MaxMake = 2
  MaxCrash = 1
SPECIFICATION Spec
INVARIANTS InodesFound
CHECK_DEADLOCK FALSE
