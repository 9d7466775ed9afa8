\* Two terminals, two power failures; directories of two sectors of two entries; two
\* steps down, a path may fill dir_name, or run over it.
CONSTANTS
  MapSects = 1
  SECTOR_BITS = 16
  InodeSects = 1
  PerSector = 5
  INODE_SIZE = 10
  DirEntries = 2
  DIR_NAME_SIZE = 6
  DOT = DOT
  DOTDOT = DOTDOT
  a = a
  b = b
  Name = {a, b}
  NameLen <- MCNameLen
  Tty = {t1, t2}
  MaxMake = 2
  MaxCrash = 2
SYMMETRY MCTtys
SPECIFICATION Spec
INVARIANTS TypeOK SectorsOwned InodesKept AnswersKept UniqueNames PathLeadsToCwd
CHECK_DEADLOCK FALSE
