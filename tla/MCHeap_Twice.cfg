\* Calls of kmalloc after the return of a chunk whose prev link was stale.
CONSTANTS
  NPages = 5
  PTE_SIZE = 8
  Pgd = {7}
  HEAP_PAGE = 56
  PAGE_SIZE = 4
  HEADER = 1
  HeapPages = 3
  Request = {1, 3, 4}
  AfterStale = TRUE
SPECIFICATION Spec
INVARIANTS BlocksDisjoint
CHECK_DEADLOCK FALSE
