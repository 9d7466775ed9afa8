\* Blocks of three lengths on pages of four units, three pages of heap, five of memory.
CONSTANTS
  NPages = 5
  PTE_SIZE = 8
  Pgd = {7}
  HEAP_PAGE = 56
  PAGE_SIZE = 4
  HEADER = 1
  HeapPages = 3
  Request = {1, 3, 4}
  AfterStale = FALSE
SPECIFICATION Spec
INVARIANTS TypeOK ListInOrder HeapBacked NoPageLost
PROPERTY ImplementsAllocator
CHECK_DEADLOCK FALSE
