--------------------------------- MODULE Pages ---------------------------------
(***************************************************************************)
(* Physical pages (mm/pmm.c) and the page tables of the kernel (mm/vmm.c). *)
(* The operators compute on a record m with the fields                     *)
(*   stack  the free pages, pmm_stack[1] .. pmm_stack[pmm_stack_top]       *)
(*   pgd    [Pgd -> Page \cup {0}]  the page tables of pgd_kern            *)
(*   pte    [Pgd -> [0 .. PTE_SIZE - 1 -> Page \cup {0}]]  their entries   *)
(*   max    heap_max of mm/heap.c, in pages                                *)
(*                                                                         *)
(* Addresses are numbers of pages here; the flags of an entry are left     *)
(* out.  pgd holds the tables above the 128 that init_vmm fills in, which  *)
(* nothing changes later.                                                  *)
(***************************************************************************)
EXTENDS Integers, Sequences

CONSTANTS
  NPages,     \* physical pages that init_pmm finds
  PTE_SIZE,   \* entries of a page table (1024)
  Pgd,        \* entries of pgd_kern for the heap (896 and up)
  HEAP_PAGE   \* page of HEAP_START: the first of the table at 896

Page == 1 .. NPages

ASSUME PagesAssumption ==
  /\ NPages \in Nat \ {0} /\ PTE_SIZE \in Nat \ {0}
  /\ Pgd \subseteq 0 .. PTE_SIZE - 1
  /\ HEAP_PAGE \in Nat /\ HEAP_PAGE \div PTE_SIZE \in Pgd /\ HEAP_PAGE % PTE_SIZE = 0

PGD_INDEX(v) == v \div PTE_SIZE
PTE_INDEX(v) == v % PTE_SIZE

--------------------------------------------------------------------------------
(* pmm.c                                                                   *)

\* Mutant: the page behind the end is taken for free memory, too.
InitPmmOneMore == [k \in 1 .. NPages + 1 |-> k]

\* init_pmm frees the pages in ascending order.
InitPmm == [k \in Page |-> k]

\* pmm_alloc_page has no test for an empty stack; callers must not get there.
PmmTop(m)       == m.stack[Len(m.stack)]
PmmAllocPage(m) == [m EXCEPT !.stack = SubSeq(@, 1, Len(@) - 1)]
PmmFreePage(m, p) == [m EXCEPT !.stack = Append(@, p)]

\* Mutant: what was taken before the memory ran out is not given back.
AllocPmmNoRollback(m, n) ==
  [m EXCEPT !.stack = SubSeq(@, 1, IF n <= Len(@) THEN Len(@) - n ELSE 0)]

\* alloc_pmm, for a size of n pages: all of them or none.
AllocPmm(m, n) ==
  IF n <= Len(m.stack) THEN [m EXCEPT !.stack = SubSeq(@, 1, Len(@) - n)] ELSE m

--------------------------------------------------------------------------------
(* vmm.c                                                                   *)

ZeroTable == [k \in 0 .. PTE_SIZE - 1 |-> 0]

\* map allocates a page for a missing table, after the caller has allocated
\* the page it maps.
Map(m, v, p) ==
  LET i == PGD_INDEX(v)
      t == IF m.pgd[i] # 0 THEN m
           ELSE [PmmAllocPage(m) EXCEPT !.pgd[i] = PmmTop(m), !.pte[i] = ZeroTable]
  IN [t EXCEPT !.pte[i][PTE_INDEX(v)] = p]

\* unmap computes the index of the entry with PGD_INDEX.
Unmap(m, v) ==
  IF m.pgd[PGD_INDEX(v)] = 0 THEN m
  ELSE [m EXCEPT !.pte[PGD_INDEX(v)][PGD_INDEX(v)] = 0]

\* get_mapping, 0 if there is none.
GetMapping(m, v) == IF m.pgd[PGD_INDEX(v)] = 0 THEN 0 ELSE m.pte[PGD_INDEX(v)][PTE_INDEX(v)]
================================================================================
