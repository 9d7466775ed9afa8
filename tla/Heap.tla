---------------------------------- MODULE Heap ----------------------------------
(***************************************************************************)
(* The kernel heap, mm/heap.c, over the pages of module Pages: a list of   *)
(* chunks, each beginning with a header, laid end to end from HEAP_START;  *)
(* kmalloc takes the first free chunk that is long enough and splits it,   *)
(* kfree merges a chunk with its free neighbours and gives pages back when *)
(* it was the last.  The shell's command alloc takes physical pages beside *)
(* the heap and never returns them (shell/shell_mm.c).                     *)
(*                                                                         *)
(* Each call is one action: nothing calls the heap from an interrupt.  An  *)
(* address counts units of which PAGE_SIZE make a page and HEADER a header.*)
(*                                                                         *)
(* split_chunk leaves the prev link of the chunk behind the new one as it  *)
(* was.  The heap is in order until kfree is given a chunk with such a     *)
(* stale link; the history stale says that it has been.  A header that     *)
(* leaves the list is taken for zeros; only a stale link leads there, and  *)
(* then what is read is whatever the memory holds.  What callers write     *)
(* into their blocks is left out.                                          *)
(***************************************************************************)
EXTENDS Pages, FiniteSetsExt

CONSTANTS
  PAGE_SIZE,    \* units in a page (4096 bytes)
  HEADER,       \* sizeof(header_t) (12 bytes)
  HeapPages,    \* bound: pages the heap may grow to
  Request,      \* lengths asked for
  AfterStale    \* bound: is the heap followed beyond the return of a chunk whose
                \* prev link was stale?

NULL       == 0
HEAP_START == HEAP_PAGE * PAGE_SIZE
Addr       == HEAP_START .. HEAP_START + HeapPages * PAGE_SIZE - 1

ASSUME HeapAssumption ==
  /\ PAGE_SIZE \in Nat \ {0} /\ HEADER \in Nat \ {0} /\ HeapPages \in Nat \ {0}
  /\ Request \subseteq Nat \ {0} /\ HEAP_PAGE > 0 /\ AfterStale \in BOOLEAN
  /\ \A v \in HEAP_PAGE .. HEAP_PAGE + HeapPages - 1 : PGD_INDEX(v) \in Pgd

VARIABLES
  heap_first,   \* the first chunk, or NULL
  hdr,          \* [Addr -> header]  memory, read as a header
  pages,        \* the record of module Pages
  held,         \* pages alloc_pmm has handed out
  live,         \* history: blocks handed out by kmalloc, [at, len]
  stale         \* history: a chunk was returned whose prev link was stale

vars == <<heap_first, hdr, pages, held, live, stale>>

Header   == [prev : Addr \cup {NULL}, next : Addr \cup {NULL}, allocated : 0 .. 1,
             length : 0 .. HeapPages * PAGE_SIZE]
NoHeader == [prev |-> NULL, next |-> NULL, allocated |-> 0, length |-> 0]

heap_max == pages.max * PAGE_SIZE

Init ==
  /\ heap_first = NULL
  /\ hdr = [a \in Addr |-> NoHeader]
  /\ pages = [stack |-> InitPmm, max |-> HEAP_PAGE,
              pgd |-> [i \in Pgd |-> 0], pte |-> [i \in Pgd |-> ZeroTable]]
  /\ held = {} /\ live = {} /\ stale = FALSE

\* Where the module stops.
Followed == stale => AfterStale

\* The chunks in the order of their links.
List ==
  LET walk[a \in Addr \cup {NULL}] ==
        IF a = NULL THEN <<>> ELSE <<a>> \o walk[hdr[a].next]
  IN walk[heap_first]

--------------------------------------------------------------------------------
(* kmalloc                                                                 *)

\* Mutant: the part handed out is not marked when the chunk is split.
SplitUnmarked(c, len) ==
  IF hdr[c].length - len > HEADER
  THEN [hdr EXCEPT ![c + len] = [prev |-> c, next |-> hdr[c].next, allocated |-> 0,
                                 length |-> hdr[c].length - len],
                   ![c] = [prev |-> hdr[c].prev, next |-> c + len, allocated |-> 0, length |-> len]]
  ELSE [hdr EXCEPT ![c].allocated = 1]

\* split_chunk: the prev link of the chunk after the next is not changed.
SplitChunk(c, len) ==
  IF hdr[c].length - len > HEADER
  THEN [hdr EXCEPT ![c + len] = [prev |-> c, next |-> hdr[c].next, allocated |-> 0,
                                 length |-> hdr[c].length - len],
                   ![c] = [prev |-> hdr[c].prev, next |-> c + len, allocated |-> 1, length |-> len]]
  ELSE [hdr EXCEPT ![c].allocated = 1]

Fits(len) == {k \in DOMAIN List : hdr[List[k]].allocated = 0 /\ hdr[List[k]].length >= len}

\* Where a new chunk begins if no chunk of the list fits.
ChunkStart == IF List = <<>> THEN HEAP_START
              ELSE List[Len(List)] + hdr[List[Len(List)]].length

\* One page more for the heap.
AddPage(m) == [Map(PmmAllocPage(m), m.max, PmmTop(m)) EXCEPT !.max = @ + 1]

\* alloc_chunk: pages until the end of the chunk is mapped.
Missing(end) == IF end <= heap_max THEN 0 ELSE (end - heap_max + PAGE_SIZE - 1) \div PAGE_SIZE

AllocChunk(start, len) ==
  LET grown[k \in 0 .. HeapPages] == IF k = 0 THEN pages ELSE AddPage(grown[k - 1])
  IN grown[Missing(start + len)]

\* Pages that AllocChunk takes, tables included, are there.
EnoughPages(n) == n + Cardinality({i \in Pgd : pages.pgd[i] = 0}) <= Len(pages.stack)

\* The address returned lies behind the header.
HandOut(c, n) == live' = live \cup {[at |-> c + HEADER, len |-> n]}

KmallocOld(n) ==
  LET len == n + HEADER
  IN /\ Followed
     /\ Fits(len) # {}
     /\ LET c == List[Min(Fits(len))]
        IN /\ hdr' = SplitChunk(c, len)
           /\ HandOut(c, n)
     /\ UNCHANGED <<heap_first, pages, held, stale>>

KmallocNew(n) ==
  LET len  == n + HEADER
      c    == ChunkStart
      last == IF List = <<>> THEN NULL ELSE List[Len(List)]
  IN /\ Followed
     /\ Fits(len) = {}
     /\ c + len <= HEAP_START + HeapPages * PAGE_SIZE
     /\ EnoughPages(Missing(c + len))
     /\ heap_first' = IF last = NULL THEN c ELSE heap_first
     /\ pages' = AllocChunk(c, len)
     /\ LET h == [hdr EXCEPT ![c] = [prev |-> last, next |-> NULL, allocated |-> 1,
                                     length |-> len]]
        IN hdr' = IF last = NULL THEN h ELSE [h EXCEPT ![last].next = c]
     /\ HandOut(c, n)
     /\ UNCHANGED <<held, stale>>

--------------------------------------------------------------------------------
(* kfree                                                                   *)

\* Mutant: the length of the chunk absorbed is not added.
GlueNextKeepsLength(h, c) ==
  LET n == h[c].next
      g == [h EXCEPT ![c].next = h[n].next, ![n] = NoHeader]
  IN IF n = NULL \/ h[n].allocated = 1 THEN h
     ELSE IF h[n].next = NULL THEN g ELSE [g EXCEPT ![h[n].next].prev = c]

\* The header of chunk c when it has absorbed the chunk n behind it.
Joined(h, c, n) == [prev |-> h[c].prev, next |-> h[n].next, allocated |-> h[c].allocated,
                    length |-> h[c].length + h[n].length]

\* glue_chunk, first half: absorb the next chunk if it is free.
GlueNext(h, c) ==
  LET n == h[c].next
      g == [h EXCEPT ![c] = Joined(h, c, n), ![n] = NoHeader]
  IN IF n = NULL \/ h[n].allocated = 1 THEN h
     ELSE IF h[n].next = NULL THEN g ELSE [g EXCEPT ![h[n].next].prev = c]

GluesPrev(h, c) == h[c].prev # NULL /\ h[h[c].prev].allocated = 0

\* Second half: be absorbed by the previous chunk if it is free.
GluePrev(h, c) ==
  LET p == h[c].prev
      g == [h EXCEPT ![p] = Joined(h, p, c), ![c] = NoHeader]
  IN IF ~GluesPrev(h, c) THEN h
     ELSE IF h[c].next = NULL THEN g ELSE [g EXCEPT ![h[c].next].prev = p]

\* Mutant: a page is given back with the end of the previous chunk on it.
WholePagesAndPart(c) == (heap_max - c + PAGE_SIZE - 1) \div PAGE_SIZE

\* Pages of the heap from c to its end.
WholePages(c) == (heap_max - c) \div PAGE_SIZE

\* One page less.  Without a mapping the variable page is not initialised.
DropPage(m, junk) ==
  LET v == m.max - 1
      p == GetMapping(m, v)
  IN [PmmFreePage(Unmap(m, v), IF p = 0 THEN junk ELSE p) EXCEPT !.max = v]

ReleasePages(n, junk) ==
  LET left[k \in 0 .. HeapPages] == IF k = 0 THEN pages ELSE DropPage(left[k - 1], junk)
  IN left[n]

\* The prev link of chunk c is the chunk before it.
Accurate(c) == \A k \in DOMAIN List : List[k] = c => hdr[c].prev = (IF k = 1 THEN NULL ELSE List[k - 1])

\* What kfree of chunk c may find in memory: hdr, and anything at all where the
\* prev link leads to a header that has left the list (whose next link it never
\* reads).
Memories(c) ==
  LET p == hdr[c].prev
  IN IF p = NULL \/ hdr[p].length > 0 THEN {hdr}
     ELSE {[hdr EXCEPT ![p] = x] : x \in [prev : Addr \cup {NULL}, next : {NULL}, allocated : 0 .. 1,
                                          length : 0 .. HeapPages * PAGE_SIZE]}

Kfree(b) ==
  LET c == b.at - HEADER
  IN /\ Followed
     /\ \E m \in Memories(c) :
          LET h1 == GlueNext([m EXCEPT ![c].allocated = 0], c)
              h  == GluePrev(h1, c)
              g  == IF GluesPrev(h1, c) THEN h1[c].prev ELSE c
          IN IF h[g].next # NULL
             THEN /\ hdr' = h
                  /\ UNCHANGED <<heap_first, pages>>
             ELSE /\ heap_first' = IF h[g].prev = NULL THEN NULL ELSE heap_first
                  /\ hdr' = [IF h[g].prev = NULL THEN h ELSE [h EXCEPT ![h[g].prev].next = NULL]
                             EXCEPT ![g] = NoHeader]
                  /\ \E junk \in Page : pages' = ReleasePages(WholePages(g), junk)
     /\ live' = live \ {b}
     /\ stale' = (stale \/ ~Accurate(c))
     /\ UNCHANGED held

--------------------------------------------------------------------------------
\* The command alloc, for n pages: without enough of them it gets nothing.
ShellAlloc(n) ==
  LET got == IF n <= Len(pages.stack) THEN Len(pages.stack) - n + 1 .. Len(pages.stack) ELSE {}
  IN /\ pages' = AllocPmm(pages, n)
     /\ held' = held \cup {pages.stack[k] : k \in got}
     /\ Followed
     /\ UNCHANGED <<heap_first, hdr, live, stale>>

Next ==
  \/ \E n \in Request : KmallocOld(n) \/ KmallocNew(n)
  \/ \E b \in live : Kfree(b)
  \/ \E n \in 1 .. NPages : ShellAlloc(n)

Spec == Init /\ [][Next]_vars
--------------------------------------------------------------------------------
(* Properties                                                              *)

\* After the return of a chunk with a stale link a header may hold anything.
TypeOK ==
  /\ stale \in BOOLEAN
  /\ ~stale =>
       /\ heap_first \in {NULL, HEAP_START} /\ hdr \in [Addr -> Header]
       /\ pages.max \in HEAP_PAGE .. HEAP_PAGE + HeapPages
       /\ pages.pgd \in [Pgd -> Page \cup {0}]
       /\ pages.pte \in [Pgd -> [0 .. PTE_SIZE - 1 -> Page \cup {0}]]
       /\ Len(pages.stack) <= NPages /\ \A k \in DOMAIN pages.stack : pages.stack[k] \in Page
       /\ held \subseteq Page

\* heap.c:79, heap.c:133: until a chunk is returned whose prev link a split left
\* stale, the list covers the heap: the chunks lie end to end, no two free ones
\* are neighbours, the last is in use, and the chunks in use are the blocks in
\* use, each with room for it and the header.
ListInOrder ==
  ~stale =>
    /\ \A k \in DOMAIN List :
         LET c == List[k]
         IN /\ k < Len(List) => c + hdr[c].length = List[k + 1]
            /\ hdr[c].allocated = 0 => k < Len(List) /\ hdr[List[k + 1]].allocated = 1
    /\ {b.at : b \in live} = {List[k] + HEADER : k \in {j \in DOMAIN List : hdr[List[j]].allocated = 1}}
    /\ \A b \in live : b.len + HEADER <= hdr[b.at - HEADER].length

\* Until then the kernel reaches every chunk: the pages up to heap_max are mapped,
\* to physical pages that are neither free nor used for anything else.
HeapBacked ==
  LET heap   == HEAP_PAGE .. pages.max - 1
      tables == {pages.pgd[i] : i \in Pgd} \ {0}
      free   == {pages.stack[k] : k \in DOMAIN pages.stack}
  IN ~stale =>
       /\ \A v \in heap : GetMapping(pages, v) \in Page \ (held \cup tables \cup free)
       /\ \A v, w \in heap : GetMapping(pages, v) = GetMapping(pages, w) => v = w
       /\ \A k \in DOMAIN List : List[k] + hdr[List[k]].length <= heap_max

\* Until then no physical page is lost: each is free, held, a table or part of
\* the heap.
NoPageLost ==
  LET free   == {pages.stack[k] : k \in DOMAIN pages.stack}
      tables == {pages.pgd[i] : i \in Pgd}
      heap   == {GetMapping(pages, v) : v \in HEAP_PAGE .. pages.max - 1}
  IN ~stale =>
       /\ Page \subseteq free \cup held \cup tables \cup heap
       /\ Len(pages.stack) = Cardinality(free)

A == INSTANCE Allocator WITH Address <- Addr, Size <- Request

\* Until then the heap implements the abstract allocator: what kmalloc returns
\* shares no address with a block in use.
ImplementsAllocator == A!AInit /\ [][stale' \/ A!ANext]_live

\* heap.c:39 lets kmalloc choose a chunk only if it "has not been requested": no
\* address is handed out twice.  Broken once a chunk with a stale link has been
\* returned.
BlocksDisjoint ==
  \A b, d \in live : b # d => b.at + b.len <= d.at \/ d.at + d.len <= b.at
================================================================================
