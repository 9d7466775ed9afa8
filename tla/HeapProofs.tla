------------------------------ MODULE HeapProofs ------------------------------
(***************************************************************************)
(* What holds of Heap for memories, pages and requests of any size.        *)
(***************************************************************************)
EXTENDS Heap, NaturalsInduction, WellFoundedInduction, FiniteSetTheorems, FunctionTheorems, TLAPS

--------------------------------------------------------------------------------
(* Hypotheses and invariant                                                *)

\* The heap never grows to the page whose entry unmap clears instead of its own.
ShortHeap == \A v \in HEAP_PAGE .. HEAP_PAGE + HeapPages - 1 : PTE_INDEX(v) # PGD_INDEX(v)

\* The chunks in a memory h, and where they end.
ChunksOf(h) == {a \in Addr : h[a].length > 0}
EndIn(h, a) == a + h[a].length

\* The chunks lie end to end in the order of their links, and elsewhere is nothing.
Links(h) ==
  /\ \A a \in Addr \ ChunksOf(h) : h[a] = NoHeader
  /\ \A a \in ChunksOf(h) : h[a].next # NULL => h[a].next = EndIn(h, a) /\ h[a].next \in ChunksOf(h)
  /\ \A a, b \in ChunksOf(h) : a < b => EndIn(h, a) <= b /\ h[a].next # NULL

\* The prev link of a chunk leads to the chunk before it.
BackIn(h, a) ==
  IF a = HEAP_START THEN h[a].prev = NULL
  ELSE h[a].prev \in ChunksOf(h) /\ h[h[a].prev].next = a

\* A free chunk is not the last, its prev link is right, and the next is in use or c.
FreeBut(h, c) ==
  \A a \in ChunksOf(h) \ {c} : h[a].allocated = 0 =>
    /\ BackIn(h, a)
    /\ h[a].next # NULL /\ (h[a].next = c \/ h[h[a].next].allocated = 1)

Below(h, top) == \A a \in ChunksOf(h) : EndIn(h, a) <= top

Chunk == ChunksOf(hdr)

ChunkInv ==
  /\ Links(hdr) /\ FreeBut(hdr, NULL) /\ Below(hdr, heap_max)
  /\ heap_first = IF Chunk = {} THEN NULL ELSE HEAP_START
  /\ Chunk # {} => HEAP_START \in Chunk

\* The blocks l in use are the chunks in use in a memory h.
LiveIn(h, l) ==
  /\ \A b \in l : /\ b \in [at : Nat, len : Request]
                  /\ b.at - HEADER \in ChunksOf(h) /\ h[b.at - HEADER].allocated = 1
                  /\ b.len + HEADER <= h[b.at - HEADER].length
  /\ \A a \in ChunksOf(h) : h[a].allocated = 1 => \E b \in l : b.at = a + HEADER
  /\ \A b, d \in l : b.at = d.at => b = d

LiveInv == LiveIn(hdr, live)

\* The members of a sequence, and that it has none twice.
Elems(s) == {s[k] : k \in DOMAIN s}
Once(s)  == \A j, k \in DOMAIN s : s[j] = s[k] => j = k

Free(m)   == Elems(m.stack)
Tables(m) == {m.pgd[i] : i \in Pgd} \ {0}
HeapOf(m) == HEAP_PAGE .. m.max - 1

\* A page is free, held, a table or part of the heap, and only one of these.
PagesOK(m, h) ==
  /\ m = [stack |-> m.stack, max |-> m.max, pgd |-> m.pgd, pte |-> m.pte]
  /\ m.stack \in Seq(Page) /\ m.max \in HEAP_PAGE .. HEAP_PAGE + HeapPages
  /\ m.pgd \in [Pgd -> Page \cup {0}] /\ m.pte \in [Pgd -> [0 .. PTE_SIZE - 1 -> Page \cup {0}]]
  /\ Once(m.stack)
  /\ h \cap Free(m) = {} /\ h \cap Tables(m) = {} /\ Free(m) \cap Tables(m) = {}
  /\ \A v \in HeapOf(m) : GetMapping(m, v) \in Page \ (h \cup Tables(m) \cup Free(m))
  /\ \A v, w \in HeapOf(m) : GetMapping(m, v) = GetMapping(m, w) => v = w
  /\ Page \subseteq Free(m) \cup h \cup Tables(m) \cup {GetMapping(m, v) : v \in HeapOf(m)}
  /\ h \subseteq Page

HInv == hdr \in [Addr -> Header] /\ ChunkInv /\ LiveInv /\ PagesOK(pages, held)

--------------------------------------------------------------------------------
(* Arithmetic                                                              *)

Limit == HEAP_START + HeapPages * PAGE_SIZE

LEMMA Space ==
  /\ PAGE_SIZE \in Nat \ {0} /\ HEADER \in Nat \ {0} /\ HeapPages \in Nat \ {0} /\ HEAP_PAGE \in Nat \ {0}
  /\ HEAP_START \in Nat \ {0} /\ Limit \in Nat /\ HEAP_START < Limit /\ Addr = HEAP_START .. Limit - 1
  /\ NULL \notin Addr /\ Addr \subseteq Nat
<1>1. /\ PAGE_SIZE \in Nat \ {0} /\ HEADER \in Nat \ {0} /\ HeapPages \in Nat \ {0} /\ HEAP_PAGE \in Nat \ {0}
  BY HeapAssumption, PagesAssumption
<1>2. HEAP_PAGE * PAGE_SIZE \in Nat \ {0} /\ HeapPages * PAGE_SIZE \in Nat \ {0}
  BY <1>1
<1>3. HEAP_START \in Nat \ {0}
  BY <1>2 DEF HEAP_START
<1>4. HeapPages * PAGE_SIZE > 0
  BY <1>2
<1> QED BY <1>1, <1>2, <1>3, <1>4 DEF Limit, Addr, NULL

\* Whole pages and what is left.
LEMMA Division ==
  ASSUME NEW n \in Nat
  PROVE  /\ n \div PAGE_SIZE \in Nat /\ (n \div PAGE_SIZE) * PAGE_SIZE \in Nat
         /\ (n \div PAGE_SIZE) * PAGE_SIZE <= n /\ n < (n \div PAGE_SIZE) * PAGE_SIZE + PAGE_SIZE
<1>1. PAGE_SIZE \in Nat \ {0}
  BY Space
<1> QED BY <1>1

LEMMA Times ==
  ASSUME NEW i \in Int, NEW j \in Int
  PROVE  /\ i * PAGE_SIZE \in Int /\ (i + j) * PAGE_SIZE = i * PAGE_SIZE + j * PAGE_SIZE
         /\ (i - j) * PAGE_SIZE = i * PAGE_SIZE - j * PAGE_SIZE
         /\ i <= j => i * PAGE_SIZE <= j * PAGE_SIZE
         /\ i * PAGE_SIZE < j * PAGE_SIZE + PAGE_SIZE => i <= j
<1>1. PAGE_SIZE \in Nat \ {0}
  BY Space
<1>2. /\ i * PAGE_SIZE \in Int /\ (i + j) * PAGE_SIZE = i * PAGE_SIZE + j * PAGE_SIZE
      /\ (i - j) * PAGE_SIZE = i * PAGE_SIZE - j * PAGE_SIZE
  BY <1>1
<1>3. i <= j => i * PAGE_SIZE <= j * PAGE_SIZE
  BY <1>1
<1>4. i * PAGE_SIZE < j * PAGE_SIZE + PAGE_SIZE => i <= j
  BY <1>1
<1> QED BY <1>2, <1>3, <1>4

--------------------------------------------------------------------------------
(* The list: what the walk along the links finds                           *)

\* Every number can be reached from zero.
LEMMA Induction == ASSUME NEW S, 0 \in S, \A n \in Nat : n \in S => n + 1 \in S PROVE Nat \subseteq S
<1> SUFFICES ASSUME NEW m \in Nat, m \notin S PROVE FALSE
  OBVIOUS
<1> DEFINE Bad == {k \in Nat : k \notin S}
           R   == {ss \in Nat \X Nat : ss[1] < ss[2]}
<1>1. IsWellFoundedOn(R, Nat)
  BY NatLessThanWellFounded, Zenon DEF OpToRel
<1>2. PICK k \in Bad : \A j \in Bad : <<j, k>> \notin R
  <2>1. Bad \subseteq Nat /\ Bad # {}
    OBVIOUS
  <2> HIDE DEF R, Bad
  <2> QED BY <1>1, <2>1, WFMin
<1>3. k \in Nat /\ k \notin S /\ \A j \in Nat : j < k => j \in S
  BY <1>2
<1> QED BY <1>3, k = 0 \/ k - 1 \in Nat

\* What the walk of List solves, for a memory h.
Walk(f, h) == [a \in Addr \cup {NULL} |-> IF a = NULL THEN <<>> ELSE <<a>> \o f[h[a].next]]

\* Links lead to higher addresses, so that the walk ends.
Upwards(h) == \A a \in Addr : h[a].next # NULL => h[a].next \in Addr /\ a < h[a].next

LEMMA WalkExists == ASSUME NEW h, Upwards(h) PROVE \E f : f = Walk(f, h)
<1> DEFINE From(n) == {a \in Addr : Limit - n <= a} \cup {NULL}
           Solves(f, n) == \A a \in From(n) : f[a] = IF a = NULL THEN <<>> ELSE <<a>> \o f[h[a].next]
           S == {n \in Nat : \E f : Solves(f, n)}
<1>1. 0 \in S
  <2> DEFINE f == [a \in {NULL} |-> <<>>]
  <2>1. From(0) = {NULL}
    BY Space
  <2>2. f[NULL] = <<>>
    OBVIOUS
  <2>3. Solves(f, 0)
    <3> HIDE DEF f
    <3> QED BY <2>1, <2>2
  <2> HIDE DEF Solves
  <2> QED BY <2>3
<1>2. ASSUME NEW n \in Nat, n \in S PROVE n + 1 \in S
  <2>1. PICK f : Solves(f, n)
    BY <1>2
  <2> DEFINE b == Limit - (n + 1)
             g == [a \in Addr \cup {NULL} |-> IF a = b /\ a # NULL THEN <<a>> \o f[h[a].next] ELSE f[a]]
  <2>2. ASSUME NEW a \in From(n + 1) PROVE g[a] = IF a = NULL THEN <<>> ELSE <<a>> \o g[h[a].next]
    <3>1. CASE a = NULL
      <4>1. NULL \in From(n) /\ g[NULL] = f[NULL]
        OBVIOUS
      <4>2. f[NULL] = <<>>
        BY <2>1, <4>1
      <4> QED BY <3>1, <4>1, <4>2
    <3>2. CASE a # NULL
      <4>1. a \in Addr /\ a \in Nat /\ b <= a /\ (a # b => a \in From(n))
        BY <3>2, Space
      <4>2. h[a].next \in From(n) /\ h[a].next \in Addr \cup {NULL} /\ (h[a].next = b => h[a].next = NULL)
        BY <4>1, Space DEF Upwards
      <4>3. g[h[a].next] = f[h[a].next]
        <5> HIDE DEF b, From
        <5> QED BY <4>2
      <4>4. g[a] = <<a>> \o f[h[a].next]
        <5>1. CASE a = b
          BY <3>2, <4>1, <5>1
        <5>2. CASE a # b
          <6>1. f[a] = <<a>> \o f[h[a].next]
            BY <2>1, <3>2, <4>1, <5>2
          <6> QED BY <4>1, <5>2, <6>1
        <5> QED BY <5>1, <5>2
      <4> HIDE DEF g
      <4> QED BY <3>2, <4>3, <4>4
    <3> QED BY <3>1, <3>2
  <2>3. Solves(g, n + 1)
    <3> HIDE DEF g, From
    <3> QED BY <2>2
  <2> HIDE DEF Solves, g
  <2> QED BY <2>3
<1>3. Nat \subseteq S
  <2> HIDE DEF S
  <2> QED BY <1>1, <1>2, Induction
<1>4. PICK f : Solves(f, Limit)
  <2>1. Limit \in S
    BY <1>3, Space
  <2> HIDE DEF Solves
  <2> QED BY <2>1
<1>5. From(Limit) = Addr \cup {NULL}
  BY Space
<1> DEFINE g == [a \in Addr \cup {NULL} |-> f[a]]
<1>6. ASSUME NEW a \in Addr \cup {NULL} PROVE g[a] = IF a = NULL THEN <<>> ELSE <<a>> \o g[h[a].next]
  <2>1. a # NULL => h[a].next \in Addr \cup {NULL}
    BY DEF Upwards
  <2>2. f[a] = IF a = NULL THEN <<>> ELSE <<a>> \o f[h[a].next]
    BY <1>4, <1>5
  <2>3. g[a] = f[a] /\ (a # NULL => g[h[a].next] = f[h[a].next])
    BY <2>1
  <2> HIDE DEF g
  <2> QED BY <2>2, <2>3
<1>7. g = [a \in Addr \cup {NULL} |-> g[a]]
  OBVIOUS
<1>8. g = Walk(g, h)
  <2> HIDE DEF g
  <2> QED BY <1>6, <1>7 DEF Walk
<1> QED BY <1>8

\* A sequence s of all chunks from a on, each with its link to the next.
Chain(s, h, a) ==
  /\ s \in Seq(ChunksOf(h)) /\ Len(s) > 0 /\ s[1] = a
  /\ \A k \in 1 .. Len(s) - 1 : h[s[k]].next = s[k + 1]
  /\ h[s[Len(s)]].next = NULL
  /\ \A b \in ChunksOf(h) : a <= b => \E k \in 1 .. Len(s) : s[k] = b

LEMMA ChainLast ==
  ASSUME NEW h, Links(h), NEW a \in ChunksOf(h), h[a].next = NULL
  PROVE  Chain(<<a>>, h, a)
<1>1. <<a>> \in Seq(ChunksOf(h)) /\ Len(<<a>>) = 1 /\ <<a>>[1] = a
  OBVIOUS
<1>2. \A b \in ChunksOf(h) : a <= b => b = a
  BY Space DEF Links, ChunksOf
<1> QED BY <1>1, <1>2 DEF Chain

LEMMA ChainOneMore ==
  ASSUME NEW h, h \in [Addr -> Header], Links(h), NEW a \in ChunksOf(h), h[a].next # NULL, NEW s, Chain(s, h, h[a].next)
  PROVE  Chain(<<a>> \o s, h, a)
<1> DEFINE t == <<a>> \o s
           C == ChunksOf(h)
           n == Len(s)
<1>1. s \in Seq(C) /\ n \in Nat \ {0} /\ s[1] = h[a].next /\ a \in C
  BY DEF Chain
<1>2. t \in Seq(C) /\ Len(t) = n + 1 /\ t[1] = a /\ \A k \in 1 .. n : t[k + 1] = s[k]
  <2> HIDE DEF C
  <2> QED BY <1>1
<1>3. ASSUME NEW k \in 1 .. n PROVE h[t[k]].next = t[k + 1]
  <2>1. CASE k = 1
    BY <1>1, <1>2, <2>1
  <2>2. CASE k # 1
    <3>1. k - 1 \in 1 .. n - 1 /\ (k - 1) + 1 = k
      BY <2>2
    <3>2. h[s[k - 1]].next = s[(k - 1) + 1]
      BY <3>1 DEF Chain
    <3>3. t[(k - 1) + 1] = s[k - 1] /\ t[k + 1] = s[k]
      BY <1>1, <1>2, <3>1
    <3> QED BY <3>1, <3>2, <3>3
  <2> QED BY <2>1, <2>2
<1>4. h[t[n + 1]].next = NULL
  <2>1. t[n + 1] = s[n]
    BY <1>1, <1>2
  <2> QED BY <2>1 DEF Chain
<1>5. ASSUME NEW b \in C, a <= b PROVE \E k \in 1 .. n + 1 : t[k] = b
  <2>1. CASE a = b
    BY <1>1, <1>2, <2>1
  <2>2. CASE a # b
    <3>1. h[a].next <= b
      <4>1. a < b
        BY <1>5, <2>2, Space DEF ChunksOf
      <4> QED BY <4>1 DEF Links
    <3>2. PICK k \in 1 .. n : s[k] = b
      BY <3>1 DEF Chain
    <3>3. k + 1 \in 1 .. n + 1 /\ t[k + 1] = b
      BY <1>1, <1>2, <3>2
    <3> HIDE DEF t
    <3> QED BY <3>3
  <2> QED BY <2>1, <2>2
<1> HIDE DEF t
<1>6. (n + 1) - 1 = n
  BY <1>1
<1> QED BY <1>1, <1>2, <1>3, <1>4, <1>5, <1>6 DEF Chain

LEMMA WalkIsChain ==
  ASSUME NEW h, h \in [Addr -> Header], Links(h), NEW f, f = Walk(f, h), NEW c \in ChunksOf(h)
  PROVE  Chain(f[c], h, c)
<1> DEFINE S == {n \in Nat : \A a \in ChunksOf(h) : Limit - n <= a => Chain(f[a], h, a)}
<1>1. /\ f[NULL] = <<>>
      /\ \A a \in Addr : f[a] = <<a>> \o f[h[a].next]
  <2>1. ASSUME NEW a \in Addr \cup {NULL} PROVE f[a] = IF a = NULL THEN <<>> ELSE <<a>> \o f[h[a].next]
    <3>1. Walk(f, h)[a] = IF a = NULL THEN <<>> ELSE <<a>> \o f[h[a].next]
      BY Zenon DEF Walk
    <3>2. f[a] = Walk(f, h)[a]
      BY Zenon
    <3> QED BY <3>1, <3>2, Zenon
  <2> QED BY <2>1, Space
<1>2. ChunksOf(h) \subseteq Addr
  BY DEF ChunksOf
<1>3. 0 \in S
  BY <1>2, Space
<1>4. ASSUME NEW n \in Nat, n \in S PROVE n + 1 \in S
  <2>1. ASSUME NEW a \in ChunksOf(h), Limit - (n + 1) <= a PROVE Chain(f[a], h, a)
    <3>1. CASE h[a].next = NULL
      <4>1. f[a] = <<a>>
        <5>1. f[a] = <<a>> \o <<>>
          BY <1>1, <1>2, <3>1
        <5>2. <<a>> \o <<>> = <<a>>
          OBVIOUS
        <5> QED BY <5>1, <5>2
      <4> QED BY <3>1, <4>1, ChainLast
    <3>2. CASE h[a].next # NULL
      <4>1. h[a].next \in ChunksOf(h) /\ a < h[a].next /\ h[a].next = a + h[a].length /\ h[a].length > 0
        BY <3>2, Space DEF Links, ChunksOf, EndIn, Header
      <4>2. a \in Nat /\ h[a].next \in Nat
        BY <1>2, <4>1, Space
      <4>3. Limit - n <= h[a].next
        BY <2>1, <4>1, <4>2, Space
      <4>4. Chain(f[h[a].next], h, h[a].next)
        BY <1>4, <4>1, <4>3
      <4>5. f[a] = <<a>> \o f[h[a].next]
        BY <1>1, <1>2
      <4> QED BY <3>2, <4>4, <4>5, ChainOneMore
    <3> QED BY <3>1, <3>2
  <2> QED BY <2>1
<1>5. Nat \subseteq S
  <2> HIDE DEF S
  <2> QED BY <1>3, <1>4, Induction
<1>6. Limit \in S /\ Limit - Limit <= c
  BY <1>2, <1>5, Space
<1> QED BY <1>6

\* The list begins at the start of the heap and holds all chunks.
LEMMA ListIsChain ==
  ASSUME hdr \in [Addr -> Header], ChunkInv
  PROVE  IF Chunk = {} THEN List = <<>> ELSE Chain(List, hdr, HEAP_START)
<1>1. Upwards(hdr)
  <2>1. ASSUME NEW a \in Addr, hdr[a].next # NULL PROVE hdr[a].next \in Addr /\ a < hdr[a].next
    <3>1. a \in Chunk
      BY <2>1 DEF ChunkInv, Links, NoHeader, Chunk
    <3>2. hdr[a].next = a + hdr[a].length /\ hdr[a].length > 0 /\ hdr[a].next \in Addr
      BY <2>1, <3>1 DEF ChunkInv, Links, Chunk, ChunksOf, EndIn
    <3> QED BY <3>2, Space DEF Header
  <2> QED BY <2>1 DEF Upwards
<1> DEFINE f == CHOOSE g : g = Walk(g, hdr)
<1>2. f = Walk(f, hdr)
  <2>1. \E g : g = Walk(g, hdr)
    BY <1>1, WalkExists
  <2> QED BY <2>1, Zenon
<1>3. List = f[heap_first]
  BY DEF List, Walk
<1>4. CASE Chunk = {}
  <2>1. heap_first = NULL
    BY <1>4 DEF ChunkInv
  <2>2. Walk(f, hdr)[NULL] = <<>>
    BY Zenon DEF Walk
  <2>3. f[NULL] = Walk(f, hdr)[NULL]
    BY <1>2, Zenon
  <2> QED BY <1>3, <1>4, <2>1, <2>2, <2>3
<1>5. CASE Chunk # {}
  <2>1. heap_first = HEAP_START /\ HEAP_START \in ChunksOf(hdr) /\ Links(hdr)
    BY <1>5 DEF ChunkInv, Chunk
  <2> HIDE DEF f
  <2> QED BY <1>2, <1>3, <1>5, <2>1, WalkIsChain
<1> QED BY <1>4, <1>5

LEMMA MinInSet == ASSUME NEW S \in SUBSET Nat, S # {} PROVE Min(S) \in S
<1> DEFINE R == {ss \in Nat \X Nat : ss[1] < ss[2]}
<1>1. IsWellFoundedOn(R, Nat)
  BY NatLessThanWellFounded, Zenon DEF OpToRel
<1>2. PICK k \in S : \A j \in S : <<j, k>> \notin R
  <2> HIDE DEF R
  <2> QED BY <1>1, WFMin
<1>3. ASSUME NEW j \in S PROVE k <= j
  <2>1. j \in Nat /\ k \in Nat
    OBVIOUS
  <2>2. ~(j < k)
    <3> SUFFICES ASSUME j < k PROVE <<j, k>> \in R
      BY <1>2
    <3> QED BY <2>1
  <2> QED BY <2>1, <2>2
<1> QED BY <1>3 DEF Min

LEMMA HeaderType ==
  ASSUME NEW h, h \in [Addr -> Header], NEW a \in Addr
  PROVE  /\ h[a].prev \in Addr \cup {NULL} /\ h[a].next \in Addr \cup {NULL} /\ h[a].allocated \in {0, 1}
         /\ h[a].length \in Nat /\ h[a].length <= Limit - HEAP_START /\ a \in Nat /\ HEAP_START <= a /\ a < Limit
         /\ EndIn(h, a) \in Nat /\ Limit \in Nat /\ HEAP_START \in Nat /\ a # NULL
<1>1. h[a] \in Header
  OBVIOUS
<1>2. HeapPages * PAGE_SIZE \in Nat /\ Limit - HEAP_START = HeapPages * PAGE_SIZE
  BY Space DEF Limit
<1>3. h[a].length \in 0 .. HeapPages * PAGE_SIZE /\ h[a].allocated \in 0 .. 1
  BY <1>1 DEF Header
<1>4. h[a].prev \in Addr \cup {NULL} /\ h[a].next \in Addr \cup {NULL}
  BY <1>1 DEF Header
<1> QED BY <1>2, <1>3, <1>4, Space DEF EndIn

\* A header is what it should be.
LEMMA MakeHeader ==
  ASSUME NEW p \in Addr \cup {NULL}, NEW n \in Addr \cup {NULL}, NEW i \in {0, 1}, NEW l \in Nat, l <= Limit - HEAP_START
  PROVE  [prev |-> p, next |-> n, allocated |-> i, length |-> l] \in Header
<1>1. HeapPages * PAGE_SIZE \in Nat /\ Limit - HEAP_START = HeapPages * PAGE_SIZE
  BY Space DEF Limit
<1>2. l \in 0 .. HeapPages * PAGE_SIZE
  BY <1>1
<1> QED BY <1>2 DEF Header

\* The changes of a header, field by field.
LEMMA Fields ==
  ASSUME NEW r \in Header
  PROVE  /\ r = [prev |-> r.prev, next |-> r.next, allocated |-> r.allocated, length |-> r.length]
         /\ DOMAIN r = {"prev", "next", "allocated", "length"}
<1>1. r = [prev |-> r.prev, next |-> r.next, allocated |-> r.allocated, length |-> r.length]
  BY DEF Header
<1>2. DOMAIN r = {"prev", "next", "allocated", "length"}
  BY <1>1
<1> QED BY <1>1, <1>2

LEMMA Marked ==
  ASSUME NEW r \in Header, NEW z
  PROVE  [r EXCEPT !.allocated = z]
           = [prev |-> r.prev, next |-> r.next, allocated |-> z, length |-> r.length]
BY Fields

\* What the links say of the list.
LEMMA ListFacts ==
  ASSUME hdr \in [Addr -> Header], ChunkInv
  PROVE  /\ List \in Seq(Chunk) /\ Len(List) \in Nat /\ (Chunk = {} <=> List = <<>>) /\ DOMAIN List = 1 .. Len(List)
         /\ (Chunk # {} <=> Len(List) > 0)
         /\ \A c \in Chunk : \E k \in DOMAIN List : List[k] = c
         /\ \A k \in DOMAIN List :
              /\ List[k] \in Chunk /\ List[k] \in Addr /\ (k = 1 <=> List[k] = HEAP_START)
              /\ k < Len(List) => hdr[List[k]].next = List[k + 1] /\ k + 1 \in DOMAIN List
              /\ k = Len(List) => hdr[List[k]].next = NULL
              /\ k > 1 => k - 1 \in DOMAIN List /\ hdr[List[k - 1]].next = List[k]
<1>1. CASE Chunk = {}
  <2>1. List = <<>>
    BY <1>1, ListIsChain
  <2> HIDE DEF List, Chunk
  <2> QED BY <1>1, <2>1
<1>2. CASE Chunk # {}
  <2> DEFINE n == Len(List)
  <2>1. Chain(List, hdr, HEAP_START)
    BY <1>2, ListIsChain
  <2> HIDE DEF List
  <2>2. List \in Seq(Chunk) /\ n \in Nat /\ n > 0 /\ DOMAIN List = 1 .. n /\ List[1] = HEAP_START
    BY <2>1 DEF Chain, Chunk
  <2>3. \A k \in 1 .. n - 1 : hdr[List[k]].next = List[k + 1]
    BY <2>1 DEF Chain
  <2>4. ASSUME NEW c \in Chunk PROVE \E k \in DOMAIN List : List[k] = c
    <3>1. HEAP_START <= c
      BY Space DEF Chunk, ChunksOf
    <3> QED BY <2>1, <2>2, <3>1 DEF Chain, Chunk
  <2>5. hdr[List[n]].next = NULL
    BY <2>1 DEF Chain
  <2>6. ASSUME NEW k \in 1 .. n
        PROVE  /\ List[k] \in Chunk /\ List[k] \in Addr /\ (k = 1 <=> List[k] = HEAP_START)
               /\ k < n => hdr[List[k]].next = List[k + 1] /\ k + 1 \in 1 .. n
               /\ k = n => hdr[List[k]].next = NULL
               /\ k > 1 => k - 1 \in 1 .. n /\ hdr[List[k - 1]].next = List[k]
    <3>1. \A j \in 1 .. n : List[j] \in Chunk /\ List[j] \in Addr
      BY <2>2 DEF Chunk, ChunksOf
    <3>2. k < n => hdr[List[k]].next = List[k + 1] /\ k + 1 \in 1 .. n
      BY <2>2, <2>3
    <3>3. ASSUME k > 1 PROVE k - 1 \in 1 .. n /\ hdr[List[k - 1]].next = List[k]
      <4>1. k - 1 \in 1 .. n - 1 /\ (k - 1) + 1 = k
        BY <2>2, <3>3
      <4> QED BY <2>3, <4>1
    <3>4. ASSUME k > 1 PROVE List[k] # HEAP_START
      <4>1. List[k - 1] \in Chunk /\ List[k - 1] \in Addr /\ List[k] \in Addr /\ hdr[List[k - 1]].next = List[k]
        BY <3>1, <3>3, <3>4
      <4>2. List[k] = EndIn(hdr, List[k - 1]) /\ hdr[List[k - 1]].length > 0
        BY <4>1, Space DEF ChunkInv, Links, Chunk, ChunksOf
      <4> QED BY <4>1, <4>2, HeaderType DEF EndIn
    <3>5. k = 1 \/ k > 1
      BY <2>2
    <3> HIDE DEF n
    <3> QED BY <2>2, <2>5, <3>1, <3>2, <3>3, <3>4, <3>5
  <2>7. Len(List) > 0 /\ List # <<>>
    BY <2>2
  <2> QED BY <1>2, <2>2, <2>4, <2>6, <2>7
<1> QED BY <1>1, <1>2

LEMMA AccurateBack ==
  ASSUME hdr \in [Addr -> Header], ChunkInv, NEW c \in Chunk, Accurate(c)
  PROVE  BackIn(hdr, c)
<1>1. PICK k \in DOMAIN List : List[k] = c
  BY ListFacts
<1>2. hdr[c].prev = IF k = 1 THEN NULL ELSE List[k - 1]
  BY <1>1 DEF Accurate
<1> HIDE DEF List
<1>3. /\ k \in Nat /\ k >= 1 /\ (k = 1 <=> c = HEAP_START)
      /\ k > 1 => k - 1 \in DOMAIN List /\ hdr[List[k - 1]].next = c /\ List[k - 1] \in Chunk
  BY <1>1, ListFacts
<1> QED BY <1>2, <1>3 DEF BackIn, Chunk

LEMMA FitFacts ==
  ASSUME hdr \in [Addr -> Header], ChunkInv, NEW len, Fits(len) # {}
  PROVE  /\ List[Min(Fits(len))] \in Chunk /\ hdr[List[Min(Fits(len))]].allocated = 0
         /\ hdr[List[Min(Fits(len))]].length >= len
<1>1. Fits(len) \subseteq DOMAIN List /\ DOMAIN List \subseteq Nat
  BY ListFacts DEF Fits
<1>2. Min(Fits(len)) \in Fits(len)
  BY <1>1, MinInSet
<1> HIDE DEF List
<1>3. \A k \in Fits(len) : k \in DOMAIN List /\ hdr[List[k]].allocated = 0 /\ hdr[List[k]].length >= len
  BY DEF Fits
<1> QED BY <1>2, <1>3, ListFacts

--------------------------------------------------------------------------------
(* What the parts of kmalloc and kfree do to the chunks                    *)

\* What stays true of a memory while the chunk c is being returned.
Good(h, c, top) == h \in [Addr -> Header] /\ Links(h) /\ FreeBut(h, c) /\ Below(h, top)

\* Two chunks share nothing.
LEMMA Apart ==
  ASSUME NEW h, h \in [Addr -> Header], Links(h), NEW a \in ChunksOf(h), NEW b \in ChunksOf(h), a # b
  PROVE  EndIn(h, a) <= b \/ EndIn(h, b) <= a
BY Space DEF Links, ChunksOf

\* The chunk before another is only one.
LEMMA OneBefore ==
  ASSUME NEW h, h \in [Addr -> Header], Links(h), NEW a \in ChunksOf(h), NEW b \in ChunksOf(h),
         h[a].next # NULL, h[a].next = h[b].next
  PROVE  a = b
<1> SUFFICES ASSUME a # b PROVE FALSE
  OBVIOUS
<1>1. EndIn(h, a) = EndIn(h, b)
  BY DEF Links
<1>2. /\ h[a].length \in Nat /\ h[b].length \in Nat /\ h[a].length > 0 /\ h[b].length > 0 /\ a \in Nat /\ b \in Nat
  BY HeaderType DEF ChunksOf
<1> QED BY <1>1, <1>2, Apart DEF EndIn

LEMMA LastFacts ==
  ASSUME hdr \in [Addr -> Header], ChunkInv, Chunk # {}
  PROVE  /\ List # <<>> /\ List[Len(List)] \in Chunk /\ hdr[List[Len(List)]].next = NULL
         /\ ChunkStart = EndIn(hdr, List[Len(List)]) /\ hdr[List[Len(List)]].allocated = 1
         /\ \A b \in Chunk : b <= List[Len(List)]
<1> DEFINE l == List[Len(List)]
<1>1. List # <<>> /\ Len(List) \in DOMAIN List
  <2> HIDE DEF List
  <2> QED BY ListFacts
<1>2. l \in Chunk /\ hdr[l].next = NULL
  <2> HIDE DEF List
  <2> QED BY <1>1, ListFacts
<1>3. ChunkStart = EndIn(hdr, l)
  <2> HIDE DEF List
  <2> QED BY <1>1 DEF ChunkStart, EndIn
<1> HIDE DEF l
<1>4. \A b \in Chunk : b <= l
  BY <1>2, Space DEF ChunkInv, Links, Chunk, ChunksOf
<1>5. hdr[l].allocated = 1
  <2>1. l \in Addr /\ l # NULL
    BY <1>2, Space DEF Chunk, ChunksOf
  <2>2. hdr[l].allocated \in {0, 1}
    BY <2>1, HeaderType
  <2> QED BY <1>2, <2>1, <2>2 DEF ChunkInv, FreeBut, Chunk
<1> QED BY <1>1, <1>2, <1>3, <1>4, <1>5 DEF l

\* split_chunk hands out the first part of a free chunk; the rest stays free.
LEMMA Split ==
  ASSUME NEW top \in Int, Good(hdr, NULL, top), NEW c \in Chunk, hdr[c].allocated = 0,
         NEW len \in Nat, len > 0, len <= hdr[c].length, NEW h, h = SplitChunk(c, len)
  PROVE  /\ Good(h, NULL, top) /\ Chunk \subseteq ChunksOf(h)
         /\ h[c].allocated = 1 /\ len <= h[c].length
         /\ \A a \in Chunk \ {c} : h[a] = hdr[a]
         /\ \A a \in ChunksOf(h) \ Chunk : h[a].allocated = 0
<1> DEFINE e == EndIn(hdr, c)
           l == hdr[c].length
           n == hdr[c].next
<1>1. /\ c \in Addr /\ c \in Nat /\ l \in Nat /\ l > 0 /\ l <= Limit - HEAP_START /\ e = c + l /\ Limit \in Nat
      /\ HEAP_START \in Nat /\ HEAP_START <= c /\ c < Limit /\ HEADER \in Nat /\ HEADER > 0 /\ c # NULL
      /\ hdr \in [Addr -> Header] /\ hdr[c].prev \in Addr \cup {NULL}
  BY HeaderType, Space DEF Chunk, ChunksOf, Good, EndIn
<1>2. /\ n # NULL /\ n = e /\ n \in Chunk /\ n \in Addr /\ hdr[n].allocated = 1 /\ BackIn(hdr, c)
  BY <1>1 DEF Good, FreeBut, Links, Chunk, ChunksOf
<1>3. e \in Addr
  BY <1>2
<1>4. CASE l - len > HEADER
  <2> DEFINE d == c + len
             hd == [prev |-> c, next |-> n, allocated |-> 0, length |-> l - len]
             hc == [prev |-> hdr[c].prev, next |-> d, allocated |-> 1, length |-> len]
  <2>1. d \in Addr /\ c < d /\ d < e /\ d \in Nat
    BY <1>1, <1>3, <1>4, Space
  <2>2. d \notin Chunk
    <3> SUFFICES ASSUME d \in Chunk PROVE FALSE
      OBVIOUS
    <3>1. e <= d
      BY <2>1 DEF Good, Links, Chunk
    <3> QED BY <1>1, <2>1, <3>1
  <2>3. h = [hdr EXCEPT ![d] = hd, ![c] = hc]
    BY <1>4, Zenon DEF SplitChunk
  <2>4. hd \in Header /\ hc \in Header
    BY <1>1, <1>2, <1>4, <2>1, MakeHeader
  <2>5. /\ h \in [Addr -> Header] /\ h[d] = hd /\ h[c] = hc /\ \A a \in Addr : a # c /\ a # d => h[a] = hdr[a]
    <3> HIDE DEF hd, hc, d
    <3> QED BY <1>1, <2>1, <2>3, <2>4
  <2>6. ChunksOf(h) = Chunk \cup {d}
    <3>1. h[d].length > 0 /\ h[c].length > 0
      BY <1>1, <1>4, <2>5, Space
    <3> HIDE DEF hd, hc, d
    <3> QED BY <1>1, <2>1, <2>5, <3>1 DEF Chunk, ChunksOf
  <2>7. EndIn(h, c) = d /\ EndIn(h, d) = e /\ \A a \in Addr : a # c /\ a # d => EndIn(h, a) = EndIn(hdr, a)
    <3>1. EndIn(h, d) = (c + len) + (l - len) /\ EndIn(h, c) = c + len
      BY <2>5 DEF EndIn
    <3>2. \A a \in Addr : a # c /\ a # d => EndIn(h, a) = EndIn(hdr, a)
      <4> HIDE DEF d
      <4> QED BY <2>5 DEF EndIn
    <3> QED BY <1>1, <3>1, <3>2
  <2>8. h[d].next = e /\ h[c].next = d /\ h[d].allocated = 0 /\ h[c].allocated = 1 /\ h[d].prev = c /\ h[c].prev = hdr[c].prev /\ h[c].length = len
    BY <1>2, <2>5
  <2> HIDE DEF hd, hc
  <2>9. Links(h)
    <3>1. \A a \in Addr \ ChunksOf(h) : h[a] = NoHeader
      <4> HIDE DEF d
      <4> QED BY <1>1, <2>5, <2>6 DEF Good, Links, Chunk
    <3>2. ASSUME NEW a \in ChunksOf(h), h[a].next # NULL PROVE h[a].next = EndIn(h, a) /\ h[a].next \in ChunksOf(h)
      <4>1. CASE a = c
        BY <2>6, <2>7, <2>8, <4>1
      <4>2. CASE a = d
        BY <1>2, <2>6, <2>7, <2>8, <4>2
      <4>3. CASE a # c /\ a # d
        <5>1. a \in Chunk /\ a \in Addr
          BY <2>6, <4>3 DEF Chunk, ChunksOf
        <5>2. h[a].next = hdr[a].next /\ EndIn(h, a) = EndIn(hdr, a)
          BY <2>5, <2>7, <4>3, <5>1
        <5> QED BY <2>6, <3>2, <5>1, <5>2 DEF Good, Links, Chunk
      <4> QED BY <4>1, <4>2, <4>3
    <3>3. ASSUME NEW a \in ChunksOf(h), NEW b \in ChunksOf(h), a < b PROVE EndIn(h, a) <= b /\ h[a].next # NULL
      <4>0. \A x \in Chunk : \A y \in Chunk : x < y => EndIn(hdr, x) <= y /\ hdr[x].next # NULL
        BY DEF Good, Links, Chunk
      <4>1. a \in Addr /\ b \in Addr /\ a \in Nat /\ b \in Nat /\ d # NULL /\ e # NULL
        BY <1>2, <2>1, Space DEF ChunksOf
      <4>2. CASE a = c
        <5>1. b = d \/ b \in Chunk
          BY <2>6
        <5>2. b \in Chunk => e <= b
          BY <3>3, <4>0, <4>2
        <5> QED BY <1>1, <2>1, <2>7, <2>8, <4>1, <4>2, <5>1, <5>2
      <4>3. CASE a = d
        <5>1. b \in Chunk /\ c < b
          BY <1>1, <2>1, <2>6, <3>3, <4>1, <4>3
        <5>2. e <= b
          BY <4>0, <5>1
        <5> QED BY <2>7, <2>8, <4>1, <4>3, <5>2
      <4>4. CASE a # c /\ a # d
        <5>1. a \in Chunk /\ h[a] = hdr[a] /\ EndIn(h, a) = EndIn(hdr, a)
          BY <2>5, <2>6, <2>7, <4>1, <4>4
        <5>2. b \in Chunk => EndIn(hdr, a) <= b /\ hdr[a].next # NULL
          BY <3>3, <4>0, <5>1
        <5>3. ASSUME b = d PROVE EndIn(hdr, a) <= b /\ hdr[a].next # NULL
          <6>1. a < c \/ c < a
            BY <1>1, <4>1, <4>4
          <6>2. c < a => e <= a
            BY <4>0, <5>1
          <6>3. a < c
            BY <1>1, <2>1, <3>3, <4>1, <5>3, <6>1, <6>2
          <6>4. EndIn(hdr, a) <= c /\ hdr[a].next # NULL /\ EndIn(hdr, a) \in Nat
            BY <1>1, <4>0, <4>1, <5>1, <6>3, HeaderType
          <6> QED BY <1>1, <2>1, <5>3, <6>4
        <5> QED BY <2>6, <5>1, <5>2, <5>3
      <4> QED BY <4>2, <4>3, <4>4
    <3> QED BY <3>1, <3>2, <3>3 DEF Links
  <2>10. FreeBut(h, NULL)
    <3> SUFFICES ASSUME NEW a \in ChunksOf(h) \ {NULL}, h[a].allocated = 0
                 PROVE  BackIn(h, a) /\ h[a].next # NULL /\ (h[a].next = NULL \/ h[h[a].next].allocated = 1)
      BY DEF FreeBut
    <3>1. CASE a = d
      <4>1. d # HEAP_START
        BY <1>1, <2>1
      <4>2. e # c /\ e # d
        BY <1>1, <2>1
      <4>3. h[e].allocated = 1
        BY <1>2, <2>5, <4>2
      <4> QED BY <1>2, <2>6, <2>8, <3>1, <4>1, <4>3 DEF BackIn
    <3>2. CASE a # d
      <4>1. a # c /\ a \in Chunk /\ a \in Addr /\ h[a] = hdr[a]
        BY <2>5, <2>6, <2>8, <3>2 DEF Chunk, ChunksOf
      <4>2. BackIn(hdr, a) /\ hdr[a].next # NULL /\ hdr[hdr[a].next].allocated = 1 /\ hdr[a].next \in Chunk /\ hdr[a].next \in Addr
        BY <4>1 DEF Good, FreeBut, Links, Chunk, ChunksOf
      <4>3. hdr[a].next # c /\ hdr[a].next # d
        BY <2>2, <4>2
      <4>4. h[h[a].next].allocated = 1 /\ h[a].next # NULL
        BY <2>5, <4>1, <4>2, <4>3
      <4>5. BackIn(h, a)
        <5>1. CASE a = HEAP_START
          BY <4>1, <4>2, <5>1 DEF BackIn
        <5>2. CASE a # HEAP_START
          <6>1. hdr[a].prev \in Chunk /\ hdr[hdr[a].prev].next = a /\ hdr[a].prev \in Addr
            BY <4>2, <5>2 DEF BackIn, Chunk, ChunksOf
          <6>2. hdr[a].prev # c
            BY <1>2, <4>1, <6>1
          <6>3. hdr[a].prev # d
            BY <2>2, <6>1
          <6>4. h[hdr[a].prev] = hdr[hdr[a].prev]
            BY <2>5, <6>1, <6>2, <6>3
          <6> QED BY <2>6, <4>1, <5>2, <6>1, <6>4 DEF BackIn
        <5> QED BY <5>1, <5>2
      <4> QED BY <4>4, <4>5
    <3> QED BY <3>1, <3>2
  <2>11. Below(h, top)
    <3>1. e <= top /\ d <= top
      <4>1. e <= top
        BY DEF Good, Below, Chunk
      <4> QED BY <1>1, <2>1, <4>1
    <3>2. ASSUME NEW a \in ChunksOf(h), a # c, a # d PROVE EndIn(h, a) <= top
      <4>1. a \in Chunk /\ EndIn(h, a) = EndIn(hdr, a)
        BY <2>6, <2>7, <3>2 DEF Chunk, ChunksOf
      <4> QED BY <4>1 DEF Good, Below, Chunk
    <3> QED BY <2>7, <3>1, <3>2 DEF Below
  <2>12. \A a \in Chunk \ {c} : h[a] = hdr[a]
    BY <2>2, <2>5 DEF Chunk, ChunksOf
  <2>13. len <= h[c].length /\ \A a \in ChunksOf(h) \ Chunk : h[a].allocated = 0
    BY <2>6, <2>8
  <2> QED BY <2>5, <2>6, <2>8, <2>9, <2>10, <2>11, <2>12, <2>13 DEF Good
<1>5. CASE ~(l - len > HEADER)
  <2> DEFINE hc == [prev |-> hdr[c].prev, next |-> n, allocated |-> 1, length |-> l]
  <2>1. h = [hdr EXCEPT ![c] = hc]
    <3>1. hdr[c] \in Header
      BY <1>1
    <3>2. [hdr[c] EXCEPT !.allocated = 1] = hc
      BY <3>1, Marked
    <3>3. h = [hdr EXCEPT ![c] = [hdr[c] EXCEPT !.allocated = 1]]
      BY <1>5 DEF SplitChunk
    <3> QED BY <3>2, <3>3
  <2>2. hc \in Header
    BY <1>1, <1>2, MakeHeader
  <2>3. h \in [Addr -> Header] /\ h[c] = hc /\ \A a \in Addr : a # c => h[a] = hdr[a]
    <3> HIDE DEF hc
    <3> QED BY <1>1, <2>1, <2>2
  <2>4. /\ \A a \in Addr : h[a].prev = hdr[a].prev /\ h[a].next = hdr[a].next /\ h[a].length = hdr[a].length
        /\ \A a \in Addr : a # c => h[a].allocated = hdr[a].allocated
        /\ h[c].allocated = 1
    <3>1. h[c].prev = hdr[c].prev /\ h[c].next = n /\ h[c].length = l /\ h[c].allocated = 1
      BY <2>3
    <3> HIDE DEF hc
    <3> QED BY <2>3, <3>1
  <2>5. ChunksOf(h) = Chunk /\ \A a \in Addr : EndIn(h, a) = EndIn(hdr, a)
    BY <2>4 DEF Chunk, ChunksOf, EndIn
  <2>6. Links(h)
    <3>1. \A a \in Addr \ ChunksOf(h) : h[a] = NoHeader
      BY <2>3, <2>5 DEF Good, Links, Chunk
    <3>2. \A a \in ChunksOf(h) : a \in Addr
      BY DEF ChunksOf
    <3> QED BY <2>4, <2>5, <3>1, <3>2 DEF Good, Links, Chunk
  <2>7. FreeBut(h, NULL)
    <3> SUFFICES ASSUME NEW a \in Chunk \ {NULL}, h[a].allocated = 0
                 PROVE  BackIn(h, a) /\ h[a].next # NULL /\ (h[a].next = NULL \/ h[h[a].next].allocated = 1)
      BY <2>5 DEF FreeBut
    <3>1. a # c /\ a \in Addr /\ hdr[a].allocated = 0
      BY <2>4 DEF Chunk, ChunksOf
    <3>2. BackIn(hdr, a) /\ hdr[a].next # NULL /\ hdr[hdr[a].next].allocated = 1 /\ hdr[a].next \in Addr
      BY <3>1 DEF Good, FreeBut, Links, Chunk, ChunksOf
    <3>3. BackIn(h, a)
      BY <2>4, <2>5, <3>1, <3>2 DEF BackIn, Chunk, ChunksOf
    <3> QED BY <1>1, <2>4, <3>1, <3>2, <3>3
  <2>8. Below(h, top)
    BY <2>5 DEF Good, Below, Chunk, ChunksOf
  <2>9. \A a \in Chunk \ {c} : h[a] = hdr[a]
    BY <2>3 DEF Chunk, ChunksOf
  <2> QED BY <1>1, <2>3, <2>4, <2>5, <2>6, <2>7, <2>8, <2>9 DEF Good, Chunk
<1> QED BY <1>4, <1>5

\* Kept: the chunks in use are those that were, as long as they were.
Kept(h, g) ==
  /\ ChunksOf(g) \subseteq ChunksOf(h)
  /\ HEAP_START \in ChunksOf(h) => HEAP_START \in ChunksOf(g)
  /\ \A a \in Addr : g[a].allocated = 1 <=> h[a].allocated = 1
  /\ \A a \in Addr : h[a].allocated = 1 => g[a].length = h[a].length

\* What both halves of glue_chunk do: chunk c absorbs the chunk n behind it.
Absorbed(h, c, n) ==
  LET g == [h EXCEPT ![c] = Joined(h, c, n), ![n] = NoHeader]
  IN IF h[n].next = NULL THEN g ELSE [g EXCEPT ![h[n].next].prev = c]

LEMMA AbsorbedFields ==
  ASSUME NEW h, h \in [Addr -> Header], Links(h), NEW top \in Int, Below(h, top), top <= Limit,
         NEW c \in ChunksOf(h), NEW n \in ChunksOf(h), h[c].next = n, NEW g, g = Absorbed(h, c, n)
  PROVE  /\ g \in [Addr -> Header]
         /\ g[c].prev = h[c].prev /\ g[c].next = h[n].next /\ g[c].allocated = h[c].allocated
         /\ g[c].length = h[c].length + h[n].length
         /\ g[n] = NoHeader /\ c < n /\ n = EndIn(h, c)
         /\ h[n].next # NULL => n < h[n].next /\ h[n].next \in ChunksOf(h)
         /\ \A a \in Addr \ {c, n} :
              /\ g[a].next = h[a].next /\ g[a].allocated = h[a].allocated /\ g[a].length = h[a].length
              /\ h[n].next = NULL \/ a # h[n].next => g[a] = h[a]
<1> DEFINE m == h[n].next
           hc == [prev |-> h[c].prev, next |-> m, allocated |-> h[c].allocated, length |-> h[c].length + h[n].length]
           k == [h EXCEPT ![c] = hc, ![n] = NoHeader]
<1>1. /\ c \in Addr /\ n \in Addr /\ c \in Nat /\ n \in Nat /\ c # NULL /\ n # NULL
      /\ h[c].length \in Nat /\ h[n].length \in Nat /\ h[c].length > 0 /\ h[n].length > 0
      /\ HEAP_START \in Nat /\ Limit \in Nat /\ HEAP_START <= c
      /\ m \in Addr \cup {NULL} /\ h[c].prev \in Addr \cup {NULL} /\ h[c].allocated \in {0, 1}
      /\ h[c] \in Header
  BY HeaderType DEF ChunksOf
<1>2. n = EndIn(h, c) /\ c < n /\ n = c + h[c].length
  BY <1>1 DEF Links, EndIn
<1>3. m # NULL => m = EndIn(h, n) /\ n < m /\ m \in ChunksOf(h) /\ m \in Addr /\ m # c
  BY <1>1, <1>2 DEF Links, EndIn, ChunksOf
<1>4. h[c].length + h[n].length <= Limit - HEAP_START
  <2>1. n + h[n].length <= top
    BY DEF Below, EndIn
  <2> QED BY <1>1, <1>2, <2>1
<1>5. hc \in Header /\ NoHeader \in Header
  <2>1. hc \in Header
    BY <1>1, <1>4, MakeHeader
  <2>2. NoHeader \in Header
    <3>1. 0 \in Nat /\ 0 <= Limit - HEAP_START /\ NULL \in Addr \cup {NULL} /\ 0 \in {0, 1}
      BY <1>1, <1>4
    <3> QED BY <3>1, MakeHeader DEF NoHeader
  <2> QED BY <2>1, <2>2
<1>6. k = [h EXCEPT ![c] = Joined(h, c, n), ![n] = NoHeader]
  BY Zenon DEF Joined
<1>8. k \in [Addr -> Header] /\ k[c] = hc /\ k[n] = NoHeader /\ \A a \in Addr \ {c, n} : k[a] = h[a]
  <2> HIDE DEF hc
  <2> QED BY <1>1, <1>2, <1>5
<1>9. CASE m = NULL
  <2>1. g = k
    BY <1>6, <1>9, Zenon DEF Absorbed
  <2> HIDE DEF k
  <2> QED BY <1>1, <1>2, <1>8, <1>9, <2>1
<1>10. CASE m # NULL
  <2> HIDE DEF hc
  <2>1. g = [k EXCEPT ![m].prev = c]
    BY <1>6, <1>10, Zenon DEF Absorbed
  <2> HIDE DEF k
  <2>2. k[m] = h[m] /\ k[m] \in Header /\ m \in Addr /\ m # c /\ m # n
    <3> HIDE DEF m
    <3>1. m \in Addr \ {c, n}
      BY <1>1, <1>3, <1>10
    <3>2. k[m] = h[m]
      BY <1>8, <3>1
    <3> QED BY <1>8, <3>1, <3>2
  <2> DEFINE hm == [prev |-> c, next |-> h[m].next, allocated |-> h[m].allocated, length |-> h[m].length]
  <2>3. [k[m] EXCEPT !.prev = c] = hm
    <3>1. [k[m] EXCEPT !.prev = c] = [i \in DOMAIN k[m] |-> IF i = "prev" THEN c ELSE k[m][i]]
      <4> HIDE DEF m
      <4> QED BY Zenon
    <3>2. DOMAIN k[m] = {"prev", "next", "allocated", "length"}
      BY <2>2, Fields
    <3> HIDE DEF m
    <3> QED BY <2>2, <3>1, <3>2
  <2>4. hm \in Header
    BY <1>1, <2>2, HeaderType, MakeHeader
  <2>5. g = [k EXCEPT ![m] = hm]
    <3> HIDE DEF hm
    <3> QED BY <2>1, <2>3
  <2>6. g \in [Addr -> Header] /\ g[m] = hm /\ \A a \in Addr \ {m} : g[a] = k[a]
    <3> HIDE DEF hm, m
    <3> QED BY <1>8, <2>2, <2>4, <2>5
  <2>7. g[c] = hc /\ g[n] = NoHeader /\ \A a \in Addr \ {c, n, m} : g[a] = h[a]
    BY <1>1, <1>8, <2>2, <2>6
  <2>8. g[m].next = h[m].next /\ g[m].allocated = h[m].allocated /\ g[m].length = h[m].length
    BY <2>6
  <2>9. g[c].prev = h[c].prev /\ g[c].next = m /\ g[c].allocated = h[c].allocated /\ g[c].length = h[c].length + h[n].length
    BY <2>7 DEF hc
  <2> HIDE DEF hm
  <2> QED BY <1>2, <1>3, <1>10, <2>6, <2>7, <2>8, <2>9
<1> QED BY <1>9, <1>10

\* When both are free, and what follows is not, the links are right again.
LEMMA Absorb ==
  ASSUME NEW h, h \in [Addr -> Header], Links(h), NEW top \in Int, Below(h, top), top <= Limit,
         NEW c \in ChunksOf(h), NEW n \in ChunksOf(h), h[c].next = n,
         h[c].allocated = 0, h[n].allocated = 0, h[n].next = NULL \/ h[h[n].next].allocated = 1,
         BackIn(h, c),
         \A a \in ChunksOf(h) \ {c, n} : h[a].allocated = 0 =>
            BackIn(h, a) /\ h[a].next # NULL /\ (h[a].next = c \/ h[h[a].next].allocated = 1),
         NEW g, g = Absorbed(h, c, n)
  PROVE  /\ Good(g, c, top) /\ ChunksOf(g) = ChunksOf(h) \ {n} /\ Kept(h, g)
         /\ g[c].allocated = 0 /\ g[c].prev = h[c].prev /\ g[c].next = h[n].next /\ BackIn(g, c)
         /\ g[c].next = NULL \/ g[g[c].next].allocated = 1
<1> DEFINE m == h[n].next
           C == ChunksOf(h)
<1>1. /\ g \in [Addr -> Header]
      /\ g[c].prev = h[c].prev /\ g[c].next = m /\ g[c].allocated = h[c].allocated
      /\ g[c].length = h[c].length + h[n].length
      /\ g[n] = NoHeader /\ c < n /\ n = EndIn(h, c)
      /\ m # NULL => n < m /\ m \in C
      /\ \A a \in Addr \ {c, n} :
              /\ g[a].next = h[a].next /\ g[a].allocated = h[a].allocated /\ g[a].length = h[a].length
              /\ m = NULL \/ a # m => g[a] = h[a]
  BY AbsorbedFields
<1>2. /\ \A a \in C : a \in Addr /\ a \in Nat /\ a # NULL /\ h[a].length \in Nat /\ h[a].length > 0 /\ HEAP_START <= a
      /\ HEAP_START \in Nat
  BY HeaderType DEF ChunksOf
<1> HIDE DEF m, C
<1>3. c \in C /\ n \in C /\ c # n /\ n # HEAP_START
  BY <1>1, <1>2 DEF C
<1>4. ChunksOf(g) = C \ {n}
  <2>1. ASSUME NEW a \in Addr PROVE a \in ChunksOf(g) <=> a \in C \ {n}
    <3>1. CASE a = c
      BY <1>1, <1>2, <1>3, <3>1 DEF ChunksOf
    <3>2. CASE a = n
      BY <1>1, <3>2 DEF ChunksOf, NoHeader
    <3>3. CASE a \notin {c, n}
      BY <1>1, <3>3 DEF C, ChunksOf
    <3> QED BY <3>1, <3>2, <3>3
  <2> QED BY <2>1 DEF C, ChunksOf
<1>5. /\ EndIn(g, c) = EndIn(h, n) /\ \A a \in C \ {c, n} : EndIn(g, a) = EndIn(h, a)
  <2>1. g[c].length = h[c].length + h[n].length /\ n = c + h[c].length
    BY <1>1 DEF EndIn
  <2>2. EndIn(g, c) = EndIn(h, n)
    BY <1>2, <1>3, <2>1 DEF EndIn
  <2> QED BY <1>1, <1>2, <2>2 DEF EndIn
<1>6. \A a \in C \ {c} : h[a].next # n
  <2>1. ASSUME NEW a \in C, h[a].next = n PROVE a = c
    BY <1>2, <1>3, <2>1, OneBefore DEF C
  <2> QED BY <2>1
<1>7. Links(g)
  <2>1. \A a \in Addr \ ChunksOf(g) : g[a] = NoHeader
    <3>1. ASSUME NEW a \in Addr, a \notin C PROVE g[a] = NoHeader
      <4>1. a # c /\ a # n /\ (m = NULL \/ a # m) /\ h[a] = NoHeader
        BY <1>1, <1>3, <3>1 DEF C, Links
      <4> QED BY <1>1, <4>1
    <3> QED BY <1>1, <1>4, <3>1
  <2>2. ASSUME NEW a \in C \ {n}, g[a].next # NULL PROVE g[a].next = EndIn(g, a) /\ g[a].next \in C \ {n}
    <3>1. CASE a = c
      <4>1. m # NULL /\ m \in C /\ m = EndIn(h, n) /\ m # n
        BY <1>1, <1>2, <1>3, <2>2, <3>1 DEF Links, C, m
      <4> QED BY <1>1, <1>5, <3>1, <4>1
    <3>2. CASE a # c
      <4>1. g[a].next = h[a].next /\ EndIn(g, a) = EndIn(h, a)
        BY <1>1, <1>2, <1>5, <3>2
      <4>2. h[a].next = EndIn(h, a) /\ h[a].next \in C
        BY <2>2, <4>1 DEF C, Links
      <4> QED BY <1>6, <3>2, <4>1, <4>2
    <3> QED BY <3>1, <3>2
  <2>3. ASSUME NEW a \in C \ {n}, NEW b \in C \ {n}, a < b PROVE EndIn(g, a) <= b /\ g[a].next # NULL
    <3>0. \A x, y \in C : x < y => EndIn(h, x) <= y /\ h[x].next # NULL
      BY DEF C, Links
    <3>1. CASE a = c
      <4>1. n < b
        <5>1. EndIn(h, c) <= b
          BY <1>3, <2>3, <3>0, <3>1
        <5> QED BY <1>1, <1>2, <1>3, <5>1
      <4> QED BY <1>1, <1>3, <1>5, <3>0, <3>1, <4>1 DEF m
    <3>2. CASE a # c
      BY <1>1, <1>2, <1>5, <2>3, <3>0, <3>2
    <3> QED BY <3>1, <3>2
  <2> QED BY <1>4, <2>1, <2>2, <2>3 DEF Links
<1>8. Below(g, top)
  BY <1>3, <1>4, <1>5 DEF Below, C
<1>9. BackIn(g, c)
  <2>1. CASE c = HEAP_START
    BY <1>1, <2>1 DEF BackIn
  <2>2. CASE c # HEAP_START
    <3> DEFINE p == h[c].prev
    <3>1. p \in C /\ h[p].next = c
      BY <2>2 DEF BackIn, C
    <3>2. p # c /\ p # n
      BY <1>1, <1>2, <1>3, <3>1 DEF m
    <3>3. g[p].next = c
      BY <1>1, <1>2, <3>1, <3>2
    <3> QED BY <1>1, <1>4, <2>2, <3>1, <3>2, <3>3 DEF BackIn
  <2> QED BY <2>1, <2>2
<1>10. FreeBut(g, c)
  <2> SUFFICES ASSUME NEW a \in C \ {c, n}, g[a].allocated = 0
               PROVE  BackIn(g, a) /\ g[a].next # NULL /\ (g[a].next = c \/ g[g[a].next].allocated = 1)
    BY <1>4 DEF FreeBut
  <2>1. h[a].allocated = 0 /\ g[a].next = h[a].next /\ a \in Addr
    BY <1>1, <1>2
  <2>2. BackIn(h, a) /\ h[a].next # NULL /\ (h[a].next = c \/ h[h[a].next].allocated = 1)
    BY <2>1 DEF C
  <2>3. m = NULL \/ a # m
    BY <2>1 DEF m
  <2>4. g[a] = h[a]
    BY <1>1, <2>1, <2>3
  <2>5. g[a].next = c \/ g[g[a].next].allocated = 1
    <3>1. h[a].next \in C /\ h[a].next # n
      BY <1>6, <2>2 DEF C, Links
    <3> QED BY <1>1, <1>2, <2>1, <2>2, <3>1
  <2>6. BackIn(g, a)
    <3>1. CASE a = HEAP_START
      BY <2>2, <2>4, <3>1 DEF BackIn
    <3>2. CASE a # HEAP_START
      <4> DEFINE p == h[a].prev
      <4>1. p \in C /\ h[p].next = a
        BY <2>2, <3>2 DEF BackIn, C
      <4>2. p # c
        BY <4>1
      <4>3. p # n
        BY <1>2, <2>3, <4>1 DEF m
      <4>4. g[p].next = a
        BY <1>1, <1>2, <4>1, <4>2, <4>3
      <4> QED BY <1>4, <2>4, <3>2, <4>1, <4>3, <4>4 DEF BackIn
    <3> QED BY <3>1, <3>2
  <2> QED BY <2>1, <2>2, <2>5, <2>6
<1>11. Kept(h, g)
  <2>1. ASSUME NEW a \in Addr
        PROVE  (g[a].allocated = 1 <=> h[a].allocated = 1) /\ (h[a].allocated = 1 => g[a].length = h[a].length)
    <3>1. CASE a = n
      BY <1>1, <3>1 DEF NoHeader
    <3>2. CASE a = c
      BY <1>1, <3>2
    <3>3. CASE a # n /\ a # c
      BY <1>1, <3>3
    <3> QED BY <3>1, <3>2, <3>3
  <2> QED BY <1>3, <1>4, <2>1 DEF Kept, C
<1>12. g[c].next = NULL \/ g[g[c].next].allocated = 1
  <2>1. ASSUME m # NULL PROVE g[m].allocated = 1
    BY <1>1, <1>2, <1>3, <2>1 DEF m
  <2> QED BY <1>1, <2>1
<1> QED BY <1>1, <1>4, <1>7, <1>8, <1>9, <1>10, <1>11, <1>12 DEF Good, C, m

\* What is true of the chunk c being returned, and of the others meanwhile.
Half(h, c, top) == Good(h, c, top) /\ c \in ChunksOf(h) /\ h[c].allocated = 0 /\ BackIn(h, c)

NextInUse(h, c) == h[c].next = NULL \/ h[h[c].next].allocated = 1
PrevInUse(h, c) == h[c].prev = NULL \/ h[h[c].prev].allocated = 1

Unmarked(c) == [hdr EXCEPT ![c].allocated = 0]

LEMMA MarkFree ==
  ASSUME NEW top \in Int, Good(hdr, NULL, top), NEW c \in Chunk, hdr[c].allocated = 1, BackIn(hdr, c),
         NEW h, h = Unmarked(c)
  PROVE  /\ Half(h, c, top) /\ ChunksOf(h) = Chunk
         /\ \A a \in Addr : h[a].length = hdr[a].length
         /\ \A a \in Addr : h[a].allocated = 1 <=> hdr[a].allocated = 1 /\ a # c
<1> DEFINE hc == [prev |-> hdr[c].prev, next |-> hdr[c].next, allocated |-> 0, length |-> hdr[c].length]
<1>1. c \in Addr /\ hdr[c] \in Header /\ hdr \in [Addr -> Header] /\ c # NULL
  BY Space DEF Good, Chunk, ChunksOf
<1>2. hc \in Header
  BY <1>1, HeaderType, MakeHeader
<1>3. [hdr[c] EXCEPT !.allocated = 0] = hc
  BY <1>1, Marked
<1>4. h = [hdr EXCEPT ![c] = hc]
  <2> HIDE DEF hc
  <2> QED BY <1>3 DEF Unmarked
<1>5. h \in [Addr -> Header] /\ h[c] = hc /\ \A a \in Addr : a # c => h[a] = hdr[a]
  <2> HIDE DEF hc
  <2> QED BY <1>1, <1>2, <1>4
<1>6. h[c].prev = hdr[c].prev /\ h[c].next = hdr[c].next /\ h[c].length = hdr[c].length /\ h[c].allocated = 0
  BY <1>5
<1> HIDE DEF hc
<1>7. /\ \A a \in Addr : h[a].prev = hdr[a].prev /\ h[a].next = hdr[a].next /\ h[a].length = hdr[a].length
      /\ \A a \in Addr : h[a].allocated = 1 <=> hdr[a].allocated = 1 /\ a # c
      /\ \A a \in Addr : a # c => h[a].allocated = hdr[a].allocated
  BY <1>5, <1>6
<1>8. ChunksOf(h) = Chunk /\ \A a \in Addr : EndIn(h, a) = EndIn(hdr, a)
  BY <1>7 DEF Chunk, ChunksOf, EndIn
<1>9. \A a \in Chunk : a \in Addr
  BY DEF Chunk, ChunksOf
<1>10. Links(h)
  <2>1. \A a \in Addr \ ChunksOf(h) : h[a] = NoHeader
    BY <1>5, <1>8 DEF Good, Links, Chunk
  <2>2. \A a \in Chunk : h[a].next # NULL => h[a].next = EndIn(h, a) /\ h[a].next \in Chunk
    BY <1>7, <1>8, <1>9 DEF Good, Links, Chunk
  <2>3. \A a, b \in Chunk : a < b => EndIn(h, a) <= b /\ h[a].next # NULL
    BY <1>7, <1>8, <1>9 DEF Good, Links, Chunk
  <2> QED BY <1>8, <2>1, <2>2, <2>3 DEF Links
<1>11. \A a \in Chunk : BackIn(hdr, a) => BackIn(h, a)
  BY <1>7, <1>8, <1>9 DEF BackIn, Chunk
<1>12. FreeBut(h, c)
  <2> SUFFICES ASSUME NEW a \in Chunk \ {c}, h[a].allocated = 0
               PROVE  BackIn(h, a) /\ h[a].next # NULL /\ (h[a].next = c \/ h[h[a].next].allocated = 1)
    BY <1>8 DEF FreeBut
  <2>1. hdr[a].allocated = 0 /\ a \in Addr /\ a # NULL
    BY <1>7, <1>9, Space
  <2>2. BackIn(hdr, a) /\ hdr[a].next # NULL /\ hdr[hdr[a].next].allocated = 1 /\ hdr[a].next \in Addr
    BY <1>9, <2>1 DEF Good, FreeBut, Links, Chunk
  <2> QED BY <1>7, <1>11, <2>1, <2>2
<1>13. Below(h, top)
  BY <1>8, <1>9 DEF Good, Below, Chunk
<1> QED BY <1>1, <1>5, <1>6, <1>7, <1>8, <1>10, <1>11, <1>12, <1>13 DEF Good, Half

LEMMA GluedNext ==
  ASSUME NEW top \in Int, top <= Limit, NEW h, NEW c, Half(h, c, top), NEW g, g = GlueNext(h, c)
  PROVE  Half(g, c, top) /\ Kept(h, g) /\ NextInUse(g, c)
<1> DEFINE n == h[c].next
<1>1. /\ c \in ChunksOf(h) /\ h \in [Addr -> Header] /\ Links(h) /\ Below(h, top) /\ BackIn(h, c)
      /\ h[c].allocated = 0 /\ FreeBut(h, c)
  BY DEF Half, Good
<1>2. CASE n = NULL \/ h[n].allocated = 1
  <2>1. g = h
    BY <1>2 DEF GlueNext
  <2> QED BY <1>1, <1>2, <2>1 DEF Kept, NextInUse
<1>3. CASE ~(n = NULL \/ h[n].allocated = 1)
  <2>1. g = Absorbed(h, c, n)
    BY <1>3, Zenon DEF GlueNext, Absorbed
  <2>2. n \in ChunksOf(h) /\ h[n].allocated = 0 /\ n # c
    <3>1. n \in ChunksOf(h) /\ n = EndIn(h, c)
      BY <1>1, <1>3 DEF Links
    <3>2. h[c].length > 0 /\ h[c].length \in Nat /\ c \in Nat
      BY <1>1, HeaderType DEF ChunksOf
    <3>3. h[n].allocated \in {0, 1}
      BY <1>1, <3>1, HeaderType DEF ChunksOf
    <3> QED BY <1>3, <3>1, <3>2, <3>3 DEF EndIn
  <2>3. h[n].next = NULL \/ h[h[n].next].allocated = 1
    <3>1. c < n
      BY <1>1, <2>1, <2>2, AbsorbedFields
    <3>2. h[n].next # NULL => n < h[n].next
      BY <1>1, <2>1, <2>2, AbsorbedFields
    <3>3. c \in Nat /\ n \in Nat
      BY <1>1, <2>2, HeaderType DEF ChunksOf
    <3> HIDE DEF n
    <3> QED BY <1>1, <2>2, <3>1, <3>2, <3>3 DEF FreeBut
  <2>4. \A a \in ChunksOf(h) \ {c, n} : h[a].allocated = 0 =>
            BackIn(h, a) /\ h[a].next # NULL /\ (h[a].next = c \/ h[h[a].next].allocated = 1)
    BY <1>1 DEF FreeBut
  <2>5. /\ Good(g, c, top) /\ ChunksOf(g) = ChunksOf(h) \ {n} /\ Kept(h, g)
        /\ g[c].allocated = 0 /\ BackIn(g, c) /\ (g[c].next = NULL \/ g[g[c].next].allocated = 1)
    BY <1>1, <2>1, <2>2, <2>3, <2>4, Absorb
  <2> QED BY <1>1, <2>2, <2>5 DEF Half, NextInUse
<1> QED BY <1>2, <1>3

\* The chunk before c is in use: no free chunk leads to c.
LEMMA NoneBefore ==
  ASSUME NEW h, h \in [Addr -> Header], Links(h), NEW c \in ChunksOf(h), BackIn(h, c), PrevInUse(h, c),
         NEW a \in ChunksOf(h), h[a].next = c
  PROVE  h[a].allocated = 1 /\ c # HEAP_START /\ a = h[c].prev
<1>1. /\ a \in Nat /\ c \in Nat /\ c # NULL /\ HEAP_START \in Nat /\ HEAP_START <= a /\ h[a].length \in Nat /\ h[a].length > 0
  BY HeaderType DEF ChunksOf
<1>2. c = EndIn(h, a)
  BY <1>1 DEF Links
<1>3. c # HEAP_START
  BY <1>1, <1>2 DEF EndIn
<1>4. h[c].prev \in ChunksOf(h) /\ h[h[c].prev].next = c
  BY <1>3 DEF BackIn
<1>5. a = h[c].prev
  BY <1>1, <1>4, OneBefore
<1>6. h[c].prev # NULL
  BY <1>4, Space DEF ChunksOf
<1> QED BY <1>3, <1>5, <1>6 DEF PrevInUse

LEMMA GluedPrev ==
  ASSUME NEW top \in Int, top <= Limit, NEW h, NEW c, Half(h, c, top), NextInUse(h, c),
         NEW g, g = GluePrev(h, c), NEW x, x = IF GluesPrev(h, c) THEN h[c].prev ELSE c
  PROVE  Half(g, x, top) /\ Kept(h, g) /\ NextInUse(g, x) /\ PrevInUse(g, x)
<1>1. /\ c \in ChunksOf(h) /\ h \in [Addr -> Header] /\ Links(h) /\ Below(h, top) /\ BackIn(h, c)
      /\ h[c].allocated = 0 /\ FreeBut(h, c)
  BY DEF Half, Good
<1>2. \A a \in ChunksOf(h) : h[a].allocated \in {0, 1}
  BY <1>1, HeaderType DEF ChunksOf
<1>3. CASE ~GluesPrev(h, c)
  <2>1. g = h /\ x = c
    BY <1>3 DEF GluePrev
  <2>2. PrevInUse(h, c)
    BY <1>1, <1>2, <1>3 DEF BackIn, PrevInUse, GluesPrev
  <2> QED BY <2>1, <2>2 DEF Kept
<1>4. CASE GluesPrev(h, c)
  <2> DEFINE p == h[c].prev
  <2>1. x = p /\ g = Absorbed(h, p, c)
    BY <1>4, Zenon DEF GluePrev, Absorbed
  <2>2. p # NULL /\ h[p].allocated = 0 /\ c # HEAP_START
    BY <1>1, <1>4 DEF GluesPrev, BackIn
  <2>3. p \in ChunksOf(h) /\ h[p].next = c
    BY <1>1, <2>2 DEF BackIn
  <2>4. p # c
    <3>1. p < c
      BY <1>1, <2>1, <2>3, AbsorbedFields
    <3> QED BY <1>1, <2>3, <3>1, HeaderType DEF ChunksOf
  <2> HIDE DEF p
  <2>5. BackIn(h, p)
    BY <1>1, <2>2, <2>3, <2>4 DEF FreeBut
  <2>6. ASSUME NEW a \in ChunksOf(h) \ {p, c}, h[a].allocated = 0
        PROVE  BackIn(h, a) /\ h[a].next # NULL /\ h[h[a].next].allocated = 1
    <3>1. BackIn(h, a) /\ h[a].next # NULL /\ (h[a].next = c \/ h[h[a].next].allocated = 1)
      BY <1>1, <2>6 DEF FreeBut
    <3>2. h[a].next # c
      BY <1>1, <2>3, <3>1, OneBefore
    <3> QED BY <3>1, <3>2
  <2>7. h[c].next = NULL \/ h[h[c].next].allocated = 1
    BY DEF NextInUse
  <2>8. /\ Good(g, p, top) /\ ChunksOf(g) = ChunksOf(h) \ {c} /\ Kept(h, g)
        /\ g[p].allocated = 0 /\ g[p].prev = h[p].prev /\ BackIn(g, p)
        /\ g[p].next = NULL \/ g[g[p].next].allocated = 1
    BY <1>1, <2>1, <2>2, <2>3, <2>4, <2>5, <2>6, <2>7, Absorb
  <2>9. PrevInUse(g, p)
    <3> SUFFICES ASSUME g[p].prev # NULL PROVE g[g[p].prev].allocated = 1
      BY DEF PrevInUse
    <3> DEFINE q == h[p].prev
    <3>1. q # NULL /\ q \in ChunksOf(h) /\ h[q].next = p /\ q \in Addr
      BY <2>5, <2>8 DEF BackIn, ChunksOf
    <3>2. h[q].allocated # 0
      <4> SUFFICES ASSUME h[q].allocated = 0 PROVE FALSE
        OBVIOUS
      <4>1. q # c
        <5>1. h[c].next # p
          <6>1. p < c /\ (h[c].next # NULL => c < h[c].next)
            BY <1>1, <2>1, <2>3, AbsorbedFields
          <6>2. p \in Nat /\ c \in Nat /\ p # NULL
            BY <1>1, <2>3, HeaderType DEF ChunksOf
          <6> QED BY <6>1, <6>2
        <5> QED BY <3>1, <5>1
      <4> HIDE DEF q
      <4>2. h[q].next = c \/ h[h[q].next].allocated = 1
        BY <1>1, <3>1, <4>1 DEF FreeBut
      <4> QED BY <2>2, <2>4, <3>1, <4>2
    <3>3. g[q].allocated = 1
      <4> HIDE DEF q
      <4> QED BY <1>2, <2>8, <3>1, <3>2 DEF Kept
    <3> QED BY <2>8, <3>3
  <2> QED BY <2>1, <2>3, <2>4, <2>8, <2>9 DEF Half, NextInUse
<1> QED BY <1>3, <1>4

\* A chunk returned that is not the last stays in the list, free.
LEMMA ReturnedInside ==
  ASSUME NEW top \in Int, NEW h, NEW c, Half(h, c, top), NextInUse(h, c), PrevInUse(h, c), h[c].next # NULL
  PROVE  Good(h, NULL, top)
<1>1. /\ c \in ChunksOf(h) /\ h \in [Addr -> Header] /\ Links(h) /\ BackIn(h, c) /\ FreeBut(h, c)
  BY DEF Half, Good
<1>2. FreeBut(h, NULL)
  <2> SUFFICES ASSUME NEW a \in ChunksOf(h), h[a].allocated = 0
               PROVE  BackIn(h, a) /\ h[a].next # NULL /\ h[h[a].next].allocated = 1
    BY DEF FreeBut
  <2>1. CASE a = c
    BY <1>1, <2>1 DEF NextInUse
  <2>2. CASE a # c
    <3>1. h[a].next # c
      BY <1>1, NoneBefore
    <3> QED BY <1>1, <2>2, <3>1 DEF FreeBut
  <2> QED BY <2>1, <2>2
<1> QED BY <1>2 DEF Half, Good

\* The last chunk, when it is free, leaves the list.
Dropped(h, c) ==
  [IF h[c].prev = NULL THEN h ELSE [h EXCEPT ![h[c].prev].next = NULL] EXCEPT ![c] = NoHeader]

LEMMA ReturnedLast ==
  ASSUME NEW top \in Int, NEW h, NEW c, Half(h, c, top), NextInUse(h, c), PrevInUse(h, c), h[c].next = NULL,
         NEW g, g = Dropped(h, c)
  PROVE  /\ Good(g, NULL, c) /\ ChunksOf(g) = ChunksOf(h) \ {c}
         /\ h[c].prev = NULL => ChunksOf(g) = {}
         /\ h[c].prev # NULL => c # HEAP_START
         /\ \A a \in Addr : g[a].allocated = 1 <=> h[a].allocated = 1
         /\ \A a \in Addr : h[a].allocated = 1 => g[a].length = h[a].length
<1> DEFINE p == h[c].prev
           C == ChunksOf(h)
<1>1. /\ c \in C /\ h \in [Addr -> Header] /\ Links(h) /\ BackIn(h, c) /\ FreeBut(h, c) /\ h[c].allocated = 0
  BY DEF Half, Good
<1>2. /\ \A a \in C : a \in Addr /\ a \in Nat /\ a # NULL /\ h[a].length \in Nat /\ h[a].length > 0 /\ HEAP_START <= a
      /\ HEAP_START \in Nat /\ c \in Addr
  BY <1>1, HeaderType DEF ChunksOf
<1>3. \A a \in C \ {c} : a < c /\ EndIn(h, a) <= c
  BY <1>1, <1>2 DEF Links
<1>4. p = NULL => C = {c}
  <2> SUFFICES ASSUME p = NULL, NEW a \in C \ {c} PROVE FALSE
    BY <1>1
  <2>1. c = HEAP_START
    BY <1>1, <1>2 DEF BackIn
  <2> QED BY <1>2, <1>3, <2>1
<1>5. p # NULL => p \in C /\ p \in Addr /\ h[p].next = c /\ p # c /\ h[p].allocated = 1 /\ c # HEAP_START
  <2> SUFFICES ASSUME p # NULL PROVE p \in C /\ p \in Addr /\ h[p].next = c /\ p # c /\ h[p].allocated = 1 /\ c # HEAP_START
    OBVIOUS
  <2>1. p \in C /\ h[p].next = c /\ c # HEAP_START /\ h[p].allocated = 1
    BY <1>1 DEF BackIn, PrevInUse
  <2> QED BY <1>1, <1>2, <2>1
<1> HIDE DEF C, p
<1>6. NoHeader \in Header
  <2>1. 0 \in Nat /\ 0 <= Limit - HEAP_START /\ NULL \in Addr \cup {NULL} /\ 0 \in {0, 1}
    BY Space
  <2> QED BY <2>1, MakeHeader DEF NoHeader
<1>7. /\ g \in [Addr -> Header] /\ g[c] = NoHeader
      /\ \A a \in Addr \ {c, p} : g[a] = h[a]
      /\ p # NULL => g[p].next = NULL /\ g[p].prev = h[p].prev /\ g[p].allocated = h[p].allocated /\ g[p].length = h[p].length
  <2>1. CASE p = NULL
    <3>1. g = [h EXCEPT ![c] = NoHeader]
      BY <2>1 DEF Dropped, p
    <3> QED BY <1>1, <1>2, <1>6, <2>1, <3>1
  <2>2. CASE p # NULL
    <3> DEFINE hp == [prev |-> h[p].prev, next |-> NULL, allocated |-> h[p].allocated, length |-> h[p].length]
    <3>1. h[p] \in Header
      BY <1>1, <1>5, <2>2
    <3>2. [h[p] EXCEPT !.next = NULL] = hp
      <4>1. [h[p] EXCEPT !.next = NULL] = [i \in DOMAIN h[p] |-> IF i = "next" THEN NULL ELSE h[p][i]]
        BY Zenon
      <4>2. DOMAIN h[p] = {"prev", "next", "allocated", "length"}
        BY <3>1, Fields
      <4> QED BY <3>1, <4>1, <4>2
    <3>3. g = [[h EXCEPT ![p].next = NULL] EXCEPT ![c] = NoHeader]
      BY <2>2 DEF Dropped, p
    <3>4. [h EXCEPT ![p].next = NULL] = [h EXCEPT ![p] = hp]
      <4> HIDE DEF hp
      <4> QED BY <3>2
    <3>5. hp \in Header
      <4>1. /\ h[p].prev \in Addr \cup {NULL} /\ h[p].allocated \in {0, 1} /\ h[p].length \in Nat
            /\ h[p].length <= Limit - HEAP_START
        BY <1>1, <1>5, <2>2, HeaderType
      <4> QED BY <4>1, MakeHeader
    <3>6. g \in [Addr -> Header] /\ g[c] = NoHeader /\ g[p] = hp /\ \A a \in Addr \ {c, p} : g[a] = h[a]
      <4> HIDE DEF hp
      <4> QED BY <1>1, <1>2, <1>5, <1>6, <2>2, <3>3, <3>4, <3>5
    <3>7. g[p].next = NULL /\ g[p].prev = h[p].prev /\ g[p].allocated = h[p].allocated /\ g[p].length = h[p].length
      BY <3>6
    <3> HIDE DEF hp
    <3> QED BY <3>6, <3>7
  <2> QED BY <2>1, <2>2
<1>8. \A a \in Addr \ {c} : g[a].prev = h[a].prev /\ g[a].allocated = h[a].allocated /\ g[a].length = h[a].length
  BY <1>7, Space
<1>9. ChunksOf(g) = C \ {c}
  <2>1. g[c].length = 0
    BY <1>7 DEF NoHeader
  <2> QED BY <1>8, <2>1 DEF C, ChunksOf
<1>10. \A a \in C \ {c} : EndIn(g, a) = EndIn(h, a)
  BY <1>2, <1>8 DEF EndIn
<1>11. ASSUME NEW a \in C \ {c} PROVE h[a].next = c <=> a = p
  <2>1. h[a].next = c => a = p
    BY <1>1, NoneBefore DEF C, p
  <2>2. a = p => h[a].next = c
    BY <1>2, <1>5
  <2> QED BY <2>1, <2>2
<1>12. Links(g)
  <2>1. ASSUME NEW a \in Addr \ ChunksOf(g) PROVE g[a] = NoHeader
    <3>1. CASE a = c
      BY <1>7, <3>1
    <3>2. CASE a # c
      <4>1. a \notin C /\ a # p
        BY <1>5, <1>9, <3>2, Space
      <4> QED BY <1>1, <1>7, <3>2, <4>1 DEF Links, C
    <3> QED BY <3>1, <3>2
  <2>2. ASSUME NEW a \in C \ {c}, g[a].next # NULL PROVE g[a].next = EndIn(g, a) /\ g[a].next \in C \ {c}
    <3>1. a # p
      BY <1>2, <1>7, <2>2
    <3>2. g[a].next = h[a].next
      BY <1>2, <1>7, <3>1
    <3> QED BY <1>1, <1>10, <1>11, <2>2, <3>1, <3>2 DEF Links, C
  <2>3. ASSUME NEW a \in C \ {c}, NEW b \in C \ {c}, a < b PROVE EndIn(g, a) <= b /\ g[a].next # NULL
    <3>1. EndIn(h, a) <= b /\ h[a].next # NULL
      BY <1>1, <2>3 DEF Links, C
    <3>2. a # p
      <4> SUFFICES ASSUME a = p PROVE FALSE
        OBVIOUS
      <4>1. EndIn(h, a) = c
        BY <1>1, <1>2, <1>11 DEF Links, C
      <4> QED BY <1>1, <1>2, <1>3, <3>1, <4>1
    <3> QED BY <1>2, <1>7, <1>10, <3>1, <3>2
  <2> QED BY <1>9, <2>1, <2>2, <2>3 DEF Links
<1>13. Below(g, c)
  BY <1>3, <1>9, <1>10 DEF Below
<1>14. FreeBut(g, NULL)
  <2> SUFFICES ASSUME NEW a \in C \ {c}, g[a].allocated = 0
               PROVE  BackIn(g, a) /\ g[a].next # NULL /\ g[g[a].next].allocated = 1
    BY <1>9 DEF FreeBut
  <2>1. h[a].allocated = 0 /\ a \in Addr
    BY <1>2, <1>8
  <2>2. a # p
    BY <1>2, <1>5, <2>1
  <2>3. g[a] = h[a]
    BY <1>7, <2>1, <2>2
  <2>4. h[a].next # c
    BY <1>11, <2>2
  <2>5. BackIn(h, a) /\ h[a].next # NULL /\ h[h[a].next].allocated = 1
    BY <1>1, <2>1, <2>4 DEF FreeBut, C
  <2>6. h[a].next \in C
    BY <1>1, <2>5 DEF Links, C
  <2>7. g[g[a].next].allocated = 1
    BY <1>2, <1>8, <2>3, <2>4, <2>5, <2>6
  <2>8. BackIn(g, a)
    <3>1. CASE a = HEAP_START
      BY <2>3, <2>5, <3>1 DEF BackIn
    <3>2. CASE a # HEAP_START
      <4> DEFINE q == h[a].prev
      <4>1. q \in C /\ h[q].next = a
        BY <2>5, <3>2 DEF BackIn, C
      <4>2. q # c
        BY <1>2, <4>1
      <4> HIDE DEF q
      <4>3. q # p
        BY <1>11, <4>1, <4>2
      <4>4. g[q].next = a
        BY <1>2, <1>7, <4>1, <4>2, <4>3
      <4> QED BY <1>9, <2>3, <3>2, <4>1, <4>2, <4>4 DEF BackIn, q
    <3> QED BY <3>1, <3>2
  <2> QED BY <2>3, <2>5, <2>7, <2>8
<1>15. \A a \in Addr : (g[a].allocated = 1 <=> h[a].allocated = 1) /\ (h[a].allocated = 1 => g[a].length = h[a].length)
  <2>1. g[c].allocated = 0
    BY <1>7 DEF NoHeader
  <2> QED BY <1>1, <1>8, <2>1
<1> QED BY <1>4, <1>5, <1>7, <1>9, <1>12, <1>13, <1>14, <1>15 DEF Good, C, p

\* A new chunk behind the last.
Extended(c, last, len) ==
  LET h == [hdr EXCEPT ![c] = [prev |-> last, next |-> NULL, allocated |-> 1, length |-> len]]
  IN IF last = NULL THEN h ELSE [h EXCEPT ![last].next = c]

LastChunk == IF List = <<>> THEN NULL ELSE List[Len(List)]

LEMMA Appended ==
  ASSUME hdr \in [Addr -> Header], ChunkInv, NEW c, c = ChunkStart, NEW len \in Nat, len > 0, c + len <= Limit,
         NEW top \in Int, heap_max \in Int, heap_max <= top, c + len <= top,
         NEW last, last = LastChunk, NEW h, h = Extended(c, last, len)
  PROVE  /\ Good(h, NULL, top) /\ ChunksOf(h) = Chunk \cup {c} /\ c \notin Chunk /\ c \in Addr
         /\ h[c].allocated = 1 /\ h[c].length = len /\ (last = NULL <=> Chunk = {}) /\ (last = NULL => c = HEAP_START)
         /\ \A a \in Chunk : h[a].allocated = hdr[a].allocated /\ h[a].length = hdr[a].length
<1> DEFINE hc == [prev |-> last, next |-> NULL, allocated |-> 1, length |-> len]
           k  == [hdr EXCEPT ![c] = hc]
<1>1. Chunk = {} => last = NULL /\ c = HEAP_START
  <2>1. Chunk = {} => List = <<>>
    BY ListFacts
  <2> QED BY <2>1 DEF ChunkStart, LastChunk
<1>2. Chunk # {} => /\ last \in Chunk /\ last # NULL /\ hdr[last].next = NULL /\ c = EndIn(hdr, last)
                    /\ hdr[last].allocated = 1 /\ \A b \in Chunk : b <= last
  <2>1. \A a \in Chunk : a # NULL
    BY Space DEF Chunk, ChunksOf
  <2> HIDE DEF List
  <2> QED BY <2>1, LastFacts DEF LastChunk
<1> HIDE DEF hc
<1>3. /\ \A a \in Chunk : /\ a \in Addr /\ a \in Nat /\ a # NULL /\ hdr[a].length \in Nat /\ hdr[a].length > 0
                          /\ HEAP_START <= a /\ hdr[a].allocated \in {0, 1} /\ hdr[a] \in Header
      /\ HEAP_START \in Nat /\ Limit \in Nat /\ HEAP_START < Limit
  BY HeaderType, Space DEF Chunk, ChunksOf
<1>4. \A a \in Chunk : EndIn(hdr, a) \in Nat /\ EndIn(hdr, a) <= c
  <2> SUFFICES ASSUME NEW a \in Chunk PROVE EndIn(hdr, a) \in Nat /\ EndIn(hdr, a) <= c
    OBVIOUS
  <2>1. last \in Chunk /\ c = EndIn(hdr, last) /\ a <= last
    BY <1>2
  <2>2. \A x \in Chunk : EndIn(hdr, x) = x + hdr[x].length
    BY DEF EndIn
  <2>3. a = last \/ EndIn(hdr, a) <= last
    BY <1>3, <2>1 DEF ChunkInv, Links, Chunk
  <2> QED BY <1>3, <2>1, <2>2, <2>3
<1>5. \A a \in Chunk : a < c
  <2> SUFFICES ASSUME NEW a \in Chunk PROVE a < c
    OBVIOUS
  <2>1. a \in Nat /\ hdr[a].length \in Nat /\ hdr[a].length > 0 /\ EndIn(hdr, a) \in Nat /\ EndIn(hdr, a) <= c
    BY <1>3, <1>4
  <2>2. Chunk # {}
    OBVIOUS
  <2>3. c \in Nat
    BY <1>2, <1>4, <2>2
  <2> QED BY <2>1, <2>3 DEF EndIn
<1>6. c \in Nat /\ HEAP_START <= c
  <2>1. CASE Chunk = {}
    BY <1>1, <1>3, <2>1
  <2>2. CASE Chunk # {}
    BY <1>2, <1>3, <1>4, <1>5, <2>2
  <2> QED BY <2>1, <2>2
<1>7. c \in Addr /\ c \notin Chunk /\ c # NULL
  BY <1>3, <1>5, <1>6, Space
<1>8. hc \in Header
  <2>1. last \in Addr \cup {NULL} /\ NULL \in Addr \cup {NULL} /\ 1 \in {0, 1} /\ len <= Limit - HEAP_START
    BY <1>1, <1>2, <1>3, <1>6
  <2> QED BY <2>1, MakeHeader DEF hc
<1>9. h = IF last = NULL THEN k ELSE [k EXCEPT ![last].next = c]
  BY Zenon DEF hc, Extended
<1>10. /\ h \in [Addr -> Header] /\ h[c] = hc
       /\ \A a \in Addr \ {c, last} : h[a] = hdr[a]
       /\ last # NULL => /\ h[last].next = c /\ h[last].prev = hdr[last].prev /\ h[last].allocated = hdr[last].allocated
                         /\ h[last].length = hdr[last].length
  <2>1. CASE last = NULL
    BY <1>7, <1>8, <1>9, <2>1
  <2>2. CASE last # NULL
    <3> DEFINE hl == [prev |-> hdr[last].prev, next |-> c, allocated |-> hdr[last].allocated, length |-> hdr[last].length]
    <3>1. last \in Chunk /\ last \in Addr /\ last # c /\ hdr[last] \in Header
      BY <1>1, <1>2, <1>3, <1>7, <2>2
    <3>2. k[last] = hdr[last] /\ k \in [Addr -> Header] /\ k[c] = hc /\ \A a \in Addr \ {c} : k[a] = hdr[a]
      BY <1>7, <1>8, <1>9, <3>1
    <3>3. [k[last] EXCEPT !.next = c] = hl
      <4>1. [hdr[last] EXCEPT !.next = c] = [i \in DOMAIN hdr[last] |-> IF i = "next" THEN c ELSE hdr[last][i]]
        BY Zenon
      <4>2. DOMAIN hdr[last] = {"prev", "next", "allocated", "length"}
        BY <3>1, Fields
      <4>3. [hdr[last] EXCEPT !.next = c] = hl
        BY <3>1, <4>1, <4>2
      <4> HIDE DEF hl
      <4> QED BY <3>2, <4>3
    <3>4. hl \in Header
      <4>1. /\ hdr[last].prev \in Addr \cup {NULL} /\ hdr[last].allocated \in {0, 1} /\ hdr[last].length \in Nat
            /\ hdr[last].length <= Limit - HEAP_START /\ c \in Addr \cup {NULL}
        BY <1>7, <3>1, HeaderType
      <4> QED BY <4>1, MakeHeader
    <3>5. h = [k EXCEPT ![last] = hl]
      <4> HIDE DEF hl, k
      <4> QED BY <1>9, <2>2, <3>3
    <3>6. h \in [Addr -> Header] /\ h[last] = hl /\ \A a \in Addr \ {last} : h[a] = k[a]
      <4> HIDE DEF hl
      <4> QED BY <3>1, <3>2, <3>4, <3>5
    <3>7. h[last].next = c /\ h[last].prev = hdr[last].prev /\ h[last].allocated = hdr[last].allocated /\ h[last].length = hdr[last].length
      BY <3>6
    <3> HIDE DEF hl
    <3> QED BY <1>7, <3>1, <3>2, <3>6, <3>7
  <2> QED BY <2>1, <2>2
<1>11. h[c].allocated = 1 /\ h[c].length = len /\ h[c].next = NULL /\ EndIn(h, c) = c + len
  BY <1>10 DEF hc, EndIn
<1>12. \A a \in Addr \ {c} : h[a].prev = hdr[a].prev /\ h[a].allocated = hdr[a].allocated /\ h[a].length = hdr[a].length
  BY <1>10, Space
<1>13. ChunksOf(h) = Chunk \cup {c}
  BY <1>7, <1>11, <1>12 DEF Chunk, ChunksOf
<1>14. \A a \in Chunk : a # c /\ EndIn(h, a) = EndIn(hdr, a)
  BY <1>3, <1>7, <1>12 DEF EndIn
<1>15. Links(h)
  <2>1. ASSUME NEW a \in Addr \ ChunksOf(h) PROVE h[a] = NoHeader
    <3>1. a # c /\ a \notin Chunk /\ a # last
      BY <1>1, <1>2, <1>13, <2>1, Space
    <3> QED BY <1>10, <3>1 DEF ChunkInv, Links, Chunk
  <2>2. ASSUME NEW a \in Chunk, h[a].next # NULL PROVE h[a].next = EndIn(h, a) /\ h[a].next \in Chunk \cup {c}
    <3>1. CASE a = last
      <4>1. a # NULL /\ h[a].next = c
        BY <1>3, <1>10, <3>1
      <4> QED BY <1>2, <1>14, <3>1, <4>1
    <3>2. CASE a # last
      <4>1. h[a] = hdr[a]
        BY <1>3, <1>10, <1>14, <3>2
      <4> QED BY <1>14, <2>2, <4>1 DEF ChunkInv, Links, Chunk
    <3> QED BY <3>1, <3>2
  <2>3. ASSUME NEW a \in Chunk, NEW b \in Chunk \cup {c}, a < b PROVE EndIn(h, a) <= b /\ h[a].next # NULL
    <3>1. CASE b = c
      <4>1. a = last => h[a].next # NULL
        BY <1>3, <1>7, <1>10
      <4>2. a # last => h[a].next # NULL
        <5> SUFFICES ASSUME a # last PROVE h[a].next # NULL
          OBVIOUS
        <5>1. h[a] = hdr[a] /\ last \in Chunk /\ a <= last
          BY <1>2, <1>3, <1>10, <1>14
        <5>2. a < last
          BY <1>3, <5>1
        <5> QED BY <5>1, <5>2 DEF ChunkInv, Links, Chunk
      <4> QED BY <1>4, <1>14, <3>1, <4>1, <4>2
    <3>2. CASE b # c
      <4>1. b \in Chunk /\ EndIn(hdr, a) <= b /\ hdr[a].next # NULL
        BY <2>3, <3>2 DEF ChunkInv, Links, Chunk
      <4>2. a # last
        BY <1>2, <4>1
      <4>3. h[a] = hdr[a]
        BY <1>3, <1>10, <1>14, <4>2
      <4> QED BY <1>14, <4>1, <4>3
    <3> QED BY <3>1, <3>2
  <2>4. ASSUME NEW b \in Chunk \cup {c}, c < b PROVE FALSE
    <3>1. b # c
      BY <1>6, <2>4
    <3> QED BY <1>3, <1>5, <1>6, <2>4, <3>1
  <2> QED BY <1>11, <1>13, <2>1, <2>2, <2>3, <2>4 DEF Links
<1>16. FreeBut(h, NULL)
  <2> SUFFICES ASSUME NEW a \in ChunksOf(h), a # NULL, h[a].allocated = 0
               PROVE  BackIn(h, a) /\ h[a].next # NULL /\ h[h[a].next].allocated = 1
    BY DEF FreeBut
  <2>1. a # c /\ a \in Chunk /\ a \in Addr /\ hdr[a].allocated = 0
    BY <1>3, <1>11, <1>12, <1>13
  <2>2. a # last /\ h[a] = hdr[a]
    BY <1>2, <1>10, <2>1
  <2>3. BackIn(hdr, a) /\ hdr[a].next # NULL /\ hdr[hdr[a].next].allocated = 1 /\ hdr[a].next \in Chunk
    BY <2>1 DEF ChunkInv, FreeBut, Links, Chunk
  <2>4. h[h[a].next].allocated = 1
    BY <1>3, <1>12, <1>14, <2>2, <2>3
  <2>5. BackIn(h, a)
    <3>1. CASE a = HEAP_START
      BY <2>2, <2>3, <3>1 DEF BackIn
    <3>2. CASE a # HEAP_START
      <4> DEFINE q == hdr[a].prev
      <4>1. q \in Chunk /\ hdr[q].next = a
        BY <2>3, <3>2 DEF BackIn, Chunk
      <4>2. q # last
        BY <1>2, <2>1, <1>3, <4>1
      <4> HIDE DEF q
      <4>3. h[q] = hdr[q]
        BY <1>3, <1>10, <1>14, <4>1, <4>2
      <4> QED BY <1>13, <2>2, <3>2, <4>1, <4>3 DEF BackIn, q
    <3> QED BY <3>1, <3>2
  <2> QED BY <2>2, <2>3, <2>4, <2>5
<1>17. Below(h, top)
  <2>1. \A a \in Chunk : EndIn(hdr, a) <= c
    BY <1>4
  <2>2. \A a \in Chunk : EndIn(h, a) \in Nat /\ EndIn(h, a) <= c
    BY <1>4, <1>14
  <2> QED BY <1>6, <1>11, <1>13, <2>2 DEF Below
<1>18. \A a \in Chunk : h[a].allocated = hdr[a].allocated /\ h[a].length = hdr[a].length
  BY <1>3, <1>12, <1>14
<1> QED BY <1>1, <1>2, <1>7, <1>10, <1>11, <1>13, <1>15, <1>16, <1>17, <1>18 DEF Good

--------------------------------------------------------------------------------
(* The calls, as far as the chunks go                                      *)

LEMMA LiveAdded ==
  ASSUME NEW h, NEW l, LiveIn(h, l), NEW g, NEW c \in ChunksOf(g), NEW n \in Request,
         g[c].allocated = 1, n + HEADER <= g[c].length, c \in ChunksOf(h) => h[c].allocated # 1,
         ChunksOf(h) \subseteq ChunksOf(g),
         \A a \in ChunksOf(h) \ {c} : g[a].allocated = h[a].allocated /\ g[a].length = h[a].length,
         \A a \in ChunksOf(g) \ (ChunksOf(h) \cup {c}) : g[a].allocated = 0
  PROVE  LiveIn(g, l \cup {[at |-> c + HEADER, len |-> n]})
<1> DEFINE new == [at |-> c + HEADER, len |-> n]
<1>1. c \in Nat /\ HEADER \in Nat /\ c + HEADER \in Nat /\ (c + HEADER) - HEADER = c
  <2>1. c \in Nat /\ HEADER \in Nat
    BY Space DEF ChunksOf
  <2> QED BY <2>1
<1>2. new \in [at : Nat, len : Request] /\ new.at = c + HEADER /\ new.len = n
  BY <1>1
<1> HIDE DEF new
<1>3. \A b \in l : /\ b \in [at : Nat, len : Request] /\ b.at - HEADER \in ChunksOf(h) /\ h[b.at - HEADER].allocated = 1
                   /\ b.len + HEADER <= h[b.at - HEADER].length /\ b.at - HEADER # c /\ b.at # new.at
  BY <1>1, <1>2 DEF LiveIn
<1>4. \A b \in l \cup {new} : /\ b \in [at : Nat, len : Request] /\ b.at - HEADER \in ChunksOf(g)
                              /\ g[b.at - HEADER].allocated = 1 /\ b.len + HEADER <= g[b.at - HEADER].length
  <2>1. ASSUME NEW b \in l PROVE /\ b.at - HEADER \in ChunksOf(g) /\ g[b.at - HEADER].allocated = 1
                                 /\ b.len + HEADER <= g[b.at - HEADER].length
    <3>1. b.at - HEADER \in ChunksOf(h) \ {c} /\ h[b.at - HEADER].allocated = 1 /\ b.len + HEADER <= h[b.at - HEADER].length
      BY <1>3
    <3>2. g[b.at - HEADER].allocated = h[b.at - HEADER].allocated /\ g[b.at - HEADER].length = h[b.at - HEADER].length
      BY <3>1
    <3> QED BY <3>1, <3>2
  <2>2. new.at - HEADER = c /\ new.len + HEADER <= g[c].length
    BY <1>1, <1>2
  <2> QED BY <1>2, <1>3, <2>1, <2>2
<1>5. ASSUME NEW a \in ChunksOf(g), g[a].allocated = 1 PROVE \E b \in l \cup {new} : b.at = a + HEADER
  <2>1. CASE a = c
    BY <1>2, <2>1
  <2>2. CASE a # c
    <3>1. a \in ChunksOf(h)
      BY <1>5, <2>2
    <3> QED BY <1>5, <2>2, <3>1 DEF LiveIn
  <2> QED BY <2>1, <2>2
<1>6. \A b, d \in l \cup {new} : b.at = d.at => b = d
  BY <1>3 DEF LiveIn
<1> QED BY <1>4, <1>5, <1>6 DEF LiveIn, new

LEMMA LiveRemoved ==
  ASSUME NEW h, h \in [Addr -> Header], NEW l, LiveIn(h, l), NEW b \in l, NEW g, NEW c, c = b.at - HEADER,
         \A a \in Addr : g[a].allocated = 1 <=> h[a].allocated = 1 /\ a # c,
         \A a \in Addr : g[a].allocated = 1 => g[a].length = h[a].length,
         ChunksOf(g) \subseteq ChunksOf(h)
  PROVE  LiveIn(g, l \ {b})
<1>1. ASSUME NEW d \in l \ {b}
      PROVE  /\ d \in [at : Nat, len : Request] /\ d.at - HEADER \in ChunksOf(g)
             /\ g[d.at - HEADER].allocated = 1 /\ d.len + HEADER <= g[d.at - HEADER].length
  <2>1. /\ d \in [at : Nat, len : Request] /\ d.at - HEADER \in ChunksOf(h) /\ h[d.at - HEADER].allocated = 1
        /\ d.len + HEADER <= h[d.at - HEADER].length /\ d.at # b.at /\ d.at \in Nat /\ b.at \in Nat
    BY DEF LiveIn
  <2>2. d.at - HEADER # c /\ d.at - HEADER \in Addr /\ h[d.at - HEADER].length > 0
    BY <2>1, Space DEF ChunksOf
  <2>3. g[d.at - HEADER].allocated = 1 /\ g[d.at - HEADER].length = h[d.at - HEADER].length
    BY <2>1, <2>2
  <2> QED BY <2>1, <2>2, <2>3 DEF ChunksOf
<1>2. ASSUME NEW a \in ChunksOf(g), g[a].allocated = 1 PROVE \E d \in l \ {b} : d.at = a + HEADER
  <2>1. a \in ChunksOf(h) /\ a \in Addr /\ a \in Nat /\ HEADER \in Nat
    BY Space DEF ChunksOf
  <2>2. h[a].allocated = 1 /\ a # c
    BY <1>2, <2>1
  <2>3. PICK d \in l : d.at = a + HEADER
    BY <2>1, <2>2 DEF LiveIn
  <2>4. d # b
    BY <2>1, <2>2, <2>3
  <2> QED BY <2>3, <2>4
<1>3. \A d, e \in l \ {b} : d.at = e.at => d = e
  BY DEF LiveIn
<1> QED BY <1>1, <1>2, <1>3 DEF LiveIn

LEMMA OldChunks ==
  ASSUME hdr \in [Addr -> Header], ChunkInv, LiveInv, heap_max \in Int, NEW n \in Request, KmallocOld(n)
  PROVE  hdr' \in [Addr -> Header] /\ ChunkInv' /\ LiveInv'
<1> DEFINE len == n + HEADER
           c   == List[Min(Fits(len))]
<1>1. n \in Nat /\ len \in Nat /\ len > 0
  BY Space, HeapAssumption
<1>2. c \in Chunk /\ hdr[c].allocated = 0 /\ hdr[c].length >= len
  <2>1. Fits(len) # {}
    BY DEF KmallocOld
  <2> HIDE DEF len
  <2> QED BY <2>1, FitFacts
<1>3. hdr' = SplitChunk(c, len) /\ live' = live \cup {[at |-> c + HEADER, len |-> n]} /\ pages' = pages /\ heap_first' = heap_first
  BY Zenon DEF KmallocOld, HandOut
<1> HIDE DEF c
<1>4. c \in Addr /\ hdr[c].length \in Nat
  BY <1>2, HeaderType DEF Chunk, ChunksOf
<1>5. PICK h : h = hdr'
  OBVIOUS
<1>6. Good(hdr, NULL, heap_max)
  BY DEF ChunkInv, Good
<1>7. len <= hdr[c].length
  BY <1>1, <1>2, <1>4
<1> HIDE DEF len
<1>8. h = SplitChunk(c, len)
  BY <1>3, <1>5
<1>9. /\ Good(h, NULL, heap_max) /\ Chunk \subseteq ChunksOf(h)
      /\ h[c].allocated = 1 /\ len <= h[c].length
      /\ \A a \in Chunk \ {c} : h[a] = hdr[a]
      /\ \A a \in ChunksOf(h) \ Chunk : h[a].allocated = 0
  BY <1>1, <1>2, <1>6, <1>7, <1>8, Split
<1>10. LiveIn(h, live')
  <2>1. LiveIn(hdr, live) /\ c \in ChunksOf(h) /\ n + HEADER <= h[c].length /\ ChunksOf(hdr) = Chunk /\ hdr[c].allocated # 1
    BY <1>2, <1>9 DEF LiveInv, Chunk, len
  <2>2. LiveIn(h, live \cup {[at |-> c + HEADER, len |-> n]})
    BY <1>9, <2>1, LiveAdded
  <2> QED BY <1>3, <2>2
<1>11. heap_max' = heap_max
  BY <1>3 DEF heap_max
<1>12. Chunk # {} /\ HEAP_START \in ChunksOf(h) /\ heap_first' = HEAP_START
  BY <1>2, <1>3, <1>9 DEF ChunkInv
<1>13. hdr' \in [Addr -> Header] /\ Links(hdr') /\ FreeBut(hdr', NULL) /\ Below(hdr', heap_max) /\ HEAP_START \in ChunksOf(hdr')
       /\ LiveIn(hdr', live')
  BY <1>5, <1>9, <1>10, <1>12 DEF Good
<1> QED BY <1>11, <1>12, <1>13 DEF ChunkInv, LiveInv, Chunk

LEMMA NewChunks ==
  ASSUME hdr \in [Addr -> Header], ChunkInv, LiveInv, heap_max \in Int, NEW n \in Request, KmallocNew(n),
         heap_max' \in Int, heap_max <= heap_max', ChunkStart + (n + HEADER) <= heap_max'
  PROVE  hdr' \in [Addr -> Header] /\ ChunkInv' /\ LiveInv'
<1> DEFINE len == n + HEADER
           c   == ChunkStart
           k   == [hdr EXCEPT ![c] = [prev |-> LastChunk, next |-> NULL, allocated |-> 1, length |-> len]]
<1>1. n \in Nat /\ len \in Nat /\ len > 0
  BY Space, HeapAssumption
<1>2. /\ c + len <= Limit
      /\ hdr' = Extended(c, LastChunk, len)
      /\ heap_first' = IF LastChunk = NULL THEN c ELSE heap_first
      /\ live' = live \cup {[at |-> c + HEADER, len |-> n]}
  BY Zenon DEF KmallocNew, HandOut, Limit, LastChunk, Extended
<1> HIDE DEF len
<1>3. PICK h : h = hdr'
  OBVIOUS
<1>4. PICK top : top = heap_max'
  OBVIOUS
<1>5. h = Extended(c, LastChunk, len) /\ top \in Int /\ heap_max <= top /\ c + len <= top
  BY <1>2, <1>3, <1>4 DEF len
<1>6. /\ Good(h, NULL, top) /\ ChunksOf(h) = Chunk \cup {c} /\ c \notin Chunk /\ c \in Addr
      /\ h[c].allocated = 1 /\ h[c].length = len /\ (LastChunk = NULL <=> Chunk = {}) /\ (LastChunk = NULL => c = HEAP_START)
      /\ \A a \in Chunk : h[a].allocated = hdr[a].allocated /\ h[a].length = hdr[a].length
  <2> HIDE DEF c
  <2>1. c = ChunkStart
    BY DEF c
  <2> QED BY <1>1, <1>2, <1>5, <2>1, Appended
<1> HIDE DEF c
<1>7. LiveIn(h, live')
  <2>1. LiveIn(hdr, live) /\ c \in ChunksOf(h) /\ n + HEADER <= h[c].length /\ ChunksOf(hdr) = Chunk
    BY <1>1, <1>6 DEF LiveInv, Chunk, len
  <2>2. LiveIn(h, live \cup {[at |-> c + HEADER, len |-> n]})
    BY <1>6, <2>1, LiveAdded
  <2> QED BY <1>2, <2>2
<1>8. heap_first' = HEAP_START /\ HEAP_START \in ChunksOf(h)
  BY <1>2, <1>6 DEF ChunkInv
<1>9. hdr' \in [Addr -> Header] /\ Links(hdr') /\ FreeBut(hdr', NULL) /\ Below(hdr', heap_max') /\ HEAP_START \in ChunksOf(hdr')
       /\ LiveIn(hdr', live')
  BY <1>3, <1>4, <1>6, <1>7, <1>8 DEF Good
<1> QED BY <1>8, <1>9 DEF ChunkInv, LiveInv, Chunk

\* The chunk of a block b, the memory when both halves of glue_chunk are done,
\* and the chunk that is free then.
ChunkOf(b) == b.at - HEADER
Half1(b)   == GlueNext([hdr EXCEPT ![ChunkOf(b)].allocated = 0], ChunkOf(b))
Half2(b)   == GluePrev(Half1(b), ChunkOf(b))
Freed(b)   == IF GluesPrev(Half1(b), ChunkOf(b)) THEN Half1(b)[ChunkOf(b)].prev ELSE ChunkOf(b)

\* While no chunk with a stale link has been returned, kfree finds what is recorded.
LEMMA KfreeSteps ==
  ASSUME hdr \in [Addr -> Header], ChunkInv, LiveInv, NEW b \in live, Kfree(b), ~stale'
  PROVE  /\ Accurate(ChunkOf(b))
         /\ live' = live \ {b} /\ held' = held
         /\ Half2(b)[Freed(b)].next # NULL => hdr' = Half2(b) /\ heap_first' = heap_first /\ pages' = pages
         /\ Half2(b)[Freed(b)].next = NULL =>
              /\ heap_first' = IF Half2(b)[Freed(b)].prev = NULL THEN NULL ELSE heap_first
              /\ hdr' = Dropped(Half2(b), Freed(b))
              /\ \E junk \in Page : pages' = ReleasePages(WholePages(Freed(b)), junk)
<1>1. Accurate(ChunkOf(b)) /\ live' = live \ {b} /\ held' = held
  BY Zenon DEF Kfree, ChunkOf
<1>2. ChunkOf(b) \in Chunk
  BY DEF LiveInv, LiveIn, ChunkOf, Chunk
<1>3. BackIn(hdr, ChunkOf(b))
  BY <1>1, <1>2, AccurateBack
<1>4. hdr[ChunkOf(b)].prev = NULL \/ hdr[hdr[ChunkOf(b)].prev].length > 0
  BY <1>3 DEF BackIn, ChunksOf
<1>5. Memories(ChunkOf(b)) = {hdr}
  BY <1>4, Zenon DEF Memories
<1>6. \E m \in {hdr} :
        LET h1 == GlueNext([m EXCEPT ![ChunkOf(b)].allocated = 0], ChunkOf(b))
            h  == GluePrev(h1, ChunkOf(b))
            g  == IF GluesPrev(h1, ChunkOf(b)) THEN h1[ChunkOf(b)].prev ELSE ChunkOf(b)
        IN IF h[g].next # NULL
           THEN hdr' = h /\ heap_first' = heap_first /\ pages' = pages
           ELSE /\ heap_first' = IF h[g].prev = NULL THEN NULL ELSE heap_first
                /\ hdr' = Dropped(h, g)
                /\ \E junk \in Page : pages' = ReleasePages(WholePages(g), junk)
  BY <1>5, Zenon DEF Kfree, ChunkOf, Dropped
<1> QED BY <1>1, <1>6, Zenon DEF Half1, Half2, Freed

LEMMA KeptTwice ==
  ASSUME NEW h, NEW g, NEW k, Kept(h, g), Kept(g, k)
  PROVE  Kept(h, k)
<1>1. ChunksOf(k) \subseteq ChunksOf(h) /\ (HEAP_START \in ChunksOf(h) => HEAP_START \in ChunksOf(k))
  BY DEF Kept
<1>2. \A a \in Addr : (k[a].allocated = 1 <=> h[a].allocated = 1) /\ (h[a].allocated = 1 => k[a].length = h[a].length)
  BY DEF Kept
<1> QED BY <1>1, <1>2 DEF Kept

LEMMA FreedFacts ==
  ASSUME hdr \in [Addr -> Header], ChunkInv, LiveInv, heap_max \in Int, heap_max <= Limit,
         NEW b \in live, Accurate(ChunkOf(b))
  PROVE  /\ ChunkOf(b) \in Chunk /\ hdr[ChunkOf(b)].allocated = 1
         /\ Half(Half2(b), Freed(b), heap_max) /\ NextInUse(Half2(b), Freed(b)) /\ PrevInUse(Half2(b), Freed(b))
         /\ ChunksOf(Half2(b)) \subseteq Chunk /\ HEAP_START \in ChunksOf(Half2(b))
         /\ \A a \in Addr : Half2(b)[a].allocated = 1 <=> hdr[a].allocated = 1 /\ a # ChunkOf(b)
         /\ \A a \in Addr : Half2(b)[a].allocated = 1 => Half2(b)[a].length = hdr[a].length
         /\ Freed(b) \in Addr /\ Freed(b) <= heap_max
<1> DEFINE c == ChunkOf(b)
<1>1. c \in Chunk /\ hdr[c].allocated = 1
  BY DEF LiveInv, LiveIn, ChunkOf, Chunk
<1>2. Good(hdr, NULL, heap_max) /\ HEAP_START \in Chunk /\ BackIn(hdr, c)
  BY <1>1, AccurateBack DEF Good, ChunkInv
<1>0. PICK h0 : h0 = Unmarked(c)
  OBVIOUS
<1>3. Half1(b) = GlueNext(h0, c) /\ Half2(b) = GluePrev(Half1(b), c)
  BY <1>0, Zenon DEF Half1, Half2, Unmarked
<1>4. Freed(b) = IF GluesPrev(Half1(b), c) THEN Half1(b)[c].prev ELSE c
  BY Zenon DEF Freed
<1> HIDE DEF c
<1>5. /\ Half(h0, c, heap_max) /\ ChunksOf(h0) = Chunk
      /\ \A a \in Addr : h0[a].length = hdr[a].length
      /\ \A a \in Addr : h0[a].allocated = 1 <=> hdr[a].allocated = 1 /\ a # c
  BY <1>0, <1>1, <1>2, MarkFree
<1>6. Half(Half1(b), c, heap_max) /\ Kept(h0, Half1(b)) /\ NextInUse(Half1(b), c)
  BY <1>3, <1>5, GluedNext
<1>7. /\ Half(Half2(b), Freed(b), heap_max) /\ Kept(Half1(b), Half2(b)) /\ NextInUse(Half2(b), Freed(b))
      /\ PrevInUse(Half2(b), Freed(b))
  BY <1>3, <1>4, <1>6, GluedPrev
<1>8. Kept(h0, Half2(b))
  BY <1>6, <1>7, KeptTwice
<1>9. ChunksOf(Half2(b)) \subseteq Chunk /\ HEAP_START \in ChunksOf(Half2(b))
  BY <1>2, <1>5, <1>8 DEF Kept
<1>10. /\ \A a \in Addr : Half2(b)[a].allocated = 1 <=> hdr[a].allocated = 1 /\ a # c
       /\ \A a \in Addr : Half2(b)[a].allocated = 1 => Half2(b)[a].length = hdr[a].length
  BY <1>5, <1>8 DEF Kept
<1>11. Freed(b) \in Addr /\ Freed(b) <= heap_max
  <2>1. PICK h : h = Half2(b)
    OBVIOUS
  <2>2. PICK g : g = Freed(b)
    OBVIOUS
  <2>3. g \in ChunksOf(h) /\ EndIn(h, g) <= heap_max /\ h \in [Addr -> Header]
    BY <1>7, <2>1, <2>2 DEF Half, Good, Below
  <2>4. g \in Addr /\ g \in Nat /\ h[g].length \in Nat /\ EndIn(h, g) = g + h[g].length
    BY <2>3, HeaderType DEF ChunksOf, EndIn
  <2> QED BY <2>2, <2>3, <2>4
<1> QED BY <1>1, <1>7, <1>9, <1>10, <1>11 DEF c

LEMMA FreeChunks ==
  ASSUME hdr \in [Addr -> Header], ChunkInv, LiveInv, heap_max \in Int, heap_max <= Limit, ~stale',
         NEW b \in live, Kfree(b),
         Half2(b)[Freed(b)].next = NULL => heap_max' \in Int /\ Freed(b) <= heap_max'
  PROVE  hdr' \in [Addr -> Header] /\ ChunkInv' /\ LiveInv'
<1> DEFINE c == ChunkOf(b)
<1>1. Accurate(c) /\ live' = live \ {b}
  BY KfreeSteps
<1>2. /\ c \in Chunk /\ hdr[c].allocated = 1
      /\ Half(Half2(b), Freed(b), heap_max) /\ NextInUse(Half2(b), Freed(b)) /\ PrevInUse(Half2(b), Freed(b))
      /\ ChunksOf(Half2(b)) \subseteq Chunk /\ HEAP_START \in ChunksOf(Half2(b))
      /\ \A a \in Addr : Half2(b)[a].allocated = 1 <=> hdr[a].allocated = 1 /\ a # c
      /\ \A a \in Addr : Half2(b)[a].allocated = 1 => Half2(b)[a].length = hdr[a].length
  BY <1>1, FreedFacts
<1>3. PICK h : h = Half2(b)
  OBVIOUS
<1>4. PICK x : x = Freed(b)
  OBVIOUS
<1>5. heap_first = HEAP_START /\ LiveIn(hdr, live) /\ Chunk = ChunksOf(hdr) /\ c = b.at - HEADER
  BY <1>2 DEF ChunkInv, LiveInv, Chunk, ChunkOf
<1> HIDE DEF c
<1>6. PICK g : g = hdr'
  OBVIOUS
<1>7. CASE h[x].next # NULL
  <2>1. g = h /\ heap_first' = heap_first /\ pages' = pages
    BY <1>3, <1>4, <1>6, <1>7, KfreeSteps
  <2>2. Good(g, NULL, heap_max)
    BY <1>2, <1>3, <1>4, <1>7, <2>1, ReturnedInside
  <2>3. LiveIn(g, live \ {b})
    BY <1>2, <1>3, <1>5, <2>1, LiveRemoved
  <2>4. heap_max' = heap_max
    BY <2>1 DEF heap_max
  <2>5. hdr' \in [Addr -> Header] /\ Links(hdr') /\ FreeBut(hdr', NULL) /\ Below(hdr', heap_max) /\ HEAP_START \in ChunksOf(hdr')
         /\ LiveIn(hdr', live') /\ heap_first' = HEAP_START
    BY <1>1, <1>2, <1>3, <1>5, <1>6, <2>1, <2>2, <2>3 DEF Good
  <2> QED BY <2>4, <2>5 DEF ChunkInv, LiveInv, Chunk
<1>8. CASE h[x].next = NULL
  <2>1. g = Dropped(h, x) /\ heap_first' = IF h[x].prev = NULL THEN NULL ELSE heap_first
    BY <1>3, <1>4, <1>6, <1>8, KfreeSteps
  <2>2. /\ Good(g, NULL, x) /\ ChunksOf(g) = ChunksOf(h) \ {x}
        /\ h[x].prev = NULL => ChunksOf(g) = {}
        /\ h[x].prev # NULL => x # HEAP_START
        /\ \A a \in Addr : g[a].allocated = 1 <=> h[a].allocated = 1
        /\ \A a \in Addr : h[a].allocated = 1 => g[a].length = h[a].length
    BY <1>2, <1>3, <1>4, <1>8, <2>1, ReturnedLast
  <2>3. LiveIn(g, live \ {b})
    <3>1. ChunksOf(g) \subseteq ChunksOf(hdr)
      BY <1>2, <1>3, <1>5, <2>2
    <3>2. /\ \A a \in Addr : g[a].allocated = 1 <=> hdr[a].allocated = 1 /\ a # c
          /\ \A a \in Addr : g[a].allocated = 1 => g[a].length = hdr[a].length
      BY <1>2, <1>3, <2>2
    <3> QED BY <1>5, <3>1, <3>2, LiveRemoved
  <2>4. Below(g, heap_max')
    <3>1. PICK t : t = heap_max'
      OBVIOUS
    <3>2. t \in Int /\ x <= t
      BY <1>3, <1>4, <1>8, <3>1
    <3>3. \A a \in ChunksOf(g) : EndIn(g, a) \in Nat
      BY <2>2, HeaderType DEF Good, ChunksOf
    <3>4. x \in Nat
      BY <1>2, <1>3, <1>4, Space DEF Half, ChunksOf
    <3>5. Below(g, t)
      BY <2>2, <3>2, <3>3, <3>4 DEF Good, Below
    <3> QED BY <3>1, <3>5
  <2>5. /\ heap_first' = IF ChunksOf(g) = {} THEN NULL ELSE HEAP_START
        /\ ChunksOf(g) # {} => HEAP_START \in ChunksOf(g)
    BY <1>2, <1>3, <1>5, <2>1, <2>2
  <2>6. hdr' \in [Addr -> Header] /\ Links(hdr') /\ FreeBut(hdr', NULL) /\ Below(hdr', heap_max')
         /\ LiveIn(hdr', live') /\ heap_first' = (IF ChunksOf(hdr') = {} THEN NULL ELSE HEAP_START)
         /\ (ChunksOf(hdr') # {} => HEAP_START \in ChunksOf(hdr'))
    BY <1>1, <1>6, <2>2, <2>3, <2>4, <2>5 DEF Good
  <2> QED BY <2>6 DEF ChunkInv, LiveInv, Chunk
<1> QED BY <1>7, <1>8

--------------------------------------------------------------------------------
(* The pages                                                               *)

\* The two parts of a page number.
LEMMA Index ==
  ASSUME NEW v \in Nat
  PROVE  /\ PGD_INDEX(v) \in Nat /\ PTE_INDEX(v) \in 0 .. PTE_SIZE - 1
         /\ \A w \in Nat : PGD_INDEX(v) = PGD_INDEX(w) /\ PTE_INDEX(v) = PTE_INDEX(w) => v = w
<1>1. PTE_SIZE \in Nat \ {0}
  BY PagesAssumption
<1>2. v \div PTE_SIZE \in Nat /\ v % PTE_SIZE \in 0 .. PTE_SIZE - 1
  BY <1>1
<1>3. ASSUME NEW w \in Nat, v \div PTE_SIZE = w \div PTE_SIZE, v % PTE_SIZE = w % PTE_SIZE PROVE v = w
  <2>1. v = PTE_SIZE * (v \div PTE_SIZE) + (v % PTE_SIZE)
    BY <1>1
  <2>2. w = PTE_SIZE * (w \div PTE_SIZE) + (w % PTE_SIZE)
    BY <1>1
  <2>3. PTE_SIZE * (v \div PTE_SIZE) + (v % PTE_SIZE) = PTE_SIZE * (w \div PTE_SIZE) + (w % PTE_SIZE)
    BY <1>3, Zenon
  <2> QED BY <2>1, <2>2, <2>3, Zenon
<1> QED BY <1>2, <1>3 DEF PGD_INDEX, PTE_INDEX

\* Where the entry of a page of the heap is.
LEMMA Place ==
  ASSUME NEW v \in HEAP_PAGE .. HEAP_PAGE + HeapPages - 1
  PROVE  v \in Nat /\ PGD_INDEX(v) \in Pgd /\ PTE_INDEX(v) \in 0 .. PTE_SIZE - 1 /\ PGD_INDEX(v) \in 0 .. PTE_SIZE - 1
<1>1. v \in Nat
  BY Space
<1> QED BY <1>1, Index, HeapAssumption, PagesAssumption

Cut(s, n) == SubSeq(s, 1, Len(s) - n)
Front(s)  == Cut(s, 1)
Last(s)   == s[Len(s)]

\* Taking the last element of a sequence without repetition, and adding one.
LEMMA Taken ==
  ASSUME NEW s \in Seq(Page), NEW n \in Nat, n <= Len(s), Once(s), NEW t, t = Cut(s, n)
  PROVE  /\ t \in Seq(Page) /\ Len(t) = Len(s) - n /\ Once(t)
         /\ Elems(t) = Elems(s) \ {s[k] : k \in Len(s) - n + 1 .. Len(s)}
<1> DEFINE l == Len(s) - n
<1>1. Len(s) \in Nat /\ l \in Nat /\ l <= Len(s) /\ DOMAIN s = 1 .. Len(s)
  OBVIOUS
<1>2. t \in Seq(Page) /\ Len(t) = l /\ \A k \in 1 .. l : t[k] = s[k]
  <2> DEFINE u == SubSeq(s, 1, l)
  <2>1. u \in Seq(Page) /\ Len(u) = l /\ \A k \in 1 .. l : u[k] = s[k]
    BY <1>1
  <2>2. t = u
    BY DEF Cut
  <2> HIDE DEF u
  <2> QED BY <2>1, <2>2
<1>3. DOMAIN t = 1 .. l
  BY <1>2
<1>4. Once(t)
  BY <1>1, <1>2, <1>3 DEF Once
<1>5. Elems(t) = Elems(s) \ {s[k] : k \in l + 1 .. Len(s)}
  <2>1. ASSUME NEW k \in 1 .. l PROVE t[k] \in Elems(s) \ {s[j] : j \in l + 1 .. Len(s)}
    <3> HIDE DEF l
    <3>1. t[k] = s[k] /\ k \in DOMAIN s
      BY <1>1, <1>2
    <3>2. ASSUME NEW j \in l + 1 .. Len(s) PROVE s[j] # s[k]
      <4>1. j \in DOMAIN s /\ j # k
        BY <1>1
      <4> QED BY <3>1, <4>1 DEF Once
    <3> QED BY <3>1, <3>2 DEF Elems
  <2>2. ASSUME NEW j \in DOMAIN s, s[j] \notin {s[k] : k \in l + 1 .. Len(s)} PROVE \E k \in 1 .. l : t[k] = s[j]
    <3>1. j \in 1 .. l
      BY <1>1, <2>2
    <3> QED BY <1>2, <3>1
  <2> HIDE DEF l
  <2>3. Elems(t) \subseteq Elems(s) \ {s[j] : j \in l + 1 .. Len(s)}
    BY <1>3, <2>1 DEF Elems
  <2>4. Elems(s) \ {s[j] : j \in l + 1 .. Len(s)} \subseteq Elems(t)
    BY <1>3, <2>2 DEF Elems
  <2> QED BY <2>3, <2>4
<1> QED BY <1>2, <1>4, <1>5

LEMMA TakenLast ==
  ASSUME NEW s \in Seq(Page), Once(s), Len(s) >= 1
  PROVE  /\ Front(s) \in Seq(Page) /\ Len(Front(s)) = Len(s) - 1 /\ Once(Front(s))
         /\ Elems(Front(s)) = Elems(s) \ {Last(s)} /\ Last(s) \in Elems(s) /\ Last(s) \in Page
<1>1. Len(s) \in Nat /\ DOMAIN s = 1 .. Len(s)
  OBVIOUS
<1>2. {s[k] : k \in Len(s) - 1 + 1 .. Len(s)} = {Last(s)}
  BY <1>1 DEF Last
<1>3. Last(s) \in Elems(s) /\ Last(s) \in Page
  BY <1>1 DEF Elems, Last
<1> QED BY <1>2, <1>3, Taken DEF Front

LEMMA Given ==
  ASSUME NEW s \in Seq(Page), NEW p \in Page, p \notin Elems(s), Once(s)
  PROVE  Append(s, p) \in Seq(Page) /\ Once(Append(s, p)) /\ Elems(Append(s, p)) = Elems(s) \cup {p}
<1> DEFINE t == Append(s, p)
           n == Len(s)
<1>1. n \in Nat /\ DOMAIN s = 1 .. n
  OBVIOUS
<1>2. t \in Seq(Page) /\ DOMAIN t = 1 .. n + 1 /\ t[n + 1] = p /\ \A k \in 1 .. n : t[k] = s[k]
  OBVIOUS
<1> HIDE DEF t, n
<1>3. 1 .. n + 1 = (1 .. n) \cup {n + 1}
  BY <1>1
<1>4. Once(t)
  <2> SUFFICES ASSUME NEW j \in (1 .. n) \cup {n + 1}, NEW k \in (1 .. n) \cup {n + 1}, t[j] = t[k] PROVE j = k
    BY <1>2, <1>3 DEF Once
  <2>1. \A i \in 1 .. n : t[i] = s[i] /\ s[i] # p
    BY <1>1, <1>2 DEF Elems
  <2> QED BY <1>1, <1>2, <2>1 DEF Once
<1>5. Elems(t) = Elems(s) \cup {p}
  BY <1>1, <1>2, <1>3 DEF Elems
<1> QED BY <1>2, <1>4, <1>5 DEF t

\* The record of module Pages, and what the operators make of it.
Rec(s, x, d, e) == [stack |-> s, max |-> x, pgd |-> d, pte |-> e]
At(d, i, p)       == [d EXCEPT ![i] = p]
Entry(e, i, j, p) == [e EXCEPT ![i][j] = p]

LEMMA RecPmm ==
  ASSUME NEW s, NEW x, NEW d, NEW e, NEW p, NEW m, m = Rec(s, x, d, e)
  PROVE  /\ PmmTop(m) = Last(s)
         /\ PmmAllocPage(m) = Rec(Front(s), x, d, e)
         /\ PmmFreePage(m, p) = Rec(Append(s, p), x, d, e)
<1>0. m.stack = s
  BY DEF Rec
<1>1. PmmAllocPage(m) = [m EXCEPT !.stack = Front(s)] /\ PmmTop(m) = Last(s)
  BY <1>0, Zenon DEF PmmAllocPage, PmmTop, Front, Cut, Last
<1>2. PmmFreePage(m, p) = [m EXCEPT !.stack = Append(s, p)]
  BY <1>0, Zenon DEF PmmFreePage
<1>3. [m EXCEPT !.stack = Front(s)] = Rec(Front(s), x, d, e) /\ [m EXCEPT !.stack = Append(s, p)] = Rec(Append(s, p), x, d, e)
  BY DEF Rec
<1> QED BY <1>1, <1>2, <1>3

LEMMA RecMap ==
  ASSUME NEW s, NEW x, NEW d, NEW e, NEW m, m = Rec(s, x, d, e), NEW v, NEW p,
         NEW i, i = PGD_INDEX(v), NEW j, j = PTE_INDEX(v)
  PROVE  /\ d[i] # 0 => Map(m, v, p) = Rec(s, x, d, Entry(e, i, j, p))
         /\ d[i] = 0 => Map(m, v, p) = Rec(Front(s), x, At(d, i, Last(s)), Entry(At(e, i, ZeroTable), i, j, p))
         /\ Unmap(m, v) = IF d[i] = 0 THEN m ELSE Rec(s, x, d, Entry(e, i, i, 0))
         /\ GetMapping(m, v) = IF d[i] = 0 THEN 0 ELSE e[i][j]
<1>0. m.stack = s /\ m.max = x /\ m.pgd = d /\ m.pte = e
  BY DEF Rec
<1>1. ASSUME d[i] # 0 PROVE Map(m, v, p) = Rec(s, x, d, [e EXCEPT ![i][j] = p])
  <2>1. Map(m, v, p) = [m EXCEPT !.pte[i][j] = p]
    BY <1>0, <1>1, Zenon DEF Map
  <2>2. [m EXCEPT !.pte[i][j] = p] = Rec(s, x, d, [e EXCEPT ![i][j] = p])
    BY DEF Rec
  <2> QED BY <1>1, <2>1, <2>2
<1>2. ASSUME d[i] = 0
      PROVE  Map(m, v, p) = Rec(Front(s), x, [d EXCEPT ![i] = Last(s)], [[e EXCEPT ![i] = ZeroTable] EXCEPT ![i][j] = p])
  <2> DEFINE t == [PmmAllocPage(m) EXCEPT !.pgd[i] = PmmTop(m), !.pte[i] = ZeroTable]
  <2>1. Map(m, v, p) = [t EXCEPT !.pte[i][j] = p]
    BY <1>0, <1>2, Zenon DEF Map
  <2>2. PICK r : r = PmmAllocPage(m)
    OBVIOUS
  <2>3. r = Rec(Front(s), x, d, e) /\ PmmTop(m) = Last(s)
    BY <2>2, RecPmm
  <2>4. PICK c, f : c = [d EXCEPT ![i] = Last(s)] /\ f = [e EXCEPT ![i] = ZeroTable]
    OBVIOUS
  <2>5. t = Rec(Front(s), x, c, f)
    <3>1. t = [r EXCEPT !.pgd[i] = Last(s), !.pte[i] = ZeroTable]
      BY <2>2, <2>3, Zenon
    <3>2. [r EXCEPT !.pgd[i] = Last(s), !.pte[i] = ZeroTable]
            = [r EXCEPT !.pgd = [r.pgd EXCEPT ![i] = Last(s)], !.pte = [r.pte EXCEPT ![i] = ZeroTable]]
      BY SMT
    <3>3. r.pgd = d /\ r.pte = e
      BY <2>3 DEF Rec
    <3>4. [r EXCEPT !.pgd = c, !.pte = f] = Rec(Front(s), x, c, f)
      <4> HIDE <2>4
      <4>1. PICK q : q = [r EXCEPT !.pgd = c]
        OBVIOUS
      <4>2. q = Rec(Front(s), x, c, e)
        BY <2>3, <4>1 DEF Rec
      <4>3. [q EXCEPT !.pte = f] = Rec(Front(s), x, c, f)
        BY <4>2 DEF Rec
      <4>4. [r EXCEPT !.pgd = c, !.pte = f] = [[r EXCEPT !.pgd = c] EXCEPT !.pte = f]
        BY Zenon
      <4> QED BY <4>1, <4>3, <4>4, Zenon
    <3> QED BY <2>4, <3>1, <3>2, <3>3, <3>4, Zenon
  <2> HIDE DEF t
  <2>8. [t EXCEPT !.pte[i][j] = p] = Rec(Front(s), x, c, [f EXCEPT ![i][j] = p])
    <3> HIDE <2>4
    <3> QED BY <2>5 DEF Rec
  <2>9. Map(m, v, p) = Rec(Front(s), x, c, [f EXCEPT ![i][j] = p])
    BY <2>1, <2>8
  <2> QED BY <2>4, <2>9, Zenon
<1>3. Unmap(m, v) = IF d[i] = 0 THEN m ELSE Rec(s, x, d, [e EXCEPT ![i][i] = 0])
  <2>1. [m EXCEPT !.pte[i][i] = 0] = Rec(s, x, d, [e EXCEPT ![i][i] = 0])
    BY DEF Rec
  <2>2. Unmap(m, v) = IF d[i] = 0 THEN m ELSE [m EXCEPT !.pte[i][i] = 0]
    BY <1>0, Zenon DEF Unmap
  <2> QED BY <2>1, <2>2, Zenon
<1>4. GetMapping(m, v) = IF d[i] = 0 THEN 0 ELSE e[i][j]
  BY <1>0, Zenon DEF GetMapping
<1> QED BY <1>1, <1>2, <1>3, <1>4, Zenon DEF At, Entry

LEMMA RecAdd ==
  ASSUME NEW s, NEW x, NEW d, NEW e, NEW m, m = Rec(s, x, d, e), NEW i, i = PGD_INDEX(x), NEW j, j = PTE_INDEX(x)
  PROVE  /\ d[i] # 0 => AddPage(m) = Rec(Front(s), x + 1, d, Entry(e, i, j, Last(s)))
         /\ d[i] = 0 => AddPage(m) = Rec(Front(Front(s)), x + 1, At(d, i, Last(Front(s))),
                                         Entry(At(e, i, ZeroTable), i, j, Last(s)))
<1>1. PICK a : a = PmmAllocPage(m)
  OBVIOUS
<1>2. a = Rec(Front(s), x, d, e) /\ PmmTop(m) = Last(s) /\ m.max = x
  <2>1. m.max = x
    BY DEF Rec
  <2> QED BY <1>1, <2>1, RecPmm
<1>3. PICK b : b = Map(a, x, Last(s))
  OBVIOUS
<1>4. AddPage(m) = [b EXCEPT !.max = b.max + 1]
  BY <1>1, <1>2, <1>3, Zenon DEF AddPage
<1>5. ASSUME NEW s2, NEW d2, NEW e2, b = Rec(s2, x, d2, e2) PROVE AddPage(m) = Rec(s2, x + 1, d2, e2)
  <2>1. PICK y : y = x + 1
    OBVIOUS
  <2>2. b.max = x
    BY <1>5 DEF Rec
  <2>3. [b EXCEPT !.max = y] = Rec(s2, y, d2, e2)
    BY <1>5 DEF Rec
  <2> QED BY <1>4, <2>1, <2>2, <2>3, Zenon
<1>6. PICK p : p = Last(s)
  OBVIOUS
<1>7. PICK f : f = Front(s)
  OBVIOUS
<1>8. ASSUME d[i] # 0 PROVE AddPage(m) = Rec(Front(s), x + 1, d, Entry(e, i, j, Last(s)))
  <2>1. b = Rec(f, x, d, Entry(e, i, j, p))
    BY <1>2, <1>3, <1>6, <1>7, <1>8, RecMap
  <2> QED BY <1>5, <1>6, <1>7, <2>1, Zenon
<1>9. ASSUME d[i] = 0
      PROVE  AddPage(m) = Rec(Front(Front(s)), x + 1, At(d, i, Last(Front(s))), Entry(At(e, i, ZeroTable), i, j, Last(s)))
  <2>1. b = Rec(Front(f), x, At(d, i, Last(f)), Entry(At(e, i, ZeroTable), i, j, p))
    BY <1>2, <1>3, <1>6, <1>7, <1>9, RecMap
  <2> QED BY <1>5, <1>6, <1>7, <2>1, Zenon
<1> QED BY <1>8, <1>9

SameMap(g, m, s) == \A w \in s : GetMapping(g, w) = GetMapping(m, w)

\* What holds of the record of the pages, whatever is on them.
RecType(m) ==
  /\ m = Rec(m.stack, m.max, m.pgd, m.pte)
  /\ m.stack \in Seq(Page) /\ Once(m.stack)
  /\ m.pgd \in [Pgd -> Page \cup {0}] /\ m.pte \in [Pgd -> [0 .. PTE_SIZE - 1 -> Page \cup {0}]]

\* A page more for the heap; what else was taken became tables.
LEMMA Grown ==
  ASSUME NEW h, NEW m, PagesOK(m, h), m.max < HEAP_PAGE + HeapPages,
         NEW g, RecType(g), g.max = m.max + 1, SameMap(g, m, HeapOf(m)),
         Free(g) \subseteq Free(m), GetMapping(g, m.max) \in Free(m) \ Free(g),
         Tables(g) = Tables(m) \cup ((Free(m) \ Free(g)) \ {GetMapping(g, m.max)})
  PROVE  PagesOK(g, h)
<1> DEFINE p == GetMapping(g, m.max)
           t == (Free(m) \ Free(g)) \ {p}
<1>1. Free(g) = Free(m) \ ({p} \cup t) /\ p \in Free(m) /\ t \subseteq Free(m) /\ p \notin t /\ Tables(g) = Tables(m) \cup t
  OBVIOUS
<1> HIDE DEF t
<1>2. m.max \in Nat /\ HEAP_PAGE \in Nat /\ HeapPages \in Nat /\ HEAP_PAGE <= m.max
  BY Space DEF PagesOK
<1>3. g.max \in HEAP_PAGE .. HEAP_PAGE + HeapPages
  BY <1>2
<1>4. HeapOf(g) = HeapOf(m) \cup {m.max} /\ m.max \notin HeapOf(m)
  BY <1>2 DEF HeapOf
<1>5. /\ h \cap Free(m) = {} /\ h \cap Tables(m) = {} /\ Free(m) \cap Tables(m) = {} /\ Free(m) \subseteq Page
      /\ \A v \in HeapOf(m) : GetMapping(m, v) \in Page \ (h \cup Tables(m) \cup Free(m))
      /\ \A v, w \in HeapOf(m) : GetMapping(m, v) = GetMapping(m, w) => v = w
      /\ Page \subseteq Free(m) \cup h \cup Tables(m) \cup {GetMapping(m, v) : v \in HeapOf(m)}
      /\ h \subseteq Page
  <2>1. Free(m) \subseteq Page
    BY DEF PagesOK, Free, Elems
  <2> QED BY <2>1 DEF PagesOK
<1>6. h \cap Free(g) = {} /\ h \cap Tables(g) = {} /\ Free(g) \cap Tables(g) = {}
  BY <1>1, <1>5
<1>7. p \in Page \ (h \cup Tables(g) \cup Free(g))
  BY <1>1, <1>5
<1>8. \A v \in HeapOf(g) : GetMapping(g, v) \in Page \ (h \cup Tables(g) \cup Free(g))
  BY <1>1, <1>4, <1>5, <1>7 DEF SameMap
<1>9. \A v, w \in HeapOf(g) : GetMapping(g, v) = GetMapping(g, w) => v = w
  BY <1>1, <1>4, <1>5 DEF SameMap
<1>10. Page \subseteq Free(g) \cup h \cup Tables(g) \cup {GetMapping(g, v) : v \in HeapOf(g)}
  BY <1>1, <1>4, <1>5 DEF SameMap
<1> QED BY <1>3, <1>5, <1>6, <1>8, <1>9, <1>10 DEF PagesOK, RecType, Rec

\* A page less.
LEMMA Shrunk ==
  ASSUME NEW h, NEW m, PagesOK(m, h), m.max > HEAP_PAGE,
         NEW g, RecType(g), g.max = m.max - 1, SameMap(g, m, HeapOf(g)),
         Free(g) = Free(m) \cup {GetMapping(m, m.max - 1)}, Tables(g) = Tables(m)
  PROVE  PagesOK(g, h)
<1>2. m.max \in Nat /\ HEAP_PAGE \in Nat /\ HeapPages \in Nat /\ m.max <= HEAP_PAGE + HeapPages
  BY Space DEF PagesOK
<1>3. g.max \in HEAP_PAGE .. HEAP_PAGE + HeapPages
  BY <1>2
<1>4. HeapOf(m) = HeapOf(g) \cup {m.max - 1} /\ m.max - 1 \notin HeapOf(g)
  BY <1>2 DEF HeapOf
<1>5. /\ h \cap Free(m) = {} /\ h \cap Tables(m) = {} /\ Free(m) \cap Tables(m) = {}
      /\ \A v \in HeapOf(m) : GetMapping(m, v) \in Page \ (h \cup Tables(m) \cup Free(m))
      /\ \A v, w \in HeapOf(m) : GetMapping(m, v) = GetMapping(m, w) => v = w
      /\ Page \subseteq Free(m) \cup h \cup Tables(m) \cup {GetMapping(m, v) : v \in HeapOf(m)}
      /\ h \subseteq Page
  BY DEF PagesOK
<1>7. GetMapping(m, m.max - 1) \in Page \ (h \cup Tables(m) \cup Free(m))
  BY <1>4, <1>5
<1>8. h \cap Free(g) = {} /\ h \cap Tables(g) = {} /\ Free(g) \cap Tables(g) = {}
  BY <1>5, <1>7
<1>9. \A v \in HeapOf(g) : GetMapping(g, v) \in Page \ (h \cup Tables(g) \cup Free(g))
  BY <1>4, <1>5 DEF SameMap
<1>10. \A v, w \in HeapOf(g) : GetMapping(g, v) = GetMapping(g, w) => v = w
  BY <1>4, <1>5 DEF SameMap
<1>11. Page \subseteq Free(g) \cup h \cup Tables(g) \cup {GetMapping(g, v) : v \in HeapOf(g)}
  BY <1>4, <1>5 DEF SameMap
<1> QED BY <1>3, <1>5, <1>8, <1>9, <1>10, <1>11 DEF PagesOK, RecType, Rec

\* The tables that are missing, and whether n pages more leave room for them.
NoTable(m) == {i \in Pgd : m.pgd[i] = 0}
Room(m, n) == n + Cardinality(NoTable(m)) <= Len(m.stack)

LEMMA NoTableFinite == ASSUME NEW m PROVE IsFiniteSet(NoTable(m)) /\ Cardinality(NoTable(m)) \in Nat
<1>1. PTE_SIZE \in Nat /\ NoTable(m) \in SUBSET (0 .. PTE_SIZE - 1)
  BY PagesAssumption DEF NoTable
<1>2. PTE_SIZE - 1 \in Int
  BY <1>1
<1>3. IsFiniteSet(0 .. PTE_SIZE - 1)
  BY <1>2, FS_Interval
<1>4. IsFiniteSet(NoTable(m))
  BY <1>1, <1>3, FS_Subset
<1> QED BY <1>4, FS_CardinalityType

LEMMA AddedPage ==
  ASSUME NEW h, NEW m, PagesOK(m, h), m.max < HEAP_PAGE + HeapPages, NEW n \in Nat, n > 0, Room(m, n),
         NEW g, g = AddPage(m)
  PROVE  PagesOK(g, h) /\ g.max = m.max + 1 /\ Room(g, n - 1)
<1> DEFINE v == m.max
           i == PGD_INDEX(v)
           j == PTE_INDEX(v)
           s == m.stack
           l == Len(s)
<1>1. /\ v \in HEAP_PAGE .. HEAP_PAGE + HeapPages - 1 /\ v \in Nat /\ i \in Pgd /\ j \in 0 .. PTE_SIZE - 1
  <2>1. v \in HEAP_PAGE .. HEAP_PAGE + HeapPages - 1
    BY Space DEF PagesOK
  <2> QED BY <2>1, Place
<1>2. /\ s \in Seq(Page) /\ l \in Nat /\ Once(s)
      /\ m.pgd \in [Pgd -> Page \cup {0}] /\ m.pte \in [Pgd -> [0 .. PTE_SIZE - 1 -> Page \cup {0}]]
      /\ 0 \notin Page
  BY DEF PagesOK, Page
<1>3. m = Rec(s, v, m.pgd, m.pte)
  BY DEF PagesOK, Rec
<1>4. ASSUME NEW w \in HeapOf(m)
      PROVE  /\ w \in Nat /\ PGD_INDEX(w) \in Pgd /\ PTE_INDEX(w) \in 0 .. PTE_SIZE - 1
             /\ ~(PGD_INDEX(w) = i /\ PTE_INDEX(w) = j) /\ m.pgd[PGD_INDEX(w)] # 0
  <2>1. w \in HEAP_PAGE .. HEAP_PAGE + HeapPages - 1 /\ w # v
    BY <1>1, Space DEF HeapOf
  <2>2. GetMapping(m, w) # 0
    BY <1>2 DEF PagesOK
  <2>3. m.pgd[PGD_INDEX(w)] # 0
    BY <2>2 DEF GetMapping
  <2> QED BY <1>1, <2>1, <2>3, Place, Index
<1> DEFINE s1 == Front(s)
           s2 == Front(s1)
           p  == Last(s)
           t  == Last(s1)
<1>5. Cardinality(NoTable(m)) \in Nat /\ n + Cardinality(NoTable(m)) <= l
  BY NoTableFinite DEF Room
<1>6. l >= 1
  BY <1>2, <1>5
<1>7. /\ s1 \in Seq(Page) /\ Len(s1) = l - 1 /\ Once(s1)
      /\ Elems(s1) = Free(m) \ {p} /\ p \in Free(m) /\ p \in Page
  BY <1>2, <1>6, TakenLast DEF Free
<1> HIDE DEF s, p, s1
<1>8. CASE m.pgd[i] # 0
  <2> DEFINE e == Entry(m.pte, i, j, p)
  <2>1. g = Rec(s1, v + 1, m.pgd, e)
    <3> HIDE DEF e, i, j, v
    <3>1. i = PGD_INDEX(v) /\ j = PTE_INDEX(v)
      BY DEF i, j
    <3> QED BY <1>3, <1>8, <3>1, RecAdd DEF e, s1, p
  <2>2. /\ e \in [Pgd -> [0 .. PTE_SIZE - 1 -> Page \cup {0}]] /\ e[i][j] = p
        /\ \A a \in Pgd : \A b \in 0 .. PTE_SIZE - 1 : ~(a = i /\ b = j) => e[a][b] = m.pte[a][b]
    BY <1>1, <1>2, <1>7 DEF Entry
  <2> HIDE DEF e
  <2>3. g.stack = s1 /\ g.pgd = m.pgd /\ g.pte = e
    BY <2>1 DEF Rec
  <2>4. SameMap(g, m, HeapOf(m))
    BY <1>4, <2>2, <2>3 DEF GetMapping, SameMap
  <2>5. GetMapping(g, v) = p
    BY <1>1, <1>8, <2>2, <2>3 DEF GetMapping
  <2>6. Free(g) = Free(m) \ {p} /\ Tables(g) = Tables(m)
    BY <1>7, <2>3 DEF Free, Tables
  <2>7. PagesOK(g, h) /\ g.max = m.max + 1
    <3>1. RecType(g) /\ g.max = m.max + 1
      BY <1>2, <1>7, <2>1, <2>2, <2>3 DEF RecType, Rec
    <3>2. Free(g) \subseteq Free(m) /\ p \in Free(m) \ Free(g) /\ Tables(g) = Tables(m) \cup ((Free(m) \ Free(g)) \ {p})
      BY <1>7, <2>6
    <3> QED BY <2>4, <2>5, <3>1, <3>2, Grown
  <2>8. NoTable(g) = NoTable(m)
    BY <2>3 DEF NoTable
  <2>9. Room(g, n - 1)
    BY <1>2, <1>5, <1>7, <2>3, <2>8 DEF Room
  <2> QED BY <2>7, <2>9
<1>9. CASE m.pgd[i] = 0
  <2> DEFINE d == At(m.pgd, i, t)
             f == At(m.pte, i, ZeroTable)
             e == Entry(f, i, j, p)
  <2>1. g = Rec(s2, v + 1, d, e)
    <3> HIDE DEF d, f, e, i, j, v, t, s2
    <3>1. i = PGD_INDEX(v) /\ j = PTE_INDEX(v)
      BY DEF i, j
    <3> QED BY <1>3, <1>9, <3>1, RecAdd DEF d, f, e, s1, s2, p, t
  <2>2. i \in NoTable(m) /\ Cardinality(NoTable(m)) >= 1 /\ Cardinality(NoTable(m) \ {i}) = Cardinality(NoTable(m)) - 1
    <3>1. i \in NoTable(m)
      BY <1>1, <1>9 DEF NoTable
    <3>2. Cardinality(NoTable(m) \ {i}) = Cardinality(NoTable(m)) - 1
      BY <3>1, NoTableFinite, FS_RemoveElement
    <3>3. Cardinality(NoTable(m)) # 0
      BY <3>1, NoTableFinite, FS_EmptySet
    <3> QED BY <1>5, <3>1, <3>2, <3>3
  <2>3. l - 1 >= 1
    BY <1>2, <1>5, <2>2
  <2>4. /\ s2 \in Seq(Page) /\ Len(s2) = l - 2 /\ Once(s2)
        /\ Elems(s2) = Free(m) \ ({p} \cup {t}) /\ t \in Free(m) /\ t # p /\ t \in Page
    <3>1. /\ s2 \in Seq(Page) /\ Len(s2) = Len(s1) - 1 /\ Once(s2)
          /\ Elems(s2) = Elems(s1) \ {t} /\ t \in Elems(s1) /\ t \in Page
      BY <1>7, <2>3, TakenLast
    <3> HIDE DEF s2, t
    <3> QED BY <1>2, <1>7, <3>1
  <2> HIDE DEF t, s2
  <2>5. /\ d \in [Pgd -> Page \cup {0}] /\ d[i] = t /\ \A a \in Pgd : a # i => d[a] = m.pgd[a]
    BY <1>1, <1>2, <2>4 DEF At
  <2>6. ZeroTable \in [0 .. PTE_SIZE - 1 -> Page \cup {0}]
    BY DEF ZeroTable
  <2>7. f \in [Pgd -> [0 .. PTE_SIZE - 1 -> Page \cup {0}]] /\ \A a \in Pgd : a # i => f[a] = m.pte[a]
    BY <1>1, <1>2, <2>6 DEF At
  <2> HIDE DEF d, f
  <2>8. /\ e \in [Pgd -> [0 .. PTE_SIZE - 1 -> Page \cup {0}]] /\ e[i][j] = p
        /\ \A a \in Pgd : a # i => e[a] = m.pte[a]
    BY <1>1, <1>7, <2>7 DEF Entry
  <2> HIDE DEF e
  <2>9. g.stack = s2 /\ g.pgd = d /\ g.pte = e
    BY <2>1 DEF Rec
  <2>10. SameMap(g, m, HeapOf(m))
    <3> SUFFICES ASSUME NEW w \in HeapOf(m) PROVE GetMapping(g, w) = GetMapping(m, w)
      BY DEF SameMap
    <3>1. PGD_INDEX(w) \in Pgd /\ PGD_INDEX(w) # i
      BY <1>4, <1>9
    <3> QED BY <2>5, <2>8, <2>9, <3>1 DEF GetMapping
  <2>11. GetMapping(g, v) = p
    BY <1>2, <2>4, <2>5, <2>8, <2>9 DEF GetMapping
  <2>12. Free(g) = Free(m) \ ({p} \cup {t})
    BY <2>4, <2>9 DEF Free
  <2>13. Tables(g) = Tables(m) \cup {t}
    BY <1>1, <1>2, <1>9, <2>4, <2>5, <2>9 DEF Tables
  <2>14. PagesOK(g, h) /\ g.max = m.max + 1
    <3>1. RecType(g) /\ g.max = m.max + 1
      BY <2>1, <2>4, <2>5, <2>8, <2>9 DEF RecType, Rec
    <3>2. Free(g) \subseteq Free(m) /\ p \in Free(m) \ Free(g) /\ Tables(g) = Tables(m) \cup ((Free(m) \ Free(g)) \ {p})
      BY <1>7, <2>4, <2>12, <2>13
    <3> QED BY <2>10, <2>11, <3>1, <3>2, Grown
  <2>15. NoTable(g) = NoTable(m) \ {i}
    BY <1>1, <1>2, <2>4, <2>5, <2>9 DEF NoTable
  <2>16. Room(g, n - 1)
    BY <1>2, <1>5, <2>2, <2>4, <2>9, <2>15 DEF Room
  <2> QED BY <2>14, <2>16
<1> QED BY <1>8, <1>9

WithMax(m, v) == [m EXCEPT !.max = v]

LEMMA RecMax ==
  ASSUME NEW s, NEW x, NEW d, NEW e, NEW m, m = Rec(s, x, d, e), NEW v
  PROVE  WithMax(m, v) = Rec(s, v, d, e)
BY DEF WithMax, Rec

LEMMA RecDrop ==
  ASSUME NEW s, NEW x, NEW d, NEW e, NEW m, m = Rec(s, x, d, e), NEW v, v = x - 1, NEW i, i = PGD_INDEX(v), d[i] # 0,
         NEW p, p = GetMapping(m, v), p # 0, NEW junk
  PROVE  DropPage(m, junk) = Rec(Append(s, p), v, d, Entry(e, i, i, 0))
<1>1. PICK a : a = Unmap(m, v)
  OBVIOUS
<1>2. a = Rec(s, x, d, Entry(e, i, i, 0))
  BY <1>1, RecMap
<1>3. PICK b : b = PmmFreePage(a, p)
  OBVIOUS
<1>4. b = Rec(Append(s, p), x, d, Entry(e, i, i, 0))
  BY <1>2, <1>3, RecPmm
<1>5. m.max = x
  BY DEF Rec
<1>6. DropPage(m, junk) = [b EXCEPT !.max = v]
  BY <1>1, <1>3, <1>5, Zenon DEF DropPage
<1>7. WithMax(b, v) = Rec(Append(s, p), v, d, Entry(e, i, i, 0))
  BY <1>4, RecMax
<1> QED BY <1>6, <1>7, Zenon DEF WithMax

LEMMA DroppedPage ==
  ASSUME ShortHeap, NEW h, NEW m, PagesOK(m, h), m.max > HEAP_PAGE, NEW junk, NEW g, g = DropPage(m, junk)
  PROVE  PagesOK(g, h) /\ g.max = m.max - 1
<1> DEFINE v == m.max - 1
           i == PGD_INDEX(v)
           s == m.stack
           e == Entry(m.pte, i, i, 0)
           p == GetMapping(m, v)
<1>1. /\ v \in HEAP_PAGE .. HEAP_PAGE + HeapPages - 1 /\ v \in HeapOf(m) /\ i \in Pgd /\ i \in 0 .. PTE_SIZE - 1
  <2>1. v \in HEAP_PAGE .. HEAP_PAGE + HeapPages - 1 /\ v \in HeapOf(m)
    BY Space DEF PagesOK, HeapOf
  <2> QED BY <2>1, Place
<1>2. /\ s \in Seq(Page) /\ Once(s) /\ m.max \in Nat
      /\ m.pgd \in [Pgd -> Page \cup {0}] /\ m.pte \in [Pgd -> [0 .. PTE_SIZE - 1 -> Page \cup {0}]]
      /\ 0 \notin Page
  BY Space DEF PagesOK, Page
<1>3. m = Rec(s, m.max, m.pgd, m.pte)
  BY DEF PagesOK, Rec
<1>4. p \in Page \ Free(m) /\ p # 0
  BY <1>1, <1>2 DEF PagesOK
<1>5. m.pgd[i] # 0
  BY <1>4 DEF GetMapping
<1>6. g = Rec(Append(s, p), v, m.pgd, e)
  <2> HIDE DEF v, i, p, e, s
  <2>1. v = m.max - 1 /\ i = PGD_INDEX(v) /\ p = GetMapping(m, v)
    BY DEF v, i, p
  <2> QED BY <1>3, <1>4, <1>5, <2>1, RecDrop DEF e
<1> HIDE DEF p
<1>7. /\ e \in [Pgd -> [0 .. PTE_SIZE - 1 -> Page \cup {0}]]
      /\ \A a \in Pgd : \A b \in 0 .. PTE_SIZE - 1 : ~(a = i /\ b = i) => e[a][b] = m.pte[a][b]
  BY <1>1, <1>2 DEF Entry
<1> HIDE DEF e, s
<1>8. g.stack = Append(s, p) /\ g.max = v /\ g.pgd = m.pgd /\ g.pte = e
  BY <1>6 DEF Rec
<1>9. Append(s, p) \in Seq(Page) /\ Once(Append(s, p)) /\ Elems(Append(s, p)) = Elems(s) \cup {p}
  BY <1>2, <1>4, Given DEF Free, s
<1>10. RecType(g)
  BY <1>2, <1>6, <1>7, <1>8, <1>9 DEF RecType, Rec
<1>11. SameMap(g, m, HeapOf(g))
  <2> SUFFICES ASSUME NEW w \in HeapOf(g) PROVE GetMapping(g, w) = GetMapping(m, w)
    BY DEF SameMap
  <2>1. w \in HEAP_PAGE .. HEAP_PAGE + HeapPages - 1
    BY <1>1, <1>2, <1>8, Space DEF HeapOf
  <2>2. PGD_INDEX(w) \in Pgd /\ PTE_INDEX(w) \in 0 .. PTE_SIZE - 1 /\ PTE_INDEX(w) # PGD_INDEX(w)
    BY <2>1, Place DEF ShortHeap
  <2> QED BY <1>7, <1>8, <2>2 DEF GetMapping
<1>12. Free(g) = Free(m) \cup {p} /\ Tables(g) = Tables(m)
  BY <1>8, <1>9 DEF Free, Tables, s
<1>13. PagesOK(g, h)
  BY <1>8, <1>10, <1>11, <1>12, Shrunk DEF p
<1> QED BY <1>8, <1>13

\* Pages are added or given back one by one.
Step(m, x) == IF x = 0 THEN AddPage(m) ELSE DropPage(m, x)

Repeat(f, m, x) == [k \in 0 .. HeapPages |-> IF k = 0 THEN m ELSE Step(f[k - 1], x)]

LEMMA RepeatExists == ASSUME NEW m, NEW x PROVE \E f : f = Repeat(f, m, x)
<1> DEFINE Solves(f, n) == \A k \in 0 .. n : f[k] = IF k = 0 THEN m ELSE Step(f[k - 1], x)
           S == {n \in Nat : \E f : Solves(f, n)}
<1>1. 0 \in S
  <2> DEFINE f == [k \in {0} |-> m]
  <2>1. f[0] = m
    OBVIOUS
  <2> HIDE DEF f
  <2>2. Solves(f, 0)
    BY <2>1
  <2> QED BY <2>2
<1>2. ASSUME NEW n \in Nat, n \in S PROVE n + 1 \in S
  <2>1. PICK f : Solves(f, n)
    BY <1>2
  <2> DEFINE g == [k \in 0 .. n + 1 |-> IF k = n + 1 THEN Step(f[n], x) ELSE f[k]]
  <2>2. g[n + 1] = Step(f[n], x) /\ \A k \in 0 .. n : g[k] = f[k]
    OBVIOUS
  <2> HIDE DEF g
  <2>3. ASSUME NEW k \in 0 .. n + 1 PROVE g[k] = IF k = 0 THEN m ELSE Step(g[k - 1], x)
    <3>1. CASE k = n + 1
      <4>1. k # 0 /\ k - 1 = n /\ n \in 0 .. n
        BY <3>1
      <4> QED BY <2>2, <3>1, <4>1
    <3>2. CASE k # n + 1
      <4>1. k \in 0 .. n /\ (k # 0 => k - 1 \in 0 .. n)
        BY <3>2
      <4> QED BY <2>1, <2>2, <4>1
    <3> QED BY <3>1, <3>2
  <2>4. Solves(g, n + 1)
    BY <2>3
  <2> HIDE DEF Solves
  <2> QED BY <2>4
<1>3. HeapPages \in S
  <2>1. Nat \subseteq S
    <3> HIDE DEF S
    <3> QED BY <1>1, <1>2, Induction
  <2> QED BY <2>1, Space
<1>4. PICK f : Solves(f, HeapPages)
  BY <1>3
<1> DEFINE g == [k \in 0 .. HeapPages |-> f[k]]
<1>5. ASSUME NEW k \in 0 .. HeapPages PROVE g[k] = IF k = 0 THEN m ELSE Step(g[k - 1], x)
  <2>1. k # 0 => k - 1 \in 0 .. HeapPages
    BY Space
  <2>2. g[k] = f[k] /\ (k # 0 => g[k - 1] = f[k - 1])
    BY <2>1
  <2> HIDE DEF g
  <2> QED BY <1>4, <2>2
<1>6. g = [k \in 0 .. HeapPages |-> g[k]]
  OBVIOUS
<1>7. g = Repeat(g, m, x)
  <2> HIDE DEF g
  <2> QED BY <1>5, <1>6 DEF Repeat
<1> QED BY <1>7

\* What the pages are after k steps.
LEMMA Repeated ==
  ASSUME NEW m, NEW x, NEW f, f = Repeat(f, m, x), NEW k \in 0 .. HeapPages
  PROVE  f[k] = IF k = 0 THEN m ELSE Step(f[k - 1], x)
<1>1. Repeat(f, m, x)[k] = IF k = 0 THEN m ELSE Step(f[k - 1], x)
  BY Zenon DEF Repeat
<1>2. f[k] = Repeat(f, m, x)[k]
  BY Zenon
<1> QED BY <1>1, <1>2, Zenon

LEMMA ManyAdded ==
  ASSUME NEW h, NEW m, PagesOK(m, h), NEW f, f = Repeat(f, m, 0),
         NEW n \in 0 .. HeapPages, m.max + n <= HEAP_PAGE + HeapPages, Room(m, n)
  PROVE  PagesOK(f[n], h) /\ f[n].max = m.max + n
<1> DEFINE S == {k \in Nat : k <= n => PagesOK(f[k], h) /\ f[k].max = m.max + k /\ Room(f[k], n - k)}
<1>1. m.max \in Nat /\ n \in Nat /\ HeapPages \in Nat /\ HEAP_PAGE \in Nat
  BY Space DEF PagesOK
<1>2. 0 \in S
  <2>1. f[0] = m
    BY <1>1, Repeated
  <2> QED BY <1>1, <2>1
<1>3. ASSUME NEW k \in Nat, k \in S PROVE k + 1 \in S
  <2> SUFFICES ASSUME k + 1 <= n PROVE PagesOK(f[k + 1], h) /\ f[k + 1].max = m.max + (k + 1) /\ Room(f[k + 1], n - (k + 1))
    OBVIOUS
  <2>1. PagesOK(f[k], h) /\ f[k].max = m.max + k /\ Room(f[k], n - k)
    BY <1>1, <1>3
  <2>2. f[k + 1] = AddPage(f[k])
    <3>1. k + 1 \in 0 .. HeapPages /\ k + 1 # 0 /\ (k + 1) - 1 = k
      BY <1>1
    <3> QED BY <3>1, Repeated DEF Step
  <2>3. n - k \in Nat /\ n - k > 0 /\ f[k].max < HEAP_PAGE + HeapPages /\ (n - k) - 1 = n - (k + 1)
    BY <1>1, <2>1
  <2>4. PagesOK(f[k + 1], h) /\ f[k + 1].max = f[k].max + 1 /\ Room(f[k + 1], (n - k) - 1)
    BY <2>1, <2>2, <2>3, AddedPage
  <2> QED BY <1>1, <2>1, <2>3, <2>4
<1>4. n \in S
  <2>1. Nat \subseteq S
    <3> HIDE DEF S
    <3> QED BY <1>2, <1>3, Induction
  <2> QED BY <1>1, <2>1
<1> QED BY <1>1, <1>4

LEMMA ManyDropped ==
  ASSUME ShortHeap, NEW h, NEW m, PagesOK(m, h), NEW x, x # 0, NEW f, f = Repeat(f, m, x),
         NEW n \in Nat, n <= m.max - HEAP_PAGE
  PROVE  PagesOK(f[n], h) /\ f[n].max = m.max - n
<1> DEFINE S == {k \in Nat : k <= n => PagesOK(f[k], h) /\ f[k].max = m.max - k}
<1>1. m.max \in Nat /\ n \in Nat /\ HeapPages \in Nat /\ HEAP_PAGE \in Nat /\ m.max <= HEAP_PAGE + HeapPages
  BY Space DEF PagesOK
<1>2. 0 \in S
  <2>1. f[0] = m
    BY <1>1, Repeated
  <2> QED BY <1>1, <2>1
<1>3. ASSUME NEW k \in Nat, k \in S PROVE k + 1 \in S
  <2> SUFFICES ASSUME k + 1 <= n PROVE PagesOK(f[k + 1], h) /\ f[k + 1].max = m.max - (k + 1)
    OBVIOUS
  <2>1. PagesOK(f[k], h) /\ f[k].max = m.max - k
    BY <1>1, <1>3
  <2>2. f[k + 1] = DropPage(f[k], x)
    <3>1. k + 1 \in 0 .. HeapPages /\ k + 1 # 0 /\ (k + 1) - 1 = k
      BY <1>1
    <3> QED BY <3>1, Repeated DEF Step
  <2>3. f[k].max > HEAP_PAGE
    BY <1>1, <2>1
  <2>4. PagesOK(f[k + 1], h) /\ f[k + 1].max = f[k].max - 1
    BY <2>1, <2>2, <2>3, DroppedPage
  <2> QED BY <1>1, <2>1, <2>4
<1>4. n \in S
  <2>1. Nat \subseteq S
    <3> HIDE DEF S
    <3> QED BY <1>2, <1>3, Induction
  <2> QED BY <1>1, <2>1
<1> QED BY <1>1, <1>4

\* Times, for two numbers.
Scaled(i, j) ==
  /\ i * PAGE_SIZE \in Int /\ (i + j) * PAGE_SIZE = i * PAGE_SIZE + j * PAGE_SIZE
  /\ (i - j) * PAGE_SIZE = i * PAGE_SIZE - j * PAGE_SIZE
  /\ i <= j => i * PAGE_SIZE <= j * PAGE_SIZE
  /\ i * PAGE_SIZE < j * PAGE_SIZE + PAGE_SIZE => i <= j

LEMMA Scales == ASSUME NEW i \in Int, NEW j \in Int PROVE Scaled(i, j)
BY Times DEF Scaled

\* heap_max in addresses.
LEMMA MaxOf ==
  ASSUME NEW m, NEW h, PagesOK(m, h)
  PROVE  /\ m.max \in Nat /\ HEAP_PAGE <= m.max /\ m.max <= HEAP_PAGE + HeapPages /\ HEAP_PAGE \in Nat /\ HeapPages \in Nat
         /\ m.max * PAGE_SIZE \in Nat /\ m.max * PAGE_SIZE <= Limit /\ HEAP_START <= m.max * PAGE_SIZE
<1>1. m.max \in Nat /\ HEAP_PAGE <= m.max /\ m.max <= HEAP_PAGE + HeapPages /\ HEAP_PAGE \in Nat /\ HeapPages \in Nat
  BY Space DEF PagesOK
<1>2. HEAP_START = HEAP_PAGE * PAGE_SIZE /\ Limit = HEAP_PAGE * PAGE_SIZE + HeapPages * PAGE_SIZE
  BY DEF HEAP_START, Limit
<1>3. Scaled(HEAP_PAGE, HeapPages) /\ Scaled(HEAP_PAGE, m.max) /\ Scaled(m.max, HEAP_PAGE)
  BY <1>1, Scales
<1>4. Scaled(m.max, HEAP_PAGE + HeapPages)
  <2>1. HEAP_PAGE + HeapPages \in Int
    BY <1>1
  <2> QED BY <1>1, <2>1, Scales
<1>5. HEAP_START \in Nat
  BY Space
<1> QED BY <1>1, <1>2, <1>3, <1>4, <1>5 DEF Scaled

LEMMA MaxFacts ==
  ASSUME NEW h, PagesOK(pages, h)
  PROVE  /\ pages.max \in Nat /\ HEAP_PAGE <= pages.max /\ pages.max <= HEAP_PAGE + HeapPages /\ HEAP_PAGE \in Nat /\ HeapPages \in Nat
         /\ heap_max \in Nat /\ heap_max <= Limit /\ HEAP_START <= heap_max
BY MaxOf DEF heap_max

\* alloc_chunk maps enough pages.
LEMMA NewPages ==
  ASSUME PagesOK(pages, held), NEW n \in Request, KmallocNew(n), ChunkStart \in Nat
  PROVE  /\ PagesOK(pages', held') /\ heap_max' \in Int /\ heap_max <= heap_max' /\ ChunkStart + (n + HEADER) <= heap_max'
<1> DEFINE end == ChunkStart + (n + HEADER)
           k   == Missing(end)
<1>1. end <= Limit /\ EnoughPages(k) /\ pages' = AllocChunk(ChunkStart, n + HEADER) /\ held' = held
  BY Zenon DEF KmallocNew, Limit
<1>2. end \in Nat /\ n \in Nat
  BY Space, HeapAssumption
<1>3. /\ pages.max \in Nat /\ HEAP_PAGE <= pages.max /\ pages.max <= HEAP_PAGE + HeapPages /\ HEAP_PAGE \in Nat /\ HeapPages \in Nat
      /\ heap_max \in Nat /\ heap_max <= Limit /\ heap_max = pages.max * PAGE_SIZE
  BY MaxFacts DEF heap_max
<1> HIDE DEF end
<1>4. /\ k \in Nat /\ pages.max + k <= HEAP_PAGE + HeapPages
      /\ (pages.max + k) * PAGE_SIZE \in Int
      /\ heap_max <= (pages.max + k) * PAGE_SIZE /\ end <= (pages.max + k) * PAGE_SIZE
  <2>1. CASE end <= heap_max
    <3>1. k = 0
      BY <2>1 DEF Missing
    <3>2. pages.max + k = pages.max
      BY <1>3, <3>1
    <3> HIDE DEF k
    <3> QED BY <1>3, <2>1, <3>1, <3>2
  <2>2. CASE ~(end <= heap_max)
    <3> DEFINE x == end - heap_max + PAGE_SIZE - 1
    <3>1. k = x \div PAGE_SIZE
      BY <2>2 DEF Missing
    <3>2. x \in Nat /\ PAGE_SIZE \in Nat /\ PAGE_SIZE > 0 /\ Limit \in Nat
      BY <1>2, <1>3, <2>2, Space
    <3>3. k \in Nat /\ k * PAGE_SIZE \in Nat /\ k * PAGE_SIZE <= x /\ x < k * PAGE_SIZE + PAGE_SIZE
      <4> HIDE DEF x, k
      <4> QED BY <3>1, <3>2, Division
    <3> HIDE DEF k
    <3>4. (pages.max + k) * PAGE_SIZE = heap_max + k * PAGE_SIZE
      <4>1. (pages.max + k) * PAGE_SIZE = pages.max * PAGE_SIZE + k * PAGE_SIZE
        <5>1. Scaled(pages.max, k)
          BY <1>3, <3>3, Scales
        <5> QED BY <5>1 DEF Scaled
      <4> QED BY <1>3, <4>1
    <3>5. (HEAP_PAGE + HeapPages) * PAGE_SIZE = Limit
      <4>1. (HEAP_PAGE + HeapPages) * PAGE_SIZE = HEAP_PAGE * PAGE_SIZE + HeapPages * PAGE_SIZE
        BY <1>3, Times
      <4> QED BY <4>1 DEF Limit, HEAP_START
    <3>6. (pages.max + k) * PAGE_SIZE < (HEAP_PAGE + HeapPages) * PAGE_SIZE + PAGE_SIZE
      BY <1>1, <1>2, <1>3, <3>2, <3>3, <3>4, <3>5
    <3>7. pages.max + k <= HEAP_PAGE + HeapPages
      <4>1. pages.max + k \in Int /\ HEAP_PAGE + HeapPages \in Int
        BY <1>3, <3>3
      <4> QED BY <3>6, <4>1, Times
    <3> QED BY <1>2, <1>3, <2>2, <3>2, <3>3, <3>4, <3>7
  <2> QED BY <2>1, <2>2
<1> DEFINE f == CHOOSE g : g = [j \in 0 .. HeapPages |-> IF j = 0 THEN pages ELSE AddPage(g[j - 1])]
<1>5. f = Repeat(f, pages, 0)
  <2>1. \A g : Repeat(g, pages, 0) = [j \in 0 .. HeapPages |-> IF j = 0 THEN pages ELSE AddPage(g[j - 1])]
    BY DEF Repeat, Step
  <2>2. \E g : g = Repeat(g, pages, 0)
    BY RepeatExists
  <2>3. \E g : g = [j \in 0 .. HeapPages |-> IF j = 0 THEN pages ELSE AddPage(g[j - 1])]
    BY <2>1, <2>2, Zenon
  <2>4. f = [j \in 0 .. HeapPages |-> IF j = 0 THEN pages ELSE AddPage(f[j - 1])]
    BY <2>3, Zenon
  <2> HIDE DEF f
  <2> QED BY <2>1, <2>4, Zenon
<1>6. pages' = f[k]
  BY <1>1, Zenon DEF AllocChunk, end
<1> HIDE DEF f
<1>7. Room(pages, k) /\ k \in 0 .. HeapPages
  <2>1. Room(pages, k)
    BY <1>1 DEF EnoughPages, Room, NoTable
  <2> QED BY <1>3, <1>4, <2>1
<1>8. PagesOK(f[k], held) /\ f[k].max = pages.max + k
  <2> HIDE DEF k
  <2> QED BY <1>4, <1>5, <1>7, ManyAdded
<1>9. PagesOK(pages', held') /\ heap_max' = (pages.max + k) * PAGE_SIZE
  BY <1>1, <1>6, <1>8 DEF heap_max
<1> QED BY <1>4, <1>9 DEF end

\* kfree gives the pages behind the last chunk back.
LEMMA ReleasedPages ==
  ASSUME ShortHeap, PagesOK(pages, held), NEW c \in Addr, c <= heap_max, NEW junk \in Page, pages' = ReleasePages(WholePages(c), junk)
  PROVE  PagesOK(pages', held) /\ heap_max' \in Int /\ c <= heap_max'
<1> DEFINE k == WholePages(c)
           x == heap_max - c
<1>1. /\ pages.max \in Nat /\ HEAP_PAGE <= pages.max /\ HEAP_PAGE \in Nat
      /\ heap_max \in Nat /\ heap_max = pages.max * PAGE_SIZE
  BY MaxFacts DEF heap_max
<1>2. c \in Nat /\ HEAP_START <= c /\ HEAP_START \in Nat /\ PAGE_SIZE \in Nat /\ PAGE_SIZE > 0 /\ x \in Nat
  <2>1. c \in Nat /\ HEAP_START <= c /\ HEAP_START \in Nat /\ PAGE_SIZE \in Nat /\ PAGE_SIZE > 0
    BY Space
  <2> QED BY <1>1, <2>1
<1>3. k \in Nat /\ k * PAGE_SIZE \in Nat /\ k * PAGE_SIZE <= x
  <2>1. k = x \div PAGE_SIZE
    BY DEF WholePages
  <2> HIDE DEF k, x
  <2> QED BY <1>2, <2>1, Division
<1> HIDE DEF k
<1>4. (pages.max - k) * PAGE_SIZE = heap_max - k * PAGE_SIZE
  <2>1. (pages.max - k) * PAGE_SIZE = pages.max * PAGE_SIZE - k * PAGE_SIZE
    <3>1. Scaled(pages.max, k)
      BY <1>1, <1>3, Scales
    <3> QED BY <3>1 DEF Scaled
  <2> QED BY <1>1, <2>1
<1>5. k <= pages.max - HEAP_PAGE
  <2>1. (pages.max - HEAP_PAGE) * PAGE_SIZE = heap_max - HEAP_START
    <3>1. (pages.max - HEAP_PAGE) * PAGE_SIZE = pages.max * PAGE_SIZE - HEAP_PAGE * PAGE_SIZE
      <4>1. Scaled(pages.max, HEAP_PAGE)
        BY <1>1, Scales
      <4> QED BY <4>1 DEF Scaled
    <3> QED BY <1>1, <3>1 DEF HEAP_START
  <2>2. k * PAGE_SIZE < (pages.max - HEAP_PAGE) * PAGE_SIZE + PAGE_SIZE
    BY <1>1, <1>2, <1>3, <2>1
  <2>3. pages.max - HEAP_PAGE \in Int /\ k \in Int
    BY <1>1, <1>3
  <2> QED BY <2>2, <2>3, Times
<1> DEFINE f == CHOOSE g : g = [j \in 0 .. HeapPages |-> IF j = 0 THEN pages ELSE DropPage(g[j - 1], junk)]
<1>6. junk # 0
  BY DEF Page
<1>7. f = Repeat(f, pages, junk)
  <2>1. \A g : Repeat(g, pages, junk) = [j \in 0 .. HeapPages |-> IF j = 0 THEN pages ELSE DropPage(g[j - 1], junk)]
    BY <1>6 DEF Repeat, Step
  <2>2. \E g : g = Repeat(g, pages, junk)
    BY RepeatExists
  <2>3. \E g : g = [j \in 0 .. HeapPages |-> IF j = 0 THEN pages ELSE DropPage(g[j - 1], junk)]
    BY <2>1, <2>2, Zenon
  <2>4. f = [j \in 0 .. HeapPages |-> IF j = 0 THEN pages ELSE DropPage(f[j - 1], junk)]
    BY <2>3, Zenon
  <2> HIDE DEF f
  <2> QED BY <2>1, <2>4, Zenon
<1>8. pages' = f[k]
  BY Zenon DEF ReleasePages, k
<1> HIDE DEF f
<1>9. PagesOK(f[k], held) /\ f[k].max = pages.max - k
  <2>1. PICK m : m = pages
    OBVIOUS
  <2>2. PICK j : j = k
    OBVIOUS
  <2>3. j \in Nat /\ j <= m.max - HEAP_PAGE /\ PagesOK(m, held) /\ f = Repeat(f, m, junk)
    BY <1>3, <1>5, <1>7, <2>1, <2>2
  <2>4. PagesOK(f[j], held) /\ f[j].max = m.max - j
    BY <1>6, <2>3, ManyDropped
  <2> QED BY <2>1, <2>2, <2>4
<1>10. PagesOK(pages', held) /\ heap_max' = (pages.max - k) * PAGE_SIZE
  BY <1>8, <1>9 DEF heap_max
<1> QED BY <1>1, <1>2, <1>3, <1>4, <1>10

\* The command alloc takes pages of the stack.
LEMMA ShellPages ==
  ASSUME PagesOK(pages, held), NEW n \in 1 .. NPages, ShellAlloc(n)
  PROVE  PagesOK(pages', held') /\ pages'.max = pages.max
<1> DEFINE s == pages.stack
           got == {s[k] : k \in Len(s) - n + 1 .. Len(s)}
<1>1. /\ s \in Seq(Page) /\ Once(s) /\ Len(s) \in Nat /\ n \in Nat /\ DOMAIN s = 1 .. Len(s)
      /\ pages = Rec(s, pages.max, pages.pgd, pages.pte)
  BY PagesAssumption DEF PagesOK, Rec
<1>2. CASE n <= Len(s)
  <2>1. held' = held \cup got
    BY <1>2, Zenon DEF ShellAlloc
  <2>2. pages' = [pages EXCEPT !.stack = Cut(s, n)]
    BY <1>2, Zenon DEF ShellAlloc, AllocPmm, Cut
  <2>3. pages' = Rec(Cut(s, n), pages.max, pages.pgd, pages.pte)
    <3>1. PICK t : t = Cut(s, n)
      OBVIOUS
    <3> HIDE DEF s
    <3>2. [pages EXCEPT !.stack = t] = Rec(t, pages.max, pages.pgd, pages.pte)
      BY <1>1 DEF Rec
    <3> QED BY <2>2, <3>1, <3>2
  <2>4. /\ Cut(s, n) \in Seq(Page) /\ Once(Cut(s, n))
        /\ Elems(Cut(s, n)) = Elems(s) \ got
    BY <1>1, <1>2, Taken
  <2>5. got \subseteq Elems(s) /\ Elems(s) \subseteq Page
    BY <1>1, <1>2 DEF Elems
  <2> HIDE DEF s, got
  <2>6. PICK g : g = pages'
    OBVIOUS
  <2>7. g.stack = Cut(s, n) /\ g.max = pages.max /\ g.pgd = pages.pgd /\ g.pte = pages.pte
    BY <2>3, <2>6 DEF Rec
  <2>8. Free(g) = Free(pages) \ got /\ got \subseteq Free(pages) /\ Free(pages) \subseteq Page
    BY <2>4, <2>5, <2>7 DEF Free, s
  <2>9. Tables(g) = Tables(pages) /\ HeapOf(g) = HeapOf(pages) /\ \A v : GetMapping(g, v) = GetMapping(pages, v)
    BY <2>7 DEF Tables, HeapOf, GetMapping
  <2>10. /\ held \cap Free(pages) = {} /\ held \cap Tables(pages) = {} /\ Free(pages) \cap Tables(pages) = {}
         /\ \A v \in HeapOf(pages) : GetMapping(pages, v) \in Page \ (held \cup Tables(pages) \cup Free(pages))
         /\ \A v, w \in HeapOf(pages) : GetMapping(pages, v) = GetMapping(pages, w) => v = w
         /\ Page \subseteq Free(pages) \cup held \cup Tables(pages) \cup {GetMapping(pages, v) : v \in HeapOf(pages)}
         /\ held \subseteq Page /\ pages.max \in HEAP_PAGE .. HEAP_PAGE + HeapPages
         /\ pages.pgd \in [Pgd -> Page \cup {0}] /\ pages.pte \in [Pgd -> [0 .. PTE_SIZE - 1 -> Page \cup {0}]]
    BY DEF PagesOK
  <2>11. PICK o : o = held \cup got
    OBVIOUS
  <2>12. o \cap Free(g) = {} /\ o \cap Tables(g) = {} /\ Free(g) \cap Tables(g) = {} /\ o \subseteq Page
    BY <2>8, <2>9, <2>10, <2>11
  <2>13. \A v \in HeapOf(g) : GetMapping(g, v) \in Page \ (o \cup Tables(g) \cup Free(g))
    BY <2>8, <2>9, <2>10, <2>11
  <2>14. \A v, w \in HeapOf(g) : GetMapping(g, v) = GetMapping(g, w) => v = w
    BY <2>9, <2>10
  <2>15. Page \subseteq Free(g) \cup o \cup Tables(g) \cup {GetMapping(g, v) : v \in HeapOf(g)}
    <3>1. {GetMapping(g, v) : v \in HeapOf(g)} = {GetMapping(pages, v) : v \in HeapOf(pages)}
      BY <2>9
    <3> QED BY <2>8, <2>9, <2>10, <2>11, <3>1
  <2>16. g = [stack |-> g.stack, max |-> g.max, pgd |-> g.pgd, pte |-> g.pte]
    BY <2>3, <2>6, <2>7 DEF Rec
  <2>17. PagesOK(g, o)
    BY <2>4, <2>7, <2>10, <2>12, <2>13, <2>14, <2>15, <2>16 DEF PagesOK
  <2> QED BY <2>1, <2>6, <2>7, <2>11, <2>17
<1>3. CASE ~(n <= Len(s))
  <2>1. pages' = pages /\ held' = held
    BY <1>3 DEF ShellAlloc, AllocPmm
  <2> QED BY <2>1
<1> QED BY <1>2, <1>3
--------------------------------------------------------------------------------
(* The invariant                                                           *)

\* InitPmm, as the three things the invariant says of it.
LEMMA FreshPages == InitPmm \in Seq(Page) /\ Once(InitPmm) /\ Elems(InitPmm) = Page
<1>1. NPages \in Nat /\ InitPmm \in [1 .. NPages -> Page] /\ DOMAIN InitPmm = Page
  BY PagesAssumption DEF InitPmm, Page
<1>2. InitPmm \in Seq(Page)
  BY <1>1
<1>3. \A k \in Page : InitPmm[k] = k
  BY DEF InitPmm
<1>4. Elems(InitPmm) = Page
  <2> HIDE DEF Page
  <2> QED BY <1>1, <1>3, Zenon DEF Elems, InitPmm
<1>5. Once(InitPmm)
  BY <1>1, <1>3 DEF Once
<1> QED BY <1>2, <1>4, <1>5

LEMMA InitHolds == ASSUME Init PROVE HInv
<1>1. /\ pages = [stack |-> InitPmm, max |-> HEAP_PAGE, pgd |-> [i \in Pgd |-> 0], pte |-> [i \in Pgd |-> ZeroTable]]
      /\ held = {} /\ live = {} /\ heap_first = NULL /\ hdr = [a \in Addr |-> NoHeader]
  BY DEF Init
<1>2. hdr \in [Addr -> Header] /\ \A a \in Addr : hdr[a] = NoHeader
  <2>1. NoHeader \in Header
    <3>1. 0 \in 0 .. HeapPages * PAGE_SIZE
      BY HeapAssumption
    <3> QED BY <3>1 DEF NoHeader, Header, NULL
  <2> QED BY <1>1, <2>1
<1>3. Chunk = {}
  BY <1>2 DEF Chunk, ChunksOf, NoHeader
<1>4. ChunkInv
  BY <1>1, <1>2, <1>3 DEF ChunkInv, Links, FreeBut, Below, Chunk
<1>5. LiveInv
  BY <1>1, <1>3 DEF LiveInv, LiveIn, Chunk
<1>6. PICK m : m = pages
  OBVIOUS
<1>7. /\ m.stack = InitPmm /\ m.max = HEAP_PAGE
      /\ m.pgd = [i \in Pgd |-> 0] /\ m.pte = [i \in Pgd |-> ZeroTable]
      /\ m = [stack |-> m.stack, max |-> m.max, pgd |-> m.pgd, pte |-> m.pte]
  BY <1>1, <1>6
<1>8. m.pgd \in [Pgd -> Page \cup {0}] /\ m.pte \in [Pgd -> [0 .. PTE_SIZE - 1 -> Page \cup {0}]]
  BY <1>7 DEF ZeroTable
<1>9. m.max \in HEAP_PAGE .. HEAP_PAGE + HeapPages /\ HeapOf(m) = {}
  BY <1>7, Space DEF HeapOf
<1>10. Tables(m) = {}
  BY <1>7 DEF Tables
<1>11. Free(m) = Page /\ m.stack \in Seq(Page) /\ Once(m.stack)
  BY <1>7, FreshPages DEF Free
<1>12. PagesOK(m, {})
  <2>1. {} \subseteq Page /\ {} \cap Free(m) = {} /\ {} \cap Tables(m) = {} /\ Free(m) \cap Tables(m) = {}
    BY <1>10
  <2> QED BY <1>7, <1>8, <1>9, <1>11, <2>1 DEF PagesOK
<1> QED BY <1>1, <1>2, <1>4, <1>5, <1>6, <1>12 DEF HInv

\* Where a chunk is appended.
LEMMA StartNat == ASSUME hdr \in [Addr -> Header], ChunkInv PROVE ChunkStart \in Nat /\ ChunkStart >= HEAP_START
<1>1. CASE Chunk = {}
  <2>1. List = <<>>
    <3> HIDE DEF List
    <3> QED BY <1>1, ListFacts
  <2> QED BY <2>1, Space DEF ChunkStart
<1>2. CASE Chunk # {}
  <2>1. PICK l \in Chunk : ChunkStart = EndIn(hdr, l)
    BY <1>2, LastFacts
  <2>2. l \in Addr /\ hdr[l].length \in Nat
    BY <2>1, HeaderType DEF Chunk, ChunksOf
  <2>3. l >= HEAP_START /\ l \in Nat /\ HEAP_START \in Nat
    BY <2>2, Space
  <2> HIDE DEF HEAP_START
  <2> QED BY <2>1, <2>2, <2>3 DEF EndIn
<1> QED BY <1>1, <1>2

LEMMA KmallocKeeps == ASSUME HInv, NEW n \in Request, KmallocOld(n) \/ KmallocNew(n) PROVE HInv'
<1>1. hdr \in [Addr -> Header] /\ ChunkInv /\ LiveInv /\ PagesOK(pages, held)
  BY DEF HInv
<1>2. heap_max \in Int
  BY <1>1, MaxFacts
<1>3. CASE KmallocOld(n)
  <2>1. hdr' \in [Addr -> Header] /\ ChunkInv' /\ LiveInv'
    BY <1>1, <1>2, <1>3, OldChunks
  <2>2. pages' = pages /\ held' = held
    BY <1>3 DEF KmallocOld
  <2>3. PagesOK(pages', held')
    BY <1>1, <2>2
  <2> QED BY <2>1, <2>3 DEF HInv
<1>4. CASE KmallocNew(n)
  <2>1. PagesOK(pages', held') /\ heap_max' \in Int /\ heap_max <= heap_max' /\ ChunkStart + (n + HEADER) <= heap_max'
    BY <1>1, <1>4, StartNat, NewPages
  <2>2. hdr' \in [Addr -> Header] /\ ChunkInv' /\ LiveInv'
    BY <1>1, <1>2, <1>4, <2>1, NewChunks
  <2> QED BY <2>1, <2>2 DEF HInv
<1> QED BY <1>3, <1>4

LEMMA KfreeKeeps == ASSUME ShortHeap, HInv, NEW b \in live, Kfree(b), ~stale' PROVE HInv'
<1>1. hdr \in [Addr -> Header] /\ ChunkInv /\ LiveInv /\ PagesOK(pages, held)
  BY DEF HInv
<1>2. heap_max \in Int /\ heap_max <= Limit
  BY <1>1, MaxFacts
<1>3. Accurate(ChunkOf(b)) /\ held' = held
  BY <1>1, KfreeSteps
<1>4. Freed(b) \in Addr /\ Freed(b) <= heap_max
  BY <1>1, <1>2, <1>3, FreedFacts
<1>5. CASE Half2(b)[Freed(b)].next # NULL
  <2>1. pages' = pages
    BY <1>1, <1>5, KfreeSteps
  <2>2. hdr' \in [Addr -> Header] /\ ChunkInv' /\ LiveInv'
    BY <1>1, <1>2, <1>5, FreeChunks
  <2> QED BY <1>1, <1>3, <2>1, <2>2 DEF HInv
<1>6. CASE Half2(b)[Freed(b)].next = NULL
  <2>1. PICK junk \in Page : pages' = ReleasePages(WholePages(Freed(b)), junk)
    BY <1>1, <1>6, KfreeSteps
  <2>2. PagesOK(pages', held) /\ heap_max' \in Int /\ Freed(b) <= heap_max'
    BY <1>1, <1>4, <2>1, ReleasedPages
  <2>3. hdr' \in [Addr -> Header] /\ ChunkInv' /\ LiveInv'
    BY <1>1, <1>2, <2>2, FreeChunks
  <2> QED BY <1>3, <2>2, <2>3 DEF HInv
<1> QED BY <1>5, <1>6

\* What the chunks are does not depend on the pages, up to their number.
LEMMA SameHeap ==
  ASSUME HInv, hdr' = hdr, heap_first' = heap_first, live' = live, pages'.max = pages.max, PagesOK(pages', held')
  PROVE  HInv'
<1>1. hdr \in [Addr -> Header] /\ ChunkInv /\ LiveInv
  BY DEF HInv
<1>2. heap_max' = heap_max
  BY DEF heap_max
<1>3. hdr' \in [Addr -> Header]
  BY <1>1
<1>4. Chunk' = Chunk
  BY DEF Chunk
<1>5. ChunkInv'
  BY <1>1, <1>2, <1>4 DEF ChunkInv
<1>6. LiveInv'
  BY <1>1 DEF LiveInv
<1> QED BY <1>3, <1>5, <1>6 DEF HInv

LEMMA NextKeeps == ASSUME ShortHeap, HInv, [Next]_vars, ~stale' PROVE HInv'
<1>1. CASE \E n \in Request : KmallocOld(n) \/ KmallocNew(n)
  BY <1>1, KmallocKeeps
<1>2. CASE \E b \in live : Kfree(b)
  BY <1>2, KfreeKeeps
<1>3. CASE \E n \in 1 .. NPages : ShellAlloc(n)
  <2>1. PICK n \in 1 .. NPages : ShellAlloc(n)
    BY <1>3
  <2>2. PagesOK(pages, held)
    BY DEF HInv
  <2>3. PagesOK(pages', held') /\ pages'.max = pages.max
    BY <2>1, <2>2, ShellPages
  <2>4. hdr' = hdr /\ heap_first' = heap_first /\ live' = live
    BY <2>1 DEF ShellAlloc
  <2> QED BY <2>3, <2>4, SameHeap
<1>4. CASE UNCHANGED vars
  <2>1. hdr' = hdr /\ heap_first' = heap_first /\ live' = live /\ pages' = pages /\ held' = held
    BY <1>4 DEF vars
  <2>2. PagesOK(pages', held')
    BY <2>1 DEF HInv
  <2> QED BY <2>1, <2>2, SameHeap
<1> QED BY <1>1, <1>2, <1>3, <1>4 DEF Next

\* No step takes the mark stale back.
LEMMA StaleStays == ASSUME [Next]_vars, stale PROVE stale'
BY Zenon DEF Next, vars, KmallocOld, KmallocNew, Kfree, ShellAlloc

\* The heap is in order until a chunk with a stale prev link is returned.
SInv == ~stale => HInv

LEMMA Invariant == ShortHeap /\ Spec => []SInv
<1>1. Init => SInv
  BY InitHolds DEF SInv
<1>2. ASSUME ShortHeap, SInv, [Next]_vars PROVE SInv' /\ ShortHeap'
  <2>1. ASSUME ~stale' PROVE HInv'
    <3>1. ~stale
      BY <1>2, <2>1, StaleStays
    <3> QED BY <1>2, <2>1, <3>1, NextKeeps DEF SInv
  <2> QED BY <1>2, <2>1 DEF SInv, ShortHeap
<1>3. ShortHeap /\ SInv /\ [Next]_vars => SInv' /\ ShortHeap'
  BY <1>2
<1> QED BY <1>1, <1>3, PTL DEF Spec

--------------------------------------------------------------------------------
(* What follows                                                            *)

\* A sequence that has no element twice is as long as it has elements.
LEMMA OnceCounts ==
  ASSUME NEW s \in Seq(Page), Once(s)
  PROVE  IsFiniteSet(Elems(s)) /\ Len(s) = Cardinality(Elems(s)) /\ Elems(s) \subseteq Page
<1>1. Len(s) \in Nat /\ DOMAIN s = 1 .. Len(s) /\ s \in [1 .. Len(s) -> Elems(s)]
  BY DEF Elems
<1>2. s \in Bijection(1 .. Len(s), Elems(s))
  <2>1. \A j, k \in 1 .. Len(s) : s[j] = s[k] => j = k
    BY <1>1 DEF Once
  <2>2. \A p \in Elems(s) : \E k \in 1 .. Len(s) : s[k] = p
    BY <1>1 DEF Elems
  <2> QED BY <1>1, <2>1, <2>2, Fun_IsBij
<1>3. ExistsBijection(1 .. Len(s), Elems(s))
  BY <1>2, Zenon DEF ExistsBijection
<1>4. IsFiniteSet(Elems(s)) /\ Len(s) = Cardinality(Elems(s))
  BY <1>1, <1>3, FS_CountingElements, FS_NatBijection
<1>5. Elems(s) \subseteq Page
  BY <1>1 DEF Elems
<1> QED BY <1>4, <1>5

LEMMA HInvType == ASSUME HInv, stale \in BOOLEAN PROVE TypeOK
<1>1. hdr \in [Addr -> Header] /\ ChunkInv /\ PagesOK(pages, held)
  BY DEF HInv
<1>2. heap_first \in {NULL, HEAP_START}
  BY <1>1 DEF ChunkInv
<1>3. pages.stack \in Seq(Page) /\ Once(pages.stack)
  BY <1>1 DEF PagesOK
<1>4. Len(pages.stack) <= NPages
  <2>1. NPages \in Nat /\ IsFiniteSet(Page) /\ Cardinality(Page) = NPages
    BY PagesAssumption, FS_Interval DEF Page
  <2>2. PICK s \in Seq(Page) : s = pages.stack /\ Once(s)
    BY <1>3
  <2>3. Len(s) = Cardinality(Elems(s)) /\ Elems(s) \in SUBSET Page
    BY <2>2, OnceCounts
  <2>4. Cardinality(Elems(s)) <= Cardinality(Page)
    BY <2>1, <2>3, FS_Subset
  <2> QED BY <2>1, <2>2, <2>3, <2>4
<1>5. \A k \in DOMAIN pages.stack : pages.stack[k] \in Page
  BY <1>3
<1>6. stale \in BOOLEAN
  OBVIOUS
<1> QED BY <1>1, <1>2, <1>4, <1>5, <1>6 DEF TypeOK, PagesOK

LEMMA HInvList == ASSUME HInv PROVE ListInOrder
<1>1. hdr \in [Addr -> Header] /\ ChunkInv /\ LiveInv
  BY DEF HInv
<1> DEFINE l == List
<1>2. /\ l \in Seq(Chunk) /\ Len(l) \in Nat /\ DOMAIN l = 1 .. Len(l)
      /\ \A c \in Chunk : \E k \in DOMAIN l : l[k] = c
      /\ \A k \in DOMAIN l : /\ l[k] \in Chunk /\ l[k] \in Addr
                             /\ k < Len(l) => hdr[l[k]].next = l[k + 1] /\ k + 1 \in DOMAIN l
                             /\ k = Len(l) => hdr[l[k]].next = NULL
  BY <1>1, ListFacts
<1> HIDE DEF l
<1>3. ASSUME NEW k \in DOMAIN l
      PROVE  /\ k < Len(l) => l[k] + hdr[l[k]].length = l[k + 1]
             /\ hdr[l[k]].allocated = 0 => k < Len(l) /\ hdr[l[k + 1]].allocated = 1
  <2>1. l[k] \in Chunk /\ l[k] # NULL
    BY <1>2, Space
  <2>2. ASSUME k < Len(l) PROVE l[k] + hdr[l[k]].length = l[k + 1]
    <3>1. hdr[l[k]].next = l[k + 1] /\ l[k + 1] \in Addr
      BY <1>2, <2>2
    <3>2. hdr[l[k]].next # NULL
      BY <3>1, Space
    <3> QED BY <1>1, <2>1, <3>1, <3>2 DEF ChunkInv, Links, EndIn, Chunk
  <2>3. ASSUME hdr[l[k]].allocated = 0 PROVE k < Len(l) /\ hdr[l[k + 1]].allocated = 1
    <3>1. hdr[l[k]].next # NULL /\ (hdr[l[k]].next = NULL \/ hdr[hdr[l[k]].next].allocated = 1)
      BY <1>1, <2>1, <2>3 DEF ChunkInv, FreeBut, Chunk
    <3>2. k < Len(l)
      BY <1>2, <3>1
    <3> QED BY <1>2, <3>1, <3>2
  <2> QED BY <2>2, <2>3
<1>4. {b.at : b \in live} = {l[k] + HEADER : k \in {j \in DOMAIN l : hdr[l[j]].allocated = 1}}
  <2>1. ASSUME NEW b \in live PROVE \E k \in DOMAIN l : hdr[l[k]].allocated = 1 /\ b.at = l[k] + HEADER
    <3>1. b.at \in Nat /\ b.at - HEADER \in Chunk /\ hdr[b.at - HEADER].allocated = 1
      BY <1>1 DEF LiveInv, LiveIn, Chunk
    <3>2. PICK k \in DOMAIN l : l[k] = b.at - HEADER
      BY <1>2, <3>1
    <3> QED BY <3>1, <3>2, Space
  <2>2. ASSUME NEW k \in DOMAIN l, hdr[l[k]].allocated = 1 PROVE \E b \in live : b.at = l[k] + HEADER
    BY <1>1, <1>2, <2>2 DEF LiveInv, LiveIn, Chunk
  <2> QED BY <2>1, <2>2
<1>5. \A b \in live : b.len + HEADER <= hdr[b.at - HEADER].length
  BY <1>1 DEF LiveInv, LiveIn
<1> QED BY <1>3, <1>4, <1>5 DEF ListInOrder, l

LEMMA HInvBacked == ASSUME HInv PROVE HeapBacked
<1>1. hdr \in [Addr -> Header] /\ ChunkInv /\ PagesOK(pages, held)
  BY DEF HInv
<1>2. \A k \in DOMAIN List : List[k] + hdr[List[k]].length <= heap_max
  <2>1. \A k \in DOMAIN List : List[k] \in Chunk
    <3> HIDE DEF List
    <3> QED BY <1>1, ListFacts
  <2> HIDE DEF List
  <2> QED BY <1>1, <2>1 DEF ChunkInv, Below, EndIn, Chunk
<1>3. /\ \A v \in HeapOf(pages) : GetMapping(pages, v) \in Page \ (held \cup Tables(pages) \cup Free(pages))
      /\ \A v, w \in HeapOf(pages) : GetMapping(pages, v) = GetMapping(pages, w) => v = w
  BY <1>1 DEF PagesOK
<1> QED BY <1>2, <1>3 DEF HeapBacked, HeapOf, Tables, Free, Elems

LEMMA HInvLost == ASSUME HInv PROVE NoPageLost
<1>1. PagesOK(pages, held)
  BY DEF HInv
<1>2. /\ pages.stack \in Seq(Page) /\ Once(pages.stack)
      /\ Page \subseteq Free(pages) \cup held \cup Tables(pages) \cup {GetMapping(pages, v) : v \in HeapOf(pages)}
  BY <1>1 DEF PagesOK
<1>3. Len(pages.stack) = Cardinality(Free(pages))
  BY <1>2, OnceCounts DEF Free
<1> QED BY <1>2, <1>3 DEF NoPageLost, Free, Elems, Tables, HeapOf

--------------------------------------------------------------------------------
(* The abstract allocator                                                  *)

\* Two blocks in use share no address, and lie inside the heap.
LEMMA BlocksApart ==
  ASSUME NEW h, h \in [Addr -> Header], NEW l, LiveIn(h, l), Links(h), NEW top \in Int, Below(h, top), top <= Limit, NEW b \in l
  PROVE  /\ b.at \in Addr /\ A!Cells(b) \subseteq Addr
         /\ \A d \in l : d.at # b.at => A!Cells(b) \cap A!Cells(d) = {}
<1> DEFINE c == b.at - HEADER
<1>1. /\ b.at \in Nat /\ b.len \in Nat /\ b.len > 0 /\ c \in ChunksOf(h) /\ b.len + HEADER <= h[c].length
  <2>1. b \in [at : Nat, len : Request] /\ c \in ChunksOf(h) /\ b.len + HEADER <= h[c].length
    BY Zenon DEF LiveIn
  <2>2. b.at \in Nat /\ b.len \in Request
    BY <2>1
  <2>3. \A n \in Request : n \in Nat /\ n > 0
    BY HeapAssumption
  <2> QED BY <2>1, <2>2, <2>3
<1>2. c \in Addr /\ c \in Nat /\ h[c].length \in Nat /\ HEADER \in Nat /\ HEADER > 0 /\ EndIn(h, c) <= top
  <2> HIDE DEF c
  <2>1. c \in Addr
    BY <1>1 DEF ChunksOf
  <2>2. PICK x \in Addr : x = c
    BY <2>1
  <2>3. x \in Nat /\ h[x].length \in Nat /\ HEADER \in Nat /\ HEADER > 0
    BY Space, HeaderType
  <2>4. EndIn(h, c) <= top
    BY <1>1 DEF Below
  <2> QED BY <2>1, <2>2, <2>3, <2>4
<1>3. HEAP_START \in Nat /\ Limit \in Nat /\ Addr = HEAP_START .. Limit - 1
  BY Space
<1>4. HEAP_START <= c /\ c < b.at /\ b.at + b.len <= EndIn(h, c) /\ EndIn(h, c) \in Nat /\ EndIn(h, c) <= Limit
  <2> HIDE DEF c
  <2>1. PICK e : e = EndIn(h, c)
    OBVIOUS
  <2>2. e = c + h[c].length /\ e <= top
    BY <1>2, <2>1 DEF EndIn
  <2>3. HEAP_START <= c
    BY <1>2, <1>3
  <2>4. c = b.at - HEADER
    BY DEF c
  <2>5. c < b.at /\ b.at + b.len <= e /\ e \in Nat /\ e <= Limit
    <3> HIDE DEF HEAP_START, Limit
    <3> QED BY <1>1, <1>2, <1>3, <2>2, <2>4
  <2> QED BY <2>1, <2>3, <2>5
<1>5. b.at \in Addr /\ A!Cells(b) \subseteq Addr
  <2> HIDE DEF c
  <2> QED BY <1>1, <1>2, <1>3, <1>4 DEF A!Cells
<1>6. ASSUME NEW d \in l, d.at # b.at PROVE A!Cells(b) \cap A!Cells(d) = {}
  <2> DEFINE e == d.at - HEADER
  <2>1. d.at \in Nat /\ d.len \in Nat /\ d.len > 0 /\ e \in ChunksOf(h) /\ d.len + HEADER <= h[e].length
    <3>1. d \in [at : Nat, len : Request] /\ e \in ChunksOf(h) /\ d.len + HEADER <= h[e].length
      BY Zenon DEF LiveIn
    <3>2. d.at \in Nat /\ d.len \in Request
      BY <3>1
    <3>3. \A n \in Request : n \in Nat /\ n > 0
      BY HeapAssumption
    <3> QED BY <3>1, <3>2, <3>3
  <2>2. e \in Nat /\ h[e].length \in Nat /\ e < d.at /\ d.at + d.len <= EndIn(h, e) /\ e # c
    <3>1. e # c
      BY <1>1, <1>2, <1>6, <2>1
    <3>2. e = d.at - HEADER
      OBVIOUS
    <3> HIDE DEF c, e
    <3>3. PICK x \in Addr : x = e
      BY <2>1 DEF ChunksOf
    <3>4. e \in Nat /\ h[e].length \in Nat
      BY <3>3, Space, HeaderType
    <3> QED BY <1>2, <2>1, <3>1, <3>2, <3>4 DEF EndIn
  <2>3. EndIn(h, c) <= e \/ EndIn(h, e) <= c
    <3> HIDE DEF c, e
    <3> QED BY <1>1, <2>1, <2>2, Apart
  <2> HIDE DEF c, e
  <2>4. EndIn(h, e) \in Nat
    BY <2>2 DEF EndIn
  <2> QED BY <1>1, <1>2, <1>4, <2>1, <2>2, <2>3, <2>4 DEF A!Cells
<1> QED BY <1>5, <1>6

\* What kmalloc returns is a block that the abstract allocator may hand out.
LEMMA KmallocHands == ASSUME HInv, NEW n \in Request, KmallocOld(n) \/ KmallocNew(n) PROVE A!Hand(n)
<1>1. hdr \in [Addr -> Header] /\ ChunkInv /\ LiveInv /\ PagesOK(pages, held)
  BY DEF HInv
<1>2. HInv'
  BY KmallocKeeps
<1>3. PICK c \in Nat : live' = live \cup {[at |-> c + HEADER, len |-> n]} /\ ~(c \in Chunk /\ hdr[c].allocated = 1)
  <2>1. CASE KmallocOld(n)
    <3>1. PICK c : c = List[Min(Fits(n + HEADER))]
      OBVIOUS
    <3>2. Fits(n + HEADER) # {} /\ live' = live \cup {[at |-> c + HEADER, len |-> n]}
      BY <2>1, <3>1, Zenon DEF KmallocOld, HandOut
    <3>3. PICK len \in Nat : len = n + HEADER
      BY Space, HeapAssumption
    <3>4. c \in Chunk /\ hdr[c].allocated = 0
      BY <1>1, <3>1, <3>2, <3>3, FitFacts
    <3>5. c \in Nat
      BY <3>4, Space DEF Chunk, ChunksOf
    <3> QED BY <3>2, <3>4, <3>5
  <2>2. CASE KmallocNew(n)
    <3>1. live' = live \cup {[at |-> ChunkStart + HEADER, len |-> n]}
      BY <2>2, Zenon DEF KmallocNew, HandOut
    <3>2. ChunkStart \in Nat /\ ChunkStart >= HEAP_START
      BY <1>1, StartNat
    <3>3. ChunkStart \notin Chunk
      <4>1. CASE Chunk = {}
        BY <4>1
      <4>2. CASE Chunk # {}
        <5>1. PICK l \in Chunk : ChunkStart = EndIn(hdr, l) /\ \A b \in Chunk : b <= l
          BY <1>1, <4>2, LastFacts
        <5>2. l \in Nat /\ hdr[l].length \in Nat /\ hdr[l].length > 0
          BY <1>1, <5>1, Space, HeaderType DEF Chunk, ChunksOf
        <5>3. PICK x : x = ChunkStart
          OBVIOUS
        <5>4. x \in Nat /\ x > l
          BY <5>1, <5>2, <5>3 DEF EndIn
        <5> QED BY <5>1, <5>2, <5>3, <5>4
      <4> QED BY <4>1, <4>2
    <3> QED BY <3>1, <3>2, <3>3
  <2> QED BY <2>1, <2>2
<1>4. PICK b : b = [at |-> c + HEADER, len |-> n]
  OBVIOUS
<1>5. PICK h : h = hdr'
  OBVIOUS
<1>6. PICK l : l = live'
  OBVIOUS
<1>7. PICK m : m = pages'
  OBVIOUS
<1>8. PICK top : top = m.max * PAGE_SIZE
  OBVIOUS
<1>9. /\ h \in [Addr -> Header] /\ LiveIn(h, l) /\ Links(h) /\ Below(h, top) /\ PagesOK(m, held')
  BY <1>2, <1>5, <1>6, <1>7, <1>8 DEF HInv, ChunkInv, LiveInv, heap_max
<1>10. top \in Int /\ top <= Limit
  BY <1>8, <1>9, MaxOf
<1>11. b \in l /\ live \subseteq l /\ l = live \cup {b}
  BY <1>3, <1>4, <1>6
<1>12. b.at \in Addr /\ A!Cells(b) \subseteq Addr /\ \A d \in l : d.at # b.at => A!Cells(b) \cap A!Cells(d) = {}
  BY <1>9, <1>10, <1>11, BlocksApart
<1>13. ASSUME NEW d \in live PROVE d.at # b.at
  <2>1. d.at \in Nat /\ d.at - HEADER \in Chunk /\ hdr[d.at - HEADER].allocated = 1
    BY <1>1 DEF LiveInv, LiveIn, Chunk
  <2>2. SUFFICES ASSUME d.at = b.at PROVE FALSE
    OBVIOUS
  <2>3. d.at - HEADER = c
    BY <1>4, <2>2, Space
  <2> QED BY <1>3, <2>1, <2>3
<1>14. b \in [at : Addr, len : {n}]
  BY <1>4, <1>12
<1> QED BY <1>6, <1>11, <1>12, <1>13, <1>14 DEF A!Hand

LEMMA StaleType == Spec => [](stale \in BOOLEAN)
<1>1. Init => stale \in BOOLEAN
  BY DEF Init
<1>2. stale \in BOOLEAN /\ [Next]_vars => (stale \in BOOLEAN)'
  <2> SUFFICES ASSUME stale \in BOOLEAN, [Next]_vars PROVE stale' \in BOOLEAN
    OBVIOUS
  <2>1. CASE stale' = stale
    BY <2>1
  <2>2. CASE \E b \in live : stale' = (stale \/ ~Accurate(b.at - HEADER))
    BY <2>2, Zenon
  <2> QED BY <2>1, <2>2, Zenon DEF Next, vars, KmallocOld, KmallocNew, Kfree, ShellAlloc
<1> QED BY <1>1, <1>2, PTL DEF Spec

\* mm/heap.c: until kfree is given a chunk whose prev link a split left stale, memory
\* is typed, and the free stack never outgrows the pages there are.
THEOREM HeapTypeCorrect == ShortHeap /\ Spec => []TypeOK
<1>1. ASSUME SInv, stale \in BOOLEAN PROVE TypeOK
  <2>1. CASE stale
    BY <1>1, <2>1 DEF TypeOK
  <2>2. CASE ~stale
    BY <1>1, <2>2, HInvType DEF SInv
  <2> QED BY <2>1, <2>2
<1>2. SInv /\ stale \in BOOLEAN => TypeOK
  BY <1>1
<1> QED BY <1>2, Invariant, StaleType, PTL

\* mm/heap.c (split_chunk, glue_chunk): until then the chunks lie end to end, no two
\* free ones side by side, and those in use are the blocks handed out, each with its room.
THEOREM ListStaysInOrder == ShortHeap /\ Spec => []ListInOrder
<1>1. SInv => ListInOrder
  <2>1. CASE stale
    BY <2>1 DEF ListInOrder
  <2>2. CASE ~stale
    BY <2>2, HInvList DEF SInv
  <2> QED BY <2>1, <2>2
<1> QED BY <1>1, Invariant, PTL

\* mm/heap.c (alloc_chunk, free_chunk): until then every chunk lies on pages of its own.
THEOREM HeapStaysBacked == ShortHeap /\ Spec => []HeapBacked
<1>1. SInv => HeapBacked
  <2>1. CASE stale
    BY <2>1 DEF HeapBacked
  <2>2. CASE ~stale
    BY <2>2, HInvBacked DEF SInv
  <2> QED BY <2>1, <2>2
<1> QED BY <1>1, Invariant, PTL

\* mm/pmm.c: until then a page is free, held, a table or mapped for the heap, and never
\* on the stack of free pages twice.
THEOREM PagesAreKept == ShortHeap /\ Spec => []NoPageLost
<1>1. SInv => NoPageLost
  <2>1. CASE stale
    BY <2>1 DEF NoPageLost
  <2>2. CASE ~stale
    BY <2>2, HInvLost DEF SInv
  <2> QED BY <2>1, <2>2
<1> QED BY <1>1, Invariant, PTL

\* mm/heap.c (kmalloc, kfree): until then what kmalloc returns shares no address with a
\* block in use.
THEOREM HeapAllocates == ShortHeap /\ Spec => ImplementsAllocator
<1>1. Init => A!AInit
  BY DEF Init, A!AInit
<1>2. ASSUME SInv, [Next]_vars, ~stale', live' # live PROVE A!ANext
  <2>0. HInv
    BY <1>2, StaleStays DEF SInv
  <2>1. CASE \E n \in Request : KmallocOld(n) \/ KmallocNew(n)
    <3>1. \E n \in Request : A!Hand(n)
      BY <2>0, <2>1, KmallocHands
    <3> QED BY <3>1 DEF A!ANext
  <2>2. CASE \E b \in live : Kfree(b)
    <3>1. \E b \in live : live' = live \ {b}
      BY <2>2, Zenon DEF Kfree
    <3> QED BY <3>1 DEF A!ANext, A!Return
  <2>3. CASE (\E n \in 1 .. NPages : ShellAlloc(n)) \/ UNCHANGED vars
    BY <1>2, <2>3 DEF ShellAlloc, vars
  <2> QED BY <1>2, <2>1, <2>2, <2>3 DEF Next
<1>3. SInv /\ [Next]_vars => [stale' \/ A!ANext]_live
  BY <1>2
<1> QED BY <1>1, <1>3, Invariant, PTL DEF Spec, ImplementsAllocator
================================================================================
