------------------------------ MODULE FsDirProofs ------------------------------
(***************************************************************************)
(* Who owns a sector, what the directories hold, where the paths of the    *)
(* terminals lead and which inodes are found again, proved for every       *)
(* number of terminals, commands, power failures and sectors.              *)
(*                                                                         *)
(* The hypotheses are those under which mk.c does what it means to do: one *)
(* sector of map and one of inodes (the run that crosses a sector of the   *)
(* map and the inode behind the first sector are left to the runs), and a  *)
(* disk that has room for what is asked for.  InodesAreFound needs the     *)
(* last of these only.                                                     *)
(***************************************************************************)
EXTENDS ShellFs, TLAPS, FiniteSetTheorems

\* A set of numbers has a least one: take the smallest of its initial parts.
LEMMA MinInSet == ASSUME NEW S \in SUBSET Nat, S # {} PROVE Min(S) \in S /\ \A y \in S : Min(S) <= y
<1> DEFINE Part(x) == S \cap (0 .. x)
           Parts   == {Part(x) : x \in S}
           R       == StrictSubsetOrdering(Nat)
<1>1. Parts \subseteq FiniteSubsetsOf(Nat) /\ Parts # {}
  <2>1. ASSUME NEW x \in S PROVE IsFiniteSet(Part(x))
    <3>1. IsFiniteSet(0 .. x)
      BY FS_Interval
    <3> QED BY <3>1, FS_Subset
  <2> QED BY <2>1 DEF FiniteSubsetsOf
<1>2. PICK P \in Parts : \A Q \in Parts : <<Q, P>> \notin R
  <2> DEFINE F == FiniteSubsetsOf(Nat)
  <2>1. IsWellFoundedOn(R, F)
    BY FS_StrictSubsetOrderingWellFounded
  <2>2. Parts \subseteq F /\ Parts # {}
    BY <1>1
  <2> HIDE DEF R, F, Parts
  <2> QED BY <2>1, <2>2, WFMin
<1>3. PICK x \in S : P = Part(x)
  BY <1>2
<1>4. ASSUME NEW y \in S PROVE x =< y
  <2> SUFFICES ASSUME y < x PROVE FALSE
    OBVIOUS
  <2>1. Part(y) \in SUBSET Nat /\ Part(x) \in SUBSET Nat /\ Part(y) \subseteq Part(x)
    OBVIOUS
  <2>2. x \in Part(x) /\ x \notin Part(y)
    OBVIOUS
  <2>3. <<Part(y), Part(x)>> \in StrictSubsetOrdering(Nat)
    BY <2>1, <2>2 DEF StrictSubsetOrdering
  <2> QED BY <1>2, <1>3, <2>3
<1> QED BY <1>4 DEF Min

--------------------------------------------------------------------------------
(* Hypotheses and invariant                                                *)

\* One sector of sector map, one of inodes: the parts of mk.c that are right.
OneSector == MapSects = 1 /\ InodeSects = 1

\* inode_alloc_sector finds what it looks for.
RoomLeft == fs_pc = "alloc" => FreeRuns(SectorsOf(op.type)) # {}

Span(inode) == inode.start .. inode.start + inode.num - 1

Shape ==
  /\ imap \in [InodeId -> 0 .. 1] /\ smap \in [Sector -> 0 .. 1] /\ itab \in [InodeId -> Inode]
  /\ data = [s \in Sector |-> data[s]] /\ \A s \in Sector : data[s] \in Seq(Range(data[s]))
  /\ op = [type |-> op.type, name |-> op.name, dir |-> op.dir, id |-> op.id, inode |-> op.inode]
  /\ op.type \in Types /\ op.id \in InodeId /\ op.inode \in Inode

\* A sector a new inode may be given to: behind the inode table, marked in the map.
Held(s) == s \in Sector /\ FirstData <= s /\ smap[s] = 1

\* The inodes that are in a directory.
NamedInv ==
  /\ \A s \in Sector : s < FirstData => smap[s] = 1
  /\ \A e \in Named : e.id \in InodeId /\ itab[e.id].num = SectorsOf(e.type)
  /\ \A d, e \in Named : d.id = e.id => d = e
  /\ \A i \in Linked : imap[i] = 1 /\ \A s \in Span(itab[i]) : Held(s)
  /\ \A i, j \in Linked : i # j => Span(itab[i]) \cap Span(itab[j]) = {}

\* The inode that is being made: nobody else's, and its sectors too.
Making == {"alloc", "update", "clear", "clear2", "entry"}
NewInv ==
  /\ fs_pc \in Making => imap[op.id] = 1 /\ op.id \notin Linked
  /\ fs_pc \in Making \ {"alloc"} =>
       /\ op.inode.num = SectorsOf(op.type)
       /\ \A s \in Span(op.inode) : Held(s)
       /\ \A i \in Linked : Span(itab[i]) \cap Span(op.inode) = {}
  /\ fs_pc \in Making \ {"alloc", "update"} => itab[op.id] = op.inode

IInv == Shape /\ NamedInv /\ NewInv

--------------------------------------------------------------------------------
(* The operators of mk.c                                                   *)

LEMMA DivZero == ASSUME NEW n \in Nat \ {0}, NEW i \in 0 .. n - 1 PROVE i \div n = 0
  OBVIOUS

LEMMA Sizes == ASSUME OneSector PROVE /\ InodeId = 0 .. PerSector - 1 /\ ROOT \in InodeId
                                      /\ Sector = 0 .. SECTOR_BITS - 1 /\ FirstData = 5
                                      /\ SECTOR_BITS \in Nat /\ 7 <= SECTOR_BITS
  BY FsDirAssumption DEF OneSector, InodeId, ROOT, Sector, FirstData

LEMMA ZeroedInode == ASSUME OneSector PROVE 0 \in InodeId /\ NoInode \in Inode
<1>1. 0 \in InodeId /\ 0 \in Sector
  BY Sizes, FsDirAssumption
<1> QED BY <1>1 DEF NoInode, Inode

\* mk.c:201: the place of an inode in the first sector is its number.
LEMMA FirstSlot == ASSUME OneSector, NEW id \in InodeId PROVE InodeSector(id) = 0 /\ Slot(id) = id /\ id >= 0
<1>1. id \in 0 .. PerSector - 1 /\ PerSector \in Nat \ {0} /\ INODE_SIZE \in Nat
  BY Sizes, FsDirAssumption
<1>2. id \div PerSector = 0
  BY <1>1, DivZero
<1> QED BY <1>1, <1>2 DEF InodeSector, Slot

LEMMA Found == ASSUME OneSector, NEW id \in InodeId PROVE FindInode(id) = itab[id]
<1>1. 0 * PerSector = 0 /\ id \in Int
  BY Sizes, FsDirAssumption
<1> QED BY <1>1, FirstSlot DEF FindInode

LEMMA Updated ==
  ASSUME OneSector, NEW id \in InodeId, NEW inode, UpdateInode(id, inode)
  PROVE  itab' = [itab EXCEPT ![id] = inode]
<1>1. 0 * PerSector = 0 /\ id \in Int
  BY Sizes, FsDirAssumption
<1> QED BY <1>1, FirstSlot DEF UpdateInode

\* mk.c:45: every bit of a run in the first sector of the map is set.
LEMMA MarkedAll ==
  ASSUME OneSector, NEW start \in Sector, NEW n \in 1 .. 2, start + n - 1 \in Sector, UpdateSectorMap(start, n)
  PROVE  smap' = [s \in Sector |-> IF s \in start .. start + n - 1 THEN 1 ELSE smap[s]]
<1>1. start \div SECTOR_BITS = 0 /\ (start + n - 1) \div SECTOR_BITS = 0
  BY Sizes, DivZero
<1> QED BY <1>1 DEF UpdateSectorMap

LEMMA AppendRange == ASSUME NEW q, q \in Seq(Range(q)), NEW e
                     PROVE  Range(Append(q, e)) = Range(q) \cup {e} /\ Append(q, e) \in Seq(Range(Append(q, e)))
<1> DEFINE R == Range(q)
<1>1. q \in Seq(R)
  OBVIOUS
<1>2. Append(q, e) \in Seq(R \cup {e}) /\ Len(Append(q, e)) = Len(q) + 1
      /\ \A k \in 1 .. Len(q) + 1 : Append(q, e)[k] = IF k <= Len(q) THEN q[k] ELSE e
  BY <1>1
<1>3. /\ Len(q) \in Nat /\ DOMAIN q = 1 .. Len(q) /\ DOMAIN Append(q, e) = 1 .. Len(q) + 1
  BY <1>1
<1>4. \A x : x \in Range(Append(q, e)) <=> x \in Range(q) \/ x = e
  <2> HIDE DEF R
  <2> QED BY <1>2, <1>3 DEF Range
<1>5. Range(Append(q, e)) = R \cup {e}
  BY <1>4
<1> QED BY <1>2, <1>5

\* mk.c:310: an entry is put behind those of a sector, or nowhere.
LEMMA Entered1 ==
  ASSUME data = [s \in Sector |-> data[s]], \A s \in Sector : data[s] \in Seq(Range(data[s])),
         NEW dir, NEW e, AddDirEntry(dir, e)
  PROVE  /\ data' = [s \in Sector |-> data'[s]] /\ \A s \in Sector : data'[s] \in Seq(Range(data'[s]))
         /\ \A x \in Named' : x \in Named \/ (x = e /\ e.name \notin {DOT, DOTDOT})
<1>1. PICK m : data' = data \/ data' = [data EXCEPT ![m] = Append(data[m], e)]
  BY DEF AddDirEntry
<1>2. ASSUME NEW s \in Sector
      PROVE  data'[s] \in Seq(Range(data'[s])) /\ Range(data'[s]) \subseteq Range(data[s]) \cup {e}
  <2>1. CASE data'[s] = data[s]
    BY <2>1
  <2>2. CASE data'[s] = Append(data[s], e)
    BY <2>2, AppendRange
  <2>3. data'[s] \in {data[s], Append(data[s], e)}
    BY <1>1
  <2> QED BY <2>1, <2>2, <2>3
<1>3. data' = [s \in Sector |-> data'[s]]
  BY <1>1
<1>4. ASSUME NEW x \in Named' PROVE x \in Named \/ (x = e /\ e.name \notin {DOT, DOTDOT})
  <2>1. PICK s \in Sector : x \in Range(data'[s])
    BY DEF Named
  <2> QED BY <1>2, <2>1 DEF Named
<1> QED BY <1>2, <1>3, <1>4

--------------------------------------------------------------------------------
(* Every step keeps the invariant                                          *)

LEMMA NamedSame == ASSUME data' = data PROVE Named' = Named /\ Linked' = Linked
  BY DEF Named, Linked

LEMMA LinkedIds == ASSUME OneSector, Shape, NamedInv PROVE Linked \subseteq InodeId
  BY Sizes DEF Linked, NamedInv

LEMMA InitIInv == ASSUME OneSector, Init PROVE IInv
<1>1. Named = {} /\ Linked = {ROOT}
  <2>1. ASSUME NEW s \in Sector, NEW e \in Range(data[s]) PROVE e.name = DOT
    BY <2>1 DEF Init, FsInit, Range
  <2> QED BY <2>1 DEF Named, Linked
<1>2. Shape
  <2>1. ASSUME NEW s \in Sector PROVE data[s] \in Seq(Range(data[s]))
    <3> DEFINE e == [id |-> ROOT, name |-> DOT, type |-> "folder"]
    <3>1. data[s] = <<e>> \/ data[s] = <<>>
      BY DEF Init, FsInit
    <3>2. Range(<<e>>) = {e} /\ <<e>> \in Seq({e}) /\ <<>> \in Seq(Range(<<>>))
      BY DEF Range
    <3> HIDE DEF e
    <3> QED BY <3>1, <3>2
  <2>2. imap \in [InodeId -> 0 .. 1] /\ smap \in [Sector -> 0 .. 1]
    BY DEF Init, FsInit
  <2>3. itab \in [InodeId -> Inode]
    BY Sizes DEF Init, FsInit, Inode, NoInode
  <2>4. data = [s \in Sector |-> data[s]]
    BY DEF Init, FsInit
  <2>5. op.type \in Types /\ op.id \in InodeId /\ op.inode \in Inode
    BY ZeroedInode DEF Init, FsBoot, NoOp, Types
  <2>6. op = [type |-> op.type, name |-> op.name, dir |-> op.dir, id |-> op.id, inode |-> op.inode]
    BY DEF Init, FsBoot, NoOp
  <2> QED BY <2>1, <2>2, <2>3, <2>4, <2>5, <2>6 DEF Shape
<1>3. NamedInv
  <2>1. imap[ROOT] = 1 /\ itab[ROOT] = [start |-> 5, num |-> 2]
    BY Sizes DEF Init, FsInit
  <2>2. \A s \in 5 .. 6 : Held(s)
    BY Sizes DEF Init, FsInit, Held
  <2>3. \A s \in Span(itab[ROOT]) : Held(s)
    BY <2>1, <2>2 DEF Span
  <2>4. \A s \in Sector : s < FirstData => smap[s] = 1
    BY Sizes DEF Init, FsInit
  <2> QED BY <1>1, <2>1, <2>3, <2>4 DEF NamedInv
<1> QED BY <1>2, <1>3 DEF IInv, NewInv, Making, Init, FsBoot

LEMMA NewInodeIInv == ASSUME OneSector, IInv, NewInode PROVE IInv'
<1> DEFINE Clear == {i \in InodeId : imap[i] = 0}
<1>1. Clear \in SUBSET Nat /\ Clear # {}
  BY Sizes DEF NewInode
<1>2. GetNewInode \in InodeId /\ imap[GetNewInode] = 0
  BY <1>1, MinInSet DEF GetNewInode
<1>3. op' = [op EXCEPT !.id = GetNewInode] /\ op'.id = GetNewInode
  BY DEF NewInode, IInv, Shape
<1>4. imap' = [imap EXCEPT ![GetNewInode] = 1] /\ UNCHANGED <<smap, itab, data, stray>>
  BY <1>3 DEF NewInode
<1>5. Named' = Named /\ Linked' = Linked /\ Linked \subseteq InodeId
  BY <1>4, NamedSame, LinkedIds DEF IInv
<1>6. Shape'
  BY <1>2, <1>3, <1>4 DEF IInv, Shape
<1>7. imap'[GetNewInode] = 1 /\ \A i \in Linked : imap'[i] = 1
  BY <1>2, <1>4, <1>5 DEF IInv, Shape, NamedInv
<1>8. NamedInv'
  BY <1>4, <1>5, <1>7 DEF IInv, NamedInv, Held
<1>9. NewInv'
  BY <1>2, <1>3, <1>5, <1>7 DEF IInv, NamedInv, NewInv, Making, NewInode, FsTo
<1> QED BY <1>6, <1>8, <1>9 DEF IInv

LEMMA AllocIInv == ASSUME OneSector, RoomLeft, IInv, InodeAllocSector PROVE IInv'
<1> DEFINE n == SectorsOf(op.type)
<1>1. fs_pc = "alloc" /\ fs_pc' = "update" /\ FreeRuns(n) # {} /\ n \in 1 .. 2
      /\ UNCHANGED <<imap, itab, data, stray>>
  BY DEF InodeAllocSector, FsTo, RoomLeft, SectorsOf
<1>2. FreeRuns(n) \in SUBSET Nat
  BY Sizes DEF FreeRuns, Runs
<1>3. PICK start : /\ start = Min(FreeRuns(n))
                   /\ op' = [op EXCEPT !.inode = [start |-> start, num |-> n]]
                   /\ UpdateSectorMap(start, n)
  BY <1>1 DEF InodeAllocSector, AllocStarts
<1>4. start \in FreeRuns(n)
  BY <1>1, <1>2, <1>3, MinInSet
<1>5. start \in Sector /\ \A s \in start .. start + n - 1 : s \in Sector /\ smap[s] = 0
  BY <1>4 DEF FreeRuns, Runs
<1>6. start + n - 1 \in Sector
  BY <1>1, <1>5, Sizes
<1>7. smap' = [s \in Sector |-> IF s \in start .. start + n - 1 THEN 1 ELSE smap[s]]
  BY <1>1, <1>3, <1>5, <1>6, MarkedAll
<1>8. op'.inode = [start |-> start, num |-> n] /\ op'.id = op.id /\ op'.type = op.type
  BY <1>3 DEF IInv, Shape
<1>9. Shape'
  <2>1. op'.inode \in Inode
    BY <1>1, <1>5, <1>8 DEF Inode
  <2>2. smap' \in [Sector -> 0 .. 1]
    BY <1>7 DEF IInv, Shape
  <2>3. op' = [type |-> op'.type, name |-> op'.name, dir |-> op'.dir, id |-> op'.id, inode |-> op'.inode]
    BY <1>3 DEF IInv, Shape
  <2> QED BY <1>1, <1>8, <2>1, <2>2, <2>3 DEF IInv, Shape
<1>10. Named' = Named /\ Linked' = Linked
  BY <1>1, NamedSame
<1>11. \A s : Held(s) => Held(s)'
  BY <1>7 DEF Held
<1>12. Span(op'.inode) = start .. start + n - 1
  BY <1>8 DEF Span
<1>13. \A s \in start .. start + n - 1 : Held(s)' /\ ~Held(s)
  BY <1>5, <1>7, Sizes DEF Held, IInv, NamedInv
<1>14. NamedInv'
  <2>1. \A s \in Sector : s < FirstData => smap'[s] = 1
    BY <1>7 DEF IInv, NamedInv
  <2> QED BY <1>1, <1>10, <1>11, <2>1 DEF IInv, NamedInv
<1>15. NewInv'
  <2>1. \A i \in Linked : Span(itab[i]) \cap Span(op'.inode) = {}
    BY <1>12, <1>13 DEF IInv, NamedInv
  <2> QED BY <1>1, <1>8, <1>10, <1>12, <1>13, <2>1 DEF IInv, NewInv, Making
<1> QED BY <1>9, <1>14, <1>15 DEF IInv

LEMMA WriteIInv == ASSUME OneSector, IInv, WriteInode PROVE IInv'
<1>1. fs_pc = "update" /\ fs_pc' = "clear" /\ UNCHANGED <<imap, smap, data, op>>
  BY DEF WriteInode, FsTo
<1>2. op.id \in InodeId /\ op.inode \in Inode /\ op.id \notin Linked
  BY <1>1 DEF IInv, Shape, NewInv, Making
<1>3. itab' = [itab EXCEPT ![op.id] = op.inode]
  BY <1>2, Updated DEF WriteInode
<1>4. Named' = Named /\ Linked' = Linked /\ Linked \subseteq InodeId
  BY <1>1, NamedSame, LinkedIds DEF IInv
<1>5. \A i \in Linked : itab'[i] = itab[i]
  BY <1>2, <1>3, <1>4 DEF IInv, Shape
<1>6. itab'[op.id] = op.inode
  BY <1>2, <1>3 DEF IInv, Shape
<1>7. Shape'
  <2>1. itab' \in [InodeId -> Inode]
    BY <1>2, <1>3 DEF IInv, Shape
  <2> QED BY <1>1, <2>1 DEF IInv, Shape
<1>8. \A s : Held(s)' = Held(s)
  BY <1>1 DEF Held
<1>9. NamedInv'
  <2>1. \A e \in Named : e.id \in Linked
    BY DEF Linked
  <2> QED BY <1>1, <1>4, <1>5, <1>8, <2>1 DEF IInv, NamedInv
<1>10. NewInv'
  BY <1>1, <1>4, <1>5, <1>6, <1>8 DEF IInv, NewInv, Making
<1> QED BY <1>7, <1>9, <1>10 DEF IInv

\* A step that takes names away at most, and gives the inode being made no other state.
LEMMA FewerNames ==
  ASSUME OneSector, IInv, Shape', UNCHANGED <<imap, smap, itab>>, Named' \subseteq Named,
         \/ fs_pc' \notin Making
         \/ fs_pc' \in {"clear", "clear2", "entry"} /\ fs_pc \in {"clear", "clear2"} /\ op' = op
         \/ fs_pc' = fs_pc /\ op' = op
  PROVE  IInv'
<1>1. Linked' \subseteq Linked
  BY DEF Linked
<1>2. \A s : Held(s)' = Held(s)
  BY DEF Held
<1>3. NamedInv'
  BY <1>1, <1>2 DEF IInv, NamedInv
<1>4. NewInv'
  BY <1>1, <1>2 DEF IInv, NewInv, Making
<1> QED BY <1>3, <1>4 DEF IInv

LEMMA ClearIInv == ASSUME OneSector, IInv, ClearSector PROVE IInv'
<1>1. PICK k : /\ fs_pc \in {"clear", "clear2"} /\ fs_pc' \in {"entry", "clear2"}
               /\ data' = [data EXCEPT ![op.inode.start + k - 1] = <<>>]
               /\ UNCHANGED <<imap, smap, itab, stray, op>>
  BY DEF ClearSector, FsTo
<1>2. ASSUME NEW s \in Sector
      PROVE  data'[s] \in Seq(Range(data'[s])) /\ Range(data'[s]) \subseteq Range(data[s])
  <2>1. data'[s] = data[s] \/ data'[s] = <<>>
    BY <1>1 DEF IInv, Shape
  <2>2. <<>> \in Seq(Range(<<>>)) /\ Range(<<>>) = {}
    BY DEF Range
  <2>3. data[s] \in Seq(Range(data[s]))
    BY DEF IInv, Shape
  <2> QED BY <2>1, <2>2, <2>3
<1>3. data' = [s \in Sector |-> data'[s]]
  BY <1>1 DEF IInv, Shape
<1>4. Shape'
  BY <1>1, <1>2, <1>3 DEF IInv, Shape
<1>5. Named' \subseteq Named
  BY <1>2 DEF Named
<1> QED BY <1>1, <1>4, <1>5, FewerNames

LEMMA EnterDotsIInv == ASSUME OneSector, IInv, EnterDot \/ EnterDotDot PROVE IInv'
<1>1. PICK dir, e : e.name \in {DOT, DOTDOT} /\ AddDirEntry(dir, e)
  <2>1. CASE EnterDot
    BY <2>1 DEF EnterDot
  <2>2. CASE EnterDotDot
    BY <2>2 DEF EnterDotDot
  <2> QED BY <2>1, <2>2
<1>2. fs_pc' \in {"dotdot", "reply"} /\ UNCHANGED <<imap, smap, itab, op>>
  BY DEF EnterDot, EnterDotDot, FsTo
<1>3. Shape' /\ Named' \subseteq Named
  BY <1>1, <1>2, Entered1 DEF IInv, Shape
<1> QED BY <1>2, <1>3, FewerNames DEF Making

LEMMA EnterNameIInv == ASSUME OneSector, IInv, EnterName PROVE IInv'
<1> DEFINE e == [id |-> op.id, name |-> op.name, type |-> op.type]
<1>1. fs_pc = "entry" /\ fs_pc' \in {"dot", "reply"} /\ AddDirEntry(op.dir, e)
      /\ UNCHANGED <<imap, smap, itab, op>>
  BY DEF EnterName, FsTo
<1>2. Shape' /\ \A x \in Named' : x \in Named \/ x = e
  BY <1>1, Entered1 DEF IInv, Shape
<1>3. e.id = op.id /\ e.type = op.type /\ op.id \in InodeId
  BY DEF IInv, Shape
<1>4. op.id \notin Linked /\ imap[op.id] = 1 /\ itab[op.id] = op.inode
      /\ op.inode.num = SectorsOf(op.type) /\ (\A s \in Span(op.inode) : Held(s))
      /\ \A i \in Linked : Span(itab[i]) \cap Span(op.inode) = {}
  BY <1>1 DEF IInv, NewInv, Making
<1> HIDE DEF e
<1>5. \A i \in Linked' : i \in Linked \/ i = op.id
  BY <1>2, <1>3 DEF Linked
<1>6. \A s : Held(s)' = Held(s)
  BY <1>1 DEF Held
<1>7. \A d \in Named : d.id \in Linked
  BY DEF Linked
<1>8. NamedInv'
  <2>1. \A s \in Sector : s < FirstData => smap'[s] = 1
    BY <1>1 DEF IInv, NamedInv
  <2>2. \A x \in Named' : x.id \in InodeId /\ itab'[x.id].num = SectorsOf(x.type)
    BY <1>1, <1>2, <1>3, <1>4 DEF IInv, NamedInv
  <2>3. \A d, x \in Named' : d.id = x.id => d = x
    BY <1>2, <1>3, <1>4, <1>7 DEF IInv, NamedInv
  <2>4. \A i \in Linked' : imap'[i] = 1 /\ \A s \in Span(itab'[i]) : Held(s)'
    BY <1>1, <1>4, <1>5, <1>6 DEF IInv, NamedInv
  <2>5. \A i, j \in Linked' : i # j => Span(itab'[i]) \cap Span(itab'[j]) = {}
    BY <1>1, <1>4, <1>5 DEF IInv, NamedInv
  <2> QED BY <2>1, <2>2, <2>3, <2>4, <2>5 DEF NamedInv
<1> QED BY <1>1, <1>2, <1>8 DEF IInv, NewInv, Making

\* The commands of the shell, its answers and the power leave the disk alone.
LEMMA RestIInv ==
  ASSUME OneSector, IInv, UNCHANGED disk,
         \/ UNCHANGED <<fs_pc, op>>
         \/ fs_pc' = "idle" /\ op' \in {op, NoOp}
         \/ fs_pc' = "new_inode" /\ \E t \in Types : \E n, d : op' = [NoOp EXCEPT !.type = t, !.name = n, !.dir = d]
  PROVE  IInv'
<1>1. /\ op' = [type |-> op'.type, name |-> op'.name, dir |-> op'.dir, id |-> op'.id, inode |-> op'.inode]
      /\ op'.type \in Types /\ op'.id \in InodeId /\ op'.inode \in Inode
  <2>1. 0 \in InodeId /\ NoInode \in Inode
    BY ZeroedInode
  <2>3. CASE op' = op
    BY <2>3 DEF IInv, Shape
  <2>4. CASE op' = NoOp
    BY <2>1, <2>4 DEF NoOp, Types
  <2>5. CASE \E t \in Types : \E n, d : op' = [NoOp EXCEPT !.type = t, !.name = n, !.dir = d]
    BY <2>1, <2>5 DEF NoOp, Types
  <2> QED BY <2>3, <2>4, <2>5
<1>2. Shape'
  BY <1>1 DEF IInv, Shape, disk
<1>3. Named' = Named
  BY NamedSame DEF disk
<1> QED BY <1>2, <1>3, FewerNames DEF disk, Making

LEMMA NextIInv == ASSUME OneSector, RoomLeft, IInv, [Next]_vars PROVE IInv'
<1>1. CASE \E t \in Tty : Ls(t) \/ \E n \in Name \cup {DOT, DOTDOT} : Cd(t, n)
  BY <1>1, RestIInv DEF Ls, Cd, fsVars, disk
<1>2. ASSUME NEW t \in Tty, NEW n \in Name, NEW type \in Types, Make(t, type, n) PROVE IInv'
  BY <1>2, RestIInv DEF Make
<1>3. CASE FsStep
  BY <1>3, NewInodeIInv, AllocIInv, WriteIInv, ClearIInv, EnterNameIInv, EnterDotsIInv DEF FsStep
<1>4. CASE Answered
  BY <1>4, RestIInv DEF Answered, FsTo
<1>5. CASE PowerFails
  BY <1>5, RestIInv DEF PowerFails
<1>6. CASE UNCHANGED vars
  BY <1>6, RestIInv DEF vars, fsVars
<1> QED BY <1>1, <1>2, <1>3, <1>4, <1>5, <1>6 DEF Next

--------------------------------------------------------------------------------
(* What follows                                                            *)

\* The invariant of the file system on the disk, through any commands and any
\* power failures.
THEOREM DiskInvariance == OneSector /\ Spec /\ []RoomLeft => []IInv
<1>1. OneSector /\ Init => IInv
  BY InitIInv
<1>2. OneSector /\ RoomLeft /\ IInv /\ [Next]_vars => IInv' /\ OneSector'
  BY NextIInv DEF OneSector
<1> QED BY <1>1, <1>2, PTL DEF Spec

LEMMA LinkedFound == ASSUME OneSector, IInv PROVE \A i \in Linked : FindInode(i) = itab[i]
  BY LinkedIds, Found DEF IInv

\* mk.c:111, mk.c:214: whenever the power fails, the sectors of whatever a directory
\* names are marked in the map, lie behind the inode table and have one owner,
\* and no inode is named twice.
THEOREM SectorsHaveOneOwner == OneSector /\ Spec /\ []RoomLeft => []SectorsOwned
<1>1. OneSector /\ IInv => SectorsOwned
  <2> SUFFICES ASSUME OneSector, IInv PROVE SectorsOwned
    OBVIOUS
  <2>1. \A i \in Linked : Extent(i) = Span(itab[i])
    BY LinkedFound DEF Extent, Span
  <2> QED BY <2>1 DEF IInv, NamedInv, Held, SectorsOwned
<1>2. OneSector => OneSector'
  BY DEF OneSector
<1> QED BY <1>1, <1>2, DiskInvariance, PTL

--------------------------------------------------------------------------------
(* The directories: hypotheses and invariants                               *)

\* The entries of a directory, as a set.
Entries(id) == UNION {Range(data[s]) : s \in Span(itab[id])}

\* The entries mk_dir puts into every directory; the others are Named.
IsDot(e) == e.name \in {DOT, DOTDOT}

\* No inode number reads as "." or ".." (those would be 46 and 11822).
NamesApart == {DOT, DOTDOT} \cap InodeId = {}

\* add_dir_entry finds a place for the name.
PlaceLeft == fs_pc = "entry" => \E s \in Extent(op.dir) : Len(data[s]) < DirEntries

\* Positions before the name is in its directory.
Serving == {"new_inode"} \cup Making

\* A sector holds as many entries as it has places.
DataOK == \A s \in Sector : data[s] \in Seq(Entry) /\ Len(data[s]) <= DirEntries

\* A terminal that knows linked inodes only.
LinkedTty == [flag : 0 .. 1, cwd : Linked, path : Seq(Name), cut : BOOLEAN,
              cache : Seq({e \in Entry : e.id \in Linked})]

\* The types that IInv leaves open; the directories of terminals are linked.
RestOK ==
  /\ \A k \in DOMAIN stray : stray[k] \in Inode
  /\ fs_pc \in {"idle", "dot", "dotdot", "reply"} \cup Serving
  /\ op.name \in AnyName
  /\ tty \in [Tty -> LinkedTty]
  /\ makers \in [InodeId -> SUBSET Tty] /\ outgrown \subseteq Tty
  /\ asking \in Tty /\ made \in 0 .. MaxMake /\ crashes \in 0 .. MaxCrash

\* Entries of linked directories lead to linked inodes, and nothing is named elsewhere.
LinkInv ==
  /\ op.dir \in Linked
  /\ fs_pc \in Serving => op.name \notin {DOT, DOTDOT}
  /\ \A i \in Linked : \A e \in Entries(i) : e.id \in Linked
  /\ \A s \in Sector : (\E e \in Range(data[s]) : ~IsDot(e)) => \E i \in Linked : s \in Span(itab[i])

\* The sectors of a new directory: cleared, and nobody else's, until it has its two entries.
EmptyInv ==
  /\ fs_pc = "clear2" => data[op.inode.start] = <<>>
  /\ fs_pc \in {"entry", "dot"} => \A s \in Span(op.inode) : data[s] = <<>>
  /\ fs_pc \in {"dot", "dotdot"} =>
       /\ itab[op.id] = op.inode /\ op.id # ROOT /\ op.id # op.dir
       /\ \A s \in Span(op.inode) : Held(s)
       /\ \A i \in Linked \ {op.id} : Span(itab[i]) \cap Span(op.inode) = {}
  /\ fs_pc = "dotdot" => \A s \in Span(op.inode) : \A e \in Range(data[s]) : e.name = DOT

DirInv == DataOK /\ RestOK /\ LinkInv /\ EmptyInv

\* What was answered, and what is about to be, is in its directory.
KeptInv ==
  /\ \A a \in acked : a.dir \in Linked /\ \E e \in Entries(a.dir) : e.name = a.name /\ e.type = a.type
  /\ fs_pc \in {"dot", "dotdot", "reply"} => \E e \in Entries(op.dir) : e.name = op.name /\ e.type = op.type

\* No two places of a directory have the same name.
NamesDiffer(id) ==
  \A r, s \in Span(itab[id]) : \A j \in DOMAIN data[r], k \in DOMAIN data[s] :
    data[r][j].name = data[s][k].name => r = s /\ j = k

\* A sector of a directory has entries only when those before it are full, so an
\* entry goes behind all others.
Ordered(id) == \A r, s \in Span(itab[id]) : r < s /\ data[s] # <<>> => Len(data[r]) = DirEntries
OrderInv == /\ \A i \in Linked : Ordered(i)
            /\ fs_pc \in {"dot", "dotdot"} => Ordered(op.id)

\* A cache not marked stale is the beginning of the directory, ...
Begins(s, d) == Len(s) <= Len(d) /\ \A k \in DOMAIN s : s[k] = d[k]
BeginInv == \A t \in Tty : tty[t].flag = 0 => Begins(tty[t].cache, DirOf(tty[t].cwd))

\* ... and all of it where nobody else has made anything, but behind the entry of
\* the terminal's own new name.
Alone(t, i) == makers[i] \subseteq {t}
CacheInv ==
  \A t \in Tty : /\ tty[t].flag = 0 /\ Alone(t, tty[t].cwd)
                 /\ t = asking => fs_pc \in {"idle"} \cup Serving
                 => tty[t].cache = DirOf(tty[t].cwd)

\* Who makes something in a directory is among its makers, and nobody is in what is being made.
AskInv ==
  /\ fs_pc # "idle" => asking \in makers[op.dir]
  /\ fs_pc \in {"dot", "dotdot"} => \A t \in Tty : tty[t].cwd # op.id

\* check_name_repeat has looked through the directory as it is.
NewNameInv == fs_pc \in Serving /\ Alone(asking, op.dir) => \A e \in Entries(op.dir) : e.name # op.name

OneMaker(i) == \A t, u \in makers[i] : t = u
UniqueInv == \A i \in Linked : OneMaker(i) => NamesDiffer(i)

\* "..", where there is one, leads to the only directory that names this one.
ParentInv ==
  /\ \A e \in Entries(ROOT) : e.name # DOTDOT
  /\ \A i \in Linked : \A e \in Entries(i) : ~IsDot(e) => \A f \in Entries(e.id) : f.name = DOTDOT => f.id = i
  /\ fs_pc \in {"dot", "dotdot"} =>
       \A i \in Linked : \A e \in Entries(i) : ~IsDot(e) /\ e.id = op.id => i = op.dir

\* The first entry of a name leads to x.
FirstIs(dir, n, x) == \E j \in Hits(dir, n) : dir[j].id = x

\* The inodes w are those passed on the way of the path, from the root to cwd.
Leads(w, path, cwd) ==
  /\ w[0] = ROOT /\ w[Len(path)] = cwd
  /\ \A k \in 1 .. Len(path) : FirstIs(DirOf(w[k - 1]), path[k], w[k])

Way(path, cwd) == \E w \in [0 .. Len(path) -> Linked] : Leads(w, path, cwd)

\* A path that has not run over dir_name is the one to cwd.
PathInv == \A t \in Tty : t \notin outgrown => ~tty[t].cut /\ Way(tty[t].path, tty[t].cwd)

--------------------------------------------------------------------------------
(* Directories                                                             *)

\* The concatenation of one or two sectors.
LEMMA Flat2 == ASSUME NEW q, Len(q) \in 1 .. 2
               PROVE FlattenSeq(q) = IF Len(q) = 1 THEN q[1] ELSE q[1] \o q[2]
<1> DEFINE F(f) == [i \in 1 .. Len(q) |-> IF i = 1 THEN q[i] ELSE f[i - 1] \o q[i]]
           fl == CHOOSE f : f = F(f)
           both == q[1] \o q[2]
           n == Len(q)
<1>1. \E f : f = F(f)
  <2> DEFINE g == [i \in 1 .. n |-> IF i = 1 THEN q[1] ELSE both]
  <2> HIDE DEF both, n
  <2>1. g = [i \in 1 .. n |-> g[i]] /\ g[1] = q[1] /\ (n = 2 => g[2] = both)
    <3>1. n \in 1 .. 2
      BY DEF n
    <3> QED BY <3>1
  <2> HIDE DEF g
  <2>2. ASSUME NEW i \in 1 .. n PROVE g[i] = IF i = 1 THEN q[i] ELSE g[i - 1] \o q[i]
    <3>1. CASE i = 1
      BY <2>1, <3>1
    <3>2. CASE i = 2 /\ n = 2
      <4>1. g[i - 1] = q[1] /\ g[i] = both /\ q[i] = q[2]
        BY <2>1, <3>2
      <4> QED BY <3>2, <4>1 DEF both
    <3> QED BY <3>1, <3>2 DEF n
  <2>3. g = F(g)
    BY <2>1, <2>2 DEF n
  <2> QED BY <2>3
<1>2. fl = F(fl)
  BY <1>1
<1>3. FlattenSeq(q) = fl[Len(q)]
  BY DEF FlattenSeq
<1> HIDE DEF fl
<1>4. \A i \in 1 .. n : fl[i] = IF i = 1 THEN q[i] ELSE fl[i - 1] \o q[i]
  BY <1>2
<1>5. CASE n = 1
  BY <1>3, <1>4, <1>5
<1>6. CASE n = 2
  <2>1. fl[1] = q[1] /\ fl[2] = fl[2 - 1] \o q[2]
    BY <1>4, <1>6
  <2>2. 2 - 1 = 1
    OBVIOUS
  <2>3. FlattenSeq(q) = fl[2]
    BY <1>3, <1>6
  <2>4. fl[2] = fl[1] \o q[2]
    BY <2>1, <2>2
  <2>5. FlattenSeq(q) = q[1] \o q[2]
    BY <2>1, <2>3, <2>4
  <2> QED BY <1>6, <2>5
<1>7. n = 1 \/ n = 2
  OBVIOUS
<1> QED BY <1>5, <1>6, <1>7, Zenon

\* The sectors of a directory, one behind the other.
Joined(i) == IF i.num = 0 THEN <<>>
             ELSE IF i.num = 1 THEN data[i.start] ELSE data[i.start] \o data[i.start + 1]

\* A directory whose sectors can be read.
Readable(id) == /\ id \in InodeId /\ itab[id] \in Inode
                /\ \A s \in Span(itab[id]) : s \in Sector /\ data[s] \in Seq(Entry)

LEMMA DirOfIs == ASSUME OneSector, NEW id, Readable(id) PROVE DirOf(id) = Joined(itab[id])
<1> DEFINE i == itab[id]
           q == [k \in 1 .. i.num |-> data[i.start + k - 1]]
<1>1. FindInode(id) = i /\ i.num \in 0 .. 2 /\ i.start \in Nat
  BY Found, Sizes DEF Readable, Inode
<1>2. CASE i.num = 0
  BY <1>1, <1>2 DEF DirOf, Joined
<1>3. CASE i.num # 0
  <2>1. DirOf(id) = FlattenSeq(q)
    BY <1>1, <1>3 DEF DirOf
  <2>2. q \in Seq(Seq(Entry)) /\ Len(q) = i.num
    <3>1. \A k \in 1 .. i.num : i.start + k - 1 \in Span(i)
      BY <1>1 DEF Span
    <3>2. \A k \in 1 .. i.num : data[i.start + k - 1] \in Seq(Entry)
      BY <3>1 DEF Readable
    <3> QED BY <1>1, <3>2
  <2>3. q[1] = data[i.start]
    BY <1>1, <1>3
  <2>4. i.num = 2 => q[2] = data[i.start + 1]
    BY <1>1
  <2> HIDE DEF q
  <2>5. FlattenSeq(q) = IF Len(q) = 1 THEN q[1] ELSE q[1] \o q[2]
    <3>1. Len(q) \in 1 .. 2
      BY <1>1, <1>3, <2>2
    <3> QED BY <3>1, Flat2
  <2> QED BY <1>1, <1>3, <2>1, <2>2, <2>3, <2>4, <2>5 DEF Joined
<1> QED BY <1>2, <1>3

LEMMA SpanIs == ASSUME NEW i \in Inode, OneSector
                PROVE  Span(i) = IF i.num = 0 THEN {} ELSE IF i.num = 1 THEN {i.start} ELSE {i.start, i.start + 1}
<1>1. i.start \in Nat /\ i.num \in {0, 1, 2}
  BY Sizes DEF Inode
<1>2. \A a \in Nat : a .. a + 0 - 1 = {} /\ a .. a + 1 - 1 = {a} /\ a .. a + 2 - 1 = {a, a + 1}
  OBVIOUS
<1> QED BY <1>1, <1>2 DEF Span

LEMMA JoinedRange ==
  ASSUME NEW a \in Seq(Entry), NEW b \in Seq(Entry)
  PROVE  /\ a \o b \in Seq(Entry) /\ Range(a \o b) = Range(a) \cup Range(b)
         /\ DOMAIN a = 1 .. Len(a) /\ DOMAIN b = 1 .. Len(b) /\ DOMAIN (a \o b) = 1 .. Len(a) + Len(b)
         /\ \A k \in 1 .. Len(a) + Len(b) : (a \o b)[k] = IF k <= Len(a) THEN a[k] ELSE b[k - Len(a)]
<1>1. /\ a \o b \in Seq(Entry) /\ Len(a \o b) = Len(a) + Len(b) /\ Len(a) \in Nat /\ Len(b) \in Nat
      /\ \A k \in 1 .. Len(a) + Len(b) : (a \o b)[k] = IF k <= Len(a) THEN a[k] ELSE b[k - Len(a)]
      /\ DOMAIN a = 1 .. Len(a) /\ DOMAIN b = 1 .. Len(b) /\ DOMAIN (a \o b) = 1 .. Len(a) + Len(b)
  OBVIOUS
<1>2. Range(a) \subseteq Range(a \o b)
  BY <1>1 DEF Range
<1>3. Range(b) \subseteq Range(a \o b)
  <2> SUFFICES ASSUME NEW k \in 1 .. Len(b) PROVE b[k] \in Range(a \o b)
    BY <1>1 DEF Range
  <2>1. (a \o b)[Len(a) + k] = b[k] /\ Len(a) + k \in 1 .. Len(a) + Len(b)
    BY <1>1
  <2> QED BY <1>1, <2>1 DEF Range
<1>4. Range(a \o b) \subseteq Range(a) \cup Range(b)
  <2> SUFFICES ASSUME NEW k \in 1 .. Len(a) + Len(b) PROVE (a \o b)[k] \in Range(a) \cup Range(b)
    BY <1>1 DEF Range
  <2>1. CASE k <= Len(a)
    BY <1>1, <2>1 DEF Range
  <2>2. CASE ~(k <= Len(a))
    <3>1. k - Len(a) \in 1 .. Len(b) /\ (a \o b)[k] = b[k - Len(a)]
      BY <1>1, <2>2
    <3> QED BY <1>1, <3>1 DEF Range
  <2> QED BY <2>1, <2>2
<1> QED BY <1>1, <1>2, <1>3, <1>4

\* A directory lists what is in its sectors.
LEMMA DirLists == ASSUME OneSector, NEW id, Readable(id)
                  PROVE  DirOf(id) \in Seq(Entry) /\ Range(DirOf(id)) = Entries(id)
<1> DEFINE i == itab[id]
<1>1. DirOf(id) = Joined(i) /\ i \in Inode /\ i.num \in 0 .. 2
  BY DirOfIs DEF Readable, Inode
<1>2. CASE i.num = 0
  <2>1. DirOf(id) = <<>> /\ Span(i) = {}
    BY <1>1, <1>2, SpanIs DEF Joined
  <2> QED BY <2>1 DEF Entries, Range
<1>3. CASE i.num = 1
  <2>1. DirOf(id) = data[i.start] /\ Span(i) = {i.start}
    BY <1>1, <1>3, SpanIs DEF Joined
  <2>2. Entries(id) = Range(data[i.start])
    BY <2>1 DEF Entries
  <2> QED BY <2>1, <2>2 DEF Readable
<1>4. CASE i.num = 2
  <2>1. DirOf(id) = data[i.start] \o data[i.start + 1] /\ Span(i) = {i.start, i.start + 1}
    BY <1>1, <1>4, SpanIs DEF Joined
  <2>2. Entries(id) = Range(data[i.start]) \cup Range(data[i.start + 1])
    BY <2>1 DEF Entries
  <2>3. data[i.start] \in Seq(Entry) /\ data[i.start + 1] \in Seq(Entry)
    BY <2>1 DEF Readable
  <2> QED BY <2>1, <2>2, <2>3, JoinedRange
<1> QED BY <1>1, <1>2, <1>3, <1>4

\* Where no two places of its sectors have the same name, neither have two of the list.
LEMMA DirDiffers ==
  ASSUME OneSector, NEW id, Readable(id), NamesDiffer(id)
  PROVE  \A j, k \in DOMAIN DirOf(id) : DirOf(id)[j].name = DirOf(id)[k].name => j = k
<1> DEFINE i == itab[id]
<1>1. DirOf(id) = Joined(i) /\ i \in Inode /\ i.num \in 0 .. 2 /\ i.start \in Nat
  BY DirOfIs, Sizes DEF Readable, Inode
<1>2. CASE i.num = 0
  BY <1>1, <1>2 DEF Joined
<1>3. CASE i.num = 1
  <2>1. DirOf(id) = data[i.start] /\ Span(i) = {i.start}
    BY <1>1, <1>3, SpanIs DEF Joined
  <2> QED BY <2>1 DEF NamesDiffer
<1>4. CASE i.num = 2
  <2> DEFINE a == data[i.start]
             b == data[i.start + 1]
  <2>1. DirOf(id) = a \o b /\ Span(i) = {i.start, i.start + 1} /\ i.start # i.start + 1
    BY <1>1, <1>4, SpanIs DEF Joined
  <2>2. a \in Seq(Entry) /\ b \in Seq(Entry)
    BY <2>1 DEF Readable
  <2>3. /\ \A j, k \in DOMAIN a : a[j].name = a[k].name => j = k
        /\ \A j, k \in DOMAIN b : b[j].name = b[k].name => j = k
        /\ \A j \in DOMAIN a, k \in DOMAIN b : a[j].name # b[k].name
    BY <2>1 DEF NamesDiffer
  <2> HIDE DEF a, b
  <2>4. Len(a) \in Nat /\ Len(b) \in Nat
    BY <2>2
  <2> SUFFICES ASSUME NEW j \in DOMAIN (a \o b), NEW k \in DOMAIN (a \o b), (a \o b)[j].name = (a \o b)[k].name
               PROVE  j = k
    BY <2>1
  <2>5. ASSUME NEW l \in DOMAIN (a \o b)
        PROVE  \/ l <= Len(a) /\ l \in DOMAIN a /\ (a \o b)[l] = a[l]
               \/ l > Len(a) /\ l - Len(a) \in DOMAIN b /\ (a \o b)[l] = b[l - Len(a)]
    BY <2>2, <2>4, JoinedRange
  <2>6. j \in Nat /\ k \in Nat
    BY <2>2, <2>4, JoinedRange
  <2> QED BY <2>3, <2>4, <2>5, <2>6
<1> QED BY <1>1, <1>2, <1>3, <1>4

\* The search through a directory finds the entry of a name, if there is one.
LEMMA HitsFound ==
  ASSUME NEW dir \in Seq(Entry), NEW n
  PROVE  (\E e \in Range(dir) : e.name = n) <=> Hits(dir, n) # {}
<1>1. ASSUME NEW e \in Range(dir), e.name = n PROVE Hits(dir, n) # {}
  <2> DEFINE Ks == {k \in DOMAIN dir : dir[k].name = n}
  <2>1. Ks \in SUBSET Nat /\ Ks # {}
    BY <1>1 DEF Range
  <2>2. Min(Ks) \in Ks /\ \A k \in Ks : Min(Ks) <= k
    BY <2>1, MinInSet
  <2>3. PICK m \in Ks : \A k \in Ks : m <= k
    BY <2>2
  <2>4. m \in DOMAIN dir /\ dir[m].name = n /\ m \in 1 .. Len(dir) /\ DOMAIN dir = 1 .. Len(dir)
    BY <2>3
  <2>5. ASSUME NEW j \in 1 .. m - 1 PROVE dir[j].name # n
    <3>1. j \in DOMAIN dir /\ ~(m <= j)
      BY <2>4
    <3> QED BY <2>3, <3>1
  <2> QED BY <2>4, <2>5 DEF Hits
<1>2. ASSUME Hits(dir, n) # {} PROVE \E e \in Range(dir) : e.name = n
  BY <1>2 DEF Hits, Range
<1> QED BY <1>1, <1>2

--------------------------------------------------------------------------------
(* What a step does to the directories                                      *)

\* A step after which the linked directories are as they were.
LinkedAlike ==
  /\ Linked' = Linked
  /\ \A i \in Linked : itab'[i] = itab[i] /\ \A s \in Span(itab[i]) : data'[s] = data[s]
  /\ \A s \in Sector : data'[s] \in {data[s], <<>>}

\* A step that puts an entry behind those of a sector.
AppendsAt(m, e) ==
  /\ m \in Sector /\ data'[m] = Append(data[m], e)
  /\ \A s \in Sector \ {m} : data'[s] = data[s]
  /\ itab' = itab

LEMMA LinkedSpans == ASSUME OneSector, IInv, DataOK
                     PROVE \A i \in Linked : Readable(i) /\ Span(itab[i]) \subseteq Sector
<1>1. Linked \subseteq InodeId
  BY LinkedIds DEF IInv
<1>2. \A i \in Linked : \A s \in Span(itab[i]) : s \in Sector
  BY DEF IInv, NamedInv, Held
<1> QED BY <1>1, <1>2 DEF IInv, Shape, Readable, DataOK

LEMMA AlikeSame ==
  ASSUME OneSector, IInv, DataOK, LinkedAlike
  PROVE  /\ DataOK'
         /\ \A i \in Linked : /\ Entries(i)' = Entries(i) /\ DirOf(i)' = DirOf(i)
                              /\ NamesDiffer(i) => NamesDiffer(i)'
<1>1. DataOK'
  <2>1. <<>> \in Seq(Entry) /\ Len(<<>>) <= DirEntries
    BY FsDirAssumption
  <2> QED BY <2>1 DEF DataOK, LinkedAlike
<1>2. ASSUME NEW i \in Linked
      PROVE  /\ Entries(i)' = Entries(i) /\ DirOf(i)' = DirOf(i)
             /\ NamesDiffer(i) => NamesDiffer(i)'
  <2>1. itab'[i] = itab[i] /\ \A s \in Span(itab[i]) : data'[s] = data[s]
    BY DEF LinkedAlike
  <2>2. Entries(i)' = Entries(i)
    BY <2>1 DEF Entries
  <2>3. NamesDiffer(i) => NamesDiffer(i)'
    BY <2>1 DEF NamesDiffer
  <2>4. DirOf(i)' = DirOf(i)
    <3>1. i \in InodeId /\ InodeSector(i) = 0 /\ Slot(i) = i /\ i >= 0 /\ 0 * PerSector + i = i
      BY LinkedIds, FirstSlot, FsDirAssumption, Sizes DEF IInv
    <3>2. FindInode(i) = itab[i] /\ FindInode(i)' = itab[i]
      BY <2>1, <3>1 DEF FindInode
    <3> DEFINE n == itab[i].num
               q == [k \in 1 .. n |-> data[itab[i].start + k - 1]]
               r == [k \in 1 .. n |-> data'[itab[i].start + k - 1]]
    <3>3. q = r
      <4>1. itab[i].start \in Nat /\ n \in Nat
        <5>1. itab[i] \in Inode
          BY <3>1 DEF IInv, Shape
        <5> QED BY <5>1, Sizes DEF Inode
      <4>2. \A k \in 1 .. n : itab[i].start + k - 1 \in Span(itab[i])
        BY <4>1 DEF Span
      <4> QED BY <2>1, <4>2
    <3>4. DirOf(i) = IF n = 0 THEN <<>> ELSE FlattenSeq(q)
      BY <3>2 DEF DirOf
    <3>5. DirOf(i)' = IF n = 0 THEN <<>> ELSE FlattenSeq(r)
      BY <3>2 DEF DirOf
    <3> HIDE DEF q, r
    <3> QED BY <3>3, <3>4, <3>5
  <2> QED BY <2>2, <2>3, <2>4
<1> QED BY <1>1, <1>2

\* The sector that add_dir_entry finds first to have a place.
FirstRoom(i, m) == Len(data[m]) < DirEntries /\ \A s \in Span(itab[i]) : s < m => ~(Len(data[s]) < DirEntries)

LEMMA AddsOne ==
  ASSUME OneSector, IInv, DataOK, NEW i \in InodeId, \A s \in Span(itab[i]) : s \in Sector,
         NEW e, AddDirEntry(i, e), itab' = itab
  PROVE  \/ data' = data /\ \A s \in Extent(i) : ~(Len(data[s]) < DirEntries)
         \/ \E m \in Span(itab[i]) : FirstRoom(i, m) /\ AppendsAt(m, e)
<1> DEFINE Room == {s \in Extent(i) : Len(data[s]) < DirEntries}
<1>1. Extent(i) = Span(itab[i])
  BY Found DEF Extent, Span
<1>2. CASE Room = {}
  BY <1>2 DEF AddDirEntry
<1>3. CASE Room # {}
  <2>1. Room \subseteq Nat
    BY <1>1, Sizes
  <2>2. Min(Room) \in Room /\ \A s \in Room : Min(Room) <= s
    BY <1>3, <2>1, MinInSet
  <2>3. data' = [data EXCEPT ![Min(Room)] = Append(data[Min(Room)], e)]
    BY <1>3 DEF AddDirEntry
  <2> DEFINE m == Min(Room)
  <2> HIDE DEF m
  <2>4. m \in Span(itab[i]) /\ m \in Sector /\ FirstRoom(i, m)
    <3>1. m \in Room /\ \A s \in Room : m <= s
      BY <2>2 DEF m
    <3>2. \A s \in Span(itab[i]) : s < m => s \notin Room
      BY <1>1, <2>1, <3>1, Sizes
    <3> QED BY <1>1, <3>1, <3>2 DEF FirstRoom
  <2>5. data' = [data EXCEPT ![m] = Append(data[m], e)]
    BY <2>3 DEF m
  <2>6. AppendsAt(m, e)
    BY <2>4, <2>5 DEF AppendsAt, IInv, Shape
  <2> QED BY <2>4, <2>6
<1> QED BY <1>2, <1>3

LEMMA Appended ==
  ASSUME OneSector, DataOK, NEW m, NEW e \in Entry, AppendsAt(m, e), Len(data[m]) < DirEntries
  PROVE  /\ DataOK' /\ Range(data'[m]) = Range(data[m]) \cup {e}
         /\ DOMAIN data[m] = 1 .. Len(data[m]) /\ DOMAIN data'[m] = 1 .. Len(data[m]) + 1
         /\ Len(data[m]) \in Nat
         /\ \A k \in 1 .. Len(data[m]) + 1 : data'[m][k] = IF k <= Len(data[m]) THEN data[m][k] ELSE e
         /\ \A id : Span(itab[id]) \subseteq Sector =>
              Entries(id)' = IF m \in Span(itab[id]) THEN Entries(id) \cup {e} ELSE Entries(id)
         /\ Named' = IF IsDot(e) THEN Named ELSE Named \cup {e}
<1>1. data[m] \in Seq(Entry) /\ m \in Sector
  BY DEF AppendsAt, DataOK
<1>2. /\ data'[m] \in Seq(Entry) /\ Len(data'[m]) = Len(data[m]) + 1 /\ Len(data[m]) \in Nat
      /\ DOMAIN data[m] = 1 .. Len(data[m]) /\ DOMAIN data'[m] = 1 .. Len(data[m]) + 1
      /\ \A k \in 1 .. Len(data[m]) + 1 : data'[m][k] = IF k <= Len(data[m]) THEN data[m][k] ELSE e
  BY <1>1 DEF AppendsAt
<1>3. Range(data'[m]) = Range(data[m]) \cup {e}
  BY <1>2 DEF Range
<1>4. DataOK'
  <2>1. Len(data'[m]) <= DirEntries
    BY <1>2, FsDirAssumption
  <2>2. \A s \in Sector : s = m \/ data'[s] = data[s]
    BY DEF AppendsAt
  <2> QED BY <1>2, <2>1, <2>2 DEF DataOK
<1>5. ASSUME NEW id, Span(itab[id]) \subseteq Sector
      PROVE  Entries(id)' = IF m \in Span(itab[id]) THEN Entries(id) \cup {e} ELSE Entries(id)
  <2>1. \A s \in Span(itab[id]) : Range(data'[s]) = IF s = m THEN Range(data[s]) \cup {e} ELSE Range(data[s])
    BY <1>3, <1>5 DEF AppendsAt
  <2>2. itab'[id] = itab[id]
    BY DEF AppendsAt
  <2> QED BY <2>1, <2>2 DEF Entries
<1>6. Named' = IF IsDot(e) THEN Named ELSE Named \cup {e}
  <2>1. \A s \in Sector : Range(data'[s]) = IF s = m THEN Range(data[s]) \cup {e} ELSE Range(data[s])
    BY <1>3 DEF AppendsAt
  <2> QED BY <1>1, <2>1 DEF Named, IsDot
<1> QED BY <1>2, <1>3, <1>4, <1>5, <1>6

\* What EnterName puts into the directory.
NewEntry == [id |-> op.id, name |-> op.name, type |-> op.type]

\* It goes behind the entries of a sector of that directory and of no other, if there is a
\* place; then the new inode is linked, and nothing else changes.
LEMMA NameGoesIn ==
  ASSUME OneSector, IInv, DirInv, EnterName
  PROVE  /\ NewEntry \in Entry /\ Linked \subseteq Linked'
         /\ \/ LinkedAlike /\ \A s \in Extent(op.dir) : ~(Len(data[s]) < DirEntries)
            \/ \E m \in Span(itab[op.dir]) :
                 /\ Len(data[m]) < DirEntries /\ FirstRoom(op.dir, m) /\ AppendsAt(m, NewEntry)
                 /\ Linked' \subseteq Linked \cup {op.id} /\ m \notin Span(op.inode)
                 /\ \A i \in Linked \ {op.dir} : m \notin Span(itab[i])
<1> DEFINE e == NewEntry
<1>1. fs_pc = "entry" /\ AddDirEntry(op.dir, e) /\ itab' = itab
  BY DEF EnterName, FsTo, NewEntry
<1>2. e \in Entry
  BY DEF IInv, Shape, DirInv, RestOK, Entry, NewEntry
<1>3. op.dir \in Linked /\ op.dir \in InodeId /\ \A s \in Span(itab[op.dir]) : s \in Sector
  BY LinkedIds, LinkedSpans DEF DirInv, LinkInv, IInv
<1> HIDE DEF e
<1>4. \/ data' = data /\ \A s \in Extent(op.dir) : ~(Len(data[s]) < DirEntries)
      \/ \E m \in Span(itab[op.dir]) : FirstRoom(op.dir, m) /\ AppendsAt(m, e)
  BY <1>1, <1>3, AddsOne DEF DirInv
<1>5. CASE data' = data /\ \A s \in Extent(op.dir) : ~(Len(data[s]) < DirEntries)
  BY <1>1, <1>2, <1>5, NamedSame DEF e, LinkedAlike
<1>6. ASSUME NEW m \in Span(itab[op.dir]), Len(data[m]) < DirEntries, AppendsAt(m, e)
      PROVE  /\ Linked \subseteq Linked'
             /\ Linked' \subseteq Linked \cup {op.id} /\ m \notin Span(op.inode)
             /\ \A i \in Linked \ {op.dir} : m \notin Span(itab[i])
  <2>1. Named' = IF IsDot(e) THEN Named ELSE Named \cup {e}
    BY <1>2, <1>6, Appended DEF DirInv
  <2>2. e.id = op.id
    BY DEF e, NewEntry
  <2>3. Linked \subseteq Linked' /\ Linked' \subseteq Linked \cup {op.id}
    BY <2>1, <2>2 DEF Linked
  <2>4. m \notin Span(op.inode)
    BY <1>1, <1>3 DEF IInv, NewInv, Making
  <2>5. \A i \in Linked \ {op.dir} : m \notin Span(itab[i])
    BY <1>3 DEF IInv, NamedInv
  <2> QED BY <2>3, <2>4, <2>5
<1>7. CASE \E m \in Span(itab[op.dir]) : FirstRoom(op.dir, m) /\ AppendsAt(m, e)
  <2>1. PICK m \in Span(itab[op.dir]) : FirstRoom(op.dir, m) /\ Len(data[m]) < DirEntries /\ AppendsAt(m, e)
    BY <1>7 DEF FirstRoom
  <2> QED BY <1>2, <1>6, <2>1 DEF e
<1> QED BY <1>4, <1>5, <1>7

LEMMA DotGoesIn ==
  ASSUME OneSector, IInv, DirInv, fs_pc \in {"dot", "dotdot"}, itab' = itab,
         NEW e \in Entry, IsDot(e), AddDirEntry(op.id, e)
  PROVE  /\ Linked' = Linked /\ op.id \in InodeId /\ itab[op.id] = op.inode
         /\ \/ data' = data
            \/ \E m \in Span(op.inode) :
                 /\ Len(data[m]) < DirEntries /\ FirstRoom(op.id, m) /\ AppendsAt(m, e)
                 /\ \A i \in Linked \ {op.id} : m \notin Span(itab[i])
<1>1. op.id \in InodeId /\ itab[op.id] = op.inode /\ \A s \in Span(op.inode) : s \in Sector
  BY DEF DirInv, EmptyInv, IInv, Shape, Held
<1>2. \/ data' = data
      \/ \E m \in Span(op.inode) : Len(data[m]) < DirEntries /\ FirstRoom(op.id, m) /\ AppendsAt(m, e)
  BY <1>1, AddsOne DEF DirInv, FirstRoom
<1>3. CASE data' = data
  BY <1>1, <1>3, NamedSame
<1>4. ASSUME NEW m \in Span(op.inode), Len(data[m]) < DirEntries, AppendsAt(m, e)
      PROVE  Linked' = Linked /\ \A i \in Linked \ {op.id} : m \notin Span(itab[i])
  <2>1. Named' = Named
    BY <1>4, Appended DEF DirInv
  <2> QED BY <2>1 DEF Linked, DirInv, EmptyInv
<1> QED BY <1>1, <1>2, <1>3, <1>4

LEMMA DotEntry ==
  ASSUME OneSector, IInv, DirInv, EnterDot \/ EnterDotDot
  PROVE  \E e \in Entry : /\ AddDirEntry(op.id, e) /\ IsDot(e) /\ itab' = itab /\ UNCHANGED op
                          /\ fs_pc \in {"dot", "dotdot"}
                          /\ \/ fs_pc = "dot" /\ fs_pc' = "dotdot" /\ e.name = DOT /\ e.id = op.id
                             \/ fs_pc = "dotdot" /\ fs_pc' = "reply" /\ e.name = DOTDOT /\ e.id = op.dir
<1>1. op.id \in InodeId /\ op.dir \in InodeId
  BY LinkedIds DEF IInv, Shape, DirInv, LinkInv
<1>2. CASE EnterDot
  <2> DEFINE e == [id |-> op.id, name |-> DOT, type |-> "folder"]
  <2>1. e \in Entry /\ IsDot(e) /\ e.name = DOT /\ e.id = op.id
    BY <1>1 DEF Entry, AnyName, Types, IsDot
  <2>2. AddDirEntry(op.id, e) /\ itab' = itab /\ UNCHANGED op /\ fs_pc = "dot" /\ fs_pc' = "dotdot"
    BY <1>2 DEF EnterDot, FsTo
  <2> HIDE DEF e
  <2> QED BY <2>1, <2>2
<1>3. CASE EnterDotDot
  <2> DEFINE e == [id |-> op.dir, name |-> DOTDOT, type |-> "folder"]
  <2>1. e \in Entry /\ IsDot(e) /\ e.name = DOTDOT /\ e.id = op.dir
    BY <1>1 DEF Entry, AnyName, Types, IsDot
  <2>2. AddDirEntry(op.id, e) /\ itab' = itab /\ UNCHANGED op /\ fs_pc = "dotdot" /\ fs_pc' = "reply"
    BY <1>3 DEF EnterDotDot, FsTo
  <2> HIDE DEF e
  <2> QED BY <2>1, <2>2
<1> QED BY <1>2, <1>3

\* All other steps leave the linked directories alone.
LEMMA ClearAlike ==
  ASSUME OneSector, IInv, DirInv, ClearSector
  PROVE  /\ LinkedAlike
         /\ fs_pc' = "clear2" => data'[op.inode.start] = <<>>
         /\ fs_pc' = "entry" => \A s \in Span(op.inode) : data'[s] = <<>>
<1>1. PICK k \in 1 .. op.inode.num :
        /\ fs_pc = IF k = 1 THEN "clear" ELSE "clear2"
        /\ fs_pc' = IF k = op.inode.num THEN "entry" ELSE "clear2"
        /\ data' = [data EXCEPT ![op.inode.start + k - 1] = <<>>]
        /\ UNCHANGED <<imap, smap, itab, stray, op>>
  BY DEF ClearSector, FsTo
<1> DEFINE m == op.inode.start + k - 1
<1>2. op.inode \in Inode /\ op.inode.start \in Nat /\ op.inode.num \in {1, 2}
  BY <1>1, Sizes DEF IInv, Shape, Inode
<1>3. m \in Span(op.inode)
  BY <1>2 DEF Span
<1>4. Held(m) /\ \A i \in Linked : m \notin Span(itab[i])
  BY <1>1, <1>3 DEF IInv, NewInv, Making
<1>5. m \in Sector
  BY <1>4 DEF Held
<1> HIDE DEF m
<1>6. data'[m] = <<>> /\ \A s \in Sector \ {m} : data'[s] = data[s]
  BY <1>1, <1>5 DEF m, IInv, Shape
<1>7. Range(<<>>) = {}
  BY DEF Range
<1>8. \A e \in Range(data[m]) : IsDot(e)
  BY <1>4, <1>5 DEF DirInv, LinkInv
<1>9. Named' = Named
  BY <1>5, <1>6, <1>7, <1>8 DEF Named, IsDot
<1>10. LinkedAlike
  <2>1. \A i \in Linked : \A s \in Span(itab[i]) : s \in Sector \ {m}
    BY <1>4 DEF IInv, NamedInv, Held
  <2> QED BY <1>1, <1>6, <1>9, <2>1 DEF LinkedAlike, Linked
<1>11. fs_pc' = "clear2" => data'[op.inode.start] = <<>>
  <2> SUFFICES ASSUME fs_pc' = "clear2" PROVE data'[op.inode.start] = <<>>
    OBVIOUS
  <2>1. k = 1
    BY <1>1, <1>2
  <2> QED BY <1>2, <1>6, <2>1 DEF m
<1>12. fs_pc' = "entry" => \A s \in Span(op.inode) : data'[s] = <<>>
  <2> SUFFICES ASSUME fs_pc' = "entry", NEW s \in Span(op.inode) PROVE data'[s] = <<>>
    OBVIOUS
  <2>1. k = op.inode.num
    BY <1>1, <1>2
  <2>2. CASE s = m
    BY <1>6, <2>2
  <2>3. CASE s # m
    <3>1. s = op.inode.start /\ k = 2
      BY <1>2, <2>1, <2>3, SpanIs DEF m
    <3>2. fs_pc = "clear2" /\ data[s] = <<>>
      BY <1>1, <3>1 DEF DirInv, EmptyInv
    <3>3. s \in Sector
      BY <1>1 DEF IInv, NewInv, Making, Held
    <3> QED BY <1>6, <2>3, <3>2, <3>3
  <2> QED BY <2>2, <2>3
<1> QED BY <1>10, <1>11, <1>12

LEMMA EarlyAlike ==
  ASSUME OneSector, IInv, DirInv, NewInode \/ InodeAllocSector \/ WriteInode
  PROVE  LinkedAlike
<1>1. data' = data
  BY DEF NewInode, InodeAllocSector, WriteInode
<1>2. \A i \in Linked : itab'[i] = itab[i]
  <2>1. CASE WriteInode
    <3>1. op.id \in InodeId /\ op.id \notin Linked
      BY <2>1 DEF WriteInode, FsTo, IInv, Shape, NewInv, Making
    <3>2. itab' = [itab EXCEPT ![op.id] = op.inode]
      BY <2>1, <3>1, Updated DEF WriteInode
    <3> QED BY <3>1, <3>2 DEF IInv, Shape
  <2>2. CASE NewInode \/ InodeAllocSector
    BY <2>2 DEF NewInode, InodeAllocSector
  <2> QED BY <2>1, <2>2
<1> QED BY <1>1, <1>2, NamedSame DEF LinkedAlike

LEMMA StillAlike == ASSUME UNCHANGED disk PROVE LinkedAlike
  BY NamedSame DEF disk, LinkedAlike

LEMMA StepKinds ==
  ASSUME OneSector, IInv, DirInv, [Next]_vars
  PROVE  LinkedAlike \/ EnterName \/ EnterDot \/ EnterDotDot
<1>1. CASE \E t \in Tty : Ls(t) \/ \E n \in Name \cup {DOT, DOTDOT} : Cd(t, n)
  BY <1>1, StillAlike DEF Ls, Cd, fsVars
<1>2. CASE \E t \in Tty : \E n \in Name, type \in Types : Make(t, type, n)
  BY <1>2, StillAlike DEF Make
<1>3. CASE FsStep
  BY <1>3, EarlyAlike, ClearAlike DEF FsStep
<1>4. CASE Answered \/ PowerFails
  BY <1>4, StillAlike DEF Answered, PowerFails
<1>5. CASE UNCHANGED vars
  BY <1>5, StillAlike DEF vars, fsVars
<1> QED BY <1>1, <1>2, <1>3, <1>4, <1>5 DEF Next

LEMMA LinksStay ==
  ASSUME OneSector, IInv, DirInv, [Next]_vars
  PROVE  Linked \subseteq Linked' /\ DataOK'
<1>1. CASE LinkedAlike
  BY <1>1, AlikeSame DEF LinkedAlike, DirInv
<1>2. CASE EnterName
  <2>1. CASE LinkedAlike
    BY <1>1, <2>1
  <2>2. CASE ~LinkedAlike
    BY <1>2, <2>2, NameGoesIn, Appended DEF DirInv
  <2> QED BY <2>1, <2>2
<1>3. CASE EnterDot \/ EnterDotDot
  <2>1. PICK e \in Entry : AddDirEntry(op.id, e) /\ IsDot(e) /\ itab' = itab /\ fs_pc \in {"dot", "dotdot"}
    BY <1>3, DotEntry
  <2>2. Linked' = Linked /\ (data' = data \/ \E m : Len(data[m]) < DirEntries /\ AppendsAt(m, e))
    BY <2>1, DotGoesIn
  <2> QED BY <2>2, Appended DEF DirInv, DataOK
<1> QED BY <1>1, <1>2, <1>3, StepKinds

\* What the commands know after the refresh.
LEMMA RefreshedIs ==
  ASSUME OneSector, IInv, DirInv, NEW t \in Tty
  PROVE  /\ Refreshed(t) \in LinkedTty /\ Refreshed(t).flag = 0
         /\ Refreshed(t).cwd = tty[t].cwd /\ Refreshed(t).path = tty[t].path /\ Refreshed(t).cut = tty[t].cut
         /\ Refreshed(t).cache = IF tty[t].flag = 0 THEN tty[t].cache ELSE DirOf(tty[t].cwd)
<1>1. tty[t] \in LinkedTty
  BY DEF DirInv, RestOK
<1>2. tty[t].cwd \in Linked
  BY <1>1 DEF LinkedTty
<1>3. DirOf(tty[t].cwd) \in Seq(Entry) /\ Range(DirOf(tty[t].cwd)) = Entries(tty[t].cwd)
  BY <1>2, LinkedSpans, DirLists DEF DirInv
<1>4. DirOf(tty[t].cwd) \in Seq({e \in Entry : e.id \in Linked})
  <2> DEFINE dir == DirOf(tty[t].cwd)
             L == {e \in Entry : e.id \in Linked}
  <2>1. \A k \in DOMAIN dir : dir[k] \in L
    BY <1>2, <1>3 DEF DirInv, LinkInv, Range
  <2> HIDE DEF dir, L
  <2>2. dir \in Seq(L)
    BY <1>3, <2>1 DEF dir
  <2> QED BY <2>2 DEF dir, L
<1>5. Refreshed(t) = [flag |-> 0, cwd |-> tty[t].cwd, path |-> tty[t].path, cut |-> tty[t].cut,
                       cache |-> IF tty[t].flag = 0 THEN tty[t].cache ELSE DirOf(tty[t].cwd)]
  BY <1>1 DEF Refreshed, LinkedTty
<1>6. [flag |-> 0, cwd |-> tty[t].cwd, path |-> tty[t].path, cut |-> tty[t].cut, cache |-> DirOf(tty[t].cwd)] \in LinkedTty
  BY <1>1, <1>4 DEF LinkedTty
<1>7. Refreshed(t) \in LinkedTty
  BY <1>1, <1>5, <1>6 DEF Refreshed
<1> QED BY <1>5, <1>7

LEMMA LinkedTtyGrows ==
  ASSUME Linked \subseteq Linked' PROVE LinkedTty \subseteq LinkedTty'
<1> DEFINE L == {e \in Entry : e.id \in Linked}
           M == {e \in Entry : e.id \in Linked'}
<1>1. Seq(L) \subseteq Seq(M)
  OBVIOUS
<1> QED BY <1>1 DEF LinkedTty

LEMMA FreshTtyOK == ASSUME OneSector PROVE FreshTty \in [Tty -> LinkedTty]
<1> DEFINE L == {e \in Entry : e.id \in Linked}
<1>1. <<>> \in Seq(Name) /\ <<>> \in Seq(L)
  OBVIOUS
<1> HIDE DEF L
<1>2. [flag |-> 1, cwd |-> ROOT, path |-> <<>>, cut |-> FALSE, cache |-> <<>>] \in
        [flag : 0 .. 1, cwd : Linked, path : Seq(Name), cut : BOOLEAN, cache : Seq(L)]
  BY <1>1 DEF Linked
<1> QED BY <1>2 DEF FreshTty, LinkedTty, L

\* cd leads to an entry of the refreshed cache, if it leads anywhere.
LEMMA CdLeads ==
  ASSUME OneSector, IInv, DirInv, NEW t \in Tty, NEW n \in Name \cup {DOT, DOTDOT}, Cd(t, n)
  PROVE  \/ tty' = [tty EXCEPT ![t] = Refreshed(t)]
         \/ \E e \in Range(Refreshed(t).cache) :
              /\ e.name = n /\ FirstIs(Refreshed(t).cache, n, e.id)
              /\ tty' = [tty EXCEPT ![t] = Entered(Refreshed(t), e)]
<1> DEFINE dir == Refreshed(t).cache
           k == CHOOSE k \in Hits(dir, n) : TRUE
<1>1. CASE Hits(dir, n) = {}
  BY <1>1 DEF Cd
<1>2. CASE Hits(dir, n) # {}
  <2>1. tty' = [tty EXCEPT ![t] = Entered(Refreshed(t), dir[k])]
    BY <1>2 DEF Cd
  <2>2. k \in Hits(dir, n)
    BY <1>2
  <2>3. dir[k] \in Range(dir) /\ dir[k].name = n /\ FirstIs(dir, n, dir[k].id)
    BY <2>2 DEF Hits, Range, FirstIs
  <2> HIDE DEF k, dir
  <2> QED BY <2>1, <2>3 DEF dir
<1> QED BY <1>1, <1>2

\* What cd makes of the path.
LEMMA LongerIs ==
  ASSUME NEW tt \in LinkedTty, NEW n \in Name
  PROVE  /\ Longer(tt, n).path \in Seq(Name) /\ Longer(tt, n).cut \in BOOLEAN
         /\ ~Longer(tt, n).cut => Longer(tt, n).path = Append(tt.path, n)
<1>1. tt.path \in Seq(Name) /\ Append(tt.path, n) \in Seq(Name)
  BY DEF LinkedTty
<1> QED BY <1>1 DEF Longer

LEMMA ShorterIs ==
  ASSUME NEW tt \in LinkedTty
  PROVE  /\ Shorter(tt).path \in Seq(Name) /\ Shorter(tt).cut \in BOOLEAN
         /\ ~tt.cut => Shorter(tt).path = Parent(tt.path)
<1>1. tt.path \in Seq(Name) /\ Parent(tt.path) \in Seq(Name)
  BY DEF LinkedTty, Parent
<1> QED BY <1>1 DEF Shorter

LEMMA EnteredIs ==
  ASSUME NEW tt \in LinkedTty, NEW e \in Entry, e.name \in Name \cup {DOT, DOTDOT}
  PROVE  \/ Entered(tt, e) = tt
         \/ e.name = DOT /\ Entered(tt, e) = [flag |-> 1, cwd |-> tt.cwd, path |-> tt.path, cut |-> tt.cut, cache |-> tt.cache]
         \/ e.name = DOTDOT /\ Entered(tt, e) = [flag |-> 1, cwd |-> e.id, path |-> Shorter(tt).path,
                                                 cut |-> Shorter(tt).cut, cache |-> tt.cache]
         \/ e.name \in Name /\ Entered(tt, e) = [flag |-> 1, cwd |-> e.id, path |-> Longer(tt, e.name).path,
                                                 cut |-> Longer(tt, e.name).cut, cache |-> tt.cache]
<1>1. CASE e.type = "file"
  BY <1>1 DEF Entered
<1>2. CASE e.type = "folder" /\ e.name = DOT
  BY <1>2, FsDirAssumption DEF Entered
<1>3. CASE e.type = "folder" /\ e.name = DOTDOT
  BY <1>3, FsDirAssumption DEF Entered
<1>4. CASE e.type = "folder" /\ e.name \in Name
  BY <1>4, FsDirAssumption DEF Entered
<1>5. e.type \in {"file", "folder"}
  BY DEF Entry, Types
<1> QED BY <1>1, <1>2, <1>3, <1>4, <1>5

LEMMA EnteredOK ==
  ASSUME NEW tt \in LinkedTty, NEW e \in Range(tt.cache), e.name \in Name \cup {DOT, DOTDOT}
  PROVE  Entered(tt, e) \in LinkedTty
<1> DEFINE L == {x \in Entry : x.id \in Linked}
<1>1. tt.cache \in Seq(L) /\ tt.path \in Seq(Name) /\ tt.cwd \in Linked /\ tt.cut \in BOOLEAN
  BY DEF LinkedTty
<1>2. e \in L
  BY <1>1 DEF Range
<1>3. ASSUME NEW c \in Linked, NEW p \in Seq(Name), NEW u \in BOOLEAN
      PROVE  [flag |-> 1, cwd |-> c, path |-> p, cut |-> u, cache |-> tt.cache] \in LinkedTty
  BY <1>1 DEF LinkedTty
<1> QED BY <1>1, <1>2, <1>3, EnteredIs, LongerIs, ShorterIs

\* mkdir and mkfile send a name, or the bytes of an inode number.
LEMMA NameSentOK ==
  ASSUME OneSector, IInv, DirInv, NEW t \in Tty, NEW n \in Name
  PROVE  NameSent(t, n) \in Name \cup InodeId
<1>1. tty[t].cwd \in Linked
  BY DEF DirInv, RestOK, LinkedTty
<1>2. DirOf(tty[t].cwd) \in Seq(Entry)
  BY <1>1, LinkedSpans, DirLists DEF DirInv
<1>3. 0 \in InodeId
  BY ZeroedInode
<1>4. CASE tty[t].flag = 0 \/ DirOf(tty[t].cwd) = <<>>
  BY <1>3, <1>4 DEF NameSent
<1>5. CASE tty[t].flag # 0 /\ DirOf(tty[t].cwd) # <<>>
  <2> DEFINE dir == DirOf(tty[t].cwd)
  <2>1. dir[1] \in Entry
    BY <1>2, <1>5
  <2> QED BY <1>5, <2>1 DEF NameSent, Entry
<1> QED BY <1>4, <1>5

--------------------------------------------------------------------------------
(* Every step keeps DirInv                                                  *)

LEMMA TtyStays == ASSUME Linked \subseteq Linked', tty \in [Tty -> LinkedTty], UNCHANGED tty
                  PROVE  tty' \in [Tty -> LinkedTty']
  BY LinkedTtyGrows

LEMMA TtyOneMoves ==
  ASSUME Linked \subseteq Linked', tty \in [Tty -> LinkedTty],
         NEW t \in Tty, NEW tt \in LinkedTty, tty' = [tty EXCEPT ![t] = tt]
  PROVE  tty' \in [Tty -> LinkedTty']
<1>1. tty' \in [Tty -> LinkedTty]
  OBVIOUS
<1> QED BY <1>1, LinkedTtyGrows

LEMMA NextRestOK == ASSUME OneSector, IInv, DirInv, [Next]_vars PROVE RestOK'
<1>1. Linked \subseteq Linked'
  BY LinksStay
<1>2. RestOK
  BY DEF DirInv
<1>3. CASE \E t \in Tty : Ls(t) \/ \E n \in Name \cup {DOT, DOTDOT} : Cd(t, n)
  <2>1. PICK t \in Tty : Ls(t) \/ \E n \in Name \cup {DOT, DOTDOT} : Cd(t, n)
    BY <1>3
  <2>2. PICK tt \in LinkedTty : tty' = [tty EXCEPT ![t] = tt]
    <3>1. Refreshed(t) \in LinkedTty
      BY RefreshedIs
    <3>2. CASE Ls(t)
      BY <3>1, <3>2 DEF Ls
    <3>3. ASSUME NEW n \in Name \cup {DOT, DOTDOT}, Cd(t, n)
          PROVE  \E tt \in LinkedTty : tty' = [tty EXCEPT ![t] = tt]
      BY <3>1, <3>3, CdLeads, EnteredOK
    <3> QED BY <2>1, <3>2, <3>3
  <2>3. tty' \in [Tty -> LinkedTty']
    BY <1>1, <1>2, <2>2, TtyOneMoves DEF RestOK
  <2> QED BY <1>2, <2>1, <2>3 DEF RestOK, Ls, Cd, fsVars
<1>4. ASSUME NEW t \in Tty, NEW n \in Name, NEW type \in Types, Make(t, type, n) PROVE RestOK'
  <2>1. tty' \in [Tty -> LinkedTty']
    BY <1>1, <1>2, <1>4, RefreshedIs, TtyOneMoves DEF RestOK, Make
  <2>2. op'.name \in AnyName
    <3>1. op' = op \/ op' = [NoOp EXCEPT !.type = type, !.name = NameSent(t, n), !.dir = tty[t].cwd]
      BY <1>4 DEF Make
    <3>2. NameSent(t, n) \in AnyName
      BY NameSentOK DEF AnyName
    <3> QED BY <1>2, <3>1, <3>2 DEF RestOK, NoOp
  <2>3. made' \in 0 .. MaxMake
    BY <1>2, <1>4, ShellFsAssumption DEF RestOK, Make
  <2>4. fs_pc' \in {fs_pc, "new_inode"} /\ UNCHANGED <<stray, crashes, outgrown>> /\ asking' \in Tty
    BY <1>4 DEF Make
  <2>5. makers' \in [InodeId -> SUBSET Tty]
    <3>1. makers' = makers \/ makers' = [makers EXCEPT ![tty[t].cwd] = @ \cup {t}]
      BY <1>4 DEF Make
    <3> QED BY <1>2, <3>1 DEF RestOK
  <2> QED BY <1>2, <2>1, <2>2, <2>3, <2>4, <2>5 DEF RestOK, Serving
<1>5. CASE FsStep /\ UNCHANGED <<tty, asking, acked, makers, outgrown, made, crashes>>
  <2>1. tty' \in [Tty -> LinkedTty']
    BY <1>1, <1>2, <1>5, TtyStays DEF RestOK
  <2>2. stray' = stray
    <3>1. WriteInode => op.id \in InodeId /\ Slot(op.id) >= 0
      BY FirstSlot DEF IInv, Shape
    <3> QED BY <1>5, <3>1 DEF FsStep, NewInode, InodeAllocSector, WriteInode, UpdateInode, ClearSector,
                              EnterName, EnterDot, EnterDotDot
  <2>3. op'.name = op.name
    BY <1>5 DEF FsStep, NewInode, InodeAllocSector, WriteInode, ClearSector,
                EnterName, EnterDot, EnterDotDot, IInv, Shape
  <2>4. fs_pc' \in {"idle", "dot", "dotdot", "reply"} \cup Serving
    BY <1>5 DEF FsStep, NewInode, InodeAllocSector, WriteInode, ClearSector,
                EnterName, EnterDot, EnterDotDot, FsTo, Serving, Making
  <2> QED BY <1>2, <1>5, <2>1, <2>2, <2>3, <2>4 DEF RestOK
<1>6. CASE Answered
  <2> DEFINE tt == [tty[asking] EXCEPT !.flag = 1]
  <2>1. tt \in LinkedTty
    <3>1. tty[asking] \in LinkedTty
      BY <1>2 DEF RestOK
    <3>2. tt = [flag |-> 1, cwd |-> tty[asking].cwd, path |-> tty[asking].path, cut |-> tty[asking].cut,
                cache |-> tty[asking].cache]
      BY <3>1 DEF LinkedTty
    <3> QED BY <3>1, <3>2 DEF LinkedTty
  <2>2. tty' = [tty EXCEPT ![asking] = tt]
    BY <1>6 DEF Answered
  <2> HIDE DEF tt
  <2>3. tty' \in [Tty -> LinkedTty']
    BY <1>1, <1>2, <2>1, <2>2, TtyOneMoves DEF RestOK
  <2> QED BY <1>2, <1>6, <2>3 DEF RestOK, Answered, FsTo
<1>7. CASE PowerFails
  <2>1. tty' \in [Tty -> LinkedTty']
    BY <1>1, <1>7, FreshTtyOK, LinkedTtyGrows DEF PowerFails
  <2>2. crashes' \in 0 .. MaxCrash
    BY <1>2, <1>7, ShellFsAssumption DEF RestOK, PowerFails
  <2>3. op'.name \in AnyName
    BY <1>7 DEF PowerFails, NoOp, AnyName
  <2> QED BY <1>2, <1>7, <2>1, <2>2, <2>3 DEF RestOK, PowerFails
<1>8. CASE UNCHANGED vars
  BY <1>1, <1>2, <1>8, TtyStays DEF RestOK, vars, fsVars
<1> QED BY <1>3, <1>4, <1>5, <1>6, <1>7, <1>8 DEF Next

\* The directory of the request.
LEMMA DirStays == ASSUME OneSector, IInv, DirInv, [Next]_vars PROVE op'.dir \in Linked'
<1>1. Linked \subseteq Linked' /\ ROOT \in Linked /\ op.dir \in Linked
  BY LinksStay DEF DirInv, LinkInv, Linked
<1>2. ASSUME NEW t \in Tty, NEW n \in Name, NEW type \in Types, Make(t, type, n) PROVE op'.dir \in Linked'
  <2>1. op' = op \/ op' = [NoOp EXCEPT !.type = type, !.name = NameSent(t, n), !.dir = tty[t].cwd]
    BY <1>2 DEF Make
  <2>2. tty[t].cwd \in Linked
    BY DEF DirInv, RestOK, LinkedTty
  <2> QED BY <1>1, <2>1, <2>2 DEF NoOp
<1>3. CASE FsStep
  <2>1. op'.dir = op.dir
    BY <1>3 DEF FsStep, NewInode, InodeAllocSector, WriteInode, ClearSector,
                EnterName, EnterDot, EnterDotDot, IInv, Shape
  <2> QED BY <1>1, <2>1
<1>4. CASE \/ \E t \in Tty : Ls(t) \/ \E n \in Name \cup {DOT, DOTDOT} : Cd(t, n)
           \/ Answered \/ UNCHANGED vars
  BY <1>1, <1>4 DEF Ls, Cd, Answered, vars, fsVars
<1>5. CASE PowerFails
  BY <1>1, <1>5 DEF PowerFails, NoOp
<1> QED BY <1>2, <1>3, <1>4, <1>5, <1>1 DEF Next

\* The name of the request: typed, or the bytes of an inode number.
LEMMA NameStays ==
  ASSUME OneSector, NamesApart, IInv, DirInv, [Next]_vars
  PROVE  fs_pc' \in Serving => op'.name \notin {DOT, DOTDOT}
<1>1. fs_pc \in Serving => op.name \notin {DOT, DOTDOT}
  BY DEF DirInv, LinkInv
<1>2. ASSUME NEW t \in Tty, NEW n \in Name, NEW type \in Types, Make(t, type, n)
      PROVE  fs_pc' \in Serving => op'.name \notin {DOT, DOTDOT}
  <2>1. NameSent(t, n) \notin {DOT, DOTDOT}
    BY NameSentOK, FsDirAssumption DEF NamesApart
  <2>2. \/ fs_pc' = fs_pc /\ op' = op
        \/ op' = [NoOp EXCEPT !.type = type, !.name = NameSent(t, n), !.dir = tty[t].cwd]
    BY <1>2 DEF Make
  <2> QED BY <1>1, <2>1, <2>2 DEF NoOp
<1>3. CASE FsStep
  <2>1. op'.name = op.name
    BY <1>3 DEF FsStep, NewInode, InodeAllocSector, WriteInode, ClearSector,
                EnterName, EnterDot, EnterDotDot, IInv, Shape
  <2>2. fs_pc' \in Serving => fs_pc \in Serving
    BY <1>3 DEF FsStep, NewInode, InodeAllocSector, WriteInode, ClearSector,
                EnterName, EnterDot, EnterDotDot, FsTo, Serving, Making
  <2> QED BY <1>1, <2>1, <2>2
<1>4. CASE \/ \E t \in Tty : Ls(t) \/ \E n \in Name \cup {DOT, DOTDOT} : Cd(t, n)
           \/ UNCHANGED vars
  BY <1>1, <1>4 DEF Ls, Cd, vars, fsVars
<1>5. CASE Answered \/ PowerFails
  BY <1>5 DEF Answered, PowerFails, FsTo, Serving, Making
<1> QED BY <1>2, <1>3, <1>4, <1>5 DEF Next

LEMMA NextLinkInv == ASSUME OneSector, NamesApart, IInv, DirInv, [Next]_vars PROVE LinkInv'
<1> DEFINE Inside == \A i \in Linked : \A e \in Entries(i) : e.id \in Linked
           Home   == \A s \in Sector : (\E e \in Range(data[s]) : ~IsDot(e)) => \E i \in Linked : s \in Span(itab[i])
<1>1. Inside /\ Home
  BY DEF DirInv, LinkInv
<1>2. CASE LinkedAlike
  <2>1. Inside'
    BY <1>1, <1>2, AlikeSame DEF LinkedAlike, DirInv
  <2>2. Range(<<>>) = {}
    BY DEF Range
  <2>3. \A s \in Sector : Range(data'[s]) \subseteq Range(data[s])
    BY <1>2, <2>2 DEF LinkedAlike
  <2>4. Home'
    BY <1>1, <1>2, <2>3 DEF LinkedAlike
  <2> QED BY <2>1, <2>4, DirStays, NameStays DEF LinkInv
<1>3. CASE EnterName /\ ~LinkedAlike
  <2>1. PICK m \in Span(itab[op.dir]) :
                 /\ Len(data[m]) < DirEntries /\ AppendsAt(m, NewEntry)
                 /\ Linked' \subseteq Linked \cup {op.id} /\ m \notin Span(op.inode)
                 /\ \A i \in Linked \ {op.dir} : m \notin Span(itab[i])
    BY <1>3, NameGoesIn
  <2>2. NewEntry \in Entry /\ Linked \subseteq Linked' /\ NewEntry.id = op.id
    BY <1>3, NameGoesIn DEF NewEntry
  <2>3. fs_pc = "entry" /\ itab[op.id] = op.inode /\ \A s \in Span(op.inode) : s \in Sector /\ data[s] = <<>>
    BY <1>3 DEF EnterName, FsTo, IInv, NewInv, Making, DirInv, EmptyInv, Held
  <2>4. /\ Range(data'[m]) = Range(data[m]) \cup {NewEntry}
        /\ \A id : Span(itab[id]) \subseteq Sector =>
              Entries(id)' = IF m \in Span(itab[id]) THEN Entries(id) \cup {NewEntry} ELSE Entries(id)
        /\ Named' = IF IsDot(NewEntry) THEN Named ELSE Named \cup {NewEntry}
    BY <2>1, <2>2, Appended DEF DirInv
  <2>5. op.dir \in Linked
    BY DEF DirInv, LinkInv
  <2>8. ~IsDot(NewEntry)
    BY <2>3 DEF IsDot, NewEntry, DirInv, LinkInv, Serving, Making
  <2> HIDE DEF NewEntry
  <2>6. Inside'
    <3> SUFFICES ASSUME NEW i \in Linked', NEW e \in Entries(i)' PROVE e.id \in Linked'
      OBVIOUS
    <3>1. CASE i \in Linked
      <4>1. Span(itab[i]) \subseteq Sector
        BY <3>1, LinkedSpans DEF DirInv
      <4>2. CASE e \in Entries(i)
        BY <1>1, <2>2, <3>1, <4>2
      <4>3. CASE e \notin Entries(i)
        <5>1. e = NewEntry /\ m \in Span(itab[i])
          BY <2>4, <4>1, <4>3
        <5> QED BY <2>4, <2>8, <5>1 DEF Linked
      <4> QED BY <4>2, <4>3
    <3>2. CASE i = op.id
      BY <2>1, <2>3, <2>4, <3>2 DEF Entries, Range
    <3> QED BY <2>1, <3>1, <3>2
  <2>7. Home'
    <3> SUFFICES ASSUME NEW s \in Sector, NEW e \in Range(data'[s]), ~IsDot(e)
                 PROVE  \E i \in Linked' : s \in Span(itab'[i])
      BY DEF IsDot
    <3>1. itab' = itab
      BY <2>1 DEF AppendsAt
    <3>2. CASE s = m
      BY <2>1, <2>2, <2>5, <3>1, <3>2
    <3>3. CASE s # m
      BY <1>1, <2>1, <2>2, <3>1, <3>3 DEF AppendsAt
    <3> QED BY <3>2, <3>3
  <2> QED BY <2>6, <2>7, DirStays, NameStays DEF LinkInv
<1>4. CASE EnterDot \/ EnterDotDot
  <2>1. PICK e \in Entry : /\ AddDirEntry(op.id, e) /\ IsDot(e) /\ itab' = itab /\ fs_pc \in {"dot", "dotdot"}
                           /\ e.id = op.id \/ e.id = op.dir
    BY <1>4, DotEntry
  <2>2. /\ Linked' = Linked /\ op.id \in InodeId /\ itab[op.id] = op.inode
        /\ \/ data' = data
           \/ \E m \in Span(op.inode) :
                /\ Len(data[m]) < DirEntries /\ AppendsAt(m, e)
                /\ \A i \in Linked \ {op.id} : m \notin Span(itab[i])
    BY <2>1, DotGoesIn
  <2>3. op.dir \in Linked
    BY DEF DirInv, LinkInv
  <2>4. CASE data' = data
    BY <1>2, <2>1, <2>2, <2>4 DEF LinkedAlike
  <2>5. ASSUME NEW m \in Span(op.inode), Len(data[m]) < DirEntries, AppendsAt(m, e),
               \A i \in Linked \ {op.id} : m \notin Span(itab[i])
        PROVE  Inside' /\ Home'
    <3>1. /\ Range(data'[m]) = Range(data[m]) \cup {e}
          /\ \A id : Span(itab[id]) \subseteq Sector =>
               Entries(id)' = IF m \in Span(itab[id]) THEN Entries(id) \cup {e} ELSE Entries(id)
      BY <2>1, <2>5, Appended DEF DirInv
    <3>2. ASSUME NEW i \in Linked, NEW x \in Entries(i)' PROVE x.id \in Linked
      <4>1. CASE x \in Entries(i)
        BY <1>1, <4>1
      <4>2. CASE x \notin Entries(i)
        <5>1. x = e /\ m \in Span(itab[i])
          BY <3>1, <3>2, <4>2, LinkedSpans DEF DirInv
        <5>2. i = op.id
          BY <2>5, <5>1
        <5> QED BY <2>1, <2>3, <5>1, <5>2
      <4> QED BY <4>1, <4>2
    <3>3. Inside'
      BY <2>2, <3>2
    <3>4. Home'
      <4> SUFFICES ASSUME NEW s \in Sector, NEW x \in Range(data'[s]), ~IsDot(x)
                   PROVE  \E i \in Linked' : s \in Span(itab'[i])
        BY DEF IsDot
      <4>1. x \in Range(data[s])
        BY <2>1, <2>5, <3>1 DEF AppendsAt
      <4> QED BY <1>1, <2>1, <2>2, <4>1
    <3> QED BY <3>3, <3>4
  <2> QED BY <2>2, <2>4, <2>5, DirStays, NameStays DEF LinkInv
<1> QED BY <1>2, <1>3, <1>4, StepKinds

\* The sectors of the inode that is being made.
LEMMA NextEmptyInv == ASSUME OneSector, IInv, DirInv, [Next]_vars PROVE EmptyInv'
<1>1. EmptyInv
  BY DEF DirInv
<1>2. CASE NewInode \/ InodeAllocSector \/ WriteInode \/ EnterDotDot \/ Answered \/ PowerFails
  <2>1. fs_pc' \in {"alloc", "update", "clear", "reply", "idle"}
    BY <1>2 DEF NewInode, InodeAllocSector, WriteInode, EnterDotDot, Answered, PowerFails, FsTo
  <2> QED BY <2>1 DEF EmptyInv
<1>3. CASE ClearSector
  <2>1. op' = op /\ fs_pc' \in {"entry", "clear2"}
    BY <1>3 DEF ClearSector, FsTo
  <2> QED BY <1>3, <2>1, ClearAlike DEF EmptyInv
<1>4. CASE EnterName
  <2>1. fs_pc = "entry" /\ fs_pc' \in {"dot", "reply"} /\ op' = op /\ UNCHANGED <<itab, smap>>
    BY <1>4 DEF EnterName, FsTo
  <2>2. /\ op.id \notin Linked /\ itab[op.id] = op.inode /\ op.dir \in Linked
        /\ \A s \in Span(op.inode) : Held(s) /\ data[s] = <<>>
        /\ \A i \in Linked : Span(itab[i]) \cap Span(op.inode) = {}
    BY <1>1, <2>1 DEF IInv, NewInv, Making, DirInv, LinkInv, EmptyInv
  <2>3. op.id # ROOT /\ op.id # op.dir
    BY <2>2 DEF Linked
  <2>4. Linked' \subseteq Linked \cup {op.id} /\ \A s \in Span(op.inode) : data'[s] = <<>>
    <3>1. CASE LinkedAlike
      BY <2>2, <3>1 DEF LinkedAlike, Held
    <3>2. CASE ~LinkedAlike
      <4>1. PICK m : m \notin Span(op.inode) /\ AppendsAt(m, NewEntry) /\ Linked' \subseteq Linked \cup {op.id}
        BY <1>4, <3>2, NameGoesIn
      <4> QED BY <2>2, <4>1 DEF AppendsAt, Held
    <3> QED BY <3>1, <3>2
  <2>5. \A s : Held(s)' = Held(s)
    BY <2>1 DEF Held
  <2> QED BY <2>1, <2>2, <2>3, <2>4, <2>5 DEF EmptyInv
<1>5. CASE EnterDot
  <2>1. PICK e \in Entry : /\ AddDirEntry(op.id, e) /\ IsDot(e) /\ itab' = itab /\ op' = op
                           /\ fs_pc = "dot" /\ fs_pc' = "dotdot" /\ e.name = DOT
    <3>1. fs_pc = "dot"
      BY <1>5 DEF EnterDot, FsTo
    <3> QED BY <1>5, <3>1, DotEntry
  <2>2. /\ Linked' = Linked
        /\ data' = data \/ \E m \in Span(op.inode) : Len(data[m]) < DirEntries /\ AppendsAt(m, e)
    BY <2>1, DotGoesIn
  <2>3. \A s : Held(s)' = Held(s)
    BY <1>5 DEF EnterDot, Held
  <2>4. Range(<<>>) = {} /\ \A s \in Span(op.inode) : s \in Sector /\ data[s] = <<>>
    BY <1>1, <2>1 DEF Range, EmptyInv, Held
  <2>5. \A s \in Span(op.inode) : \A x \in Range(data'[s]) : x.name = DOT
    <3>1. CASE data' = data
      BY <2>4, <3>1
    <3>2. ASSUME NEW m \in Span(op.inode), Len(data[m]) < DirEntries, AppendsAt(m, e)
          PROVE  \A s \in Span(op.inode) : \A x \in Range(data'[s]) : x.name = DOT
      <4>1. Range(data'[m]) = Range(data[m]) \cup {e}
        BY <3>2, Appended DEF DirInv
      <4> QED BY <2>1, <2>4, <3>2, <4>1 DEF AppendsAt
    <3> QED BY <2>2, <3>1, <3>2
  <2> QED BY <1>1, <2>1, <2>2, <2>3, <2>5 DEF EmptyInv
<1>6. CASE UNCHANGED <<disk, fs_pc, op>>
  <2>1. Linked' = Linked /\ \A s : Held(s)' = Held(s)
    BY <1>6, NamedSame DEF disk, Held
  <2> QED BY <1>1, <1>6, <2>1 DEF EmptyInv, disk
<1>7. ASSUME NEW t \in Tty, NEW n \in Name, NEW type \in Types, Make(t, type, n) PROVE EmptyInv'
  <2>1. UNCHANGED <<disk, fs_pc, op>> \/ fs_pc' = "new_inode"
    BY <1>7 DEF Make
  <2> QED BY <1>6, <2>1 DEF EmptyInv
<1>8. CASE (\E t \in Tty : Ls(t) \/ \E n \in Name \cup {DOT, DOTDOT} : Cd(t, n)) \/ UNCHANGED vars
  BY <1>6, <1>8 DEF Ls, Cd, vars, fsVars
<1> QED BY <1>2, <1>3, <1>4, <1>5, <1>7, <1>8 DEF Next, FsStep

LEMMA InitDirInv == ASSUME OneSector, NamesApart, Init PROVE DirInv
<1> DEFINE e == [id |-> ROOT, name |-> DOT, type |-> "folder"]
<1>1. e \in Entry /\ IsDot(e)
  BY Sizes DEF Entry, AnyName, Types, IsDot
<1>2. \A s \in Sector : data[s] = IF s = FirstData THEN <<e>> ELSE <<>>
  BY DEF Init, FsInit
<1>3. e.id = ROOT
  OBVIOUS
<1> HIDE DEF e
<1>4. Range(<<e>>) = {e} /\ Range(<<>>) = {}
  BY DEF Range
<1>5. DataOK
  <2>1. <<e>> \in Seq(Entry) /\ <<>> \in Seq(Entry) /\ Len(<<e>>) = 1 /\ Len(<<>>) = 0
    BY <1>1
  <2>2. \A s \in Sector : data[s] = <<e>> \/ data[s] = <<>>
    BY <1>2
  <2>3. 0 <= DirEntries /\ 1 <= DirEntries
    BY FsDirAssumption
  <2> QED BY <2>1, <2>2, <2>3 DEF DataOK
<1>6. Named = {} /\ Linked = {ROOT}
  BY <1>1, <1>2, <1>4 DEF Named, Linked, IsDot
<1>7. RestOK
  <2>1. tty \in [Tty -> LinkedTty]
    BY FreshTtyOK DEF Init
  <2>2. op.name \in AnyName /\ fs_pc = "idle" /\ DOMAIN stray = {}
    BY DEF Init, FsBoot, NoOp, AnyName
  <2> QED BY <2>1, <2>2, ShellFsAssumption DEF RestOK, Init
<1>8. LinkInv
  <2>1. op.dir = ROOT /\ fs_pc = "idle"
    BY DEF Init, FsBoot, NoOp
  <2>2. Entries(ROOT) \subseteq {e}
    <3>1. \A s \in Span(itab[ROOT]) : s \in Sector
      BY <1>6, InitIInv DEF IInv, NamedInv, Held
    <3> QED BY <1>2, <1>4, <3>1 DEF Entries
  <2>3. \A s \in Sector : \A x \in Range(data[s]) : IsDot(x)
    BY <1>1, <1>2, <1>4
  <2> QED BY <1>3, <1>6, <2>1, <2>2, <2>3 DEF LinkInv, Serving, Making
<1>9. EmptyInv
  BY DEF Init, FsBoot, EmptyInv
<1> QED BY <1>5, <1>7, <1>8, <1>9 DEF DirInv

LEMMA NextDirInv == ASSUME OneSector, NamesApart, IInv, DirInv, [Next]_vars PROVE DirInv'
  BY LinksStay, NextRestOK, NextLinkInv, NextEmptyInv DEF DirInv

LEMMA DirInvType == ASSUME OneSector, IInv, DirInv PROVE TypeOK
<1>1. op \in [type : Types, name : AnyName, dir : InodeId, id : InodeId, inode : Inode]
  <2>1. op.dir \in InodeId
    BY LinkedIds DEF IInv, DirInv, LinkInv
  <2>2. op.name \in AnyName /\ op.type \in Types /\ op.id \in InodeId /\ op.inode \in Inode
        /\ op = [type |-> op.type, name |-> op.name, dir |-> op.dir, id |-> op.id, inode |-> op.inode]
    BY DEF IInv, Shape, DirInv, RestOK
  <2> QED BY <2>1, <2>2
<1>2. data \in [Sector -> Seq(Entry)]
  BY DEF IInv, Shape, DirInv, DataOK
<1>3. FsTypeOK
  BY <1>1, <1>2 DEF FsTypeOK, DirInv, DataOK, RestOK, Serving, Making, IInv, Shape
<1>4. tty \in [Tty -> [flag : 0 .. 1, cwd : InodeId, path : Seq(Name), cut : BOOLEAN, cache : Seq(Entry)]]
  <2>1. Linked \subseteq InodeId
    BY LinkedIds DEF IInv
  <2>2. Seq({e \in Entry : e.id \in Linked}) \subseteq Seq(Entry)
    OBVIOUS
  <2>3. LinkedTty \subseteq [flag : 0 .. 1, cwd : InodeId, path : Seq(Name), cut : BOOLEAN, cache : Seq(Entry)]
    BY <2>1, <2>2 DEF LinkedTty
  <2> QED BY <2>3 DEF DirInv, RestOK
<1> QED BY <1>3, <1>4 DEF TypeOK, DirInv, RestOK

LEMMA EntriesGrow == ASSUME OneSector, IInv, DirInv, [Next]_vars PROVE \A i \in Linked : Entries(i) \subseteq Entries(i)'
<1>1. CASE LinkedAlike
  BY <1>1, AlikeSame DEF DirInv
<1>2. ASSUME NEW m, NEW e \in Entry, Len(data[m]) < DirEntries, AppendsAt(m, e)
      PROVE  \A i \in Linked : Entries(i) \subseteq Entries(i)'
  BY <1>2, Appended, LinkedSpans DEF DirInv
<1>3. CASE EnterName
  BY <1>1, <1>2, <1>3, NameGoesIn
<1>4. CASE EnterDot \/ EnterDotDot
  <2>1. PICK e \in Entry : AddDirEntry(op.id, e) /\ IsDot(e) /\ itab' = itab /\ fs_pc \in {"dot", "dotdot"}
    BY <1>4, DotEntry
  <2>2. CASE data' = data
    BY <2>1, <2>2 DEF Entries
  <2>3. CASE \E m \in Span(op.inode) : Len(data[m]) < DirEntries /\ AppendsAt(m, e)
    BY <1>2, <2>3
  <2> QED BY <2>1, <2>2, <2>3, DotGoesIn
<1> QED BY <1>1, <1>3, <1>4, StepKinds

\* Who writes acked, and the position behind the entry of the name.
LEMMA NextKeptInv == ASSUME OneSector, PlaceLeft, IInv, DirInv, KeptInv, [Next]_vars PROVE KeptInv'
<1> DEFINE There(i, n, t) == \E e \in Entries(i) : e.name = n /\ e.type = t
<1>1. Linked \subseteq Linked' /\ op.dir \in Linked
  BY LinksStay DEF DirInv, LinkInv
<1>2. \A i \in Linked : \A n, t : There(i, n, t) => There(i, n, t)'
  BY EntriesGrow
<1>3. /\ \A a \in acked : a.dir \in Linked /\ There(a.dir, a.name, a.type)
      /\ fs_pc \in {"dot", "dotdot", "reply"} => There(op.dir, op.name, op.type)
  BY DEF KeptInv
<1> SUFFICES /\ \A a \in acked' : a.dir \in Linked' /\ There(a.dir, a.name, a.type)'
             /\ fs_pc' \in {"dot", "dotdot", "reply"} => There(op.dir, op.name, op.type)'
  BY DEF KeptInv
<1>4. CASE EnterName
  <2>1. \E s \in Extent(op.dir) : Len(data[s]) < DirEntries
    BY <1>4 DEF PlaceLeft, EnterName, FsTo
  <2>2. PICK m \in Span(itab[op.dir]) : Len(data[m]) < DirEntries /\ AppendsAt(m, NewEntry)
    BY <1>4, <2>1, NameGoesIn
  <2>3. Entries(op.dir)' = Entries(op.dir) \cup {NewEntry}
    <3>1. NewEntry \in Entry /\ DataOK /\ Span(itab[op.dir]) \subseteq Sector
      BY <1>1, <1>4, NameGoesIn, LinkedSpans DEF DirInv
    <3>2. op' = op
      BY <1>4 DEF EnterName
    <3> HIDE DEF NewEntry
    <3>3. \A id : Span(itab[id]) \subseteq Sector =>
            Entries(id)' = IF m \in Span(itab[id]) THEN Entries(id) \cup {NewEntry} ELSE Entries(id)
      BY <2>2, <3>1, Appended
    <3> QED BY <3>1, <3>2, <3>3
  <2>4. NewEntry.name = op.name /\ NewEntry.type = op.type
    BY DEF NewEntry
  <2>5. There(op.dir, op.name, op.type)'
    BY <1>4, <2>3, <2>4 DEF EnterName
  <2>6. acked' = acked
    BY <1>4 DEF Next, Ls, Cd, Make, Answered, PowerFails, EnterName, FsTo, vars
  <2> QED BY <1>1, <1>2, <1>3, <2>5, <2>6
<1> HIDE DEF There
<1>5. CASE Answered
  BY <1>1, <1>2, <1>3, <1>5 DEF Answered, FsTo
<1>6. CASE (EnterDot \/ EnterDotDot) /\ acked' = acked
  BY <1>1, <1>2, <1>3, <1>6 DEF EnterDot, EnterDotDot, FsTo
<1>7. CASE /\ acked' = acked
           /\ fs_pc' \in {"idle"} \cup Serving \/ UNCHANGED <<fs_pc, op>>
  BY <1>1, <1>2, <1>3, <1>7 DEF Serving, Making
<1>8. CASE FsStep /\ acked' = acked
  BY <1>4, <1>6, <1>7, <1>8 DEF FsStep, NewInode, InodeAllocSector, WriteInode, ClearSector, FsTo, Serving, Making
<1>9. CASE (\E t \in Tty : Ls(t) \/ \E n \in Name \cup {DOT, DOTDOT} : Cd(t, n)) \/ UNCHANGED vars
  BY <1>7, <1>9 DEF Ls, Cd, vars, fsVars
<1>10. CASE \E t \in Tty : \E n \in Name, type \in Types : Make(t, type, n)
  BY <1>7, <1>10 DEF Make, Serving
<1>11. CASE PowerFails
  BY <1>7, <1>11 DEF PowerFails
<1> QED BY <1>5, <1>8, <1>9, <1>10, <1>11 DEF Next

--------------------------------------------------------------------------------
(* Directories grow at their end                                            *)

LEMMA JoinsOn == ASSUME NEW a \in Seq(Entry), NEW b \in Seq(Entry), NEW e \in Entry
                 PROVE  a \o Append(b, e) = Append(a \o b, e) /\ a \o <<>> = a
  OBVIOUS

\* A directory none of whose sectors changes.
LEMMA DirSame ==
  ASSUME OneSector, NEW i, Readable(i), itab'[i] = itab[i], \A s \in Span(itab[i]) : data'[s] = data[s]
  PROVE  DirOf(i)' = DirOf(i) /\ (Ordered(i) => Ordered(i)')
<1>1. i \in InodeId /\ InodeSector(i) = 0 /\ Slot(i) = i /\ i >= 0 /\ 0 * PerSector + i = i
  BY FirstSlot, FsDirAssumption, Sizes DEF Readable
<1>2. FindInode(i) = itab[i] /\ FindInode(i)' = itab[i]
  BY <1>1 DEF FindInode
<1> DEFINE n == itab[i].num
           q == [k \in 1 .. n |-> data[itab[i].start + k - 1]]
           r == [k \in 1 .. n |-> data'[itab[i].start + k - 1]]
<1>3. q = r
  <2>1. itab[i].start \in Nat /\ n \in Nat
    BY Sizes DEF Inode, Readable
  <2>2. \A k \in 1 .. n : itab[i].start + k - 1 \in Span(itab[i])
    BY <2>1 DEF Span
  <2> QED BY <2>2
<1>4. DirOf(i) = IF n = 0 THEN <<>> ELSE FlattenSeq(q)
  BY <1>2 DEF DirOf
<1>5. DirOf(i)' = IF n = 0 THEN <<>> ELSE FlattenSeq(r)
  BY <1>2 DEF DirOf
<1> HIDE DEF q, r
<1> QED BY <1>3, <1>4, <1>5 DEF Ordered

\* What is read after a step that changes no inode.
LEMMA DirNext ==
  ASSUME OneSector, NEW id, Readable(id), itab' = itab, DataOK', NEW i, i = itab[id]
  PROVE  DirOf(id)' = IF i.num = 0 THEN <<>>
                      ELSE IF i.num = 1 THEN data'[i.start] ELSE data'[i.start] \o data'[i.start + 1]
<1>1. id \in InodeId /\ InodeSector(id) = 0 /\ Slot(id) = id /\ id >= 0 /\ 0 * PerSector + id = id
  BY FirstSlot, FsDirAssumption, Sizes DEF Readable
<1>2. FindInode(id)' = i /\ i.num \in 0 .. 2 /\ i.start \in Nat
  BY <1>1, Sizes DEF FindInode, Readable, Inode
<1> DEFINE q == [k \in 1 .. i.num |-> data'[i.start + k - 1]]
<1>3. CASE i.num = 0
  BY <1>2, <1>3 DEF DirOf
<1>4. CASE i.num # 0
  <2>1. DirOf(id)' = FlattenSeq(q)
    BY <1>2, <1>4 DEF DirOf
  <2>2. q \in Seq(Seq(Entry)) /\ Len(q) = i.num
    <3>1. \A k \in 1 .. i.num : i.start + k - 1 \in Span(i)
      BY <1>2 DEF Span
    <3>2. \A k \in 1 .. i.num : data'[i.start + k - 1] \in Seq(Entry)
      BY <3>1 DEF Readable, DataOK
    <3> QED BY <1>2, <3>2
  <2>3. q[1] = data'[i.start]
    BY <1>2, <1>4
  <2>4. i.num = 2 => q[2] = data'[i.start + 1]
    BY <1>2
  <2> HIDE DEF q
  <2>5. FlattenSeq(q) = IF Len(q) = 1 THEN q[1] ELSE q[1] \o q[2]
    <3>1. Len(q) \in 1 .. 2
      BY <1>2, <1>4, <2>2
    <3> QED BY <3>1, Flat2
  <2> QED BY <1>2, <1>4, <2>1, <2>2, <2>3, <2>4, <2>5
<1> QED BY <1>3, <1>4

\* An entry in the first place there is goes behind all others.
LEMMA DirAppended ==
  ASSUME OneSector, DataOK, NEW id, Readable(id), Ordered(id), NEW m \in Span(itab[id]), FirstRoom(id, m),
         NEW e \in Entry, AppendsAt(m, e)
  PROVE  DirOf(id)' = Append(DirOf(id), e) /\ Ordered(id)'
<1> DEFINE i == itab[id]
<1>1. Len(data[m]) < DirEntries /\ itab' = itab
  BY DEF FirstRoom, AppendsAt
<1>2. DataOK' /\ Len(data[m]) \in Nat
  BY <1>1, Appended
<1>3. i \in Inode /\ i.num \in 0 .. 2 /\ i.start \in Nat /\ DirOf(id) = Joined(i)
  BY DirOfIs, Sizes DEF Readable, Inode
<1>4. DirOf(id)' = IF i.num = 0 THEN <<>>
                   ELSE IF i.num = 1 THEN data'[i.start] ELSE data'[i.start] \o data'[i.start + 1]
  BY <1>1, <1>2, DirNext
<1>5. \A s \in Span(i) : s \in Sector /\ data[s] \in Seq(Entry) /\ Len(data[s]) <= DirEntries /\ Len(data[s]) \in Nat
  BY DEF Readable, DataOK
<1>6. data'[m] = Append(data[m], e) /\ \A s \in Span(i) : s # m => data'[s] = data[s]
  BY <1>5 DEF AppendsAt
<1>7. CASE i.num = 0
  BY <1>3, <1>7, SpanIs
<1>8. CASE i.num = 1
  <2>1. Span(i) = {i.start} /\ m = i.start
    BY <1>3, <1>8, SpanIs
  <2> QED BY <1>1, <1>3, <1>4, <1>6, <1>8, <2>1 DEF Joined, Ordered
<1>9. CASE i.num = 2
  <2> DEFINE a == data[i.start]
             b == data[i.start + 1]
  <2>1. Span(i) = {i.start, i.start + 1} /\ m \in {i.start, i.start + 1} /\ i.start < i.start + 1
    BY <1>3, <1>9, SpanIs
  <2>2. a \in Seq(Entry) /\ b \in Seq(Entry) /\ DirOf(id) = a \o b
    BY <1>3, <1>5, <1>9, <2>1 DEF Joined
  <2>3. DirOf(id)' = data'[i.start] \o data'[i.start + 1]
    BY <1>4, <1>9
  <2>4. CASE m = i.start
    <3>1. b = <<>>
      <4>1. b # <<>> => Len(a) = DirEntries
        BY <2>1 DEF Ordered
      <4>2. Len(a) < DirEntries /\ Len(a) \in Nat /\ DirEntries \in Nat
        BY <1>1, <1>2, <2>4, FsDirAssumption
      <4> HIDE DEF a, b
      <4> QED BY <4>1, <4>2
    <3>2. data'[i.start] = Append(a, e) /\ data'[i.start + 1] = b
      BY <1>3, <1>6, <2>1, <2>4
    <3>3. Append(a, e) \in Seq(Entry)
      BY <2>2
    <3> HIDE DEF a, b, i
    <3>4. DirOf(id)' = Append(a, e) /\ DirOf(id) = a
      BY <2>2, <2>3, <3>1, <3>2, <3>3, JoinsOn
    <3>5. Ordered(id)'
      <4>1. \A r, s \in Span(i) : r < s => s = i.start + 1
        BY <1>3, <2>1
      <4> QED BY <1>1, <3>1, <3>2, <4>1 DEF Ordered, i
    <3> QED BY <3>4, <3>5
  <2>5. CASE m = i.start + 1
    <3>1. Len(a) = DirEntries
      BY <1>5, <2>1, <2>5, FsDirAssumption DEF FirstRoom
    <3>2. data'[i.start] = a /\ data'[i.start + 1] = Append(b, e)
      BY <1>6, <2>1, <2>5
    <3> HIDE DEF a, b, i
    <3>3. DirOf(id)' = Append(DirOf(id), e)
      BY <2>2, <2>3, <3>2, JoinsOn
    <3>4. Ordered(id)'
      <4>1. \A r, s \in Span(i) : r < s => r = i.start
        BY <1>3, <2>1
      <4> QED BY <1>1, <3>1, <3>2, <4>1 DEF Ordered, i
    <3> QED BY <3>3, <3>4
  <2> QED BY <2>1, <2>4, <2>5
<1> QED BY <1>3, <1>7, <1>8, <1>9

\* Positions at which new directories get their two entries are left by those steps only.
LEMMA DotsStay ==
  ASSUME [Next]_vars, ~EnterName, ~EnterDot, ~EnterDotDot, fs_pc' \in {"dot", "dotdot"}
  PROVE  UNCHANGED <<fs_pc, op, itab, data, tty>>
  BY DEF Next, Ls, Cd, Make, FsStep, NewInode, InodeAllocSector, WriteInode, ClearSector, Answered, PowerFails,
         FsTo, vars, fsVars, disk, Prompt

\* The directories that grow, and how.
Grows(i) == (EnterName /\ i = op.dir) \/ ((EnterDot \/ EnterDotDot) /\ i = op.id)

LEMMA DirSteps ==
  ASSUME OneSector, IInv, DirInv, OrderInv, [Next]_vars
  PROVE  /\ OrderInv'
         /\ \A i \in Linked : \/ DirOf(i)' = DirOf(i)
                              \/ Grows(i) /\ \E e \in Entry : DirOf(i)' = Append(DirOf(i), e)
<1>1. \A i \in Linked : Readable(i)
  BY LinkedSpans DEF DirInv
<1>2. CASE LinkedAlike
  <2>1. \A i \in Linked : DirOf(i)' = DirOf(i) /\ Ordered(i)'
    BY <1>1, <1>2, DirSame DEF LinkedAlike, OrderInv
  <2>2. Linked' = Linked
    BY <1>2 DEF LinkedAlike
  <2>3. CASE ~EnterName /\ ~EnterDot /\ ~EnterDotDot
    <3>1. fs_pc' \in {"dot", "dotdot"} => Ordered(op.id)'
      BY <2>3, DotsStay DEF OrderInv, Ordered
    <3> QED BY <2>1, <2>2, <3>1 DEF OrderInv
  <2>4. CASE EnterName
    <3>1. fs_pc' \in {"dot", "dotdot"} => Ordered(op.id)'
      <4>1. EmptyInv' /\ fs_pc' \notin {"dotdot"} /\ op' = op
        BY <2>4, NextEmptyInv DEF EnterName, FsTo
      <4> QED BY <4>1 DEF EmptyInv, Ordered
    <3> QED BY <2>1, <2>2, <3>1 DEF OrderInv
  <2>5. CASE EnterDot \/ EnterDotDot
    <3>1. PICK e \in Entry : /\ AddDirEntry(op.id, e) /\ IsDot(e) /\ itab' = itab /\ op' = op /\ fs_pc \in {"dot", "dotdot"}
      BY <2>5, DotEntry
    <3>2. /\ op.id \in InodeId /\ itab[op.id] = op.inode
          /\ data' = data \/ \E m \in Span(op.inode) : FirstRoom(op.id, m) /\ AppendsAt(m, e)
      BY <3>1, DotGoesIn
    <3>3. Readable(op.id) /\ Ordered(op.id)
      BY <3>1, <3>2 DEF Readable, OrderInv, DirInv, DataOK, EmptyInv, Held, IInv, Shape
    <3>4. CASE data' = data
      BY <2>1, <2>2, <3>1, <3>3, <3>4 DEF OrderInv, Ordered
    <3>5. CASE \E m \in Span(op.inode) : FirstRoom(op.id, m) /\ AppendsAt(m, e)
      <4>1. Ordered(op.id)'
        BY <3>1, <3>2, <3>3, <3>5, DirAppended DEF DirInv
      <4> QED BY <2>1, <2>2, <3>1, <4>1 DEF OrderInv
    <3> QED BY <3>2, <3>4, <3>5
  <2> QED BY <2>1, <2>3, <2>4, <2>5
<1>3. CASE EnterName /\ ~LinkedAlike
  <2>1. PICK m \in Span(itab[op.dir]) :
                 /\ FirstRoom(op.dir, m) /\ AppendsAt(m, NewEntry)
                 /\ Linked' \subseteq Linked \cup {op.id} /\ m \notin Span(op.inode)
                 /\ \A i \in Linked \ {op.dir} : m \notin Span(itab[i])
    BY <1>3, NameGoesIn
  <2>2. NewEntry \in Entry /\ op.dir \in Linked /\ op' = op /\ itab' = itab
    BY <1>3, NameGoesIn DEF DirInv, LinkInv, EnterName
  <2>3. /\ fs_pc = "entry" /\ itab[op.id] = op.inode /\ \A s \in Span(op.inode) : s \in Sector /\ data[s] = <<>>
    BY <1>3 DEF EnterName, FsTo, IInv, NewInv, Making, DirInv, EmptyInv, Held
  <2>4. Ordered(op.id)'
    <3>1. \A s \in Span(op.inode) : data'[s] = <<>>
      BY <2>1, <2>3 DEF AppendsAt
    <3> QED BY <2>2, <2>3, <3>1 DEF Ordered
  <2> HIDE DEF NewEntry
  <2>5. DirOf(op.dir)' = Append(DirOf(op.dir), NewEntry) /\ Ordered(op.dir)'
    <3>1. \A i : i = op.dir => DirOf(i)' = Append(DirOf(i), NewEntry) /\ Ordered(i)'
      BY <1>1, <2>1, <2>2, DirAppended DEF DirInv, OrderInv
    <3> QED BY <2>2, <3>1 DEF Ordered
  <2>6. \A i \in Linked \ {op.dir} : DirOf(i)' = DirOf(i) /\ Ordered(i)'
    <3>1. ASSUME NEW i \in Linked \ {op.dir} PROVE DirOf(i)' = DirOf(i) /\ Ordered(i)'
      <4>1. \A s \in Span(itab[i]) : s \in Sector \ {m}
        BY <1>1, <2>1 DEF Readable
      <4>2. itab'[i] = itab[i] /\ \A s \in Span(itab[i]) : data'[s] = data[s]
        BY <2>1, <2>2, <4>1 DEF AppendsAt
      <4> QED BY <1>1, <4>2, DirSame DEF OrderInv
    <3> QED BY <3>1
  <2>7. \A i \in Linked : DirOf(i)' = DirOf(i) \/ (Grows(i) /\ DirOf(i)' = Append(DirOf(i), NewEntry))
    <3> SUFFICES ASSUME NEW i \in Linked PROVE DirOf(i)' = DirOf(i) \/ (Grows(i) /\ DirOf(i)' = Append(DirOf(i), NewEntry))
      OBVIOUS
    <3>1. CASE i = op.dir
      <4>1. DirOf(i)' = Append(DirOf(i), NewEntry)
        BY <1>1, <2>1, <2>2, <3>1, DirAppended DEF DirInv, OrderInv
      <4> QED BY <1>3, <3>1, <4>1 DEF Grows
    <3>2. CASE i # op.dir
      BY <2>6, <3>2
    <3> QED BY <3>1, <3>2
  <2>8. \A i \in Linked' : Ordered(i)'
    <3>1. \A i : i = op.dir => Ordered(i)'
      BY <1>1, <2>1, <2>2, DirAppended DEF DirInv, OrderInv
    <3>2. \A i : i = op.id => Ordered(i)'
      BY <2>2, <2>4 DEF Ordered
    <3> QED BY <2>1, <2>6, <3>1, <3>2
  <2>9. Ordered(op.id)' /\ \A i : i = op.id => Ordered(i)'
    BY <2>2, <2>4 DEF Ordered
  <2> QED BY <2>2, <2>7, <2>8, <2>9 DEF OrderInv
<1>4. CASE (EnterDot \/ EnterDotDot) /\ ~LinkedAlike
  <2>1. PICK e \in Entry : /\ AddDirEntry(op.id, e) /\ IsDot(e) /\ itab' = itab /\ op' = op /\ fs_pc \in {"dot", "dotdot"}
    BY <1>4, DotEntry
  <2>2. /\ Linked' = Linked /\ op.id \in InodeId /\ itab[op.id] = op.inode
        /\ \/ data' = data
           \/ \E m \in Span(op.inode) : /\ FirstRoom(op.id, m) /\ AppendsAt(m, e)
                                        /\ \A i \in Linked \ {op.id} : m \notin Span(itab[i])
    BY <2>1, DotGoesIn
  <2>3. Readable(op.id) /\ Ordered(op.id)
    BY <2>1, <2>2 DEF Readable, OrderInv, DirInv, DataOK, EmptyInv, Held, IInv, Shape
  <2>4. CASE data' = data
    BY <1>2, <1>4, <2>1, <2>2, <2>4 DEF LinkedAlike
  <2>5. ASSUME NEW m \in Span(op.inode), FirstRoom(op.id, m), AppendsAt(m, e),
               \A i \in Linked \ {op.id} : m \notin Span(itab[i])
        PROVE  /\ OrderInv'
               /\ \A i \in Linked : \/ DirOf(i)' = DirOf(i)
                                    \/ Grows(i) /\ DirOf(i)' = Append(DirOf(i), e)
    <3>1. \A i : i = op.id => DirOf(i)' = Append(DirOf(i), e) /\ Ordered(i)'
      BY <2>2, <2>3, <2>5, DirAppended DEF DirInv
    <3>2. ASSUME NEW i \in Linked \ {op.id} PROVE DirOf(i)' = DirOf(i) /\ Ordered(i)'
      <4>1. \A s \in Span(itab[i]) : s \in Sector \ {m}
        BY <1>1, <2>5 DEF Readable
      <4>2. itab'[i] = itab[i] /\ \A s \in Span(itab[i]) : data'[s] = data[s]
        BY <2>1, <2>5, <4>1 DEF AppendsAt
      <4> QED BY <1>1, <4>2, DirSame DEF OrderInv
    <3>3. Ordered(op.id)'
      BY <2>1, <3>1 DEF Ordered
    <3>4. OrderInv'
      BY <2>1, <2>2, <3>1, <3>2, <3>3 DEF OrderInv
    <3> QED BY <1>4, <3>1, <3>2, <3>4 DEF Grows
  <2> QED BY <2>2, <2>4, <2>5
<1> QED BY <1>2, <1>3, <1>4, StepKinds


--------------------------------------------------------------------------------
(* Caches                                                                  *)

LEMMA BeginsOn ==
  ASSUME NEW s \in Seq(Entry), NEW d \in Seq(Entry), Begins(s, d), NEW e \in Entry
  PROVE  Begins(s, Append(d, e))
<1>1. /\ Len(s) \in Nat /\ Len(d) \in Nat /\ DOMAIN s = 1 .. Len(s) /\ Len(Append(d, e)) = Len(d) + 1
      /\ \A k \in 1 .. Len(d) : Append(d, e)[k] = d[k]
  OBVIOUS
<1> QED BY <1>1 DEF Begins

\* What is found in the beginning of a directory is found in the directory.
LEMMA BeginsHits ==
  ASSUME NEW s \in Seq(Entry), NEW d \in Seq(Entry), Begins(s, d), NEW n, NEW x, FirstIs(s, n, x)
  PROVE  FirstIs(d, n, x)
<1>1. PICK j \in Hits(s, n) : s[j].id = x
  BY DEF FirstIs
<1>2. /\ Len(s) \in Nat /\ Len(d) \in Nat /\ DOMAIN s = 1 .. Len(s) /\ DOMAIN d = 1 .. Len(d)
      /\ Len(s) <= Len(d) /\ \A k \in 1 .. Len(s) : s[k] = d[k]
  BY DEF Begins
<1>3. j \in 1 .. Len(s) /\ s[j].name = n /\ \A k \in 1 .. j - 1 : s[k].name # n
  BY <1>1, <1>2 DEF Hits
<1>4. j \in 1 .. Len(d) /\ d[j] = s[j] /\ \A k \in 1 .. j - 1 : d[k] = s[k]
  BY <1>2, <1>3
<1>5. j \in Hits(d, n)
  BY <1>2, <1>3, <1>4 DEF Hits
<1> QED BY <1>1, <1>4, <1>5 DEF FirstIs

\* A directory is the beginning of what it becomes.
LEMMA DirBegins ==
  ASSUME OneSector, IInv, DirInv, OrderInv, [Next]_vars, NEW i \in Linked
  PROVE  /\ DirOf(i) \in Seq(Entry) /\ DirOf(i)' \in Seq(Entry) /\ Begins(DirOf(i), DirOf(i)')
         /\ \A s \in Seq(Entry) : Begins(s, DirOf(i)) => Begins(s, DirOf(i)')
<1>1. DirOf(i) \in Seq(Entry)
  BY LinkedSpans, DirLists DEF DirInv
<1>2. Begins(DirOf(i), DirOf(i))
  BY <1>1 DEF Begins
<1>3. CASE DirOf(i)' = DirOf(i)
  BY <1>1, <1>2, <1>3
<1>4. CASE \E e \in Entry : DirOf(i)' = Append(DirOf(i), e)
  <2>1. PICK e \in Entry : DirOf(i)' = Append(DirOf(i), e)
    BY <1>4
  <2> DEFINE d == DirOf(i)
  <2>2. d \in Seq(Entry) /\ DirOf(i)' = Append(d, e) /\ Begins(d, d)
    BY <1>1, <1>2, <2>1
  <2> HIDE DEF d
  <2>3. Append(d, e) \in Seq(Entry) /\ \A s \in Seq(Entry) : Begins(s, d) => Begins(s, Append(d, e))
    BY <2>2, BeginsOn
  <2> QED BY <2>2, <2>3 DEF d
<1> QED BY <1>3, <1>4, DirSteps

\* What steps do to the terminals: a cache not marked stale is the one there was, or the
\* refreshed one.
LEMMA TtySteps ==
  ASSUME OneSector, IInv, DirInv, [Next]_vars
  PROVE  \A t \in Tty : tty'[t].flag = 0 =>
           \/ tty'[t] = tty[t]
           \/ tty'[t] = Refreshed(t) /\ LinkedAlike /\ fs_pc = "idle"
<1>1. \A t \in Tty : tty[t] \in LinkedTty /\ Refreshed(t) \in LinkedTty
  BY RefreshedIs DEF DirInv, RestOK
<1>2. ASSUME NEW t \in Tty, \/ Ls(t) \/ \E n \in Name \cup {DOT, DOTDOT} : Cd(t, n)
                            \/ \E n \in Name, type \in Types : Make(t, type, n)
      PROVE  /\ LinkedAlike /\ fs_pc = "idle"
             /\ \E tt : tty' = [tty EXCEPT ![t] = tt] /\ (tt = Refreshed(t) \/ tt.flag = 1)
  <2>1. LinkedAlike /\ fs_pc = "idle"
    <3>1. UNCHANGED disk /\ Prompt(t)
      BY <1>2 DEF Ls, Cd, Make, fsVars
    <3> QED BY <3>1, StillAlike DEF Prompt
  <2>2. CASE Ls(t) \/ \E n \in Name, type \in Types : Make(t, type, n)
    BY <2>1, <2>2 DEF Ls, Make
  <2>3. ASSUME NEW n \in Name \cup {DOT, DOTDOT}, Cd(t, n)
        PROVE  \E tt : tty' = [tty EXCEPT ![t] = tt] /\ (tt = Refreshed(t) \/ tt.flag = 1)
    <3> DEFINE r == Refreshed(t)
    <3>1. CASE tty' = [tty EXCEPT ![t] = r]
      BY <3>1
    <3>2. ASSUME NEW e \in Range(r.cache), e.name = n, tty' = [tty EXCEPT ![t] = Entered(r, e)]
          PROVE  \E tt : tty' = [tty EXCEPT ![t] = tt] /\ (tt = r \/ tt.flag = 1)
      <4> r \in LinkedTty
        BY <1>1
      <4> HIDE DEF r
      <4>0. r.cache \in Seq({x \in Entry : x.id \in Linked})
        BY DEF LinkedTty
      <4>1. e \in Entry
        BY <4>0 DEF Range
      <4>2. Entered(r, e) = r \/ Entered(r, e).flag = 1
        BY <3>2, <4>1, EnteredIs
      <4> QED BY <3>2, <4>2
    <3> QED BY <2>3, <3>1, <3>2, CdLeads
  <2> QED BY <1>2, <2>1, <2>2, <2>3
<1>3. CASE \E t \in Tty : \/ Ls(t) \/ \E n \in Name \cup {DOT, DOTDOT} : Cd(t, n)
                          \/ \E n \in Name, type \in Types : Make(t, type, n)
  BY <1>2, <1>3 DEF DirInv, RestOK
<1>4. CASE UNCHANGED tty
  BY <1>4
<1>5. CASE Answered
  BY <1>1, <1>5 DEF Answered, DirInv, RestOK, LinkedTty
<1>6. CASE PowerFails
  BY <1>6 DEF PowerFails, FreshTty
<1> QED BY <1>3, <1>4, <1>5, <1>6 DEF Next, vars

LEMMA NextBeginInv == ASSUME OneSector, IInv, DirInv, OrderInv, BeginInv, [Next]_vars PROVE BeginInv'
<1> SUFFICES ASSUME NEW t \in Tty, tty'[t].flag = 0 PROVE Begins(tty'[t].cache, DirOf(tty[t].cwd)')
  BY DEF BeginInv, Begins
<1>1. PICK c \in Linked : c = tty[t].cwd
  BY DEF DirInv, RestOK, LinkedTty
<1> DEFINE known == IF tty[t].flag = 0 THEN tty[t].cache ELSE DirOf(c)
<1>2. tty'[t].cwd = c /\ tty'[t].cache = known
  BY <1>1, TtySteps, RefreshedIs
<1>3. Begins(known, DirOf(c)')
  <2>1. tty[t].cache \in Seq(Entry)
    <3>1. tty[t].cache \in Seq({e \in Entry : e.id \in Linked})
      BY DEF DirInv, RestOK, LinkedTty
    <3> QED BY <3>1
  <2>2. tty[t].flag = 0 => Begins(tty[t].cache, DirOf(c))
    BY <1>1 DEF BeginInv
  <2> QED BY <2>1, <2>2, DirBegins
<1> HIDE DEF known
<1>4. \A i \in Linked : i = tty'[t].cwd => Begins(tty'[t].cache, DirOf(i)')
  BY <1>2, <1>3
<1> QED BY <1>2, <1>4

LEMMA MakersGrow == ASSUME OneSector, IInv, DirInv, [Next]_vars PROVE \A i \in InodeId : makers[i] \subseteq makers'[i]
<1>1. ASSUME NEW t \in Tty, NEW n \in Name, NEW type \in Types, Make(t, type, n)
      PROVE  \A i \in InodeId : makers[i] \subseteq makers'[i]
  BY <1>1 DEF Make, DirInv, RestOK
<1> QED BY <1>1 DEF Next, Ls, Cd, Answered, PowerFails, vars

LEMMA NextAskInv == ASSUME OneSector, IInv, DirInv, AskInv, [Next]_vars PROVE AskInv'
<1>1. \A t \in Tty : tty[t].cwd \in Linked /\ tty[t].cwd \in InodeId
  BY LinkedIds DEF DirInv, RestOK, LinkedTty, IInv
<1>2. ASSUME NEW t \in Tty, NEW n \in Name, NEW type \in Types, Make(t, type, n) PROVE AskInv'
  <2>1. CASE UNCHANGED fs_pc
    BY <1>2, <2>1 DEF Make, Prompt, AskInv
  <2>2. CASE ~UNCHANGED fs_pc
    <3>1. /\ fs_pc' = "new_inode" /\ asking' = t /\ op'.dir = tty[t].cwd
          /\ makers' = [makers EXCEPT ![tty[t].cwd] = makers[tty[t].cwd] \cup {t}]
      BY <1>2, <2>2 DEF Make, NoOp
    <3>2. t \in makers'[tty[t].cwd]
      BY <1>1, <3>1 DEF DirInv, RestOK
    <3> QED BY <3>1, <3>2 DEF AskInv
  <2> QED BY <2>1, <2>2
<1>3. CASE FsStep /\ UNCHANGED <<tty, asking, acked, makers, outgrown, made, crashes>>
  <2>1. fs_pc # "idle" /\ op'.dir = op.dir
    BY <1>3 DEF FsStep, NewInode, InodeAllocSector, WriteInode, ClearSector, EnterName, EnterDot, EnterDotDot,
                FsTo, IInv, Shape
  <2>2. CASE fs_pc' \in {"dot", "dotdot"}
    <3>1. op' = op /\ (fs_pc = "entry" \/ fs_pc = "dot")
      BY <1>3, <2>2 DEF FsStep, NewInode, InodeAllocSector, WriteInode, ClearSector, EnterName, EnterDot, EnterDotDot, FsTo
    <3>2. fs_pc = "entry" => op.id \notin Linked
      BY DEF IInv, NewInv, Making
    <3> QED BY <1>1, <1>3, <2>1, <3>1, <3>2 DEF AskInv
  <2>3. CASE fs_pc' \notin {"dot", "dotdot"}
    BY <1>3, <2>1, <2>3 DEF AskInv
  <2> QED BY <2>2, <2>3
<1>4. CASE \E t \in Tty : Ls(t) \/ \E n \in Name \cup {DOT, DOTDOT} : Cd(t, n)
  <2>1. fs_pc = "idle" /\ fs_pc' = fs_pc
    BY <1>4 DEF Ls, Cd, Prompt, fsVars
  <2> QED BY <2>1 DEF AskInv
<1>5. CASE Answered \/ PowerFails
  <2>1. fs_pc' = "idle"
    BY <1>5 DEF Answered, PowerFails, FsTo
  <2> QED BY <2>1 DEF AskInv
<1>6. CASE UNCHANGED vars
  BY <1>6 DEF AskInv, vars, fsVars
<1> QED BY <1>2, <1>3, <1>4, <1>5, <1>6 DEF Next

LEMMA NextCacheInv ==
  ASSUME OneSector, IInv, DirInv, OrderInv, CacheInv, AskInv, [Next]_vars
  PROVE  CacheInv'
<1> SUFFICES ASSUME NEW t \in Tty, tty'[t].flag = 0, makers'[tty'[t].cwd] \subseteq {t},
                    t = asking' => fs_pc' \in {"idle"} \cup Serving
             PROVE  tty'[t].cache = DirOf(tty[t].cwd)'
  BY DEF CacheInv, Alone, Serving, Making
<1>1. PICK c \in Linked : c = tty[t].cwd
  BY DEF DirInv, RestOK, LinkedTty
<1>2. /\ tty'[t].cwd = c
      /\ tty'[t].cache = IF tty[t].flag = 0 THEN tty[t].cache ELSE DirOf(c)
  BY <1>1, TtySteps, RefreshedIs
<1>3. makers[c] \subseteq {t}
  BY <1>2, MakersGrow, LinkedIds DEF IInv
<1>4. tty[t].flag \in 0 .. 1 /\ (tty[t].flag = 1 => LinkedAlike)
  <2>1. tty[t].flag \in 0 .. 1
    BY DEF DirInv, RestOK, LinkedTty
  <2>2. tty'[t] = tty[t] \/ LinkedAlike
    BY TtySteps
  <2> QED BY <2>1, <2>2
<1>5. LinkedAlike => DirOf(c)' = DirOf(c)
  BY AlikeSame DEF DirInv
<1>6. CASE (t = asking => fs_pc \in {"idle"} \cup Serving) /\ DirOf(c)' = DirOf(c)
  <2>1. tty'[t].cache = DirOf(c)
    BY <1>1, <1>2, <1>3, <1>4, <1>6 DEF CacheInv, Alone
  <2>2. \A i \in Linked : i = tty'[t].cwd => DirOf(i)' = tty'[t].cache
    BY <1>2, <1>6, <2>1
  <2> QED BY <1>2, <2>2
<1>7. (t = asking => fs_pc \in {"idle"} \cup Serving) /\ DirOf(c)' = DirOf(c)
  <2>1. CASE fs_pc = "idle"
    <3>1. LinkedAlike
      BY <2>1, StepKinds DEF EnterName, EnterDot, EnterDotDot, FsTo
    <3> QED BY <1>5, <2>1, <3>1
  <2>2. CASE FsStep /\ UNCHANGED <<tty, asking, acked, makers, outgrown, made, crashes>>
    <3>1. CASE t = asking
      <4>1. fs_pc \in Serving /\ ~EnterName /\ ~EnterDot /\ ~EnterDotDot
        BY <2>2, <3>1 DEF FsStep, NewInode, InodeAllocSector, WriteInode, ClearSector, EnterName, EnterDot, EnterDotDot,
                          FsTo, Serving, Making
      <4> QED BY <1>5, <4>1, StepKinds
    <3>2. CASE t # asking
      <4>1. asking \in makers[op.dir] \/ ~EnterName
        BY DEF AskInv, EnterName, FsTo
      <4>2. c # op.id \/ ~(EnterDot \/ EnterDotDot)
        BY <1>1 DEF AskInv, EnterDot, EnterDotDot, FsTo
      <4>3. ~Grows(c)
        BY <1>3, <3>2, <4>1, <4>2 DEF Grows
      <4> QED BY <3>2, <4>3, DirSteps
    <3> QED BY <3>1, <3>2
  <2>3. CASE Answered
    <3>1. t # asking
      BY <1>4, <2>3 DEF Answered, DirInv, RestOK, LinkedTty
    <3>2. LinkedAlike
      BY <2>3, StillAlike DEF Answered
    <3> QED BY <1>5, <3>1, <3>2
  <2>4. CASE PowerFails
    BY <2>4 DEF PowerFails, FreshTty
  <2>5. CASE UNCHANGED vars
    <3>1. LinkedAlike /\ UNCHANGED <<fs_pc, asking>>
      BY <2>5, StillAlike DEF vars, fsVars
    <3> QED BY <1>5, <3>1 DEF Serving, Making
  <2>6. CASE \E u \in Tty : \/ Ls(u) \/ \E n \in Name \cup {DOT, DOTDOT} : Cd(u, n)
                            \/ \E n \in Name, type \in Types : Make(u, type, n)
    BY <2>1, <2>6 DEF Ls, Cd, Make, Prompt
  <2> QED BY <2>2, <2>3, <2>4, <2>5, <2>6 DEF Next
<1> QED BY <1>6, <1>7

--------------------------------------------------------------------------------
(* Names and parents                                                       *)

\* A new name behind the others of a directory.
LEMMA AppendDiffers ==
  ASSUME OneSector, DataOK, NEW m, NEW e \in Entry, AppendsAt(m, e), Len(data[m]) < DirEntries,
         NEW i, Span(itab[i]) \subseteq Sector, NamesDiffer(i),
         m \in Span(itab[i]) => \A x \in Entries(i) : x.name # e.name
  PROVE  NamesDiffer(i)'
<1>1. /\ DOMAIN data[m] = 1 .. Len(data[m]) /\ DOMAIN data'[m] = 1 .. Len(data[m]) + 1
      /\ Len(data[m]) \in Nat
      /\ \A k \in 1 .. Len(data[m]) + 1 : data'[m][k] = IF k <= Len(data[m]) THEN data[m][k] ELSE e
  BY Appended
<1>2. itab' = itab /\ \A s \in Sector \ {m} : data'[s] = data[s]
  BY DEF AppendsAt
<1>3. CASE m \notin Span(itab[i])
  BY <1>2, <1>3 DEF NamesDiffer
<1>4. CASE m \in Span(itab[i])
  <2>1. ASSUME NEW s \in Span(itab[i]), NEW k \in DOMAIN data'[s]
        PROVE  \/ k \in DOMAIN data[s] /\ data'[s][k] = data[s][k] /\ data'[s][k].name # e.name
               \/ s = m /\ k = Len(data[m]) + 1 /\ data'[s][k] = e
    <3>1. CASE s = m /\ k = Len(data[m]) + 1
      BY <1>1, <3>1
    <3>2. CASE ~(s = m /\ k = Len(data[m]) + 1)
      <4>1. k \in DOMAIN data[s] /\ data'[s][k] = data[s][k]
        BY <1>1, <1>2, <3>2
      <4>2. data[s][k] \in Entries(i)
        BY <4>1 DEF Entries, Range
      <4> QED BY <1>4, <4>1, <4>2
    <3> QED BY <3>1, <3>2
  <2> SUFFICES ASSUME NEW r \in Span(itab[i]), NEW s \in Span(itab[i]),
                      NEW j \in DOMAIN data'[r], NEW k \in DOMAIN data'[s], data'[r][j].name = data'[s][k].name
               PROVE  r = s /\ j = k
    BY <1>2 DEF NamesDiffer
  <2>2. CASE data'[r][j].name = e.name
    BY <2>1, <2>2
  <2>3. CASE data'[r][j].name # e.name
    BY <2>1, <2>3 DEF NamesDiffer
  <2> QED BY <2>2, <2>3
<1> QED BY <1>3, <1>4

LEMMA NextUniqueInv ==
  ASSUME OneSector, IInv, DirInv, AskInv, UniqueInv, NewNameInv, [Next]_vars
  PROVE  UniqueInv'
<1>1. Linked \subseteq InodeId /\ \A i \in InodeId : makers[i] \subseteq makers'[i]
  BY LinkedIds, MakersGrow DEF IInv
<1>2. CASE LinkedAlike
  <2> SUFFICES ASSUME NEW i \in Linked', OneMaker(i)' PROVE NamesDiffer(i)'
    BY DEF UniqueInv
  <2>1. i \in Linked /\ OneMaker(i)
    BY <1>1, <1>2 DEF LinkedAlike, OneMaker
  <2> QED BY <1>2, <2>1, AlikeSame DEF UniqueInv, DirInv
<1>3. CASE EnterName /\ ~LinkedAlike
  <2>1. PICK m \in Span(itab[op.dir]) :
                 /\ Len(data[m]) < DirEntries /\ AppendsAt(m, NewEntry)
                 /\ Linked' \subseteq Linked \cup {op.id} /\ m \notin Span(op.inode)
                 /\ \A i \in Linked \ {op.dir} : m \notin Span(itab[i])
    BY <1>3, NameGoesIn
  <2>2. NewEntry \in Entry /\ NewEntry.name = op.name
    BY <1>3, NameGoesIn DEF NewEntry
  <2>3. /\ fs_pc = "entry" /\ itab[op.id] = op.inode /\ \A s \in Span(op.inode) : s \in Sector /\ data[s] = <<>>
        /\ fs_pc \in Serving
    BY <1>3 DEF EnterName, FsTo, IInv, NewInv, Making, DirInv, EmptyInv, Held, Serving
  <2>4. OneMaker(op.dir) => \A x \in Entries(op.dir) : x.name # op.name
    BY <2>3 DEF AskInv, OneMaker, Alone, NewNameInv
  <2> HIDE DEF NewEntry
  <2>5. ASSUME NEW i \in Linked, OneMaker(i) PROVE NamesDiffer(i)'
    <3>1. Span(itab[i]) \subseteq Sector
      BY LinkedSpans DEF DirInv
    <3>2. m \in Span(itab[i]) => \A x \in Entries(i) : x.name # NewEntry.name
      BY <2>1, <2>2, <2>4, <2>5
    <3> QED BY <2>1, <2>2, <2>5, <3>1, <3>2, AppendDiffers DEF DirInv, UniqueInv
  <2>6. op' = op /\ makers' = makers /\ itab' = itab
    BY <1>3 DEF EnterName, Next, Ls, Cd, Make, Answered, PowerFails, FsTo, Prompt, vars, fsVars
  <2>7. \A i : i = op.id => NamesDiffer(i)'
    <3>1. \A s \in Span(op.inode) : data'[s] = <<>>
      BY <2>1, <2>3 DEF AppendsAt
    <3> QED BY <2>3, <2>6, <3>1 DEF NamesDiffer
  <2> QED BY <2>1, <2>5, <2>6, <2>7 DEF UniqueInv, OneMaker
<1>4. CASE EnterDot \/ EnterDotDot
  <2>1. PICK e \in Entry : /\ AddDirEntry(op.id, e) /\ IsDot(e) /\ itab' = itab /\ fs_pc \in {"dot", "dotdot"}
                           /\ \/ fs_pc = "dot" /\ e.name = DOT
                              \/ fs_pc = "dotdot" /\ e.name = DOTDOT
    BY <1>4, DotEntry
  <2>2. \A x \in Entries(op.id) : x.name # e.name
    <3>1. Range(<<>>) = {} /\ itab[op.id] = op.inode /\ DOT # DOTDOT
      BY <2>1, FsDirAssumption DEF Range, DirInv, EmptyInv
    <3> QED BY <2>1, <3>1 DEF DirInv, EmptyInv, Entries
  <2>3. /\ Linked' = Linked /\ itab[op.id] = op.inode
        /\ \/ data' = data
           \/ \E m \in Span(op.inode) :
                /\ Len(data[m]) < DirEntries /\ AppendsAt(m, e)
                /\ \A i \in Linked \ {op.id} : m \notin Span(itab[i])
    BY <2>1, DotGoesIn
  <2>4. \A i \in Linked : OneMaker(i)' => OneMaker(i)
    BY <1>1 DEF OneMaker
  <2>5. CASE data' = data
    BY <2>1, <2>3, <2>4, <2>5 DEF UniqueInv, NamesDiffer
  <2>6. ASSUME NEW m \in Span(op.inode), Len(data[m]) < DirEntries, AppendsAt(m, e),
               \A i \in Linked \ {op.id} : m \notin Span(itab[i]), NEW i \in Linked, OneMaker(i)
        PROVE  NamesDiffer(i)'
    <3>1. Span(itab[i]) \subseteq Sector
      BY LinkedSpans DEF DirInv
    <3>2. m \in Span(itab[i]) => \A x \in Entries(i) : x.name # e.name
      BY <2>2, <2>6
    <3> QED BY <2>1, <2>6, <3>1, <3>2, AppendDiffers DEF DirInv, UniqueInv
  <2> QED BY <2>3, <2>4, <2>5, <2>6 DEF UniqueInv
<1> QED BY <1>2, <1>3, <1>4, StepKinds

LEMMA NextNewNameInv ==
  ASSUME OneSector, IInv, DirInv, CacheInv, NewNameInv, [Next]_vars
  PROVE  NewNameInv'
<1>1. op.dir \in Linked
  BY DEF DirInv, LinkInv
<1>2. ASSUME NEW t \in Tty, NEW n \in Name, NEW type \in Types, Make(t, type, n) PROVE NewNameInv'
  <2>1. CASE UNCHANGED <<fs_pc, op>>
    BY <1>2, <2>1 DEF Make, Prompt, NewNameInv, Serving, Making
  <2>2. CASE ~UNCHANGED <<fs_pc, op>>
    <3>1. PICK c \in Linked : c = tty[t].cwd
      BY DEF DirInv, RestOK, LinkedTty
    <3> DEFINE sent == NameSent(t, n)
               dir == DirOf(c)
    <3>2. /\ Hits(tty'[t].cache, sent) = {} /\ fs_pc = "idle" /\ UNCHANGED disk
          /\ op' = [NoOp EXCEPT !.type = type, !.name = sent, !.dir = c]
          /\ tty' = [tty EXCEPT ![t] = Refreshed(t)] /\ asking' = t
      BY <1>2, <2>2, <3>1 DEF Make, Prompt
    <3>3. makers'[c] \subseteq {t} => Alone(t, c)
      BY MakersGrow, LinkedIds DEF IInv, Alone
    <3>4. Alone(t, c) => tty'[t].cache = dir
      <4>1. tty[t].flag \in 0 .. 1
        BY DEF DirInv, RestOK, LinkedTty
      <4>2. tty'[t] = Refreshed(t)
        BY <3>2 DEF DirInv, RestOK
      <4>3. tty[t].flag = 0 /\ Alone(t, c) => tty[t].cache = dir
        BY <3>1, <3>2 DEF CacheInv
      <4> QED BY <3>1, <4>1, <4>2, <4>3, RefreshedIs
    <3>5. op'.dir = c /\ op'.name = sent
      BY <3>2 DEF NoOp
    <3> HIDE DEF sent
    <3>6. dir \in Seq(Entry) /\ Range(dir) = Entries(c)
      BY LinkedSpans, DirLists DEF DirInv
    <3> HIDE DEF dir
    <3>7. makers'[c] \subseteq {t} => \A e \in Entries(c) : e.name # sent
      BY <3>2, <3>3, <3>4, <3>6, HitsFound
    <3>8. Entries(c)' = Entries(c)
      BY <3>2 DEF Entries, disk
    <3>9. \A i : i = op'.dir => Entries(i)' = Entries(c)
      BY <3>5, <3>8
    <3> QED BY <3>2, <3>5, <3>7, <3>9 DEF NewNameInv, Alone
  <2> QED BY <2>1, <2>2
<1>3. CASE FsStep /\ UNCHANGED <<tty, asking, acked, makers, outgrown, made, crashes>>
  <2>1. CASE fs_pc' \in Serving
    <3>1. fs_pc \in Serving /\ op'.dir = op.dir /\ op'.name = op.name /\ ~EnterName /\ ~EnterDot /\ ~EnterDotDot
      BY <1>3, <2>1 DEF FsStep, NewInode, InodeAllocSector, WriteInode, ClearSector,
                EnterName, EnterDot, EnterDotDot, FsTo, Serving, Making, IInv, Shape
    <3>2. LinkedAlike
      BY <3>1, StepKinds
    <3>3. Entries(op.dir)' = Entries(op.dir)
      <4>1. \A i \in Linked : Entries(i)' = Entries(i)
        BY <3>2, AlikeSame DEF DirInv
      <4> QED BY <1>1, <3>1, <4>1 DEF Entries
    <3>4. Alone(asking, op.dir)' = Alone(asking, op.dir)
      BY <1>3, <3>1 DEF Alone
    <3> QED BY <3>1, <3>3, <3>4 DEF NewNameInv
  <2>2. CASE fs_pc' \notin Serving
    BY <2>2 DEF NewNameInv, Serving, Making
  <2> QED BY <2>1, <2>2
<1>4. CASE (\E t \in Tty : Ls(t) \/ \E n \in Name \cup {DOT, DOTDOT} : Cd(t, n)) \/ UNCHANGED vars
  <2>1. UNCHANGED <<itab, data, fs_pc, op, asking, makers>>
    BY <1>4 DEF Ls, Cd, vars, fsVars, disk
  <2> QED BY <2>1 DEF NewNameInv, Entries, Alone, Serving, Making
<1>5. CASE Answered \/ PowerFails
  BY <1>5 DEF Answered, PowerFails, FsTo, NewNameInv, Serving, Making
<1> QED BY <1>2, <1>3, <1>4, <1>5 DEF Next

\* A directory names its parent by "..".
ParentsOf(i, e) == ~IsDot(e) => \A f \in Entries(e.id) : f.name = DOTDOT => f.id = i

LEMMA NextParentInv ==
  ASSUME OneSector, IInv, DirInv, ParentInv, [Next]_vars
  PROVE  ParentInv'
<1>1. /\ \A e \in Entries(ROOT) : e.name # DOTDOT
      /\ \A i \in Linked : \A e \in Entries(i) : ParentsOf(i, e)
      /\ fs_pc \in {"dot", "dotdot"} => \A i \in Linked : \A e \in Entries(i) : ~IsDot(e) /\ e.id = op.id => i = op.dir
  BY DEF ParentInv, ParentsOf
<1>2. \A i \in Linked : \A e \in Entries(i) : e.id \in Linked
  BY DEF DirInv, LinkInv
<1>3. ROOT \in Linked /\ op.dir \in Linked
  BY DEF Linked, DirInv, LinkInv
<1>4. CASE LinkedAlike /\ (fs_pc' \in {"dot", "dotdot"} => op' = op /\ fs_pc' = fs_pc)
  <2>1. Linked' = Linked /\ \A i \in Linked : Entries(i)' = Entries(i)
    BY <1>4, AlikeSame DEF LinkedAlike, DirInv
  <2>2. \A e : IsDot(e)' = IsDot(e)
    BY DEF IsDot
  <2>3. \A e \in Entries(ROOT)' : e.name # DOTDOT
    BY <1>1, <1>3, <2>1
  <2>4. ASSUME NEW i \in Linked, NEW e \in Entries(i), ~IsDot(e), NEW f \in Entries(e.id)', f.name = DOTDOT
        PROVE  f.id = i
    BY <1>1, <1>2, <2>1, <2>4 DEF ParentsOf
  <2>5. fs_pc' \in {"dot", "dotdot"} =>
          \A i \in Linked : \A e \in Entries(i) : ~IsDot(e) /\ e.id = op'.id => i = op'.dir
    BY <1>1, <1>4
  <2> QED BY <2>1, <2>2, <2>3, <2>4, <2>5 DEF ParentInv
<1>5. CASE EnterName
  <2>1. /\ fs_pc = "entry" /\ itab[op.id] = op.inode /\ \A s \in Span(op.inode) : s \in Sector /\ data[s] = <<>>
        /\ op.id \notin Linked /\ op.name # DOTDOT /\ op.name # DOT /\ op' = op /\ itab' = itab
    BY <1>5 DEF EnterName, FsTo, IInv, NewInv, Making, DirInv, EmptyInv, LinkInv, Held, Serving
  <2>2. NewEntry \in Entry /\ NewEntry.name = op.name /\ NewEntry.id = op.id
    BY <1>5, NameGoesIn DEF NewEntry
  <2>3. Linked' \subseteq Linked \cup {op.id}
        /\ (\A i \in Linked : \A x \in Entries(i)' : x \in Entries(i) \/ (i = op.dir /\ x = NewEntry))
        /\ \A s \in Span(op.inode) : data'[s] = <<>>
    <3>1. CASE LinkedAlike
      <4>1. \A i \in Linked : Entries(i)' = Entries(i)
        BY <3>1, AlikeSame DEF DirInv
      <4> QED BY <2>1, <3>1, <4>1 DEF LinkedAlike
    <3>2. CASE ~LinkedAlike
      <4>1. PICK m \in Span(itab[op.dir]) :
                 /\ Len(data[m]) < DirEntries /\ AppendsAt(m, NewEntry)
                 /\ Linked' \subseteq Linked \cup {op.id} /\ m \notin Span(op.inode)
                 /\ \A i \in Linked \ {op.dir} : m \notin Span(itab[i])
        BY <1>5, <3>2, NameGoesIn
      <4> HIDE DEF NewEntry
      <4>2. \A id : Span(itab[id]) \subseteq Sector =>
              Entries(id)' = IF m \in Span(itab[id]) THEN Entries(id) \cup {NewEntry} ELSE Entries(id)
        BY <2>2, <4>1, Appended DEF DirInv
      <4>3. \A i \in Linked : Entries(i)' = IF m \in Span(itab[i]) THEN Entries(i) \cup {NewEntry} ELSE Entries(i)
        BY <4>2, LinkedSpans DEF DirInv
      <4> QED BY <2>1, <4>1, <4>3 DEF AppendsAt
    <3> QED BY <3>1, <3>2
  <2> HIDE DEF NewEntry
  <2>4. \A i : i = op.id => Entries(i)' = {}
    <3>1. Range(<<>>) = {}
      BY DEF Range
    <3> QED BY <2>1, <2>3, <3>1 DEF Entries
  <2>5. \A e \in Entries(ROOT)' : e.name # DOTDOT
    BY <1>1, <1>3, <2>1, <2>2, <2>3
  <2>6. ASSUME NEW i \in Linked', NEW e \in Entries(i)', ~IsDot(e)
        PROVE  /\ \A f \in Entries(e.id)' : f.name = DOTDOT => f.id = i
               /\ e.id = op.id => i = op.dir
    <3>1. i \in Linked /\ i # op.id
      BY <2>1, <2>3, <2>4, <2>6
    <3>2. CASE e \in Entries(i)
      <4>1. e.id \in Linked
        BY <1>2, <3>1, <3>2
      <4>2. ASSUME NEW f \in Entries(e.id)', f.name = DOTDOT PROVE f.id = i
        <5>1. f \in Entries(e.id)
          BY <2>1, <2>2, <2>3, <4>1, <4>2
        <5> QED BY <1>1, <2>6, <3>1, <3>2, <4>2, <5>1 DEF ParentsOf
      <4> QED BY <2>1, <4>1, <4>2
    <3>3. CASE e \notin Entries(i)
      <4>1. i = op.dir /\ e.id = op.id
        BY <2>2, <2>3, <3>1, <3>3
      <4> QED BY <2>4, <4>1
    <3> QED BY <3>2, <3>3
  <2>7. \A e : IsDot(e)' = IsDot(e)
    BY DEF IsDot
  <2> QED BY <2>1, <2>5, <2>6, <2>7 DEF ParentInv
<1>6. CASE EnterDot \/ EnterDotDot
  <2>1. PICK e \in Entry : /\ AddDirEntry(op.id, e) /\ IsDot(e) /\ itab' = itab /\ op' = op
                           /\ fs_pc \in {"dot", "dotdot"} /\ fs_pc' \in {"dotdot", "reply"}
                           /\ e.name = DOTDOT => e.id = op.dir
    BY <1>6, DotEntry, FsDirAssumption
  <2>2. /\ Linked' = Linked /\ itab[op.id] = op.inode
        /\ \/ data' = data
           \/ \E m \in Span(op.inode) :
                /\ Len(data[m]) < DirEntries /\ AppendsAt(m, e)
                /\ \A i \in Linked \ {op.id} : m \notin Span(itab[i])
    BY <2>1, DotGoesIn
  <2>3. \A i \in Linked : \A x \in Entries(i)' : x \in Entries(i) \/ (x = e /\ i = op.id)
    <3>1. CASE data' = data
      BY <2>1, <3>1 DEF Entries
    <3>2. ASSUME NEW m \in Span(op.inode), Len(data[m]) < DirEntries, AppendsAt(m, e),
                 \A i \in Linked \ {op.id} : m \notin Span(itab[i])
          PROVE  \A i \in Linked : \A x \in Entries(i)' : x \in Entries(i) \/ (x = e /\ i = op.id)
      <4>1. \A id : Span(itab[id]) \subseteq Sector =>
              Entries(id)' = IF m \in Span(itab[id]) THEN Entries(id) \cup {e} ELSE Entries(id)
        BY <2>1, <3>2, Appended DEF DirInv
      <4>2. \A i \in Linked : Entries(i)' = IF m \in Span(itab[i]) THEN Entries(i) \cup {e} ELSE Entries(i)
        BY <4>1, LinkedSpans DEF DirInv
      <4> QED BY <3>2, <4>2
    <3> QED BY <2>2, <3>1, <3>2
  <2>4. op.id # ROOT
    BY <2>1 DEF DirInv, EmptyInv
  <2>5. \A x \in Entries(ROOT)' : x.name # DOTDOT
    BY <1>1, <1>3, <2>3, <2>4
  <2>6. ASSUME NEW i \in Linked, NEW x \in Entries(i)', ~IsDot(x)
        PROVE  /\ \A f \in Entries(x.id)' : f.name = DOTDOT => f.id = i
               /\ x.id = op.id => i = op.dir
    <3>1. x \in Entries(i)
      BY <2>1, <2>3, <2>6
    <3>2. x.id \in Linked /\ (x.id = op.id => i = op.dir)
      BY <1>1, <1>2, <2>1, <2>6, <3>1
    <3>3. ASSUME NEW f \in Entries(x.id)', f.name = DOTDOT PROVE f.id = i
      <4>1. f \in Entries(x.id) \/ (f = e /\ x.id = op.id)
        BY <2>3, <3>2
      <4> QED BY <1>1, <2>1, <2>6, <3>1, <3>2, <3>3, <4>1 DEF ParentsOf
    <3> QED BY <3>2, <3>3
  <2>7. \A x : IsDot(x)' = IsDot(x)
    BY DEF IsDot
  <2> QED BY <2>1, <2>2, <2>5, <2>6, <2>7 DEF ParentInv
<1>7. CASE ~EnterName /\ ~EnterDot /\ ~EnterDotDot
  <2>1. fs_pc' \in {"dot", "dotdot"} => op' = op /\ fs_pc' = fs_pc
    BY <1>7 DEF Next, Ls, Cd, Make, FsStep, NewInode, InodeAllocSector, WriteInode, ClearSector, Answered, PowerFails,
                FsTo, vars, fsVars
  <2> QED BY <1>4, <1>7, <2>1, StepKinds
<1> QED BY <1>5, <1>6, <1>7

--------------------------------------------------------------------------------
(* Paths                                                                   *)

\* A way stays one: what is first of its name in a directory stays first.
LEMMA WayStays ==
  ASSUME OneSector, IInv, DirInv, OrderInv, [Next]_vars, NEW path, NEW cwd, Way(path, cwd), Len(path) \in Nat
  PROVE  \E w \in [0 .. Len(path) -> Linked'] :
           /\ w[0] = ROOT /\ w[Len(path)] = cwd
           /\ \A k \in 1 .. Len(path) : FirstIs(DirOf(w[k - 1])', path[k], w[k])
<1>1. PICK w \in [0 .. Len(path) -> Linked] : Leads(w, path, cwd)
  BY DEF Way
<1>2. w \in [0 .. Len(path) -> Linked']
  BY LinksStay
<1>3. ASSUME NEW k \in 1 .. Len(path) PROVE FirstIs(DirOf(w[k - 1])', path[k], w[k])
  <2>1. w[k - 1] \in Linked /\ FirstIs(DirOf(w[k - 1]), path[k], w[k])
    BY <1>1 DEF Leads
  <2>2. \A i \in Linked : /\ DirOf(i) \in Seq(Entry) /\ DirOf(i)' \in Seq(Entry)
                          /\ Begins(DirOf(i), DirOf(i)')
    BY DirBegins
  <2> QED BY <2>1, <2>2, BeginsHits
<1> QED BY <1>1, <1>2, <1>3 DEF Leads

\* The first of a name is an entry of that name.
LEMMA FirstEntry ==
  ASSUME OneSector, IInv, DirInv, NEW i \in Linked, NEW n, NEW x, FirstIs(DirOf(i), n, x)
  PROVE  x \in Linked /\ \E e \in Entries(i) : e.name = n /\ e.id = x
<1>1. PICK j \in Hits(DirOf(i), n) : DirOf(i)[j].id = x
  BY DEF FirstIs
<1>2. Range(DirOf(i)) = Entries(i)
  BY LinkedSpans, DirLists DEF DirInv
<1>3. DirOf(i)[j] \in Entries(i) /\ DirOf(i)[j].name = n
  BY <1>1, <1>2 DEF Hits, Range
<1> QED BY <1>1, <1>3 DEF DirInv, LinkInv

LEMMA WayOn ==
  ASSUME NEW path \in Seq(Name), NEW cwd, Way(path, cwd), NEW n \in Name, NEW x \in Linked, FirstIs(DirOf(cwd), n, x)
  PROVE  Way(Append(path, n), x)
<1>1. PICK w \in [0 .. Len(path) -> Linked] : Leads(w, path, cwd)
  BY DEF Way
<1> DEFINE l == Len(path)
           p == Append(path, n)
           v == [k \in 0 .. l + 1 |-> IF k <= l THEN w[k] ELSE x]
<1>2. l \in Nat /\ Len(p) = l + 1 /\ p[l + 1] = n /\ \A k \in 1 .. l : p[k] = path[k]
  OBVIOUS
<1>3. cwd = w[l]
  BY <1>1 DEF Leads
<1> HIDE DEF l, p
<1>4. v \in [0 .. l + 1 -> Linked] /\ v[l + 1] = x /\ \A k \in 0 .. l : v[k] = w[k]
  BY <1>2 DEF l
<1> HIDE DEF v
<1>5. ASSUME NEW k \in 1 .. l + 1 PROVE FirstIs(DirOf(v[k - 1]), p[k], v[k])
  <2>1. CASE k = l + 1
    <3>1. v[k - 1] = cwd /\ v[k] = x /\ p[k] = n
      BY <1>2, <1>3, <1>4, <2>1
    <3> QED BY <3>1
  <2>2. CASE k # l + 1
    <3>1. k \in 1 .. l /\ v[k - 1] = w[k - 1] /\ v[k] = w[k] /\ p[k] = path[k]
      BY <1>2, <1>4, <2>2
    <3>2. FirstIs(DirOf(w[k - 1]), path[k], w[k])
      BY <1>1, <3>1 DEF Leads, l
    <3> QED BY <3>1, <3>2
  <2> QED BY <2>1, <2>2
<1>6. v[0] = ROOT
  BY <1>1, <1>2, <1>4 DEF Leads
<1>7. Leads(v, p, x)
  BY <1>2, <1>4, <1>5, <1>6 DEF Leads
<1> QED BY <1>2, <1>4, <1>7 DEF Way, p

LEMMA Beginning ==
  ASSUME NEW S, NEW s \in Seq(S), NEW n \in Nat, n <= Len(s)
  PROVE  Len(SubSeq(s, 1, n)) = n /\ \A k \in 1 .. n : SubSeq(s, 1, n)[k] = s[k]
<1>1. Len(SubSeq(s, 1, n)) = n
  OBVIOUS
<1>2. ASSUME NEW k \in 1 .. n PROVE SubSeq(s, 1, n)[k] = s[k]
  OBVIOUS
<1> QED BY <1>1, <1>2

LEMMA WayBack ==
  ASSUME OneSector, IInv, DirInv, ParentInv, NEW path \in Seq(Name), NEW cwd, Way(path, cwd),
         NEW e \in Entries(cwd), e.name = DOTDOT
  PROVE  Way(Parent(path), e.id)
<1>1. PICK w \in [0 .. Len(path) -> Linked] : Leads(w, path, cwd)
  BY DEF Way
<1> DEFINE n == Len(path)
           p == SubSeq(path, 1, n - 1)
           v == [k \in 0 .. n - 1 |-> w[k]]
<1>2. n \in Nat /\ w[0] = ROOT /\ w[n] = cwd
  BY <1>1 DEF Leads
<1>3. path # <<>> /\ n >= 1
  <2>1. n # 0
    BY <1>2 DEF ParentInv
  <2> QED BY <1>2, <2>1
<1>4. Parent(path) = p /\ Len(p) = n - 1 /\ \A k \in 1 .. n - 1 : p[k] = path[k]
  <2>1. Parent(path) = p
    BY <1>3 DEF Parent
  <2>2. Len(p) = n - 1 /\ \A k \in 1 .. n - 1 : p[k] = path[k]
    <3>1. n - 1 \in Nat /\ n - 1 <= Len(path)
      BY <1>2, <1>3
    <3> HIDE DEF n
    <3> QED BY <3>1, Beginning
  <2> QED BY <1>2, <2>1, <2>2
<1>5. e.id = w[n - 1]
  <2>1. path[n] \in Name /\ w[n - 1] \in Linked /\ FirstIs(DirOf(w[n - 1]), path[n], w[n])
    BY <1>1, <1>3 DEF Leads
  <2>2. PICK x \in Entries(w[n - 1]) : x.name = path[n] /\ x.id = w[n]
    BY <2>1, FirstEntry
  <2>3. ~IsDot(x)
    BY <2>1, <2>2, FsDirAssumption DEF IsDot
  <2>4. e \in Entries(x.id)
    BY <1>2, <2>2
  <2> QED BY <2>1, <2>3, <2>4 DEF ParentInv
<1> HIDE DEF n, p
<1>6. v \in [0 .. n - 1 -> Linked] /\ \A k \in 0 .. n - 1 : v[k] = w[k]
  BY DEF n
<1> HIDE DEF v
<1>7. ASSUME NEW k \in 1 .. n - 1 PROVE FirstIs(DirOf(v[k - 1]), p[k], v[k])
  <2>1. k \in 1 .. n /\ v[k - 1] = w[k - 1] /\ v[k] = w[k] /\ p[k] = path[k]
    BY <1>2, <1>4, <1>6
  <2>2. FirstIs(DirOf(w[k - 1]), path[k], w[k])
    BY <1>1, <2>1 DEF Leads, n
  <2> QED BY <2>1, <2>2
<1>8. Leads(v, p, e.id)
  BY <1>2, <1>3, <1>4, <1>5, <1>6, <1>7 DEF Leads
<1> QED BY <1>4, <1>6, <1>8 DEF Way

\* cd, as long as the string has not run over dir_name.
LEMMA CdWay ==
  ASSUME OneSector, IInv, DirInv, BeginInv, ParentInv, NEW t \in Tty, NEW n \in Name \cup {DOT, DOTDOT}, Cd(t, n),
         ~tty[t].cut, ~tty'[t].cut, Way(tty[t].path, tty[t].cwd)
  PROVE  Way(tty'[t].path, tty'[t].cwd) /\ tty'[t].path \in Seq(Name)
<1> DEFINE path == tty[t].path
           r == Refreshed(t)
<1>1. PICK c \in Linked : c = tty[t].cwd
  BY DEF DirInv, RestOK, LinkedTty
<1>2. r.path = path /\ r.cwd = c /\ r.cut = tty[t].cut /\ r \in LinkedTty /\ path \in Seq(Name)
      /\ r.cache = IF tty[t].flag = 0 THEN tty[t].cache ELSE DirOf(c)
  <2>1. r.path = path /\ r.cwd = c /\ r.cut = tty[t].cut /\ r \in LinkedTty
        /\ r.cache = IF tty[t].flag = 0 THEN tty[t].cache ELSE DirOf(c)
    BY <1>1, RefreshedIs
  <2> HIDE DEF r
  <2> QED BY <2>1 DEF LinkedTty
<1>3. DirOf(c) \in Seq(Entry) /\ Range(DirOf(c)) = Entries(c)
  BY LinkedSpans, DirLists DEF DirInv
<1>4. r.cache \in Seq(Entry) /\ Begins(r.cache, DirOf(c))
  <2>1. tty[t].cache \in Seq({x \in Entry : x.id \in Linked})
    BY DEF DirInv, RestOK, LinkedTty
  <2>2. tty[t].cache \in Seq(Entry)
    BY <2>1
  <2>3. tty[t].flag = 0 => Begins(tty[t].cache, DirOf(c))
    BY <1>1 DEF BeginInv
  <2>4. Begins(DirOf(c), DirOf(c))
    BY <1>3 DEF Begins
  <2> HIDE DEF r
  <2> QED BY <1>2, <1>3, <2>2, <2>3, <2>4
<1> HIDE DEF r
<1>5. Way(path, c)
  BY <1>1
<1>6. CASE tty' = [tty EXCEPT ![t] = r]
  <2>1. tty'[t] = r
    BY <1>6 DEF DirInv, RestOK
  <2> QED BY <1>2, <1>5, <2>1
<1>7. ASSUME NEW e \in Range(r.cache), e.name = n, FirstIs(r.cache, n, e.id), tty' = [tty EXCEPT ![t] = Entered(r, e)]
      PROVE  Way(tty'[t].path, tty'[t].cwd) /\ tty'[t].path \in Seq(Name)
  <2>1. tty'[t] = Entered(r, e)
    BY <1>7 DEF DirInv, RestOK
  <2>2. e \in Entry
    BY <1>4 DEF Range
  <2>3. FirstIs(DirOf(c), n, e.id)
    BY <1>3, <1>4, <1>7, BeginsHits
  <2>4. e.id \in Linked /\ e \in Entries(c)
    <3>1. PICK k \in DOMAIN r.cache : e = r.cache[k]
      BY DEF Range
    <3>2. /\ DOMAIN r.cache = 1 .. Len(r.cache) /\ DOMAIN DirOf(c) = 1 .. Len(DirOf(c))
          /\ Len(r.cache) \in Nat /\ Len(DirOf(c)) \in Nat
      BY <1>3, <1>4
    <3>3. k \in DOMAIN DirOf(c) /\ DirOf(c)[k] = e
      BY <1>4, <3>1, <3>2 DEF Begins
    <3> QED BY <1>3, <2>3, <3>3, FirstEntry DEF Range
  <2>5. CASE Entered(r, e) = r
    BY <1>2, <1>5, <2>1, <2>5
  <2>6. CASE Entered(r, e) = [flag |-> 1, cwd |-> r.cwd, path |-> r.path, cut |-> r.cut, cache |-> r.cache]
    BY <1>2, <1>5, <2>1, <2>6
  <2>7. CASE e.name = DOTDOT /\ Entered(r, e) = [flag |-> 1, cwd |-> e.id, path |-> Shorter(r).path,
                                                 cut |-> Shorter(r).cut, cache |-> r.cache]
    <3>1. tty'[t].path = Parent(path) /\ tty'[t].cwd = e.id
      BY <1>2, <2>1, <2>7, ShorterIs
    <3>2. Way(Parent(path), e.id) /\ Parent(path) \in Seq(Name)
      <4>1. Way(Parent(path), e.id)
        BY <1>2, <1>5, <2>4, <2>7, WayBack
      <4>2. Parent(path) \in Seq(Name)
        BY <1>2 DEF Parent
      <4> QED BY <4>1, <4>2
    <3> QED BY <3>1, <3>2
  <2>8. CASE e.name \in Name /\ Entered(r, e) = [flag |-> 1, cwd |-> e.id, path |-> Longer(r, e.name).path,
                                                 cut |-> Longer(r, e.name).cut, cache |-> r.cache]
    <3>1. tty'[t].cut = Longer(r, n).cut /\ tty'[t].path = Longer(r, n).path /\ tty'[t].cwd = e.id
      BY <1>7, <2>1, <2>8
    <3>2. Longer(r, n).path = Append(path, n) /\ n \in Name
      BY <1>2, <1>7, <2>8, <3>1, LongerIs
    <3>3. Way(Append(path, n), e.id) /\ Append(path, n) \in Seq(Name)
      BY <1>2, <1>5, <2>3, <2>4, <3>2, WayOn
    <3> QED BY <3>1, <3>2, <3>3
  <2> QED BY <1>2, <1>7, <2>2, <2>5, <2>6, <2>7, <2>8, EnteredIs
<1> QED BY <1>6, <1>7, CdLeads DEF r

LEMMA NextPathInv ==
  ASSUME OneSector, IInv, DirInv, OrderInv, BeginInv, ParentInv, PathInv, [Next]_vars
  PROVE  PathInv'
<1> SUFFICES ASSUME NEW t \in Tty, t \notin outgrown'
             PROVE  /\ ~tty'[t].cut
                    /\ \E w \in [0 .. Len(tty'[t].path) -> Linked'] :
                         /\ w[0] = ROOT /\ w[Len(tty'[t].path)] = tty'[t].cwd
                         /\ \A k \in 1 .. Len(tty'[t].path) : FirstIs(DirOf(w[k - 1])', tty'[t].path[k], w[k])
  BY DEF PathInv, Way, Leads, FirstIs, Hits
<1>1. CASE PowerFails
  <2>1. tty'[t].path = <<>> /\ tty'[t].cwd = ROOT /\ ~tty'[t].cut
    BY <1>1 DEF PowerFails, FreshTty
  <2>2. ROOT \in Linked'
    BY LinksStay DEF Linked
  <2> DEFINE w == [k \in 0 .. 0 |-> ROOT]
  <2>3. w \in [0 .. 0 -> Linked'] /\ w[0] = ROOT /\ Len(<<>>) = 0
    BY <2>2
  <2> HIDE DEF w
  <2>4. w \in [0 .. Len(tty'[t].path) -> Linked'] /\ Len(tty'[t].path) = 0
    BY <2>1, <2>3
  <2> QED BY <2>1, <2>3, <2>4
<1>2. CASE ~PowerFails
  <2>1. t \notin outgrown
    BY <1>2 DEF Next, Ls, Cd, Make, Answered, vars
  <2>2. ~tty[t].cut /\ Way(tty[t].path, tty[t].cwd) /\ tty[t].path \in Seq(Name) /\ tty[t] \in LinkedTty
    <3>1. tty[t] \in LinkedTty
      BY DEF DirInv, RestOK
    <3> QED BY <2>1, <3>1 DEF PathInv, LinkedTty
  <2>3. ~tty'[t].cut /\ Way(tty'[t].path, tty'[t].cwd) /\ tty'[t].path \in Seq(Name)
    <3>1. CASE tty'[t].path = tty[t].path /\ tty'[t].cwd = tty[t].cwd /\ tty'[t].cut = tty[t].cut
      BY <2>2, <3>1
    <3>2. ASSUME NEW n \in Name \cup {DOT, DOTDOT}, Cd(t, n)
          PROVE  ~tty'[t].cut /\ Way(tty'[t].path, tty'[t].cwd) /\ tty'[t].path \in Seq(Name)
      <4>1. ~tty'[t].cut
        BY <3>2 DEF Cd
      <4> QED BY <2>2, <3>2, <4>1, CdWay
    <3>3. ASSUME NEW u \in Tty, \/ Ls(u)
                                \/ \E n \in Name, type \in Types : Make(u, type, n)
                                \/ u # t /\ \E n \in Name \cup {DOT, DOTDOT} : Cd(u, n)
          PROVE  tty'[t].path = tty[t].path /\ tty'[t].cwd = tty[t].cwd /\ tty'[t].cut = tty[t].cut
      BY <3>3, RefreshedIs DEF Ls, Make, Cd, DirInv, RestOK
    <3>4. CASE Answered
      <4>1. tty'[t].path = tty[t].path /\ tty'[t].cwd = tty[t].cwd /\ tty'[t].cut = tty[t].cut
        BY <2>2, <3>4 DEF Answered, DirInv, RestOK, LinkedTty
      <4> QED BY <3>1, <4>1
    <3>5. CASE UNCHANGED tty
      BY <3>1, <3>5
    <3>6. ASSUME NEW u \in Tty, \/ Ls(u) \/ \E n \in Name \cup {DOT, DOTDOT} : Cd(u, n)
                                \/ \E n \in Name, type \in Types : Make(u, type, n)
          PROVE  ~tty'[t].cut /\ Way(tty'[t].path, tty'[t].cwd) /\ tty'[t].path \in Seq(Name)
      <4>1. CASE u = t /\ \E n \in Name \cup {DOT, DOTDOT} : Cd(u, n)
        BY <3>2, <4>1
      <4>2. CASE ~(u = t /\ \E n \in Name \cup {DOT, DOTDOT} : Cd(u, n))
        BY <3>1, <3>3, <3>6, <4>2
      <4> QED BY <4>1, <4>2
    <3> QED BY <1>2, <3>4, <3>5, <3>6 DEF Next, vars
  <2>4. Len(tty'[t].path) \in Nat
    BY <2>3
  <2>5. \A q, d : Way(q, d) /\ Len(q) \in Nat =>
          \E w \in [0 .. Len(q) -> Linked'] :
            /\ w[0] = ROOT /\ w[Len(q)] = d
            /\ \A k \in 1 .. Len(q) : FirstIs(DirOf(w[k - 1])', q[k], w[k])
    BY WayStays
  <2> QED BY <2>3, <2>4, <2>5
<1> QED BY <1>1, <1>2

--------------------------------------------------------------------------------
(* The walk along a path                                                    *)

\* Every number can be reached from zero.
LEMMA Induction == ASSUME NEW S, 0 \in S, \A n \in Nat : n \in S => n + 1 \in S PROVE Nat \subseteq S
<1> SUFFICES ASSUME NEW m \in Nat, m \notin S PROVE FALSE
  OBVIOUS
<1> DEFINE Bad == {k \in 0 .. m : k \notin S}
<1>1. Bad \in SUBSET Nat /\ Bad # {}
  <2>1. m \in Bad
    OBVIOUS
  <2> QED BY <2>1
<1>2. PICK k \in Bad : \A j \in Bad : k <= j
  <2> HIDE DEF Bad
  <2> QED BY <1>1, MinInSet
<1>3. k # 0 /\ k - 1 \in Nat /\ k - 1 \notin Bad
  BY <1>2
<1>4. k - 1 \in S
  BY <1>3
<1> QED BY <1>3, <1>4

\* What is kept of the names and paths of all terminals.
ShellInv == OrderInv /\ BeginInv /\ CacheInv /\ AskInv /\ UniqueInv /\ NewNameInv /\ ParentInv /\ PathInv

LEMMA InitShellInv == ASSUME OneSector, NamesApart, Init PROVE ShellInv /\ KeptInv
<1>1. IInv /\ DirInv
  BY InitIInv, InitDirInv
<1> DEFINE e == [id |-> ROOT, name |-> DOT, type |-> "folder"]
<1>2. \A s \in Sector : data[s] = IF s = FirstData THEN <<e>> ELSE <<>>
  BY DEF Init, FsInit
<1>3. e.name = DOT
  OBVIOUS
<1> HIDE DEF e
<1>4. Range(<<e>>) = {e} /\ Range(<<>>) = {} /\ DOMAIN <<e>> = {1} /\ DOMAIN <<>> = {}
  BY DEF Range
<1>5. \A s \in Sector : \A x \in Range(data[s]) : x = e
  BY <1>2, <1>4
<1>6. Linked = {ROOT}
  BY <1>3, <1>5 DEF Linked, Named
<1>7. \A s \in Span(itab[ROOT]) : s \in Sector
  BY <1>1, <1>6 DEF IInv, NamedInv, Held
<1>8. Entries(ROOT) \subseteq {e}
  BY <1>5, <1>7 DEF Entries
<1>9. NamesDiffer(ROOT)
  <2>1. \A s \in Span(itab[ROOT]) : \A j \in DOMAIN data[s] : s = FirstData /\ j = 1
    BY <1>2, <1>4, <1>7
  <2> QED BY <2>1 DEF NamesDiffer
<1>10. CacheInv /\ BeginInv
  BY DEF Init, FreshTty, CacheInv, BeginInv
<1>11. NewNameInv /\ KeptInv /\ AskInv
  BY DEF Init, FsBoot, NewNameInv, KeptInv, AskInv, Serving, Making
<1>12. ParentInv
  <2>1. e.name # DOTDOT /\ IsDot(e)
    BY <1>3, FsDirAssumption DEF IsDot
  <2> QED BY <1>6, <1>8, <2>1 DEF ParentInv, Init, FsBoot
<1>13. PathInv
  <2> SUFFICES ASSUME NEW t \in Tty PROVE ~tty[t].cut /\ Way(tty[t].path, tty[t].cwd)
    BY DEF PathInv
  <2> DEFINE w == [k \in 0 .. 0 |-> ROOT]
  <2>1. tty[t].path = <<>> /\ tty[t].cwd = ROOT /\ ~tty[t].cut
    BY DEF Init, FreshTty
  <2>2. w \in [0 .. 0 -> Linked] /\ w[0] = ROOT /\ Len(<<>>) = 0
    BY <1>6
  <2> HIDE DEF w
  <2>3. w \in [0 .. Len(tty[t].path) -> Linked] /\ Len(tty[t].path) = 0
    BY <2>1, <2>2
  <2>4. Leads(w, tty[t].path, tty[t].cwd)
    BY <2>1, <2>2, <2>3 DEF Leads
  <2> QED BY <2>1, <2>3, <2>4 DEF Way
<1>14. OrderInv
  <2>1. \A s \in Span(itab[ROOT]) : data[s] # <<>> => s = FirstData
    BY <1>2, <1>7
  <2>2. \A r \in Span(itab[ROOT]) : FirstData <= r
    BY <1>1, <1>6 DEF IInv, NamedInv, Held
  <2>3. Ordered(ROOT)
    <3>1. FirstData \in Int /\ \A r \in Span(itab[ROOT]) : r \in Int
      BY Sizes, <1>7
    <3> QED BY <2>1, <2>2, <3>1 DEF Ordered
  <2> QED BY <1>6, <2>3 DEF OrderInv, Init, FsBoot
<1>15. UniqueInv
  BY <1>6, <1>9 DEF UniqueInv
<1> QED BY <1>10, <1>11, <1>12, <1>13, <1>14, <1>15 DEF ShellInv

LEMMA NextShellInv == ASSUME OneSector, IInv, DirInv, ShellInv, [Next]_vars PROVE ShellInv'
  BY DirSteps, NextBeginInv, NextCacheInv, NextAskInv, NextUniqueInv, NextNewNameInv, NextParentInv, NextPathInv DEF ShellInv

\* What cd finds is the first entry of a name.
LEMMA TheFirst ==
  ASSUME NEW dir \in Seq(Entry), NEW n, NEW x, FirstIs(dir, n, x)
  PROVE  dir[CHOOSE j \in Hits(dir, n) : TRUE].id = x
<1> DEFINE h == CHOOSE j \in Hits(dir, n) : TRUE
<1>1. PICK j \in Hits(dir, n) : dir[j].id = x
  BY DEF FirstIs
<1>2. h \in Hits(dir, n)
  BY <1>1
<1> HIDE DEF h
<1>3. j \in 1 .. Len(dir) /\ h \in 1 .. Len(dir) /\ Len(dir) \in Nat
  BY <1>2 DEF Hits
<1>4. dir[j].name = n /\ dir[h].name = n /\ (\A k \in 1 .. j - 1 : dir[k].name # n) /\ \A k \in 1 .. h - 1 : dir[k].name # n
  BY <1>2 DEF Hits
<1>5. h = j
  BY <1>3, <1>4
<1> QED BY <1>1, <1>5 DEF h

LEMMA PathLeads == ASSUME OneSector, IInv, DirInv, ShellInv PROVE PathLeadsToCwd
<1> SUFFICES ASSUME NEW t \in Tty \ outgrown
             PROVE  LET path == tty[t].path
                        walk[k \in 0 .. Len(path)] ==
                          IF k = 0 THEN ROOT
                          ELSE LET dir == DirOf(walk[k - 1])
                               IN dir[CHOOSE j \in Hits(dir, path[k]) : TRUE].id
                    IN tty[t].cwd = walk[Len(path)]
  BY DEF PathLeadsToCwd
<1> DEFINE path == tty[t].path
           n    == Len(path)
           To(c, k) == DirOf(c)[CHOOSE j \in Hits(DirOf(c), path[k]) : TRUE].id
           F(f) == [k \in 0 .. n |-> IF k = 0 THEN ROOT ELSE To(f[k - 1], k)]
           walk == CHOOSE f : f = F(f)
<1>1. PICK w \in [0 .. n -> Linked] : Leads(w, path, tty[t].cwd)
  BY DEF ShellInv, PathInv, Way
<1>2. n \in Nat
  <2>1. tty[t] \in LinkedTty
    BY DEF DirInv, RestOK
  <2> QED BY <2>1 DEF LinkedTty
<1>3. ASSUME NEW k \in 1 .. n PROVE To(w[k - 1], k) = w[k]
  <2>1. w[k - 1] \in Linked /\ FirstIs(DirOf(w[k - 1]), path[k], w[k])
    BY <1>1, <1>2 DEF Leads
  <2>2. DirOf(w[k - 1]) \in Seq(Entry)
    BY <2>1, LinkedSpans, DirLists DEF DirInv
  <2> QED BY <2>1, <2>2, TheFirst
<1> HIDE DEF To, n
<1>4. w = F(w)
  <2>1. \A k \in 0 .. n : w[k] = IF k = 0 THEN ROOT ELSE To(w[k - 1], k)
    BY <1>1, <1>2, <1>3 DEF Leads
  <2> QED BY <2>1
<1>5. walk = F(walk)
  BY <1>4
<1>6. tty[t].cwd = w[n]
  BY <1>1 DEF Leads, n
<1> HIDE DEF walk
<1>7. \A k \in 0 .. n : walk[k] = IF k = 0 THEN ROOT ELSE To(walk[k - 1], k)
  BY <1>5
<1>8. \A k \in 0 .. n : w[k] = IF k = 0 THEN ROOT ELSE To(w[k - 1], k)
  BY <1>4
<1> DEFINE S == {k \in Nat : k <= n => walk[k] = w[k]}
<1>9. Nat \subseteq S
  <2>1. 0 \in S
    BY <1>2, <1>7, <1>8
  <2>2. ASSUME NEW k \in Nat, k \in S PROVE k + 1 \in S
    <3> SUFFICES ASSUME k + 1 <= n PROVE walk[k + 1] = w[k + 1]
      OBVIOUS
    <3>1. k + 1 \in 0 .. n /\ k + 1 # 0 /\ (k + 1) - 1 = k /\ walk[k] = w[k]
      BY <1>2, <2>2
    <3> QED BY <1>7, <1>8, <3>1
  <2> HIDE DEF S
  <2> QED BY <2>1, <2>2, Induction
<1>10. walk[n] = w[n]
  BY <1>2, <1>9
<1> QED BY <1>6, <1>10 DEF walk, To, n

--------------------------------------------------------------------------------
(* What follows for the shell                                               *)

LEMMA DirInvariance == OneSector /\ NamesApart /\ Spec /\ []RoomLeft => []DirInv
<1>1. OneSector /\ NamesApart /\ Init => DirInv
  BY InitDirInv
<1>2. OneSector /\ NamesApart /\ IInv /\ DirInv /\ [Next]_vars => DirInv' /\ OneSector' /\ NamesApart'
  BY NextDirInv DEF OneSector, NamesApart
<1> QED BY <1>1, <1>2, DiskInvariance, PTL DEF Spec

\* shell_fs.c, mk.c: whatever a command or the file system holds at any moment is of
\* its kind, and no sector of a directory has more entries than it holds.
THEOREM FsTypeCorrect == OneSector /\ NamesApart /\ Spec /\ []RoomLeft => []TypeOK
<1>1. OneSector /\ IInv /\ DirInv => TypeOK
  BY DirInvType
<1>2. OneSector => OneSector'
  BY DEF OneSector
<1> QED BY <1>1, <1>2, DiskInvariance, DirInvariance, PTL

\* mk.c:293, shell_fs.c: what a command was answered to have made is in its directory
\* from then on, through every command and every power failure.
THEOREM WhatIsAnsweredStays ==
  OneSector /\ NamesApart /\ Spec /\ []RoomLeft /\ []PlaceLeft => []AnswersKept
<1>1. OneSector /\ NamesApart /\ Init => KeptInv
  BY InitShellInv
<1>2. OneSector /\ PlaceLeft /\ IInv /\ DirInv /\ KeptInv /\ [Next]_vars => KeptInv' /\ OneSector'
  BY NextKeptInv DEF OneSector
<1>3. OneSector /\ IInv /\ DirInv /\ KeptInv => AnswersKept
  <2> SUFFICES ASSUME OneSector, IInv, DirInv, KeptInv PROVE AnswersKept
    OBVIOUS
  <2>1. \A i \in Linked : Range(DirOf(i)) = Entries(i)
    BY LinkedSpans, DirLists DEF DirInv
  <2> QED BY <2>1 DEF KeptInv, AnswersKept
<1> QED BY <1>1, <1>2, <1>3, DiskInvariance, DirInvariance, PTL DEF Spec

LEMMA ShellInvariance == OneSector /\ NamesApart /\ Spec /\ []RoomLeft => []ShellInv
<1>1. OneSector /\ NamesApart /\ Init => ShellInv
  BY InitShellInv
<1>2. OneSector /\ IInv /\ DirInv /\ ShellInv /\ [Next]_vars => ShellInv' /\ OneSector'
  BY NextShellInv DEF OneSector
<1> QED BY <1>1, <1>2, DiskInvariance, DirInvariance, PTL DEF Spec

\* shell_fs.c (check_name_repeat): no directory in which one terminal only has made
\* something holds two entries of one name, however many terminals there are.
THEOREM NamesAreUnique ==
  OneSector /\ NamesApart /\ Spec /\ []RoomLeft => []UniqueNames
<1>1. OneSector /\ IInv /\ DirInv /\ ShellInv => UniqueNames
  <2> SUFFICES ASSUME OneSector, IInv, DirInv, ShellInv PROVE UniqueNames
    OBVIOUS
  <2> QED BY LinkedSpans, DirDiffers DEF DirInv, ShellInv, UniqueInv, OneMaker, UniqueNames
<1>2. OneSector => OneSector'
  BY DEF OneSector
<1> QED BY <1>1, <1>2, DiskInvariance, DirInvariance, ShellInvariance, PTL

\* shell_fs.c (cd): until it has run over dir_name, the path in front of the prompt leads
\* to the directory the commands work in, whatever all terminals do.
THEOREM PathIsThatOfCwd ==
  OneSector /\ NamesApart /\ Spec /\ []RoomLeft => []PathLeadsToCwd
<1>1. OneSector /\ IInv /\ DirInv /\ ShellInv => PathLeadsToCwd
  BY PathLeads
<1>2. OneSector => OneSector'
  BY DEF OneSector
<1> QED BY <1>1, <1>2, DiskInvariance, DirInvariance, ShellInvariance, PTL

--------------------------------------------------------------------------------
(* Inodes, in any number of sectors                                        *)

\* The inodes of the first sector that are in a directory, and the one being made.
FoundInv ==
  /\ imap \in [InodeId -> 0 .. 1] /\ itab = [i \in InodeId |-> itab[i]]
  /\ data = [s \in Sector |-> data[s]] /\ \A s \in Sector : data[s] \in Seq(Range(data[s]))
  /\ op = [type |-> op.type, name |-> op.name, dir |-> op.dir, id |-> op.id, inode |-> op.inode]
  /\ op.id \in InodeId
  /\ \A e \in Named : /\ e.id \in InodeId /\ imap[e.id] = 1
                      /\ InodeSector(e.id) = 0 => itab[e.id].num = SectorsOf(e.type)
  /\ fs_pc \in Making => imap[op.id] = 1 /\ \A e \in Named : e.id # op.id
  /\ fs_pc \in Making \ {"alloc"} => op.inode.num = SectorsOf(op.type)
  /\ fs_pc \in Making \ {"alloc", "update"} /\ InodeSector(op.id) = 0 => itab[op.id] = op.inode

LEMMA Ids == /\ InodeId \subseteq Nat /\ 0 \in InodeId /\ ROOT \in InodeId
             /\ FirstData \in Nat
<1>1. \A m, n \in Nat \ {0} : m * n >= n /\ m * n \in Nat
  OBVIOUS
<1>2. InodeSects * PerSector >= PerSector /\ InodeSects * PerSector \in Nat /\ PerSector \in Nat /\ PerSector >= 2
  BY <1>1, FsDirAssumption
<1> QED BY <1>2, FsDirAssumption DEF InodeId, ROOT, FirstData

\* mk.c:201: an inode of a later sector is looked for in front of the buffer.
LEMMA Behind ==
  ASSUME NEW id \in InodeId
  PROVE  IF InodeSector(id) = 0 THEN Slot(id) = id /\ id >= 0 ELSE Slot(id) < 0
<1> DEFINE q == InodeSector(id)
<1>1. id \in Nat /\ PerSector \in Nat \ {0} /\ INODE_SIZE \in Nat /\ 2 * PerSector <= INODE_SIZE
  BY Ids, FsDirAssumption
<1>2. q \in Nat /\ PerSector * q <= id /\ id < PerSector * q + PerSector
  BY <1>1 DEF InodeSector
<1>3. CASE q = 0
  BY <1>1, <1>3 DEF Slot
<1>4. CASE q # 0
  <2>1. \A k, p, z \in Nat : k >= 1 /\ 2 * p <= z => k * z >= 2 * (p * k) /\ p * k >= p
    <3> SUFFICES ASSUME NEW k \in Nat, NEW p \in Nat, NEW z \in Nat, k >= 1, 2 * p <= z
                 PROVE  k * z >= 2 * (p * k) /\ p * k >= p
      OBVIOUS
    <3>1. k * z >= k * (2 * p)
      OBVIOUS
    <3>2. k * (2 * p) = 2 * (p * k) /\ p * k >= p
      OBVIOUS
    <3>3. k * z \in Nat /\ k * (2 * p) \in Nat /\ 2 * (p * k) \in Nat
      OBVIOUS
    <3> QED BY <3>1, <3>2, <3>3
  <2>2. q * INODE_SIZE >= 2 * (PerSector * q) /\ PerSector * q >= PerSector
    BY <1>1, <1>2, <1>4, <2>1
  <2>3. q * INODE_SIZE \in Nat /\ PerSector * q \in Nat
    BY <1>1, <1>2
  <2>4. Slot(id) = id - q * INODE_SIZE
    BY DEF Slot
  <2> HIDE DEF q
  <2>5. Slot(id) < 0
    BY <1>1, <1>2, <2>2, <2>3, <2>4
  <2> QED BY <1>4, <2>5 DEF q
<1> QED BY <1>3, <1>4

\* mk.c:180: a write changes the inode it is for, or none of the table.
LEMMA WritesOne ==
  ASSUME FoundInv, NEW inode, UpdateInode(op.id, inode)
  PROVE  itab' = IF InodeSector(op.id) = 0 THEN [itab EXCEPT ![op.id] = inode] ELSE itab
<1>1. op.id \in InodeId /\ op.id \in Nat /\ PerSector \in Nat
  BY Ids, FsDirAssumption DEF FoundInv
<1>2. 0 * PerSector + op.id = op.id
  BY <1>1
<1>3. CASE InodeSector(op.id) = 0
  BY <1>1, <1>2, <1>3, Behind DEF UpdateInode
<1>4. CASE InodeSector(op.id) # 0
  <2>1. ~(Slot(op.id) >= 0)
    <3>1. Slot(op.id) < 0 /\ Slot(op.id) \in Int
      <4>1. InodeSector(op.id) \in Int /\ INODE_SIZE \in Int
        BY <1>1, FsDirAssumption DEF InodeSector
      <4> QED BY <1>1, <1>4, <4>1, Behind DEF Slot
    <3> QED BY <3>1
  <2> QED BY <1>4, <2>1 DEF UpdateInode
<1> QED BY <1>3, <1>4

LEMMA InitFoundInv == ASSUME Init PROVE FoundInv
<1> DEFINE e == [id |-> ROOT, name |-> DOT, type |-> "folder"]
<1>1. \A s \in Sector : data[s] = <<e>> \/ data[s] = <<>>
  BY DEF Init, FsInit
<1>2. e.name = DOT
  OBVIOUS
<1>3. data = [s \in Sector |-> data[s]]
  BY DEF Init, FsInit
<1> HIDE DEF e
<1>4. Range(<<e>>) = {e} /\ <<e>> \in Seq({e}) /\ <<>> \in Seq(Range(<<>>)) /\ Range(<<>>) = {}
  BY DEF Range
<1>5. \A s \in Sector : data[s] \in Seq(Range(data[s])) /\ \A x \in Range(data[s]) : x.name = DOT
  BY <1>1, <1>2, <1>4
<1>6. Named = {}
  BY <1>5 DEF Named
<1>7. imap \in [InodeId -> 0 .. 1] /\ itab = [i \in InodeId |-> itab[i]]
  BY Ids DEF Init, FsInit, ROOT
<1>8. op = [type |-> op.type, name |-> op.name, dir |-> op.dir, id |-> op.id, inode |-> op.inode] /\ op.id \in InodeId
  BY Ids DEF Init, FsBoot, NoOp
<1> QED BY <1>3, <1>5, <1>6, <1>7, <1>8 DEF FoundInv, Init, FsBoot, Making

LEMMA NextFoundInv == ASSUME FoundInv, [Next]_vars PROVE FoundInv'
<1>1. CASE NewInode
  <2> DEFINE Clear == {i \in InodeId : imap[i] = 0}
  <2>1. Clear \in SUBSET Nat /\ Clear # {}
    BY <1>1, Ids DEF NewInode
  <2>2. GetNewInode \in InodeId /\ imap[GetNewInode] = 0
    BY <2>1, MinInSet DEF GetNewInode
  <2>3. op' = [op EXCEPT !.id = GetNewInode] /\ op'.id = GetNewInode
    BY <1>1 DEF NewInode, FoundInv
  <2>4. imap' = [imap EXCEPT ![GetNewInode] = 1] /\ UNCHANGED <<itab, data>> /\ fs_pc' = "alloc"
    BY <1>1, <2>3 DEF NewInode, FsTo
  <2>5. Named' = Named
    BY <2>4, NamedSame
  <2>6. imap' \in [InodeId -> 0 .. 1] /\ imap'[GetNewInode] = 1 /\ \A i \in InodeId : imap[i] = 1 => imap'[i] = 1
    BY <2>2, <2>4 DEF FoundInv
  <2>7. \A e \in Named : e.id # GetNewInode
    BY <2>2 DEF FoundInv
  <2>8. op' = [type |-> op'.type, name |-> op'.name, dir |-> op'.dir, id |-> op'.id, inode |-> op'.inode]
    BY <2>3 DEF FoundInv
  <2> QED BY <2>2, <2>3, <2>4, <2>5, <2>6, <2>7, <2>8 DEF FoundInv, Making
<1>2. CASE InodeAllocSector
  <2>1. PICK start : op' = [op EXCEPT !.inode = [start |-> start, num |-> SectorsOf(op.type)]]
    BY <1>2 DEF InodeAllocSector
  <2>2. UNCHANGED <<imap, itab, data>> /\ fs_pc = "alloc" /\ fs_pc' = "update"
    BY <1>2 DEF InodeAllocSector, FsTo
  <2>3. /\ op'.id = op.id /\ op'.type = op.type /\ op'.inode.num = SectorsOf(op.type)
        /\ op' = [type |-> op'.type, name |-> op'.name, dir |-> op'.dir, id |-> op'.id, inode |-> op'.inode]
    BY <2>1 DEF FoundInv
  <2> QED BY <2>2, <2>3, NamedSame DEF FoundInv, Making
<1>3. CASE WriteInode
  <2>1. UNCHANGED <<imap, data, op>> /\ fs_pc = "update" /\ fs_pc' = "clear"
    BY <1>3 DEF WriteInode, FsTo
  <2>2. itab' = IF InodeSector(op.id) = 0 THEN [itab EXCEPT ![op.id] = op.inode] ELSE itab
    BY <1>3, WritesOne DEF WriteInode
  <2>3. itab' = [i \in InodeId |-> itab'[i]] /\ \A i \in InodeId \ {op.id} : itab'[i] = itab[i]
    BY <2>2 DEF FoundInv
  <2>4. InodeSector(op.id) = 0 => itab'[op.id] = op.inode
    BY <2>2 DEF FoundInv
  <2>5. \A e \in Named : e.id \in InodeId \ {op.id}
    BY <2>1 DEF FoundInv, Making
  <2> QED BY <2>1, <2>3, <2>4, <2>5, NamedSame DEF FoundInv, Making
<1>4. CASE ClearSector
  <2>1. PICK k : /\ fs_pc \in {"clear", "clear2"} /\ fs_pc' \in {"entry", "clear2"}
                 /\ data' = [data EXCEPT ![op.inode.start + k - 1] = <<>>]
                 /\ UNCHANGED <<imap, itab, op>>
    BY <1>4 DEF ClearSector, FsTo
  <2>2. <<>> \in Seq(Range(<<>>)) /\ Range(<<>>) = {}
    BY DEF Range
  <2>3. data' = [s \in Sector |-> data'[s]] /\ \A s \in Sector : data'[s] = data[s] \/ data'[s] = <<>>
    BY <2>1 DEF FoundInv
  <2>4. \A s \in Sector : data'[s] \in Seq(Range(data'[s])) /\ Range(data'[s]) \subseteq Range(data[s])
    BY <2>2, <2>3 DEF FoundInv
  <2>5. Named' \subseteq Named
    BY <2>4 DEF Named
  <2> QED BY <2>1, <2>3, <2>4, <2>5 DEF FoundInv, Making
<1>5. CASE EnterName
  <2> DEFINE e == [id |-> op.id, name |-> op.name, type |-> op.type]
  <2>1. fs_pc = "entry" /\ fs_pc' \in {"dot", "reply"} /\ AddDirEntry(op.dir, e) /\ UNCHANGED <<imap, itab, op>>
    BY <1>5 DEF EnterName, FsTo
  <2>2. /\ data' = [s \in Sector |-> data'[s]] /\ \A s \in Sector : data'[s] \in Seq(Range(data'[s]))
        /\ \A x \in Named' : x \in Named \/ x = e
    BY <2>1, Entered1 DEF FoundInv
  <2>3. /\ e.id \in InodeId /\ imap[e.id] = 1
        /\ InodeSector(e.id) = 0 => itab[e.id].num = SectorsOf(e.type)
    BY <2>1 DEF FoundInv, Making
  <2> HIDE DEF e
  <2> QED BY <2>1, <2>2, <2>3 DEF FoundInv, Making
<1>6. CASE EnterDot \/ EnterDotDot
  <2>1. PICK dir, e : e.name \in {DOT, DOTDOT} /\ AddDirEntry(dir, e)
    <3>1. CASE EnterDot
      BY <3>1 DEF EnterDot
    <3>2. CASE EnterDotDot
      BY <3>2 DEF EnterDotDot
    <3> QED BY <1>6, <3>1, <3>2
  <2>2. fs_pc' \in {"dotdot", "reply"} /\ UNCHANGED <<imap, itab, op>>
    BY <1>6 DEF EnterDot, EnterDotDot, FsTo
  <2>3. /\ data' = [s \in Sector |-> data'[s]] /\ \A s \in Sector : data'[s] \in Seq(Range(data'[s]))
        /\ Named' \subseteq Named
    BY <2>1, Entered1 DEF FoundInv
  <2> QED BY <2>2, <2>3 DEF FoundInv, Making
<1>7. ASSUME UNCHANGED disk,
             \/ UNCHANGED <<fs_pc, op>>
             \/ fs_pc' = "idle" /\ op' \in {op, NoOp}
             \/ fs_pc' = "new_inode" /\ \E t, n, d : op' = [NoOp EXCEPT !.type = t, !.name = n, !.dir = d]
      PROVE  FoundInv'
  <2>1. op' = [type |-> op'.type, name |-> op'.name, dir |-> op'.dir, id |-> op'.id, inode |-> op'.inode] /\ op'.id \in InodeId
    <3>1. CASE op' = op
      BY <3>1 DEF FoundInv
    <3>2. CASE op' = NoOp
      BY <3>2, Ids DEF NoOp
    <3>3. CASE \E t, n, d : op' = [NoOp EXCEPT !.type = t, !.name = n, !.dir = d]
      BY <3>3, Ids DEF NoOp
    <3> QED BY <1>7, <3>1, <3>2, <3>3
  <2>2. UNCHANGED <<fs_pc, op>> \/ fs_pc' \notin Making
    BY <1>7 DEF Making
  <2> QED BY <1>7, <2>1, <2>2, NamedSame DEF FoundInv, disk, Making
<1>8. CASE \E t \in Tty : Ls(t) \/ \E n \in Name \cup {DOT, DOTDOT} : Cd(t, n)
  BY <1>7, <1>8 DEF Ls, Cd, fsVars
<1>9. ASSUME NEW t \in Tty, NEW n \in Name, NEW type \in Types, Make(t, type, n) PROVE FoundInv'
  BY <1>7, <1>9 DEF Make
<1>10. CASE Answered \/ PowerFails \/ UNCHANGED vars
  BY <1>7, <1>10 DEF Answered, PowerFails, FsTo, vars, fsVars
<1> QED BY <1>1, <1>2, <1>3, <1>4, <1>5, <1>6, <1>8, <1>9, <1>10 DEF Next, FsStep

\* mk.c:180, mk.c:201: every entry with an inode of the first sector leads to the inode
\* that was written for it, of the size of a file or of a directory, however many sectors
\* of inodes there are and however many of those behind it are written in front of the buffer.
\* (On a full disk clear_sector may erase inodes, which module FsDir does not follow up.)
THEOREM InodesAreFound == Spec /\ []RoomLeft => []InodesKept
<1>1. Init => FoundInv
  BY InitFoundInv
<1>2. FoundInv /\ [Next]_vars => FoundInv'
  BY NextFoundInv
<1>3. FoundInv => InodesKept
  <2> SUFFICES ASSUME FoundInv, NEW e \in Named, InodeSector(e.id) = 0
               PROVE  imap[e.id] = 1 /\ FindInode(e.id).num = SectorsOf(e.type)
    BY DEF InodesKept
  <2>1. e.id \in InodeId /\ e.id \in Nat /\ PerSector \in Nat
    BY Ids, FsDirAssumption DEF FoundInv
  <2>2. 0 * PerSector + e.id = e.id
    BY <2>1
  <2>3. FindInode(e.id) = itab[e.id]
    BY <2>1, <2>2, Behind DEF FindInode
  <2> QED BY <2>3 DEF FoundInv
<1> QED BY <1>1, <1>2, <1>3, PTL DEF Spec
================================================================================
