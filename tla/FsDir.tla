--------------------------------- MODULE FsDir ---------------------------------
(***************************************************************************)
(* The file system on the disk and the program that changes it: fs/mk.c    *)
(* makes a file or a directory as a sequence of sector writes.  Every      *)
(* write is an action, so that the power may fail between any two.         *)
(*                                                                         *)
(* The partition holds the boot sector, the super block, one sector of     *)
(* inode map, MapSects sectors of sector map, InodeSects sectors of        *)
(* inodes, and data.  Nothing is ever removed, and no call writes into a   *)
(* file: a data sector holds directory entries or zeros.                   *)
(*                                                                         *)
(* Abstractions.  A map is a function to bits, the inode table a function  *)
(* to inodes, a sector the sequence of its entries.  Reads are part of the *)
(* write that follows: FS is the only user of the disk.  The module stops  *)
(* short of a full inode map.  The map of sectors may be longer than the   *)
(* partition: a sector behind its end is taken to exist.  A name has fewer *)
(* than the 24 bytes of an entry: mk.c copies a longer one over the fields *)
(* behind it, or without its end.                                          *)
(***************************************************************************)
EXTENDS Integers, SequencesExt

CONSTANTS
  MapSects,      \* super_block.smap_sects
  SECTOR_BITS,   \* bits in a sector of the map (4096)
  InodeSects,    \* super_block.inode_sects
  PerSector,     \* inodes in a sector (16)
  INODE_SIZE,    \* sizeof(inode_t) (32)
  DirEntries,    \* directory entries in a sector (16)
  DOT, DOTDOT,   \* the names "." and ".."
  Name           \* the names a user can type besides

FirstData == 3 + MapSects + InodeSects      \* super_block.first_data_sect
Sector    == 0 .. MapSects * SECTOR_BITS - 1
InodeId   == 0 .. InodeSects * PerSector - 1
ROOT      == 1                              \* DEF_ROOT_INODE

Types        == {"file", "folder"}
SectorsOf(t) == IF t = "folder" THEN 2 ELSE 1     \* FOLDER_SIZE, msg.cnt
Inode        == [start : Sector, num : 0 .. 2]
NoInode      == [start |-> 0, num |-> 0]          \* what a zeroed sector holds

\* A name typed, or the bytes of an inode number read as a string.
AnyName == Name \cup {DOT, DOTDOT} \cup InodeId
Entry   == [id : InodeId, name : AnyName, type : Types]

ASSUME FsDirAssumption ==
  /\ MapSects \in Nat \ {0} /\ InodeSects \in Nat \ {0} /\ DirEntries \in Nat \ {0}
  /\ PerSector \in Nat \ {0} /\ INODE_SIZE \in Nat \ {0}
  /\ SECTOR_BITS \in Nat /\ FirstData + 2 <= SECTOR_BITS
  /\ DOT # DOTDOT /\ {DOT, DOTDOT} \cap Name = {}
  /\ 2 <= PerSector /\ 2 * PerSector <= INODE_SIZE

VARIABLES
  imap,     \* [InodeId -> 0..1]
  smap,     \* [Sector -> 0..1]
  itab,     \* [InodeId -> Inode]
  data,     \* [Sector -> Seq(Entry)]
  stray,    \* memory in front of mk_buf: [negative offset -> Inode]
  fs_pc,    \* where fs_task is in mk_file or mk_dir
  op        \* its arguments and local variables

disk    == <<imap, smap, itab, data>>
fsVars  == <<disk, stray, fs_pc, op>>

NoOp == [type |-> "file", name |-> DOT, dir |-> ROOT, id |-> 0, inode |-> NoInode]

\* What mkfs leaves: the root directory is inode 1 and names itself.
FsInit ==
  /\ imap = [i \in InodeId |-> IF i <= ROOT THEN 1 ELSE 0]
  /\ smap = [s \in Sector |-> IF s < FirstData + 2 THEN 1 ELSE 0]
  /\ itab = [i \in InodeId |-> IF i = ROOT THEN [start |-> FirstData, num |-> 2] ELSE NoInode]
  /\ data = [s \in Sector |-> IF s = FirstData
                              THEN <<[id |-> ROOT, name |-> DOT, type |-> "folder"]>> ELSE <<>>]

\* The memory of a started system: nothing in front of mk_buf but zeros.
FsBoot ==
  /\ stray = [k \in {} |-> NoInode]
  /\ fs_pc = "idle"
  /\ op = NoOp

--------------------------------------------------------------------------------
(* Inodes                                                                  *)

InodeSector(id) == id \div PerSector

\* sector_offset, in inodes.  The factor is the size of an inode where the
\* comment has the number of inodes in a sector.
Slot(id) == id - InodeSector(id) * INODE_SIZE

\* The inode that find_inode copies out of mk_buf, or from in front of it.
FindInode(id) ==
  IF Slot(id) >= 0 THEN itab[InodeSector(id) * PerSector + Slot(id)]
  ELSE IF Slot(id) \in DOMAIN stray THEN stray[Slot(id)] ELSE NoInode

\* Mutant: the sector is not written back.
ForgetInode(id, inode) == UNCHANGED <<itab, stray>>

UpdateInode(id, inode) ==
  IF Slot(id) >= 0
  THEN /\ itab' = [itab EXCEPT ![InodeSector(id) * PerSector + Slot(id)] = inode]
       /\ UNCHANGED stray
  ELSE /\ stray' = [k \in DOMAIN stray \cup {Slot(id)} |->
                      IF k = Slot(id) THEN inode ELSE stray[k]]
       /\ UNCHANGED itab

\* get_new_inode: the first clear bit.
GetNewInode == Min({i \in InodeId : imap[i] = 0})

--------------------------------------------------------------------------------
(* The sector map                                                          *)

\* The runs of n sectors, and those of clear bits.
Runs(n)     == {s \in Sector : \A k \in s .. s + n - 1 : k \in Sector}
FreeRuns(n) == {s \in Runs(n) : \A k \in s .. s + n - 1 : smap[k] = 0}

\* Where inode_alloc_sector puts an inode: the run that ends first.  If there is
\* none, start_sect keeps what the stack held, and mk_inode goes on with it; what
\* clear_sector then erases in front of the data is not followed up.
AllocStarts(n) == IF FreeRuns(n) = {} THEN Runs(n) ELSE {Min(FreeRuns(n))}

\* Mutant: one bit too few is set.
MarkAllButLast(start, count) ==
  smap' = [s \in Sector |-> IF s \in start .. start + count - 2 THEN 1 ELSE smap[s]]

\* update_sector_map, for a count of at most one map sector: it reads one
\* sector of the map and writes it when the last bit is set; a run that goes
\* on into the next sector is never written.
UpdateSectorMap(start, count) ==
  smap' = IF start \div SECTOR_BITS = (start + count - 1) \div SECTOR_BITS
          THEN [s \in Sector |-> IF s \in start .. start + count - 1 THEN 1 ELSE smap[s]]
          ELSE smap

--------------------------------------------------------------------------------
(* Directories                                                             *)

Extent(id) == LET i == FindInode(id) IN i.start .. i.start + i.num - 1

\* The entries of a directory, as get_dir_entries sends them.
DirOf(id) ==
  LET i == FindInode(id)
  IN IF i.num = 0 THEN <<>>
     ELSE FlattenSeq([k \in 1 .. i.num |-> data[i.start + k - 1]])

\* Mutant: only the first sector of the directory is searched.
AddToFirstSector(dir, entry) ==
  LET Room == {s \in Extent(dir) : s = FindInode(dir).start /\ Len(data[s]) < DirEntries}
  IN data' = IF Room = {} THEN data ELSE [data EXCEPT ![Min(Room)] = Append(@, entry)]

\* Mutant: one entry too many fits into a sector.
AddBehindSector(dir, entry) ==
  LET Room == {s \in Extent(dir) : Len(data[s]) <= DirEntries}
  IN data' = IF Room = {} THEN data ELSE [data EXCEPT ![Min(Room)] = Append(@, entry)]

\* The first empty place; a full directory drops the entry.
AddDirEntry(dir, entry) ==
  LET Room == {s \in Extent(dir) : Len(data[s]) < DirEntries}
  IN data' = IF Room = {} THEN data ELSE [data EXCEPT ![Min(Room)] = Append(@, entry)]

--------------------------------------------------------------------------------
(* mk_file and mk_dir, one sector write at a time                          *)

FsTo(a, b) == fs_pc = a /\ fs_pc' = b

NewInode ==
  /\ FsTo("new_inode", "alloc")
  /\ \E i \in InodeId : imap[i] = 0
  /\ op' = [op EXCEPT !.id = GetNewInode]
  /\ imap' = [imap EXCEPT ![op'.id] = 1]
  /\ UNCHANGED <<smap, itab, data, stray>>

InodeAllocSector ==
  /\ FsTo("alloc", "update")
  /\ LET n == SectorsOf(op.type)
     IN \E start \in AllocStarts(n) :
          /\ op' = [op EXCEPT !.inode = [start |-> start, num |-> n]]
          /\ IF FreeRuns(n) = {} THEN UNCHANGED smap ELSE UpdateSectorMap(start, n)
  /\ UNCHANGED <<imap, itab, data, stray>>

WriteInode ==
  /\ FsTo("update", "clear")
  /\ UpdateInode(op.id, op.inode)
  /\ UNCHANGED <<imap, smap, data, op>>

\* clear_sector, one sector after the other.
ClearSector ==
  \E k \in 1 .. op.inode.num :
    /\ FsTo(IF k = 1 THEN "clear" ELSE "clear2",
            IF k = op.inode.num THEN "entry" ELSE "clear2")
    /\ data' = [data EXCEPT ![op.inode.start + k - 1] = <<>>]
    /\ UNCHANGED <<imap, smap, itab, stray, op>>

\* The entry in the directory named by the request, ...
EnterName ==
  /\ FsTo("entry", IF op.type = "folder" THEN "dot" ELSE "reply")
  /\ AddDirEntry(op.dir, [id |-> op.id, name |-> op.name, type |-> op.type])
  /\ UNCHANGED <<imap, smap, itab, stray, op>>

\* ... and the two entries of a new directory.
EnterDot ==
  /\ FsTo("dot", "dotdot")
  /\ AddDirEntry(op.id, [id |-> op.id, name |-> DOT, type |-> "folder"])
  /\ UNCHANGED <<imap, smap, itab, stray, op>>

EnterDotDot ==
  /\ FsTo("dotdot", "reply")
  /\ AddDirEntry(op.id, [id |-> op.dir, name |-> DOTDOT, type |-> "folder"])
  /\ UNCHANGED <<imap, smap, itab, stray, op>>

FsStep == NewInode \/ InodeAllocSector \/ WriteInode \/ ClearSector
          \/ EnterName \/ EnterDot \/ EnterDotDot

FsTypeOK ==
  /\ imap \in [InodeId -> 0 .. 1] /\ smap \in [Sector -> 0 .. 1] /\ itab \in [InodeId -> Inode]
  /\ data \in [Sector -> Seq(Entry)] /\ \A s \in Sector : Len(data[s]) <= DirEntries
  /\ \A k \in DOMAIN stray : stray[k] \in Inode
  /\ fs_pc \in {"idle", "new_inode", "alloc", "update", "clear", "clear2", "entry",
                "dot", "dotdot", "reply"}
  /\ op \in [type : Types, name : AnyName, dir : InodeId, id : InodeId, inode : Inode]
================================================================================
