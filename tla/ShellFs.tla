-------------------------------- MODULE ShellFs --------------------------------
(***************************************************************************)
(* The file commands of the shell (shell/shell_fs.c) on the file system of *)
(* module FsDir: ls, cd, mkdir and mkfile on the terminals of Tty, and     *)
(* the power that may fail at any moment.                                  *)
(*                                                                         *)
(* Every terminal has its directory, the path it prints in front of the    *)
(* prompt, and a cache of the directory that is read again only when the   *)
(* terminal's own commands have set update_flag.  One process serves all   *)
(* terminals, so one command runs at a time, and a request and its answer  *)
(* meet as module DiskStack shows; a DIR request changes nothing and is    *)
(* part of the command that sends it.                                      *)
(*                                                                         *)
(* All commands share the buffer shell_fsbuf.  mkdir and mkfile put the    *)
(* name there, then refresh the cache through the same buffer, and only    *)
(* then send its address as the name.                                      *)
(*                                                                         *)
(* The path is a string in dir_name[DIR_NAME_SIZE], and cd appends to it   *)
(* without looking at its length.  What runs over lies in fs_buf, the      *)
(* cache, until the refresh of the next command puts the inode number of   *)
(* the first entry there.  path holds the whole components in dir_name;    *)
(* cut says that the string runs on behind it.                             *)
(*                                                                         *)
(* Users make names of Name: mkdir of ".." in the root, which has no such  *)
(* entry, is left out.                                                     *)
(***************************************************************************)
EXTENDS FsDir

CONSTANTS
  Tty,            \* the terminals
  DIR_NAME_SIZE,  \* sizeof(dir_name) (128)
  NameLen,        \* [Name -> Nat]: the length of a name
  MaxMake,        \* bound: mkdir and mkfile commands
  MaxCrash        \* bound: power failures

ASSUME ShellFsAssumption ==
  /\ MaxMake \in Nat /\ MaxCrash \in Nat
  /\ DIR_NAME_SIZE \in Nat \ {0} /\ NameLen \in [Name -> Nat \ {0}]

VARIABLES
  tty,       \* [Tty -> [flag, cwd, path, cut, cache]]  tty_table[t].fs_buffer
  asking,    \* the terminal whose command runs
  acked,     \* history: what commands were answered to have made
  makers,    \* history: the terminals that have made something in a directory
  outgrown,  \* history: the terminals whose path has run over dir_name
  made,      \* mkdir and mkfile commands so far
  crashes    \* power failures so far

vars == <<fsVars, tty, asking, acked, makers, outgrown, made, crashes>>

\* init_tty: in the root directory, with a cache to be filled.
FreshTty == [t \in Tty |-> [flag |-> 1, cwd |-> ROOT, path |-> <<>>, cut |-> FALSE, cache |-> <<>>]]

Init ==
  /\ FsInit /\ FsBoot
  /\ tty = FreshTty
  /\ asking \in Tty
  /\ makers = [i \in InodeId |-> {}] /\ outgrown = {}
  /\ acked = {} /\ made = 0 /\ crashes = 0

--------------------------------------------------------------------------------
(* Commands                                                                *)

\* update_current_dir: the terminal with its cache up to date.  (A directory
\* whose inode is lost sends nothing; InodesKept excludes it.)
Refreshed(t) ==
  IF tty[t].flag = 0 THEN tty[t]
  ELSE [tty[t] EXCEPT !.flag = 0, !.cache = DirOf(tty[t].cwd)]

\* The string at shell_fsbuf after the refresh: the name that was put there,
\* or else the inode number of the first entry, 0 if there is none.
NameSent(t, n) ==
  LET dir == DirOf(tty[t].cwd)
  IN IF tty[t].flag = 0 THEN n ELSE IF dir = <<>> THEN 0 ELSE dir[1].id

Prompt(t) == fs_pc = "idle" /\ FindInode(tty[t].cwd).num > 0

Ls(t) ==
  /\ Prompt(t)
  /\ tty[t].flag = 1
  /\ tty' = [tty EXCEPT ![t] = Refreshed(t)]
  /\ UNCHANGED <<fsVars, asking, acked, makers, outgrown, made, crashes>>

\* The first entry of that name, or none.
Hits(dir, n) == {k \in DOMAIN dir : dir[k].name = n /\ \A j \in 1 .. k - 1 : dir[j].name # n}

\* The length of the string: "/" and every component with its "/".
Chars(path) == FoldSeq(LAMBDA n, len : NameLen[n] + 1 + len, 1, path)

\* cd into an ordinary directory appends to the path.  The string and its end
\* fit into dir_name, or the string alone, or neither.
Longer(tt, n) ==
  LET new == Append(tt.path, n)
      fit == ~tt.cut /\ Chars(new) <= DIR_NAME_SIZE
  IN [path |-> IF fit THEN new ELSE tt.path, cut |-> ~fit \/ Chars(new) = DIR_NAME_SIZE]

\* cd .. ends the string behind the last "/" but one it finds: one component
\* earlier (the root stays as it is), but where the string runs on into fs_buf,
\* behind the whole components; those may fill dir_name to its last byte.
Parent(path) == IF path = <<>> THEN <<>> ELSE SubSeq(path, 1, Len(path) - 1)

Shorter(tt) ==
  IF tt.cut THEN [path |-> tt.path, cut |-> Chars(tt.path) = DIR_NAME_SIZE]
  ELSE [path |-> Parent(tt.path), cut |-> FALSE]

\* Mutant: the path printed is not shortened.
EnteredKeepsPath(tt, e) ==
  LET To(cwd, p) == [flag |-> 1, cwd |-> cwd, path |-> p.path, cut |-> p.cut, cache |-> tt.cache]
  IN CASE e.type = "file"  -> tt
       [] e.type = "folder" /\ e.name \in {DOT, DOTDOT} -> To(e.id, tt)
       [] OTHER            -> To(e.id, Longer(tt, e.name))

\* The terminal after cd to the entry e; a file is only reported.
Entered(tt, e) ==
  LET To(cwd, p) == [flag |-> 1, cwd |-> cwd, path |-> p.path, cut |-> p.cut, cache |-> tt.cache]
  IN CASE e.type = "file"  -> tt
       [] e.type = "folder" /\ e.name = DOT    -> To(tt.cwd, tt)
       [] e.type = "folder" /\ e.name = DOTDOT -> To(e.id, Shorter(tt))
       [] OTHER            -> To(e.id, Longer(tt, e.name))

Cd(t, n) ==
  /\ Prompt(t)
  /\ LET tt == Refreshed(t)
         hits == Hits(tt.cache, n)
     IN tty' = [tty EXCEPT ![t] = IF hits = {} THEN tt
                                  ELSE Entered(tt, tt.cache[CHOOSE k \in hits : TRUE])]
  /\ outgrown' = outgrown \cup {u \in {t} : tty'[u].cut}
  /\ UNCHANGED <<fsVars, asking, acked, makers, made, crashes>>

\* shell_mkdir and shell_mkfile, up to the request: check_name_repeat looks
\* the name up in the cache.
Make(t, type, n) ==
  /\ Prompt(t)
  /\ made < MaxMake /\ made' = made + 1
  /\ tty' = [tty EXCEPT ![t] = Refreshed(t)]
  /\ asking' = t
  /\ LET sent == NameSent(t, n)
     IN IF Hits(tty'[t].cache, sent) # {}
        THEN UNCHANGED <<fs_pc, op, makers>>
        ELSE /\ fs_pc' = "new_inode"
             /\ op' = [NoOp EXCEPT !.type = type, !.name = sent, !.dir = tty[t].cwd]
             /\ makers' = [makers EXCEPT ![tty[t].cwd] = @ \cup {t}]
  /\ UNCHANGED <<disk, stray, acked, outgrown, crashes>>

\* Mutant: the command leaves the cache as it is.
AnsweredKeepsCache ==
  /\ FsTo("reply", "idle")
  /\ acked' = acked \cup {[dir |-> op.dir, name |-> op.name, type |-> op.type]}
  /\ UNCHANGED <<disk, stray, op, tty, asking, makers, outgrown, made, crashes>>

\* FS has answered: the command marks its cache stale and is over.
Answered ==
  /\ FsTo("reply", "idle")
  /\ tty' = [tty EXCEPT ![asking].flag = 1]
  /\ acked' = acked \cup {[dir |-> op.dir, name |-> op.name, type |-> op.type]}
  /\ UNCHANGED <<disk, stray, op, asking, makers, outgrown, made, crashes>>

\* The power fails and comes back: the disk is what it was.
PowerFails ==
  /\ crashes < MaxCrash /\ crashes' = crashes + 1
  /\ stray' = [k \in {} |-> NoInode]
  /\ fs_pc' = "idle" /\ op' = NoOp
  /\ tty' = FreshTty /\ outgrown' = {}
  /\ UNCHANGED <<disk, asking, acked, makers, made>>

Next ==
  \/ \E t \in Tty : \/ Ls(t)
                    \/ \E n \in Name \cup {DOT, DOTDOT} : Cd(t, n)
                    \/ \E n \in Name, type \in Types : Make(t, type, n)
  \/ FsStep /\ UNCHANGED <<tty, asking, acked, makers, outgrown, made, crashes>>
  \/ Answered
  \/ PowerFails

Spec == Init /\ [][Next]_vars
--------------------------------------------------------------------------------
(* Properties                                                              *)

TypeOK ==
  /\ FsTypeOK
  /\ tty \in [Tty -> [flag : 0 .. 1, cwd : InodeId, path : Seq(Name), cut : BOOLEAN, cache : Seq(Entry)]]
  /\ makers \in [InodeId -> SUBSET Tty] /\ outgrown \subseteq Tty
  /\ asking \in Tty /\ made \in 0 .. MaxMake /\ crashes \in 0 .. MaxCrash

\* The entries that name a file or a directory from outside.
Named  == {e \in UNION {Range(data[s]) : s \in Sector} : e.name \notin {DOT, DOTDOT}}
Linked == {ROOT} \cup {e.id : e \in Named}

\* Whatever the moment of a power failure, the sectors of the inodes that
\* some directory names are marked in the map, lie behind the inode table,
\* and belong to one inode only; and no inode is named twice.
SectorsOwned ==
  /\ \A i \in Linked :
       /\ imap[i] = 1
       /\ \A s \in Extent(i) : s >= FirstData /\ smap[s] = 1
       /\ \A j \in Linked \ {i} : Extent(i) \cap Extent(j) = {}
  /\ \A d, e \in Named : d.id = e.id => d = e

\* mk.c:180 to mk.c:187: an inode is read from where it was written.  Every
\* entry leads to an inode of the size it was made with.
InodesFound == \A e \in Named : FindInode(e.id).num = SectorsOf(e.type)

\* That holds of the inodes of the first sector, whatever is written in front
\* of the buffer for those behind it, and whenever the power fails.
InodesKept ==
  \A e \in Named : InodeSector(e.id) = 0 => imap[e.id] = 1 /\ FindInode(e.id).num = SectorsOf(e.type)

\* What a command was answered to have made is in the directory, and is there
\* after every later command and power failure.
AnswersKept ==
  \A a \in acked : \E e \in Range(DirOf(a.dir)) : e.name = a.name /\ e.type = a.type

\* shell_fs.c:17, shell_fs.c:86: no directory in which one terminal only has made
\* something holds two entries of the same name, whatever the others do elsewhere
\* or read there.  (Where two make things one may find a stale cache and enter a
\* name twice.)
UniqueNames ==
  \A i \in Linked :
    (\A t, u \in makers[i] : t = u) =>
      LET dir == DirOf(i) IN \A j, k \in DOMAIN dir : dir[j].name = dir[k].name => j = k

\* The path in front of the prompt leads, from the root and name by name, to
\* the directory the commands work in, until it has run over dir_name; also
\* where the cache is out of date or the directory has two entries of a name.
PathLeadsToCwd ==
  \A t \in Tty \ outgrown :
    LET path == tty[t].path
        walk[k \in 0 .. Len(path)] ==
          IF k = 0 THEN ROOT
          ELSE LET dir == DirOf(walk[k - 1])
               IN dir[CHOOSE j \in Hits(dir, path[k]) : TRUE].id
    IN tty[t].cwd = walk[Len(path)]
================================================================================
