--------------------------------- MODULE Tasks ---------------------------------
(***************************************************************************)
(* From the task table to running processes: kern_init adds the tasks,     *)
(* every clock tick starts the waiting ones for which the process table    *)
(* has room (task_line_schedule), and the shell's kill command ends a      *)
(* process (sys_kill).                                                     *)
(*                                                                         *)
(* sys_kill runs with interrupts enabled and prints between its two        *)
(* stores: the variable kernel is the position in it, and a clock tick may *)
(* fall in between.  The slots of the process table start as zeroed memory *)
(* (bss), so a slot never used has task number 0.                          *)
(*                                                                         *)
(* Abstractions.  A selector is an index into the GDT.  The registers and  *)
(* the LDT contents of a new process are constants of its level and slot   *)
(* and left out.  Processes make no message calls here.                    *)
(***************************************************************************)
EXTENDS Sched

CONSTANTS
  NTask,       \* tasks that kern_init adds
  Name,        \* their names
  Level,       \* their levels
  GDT_LENGTH,  \* entries of the GDT
  KillPids,    \* the numbers typed after kill
  MaxKill,     \* bound: kill commands
  KillUnused,  \* may a slot be killed that no process has had yet?
  StartInKill  \* may a tick that starts a task fall between the two stores of
               \* sys_kill?

Task == 0 .. NTask - 1

TASK_STOP    == 0
TASK_RUNNING == 1
TASK_WAITING == 2

KERNEL_TASK == 0
SYS_TASK    == 1
USER_TASK   == 3

Server == {"HD", "FS", "TTY", "MM"}    \* tasks whose pid the kernel records

FIRST_LDT == 5     \* entries 0 to 3 are set by init_gdt, 4 is the TSS

\* The GDT has a descriptor for every task: 8 tasks and 50 entries in the code.
ASSUME TasksAssumption ==
  /\ NULL \in Content /\ NTask \in Nat \ {0}
  /\ Name \in [Task -> STRING]
  /\ Level \in [Task -> {KERNEL_TASK, SYS_TASK, USER_TASK}]
  /\ \A t, u \in Task : Name[t] = Name[u] => t = u
  /\ GDT_LENGTH \in 0 .. 255 /\ FIRST_LDT + NTask <= GDT_LENGTH
  /\ KillPids \subseteq Proc
  /\ MaxKill \in Nat /\ KillUnused \in BOOLEAN /\ StartInKill \in BOOLEAN

VARIABLES
  task_size,   \* tasks added
  tstatus,     \* [Task -> task_status]   task_table[t].status
  tpid,        \* [Task -> Proc \cup {-1}]  task_table[t].pid
  ptid,        \* [Proc -> Task]          procs[p].tid
  ldtr,        \* [Proc -> Nat]           procs[p].ldtr
  gdt,         \* whose LDT each GDT entry describes, or NULL
  gdt_idx,     \* the next free GDT entry (uint8_t)
  server_pid,  \* [Server -> Proc \cup {-1}]  hd_pid, fs_pid, tty_pid, mm_pid
  kernel,      \* "boot", "user", or "kill": between the stores of sys_kill
  kill_pid,    \* the argument of that call
  kills        \* kill commands so far

taskVars  == <<task_size, tstatus, tpid, server_pid>>
pcbVars   == <<ptid, ldtr, gdt, gdt_idx>>
shellVars == <<kernel, kill_pid, kills>>
vars      == <<msgVars, schedVars, taskVars, pcbVars, shellVars>>

Init ==
  /\ MsgInit
  /\ mem = [p \in Proc |-> [s \in Struct |-> NULL]]
  /\ take_up = [p \in Proc |-> 0] /\ current_proc = 0 /\ proc_ptr = 0
  /\ task_size = 0
  /\ tstatus = [t \in Task |-> TASK_STOP] /\ tpid = [t \in Task |-> 0]
  /\ server_pid = [n \in Server |-> 0]
  /\ ptid = [p \in Proc |-> 0] /\ ldtr = [p \in Proc |-> 0]
  /\ gdt = [e \in 0 .. GDT_LENGTH - 1 |-> NULL] /\ gdt_idx = FIRST_LDT
  /\ kernel = "boot" /\ kill_pid = 0 /\ kills = 0

--------------------------------------------------------------------------------
(* task.c and the boot sequence                                            *)

AddNewTask ==
  /\ kernel = "boot" /\ task_size < NTask
  /\ tstatus' = [tstatus EXCEPT ![task_size] = TASK_WAITING]
  /\ tpid' = [tpid EXCEPT ![task_size] = -1]
  /\ task_size' = task_size + 1
  /\ UNCHANGED <<msgVars, schedVars, server_pid, pcbVars, shellVars>>

\* Only INIT and the tasks of two of the three levels are ever started.
Startable ==
  {t \in Task : /\ t < task_size
                /\ tstatus[t] = TASK_WAITING
                /\ Name[t] = "INIT" \/ Level[t] \in {SYS_TASK, USER_TASK}}

\* A slot that has had a process keeps its selector when the process ends.
Used(p) == ldtr[p] # 0

Empty == {p \in Proc : take_up[p] = 0}

\* The scan over the task table gives the first startable tasks, in order,
\* the first empty slots, until one of the two runs out.
Placement(S, f) ==
  /\ \A t \in S, u \in Startable : u < t => u \in S
  /\ \A t, u \in S : u < t => f[u] < f[t]
  /\ \A t \in S : take_up[f[t]] = 0
  /\ \A t \in S, p \in Empty : p < f[t] => \E u \in S : f[u] = p
  /\ S = Startable \/ \A p \in Empty : \E u \in S : f[u] = p

\* memset of the PCBs in P, and take_up = 1.
ClearPCBs(P) ==
  LET Zero(field, z) == [p \in Proc |-> IF p \in P THEN z ELSE field[p]]
  IN /\ msg_block'    = Zero(msg_block, 0)
     /\ recv_from'    = Zero(recv_from, 0)
     /\ send_to'      = Zero(send_to, 0)
     /\ msg'          = Zero(msg, NULL)
     /\ msg_head'     = Zero(msg_head, NULL)
     /\ msg_next'     = Zero(msg_next, NULL)
     /\ int_status'   = Zero(int_status, NO_INT)
     /\ interrupt_id' = Zero(interrupt_id, 0)
     /\ take_up'      = Zero(take_up, 1)
     /\ UNCHANGED mem

\* The task that gets slot p, and the GDT entry that task t gets.
Holder(S, f, p) == CHOOSE t \in S : f[t] = p
Entry(S, t) == gdt_idx + Cardinality({u \in S : u < t})

\* The descriptors of the tasks in S, written one after the other, and the
\* selectors in their PCBs.
FillDescriptors(S, f) ==
  /\ ldtr' = [p \in Proc |-> IF \E t \in S : f[t] = p THEN Entry(S, Holder(S, f, p)) ELSE ldtr[p]]
  /\ gdt' = [e \in 0 .. GDT_LENGTH - 1 |->
               IF \E t \in S : Entry(S, t) = e THEN f[CHOOSE t \in S : Entry(S, t) = e] ELSE gdt[e]]

\* Mutant: the index is not advanced past the last descriptor.
SharedDescriptors(S, f) ==
  /\ FillDescriptors(S, f)
  /\ gdt_idx' = (gdt_idx + (IF S = {} THEN 0 ELSE Cardinality(S) - 1)) % 256

\* new_ldt_descriptor, once for each task started.
NewDescriptors(S, f) ==
  /\ FillDescriptors(S, f)
  /\ gdt_idx' = (gdt_idx + Cardinality(S)) % 256

\* Mutant: the number of the task is recorded.
RecordTids(pid) ==
  server_pid' = [n \in Server |->
    IF \E t \in Startable : Name[t] = n /\ Level[t] = SYS_TASK
    THEN CHOOSE t \in Startable : Name[t] = n ELSE server_pid[n]]

\* hd_pid, fs_pid, tty_pid, mm_pid; the pid recorded is -1 if no slot was left.
RecordServers(pid) ==
  server_pid' = [n \in Server |->
    IF \E t \in Startable : Name[t] = n /\ Level[t] = SYS_TASK
    THEN pid[CHOOSE t \in Startable : Name[t] = n] ELSE server_pid[n]]

\* new_init_proc, new_task_proc and new_user_proc of the tasks in S, and the
\* links between task and process.  A task that finds no slot gets pid -1.
TaskLineSchedule ==
  \E S \in SUBSET Startable : \E f \in [S -> Empty] :
    /\ Placement(S, f)
    /\ ClearPCBs({f[t] : t \in S})
    /\ NewDescriptors(S, f)
    /\ tstatus' = [t \in Task |-> IF t \in S THEN TASK_RUNNING ELSE tstatus[t]]
    /\ tpid' = [t \in Task |-> IF t \in S THEN f[t]
                               ELSE IF t \in Startable THEN -1 ELSE tpid[t]]
    /\ ptid' = [p \in Proc |-> IF \E t \in S : f[t] = p THEN Holder(S, f, p) ELSE ptid[p]]
    /\ RecordServers(tpid')
    /\ UNCHANGED task_size

\* The last two calls of kern_init.
StartKernel ==
  /\ kernel = "boot" /\ task_size = NTask
  /\ TaskLineSchedule
  /\ current_proc' = 0
  /\ kernel' = "user"
  /\ UNCHANGED <<proc_ptr, kill_pid, kills>>

--------------------------------------------------------------------------------
(* The clock and the kill command                                          *)

\* Mutant: the tick does not look for waiting tasks.
TickSchedulesOnly ==
  /\ kernel = "user" \/ (kernel = "kill" /\ (StartInKill \/ Startable = {}))
  /\ ProcLineSchedule(msg_block, take_up)
  /\ UNCHANGED <<take_up, msgVars, taskVars, pcbVars, shellVars>>

\* clock_handler: first the tasks, then the processes.
Tick ==
  /\ kernel = "user" \/ (kernel = "kill" /\ (StartInKill \/ Startable = {}))
  /\ TaskLineSchedule
  /\ ProcLineSchedule(msg_block', take_up')
  /\ UNCHANGED shellVars

\* The two stores of sys_kill.  Who made the call is left to module Trap: by
\* the first store a tick may have chosen another process.
KillFree(p) ==
  /\ kernel = "user" /\ kills < MaxKill
  /\ KillUnused \/ Used(p)
  /\ take_up' = [take_up EXCEPT ![p] = 0]
  /\ kernel' = "kill" /\ kill_pid' = p /\ kills' = kills + 1
  /\ UNCHANGED <<msgVars, current_proc, proc_ptr, taskVars, pcbVars>>

\* Mutant: the task with the number of the process is stopped.
StopByPid ==
  /\ kernel = "kill"
  /\ tstatus' = [t \in Task |-> IF t = kill_pid THEN TASK_STOP ELSE tstatus[t]]
  /\ kernel' = "user"
  /\ UNCHANGED <<msgVars, schedVars, task_size, tpid, server_pid, pcbVars, kill_pid, kills>>

\* The task number is read here, after the slot was freed.
KillStop ==
  /\ kernel = "kill"
  /\ tstatus' = [tstatus EXCEPT ![ptid[kill_pid]] = TASK_STOP]
  /\ kernel' = "user"
  /\ UNCHANGED <<msgVars, schedVars, task_size, tpid, server_pid, pcbVars, kill_pid, kills>>

Next == AddNewTask \/ StartKernel \/ Tick \/ (\E p \in KillPids : KillFree(p)) \/ KillStop

Spec == Init /\ [][Next]_vars
--------------------------------------------------------------------------------
(* Properties                                                              *)

TypeOK ==
  /\ MsgTypeOK /\ SchedTypeOK
  /\ task_size \in 0 .. NTask
  /\ tstatus \in [Task -> {TASK_STOP, TASK_RUNNING, TASK_WAITING}]
  /\ tpid \in [Task -> Proc \cup {-1}]
  /\ server_pid \in [Server -> Proc \cup {-1}]
  /\ ptid \in [Proc -> Task] /\ ldtr \in [Proc -> 0 .. GDT_LENGTH - 1]
  /\ gdt \in [0 .. GDT_LENGTH - 1 -> Proc \cup {NULL}] /\ gdt_idx \in 0 .. 255
  /\ kernel \in {"boot", "user", "kill"} /\ kill_pid \in Proc /\ kills \in 0 .. MaxKill

\* The task a kill in progress is about to stop.
Ending(t) == kernel = "kill" /\ ptid[kill_pid] = t

\* sched.c:105: task and process are linked both ways.  A running task has a
\* process of its own that knows its number, and a process in use belongs to
\* a running task that knows its slot.
Mapping ==
  /\ \A t \in Task : (tstatus[t] = TASK_RUNNING /\ ~Ending(t)) =>
       tpid[t] \in Proc /\ take_up[tpid[t]] = 1 /\ ptid[tpid[t]] = t
  /\ \A p \in Proc : take_up[p] = 1 =>
       tstatus[ptid[p]] = TASK_RUNNING /\ tpid[ptid[p]] = p

\* The selector a process in use is resumed with describes its own LDT:
\* descriptors are never freed, so it must not be given out a second time.
OwnLdt == \A p \in Proc : take_up[p] = 1 => gdt[ldtr[p]] = p

\* The pid under which the others call a server is the pid of the process of
\* the running task of that name.
ServersKnown ==
  \A t \in Task : (Name[t] \in Server /\ Level[t] = SYS_TASK /\ tstatus[t] = TASK_RUNNING /\ ~Ending(t))
    => server_pid[Name[t]] = tpid[t]

\* A slot that is free while a task waits for one is filled.
FreeSlotsFilled ==
  (kernel # "boot" /\ Startable # {} /\ Empty # {}) ~> (Startable = {} \/ Empty = {})
================================================================================
