# Verification of K'OS 2.0 in TLA+

This directory models the kernel and the system processes of the repository,
a small x86 operating system in C and assembly: a round-robin scheduler,
synchronous message passing between processes, a disk driver and a file
system that are processes of their own, a keyboard and terminals, and a shell
with file commands.  TLC checks the models on small instances (`MC*.tla`,
`*.cfg`); TLAPS proves every safety property of the passing runs - of message passing,
the task table, the way into the kernel, the disk path, keyboard and terminals, the file
system and the kernel heap - and the refinement of the abstract specifications, for
every value of the constants that meets the hypotheses of section 6 (`*Proofs.tla`).  Paths below are relative to `src/`.

Contents: 1 inventory, 2 modules, 3 runs, 4 bounds, 5 fairness, 6 proofs,
7 where code and comments disagree, 8 what is not modelled, 9 plan.

## 1. Inventory

| Component | State | Operations | What makes it correct |
|---|---|---|---|
| Message passing, `msg/msg.c` | IPC fields of the PCB (`include/proc.h`): `msg_block`, `recv_from`, `send_to`, `msg`, `msg_head`, `msg_next`, `int_status`, `interrupt_id` | `msg_send`, `msg_receive`, `insert_msg_queue`, `msg_send_interrupt`, `msg_recv_interrupt` | every message arrives once, unchanged, in order; queues hold exactly the blocked senders and have no cycle; no interrupt is lost |
| Scheduler, `proc/sched.c`, `driver/timer.c` | `procs[].take_up`, `current_proc`, `proc_ptr` | `proc_line_schedule`, `clock_handler`, `task_line_schedule` | the running process is never blocked; every runnable one gets its turn; free slots are filled |
| Process calls, `sys/proc/sys_call_proc.c` | none of its own | `sys_send_message`, `sys_recv_message`, `sys_recv_interrupt`, `sys_kill`, `sys_get_proc_pid` | they end in a reschedule when the caller is blocked; they act on the caller |
| Tasks and process creation, `proc/task.c`, `proc/proc.c`, `gdt/gdt.c` | `task_table`, `procs[].tid`, `procs[].ldtr`, GDT and `gdt_idx`, `hd_pid`, `fs_pid`, `tty_pid`, `mm_pid` | `add_new_task`, `new_task_proc`, `gdt_push` | task and process stay linked both ways; a process runs on its own LDT; servers are known by their pid |
| Disk driver, `driver/hd.c` | `hdbuf`, `hd_part`, `hd_part_num`; the ATA controller | `hd_task` with open, read, write; `hd_handler` | commands, data port and interrupts keep step; answers match requests |
| File system task, `fs/fs.c`, `fs/read.c`, `fs/write.c`, `fs/opt.c` | `fs_root`, `super_block`, buffers | start-up (`fs_init`), request loop, `fs_read`, `fs_write` | it comes up, and each request gets its own answer |
| Directories and inodes, `fs/mk.c` | inode map, sector map, inode table, directory sectors on the disk; `mk_buf` | `mk_file`, `mk_dir`, `mk_inode`, `find_inode`, `add_dir_entry` | a sector has one owner; what was answered survives a power failure |
| Shell, `shell/shell_fs.c`, `shell_task.c` | per terminal: directory, path, cache, `update_flag`; `shell_fsbuf` | ls, cd, mkdir, mkfile, kill | names are unique in a directory; path and directory belong together |
| Keyboard, `driver/keyboard.c` | ring buffer `keyboard_buffer` | `keyboard_handler` (interrupt), `keyboard_buffer_read` (task) | every byte is taken once, in order |
| Terminals, `tty/tty.c` | `tty_table[]`: character queue, command line, `current_tty` | `tty_putc`, `tty_print`, `tty_flush`, `tty_switch` | every character is processed once, on the terminal it was typed at |
| Trap entry, `idt/idt_s.s`, `idt/idt.c`, `proc/sched_s.s` | register frames `procs[].regs`, `k_reenter`, the kernel stack, `tss.esp0`, LDTR, the mask of the interrupt controller | `save`, `restart`, `restart_reenter`, `sys_call`, the stubs of master and slave, `first_proc_start` | every process goes on with its own registers; the depth is counted; no line interrupts its own handler |
| Memory, `mm/pmm.c`, `mm/heap.c`, `mm/vmm.c` | stack of free pages, list of heap chunks, page tables | alloc/free, map/unmap | nothing is handed out twice |
| Memory manager and fork, `mm/mm.c`, `libs/fork.c` | none | answers a fork request | each request is answered |
| Debugging tasks, `debug/debug_proc.c` | none | two senders, one receiver | as message passing |
| Boot, console, printing, library | hardware set-up, screen memory | straight-line code, output | not a concurrent concern |

**Interaction.**  A process makes a system call (`int 48`), which runs on the
kernel stack *with interrupts enabled*; a clock interrupt may fall inside it
and reschedule, and the call then goes on.  Processes interact by
`send_message`/`recv_message`, which block until both sides have met: shell
(process TTY) -> FS -> HD, each waiting for its answer.  HD programs the
controller and blocks in `recv_interrupt` until `hd_handler` calls
`msg_send_interrupt`.  KEYBOARD and TTY share the character buffers without
messages and without locks.  The keyboard interrupt and KEYBOARD share the ring
buffer in the same way.  The clock interrupt starts waiting tasks in free
process slots.

**Hard behaviours.**  Clock interrupts inside kernel code that changes what the
scheduler reads; device interrupts between the test of a status and the store
that depends on it; a receiver that takes a sender out of the middle of a queue;
fields of the PCB that outlive the call that set them; two start-up orders; answers
that must not be shifted by one; a power failure between two sector writes; counters of
one byte; caches of the directory that other terminals change; links that a split leaves
behind.  `PROJECT.json` lists them under `hazards`,
each at its line with the properties that look for it, or a note why none does.

## 2. Modules

    Msg <- Sched <- Clients <- ClientsRefine <- MCClients
      |       |                    `- MsgProofs <- ClientsProofs (proofs)
      |       |- DiskStack <- MCDiskStack
      |       |    `- DiskStackProofs (proofs)
      |       `- Tasks <- Trap <- MCTrap        (Tasks <- MCTasks)
      |            `- TasksProofs <- TrapProofs (proofs)
    Rendezvous (abstract; instantiated by ClientsRefine)
    Terminal <- MCTerminal;   TerminalProofs (proofs)
    FsDir <- ShellFs <- MCShellFs;    FsDirProofs (proofs)
    Pages <- Heap <- MCHeap;   HeapProofs (proofs);   Allocator (abstract; instantiated by Heap)

**Msg** - the functions of `msg/msg.c`, one operator each, over the fields of the
PCBs.  A `msg_t *` is modelled as a pointer: `msg[p]` names a structure in the
memory `mem[p]` of process p, so a structure that is overwritten while a pointer
to it is queued is visible.  `msg_recv_interrupt` is split at its stores, because
it is interrupted there.

**Sched** - `proc_line_schedule` (the scan from `proc_ptr`, `Scan`), the clock
handler and the two blocking system calls.  `TickInside` is a clock interrupt
inside a call: the nested scan saw `msg_block` as it was before the call.  At
most one tick is put into a call: a call takes a small part of a time slice.

**Clients** - any processes that send and receive over a set of links, after the
senders and the receiver of `debug/debug_proc.c`; every result about message
passing is stated here.  A process of `Quiet` never calls (the task INIT is an
empty loop), so the scan always finds somebody; without one the scan of
`proc/sched.c:31` has no end.

**Rendezvous** - the abstract specification of message passing: senders wait in a
line, a receiver takes the first that fits, the body arrives as it was.
**ClientsRefine** maps the linked queues, pointers, `msg_block` and the call of
each process to lines, wishes and boxes, and states `ImplementsRendezvous`.

**DiskStack** - four processes (TTY, FS, HD, and an idle one) run their programs
on Msg and Sched, with the ATA controller as external component (`Dev*`, modelled
from the commands `driver/hd.c` gives it and the interrupts it expects; after a write
command it is taken to ask for the data at once, for which `hd_write` waits without a
test of its own).  A sector is a number; FS serves a command by any sequence of at most `MaxIO` sector
accesses, which covers what `fs/opt.c` does.

**Tasks** - `kern_init` filling the task table, `task_line_schedule` in every
clock tick, the creation of a process (slot, task number, LDT descriptor, server
pids), and `sys_kill`, split at its print between the two stores.

**Trap** - the entry and the exit of the kernel around the actions of Tasks.  A trap
saves the registers where `tss.esp0` points (user mode) or on the stack in use
(kernel), counts `k_reenter` and, at depth 0, moves to the top of the kernel stack;
what `save` pushes as the way back (`restart` or `restart_reenter`) decides what the
end of the stub does.  The stubs of the master's lines mask their own line and enable
interrupts, those of the slave do not, and a system call runs with interrupts enabled:
the kernel stack is a sequence of what runs on it.  A register frame is the task it
belongs to, and a frame that has been loaded is worth nothing until the next save.  The
system calls in it are kill, called by the shell, and get_proc_pid, called by `mm_init`;
`ImplementsTasks` says that every step is one of Tasks or leaves its variables alone.

**Terminal** - keyboard interrupt, KEYBOARD and TTY.  `count--` and `buf_size++`
are a load and a store each, as the compiler emits them without optimisation, and an
interrupt may fall in between.  The histories `lost`, `torn`, `overrun` and `raced` record
where the code goes wrong, so that the properties can say how far it is right in every
interleaving: `lost` counts the interrupts inside `count--`, `torn` is set when the second
byte of a code is taken from an empty buffer, `overrun` when a byte is written over one
not yet taken, `raced` when TTY takes a character, or flushes the terminal, inside
`tty_putc`.

**FsDir** - the partition as `mkfs` leaves it and `mk_file`/`mk_dir` as sequences
of sector writes.  The place of an inode in its sector is computed as in
`fs/mk.c:201`; a negative offset reaches the memory in front of `mk_buf`
(`stray`), which a power failure clears.  **ShellFs** puts the commands of
`shell/shell_fs.c` on top, with the directory, path and cache of each terminal, and
`PowerFails`.  `NameSent` is the content of `shell_fsbuf` when FS reads it.  The path is the
string in `dir_name[DIR_NAME_SIZE]`: `Longer` appends without a test, as `strcat` does, and
`cut` says that the string runs on into the cache behind it, of which the next refresh
leaves nothing; `Shorter` is what cd .. then makes of it.

**Pages** - the stack of free physical pages (`mm/pmm.c`) and map, unmap and
get_mapping (`mm/vmm.c`), as operators on one record.  **Heap** - kmalloc and kfree
(`mm/heap.c`) over them: the linked chunks with their headers in memory, split and
merged as in the code, pages mapped and given back, and the shell's alloc beside it.
**Allocator** is the abstract specification: a block handed out shares no address
with a block in use.  Nothing in the source calls
the heap but `test_heap`, whose call is commented out (`init/entry.c:98`), so its users are
any calls in any order.  `Kfree` frees whatever header it finds, as the code does: that a
header whose prev link is stale has been returned is recorded (`stale`), not forbidden.

Definitions whose comment starts with "Mutant:" are altered forms of the
definition that follows (or precedes) them; nothing uses them.  A run in which one
replaces its original violates the property it is paired with in `PROJECT.json`:
that is how each property is known to depend on the code it speaks about.

## 3. Runs

| Run | Question | Size |
|---|---|---|
| `clients` | two senders, a receiver of ANY and one that names its sender, an idle process: are queues exact and acyclic, is nothing lost, repeated, reordered or missed, does the kernel implement Rendezvous, is every sender to an ANY-receiver released? | 87k states, 75 s |
| `disk_fast` | a disk of any speed: do driver, file system and shell keep their answers apart, whatever else happens? | 1.5M states, 45 s |
| `disk_slow` | a disk slower than `msg_recv_interrupt`: is no interrupt lost, is a message only handed to a receiver, does FS come up and with the partition it asked for, and is each command answered? | 160k states, 60 s |
| `tasks` | six tasks (one of a level that is not started) for three slots, three kills, interrupts of three lines nested in calls and in each other: links, selectors, server pids, filled slots, register frames, depth of nesting | 29k states, 65 s |
| `terminal` | a patient user at two terminals, nothing interrupted: is every key processed in the end, once, in order, on its terminal? | 183k states, 9 s |
| `keyboard` | two terminals, typing ahead, interrupts and clock ticks at every instruction, split keys, more bytes than buffer and counters hold: what does KEYBOARD take, by how much is the count off, and is what it puts into a queue what TTY takes out of it? | 1.1M states, 10 s |
| `fs` | mkdir, mkfile, cd, ls on two terminals, the power failing anywhere, twice: sectors owned, inodes and answers kept, names unique, paths true? | 150k states, 15 s |
| `heap` | kmalloc and kfree of three lengths, beside alloc, up to the first return of a chunk with a stale prev link: does the heap implement Allocator, and are its pages its own? | 813k states, 60 s |
| `disk_lost` | violation: an interrupt that comes between test and store | |
| `disk_early` | violation: a message handed to a process that does not receive | |
| `fs_inode` | violation: the first inode of the second sector of the table | |
| `heap_twice` | violation: the heap beyond the return of a chunk with a stale prev link | |

What the properties say:

- *Clients*: `AcyclicQueues` (the walks along `msg_next` end), `CurrentNotBlocked`
  (nobody blocked runs, in spite of ticks inside calls), `QueueExact` (queue of q =
  processes blocked in a send to q), `NoMissedRendezvous` (no receiver sleeps beside
  a sender it accepts), `ExactlyOnce` (sent = seen + on the way, content and order),
  `SendersReleased`.  `QueueExact`,
  `NoMissedRendezvous`, `ExactlyOnce` and `ImplementsRendezvous` speak of *one-way* mixes
  (`OneWay`: nobody that is sent to sends).  Where a process both sends and is sent
  to, they do not hold of this code: see `disk_early` in section 7.
- *DiskStack*: `DriverInStep` relates the driver's position to the controller's
  state, `AnswersMatch` what FS reads and writes to the disk, `ShellAnswered` the
  shell's return to FS's answer; `NoLostInterrupt`, `OnlyReceiversGetMessages`,
  `FsComesUp`, `CommandsAnswered`.
- *Tasks*: `Mapping` (task <-> process), `OwnLdt`, `ServersKnown`, `FreeSlotsFilled`.
- *Trap*: `NestingCounted` (`k_reenter`, the ways back and the interrupt mask fit what is
  on the kernel stack), `ContextKept` (in user mode the CPU has the registers and the LDT of
  `current_proc`, every other process in use has its own frame in its PCB),
  `ImplementsTasks`.
- *Terminal*: `CountExact` (`count` is what was typed and not taken, less one for each
  interrupt inside `count--`, modulo its width), `TakesWhatWasTyped` (the bytes taken are
  the bytes sent, until torn, overrun or head at the end of the buffer),
  `ShowsWhatWasPut` (between two flushes TTY takes the characters of a queue in order, until
  raced or more of them than the counter counts), `KeysArrive` (for a patient user, from the
  key to the screen: all of them, in order, on their terminal).
- *ShellFs*: `SectorsOwned` (at every moment, so at every power failure: sectors of
  named inodes are marked, are data sectors and have one owner), `InodesKept` (an entry
  that names an inode of the first sector leads to the inode made for it),
  `AnswersKept` (what FS answered to have made is there for good), `UniqueNames` (of
  directories in which one terminal makes things), `PathLeadsToCwd` (until the path has run
  over `dir_name`).  In the violation run: `InodesFound`, that of every inode.
- *Heap*: `ListInOrder` (the list covers the heap without gap or overlap, free chunks
  are merged, chunks in use are the blocks in use), `HeapBacked` (every page of the heap
  is mapped to a page of its own), `NoPageLost`, `ImplementsAllocator`; each until a chunk
  with a stale prev link is returned.  In the violation run: `BlocksDisjoint`, which does
  not hold after such a return.

Deadlock is not checked: the bounded counters (messages, commands, keys, kills)
let every instance come to rest, which is the user having nothing left to type.
That nobody waits for ever while there is work is what the liveness properties say.

## 4. Bounds and restrictions

- `NProc` 5, 4 and 3 stand for 10 slots (`PROC_MAX_NUM`).  Two senders at one receiver are the fewest
  for which one leaves a queue at its head and one behind it; with five slots the scan wraps
  around.  That a sender leaves the middle of a longer queue is part of the proofs.
- `MaxMsg`, `MaxCmd`, `MaxIO`, `MaxKeys`, `MaxKill`, `MaxMake`, `MaxCrash` bound what
  users and programs do.  Each is at least two in some run where the second
  occurrence may meet what the first left behind, but `MaxMsg`, which is one message
  for each link: a sender has two links, and the proofs of section 6 have no bound.
- `SECTOR_BITS`, `PerSector`, `DirEntries`, `BUFFER_SIZE` and `UINT8` are scaled
  down, and so is `DIR_NAME_SIZE` with `NameLen`: in `fs` one step down fits, a second
  may fill `dir_name`, its end lying behind it, or run over it.
  `INODE_SIZE = 2 * PerSector` keeps the ratio of 32 bytes to 16 inodes.  The
  entries of a directory go on into its second sector in the run `fs`; none is full there.
- `FastDisk = FALSE` says that the disk needs longer than the few instructions of
  `msg_recv_interrupt`; true of real disks, not enforced by the code.
- `InfoRace = FALSE`: reading the partition table from the disk takes longer than FS takes
  to send its next request, and no tick falls into the few instructions between HD's
  taking INFO and its answering it; otherwise FS keeps `fs_root = 0`.
- `EarlyCommand = FALSE`: no command is typed before FS serves.  Starting FS takes
  milliseconds.
- `StartInKill = FALSE`: no task is started between the two stores of `sys_kill`.  This is
  a fact of the program: it adds 8 tasks for 10 slots, the first pass of
  `task_line_schedule` starts them all, and a stopped task never waits again.  The instance of
  the run has more tasks than slots, so that the pass over a full table and the reuse of a
  slot (`FreeSlotsFilled`) are exercised; in the program as it stands they do not occur.
- `TickInAsk = FALSE`: no tick falls into `get_proc_pid` before it reads `current_proc`
  (with TRUE `ServersKnown` fails in the same instance); `KillUnused = FALSE`: the number given
  to kill is that of a process that was once created (with TRUE and `NTask` = 2, which leaves
  a slot unused, `Mapping` fails).
- `Preempt = FALSE` (no interrupt between a load of a counter and its store),
  `Patient = TRUE` (the user waits for the prompt) and `Whole = TRUE` (both bytes of a key
  are there before KEYBOARD takes the first) hold in the run `terminal` only; `keyboard`
  does without all three.  `Keys` is the set of codes typed: all in `terminal`, one of each
  kind that matters to the buffer, the line and the switch in `keyboard`.
- `AfterStale = FALSE` ends the run `heap` with the return of a chunk whose prev link is
  stale: that call is made and seen, and nothing is claimed of what comes after it.
  `heap_twice` goes on.  `HeapPages` stays below the entry that unmap clears by mistake (896
  in the code, entry 7 of 8 in the instance); physical memory does not run out under kmalloc.
- Maps of sectors and of inodes do not become full.
- A tick per call at most; pointers of a process stay its own; the clock can tick
  at any other moment.

These restrictions are hypotheses of the passing runs, each a named constant where
possible, so that what happens without it can be checked: section 7 says what does.

## 5. Fairness

`FairSpec` of *Clients* and *DiskStack*: weak fairness of the clock tick (the timer
is programmed once and never stopped) and strong fairness of each process's step
(strong, because a process is only enabled while it is current, again and again:
one that gets the processor for a slice executes an instruction in one of them).
Fairness of the *scheduler* is not assumed: that a process becomes current again
follows from the scan of `proc_line_schedule`, as the mutant `ScheduleFromZero`
shows.  *DiskStack* adds weak fairness of the controller (a command ends, an
interrupt is delivered while the flag allows it).  *Trap*: kern_init goes on (weak); the
clock interrupt, each handler or call and the end of each kind of stub are strongly fair,
because an interrupt may come in between, again and again, but at a finite rate: what has
been entered ends.  *Terminal*: KEYBOARD and TTY never
block and are scheduled; the second byte of a key follows the first.  No liveness
is claimed of *ShellFs*.

## 6. Proofs

`MsgProofs`, `ClientsProofs`, `TasksProofs`, `TrapProofs`, `DiskStackProofs`,
`TerminalProofs`, `FsDirProofs` and `HeapProofs`, checked by tlapm (SMT, Zenon and PTL).
Assumed are the named assumptions of Msg, Clients, Tasks, Trap, DiskStack, Terminal, FsDir,
ShellFs, Pages and Heap only (among them `NProcAssumption`: at least one slot; `NullAssumption`: NULL is
no process, not ANY and no structure;
`LinksAssumption`: nobody sends to itself and somebody is quiet; `StructAssumption`;
`TasksAssumption`: among others that the GDT has room for a descriptor per task;
`TrapAssumption`: something is started at boot, MM is a system task; `PagesAssumption` and
`HeapAssumption`: sizes are positive, the addresses of the heap have entries in the page
directory; `DiskStackAssumption`: the four processes of the disk path).  But for
the disk path, neither the number of processes or tasks, nor the links, messages, kills
or nested interrupts are bounded.

*Message passing.*

- `TypeCorrect` (`Spec => []TypeOK`) and `CurrentIsRunnable`
  (`Spec => []CurrentNotBlocked`) from the invariant
  `IInv == TypeOK /\ LinkedHasStruct /\ AllTakenUp /\ CurrentNotBlocked`.  The types
  alone are not inductive: taking a queued sender copies through its pointer, so
  whoever is linked must have a structure (`LinkedHasStruct`); and the scan must find
  somebody, for which the quiet process must never be blocked (it is in no link and
  makes no call) and all slots be in use.  The lemma about the scheduler says that a
  scan chooses a runnable process; a tick inside a call may choose one that the call
  then blocks only when that is the caller, and then the call scans again.
- `QueuesAcyclic` (`Spec => []AcyclicQueues`), in any mix.  A cycle can only come from
  the two places that write a link: linking at the end of a chain and leaving the
  middle of it.  `Acyclic` says that every nonempty set of processes has a member
  whose link leaves the set, which needs no recursion and no induction.
- `QueuesExact` and `RendezvousNotMissed`, in one-way mixes, from `QInv`: the queue of
  q is the set of processes blocked in a send to q,
  a blocked receiver has no match, and (`Roles`) a process in a call may make that
  call.  That no two queues share a member follows, since a sender is blocked on one
  receiver.  `Queue(q)` is the least set with the head that follows the links, so that the
  lemmas of `MsgProofs` on insertion and removal need set reasoning only.
- `MessagesExactlyOnce` (`Spec => []ExactlyOnce`), in one-way mixes, from `QInv` and
  `EInv`: what p has sent to q is what q has seen from p plus at most one message on its
  way, which is queued and unchanged in the memory of p, or handed over and unchanged in the
  memory of q (`Account`); and whoever is blocked declared what it waits for (`Wishes`).
  The queues being exact is what makes it inductive: the message that is taken is that of a
  process blocked in a send to the taker, and of nobody else.
- `KernelIsRendezvous` (`OneWay /\ Spec => ImplementsRendezvous`), from all of these
  invariants.  The line of a receiver is a recursive walk along the links.  Without a cycle
  there is exactly one *chain* from each process (a sequence that follows the links up to
  NULL; `ChainExists`, `ChainUnique`): otherwise the set of the processes without one would
  be closed under the links.  The recursive function has a solution, made of these
  chains, so that the line is the chain with what each sender has to say (`LineMade`).
  Linking appends to the chain (`ChainAppend`), and taking the i-th out redirects one link
  (`ChainWithout`).  A first match in the sense of `msg_receive` is a first match in
  the line because a walk from the i-th process never meets an earlier one
  (`ChainWithin`, `ChainOnce`).  Each action is then an Offer, an Ask or a Consume of
  Rendezvous, or changes nothing it shows.

*Task table* (`TasksProofs`; hypotheses `StartInKill = FALSE`, which the program
guarantees, and `KillUnused = FALSE`, which it does not: section 4).  `LinksBothWays`
(`Mapping`), `OwnDescriptors` (`OwnLdt`) and `ServersStayKnown`
(`ServersKnown`).  A pass over the table starts each waiting task in a slot that was free
and gives two tasks two slots (`Placement` is an injection), so a link either stays or is new
in both directions.  Between the two stores of a kill the task is still marked running
with a slot that is free: the invariant names that task.  `OwnLdt` needs that every
descriptor in use lies below `gdt_idx`, which only grows, and that it grows by no more than
the tasks that have ever been started.

*Trap* (`TrapProofs`; also `TickInAsk = FALSE`).  `NestingIsCounted` and `ContextIsKept` from one
invariant `TInv`, which adds to that of Tasks: the depth is the length of the kernel stack, the
activities on it differ and obey the interrupt mask, nothing is above the stub of the disk
(`StackInv`); who has asked for its pid stays current until it is answered (`AskInv`); every
slot that was ever used, but that of the process on the CPU, has its frame in its PCB
(`FrameInv`); nothing has run before the first start (`BootInv`).  From the invariant,
`TrapImplementsTasks`: each step is a step of Tasks or leaves its variables alone; the only
step that is not so by its shape is the answer of `get_proc_pid`, which must store the
pid that is there already.  `TrapKeepsTasks` carries the results on Tasks over.

*Disk path* (`DiskStackProofs`; hypothesis `Late`, that no command is typed before FS serves).
One invariant, `IInv`, for a disk of any speed and any number of commands and accesses by
the four processes of `DiskStackAssumption`.  Three processes with a program counter each
make it a description of who waits for whom at each pair of positions: `PcInv` (what the position of a process says of its wait
for a message), `LinkInv` (at most one sender is queued at a process, and which),
`BlockInv` (a process at a position where it computes is not blocked), `IntInv` (the
handshake of `msg_recv_interrupt` with the controller), `TalkInv` (HD is behind its command
port exactly while FS waits for it), `ShellInv` (the same between FS and the shell) and
`DataInv` (the sector asked for is the one in the controller, in `hdbuf`, or handed over).
The hard case is a *fast* disk: the interrupt of OPEN may be lost, HD then sleeps as in
`disk_lost`, and the next message wakes it as if it were the interrupt (`Robbed` names this
state).  From `IInv`: `DiskTypeCorrect`, `DriverKeepsStep` (`DriverInStep`),
`FsGetsItsSector` (`AnswersMatch`) and `ShellGetsItsAnswer` (`ShellAnswered`); with
`FastDisk = FALSE` also `NoInterruptLost` (`NoLostInterrupt`) and `MessagesToReceivers`
(`OnlyReceiversGetMessages`).

*Terminal* (`TerminalProofs`).  No hypotheses: interrupts and clock ticks fall anywhere, for
buffers, counters, terminals and keys of any size and number.
`TerminalTypeCorrect` (`TypeOK`): no index leaves its array but the one the code forgets to
wrap, and that one is part of the type.  `CountIsExact` (`CountExact`) and `TakenAsTyped`
(`TakesWhatWasTyped`) from `KInv`: `count`, or the register while KEYBOARD has it there, is
the difference of the histories less the interrupts lost (`CountInv`); head has moved with every
byte taken, and tail with every byte typed until it wraps (`TailInv`); what was typed and not taken
is in the buffer at its place unless overrun (`UnreadInv`); and what was taken is the
beginning of what was typed (`TakenInv`).  That `count` and the buffer may drift apart is why
the last two are stated of the histories and not of `count`.  `ShownAsPut`
(`ShowsWhatWasPut`) from `QInv`: while a queue is shorter than its counter counts, its
characters are those put since the last flush, the last of them on its way between the
store of the counter and that of the character (`QueueInv`).  
*File system* (`FsDirProofs`).  The disk first; hypotheses `OneSector`, one sector of the
sector map and one of inodes, which keeps away from the two places of `fs/mk.c` that go
wrong beyond it, and `[]RoomLeft`, that the allocator finds a run.  `SectorsHaveOneOwner`
(`SectorsOwned`), for any number of commands, terminals, sectors and power failures.  The
invariant adds to `SectorsOwned` the inode that is being made: from the moment its bit is
set it is in no directory, and from the moment its sectors are marked they are nobody
else's (`NewInv`), so that the write of its name, the last of the writes, only adds what is
owned already; a power failure before it leaves sectors lost, never shared.  The first free
run exists because a nonempty set of numbers has a least element (`MinInSet`).
`InodesAreFound` (`InodesKept`) does without `OneSector`, from an invariant of its own
(`FoundInv`): with any number of inode sectors, whatever is written in front of the buffer, an
inode of the first sector is in its place, since a sector of the table is the target of a
write only for the inodes whose offset is not negative.

Then what the shell makes of it; hypotheses also `NamesApart` (no inode number, whose bytes
may become a name, reads as "." or "..") and `[]PlaceLeft` for `AnswersKept` only (a
directory has a place for the entry).
`FsTypeCorrect` (`TypeOK`), `WhatIsAnsweredStays` (`AnswersKept`), `NamesAreUnique`
(`UniqueNames`) and `PathIsThatOfCwd` (`PathLeadsToCwd`), for any number of terminals.  A
directory is the concatenation of its sectors, computed by a recursive function: a witness
shows that it exists, and the entry at each place follows by induction from the least place
where it could fail.  The invariant says that the sectors of linked inodes are theirs alone
and entries lead to linked inodes; that a directory being made has empty sectors which
nobody else reads; that the sectors of a directory fill one after the other (`OrderInv`), so
that an entry keeps its place, and a stale cache is a beginning of the directory
(`BeginInv`); that where one terminal only makes things, its cache is the whole
directory unless `update_flag` says otherwise or its request is under way (`CacheInv`,
`AskInv`), so that the name it sends is in no entry (`NewNameInv`); that ".." leads to the
only directory in which this one is entered (`ParentInv`); and that a way of entries leads
from the root to the directory a terminal works in, as long as its path has not run over
`dir_name` (`PathInv`).  A cache that is only a beginning is enough for cd: the entry it finds
is the first of its name in the directory too.

*Heap* (`HeapProofs`; hypothesis `ShortHeap`, since `unmap` clears the entry PGD_INDEX: true
of heaps up to 896 pages).  `HeapTypeCorrect` (`TypeOK`), `ListStaysInOrder` (`ListInOrder`),
`HeapStaysBacked` (`HeapBacked`), `PagesAreKept` (`NoPageLost`) and `HeapAllocates`
(`ImplementsAllocator`).  Each says what holds until kfree is given a chunk whose prev link a
split left stale, and no more: `heap_twice` shows that the statements are false beyond it.
The invariant is `~stale => HInv`, where `HInv` says: the chunks are exactly what the links
meet from the first one, and lie end to end (`Links`); a free chunk, and the one being
returned, has the right prev link, and no neighbour of a free chunk is free (`FreeBut`); the
blocks in use are the chunks in use (`LiveInv`); every page is on the free stack once, held,
a table, or mapped at one place of the heap (`PagesOK`).  kfree glues in two steps: in between
everything holds but for the chunk that is being returned.  Pages are mapped and given
back one at a time by recursive functions, so these lemmas are inductions over their
number.  The refinement then needs that a block lies in its chunk behind the header
(`BlocksApart`) and that the chunk kmalloc takes was not in use.

*Only model-checked*: liveness and what needs fairness or ENABLED (`SendersReleased`,
`CommandsAnswered`, `FsComesUp`, `FreeSlotsFilled`, `KeysArrive`), which the provers do not
reach.

## 7. Where code and comments disagree

The violation runs show:

- `disk_lost`: `msg_recv_interrupt` tests `int_status` (`msg/msg.c:51`) and then
  stores `WAIT_INT`, the number and `msg_block`, with interrupts enabled.  An interrupt
  in between is lost and the driver sleeps for good.
- `disk_early`: `msg_send` takes a process whose *last* `recv_from` fits for a
  receiver even if it is blocked in a send (`msg/msg.c:78`); its structure is
  overwritten and it runs on.  This is why the queue results ask for one-way mixes.
- `fs_inode`: `fs/mk.c:201` multiplies by the size of an inode where the comment above
  it means the inodes per sector.
- `heap_twice`: `split_chunk` sets no prev link in the chunk behind the new one
  (`mm/heap.c:123`), against `include/heap.h:30`.  kmalloc twice, kfree of the first, kmalloc of
  less, kfree of the second: the last call merges the wrong chunk, the list leads past chunks in
  use, and kmalloc hands out their addresses again.

Met while modelling and kept out of the passing runs by the restrictions of section 4:

- `count` loses the increment of an interrupt that falls between load and store of
  `count--` (`CountExact` counts them).  `Preempt = TRUE` breaks `KeysArrive`;
- characters typed ahead are dropped by `tty_flush` (`Patient = FALSE` breaks `KeysArrive`);
- `tty_putc` counts a character before it stores it (`tty/tty.c:54`): after a clock tick in
  between TTY takes what the place held before, or its flush is undone (`raced`, reached in
  the run `keyboard`);
- the second byte of a two-byte code is taken even if it has not come (`torn`); `head` is
  never wrapped, so the reader leaves the buffer once as many bytes have been typed as it
  holds (`driver/keyboard.c:56`; `Fetched` then yields any byte);
- `get_proc_pid` reads `current_proc` with interrupts enabled (`sys/proc/sys_call_proc.c:40`);
  after a tick in the call MM takes another process's pid for its own, and waits for
  messages in that process's name (`TickInAsk = TRUE` breaks `ServersKnown`);
- `sys_kill` takes the task number from a slot without a test that it was ever used
  (`sys/proc/sys_call_proc.c:21`), and marks task 0 as stopped while it runs (`KillUnused`);
- the cache of a terminal is read again only after commands of its own
  (`shell/shell_fs.c:55`), so `check_name_repeat` does not see what another terminal has
  made, and a name may be entered twice (`UniqueNames` without its condition on `makers`);
- `fs_root` is computed from `hd_part` as soon as HD has taken the INFO request, and
  keeps 0 if HD has not filled `hd_part` in by then (`fs/fs.c:108`), so that FS then works on
  the sectors at the start of the disk (`InfoRace = TRUE` breaks `FsComesUp`);
- a path longer than `dir_name` runs over into the cache of the directory
  (`shell/shell_fs.c:211`; `outgrown`);
- the name typed is overwritten by the refresh of the cache: a file is entered under
  the bytes of an inode number when the cache was stale (`NameSent`);
- `unmap` takes PGD_INDEX for the index in the table (`mm/vmm.c:70`): a page given back
  stays mapped, and with more than 896 pages of heap a page in use is unmapped
  (`PTE_SIZE = 4`, `HEAP_PAGE = 8`, `HeapPages = 4` break `HeapBacked`);
- a run of sectors that crosses a sector of the map is not marked as used
  (`UpdateSectorMap`; `MapSects` of two breaks `SectorsOwned`);
- with no run of sectors left, `mk_inode` goes on with a start nobody wrote and clears
  sectors of others (`AllocStarts`; `SECTOR_BITS = 9` breaks `SectorsOwned`).

## 8. Not modelled

A full inode map; names of 24 bytes and more (`fs/mk.c` copies them over the fields
behind); mkdir of ".." in the root; what `clear_sector` erases after a failed allocation;
a controller that is not ready for the data of a write at once; partition tables of more
than one entry and extended partitions; exceptions (they end the system); what handlers
and calls push on the kernel stack, and its size; physical
memory running out under the heap; the fixed page tables; fork (`do_fork` is empty and nothing calls
`fork`); the priority scheduler (its call is commented out in `driver/timer.c`); kill of a
process that is in a message call; keymaps,
command parsing, the screen, printing, boot and library: text, output and straight-line
code.  `PROJECT.json` gives the reason component by component.

## 9. Plan

What is left, in order:

1. **Lifecycle** - kill and restart of slots *with* message calls: what a memset of a
   linked PCB does to the queues, a table in which nobody is runnable.  Composes Trap with
   the callers of Msg.
2. **DiskStack** - an abstract specification of the disk
   (a read returns the last sector written) that FS over HD implements.
3. **Partition** - the recursion over extended partitions and the buffer it shares.
4. **Limits** - counters at their width, full directories and inode maps, as
   nondeterministic choice where the code reads what nobody wrote.
