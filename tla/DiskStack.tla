------------------------------- MODULE DiskStack -------------------------------
(***************************************************************************)
(* The disk path of the running system: a shell on the terminal (TTY) asks *)
(* the file system process (FS), which asks the disk driver process (HD),  *)
(* which programs the ATA controller and sleeps until its interrupt.  The  *)
(* fourth process (IDLE) never makes a call, like the task INIT.           *)
(*                                                                         *)
(* Each process runs its own program, a program counter per process; every *)
(* action of a process is one system call or one step that others can      *)
(* see.  Clock ticks preempt it anywhere.  hd_handler runs with interrupts *)
(* disabled, but msg_recv_interrupt runs with interrupts enabled: the      *)
(* variable kernel is its position in that function.                       *)
(*                                                                         *)
(* Abstractions.  A sector is a number of Val.  FS serves a request by any *)
(* sequence of at most MaxIO sector reads and writes, which covers what    *)
(* get_dir_entries, mk_file and mk_dir do with the disk.  The partition    *)
(* table takes one sector and names one partition, at PartStart.           *)
(***************************************************************************)
EXTENDS Sched

CONSTANTS
  PartStart,     \* start_lba of the partition of the file system
  MaxSector,     \* bound: sectors of the partition that FS uses, from 0
  MaxIO,         \* bound: sector accesses for one request
  MaxCmd,        \* bound: commands typed
  EarlyCommand,  \* may a command be typed before FS serves requests?
  FastDisk,      \* may the disk finish between the test of msg_recv_interrupt
                 \* and its last store?
  InfoRace       \* may the disk finish OPEN before FS has sent INFO, or FS be
                 \* scheduled between HD's taking INFO and its answering it?

TTY  == 0
IDLE == 1
HD   == 2
FS   == 3

HD_INTERRUPT == 65535
Lba == 0 .. PartStart + MaxSector
Val == 0 .. PartStart + MaxSector      \* a fresh disk holds its own addresses
Garbage == -1                          \* what no sector holds

Types  == {"READY", "OPEN", "INFO", "READ", "WRITE", "DIR", "MK", "FINISH", "NONE"}
M(t, pos) == [type |-> t, pos |-> pos]

ASSUME DiskStackAssumption ==
  /\ NProc = 4 /\ Struct = {"in", "out", "io"}
  /\ Content = [type : Types, pos : Lba]
  /\ PartStart \in Nat \ {0} /\ MaxSector \in Nat \ {0}
  /\ MaxIO \in Nat \ {0} /\ MaxCmd \in Nat
  /\ EarlyCommand \in BOOLEAN /\ FastDisk \in BOOLEAN /\ InfoRace \in BOOLEAN

VARIABLES
  pc,         \* [Proc -> program positions]
  kernel,     \* "user", or the position in msg_recv_interrupt
  dev,        \* [st, op, lba, data]: the controller
  disk,       \* [Lba -> Val]
  hd_op,      \* the operation hd_task is in
  hd_pos,     \* its sector number
  hdbuf,      \* the driver's sector buffer
  part_num,   \* hd_part_num: partitions found
  hd_part,    \* start_lba in FS's copy of the partition entry
  fs_root,    \* what FS adds to its sector numbers
  fs_buf,     \* fs_rdbuf and fs_wtbuf: what FS reads into, writes from
  io_pos,     \* the lba FS asked for
  io_left,    \* accesses left for the request being served
  asked,      \* commands sent by TTY
  served      \* requests answered by FS

diskVars == <<dev, disk>>
hdVars   == <<hd_op, hd_pos, hdbuf, part_num>>
fsVars   == <<fs_root, fs_buf, io_pos, io_left, served>>
progVars == <<pc, kernel, diskVars, hdVars, hd_part, fsVars, asked>>
vars     == <<msgVars, schedVars, progVars>>

Init ==
  /\ MsgInit
  /\ SchedInit
  /\ mem = [p \in Proc |-> [s \in Struct |-> M("NONE", 0)]]
  /\ pc = [p \in Proc |-> CASE p = TTY -> "prompt" [] p = HD -> "ready"
                            [] p = FS -> "hd_ready" [] OTHER -> "idle"]
  /\ kernel = "user"
  /\ dev = [st |-> "idle", op |-> "READ", lba |-> 0, data |-> 0]
  /\ disk = [l \in Lba |-> l]
  /\ hd_op = "NONE" /\ hd_pos = 0 /\ hdbuf = Garbage /\ part_num = 0
  /\ hd_part = 0 /\ fs_root = 0 /\ fs_buf = [rd |-> Garbage, wt |-> 0]
  /\ io_pos = 0 /\ io_left = 0
  /\ asked = 0 /\ served = 0

\* Process p is at position a of its program and may take a step to b.
At(p, a, b) ==
  /\ kernel = "user" /\ current_proc = p
  /\ pc[p] = a
  /\ pc' = [pc EXCEPT ![p] = b]

NoKernelCall == UNCHANGED <<msgVars, schedVars>>

\* INFO has left HD's queue and hd_info has not run.
InfoTaken == pc[HD] = "dispatch" /\ msg_block[HD] = 0 /\ mem[HD]["in"].type = "INFO"

--------------------------------------------------------------------------------
(* The shell on a terminal                                                 *)

TtyCommand(t) ==
  /\ At(TTY, "prompt", "await")
  /\ asked < MaxCmd
  /\ EarlyCommand \/ asked > 0 \/ pc[FS] \in {"serve", "dispatch"}
  /\ asked' = asked + 1
  /\ SysSendMessage(TTY, FS, "io", M(t, 0))
  /\ UNCHANGED <<kernel, diskVars, hdVars, hd_part, fsVars>>

\* Mutant: the shell goes on without waiting for the answer.
TtyNoAwait ==
  /\ At(TTY, "await", "answered")
  /\ NoKernelCall
  /\ UNCHANGED <<kernel, diskVars, hdVars, hd_part, fsVars, asked>>

TtyAwait ==
  /\ At(TTY, "await", "answered")
  /\ SysRecvMessage(FS, TTY, "io")
  /\ UNCHANGED <<kernel, diskVars, hdVars, hd_part, fsVars, asked>>

TtyPrint ==
  /\ At(TTY, "answered", "prompt")
  /\ NoKernelCall
  /\ UNCHANGED <<kernel, diskVars, hdVars, hd_part, fsVars, asked>>

TtyStep == \/ \E t \in {"DIR", "MK"} : TtyCommand(t)
           \/ TtyAwait \/ TtyPrint

--------------------------------------------------------------------------------
(* fs/fs.c, fs/read.c, fs/write.c, fs/opt.c                                *)

FsHdReady ==
  /\ At(FS, "hd_ready", "is_ready")
  /\ SysRecvMessage(HD, FS, "in")
  /\ UNCHANGED <<kernel, diskVars, hdVars, hd_part, fsVars, asked>>

FsIsReady ==
  /\ At(FS, "is_ready", IF mem[FS]["in"].type = "READY" THEN "open" ELSE "hd_ready")
  /\ NoKernelCall
  /\ UNCHANGED <<kernel, diskVars, hdVars, hd_part, fsVars, asked>>

\* fs_init sends both requests and waits for the answer of neither.
FsOpen ==
  /\ At(FS, "open", "info")
  /\ SysSendMessage(FS, HD, "out", M("OPEN", 0))
  /\ UNCHANGED <<kernel, diskVars, hdVars, hd_part, fsVars, asked>>

FsInfo ==
  /\ At(FS, "info", "root")
  /\ SysSendMessage(FS, HD, "out", M("INFO", 0))
  /\ UNCHANGED <<kernel, diskVars, hdVars, hd_part, fsVars, asked>>

\* fs_root = hd_part.start_lba; the super block is sector 1.
FsRoot ==
  /\ At(FS, "root", "sb_read")
  /\ fs_root' = hd_part
  /\ io_pos' = hd_part + 1
  /\ io_left' = 0
  /\ NoKernelCall
  /\ UNCHANGED <<kernel, diskVars, hdVars, hd_part, fs_buf, served, asked>>

\* Mutant: read_from_hd returns without waiting for the driver's answer.
FsReadNoWait ==
  /\ At(FS, "sb_read", "sb_end") \/ At(FS, "read", "read_end")
  /\ SysSendMessage(FS, HD, "io", M("READ", io_pos))
  /\ UNCHANGED <<kernel, diskVars, hdVars, hd_part, fsVars, asked>>

FsRead ==
  /\ At(FS, "sb_read", "sb_wait") \/ At(FS, "read", "read_wait")
  /\ SysSendMessage(FS, HD, "io", M("READ", io_pos))
  /\ UNCHANGED <<kernel, diskVars, hdVars, hd_part, fsVars, asked>>

FsWrite ==
  /\ At(FS, "write", "write_wait")
  /\ SysSendMessage(FS, HD, "io", M("WRITE", io_pos))
  /\ UNCHANGED <<kernel, diskVars, hdVars, hd_part, fsVars, asked>>

FsAwaitHd ==
  /\ \/ At(FS, "sb_wait", "sb_end")
     \/ At(FS, "read_wait", "read_end")
     \/ At(FS, "write_wait", "write_end")
  /\ SysRecvMessage(HD, FS, "io")
  /\ UNCHANGED <<kernel, diskVars, hdVars, hd_part, fsVars, asked>>

\* The access is over: back to the request, or from fs_init to the loop.
FsIoEnd ==
  /\ \/ At(FS, "sb_end", "serve")
     \/ At(FS, "read_end", "work")
     \/ At(FS, "write_end", "work")
  /\ NoKernelCall
  /\ UNCHANGED <<kernel, diskVars, hdVars, hd_part, fsVars, asked>>

FsServe ==
  /\ At(FS, "serve", "dispatch")
  /\ SysRecvMessage(ANY, FS, "in")
  /\ UNCHANGED <<kernel, diskVars, hdVars, hd_part, fsVars, asked>>

FsDispatch ==
  /\ At(FS, "dispatch", IF mem[FS]["in"].type \in {"DIR", "MK"} THEN "work" ELSE "serve")
  /\ io_left' = MaxIO
  /\ NoKernelCall
  /\ UNCHANGED <<kernel, diskVars, hdVars, hd_part, fs_root, fs_buf, io_pos, served, asked>>

FsAccess ==
  /\ io_left > 0
  /\ io_left' = io_left - 1
  /\ \E s \in 0 .. MaxSector :
       /\ io_pos' = s + fs_root
       /\ \/ /\ At(FS, "work", "read")
             /\ UNCHANGED fs_buf
          \/ /\ At(FS, "work", "write")
             /\ mem[FS]["in"].type = "MK"
             /\ \E v \in {0, 1} : fs_buf' = [fs_buf EXCEPT !.wt = v]
  /\ NoKernelCall
  /\ UNCHANGED <<kernel, diskVars, hdVars, hd_part, fs_root, served, asked>>

\* Mutant: a request is done without msg_finish.
FsReplyUnsent ==
  /\ At(FS, "work", "serve")
  /\ io_left < MaxIO
  /\ served' = served + 1
  /\ NoKernelCall
  /\ UNCHANGED <<kernel, diskVars, hdVars, hd_part, fs_root, fs_buf, io_pos, io_left, asked>>

\* msg_finish to the process that asked; every request reads some sector.
FsReply ==
  /\ At(FS, "work", "serve")
  /\ io_left < MaxIO
  /\ served' = served + 1
  /\ SysSendMessage(FS, TTY, "out", M("FINISH", 0))
  /\ UNCHANGED <<kernel, diskVars, hdVars, hd_part, fs_root, fs_buf, io_pos, io_left, asked>>

FsStep == \/ FsHdReady \/ FsIsReady \/ FsOpen \/ FsInfo \/ FsRoot
          \/ FsRead \/ FsWrite \/ FsAwaitHd \/ FsIoEnd
          \/ FsServe \/ FsDispatch \/ FsAccess \/ FsReply

--------------------------------------------------------------------------------
(* driver/hd.c: the driver process                                         *)

HdReady ==
  /\ At(HD, "ready", "recv")
  /\ SysSendMessage(HD, FS, "out", M("READY", 0))
  /\ UNCHANGED <<kernel, diskVars, hdVars, hd_part, fsVars, asked>>

HdRecv ==
  /\ At(HD, "recv", "dispatch")
  /\ SysRecvMessage(ANY, HD, "in")
  /\ InfoRace \/ (InfoTaken' => current_proc' = HD)
  /\ UNCHANGED <<kernel, diskVars, hdVars, hd_part, fsVars, asked>>

\* READ, WRITE and OPEN (which reads the partition table at lba 0) go on to
\* program the controller; any other type is reported and dropped.
HdDispatch ==
  /\ LET m == mem[HD]["in"] IN
       /\ At(HD, "dispatch", IF m.type \in {"OPEN", "READ", "WRITE"} THEN "cmd" ELSE "recv")
       /\ hd_op' = m.type
       /\ hd_pos' = IF m.type = "OPEN" THEN 0 ELSE m.pos
       /\ hd_part' = IF m.type = "INFO" /\ part_num > 0 THEN PartStart ELSE hd_part
  /\ NoKernelCall
  /\ UNCHANGED <<kernel, diskVars, hdbuf, part_num, fsVars, asked>>

\* hd_cmd_out.  hd_write does not wait until the controller is ready for the data:
\* a write command is taken to ask for it at once.
HdCommand ==
  /\ At(HD, "cmd", IF hd_op = "WRITE" THEN "fill" ELSE "wait")
  /\ dev' = [dev EXCEPT !.op = IF hd_op = "WRITE" THEN "WRITE" ELSE "READ",
                        !.lba = hd_pos,
                        !.st = IF hd_op = "WRITE" THEN "drq" ELSE "busy"]
  /\ NoKernelCall
  /\ UNCHANGED <<kernel, disk, hdVars, hd_part, fsVars, asked>>

\* port_write of the sector that msg -> buf (fs_wtbuf) points to
HdFill ==
  /\ At(HD, "fill", "wait")
  /\ dev' = [dev EXCEPT !.st = "busy", !.data = fs_buf.wt]
  /\ NoKernelCall
  /\ UNCHANGED <<kernel, disk, hdVars, hd_part, fsVars, asked>>

\* wait_interrupt: enter msg_recv_interrupt
HdWait ==
  /\ At(HD, "wait", "woken")
  /\ kernel' = "test"
  /\ NoKernelCall
  /\ UNCHANGED <<diskVars, hdVars, hd_part, fsVars, asked>>

\* port_read into hdbuf, then the copy to msg -> buf (fs_rdbuf), or for OPEN
\* the scan of the partition table; a write has nothing to read.
HdData ==
  /\ At(HD, "woken", IF hd_op = "OPEN" THEN "recv" ELSE "reply")
  /\ LET sector == IF dev.st = "done" THEN dev.data ELSE Garbage IN
       /\ hdbuf' = IF hd_op = "WRITE" THEN hdbuf ELSE sector
       /\ fs_buf' = IF hd_op = "READ" THEN [fs_buf EXCEPT !.rd = sector] ELSE fs_buf
       /\ dev' = IF hd_op = "WRITE" THEN dev ELSE [dev EXCEPT !.st = "idle"]
       /\ part_num' = IF hd_op = "OPEN" /\ sector = 0 THEN 1 ELSE part_num
  /\ NoKernelCall
  /\ UNCHANGED <<kernel, disk, hd_op, hd_pos, hd_part, fs_root, io_pos, io_left,
                 served, asked>>

\* finish_msg to msg -> pid
HdReply ==
  /\ At(HD, "reply", "recv")
  /\ SysSendMessage(HD, FS, "out", M("FINISH", 0))
  /\ UNCHANGED <<kernel, diskVars, hdVars, hd_part, fsVars, asked>>

HdStep == HdReady \/ HdRecv \/ HdDispatch \/ HdCommand \/ HdFill \/ HdWait
          \/ HdData \/ HdReply

--------------------------------------------------------------------------------
(* sys_recv_interrupt, one store at a time; HD is its only caller.         *)

KernelTo(a, b) == kernel = a /\ kernel' = b

\* Mutant: the call blocks before it declares what it waits for.
IntTestBlockFirst ==
  /\ KernelTo("test", IF int_status[HD] = NO_INT THEN "block" ELSE "take")
  /\ NoKernelCall

IntTest ==
  /\ KernelTo("test", IF int_status[HD] = NO_INT THEN "status" ELSE "take")
  /\ NoKernelCall

IntStatus ==
  /\ KernelTo("status", "id")
  /\ RecvInterruptStatus(HD)
  /\ UNCHANGED schedVars

IntId ==
  /\ KernelTo("id", "block")
  /\ RecvInterruptId(HD, HD_INTERRUPT)
  /\ UNCHANGED schedVars

IntBlock ==
  /\ KernelTo("block", "tail")
  /\ RecvInterruptBlock(HD)
  /\ UNCHANGED schedVars

IntTake ==
  /\ KernelTo("take", "tail")
  /\ RecvInterruptTake(HD, HD_INTERRUPT)
  /\ UNCHANGED schedVars

IntTail ==
  /\ KernelTo("tail", "user")
  /\ IF msg_block[HD] = 1 THEN ProcLineSchedule(msg_block, take_up) ELSE UNCHANGED <<current_proc, proc_ptr>>
  /\ UNCHANGED <<take_up, msgVars>>

KernelStep ==
  /\ IntTest \/ IntStatus \/ IntId \/ IntBlock \/ IntTake \/ IntTail
  /\ UNCHANGED <<pc, diskVars, hdVars, hd_part, fsVars, asked>>

--------------------------------------------------------------------------------
(* The controller, its interrupt and the clock                             *)

\* The command is done: the sector is read or written, IRQ14 is raised and
\* hd_handler runs.  Where interrupts are disabled the handler is only put
\* off, to a moment at which this action could have happened as well.
Complete ==
  /\ dev.st = "busy"
  /\ FastDisk \/ kernel \notin {"status", "id", "block"}
  /\ InfoRace \/ ~(hd_op = "OPEN" /\ pc[FS] = "info")
  /\ IF dev.op = "WRITE"
     THEN /\ disk' = [disk EXCEPT ![dev.lba] = dev.data]
          /\ dev' = [dev EXCEPT !.st = "idle"]
     ELSE /\ dev' = [dev EXCEPT !.st = "done", !.data = disk[dev.lba]]
          /\ UNCHANGED disk
  /\ MsgSendInterrupt(HD, HD_INTERRUPT)
  /\ UNCHANGED <<schedVars, pc, kernel, hdVars, hd_part, fsVars, asked>>

Tick ==
  /\ ClockHandler
  /\ InfoRace \/ ~(current_proc = HD /\ InfoTaken)
  /\ UNCHANGED progVars

Next == TtyStep \/ FsStep \/ HdStep \/ KernelStep \/ Complete \/ Tick

Spec == Init /\ [][Next]_vars

\* Interrupt handlers and an entered call always go on, the disk finishes, and
\* a process that is scheduled again and again makes its next step.
Fairness ==
  /\ WF_vars(Tick) /\ WF_vars(KernelStep) /\ WF_vars(Complete)
  /\ SF_vars(TtyAwait \/ TtyPrint) /\ SF_vars(FsStep) /\ SF_vars(HdStep)

FairSpec == Spec /\ Fairness
--------------------------------------------------------------------------------
(* Properties                                                              *)

TypeOK ==
  /\ MsgTypeOK /\ SchedTypeOK
  /\ kernel \in {"user", "test", "status", "id", "block", "take", "tail"}
  /\ dev \in [st : {"idle", "busy", "drq", "done"}, op : {"READ", "WRITE"}, lba : Lba, data : Val]
  /\ disk \in [Lba -> Val]
  /\ hd_op \in Types /\ hd_pos \in Lba /\ hdbuf \in Val \cup {Garbage} /\ part_num \in 0 .. 1
  /\ hd_part \in {0, PartStart} /\ fs_root \in {0, PartStart}
  /\ fs_buf \in [rd : Val \cup {Garbage}, wt : Val] /\ io_pos \in Lba
  /\ io_left \in 0 .. MaxIO /\ asked \in 0 .. MaxCmd /\ served \in 0 .. MaxCmd

\* The driver and the controller keep step: a command goes to an idle
\* controller, data to one that wants it, and the driver leaves
\* wait_interrupt only when its command is done (msg_send must not wake it
\* with a message meanwhile).
DriverInStep ==
  /\ pc[HD] = "cmd"  => dev.st = "idle"
  /\ pc[HD] = "fill" => dev.st = "drq"
  /\ (pc[HD] = "woken" /\ kernel = "user" /\ msg_block[HD] = 0) =>
       dev.st = (IF hd_op = "WRITE" THEN "idle" ELSE "done")

\* fs_read returns with the sector FS asked for as it is on the disk, and
\* fs_write returns with the sector on the disk: the answer FS waited for is
\* the answer to its own request.
AnswersMatch ==
  /\ (current_proc = FS /\ pc[FS] \in {"sb_end", "read_end"}) => fs_buf.rd = disk[io_pos]
  /\ (current_proc = FS /\ pc[FS] = "write_end") => disk[io_pos] = fs_buf.wt

\* The shell goes on only when FS has answered the command it sent.
ShellAnswered ==
  (current_proc = TTY /\ pc[TTY] = "answered" /\ msg_block[TTY] = 0) => served = asked

\* A driver asleep for an interrupt is woken by one: once its command is
\* done it is not left blocked (msg.c:36, msg.c:58).
NoLostInterrupt ==
  (pc[HD] = "woken" /\ kernel = "user" /\ msg_block[HD] = 1) => dev.st = "busy"

\* msg.c:76: msg_send hands a message over only to a process that is waiting
\* in recv_message.
OnlyReceiversGetMessages ==
  [][\A p \in Proc :
       (msg_block[p] = 1 /\ msg_block'[p] = 0 /\ \E s \in Struct : mem'[p][s] # mem[p][s])
         => pc[p] \in {"dispatch", "is_ready", "sb_end", "read_end", "write_end", "answered"}]_vars

\* fs.c:106: FS gets through fs_init to its service loop, with the partition
\* it asked for: hd_part has been filled in when fs_root is computed from it.
FsComesUp == <>(pc[FS] = "serve" /\ fs_root = PartStart)

\* Every command is answered.
CommandsAnswered == pc[TTY] = "await" ~> pc[TTY] = "prompt"
================================================================================
