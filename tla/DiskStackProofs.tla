---------------------------- MODULE DiskStackProofs ----------------------------
(***************************************************************************)
(* The safety properties of DiskStack, for any partition, any number of    *)
(* commands and of sector accesses per command: who waits for whom at      *)
(* every pair of positions of the three programs, and which sector is on   *)
(* its way.                                                                *)
(***************************************************************************)
EXTENDS DiskStack, MsgProofs

B(p) == msg_block[p] = 1

--------------------------------------------------------------------------------
(* The inductive invariant                                                 *)

PcInv ==
  /\ DOMAIN pc = Proc
  /\ pc[TTY] \in {"prompt", "await", "answered"} /\ pc[IDLE] = "idle"
  /\ pc[HD] \in {"ready", "recv", "dispatch", "cmd", "fill", "wait", "woken", "reply"}
  /\ pc[FS] \in {"hd_ready", "is_ready", "open", "info", "root", "sb_read", "sb_wait", "sb_end",
                 "serve", "dispatch", "work", "read", "read_wait", "read_end",
                 "write", "write_wait", "write_end"}

\* FS has sent a request to HD, and maybe waits for it to be taken.
ToHd == {"info", "root", "sb_wait", "read_wait", "write_wait"}

\* At most one sender waits at each process.
LinkInv ==
  /\ \A p \in Proc : msg_next[p] = NULL
  /\ msg_head[IDLE] = NULL
  /\ msg_head[HD] = IF B(FS) /\ pc[FS] \in ToHd THEN FS ELSE NULL
  /\ msg_head[TTY] = IF B(FS) /\ pc[FS] = "serve" THEN FS ELSE NULL
  /\ msg_head[FS] = IF B(HD) /\ pc[HD] = "recv" THEN HD
                    ELSE IF B(TTY) /\ pc[TTY] = "await" THEN TTY ELSE NULL
  /\ ~(B(HD) /\ pc[HD] = "recv" /\ B(TTY) /\ pc[TTY] = "await")

\* Who is blocked, with which structure, for whom, or with which message.
BlockInv ==
  /\ B(current_proc) => current_proc = HD /\ kernel = "tail"
  /\ \A p \in Proc : take_up[p] = 1
  /\ ~B(IDLE)
  /\ B(TTY) => \/ pc[TTY] = "await" /\ msg[TTY] = "io" /\ mem[TTY]["io"].type \in {"DIR", "MK"}
               \/ pc[TTY] = "answered" /\ msg[TTY] = "io" /\ recv_from[TTY] = FS
  /\ B(HD) => \/ pc[HD] = "recv" /\ msg[HD] = "out"
              \/ pc[HD] = "dispatch" /\ msg[HD] = "in" /\ recv_from[HD] = ANY
              \/ pc[HD] = "woken" /\ kernel \in {"tail", "user"}
  /\ recv_from[HD] \in {TTY, ANY} /\ (recv_from[HD] = ANY => msg[HD] \in Struct)
  /\ B(FS) => \/ pc[FS] = "is_ready" /\ msg[FS] = "in" /\ recv_from[FS] = HD
              \/ pc[FS] \in {"sb_end", "read_end", "write_end"} /\ msg[FS] = "io" /\ recv_from[FS] = HD
              \/ pc[FS] = "dispatch" /\ msg[FS] = "in" /\ recv_from[FS] = ANY
              \/ pc[FS] = "info" /\ msg[FS] = "out" /\ mem[FS]["out"].type = "OPEN"
              \/ pc[FS] = "root" /\ msg[FS] = "out" /\ mem[FS]["out"].type = "INFO"
              \/ pc[FS] \in {"sb_wait", "read_wait"} /\ msg[FS] = "io" /\ mem[FS]["io"] = M("READ", io_pos)
              \/ pc[FS] = "write_wait" /\ msg[FS] = "io" /\ mem[FS]["io"] = M("WRITE", io_pos)
              \/ pc[FS] = "serve" /\ msg[FS] = "out"

\* the driver, its interrupt and the controller
Finished == dev.st = (IF hd_op = "WRITE" THEN "idle" ELSE "done")

IntInv ==
  /\ \A p \in Proc \ {HD} : int_status[p] = NO_INT
  /\ kernel # "user" => pc[HD] = "woken"
  /\ pc[HD] \in {"ready", "recv", "dispatch", "cmd", "reply"} => dev.st = "idle" /\ int_status[HD] = NO_INT
  /\ pc[HD] = "fill" => dev.st = "drq" /\ int_status[HD] = NO_INT /\ hd_op = "WRITE"
  /\ pc[HD] \in {"cmd", "wait", "woken", "reply"} => hd_op \in {"OPEN", "READ", "WRITE"}
  /\ pc[HD] = "reply" => hd_op # "OPEN"
  /\ (pc[HD] = "wait" \/ kernel = "test") =>
       \/ dev.st = "busy" /\ int_status[HD] = NO_INT
       \/ Finished /\ int_status[HD] = HAS_INT /\ interrupt_id[HD] = HD_INTERRUPT
  /\ kernel = "status" => \/ dev.st = "busy" /\ int_status[HD] = NO_INT
                          \/ FastDisk /\ Finished
  /\ kernel = "id" => \/ dev.st = "busy" /\ int_status[HD] = WAIT_INT
                      \/ FastDisk /\ Finished /\ int_status[HD] \in {NO_INT, WAIT_INT}
  /\ kernel = "block" => \/ dev.st = "busy" /\ int_status[HD] = WAIT_INT /\ interrupt_id[HD] = HD_INTERRUPT
                         \/ FastDisk /\ Finished /\ int_status[HD] \in {NO_INT, WAIT_INT}
  /\ kernel = "take" => Finished /\ int_status[HD] = HAS_INT /\ interrupt_id[HD] = HD_INTERRUPT
  /\ (pc[HD] = "woken" /\ kernel \in {"tail", "user"}) =>
       IF B(HD) THEN \/ dev.st = "busy" /\ int_status[HD] = WAIT_INT /\ interrupt_id[HD] = HD_INTERRUPT
                     \/ FastDisk /\ Finished /\ int_status[HD] \in {NO_INT, WAIT_INT}
                ELSE Finished /\ int_status[HD] = NO_INT

\* what FS and HD are about
HdIdle == IF B(HD) THEN pc[HD] = "dispatch" ELSE pc[HD] = "recv"
HdBusy(t) == \/ pc[HD] = "dispatch" /\ ~B(HD) /\ mem[HD]["in"].type = t
             \/ pc[HD] \in {"cmd", "fill", "wait", "woken", "reply"} /\ hd_op = t
HdAnswers(t) == pc[HD] = "recv" /\ B(HD) /\ mem[HD]["out"].type = t
HdReceives == pc[HD] = "recv" /\ ~B(HD)
\* The interrupt of OPEN was lost, and a message has woken HD in its place.
Robbed == pc[HD] = "woken" /\ ~B(HD) /\ kernel = "user" /\ hd_op = "OPEN" /\ FastDisk
Wait == {"sb_wait", "read_wait", "write_wait"}
End == {"sb_end", "read_end", "write_end"}
Op == IF pc[FS] \in {"write_wait", "write_end"} THEN "WRITE" ELSE "READ"

TalkInv ==
  /\ pc[FS] = "hd_ready" => pc[HD] = "ready" \/ HdAnswers("READY")
  /\ pc[FS] = "is_ready" => IF B(FS) THEN pc[HD] = "ready" ELSE HdIdle /\ mem[FS]["in"].type = "READY"
  /\ pc[FS] = "open" => HdIdle
  /\ pc[FS] = "info" => IF B(FS) THEN HdReceives ELSE HdBusy("OPEN") \/ HdIdle
  /\ pc[FS] = "root" => IF B(FS) THEN HdBusy("OPEN") \/ HdReceives
                        ELSE HdBusy("INFO") \/ HdIdle \/ Robbed
  /\ pc[FS] = "sb_read" => HdBusy("INFO") \/ HdIdle \/ Robbed
  /\ pc[FS] \in Wait => IF B(FS) THEN HdBusy("INFO") \/ HdReceives \/ Robbed
                        ELSE HdBusy(Op) \/ HdAnswers("FINISH")
  /\ pc[FS] \in End => IF B(FS) THEN HdBusy(Op) ELSE HdIdle
  /\ pc[FS] \in {"serve", "dispatch", "work", "read", "write"} => HdIdle

\* what TTY and FS are about
FsFree == (pc[FS] = "serve" /\ ~B(FS)) \/ (pc[FS] = "dispatch" /\ B(FS))
FsStarts == pc[FS] \in {"hd_ready", "is_ready", "open", "info", "root", "sb_read", "sb_wait", "sb_end"}
FsWorks == \/ pc[FS] = "dispatch" /\ ~B(FS) /\ mem[FS]["in"].type \in {"DIR", "MK"}
           \/ pc[FS] \in {"work", "read", "read_wait", "read_end", "write", "write_wait", "write_end"}
ShellInv ==
  /\ pc[TTY] = "prompt" => ~B(TTY) /\ served = asked /\ (FsFree \/ (asked = 0 /\ FsStarts))
  /\ pc[TTY] = "await" =>
       IF B(TTY) THEN pc[FS] = "serve" /\ ~B(FS) /\ asked = served + 1
       ELSE \/ FsWorks /\ asked = served + 1
            \/ pc[FS] = "serve" /\ B(FS) /\ served = asked
  /\ pc[TTY] = "answered" =>
       IF B(TTY) THEN FsWorks /\ asked = served + 1 ELSE FsFree /\ served = asked

\* the sector on its way
DataInv ==
  /\ dev.st = "done" => dev.data = disk[dev.lba]
  /\ pc[HD] \in {"fill", "wait", "woken"} => /\ dev.lba = hd_pos
                                             /\ dev.op = IF hd_op = "WRITE" THEN "WRITE" ELSE "READ"
  /\ (pc[HD] \in {"wait", "woken"} /\ hd_op = "WRITE") =>
       dev.data = fs_buf.wt /\ (dev.st = "idle" => disk[hd_pos] = fs_buf.wt)
  /\ (pc[HD] = "dispatch" /\ ~B(HD) /\ mem[HD]["in"].type \in {"READ", "WRITE"}) => mem[HD]["in"].pos = io_pos
  /\ (pc[HD] \in {"cmd", "fill", "wait", "woken", "reply"} /\ hd_op \in {"READ", "WRITE"}) => hd_pos = io_pos
  /\ (\/ pc[HD] = "reply"
      \/ pc[FS] \in Wait /\ pc[HD] = "recv" /\ B(HD)
      \/ pc[FS] \in End /\ ~B(FS)) =>
       IF Op = "WRITE" THEN disk[io_pos] = fs_buf.wt ELSE fs_buf.rd = disk[io_pos]
  /\ hd_op = "OPEN" /\ pc[HD] \in {"cmd", "fill", "wait", "woken"} => hd_pos = 0
IInv == TypeOK /\ PcInv /\ LinkInv /\ BlockInv /\ IntInv /\ TalkInv /\ ShellInv /\ DataInv

--------------------------------------------------------------------------------
(* Message calls between processes of which at most one is queued          *)

LEMMA Next1InProc == ASSUME NEW p \in Proc PROVE Next1(p) \in Proc
  BY NProcAssumption DEF Next1, Proc

\* A call ends with a process on the CPU that is not blocked.
LEMMA Rescheduled ==
  ASSUME SchedTypeOK, \A r \in Proc : take_up[r] = 1, NEW p \in Proc, RescheduleIfBlocked(p),
         p = current_proc, \A r \in Proc \ {p} : B(r)' => B(r)
  PROVE  SchedTypeOK' /\ UNCHANGED take_up /\ ~B(current_proc)'
<1> USE DEF SchedTypeOK, Runnable, Scan, B
<1>0. UNCHANGED take_up
  BY DEF RescheduleIfBlocked
<1>1. CASE msg_block'[p] = 1 /\ ProcLineSchedule(msg_block', take_up)
  BY <1>0, <1>1, Next1InProc DEF ProcLineSchedule
<1>2. CASE msg_block'[p] # 1 /\ UNCHANGED <<current_proc, proc_ptr>>
  BY <1>0, <1>2
<1>3. CASE TickInside(msg_block'[p] = 1)
  <2>1. PICK c \in Proc :
          /\ Scan(proc_ptr, msg_block, take_up, c)
          /\ IF msg_block'[p] = 1
             THEN \E d \in Proc : Scan(Next1(c), msg_block', take_up, d) /\ current_proc' = d /\ proc_ptr' = Next1(d)
             ELSE current_proc' = c /\ proc_ptr' = Next1(c)
    BY <1>3 DEF TickInside
  <2>2. CASE msg_block'[p] = 1
    BY <1>0, <2>1, <2>2, Next1InProc
  <2>3. CASE msg_block'[p] # 1
    BY <1>0, <2>1, <2>3, Next1InProc
  <2> QED BY <2>2, <2>3
<1> QED
  BY <1>1, <1>2, <1>3 DEF RescheduleIfBlocked

\* Nothing is linked behind anybody, and who is linked points to a structure.
Flat ==
  /\ MsgTypeOK /\ SchedTypeOK /\ \A p \in Proc : take_up[p] = 1
  /\ \A p \in Proc : msg_next[p] = NULL
  /\ \A p, q \in Proc : msg_head[q] = p => msg[p] \in Struct

LEMMA FlatQueue ==
  ASSUME Flat, NEW q \in Proc
  PROVE  /\ LinkedHasStruct
         /\ Queue(q) = IF msg_head[q] = NULL THEN {} ELSE {msg_head[q]}
<1>1. LinkedHasStruct
  BY NullAssumption DEF Flat, LinkedHasStruct, HasStruct, MsgTypeOK
<1>2. CASE msg_head[q] = NULL
  BY <1>1, <1>2, ReachNull DEF Queue
<1>3. CASE msg_head[q] # NULL
  <2>1. msg_head[q] \in Proc /\ msg_next \in Links2
    BY <1>3 DEF Flat, MsgTypeOK, Links2
  <2>2. msg_head[q] \in Queue(q)
    BY <2>1, ReachStart DEF Queue
  <2>3. Queue(q) \subseteq {msg_head[q]}
    BY <2>1, ReachUnfold, ReachNull DEF Queue, Flat
  <2> QED BY <1>1, <1>3, <2>2, <2>3
<1> QED BY <1>2, <1>3

\* A message call leaves the interrupts, and who was not concerned, alone.
CallFrame ==
  /\ MsgTypeOK' /\ SchedTypeOK' /\ UNCHANGED <<take_up, intVars>> /\ ~B(current_proc)'
  /\ \A p \in Proc : msg_next'[p] = NULL

\* send_message at a process at which nobody waits.
LEMMA SendEffect ==
  ASSUME Flat, NEW p \in Proc, NEW q \in Proc, p # q, NEW s \in Struct, NEW m \in Content,
         msg_head[q] = NULL, p = current_proc, ~B(p), SysSendMessage(p, q, s, m)
  PROVE  /\ CallFrame /\ UNCHANGED recv_from
         /\ \/ /\ CanHandOver(p, q)
               /\ msg_block' = [msg_block EXCEPT ![q] = 0]
               /\ mem' = [mem EXCEPT ![p][s] = m, ![q][msg[q]] = m]
               /\ UNCHANGED <<send_to, msg, msg_head>>
            \/ /\ ~CanHandOver(p, q)
               /\ msg_block' = [msg_block EXCEPT ![p] = 1]
               /\ mem' = [mem EXCEPT ![p][s] = m]
               /\ msg' = [msg EXCEPT ![p] = s]
               /\ msg_head' = [msg_head EXCEPT ![q] = p]
<1>1. MsgSend(p, q, s, m) /\ RescheduleIfBlocked(p) /\ UNCHANGED intVars /\ LinkedHasStruct
  BY FlatQueue DEF SysSendMessage, MsgSend
<1>2. CASE HandOver(p, q, s, m)
  <2>1. MsgTypeOK' /\ msg_block' = [msg_block EXCEPT ![q] = 0]
    BY <1>1, <1>2, HandOverType DEF Flat
  <2>2. \A r \in Proc \ {p} : B(r)' => B(r)
    BY <2>1 DEF B, Flat, MsgTypeOK
  <2> QED BY <1>1, <1>2, <2>1, <2>2, Rescheduled DEF Flat, CallFrame, HandOver, queueVars
<1>3. CASE Enqueue(p, q, s, m)
  <2>1. MsgTypeOK' /\ msg_block' = [msg_block EXCEPT ![p] = 1]
    BY <1>1, <1>3, EnqueueType DEF Flat
  <2>2. \A r \in Proc \ {p} : B(r)' => B(r)
    BY <2>1 DEF B, Flat, MsgTypeOK
  <2>3. msg_head' = [msg_head EXCEPT ![q] = p] /\ \A r \in Proc : msg_next'[r] = NULL
    BY <1>3 DEF Enqueue, InsertMsgQueue, Flat, MsgTypeOK
  <2> QED BY <1>1, <1>3, <2>1, <2>2, <2>3, Rescheduled DEF Flat, CallFrame, Enqueue
<1> QED BY <1>1, <1>2, <1>3 DEF MsgSend

\* recv_message of a process at which at most one sender waits.
LEMMA RecvEffect ==
  ASSUME Flat, NEW q \in Proc, NEW from \in Proc \cup {ANY}, NEW s \in Struct,
         q = current_proc, ~B(q), msg_head[q] # q, SysRecvMessage(from, q, s)
  PROVE  /\ CallFrame
         /\ \/ \E t \in Proc \ {q} :
                 /\ msg_head[q] = t /\ from \in {ANY, t}
                 /\ msg_block' = [msg_block EXCEPT ![t] = 0]
                 /\ mem' = [mem EXCEPT ![q][s] = mem[t][msg[t]]]
                 /\ msg_head' = [msg_head EXCEPT ![q] = NULL]
                 /\ UNCHANGED <<recv_from, send_to, msg>>
            \/ /\ msg_head[q] = NULL \/ from \notin {ANY, msg_head[q]}
               /\ msg_block' = [msg_block EXCEPT ![q] = 1]
               /\ recv_from' = [recv_from EXCEPT ![q] = from]
               /\ msg' = [msg EXCEPT ![q] = s]
               /\ UNCHANGED <<send_to, msg_head, mem>>
<1>1. /\ MsgReceive(q, from, s) /\ RescheduleIfBlocked(q) /\ UNCHANGED intVars /\ LinkedHasStruct
      /\ Queue(q) = IF msg_head[q] = NULL THEN {} ELSE {msg_head[q]}
  BY FlatQueue DEF SysRecvMessage, MsgReceive
<1>2. CASE TakeQueued(q, from, s)
  <2>1. PICK t \in Queue(q) :
          /\ FirstMatch(q, from, t)
          /\ mem' = [mem EXCEPT ![q][s] = mem[t][msg[t]]]
          /\ msg_block' = [msg_block EXCEPT ![t] = 0]
          /\ Unlink(t, q)
    BY <1>2 DEF TakeQueued
  <2>2. t = msg_head[q] /\ t \in Proc \ {q} /\ from \in {ANY, t}
    BY <1>1, <2>1 DEF FirstMatch, Matching, Flat, MsgTypeOK
  <2>3. msg_head' = [msg_head EXCEPT ![q] = NULL] /\ \A r \in Proc : msg_next'[r] = NULL
    BY <2>1, <2>2 DEF Unlink, Flat
  <2>4. MsgTypeOK'
    BY <1>1, <1>2, TakeQueuedType DEF Flat
  <2>5. \A r \in Proc \ {q} : B(r)' => B(r)
    BY <2>1, <2>2 DEF B, Flat, MsgTypeOK
  <2> QED BY <1>1, <1>2, <2>1, <2>2, <2>3, <2>4, <2>5, Rescheduled DEF Flat, CallFrame, TakeQueued
<1>3. CASE AwaitSender(q, from, s)
  <2>1. MsgTypeOK' /\ msg_block' = [msg_block EXCEPT ![q] = 1]
    BY <1>1, <1>3, AwaitSenderType DEF Flat
  <2>2. \A r \in Proc \ {q} : B(r)' => B(r)
    BY <2>1 DEF B, Flat, MsgTypeOK
  <2>3. msg_head[q] = NULL \/ from \notin {ANY, msg_head[q]}
    BY <1>1, <1>3 DEF AwaitSender, Matching
  <2>4. \A r \in Proc : msg_next'[r] = NULL
    BY <1>3 DEF AwaitSender, queueVars, Flat
  <2> QED BY <1>1, <1>3, <2>1, <2>2, <2>3, <2>4, Rescheduled DEF Flat, CallFrame, AwaitSender, queueVars
<1> QED BY <1>1, <1>2, <1>3 DEF MsgReceive

--------------------------------------------------------------------------------
LEMMA Roles ==
  /\ Proc = {TTY, IDLE, HD, FS} /\ TTY # IDLE /\ TTY # HD /\ TTY # FS
  /\ IDLE # HD /\ IDLE # FS /\ HD # FS /\ ANY \notin Proc /\ NULL \notin Proc
  /\ Struct = {"in", "out", "io"} /\ NULL \notin Struct
  /\ NO_INT # HAS_INT /\ NO_INT # WAIT_INT /\ HAS_INT # WAIT_INT
  BY DiskStackAssumption, NullAssumption DEF Proc, TTY, IDLE, HD, FS, ANY, NO_INT, HAS_INT, WAIT_INT

LEMMA Messages ==
  /\ 0 \in Lba /\ PartStart \in Lba /\ 1 \in Lba /\ PartStart + 1 \in Lba
  /\ \A t \in Types, l \in Lba : M(t, l) \in Content /\ M(t, l).type = t /\ M(t, l).pos = l
  BY DiskStackAssumption DEF M, Lba

LEMMA IsFlat == ASSUME IInv PROVE Flat
  BY Roles DEF IInv, Flat, TypeOK, LinkInv, BlockInv, B

\* What a request of FS does to the state: it wakes HD, or waits in its queue.
LEMMA FsAsks ==
  ASSUME IInv, NEW a, NEW b, NEW s, NEW m, At(FS, a, b), SysSendMessage(FS, HD, s, m),
         \/ <<a, b, s, m>> = <<"open", "info", "out", M("OPEN", 0)>>
         \/ <<a, b, s, m>> = <<"info", "root", "out", M("INFO", 0)>>
         \/ <<a, b, s, m>> = <<"sb_read", "sb_wait", "io", M("READ", io_pos)>>
         \/ <<a, b, s, m>> = <<"read", "read_wait", "io", M("READ", io_pos)>>
         \/ <<a, b, s, m>> = <<"write", "write_wait", "io", M("WRITE", io_pos)>>,
         UNCHANGED <<kernel, diskVars, hdVars, hd_part, fsVars, asked>>
  PROVE  IInv'
<1>1. /\ pc[FS] = a /\ kernel = "user" /\ current_proc = FS /\ pc' = [pc EXCEPT ![FS] = b]
      /\ UNCHANGED <<kernel, diskVars, hdVars, hd_part, fsVars, asked>>
  BY DEF At
<1>2. /\ ~B(FS) /\ msg_head[HD] = NULL /\ Flat /\ m \in Content /\ s \in {"out", "io"} /\ b \in ToHd
      /\ io_pos \in Lba
  BY <1>1, IsFlat, Roles, Messages DEF IInv, LinkInv, BlockInv, TypeOK, Types, ToHd
<1>3. /\ CallFrame /\ UNCHANGED recv_from
      /\ \/ /\ CanHandOver(FS, HD)
            /\ msg_block' = [msg_block EXCEPT ![HD] = 0]
            /\ mem' = [mem EXCEPT ![FS][s] = m, ![HD][msg[HD]] = m]
            /\ UNCHANGED <<send_to, msg, msg_head>>
         \/ /\ ~CanHandOver(FS, HD)
            /\ msg_block' = [msg_block EXCEPT ![FS] = 1]
            /\ mem' = [mem EXCEPT ![FS][s] = m]
            /\ msg' = [msg EXCEPT ![FS] = s]
            /\ msg_head' = [msg_head EXCEPT ![HD] = FS]
  BY <1>1, <1>2, Roles, SendEffect
<1>4. /\ pc'[FS] = b /\ pc'[HD] = pc[HD] /\ pc'[TTY] = pc[TTY]
      /\ (B(TTY)' <=> B(TTY)) /\ (B(IDLE)' <=> B(IDLE))
      /\ mem'[TTY] = mem[TTY] /\ mem'[FS][s] = m /\ mem'[FS]["in"] = mem[FS]["in"]
  BY <1>1, <1>2, <1>3, Roles DEF IInv, PcInv, TypeOK, MsgTypeOK, B
<1>5. \/ /\ B(HD) /\ ~B(HD)' /\ ~B(FS)' /\ recv_from[HD] = ANY /\ int_status[HD] # WAIT_INT
         /\ \A c \in Struct : mem'[HD][c] \in {m, mem[HD][c]}
         /\ mem'[HD][msg[HD]] = m /\ UNCHANGED <<msg, msg_head>>
      \/ /\ (B(HD)' <=> B(HD)) /\ B(FS)' /\ mem'[HD] = mem[HD]
         /\ ~(B(HD) /\ recv_from[HD] = ANY /\ int_status[HD] # WAIT_INT)
         /\ msg'[FS] = s /\ msg'[TTY] = msg[TTY] /\ msg'[HD] = msg[HD]
         /\ msg_head' = [msg_head EXCEPT ![HD] = FS]
  <2>1. CASE CanHandOver(FS, HD)
    <3>1. recv_from[HD] = ANY /\ msg[HD] \in Struct
      BY <2>1, Roles DEF IInv, BlockInv, CanHandOver
    <3> QED BY <1>2, <1>3, <2>1, <3>1, Roles DEF IInv, TypeOK, MsgTypeOK, B, CanHandOver
  <2>2. CASE ~CanHandOver(FS, HD)
    BY <1>2, <1>3, <2>2, Roles DEF IInv, TypeOK, MsgTypeOK, B, CanHandOver
  <2> QED BY <2>1, <2>2
<1>6. PcInv'
  BY <1>1, <1>2, Roles DEF IInv, PcInv, ToHd
<1>7. LinkInv'
  <2>1. ~(B(HD) /\ pc[HD] = "recv")
    BY <1>1, <1>2 DEF Robbed, IInv, TalkInv, HdIdle, HdBusy
  <2> QED BY <1>1, <1>2, <1>3, <1>4, <1>5, <2>1, Roles DEF IInv, PcInv, LinkInv, CallFrame, TypeOK, MsgTypeOK, ToHd
<1>8. BlockInv'
  <2>1. B(FS)' => \/ b = "info" /\ msg'[FS] = "out" /\ mem'[FS]["out"].type = "OPEN"
                  \/ b = "root" /\ msg'[FS] = "out" /\ mem'[FS]["out"].type = "INFO"
                  \/ b \in {"sb_wait", "read_wait"} /\ msg'[FS] = "io" /\ mem'[FS]["io"] = M("READ", io_pos)
                  \/ b = "write_wait" /\ msg'[FS] = "io" /\ mem'[FS]["io"] = M("WRITE", io_pos)
    BY <1>2, <1>4, <1>5, Messages DEF Types
  <2>2. io_pos' = io_pos /\ kernel' = kernel
    BY <1>1 DEF fsVars
  <2> QED BY <1>1, <1>3, <1>4, <1>5, <2>1, <2>2, Roles DEF IInv, PcInv, CallFrame, BlockInv
<1>9. IntInv'
  BY <1>1, <1>3, <1>4, <1>5, Roles DEF IInv, IntInv, CallFrame, BlockInv, Finished, diskVars, hdVars, intVars
<1>10. TalkInv'
  <2> USE DEF HdIdle, HdBusy, HdReceives
  <2>1. HdIdle => IF B(FS)' THEN HdReceives' ELSE HdBusy(m.type)'
    BY <1>3, <1>4, <1>5, Roles DEF IInv, IntInv, BlockInv
  <2>2. \A t : (HdBusy(t) /\ ~B(HD)) => (HdBusy(t) /\ ~B(HD) /\ B(FS))'
    BY <1>1, <1>4, <1>5 DEF hdVars
  <2>3. HdBusy("OPEN") => HdBusy("OPEN")' /\ (~B(FS)' => Robbed')
    BY <1>1, <1>4, <1>5, Roles DEF IInv, IntInv, BlockInv, hdVars, Robbed
  <2>4. m.type = (CASE b = "info" -> "OPEN" [] b = "root" -> "INFO" [] OTHER -> Op')
    BY <1>1, <1>2, <1>4, Messages DEF Types, Op
  <2>5. (HdBusy("INFO") => ~B(HD)) /\ (b = "root" => a = "info") /\ (b = "info" => a = "open")
    BY <1>2 DEF IInv, IntInv
  <2>6. b = "info" => IF B(FS)' THEN HdReceives' ELSE HdBusy("OPEN")'
    BY <1>1, <2>1, <2>4, <2>5 DEF IInv, TalkInv
  <2>7. b = "root" => IF B(FS)' THEN (HdBusy("OPEN") \/ HdReceives)'
                      ELSE HdBusy("INFO")' \/ Robbed'
    BY <1>1, <2>1, <2>2, <2>3, <2>4, <2>5 DEF IInv, TalkInv
  <2>8. b \in Wait => IF B(FS)' THEN HdBusy("INFO")' \/ HdReceives' \/ Robbed'
                      ELSE HdBusy(Op)'
    BY <1>1, <2>1, <2>2, <2>4, <2>5 DEF Robbed, IInv, TalkInv, Wait
  <2> HIDE DEF HdIdle, HdBusy, HdReceives
  <2> QED BY <1>2, <1>4, <2>6, <2>7, <2>8 DEF TalkInv, ToHd, Wait, End
<1>11. ShellInv'
  BY <1>1, <1>4, <1>5 DEF IInv, ShellInv, fsVars, FsFree, FsWorks, FsStarts
<1>12. DataInv'
  <2>1. pc[HD] # "reply" /\ ~(pc[HD] = "recv" /\ B(HD))
    BY <1>1, <1>2 DEF Robbed, IInv, IntInv, TalkInv, HdIdle, HdBusy
  <2>2. (pc[HD] = "dispatch" /\ ~B(HD)' /\ mem'[HD]["in"].type \in {"READ", "WRITE"}) => mem'[HD]["in"].pos = io_pos
    <3>1. m.type \in {"READ", "WRITE"} => m.pos = io_pos
      BY <1>2, Messages DEF Types
    <3> QED BY <1>5, <3>1, Roles DEF IInv, BlockInv, DataInv
  <2>3. b \notin End /\ (b \in Wait => io_pos' = io_pos)
    BY <1>1, <1>2 DEF ToHd, End, fsVars
  <2>4. DataInv
    BY DEF IInv
  <2> QED BY <1>1, <1>4, <1>5, <2>1, <2>2, <2>3, <2>4 DEF DataInv, fsVars, diskVars, hdVars
<1>13. TypeOK'
  BY <1>1, <1>3 DEF IInv, TypeOK, CallFrame, fsVars, hdVars, diskVars
<1> QED BY <1>6, <1>7, <1>8, <1>9, <1>10, <1>11, <1>12, <1>13 DEF IInv

--------------------------------------------------------------------------------
(* Steps without a message call                                            *)

LEMMA Local ==
  ASSUME IInv, NoKernelCall
  PROVE  /\ MsgTypeOK' /\ SchedTypeOK' /\ \A p : B(p)' <=> B(p)
         /\ UNCHANGED <<msg_block, recv_from, msg, msg_head, msg_next, int_status, interrupt_id, mem>>
         /\ UNCHANGED <<current_proc, take_up>>
  BY DEF IInv, TypeOK, NoKernelCall, msgVars, schedVars, queueVars, intVars, MsgTypeOK, SchedTypeOK, B

\* FS goes on by itself: it leaves the message calls, the driver and its interrupt alone.
LEMMA FsAlone ==
  ASSUME IInv, NoKernelCall, NEW a, NEW b, At(FS, a, b),
         b \in {"open", "hd_ready", "sb_read", "serve", "work", "read", "write"},
         UNCHANGED <<kernel, diskVars, hdVars, asked>>
  PROVE  /\ pc[FS] = a /\ pc'[FS] = b /\ pc'[HD] = pc[HD] /\ pc'[TTY] = pc[TTY] /\ ~B(FS)
         /\ PcInv' /\ LinkInv' /\ BlockInv' /\ IntInv'
<1>1. /\ pc[FS] = a /\ pc' = [pc EXCEPT ![FS] = b] /\ ~B(FS)
      /\ UNCHANGED <<kernel, diskVars, hdVars, asked>>
  BY Roles DEF At, IInv, BlockInv
<1>2. pc'[FS] = b /\ pc'[HD] = pc[HD] /\ pc'[TTY] = pc[TTY] /\ pc'[IDLE] = pc[IDLE] /\ DOMAIN pc' = Proc
  BY <1>1, Roles DEF IInv, PcInv
<1>3. PcInv'
  BY <1>2 DEF IInv, PcInv
<1>4. LinkInv'
  BY <1>1, <1>2, Local, Roles DEF IInv, LinkInv, ToHd
<1>5. BlockInv'
  BY <1>1, <1>2, Local DEF IInv, BlockInv
<1>6. IntInv'
  BY <1>1, <1>2, Local DEF IInv, IntInv, hdVars, diskVars, Finished
<1> QED BY <1>1, <1>2, <1>3, <1>4, <1>5, <1>6

LEMMA FsIsReadyStep == ASSUME IInv, FsIsReady PROVE IInv'
<1>1. /\ pc[FS] = "is_ready" /\ ~B(FS) /\ NoKernelCall /\ At(FS, "is_ready", "open") /\ HdIdle
      /\ UNCHANGED <<kernel, diskVars, hdVars, hd_part, fsVars, asked>>
  BY Roles DEF FsIsReady, At, IInv, BlockInv, TalkInv
<1>2. pc'[FS] = "open" /\ pc'[HD] = pc[HD] /\ pc'[TTY] = pc[TTY] /\ PcInv' /\ LinkInv' /\ BlockInv' /\ IntInv'
  BY <1>1, FsAlone
<1>3. TypeOK'
  BY <1>1, Local DEF IInv, TypeOK, hdVars, fsVars, diskVars
<1>4. TalkInv'
  BY <1>1, <1>2, Local DEF TalkInv, HdIdle, Wait, End
<1>5. ShellInv'
  BY <1>1, <1>2, Local DEF IInv, ShellInv, FsFree, FsWorks, FsStarts, fsVars
<1>6. DataInv'
  BY <1>1, <1>2, Local DEF IInv, DataInv, hdVars, diskVars, fsVars, Wait, End, Op
<1> QED BY <1>2, <1>3, <1>4, <1>5, <1>6 DEF IInv

LEMMA FsRootStep == ASSUME IInv, FsRoot PROVE IInv'
<1>1. /\ pc[FS] = "root" /\ ~B(FS) /\ NoKernelCall /\ At(FS, "root", "sb_read")
      /\ UNCHANGED <<kernel, diskVars, hdVars, hd_part, fs_buf, served, asked>>
      /\ fs_root' = hd_part /\ io_pos' = hd_part + 1 /\ io_left' = 0
      /\ HdBusy("INFO") \/ HdIdle \/ Robbed
  BY Roles DEF FsRoot, At, IInv, BlockInv, TalkInv
<1>2. pc'[FS] = "sb_read" /\ pc'[HD] = pc[HD] /\ pc'[TTY] = pc[TTY] /\ PcInv' /\ LinkInv' /\ BlockInv' /\ IntInv'
  BY <1>1, FsAlone
<1>3. TypeOK'
  <2>1. io_pos' \in Lba /\ io_left' \in 0 .. MaxIO /\ fs_root' \in {0, PartStart}
    BY <1>1, Messages, DiskStackAssumption DEF IInv, TypeOK
  <2> QED BY <1>1, <2>1, Local DEF IInv, TypeOK, hdVars, diskVars
<1>4. TalkInv'
  BY <1>1, <1>2, Local DEF TalkInv, HdIdle, HdBusy, Robbed, Wait, End, hdVars
<1>5. ShellInv'
  BY <1>1, <1>2, Local DEF IInv, ShellInv, FsFree, FsWorks, FsStarts
<1>6. DataInv'
  <2>1. /\ ~(pc[HD] = "dispatch" /\ ~B(HD) /\ mem[HD]["in"].type \in {"READ", "WRITE"})
        /\ ~(pc[HD] \in {"cmd", "fill", "wait", "woken", "reply"} /\ hd_op \in {"READ", "WRITE"})
        /\ pc[HD] # "reply"
    BY <1>1 DEF Robbed, IInv, IntInv, HdIdle, HdBusy
  <2> QED BY <1>1, <1>2, <2>1, Local DEF IInv, DataInv, hdVars, diskVars, Wait, End, Op
<1> QED BY <1>2, <1>3, <1>4, <1>5, <1>6 DEF IInv

LEMMA FsIoEndStep == ASSUME IInv, FsIoEnd PROVE IInv'
<1>1. PICK a \in End, b \in {"serve", "work"} :
        /\ pc[FS] = a /\ ~B(FS) /\ NoKernelCall /\ At(FS, a, b) /\ HdIdle
        /\ b = "serve" <=> a = "sb_end"
        /\ UNCHANGED <<kernel, diskVars, hdVars, hd_part, fsVars, asked>>
  BY Roles DEF FsIoEnd, At, IInv, BlockInv, TalkInv, End
<1>2. pc'[FS] = b /\ pc'[HD] = pc[HD] /\ pc'[TTY] = pc[TTY] /\ PcInv' /\ LinkInv' /\ BlockInv' /\ IntInv'
  BY <1>1, FsAlone DEF End
<1>3. TypeOK'
  BY <1>1, Local DEF IInv, TypeOK, hdVars, fsVars, diskVars
<1>4. TalkInv'
  BY <1>1, <1>2, Local DEF TalkInv, HdIdle, Wait, End
<1>5. ShellInv'
  BY <1>1, <1>2, Local DEF IInv, ShellInv, FsFree, FsWorks, FsStarts, fsVars, End
<1>6. DataInv'
  <2>1. pc[HD] \in {"dispatch", "recv"} /\ (pc[HD] = "dispatch" => B(HD)) /\ (pc[HD] = "recv" => ~B(HD))
    BY <1>1 DEF HdIdle
  <2> QED BY <1>1, <1>2, <2>1, Local DEF IInv, DataInv, hdVars, diskVars, fsVars, Wait, End
<1> QED BY <1>2, <1>3, <1>4, <1>5, <1>6 DEF IInv

LEMMA FsDispatchStep == ASSUME IInv, FsDispatch PROVE IInv'
<1>1. PICK b \in {"work", "serve"} :
        /\ pc[FS] = "dispatch" /\ ~B(FS) /\ NoKernelCall /\ At(FS, "dispatch", b) /\ HdIdle
        /\ b = (IF mem[FS]["in"].type \in {"DIR", "MK"} THEN "work" ELSE "serve")
        /\ UNCHANGED <<kernel, diskVars, hdVars, hd_part, fs_root, fs_buf, io_pos, served, asked>>
        /\ io_left' = MaxIO
  BY Roles DEF FsDispatch, At, IInv, BlockInv, TalkInv
<1>2. pc'[FS] = b /\ pc'[HD] = pc[HD] /\ pc'[TTY] = pc[TTY] /\ PcInv' /\ LinkInv' /\ BlockInv' /\ IntInv'
  BY <1>1, FsAlone
<1>3. TypeOK'
  BY <1>1, Local, DiskStackAssumption DEF IInv, TypeOK, hdVars, diskVars
<1>4. TalkInv'
  BY <1>1, <1>2, Local DEF TalkInv, HdIdle, Wait, End
<1>5. ShellInv'
  BY <1>1, <1>2, Local DEF IInv, ShellInv, FsFree, FsWorks, FsStarts
<1>6. DataInv'
  <2>1. pc[HD] \in {"dispatch", "recv"} /\ (pc[HD] = "dispatch" => B(HD)) /\ (pc[HD] = "recv" => ~B(HD))
    BY <1>1 DEF HdIdle
  <2> QED BY <1>1, <1>2, <2>1, Local DEF IInv, DataInv, hdVars, diskVars, Wait, End
<1> QED BY <1>2, <1>3, <1>4, <1>5, <1>6 DEF IInv

LEMMA FsAccessStep == ASSUME IInv, FsAccess PROVE IInv'
<1>1. PICK b \in {"read", "write"}, s \in 0 .. MaxSector :
        /\ pc[FS] = "work" /\ ~B(FS) /\ NoKernelCall /\ At(FS, "work", b) /\ HdIdle
        /\ io_left > 0 /\ io_left' = io_left - 1 /\ io_pos' = s + fs_root
        /\ \/ UNCHANGED fs_buf
           \/ \E v \in {0, 1} : fs_buf' = [fs_buf EXCEPT !.wt = v]
        /\ UNCHANGED <<kernel, diskVars, hdVars, hd_part, fs_root, served, asked>>
  BY Roles DEF FsAccess, At, IInv, BlockInv, TalkInv
<1>2. pc'[FS] = b /\ pc'[HD] = pc[HD] /\ pc'[TTY] = pc[TTY] /\ PcInv' /\ LinkInv' /\ BlockInv' /\ IntInv'
  BY <1>1, FsAlone
<1>3. TypeOK'
  <2>1. io_pos' \in Lba /\ io_left' \in 0 .. MaxIO
    BY <1>1, DiskStackAssumption DEF IInv, TypeOK, Lba
  <2>2. fs_buf' \in [rd : Val \cup {Garbage}, wt : Val]
    BY <1>1, DiskStackAssumption DEF IInv, TypeOK, Val
  <2> QED BY <1>1, <2>1, <2>2, Local DEF IInv, TypeOK, hdVars, diskVars
<1>4. TalkInv'
  BY <1>1, <1>2, Local DEF TalkInv, HdIdle, Wait, End
<1>5. ShellInv'
  BY <1>1, <1>2, Local DEF IInv, ShellInv, FsFree, FsWorks, FsStarts
<1>6. DataInv'
  <2>1. pc[HD] \in {"dispatch", "recv"} /\ (pc[HD] = "dispatch" => B(HD)) /\ (pc[HD] = "recv" => ~B(HD))
    BY <1>1 DEF HdIdle
  <2> QED BY <1>1, <1>2, <2>1, Local DEF IInv, DataInv, hdVars, diskVars, Wait, End
<1> QED BY <1>2, <1>3, <1>4, <1>5, <1>6 DEF IInv

--------------------------------------------------------------------------------
(* The receives and the answers of FS                                      *)

LEMMA FsReceives ==
  ASSUME IInv, NEW a, NEW b, NEW from, NEW s, At(FS, a, b), SysRecvMessage(from, FS, s),
         \/ <<a, b, from, s>> = <<"hd_ready", "is_ready", HD, "in">>
         \/ <<a, b, from, s>> = <<"sb_wait", "sb_end", HD, "io">>
         \/ <<a, b, from, s>> = <<"read_wait", "read_end", HD, "io">>
         \/ <<a, b, from, s>> = <<"write_wait", "write_end", HD, "io">>
         \/ <<a, b, from, s>> = <<"serve", "dispatch", ANY, "in">>,
         UNCHANGED <<kernel, diskVars, hdVars, hd_part, fsVars, asked>>
  PROVE  IInv'
<1>1. /\ pc[FS] = a /\ kernel = "user" /\ current_proc = FS /\ pc' = [pc EXCEPT ![FS] = b]
      /\ UNCHANGED <<kernel, diskVars, hdVars, hd_part, fsVars, asked>>
  BY DEF At
<1>2. /\ ~B(FS) /\ Flat /\ from \in {HD, ANY} /\ s \in {"in", "io"}
      /\ a \in {"hd_ready", "sb_wait", "read_wait", "write_wait", "serve"}
  BY <1>1, IsFlat, Roles DEF IInv, BlockInv
<1>3. /\ msg_head[FS] \in {NULL, HD, TTY}
      /\ msg_head[FS] = HD <=> B(HD) /\ pc[HD] = "recv"
      /\ msg_head[FS] = TTY <=> B(TTY) /\ pc[TTY] = "await"
      /\ msg_head[FS] = TTY => a = "serve"
      /\ a = "serve" => from = ANY /\ HdIdle /\ msg_head[FS] # HD
  BY <1>1, <1>2, Roles DEF IInv, LinkInv, ShellInv, FsWorks, TalkInv, HdIdle
<1>4. /\ CallFrame
      /\ \/ \E t \in Proc \ {FS} :
              /\ msg_head[FS] = t /\ from \in {ANY, t}
              /\ msg_block' = [msg_block EXCEPT ![t] = 0]
              /\ mem' = [mem EXCEPT ![FS][s] = mem[t][msg[t]]]
              /\ msg_head' = [msg_head EXCEPT ![FS] = NULL]
              /\ UNCHANGED <<recv_from, send_to, msg>>
         \/ /\ msg_head[FS] = NULL \/ from \notin {ANY, msg_head[FS]}
            /\ msg_block' = [msg_block EXCEPT ![FS] = 1]
            /\ recv_from' = [recv_from EXCEPT ![FS] = from]
            /\ msg' = [msg EXCEPT ![FS] = s]
            /\ UNCHANGED <<send_to, msg_head, mem>>
  BY <1>1, <1>2, <1>3, Roles, RecvEffect
<1>5. /\ pc'[FS] = b /\ pc'[HD] = pc[HD] /\ pc'[TTY] = pc[TTY] /\ (B(IDLE)' <=> B(IDLE))
      /\ mem'[TTY] = mem[TTY] /\ mem'[HD] = mem[HD] /\ recv_from'[HD] = recv_from[HD]
      /\ msg'[HD] = msg[HD] /\ msg'[TTY] = msg[TTY] /\ recv_from'[TTY] = recv_from[TTY]
  BY <1>1, <1>2, <1>3, <1>4, Roles DEF IInv, PcInv, TypeOK, MsgTypeOK, B
<1>6. \/ /\ B(HD) /\ pc[HD] = "recv" /\ ~B(HD)' /\ ~B(FS)' /\ (B(TTY)' <=> B(TTY)) /\ a # "serve"
         /\ mem'[FS][s] = mem[HD]["out"]
         /\ msg_head' = [msg_head EXCEPT ![FS] = NULL]
      \/ /\ B(TTY) /\ pc[TTY] = "await" /\ ~B(TTY)' /\ ~B(FS)' /\ (B(HD)' <=> B(HD)) /\ a = "serve"
         /\ mem'[FS]["in"] = mem[TTY]["io"] /\ ~(B(HD) /\ pc[HD] = "recv")
         /\ msg_head' = [msg_head EXCEPT ![FS] = NULL]
      \/ /\ B(FS)' /\ (B(HD)' <=> B(HD)) /\ (B(TTY)' <=> B(TTY)) /\ mem' = mem
         /\ recv_from'[FS] = from /\ msg'[FS] = s /\ UNCHANGED msg_head
         /\ ~(B(HD) /\ pc[HD] = "recv") /\ ~(B(TTY) /\ pc[TTY] = "await")
  BY <1>2, <1>3, <1>4, Roles DEF IInv, TypeOK, MsgTypeOK, BlockInv, B
<1>7. PcInv'
  BY <1>1, <1>2, <1>5, Roles DEF IInv, PcInv
<1>8. LinkInv'
  BY <1>1, <1>2, <1>3, <1>4, <1>5, <1>6, Roles DEF IInv, PcInv, LinkInv, CallFrame, TypeOK, MsgTypeOK, ToHd
<1>9. BlockInv'
  BY <1>1, <1>4, <1>5, <1>6, Roles DEF IInv, PcInv, CallFrame, BlockInv, fsVars
<1>10. IntInv'
  BY <1>1, <1>4, <1>5, <1>6, Roles DEF IInv, IntInv, CallFrame, BlockInv, Finished, diskVars, hdVars, intVars
<1>11. TalkInv'
  <2> USE DEF HdIdle, HdBusy, HdAnswers
  <2>1. \A t : HdBusy(t) /\ ~(B(HD) /\ pc[HD] = "recv") => HdBusy(t)' /\ (B(HD)' <=> B(HD))
    BY <1>1, <1>5, <1>6 DEF hdVars
  <2>2. b = "is_ready" => IF B(FS)' THEN pc'[HD] = "ready" ELSE HdIdle' /\ mem'[FS]["in"].type = "READY"
    BY <1>1, <1>5, <1>6 DEF IInv, TalkInv
  <2>3. b \in End => IF B(FS)' THEN HdBusy(Op)' ELSE HdIdle'
    BY <1>1, <1>2, <1>5, <1>6, <2>1 DEF IInv, TalkInv, Wait, End, Op
  <2>4. b = "dispatch" => HdIdle'
    BY <1>1, <1>3, <1>5, <1>6
  <2> QED BY <1>5, <2>2, <2>3, <2>4 DEF TalkInv, Wait, End
<1>12. ShellInv'
  BY <1>1, <1>5, <1>6 DEF IInv, BlockInv, ShellInv, fsVars, FsFree, FsWorks, FsStarts
<1>13. DataInv'
  <2>1. (pc[HD] = "dispatch" /\ ~B(HD)') => ~B(HD)
    BY <1>6
  <2>2. ~(pc'[HD] = "recv" /\ B(HD)')
    BY <1>5, <1>6
  <2>3. (b \in End /\ ~B(FS)') => /\ a \in Wait /\ pc[HD] = "recv" /\ B(HD)
                                  /\ (Op' = Op)
    BY <1>1, <1>2, <1>5, <1>6 DEF Wait, End, Op
  <2>4. pc[HD] = "reply" => Op' = Op
    BY <1>1, <1>2, <1>5 DEF Op
  <2> QED BY <1>1, <1>5, <1>6, <2>1, <2>2, <2>3, <2>4 DEF IInv, DataInv, fsVars, diskVars, hdVars, Wait, End
<1>14. TypeOK'
  BY <1>1, <1>4 DEF IInv, TypeOK, CallFrame, fsVars, hdVars, diskVars
<1> QED BY <1>7, <1>8, <1>9, <1>10, <1>11, <1>12, <1>13, <1>14 DEF IInv

LEMMA FsReplyStep == ASSUME IInv, FsReply PROVE IInv'
<1>1. /\ pc[FS] = "work" /\ kernel = "user" /\ current_proc = FS /\ pc' = [pc EXCEPT ![FS] = "serve"]
      /\ SysSendMessage(FS, TTY, "out", M("FINISH", 0)) /\ served' = served + 1
      /\ UNCHANGED <<kernel, diskVars, hdVars, hd_part, fs_root, fs_buf, io_pos, io_left, asked>>
  BY DEF FsReply, At
<1>2. /\ ~B(FS) /\ Flat /\ msg_head[TTY] = NULL /\ HdIdle /\ M("FINISH", 0) \in Content /\ "out" \in Struct
  BY <1>1, IsFlat, Roles, Messages DEF IInv, BlockInv, LinkInv, TalkInv, ToHd, Types
<1>3. \/ pc[TTY] = "await" /\ ~B(TTY) /\ asked = served + 1
      \/ /\ pc[TTY] = "answered" /\ B(TTY) /\ asked = served + 1
         /\ recv_from[TTY] = FS /\ msg[TTY] = "io" /\ int_status[TTY] = NO_INT
  BY <1>1, <1>2, Roles DEF IInv, PcInv, ShellInv, BlockInv, IntInv, FsFree, FsWorks, FsStarts
<1>4. /\ CallFrame /\ UNCHANGED recv_from
      /\ \/ /\ CanHandOver(FS, TTY)
            /\ msg_block' = [msg_block EXCEPT ![TTY] = 0]
            /\ mem' = [mem EXCEPT ![FS]["out"] = M("FINISH", 0), ![TTY][msg[TTY]] = M("FINISH", 0)]
            /\ UNCHANGED <<send_to, msg, msg_head>>
         \/ /\ ~CanHandOver(FS, TTY)
            /\ msg_block' = [msg_block EXCEPT ![FS] = 1]
            /\ mem' = [mem EXCEPT ![FS]["out"] = M("FINISH", 0)]
            /\ msg' = [msg EXCEPT ![FS] = "out"]
            /\ msg_head' = [msg_head EXCEPT ![TTY] = FS]
  BY <1>1, <1>2, Roles, SendEffect
<1>5. /\ pc'[FS] = "serve" /\ pc'[HD] = pc[HD] /\ pc'[TTY] = pc[TTY] /\ pc'[IDLE] = pc[IDLE] /\ DOMAIN pc' = Proc
      /\ (B(IDLE)' <=> B(IDLE)) /\ (B(HD)' <=> B(HD)) /\ mem'[HD] = mem[HD] /\ msg'[HD] = msg[HD]
      /\ mem'[FS]["in"] = mem[FS]["in"] /\ ~B(TTY)'
      /\ \/ pc[TTY] = "answered" /\ ~B(FS)' /\ UNCHANGED msg_head
         \/ /\ pc[TTY] = "await" /\ B(FS)' /\ msg'[FS] = "out"
            /\ msg_head' = [msg_head EXCEPT ![TTY] = FS]
  BY <1>1, <1>2, <1>3, <1>4, Roles DEF IInv, PcInv, TypeOK, MsgTypeOK, CanHandOver, B
<1>6. PcInv'
  BY <1>5 DEF IInv, PcInv
<1>7. LinkInv'
  BY <1>1, <1>2, <1>3, <1>4, <1>5, Roles DEF IInv, LinkInv, CallFrame, TypeOK, MsgTypeOK, ToHd
<1>8. BlockInv'
  BY <1>1, <1>4, <1>5, Roles DEF IInv, CallFrame, BlockInv
<1>9. IntInv'
  BY <1>1, <1>4, <1>5, Roles DEF IInv, IntInv, CallFrame, Finished, diskVars, hdVars, intVars
<1>10. TalkInv'
  BY <1>2, <1>5 DEF TalkInv, HdIdle, Wait, End
<1>11. ShellInv'
  BY <1>1, <1>3, <1>5 DEF ShellInv, FsFree, FsWorks
<1>12. DataInv'
  <2>1. pc[HD] \in {"dispatch", "recv"} /\ (pc[HD] = "dispatch" => B(HD)) /\ (pc[HD] = "recv" => ~B(HD))
    BY <1>2 DEF HdIdle
  <2> QED BY <1>1, <1>5, <2>1 DEF IInv, DataInv, hdVars, diskVars, Wait, End
<1>13. TypeOK'
  <2>1. served' \in 0 .. MaxCmd
    BY <1>1, <1>3, DiskStackAssumption DEF IInv, TypeOK
  <2> QED BY <1>1, <1>4, <2>1 DEF IInv, TypeOK, CallFrame, hdVars, diskVars
<1> QED BY <1>6, <1>7, <1>8, <1>9, <1>10, <1>11, <1>12, <1>13 DEF IInv

--------------------------------------------------------------------------------
(* The shell                                                               *)

LEMMA TtyCommandStep ==
  ASSUME IInv, ~EarlyCommand, NEW t \in {"DIR", "MK"}, TtyCommand(t)
  PROVE  IInv'
<1>1. /\ pc[TTY] = "prompt" /\ kernel = "user" /\ current_proc = TTY /\ pc' = [pc EXCEPT ![TTY] = "await"]
      /\ SysSendMessage(TTY, FS, "io", M(t, 0)) /\ asked' = asked + 1 /\ asked < MaxCmd
      /\ asked > 0 \/ pc[FS] \in {"serve", "dispatch"}
      /\ UNCHANGED <<kernel, diskVars, hdVars, hd_part, fsVars>>
  BY DEF TtyCommand, At
<1>2. /\ ~B(TTY) /\ Flat /\ M(t, 0) \in Content /\ M(t, 0).type = t /\ "io" \in Struct
      /\ served = asked /\ asked' = served' + 1
  BY <1>1, IsFlat, Roles, Messages DEF IInv, ShellInv, Types, fsVars
<1>3. FsFree
  BY <1>1 DEF IInv, TypeOK, ShellInv, FsStarts
<1>4. HdIdle /\ msg_head[FS] = NULL
  BY <1>2, <1>3, Roles DEF IInv, TalkInv, LinkInv, FsFree, HdIdle
<1>5. B(FS) => recv_from[FS] = ANY /\ msg[FS] = "in" /\ int_status[FS] = NO_INT
  BY <1>3, Roles DEF IInv, BlockInv, IntInv, FsFree
<1>6. /\ CallFrame /\ UNCHANGED recv_from
      /\ \/ /\ CanHandOver(TTY, FS)
            /\ msg_block' = [msg_block EXCEPT ![FS] = 0]
            /\ mem' = [mem EXCEPT ![TTY]["io"] = M(t, 0), ![FS][msg[FS]] = M(t, 0)]
            /\ UNCHANGED <<send_to, msg, msg_head>>
         \/ /\ ~CanHandOver(TTY, FS)
            /\ msg_block' = [msg_block EXCEPT ![TTY] = 1]
            /\ mem' = [mem EXCEPT ![TTY]["io"] = M(t, 0)]
            /\ msg' = [msg EXCEPT ![TTY] = "io"]
            /\ msg_head' = [msg_head EXCEPT ![FS] = TTY]
  BY <1>1, <1>2, <1>4, Roles, SendEffect
<1>7. /\ pc'[TTY] = "await" /\ pc'[HD] = pc[HD] /\ pc'[FS] = pc[FS] /\ pc'[IDLE] = pc[IDLE] /\ DOMAIN pc' = Proc
      /\ (B(IDLE)' <=> B(IDLE)) /\ (B(HD)' <=> B(HD)) /\ mem'[HD] = mem[HD] /\ msg'[HD] = msg[HD] /\ ~B(FS)'
      /\ \/ pc[FS] = "dispatch" /\ ~B(TTY)' /\ mem'[FS]["in"] = M(t, 0) /\ UNCHANGED msg_head
         \/ /\ pc[FS] = "serve" /\ B(TTY)' /\ msg'[TTY] = "io" /\ mem'[TTY]["io"] = M(t, 0)
            /\ msg_head' = [msg_head EXCEPT ![FS] = TTY]
  BY <1>1, <1>2, <1>3, <1>5, <1>6, Roles DEF IInv, PcInv, TypeOK, MsgTypeOK, CanHandOver, B, FsFree
<1>8. PcInv'
  BY <1>7 DEF IInv, PcInv
<1>9. LinkInv'
  BY <1>1, <1>2, <1>3, <1>4, <1>6, <1>7, Roles DEF IInv, LinkInv, CallFrame, TypeOK, MsgTypeOK, ToHd, HdIdle, FsFree
<1>10. BlockInv'
  BY <1>1, <1>2, <1>6, <1>7, Roles DEF IInv, CallFrame, BlockInv
<1>11. IntInv'
  BY <1>1, <1>6, <1>7, Roles DEF IInv, IntInv, CallFrame, Finished, diskVars, hdVars, intVars
<1>12. TalkInv'
  BY <1>4, <1>7 DEF TalkInv, HdIdle, Wait, End
<1>13. ShellInv'
  BY <1>1, <1>2, <1>7 DEF ShellInv, FsFree, FsWorks
<1>14. DataInv'
  <2>1. pc[HD] \in {"dispatch", "recv"} /\ (pc[HD] = "dispatch" => B(HD)) /\ (pc[HD] = "recv" => ~B(HD))
    BY <1>4 DEF HdIdle
  <2> QED BY <1>1, <1>7, <2>1 DEF IInv, DataInv, hdVars, diskVars, Wait, End
<1>15. TypeOK'
  <2>1. asked' \in 0 .. MaxCmd
    BY <1>1, DiskStackAssumption DEF IInv, TypeOK
  <2> QED BY <1>1, <1>6, <2>1 DEF IInv, TypeOK, CallFrame, hdVars, diskVars, fsVars
<1> QED BY <1>8, <1>9, <1>10, <1>11, <1>12, <1>13, <1>14, <1>15 DEF IInv

LEMMA TtyAwaitStep == ASSUME IInv, TtyAwait PROVE IInv'
<1>1. /\ pc[TTY] = "await" /\ kernel = "user" /\ current_proc = TTY /\ pc' = [pc EXCEPT ![TTY] = "answered"]
      /\ SysRecvMessage(FS, TTY, "io")
      /\ UNCHANGED <<kernel, diskVars, hdVars, hd_part, fsVars, asked>>
  BY DEF TtyAwait, At
<1>2. /\ ~B(TTY) /\ Flat /\ "io" \in Struct
      /\ msg_head[TTY] = IF B(FS) /\ pc[FS] = "serve" THEN FS ELSE NULL
      /\ ~(B(FS) /\ pc[FS] = "serve") => FsWorks /\ asked = served + 1
      /\ (B(FS) /\ pc[FS] = "serve") => served = asked
  BY <1>1, IsFlat, Roles DEF IInv, BlockInv, LinkInv, ShellInv, FsWorks
<1>3. /\ CallFrame
      /\ \/ \E t \in Proc \ {TTY} :
              /\ msg_head[TTY] = t /\ FS \in {ANY, t}
              /\ msg_block' = [msg_block EXCEPT ![t] = 0]
              /\ mem' = [mem EXCEPT ![TTY]["io"] = mem[t][msg[t]]]
              /\ msg_head' = [msg_head EXCEPT ![TTY] = NULL]
              /\ UNCHANGED <<recv_from, send_to, msg>>
         \/ /\ msg_head[TTY] = NULL \/ FS \notin {ANY, msg_head[TTY]}
            /\ msg_block' = [msg_block EXCEPT ![TTY] = 1]
            /\ recv_from' = [recv_from EXCEPT ![TTY] = FS]
            /\ msg' = [msg EXCEPT ![TTY] = "io"]
            /\ UNCHANGED <<send_to, msg_head, mem>>
  BY <1>1, <1>2, Roles, RecvEffect
<1>4. /\ pc'[TTY] = "answered" /\ pc'[HD] = pc[HD] /\ pc'[FS] = pc[FS] /\ pc'[IDLE] = pc[IDLE] /\ DOMAIN pc' = Proc
      /\ (B(IDLE)' <=> B(IDLE)) /\ (B(HD)' <=> B(HD)) /\ mem'[HD] = mem[HD] /\ mem'[FS] = mem[FS]
      /\ msg'[HD] = msg[HD] /\ msg'[FS] = msg[FS] /\ recv_from'[HD] = recv_from[HD] /\ recv_from'[FS] = recv_from[FS]
      /\ \/ /\ pc[FS] = "serve" /\ B(FS) /\ ~B(FS)' /\ ~B(TTY)' /\ served = asked
            /\ msg_head' = [msg_head EXCEPT ![TTY] = NULL]
         \/ /\ FsWorks /\ asked = served + 1 /\ B(TTY)' /\ msg'[TTY] = "io" /\ recv_from'[TTY] = FS
            /\ (B(FS)' <=> B(FS)) /\ UNCHANGED msg_head /\ ~(B(FS) /\ pc[FS] = "serve")
  BY <1>1, <1>2, <1>3, Roles DEF IInv, PcInv, TypeOK, MsgTypeOK, B
<1>5. PcInv'
  BY <1>4 DEF IInv, PcInv
<1>6. LinkInv'
  BY <1>1, <1>2, <1>3, <1>4, Roles DEF IInv, LinkInv, CallFrame, TypeOK, MsgTypeOK, ToHd
<1>7. BlockInv'
  BY <1>1, <1>3, <1>4, Roles DEF IInv, CallFrame, BlockInv, fsVars
<1>8. IntInv'
  BY <1>1, <1>3, <1>4, Roles DEF IInv, IntInv, CallFrame, Finished, diskVars, hdVars, intVars
<1>9. TalkInv'
  BY <1>1, <1>4 DEF IInv, TalkInv, HdIdle, HdBusy, HdAnswers, HdReceives, Robbed, Wait, End, Op, hdVars
<1>10. ShellInv'
  BY <1>1, <1>4 DEF ShellInv, FsFree, FsWorks, fsVars
<1>11. DataInv'
  BY <1>1, <1>4 DEF IInv, DataInv, hdVars, diskVars, fsVars, Wait, End, Op
<1>12. TypeOK'
  BY <1>1, <1>3 DEF IInv, TypeOK, CallFrame, fsVars, hdVars, diskVars
<1> QED BY <1>5, <1>6, <1>7, <1>8, <1>9, <1>10, <1>11, <1>12 DEF IInv

LEMMA TtyPrintStep == ASSUME IInv, TtyPrint PROVE IInv'
<1>1. /\ pc[TTY] = "answered" /\ pc' = [pc EXCEPT ![TTY] = "prompt"] /\ NoKernelCall /\ ~B(TTY)
      /\ UNCHANGED <<kernel, diskVars, hdVars, hd_part, fsVars, asked>>
  BY Roles DEF TtyPrint, At, IInv, BlockInv
<1>2. /\ pc'[TTY] = "prompt" /\ pc'[HD] = pc[HD] /\ pc'[FS] = pc[FS] /\ pc'[IDLE] = pc[IDLE] /\ DOMAIN pc' = Proc
  BY <1>1, Roles DEF IInv, PcInv
<1>3. PcInv'
  BY <1>2 DEF IInv, PcInv
<1>4. LinkInv'
  BY <1>1, <1>2, Local DEF IInv, LinkInv
<1>5. BlockInv'
  BY <1>1, <1>2, Local DEF IInv, BlockInv, fsVars
<1>6. IntInv'
  BY <1>1, <1>2, Local DEF IInv, IntInv, Finished, diskVars, hdVars
<1>7. TalkInv'
  BY <1>1, <1>2, Local DEF IInv, TalkInv, HdIdle, HdBusy, HdAnswers, HdReceives, Robbed, Wait, End, Op, hdVars
<1>8. ShellInv'
  BY <1>1, <1>2, Local DEF IInv, ShellInv, FsFree, fsVars
<1>9. DataInv'
  BY <1>1, <1>2, Local DEF IInv, DataInv, hdVars, diskVars, fsVars, Wait, End, Op
<1>10. TypeOK'
  BY <1>1, Local DEF IInv, TypeOK, hdVars, fsVars, diskVars
<1> QED BY <1>3, <1>4, <1>5, <1>6, <1>7, <1>8, <1>9, <1>10 DEF IInv

--------------------------------------------------------------------------------
(* The messages of HD                                                      *)

\* Where FS is when HD has something to tell it.
LEMMA FsAwaits ==
  ASSUME IInv
  PROVE  /\ pc[HD] = "ready" => (pc[FS] = "hd_ready" /\ ~B(FS)) \/ (pc[FS] = "is_ready" /\ B(FS))
         /\ pc[HD] = "reply" => /\ hd_op = Op
                                /\ (pc[FS] \in Wait /\ ~B(FS)) \/ (pc[FS] \in End /\ B(FS))
<1>1. CASE pc[HD] = "ready"
  BY <1>1 DEF Robbed, IInv, PcInv, BlockInv, TalkInv, HdIdle, HdBusy, HdReceives, HdAnswers, Wait, End
<1>2. CASE pc[HD] = "reply"
  <2>1. /\ ~HdIdle /\ ~HdReceives /\ ~Robbed /\ ~HdBusy("OPEN") /\ ~HdBusy("INFO") /\ (\A t : ~HdAnswers(t))
        /\ pc[HD] # "ready"
    BY <1>2 DEF Robbed, IInv, IntInv, BlockInv, HdIdle, HdBusy, HdReceives, HdAnswers
  <2>2. \/ pc[FS] \in Wait /\ ~B(FS) /\ HdBusy(Op)
        \/ pc[FS] \in End /\ B(FS) /\ HdBusy(Op)
    BY <2>1 DEF IInv, PcInv, TalkInv, Wait, End
  <2>3. HdBusy(Op) => hd_op = Op
    BY <1>2 DEF HdBusy
  <2> QED BY <1>2, <2>2, <2>3
<1> QED BY <1>1, <1>2

\* HD announces itself, or answers an access: nobody else is queued at FS.
LEMMA HdAnswersFs ==
  ASSUME IInv, NEW a, NEW m, At(HD, a, "recv"), SysSendMessage(HD, FS, "out", m),
         \/ a = "ready" /\ m = M("READY", 0)
         \/ a = "reply" /\ m = M("FINISH", 0),
         UNCHANGED <<kernel, diskVars, hdVars, hd_part, fsVars, asked>>
  PROVE  IInv'
<1>1. /\ pc[HD] = a /\ kernel = "user" /\ current_proc = HD /\ pc' = [pc EXCEPT ![HD] = "recv"]
      /\ UNCHANGED <<kernel, diskVars, hdVars, hd_part, fsVars, asked>>
  BY DEF At
<1>2. /\ ~B(HD) /\ Flat /\ m \in Content /\ "out" \in Struct
      /\ m.type = IF a = "ready" THEN "READY" ELSE "FINISH"
      /\ dev.st = "idle" /\ int_status[HD] = NO_INT
  BY <1>1, IsFlat, Roles, Messages DEF IInv, BlockInv, IntInv, Types
<1>3. /\ a = "ready" => (pc[FS] = "hd_ready" /\ ~B(FS)) \/ (pc[FS] = "is_ready" /\ B(FS))
      /\ a = "reply" => /\ hd_op = Op
                        /\ (pc[FS] \in Wait /\ ~B(FS)) \/ (pc[FS] \in End /\ B(FS))
  BY <1>1, FsAwaits
<1>4. msg_head[FS] = NULL /\ ~(B(TTY) /\ pc[TTY] = "await")
  BY <1>1, <1>3 DEF IInv, LinkInv, ShellInv, Wait, End
<1>5. B(FS) => recv_from[FS] = HD /\ int_status[FS] = NO_INT /\ msg[FS] = IF pc[FS] = "is_ready" THEN "in" ELSE "io"
  BY <1>1, <1>3, Roles DEF IInv, BlockInv, IntInv, Wait, End
<1>6. /\ CallFrame /\ UNCHANGED recv_from
      /\ \/ /\ CanHandOver(HD, FS)
            /\ msg_block' = [msg_block EXCEPT ![FS] = 0]
            /\ mem' = [mem EXCEPT ![HD]["out"] = m, ![FS][msg[FS]] = m]
            /\ UNCHANGED <<send_to, msg, msg_head>>
         \/ /\ ~CanHandOver(HD, FS)
            /\ msg_block' = [msg_block EXCEPT ![HD] = 1]
            /\ mem' = [mem EXCEPT ![HD]["out"] = m]
            /\ msg' = [msg EXCEPT ![HD] = "out"]
            /\ msg_head' = [msg_head EXCEPT ![FS] = HD]
  BY <1>1, <1>2, <1>4, Roles, SendEffect
<1>7. /\ pc'[HD] = "recv" /\ pc'[TTY] = pc[TTY] /\ pc'[FS] = pc[FS] /\ pc'[IDLE] = pc[IDLE] /\ DOMAIN pc' = Proc
      /\ (B(IDLE)' <=> B(IDLE)) /\ (B(TTY)' <=> B(TTY)) /\ mem'[TTY] = mem[TTY] /\ msg'[TTY] = msg[TTY] /\ ~B(FS)'
      /\ \/ /\ B(FS) /\ ~B(HD)' /\ mem'[FS][msg[FS]] = m /\ UNCHANGED <<msg_head, msg>>
         \/ /\ ~B(FS) /\ B(HD)' /\ msg'[HD] = "out" /\ mem'[HD]["out"] = m /\ mem'[FS] = mem[FS]
            /\ msg_head' = [msg_head EXCEPT ![FS] = HD]
  BY <1>1, <1>2, <1>5, <1>6, Roles DEF IInv, PcInv, TypeOK, MsgTypeOK, CanHandOver, B
<1>8. PcInv'
  BY <1>7 DEF IInv, PcInv
<1>9. LinkInv'
  BY <1>1, <1>2, <1>3, <1>4, <1>6, <1>7, Roles DEF IInv, LinkInv, CallFrame, TypeOK, MsgTypeOK, ToHd, Wait, End
<1>10. BlockInv'
  <2>1. recv_from'[HD] = ANY => msg'[HD] \in Struct
    BY <1>6, <1>7, Roles DEF IInv, BlockInv
  <2> QED BY <1>1, <1>2, <1>6, <1>7, <2>1, Roles DEF IInv, CallFrame, BlockInv
<1>11. IntInv'
  BY <1>1, <1>2, <1>6, <1>7, Roles DEF IInv, IntInv, CallFrame, Finished, diskVars, hdVars, intVars
<1>12. TalkInv'
  BY <1>1, <1>2, <1>3, <1>5, <1>7 DEF TalkInv, HdIdle, HdAnswers, Wait, End
<1>13. ShellInv'
  <2>1. FsStarts \/ pc[FS] \in {"read_wait", "read_end", "write_wait", "write_end"}
    BY <1>1, <1>3 DEF Wait, End, FsStarts
  <2> QED BY <1>1, <1>3, <1>7, <2>1 DEF IInv, ShellInv, FsFree, FsWorks, FsStarts, fsVars
<1>14. DataInv'
  BY <1>1, <1>2, <1>3, <1>7 DEF IInv, DataInv, hdVars, diskVars, fsVars, Wait, End, Op
<1>15. TypeOK'
  BY <1>1, <1>6 DEF IInv, TypeOK, CallFrame, hdVars, diskVars, fsVars
<1> QED BY <1>8, <1>9, <1>10, <1>11, <1>12, <1>13, <1>14, <1>15 DEF IInv

LEMMA HdRecvStep == ASSUME IInv, HdRecv PROVE IInv'
<1>1. /\ pc[HD] = "recv" /\ kernel = "user" /\ current_proc = HD /\ pc' = [pc EXCEPT ![HD] = "dispatch"]
      /\ SysRecvMessage(ANY, HD, "in")
      /\ UNCHANGED <<kernel, diskVars, hdVars, hd_part, fsVars, asked>>
  BY DEF HdRecv, At
<1>2. /\ ~B(HD) /\ Flat /\ "in" \in Struct
      /\ msg_head[HD] = IF B(FS) /\ pc[FS] \in ToHd THEN FS ELSE NULL
      /\ dev.st = "idle" /\ int_status[HD] = NO_INT
  BY <1>1, IsFlat, Roles DEF IInv, BlockInv, LinkInv, IntInv
<1>3. /\ CallFrame
      /\ \/ \E t \in Proc \ {HD} :
              /\ msg_head[HD] = t /\ ANY \in {ANY, t}
              /\ msg_block' = [msg_block EXCEPT ![t] = 0]
              /\ mem' = [mem EXCEPT ![HD]["in"] = mem[t][msg[t]]]
              /\ msg_head' = [msg_head EXCEPT ![HD] = NULL]
              /\ UNCHANGED <<recv_from, send_to, msg>>
         \/ /\ msg_head[HD] = NULL \/ ANY \notin {ANY, msg_head[HD]}
            /\ msg_block' = [msg_block EXCEPT ![HD] = 1]
            /\ recv_from' = [recv_from EXCEPT ![HD] = ANY]
            /\ msg' = [msg EXCEPT ![HD] = "in"]
            /\ UNCHANGED <<send_to, msg_head, mem>>
  BY <1>1, <1>2, Roles, RecvEffect
<1>4. /\ pc'[HD] = "dispatch" /\ pc'[TTY] = pc[TTY] /\ pc'[FS] = pc[FS] /\ pc'[IDLE] = pc[IDLE] /\ DOMAIN pc' = Proc
      /\ (B(IDLE)' <=> B(IDLE)) /\ (B(TTY)' <=> B(TTY)) /\ mem'[TTY] = mem[TTY] /\ mem'[FS] = mem[FS]
      /\ msg'[TTY] = msg[TTY] /\ msg'[FS] = msg[FS] /\ recv_from'[TTY] = recv_from[TTY] /\ recv_from'[FS] = recv_from[FS]
      /\ \/ /\ pc[FS] \in ToHd /\ B(FS) /\ ~B(FS)' /\ ~B(HD)' /\ mem'[HD]["in"] = mem[FS][msg[FS]]
            /\ msg_head' = [msg_head EXCEPT ![HD] = NULL] /\ UNCHANGED <<recv_from, msg>>
         \/ /\ B(HD)' /\ msg'[HD] = "in" /\ recv_from'[HD] = ANY
            /\ (B(FS)' <=> B(FS)) /\ UNCHANGED msg_head /\ ~(B(FS) /\ pc[FS] \in ToHd)
  BY <1>1, <1>2, <1>3, Roles DEF IInv, PcInv, TypeOK, MsgTypeOK, B
<1>5. (B(FS) /\ pc[FS] \in ToHd) =>
        /\ mem[FS][msg[FS]].type = (CASE pc[FS] = "info" -> "OPEN" [] pc[FS] = "root" -> "INFO" [] OTHER -> Op)
        /\ pc[FS] \in Wait => mem[FS][msg[FS]].pos = io_pos
  <2>1. M("READ", io_pos).type = "READ" /\ M("READ", io_pos).pos = io_pos
        /\ M("WRITE", io_pos).type = "WRITE" /\ M("WRITE", io_pos).pos = io_pos
    BY Messages DEF Types, IInv, TypeOK
  <2> QED BY <2>1 DEF IInv, BlockInv, ToHd, Wait, Op
<1>6. PcInv'
  BY <1>4 DEF IInv, PcInv
<1>7. LinkInv'
  BY <1>1, <1>2, <1>3, <1>4, Roles DEF IInv, LinkInv, CallFrame, TypeOK, MsgTypeOK, ToHd
<1>8. BlockInv'
  BY <1>1, <1>2, <1>3, <1>4, Roles DEF IInv, CallFrame, BlockInv, fsVars
<1>9. IntInv'
  BY <1>1, <1>2, <1>3, <1>4, Roles DEF IInv, IntInv, CallFrame, Finished, diskVars, hdVars, intVars
<1>10. TalkInv'
  BY <1>1, <1>2, <1>4, <1>5 DEF IInv, TalkInv, HdIdle, HdBusy, HdAnswers, HdReceives, Robbed, Wait, End, Op, ToHd, hdVars
<1>11. ShellInv'
  BY <1>1, <1>4 DEF IInv, ShellInv, FsFree, FsWorks, FsStarts, fsVars, ToHd
<1>12. DataInv'
  BY <1>1, <1>2, <1>4, <1>5 DEF IInv, DataInv, hdVars, diskVars, fsVars, Wait, End, Op, ToHd
<1>13. TypeOK'
  BY <1>1, <1>3 DEF IInv, TypeOK, CallFrame, hdVars, diskVars, fsVars
<1> QED BY <1>6, <1>7, <1>8, <1>9, <1>10, <1>11, <1>12, <1>13 DEF IInv

--------------------------------------------------------------------------------
(* HD and the controller                                                   *)

\* HD goes on by itself: it leaves the message calls, FS and the shell alone.
LEMMA HdAlone ==
  ASSUME IInv, NoKernelCall, NEW a, NEW b, At(HD, a, b),
         b \in {"recv", "cmd", "fill", "wait", "woken", "reply"},
         UNCHANGED <<io_pos, served, asked>>
  PROVE  /\ pc[HD] = a /\ pc'[HD] = b /\ pc'[FS] = pc[FS] /\ pc'[TTY] = pc[TTY] /\ ~B(HD) /\ kernel = "user"
         /\ PcInv' /\ LinkInv' /\ BlockInv' /\ ShellInv'
<1>1. pc[HD] = a /\ pc' = [pc EXCEPT ![HD] = b] /\ ~B(HD) /\ kernel = "user" /\ UNCHANGED <<io_pos, served, asked>>
  BY Roles DEF At, IInv, BlockInv
<1>2. pc'[HD] = b /\ pc'[FS] = pc[FS] /\ pc'[TTY] = pc[TTY] /\ pc'[IDLE] = pc[IDLE] /\ DOMAIN pc' = Proc
  BY <1>1, Roles DEF IInv, PcInv
<1>3. PcInv'
  BY <1>2 DEF IInv, PcInv
<1>4. LinkInv'
  BY <1>1, <1>2, Local, Roles DEF IInv, LinkInv, ToHd
<1>5. BlockInv'
  BY <1>1, <1>2, Local DEF IInv, BlockInv
<1>6. ShellInv'
  BY <1>1, <1>2, Local DEF IInv, ShellInv, FsFree, FsWorks, FsStarts
<1> QED BY <1>1, <1>2, <1>3, <1>4, <1>5, <1>6

LEMMA HdDispatchStep == ASSUME IInv, HdDispatch PROVE IInv'
<1> DEFINE t == mem[HD]["in"].type
           b == IF t \in {"OPEN", "READ", "WRITE"} THEN "cmd" ELSE "recv"
<1>1. /\ At(HD, "dispatch", b) /\ NoKernelCall /\ hd_op' = t
      /\ hd_pos' = IF t = "OPEN" THEN 0 ELSE mem[HD]["in"].pos
      /\ hd_part' = IF t = "INFO" /\ part_num > 0 THEN PartStart ELSE hd_part
      /\ UNCHANGED <<kernel, diskVars, hdbuf, part_num, fsVars, asked>>
  BY DEF HdDispatch
<1>2. /\ pc[HD] = "dispatch" /\ pc'[HD] = b /\ pc'[FS] = pc[FS] /\ pc'[TTY] = pc[TTY] /\ ~B(HD) /\ kernel = "user"
      /\ PcInv' /\ LinkInv' /\ BlockInv' /\ ShellInv'
  BY <1>1, HdAlone DEF fsVars
<1>3. mem[HD]["in"] \in Content /\ t \in Types /\ mem[HD]["in"].pos \in Lba
  BY Roles, DiskStackAssumption DEF IInv, TypeOK, MsgTypeOK
<1>4. TypeOK'
  BY <1>1, <1>3, Local, Messages DEF IInv, TypeOK, fsVars, diskVars
<1>5. IntInv'
  BY <1>1, <1>2, Local DEF IInv, IntInv, Finished, diskVars
<1>6. TalkInv'
  BY <1>1, <1>2, Local DEF IInv, TalkInv, HdIdle, HdBusy, HdAnswers, HdReceives, Robbed, Wait, End, Op
<1>7. DataInv'
  BY <1>1, <1>2, Local DEF IInv, IntInv, DataInv, fsVars, diskVars, Wait, End, Op
<1> QED BY <1>2, <1>4, <1>5, <1>6, <1>7 DEF IInv

LEMMA HdCommandStep == ASSUME IInv, HdCommand PROVE IInv'
<1> DEFINE b == IF hd_op = "WRITE" THEN "fill" ELSE "wait"
<1>1. /\ At(HD, "cmd", b) /\ NoKernelCall
      /\ dev' = [dev EXCEPT !.op = IF hd_op = "WRITE" THEN "WRITE" ELSE "READ",
                            !.lba = hd_pos,
                            !.st = IF hd_op = "WRITE" THEN "drq" ELSE "busy"]
      /\ UNCHANGED <<kernel, disk, hdVars, hd_part, fsVars, asked>>
  BY DEF HdCommand
<1>2. /\ pc[HD] = "cmd" /\ pc'[HD] = b /\ pc'[FS] = pc[FS] /\ pc'[TTY] = pc[TTY] /\ ~B(HD) /\ kernel = "user"
      /\ PcInv' /\ LinkInv' /\ BlockInv' /\ ShellInv'
  BY <1>1, HdAlone DEF fsVars
<1>3. /\ dev'.op = (IF hd_op = "WRITE" THEN "WRITE" ELSE "READ") /\ dev'.lba = hd_pos /\ dev'.data = dev.data
      /\ dev'.st = (IF hd_op = "WRITE" THEN "drq" ELSE "busy")
  BY <1>1 DEF IInv, TypeOK
<1>4. TypeOK'
  BY <1>1, Local DEF IInv, TypeOK, fsVars, hdVars
<1>5. IntInv'
  BY <1>1, <1>2, <1>3, Local DEF IInv, IntInv, Finished, hdVars
<1>6. TalkInv'
  BY <1>1, <1>2, Local DEF IInv, TalkInv, HdIdle, HdBusy, HdAnswers, HdReceives, Robbed, Wait, End, Op, hdVars
<1>7. DataInv'
  BY <1>1, <1>2, <1>3, Local DEF IInv, IntInv, DataInv, fsVars, hdVars, Wait, End, Op
<1> QED BY <1>2, <1>4, <1>5, <1>6, <1>7 DEF IInv

LEMMA HdFillStep == ASSUME IInv, HdFill PROVE IInv'
<1>1. /\ At(HD, "fill", "wait") /\ NoKernelCall /\ dev' = [dev EXCEPT !.st = "busy", !.data = fs_buf.wt]
      /\ UNCHANGED <<kernel, disk, hdVars, hd_part, fsVars, asked>>
  BY DEF HdFill
<1>2. /\ pc[HD] = "fill" /\ pc'[HD] = "wait" /\ pc'[FS] = pc[FS] /\ pc'[TTY] = pc[TTY] /\ ~B(HD) /\ kernel = "user"
      /\ PcInv' /\ LinkInv' /\ BlockInv' /\ ShellInv'
  BY <1>1, HdAlone DEF fsVars
<1>3. dev'.op = dev.op /\ dev'.lba = dev.lba /\ dev'.data = fs_buf.wt /\ dev'.st = "busy"
  BY <1>1 DEF IInv, TypeOK
<1>4. TypeOK'
  BY <1>1, Local DEF IInv, TypeOK, fsVars, hdVars
<1>5. IntInv'
  BY <1>1, <1>2, <1>3, Local DEF IInv, IntInv, Finished, hdVars
<1>6. TalkInv'
  BY <1>1, <1>2, Local DEF IInv, TalkInv, HdIdle, HdBusy, HdAnswers, HdReceives, Robbed, Wait, End, Op, hdVars
<1>7. DataInv'
  BY <1>1, <1>2, <1>3, Local DEF IInv, IntInv, DataInv, fsVars, hdVars, Wait, End, Op
<1> QED BY <1>2, <1>4, <1>5, <1>6, <1>7 DEF IInv

LEMMA HdWaitStep == ASSUME IInv, HdWait PROVE IInv'
<1>1. /\ At(HD, "wait", "woken") /\ NoKernelCall /\ kernel' = "test"
      /\ UNCHANGED <<diskVars, hdVars, hd_part, fsVars, asked>>
  BY DEF HdWait
<1>2. /\ pc[HD] = "wait" /\ pc'[HD] = "woken" /\ pc'[FS] = pc[FS] /\ pc'[TTY] = pc[TTY] /\ ~B(HD) /\ kernel = "user"
      /\ PcInv' /\ LinkInv' /\ BlockInv' /\ ShellInv'
  BY <1>1, HdAlone DEF fsVars
<1>3. TypeOK'
  BY <1>1, Local DEF IInv, TypeOK, fsVars, hdVars, diskVars
<1>4. IntInv'
  BY <1>1, <1>2, Local DEF IInv, IntInv, Finished, hdVars, diskVars
<1>5. TalkInv'
  BY <1>1, <1>2, Local DEF IInv, TalkInv, HdIdle, HdBusy, HdAnswers, HdReceives, Robbed, Wait, End, Op, hdVars
<1>6. DataInv'
  BY <1>1, <1>2, Local DEF IInv, IntInv, DataInv, fsVars, hdVars, diskVars, Wait, End, Op
<1> QED BY <1>2, <1>3, <1>4, <1>5, <1>6 DEF IInv

LEMMA HdDataStep == ASSUME IInv, HdData PROVE IInv'
<1> DEFINE b == IF hd_op = "OPEN" THEN "recv" ELSE "reply"
           sector == IF dev.st = "done" THEN dev.data ELSE Garbage
<1>1. /\ At(HD, "woken", b) /\ NoKernelCall
      /\ hdbuf' = IF hd_op = "WRITE" THEN hdbuf ELSE sector
      /\ fs_buf' = IF hd_op = "READ" THEN [fs_buf EXCEPT !.rd = sector] ELSE fs_buf
      /\ dev' = IF hd_op = "WRITE" THEN dev ELSE [dev EXCEPT !.st = "idle"]
      /\ part_num' = IF hd_op = "OPEN" /\ sector = 0 THEN 1 ELSE part_num
      /\ UNCHANGED <<kernel, disk, hd_op, hd_pos, hd_part, fs_root, io_pos, io_left, served, asked>>
  BY DEF HdData
<1>2. /\ pc[HD] = "woken" /\ pc'[HD] = b /\ pc'[FS] = pc[FS] /\ pc'[TTY] = pc[TTY] /\ ~B(HD) /\ kernel = "user"
      /\ PcInv' /\ LinkInv' /\ BlockInv' /\ ShellInv'
  BY <1>1, HdAlone
<1>3. Finished /\ int_status[HD] = NO_INT /\ hd_op \in {"OPEN", "READ", "WRITE"} /\ dev.lba = hd_pos
  BY <1>2 DEF IInv, IntInv, DataInv
<1>4. /\ dev'.st = "idle" /\ fs_buf'.wt = fs_buf.wt
      /\ hd_op = "READ" => fs_buf'.rd = dev.data
  BY <1>1, <1>3 DEF IInv, TypeOK, Finished
<1>5. hd_op # "OPEN" => hd_op = Op /\ hd_pos = io_pos
  <2> SUFFICES ASSUME hd_op # "OPEN" PROVE hd_op = Op /\ hd_pos = io_pos
    OBVIOUS
  <2>1. ~HdIdle /\ ~HdReceives /\ ~HdBusy("OPEN") /\ ~HdBusy("INFO") /\ (\A t : ~HdAnswers(t)) /\ pc[HD] # "ready"
    BY <1>2, <1>3 DEF HdIdle, HdBusy, HdReceives, HdAnswers
  <2>2. HdBusy(Op)
    BY <2>1 DEF Robbed, IInv, PcInv, TalkInv, Wait, End
  <2> QED BY <1>2, <1>3, <2>2 DEF HdBusy, IInv, DataInv
<1>6. TypeOK'
  <2>1. sector \in Val \cup {Garbage} /\ part_num' \in 0 .. 1
    BY <1>1 DEF IInv, TypeOK
  <2>2. dev' \in [st : {"idle", "busy", "drq", "done"}, op : {"READ", "WRITE"}, lba : Lba, data : Val]
    BY <1>1 DEF IInv, TypeOK
  <2>3. fs_buf' \in [rd : Val \cup {Garbage}, wt : Val]
    BY <1>1, <2>1 DEF IInv, TypeOK
  <2> QED BY <1>1, <2>1, <2>2, <2>3, Local DEF IInv, TypeOK
<1>7. IntInv'
  BY <1>1, <1>2, <1>3, <1>4, Local DEF IInv, IntInv, Finished
<1>8. TalkInv'
  BY <1>1, <1>2, <1>3, Local DEF IInv, TalkInv, HdIdle, HdBusy, HdAnswers, HdReceives, Robbed, Wait, End, Op
<1>9. DataInv'
  <2>1. hd_op # "OPEN" => IF Op = "WRITE" THEN disk[io_pos] = fs_buf.wt ELSE dev.data = disk[io_pos]
    BY <1>2, <1>3, <1>5 DEF IInv, DataInv, Finished
  <2>2. pc[FS] \in End => B(FS)
    BY <1>2 DEF IInv, TalkInv, HdIdle, HdBusy, End
  <2> QED BY <1>1, <1>2, <1>3, <1>4, <1>5, <2>1, <2>2, Local DEF IInv, DataInv, Wait, End, Op
<1> QED BY <1>2, <1>6, <1>7, <1>8, <1>9 DEF IInv

--------------------------------------------------------------------------------
(* msg_recv_interrupt, the controller and the clock                        *)

LEMMA KernelInv == ASSUME IInv, KernelStep PROVE IInv'
<1>1. /\ pc[HD] = "woken" /\ kernel # "user" /\ pc' = pc
      /\ UNCHANGED <<diskVars, hdVars, hd_part, fsVars, asked>>
  BY DEF KernelStep, KernelTo, IntTest, IntStatus, IntId, IntBlock, IntTake, IntTail, IInv, IntInv
<1>2. /\ UNCHANGED <<recv_from, send_to, msg, msg_head, msg_next, mem, take_up>>
      /\ \A p \in Proc \ {HD} : int_status'[p] = int_status[p] /\ (B(p)' <=> B(p))
      /\ SchedTypeOK' /\ MsgTypeOK'
  <2>1. CASE IntTest
    BY <2>1 DEF IInv, TypeOK, IntTest, NoKernelCall, msgVars, schedVars, queueVars, intVars, SchedTypeOK, MsgTypeOK, B
  <2>2. CASE IntStatus
    BY <2>2 DEF IInv, TypeOK, IntStatus, RecvInterruptStatus, schedVars, queueVars, SchedTypeOK, MsgTypeOK, B
  <2>3. CASE IntId
    <3>1. HD_INTERRUPT \in Nat
      BY DEF HD_INTERRUPT
    <3>2. interrupt_id' \in [Proc -> Nat]
      BY <2>3, <3>1 DEF IInv, TypeOK, IntId, RecvInterruptId, MsgTypeOK
    <3> QED BY <2>3, <3>2 DEF IInv, TypeOK, IntId, RecvInterruptId, schedVars, queueVars, SchedTypeOK, MsgTypeOK, B
  <2>4. CASE IntBlock
    BY <2>4, Roles DEF IInv, TypeOK, IntBlock, RecvInterruptBlock, schedVars, queueVars, intVars, SchedTypeOK, MsgTypeOK, B
  <2>5. CASE IntTake
    BY <2>5 DEF IInv, TypeOK, IntTake, RecvInterruptTake, schedVars, queueVars, SchedTypeOK, MsgTypeOK, B
  <2>6. CASE IntTail
    BY <2>6, Next1InProc DEF IInv, TypeOK, IntTail, ProcLineSchedule, msgVars, queueVars, intVars, SchedTypeOK, MsgTypeOK, B
  <2> QED BY <2>1, <2>2, <2>3, <2>4, <2>5, <2>6 DEF KernelStep
<1>3. /\ kernel' \in {"user", "test", "status", "id", "block", "take", "tail"}
      /\ B(HD)' => B(HD) \/ kernel' = "tail"
      /\ B(HD) => kernel = "tail" /\ kernel' = "user" /\ B(HD)'
      /\ kernel # "tail" => UNCHANGED <<current_proc, proc_ptr>> /\ kernel' # "user"
      /\ ~B(current_proc)' \/ (current_proc' = HD /\ kernel' = "tail")
  <2>1. B(HD) => kernel = "tail"
    BY <1>1 DEF IInv, BlockInv
  <2>2. B(current_proc) => current_proc = HD /\ kernel = "tail"
    BY DEF IInv, BlockInv
  <2>3. CASE IntTest
    BY <2>1, <2>2, <2>3 DEF IntTest, KernelTo, NoKernelCall, msgVars, schedVars, B
  <2>4. CASE IntStatus
    BY <2>1, <2>2, <2>4 DEF IntStatus, KernelTo, RecvInterruptStatus, schedVars, B
  <2>5. CASE IntId
    BY <2>1, <2>2, <2>5 DEF IntId, KernelTo, RecvInterruptId, schedVars, B
  <2>6. CASE IntBlock
    BY <1>2, <2>1, <2>2, <2>6, Roles DEF IntBlock, KernelTo, schedVars, B, IInv, TypeOK, SchedTypeOK
  <2>7. CASE IntTake
    BY <2>1, <2>2, <2>7 DEF IntTake, KernelTo, RecvInterruptTake, schedVars, B
  <2>8. CASE IntTail
    <3>1. kernel = "tail" /\ kernel' = "user" /\ msg_block' = msg_block
      BY <2>8 DEF IntTail, KernelTo, msgVars
    <3>2. CASE msg_block[HD] = 1
      BY <2>8, <3>1, <3>2 DEF IntTail, ProcLineSchedule, Scan, Runnable, B
    <3>3. CASE msg_block[HD] # 1
      BY <2>2, <2>8, <3>1, <3>3 DEF IntTail, B
    <3> QED BY <3>1, <3>2, <3>3 DEF B
  <2> QED BY <2>3, <2>4, <2>5, <2>6, <2>7, <2>8 DEF KernelStep
<1>4. TypeOK'
  BY <1>1, <1>2, <1>3 DEF IInv, TypeOK, diskVars, hdVars, fsVars
<1>5. PcInv'
  BY <1>1 DEF IInv, PcInv
<1>6. LinkInv'
  BY <1>1, <1>2, Roles DEF IInv, LinkInv
<1>7. BlockInv'
  BY <1>1, <1>2, <1>3, Roles DEF IInv, BlockInv, fsVars
<1>8. IntInv'
  <2>1. \A p \in Proc \ {HD} : int_status'[p] = NO_INT
    BY <1>2 DEF IInv, IntInv
  <2>2. hd_op' = hd_op /\ dev' = dev /\ hd_op \in {"OPEN", "READ", "WRITE"} /\ (Finished' <=> Finished)
    BY <1>1 DEF IInv, IntInv, hdVars, diskVars, Finished
  <2>3. int_status[HD] \in {NO_INT, HAS_INT, WAIT_INT} /\ (Finished => dev.st # "busy")
    BY Roles DEF IInv, TypeOK, MsgTypeOK, Finished
  <2>4. CASE IntTest
    <3>1. /\ kernel = "test" /\ UNCHANGED <<int_status, interrupt_id>>
          /\ kernel' = IF int_status[HD] = NO_INT THEN "status" ELSE "take"
      BY <2>4 DEF IntTest, KernelTo, NoKernelCall, msgVars, intVars
    <3> QED BY <1>1, <2>1, <2>2, <2>3, <3>1, Roles DEF IInv, IntInv
  <2>5. CASE IntStatus
    <3>1. kernel = "status" /\ kernel' = "id" /\ int_status'[HD] = WAIT_INT
      BY <2>5, Roles DEF IntStatus, KernelTo, RecvInterruptStatus, IInv, TypeOK, MsgTypeOK
    <3> QED BY <1>1, <2>1, <2>2, <3>1 DEF IInv, IntInv
  <2>6. CASE IntId
    <3>1. /\ kernel = "id" /\ kernel' = "block" /\ int_status' = int_status
          /\ interrupt_id'[HD] = HD_INTERRUPT
      BY <2>6, Roles DEF IntId, KernelTo, RecvInterruptId, IInv, TypeOK, MsgTypeOK
    <3> QED BY <1>1, <2>1, <2>2, <3>1 DEF IInv, IntInv
  <2>7. CASE IntBlock
    <3>1. kernel = "block" /\ kernel' = "tail" /\ B(HD)' /\ UNCHANGED <<int_status, interrupt_id>>
      BY <2>7, Roles DEF IntBlock, KernelTo, RecvInterruptBlock, intVars, IInv, TypeOK, MsgTypeOK, B
    <3> QED BY <1>1, <2>1, <2>2, <3>1 DEF IInv, IntInv
  <2>8. CASE IntTake
    <3>1. /\ kernel = "take" /\ kernel' = "tail" /\ ~B(HD) /\ ~B(HD)'
          /\ (int_status[HD] = HAS_INT /\ interrupt_id[HD] = HD_INTERRUPT) => int_status'[HD] = NO_INT
      BY <1>1, <2>8, Roles DEF IntTake, KernelTo, RecvInterruptTake, IInv, TypeOK, MsgTypeOK, BlockInv, B
    <3> QED BY <1>1, <2>1, <2>2, <3>1 DEF IInv, IntInv
  <2>9. CASE IntTail
    <3>1. /\ kernel = "tail" /\ kernel' = "user" /\ (B(HD)' <=> B(HD)) /\ UNCHANGED <<int_status, interrupt_id>>
      BY <2>9 DEF IntTail, KernelTo, msgVars, intVars, B
    <3> QED BY <1>1, <2>1, <2>2, <3>1 DEF IInv, IntInv
  <2> QED BY <2>4, <2>5, <2>6, <2>7, <2>8, <2>9 DEF KernelStep
<1>9. TalkInv'
  BY <1>1, <1>2, Roles DEF IInv, TalkInv, HdIdle, HdBusy, HdAnswers, HdReceives, Robbed, Wait, End, Op, hdVars
<1>10. ShellInv'
  BY <1>1, <1>2, Roles DEF IInv, ShellInv, FsFree, FsWorks, FsStarts, fsVars
<1>11. DataInv'
  BY <1>1, <1>2, Roles DEF IInv, DataInv, hdVars, diskVars, fsVars, Wait, End, Op
<1> QED BY <1>4, <1>5, <1>6, <1>7, <1>8, <1>9, <1>10, <1>11 DEF IInv

LEMMA TickInv == ASSUME IInv, Tick PROVE IInv'
<1>1. UNCHANGED progVars /\ UNCHANGED msgVars /\ UNCHANGED take_up /\ SchedTypeOK' /\ ~B(current_proc)'
  BY Next1InProc DEF Tick, ClockHandler, ProcLineSchedule, Scan, Runnable, IInv, TypeOK, SchedTypeOK, B, msgVars
<1>2. \A p : (B(p)' <=> B(p))
  BY <1>1 DEF msgVars, B
<1> USE DEF progVars, msgVars, queueVars, intVars, diskVars, hdVars, fsVars
<1>3. TypeOK'
  BY <1>1 DEF IInv, TypeOK, MsgTypeOK
<1>4. PcInv' /\ LinkInv' /\ BlockInv'
  BY <1>1, <1>2 DEF IInv, PcInv, LinkInv, BlockInv
<1>5. IntInv' /\ DataInv'
  BY <1>1, <1>2 DEF IInv, IntInv, DataInv, Finished, Op
<1>6. TalkInv' /\ ShellInv'
  BY <1>1, <1>2 DEF IInv, TalkInv, HdIdle, HdBusy, HdAnswers, HdReceives, Robbed, Op, ShellInv, FsFree, FsWorks, FsStarts
<1> QED BY <1>3, <1>4, <1>5, <1>6 DEF IInv

LEMMA CompleteInv == ASSUME IInv, Complete PROVE IInv'
<1>1. /\ dev.st = "busy" /\ UNCHANGED <<schedVars, pc, kernel, hdVars, hd_part, fsVars, asked>>
      /\ MsgSendInterrupt(HD, HD_INTERRUPT) /\ (FastDisk \/ kernel \notin {"status", "id", "block"})
  BY DEF Complete
<1>2. UNCHANGED <<recv_from, send_to, msg, msg_head, msg_next, mem, take_up, current_proc, proc_ptr>>
  BY <1>1 DEF MsgSendInterrupt, queueVars, schedVars
<1>3. /\ HD_INTERRUPT \in Nat /\ HD \in Proc
      /\ \/ /\ int_status[HD] = NO_INT /\ int_status' = [int_status EXCEPT ![HD] = HAS_INT]
            /\ interrupt_id' = [interrupt_id EXCEPT ![HD] = HD_INTERRUPT] /\ UNCHANGED msg_block
         \/ /\ int_status[HD] = WAIT_INT /\ interrupt_id[HD] = HD_INTERRUPT
            /\ int_status' = [int_status EXCEPT ![HD] = NO_INT]
            /\ msg_block' = [msg_block EXCEPT ![HD] = 0] /\ UNCHANGED interrupt_id
         \/ /\ int_status[HD] = HAS_INT \/ (int_status[HD] = WAIT_INT /\ interrupt_id[HD] # HD_INTERRUPT)
            /\ UNCHANGED <<int_status, interrupt_id, msg_block>>
  BY <1>1, Roles DEF MsgSendInterrupt, intVars, HD_INTERRUPT
<1>4. MsgTypeOK' /\ SchedTypeOK'
  <2>1. /\ msg_block' \in [Proc -> 0 .. 1] /\ int_status' \in [Proc -> {NO_INT, HAS_INT, WAIT_INT}]
        /\ interrupt_id' \in [Proc -> Nat]
    <3>1. /\ msg_block \in [Proc -> 0 .. 1] /\ int_status \in [Proc -> {NO_INT, HAS_INT, WAIT_INT}]
          /\ interrupt_id \in [Proc -> Nat]
      BY DEF IInv, TypeOK, MsgTypeOK
    <3>2. msg_block' \in [Proc -> 0 .. 1]
      BY <1>3, <3>1
    <3>3. int_status' \in [Proc -> {NO_INT, HAS_INT, WAIT_INT}]
      BY <1>3, <3>1
    <3>4. interrupt_id' \in [Proc -> Nat]
      BY <1>3, <3>1
    <3> QED BY <3>2, <3>3, <3>4
  <2> QED BY <1>2, <2>1 DEF IInv, TypeOK, MsgTypeOK, SchedTypeOK
<1>5. /\ \A p \in Proc \ {HD} : int_status'[p] = int_status[p] /\ (B(p)' <=> B(p))
      /\ B(HD)' => B(HD)
      /\ B(HD) => pc[HD] = "woken"
  <2>1. B(HD) => pc[HD] = "woken"
    BY <1>1 DEF IInv, BlockInv, IntInv
  <2> QED BY <1>3, <2>1 DEF IInv, TypeOK, MsgTypeOK, B
<1>6. /\ pc[HD] \in {"wait", "woken"} /\ hd_op \in {"OPEN", "READ", "WRITE"}
      /\ dev.op = (IF hd_op = "WRITE" THEN "WRITE" ELSE "READ") /\ dev.lba = hd_pos /\ hd_pos \in Lba /\ dev.data \in Val
  BY <1>1 DEF IInv, PcInv, TypeOK, IntInv, DataInv
<1>7. /\ dev'.op = dev.op /\ dev'.lba = dev.lba /\ Finished' /\ dev'.st \in {"idle", "done"}
  BY <1>1, <1>6 DEF Complete, IInv, TypeOK, Finished, hdVars
<1>8. /\ hd_op = "WRITE" => disk' = [disk EXCEPT ![hd_pos] = dev.data] /\ dev'.st = "idle" /\ dev'.data = dev.data
      /\ hd_op # "WRITE" => disk' = disk /\ dev'.st = "done" /\ dev'.data = disk[hd_pos]
  BY <1>6 DEF Complete, IInv, TypeOK
<1>9. TypeOK'
  <2>1. disk' \in [Lba -> Val]
    BY <1>6, <1>8 DEF IInv, TypeOK
  <2>2. dev' \in [st : {"idle", "busy", "drq", "done"}, op : {"READ", "WRITE"}, lba : Lba, data : Val]
    BY <1>6, <1>8 DEF Complete, IInv, TypeOK
  <2> QED BY <1>1, <1>4, <2>1, <2>2 DEF IInv, TypeOK, hdVars, fsVars
<1>10. PcInv'
  BY <1>1 DEF IInv, PcInv
<1>11. LinkInv'
  BY <1>1, <1>2, <1>5, <1>6, Roles DEF IInv, LinkInv
<1>12. BlockInv'
  BY <1>1, <1>2, <1>5, <1>6, Roles DEF IInv, BlockInv, TypeOK, SchedTypeOK, fsVars
<1>13. IntInv'
  <2>1. \A p \in Proc \ {HD} : int_status'[p] = NO_INT
    BY <1>5 DEF IInv, IntInv
  <2>2. (pc[HD] = "wait" \/ kernel = "test") => int_status'[HD] = HAS_INT /\ interrupt_id'[HD] = HD_INTERRUPT
    BY <1>1, <1>3, <1>4, Roles DEF IInv, IntInv, Finished, TypeOK, MsgTypeOK
  <2>3. kernel = "id" => FastDisk /\ int_status'[HD] \in {NO_INT, WAIT_INT}
    BY <1>1, <1>3, <1>4, Roles DEF IInv, IntInv, Finished, TypeOK, MsgTypeOK
  <2>4. kernel = "block" => FastDisk /\ int_status'[HD] = NO_INT
    BY <1>1, <1>3, <1>4, Roles DEF IInv, IntInv, Finished, TypeOK, MsgTypeOK
  <2>5. kernel = "status" => FastDisk
    BY <1>1
  <2>6. kernel # "take"
    BY <1>1 DEF IInv, IntInv, Finished
  <2>7. (pc[HD] = "woken" /\ kernel \in {"tail", "user"}) => ~B(HD)' /\ int_status'[HD] = NO_INT
    BY <1>1, <1>3, <1>4, Roles DEF IInv, IntInv, Finished, TypeOK, MsgTypeOK, B
  <2> QED BY <1>1, <1>6, <1>7, <2>1, <2>2, <2>3, <2>4, <2>5, <2>6, <2>7 DEF IInv, IntInv, hdVars
<1>14. TalkInv'
  BY <1>1, <1>2, <1>5, <1>6, Roles DEF IInv, TalkInv, HdIdle, HdBusy, HdAnswers, HdReceives, Robbed, IntInv, Finished, Wait, End, Op, hdVars
<1>15. ShellInv'
  BY <1>1, <1>2, <1>5, Roles DEF IInv, ShellInv, FsFree, FsWorks, FsStarts, fsVars
<1>16. DataInv'
  <2>1. pc[FS] \in End => B(FS)
    BY <1>6 DEF IInv, TalkInv, HdIdle, HdBusy, End
  <2>2. (pc[HD] \in {"wait", "woken"} /\ hd_op = "WRITE") => dev.data = fs_buf.wt
    BY DEF IInv, DataInv
  <2>3. fs_buf' = fs_buf /\ hd_op' = hd_op /\ hd_pos' = hd_pos /\ io_pos' = io_pos /\ pc' = pc
    BY <1>1 DEF hdVars, fsVars
  <2>4. hd_op = "WRITE" => disk'[hd_pos] = dev.data
    BY <1>6, <1>8 DEF IInv, TypeOK
  <2>5. dev'.st = "done" => dev'.data = disk'[dev'.lba]
    BY <1>6, <1>7, <1>8
  <2> QED BY <1>2, <1>5, <1>6, <1>7, <1>8, <2>1, <2>2, <2>3, <2>4, <2>5, Roles DEF IInv, DataInv, Wait, End
<1> QED BY <1>9, <1>10, <1>11, <1>12, <1>13, <1>14, <1>15, <1>16 DEF IInv

--------------------------------------------------------------------------------
(* The invariant holds                                                     *)

\* No command is typed before FS serves requests.
Late == ~EarlyCommand

LEMMA InitIInv == Init => IInv
<1> SUFFICES ASSUME Init PROVE IInv
  OBVIOUS
<1>1. /\ pc = [p \in Proc |-> CASE p = TTY -> "prompt" [] p = HD -> "ready" [] p = FS -> "hd_ready" [] OTHER -> "idle"]
      /\ kernel = "user" /\ dev = [st |-> "idle", op |-> "READ", lba |-> 0, data |-> 0]
      /\ disk = [l \in Lba |-> l] /\ hd_op = "NONE" /\ hd_pos = 0 /\ hdbuf = Garbage /\ part_num = 0
      /\ hd_part = 0 /\ fs_root = 0 /\ fs_buf = [rd |-> Garbage, wt |-> 0]
      /\ io_pos = 0 /\ io_left = 0 /\ asked = 0 /\ served = 0
  BY DEF Init
<1>2. pc[TTY] = "prompt" /\ pc[HD] = "ready" /\ pc[FS] = "hd_ready" /\ pc[IDLE] = "idle" /\ DOMAIN pc = Proc
  BY <1>1, Roles
<1>3. /\ mem = [p \in Proc |-> [s \in Struct |-> M("NONE", 0)]] /\ M("NONE", 0) \in Content
      /\ 0 \in Proc /\ TTY = 0
  BY Messages, Roles DEF Init, Types, TTY
<1>4. MsgTypeOK
  BY <1>3 DEF Init, MsgInit, MsgTypeOK
<1>5. SchedTypeOK /\ (\A p \in Proc : take_up[p] = 1)
  BY <1>3 DEF Init, SchedInit, SchedTypeOK
<1>6. /\ \A p \in Proc : ~B(p) /\ msg_next[p] = NULL /\ msg_head[p] = NULL /\ int_status[p] = NO_INT /\ recv_from[p] = TTY
  BY <1>3 DEF Init, MsgInit, B
<1>7. TypeOK
  <2>1. 0 \in Val /\ 0 \in Lba /\ disk \in [Lba -> Val] /\ 0 \in 0 .. MaxIO /\ 0 \in 0 .. MaxCmd
    BY <1>1, DiskStackAssumption DEF Val, Lba
  <2> QED BY <1>1, <1>4, <1>5, <2>1 DEF TypeOK, Types
<1>8. PcInv /\ LinkInv
  BY <1>2, <1>6, Roles DEF PcInv, LinkInv
<1>9. BlockInv
  BY <1>5, <1>6, Roles DEF BlockInv, SchedTypeOK
<1>10. IntInv /\ TalkInv
  BY <1>1, <1>2, <1>6, Roles DEF IntInv, TalkInv, Wait, End
<1>11. ShellInv /\ DataInv
  BY <1>1, <1>2, <1>6, Roles DEF ShellInv, FsStarts, DataInv, Wait, End
<1> QED BY <1>7, <1>8, <1>9, <1>10, <1>11 DEF IInv

LEMMA StutterIInv == IInv /\ UNCHANGED vars => IInv'
<1> SUFFICES ASSUME IInv, UNCHANGED vars PROVE IInv'
  OBVIOUS
<1> USE DEF vars, progVars, msgVars, schedVars, queueVars, intVars, diskVars, hdVars, fsVars, B
<1>1. TypeOK' /\ PcInv' /\ LinkInv'
  BY DEF IInv, TypeOK, MsgTypeOK, SchedTypeOK, PcInv, LinkInv
<1>2. BlockInv' /\ IntInv' /\ DataInv'
  BY DEF IInv, BlockInv, IntInv, DataInv, Finished, Op
<1>3. TalkInv' /\ ShellInv'
  BY DEF IInv, TalkInv, HdIdle, HdBusy, HdAnswers, HdReceives, Robbed, Op, ShellInv, FsFree, FsWorks, FsStarts
<1> QED BY <1>1, <1>2, <1>3 DEF IInv

LEMMA NextIInv == ASSUME Late, IInv, [Next]_vars PROVE IInv'
<1>1. CASE TtyStep
  BY <1>1, TtyCommandStep, TtyAwaitStep, TtyPrintStep DEF Late, TtyStep
<1>2. CASE FsStep
  <2>1. CASE FsHdReady \/ FsServe
    BY <2>1, FsReceives DEF FsHdReady, FsServe
  <2>2. CASE FsAwaitHd
    BY <2>2, FsReceives DEF FsAwaitHd
  <2>3. CASE FsOpen \/ FsInfo
    BY <2>3, FsAsks DEF FsOpen, FsInfo
  <2>4. CASE FsRead \/ FsWrite
    BY <2>4, FsAsks DEF FsRead, FsWrite
  <2> QED BY <1>2, <2>1, <2>2, <2>3, <2>4, FsIsReadyStep, FsRootStep, FsIoEndStep, FsDispatchStep, FsAccessStep,
             FsReplyStep DEF FsStep
<1>3. CASE HdStep
  <2>1. CASE HdReady \/ HdReply
    BY <2>1, HdAnswersFs DEF HdReady, HdReply
  <2> QED BY <1>3, <2>1, HdRecvStep, HdDispatchStep, HdCommandStep, HdFillStep, HdWaitStep, HdDataStep DEF HdStep
<1>4. CASE UNCHANGED vars
  BY <1>4, StutterIInv
<1> QED BY <1>1, <1>2, <1>3, <1>4, KernelInv, CompleteInv, TickInv DEF Next

\* The invariant from which everything below follows: for any partition, any
\* number of commands and accesses, and a disk of any speed.
THEOREM DiskInvariance == Late /\ Spec => []IInv
<1>1. Late /\ IInv /\ [Next]_vars => IInv'
  BY NextIInv
<1>2. Late => []Late
  <2>1. Late => Late'
    BY DEF Late
  <2> QED BY <2>1, PTL
<1> QED BY <1>1, <1>2, InitIInv, PTL DEF Spec

\* The three programs, the driver, the controller and the disk keep their types.
THEOREM DiskTypeCorrect == Late /\ Spec => []TypeOK
<1>1. IInv => TypeOK
  BY DEF IInv
<1> QED BY <1>1, DiskInvariance, PTL

\* hd.c: the driver programs an idle controller, fills one that wants data, and
\* leaves wait_interrupt only when its command is done.
THEOREM DriverKeepsStep == Late /\ Spec => []DriverInStep
<1>1. IInv => DriverInStep
  BY DEF IInv, IntInv, DriverInStep, Finished, B
<1> QED BY <1>1, DiskInvariance, PTL

\* read.c, write.c: what FS finds in its buffers after an access is the sector
\* it asked for, as it is on the disk.
THEOREM FsGetsItsSector == Late /\ Spec => []AnswersMatch
<1>1. IInv => AnswersMatch
  <2> SUFFICES ASSUME IInv PROVE AnswersMatch
    OBVIOUS
  <2>1. (current_proc = FS /\ pc[FS] \in End) => ~B(FS)
    BY Roles DEF IInv, BlockInv
  <2> QED BY <2>1 DEF IInv, DataInv, AnswersMatch, Wait, End, Op
<1> QED BY <1>1, DiskInvariance, PTL

\* opt.c: the shell goes on only when FS has answered the command it sent.
THEOREM ShellGetsItsAnswer == Late /\ Spec => []ShellAnswered
<1>1. IInv => ShellAnswered
  BY DEF IInv, ShellInv, ShellAnswered, B
<1> QED BY <1>1, DiskInvariance, PTL

--------------------------------------------------------------------------------
(* A disk slower than msg_recv_interrupt                                   *)

SlowDisk == ~FastDisk

\* msg.c:58: the driver that sleeps for an interrupt has a command under way:
\* its interrupt is still to come.
THEOREM NoInterruptLost == SlowDisk /\ Late /\ Spec => []NoLostInterrupt
<1>1. SlowDisk /\ IInv => NoLostInterrupt
  BY DEF SlowDisk, IInv, IntInv, NoLostInterrupt, B
<1>2. SlowDisk => []SlowDisk
  <2>1. SlowDisk => SlowDisk'
    BY DEF SlowDisk
  <2> QED BY <2>1, PTL
<1> QED BY <1>1, <1>2, DiskInvariance, PTL

\* A process that is blocked gets a message from the sender that finds it
\* waiting, and from nothing else.
Handed(p) == B(p) /\ ~B(p)' /\ \E c \in Struct : mem'[p][c] # mem[p][c]

LEMMA SendHands ==
  ASSUME MsgTypeOK, NEW p \in Proc, NEW q \in Proc, NEW s, NEW m, SysSendMessage(p, q, s, m), ~B(p),
         NEW r \in Proc, Handed(r)
  PROVE  r = q /\ CanHandOver(p, q)
<1>1. r # p
  BY DEF Handed
<1>2. CASE HandOver(p, q, s, m)
  BY <1>1, <1>2 DEF Handed, HandOver, MsgTypeOK, B
<1>3. CASE Enqueue(p, q, s, m)
  BY <1>1, <1>3 DEF Handed, Enqueue, MsgTypeOK, B
<1> QED BY <1>2, <1>3 DEF SysSendMessage, MsgSend

LEMMA RecvHands ==
  ASSUME MsgTypeOK, NEW q \in Proc, NEW from, NEW s, SysRecvMessage(from, q, s), ~B(q),
         NEW r \in Proc, Handed(r)
  PROVE  FALSE
<1>1. r # q
  BY DEF Handed
<1>2. mem'[r] = mem[r]
  BY <1>1 DEF SysRecvMessage, MsgReceive, TakeQueued, AwaitSender, MsgTypeOK
<1> QED BY <1>2 DEF Handed

LEMMA CallerRuns == ASSUME IInv, NEW p \in Proc, NEW a, NEW b, At(p, a, b) PROVE ~B(p) /\ pc[p] = a /\ kernel = "user"
  BY DEF At, IInv, BlockInv

\* msg.c:76: with a slow disk, msg_send hands a message over only to a process
\* that waits in recv_message, never to one that waits for an interrupt.
THEOREM MessagesToReceivers == SlowDisk /\ Late /\ Spec => OnlyReceiversGetMessages
<1> DEFINE Receiving == {"dispatch", "is_ready", "sb_end", "read_end", "write_end", "answered"}
<1>1. ASSUME SlowDisk, Late, IInv, Next, NEW r \in Proc, Handed(r) PROVE pc[r] \in Receiving
  <2>1. MsgTypeOK
    BY <1>1 DEF IInv, TypeOK
  <2>2. mem' # mem
    BY <1>1 DEF Handed
  <2>3. CASE TtyStep
    <3>1. ~TtyPrint /\ ~TtyAwait
      BY <1>1, <2>1, <2>2, RecvHands, CallerRuns, Roles DEF TtyPrint, TtyAwait, NoKernelCall, msgVars
    <3>2. PICK t \in {"DIR", "MK"} : TtyCommand(t)
      BY <2>3, <3>1 DEF TtyStep
    <3>3. r = FS /\ B(FS)
      BY <1>1, <2>1, <3>2, SendHands, CallerRuns, Roles DEF TtyCommand, Handed
    <3>4. FsFree
      BY <1>1, <3>2 DEF TtyCommand, At, Late, IInv, TypeOK, ShellInv, FsStarts
    <3> QED BY <3>3, <3>4 DEF FsFree
  <2>4. CASE FsReply
    <3>1. r = TTY /\ B(TTY) /\ pc[FS] = "work"
      BY <1>1, <2>1, <2>4, SendHands, CallerRuns, Roles DEF FsReply, Handed
    <3> QED BY <1>1, <3>1, Roles DEF IInv, BlockInv, ShellInv
  <2>5. CASE FsOpen \/ FsInfo \/ FsRead \/ FsWrite
    <3>1. r = HD /\ B(HD) /\ int_status[HD] # WAIT_INT
      BY <1>1, <2>1, <2>5, SendHands, CallerRuns, Roles DEF FsOpen, FsInfo, FsRead, FsWrite, Handed, CanHandOver
    <3>2. pc[FS] \in {"open", "info", "sb_read", "read", "write"} /\ ~B(FS) /\ kernel = "user"
      BY <1>1, <2>5, CallerRuns, Roles DEF FsOpen, FsInfo, FsRead, FsWrite
    <3>3. pc[HD] # "recv"
      BY <1>1, <3>1, <3>2 DEF IInv, TalkInv, HdIdle, HdBusy, Robbed
    <3> QED BY <1>1, <3>1, <3>2, <3>3 DEF IInv, BlockInv, IntInv, SlowDisk
  <2>6. CASE FsStep /\ ~FsReply /\ ~(FsOpen \/ FsInfo \/ FsRead \/ FsWrite)
    <3>1. ~(FsIsReady \/ FsRoot \/ FsIoEnd \/ FsDispatch \/ FsAccess)
      BY <2>2 DEF FsIsReady, FsRoot, FsIoEnd, FsDispatch, FsAccess, NoKernelCall, msgVars
    <3>2. ~(FsHdReady \/ FsAwaitHd \/ FsServe)
      BY <1>1, <2>1, RecvHands, CallerRuns, Roles DEF FsHdReady, FsAwaitHd, FsServe
    <3> QED BY <2>6, <3>1, <3>2 DEF FsStep
  <2>7. CASE HdStep
    <3>1. ~(HdDispatch \/ HdCommand \/ HdFill \/ HdWait \/ HdData)
      BY <2>2 DEF HdDispatch, HdCommand, HdFill, HdWait, HdData, NoKernelCall, msgVars
    <3>2. ~HdRecv
      BY <1>1, <2>1, RecvHands, CallerRuns, Roles DEF HdRecv
    <3>3. r = FS /\ B(FS) /\ pc[HD] \in {"ready", "reply"}
      BY <1>1, <2>1, <2>7, <3>1, <3>2, SendHands, CallerRuns, Roles DEF HdStep, HdReady, HdReply, Handed
    <3> QED BY <1>1, <3>3, FsAwaits DEF End
  <2>8. ~KernelStep
    BY <2>2 DEF KernelStep, IntTest, IntStatus, IntId, IntBlock, IntTake, IntTail, NoKernelCall, msgVars,
                RecvInterruptStatus, RecvInterruptId, RecvInterruptBlock, RecvInterruptTake
  <2>9. ~Complete /\ ~Tick
    BY <2>2 DEF Complete, MsgSendInterrupt, Tick, ClockHandler, msgVars
  <2> QED BY <1>1, <2>3, <2>4, <2>5, <2>6, <2>7, <2>8, <2>9 DEF Next
<1>2. SlowDisk /\ Late /\ IInv /\ [Next]_vars =>
        [\A p \in Proc : (msg_block[p] = 1 /\ msg_block'[p] = 0 /\ \E s \in Struct : mem'[p][s] # mem[p][s])
                           => pc[p] \in Receiving]_vars
  BY <1>1 DEF Handed, B
<1>3. SlowDisk /\ Late => [](SlowDisk /\ Late)
  <2>1. SlowDisk /\ Late => (SlowDisk /\ Late)'
    BY DEF SlowDisk, Late
  <2> QED BY <2>1, PTL
<1> QED BY <1>2, <1>3, DiskInvariance, PTL DEF Spec, OnlyReceiversGetMessages
================================================================================
