--------------------------------- MODULE Sched ---------------------------------
(***************************************************************************)
(* The round-robin scheduler of proc/sched.c and the system calls of       *)
(* sys/proc/sys_call_proc.c that end in it.                                *)
(*                                                                         *)
(* The kernel runs a system call with interrupts enabled (sys_call in      *)
(* idt/idt_s.s does sti around the call), so a clock interrupt can fall    *)
(* inside one.  The nested handler only reads msg_block and take_up and    *)
(* moves the scheduler on; the interrupted call then goes on where it was. *)
(* Such a tick differs from a tick after the call in one way: it may have  *)
(* read msg_block before the call changed it.  TickInside is that case (a  *)
(* call is much shorter than a time slice: at most one tick falls in it).  *)
(*                                                                         *)
(* The field status of a PCB is only printed (show_proc_table); take_up    *)
(* and msg_block decide, and status is left out.                           *)
(***************************************************************************)
EXTENDS Msg

VARIABLES
  take_up,       \* [Proc -> 0..1]  the PCB is in use
  current_proc,  \* the process whose PCB the next restart loads
  proc_ptr       \* where the next scan of the process table starts

schedVars == <<take_up, current_proc, proc_ptr>>

SchedTypeOK ==
  /\ take_up      \in [Proc -> 0 .. 1]
  /\ current_proc \in Proc
  /\ proc_ptr     \in Proc

\* Mutant: the scan pointer runs past the table.
NextNoWrap(p) == p + 1

Next1(p) == (p + 1) % NProc

\* How many slots the scan passes over before it gets from a to b.
Distance(a, b) == IF a <= b THEN b - a ELSE b - a + NProc

\* blk and tk are values of msg_block and take_up.
Runnable(blk, tk) == {p \in Proc : blk[p] # 1 /\ tk[p] # 0}

\* The scan that starts at from, with msg_block = blk, take_up = tk, stops at c.
Scan(from, blk, tk, c) ==
  /\ c \in Runnable(blk, tk)
  /\ \A r \in Runnable(blk, tk) : Distance(from, c) <= Distance(from, r)

\* Mutant: the scan always starts at slot 0.
ScheduleFromZero(blk, tk) ==
  \E c \in Proc :
    /\ Scan(0, blk, tk, c)
    /\ current_proc' = c
    /\ proc_ptr' = Next1(c)

ProcLineSchedule(blk, tk) ==
  \E c \in Proc :
    /\ Scan(proc_ptr, blk, tk, c)
    /\ current_proc' = c
    /\ proc_ptr' = Next1(c)

\* A clock tick scans with the msg_block of before the call; the call then
\* scans again, from where the tick left proc_ptr, if its caller is blocked.
TickInside(again) ==
  \E c \in Proc :
    /\ Scan(proc_ptr, msg_block, take_up, c)
    /\ IF again
       THEN \E d \in Proc :
              /\ Scan(Next1(c), msg_block', take_up, d)
              /\ current_proc' = d
              /\ proc_ptr' = Next1(d)
       ELSE /\ current_proc' = c
            /\ proc_ptr' = Next1(c)

\* Mutant: a call that blocked its caller returns to it all the same.
NoReschedule(p) == UNCHANGED schedVars

\* The tail of every message call: give the processor away if the process
\* named by the call is blocked.
RescheduleIfBlocked(p) ==
  /\ \/ /\ msg_block'[p] = 1
        /\ ProcLineSchedule(msg_block', take_up)
     \/ /\ msg_block'[p] # 1
        /\ UNCHANGED <<current_proc, proc_ptr>>
     \/ TickInside(msg_block'[p] = 1)
  /\ UNCHANGED take_up

SysSendMessage(from, to, s, m) ==
  /\ MsgSend(from, to, s, m)
  /\ RescheduleIfBlocked(from)

SysRecvMessage(from, to, s) ==
  /\ MsgReceive(to, from, s)
  /\ RescheduleIfBlocked(to)

\* The clock interrupt outside a system call (task_line_schedule has no
\* waiting task to start; module Tasks models it).
ClockHandler ==
  /\ ProcLineSchedule(msg_block, take_up)
  /\ UNCHANGED <<take_up, msgVars>>

SchedInit ==
  /\ take_up      = [p \in Proc |-> 1]
  /\ current_proc = 0
  /\ proc_ptr     = 0
================================================================================
