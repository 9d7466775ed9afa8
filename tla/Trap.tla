--------------------------------- MODULE Trap ----------------------------------
(***************************************************************************)
(* The way into the kernel and out of it: save, restart, restart_reenter,  *)
(* the interrupt stubs and sys_call of idt/idt_s.s, with the first start   *)
(* of proc/sched_s.s.  Inside, the handlers and calls of module Tasks.     *)
(*                                                                         *)
(* The stubs of the master's interrupts mask their own line and enable     *)
(* interrupts, those of the slave leave them disabled, a system call       *)
(* enables them around the call: the clock may interrupt a call, and the   *)
(* keyboard the clock.  What runs with interrupts disabled is one step.    *)
(*                                                                         *)
(* Abstractions.  A register frame is the task it belongs to.  It is worth *)
(* one resumption: once loaded, what is left in the PCB is outdated (NULL) *)
(* until the next save.  The kernel stack is the sequence of the           *)
(* activities on it, the innermost last; what they push and pop between is *)
(* left out.  The handlers of keyboard and disk change nothing here.       *)
(***************************************************************************)
EXTENDS Tasks, Sequences

CONSTANT TickInAsk   \* may a tick fall into get_proc_pid before it reads?

Line == {"clock", "keyboard", "disk"}   \* IRQ0, IRQ1 (master), IRQ14 (slave)
Kind == Line \cup {"kill", "get_proc_pid"}

\* Something is started at boot, and MM is a system task (kern_init).
ASSUME TrapAssumption ==
  /\ TickInAsk \in BOOLEAN /\ NULL \notin Task
  /\ \E t \in Task : Name[t] = "INIT" \/ Level[t] \in {SYS_TASK, USER_TASK}
  /\ \A t \in Task : Name[t] = "MM" => Level[t] = SYS_TASK

VARIABLES
  regs,       \* [Proc -> Task \cup {NULL}]  the frame in procs[p].regs
  cpu,        \* the task whose registers the CPU holds in user mode
  ldt,        \* the LDT register
  sp0,        \* tss.esp0: the process whose frame a trap from user mode fills
  stack,      \* what runs in the kernel
  k_reenter,  \* the depth of nesting, -1 in user mode
  imr,        \* the masked lines of the master
  asked       \* mm_init has asked for its pid

cpuVars  == <<regs, cpu, ldt, sp0>>
trapVars == <<cpuVars, stack, k_reenter, imr, asked>>
allVars  == <<vars, trapVars>>

\* arg: the process to kill.  done: the handler or call has returned.
\* ret: where the stub returns to, pushed by save.
Activity ==
  [what : Kind, arg : Proc, done : BOOLEAN,
   ret : {"restart", "restart_reenter"}]

Top      == stack[Len(stack)]
InUser   == kernel # "boot" /\ stack = <<>>
Doing(w) == stack # <<>> /\ Top.what = w /\ ~Top.done

TrapInit ==
  /\ Init
  /\ regs = [p \in Proc |-> NULL] /\ cpu = NULL /\ ldt = NULL /\ sp0 = NULL
  /\ stack = <<>> /\ k_reenter = 0 /\ imr = {} /\ asked = FALSE

--------------------------------------------------------------------------------
(* idt_s.s                                                                 *)

\* Mutant: the depth is counted after it was tested.
SaveTestsFirst(w, p, d) ==
  /\ regs' = IF stack = <<>> THEN [regs EXCEPT ![sp0] = cpu] ELSE regs
  /\ cpu' = NULL
  /\ k_reenter' = k_reenter + 1
  /\ stack' = IF k_reenter = 0
              THEN <<[what |-> w, arg |-> p, done |-> d, ret |-> "restart"]>>
              ELSE Append(stack, [what |-> w, arg |-> p, done |-> d, ret |-> "restart_reenter"])
  /\ UNCHANGED <<ldt, sp0>>

\* From user mode the CPU pushes at tss.esp0, otherwise on the stack in use.
\* At depth 0 save then goes to the top of the kernel stack, over whatever is
\* there.
Save(w, p, d) ==
  /\ regs' = IF stack = <<>> THEN [regs EXCEPT ![sp0] = cpu] ELSE regs
  /\ cpu' = NULL
  /\ k_reenter' = k_reenter + 1
  /\ stack' = IF k_reenter + 1 = 0
              THEN <<[what |-> w, arg |-> p, done |-> d, ret |-> "restart"]>>
              ELSE Append(stack, [what |-> w, arg |-> p, done |-> d, ret |-> "restart_reenter"])
  /\ UNCHANGED <<ldt, sp0>>

\* The frame of p is popped.
Load(p, r) ==
  /\ cpu' = r[p]
  /\ regs' = [r EXCEPT ![p] = NULL]

\* Mutant: the TSS still points to the process that was interrupted.
RestartKeepsSp0 ==
  /\ Load(current_proc, regs)
  /\ ldt' = ldtr[current_proc]
  /\ stack' = <<>>
  /\ UNCHANGED sp0

Restart ==
  /\ Load(current_proc, regs)
  /\ ldt' = ldtr[current_proc] /\ sp0' = current_proc
  /\ stack' = <<>>

\* The frame is on the stack in use: that of the activity below, or, had the
\* depth been wrong, the PCB.
RestartReenter ==
  /\ stack' = SubSeq(stack, 1, Len(stack) - 1)
  /\ IF Len(stack) = 1 THEN Load(sp0, regs) ELSE UNCHANGED <<cpu, regs>>
  /\ UNCHANGED <<ldt, sp0>>

\* The end of every stub: cli, the line is unmasked, ret.
Leave ==
  /\ stack # <<>> /\ Top.done
  /\ \/ Top.ret = "restart" /\ Restart
     \/ Top.ret = "restart_reenter" /\ RestartReenter
  /\ k_reenter' = k_reenter - 1
  /\ imr' = imr \ {Top.what}
  /\ UNCHANGED <<vars, asked>>

\* StartInKill and TickInAsk: where no tick falls.
MayTick ==
  /\ kernel = "kill" => StartInKill \/ Startable = {}
  /\ (\E n \in 1 .. Len(stack) : stack[n].what = "get_proc_pid" /\ ~stack[n].done) => TickInAsk

\* IRQ_MASTER and IRQ_SLAVE up to the handler.  Under a slave's stub
\* interrupts stay disabled.
Interrupt(i) ==
  /\ InUser \/ (stack # <<>> /\ Top.what # "disk")
  /\ i \notin imr
  /\ i = "clock" => MayTick
  /\ Save(i, 0, i # "clock")
  /\ imr' = IF i = "disk" THEN imr ELSE imr \cup {i}
  /\ UNCHANGED <<vars, asked>>

--------------------------------------------------------------------------------
(* The handlers and calls                                                  *)

Finish == stack' = [stack EXCEPT ![Len(stack)].done = TRUE]

\* The PCBs a pass over the task table has filled start their tasks.
FreshFrames(r) ==
  [p \in Proc |-> IF take_up[p] = 0 /\ take_up'[p] = 1 THEN ptid'[p] ELSE r[p]]

ClockHandlerRuns ==
  /\ Doing("clock")
  /\ Tick
  /\ regs' = FreshFrames(regs)
  /\ Finish
  /\ UNCHANGED <<cpu, ldt, sp0, k_reenter, imr, asked>>

\* shell_kill_proc, in the task TTY: the number typed goes to the kernel as
\* it is.  A shell that killed itself runs on until the next tick.
KillCalled(p) ==
  /\ InUser /\ Name[cpu] = "TTY"
  /\ kills < MaxKill /\ (KillUnused \/ Used(p))
  /\ Save("kill", p, FALSE)
  /\ UNCHANGED <<vars, imr, asked>>

KillRuns ==
  /\ Doing("kill")
  /\ \/ KillFree(Top.arg) /\ UNCHANGED stack
     \/ KillStop /\ Finish
  /\ UNCHANGED <<cpuVars, k_reenter, imr, asked>>

\* mm_init, when the task MM starts.
PidAsked ==
  /\ InUser /\ Name[cpu] = "MM" /\ ~asked
  /\ Save("get_proc_pid", 0, FALSE)
  /\ asked' = TRUE
  /\ UNCHANGED <<vars, imr>>

\* Mutant: the process to be chosen next is taken for the caller.
PidOfNext ==
  /\ Doing("get_proc_pid")
  /\ server_pid' = [server_pid EXCEPT !["MM"] = proc_ptr]
  /\ Finish
  /\ UNCHANGED <<msgVars, schedVars, task_size, tstatus, tpid, pcbVars, shellVars,
                 cpuVars, k_reenter, imr, asked>>

\* sys_get_proc_pid(&mm_pid)
PidAnswered ==
  /\ Doing("get_proc_pid")
  /\ server_pid' = [server_pid EXCEPT !["MM"] = current_proc]
  /\ Finish
  /\ UNCHANGED <<msgVars, schedVars, task_size, tstatus, tpid, pcbVars, shellVars,
                 cpuVars, k_reenter, imr, asked>>

\* task_line_schedule, init_schedule and first_proc_start.
FirstProcStart ==
  /\ StartKernel
  /\ Load(0, FreshFrames(regs))
  /\ ldt' = ldtr'[0] /\ sp0' = 0
  /\ k_reenter' = -1
  /\ UNCHANGED <<stack, imr, asked>>

TrapNext ==
  \/ AddNewTask /\ UNCHANGED trapVars
  \/ FirstProcStart
  \/ \E i \in Line : Interrupt(i)
  \/ \E p \in KillPids : KillCalled(p)
  \/ PidAsked
  \/ ClockHandlerRuns
  \/ KillRuns
  \/ PidAnswered
  \/ Leave

TrapSpec == TrapInit /\ [][TrapNext]_allVars

\* The timer never stops, and what has been entered ends, interrupted as it
\* may be: interrupts come at a finite rate.
TrapFairSpec ==
  /\ TrapSpec
  /\ WF_allVars(AddNewTask /\ UNCHANGED trapVars) /\ WF_allVars(FirstProcStart)
  /\ SF_allVars(Interrupt("clock"))
  /\ SF_allVars(ClockHandlerRuns) /\ SF_allVars(KillRuns) /\ SF_allVars(PidAnswered)
  /\ \A w \in Kind : SF_allVars(Leave /\ Top.what = w)
--------------------------------------------------------------------------------
(* Properties                                                              *)

TrapTypeOK ==
  /\ TypeOK
  /\ regs \in [Proc -> Task \cup {NULL}] /\ cpu \in Task \cup {NULL}
  /\ ldt \in 0 .. GDT_LENGTH - 1 \cup {NULL} /\ sp0 \in Proc \cup {NULL}
  /\ stack \in Seq(Activity)
  /\ k_reenter \in Int /\ imr \subseteq Line /\ asked \in BOOLEAN

\* idt_s.s:222: k_reenter counts what is on the kernel stack.  The outermost
\* activity leaves by restart and all others by restart_reenter, and at most
\* four are on the stack: no line interrupts its own handler.
NestingCounted ==
  kernel # "boot" =>
    /\ k_reenter = Len(stack) - 1
    /\ \A n \in 1 .. Len(stack) : stack[n].ret = "restart" <=> n = 1
    /\ \A m, n \in 1 .. Len(stack) : stack[m].what = stack[n].what => m = n
    /\ imr = {stack[n].what : n \in 1 .. Len(stack)} \cap {"clock", "keyboard"}

\* A process goes on where it was: in user mode the CPU holds the registers
\* and the LDT of current_proc, the next trap fills the frame of that
\* process, and every other process in use has its own frame in its PCB.
ContextKept ==
  kernel # "boot" =>
    /\ InUser => /\ cpu = ptid[current_proc] /\ sp0 = current_proc
                 /\ gdt[ldt] = current_proc
    /\ \A p \in Proc : take_up[p] = 1 /\ ~(InUser /\ current_proc = p) => regs[p] = ptid[p]

\* What Tasks says of the kernel as a whole is what happens here: every step
\* is one of Tasks, or none.  In particular a pid asked for is the one that
\* task_line_schedule has recorded.
ImplementsTasks == Spec
================================================================================
