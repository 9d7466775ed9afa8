------------------------------ MODULE TrapProofs -------------------------------
(***************************************************************************)
(* The way into the kernel and out of it, for every number of tasks and    *)
(* slots: the stacks and the depth of nesting, the frame each process goes *)
(* on from, and that what happens is what Tasks says.                      *)
(***************************************************************************)
EXTENDS Trap, TasksProofs, SequenceTheorems

\* Calls come from user mode, so they are outermost; nothing interrupts the
\* stub of a slave's line.
StackInv ==
  /\ stack \in Seq(Activity)
  /\ NestingCounted
  /\ kernel = "boot" => stack = <<>>
  /\ \A n \in 1 .. Len(stack) : /\ stack[n].what = "disk" => n = Len(stack)
                                /\ stack[n].what = "kill" => stack[n].arg \in KillPids

\* Who asks for its pid is current until it is answered.
AskInv ==
  \A n \in 1 .. Len(stack) : (stack[n].what = "get_proc_pid" /\ ~stack[n].done) =>
    /\ Name[ptid[current_proc]] = "MM"
    /\ \A m \in 1 .. Len(stack) : stack[m].what # "clock"

\* Every slot that has had a process holds its frame, except that of the
\* process that runs.
FrameInv ==
  /\ kernel # "boot" => Used(current_proc)
  /\ InUser => cpu = ptid[current_proc] /\ sp0 = current_proc /\ ldt = ldtr[current_proc]
  /\ \A p \in Proc : (Used(p) /\ ~(InUser /\ current_proc = p)) => regs[p] = ptid[p]

\* Before the first start there are tasks but no processes.
BootInv ==
  kernel = "boot" =>
    /\ imr = {}
    /\ \A p \in Proc : take_up[p] = 0 /\ ~Used(p)
    /\ \A t \in Task : t < task_size => tstatus[t] = TASK_WAITING

\* The inductive invariant.
TInv == IInv /\ TrapTypeOK /\ StackInv /\ AskInv /\ FrameInv /\ BootInv

\* The restrictions of Gentle, and no tick between a question and its answer.
Careful == Gentle /\ TickInAsk = FALSE
--------------------------------------------------------------------------------
(* The kernel stack                                                        *)

\* Entering and leaving, as lengths and elements.
LEMMA Pushed ==
  ASSUME stack \in Seq(Activity), NEW a \in Activity, stack' = Append(stack, a)
  PROVE  /\ stack' \in Seq(Activity) /\ Len(stack') = Len(stack) + 1
         /\ \A n \in 1 .. Len(stack) : stack'[n] = stack[n]
         /\ stack'[Len(stack) + 1] = a
BY AppendProperties

LEMMA Popped ==
  ASSUME stack \in Seq(Activity), stack # <<>>, stack' = SubSeq(stack, 1, Len(stack) - 1)
  PROVE  /\ stack' \in Seq(Activity) /\ Len(stack') = Len(stack) - 1
         /\ \A n \in 1 .. Len(stack) - 1 : stack'[n] = stack[n]
<1> DEFINE k == Len(stack) - 1
<1>1. Len(stack) \in Nat \ {0} /\ k \in Nat /\ k < Len(stack)
  BY EmptySeq, LenProperties
<1>2. \A i \in 1 .. k : stack[i] \in Activity
  BY <1>1, ElementOfSeq
<1> HIDE DEF k
<1>3. /\ SubSeq(stack, 1, k) \in Seq(Activity)
      /\ Len(SubSeq(stack, 1, k)) = IF 1 <= k THEN k - 1 + 1 ELSE 0
      /\ \A i \in 1 .. k - 1 + 1 : SubSeq(stack, 1, k)[i] = stack[1 + i - 1]
  BY <1>1, <1>2, SubSeqProperties
<1>4. Len(SubSeq(stack, 1, k)) = k
  BY <1>1, <1>3
<1>5. \A i \in 1 .. k : i \in 1 .. k - 1 + 1 /\ 1 + i - 1 = i
  BY <1>1
<1>6. stack' = SubSeq(stack, 1, k)
  BY DEF k
<1>7. \A i \in 1 .. k : stack'[i] = stack[i]
  BY <1>3, <1>5, <1>6
<1> QED BY <1>3, <1>4, <1>6, <1>7 DEF k

\* A handler that returns changes one mark of the innermost activity.
LEMMA Finished ==
  ASSUME stack \in Seq(Activity), stack # <<>>, Finish
  PROVE  /\ stack' \in Seq(Activity) /\ Len(stack') = Len(stack) /\ stack' # <<>>
         /\ \A n \in 1 .. Len(stack) : /\ stack'[n].what = stack[n].what
                                       /\ stack'[n].arg = stack[n].arg
                                       /\ stack'[n].ret = stack[n].ret
                                       /\ n # Len(stack) => stack'[n] = stack[n]
         /\ stack'[Len(stack)].done = TRUE
<1> DEFINE k == Len(stack)
           top == [Top EXCEPT !.done = TRUE]
<1>1. k \in Nat \ {0} /\ k \in 1 .. k
  BY EmptySeq, LenProperties
<1>2. Top \in Activity
  BY <1>1, ElementOfSeq DEF Top
<1>3. top \in Activity /\ top.what = Top.what /\ top.arg = Top.arg /\ top.ret = Top.ret /\ top.done = TRUE
  BY <1>2 DEF Activity
<1>4. stack' = [stack EXCEPT ![k] = top]
  BY DEF Finish, Top
<1> HIDE DEF top, k
<1>5. stack \in Seq(Activity) /\ Len(stack) = k
  BY DEF k
<1>6. /\ stack' \in Seq(Activity) /\ Len(stack') = k
      /\ \A n \in 1 .. k : stack'[n] = IF n = k THEN top ELSE stack[n]
  BY <1>1, <1>3, <1>4, <1>5, ExceptSeq
<1>7. stack' # <<>>
  BY <1>1, <1>6
<1>8. stack'[k] = top /\ stack[k] = Top
  BY <1>1, <1>6 DEF Top, k
<1>9. \A n \in 1 .. k : n # k => stack'[n] = stack[n]
  BY <1>6
<1>10. ASSUME NEW n \in 1 .. k
       PROVE  /\ stack'[n].what = stack[n].what /\ stack'[n].arg = stack[n].arg
              /\ stack'[n].ret = stack[n].ret
  <2>1. CASE n = k
    BY <1>3, <1>8, <2>1
  <2>2. CASE n # k
    BY <1>9, <2>2
  <2> QED BY <2>1, <2>2
<1>11. stack'[k].done = TRUE
  BY <1>3, <1>8
<1> QED BY <1>6, <1>7, <1>9, <1>10, <1>11 DEF k

\* Where only the trap's own variables move, what holds of Tasks stays.
LEMMA TasksUnchanged ==
  ASSUME Gentle, IInv, UNCHANGED vars PROVE IInv'
BY NextIInv
\* save: whatever enters the kernel.
LEMMA SaveKeeps ==
  ASSUME Careful, TInv, UNCHANGED vars, kernel # "boot",
         NEW w \in Kind, NEW p \in Proc, NEW d \in BOOLEAN, Save(w, p, d),
         imr' = imr \cup ({w} \cap {"clock", "keyboard"}), asked' \in BOOLEAN,
         w \notin imr, stack = <<>> \/ (Top.what # "disk" /\ w \in Line),
         w = "kill" => p \in KillPids,
         w = "clock" => \A n \in 1 .. Len(stack) : ~(stack[n].what = "get_proc_pid" /\ ~stack[n].done),
         w = "get_proc_pid" => Name[cpu] = "MM"
  PROVE  TInv'
<1> DEFINE k == Len(stack)
           a == [what |-> w, arg |-> p, done |-> d,
                 ret |-> IF k = 0 THEN "restart" ELSE "restart_reenter"]
<1>1. IInv'
  BY TasksUnchanged DEF TInv, Careful
<1>2. stack \in Seq(Activity) /\ k \in Nat /\ (stack = <<>> <=> k = 0) /\ k_reenter = k - 1
  BY EmptySeq, LenProperties DEF TInv, StackInv, NestingCounted
<1>3. a \in Activity /\ a.what = w /\ a.arg = p /\ a.done = d
      /\ (a.ret = "restart" <=> k = 0)
  BY DEF Activity
<1>4. stack' = Append(stack, a)
  <2>1. CASE k = 0
    <3>1. stack' = <<a>>
      BY <1>2, <2>1 DEF Save
    <3> QED BY <1>2, <2>1, <3>1
  <2>2. CASE k # 0
    <3>1. k_reenter + 1 # 0
      BY <1>2, <2>2
    <3> QED BY <2>2, <3>1 DEF Save
  <2> QED BY <2>1, <2>2
<1> HIDE DEF a
<1>5. /\ stack' \in Seq(Activity) /\ Len(stack') = k + 1
      /\ \A n \in 1 .. k : stack'[n] = stack[n]
      /\ stack'[k + 1] = a
  BY <1>2, <1>3, <1>4, Pushed
<1> HIDE DEF k
<1>6. /\ kernel' = kernel /\ ptid' = ptid /\ ldtr' = ldtr /\ current_proc' = current_proc
      /\ take_up' = take_up /\ (\A q \in Proc : Used(q)' = Used(q))
  BY DEF vars, schedVars, pcbVars, shellVars, Used
<1>7. \A n \in 1 .. k + 1 : n \in 1 .. k \/ n = k + 1
  BY <1>2
<1>8. ASSUME NEW n \in 1 .. k PROVE stack[n].what # w
  <2>1. /\ imr = {stack[m].what : m \in 1 .. k} \cap {"clock", "keyboard"}
        /\ stack[n].what = "disk" => n = k
    BY <1>8 DEF TInv, StackInv, NestingCounted, k
  <2>2. k # 0
    BY <1>2, <1>8
  <2>3. CASE w \in {"clock", "keyboard"}
    BY <2>1, <2>3
  <2>4. CASE w = "disk"
    BY <1>2, <2>1, <2>2, <2>4 DEF Top, k
  <2>5. w \in Line
    BY <1>2, <2>2
  <2> QED BY <2>3, <2>4, <2>5 DEF Line
<1>9. NestingCounted'
  <2>1. k_reenter' = Len(stack') - 1
    BY <1>2, <1>5 DEF Save
  <2>2. \A n \in 1 .. k + 1 : stack'[n].ret = "restart" <=> n = 1
    <3>1. \A n \in 1 .. k : stack[n].ret = "restart" <=> n = 1
      BY DEF TInv, StackInv, NestingCounted, k
    <3> QED BY <1>2, <1>3, <1>5, <1>7, <3>1
  <2>3. \A m, n \in 1 .. k + 1 : stack'[m].what = stack'[n].what => m = n
    <3>1. \A m, n \in 1 .. k : stack[m].what = stack[n].what => m = n
      BY DEF TInv, StackInv, NestingCounted, k
    <3> QED BY <1>3, <1>5, <1>7, <1>8, <3>1
  <2>4. imr' = {stack'[n].what : n \in 1 .. k + 1} \cap {"clock", "keyboard"}
    <3>1. imr = {stack[n].what : n \in 1 .. k} \cap {"clock", "keyboard"}
      BY DEF TInv, StackInv, NestingCounted, k
    <3>2. {stack'[n].what : n \in 1 .. k + 1} = {stack[n].what : n \in 1 .. k} \cup {w}
      <4>1. 1 .. k \subseteq 1 .. k + 1 /\ k + 1 \in 1 .. k + 1
        BY <1>2
      <4> QED BY <1>3, <1>5, <1>7, <4>1
    <3> QED BY <3>1, <3>2
  <2> QED BY <1>5, <2>1, <2>2, <2>3, <2>4 DEF NestingCounted
<1>10. StackInv'
  <2>1. ASSUME NEW n \in 1 .. k + 1
        PROVE  /\ stack'[n].what = "disk" => n = k + 1
               /\ stack'[n].what = "kill" => stack'[n].arg \in KillPids
    <3>1. CASE n = k + 1
      BY <1>3, <1>5, <3>1
    <3>2. CASE n \in 1 .. k
      <4>1. /\ stack[n].what = "disk" => n = k
            /\ stack[n].what = "kill" => stack[n].arg \in KillPids
        BY <3>2 DEF TInv, StackInv, k
      <4>2. stack[n].what # "disk"
        BY <1>2, <3>2, <4>1 DEF Top, k
      <4> QED BY <1>5, <3>2, <4>1, <4>2
    <3> QED BY <1>7, <3>1, <3>2
  <2> QED BY <1>5, <1>6, <1>9, <2>1 DEF StackInv
<1>11. AskInv'
  <2> SUFFICES ASSUME NEW n \in 1 .. k + 1, stack'[n].what = "get_proc_pid", ~stack'[n].done
               PROVE  /\ Name[ptid[current_proc]] = "MM"
                      /\ \A m \in 1 .. k + 1 : stack'[m].what # "clock"
    BY <1>5, <1>6 DEF AskInv
  <2>1. CASE n = k + 1
    <3>1. w = "get_proc_pid" /\ k = 0
      BY <1>2, <1>3, <1>5, <2>1 DEF Line
    <3>2. cpu = ptid[current_proc]
      BY <1>2, <3>1 DEF TInv, FrameInv, InUser
    <3>3. \A m \in 1 .. k + 1 : m = n
      BY <2>1, <3>1
    <3> QED BY <3>1, <3>2, <3>3
  <2>2. CASE n \in 1 .. k
    <3>1. stack[n].what = "get_proc_pid" /\ ~stack[n].done
      BY <1>5, <2>2
    <3>2. Name[ptid[current_proc]] = "MM" /\ \A m \in 1 .. k : stack[m].what # "clock"
      BY <2>2, <3>1 DEF TInv, AskInv, k
    <3>3. w # "clock"
      BY <2>2, <3>1 DEF k
    <3> QED BY <1>3, <1>5, <1>7, <3>2, <3>3
  <2> QED BY <1>7, <2>1, <2>2
<1>12. stack' # <<>> /\ ~InUser'
  BY <1>2, <1>5, EmptySeq DEF InUser
<1>13. TrapTypeOK'
  <2>1. TypeOK'
    BY <1>1 DEF IInv
  <2>2. regs' \in [Proc -> Task \cup {NULL}]
    BY DEF Save, TInv, TrapTypeOK
  <2>3. k_reenter' \in Int /\ imr' \subseteq Line
    BY <1>2 DEF Save, TInv, TrapTypeOK, Line
  <2>4. ldt' = ldt /\ sp0' = sp0 /\ cpu' = NULL
    BY DEF Save
  <2> QED BY <1>5, <2>1, <2>2, <2>3, <2>4 DEF TInv, TrapTypeOK
<1>14. FrameInv'
  <2>1. Used(current_proc)
    BY DEF TInv, FrameInv
  <2>2. ASSUME NEW q \in Proc, Used(q) PROVE regs'[q] = ptid[q]
    <3>1. CASE InUser
      <4>1. sp0 = current_proc /\ cpu = ptid[current_proc] /\ stack = <<>>
        BY <3>1 DEF TInv, FrameInv, InUser
      <4>2. regs' = [regs EXCEPT ![current_proc] = cpu]
        BY <4>1 DEF Save
      <4>3. current_proc # q => regs[q] = ptid[q]
        BY <2>2 DEF TInv, FrameInv
      <4> QED BY <4>1, <4>2, <4>3 DEF TInv, TrapTypeOK
    <3>2. CASE ~InUser
      <4>1. stack # <<>>
        BY <3>2 DEF InUser
      <4> QED BY <2>2, <3>2, <4>1 DEF TInv, FrameInv, Save
    <3> QED BY <3>1, <3>2
  <2> QED BY <1>6, <1>12, <2>1, <2>2 DEF FrameInv, Used
<1>15. BootInv'
  BY <1>6 DEF BootInv
<1> QED BY <1>1, <1>10, <1>11, <1>13, <1>14, <1>15 DEF TInv
\* restart and restart_reenter: whatever leaves the kernel.
LEMMA LeaveKeeps ==
  ASSUME Careful, TInv, Leave PROVE TInv'
<1> DEFINE k == Len(stack)
<1>1. IInv'
  BY TasksUnchanged DEF TInv, Careful, Leave
<1>2. /\ stack \in Seq(Activity) /\ stack # <<>> /\ k \in Nat \ {0} /\ Top = stack[k] /\ k_reenter = k - 1
      /\ k_reenter' = k_reenter - 1 /\ imr' = imr \ {Top.what} /\ asked' = asked
      /\ \/ Top.ret = "restart" /\ Restart
         \/ Top.ret = "restart_reenter" /\ RestartReenter
  BY EmptySeq DEF TInv, StackInv, NestingCounted, Leave, Top
<1>3. kernel # "boot" /\ ~InUser
  BY <1>2 DEF TInv, StackInv, InUser
<1>4. Used(current_proc) /\ current_proc \in Proc /\ \A q \in Proc : Used(q) => regs[q] = ptid[q]
  BY <1>3 DEF TInv, FrameInv, IInv, TypeOK, SchedTypeOK
<1>5. /\ kernel' = kernel /\ ptid' = ptid /\ ldtr' = ldtr /\ current_proc' = current_proc
      /\ (\A q \in Proc : Used(q)' = Used(q))
  BY DEF Leave, vars, schedVars, pcbVars, shellVars, Used
<1>6. /\ \A n \in 1 .. k : stack[n].ret = "restart" <=> n = 1
      /\ \A m, n \in 1 .. k : stack[m].what = stack[n].what => m = n
      /\ imr = {stack[n].what : n \in 1 .. k} \cap {"clock", "keyboard"}
  BY <1>3 DEF TInv, StackInv, NestingCounted
<1>7. TypeOK' /\ k_reenter' \in Int /\ imr' \subseteq Line /\ asked' \in BOOLEAN
  BY <1>1, <1>2 DEF IInv, TInv, TrapTypeOK
<1> HIDE DEF k
<1>8. CASE Top.ret = "restart"
  <2>1. /\ stack' = <<>> /\ cpu' = regs[current_proc] /\ regs' = [regs EXCEPT ![current_proc] = NULL]
        /\ ldt' = ldtr[current_proc] /\ sp0' = current_proc
    BY <1>2, <1>8 DEF Restart, Load
  <2>2. k = 1
    BY <1>2, <1>6, <1>8
  <2>3. Len(stack') = 0 /\ stack' \in Seq(Activity)
    BY <2>1, EmptySeq
  <2>4. imr' = {}
    <3>1. {stack[n].what : n \in 1 .. k} = {Top.what}
      BY <1>2, <2>2
    <3> QED BY <1>2, <1>6, <3>1
  <2>5. \A n : n \notin 1 .. Len(stack')
    BY <2>3
  <2>6. StackInv' /\ AskInv'
    BY <1>2, <1>3, <1>5, <2>1, <2>2, <2>3, <2>4, <2>5 DEF StackInv, NestingCounted, AskInv
  <2>7. TrapTypeOK'
    <3>1. regs \in [Proc -> Task \cup {NULL}] /\ ldtr \in [Proc -> 0 .. GDT_LENGTH - 1]
      BY DEF TInv, TrapTypeOK, TypeOK
    <3> QED BY <1>4, <1>7, <2>1, <2>3, <3>1 DEF TrapTypeOK
  <2>8. FrameInv'
    <3>1. regs \in [Proc -> Task \cup {NULL}]
      BY DEF TInv, TrapTypeOK
    <3> QED BY <1>3, <1>4, <1>5, <2>1, <3>1 DEF FrameInv, InUser, Used
  <2> QED BY <1>1, <1>3, <1>5, <2>6, <2>7, <2>8 DEF TInv, BootInv
<1>9. CASE Top.ret = "restart_reenter"
  <2>1. k # 1
    BY <1>2, <1>6, <1>9
  <2>2. stack' = SubSeq(stack, 1, k - 1) /\ UNCHANGED <<cpu, regs, ldt, sp0>>
    BY <1>2, <1>9, <2>1 DEF RestartReenter, k
  <2>3. /\ stack' \in Seq(Activity) /\ Len(stack') = k - 1
        /\ \A n \in 1 .. k - 1 : stack'[n] = stack[n]
    BY <1>2, <2>2, Popped DEF k
  <2>4. stack' # <<>> /\ ~InUser'
    BY <1>2, <2>1, <2>3, EmptySeq DEF InUser
  <2>5. \A n \in 1 .. k - 1 : n \in 1 .. k /\ n # k
    BY <1>2
  <2>6. \A n \in 1 .. k : n \in 1 .. k - 1 \/ n = k
    BY <1>2
  <2>7. NestingCounted'
    <3>1. k_reenter' = Len(stack') - 1
      BY <1>2, <2>3
    <3>2. /\ \A n \in 1 .. k - 1 : stack'[n].ret = "restart" <=> n = 1
          /\ \A m, n \in 1 .. k - 1 : stack'[m].what = stack'[n].what => m = n
      BY <1>6, <2>3, <2>5
    <3>3. imr' = {stack'[n].what : n \in 1 .. k - 1} \cap {"clock", "keyboard"}
      <4>1. k \in 1 .. k
        BY <1>2
      <4>2. {stack'[n].what : n \in 1 .. k - 1} = {stack[n].what : n \in 1 .. k} \ {Top.what}
        BY <1>2, <1>6, <2>3, <2>5, <2>6, <4>1
      <4> QED BY <1>2, <1>6, <4>2
    <3> QED BY <2>3, <3>1, <3>2, <3>3 DEF NestingCounted
  <2>8. StackInv'
    <3>1. ASSUME NEW n \in 1 .. k - 1
          PROVE  stack'[n].what # "disk" /\ (stack'[n].what = "kill" => stack'[n].arg \in KillPids)
      BY <2>3, <2>5 DEF TInv, StackInv, k
    <3> QED BY <1>3, <1>5, <2>3, <2>7, <3>1 DEF StackInv
  <2>9. AskInv'
    <3>1. \A n \in 1 .. k : (stack[n].what = "get_proc_pid" /\ ~stack[n].done) =>
            /\ Name[ptid[current_proc]] = "MM"
            /\ \A m \in 1 .. k : stack[m].what # "clock"
      BY DEF TInv, AskInv, k
    <3> QED BY <1>5, <2>3, <2>5, <3>1 DEF AskInv
  <2>10. TrapTypeOK'
    BY <1>7, <2>2, <2>3 DEF TInv, TrapTypeOK
  <2>11. FrameInv'
    BY <1>3, <1>4, <1>5, <2>2, <2>4 DEF FrameInv, Used
  <2> QED BY <1>1, <1>3, <1>5, <2>8, <2>9, <2>10, <2>11 DEF TInv, BootInv
<1> QED BY <1>2, <1>8, <1>9

\* A handler or call that returns, or goes on, with the depth, the lines and
\* the frames as they were.
LEMMA WorkKeepsStack ==
  ASSUME TInv, Finish \/ UNCHANGED stack, stack # <<>>, kernel # "boot", kernel' # "boot",
         UNCHANGED <<k_reenter, imr>>
  PROVE  StackInv' /\ stack' # <<>> /\ Len(stack') = Len(stack)
         /\ \A n \in 1 .. Len(stack) : stack'[n].what = stack[n].what
<1>1. stack \in Seq(Activity)
  BY DEF TInv, StackInv
<1>2. /\ stack' \in Seq(Activity) /\ Len(stack') = Len(stack) /\ stack' # <<>>
      /\ \A n \in 1 .. Len(stack) : /\ stack'[n].what = stack[n].what
                                    /\ stack'[n].arg = stack[n].arg
                                    /\ stack'[n].ret = stack[n].ret
  BY <1>1, Finished
<1>3. {stack'[n].what : n \in 1 .. Len(stack)} = {stack[n].what : n \in 1 .. Len(stack)}
  BY <1>2
<1>4. NestingCounted'
  BY <1>2, <1>3 DEF TInv, StackInv, NestingCounted
<1> QED BY <1>2, <1>4 DEF TInv, StackInv
\* A pass over the task table starts tasks in slots that were free, and leaves
\* the others with what they had.
LEMMA PassFrames ==
  ASSUME IInv, TaskLineSchedule, NEW p \in Proc, ~(take_up[p] = 0 /\ take_up'[p] = 1)
  PROVE  Used(p)' = Used(p) /\ ptid'[p] = ptid[p]
<1>1. PICK S \in SUBSET Startable : \E f \in [S -> Empty] : Pass(S, f)
  BY DEF TaskLineSchedule, Pass
<1>2. PICK f \in [S -> Empty] : Pass(S, f)
  BY <1>1
<1>3. Started(S, f)
  BY <1>2, PassFacts
<1>4. \A t \in S : f[t] # p
  BY <1>3 DEF Started
<1> QED BY <1>3, <1>4 DEF Started, Used

\* clock_handler runs on the kernel stack, so every process has its frame in
\* its PCB; new processes get theirs.
LEMMA ClockKeeps ==
  ASSUME Careful, TInv, ClockHandlerRuns PROVE TInv'
<1>1. /\ stack # <<>> /\ Top.what = "clock" /\ ~Top.done /\ Tick /\ Finish
      /\ regs' = FreshFrames(regs)
      /\ UNCHANGED <<cpu, ldt, sp0, k_reenter, imr, asked>>
  BY DEF ClockHandlerRuns, Doing
<1>2. IInv'
  BY <1>1, NextIInv DEF TInv, Careful, Next
<1>3. /\ kernel # "boot" /\ kernel' = kernel /\ TaskLineSchedule
      /\ ProcLineSchedule(msg_block', take_up')
  BY <1>1 DEF Tick, shellVars
<1>4. /\ StackInv' /\ stack' # <<>> /\ Len(stack') = Len(stack)
      /\ \A n \in 1 .. Len(stack) : stack'[n].what = stack[n].what
  BY <1>1, <1>3, WorkKeepsStack
<1>5. current_proc' \in Proc /\ take_up'[current_proc'] = 1
  <2>1. take_up' \in [Proc -> 0 .. 1]
    BY <1>2 DEF IInv, TypeOK, SchedTypeOK
  <2>2. PICK c \in Proc : Scan(proc_ptr, msg_block', take_up', c) /\ current_proc' = c
    BY <1>3 DEF ProcLineSchedule
  <2>3. take_up'[c] # 0 /\ take_up'[c] \in 0 .. 1
    BY <2>1, <2>2 DEF Scan, Runnable
  <2> QED BY <2>2, <2>3
<1>6. AskInv'
  <2> SUFFICES ASSUME NEW n \in 1 .. Len(stack), stack'[n].what = "get_proc_pid", ~stack'[n].done
               PROVE  FALSE
    BY <1>4 DEF AskInv
  <2>1. stack[n].what = "get_proc_pid" /\ Len(stack) \in Nat \ {0} /\ Len(stack) \in 1 .. Len(stack)
    BY <1>1, <1>4, EmptySeq DEF TInv, StackInv
  <2>2. n # Len(stack)
    BY <1>1, <2>1 DEF Top
  <2>3. stack'[n] = stack[n]
    BY <1>1, <2>2, Finished DEF TInv, StackInv
  <2>4. \A m \in 1 .. Len(stack) : stack[m].what # "clock"
    BY <2>1, <2>3 DEF TInv, AskInv
  <2> QED BY <1>1, <2>1, <2>4 DEF Top
<1>7. FrameInv'
  <2>1. Used(current_proc)'
    BY <1>2, <1>5 DEF IInv, InUse
  <2>2. ASSUME NEW p \in Proc, Used(p)' PROVE regs'[p] = ptid'[p]
    <3>1. CASE take_up[p] = 0 /\ take_up'[p] = 1
      BY <1>1, <3>1 DEF FreshFrames
    <3>2. CASE ~(take_up[p] = 0 /\ take_up'[p] = 1)
      <4>1. Used(p) /\ ptid'[p] = ptid[p]
        BY <1>3, <2>2, <3>2, PassFrames DEF TInv
      <4>2. regs'[p] = regs[p]
        BY <1>1, <3>2 DEF FreshFrames
      <4> QED BY <1>1, <4>1, <4>2 DEF TInv, FrameInv, InUser
    <3> QED BY <3>1, <3>2
  <2> QED BY <1>4, <2>1, <2>2 DEF FrameInv, InUser
<1>8. TrapTypeOK'
  <2>1. TypeOK' /\ ptid' \in [Proc -> Task]
    BY <1>2 DEF IInv, TypeOK
  <2>2. regs' \in [Proc -> Task \cup {NULL}]
    BY <1>1, <2>1 DEF FreshFrames, TInv, TrapTypeOK
  <2> QED BY <1>1, <1>4, <2>1, <2>2 DEF TInv, TrapTypeOK, StackInv
<1> QED BY <1>2, <1>3, <1>4, <1>6, <1>7, <1>8 DEF TInv, BootInv

\* sys_kill touches neither the frames nor who is current.
LEMMA KillKeeps ==
  ASSUME Careful, TInv, KillRuns
  PROVE  TInv' /\ Next
<1>1. /\ stack # <<>> /\ Top.what = "kill" /\ ~Top.done
      /\ \/ KillFree(Top.arg) /\ UNCHANGED stack
         \/ KillStop /\ Finish
      /\ UNCHANGED <<regs, cpu, ldt, sp0, k_reenter, imr, asked>>
  BY DEF KillRuns, Doing, cpuVars
<1>2. Len(stack) \in 1 .. Len(stack)
  BY <1>1, EmptySeq DEF TInv, StackInv
<1>3. Next
  BY <1>1, <1>2 DEF Next, TInv, StackInv, Top
<1>4. IInv'
  BY <1>3, NextIInv DEF TInv, Careful
<1>5. /\ kernel # "boot" /\ kernel' # "boot" /\ ptid' = ptid /\ ldtr' = ldtr
      /\ current_proc' = current_proc
  BY <1>1 DEF KillFree, KillStop, pcbVars, schedVars
<1>6. /\ StackInv' /\ stack' # <<>> /\ Len(stack') = Len(stack)
      /\ \A n \in 1 .. Len(stack) : stack'[n].what = stack[n].what
  BY <1>1, <1>5, WorkKeepsStack
<1>7. AskInv'
  <2> SUFFICES ASSUME NEW n \in 1 .. Len(stack), stack'[n].what = "get_proc_pid", ~stack'[n].done
               PROVE  ~stack[n].done
    BY <1>5, <1>6 DEF AskInv, TInv
  <2>1. n # Len(stack)
    BY <1>1, <1>6 DEF Top
  <2>2. stack'[n] = stack[n]
    BY <1>1, <2>1, Finished DEF TInv, StackInv
  <2> QED BY <2>2
<1>8. FrameInv'
  BY <1>1, <1>5, <1>6 DEF TInv, FrameInv, InUser, Used
<1>9. TrapTypeOK'
  BY <1>1, <1>4, <1>6 DEF TInv, IInv, TrapTypeOK, StackInv
<1> QED BY <1>3, <1>4, <1>5, <1>6, <1>7, <1>8, <1>9 DEF TInv, BootInv

\* Where no tick has come between, the pid answered is the one recorded when
\* MM was started.
LEMMA AnswerKeeps ==
  ASSUME Careful, TInv, PidAnswered
  PROVE  TInv' /\ UNCHANGED vars
<1> DEFINE t == ptid[current_proc]
<1>1. /\ stack # <<>> /\ Top.what = "get_proc_pid" /\ ~Top.done /\ Finish
      /\ server_pid' = [server_pid EXCEPT !["MM"] = current_proc]
      /\ UNCHANGED <<msgVars, schedVars, task_size, tstatus, tpid, pcbVars, shellVars>>
      /\ UNCHANGED <<regs, cpu, ldt, sp0, k_reenter, imr, asked>>
  BY DEF PidAnswered, Doing, cpuVars
<1>2. Len(stack) \in 1 .. Len(stack)
  BY <1>1, EmptySeq DEF TInv, StackInv
<1>3. kernel # "boot" /\ Name[t] = "MM"
  BY <1>1, <1>2 DEF TInv, StackInv, AskInv, Top
<1>4. current_proc \in Proc /\ Used(current_proc) /\ t \in Task
  BY <1>3 DEF TInv, FrameInv, IInv, TypeOK, SchedTypeOK
<1>5. tpid[t] = current_proc /\ t < task_size /\ tstatus[t] # TASK_WAITING
  BY <1>4 DEF TInv, IInv, SlotLinks, TASK_RUNNING, TASK_STOP, TASK_WAITING
<1>6. server_pid["MM"] = current_proc
  <2>1. Level[t] = SYS_TASK
    BY <1>3, <1>4, TrapAssumption
  <2> QED BY <1>3, <1>4, <1>5, <2>1 DEF TInv, IInv, ServersRecorded, Server
<1>7. server_pid' = server_pid
  BY <1>1, <1>6 DEF TInv, IInv, TypeOK
<1>8. UNCHANGED vars
  BY <1>1, <1>7 DEF vars, taskVars
<1>9. IInv'
  BY <1>8, TasksUnchanged DEF TInv, Careful
<1>10. kernel' = kernel /\ ptid' = ptid /\ ldtr' = ldtr /\ current_proc' = current_proc
  BY <1>1 DEF shellVars, pcbVars, schedVars
<1>11. /\ StackInv' /\ stack' # <<>> /\ Len(stack') = Len(stack)
       /\ \A n \in 1 .. Len(stack) : stack'[n].what = stack[n].what
  BY <1>1, <1>3, <1>10, WorkKeepsStack
<1>12. AskInv'
  <2> SUFFICES ASSUME NEW n \in 1 .. Len(stack), stack'[n].what = "get_proc_pid", ~stack'[n].done
               PROVE  ~stack[n].done
    BY <1>10, <1>11 DEF AskInv, TInv
  <2>1. n # Len(stack)
    BY <1>1, Finished DEF TInv, StackInv
  <2>2. stack'[n] = stack[n]
    BY <1>1, <2>1, Finished DEF TInv, StackInv
  <2> QED BY <2>2
<1>13. FrameInv'
  BY <1>1, <1>10, <1>11 DEF TInv, FrameInv, InUser, Used
<1>14. TrapTypeOK'
  BY <1>1, <1>9, <1>11 DEF TInv, IInv, TrapTypeOK, StackInv
<1> QED BY <1>3, <1>8, <1>9, <1>10, <1>11, <1>12, <1>13, <1>14 DEF TInv, BootInv

\* first_proc_start: the pass over a full task table and an empty process
\* table gives the first task slot 0.
LEMMA FirstStartKeeps ==
  ASSUME Careful, TInv, FirstProcStart PROVE TInv'
<1>1. /\ kernel = "boot" /\ task_size = NTask /\ TaskLineSchedule /\ current_proc' = 0 /\ kernel' = "user"
      /\ Load(0, FreshFrames(regs))
      /\ ldt' = ldtr'[0] /\ sp0' = 0 /\ k_reenter' = -1
      /\ UNCHANGED <<stack, imr, asked>>
  BY DEF FirstProcStart, StartKernel
<1>2. IInv'
  BY NextIInv DEF TInv, Careful, Next, FirstProcStart
<1>3. /\ stack = <<>> /\ imr = {} /\ (\A p \in Proc : take_up[p] = 0 /\ ~Used(p))
      /\ \A t \in Task : t < task_size => tstatus[t] = TASK_WAITING
  BY <1>1 DEF TInv, StackInv, BootInv
<1>4. 0 \in Proc /\ 0 \in Empty
  BY <1>3, NProcAssumption DEF Proc, Empty
<1>5. \E t \in Task : t \in Startable
  <2>1. \A t \in Task : t < task_size
    BY <1>1, TasksAssumption DEF Task
  <2> QED BY <1>3, <2>1, TrapAssumption DEF Startable
<1>6. take_up'[0] = 1
  <2>1. PICK S \in SUBSET Startable : \E f \in [S -> Empty] : Pass(S, f)
    BY <1>1 DEF TaskLineSchedule, Pass
  <2>2. PICK f \in [S -> Empty] : Pass(S, f)
    BY <2>1
  <2>3. Started(S, f)
    BY <2>2, PassFacts DEF TInv
  <2>4. PICK t \in S : TRUE
    BY <1>4, <1>5, <2>2 DEF Pass, Placement
  <2>5. \E u \in S : f[u] = 0
    <3>1. f[t] \in Proc /\ f[t] \in Nat
      BY DEF Empty, Proc
    <3>2. CASE f[t] = 0
      BY <3>2
    <3>3. CASE 0 < f[t]
      BY <1>4, <2>2, <3>3 DEF Pass, Placement
    <3> QED BY <3>1, <3>2, <3>3
  <2> QED BY <2>3, <2>5 DEF Started
<1>7. Used(0)'
  BY <1>2, <1>4, <1>6 DEF IInv, InUse
<1>8. ASSUME NEW p \in Proc, Used(p)' PROVE FreshFrames(regs)[p] = ptid'[p]
  <2>1. take_up[p] = 0 /\ take_up'[p] = 1
    BY <1>1, <1>3, <1>8, PassFrames DEF TInv
  <2> QED BY <2>1 DEF FreshFrames
<1>9. /\ cpu' = ptid'[0] /\ regs' = [FreshFrames(regs) EXCEPT ![0] = NULL]
  BY <1>1, <1>4, <1>7, <1>8 DEF Load
<1>10. FrameInv'
  <2>1. Used(current_proc)'
    BY <1>1, <1>7
  <2>2. ASSUME NEW p \in Proc, Used(p)', p # 0 PROVE regs'[p] = ptid'[p]
    BY <1>8, <1>9, <2>2 DEF FreshFrames
  <2>3. cpu' = ptid'[current_proc'] /\ sp0' = current_proc' /\ ldt' = ldtr'[current_proc']
    BY <1>1, <1>9
  <2>4. (InUser <=> TRUE)'
    BY <1>1, <1>3 DEF InUser
  <2> QED BY <1>1, <2>1, <2>2, <2>3, <2>4 DEF FrameInv
<1>11. TrapTypeOK'
  <2>1. TypeOK' /\ ptid' \in [Proc -> Task] /\ ldtr' \in [Proc -> 0 .. GDT_LENGTH - 1]
    BY <1>2 DEF IInv, TypeOK
  <2>2. FreshFrames(regs) \in [Proc -> Task \cup {NULL}]
    BY <2>1 DEF FreshFrames, TInv, TrapTypeOK
  <2> QED BY <1>1, <1>4, <1>9, <2>1, <2>2 DEF TInv, TrapTypeOK
<1>12. stack' = <<>> /\ Len(stack') = 0 /\ \A n : n \notin 1 .. Len(stack')
  BY <1>1, <1>3, EmptySeq
<1>13. StackInv' /\ AskInv'
  BY <1>1, <1>3, <1>11, <1>12 DEF StackInv, NestingCounted, AskInv, TrapTypeOK
<1>14. BootInv'
  BY <1>1 DEF BootInv
<1> QED BY <1>2, <1>10, <1>11, <1>13, <1>14 DEF TInv

\* add_new_task, before anything runs.
LEMMA AddKeeps ==
  ASSUME TInv, AddNewTask, UNCHANGED trapVars PROVE TInv'
<1>1. /\ kernel = "boot" /\ task_size < NTask
      /\ tstatus' = [tstatus EXCEPT ![task_size] = TASK_WAITING]
      /\ task_size' = task_size + 1
      /\ UNCHANGED <<schedVars, pcbVars, shellVars>>
      /\ UNCHANGED <<regs, cpu, ldt, sp0, stack, k_reenter, imr, asked>>
  BY DEF AddNewTask, trapVars, cpuVars
<1>2. IInv'
  BY AddNewTaskKeeps DEF TInv
<1>3. stack = <<>> /\ \A n : n \notin 1 .. Len(stack)
  BY <1>1, EmptySeq DEF TInv, StackInv
<1>4. TrapTypeOK'
  BY <1>1, <1>2 DEF IInv, TInv, TrapTypeOK
<1>5. StackInv' /\ AskInv' /\ FrameInv'
  BY <1>1, <1>3 DEF TInv, StackInv, NestingCounted, AskInv, FrameInv, InUser, Used, schedVars, pcbVars, shellVars
<1>6. BootInv'
  <2>1. ASSUME NEW t \in Task, t < task_size + 1 PROVE tstatus'[t] = TASK_WAITING
    <3>1. tstatus \in [Task -> {TASK_STOP, TASK_RUNNING, TASK_WAITING}] /\ task_size \in Nat /\ t \in Nat
      BY DEF TInv, IInv, TypeOK, Task
    <3>2. CASE t = task_size
      BY <1>1, <3>1, <3>2
    <3>3. CASE t < task_size
      BY <1>1, <3>1, <3>3 DEF TInv, BootInv
    <3> QED BY <2>1, <3>1, <3>2, <3>3
  <2> QED BY <1>1, <2>1 DEF TInv, BootInv, Used, schedVars, pcbVars
<1> QED BY <1>2, <1>4, <1>5, <1>6 DEF TInv

\* A step that changes nothing.
LEMMA StutterKeeps ==
  ASSUME Careful, TInv, UNCHANGED allVars PROVE TInv'
<1>1. IInv'
  BY TasksUnchanged DEF TInv, Careful, allVars
<1> USE DEF allVars, trapVars, cpuVars, vars, schedVars, pcbVars, shellVars, taskVars
<1>2. TrapTypeOK'
  BY <1>1 DEF IInv, TInv, TrapTypeOK
<1> QED BY <1>1, <1>2 DEF TInv, StackInv, NestingCounted, AskInv, FrameInv, InUser, BootInv, Used

\* Whatever enters the kernel, by name.
LEMMA EntriesKeep ==
  ASSUME Careful, TInv,
         (\E i \in Line : Interrupt(i)) \/ (\E p \in KillPids : KillCalled(p)) \/ PidAsked
  PROVE  TInv' /\ UNCHANGED vars
<1>1. /\ kernel # "boot" => imr = {stack[n].what : n \in 1 .. Len(stack)} \cap {"clock", "keyboard"}
      /\ stack # <<>> => kernel # "boot"
      /\ InUser => kernel # "boot" /\ stack = <<>>
      /\ asked \in BOOLEAN /\ 0 \in Proc
  BY NProcAssumption DEF TInv, StackInv, NestingCounted, InUser, TrapTypeOK, Proc
<1>2. ASSUME NEW i \in Line, Interrupt(i) PROVE TInv' /\ UNCHANGED vars
  <2>1. /\ (InUser \/ (stack # <<>> /\ Top.what # "disk")) /\ i \notin imr /\ (i = "clock" => MayTick)
        /\ Save(i, 0, i # "clock") /\ imr' = (IF i = "disk" THEN imr ELSE imr \cup {i})
        /\ asked' = asked /\ UNCHANGED vars
    BY <1>2 DEF Interrupt
  <2>2. imr' = imr \cup ({i} \cap {"clock", "keyboard"})
    BY <2>1 DEF Line
  <2>3. i = "clock" => \A n \in 1 .. Len(stack) : ~(stack[n].what = "get_proc_pid" /\ ~stack[n].done)
    BY <2>1 DEF MayTick, Careful
  <2>4. i \in Kind /\ i # "kill" /\ i # "get_proc_pid" /\ (i # "clock") \in BOOLEAN
    BY DEF Line, Kind
  <2>5. kernel # "boot" /\ i \notin imr /\ (stack = <<>> \/ (Top.what # "disk" /\ i \in Line)) /\ asked' \in BOOLEAN
    BY <1>1, <1>2, <2>1 DEF Interrupt
  <2>6. UNCHANGED vars /\ Save(i, 0, i # "clock")
    BY <2>1
  <2> QED BY <1>1, <2>2, <2>3, <2>4, <2>5, <2>6, SaveKeeps
<1>3. ASSUME NEW p \in KillPids, KillCalled(p) PROVE TInv' /\ UNCHANGED vars
  <2>1. /\ InUser /\ Save("kill", p, FALSE) /\ imr' = imr /\ asked' = asked /\ UNCHANGED vars
    BY <1>3 DEF KillCalled
  <2>2. p \in Proc /\ "kill" \in Kind /\ imr' = imr \cup ({"kill"} \cap {"clock", "keyboard"}) /\ "kill" \notin imr
    BY <1>1, <2>1, TasksAssumption DEF Kind
  <2>3. kernel # "boot" /\ stack = <<>> /\ asked' \in BOOLEAN
    BY <1>1, <2>1
  <2> QED BY <2>1, <2>2, <2>3, SaveKeeps
<1>4. ASSUME PidAsked PROVE TInv' /\ UNCHANGED vars
  <2>1. /\ InUser /\ Name[cpu] = "MM" /\ Save("get_proc_pid", 0, FALSE) /\ imr' = imr /\ asked' = TRUE
        /\ UNCHANGED vars
    BY <1>4 DEF PidAsked
  <2>2. "get_proc_pid" \in Kind /\ imr' = imr \cup ({"get_proc_pid"} \cap {"clock", "keyboard"})
        /\ "get_proc_pid" \notin imr
    BY <1>1, <2>1 DEF Kind
  <2>3. kernel # "boot" /\ stack = <<>> /\ asked' \in BOOLEAN
    BY <1>1, <2>1
  <2> QED BY <1>1, <2>1, <2>2, <2>3, SaveKeeps
<1> QED BY <1>2, <1>3, <1>4

\* At the start nothing runs.
LEMMA TrapInitInv == TrapInit => TInv
<1> SUFFICES ASSUME TrapInit PROVE TInv
  OBVIOUS
<1>1. IInv
  BY InitIInv DEF TrapInit
<1>2. /\ kernel = "boot" /\ task_size = 0 /\ (\A p \in Proc : take_up[p] = 0 /\ ldtr[p] = 0)
      /\ regs = [p \in Proc |-> NULL] /\ cpu = NULL /\ ldt = NULL /\ sp0 = NULL
      /\ stack = <<>> /\ k_reenter = 0 /\ imr = {} /\ asked = FALSE
  BY DEF TrapInit, Init
<1>3. stack \in Seq(Activity) /\ \A n : n \notin 1 .. Len(stack)
  BY <1>2, EmptySeq
<1>4. TrapTypeOK
  <2>1. TypeOK /\ stack \in Seq(Activity)
    BY <1>1, <1>3 DEF IInv
  <2>2. /\ regs \in [Proc -> Task \cup {NULL}] /\ cpu \in Task \cup {NULL}
        /\ ldt \in 0 .. GDT_LENGTH - 1 \cup {NULL} /\ sp0 \in Proc \cup {NULL}
        /\ k_reenter \in Int /\ imr \subseteq Line /\ asked \in BOOLEAN
    <3>1. regs \in [Proc -> Task \cup {NULL}]
      BY <1>2
    <3>2. cpu \in Task \cup {NULL} /\ ldt \in 0 .. GDT_LENGTH - 1 \cup {NULL} /\ sp0 \in Proc \cup {NULL}
      BY <1>2
    <3>3. k_reenter \in Int /\ imr \subseteq Line
      BY <1>2
    <3>4. asked \in BOOLEAN
      BY <1>2
    <3> QED BY <3>1, <3>2, <3>3, <3>4
  <2> QED BY <2>1, <2>2 DEF TrapTypeOK
<1>5. StackInv /\ AskInv
  BY <1>2, <1>3 DEF StackInv, NestingCounted, AskInv
<1>6. FrameInv /\ BootInv
  BY <1>2 DEF FrameInv, BootInv, InUser, Used, Task
<1> QED BY <1>1, <1>4, <1>5, <1>6 DEF TInv

\* Every step preserves the invariant and is a step of Tasks, or none.
LEMMA TrapStep ==
  ASSUME Careful, TInv, [TrapNext]_allVars PROVE TInv' /\ [Next]_vars
<1>1. CASE AddNewTask /\ UNCHANGED trapVars
  BY <1>1, AddKeeps DEF Next
<1>2. CASE FirstProcStart
  BY <1>2, FirstStartKeeps DEF Next, FirstProcStart
<1>3. CASE (\E i \in Line : Interrupt(i)) \/ (\E p \in KillPids : KillCalled(p)) \/ PidAsked
  BY <1>3, EntriesKeep
<1>4. CASE ClockHandlerRuns
  BY <1>4, ClockKeeps DEF Next, ClockHandlerRuns
<1>5. CASE KillRuns
  BY <1>5, KillKeeps
<1>6. CASE PidAnswered
  BY <1>6, AnswerKeeps
<1>7. CASE Leave
  BY <1>7, LeaveKeeps DEF Leave
<1>8. CASE UNCHANGED allVars
  BY <1>8, StutterKeeps DEF allVars
<1> QED BY <1>1, <1>2, <1>3, <1>4, <1>5, <1>6, <1>7, <1>8 DEF TrapNext

\* Careful speaks of constants only.
LEMMA CarefulStays == Careful => []Careful
<1>1. Careful => Careful'
  BY DEF Careful, Gentle
<1> QED BY <1>1, PTL

\* The invariant of save, restart and what runs between them.
THEOREM TrapInvariance == Careful /\ TrapSpec => []TInv
<1>1. Careful /\ TInv /\ [TrapNext]_allVars => TInv'
  BY TrapStep
<1> QED BY <1>1, CarefulStays, TrapInitInv, PTL DEF TrapSpec

--------------------------------------------------------------------------------
(* Theorems                                                                *)

\* Types: no frame, selector or pid leaves its table.
THEOREM TrapTypeCorrect == Careful /\ TrapSpec => []TrapTypeOK
<1>1. TInv => TrapTypeOK
  BY DEF TInv
<1> QED BY <1>1, TrapInvariance, PTL

\* save and the stubs: the depth of nesting and the stack agree.
THEOREM NestingIsCounted == Careful /\ TrapSpec => []NestingCounted
<1>1. TInv => NestingCounted
  BY DEF TInv, StackInv
<1> QED BY <1>1, TrapInvariance, PTL

\* restart: the process that goes on is current_proc, with its own registers,
\* LDT and frame.
THEOREM ContextIsKept == Careful /\ TrapSpec => []ContextKept
<1>1. TInv => ContextKept
  <2> SUFFICES ASSUME TInv, kernel # "boot" PROVE ContextKept
    BY DEF ContextKept
  <2>1. current_proc \in Proc /\ gdt[ldtr[current_proc]] = current_proc
    BY DEF TInv, FrameInv, IInv, Descriptors, TypeOK, SchedTypeOK
  <2>2. \A p \in Proc : take_up[p] = 1 => Used(p)
    BY DEF TInv, IInv, InUse
  <2> QED BY <2>1, <2>2 DEF ContextKept, TInv, FrameInv
<1> QED BY <1>1, TrapInvariance, PTL

\* The stubs, the handlers and get_proc_pid do what Tasks says of the kernel
\* as a whole, so its theorems hold of every interleaving of them.
THEOREM TrapImplementsTasks == Careful /\ TrapSpec => ImplementsTasks
<1>1. Careful /\ TInv /\ [TrapNext]_allVars => [Next]_vars
  BY TrapStep
<1>2. TrapInit => Init
  BY DEF TrapInit
<1> QED BY <1>1, <1>2, CarefulStays, TrapInvariance, PTL DEF TrapSpec, Spec, ImplementsTasks

\* task_line_schedule and sys_kill, with the traps around them: a running task
\* and its process know each other, and the servers are known.
THEOREM TrapKeepsTasks == Careful /\ TrapSpec => [](Mapping /\ OwnLdt /\ ServersKnown)
<1>1. Careful => Gentle
  BY DEF Careful
<1> QED
  BY <1>1, TrapImplementsTasks, LinksBothWays, OwnDescriptors, ServersStayKnown, PTL DEF ImplementsTasks

================================================================================
