------------------------------ MODULE TasksProofs ------------------------------
(***************************************************************************)
(* The invariants of Tasks, for every number of tasks and slots: the links *)
(* between tasks and processes, the selector each process is resumed with, *)
(* and the pids under which the servers are known.                         *)
(***************************************************************************)
EXTENDS Tasks, FiniteSetTheorems, TLAPS

\* Tasks that have not had a descriptor yet.
Pending == {t \in Task : t >= task_size \/ tstatus[t] = TASK_WAITING}

\* A task that runs knows its slot, and the slot knows the task.
TaskLinks ==
  \A t \in Task : tstatus[t] = TASK_RUNNING =>
    /\ t < task_size
    /\ tpid[t] \in Proc /\ Used(tpid[t]) /\ ptid[tpid[t]] = t

\* A slot that has had a process names the last task it had; that task runs
\* only as long as the slot is in use or a kill is about to stop it.
SlotLinks ==
  \A p \in Proc : Used(p) =>
    /\ tpid[ptid[p]] = p /\ ptid[p] < task_size
    /\ tstatus[ptid[p]] \in {TASK_RUNNING, TASK_STOP}
    /\ tstatus[ptid[p]] = TASK_RUNNING => (take_up[p] = 1 \/ (kernel = "kill" /\ kill_pid = p))

\* A slot in use has had a process, and its task runs.
InUse == \A p \in Proc : take_up[p] = 1 => Used(p) /\ tstatus[ptid[p]] = TASK_RUNNING

\* A kill under way is that of a slot that has had a process and is free.
KillOpen == kernel = "kill" => Used(kill_pid) /\ take_up[kill_pid] = 0

\* Each slot's selector describes its LDT, and there are entries left for
\* the tasks that wait.
Descriptors ==
  /\ \A p \in Proc : Used(p) => gdt[ldtr[p]] = p /\ ldtr[p] >= FIRST_LDT /\ ldtr[p] < gdt_idx
  /\ gdt_idx >= FIRST_LDT /\ gdt_idx + Cardinality(Pending) <= FIRST_LDT + NTask

\* The pid recorded for a server is that of its process, even when that has
\* ended.
ServersRecorded ==
  \A t \in Task : (/\ Name[t] \in Server /\ Level[t] = SYS_TASK
                   /\ t < task_size /\ tstatus[t] # TASK_WAITING)
    => server_pid[Name[t]] = tpid[t]

\* The inductive invariant.
IInv == TypeOK /\ TaskLinks /\ SlotLinks /\ InUse /\ KillOpen /\ Descriptors /\ ServersRecorded

--------------------------------------------------------------------------------
(* What one pass over the task table does.                                 *)

\* Sets of tasks are finite.
LEMMA FiniteTasks ==
  ASSUME NEW S \in SUBSET Task PROVE IsFiniteSet(S) /\ Cardinality(S) \in Nat
<1>1. IsFiniteSet(Task)
  BY TasksAssumption, FS_Interval DEF Task
<1>2. IsFiniteSet(S)
  BY <1>1, FS_Subset
<1> QED BY <1>2, FS_CardinalityType

\* new_ldt_descriptor: the tasks started get consecutive entries of the GDT,
\* in the order of their numbers.
LEMMA EntryFacts ==
  ASSUME NEW S \in SUBSET Task, gdt_idx \in Nat
  PROVE  /\ \A t \in S : Entry(S, t) \in gdt_idx .. gdt_idx + Cardinality(S) - 1
         /\ \A t, u \in S : t < u => Entry(S, t) < Entry(S, u)
<1> DEFINE Before(t) == {u \in S : u < t}
<1>1. ASSUME NEW t \in S
      PROVE  Cardinality(Before(t)) \in Nat /\ Cardinality(Before(t)) < Cardinality(S)
  <2>1. Before(t) \in SUBSET S /\ Before(t) # S /\ Before(t) \in SUBSET Task
    <3>1. t \in Int
      BY DEF Task
    <3>2. t \notin Before(t)
      BY <3>1
    <3> QED BY <3>2
  <2>2. IsFiniteSet(S) /\ Cardinality(S) \in Nat /\ Cardinality(Before(t)) \in Nat
    BY <2>1, FiniteTasks
  <2>3. Cardinality(Before(t)) <= Cardinality(S) /\ Cardinality(Before(t)) # Cardinality(S)
    BY <2>1, <2>2, FS_Subset
  <2> QED BY <2>2, <2>3
<1>2. ASSUME NEW t \in S, NEW u \in S, t < u
      PROVE  Cardinality(Before(t)) < Cardinality(Before(u))
  <2>1. t \in Int /\ u \in Int /\ \A v \in S : v \in Int
    BY DEF Task
  <2>2. Before(t) \in SUBSET Before(u) /\ t \in Before(u) /\ t \notin Before(t)
    <3>1. ASSUME NEW v \in S, v < t PROVE v < u
      BY <1>2, <2>1, <3>1
    <3>2. Before(t) \in SUBSET Before(u)
      BY <3>1
    <3>3. t \in Before(u)
      BY <1>2
    <3>4. t \notin Before(t)
      BY <2>1
    <3> QED BY <3>2, <3>3, <3>4
  <2>3. Before(u) \in SUBSET Task
    OBVIOUS
  <2>4. IsFiniteSet(Before(u)) /\ Cardinality(Before(u)) \in Nat
    BY <2>3, FiniteTasks
  <2>5. Cardinality(Before(t)) <= Cardinality(Before(u)) /\ Cardinality(Before(t)) # Cardinality(Before(u))
    BY <2>2, <2>4, FS_Subset
  <2>6. Cardinality(Before(t)) \in Nat
    BY <1>1
  <2> QED BY <2>4, <2>5, <2>6
<1>3. \A t : Entry(S, t) = gdt_idx + Cardinality(Before(t))
  BY DEF Entry
<1>4. Cardinality(S) \in Nat
  BY FiniteTasks
<1> HIDE DEF Before
<1>5. \A t \in S : Entry(S, t) \in gdt_idx .. gdt_idx + Cardinality(S) - 1
  BY <1>1, <1>3, <1>4
<1>6. \A t, u \in S : t < u => Entry(S, t) < Entry(S, u)
  BY <1>1, <1>2, <1>3
<1> QED BY <1>5, <1>6

\* task_line_schedule gives each task a slot of its own, a free one.
LEMMA PlacementFacts ==
  ASSUME NEW S \in SUBSET Startable, NEW f \in [S -> Empty], Placement(S, f)
  PROVE  /\ \A t \in S : f[t] \in Proc /\ take_up[f[t]] = 0 /\ Holder(S, f, f[t]) = t
         /\ \A p : (\E t \in S : f[t] = p) => Holder(S, f, p) \in S /\ f[Holder(S, f, p)] = p
<1>1. ASSUME NEW t \in S, NEW u \in S, f[t] = f[u] PROVE t = u
  <2>1. t \in Task /\ u \in Task /\ f[t] \in Proc /\ f[u] \in Proc
    BY DEF Startable, Empty
  <2>2. t \in Int /\ u \in Int /\ f[t] \in Int /\ f[u] \in Int
    BY <2>1 DEF Task, Proc
  <2>3. (u < t => f[u] < f[t]) /\ (t < u => f[t] < f[u])
    BY DEF Placement
  <2> QED BY <1>1, <2>2, <2>3
<1>2. ASSUME NEW p, \E t \in S : f[t] = p
      PROVE  Holder(S, f, p) \in S /\ f[Holder(S, f, p)] = p
  BY <1>2 DEF Holder
<1>3. ASSUME NEW t \in S PROVE f[t] \in Proc /\ take_up[f[t]] = 0
  BY DEF Empty
<1>4. ASSUME NEW t \in S PROVE Holder(S, f, f[t]) = t
  BY <1>1, <1>2
<1> QED BY <1>2, <1>3, <1>4

\* The pass of task_line_schedule that starts the tasks in S in the slots f.
Pass(S, f) ==
  /\ Placement(S, f)
  /\ ClearPCBs({f[t] : t \in S})
  /\ NewDescriptors(S, f)
  /\ tstatus' = [t \in Task |-> IF t \in S THEN TASK_RUNNING ELSE tstatus[t]]
  /\ tpid' = [t \in Task |-> IF t \in S THEN f[t] ELSE IF t \in Startable THEN -1 ELSE tpid[t]]
  /\ ptid' = [p \in Proc |-> IF \E t \in S : f[t] = p THEN Holder(S, f, p) ELSE ptid[p]]
  /\ RecordServers(tpid')
  /\ UNCHANGED task_size

\* Everything a pass of task_line_schedule changes, and what it leaves alone.
Started(S, f) ==
  /\ \A t \in S : /\ tstatus'[t] = TASK_RUNNING /\ tpid'[t] = f[t]
                  /\ f[t] \in Proc /\ take_up[f[t]] = 0 /\ take_up'[f[t]] = 1
                  /\ ptid'[f[t]] = t /\ ldtr'[f[t]] = Entry(S, t)
                  /\ gdt'[Entry(S, t)] = f[t]
  /\ \A t \in Task \ S : /\ tstatus'[t] = tstatus[t]
                         /\ tstatus[t] # TASK_WAITING => tpid'[t] = tpid[t]
  /\ \A p \in Proc : (\A t \in S : f[t] # p) =>
       take_up'[p] = take_up[p] /\ ptid'[p] = ptid[p] /\ ldtr'[p] = ldtr[p]
  /\ \A e \in 0 .. gdt_idx - 1 : e < GDT_LENGTH => gdt'[e] = gdt[e]
  /\ gdt_idx' = gdt_idx + Cardinality(S)
  /\ Cardinality(S) \in Nat /\ gdt_idx' <= FIRST_LDT + NTask
  /\ \A t \in S : Entry(S, t) \in gdt_idx .. gdt_idx' - 1
  /\ task_size' = task_size

\* The tasks a pass starts have been waiting for their descriptors.
LEMMA PassFacts ==
  ASSUME IInv, NEW S \in SUBSET Startable, NEW f \in [S -> Empty], Pass(S, f)
  PROVE  Started(S, f)
<1> USE DEF Pass
<1>1. S \in SUBSET Task /\ S \subseteq Pending /\ Pending \in SUBSET Task
  BY DEF Startable, Pending
<1>2. gdt_idx \in 0 .. 255 /\ gdt_idx \in Nat
  BY DEF IInv, TypeOK
<1>3. Cardinality(S) \in Nat /\ Cardinality(Pending) \in Nat /\ Cardinality(S) <= Cardinality(Pending)
  BY <1>1, FiniteTasks, FS_Subset
<1>4. gdt_idx' = gdt_idx + Cardinality(S) /\ gdt_idx' <= FIRST_LDT + NTask
  <2>1. gdt_idx' = (gdt_idx + Cardinality(S)) % 256
    BY DEF NewDescriptors
  <2>2. gdt_idx + Cardinality(Pending) <= FIRST_LDT + NTask /\ FIRST_LDT + NTask <= 255
    BY TasksAssumption DEF IInv, Descriptors, FIRST_LDT
  <2>3. FIRST_LDT \in Int /\ NTask \in Int
    BY TasksAssumption DEF FIRST_LDT
  <2>4. gdt_idx + Cardinality(S) \in 0 .. 255 /\ gdt_idx + Cardinality(S) <= FIRST_LDT + NTask
    <3> DEFINE n == Cardinality(S)
               m == Cardinality(Pending)
               k == FIRST_LDT + NTask
    <3>1. n \in Nat /\ m \in Nat /\ n <= m /\ k \in Int /\ gdt_idx + m <= k /\ k <= 255
      BY <1>3, <2>2, <2>3
    <3> HIDE DEF n, m, k
    <3>2. gdt_idx + n \in 0 .. 255 /\ gdt_idx + n <= k
      BY <1>2, <3>1
    <3> QED BY <3>2 DEF n, k
  <2> QED BY <2>1, <2>4
<1>E. /\ \A t \in S : Entry(S, t) \in gdt_idx .. gdt_idx + Cardinality(S) - 1
      /\ \A t, u \in S : t < u => Entry(S, t) < Entry(S, u)
  <2>1. S \in SUBSET Task /\ gdt_idx \in Nat
    BY <1>1, <1>2
  <2> QED BY ONLY <2>1, EntryFacts
<1>5. \A t \in S : Entry(S, t) \in gdt_idx .. gdt_idx' - 1
  <2>1. \A t \in S : Entry(S, t) \in gdt_idx .. gdt_idx + Cardinality(S) - 1
    BY <1>E
  <2>2. gdt_idx' - 1 = gdt_idx + Cardinality(S) - 1
    BY <1>2, <1>3, <1>4
  <2> QED BY <2>1, <2>2
<1>6. \A t, u \in S : Entry(S, t) = Entry(S, u) => t = u
  <2>1. \A t, u \in S : t < u => Entry(S, t) < Entry(S, u)
    BY <1>E
  <2> TAKE t, u \in S
  <2>2. t \in Int /\ u \in Int /\ Entry(S, t) \in Int /\ Entry(S, u) \in Int
    BY <1>1, <1>2, <1>3, <1>4, <1>5 DEF Task
  <2> QED BY <2>1, <2>2
<1>7. /\ \A t \in S : f[t] \in Proc /\ take_up[f[t]] = 0 /\ Holder(S, f, f[t]) = t
      /\ \A p : (\E t \in S : f[t] = p) => Holder(S, f, p) \in S /\ f[Holder(S, f, p)] = p
  BY PlacementFacts
<1>8. \A t \in S : take_up'[f[t]] = 1
  BY <1>7 DEF ClearPCBs
<1>9. \A t \in S : ptid'[f[t]] = t /\ ldtr'[f[t]] = Entry(S, t)
  BY <1>7 DEF NewDescriptors, FillDescriptors
<1>10. \A t \in S : gdt'[Entry(S, t)] = f[t]
  <2> TAKE t \in S
  <2>1. Entry(S, t) \in 0 .. GDT_LENGTH - 1
    <3>1. FIRST_LDT + NTask <= GDT_LENGTH /\ FIRST_LDT + NTask \in Nat /\ GDT_LENGTH \in Nat
      BY TasksAssumption DEF FIRST_LDT
    <3>2. Entry(S, t) \in gdt_idx .. gdt_idx' - 1 /\ gdt_idx' \in Nat
      BY <1>2, <1>3, <1>4, <1>5
    <3> QED BY <1>2, <1>4, <3>1, <3>2
  <2>2. (CHOOSE u \in S : Entry(S, u) = Entry(S, t)) = t
    BY <1>6
  <2>3. gdt'[Entry(S, t)] = f[CHOOSE u \in S : Entry(S, u) = Entry(S, t)]
    BY <2>1 DEF NewDescriptors, FillDescriptors
  <2> QED BY <2>2, <2>3
<1>11. \A e \in 0 .. gdt_idx - 1 : e < GDT_LENGTH => gdt'[e] = gdt[e]
  <2> TAKE e \in 0 .. gdt_idx - 1
  <2> HAVE e < GDT_LENGTH
  <2>1. e \in 0 .. GDT_LENGTH - 1
    BY <1>2, TasksAssumption
  <2>2. ~ \E t \in S : Entry(S, t) = e
    BY <1>2, <1>3, <1>4, <1>5
  <2> QED BY <2>1, <2>2 DEF NewDescriptors, FillDescriptors
<1>12. \A t \in S : tstatus'[t] = TASK_RUNNING /\ tpid'[t] = f[t]
  BY <1>1
<1>13. \A t \in Task \ S : tstatus'[t] = tstatus[t] /\ (tstatus[t] # TASK_WAITING => tpid'[t] = tpid[t])
  BY DEF Startable
<1>14. \A p \in Proc : (\A t \in S : f[t] # p) =>
         take_up'[p] = take_up[p] /\ ptid'[p] = ptid[p] /\ ldtr'[p] = ldtr[p]
  BY DEF ClearPCBs, NewDescriptors, FillDescriptors
<1> QED
  BY <1>3, <1>4, <1>5, <1>7, <1>8, <1>9, <1>10, <1>11, <1>12, <1>13, <1>14 DEF Started

\* A pass over the task table keeps tasks, slots and descriptors linked.
LEMMA PassKeepsLinks ==
  ASSUME IInv, NEW S \in SUBSET Startable, NEW f, Started(S, f),
         kernel = "kill" => S = {}, kill_pid' = kill_pid, (kernel' = "kill") <=> (kernel = "kill")
  PROVE  TaskLinks' /\ SlotLinks' /\ InUse' /\ KillOpen' /\ Descriptors'
<1> USE DEF TASK_RUNNING, TASK_WAITING, TASK_STOP
<1>1. /\ gdt_idx \in Nat /\ take_up \in [Proc -> 0 .. 1] /\ ptid \in [Proc -> Task]
      /\ ldtr \in [Proc -> 0 .. GDT_LENGTH - 1]
      /\ gdt_idx >= FIRST_LDT /\ FIRST_LDT = 5
  BY DEF IInv, TypeOK, SchedTypeOK, Descriptors, FIRST_LDT
<1>2. \A t \in S : t \in Task /\ t < task_size /\ tstatus[t] = TASK_WAITING
  BY DEF Startable
<1>3. /\ Cardinality(S) \in Nat /\ gdt_idx' = gdt_idx + Cardinality(S)
      /\ gdt_idx' <= FIRST_LDT + NTask /\ task_size' = task_size
  BY DEF Started
<1>4. ASSUME NEW t \in S
      PROVE  /\ f[t] \in Proc /\ take_up'[f[t]] = 1 /\ take_up[f[t]] = 0
             /\ ptid'[f[t]] = t /\ tpid'[t] = f[t] /\ tstatus'[t] = TASK_RUNNING
             /\ ldtr'[f[t]] >= gdt_idx /\ ldtr'[f[t]] < gdt_idx' /\ ldtr'[f[t]] # 0
             /\ gdt'[ldtr'[f[t]]] = f[t]
  <2>1. Entry(S, t) \in gdt_idx .. gdt_idx' - 1 /\ ldtr'[f[t]] = Entry(S, t) /\ gdt'[Entry(S, t)] = f[t]
    BY DEF Started
  <2>2. ldtr'[f[t]] >= gdt_idx /\ ldtr'[f[t]] < gdt_idx' /\ ldtr'[f[t]] # 0
    BY <1>1, <1>3, <2>1
  <2> QED BY <2>1, <2>2 DEF Started
<1>5. ASSUME NEW t \in Task, t \notin S
      PROVE  tstatus'[t] = tstatus[t] /\ (tstatus[t] # TASK_WAITING => tpid'[t] = tpid[t])
  BY <1>5 DEF Started
<1>6. ASSUME NEW p \in Proc, \A t \in S : f[t] # p
      PROVE  take_up'[p] = take_up[p] /\ ptid'[p] = ptid[p] /\ ldtr'[p] = ldtr[p]
  BY <1>6 DEF Started
\* A slot whose task runs on is not one that the pass fills.
<1>7. ASSUME NEW t \in Task, tstatus[t] = TASK_RUNNING, NEW u \in S
      PROVE  f[u] # tpid[t]
  <2> SUFFICES ASSUME f[u] = tpid[t] PROVE FALSE
    OBVIOUS
  <2>1. Used(f[u]) /\ ptid[f[u]] = t
    BY <1>7 DEF IInv, TaskLinks
  <2>2. take_up[f[u]] = 0 /\ f[u] \in Proc
    BY <1>4
  <2>3. take_up[f[u]] = 1 \/ kernel = "kill"
    BY <1>7, <2>1, <2>2 DEF IInv, SlotLinks
  <2> QED BY <2>2, <2>3
<1>8. TaskLinks'
  <2> SUFFICES ASSUME NEW t \in Task, tstatus'[t] = TASK_RUNNING
               PROVE  t < task_size' /\ tpid'[t] \in Proc /\ ldtr'[tpid'[t]] # 0 /\ ptid'[tpid'[t]] = t
    BY DEF TaskLinks, Used
  <2>1. CASE t \in S
    BY <1>2, <1>3, <1>4, <2>1
  <2>2. CASE t \notin S
    <3>1. tstatus[t] = TASK_RUNNING /\ tpid'[t] = tpid[t]
      BY <1>5, <2>2
    <3>2. t < task_size /\ tpid[t] \in Proc /\ Used(tpid[t]) /\ ptid[tpid[t]] = t
      BY <3>1 DEF IInv, TaskLinks
    <3>3. ptid'[tpid[t]] = ptid[tpid[t]] /\ ldtr'[tpid[t]] = ldtr[tpid[t]]
      BY <1>6, <1>7, <3>1, <3>2
    <3> QED BY <1>3, <3>1, <3>2, <3>3 DEF Used
  <2> QED BY <2>1, <2>2
<1>9. SlotLinks' /\ InUse'
  <2> SUFFICES ASSUME NEW p \in Proc
               PROVE  /\ ldtr'[p] # 0 =>
                           /\ tpid'[ptid'[p]] = p /\ ptid'[p] < task_size'
                           /\ tstatus'[ptid'[p]] \in {TASK_RUNNING, TASK_STOP}
                           /\ tstatus'[ptid'[p]] = TASK_RUNNING =>
                                (take_up'[p] = 1 \/ (kernel' = "kill" /\ kill_pid' = p))
                      /\ take_up'[p] = 1 => ldtr'[p] # 0 /\ tstatus'[ptid'[p]] = TASK_RUNNING
    BY DEF SlotLinks, InUse, Used
  <2>1. CASE \E t \in S : f[t] = p
    BY <1>2, <1>3, <1>4, <2>1
  <2>2. CASE \A t \in S : f[t] # p
    <3>1. take_up'[p] = take_up[p] /\ ptid'[p] = ptid[p] /\ ldtr'[p] = ldtr[p]
      BY <1>6, <2>2
    <3>2. take_up[p] = 1 => Used(p) /\ tstatus[ptid[p]] = TASK_RUNNING
      BY DEF IInv, InUse
    <3>3. Used(p) => /\ tpid[ptid[p]] = p /\ ptid[p] < task_size
                     /\ tstatus[ptid[p]] \in {TASK_RUNNING, TASK_STOP}
                     /\ tstatus[ptid[p]] = TASK_RUNNING =>
                          (take_up[p] = 1 \/ (kernel = "kill" /\ kill_pid = p))
      BY DEF IInv, SlotLinks
    <3>4. ptid[p] \in Task
      BY <1>1
    <3>5. Used(p) => tstatus'[ptid[p]] = tstatus[ptid[p]] /\ tpid'[ptid[p]] = tpid[ptid[p]]
      BY <1>2, <1>5, <3>3, <3>4
    <3> QED BY <1>3, <3>1, <3>2, <3>3, <3>5 DEF Used
  <2> QED BY <2>1, <2>2
<1>10. KillOpen'
  BY <1>6 DEF IInv, KillOpen, TypeOK, Used
<1>11. Descriptors'
  <2>1. ASSUME NEW p \in Proc, ldtr'[p] # 0
        PROVE  gdt'[ldtr'[p]] = p /\ ldtr'[p] >= FIRST_LDT /\ ldtr'[p] < gdt_idx'
    <3>1. CASE \E t \in S : f[t] = p
      <4>1. ldtr'[p] >= gdt_idx /\ ldtr'[p] < gdt_idx' /\ gdt'[ldtr'[p]] = p
        BY <1>4, <3>1
      <4>2. ldtr'[p] \in Int
        <5>1. PICK t \in S : f[t] = p
          BY <3>1
        <5>2. ldtr'[p] = Entry(S, t) /\ Entry(S, t) \in gdt_idx .. gdt_idx' - 1
          BY <5>1 DEF Started
        <5> QED BY <1>1, <1>3, <5>2
      <4> QED BY <1>1, <4>1, <4>2
    <3>2. CASE \A t \in S : f[t] # p
      <4>1. ldtr'[p] = ldtr[p] /\ Used(p)
        BY <1>6, <2>1, <3>2 DEF Used
      <4>2. gdt[ldtr[p]] = p /\ ldtr[p] >= FIRST_LDT /\ ldtr[p] < gdt_idx
        BY <4>1 DEF IInv, Descriptors
      <4>3. ldtr[p] \in 0 .. gdt_idx - 1 /\ ldtr[p] < GDT_LENGTH
        <5>1. ldtr[p] \in 0 .. GDT_LENGTH - 1 /\ GDT_LENGTH \in Int
          BY <1>1, TasksAssumption
        <5> QED BY <1>1, <4>2, <5>1
      <4>4. gdt'[ldtr[p]] = gdt[ldtr[p]]
        BY <4>3 DEF Started
      <4> QED BY <1>1, <1>3, <4>1, <4>2, <4>3, <4>4
    <3> QED BY <3>1, <3>2
  <2>2. Pending' = Pending \ S
    <3>1. ASSUME NEW t \in Task
          PROVE  (t >= task_size' \/ tstatus'[t] = TASK_WAITING)
                 <=> ((t >= task_size \/ tstatus[t] = TASK_WAITING) /\ t \notin S)
      <4>1. CASE t \in S
        <5>1. t \in Int /\ task_size \in Int /\ t < task_size
          BY <1>2, <4>1 DEF IInv, TypeOK, Task
        <5>2. ~(t >= task_size)
          BY <5>1
        <5> QED BY <1>3, <1>4, <4>1, <5>2
      <4>2. CASE t \notin S
        BY <1>3, <1>5, <4>2
      <4> QED BY <4>1, <4>2
    <3> QED BY <3>1 DEF Pending
  <2>3. gdt_idx' >= FIRST_LDT
    BY <1>1, <1>3
  <2>4. gdt_idx' + Cardinality(Pending') <= FIRST_LDT + NTask
    <3>1. S \subseteq Pending /\ Pending \in SUBSET Task /\ Pending \ S \in SUBSET Task
      BY <1>2 DEF Pending
    <3>2. IsFiniteSet(S) /\ IsFiniteSet(Pending \ S) /\ Cardinality(Pending \ S) \in Nat
      BY <1>2, <3>1, FiniteTasks
    <3>3. Cardinality(Pending) = Cardinality(S) + Cardinality(Pending \ S)
      <4>1. S \cup (Pending \ S) = Pending /\ S \cap (Pending \ S) = {}
        BY <3>1
      <4>2. Cardinality(S \cup (Pending \ S)) =
              Cardinality(S) + Cardinality(Pending \ S) - Cardinality(S \cap (Pending \ S))
        BY <3>2, FS_Union
      <4>3. Cardinality({}) = 0
        BY FS_EmptySet
      <4>4. Cardinality(Pending) = Cardinality(S) + Cardinality(Pending \ S) - 0
        BY <4>1, <4>2, <4>3
      <4> QED BY <1>3, <3>2, <4>4
    <3>4. gdt_idx + Cardinality(Pending) <= FIRST_LDT + NTask
      BY DEF IInv, Descriptors
    <3>5. FIRST_LDT \in Int /\ NTask \in Int
      BY <1>1, TasksAssumption
    <3> QED BY <1>1, <1>3, <2>2, <3>2, <3>3, <3>4, <3>5
  <2> QED BY <2>1, <2>3, <2>4 DEF Descriptors, Used
<1> QED BY <1>8, <1>9, <1>10, <1>11

\* A pass over the task table keeps the recorded pids of the servers right.
LEMMA PassKeepsServers ==
  ASSUME IInv, NEW S \in SUBSET Startable, NEW f, Started(S, f), RecordServers(tpid')
  PROVE  ServersRecorded'
<1> USE DEF TASK_RUNNING, TASK_WAITING, TASK_STOP
<1> SUFFICES ASSUME NEW t \in Task, Name[t] \in Server, Level[t] = SYS_TASK,
                    t < task_size, tstatus'[t] # TASK_WAITING
             PROVE  server_pid'[Name[t]] = tpid'[t]
  BY DEF ServersRecorded, Started
<1>1. \A u \in Task : Name[u] = Name[t] => u = t
  BY TasksAssumption
<1>2. Startable \subseteq Task
  BY DEF Startable
<1>3. CASE t \in S
  <2>1. t \in Startable /\ \A u \in Startable : Name[u] = Name[t] => u = t
    BY <1>1, <1>2, <1>3
  <2>2. (CHOOSE u \in Startable : Name[u] = Name[t]) = t
    BY <2>1
  <2> QED BY <2>1, <2>2 DEF RecordServers
<1>4. CASE t \notin S
  <2>1. tstatus[t] # TASK_WAITING
    BY <1>4 DEF Started
  <2>2. t \notin Startable
    BY <2>1 DEF Startable
  <2>3. tpid'[t] = tpid[t]
    BY <1>4, <2>2 DEF Started
  <2>4. server_pid'[Name[t]] = server_pid[Name[t]]
    BY <1>1, <1>2, <2>2 DEF RecordServers
  <2> QED BY <2>1, <2>3, <2>4 DEF IInv, ServersRecorded
<1> QED BY <1>3, <1>4

\* A pass over the task table keeps the types of what it writes.
LEMMA PassKeepsTypes ==
  ASSUME IInv, TaskLineSchedule
  PROVE  /\ MsgTypeOK' /\ take_up' \in [Proc -> 0 .. 1]
         /\ task_size' \in 0 .. NTask
         /\ tstatus' \in [Task -> {TASK_STOP, TASK_RUNNING, TASK_WAITING}]
         /\ tpid' \in [Task -> Proc \cup {-1}]
         /\ server_pid' \in [Server -> Proc \cup {-1}]
         /\ ptid' \in [Proc -> Task] /\ ldtr' \in [Proc -> 0 .. GDT_LENGTH - 1]
         /\ gdt' \in [0 .. GDT_LENGTH - 1 -> Proc \cup {NULL}] /\ gdt_idx' \in 0 .. 255
<1>1. PICK S \in SUBSET Startable : \E f \in [S -> Empty] : Pass(S, f)
  BY DEF TaskLineSchedule, Pass
<1>2. PICK f \in [S -> Empty] : Pass(S, f)
  BY <1>1
<1> USE DEF Pass
<1>3. S \in SUBSET Task /\ Startable \in SUBSET Task /\ \A t \in S : f[t] \in Proc
  BY DEF Startable, Empty
<1>4. Started(S, f)
  BY <1>2, PassFacts
<1>5. TypeOK
  BY DEF IInv
<1>6. MsgTypeOK' /\ take_up' \in [Proc -> 0 .. 1]
  <2>1. 0 \in Proc
    BY NProcAssumption DEF Proc
  <2>2. MsgTypeOK /\ take_up \in [Proc -> 0 .. 1]
    BY <1>5 DEF TypeOK, SchedTypeOK
  <2> QED BY <1>2, <2>1, <2>2 DEF ClearPCBs, MsgTypeOK, NO_INT, HAS_INT, WAIT_INT
<1>7. tstatus' \in [Task -> {TASK_STOP, TASK_RUNNING, TASK_WAITING}]
  BY <1>2, <1>5 DEF TypeOK
<1>8. tpid' \in [Task -> Proc \cup {-1}]
  BY <1>2, <1>3, <1>5 DEF TypeOK
<1>9. ptid' \in [Proc -> Task]
  <2>1. \A p : (\E t \in S : f[t] = p) => Holder(S, f, p) \in S
    BY <1>2, PlacementFacts
  <2> QED BY <1>2, <1>3, <1>5, <2>1 DEF TypeOK
<1>10. gdt_idx' \in 0 .. 255 /\ gdt_idx \in 0 .. 255 /\ gdt_idx' <= GDT_LENGTH /\ GDT_LENGTH \in 0 .. 255
  <2>1. Cardinality(S) \in Nat /\ gdt_idx' = gdt_idx + Cardinality(S) /\ gdt_idx' <= FIRST_LDT + NTask
    BY <1>4 DEF Started
  <2>2. FIRST_LDT + NTask <= GDT_LENGTH /\ GDT_LENGTH \in 0 .. 255 /\ FIRST_LDT \in Int /\ NTask \in Int
    BY TasksAssumption DEF FIRST_LDT
  <2>3. gdt_idx \in 0 .. 255
    BY <1>5 DEF TypeOK
  <2> DEFINE k == FIRST_LDT + NTask
             n == Cardinality(S)
  <2>4. k \in Int /\ n \in Nat /\ gdt_idx' = gdt_idx + n /\ gdt_idx' <= k /\ k <= GDT_LENGTH
    BY <2>1, <2>2
  <2> HIDE DEF k, n
  <2> QED BY <2>2, <2>3, <2>4
<1>11. ldtr' \in [Proc -> 0 .. GDT_LENGTH - 1]
  <2>1. \A t \in S : Entry(S, t) \in 0 .. GDT_LENGTH - 1
    <3>1. \A t \in S : Entry(S, t) \in gdt_idx .. gdt_idx' - 1
      BY <1>4 DEF Started
    <3> QED BY <1>10, <3>1
  <2>2. \A p : (\E t \in S : f[t] = p) => Holder(S, f, p) \in S
    BY <1>2, PlacementFacts
  <2> QED BY <1>2, <1>5, <2>1, <2>2 DEF TypeOK, NewDescriptors, FillDescriptors
<1>12. gdt' \in [0 .. GDT_LENGTH - 1 -> Proc \cup {NULL}]
  BY <1>2, <1>3, <1>5 DEF TypeOK, NewDescriptors, FillDescriptors
<1>13. server_pid' \in [Server -> Proc \cup {-1}]
  BY <1>2, <1>3, <1>5, <1>8 DEF TypeOK, RecordServers
<1>14. task_size' \in 0 .. NTask
  BY <1>2, <1>5 DEF TypeOK
<1> QED BY <1>6, <1>7, <1>8, <1>9, <1>10, <1>11, <1>12, <1>13, <1>14

\* A pass over the task table preserves the whole invariant.
LEMMA TaskLineScheduleKeeps ==
  ASSUME IInv, TaskLineSchedule, current_proc' \in Proc, proc_ptr' \in Proc,
         kernel = "kill" => Startable = {}, kernel' \in {"boot", "user", "kill"},
         UNCHANGED <<kill_pid, kills>>, (kernel' = "kill") <=> (kernel = "kill")
  PROVE  IInv'
<1>1. PICK S \in SUBSET Startable : \E f \in [S -> Empty] : Pass(S, f)
  BY DEF TaskLineSchedule, Pass
<1>2. PICK f \in [S -> Empty] : Pass(S, f)
  BY <1>1
<1>3. Started(S, f)
  BY <1>2, PassFacts
<1>4. kernel = "kill" => S = {}
  OBVIOUS
<1>5. TaskLinks' /\ SlotLinks' /\ InUse' /\ KillOpen' /\ Descriptors'
  BY <1>3, <1>4, PassKeepsLinks
<1>6. ServersRecorded'
  BY <1>2, <1>3, PassKeepsServers DEF Pass
<1>7. kill_pid' \in Proc /\ kills' \in 0 .. MaxKill
  BY DEF IInv, TypeOK
<1>8. TypeOK'
  BY <1>7, PassKeepsTypes DEF TypeOK, SchedTypeOK
<1> QED BY <1>5, <1>6, <1>8 DEF IInv

--------------------------------------------------------------------------------
(* The actions                                                             *)

\* proc_line_schedule leaves the scheduler's two pointers inside the table.
LEMMA ScheduleType ==
  ASSUME NEW blk, NEW tk, ProcLineSchedule(blk, tk)
  PROVE  current_proc' \in Proc /\ proc_ptr' \in Proc
<1>1. PICK c \in Proc : current_proc' = c /\ proc_ptr' = Next1(c)
  BY DEF ProcLineSchedule
<1>2. c \in 0 .. NProc - 1 /\ NProc \in Nat \ {0}
  BY <1>1, NProcAssumption DEF Proc
<1>3. (c + 1) % NProc \in 0 .. NProc - 1
  BY <1>2
<1> QED BY <1>1, <1>3 DEF Next1, Proc

\* add_new_task: the next entry of the table begins to wait.
LEMMA AddNewTaskKeeps ==
  ASSUME IInv, AddNewTask PROVE IInv'
<1> USE DEF TASK_RUNNING, TASK_WAITING, TASK_STOP
<1>1. /\ kernel = "boot" /\ task_size < NTask
      /\ tstatus' = [tstatus EXCEPT ![task_size] = TASK_WAITING]
      /\ tpid' = [tpid EXCEPT ![task_size] = -1]
      /\ task_size' = task_size + 1
      /\ UNCHANGED <<msgVars, schedVars, server_pid, pcbVars, shellVars>>
  BY DEF AddNewTask
<1>2. TypeOK /\ task_size \in Int /\ task_size \in Task
  BY <1>1, TasksAssumption DEF IInv, TypeOK, Task
<1>3. TypeOK'
  <2>1. MsgTypeOK' /\ SchedTypeOK'
    BY <1>1, <1>2 DEF TypeOK, MsgTypeOK, SchedTypeOK, msgVars, schedVars, queueVars, intVars
  <2>2. task_size' \in 0 .. NTask
    BY <1>1, <1>2, TasksAssumption DEF TypeOK
  <2>3. /\ tstatus' \in [Task -> {TASK_STOP, TASK_RUNNING, TASK_WAITING}]
        /\ tpid' \in [Task -> Proc \cup {-1}]
    BY <1>1, <1>2 DEF TypeOK
  <2> QED BY <1>1, <1>2, <2>1, <2>2, <2>3 DEF TypeOK, pcbVars, shellVars
<1>4. \A t \in Task : t # task_size => tstatus'[t] = tstatus[t] /\ tpid'[t] = tpid[t]
  BY <1>1, <1>2 DEF TypeOK
<1>5. tstatus'[task_size] = TASK_WAITING
  BY <1>1, <1>2 DEF TypeOK
<1>6. TaskLinks'
  BY <1>1, <1>2, <1>4, <1>5 DEF IInv, TaskLinks, Used, pcbVars, Task
<1>7. SlotLinks' /\ InUse' /\ KillOpen'
  <2>1. ASSUME NEW p \in Proc, Used(p)
        PROVE  /\ ptid[p] \in Task /\ ptid[p] < task_size /\ ptid[p] < task_size'
               /\ tstatus'[ptid[p]] = tstatus[ptid[p]] /\ tpid'[ptid[p]] = tpid[ptid[p]]
    <3>1. ptid[p] \in Task /\ ptid[p] < task_size
      BY <1>2, <2>1 DEF IInv, SlotLinks, TypeOK
    <3>2. ptid[p] # task_size /\ ptid[p] < task_size + 1
      BY <1>2, <3>1 DEF Task
    <3> QED BY <1>1, <1>4, <3>1, <3>2
  <2> QED BY <1>1, <2>1 DEF IInv, SlotLinks, InUse, KillOpen, Used, schedVars, pcbVars, shellVars
<1>8. Descriptors'
  <2>1. Pending' = Pending
    <3>1. ASSUME NEW t \in Task
          PROVE  (t >= task_size' \/ tstatus'[t] = TASK_WAITING)
                 <=> (t >= task_size \/ tstatus[t] = TASK_WAITING)
      <4>1. CASE t = task_size
        BY <1>2, <1>5, <4>1
      <4>2. CASE t # task_size
        BY <1>1, <1>2, <1>4, <4>2 DEF Task
      <4> QED BY <4>1, <4>2
    <3> QED BY <3>1 DEF Pending
  <2> QED BY <1>1, <2>1 DEF IInv, Descriptors, Used, pcbVars
<1>9. ServersRecorded'
  <2> SUFFICES ASSUME NEW t \in Task, Name[t] \in Server, Level[t] = SYS_TASK,
                      t < task_size + 1, tstatus'[t] # TASK_WAITING
               PROVE  server_pid'[Name[t]] = tpid'[t]
    BY <1>1 DEF ServersRecorded
  <2>1. t # task_size
    BY <1>5
  <2>2. t < task_size
    BY <1>2, <2>1 DEF Task
  <2> QED BY <1>1, <1>4, <2>1, <2>2 DEF IInv, ServersRecorded, pcbVars, shellVars
<1> QED BY <1>3, <1>6, <1>7, <1>8, <1>9 DEF IInv

\* The first store of sys_kill.
LEMMA KillFreeKeeps ==
  ASSUME KillUnused = FALSE, IInv, NEW p \in KillPids, KillFree(p) PROVE IInv'
<1>1. /\ Used(p) /\ kills < MaxKill
      /\ take_up' = [take_up EXCEPT ![p] = 0]
      /\ kernel = "user" /\ kernel' = "kill" /\ kill_pid' = p /\ kills' = kills + 1
      /\ UNCHANGED <<msgVars, current_proc, proc_ptr, taskVars, pcbVars>>
  BY DEF KillFree
<1>2. TypeOK /\ p \in Proc /\ take_up \in [Proc -> 0 .. 1]
  BY TasksAssumption DEF IInv, TypeOK, SchedTypeOK
<1>3. TypeOK'
  <2>1. MsgTypeOK' /\ SchedTypeOK'
    BY <1>1, <1>2 DEF TypeOK, MsgTypeOK, SchedTypeOK, msgVars, queueVars, intVars
  <2>2. kills' \in 0 .. MaxKill
    BY <1>1, <1>2, TasksAssumption DEF TypeOK
  <2> QED BY <1>1, <1>2, <2>1, <2>2 DEF TypeOK, pcbVars, taskVars
<1>4. take_up'[p] = 0 /\ \A q \in Proc : q # p => take_up'[q] = take_up[q]
  BY <1>1, <1>2
<1>5. TaskLinks' /\ Descriptors'
  <2>1. Pending' = Pending
    BY <1>1 DEF Pending, taskVars
  <2> QED BY <1>1, <2>1 DEF IInv, TaskLinks, Descriptors, Used, taskVars, pcbVars
<1>6. SlotLinks' /\ InUse' /\ KillOpen'
  BY <1>1, <1>4 DEF IInv, SlotLinks, InUse, KillOpen, Used, taskVars, pcbVars
<1>7. ServersRecorded'
  BY <1>1 DEF IInv, ServersRecorded, taskVars
<1> QED BY <1>3, <1>5, <1>6, <1>7 DEF IInv

\* The second store of sys_kill stops the task of the slot it freed, and no
\* slot in use belongs to that task.
LEMMA KillStopKeeps ==
  ASSUME IInv, KillStop PROVE IInv'
<1> USE DEF TASK_RUNNING, TASK_WAITING, TASK_STOP
<1> DEFINE k == ptid[kill_pid]
<1>1. /\ kernel = "kill" /\ kernel' = "user"
      /\ tstatus' = [tstatus EXCEPT ![k] = TASK_STOP]
      /\ UNCHANGED <<msgVars, schedVars, task_size, tpid, server_pid, pcbVars, kill_pid, kills>>
  BY DEF KillStop
<1>2. TypeOK /\ kill_pid \in Proc /\ k \in Task
  BY DEF IInv, TypeOK
<1>3. Used(kill_pid) /\ take_up[kill_pid] = 0 /\ tpid[k] = kill_pid /\ k < task_size
      /\ tstatus[k] \in {TASK_RUNNING, TASK_STOP}
  BY <1>1, <1>2 DEF IInv, KillOpen, SlotLinks
<1>4. tstatus'[k] = TASK_STOP /\ \A t \in Task : t # k => tstatus'[t] = tstatus[t]
  BY <1>1, <1>2 DEF TypeOK
<1> HIDE DEF k
<1>5. TypeOK'
  <2>1. MsgTypeOK' /\ SchedTypeOK'
    BY <1>1, <1>2 DEF TypeOK, MsgTypeOK, SchedTypeOK, msgVars, schedVars, queueVars, intVars
  <2>2. tstatus' \in [Task -> {TASK_STOP, TASK_RUNNING, TASK_WAITING}]
    BY <1>1, <1>2 DEF TypeOK
  <2> QED BY <1>1, <1>2, <2>1, <2>2 DEF TypeOK, pcbVars
<1>6. TaskLinks'
  BY <1>1, <1>4 DEF IInv, TaskLinks, Used, pcbVars
<1>7. ASSUME NEW p \in Proc, Used(p), p # kill_pid PROVE ptid[p] # k /\ ptid[p] \in Task
  BY <1>2, <1>3, <1>7 DEF IInv, SlotLinks, TypeOK
<1>8. SlotLinks' /\ InUse' /\ KillOpen'
  <2>1. SlotLinks'
    <3> SUFFICES ASSUME NEW p \in Proc, Used(p)
                 PROVE  /\ tpid[ptid[p]] = p /\ ptid[p] < task_size
                        /\ tstatus'[ptid[p]] \in {TASK_RUNNING, TASK_STOP}
                        /\ tstatus'[ptid[p]] = TASK_RUNNING => take_up[p] = 1
      BY <1>1 DEF SlotLinks, Used, pcbVars, schedVars
    <3>1. CASE p = kill_pid
      BY <1>3, <1>4, <3>1 DEF IInv, SlotLinks, k
    <3>2. CASE p # kill_pid
      BY <1>4, <1>7, <3>2 DEF IInv, SlotLinks
    <3> QED BY <3>1, <3>2
  <2>2. InUse'
    BY <1>1, <1>3, <1>4, <1>7 DEF IInv, InUse, Used, pcbVars, schedVars
  <2> QED BY <1>1, <2>1, <2>2 DEF KillOpen
<1>9. Descriptors'
  <2>1. Pending' = Pending
    BY <1>1, <1>2, <1>3, <1>4 DEF Pending
  <2> QED BY <1>1, <2>1 DEF IInv, Descriptors, Used, pcbVars
<1>10. ServersRecorded'
  BY <1>1, <1>3, <1>4 DEF IInv, ServersRecorded
<1> QED BY <1>5, <1>6, <1>8, <1>9, <1>10 DEF IInv

\* At the start there is no process, and every task waits for its descriptor.
LEMMA InitIInv == Init => IInv
<1> SUFFICES ASSUME Init PROVE IInv
  OBVIOUS
<1> USE DEF TASK_RUNNING, TASK_WAITING, TASK_STOP, Init
<1>1. 0 \in Proc /\ 0 \in Task /\ FIRST_LDT = 5 /\ GDT_LENGTH \in 0 .. 255 /\ NTask \in Nat
      /\ FIRST_LDT + NTask <= GDT_LENGTH
  BY NProcAssumption, TasksAssumption DEF Proc, Task, FIRST_LDT
<1>2. TypeOK
  <2>1. MsgTypeOK
    BY <1>1, TasksAssumption DEF MsgInit, MsgTypeOK, NO_INT, HAS_INT, WAIT_INT
  <2>2. SchedTypeOK
    BY <1>1 DEF SchedTypeOK
  <2>3. /\ task_size \in 0 .. NTask
        /\ tstatus \in [Task -> {TASK_STOP, TASK_RUNNING, TASK_WAITING}]
        /\ tpid \in [Task -> Proc \cup {-1}] /\ server_pid \in [Server -> Proc \cup {-1}]
    BY <1>1
  <2>4. /\ ptid \in [Proc -> Task] /\ ldtr \in [Proc -> 0 .. GDT_LENGTH - 1]
        /\ gdt \in [0 .. GDT_LENGTH - 1 -> Proc \cup {NULL}] /\ gdt_idx \in 0 .. 255
    BY <1>1
  <2>5. kernel \in {"boot", "user", "kill"} /\ kill_pid \in Proc /\ kills \in 0 .. MaxKill
    BY <1>1, TasksAssumption
  <2> QED BY <2>1, <2>2, <2>3, <2>4, <2>5 DEF TypeOK
<1>3. TaskLinks /\ SlotLinks /\ InUse /\ KillOpen /\ ServersRecorded
  BY DEF TaskLinks, SlotLinks, InUse, KillOpen, ServersRecorded, Used, Task
<1>4. Descriptors
  <2>1. Pending = Task
    BY <1>1 DEF Pending, Task
  <2>2. Cardinality(Task) = NTask
    <3>1. Cardinality(0 .. NTask - 1) = IF 0 > NTask - 1 THEN 0 ELSE (NTask - 1) - 0 + 1
      BY <1>1, FS_Interval
    <3> QED BY <1>1, <3>1, TasksAssumption DEF Task
  <2> QED BY <1>1, <2>1, <2>2 DEF Descriptors, Used
<1> QED BY <1>2, <1>3, <1>4 DEF IInv

\* The assumptions on the environment: a kill names a slot that has had a
\* process, and no task is started between its two stores.
Gentle == KillUnused = FALSE /\ StartInKill = FALSE

\* Every step preserves the invariant.
LEMMA NextIInv ==
  ASSUME Gentle, IInv, [Next]_vars PROVE IInv'
<1>1. CASE AddNewTask
  BY <1>1, AddNewTaskKeeps
<1>2. CASE StartKernel
  <2>1. /\ kernel = "boot" /\ kernel' = "user" /\ TaskLineSchedule /\ current_proc' = 0
        /\ UNCHANGED <<proc_ptr, kill_pid, kills>>
    BY <1>2 DEF StartKernel
  <2>2. current_proc' \in Proc /\ proc_ptr' \in Proc
    BY <2>1, NProcAssumption DEF IInv, TypeOK, SchedTypeOK, Proc
  <2> QED BY <2>1, <2>2, TaskLineScheduleKeeps
<1>3. CASE Tick
  <2>1. TaskLineSchedule /\ ProcLineSchedule(msg_block', take_up')
        /\ UNCHANGED <<kernel, kill_pid, kills>> /\ (kernel = "kill" => Startable = {})
    BY <1>3 DEF Tick, shellVars, Gentle
  <2>2. current_proc' \in Proc /\ proc_ptr' \in Proc
    BY <2>1, ScheduleType
  <2>3. kernel' \in {"boot", "user", "kill"}
    BY <2>1 DEF IInv, TypeOK
  <2> QED BY <2>1, <2>2, <2>3, TaskLineScheduleKeeps
<1>4. CASE \E p \in KillPids : KillFree(p)
  BY <1>4, KillFreeKeeps DEF Gentle
<1>5. CASE KillStop
  BY <1>5, KillStopKeeps
<1>6. CASE UNCHANGED vars
  <2> USE <1>6 DEF vars, msgVars, schedVars, taskVars, pcbVars, shellVars, queueVars, intVars
  <2>1. TypeOK'
    BY DEF IInv, TypeOK, MsgTypeOK, SchedTypeOK
  <2>2. TaskLinks' /\ SlotLinks' /\ InUse' /\ KillOpen'
    BY DEF IInv, TaskLinks, SlotLinks, InUse, KillOpen, Used
  <2>3. Descriptors'
    BY DEF IInv, Descriptors, Pending, Used
  <2>4. ServersRecorded'
    BY DEF IInv, ServersRecorded
  <2> QED BY <2>1, <2>2, <2>3, <2>4 DEF IInv
<1> QED BY <1>1, <1>2, <1>3, <1>4, <1>5, <1>6 DEF Next

\* The invariant of the boot sequence, the clock and sys_kill.
THEOREM Invariance == Gentle /\ Spec => []IInv
<1>1. ASSUME Gentle PROVE IInv /\ [Next]_vars => IInv'
  BY <1>1, NextIInv
<1>2. Gentle /\ IInv /\ [Next]_vars => IInv'
  BY <1>1
<1>3. Gentle => []Gentle
  <2>1. Gentle => Gentle'
    BY DEF Gentle
  <2> QED BY <2>1, PTL
<1> QED BY <1>2, <1>3, InitIInv, PTL DEF Spec

--------------------------------------------------------------------------------
(* Theorems                                                                *)

\* Types: in particular no pid or selector leaves its table.
THEOREM TasksTypeCorrect == Gentle /\ Spec => []TypeOK
<1>1. IInv => TypeOK
  BY DEF IInv
<1> QED BY <1>1, Invariance, PTL

\* task_line_schedule and sys_kill: a running task and its process know each
\* other.
THEOREM LinksBothWays == Gentle /\ Spec => []Mapping
<1>1. IInv => Mapping
  <2> SUFFICES ASSUME IInv PROVE Mapping
    OBVIOUS
  <2>1. ASSUME NEW t \in Task, tstatus[t] = TASK_RUNNING, ~Ending(t)
        PROVE  tpid[t] \in Proc /\ take_up[tpid[t]] = 1 /\ ptid[tpid[t]] = t
    BY <2>1 DEF IInv, TaskLinks, SlotLinks, Ending
  <2>2. ASSUME NEW p \in Proc, take_up[p] = 1
        PROVE  tstatus[ptid[p]] = TASK_RUNNING /\ tpid[ptid[p]] = p
    BY <2>2 DEF IInv, InUse, SlotLinks
  <2> QED BY <2>1, <2>2 DEF Mapping
<1> QED BY <1>1, Invariance, PTL

\* new_ldt_descriptor: no two processes share a descriptor.
THEOREM OwnDescriptors == Gentle /\ Spec => []OwnLdt
<1>1. IInv => OwnLdt
  BY DEF IInv, InUse, Descriptors, OwnLdt
<1> QED BY <1>1, Invariance, PTL

\* hd_pid, fs_pid, tty_pid and mm_pid name the running servers.
THEOREM ServersStayKnown == Gentle /\ Spec => []ServersKnown
<1>1. IInv => ServersKnown
  BY DEF IInv, ServersRecorded, ServersKnown, TaskLinks, TASK_RUNNING, TASK_WAITING
<1> QED BY <1>1, Invariance, PTL

================================================================================
