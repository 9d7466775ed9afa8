----------------------------- MODULE ClientsProofs -----------------------------
(***************************************************************************)
(* Theorems about Clients, for every number of processes, every set of     *)
(* links and every bound.                                                  *)
(***************************************************************************)
EXTENDS ClientsRefine, MsgProofs

--------------------------------------------------------------------------------
(* Part 1: types, and who may be current.                                  *)

AllTakenUp == take_up = [p \in Proc |-> 1]

IInv == TypeOK /\ LinkedHasStruct /\ AllTakenUp /\ CurrentNotBlocked

\* The successor of the scan pointer is a slot of the process table.
LEMMA Next1InProc == ASSUME NEW p \in Proc PROVE Next1(p) \in Proc
  BY NProcAssumption DEF Proc, Next1

\* The scheduler fields keep their types, and the process chosen is in use
\* and not blocked in the state after the call.
LEMMA RescheduleType ==
  ASSUME NEW p \in Proc, SchedTypeOK, AllTakenUp, RescheduleIfBlocked(p),
         msg_block \in [Proc -> 0 .. 1], msg_block' \in [Proc -> 0 .. 1],
         p = current_proc,
         \A r \in Proc \ {p} : msg_block'[r] = 1 => msg_block[r] = 1
  PROVE  SchedTypeOK' /\ AllTakenUp' /\ CurrentNotBlocked'
<1> USE DEF SchedTypeOK, AllTakenUp, CurrentNotBlocked, Runnable, Scan
<1>0. UNCHANGED take_up
  BY DEF RescheduleIfBlocked
<1>1. CASE msg_block'[p] = 1 /\ ProcLineSchedule(msg_block', take_up)
  BY <1>0, <1>1, Next1InProc DEF ProcLineSchedule
<1>2. CASE msg_block'[p] # 1 /\ UNCHANGED <<current_proc, proc_ptr>>
  BY <1>0, <1>2
<1>3. CASE TickInside(msg_block'[p] = 1)
  <2>1. PICK c \in Proc :
          /\ Scan(proc_ptr, msg_block, take_up, c)
          /\ IF msg_block'[p] = 1
             THEN \E d \in Proc :
                    /\ Scan(Next1(c), msg_block', take_up, d)
                    /\ current_proc' = d
                    /\ proc_ptr' = Next1(d)
             ELSE /\ current_proc' = c
                  /\ proc_ptr' = Next1(c)
    BY <1>3 DEF TickInside
  <2>2. CASE msg_block'[p] = 1
    BY <1>0, <2>1, <2>2, Next1InProc
  <2>3. CASE msg_block'[p] # 1
    BY <1>0, <2>1, <2>3, Next1InProc
  <2> QED BY <2>2, <2>3
<1> QED
  BY <1>1, <1>2, <1>3 DEF RescheduleIfBlocked

\* A message of a link is a content of message structures.
LEMMA MessageInContent ==
  ASSUME NEW p \in Proc, NEW q \in Proc, <<p, q>> \in Links, NEW n \in 1 .. MaxMsg
  PROVE  Message(p, q, n) \in Content
<1>1. <<p, q>>[1] = p /\ <<p, q>>[2] = q
  OBVIOUS
<1> QED BY <1>1, StructAssumption

\* send_message preserves the invariant of the types.
LEMMA SendType ==
  ASSUME IInv, NEW p \in Proc, NEW q \in Proc, Send(p, q)
  PROVE  IInv'
<1> DEFINE m == Message(p, q, sent[<<p, q>>] + 1)
<1>1. m \in Content /\ sent[<<p, q>>] + 1 \in 0 .. MaxMsg /\ "out" \in Struct
  BY MessageInContent, LinksAssumption, StructAssumption DEF Send, IInv, TypeOK
<1>2. p = current_proc /\ msg_block[p] = 0 /\ RescheduleIfBlocked(p)
  BY DEF Send, SysSendMessage, IInv, CurrentNotBlocked
<1>3. MsgTypeOK /\ LinkedHasStruct /\ SchedTypeOK /\ AllTakenUp
  BY DEF IInv, TypeOK
<1>4. (HandOver(p, q, "out", m) \/ Enqueue(p, q, "out", m)) /\ UNCHANGED intVars
  BY DEF Send, SysSendMessage, MsgSend
<1> HIDE DEF m
<1>5. MsgTypeOK' /\ LinkedHasStruct'
      /\ \A r \in Proc \ {p} : msg_block'[r] = 1 => msg_block[r] = 1
  <2>1. CASE HandOver(p, q, "out", m)
    BY <1>1, <1>3, <1>4, <2>1, HandOverType DEF MsgTypeOK
  <2>2. CASE Enqueue(p, q, "out", m)
    BY <1>1, <1>3, <1>4, <2>2, EnqueueType DEF MsgTypeOK
  <2> QED BY <1>4, <2>1, <2>2
<1>6. SchedTypeOK' /\ AllTakenUp' /\ CurrentNotBlocked'
  BY <1>2, <1>3, <1>5, RescheduleType DEF MsgTypeOK
<1>7. call' \in [Proc -> {"none", "send", "recv"}] /\ sent' \in [Links -> 0 .. MaxMsg]
      /\ seen' \in [Links -> 0 .. MaxMsg]
  BY <1>1 DEF Send, IInv, TypeOK
<1> QED BY <1>5, <1>6, <1>7 DEF IInv, TypeOK

\* recv_message preserves the invariant of the types.
LEMMA ReceiveType ==
  ASSUME IInv, NEW q \in Proc, NEW from \in Proc \cup {ANY}, Receive(q, from)
  PROVE  IInv'
<1>1. "in" \in Struct
  BY StructAssumption
<1>2. q = current_proc /\ msg_block[q] = 0 /\ RescheduleIfBlocked(q)
  BY DEF Receive, SysRecvMessage, IInv, CurrentNotBlocked
<1>3. MsgTypeOK /\ LinkedHasStruct /\ SchedTypeOK /\ AllTakenUp
  BY DEF IInv, TypeOK
<1>4. (TakeQueued(q, from, "in") \/ AwaitSender(q, from, "in")) /\ UNCHANGED intVars
  BY DEF Receive, SysRecvMessage, MsgReceive
<1>5. MsgTypeOK' /\ LinkedHasStruct'
      /\ \A r \in Proc \ {q} : msg_block'[r] = 1 => msg_block[r] = 1
  <2>1. CASE TakeQueued(q, from, "in")
    <3>1. MsgTypeOK' /\ LinkedHasStruct'
          /\ \E t \in Queue(q) : msg_block' = [msg_block EXCEPT ![t] = 0]
      BY <1>1, <1>3, <1>4, <2>1, TakeQueuedType
    <3> QED BY <1>3, <3>1 DEF MsgTypeOK
  <2>2. CASE AwaitSender(q, from, "in")
    <3>1. MsgTypeOK' /\ LinkedHasStruct' /\ msg_block' = [msg_block EXCEPT ![q] = 1]
      BY <1>1, <1>3, <1>4, <2>2, AwaitSenderType
    <3> QED BY <1>3, <3>1 DEF MsgTypeOK
  <2> QED BY <1>4, <2>1, <2>2
<1>6. SchedTypeOK' /\ AllTakenUp' /\ CurrentNotBlocked'
  BY <1>2, <1>3, <1>5, RescheduleType DEF MsgTypeOK
<1>7. call' \in [Proc -> {"none", "send", "recv"}] /\ sent' \in [Links -> 0 .. MaxMsg]
      /\ seen' \in [Links -> 0 .. MaxMsg]
  BY DEF Receive, IInv, TypeOK
<1> QED BY <1>5, <1>6, <1>7 DEF IInv, TypeOK

\* The return from a call preserves the invariant of the types.
LEMMA ReturnType ==
  ASSUME IInv, NEW p \in Proc, Return(p)
  PROVE  IInv'
<1> USE DEF IInv, TypeOK
<1>1. seen' \in [Links -> 0 .. MaxMsg]
  <2>1. CASE call[p] # "recv"
    BY <2>1 DEF Return
  <2>2. CASE call[p] = "recv" /\ mem[p]["in"] = NULL
    <3>1. seen' = [l \in Links |-> seen[l]]
      BY <2>2 DEF Return
    <3> QED BY <3>1
  <2>3. CASE call[p] = "recv" /\ mem[p]["in"] # NULL
    <3>1. mem[p]["in"] \in Content
      BY StructAssumption DEF MsgTypeOK
    <3>2. PICK l \in Links, n \in 1 .. MaxMsg : mem[p]["in"] = Message(l[1], l[2], n)
      BY <2>3, <3>1, StructAssumption
    <3>3. mem[p]["in"].n \in 0 .. MaxMsg
      BY <3>2, LinksAssumption DEF Message
    <3> QED BY <2>3, <3>3 DEF Return
  <2> QED BY <2>1, <2>2, <2>3
<1> QED
  BY <1>1 DEF Return, msgVars, schedVars, queueVars, intVars, MsgTypeOK, SchedTypeOK,
     LinkedHasStruct, HasStruct, AllTakenUp, CurrentNotBlocked

\* A clock tick preserves the invariant of the types.
LEMMA TickType ==
  ASSUME IInv, Tick
  PROVE  IInv'
<1>1. SchedTypeOK' /\ AllTakenUp' /\ CurrentNotBlocked'
  BY Next1InProc DEF Tick, ClockHandler, ProcLineSchedule, Scan, Runnable,
     SchedTypeOK, AllTakenUp, CurrentNotBlocked, IInv, TypeOK, MsgTypeOK,
     msgVars
<1> QED
  BY <1>1 DEF Tick, ClockHandler, clientVars, msgVars, queueVars, intVars, IInv, TypeOK,
     MsgTypeOK, LinkedHasStruct, HasStruct

\* The invariant of the types holds after boot.
LEMMA InitType == ASSUME Init PROVE IInv
<1>1. MsgTypeOK /\ LinkedHasStruct
  BY StructAssumption, NProcAssumption DEF Init, MsgInit, MsgTypeOK, LinkedHasStruct, HasStruct, Proc,
     NO_INT, HAS_INT, WAIT_INT
<1>2. SchedTypeOK /\ AllTakenUp /\ CurrentNotBlocked
  BY NProcAssumption DEF Init, MsgInit, SchedInit, SchedTypeOK, AllTakenUp, CurrentNotBlocked, Proc
<1> QED BY <1>1, <1>2, LinksAssumption DEF IInv, TypeOK, Init

\* The invariant of the types only depends on the state.
LEMMA StutterType == ASSUME IInv, UNCHANGED vars PROVE IInv'
  BY DEF vars, clientVars, msgVars, schedVars, queueVars, intVars, IInv, TypeOK,
     MsgTypeOK, SchedTypeOK, LinkedHasStruct, HasStruct, AllTakenUp, CurrentNotBlocked

\* One step per action of Next.
LEMMA StepType == ASSUME IInv, [Next]_vars PROVE IInv'
<1>1. CASE Tick
  BY <1>1, TickType
<1>2. ASSUME NEW p \in Proc, ProcStep(p) PROVE IInv'
  BY <1>2, SendType, ReceiveType, ReturnType DEF ProcStep
<1>3. CASE UNCHANGED vars
  BY <1>3, StutterType
<1> QED BY <1>1, <1>2, <1>3 DEF Next

\* The inductive invariant behind the types holds in every state: besides the
\* types, all slots are in use, the running process is not blocked, and every
\* process some link points to has a message structure.
THEOREM Invariance == Spec => []IInv
<1>1. Init => IInv
  BY InitType
<1>2. IInv /\ [Next]_vars => IInv'
  BY StepType
<1> QED BY <1>1, <1>2, PTL DEF Spec

\* Every field keeps its type, whatever the programs send and receive.
THEOREM TypeCorrect == Spec => []TypeOK
<1>1. IInv => TypeOK
  BY DEF IInv
<1> QED BY <1>1, Invariance, PTL

\* The process that holds the processor is never blocked, even when a clock
\* tick falls inside the call that blocks or wakes somebody.
THEOREM CurrentIsRunnable == Spec => []CurrentNotBlocked
<1>1. IInv => CurrentNotBlocked
  BY DEF IInv
<1> QED BY <1>1, Invariance, PTL

--------------------------------------------------------------------------------
(* Part 2: the links never close a cycle, whatever the programs do.        *)

\* Every step of the system leaves the sender queues of msg.c without a cycle.
LEMMA StepAcyclic ==
  ASSUME IInv, AcyclicQueues, [Next]_vars
  PROVE  AcyclicQueues'
<1> USE DEF AcyclicQueues
<1>1. LinksOK
  BY DEF IInv, TypeOK, MsgTypeOK, LinksOK, Links2
<1>2. ASSUME NEW p \in Proc, NEW q \in Proc, Send(p, q) PROVE Acyclic(msg_next')
  <2> DEFINE m == Message(p, q, sent[<<p, q>>] + 1)
  <2>1. CASE HandOver(p, q, "out", m)
    BY <1>1, <2>1 DEF HandOver, queueVars, LinksOK
  <2>2. CASE Enqueue(p, q, "out", m)
    BY <1>1, <2>2, InsertAcyclic DEF Enqueue
  <2> QED BY <1>2, <2>1, <2>2 DEF Send, SysSendMessage, MsgSend
<1>3. ASSUME NEW q \in Proc, NEW from \in Proc \cup {ANY}, Receive(q, from)
      PROVE  Acyclic(msg_next')
  <2>1. CASE TakeQueued(q, from, "in")
    <3>1. PICK t \in Queue(q) : Unlink(t, q)
      BY <2>1 DEF TakeQueued
    <3> QED BY <1>1, <3>1, UnlinkAcyclic, QueueFacts
  <2>2. CASE AwaitSender(q, from, "in")
    BY <1>1, <2>2 DEF AwaitSender, queueVars, LinksOK
  <2> QED BY <1>3, <2>1, <2>2 DEF Receive, SysRecvMessage, MsgReceive
<1>4. ASSUME NEW p \in Proc, Return(p) PROVE Acyclic(msg_next')
  BY <1>4 DEF Return, msgVars, queueVars
<1>5. CASE Tick
  BY <1>5 DEF Tick, ClockHandler, msgVars, queueVars
<1>6. CASE UNCHANGED vars
  BY <1>6 DEF vars, msgVars, queueVars
<1> QED BY <1>2, <1>3, <1>4, <1>5, <1>6 DEF Next, ProcStep

\* The loops over a sender queue end, for any set of communicating programs:
\* the chain of links through the process table never bites its own tail.
THEOREM QueuesAcyclic == Spec => []AcyclicQueues
<1>1. Init => AcyclicQueues
  <2> SUFFICES ASSUME Init, NEW S \in SUBSET Proc, NEW p \in S PROVE msg_next[p] \notin S
    BY DEF AcyclicQueues, Acyclic
  <2>1. msg_next[p] = NULL
    BY DEF Init, MsgInit
  <2> QED BY <2>1, NullApart
<1>2. IInv /\ AcyclicQueues /\ [Next]_vars => AcyclicQueues'
  BY StepAcyclic
<1> QED BY <1>1, <1>2, Invariance, PTL DEF Spec

--------------------------------------------------------------------------------
(* Part 3: one-way mixes.  The queue of q holds exactly the processes      *)
(* blocked in send_message to q.  This needs, besides the types and the    *)
(* absence of cycles, that only senders block in send_message and only     *)
(* receivers in recv_message: the point where a two-way mix differs.       *)

BlockedOn(q) == {p \in Proc : msg_block[p] = 1 /\ call[p] = "send" /\ send_to[p] = q}

Roles ==
  /\ \A p \in Proc : int_status[p] = NO_INT
  /\ \A p \in Proc : msg_block[p] = 1 => call[p] \in {"send", "recv"}
  /\ \A p \in Proc : call[p] = "send" => \E q \in Proc : <<p, q>> \in Links
  /\ \A p \in Proc : call[p] = "recv" => Accept[p] # {}

QInv ==
  OneWay => /\ Roles
            /\ \A q \in Proc : Queue(q) = BlockedOn(q)
            /\ \A q \in Proc : (msg_block[q] = 1 /\ call[q] = "recv") =>
                 Matching(q, recv_from[q]) = {}

\* A receiver never sends, a sender never receives.
LEMMA OneWayRoles ==
  ASSUME OneWay, NEW p \in Proc, NEW q \in Proc, <<p, q>> \in Links
  PROVE  /\ \A r \in Proc : <<q, r>> \notin Links
         /\ Accept[p] = {}
<1>1. <<p, q>>[1] = p
  OBVIOUS
<1>2. Accept[p] = {}
  BY <1>1 DEF OneWay
<1>3. ASSUME NEW r \in Proc, <<q, r>> \in Links PROVE FALSE
  <2>1. <<q, r>>[1] = q
    OBVIOUS
  <2>2. Senders(q) = {}
    BY <1>3, <2>1 DEF OneWay
  <2> QED BY <2>2 DEF Senders
<1> QED BY <1>2, <1>3

\* send_message preserves the exactness of the queues.
LEMMA SendQueue ==
  ASSUME IInv, AcyclicQueues, QInv, NEW p \in Proc, NEW q \in Proc, Send(p, q)
  PROVE  QInv'
<1> SUFFICES ASSUME OneWay
             PROVE  /\ Roles'
                    /\ \A r \in Proc : Queue(r)' = BlockedOn(r)'
                    /\ \A r \in Proc : (msg_block'[r] = 1 /\ call'[r] = "recv") =>
                         Matching(r, recv_from[r])' = {}
  BY DEF QInv, OneWay, Senders
<1> DEFINE m == Message(p, q, sent[<<p, q>>] + 1)
<1>1. LinksOK /\ MsgTypeOK /\ call \in [Proc -> {"none", "send", "recv"}]
  BY DEF IInv, TypeOK, MsgTypeOK, LinksOK, Links2, AcyclicQueues
<1>2. Roles /\ \A r \in Proc : Queue(r) = BlockedOn(r)
  BY DEF QInv
<1>3. \A r \in Proc : (msg_block[r] = 1 /\ call[r] = "recv") => Matching(r, recv_from[r]) = {}
  BY DEF QInv
<1>4. /\ p # q /\ <<p, q>> \in Links
      /\ msg_block[p] = 0 /\ call[p] = "none"
      /\ call' = [call EXCEPT ![p] = "send"]
      /\ UNCHANGED intVars
  BY LinksAssumption DEF Send, SysSendMessage, MsgSend, IInv, CurrentNotBlocked
<1>5. call[q] # "send"
  BY <1>2, <1>4, OneWayRoles DEF Roles
<1>6. CASE HandOver(p, q, "out", m)
  <2>1. /\ msg_block' = [msg_block EXCEPT ![q] = 0]
        /\ UNCHANGED <<recv_from, send_to, queueVars>>
    BY <1>6 DEF HandOver
  <2>2. Roles'
    BY <1>1, <1>2, <1>4, <2>1 DEF Roles, MsgTypeOK, intVars
  <2>3. \A r \in Proc : Queue(r)' = Queue(r) /\ BlockedOn(r)' = BlockedOn(r)
    BY <1>1, <1>4, <1>5, <2>1 DEF Queue, queueVars, BlockedOn, MsgTypeOK
  <2>4. \A r \in Proc : (msg_block'[r] = 1 /\ call'[r] = "recv") =>
                            msg_block[r] = 1 /\ call[r] = "recv"
    BY <1>1, <1>4, <2>1 DEF MsgTypeOK
  <2>5. \A r \in Proc : Matching(r, recv_from[r])' = Matching(r, recv_from[r])
    BY <2>1, <2>3 DEF Matching
  <2> QED BY <1>2, <1>3, <2>2, <2>3, <2>4, <2>5
<1>7. CASE Enqueue(p, q, "out", m)
  <2>1. /\ msg_block' = [msg_block EXCEPT ![p] = 1]
        /\ send_to' = [send_to EXCEPT ![p] = q]
        /\ UNCHANGED recv_from
        /\ InsertMsgQueue(p, q)
        /\ ~CanHandOver(p, q)
    BY <1>7 DEF Enqueue
  <2>2. Roles'
    BY <1>1, <1>2, <1>4, <2>1 DEF Roles, MsgTypeOK, intVars
  <2>3. /\ \A r \in Proc : p \notin Queue(r)
        /\ \A r \in Proc \ {q} : Queue(q) \cap Queue(r) = {}
    BY <1>2, <1>4 DEF BlockedOn
  <2>4. /\ Queue(q)' = Queue(q) \cup {p}
        /\ \A r \in Proc \ {q} : Queue(r)' = Queue(r)
    BY <1>1, <2>1, <2>3, InsertQueue
  <2>5. /\ BlockedOn(q)' = BlockedOn(q) \cup {p}
        /\ \A r \in Proc \ {q} : BlockedOn(r)' = BlockedOn(r)
    BY <1>1, <1>4, <2>1 DEF BlockedOn, MsgTypeOK
  <2>6. ASSUME NEW r \in Proc, msg_block'[r] = 1, call'[r] = "recv"
        PROVE  Matching(r, recv_from[r])' = {}
    <3>1. r # p /\ msg_block[r] = 1 /\ call[r] = "recv" /\ Matching(r, recv_from[r]) = {}
      BY <1>1, <1>3, <1>4, <2>1, <2>6 DEF MsgTypeOK
    <3>2. CASE r = q
      <4>1. recv_from[q] \notin {p, ANY}
        BY <1>2, <2>1, <3>1, <3>2 DEF CanHandOver, Roles, NO_INT, WAIT_INT
      <4> QED BY <2>1, <2>4, <3>1, <3>2, <4>1 DEF Matching
    <3>3. CASE r # q
      BY <2>1, <2>4, <3>1, <3>3 DEF Matching
    <3> QED BY <3>2, <3>3
  <2> QED BY <1>2, <2>2, <2>4, <2>5, <2>6
<1> QED BY <1>6, <1>7 DEF Send, SysSendMessage, MsgSend

\* recv_message preserves the exactness of the queues.
LEMMA ReceiveQueue ==
  ASSUME IInv, AcyclicQueues, QInv, NEW q \in Proc, NEW from \in Proc \cup {ANY},
         Receive(q, from)
  PROVE  QInv'
<1> SUFFICES ASSUME OneWay
             PROVE  /\ Roles'
                    /\ \A r \in Proc : Queue(r)' = BlockedOn(r)'
                    /\ \A r \in Proc : (msg_block'[r] = 1 /\ call'[r] = "recv") =>
                         Matching(r, recv_from[r])' = {}
  BY DEF QInv, OneWay, Senders
<1>1. LinksOK /\ MsgTypeOK /\ call \in [Proc -> {"none", "send", "recv"}]
  BY DEF IInv, TypeOK, MsgTypeOK, LinksOK, Links2, AcyclicQueues
<1>2. Roles /\ \A r \in Proc : Queue(r) = BlockedOn(r)
  BY DEF QInv
<1>3. \A r \in Proc : (msg_block[r] = 1 /\ call[r] = "recv") => Matching(r, recv_from[r]) = {}
  BY DEF QInv
<1>4. /\ msg_block[q] = 0 /\ call[q] = "none" /\ Accept[q] # {}
      /\ call' = [call EXCEPT ![q] = "recv"]
      /\ UNCHANGED intVars
  BY DEF Receive, SysRecvMessage, MsgReceive, IInv, CurrentNotBlocked
<1>5. CASE TakeQueued(q, from, "in")
  <2>1. PICK t \in Queue(q) : msg_block' = [msg_block EXCEPT ![t] = 0] /\ Unlink(t, q)
    BY <1>5 DEF TakeQueued
  <2>2. UNCHANGED <<recv_from, send_to>>
    BY <1>5 DEF TakeQueued
  <2>3. t \in Proc /\ msg_block[t] = 1 /\ call[t] = "send" /\ send_to[t] = q
    BY <1>2, <2>1 DEF BlockedOn
  <2>4. Roles'
    BY <1>1, <1>2, <1>4, <2>1, <2>3 DEF Roles, MsgTypeOK, intVars
  <2>5. \A r \in Proc \ {q} : Queue(q) \cap Queue(r) = {}
    BY <1>2 DEF BlockedOn
  <2>6. /\ Queue(q)' = Queue(q) \ {t}
        /\ \A r \in Proc \ {q} : Queue(r)' = Queue(r)
    BY <1>1, <2>1, <2>5, UnlinkQueue
  <2>7. /\ BlockedOn(q)' = BlockedOn(q) \ {t}
        /\ \A r \in Proc \ {q} : BlockedOn(r)' = BlockedOn(r)
    BY <1>1, <1>4, <2>1, <2>2, <2>3 DEF BlockedOn, MsgTypeOK
  <2>8. ASSUME NEW r \in Proc, msg_block'[r] = 1, call'[r] = "recv"
        PROVE  Matching(r, recv_from[r])' = {}
    <3>1. r # q /\ msg_block[r] = 1 /\ call[r] = "recv" /\ Matching(r, recv_from[r]) = {}
      BY <1>1, <1>3, <1>4, <2>1, <2>3, <2>8 DEF MsgTypeOK
    <3> QED BY <2>2, <2>6, <3>1 DEF Matching
  <2> QED BY <1>2, <2>4, <2>6, <2>7, <2>8
<1>6. CASE AwaitSender(q, from, "in")
  <2>1. /\ Matching(q, from) = {}
        /\ msg_block' = [msg_block EXCEPT ![q] = 1]
        /\ recv_from' = [recv_from EXCEPT ![q] = from]
        /\ UNCHANGED <<send_to, queueVars>>
    BY <1>6 DEF AwaitSender
  <2>2. Roles'
    BY <1>1, <1>2, <1>4, <2>1 DEF Roles, MsgTypeOK, intVars
  <2>3. \A r \in Proc : Queue(r)' = Queue(r) /\ BlockedOn(r)' = BlockedOn(r)
    BY <1>1, <1>4, <2>1 DEF Queue, queueVars, BlockedOn, MsgTypeOK
  <2>4. ASSUME NEW r \in Proc, msg_block'[r] = 1, call'[r] = "recv"
        PROVE  Matching(r, recv_from[r])' = {}
    <3>1. CASE r = q
      BY <1>1, <2>1, <2>3, <3>1 DEF Matching, MsgTypeOK
    <3>2. CASE r # q
      <4>1. msg_block[r] = 1 /\ call[r] = "recv" /\ recv_from'[r] = recv_from[r]
        BY <1>1, <1>4, <2>1, <2>4, <3>2 DEF MsgTypeOK
      <4> QED BY <1>3, <2>3, <4>1 DEF Matching
    <3> QED BY <3>1, <3>2
  <2> QED BY <1>2, <2>2, <2>3, <2>4
<1> QED BY <1>5, <1>6 DEF Receive, SysRecvMessage, MsgReceive

\* Every step preserves the exactness of the queues.
LEMMA StepQueue ==
  ASSUME IInv, AcyclicQueues, QInv, [Next]_vars
  PROVE  QInv'
<1>1. ASSUME NEW p \in Proc, Return(p) PROVE QInv'
  <2>1. /\ call' = [call EXCEPT ![p] = "none"] /\ msg_block[p] = 0
        /\ UNCHANGED msgVars
    BY <1>1 DEF Return, IInv, CurrentNotBlocked
  <2>2. \A q \in Proc : Queue(q)' = Queue(q) /\ BlockedOn(q)' = BlockedOn(q)
    BY <2>1 DEF Queue, BlockedOn, msgVars, queueVars, IInv, TypeOK
  <2>3. \A q \in Proc : Matching(q, recv_from[q])' = Matching(q, recv_from[q])
    BY <2>1, <2>2 DEF Matching, msgVars
  <2>4. \A q \in Proc : call'[q] # "none" => call'[q] = call[q] /\ q # p
    BY <2>1 DEF IInv, TypeOK
  <2>5. Roles => Roles'
    BY <2>1, <2>4 DEF Roles, msgVars, intVars
  <2> QED BY <2>1, <2>2, <2>3, <2>4, <2>5 DEF QInv, OneWay, Senders, msgVars
<1>2. CASE Tick
  BY <1>2 DEF Tick, ClockHandler, clientVars, msgVars, queueVars, intVars, QInv, OneWay,
     Senders, Roles, Queue, BlockedOn, Matching
<1>3. CASE UNCHANGED vars
  BY <1>3 DEF vars, clientVars, msgVars, queueVars, intVars, QInv, OneWay,
     Senders, Roles, Queue, BlockedOn, Matching
<1> QED BY <1>1, <1>2, <1>3, SendQueue, ReceiveQueue DEF Next, ProcStep

\* The inductive invariant behind the queues holds in every state of a one-way
\* mix: a queue holds the senders blocked on its process, no more and no fewer,
\* a blocked receiver has no match, and nobody waits for an interrupt.
THEOREM QueueInvariance == Spec => []QInv
<1>1. Init => QInv
  <2> SUFFICES ASSUME Init PROVE QInv
    OBVIOUS
  <2>1. \A q \in Proc : Queue(q) = {} /\ BlockedOn(q) = {}
    BY ReachNull DEF Init, MsgInit, Queue, BlockedOn
  <2>2. Roles
    BY DEF Init, MsgInit, Roles
  <2> QED BY <2>1, <2>2 DEF QInv, Matching
<1>2. IInv /\ AcyclicQueues /\ QInv /\ [Next]_vars => QInv'
  BY StepQueue
<1> QED BY <1>1, <1>2, Invariance, QueuesAcyclic, PTL DEF Spec

\* In a one-way mix the sender queue of q holds exactly the processes blocked
\* in send_message to q: none is lost by an insertion or a removal.
THEOREM QueuesExact == Spec => []QueueExact
<1>1. QInv => QueueExact
  BY DEF QInv, QueueExact, BlockedOn
<1> QED BY <1>1, QueueInvariance, PTL

\* In a one-way mix no receiver stays blocked beside a sender it accepts.
THEOREM RendezvousNotMissed == Spec => []NoMissedRendezvous
<1>1. QInv => NoMissedRendezvous
  BY DEF QInv, NoMissedRendezvous
<1> QED BY <1>1, QueueInvariance, PTL

--------------------------------------------------------------------------------
(* Part 4: what is sent over a link of a one-way mix and what is seen.     *)

\* A process blocked in a call waits with the structure of that call, and a
\* sender for the receiver of one of its links.
Wishes ==
  \A p \in Proc : msg_block[p] = 1 =>
    /\ call[p] = "send" => msg[p] = "out" /\ <<p, send_to[p]>> \in Links
    /\ call[p] = "recv" => msg[p] = "in"

\* The account of one link: sent, seen, and on the way.
Account(p, q) ==
  /\ sent[<<p, q>>] = seen[<<p, q>>] + (IF Queued(p, q) THEN 1 ELSE 0) + (IF Handed(p, q) THEN 1 ELSE 0)
  /\ Queued(p, q) => mem[p][msg[p]] = Message(p, q, sent[<<p, q>>])
  /\ Handed(p, q) => mem[q]["in"] = Message(p, q, seen[<<p, q>>] + 1)

EInv == OneWay => Wishes /\ \A p, q \in Proc : <<p, q>> \in Links => Account(p, q)

\* An account in which nothing moves stays balanced.
LEMMA AccountStays ==
  ASSUME NEW p \in Proc, NEW q \in Proc, Account(p, q),
         sent'[<<p, q>>] = sent[<<p, q>>], seen'[<<p, q>>] = seen[<<p, q>>],
         Queued(p, q)' <=> Queued(p, q), Handed(p, q)' <=> Handed(p, q),
         Queued(p, q) => mem'[p][msg'[p]] = mem[p][msg[p]],
         Handed(p, q) => mem'[q]["in"] = mem[q]["in"]
  PROVE  Account(p, q)'
BY DEF Account

\* send_message: either the message is in the receiver's structure, or it
\* waits in the sender's.
LEMMA SendAccount ==
  ASSUME IInv, QInv, EInv, NEW p \in Proc, NEW q \in Proc, Send(p, q)
  PROVE  EInv'
<1> SUFFICES ASSUME OneWay
             PROVE  Wishes' /\ \A r, s \in Proc : <<r, s>> \in Links => Account(r, s)'
  BY DEF EInv, OneWay, Senders
<1> DEFINE m == Message(p, q, sent[<<p, q>>] + 1)
           l == <<p, q>>
<1>1. MsgTypeOK /\ call \in [Proc -> {"none", "send", "recv"}]
      /\ sent \in [Links -> 0 .. MaxMsg] /\ seen \in [Links -> 0 .. MaxMsg]
  BY DEF IInv, TypeOK
<1>2. Roles /\ Wishes /\ \A r, s \in Proc : <<r, s>> \in Links => Account(r, s)
  BY DEF QInv, EInv
<1>3. /\ p # q /\ l \in Links /\ msg_block[p] = 0 /\ call[p] = "none"
      /\ call' = [call EXCEPT ![p] = "send"]
      /\ sent' = [sent EXCEPT ![l] = @ + 1] /\ seen' = seen
  BY LinksAssumption DEF Send, SysSendMessage, MsgSend, IInv, CurrentNotBlocked
<1>4. call[q] # "send" /\ Accept[p] = {} /\ Account(p, q)
  BY <1>2, <1>3, OneWayRoles DEF Roles
<1>5. /\ sent'[l] = sent[l] + 1 /\ seen'[l] = seen[l] /\ sent[l] \in Nat /\ seen[l] \in Nat
      /\ \A k \in Links : k # l => sent'[k] = sent[k] /\ seen'[k] = seen[k]
  BY <1>1, <1>3, LinksAssumption
<1>6. m \in Content /\ m # NULL /\ m.from = p
  <2>1. sent[l] + 1 \in 1 .. MaxMsg
    BY <1>1, <1>3, <1>5, LinksAssumption DEF Send
  <2> QED BY <1>3, <2>1, StructAssumption, MessageInContent DEF Message
<1>7. ~Queued(p, q) /\ \A s \in Proc : ~Queued(p, s) /\ ~Handed(s, p) /\ ~Handed(s, p)'
  BY <1>1, <1>3 DEF Queued, Handed
<1>8. CASE HandOver(p, q, "out", m)
  <2>1. /\ mem' = [mem EXCEPT ![p]["out"] = m, ![q][msg[q]] = m]
        /\ msg_block' = [msg_block EXCEPT ![q] = 0] /\ msg_block[q] = 1
        /\ UNCHANGED <<recv_from, send_to, msg, queueVars>>
    BY <1>8 DEF HandOver, CanHandOver
  <2>2. call[q] = "recv" /\ msg[q] = "in"
    BY <1>2, <1>4, <2>1 DEF Roles, Wishes
  <2>3. mem'[q]["in"] = m /\ \A r \in Proc : r # p /\ r # q => mem'[r] = mem[r]
    BY <1>1, <1>3, <2>1, <2>2, StructAssumption DEF MsgTypeOK
  <2>4. Wishes'
    BY <1>1, <1>2, <1>3, <2>1 DEF Wishes, MsgTypeOK
  <2>5. \A r \in Proc : msg_block'[r] = 1 => r # q /\ r # p /\ msg_block[r] = 1 /\ call'[r] = call[r]
    BY <1>1, <1>3, <2>1 DEF MsgTypeOK
  <2>6. ASSUME NEW r \in Proc, NEW s \in Proc, <<r, s>> \in Links PROVE Account(r, s)'
    <3>1. Account(r, s)
      BY <1>2, <2>6
    <3>2. CASE r = p /\ s = q
      <4>1. ~Handed(p, q)
        BY <2>1 DEF Handed
      <4>2. Handed(p, q)'
        BY <1>1, <1>3, <1>6, <2>1, <2>2, <2>3 DEF Handed, MsgTypeOK
      <4>3. ~Queued(p, q)'
        BY <1>3, <2>5 DEF Queued
      <4>4. sent[l] = seen[l]
        BY <1>4, <1>5, <1>7, <4>1 DEF Account
      <4>5. mem'[q]["in"] = Message(p, q, seen'[l] + 1)
        BY <1>5, <2>3, <4>4
      <4>6. sent'[l] = seen'[l] + 0 + 1
        BY <1>5, <4>4
      <4> QED BY <3>2, <4>2, <4>3, <4>5, <4>6 DEF Account
    <3>3. CASE r # p \/ s # q
      <4>1. <<r, s>> # l
        BY <3>3
      <4>2. Queued(r, s)' <=> Queued(r, s)
        <5>1. CASE r = p
          BY <1>7, <2>5, <5>1 DEF Queued
        <5>2. CASE r # p
          BY <1>1, <1>3, <1>4, <2>1, <5>2 DEF Queued, MsgTypeOK
        <5> QED BY <5>1, <5>2
      <4>3. Queued(r, s) => r # p /\ r # q /\ mem'[r][msg'[r]] = mem[r][msg[r]]
        BY <1>4, <1>7, <2>1, <2>3 DEF Queued
      <4>4. (Handed(r, s)' <=> Handed(r, s)) /\ (Handed(r, s) => mem'[s]["in"] = mem[s]["in"])
        <5>1. CASE s = p
          BY <1>7, <5>1
        <5>2. CASE s = q
          <6>1. ~Handed(r, s)
            BY <2>1, <5>2 DEF Handed
          <6>2. ~Handed(r, s)'
            BY <1>6, <2>3, <3>3, <5>2 DEF Handed
          <6> QED BY <6>1, <6>2
        <5>3. CASE s # p /\ s # q
          <6>1. mem'[s] = mem[s] /\ msg_block'[s] = msg_block[s] /\ call'[s] = call[s]
            BY <1>1, <1>3, <2>1, <2>3, <5>3 DEF MsgTypeOK
          <6> QED BY <6>1 DEF Handed
        <5> QED BY <5>1, <5>2, <5>3
      <4>5. sent'[<<r, s>>] = sent[<<r, s>>] /\ seen'[<<r, s>>] = seen[<<r, s>>]
        BY <1>5, <2>6, <4>1
      <4> QED BY <3>1, <4>2, <4>3, <4>4, <4>5, AccountStays
    <3> QED BY <3>2, <3>3
  <2> QED BY <2>4, <2>6
<1>9. CASE Enqueue(p, q, "out", m)
  <2>1. /\ mem' = [mem EXCEPT ![p]["out"] = m]
        /\ msg_block' = [msg_block EXCEPT ![p] = 1]
        /\ send_to' = [send_to EXCEPT ![p] = q]
        /\ msg' = [msg EXCEPT ![p] = "out"]
    BY <1>9 DEF Enqueue
  <2>2. /\ mem'[p]["out"] = m /\ msg'[p] = "out" /\ msg_block'[p] = 1 /\ send_to'[p] = q
        /\ call'[p] = "send"
        /\ \A r \in Proc : r # p => /\ mem'[r] = mem[r] /\ msg'[r] = msg[r] /\ send_to'[r] = send_to[r]
                                    /\ msg_block'[r] = msg_block[r] /\ call'[r] = call[r]
    BY <1>1, <1>3, <2>1, StructAssumption DEF MsgTypeOK
  <2>3. Wishes'
    BY <1>2, <1>3, <2>2 DEF Wishes
  <2>4. ASSUME NEW r \in Proc, NEW s \in Proc, <<r, s>> \in Links PROVE Account(r, s)'
    <3>1. Account(r, s)
      BY <1>2, <2>4
    <3>2. (Handed(r, s)' <=> Handed(r, s)) /\ (Handed(r, s) => mem'[s]["in"] = mem[s]["in"])
      <4>1. CASE s = p
        BY <1>7, <4>1
      <4>2. CASE s # p
        BY <2>2, <4>2 DEF Handed
      <4> QED BY <4>1, <4>2
    <3>3. CASE r = p /\ s = q
      <4>1. Queued(p, q)'
        BY <2>2 DEF Queued
      <4>2. sent[l] = seen[l] + 0 + (IF Handed(p, q) THEN 1 ELSE 0)
        BY <1>4, <1>7 DEF Account
      <4>3. sent'[l] = seen'[l] + 1 + (IF Handed(p, q)' THEN 1 ELSE 0)
        <5>1. CASE Handed(p, q)
          BY <1>5, <3>2, <3>3, <4>2, <5>1
        <5>2. CASE ~Handed(p, q)
          BY <1>5, <3>2, <3>3, <4>2, <5>2
        <5> QED BY <5>1, <5>2
      <4>4. mem'[p][msg'[p]] = Message(p, q, sent'[l])
        BY <1>5, <2>2
      <4>5. Handed(p, q)' => mem'[q]["in"] = Message(p, q, seen'[l] + 1)
        BY <1>4, <1>5, <3>2, <3>3 DEF Account
      <4> QED BY <3>3, <4>1, <4>3, <4>4, <4>5 DEF Account
    <3>4. CASE r # p \/ s # q
      <4>1. <<r, s>> # l
        BY <3>4
      <4>2. Queued(r, s)' <=> Queued(r, s)
        BY <1>7, <2>2, <3>4 DEF Queued
      <4>3. Queued(r, s) => mem'[r][msg'[r]] = mem[r][msg[r]]
        BY <1>7, <2>2
      <4>4. sent'[<<r, s>>] = sent[<<r, s>>] /\ seen'[<<r, s>>] = seen[<<r, s>>]
        BY <1>5, <2>4, <4>1
      <4> QED BY <3>1, <3>2, <4>2, <4>3, <4>4, AccountStays
    <3> QED BY <3>3, <3>4
  <2> QED BY <2>3, <2>4
<1> QED BY <1>8, <1>9 DEF Send, SysSendMessage, MsgSend

\* recv_message: a queued message moves into the receiver's structure.
LEMMA ReceiveAccount ==
  ASSUME IInv, QInv, EInv, NEW q \in Proc, NEW from \in Proc \cup {ANY}, Receive(q, from)
  PROVE  EInv'
<1> SUFFICES ASSUME OneWay
             PROVE  Wishes' /\ \A r, s \in Proc : <<r, s>> \in Links => Account(r, s)'
  BY DEF EInv, OneWay, Senders
<1>1. MsgTypeOK /\ call \in [Proc -> {"none", "send", "recv"}]
      /\ sent \in [Links -> 0 .. MaxMsg] /\ seen \in [Links -> 0 .. MaxMsg]
  BY DEF IInv, TypeOK
<1>2. /\ Wishes /\ (\A r, s \in Proc : <<r, s>> \in Links => Account(r, s))
      /\ \A r \in Proc : Queue(r) = BlockedOn(r)
  BY DEF QInv, EInv
<1>3. /\ msg_block[q] = 0 /\ call[q] = "none"
      /\ call' = [call EXCEPT ![q] = "recv"] /\ sent' = sent /\ seen' = seen
  BY DEF Receive, SysRecvMessage, MsgReceive, IInv, CurrentNotBlocked
<1>4. \A r \in Proc : ~Handed(r, q) /\ ~Queued(q, r) /\ ~Queued(q, r)'
  BY <1>1, <1>3 DEF Handed, Queued
<1>5. CASE TakeQueued(q, from, "in")
  <2>1. PICK t \in Queue(q) : /\ mem' = [mem EXCEPT ![q]["in"] = mem[t][msg[t]]]
                              /\ msg_block' = [msg_block EXCEPT ![t] = 0]
    BY <1>5 DEF TakeQueued
  <2>2. UNCHANGED <<send_to, msg>>
    BY <1>5 DEF TakeQueued
  <2>3. t \in Proc /\ t # q /\ Queued(t, q) /\ <<t, q>> \in Links
    BY <1>2, <1>3, <2>1 DEF BlockedOn, Queued, Wishes
  <2>4. mem[t][msg[t]] = Message(t, q, sent[<<t, q>>])
    BY <1>2, <2>3 DEF Account
  <2>5. /\ mem'[q]["in"] = Message(t, q, sent[<<t, q>>])
        /\ \A r \in Proc : r # q => mem'[r] = mem[r] /\ call'[r] = call[r]
        /\ \A r \in Proc : r # t => msg_block'[r] = msg_block[r]
        /\ msg_block'[t] = 0 /\ call'[q] = "recv" /\ msg_block'[q] = 0
    BY <1>1, <1>3, <2>1, <2>3, <2>4, StructAssumption DEF MsgTypeOK
  <2>6. Wishes'
    BY <1>2, <1>3, <2>2, <2>5 DEF Wishes
  <2>7. ASSUME NEW r \in Proc, NEW s \in Proc, <<r, s>> \in Links PROVE Account(r, s)'
    <3>1. Account(r, s)
      BY <1>2, <2>7
    <3>2. CASE r = t /\ s = q
      <4>1. ~Handed(t, q) /\ Queued(t, q) /\ ~Queued(t, q)'
        BY <1>4, <2>3, <2>5 DEF Queued
      <4>2. sent[<<t, q>>] = seen[<<t, q>>] + 1 /\ seen[<<t, q>>] \in Nat
        BY <1>1, <2>3, <3>1, <3>2, <4>1, LinksAssumption DEF Account
      <4>3. mem'[q]["in"] # NULL /\ mem'[q]["in"].from = t
        <5>1. sent[<<t, q>>] \in 1 .. MaxMsg
          BY <1>1, <2>3, <4>2, LinksAssumption
        <5>2. Message(t, q, sent[<<t, q>>]) # NULL
          <6>1. <<t, q>>[1] = t /\ <<t, q>>[2] = q
            OBVIOUS
          <6> QED BY <2>3, <5>1, <6>1, StructAssumption
        <5> QED BY <2>5, <5>2 DEF Message
      <4>4. Handed(t, q)'
        BY <2>5, <4>3 DEF Handed
      <4>5. sent'[<<t, q>>] = seen'[<<t, q>>] + 0 + 1
            /\ mem'[q]["in"] = Message(t, q, seen'[<<t, q>>] + 1)
        BY <1>3, <2>5, <4>2
      <4> QED BY <3>2, <4>1, <4>4, <4>5 DEF Account
    <3>3. CASE r # t \/ s # q
      <4>1. Queued(r, s)' <=> Queued(r, s)
        <5>1. CASE r = q
          BY <1>4, <5>1
        <5>2. CASE r = t
          <6>1. ~Queued(t, s)
            BY <2>3, <3>3, <5>2 DEF Queued
          <6> QED BY <2>5, <5>2, <6>1 DEF Queued
        <5>3. CASE r # q /\ r # t
          BY <2>2, <2>5, <5>3 DEF Queued
        <5> QED BY <5>1, <5>2, <5>3
      <4>2. Queued(r, s) => mem'[r][msg'[r]] = mem[r][msg[r]]
        BY <1>4, <2>2, <2>5
      <4>3. (Handed(r, s)' <=> Handed(r, s)) /\ (Handed(r, s) => mem'[s]["in"] = mem[s]["in"])
        <5>1. CASE s = q
          <6>1. ~Handed(r, q)'
            BY <2>5, <3>3, <5>1 DEF Handed, Message
          <6> QED BY <1>4, <5>1, <6>1
        <5>2. CASE s # q
          <6>1. call[t] = "send" /\ call'[t] = "send"
            BY <2>3, <2>5 DEF Queued
          <6>2. CASE s = t
            BY <6>1, <6>2 DEF Handed
          <6>3. CASE s # t
            BY <2>5, <5>2, <6>3 DEF Handed
          <6> QED BY <6>2, <6>3
        <5> QED BY <5>1, <5>2
      <4> QED BY <1>3, <3>1, <4>1, <4>2, <4>3, AccountStays
    <3> QED BY <3>2, <3>3
  <2> QED BY <2>6, <2>7
<1>6. CASE AwaitSender(q, from, "in")
  <2>1. /\ msg_block' = [msg_block EXCEPT ![q] = 1] /\ msg' = [msg EXCEPT ![q] = "in"]
        /\ UNCHANGED <<send_to, mem>>
    BY <1>6 DEF AwaitSender
  <2>2. /\ msg_block'[q] = 1 /\ call'[q] = "recv" /\ msg'[q] = "in"
        /\ \A r \in Proc : r # q => /\ msg'[r] = msg[r] /\ msg_block'[r] = msg_block[r]
                                    /\ call'[r] = call[r]
    BY <1>1, <1>3, <2>1 DEF MsgTypeOK
  <2>3. Wishes'
    BY <1>2, <2>1, <2>2 DEF Wishes
  <2>4. ASSUME NEW r \in Proc, NEW s \in Proc, <<r, s>> \in Links PROVE Account(r, s)'
    <3>1. Account(r, s)
      BY <1>2, <2>4
    <3>2. (Queued(r, s)' <=> Queued(r, s)) /\ (Queued(r, s) => mem'[r][msg'[r]] = mem[r][msg[r]])
      <4>1. CASE r = q
        BY <1>4, <4>1
      <4>2. CASE r # q
        BY <2>1, <2>2, <4>2 DEF Queued
      <4> QED BY <4>1, <4>2
    <3>3. Handed(r, s)' <=> Handed(r, s)
      <4>1. CASE s = q
        BY <1>4, <2>2, <4>1 DEF Handed
      <4>2. CASE s # q
        BY <2>1, <2>2, <4>2 DEF Handed
      <4> QED BY <4>1, <4>2
    <3> QED BY <1>3, <2>1, <3>1, <3>2, <3>3, AccountStays
  <2> QED BY <2>3, <2>4
<1> QED BY <1>5, <1>6 DEF Receive, SysRecvMessage, MsgReceive

\* A receiver that returns has seen what was in its structure.
LEMMA ReturnAccount ==
  ASSUME IInv, EInv, NEW p \in Proc, Return(p) PROVE EInv'
<1> SUFFICES ASSUME OneWay
             PROVE  Wishes' /\ \A r, s \in Proc : <<r, s>> \in Links => Account(r, s)'
  BY DEF EInv, OneWay, Senders
<1>1. call \in [Proc -> {"none", "send", "recv"}] /\ seen \in [Links -> 0 .. MaxMsg]
      /\ sent \in [Links -> 0 .. MaxMsg]
  BY DEF IInv, TypeOK
<1>2. Wishes /\ \A r, s \in Proc : <<r, s>> \in Links => Account(r, s)
  BY DEF EInv
<1>3. /\ msg_block[p] = 0 /\ call' = [call EXCEPT ![p] = "none"] /\ sent' = sent
      /\ UNCHANGED <<msg_block, send_to, msg, mem>>
  BY DEF Return, IInv, CurrentNotBlocked, msgVars
<1>4. call'[p] = "none" /\ \A r \in Proc : r # p => call'[r] = call[r]
  BY <1>1, <1>3
<1>5. Wishes'
  BY <1>2, <1>3, <1>4 DEF Wishes
<1>6. ASSUME NEW r \in Proc, NEW s \in Proc, <<r, s>> \in Links PROVE Account(r, s)'
  <2>1. Account(r, s)
    BY <1>2, <1>6
  <2>2. Queued(r, s)' <=> Queued(r, s)
    BY <1>3, <1>4 DEF Queued
  <2>3. <<r, s>>[1] = r /\ <<r, s>>[2] = s
    OBVIOUS
  <2>4. CASE s = p /\ Handed(r, p)
    <3>1. ~Handed(r, p)'
      BY <1>4 DEF Handed
    <3>2. mem[p]["in"] = Message(r, p, seen[<<r, p>>] + 1)
          /\ sent[<<r, p>>] = seen[<<r, p>>] + (IF Queued(r, p) THEN 1 ELSE 0) + 1
      BY <2>1, <2>4 DEF Account
    <3>3. seen'[<<r, p>>] = seen[<<r, p>>] + 1
      <4>1. call[p] = "recv" /\ mem[p]["in"] # NULL /\ mem[p]["in"].from = r
        BY <2>4 DEF Handed
      <4>2. mem[p]["in"].n = seen[<<r, p>>] + 1
        BY <3>2 DEF Message
      <4> QED BY <1>6, <2>4, <4>1, <4>2 DEF Return
    <3>4. seen[<<r, p>>] \in Nat /\ sent[<<r, p>>] \in Nat
      BY <1>1, <1>6, <2>4, LinksAssumption
    <3>5. sent'[<<r, p>>] = seen'[<<r, p>>] + (IF Queued(r, p)' THEN 1 ELSE 0) + 0
      <4>1. CASE Queued(r, p)
        BY <1>3, <2>2, <2>4, <3>2, <3>3, <3>4, <4>1
      <4>2. CASE ~Queued(r, p)
        BY <1>3, <2>2, <2>4, <3>2, <3>3, <3>4, <4>2
      <4> QED BY <4>1, <4>2
    <3>6. Queued(r, p)' => mem'[r][msg'[r]] = Message(r, p, sent'[<<r, p>>])
      BY <1>3, <2>1, <2>2, <2>4 DEF Account
    <3> QED BY <2>4, <3>1, <3>5, <3>6 DEF Account
  <2>5. CASE ~(s = p /\ Handed(r, p))
    <3>1. seen'[<<r, s>>] = seen[<<r, s>>]
      <4>1. CASE call[p] # "recv"
        BY <4>1 DEF Return
      <4>2. CASE call[p] = "recv"
        <5>1. ~(mem[p]["in"] # NULL /\ <<r, s>> = <<mem[p]["in"].from, p>>)
          <6>1. SUFFICES ASSUME mem[p]["in"] # NULL, <<r, s>> = <<mem[p]["in"].from, p>> PROVE FALSE
            OBVIOUS
          <6>2. s = p /\ mem[p]["in"].from = r
            BY <6>1
          <6>3. Handed(r, p)
            BY <1>3, <4>2, <6>1, <6>2 DEF Handed
          <6> QED BY <2>5, <6>2, <6>3
        <5> QED BY <1>6, <4>2, <5>1 DEF Return
      <4> QED BY <4>1, <4>2
    <3>2. Handed(r, s)' <=> Handed(r, s)
      BY <1>3, <1>4, <2>5 DEF Handed
    <3> QED BY <1>3, <2>1, <2>2, <3>1, <3>2, AccountStays
  <2> QED BY <2>4, <2>5
<1> QED BY <1>5, <1>6

\* Every step keeps the accounts.
LEMMA StepAccount ==
  ASSUME IInv, QInv, EInv, [Next]_vars PROVE EInv'
<1>1. CASE Tick \/ UNCHANGED vars
  <2>1. UNCHANGED <<msg_block, send_to, msg, mem, call, sent, seen>>
    BY <1>1 DEF Tick, ClockHandler, vars, msgVars, clientVars
  <2>2. \A p, q \in Proc : (Queued(p, q)' <=> Queued(p, q)) /\ (Handed(p, q)' <=> Handed(p, q))
    BY <2>1 DEF Queued, Handed
  <2>3. \A p, q \in Proc : Account(p, q) => Account(p, q)'
    BY <2>1, <2>2, AccountStays
  <2> QED BY <2>1, <2>3 DEF EInv, Wishes, OneWay, Senders
<1> QED BY <1>1, SendAccount, ReceiveAccount, ReturnAccount DEF Next, ProcStep

\* The messages on their way, in every state of a one-way mix.
THEOREM AccountInvariance == Spec => []EInv
<1>1. Init => EInv
  <2> SUFFICES ASSUME Init, NEW p \in Proc, NEW q \in Proc, <<p, q>> \in Links
               PROVE  Wishes /\ Account(p, q)
    BY DEF EInv, Init, MsgInit, Wishes
  <2>1. \A r \in Proc : msg_block[r] = 0 /\ call[r] = "none"
    BY DEF Init, MsgInit
  <2>2. sent[<<p, q>>] = 0 /\ seen[<<p, q>>] = 0 /\ ~Queued(p, q) /\ ~Handed(p, q)
    BY <2>1 DEF Init, Queued, Handed
  <2> QED BY <2>1, <2>2 DEF Wishes, Account
<1>2. IInv /\ QInv /\ EInv /\ [Next]_vars => EInv'
  BY StepAccount
<1> QED BY <1>1, <1>2, Invariance, QueueInvariance, PTL DEF Spec

\* msg_send and msg_receive, in a one-way mix: each message is received once,
\* unchanged and in the order sent.
THEOREM MessagesExactlyOnce == Spec => []ExactlyOnce
<1>1. EInv => ExactlyOnce
  <2> SUFFICES ASSUME EInv, OneWay, NEW l \in Links
               PROVE  LET p == l[1]  q == l[2]
                          OnWay(b) == IF b THEN 1 ELSE 0
                      IN /\ sent[l] = seen[l] + OnWay(Queued(p, q)) + OnWay(Handed(p, q))
                         /\ Queued(p, q) => mem[p][msg[p]] = Message(p, q, sent[l])
                         /\ Handed(p, q) => mem[q]["in"] = Message(p, q, seen[l] + 1)
    BY DEF ExactlyOnce
  <2>1. PICK p \in Proc, q \in Proc : l = <<p, q>>
    BY LinksAssumption
  <2>2. l[1] = p /\ l[2] = q
    BY <2>1
  <2>3. Account(p, q)
    BY <2>1 DEF EInv
  <2> QED BY <2>1, <2>2, <2>3 DEF Account
<1> QED BY <1>1, AccountInvariance, PTL

--------------------------------------------------------------------------------
(* Part 5: lines.  The senders queued at a process, read along the links,   *)
(* are a sequence without repetition; the line of Rendezvous is made of it. *)

\* The sequence s is what a walk along the links nx finds that starts at h.
IsChain(s, h, nx) ==
  /\ s \in Seq(Proc) /\ (Len(s) = 0 <=> h = NULL)
  /\ Len(s) > 0 => s[1] = h /\ nx[s[Len(s)]] = NULL
  /\ \A k \in 1 .. Len(s) : k < Len(s) => nx[s[k]] = s[k + 1]

Item(m, pt, t) == [from |-> t, body |-> m[t][pt[t]]]

Items(m, pt) == {Item(m, pt, t) : t \in Proc}

Made(s, m, pt) == [k \in 1 .. Len(s) |-> Item(m, pt, s[k])]

\* LineOf, with the state it reads as arguments.
LineFrom(h, nx, m, pt) ==
  LET walk[t \in Proc] ==
        <<[from |-> t, body |-> m[t][pt[t]]]>>
        \o (IF nx[t] = NULL THEN << >> ELSE walk[nx[t]])
  IN  IF h = NULL THEN << >> ELSE walk[h]

\* LineOf walks from the head of the queue.
LEMMA LineOfFrom ==
  ASSUME NEW q PROVE LineOf(q) = LineFrom(msg_head[q], msg_next, mem, msg)
BY Zenon DEF LineOf, LineFrom

\* What a chain begins with and what follows.
LEMMA ChainJoin ==
  ASSUME NEW nx \in Links2, NEW t \in Proc, NEW u, IsChain(u, nx[t], nx), NEW s, s = <<t>> \o u
  PROVE  IsChain(s, t, nx)
<1>1. u \in Seq(Proc) /\ Len(u) \in Nat
  BY DEF IsChain
<1>2. s \in Seq(Proc) /\ Len(s) = Len(u) + 1 /\ s[1] = t /\ \A k \in 1 .. Len(u) : s[k + 1] = u[k]
  BY <1>1
<1>3. nx[s[Len(s)]] = NULL
  <2>1. CASE Len(u) = 0
    BY <1>2, <2>1 DEF IsChain
  <2>2. CASE Len(u) > 0
    <3>1. Len(u) \in 1 .. Len(u)
      BY <1>1, <2>2
    <3> QED BY <1>2, <2>2, <3>1 DEF IsChain
  <2> QED BY <1>1, <2>1, <2>2
<1>4. ASSUME NEW k \in 1 .. Len(s), k < Len(s) PROVE nx[s[k]] = s[k + 1]
  <2>1. CASE k = 1
    <3>1. Len(u) > 0 /\ 1 \in 1 .. Len(u)
      BY <1>1, <1>2, <1>4, <2>1
    <3>2. nx[t] = u[1] /\ s[1 + 1] = u[1]
      BY <1>2, <3>1 DEF IsChain
    <3> QED BY <1>2, <2>1, <3>2
  <2>2. CASE k # 1
    <3>1. k - 1 \in 1 .. Len(u) /\ k \in 1 .. Len(u) /\ k - 1 < Len(u)
      BY <1>1, <1>2, <1>4, <2>2
    <3>2. s[(k - 1) + 1] = u[k - 1] /\ s[k + 1] = u[k] /\ nx[u[k - 1]] = u[(k - 1) + 1]
      BY <1>2, <3>1 DEF IsChain
    <3>3. (k - 1) + 1 = k
      BY <1>4
    <3> QED BY <3>2, <3>3
  <2> QED BY <2>1, <2>2
<1>5. t # NULL
  BY NullApart
<1> QED BY <1>1, <1>2, <1>3, <1>4, <1>5 DEF IsChain

\* Without its first process a chain is the chain of the next one.
LEMMA ChainTail ==
  ASSUME NEW nx \in Links2, NEW t \in Proc, NEW s, IsChain(s, t, nx)
  PROVE  IsChain(Tail(s), nx[t], nx) /\ s = <<t>> \o Tail(s)
<1> DEFINE u == Tail(s)
<1>1. s \in Seq(Proc) /\ Len(s) \in Nat /\ Len(s) > 0 /\ s[1] = t
  BY NullApart DEF IsChain
<1>2. u \in Seq(Proc) /\ Len(u) = Len(s) - 1 /\ \A k \in 1 .. Len(u) : u[k] = s[k + 1]
  BY <1>1
<1>3. s = <<t>> \o u
  BY <1>1
<1> HIDE DEF u
<1>4. Len(u) = 0 <=> nx[t] = NULL
  <2>1. CASE Len(u) = 0
    <3>1. Len(s) = 1
      BY <1>1, <1>2, <2>1
    <3>2. nx[s[Len(s)]] = NULL
      BY <1>1 DEF IsChain
    <3> QED BY <1>1, <2>1, <3>1, <3>2
  <2>2. CASE Len(u) # 0
    <3>1. 1 \in 1 .. Len(s) /\ 1 < Len(s) /\ 1 + 1 \in 1 .. Len(s)
      BY <1>1, <1>2, <2>2
    <3>2. nx[t] = s[1 + 1] /\ s[1 + 1] \in Proc
      BY <1>1, <3>1 DEF IsChain
    <3> QED BY <2>2, <3>2, NullApart
  <2> QED BY <2>1, <2>2
<1>5. ASSUME Len(u) > 0 PROVE u[1] = nx[t] /\ nx[u[Len(u)]] = NULL
  <2>1. 1 \in 1 .. Len(s) /\ 1 < Len(s) /\ 1 \in 1 .. Len(u) /\ Len(u) \in 1 .. Len(u) /\ Len(u) + 1 = Len(s)
    BY <1>1, <1>2, <1>5
  <2>2. u[1] = s[1 + 1] /\ u[Len(u)] = s[Len(u) + 1] /\ nx[s[1]] = s[1 + 1]
    BY <1>2, <2>1 DEF IsChain
  <2> QED BY <1>1, <2>1, <2>2 DEF IsChain
<1>6. ASSUME NEW k \in 1 .. Len(u), k < Len(u) PROVE nx[u[k]] = u[k + 1]
  <2>1. k + 1 \in 1 .. Len(u) /\ k + 1 \in 1 .. Len(s) /\ k + 1 < Len(s)
    BY <1>1, <1>2, <1>6
  <2>2. u[k] = s[k + 1] /\ u[k + 1] = s[(k + 1) + 1] /\ nx[s[k + 1]] = s[(k + 1) + 1]
    BY <1>2, <2>1 DEF IsChain
  <2> QED BY <2>2
<1> QED BY <1>2, <1>3, <1>4, <1>5, <1>6 DEF IsChain, u

\* The links have no cycle, so that the walk from anywhere ends, in one way.
LEMMA ChainExists ==
  ASSUME NEW nx \in Links2, Acyclic(nx), NEW h \in Proc \cup {NULL}
  PROVE  \E s : IsChain(s, h, nx)
<1>1. IsChain(<< >>, NULL, nx)
  BY DEF IsChain
<1> DEFINE Bad == {t \in Proc : ~\E s : IsChain(s, t, nx)}
<1>2. Bad = {}
  <2> SUFFICES ASSUME Bad # {} PROVE FALSE
    OBVIOUS
  <2>1. PICK t \in Bad : nx[t] \notin Bad
    BY DEF Acyclic
  <2>2. t \in Proc /\ nx[t] \in Proc \cup {NULL}
    BY DEF Links2
  <2>3. PICK u : IsChain(u, nx[t], nx)
    BY <1>1, <2>1, <2>2
  <2>4. IsChain(<<t>> \o u, t, nx)
    BY <2>2, <2>3, ChainJoin
  <2> QED BY <2>1, <2>4
<1> QED BY <1>1, <1>2

\* Two walks from one place meet the same processes in the same order.
LEMMA ChainUnique ==
  ASSUME NEW nx \in Links2, Acyclic(nx), NEW h \in Proc \cup {NULL},
         NEW s, NEW u, IsChain(s, h, nx), IsChain(u, h, nx)
  PROVE  s = u
<1> DEFINE Bad == {t \in Proc : \E a, b : IsChain(a, t, nx) /\ IsChain(b, t, nx) /\ a # b}
<1>1. \A a, b : IsChain(a, NULL, nx) /\ IsChain(b, NULL, nx) => a = b
  BY DEF IsChain
<1>2. Bad = {}
  <2> SUFFICES ASSUME Bad # {} PROVE FALSE
    OBVIOUS
  <2>1. PICK t \in Bad : nx[t] \notin Bad
    BY DEF Acyclic
  <2>2. t \in Proc /\ nx[t] \in Proc \cup {NULL}
    BY DEF Links2
  <2>3. PICK a, b : IsChain(a, t, nx) /\ IsChain(b, t, nx) /\ a # b
    BY <2>1
  <2>4. /\ IsChain(Tail(a), nx[t], nx) /\ a = <<t>> \o Tail(a)
        /\ IsChain(Tail(b), nx[t], nx) /\ b = <<t>> \o Tail(b)
    BY <2>2, <2>3, ChainTail
  <2>5. Tail(a) = Tail(b)
    BY <1>1, <2>1, <2>2, <2>4
  <2> QED BY <2>3, <2>4, <2>5
<1> QED BY <1>1, <1>2

\* The recursive function of LineOf computes the line.
Walk(f, nx, m, pt) ==
  [t \in Proc |-> <<[from |-> t, body |-> m[t][pt[t]]]>> \o (IF nx[t] = NULL THEN << >> ELSE f[nx[t]])]

\* The line has as many items as the chain has processes.
LEMMA MadeSeq ==
  ASSUME NEW s \in Seq(Proc), NEW m, NEW pt
  PROVE  /\ Made(s, m, pt) \in Seq(Items(m, pt))
         /\ Len(Made(s, m, pt)) = Len(s) /\ DOMAIN Made(s, m, pt) = 1 .. Len(s)
         /\ \A k \in 1 .. Len(s) : Made(s, m, pt)[k] = Item(m, pt, s[k])
<1> DEFINE B == Items(m, pt)
           l == Made(s, m, pt)
<1>1. Len(s) \in Nat /\ \A k \in 1 .. Len(s) : s[k] \in Proc
  OBVIOUS
<1>2. /\ l = [k \in 1 .. Len(s) |-> Item(m, pt, s[k])] /\ \A k \in 1 .. Len(s) : Item(m, pt, s[k]) \in B
  BY <1>1 DEF Made, Items
<1>3. l \in [1 .. Len(s) -> B] /\ \A k \in 1 .. Len(s) : l[k] = Item(m, pt, s[k])
  <2> HIDE DEF B, l
  <2> QED BY <1>2
<1> HIDE DEF B, l
<1>4. l \in Seq(B) /\ Len(l) = Len(s) /\ DOMAIN l = 1 .. Len(s)
  BY <1>1, <1>3
<1> QED BY <1>3, <1>4 DEF B, l

\* The item of the first process, then those of the rest.
LEMMA MadeJoin ==
  ASSUME NEW u \in Seq(Proc), NEW t \in Proc, NEW m, NEW pt
  PROVE  Made(<<t>> \o u, m, pt) = <<Item(m, pt, t)>> \o Made(u, m, pt)
<1> DEFINE s == <<t>> \o u
           B == Items(m, pt)
<1>1. s \in Seq(Proc) /\ Len(s) = Len(u) + 1 /\ s[1] = t /\ (\A k \in 1 .. Len(u) : s[k + 1] = u[k]) /\ Len(u) \in Nat
  OBVIOUS
<1> HIDE DEF s
<1>2. PICK l : l = Made(s, m, pt)
  OBVIOUS
<1>3. PICK k : k = Made(u, m, pt)
  OBVIOUS
<1>4. /\ l \in Seq(B) /\ Len(l) = Len(s) /\ \A j \in 1 .. Len(s) : l[j] = Item(m, pt, s[j])
      /\ k \in Seq(B) /\ Len(k) = Len(u) /\ \A j \in 1 .. Len(u) : k[j] = Item(m, pt, u[j])
  BY <1>1, <1>2, <1>3, MadeSeq
<1>5. PICK i \in B : i = Item(m, pt, t)
  BY DEF Items
<1> HIDE DEF B
<1>6. /\ <<i>> \o k \in Seq(B) /\ Len(<<i>> \o k) = Len(u) + 1 /\ (<<i>> \o k)[1] = i
      /\ \A j \in 1 .. Len(u) : (<<i>> \o k)[j + 1] = k[j]
  BY <1>1, <1>4
<1>7. PICK g : g = <<i>> \o k
  OBVIOUS
<1>8. \A j \in 1 .. Len(u) + 1 : g[j] = l[j]
  <2> TAKE j \in 1 .. Len(u) + 1
  <2>1. CASE j = 1
    BY <1>1, <1>4, <1>5, <1>6, <1>7, <2>1
  <2>2. CASE j # 1
    <3>1. j - 1 \in 1 .. Len(u) /\ (j - 1) + 1 = j
      BY <1>1, <2>2
    <3>2. g[(j - 1) + 1] = k[j - 1] /\ s[(j - 1) + 1] = u[j - 1]
      BY <1>1, <1>6, <1>7, <3>1
    <3> QED BY <1>1, <1>4, <3>1, <3>2
  <2> QED BY <2>1, <2>2
<1>9. g = l
  <2>1. g \in Seq(B) /\ l \in Seq(B) /\ Len(g) = Len(l)
    BY <1>1, <1>4, <1>6, <1>7
  <2> QED BY <1>1, <1>4, <1>8, <2>1
<1> QED BY <1>2, <1>3, <1>5, <1>7, <1>9 DEF s

ChainsAt(c, nx) == \A r \in Proc : IsChain(c[r], r, nx)
MadeAt(f, c, m, pt) == \A r \in Proc : f[r] = Made(c[r], m, pt)

\* Chains from everywhere, made into items, satisfy the equation of the walk.
LEMMA WalkExists ==
  ASSUME NEW nx \in Links2, Acyclic(nx), NEW m, NEW pt, NEW c, NEW f,
         ChainsAt(c, nx), MadeAt(f, c, m, pt), NEW t \in Proc
  PROVE  f[t] = <<Item(m, pt, t)>> \o (IF nx[t] = NULL THEN << >> ELSE f[nx[t]])
<1>1. nx[t] \in Proc \cup {NULL}
  BY DEF Links2
<1>2. f[t] = Made(c[t], m, pt) /\ IsChain(c[t], t, nx)
  BY DEF ChainsAt, MadeAt
<1>3. CASE nx[t] = NULL
  <2>0. << >> \in Seq(Proc)
    OBVIOUS
  <2>1. PICK u \in Seq(Proc) : u = << >>
    BY <2>0, Zenon
  <2>2. IsChain(u, nx[t], nx)
    BY <1>3, <2>1 DEF IsChain
  <2>3. IsChain(<<t>> \o u, t, nx)
    BY <2>2, ChainJoin
  <2>4. c[t] = <<t>> \o u
    BY <1>2, <2>3, ChainUnique
  <2>5. Made(<<t>> \o u, m, pt) = <<Item(m, pt, t)>> \o Made(u, m, pt)
    BY MadeJoin
  <2>6. Made(u, m, pt) = << >>
    BY <2>1 DEF Made
  <2> QED BY <1>2, <1>3, <2>4, <2>5, <2>6, Zenon
<1>4. CASE nx[t] # NULL
  <2>1. nx[t] \in Proc
    BY <1>1, <1>4
  <2>2. \A r \in Proc : IsChain(c[r], r, nx) /\ f[r] = Made(c[r], m, pt)
    BY DEF ChainsAt, MadeAt
  <2>u. PICK u : u = c[nx[t]]
    OBVIOUS
  <2>3. IsChain(u, nx[t], nx) /\ f[nx[t]] = Made(u, m, pt)
    BY <2>1, <2>2, <2>u, Zenon
  <2>4. IsChain(<<t>> \o u, t, nx)
    BY <2>3, ChainJoin
  <2>5. c[t] = <<t>> \o u
    BY <1>2, <2>4, ChainUnique
  <2>6. u \in Seq(Proc)
    BY <2>3 DEF IsChain
  <2>7. Made(<<t>> \o u, m, pt) = <<Item(m, pt, t)>> \o Made(u, m, pt)
    BY <2>6, MadeJoin
  <2> QED BY <1>2, <1>4, <2>3, <2>5, <2>7, Zenon
<1> QED BY <1>3, <1>4

\* LineFrom yields the items of the chain that starts at h.
LEMMA LineMade ==
  ASSUME NEW nx \in Links2, Acyclic(nx), NEW h \in Proc \cup {NULL}, NEW m, NEW pt, NEW s, IsChain(s, h, nx)
  PROVE  LineFrom(h, nx, m, pt) = Made(s, m, pt)
<1>1. CASE h = NULL
  <2>1. LineFrom(h, nx, m, pt) = << >>
    BY <1>1, Zenon DEF LineFrom
  <2>2. s = << >>
    BY <1>1 DEF IsChain
  <2>3. Made(<< >>, m, pt) = << >>
    BY DEF Made
  <2> QED BY <2>1, <2>2, <2>3
<1>2. CASE h # NULL
  <2> DEFINE g == CHOOSE f : f = [t \in Proc |-> <<[from |-> t, body |-> m[t][pt[t]]]>>
                                                \o (IF nx[t] = NULL THEN << >> ELSE f[nx[t]])]
             c == [t \in Proc |-> CHOOSE x : IsChain(x, t, nx)]
             d == [t \in Proc |-> Made(c[t], m, pt)]
  <2>1. LineFrom(h, nx, m, pt) = g[h]
    BY <1>2, Zenon DEF LineFrom
  <2>c. ChainsAt(c, nx)
    <3> SUFFICES ASSUME NEW r \in Proc PROVE IsChain(c[r], r, nx)
      BY Zenon DEF ChainsAt
    <3>1. \E x : IsChain(x, r, nx)
      BY ChainExists
    <3>2. c[r] = CHOOSE x : IsChain(x, r, nx)
      BY Zenon
    <3> QED BY <3>1, <3>2, Zenon
  <2>d. \A r \in Proc : d[r] = Made(c[r], m, pt)
    <3> HIDE DEF c
    <3> QED BY Zenon
  <2>e. d = [r \in Proc |-> d[r]]
    <3> HIDE DEF c
    <3> QED BY Zenon
  <2>2. d = Walk(d, nx, m, pt)
    <3> HIDE DEF c, d
    <3>1. \A t \in Proc : d[t] = <<Item(m, pt, t)>> \o (IF nx[t] = NULL THEN << >> ELSE d[nx[t]])
      <4> SUFFICES ASSUME NEW t \in Proc
                   PROVE  d[t] = <<Item(m, pt, t)>> \o (IF nx[t] = NULL THEN << >> ELSE d[nx[t]])
        BY Zenon
      <4>1. MadeAt(d, c, m, pt)
        BY <2>d, Zenon DEF MadeAt
      <4> QED BY <2>c, <4>1, WalkExists
    <3>2. [t \in Proc |-> d[t]] = [t \in Proc |-> <<Item(m, pt, t)>> \o (IF nx[t] = NULL THEN << >> ELSE d[nx[t]])]
      BY <3>1, Zenon
    <3> QED BY <2>e, <3>2, Zenon DEF Walk, Item
  <2>3. g = Walk(g, nx, m, pt)
    <3>1. \E f : f = Walk(f, nx, m, pt)
      <4> HIDE DEF d
      <4> QED BY <2>2
    <3>2. \E f : f = [t \in Proc |-> <<[from |-> t, body |-> m[t][pt[t]]]>> \o (IF nx[t] = NULL THEN << >> ELSE f[nx[t]])]
      BY <3>1, Zenon DEF Walk
    <3>3. g = [t \in Proc |-> <<[from |-> t, body |-> m[t][pt[t]]]>> \o (IF nx[t] = NULL THEN << >> ELSE g[nx[t]])]
      BY <3>2, Zenon
    <3> HIDE DEF g
    <3> QED BY <3>3, Zenon DEF Walk
  <2>4. d[h] = Made(s, m, pt)
    <3>1. h \in Proc
      BY <1>2
    <3>2. \E x : IsChain(x, h, nx)
      BY ChainExists
    <3>3. c[h] = CHOOSE x : IsChain(x, h, nx)
      BY <3>1
    <3>4. IsChain(c[h], h, nx)
      BY <3>2, <3>3, Zenon
    <3>5. d[h] = Made(c[h], m, pt)
      BY <3>1
    <3> HIDE DEF c, d
    <3>6. c[h] = s
      BY <3>4, ChainUnique
    <3> QED BY <3>5, <3>6
  <2> HIDE DEF g, c, d
  <2> DEFINE Bad == {t \in Proc : g[t] # d[t]}
  <2>5. \A t \in Proc : /\ g[t] = <<Item(m, pt, t)>> \o (IF nx[t] = NULL THEN << >> ELSE g[nx[t]])
                        /\ d[t] = <<Item(m, pt, t)>> \o (IF nx[t] = NULL THEN << >> ELSE d[nx[t]])
    <3> TAKE t \in Proc
    <3>1. \A f : Walk(f, nx, m, pt)[t] = <<Item(m, pt, t)>> \o (IF nx[t] = NULL THEN << >> ELSE f[nx[t]])
      BY Zenon DEF Walk, Item
    <3>2. g[t] = Walk(g, nx, m, pt)[t] /\ d[t] = Walk(d, nx, m, pt)[t]
      BY <2>2, <2>3, Zenon
    <3> QED BY <3>1, <3>2, Zenon
  <2>6. Bad = {}
    <3> SUFFICES ASSUME Bad # {} PROVE FALSE
      OBVIOUS
    <3>1. PICK t \in Bad : nx[t] \notin Bad
      BY DEF Acyclic
    <3>2. t \in Proc /\ nx[t] \in Proc \cup {NULL} /\ g[t] # d[t]
      BY <3>1 DEF Links2
    <3>3. nx[t] # NULL => g[nx[t]] = d[nx[t]]
      BY <3>1, <3>2
    <3>4. CASE nx[t] = NULL
      <4>1. g[t] = <<Item(m, pt, t)>> \o << >> /\ d[t] = <<Item(m, pt, t)>> \o << >>
        BY <2>5, <3>2, <3>4, Zenon
      <4> QED BY <3>2, <4>1, Zenon
    <3>5. CASE nx[t] # NULL
      <4>1. g[t] = <<Item(m, pt, t)>> \o g[nx[t]] /\ d[t] = <<Item(m, pt, t)>> \o d[nx[t]]
        BY <2>5, <3>2, <3>5, Zenon
      <4> QED BY <3>2, <3>3, <3>5, <4>1, Zenon
    <3> QED BY <3>4, <3>5
  <2> QED BY <1>2, <2>1, <2>4, <2>6
<1> QED BY <1>1, <1>2

\* The processes of a chain are those the walk meets, each of them once.
Has(s) == {s[k] : k \in 1 .. Len(s)}

Once(s) == \A i, j \in 1 .. Len(s) : s[i] = s[j] => i = j

\* What is met from the next process is met from this one.
LEMMA ReachTail ==
  ASSUME NEW nx \in Links2, NEW t \in Proc PROVE Reach(nx, nx[t]) \subseteq Reach(nx, t)
<1> DEFINE S == Reach(nx, t)
<1>1. S \in SUBSET Proc /\ t \in S
  BY ReachInProc, ReachStart
<1>2. nx[t] \in S \cup {NULL} /\ \A x \in S : nx[x] \in S \cup {NULL}
  BY <1>1, ReachNext
<1> HIDE DEF S
<1>3. Reach(nx, nx[t]) \subseteq S
  BY <1>1, <1>2, ReachWithin
<1> QED BY <1>3 DEF S

\* A walk never leaves its chain, and never turns back.
LEMMA ChainWithin ==
  ASSUME NEW nx \in Links2, NEW h \in Proc \cup {NULL}, NEW s, IsChain(s, h, nx), NEW i \in 1 .. Len(s)
  PROVE  /\ Reach(nx, h) \subseteq Has(s)
         /\ Reach(nx, s[i]) \subseteq {s[k] : k \in i .. Len(s)}
<1>1. s \in Seq(Proc) /\ Len(s) \in Nat /\ i \in Nat /\ h = s[1] /\ 1 \in 1 .. Len(s)
  BY DEF IsChain
<1>2. ASSUME NEW j \in 1 .. Len(s) PROVE Reach(nx, s[j]) \subseteq {s[k] : k \in j .. Len(s)}
  <2> DEFINE S == {s[k] : k \in j .. Len(s)}
  <2>1. S \in SUBSET Proc /\ s[j] \in S
    BY <1>1
  <2>2. ASSUME NEW x \in S PROVE nx[x] \in S \cup {NULL}
    <3>1. PICK k \in j .. Len(s) : x = s[k]
      OBVIOUS
    <3>2. CASE k < Len(s)
      <4>1. nx[s[k]] = s[k + 1] /\ k + 1 \in j .. Len(s)
        BY <1>1, <3>2 DEF IsChain
      <4> QED BY <3>1, <4>1
    <3>3. CASE k = Len(s)
      BY <1>1, <3>1, <3>3 DEF IsChain
    <3> QED BY <1>1, <3>2, <3>3
  <2> HIDE DEF S
  <2>3. Reach(nx, s[j]) \subseteq S
    BY <2>1, <2>2, ReachWithin
  <2> QED BY <2>3 DEF S
<1> QED BY <1>1, <1>2 DEF Has

\* A chain holds exactly the processes the walk meets.
LEMMA ChainElems ==
  ASSUME NEW nx \in Links2, Acyclic(nx), NEW h \in Proc \cup {NULL}, NEW s, IsChain(s, h, nx)
  PROVE  Has(s) = Reach(nx, h)
<1> DEFINE Bad == {t \in Proc : \E a : IsChain(a, t, nx) /\ ~(Has(a) \subseteq Reach(nx, t))}
<1>1. \A a : IsChain(a, NULL, nx) => Has(a) = {}
  BY DEF IsChain, Has
<1>2. Bad = {}
  <2> SUFFICES ASSUME Bad # {} PROVE FALSE
    OBVIOUS
  <2>1. PICK t \in Bad : nx[t] \notin Bad
    BY DEF Acyclic
  <2>2. t \in Proc /\ nx[t] \in Proc \cup {NULL}
    BY DEF Links2
  <2>3. PICK a : IsChain(a, t, nx) /\ ~(Has(a) \subseteq Reach(nx, t))
    BY <2>1
  <2>4. PICK u : u = Tail(a)
    OBVIOUS
  <2>5. IsChain(u, nx[t], nx) /\ a = <<t>> \o u
    BY <2>2, <2>3, <2>4, ChainTail
  <2>6. Has(u) \subseteq Reach(nx, nx[t])
    <3>1. CASE nx[t] = NULL
      BY <1>1, <2>5, <3>1
    <3>2. CASE nx[t] # NULL
      BY <2>1, <2>2, <2>5, <3>2
    <3> QED BY <3>1, <3>2
  <2>7. Has(a) \subseteq {t} \cup Has(u)
    <3>1. u \in Seq(Proc) /\ Len(u) \in Nat
      BY <2>5 DEF IsChain
    <3>2. Len(a) = Len(u) + 1 /\ a[1] = t /\ \A k \in 2 .. Len(a) : a[k] = u[k - 1]
      BY <2>5, <3>1
    <3> SUFFICES ASSUME NEW k \in 1 .. Len(a) PROVE a[k] \in {t} \cup Has(u)
      BY DEF Has
    <3>3. CASE k = 1
      BY <3>2, <3>3
    <3>4. CASE k # 1
      <4>1. k - 1 \in 1 .. Len(u) /\ a[k] = u[k - 1]
        BY <3>1, <3>2, <3>4
      <4> QED BY <4>1 DEF Has
    <3> QED BY <3>3, <3>4
  <2>8. t \in Reach(nx, t) /\ Reach(nx, nx[t]) \subseteq Reach(nx, t)
    BY <2>2, ReachStart, ReachTail
  <2> QED BY <2>3, <2>6, <2>7, <2>8
<1>3. Has(s) \subseteq Reach(nx, h)
  BY <1>1, <1>2
<1>4. Reach(nx, h) \subseteq Has(s)
  <2>1. CASE h = NULL
    BY <2>1, ReachNull
  <2>2. CASE h # NULL
    <3>1. 1 \in 1 .. Len(s)
      BY <2>2 DEF IsChain
    <3> QED BY <3>1, ChainWithin
  <2> QED BY <2>1, <2>2
<1> QED BY <1>3, <1>4

\* Without a cycle no process is met twice.
LEMMA ChainOnce ==
  ASSUME NEW nx \in Links2, Acyclic(nx), NEW h, NEW s, IsChain(s, h, nx)
  PROVE  Once(s)
<1>1. s \in Seq(Proc) /\ Len(s) \in Nat
  BY DEF IsChain
<1>2. ASSUME NEW i \in 1 .. Len(s), NEW j \in 1 .. Len(s), i < j, s[i] = s[j] PROVE FALSE
  <2> DEFINE S == {s[k] : k \in i .. j - 1}
  <2>1. S \in SUBSET Proc /\ s[i] \in S
    BY <1>1, <1>2
  <2>2. PICK p \in S : nx[p] \notin S
    BY <2>1 DEF Acyclic
  <2>3. PICK k \in i .. j - 1 : p = s[k]
    BY <2>2
  <2>4. nx[p] = s[k + 1]
    <3>1. k \in 1 .. Len(s) /\ k < Len(s)
      BY <1>1, <1>2
    <3> QED BY <2>3, <3>1 DEF IsChain
  <2>5. CASE k + 1 = j
    BY <1>2, <2>1, <2>2, <2>4, <2>5
  <2>6. CASE k + 1 # j
    <3>1. k + 1 \in i .. j - 1
      BY <1>1, <1>2, <2>6
    <3> QED BY <2>2, <2>4, <3>1
  <2> QED BY <2>5, <2>6
<1> QED BY <1>1, <1>2 DEF Once

\* A chain stays when its links and its start do.
LEMMA ChainSame ==
  ASSUME NEW nx, NEW ny, NEW h, NEW s, IsChain(s, h, nx), \A t \in Has(s) : ny[t] = nx[t]
  PROVE  IsChain(s, h, ny)
<1>1. s \in Seq(Proc) /\ Len(s) \in Nat /\ \A k \in 1 .. Len(s) : ny[s[k]] = nx[s[k]]
  BY DEF IsChain, Has
<1>2. Len(s) > 0 => ny[s[Len(s)]] = nx[s[Len(s)]]
  BY <1>1
<1> QED BY <1>1, <1>2 DEF IsChain

\* A chain with one more process at its end.
LEMMA ChainAppend ==
  ASSUME NEW nx, NEW ny, NEW h, NEW s, IsChain(s, h, nx), NEW p \in Proc, ny[p] = NULL,
         \A k \in 1 .. Len(s) : ny[s[k]] = IF k < Len(s) THEN nx[s[k]] ELSE p
  PROVE  IsChain(Append(s, p), IF h = NULL THEN p ELSE h, ny)
<1>1. s \in Seq(Proc) /\ Len(s) \in Nat
  BY DEF IsChain
<1>2. PICK u : u = Append(s, p)
  OBVIOUS
<1>3. /\ u \in Seq(Proc) /\ Len(u) = Len(s) + 1 /\ u[Len(s) + 1] = p
      /\ \A k \in 1 .. Len(s) : u[k] = s[k]
  BY <1>1, <1>2
<1>4. p # NULL
  BY NullApart
<1>5. u[1] = IF h = NULL THEN p ELSE h
  <2>1. CASE h = NULL
    BY <1>1, <1>3, <2>1 DEF IsChain
  <2>2. CASE h # NULL
    BY <1>1, <1>3, <2>2 DEF IsChain
  <2> QED BY <2>1, <2>2
<1>6. ASSUME NEW k \in 1 .. Len(u), k < Len(u) PROVE ny[u[k]] = u[k + 1]
  <2>1. k \in 1 .. Len(s)
    BY <1>1, <1>3, <1>6
  <2>2. CASE k < Len(s)
    <3>1. k + 1 \in 1 .. Len(s) /\ nx[s[k]] = s[k + 1]
      BY <1>1, <2>1, <2>2 DEF IsChain
    <3> QED BY <1>3, <2>1, <2>2, <3>1
  <2>3. CASE ~(k < Len(s))
    <3>1. k = Len(s) /\ ny[s[k]] = p
      BY <1>1, <2>1, <2>3
    <3> QED BY <1>3, <2>1, <3>1
  <2> QED BY <2>2, <2>3
<1>7. Len(u) > 0 /\ ny[u[Len(u)]] = NULL /\ (IF h = NULL THEN p ELSE h) # NULL
  BY <1>1, <1>3, <1>4
<1>8. IsChain(u, IF h = NULL THEN p ELSE h, ny)
  <2>1. PICK g : g = IF h = NULL THEN p ELSE h
    OBVIOUS
  <2>2. IsChain(u, g, ny)
    BY <1>3, <1>5, <1>6, <1>7, <2>1 DEF IsChain
  <2> QED BY <2>1, <2>2
<1> QED BY <1>2, <1>8

Without(s, i) == SubSeq(s, 1, i - 1) \o SubSeq(s, i + 1, Len(s))

\* The places of a sequence without its i-th element.
LEMMA WithoutIs ==
  ASSUME NEW S, NEW s \in Seq(S), NEW i \in 1 .. Len(s)
  PROVE  /\ Without(s, i) \in Seq(S) /\ Len(Without(s, i)) = Len(s) - 1
         /\ \A k \in 1 .. Len(s) - 1 : Without(s, i)[k] = IF k < i THEN s[k] ELSE s[k + 1]
<1>1. Len(s) \in Nat /\ i \in Nat /\ i >= 1 /\ i <= Len(s)
  OBVIOUS
<1>2. PICK a : a = SubSeq(s, 1, i - 1)
  OBVIOUS
<1>3. PICK b : b = SubSeq(s, i + 1, Len(s))
  OBVIOUS
<1>4. a \in Seq(S) /\ Len(a) = i - 1 /\ \A k \in 1 .. i - 1 : a[k] = s[k]
  BY <1>1, <1>2
<1>5. b \in Seq(S) /\ Len(b) = Len(s) - i /\ \A k \in 1 .. Len(s) - i : b[k] = s[k + i]
  BY <1>1, <1>3
<1>6. PICK g : g = a \o b
  OBVIOUS
<1>7. /\ g \in Seq(S) /\ Len(g) = Len(s) - 1 /\ \A k \in 1 .. i - 1 : g[k] = a[k]
      /\ \A k \in 1 .. Len(s) - i : g[(i - 1) + k] = b[k]
  BY <1>1, <1>4, <1>5, <1>6
<1>8. ASSUME NEW k \in 1 .. Len(s) - 1 PROVE g[k] = IF k < i THEN s[k] ELSE s[k + 1]
  <2>1. CASE k < i
    BY <1>1, <1>4, <1>7, <2>1
  <2>2. CASE ~(k < i)
    <3>1. k - (i - 1) \in 1 .. Len(s) - i /\ (i - 1) + (k - (i - 1)) = k /\ (k - (i - 1)) + i = k + 1
      BY <1>1, <2>2
    <3>2. PICK j \in 1 .. Len(s) - i : j = k - (i - 1) /\ (i - 1) + j = k /\ j + i = k + 1
      BY <3>1
    <3>3. g[(i - 1) + j] = b[j] /\ b[j] = s[j + i]
      BY <1>5, <1>7
    <3> QED BY <2>2, <3>2, <3>3
  <2> QED BY <2>1, <2>2
<1> QED BY <1>2, <1>3, <1>6, <1>7, <1>8 DEF Without

\* A chain without its i-th process, whose predecessor takes over its link.
LEMMA ChainWithout ==
  ASSUME NEW nx \in Links2, NEW ny, NEW h, NEW s, IsChain(s, h, nx), Once(s), NEW i \in 1 .. Len(s),
         \A k \in 1 .. Len(s) : k # i => ny[s[k]] = IF k + 1 = i THEN nx[s[i]] ELSE nx[s[k]]
  PROVE  IsChain(Without(s, i), IF i = 1 THEN nx[s[1]] ELSE h, ny)
<1>1. s \in Seq(Proc) /\ Len(s) \in Nat /\ i \in Nat /\ i >= 1 /\ i <= Len(s)
  BY DEF IsChain
<1>2. PICK u : u = Without(s, i)
  OBVIOUS
<1>3. PICK g : g = IF i = 1 THEN nx[s[1]] ELSE h
  OBVIOUS
<1>4. /\ u \in Seq(Proc) /\ Len(u) = Len(s) - 1
      /\ \A k \in 1 .. Len(s) - 1 : u[k] = IF k < i THEN s[k] ELSE s[k + 1]
  BY <1>1, <1>2, WithoutIs
<1>5. h # NULL /\ h = s[1] /\ s[1] \in Proc /\ nx[s[Len(s)]] = NULL
  <2>1. h # NULL /\ h = s[1] /\ nx[s[Len(s)]] = NULL
    BY <1>1 DEF IsChain
  <2> QED BY <1>1, <2>1
<1>6. \A k \in 1 .. Len(s) : k < Len(s) => nx[s[k]] = s[k + 1] /\ s[k + 1] \in Proc
  <2> SUFFICES ASSUME NEW k \in 1 .. Len(s), k < Len(s) PROVE nx[s[k]] = s[k + 1] /\ s[k + 1] \in Proc
    OBVIOUS
  <2>1. k + 1 \in 1 .. Len(s)
    BY <1>1
  <2> QED BY <1>1, <2>1 DEF IsChain
<1>7. (Len(u) = 0 <=> g = NULL) /\ (Len(u) > 0 => u[1] = g)
  <2>1. CASE i = 1 /\ Len(s) = 1
    BY <1>3, <1>4, <1>5, <2>1
  <2>2. CASE i = 1 /\ Len(s) # 1
    <3>0. PICK n \in Nat : n = Len(s) /\ n >= 1 /\ n # 1
      BY <1>1, <2>2
    <3>1. 1 \in 1 .. Len(s) /\ 1 < Len(s) /\ 1 \in 1 .. Len(s) - 1
      <4>1. 1 \in 1 .. n /\ 1 < n /\ 1 \in 1 .. n - 1
        BY <3>0
      <4> QED BY <3>0, <4>1
    <3>2. nx[s[1]] = s[1 + 1] /\ s[1 + 1] \in Proc /\ u[1] = s[1 + 1]
      BY <1>4, <1>6, <2>2, <3>1
    <3>3. g = nx[s[1]] /\ Len(u) # 0
      BY <1>1, <1>3, <1>4, <2>2
    <3> QED BY <3>2, <3>3, NullApart
  <2>3. CASE i # 1
    <3>1. 1 < i /\ 1 \in 1 .. Len(s) - 1
      BY <1>1, <2>3
    <3>2. u[1] = s[1]
      BY <1>4, <3>1
    <3> QED BY <1>3, <1>4, <1>5, <2>3, <3>1, <3>2
  <2> QED BY <2>1, <2>2, <2>3
<1>8. Len(u) > 0 => ny[u[Len(u)]] = NULL
  <2> SUFFICES ASSUME Len(u) > 0 PROVE ny[u[Len(u)]] = NULL
    OBVIOUS
  <2>1. PICK k \in 1 .. Len(s) - 1 : k = Len(u)
    BY <1>1, <1>4
  <2>2. k \in 1 .. Len(s) /\ k + 1 \in 1 .. Len(s) /\ k + 1 = Len(s) /\ ~(k + 1 < Len(s))
    BY <1>1, <1>4, <2>1
  <2>3. u[k] = IF k < i THEN s[k] ELSE s[k + 1]
    BY <1>4
  <2>4. nx[s[k + 1]] = NULL
    BY <1>5, <2>2
  <2>5. CASE k + 1 = i
    <3>1. k # i /\ k < i
      BY <1>1, <2>2, <2>5
    <3>2. ny[s[k]] = nx[s[i]]
      BY <2>2, <2>5, <3>1
    <3> QED BY <2>1, <2>3, <2>4, <2>5, <3>1, <3>2
  <2>6. CASE k + 1 # i
    <3>1. ~(k < i) /\ (k + 1) + 1 # i
      BY <1>1, <2>2, <2>6
    <3>2. ny[s[k + 1]] = nx[s[k + 1]]
      BY <2>2, <2>6, <3>1
    <3> QED BY <2>1, <2>3, <2>4, <3>1, <3>2
  <2> QED BY <2>5, <2>6
<1>9. ASSUME NEW k \in 1 .. Len(u), k < Len(u) PROVE ny[u[k]] = u[k + 1]
  <2>1. /\ k \in 1 .. Len(s) - 1 /\ k + 1 \in 1 .. Len(s) - 1 /\ k \in 1 .. Len(s) /\ k < Len(s)
        /\ k + 1 \in 1 .. Len(s) /\ k + 1 < Len(s) /\ k + 2 \in 1 .. Len(s)
    BY <1>1, <1>4, <1>9
  <2>2. /\ u[k] = IF k < i THEN s[k] ELSE s[k + 1]
        /\ u[k + 1] = IF k + 1 < i THEN s[k + 1] ELSE s[(k + 1) + 1]
    BY <1>4, <2>1
  <2>3. nx[s[k]] = s[k + 1] /\ nx[s[k + 1]] = s[(k + 1) + 1]
    BY <1>6, <2>1
  <2>4. CASE k + 1 < i
    <3>1. k < i /\ k # i /\ k + 1 # i
      BY <1>1, <2>1, <2>4
    <3>2. ny[s[k]] = nx[s[k]]
      BY <2>1, <3>1
    <3> QED BY <2>2, <2>3, <2>4, <3>1, <3>2
  <2>5. CASE k + 1 = i
    <3>1. k < i /\ k # i /\ ~(k + 1 < i)
      BY <1>1, <2>1, <2>5
    <3>2. ny[s[k]] = nx[s[i]]
      BY <2>1, <2>5, <3>1
    <3> QED BY <2>2, <2>3, <2>5, <3>1, <3>2
  <2>6. CASE k + 1 > i
    <3>1. ~(k < i) /\ ~(k + 1 < i) /\ k + 1 # i /\ (k + 1) + 1 # i
      BY <1>1, <2>1, <2>6
    <3>2. ny[s[k + 1]] = nx[s[k + 1]]
      BY <2>1, <3>1
    <3> QED BY <2>2, <2>3, <3>1, <3>2
  <2> QED BY <1>1, <2>1, <2>4, <2>5, <2>6
<1>10. IsChain(u, g, ny)
  BY <1>4, <1>7, <1>8, <1>9 DEF IsChain
<1> QED BY <1>2, <1>3, <1>10

\* What the line looks like after one of these changes.
LEMMA MadeSame ==
  ASSUME NEW s, NEW m, NEW pt, NEW n, NEW qt, \A t \in Has(s) : n[t][qt[t]] = m[t][pt[t]]
  PROVE  Made(s, n, qt) = Made(s, m, pt)
<1>1. \A k \in 1 .. Len(s) : Item(n, qt, s[k]) = Item(m, pt, s[k])
  BY DEF Has, Item
<1> QED BY <1>1, Zenon DEF Made

\* One more process, one more item.
LEMMA MadeAppend ==
  ASSUME NEW s \in Seq(Proc), NEW p \in Proc, NEW m, NEW pt
  PROVE  Made(Append(s, p), m, pt) = Append(Made(s, m, pt), Item(m, pt, p))
<1>0. Append(s, p) \in Seq(Proc)
  OBVIOUS
<1>1. PICK u \in Seq(Proc) : u = Append(s, p)
  BY <1>0, Zenon
<1>2. Len(s) \in Nat /\ Len(u) = Len(s) + 1 /\ u[Len(s) + 1] = p /\ \A k \in 1 .. Len(s) : u[k] = s[k]
  BY <1>1
<1>3. PICK B : B = Items(m, pt)
  OBVIOUS
<1>4. PICK a : a = Made(s, m, pt)
  OBVIOUS
<1>5. PICK b : b = Made(u, m, pt)
  OBVIOUS
<1>6. a \in Seq(B) /\ Len(a) = Len(s) /\ \A k \in 1 .. Len(s) : a[k] = Item(m, pt, s[k])
  BY <1>3, <1>4, MadeSeq
<1>7. b \in Seq(B) /\ Len(b) = Len(s) + 1 /\ \A k \in 1 .. Len(s) + 1 : b[k] = Item(m, pt, u[k])
  BY <1>2, <1>3, <1>5, MadeSeq
<1>8. PICK i \in B : i = Item(m, pt, p)
  BY <1>3 DEF Items
<1>9. PICK c : c = Append(a, i)
  OBVIOUS
<1>10. c \in Seq(B) /\ Len(c) = Len(s) + 1 /\ c[Len(s) + 1] = i /\ \A k \in 1 .. Len(s) : c[k] = a[k]
  BY <1>2, <1>6, <1>9
<1>11. \A k \in 1 .. Len(s) + 1 : b[k] = c[k]
  <2> TAKE k \in 1 .. Len(s) + 1
  <2>1. CASE k = Len(s) + 1
    BY <1>2, <1>7, <1>8, <1>10, <2>1
  <2>2. CASE k # Len(s) + 1
    <3>1. k \in 1 .. Len(s)
      BY <1>2, <2>2
    <3> QED BY <1>2, <1>6, <1>7, <1>10, <3>1
  <2> QED BY <2>1, <2>2
<1>12. b = c
  BY <1>2, <1>7, <1>10, <1>11
<1> QED BY <1>1, <1>4, <1>5, <1>8, <1>9, <1>12

\* One process fewer, its item fewer.
LEMMA MadeWithout ==
  ASSUME NEW s \in Seq(Proc), NEW i \in 1 .. Len(s), NEW m, NEW pt
  PROVE  Made(Without(s, i), m, pt) = Without(Made(s, m, pt), i)
<1>1. PICK u : u = Without(s, i)
  OBVIOUS
<1>2. PICK B : B = Items(m, pt)
  OBVIOUS
<1>3. PICK a : a = Made(s, m, pt)
  OBVIOUS
<1>4. PICK b : b = Made(u, m, pt)
  OBVIOUS
<1>5. PICK c : c = Without(a, i)
  OBVIOUS
<1>6. /\ Len(s) \in Nat /\ i \in Nat /\ u \in Seq(Proc) /\ Len(u) = Len(s) - 1
      /\ \A k \in 1 .. Len(s) - 1 : u[k] = IF k < i THEN s[k] ELSE s[k + 1]
  BY <1>1, WithoutIs
<1>7. a \in Seq(B) /\ Len(a) = Len(s) /\ \A k \in 1 .. Len(s) : a[k] = Item(m, pt, s[k])
  BY <1>2, <1>3, MadeSeq
<1>8. b \in Seq(B) /\ Len(b) = Len(s) - 1 /\ \A k \in 1 .. Len(s) - 1 : b[k] = Item(m, pt, u[k])
  BY <1>2, <1>4, <1>6, MadeSeq
<1>9. /\ c \in Seq(B) /\ Len(c) = Len(s) - 1
      /\ \A k \in 1 .. Len(s) - 1 : c[k] = IF k < i THEN a[k] ELSE a[k + 1]
  BY <1>5, <1>7, WithoutIs
<1>10. ASSUME NEW k \in 1 .. Len(s) - 1 PROVE b[k] = c[k]
  <2>1. k \in 1 .. Len(s) /\ k + 1 \in 1 .. Len(s)
    BY <1>6
  <2>2. CASE k < i
    BY <1>6, <1>7, <1>8, <1>9, <2>1, <2>2
  <2>3. CASE ~(k < i)
    BY <1>6, <1>7, <1>8, <1>9, <2>1, <2>3
  <2> QED BY <2>2, <2>3
<1>11. b = c
  BY <1>6, <1>8, <1>9, <1>10
<1> QED BY <1>1, <1>3, <1>4, <1>5, <1>11

\* The line of q, before a step and after it.
LEMMA LineFacts ==
  ASSUME LinksOK, NEW q \in Proc
  PROVE  \E s \in Seq(Proc) :
           /\ IsChain(s, msg_head[q], msg_next) /\ Once(s) /\ Has(s) = Queue(q)
           /\ LineOf(q) = Made(s, mem, msg) /\ DOMAIN LineOf(q) = 1 .. Len(s) /\ Len(LineOf(q)) = Len(s)
           /\ \A k \in 1 .. Len(s) : LineOf(q)[k] = Item(mem, msg, s[k])
<1>1. PICK nx \in Links2 : nx = msg_next
  BY DEF LinksOK
<1>2. PICK h \in Proc \cup {NULL} : h = msg_head[q]
  BY DEF LinksOK, Links2
<1>3. Acyclic(nx)
  BY <1>1 DEF LinksOK
<1>4. PICK s : IsChain(s, h, nx)
  BY <1>3, ChainExists
<1>5. s \in Seq(Proc)
  BY <1>4 DEF IsChain
<1>6. Once(s) /\ Has(s) = Reach(nx, h)
  BY <1>3, <1>4, ChainOnce, ChainElems
<1>7. LineOf(q) = Made(s, mem, msg)
  <2>1. LineOf(q) = LineFrom(msg_head[q], msg_next, mem, msg)
    BY LineOfFrom
  <2>2. LineFrom(h, nx, mem, msg) = Made(s, mem, msg)
    BY <1>3, <1>4, LineMade
  <2> QED BY <1>1, <1>2, <2>1, <2>2
<1>8. PICK l : l = Made(s, mem, msg)
  OBVIOUS
<1>9. DOMAIN l = 1 .. Len(s) /\ Len(l) = Len(s) /\ \A k \in 1 .. Len(s) : l[k] = Item(mem, msg, s[k])
  BY <1>5, <1>8, MadeSeq
<1> QED BY <1>1, <1>2, <1>4, <1>5, <1>6, <1>7, <1>8, <1>9 DEF Queue

\* The line of q after a step is made from the chain there is then.
LEMMA LineAfter ==
  ASSUME LinksOK', NEW q \in Proc, NEW s, IsChain(s, msg_head'[q], msg_next')
  PROVE  LineOf(q)' = Made(s, mem', msg')
<1>1. PICK nx \in Links2 : nx = msg_next'
  BY DEF LinksOK
<1>2. PICK h \in Proc \cup {NULL} : h = msg_head'[q]
  BY DEF LinksOK, Links2
<1>3. Acyclic(nx) /\ IsChain(s, h, nx)
  BY <1>1, <1>2 DEF LinksOK
<1>4. LineOf(q)' = LineFrom(msg_head'[q], msg_next', mem', msg')
  BY Zenon DEF LineOf, LineFrom
<1>5. LineFrom(h, nx, mem', msg') = Made(s, mem', msg')
  BY <1>3, LineMade
<1> QED BY <1>1, <1>2, <1>4, <1>5

\* A line whose senders keep their links and their messages stays.
LEMMA LineStays ==
  ASSUME LinksOK, LinksOK', NEW q \in Proc, msg_head'[q] = msg_head[q],
         \A t \in Queue(q) : msg_next'[t] = msg_next[t],
         \A t \in Queue(q) : mem'[t][msg'[t]] = mem[t][msg[t]]
  PROVE  LineOf(q)' = LineOf(q)
<1>1. PICK s \in Seq(Proc) : /\ IsChain(s, msg_head[q], msg_next) /\ Has(s) = Queue(q)
                             /\ LineOf(q) = Made(s, mem, msg)
  BY LineFacts
<1>2. IsChain(s, msg_head'[q], msg_next')
  BY <1>1, ChainSame
<1>3. LineOf(q)' = Made(s, mem', msg')
  BY <1>2, LineAfter
<1>4. Made(s, mem', msg') = Made(s, mem, msg)
  BY <1>1, MadeSame
<1> QED BY <1>1, <1>3, <1>4

\* insert_msg_queue appends to the line.
LEMMA LineAppends ==
  ASSUME LinksOK, LinksOK', NEW p \in Proc, NEW q \in Proc, InsertMsgQueue(p, q), p \notin Queue(q),
         \A t \in Queue(q) : mem'[t][msg'[t]] = mem[t][msg[t]]
  PROVE  LineOf(q)' = Append(LineOf(q), Item(mem', msg', p))
<1>1. PICK s \in Seq(Proc) : /\ IsChain(s, msg_head[q], msg_next) /\ Once(s) /\ Has(s) = Queue(q)
                             /\ LineOf(q) = Made(s, mem, msg)
  BY LineFacts
<1>2. PICK nx \in Links2 : nx = msg_next
  BY DEF LinksOK
<1>3. PICK ny \in Links2 : ny = msg_next'
  BY DEF LinksOK
<1>4. PICK h \in Proc \cup {NULL} : h = msg_head[q]
  BY DEF LinksOK, Links2
<1>5. Len(s) \in Nat /\ (Len(s) = 0 <=> h = NULL) /\ \A k \in 1 .. Len(s) : s[k] \in Proc /\ s[k] # p
  BY <1>1, <1>4 DEF IsChain, Has
<1>6. /\ ny[p] = NULL /\ msg_head'[q] = IF h = NULL THEN p ELSE h
      /\ \A k \in 1 .. Len(s) : ny[s[k]] = IF k < Len(s) THEN nx[s[k]] ELSE p
  <2>1. CASE h = NULL
    <3>1. msg_head' = [msg_head EXCEPT ![q] = p] /\ ny = [nx EXCEPT ![p] = NULL]
      BY <1>2, <1>3, <1>4, <2>1 DEF InsertMsgQueue
    <3> QED BY <1>5, <2>1, <3>1 DEF LinksOK, Links2
  <2>2. CASE h # NULL
    <3>1. /\ msg_head' = msg_head
          /\ \E last \in Queue(q) : nx[last] = NULL /\ ny = [nx EXCEPT ![last] = p, ![p] = NULL]
      BY <1>2, <1>3, <1>4, <2>2 DEF InsertMsgQueue
    <3>2. PICK last \in Queue(q) : nx[last] = NULL /\ ny = [nx EXCEPT ![last] = p, ![p] = NULL]
      BY <3>1
    <3>3. PICK j \in 1 .. Len(s) : last = s[j]
      BY <1>1 DEF Has
    <3>4. \A k \in 1 .. Len(s) : k < Len(s) => nx[s[k]] # NULL
      <4> SUFFICES ASSUME NEW k \in 1 .. Len(s), k < Len(s) PROVE nx[s[k]] # NULL
        OBVIOUS
      <4>1. nx[s[k]] = s[k + 1] /\ k + 1 \in 1 .. Len(s)
        BY <1>1, <1>2, <1>5 DEF IsChain
      <4> QED BY <1>5, <4>1, NullApart
    <3>5. j = Len(s)
      BY <1>5, <3>2, <3>3, <3>4
    <3>6. last \in Proc /\ last # p
      BY <1>5, <3>3
    <3>7. ny[p] = NULL /\ ny[last] = p /\ \A t \in Proc : t # p /\ t # last => ny[t] = nx[t]
      BY <3>2, <3>6 DEF Links2
    <3>8. ASSUME NEW k \in 1 .. Len(s) PROVE ny[s[k]] = IF k < Len(s) THEN nx[s[k]] ELSE p
      <4>1. CASE k < Len(s)
        <5>1. s[k] # last
          BY <1>1, <1>5, <3>3, <3>5, <4>1 DEF Once
        <5> QED BY <1>5, <3>7, <4>1, <5>1
      <4>2. CASE ~(k < Len(s))
        <5>1. k = j
          BY <1>5, <3>5, <4>2
        <5> QED BY <3>3, <3>7, <4>2, <5>1
      <4> QED BY <4>1, <4>2
    <3> QED BY <1>4, <2>2, <3>1, <3>7, <3>8
  <2> QED BY <2>1, <2>2
<1>7. PICK u : u = Append(s, p)
  OBVIOUS
<1>8. PICK g : g = IF h = NULL THEN p ELSE h
  OBVIOUS
<1>9. IsChain(u, g, ny)
  <2>1. IsChain(s, h, nx)
    BY <1>1, <1>2, <1>4
  <2>2. IsChain(Append(s, p), IF h = NULL THEN p ELSE h, ny)
    BY <1>6, <2>1, ChainAppend
  <2> QED BY <1>7, <1>8, <2>2
<1>10. LineOf(q)' = Made(u, mem', msg')
  BY <1>3, <1>6, <1>8, <1>9, LineAfter
<1>11. Made(u, mem', msg') = Append(Made(s, mem', msg'), Item(mem', msg', p))
  BY <1>7, MadeAppend
<1>12. Made(s, mem', msg') = Made(s, mem, msg)
  BY <1>1, MadeSame
<1> QED BY <1>1, <1>10, <1>11, <1>12

\* The list surgery of msg_receive takes the i-th of the line out.
LEMMA LineLoses ==
  ASSUME LinksOK, LinksOK', NEW q \in Proc, NEW s \in Seq(Proc), IsChain(s, msg_head[q], msg_next), Once(s),
         Has(s) = Queue(q), LineOf(q) = Made(s, mem, msg), NEW i \in 1 .. Len(s), Unlink(s[i], q),
         \A t \in Queue(q) : mem'[t][msg'[t]] = mem[t][msg[t]]
  PROVE  LineOf(q)' = Without(LineOf(q), i)
<1>2. PICK nx \in Links2 : nx = msg_next
  BY DEF LinksOK
<1>3. PICK ny \in Links2 : ny = msg_next'
  BY DEF LinksOK
<1>4. PICK h \in Proc \cup {NULL} : h = msg_head[q]
  BY DEF LinksOK, Links2
<1>5. IsChain(s, h, nx) /\ Len(s) \in Nat /\ h = s[1] /\ \A k \in 1 .. Len(s) : s[k] \in Proc
  BY <1>2, <1>4 DEF IsChain
<1>6. /\ msg_head'[q] = IF i = 1 THEN nx[s[1]] ELSE h
      /\ \A k \in 1 .. Len(s) : k # i => ny[s[k]] = IF k + 1 = i THEN nx[s[i]] ELSE nx[s[k]]
  <2>1. CASE i = 1
    <3>1. msg_head' = [msg_head EXCEPT ![q] = nx[s[i]]] /\ ny = nx
      BY <1>2, <1>3, <1>4, <1>5, <2>1 DEF Unlink
    <3> QED BY <2>1, <3>1 DEF LinksOK, Links2
  <2>2. CASE i # 1
    <3>1. s[i] # msg_head[q]
      <4>1. 1 \in 1 .. Len(s)
        BY <1>5
      <4> QED BY <1>4, <1>5, <2>2, <4>1 DEF Once
    <3>2. /\ msg_head' = msg_head
          /\ \E prev \in Queue(q) : nx[prev] = s[i] /\ ny = [nx EXCEPT ![prev] = nx[s[i]]]
      BY <1>2, <1>3, <3>1 DEF Unlink
    <3>3. PICK prev \in Queue(q) : nx[prev] = s[i] /\ ny = [nx EXCEPT ![prev] = nx[s[i]]]
      BY <3>2
    <3>4. PICK j \in 1 .. Len(s) : prev = s[j]
      BY DEF Has
    <3>5. j + 1 = i
      <4>1. j < Len(s)
        <5>1. j = Len(s) => nx[prev] = NULL
          BY <1>5, <3>4 DEF IsChain
        <5>2. s[i] # NULL
          BY <1>5, NullApart
        <5> QED BY <1>5, <3>3, <5>1, <5>2
      <4>2. nx[s[j]] = s[j + 1] /\ j + 1 \in 1 .. Len(s)
        BY <1>5, <4>1 DEF IsChain
      <4>3. s[j + 1] = s[i]
        BY <3>3, <3>4, <4>2
      <4> QED BY <4>2, <4>3 DEF Once
    <3>6. ny[prev] = nx[s[i]] /\ \A t \in Proc : t # prev => ny[t] = nx[t]
      BY <1>5, <3>3, <3>4 DEF Links2
    <3>7. ASSUME NEW k \in 1 .. Len(s), k # i PROVE ny[s[k]] = IF k + 1 = i THEN nx[s[i]] ELSE nx[s[k]]
      <4>1. CASE k = j
        BY <3>4, <3>5, <3>6, <4>1
      <4>2. CASE k # j
        <5>1. s[k] # prev /\ s[k] \in Proc
          BY <1>5, <3>4, <4>2 DEF Once
        <5>2. k + 1 # i
          BY <3>5, <4>2
        <5> QED BY <3>6, <5>1, <5>2
      <4> QED BY <4>1, <4>2
    <3> QED BY <1>4, <2>2, <3>2, <3>7
  <2> QED BY <2>1, <2>2
<1>7. PICK u : u = Without(s, i)
  OBVIOUS
<1>8. PICK g : g = IF i = 1 THEN nx[s[1]] ELSE h
  OBVIOUS
<1>9. IsChain(u, g, ny)
  <2>1. IsChain(Without(s, i), IF i = 1 THEN nx[s[1]] ELSE h, ny)
    BY <1>5, <1>6, ChainWithout
  <2> QED BY <1>7, <1>8, <2>1
<1>10. LineOf(q)' = Made(u, mem', msg')
  BY <1>3, <1>6, <1>8, <1>9, LineAfter
<1>11. Made(u, mem', msg') = Without(Made(s, mem', msg'), i)
  BY <1>7, MadeWithout
<1>12. Made(s, mem', msg') = Made(s, mem, msg)
  BY MadeSame
<1> QED BY <1>10, <1>11, <1>12

--------------------------------------------------------------------------------
(* Part 6: every step of a one-way mix is a step of Rendezvous.            *)

LineMap == [q \in Proc |-> LineOf(q)]
WantMap == [q \in Proc |-> WantOf(q)]
BoxMap  == [q \in Proc |-> BoxOf(q)]

\* A function that differs from another at one argument.
LEMMA Differs ==
  ASSUME NEW f, NEW g, f = [r \in Proc |-> f[r]], g = [r \in Proc |-> g[r]],
         NEW q \in Proc, NEW v, g[q] = v, \A r \in Proc \ {q} : g[r] = f[r]
  PROVE  g = [f EXCEPT ![q] = v]
OBVIOUS

\* Two functions that agree everywhere are equal.
LEMMA SameMap ==
  ASSUME NEW f, NEW g, f = [r \in Proc |-> f[r]], g = [r \in Proc |-> g[r]], \A r \in Proc : g[r] = f[r]
  PROVE  g = f
OBVIOUS

\* The variables of Rendezvous, one process at a time.
LEMMA MapsAt ==
  /\ LineMap = [r \in Proc |-> LineMap[r]] /\ \A r \in Proc : LineMap[r] = LineOf(r)
  /\ WantMap = [r \in Proc |-> WantMap[r]] /\ \A r \in Proc : WantMap[r] = WantOf(r)
  /\ BoxMap  = [r \in Proc |-> BoxMap[r]]  /\ \A r \in Proc : BoxMap[r]  = BoxOf(r)
<1> HIDE DEF LineOf, WantOf, BoxOf
<1> QED BY Zenon DEF LineMap, WantMap, BoxMap

\* The same after a step.
LEMMA MapsAfter ==
  /\ LineMap' = [r \in Proc |-> LineMap'[r]] /\ \A r \in Proc : LineMap'[r] = LineOf(r)'
  /\ WantMap' = [r \in Proc |-> WantMap'[r]] /\ \A r \in Proc : WantMap'[r] = WantOf(r)'
  /\ BoxMap'  = [r \in Proc |-> BoxMap'[r]]  /\ \A r \in Proc : BoxMap'[r]  = BoxOf(r)'
<1> HIDE DEF LineOf, WantOf, BoxOf
<1> QED BY Zenon DEF LineMap, WantMap, BoxMap

\* The two ways of Offer, the two of Ask, and Consume.
LEMMA OfferMet ==
  ASSUME NEW p \in Proc, NEW q \in Proc, NEW b, R!Idle(p), WantOf(q) \in {p, ANY},
         WantOf(q)' = NULL, BoxOf(q)' = b,
         \A r \in Proc \ {q} : WantOf(r)' = WantOf(r) /\ BoxOf(r)' = BoxOf(r),
         \A r \in Proc : LineOf(r)' = LineOf(r)
  PROVE  R!Offer(p, q, b)
<1> HIDE DEF LineOf, WantOf, BoxOf
<1>1. WantMap' = [WantMap EXCEPT ![q] = NULL]
  BY MapsAt, MapsAfter, Differs
<1>2. BoxMap' = [BoxMap EXCEPT ![q] = b]
  BY MapsAt, MapsAfter, Differs
<1>3. LineMap' = LineMap
  BY MapsAt, MapsAfter, SameMap
<1>4. WantMap[q] \in {p, ANY}
  BY MapsAt
<1> QED BY <1>1, <1>2, <1>3, <1>4, Zenon DEF R!Offer, LineMap, WantMap, BoxMap

\* A process that is in no call is idle: it waits in no line and for nobody.
LEMMA FreeIsIdle ==
  ASSUME LinksOK, NEW p \in Proc, call[p] = "none", \A q \in Proc : p \notin Queue(q)
  PROVE  R!Idle(p)
<1>1. ASSUME NEW q \in Proc, NEW i \in DOMAIN LineOf(q) PROVE LineOf(q)[i].from # p
  <2>1. PICK s \in Seq(Proc) :
          /\ Has(s) = Queue(q) /\ DOMAIN LineOf(q) = 1 .. Len(s)
          /\ \A k \in 1 .. Len(s) : LineOf(q)[k] = Item(mem, msg, s[k])
    BY LineFacts
  <2>2. i \in 1 .. Len(s) /\ s[i] # p
    BY <2>1 DEF Has
  <2> QED BY <2>1, <2>2 DEF Item
<1>2. WantOf(p) = NULL /\ BoxOf(p) = NULL
  BY DEF WantOf, BoxOf
<1> HIDE DEF LineOf, WantOf, BoxOf
<1> QED BY <1>1, <1>2 DEF R!Idle, R!Waiting

\* Nobody asks for p at q: its message goes to the end of the line.
LEMMA OfferWaits ==
  ASSUME NEW p \in Proc, NEW q \in Proc, NEW b, R!Idle(p), WantOf(q) \notin {p, ANY},
         LineOf(q)' = Append(LineOf(q), [from |-> p, body |-> b]),
         \A r \in Proc \ {q} : LineOf(r)' = LineOf(r),
         \A r \in Proc : WantOf(r)' = WantOf(r) /\ BoxOf(r)' = BoxOf(r)
  PROVE  R!Offer(p, q, b)
<1> HIDE DEF LineOf, WantOf, BoxOf
<1>1. PICK l : l = Append(LineOf(q), [from |-> p, body |-> b])
  OBVIOUS
<1>2. LineMap' = [LineMap EXCEPT ![q] = l]
  BY <1>1, MapsAt, MapsAfter, Differs
<1>3. l = Append(LineMap[q], [from |-> p, body |-> b])
  BY <1>1, MapsAt
<1>4. LineMap' = [LineMap EXCEPT ![q] = Append(@, [from |-> p, body |-> b])]
  BY <1>2, <1>3, Zenon
<1>5. WantMap' = WantMap /\ BoxMap' = BoxMap
  BY MapsAt, MapsAfter, SameMap
<1>6. WantMap[q] \notin {p, ANY}
  BY MapsAt
<1> QED BY <1>4, <1>5, <1>6, Zenon DEF R!Offer, LineMap, WantMap, BoxMap

\* Nobody in the line of q fits: q waits.
LEMMA AskWaits ==
  ASSUME NEW q \in Proc, NEW w \in Accept[q], R!Idle(q),
         \A i \in DOMAIN LineOf(q) : w \notin {ANY, LineOf(q)[i].from},
         WantOf(q)' = w, \A r \in Proc \ {q} : WantOf(r)' = WantOf(r),
         \A r \in Proc : LineOf(r)' = LineOf(r) /\ BoxOf(r)' = BoxOf(r)
  PROVE  R!Ask(q, w)
<1> HIDE DEF LineOf, WantOf, BoxOf
<1>1. WantMap' = [WantMap EXCEPT ![q] = w]
  BY MapsAt, MapsAfter, Differs
<1>2. LineMap' = LineMap /\ BoxMap' = BoxMap
  BY MapsAt, MapsAfter, SameMap
<1>3. LineMap[q] = LineOf(q)
  BY MapsAt
<1>4. \A i \in DOMAIN LineMap[q] : w \notin {ANY, LineMap[q][i].from}
  BY <1>3, Zenon
<1> QED BY <1>1, <1>2, <1>4, Zenon DEF R!Ask, R!Fits, LineMap, WantMap, BoxMap

\* The first in the line that fits is taken out, its message put in the box.
LEMMA AskMeets ==
  ASSUME NEW q \in Proc, NEW w \in Accept[q], R!Idle(q), NEW i \in DOMAIN LineOf(q),
         w \in {ANY, LineOf(q)[i].from},
         \A j \in 1 .. i - 1 : w \notin {ANY, LineOf(q)[j].from},
         BoxOf(q)' = LineOf(q)[i].body, \A r \in Proc \ {q} : BoxOf(r)' = BoxOf(r),
         LineOf(q)' = Without(LineOf(q), i), \A r \in Proc \ {q} : LineOf(r)' = LineOf(r),
         \A r \in Proc : WantOf(r)' = WantOf(r)
  PROVE  R!Ask(q, w)
<1> HIDE DEF LineOf, WantOf, BoxOf
<1>1. PICK l : l = Without(LineOf(q), i)
  OBVIOUS
<1>2. LineMap' = [LineMap EXCEPT ![q] = l]
  BY <1>1, MapsAt, MapsAfter, Differs
<1>3. LineMap[q] = LineOf(q)
  BY MapsAt
<1>4. l = SubSeq(LineMap[q], 1, i - 1) \o SubSeq(LineMap[q], i + 1, Len(LineMap[q]))
  BY <1>1, <1>3, Zenon DEF Without
<1>5. LineMap' = [LineMap EXCEPT ![q] = SubSeq(@, 1, i - 1) \o SubSeq(@, i + 1, Len(@))]
  BY <1>2, <1>4, Zenon
<1>6. PICK b : b = LineOf(q)[i].body
  OBVIOUS
<1>7. BoxMap' = [BoxMap EXCEPT ![q] = b]
  BY <1>6, MapsAt, MapsAfter, Differs
<1>8. BoxMap' = [BoxMap EXCEPT ![q] = LineMap[q][i].body]
  BY <1>3, <1>6, <1>7, Zenon
<1>9. WantMap' = WantMap
  BY MapsAt, MapsAfter, SameMap
<1>10. i \in DOMAIN LineMap[q] /\ w \in {ANY, LineMap[q][i].from}
       /\ \A j \in 1 .. i - 1 : w \notin {ANY, LineMap[q][j].from}
  BY <1>3, Zenon
<1> QED BY <1>5, <1>8, <1>9, <1>10, Zenon DEF R!Ask, R!Fits, LineMap, WantMap, BoxMap

\* What lay in the box is used up.
LEMMA ConsumeDone ==
  ASSUME NEW q \in Proc, BoxOf(q) # NULL, BoxOf(q)' = NULL,
         \A r \in Proc \ {q} : BoxOf(r)' = BoxOf(r),
         \A r \in Proc : LineOf(r)' = LineOf(r) /\ WantOf(r)' = WantOf(r)
  PROVE  R!Consume(q)
<1> HIDE DEF LineOf, WantOf, BoxOf
<1>1. BoxMap' = [BoxMap EXCEPT ![q] = NULL]
  BY MapsAt, MapsAfter, Differs
<1>2. LineMap' = LineMap /\ WantMap' = WantMap
  BY MapsAt, MapsAfter, SameMap
<1>3. BoxMap[q] # NULL
  BY MapsAt
<1> QED BY <1>1, <1>2, <1>3, Zenon DEF R!Consume, LineMap, WantMap, BoxMap

\* Nothing that Rendezvous shows has changed.
LEMMA AllStay ==
  ASSUME \A r \in Proc : LineOf(r)' = LineOf(r) /\ WantOf(r)' = WantOf(r) /\ BoxOf(r)' = BoxOf(r)
  PROVE  UNCHANGED R!rvVars
<1> HIDE DEF LineOf, WantOf, BoxOf
<1>1. LineMap' = LineMap /\ WantMap' = WantMap /\ BoxMap' = BoxMap
  BY MapsAt, MapsAfter, SameMap
<1> QED BY <1>1, Zenon DEF R!rvVars, LineMap, WantMap, BoxMap

\* The links are fit for walks before and after a step.
LEMMA LinksKept == ASSUME IInv, AcyclicQueues, [Next]_vars PROVE LinksOK /\ LinksOK'
<1>1. IInv' /\ AcyclicQueues'
  BY StepType, StepAcyclic
<1> QED BY <1>1 DEF IInv, TypeOK, MsgTypeOK, LinksOK, Links2, AcyclicQueues

\* msg_send is an offer.
LEMMA SendOffers ==
  ASSUME OneWay, IInv, AcyclicQueues, QInv, EInv, NEW p \in Proc, NEW q \in Proc, Send(p, q)
  PROVE  R!Offer(p, q, Message(p, q, sent[<<p, q>>] + 1))
<1> DEFINE m == Message(p, q, sent[<<p, q>>] + 1)
<1>1. LinksOK /\ LinksOK'
  BY LinksKept DEF Next, ProcStep
<1>2. MsgTypeOK /\ call \in [Proc -> {"none", "send", "recv"}]
  BY DEF IInv, TypeOK
<1>3. Roles /\ Wishes /\ \A r \in Proc : Queue(r) = BlockedOn(r)
  BY DEF QInv, EInv
<1>4. /\ p # q /\ <<p, q>> \in Links /\ msg_block[p] = 0 /\ call[p] = "none"
      /\ call' = [call EXCEPT ![p] = "send"]
  BY LinksAssumption DEF Send, SysSendMessage, MsgSend, IInv, CurrentNotBlocked
<1>5. call[q] # "send"
  BY <1>3, <1>4, OneWayRoles DEF Roles
<1>6. \A r \in Proc : Queue(r) \subseteq Proc /\ p \notin Queue(r) /\ q \notin Queue(r)
  BY <1>3, <1>4, <1>5 DEF BlockedOn
<1>7. R!Idle(p)
  BY <1>1, <1>4, <1>6, FreeIsIdle
<1>8. call'[p] = "send" /\ \A r \in Proc : r # p => call'[r] = call[r]
  BY <1>2, <1>4
<1>9. recv_from[q] \in Proc \cup {ANY} /\ NULL \notin Proc \cup {ANY}
  BY <1>2, NullApart DEF MsgTypeOK
<1> HIDE DEF m
<1>10. CASE HandOver(p, q, "out", m)
  <2>1. /\ mem' = [mem EXCEPT ![p]["out"] = m, ![q][msg[q]] = m]
        /\ msg_block' = [msg_block EXCEPT ![q] = 0] /\ msg_block[q] = 1
        /\ recv_from[q] \in {p, ANY} /\ UNCHANGED <<recv_from, msg, queueVars>>
    BY <1>10 DEF HandOver, CanHandOver
  <2>2. call[q] = "recv" /\ msg[q] = "in"
    BY <1>3, <1>5, <2>1 DEF Roles, Wishes
  <2>3. mem'[q]["in"] = m /\ \A r \in Proc : r # p /\ r # q => mem'[r] = mem[r]
    BY <1>2, <1>4, <2>1, <2>2, StructAssumption DEF MsgTypeOK
  <2>4. msg_block'[q] = 0 /\ \A r \in Proc : r # q => msg_block'[r] = msg_block[r]
    BY <1>2, <2>1 DEF MsgTypeOK
  <2>5. WantOf(q) \in {p, ANY} /\ WantOf(q)' = NULL /\ BoxOf(q)' = m
    <3>1. call'[q] = "recv" /\ msg_block[q] = 1 /\ recv_from[q] \in {p, ANY}
      BY <1>4, <1>8, <2>1, <2>2
    <3>2. mem'[q]["in"] = m /\ msg_block'[q] = 0
      BY <2>3, <2>4
    <3> QED BY <2>2, <3>1, <3>2 DEF WantOf, BoxOf
  <2>6. ASSUME NEW r \in Proc \ {q} PROVE WantOf(r)' = WantOf(r) /\ BoxOf(r)' = BoxOf(r)
    <3>1. CASE r = p
      BY <1>4, <1>8, <3>1 DEF WantOf, BoxOf
    <3>2. CASE r # p
      <4>1. recv_from'[r] = recv_from[r]
        BY <2>1
      <4>2. mem'[r] = mem[r] /\ msg_block'[r] = msg_block[r] /\ call'[r] = call[r]
        BY <1>8, <2>3, <2>4, <3>2
      <4> QED BY <4>1, <4>2 DEF WantOf, BoxOf
    <3> QED BY <3>1, <3>2
  <2>7. ASSUME NEW r \in Proc PROVE LineOf(r)' = LineOf(r)
    <3>1. msg_head'[r] = msg_head[r] /\ \A t \in Queue(r) : msg_next'[t] = msg_next[t]
      BY <2>1 DEF queueVars
    <3>2. \A t \in Queue(r) : mem'[t][msg'[t]] = mem[t][msg[t]]
      BY <1>6, <2>1, <2>3
    <3> QED BY <1>1, <3>1, <3>2, LineStays
  <2>8. R!Offer(p, q, m)
    BY <1>7, <2>5, <2>6, <2>7, OfferMet
  <2> QED BY <2>8 DEF m
<1>11. CASE Enqueue(p, q, "out", m)
  <2>1. /\ mem' = [mem EXCEPT ![p]["out"] = m] /\ msg_block' = [msg_block EXCEPT ![p] = 1]
        /\ msg' = [msg EXCEPT ![p] = "out"] /\ UNCHANGED recv_from
        /\ InsertMsgQueue(p, q) /\ ~CanHandOver(p, q)
    BY <1>11 DEF Enqueue
  <2>2. /\ mem'[p]["out"] = m /\ msg'[p] = "out"
        /\ \A r \in Proc : r # p => mem'[r] = mem[r] /\ msg'[r] = msg[r] /\ msg_block'[r] = msg_block[r]
    BY <1>2, <2>1, StructAssumption DEF MsgTypeOK
  <2>3. WantOf(q) \notin {p, ANY}
    <3>1. int_status[q] # WAIT_INT
      BY <1>3 DEF Roles, NO_INT, WAIT_INT
    <3>2. msg_block[q] # 1 \/ recv_from[q] \notin {p, ANY}
      BY <2>1, <3>1 DEF CanHandOver
    <3> QED BY <1>9, <3>2 DEF WantOf
  <2>4. ASSUME NEW r \in Proc PROVE WantOf(r)' = WantOf(r) /\ BoxOf(r)' = BoxOf(r)
    <3>1. CASE r = p
      BY <1>4, <1>8, <3>1 DEF WantOf, BoxOf
    <3>2. CASE r # p
      BY <1>8, <2>1, <2>2, <3>2 DEF WantOf, BoxOf
    <3> QED BY <3>1, <3>2
  <2>5. \A r \in Proc, t \in Proc : t \in Queue(r) => mem'[t][msg'[t]] = mem[t][msg[t]]
    BY <1>6, <2>2
  <2>6. LineOf(q)' = Append(LineOf(q), Item(mem', msg', p))
    BY <1>1, <1>6, <2>1, <2>5, LineAppends
  <2>7. Item(mem', msg', p) = [from |-> p, body |-> m]
    BY <2>2 DEF Item
  <2>8. ASSUME NEW r \in Proc \ {q} PROVE LineOf(r)' = LineOf(r)
    <3>1. msg_head'[r] = msg_head[r] /\ \A t \in Queue(r) : msg_next'[t] = msg_next[t]
      <4>1. CASE msg_head[q] = NULL
        <5>1. msg_head' = [msg_head EXCEPT ![q] = p] /\ msg_next' = [msg_next EXCEPT ![p] = NULL]
          BY <2>1, <4>1 DEF InsertMsgQueue
        <5> QED BY <1>6, <5>1
      <4>2. CASE msg_head[q] # NULL
        <5>1. PICK last \in Queue(q) : msg_next' = [msg_next EXCEPT ![last] = p, ![p] = NULL]
          BY <2>1, <4>2 DEF InsertMsgQueue
        <5>2. msg_head' = msg_head
          BY <2>1, <4>2 DEF InsertMsgQueue
        <5>3. last \notin Queue(r)
          BY <1>3 DEF BlockedOn
        <5>4. \A t \in Proc : t # last /\ t # p => msg_next'[t] = msg_next[t]
          BY <1>1, <5>1 DEF LinksOK, Links2
        <5> QED BY <1>6, <5>2, <5>3, <5>4
      <4> QED BY <4>1, <4>2
    <3> QED BY <1>1, <1>6, <2>5, <3>1, LineStays
  <2>9. R!Offer(p, q, m)
    BY <1>7, <2>3, <2>4, <2>6, <2>7, <2>8, OfferWaits
  <2> QED BY <2>9 DEF m
<1> QED BY <1>10, <1>11 DEF Send, SysSendMessage, MsgSend, m

\* msg_receive asks.
LEMMA ReceiveAsks ==
  ASSUME OneWay, IInv, AcyclicQueues, QInv, EInv, NEW q \in Proc, NEW from \in Proc \cup {ANY}, Receive(q, from)
  PROVE  R!Ask(q, from)
<1>1. LinksOK /\ LinksOK'
  BY LinksKept DEF Next, ProcStep
<1>2. MsgTypeOK /\ call \in [Proc -> {"none", "send", "recv"}]
  BY DEF IInv, TypeOK
<1>3. Roles /\ \A r \in Proc : Queue(r) = BlockedOn(r)
  BY DEF QInv
<1>4. /\ from \in Accept[q] /\ msg_block[q] = 0 /\ call[q] = "none"
      /\ call' = [call EXCEPT ![q] = "recv"]
  BY DEF Receive, SysRecvMessage, MsgReceive, IInv, CurrentNotBlocked
<1>5. \A r \in Proc : Queue(r) \subseteq Proc /\ q \notin Queue(r)
  BY <1>3, <1>4 DEF BlockedOn
<1>6. R!Idle(q)
  BY <1>1, <1>4, <1>5, FreeIsIdle
<1>7. call'[q] = "recv" /\ \A r \in Proc : r # q => call'[r] = call[r]
  BY <1>2, <1>4
<1>8. PICK s \in Seq(Proc) :
         /\ IsChain(s, msg_head[q], msg_next) /\ Once(s) /\ Has(s) = Queue(q)
         /\ LineOf(q) = Made(s, mem, msg) /\ DOMAIN LineOf(q) = 1 .. Len(s)
         /\ \A k \in 1 .. Len(s) : LineOf(q)[k] = Item(mem, msg, s[k])
  BY <1>1, LineFacts
<1>9. \A k \in 1 .. Len(s) : LineOf(q)[k].from = s[k] /\ LineOf(q)[k].body = mem[s[k]][msg[s[k]]]
  BY <1>8 DEF Item
<1>10. CASE TakeQueued(q, from, "in")
  <2>1. PICK t \in Queue(q) : /\ FirstMatch(q, from, t) /\ Unlink(t, q)
                              /\ mem' = [mem EXCEPT ![q]["in"] = mem[t][msg[t]]]
                              /\ msg_block' = [msg_block EXCEPT ![t] = 0]
    BY <1>10 DEF TakeQueued
  <2>2. UNCHANGED <<recv_from, msg>>
    BY <1>10 DEF TakeQueued
  <2>3. t \in Proc /\ t # q /\ call[t] = "send"
    BY <1>3, <1>5, <2>1 DEF BlockedOn
  <2>4. PICK i \in 1 .. Len(s) : t = s[i]
    BY <1>8, <2>1 DEF Has
  <2>5. /\ mem'[q]["in"] = mem[t][msg[t]] /\ \A r \in Proc : r # q => mem'[r] = mem[r]
        /\ msg_block'[q] = 0 /\ \A r \in Proc : r # t => msg_block'[r] = msg_block[r]
    BY <1>2, <1>4, <2>1, <2>3, StructAssumption DEF MsgTypeOK
  <2>6. \A r \in Proc, u \in Proc : u \in Queue(r) => mem'[u][msg'[u]] = mem[u][msg[u]]
    BY <1>5, <2>2, <2>5
  <2>7. BoxOf(q)' = LineOf(q)[i].body /\ WantOf(q)' = WantOf(q)
    BY <1>4, <1>7, <1>9, <2>4, <2>5 DEF BoxOf, WantOf
  <2>8. ASSUME NEW r \in Proc \ {q} PROVE WantOf(r)' = WantOf(r) /\ BoxOf(r)' = BoxOf(r)
    <3>1. CASE r = t
      BY <1>7, <2>3, <3>1 DEF BoxOf, WantOf
    <3>2. CASE r # t
      BY <1>7, <2>2, <2>5, <3>2 DEF BoxOf, WantOf
    <3> QED BY <3>1, <3>2
  <2>9. from \in {ANY, LineOf(q)[i].from}
    BY <1>9, <2>1, <2>4 DEF FirstMatch, Matching
  <2>10. ASSUME NEW j \in 1 .. i - 1 PROVE from \notin {ANY, LineOf(q)[j].from}
    <3>1. j \in 1 .. Len(s) /\ j < i
      <4>1. Len(s) \in Nat
        BY <1>8
      <4> QED BY <4>1
    <3>2. SUFFICES ASSUME from \in {ANY, s[j]} PROVE FALSE
      BY <1>9, <3>1
    <3>3. s[j] \in Matching(q, from)
      BY <1>8, <3>1, <3>2 DEF Matching, Has
    <3>4. s[j] \in Reach(msg_next, s[i])
      BY <2>1, <2>4, <3>3 DEF FirstMatch
    <3>5. Reach(msg_next, s[i]) \subseteq {s[k] : k \in i .. Len(s)}
      BY <1>1, <1>8, ChainWithin DEF LinksOK, Links2
    <3>6. PICK k \in i .. Len(s) : s[k] = s[j]
      BY <3>4, <3>5
    <3>7. k \in 1 .. Len(s) /\ k # j
      BY <1>8, <3>1
    <3> QED BY <1>8, <3>1, <3>6, <3>7 DEF Once
  <2>11. LineOf(q)' = Without(LineOf(q), i)
    BY <1>1, <1>5, <1>8, <2>1, <2>4, <2>6, LineLoses
  <2>12. ASSUME NEW r \in Proc \ {q} PROVE LineOf(r)' = LineOf(r)
    <3>1. msg_head'[r] = msg_head[r] /\ \A u \in Queue(r) : msg_next'[u] = msg_next[u]
      <4>1. CASE t = msg_head[q]
        <5>1. msg_head' = [msg_head EXCEPT ![q] = msg_next[t]] /\ msg_next' = msg_next
          BY <2>1, <4>1 DEF Unlink
        <5> QED BY <5>1
      <4>2. CASE t # msg_head[q]
        <5>1. PICK prev \in Queue(q) : msg_next' = [msg_next EXCEPT ![prev] = msg_next[t]]
          BY <2>1, <4>2 DEF Unlink
        <5>2. msg_head' = msg_head
          BY <2>1, <4>2 DEF Unlink
        <5>3. prev \notin Queue(r)
          BY <1>3 DEF BlockedOn
        <5>4. \A u \in Proc : u # prev => msg_next'[u] = msg_next[u]
          BY <1>1, <5>1 DEF LinksOK, Links2
        <5> QED BY <1>5, <5>2, <5>3, <5>4
      <4> QED BY <4>1, <4>2
    <3> QED BY <1>1, <1>5, <2>6, <3>1, LineStays
  <2>13. i \in DOMAIN LineOf(q)
    BY <1>8
  <2> QED BY <1>4, <1>6, <2>7, <2>8, <2>9, <2>10, <2>11, <2>12, <2>13, AskMeets
<1>11. CASE AwaitSender(q, from, "in")
  <2>1. /\ Matching(q, from) = {} /\ msg_block' = [msg_block EXCEPT ![q] = 1]
        /\ recv_from' = [recv_from EXCEPT ![q] = from] /\ msg' = [msg EXCEPT ![q] = "in"]
        /\ UNCHANGED <<queueVars, mem>>
    BY <1>11 DEF AwaitSender
  <2>2. /\ msg_block'[q] = 1 /\ recv_from'[q] = from
        /\ \A r \in Proc : r # q => /\ msg_block'[r] = msg_block[r] /\ recv_from'[r] = recv_from[r]
                                    /\ msg'[r] = msg[r]
    BY <1>2, <2>1 DEF MsgTypeOK
  <2>3. ASSUME NEW i \in DOMAIN LineOf(q) PROVE from \notin {ANY, LineOf(q)[i].from}
    <3>1. i \in 1 .. Len(s) /\ s[i] \in Queue(q)
      BY <1>8 DEF Has
    <3> QED BY <1>9, <2>1, <3>1 DEF Matching
  <2>4. WantOf(q)' = from /\ BoxOf(q)' = BoxOf(q)
    BY <1>4, <1>7, <2>2 DEF WantOf, BoxOf
  <2>5. ASSUME NEW r \in Proc \ {q} PROVE WantOf(r)' = WantOf(r) /\ BoxOf(r)' = BoxOf(r)
    BY <1>7, <2>1, <2>2 DEF WantOf, BoxOf
  <2>6. ASSUME NEW r \in Proc PROVE LineOf(r)' = LineOf(r)
    <3>1. \A t \in Queue(r) : msg_next'[t] = msg_next[t] /\ mem'[t][msg'[t]] = mem[t][msg[t]]
      BY <1>5, <2>1, <2>2 DEF queueVars
    <3>2. msg_head'[r] = msg_head[r]
      BY <2>1 DEF queueVars
    <3> QED BY <1>1, <3>1, <3>2, LineStays
  <2> QED BY <1>4, <1>6, <2>3, <2>4, <2>5, <2>6, AskWaits
<1> QED BY <1>10, <1>11 DEF Receive, SysRecvMessage, MsgReceive

\* The return from recv_message uses up what it returns; any other return shows nothing.
LEMMA ReturnConsumes ==
  ASSUME IInv, AcyclicQueues, NEW p \in Proc, Return(p)
  PROVE  R!Consume(p) \/ UNCHANGED R!rvVars
<1>1. LinksOK /\ LinksOK'
  BY LinksKept DEF Next, ProcStep
<1>2. /\ msg_block[p] = 0 /\ call' = [call EXCEPT ![p] = "none"]
      /\ UNCHANGED <<msg_block, recv_from, msg, msg_head, msg_next, mem>>
  BY DEF Return, IInv, CurrentNotBlocked, msgVars, queueVars
<1>3. call'[p] = "none" /\ \A r \in Proc : r # p => call'[r] = call[r]
  BY <1>2 DEF IInv, TypeOK
<1>4. ASSUME NEW r \in Proc PROVE LineOf(r)' = LineOf(r)
  BY <1>1, <1>2, LineStays
<1>5. ASSUME NEW r \in Proc PROVE WantOf(r)' = WantOf(r)
  BY <1>2, <1>3 DEF WantOf
<1>6. ASSUME NEW r \in Proc \ {p} PROVE BoxOf(r)' = BoxOf(r)
  BY <1>2, <1>3 DEF BoxOf
<1>7. BoxOf(p)' = NULL
  BY <1>3 DEF BoxOf
<1>8. CASE BoxOf(p) # NULL
  BY <1>4, <1>5, <1>6, <1>7, <1>8, ConsumeDone
<1>9. CASE BoxOf(p) = NULL
  BY <1>4, <1>5, <1>6, <1>7, <1>9, AllStay
<1> QED BY <1>8, <1>9

\* One step per action of Next.
LEMMA StepMeets ==
  ASSUME OneWay, IInv, AcyclicQueues, QInv, EInv, [Next]_vars
  PROVE  [R!RvNext]_(R!rvVars)
<1>1. ASSUME NEW p \in Proc, NEW q \in Proc, Send(p, q) PROVE R!RvNext
  <2>1. sent[<<p, q>>] + 1 \in 1 .. MaxMsg /\ <<p, q>> \in Links
    BY <1>1, LinksAssumption DEF Send, IInv, TypeOK
  <2>2. Message(p, q, sent[<<p, q>>] + 1) \in Content \ {NULL}
    <3>1. <<p, q>>[1] = p /\ <<p, q>>[2] = q
      OBVIOUS
    <3> QED BY <2>1, <3>1, StructAssumption
  <2>3. R!Offer(p, q, Message(p, q, sent[<<p, q>>] + 1))
    BY <1>1, SendOffers
  <2> QED BY <2>2, <2>3, Zenon DEF R!RvNext
<1>2. ASSUME NEW q \in Proc, NEW from \in Proc \cup {ANY}, Receive(q, from) PROVE R!RvNext
  <2>1. R!Ask(q, from)
    BY <1>2, ReceiveAsks
  <2> QED BY <2>1, Zenon DEF R!RvNext
<1>3. ASSUME NEW p \in Proc, Return(p) PROVE R!RvNext \/ UNCHANGED R!rvVars
  <2>1. R!Consume(p) \/ UNCHANGED R!rvVars
    BY <1>3, ReturnConsumes
  <2> QED BY <2>1, Zenon DEF R!RvNext
<1>4. CASE Tick \/ UNCHANGED vars
  <2>1. UNCHANGED <<msg_block, recv_from, msg, msg_head, msg_next, mem, call>>
    BY <1>4 DEF Tick, ClockHandler, vars, msgVars, queueVars, clientVars
  <2>2. ASSUME NEW r \in Proc PROVE LineOf(r)' = LineOf(r) /\ WantOf(r)' = WantOf(r) /\ BoxOf(r)' = BoxOf(r)
    <3>1. LineOf(r)' = LineOf(r)
      BY <2>1, LinksKept, LineStays
    <3>2. WantOf(r)' = WantOf(r) /\ BoxOf(r)' = BoxOf(r)
      BY <2>1 DEF WantOf, BoxOf
    <3> QED BY <3>1, <3>2
  <2> QED BY <2>2, AllStay
<1> QED BY <1>1, <1>2, <1>3, <1>4 DEF Next, ProcStep

\* After boot nobody waits.
LEMMA InitMeets == ASSUME Init PROVE R!RvInit
<1>1. ASSUME NEW r \in Proc PROVE LineOf(r) = << >> /\ WantOf(r) = NULL /\ BoxOf(r) = NULL
  <2>1. msg_head[r] = NULL /\ call[r] = "none"
    BY DEF Init, MsgInit
  <2> QED BY <2>1, Zenon DEF LineOf, WantOf, BoxOf
<1> HIDE DEF LineOf, WantOf, BoxOf
<1> QED BY <1>1, Zenon DEF R!RvInit

\* msg/msg.c (msg_send, msg_receive), with the scheduler and the clock: in a one-way mix
\* every step is a meeting, a wait in line, the use of a message, or shows nothing.
THEOREM KernelIsRendezvous == OneWay /\ Spec => ImplementsRendezvous
<1>1. Init => R!RvInit
  BY InitMeets
<1>2. OneWay /\ IInv /\ AcyclicQueues /\ QInv /\ EInv /\ [Next]_vars => [R!RvNext]_(R!rvVars)
  BY StepMeets
<1>3. OneWay => OneWay'
  BY DEF OneWay, Senders
<1> QED
  BY <1>1, <1>2, <1>3, Invariance, QueuesAcyclic, QueueInvariance, AccountInvariance, PTL
  DEF Spec, ImplementsRendezvous, R!RvSpec

================================================================================
