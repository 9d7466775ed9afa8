---------------------------------- MODULE Msg ----------------------------------
(***************************************************************************)
(* The message and interrupt primitives of msg/msg.c, one operator per     *)
(* function, over the IPC fields of the process control blocks (proc_t in  *)
(* include/proc.h).  Every operator is an action fragment: it constrains   *)
(* the primed fields below and nothing else.  The modules that EXTEND this *)
(* one add the scheduler, the system calls and the programs that run.      *)
(*                                                                         *)
(* A msg_t is a value of Content.  A process owns the message structures   *)
(* named in Struct; the kernel keeps a POINTER to one of them in the field *)
(* msg, so mem[p][s] is the memory the pointer s of process p denotes.     *)
(***************************************************************************)
EXTENDS Integers, FiniteSets

CONSTANTS
  NProc,      \* PROC_MAX_NUM
  Struct,     \* the message structures of a process (its msg_t variables)
  Content,    \* what a message structure can hold
  NULL        \* the null pointer

ASSUME NProcAssumption == NProc \in Nat \ {0}
ASSUME NullAssumption  == NULL \notin -1 .. NProc - 1 /\ NULL \notin Struct

Proc == 0 .. NProc - 1
ANY  == -1                                    \* include/msg.h

NO_INT   == 0
HAS_INT  == 1
WAIT_INT == 2

VARIABLES
  msg_block,     \* [Proc -> 0..1]  blocked in a system call
  recv_from,     \* [Proc -> Proc \cup {ANY}]  last sender waited for
  send_to,       \* [Proc -> Proc]  last receiver queued for
  msg,           \* [Proc -> Struct \cup {NULL}]  pointer to the structure
  msg_head,      \* [Proc -> Proc \cup {NULL}]  first queued sender
  msg_next,      \* [Proc -> Proc \cup {NULL}]  link of the sender queues
  int_status,    \* [Proc -> {NO_INT, HAS_INT, WAIT_INT}]
  interrupt_id,  \* [Proc -> interrupt numbers]
  mem            \* [Proc -> [Struct -> Content]]

queueVars == <<msg_head, msg_next>>
intVars   == <<int_status, interrupt_id>>
msgVars   == <<msg_block, recv_from, send_to, msg, queueVars, intVars, mem>>

MsgTypeOK ==
  /\ msg_block    \in [Proc -> 0 .. 1]
  /\ recv_from    \in [Proc -> Proc \cup {ANY}]
  /\ send_to      \in [Proc -> Proc]
  /\ msg          \in [Proc -> Struct \cup {NULL}]
  /\ msg_head     \in [Proc -> Proc \cup {NULL}]
  /\ msg_next     \in [Proc -> Proc \cup {NULL}]
  /\ int_status   \in [Proc -> {NO_INT, HAS_INT, WAIT_INT}]
  /\ interrupt_id \in [Proc -> Nat]
  /\ mem          \in [Proc -> [Struct -> Content]]

\* The memset in new_task_proc, new_init_proc and new_user_proc clears the
\* whole PCB: in particular recv_from is 0, the pid of the first process.
MsgInit ==
  /\ msg_block    = [p \in Proc |-> 0]
  /\ recv_from    = [p \in Proc |-> 0]
  /\ send_to      = [p \in Proc |-> 0]
  /\ msg          = [p \in Proc |-> NULL]
  /\ msg_head     = [p \in Proc |-> NULL]
  /\ msg_next     = [p \in Proc |-> NULL]
  /\ int_status   = [p \in Proc |-> NO_INT]
  /\ interrupt_id = [p \in Proc |-> 0]

--------------------------------------------------------------------------------
(* Sender queues: singly linked through msg_next, starting at msg_head.    *)

\* The processes a walk along the links nx meets when it starts at h.
Reach(nx, h) ==
  {t \in Proc : \A S \in SUBSET Proc :
     (h \in S \cup {NULL} /\ \A s \in S : nx[s] \in S \cup {NULL}) => t \in S}

Queue(q) == Reach(msg_next, msg_head[q])

\* No set of PCBs is closed under the links.
Acyclic(nx) == \A S \in SUBSET Proc : S # {} => \E p \in S : nx[p] \notin S

\* Mutant: the link of the inserted sender is not cleared.
InsertKeepsLink(p, q) ==
  IF msg_head[q] = NULL
  THEN /\ msg_head' = [msg_head EXCEPT ![q] = p]
       /\ UNCHANGED msg_next
  ELSE /\ \E last \in Queue(q) :
            /\ msg_next[last] = NULL
            /\ msg_next' = [msg_next EXCEPT ![last] = p]
       /\ UNCHANGED msg_head

\* insert_msg_queue: append p to the queue of q.
InsertMsgQueue(p, q) ==
  IF msg_head[q] = NULL
  THEN /\ msg_head' = [msg_head EXCEPT ![q] = p]
       /\ msg_next' = [msg_next EXCEPT ![p] = NULL]
  ELSE /\ \E last \in Queue(q) :
            /\ msg_next[last] = NULL
            /\ msg_next' = [msg_next EXCEPT ![last] = p, ![p] = NULL]
       /\ UNCHANGED msg_head

\* The list surgery of msg_receive: take t out of the queue of q.  The link
\* of t itself is left as it was.
Unlink(t, q) ==
  IF t = msg_head[q]
  THEN /\ msg_head' = [msg_head EXCEPT ![q] = msg_next[t]]
       /\ UNCHANGED msg_next
  ELSE /\ \E prev \in Queue(q) :
            /\ msg_next[prev] = t
            /\ msg_next' = [msg_next EXCEPT ![prev] = msg_next[t]]
       /\ UNCHANGED msg_head

--------------------------------------------------------------------------------
(* msg_send                                                                *)

\* Mutant: the test of msg_send without the first condition.
HandOverIgnoresInterrupt(p, to) ==
  /\ msg_block[to] = 1
  /\ recv_from[to] \in {p, ANY}

\* Mutant: a receiver of ANY is not recognised.
HandOverNamed(p, to) ==
  /\ int_status[to] # WAIT_INT
  /\ msg_block[to] = 1
  /\ recv_from[to] = p

\* The receiver is blocked, not for an interrupt, and last waited for p.
CanHandOver(p, to) ==
  /\ int_status[to] # WAIT_INT
  /\ msg_block[to] = 1
  /\ recv_from[to] \in {p, ANY}

\* Process p has filled its structure s with m and sends it to process to.
HandOver(p, to, s, m) ==
  /\ CanHandOver(p, to)
  /\ mem' = [mem EXCEPT ![p][s] = m, ![to][msg[to]] = m]
  /\ msg_block' = [msg_block EXCEPT ![to] = 0]
  /\ UNCHANGED <<recv_from, send_to, msg, queueVars>>

Enqueue(p, to, s, m) ==
  /\ ~CanHandOver(p, to)
  /\ mem' = [mem EXCEPT ![p][s] = m]
  /\ msg_block' = [msg_block EXCEPT ![p] = 1]
  /\ send_to' = [send_to EXCEPT ![p] = to]
  /\ msg' = [msg EXCEPT ![p] = s]
  /\ InsertMsgQueue(p, to)
  /\ UNCHANGED recv_from

MsgSend(p, to, s, m) ==
  /\ HandOver(p, to, s, m) \/ Enqueue(p, to, s, m)
  /\ UNCHANGED intVars

--------------------------------------------------------------------------------
(* msg_receive                                                             *)

Matching(q, from) == {t \in Queue(q) : from \in {ANY, t}}

\* The first match of the walk: every other match lies behind it.
FirstMatch(q, from, t) ==
  /\ t \in Matching(q, from)
  /\ Matching(q, from) \subseteq Reach(msg_next, t)

\* Mutant: the sender is served but stays linked.
TakeWithoutUnlink(q, from, s) ==
  /\ \E t \in Queue(q) :
       /\ FirstMatch(q, from, t)
       /\ mem' = [mem EXCEPT ![q][s] = mem[t][msg[t]]]
       /\ msg_block' = [msg_block EXCEPT ![t] = 0]
       /\ UNCHANGED queueVars
  /\ UNCHANGED <<recv_from, send_to, msg>>

\* Mutant: the walk keeps the last match instead of the first.
TakeNewest(q, from, s) ==
  /\ \E t \in Matching(q, from) :
       /\ Matching(q, from) \cap Reach(msg_next, t) = {t}
       /\ mem' = [mem EXCEPT ![q][s] = mem[t][msg[t]]]
       /\ msg_block' = [msg_block EXCEPT ![t] = 0]
       /\ Unlink(t, q)
  /\ UNCHANGED <<recv_from, send_to, msg>>

\* A queued sender that matches is served and woken.
TakeQueued(q, from, s) ==
  /\ \E t \in Queue(q) :
       /\ FirstMatch(q, from, t)
       /\ mem' = [mem EXCEPT ![q][s] = mem[t][msg[t]]]
       /\ msg_block' = [msg_block EXCEPT ![t] = 0]
       /\ Unlink(t, q)
  /\ UNCHANGED <<recv_from, send_to, msg>>

\* Nobody matches: block, and only now record from whom and into what.
AwaitSender(q, from, s) ==
  /\ Matching(q, from) = {}
  /\ msg_block' = [msg_block EXCEPT ![q] = 1]
  /\ recv_from' = [recv_from EXCEPT ![q] = from]
  /\ msg' = [msg EXCEPT ![q] = s]
  /\ UNCHANGED <<send_to, queueVars, mem>>

MsgReceive(q, from, s) ==
  /\ TakeQueued(q, from, s) \/ AwaitSender(q, from, s)
  /\ UNCHANGED intVars

--------------------------------------------------------------------------------
(* msg_send_interrupt and msg_recv_interrupt.  The first runs inside an    *)
(* interrupt handler of the slave controller, with interrupts disabled.    *)
(* The second is the body of a system call, which the kernel runs with     *)
(* interrupts ENABLED and without a lock: its test and its three stores    *)
(* are therefore separate operators, in program order.                     *)

MsgSendInterrupt(p, id) ==
  /\ \/ /\ int_status[p] = NO_INT
        /\ int_status' = [int_status EXCEPT ![p] = HAS_INT]
        /\ interrupt_id' = [interrupt_id EXCEPT ![p] = id]
        /\ UNCHANGED msg_block
     \/ /\ int_status[p] = WAIT_INT
        /\ interrupt_id[p] = id
        /\ int_status' = [int_status EXCEPT ![p] = NO_INT]
        /\ msg_block' = [msg_block EXCEPT ![p] = 0]
        /\ UNCHANGED interrupt_id
     \/ /\ \/ int_status[p] = HAS_INT
           \/ int_status[p] = WAIT_INT /\ interrupt_id[p] # id
        /\ UNCHANGED <<intVars, msg_block>>
  /\ UNCHANGED <<recv_from, send_to, msg, queueVars, mem>>

RecvInterruptStatus(p) ==
  /\ int_status' = [int_status EXCEPT ![p] = WAIT_INT]
  /\ UNCHANGED <<msg_block, recv_from, send_to, msg, queueVars, interrupt_id, mem>>

RecvInterruptId(p, id) ==
  /\ interrupt_id' = [interrupt_id EXCEPT ![p] = id]
  /\ UNCHANGED <<msg_block, recv_from, send_to, msg, queueVars, int_status, mem>>

RecvInterruptBlock(p) ==
  /\ msg_block' = [msg_block EXCEPT ![p] = 1]
  /\ UNCHANGED <<recv_from, send_to, msg, queueVars, intVars, mem>>

\* An interrupt is already there: consume it.  (Any other state is left.)
RecvInterruptTake(p, id) ==
  /\ int_status' = [int_status EXCEPT ![p] =
       IF int_status[p] = HAS_INT /\ interrupt_id[p] = id THEN NO_INT ELSE @]
  /\ UNCHANGED <<msg_block, recv_from, send_to, msg, queueVars, interrupt_id, mem>>
================================================================================
