-------------------------------- MODULE Clients --------------------------------
(***************************************************************************)
(* Processes that do nothing but send and receive messages, in any order,  *)
(* over a fixed set of links, on the kernel of modules Msg and Sched.      *)
(* debug/debug_proc.c holds such a mix: two senders and one receiver that  *)
(* accepts ANY.  A process of Quiet never makes a call (the task INIT is   *)
(* an empty loop), so the scheduler always finds something to run.         *)
(*                                                                         *)
(* Only the current process acts.  A system call is one action: it is      *)
(* preempted by nothing that touches the fields it uses (see Sched), and   *)
(* its caller continues when it is current again, with Return.             *)
(***************************************************************************)
EXTENDS Sched

CONSTANTS
  Links,     \* the pairs <<sender, receiver>> the programs use
  Accept,    \* [Proc -> SUBSET (Proc \cup {ANY})]: what each receives from
  MaxMsg     \* bound: messages sent over one link

Senders(q)  == {p \in Proc : <<p, q>> \in Links}
Quiet       == {p \in Proc : Accept[p] = {} /\ \A q \in Proc : <<p, q>> \notin Links}

ASSUME LinksAssumption ==
  /\ Links \subseteq {l \in Proc \X Proc : l[1] # l[2]}
  /\ Accept \in [Proc -> SUBSET (Proc \cup {ANY})]
  /\ Quiet # {}
  /\ MaxMsg \in Nat

Message(p, q, n) == [from |-> p, to |-> q, n |-> n]

\* A structure holds a message of a link or, NULL, what was there at boot.
ASSUME StructAssumption ==
  /\ Struct = {"in", "out"}
  /\ Content = {Message(l[1], l[2], n) : l \in Links, n \in 1 .. MaxMsg} \cup {NULL}
  /\ \A l \in Links, n \in 1 .. MaxMsg : Message(l[1], l[2], n) # NULL

VARIABLES
  call,   \* [Proc -> {"none", "send", "recv"}]  the call the process is in
  sent,   \* [Links -> 0..MaxMsg]  messages handed to send_message
  seen    \* [Links -> 0..MaxMsg]  number of the last message received

clientVars == <<call, sent, seen>>
vars == <<msgVars, schedVars, clientVars>>

Init ==
  /\ MsgInit
  /\ SchedInit
  /\ mem  = [p \in Proc |-> [s \in Struct |-> NULL]]
  /\ call = [p \in Proc |-> "none"]
  /\ sent = [l \in Links |-> 0]
  /\ seen = [l \in Links |-> 0]

\* send_message(p, q, &msg) in the loop of debug_send_task.
Send(p, q) ==
  /\ p = current_proc
  /\ call[p] = "none"
  /\ <<p, q>> \in Links
  /\ sent[<<p, q>>] < MaxMsg
  /\ SysSendMessage(p, q, "out", Message(p, q, sent[<<p, q>>] + 1))
  /\ call' = [call EXCEPT ![p] = "send"]
  /\ sent' = [sent EXCEPT ![<<p, q>>] = @ + 1]
  /\ UNCHANGED seen

\* recv_message(from, q, &msg) in the loop of debug_recv_task.
Receive(q, from) ==
  /\ q = current_proc
  /\ call[q] = "none"
  /\ from \in Accept[q]
  /\ SysRecvMessage(from, q, "in")
  /\ call' = [call EXCEPT ![q] = "recv"]
  /\ UNCHANGED <<sent, seen>>

\* The call is over for its caller: the process runs again.
Return(p) ==
  /\ p = current_proc
  /\ call[p] # "none"
  /\ call' = [call EXCEPT ![p] = "none"]
  /\ seen' = IF call[p] = "recv"
             THEN [l \in Links |->
                     IF mem[p]["in"] # NULL /\ l = <<mem[p]["in"].from, p>>
                     THEN mem[p]["in"].n ELSE seen[l]]
             ELSE seen
  /\ UNCHANGED <<msgVars, schedVars, sent>>

Tick == ClockHandler /\ UNCHANGED clientVars

ProcStep(p) ==
  \/ \E q \in Proc : Send(p, q)
  \/ \E from \in Proc \cup {ANY} : Receive(p, from)
  \/ Return(p)

Next == Tick \/ \E p \in Proc : ProcStep(p)

\* The timer never stops; a process that gets the processor again and again
\* makes its next step in one of its time slices.
Fairness == WF_vars(Tick) /\ \A p \in Proc : SF_vars(ProcStep(p))

Spec     == Init /\ [][Next]_vars
FairSpec == Spec /\ Fairness

--------------------------------------------------------------------------------
(* Invariants of every mix                                                 *)

\* Every field of the kernel and of the clients keeps its type (proc_t).
TypeOK ==
  /\ MsgTypeOK
  /\ SchedTypeOK
  /\ call \in [Proc -> {"none", "send", "recv"}]
  /\ sent \in [Links -> 0 .. MaxMsg]
  /\ seen \in [Links -> 0 .. MaxMsg]

\* A walk along the links of a sender queue, which insert_msg_queue and
\* msg_receive make without a bound, always ends: the links have no cycle,
\* even when a process is served, woken or queued twice out of turn.
AcyclicQueues == Acyclic(msg_next)

\* Whoever holds the processor is not blocked, so msg_receive never meets
\* the state it reports as "Error!", and a woken sender finds its call done.
CurrentNotBlocked == msg_block[current_proc] = 0 /\ take_up[current_proc] = 1

--------------------------------------------------------------------------------
(* Invariants of a one-way mix: nobody that is sent to sends               *)

OneWay == \A l \in Links : Senders(l[1]) = {} /\ Accept[l[1]] = {}

\* The senders queued at q are exactly the processes blocked in a
\* send_message to q: none is forgotten, none is left behind when served.
QueueExact ==
  OneWay => \A q \in Proc :
    Queue(q) = {p \in Proc : msg_block[p] = 1 /\ call[p] = "send" /\ send_to[p] = q}

\* No rendezvous is missed: a receiver is never blocked while a sender it
\* would accept is blocked on it.
NoMissedRendezvous ==
  OneWay => \A q \in Proc : (msg_block[q] = 1 /\ call[q] = "recv") =>
    Matching(q, recv_from[q]) = {}

Queued(p, q) == msg_block[p] = 1 /\ call[p] = "send" /\ send_to[p] = q

\* The call of receiver q is done, with a message of p in its structure.
Handed(p, q) ==
  /\ call[q] = "recv" /\ msg_block[q] = 0
  /\ mem[q]["in"] # NULL /\ mem[q]["in"].from = p

\* Each message is received once, unchanged and in the order sent: what was
\* seen over a link lags behind what was sent by the messages on their way.
ExactlyOnce ==
  OneWay => \A l \in Links :
    LET p == l[1]  q == l[2]
        OnWay(b) == IF b THEN 1 ELSE 0
    IN /\ sent[l] = seen[l] + OnWay(Queued(p, q)) + OnWay(Handed(p, q))
       /\ Queued(p, q) => mem[p][msg[p]] = Message(p, q, sent[l])
       /\ Handed(p, q) => mem[q]["in"] = Message(p, q, seen[l] + 1)

\* A sender blocked in send_message to a receiver that keeps accepting ANY is
\* released: others queue before and behind it, and the scheduler comes round.
\* (A receiver that names another sender may leave it blocked for ever.)
SendersReleased ==
  \A p \in UNION {Senders(q) : q \in Proc} :
    (msg_block[p] = 1 /\ call[p] = "send" /\ Accept[send_to[p]] = {ANY}) ~> (msg_block[p] = 0)
================================================================================
