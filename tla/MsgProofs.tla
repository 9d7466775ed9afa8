------------------------------- MODULE MsgProofs -------------------------------
(***************************************************************************)
(* Lemmas about the operators of Msg: what msg_send and msg_receive do to  *)
(* the types, the message pointers and the sender queues.                  *)
(***************************************************************************)
EXTENDS Msg, TLAPS

\* The null pointer is no process, and neither is ANY.
LEMMA NullApart == NULL \notin Proc /\ NULL # ANY /\ ANY \notin Proc
<1>1. NProc \in Nat
  BY NProcAssumption
<1>2. NULL \notin -1 .. NProc - 1 /\ -1 \in -1 .. NProc - 1
  BY <1>1, NullAssumption
<1>3. \A p \in Proc : p \in -1 .. NProc - 1 /\ p # -1
  BY <1>1 DEF Proc
<1> QED BY <1>2, <1>3 DEF ANY

\* A PCB that was ever linked into a queue, or blocked for a message, points
\* to a message structure.
HasStruct == {p \in Proc : msg[p] # NULL}

LinkedHasStruct ==
  /\ \A q \in Proc : msg_head[q] \in HasStruct \cup {NULL}
  /\ \A p \in Proc : msg_next[p] \in HasStruct \cup {NULL}

\* A walk stays in every set that holds its start and is closed under links.
LEMMA ReachWithin ==
  ASSUME NEW nx, NEW h, NEW S \in SUBSET Proc,
         h \in S \cup {NULL}, \A s \in S : nx[s] \in S \cup {NULL}
  PROVE  Reach(nx, h) \subseteq S
  BY DEF Reach

\* msg_receive never follows a null message pointer.
LEMMA QueueHasStruct ==
  ASSUME MsgTypeOK, LinkedHasStruct, NEW q \in Proc, NEW t \in Queue(q)
  PROVE  t \in Proc /\ msg[t] \in Struct
<1>1. HasStruct \in SUBSET Proc
  BY DEF HasStruct
<1>2. Queue(q) \subseteq HasStruct
  BY <1>1, ReachWithin DEF Queue, LinkedHasStruct, HasStruct
<1> QED
  BY <1>1, <1>2 DEF HasStruct, MsgTypeOK

\* Handing a message over (msg_send, receiver waiting) keeps the types and
\* leaves every linked process with a message structure.
LEMMA HandOverType ==
  ASSUME MsgTypeOK, LinkedHasStruct, NEW p \in Proc, NEW to \in Proc,
         NEW s \in Struct, NEW m \in Content, HandOver(p, to, s, m), UNCHANGED intVars
  PROVE  MsgTypeOK' /\ LinkedHasStruct' /\ msg_block' = [msg_block EXCEPT ![to] = 0]
<1>1. mem' \in [Proc -> [Struct -> Content]]
  <2> DEFINE k == [mem EXCEPT ![p][s] = m]
  <2>1. k \in [Proc -> [Struct -> Content]]
    BY DEF MsgTypeOK
  <2>2. mem' = [k EXCEPT ![to][msg[to]] = m]
    BY DEF HandOver
  <2> HIDE DEF k
  <2> QED BY <2>1, <2>2
<1>2. msg_block' \in [Proc -> 0 .. 1]
  BY DEF HandOver, MsgTypeOK
<1>3. LinkedHasStruct'
  BY DEF HandOver, LinkedHasStruct, HasStruct, queueVars
<1> QED
  BY <1>1, <1>2, <1>3 DEF HandOver, MsgTypeOK, intVars, queueVars

\* insert_msg_queue only writes the inserted sender and null into the links.
LEMMA InsertType ==
  ASSUME MsgTypeOK, NEW p \in Proc, NEW q \in Proc, InsertMsgQueue(p, q)
  PROVE  /\ msg_head' \in [Proc -> Proc \cup {NULL}]
         /\ msg_next' \in [Proc -> Proc \cup {NULL}]
         /\ \A r \in Proc : msg_head'[r] \in {msg_head[r], p}
         /\ \A r \in Proc : msg_next'[r] \in {msg_next[r], p, NULL}
<1>1. CASE msg_head[q] = NULL
  BY <1>1 DEF InsertMsgQueue, MsgTypeOK
<1>2. CASE msg_head[q] # NULL
  <2>1. PICK last \in Queue(q) : msg_next' = [msg_next EXCEPT ![last] = p, ![p] = NULL]
    BY <1>2 DEF InsertMsgQueue
  <2>2. msg_head' = msg_head
    BY <1>2 DEF InsertMsgQueue
  <2> QED BY <2>1, <2>2 DEF MsgTypeOK
<1> QED BY <1>1, <1>2

\* Queueing a sender (msg_send, receiver not waiting) keeps the types; the
\* sender it links has recorded its structure.
LEMMA EnqueueType ==
  ASSUME MsgTypeOK, LinkedHasStruct, NEW p \in Proc, NEW to \in Proc,
         NEW s \in Struct, NEW m \in Content, Enqueue(p, to, s, m), UNCHANGED intVars
  PROVE  MsgTypeOK' /\ LinkedHasStruct' /\ msg_block' = [msg_block EXCEPT ![p] = 1]
<1>1. /\ msg_head' \in [Proc -> Proc \cup {NULL}]
      /\ msg_next' \in [Proc -> Proc \cup {NULL}]
      /\ \A r \in Proc : msg_head'[r] \in {msg_head[r], p}
      /\ \A r \in Proc : msg_next'[r] \in {msg_next[r], p, NULL}
  BY InsertType DEF Enqueue
<1>2. mem' \in [Proc -> [Struct -> Content]] /\ msg' \in [Proc -> Struct \cup {NULL}]
  BY DEF Enqueue, MsgTypeOK
<1>3. \A r \in Proc : r \in HasStruct \/ r = p => msg'[r] # NULL
  BY NullAssumption DEF Enqueue, MsgTypeOK, HasStruct
<1>4. LinkedHasStruct'
  BY <1>1, <1>3 DEF LinkedHasStruct, HasStruct
<1> QED
  BY <1>1, <1>2, <1>4 DEF Enqueue, MsgTypeOK, intVars

\* Taking a process out of a queue leaves heads and links pointers to PCBs.
LEMMA UnlinkType ==
  ASSUME MsgTypeOK, NEW t \in Proc, NEW q \in Proc, Unlink(t, q)
  PROVE  /\ msg_head' \in [Proc -> Proc \cup {NULL}]
         /\ msg_next' \in [Proc -> Proc \cup {NULL}]
         /\ \A r \in Proc : msg_head'[r] \in {msg_head[r], msg_next[t]}
         /\ \A r \in Proc : msg_next'[r] \in {msg_next[r], msg_next[t]}
<1>1. CASE t = msg_head[q]
  BY <1>1 DEF Unlink, MsgTypeOK
<1>2. CASE t # msg_head[q]
  <2>1. PICK prev \in Queue(q) : msg_next' = [msg_next EXCEPT ![prev] = msg_next[t]]
    BY <1>2 DEF Unlink
  <2>2. msg_head' = msg_head
    BY <1>2 DEF Unlink
  <2> QED BY <2>1, <2>2 DEF MsgTypeOK
<1> QED BY <1>1, <1>2

\* Serving a queued sender (msg_receive) keeps the types: the pointer it
\* copies from is not null.
LEMMA TakeQueuedType ==
  ASSUME MsgTypeOK, LinkedHasStruct, NEW q \in Proc, NEW from,
         NEW s \in Struct, TakeQueued(q, from, s), UNCHANGED intVars
  PROVE  /\ MsgTypeOK' /\ LinkedHasStruct'
         /\ \E t \in Queue(q) : msg_block' = [msg_block EXCEPT ![t] = 0]
<1>1. PICK t \in Queue(q) :
        /\ mem' = [mem EXCEPT ![q][s] = mem[t][msg[t]]]
        /\ msg_block' = [msg_block EXCEPT ![t] = 0]
        /\ Unlink(t, q)
  BY DEF TakeQueued
<1>2. t \in Proc /\ msg[t] \in Struct
  BY QueueHasStruct
<1>3. /\ msg_head' \in [Proc -> Proc \cup {NULL}]
      /\ msg_next' \in [Proc -> Proc \cup {NULL}]
      /\ \A r \in Proc : msg_head'[r] \in {msg_head[r], msg_next[t]}
      /\ \A r \in Proc : msg_next'[r] \in {msg_next[r], msg_next[t]}
  BY <1>1, <1>2, UnlinkType
<1>4. mem[t][msg[t]] \in Content
  BY <1>2 DEF MsgTypeOK
<1>5. mem' \in [Proc -> [Struct -> Content]]
  <2>1. mem \in [Proc -> [Struct -> Content]] /\ mem' = [mem EXCEPT ![q][s] = mem[t][msg[t]]]
    BY <1>1 DEF MsgTypeOK
  <2> QED BY <1>4, <2>1
<1>6. LinkedHasStruct'
  <2>1. msg' = msg
    BY DEF TakeQueued
  <2> QED BY <1>2, <1>3, <2>1 DEF LinkedHasStruct, HasStruct
<1>7. msg_block' \in [Proc -> 0 .. 1]
  <2>1. msg_block \in [Proc -> 0 .. 1] /\ msg_block' = [msg_block EXCEPT ![t] = 0]
    BY <1>1 DEF MsgTypeOK
  <2> QED BY <1>2, <2>1
<1> QED
  BY <1>1, <1>3, <1>5, <1>6, <1>7 DEF TakeQueued, MsgTypeOK, intVars

\* Blocking a receiver (msg_receive, nobody matches) keeps the types.
LEMMA AwaitSenderType ==
  ASSUME MsgTypeOK, LinkedHasStruct, NEW q \in Proc, NEW from \in Proc \cup {ANY},
         NEW s \in Struct, AwaitSender(q, from, s), UNCHANGED intVars
  PROVE  MsgTypeOK' /\ LinkedHasStruct' /\ msg_block' = [msg_block EXCEPT ![q] = 1]
<1>1. LinkedHasStruct'
  BY NullAssumption DEF AwaitSender, LinkedHasStruct, HasStruct, queueVars, MsgTypeOK
<1> QED
  BY <1>1 DEF AwaitSender, MsgTypeOK, intVars, queueVars

--------------------------------------------------------------------------------
(* Walks along links.                                                      *)

Links2 == [Proc -> Proc \cup {NULL}]

\* A walk meets the process it starts at.
LEMMA ReachStart ==
  ASSUME NEW nx, NEW h \in Proc
  PROVE  h \in Reach(nx, h)
  BY NullApart DEF Reach

\* A walk that starts at the null pointer meets nobody.
LEMMA ReachNull ==
  ASSUME NEW nx PROVE Reach(nx, NULL) = {}
<1> DEFINE S == {}
<1>1. S \in SUBSET Proc /\ NULL \in S \cup {NULL} /\ \A s \in S : nx[s] \in S \cup {NULL}
  OBVIOUS
<1> HIDE DEF S
<1>2. Reach(nx, NULL) \subseteq S
  BY <1>1, ReachWithin
<1> QED BY <1>2 DEF S

\* A walk meets only PCBs of the table.
LEMMA ReachInProc == ASSUME NEW nx, NEW h PROVE Reach(nx, h) \subseteq Proc
  BY DEF Reach

\* A walk goes on to the process a link points to.
LEMMA ReachNext ==
  ASSUME NEW nx \in Links2, NEW h, NEW t \in Reach(nx, h)
  PROVE  nx[t] \in Reach(nx, h) \cup {NULL}
<1>1. t \in Proc
  BY ReachInProc
<1>2. SUFFICES ASSUME nx[t] # NULL PROVE nx[t] \in Reach(nx, h)
  OBVIOUS
<1>3. nx[t] \in Proc
  BY <1>1, <1>2 DEF Links2
<1> QED
  BY <1>1, <1>2, <1>3 DEF Reach

\* What a walk meets, it meets at its start or after its first step.
LEMMA ReachUnfold ==
  ASSUME NEW nx \in Links2, NEW h \in Proc
  PROVE  Reach(nx, h) \subseteq {h} \cup Reach(nx, nx[h])
<1> DEFINE S == {h} \cup Reach(nx, nx[h])
<1>1. S \in SUBSET Proc
  BY ReachInProc
<1>2. nx[h] \in S \cup {NULL}
  BY ReachStart DEF Links2
<1>3. \A s \in S : nx[s] \in S \cup {NULL}
  BY <1>2, ReachNext
<1>4. h \in S
  OBVIOUS
<1> HIDE DEF S
<1>5. Reach(nx, h) \subseteq S
  BY <1>1, <1>3, <1>4, ReachWithin
<1> QED
  BY <1>5 DEF S

\* Two walks from h agree if the links agree on what the first one meets.
LEMMA ReachAgree ==
  ASSUME NEW nx \in Links2, NEW ny \in Links2, NEW h \in Proc \cup {NULL},
         \A t \in Reach(nx, h) : nx[t] = ny[t]
  PROVE  Reach(ny, h) = Reach(nx, h)
<1>1. CASE h = NULL
  BY <1>1, ReachNull
<1>2. CASE h \in Proc
  <2>1. Reach(ny, h) \subseteq Reach(nx, h)
    <3>1. h \in Reach(nx, h) /\ \A s \in Reach(nx, h) : ny[s] \in Reach(nx, h) \cup {NULL}
      BY <1>2, ReachStart, ReachNext
    <3> QED BY <3>1, ReachWithin, ReachInProc
  <2>2. Reach(nx, h) \subseteq Reach(ny, h) \cap Reach(nx, h)
    <3> DEFINE S == Reach(ny, h) \cap Reach(nx, h)
    <3>1. S \in SUBSET Proc /\ h \in S
      BY <1>2, ReachStart, ReachInProc
    <3>2. \A s \in S : nx[s] \in S \cup {NULL}
      <4> TAKE s \in S
      <4>1. nx[s] \in Reach(nx, h) \cup {NULL} /\ ny[s] \in Reach(ny, h) \cup {NULL}
        BY ReachNext
      <4> QED BY <4>1
    <3> QED BY <3>1, <3>2, ReachWithin
  <2> QED BY <2>1, <2>2
<1> QED BY <1>1, <1>2

\* Without a cycle, no walk that starts behind s comes back to s.
LEMMA NoReturn ==
  ASSUME NEW nx \in Links2, Acyclic(nx), NEW s \in Proc
  PROVE  s \notin Reach(nx, nx[s])
<1> SUFFICES ASSUME s \in Reach(nx, nx[s]) PROVE FALSE
  OBVIOUS
<1> DEFINE S == {x \in Proc : s \in Reach(nx, x)}
<1>1. s \in S
  BY ReachStart
<1>2. ASSUME NEW x \in S PROVE nx[x] \in S
  <2>1. x \in Proc /\ s \in {x} \cup Reach(nx, nx[x])
    BY ReachUnfold
  <2>2. s \in Reach(nx, nx[x])
    BY <2>1
  <2>3. nx[x] # NULL
    BY <2>2, ReachNull
  <2> QED BY <2>1, <2>2, <2>3 DEF Links2
<1> QED
  BY <1>1, <1>2 DEF Acyclic

\* Of two processes that a walk meets, one lies behind the other.
LEMMA ReachLinear ==
  ASSUME NEW nx \in Links2, NEW h \in Proc, NEW s \in Reach(nx, h), NEW u \in Reach(nx, h)
  PROVE  u \in Reach(nx, s) \/ s \in Reach(nx, u)
<1> DEFINE S == {x \in Proc : u \in Reach(nx, x) \/ x \in Reach(nx, u)}
<1>1. u \in Proc
  BY ReachInProc
<1>2. \A x \in S : nx[x] \in S \cup {NULL}
  <2> SUFFICES ASSUME NEW x \in S, nx[x] # NULL PROVE nx[x] \in S
    OBVIOUS
  <2>1. nx[x] \in Proc
    BY DEF Links2
  <2>2. CASE x \in Reach(nx, u)
    BY <2>1, <2>2, ReachNext
  <2>3. CASE u \in Reach(nx, x)
    <3>1. u = x \/ u \in Reach(nx, nx[x])
      BY <2>3, ReachUnfold
    <3>2. CASE u = x
      BY <1>1, <2>1, <3>2, ReachNext, ReachStart
    <3> QED BY <2>1, <3>1, <3>2
  <2> QED BY <2>2, <2>3
<1>3. Reach(nx, h) \subseteq S
  BY <1>2, ReachWithin
<1> QED BY <1>3

--------------------------------------------------------------------------------
(* insert_msg_queue                                                        *)

LinksOK == msg_head \in Links2 /\ msg_next \in Links2 /\ Acyclic(msg_next)

\* What the proofs use of a sender queue: it holds its head, is closed under
\* the links and is empty if the head is null.
LEMMA QueueFacts ==
  ASSUME LinksOK, NEW q \in Proc
  PROVE  /\ Queue(q) \subseteq Proc
         /\ msg_head[q] \in Queue(q) \cup {NULL}
         /\ \A t \in Queue(q) : msg_next[t] \in Queue(q) \cup {NULL}
         /\ msg_head[q] = NULL => Queue(q) = {}
  BY ReachInProc, ReachStart, ReachNext, ReachNull DEF Queue, LinksOK, Links2

\* The loop of insert_msg_queue ends at a last element.
LEMMA LastExists ==
  ASSUME LinksOK, NEW q \in Proc, msg_head[q] # NULL
  PROVE  \E last \in Queue(q) : msg_next[last] = NULL
<1>1. Queue(q) \in SUBSET Proc /\ Queue(q) # {}
  BY QueueFacts
<1>2. PICK p \in Queue(q) : msg_next[p] \notin Queue(q)
  BY <1>1 DEF LinksOK, Acyclic
<1> QED
  BY <1>2, QueueFacts

\* Appending a process never closes a cycle, even if it is linked already.
LEMMA InsertAcyclic ==
  ASSUME LinksOK, NEW p \in Proc, NEW q \in Proc, InsertMsgQueue(p, q)
  PROVE  Acyclic(msg_next')
<1> SUFFICES ASSUME NEW S \in SUBSET Proc, S # {}
             PROVE  \E x \in S : msg_next'[x] \notin S
  BY DEF Acyclic
<1>1. PICK w \in S : msg_next[w] \notin S
  BY DEF LinksOK, Acyclic
<1>2. CASE msg_head[q] = NULL
  <2>1. msg_next' = [msg_next EXCEPT ![p] = NULL]
    BY <1>2 DEF InsertMsgQueue
  <2> QED BY <1>1, <2>1, NullApart DEF LinksOK, Links2
<1>3. CASE msg_head[q] # NULL
  <2>1. PICK last \in Queue(q) : msg_next' = [msg_next EXCEPT ![last] = p, ![p] = NULL]
    BY <1>3 DEF InsertMsgQueue
  <2>2. CASE p \in S
    BY <2>1, <2>2, NullApart DEF LinksOK, Links2
  <2>3. CASE p \notin S
    BY <1>1, <2>1, <2>3 DEF LinksOK, Links2
  <2> QED BY <2>2, <2>3
<1> QED BY <1>2, <1>3

\* A process that is in no queue joins the queue of q, and only that one,
\* provided the queues share no member.
LEMMA InsertQueue ==
  ASSUME LinksOK, NEW p \in Proc, NEW q \in Proc, InsertMsgQueue(p, q),
         \A r \in Proc : p \notin Queue(r),
         \A r \in Proc \ {q} : Queue(q) \cap Queue(r) = {}
  PROVE  /\ Queue(q)' = Queue(q) \cup {p}
         /\ \A r \in Proc \ {q} : Queue(r)' = Queue(r)
<1> USE DEF LinksOK
<1>1. CASE msg_head[q] = NULL
  <2>1. /\ msg_head' = [msg_head EXCEPT ![q] = p]
        /\ msg_next' = [msg_next EXCEPT ![p] = NULL]
    BY <1>1 DEF InsertMsgQueue
  <2>2. msg_head' \in Links2 /\ msg_next' \in Links2
        /\ msg_head'[q] = p /\ msg_next'[p] = NULL
    BY <2>1 DEF Links2
  <2>3. Queue(q) = {}
    BY <1>1, QueueFacts
  <2>4. Reach(msg_next', p) \subseteq {p}
    <3>1. {p} \in SUBSET Proc /\ p \in {p} \cup {NULL} /\ \A s \in {p} : msg_next'[s] \in {p} \cup {NULL}
      BY <2>2
    <3> QED BY <3>1, ReachWithin
  <2>5. Queue(q)' = {p}
    BY <2>2, <2>4, ReachStart DEF Queue
  <2>6. ASSUME NEW r \in Proc \ {q} PROVE Queue(r)' = Queue(r)
    <3>1. msg_head'[r] = msg_head[r] /\ msg_head[r] \in Proc \cup {NULL}
      BY <2>1 DEF Links2
    <3>2. \A t \in Reach(msg_next, msg_head[r]) : msg_next[t] = msg_next'[t]
      BY <2>1, ReachInProc DEF Queue, Links2
    <3> QED BY <2>2, <3>1, <3>2, ReachAgree DEF Queue
  <2> QED BY <2>3, <2>5, <2>6
<1>2. CASE msg_head[q] # NULL
  <2>1. PICK last \in Queue(q) :
          /\ msg_next[last] = NULL
          /\ msg_next' = [msg_next EXCEPT ![last] = p, ![p] = NULL]
          /\ msg_head' = msg_head
    BY <1>2 DEF InsertMsgQueue
  <2>2. last \in Proc /\ last # p
    BY <2>1, QueueFacts
  <2>3. /\ msg_next' \in Links2
        /\ msg_next'[last] = p /\ msg_next'[p] = NULL
        /\ \A t \in Proc \ {last, p} : msg_next'[t] = msg_next[t]
    BY <2>1, <2>2 DEF Links2
  <2>4. msg_head[q] \in Queue(q) /\ msg_head[q] \in Proc
    BY <1>2, QueueFacts
  <2>5. Reach(msg_next', msg_head[q]) \subseteq Queue(q) \cup {p}
    <3> DEFINE S == Queue(q) \cup {p}
    <3>1. S \in SUBSET Proc /\ msg_head[q] \in S \cup {NULL}
      BY <2>4, QueueFacts
    <3>2. \A s \in S : msg_next'[s] \in S \cup {NULL}
      <4> TAKE s \in S
      <4>1. s \in Proc
        BY <3>1
      <4>2. CASE s = last \/ s = p
        BY <2>3, <4>2
      <4>3. CASE s # last /\ s # p
        BY <2>3, <4>1, <4>3, QueueFacts
      <4> QED BY <4>2, <4>3
    <3> HIDE DEF S
    <3>3. Reach(msg_next', msg_head[q]) \subseteq S
      BY <3>1, <3>2, ReachWithin
    <3> QED BY <3>3 DEF S
  <2>6. Queue(q) \subseteq Reach(msg_next', msg_head[q])
    <3> DEFINE S == Reach(msg_next', msg_head[q]) \cap Queue(q)
    <3>1. S \in SUBSET Proc /\ msg_head[q] \in S \cup {NULL}
      BY <2>4, ReachStart, ReachInProc
    <3>2. \A s \in S : msg_next[s] \in S \cup {NULL}
      <4> TAKE s \in S
      <4>1. s \in Proc /\ s # p
        BY <3>1
      <4>2. CASE s = last
        BY <2>1, <4>2
      <4>3. CASE s # last
        <5>1. msg_next'[s] = msg_next[s]
          BY <2>3, <4>1, <4>3
        <5>2. msg_next'[s] \in Reach(msg_next', msg_head[q]) \cup {NULL}
          BY <2>3, ReachNext
        <5>3. msg_next[s] \in Queue(q) \cup {NULL}
          BY QueueFacts
        <5> QED BY <5>1, <5>2, <5>3
      <4> QED BY <4>2, <4>3
    <3> HIDE DEF S
    <3>3. Reach(msg_next, msg_head[q]) \subseteq S
      BY <3>1, <3>2, ReachWithin
    <3> QED BY <3>3 DEF S, Queue
  <2>7. p \in Reach(msg_next', msg_head[q])
    <3>1. last \in Reach(msg_next', msg_head[q])
      BY <2>1, <2>6
    <3>2. p \in Reach(msg_next', msg_head[q]) \cup {NULL}
      BY <2>3, <3>1, ReachNext
    <3> QED BY <3>2, NullApart
  <2>8. Queue(q)' = Queue(q) \cup {p}
    <3>1. Queue(q)' = Reach(msg_next', msg_head[q])
      BY <2>1 DEF Queue
    <3> QED BY <2>5, <2>6, <2>7, <3>1
  <2>9. ASSUME NEW r \in Proc \ {q} PROVE Queue(r)' = Queue(r)
    <3>1. msg_head[r] \in Proc \cup {NULL}
      BY DEF Links2
    <3>2. last \notin Queue(r) /\ p \notin Queue(r)
      BY <2>1
    <3>3. \A t \in Queue(r) : msg_next[t] = msg_next'[t]
      <4>1. Queue(r) \subseteq Proc
        BY QueueFacts
      <4> QED BY <2>3, <3>2, <4>1
    <3>4. msg_next \in Links2 /\ msg_next' \in Links2
      BY <2>3
    <3>5. \A t \in Reach(msg_next, msg_head[r]) : msg_next[t] = msg_next'[t]
      BY <3>3 DEF Queue
    <3>6. Reach(msg_next', msg_head[r]) = Reach(msg_next, msg_head[r])
      BY <3>1, <3>4, <3>5, ReachAgree
    <3>7. Queue(r)' = Reach(msg_next', msg_head[r])
      BY <2>1 DEF Queue
    <3> QED BY <3>6, <3>7 DEF Queue
  <2> QED BY <2>8, <2>9
<1> QED BY <1>1, <1>2

--------------------------------------------------------------------------------
(* The list surgery of msg_receive                                         *)

\* Taking a process out never closes a cycle.
LEMMA UnlinkAcyclic ==
  ASSUME LinksOK, NEW t \in Proc, NEW q \in Proc, Unlink(t, q)
  PROVE  Acyclic(msg_next')
<1>1. CASE t = msg_head[q]
  BY <1>1 DEF Unlink, LinksOK
<1>2. CASE t # msg_head[q]
  <2>1. PICK prev \in Queue(q) :
          msg_next[prev] = t /\ msg_next' = [msg_next EXCEPT ![prev] = msg_next[t]]
    BY <1>2 DEF Unlink
  <2>2. prev \in Proc
    BY <2>1, QueueFacts
  <2>3. SUFFICES ASSUME NEW S \in SUBSET Proc, S # {}, \A x \in S : msg_next'[x] \in S
                 PROVE  FALSE
    BY DEF Acyclic
  <2>4. CASE prev \notin S
    <3>1. \A x \in S : msg_next[x] \in S
      BY <2>1, <2>3, <2>4 DEF LinksOK, Links2
    <3> QED BY <2>3, <3>1 DEF LinksOK, Acyclic
  <2>5. CASE prev \in S
    <3>1. msg_next[t] \in S
      BY <2>1, <2>2, <2>3, <2>5 DEF LinksOK, Links2
    <3>2. \A x \in S \cup {t} : msg_next[x] \in S \cup {t}
      BY <2>1, <2>3, <3>1 DEF LinksOK, Links2
    <3>3. S \cup {t} \in SUBSET Proc /\ S \cup {t} # {}
      OBVIOUS
    <3> QED BY <3>2, <3>3 DEF LinksOK, Acyclic
  <2> QED BY <2>4, <2>5
<1> QED BY <1>1, <1>2

\* A queued process leaves its queue, and nothing else changes.
LEMMA UnlinkQueue ==
  ASSUME LinksOK, NEW q \in Proc, NEW t \in Queue(q), Unlink(t, q),
         \A r \in Proc \ {q} : Queue(q) \cap Queue(r) = {}
  PROVE  /\ Queue(q)' = Queue(q) \ {t}
         /\ \A r \in Proc \ {q} : Queue(r)' = Queue(r)
<1> DEFINE L == Queue(q)
<1>Types. t \in Proc /\ L \in SUBSET Proc /\ msg_next \in Links2 /\ msg_head \in Links2
      /\ Acyclic(msg_next)
  BY QueueFacts DEF LinksOK
<1>Head. msg_head[q] \in Proc /\ msg_head[q] \in L
  BY QueueFacts DEF LinksOK, Links2
<1>Closed. \A s \in L : msg_next[s] \in L \cup {NULL}
  BY QueueFacts
\* Within the queue, t has one predecessor at most.
<1>OnePred. ASSUME NEW s \in L, NEW u \in L, msg_next[s] = t, msg_next[u] = t
      PROVE  s = u
  <2>1. s \in Proc /\ u \in Proc
    BY <1>Types
  <2>2. u \in Reach(msg_next, s) \/ s \in Reach(msg_next, u)
    BY <1>Types, <1>Head, ReachLinear DEF Queue
  <2>3. u \notin Reach(msg_next, t) /\ s \notin Reach(msg_next, t)
    BY <1>Types, <1>OnePred, <2>1, NoReturn
  <2>4. Reach(msg_next, s) \subseteq {s} \cup Reach(msg_next, t)
        /\ Reach(msg_next, u) \subseteq {u} \cup Reach(msg_next, t)
    BY <1>Types, <1>OnePred, <2>1, ReachUnfold
  <2> QED BY <2>2, <2>3, <2>4
<1>1. CASE t = msg_head[q]
  <2>1. msg_head' = [msg_head EXCEPT ![q] = msg_next[t]] /\ msg_next' = msg_next
    BY <1>1 DEF Unlink
  <2>2. Queue(q)' = Reach(msg_next, msg_next[t])
    BY <1>Types, <2>1 DEF Queue, Links2
  <2>3. t \notin Reach(msg_next, msg_next[t])
    BY <1>Types, NoReturn
  <2>4. L \subseteq {t} \cup Reach(msg_next, msg_next[t])
    BY <1>Types, <1>1, ReachUnfold DEF Queue
  <2>5. Reach(msg_next, msg_next[t]) \subseteq L
    <3>1. \A s \in L : msg_next[s] \in L \cup {NULL}
      BY <1>Closed
    <3>2. msg_next[t] \in L \cup {NULL}
      BY <1>Closed
    <3> QED BY <1>Types, <3>1, <3>2, ReachWithin
  <2>6. \A r \in Proc \ {q} : Queue(r)' = Queue(r)
    BY <1>Types, <2>1 DEF Queue, Links2
  <2> QED BY <2>2, <2>3, <2>4, <2>5, <2>6
<1>2. CASE t # msg_head[q]
  <2>1. PICK prev \in L :
          /\ msg_next[prev] = t
          /\ msg_next' = [msg_next EXCEPT ![prev] = msg_next[t]]
          /\ msg_head' = msg_head
    BY <1>2 DEF Unlink
  <2>2. prev \in Proc
    BY <1>Types
  <2>3. /\ msg_next' \in Links2
        /\ msg_next'[prev] = msg_next[t]
        /\ \A s \in Proc \ {prev} : msg_next'[s] = msg_next[s]
    BY <1>Types, <2>1, <2>2 DEF Links2
  <2>4. msg_next[t] # t /\ prev # t
    <3>1. t \notin Reach(msg_next, msg_next[t])
      BY <1>Types, NoReturn
    <3> QED BY <1>Types, <2>1, <3>1, ReachStart
  <2> DEFINE M == Reach(msg_next', msg_head[q])
  <2>5. M \subseteq L \ {t}
    <3> DEFINE S == L \ {t}
    <3>1. S \in SUBSET Proc /\ msg_head[q] \in S \cup {NULL}
      BY <1>Types, <1>2, <1>Head
    <3>2. \A s \in S : msg_next'[s] \in S \cup {NULL}
      <4> TAKE s \in S
      <4>1. CASE s = prev
        BY <1>Closed, <2>3, <2>4, <4>1
      <4>2. CASE s # prev
        BY <1>Types, <1>Closed, <1>OnePred, <2>1, <2>3, <4>2
      <4> QED BY <4>1, <4>2
    <3> HIDE DEF S
    <3>3. M \subseteq S
      BY <3>1, <3>2, ReachWithin
    <3> QED BY <3>3 DEF S
  <2>6. msg_head[q] \in M
    BY <1>Head, ReachStart
  <2>7. prev \in M
    <3> DEFINE S == (L \cap M) \cup (L \cap Reach(msg_next, t))
    <3>1. S \in SUBSET Proc /\ msg_head[q] \in S \cup {NULL}
      BY <1>Types, <1>Head, <2>6
    <3>2. \A s \in S : msg_next[s] \in S \cup {NULL}
      <4> TAKE s \in S
      <4>1. CASE s \in Reach(msg_next, t)
        <5>1. msg_next[s] \in Reach(msg_next, t) \cup {NULL}
          BY <1>Types, <4>1, ReachNext
        <5> QED BY <1>Closed, <5>1
      <4>2. CASE s = prev
        BY <1>Types, <2>1, <4>2, ReachStart
      <4>3. CASE s \in M /\ s # prev
        <5>1. msg_next'[s] \in M \cup {NULL}
          BY <2>3, <4>3, ReachNext
        <5> QED BY <1>Types, <1>Closed, <2>3, <4>3, <5>1
      <4> QED BY <4>1, <4>2, <4>3
    <3> HIDE DEF S, M
    <3>3. Reach(msg_next, msg_head[q]) \subseteq S
      BY <3>1, <3>2, ReachWithin
    <3>4. prev \in S
      BY <3>3 DEF Queue
    <3>5. prev \notin Reach(msg_next, t)
      BY <1>Types, <2>1, <2>2, NoReturn
    <3> QED BY <3>4, <3>5 DEF S
  <2>8. L \subseteq M \cup {t}
    <3> DEFINE S == (L \cap M) \cup {t}
    <3>1. S \in SUBSET Proc /\ msg_head[q] \in S \cup {NULL}
      BY <1>Types, <1>Head, <2>6
    <3>2. \A s \in S : msg_next[s] \in S \cup {NULL}
      <4> TAKE s \in S
      <4>1. CASE s = t
        <5>1. msg_next'[prev] \in M \cup {NULL}
          BY <2>3, <2>7, ReachNext
        <5> QED BY <1>Closed, <2>3, <4>1, <5>1
      <4>2. CASE s = prev
        BY <2>1, <4>2
      <4>3. CASE s \in M /\ s # prev /\ s # t
        <5>1. msg_next'[s] \in M \cup {NULL}
          BY <2>3, <4>3, ReachNext
        <5> QED BY <1>Types, <1>Closed, <2>3, <4>3, <5>1
      <4> QED BY <4>1, <4>2, <4>3
    <3> HIDE DEF S, M
    <3>3. Reach(msg_next, msg_head[q]) \subseteq S
      BY <3>1, <3>2, ReachWithin
    <3> QED BY <3>3 DEF S, Queue
  <2>9. Queue(q)' = Queue(q) \ {t}
    <3>1. Queue(q)' = M
      BY <2>1 DEF Queue
    <3> QED BY <2>5, <2>8, <3>1
  <2>10. ASSUME NEW r \in Proc \ {q} PROVE Queue(r)' = Queue(r)
    <3>1. msg_head[r] \in Proc \cup {NULL}
      BY <1>Types DEF Links2
    <3>2. prev \notin Queue(r)
      BY <2>1
    <3>3. \A s \in Queue(r) : msg_next[s] = msg_next'[s]
      BY <2>3, <3>2, QueueFacts
    <3> HIDE DEF M, L
    <3>4. msg_next \in Links2 /\ msg_next' \in Links2
      BY <1>Types, <2>3
    <3>5. \A s \in Reach(msg_next, msg_head[r]) : msg_next[s] = msg_next'[s]
      BY <3>3 DEF Queue
    <3>6. Reach(msg_next', msg_head[r]) = Reach(msg_next, msg_head[r])
      BY <3>1, <3>4, <3>5, ReachAgree
    <3>7. Queue(r)' = Reach(msg_next', msg_head[r])
      BY <2>1 DEF Queue
    <3> QED BY <3>6, <3>7 DEF Queue
  <2> QED BY <2>9, <2>10
<1> QED BY <1>1, <1>2

================================================================================
