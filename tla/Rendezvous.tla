------------------------------- MODULE Rendezvous -------------------------------
(***************************************************************************)
(* What message passing promises, with no pointers, PCBs or scheduler: a   *)
(* sender and a receiver meet.  Whoever comes first waits; senders wait in *)
(* line in the order they came; a receiver that accepts several of them    *)
(* gets the one that came first; the message arrives as it was sent.       *)
(***************************************************************************)
EXTENDS Integers, Sequences

CONSTANTS
  Party, AnyParty, Body, None,
  Asks       \* [Party -> SUBSET (Party \cup {AnyParty})]: whom each asks for

VARIABLES
  line,   \* [Party -> Seq([from : Party, body : Body])]  senders waiting
  want,   \* [Party -> Party \cup {AnyParty, None}]  whom a receiver waits for
  box     \* [Party -> Body \cup {None}]  what a receive call returns

rvVars == <<line, want, box>>

Waiting(p) == \E q \in Party : \E i \in DOMAIN line[q] : line[q][i].from = p

Idle(p) == ~Waiting(p) /\ want[p] = None /\ box[p] = None

RvInit ==
  /\ line = [p \in Party |-> << >>]
  /\ want = [p \in Party |-> None]
  /\ box  = [p \in Party |-> None]

\* p offers body b to q.
Offer(p, q, b) ==
  /\ Idle(p)
  /\ \/ /\ want[q] \in {p, AnyParty}
        /\ want' = [want EXCEPT ![q] = None]
        /\ box'  = [box EXCEPT ![q] = b]
        /\ UNCHANGED line
     \/ /\ want[q] \notin {p, AnyParty}
        /\ line' = [line EXCEPT ![q] = Append(@, [from |-> p, body |-> b])]
        /\ UNCHANGED <<want, box>>

Fits(q, w, i) == w \in {AnyParty, line[q][i].from}

\* q asks for a message from w (a party or AnyParty).
Ask(q, w) ==
  /\ w \in Asks[q]
  /\ Idle(q)
  /\ \/ /\ \A i \in DOMAIN line[q] : ~Fits(q, w, i)
        /\ want' = [want EXCEPT ![q] = w]
        /\ UNCHANGED <<line, box>>
     \/ \E i \in DOMAIN line[q] :
          /\ Fits(q, w, i)
          /\ \A j \in 1 .. i - 1 : ~Fits(q, w, j)
          /\ box' = [box EXCEPT ![q] = line[q][i].body]
          /\ line' = [line EXCEPT ![q] = SubSeq(@, 1, i - 1) \o SubSeq(@, i + 1, Len(@))]
          /\ UNCHANGED want

\* q uses what its call returned.
Consume(q) ==
  /\ box[q] # None
  /\ box' = [box EXCEPT ![q] = None]
  /\ UNCHANGED <<line, want>>

RvNext ==
  \/ \E p, q \in Party, b \in Body : Offer(p, q, b)
  \/ \E q \in Party, w \in Party \cup {AnyParty} : Ask(q, w)
  \/ \E q \in Party : Consume(q)

RvSpec == RvInit /\ [][RvNext]_rvVars
================================================================================
