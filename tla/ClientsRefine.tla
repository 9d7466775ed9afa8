----------------------------- MODULE ClientsRefine -----------------------------
(***************************************************************************)
(* In a one-way mix the kernel of Msg and Sched implements Rendezvous.     *)
(* The line of a receiver is its sender queue read along the links, each   *)
(* sender with the content of the structure its PCB points to.             *)
(***************************************************************************)
EXTENDS Clients, Sequences

LineOf(q) ==
  LET walk[t \in Proc] ==
        <<[from |-> t, body |-> mem[t][msg[t]]]>>
        \o (IF msg_next[t] = NULL THEN << >> ELSE walk[msg_next[t]])
  IN  IF msg_head[q] = NULL THEN << >> ELSE walk[msg_head[q]]

WantOf(q) == IF msg_block[q] = 1 /\ call[q] = "recv" THEN recv_from[q] ELSE NULL

BoxOf(q)  == IF msg_block[q] = 0 /\ call[q] = "recv" THEN mem[q]["in"] ELSE NULL

R == INSTANCE Rendezvous WITH
       Party <- Proc, AnyParty <- ANY, Body <- Content \ {NULL}, None <- NULL, Asks <- Accept,
       line <- [q \in Proc |-> LineOf(q)],
       want <- [q \in Proc |-> WantOf(q)],
       box  <- [q \in Proc |-> BoxOf(q)]

\* Every step of msg_send, msg_receive, the scheduler and the clock maps to
\* a meeting, a wait or nothing: messages pass by rendezvous in FIFO order.
ImplementsRendezvous == R!RvSpec
================================================================================
