------------------------------- MODULE MCClients -------------------------------
(* Instances of Clients for TLC. *)
EXTENDS ClientsRefine

McStruct  == {"in", "out"}
McContent == {Message(l[1], l[2], n) : l \in Links, n \in 1 .. MaxMsg} \cup {NULL}

\* Two senders, a receiver of ANY and one that names its sender.
MixLinks  == {0, 1} \X {2, 3}
MixAccept == [p \in Proc |-> IF p = 2 THEN {ANY} ELSE IF p = 3 THEN {0, 1} ELSE {}]
================================================================================
