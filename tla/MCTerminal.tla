------------------------------- MODULE MCTerminal -------------------------------
(* Instances of Terminal for TLC. *)
EXTENDS Terminal

\* Every key; one of each kind that matters to the buffer, the line and the switch.
AllKeys  == Code
SomeKeys == {A, ENTER, -2, NoChar, E0}
================================================================================
