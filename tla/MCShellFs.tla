------------------------------- MODULE MCShellFs -------------------------------
(* Instances of ShellFs for TLC. *)
EXTENDS ShellFs

CONSTANTS a, b   \* the names

\* A short name and a longer one.
MCNameLen == (a :> 1) @@ (b :> 2)
MCTtys    == Permutations(Tty)
================================================================================
