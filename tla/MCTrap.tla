--------------------------------- MODULE MCTrap --------------------------------
(* Instances of Trap for TLC: those of Tasks, and the way into the kernel. *)
EXTENDS MCTasks, Trap
================================================================================
