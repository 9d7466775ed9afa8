-------------------------------- MODULE MCTasks --------------------------------
(* Instances of Tasks for TLC. *)
EXTENDS Tasks, TLC

McStruct  == {"m"}
McContent == {NULL}

\* Six tasks for a table of three slots; one has a level that is not started.
FullName  == 0 :> "TTY" @@ 1 :> "INIT" @@ 2 :> "KERNEL" @@ 3 :> "FS" @@ 4 :> "MM" @@ 5 :> "USER"
FullLevel == 0 :> SYS_TASK @@ 1 :> USER_TASK @@ 2 :> KERNEL_TASK @@ 3 :> SYS_TASK
             @@ 4 :> SYS_TASK @@ 5 :> USER_TASK
FullPids  == 0 .. 2
================================================================================
