------------------------------ MODULE MCDiskStack ------------------------------
(* Instances of DiskStack for TLC. *)
EXTENDS DiskStack

McStruct  == {"in", "out", "io"}
McContent == [type : Types, pos : Lba]
================================================================================
