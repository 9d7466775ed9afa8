-------------------------------- MODULE Allocator --------------------------------
(***************************************************************************)
(* What a memory allocator promises, with no list and no headers: a block  *)
(* it hands out has the length asked for and shares no address with any    *)
(* block still in use; a block is returned once.                           *)
(***************************************************************************)
EXTENDS Integers

CONSTANTS Address, Size
VARIABLE live      \* the blocks in use, [at, len]

Cells(b) == b.at .. b.at + b.len - 1

Hand(n) ==
  \E b \in [at : Address, len : {n}] :
    /\ Cells(b) \subseteq Address
    /\ \A c \in live : Cells(b) \cap Cells(c) = {}
    /\ live' = live \cup {b}

Return(b) == b \in live /\ live' = live \ {b}

AInit == live = {}
ANext == (\E n \in Size : Hand(n)) \/ (\E b \in live : Return(b))

ASpec == AInit /\ [][ANext]_live
================================================================================
