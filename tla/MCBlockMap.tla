----------------------------- MODULE MCBlockMap -----------------------------
(* Instances of BlockMap for TLC. *)
EXTENDS BlockMap, Truncations

AllGrowths == 1 .. MaxBlocks
=============================================================================
