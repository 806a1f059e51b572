-------------------------- MODULE MCAllocatorSteps --------------------------
(* AllocatorSteps on a device of seven blocks, of which the allocator reaches three. *)
EXTENDS AllocatorSteps

\* A zero, and a word that looks like the number of a block of the pool.
MCContent == {0, FirstDataBlock + 1}
=============================================================================
