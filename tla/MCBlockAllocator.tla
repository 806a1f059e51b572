-------------------------- MODULE MCBlockAllocator --------------------------
(* BlockAllocator on a device of ten blocks, of which the allocator reaches four. *)
EXTENDS BlockAllocator

\* A zeroed block, and one whose first word looks like a block number.
MCPayload == {[w \in Word |-> 0], [w \in Word |-> 4 + w]}
=============================================================================
