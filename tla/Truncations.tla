---------------------------- MODULE Truncations ----------------------------
(* Which truncations remove_datablocks_range_from_inode does completely. *)
EXTENDS InodeBlockOps

\* Every truncation that fs_truncate hands to remove_datablocks_range_from_inode.
AllTruncations == {t \in (1 .. MaxBlocks) \X (0 .. MaxBlocks) : t[2] < t[1]}

\* The truncation leaves or reaches the middle of one block of addresses.
WithinBlock(t) ==
  /\ Route(t[2]).path = Route(t[1] - 1).path
  /\ Route(t[2]).root = Route(t[1] - 1).root
  /\ Route(t[2]).entry > 0

\* More blocks below the triple indirect block than the first double indirect
\* block of it holds.
DeepTriple(t) == t[1] - TripleStart > NUM_OF_DOUBLE_INDIRECT_BLOCK_ADDR

\* The truncations that remove_datablocks_range_from_inode does completely:
\*  - to blocks that the inode addresses itself, or to some of the blocks of
\*    the single indirect block, from any size;
\*  - to exactly the start of the double or of the triple indirect block;
\*  - inside one block of addresses, below the first double indirect block of
\*    the triple one only behind its first block of addresses.
CompleteTruncations ==
  {t \in AllTruncations :
     \/ t[2] < SingleStart
     \/ t[2] > SingleStart /\ t[2] < DoubleStart
     \/ t[2] = DoubleStart /\ (t[1] <= TripleStart \/ DeepTriple(t))
     \/ t[2] > DoubleStart /\ t[2] < TripleStart /\ WithinBlock(t)
     \/ t[2] = TripleStart
     \/ t[2] > TripleStart /\ WithinBlock(t) /\ Route(t[2]).path[2] > 0}
=============================================================================
