------------------------------ MODULE FileMap ------------------------------
(***************************************************************************)
(* What the block layer of the inodes promises to the file operations: a   *)
(* file is a sequence of blocks of its own.  It grows and shrinks at its   *)
(* end, no block is in two places, and a read returns the blocks in order. *)
(***************************************************************************)
EXTENDS Integers, SequencesExt, FiniteSets

CONSTANTS Inode, Block

VARIABLES
  file,   \* the blocks of each file, in order
  seen    \* the blocks the last read went through

vars == <<file, seen>>

InUse == UNION {Range(file[i]) : i \in Inode}

Init ==
  /\ file = [i \in Inode |-> << >>]
  /\ seen = << >>

Others(i) == \A j \in Inode \ {i} : file'[j] = file[j]

\* Any number of blocks that no file has, none when the disk is full.
Grow(i) ==
  LET before == file[i]
      after  == file'[i]
      added  == Range(after) \ Range(before)
  IN  /\ seen' = << >>
      /\ IsPrefix(before, after)
      /\ Cardinality(added) = Len(after) - Len(before)
      /\ added \subseteq Block \ InUse
      /\ Others(i)

Shrink(i) ==
  /\ seen' = << >>
  /\ IsPrefix(file'[i], file[i])
  /\ Others(i)

\* From some block to the last one.
Read(i) ==
  /\ seen' # << >>
  /\ IsSuffix(seen', file[i])
  /\ UNCHANGED file

Next == \E i \in Inode : Grow(i) \/ Shrink(i) \/ Read(i)

Spec == Init /\ [][Next]_vars
=============================================================================
