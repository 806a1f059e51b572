---------------------------- MODULE DataBlockOps ----------------------------
(***************************************************************************)
(* The data block layer (data_block_operation.cpp): how a data block is    *)
(* taken from the disk and given back.                                     *)
(*                                                                         *)
(* The operators are state transformers.  A file system state fs is the    *)
(* record of the superblock fields that the layer changes and of the       *)
(* contents of the data region:                                            *)
(*   maxAlloc       the first block that was never allocated (or that came *)
(*                  back from there)                                       *)
(*   freelist_head  the first block of the free list, 0 when it is empty   *)
(*   blk            the blocks of the data region, as arrays of words      *)
(* A free block holds, in its word 0, the number of the next free block.   *)
(*                                                                         *)
(* The operators are those of a device that answers every request.  The    *)
(* superblock copy in block 0 is written at the end of each operation and  *)
(* then equals these fields, so it is not kept apart.                      *)
(***************************************************************************)
EXTENDS Integers

CONSTANTS
  BLOCK_COUNT,                \* blocks of the device
  INODE_BLOCK_COUNT,          \* blocks 1 .. INODE_BLOCK_COUNT hold the inodes
  NUM_OF_ADDRESSES_PER_BLOCK  \* words of a block

\* The data block counter of common_config.h.  The allocator compares block
\* NUMBERS with it.
NUM_OF_DATA_BLOCKS == BLOCK_COUNT - INODE_BLOCK_COUNT - 1

ASSUME DiskAssumption ==
  /\ BLOCK_COUNT \in Nat
  /\ INODE_BLOCK_COUNT \in Nat
  /\ NUM_OF_ADDRESSES_PER_BLOCK \in Nat \ {0}
  /\ INODE_BLOCK_COUNT < NUM_OF_DATA_BLOCKS

FirstDataBlock == INODE_BLOCK_COUNT + 1

\* The blocks that write_data_block and read_data_block accept.
DataRegion == FirstDataBlock .. (BLOCK_COUNT - 1)

\* The blocks that the allocator can ever hand out.
Pool == FirstDataBlock .. (NUM_OF_DATA_BLOCKS - 1)

Word == 0 .. (NUM_OF_ADDRESSES_PER_BLOCK - 1)

FileSystem == [maxAlloc : Int, freelist_head : Int, blk : [DataRegion -> [Word -> Int]]]

ZeroBlock == [w \in Word |-> 0]

\* What free_data_block leaves in a block of the free list.
FreeBlock(next) == [w \in Word |-> IF w = 0 THEN next ELSE 0]

-----------------------------------------------------------------------------

NoBlockLeft(fs) == fs.freelist_head = 0 /\ fs.maxAlloc = NUM_OF_DATA_BLOCKS

\* Mutants: the free list is never used; its head stays where it was.
allocate_always_fresh(fs) ==
  IF NoBlockLeft(fs) THEN [fs |-> fs, ret |-> -1]
  ELSE [fs  |-> [fs EXCEPT !.maxAlloc = fs.maxAlloc + 1], ret |-> fs.maxAlloc]

allocate_keeps_head(fs) ==
  IF NoBlockLeft(fs) THEN [fs |-> fs, ret |-> -1]
  ELSE IF fs.maxAlloc = NUM_OF_DATA_BLOCKS THEN [fs |-> fs, ret |-> fs.freelist_head]
  ELSE [fs  |-> [fs EXCEPT !.maxAlloc = fs.maxAlloc + 1], ret |-> fs.maxAlloc]

\* Blocks never used come first, zeroed; the free list is used only when
\* there are none, and a block of it keeps the contents free_data_block gave it.
allocate_data_block(fs) ==
  IF NoBlockLeft(fs)
  THEN [fs |-> fs, ret |-> -1]
  ELSE IF fs.maxAlloc # NUM_OF_DATA_BLOCKS
  THEN [fs  |-> [fs EXCEPT !.maxAlloc = fs.maxAlloc + 1,
                           !.blk = [fs.blk EXCEPT ![fs.maxAlloc] = ZeroBlock]],
        ret |-> fs.maxAlloc]
  ELSE [fs  |-> [fs EXCEPT !.freelist_head = fs.blk[fs.freelist_head][0]],
        ret |-> fs.freelist_head]

write_data_block(fs, index, buffer) ==
  IF index \in DataRegion THEN [fs EXCEPT !.blk = [fs.blk EXCEPT ![index] = buffer]] ELSE fs

\* Mutants: one block too many goes back behind maxAlloc; the head is not set;
\* the head is set before the link is taken from it; the block is not cleared.
free_rewinds_twice(fs, index) ==
  IF index = fs.maxAlloc - 1
  THEN [fs |-> [fs EXCEPT !.maxAlloc = fs.maxAlloc - 2], ok |-> TRUE]
  ELSE [fs |-> write_data_block([fs EXCEPT !.freelist_head = index],
                                index, FreeBlock(fs.freelist_head)), ok |-> TRUE]

free_keeps_head(fs, index) ==
  IF index = fs.maxAlloc - 1
  THEN [fs |-> [fs EXCEPT !.maxAlloc = fs.maxAlloc - 1], ok |-> TRUE]
  ELSE [fs |-> write_data_block(fs, index, FreeBlock(fs.freelist_head)), ok |-> TRUE]

free_links_to_itself(fs, index) ==
  IF index = fs.maxAlloc - 1
  THEN [fs |-> [fs EXCEPT !.maxAlloc = fs.maxAlloc - 1], ok |-> TRUE]
  ELSE [fs |-> write_data_block([fs EXCEPT !.freelist_head = index], index, FreeBlock(index)),
        ok |-> TRUE]

free_uncleared(fs, index) ==
  IF index = fs.maxAlloc - 1
  THEN [fs |-> [fs EXCEPT !.maxAlloc = fs.maxAlloc - 1], ok |-> TRUE]
  ELSE [fs |-> write_data_block([fs EXCEPT !.freelist_head = index], index,
                                [fs.blk[index] EXCEPT ![0] = fs.freelist_head]), ok |-> TRUE]

\* The range test lets BLOCK_COUNT through; the write of the link then fails,
\* after the superblock has taken the number as the new head.
free_data_block(fs, index) ==
  IF index <= INODE_BLOCK_COUNT \/ index > BLOCK_COUNT
  THEN [fs |-> fs, ok |-> FALSE]
  ELSE IF index = fs.maxAlloc - 1
  THEN [fs |-> [fs EXCEPT !.maxAlloc = fs.maxAlloc - 1], ok |-> TRUE]
  ELSE [fs |-> write_data_block([fs EXCEPT !.freelist_head = index],
                                index, FreeBlock(fs.freelist_head)),
        ok |-> index < BLOCK_COUNT]
=============================================================================
