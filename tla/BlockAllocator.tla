--------------------------- MODULE BlockAllocator ---------------------------
(***************************************************************************)
(* The allocator of data blocks and its callers.  One handler runs at a    *)
(* time (fuse -s), nothing crashes and the device answers every request.   *)
(*                                                                         *)
(* The callers keep the discipline that inode.cpp and linkFuseAndFS.cpp    *)
(* are written for: they write to and free only blocks they were given.    *)
(***************************************************************************)
EXTENDS DataBlockOps, Sequences, FiniteSets

CONSTANT Payload   \* contents a caller writes, or the device held before setUpDisk

ASSUME PayloadAssumption == Payload \subseteq [Word -> Int]

VARIABLES
  fs,     \* superblock and data region
  held,   \* the blocks the callers were given and did not free
  ret,    \* the result of the last allocate_data_block
  chain   \* history: the free list from its last block to its head

vars == <<fs, held, ret, chain>>

Init ==
  /\ \E contents \in [DataRegion -> Payload] :
       fs = [maxAlloc |-> FirstDataBlock, freelist_head |-> 0, blk |-> contents]
  /\ held = {}
  /\ ret = -1
  /\ chain = << >>

Allocate ==
  LET result == allocate_data_block(fs) IN
  /\ fs' = result.fs
  /\ ret' = result.ret
  /\ held' = IF result.ret = -1 THEN held ELSE held \union {result.ret}
  /\ chain' = IF fs.maxAlloc = NUM_OF_DATA_BLOCKS /\ chain # << >>
              THEN SubSeq(chain, 1, Len(chain) - 1) ELSE chain

Write(b, buffer) ==
  /\ b \in held
  /\ fs' = write_data_block(fs, b, buffer)
  /\ UNCHANGED <<held, ret, chain>>

Free(b) ==
  /\ b \in held
  /\ fs' = free_data_block(fs, b).fs
  /\ held' = held \ {b}
  /\ chain' = IF b = fs.maxAlloc - 1 THEN chain ELSE Append(chain, b)
  /\ UNCHANGED ret

Next ==
  \/ Allocate
  \/ \E b \in Pool : Free(b)
  \/ \E b \in Pool, buffer \in Payload : Write(b, buffer)

Spec == Init /\ [][Next]_vars

-----------------------------------------------------------------------------
(* The test helper getFreeListLength walks the list on the disk.  It counts *)
(* from 1, so that it cannot tell an empty list from one of one block.  The *)
(* walk of a list with a cycle never ends: its length is then BLOCK_COUNT.  *)
getFreeListLength ==
  LET Link(b) == IF b \in DataRegion THEN fs.blk[b][0] ELSE 0
      current[n \in 1 .. BLOCK_COUNT] == IF n = 1 THEN fs.freelist_head ELSE Link(current[n - 1])
  IN  CHOOSE n \in 1 .. BLOCK_COUNT :
        /\ n = BLOCK_COUNT \/ current[n + 1] = 0
        /\ \A m \in 2 .. n : current[m] # 0

-----------------------------------------------------------------------------
(* Properties *)

TypeOK ==
  /\ fs \in FileSystem
  /\ fs.maxAlloc \in FirstDataBlock .. NUM_OF_DATA_BLOCKS
  /\ fs.freelist_head \in {0} \union Pool
  /\ held \subseteq Pool
  /\ ret \in {-1} \union Pool
  /\ chain \in Seq(Pool)

\* The list on the disk is the chain: the head is its last element, every link
\* leads to the one below, the bottom holds 0, and no block is on it twice.
\* What is behind the link is zero.
ListOnDisk ==
  /\ fs.freelist_head = IF chain = << >> THEN 0 ELSE chain[Len(chain)]
  /\ \A k \in 1 .. Len(chain) :
       fs.blk[chain[k]] = FreeBlock(IF k = 1 THEN 0 ELSE chain[k - 1])
  /\ \A j, k \in 1 .. Len(chain) : chain[j] = chain[k] => j = k

OnList == {chain[k] : k \in 1 .. Len(chain)}

\* No block is lost and none is in two places: the blocks below maxAlloc are
\* exactly those in use and those on the free list, and no block is both.
Partition ==
  /\ held \union OnList = FirstDataBlock .. (fs.maxAlloc - 1)
  /\ held \intersect OnList = {}

FreeListExact == ListOnDisk /\ Partition

\* getFreeListLength, which follows the links on the disk until it meets a 0,
\* ends, and finds every block below maxAlloc that is not in use; this is what
\* the tests of the removal of data blocks compute with.
WalkAgrees ==
  fs.freelist_head # 0 =>
    getFreeListLength = fs.maxAlloc - FirstDataBlock - Cardinality(held)

\* A block comes out of the allocator with nothing in it but, in word 0, an old
\* link: the walk over an indirect block that just got its first entry
\* (remove_datablocks_nested) stops at word 1.
AllocatedClean ==
  [][\A b \in held' \ held : \A w \in Word \ {0} : fs'.blk[b][w] = 0]_vars

\* The data blocks are a pool: FreePool with the blocks the allocator reaches.
PoolSpec == INSTANCE FreePool WITH Block <- Pool
ImplementsPool == PoolSpec!Spec
=============================================================================
