--------------------------- MODULE AllocatorSteps ---------------------------
(***************************************************************************)
(* The data block layer one access at a time: the reads and writes of the  *)
(* superblock in memory, and of the device, that allocate_data_block and   *)
(* free_data_block make, in their order.  Several threads may run them,    *)
(* as fuse_main lets them, without a lock.  The program may crash between  *)
(* any two accesses and is then started again (load_FS), and the device    *)
(* may fail to answer.                                                     *)
(*                                                                         *)
(* Of a data block only word 0 is kept: the link of a free block, or what  *)
(* the block holds there when it is in use.                                *)
(***************************************************************************)
EXTENDS Integers, FiniteSets

CONSTANTS
  BLOCK_COUNT, INODE_BLOCK_COUNT,
  Thread,       \* threads that run handlers
  Content,      \* what a caller may write to word 0
  MaxCrashes,   \* bound: crashes
  MaxFaults     \* bound: accesses that the device does not carry out

NUM_OF_DATA_BLOCKS == BLOCK_COUNT - INODE_BLOCK_COUNT - 1

ASSUME StepsAssumption ==
  /\ BLOCK_COUNT \in Nat /\ INODE_BLOCK_COUNT \in Nat
  /\ INODE_BLOCK_COUNT < NUM_OF_DATA_BLOCKS
  /\ Content \subseteq Int
  /\ MaxCrashes \in Nat /\ MaxFaults \in Nat

FirstDataBlock == INODE_BLOCK_COUNT + 1
DataRegion     == FirstDataBlock .. (BLOCK_COUNT - 1)
Pool           == FirstDataBlock .. (NUM_OF_DATA_BLOCKS - 1)

VARIABLES
  fs_superblock,  \* maxAlloc and freelist_head in memory
  disk,           \* their copy in block 0, and word 0 of the data blocks
  op,             \* for each thread: the next access and the locals
  held,           \* for each thread: the blocks its handlers were given
  ret,            \* the result of the last allocate_data_block
  crashes, faults,
  cut             \* history: a free_data_block was cut short

vars == <<fs_superblock, disk, op, held, ret, crashes, faults, cut>>

Idle == [pc |-> "idle", block |-> 0, word |-> 0]

Empty == [maxAlloc |-> FirstDataBlock, freelist_head |-> 0]

Init ==
  /\ fs_superblock = Empty
  /\ \E word \in [DataRegion -> Content] : disk = [sb |-> Empty, word |-> word]
  /\ op = [t \in Thread |-> Idle]
  /\ held = [t \in Thread |-> {}]
  /\ ret = -1
  /\ crashes = 0 /\ faults = 0 /\ cut = FALSE

-----------------------------------------------------------------------------
(* The frame of a step of thread t, from one access to the next. *)

At(t, pc) == op[t].pc = pc

Go(t, pc) == op' = [op EXCEPT ![t].pc = pc]

Note(t, pc, block) == op' = [op EXCEPT ![t] = [@ EXCEPT !.pc = pc, !.block = block]]

Same(t) == UNCHANGED <<held, ret, crashes, faults, cut>>

Return(t, result) ==
  /\ op' = [op EXCEPT ![t] = Idle]
  /\ ret' = result
  /\ held' = [held EXCEPT ![t] = IF result > 0 THEN @ \union {result} ELSE @]

\* An access to the device, which answers or does not.
Fault ==
  /\ faults < MaxFaults
  /\ faults' = faults + 1
  /\ UNCHANGED <<fs_superblock, disk, crashes>>

\* fs_write_superblock: the whole superblock as it is in memory now.
WriteSuperblock ==
  /\ disk' = [disk EXCEPT !.sb = fs_superblock]
  /\ UNCHANGED <<fs_superblock, crashes, faults>>

WriteWord(block, word) ==
  /\ disk' = [disk EXCEPT !.word[block] = word]
  /\ UNCHANGED <<fs_superblock, crashes, faults>>

-----------------------------------------------------------------------------
(* allocate_data_block *)

Allocate(t) == At(t, "idle") /\ Go(t, "test") /\ Same(t) /\ UNCHANGED <<fs_superblock, disk>>

Test(t) ==
  /\ At(t, "test")
  /\ IF fs_superblock.freelist_head = 0 /\ fs_superblock.maxAlloc = NUM_OF_DATA_BLOCKS
     THEN Return(t, -1)
     ELSE Go(t, "branch") /\ UNCHANGED <<held, ret>>
  /\ UNCHANGED <<fs_superblock, disk, crashes, faults, cut>>

Branch(t) ==
  /\ At(t, "branch")
  /\ Go(t, IF fs_superblock.maxAlloc # NUM_OF_DATA_BLOCKS THEN "load" ELSE "head")
  /\ Same(t) /\ UNCHANGED <<fs_superblock, disk>>

\* maxAlloc++ is a load and a store.
Load(t) ==
  /\ At(t, "load")
  /\ Note(t, "store", fs_superblock.maxAlloc)
  /\ Same(t) /\ UNCHANGED <<fs_superblock, disk>>

Bump(t) ==
  /\ At(t, "store")
  /\ fs_superblock' = [fs_superblock EXCEPT !.maxAlloc = op[t].block + 1]
  /\ Go(t, "zero")
  /\ Same(t) /\ UNCHANGED disk

Zero(t) ==
  /\ At(t, "zero")
  /\ \/ /\ op[t].block \in DataRegion
        /\ WriteWord(op[t].block, 0)
        /\ Go(t, "save") /\ UNCHANGED <<held, ret>>
     \/ /\ op[t].block \notin DataRegion
        /\ Return(t, -1) /\ UNCHANGED <<fs_superblock, disk, crashes, faults>>
     \/ Fault /\ Return(t, -1)
  /\ UNCHANGED cut

ReadHead(t) ==
  /\ At(t, "head")
  /\ Note(t, "read", fs_superblock.freelist_head)
  /\ Same(t) /\ UNCHANGED <<fs_superblock, disk>>

\* What a block may begin with: block 0 with iList_size; what the inode blocks
\* hold is not kept.
FirstWord(b) ==
  CASE b \in DataRegion -> {disk.word[b]}
    [] b = 0 -> {INODE_BLOCK_COUNT}
    [] b \in 1 .. INODE_BLOCK_COUNT -> Content
    [] OTHER -> {}

\* The head is read from memory again, and the block it names from the device.
\* A failure returns false.
Read(t) ==
  /\ At(t, "read")
  /\ LET words == FirstWord(fs_superblock.freelist_head) IN
     \/ /\ \E w \in words : op' = [op EXCEPT ![t] = [@ EXCEPT !.pc = "relink", !.word = w]]
        /\ UNCHANGED <<fs_superblock, disk, held, ret, crashes, faults>>
     \/ words = {} /\ Return(t, 0) /\ UNCHANGED <<fs_superblock, disk, crashes, faults>>
     \/ Fault /\ Return(t, 0)
  /\ UNCHANGED cut

\* Mutant: the head stays.
RelinkForgotten(t) ==
  /\ At(t, "relink")
  /\ Go(t, "save")
  /\ Same(t) /\ UNCHANGED <<fs_superblock, disk>>

Relink(t) ==
  /\ At(t, "relink")
  /\ fs_superblock' = [fs_superblock EXCEPT !.freelist_head = op[t].word]
  /\ Go(t, "save")
  /\ Same(t) /\ UNCHANGED disk

\* Mutant: the superblock stays in memory.
SaveNothing(t) ==
  /\ At(t, "save")
  /\ Return(t, IF op[t].block = 0 THEN -1 ELSE op[t].block)
  /\ UNCHANGED <<fs_superblock, disk, crashes, faults, cut>>

Save(t) ==
  /\ At(t, "save")
  /\ \/ WriteSuperblock /\ Return(t, IF op[t].block = 0 THEN -1 ELSE op[t].block)
     \/ Fault /\ Return(t, -1)
  /\ UNCHANGED cut

-----------------------------------------------------------------------------
(* free_data_block of a block the caller was given and gives up. *)

Free(t, b) ==
  /\ At(t, "idle")
  /\ b \in held[t]
  /\ held' = [held EXCEPT ![t] = @ \ {b}]
  /\ IF b \in DataRegion THEN Note(t, "compare", b) ELSE UNCHANGED op
  /\ UNCHANGED <<fs_superblock, disk, ret, crashes, faults, cut>>

Compare(t) ==
  /\ At(t, "compare")
  /\ Go(t, IF op[t].block = fs_superblock.maxAlloc - 1 THEN "rewind" ELSE "link")
  /\ Same(t) /\ UNCHANGED <<fs_superblock, disk>>

\* Mutant: one block too many.
RewindTwice(t) ==
  /\ At(t, "rewind")
  /\ fs_superblock' = [fs_superblock EXCEPT !.maxAlloc = @ - 2]
  /\ Go(t, "saveLast")
  /\ Same(t) /\ UNCHANGED disk

Rewind(t) ==
  /\ At(t, "rewind")
  /\ fs_superblock' = [fs_superblock EXCEPT !.maxAlloc = @ - 1]
  /\ Go(t, "saveLast")
  /\ Same(t) /\ UNCHANGED disk

\* The buffer for the block takes the old head.
Link(t) ==
  /\ At(t, "link")
  /\ op' = [op EXCEPT ![t] = [@ EXCEPT !.pc = "push", !.word = fs_superblock.freelist_head]]
  /\ Same(t) /\ UNCHANGED <<fs_superblock, disk>>

Push(t) ==
  /\ At(t, "push")
  /\ fs_superblock' = [fs_superblock EXCEPT !.freelist_head = op[t].block]
  /\ Go(t, "saveHead")
  /\ Same(t) /\ UNCHANGED disk

\* The superblock is written before the link; a failure leaves the function at
\* once.
SaveFreed(t, pc, next) ==
  /\ At(t, pc)
  /\ \/ WriteSuperblock /\ (IF next = "idle" THEN op' = [op EXCEPT ![t] = Idle] ELSE Go(t, next))
        /\ UNCHANGED cut
     \/ Fault /\ op' = [op EXCEPT ![t] = Idle] /\ cut' = TRUE
  /\ UNCHANGED <<held, ret>>

\* Mutant: the block is linked to itself.
WriteSelfLink(t) ==
  /\ At(t, "writeLink")
  /\ op' = [op EXCEPT ![t] = Idle]
  /\ WriteWord(op[t].block, op[t].block)
  /\ UNCHANGED <<held, ret, cut>>

WriteLink(t) ==
  /\ At(t, "writeLink")
  /\ op' = [op EXCEPT ![t] = Idle]
  /\ \/ WriteWord(op[t].block, op[t].word) /\ UNCHANGED cut
     \/ Fault /\ cut' = TRUE
  /\ UNCHANGED <<held, ret>>
-----------------------------------------------------------------------------
(* The other steps *)

\* A handler writes to a block it was given.
Write(t, b, word) ==
  /\ At(t, "idle")
  /\ b \in held[t] \intersect DataRegion
  /\ WriteWord(b, word)
  /\ UNCHANGED <<op, held, ret, cut>>

\* The program stops anywhere and is started again: load_FS takes the
\* superblock from the device.  What refers to the blocks in use is on the
\* device too.
Crash ==
  /\ crashes < MaxCrashes
  /\ crashes' = crashes + 1
  /\ fs_superblock' = disk.sb
  /\ op' = [t \in Thread |-> Idle]
  /\ cut' = (cut \/ \E t \in Thread : At(t, "writeLink"))
  /\ UNCHANGED <<disk, held, ret, faults>>

\* The program is stopped in good order: fs_destroy calls restartDisk.  When the
\* write fails this is a crash.
restartDisk ==
  /\ \A t \in Thread : At(t, "idle")
  /\ WriteSuperblock
  /\ UNCHANGED <<op, held, ret, cut>>

Step(t) ==
  \/ Allocate(t) \/ Test(t) \/ Branch(t) \/ Load(t) \/ Bump(t) \/ Zero(t)
  \/ ReadHead(t) \/ Read(t) \/ Relink(t) \/ Save(t)
  \/ Compare(t) \/ Rewind(t) \/ SaveFreed(t, "saveLast", "idle")
  \/ Link(t) \/ Push(t) \/ SaveFreed(t, "saveHead", "writeLink") \/ WriteLink(t)

Next ==
  \/ \E t \in Thread :
       \/ Step(t)
       \/ \E b \in held[t] : Free(t, b) \/ \E word \in Content : Write(t, b, word)
  \/ Crash
  \/ restartDisk

Spec == Init /\ [][Next]_vars

-----------------------------------------------------------------------------
(* Properties *)

InUse == UNION {held[t] : t \in Thread}

\* The n-th block of the free list that starts at a head, 0 past the end.
FreeListBlock(head) ==
  LET Following(b) == IF b \in DataRegion THEN disk.word[b] ELSE 0
      block[n \in 0 .. BLOCK_COUNT] == IF n = 0 THEN head ELSE Following(block[n - 1])
  IN  block

OnList(head) == {FreeListBlock(head)[n] : n \in 0 .. BLOCK_COUNT} \ {0}

Allocated(sb) == FirstDataBlock .. (sb.maxAlloc - 1)

\* With superblock sb the free list ends, nothing on it is in use, and no block
\* in use counts as never allocated.
Sound(sb) ==
  /\ FreeListBlock(sb.freelist_head)[BLOCK_COUNT] = 0
  /\ OnList(sb.freelist_head) \union InUse \subseteq Allocated(sb)
  /\ OnList(sb.freelist_head) \intersect InUse = {}

\* The blocks that nobody can use until the disk is set up again.
Lost(sb) == Allocated(sb) \ (InUse \union OnList(sb.freelist_head))

Quiet == \A t \in Thread : At(t, "idle")

TypeOK ==
  /\ fs_superblock \in [maxAlloc : FirstDataBlock .. NUM_OF_DATA_BLOCKS, freelist_head : Int]
  /\ disk \in [sb : [maxAlloc : FirstDataBlock .. NUM_OF_DATA_BLOCKS, freelist_head : Int],
               word : [DataRegion -> Int]]
  /\ held \in [Thread -> SUBSET Int]
  /\ crashes \in 0 .. MaxCrashes /\ faults \in 0 .. MaxFaults

\* Between calls the layer in memory is sound, unless a free_data_block was cut
\* short, and a crash or a fault has cost at most one block each.
MemorySound ==
  Quiet /\ ~cut =>
    Sound(fs_superblock) /\ Cardinality(Lost(fs_superblock)) <= crashes + faults

\* A crash now would leave a sound disk, whatever access the threads are at,
\* but for the one between the two writes of free_data_block: no block in use
\* is handed out again after the restart.
RebootSafe ==
  ~cut /\ (\A t \in Thread : ~At(t, "writeLink")) =>
    Sound(disk.sb) /\ Cardinality(Lost(disk.sb)) <= crashes + faults + Cardinality(Thread)

PoolSpec == INSTANCE FreePool WITH Block <- Pool, held <- InUse

\* With one thread, and up to the first crash or fault, the accesses of the two
\* functions, taken together, are the operations of a pool: a block in use is never
\* handed out, and a refusal means that every block of the pool is in use.
ImplementsPool ==
  PoolSpec!Init /\ [][crashes' + faults' = 0 => PoolSpec!Next \/ UNCHANGED <<InUse, ret>>]_vars
=============================================================================
