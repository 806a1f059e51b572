-------------------------------- MODULE Boot --------------------------------
(***************************************************************************)
(* Setting the disk up and starting the program: fs_init (the main of      *)
(* setupDiskMain.cpp), load_FS and bootUpFileSytem (the main of            *)
(* fuse_interface.cpp), fs_destroy.  One access to the device at a time;   *)
(* the program may be stopped between any two, and the device may fail to  *)
(* answer one.  Nothing keeps set-up from running on a disk in use.        *)
(*                                                                         *)
(* allocate_data_block is one step (AllocatorSteps has its accesses), and  *)
(* no file is made here, so that the free list stays empty and a root      *)
(* directory has two entries.                                              *)
(***************************************************************************)
EXTENDS Integers, Sequences

CONSTANTS
  INODE_BLOCK_COUNT, INODES_PER_BLOCK, NUM_OF_DATA_BLOCKS,
  MaxStarts,    \* bound: times that one of the programs is started
  MaxCrashes,   \* bound: crashes
  MaxFaults     \* bound: accesses that the device does not carry out

FirstDataBlock == INODE_BLOCK_COUNT + 1

ASSUME BootAssumption ==
  /\ INODE_BLOCK_COUNT \in Nat \ {0} /\ INODES_PER_BLOCK \in Nat \ {0}
  /\ NUM_OF_DATA_BLOCKS \in Nat /\ NUM_OF_DATA_BLOCKS > FirstDataBlock
  /\ MaxStarts \in Nat /\ MaxCrashes \in Nat /\ MaxFaults \in Nat

Number == 0 .. (INODE_BLOCK_COUNT * INODES_PER_BLOCK - 1)
Block  == FirstDataBlock .. (NUM_OF_DATA_BLOCKS - 1)

BlockOf(n) == n \div INODES_PER_BLOCK + 1

inodeNum_valid(n) == 0 <= n /\ n < INODE_BLOCK_COUNT

VARIABLES
  disk,     \* superblock, inodes, and the entries in the data blocks
  fs_superblock,
  pc,       \* the next access of the program that runs
  k,        \* the inode block that set-up clears next
  ROOT_DIR_INODE_NUM,
  node,     \* root_dir: the copy of the root directory in memory
  starts, crashes, faults,
  ready,    \* history: a set-up came to its end, and none began since
  flawed,   \* history: load_FS, or the first read of the root, failed in this start
  torn,     \* history: since the set-up, a start ended after it had taken an inode
  home      \* history: the first root mounted since the set-up, or -1

vars == <<disk, fs_superblock, pc, k, ROOT_DIR_INODE_NUM, node, starts, crashes, faults,
          ready, flawed, torn, home>>

Nothing == [inodes_count |-> 0, maxAlloc |-> 0]

\* What fs_create_superblock puts into the superblock.
Created == [inodes_count |-> INODE_BLOCK_COUNT * INODES_PER_BLOCK, maxAlloc |-> FirstDataBlock]

Zeroed == [is_allocated |-> FALSE, filesCount |-> 0, blocks |-> << >>]

\* A new device is blank.
Init ==
  /\ disk = [sb |-> Nothing, inode |-> [n \in Number |-> Zeroed], entries |-> [b \in Block |-> << >>]]
  /\ fs_superblock = Nothing
  /\ pc = "off" /\ k = 1
  /\ ROOT_DIR_INODE_NUM = 0
  /\ node = Zeroed
  /\ starts = 0 /\ crashes = 0 /\ faults = 0
  /\ ready = FALSE /\ flawed = FALSE /\ torn = FALSE /\ home = -1

-----------------------------------------------------------------------------
(* The frame of an access *)

At(l) == pc = l

Bounds == UNCHANGED <<starts, crashes, faults>>

History == UNCHANGED <<ready, flawed, torn, home>>

Memory == UNCHANGED <<fs_superblock, k, ROOT_DIR_INODE_NUM, node>>

\* The program ends with a message: "FS failed!".  TakenInode: it leaves an
\* inode that is allocated and no root directory.
Fail(takenInode) ==
  /\ pc' = "off"
  /\ torn' = (torn \/ takenInode)
  /\ UNCHANGED <<disk, ready, flawed, home>> /\ Memory

Fault ==
  /\ faults < MaxFaults
  /\ faults' = faults + 1
  /\ UNCHANGED <<starts, crashes>>

Start(l) ==
  /\ At("off")
  /\ starts < MaxStarts
  /\ starts' = starts + 1
  /\ pc' = l
  /\ UNCHANGED <<disk, crashes, faults>>

-----------------------------------------------------------------------------
(* fs_init: the superblock first, then the blocks of inodes *)

fs_init ==
  /\ Start("superblock")
  /\ ready' = FALSE /\ k' = 1
  /\ UNCHANGED <<fs_superblock, ROOT_DIR_INODE_NUM, node, flawed, torn, home>>

fs_create_superblock ==
  /\ At("superblock")
  /\ \/ /\ disk' = [disk EXCEPT !.sb = Created]
        /\ pc' = "ilist"
        /\ Memory /\ History /\ Bounds
     \/ Fault /\ Fail(FALSE)

\* fs_create_ilist, one block.
fs_create_ilist ==
  /\ At("ilist")
  /\ \/ /\ disk' = [disk EXCEPT !.inode = [n \in Number |-> IF BlockOf(n) = k THEN Zeroed ELSE @[n]]]
        /\ IF k = INODE_BLOCK_COUNT
           THEN pc' = "off" /\ k' = 1 /\ ready' = TRUE /\ torn' = FALSE /\ home' = -1
           ELSE k' = k + 1 /\ UNCHANGED <<pc, ready, torn, home>>
        /\ UNCHANGED <<fs_superblock, ROOT_DIR_INODE_NUM, node, flawed>> /\ Bounds
     \/ Fault /\ Fail(FALSE)

-----------------------------------------------------------------------------
(* bootUpFileSytem *)

bootUpFileSytem ==
  /\ Start("load")
  /\ flawed' = FALSE
  /\ ROOT_DIR_INODE_NUM' = 0
  /\ UNCHANGED <<fs_superblock, k, node, ready, torn, home>>

\* The result of load_FS is not looked at: after a read that failed, or of a disk
\* that was never set up, the superblock in memory is all zero.  When the device
\* cannot be opened, neither the root nor a free inode is found on it.
load_FS ==
  /\ At("load")
  /\ \/ /\ \/ fs_superblock' = disk.sb /\ Bounds
           \/ fs_superblock' = Nothing /\ Fault
        /\ flawed' = (fs_superblock'.inodes_count = 0)
        /\ pc' = "find"
        /\ UNCHANGED <<disk, k, ROOT_DIR_INODE_NUM, node, ready, torn, home>>
     \/ Fault /\ Fail(FALSE)

Mounted(root) ==
  /\ pc' = "mounted"
  /\ home' = IF home = -1 THEN root ELSE home

\* Mutant: an inode that is allocated will do.
FindAllocated ==
  /\ At("find")
  /\ IF disk.inode[0].is_allocated THEN Mounted(0) ELSE pc' = "create" /\ UNCHANGED home
  /\ UNCHANGED <<disk, ready, flawed, torn>> /\ Memory /\ Bounds

\* Mutant: only a root directory that is there can be mounted.
FindOnly ==
  /\ At("find")
  /\ IF disk.inode[0].is_allocated /\ disk.inode[0].filesCount >= 2
     THEN Mounted(0) ELSE pc' = "off" /\ UNCHANGED home
  /\ UNCHANGED <<disk, ready, flawed, torn>> /\ Memory /\ Bounds

\* A root that cannot be read counts as one that is not there.
FindRoot ==
  /\ At("find")
  /\ \/ /\ IF disk.inode[0].is_allocated /\ disk.inode[0].filesCount >= 2
           THEN Mounted(0) ELSE pc' = "create" /\ UNCHANGED home
        /\ UNCHANGED flawed /\ Bounds
     \/ pc' = "create" /\ flawed' = TRUE /\ UNCHANGED home /\ Fault
  /\ UNCHANGED <<disk, ready, torn>> /\ Memory

\* Mutant: the number is not tested.
createUnchecked ==
  LET free == {n \in Number : ~disk.inode[n].is_allocated /\ BlockOf(n) < INODE_BLOCK_COUNT}
      n    == CHOOSE m \in free : \A l \in free : m <= l
  IN  /\ At("create")
      /\ free # {}
      /\ disk' = [disk EXCEPT !.inode[n].is_allocated = TRUE]
      /\ ROOT_DIR_INODE_NUM' = n
      /\ pc' = "block"
      /\ node' = [Zeroed EXCEPT !.is_allocated = TRUE]
      /\ UNCHANGED <<fs_superblock, k>> /\ History /\ Bounds

\* createInode: the scan leaves out the last block of inodes.
createInode ==
  LET free == {n \in Number : ~disk.inode[n].is_allocated /\ BlockOf(n) < INODE_BLOCK_COUNT}
      n    == CHOOSE m \in free : \A l \in free : m <= l
  IN  /\ At("create")
      /\ \/ /\ free # {} /\ inodeNum_valid(n)
            /\ disk' = [disk EXCEPT !.inode[n].is_allocated = TRUE]
            /\ ROOT_DIR_INODE_NUM' = n
            /\ pc' = "block"
            /\ node' = [Zeroed EXCEPT !.is_allocated = TRUE]
            /\ UNCHANGED <<fs_superblock, k>> /\ History /\ Bounds
         \/ (free = {} \/ ~inodeNum_valid(n)) /\ Fail(FALSE) /\ Bounds
         \/ Fault /\ Fail(FALSE)

\* allocate_data_block, which the first add_directory_entry calls.  The inode is read
\* again before; a fault there has the same end.
allocate_data_block ==
  LET b   == fs_superblock.maxAlloc
      new == [fs_superblock EXCEPT !.maxAlloc = @ + 1]
  IN  /\ At("block")
      /\ \/ /\ b \in Block
            /\ fs_superblock' = new
            /\ disk' = [disk EXCEPT !.sb = new]
            /\ node' = [node EXCEPT !.blocks = <<b>>]
            /\ pc' = "dot"
            /\ UNCHANGED <<k, ROOT_DIR_INODE_NUM>> /\ History /\ Bounds
         \/ b \notin Block /\ Fail(TRUE) /\ Bounds
         \/ Fault /\ Fail(TRUE)

\* add_directory_entry writes the block: for "." as a new one, for ".." with what is
\* in it.
AddEntry(name, l, next) ==
  /\ At(l)
  /\ \/ /\ disk' = [disk EXCEPT !.entries[node.blocks[1]] =
                      Append(IF name = "dot" THEN << >> ELSE @, [name |-> name, inum |-> ROOT_DIR_INODE_NUM])]
        /\ node' = [node EXCEPT !.filesCount = @ + 1]
        /\ pc' = next
        /\ UNCHANGED <<fs_superblock, k, ROOT_DIR_INODE_NUM>> /\ History /\ Bounds
     \/ Fault /\ Fail(TRUE)

\* Mutant: the root directory is written before its entries are counted.
WriteUncounted ==
  /\ At("root")
  /\ disk' = [disk EXCEPT !.inode[ROOT_DIR_INODE_NUM] = [node EXCEPT !.filesCount = 0]]
  /\ Mounted(ROOT_DIR_INODE_NUM)
  /\ Memory /\ UNCHANGED <<ready, flawed, torn>> /\ Bounds

WriteRoot ==
  /\ At("root")
  /\ \/ /\ disk' = [disk EXCEPT !.inode[ROOT_DIR_INODE_NUM] = node]
        /\ Mounted(ROOT_DIR_INODE_NUM)
        /\ Memory /\ UNCHANGED <<ready, flawed, torn>> /\ Bounds
     \/ Fault /\ Fail(TRUE)

-----------------------------------------------------------------------------

\* fs_destroy calls restartDisk; a write that fails makes no difference to the program.
fs_destroy ==
  /\ At("mounted")
  /\ \/ disk' = [disk EXCEPT !.sb = fs_superblock] /\ Bounds
     \/ Fault /\ UNCHANGED disk
  /\ pc' = "off"
  /\ Memory /\ History

TookInode == pc \in {"block", "dot", "dotdot", "root"}

Crash ==
  /\ ~At("off")
  /\ crashes < MaxCrashes
  /\ crashes' = crashes + 1
  /\ Fail(TookInode)
  /\ UNCHANGED <<starts, faults>>

\* A step of a program that was started and has not come to an end.
Step ==
  \/ fs_create_superblock \/ fs_create_ilist
  \/ load_FS \/ FindRoot \/ createInode \/ allocate_data_block
  \/ AddEntry("dot", "dot", "dotdot") \/ AddEntry("dotdot", "dotdot", "root") \/ WriteRoot

Next == fs_init \/ bootUpFileSytem \/ Step \/ fs_destroy \/ Crash

Spec == Init /\ [][Next]_vars

\* A program that was started goes on: its steps are straight-line code.
FairSpec == Spec /\ WF_vars(Step)

-----------------------------------------------------------------------------
(* Properties *)

Superblock == [inodes_count : {0, Created.inodes_count}, maxAlloc : 0 .. NUM_OF_DATA_BLOCKS]

Entry == [name : {"dot", "dotdot"}, inum : Number]

\* Every field keeps its type, and a block never takes more than two entries.
TypeOK ==
  /\ fs_superblock \in Superblock /\ disk.sb \in Superblock
  /\ disk.inode \in [Number -> [is_allocated : BOOLEAN, filesCount : 0 .. 2, blocks : {<< >>} \union {<<b>> : b \in Block}]]
  /\ \A b \in Block : Len(disk.entries[b]) <= 2 /\ \A i \in DOMAIN disk.entries[b] : disk.entries[b][i] \in Entry
  /\ k \in 1 .. INODE_BLOCK_COUNT
  /\ inodeNum_valid(ROOT_DIR_INODE_NUM)

\* On a disk whose set-up came to its end, a file system that is mounted has a root
\* directory with "." and ".." in a block that is allocated, whatever crashes
\* and faults the starts before it met: the order of the writes in
\* bootUpFileSytem never shows half a root to a later start.
MountedSound ==
  At("mounted") /\ ready /\ ~flawed =>
    LET root == disk.inode[ROOT_DIR_INODE_NUM]
    IN  /\ root.is_allocated /\ root.filesCount = 2 /\ Len(root.blocks) = 1
        /\ disk.entries[root.blocks[1]] = <<[name |-> "dot", inum |-> ROOT_DIR_INODE_NUM],
                                            [name |-> "dotdot", inum |-> ROOT_DIR_INODE_NUM]>>
        /\ root.blocks[1] < disk.sb.maxAlloc
        /\ fs_superblock = disk.sb

\* Every start mounts the root that the first one mounted: the files are there again.
\* Excepted are disks where a start ended between createInode and its last
\* write, and a start in which the root or the superblock could not be read.
SameRoot == At("mounted") /\ ready /\ ~flawed /\ ~torn => ROOT_DIR_INODE_NUM = home

\* What the next start needs: the root, or an inode and a block to make one.
Room ==
  \/ disk.inode[0].is_allocated /\ disk.inode[0].filesCount >= 2
  \/ /\ \E n \in Number : ~disk.inode[n].is_allocated /\ BlockOf(n) < INODE_BLOCK_COUNT /\ inodeNum_valid(n)
     /\ disk.sb.maxAlloc \in Block

\* On a disk that was set up, a start that no crash and no fault disturbs ends with the
\* file system mounted, whatever the starts before it left behind.
BootsUp ==
  At("load") /\ ready /\ disk.sb.inodes_count # 0 /\ Room /\ crashes = MaxCrashes /\ faults = MaxFaults
    ~> At("mounted")
=============================================================================
