----------------------------- MODULE InodeTable -----------------------------
(***************************************************************************)
(* The inode table (inode.cpp), one access to the device at a time.  The   *)
(* device has one file offset, which lseek sets and read and write move:   *)
(* fs_read_block and fs_write_block are two steps each.  A block holds     *)
(* several inodes, and a function that changes one of them reads the block *)
(* into its buffer and writes all of it back.                              *)
(*                                                                         *)
(* Several threads may call the functions, as fuse_main lets them; the     *)
(* program may crash between any two accesses and be started again; the    *)
(* device may fail to carry out a read or a write, and then leaves the     *)
(* block as it was.  The device is taken to be long enough for the offset  *)
(* to stay on it when several threads move it.                             *)
(***************************************************************************)
EXTENDS Integers

CONSTANTS
  BLOCK_COUNT,        \* blocks of the device
  INODE_BLOCK_COUNT,  \* blocks 1 .. INODE_BLOCK_COUNT hold the inodes
  INODES_PER_BLOCK,
  Thread,             \* threads that run handlers
  Mode,               \* values of i_mode
  MaxLinks,           \* bound: the link count
  MaxCrashes,         \* bound: crashes
  MaxFaults           \* bound: accesses that the device does not carry out

ASSUME TableAssumption ==
  /\ BLOCK_COUNT \in Nat /\ INODE_BLOCK_COUNT \in Nat /\ INODES_PER_BLOCK \in Nat
  /\ 2 <= INODE_BLOCK_COUNT /\ INODE_BLOCK_COUNT < BLOCK_COUNT
  /\ 2 <= INODES_PER_BLOCK
  /\ 0 \in Mode
  /\ MaxLinks \in Nat /\ MaxCrashes \in Nat /\ MaxFaults \in Nat

Block  == 1 .. (BLOCK_COUNT - 1)   \* block 0 is the superblock
Offset == 0 .. (INODES_PER_BLOCK - 1)

\* Of inodeStruct: i_mode, which delete_inode leaves, and linkCount for the
\* fields that it resets.
Inode == [is_allocated : BOOLEAN, linkCount : 0 .. MaxLinks, i_mode : Mode]

Blank == [is_allocated |-> FALSE, linkCount |-> 0, i_mode |-> 0]

\* The numbers inodeNum_valid accepts: as many as the table has BLOCKS.
Number == 0 .. (INODE_BLOCK_COUNT - 1)

\* gen_block_offset
BlockOf(n)  == n \div INODES_PER_BLOCK + 1
OffsetOf(n) == n % INODES_PER_BLOCK

VARIABLES
  disk,      \* the device from block 1 on, each block as inodes
  fs_ptr,    \* the file offset of the device, in blocks
  op,        \* for each thread: the function it is in, the next access, the locals
  answer,    \* for each thread: the result of its last call
  created,   \* history: for each thread, numbers createInode gave it, not yet deleted
  crashes, faults

vars == <<disk, fs_ptr, op, answer, created, crashes, faults>>

Table == [Block -> [Offset -> Inode]]

BlankBlock == [o \in Offset |-> Blank]

Functions == {"none", "createInode", "loadINodeFromDisk", "writeINodeToDisk", "delete_inode"}

\* The locals of a function, and what it returns.
Op == [pc : {"idle", "scanSeek", "scanRead", "readSeek", "read", "writeSeek", "write"},
       call : Functions, num : Number \union {-1}, block : Block \union {0}, node : Inode,
       buffer : [Offset -> Inode]]

Answer == [call : Functions, num : Number \union {-1}, ok : BOOLEAN, node : Inode]

Idle == [pc |-> "idle", call |-> "none", num |-> -1, block |-> 0, node |-> Blank,
         buffer |-> BlankBlock]

Nothing == [call |-> "none", num |-> -1, ok |-> FALSE, node |-> Blank]

\* fs_create_ilist has zeroed the table; load_FS has read block 0.
Init ==
  /\ disk = [b \in Block |-> BlankBlock]
  /\ fs_ptr = 1
  /\ op = [t \in Thread |-> Idle]
  /\ answer = [t \in Thread |-> Nothing]
  /\ created = [t \in Thread |-> {}]
  /\ crashes = 0 /\ faults = 0

-----------------------------------------------------------------------------
(* The frame of a step *)

At(t, pc) == op[t].pc = pc

Go(t, pc) == op' = [op EXCEPT ![t].pc = pc]

Call(t, call, pc, n, block, node) ==
  /\ At(t, "idle")
  /\ op' = [op EXCEPT ![t] = [pc |-> pc, call |-> call, num |-> n, block |-> block,
                              node |-> node, buffer |-> BlankBlock]]
  /\ UNCHANGED <<disk, fs_ptr, answer, created, crashes, faults>>

Return(t, n, ok, node) ==
  /\ op' = [op EXCEPT ![t] = Idle]
  /\ answer' = [answer EXCEPT ![t] = [call |-> op[t].call, num |-> n, ok |-> ok, node |-> node]]

\* The access at a pc is a read or write that the device does not carry out.
Fault(t) ==
  /\ op[t].pc \in {"scanRead", "read", "write"}
  /\ faults < MaxFaults
  /\ faults' = faults + 1
  /\ Return(t, -1, FALSE, Blank)
  /\ UNCHANGED <<disk, fs_ptr, created, crashes>>

\* lseek to the block the function works on.
Seek(t, pc, next) ==
  /\ At(t, pc)
  /\ fs_ptr' = op[t].block
  /\ Go(t, next)
  /\ UNCHANGED <<disk, answer, created, crashes, faults>>

-----------------------------------------------------------------------------
(* The calls *)

createInode(t) == Call(t, "createInode", "scanSeek", -1, 1, Blank)

CallLoad(t, n) == Call(t, "loadINodeFromDisk", "readSeek", n, BlockOf(n), Blank)

\* An inode number that is not valid gives NULL at once.
LoadInvalid(t, n) ==
  /\ At(t, "idle")
  /\ n \notin Number
  /\ answer' = [answer EXCEPT ![t] = [call |-> "loadINodeFromDisk", num |-> n, ok |-> FALSE,
                                      node |-> Blank]]
  /\ UNCHANGED <<disk, fs_ptr, op, created, crashes, faults>>

Loaded(t) == answer[t].call = "loadINodeFromDisk" /\ answer[t].ok

\* A handler writes back the inode it loaded with its mode changed (fs_chmod,
\* create_new_file), or its links (create_new_file, fs_unlink).
fs_chmod(t, mode) ==
  /\ Loaded(t)
  /\ Call(t, "writeINodeToDisk", "readSeek", answer[t].num, BlockOf(answer[t].num),
          [answer[t].node EXCEPT !.i_mode = mode])

SetLinks(t, links) ==
  /\ Loaded(t)
  /\ Call(t, "writeINodeToDisk", "readSeek", answer[t].num, BlockOf(answer[t].num),
          [answer[t].node EXCEPT !.linkCount = links])

\* fs_unlink of the last link.  The data blocks are freed between the read and
\* the write of the inode block.
delete_inode(t) ==
  /\ Loaded(t)
  /\ Call(t, "delete_inode", "readSeek", answer[t].num, BlockOf(answer[t].num), Blank)

-----------------------------------------------------------------------------
(* getNextFreeINode *)

FreeOffsets(block) == {o \in Offset : ~block[o].is_allocated}

First(S) == CHOOSE o \in S : \A p \in S : o <= p

NumberAt(block, o) == (block - 1) * INODES_PER_BLOCK + o

\* Mutants: the scan stays in its block; the number it finds is not tested.
ScanForever(t) ==
  LET free == FreeOffsets(disk[fs_ptr])
      n    == NumberAt(op[t].block, First(free))
  IN  /\ At(t, "scanRead")
      /\ fs_ptr' = fs_ptr + 1
      /\ \/ free = {} /\ Go(t, "scanSeek") /\ UNCHANGED answer
         \/ /\ free # {} /\ n \in Number
            /\ op' = [op EXCEPT ![t].pc = "readSeek", ![t].num = n, ![t].block = BlockOf(n)]
            /\ UNCHANGED answer
         \/ free # {} /\ n \notin Number /\ Return(t, -1, FALSE, Blank)
      /\ UNCHANGED <<disk, created, crashes, faults>>

ScanUnchecked(t) ==
  LET free == FreeOffsets(disk[fs_ptr])
      n    == NumberAt(op[t].block, First(free))
  IN  /\ At(t, "scanRead")
      /\ fs_ptr' = fs_ptr + 1
      /\ IF free = {} THEN op' = [op EXCEPT ![t].pc = "scanSeek", ![t].block = @ + 1]
         ELSE op' = [op EXCEPT ![t].pc = "readSeek", ![t].num = n, ![t].block = BlockOf(n)]
      /\ UNCHANGED <<disk, answer, created, crashes, faults>>

\* One block of the scan: the next one, which is never the last inode block; or
\* the first free inode in it, if its number is valid; or none is left.
ScanRead(t) ==
  LET free == FreeOffsets(disk[fs_ptr])
      n    == NumberAt(op[t].block, First(free))
  IN  /\ At(t, "scanRead")
      /\ fs_ptr' = fs_ptr + 1
      /\ \/ /\ free = {} /\ op[t].block + 1 < INODE_BLOCK_COUNT
            /\ op' = [op EXCEPT ![t].pc = "scanSeek", ![t].block = @ + 1]
            /\ UNCHANGED answer
         \/ /\ free # {} /\ n \in Number
            /\ op' = [op EXCEPT ![t].pc = "readSeek", ![t].num = n, ![t].block = BlockOf(n)]
            /\ UNCHANGED answer
         \/ /\ IF free = {} THEN op[t].block + 1 >= INODE_BLOCK_COUNT ELSE n \notin Number
            /\ Return(t, -1, FALSE, Blank)
      /\ UNCHANGED <<disk, created, crashes, faults>>

-----------------------------------------------------------------------------
(* The read of the block with the inode, and the write of it *)

\* loadINodeFromDisk returns the inode, if it is allocated.
Load(t) ==
  LET node == disk[fs_ptr][OffsetOf(op[t].num)]
  IN  /\ At(t, "read") /\ op[t].call = "loadINodeFromDisk"
      /\ fs_ptr' = fs_ptr + 1
      /\ IF node.is_allocated THEN Return(t, op[t].num, TRUE, node)
         ELSE Return(t, op[t].num, FALSE, Blank)
      /\ UNCHANGED <<disk, created, crashes, faults>>

Read(t) ==
  /\ At(t, "read") /\ op[t].call # "loadINodeFromDisk"
  /\ fs_ptr' = fs_ptr + 1
  /\ op' = [op EXCEPT ![t].pc = "writeSeek", ![t].buffer = disk[fs_ptr]]
  /\ UNCHANGED <<disk, answer, created, crashes, faults>>

\* What the inode held before stays in it when it is taken, and its mode when it is deleted.
Taken(old)   == [old EXCEPT !.is_allocated = TRUE, !.linkCount = 0]
Deleted(old) == [Blank EXCEPT !.i_mode = old.i_mode]

\* The inode that the function puts into its buffer.
Edit(call, old, node) ==
  CASE call = "createInode"      -> Taken(old)
    [] call = "writeINodeToDisk" -> node
    [] call = "delete_inode"     -> Deleted(old)

\* Mutant: the inode is not the only thing that changes in its block.
WriteFresh(t) ==
  LET o == OffsetOf(op[t].num)
  IN  /\ At(t, "write")
      /\ fs_ptr' = fs_ptr + 1
      /\ disk' = [disk EXCEPT ![fs_ptr] =
                    [BlankBlock EXCEPT ![o] = Edit(op[t].call, op[t].buffer[o], op[t].node)]]
      /\ Return(t, op[t].num, TRUE, Blank)
      /\ UNCHANGED <<created, crashes, faults>>

Write(t) ==
  LET o == OffsetOf(op[t].num)
      n == op[t].num
  IN  /\ At(t, "write")
      /\ fs_ptr' = fs_ptr + 1
      /\ disk' = [disk EXCEPT ![fs_ptr] =
                    [op[t].buffer EXCEPT ![o] = Edit(op[t].call, op[t].buffer[o], op[t].node)]]
      /\ created' = CASE op[t].call = "createInode"  -> [created EXCEPT ![t] = @ \union {n}]
                      [] op[t].call = "delete_inode" -> [s \in Thread |-> created[s] \ {n}]
                      [] OTHER -> created
      /\ Return(t, n, TRUE, Blank)
      /\ UNCHANGED <<crashes, faults>>

-----------------------------------------------------------------------------
\* The program stops anywhere and is started again; load_FS reads block 0.
Crash ==
  /\ crashes < MaxCrashes
  /\ crashes' = crashes + 1
  /\ fs_ptr' = 1
  /\ op' = [t \in Thread |-> Idle]
  /\ answer' = [t \in Thread |-> Nothing]
  /\ UNCHANGED <<disk, created, faults>>

Begin(t) ==
  \/ createInode(t)
  \/ \E n \in Number : CallLoad(t, n)
  \/ LoadInvalid(t, -1)
  \/ \E mode \in Mode : fs_chmod(t, mode)
  \/ \E links \in 0 .. MaxLinks : SetLinks(t, links)
  \/ delete_inode(t)

Access(t) ==
  \/ Seek(t, "scanSeek", "scanRead") \/ ScanRead(t)
  \/ Seek(t, "readSeek", "read") \/ Load(t) \/ Read(t)
  \/ Seek(t, "writeSeek", "write") \/ Write(t)

Next ==
  \/ \E t \in Thread : Begin(t) \/ Access(t) \/ Fault(t)
  \/ Crash

Spec == Init /\ [][Next]_vars

\* A function that has begun goes on: each is a straight line of accesses, which
\* waits for nothing but the device.
FairSpec == Spec /\ \A t \in Thread : WF_vars(Access(t))

-----------------------------------------------------------------------------
(* Properties *)

TypeOK ==
  /\ disk \in Table
  /\ fs_ptr \in Block
  /\ op \in [Thread -> Op]
  /\ answer \in [Thread -> Answer]
  /\ created \in [Thread -> SUBSET Number]
  /\ crashes \in 0 .. MaxCrashes /\ faults \in 0 .. MaxFaults

\* The table implements InodeStore, whatever crashes and fails: the one write of
\* a block is the effect of the call, on the inode of its number and on no other,
\* a creation takes a free inode and is refused only when none is left, and a
\* load returns what was written last.
Store == INSTANCE InodeStore
           WITH inode <- [n \in Number |-> disk[BlockOf(n)][OffsetOf(n)]]
ImplementsStore == Store!Spec

\* Every call returns.
CallsReturn == \A t \in Thread : op[t].pc # "idle" ~> op[t].pc = "idle"

\* An inode is given to one thread at a time (inode_tests.cc:78-79, where two
\* creations must give two numbers).
CreatedApart == \A s, t \in Thread : s # t => created[s] \intersect created[t] = {}
=============================================================================
