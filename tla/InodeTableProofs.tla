-------------------------- MODULE InodeTableProofs --------------------------
(***************************************************************************)
(* Theorems about the inode table when the handlers run one after the      *)
(* other (OneThread), for every device, number of inodes per block, count  *)
(* of crashes and count of failed accesses.  With two threads they fail:   *)
(* InodeThreads.cfg.                                                       *)
(***************************************************************************)
EXTENDS InodeTable, Facts

\* The handlers run one after the other.
OneThread == \A s, t \in Thread : s = t

Calls == Functions \ {"none"}

\* What a function at an access is about.
Located ==
  \A t \in Thread :
    /\ op[t].pc \in {"scanSeek", "scanRead"} =>
         op[t].call = "createInode" /\ op[t].block \in 1 .. (INODE_BLOCK_COUNT - 1)
    /\ op[t].pc \in {"readSeek", "read", "writeSeek", "write"} =>
         op[t].num \in Number /\ op[t].call \in Calls
    /\ op[t].pc \in {"writeSeek", "write"} => op[t].call # "loadINodeFromDisk"
    /\ Loaded(t) => answer[t].num \in Number /\ answer[t].node.is_allocated

Entry(n) == disk[BlockOf(n)][OffsetOf(n)]

\* A creation holds the number of a free inode; a function that changes an inode
\* was called after a load of it, and changes one of two fields.
Purpose ==
  \A t \in Thread :
    op[t].pc \in {"readSeek", "read", "writeSeek", "write"} =>
      /\ op[t].call = "createInode" => ~Entry(op[t].num).is_allocated
      /\ op[t].call \in {"writeINodeToDisk", "delete_inode"} =>
           Loaded(t) /\ answer[t].num = op[t].num
      /\ op[t].call = "writeINodeToDisk" =>
           /\ op[t].node.is_allocated
           /\ \/ op[t].node.i_mode = answer[t].node.i_mode
              \/ op[t].node.linkCount = answer[t].node.linkCount

\* A function works on the block of its inode: the offset is there when it reads
\* or writes, and what it writes back is what is on the disk, but for the one
\* inode.  A scan has passed over no free inode.
Undisturbed ==
  \A t \in Thread :
    /\ op[t].pc \in {"scanRead", "read", "write"} => fs_ptr = op[t].block
    /\ op[t].pc \in {"readSeek", "read", "writeSeek", "write"} => op[t].block = BlockOf(op[t].num)
    /\ op[t].pc \in {"writeSeek", "write"} => op[t].buffer = disk[op[t].block]
    /\ op[t].pc \in {"scanSeek", "scanRead"} =>
         \A b \in 1 .. (op[t].block - 1) : FreeOffsets(disk[b]) = {}

\* The inductive invariant.
Inv == TypeOK /\ Undisturbed /\ Located /\ Purpose

\* gen_block_offset: every number that inodeNum_valid accepts has its place in
\* an inode block, and never in the last one.
LEMMA Geometry ==
  ASSUME NEW n \in Number
  PROVE  /\ BlockOf(n) \in 1 .. (INODE_BLOCK_COUNT - 1)
         /\ OffsetOf(n) \in Offset
<1>1. /\ n \in Nat /\ n < INODE_BLOCK_COUNT
      /\ INODES_PER_BLOCK \in Nat /\ INODES_PER_BLOCK >= 2 /\ INODES_PER_BLOCK >= 1
  BY TableAssumption DEF Number
<1>2. n \div INODES_PER_BLOCK \in Nat /\ n % INODES_PER_BLOCK \in Offset
      /\ n = (n \div INODES_PER_BLOCK) * INODES_PER_BLOCK + (n % INODES_PER_BLOCK)
  BY <1>1, DivMod DEF Offset
<1>3. (n \div INODES_PER_BLOCK) * INODES_PER_BLOCK >= (n \div INODES_PER_BLOCK) * 2
  BY <1>1, <1>2
<1>4. n \div INODES_PER_BLOCK + 1 <= INODE_BLOCK_COUNT - 1
  BY <1>1, <1>2, <1>3, TableAssumption DEF Offset
<1> QED
  BY <1>2, <1>4, TableAssumption DEF BlockOf, OffsetOf

\* What fs_create_ilist writes is an inode block.
LEMMA BlankType == Blank \in Inode /\ BlankBlock \in [Offset -> Inode]
  BY TableAssumption DEF Blank, Inode, BlankBlock

\* The blocks before the last inode block, and those after them, are on the device.
LEMMA BlockRange ==
  ASSUME NEW b \in 1 .. (INODE_BLOCK_COUNT - 1)
  PROVE  b \in Block /\ b + 1 \in Block /\ b \in Int
  BY TableAssumption DEF Block

\* The invariant holds when the program starts on a zeroed inode table (fs_init).
THEOREM InitInv == Init => Inv
<1> SUFFICES ASSUME Init PROVE Inv OBVIOUS
<1>1. TypeOK
  BY BlankType, TableAssumption, BlockRange
     DEF Init, TypeOK, Table, Idle, Nothing, Number, Op, Answer, Functions
<1>2. Undisturbed
  BY DEF Init, Undisturbed, Idle
<1>3. Located
  BY DEF Init, Located, Idle, Loaded, Nothing
<1>4. Purpose
  BY DEF Init, Purpose, Idle
<1> QED BY <1>1, <1>2, <1>3, <1>4 DEF Inv

\* lseek moves the offset to the block the function works on, and nothing else.
LEMMA SeekKeeps ==
  ASSUME OneThread, Inv, NEW t \in Thread, NEW pc, NEW next, Seek(t, pc, next),
         <<pc, next>> \in {<<"scanSeek", "scanRead">>, <<"readSeek", "read">>,
                          <<"writeSeek", "write">>}
  PROVE Inv'
<1> USE DEF Inv
<1>0. \A s \in Thread : s = t
  BY DEF OneThread
<1>1. op[t].block \in 1 .. (INODE_BLOCK_COUNT - 1)
  BY Geometry DEF Located, Undisturbed, Seek, At
<1>2. TypeOK'
  <2>1. [op[t] EXCEPT !.pc = next] \in Op
    BY DEF TypeOK, Op
  <2>2. op' \in [Thread -> Op]
    BY <2>1 DEF TypeOK, Seek, Go
  <2>3. QED
    BY <1>1, <2>2, BlockRange DEF TypeOK, Seek
<1>3. Undisturbed'
  BY <1>0, <1>1 DEF TypeOK, Undisturbed, Seek, At, Go, FreeOffsets
<1>4. Located'
  BY <1>0, <1>1 DEF TypeOK, Located, Seek, At, Go, Loaded
<1>5. Purpose'
  BY <1>0, <1>1 DEF TypeOK, Purpose, Seek, At, Go, Loaded, Entry
<1> QED BY <1>2, <1>3, <1>4, <1>5

\* The scan of getNextFreeINode takes the first free inode of a block.
LEMMA FirstIsLeast ==
  ASSUME NEW S \in SUBSET Nat, S # {}
  PROVE  First(S) \in S /\ \A p \in S : First(S) <= p
  BY LeastNumber DEF First

\* The number getNextFreeINode makes of a block and an offset is the number
\* gen_block_offset takes apart into them.
LEMMA FoundPlace ==
  ASSUME NEW b \in 1 .. (INODE_BLOCK_COUNT - 1), NEW o \in Offset, NumberAt(b, o) \in Number
  PROVE  BlockOf(NumberAt(b, o)) = b /\ OffsetOf(NumberAt(b, o)) = o
<1>1. INODES_PER_BLOCK \in Nat /\ INODES_PER_BLOCK >= 2 /\ INODE_BLOCK_COUNT \in Nat
  BY TableAssumption
<1> DEFINE q == b - 1
<1>2. q \in Nat /\ o \in 0 .. (INODES_PER_BLOCK - 1) /\ b = q + 1
  BY <1>1 DEF Offset
<1> HIDE DEF q
<1>3. /\ (q * INODES_PER_BLOCK + o) \div INODES_PER_BLOCK = q
      /\ (q * INODES_PER_BLOCK + o) % INODES_PER_BLOCK = o
  BY <1>1, <1>2, Quotient
<1>4. b - 1 = q
  BY DEF q
<1> QED BY <1>2, <1>3, <1>4 DEF NumberAt, BlockOf, OffsetOf

\* A block of the scan in getNextFreeINode: what it has passed holds no free
\* inode, and the number it finds is that of a free inode.
LEMMA ScanReadKeeps ==
  ASSUME OneThread, Inv, NEW t \in Thread, ScanRead(t)
  PROVE  Inv'
<1> USE DEF Inv
<1>0. \A s \in Thread : s = t
  BY DEF OneThread
<1> DEFINE b == op[t].block
           free == FreeOffsets(disk[fs_ptr])
           n == NumberAt(b, First(free))
<1>1. /\ b \in 1 .. (INODE_BLOCK_COUNT - 1) /\ fs_ptr = b /\ b \in Block
      /\ op[t].call = "createInode" /\ op[t].pc = "scanRead"
  BY BlockRange DEF Located, Undisturbed, ScanRead, At
<1>2. fs_ptr' = b + 1 /\ fs_ptr' \in Block
  BY <1>1, BlockRange DEF ScanRead
<1>3. CASE /\ free = {} /\ b + 1 < INODE_BLOCK_COUNT
           /\ op' = [op EXCEPT ![t].pc = "scanSeek", ![t].block = @ + 1]
           /\ UNCHANGED answer
  <2>0. b + 1 \in 1 .. (INODE_BLOCK_COUNT - 1)
    BY <1>1, <1>3, TableAssumption
  <2>1. op'[t] = [op[t] EXCEPT !.pc = "scanSeek", !.block = b + 1] /\ op'[t] \in Op
    BY <1>1, <1>3, <2>0, BlockRange DEF TypeOK, Op
  <2>2. TypeOK'
    <3>1. op' \in [Thread -> Op]
      BY <1>3, <2>1 DEF TypeOK
    <3>2. QED
      BY <1>2, <1>3, <3>1 DEF TypeOK, ScanRead
  <2>3. Undisturbed'
    <3>1. \A c \in 1 .. b : FreeOffsets(disk[c]) = {}
      BY <1>1, <1>3, BlockRange DEF Undisturbed
    <3>2. op'[t].pc = "scanSeek" /\ (op'[t].block - 1) = b /\ disk' = disk
      BY <1>1, <2>1 DEF TypeOK, Op, ScanRead
    <3>3. QED
      BY <1>0, <3>1, <3>2 DEF Undisturbed, FreeOffsets
  <2>4. Located'
    BY <1>0, <1>1, <1>3, <2>0, <2>1 DEF TypeOK, Op, Located, ScanRead, Loaded
  <2>5. Purpose'
    BY <1>0, <1>3, <2>1 DEF TypeOK, Op, Purpose, ScanRead
  <2>6. QED
    BY <2>2, <2>3, <2>4, <2>5
<1>4. CASE /\ free # {} /\ n \in Number
           /\ op' = [op EXCEPT ![t].pc = "readSeek", ![t].num = n, ![t].block = BlockOf(n)]
           /\ UNCHANGED answer
  <2>0. First(free) \in free /\ First(free) \in Offset /\ BlockOf(n) = b /\ OffsetOf(n) = First(free)
    <3>1. free \in SUBSET Offset /\ Offset \in SUBSET Nat
      BY TableAssumption DEF FreeOffsets, Offset
    <3>2. First(free) \in free
      BY <1>4, <3>1, FirstIsLeast
    <3>3. QED
      BY <1>1, <1>4, <3>1, <3>2, FoundPlace
  <2>1. /\ op'[t].pc = "readSeek" /\ op'[t].num = n /\ op'[t].block = b /\ op'[t].call = "createInode"
        /\ op'[t] \in Op
    <3> DEFINE o == op[t]
               p == op'[t]
    <3>1. o \in Op /\ p = [o EXCEPT !.pc = "readSeek", !.num = n, !.block = b]
      BY <1>4, <2>0 DEF TypeOK
    <3>2. b \in Block /\ n \in Number /\ o.call = "createInode"
      BY <1>1, <1>4
    <3> HIDE DEF o, p
    <3>3. p.pc = "readSeek" /\ p.num = n /\ p.block = b /\ p.call = "createInode" /\ p \in Op
      BY <3>1, <3>2 DEF Op
    <3> QED
      BY <3>3 DEF p
  <2>2. TypeOK'
    <3>1. op' \in [Thread -> Op]
      BY <1>0, <1>4, <2>1 DEF TypeOK
    <3>2. QED
      BY <1>2, <1>4, <3>1 DEF TypeOK, ScanRead
  <2>3. Undisturbed'
    BY <1>0, <2>0, <2>1 DEF Undisturbed
  <2>4. Located'
    BY <1>0, <1>4, <2>1 DEF Located, Loaded, Functions, Calls
  <2>5. Purpose'
    <3>1. ~disk[b][First(free)].is_allocated /\ disk' = disk
      BY <1>1, <2>0 DEF FreeOffsets, ScanRead
    <3>2. ~disk'[BlockOf(op'[t].num)][OffsetOf(op'[t].num)].is_allocated
      BY <2>0, <2>1, <3>1
    <3> QED
      BY <1>0, <2>1, <3>2 DEF Purpose, Entry
  <2>6. QED
    BY <2>2, <2>3, <2>4, <2>5
<1>5. CASE Return(t, -1, FALSE, Blank)
  <2>1. op'[t] = Idle /\ answer'[t] \in Answer /\ Idle \in Op /\ ~answer'[t].ok
    BY <1>1, <1>5, BlankType DEF TypeOK, Op, Answer, Return, Idle, Functions
  <2>2. TypeOK'
    BY <1>0, <1>2, <1>5, <2>1 DEF TypeOK, ScanRead, Return
  <2>3. Undisturbed' /\ Located' /\ Purpose'
    BY <1>0, <2>1 DEF Undisturbed, Located, Purpose, Idle, Loaded
  <2>6. QED
    BY <2>2, <2>3
<1> QED BY <1>3, <1>4, <1>5 DEF ScanRead
\* How a function begins: at the scan of the first block, or at the read of the
\* block of its number.
Begins(t, call, pc, n, block, node) ==
  \/ call = "createInode" /\ pc = "scanSeek" /\ n = -1 /\ block = 1 /\ node = Blank
  \/ /\ call \in Calls \ {"createInode"} /\ pc = "readSeek"
     /\ n \in Number /\ block = BlockOf(n) /\ node \in Inode
     /\ call \in {"writeINodeToDisk", "delete_inode"} => Loaded(t) /\ answer[t].num = n
     /\ call = "writeINodeToDisk" =>
          /\ node.is_allocated
          /\ node.i_mode = answer[t].node.i_mode \/ node.linkCount = answer[t].node.linkCount

\* A function that begins as the code makes it keeps the invariant.
LEMMA CallKeeps ==
  ASSUME OneThread, Inv, NEW t \in Thread, NEW call, NEW pc, NEW n, NEW block, NEW node,
         Begins(t, call, pc, n, block, node), Call(t, call, pc, n, block, node)
  PROVE  Inv'
<1> USE DEF Inv
<1>0. \A s \in Thread : s = t
  BY DEF OneThread
<1> DEFINE begun == [pc |-> pc, call |-> call, num |-> n, block |-> block, node |-> node,
                     buffer |-> BlankBlock]
<1>1. op' = [op EXCEPT ![t] = begun] /\ UNCHANGED <<disk, fs_ptr, answer, created, crashes, faults>>
  BY DEF Call
<1>2. block \in 1 .. (INODE_BLOCK_COUNT - 1) /\ block \in Block
  BY Geometry, BlockRange, TableAssumption DEF Begins
<1>3. begun \in Op
  BY <1>2, BlankType DEF Begins, Op, Calls, Functions
<1> HIDE DEF begun
<1>4. op'[t] = begun /\ op' \in [Thread -> Op]
  BY <1>1, <1>3 DEF TypeOK
<1>5. TypeOK'
  BY <1>1, <1>4 DEF TypeOK
<1>6. Undisturbed'
  BY <1>0, <1>2, <1>4 DEF Undisturbed, Begins, begun
<1>7. Located'
  BY <1>0, <1>1, <1>2, <1>4 DEF Located, Begins, begun, Loaded
<1>8. Purpose'
  BY <1>0, <1>1, <1>4 DEF Purpose, Begins, begun, Loaded
<1> QED
  BY <1>5, <1>6, <1>7, <1>8

\* The calls of the handlers: each writes or deletes an inode that it loaded.
LEMMA BeginKeeps ==
  ASSUME OneThread, Inv, NEW t \in Thread, Begin(t)
  PROVE  Inv'
<1> USE DEF Inv
<1>0. Loaded(t) => /\ answer[t].num \in Number /\ answer[t].node \in Inode /\ answer[t].node.is_allocated
  BY DEF TypeOK, Located, Answer
<1>1. CASE createInode(t)
  BY <1>1, CallKeeps DEF createInode, Begins
<1>2. ASSUME NEW n \in Number, CallLoad(t, n) PROVE Inv'
  BY <1>2, CallKeeps, BlankType DEF CallLoad, Begins, Calls, Functions
<1>3. CASE LoadInvalid(t, -1)
  <2>1. \A s \in Thread : s = t
    BY DEF OneThread
  <2> DEFINE given == [call |-> "loadINodeFromDisk", num |-> -1, ok |-> FALSE, node |-> Blank]
  <2>2. given \in Answer /\ ~given.ok
    BY BlankType DEF Answer, Functions
  <2>3. /\ op[t].pc = "idle" /\ answer' = [answer EXCEPT ![t] = given]
        /\ UNCHANGED <<disk, fs_ptr, op, created, crashes, faults>>
    BY <1>3 DEF LoadInvalid, At
  <2> HIDE DEF given
  <2>4. answer'[t] = given /\ answer' \in [Thread -> Answer]
    BY <2>2, <2>3 DEF TypeOK
  <2>5. TypeOK'
    BY <2>3, <2>4 DEF TypeOK
  <2>6. Undisturbed' /\ Located' /\ Purpose'
    BY <2>1, <2>2, <2>3, <2>4 DEF Undisturbed, Located, Purpose, Loaded
  <2>7. QED
    BY <2>5, <2>6
<1>4. ASSUME NEW mode \in Mode, fs_chmod(t, mode) PROVE Inv'
  <2>1. [answer[t].node EXCEPT !.i_mode = mode] \in Inode
        /\ [answer[t].node EXCEPT !.i_mode = mode].is_allocated
        /\ [answer[t].node EXCEPT !.i_mode = mode].linkCount = answer[t].node.linkCount
    BY <1>0, <1>4 DEF fs_chmod, Inode
  <2>2. QED
    BY <1>0, <1>4, <2>1, CallKeeps DEF fs_chmod, Begins, Calls, Functions
<1>5. ASSUME NEW links \in 0 .. MaxLinks, SetLinks(t, links) PROVE Inv'
  <2>1. [answer[t].node EXCEPT !.linkCount = links] \in Inode
        /\ [answer[t].node EXCEPT !.linkCount = links].is_allocated
        /\ [answer[t].node EXCEPT !.linkCount = links].i_mode = answer[t].node.i_mode
    BY <1>0, <1>5 DEF SetLinks, Inode
  <2>2. QED
    BY <1>0, <1>5, <2>1, CallKeeps DEF SetLinks, Begins, Calls, Functions
<1>6. CASE delete_inode(t)
  BY <1>0, <1>6, CallKeeps, BlankType DEF delete_inode, Begins, Calls, Functions
<1> QED
  BY <1>1, <1>2, <1>3, <1>4, <1>5, <1>6 DEF Begin

\* A thread that returns is at no access any more.
LEMMA ReturnKeeps ==
  ASSUME OneThread, Inv, NEW t \in Thread,
         NEW n \in Number \union {-1}, NEW ok \in BOOLEAN, NEW node \in Inode,
         Return(t, n, ok, node),
         op[t].call = "loadINodeFromDisk" /\ ok => n \in Number /\ node.is_allocated,
         disk' \in Table, fs_ptr' \in Block, created' \in [Thread -> SUBSET Number],
         crashes' \in 0 .. MaxCrashes, faults' \in 0 .. MaxFaults
  PROVE  Inv'
<1> USE DEF Inv
<1>0. \A s \in Thread : s = t
  BY DEF OneThread
<1> DEFINE given == [call |-> op[t].call, num |-> n, ok |-> ok, node |-> node]
<1>1. op' = [op EXCEPT ![t] = Idle] /\ answer' = [answer EXCEPT ![t] = given]
  BY DEF Return
<1>2. op[t] \in Op
  BY DEF TypeOK
<1>3. given \in Answer
  BY <1>2 DEF Answer, Op
<1>4. Idle \in Op
  BY BlankType DEF Idle, Op, Functions
<1> HIDE DEF given
<1>5. op' \in [Thread -> Op] /\ op'[t] = Idle /\ answer' \in [Thread -> Answer] /\ answer'[t] = given
  BY <1>1, <1>3, <1>4 DEF TypeOK
<1>6. TypeOK'
  BY <1>5 DEF TypeOK
<1>7. Undisturbed' /\ Purpose'
  BY <1>0, <1>5 DEF Undisturbed, Purpose, Idle
<1>8. Located'
  BY <1>0, <1>5 DEF Located, Idle, Loaded, given
<1> QED
  BY <1>6, <1>7, <1>8

\* loadINodeFromDisk reads the block of its number.
LEMMA LoadKeeps ==
  ASSUME OneThread, Inv, NEW t \in Thread, Load(t)
  PROVE  Inv'
<1> USE DEF Inv
<1> DEFINE node == disk[fs_ptr][OffsetOf(op[t].num)]
<1>1. op[t].pc = "read" /\ op[t].num \in Number /\ fs_ptr = BlockOf(op[t].num)
  BY DEF Load, At, Located, Undisturbed
<1>2. fs_ptr \in 1 .. (INODE_BLOCK_COUNT - 1) /\ OffsetOf(op[t].num) \in Offset
  BY <1>1, Geometry
<1>3. node \in Inode /\ fs_ptr + 1 \in Block
  BY <1>2, BlockRange DEF TypeOK, Table
<1>4. /\ UNCHANGED <<disk, created, crashes, faults>> /\ fs_ptr' = fs_ptr + 1
      /\ \/ node.is_allocated /\ Return(t, op[t].num, TRUE, node)
         \/ Return(t, op[t].num, FALSE, Blank)
  BY DEF Load
<1>5. /\ disk' \in Table /\ fs_ptr' \in Block /\ created' \in [Thread -> SUBSET Number]
      /\ crashes' \in 0 .. MaxCrashes /\ faults' \in 0 .. MaxFaults
  BY <1>3, <1>4 DEF TypeOK
<1> HIDE DEF node
<1> QED
  BY <1>1, <1>3, <1>4, <1>5, BlankType, ReturnKeeps

\* The other functions fill their buffer with the block of their number.
LEMMA ReadKeeps ==
  ASSUME OneThread, Inv, NEW t \in Thread, Read(t)
  PROVE  Inv'
<1> USE DEF Inv
<1>0. \A s \in Thread : s = t
  BY DEF OneThread
<1>1. /\ op[t].pc = "read" /\ op[t].num \in Number
      /\ op[t].block = BlockOf(op[t].num) /\ fs_ptr = op[t].block
      /\ op[t].call \in Calls /\ op[t].call # "loadINodeFromDisk"
  BY DEF Read, At, Located, Undisturbed
<1>2. fs_ptr \in Block /\ fs_ptr + 1 \in Block
  BY <1>1, Geometry, BlockRange
<1>3. [op[t] EXCEPT !.pc = "writeSeek", !.buffer = disk[fs_ptr]] \in Op
  BY <1>2 DEF TypeOK, Op, Table
<1>4. op' \in [Thread -> Op] /\ op'[t] = [op[t] EXCEPT !.pc = "writeSeek", !.buffer = disk[fs_ptr]]
  BY <1>3 DEF TypeOK, Read
<1>5. TypeOK'
  BY <1>2, <1>4 DEF TypeOK, Read
<1>6. /\ op'[t].pc = "writeSeek" /\ op'[t].num = op[t].num /\ op'[t].block = op[t].block
      /\ op'[t].call = op[t].call /\ op'[t].node = op[t].node /\ op'[t].buffer = disk[op[t].block]
      /\ disk' = disk /\ answer' = answer
  <2> DEFINE o == op[t]
             p == op'[t]
  <2>1. o \in Op /\ p = [o EXCEPT !.pc = "writeSeek", !.buffer = disk[fs_ptr]] /\ fs_ptr = o.block
    BY <1>1, <1>4 DEF TypeOK
  <2> HIDE DEF o, p
  <2>2. /\ p.pc = "writeSeek" /\ p.num = o.num /\ p.block = o.block /\ p.call = o.call
        /\ p.node = o.node /\ p.buffer = disk[o.block]
    BY <2>1 DEF Op
  <2> QED
    BY <2>2 DEF Read, o, p
<1>7. Undisturbed'
  BY <1>0, <1>1, <1>6 DEF Undisturbed
<1>8. Located'
  BY <1>0, <1>1, <1>6 DEF Located, Loaded
<1>9. Purpose'
  BY <1>0, <1>1, <1>6 DEF Purpose, Loaded, Entry
<1> QED
  BY <1>5, <1>7, <1>8, <1>9

\* What a function puts into its buffer is an inode.
LEMMA EditType ==
  ASSUME NEW call \in Calls \ {"loadINodeFromDisk"}, NEW old \in Inode, NEW node \in Inode
  PROVE  Edit(call, old, node) \in Inode
<1>1. CASE call = "createInode"
  <2>0. 0 \in 0 .. MaxLinks
    BY TableAssumption
  <2>1. [old EXCEPT !.is_allocated = TRUE, !.linkCount = 0] \in Inode
    BY <2>0 DEF Inode
  <2>2. Edit("createInode", old, node) = [old EXCEPT !.is_allocated = TRUE, !.linkCount = 0]
    BY DEF Edit, Taken, Deleted
  <2>3. QED
    BY <1>1, <2>1, <2>2
<1>2. CASE call = "writeINodeToDisk"
  BY <1>2 DEF Edit
<1>3. CASE call = "delete_inode"
  BY <1>3, BlankType DEF Edit, Deleted, Inode
<1> QED
  BY <1>1, <1>2, <1>3 DEF Calls, Functions

\* The write of the buffer goes to the block that it was read from.
LEMMA WriteKeeps ==
  ASSUME OneThread, Inv, NEW t \in Thread, Write(t)
  PROVE  Inv'
<1> USE DEF Inv
<1> DEFINE n == op[t].num
           o == OffsetOf(n)
           edited == [op[t].buffer EXCEPT ![o] = Edit(op[t].call, op[t].buffer[o], op[t].node)]
<1>1. /\ op[t].pc = "write" /\ n \in Number /\ fs_ptr = BlockOf(n) /\ o \in Offset
      /\ op[t].call \in Calls \ {"loadINodeFromDisk"}
  BY Geometry DEF Write, At, Located, Undisturbed
<1>2. fs_ptr \in Block /\ fs_ptr + 1 \in Block
  BY <1>1, Geometry, BlockRange
<1>3. edited \in [Offset -> Inode]
  BY <1>1, EditType DEF TypeOK, Op
<1>4. /\ disk' = [disk EXCEPT ![fs_ptr] = edited] /\ fs_ptr' = fs_ptr + 1
      /\ Return(t, n, TRUE, Blank) /\ UNCHANGED <<crashes, faults>>
  BY DEF Write
<1> HIDE DEF edited
<1>5. disk' \in Table /\ fs_ptr' \in Block /\ crashes' \in 0 .. MaxCrashes /\ faults' \in 0 .. MaxFaults
  BY <1>2, <1>3, <1>4 DEF TypeOK, Table
<1>6. created' \in [Thread -> SUBSET Number]
  <2>1. created \in [Thread -> SUBSET Number] /\ \A s \in Thread : created[s] \ {n} \in SUBSET Number
    BY DEF TypeOK
  <2>2. [created EXCEPT ![t] = @ \union {n}] \in [Thread -> SUBSET Number]
    BY <1>1, <2>1
  <2>3. [s \in Thread |-> created[s] \ {n}] \in [Thread -> SUBSET Number]
    BY <2>1
  <2>4. \/ created' = [created EXCEPT ![t] = @ \union {n}]
        \/ created' = [s \in Thread |-> created[s] \ {n}]
        \/ created' = created
    BY DEF Write
  <2>5. QED
    BY <2>1, <2>2, <2>3, <2>4
<1> QED
  BY <1>1, <1>4, <1>5, <1>6, BlankType, ReturnKeeps

\* A read or a write that fails leaves the table and ends the call.
LEMMA FaultKeeps ==
  ASSUME OneThread, Inv, NEW t \in Thread, Fault(t)
  PROVE  Inv'
<1> USE DEF Inv
<1>1. /\ disk' \in Table /\ fs_ptr' \in Block /\ created' \in [Thread -> SUBSET Number]
      /\ crashes' \in 0 .. MaxCrashes /\ faults' \in 0 .. MaxFaults
  BY TableAssumption DEF Fault, TypeOK
<1> QED
  BY <1>1, BlankType, ReturnKeeps DEF Fault

\* A crash leaves a table that any function can go on from.
LEMMA CrashKeeps ==
  ASSUME Inv, Crash
  PROVE  Inv'
<1> USE DEF Inv
<1>1. Idle \in Op /\ Nothing \in Answer /\ 1 \in Block
  BY BlankType, TableAssumption DEF Idle, Nothing, Op, Answer, Functions, Block
<1>2. crashes' \in 0 .. MaxCrashes
  BY TableAssumption DEF Crash, TypeOK
<1>3. TypeOK'
  BY <1>1, <1>2 DEF TypeOK, Crash
<1>4. Undisturbed' /\ Located' /\ Purpose'
  BY DEF Undisturbed, Located, Purpose, Crash, Idle, Nothing, Loaded
<1> QED
  BY <1>3, <1>4

\* The invariant is inductive when the handlers run one after the other.
THEOREM StepInv == ASSUME OneThread, Inv, [Next]_vars PROVE Inv'
<1>1. ASSUME NEW t \in Thread, Begin(t) PROVE Inv'
  BY <1>1, BeginKeeps
<1>2. ASSUME NEW t \in Thread, Access(t) PROVE Inv'
  BY <1>2, SeekKeeps, ScanReadKeeps, LoadKeeps, ReadKeeps, WriteKeeps DEF Access
<1>3. ASSUME NEW t \in Thread, Fault(t) PROVE Inv'
  BY <1>3, FaultKeeps
<1>4. CASE Crash
  BY <1>4, CrashKeeps
<1>5. CASE UNCHANGED vars
  BY <1>5 DEF vars, Inv, TypeOK, Undisturbed, Located, Purpose, Loaded, Entry
<1> QED
  BY <1>1, <1>2, <1>3, <1>4, <1>5 DEF Next

\* The invariant holds in every state that one thread reaches, whatever the
\* device and the crashes do.
THEOREM InvHolds == ASSUME OneThread PROVE Spec => []Inv
<1>1. Inv /\ [Next]_vars => Inv'
  BY StepInv
<1> QED
  BY <1>1, InitInv, PTL DEF Spec

\* Two numbers have two places in the table.
LEMMA Apart ==
  ASSUME NEW m \in Number, NEW n \in Number, BlockOf(m) = BlockOf(n), OffsetOf(m) = OffsetOf(n)
  PROVE  m = n
<1>1. m \in Nat /\ n \in Nat /\ INODES_PER_BLOCK \in Nat /\ INODES_PER_BLOCK >= 1
  BY TableAssumption DEF Number
<1>2. /\ m \div INODES_PER_BLOCK \in Nat /\ n \div INODES_PER_BLOCK \in Nat
      /\ m = (m \div INODES_PER_BLOCK) * INODES_PER_BLOCK + (m % INODES_PER_BLOCK)
      /\ n = (n \div INODES_PER_BLOCK) * INODES_PER_BLOCK + (n % INODES_PER_BLOCK)
  BY <1>1, DivMod
<1>3. m \div INODES_PER_BLOCK = n \div INODES_PER_BLOCK /\ m % INODES_PER_BLOCK = n % INODES_PER_BLOCK
  BY <1>2 DEF BlockOf, OffsetOf
<1> QED
  BY <1>2, <1>3

\* A write changes the inode of its number and no other, though it writes the
\* whole block.
LEMMA WriteEffect ==
  ASSUME OneThread, Inv, NEW t \in Thread, Write(t), NEW m \in Number
  PROVE  Entry(m)' = IF m = op[t].num THEN Edit(op[t].call, Entry(m), op[t].node) ELSE Entry(m)
<1> DEFINE n == op[t].num
           o == OffsetOf(n)
           edited == [op[t].buffer EXCEPT ![o] = Edit(op[t].call, op[t].buffer[o], op[t].node)]
<1>1. /\ n \in Number /\ fs_ptr = BlockOf(n) /\ o \in Offset /\ op[t].buffer = disk[BlockOf(n)]
      /\ BlockOf(n) \in Block
  BY Geometry, BlockRange DEF Inv, Write, At, Located, Undisturbed
<1>2. /\ disk' = [disk EXCEPT ![fs_ptr] = edited]
      /\ disk \in Table /\ op[t].buffer \in [Offset -> Inode]
  BY DEF Write, Inv, TypeOK, Op
<1>3. BlockOf(m) \in Block /\ OffsetOf(m) \in Offset
  BY Geometry, BlockRange
<1>4. Entry(m)' = disk'[BlockOf(m)][OffsetOf(m)]
  BY DEF Entry, BlockOf, OffsetOf
<1>5. CASE m = n
  BY <1>1, <1>2, <1>4, <1>5 DEF Entry, Table
<1>6. CASE BlockOf(m) # BlockOf(n)
  BY <1>1, <1>2, <1>3, <1>4, <1>6 DEF Entry, Table
<1>7. CASE BlockOf(m) = BlockOf(n) /\ OffsetOf(m) # o
  BY <1>1, <1>2, <1>3, <1>4, <1>7 DEF Entry, Table
<1> QED
  BY <1>1, <1>5, <1>6, <1>7, Apart

\* A scan that ends without a number has passed every usable number: those of
\* the blocks before it, and those before the free inode whose number is not valid.
LEMMA ScanEnd ==
  ASSUME OneThread, Inv, NEW t \in Thread, At(t, "scanRead"),
         LET free == FreeOffsets(disk[fs_ptr])
         IN  IF free = {} THEN op[t].block + 1 >= INODE_BLOCK_COUNT
             ELSE NumberAt(op[t].block, First(free)) \notin Number,
         NEW m \in Number
  PROVE  Entry(m).is_allocated
<1> DEFINE b == op[t].block
           free == FreeOffsets(disk[b])
           p == INODES_PER_BLOCK
           q == m \div p
           r == m % p
<1>1. /\ fs_ptr = b /\ b \in 1 .. (INODE_BLOCK_COUNT - 1)
      /\ \A c \in 1 .. (b - 1) : FreeOffsets(disk[c]) = {}
  BY DEF Inv, Undisturbed, Located, At
<1>2. /\ m \in Nat /\ m < INODE_BLOCK_COUNT /\ p \in Nat /\ p >= 2
      /\ q \in Nat /\ r \in 0 .. (p - 1) /\ m = q * p + r
      /\ BlockOf(m) = q + 1 /\ OffsetOf(m) = r
  <2>1. m \in Nat /\ m < INODE_BLOCK_COUNT /\ p \in Nat /\ p >= 2 /\ p >= 1
    BY TableAssumption DEF Number
  <2>2. q \in Nat /\ r \in 0 .. (p - 1) /\ m = q * p + r
    BY <2>1, DivMod
  <2>3. QED
    BY <2>1, <2>2 DEF BlockOf, OffsetOf
<1>3. BlockOf(m) \in 1 .. (INODE_BLOCK_COUNT - 1) /\ OffsetOf(m) \in Offset
  BY Geometry
<1>4. ASSUME FreeOffsets(disk[BlockOf(m)]) = {} PROVE Entry(m).is_allocated
  BY <1>3, <1>4 DEF Entry, FreeOffsets
<1>5. CASE BlockOf(m) < b
  BY <1>1, <1>3, <1>4, <1>5
<1>6. CASE BlockOf(m) >= b /\ free = {}
  <2>1. b + 1 >= INODE_BLOCK_COUNT
    BY <1>1, <1>6
  <2>2. BlockOf(m) = b
    BY <1>1, <1>3, <1>6, <2>1, TableAssumption
  <2>3. QED
    BY <1>4, <1>6, <2>2
<1>7. CASE BlockOf(m) >= b /\ free # {}
  <2>1. free \in SUBSET Offset /\ Offset \in SUBSET Nat
    BY TableAssumption DEF FreeOffsets, Offset
  <2>2. First(free) \in free /\ \A f \in free : First(free) <= f
    BY <1>7, <2>1, FirstIsLeast
  <2>3. First(free) \in 0 .. (p - 1)
    BY <2>1, <2>2 DEF Offset
  <2>4. NumberAt(b, First(free)) \notin Number /\ NumberAt(b, First(free)) = (b - 1) * p + First(free)
    BY <1>1, <1>7 DEF NumberAt
  <2> HIDE DEF p, q, r, free, b
  <2>5. (b - 1) * p \in Nat
    BY <1>1, <1>2, TableAssumption
  <2>6. (b - 1) * p + First(free) >= INODE_BLOCK_COUNT
    BY <1>2, <2>3, <2>4, <2>5, TableAssumption DEF Number
  <2>7. m < (b - 1) * p + First(free)
    BY <1>2, <2>3, <2>5, <2>6, TableAssumption
  <2>8. q = b - 1
    <3>1. q >= b - 1
      BY <1>1, <1>2, <1>7, TableAssumption
    <3>2. ASSUME q >= b PROVE FALSE
      <4>1. q - b \in Nat /\ b \in Nat
        BY <1>1, <1>2, <3>2, TableAssumption
      <4>2. (q - b) * p \in Nat /\ q * p = (q - b) * p + (b - 1) * p + p
        BY <1>2, <4>1
      <4>3. QED
        BY <1>2, <2>3, <2>5, <2>7, <4>2
    <3>3. QED
      BY <1>1, <1>2, <3>1, <3>2, TableAssumption
  <2>9. r < First(free)
    BY <1>2, <2>3, <2>5, <2>7, <2>8
  <2>10. r \notin free
    BY <1>2, <2>2, <2>3, <2>9
  <2>11. BlockOf(m) = b /\ OffsetOf(m) = r
    BY <1>1, <1>2, <2>8, TableAssumption
  <2>12. QED
    BY <1>3, <2>10, <2>11 DEF free, Entry, FreeOffsets
<1> QED
  BY <1>1, <1>3, <1>5, <1>6, <1>7, TableAssumption

\* The inodes of the table, by number.
inodes == [n \in Number |-> disk[BlockOf(n)][OffsetOf(n)]]

\* The table under its numbers is a function to inodes.
LEMMA Inodes ==
  ASSUME Inv
  PROVE  /\ inodes \in [Number -> Inode]
         /\ \A n \in Number : inodes[n] = Entry(n)
<1>1. ASSUME NEW n \in Number PROVE disk[BlockOf(n)][OffsetOf(n)] \in Inode
  BY <1>1, Geometry, BlockRange DEF Inv, TypeOK, Table
<1> QED
  BY <1>1 DEF inodes, Entry

\* Steps that leave the table, the answers and the count of faults are not
\* visible to the handlers.
LEMMA Unseen ==
  ASSUME UNCHANGED <<disk, answer, faults>>
  PROVE  UNCHANGED Store!vars
  BY DEF Store!vars, BlockOf, OffsetOf

\* loadINodeFromDisk returns what is stored under the number.
LEMMA ReadBack ==
  ASSUME OneThread, Inv, NEW t \in Thread, Load(t)
  PROVE  Store!Next
<1> DEFINE n == op[t].num
<1>1. /\ n \in Number /\ fs_ptr = BlockOf(n) /\ op[t].call = "loadINodeFromDisk"
  BY DEF Inv, Load, At, Located, Undisturbed
<1>2. disk[fs_ptr][OffsetOf(n)] = inodes[n]
  BY <1>1, Inodes DEF Entry
<1>3. UNCHANGED <<disk, faults>>
  BY DEF Load
<1>4. UNCHANGED <<inodes, faults>>
  BY <1>3 DEF inodes, BlockOf, OffsetOf
<1>5. IF inodes[n].is_allocated THEN Store!Answer(t, "loadINodeFromDisk", n, TRUE, inodes[n])
      ELSE Store!Answer(t, "loadINodeFromDisk", n, FALSE, Blank)
  BY <1>1, <1>2 DEF Load, Return, Store!Answer
<1>6. Store!Load(t, n)
  BY <1>1, <1>4, <1>5 DEF Store!Load, inodes
<1> QED
  BY <1>1, <1>6 DEF Store!Next

\* createInode returns -1 only when every inode is allocated.
LEMMA Refused ==
  ASSUME OneThread, Inv, NEW t \in Thread, ScanRead(t)
  PROVE  Store!Next \/ UNCHANGED Store!vars
<1> DEFINE free == FreeOffsets(disk[fs_ptr])
           n == NumberAt(op[t].block, First(free))
           end == IF free = {} THEN op[t].block + 1 >= INODE_BLOCK_COUNT ELSE n \notin Number
<1>1. UNCHANGED <<disk, faults>> /\ At(t, "scanRead") /\ op[t].call = "createInode"
  BY DEF ScanRead, Inv, Located, At
<1>2. UNCHANGED answer \/ (end /\ Return(t, -1, FALSE, Blank))
  BY DEF ScanRead
<1>3. CASE UNCHANGED answer
  BY <1>1, <1>3, Unseen
<1>4. CASE end /\ Return(t, -1, FALSE, Blank)
  <2>1. \A m \in Number : inodes[m].is_allocated
    BY <1>1, <1>4, ScanEnd, Inodes
  <2>2. Store!Answer(t, "createInode", -1, FALSE, Blank)
    BY <1>1, <1>4 DEF Return, Store!Answer
  <2>3. UNCHANGED <<inodes, faults>>
    BY <1>1 DEF inodes, BlockOf, OffsetOf
  <2>4. Store!Refuse(t)
    BY <2>1, <2>2, <2>3 DEF Store!Refuse, inodes
  <2>5. QED
    BY <2>4 DEF Store!Next
<1> QED
  BY <1>2, <1>3, <1>4

\* WriteEffect, for the whole table.
LEMMA WriteEffects ==
  ASSUME OneThread, Inv, NEW t \in Thread, Write(t)
  PROVE  inodes' = [inodes EXCEPT ![op[t].num] = Edit(op[t].call, inodes[op[t].num], op[t].node)]
<1>1. \A m \in Number : inodes'[m] = Entry(m)'
  BY DEF inodes, Entry, BlockOf, OffsetOf
<1>2. \A m \in Number :
        inodes'[m] = IF m = op[t].num THEN Edit(op[t].call, inodes[m], op[t].node) ELSE inodes[m]
  BY <1>1, WriteEffect, Inodes
<1> QED
  BY <1>2 DEF inodes

\* The write of the block is the effect of the call.
LEMMA Written ==
  ASSUME OneThread, Inv, NEW t \in Thread, Write(t)
  PROVE  Store!Next
<1> DEFINE n == op[t].num
           call == op[t].call
           node == op[t].node
<1>1. /\ n \in Number /\ op[t].pc = "write" /\ call \in Calls \ {"loadINodeFromDisk"} /\ node \in Inode
      /\ inodes \in [Number -> Inode]
  BY Inodes DEF Inv, Located, Write, At, TypeOK, Op
<1>2. inodes' = [inodes EXCEPT ![n] = Edit(call, inodes[n], node)]
  BY WriteEffects
<1>3. Store!Answer(t, call, n, TRUE, Blank) /\ UNCHANGED faults
  BY DEF Write, Return, Store!Answer
<1>4. /\ call = "createInode" => ~inodes[n].is_allocated
      /\ call \in {"writeINodeToDisk", "delete_inode"} => Loaded(t) /\ answer[t].num = n
      /\ call = "writeINodeToDisk" =>
           /\ node.is_allocated
           /\ node.i_mode = answer[t].node.i_mode \/ node.linkCount = answer[t].node.linkCount
  BY <1>1, Inodes DEF Inv, Purpose
<1> HIDE DEF n, call, node
<1>5. CASE call = "createInode"
  <2>1. Edit("createInode", inodes[n], node) = [inodes[n] EXCEPT !.is_allocated = TRUE, !.linkCount = 0]
    BY DEF Edit, Taken, Deleted
  <2>2. inodes' = [inodes EXCEPT ![n].is_allocated = TRUE, ![n].linkCount = 0]
    BY <1>1, <1>2, <1>5, <2>1
  <2>3. Store!Create(t, n)
    BY <1>3, <1>4, <1>5, <2>2 DEF Store!Create, inodes
  <2>4. QED
    BY <1>1, <2>3 DEF Store!Next
<1>6. CASE call = "writeINodeToDisk"
  <2>1. Edit("writeINodeToDisk", inodes[n], node) = node
    BY DEF Edit
  <2>2. Store!Write(t, n)
    BY <1>1, <1>2, <1>3, <1>4, <1>6, <2>1 DEF Store!Write, inodes, Loaded
  <2>3. QED
    BY <1>1, <2>2 DEF Store!Next
<1>7. CASE call = "delete_inode"
  <2>1. Edit("delete_inode", inodes[n], node) = [Blank EXCEPT !.i_mode = inodes[n].i_mode]
    BY DEF Edit, Taken, Deleted
  <2>2. Store!Delete(t, n)
    BY <1>1, <1>2, <1>3, <1>4, <1>7, <2>1 DEF Store!Delete, inodes, Loaded
  <2>3. QED
    BY <1>1, <2>2 DEF Store!Next
<1> QED
  BY <1>1, <1>5, <1>6, <1>7 DEF Calls, Functions

\* A call that fails has no effect.
LEMMA Failed ==
  ASSUME OneThread, Inv, NEW t \in Thread, Fault(t)
  PROVE  Store!Next
<1>1. op[t].call \in {"createInode", "loadINodeFromDisk", "writeINodeToDisk", "delete_inode"}
  BY DEF Inv, Fault, Located, Calls, Functions
<1>2. UNCHANGED inodes
  BY DEF Fault, inodes, BlockOf, OffsetOf
<1>3. Store!Answer(t, op[t].call, -1, FALSE, Blank) /\ faults' = faults + 1
  BY DEF Fault, Return, Store!Answer
<1>4. Store!Fail(t)
  BY <1>1, <1>2, <1>3 DEF Store!Fail, inodes
<1> QED
  BY <1>4 DEF Store!Next

\* The zeroed table is a store in which all inodes are free.
LEMMA InitStore == Init => Store!Init
<1> SUFFICES ASSUME Init PROVE Store!Init
  OBVIOUS
<1>1. \A n \in Number : disk[BlockOf(n)][OffsetOf(n)] = Blank
  BY Geometry, BlockRange DEF Init, BlankBlock
<1>2. [n \in Number |-> disk[BlockOf(n)][OffsetOf(n)]] \in [Number -> {i \in Inode : ~i.is_allocated}]
  BY <1>1, BlankType DEF Blank
<1> QED
  BY <1>2 DEF Init, Store!Init, Nothing, Store!Nothing

\* With one thread the table is a store of inodes: a creation takes a free inode
\* and is refused only when there is none, a load returns what was written last,
\* and a call that fails or is cut by a crash changes nothing or all it has to
\* (inode.cpp).
THEOREM StoreCorrect == ASSUME OneThread PROVE Spec => ImplementsStore
<1>1. ASSUME Inv, NEW t \in Thread, Begin(t) PROVE Store!Next \/ UNCHANGED Store!vars
  <2>1. CASE LoadInvalid(t, -1)
    <3>1. Store!Answer(t, "loadINodeFromDisk", -1, FALSE, Blank) /\ UNCHANGED <<disk, faults>>
      BY <2>1 DEF LoadInvalid, Store!Answer
    <3>2. -1 \notin Number
      BY TableAssumption DEF Number
    <3>3. Store!Load(t, -1)
      BY <3>1, <3>2 DEF Store!Load, BlockOf, OffsetOf
    <3>4. QED
      BY <3>3 DEF Store!Next
  <2>2. CASE UNCHANGED <<disk, answer, faults>>
    BY <2>2, Unseen
  <2>3. QED
    BY <1>1, <2>1, <2>2 DEF Begin, createInode, CallLoad, fs_chmod, SetLinks, delete_inode, Call
<1>2. ASSUME Inv, NEW t \in Thread, Access(t) PROVE Store!Next \/ UNCHANGED Store!vars
  <2>1. CASE UNCHANGED <<disk, answer, faults>>
    BY <2>1, Unseen
  <2>2. CASE ScanRead(t)
    BY <1>2, <2>2, Refused
  <2>3. CASE Load(t)
    BY <1>2, <2>3, ReadBack
  <2>4. CASE Write(t)
    BY <1>2, <2>4, Written
  <2>5. QED
    BY <1>2, <2>1, <2>2, <2>3, <2>4 DEF Access, Seek, Read
<1>3. ASSUME Inv, NEW t \in Thread, Fault(t) PROVE Store!Next
  BY <1>3, Failed
<1>4. Crash => Store!Next
  BY DEF Crash, Store!Next, Store!Restart, Nothing, Store!Nothing, BlockOf, OffsetOf
<1>5. UNCHANGED vars => UNCHANGED Store!vars
  BY Unseen DEF vars
<1>6. Inv /\ [Next]_vars => [Store!Next]_Store!vars
  BY <1>1, <1>2, <1>3, <1>4, <1>5 DEF Next
<1> QED
  BY <1>6, InitStore, InvHolds, PTL DEF Spec, ImplementsStore, Store!Spec

\* With one thread every number is one that inodeNum_valid accepts, and the offset
\* stays on the device.
THEOREM TypeCorrect == ASSUME OneThread PROVE Spec => []TypeOK
<1>1. Inv => TypeOK
  BY DEF Inv
<1> QED
  BY <1>1, InvHolds, PTL
=============================================================================
