----------------------------- MODULE BootProofs -----------------------------
(***************************************************************************)
(* Theorems about set-up and boot, for every size of the device and every  *)
(* count of starts, crashes and failed accesses: whatever stopped the      *)
(* programs before, what is mounted is a whole root directory.             *)
(***************************************************************************)
EXTENDS Boot, Facts

Programs == {"off", "superblock", "ilist", "load", "find", "create",
             "block", "dot", "dotdot", "root", "mounted"}

Inode == [is_allocated : BOOLEAN, filesCount : 0 .. 2,
          blocks : {<< >>} \union {<<b>> : b \in Block}]

Device == [sb : Superblock, inode : [Number -> Inode], entries : [Block -> Seq(Entry)]]

\* The types of all the variables that the steps depend on.
Typed ==
  /\ disk \in Device /\ \A b \in Block : Len(disk.entries[b]) <= 2
  /\ fs_superblock \in Superblock
  /\ pc \in Programs
  /\ k \in 1 .. INODE_BLOCK_COUNT
  /\ ROOT_DIR_INODE_NUM \in Nat /\ ROOT_DIR_INODE_NUM < INODE_BLOCK_COUNT
  /\ node \in Inode
  /\ ready \in BOOLEAN /\ flawed \in BOOLEAN /\ torn \in BOOLEAN
  /\ home \in Int

DotOf(n) == [name |-> "dot", inum |-> n]

DotDotOf(n) == [name |-> "dotdot", inum |-> n]

\* An inode that is a root directory from end to end.
Whole(n) ==
  /\ disk.inode[n].is_allocated /\ disk.inode[n].filesCount = 2
  /\ \E b \in Block :
       /\ disk.inode[n].blocks = <<b>>
       /\ disk.entries[b] = <<DotOf(n), DotDotOf(n)>>
       /\ disk.sb.inodes_count # 0 => b < disk.sb.maxAlloc

\* After a set-up, an inode that counts entries is a whole root directory.
Roots == ready => \A n \in Number : disk.inode[n].filesCount # 0 => Whole(n)

\* A set-up that is not over, and what it has cleared.
Clearing ==
  /\ pc \in {"superblock", "ilist"} => ~ready
  /\ pc = "superblock" => k = 1
  /\ pc = "ilist" => \A n \in Number : BlockOf(n) < k => disk.inode[n] = Zeroed

\* The superblock in memory is the disk's, or all zero when the start is flawed.
Remembered ==
  /\ disk.sb.inodes_count = 0 => disk.sb.maxAlloc = 0
  /\ pc \in {"find", "create", "block", "dot", "dotdot", "root", "mounted"} =>
       /\ fs_superblock \in {disk.sb, Nothing}
       /\ ~flawed => fs_superblock = disk.sb /\ fs_superblock.inodes_count # 0

\* The root directory a start is making: its inode counts no entries on the disk,
\* and no other root directory has its block.
Making ==
  /\ TookInode =>
       /\ node.is_allocated
       /\ disk.inode[ROOT_DIR_INODE_NUM].is_allocated
       /\ ready => disk.inode[ROOT_DIR_INODE_NUM].filesCount = 0
       /\ node.filesCount = IF pc = "root" THEN 2 ELSE IF pc = "dotdot" THEN 1 ELSE 0
  /\ pc \in {"dot", "dotdot", "root"} =>
       \E b \in Block :
         /\ node.blocks = <<b>>
         /\ fs_superblock = disk.sb /\ b < disk.sb.maxAlloc
         /\ pc = "dotdot" => disk.entries[b] = <<DotOf(ROOT_DIR_INODE_NUM)>>
         /\ pc = "root" => disk.entries[b] = <<DotOf(ROOT_DIR_INODE_NUM), DotDotOf(ROOT_DIR_INODE_NUM)>>
         /\ ready => \A n \in Number : disk.inode[n].filesCount # 0 => disk.inode[n].blocks # <<b>>

\* What is mounted is inode 0 or what this start has made.
Chosen ==
  /\ pc \in {"load", "find", "create"} => ROOT_DIR_INODE_NUM = 0
  /\ pc = "mounted" /\ ready /\ ~flawed => disk.inode[ROOT_DIR_INODE_NUM].filesCount # 0

\* Where the first root mounted since the set-up is, as long as no start was torn.
Homed ==
  ready /\ ~torn =>
    /\ ~TookInode => \/ disk.inode[0].filesCount # 0 /\ home = 0
                     \/ ~disk.inode[0].is_allocated /\ home = -1
    /\ TookInode => \/ ROOT_DIR_INODE_NUM = 0 /\ home = -1
                    \/ /\ flawed /\ ROOT_DIR_INODE_NUM # 0
                       /\ disk.inode[0].filesCount # 0 /\ home = 0
    /\ pc = "create" /\ ~flawed => ~disk.inode[0].is_allocated
    /\ pc = "mounted" /\ ~flawed => ROOT_DIR_INODE_NUM = home

Inv == Typed /\ Roots /\ Clearing /\ Remembered /\ Making /\ Chosen /\ Homed

-----------------------------------------------------------------------------
(* Numbers, blocks and entries *)

LEMMA Product ==
  ASSUME NEW a \in Nat, NEW b \in Nat, a >= b, NEW p \in Nat, p >= 1
  PROVE  a * p \in Nat /\ a * p >= b * p /\ a * p >= a
  OBVIOUS

LEMMA Numbers ==
  /\ INODE_BLOCK_COUNT * INODES_PER_BLOCK \in Nat \ {0}
  /\ 0 \in Number /\ Number \subseteq Nat
  /\ \A n \in Nat : n < INODE_BLOCK_COUNT => n \in Number
<1>1. INODE_BLOCK_COUNT * INODES_PER_BLOCK \in Nat
      /\ INODE_BLOCK_COUNT * INODES_PER_BLOCK >= INODE_BLOCK_COUNT
  BY Product, BootAssumption
<1> QED
  BY <1>1, BootAssumption DEF Number

\* The inode blocks that set-up writes hold every inode.
LEMMA Located ==
  ASSUME NEW n \in Number
  PROVE  BlockOf(n) \in 1 .. INODE_BLOCK_COUNT
<1> DEFINE q == n \div INODES_PER_BLOCK
<1>1. n \in Nat /\ n < INODE_BLOCK_COUNT * INODES_PER_BLOCK
  BY Numbers DEF Number
<1>2. q \in Nat /\ q * INODES_PER_BLOCK <= n
  BY <1>1, BootAssumption
<1>3. q >= INODE_BLOCK_COUNT => q * INODES_PER_BLOCK >= INODE_BLOCK_COUNT * INODES_PER_BLOCK
  BY <1>2, Product, BootAssumption
<1>4. q < INODE_BLOCK_COUNT
  BY <1>1, <1>2, <1>3, BootAssumption, Product
<1> QED
  BY <1>2, <1>4, BootAssumption DEF BlockOf

LEMMA FirstBlock == BlockOf(0) = 1
  BY BootAssumption DEF BlockOf

LEMMA Sizes ==
  /\ Nothing \in Superblock /\ Created \in Superblock /\ Created.inodes_count # 0
  /\ Zeroed \in Inode
  /\ 0 < INODE_BLOCK_COUNT /\ 1 \in 1 .. INODE_BLOCK_COUNT
  /\ FirstDataBlock \in Nat /\ FirstDataBlock # 0 /\ Block \subseteq Nat
  /\ \A b \in Block : b # 0 /\ b + 1 \in 0 .. NUM_OF_DATA_BLOCKS
  BY Numbers, BootAssumption
     DEF Nothing, Created, Superblock, Zeroed, Inode, FirstDataBlock, Block

LEMMA Names ==
  ASSUME NEW n \in Number
  PROVE  DotOf(n) \in Entry /\ DotDotOf(n) \in Entry
  BY DEF DotOf, DotDotOf, Entry

\* A second entry behind a first one.
LEMMA AppendSecond ==
  ASSUME NEW S, NEW a \in S, NEW b \in S
  PROVE  Append(<<a>>, b) = <<a, b>>
<1>1. /\ <<a>> \in Seq(S) /\ Len(<<a>>) = 1
      /\ <<a, b>> \in Seq(S) /\ Len(<<a, b>>) = 2
  OBVIOUS
<1>2. /\ Append(<<a>>, b) \in Seq(S) /\ Len(Append(<<a>>, b)) = 2
      /\ Append(<<a>>, b)[1] = a /\ Append(<<a>>, b)[2] = b
  BY <1>1, AppendProperties
<1>3. \A i \in 1 .. 2 : Append(<<a>>, b)[i] = <<a, b>>[i]
  BY <1>2
<1> QED
  BY <1>1, <1>2, <1>3, SeqEqual

\* The set-up of a blank device can begin.
THEOREM InitInv == Init => Inv
<1> SUFFICES ASSUME Init PROVE Inv OBVIOUS
<1>1. disk = [sb |-> Nothing, inode |-> [n \in Number |-> Zeroed], entries |-> [b \in Block |-> << >>]]
  BY DEF Init
<1>2. << >> \in Seq(Entry) /\ Len(<< >>) = 0
  OBVIOUS
<1>3. Typed
  <2>1. disk \in Device /\ \A b \in Block : Len(disk.entries[b]) <= 2
    BY <1>1, <1>2, Sizes DEF Device
  <2>2. /\ fs_superblock = Nothing /\ pc = "off" /\ k = 1 /\ ROOT_DIR_INODE_NUM = 0
        /\ node = Zeroed /\ home = -1
    BY DEF Init
  <2>3. ready \in BOOLEAN /\ flawed \in BOOLEAN /\ torn \in BOOLEAN
    BY DEF Init
  <2>4. QED
    BY <2>1, <2>2, <2>3, Sizes DEF Typed, Programs
<1>4. \A n \in Number : disk.inode[n].filesCount = 0 /\ ~disk.inode[n].is_allocated
  BY <1>1 DEF Zeroed
<1>5. Roots /\ Clearing /\ Remembered /\ Making /\ Chosen /\ Homed
  BY <1>1, <1>4 DEF Init, Roots, Clearing, Remembered, Nothing, Making, TookInode, Chosen, Homed
<1> QED BY <1>3, <1>5 DEF Inv

-----------------------------------------------------------------------------
(* The steps that leave the disk as it is *)

\* Whole reads nothing but the disk.
LEMMA WholeKept ==
  ASSUME disk' = disk, NEW n, Whole(n)
  PROVE  Whole(n)'
  BY DEF Whole

\* A program that ends, by itself or in a crash: only a start that holds an inode
\* leaves something behind, and it says so.
LEMMA FailKeeps ==
  ASSUME Inv, NEW taken \in BOOLEAN, Fail(taken), TookInode => taken
  PROVE  Inv'
<1> USE DEF Inv, Fail, Memory
<1>1. Typed'
  BY DEF Typed, Programs
<1>2. Roots'
  BY WholeKept DEF Roots
<1>3. Clearing' /\ Remembered' /\ Making' /\ Chosen'
  BY DEF Clearing, Remembered, Making, Chosen, TookInode
<1>4. Homed'
  BY DEF Typed, Homed, TookInode
<1> QED BY <1>1, <1>2, <1>3, <1>4

LEMMA SetUpKeeps == Inv /\ fs_init => Inv'
<1> SUFFICES ASSUME Inv, fs_init PROVE Inv' OBVIOUS
<1> USE DEF Inv, fs_init, Start, At
<1>1. Typed'
  BY Sizes DEF Typed, Programs
<1>2. Roots' /\ Clearing' /\ Remembered' /\ Making' /\ Chosen' /\ Homed'
  BY DEF Roots, Clearing, Remembered, Making, Chosen, Homed, TookInode
<1> QED BY <1>1, <1>2

LEMMA BootKeeps == Inv /\ bootUpFileSytem => Inv'
<1> SUFFICES ASSUME Inv, bootUpFileSytem PROVE Inv' OBVIOUS
<1> USE DEF Inv, bootUpFileSytem, Start, At
<1>1. Typed'
  BY Sizes DEF Typed, Programs
<1>2. Roots'
  BY WholeKept DEF Roots
<1>3. Clearing' /\ Remembered' /\ Making' /\ Chosen'
  BY DEF Clearing, Remembered, Making, Chosen, TookInode
<1>4. Homed'
  BY DEF Homed, TookInode
<1> QED BY <1>1, <1>2, <1>3, <1>4

LEMMA LoadKeeps == Inv /\ load_FS => Inv'
<1> SUFFICES ASSUME Inv, load_FS PROVE Inv' OBVIOUS
<1> USE DEF Inv
<1>1. CASE Fault /\ Fail(FALSE)
  BY <1>1, FailKeeps DEF load_FS, At, TookInode
<1>2. CASE ~(Fault /\ Fail(FALSE))
  <2>1. /\ pc = "load" /\ pc' = "find"
        /\ fs_superblock' \in {disk.sb, Nothing}
        /\ flawed' = (fs_superblock'.inodes_count = 0)
        /\ UNCHANGED <<disk, k, ROOT_DIR_INODE_NUM, node, ready, torn, home>>
    BY <1>2 DEF load_FS, At
  <2>2. Typed'
    BY <2>1, Sizes DEF Typed, Device, Programs
  <2>3. Roots'
    BY <2>1, WholeKept DEF Roots
  <2>4. Remembered'
    <3>1. ~flawed' => fs_superblock'.inodes_count # 0
      BY <2>1
    <3>2. Nothing.inodes_count = 0
      BY DEF Nothing
    <3>3. disk'.sb = disk.sb /\ fs_superblock' \in {disk.sb, Nothing}
      BY <2>1
    <3>4. QED
      BY <3>1, <3>2, <3>3 DEF Remembered
  <2>5. Clearing' /\ Making' /\ Chosen' /\ Homed'
    BY <2>1 DEF Clearing, Making, Chosen, Homed, TookInode
  <2> QED BY <2>2, <2>3, <2>4, <2>5
<1> QED BY <1>1, <1>2

LEMMA FindKeeps == Inv /\ FindRoot => Inv'
<1> SUFFICES ASSUME Inv, FindRoot PROVE Inv' OBVIOUS
<1> USE DEF Inv
<1>1. /\ pc = "find" /\ pc' \in {"create", "mounted"}
      /\ UNCHANGED <<disk, ready, torn, fs_superblock, k, ROOT_DIR_INODE_NUM, node>>
      /\ flawed' \in BOOLEAN /\ (~flawed' => ~flawed)
      /\ pc' = "create" => home' = home
      /\ pc' = "create" /\ ~flawed' =>
           ~(disk.inode[0].is_allocated /\ disk.inode[0].filesCount >= 2)
      /\ pc' = "mounted" =>
           /\ disk.inode[0].is_allocated /\ disk.inode[0].filesCount >= 2
           /\ home' = IF home = -1 THEN 0 ELSE home
  BY DEF FindRoot, At, Mounted, Memory, Typed, Fault, Bounds
<1>2. disk.inode[0] \in Inode
  BY Numbers DEF Typed, Device
<1>3. Typed'
  BY <1>1 DEF Typed, Programs
<1>4. Roots'
  BY <1>1, WholeKept DEF Roots
<1>5. Clearing' /\ Remembered' /\ Making' /\ Chosen'
  BY <1>1, <1>2 DEF Clearing, Remembered, Making, Chosen, TookInode, Inode
<1>6. Homed'
  <2>1. ready /\ disk.inode[0].filesCount # 0 =>
          disk.inode[0].is_allocated /\ disk.inode[0].filesCount = 2
    BY Numbers DEF Roots, Whole
  <2>2. ASSUME ready, ~torn
        PROVE  \/ disk.inode[0].filesCount # 0 /\ home = 0
               \/ ~disk.inode[0].is_allocated /\ home = -1
    BY <1>1, <2>2 DEF Homed, TookInode
  <2>3. ROOT_DIR_INODE_NUM = 0
    BY <1>1 DEF Chosen
  <2>4. QED
    BY <1>1, <1>2, <2>1, <2>2, <2>3 DEF Homed, TookInode, Inode
<1> QED BY <1>3, <1>4, <1>5, <1>6

-----------------------------------------------------------------------------
(* The steps of set-up *)

\* A new superblock, on a disk that is no longer set up.
LEMMA SuperblockKeeps == Inv /\ fs_create_superblock => Inv'
<1> SUFFICES ASSUME Inv, fs_create_superblock PROVE Inv' OBVIOUS
<1> USE DEF Inv
<1>1. CASE Fault /\ Fail(FALSE)
  BY <1>1, FailKeeps DEF fs_create_superblock, At, TookInode
<1>2. CASE ~(Fault /\ Fail(FALSE))
  <2>1. /\ pc = "superblock" /\ pc' = "ilist" /\ ~ready
        /\ disk' = [disk EXCEPT !.sb = Created]
        /\ UNCHANGED <<fs_superblock, k, ROOT_DIR_INODE_NUM, node, ready, flawed, torn, home>>
    BY <1>2 DEF fs_create_superblock, At, Memory, History, Clearing
  <2>2. disk' \in Device /\ disk'.sb = Created /\ disk'.inode = disk.inode /\ disk'.entries = disk.entries
    BY <2>1, Sizes DEF Typed, Device
  <2>3. Typed'
    BY <2>1, <2>2 DEF Typed, Programs
  <2>4. Clearing'
    <3>1. \A n \in Number : ~(BlockOf(n) < 1)
      BY Located
    <3>2. QED
      BY <2>1, <3>1 DEF Clearing
  <2>5. Remembered'
    BY <2>1, <2>2, Sizes DEF Remembered
  <2>6. Roots' /\ Making' /\ Chosen' /\ Homed'
    BY <2>1 DEF Roots, Making, Chosen, Homed, TookInode
  <2> QED BY <2>3, <2>4, <2>5, <2>6
<1> QED BY <1>1, <1>2

\* When the last block of inodes is cleared, every inode is free.
LEMMA IlistKeeps == Inv /\ fs_create_ilist => Inv'
<1> SUFFICES ASSUME Inv, fs_create_ilist PROVE Inv' OBVIOUS
<1> USE DEF Inv
<1>1. CASE Fault /\ Fail(FALSE)
  BY <1>1, FailKeeps DEF fs_create_ilist, At, TookInode
<1>2. CASE ~(Fault /\ Fail(FALSE))
  <2>1. /\ pc = "ilist" /\ ~ready
        /\ disk' = [disk EXCEPT !.inode = [n \in Number |-> IF BlockOf(n) = k THEN Zeroed ELSE @[n]]]
        /\ UNCHANGED <<fs_superblock, ROOT_DIR_INODE_NUM, node, flawed>>
        /\ \/ k = INODE_BLOCK_COUNT /\ pc' = "off" /\ k' = 1 /\ ready' = TRUE /\ torn' = FALSE /\ home' = -1
           \/ k # INODE_BLOCK_COUNT /\ k' = k + 1 /\ UNCHANGED <<pc, ready, torn, home>>
    BY <1>2 DEF fs_create_ilist, At, Clearing
  <2>2. /\ disk'.sb = disk.sb /\ disk'.entries = disk.entries
        /\ disk'.inode = [n \in Number |-> IF BlockOf(n) = k THEN Zeroed ELSE disk.inode[n]]
        /\ disk' \in Device
    <3>1. [n \in Number |-> IF BlockOf(n) = k THEN Zeroed ELSE disk.inode[n]] \in [Number -> Inode]
      BY Sizes DEF Typed, Device
    <3>2. QED
      BY <2>1, <3>1 DEF Typed, Device
  <2>3. Typed'
    <3>1. k' \in 1 .. INODE_BLOCK_COUNT
      BY <2>1, Sizes, BootAssumption DEF Typed
    <3>2. pc' \in Programs /\ home' \in Int
      BY <2>1 DEF Typed, Programs
    <3>3. ready' \in BOOLEAN /\ torn' \in BOOLEAN
      BY <2>1, Zenon DEF Typed
    <3>4. QED
      BY <2>1, <2>2, <3>1, <3>2, <3>3 DEF Typed
  <2>4. \A n \in Number : BlockOf(n) <= k => disk'.inode[n] = Zeroed
    <3>1. \A n \in Number : BlockOf(n) <= k => BlockOf(n) < k \/ BlockOf(n) = k
      BY Located DEF Typed
    <3>2. QED
      BY <2>1, <2>2, <3>1 DEF Clearing
  <2>5. CASE k = INODE_BLOCK_COUNT
    <3>1. \A n \in Number : disk'.inode[n] = Zeroed
      BY <2>4, <2>5, Located
    <3>2. \A n \in Number : disk'.inode[n].filesCount = 0 /\ ~disk'.inode[n].is_allocated
      BY <3>1 DEF Zeroed
    <3>3. QED
      BY <2>1, <2>2, <2>3, <2>5, <3>2, Numbers
         DEF Roots, Clearing, Remembered, Making, Chosen, Homed, TookInode
  <2>6. CASE k # INODE_BLOCK_COUNT
    <3>1. \A n \in Number : BlockOf(n) < k + 1 => BlockOf(n) <= k
      BY Located DEF Typed
    <3>2. Clearing'
      BY <2>1, <2>4, <2>6, <3>1 DEF Clearing
    <3>3. QED
      BY <2>1, <2>2, <2>3, <2>6, <3>2
         DEF Roots, Remembered, Making, Chosen, Homed, TookInode
  <2> QED BY <2>5, <2>6
<1> QED BY <1>1, <1>2

-----------------------------------------------------------------------------
(* The steps that make a root directory *)

Free == {n \in Number : ~disk.inode[n].is_allocated /\ BlockOf(n) < INODE_BLOCK_COUNT}

\* A start that finds no root takes the first free inode.  With a disk that keeps its
\* promises that is inode 0, unless the root was there and could not be read.
LEMMA CreateKeeps == Inv /\ createInode => Inv'
<1> SUFFICES ASSUME Inv, createInode PROVE Inv' OBVIOUS
<1> USE DEF Inv
<1>1. CASE Fail(FALSE)
  BY <1>1, FailKeeps DEF createInode, At, TookInode
<1>2. CASE ~Fail(FALSE)
  <2> DEFINE n == CHOOSE m \in Free : \A l \in Free : m <= l
  <2>1. /\ pc = "create" /\ pc' = "block" /\ Free # {} /\ inodeNum_valid(n)
        /\ disk' = [disk EXCEPT !.inode[n].is_allocated = TRUE]
        /\ ROOT_DIR_INODE_NUM' = n
        /\ node' = [Zeroed EXCEPT !.is_allocated = TRUE]
        /\ UNCHANGED <<fs_superblock, k, ready, flawed, torn, home>>
    BY <1>2 DEF createInode, At, History, Free
  <2>2. n \in Free /\ \A l \in Free : n <= l
    <3>1. Free \in SUBSET Nat
      BY Numbers DEF Free
    <3>2. \E m \in Free : \A l \in Free : m <= l
      BY <2>1, <3>1, LeastNumber
    <3>3. QED
      BY <3>2
  <2>3. n \in Number /\ n \in Nat /\ n < INODE_BLOCK_COUNT /\ ~disk.inode[n].is_allocated
    BY <2>1, <2>2, Numbers DEF Free, inodeNum_valid
  <2> HIDE DEF n
  <2>4. /\ disk'.sb = disk.sb /\ disk'.entries = disk.entries
        /\ disk'.inode = [disk.inode EXCEPT ![n].is_allocated = TRUE]
    BY <2>1 DEF Typed, Device
  <2>5. /\ \A m \in Number : m # n => disk'.inode[m] = disk.inode[m]
        /\ disk'.inode[n].is_allocated /\ disk'.inode[n].filesCount = disk.inode[n].filesCount
        /\ disk'.inode[n].blocks = disk.inode[n].blocks
        /\ disk' \in Device
    BY <2>1, <2>3, <2>4 DEF Typed, Device, Inode
  <2>6. node' \in Inode /\ node'.is_allocated /\ node'.filesCount = 0
    <3>1. Zeroed \in Inode /\ Zeroed.filesCount = 0
      BY Sizes DEF Zeroed
    <3>2. QED
      BY <2>1, <3>1 DEF Inode
  <2>7. ready => disk.inode[n].filesCount = 0
    BY <2>3 DEF Roots, Whole
  <2>8. Typed'
    BY <2>1, <2>3, <2>4, <2>5, <2>6 DEF Typed, Programs
  <2>9. Roots'
    <3>1. SUFFICES ASSUME ready, NEW m \in Number, disk'.inode[m].filesCount # 0 PROVE Whole(m)'
      BY <2>1 DEF Roots
    <3>2. m # n
      BY <2>5, <2>7, <3>1
    <3>3. Whole(m)
      BY <2>5, <3>1, <3>2 DEF Roots
    <3>4. QED
      BY <2>4, <2>5, <3>2, <3>3 DEF Whole
  <2>10. Clearing' /\ Remembered' /\ Chosen'
    BY <2>1, <2>4 DEF Clearing, Remembered, Chosen
  <2>11. Making'
    BY <2>1, <2>5, <2>6, <2>7 DEF Making, TookInode
  <2>12. Homed'
    <3>1. SUFFICES ASSUME ready, ~torn
                   PROVE  \/ n = 0 /\ home = -1
                          \/ flawed /\ n # 0 /\ disk'.inode[0].filesCount # 0 /\ home = 0
      BY <2>1 DEF Homed, TookInode
    <3>2. CASE ~disk.inode[0].is_allocated
      <4>1. BlockOf(0) < INODE_BLOCK_COUNT
        BY <2>2, <2>3, FirstBlock, Located, BootAssumption DEF Free
      <4>2. 0 \in Free
        BY <3>2, <4>1, Numbers DEF Free
      <4>3. n = 0
        BY <2>2, <2>3, <4>2
      <4>4. disk.inode[0].filesCount = 0
        BY <2>7, <3>1, <4>3
      <4>5. QED
        BY <2>1, <3>1, <4>3, <4>4 DEF Homed, TookInode
    <3>3. CASE disk.inode[0].is_allocated
      <4>1. n # 0
        BY <2>3, <3>3
      <4>2. QED
        BY <2>1, <2>5, <3>1, <3>3, <4>1, Numbers DEF Homed, TookInode, Typed
    <3>4. QED
      BY <3>2, <3>3
  <2> QED BY <2>8, <2>9, <2>10, <2>11, <2>12
<1> QED BY <1>1, <1>2

\* The block of the root lies behind the blocks of all the others.
LEMMA BlockKeeps == Inv /\ allocate_data_block => Inv'
<1> SUFFICES ASSUME Inv, allocate_data_block PROVE Inv' OBVIOUS
<1> USE DEF Inv
<1>1. CASE Fail(TRUE)
  BY <1>1, FailKeeps
<1>2. CASE ~Fail(TRUE)
  <2> DEFINE b == fs_superblock.maxAlloc
             new == [fs_superblock EXCEPT !.maxAlloc = @ + 1]
  <2>1. /\ pc = "block" /\ pc' = "dot" /\ b \in Block
        /\ fs_superblock' = new
        /\ disk' = [disk EXCEPT !.sb = new]
        /\ node' = [node EXCEPT !.blocks = <<b>>]
        /\ UNCHANGED <<k, ROOT_DIR_INODE_NUM, ready, flawed, torn, home>>
    BY <1>2 DEF allocate_data_block, At, History
  <2>2. fs_superblock = disk.sb /\ fs_superblock.inodes_count # 0
    <3>1. fs_superblock \in {disk.sb, Nothing} /\ b # 0
      BY <2>1, Sizes DEF Remembered
    <3>2. QED
      BY <3>1 DEF Remembered, Nothing
  <2>3. new \in Superblock /\ new.maxAlloc = b + 1 /\ new.inodes_count # 0
    BY <2>1, <2>2, Sizes DEF Typed, Superblock
  <2> HIDE DEF new
  <2>4. disk'.sb = new /\ disk'.inode = disk.inode /\ disk'.entries = disk.entries /\ disk' \in Device
    BY <2>1, <2>3 DEF Typed, Device
  <2>5. /\ node' \in Inode /\ node'.blocks = <<b>>
        /\ node'.is_allocated = node.is_allocated /\ node'.filesCount = node.filesCount
    BY <2>1 DEF Typed, Inode
  <2>6. Typed'
    BY <2>1, <2>3, <2>4, <2>5 DEF Typed, Programs
  <2>7. ASSUME NEW m \in Number, ready, disk.inode[m].filesCount # 0
        PROVE  Whole(m)' /\ disk'.inode[m].blocks # <<b>>
    <3>1. PICK c \in Block :
            /\ disk.inode[m].blocks = <<c>>
            /\ disk.entries[c] = <<DotOf(m), DotDotOf(m)>>
            /\ disk.sb.inodes_count # 0 => c < disk.sb.maxAlloc
      BY <2>7 DEF Roots, Whole
    <3>2. c < b /\ c < b + 1
      BY <2>1, <2>2, <3>1, Sizes
    <3>3. Whole(m)'
      BY <2>3, <2>4, <2>7, <3>1, <3>2 DEF Whole, Roots
    <3>4. QED
      BY <2>4, <3>1, <3>2, <3>3, <2>1, Sizes
  <2>8. Roots'
    BY <2>1, <2>4, <2>7 DEF Roots
  <2>9. Clearing' /\ Remembered' /\ Chosen' /\ Homed'
    BY <2>1, <2>3, <2>4 DEF Clearing, Remembered, Chosen, Homed, TookInode
  <2>10. Making'
    <3>1. /\ node'.is_allocated /\ node'.filesCount = 0
          /\ disk'.inode[ROOT_DIR_INODE_NUM].is_allocated
          /\ ready => disk'.inode[ROOT_DIR_INODE_NUM].filesCount = 0
      BY <2>1, <2>4, <2>5 DEF Making, TookInode
    <3>2. b < disk'.sb.maxAlloc
      BY <2>1, <2>3, <2>4, Sizes
    <3>3. QED
      BY <2>1, <2>4, <2>5, <2>7, <3>1, <3>2 DEF Making, TookInode
  <2> QED BY <2>6, <2>8, <2>9, <2>10
<1> QED BY <1>1, <1>2

\* An entry goes into the block of the new root, which no other root has.
LEMMA EntryKeeps ==
  ASSUME Inv, NEW name \in {"dot", "dotdot"}, NEW next,
         next = IF name = "dot" THEN "dotdot" ELSE "root",
         AddEntry(name, name, next)
  PROVE  Inv'
<1> USE DEF Inv
<1>1. CASE Fail(TRUE)
  BY <1>1, FailKeeps
<1>2. CASE ~Fail(TRUE)
  <2> DEFINE R    == ROOT_DIR_INODE_NUM
             b    == node.blocks[1]
             full == IF name = "dot" THEN <<DotOf(R)>> ELSE <<DotOf(R), DotDotOf(R)>>
  <2>1. /\ pc = name /\ pc' = next
        /\ disk' = [disk EXCEPT !.entries[b] = Append(IF name = "dot" THEN << >> ELSE @, [name |-> name, inum |-> R])]
        /\ node' = [node EXCEPT !.filesCount = @ + 1]
        /\ UNCHANGED <<fs_superblock, k, ROOT_DIR_INODE_NUM, ready, flawed, torn, home>>
    BY <1>2 DEF AddEntry, At, History
  <2>2. /\ b \in Block /\ node.blocks = <<b>> /\ fs_superblock = disk.sb /\ b < disk.sb.maxAlloc
        /\ pc = "dotdot" => disk.entries[b] = <<DotOf(R)>>
        /\ ready => \A n \in Number : disk.inode[n].filesCount # 0 => disk.inode[n].blocks # <<b>>
    BY <2>1 DEF Making
  <2>3. R \in Number /\ full \in Seq(Entry) /\ Len(full) <= 2
    BY Numbers, Names DEF Typed
  <2> HIDE DEF b
  <2>4. /\ disk'.sb = disk.sb /\ disk'.inode = disk.inode
        /\ disk'.entries = [disk.entries EXCEPT ![b] = Append(IF name = "dot" THEN << >> ELSE @, [name |-> name, inum |-> R])]
    BY <2>1 DEF Typed, Device
  <2>5. Append(IF name = "dot" THEN << >> ELSE disk.entries[b], [name |-> name, inum |-> R]) = full
    <3>1. CASE name = "dot"
      BY <3>1 DEF DotOf
    <3>2. CASE name = "dotdot"
      <4>1. disk.entries[b] = <<DotOf(R)>>
        BY <2>1, <2>2, <3>2
      <4>2. Append(<<DotOf(R)>>, DotDotOf(R)) = <<DotOf(R), DotDotOf(R)>>
        BY <2>3, Names, AppendSecond
      <4>3. QED
        BY <3>2, <4>1, <4>2 DEF DotDotOf
    <3>3. QED
      BY <3>1, <3>2
  <2> HIDE DEF full
  <2>6. /\ disk'.entries[b] = full
        /\ \A c \in Block : c # b => disk'.entries[c] = disk.entries[c]
        /\ disk' \in Device /\ \A c \in Block : Len(disk'.entries[c]) <= 2
    <3>1. disk'.entries = [disk.entries EXCEPT ![b] = full]
      BY <2>4, <2>5
    <3>2. disk'.entries \in [Block -> Seq(Entry)] /\ disk'.entries[b] = full
          /\ \A c \in Block : c # b => disk'.entries[c] = disk.entries[c]
      BY <2>2, <2>3, <3>1 DEF Typed, Device
    <3>3. \A c \in Block : Len(disk'.entries[c]) <= 2
      BY <2>3, <3>2 DEF Typed
    <3>4. disk' \in Device
      BY <2>1, <2>4, <3>2 DEF Typed, Device
    <3>5. QED
      BY <3>2, <3>3, <3>4
  <2>7. /\ node' \in Inode /\ node'.blocks = node.blocks /\ node'.is_allocated
        /\ node'.filesCount = IF name = "dot" THEN 1 ELSE 2
    BY <2>1 DEF Typed, Inode, Making, TookInode
  <2>8. Typed'
    BY <2>1, <2>6, <2>7 DEF Typed, Programs
  <2>9. Roots'
    <3>1. SUFFICES ASSUME ready, NEW m \in Number, disk'.inode[m].filesCount # 0 PROVE Whole(m)'
      BY <2>1 DEF Roots
    <3>2. disk.inode[m].blocks # <<b>> /\ Whole(m)
      BY <2>2, <2>4, <3>1 DEF Roots
    <3>3. QED
      BY <2>4, <2>6, <3>2 DEF Whole
  <2>10. Clearing' /\ Remembered' /\ Chosen' /\ Homed'
    BY <2>1, <2>4 DEF Clearing, Remembered, Chosen, Homed, TookInode
  <2>11. Making'
    <3>1. /\ disk'.inode[R].is_allocated
          /\ ready => disk'.inode[R].filesCount = 0
      BY <2>1, <2>4 DEF Making, TookInode
    <3>2. /\ next = "dotdot" => disk'.entries[b] = <<DotOf(R)>>
          /\ next = "root" => disk'.entries[b] = <<DotOf(R), DotDotOf(R)>>
      BY <2>6 DEF full
    <3>3. QED
      BY <2>1, <2>2, <2>4, <2>7, <3>1, <3>2 DEF Making, TookInode
  <2> QED BY <2>8, <2>9, <2>10, <2>11
<1> QED BY <1>1, <1>2

\* The inode of the root is written last, when its block holds both entries.
LEMMA WriteRootKeeps == Inv /\ WriteRoot => Inv'
<1> SUFFICES ASSUME Inv, WriteRoot PROVE Inv' OBVIOUS
<1> USE DEF Inv
<1>1. CASE Fail(TRUE)
  BY <1>1, FailKeeps
<1>2. CASE ~Fail(TRUE)
  <2> DEFINE R == ROOT_DIR_INODE_NUM
  <2>1. /\ pc = "root" /\ pc' = "mounted"
        /\ disk' = [disk EXCEPT !.inode[R] = node]
        /\ home' = IF home = -1 THEN R ELSE home
        /\ UNCHANGED <<fs_superblock, k, ROOT_DIR_INODE_NUM, node, ready, flawed, torn>>
    BY <1>2 DEF WriteRoot, At, Mounted, Memory
  <2>2. R \in Number /\ R \in Int
    BY Numbers DEF Typed
  <2>3. /\ disk'.sb = disk.sb /\ disk'.entries = disk.entries /\ disk' \in Device
        /\ disk'.inode[R] = node
        /\ \A m \in Number : m # R => disk'.inode[m] = disk.inode[m]
    BY <2>1, <2>2 DEF Typed, Device
  <2>4. node.is_allocated /\ node.filesCount = 2
    BY <2>1 DEF Making, TookInode
  <2>5. Whole(R)'
    <3>1. PICK b \in Block :
            node.blocks = <<b>> /\ b < disk.sb.maxAlloc /\ disk.entries[b] = <<DotOf(R), DotDotOf(R)>>
      BY <2>1 DEF Making
    <3>2. QED
      BY <2>1, <2>3, <2>4, <3>1 DEF Whole
  <2>6. Typed'
    BY <2>1, <2>2, <2>3 DEF Typed, Programs
  <2>7. Roots'
    <3>1. SUFFICES ASSUME ready, NEW m \in Number, disk'.inode[m].filesCount # 0 PROVE Whole(m)'
      BY <2>1 DEF Roots
    <3>2. CASE m = R
      BY <2>1, <2>5, <3>2
    <3>3. CASE m # R
      <4>1. Whole(m)
        BY <2>3, <3>1, <3>3 DEF Roots
      <4>2. QED
        BY <2>3, <3>3, <4>1 DEF Whole
    <3>4. QED
      BY <3>2, <3>3
  <2>8. Clearing' /\ Remembered' /\ Making' /\ Chosen'
    BY <2>1, <2>3, <2>4 DEF Clearing, Remembered, Making, Chosen, TookInode
  <2>9. Homed'
    BY <2>1, <2>2, <2>3, <2>4, Numbers DEF Homed, TookInode
  <2> QED BY <2>6, <2>7, <2>8, <2>9
<1> QED BY <1>1, <1>2

-----------------------------------------------------------------------------
(* The end of a program *)

\* The superblock that fs_destroy writes is the disk's, or zero after a flawed start.
LEMMA DestroyKeeps == Inv /\ fs_destroy => Inv'
<1> SUFFICES ASSUME Inv, fs_destroy PROVE Inv' OBVIOUS
<1> USE DEF Inv
<1>1. /\ pc = "mounted" /\ pc' = "off"
      /\ disk' = disk \/ disk' = [disk EXCEPT !.sb = fs_superblock]
      /\ UNCHANGED <<fs_superblock, k, ROOT_DIR_INODE_NUM, node, ready, flawed, torn, home>>
  BY DEF fs_destroy, At, Memory, History
<1>2. /\ disk'.inode = disk.inode /\ disk'.entries = disk.entries /\ disk' \in Device
      /\ disk'.sb \in {disk.sb, Nothing}
  BY <1>1 DEF Typed, Device, Remembered
<1>3. Typed'
  BY <1>1, <1>2 DEF Typed, Programs
<1>4. Roots'
  <2>1. SUFFICES ASSUME ready, NEW m \in Number, disk.inode[m].filesCount # 0 PROVE Whole(m)'
    BY <1>1, <1>2 DEF Roots
  <2>2. Whole(m)
    BY <2>1 DEF Roots
  <2>3. QED
    BY <1>2, <2>2 DEF Whole, Nothing
<1>5. Clearing' /\ Remembered' /\ Making' /\ Chosen' /\ Homed'
  BY <1>1, <1>2 DEF Clearing, Remembered, Making, Chosen, Homed, TookInode, Nothing
<1> QED BY <1>3, <1>4, <1>5

LEMMA CrashKeeps == Inv /\ Crash => Inv'
<1>1. TookInode \in BOOLEAN
  BY DEF TookInode
<1> QED
  BY <1>1, FailKeeps DEF Crash

\* Every step keeps the invariant.
THEOREM NextInv == Inv /\ [Next]_vars => Inv'
<1> SUFFICES ASSUME Inv, [Next]_vars PROVE Inv' OBVIOUS
<1>1. CASE UNCHANGED vars
  <2>1. Roots'
    BY <1>1, WholeKept DEF vars, Inv, Roots
  <2>2. Typed' /\ Clearing' /\ Remembered' /\ Making' /\ Chosen' /\ Homed'
    BY <1>1 DEF vars, Inv, Typed, Clearing, Remembered, Making, Chosen, Homed, TookInode
  <2>3. QED
    BY <2>1, <2>2 DEF Inv
<1>2. CASE fs_init \/ bootUpFileSytem \/ fs_destroy \/ Crash
  BY <1>2, SetUpKeeps, BootKeeps, DestroyKeeps, CrashKeeps
<1>3. CASE Step
  BY <1>3, SuperblockKeeps, IlistKeeps, LoadKeeps, FindKeeps, CreateKeeps, BlockKeeps,
     EntryKeeps, WriteRootKeeps DEF Step
<1> QED BY <1>1, <1>2, <1>3 DEF Next

THEOREM InvHolds == Spec => []Inv
  BY InitInv, NextInv, PTL DEF Spec

-----------------------------------------------------------------------------
(* The properties of the run *)

\* Every variable keeps its type, whatever is set up, started and stopped.
THEOREM TypeCorrect == Spec => []TypeOK
<1>1. Inv => TypeOK
  <2> SUFFICES ASSUME Inv PROVE TypeOK OBVIOUS
  <2>1. Typed
    BY DEF Inv
  <2>2. \A b \in Block : \A i \in DOMAIN disk.entries[b] : disk.entries[b][i] \in Entry
    BY <2>1 DEF Typed, Device
  <2>3. QED
    BY <2>1, <2>2 DEF Typed, Device, Inode, TypeOK, inodeNum_valid
<1> QED BY <1>1, InvHolds, PTL

\* What is mounted on a disk that was set up is a root directory from end to end, for
\* every size of the device and however often the programs were stopped: bootUpFileSytem
\* writes the inode last.
THEOREM MountedCorrect == Spec => []MountedSound
<1>1. Inv => MountedSound
  <2> SUFFICES ASSUME Inv, pc = "mounted", ready, ~flawed
               PROVE  LET root == disk.inode[ROOT_DIR_INODE_NUM]
                      IN  /\ root.is_allocated /\ root.filesCount = 2 /\ Len(root.blocks) = 1
                          /\ disk.entries[root.blocks[1]] =
                               <<[name |-> "dot", inum |-> ROOT_DIR_INODE_NUM],
                                 [name |-> "dotdot", inum |-> ROOT_DIR_INODE_NUM]>>
                          /\ root.blocks[1] < disk.sb.maxAlloc
                          /\ fs_superblock = disk.sb
    BY DEF MountedSound, At
  <2>1. fs_superblock = disk.sb /\ disk.sb.inodes_count # 0
    BY DEF Inv, Remembered
  <2>2. Whole(ROOT_DIR_INODE_NUM)
    BY Numbers DEF Inv, Typed, Chosen, Roots
  <2>3. QED
    BY <2>1, <2>2 DEF Whole, DotOf, DotDotOf
<1> QED BY <1>1, InvHolds, PTL

\* Every start finds the root that the first one made, for every size of the device.
THEOREM SameRootCorrect == Spec => []SameRoot
<1>1. Inv => SameRoot
  BY DEF Inv, Homed, SameRoot, At
<1> QED BY <1>1, InvHolds, PTL
=============================================================================
