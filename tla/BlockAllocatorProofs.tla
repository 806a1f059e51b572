------------------------ MODULE BlockAllocatorProofs ------------------------
(***************************************************************************)
(* What BlockAllocator keeps, for every size of the device and every       *)
(* contents the callers may write.                                         *)
(*                                                                         *)
(* The inductive invariant is Inv == TypeOK /\ FreeListExact.  Neither     *)
(* half is inductive alone: that the next head is a block of the pool      *)
(* (TypeOK) needs the list on the disk to be the chain (ListOnDisk), that  *)
(* a fresh block and a freed one are not on the list needs Partition, and  *)
(* both need the types.                                                    *)
(***************************************************************************)
EXTENDS BlockAllocator, Facts

Inv == TypeOK /\ FreeListExact

-----------------------------------------------------------------------------
(* The operations of the data block layer *)

\* The three results of allocate_data_block, one for each branch of the code.
LEMMA AllocateCases ==
  ASSUME NEW f \in FileSystem
  PROVE  /\ NoBlockLeft(f) => allocate_data_block(f) = [fs |-> f, ret |-> -1]
         /\ f.maxAlloc # NUM_OF_DATA_BLOCKS =>
              allocate_data_block(f) =
                [fs  |-> [f EXCEPT !.maxAlloc = f.maxAlloc + 1,
                                   !.blk = [f.blk EXCEPT ![f.maxAlloc] = ZeroBlock]],
                 ret |-> f.maxAlloc]
         /\ f.maxAlloc = NUM_OF_DATA_BLOCKS /\ ~NoBlockLeft(f) =>
              allocate_data_block(f) =
                [fs  |-> [f EXCEPT !.freelist_head = f.blk[f.freelist_head][0]],
                 ret |-> f.freelist_head]
  BY DEF allocate_data_block, NoBlockLeft

\* The pool lies inside the data region, above the blocks of the inodes.
LEMMA PoolFacts ==
  /\ NUM_OF_DATA_BLOCKS \in Nat
  /\ FirstDataBlock \in Nat /\ FirstDataBlock > 0
  /\ FirstDataBlock <= NUM_OF_DATA_BLOCKS
  /\ Pool \subseteq DataRegion
  /\ \A b \in Pool : b \in Nat /\ b > 0
  /\ 0 \in Word
  /\ \A b \in Pool : INODE_BLOCK_COUNT < b /\ b < BLOCK_COUNT
  BY DiskAssumption DEF NUM_OF_DATA_BLOCKS, FirstDataBlock, Pool, DataRegion, Word

\* The two results of free_data_block on a block of the pool.
LEMMA FreeCases ==
  ASSUME NEW f \in FileSystem, NEW b \in Pool
  PROVE  /\ b = f.maxAlloc - 1 =>
              free_data_block(f, b).fs = [f EXCEPT !.maxAlloc = f.maxAlloc - 1]
         /\ b # f.maxAlloc - 1 =>
              free_data_block(f, b).fs =
                [f EXCEPT !.freelist_head = b,
                          !.blk = [f.blk EXCEPT ![b] = FreeBlock(f.freelist_head)]]
<1>1. /\ b \in DataRegion /\ b \in Int
      /\ ~(b <= INODE_BLOCK_COUNT \/ b > BLOCK_COUNT)
  BY PoolFacts, DiskAssumption
<1> DEFINE g == [f EXCEPT !.freelist_head = b]
<1>2. g.blk = f.blk
  BY DEF FileSystem
<1>3. write_data_block(g, b, FreeBlock(f.freelist_head))
        = [f EXCEPT !.freelist_head = b,
                    !.blk = [f.blk EXCEPT ![b] = FreeBlock(f.freelist_head)]]
  BY <1>1, <1>2 DEF write_data_block, FileSystem
<1>4. QED
  BY <1>1, <1>3 DEF free_data_block

\* A block of the free list is a block, and its word 0 is the link.
LEMMA FreeBlockType ==
  ASSUME NEW next \in Int
  PROVE  /\ FreeBlock(next) \in [Word -> Int]
         /\ FreeBlock(next)[0] = next
         /\ ZeroBlock \in [Word -> Int]
  BY PoolFacts DEF FreeBlock, ZeroBlock, Word

-----------------------------------------------------------------------------
(* The free list *)

\* With the invariant, the list is empty exactly when the head is 0, and then
\* the blocks in use are all the blocks below maxAlloc.
LEMMA EmptyList ==
  ASSUME Inv
  PROVE  /\ (fs.freelist_head = 0) <=> (chain = << >>)
         /\ chain = << >> => held = FirstDataBlock .. (fs.maxAlloc - 1)
         /\ chain # << >> => /\ Len(chain) \in Nat /\ Len(chain) > 0
                            /\ chain[Len(chain)] = fs.freelist_head
                            /\ fs.freelist_head \in Pool
                            /\ fs.freelist_head \in OnList
<1> USE DEF Inv, TypeOK, FreeListExact
<1>1. chain # << >> => /\ Len(chain) \in Nat /\ Len(chain) > 0
                       /\ chain[Len(chain)] \in Pool
                       /\ chain[Len(chain)] \in OnList
  BY DEF OnList
<1>2. chain # << >> => chain[Len(chain)] = fs.freelist_head
  BY DEF ListOnDisk
<1>3. chain = << >> => fs.freelist_head = 0
  BY DEF ListOnDisk
<1>4. chain = << >> => OnList = {}
  BY DEF OnList
<1>5. chain = << >> => held = FirstDataBlock .. (fs.maxAlloc - 1)
  BY <1>4 DEF Partition
<1>6. QED
  BY <1>1, <1>2, <1>3, <1>5, PoolFacts

\* What allocate_data_block does to the list when it takes the head: the new
\* head is the link of the old one, which is the next block of the chain.
LEMMA LinkOfHead ==
  ASSUME Inv, chain # << >>
  PROVE  fs.blk[fs.freelist_head][0] =
           IF Len(chain) = 1 THEN 0 ELSE chain[Len(chain) - 1]
<1>0. /\ Len(chain) \in Nat /\ Len(chain) > 0
      /\ fs.freelist_head = chain[Len(chain)]
  BY EmptyList
<1>1. Len(chain) \in 1 .. Len(chain) /\ fs.freelist_head = chain[Len(chain)]
  BY <1>0
<1>2. fs.blk[fs.freelist_head]
        = FreeBlock(IF Len(chain) = 1 THEN 0 ELSE chain[Len(chain) - 1])
  BY <1>1 DEF Inv, FreeListExact, ListOnDisk
<1>3. (IF Len(chain) = 1 THEN 0 ELSE chain[Len(chain) - 1]) \in Int
  <2>1. CASE Len(chain) = 1
    BY <2>1
  <2>2. CASE Len(chain) # 1
    <3>0. Len(chain) \in Nat /\ Len(chain) > 1
      BY <2>2, <1>0
    <3>1. Len(chain) - 1 \in 1 .. Len(chain)
      BY <3>0
    <3>2. chain[Len(chain) - 1] \in Pool
      BY <3>1 DEF Inv, TypeOK
    <3>3. chain[Len(chain) - 1] \in Int
      BY <3>2, PoolFacts
    <3>4. QED
      BY <3>0, <3>3
  <2>3. QED
    BY <2>1, <2>2
<1>4. QED
  BY <1>2, <1>3, FreeBlockType

-----------------------------------------------------------------------------
(* Allocate, one lemma for each branch: the effect on the state.            *)

\* With nothing left, allocate_data_block returns -1 and changes nothing.
LEMMA AllocateRefused ==
  ASSUME Inv, Allocate, NoBlockLeft(fs)
  PROVE  /\ UNCHANGED <<fs, held, chain>>
         /\ ret' = -1
         /\ Pool \subseteq held
<1>1. fs \in FileSystem /\ fs.freelist_head = 0 /\ fs.maxAlloc = NUM_OF_DATA_BLOCKS
  BY DEF Inv, TypeOK, NoBlockLeft
<1>2. allocate_data_block(fs) = [fs |-> fs, ret |-> -1]
  BY <1>1, AllocateCases
<1>3. chain = << >>
  BY <1>1, EmptyList
<1>4. held = FirstDataBlock .. (NUM_OF_DATA_BLOCKS - 1)
  BY <1>1, <1>3, EmptyList
<1>5. fs' = fs /\ ret' = -1 /\ held' = held /\ chain' = chain
  BY <1>2, <1>3 DEF Allocate
<1>6. QED
  BY <1>4, <1>5 DEF Pool

\* While blocks were never used, the first of them is handed out, zeroed, and
\* maxAlloc moves behind it.
LEMMA AllocateFresh ==
  ASSUME Inv, Allocate, fs.maxAlloc # NUM_OF_DATA_BLOCKS
  PROVE  /\ fs' = [fs EXCEPT !.maxAlloc = fs.maxAlloc + 1,
                             !.blk = [fs.blk EXCEPT ![fs.maxAlloc] = ZeroBlock]]
         /\ ret' = fs.maxAlloc
         /\ held' = held \union {fs.maxAlloc}
         /\ chain' = chain
         /\ fs.maxAlloc \in Pool
         /\ fs.maxAlloc \notin held \union OnList
<1>1. fs \in FileSystem /\ fs.maxAlloc \in FirstDataBlock .. NUM_OF_DATA_BLOCKS
  BY DEF Inv, TypeOK
<1>2. allocate_data_block(fs) =
        [fs  |-> [fs EXCEPT !.maxAlloc = fs.maxAlloc + 1,
                            !.blk = [fs.blk EXCEPT ![fs.maxAlloc] = ZeroBlock]],
         ret |-> fs.maxAlloc]
  BY <1>1, AllocateCases
<1>3. fs.maxAlloc \in Pool /\ fs.maxAlloc # -1
  BY <1>1, PoolFacts DEF Pool
<1>4. fs.maxAlloc \notin held \union OnList
  BY <1>1, PoolFacts DEF Inv, FreeListExact, Partition
<1>5. QED
  BY <1>2, <1>3, <1>4 DEF Allocate

\* Afterwards the head of the free list is handed out and its link becomes the
\* new head.
LEMMA AllocateReused ==
  ASSUME Inv, Allocate, fs.maxAlloc = NUM_OF_DATA_BLOCKS, ~NoBlockLeft(fs)
  PROVE  /\ chain # << >>
         /\ fs' = [fs EXCEPT !.freelist_head = fs.blk[fs.freelist_head][0]]
         /\ ret' = fs.freelist_head
         /\ held' = held \union {fs.freelist_head}
         /\ chain' = SubSeq(chain, 1, Len(chain) - 1)
         /\ fs.freelist_head \in Pool
         /\ fs.freelist_head \notin held
<1>1. fs \in FileSystem /\ fs.freelist_head # 0
  BY DEF Inv, TypeOK, NoBlockLeft
<1>2. allocate_data_block(fs) =
        [fs  |-> [fs EXCEPT !.freelist_head = fs.blk[fs.freelist_head][0]],
         ret |-> fs.freelist_head]
  BY <1>1, AllocateCases
<1>3. chain # << >> /\ fs.freelist_head \in Pool /\ fs.freelist_head \in OnList
  BY <1>1, EmptyList
<1>4. fs.freelist_head # -1
  BY <1>3, PoolFacts
<1>5. fs.freelist_head \notin held
  BY <1>3 DEF Inv, FreeListExact, Partition
<1>6. QED
  BY <1>2, <1>3, <1>4, <1>5 DEF Allocate
-----------------------------------------------------------------------------
(* The invariant holds at first and every action keeps it.                  *)

\* A disk just set up has an empty free list and no block in use.
LEMMA InitInv == Init => Inv
<1> SUFFICES ASSUME Init PROVE Inv
  OBVIOUS
<1>1. PICK contents \in [DataRegion -> Payload] :
        fs = [maxAlloc |-> FirstDataBlock, freelist_head |-> 0, blk |-> contents]
  BY DEF Init
<1>2. contents \in [DataRegion -> [Word -> Int]]
  BY PayloadAssumption
<1>3. fs \in FileSystem /\ fs.maxAlloc = FirstDataBlock /\ fs.freelist_head = 0
  BY <1>1, <1>2, PoolFacts DEF FileSystem
<1>4. held = {} /\ ret = -1 /\ chain = << >> /\ OnList = {}
  BY DEF Init, OnList
<1>5. TypeOK
  BY <1>3, <1>4, PoolFacts, EmptySeq DEF TypeOK
<1>6. ListOnDisk
  BY <1>3, <1>4 DEF ListOnDisk
<1>7. Partition
  BY <1>3, <1>4, PoolFacts DEF Partition
<1>8. QED
  BY <1>5, <1>6, <1>7 DEF Inv, FreeListExact

\* allocate_data_block keeps the free list exact in each of its three branches.
LEMMA AllocateInv == Inv /\ Allocate => Inv'
<1> SUFFICES ASSUME Inv, Allocate PROVE Inv'
  OBVIOUS
<1>0. fs \in FileSystem /\ fs.maxAlloc \in FirstDataBlock .. NUM_OF_DATA_BLOCKS
  BY DEF Inv, TypeOK
<1>1. CASE NoBlockLeft(fs)
  <2>1. UNCHANGED <<fs, held, chain>> /\ ret' = -1
    BY <1>1, AllocateRefused
  <2>2. QED
    BY <2>1 DEF Inv, TypeOK, FreeListExact, ListOnDisk, Partition, OnList
<1>2. CASE fs.maxAlloc # NUM_OF_DATA_BLOCKS
  <2> DEFINE m == fs.maxAlloc
  <2>1. /\ fs' = [fs EXCEPT !.maxAlloc = m + 1,
                            !.blk = [fs.blk EXCEPT ![m] = ZeroBlock]]
        /\ ret' = m
        /\ held' = held \union {m}
        /\ chain' = chain
        /\ m \in Pool
        /\ m \notin OnList
    BY <1>2, AllocateFresh
  <2>2. /\ fs' \in FileSystem
        /\ fs'.maxAlloc = m + 1
        /\ fs'.freelist_head = fs.freelist_head
        /\ fs'.blk = [fs.blk EXCEPT ![m] = ZeroBlock]
    <3>1. [fs.blk EXCEPT ![m] = ZeroBlock] \in [DataRegion -> [Word -> Int]]
      BY <1>0, FreeBlockType DEF FileSystem
    <3>2. m + 1 \in Int
      BY <1>0, PoolFacts
    <3>3. QED
      BY <1>0, <2>1, <3>1, <3>2 DEF FileSystem
  <2>3. TypeOK'
    BY <1>0, <1>2, <2>1, <2>2, PoolFacts DEF Inv, TypeOK
  <2>4. \A k \in 1 .. Len(chain) : fs'.blk[chain[k]] = fs.blk[chain[k]]
    <3> SUFFICES ASSUME NEW k \in 1 .. Len(chain)
                 PROVE  fs'.blk[chain[k]] = fs.blk[chain[k]]
      OBVIOUS
    <3>1. chain[k] # m
      BY <2>1 DEF OnList
    <3>2. chain[k] \in DataRegion
      BY PoolFacts DEF Inv, TypeOK
    <3>3. QED
      BY <1>0, <2>2, <3>1, <3>2 DEF FileSystem
  <2>5. ListOnDisk'
    BY <2>1, <2>2, <2>4 DEF Inv, FreeListExact, ListOnDisk
  <2>6. OnList' = OnList
    BY <2>1 DEF OnList
  <2>7. Partition'
    BY <1>0, <2>1, <2>2, <2>6, PoolFacts DEF Inv, FreeListExact, Partition
  <2>8. QED
    BY <2>3, <2>5, <2>7 DEF Inv, FreeListExact
<1>3. CASE fs.maxAlloc = NUM_OF_DATA_BLOCKS /\ ~NoBlockLeft(fs)
  <2> DEFINE n == Len(chain)
             h == fs.freelist_head
  <2>1. /\ chain # << >>
        /\ fs' = [fs EXCEPT !.freelist_head = fs.blk[h][0]]
        /\ ret' = h
        /\ held' = held \union {h}
        /\ chain' = SubSeq(chain, 1, n - 1)
        /\ h \in Pool
        /\ h \notin held
    BY <1>3, AllocateReused
  <2>2. n \in Nat /\ n > 0 /\ chain[n] = h
    BY <2>1, EmptyList
  <2>3. chain \in Seq(Pool)
    BY DEF Inv, TypeOK
  <2>4. /\ chain' \in Seq(Pool)
        /\ Len(chain') = n - 1
        /\ \A k \in 1 .. (n - 1) : chain'[k] = chain[k]
    BY <2>1, <2>2, <2>3, DropLast
  <2>5. fs.blk[h][0] = IF n = 1 THEN 0 ELSE chain[n - 1]
    BY <2>1, LinkOfHead
  <2>6. fs.blk[h][0] \in {0} \union Pool
    <3>1. CASE n = 1
      BY <2>5, <3>1
    <3>2. CASE n > 1
      <4>1. n - 1 \in 1 .. n /\ n # 1
        BY <2>2, <3>2
      <4>2. chain[n - 1] \in Pool
        BY <2>3, <4>1
      <4>3. QED
        BY <2>5, <4>1, <4>2
    <3>3. QED
      BY <2>2, <3>1, <3>2
  <2>7. /\ fs' \in FileSystem
        /\ fs'.maxAlloc = fs.maxAlloc
        /\ fs'.freelist_head = fs.blk[h][0]
        /\ fs'.blk = fs.blk
    BY <1>0, <2>1, <2>6, PoolFacts DEF FileSystem
  <2>8. TypeOK'
    BY <1>0, <2>1, <2>4, <2>6, <2>7 DEF Inv, TypeOK
  <2>9. \A j, k \in 1 .. n : chain[j] = chain[k] => j = k
    BY DEF Inv, FreeListExact, ListOnDisk
  <2>10. ListOnDisk'
    <3>1. fs'.freelist_head = IF chain' = << >> THEN 0 ELSE chain'[Len(chain')]
      <4>1. CASE n = 1
        <5>1. Len(chain') = 0
          BY <2>4, <4>1
        <5>2. chain' = << >>
          BY <2>4, <5>1, EmptySeq
        <5>3. fs'.freelist_head = 0
          BY <2>5, <2>7, <4>1
        <5>4. QED
          BY <5>2, <5>3
      <4>2. CASE n > 1
        <5>1. n - 1 \in 1 .. (n - 1) /\ n # 1
          BY <2>2, <4>2
        <5>2. ~(chain' = << >>)
          BY <2>2, <2>4, <4>2
        <5>3. fs'.freelist_head = chain[n - 1]
          BY <2>5, <2>7, <5>1
        <5>4. chain'[Len(chain')] = chain[n - 1]
          BY <2>4, <5>1
        <5>5. fs'.freelist_head = chain'[Len(chain')]
          BY <5>3, <5>4
        <5>6. QED
          BY <5>2, <5>5
      <4>3. n \in Nat /\ n > 0
        BY <2>2
      <4>4. n = 1 \/ n > 1
        BY <4>3
      <4>5. QED
        BY <4>1, <4>2, <4>4
    <3>2. \A k \in 1 .. (n - 1) :
            fs'.blk[chain'[k]] = FreeBlock(IF k = 1 THEN 0 ELSE chain'[k - 1])
      <4> SUFFICES ASSUME NEW k \in 1 .. (n - 1)
                   PROVE  fs'.blk[chain'[k]] = FreeBlock(IF k = 1 THEN 0 ELSE chain'[k - 1])
        OBVIOUS
      <4>1. k \in 1 .. n /\ (k # 1 => k - 1 \in 1 .. (n - 1))
        BY <2>2
      <4>2. fs.blk[chain[k]] = FreeBlock(IF k = 1 THEN 0 ELSE chain[k - 1])
        BY <4>1 DEF Inv, FreeListExact, ListOnDisk
      <4>3. QED
        BY <2>4, <2>7, <4>1, <4>2
    <3>3. \A j, k \in 1 .. (n - 1) : chain'[j] = chain'[k] => j = k
      BY <2>2, <2>4, <2>9
    <3>4. QED
      BY <2>4, <3>1, <3>2, <3>3 DEF ListOnDisk
  <2>11. OnList' = OnList \ {h}
    <3>1. OnList' = {chain[k] : k \in 1 .. (n - 1)}
      BY <2>4 DEF OnList
    <3>2. /\ \A k \in 1 .. n : k # n <=> k \in 1 .. (n - 1)
          /\ \A k \in 1 .. (n - 1) : k \in 1 .. n
      BY <2>2
    <3>3. n \in 1 .. n
      BY <2>2
    <3>4. OnList = {chain[k] : k \in 1 .. n}
      BY DEF OnList
    <3>5. \A k \in 1 .. n : chain[k] = h <=> k = n
      BY <2>2, <2>9, <3>3
    <3> HIDE DEF n, h
    <3>6. QED
      BY <3>1, <3>2, <3>4, <3>5
  <2>12. h \in OnList
    BY <2>1, EmptyList
  <2>13. Partition'
    BY <2>1, <2>7, <2>11, <2>12 DEF Inv, FreeListExact, Partition
  <2>14. QED
    BY <2>8, <2>10, <2>13 DEF Inv, FreeListExact
<1>4. QED
  BY <1>1, <1>2, <1>3 DEF NoBlockLeft

\* Free, one lemma for each branch: the effect on the state.
LEMMA FreeEffect ==
  ASSUME Inv, NEW b \in Pool, Free(b)
  PROVE  /\ b \in held /\ b \notin OnList
         /\ held' = held \ {b}
         /\ ret' = ret
         /\ b = fs.maxAlloc - 1 =>
              /\ fs' = [fs EXCEPT !.maxAlloc = fs.maxAlloc - 1]
              /\ chain' = chain
         /\ b # fs.maxAlloc - 1 =>
              /\ fs' = [fs EXCEPT !.freelist_head = b,
                                  !.blk = [fs.blk EXCEPT ![b] = FreeBlock(fs.freelist_head)]]
              /\ chain' = Append(chain, b)
<1>1. b \in held /\ held' = held \ {b} /\ ret' = ret
  BY DEF Free
<1>2. b \notin OnList
  BY <1>1 DEF Inv, FreeListExact, Partition
<1>3. fs \in FileSystem
  BY DEF Inv, TypeOK
<1>4. fs' = free_data_block(fs, b).fs
  BY DEF Free
<1>5. chain' = IF b = fs.maxAlloc - 1 THEN chain ELSE Append(chain, b)
  BY DEF Free
<1>6. QED
  BY <1>1, <1>2, <1>3, <1>4, <1>5, FreeCases

\* free_data_block of a block in use keeps the free list exact: it goes back
\* behind maxAlloc or becomes the new head, linked to the old one.
LEMMA FreeInv == ASSUME NEW b \in Pool PROVE Inv /\ Free(b) => Inv'
<1> SUFFICES ASSUME Inv, Free(b) PROVE Inv'
  OBVIOUS
<1>0. /\ fs \in FileSystem
      /\ fs.maxAlloc \in FirstDataBlock .. NUM_OF_DATA_BLOCKS
      /\ chain \in Seq(Pool)
      /\ held \subseteq Pool
      /\ ret \in {-1} \union Pool
      /\ fs.freelist_head \in {0} \union Pool
  BY DEF Inv, TypeOK
<1>1. b \in held /\ b \notin OnList /\ held' = held \ {b} /\ ret' = ret
  BY FreeEffect
<1>2. b \in FirstDataBlock .. (fs.maxAlloc - 1)
  BY <1>1 DEF Inv, FreeListExact, Partition
<1>3. CASE b = fs.maxAlloc - 1
  <2>1. fs' = [fs EXCEPT !.maxAlloc = fs.maxAlloc - 1] /\ chain' = chain
    BY <1>3, FreeEffect
  <2>2. /\ fs' \in FileSystem
        /\ fs'.maxAlloc = fs.maxAlloc - 1
        /\ fs'.freelist_head = fs.freelist_head
        /\ fs'.blk = fs.blk
    <3>1. fs \in FileSystem /\ fs.maxAlloc - 1 \in Int
      BY <1>0, PoolFacts
    <3>2. QED
      BY <2>1, <3>1 DEF FileSystem
  <2>3. fs'.maxAlloc \in FirstDataBlock .. NUM_OF_DATA_BLOCKS
    BY <1>0, <1>2, <1>3, <2>2, PoolFacts
  <2>4. TypeOK'
    BY <1>0, <1>1, <2>1, <2>2, <2>3 DEF TypeOK
  <2>5. ListOnDisk'
    BY <2>1, <2>2 DEF Inv, FreeListExact, ListOnDisk
  <2>6. OnList' = OnList
    BY <2>1 DEF OnList
  <2>7. FirstDataBlock .. (fs'.maxAlloc - 1) = (FirstDataBlock .. (fs.maxAlloc - 1)) \ {b}
    BY <1>0, <1>3, <2>2, PoolFacts
  <2>8. Partition'
    BY <1>1, <2>6, <2>7 DEF Inv, FreeListExact, Partition
  <2>9. QED
    BY <2>4, <2>5, <2>8 DEF Inv, FreeListExact
<1>4. CASE b # fs.maxAlloc - 1
  <2> DEFINE n == Len(chain)
             h == fs.freelist_head
  <2>1. /\ fs' = [fs EXCEPT !.freelist_head = b,
                            !.blk = [fs.blk EXCEPT ![b] = FreeBlock(h)]]
        /\ chain' = Append(chain, b)
    BY <1>4, FreeEffect
  <2>2. /\ n \in Nat
        /\ chain' \in Seq(Pool)
        /\ Len(chain') = n + 1
        /\ \A k \in 1 .. n : chain'[k] = chain[k]
        /\ chain'[n + 1] = b
    BY <1>0, <2>1, AddLast
  <2>3. /\ fs' \in FileSystem
        /\ fs'.maxAlloc = fs.maxAlloc
        /\ fs'.freelist_head = b
        /\ fs'.blk = [fs.blk EXCEPT ![b] = FreeBlock(h)]
    <3>1. h \in Int /\ b \in Int
      BY <1>0, PoolFacts
    <3>2. FreeBlock(h) \in [Word -> Int]
      BY <3>1, FreeBlockType
    <3>3. [fs.blk EXCEPT ![b] = FreeBlock(h)] \in [DataRegion -> [Word -> Int]]
      BY <1>0, <3>2 DEF FileSystem
    <3>4. QED
      BY <1>0, <2>1, <3>1, <3>3 DEF FileSystem
  <2>4. TypeOK'
    BY <1>0, <1>1, <2>2, <2>3 DEF TypeOK
  <2>5. \A k \in 1 .. n : chain[k] \in Pool /\ chain[k] # b
    BY <1>0, <1>1 DEF OnList
  <2>6. fs'.blk[b] = FreeBlock(h)
    BY <1>0, <2>3, PoolFacts DEF FileSystem
  <2>7. \A k \in 1 .. n : fs'.blk[chain[k]] = fs.blk[chain[k]]
    BY <1>0, <2>3, <2>5, PoolFacts DEF FileSystem
  <2>8. h = IF n + 1 = 1 THEN 0 ELSE chain'[n + 1 - 1]
    <3>1. CASE chain = << >>
      BY <3>1, EmptyList
    <3>2. CASE chain # << >>
      <4>1. n > 0 /\ chain[n] = h
        BY <3>2, EmptyList
      <4>2. n \in 1 .. n /\ n + 1 # 1 /\ n + 1 - 1 = n
        BY <2>2, <4>1
      <4>3. chain'[n] = h
        BY <2>2, <4>1, <4>2
      <4>4. QED
        BY <4>2, <4>3
    <3>3. QED
      BY <3>1, <3>2
  <2>9. ListOnDisk'
    <3>1. fs'.freelist_head = IF chain' = << >> THEN 0 ELSE chain'[Len(chain')]
      <4>1. ~(chain' = << >>)
        BY <2>2, EmptySeq
      <4>2. fs'.freelist_head = chain'[Len(chain')]
        BY <2>2, <2>3
      <4>3. QED
        BY <4>1, <4>2
    <3>2. ASSUME NEW k \in 1 .. (n + 1)
          PROVE  fs'.blk[chain'[k]] = FreeBlock(IF k = 1 THEN 0 ELSE chain'[k - 1])
      <4>1. CASE k = n + 1
        BY <2>2, <2>6, <2>8, <4>1
      <4>2. CASE k \in 1 .. n
        <5>1. k = 1 \/ k - 1 \in 1 .. n
          BY <2>2, <4>2
        <5>2. fs.blk[chain[k]] = FreeBlock(IF k = 1 THEN 0 ELSE chain[k - 1])
          BY <4>2 DEF Inv, FreeListExact, ListOnDisk
        <5>3. fs'.blk[chain'[k]] = fs.blk[chain[k]]
          BY <2>2, <2>7, <4>2
        <5>4. CASE k = 1
          BY <5>2, <5>3, <5>4
        <5>5. CASE k - 1 \in 1 .. n
          <6>1. chain'[k - 1] = chain[k - 1]
            BY <2>2, <5>5
          <6>2. QED
            BY <5>2, <5>3, <6>1
        <5>6. QED
          BY <5>1, <5>4, <5>5
      <4>3. k = n + 1 \/ k \in 1 .. n
        BY <2>2, <3>2
      <4>4. QED
        BY <4>1, <4>2, <4>3
    <3>3. ASSUME NEW j \in 1 .. (n + 1), NEW k \in 1 .. (n + 1), chain'[j] = chain'[k]
          PROVE  j = k
      <4>1. /\ j = n + 1 \/ j \in 1 .. n
            /\ k = n + 1 \/ k \in 1 .. n
        BY <2>2, <3>3
      <4>2. \A i \in 1 .. n : chain'[i] = chain[i] /\ chain'[i] # b
        BY <2>2, <2>5
      <4>3. \A i, l \in 1 .. n : chain[i] = chain[l] => i = l
        BY DEF Inv, FreeListExact, ListOnDisk
      <4>4. chain'[n + 1] = b
        BY <2>2
      <4> HIDE DEF n
      <4>5. QED
        BY <3>3, <4>1, <4>2, <4>3, <4>4
    <3>4. QED
      BY <2>2, <3>1, <3>2, <3>3 DEF ListOnDisk
  <2>10. OnList' = OnList \union {b}
    <3>1. OnList' = {chain'[k] : k \in 1 .. (n + 1)}
      BY <2>2 DEF OnList
    <3>2. \A k : k \in 1 .. (n + 1) <=> k \in 1 .. n \/ k = n + 1
      BY <2>2
    <3>3. OnList = {chain[k] : k \in 1 .. n}
      BY DEF OnList
    <3> HIDE DEF n
    <3>4. QED
      BY <2>2, <3>1, <3>2, <3>3
  <2>11. Partition'
    BY <1>1, <1>2, <2>3, <2>10 DEF Inv, FreeListExact, Partition
  <2>12. QED
    BY <2>4, <2>9, <2>11 DEF Inv, FreeListExact
<1>5. QED
  BY <1>3, <1>4

\* A caller writes to a block it holds, which is not on the list.
LEMMA WriteInv ==
  ASSUME NEW b \in Pool, NEW buffer \in Payload
  PROVE  Inv /\ Write(b, buffer) => Inv'
<1> SUFFICES ASSUME Inv, Write(b, buffer) PROVE Inv'
  OBVIOUS
<1>1. fs \in FileSystem /\ b \in DataRegion /\ buffer \in [Word -> Int]
  BY PoolFacts, PayloadAssumption DEF Inv, TypeOK
<1>2. /\ fs' = [fs EXCEPT !.blk = [fs.blk EXCEPT ![b] = buffer]]
      /\ UNCHANGED <<held, ret, chain>>
      /\ b \in held
  BY <1>1 DEF Write, write_data_block
<1>3. /\ fs' \in FileSystem
      /\ fs'.maxAlloc = fs.maxAlloc
      /\ fs'.freelist_head = fs.freelist_head
      /\ fs'.blk = [fs.blk EXCEPT ![b] = buffer]
  <2>1. [fs.blk EXCEPT ![b] = buffer] \in [DataRegion -> [Word -> Int]]
    BY <1>1 DEF FileSystem
  <2>2. QED
    BY <1>1, <1>2, <2>1 DEF FileSystem
<1>4. TypeOK'
  BY <1>2, <1>3 DEF Inv, TypeOK
<1>5. b \notin OnList
  BY <1>2 DEF Inv, FreeListExact, Partition
<1>6. \A k \in 1 .. Len(chain) : fs'.blk[chain[k]] = fs.blk[chain[k]]
  <2>1. \A k \in 1 .. Len(chain) : chain[k] \in Pool /\ chain[k] # b
    BY <1>5 DEF Inv, TypeOK, OnList
  <2>2. QED
    BY <1>1, <1>3, <2>1, PoolFacts DEF FileSystem
<1>7. ListOnDisk'
  BY <1>2, <1>3, <1>6 DEF Inv, FreeListExact, ListOnDisk
<1>8. Partition'
  BY <1>2, <1>3 DEF Inv, FreeListExact, Partition, OnList
<1>9. QED
  BY <1>4, <1>7, <1>8 DEF Inv, FreeListExact

\* The invariant reads the state variables only.
LEMMA StutterInv == Inv /\ UNCHANGED vars => Inv'
  BY DEF Inv, TypeOK, FreeListExact, ListOnDisk, Partition, OnList, vars

\* Every step of the allocator keeps the invariant.
LEMMA NextInv == Inv /\ [Next]_vars => Inv'
  BY AllocateInv, FreeInv, WriteInv, StutterInv DEF Next

\* The inductive invariant, types and exact free list together, holds in every
\* state the calls of allocate_data_block, write_data_block and free_data_block
\* reach.
THEOREM InvCorrect == Spec => []Inv
  BY InitInv, NextInv, PTL DEF Spec

-----------------------------------------------------------------------------
(* The results *)

\* Every reachable state of the allocator is well typed: maxAlloc stays inside
\* the pool and the head of the free list is 0 or a block of the pool
\* (data_block_operation.cpp, all of it).
THEOREM TypeCorrect == Spec => []TypeOK
<1>1. Inv => TypeOK
  BY DEF Inv
<1>2. QED
  BY <1>1, InvCorrect, PTL

\* The free list on the disk is exact in every reachable state: no cycle, no
\* block twice, no block lost and none both free and in use, whatever the order
\* of the calls of allocate_data_block, write_data_block and free_data_block.
THEOREM FreeListCorrect == Spec => []FreeListExact
<1>1. Inv => FreeListExact
  BY DEF Inv
<1>2. QED
  BY <1>1, InvCorrect, PTL

\* The chain of the model is the list that the links on the disk make.
LEMMA OnDisk ==
  ASSUME Inv
  PROVE  /\ chain \in Seq(DataRegion) /\ Elements(chain) = OnList
         /\ Chain([b \in DataRegion |-> fs.blk[b][0]], fs.freelist_head, chain)
<1> DEFINE word == [b \in DataRegion |-> fs.blk[b][0]]
<1>1. chain \in Seq(Pool) /\ Len(chain) \in Nat /\ \A k \in 1 .. Len(chain) : chain[k] \in Pool
  BY DEF Inv, TypeOK
<1>2. chain \in Seq(DataRegion)
  BY <1>1, PoolFacts
<1>3. fs.freelist_head = IF Len(chain) = 0 THEN 0 ELSE chain[Len(chain)]
  BY <1>1 DEF Inv, FreeListExact, ListOnDisk
<1>4. ASSUME NEW k \in 1 .. Len(chain)
      PROVE  word[chain[k]] = IF k = 1 THEN 0 ELSE chain[k - 1]
  <2> DEFINE next == IF k = 1 THEN 0 ELSE chain[k - 1]
  <2>1. next \in Int
    <3>1. k # 1 => k - 1 \in 1 .. Len(chain)
      BY <1>1
    <3> QED
      BY <1>1, <3>1, PoolFacts
  <2>2. fs.blk[chain[k]] = FreeBlock(next)
    BY DEF Inv, FreeListExact, ListOnDisk
  <2>3. FreeBlock(next)[0] = next
    BY <2>1, FreeBlockType
  <2> QED
    BY <1>1, <2>2, <2>3, PoolFacts
<1>5. Distinct(chain)
  BY DEF Inv, FreeListExact, ListOnDisk, Distinct
<1> QED
  BY <1>2, <1>3, <1>4, <1>5 DEF Chain, Elements, OnList

\* The blocks on the list are those below the marker that are not in use.
LEMMA ListLength ==
  ASSUME Inv
  PROVE  Len(chain) = fs.maxAlloc - FirstDataBlock - Cardinality(held) /\ Len(chain) < BLOCK_COUNT
<1> DEFINE below == FirstDataBlock .. (fs.maxAlloc - 1)
<1>1. fs.maxAlloc \in FirstDataBlock .. NUM_OF_DATA_BLOCKS /\ FirstDataBlock \in Nat /\ FirstDataBlock > 0
      /\ fs.maxAlloc \in Nat /\ fs.maxAlloc < BLOCK_COUNT /\ BLOCK_COUNT \in Nat
  BY PoolFacts, DiskAssumption DEF Inv, TypeOK, NUM_OF_DATA_BLOCKS
<1>2. IsFiniteSet(below) /\ Cardinality(below) = fs.maxAlloc - FirstDataBlock
  <2> DEFINE last == fs.maxAlloc - 1
  <2>1. last \in Int /\ FirstDataBlock \in Int /\ last = fs.maxAlloc - 1
    BY <1>1
  <2> HIDE DEF last
  <2>2. IsFiniteSet(FirstDataBlock .. last)
        /\ Cardinality(FirstDataBlock .. last) = IF FirstDataBlock > last THEN 0 ELSE last - FirstDataBlock + 1
    BY <2>1, FS_Interval
  <2> QED
    BY <1>1, <2>1, <2>2
<1>3. held \union OnList = below /\ held \intersect OnList = {}
  BY DEF Inv, FreeListExact, Partition
<1> HIDE DEF below
<1>4. IsFiniteSet(held) /\ IsFiniteSet(OnList) /\ Cardinality(held) \in Nat /\ Cardinality(OnList) \in Nat
  BY <1>2, <1>3, FS_Subset, FS_CardinalityType
<1>5. Cardinality(below) = Cardinality(held) + Cardinality(OnList)
  <2>1. Cardinality(held \union OnList)
          = Cardinality(held) + Cardinality(OnList) - Cardinality(held \intersect OnList)
    BY <1>4, FS_Union
  <2>2. Cardinality(held \intersect OnList) = 0
    BY <1>3, FS_EmptySet
  <2> QED
    BY <1>3, <1>4, <2>1, <2>2
<1>6. Len(chain) = Cardinality(OnList)
  <2>1. chain \in Seq(OnList) /\ Distinct(chain) /\ Elements(chain) = OnList
    BY OnDisk DEF Chain, OnList, Inv, TypeOK
  <2> QED
    BY <1>4, <2>1, DistinctCount
<1> QED
  BY <1>1, <1>2, <1>4, <1>5, <1>6

\* getFreeListLength, the walk of the tests along the links, ends and counts every
\* free block, whatever was allocated, written and freed before.
THEOREM WalkCorrect == Spec => []WalkAgrees
<1>1. ASSUME Inv, fs.freelist_head # 0
      PROVE  getFreeListLength = fs.maxAlloc - FirstDataBlock - Cardinality(held)
  <2> DEFINE Link(b) == IF b \in DataRegion THEN fs.blk[b][0] ELSE 0
             current[n \in 1 .. BLOCK_COUNT] == IF n = 1 THEN fs.freelist_head ELSE Link(current[n - 1])
             Ends(n) == (n = BLOCK_COUNT \/ current[n + 1] = 0) /\ \A m \in 2 .. n : current[m] # 0
             N == BLOCK_COUNT - 1
             word == [b \in DataRegion |-> fs.blk[b][0]]
             walk == [n \in 0 .. N |-> NodeAt(chain, n)]
             g == [n \in 1 .. BLOCK_COUNT |-> walk[n - 1]]
  <2>1. getFreeListLength = CHOOSE n \in 1 .. BLOCK_COUNT : Ends(n)
    BY DEF getFreeListLength
  <2>2. /\ chain \in Seq(DataRegion) /\ Chain(word, fs.freelist_head, chain)
        /\ 0 \notin DataRegion /\ N \in Nat /\ BLOCK_COUNT \in Nat
        /\ Len(chain) \in Nat /\ Len(chain) > 0 /\ Len(chain) < BLOCK_COUNT
    <3>1. chain \in Seq(DataRegion) /\ Chain(word, fs.freelist_head, chain)
      BY <1>1, OnDisk
    <3>2. Len(chain) > 0 /\ Len(chain) \in Nat /\ Len(chain) < BLOCK_COUNT
      BY <1>1, <3>1, ListLength DEF Chain
    <3>3. 0 \notin DataRegion /\ BLOCK_COUNT \in Nat
      BY PoolFacts, DiskAssumption DEF DataRegion
    <3> QED
      BY <3>1, <3>2, <3>3
  <2> HIDE DEF word
  <2>3. \A n \in 0 .. N :
          walk[n] = IF n = 0 THEN fs.freelist_head
                    ELSE IF walk[n - 1] \in DataRegion THEN word[walk[n - 1]] ELSE 0
    BY <2>2, WalkExists
  <2> HIDE DEF walk
  <2>4. \A b : Link(b) = IF b \in DataRegion THEN word[b] ELSE 0
    BY DEF word
  <2>5. \A n \in 1 .. BLOCK_COUNT : g[n] = IF n = 1 THEN fs.freelist_head ELSE Link(g[n - 1])
    <3>1. ASSUME NEW n \in 1 .. BLOCK_COUNT
          PROVE  g[n] = IF n = 1 THEN fs.freelist_head ELSE Link(g[n - 1])
      <4>1. g[n] = walk[n - 1] /\ n - 1 \in 0 .. N /\ (n # 1 => g[n - 1] = walk[(n - 1) - 1])
        BY <2>2
      <4>2. walk[n - 1] = IF n - 1 = 0 THEN fs.freelist_head
                          ELSE IF walk[(n - 1) - 1] \in DataRegion THEN word[walk[(n - 1) - 1]] ELSE 0
        BY <2>3, <4>1
      <4> QED
        BY <2>2, <2>4, <4>1, <4>2
    <3> QED
      BY <3>1
  <2>6. current = [n \in 1 .. BLOCK_COUNT |-> IF n = 1 THEN fs.freelist_head ELSE Link(current[n - 1])]
    <3>1. g = [n \in 1 .. BLOCK_COUNT |-> IF n = 1 THEN fs.freelist_head ELSE Link(g[n - 1])]
      BY <2>5
    <3> HIDE DEF g, Link
    <3> QED
      BY <3>1
  <2> HIDE DEF current, Link, g
  <2>7. /\ current[1] = fs.freelist_head
        /\ Follows(DataRegion, word, current, 2, BLOCK_COUNT)
    <3>1. \A n \in 1 .. BLOCK_COUNT :
            current[n] = IF n = 1 THEN fs.freelist_head ELSE Link(current[n - 1])
      BY <2>6
    <3>2. current[1] = fs.freelist_head
      BY <2>2, <3>1
    <3>3. ASSUME NEW n \in 2 .. BLOCK_COUNT
          PROVE  current[n] = IF current[n - 1] \in DataRegion THEN word[current[n - 1]] ELSE 0
      <4>1. n \in 1 .. BLOCK_COUNT /\ n # 1
        BY <2>2
      <4>2. current[n] = Link(current[n - 1])
        BY <3>1, <4>1
      <4> QED
        BY <2>4, <4>2
    <3> QED
      BY <3>2, <3>3 DEF Follows
  <2>8. \A n \in 1 .. BLOCK_COUNT : current[n] = NodeAt(chain, n - 1)
    BY <2>2, <2>7, WalkFromOne
  <2>9. \A n \in 1 .. BLOCK_COUNT : current[n] = 0 <=> n > Len(chain)
    <3>1. \A k \in 1 .. Len(chain) : chain[k] \in DataRegion /\ chain[k] # 0
      BY <2>2
    <3>2. ASSUME NEW n \in 1 .. BLOCK_COUNT PROVE current[n] = 0 <=> n > Len(chain)
      <4>1. current[n] = NodeAt(chain, n - 1)
        BY <2>8
      <4>2. CASE n - 1 < Len(chain)
        <5>1. Len(chain) - (n - 1) \in 1 .. Len(chain) /\ ~(n > Len(chain))
          BY <2>2, <4>2
        <5> QED
          BY <3>1, <4>1, <4>2, <5>1 DEF NodeAt
      <4>3. CASE ~(n - 1 < Len(chain))
        <5>1. n > Len(chain)
          BY <2>2, <4>3
        <5> QED
          BY <4>1, <4>3, <5>1 DEF NodeAt
      <4> QED
        BY <4>2, <4>3
    <3> QED
      BY <3>2
  <2>10. \A n \in 1 .. BLOCK_COUNT : Ends(n) <=> n = Len(chain)
    <3>1. ASSUME NEW n \in 1 .. BLOCK_COUNT, Ends(n) PROVE n = Len(chain)
      <4>1. ~(n > Len(chain))
        <5>1. CASE n = 1
          BY <2>2, <5>1
        <5>2. CASE n # 1
          BY <2>2, <2>9, <3>1, <5>2
        <5> QED
          BY <5>1, <5>2
      <4>2. n + 1 > Len(chain)
        <5>1. CASE n = BLOCK_COUNT
          BY <2>2, <5>1
        <5>2. CASE n # BLOCK_COUNT
          <6>1. n + 1 \in 1 .. BLOCK_COUNT /\ current[n + 1] = 0
            BY <2>2, <3>1, <5>2
          <6> QED
            BY <2>9, <6>1
        <5> QED
          BY <5>1, <5>2
      <4> QED
        BY <2>2, <4>1, <4>2
    <3>2. Ends(Len(chain))
      <4>1. Len(chain) + 1 \in 1 .. BLOCK_COUNT /\ Len(chain) + 1 > Len(chain)
        BY <2>2
      <4>2. \A m \in 2 .. Len(chain) : m \in 1 .. BLOCK_COUNT /\ ~(m > Len(chain))
        BY <2>2
      <4> QED
        BY <2>9, <4>1, <4>2
    <3> QED
      BY <2>2, <3>1, <3>2
  <2> HIDE DEF Ends
  <2>11. getFreeListLength = Len(chain)
    BY <2>1, <2>2, <2>10
  <2> QED
    BY <1>1, <2>11, ListLength
<1>2. Inv => WalkAgrees
  BY <1>1 DEF WalkAgrees
<1> QED
  BY <1>2, InvCorrect, PTL

\* A block that allocate_data_block hands out is zero behind word 0.
THEOREM CleanCorrect == Spec => AllocatedClean
<1> DEFINE Clean == \A b \in held' \ held : \A w \in Word \ {0} : fs'.blk[b][w] = 0
<1>1. ASSUME Inv, Allocate PROVE Clean
  <2>0. fs \in FileSystem
    BY <1>1 DEF Inv, TypeOK
  <2>1. CASE NoBlockLeft(fs)
    BY <1>1, <2>1, AllocateRefused
  <2>2. CASE fs.maxAlloc # NUM_OF_DATA_BLOCKS
    <3>1. /\ held' = held \union {fs.maxAlloc}
          /\ fs.maxAlloc \in DataRegion
          /\ fs'.blk = [fs.blk EXCEPT ![fs.maxAlloc] = ZeroBlock]
      BY <1>1, <2>0, <2>2, AllocateFresh, PoolFacts DEF FileSystem
    <3>2. fs'.blk[fs.maxAlloc] = ZeroBlock
      BY <2>0, <3>1 DEF FileSystem
    <3>3. QED
      BY <3>1, <3>2 DEF ZeroBlock
  <2>3. CASE fs.maxAlloc = NUM_OF_DATA_BLOCKS /\ ~NoBlockLeft(fs)
    <3>1. /\ held' = held \union {fs.freelist_head}
          /\ fs'.blk = fs.blk
          /\ chain # << >>
      BY <1>1, <2>0, <2>3, AllocateReused DEF FileSystem
    <3>2. /\ Len(chain) \in Nat /\ Len(chain) > 0
          /\ chain[Len(chain)] = fs.freelist_head
      BY <1>1, <3>1, EmptyList
    <3>3. Len(chain) \in 1 .. Len(chain)
      BY <3>2
    <3>4. PICK next : fs.blk[fs.freelist_head] = FreeBlock(next)
      BY <1>1, <3>2, <3>3 DEF Inv, FreeListExact, ListOnDisk
    <3>5. \A w \in Word \ {0} : FreeBlock(next)[w] = 0
      BY DEF FreeBlock
    <3>6. QED
      BY <3>1, <3>4, <3>5
  <2>4. QED
    BY <2>1, <2>2, <2>3 DEF NoBlockLeft
<1>2. ASSUME NEW b \in Pool, Free(b) PROVE Clean
  BY <1>2 DEF Free
<1>3. ASSUME NEW b \in Pool, NEW buffer \in Payload, Write(b, buffer) PROVE Clean
  BY <1>3 DEF Write
<1>4. Inv /\ [Next]_vars => [Clean]_vars
  BY <1>1, <1>2, <1>3 DEF Next
<1>5. QED
  BY <1>4, InvCorrect, PTL DEF Spec, AllocatedClean

\* The data block layer is a pool: a block is handed out to one caller at a
\* time, a call is refused only when the whole pool is in use, and a block given
\* back can be handed out again.
THEOREM PoolCorrect == Spec => ImplementsPool
<1>1. Init => PoolSpec!Init
  BY DEF Init, PoolSpec!Init
<1>2. ASSUME Inv, Allocate PROVE PoolSpec!Next
  <2>1. CASE NoBlockLeft(fs)
    BY <1>2, <2>1, AllocateRefused DEF PoolSpec!Next, PoolSpec!Refuse
  <2>2. CASE fs.maxAlloc # NUM_OF_DATA_BLOCKS
    <3>1. PoolSpec!Acquire(fs.maxAlloc) /\ fs.maxAlloc \in Pool
      BY <1>2, <2>2, AllocateFresh DEF PoolSpec!Acquire
    <3>2. QED
      BY <3>1 DEF PoolSpec!Next
  <2>3. CASE fs.maxAlloc = NUM_OF_DATA_BLOCKS /\ ~NoBlockLeft(fs)
    <3>1. PoolSpec!Acquire(fs.freelist_head) /\ fs.freelist_head \in Pool
      BY <1>2, <2>3, AllocateReused DEF PoolSpec!Acquire
    <3>2. QED
      BY <3>1 DEF PoolSpec!Next
  <2>4. QED
    BY <2>1, <2>2, <2>3 DEF NoBlockLeft
<1>3. ASSUME NEW b \in Pool, Free(b) PROVE PoolSpec!Next
  BY <1>3 DEF Free, PoolSpec!Next, PoolSpec!Release
<1>4. ASSUME NEW b \in Pool, NEW buffer \in Payload, Write(b, buffer)
      PROVE  UNCHANGED PoolSpec!vars
  BY <1>4 DEF Write, PoolSpec!vars
<1>5. UNCHANGED vars => UNCHANGED PoolSpec!vars
  BY DEF vars, PoolSpec!vars
<1>6. Inv /\ [Next]_vars => [PoolSpec!Next]_PoolSpec!vars
  BY <1>2, <1>3, <1>4, <1>5 DEF Next
<1>7. QED
  BY <1>1, <1>6, InvCorrect, PTL DEF Spec, ImplementsPool, PoolSpec!Spec
=============================================================================
