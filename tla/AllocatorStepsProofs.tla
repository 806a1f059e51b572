------------------------ MODULE AllocatorStepsProofs ------------------------
(***************************************************************************)
(* Theorems about the accesses of allocate_data_block and free_data_block  *)
(* when one thread makes them, for every size of the device, whatever the  *)
(* callers write, and any number of crashes and of failed accesses.        *)
(***************************************************************************)
EXTENDS AllocatorSteps, Facts

\* The handlers run one after the other.
OneThread == \E t : Thread = {t}

Me == CHOOSE t : Thread = {t}

Pc == op[Me].pc

Accesses ==
  {"idle", "test", "branch", "load", "store", "zero", "head", "read", "relink", "save",
   "compare", "rewind", "saveLast", "link", "push", "saveHead", "writeLink"}

Typed ==
  /\ TypeOK
  /\ op \in [Thread -> [pc : Accesses, block : Int, word : Int]]
  /\ cut \in BOOLEAN

\* What the function knows at an access from the tests and reads before it.
Local ==
  LET max   == fs_superblock.maxAlloc
      head  == fs_superblock.freelist_head
      block == op[Me].block
  IN  /\ Pc = "branch" => ~(head = 0 /\ max = NUM_OF_DATA_BLOCKS)
      /\ Pc \in {"load", "store"} => max # NUM_OF_DATA_BLOCKS
      /\ Pc = "store" => block = max
      /\ Pc = "zero" => block = max - 1 /\ block >= FirstDataBlock
      /\ Pc \in {"head", "read", "relink"} => head # 0
      /\ Pc \in {"read", "relink"} => block = head
      /\ Pc = "relink" /\ ~cut => op[Me].word = disk.word[block]
      /\ Pc = "save" /\ ~cut => block \in FirstDataBlock .. (max - 1)
      /\ Pc \in {"compare", "rewind", "saveLast", "link", "push", "saveHead", "writeLink"} =>
           block \in DataRegion
      /\ Pc \in {"compare", "rewind", "link", "push", "saveHead", "writeLink"} /\ ~cut => block < max
      /\ Pc = "rewind" => block = max - 1
      /\ Pc = "push" => op[Me].word = head
      /\ Pc \in {"saveHead", "writeLink"} => head = block

Below(max) == FirstDataBlock .. (max - 1)

\* A superblock (max, head) and the links on the disk fit the blocks in use: the
\* list ends, neither list, blocks in use nor extra overlap, and at most n blocks
\* below max are none of them.
Layout(word, inUse, max, head, extra, n) ==
  \E c \in Seq(DataRegion) :
    /\ Chain(word, head, c)
    /\ Elements(c) \union inUse \subseteq Below(max)
    /\ Elements(c) \intersect (inUse \union extra) = {} /\ inUse \intersect extra = {}
    /\ Cardinality(Below(max) \ (inUse \union Elements(c) \union extra)) <= n

\* The block between list and caller, as the superblock in memory has it.
InFlight ==
  IF Pc \in {"zero", "save", "compare", "rewind", "link", "push", "saveHead", "writeLink"}
  THEN {op[Me].block} ELSE {}

\* The head of the list that is linked on the disk.
LinkedHead == IF Pc \in {"saveHead", "writeLink"} THEN op[Me].word ELSE fs_superblock.freelist_head

InMemory ==
  ~cut => Layout(disk.word, held[Me], fs_superblock.maxAlloc, LinkedHead, InFlight, crashes + faults)

\* The block that a caller gave up and the superblock on the disk still has.
Freeing ==
  IF Pc \in {"compare", "rewind", "saveLast", "link", "push", "saveHead"} THEN {op[Me].block} ELSE {}

OnDisk ==
  ~cut /\ Pc # "writeLink" =>
    Layout(disk.word, held[Me], disk.sb.maxAlloc, disk.sb.freelist_head, Freeing, crashes + faults)

\* The superblock on the disk is never ahead of the one in memory.
Behind ==
  ~cut =>
    /\ Pc # "saveLast" => disk.sb.maxAlloc <= fs_superblock.maxAlloc
    /\ Pc = "zero" => disk.sb.maxAlloc <= op[Me].block
    /\ Pc = "writeLink" => disk.sb = fs_superblock

CutPaid == cut => crashes + faults > 0

Inv == Typed /\ Local /\ InMemory /\ OnDisk /\ Behind /\ CutPaid

-----------------------------------------------------------------------------
(* The device and the free list *)

LEMMA Sizes ==
  /\ NUM_OF_DATA_BLOCKS \in Nat /\ FirstDataBlock \in Nat /\ FirstDataBlock > 0
  /\ FirstDataBlock <= NUM_OF_DATA_BLOCKS
  /\ \A b \in FirstDataBlock .. (NUM_OF_DATA_BLOCKS - 1) : b \in DataRegion
  /\ \A b \in DataRegion : b \in Nat /\ b > 0
  /\ DataRegion \subseteq Int /\ 0 \notin DataRegion /\ BLOCK_COUNT \in Nat
  BY StepsAssumption DEF NUM_OF_DATA_BLOCKS, FirstDataBlock, DataRegion

LEMMA JustMe == OneThread => Thread = {Me} /\ Me \in Thread
  BY DEF OneThread, Me

\* The walk of a free list that is a chain ends, and meets the blocks of the chain.
LEMMA FreeList ==
  ASSUME NEW head, NEW c \in Seq(DataRegion), Chain(disk.word, head, c)
  PROVE  /\ FreeListBlock(head)[BLOCK_COUNT] = 0
         /\ OnList(head) = Elements(c)
<1> DEFINE g == [n \in 0 .. BLOCK_COUNT |-> NodeAt(c, n)]
           f == FreeListBlock(head)
<1>1. \A n \in 0 .. BLOCK_COUNT :
        g[n] = IF n = 0 THEN head ELSE IF g[n - 1] \in DataRegion THEN disk.word[g[n - 1]] ELSE 0
  BY WalkExists, Sizes
<1> HIDE DEF g
<1>2. g = [n \in 0 .. BLOCK_COUNT |-> IF n = 0 THEN head
             ELSE IF g[n - 1] \in DataRegion THEN disk.word[g[n - 1]] ELSE 0]
  BY <1>1 DEF g
<1>3. f = [n \in 0 .. BLOCK_COUNT |-> IF n = 0 THEN head
             ELSE IF f[n - 1] \in DataRegion THEN disk.word[f[n - 1]] ELSE 0]
  BY <1>2 DEF FreeListBlock
<1> HIDE DEF f
<1>4. /\ f[0] = head
      /\ Follows(DataRegion, disk.word, f, 1, BLOCK_COUNT)
  BY <1>3, Sizes DEF Follows
<1>5. \A n \in 0 .. BLOCK_COUNT : f[n] = NodeAt(c, n)
  BY <1>4, Walk, Sizes
<1>6. Len(c) <= BLOCK_COUNT /\ Len(c) \in Nat /\ \A k \in 1 .. Len(c) : c[k] \in DataRegion
  <2>1. IsFiniteSet(DataRegion) /\ Cardinality(DataRegion) <= BLOCK_COUNT
    <3>1. /\ IsFiniteSet(DataRegion)
          /\ Cardinality(DataRegion) = IF FirstDataBlock > BLOCK_COUNT - 1 THEN 0
                                       ELSE BLOCK_COUNT - 1 - FirstDataBlock + 1
      BY Sizes, FS_Interval DEF DataRegion
    <3> QED
      BY <3>1, Sizes
  <2>2. Len(c) <= Cardinality(DataRegion) /\ Cardinality(DataRegion) \in Nat
    BY <2>1, DistinctCount DEF Chain
  <2> QED
    BY <2>1, <2>2, Sizes
<1>7. f[BLOCK_COUNT] = 0
  BY <1>5, <1>6, Sizes DEF NodeAt
<1>8. ASSUME NEW n \in 0 .. BLOCK_COUNT, f[n] # 0
      PROVE  f[n] \in Elements(c)
  <2>1. n < Len(c) /\ f[n] = c[Len(c) - n] /\ Len(c) - n \in 1 .. Len(c)
    BY <1>5, <1>6, <1>8 DEF NodeAt
  <2> QED
    BY <2>1 DEF Elements
<1>9. ASSUME NEW k \in 1 .. Len(c)
      PROVE  \E n \in 0 .. BLOCK_COUNT : f[n] = c[k] /\ c[k] # 0
  <2>1. Len(c) - k \in 0 .. BLOCK_COUNT /\ Len(c) - k < Len(c) /\ Len(c) - (Len(c) - k) = k
    BY <1>6, Sizes
  <2>2. f[Len(c) - k] = c[k] /\ c[k] # 0
    BY <1>5, <1>6, <2>1, Sizes DEF NodeAt
  <2> QED
    BY <2>1, <2>2
<1>10. OnList(head) = Elements(c)
  BY <1>8, <1>9 DEF OnList, Elements, f
<1> QED
  BY <1>7, <1>10 DEF f

\* The blocks that a superblock counts as allocated are finitely many.
LEMMA BelowFinite ==
  ASSUME NEW max \in Int
  PROVE  IsFiniteSet(Below(max)) /\ \A S : IsFiniteSet(Below(max) \ S) /\ Cardinality(Below(max) \ S) \in Nat
<1>1. IsFiniteSet(Below(max))
  BY FS_Interval, Sizes DEF Below
<1>2. ASSUME NEW S PROVE IsFiniteSet(Below(max) \ S) /\ Cardinality(Below(max) \ S) \in Nat
  BY <1>1, FS_Subset, FS_CardinalityType
<1> QED
  BY <1>1, <1>2

-----------------------------------------------------------------------------
(* What the accesses do to a layout *)

\* A write to a block that is not on the list.
LEMMA LayoutWrite ==
  ASSUME NEW word \in [DataRegion -> Int], NEW inUse, NEW max, NEW head, NEW extra, NEW n,
         Layout(word, inUse, max, head, extra, n),
         NEW b, b \in inUse \union extra \/ b \notin Below(max), NEW v
  PROVE  Layout([word EXCEPT ![b] = v], inUse, max, head, extra, n)
<1>1. PICK c \in Seq(DataRegion) :
        /\ Chain(word, head, c)
        /\ Elements(c) \union inUse \subseteq Below(max)
        /\ Elements(c) \intersect (inUse \union extra) = {} /\ inUse \intersect extra = {}
        /\ Cardinality(Below(max) \ (inUse \union Elements(c) \union extra)) <= n
  BY DEF Layout
<1>2. b \notin Elements(c)
  BY <1>1
<1>3. Chain([word EXCEPT ![b] = v], head, c)
  BY <1>1, <1>2, ChainKept
<1> QED
  BY <1>1, <1>3 DEF Layout

\* The extra block is lost.
LEMMA LayoutLose ==
  ASSUME NEW word, NEW inUse, NEW max \in Int, NEW head, NEW b, NEW n \in Nat,
         Layout(word, inUse, max, head, {b}, n)
  PROVE  Layout(word, inUse, max, head, {}, n + 1)
<1>1. PICK c \in Seq(DataRegion) :
        /\ Chain(word, head, c)
        /\ Elements(c) \union inUse \subseteq Below(max)
        /\ Elements(c) \intersect (inUse \union {b}) = {} /\ inUse \intersect {b} = {}
        /\ Cardinality(Below(max) \ (inUse \union Elements(c) \union {b})) <= n
  BY DEF Layout
<1> DEFINE L == Below(max) \ (inUse \union Elements(c) \union {b})
           K == Below(max) \ (inUse \union Elements(c) \union {})
<1>2. IsFiniteSet(L) /\ Cardinality(L) \in Nat /\ IsFiniteSet(K) /\ Cardinality(K) \in Nat
  BY BelowFinite
<1>3. K \subseteq L \union {b}
  OBVIOUS
<1>4. IsFiniteSet(L \union {b}) /\ Cardinality(L \union {b}) = Cardinality(L) + 1
  BY <1>2, FS_AddElement
<1>5. Cardinality(K) <= Cardinality(L \union {b})
  BY <1>3, <1>4, FS_Subset
<1>6. Cardinality(K) <= n + 1
  BY <1>1, <1>2, <1>4, <1>5
<1> QED
  BY <1>1, <1>6 DEF Layout

\* A bound that is larger.
LEMMA LayoutMore ==
  ASSUME NEW word, NEW inUse, NEW max \in Int, NEW head, NEW extra, NEW n \in Nat, NEW m \in Nat,
         n <= m, Layout(word, inUse, max, head, extra, n)
  PROVE  Layout(word, inUse, max, head, extra, m)
<1>1. PICK c \in Seq(DataRegion) :
        /\ Chain(word, head, c)
        /\ Elements(c) \union inUse \subseteq Below(max)
        /\ Elements(c) \intersect (inUse \union extra) = {} /\ inUse \intersect extra = {}
        /\ Cardinality(Below(max) \ (inUse \union Elements(c) \union extra)) <= n
  BY DEF Layout
<1>2. Cardinality(Below(max) \ (inUse \union Elements(c) \union extra)) \in Nat
  BY BelowFinite
<1>3. Cardinality(Below(max) \ (inUse \union Elements(c) \union extra)) <= m
  BY <1>1, <1>2
<1> QED
  BY <1>1, <1>3 DEF Layout

\* A layout that differs in max, in use and extra only in ways that cost no block.
LEMMA LayoutMoved ==
  ASSUME NEW word, NEW inUse, NEW max \in Int, NEW head, NEW extra, NEW n,
         Layout(word, inUse, max, head, extra, n),
         NEW inUse2, NEW max2 \in Int, NEW extra2,
         inUse2 \intersect extra2 = {}, inUse2 \subseteq Below(max2),
         \A b \in Below(max) \ inUse : b \notin extra => b \in Below(max2) \ (inUse2 \union extra2),
         \A b \in Below(max2) \ (inUse2 \union extra2) : b \in Below(max) \ (inUse \union extra)
  PROVE  Layout(word, inUse2, max2, head, extra2, n)
<1>1. PICK c \in Seq(DataRegion) :
        /\ Chain(word, head, c)
        /\ Elements(c) \union inUse \subseteq Below(max)
        /\ Elements(c) \intersect (inUse \union extra) = {} /\ inUse \intersect extra = {}
        /\ Cardinality(Below(max) \ (inUse \union Elements(c) \union extra)) <= n
  BY DEF Layout
<1>2. Elements(c) \subseteq Below(max2) \ (inUse2 \union extra2)
  BY <1>1
<1>3. Below(max2) \ (inUse2 \union Elements(c) \union extra2)
        = Below(max) \ (inUse \union Elements(c) \union extra)
  BY <1>1
<1> QED
  BY <1>1, <1>2, <1>3 DEF Layout

\* The head of the list becomes the extra block, its link the head.
LEMMA LayoutPop ==
  ASSUME NEW word, NEW inUse, NEW max \in Int, NEW head, head # 0, NEW n,
         Layout(word, inUse, max, head, {}, n)
  PROVE  /\ Layout(word, inUse, max, word[head], {head}, n)
         /\ head \in Below(max) /\ head \in DataRegion
<1>1. PICK c \in Seq(DataRegion) :
        /\ Chain(word, head, c)
        /\ Elements(c) \union inUse \subseteq Below(max)
        /\ Elements(c) \intersect (inUse \union {}) = {} /\ inUse \intersect {} = {}
        /\ Cardinality(Below(max) \ (inUse \union Elements(c) \union {})) <= n
  BY DEF Layout
<1>2. head \in Elements(c)
  BY <1>1, ChainPopped, Sizes
<1>3. PICK d \in Seq(DataRegion) : Chain(word, word[head], d) /\ Elements(d) = Elements(c) \ {head}
  BY <1>1, ChainPopped, Sizes
<1>4. Below(max) \ (inUse \union Elements(d) \union {head})
        = Below(max) \ (inUse \union Elements(c) \union {})
  BY <1>2, <1>3
<1>5. Elements(c) \subseteq DataRegion
  BY DEF Elements
<1>6. head \in Below(max) /\ head \in DataRegion /\ head \notin inUse
  BY <1>1, <1>2, <1>5
<1>7. Elements(d) \union inUse \subseteq Below(max) /\ head \notin Elements(d)
      /\ Elements(d) \intersect inUse = {}
  BY <1>1, <1>3
<1>8. Elements(d) \intersect (inUse \union {head}) = {} /\ inUse \intersect {head} = {}
  BY <1>6, <1>7
<1>9. Cardinality(Below(max) \ (inUse \union Elements(d) \union {head})) <= n
  BY <1>1, <1>4
<1>10. Layout(word, inUse, max, word[head], {head}, n)
  BY <1>3, <1>7, <1>8, <1>9 DEF Layout
<1> QED
  BY <1>6, <1>10

\* The extra block becomes the head, linked to the old one.
LEMMA LayoutPush ==
  ASSUME NEW word \in [DataRegion -> Int], NEW inUse, NEW max \in Int, NEW head, NEW n,
         NEW b \in DataRegion, b \in Below(max), Layout(word, inUse, max, head, {b}, n)
  PROVE  Layout([word EXCEPT ![b] = head], inUse, max, b, {}, n)
<1>1. PICK c \in Seq(DataRegion) :
        /\ Chain(word, head, c)
        /\ Elements(c) \union inUse \subseteq Below(max)
        /\ Elements(c) \intersect (inUse \union {b}) = {} /\ inUse \intersect {b} = {}
        /\ Cardinality(Below(max) \ (inUse \union Elements(c) \union {b})) <= n
  BY DEF Layout
<1>2. PICK e \in Seq(DataRegion) :
        Chain([word EXCEPT ![b] = head], b, e) /\ Elements(e) = Elements(c) \union {b}
  <2>1. b \notin Elements(c) /\ DOMAIN word = DataRegion
    BY <1>1
  <2> QED
    BY <1>1, <2>1, ChainPushed
<1>3. Below(max) \ (inUse \union Elements(e) \union {})
        = Below(max) \ (inUse \union Elements(c) \union {b})
  BY <1>2
<1>4. Elements(e) \union inUse \subseteq Below(max)
  BY <1>1, <1>2
<1>5. Elements(e) \intersect (inUse \union {}) = {} /\ inUse \intersect {} = {}
  BY <1>1, <1>2
<1>6. Cardinality(Below(max) \ (inUse \union Elements(e) \union {})) <= n
  BY <1>1, <1>3
<1> QED
  BY <1>2, <1>4, <1>5, <1>6 DEF Layout

\* With nothing lost and an empty list, every block below max is in use.
LEMMA LayoutFull ==
  ASSUME NEW word, NEW inUse, NEW max \in Int, Layout(word, inUse, max, 0, {}, 0)
  PROVE  Below(max) \subseteq inUse
<1>1. PICK c \in Seq(DataRegion) :
        /\ Chain(word, 0, c)
        /\ Cardinality(Below(max) \ (inUse \union Elements(c) \union {})) <= 0
  BY DEF Layout
<1> DEFINE L == Below(max) \ (inUse \union Elements(c) \union {})
<1>2. IsFiniteSet(L) /\ Cardinality(L) \in Nat
  BY BelowFinite
<1>3. L = {}
  <2>1. Cardinality(L) = 0
    BY <1>1, <1>2
  <2> HIDE DEF L
  <2> QED
    BY <1>2, <2>1, FS_EmptySet
<1>4. Len(c) = 0
  <2>1. Len(c) \in Nat /\ \A k \in 1 .. Len(c) : c[k] # 0
    BY Sizes
  <2> QED
    BY <1>1, <2>1 DEF Chain
<1>5. Elements(c) = {}
  BY <1>4 DEF Elements
<1> QED
  BY <1>3, <1>5

\* A layout in memory or on the disk is sound, and what is lost is counted.
LEMMA LayoutSound ==
  ASSUME OneThread, NEW sb, sb.maxAlloc \in Int, NEW extra, NEW n \in Nat,
         Layout(disk.word, held[Me], sb.maxAlloc, sb.freelist_head, extra, n),
         extra = {} \/ \E b : extra = {b}
  PROVE  Sound(sb) /\ Cardinality(Lost(sb)) <= n + Cardinality(extra) /\ Cardinality(Lost(sb)) \in Nat
<1>1. PICK c \in Seq(DataRegion) :
        /\ Chain(disk.word, sb.freelist_head, c)
        /\ Elements(c) \union held[Me] \subseteq Below(sb.maxAlloc)
        /\ Elements(c) \intersect (held[Me] \union extra) = {} /\ held[Me] \intersect extra = {}
        /\ Cardinality(Below(sb.maxAlloc) \ (held[Me] \union Elements(c) \union extra)) <= n
  BY DEF Layout
<1>2. InUse = held[Me]
  BY JustMe DEF InUse
<1>3. FreeListBlock(sb.freelist_head)[BLOCK_COUNT] = 0 /\ OnList(sb.freelist_head) = Elements(c)
  BY <1>1, FreeList
<1>4. Sound(sb)
  BY <1>1, <1>2, <1>3 DEF Sound, Allocated, Below
<1> DEFINE L == Below(sb.maxAlloc) \ (held[Me] \union Elements(c) \union extra)
<1>5. Lost(sb) = Below(sb.maxAlloc) \ (held[Me] \union Elements(c))
  BY <1>2, <1>3 DEF Lost, Allocated, Below
<1>6. IsFiniteSet(L) /\ Cardinality(L) \in Nat /\ IsFiniteSet(Lost(sb)) /\ Cardinality(Lost(sb)) \in Nat
  BY <1>5, BelowFinite
<1>7. CASE extra = {}
  <2>1. Lost(sb) = L
    BY <1>5, <1>7
  <2>2. Cardinality(extra) = 0
    BY <1>7, FS_EmptySet
  <2> QED
    BY <1>1, <1>4, <1>6, <2>1, <2>2
<1>8. ASSUME NEW b, extra = {b} PROVE Cardinality(Lost(sb)) <= n + Cardinality(extra)
  <2>1. Lost(sb) \subseteq L \union {b}
    BY <1>5, <1>8
  <2>2. IsFiniteSet(L \union {b}) /\ Cardinality(L \union {b}) <= Cardinality(L) + 1
        /\ Cardinality(L \union {b}) \in Nat
    <3> HIDE DEF L
    <3>1. IsFiniteSet(L \union {b})
          /\ (Cardinality(L \union {b}) = Cardinality(L) \/ Cardinality(L \union {b}) = Cardinality(L) + 1)
      BY <1>6, FS_AddElement
    <3> QED
      BY <1>6, <3>1
  <2>3. Cardinality(Lost(sb)) <= Cardinality(L \union {b})
    BY <2>1, <2>2, FS_Subset
  <2>4. Cardinality(extra) = 1
    BY <1>8, FS_Singleton
  <2> QED
    BY <1>1, <1>6, <2>2, <2>3, <2>4
<1> QED
  BY <1>4, <1>6, <1>7, <1>8

-----------------------------------------------------------------------------
(* One lemma for each access *)

\* What a step does to the locals of the thread.
LEMMA Locals ==
  ASSUME OneThread, Typed
  PROVE  /\ Pc \in Accesses /\ op[Me].block \in Int /\ op[Me].word \in Int
         /\ \A pc \in Accesses : Go(Me, pc) =>
              /\ op' \in [Thread -> [pc : Accesses, block : Int, word : Int]]
              /\ Pc' = pc /\ op'[Me].block = op[Me].block /\ op'[Me].word = op[Me].word
         /\ \A pc \in Accesses, b \in Int : Note(Me, pc, b) =>
              /\ op' \in [Thread -> [pc : Accesses, block : Int, word : Int]]
              /\ Pc' = pc /\ op'[Me].block = b /\ op'[Me].word = op[Me].word
         /\ op' = [op EXCEPT ![Me] = Idle] =>
              /\ op' \in [Thread -> [pc : Accesses, block : Int, word : Int]]
              /\ Pc' = "idle"
<1>1. Me \in Thread
  BY JustMe
<1>2. Pc \in Accesses /\ op[Me].block \in Int /\ op[Me].word \in Int
  BY <1>1 DEF Typed, Pc
<1>3. ASSUME NEW pc \in Accesses, Go(Me, pc)
      PROVE  /\ op' \in [Thread -> [pc : Accesses, block : Int, word : Int]]
             /\ Pc' = pc /\ op'[Me].block = op[Me].block /\ op'[Me].word = op[Me].word
  BY <1>1, <1>3 DEF Typed, Pc, Go
<1>4. ASSUME NEW pc \in Accesses, NEW b \in Int, Note(Me, pc, b)
      PROVE  /\ op' \in [Thread -> [pc : Accesses, block : Int, word : Int]]
             /\ Pc' = pc /\ op'[Me].block = b /\ op'[Me].word = op[Me].word
  BY <1>1, <1>4 DEF Typed, Pc, Note
<1>5. ASSUME op' = [op EXCEPT ![Me] = Idle]
      PROVE  /\ op' \in [Thread -> [pc : Accesses, block : Int, word : Int]]
             /\ Pc' = "idle"
  BY <1>1, <1>5 DEF Typed, Pc, Idle, Accesses
<1> QED
  BY <1>2, <1>3, <1>4, <1>5

\* The types of what the invariant speaks of.
LEMMA Types ==
  ASSUME OneThread, Typed
  PROVE  /\ fs_superblock.maxAlloc \in FirstDataBlock .. NUM_OF_DATA_BLOCKS
         /\ fs_superblock.maxAlloc \in Int /\ fs_superblock.freelist_head \in Int
         /\ disk.sb.maxAlloc \in FirstDataBlock .. NUM_OF_DATA_BLOCKS
         /\ disk.sb.maxAlloc \in Int /\ disk.sb.freelist_head \in Int
         /\ disk.word \in [DataRegion -> Int]
         /\ held[Me] \in SUBSET Int
         /\ crashes \in Nat /\ faults \in Nat /\ crashes + faults \in Nat
<1>1. Me \in Thread
  BY JustMe
<1>2. /\ fs_superblock.maxAlloc \in FirstDataBlock .. NUM_OF_DATA_BLOCKS
      /\ fs_superblock.freelist_head \in Int
  BY DEF Typed, TypeOK
<1>3. /\ disk.sb.maxAlloc \in FirstDataBlock .. NUM_OF_DATA_BLOCKS
      /\ disk.sb.freelist_head \in Int
      /\ disk.word \in [DataRegion -> Int]
  BY DEF Typed, TypeOK
<1>4. held[Me] \in SUBSET Int
  BY <1>1 DEF Typed, TypeOK
<1>5. crashes \in Nat /\ faults \in Nat
  BY StepsAssumption DEF Typed, TypeOK
<1> QED
  BY <1>2, <1>3, <1>4, <1>5, Sizes

\* A step that leaves the blocks where they are keeps the layouts.
LEMMA Frame ==
  ASSUME OneThread, Inv, Typed', Local',
         UNCHANGED <<fs_superblock, disk>>, held'[Me] = held[Me], cut' = cut,
         crashes' = crashes, faults' = faults \/ faults' = faults + 1,
         ~cut => /\ InFlight' = InFlight /\ LinkedHead' = LinkedHead /\ Freeing' = Freeing
                 /\ Pc # "saveLast" /\ Pc' # "zero" /\ Pc # "writeLink" /\ Pc' # "writeLink"
  PROVE  Inv'
<1>1. /\ crashes + faults \in Nat /\ (crashes + faults)' \in Nat /\ crashes + faults <= (crashes + faults)'
      /\ fs_superblock.maxAlloc \in Int /\ disk.sb.maxAlloc \in Int
  BY Types DEF Inv
<1>2. InMemory'
  <2>1. ASSUME ~cut
        PROVE  Layout(disk.word, held[Me], fs_superblock.maxAlloc, LinkedHead, InFlight, (crashes + faults)')
    BY <1>1, <2>1, LayoutMore DEF Inv, InMemory
  <2> QED
    BY <2>1 DEF InMemory
<1>3. OnDisk'
  <2>1. ASSUME ~cut
        PROVE  Layout(disk.word, held[Me], disk.sb.maxAlloc, disk.sb.freelist_head, Freeing, (crashes + faults)')
    BY <1>1, <2>1, LayoutMore DEF Inv, OnDisk
  <2> QED
    BY <2>1 DEF OnDisk
<1>4. Behind'
  BY DEF Inv, Behind
<1>5. CutPaid'
  BY <1>1 DEF Inv, CutPaid
<1> QED
  BY <1>2, <1>3, <1>4, <1>5 DEF Inv

\* A step that only moves the thread from one access to the next.
LEMMA Control ==
  ASSUME OneThread, Inv, NEW from \in Accesses, NEW to \in Accesses, At(Me, from), Go(Me, to),
         Same(Me), UNCHANGED <<fs_superblock, disk>>,
         <<from, to>> \in {<<"idle", "test">>, <<"test", "branch">>, <<"branch", "load">>,
                           <<"branch", "head">>, <<"compare", "rewind">>, <<"compare", "link">>},
         to = "branch" => ~(fs_superblock.freelist_head = 0 /\ fs_superblock.maxAlloc = NUM_OF_DATA_BLOCKS),
         to = "load" => fs_superblock.maxAlloc # NUM_OF_DATA_BLOCKS,
         to = "head" => fs_superblock.maxAlloc = NUM_OF_DATA_BLOCKS,
         to = "rewind" => op[Me].block = fs_superblock.maxAlloc - 1
  PROVE  Inv'
<1>1. Pc = from /\ Pc' = to /\ op'[Me].block = op[Me].block /\ op'[Me].word = op[Me].word
      /\ op' \in [Thread -> [pc : Accesses, block : Int, word : Int]]
  BY Locals DEF Inv, At, Pc
<1>2. UNCHANGED <<fs_superblock, disk, held, cut, crashes, faults>>
  BY DEF Same
<1>3. Typed'
  BY <1>1, <1>2 DEF Inv, Typed, TypeOK
<1>4. Local'
  BY <1>1, <1>2 DEF Inv, Local
<1>5. InFlight' = InFlight /\ LinkedHead' = LinkedHead /\ Freeing' = Freeing
  BY <1>1, <1>2 DEF InFlight, LinkedHead, Freeing
<1>6. held'[Me] = held[Me]
  BY <1>2
<1> QED
  BY <1>1, <1>2, <1>3, <1>4, <1>5, <1>6, Frame

LEMMA AllocateKeeps ==
  ASSUME OneThread, Inv, Allocate(Me) PROVE Inv'
  BY Control DEF Allocate, Accesses

\* A call that ends without an effect.
LEMMA ReturnKeeps ==
  ASSUME OneThread, Inv, NEW r \in {-1, 0}, Return(Me, r), Pc \in {"test", "read"},
         UNCHANGED <<fs_superblock, disk, crashes, cut>>, faults' = faults \/ Fault
  PROVE  Inv'
<1>1. Pc' = "idle" /\ op' \in [Thread -> [pc : Accesses, block : Int, word : Int]]
  BY Locals DEF Inv, Return
<1>2. held' = held
  BY DEF Return, Inv, Typed, TypeOK
<1>3. Typed'
  <2>1. faults' \in 0 .. MaxFaults
    BY StepsAssumption DEF Inv, Typed, TypeOK, Fault
  <2> QED
    BY <1>1, <1>2, <2>1 DEF Inv, Typed, TypeOK
<1>4. Local'
  BY <1>1 DEF Local
<1>5. InFlight' = InFlight /\ LinkedHead' = LinkedHead /\ Freeing' = Freeing
  BY <1>1 DEF InFlight, LinkedHead, Freeing
<1>6. faults' = faults \/ faults' = faults + 1
  BY DEF Fault
<1> QED
  BY <1>1, <1>2, <1>3, <1>4, <1>5, <1>6, Frame

LEMMA TestKeeps ==
  ASSUME OneThread, Inv, Test(Me) PROVE Inv'
<1>1. CASE fs_superblock.freelist_head = 0 /\ fs_superblock.maxAlloc = NUM_OF_DATA_BLOCKS
  <2>1. Return(Me, -1) /\ Pc = "test"
    BY <1>1 DEF Test, At, Pc
  <2> QED
    BY <2>1, ReturnKeeps DEF Test
<1>2. CASE ~(fs_superblock.freelist_head = 0 /\ fs_superblock.maxAlloc = NUM_OF_DATA_BLOCKS)
  <2>1. Go(Me, "branch") /\ At(Me, "test") /\ Same(Me) /\ UNCHANGED <<fs_superblock, disk>>
    BY <1>2 DEF Test, Same
  <2>2. "test" \in Accesses /\ "branch" \in Accesses
    BY DEF Accesses
  <2> QED
    BY <1>2, <2>1, <2>2, Control
<1> QED
  BY <1>1, <1>2

LEMMA BranchKeeps ==
  ASSUME OneThread, Inv, Branch(Me) PROVE Inv'
<1>1. CASE fs_superblock.maxAlloc # NUM_OF_DATA_BLOCKS
  <2>1. Go(Me, "load") /\ At(Me, "branch") /\ Same(Me) /\ UNCHANGED <<fs_superblock, disk>>
    BY <1>1 DEF Branch
  <2> QED
    BY <1>1, <2>1, Control DEF Accesses
<1>2. CASE fs_superblock.maxAlloc = NUM_OF_DATA_BLOCKS
  <2>1. Go(Me, "head") /\ At(Me, "branch") /\ Same(Me) /\ UNCHANGED <<fs_superblock, disk>>
    BY <1>2 DEF Branch
  <2> QED
    BY <1>2, <2>1, Control DEF Accesses
<1> QED
  BY <1>1, <1>2

LEMMA CompareKeeps ==
  ASSUME OneThread, Inv, Compare(Me) PROVE Inv'
<1>1. CASE op[Me].block = fs_superblock.maxAlloc - 1
  <2>1. Go(Me, "rewind") /\ At(Me, "compare") /\ Same(Me) /\ UNCHANGED <<fs_superblock, disk>>
    BY <1>1 DEF Compare
  <2> QED
    BY <1>1, <2>1, Control DEF Accesses
<1>2. CASE op[Me].block # fs_superblock.maxAlloc - 1
  <2>1. Go(Me, "link") /\ At(Me, "compare") /\ Same(Me) /\ UNCHANGED <<fs_superblock, disk>>
    BY <1>2 DEF Compare
  <2> QED
    BY <1>2, <2>1, Control DEF Accesses
<1> QED
  BY <1>1, <1>2

LEMMA LoadKeeps ==
  ASSUME OneThread, Inv, Load(Me) PROVE Inv'
<1>1. Pc = "load" /\ UNCHANGED <<fs_superblock, disk, held, cut, crashes, faults>> /\ held'[Me] = held[Me]
  BY DEF Load, At, Pc, Same
<1>2. Pc' = "store" /\ op'[Me].block = fs_superblock.maxAlloc
      /\ op' \in [Thread -> [pc : Accesses, block : Int, word : Int]]
  BY Locals, Types DEF Inv, Load, Accesses
<1>3. Typed'
  BY <1>1, <1>2 DEF Inv, Typed, TypeOK
<1>4. Local'
  BY <1>1, <1>2 DEF Inv, Local
<1>5. InFlight' = InFlight /\ LinkedHead' = LinkedHead /\ Freeing' = Freeing
  BY <1>1, <1>2 DEF InFlight, LinkedHead, Freeing
<1> QED
  BY <1>1, <1>2, <1>3, <1>4, <1>5, Frame

LEMMA ReadHeadKeeps ==
  ASSUME OneThread, Inv, ReadHead(Me) PROVE Inv'
<1>1. Pc = "head" /\ UNCHANGED <<fs_superblock, disk, held, cut, crashes, faults>> /\ held'[Me] = held[Me]
  BY DEF ReadHead, At, Pc, Same
<1>2. Pc' = "read" /\ op'[Me].block = fs_superblock.freelist_head
      /\ op' \in [Thread -> [pc : Accesses, block : Int, word : Int]]
  BY Locals, Types DEF Inv, ReadHead, Accesses
<1>3. Typed'
  BY <1>1, <1>2 DEF Inv, Typed, TypeOK
<1>4. Local'
  BY <1>1, <1>2 DEF Inv, Local
<1>5. InFlight' = InFlight /\ LinkedHead' = LinkedHead /\ Freeing' = Freeing
  BY <1>1, <1>2 DEF InFlight, LinkedHead, Freeing
<1> QED
  BY <1>1, <1>2, <1>3, <1>4, <1>5, Frame

LEMMA LinkKeeps ==
  ASSUME OneThread, Inv, Link(Me) PROVE Inv'
<1>1. Pc = "link" /\ UNCHANGED <<fs_superblock, disk, held, cut, crashes, faults>> /\ held'[Me] = held[Me]
  BY DEF Link, At, Pc, Same
<1>2. Pc' = "push" /\ op'[Me].block = op[Me].block /\ op'[Me].word = fs_superblock.freelist_head
      /\ op' \in [Thread -> [pc : Accesses, block : Int, word : Int]]
  <2>1. op' = [op EXCEPT ![Me] = [@ EXCEPT !.pc = "push", !.word = fs_superblock.freelist_head]]
    BY DEF Link
  <2>2. Me \in Thread /\ fs_superblock.freelist_head \in Int
        /\ op \in [Thread -> [pc : Accesses, block : Int, word : Int]]
    BY JustMe, Types DEF Inv, Typed
  <2> QED
    BY <2>1, <2>2 DEF Accesses, Pc
<1>3. Typed'
  BY <1>1, <1>2 DEF Inv, Typed, TypeOK
<1>4. Local'
  BY <1>1, <1>2 DEF Inv, Local
<1>5. InFlight' = InFlight /\ LinkedHead' = LinkedHead /\ Freeing' = Freeing
  BY <1>1, <1>2 DEF InFlight, LinkedHead, Freeing
<1> QED
  BY <1>1, <1>2, <1>3, <1>4, <1>5, Frame

LEMMA ReadKeeps ==
  ASSUME OneThread, Inv, Read(Me) PROVE Inv'
<1> DEFINE words == FirstWord(fs_superblock.freelist_head)
<1>1. Pc = "read" /\ cut' = cut
  BY DEF Read, At, Pc
<1>2. CASE Return(Me, 0) /\ (UNCHANGED <<fs_superblock, disk, crashes, faults>> \/ Fault)
  <2>1. UNCHANGED <<fs_superblock, disk, crashes>> /\ (faults' = faults \/ Fault)
    BY <1>2 DEF Fault
  <2> QED
    BY <1>1, <1>2, <2>1, ReturnKeeps
<1>3. ASSUME NEW w \in words, op' = [op EXCEPT ![Me] = [@ EXCEPT !.pc = "relink", !.word = w]],
             UNCHANGED <<fs_superblock, disk, held, ret, crashes, faults>>
      PROVE  Inv'
  <2>1. w \in Int
    BY <1>3, Types, Sizes, StepsAssumption DEF FirstWord, Inv
  <2>2. Pc' = "relink" /\ op'[Me].block = op[Me].block /\ op'[Me].word = w
        /\ op' \in [Thread -> [pc : Accesses, block : Int, word : Int]]
    <3>1. Me \in Thread /\ op \in [Thread -> [pc : Accesses, block : Int, word : Int]]
      BY JustMe DEF Inv, Typed
    <3> QED
      BY <1>3, <2>1, <3>1 DEF Accesses, Pc
  <2>3. Typed'
    BY <1>1, <1>3, <2>2 DEF Inv, Typed, TypeOK
  <2>4. fs_superblock.freelist_head # 0 /\ op[Me].block = fs_superblock.freelist_head
    BY <1>1 DEF Inv, Local
  <2>5. ~cut => w = disk.word[fs_superblock.freelist_head]
    <3>1. ASSUME ~cut PROVE fs_superblock.freelist_head \in DataRegion
      <4>1. Layout(disk.word, held[Me], fs_superblock.maxAlloc, fs_superblock.freelist_head, {}, crashes + faults)
        BY <1>1, <3>1 DEF Inv, InMemory, LinkedHead, InFlight
      <4> QED
        BY <2>4, <4>1, LayoutPop, Types DEF Inv
    <3>2. \A b \in DataRegion : b # 0 /\ b \notin 1 .. INODE_BLOCK_COUNT
      BY StepsAssumption DEF DataRegion, FirstDataBlock
    <3> QED
      BY <1>3, <3>1, <3>2 DEF FirstWord
  <2>6. Local'
    BY <1>1, <1>3, <2>2, <2>4, <2>5 DEF Local
  <2>7. InFlight' = InFlight /\ LinkedHead' = LinkedHead /\ Freeing' = Freeing
    BY <1>1, <1>3, <2>2 DEF InFlight, LinkedHead, Freeing
  <2> QED
    BY <1>1, <1>3, <2>2, <2>3, <2>6, <2>7, Frame
<1>4. \/ \E w \in words :
           /\ op' = [op EXCEPT ![Me] = [@ EXCEPT !.pc = "relink", !.word = w]]
           /\ UNCHANGED <<fs_superblock, disk, held, ret, crashes, faults>>
      \/ Return(Me, 0) /\ (UNCHANGED <<fs_superblock, disk, crashes, faults>> \/ Fault)
  BY Zenon DEF Read
<1> QED
  BY <1>2, <1>3, <1>4

\* What a layout says of the blocks in use.
LEMMA LayoutInUse ==
  ASSUME NEW word, NEW inUse, NEW max \in Int, NEW head, NEW extra, NEW n,
         Layout(word, inUse, max, head, extra, n)
  PROVE  inUse \subseteq Below(max) /\ inUse \intersect extra = {}
  BY DEF Layout

\* The blocks below the marker are data blocks.
LEMMA BelowRegion ==
  ASSUME NEW max \in FirstDataBlock .. NUM_OF_DATA_BLOCKS, NEW b \in Below(max)
  PROVE  b \in DataRegion /\ b \in Int /\ b > 0 /\ b < max
  BY Sizes DEF Below

\* The invariant in parts.
LEMMA Parts ==
  ASSUME OneThread, Inv, ~cut
  PROVE  /\ Layout(disk.word, held[Me], fs_superblock.maxAlloc, LinkedHead, InFlight, crashes + faults)
         /\ Pc # "writeLink" =>
              Layout(disk.word, held[Me], disk.sb.maxAlloc, disk.sb.freelist_head, Freeing, crashes + faults)
         /\ Pc # "saveLast" => disk.sb.maxAlloc <= fs_superblock.maxAlloc
         /\ Pc = "zero" => disk.sb.maxAlloc <= op[Me].block
         /\ Pc = "writeLink" => disk.sb = fs_superblock
         /\ held[Me] \subseteq Below(fs_superblock.maxAlloc)
         /\ held[Me] \intersect InFlight = {}
         /\ Pc # "writeLink" => /\ held[Me] \subseteq Below(disk.sb.maxAlloc)
                                /\ held[Me] \intersect Freeing = {}
<1>1. /\ Layout(disk.word, held[Me], fs_superblock.maxAlloc, LinkedHead, InFlight, crashes + faults)
      /\ Pc # "writeLink" =>
           Layout(disk.word, held[Me], disk.sb.maxAlloc, disk.sb.freelist_head, Freeing, crashes + faults)
      /\ Pc # "saveLast" => disk.sb.maxAlloc <= fs_superblock.maxAlloc
      /\ Pc = "zero" => disk.sb.maxAlloc <= op[Me].block
      /\ Pc = "writeLink" => disk.sb = fs_superblock
  BY DEF Inv, InMemory, OnDisk, Behind
<1>2. fs_superblock.maxAlloc \in Int /\ disk.sb.maxAlloc \in Int
  BY Types DEF Inv
<1> QED
  BY <1>1, <1>2, LayoutInUse

\* The invariant from its parts.
LEMMA FromParts ==
  ASSUME Typed', Local', CutPaid',
         ~cut' =>
           /\ Layout(disk'.word, held'[Me], fs_superblock'.maxAlloc, LinkedHead', InFlight', crashes' + faults')
           /\ Pc' # "writeLink" =>
                Layout(disk'.word, held'[Me], disk'.sb.maxAlloc, disk'.sb.freelist_head, Freeing',
                       crashes' + faults')
           /\ Pc' # "saveLast" => disk'.sb.maxAlloc <= fs_superblock'.maxAlloc
           /\ Pc' = "zero" => disk'.sb.maxAlloc <= op'[Me].block
           /\ Pc' = "writeLink" => disk'.sb = fs_superblock'
  PROVE  Inv'
  BY DEF Inv, InMemory, OnDisk, Behind

\* What the writes do.
LEMMA Writes ==
  ASSUME OneThread, Typed
  PROVE  /\ WriteSuperblock =>
              /\ disk'.sb = fs_superblock /\ disk'.word = disk.word
              /\ disk' \in [sb : [maxAlloc : FirstDataBlock .. NUM_OF_DATA_BLOCKS, freelist_head : Int],
                            word : [DataRegion -> Int]]
              /\ UNCHANGED <<fs_superblock, crashes, faults>>
         /\ \A b \in DataRegion, w \in Int : WriteWord(b, w) =>
              /\ disk'.sb = disk.sb /\ disk'.word = [disk.word EXCEPT ![b] = w]
              /\ disk' \in [sb : [maxAlloc : FirstDataBlock .. NUM_OF_DATA_BLOCKS, freelist_head : Int],
                            word : [DataRegion -> Int]]
              /\ UNCHANGED <<fs_superblock, crashes, faults>>
         /\ Fault =>
              /\ UNCHANGED <<fs_superblock, disk, crashes>> /\ faults' = faults + 1
              /\ faults' \in 0 .. MaxFaults /\ crashes' + faults' = (crashes + faults) + 1
<1>1. /\ disk \in [sb : [maxAlloc : FirstDataBlock .. NUM_OF_DATA_BLOCKS, freelist_head : Int],
                   word : [DataRegion -> Int]]
      /\ fs_superblock \in [maxAlloc : FirstDataBlock .. NUM_OF_DATA_BLOCKS, freelist_head : Int]
      /\ faults \in 0 .. MaxFaults /\ crashes \in 0 .. MaxCrashes
  BY DEF Typed, TypeOK
<1>2. ASSUME WriteSuperblock
      PROVE  /\ disk'.sb = fs_superblock /\ disk'.word = disk.word
             /\ disk' \in [sb : [maxAlloc : FirstDataBlock .. NUM_OF_DATA_BLOCKS, freelist_head : Int],
                           word : [DataRegion -> Int]]
             /\ UNCHANGED <<fs_superblock, crashes, faults>>
  BY <1>1, <1>2 DEF WriteSuperblock
<1>3. ASSUME NEW b \in DataRegion, NEW w \in Int, WriteWord(b, w)
      PROVE  /\ disk'.sb = disk.sb /\ disk'.word = [disk.word EXCEPT ![b] = w]
             /\ disk' \in [sb : [maxAlloc : FirstDataBlock .. NUM_OF_DATA_BLOCKS, freelist_head : Int],
                           word : [DataRegion -> Int]]
             /\ UNCHANGED <<fs_superblock, crashes, faults>>
  BY <1>1, <1>3 DEF WriteWord
<1>4. ASSUME Fault
      PROVE  /\ UNCHANGED <<fs_superblock, disk, crashes>> /\ faults' = faults + 1
             /\ faults' \in 0 .. MaxFaults /\ crashes' + faults' = (crashes + faults) + 1
  BY <1>1, <1>4, StepsAssumption DEF Fault
<1> QED
  BY <1>2, <1>3, <1>4

\* What returning from allocate_data_block does.
LEMMA Returns ==
  ASSUME OneThread, Typed, NEW r \in Int, Return(Me, r)
  PROVE  /\ op' \in [Thread -> [pc : Accesses, block : Int, word : Int]]
         /\ Pc' = "idle" /\ LinkedHead' = fs_superblock'.freelist_head /\ InFlight' = {} /\ Freeing' = {}
         /\ held'[Me] = held[Me] \union (IF r > 0 THEN {r} ELSE {})
         /\ held' \in [Thread -> SUBSET Int]
<1>1. op' = [op EXCEPT ![Me] = Idle]
  BY DEF Return
<1>2. op' \in [Thread -> [pc : Accesses, block : Int, word : Int]] /\ Pc' = "idle"
  BY <1>1, Locals
<1>3. LinkedHead' = fs_superblock'.freelist_head /\ InFlight' = {} /\ Freeing' = {}
  BY <1>2 DEF LinkedHead, InFlight, Freeing
<1>4. /\ held'[Me] = held[Me] \union (IF r > 0 THEN {r} ELSE {})
      /\ held' \in [Thread -> SUBSET Int]
  BY JustMe DEF Return, Typed, TypeOK
<1> QED
  BY <1>2, <1>3, <1>4

\* allocate_data_block gives up after an access that failed: its block is lost.
LEMMA FailedKeeps ==
  ASSUME OneThread, Inv, Pc \in {"zero", "save"}, Fault, Return(Me, -1), cut' = cut PROVE Inv'
<1> DEFINE block == op[Me].block
           max == fs_superblock.maxAlloc
<1>1. Typed /\ max \in Int /\ disk.sb.maxAlloc \in Int
  BY Types DEF Inv
<1>2. InFlight = {block} /\ Freeing = {} /\ LinkedHead = fs_superblock.freelist_head
  BY DEF InFlight, Freeing, LinkedHead
<1>3. -1 \in Int /\ ~(-1 > 0)
  OBVIOUS
<1>4. /\ op' \in [Thread -> [pc : Accesses, block : Int, word : Int]]
      /\ Pc' = "idle" /\ LinkedHead' = fs_superblock'.freelist_head /\ InFlight' = {} /\ Freeing' = {}
      /\ held'[Me] = held[Me] /\ held' \in [Thread -> SUBSET Int]
  BY <1>1, <1>3, Returns
<1>5. /\ UNCHANGED <<fs_superblock, disk, crashes>> /\ faults' = faults + 1
      /\ faults' \in 0 .. MaxFaults /\ crashes' + faults' = (crashes + faults) + 1
  BY <1>1, Writes
<1>6. Typed'
  BY <1>1, <1>4, <1>5 DEF Typed, TypeOK
<1>7. Local'
  BY <1>4 DEF Local
<1>8. ASSUME ~cut'
      PROVE  /\ Layout(disk'.word, held'[Me], fs_superblock'.maxAlloc, LinkedHead', InFlight', crashes' + faults')
             /\ Layout(disk'.word, held'[Me], disk'.sb.maxAlloc, disk'.sb.freelist_head, Freeing', crashes' + faults')
             /\ disk'.sb.maxAlloc <= fs_superblock'.maxAlloc
  <2>1. /\ Layout(disk.word, held[Me], max, fs_superblock.freelist_head, {block}, crashes + faults)
        /\ Layout(disk.word, held[Me], disk.sb.maxAlloc, disk.sb.freelist_head, {}, crashes + faults)
        /\ disk.sb.maxAlloc <= max
    BY <1>1, <1>2, <1>8, Parts
  <2>2. crashes + faults \in Nat /\ (crashes + faults) + 1 \in Nat /\ crashes + faults <= (crashes + faults) + 1
    BY <1>1, Types
  <2>3. Layout(disk.word, held[Me], max, fs_superblock.freelist_head, {}, (crashes + faults) + 1)
    BY <1>1, <2>1, <2>2, LayoutLose
  <2>4. Layout(disk.word, held[Me], disk.sb.maxAlloc, disk.sb.freelist_head, {}, (crashes + faults) + 1)
    BY <1>1, <2>1, <2>2, LayoutMore
  <2> QED
    BY <1>4, <1>5, <2>1, <2>3, <2>4
<1>9. CutPaid'
  BY <1>1, <1>5, Types DEF Inv, CutPaid
<1> QED
  BY <1>4, <1>6, <1>7, <1>8, <1>9, FromParts

LEMMA BumpKeeps ==
  ASSUME OneThread, Inv, Bump(Me) PROVE Inv'
<1> DEFINE max == fs_superblock.maxAlloc
<1>1. /\ Pc = "store" /\ op[Me].block = max /\ max # NUM_OF_DATA_BLOCKS
      /\ UNCHANGED <<disk, held, cut, crashes, faults>> /\ Typed
  BY DEF Bump, At, Pc, Same, Inv, Local
<1>2. Pc' = "zero" /\ op'[Me].block = max /\ op' \in [Thread -> [pc : Accesses, block : Int, word : Int]]
  BY <1>1, Locals DEF Bump, Accesses
<1>3. max \in FirstDataBlock .. (NUM_OF_DATA_BLOCKS - 1) /\ max \in Int /\ max >= FirstDataBlock
  BY <1>1, Types, Sizes
<1>4. /\ fs_superblock' \in [maxAlloc : FirstDataBlock .. NUM_OF_DATA_BLOCKS, freelist_head : Int]
      /\ fs_superblock'.maxAlloc = max + 1 /\ fs_superblock'.freelist_head = fs_superblock.freelist_head
  BY <1>1, <1>3, Sizes DEF Bump, Typed, TypeOK
<1>5. Typed'
  BY <1>1, <1>2, <1>4 DEF Typed, TypeOK
<1>6. Local'
  BY <1>2, <1>3, <1>4 DEF Local
<1>7. /\ InFlight = {} /\ InFlight' = {max} /\ Freeing = {} /\ Freeing' = {}
      /\ LinkedHead = fs_superblock.freelist_head /\ LinkedHead' = fs_superblock.freelist_head
  BY <1>1, <1>2, <1>4 DEF InFlight, Freeing, LinkedHead
<1>8. ASSUME ~cut'
      PROVE  /\ Layout(disk'.word, held'[Me], fs_superblock'.maxAlloc, LinkedHead', InFlight', crashes' + faults')
             /\ Layout(disk'.word, held'[Me], disk'.sb.maxAlloc, disk'.sb.freelist_head, Freeing', crashes' + faults')
             /\ disk'.sb.maxAlloc <= max
  <2>1. /\ Layout(disk.word, held[Me], max, LinkedHead, {}, crashes + faults)
        /\ Layout(disk.word, held[Me], disk.sb.maxAlloc, disk.sb.freelist_head, {}, crashes + faults)
        /\ disk.sb.maxAlloc <= max /\ held[Me] \subseteq Below(max)
    BY <1>1, <1>7, <1>8, Parts
  <2>2. Below(max + 1) = Below(max) \union {max} /\ max \notin Below(max)
    BY <1>3, Sizes DEF Below
  <2>3. Layout(disk.word, held[Me], max + 1, LinkedHead, {max}, crashes + faults)
    <3>1. /\ held[Me] \intersect {max} = {} /\ held[Me] \subseteq Below(max + 1)
          /\ \A b \in Below(max) \ held[Me] : b \notin {} => b \in Below(max + 1) \ (held[Me] \union {max})
          /\ \A b \in Below(max + 1) \ (held[Me] \union {max}) : b \in Below(max) \ (held[Me] \union {})
      BY <2>1, <2>2
    <3>2. max + 1 \in Int
      BY <1>3
    <3> QED
      BY <1>3, <2>1, <3>1, <3>2, LayoutMoved
  <2> QED
    BY <1>1, <1>4, <1>7, <2>1, <2>3
<1>9. CutPaid'
  BY <1>1 DEF Inv, CutPaid
<1> QED
  <2>1. max <= max + 1
    BY <1>3
  <2>2. disk'.sb.maxAlloc \in Int
    BY <1>1, Types
  <2>3. ~cut' => disk'.sb.maxAlloc <= fs_superblock'.maxAlloc
    BY <1>3, <1>4, <1>8, <2>2
  <2> QED
    BY <1>2, <1>5, <1>6, <1>8, <1>9, <2>3, FromParts

LEMMA ZeroKeeps ==
  ASSUME OneThread, Inv, Zero(Me) PROVE Inv'
<1> DEFINE block == op[Me].block
           max == fs_superblock.maxAlloc
<1>1. Pc = "zero" /\ cut' = cut /\ Typed /\ block = max - 1 /\ block >= FirstDataBlock
      /\ block \in Int /\ max \in Int /\ disk.sb.maxAlloc \in Int
  BY Locals, Types DEF Zero, At, Pc, Inv, Local
<1>2. block \in DataRegion /\ block \in Below(max) /\ block > 0
  <2>1. max \in FirstDataBlock .. NUM_OF_DATA_BLOCKS
    BY <1>1, Types
  <2> QED
    BY <1>1, <2>1, Sizes DEF Below
<1>3. InFlight = {block} /\ Freeing = {} /\ LinkedHead = fs_superblock.freelist_head
  BY <1>1 DEF InFlight, Freeing, LinkedHead
<1>4. ASSUME WriteWord(block, 0), Go(Me, "save"), UNCHANGED <<held, ret>>
      PROVE  Inv'
  <2>1. Pc' = "save" /\ op'[Me].block = block /\ op' \in [Thread -> [pc : Accesses, block : Int, word : Int]]
    BY <1>1, <1>4, Locals DEF Accesses
  <2>2. /\ disk'.sb = disk.sb /\ disk'.word = [disk.word EXCEPT ![block] = 0]
        /\ disk' \in [sb : [maxAlloc : FirstDataBlock .. NUM_OF_DATA_BLOCKS, freelist_head : Int],
                      word : [DataRegion -> Int]]
        /\ UNCHANGED <<fs_superblock, crashes, faults>>
    BY <1>1, <1>2, <1>4, Writes
  <2>3. Typed'
    BY <1>1, <1>4, <2>1, <2>2 DEF Typed, TypeOK
  <2>4. Local'
    BY <1>1, <1>2, <2>1, <2>2 DEF Local, Below
  <2>5. InFlight' = {block} /\ Freeing' = {} /\ LinkedHead' = fs_superblock.freelist_head
    BY <2>1, <2>2 DEF InFlight, Freeing, LinkedHead
  <2>6. ASSUME ~cut'
        PROVE  /\ Layout(disk'.word, held'[Me], fs_superblock'.maxAlloc, LinkedHead', InFlight', crashes' + faults')
               /\ Layout(disk'.word, held'[Me], disk'.sb.maxAlloc, disk'.sb.freelist_head, Freeing', crashes' + faults')
               /\ disk'.sb.maxAlloc <= fs_superblock'.maxAlloc
    <3>1. /\ Layout(disk.word, held[Me], max, fs_superblock.freelist_head, {block}, crashes + faults)
          /\ Layout(disk.word, held[Me], disk.sb.maxAlloc, disk.sb.freelist_head, {}, crashes + faults)
          /\ disk.sb.maxAlloc <= max /\ disk.sb.maxAlloc <= block
      BY <1>1, <1>3, <2>6, Parts
    <3>2. disk.word \in [DataRegion -> Int]
      BY <1>1, Types
    <3>3. Layout([disk.word EXCEPT ![block] = 0], held[Me], max, fs_superblock.freelist_head, {block},
                 crashes + faults)
      BY <3>1, <3>2, LayoutWrite
    <3>4. block \notin Below(disk.sb.maxAlloc)
      BY <1>1, <3>1 DEF Below
    <3>5. Layout([disk.word EXCEPT ![block] = 0], held[Me], disk.sb.maxAlloc, disk.sb.freelist_head, {},
                 crashes + faults)
      BY <3>1, <3>2, <3>4, LayoutWrite
    <3> QED
      BY <1>4, <2>2, <2>5, <3>1, <3>3, <3>5
  <2>7. CutPaid'
    BY <1>1, <2>2 DEF Inv, CutPaid
  <2> QED
    BY <2>1, <2>3, <2>4, <2>6, <2>7, FromParts
<1> QED
  BY <1>1, <1>2, <1>4, FailedKeeps DEF Zero

LEMMA RelinkKeeps ==
  ASSUME OneThread, Inv, Relink(Me) PROVE Inv'
<1> DEFINE max   == fs_superblock.maxAlloc
           head  == fs_superblock.freelist_head
           block == op[Me].block
           word  == op[Me].word
<1>1. /\ Pc = "relink" /\ UNCHANGED <<disk, held, cut, crashes, faults>> /\ Typed
      /\ head # 0 /\ block = head /\ (~cut => word = disk.word[block]) /\ max \in Int
      /\ disk.sb.maxAlloc \in Int
  BY Types DEF Relink, At, Pc, Same, Inv, Local
<1>2. Pc' = "save" /\ op'[Me].block = block /\ op' \in [Thread -> [pc : Accesses, block : Int, word : Int]]
      /\ word \in Int
  BY <1>1, Locals DEF Relink, Accesses
<1>3. /\ fs_superblock' \in [maxAlloc : FirstDataBlock .. NUM_OF_DATA_BLOCKS, freelist_head : Int]
      /\ fs_superblock'.maxAlloc = max /\ fs_superblock'.freelist_head = word
  BY <1>1, <1>2 DEF Relink, Typed, TypeOK
<1>4. Typed'
  BY <1>1, <1>2, <1>3 DEF Typed, TypeOK
<1>5. /\ InFlight = {} /\ InFlight' = {block} /\ Freeing = {} /\ Freeing' = {}
      /\ LinkedHead = head /\ LinkedHead' = word
  BY <1>1, <1>2, <1>3 DEF InFlight, Freeing, LinkedHead
<1>6. ASSUME ~cut
      PROVE  /\ Layout(disk'.word, held'[Me], fs_superblock'.maxAlloc, LinkedHead', InFlight', crashes' + faults')
             /\ Layout(disk'.word, held'[Me], disk'.sb.maxAlloc, disk'.sb.freelist_head, Freeing', crashes' + faults')
             /\ disk'.sb.maxAlloc <= fs_superblock'.maxAlloc /\ head \in Below(max)
  <2>1. /\ Layout(disk.word, held[Me], max, head, {}, crashes + faults)
        /\ Layout(disk.word, held[Me], disk.sb.maxAlloc, disk.sb.freelist_head, {}, crashes + faults)
        /\ disk.sb.maxAlloc <= max
    BY <1>1, <1>5, <1>6, Parts
  <2>2. Layout(disk.word, held[Me], max, disk.word[head], {head}, crashes + faults) /\ head \in Below(max)
    BY <1>1, <2>1, LayoutPop
  <2>3. word = disk.word[head] /\ InFlight' = {head}
    BY <1>1, <1>5, <1>6
  <2> QED
    BY <1>1, <1>3, <1>5, <2>1, <2>2, <2>3
<1>7. Local'
  BY <1>1, <1>2, <1>3, <1>6 DEF Local, Below
<1>8. CutPaid'
  BY <1>1 DEF Inv, CutPaid
<1> QED
  BY <1>1, <1>2, <1>4, <1>6, <1>7, <1>8, FromParts

LEMMA SaveKeeps ==
  ASSUME OneThread, Inv, Save(Me) PROVE Inv'
<1> DEFINE block == op[Me].block
           max   == fs_superblock.maxAlloc
           head  == fs_superblock.freelist_head
<1>1. /\ Pc = "save" /\ cut' = cut /\ Typed /\ block \in Int /\ max \in Int /\ disk.sb.maxAlloc \in Int
      /\ (~cut => block \in FirstDataBlock .. (max - 1))
  BY Locals, Types DEF Save, At, Pc, Inv, Local
<1>2. InFlight = {block} /\ Freeing = {} /\ LinkedHead = head
  BY <1>1 DEF InFlight, Freeing, LinkedHead
<1>3. ASSUME WriteSuperblock, Return(Me, IF block = 0 THEN -1 ELSE block)
      PROVE  Inv'
  <2> DEFINE r == IF block = 0 THEN -1 ELSE block
  <2>1. r \in Int /\ Return(Me, r)
    BY <1>1, <1>3
  <2> HIDE DEF r
  <2>2. /\ op' \in [Thread -> [pc : Accesses, block : Int, word : Int]]
        /\ Pc' = "idle" /\ LinkedHead' = fs_superblock'.freelist_head /\ InFlight' = {} /\ Freeing' = {}
        /\ held'[Me] = held[Me] \union (IF r > 0 THEN {r} ELSE {}) /\ held' \in [Thread -> SUBSET Int]
    BY <1>1, <2>1, Returns
  <2>3. /\ disk'.sb = fs_superblock /\ disk'.word = disk.word
        /\ disk' \in [sb : [maxAlloc : FirstDataBlock .. NUM_OF_DATA_BLOCKS, freelist_head : Int],
                      word : [DataRegion -> Int]]
        /\ UNCHANGED <<fs_superblock, crashes, faults>>
    BY <1>1, <1>3, Writes
  <2>4. Typed'
    BY <1>1, <2>2, <2>3 DEF Typed, TypeOK
  <2>5. Local'
    BY <2>2 DEF Local
  <2>6. ASSUME ~cut'
        PROVE  /\ Layout(disk'.word, held'[Me], fs_superblock'.maxAlloc, LinkedHead', InFlight', crashes' + faults')
               /\ Layout(disk'.word, held'[Me], disk'.sb.maxAlloc, disk'.sb.freelist_head, Freeing', crashes' + faults')
               /\ disk'.sb.maxAlloc <= fs_superblock'.maxAlloc
    <3>1. Layout(disk.word, held[Me], max, head, {block}, crashes + faults) /\ held[Me] \subseteq Below(max)
          /\ held[Me] \intersect {block} = {}
      BY <1>1, <1>2, <2>6, Parts
    <3>2. block \in Below(max) /\ block > 0
      BY <1>1, <2>6, Sizes DEF Below
    <3>3. held'[Me] = held[Me] \union {block}
      BY <1>1, <2>2, <3>2, Sizes DEF r
    <3>4. Layout(disk.word, held[Me] \union {block}, max, head, {}, crashes + faults)
      <4>1. /\ (held[Me] \union {block}) \intersect {} = {} /\ held[Me] \union {block} \subseteq Below(max)
            /\ \A b \in Below(max) \ held[Me] : b \notin {block} =>
                 b \in Below(max) \ ((held[Me] \union {block}) \union {})
            /\ \A b \in Below(max) \ ((held[Me] \union {block}) \union {}) :
                 b \in Below(max) \ (held[Me] \union {block})
        BY <3>1, <3>2
      <4> QED
        BY <1>1, <3>1, <4>1, LayoutMoved
    <3>5. /\ disk'.word = disk.word /\ fs_superblock'.maxAlloc = max /\ disk'.sb.maxAlloc = max
          /\ disk'.sb.freelist_head = head /\ LinkedHead' = head /\ InFlight' = {} /\ Freeing' = {}
          /\ crashes' + faults' = crashes + faults /\ max <= max
      BY <1>1, <2>2, <2>3
    <3> QED
      BY <3>3, <3>4, <3>5
  <2>7. CutPaid'
    BY <1>1, <2>3 DEF Inv, CutPaid
  <2> QED
    BY <2>2, <2>4, <2>5, <2>6, <2>7, FromParts
<1> QED
  BY <1>1, <1>3, FailedKeeps DEF Save

LEMMA FreeKeeps ==
  ASSUME OneThread, Inv, NEW b, Free(Me, b) PROVE Inv'
<1> DEFINE max  == fs_superblock.maxAlloc
           head == fs_superblock.freelist_head
<1>1. /\ Pc = "idle" /\ UNCHANGED <<fs_superblock, disk, crashes, faults, cut>> /\ Typed
      /\ b \in held[Me] /\ held' = [held EXCEPT ![Me] = @ \ {b}]
      /\ max \in Int /\ disk.sb.maxAlloc \in Int /\ crashes' + faults' = crashes + faults
  BY Types DEF Free, At, Pc, Inv
<1>2. held' \in [Thread -> SUBSET Int] /\ held'[Me] = held[Me] \ {b}
  BY <1>1, JustMe DEF Typed, TypeOK
<1>3. InFlight = {} /\ Freeing = {} /\ LinkedHead = head
  BY <1>1 DEF InFlight, Freeing, LinkedHead
<1>4. ~cut => b \in Below(max) /\ b \in DataRegion /\ b < max
  <2>1. ASSUME ~cut PROVE b \in Below(max)
    BY <1>1, <2>1, Parts
  <2> QED
    BY <1>1, <2>1, Types, BelowRegion
<1>5. CutPaid'
  BY <1>1 DEF Inv, CutPaid
<1>6. CASE b \notin DataRegion
  <2>1. op' = op /\ Pc' = "idle" /\ cut'
    BY <1>1, <1>4, <1>6 DEF Free, Pc
  <2>2. Typed'
    BY <1>1, <1>2, <2>1 DEF Typed, TypeOK
  <2>3. Local'
    BY <2>1 DEF Local
  <2> QED
    BY <1>5, <2>1, <2>2, <2>3, FromParts
<1>7. CASE b \in DataRegion
  <2>1. Note(Me, "compare", b) /\ b \in Int
    BY <1>7, Sizes DEF Free
  <2>2. Pc' = "compare" /\ op'[Me].block = b /\ op' \in [Thread -> [pc : Accesses, block : Int, word : Int]]
    BY <1>1, <2>1, Locals DEF Accesses
  <2>3. Typed'
    BY <1>1, <1>2, <2>2 DEF Typed, TypeOK
  <2>4. Local'
    BY <1>1, <1>4, <1>7, <2>2 DEF Local
  <2>5. InFlight' = {b} /\ Freeing' = {b} /\ LinkedHead' = head
    BY <1>1, <2>2 DEF InFlight, Freeing, LinkedHead
  <2>6. ASSUME ~cut'
        PROVE  /\ Layout(disk'.word, held'[Me], fs_superblock'.maxAlloc, LinkedHead', InFlight', crashes' + faults')
               /\ Layout(disk'.word, held'[Me], disk'.sb.maxAlloc, disk'.sb.freelist_head, Freeing', crashes' + faults')
               /\ disk'.sb.maxAlloc <= fs_superblock'.maxAlloc
    <3>1. /\ Layout(disk.word, held[Me], max, head, {}, crashes + faults)
          /\ Layout(disk.word, held[Me], disk.sb.maxAlloc, disk.sb.freelist_head, {}, crashes + faults)
          /\ disk.sb.maxAlloc <= max /\ held[Me] \subseteq Below(max) /\ held[Me] \subseteq Below(disk.sb.maxAlloc)
      BY <1>1, <1>3, <2>6, Parts
    <3>2. ASSUME NEW m \in Int, NEW h, Layout(disk.word, held[Me], m, h, {}, crashes + faults),
                 held[Me] \subseteq Below(m)
          PROVE  Layout(disk.word, held[Me] \ {b}, m, h, {b}, crashes + faults)
      <4>1. /\ (held[Me] \ {b}) \intersect {b} = {} /\ held[Me] \ {b} \subseteq Below(m)
            /\ \A x \in Below(m) \ held[Me] : x \notin {} => x \in Below(m) \ ((held[Me] \ {b}) \union {b})
            /\ \A x \in Below(m) \ ((held[Me] \ {b}) \union {b}) : x \in Below(m) \ (held[Me] \union {})
        BY <1>1, <3>2
      <4> QED
        BY <3>2, <4>1, LayoutMoved
    <3>3. /\ Layout(disk.word, held[Me] \ {b}, max, head, {b}, crashes + faults)
          /\ Layout(disk.word, held[Me] \ {b}, disk.sb.maxAlloc, disk.sb.freelist_head, {b}, crashes + faults)
      BY <1>1, <3>1, <3>2
    <3> QED
      BY <1>1, <1>2, <2>5, <3>1, <3>3
  <2> QED
    BY <1>5, <2>2, <2>3, <2>4, <2>6, FromParts
<1> QED
  BY <1>6, <1>7

LEMMA RewindKeeps ==
  ASSUME OneThread, Inv, Rewind(Me) PROVE Inv'
<1> DEFINE max   == fs_superblock.maxAlloc
           head  == fs_superblock.freelist_head
           block == op[Me].block
<1>1. /\ Pc = "rewind" /\ UNCHANGED <<disk, held, cut, crashes, faults>> /\ Typed
      /\ block \in DataRegion /\ block = max - 1 /\ max \in Int /\ disk.sb.maxAlloc \in Int
      /\ crashes' + faults' = crashes + faults
  BY Types DEF Rewind, At, Pc, Same, Inv, Local
<1>2. Pc' = "saveLast" /\ op'[Me].block = block /\ op' \in [Thread -> [pc : Accesses, block : Int, word : Int]]
  BY <1>1, Locals DEF Rewind, Accesses
<1>3. max - 1 \in FirstDataBlock .. NUM_OF_DATA_BLOCKS /\ max - 1 \in Int
  <2>1. max \in FirstDataBlock .. NUM_OF_DATA_BLOCKS
    BY <1>1, Types
  <2>2. max - 1 >= FirstDataBlock
    BY <1>1, Sizes DEF DataRegion
  <2> QED
    BY <1>1, <2>1, <2>2, Sizes
<1>4. /\ fs_superblock' \in [maxAlloc : FirstDataBlock .. NUM_OF_DATA_BLOCKS, freelist_head : Int]
      /\ fs_superblock'.maxAlloc = max - 1 /\ fs_superblock'.freelist_head = head
  BY <1>1, <1>3 DEF Rewind, Typed, TypeOK
<1>5. Typed'
  BY <1>1, <1>2, <1>4 DEF Typed, TypeOK
<1>6. Local'
  BY <1>1, <1>2 DEF Local
<1>7. /\ InFlight = {block} /\ InFlight' = {} /\ Freeing = {block} /\ Freeing' = {block}
      /\ LinkedHead = head /\ LinkedHead' = head
  BY <1>1, <1>2, <1>4 DEF InFlight, Freeing, LinkedHead
<1>8. ASSUME ~cut'
      PROVE  /\ Layout(disk'.word, held'[Me], fs_superblock'.maxAlloc, LinkedHead', InFlight', crashes' + faults')
             /\ Layout(disk'.word, held'[Me], disk'.sb.maxAlloc, disk'.sb.freelist_head, Freeing', crashes' + faults')
  <2>1. /\ Layout(disk.word, held[Me], max, head, {block}, crashes + faults)
        /\ Layout(disk.word, held[Me], disk.sb.maxAlloc, disk.sb.freelist_head, {block}, crashes + faults)
        /\ held[Me] \subseteq Below(max) /\ held[Me] \intersect {block} = {}
    BY <1>1, <1>7, <1>8, Parts
  <2>2. Below(max) = Below(max - 1) \union {block} /\ block \notin Below(max - 1)
    BY <1>1, <1>3, Sizes DEF Below
  <2>3. Layout(disk.word, held[Me], max - 1, head, {}, crashes + faults)
    <3>1. /\ held[Me] \intersect {} = {} /\ held[Me] \subseteq Below(max - 1)
          /\ \A b \in Below(max) \ held[Me] : b \notin {block} => b \in Below(max - 1) \ (held[Me] \union {})
          /\ \A b \in Below(max - 1) \ (held[Me] \union {}) : b \in Below(max) \ (held[Me] \union {block})
      BY <2>1, <2>2
    <3> QED
      BY <1>1, <1>3, <2>1, <3>1, LayoutMoved
  <2> QED
    BY <1>1, <1>4, <1>7, <2>1, <2>3
<1>9. CutPaid'
  BY <1>1 DEF Inv, CutPaid
<1> QED
  BY <1>2, <1>5, <1>6, <1>8, <1>9, FromParts

LEMMA PushKeeps ==
  ASSUME OneThread, Inv, Push(Me) PROVE Inv'
<1> DEFINE max   == fs_superblock.maxAlloc
           block == op[Me].block
           word  == op[Me].word
<1>1. /\ Pc = "push" /\ UNCHANGED <<disk, held, cut, crashes, faults>> /\ Typed
      /\ block \in DataRegion /\ word = fs_superblock.freelist_head /\ (~cut => block < max)
      /\ crashes' + faults' = crashes + faults
  BY DEF Push, At, Pc, Same, Inv, Local
<1>2. Pc' = "saveHead" /\ op'[Me].block = block /\ op'[Me].word = word
      /\ op' \in [Thread -> [pc : Accesses, block : Int, word : Int]]
  BY <1>1, Locals DEF Push, Accesses
<1>3. /\ fs_superblock' \in [maxAlloc : FirstDataBlock .. NUM_OF_DATA_BLOCKS, freelist_head : Int]
      /\ fs_superblock'.maxAlloc = max /\ fs_superblock'.freelist_head = block
  BY <1>1, Sizes DEF Push, Typed, TypeOK
<1>4. Typed'
  BY <1>1, <1>2, <1>3 DEF Typed, TypeOK
<1>5. Local'
  BY <1>1, <1>2, <1>3 DEF Local
<1>6. InFlight' = InFlight /\ Freeing' = Freeing /\ LinkedHead' = LinkedHead
  BY <1>1, <1>2 DEF InFlight, Freeing, LinkedHead
<1>7. ASSUME ~cut'
      PROVE  /\ Layout(disk'.word, held'[Me], fs_superblock'.maxAlloc, LinkedHead', InFlight', crashes' + faults')
             /\ Layout(disk'.word, held'[Me], disk'.sb.maxAlloc, disk'.sb.freelist_head, Freeing', crashes' + faults')
             /\ disk'.sb.maxAlloc <= fs_superblock'.maxAlloc
  <2>1. /\ Layout(disk.word, held[Me], max, LinkedHead, InFlight, crashes + faults)
        /\ Layout(disk.word, held[Me], disk.sb.maxAlloc, disk.sb.freelist_head, Freeing, crashes + faults)
        /\ disk.sb.maxAlloc <= max
    BY <1>1, <1>7, Parts
  <2> QED
    BY <1>1, <1>3, <1>6, <2>1
<1>8. CutPaid'
  BY <1>1 DEF Inv, CutPaid
<1> QED
  BY <1>2, <1>4, <1>5, <1>7, <1>8, FromParts

\* free_data_block ends at an access that failed: what is known of the disk ends too.
LEMMA CutKeeps ==
  ASSUME OneThread, Inv, Fault, op' = [op EXCEPT ![Me] = Idle], cut' = TRUE, UNCHANGED held PROVE Inv'
<1>1. Typed
  BY DEF Inv
<1>2. /\ op' \in [Thread -> [pc : Accesses, block : Int, word : Int]] /\ Pc' = "idle"
      /\ UNCHANGED <<fs_superblock, disk, crashes>> /\ faults' \in 0 .. MaxFaults
      /\ crashes' + faults' = (crashes + faults) + 1 /\ crashes + faults \in Nat
  BY <1>1, Locals, Writes, Types
<1>3. Typed'
  BY <1>1, <1>2 DEF Typed, TypeOK
<1>4. Local'
  BY <1>2 DEF Local
<1>5. CutPaid'
  BY <1>2 DEF CutPaid
<1> QED
  BY <1>3, <1>4, <1>5, FromParts

\* The superblock reaches the disk when the block in flight is not yet linked.
LEMMA SaveFreedKeeps ==
  ASSUME OneThread, Inv,
         SaveFreed(Me, "saveLast", "idle") \/ SaveFreed(Me, "saveHead", "writeLink")
  PROVE  Inv'
<1> DEFINE max   == fs_superblock.maxAlloc
           head  == fs_superblock.freelist_head
<1>1. UNCHANGED held /\ Typed /\ Pc \in {"saveLast", "saveHead"}
  BY DEF SaveFreed, At, Pc, Inv
<1>2. ASSUME Fault, op' = [op EXCEPT ![Me] = Idle], cut' = TRUE PROVE Inv'
  BY <1>1, <1>2, CutKeeps
<1>3. ASSUME WriteSuperblock, cut' = cut,
             \/ Pc = "saveLast" /\ op' = [op EXCEPT ![Me] = Idle]
             \/ Pc = "saveHead" /\ Go(Me, "writeLink")
      PROVE  Inv'
  <2>1. /\ disk'.sb = fs_superblock /\ disk'.word = disk.word
        /\ disk' \in [sb : [maxAlloc : FirstDataBlock .. NUM_OF_DATA_BLOCKS, freelist_head : Int],
                      word : [DataRegion -> Int]]
        /\ UNCHANGED <<fs_superblock, crashes, faults>> /\ crashes' + faults' = crashes + faults
    BY <1>1, <1>3, Writes
  <2>2. /\ op' \in [Thread -> [pc : Accesses, block : Int, word : Int]]
        /\ \/ Pc = "saveLast" /\ Pc' = "idle"
           \/ /\ Pc = "saveHead" /\ Pc' = "writeLink"
              /\ op'[Me].block = op[Me].block /\ op'[Me].word = op[Me].word
    BY <1>1, <1>3, Locals DEF Accesses
  <2>3. Typed'
    BY <1>1, <1>3, <2>1, <2>2 DEF Typed, TypeOK
  <2>4. Local'
    BY <1>3, <2>1, <2>2 DEF Local, Inv
  <2>5. InFlight' = InFlight /\ LinkedHead' = LinkedHead
    BY <2>1, <2>2 DEF InFlight, LinkedHead
  <2>6. CutPaid'
    BY <1>3, <2>1 DEF Inv, CutPaid
  <2>7. ASSUME ~cut'
        PROVE  /\ Layout(disk'.word, held'[Me], fs_superblock'.maxAlloc, LinkedHead', InFlight', crashes' + faults')
               /\ Pc' # "writeLink" =>
                    Layout(disk'.word, held'[Me], disk'.sb.maxAlloc, disk'.sb.freelist_head, Freeing',
                           crashes' + faults')
    <3>1. Layout(disk.word, held[Me], max, LinkedHead, InFlight, crashes + faults)
      BY <1>3, <2>7, Parts
    <3>2. Layout(disk'.word, held'[Me], fs_superblock'.maxAlloc, LinkedHead', InFlight', crashes' + faults')
      BY <1>1, <2>1, <2>5, <3>1
    <3>3. Pc' # "writeLink" => InFlight' = Freeing' /\ LinkedHead' = head
      BY <2>1, <2>2 DEF InFlight, Freeing, LinkedHead
    <3> QED
      BY <2>1, <3>2, <3>3
  <2>8. disk'.sb = fs_superblock' /\ disk'.sb.maxAlloc <= fs_superblock'.maxAlloc /\ Pc' # "zero"
    BY <1>1, <2>1, <2>2, Types
  <2> QED
    BY <2>3, <2>4, <2>6, <2>7, <2>8, FromParts
<1>4. \/ Fault /\ op' = [op EXCEPT ![Me] = Idle] /\ cut' = TRUE
      \/ /\ WriteSuperblock /\ cut' = cut
         /\ \/ Pc = "saveLast" /\ op' = [op EXCEPT ![Me] = Idle]
            \/ Pc = "saveHead" /\ Go(Me, "writeLink")
  BY DEF SaveFreed, At, Pc
<1> QED
  BY <1>2, <1>3, <1>4

LEMMA WriteLinkKeeps ==
  ASSUME OneThread, Inv, WriteLink(Me) PROVE Inv'
<1> DEFINE max   == fs_superblock.maxAlloc
           head  == fs_superblock.freelist_head
           block == op[Me].block
           word  == op[Me].word
<1>1. /\ Pc = "writeLink" /\ UNCHANGED held /\ op' = [op EXCEPT ![Me] = Idle] /\ Typed
      /\ block \in DataRegion /\ head = block /\ (~cut => block < max) /\ word \in Int /\ max \in Int
  BY Locals, Types DEF WriteLink, At, Pc, Inv, Local
<1>2. CASE Fault /\ cut' = TRUE
  BY <1>1, <1>2, CutKeeps
<1>3. CASE WriteWord(block, word) /\ cut' = cut
  <2>1. /\ disk'.sb = disk.sb /\ disk'.word = [disk.word EXCEPT ![block] = word]
        /\ disk' \in [sb : [maxAlloc : FirstDataBlock .. NUM_OF_DATA_BLOCKS, freelist_head : Int],
                      word : [DataRegion -> Int]]
        /\ UNCHANGED <<fs_superblock, crashes, faults>> /\ crashes' + faults' = crashes + faults
    BY <1>1, <1>3, Writes
  <2>2. op' \in [Thread -> [pc : Accesses, block : Int, word : Int]] /\ Pc' = "idle"
    BY <1>1, Locals
  <2>3. Typed'
    BY <1>1, <1>3, <2>1, <2>2 DEF Typed, TypeOK
  <2>4. Local'
    BY <2>2 DEF Local
  <2>5. /\ InFlight = {block} /\ LinkedHead = word
        /\ InFlight' = {} /\ Freeing' = {} /\ LinkedHead' = head
    BY <1>1, <2>1, <2>2 DEF InFlight, Freeing, LinkedHead
  <2>6. ASSUME ~cut'
        PROVE  /\ Layout(disk'.word, held'[Me], fs_superblock'.maxAlloc, LinkedHead', InFlight', crashes' + faults')
               /\ Layout(disk'.word, held'[Me], disk'.sb.maxAlloc, disk'.sb.freelist_head, Freeing', crashes' + faults')
               /\ disk'.sb.maxAlloc <= fs_superblock'.maxAlloc
    <3>1. Layout(disk.word, held[Me], max, word, {block}, crashes + faults) /\ disk.sb = fs_superblock
      BY <1>1, <1>3, <2>5, <2>6, Parts
    <3>2. block \in Below(max) /\ disk.word \in [DataRegion -> Int]
      BY SMTT(30), <1>1, <1>3, <2>6, Types, Sizes DEF Below, DataRegion
    <3>3. Layout([disk.word EXCEPT ![block] = word], held[Me], max, block, {}, crashes + faults)
      BY <1>1, <3>1, <3>2, LayoutPush
    <3> QED
      BY <1>1, <2>1, <2>5, <3>1, <3>3
  <2>7. CutPaid'
    BY <1>3, <2>1 DEF Inv, CutPaid
  <2> QED
    BY <2>2, <2>3, <2>4, <2>6, <2>7, FromParts
<1> QED
  BY <1>2, <1>3 DEF WriteLink

LEMMA WriteKeeps ==
  ASSUME OneThread, Inv, NEW b, NEW word \in Content, Write(Me, b, word) PROVE Inv'
<1> DEFINE max   == fs_superblock.maxAlloc
           head  == fs_superblock.freelist_head
<1>1. /\ Pc = "idle" /\ UNCHANGED <<op, held, cut>> /\ Typed /\ b \in held[Me] /\ b \in DataRegion
      /\ WriteWord(b, word) /\ word \in Int /\ disk.word \in [DataRegion -> Int]
  BY StepsAssumption, Types DEF Write, At, Pc, Inv
<1>2. /\ disk'.sb = disk.sb /\ disk'.word = [disk.word EXCEPT ![b] = word]
      /\ disk' \in [sb : [maxAlloc : FirstDataBlock .. NUM_OF_DATA_BLOCKS, freelist_head : Int],
                    word : [DataRegion -> Int]]
      /\ UNCHANGED <<fs_superblock, crashes, faults>> /\ crashes' + faults' = crashes + faults
  BY <1>1, Writes
<1>3. Pc' = "idle"
  BY <1>1 DEF Pc
<1>4. Typed'
  BY <1>1, <1>2 DEF Typed, TypeOK
<1>5. Local'
  BY <1>3 DEF Local
<1>6. /\ InFlight = {} /\ LinkedHead = head /\ Freeing = {}
      /\ InFlight' = {} /\ Freeing' = {} /\ LinkedHead' = head
  BY <1>1, <1>2, <1>3 DEF InFlight, Freeing, LinkedHead
<1>7. ASSUME ~cut'
      PROVE  /\ Layout(disk'.word, held'[Me], fs_superblock'.maxAlloc, LinkedHead', InFlight', crashes' + faults')
             /\ Layout(disk'.word, held'[Me], disk'.sb.maxAlloc, disk'.sb.freelist_head, Freeing', crashes' + faults')
             /\ disk'.sb.maxAlloc <= fs_superblock'.maxAlloc
  <2>1. /\ Layout(disk.word, held[Me], max, head, {}, crashes + faults)
        /\ Layout(disk.word, held[Me], disk.sb.maxAlloc, disk.sb.freelist_head, {}, crashes + faults)
        /\ disk.sb.maxAlloc <= max
    BY <1>1, <1>6, <1>7, Parts
  <2>2. /\ Layout([disk.word EXCEPT ![b] = word], held[Me], max, head, {}, crashes + faults)
        /\ Layout([disk.word EXCEPT ![b] = word], held[Me], disk.sb.maxAlloc, disk.sb.freelist_head, {},
                  crashes + faults)
    BY <1>1, <2>1, LayoutWrite
  <2> QED
    BY <1>1, <1>2, <1>6, <2>1, <2>2
<1>8. CutPaid'
  BY <1>1, <1>2 DEF Inv, CutPaid
<1> QED
  BY <1>3, <1>4, <1>5, <1>7, <1>8, FromParts

\* A crash loses the block in flight at most, and between the writes of
\* free_data_block what is known of the disk.
LEMMA CrashKeeps ==
  ASSUME OneThread, Inv, Crash PROVE Inv'
<1> DEFINE max  == disk.sb.maxAlloc
           head == disk.sb.freelist_head
<1>1. /\ UNCHANGED <<disk, held, faults>> /\ fs_superblock' = disk.sb /\ Typed /\ max \in Int
      /\ crashes < MaxCrashes /\ crashes' = crashes + 1 /\ crashes + faults \in Nat
      /\ op' = [t \in Thread |-> Idle]
      /\ Me \in Thread /\ (cut' <=> cut \/ Pc = "writeLink")
  BY Types, JustMe DEF Crash, Inv, At, Pc
<1>2. op' \in [Thread -> [pc : Accesses, block : Int, word : Int]] /\ Pc' = "idle"
  BY <1>1 DEF Idle, Accesses, Pc
<1>3. crashes' \in 0 .. MaxCrashes /\ crashes' + faults' = (crashes + faults) + 1
  BY <1>1, StepsAssumption, Types DEF Typed, TypeOK
<1>4. Typed'
  <2>1. disk.sb \in [maxAlloc : FirstDataBlock .. NUM_OF_DATA_BLOCKS, freelist_head : Int]
    BY <1>1 DEF Typed, TypeOK
  <2>2. cut' \in BOOLEAN
    BY <1>1, Zenon DEF Crash
  <2> QED
    BY <1>1, <1>2, <1>3, <2>1, <2>2 DEF Typed, TypeOK
<1>5. Local'
  BY <1>2 DEF Local
<1>6. InFlight' = {} /\ Freeing' = {} /\ LinkedHead' = head
  BY <1>1, <1>2 DEF InFlight, Freeing, LinkedHead
<1>7. ASSUME ~cut'
      PROVE  Layout(disk'.word, held'[Me], fs_superblock'.maxAlloc, LinkedHead', {}, crashes' + faults')
  <2>1. Layout(disk.word, held[Me], max, head, Freeing, crashes + faults)
    BY <1>1, <1>7, Parts
  <2>2. crashes + faults <= (crashes + faults) + 1 /\ (crashes + faults) + 1 \in Nat
    BY <1>1
  <2>3. Layout(disk.word, held[Me], max, head, {}, (crashes + faults) + 1)
    <3>1. CASE Freeing = {}
      BY <1>1, <2>1, <2>2, <3>1, LayoutMore
    <3>2. CASE Freeing = {op[Me].block}
      BY <1>1, <2>1, <2>2, <3>2, LayoutLose
    <3> QED
      BY <3>1, <3>2 DEF Freeing
  <2> QED
    BY <1>1, <1>3, <1>6, <2>3
<1>8. CutPaid'
  BY <1>1, <1>3 DEF CutPaid
<1>9. disk'.sb = fs_superblock' /\ disk'.sb.maxAlloc <= fs_superblock'.maxAlloc
  BY <1>1
<1> QED
  BY <1>1, <1>2, <1>4, <1>5, <1>6, <1>7, <1>8, <1>9, FromParts

LEMMA RestartKeeps ==
  ASSUME OneThread, Inv, restartDisk PROVE Inv'
<1> DEFINE max  == fs_superblock.maxAlloc
           head == fs_superblock.freelist_head
<1>1. Pc = "idle" /\ WriteSuperblock /\ UNCHANGED <<op, held, cut>> /\ Typed /\ max \in Int
  BY JustMe, Types DEF restartDisk, At, Pc, Inv
<1>2. /\ disk'.sb = fs_superblock /\ disk'.word = disk.word
      /\ disk' \in [sb : [maxAlloc : FirstDataBlock .. NUM_OF_DATA_BLOCKS, freelist_head : Int],
                    word : [DataRegion -> Int]]
      /\ UNCHANGED <<fs_superblock, crashes, faults>> /\ crashes' + faults' = crashes + faults
  BY <1>1, Writes
<1>3. Pc' = "idle"
  BY <1>1 DEF Pc
<1>4. Typed'
  BY <1>1, <1>2 DEF Typed, TypeOK
<1>5. Local'
  BY <1>3 DEF Local
<1>6. /\ InFlight = {} /\ LinkedHead = head
      /\ InFlight' = {} /\ Freeing' = {} /\ LinkedHead' = head
  BY <1>1, <1>2, <1>3 DEF InFlight, Freeing, LinkedHead
<1>7. ASSUME ~cut'
      PROVE  Layout(disk'.word, held'[Me], fs_superblock'.maxAlloc, LinkedHead', {}, crashes' + faults')
  <2>1. Layout(disk.word, held[Me], max, head, {}, crashes + faults)
    BY <1>1, <1>6, <1>7, Parts
  <2> QED
    BY <1>1, <1>2, <1>6, <2>1
<1>8. CutPaid'
  BY <1>1, <1>2 DEF Inv, CutPaid
<1>9. disk'.sb = fs_superblock' /\ disk'.sb.maxAlloc <= fs_superblock'.maxAlloc
  BY <1>1, <1>2
<1> QED
  BY <1>1, <1>2, <1>3, <1>4, <1>5, <1>6, <1>7, <1>8, <1>9, FromParts

-----------------------------------------------------------------------------
(* The invariant *)

\* A layout of a set-up device: nothing is allocated.
LEMMA LayoutEmpty ==
  ASSUME NEW word PROVE Layout(word, {}, FirstDataBlock, 0, {}, 0)
<1>1. << >> \in Seq(DataRegion) /\ Len(<< >>) = 0
  OBVIOUS
<1>2. Elements(<< >>) = {} /\ Chain(word, 0, << >>)
  BY <1>1 DEF Elements, Chain, Distinct
<1>3. Below(FirstDataBlock) = {}
  BY Sizes DEF Below
<1>4. Cardinality(Below(FirstDataBlock) \ ({} \union Elements(<< >>) \union {})) = 0
  BY <1>3, FS_EmptySet
<1>5. Elements(<< >>) \union {} \subseteq Below(FirstDataBlock)
      /\ Elements(<< >>) \intersect ({} \union {}) = {} /\ {} \intersect {} = {}
  BY <1>2
<1>6. Cardinality(Below(FirstDataBlock) \ ({} \union Elements(<< >>) \union {})) <= 0
  BY <1>4
<1> QED
  BY <1>1, <1>2, <1>5, <1>6, Zenon DEF Layout

LEMMA InitInv ==
  ASSUME OneThread, Init PROVE Inv
<1>1. /\ fs_superblock = Empty /\ disk.sb = Empty /\ crashes = 0 /\ faults = 0 /\ cut = FALSE
      /\ op = [t \in Thread |-> Idle] /\ held = [t \in Thread |-> {}] /\ Me \in Thread
  BY JustMe DEF Init
<1>2. /\ Empty \in [maxAlloc : FirstDataBlock .. NUM_OF_DATA_BLOCKS, freelist_head : Int]
      /\ Empty.maxAlloc = FirstDataBlock /\ Empty.freelist_head = 0
  BY Sizes DEF Empty
<1>3. disk \in [sb : [maxAlloc : FirstDataBlock .. NUM_OF_DATA_BLOCKS, freelist_head : Int],
                word : [DataRegion -> Int]]
  <2>1. PICK word \in [DataRegion -> Content] : disk = [sb |-> Empty, word |-> word]
    BY DEF Init
  <2>2. word \in [DataRegion -> Int]
    BY StepsAssumption
  <2> QED
    BY <1>2, <2>1, <2>2
<1>4. Pc = "idle" /\ held[Me] = {} /\ op \in [Thread -> [pc : Accesses, block : Int, word : Int]]
  BY <1>1 DEF Idle, Pc, Accesses
<1>5. Typed
  <2>1. held \in [Thread -> SUBSET Int]
    BY <1>1
  <2>2. crashes \in 0 .. MaxCrashes /\ faults \in 0 .. MaxFaults
    BY <1>1, StepsAssumption
  <2>3. TypeOK
    BY <1>1, <1>2, <1>3, <2>1, <2>2 DEF TypeOK
  <2>4. cut \in BOOLEAN
    BY <1>1, Zenon
  <2> QED
    BY <1>4, <2>3, <2>4 DEF Typed
<1>6. Local /\ CutPaid /\ InFlight = {} /\ Freeing = {} /\ LinkedHead = 0
  BY <1>1, <1>2, <1>4 DEF Local, CutPaid, InFlight, Freeing, LinkedHead
<1>7. crashes + faults = 0
  BY <1>1
<1>8. InMemory /\ OnDisk
  BY <1>1, <1>2, <1>4, <1>6, <1>7, LayoutEmpty DEF InMemory, OnDisk
<1>9. Behind
  BY <1>1, <1>2, <1>4, Sizes DEF Behind
<1> QED
  BY <1>5, <1>6, <1>8, <1>9 DEF Inv

LEMMA StepKeeps ==
  ASSUME OneThread, Inv, Step(Me) PROVE Inv'
  BY AllocateKeeps, TestKeeps, BranchKeeps, LoadKeeps, BumpKeeps, ZeroKeeps, ReadHeadKeeps, ReadKeeps,
     RelinkKeeps, SaveKeeps, CompareKeeps, RewindKeeps, LinkKeeps, PushKeeps, SaveFreedKeeps, WriteLinkKeeps
  DEF Step

LEMMA NextInv ==
  ASSUME OneThread, Inv, [Next]_vars PROVE Inv'
<1>1. CASE UNCHANGED vars
  BY <1>1 DEF vars, Inv, Typed, TypeOK, Local, InMemory, OnDisk, Behind, CutPaid, Pc, InFlight, Freeing,
              LinkedHead
<1>2. CASE Next
  <2>1. \/ Step(Me) \/ Crash \/ restartDisk
        \/ \E b \in held[Me] : Free(Me, b) \/ \E word \in Content : Write(Me, b, word)
    BY <1>2, JustMe DEF Next
  <2>2. ASSUME NEW b, Free(Me, b) PROVE Inv'
    BY <2>2, FreeKeeps
  <2>3. ASSUME NEW b, NEW word \in Content, Write(Me, b, word) PROVE Inv'
    BY <2>3, WriteKeeps
  <2> QED
    BY <2>1, <2>2, <2>3, StepKeeps, CrashKeeps, RestartKeeps
<1> QED
  BY <1>1, <1>2

\* The invariant holds always.
THEOREM Invariance ==
  ASSUME OneThread PROVE Spec => []Inv
<1>1. Init => Inv
  BY InitInv
<1>2. Inv /\ [Next]_vars => Inv'
  BY NextInv
<1> QED
  BY <1>1, <1>2, PTL DEF Spec

-----------------------------------------------------------------------------
(* The properties *)

LEMMA JustMine ==
  ASSUME OneThread PROVE InUse = held[Me] /\ InUse' = held'[Me] /\ Cardinality(Thread) = 1
<1>1. Thread = {Me}
  BY JustMe
<1>2. InUse = held[Me] /\ InUse' = held'[Me]
  BY <1>1 DEF InUse
<1>3. Cardinality(Thread) = 1
  BY <1>1, FS_Singleton
<1> QED
  BY <1>2, <1>3

\* Whatever the callers write to their blocks and wherever the program stops, the
\* marker stays between the first data block and the limit, in memory and on the disk.
THEOREM TypeCorrect ==
  ASSUME OneThread PROVE Spec => []TypeOK
<1>1. Inv => TypeOK
  BY DEF Inv, Typed
<1> QED
  BY <1>1, Invariance, PTL

\* As long as no free_data_block was cut between its two writes: between the calls of the
\* two functions the free list in memory ends, holds no block in use, and the blocks that
\* crashes and faults cost are counted.
THEOREM MemorySoundCorrect ==
  ASSUME OneThread PROVE Spec => []MemorySound
<1>1. ASSUME Inv, Quiet, ~cut
      PROVE  Sound(fs_superblock) /\ Cardinality(Lost(fs_superblock)) <= crashes + faults
  <2>1. Pc = "idle" /\ Typed
    BY <1>1, JustMe DEF Quiet, At, Pc, Inv
  <2>2. InFlight = {} /\ LinkedHead = fs_superblock.freelist_head
    BY <2>1 DEF InFlight, LinkedHead
  <2>3. Layout(disk.word, held[Me], fs_superblock.maxAlloc, fs_superblock.freelist_head, {}, crashes + faults)
    BY <1>1, <2>2, Parts
  <2>4. fs_superblock.maxAlloc \in Int /\ crashes + faults \in Nat
    BY <2>1, Types
  <2>5. /\ Sound(fs_superblock) /\ Cardinality(Lost(fs_superblock)) \in Nat
        /\ Cardinality(Lost(fs_superblock)) <= (crashes + faults) + Cardinality({})
    BY <2>3, <2>4, LayoutSound
  <2>6. Cardinality({}) = 0
    BY FS_EmptySet
  <2> QED
    BY <2>4, <2>5, <2>6
<1>2. Inv => MemorySound
  BY <1>1 DEF MemorySound
<1> QED
  BY <1>2, Invariance, PTL

\* A crash at any access, but the one between the two writes of free_data_block,
\* leaves a superblock on the disk whose free list ends and holds no block in use.
THEOREM RebootSafeCorrect ==
  ASSUME OneThread PROVE Spec => []RebootSafe
<1>1. ASSUME Inv, ~cut, \A t \in Thread : ~At(t, "writeLink")
      PROVE  Sound(disk.sb) /\ Cardinality(Lost(disk.sb)) <= crashes + faults + Cardinality(Thread)
  <2>1. Pc # "writeLink" /\ Typed
    BY <1>1, JustMe DEF At, Pc, Inv
  <2>2. Layout(disk.word, held[Me], disk.sb.maxAlloc, disk.sb.freelist_head, Freeing, crashes + faults)
    BY <1>1, <2>1, Parts
  <2>3. disk.sb.maxAlloc \in Int /\ crashes + faults \in Nat
    BY <2>1, Types
  <2>4. (Freeing = {} \/ \E b : Freeing = {b}) /\ Cardinality(Freeing) \in 0 .. 1
    <3>1. CASE Freeing = {}
      BY <3>1, FS_EmptySet
    <3>2. CASE Freeing = {op[Me].block}
      <4>1. Cardinality({op[Me].block}) = 1
        BY FS_Singleton
      <4> QED
        BY <3>2, <4>1
    <3> QED
      BY <3>1, <3>2 DEF Freeing
  <2>5. /\ Sound(disk.sb) /\ Cardinality(Lost(disk.sb)) \in Nat
        /\ Cardinality(Lost(disk.sb)) <= (crashes + faults) + Cardinality(Freeing)
    BY <2>2, <2>3, <2>4, LayoutSound
  <2>6. Cardinality(Thread) = 1
    BY JustMine
  <2> QED
    BY <2>3, <2>4, <2>5, <2>6
<1>2. Inv => RebootSafe
  BY <1>1 DEF RebootSafe
<1> QED
  BY <1>2, Invariance, PTL

-----------------------------------------------------------------------------
(* The pool *)

LEMMA PoolInit ==
  ASSUME OneThread, Init PROVE PoolSpec!Init
<1>1. InUse = held[Me] /\ Me \in Thread
  BY JustMine, JustMe
<1> QED
  BY <1>1 DEF Init, PoolSpec!Init

\* The steps that give a block, take one back or refuse.
LEMMA PoolStep ==
  ASSUME OneThread, Inv, Next, crashes' + faults' = 0
  PROVE  PoolSpec!Next \/ UNCHANGED <<InUse, ret>>
<1> DEFINE max == fs_superblock.maxAlloc
<1>1. InUse = held[Me] /\ InUse' = held'[Me] /\ Me \in Thread
  BY JustMine, JustMe
<1>2. crashes \in Nat /\ faults \in Nat /\ max \in Int /\ max \in FirstDataBlock .. NUM_OF_DATA_BLOCKS /\ Typed
  BY Types DEF Inv
<1>3. ~Fault /\ ~Crash
  BY <1>2 DEF Fault, Crash
<1>4. crashes + faults = 0
  <2>1. /\ crashes' = crashes \/ crashes' = crashes + 1
        /\ faults' = faults \/ faults' = faults + 1
    BY <1>1, JustMe DEF Next, Step, Allocate, Test, Branch, Load, Bump, Zero, ReadHead, Read, Relink, Save,
       Compare, Rewind, SaveFreed, Link, Push, WriteLink, Free, Write, Crash, restartDisk, Same, Fault,
       WriteSuperblock, WriteWord
  <2> QED
    BY <1>2, <2>1
<1>5. ~cut
  BY <1>4 DEF Inv, CutPaid
<1>6. /\ Layout(disk.word, held[Me], max, LinkedHead, InFlight, 0)
      /\ held[Me] \subseteq Below(max) /\ held[Me] \intersect InFlight = {}
  BY <1>4, <1>5, Parts
<1>7. Below(max) \subseteq Pool /\ held[Me] \subseteq Pool
  <2>1. Below(max) \subseteq Pool
    BY <1>2, Sizes DEF Below, Pool
  <2> QED
    BY <1>6, <2>1
<1>8. ASSUME Test(Me) PROVE PoolSpec!Next \/ UNCHANGED <<InUse, ret>>
  <2>1. CASE fs_superblock.freelist_head = 0 /\ max = NUM_OF_DATA_BLOCKS
    <3>1. Pc = "test" /\ Return(Me, -1)
      BY <1>8, <2>1 DEF Test, At, Pc
    <3>2. LinkedHead = 0 /\ InFlight = {}
      BY <2>1, <3>1 DEF LinkedHead, InFlight
    <3>3. Below(max) \subseteq held[Me]
      BY <1>2, <1>6, <3>2, LayoutFull
    <3>4. Pool \subseteq InUse
      BY <1>1, <2>1, <3>3 DEF Pool, Below
    <3>5. held'[Me] = held[Me] /\ ret' = -1
      BY <1>1, <1>2, <3>1 DEF Return, Typed, TypeOK
    <3> QED
      BY <1>1, <3>4, <3>5 DEF PoolSpec!Next, PoolSpec!Refuse
  <2>2. CASE ~(fs_superblock.freelist_head = 0 /\ max = NUM_OF_DATA_BLOCKS)
    BY <1>1, <1>8, <2>2 DEF Test
  <2> QED
    BY <2>1, <2>2
<1>9. ASSUME Zero(Me) PROVE UNCHANGED <<InUse, ret>>
  <2>1. op[Me].block \in DataRegion
    <3>1. op[Me].block = max - 1 /\ op[Me].block >= FirstDataBlock
      BY <1>9 DEF Zero, At, Pc, Inv, Local
    <3> QED
      BY <1>2, <3>1, Sizes
  <2> QED
    BY <1>1, <1>3, <1>9, <2>1 DEF Zero
<1>10. ASSUME Read(Me) PROVE UNCHANGED <<InUse, ret>>
  <2>1. Pc = "read" /\ fs_superblock.freelist_head # 0
    BY <1>10 DEF Read, At, Pc, Inv, Local
  <2>2. fs_superblock.freelist_head \in DataRegion
    <3>1. LinkedHead = fs_superblock.freelist_head /\ InFlight = {}
      BY <2>1 DEF LinkedHead, InFlight
    <3> QED
      BY <1>2, <1>6, <2>1, <3>1, LayoutPop
  <2>3. FirstWord(fs_superblock.freelist_head) # {}
    <3>1. \A b \in DataRegion : b # 0 /\ b \notin 1 .. INODE_BLOCK_COUNT
      BY StepsAssumption DEF DataRegion, FirstDataBlock
    <3> QED
      BY <2>2, <3>1 DEF FirstWord
  <2>4. UNCHANGED <<held, ret>>
    BY <1>3, <1>10, <2>3, Zenon DEF Read
  <2> QED
    BY <1>1, <2>4
<1>11. ASSUME Save(Me) PROVE PoolSpec!Next
  <2> DEFINE block == op[Me].block
  <2>1. Pc = "save" /\ block \in FirstDataBlock .. (max - 1)
        /\ Return(Me, IF block = 0 THEN -1 ELSE block)
    BY <1>3, <1>5, <1>11 DEF Save, At, Pc, Inv, Local
  <2>2. InFlight = {block} /\ block \in Pool /\ block > 0
    BY <1>7, <2>1, Sizes DEF InFlight, Below
  <2>3. Return(Me, block)
    BY <2>1, <2>2, Sizes
  <2>4. held'[Me] = held[Me] \union {block} /\ ret' = block /\ block \notin held[Me]
    BY <1>1, <1>2, <1>6, <2>2, <2>3 DEF Return, Typed, TypeOK
  <2> QED
    BY <1>1, <2>2, <2>4 DEF PoolSpec!Next, PoolSpec!Acquire
<1>12. ASSUME NEW b, Free(Me, b) PROVE PoolSpec!Next
  <2>1. b \in held[Me] /\ held'[Me] = held[Me] \ {b} /\ ret' = ret
    BY <1>1, <1>2, <1>12 DEF Free, Typed, TypeOK
  <2>2. b \in Pool
    BY <1>7, <2>1
  <2> QED
    BY <1>1, <2>1, <2>2 DEF PoolSpec!Next, PoolSpec!Release
<1>13. \/ Test(Me) \/ Zero(Me) \/ Read(Me) \/ Save(Me) \/ (\E b : Free(Me, b))
       \/ UNCHANGED <<held, ret>>
  BY <1>3, JustMe DEF Next, Step, Allocate, Branch, Load, Bump, ReadHead, Relink,
     Compare, Rewind, SaveFreed, Link, Push, WriteLink, Write, restartDisk, Same
<1> QED
  BY <1>1, <1>8, <1>9, <1>10, <1>11, <1>12, <1>13

\* Up to the first crash or fault the accesses of allocate_data_block and
\* free_data_block, taken together, are the operations of a pool of blocks.
THEOREM PoolCorrect ==
  ASSUME OneThread PROVE Spec => ImplementsPool
<1>1. Init => PoolSpec!Init
  BY PoolInit
<1>2. Inv /\ [Next]_vars => [crashes' + faults' = 0 => PoolSpec!Next \/ UNCHANGED <<InUse, ret>>]_vars
  BY PoolStep
<1> QED
  BY <1>1, <1>2, Invariance, PTL DEF Spec, ImplementsPool
=============================================================================
