---------------------------- MODULE FileIOProofs ----------------------------
(***************************************************************************)
(* Theorems about the sizes of files: for every size of a block and of the *)
(* device, every number of direct addresses, every set of files and of     *)
(* requests that holds no write inside a file (for those it is false:      *)
(* WriteInside.cfg), and every count of requests and of crashes.           *)
(***************************************************************************)
EXTENDS FileIO, Facts

-----------------------------------------------------------------------------
(* Folds *)

\* The rounds of the three loops that are folded, told apart by p.loop: the
\* provers take no operator as a parameter of a lemma.
Round(p, st, k) ==
  IF p.loop = "overwrite" THEN OverwriteBlock(st, p.r, p.r.start + k - 1)
  ELSE IF p.loop = "extend"
  THEN ExtendBlock(st, p.r, k, p.r.start - p.blocks + 1, p.count)
  ELSE DropRoot(st, SubSeq(Roots, p.level, p.last)[k])

\* g is the function that a fold over 1 .. m goes through.
Folds(p, base, m, g) ==
  g = [s \in SUBSET (1 .. m) |->
         IF s = {} THEN base ELSE Round(p, g[s \ {Max(s)}], Max(s))]

\* The value of a fold over 1 .. m.
Folded(p, base, m) ==
  (CHOOSE g : Folds(p, base, m, g))[1 .. m]

\* A set with the greatest number n in it.
LEMMA Greatest ==
  ASSUME NEW n \in Int, NEW s \in SUBSET Int, n \in s, \A k \in s : k <= n
  PROVE  Max(s) = n
<1>1. \A x \in s : (\A y \in s : x >= y) => x = n
  OBVIOUS
<1>2. \A y \in s : n >= y
  OBVIOUS
<1> QED
  BY <1>1, <1>2 DEF Max

\* A part of 1 .. n that is not empty has its greatest number.
LEMMA MaxIn ==
  ASSUME NEW n \in Nat, NEW s \in SUBSET (1 .. n), s # {}
  PROVE  Max(s) \in s
<1> DEFINE T == {n - k : k \in s}
<1>1. T \in SUBSET Nat /\ T # {}
  <2>1. \A k \in s : k \in 1 .. n
    OBVIOUS
  <2>2. \A k \in 1 .. n : n - k \in Nat
    OBVIOUS
  <2>3. \A t \in T : t \in Nat
    BY <2>1, <2>2
  <2>4. PICK k \in s : TRUE
    OBVIOUS
  <2>5. n - k \in T
    OBVIOUS
  <2> QED
    BY <2>3, <2>5
<1>2. PICK t \in T : \A u \in T : t <= u
  BY <1>1, LeastNumber
<1>3. PICK k \in s : t = n - k
  BY <1>2
<1>4. \A j \in s : n - j \in T
  OBVIOUS
<1>5. \A j \in s : k >= j
  BY <1>2, <1>3, <1>4
<1> QED
  BY <1>5 DEF Max

\* Every fold has such a function.
LEMMA FoldExists ==
  ASSUME NEW p, NEW base, NEW N \in Nat
  PROVE  \E g : Folds(p, base, N, g)
<1> DEFINE S == {m \in 0 .. N : \E g : Folds(p, base, m, g)}
<1>1. 0 \in S
  <2> DEFINE g == [s \in SUBSET (1 .. 0) |-> base]
  <2>1. SUBSET (1 .. 0) = {{}}
    OBVIOUS
  <2>2. g = [s \in SUBSET (1 .. 0) |->
               IF s = {} THEN base ELSE Round(p, g[s \ {Max(s)}], Max(s))]
    BY <2>1
  <2>3. Folds(p, base, 0, g)
    BY <2>2 DEF Folds
  <2> HIDE DEF g
  <2>4. 0 \in 0 .. N
    OBVIOUS
  <2> QED
    BY <2>3, <2>4
<1>2. ASSUME NEW m \in 0 .. (N - 1), m \in S PROVE m + 1 \in S
  <2>1. PICK g : Folds(p, base, m, g)
    BY <1>2
  <2> DEFINE h == [s \in SUBSET (1 .. (m + 1)) |->
                     IF m + 1 \in s THEN Round(p, g[s \ {m + 1}], m + 1) ELSE g[s]]
  <2>2. ASSUME NEW s \in SUBSET (1 .. (m + 1))
        PROVE  h[s] = IF s = {} THEN base ELSE Round(p, h[s \ {Max(s)}], Max(s))
    <3>1. CASE m + 1 \in s
      <4>1. Max(s) = m + 1
        BY <3>1, Greatest
      <4>2. s \ {m + 1} \in SUBSET (1 .. (m + 1)) /\ m + 1 \notin s \ {m + 1}
        OBVIOUS
      <4>3. h[s \ {m + 1}] = g[s \ {m + 1}]
        BY <4>2
      <4>4. h[s] = Round(p, g[s \ {m + 1}], m + 1)
        BY <3>1
      <4> HIDE DEF h
      <4> QED
        BY <3>1, <4>1, <4>3, <4>4
    <3>2. CASE m + 1 \notin s
      <4>1. s \in SUBSET (1 .. m) /\ s \ {Max(s)} \in SUBSET (1 .. (m + 1)) /\ m + 1 \notin s \ {Max(s)}
        <5>1. \A k \in s : k \in 1 .. (m + 1) /\ k # m + 1
          BY <3>2
        <5>2. \A k \in 1 .. (m + 1) : k # m + 1 => k \in 1 .. m
          OBVIOUS
        <5>3. s \in SUBSET (1 .. m)
          BY <5>1, <5>2
        <5> QED
          BY <3>2, <5>3
      <4>2. h[s] = g[s] /\ h[s \ {Max(s)}] = g[s \ {Max(s)}]
        BY <3>2, <4>1
      <4>3. g[s] = IF s = {} THEN base ELSE Round(p, g[s \ {Max(s)}], Max(s))
        BY <2>1, <4>1 DEF Folds
      <4> HIDE DEF h
      <4> QED
        BY <4>2, <4>3
    <3> QED
      BY <3>1, <3>2
  <2>3. h = [s \in SUBSET (1 .. (m + 1)) |-> h[s]]
    OBVIOUS
  <2> HIDE DEF h
  <2>4. h = [s \in SUBSET (1 .. (m + 1)) |->
               IF s = {} THEN base ELSE Round(p, h[s \ {Max(s)}], Max(s))]
    BY <2>2, <2>3
  <2>5. Folds(p, base, m + 1, h)
    BY <2>4 DEF Folds
  <2>6. m + 1 \in 0 .. N
    OBVIOUS
  <2> QED
    BY <2>5, <2>6
<1> HIDE DEF S
<1>3. \A m \in 0 .. N : m \in S
  BY <1>1, <1>2, Induction
<1>4. N \in S
  BY <1>3
<1> QED
  BY <1>4 DEF S


\* What a fold has after k rounds.
LEMMA FoldRounds ==
  ASSUME NEW p, NEW base, NEW m \in Nat, NEW g, Folds(p, base, m, g)
  PROVE  /\ g[1 .. 0] = base
         /\ \A k \in 1 .. m : g[1 .. k] = Round(p, g[1 .. (k - 1)], k)
<1>1. g[1 .. 0] = base
  <2>1. 1 .. 0 = {} /\ {} \in SUBSET (1 .. m)
    OBVIOUS
  <2> QED
    BY <2>1 DEF Folds
<1>2. ASSUME NEW k \in 1 .. m PROVE g[1 .. k] = Round(p, g[1 .. (k - 1)], k)
  <2>1. 1 .. k \in SUBSET (1 .. m) /\ 1 .. k # {}
    OBVIOUS
  <2>2. Max(1 .. k) = k
    <3>1. k \in Int /\ 1 .. k \in SUBSET Int /\ k \in 1 .. k /\ \A n \in 1 .. k : n <= k
      OBVIOUS
    <3> QED
      BY <3>1, Greatest
  <2>3. (1 .. k) \ {k} = 1 .. (k - 1)
    OBVIOUS
  <2> QED
    BY <2>1, <2>2, <2>3 DEF Folds
<1> QED
  BY <1>1, <1>2

\* A longer fold goes through the values of a shorter one.
LEMMA FoldPrefix ==
  ASSUME NEW p, NEW base, NEW n \in Nat, NEW m \in 0 .. n,
         NEW g, NEW h, Folds(p, base, m, g), Folds(p, base, n, h)
  PROVE  h[1 .. m] = g[1 .. m]
<1> DEFINE S == {k \in 0 .. m : h[1 .. k] = g[1 .. k]}
<1>1. /\ g[1 .. 0] = base
      /\ \A k \in 1 .. m : g[1 .. k] = Round(p, g[1 .. (k - 1)], k)
  BY FoldRounds
<1>2. /\ h[1 .. 0] = base
      /\ \A k \in 1 .. n : h[1 .. k] = Round(p, h[1 .. (k - 1)], k)
  BY FoldRounds
<1>3. 0 \in S
  BY <1>1, <1>2
<1>4. ASSUME NEW k \in 0 .. (m - 1), k \in S PROVE k + 1 \in S
  <2>1. k + 1 \in 1 .. m /\ k + 1 \in 1 .. n /\ (k + 1) - 1 = k /\ k + 1 \in 0 .. m
    OBVIOUS
  <2>2. h[1 .. k] = g[1 .. k]
    BY <1>4
  <2>3. h[1 .. (k + 1)] = Round(p, h[1 .. k], k + 1)
    BY <1>2, <2>1
  <2>4. g[1 .. (k + 1)] = Round(p, g[1 .. k], k + 1)
    BY <1>1, <2>1
  <2> QED
    BY <2>1, <2>2, <2>3, <2>4
<1> HIDE DEF S
<1>5. \A k \in 0 .. m : k \in S
  BY <1>3, <1>4, Induction
<1> QED
  BY <1>5 DEF S

\* Whatever function of the fold is taken, its value is the one.
LEMMA FoldValue ==
  ASSUME NEW p, NEW base, NEW m \in Nat, NEW g, Folds(p, base, m, g)
  PROVE  g[1 .. m] = Folded(p, base, m)
<1>1. Folds(p, base, m, CHOOSE f : Folds(p, base, m, f))
  BY FoldExists
<1>2. m \in 0 .. m
  OBVIOUS
<1> QED
  BY <1>1, <1>2, FoldPrefix DEF Folded

\* One round after the other.
LEMMA FoldStep ==
  ASSUME NEW p, NEW base
  PROVE  /\ Folded(p, base, 0) = base
         /\ \A m \in Nat : Folded(p, base, m + 1) = Round(p, Folded(p, base, m), m + 1)
<1>1. Folded(p, base, 0) = base
  <2>1. PICK g : Folds(p, base, 0, g)
    BY FoldExists
  <2>2. 0 \in Nat
    OBVIOUS
  <2>3. g[1 .. 0] = base
    BY <2>1, <2>2, FoldRounds
  <2>4. g[1 .. 0] = Folded(p, base, 0)
    BY <2>1, <2>2, FoldValue
  <2> QED
    BY <2>3, <2>4
<1>2. ASSUME NEW m \in Nat PROVE Folded(p, base, m + 1) = Round(p, Folded(p, base, m), m + 1)
  <2>1. PICK g : Folds(p, base, m, g)
    BY FoldExists
  <2>2. m + 1 \in Nat /\ m \in 0 .. (m + 1) /\ m + 1 \in 1 .. (m + 1) /\ (m + 1) - 1 = m
    OBVIOUS
  <2>3. PICK h : Folds(p, base, m + 1, h)
    BY <2>2, FoldExists
  <2>4. h[1 .. m] = g[1 .. m]
    BY <2>1, <2>2, <2>3, FoldPrefix
  <2>5. h[1 .. (m + 1)] = Round(p, h[1 .. m], m + 1)
    <3>1. \A k \in 1 .. (m + 1) : h[1 .. k] = Round(p, h[1 .. (k - 1)], k)
      BY <2>2, <2>3, FoldRounds
    <3> QED
      BY <2>2, <3>1
  <2>6. g[1 .. m] = Folded(p, base, m)
    BY <2>1, FoldValue
  <2>7. h[1 .. (m + 1)] = Folded(p, base, m + 1)
    BY <2>2, <2>3, FoldValue
  <2> QED
    BY <2>4, <2>5, <2>6, <2>7
<1> QED
  BY <1>1, <1>2

-----------------------------------------------------------------------------
(* The loops are such folds. *)

OverwriteLoop(r) == [loop |-> "overwrite", r |-> r]

\* The first loop of fs_write.
LEMMA OverwriteFold ==
  ASSUME NEW st, NEW r, NEW count \in Nat
  PROVE  Overwrite(st, r, count) = Folded(OverwriteLoop(r), st, count)
<1> DEFINE Fun(f) == f = [s \in SUBSET (1 .. count) |->
                         IF s = {} THEN st
                         ELSE OverwriteBlock(f[s \ {Max(s)}], r, r.start + [k \in 1 .. count |-> k][Max(s)] - 1)]
<1>1. Overwrite(st, r, count) = (CHOOSE f : Fun(f))[1 .. count]
  BY DEF Overwrite, FoldLeft, MapThenFoldSet
<1>2. PICK g : Folds(OverwriteLoop(r), st, count, g)
  BY FoldExists
<1>3. ASSUME NEW f, NEW s \in SUBSET (1 .. count)
      PROVE  (IF s = {} THEN st ELSE Round(OverwriteLoop(r), f[s \ {Max(s)}], Max(s)))
           = IF s = {} THEN st
             ELSE OverwriteBlock(f[s \ {Max(s)}], r, r.start + [k \in 1 .. count |-> k][Max(s)] - 1)
  <2>1. CASE s = {}
    BY <2>1
  <2>2. CASE s # {}
    <3>1. Max(s) \in 1 .. count
      BY <2>2, MaxIn
    <3>2. [k \in 1 .. count |-> k][Max(s)] = Max(s)
      BY <3>1
    <3>3. OverwriteLoop(r).loop = "overwrite" /\ OverwriteLoop(r).r = r
      BY DEF OverwriteLoop
    <3> QED
      BY <2>2, <3>2, <3>3 DEF Round
  <2> QED
    BY <2>1, <2>2
<1>4. ASSUME NEW f PROVE Fun(f) <=> Folds(OverwriteLoop(r), st, count, f)
  BY <1>3 DEF Folds
<1> HIDE DEF Fun
<1>5. Fun(g)
  BY <1>2, <1>4
<1>6. Fun(CHOOSE f : Fun(f))
  BY <1>5
<1>7. Folds(OverwriteLoop(r), st, count, CHOOSE f : Fun(f))
  BY <1>4, <1>6
<1> QED
  BY <1>1, <1>7, FoldValue

-----------------------------------------------------------------------------
(* Blocks and words *)

\* A block has a word or more.
LEMMA BlockSize == BLOCK_SIZE \in Nat /\ BLOCK_SIZE >= 1
BY DiskAssumption DEF BLOCK_SIZE

\* Order carries over to multiples.
LEMMA Multiples ==
  ASSUME NEW a \in Int, NEW b \in Int, NEW p \in Nat, p >= 1
  PROVE  /\ a * p \in Int /\ b * p \in Int
         /\ a <= b => a * p <= b * p
         /\ a * p < b * p => a < b
         /\ (a + 1) * p = a * p + p /\ (a - 1) * p = a * p - p
<1>1. a * p \in Int /\ b * p \in Int
  OBVIOUS
<1>2. (a + 1) * p = a * p + p /\ (a - 1) * p = a * p - p
  OBVIOUS
<1>3. ASSUME a <= b PROVE a * p <= b * p
  <2>1. b - a \in Nat
    BY <1>3
  <2>2. (b - a) * p >= 0
    BY <2>1
  <2>3. (b - a) * p = b * p - a * p
    OBVIOUS
  <2> QED
    BY <1>1, <2>2, <2>3
<1>4. ASSUME a * p < b * p, ~(a < b) PROVE FALSE
  <2>1. a - b \in Nat
    BY <1>4
  <2>2. (a - b) * p >= 0
    BY <2>1
  <2>3. (a - b) * p = a * p - b * p
    OBVIOUS
  <2> QED
    BY <1>1, <1>4, <2>2, <2>3
<1> QED
  BY <1>1, <1>2, <1>3, <1>4

\* The blocks that a length needs: the last word lies in the last of them.
LEMMA KeepIs ==
  ASSUME NEW n \in Nat, NEW k \in Nat
  PROVE  Keep(n) = k <=> (k - 1) * BLOCK_SIZE < n /\ n <= k * BLOCK_SIZE
<1> DEFINE p == BLOCK_SIZE
<1>1. p \in Nat /\ p >= 1
  BY BlockSize
<1> HIDE DEF p
<1>2. CASE n = 0
  <2>1. Keep(n) = 0
    BY <1>2 DEF Keep
  <2>2. k = 0 => (k - 1) * p < n /\ n <= k * p
    BY <1>1, <1>2
  <2>3. (k - 1) * p < 0 => k - 1 < 0
    <3>1. 0 * p = 0 /\ k - 1 \in Int
      BY <1>1
    <3> QED
      BY <1>1, <3>1, Multiples
  <2> QED
    BY <1>1, <1>2, <2>1, <2>2, <2>3 DEF p
<1>3. CASE n # 0
  <2> DEFINE q == (n - 1) \div p
             m == (n - 1) % p
  <2>1. n - 1 \in Nat
    BY <1>3
  <2>2. q \in Nat /\ m \in 0 .. (p - 1) /\ n - 1 = q * p + m
    BY <1>1, <2>1, DivMod
  <2>3. Keep(n) = q + 1
    BY <1>3 DEF Keep, p
  <2> HIDE DEF q, m
  <2>4. (q + 1) * p = q * p + p /\ q * p \in Int /\ (k - 1) * p = k * p - p /\ k * p \in Int
    BY <1>1, <2>2, Multiples
  <2>5. ASSUME Keep(n) = k PROVE (k - 1) * p < n /\ n <= k * p
    BY <1>1, <2>2, <2>3, <2>4, <2>5
  <2>6. ASSUME (k - 1) * p < n, n <= k * p PROVE Keep(n) = k
    <3>1. k * p < (q + 1 + 1) * p
      <4>1. (q + 1 + 1) * p = (q + 1) * p + p
        BY <1>1, <2>2, Multiples
      <4> QED
        BY <1>1, <2>2, <2>4, <2>6, <4>1
    <3>2. q * p < k * p
      BY <1>1, <2>2, <2>4, <2>6
    <3>3. k < q + 1 + 1
      BY <1>1, <2>2, <3>1, Multiples
    <3>4. q < k
      BY <1>1, <2>2, <3>2, Multiples
    <3> QED
      BY <2>2, <2>3, <3>3, <3>4
  <2> QED
    BY <2>5, <2>6 DEF p
<1> QED
  BY <1>2, <1>3

\* It is a number of blocks.
LEMMA KeepNat ==
  ASSUME NEW n \in Nat
  PROVE  Keep(n) \in Nat
<1>1. CASE n = 0
  BY <1>1 DEF Keep
<1>2. CASE n # 0
  <2>1. n - 1 \in Nat
    BY <1>2
  <2>2. (n - 1) \div BLOCK_SIZE \in Nat
    BY <2>1, BlockSize, DivMod
  <2> QED
    BY <1>2, <2>2 DEF Keep
<1> QED
  BY <1>1, <1>2

\* A longer file needs no fewer blocks.
LEMMA KeepMonotone ==
  ASSUME NEW m \in Nat, NEW n \in Nat, m <= n
  PROVE  Keep(m) <= Keep(n)
<1> DEFINE p == BLOCK_SIZE
           j == Keep(m)
           k == Keep(n)
<1>1. p \in Nat /\ p >= 1 /\ j \in Nat /\ k \in Nat
  BY BlockSize, KeepNat
<1>2. (j - 1) * p < m /\ n <= k * p
  BY <1>1, KeepIs
<1> HIDE DEF p, j, k
<1>3. (j - 1) * p \in Int /\ k * p \in Int /\ j - 1 \in Int /\ k \in Int
  BY <1>1
<1>4. (j - 1) * p < k * p
  BY <1>2, <1>3
<1>5. j - 1 < k
  BY <1>1, <1>3, <1>4, Multiples
<1> QED
  BY <1>1, <1>5 DEF j, k

\* What Request makes of an offset and a number of words.
IsRequest(r) ==
  /\ r.offset \in Nat /\ r.n \in Nat \ {0}
  /\ r.start \in Nat /\ r.startOffset \in 0 .. (BLOCK_SIZE - 1)
  /\ r.end \in Nat /\ r.endOffset \in 0 .. (BLOCK_SIZE - 1)
  /\ r.offset = r.start * BLOCK_SIZE + r.startOffset
  /\ r.offset + r.n - 1 = r.end * BLOCK_SIZE + r.endOffset
  /\ r.start <= r.end

\* Request divides as it should.
LEMMA RequestIs ==
  ASSUME NEW offset \in Nat, NEW n \in Nat \ {0}, NEW buff
  PROVE  /\ IsRequest(Request(offset, n, buff))
         /\ Request(offset, n, buff).offset = offset
         /\ Request(offset, n, buff).n = n
<1> DEFINE r == Request(offset, n, buff)
           p == BLOCK_SIZE
<1>1. p \in Nat /\ p >= 1
  BY BlockSize
<1>2. /\ r.offset = offset /\ r.n = n /\ r.start = offset \div p /\ r.startOffset = offset % p
      /\ r.end = (offset + n - 1) \div p /\ r.endOffset = (offset + n - 1) % p
  BY DEF Request
<1> HIDE DEF r, p
<1>3. offset + n - 1 \in Nat
  OBVIOUS
<1>4. r.start \in Nat /\ r.startOffset \in 0 .. (p - 1) /\ offset = r.start * p + r.startOffset
  BY <1>1, <1>2, DivMod
<1>5. r.end \in Nat /\ r.endOffset \in 0 .. (p - 1) /\ offset + n - 1 = r.end * p + r.endOffset
  <2> DEFINE m == offset + n - 1
  <2>1. m \in Nat /\ r.end = m \div p /\ r.endOffset = m % p
    BY <1>2, <1>3
  <2> HIDE DEF m
  <2>2. r.end \in Nat /\ r.endOffset \in 0 .. (p - 1) /\ m = r.end * p + r.endOffset
    BY <1>1, <2>1, DivMod
  <2> QED
    BY <2>2 DEF m
<1>6. r.start <= r.end
  <2>1. (r.end + 1) * p = r.end * p + p /\ r.end * p \in Int /\ r.start * p \in Int
    BY <1>1, <1>4, <1>5, Multiples
  <2>2. r.start * p < (r.end + 1) * p
    BY <1>1, <1>4, <1>5, <2>1
  <2>3. r.start < r.end + 1
    BY <1>1, <1>4, <1>5, <2>2, Multiples
  <2> QED
    BY <1>4, <1>5, <2>3
<1> QED
  BY <1>2, <1>4, <1>5, <1>6 DEF IsRequest, r, p

\* The words of a request that go into the first c of its blocks.
WordsIn(r, c) == IF c <= 0 THEN 0 ELSE Least(c * BLOCK_SIZE - r.startOffset, r.n)

\* Some words go into the first blocks, unless there are none.
LEMMA WordsInNat ==
  ASSUME NEW r, IsRequest(r), NEW c \in Int
  PROVE  WordsIn(r, c) \in Nat /\ (WordsIn(r, c) = 0 <=> c <= 0)
<1> DEFINE p == BLOCK_SIZE
<1>1. p \in Nat /\ p >= 1
  BY BlockSize
<1>2. r.startOffset \in 0 .. (p - 1) /\ r.n \in Nat \ {0}
  BY DEF IsRequest
<1>3. CASE c <= 0
  BY <1>3 DEF WordsIn
<1>4. CASE c > 0
  <2>1. c * p \in Int /\ c * p >= p
    <3>1. 1 * p = p /\ 1 <= c
      BY <1>1, <1>4
    <3> HIDE DEF p
    <3> QED
      BY <1>1, <3>1, Multiples
  <2>2. c * p - r.startOffset \in Nat \ {0}
    BY <1>1, <1>2, <2>1
  <2>3. WordsIn(r, c) \in {c * p - r.startOffset, r.n}
    BY <1>4 DEF WordsIn, Least
  <2> QED
    BY <1>2, <1>4, <2>2, <2>3
<1> QED
  BY <1>3, <1>4

\* The first part, and then one block after the other to the end.
LEMMA WordsNext ==
  ASSUME NEW r, IsRequest(r)
  PROVE  /\ WordsIn(r, 1) = FirstPart(r)
         /\ \A c \in 1 .. (r.end - r.start) :
              WordsIn(r, c + 1) = WordsIn(r, c) + NextPart(r, r.start + c = r.end)
<1> DEFINE p == BLOCK_SIZE
           d == r.end - r.start
<1>1. p \in Nat /\ p >= 1
  BY BlockSize
<1>2. /\ r.n \in Nat \ {0} /\ r.start \in Nat /\ r.startOffset \in 0 .. (p - 1)
      /\ r.end \in Nat /\ r.endOffset \in 0 .. (p - 1) /\ r.offset \in Nat
      /\ r.offset = r.start * p + r.startOffset
      /\ r.offset + r.n - 1 = r.end * p + r.endOffset
      /\ r.start <= r.end
  BY DEF IsRequest
<1>3. WordsIn(r, 1) = FirstPart(r)
  <2>1. 1 * p = p
    BY <1>1
  <2> QED
    BY <2>1 DEF WordsIn, FirstPart
<1>4. ASSUME NEW c \in 1 .. (r.end - r.start)
      PROVE  WordsIn(r, c + 1) = WordsIn(r, c) + NextPart(r, r.start + c = r.end)
  <2>1. WordsIn(r, c + 1) = Least((c + 1) * p - r.startOffset, r.n)
        /\ WordsIn(r, c) = Least(c * p - r.startOffset, r.n)
    BY <1>2 DEF WordsIn
  <2>2. NextPart(r, r.start + c = r.end) = IF c = d THEN r.endOffset + 1 ELSE p
    BY <1>2 DEF NextPart
  <2> HIDE DEF p
  <2>3. d \in Nat /\ c \in 1 .. d
    BY <1>2
  <2>4. r.n = d * p + r.endOffset + 1 - r.startOffset /\ d * p \in Int
    <3>1. d * p = r.end * p - r.start * p /\ r.end * p \in Int /\ r.start * p \in Int
      BY <1>1, <1>2
    <3>2. r.n = r.end * p + r.endOffset + 1 - (r.start * p + r.startOffset)
      BY <1>1, <1>2, <3>1
    <3> DEFINE u == r.end * p
               v == r.start * p
               w == d * p
    <3>3. w = u - v /\ u \in Int /\ v \in Int
      BY <3>1
    <3>4. r.n = u + r.endOffset + 1 - (v + r.startOffset)
      BY <3>2
    <3> HIDE DEF u, v, w
    <3>5. r.n = w + r.endOffset + 1 - r.startOffset /\ w \in Int
      <4>1. r.endOffset \in Int /\ r.startOffset \in Int
        BY <1>1, <1>2
      <4> QED
        BY <3>3, <3>4, <4>1
    <3> QED
      BY <3>5 DEF w
  <2> HIDE DEF d
  <2>5. c * p <= d * p /\ c * p \in Int /\ (c + 1) * p = c * p + p
    BY <1>1, <2>3, Multiples
  <2>6. CASE c = d
    <3>1. Least(c * p - r.startOffset, r.n) = c * p - r.startOffset
      BY <1>1, <1>2, <2>4, <2>5, <2>6 DEF Least
    <3>2. Least((c + 1) * p - r.startOffset, r.n) = r.n
      BY <1>1, <1>2, <2>4, <2>5, <2>6 DEF Least
    <3> QED
      BY <1>1, <1>2, <2>1, <2>2, <2>4, <2>5, <2>6, <3>1, <3>2
  <2>7. CASE c # d
    <3>1. (c + 1) * p <= d * p
      <4>1. c + 1 \in Int /\ d \in Int /\ c + 1 <= d
        BY <2>3, <2>7
      <4> QED
        BY <1>1, <4>1, Multiples
    <3>2. Least(c * p - r.startOffset, r.n) = c * p - r.startOffset
      BY <1>1, <1>2, <2>4, <2>5, <3>1 DEF Least
    <3>3. Least((c + 1) * p - r.startOffset, r.n) = (c + 1) * p - r.startOffset
      BY <1>1, <1>2, <2>4, <2>5, <3>1 DEF Least
    <3> QED
      BY <1>1, <1>2, <2>1, <2>2, <2>5, <2>7, <3>2, <3>3
  <2> QED
    BY <2>6, <2>7
<1> QED
  BY <1>3, <1>4

-----------------------------------------------------------------------------
(* The inode in memory *)

Fields == {"blocks", "directAddresses", "singleIndirect", "doubleIndirect", "tripleIndirect", "fileSize"}

IsInode(node) == DOMAIN node = Fields /\ node.blocks \in Nat

\* The inode of a new file is empty.
LEMMA NewInodeIs == IsInode(NewInode) /\ NewInode.blocks = 0 /\ NewInode.fileSize = 0
BY DEF NewInode, IsInode, Fields

\* Every way to an address starts at a root.
LEMMA RouteRoot ==
  ASSUME NEW n
  PROVE  Route(n).root \in {"singleIndirect", "doubleIndirect", "tripleIndirect"}
BY DEF Route

\* add_datablock_to_inode counts the block when it could add it, and only then.
LEMMA AddCounts ==
  ASSUME NEW f, NEW node, IsInode(node), NEW b, NEW a, a = add_datablock_to_inode(f, node, b)
  PROVE  /\ DOMAIN a = {"fs", "ok", "node"}
         /\ IsInode(a.node)
         /\ a.ok \in BOOLEAN
         /\ a.node.blocks = IF a.ok THEN node.blocks + 1 ELSE node.blocks
<1> DEFINE n    == node.blocks
           r    == Route(n)
           root == NewRoot(f, node[r.root], n \in {SingleStart, DoubleStart, TripleStart})
           at   == CASE Len(r.path) = 0 -> root
                     [] Len(r.path) = 1 -> Child(root, r.path[1], r.entry = 0)
                     [] Len(r.path) = 2 -> Child(Child(root, r.path[1], r.entry = 0 /\ r.path[2] = 0),
                                                 r.path[2], r.entry = 0)
           node1 == [node EXCEPT ![r.root] = root.ptr]
           leaf  == [at.fs.blk[at.ptr] EXCEPT ![r.entry] = b]
           direct == [node EXCEPT !.directAddresses[n] = b, !.blocks = n + 1]
           below  == [node1 EXCEPT !.blocks = n + 1]
<1>1. a = IF n < NUM_DIRECT_BLOCKS
          THEN [fs |-> f, ok |-> TRUE, node |-> direct]
          ELSE IF n >= MaxBlocks THEN [fs |-> f, ok |-> FALSE, node |-> node]
          ELSE IF ~at.ok \/ (r.path # << >> /\ at.ptr <= 0) THEN [fs |-> at.fs, ok |-> FALSE, node |-> node1]
          ELSE [fs |-> write_data_block(at.fs, at.ptr, leaf), ok |-> TRUE, node |-> below]
  BY DEF add_datablock_to_inode
<1>2. DOMAIN node = Fields /\ n \in Nat
  BY DEF IsInode
<1>3. DOMAIN node1 = Fields /\ node1.blocks = n
  <2>1. r.root # "blocks"
    BY RouteRoot
  <2> HIDE DEF r, root
  <2> QED
    BY <1>2, <2>1 DEF Fields
<1> HIDE DEF r, root, at, node1, leaf
<1>4. DOMAIN direct = Fields /\ direct.blocks = n + 1
  BY <1>2 DEF Fields
<1>5. DOMAIN below = Fields /\ below.blocks = n + 1
  BY <1>2, <1>3 DEF Fields
<1> HIDE DEF direct, below
<1>6. CASE a = [fs |-> f, ok |-> TRUE, node |-> direct]
  BY <1>2, <1>4, <1>6 DEF IsInode
<1>7. CASE a = [fs |-> f, ok |-> FALSE, node |-> node]
  BY <1>2, <1>7 DEF IsInode
<1>8. CASE a = [fs |-> at.fs, ok |-> FALSE, node |-> node1]
  BY <1>2, <1>3, <1>8 DEF IsInode
<1>9. CASE a = [fs |-> write_data_block(at.fs, at.ptr, leaf), ok |-> TRUE, node |-> below]
  BY <1>2, <1>5, <1>9 DEF IsInode
<1> QED
  BY <1>1, <1>6, <1>7, <1>8, <1>9

-----------------------------------------------------------------------------
(* fs_write *)

\* The locals of fs_write.
Locals == {"fs", "node", "written", "prev", "block", "ok"}

\* In the first loop after c rounds.
Overwritten(st, r, c, node) ==
  /\ DOMAIN st = Locals
  /\ st.node = node
  /\ st.ok => st.written = WordsIn(r, c)

\* A round of the first loop, which changes no inode.
LEMMA OverwriteRound ==
  ASSUME NEW r, IsRequest(r), NEW node, NEW st, NEW c \in 0 .. (r.end - r.start),
         Overwritten(st, r, c, node)
  PROVE  Overwritten(OverwriteBlock(st, r, r.start + c), r, c + 1, node)
<1> DEFINE i     == r.start + c
           found == get_datablock_from_inode(st.fs, st.node, i, st.prev)
           old   == st.fs.blk[found.block]
           part  == IF i = r.start THEN FirstPart(r) ELSE NextPart(r, i = r.end)
           new   == IF i = r.start THEN CopyIn(old, r.startOffset, r.buff, 0, part)
                    ELSE CopyIn(old, 0, r.buff, st.written, part)
           next  == OverwriteBlock(st, r, i)
           f1    == write_data_block(st.fs, found.block, new)
           done  == [st EXCEPT !.fs = f1, !.written = @ + part, !.prev = found.prev]
           failed == [st EXCEPT !.ok = FALSE]
<1> SUFFICES Overwritten(next, r, c + 1, node)
  OBVIOUS
<1>1. next = IF ~st.ok THEN st ELSE IF found.block <= 0 THEN failed ELSE done
  BY DEF OverwriteBlock, OverwriteFound
<1>2. DOMAIN st = Locals /\ st.node = node /\ (st.ok => st.written = WordsIn(r, c))
  BY DEF Overwritten
<1>3. r.start \in Nat /\ r.end \in Nat
  BY DEF IsRequest
<1>4. WordsIn(r, c) + part = WordsIn(r, c + 1)
  <2>1. CASE c = 0
    <3>1. WordsIn(r, 0) = 0 /\ i = r.start
      BY <1>3, <2>1 DEF WordsIn
    <3>2. part = WordsIn(r, 1)
      BY <3>1, WordsNext
    <3>3. 1 \in Int
      OBVIOUS
    <3>4. WordsIn(r, 1) \in Nat
      BY <3>3, WordsInNat
    <3> HIDE DEF part
    <3> QED
      BY <2>1, <3>1, <3>2, <3>4
  <2>2. CASE c # 0
    <3>1. c \in 1 .. (r.end - r.start) /\ i # r.start
      BY <1>3, <2>2
    <3>2. part = NextPart(r, r.start + c = r.end)
      BY <3>1
    <3> HIDE DEF part
    <3> QED
      BY <3>1, <3>2, WordsNext
  <2> QED
    BY <2>1, <2>2
<1> HIDE DEF i, found, old, part, new, f1
<1>5. CASE ~st.ok
  <2>1. next = st
    BY <1>1, <1>5
  <2> HIDE DEF next
  <2> QED
    BY <1>2, <1>5, <2>1 DEF Overwritten
<1>6. CASE st.ok /\ next = failed
  <2>1. DOMAIN failed = Locals /\ failed.node = node /\ failed.ok = FALSE
    BY <1>2 DEF Locals
  <2> HIDE DEF failed, next
  <2> QED
    BY <1>6, <2>1 DEF Overwritten
<1>7. CASE st.ok /\ next = done
  <2>1. DOMAIN done = Locals /\ done.node = node /\ done.written = st.written + part
    BY <1>2 DEF Locals
  <2> HIDE DEF done, next
  <2> QED
    BY <1>2, <1>4, <1>7, <2>1 DEF Overwritten
<1>8. ~st.ok \/ (st.ok /\ next = failed) \/ (st.ok /\ next = done)
  BY <1>1
<1> QED
  BY <1>5, <1>6, <1>7, <1>8

\* All rounds of it.
LEMMA OverwriteRounds ==
  ASSUME NEW r, IsRequest(r), NEW node, NEW st, Overwritten(st, r, 0, node),
         NEW count \in 0 .. (r.end - r.start + 1)
  PROVE  Overwritten(Overwrite(st, r, count), r, count, node)
<1> DEFINE p == OverwriteLoop(r)
           S == {c \in 0 .. count : Overwritten(Folded(p, st, c), r, c, node)}
<1>1. r.start \in Nat /\ r.end \in Nat /\ count \in Nat
  BY DEF IsRequest
<1>2. /\ Folded(p, st, 0) = st
      /\ \A m \in Nat : Folded(p, st, m + 1) = Round(p, Folded(p, st, m), m + 1)
  BY FoldStep
<1>3. ASSUME NEW s, NEW k PROVE Round(p, s, k) = OverwriteBlock(s, r, r.start + k - 1)
  <2>1. p.loop = "overwrite" /\ p.r = r
    BY DEF OverwriteLoop
  <2> HIDE DEF p
  <2> QED
    BY <2>1 DEF Round
<1> HIDE DEF p
<1>4. 0 \in S
  BY <1>1, <1>2
<1>5. ASSUME NEW c \in 0 .. (count - 1), c \in S PROVE c + 1 \in S
  <2>1. c \in 0 .. (r.end - r.start) /\ c \in Nat /\ r.start + (c + 1) - 1 = r.start + c /\ c + 1 \in 0 .. count
    BY <1>1
  <2>2. Overwritten(Folded(p, st, c), r, c, node)
    BY <1>5
  <2>3. Folded(p, st, c + 1) = OverwriteBlock(Folded(p, st, c), r, r.start + c)
    BY <1>2, <1>3, <2>1
  <2>4. Overwritten(Folded(p, st, c + 1), r, c + 1, node)
    BY <2>1, <2>2, <2>3, OverwriteRound
  <2> QED
    BY <2>1, <2>4
<1> HIDE DEF S
<1>6. \A c \in 0 .. count : c \in S
  BY <1>1, <1>4, <1>5, Induction
<1>7. count \in 0 .. count
  BY <1>1
<1>8. Overwritten(Folded(p, st, count), r, count, node)
  BY <1>6, <1>7 DEF S
<1> QED
  BY <1>1, <1>8, OverwriteFold DEF p

\* In the second loop after i rounds, for a file that had blocks blocks.
Extended(st, r, blocks, i) ==
  /\ DOMAIN st = Locals
  /\ IsInode(st.node)
  /\ st.node.blocks \in blocks .. (blocks + i)
  /\ st.ok => st.node.blocks = blocks + i
  /\ st.written = WordsIn(r, st.node.blocks - r.start)

\* The allocation in front of an addition changes no inode.
LEMMA AllocateNewKeeps ==
  ASSUME NEW st, DOMAIN st = Locals
  PROVE  /\ DOMAIN AllocateNew(st) = Locals
         /\ AllocateNew(st).node = st.node
         /\ AllocateNew(st).written = st.written
<1> DEFINE new == allocate_data_block(st.fs)
<1>1. AllocateNew(st) = [st EXCEPT !.fs = new.fs, !.block = new.ret, !.ok = st.ok /\ new.ret > 0]
  BY DEF AllocateNew
<1> HIDE DEF new
<1> QED
  BY <1>1 DEF Locals

\* The addition counts the block when it succeeds.
LEMMA AddNewCounts ==
  ASSUME NEW st, DOMAIN st = Locals, IsInode(st.node)
  PROVE  /\ DOMAIN AddNew(st) = Locals
         /\ IsInode(AddNew(st).node)
         /\ AddNew(st).written = st.written
         /\ AddNew(st).node.blocks = IF AddNew(st).ok THEN st.node.blocks + 1 ELSE st.node.blocks
<1> DEFINE a == add_datablock_to_inode(st.fs, st.node, st.block)
<1>1. AddNew(st) = IF ~st.ok THEN st ELSE [st EXCEPT !.fs = a.fs, !.node = a.node, !.ok = a.ok]
  BY DEF AddNew
<1>2. /\ DOMAIN a = {"fs", "ok", "node"}
      /\ IsInode(a.node)
      /\ a.ok \in BOOLEAN
      /\ a.node.blocks = IF a.ok THEN st.node.blocks + 1 ELSE st.node.blocks
  BY AddCounts
<1> HIDE DEF a
<1>3. CASE ~st.ok
  BY <1>1, <1>3
<1>4. CASE st.ok
  <2>1. AddNew(st) = [st EXCEPT !.fs = a.fs, !.node = a.node, !.ok = a.ok]
    BY <1>1, <1>4
  <2>2. /\ DOMAIN AddNew(st) = Locals /\ AddNew(st).node = a.node
        /\ AddNew(st).written = st.written /\ AddNew(st).ok = a.ok
    BY <2>1 DEF Locals
  <2> QED
    BY <1>2, <2>2
<1> QED
  BY <1>3, <1>4

\* A round of the second loop.
LEMMA ExtendRound ==
  ASSUME NEW r, IsRequest(r), NEW blocks \in Nat, blocks <= r.end,
         NEW i \in 1 .. (r.end - blocks + 1), NEW st, Extended(st, r, blocks, i - 1)
  PROVE  Extended(ExtendBlock(st, r, i, r.start - blocks + 1, r.end - blocks + 1), r, blocks, i)
<1> DEFINE starting == r.start - blocks + 1
           count == r.end - blocks + 1
           st1 == AllocateNew(st)
           st2 == AddNew(st1)
           isFirst == starting >= 1 /\ i = starting
           part == IF isFirst THEN FirstPart(r) ELSE NextPart(r, i = count)
           new  == IF isFirst THEN CopyIn(ZeroBlock, r.startOffset, r.buff, 0, part)
                   ELSE CopyIn(ZeroBlock, 0, r.buff, st2.written, part)
           f3   == write_data_block(st2.fs, st2.block, new)
           st3 == [st2 EXCEPT !.fs = f3, !.written = @ + part]
           next == ExtendBlock(st, r, i, starting, count)
<1> SUFFICES Extended(next, r, blocks, i)
  OBVIOUS
<1>1. next = IF ~st.ok THEN st ELSE IF ~st2.ok \/ i < starting THEN st2 ELSE st3
  BY DEF ExtendBlock, WriteNew
<1>2. /\ DOMAIN st = Locals /\ IsInode(st.node) /\ st.node.blocks \in blocks .. (blocks + (i - 1))
      /\ (st.ok => st.node.blocks = blocks + (i - 1))
      /\ st.written = WordsIn(r, st.node.blocks - r.start)
  BY DEF Extended
<1>3. DOMAIN st1 = Locals /\ st1.node = st.node /\ st1.written = st.written
  BY <1>2, AllocateNewKeeps
<1>4. /\ DOMAIN st2 = Locals /\ IsInode(st2.node) /\ st2.written = st.written
      /\ st2.node.blocks = IF st2.ok THEN st.node.blocks + 1 ELSE st.node.blocks
  <2> HIDE DEF st1
  <2> QED
    BY <1>2, <1>3, AddNewCounts
<1>5. /\ r.start \in Nat /\ r.end \in Nat /\ r.start <= r.end
      /\ i \in Nat /\ starting \in Int /\ count \in Int /\ st.node.blocks \in Nat
  BY <1>2 DEF IsRequest, IsInode
<1>6. CASE ~st.ok
  <2>1. next = st /\ st.node.blocks \in blocks .. (blocks + i)
    BY <1>1, <1>2, <1>5, <1>6
  <2> HIDE DEF next
  <2> QED
    BY <1>2, <1>6, <2>1 DEF Extended
<1>7. CASE st.ok /\ ~st2.ok
  <2>1. next = st2
    BY <1>1, <1>7
  <2>2. st2.node.blocks \in blocks .. (blocks + i) /\ st2.written = WordsIn(r, st2.node.blocks - r.start)
    BY <1>2, <1>4, <1>5, <1>7
  <2> HIDE DEF next, st2
  <2> QED
    BY <1>4, <1>7, <2>1, <2>2 DEF Extended
<1>8. CASE st.ok /\ st2.ok
  <2> DEFINE c == blocks + i - r.start
  <2>1. st.node.blocks - r.start = c - 1 /\ st2.node.blocks = blocks + i /\ st2.node.blocks - r.start = c
        /\ c \in Int /\ c - 1 \in Int
    BY <1>2, <1>4, <1>5, <1>8
  <2>2. st2.written = WordsIn(r, c - 1) /\ WordsIn(r, c - 1) \in Nat
    BY <1>2, <1>4, <2>1, WordsInNat
  <2>3. CASE i < starting
    <3>1. next = st2
      BY <1>1, <1>8, <2>3
    <3>2. c <= 0 /\ c - 1 <= 0
      BY <1>5, <2>3
    <3>3. WordsIn(r, c) = WordsIn(r, c - 1)
      BY <3>2 DEF WordsIn
    <3>4. blocks + i \in blocks .. (blocks + i)
      BY <1>5
    <3> HIDE DEF next, st2, c
    <3> QED
      BY <1>4, <2>1, <2>2, <3>1, <3>3, <3>4 DEF Extended
  <2>4. CASE ~(i < starting)
    <3>1. next = st3
      BY <1>1, <1>8, <2>4
    <3>2. WordsIn(r, c) = WordsIn(r, c - 1) + part
      <4>1. CASE isFirst
        <5>1. c = 1 /\ part = FirstPart(r) /\ WordsIn(r, c - 1) = 0
          BY <1>5, <4>1 DEF WordsIn
        <5>2. WordsIn(r, 1) = FirstPart(r)
          BY WordsNext
        <5>3. WordsIn(r, c) \in Nat
          BY <2>1, WordsInNat
        <5> HIDE DEF part, c
        <5> QED
          BY <5>1, <5>2, <5>3
      <4>2. CASE ~isFirst
        <5>1. part = NextPart(r, i = count)
          BY <4>2
        <5>2. c - 1 \in 1 .. (r.end - r.start)
          BY <1>5, <2>4, <4>2
        <5>3. (i = count) = (r.start + (c - 1) = r.end) /\ (c - 1) + 1 = c
          BY <1>5
        <5> HIDE DEF part, count
        <5>4. WordsIn(r, (c - 1) + 1) = WordsIn(r, c - 1) + NextPart(r, r.start + (c - 1) = r.end)
          <6> DEFINE d == c - 1
          <6>1. d \in 1 .. (r.end - r.start)
            BY <5>2
          <6> HIDE DEF d
          <6>2. WordsIn(r, d + 1) = WordsIn(r, d) + NextPart(r, r.start + d = r.end)
            BY <6>1, WordsNext
          <6> QED
            BY <6>2 DEF d
        <5> QED
          BY <5>1, <5>3, <5>4
      <4> QED
        BY <4>1, <4>2
    <3> HIDE DEF part, f3, st2, c
    <3>3. DOMAIN st3 = Locals /\ st3.node = st2.node /\ st3.written = st2.written + part
      BY <1>4 DEF Locals
    <3>4. blocks + i \in blocks .. (blocks + i)
      BY <1>5
    <3> HIDE DEF st3, next
    <3> QED
      BY <1>4, <2>1, <2>2, <3>1, <3>2, <3>3, <3>4 DEF Extended
  <2> QED
    BY <2>3, <2>4
<1> HIDE DEF next
<1> QED
  BY <1>6, <1>7, <1>8

ExtendLoop(r, blocks, count) == [loop |-> "extend", r |-> r, blocks |-> blocks, count |-> count]

\* The second loop of fs_write.
LEMMA ExtendFold ==
  ASSUME NEW st, NEW r, NEW rounds \in Nat, NEW blocks, NEW count
  PROVE  Extend(st, r, rounds, blocks, count) = Folded(ExtendLoop(r, blocks, count), st, rounds)
<1> DEFINE p == ExtendLoop(r, blocks, count)
           Fun(f) == f = [s \in SUBSET (1 .. rounds) |->
                         IF s = {} THEN st
                         ELSE ExtendBlock(f[s \ {Max(s)}], r, [k \in 1 .. rounds |-> k][Max(s)],
                                          r.start - blocks + 1, count)]
<1>1. Extend(st, r, rounds, blocks, count) = (CHOOSE f : Fun(f))[1 .. rounds]
  BY DEF Extend, FoldLeft, MapThenFoldSet
<1>2. PICK g : Folds(p, st, rounds, g)
  BY FoldExists
<1>3. ASSUME NEW f, NEW s \in SUBSET (1 .. rounds)
      PROVE  (IF s = {} THEN st ELSE Round(p, f[s \ {Max(s)}], Max(s)))
           = IF s = {} THEN st
             ELSE ExtendBlock(f[s \ {Max(s)}], r, [k \in 1 .. rounds |-> k][Max(s)],
                              r.start - blocks + 1, count)
  <2>1. CASE s = {}
    BY <2>1
  <2>2. CASE s # {}
    <3>1. Max(s) \in 1 .. rounds
      BY <2>2, MaxIn
    <3>2. [k \in 1 .. rounds |-> k][Max(s)] = Max(s)
      BY <3>1
    <3>3. p.loop = "extend" /\ p.r = r /\ p.blocks = blocks /\ p.count = count
      BY DEF ExtendLoop
    <3> HIDE DEF p
    <3>4. "extend" # "overwrite"
      OBVIOUS
    <3> QED
      BY <2>2, <3>2, <3>3, <3>4 DEF Round
  <2> QED
    BY <2>1, <2>2
<1> HIDE DEF p
<1>4. ASSUME NEW f PROVE Fun(f) <=> Folds(p, st, rounds, f)
  BY <1>3 DEF Folds
<1> HIDE DEF Fun
<1>5. Fun(g)
  BY <1>2, <1>4
<1>6. Fun(CHOOSE f : Fun(f))
  BY <1>5
<1>7. Folds(p, st, rounds, CHOOSE f : Fun(f))
  BY <1>4, <1>6
<1> QED
  BY <1>1, <1>7, FoldValue DEF p

\* All rounds of it, the ones after a failure included.
LEMMA ExtendRounds ==
  ASSUME NEW r, IsRequest(r), NEW blocks \in Nat, blocks <= r.end, NEW st, Extended(st, r, blocks, 0)
  PROVE  Extended(Extend(st, r, r.end - blocks + 1, blocks, r.end - blocks + 1), r, blocks, r.end - blocks + 1)
<1> DEFINE count == r.end - blocks + 1
           p == ExtendLoop(r, blocks, count)
           S == {i \in 0 .. count : Extended(Folded(p, st, i), r, blocks, i)}
<1>1. r.start \in Nat /\ r.end \in Nat /\ count \in Nat
  BY DEF IsRequest
<1>2. /\ Folded(p, st, 0) = st
      /\ \A m \in Nat : Folded(p, st, m + 1) = Round(p, Folded(p, st, m), m + 1)
  BY FoldStep
<1>3. ASSUME NEW s, NEW k PROVE Round(p, s, k) = ExtendBlock(s, r, k, r.start - blocks + 1, count)
  <2>1. p.loop = "extend" /\ p.r = r /\ p.blocks = blocks /\ p.count = count /\ "extend" # "overwrite"
    BY DEF ExtendLoop
  <2> HIDE DEF p
  <2> QED
    BY <2>1 DEF Round
<1> HIDE DEF p
<1>4. 0 \in S
  BY <1>1, <1>2
<1>5. ASSUME NEW i \in 0 .. (count - 1), i \in S PROVE i + 1 \in S
  <2>1. i \in Nat /\ (i + 1) - 1 = i /\ i + 1 \in 0 .. count /\ i + 1 \in 1 .. (r.end - blocks + 1)
    BY <1>1
  <2>2. Extended(Folded(p, st, i), r, blocks, i)
    BY <1>5
  <2>3. Folded(p, st, i + 1) = ExtendBlock(Folded(p, st, i), r, i + 1, r.start - blocks + 1, r.end - blocks + 1)
    BY <1>2, <1>3, <2>1
  <2>4. Extended(Folded(p, st, i + 1), r, blocks, i + 1)
    <3> DEFINE j == i + 1
    <3>1. j \in 1 .. (r.end - blocks + 1) /\ j - 1 = i
      BY <2>1
    <3> HIDE DEF j
    <3>2. Extended(Folded(p, st, i), r, blocks, j - 1)
      BY <2>2, <3>1
    <3>3. Extended(ExtendBlock(Folded(p, st, i), r, j, r.start - blocks + 1, r.end - blocks + 1), r, blocks, j)
      BY <3>1, <3>2, ExtendRound
    <3> QED
      BY <2>3, <3>3 DEF j
  <2> QED
    BY <2>1, <2>4
<1> HIDE DEF S
<1>6. \A i \in 0 .. count : i \in S
  BY <1>1, <1>4, <1>5, Induction
<1>7. count \in 0 .. count
  BY <1>1
<1>8. Extended(Folded(p, st, count), r, blocks, count)
  BY <1>6, <1>7 DEF S
<1>9. Extend(st, r, count, blocks, count) = Folded(p, st, count)
  BY <1>1, ExtendFold DEF p
<1> QED
  BY <1>8, <1>9

\* All blocks of a request take all its words.
LEMMA WordsAll ==
  ASSUME NEW r, IsRequest(r)
  PROVE  WordsIn(r, r.end - r.start + 1) = r.n
<1> DEFINE p == BLOCK_SIZE
           c == r.end - r.start + 1
           u == r.end * p
           v == r.start * p
<1>1. p \in Nat /\ p >= 1
  BY BlockSize
<1>2. /\ r.n \in Nat \ {0} /\ r.start \in Nat /\ r.startOffset \in 0 .. (p - 1)
      /\ r.end \in Nat /\ r.endOffset \in 0 .. (p - 1) /\ r.offset \in Nat
      /\ r.offset = v + r.startOffset
      /\ r.offset + r.n - 1 = u + r.endOffset
      /\ r.start <= r.end
  BY DEF IsRequest
<1>3. c * p = u - v + p /\ u \in Int /\ v \in Int /\ c * p \in Int
  BY <1>1, <1>2
<1>4. c \in Int /\ ~(c <= 0)
  BY <1>2
<1>5. WordsIn(r, c) = Least(c * p - r.startOffset, r.n)
  BY <1>4 DEF WordsIn
<1> DEFINE w == c * p
<1>6. WordsIn(r, c) = Least(w - r.startOffset, r.n)
  BY <1>5
<1>7. w = u - v + p /\ w \in Int
  BY <1>3
<1> HIDE DEF w, u, v, p
<1>8. r.n <= w - r.startOffset
  <2>1. r.startOffset \in Int /\ r.endOffset \in Int /\ r.endOffset <= p - 1 /\ r.n \in Int /\ p \in Int /\ r.offset \in Int
    BY <1>1, <1>2
  <2> QED
    BY <1>2, <1>3, <1>7, <2>1
<1>9. ~(w - r.startOffset < r.n) \/ w - r.startOffset = r.n
  BY <1>1, <1>2, <1>7, <1>8
<1> QED
  BY <1>6, <1>9 DEF Least

\* An inode that has no more blocks than its size needs.
AtMost(node) ==
  /\ IsInode(node)
  /\ node.fileSize \in Nat
  /\ node.blocks <= Keep(node.fileSize)

\* An inode whose size needs the blocks that it has.
Fits(node) == AtMost(node) /\ node.blocks = Keep(node.fileSize)

\* A size that the blocks do not exceed may be stored.
LEMMA Resized ==
  ASSUME NEW node, IsInode(node), NEW size \in Nat, node.blocks <= Keep(size)
  PROVE  /\ AtMost([node EXCEPT !.fileSize = size])
         /\ node.blocks = Keep(size) => Fits([node EXCEPT !.fileSize = size])
<1> DEFINE new == [node EXCEPT !.fileSize = size]
<1>1. DOMAIN new = Fields /\ new.fileSize = size /\ new.blocks = node.blocks
  BY DEF IsInode, Fields
<1> HIDE DEF new
<1>2. AtMost(new) /\ (node.blocks = Keep(size) => Fits(new))
  BY <1>1 DEF Fits, AtMost, IsInode
<1> QED
  BY <1>2 DEF new

\* The first loop of fs_write over the old blocks of the request.
LEMMA FirstLoop ==
  ASSUME NEW i, IsInode(inode[i]), NEW r, IsRequest(r)
  PROVE  LET node == inode[i]
             old  == OldBlocks(node, r)
         IN  /\ Overwritten(Overwrite(Begin(i), r, old), r, old, node)
             /\ r.end < node.blocks => old = r.end - r.start + 1 /\ NewBlocks(node, r) = 0
             /\ r.end >= node.blocks =>
                  /\ WordsIn(r, old) = WordsIn(r, node.blocks - r.start)
                  /\ NewBlocks(node, r) = r.end - node.blocks + 1
<1> DEFINE node == inode[i]
           old  == OldBlocks(node, r)
<1>1. r.start \in Nat /\ r.end \in Nat /\ r.start <= r.end /\ node.blocks \in Nat
  BY DEF IsRequest, IsInode
<1>2. r.end < node.blocks => Least(r.end, node.blocks - 1) = r.end
  BY <1>1 DEF Least
<1>3. r.end >= node.blocks => Least(r.end, node.blocks - 1) = node.blocks - 1
  BY <1>1 DEF Least
<1>4. r.end < node.blocks => old = r.end - r.start + 1 /\ NewBlocks(node, r) = 0
  BY <1>1, <1>2 DEF OldBlocks, NewBlocks
<1>5. r.end >= node.blocks =>
        /\ old = IF r.start <= node.blocks - 1 THEN node.blocks - r.start ELSE 0
        /\ NewBlocks(node, r) = r.end - node.blocks + 1
  BY <1>1, <1>3 DEF OldBlocks, NewBlocks
<1>6. old \in 0 .. (r.end - r.start + 1)
  BY <1>1, <1>4, <1>5
<1>7. Overwritten(Begin(i), r, 0, node)
  <2>1. DOMAIN Begin(i) = Locals /\ Begin(i).node = node /\ Begin(i).written = 0
    BY DEF Begin, Locals
  <2>2. WordsIn(r, 0) = 0
    BY DEF WordsIn
  <2> QED
    BY <2>1, <2>2 DEF Overwritten
<1> HIDE DEF old, node
<1>8. Overwritten(Overwrite(Begin(i), r, old), r, old, node)
  BY <1>6, <1>7, OverwriteRounds
<1>9. r.end >= node.blocks => WordsIn(r, old) = WordsIn(r, node.blocks - r.start)
  <2>1. CASE r.start <= node.blocks - 1
    BY <1>5, <2>1
  <2>2. CASE ~(r.start <= node.blocks - 1)
    <3>1. node.blocks - r.start <= 0
      BY <1>1, <2>2
    <3> QED
      BY <1>5, <2>2, <3>1 DEF WordsIn
  <2> QED
    BY <2>1, <2>2
<1> QED
  BY <1>4, <1>5, <1>8, <1>9 DEF old, node

\* The write found no block for its first word and not all for the gap before it.
InGap(i, r) == fs_write(i, r).written = 0 /\ Keep(r.offset) > inode[i].blocks

\* A write that does not end in front of the end of the file leaves the inode as
\* it was, or with no more blocks than its size needs, and with all of them when
\* it did not stop in the gap before its first word.
LEMMA WriteFits ==
  ASSUME NEW i, AtMost(inode[i]), NEW r, IsRequest(r),
         r.offset + r.n >= inode[i].fileSize
  PROVE  /\ AtMost(fs_write(i, r).node)
         /\ ~fs_write(i, r).ok => fs_write(i, r).node = inode[i]
         /\ fs_write(i, r).ok /\ ~InGap(i, r) => Fits(fs_write(i, r).node)
<1> DEFINE node == inode[i]
           size == node.fileSize
           B    == node.blocks
           p    == BLOCK_SIZE
           old  == OldBlocks(node, r)
           over == Overwrite(Begin(i), r, old)
           count == NewBlocks(node, r)
           ext  == Extend(over, r, count, B, count)
           done == fs_write(i, r)
<1> DEFINE gap == done.written = 0 /\ Keep(r.offset) > B
           Goal == /\ AtMost(done.node)
                   /\ ~done.ok => done.node = node
                   /\ done.ok /\ ~gap => Fits(done.node)
<1> SUFFICES Goal
  BY DEF InGap
<1>1. done = IF ~over.ok THEN [over EXCEPT !.node = node]
             ELSE [ext EXCEPT !.node.fileSize = r.offset + ext.written, !.ok = TRUE]
  BY DEF fs_write, Written, Sized
<1>2. AtMost(node) /\ IsInode(node) /\ size \in Nat /\ B \in Nat /\ B <= Keep(size)
  BY DEF AtMost, IsInode
<1>3. /\ Overwritten(over, r, old, node)
      /\ r.end < B => old = r.end - r.start + 1 /\ count = 0
      /\ r.end >= B => WordsIn(r, old) = WordsIn(r, B - r.start) /\ count = r.end - B + 1
  BY <1>2, FirstLoop
<1>4. p \in Nat /\ p >= 1
  BY BlockSize
<1>5. (B - 1) * p < size
  <2> DEFINE k == Keep(size)
  <2>1. k \in Nat
    BY <1>2, KeepNat
  <2>2. (k - 1) * p < size
    BY <1>2, <2>1, KeepIs
  <2>3. B - 1 \in Int /\ k - 1 \in Int /\ B - 1 <= k - 1
    BY <1>2, <2>1
  <2> HIDE DEF k, p, B, size
  <2>4. (B - 1) * p <= (k - 1) * p /\ (B - 1) * p \in Int /\ (k - 1) * p \in Int
    BY <1>4, <2>3, Multiples
  <2> QED
    BY <1>2, <2>2, <2>4
<1>6. /\ r.n \in Nat \ {0} /\ r.start \in Nat /\ r.startOffset \in 0 .. (p - 1)
      /\ r.end \in Nat /\ r.endOffset \in 0 .. (p - 1) /\ r.offset \in Nat
      /\ r.offset = r.start * p + r.startOffset
      /\ r.offset + r.n - 1 = r.end * p + r.endOffset
      /\ r.start <= r.end
  BY DEF IsRequest
<1>7. r.offset + r.n >= size
  OBVIOUS
<1>8. DOMAIN over = Locals /\ over.node = node
  BY <1>3 DEF Overwritten
<1> HIDE DEF over, ext, done, count, old, p, B, size, node
<1>9. CASE ~over.ok
  <2>1. done = [over EXCEPT !.node = node]
    BY <1>1, <1>9
  <2>2. done.node = node /\ done.ok = over.ok
    BY <1>8, <2>1 DEF Locals
  <2> QED
    BY <1>2, <1>9, <2>2
<1>10. ASSUME over.ok, DOMAIN ext = Locals, IsInode(ext.node), ext.written \in Nat,
              ext.node.blocks <= Keep(r.offset + ext.written),
              gap \/ ext.node.blocks = Keep(r.offset + ext.written)
       PROVE  Goal
  <2>1. done.node = [ext.node EXCEPT !.fileSize = r.offset + ext.written] /\ done.ok = TRUE
    BY <1>1, <1>10 DEF Locals
  <2>2. r.offset + ext.written \in Nat
    BY <1>6, <1>10
  <2>3. AtMost(done.node) /\ (gap \/ Fits(done.node))
    BY <1>10, <2>1, <2>2, Resized
  <2> QED
    BY <2>1, <2>3
<1>11. ASSUME over.ok, DOMAIN ext = Locals PROVE done.written = ext.written
  BY <1>1, <1>11 DEF Locals
<1>12. CASE over.ok /\ r.end < B
  <2>1. ext = over
    <3>1. count = 0 /\ 0 \in Nat
      BY <1>3, <1>12
    <3>2. ext = Extend(over, r, 0, B, 0)
      BY <3>1 DEF ext
    <3>3. Extend(over, r, 0, B, 0) = Folded(ExtendLoop(r, B, 0), over, 0)
      BY <3>1, ExtendFold
    <3> QED
      BY <3>2, <3>3, FoldStep
  <2>2. over.written = r.n
    BY <1>3, <1>12, WordsAll DEF Overwritten
  <2>3. B = Keep(r.offset + r.n)
    <3>1. (r.end + 1) * p <= B * p
      <4>1. r.end + 1 \in Int /\ B \in Int /\ r.end + 1 <= B
        BY <1>2, <1>6, <1>12
      <4> QED
        BY <1>4, <4>1, Multiples
    <3>2. (r.end + 1) * p = r.end * p + p /\ r.end * p \in Int /\ B * p \in Int /\ (B - 1) * p \in Int
      <4>1. r.end \in Int /\ B \in Int
        BY <1>2, <1>6
      <4>2. (r.end + 1) * p = r.end * p + p /\ r.end * p \in Int /\ B * p \in Int
        BY <1>4, <4>1, Multiples
      <4>3. (B - 1) * p = B * p - p
        BY <1>4, <4>1, Multiples
      <4> QED
        BY <1>4, <4>2, <4>3
    <3>3. r.offset + r.n \in Nat
      BY <1>6
    <3>4. (B - 1) * p < r.offset + r.n
      BY <1>2, <1>5, <1>7, <3>2, <3>3
    <3>5. r.offset + r.n <= B * p
      BY <1>4, <1>6, <3>1, <3>2
    <3> QED
      BY <1>2, <3>3, <3>4, <3>5, KeepIs DEF p
  <2>4. /\ IsInode(ext.node) /\ ext.node.blocks = B /\ ext.written = r.n /\ DOMAIN ext = Locals
    BY <1>2, <1>8, <2>1, <2>2 DEF B
  <2>5. B <= Keep(r.offset + r.n) /\ r.n \in Nat
    BY <1>2, <1>6, <2>3
  <2> QED
    BY <1>10, <1>12, <2>3, <2>4, <2>5
<1>13. CASE over.ok /\ r.end >= B
  <2>1. Extended(over, r, B, 0)
    <3>1. over.written = WordsIn(r, B - r.start)
      BY <1>3, <1>13 DEF Overwritten
    <3>2. over.node.blocks = B
      BY <1>8 DEF B
    <3>3. B \in B .. (B + 0) /\ B = B + 0
      BY <1>2
    <3> QED
      BY <1>2, <1>8, <3>1, <3>2, <3>3 DEF Extended
  <2>2. Extended(ext, r, B, count)
    <3>1. count = r.end - B + 1 /\ B <= r.end
      BY <1>2, <1>3, <1>6, <1>13
    <3>2. Extended(Extend(over, r, r.end - B + 1, B, r.end - B + 1), r, B, r.end - B + 1)
      BY <1>2, <2>1, <3>1, ExtendRounds
    <3> QED
      BY <3>1, <3>2 DEF ext
  <2> DEFINE b == ext.node.blocks
             c == b - r.start
  <2>3. DOMAIN ext = Locals /\ IsInode(ext.node) /\ b \in B .. (r.end + 1) /\ ext.written = WordsIn(r, c)
    <3>1. B + count = r.end + 1
      BY <1>2, <1>3, <1>6, <1>13
    <3> QED
      BY <2>2, <3>1 DEF Extended
  <2>4. b \in Nat /\ c \in Int /\ b - 1 <= r.end
    BY <1>2, <1>6, <2>3
  <2>5. ext.written \in Nat /\ (ext.written = 0 <=> c <= 0)
    BY <2>3, <2>4, WordsInNat
  <2>6. b * p \in Int /\ (b - 1) * p = b * p - p /\ r.start * p \in Int /\ r.end * p \in Int /\ B * p \in Int
    <3>1. b \in Int /\ r.start \in Int /\ r.end \in Int /\ B \in Int
      BY <1>2, <1>6, <2>4
    <3> HIDE DEF b, c
    <3>2. b * p \in Int /\ (b - 1) * p = b * p - p /\ B * p \in Int
      BY <1>4, <3>1, Multiples
    <3>3. r.start * p \in Int /\ r.end * p \in Int
      BY <1>4, <3>1, Multiples
    <3> QED
      BY <3>2, <3>3
  <2>7. CASE ~(c <= 0)
    <3>1. ext.written = Least(c * p - r.startOffset, r.n)
      BY <2>3, <2>7 DEF WordsIn, p
    <3>2. c * p = b * p - r.start * p
      BY <1>4, <1>6, <2>4
    <3>3. (b - 1) * p <= r.end * p
      <4>1. b - 1 \in Int /\ r.end \in Int
        BY <1>6, <2>4
      <4> QED
        BY <1>4, <2>4, <4>1, Multiples
    <3> DEFINE x == b * p
               y == r.end * p
               z == r.start * p
    <3>4. /\ x \in Int /\ y \in Int /\ z \in Int /\ x - p <= y
          /\ r.offset = z + r.startOffset /\ r.offset + r.n - 1 = y + r.endOffset
          /\ ext.written = Least(x - z - r.startOffset, r.n)
      BY <1>6, <2>6, <3>1, <3>2, <3>3
    <3> HIDE DEF x, y, z, b, c
    <3>5. r.n \in Int /\ r.startOffset \in Int /\ r.endOffset \in Int /\ r.endOffset >= 0 /\ r.offset \in Int /\ p \in Int
      BY <1>4, <1>6
    <3>6. x - p < r.offset + ext.written /\ r.offset + ext.written <= x
      <4>1. CASE x - z - r.startOffset < r.n
        <5>1. ext.written = x - z - r.startOffset
          BY <3>4, <4>1 DEF Least
        <5> QED
          BY <1>4, <3>4, <3>5, <5>1
      <4>2. CASE ~(x - z - r.startOffset < r.n)
        <5>1. ext.written = r.n
          BY <3>4, <4>2 DEF Least
        <5>2. x - p <= r.offset + r.n - 1
          BY <3>4, <3>5
        <5>3. r.offset + r.n <= x
          BY <3>4, <3>5, <4>2
        <5> QED
          BY <3>4, <3>5, <5>1, <5>2, <5>3
      <4> QED
        BY <4>1, <4>2
    <3>7. (b - 1) * p < r.offset + ext.written /\ r.offset + ext.written <= b * p
      BY <2>6, <3>6 DEF x
    <3>8. r.offset + ext.written \in Nat
      BY <1>6, <2>5
    <3>9. Keep(r.offset + ext.written) = b
      BY <2>4, <3>7, <3>8, KeepIs DEF p
    <3>10. b <= Keep(r.offset + ext.written)
      BY <2>4, <3>9
    <3> QED
      BY <1>10, <1>13, <2>3, <2>5, <3>9, <3>10 DEF b
  <2>8. CASE c <= 0
    <3>1. ext.written = 0 /\ done.written = 0
      BY <1>11, <1>13, <2>3, <2>5, <2>8
    <3>2. B <= b /\ b <= r.start
      BY <1>2, <1>6, <2>3, <2>4, <2>8
    <3> DEFINE k == Keep(r.offset)
    <3>3. k \in Nat
      BY <1>6, KeepNat
    <3>4. r.offset <= k * p
      BY <1>6, <3>3, KeepIs DEF p
    <3> HIDE DEF k, b, c
    <3>5. r.start <= k
      <4>1. r.start \in Int /\ k \in Int
        BY <1>6, <3>3
      <4>2. r.start * p <= k * p
        <5>1. r.start * p \in Int /\ k * p \in Int
          BY <1>4, <4>1, Multiples
        <5>2. r.startOffset \in Int /\ r.startOffset >= 0
          BY <1>4, <1>6
        <5> QED
          BY <1>6, <3>4, <5>1, <5>2
      <4>3. CASE k < r.start
        <5>1. k + 1 \in Int /\ k + 1 <= r.start
          BY <4>1, <4>3
        <5>2. (k + 1) * p <= r.start * p /\ (k + 1) * p = k * p + p /\ k * p \in Int /\ r.start * p \in Int
          BY <1>4, <4>1, <5>1, Multiples
        <5> QED
          BY <1>4, <4>2, <5>2
      <4> QED
        BY <4>1, <4>3
    <3>6. b <= k /\ (k > B \/ b = k)
      BY <1>2, <1>6, <2>4, <3>2, <3>3, <3>5
    <3>7. r.offset + ext.written = r.offset
      BY <1>6, <3>1
    <3> QED
      BY <1>10, <1>13, <2>3, <2>5, <3>1, <3>6, <3>7 DEF b, k
  <2> QED
    BY <2>7, <2>8
<1> QED
  BY <1>2, <1>6, <1>9, <1>12, <1>13

-----------------------------------------------------------------------------
(* fs_truncate *)

RootNames == {"singleIndirect", "doubleIndirect", "tripleIndirect"}

\* A state of remove_datablocks_range_from_inode.
Removal(st) == DOMAIN st = {"fs", "node", "ok"} /\ IsInode(st.node)

\* There are three levels.
LEMMA LevelsRange ==
  ASSUME NEW n \in Nat
  PROVE  Levels(n) \in 0 .. 3
<1>1. SingleStart \in Nat /\ DoubleStart \in Nat /\ TripleStart \in Nat
      /\ SingleStart <= DoubleStart /\ DoubleStart <= TripleStart
  <2>1. NUM_OF_ADDRESSES_PER_BLOCK \in Nat /\ NUM_DIRECT_BLOCKS \in Nat
    BY DiskAssumption, DirectAssumption
  <2>2. NUM_OF_ADDRESSES_PER_BLOCK * NUM_OF_ADDRESSES_PER_BLOCK \in Nat
    BY <2>1
  <2> QED
    BY <2>1, <2>2 DEF SingleStart, DoubleStart, TripleStart,
       NUM_OF_SINGLE_INDIRECT_BLOCK_ADDR, NUM_OF_DOUBLE_INDIRECT_BLOCK_ADDR
<1>2. CASE n <= SingleStart
  BY <1>1, <1>2 DEF Levels
<1>3. CASE SingleStart < n /\ n <= DoubleStart
  BY <1>1, <1>3 DEF Levels
<1>4. CASE DoubleStart < n /\ n <= TripleStart
  BY <1>1, <1>4 DEF Levels
<1>5. CASE TripleStart < n
  BY <1>1, <1>5 DEF Levels
<1> QED
  BY <1>1, <1>2, <1>3, <1>4, <1>5

\* The roots from a level on are roots.
LEMMA RootsBetween ==
  ASSUME NEW level \in 1 .. 2, NEW last \in 0 .. 3
  PROVE  LET seq == SubSeq(Roots, level, last)
         IN  /\ Len(seq) \in Nat
             /\ DOMAIN seq = 1 .. Len(seq)
             /\ \A k \in 1 .. Len(seq) : seq[k] \in RootNames
<1>1. \A k \in level .. last : k \in 1 .. 3 /\ Roots[k] \in RootNames
  BY DEF Roots, RootNames
<1>2. level \in Int /\ last \in Int /\ \A k \in level .. last : Roots[k] \in RootNames
  BY <1>1
<1> DEFINE seq == SubSeq(Roots, level, last)
<1>3. seq \in Seq(RootNames)
  BY <1>2, SubSeqProperties
<1> HIDE DEF seq
<1>4. Len(seq) \in Nat /\ DOMAIN seq = 1 .. Len(seq) /\ \A k \in 1 .. Len(seq) : seq[k] \in RootNames
  BY <1>3
<1> QED
  BY <1>4 DEF seq

\* Dropping a root leaves an inode.
LEMMA DropRootKeeps ==
  ASSUME NEW st, Removal(st), NEW root \in RootNames
  PROVE  Removal(DropRoot(st, root))
<1> DEFINE failed == [st EXCEPT !.ok = FALSE]
           node1  == [st.node EXCEPT ![root] = 0]
           next   == DropRoot(st, root)
<1>1. next = failed \/ \E f : next = [fs |-> f, node |-> node1, ok |-> TRUE]
  BY DEF DropRoot
<1>2. Removal(failed)
  BY DEF Removal
<1>3. IsInode(node1)
  BY DEF Removal, IsInode, Fields, RootNames
<1> HIDE DEF failed, node1, next
<1>4. ASSUME NEW f, next = [fs |-> f, node |-> node1, ok |-> TRUE] PROVE Removal(next)
  BY <1>3, <1>4 DEF Removal
<1>5. Removal(next)
  BY <1>1, <1>2, <1>4
<1> QED
  BY <1>5 DEF next

DropLoop(level, last) == [loop |-> "drop", level |-> level, last |-> last]

\* The loop over the roots, and with it the end of every branch.
LEMMA DropFromIs ==
  ASSUME NEW st, Removal(st), NEW level \in 1 .. 2, NEW n0
  PROVE  \E dropped : Removal(dropped) /\ DropFrom(st, level, n0) = Shortened(dropped, n0)
<1> DEFINE last == Levels(st.node.blocks)
           seq  == SubSeq(Roots, level, last)
           m    == Len(seq)
           p    == DropLoop(level, last)
           Fun(f) == f = [s \in SUBSET (1 .. m) |->
                         IF s = {} THEN st ELSE DropRoot(f[s \ {Max(s)}], seq[Max(s)])]
           dropped == FoldLeft(DropRoot, st, seq)
<1>1. DropFrom(st, level, n0) = Shortened(dropped, n0)
  BY DEF DropFrom
<1>2. last \in 0 .. 3
  BY LevelsRange DEF Removal, IsInode
<1> HIDE DEF last
<1>3. m \in Nat /\ DOMAIN seq = 1 .. m /\ \A k \in 1 .. m : seq[k] \in RootNames
  BY <1>2, RootsBetween
<1>4. dropped = (CHOOSE f : f = [s \in SUBSET (DOMAIN seq) |->
                   IF s = {} THEN st ELSE DropRoot(f[s \ {Max(s)}], seq[Max(s)])])[DOMAIN seq]
  BY DEF FoldLeft, MapThenFoldSet
<1>5. ASSUME NEW s, NEW k PROVE Round(p, s, k) = DropRoot(s, seq[k])
  <2>1. p.loop = "drop" /\ p.level = level /\ p.last = last /\ "drop" # "overwrite" /\ "drop" # "extend"
    BY DEF DropLoop
  <2> HIDE DEF p
  <2> QED
    BY <2>1 DEF Round
<1> HIDE DEF seq, m, p
<1>6. dropped = (CHOOSE f : Fun(f))[1 .. m]
  BY <1>3, <1>4
<1>7. PICK g : Folds(p, st, m, g)
  BY <1>3, FoldExists
<1>8. ASSUME NEW f PROVE Fun(f) <=> Folds(p, st, m, f)
  BY <1>5 DEF Folds
<1> HIDE DEF Fun, dropped
<1>9. Fun(g)
  BY <1>7, <1>8
<1>10. Fun(CHOOSE f : Fun(f))
  BY <1>9
<1>11. Folds(p, st, m, CHOOSE f : Fun(f))
  BY <1>8, <1>10
<1>12. dropped = Folded(p, st, m)
  BY <1>3, <1>6, <1>11, FoldValue
<1> DEFINE S == {k \in 0 .. m : Removal(Folded(p, st, k))}
<1>13. /\ Folded(p, st, 0) = st
       /\ \A k \in Nat : Folded(p, st, k + 1) = Round(p, Folded(p, st, k), k + 1)
  BY FoldStep
<1>14. 0 \in S
  BY <1>3, <1>13
<1>15. ASSUME NEW k \in 0 .. (m - 1), k \in S PROVE k + 1 \in S
  <2>1. k \in Nat /\ k + 1 \in 1 .. m /\ k + 1 \in 0 .. m
    BY <1>3
  <2>2. Removal(Folded(p, st, k))
    BY <1>15
  <2>3. Folded(p, st, k + 1) = DropRoot(Folded(p, st, k), seq[k + 1])
    BY <1>5, <1>13, <2>1
  <2>4. seq[k + 1] \in RootNames
    BY <1>3, <2>1
  <2>5. Removal(Folded(p, st, k + 1))
    BY <2>2, <2>3, <2>4, DropRootKeeps
  <2> QED
    BY <2>1, <2>5
<1> HIDE DEF S
<1>16. \A k \in 0 .. m : k \in S
  BY <1>3, <1>14, <1>15, Induction
<1>17. m \in 0 .. m
  BY <1>3
<1>18. Removal(dropped)
  BY <1>12, <1>16, <1>17 DEF S
<1> QED
  BY <1>1, <1>18

\* The end of a branch sets the number of blocks.
LEMMA ShortenedCounts ==
  ASSUME NEW st, Removal(st), NEW n0 \in Nat, Shortened(st, n0).ok
  PROVE  IsInode(Shortened(st, n0).node) /\ Shortened(st, n0).node.blocks = n0
<1> DEFINE new == [st EXCEPT !.node.blocks = n0]
<1>1. st.ok /\ Shortened(st, n0) = new
  BY DEF Shortened
<1>2. new.node = [st.node EXCEPT !.blocks = n0]
  BY DEF Removal
<1>3. DOMAIN new.node = Fields /\ new.node.blocks = n0
  BY <1>2 DEF Removal, IsInode, Fields
<1> HIDE DEF new
<1> QED
  BY <1>1, <1>3 DEF IsInode

\* Freeing a block leaves the inode.
LEMMA FreeIfKeeps ==
  ASSUME NEW st, Removal(st), NEW wanted, NEW b
  PROVE  Removal(FreeIf(st, wanted, b))
<1> DEFINE freed == free_data_block(st.fs, b)
           next  == [st EXCEPT !.fs = freed.fs, !.ok = freed.ok]
<1>1. FreeIf(st, wanted, b) \in {next, st}
  BY DEF FreeIf
<1> HIDE DEF freed
<1>2. Removal(next)
  BY DEF Removal
<1> QED
  BY <1>1, <1>2

\* So does cutting a root.
LEMMA CutKeeps ==
  ASSUME NEW st, Removal(st), NEW root \in RootNames, NEW isFirst
  PROVE  Removal(Cut(st, root, isFirst))
<1> DEFINE freed == FreeIf(st, isFirst, st.node[root])
           next  == [freed EXCEPT !.node[root] = 0]
<1>1. Cut(st, root, isFirst) \in {freed, next}
  BY DEF Cut
<1>2. Removal(freed)
  BY FreeIfKeeps
<1> HIDE DEF freed
<1>3. DOMAIN next = {"fs", "node", "ok"} /\ next.node = [freed.node EXCEPT ![root] = 0]
  BY <1>2 DEF Removal
<1>4. IsInode([freed.node EXCEPT ![root] = 0])
  BY <1>2 DEF Removal, IsInode, Fields, RootNames
<1>5. Removal(next)
  BY <1>3, <1>4 DEF Removal
<1> QED
  BY <1>1, <1>2, <1>5

\* remove_datablocks_range_from_inode sets the number of blocks when it does not
\* fail, in each of its branches.
LEMMA RemovalCounts ==
  ASSUME NEW f, NEW node, IsInode(node), NEW n0 \in Nat,
         NEW st, st = remove_datablocks_range_from_inode(f, node, n0), st.ok
  PROVE  IsInode(st.node) /\ st.node.blocks = n0
<1>1. ASSUME NEW s, Removal(s), st = Shortened(s, n0)
      PROVE  IsInode(st.node) /\ st.node.blocks = n0
  BY <1>1, ShortenedCounts
<1>2. \/ st = [fs |-> f, node |-> node, ok |-> FALSE]
      \/ st = RemoveFromDirect(f, node, n0) \/ st = RemoveFromSingle(f, node, n0)
      \/ st = RemoveFromDouble(f, node, n0) \/ st = RemoveFromTriple(f, node, n0)
  BY DEF remove_datablocks_range_from_inode
<1>3. st # [fs |-> f, node |-> node, ok |-> FALSE]
  OBVIOUS
<1>4. ASSUME NEW t PROVE Removal(WithNode(t, node))
  BY DEF Removal, WithNode
<1>5. CASE st = RemoveFromDirect(f, node, n0)
  <2> DEFINE t == FreeEntries(f, node.directAddresses, n0, Least(NUM_DIRECT_BLOCKS, node.blocks))
             node1 == [node EXCEPT !.directAddresses = t.addr]
             s == WithNode(t, node1)
  <2>1. st = DropFrom(s, 1, n0)
    BY <1>5 DEF RemoveFromDirect
  <2> HIDE DEF t
  <2>2. IsInode(node1)
    BY DEF IsInode, Fields
  <2> HIDE DEF node1
  <2>3. Removal(s)
    BY <2>2 DEF Removal, WithNode
  <2> HIDE DEF s
  <2>4. 1 \in 1 .. 2
    OBVIOUS
  <2>5. PICK dropped : Removal(dropped) /\ DropFrom(s, 1, n0) = Shortened(dropped, n0)
    BY <2>3, <2>4, DropFromIs
  <2> QED
    BY <1>1, <2>1, <2>5
<1>6. CASE st = RemoveFromSingle(f, node, n0)
  <2> DEFINE t == [fs |-> f, node |-> node, ok |-> TRUE]
             s == TrimBlock(t, node.singleIndirect, n0 - SingleStart, node.blocks - SingleStart)
  <2>1. st = DropFrom(s, 2, n0)
    BY <1>6 DEF RemoveFromSingle
  <2>2. \E g, k : s = [t EXCEPT !.fs = g, !.ok = k]
    BY DEF TrimBlock, WriteBack
  <2>3. Removal(s)
    <3>1. PICK g, k : s = [t EXCEPT !.fs = g, !.ok = k]
      BY <2>2
    <3> HIDE DEF s
    <3>2. DOMAIN s = {"fs", "node", "ok"} /\ s.node = node
      BY <3>1
    <3> QED
      BY <3>2 DEF Removal
  <2> HIDE DEF s
  <2>4. 2 \in 1 .. 2
    OBVIOUS
  <2>5. PICK dropped : Removal(dropped) /\ DropFrom(s, 2, n0) = Shortened(dropped, n0)
    BY <2>3, <2>4, DropFromIs
  <2> QED
    BY <1>1, <2>1, <2>5
<1>7. CASE st = RemoveFromDouble(f, node, n0)
  <2> DEFINE r == Route(n0)
             trim == TrimLeaves(f, f.blk[node.doubleIndirect], r.path[1], r.path[1], r.entry,
                       node.blocks - DoubleStart - NUM_OF_SINGLE_INDIRECT_BLOCK_ADDR * r.path[1])
             s == Cut(WithNode(trim, node), "doubleIndirect", n0 = DoubleStart)
             all == DropRoot(s, "tripleIndirect")
  <2>1. st = AfterDouble(node, n0, trim)
    BY <1>7 DEF RemoveFromDouble
  <2> HIDE DEF r, trim
  <2>2. st = Shortened(s, n0) \/ st = Shortened(all, n0)
    BY <2>1 DEF AfterDouble
  <2>3. "doubleIndirect" \in RootNames /\ "tripleIndirect" \in RootNames
    BY DEF RootNames
  <2>4. Removal(s)
    BY <1>4, <2>3, CutKeeps
  <2> HIDE DEF s
  <2>5. Removal(all)
    BY <2>3, <2>4, DropRootKeeps
  <2> HIDE DEF all
  <2> QED
    BY <1>1, <2>2, <2>4, <2>5
<1>8. CASE st = RemoveFromTriple(f, node, n0)
  <2>1. PICK trim : st = Shortened(Cut(WithNode(trim, node), "tripleIndirect", n0 = TripleStart), n0)
    BY <1>8 DEF RemoveFromTriple
  <2>2. "tripleIndirect" \in RootNames
    BY DEF RootNames
  <2>3. Removal(Cut(WithNode(trim, node), "tripleIndirect", n0 = TripleStart))
    BY <1>4, <2>2, CutKeeps
  <2> QED
    BY <1>1, <2>1, <2>3
<1> QED
  BY <1>2, <1>3, <1>5, <1>6, <1>7, <1>8

\* When the removal does not fail, fs_truncate leaves the inode as it was, or with
\* no more blocks than its size needs, and with all of them when it had those.
LEMMA TruncateFits ==
  ASSUME NEW i, AtMost(inode[i]), NEW length \in Nat, Removed(i, length).ok
  PROVE  /\ AtMost(fs_truncate(i, length).node)
         /\ ~fs_truncate(i, length).ok => fs_truncate(i, length).node = inode[i]
         /\ fs_truncate(i, length).ok /\ Keep(length) <= inode[i].blocks =>
              Fits(fs_truncate(i, length).node)
<1> DEFINE node == inode[i]
           st   == Removed(i, length)
           last == get_datablock_from_inode(st.fs, st.node, Keep(length) - 1, 0).block
           done == fs_truncate(i, length)
<1> DEFINE Goal == /\ AtMost(done.node)
                   /\ ~done.ok => done.node = node
                   /\ done.ok /\ Keep(length) <= node.blocks => Fits(done.node)
<1> SUFFICES Goal
  OBVIOUS
<1>1. AtMost(node) /\ IsInode(node) /\ node.blocks \in Nat
  BY DEF AtMost, IsInode
<1>2. Keep(length) \in Nat
  BY KeepNat
<1>3. /\ IsInode(st.node) /\ st.node.blocks <= Keep(length)
      /\ Keep(length) <= node.blocks => st.node.blocks = Keep(length)
  <2>1. CASE node.blocks > Keep(length)
    <3>1. st = remove_datablocks_range_from_inode(fs, node, Keep(length))
      BY <2>1 DEF Removed
    <3> HIDE DEF node, st
    <3>2. st.ok
      BY DEF st
    <3>3. IsInode(st.node) /\ st.node.blocks = Keep(length)
      BY <1>1, <1>2, <3>1, <3>2, RemovalCounts
    <3> QED
      BY <1>2, <3>3
  <2>2. CASE ~(node.blocks > Keep(length))
    <3>1. st.node = node
      BY <2>2 DEF Removed
    <3> QED
      BY <1>1, <1>2, <2>2, <3>1
  <2> QED
    BY <2>1, <2>2
<1>4. done = IF length = 0 THEN [fs |-> st.fs, node |-> [st.node EXCEPT !.fileSize = 0], ok |-> TRUE]
             ELSE IF last <= 0 THEN [fs |-> st.fs, node |-> node, ok |-> FALSE]
             ELSE [fs |-> write_data_block(st.fs, last, TailCleared(st.fs.blk[last], length)),
                   node |-> [st.node EXCEPT !.fileSize = length], ok |-> TRUE]
  BY DEF fs_truncate, TruncatedTo, EndedIn
<1> HIDE DEF st, last
<1>5. \/ done.node = node /\ done.ok = FALSE
      \/ done.node = [st.node EXCEPT !.fileSize = length] /\ done.ok = TRUE
  BY <1>4
<1>6. /\ AtMost([st.node EXCEPT !.fileSize = length])
      /\ Keep(length) <= node.blocks => Fits([st.node EXCEPT !.fileSize = length])
  BY <1>3, Resized
<1> HIDE DEF done, node
<1> QED
  BY <1>1, <1>5, <1>6

-----------------------------------------------------------------------------
(* The theorems *)

\* No write ends in front of the end of the file.
NoWriteInside == \A w \in Writes : w[2] + w[3] >= w[1]

\* No truncation takes a block from its file.
NothingRemoved == \A t \in Truncations : t[2] >= t[1]

\* The inductive invariant: SizeFitsBlocks with the types that it needs.
Inv ==
  /\ DOMAIN inode = Inode
  /\ \A i \in Inode : AtMost(inode[i]) /\ (i \notin short => Fits(inode[i]))

\* The invariant holds at the start.
LEMMA InitInv == Init => Inv
<1> SUFFICES ASSUME Init PROVE Inv
  OBVIOUS
<1>1. Keep(0) = 0
  BY DEF Keep
<1>2. AtMost(NewInode) /\ Fits(NewInode)
  BY <1>1, NewInodeIs DEF Fits, AtMost
<1> QED
  BY <1>2 DEF Init, Inv

\* A request leaves the other inodes as they are.
LEMMA StoreInv ==
  ASSUME Inv, NEW i \in Inode, NEW st, Store(i, st), AtMost(st.node),
         short' \subseteq short \union {i}, short \subseteq short' \union {i},
         i \notin short' => Fits(st.node)
  PROVE  Inv'
<1>1. inode' = [inode EXCEPT ![i] = st.node]
  BY DEF Store
<1>2. DOMAIN inode' = Inode
  BY <1>1 DEF Inv
<1>3. ASSUME NEW j \in Inode PROVE AtMost(inode'[j]) /\ (j \notin short' => Fits(inode'[j]))
  <2>1. CASE j = i
    BY <1>1, <2>1 DEF Inv
  <2>2. CASE j # i
    <3>1. inode'[j] = inode[j]
      BY <1>1, <2>2 DEF Inv
    <3>2. j \notin short' => j \notin short
      BY <2>2
    <3> QED
      BY <3>1, <3>2 DEF Inv
  <2> QED
    BY <2>1, <2>2
<1> QED
  BY <1>2, <1>3 DEF Inv

\* What a write does to its file and to the list of the files that are short.
LEMMA WriteInv ==
  ASSUME Inv, NEW i \in Inode, NEW r, IsRequest(r), r.offset + r.n >= inode[i].fileSize,
         Store(i, fs_write(i, r)), NoteGap(i, r.offset, fs_write(i, r))
  PROVE  Inv'
<1> DEFINE done == fs_write(i, r)
           gap  == InGap(i, r)
<1>1. AtMost(inode[i]) /\ (i \notin short => Fits(inode[i]))
  BY DEF Inv
<1>2. /\ AtMost(done.node)
      /\ ~done.ok => done.node = inode[i]
      /\ done.ok /\ ~gap => Fits(done.node)
  BY <1>1, WriteFits
<1>3. short' = IF ~done.ok THEN short ELSE IF gap THEN short \union {i} ELSE short \ {i}
  BY DEF NoteGap, InGap
<1> HIDE DEF gap
<1>4. short' \subseteq short \union {i} /\ short \subseteq short' \union {i}
  <2>1. short' = short \/ short' = short \union {i} \/ short' = short \ {i}
    BY <1>3
  <2> QED
    BY <2>1
<1>5. i \notin short' => Fits(done.node)
  <2>1. CASE ~done.ok
    <3>1. short' = short /\ done.node = inode[i]
      BY <1>2, <1>3, <2>1
    <3> QED
      BY <1>1, <3>1
  <2>2. CASE done.ok /\ gap
    <3>1. short' = short \union {i}
      BY <1>3, <2>2
    <3> QED
      BY <3>1
  <2>3. CASE done.ok /\ ~gap
    BY <1>2, <2>3
  <2> QED
    BY <2>1, <2>2, <2>3
<1>6. Store(i, done)
  OBVIOUS
<1> HIDE DEF done
<1> QED
  BY <1>2, <1>4, <1>5, <1>6, StoreInv

\* Every step keeps it while no removal fails.
LEMMA NextInv ==
  ASSUME NoWriteInside, Inv, RemovalsSucceed, [Next]_vars
  PROVE  Inv'
<1>1. ASSUME inode' = inode, short' = short PROVE Inv'
  BY <1>1 DEF Inv
<1>2. ASSUME NEW i \in Inode, NEW w \in Writes, w[1] = inode[i].fileSize, Write(i, w[2], w[3])
      PROVE  Inv'
  <2> DEFINE r == Request(w[2], w[3], Data)
  <2>1. w[2] \in Nat /\ w[3] \in Nat \ {0} /\ w[2] + w[3] >= inode[i].fileSize
    BY <1>2, RequestAssumption DEF NoWriteInside
  <2>2. Store(i, fs_write(i, r)) /\ NoteGap(i, w[2], fs_write(i, r))
    BY <1>2 DEF Write
  <2>3. IsRequest(r) /\ r.offset = w[2] /\ r.n = w[3]
    BY <2>1, RequestIs
  <2> HIDE DEF r
  <2> QED
    BY <2>1, <2>2, <2>3, WriteInv
<1>3. ASSUME NEW i \in Inode, NEW length \in Lengths, Lengthen(i, length)
      PROVE  Inv'
  <2> DEFINE size == inode[i].fileSize
             r == Request(size, length - size, Zeros)
  <2>1. size \in Nat /\ length \in Nat /\ length > size
    BY <1>3, RequestAssumption DEF Lengthen, Inv, AtMost
  <2>2. Store(i, fs_write(i, r)) /\ NoteGap(i, size, fs_write(i, r))
    BY <1>3 DEF Lengthen
  <2> HIDE DEF size
  <2>3. length - size \in Nat \ {0}
    BY <2>1
  <2>4. IsRequest(r) /\ r.offset = size /\ r.n = length - size
    BY <2>1, <2>3, RequestIs
  <2> HIDE DEF r
  <2>5. r.offset + r.n >= size
    BY <2>1, <2>4
  <2> QED
    BY <2>2, <2>4, <2>5, WriteInv DEF size
<1>4. ASSUME NEW i \in Inode, NEW length \in Lengths, Shorten(i, length)
      PROVE  Inv'
  <2>1. length \in Nat
    BY RequestAssumption
  <2>2. length <= inode[i].fileSize /\ <<inode[i].blocks, Keep(length)>> \in Truncations
        /\ Store(i, fs_truncate(i, length))
        /\ short' = IF fs_truncate(i, length).ok /\ Keep(length) <= inode[i].blocks
                    THEN short \ {i} ELSE short
    BY <1>4 DEF Shorten
  <2>3. Removed(i, length).ok
    BY <2>2 DEF RemovalsSucceed
  <2> DEFINE done == fs_truncate(i, length)
             all  == done.ok /\ Keep(length) <= inode[i].blocks
  <2>4. AtMost(inode[i]) /\ (i \notin short => Fits(inode[i]))
    BY DEF Inv
  <2>5. /\ AtMost(done.node)
        /\ ~done.ok => done.node = inode[i]
        /\ all => Fits(done.node)
    BY <2>1, <2>3, <2>4, TruncateFits
  <2>6. short' = IF all THEN short \ {i} ELSE short
    BY <2>2
  <2>7. i \notin short' => Fits(done.node)
    <3>1. CASE all
      BY <2>5, <3>1
    <3>2. CASE ~done.ok
      BY <2>4, <2>5, <2>6, <3>2
    <3>3. CASE done.ok /\ ~all
      <4>1. short' = short /\ ~(Keep(length) <= inode[i].blocks)
        BY <2>6, <3>3
      <4> SUFFICES ASSUME i \notin short PROVE FALSE
        BY <4>1
      <4>2. inode[i].blocks = Keep(inode[i].fileSize)
        BY <2>4 DEF Fits
      <4>3. Keep(length) <= Keep(inode[i].fileSize)
        BY <2>1, <2>2, <2>4, KeepMonotone DEF AtMost
      <4> QED
        BY <4>1, <4>2, <4>3
    <3> QED
      BY <3>1, <3>2, <3>3
  <2>8. short' \subseteq short \union {i} /\ short \subseteq short' \union {i}
    <3>1. short' = short \/ short' = short \ {i}
      BY <2>6
    <3> QED
      BY <3>1
  <2>9. Store(i, done)
    BY <2>2
  <2> HIDE DEF done
  <2> QED
    BY <2>5, <2>7, <2>8, <2>9, StoreInv
<1>5. ASSUME NEW i, NEW offset, NEW n, WriteCut(i, offset, n) PROVE Inv'
  <2>1. inode' = inode /\ short' = short
    BY <1>5 DEF WriteCut, CrashInWrite, Crash
  <2> QED
    BY <1>1, <2>1
<1>6. ASSUME NEW i, NEW length, ShortenCut(i, length) PROVE Inv'
  BY <1>1, <1>6 DEF ShortenCut, Crash
<1>7. ASSUME NEW i, NEW offset, NEW n, Read(i, offset, n) PROVE Inv'
  BY <1>1, <1>7 DEF Read
<1>8. CASE WriteNothing
  BY <1>1, <1>8 DEF WriteNothing
<1>9. CASE UNCHANGED vars
  BY <1>1, <1>9 DEF vars
<1>10. CASE Next
  BY <1>2, <1>3, <1>4, <1>5, <1>6, <1>7, <1>8, <1>10 DEF Next
<1> QED
  BY <1>9, <1>10

\* It is about the sizes.
LEMMA InvFits == Inv => SizeFitsBlocks
BY DEF Inv, Fits, AtMost, SizeFitsBlocks

\* As long as no removal of blocks fails, every file has the blocks its size
\* needs, also after a write that the full disk or a crash cut short and after
\* every truncation; a file whose last write lay behind its blocks and found the
\* disk full before its first word has no more than it needs (fs_write and
\* fs_truncate, linkFuseAndFS.cpp:383-603).
THEOREM SizeFitsCorrect ==
  ASSUME NoWriteInside
  PROVE  Spec /\ []RemovalsSucceed => []SizeFitsBlocks
<1>1. Init => Inv
  BY InitInv
<1>2. Inv /\ RemovalsSucceed /\ [Next]_vars => Inv'
  BY NextInv
<1>3. Inv => SizeFitsBlocks
  BY InvFits
<1> QED
  BY <1>1, <1>2, <1>3, PTL DEF Spec

\* When the truncations only clear the end of the last block, nothing is
\* assumed.
THEOREM SizeFitsWithoutRemoval ==
  ASSUME NoWriteInside, NothingRemoved
  PROVE  Spec => []SizeFitsBlocks
<1>1. Init => Inv
  BY InitInv
<1>2. Inv => RemovalsSucceed
  <2> SUFFICES ASSUME Inv, NEW i \in Inode, NEW length \in Lengths,
                      <<inode[i].blocks, Keep(length)>> \in Truncations
               PROVE  Removed(i, length).ok
    BY DEF RemovalsSucceed
  <2>1. inode[i].blocks \in Nat /\ Keep(length) \in Nat
    <3>1. length \in Nat
      BY RequestAssumption
    <3> QED
      BY <3>1, KeepNat DEF Inv, AtMost, IsInode
  <2>2. Keep(length) >= inode[i].blocks
    BY DEF NothingRemoved
  <2>3. ~(inode[i].blocks > Keep(length))
    BY <2>1, <2>2
  <2> QED
    BY <2>3 DEF Removed
<1>3. Inv /\ [Next]_vars => Inv'
  BY <1>2, NextInv
<1>4. Inv => SizeFitsBlocks
  BY InvFits
<1> QED
  BY <1>1, <1>3, <1>4, PTL DEF Spec
=============================================================================
