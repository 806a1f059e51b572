------------------------- MODULE BlockMapProofs -------------------------
(***************************************************************************)
(* Proofs about BlockMap: whatever the requests, the disk and the numbers  *)
(* of addresses, no block is in two places, none is lost, and the inodes   *)
(* keep the blocks of their files as FileMap says, when only truncations   *)
(* that remove_datablocks_range_from_inode does completely are asked for.  *)
(*                                                                         *)
(* From the bottom up: the arithmetic of the sites; the free blocks; each  *)
(* loop of InodeBlockOps as an induction; removals; lookups; appends; then *)
(* the requests, the invariant and what follows from it.                   *)
(***************************************************************************)
EXTENDS BlockSites

--------------------
(* Sites *)

\* The numbers of logical blocks of each level.
LEMMA Sizes ==
  /\ A \in Nat /\ A >= 1 /\ A2 = A * A /\ A2 \in Nat /\ A3 = A2 * A /\ A3 \in Nat
  /\ A2 >= A /\ A3 >= A2 /\ Word = 0 .. (A - 1) /\ NUM_DIRECT_BLOCKS \in Nat /\ NUM_DIRECT_BLOCKS >= 1
<1>1. A \in Nat /\ A >= 1 /\ A2 = A * A /\ A3 = A2 * A /\ Word = 0 .. (A - 1)
  BY DiskAssumption DEF A, A2, A3, NUM_OF_DOUBLE_INDIRECT_BLOCK_ADDR, NUM_OF_TRIPLE_INDIRECT_BLOCK_ADDR,
    NUM_OF_SINGLE_INDIRECT_BLOCK_ADDR, Word
<1> HIDE DEF A, A2, A3
<1>2. A2 \in Nat /\ A2 >= A  BY <1>1
<1>3. A3 \in Nat /\ A3 >= A2  BY <1>1, <1>2
<1> QED BY <1>1, <1>2, <1>3, DirectAssumption

\* A block covers what its entries cover.
LEMMA Weights ==
  /\ \A h \in 0 .. 3 : W(h) \in Nat /\ W(h) >= 1
  /\ \A h \in 1 .. 3 : W(h) = W(h - 1) * A
  /\ W(0) = 1 /\ W(1) = A /\ W(2) = A2 /\ W(3) = A3
<1>1. W(0) = 1 /\ W(1) = A /\ W(2) = A2 /\ W(3) = A3  BY DEF W
<1>2. \A h \in 0 .. 3 : h = 0 \/ h = 1 \/ h = 2 \/ h = 3  OBVIOUS
<1>3. \A h \in 1 .. 3 : h = 1 \/ h = 2 \/ h = 3  OBVIOUS
<1>4. ASSUME NEW h \in 0 .. 3 PROVE W(h) \in Nat /\ W(h) >= 1
  BY <1>1, <1>2, Sizes
<1>5. ASSUME NEW h \in 1 .. 3 PROVE W(h) = W(h - 1) * A
  <2>1. W(1) = W(0) * A /\ W(2) = W(1) * A /\ W(3) = W(2) * A  BY <1>1, Sizes
  <2>2. CASE h = 1
    BY <2>1, <2>2
  <2>3. CASE h = 2
    BY <2>1, <2>3
  <2>4. CASE h = 3
    BY <2>1, <2>4
  <2> QED BY <1>3, <2>2, <2>3, <2>4
<1> QED BY <1>1, <1>4, <1>5

\* Where the levels start.
LEMMA Starts ==
  /\ Start(0) = 0 /\ Start(1) = SingleStart /\ Start(2) = DoubleStart /\ Start(3) = TripleStart
  /\ Start(4) = MaxBlocks
  /\ SingleStart = NUM_DIRECT_BLOCKS /\ DoubleStart = SingleStart + A /\ TripleStart = DoubleStart + A2
  /\ MaxBlocks = TripleStart + A3
  /\ SingleStart \in Nat /\ DoubleStart \in Nat /\ TripleStart \in Nat /\ MaxBlocks \in Nat
  /\ 0 < SingleStart /\ SingleStart < DoubleStart /\ DoubleStart < TripleStart /\ TripleStart < MaxBlocks
<1>1. /\ Start(0) = 0 /\ Start(1) = SingleStart /\ Start(2) = DoubleStart /\ Start(3) = TripleStart
      /\ Start(4) = MaxBlocks
  BY DEF Start
<1>2. /\ SingleStart = NUM_DIRECT_BLOCKS /\ DoubleStart = SingleStart + A /\ TripleStart = DoubleStart + A2
      /\ MaxBlocks = TripleStart + A3
  BY DEF SingleStart, DoubleStart, TripleStart, MaxBlocks, A, A2, A3, NUM_OF_SINGLE_INDIRECT_BLOCK_ADDR
<1>3. /\ SingleStart \in Nat /\ DoubleStart \in Nat /\ TripleStart \in Nat /\ MaxBlocks \in Nat
      /\ 0 < SingleStart /\ SingleStart < DoubleStart /\ DoubleStart < TripleStart /\ TripleStart < MaxBlocks
  BY <1>2, Sizes
<1> QED BY <1>1, <1>2, <1>3

\* The sites of a level lie inside it.
LEMMA Widths ==
  /\ \A r \in 0 .. 3 : Start(r) \in Nat /\ Start(r + 1) \in Nat /\ Start(r) < Start(r + 1)
  /\ \A r \in 0 .. 3 : Start(r + 1) = Start(r) + Width(r, 0)
  /\ \A r \in 1 .. 3 : Width(r, r) = 1 /\ Start(r + 1) = Start(r) + W(r)
  /\ \A r \in 0 .. 3 : \A h \in 0 .. r : Width(r, h) \in Nat /\ Width(r, h) >= 1
  /\ \A r \in 1 .. 3 : \A h \in 1 .. r : Width(r, h - 1) = Width(r, h) * A
<1>1. \A r \in 0 .. 3 : r = 0 \/ r = 1 \/ r = 2 \/ r = 3  OBVIOUS
<1>2. ASSUME NEW r \in 0 .. 3 PROVE Start(r) \in Nat /\ Start(r + 1) \in Nat /\ Start(r) < Start(r + 1)
  BY <1>1, Starts
<1>3. ASSUME NEW r \in 1 .. 3 PROVE Width(r, r) = 1 /\ Start(r + 1) = Start(r) + W(r)
  <2>1. r # 0 /\ r - r = 0 /\ (r = 1 \/ r = 2 \/ r = 3)  OBVIOUS
  <2>2. Width(r, r) = 1  BY <2>1, Weights DEF Width
  <2>3. Start(1 + 1) = Start(1) + W(1) /\ Start(2 + 1) = Start(2) + W(2) /\ Start(3 + 1) = Start(3) + W(3)
    BY Starts, Weights
  <2> QED BY <2>1, <2>2, <2>3
<1>4. ASSUME NEW r \in 0 .. 3, NEW h \in 0 .. r PROVE Width(r, h) \in Nat /\ Width(r, h) >= 1
  <2>1. r - h \in 0 .. 3  OBVIOUS
  <2> QED BY <2>1, Weights, Sizes DEF Width
<1>5. ASSUME NEW r \in 1 .. 3, NEW h \in 1 .. r PROVE Width(r, h - 1) = Width(r, h) * A
  <2>1. r # 0 /\ r - (h - 1) \in 1 .. 3 /\ (r - (h - 1)) - 1 = r - h  OBVIOUS
  <2>2. Width(r, h - 1) = W(r - (h - 1)) /\ Width(r, h) = W(r - h)  BY <2>1 DEF Width
  <2> QED BY <2>1, <2>2, Weights
<1>6. ASSUME NEW r \in 0 .. 3 PROVE Start(r + 1) = Start(r) + Width(r, 0)
  <2>1. CASE r = 0
    BY <2>1, Starts DEF Width
  <2>2. CASE r # 0
    <3>1. r \in 1 .. 3 /\ r - 0 = r  BY <2>2
    <3> QED BY <2>2, <3>1, <1>3 DEF Width
  <2> QED BY <2>1, <2>2
<1> QED BY <1>2, <1>3, <1>4, <1>5, <1>6

\* A site and its parts.
LEMMA SiteIs ==
  ASSUME NEW q \in Sites
  PROVE  /\ q[1] \in 0 .. 3 /\ q[2] \in 0 .. q[1] /\ q[2] \in 0 .. 3 /\ q[3] \in Nat /\ q = <<q[1], q[2], q[3]>>
         /\ q[3] < Width(q[1], q[2])
         /\ First(q) \in Nat /\ Start(q[1]) <= First(q) /\ First(q) = Start(q[1]) + q[3] * W(q[2])
         /\ W(q[2]) \in Nat /\ W(q[2]) >= 1
<1>1. /\ q[1] \in 0 .. 3 /\ q[2] \in 0 .. q[1] /\ q[2] \in 0 .. 3 /\ q[3] \in Nat /\ q = <<q[1], q[2], q[3]>>
      /\ q[3] < Width(q[1], q[2])
  BY DEF Sites
<1>2. W(q[2]) \in Nat /\ W(q[2]) >= 1 /\ Start(q[1]) \in Nat  BY <1>1, Weights, Widths
<1>3. q[3] * W(q[2]) \in Nat  BY <1>1, <1>2
<1> QED BY <1>1, <1>2, <1>3 DEF First

\* An entry of a site is a site.
LEMMA KidIs ==
  ASSUME NEW q \in Sites, q[2] # 0, NEW k \in Word
  PROVE  /\ Kid(q, k) \in Sites /\ Kid(q, k)[1] = q[1] /\ Kid(q, k)[2] = q[2] - 1
         /\ First(Kid(q, k)) = First(q) + k * W(q[2] - 1) /\ k * W(q[2] - 1) \in Nat
         /\ W(q[2] - 1) \in Nat /\ W(q[2] - 1) >= 1 /\ W(q[2]) = W(q[2] - 1) * A
         /\ First(Kid(q, k)) + W(q[2] - 1) <= First(q) + W(q[2])
         /\ q[1] \in 1 .. 3 /\ q[2] \in 1 .. 3
<1> DEFINE r == q[1]  h == q[2]  u == q[3]  w == W(h - 1)  wd == Width(r, h)
<1>1. /\ r \in 1 .. 3 /\ h \in 1 .. r /\ h \in 1 .. 3 /\ h - 1 \in 0 .. 3 /\ h - 1 \in 0 .. r /\ u \in Nat /\ u < wd
      /\ First(q) = Start(r) + u * W(h) /\ First(q) \in Nat
  BY SiteIs
<1>2. w \in Nat /\ w >= 1 /\ W(h) = w * A /\ wd \in Nat /\ Width(r, h - 1) = wd * A /\ Start(r) \in Nat
  <2>1. r \in 0 .. 3 /\ h \in 0 .. r  BY <1>1
  <2>2. wd \in Nat /\ Start(r) \in Nat  BY <2>1, Widths
  <2>3. Width(r, h - 1) = wd * A  BY <1>1, Widths
  <2>4. w \in Nat /\ w >= 1 /\ W(h) = w * A  BY <1>1, Weights
  <2> QED BY <2>2, <2>3, <2>4
<1>3. A \in Nat /\ A >= 1 /\ k \in 0 .. (A - 1) /\ k \in Nat  BY Sizes
<1>4. Kid(q, k)[1] = r /\ Kid(q, k)[2] = h - 1 /\ Kid(q, k)[3] = u * A + k  BY DEF Kid
<1> HIDE DEF r, h, u, w, wd
<1>5. u * A + k \in Nat /\ u * A + k < wd * A
  <2>1. u + 1 <= wd /\ u * A \in Nat  BY <1>1, <1>2, <1>3
  <2>2. (u + 1) * A <= wd * A  BY <2>1, <1>1, <1>2, <1>3
  <2>3. (u + 1) * A = u * A + A  BY <1>1, <1>3
  <2> QED BY <2>1, <2>2, <2>3, <1>3, <1>2
<1>6. Kid(q, k) \in Sites
  <2>1. Kid(q, k) = <<r, h - 1, u * A + k>>  BY DEF Kid, r, h, u
  <2>2. r \in 0 .. 3 /\ h - 1 <= r  BY <1>1
  <2> QED BY <1>1, <1>2, <1>4, <1>5, <2>1, <2>2 DEF Sites
<1>7. (u * A + k) * w = u * (w * A) + k * w /\ k * w \in Nat /\ u * (w * A) \in Nat  BY <1>1, <1>2, <1>3
<1>8. First(Kid(q, k)) = Start(r) + (u * A + k) * w  BY <1>4 DEF First, w
<1>9. k * w + w <= w * A
  <2>1. (k + 1) * w = k * w + w  BY <1>2, <1>3
  <2>2. k + 1 <= A  BY <1>3
  <2>3. (k + 1) * w <= A * w  BY <2>2, <1>2, <1>3
  <2>4. A * w = w * A  BY <1>2, <1>3
  <2> QED BY <2>1, <2>3, <2>4
<1> DEFINE kw == k * w  uw == u * (w * A)
<1>10. First(Kid(q, k)) = First(q) + kw /\ kw \in Nat
  <2>1. First(Kid(q, k)) = Start(r) + (uw + kw)  BY <1>7, <1>8
  <2>2. First(q) = Start(r) + uw  BY <1>1, <1>2
  <2>3. uw \in Nat /\ kw \in Nat  BY <1>7
  <2> HIDE DEF uw, kw
  <2> QED BY <2>1, <2>2, <2>3, <1>2
<1>11. kw + w <= W(h)  BY <1>9, <1>2
<1> HIDE DEF kw
<1>12. First(Kid(q, k)) + w <= First(q) + W(h)
  <2>1. w * A \in Nat  BY <1>2, <1>3
  <2> QED BY <2>1, <1>10, <1>11, <1>1, <1>2
<1> QED BY <1>1, <1>2, <1>4, <1>6, <1>10, <1>12 DEF r, h, u, w, kw

\* Two entries are two sites.
LEMMA KidOnce ==
  ASSUME NEW q \in Sites, q[2] # 0, NEW k \in Word, NEW p \in Sites, p[2] # 0, NEW j \in Word,
         Kid(q, k) = Kid(p, j)
  PROVE  q = p /\ k = j
<1>1. /\ q[1] \in 0 .. 3 /\ q[2] \in 0 .. 3 /\ q[3] \in Nat /\ q = <<q[1], q[2], q[3]>>
      /\ p[1] \in 0 .. 3 /\ p[2] \in 0 .. 3 /\ p[3] \in Nat /\ p = <<p[1], p[2], p[3]>>
  BY SiteIs
<1>2. q[1] = p[1] /\ q[2] - 1 = p[2] - 1 /\ q[3] * A + k = p[3] * A + j  BY DEF Kid
<1>3. q[2] = p[2]  BY <1>1, <1>2
<1>4. q[3] = p[3] /\ k = j
  <2>1. A \in Nat /\ A >= 1 /\ k \in 0 .. (A - 1) /\ j \in 0 .. (A - 1)  BY Sizes
  <2>2. (q[3] * A + k) \div A = q[3] /\ (q[3] * A + k) % A = k  BY <1>1, <2>1, Quotient
  <2>3. (p[3] * A + j) \div A = p[3] /\ (p[3] * A + j) % A = j  BY <1>1, <2>1, Quotient
  <2> QED BY <1>2, <2>2, <2>3
<1> QED BY <1>1, <1>2, <1>3, <1>4

\* A site that is not a root is an entry of the site above.
LEMMA UpIs ==
  ASSUME NEW q \in Sites, q[2] # q[1]
  PROVE  /\ Up(q) \in Sites /\ Up(q)[1] = q[1] /\ Up(q)[2] = q[2] + 1 /\ Up(q)[2] # 0
         /\ Slot(q) \in Word /\ q = Kid(Up(q), Slot(q)) /\ First(Up(q)) <= First(q)
<1> DEFINE r == q[1]  h == q[2]  u == q[3]  v == u \div A  m == u % A
<1>1. /\ r \in 1 .. 3 /\ h \in 0 .. (r - 1) /\ h + 1 \in 1 .. r /\ h + 1 \in 0 .. 3 /\ u \in Nat /\ q = <<r, h, u>>
      /\ u < Width(r, h)
  BY SiteIs
<1>2. /\ A \in Nat /\ A >= 1 /\ Word = 0 .. (A - 1) /\ Width(r, h + 1) \in Nat
      /\ Width(r, h) = Width(r, h + 1) * A
  <2>1. (h + 1) - 1 = h /\ r \in 0 .. 3 /\ h + 1 \in 0 .. r  BY <1>1
  <2>2. Width(r, h + 1) \in Nat  BY <2>1, Widths
  <2>3. Width(r, (h + 1) - 1) = Width(r, h + 1) * A  BY <1>1, Widths
  <2> QED BY <2>1, <2>2, <2>3, Sizes
<1>3. v \in Nat /\ m \in 0 .. (A - 1) /\ u = v * A + m  BY <1>1, <1>2, DivMod
<1>4. Up(q) = <<r, h + 1, v>> /\ Slot(q) = m  BY DEF Up, Slot
<1> HIDE DEF v, m
<1> DEFINE wd == Width(r, h + 1)
<1>5. v < wd
  <2>1. v * A + m < wd * A /\ wd \in Nat  BY <1>1, <1>2, <1>3
  <2> HIDE DEF wd
  <2>2. v * A < wd * A
    <3>1. v * A \in Nat /\ m >= 0 /\ m \in Int  BY <1>2, <1>3
    <3>2. wd * A \in Nat  BY <2>1, <1>2
    <3> DEFINE x == v * A  y == wd * A
    <3>3. x + m < y /\ x \in Nat /\ y \in Nat  BY <2>1, <3>1, <3>2
    <3> HIDE DEF x, y
    <3>4. x < y  BY <3>1, <3>3
    <3> QED BY <3>4 DEF x, y
  <2>3. ASSUME ~(v < wd) PROVE FALSE
    <3>1. v >= wd  BY <2>3, <2>1, <1>3
    <3>2. v * A >= wd * A  BY <3>1, <2>1, <1>2, <1>3
    <3> QED BY <3>2, <2>2, <2>1, <1>2, <1>3
  <2> QED BY <2>3
<1> HIDE DEF r, h, u, wd
<1>6. Up(q) \in Sites /\ Up(q)[1] = r /\ Up(q)[2] = h + 1 /\ Up(q)[3] = v
  <2>1. r \in 0 .. 3 /\ h + 1 <= r  BY <1>1
  <2> QED BY <2>1, <1>1, <1>3, <1>4, <1>5 DEF Sites, wd
<1>7. q = Kid(Up(q), Slot(q))
  <2>1. (h + 1) - 1 = h  BY <1>1
  <2> QED BY <1>1, <1>3, <1>4, <1>6, <2>1 DEF Kid
<1>8. Up(q)[2] # 0 /\ Slot(q) \in Word  BY <1>1, <1>2, <1>3, <1>4, <1>6
<1>9. First(Up(q)) <= First(q)
  <2>1. First(q) = First(Up(q)) + Slot(q) * W(Up(q)[2] - 1) /\ Slot(q) * W(Up(q)[2] - 1) \in Nat
    BY <1>6, <1>7, <1>8, KidIs
  <2>2. First(Up(q)) \in Nat  BY <1>6, SiteIs
  <2> QED BY <2>1, <2>2
<1> QED BY <1>6, <1>7, <1>8, <1>9 DEF r, h

\* Order of multiples.
LEMMA SpansApart ==
  ASSUME NEW a \in Nat, NEW b \in Nat, NEW w \in Nat, w >= 1, a * w <= b * w, b * w < a * w + w
  PROVE  a = b
<1>1. a * w \in Nat /\ b * w \in Nat /\ (a + 1) * w = a * w + w  OBVIOUS
<1>2. a <= b
  <2>1. ASSUME b + 1 <= a PROVE FALSE
    <3>1. (b + 1) * w <= a * w  BY <2>1
    <3>2. (b + 1) * w = b * w + w  OBVIOUS
    <3> QED BY <1>1, <3>1, <3>2
  <2> QED BY <2>1
<1>3. b <= a
  <2>1. ASSUME a + 1 <= b PROVE FALSE
    <3>1. (a + 1) * w <= b * w  BY <2>1
    <3> QED BY <1>1, <3>1
  <2> QED BY <2>1
<1> QED BY <1>2, <1>3

\* Two sites of the same root and height cover different logical blocks.
LEMMA SitesApart ==
  ASSUME NEW q \in Sites, NEW p \in Sites, q[1] = p[1], q[2] = p[2],
         First(q) <= First(p), First(p) < First(q) + W(q[2])
  PROVE  q = p
<1> DEFINE w == W(q[2])  a == q[3]  b == p[3]  s == Start(q[1])
<1>1. /\ q = <<q[1], q[2], a>> /\ p = <<q[1], q[2], b>> /\ a \in Nat /\ b \in Nat /\ w \in Nat /\ w >= 1
      /\ First(q) = s + a * w /\ First(p) = s + b * w /\ s \in Nat
  BY SiteIs, Widths
<1> HIDE DEF w, a, b, s
<1> DEFINE x == a * w  y == b * w
<1>2. x \in Nat /\ y \in Nat  BY <1>1
<1>3. s + x <= s + y /\ s + y < s + x + w  BY <1>1 DEF w
<1> HIDE DEF x, y
<1>4. x <= y /\ y < x + w  BY <1>1, <1>2, <1>3
<1>5. a = b  BY <1>1, <1>4, SpansApart DEF x, y
<1> QED BY <1>1, <1>5

\* A site ends inside its level.
LEMMA SiteEnds ==
  ASSUME NEW q \in Sites
  PROVE  /\ First(q) < Start(q[1] + 1)
         /\ q[1] # 0 => First(q) + W(q[2]) <= Start(q[1] + 1)
         /\ q[2] = 0 => First(q) = Start(q[1]) + q[3]
<1> DEFINE w == W(q[2])  a == q[3]  s == Start(q[1])  wd == Width(q[1], q[2])
<1>1. /\ a \in Nat /\ w \in Nat /\ w >= 1 /\ First(q) = s + a * w /\ s \in Nat /\ a < wd /\ wd \in Nat
      /\ q[1] \in 0 .. 3 /\ q[2] \in 0 .. q[1]
  BY SiteIs, Widths
<1>2. q[2] = 0 => First(q) = s + a
  <2>1. q[2] = 0 => w = 1  BY Weights
  <2> HIDE DEF w, a, s
  <2> QED BY <1>1, <2>1
<1>3. CASE q[1] = 0
  <2>1. q[2] = 0 /\ Start(1) = Start(0) + Width(0, 0) /\ 0 + 1 = 1
    <3>1. 0 \in 0 .. 3 /\ 0 + 1 = 1  OBVIOUS
    <3> QED BY <1>1, <1>3, <3>1, Widths
  <2>2. First(q) = s + a /\ s = Start(0) /\ wd = Width(0, 0)  BY <1>2, <1>3, <2>1
  <2> HIDE DEF w, a, s, wd
  <2>3. First(q) < Start(1)  BY <1>1, <2>1, <2>2
  <2> QED BY <1>2, <1>3, <2>3 DEF s, a
<1>4. CASE q[1] # 0
  <2>1. q[1] \in 1 .. 3  BY <1>1, <1>4
  <2>2. Start(q[1] + 1) = s + W(q[1]) /\ wd * w = W(q[1])
    <3>1. Start(q[1] + 1) = s + W(q[1])  BY <2>1, Widths
    <3>2. wd = W(q[1] - q[2])  BY <1>4 DEF Width
    <3>3. W(0) = 1 /\ W(1) = A /\ W(2) = A * A /\ W(3) = A * A * A /\ A \in Nat  BY Weights, Sizes
    <3>4. \/ q[1] = 1 /\ q[2] = 0 /\ q[1] - q[2] = 1
          \/ q[1] = 1 /\ q[2] = 1 /\ q[1] - q[2] = 0
          \/ q[1] = 2 /\ q[2] = 0 /\ q[1] - q[2] = 2
          \/ q[1] = 2 /\ q[2] = 1 /\ q[1] - q[2] = 1
          \/ q[1] = 2 /\ q[2] = 2 /\ q[1] - q[2] = 0
          \/ q[1] = 3 /\ q[2] = 0 /\ q[1] - q[2] = 3
          \/ q[1] = 3 /\ q[2] = 1 /\ q[1] - q[2] = 2
          \/ q[1] = 3 /\ q[2] = 2 /\ q[1] - q[2] = 1
          \/ q[1] = 3 /\ q[2] = 3 /\ q[1] - q[2] = 0
      <4> DEFINE x == q[1]  y == q[2]
      <4>1. x \in 1 .. 3 /\ y \in 0 .. x  BY <1>1, <2>1
      <4> HIDE DEF x, y
      <4>2. x = 1 \/ x = 2 \/ x = 3  BY <4>1
      <4>3. x = 1 => y = 0 \/ y = 1  BY <4>1
      <4>4. x = 2 => y = 0 \/ y = 1 \/ y = 2  BY <4>1
      <4>5. x = 3 => y = 0 \/ y = 1 \/ y = 2 \/ y = 3  BY <4>1
      <4> QED BY <4>2, <4>3, <4>4, <4>5 DEF x, y
    <3>5. wd * w = W(q[1])
      <4>1. W(3) \in Nat /\ W(2) \in Nat /\ W(1) \in Nat /\ A * (A * A) = A * A * A  BY <3>3
      <4> QED BY <3>2, <3>3, <3>4, <4>1
    <3> QED BY <3>1, <3>5
  <2> HIDE DEF w, a, s, wd
  <2>3. a + 1 <= wd  BY <1>1
  <2>4. (a + 1) * w <= wd * w /\ (a + 1) * w = a * w + w /\ a * w \in Nat /\ wd * w \in Nat
    BY <1>1, <2>3
  <2> DEFINE x == a * w  y == wd * w
  <2>5. x + w <= y /\ x \in Nat /\ y \in Nat /\ First(q) = s + x /\ Start(q[1] + 1) = s + y
    BY <2>2, <2>4, <1>1
  <2> HIDE DEF x, y
  <2>6. First(q) + w <= Start(q[1] + 1) /\ First(q) < Start(q[1] + 1)  BY <1>1, <2>5
  <2> QED BY <1>2, <2>6 DEF w, s, a
<1> QED BY <1>3, <1>4

\* A logical block lies in the numbers of its level.
LEMMA LevIs ==
  ASSUME NEW n \in 0 .. (MaxBlocks - 1)
  PROVE  /\ Lev(n) \in 0 .. 3 /\ Start(Lev(n)) <= n /\ n < Start(Lev(n) + 1)
         /\ Start(Lev(n)) \in Nat /\ n - Start(Lev(n)) \in Nat /\ n \in Nat
<1>1. /\ Start(0) = 0 /\ Start(1) = SingleStart /\ Start(2) = DoubleStart /\ Start(3) = TripleStart
      /\ Start(4) = MaxBlocks /\ SingleStart \in Nat /\ DoubleStart \in Nat /\ TripleStart \in Nat /\ MaxBlocks \in Nat
  BY Starts
<1>2. 0 + 1 = 1 /\ 1 + 1 = 2 /\ 2 + 1 = 3 /\ 3 + 1 = 4  OBVIOUS
<1>3. n \in Nat /\ n < MaxBlocks  BY <1>1
<1>4. CASE n < SingleStart
  BY <1>1, <1>2, <1>3, <1>4 DEF Lev
<1>5. CASE ~(n < SingleStart) /\ n < DoubleStart
  BY <1>1, <1>2, <1>3, <1>5 DEF Lev
<1>6. CASE ~(n < SingleStart) /\ ~(n < DoubleStart) /\ n < TripleStart
  BY <1>1, <1>2, <1>3, <1>6 DEF Lev
<1>7. CASE ~(n < SingleStart) /\ ~(n < DoubleStart) /\ ~(n < TripleStart)
  BY <1>1, <1>2, <1>3, <1>7 DEF Lev
<1> QED BY <1>4, <1>5, <1>6, <1>7

\* A level is told by the numbers in it.
LEMMA LevOnly ==
  ASSUME NEW r \in 0 .. 3, NEW n \in Nat, Start(r) <= n, n < Start(r + 1)
  PROVE  Lev(n) = r /\ n \in 0 .. (MaxBlocks - 1)
<1>1. /\ Start(0) = 0 /\ Start(1) = SingleStart /\ Start(2) = DoubleStart /\ Start(3) = TripleStart
      /\ Start(4) = MaxBlocks /\ SingleStart \in Nat /\ DoubleStart \in Nat /\ TripleStart \in Nat /\ MaxBlocks \in Nat
      /\ 0 < SingleStart /\ SingleStart < DoubleStart /\ DoubleStart < TripleStart /\ TripleStart < MaxBlocks
  BY Starts
<1>2. 0 + 1 = 1 /\ 1 + 1 = 2 /\ 2 + 1 = 3 /\ 3 + 1 = 4  OBVIOUS
<1>3. CASE r = 0
  BY <1>1, <1>2, <1>3 DEF Lev
<1>4. CASE r = 1
  BY <1>1, <1>2, <1>4 DEF Lev
<1>5. CASE r = 2
  BY <1>1, <1>2, <1>5 DEF Lev
<1>6. CASE r = 3
  BY <1>1, <1>2, <1>6 DEF Lev
<1> QED BY <1>3, <1>4, <1>5, <1>6

\* A quotient is inside its range.
LEMMA QuotientBelow ==
  ASSUME NEW t \in Nat, NEW w \in Nat, w >= 1, NEW m \in Nat, t < m * w
  PROVE  t \div w \in Nat /\ t \div w < m /\ (t \div w) * w <= t /\ t < (t \div w) * w + w
<1> DEFINE a == t \div w  b == t % w
<1>1. a \in Nat /\ b \in 0 .. (w - 1) /\ t = a * w + b  BY DivMod
<1> HIDE DEF a, b
<1>2. a * w \in Nat /\ a * w <= t /\ t < a * w + w  BY <1>1
<1>3. ASSUME m <= a PROVE FALSE
  <2>1. m * w <= a * w /\ m * w \in Nat  BY <1>1, <1>3
  <2> QED BY <1>2, <2>1
<1>4. a < m  BY <1>1, <1>3
<1> QED BY <1>1, <1>2, <1>4 DEF a

\* A logical block has a site above it at each height.
LEMMA AncIs ==
  ASSUME NEW n \in 0 .. (MaxBlocks - 1), NEW h \in 0 .. Lev(n)
  PROVE  /\ Anc(n, h) \in Sites /\ Anc(n, h)[1] = Lev(n) /\ Anc(n, h)[2] = h
         /\ First(Anc(n, h)) \in Nat /\ First(Anc(n, h)) <= n /\ n < First(Anc(n, h)) + W(h)
         /\ Anc(n, h)[3] = (n - Start(Lev(n))) \div W(h)
<1> DEFINE r == Lev(n)  s == Start(r)  t == n - s  w == W(h)  wd == Width(r, h)
<1>1. r \in 0 .. 3 /\ s <= n /\ n < Start(r + 1) /\ s \in Nat /\ t \in Nat /\ n \in Nat  BY LevIs
<1>2. h \in 0 .. 3 /\ h \in 0 .. r /\ h <= r  BY <1>1
<1>3. w \in Nat /\ w >= 1 /\ wd \in Nat  BY <1>1, <1>2, Weights, Widths
<1>4. Start(r + 1) = s + wd * w
  <2>1. CASE r = 0
    <3>1. h = 0 /\ w = 1 /\ wd = Width(0, 0)  BY <1>2, <2>1, Weights
    <3>2. 0 \in 0 .. 3  OBVIOUS
    <3>3. Start(r + 1) = s + wd  BY <2>1, <3>1, <3>2, Widths
    <3> HIDE DEF s, w, wd
    <3> QED BY <1>3, <3>1, <3>3
  <2>2. CASE r # 0
    <3>1. r \in 1 .. 3  BY <1>1, <2>2
    <3>2. Start(r + 1) = s + W(r) /\ wd = W(r - h)  BY <2>2, <3>1, Widths DEF Width
    <3>3. W(0) = 1 /\ W(1) = A /\ W(2) = A * A /\ W(3) = A * A * A /\ A \in Nat  BY Weights, Sizes
    <3>4. W(3) \in Nat /\ W(2) \in Nat /\ W(1) \in Nat /\ A * (A * A) = A * A * A  BY <3>3
    <3>5. W(r - h) * W(h) = W(r)
      <4> HIDE DEF r
      <4>1. r = 1 \/ r = 2 \/ r = 3  BY <3>1
      <4>2. r = 1 => h = 0 \/ h = 1  BY <1>2
      <4>3. r = 2 => h = 0 \/ h = 1 \/ h = 2  BY <1>2
      <4>4. r = 3 => h = 0 \/ h = 1 \/ h = 2 \/ h = 3  BY <1>2
      <4>5. 1 - 0 = 1 /\ 1 - 1 = 0 /\ 2 - 0 = 2 /\ 2 - 1 = 1 /\ 2 - 2 = 0 /\ 3 - 0 = 3 /\ 3 - 1 = 2 /\ 3 - 2 = 1 /\ 3 - 3 = 0
        OBVIOUS
      <4> QED BY <3>3, <3>4, <4>1, <4>2, <4>3, <4>4, <4>5
    <3> QED BY <3>2, <3>5
  <2> QED BY <2>1, <2>2
<1> HIDE DEF s, t, w, wd
<1>5. t < wd * w
  <2>1. wd * w \in Nat  BY <1>3
  <2> QED BY <1>1, <1>4, <2>1 DEF t
<1>6. t \div w \in Nat /\ t \div w < wd /\ (t \div w) * w <= t /\ t < (t \div w) * w + w
  BY <1>1, <1>3, <1>5, QuotientBelow
<1> DEFINE u == t \div w
<1>7. Anc(n, h) = <<r, h, u>>  BY DEF Anc, t, s, w
<1> HIDE DEF u
<1>8. Anc(n, h) \in Sites /\ Anc(n, h)[1] = r /\ Anc(n, h)[2] = h /\ Anc(n, h)[3] = u
  BY <1>1, <1>2, <1>6, <1>7 DEF Sites, u, wd
<1>9. First(Anc(n, h)) = s + u * w /\ u * w \in Nat  BY <1>3, <1>6, <1>8 DEF First, s, w, u
<1>10. First(Anc(n, h)) \in Nat /\ First(Anc(n, h)) <= n /\ n < First(Anc(n, h)) + w
  <2> DEFINE x == u * w
  <2>1. x \in Nat /\ x <= t /\ t < x + w /\ First(Anc(n, h)) = s + x  BY <1>6, <1>9 DEF u
  <2> HIDE DEF x
  <2> QED BY <1>1, <1>3, <2>1 DEF t
<1> QED BY <1>8, <1>10 DEF w, u, t, s

\* There is no other.
LEMMA AncOnly ==
  ASSUME NEW n \in Nat, NEW q \in Sites, First(q) <= n, n < First(q) + W(q[2]), n < Start(q[1] + 1)
  PROVE  n \in 0 .. (MaxBlocks - 1) /\ q[1] = Lev(n) /\ q = Anc(n, q[2])
<1>1. /\ q[1] \in 0 .. 3 /\ q[2] \in 0 .. q[1] /\ First(q) \in Nat /\ Start(q[1]) <= First(q)
      /\ W(q[2]) \in Nat /\ Start(q[1]) \in Nat
  BY SiteIs, Widths
<1>2. n \in 0 .. (MaxBlocks - 1) /\ q[1] = Lev(n)
  <2>1. Start(q[1]) <= n  BY <1>1
  <2> QED BY <1>1, <2>1, LevOnly
<1>3. /\ Anc(n, q[2]) \in Sites /\ Anc(n, q[2])[1] = q[1] /\ Anc(n, q[2])[2] = q[2]
      /\ First(Anc(n, q[2])) \in Nat /\ First(Anc(n, q[2])) <= n /\ n < First(Anc(n, q[2])) + W(q[2])
  BY <1>1, <1>2, AncIs
<1> DEFINE p == Anc(n, q[2])
<1>4. q = p
  <2> DEFINE w == W(q[2])  a == q[3]  b == p[3]  s == Start(q[1])
  <2>1. /\ q = <<q[1], q[2], a>> /\ p = <<p[1], p[2], b>> /\ a \in Nat /\ b \in Nat /\ w \in Nat /\ w >= 1
        /\ First(q) = s + a * w /\ First(p) = Start(p[1]) + b * W(p[2]) /\ s \in Nat
    BY <1>1, <1>3, SiteIs
  <2>2. p[1] = q[1] /\ p[2] = q[2] /\ First(p) = s + b * w  BY <1>3, <2>1
  <2>3. First(p) <= n /\ n < First(p) + w /\ First(q) <= n /\ n < First(q) + w  BY <1>3
  <2> HIDE DEF p, w, a, b, s
  <2>4. a = b
    <3> DEFINE x == a * w  y == b * w
    <3>1. x \in Nat /\ y \in Nat  BY <2>1
    <3>2. s + y <= n /\ n < s + y + w /\ s + x <= n /\ n < s + x + w  BY <2>1, <2>2, <2>3
    <3> HIDE DEF x, y
    <3>3. CASE x <= y
      <4>1. y < x + w  BY <2>1, <3>1, <3>2
      <4> QED BY <2>1, <3>3, <4>1, SpansApart DEF x, y
    <3>4. CASE ~(x <= y)
      <4>1. y <= x /\ x < y + w  BY <2>1, <3>1, <3>2, <3>4
      <4> QED BY <2>1, <4>1, SpansApart DEF x, y
    <3> QED BY <3>3, <3>4
  <2> QED BY <2>1, <2>2, <2>4
<1> QED BY <1>2, <1>4

\* A site is above the first logical block below it.
LEMMA FirstAnc ==
  ASSUME NEW q \in Sites
  PROVE  First(q) \in 0 .. (MaxBlocks - 1) /\ q[1] = Lev(First(q)) /\ q = Anc(First(q), q[2])
<1>1. First(q) \in Nat /\ W(q[2]) \in Nat /\ W(q[2]) >= 1 /\ First(q) < Start(q[1] + 1)
  BY SiteIs, SiteEnds
<1>2. First(q) <= First(q) /\ First(q) < First(q) + W(q[2])  BY <1>1
<1> QED BY <1>1, <1>2, AncOnly

\* The site of a logical block itself.
LEMMA LeafIs ==
  ASSUME NEW n \in 0 .. (MaxBlocks - 1)
  PROVE  /\ Anc(n, 0) \in Sites /\ First(Anc(n, 0)) = n /\ Anc(n, 0)[1] = Lev(n) /\ Anc(n, 0)[2] = 0
         /\ Anc(n, 0)[3] = n - Start(Lev(n))
<1>1. 0 \in 0 .. Lev(n) /\ n - Start(Lev(n)) \in Nat /\ n \in Nat /\ Start(Lev(n)) \in Nat  BY LevIs
<1>2. /\ Anc(n, 0) \in Sites /\ Anc(n, 0)[1] = Lev(n) /\ Anc(n, 0)[2] = 0
      /\ First(Anc(n, 0)) \in Nat /\ First(Anc(n, 0)) <= n /\ n < First(Anc(n, 0)) + W(0)
      /\ Anc(n, 0)[3] = (n - Start(Lev(n))) \div W(0)
  BY <1>1, AncIs
<1>3. First(Anc(n, 0)) = n
  <2> DEFINE x == First(Anc(n, 0))
  <2>1. x \in Nat /\ x <= n /\ n < x + 1  BY <1>2, Weights
  <2> HIDE DEF x
  <2>2. x = n  BY <1>1, <2>1
  <2> QED BY <2>2 DEF x
<1>4. First(Anc(n, 0)) = Start(Anc(n, 0)[1]) + Anc(n, 0)[3]  BY <1>2, SiteEnds
<1>5. Anc(n, 0)[3] \in Nat  BY <1>2, SiteIs
<1>6. Anc(n, 0)[3] = n - Start(Lev(n))  BY <1>1, <1>2, <1>3, <1>4, <1>5
<1> QED BY <1>2, <1>3, <1>6

\* One step down.
LEMMA AncDown ==
  ASSUME NEW n \in 0 .. (MaxBlocks - 1), NEW h \in 1 .. Lev(n)
  PROVE  /\ Anc(n, h) = Up(Anc(n, h - 1)) /\ Anc(n, h - 1) = Kid(Anc(n, h), Slot(Anc(n, h - 1)))
         /\ Slot(Anc(n, h - 1)) \in Word /\ First(Anc(n, h)) <= First(Anc(n, h - 1))
         /\ First(Anc(n, h)) = n => First(Anc(n, h - 1)) = n
         /\ First(Anc(n, h)) = n <=> (First(Anc(n, h - 1)) = n /\ Slot(Anc(n, h - 1)) = 0)
<1> DEFINE q == Anc(n, h - 1)  p == Anc(n, h)
<1>0. Lev(n) \in 0 .. 3 /\ h - 1 \in 0 .. Lev(n) /\ h \in 0 .. Lev(n) /\ n \in Nat /\ n < Start(Lev(n) + 1) /\ Lev(n) # 0
  BY LevIs
<1>1. q \in Sites /\ q[1] = Lev(n) /\ q[2] = h - 1 /\ First(q) \in Nat /\ First(q) <= n /\ n < First(q) + W(h - 1)
  BY <1>0, AncIs
<1>2. q[2] # q[1]  BY <1>0, <1>1
<1> HIDE DEF q
<1>3. /\ Up(q) \in Sites /\ Up(q)[1] = q[1] /\ Up(q)[2] = q[2] + 1 /\ Up(q)[2] # 0
      /\ Slot(q) \in Word /\ q = Kid(Up(q), Slot(q)) /\ First(Up(q)) <= First(q)
  BY <1>1, <1>2, UpIs
<1>4. /\ First(q) = First(Up(q)) + Slot(q) * W(Up(q)[2] - 1) /\ Slot(q) * W(Up(q)[2] - 1) \in Nat
      /\ W(Up(q)[2] - 1) \in Nat /\ W(Up(q)[2] - 1) >= 1
      /\ First(q) + W(Up(q)[2] - 1) <= First(Up(q)) + W(Up(q)[2])
  BY <1>1, <1>3, KidIs
<1>5. Up(q)[2] = h /\ Up(q)[2] - 1 = h - 1  BY <1>0, <1>1, <1>3
<1>6. First(Up(q)) <= n /\ n < First(Up(q)) + W(Up(q)[2]) /\ n < Start(Up(q)[1] + 1)
  <2>1. First(Up(q)) \in Nat /\ W(Up(q)[2]) \in Nat  BY <1>3, SiteIs
  <2>2. n < First(q) + W(Up(q)[2] - 1)  BY <1>1, <1>5
  <2>3. First(Up(q)) <= n  BY <1>0, <1>1, <1>3, <2>1
  <2>4. n < First(Up(q)) + W(Up(q)[2])  BY <1>0, <1>1, <1>4, <2>1, <2>2
  <2> QED BY <1>0, <1>1, <1>3, <2>3, <2>4
<1>7. Up(q) = Anc(n, Up(q)[2])  BY <1>0, <1>3, <1>6, AncOnly
<1>8. Up(q) = p  BY <1>5, <1>7
<1>9. First(p) \in Nat /\ Slot(q) \in Nat
  <2>1. Slot(q) \in Nat  BY <1>3, Sizes
  <2> QED BY <2>1, <1>3, <1>8, SiteIs
<1>10. First(p) = n => First(q) = n  BY <1>0, <1>1, <1>3, <1>8, <1>9
<1>11. First(p) = First(q) <=> Slot(q) = 0
  <2> DEFINE w == W(Up(q)[2] - 1)  x == Slot(q) * w
  <2>1. x \in Nat /\ w \in Nat /\ w >= 1 /\ First(q) = First(p) + x  BY <1>4, <1>8
  <2>2. x = 0 <=> Slot(q) = 0
    <3> HIDE DEF w
    <3> QED BY <2>1, <1>9
  <2> HIDE DEF x, w
  <2>3. First(p) = First(q) <=> x = 0  BY <2>1, <1>9, <1>1
  <2> QED BY <2>2, <2>3
<1> QED BY <1>3, <1>8, <1>10, <1>11 DEF q

\* The way that Route takes to a logical block.
LEMMA RouteIs ==
  ASSUME NEW n \in 0 .. (MaxBlocks - 1), n >= SingleStart
  PROVE  /\ Lev(n) \in 1 .. 3 /\ Route(n).root = Roots[Lev(n)]
         /\ Route(n).entry = Slot(Anc(n, 0))
         /\ Lev(n) = 1 => Route(n).path = << >>
         /\ Lev(n) = 2 => Route(n).path = <<Slot(Anc(n, 1))>>
         /\ Lev(n) = 3 => Route(n).path = <<Slot(Anc(n, 2)), Slot(Anc(n, 1))>>
<1> DEFINE r == Lev(n)  s == Start(r)  t == n - s
<1>1. /\ Start(0) = 0 /\ Start(1) = SingleStart /\ Start(2) = DoubleStart /\ Start(3) = TripleStart
      /\ Start(4) = MaxBlocks /\ SingleStart \in Nat /\ DoubleStart \in Nat /\ TripleStart \in Nat /\ MaxBlocks \in Nat
      /\ 0 < SingleStart /\ SingleStart < DoubleStart /\ DoubleStart < TripleStart /\ TripleStart < MaxBlocks
  BY Starts
<1>2. r \in 0 .. 3 /\ s <= n /\ n < Start(r + 1) /\ s \in Nat /\ t \in Nat /\ n \in Nat  BY LevIs
<1>3. r \in 1 .. 3  BY <1>1, <1>2 DEF Lev
<1>4. A \in Nat /\ A >= 1 /\ A2 \in Nat /\ W(1) = A /\ W(2) = A2 /\ W(0) = 1  BY Sizes, Weights
<1>5. /\ (n < DoubleStart <=> r = 1) /\ (~(n < DoubleStart) /\ n < TripleStart <=> r = 2)
      /\ (~(n < DoubleStart) /\ ~(n < TripleStart) <=> r = 3)
  BY <1>1, <1>2, <1>3 DEF Lev
<1>6. Slot(Anc(n, 0)) = t % A
  <2>1. Anc(n, 0)[3] = t  BY LeafIs
  <2> QED BY <2>1 DEF Slot
<1>7. ASSUME NEW x \in Nat, x < A PROVE x % A = x
  <2> DEFINE a == x \div A  b == x % A
  <2>1. a \in Nat /\ b \in 0 .. (A - 1) /\ x = a * A + b  BY <1>4, DivMod
  <2> HIDE DEF a, b
  <2>2. a = 0
    <3>1. ASSUME a >= 1 PROVE FALSE
      <4>1. a * A >= A /\ a * A \in Nat  BY <2>1, <3>1, <1>4
      <4> QED BY <2>1, <4>1, <1>4, <1>7
    <3> QED BY <2>1, <3>1
  <2>3. x = b  BY <2>1, <2>2, <1>4
  <2> QED BY <2>3 DEF b
<1>8. CASE r = 1
  <2>1. Route(n) = [root |-> "singleIndirect", path |-> << >>, entry |-> n - SingleStart]
    BY <1>5, <1>8 DEF Route
  <2>2. t < A /\ t = n - SingleStart
    <3>1. Anc(n, 0) \in Sites /\ Anc(n, 0)[1] = r /\ Anc(n, 0)[2] = 0 /\ Anc(n, 0)[3] = t  BY LeafIs
    <3>2. t < Width(r, 0)  BY <3>1, SiteIs
    <3>3. Width(r, 0) = W(1)  BY <1>8 DEF Width
    <3> QED BY <1>1, <1>4, <1>8, <3>2, <3>3
  <2>3. t % A = t  BY <1>2, <1>7, <2>2
  <2> QED BY <1>3, <1>6, <1>8, <2>1, <2>2, <2>3 DEF Roots
<1>9. CASE r = 2
  <2> DEFINE d == n - DoubleStart
  <2>1. Route(n) = [root |-> "doubleIndirect", path |-> <<d \div A>>, entry |-> d % A]
    BY <1>5, <1>9 DEF Route, A
  <2>2. t = d  BY <1>1, <1>9
  <2> HIDE DEF d
  <2>3. 1 \in 0 .. r  BY <1>9
  <2>4. Anc(n, 1) \in Sites /\ Anc(n, 1)[1] = r /\ Anc(n, 1)[2] = 1 /\ Anc(n, 1)[3] = t \div A
    BY <2>3, <1>4, AncIs
  <2>5. t \div A \in Nat /\ t \div A < A
    <3>1. Anc(n, 1)[3] < Width(r, 1) /\ Anc(n, 1)[3] \in Nat  BY <2>4, SiteIs
    <3>2. Width(r, 1) = A  BY <1>9, <1>4 DEF Width
    <3> QED BY <2>4, <3>1, <3>2
  <2>6. Slot(Anc(n, 1)) = t \div A  BY <2>4, <2>5, <1>7 DEF Slot
  <2> QED BY <1>3, <1>6, <1>9, <2>1, <2>2, <2>6 DEF Roots
<1>10. CASE r = 3
  <2> DEFINE d == n - TripleStart
  <2>1. Route(n) = [root |-> "tripleIndirect", path |-> <<d \div A2, (d \div A) % A>>, entry |-> d % A]
    BY <1>5, <1>10 DEF Route, A, A2
  <2>2. t = d  BY <1>1, <1>10
  <2> HIDE DEF d
  <2>3. 1 \in 0 .. r /\ 2 \in 0 .. r  BY <1>10
  <2>4. Anc(n, 1)[3] = t \div A /\ Anc(n, 2) \in Sites /\ Anc(n, 2)[1] = r /\ Anc(n, 2)[2] = 2 /\ Anc(n, 2)[3] = t \div A2
    BY <2>3, <1>4, AncIs
  <2>5. t \div A2 \in Nat /\ t \div A2 < A
    <3>1. Anc(n, 2)[3] < Width(r, 2) /\ Anc(n, 2)[3] \in Nat  BY <2>4, SiteIs
    <3>2. Width(r, 2) = A  BY <1>10, <1>4 DEF Width
    <3> QED BY <2>4, <3>1, <3>2
  <2>6. Slot(Anc(n, 2)) = t \div A2  BY <2>4, <2>5, <1>7 DEF Slot
  <2>7. Slot(Anc(n, 1)) = (t \div A) % A  BY <2>4 DEF Slot
  <2> QED BY <1>3, <1>6, <1>10, <2>1, <2>2, <2>6, <2>7 DEF Roots
<1> QED BY <1>3, <1>8, <1>9, <1>10

--------------------
(* The free blocks *)

\* A block that the allocator can hand out can be read and written.
LEMMA PoolIs ==
  /\ 0 \notin Pool /\ Pool \subseteq DataRegion /\ -1 \notin Pool /\ 0 \in Word /\ IsFiniteSet(Pool)
  /\ \A b \in Pool : b \in Nat /\ b > 0 /\ FirstDataBlock <= b /\ b < NUM_OF_DATA_BLOCKS
                     /\ INODE_BLOCK_COUNT < b /\ b < BLOCK_COUNT
  /\ FirstDataBlock \in Nat /\ NUM_OF_DATA_BLOCKS \in Nat /\ FirstDataBlock >= 1
<1>1. /\ BLOCK_COUNT \in Nat /\ INODE_BLOCK_COUNT \in Nat /\ NUM_OF_ADDRESSES_PER_BLOCK \in Nat \ {0}
      /\ NUM_OF_DATA_BLOCKS = BLOCK_COUNT - INODE_BLOCK_COUNT - 1 /\ INODE_BLOCK_COUNT < NUM_OF_DATA_BLOCKS
  BY DiskAssumption DEF NUM_OF_DATA_BLOCKS
<1>2. FirstDataBlock = INODE_BLOCK_COUNT + 1 /\ Pool = FirstDataBlock .. (NUM_OF_DATA_BLOCKS - 1)
      /\ DataRegion = FirstDataBlock .. (BLOCK_COUNT - 1)
  BY DEF FirstDataBlock, Pool, DataRegion
<1>3. FirstDataBlock \in Nat /\ NUM_OF_DATA_BLOCKS \in Nat /\ FirstDataBlock >= 1 /\ NUM_OF_DATA_BLOCKS < BLOCK_COUNT
  BY <1>1, <1>2
<1>4. \A b \in Pool : b \in Nat /\ b > 0 /\ FirstDataBlock <= b /\ b < NUM_OF_DATA_BLOCKS
                     /\ INODE_BLOCK_COUNT < b /\ b < BLOCK_COUNT
  BY <1>1, <1>2, <1>3
<1>5. IsFiniteSet(Pool)  BY <1>2, <1>3, FS_Interval
<1>6. Pool \subseteq DataRegion  BY <1>1, <1>2, <1>3
<1>7. 0 \in Word  BY <1>1 DEF Word
<1> QED BY <1>3, <1>4, <1>5, <1>6, <1>7

\* The free blocks are of the pool.
LEMMA FreeInPool ==
  ASSUME NEW f, NEW F, FreeIs(f, F)
  PROVE  F \subseteq Pool /\ f \in FileSystem
<1>1. f.maxAlloc \in FirstDataBlock .. NUM_OF_DATA_BLOCKS /\ f \in FileSystem  BY DEF FreeIs
<1>2. PICK c \in Seq(Pool) : F = Elements(c) \union (f.maxAlloc .. (NUM_OF_DATA_BLOCKS - 1))
  BY DEF FreeIs
<1>3. Elements(c) \subseteq Pool  BY DEF Elements
<1>4. f.maxAlloc .. (NUM_OF_DATA_BLOCKS - 1) \subseteq Pool  BY <1>1, PoolIs DEF Pool
<1> QED BY <1>1, <1>2, <1>3, <1>4

\* The state of the disk in its parts.
LEMMA DiskIs ==
  ASSUME NEW f \in FileSystem
  PROVE  /\ f.maxAlloc \in Int /\ f.freelist_head \in Int /\ f.blk \in [DataRegion -> [Word -> Int]]
         /\ \A b \in DataRegion : f.blk[b] \in [Word -> Int] /\ f.blk[b][0] \in Int
         /\ \A m \in Int : [f EXCEPT !.maxAlloc = m] \in FileSystem
              /\ [f EXCEPT !.maxAlloc = m].maxAlloc = m
              /\ [f EXCEPT !.maxAlloc = m].freelist_head = f.freelist_head
              /\ [f EXCEPT !.maxAlloc = m].blk = f.blk
         /\ \A h \in Int : [f EXCEPT !.freelist_head = h] \in FileSystem
              /\ [f EXCEPT !.freelist_head = h].maxAlloc = f.maxAlloc
              /\ [f EXCEPT !.freelist_head = h].freelist_head = h
              /\ [f EXCEPT !.freelist_head = h].blk = f.blk
         /\ \A bk \in [DataRegion -> [Word -> Int]] : [f EXCEPT !.blk = bk] \in FileSystem
              /\ [f EXCEPT !.blk = bk].maxAlloc = f.maxAlloc
              /\ [f EXCEPT !.blk = bk].freelist_head = f.freelist_head
              /\ [f EXCEPT !.blk = bk].blk = bk
<1>1. f.maxAlloc \in Int /\ f.freelist_head \in Int /\ f.blk \in [DataRegion -> [Word -> Int]]
  BY DEF FileSystem
<1>2. \A b \in DataRegion : f.blk[b] \in [Word -> Int] /\ f.blk[b][0] \in Int  BY <1>1, PoolIs
<1>3. ASSUME NEW m \in Int
      PROVE  /\ [f EXCEPT !.maxAlloc = m] \in FileSystem
              /\ [f EXCEPT !.maxAlloc = m].maxAlloc = m
              /\ [f EXCEPT !.maxAlloc = m].freelist_head = f.freelist_head
              /\ [f EXCEPT !.maxAlloc = m].blk = f.blk
  BY DEF FileSystem
<1>4. ASSUME NEW h \in Int
      PROVE  /\ [f EXCEPT !.freelist_head = h] \in FileSystem
              /\ [f EXCEPT !.freelist_head = h].maxAlloc = f.maxAlloc
              /\ [f EXCEPT !.freelist_head = h].freelist_head = h
              /\ [f EXCEPT !.freelist_head = h].blk = f.blk
  BY DEF FileSystem
<1>5. ASSUME NEW bk \in [DataRegion -> [Word -> Int]]
      PROVE  /\ [f EXCEPT !.blk = bk] \in FileSystem
              /\ [f EXCEPT !.blk = bk].maxAlloc = f.maxAlloc
              /\ [f EXCEPT !.blk = bk].freelist_head = f.freelist_head
              /\ [f EXCEPT !.blk = bk].blk = bk
  BY DEF FileSystem
<1> QED BY <1>1, <1>2, <1>3, <1>4, <1>5

\* An array of addresses.
Addresses(addr, D) == addr \in [D -> Int]

\* A block that is in use can be written.
LEMMA WriteOne ==
  ASSUME NEW f, NEW F, FreeIs(f, F), NEW b \in Pool, b \notin F, NEW buffer, Addresses(buffer, Word)
  PROVE  /\ FreeIs(write_data_block(f, b, buffer), F)
         /\ write_data_block(f, b, buffer).blk[b] = buffer
         /\ SameBut(f.blk, write_data_block(f, b, buffer).blk, {b})
<1> DEFINE bk == [f.blk EXCEPT ![b] = buffer]
           f2 == write_data_block(f, b, buffer)
           l  == [d \in DataRegion |-> f.blk[d][0]]
           l2 == [d \in DataRegion |-> bk[d][0]]
<1>1. f \in FileSystem /\ b \in DataRegion /\ buffer \in [Word -> Int]
  BY PoolIs, FreeInPool DEF Addresses
<1>2. bk \in [DataRegion -> [Word -> Int]] /\ bk[b] = buffer /\ \A d \in DataRegion \ {b} : bk[d] = f.blk[d]
  BY <1>1, DiskIs
<1>3. f2 = [f EXCEPT !.blk = bk]  BY <1>1 DEF write_data_block
<1> HIDE DEF bk, f2
<1>4. f2 \in FileSystem /\ f2.maxAlloc = f.maxAlloc /\ f2.freelist_head = f.freelist_head /\ f2.blk = bk
  BY <1>1, <1>2, <1>3, DiskIs
<1>5. PICK c \in Seq(Pool) :
       /\ Chain(l, f.freelist_head, c)
       /\ Elements(c) \subseteq FirstDataBlock .. (f.maxAlloc - 1)
       /\ F = Elements(c) \union (f.maxAlloc .. (NUM_OF_DATA_BLOCKS - 1))
       /\ \A d \in Elements(c) : \A w \in Word \ {0} : f.blk[d][w] = 0
  BY DEF FreeIs
<1>6. l2 = [l EXCEPT ![b] = buffer[0]]  BY <1>1, <1>2
<1>7. c \in Seq(DataRegion) /\ b \notin Elements(c) /\ Elements(c) \subseteq DataRegion
  BY <1>5, PoolIs DEF Elements
<1>8. Chain(l2, f.freelist_head, c)
  <2>1. DOMAIN l = DataRegion  OBVIOUS
  <2> HIDE DEF l, l2
  <2> QED BY <1>5, <1>6, <1>7, <2>1, ChainKept
<1>9. \A d \in Elements(c) : \A w \in Word \ {0} : bk[d][w] = 0  BY <1>2, <1>5, <1>7
<1>10. FreeIs(f2, F)
  <2>1. f2.maxAlloc \in FirstDataBlock .. NUM_OF_DATA_BLOCKS  BY <1>4 DEF FreeIs
  <2> QED BY <1>4, <1>5, <1>8, <1>9, <2>1 DEF FreeIs
<1> QED BY <1>2, <1>4, <1>10 DEF f2, SameBut, bk

\* The link of block b alone is another.
Relinked(word, word2, b, next) == word2 = [word EXCEPT ![b] = next]

\* A list of free blocks with a new head.
LEMMA PushOne ==
  ASSUME NEW word, DOMAIN word = DataRegion, NEW head, NEW c \in Seq(Pool), Chain(word, head, c),
         NEW b \in Pool, b \notin Elements(c), NEW word2, Relinked(word, word2, b, head)
  PROVE  \E e \in Seq(Pool) : Chain(word2, b, e) /\ Elements(e) = Elements(c) \union {b}
<1>1. c \in Seq(DataRegion) /\ b \in DataRegion /\ DOMAIN word = DataRegion  BY PoolIs
<1>2. PICK e \in Seq(DataRegion) :
        Chain([word EXCEPT ![b] = head], b, e) /\ Elements(e) = Elements(c) \union {b}
  BY <1>1, ChainPushed
<1>3. \A k \in 1 .. Len(e) : e[k] \in Pool
  <2>1. Elements(c) \subseteq Pool  BY DEF Elements
  <2> QED BY <1>2, <2>1 DEF Elements
<1>4. e \in Seq(Pool)  BY <1>3
<1> QED BY <1>2, <1>4 DEF Relinked

\* A block that is in use can be freed: it alone changes.
LEMMA FreeOne ==
  ASSUME NEW f, NEW F, FreeIs(f, F), NEW b \in Pool, b \notin F
  PROVE  /\ free_data_block(f, b).ok = TRUE
         /\ FreeIs(free_data_block(f, b).fs, F \union {b})
         /\ SameBut(f.blk, free_data_block(f, b).fs.blk, {b})
<1> DEFINE f2 == free_data_block(f, b).fs
           l  == [d \in DataRegion |-> f.blk[d][0]]
           l2 == [d \in DataRegion |-> f2.blk[d][0]]
<1>1. /\ f \in FileSystem /\ b \in DataRegion /\ b \in Nat /\ b > 0 /\ INODE_BLOCK_COUNT < b /\ b < BLOCK_COUNT
      /\ FirstDataBlock <= b /\ b < NUM_OF_DATA_BLOCKS /\ FirstDataBlock \in Nat /\ NUM_OF_DATA_BLOCKS \in Nat
      /\ INODE_BLOCK_COUNT \in Nat /\ BLOCK_COUNT \in Nat
  BY PoolIs, FreeInPool, DiskAssumption
<1>2. f.maxAlloc \in FirstDataBlock .. NUM_OF_DATA_BLOCKS  BY DEF FreeIs
<1>3. PICK c \in Seq(Pool) :
       /\ Chain(l, f.freelist_head, c)
       /\ Elements(c) \subseteq FirstDataBlock .. (f.maxAlloc - 1)
       /\ F = Elements(c) \union (f.maxAlloc .. (NUM_OF_DATA_BLOCKS - 1))
       /\ \A d \in Elements(c) : \A w \in Word \ {0} : f.blk[d][w] = 0
  BY DEF FreeIs
<1>4. c \in Seq(DataRegion) /\ b \notin Elements(c) /\ Elements(c) \subseteq Pool
  BY <1>3, PoolIs DEF Elements
<1>5. b < f.maxAlloc  BY <1>1, <1>2, <1>3
<1>6. ~(b <= INODE_BLOCK_COUNT \/ b > BLOCK_COUNT)  BY <1>1
<1>7. CASE b = f.maxAlloc - 1
  <2>1. free_data_block(f, b) = [fs |-> [f EXCEPT !.maxAlloc = f.maxAlloc - 1], ok |-> TRUE]
    BY <1>6, <1>7 DEF free_data_block
  <2>2. f.maxAlloc - 1 \in Int  BY <1>2, <1>1
  <2>3. f2 = [f EXCEPT !.maxAlloc = f.maxAlloc - 1] /\ free_data_block(f, b).ok = TRUE  BY <2>1
  <2> HIDE DEF f2
  <2>4. f2 \in FileSystem /\ f2.maxAlloc = b /\ f2.freelist_head = f.freelist_head /\ f2.blk = f.blk
    BY <1>1, <1>7, <2>2, <2>3, DiskIs
  <2>5. Elements(c) \subseteq FirstDataBlock .. (b - 1)  BY <1>1, <1>2, <1>3, <1>4, <1>7
  <2>6. F \union {b} = Elements(c) \union (b .. (NUM_OF_DATA_BLOCKS - 1))
    <3>1. b .. (NUM_OF_DATA_BLOCKS - 1) = {b} \union (f.maxAlloc .. (NUM_OF_DATA_BLOCKS - 1))
      BY <1>1, <1>2, <1>7
    <3> QED BY <1>3, <3>1
  <2>7. f2.maxAlloc \in FirstDataBlock .. NUM_OF_DATA_BLOCKS  BY <1>1, <2>4
  <2>8. FreeIs(f2, F \union {b})  BY <1>3, <2>4, <2>5, <2>6, <2>7 DEF FreeIs
  <2> QED BY <2>3, <2>4, <2>8 DEF f2, SameBut
<1>8. CASE b # f.maxAlloc - 1
  <2> DEFINE head == f.freelist_head
             g    == [f EXCEPT !.freelist_head = b]
             bk   == [f.blk EXCEPT ![b] = FreeBlock(head)]
  <2>1. free_data_block(f, b) = [fs |-> write_data_block(g, b, FreeBlock(head)), ok |-> TRUE]
    <3>1. b < BLOCK_COUNT  BY <1>1
    <3> QED BY <1>6, <1>8, <3>1 DEF free_data_block
  <2>2. head \in Int /\ FreeBlock(head) \in [Word -> Int]  BY <1>1, DiskIs DEF FreeBlock
  <2>3. g \in FileSystem /\ g.maxAlloc = f.maxAlloc /\ g.freelist_head = b /\ g.blk = f.blk
    BY <1>1, DiskIs
  <2>4. bk \in [DataRegion -> [Word -> Int]] /\ bk[b] = FreeBlock(head) /\ \A d \in DataRegion \ {b} : bk[d] = f.blk[d]
    BY <1>1, <2>2, DiskIs
  <2>5. f2 = [g EXCEPT !.blk = bk] /\ free_data_block(f, b).ok = TRUE
    BY <1>1, <2>1, <2>3 DEF write_data_block
  <2> HIDE DEF g, bk, f2, head
  <2>6. f2 \in FileSystem /\ f2.maxAlloc = f.maxAlloc /\ f2.freelist_head = b /\ f2.blk = bk
    BY <2>3, <2>4, <2>5, DiskIs
  <2>7. FreeBlock(head)[0] = head /\ \A w \in Word \ {0} : FreeBlock(head)[w] = 0
    BY PoolIs DEF FreeBlock
  <2>8. l2 = [l EXCEPT ![b] = head]  BY <1>1, <2>4, <2>6, <2>7
  <2>9. PICK e \in Seq(Pool) : Chain(l2, b, e) /\ Elements(e) = Elements(c) \union {b}
    <3>1. DOMAIN l = DataRegion /\ Chain(l, head, c)  BY <1>3 DEF head
    <3>2. Relinked(l, l2, b, head) /\ b \notin Elements(c)  BY <1>4, <2>8 DEF Relinked
    <3> HIDE DEF l, l2
    <3> QED BY <3>1, <3>2, PushOne
  <2>10. Elements(e) \subseteq FirstDataBlock .. (f.maxAlloc - 1)  BY <1>1, <1>2, <1>3, <1>5, <2>9
  <2>11. F \union {b} = Elements(e) \union (f.maxAlloc .. (NUM_OF_DATA_BLOCKS - 1))  BY <1>3, <2>9
  <2>12. \A d \in Elements(e) : \A w \in Word \ {0} : bk[d][w] = 0
    <3>1. \A d \in Elements(c) : d \in DataRegion \ {b}  BY <1>4, PoolIs
    <3>2. \A d \in Elements(c) : \A w \in Word \ {0} : bk[d][w] = 0  BY <1>3, <2>4, <3>1
    <3>3. \A w \in Word \ {0} : bk[b][w] = 0  BY <2>4, <2>7
    <3> QED BY <2>9, <3>2, <3>3
  <2>13. FreeIs(f2, F \union {b})
    <3>1. f2.maxAlloc \in FirstDataBlock .. NUM_OF_DATA_BLOCKS  BY <1>2, <2>6
    <3>2. Chain([d \in DataRegion |-> f2.blk[d][0]], f2.freelist_head, e)  BY <2>6, <2>9
    <3>3. Elements(e) \subseteq FirstDataBlock .. (f2.maxAlloc - 1)  BY <2>6, <2>10
    <3>4. F \union {b} = Elements(e) \union (f2.maxAlloc .. (NUM_OF_DATA_BLOCKS - 1))  BY <2>6, <2>11
    <3>5. \A d \in Elements(e) : \A w \in Word \ {0} : f2.blk[d][w] = 0  BY <2>6, <2>12
    <3> QED BY <2>6, <3>1, <3>2, <3>3, <3>4, <3>5 DEF FreeIs
  <2> QED BY <2>4, <2>5, <2>6, <2>13 DEF f2, SameBut
<1> QED BY <1>7, <1>8

\* A block is handed out while there is one.
LEMMA AllocOne ==
  ASSUME NEW f, NEW F, FreeIs(f, F)
  PROVE  /\ F = {} <=> NoBlockLeft(f)
         /\ F = {} => allocate_data_block(f) = [fs |-> f, ret |-> -1]
         /\ F # {} => LET new == allocate_data_block(f)
                      IN  /\ new.ret \in F /\ FreeIs(new.fs, F \ {new.ret})
                          /\ SameBut(f.blk, new.fs.blk, {new.ret})
                          /\ \A w \in Word \ {0} : new.fs.blk[new.ret][w] = 0
                          /\ F \ {new.ret} = {} => new.fs.blk[new.ret][0] = 0
<1> DEFINE l  == [d \in DataRegion |-> f.blk[d][0]]
           new == allocate_data_block(f)
           head == f.freelist_head
           N == NUM_OF_DATA_BLOCKS
<1>1. f \in FileSystem /\ FirstDataBlock \in Nat /\ N \in Nat /\ f.maxAlloc \in FirstDataBlock .. N
  BY PoolIs, FreeInPool DEF FreeIs
<1>2. PICK c \in Seq(Pool) :
       /\ Chain(l, head, c)
       /\ Elements(c) \subseteq FirstDataBlock .. (f.maxAlloc - 1)
       /\ F = Elements(c) \union (f.maxAlloc .. (N - 1))
       /\ \A d \in Elements(c) : \A w \in Word \ {0} : f.blk[d][w] = 0
  BY DEF FreeIs
<1>3. c \in Seq(DataRegion) /\ Elements(c) \subseteq Pool /\ 0 \notin DataRegion
  <2>1. c \in Seq(DataRegion)  BY PoolIs
  <2>3. 0 \notin DataRegion  BY PoolIs DEF DataRegion
  <2>2. Elements(c) \subseteq Pool  BY DEF Elements
  <2> QED BY <2>1, <2>2, <2>3
<1>4. head # 0 => head \in Elements(c)  BY <1>2, <1>3, ChainPopped
<1>5. head = 0 => Elements(c) = {}
  <2>1. head = 0 => Len(c) = 0
    <3>1. Len(c) \in Nat /\ (Len(c) # 0 => head = c[Len(c)] /\ c[Len(c)] \in DataRegion)
      BY <1>2, <1>3 DEF Chain
    <3> QED BY <1>3, <3>1
  <2> QED BY <2>1 DEF Elements
<1>6. F = {} <=> NoBlockLeft(f)
  <2>1. f.maxAlloc .. (N - 1) = {} <=> f.maxAlloc = N  BY <1>1
  <2> QED BY <1>2, <1>4, <1>5, <2>1 DEF NoBlockLeft
<1>7. CASE NoBlockLeft(f)
  BY <1>6, <1>7 DEF allocate_data_block
<1>8. CASE ~NoBlockLeft(f) /\ f.maxAlloc # N
  <2> DEFINE m == f.maxAlloc
             bk == [f.blk EXCEPT ![m] = ZeroBlock]
             g == [f EXCEPT !.maxAlloc = m + 1]
  <2>1. new = [fs |-> [f EXCEPT !.maxAlloc = m + 1, !.blk = bk], ret |-> m]
    BY <1>8 DEF allocate_data_block
  <2>2. m \in Pool /\ m \in DataRegion /\ m + 1 \in Int /\ m + 1 \in FirstDataBlock .. N
    BY <1>1, <1>8, PoolIs DEF Pool
  <2>3. ZeroBlock \in [Word -> Int] /\ \A w \in Word : ZeroBlock[w] = 0  BY DEF ZeroBlock
  <2>4. bk \in [DataRegion -> [Word -> Int]] /\ bk[m] = ZeroBlock /\ \A d \in DataRegion \ {m} : bk[d] = f.blk[d]
    BY <1>1, <2>2, <2>3, DiskIs
  <2>5. g \in FileSystem /\ g.maxAlloc = m + 1 /\ g.freelist_head = head /\ g.blk = f.blk
    BY <1>1, <2>2, DiskIs
  <2>6. new.ret = m /\ new.fs = [g EXCEPT !.blk = bk]  BY <2>1
  <2> HIDE DEF new, g, bk, m
  <2>7. new.fs \in FileSystem /\ new.fs.maxAlloc = m + 1 /\ new.fs.freelist_head = head /\ new.fs.blk = bk
    BY <2>4, <2>5, <2>6, DiskIs
  <2>8. m \notin Elements(c) /\ m \in F  BY <1>1, <1>2, <2>2 DEF m
  <2>9. F \ {m} = Elements(c) \union ((m + 1) .. (N - 1))
    <3>1. (f.maxAlloc .. (N - 1)) \ {m} = (m + 1) .. (N - 1)  BY <1>1 DEF m
    <3> QED BY <1>2, <2>8, <3>1
  <2>10. [d \in DataRegion |-> bk[d][0]] = [l EXCEPT ![m] = 0]  BY <2>2, <2>3, <2>4, PoolIs
  <2>11. Chain([d \in DataRegion |-> bk[d][0]], head, c)
    <3>1. DOMAIN l = DataRegion  OBVIOUS
    <3> HIDE DEF l
    <3>2. Chain([l EXCEPT ![m] = 0], head, c)  BY <1>2, <1>3, <2>8, <3>1, ChainKept
    <3> QED BY <2>10, <3>2
  <2>12. Elements(c) \subseteq FirstDataBlock .. ((m + 1) - 1)  BY <1>1, <1>2 DEF m
  <2>13. \A d \in Elements(c) : \A w \in Word \ {0} : bk[d][w] = 0  BY <1>2, <1>3, <2>4, <2>8, PoolIs
  <2>14. FreeIs(new.fs, F \ {m})  BY <2>2, <2>7, <2>9, <2>11, <2>12, <2>13 DEF FreeIs
  <2>15. SameBut(f.blk, new.fs.blk, {m})  BY <2>4, <2>7 DEF SameBut
  <2>16. new.fs.blk[m] = ZeroBlock  BY <2>4, <2>7
  <2> QED BY <1>6, <1>8, <2>3, <2>6, <2>8, <2>14, <2>15, <2>16, PoolIs DEF new
<1>9. CASE ~NoBlockLeft(f) /\ f.maxAlloc = N
  <2> DEFINE next == f.blk[head][0]
  <2>1. new = [fs |-> [f EXCEPT !.freelist_head = next], ret |-> head]  BY <1>9 DEF allocate_data_block
  <2>2. head # 0 /\ head \in Elements(c) /\ head \in DataRegion /\ head \in Pool
    <3>1. head # 0  BY <1>9 DEF NoBlockLeft
    <3> QED BY <3>1, <1>4, <1>3, PoolIs
  <2>3. next \in Int /\ l[head] = next  BY <1>1, <2>2, DiskIs
  <2>4. new.ret = head /\ new.fs = [f EXCEPT !.freelist_head = next]  BY <2>1
  <2> HIDE DEF new, next
  <2>5. new.fs \in FileSystem /\ new.fs.maxAlloc = N /\ new.fs.freelist_head = next /\ new.fs.blk = f.blk
    BY <1>1, <1>9, <2>3, <2>4, DiskIs
  <2>6. PICK d \in Seq(Pool) : Chain(l, next, d) /\ Elements(d) = Elements(c) \ {head}
    <3> HIDE DEF l, head
    <3>1. \E d \in Seq(Pool) : Chain(l, l[head], d) /\ Elements(d) = Elements(c) \ {head}
      <4>1. 0 \notin Pool /\ head # 0 /\ Chain(l, head, c)  BY <1>2, <2>2, PoolIs
      <4> QED BY <4>1, ChainPopped
    <3> QED BY <2>3, <3>1
  <2>7. f.maxAlloc .. (N - 1) = {} /\ N .. (N - 1) = {}  BY <1>1, <1>9
  <2>8. FreeIs(new.fs, F \ {head})
    <3>1. F \ {head} = Elements(d) \union (N .. (N - 1))  BY <1>2, <2>6, <2>7
    <3>2. Elements(d) \subseteq FirstDataBlock .. (N - 1)  BY <1>2, <1>9, <2>6
    <3>3. N \in FirstDataBlock .. N  BY <1>1, <1>9
    <3>4. \A b \in Elements(d) : \A w \in Word \ {0} : f.blk[b][w] = 0  BY <1>2, <2>6
    <3>5. Chain([b \in DataRegion |-> new.fs.blk[b][0]], new.fs.freelist_head, d)  BY <2>5, <2>6
    <3> QED BY <2>5, <3>1, <3>2, <3>3, <3>4, <3>5 DEF FreeIs
  <2>9. F \ {head} = {} => next = 0
    <3>1. F \ {head} = {} => Elements(d) = {}  BY <1>2, <2>6
    <3>2. Elements(d) = {} => Len(d) = 0
      <4>1. Len(d) \in Nat  OBVIOUS
      <4>2. Len(d) # 0 => 1 \in 1 .. Len(d)  BY <4>1
      <4> QED BY <4>2 DEF Elements
    <3> QED BY <3>1, <3>2, <2>6 DEF Chain
  <2>10. new.fs.blk[head][0] = next  BY <2>5 DEF next
  <2> QED BY <1>2, <1>6, <1>9, <2>2, <2>4, <2>5, <2>8, <2>9, <2>10 DEF new, SameBut
<1> QED BY <1>7, <1>8, <1>9

--------------------
(* Folds *)

\* The rounds of the loops, p holding what does not change in them.
FreeNested(h, f, b) ==
  IF h = 1 THEN free_data_block(f, b).fs ELSE IF h = 2 THEN Nested1(f, b) ELSE Nested2(f, b)

EntryRound(addr, st, k) ==
  LET freed == free_data_block(st.fs, addr[k])
  IN  IF ~st.ok THEN st
      ELSE [fs |-> freed.fs, ok |-> freed.ok,
            addr |-> IF freed.ok THEN [st.addr EXCEPT ![k] = 0] ELSE st.addr]

LeafRound(dind, d0, k0, st, j) ==
  LET from == IF j = d0 THEN k0 ELSE 0
  IN  IF ~st.ok \/ st.reached THEN st
      ELSE IF dind[j] <= 0 THEN [st EXCEPT !.ok = FALSE]
      ELSE PastBlock(FreeIf(TrimBlock(st, dind[j], from, st.end), from = 0, dind[j]), from)

TripleRound(tind, t0, d0, k0, st, i) ==
  LET first == IF i = t0 THEN d0 ELSE 0
  IN  IF ~st.ok \/ st.reached THEN st
      ELSE IF tind[i] <= 0 THEN [st EXCEPT !.ok = FALSE]
      ELSE FreeIf(TrimLeaves(st.fs, st.fs.blk[tind[i]], first, d0, k0, st.end),
                  first = 0, tind[i])

ReadRound(f, node, st, k) ==
  LET found == get_datablock_from_inode(f, node, k, st.prev)
  IN  [blocks |-> Append(st.blocks, found.block), prev |-> found.prev]

\* They are told apart by p.loop: the provers take no operator as a parameter of a lemma.
Round(p, st, k) ==
  IF p.loop = "nested" THEN FreeNested(p.h, st, p.seq[k])
  ELSE IF p.loop = "entries" THEN EntryRound(p.addr, st, p.from + k - 1)
  ELSE IF p.loop = "leaves" THEN LeafRound(p.dind, p.d0, p.k0, st, p.from + k - 1)
  ELSE IF p.loop = "triple" THEN TripleRound(p.tind, p.from, p.d0, p.k0, st, p.from + k - 1)
  ELSE IF p.loop = "roots" THEN DropRoot(st, p.seq[k])
  ELSE IF p.loop = "read" THEN ReadRound(p.f, p.node, st, p.from + k - 1)
  ELSE AppendBlock(st)

\* g is the function that a fold over 1 .. m goes through.
Folds(p, base, m, g) ==
  g = [s \in SUBSET (1 .. m) |->
         IF s = {} THEN base ELSE Round(p, g[s \ {Max(s)}], Max(s))]

\* The value of a fold over 1 .. m.
Folded(p, base, m) ==
  (CHOOSE g : Folds(p, base, m, g))[1 .. m]

\* A set with the greatest number n in it.
LEMMA Greatest ==
  ASSUME NEW n \in Int, NEW s \in SUBSET Int, n \in s, \A k \in s : k <= n
  PROVE  Max(s) = n
<1>1. \A x \in s : (\A y \in s : x >= y) => x = n  OBVIOUS
<1>2. \A y \in s : n >= y  OBVIOUS
<1> QED BY <1>1, <1>2 DEF Max

\* A part of 1 .. n that is not empty has its greatest number.
LEMMA MaxIn ==
  ASSUME NEW n \in Nat, NEW s \in SUBSET (1 .. n), s # {}
  PROVE  Max(s) \in s
<1> DEFINE T == {n - k : k \in s}
<1>1. T \in SUBSET Nat /\ T # {}
  <2>1. \A k \in s : k \in 1 .. n  OBVIOUS
  <2>2. \A k \in 1 .. n : n - k \in Nat  OBVIOUS
  <2>3. \A t \in T : t \in Nat  BY <2>1, <2>2
  <2>4. PICK k \in s : TRUE
    OBVIOUS
  <2>5. n - k \in T  OBVIOUS
  <2> QED BY <2>3, <2>5
<1>2. PICK t \in T : \A u \in T : t <= u
  BY <1>1, LeastNumber
<1>3. PICK k \in s : t = n - k
  BY <1>2
<1>4. \A j \in s : n - j \in T  OBVIOUS
<1>5. \A j \in s : k >= j  BY <1>2, <1>3, <1>4
<1> QED BY <1>5 DEF Max

\* Every fold has such a function.
LEMMA FoldExists ==
  ASSUME NEW p, NEW base, NEW N \in Nat
  PROVE  \E g : Folds(p, base, N, g)
<1> DEFINE S == {m \in 0 .. N : \E g : Folds(p, base, m, g)}
<1>1. 0 \in S
  <2> DEFINE g == [s \in SUBSET (1 .. 0) |-> base]
  <2>1. SUBSET (1 .. 0) = {{}}  OBVIOUS
  <2>2. g = [s \in SUBSET (1 .. 0) |->
               IF s = {} THEN base ELSE Round(p, g[s \ {Max(s)}], Max(s))]
    BY <2>1
  <2>3. Folds(p, base, 0, g)  BY <2>2 DEF Folds
  <2> HIDE DEF g
  <2>4. 0 \in 0 .. N  OBVIOUS
  <2> QED BY <2>3, <2>4
<1>2. ASSUME NEW m \in 0 .. (N - 1), m \in S PROVE m + 1 \in S
  <2>1. PICK g : Folds(p, base, m, g)
    BY <1>2
  <2> DEFINE h == [s \in SUBSET (1 .. (m + 1)) |->
                     IF m + 1 \in s THEN Round(p, g[s \ {m + 1}], m + 1) ELSE g[s]]
  <2>2. ASSUME NEW s \in SUBSET (1 .. (m + 1))
        PROVE  h[s] = IF s = {} THEN base ELSE Round(p, h[s \ {Max(s)}], Max(s))
    <3>1. CASE m + 1 \in s
      <4>1. Max(s) = m + 1  BY <3>1, Greatest
      <4>2. s \ {m + 1} \in SUBSET (1 .. (m + 1)) /\ m + 1 \notin s \ {m + 1}  OBVIOUS
      <4>3. h[s \ {m + 1}] = g[s \ {m + 1}]  BY <4>2
      <4>4. h[s] = Round(p, g[s \ {m + 1}], m + 1)  BY <3>1
      <4> HIDE DEF h
      <4> QED BY <3>1, <4>1, <4>3, <4>4
    <3>2. CASE m + 1 \notin s
      <4>1. s \in SUBSET (1 .. m) /\ s \ {Max(s)} \in SUBSET (1 .. (m + 1)) /\ m + 1 \notin s \ {Max(s)}
        <5>1. \A k \in s : k \in 1 .. (m + 1) /\ k # m + 1  BY <3>2
        <5>2. \A k \in 1 .. (m + 1) : k # m + 1 => k \in 1 .. m  OBVIOUS
        <5>3. s \in SUBSET (1 .. m)  BY <5>1, <5>2
        <5> QED BY <3>2, <5>3
      <4>2. h[s] = g[s] /\ h[s \ {Max(s)}] = g[s \ {Max(s)}]  BY <3>2, <4>1
      <4>3. g[s] = IF s = {} THEN base ELSE Round(p, g[s \ {Max(s)}], Max(s))  BY <2>1, <4>1 DEF Folds
      <4> HIDE DEF h
      <4> QED BY <4>2, <4>3
    <3> QED BY <3>1, <3>2
  <2>3. h = [s \in SUBSET (1 .. (m + 1)) |-> h[s]]  OBVIOUS
  <2> HIDE DEF h
  <2>4. h = [s \in SUBSET (1 .. (m + 1)) |->
               IF s = {} THEN base ELSE Round(p, h[s \ {Max(s)}], Max(s))]
    BY <2>2, <2>3
  <2>5. Folds(p, base, m + 1, h)  BY <2>4 DEF Folds
  <2>6. m + 1 \in 0 .. N  OBVIOUS
  <2> QED BY <2>5, <2>6
<1> HIDE DEF S
<1>3. \A m \in 0 .. N : m \in S  BY <1>1, <1>2, Induction
<1>4. N \in S  BY <1>3
<1> QED BY <1>4 DEF S

\* What a fold has after k rounds.
LEMMA FoldRounds ==
  ASSUME NEW p, NEW base, NEW m \in Nat, NEW g, Folds(p, base, m, g)
  PROVE  /\ g[1 .. 0] = base
         /\ \A k \in 1 .. m : g[1 .. k] = Round(p, g[1 .. (k - 1)], k)
<1>1. g[1 .. 0] = base
  <2>1. 1 .. 0 = {} /\ {} \in SUBSET (1 .. m)  OBVIOUS
  <2> QED BY <2>1 DEF Folds
<1>2. ASSUME NEW k \in 1 .. m PROVE g[1 .. k] = Round(p, g[1 .. (k - 1)], k)
  <2>1. 1 .. k \in SUBSET (1 .. m) /\ 1 .. k # {}  OBVIOUS
  <2>2. Max(1 .. k) = k
    <3>1. k \in Int /\ 1 .. k \in SUBSET Int /\ k \in 1 .. k /\ \A n \in 1 .. k : n <= k  OBVIOUS
    <3> QED BY <3>1, Greatest
  <2>3. (1 .. k) \ {k} = 1 .. (k - 1)  OBVIOUS
  <2> QED BY <2>1, <2>2, <2>3 DEF Folds
<1> QED BY <1>1, <1>2

\* A longer fold goes through the values of a shorter one.
LEMMA FoldPrefix ==
  ASSUME NEW p, NEW base, NEW n \in Nat, NEW m \in 0 .. n,
         NEW g, NEW h, Folds(p, base, m, g), Folds(p, base, n, h)
  PROVE  h[1 .. m] = g[1 .. m]
<1> DEFINE S == {k \in 0 .. m : h[1 .. k] = g[1 .. k]}
<1>1. /\ g[1 .. 0] = base
      /\ \A k \in 1 .. m : g[1 .. k] = Round(p, g[1 .. (k - 1)], k)
  BY FoldRounds
<1>2. /\ h[1 .. 0] = base
      /\ \A k \in 1 .. n : h[1 .. k] = Round(p, h[1 .. (k - 1)], k)
  BY FoldRounds
<1>3. 0 \in S  BY <1>1, <1>2
<1>4. ASSUME NEW k \in 0 .. (m - 1), k \in S PROVE k + 1 \in S
  <2>1. k + 1 \in 1 .. m /\ k + 1 \in 1 .. n /\ (k + 1) - 1 = k /\ k + 1 \in 0 .. m  OBVIOUS
  <2>2. h[1 .. k] = g[1 .. k]  BY <1>4
  <2>3. h[1 .. (k + 1)] = Round(p, h[1 .. k], k + 1)  BY <1>2, <2>1
  <2>4. g[1 .. (k + 1)] = Round(p, g[1 .. k], k + 1)  BY <1>1, <2>1
  <2> QED BY <2>1, <2>2, <2>3, <2>4
<1> HIDE DEF S
<1>5. \A k \in 0 .. m : k \in S  BY <1>3, <1>4, Induction
<1> QED BY <1>5 DEF S

\* Whatever function of the fold is taken, its value is the one.
LEMMA FoldValue ==
  ASSUME NEW p, NEW base, NEW m \in Nat, NEW g, Folds(p, base, m, g)
  PROVE  g[1 .. m] = Folded(p, base, m)
<1>1. Folds(p, base, m, CHOOSE f : Folds(p, base, m, f))  BY FoldExists
<1>2. m \in 0 .. m  OBVIOUS
<1> QED BY <1>1, <1>2, FoldPrefix DEF Folded

\* One round after the other.
LEMMA FoldStep ==
  ASSUME NEW p, NEW base
  PROVE  /\ Folded(p, base, 0) = base
         /\ \A m \in Nat : Folded(p, base, m + 1) = Round(p, Folded(p, base, m), m + 1)
<1>1. Folded(p, base, 0) = base
  <2>1. PICK g : Folds(p, base, 0, g)
    BY FoldExists
  <2>2. 0 \in Nat  OBVIOUS
  <2>3. g[1 .. 0] = base  BY <2>1, <2>2, FoldRounds
  <2>4. g[1 .. 0] = Folded(p, base, 0)  BY <2>1, <2>2, FoldValue
  <2> QED BY <2>3, <2>4
<1>2. ASSUME NEW m \in Nat PROVE Folded(p, base, m + 1) = Round(p, Folded(p, base, m), m + 1)
  <2>1. PICK g : Folds(p, base, m, g)
    BY FoldExists
  <2>2. m + 1 \in Nat /\ m \in 0 .. (m + 1) /\ m + 1 \in 1 .. (m + 1) /\ (m + 1) - 1 = m  OBVIOUS
  <2>3. PICK h : Folds(p, base, m + 1, h)
    BY <2>2, FoldExists
  <2>4. h[1 .. m] = g[1 .. m]  BY <2>1, <2>2, <2>3, FoldPrefix
  <2>5. h[1 .. (m + 1)] = Round(p, h[1 .. m], m + 1)
    <3>1. \A k \in 1 .. (m + 1) : h[1 .. k] = Round(p, h[1 .. (k - 1)], k)  BY <2>2, <2>3, FoldRounds
    <3> QED BY <2>2, <3>1
  <2>6. g[1 .. m] = Folded(p, base, m)  BY <2>1, FoldValue
  <2>7. h[1 .. (m + 1)] = Folded(p, base, m + 1)  BY <2>2, <2>3, FoldValue
  <2> QED BY <2>4, <2>5, <2>6, <2>7
<1> QED BY <1>1, <1>2

--------------------
(* The loops are such folds *)

NestedLoop(h, seq) == [loop |-> "nested", h |-> h, seq |-> seq]

\* The loop over the entries of a block of addresses.
LEMMA NestedFold1 ==
  ASSUME NEW f0, NEW p, ~(p <= 0), NEW n \in Nat, DOMAIN UntilZero(f0.blk[p]) = 1 .. n
  PROVE  Nested1(f0, p) = free_data_block(Folded(NestedLoop(1, UntilZero(f0.blk[p])), f0, n), p).fs
<1> DEFINE sq == UntilZero(f0.blk[p])
           q == NestedLoop(1, sq)
           Fun(f) == f = [s \in SUBSET DOMAIN sq |-> IF s = {} THEN f0 ELSE free_data_block(f[s \ {Max(s)}], sq[Max(s)]).fs]
<1>1. Nested1(f0, p) = free_data_block((CHOOSE f : Fun(f))[DOMAIN sq], p).fs
  BY DEF Nested1, FreeBelow, FoldLeft, MapThenFoldSet
<1>a. DOMAIN sq = 1 .. n  OBVIOUS
<1> HIDE DEF sq
<1>2. PICK g : Folds(q, f0, n, g)
  BY FoldExists
<1>3. ASSUME NEW f, NEW s \in SUBSET (1 .. n)
      PROVE  (IF s = {} THEN f0 ELSE Round(q, f[s \ {Max(s)}], Max(s)))
           = IF s = {} THEN f0 ELSE free_data_block(f[s \ {Max(s)}], sq[Max(s)]).fs
  <2>1. CASE s = {}
    BY <2>1
  <2>2. CASE s # {}
    <3>1. Max(s) \in 1 .. n  BY <2>2, MaxIn
    <3>2. Max(s) \in DOMAIN sq  BY <3>1, <1>a
    <3>3. q.loop = "nested" /\ q.h = 1 /\ q.seq = sq  BY DEF NestedLoop
    <3> HIDE DEF q
    <3>4. "nested" # "entries" /\ "nested" # "leaves" /\ "nested" # "triple" /\ "nested" # "roots" /\ "nested" # "read"
      OBVIOUS
    <3>5. Round(q, f[s \ {Max(s)}], Max(s)) = free_data_block(f[s \ {Max(s)}], sq[Max(s)]).fs
      BY <3>2, <3>3, <3>4 DEF Round, FreeNested
    <3> QED BY <2>2, <3>5
  <2> QED BY <2>1, <2>2
<1> HIDE DEF q
<1>4. ASSUME NEW f PROVE Fun(f) <=> Folds(q, f0, n, f)
  BY <1>3, <1>a DEF Folds
<1> HIDE DEF Fun
<1>5. Fun(g)  BY <1>2, <1>4
<1>6. Fun(CHOOSE f : Fun(f))  BY <1>5
<1>7. Folds(q, f0, n, CHOOSE f : Fun(f))  BY <1>4, <1>6
<1> QED BY <1>1, <1>7, <1>a, FoldValue DEF q, sq

\* Of a double indirect block.
LEMMA NestedFold2 ==
  ASSUME NEW f0, NEW sq, NEW n \in Nat, DOMAIN sq = 1 .. n
  PROVE  FoldLeft(Nested1, f0, sq) = Folded(NestedLoop(2, sq), f0, n)
<1> DEFINE q == NestedLoop(2, sq)
           Fun(f) == f = [s \in SUBSET DOMAIN sq |-> IF s = {} THEN f0 ELSE Nested1(f[s \ {Max(s)}], sq[Max(s)])]
<1>1. FoldLeft(Nested1, f0, sq) = (CHOOSE f : Fun(f))[DOMAIN sq]  BY DEF FoldLeft, MapThenFoldSet
<1>2. PICK g : Folds(q, f0, n, g)
  BY FoldExists
<1>3. ASSUME NEW f, NEW s \in SUBSET (1 .. n)
      PROVE  (IF s = {} THEN f0 ELSE Round(q, f[s \ {Max(s)}], Max(s)))
           = IF s = {} THEN f0 ELSE Nested1(f[s \ {Max(s)}], sq[Max(s)])
  <2>1. CASE s = {}
    BY <2>1
  <2>2. CASE s # {}
    <3>1. Max(s) \in 1 .. n  BY <2>2, MaxIn
    <3>2. Max(s) \in DOMAIN sq  BY <3>1
    <3>3. q.loop = "nested" /\ q.h = 2 /\ q.seq = sq  BY DEF NestedLoop
    <3> HIDE DEF q
    <3>4. "nested" # "entries" /\ "nested" # "leaves" /\ "nested" # "triple" /\ "nested" # "roots" /\ "nested" # "read"
      OBVIOUS
    <3>5. Round(q, f[s \ {Max(s)}], Max(s)) = Nested1(f[s \ {Max(s)}], sq[Max(s)])
      BY <3>2, <3>3, <3>4 DEF Round, FreeNested
    <3> QED BY <2>2, <3>5
  <2> QED BY <2>1, <2>2
<1> HIDE DEF q
<1>4. ASSUME NEW f PROVE Fun(f) <=> Folds(q, f0, n, f)
  BY <1>3 DEF Folds
<1> HIDE DEF Fun
<1>5. Fun(g)  BY <1>2, <1>4
<1>6. Fun(CHOOSE f : Fun(f))  BY <1>5
<1>7. Folds(q, f0, n, CHOOSE f : Fun(f))  BY <1>4, <1>6
<1> QED BY <1>1, <1>7, FoldValue DEF q

\* Of a triple indirect block.
LEMMA NestedFold3 ==
  ASSUME NEW f0, NEW sq, NEW n \in Nat, DOMAIN sq = 1 .. n
  PROVE  FoldLeft(Nested2, f0, sq) = Folded(NestedLoop(3, sq), f0, n)
<1> DEFINE q == NestedLoop(3, sq)
           Fun(f) == f = [s \in SUBSET DOMAIN sq |-> IF s = {} THEN f0 ELSE Nested2(f[s \ {Max(s)}], sq[Max(s)])]
<1>1. FoldLeft(Nested2, f0, sq) = (CHOOSE f : Fun(f))[DOMAIN sq]  BY DEF FoldLeft, MapThenFoldSet
<1>2. PICK g : Folds(q, f0, n, g)
  BY FoldExists
<1>3. ASSUME NEW f, NEW s \in SUBSET (1 .. n)
      PROVE  (IF s = {} THEN f0 ELSE Round(q, f[s \ {Max(s)}], Max(s)))
           = IF s = {} THEN f0 ELSE Nested2(f[s \ {Max(s)}], sq[Max(s)])
  <2>1. CASE s = {}
    BY <2>1
  <2>2. CASE s # {}
    <3>1. Max(s) \in 1 .. n  BY <2>2, MaxIn
    <3>2. Max(s) \in DOMAIN sq  BY <3>1
    <3>3. q.loop = "nested" /\ q.h = 3 /\ q.seq = sq  BY DEF NestedLoop
    <3> HIDE DEF q
    <3>4. "nested" # "entries" /\ "nested" # "leaves" /\ "nested" # "triple" /\ "nested" # "roots" /\ "nested" # "read"
      OBVIOUS
    <3>5. Round(q, f[s \ {Max(s)}], Max(s)) = Nested2(f[s \ {Max(s)}], sq[Max(s)])
      BY <3>2, <3>3, <3>4 DEF Round, FreeNested
    <3> QED BY <2>2, <3>5
  <2> QED BY <2>1, <2>2
<1> HIDE DEF q
<1>4. ASSUME NEW f PROVE Fun(f) <=> Folds(q, f0, n, f)
  BY <1>3 DEF Folds
<1> HIDE DEF Fun
<1>5. Fun(g)  BY <1>2, <1>4
<1>6. Fun(CHOOSE f : Fun(f))  BY <1>5
<1>7. Folds(q, f0, n, CHOOSE f : Fun(f))  BY <1>4, <1>6
<1> QED BY <1>1, <1>7, FoldValue DEF q

EntriesLoop(addr, from) == [loop |-> "entries", addr |-> addr, from |-> from]

\* The loop of FreeEntries.
LEMMA EntriesFold ==
  ASSUME NEW f0, NEW addr, NEW from, NEW upto, NEW n \in Nat, n = IF upto > from THEN upto - from ELSE 0
  PROVE  FreeEntries(f0, addr, from, upto) = Folded(EntriesLoop(addr, from), [fs |-> f0, addr |-> addr, ok |-> TRUE], n)
<1> DEFINE q == EntriesLoop(addr, from)
           Fun(f) == f = [s \in SUBSET DOMAIN [k \in 1 .. (IF upto > from THEN upto - from ELSE 0) |-> from + k - 1] |-> IF s = {} THEN [fs |-> f0, addr |-> addr, ok |-> TRUE] ELSE EntryRound(addr, f[s \ {Max(s)}], [k \in 1 .. (IF upto > from THEN upto - from ELSE 0) |-> from + k - 1][Max(s)])]
<1>1. FreeEntries(f0, addr, from, upto) = (CHOOSE f : Fun(f))[DOMAIN [k \in 1 .. (IF upto > from THEN upto - from ELSE 0) |-> from + k - 1]]
  BY DEF FreeEntries, FoldLeft, MapThenFoldSet, EntryRound
<1>2. PICK g : Folds(q, [fs |-> f0, addr |-> addr, ok |-> TRUE], n, g)
  BY FoldExists
<1>3. ASSUME NEW f, NEW s \in SUBSET (1 .. n)
      PROVE  (IF s = {} THEN [fs |-> f0, addr |-> addr, ok |-> TRUE] ELSE Round(q, f[s \ {Max(s)}], Max(s)))
           = IF s = {} THEN [fs |-> f0, addr |-> addr, ok |-> TRUE] ELSE EntryRound(addr, f[s \ {Max(s)}], [k \in 1 .. (IF upto > from THEN upto - from ELSE 0) |-> from + k - 1][Max(s)])
  <2>1. CASE s = {}
    BY <2>1
  <2>2. CASE s # {}
    <3>1. Max(s) \in 1 .. n  BY <2>2, MaxIn
    <3>2. [k \in 1 .. (IF upto > from THEN upto - from ELSE 0) |-> from + k - 1][Max(s)] = from + Max(s) - 1
      BY <3>1
    <3>3. q.loop = "entries" /\ q.from = from /\ q.addr = addr  BY DEF EntriesLoop
    <3> HIDE DEF q
    <3>4. "entries" # "nested" /\ "entries" # "leaves" /\ "entries" # "triple" /\ "entries" # "roots" /\ "entries" # "read"
      OBVIOUS
    <3>5. Round(q, f[s \ {Max(s)}], Max(s)) = EntryRound(addr, f[s \ {Max(s)}], [k \in 1 .. (IF upto > from THEN upto - from ELSE 0) |-> from + k - 1][Max(s)])
      BY <3>2, <3>3, <3>4 DEF Round
    <3> QED BY <2>2, <3>5
  <2> QED BY <2>1, <2>2
<1> HIDE DEF q
<1>4. ASSUME NEW f PROVE Fun(f) <=> Folds(q, [fs |-> f0, addr |-> addr, ok |-> TRUE], n, f)
  BY <1>3 DEF Folds
<1> HIDE DEF Fun
<1>5. Fun(g)  BY <1>2, <1>4
<1>6. Fun(CHOOSE f : Fun(f))  BY <1>5
<1>7. Folds(q, [fs |-> f0, addr |-> addr, ok |-> TRUE], n, CHOOSE f : Fun(f))  BY <1>4, <1>6
<1> QED BY <1>1, <1>7, FoldValue DEF q

LeavesLoop(dind, first, d0, k0) == [loop |-> "leaves", dind |-> dind, from |-> first, d0 |-> d0, k0 |-> k0]

\* The loop over the entries of a double indirect block.
LEMMA LeavesFold ==
  ASSUME NEW f0, NEW dind, NEW first, NEW d0, NEW k0, NEW end0, NEW n \in Nat, n = A - first
  PROVE  TrimLeaves(f0, dind, first, d0, k0, end0) = Folded(LeavesLoop(dind, first, d0, k0), [fs |-> f0, end |-> end0, ok |-> TRUE, reached |-> FALSE], n)
<1> DEFINE q == LeavesLoop(dind, first, d0, k0)
           Fun(f) == f = [s \in SUBSET DOMAIN [k \in 1 .. (A - first) |-> first + k - 1] |-> IF s = {} THEN [fs |-> f0, end |-> end0, ok |-> TRUE, reached |-> FALSE] ELSE LeafRound(dind, d0, k0, f[s \ {Max(s)}], [k \in 1 .. (A - first) |-> first + k - 1][Max(s)])]
<1>1. TrimLeaves(f0, dind, first, d0, k0, end0) = (CHOOSE f : Fun(f))[DOMAIN [k \in 1 .. (A - first) |-> first + k - 1]]
  BY DEF TrimLeaves, FoldLeft, MapThenFoldSet, LeafRound, A, NUM_OF_SINGLE_INDIRECT_BLOCK_ADDR
<1>2. PICK g : Folds(q, [fs |-> f0, end |-> end0, ok |-> TRUE, reached |-> FALSE], n, g)
  BY FoldExists
<1>3. ASSUME NEW f, NEW s \in SUBSET (1 .. n)
      PROVE  (IF s = {} THEN [fs |-> f0, end |-> end0, ok |-> TRUE, reached |-> FALSE] ELSE Round(q, f[s \ {Max(s)}], Max(s)))
           = IF s = {} THEN [fs |-> f0, end |-> end0, ok |-> TRUE, reached |-> FALSE] ELSE LeafRound(dind, d0, k0, f[s \ {Max(s)}], [k \in 1 .. (A - first) |-> first + k - 1][Max(s)])
  <2>1. CASE s = {}
    BY <2>1
  <2>2. CASE s # {}
    <3>1. Max(s) \in 1 .. n  BY <2>2, MaxIn
    <3>2. [k \in 1 .. (A - first) |-> first + k - 1][Max(s)] = first + Max(s) - 1  BY <3>1
    <3>3. q.loop = "leaves" /\ q.from = first /\ q.dind = dind /\ q.d0 = d0 /\ q.k0 = k0
      BY DEF LeavesLoop
    <3> HIDE DEF q
    <3>4. "leaves" # "nested" /\ "leaves" # "entries" /\ "leaves" # "triple" /\ "leaves" # "roots" /\ "leaves" # "read"
      OBVIOUS
    <3>5. Round(q, f[s \ {Max(s)}], Max(s)) = LeafRound(dind, d0, k0, f[s \ {Max(s)}], [k \in 1 .. (A - first) |-> first + k - 1][Max(s)])
      BY <3>2, <3>3, <3>4 DEF Round
    <3> QED BY <2>2, <3>5
  <2> QED BY <2>1, <2>2
<1> HIDE DEF q
<1>4. ASSUME NEW f PROVE Fun(f) <=> Folds(q, [fs |-> f0, end |-> end0, ok |-> TRUE, reached |-> FALSE], n, f)
  BY <1>3 DEF Folds
<1> HIDE DEF Fun
<1>5. Fun(g)  BY <1>2, <1>4
<1>6. Fun(CHOOSE f : Fun(f))  BY <1>5
<1>7. Folds(q, [fs |-> f0, end |-> end0, ok |-> TRUE, reached |-> FALSE], n, CHOOSE f : Fun(f))
  BY <1>4, <1>6
<1> QED BY <1>1, <1>7, FoldValue DEF q

TripleLoop(tind, t0, d0, k0) == [loop |-> "triple", tind |-> tind, from |-> t0, d0 |-> d0, k0 |-> k0]

\* The loop over the entries of the triple indirect block.
LEMMA TripleFold ==
  ASSUME NEW f0, NEW tind, NEW t0, NEW d0, NEW k0, NEW end0, NEW n \in Nat, n = A - t0
  PROVE  TrimTriple(f0, tind, t0, d0, k0, end0) = Folded(TripleLoop(tind, t0, d0, k0), [fs |-> f0, end |-> end0, ok |-> TRUE, reached |-> FALSE], n)
<1> DEFINE q == TripleLoop(tind, t0, d0, k0)
           Fun(f) == f = [s \in SUBSET DOMAIN [k \in 1 .. (A - t0) |-> t0 + k - 1] |-> IF s = {} THEN [fs |-> f0, end |-> end0, ok |-> TRUE, reached |-> FALSE] ELSE TripleRound(tind, t0, d0, k0, f[s \ {Max(s)}], [k \in 1 .. (A - t0) |-> t0 + k - 1][Max(s)])]
<1>1. TrimTriple(f0, tind, t0, d0, k0, end0) = (CHOOSE f : Fun(f))[DOMAIN [k \in 1 .. (A - t0) |-> t0 + k - 1]]
  BY DEF TrimTriple, FoldLeft, MapThenFoldSet, TripleRound, A, NUM_OF_SINGLE_INDIRECT_BLOCK_ADDR
<1>2. PICK g : Folds(q, [fs |-> f0, end |-> end0, ok |-> TRUE, reached |-> FALSE], n, g)
  BY FoldExists
<1>3. ASSUME NEW f, NEW s \in SUBSET (1 .. n)
      PROVE  (IF s = {} THEN [fs |-> f0, end |-> end0, ok |-> TRUE, reached |-> FALSE] ELSE Round(q, f[s \ {Max(s)}], Max(s)))
           = IF s = {} THEN [fs |-> f0, end |-> end0, ok |-> TRUE, reached |-> FALSE] ELSE TripleRound(tind, t0, d0, k0, f[s \ {Max(s)}], [k \in 1 .. (A - t0) |-> t0 + k - 1][Max(s)])
  <2>1. CASE s = {}
    BY <2>1
  <2>2. CASE s # {}
    <3>1. Max(s) \in 1 .. n  BY <2>2, MaxIn
    <3>2. [k \in 1 .. (A - t0) |-> t0 + k - 1][Max(s)] = t0 + Max(s) - 1  BY <3>1
    <3>3. q.loop = "triple" /\ q.from = t0 /\ q.tind = tind /\ q.d0 = d0 /\ q.k0 = k0  BY DEF TripleLoop
    <3> HIDE DEF q
    <3>4. "triple" # "nested" /\ "triple" # "entries" /\ "triple" # "leaves" /\ "triple" # "roots" /\ "triple" # "read"
      OBVIOUS
    <3>5. Round(q, f[s \ {Max(s)}], Max(s)) = TripleRound(tind, t0, d0, k0, f[s \ {Max(s)}], [k \in 1 .. (A - t0) |-> t0 + k - 1][Max(s)])
      BY <3>2, <3>3, <3>4 DEF Round
    <3> QED BY <2>2, <3>5
  <2> QED BY <2>1, <2>2
<1> HIDE DEF q
<1>4. ASSUME NEW f PROVE Fun(f) <=> Folds(q, [fs |-> f0, end |-> end0, ok |-> TRUE, reached |-> FALSE], n, f)
  BY <1>3 DEF Folds
<1> HIDE DEF Fun
<1>5. Fun(g)  BY <1>2, <1>4
<1>6. Fun(CHOOSE f : Fun(f))  BY <1>5
<1>7. Folds(q, [fs |-> f0, end |-> end0, ok |-> TRUE, reached |-> FALSE], n, CHOOSE f : Fun(f))
  BY <1>4, <1>6
<1> QED BY <1>1, <1>7, FoldValue DEF q

RootsLoop(seq) == [loop |-> "roots", seq |-> seq]

\* The loop over the roots.
LEMMA RootsFold ==
  ASSUME NEW st0, NEW sq, NEW n \in Nat, DOMAIN sq = 1 .. n
  PROVE  FoldLeft(DropRoot, st0, sq) = Folded(RootsLoop(sq), st0, n)
<1> DEFINE q == RootsLoop(sq)
           Fun(f) == f = [s \in SUBSET DOMAIN sq |-> IF s = {} THEN st0 ELSE DropRoot(f[s \ {Max(s)}], sq[Max(s)])]
<1>1. FoldLeft(DropRoot, st0, sq) = (CHOOSE f : Fun(f))[DOMAIN sq]  BY DEF FoldLeft, MapThenFoldSet
<1>2. PICK g : Folds(q, st0, n, g)
  BY FoldExists
<1>3. ASSUME NEW f, NEW s \in SUBSET (1 .. n)
      PROVE  (IF s = {} THEN st0 ELSE Round(q, f[s \ {Max(s)}], Max(s)))
           = IF s = {} THEN st0 ELSE DropRoot(f[s \ {Max(s)}], sq[Max(s)])
  <2>1. CASE s = {}
    BY <2>1
  <2>2. CASE s # {}
    <3>1. Max(s) \in 1 .. n  BY <2>2, MaxIn
    <3>2. Max(s) \in DOMAIN sq  BY <3>1
    <3>3. q.loop = "roots" /\ q.seq = sq  BY DEF RootsLoop
    <3> HIDE DEF q
    <3>4. "roots" # "nested" /\ "roots" # "entries" /\ "roots" # "leaves" /\ "roots" # "triple" /\ "roots" # "read"
      OBVIOUS
    <3>5. Round(q, f[s \ {Max(s)}], Max(s)) = DropRoot(f[s \ {Max(s)}], sq[Max(s)])
      BY <3>2, <3>3, <3>4 DEF Round
    <3> QED BY <2>2, <3>5
  <2> QED BY <2>1, <2>2
<1> HIDE DEF q
<1>4. ASSUME NEW f PROVE Fun(f) <=> Folds(q, st0, n, f)
  BY <1>3 DEF Folds
<1> HIDE DEF Fun
<1>5. Fun(g)  BY <1>2, <1>4
<1>6. Fun(CHOOSE f : Fun(f))  BY <1>5
<1>7. Folds(q, st0, n, CHOOSE f : Fun(f))  BY <1>4, <1>6
<1> QED BY <1>1, <1>7, FoldValue DEF q

ReadLoop(f, node, n) == [loop |-> "read", f |-> f, node |-> node, from |-> n]

\* What fs_read goes through from block b on, in m rounds.
ReadOf(f, node, b, m) ==
  FoldLeft(LAMBDA st, k : LET found == get_datablock_from_inode(f, node, k, st.prev)
                          IN  [blocks |-> Append(st.blocks, found.block), prev |-> found.prev],
           [blocks |-> << >>, prev |-> 0], [k \in 1 .. m |-> b + k - 1])

\* The loop of fs_read.
LEMMA ReadFold ==
  ASSUME NEW f0, NEW node, NEW b, NEW m, NEW n \in Nat, n = m
  PROVE  ReadOf(f0, node, b, m) = Folded(ReadLoop(f0, node, b), [blocks |-> << >>, prev |-> 0], n)
<1> DEFINE q == ReadLoop(f0, node, b)
           Fun(f) == f = [s \in SUBSET DOMAIN [k \in 1 .. m |-> b + k - 1] |-> IF s = {} THEN [blocks |-> << >>, prev |-> 0] ELSE ReadRound(f0, node, f[s \ {Max(s)}], [k \in 1 .. m |-> b + k - 1][Max(s)])]
<1>1. ReadOf(f0, node, b, m) = (CHOOSE f : Fun(f))[DOMAIN [k \in 1 .. m |-> b + k - 1]]
  BY DEF ReadOf, FoldLeft, MapThenFoldSet, ReadRound
<1>2. PICK g : Folds(q, [blocks |-> << >>, prev |-> 0], n, g)
  BY FoldExists
<1>3. ASSUME NEW f, NEW s \in SUBSET (1 .. n)
      PROVE  (IF s = {} THEN [blocks |-> << >>, prev |-> 0] ELSE Round(q, f[s \ {Max(s)}], Max(s)))
           = IF s = {} THEN [blocks |-> << >>, prev |-> 0] ELSE ReadRound(f0, node, f[s \ {Max(s)}], [k \in 1 .. m |-> b + k - 1][Max(s)])
  <2>1. CASE s = {}
    BY <2>1
  <2>2. CASE s # {}
    <3>1. Max(s) \in 1 .. n  BY <2>2, MaxIn
    <3>2. [k \in 1 .. m |-> b + k - 1][Max(s)] = b + Max(s) - 1  BY <3>1
    <3>3. q.loop = "read" /\ q.from = b /\ q.f = f0 /\ q.node = node  BY DEF ReadLoop
    <3> HIDE DEF q
    <3>4. "read" # "nested" /\ "read" # "entries" /\ "read" # "leaves" /\ "read" # "triple" /\ "read" # "roots"
      OBVIOUS
    <3>5. Round(q, f[s \ {Max(s)}], Max(s)) = ReadRound(f0, node, f[s \ {Max(s)}], [k \in 1 .. m |-> b + k - 1][Max(s)])
      BY <3>2, <3>3, <3>4 DEF Round
    <3> QED BY <2>2, <3>5
  <2> QED BY <2>1, <2>2
<1> HIDE DEF q
<1>4. ASSUME NEW f PROVE Fun(f) <=> Folds(q, [blocks |-> << >>, prev |-> 0], n, f)
  BY <1>3 DEF Folds
<1> HIDE DEF Fun
<1>5. Fun(g)  BY <1>2, <1>4
<1>6. Fun(CHOOSE f : Fun(f))  BY <1>5
<1>7. Folds(q, [blocks |-> << >>, prev |-> 0], n, CHOOSE f : Fun(f))  BY <1>4, <1>6
<1> QED BY <1>1, <1>7, FoldValue DEF q

AppendLoop == [loop |-> "append"]

\* The loop of fs_write behind the end of the file.
LEMMA AppendFold ==
  ASSUME NEW st0, NEW m, NEW n \in Nat, n = m
  PROVE  FoldLeft(LAMBDA st, k : AppendBlock(st), st0, [k \in 1 .. m |-> k]) = Folded(AppendLoop, st0, n)
<1> DEFINE q == AppendLoop
           Fun(f) == f = [s \in SUBSET DOMAIN [k \in 1 .. m |-> k] |-> IF s = {} THEN st0 ELSE AppendBlock(f[s \ {Max(s)}])]
<1>1. FoldLeft(LAMBDA st, k : AppendBlock(st), st0, [k \in 1 .. m |-> k]) = (CHOOSE f : Fun(f))[DOMAIN [k \in 1 .. m |-> k]]
  BY DEF FoldLeft, MapThenFoldSet
<1>2. PICK g : Folds(q, st0, n, g)
  BY FoldExists
<1>3. ASSUME NEW f, NEW s \in SUBSET (1 .. n)
      PROVE  (IF s = {} THEN st0 ELSE Round(q, f[s \ {Max(s)}], Max(s)))
           = IF s = {} THEN st0 ELSE AppendBlock(f[s \ {Max(s)}])
  <2>1. CASE s = {}
    BY <2>1
  <2>2. CASE s # {}
    <3>1. Max(s) \in 1 .. n  BY <2>2, MaxIn
    <3>2. TRUE  BY <3>1
    <3>3. q.loop = "append"  BY DEF AppendLoop
    <3> HIDE DEF q
    <3>4. "append" # "nested" /\ "append" # "entries" /\ "append" # "leaves" /\ "append" # "triple" /\ "append" # "roots" /\ "append" # "read"
      OBVIOUS
    <3>5. Round(q, f[s \ {Max(s)}], Max(s)) = AppendBlock(f[s \ {Max(s)}])  BY <3>2, <3>3, <3>4 DEF Round
    <3> QED BY <2>2, <3>5
  <2> QED BY <2>1, <2>2
<1> HIDE DEF q
<1>4. ASSUME NEW f PROVE Fun(f) <=> Folds(q, st0, n, f)
  BY <1>3 DEF Folds
<1> HIDE DEF Fun
<1>5. Fun(g)  BY <1>2, <1>4
<1>6. Fun(CHOOSE f : Fun(f))  BY <1>5
<1>7. Folds(q, st0, n, CHOOSE f : Fun(f))  BY <1>4, <1>6
<1> QED BY <1>1, <1>7, FoldValue DEF q

--------------------
(* What is below a site *)

\* Data has nothing below it.
LEMMA BelowData ==
  ASSUME NEW q \in Sites, q[2] = 0
  PROVE  Below(q) = {q}
<1>1. ASSUME NEW p \in Below(q) PROVE p = q
  <2>1. p \in Sites /\ p[1] = q[1] /\ p[2] <= q[2] /\ First(q) <= First(p) /\ First(p) < First(q) + W(q[2])
    BY <1>1 DEF Below
  <2>2. p[2] = 0  BY <2>1, SiteIs
  <2> QED BY <2>1, <2>2, SitesApart
<1>2. q \in Below(q)  BY SiteIs DEF Below
<1> QED BY <1>1, <1>2

\* One entry more.
LEMMA UnderNext ==
  ASSUME NEW q \in Sites, q[2] # 0, NEW k \in Word
  PROVE  /\ Under(q, k + 1) = Under(q, k) \union Below(Kid(q, k))
         /\ Under(q, k) \intersect Below(Kid(q, k)) = {}
<1> DEFINE w == W(q[2] - 1)
           c == Kid(q, k)
<1>1. /\ c \in Sites /\ c[1] = q[1] /\ c[2] = q[2] - 1 /\ First(c) = First(q) + k * w
      /\ k * w \in Nat /\ w \in Nat /\ w >= 1 /\ q[2] \in 1 .. 3
  BY KidIs
<1>2. k \in Nat /\ First(q) \in Nat  BY Sizes, SiteIs
<1>3. (k + 1) * w = k * w + w  BY <1>1, <1>2
<1>4. \A p \in Sites : p[2] \in Nat /\ First(p) \in Nat  BY SiteIs
<1> HIDE DEF w, c
<1>5. Under(q, k) = {p \in Sites : p[1] = q[1] /\ p[2] < q[2] /\ First(q) <= First(p) /\ First(p) < First(c)}
  BY <1>1 DEF Under, w
<1>6. Under(q, k + 1) = {p \in Sites : p[1] = q[1] /\ p[2] < q[2] /\ First(q) <= First(p) /\ First(p) < First(c) + w}
  <2>1. First(q) + (k + 1) * W(q[2] - 1) = First(c) + w  BY <1>1, <1>2, <1>3 DEF w
  <2> QED BY <2>1 DEF Under
<1>7. Below(c) = {p \in Sites : p[1] = q[1] /\ p[2] <= q[2] - 1 /\ First(c) <= First(p) /\ First(p) < First(c) + w}
  BY <1>1 DEF Below, w
<1>8. First(q) <= First(c) /\ First(c) \in Nat  BY <1>1, <1>2
<1> DEFINE U == Under(q, k)
           V == Under(q, k + 1)
           B == Below(c)
<1>9. ASSUME NEW p \in Sites
      PROVE  (p \in V <=> p \in U \/ p \in B) /\ ~(p \in U /\ p \in B)
  <2>1. p[2] \in Nat /\ First(p) \in Nat /\ q[2] \in Nat  BY <1>1, <1>4
  <2>2. p[2] < q[2] <=> p[2] <= q[2] - 1  BY <2>1
  <2>3. p \in U <=> p[1] = q[1] /\ p[2] < q[2] /\ First(q) <= First(p) /\ First(p) < First(c)  BY <1>5
  <2>4. p \in V <=> p[1] = q[1] /\ p[2] < q[2] /\ First(q) <= First(p) /\ First(p) < First(c) + w
    BY <1>6
  <2>5. p \in B <=> p[1] = q[1] /\ p[2] < q[2] /\ First(c) <= First(p) /\ First(p) < First(c) + w
    BY <1>7, <2>2
  <2> HIDE DEF U, V, B
  <2> QED BY <2>1, <2>3, <2>4, <2>5, <1>8, <1>1, <1>2
<1>10. U \subseteq Sites /\ V \subseteq Sites /\ B \subseteq Sites  BY DEF Under, Below
<1> HIDE DEF U, V, B
<1>11. V = U \union B /\ U \intersect B = {}  BY <1>9, <1>10
<1> QED BY <1>11 DEF U, V, B, c

\* A site, and what is below its entries.
LEMMA BelowIs ==
  ASSUME NEW q \in Sites, q[2] # 0
  PROVE  /\ Below(q) = {q} \union Under(q, A) /\ q \notin Under(q, A) /\ Under(q, 0) = {}
         /\ q \in Below(q)
<1>1. W(q[2]) = W(q[2] - 1) * A /\ q[2] \in 1 .. 3 /\ W(q[2] - 1) \in Nat /\ A \in Nat
  <2>1. 0 \in Word  BY PoolIs
  <2> QED BY <2>1, KidIs, Sizes
<1>2. W(q[2]) = A * W(q[2] - 1)  BY <1>1
<1>3. Under(q, A) = {p \in Sites : p[1] = q[1] /\ p[2] < q[2] /\ First(q) <= First(p) /\ First(p) < First(q) + W(q[2])}
  BY <1>2 DEF Under
<1>4. ASSUME NEW p \in Below(q) PROVE p = q \/ p \in Under(q, A)
  <2>1. p \in Sites /\ p[1] = q[1] /\ p[2] <= q[2] /\ First(q) <= First(p) /\ First(p) < First(q) + W(q[2])
    BY <1>4 DEF Below
  <2>2. CASE p[2] = q[2]
    BY <2>1, <2>2, SitesApart
  <2>3. CASE p[2] # q[2]
    <3>1. p[2] < q[2]  BY <2>1, <2>3, <1>1, SiteIs
    <3> QED BY <2>1, <3>1, <1>3
  <2> QED BY <2>2, <2>3
<1>5. q \in Below(q)  BY SiteIs DEF Below
<1>6. Under(q, A) \subseteq Below(q) /\ q \notin Under(q, A)  BY <1>3, SiteIs, <1>1 DEF Below
<1>7. Under(q, 0) = {}
  <2>1. 0 * W(q[2] - 1) = 0  BY <1>1
  <2> QED BY <2>1, SiteIs DEF Under
<1> QED BY <1>4, <1>5, <1>6, <1>7

\* Which entry a site is below.
LEMMA UnderWhich ==
  ASSUME NEW q \in Sites, q[2] # 0, NEW p \in Under(q, A)
  PROVE  \E k \in Word : p \in Below(Kid(q, k)) /\ \A m \in 0 .. A : p \notin Under(q, m) => m <= k
<1> DEFINE w == W(q[2] - 1)
           d == First(p) - First(q)
           k == d \div w
<1>1. w \in Nat /\ w >= 1 /\ q[2] \in 1 .. 3 /\ A \in Nat
  <2>1. 0 \in Word  BY PoolIs
  <2> QED BY <2>1, KidIs, Sizes
<1>2. p \in Sites /\ p[1] = q[1] /\ p[2] < q[2] /\ First(q) <= First(p) /\ First(p) < First(q) + A * w
  BY DEF Under
<1>3. First(p) \in Nat /\ First(q) \in Nat /\ p[2] \in Nat  BY <1>2, SiteIs
<1>4. A * w \in Nat  BY <1>1
<1>5. d \in Nat /\ d < A * w  BY <1>2, <1>3, <1>4
<1> HIDE DEF w, d
<1>6. k \in Nat /\ k < A /\ k * w <= d /\ d < k * w + w  BY <1>1, <1>5, QuotientBelow
<1> HIDE DEF k
<1>7. k \in Word  BY <1>6, <1>1, Sizes
<1>8. /\ Kid(q, k) \in Sites /\ Kid(q, k)[1] = q[1] /\ Kid(q, k)[2] = q[2] - 1
      /\ First(Kid(q, k)) = First(q) + k * w /\ k * w \in Nat
  BY <1>7, KidIs DEF w
<1>9. p \in Below(Kid(q, k))
  <2>1. First(Kid(q, k)) <= First(p) /\ First(p) < First(Kid(q, k)) + w  BY <1>8, <1>6, <1>3, <1>1 DEF d
  <2>2. p[2] <= q[2] - 1  BY <1>2, <1>3, <1>1
  <2> QED BY <2>1, <2>2, <1>2, <1>8 DEF Below, w
<1>10. ASSUME NEW m \in 0 .. A, p \notin Under(q, m) PROVE m <= k
  <2> SUFFICES ASSUME k < m PROVE FALSE
    BY <1>6, <1>1
  <2>1. m = k + 1 + (m - k - 1) /\ m - k - 1 \in Nat  BY <1>6, <1>1
  <2>2. (k + 1) * w <= m * w /\ m * w \in Nat /\ (k + 1) * w = k * w + w
    <3> DEFINE e == m - k - 1
    <3>1. e \in Nat /\ m = k + 1 + e  BY <2>1
    <3> HIDE DEF e
    <3>2. e * w \in Nat /\ m * w = (k + 1) * w + e * w /\ (k + 1) * w \in Nat /\ (k + 1) * w = k * w + w
      BY <3>1, <1>1, <1>6
    <3> QED BY <3>2
  <2>3. First(p) < First(q) + m * w
    <3> DEFINE x == k * w
               y == m * w
    <3>1. x \in Nat /\ y \in Nat /\ x + w <= y /\ First(p) - First(q) < x + w  BY <2>2, <1>6, <1>8 DEF d
    <3> HIDE DEF x, y
    <3>2. First(p) < First(q) + y  BY <3>1, <1>1, <1>3
    <3> QED BY <3>2 DEF y
  <2> QED BY <2>3, <1>2, <1>10 DEF Under, w
<1> QED BY <1>7, <1>9, <1>10

--------------------
(* The blocks at the sites of a file: at is a function from the sites that *)
(* have a block to their blocks                                            *)

\* Blocks given up one after the other.
LEMMA FreedMore ==
  ASSUME NEW f, NEW F, NEW f2, NEW X, NEW f3, NEW Y, Freed(f, F, f2, X), Freed(f2, F \union X, f3, Y)
  PROVE  Freed(f, F, f3, X \union Y)
<1>1. FreeIs(f3, (F \union X) \union Y)  BY DEF Freed
<1>2. (F \union X) \union Y = F \union (X \union Y)  OBVIOUS
<1>3. SameBut(f.blk, f3.blk, X \union Y)  BY DEF Freed, SameBut
<1> QED BY <1>1, <1>2, <1>3 DEF Freed

\* Giving up nothing changes nothing.
LEMMA FreedNone ==
  ASSUME NEW f, NEW F, FreeIs(f, F)
  PROVE  Freed(f, F, f, {})
<1>1. F \union {} = F  OBVIOUS
<1> QED BY <1>1 DEF Freed, SameBut

\* free_data_block gives up one block.
LEMMA FreedOne ==
  ASSUME NEW f, NEW F, FreeIs(f, F), NEW b \in Pool, b \notin F
  PROVE  free_data_block(f, b).ok = TRUE /\ Freed(f, F, free_data_block(f, b).fs, {b})
  BY FreeOne DEF Freed

\* What is left of a use after blocks elsewhere were given up.
LEMMA HeldApart ==
  ASSUME NEW f, NEW F, NEW at, NEW q, Placed(at), NEW p \in Sites, Held(f, F, at, q), Below(p) \subseteq Below(q),
         NEW f2, NEW S, Freed(f, F, f2, Img(at, S)), S \intersect Below(p) = {}
  PROVE  Held(f2, F \union Img(at, S), at, p)
<1>1. FreeIs(f2, F \union Img(at, S)) /\ SameBut(f.blk, f2.blk, Img(at, S))  BY DEF Freed
<1>2. ASSUME NEW x \in Below(p) \intersect DOMAIN at
      PROVE  at[x] \notin F \union Img(at, S) /\ (x[2] # 0 => Points(f2.blk, at, x))
  <2>1. at[x] \notin F /\ (x[2] # 0 => Points(f.blk, at, x))  BY DEF Held
  <2>2. at[x] \notin Img(at, S)  BY DEF Img, Placed
  <2>3. at[x] \in DataRegion  BY PoolIs DEF Placed
  <2>4. f2.blk[at[x]] = f.blk[at[x]]  BY <1>1, <2>2, <2>3 DEF SameBut
  <2> QED BY <2>1, <2>2, <2>4 DEF Points
<1> QED BY <1>1, <1>2 DEF Held

\* The entries of a block up to the first 0.
LEMMA UntilZeroIs ==
  ASSUME NEW b, NEW m \in 0 .. A, m = A \/ b[m] = 0, \A k \in 0 .. (m - 1) : b[k] # 0
  PROVE  UntilZero(b) = [k \in 1 .. m |-> b[k - 1]]
<1> DEFINE Q(n) == /\ n = NUM_OF_SINGLE_INDIRECT_BLOCK_ADDR \/ b[n] = 0
                   /\ \A k \in 0 .. (n - 1) : b[k] # 0
           n == CHOOSE n \in 0 .. NUM_OF_SINGLE_INDIRECT_BLOCK_ADDR : Q(n)
<1>1. NUM_OF_SINGLE_INDIRECT_BLOCK_ADDR = A /\ A \in Nat
  BY Sizes DEF NUM_OF_SINGLE_INDIRECT_BLOCK_ADDR, A
<1>2. m \in 0 .. NUM_OF_SINGLE_INDIRECT_BLOCK_ADDR /\ Q(m)  BY <1>1
<1>3. ASSUME NEW x \in 0 .. A, Q(x) PROVE x = m
  <2>1. CASE x < m
    <3>1. x \in 0 .. (m - 1) /\ x # A  BY <2>1, <1>1
    <3> QED BY <3>1, <1>3, <1>1
  <2>2. CASE m < x
    <3>1. m \in 0 .. (x - 1) /\ m # A  BY <2>2, <1>1
    <3> QED BY <3>1, <1>3, <1>1
  <2> QED BY <2>1, <2>2, <1>1
<1> HIDE DEF Q
<1>4. n \in 0 .. NUM_OF_SINGLE_INDIRECT_BLOCK_ADDR /\ Q(n)  BY <1>2
<1>5. n = m  BY <1>1, <1>3, <1>4
<1> HIDE DEF n
<1>6. UntilZero(b) = [k \in 1 .. n |-> b[k - 1]]  BY DEF UntilZero, n, Q
<1> QED BY <1>5, <1>6

--------------------
(* remove_datablocks_nested *)

NestedAt(h, f, b) ==
  IF h = 0 THEN free_data_block(f, b).fs ELSE IF h = 1 THEN Nested1(f, b)
  ELSE IF h = 2 THEN Nested2(f, b) ELSE Nested3(f, b)

\* At height h it gives up what is below a site, and the site.
Does(h) ==
  \A f, F, at, q :
    Placed(at) /\ Ordered(at) /\ q \in DOMAIN at /\ q[2] = h /\ Held(f, F, at, q)
      => Freed(f, F, NestedAt(h, f, at[q]), Img(at, Below(q)))

\* As one loop and the release of the block itself.
LEMMA NestedIs ==
  ASSUME NEW h \in 1 .. 3, NEW f, NEW p \in Nat, p > 0, NEW n \in Nat, DOMAIN UntilZero(f.blk[p]) = 1 .. n
  PROVE  NestedAt(h, f, p) = free_data_block(Folded(NestedLoop(h, UntilZero(f.blk[p])), f, n), p).fs
<1>1. ~(p <= 0)  OBVIOUS
<1>2. CASE h = 1
  BY <1>1, <1>2, NestedFold1 DEF NestedAt
<1>3. CASE h = 2
  BY <1>1, <1>3, NestedFold2 DEF NestedAt, Nested2, FreeBelow
<1>4. CASE h = 3
  BY <1>1, <1>4, NestedFold3 DEF NestedAt, Nested3, FreeBelow
<1> QED BY <1>2, <1>3, <1>4

\* A data block is given up alone.
LEMMA NestedData == Does(0)
<1> SUFFICES ASSUME NEW f, NEW F, NEW at, NEW q,
                    Placed(at), Ordered(at), q \in DOMAIN at, q[2] = 0, Held(f, F, at, q)
             PROVE  Freed(f, F, free_data_block(f, at[q]).fs, Img(at, Below(q)))
  BY DEF Does, NestedAt
<1>1. q \in Sites /\ at[q] \in Pool  BY DEF Placed
<1>2. Below(q) = {q}  BY <1>1, BelowData
<1>3. Img(at, Below(q)) = {at[q]}  BY <1>2 DEF Img
<1>4. at[q] \notin F /\ FreeIs(f, F)  BY <1>2 DEF Held
<1> QED BY <1>1, <1>3, <1>4, FreedOne

\* The entries that have a block are the first ones.
LEMMA EntriesTaken ==
  ASSUME NEW at, Placed(at), Ordered(at), NEW q \in Sites, q[2] # 0
  PROVE  \E m \in 0 .. A :
           /\ \A k \in Word : Kid(q, k) \in DOMAIN at <=> k < m
           /\ Img(at, Under(q, m)) = Img(at, Under(q, A))
<1> DEFINE S == {k \in 0 .. A : k = A \/ Kid(q, k) \notin DOMAIN at}
<1>1. A \in Nat /\ Word = 0 .. (A - 1) /\ A >= 1  BY Sizes
<1>2. S \in SUBSET Nat /\ S # {}
  <2>1. A \in S  BY <1>1
  <2>2. \A k \in S : k \in Nat  BY <1>1
  <2> QED BY <2>1, <2>2
<1>3. PICK m \in S : \A k \in S : m <= k
  BY <1>2, LeastNumber
<1>4. m \in 0 .. A /\ (m = A \/ Kid(q, m) \notin DOMAIN at) /\ \A k \in 0 .. A : k \in S => m <= k
  BY <1>3
<1>5. ASSUME NEW k \in Word PROVE Kid(q, k) \in DOMAIN at <=> k < m
  <2>1. k \in 0 .. A /\ k # A  BY <1>1
  <2>2. CASE k < m
    <3>1. k \notin S  BY <2>1, <2>2, <1>4, <1>1
    <3> QED BY <3>1, <2>1, <2>2
  <2>3. CASE m <= k
    <3>1. m \in Word /\ Kid(q, m) \notin DOMAIN at  BY <2>1, <2>3, <1>4, <1>1
    <3>2. CASE m = k
      BY <3>1, <3>2, <2>3, <1>1, <1>4
    <3>3. CASE m < k
      <4>1. Kid(q, k) \notin DOMAIN at  BY <3>1, <3>3 DEF Ordered
      <4> QED BY <4>1, <2>3, <2>1, <1>1, <1>4
    <3> QED BY <3>2, <3>3, <2>3, <1>1, <1>4
  <2> QED BY <2>2, <2>3, <1>1, <1>4
<1> HIDE DEF S
<1>6. ASSUME NEW p \in Under(q, A), p \in DOMAIN at PROVE p \in Under(q, m)
  <2> SUFFICES ASSUME p \notin Under(q, m) PROVE FALSE
    OBVIOUS
  <2>1. PICK k \in Word : p \in Below(Kid(q, k)) /\ \A x \in 0 .. A : p \notin Under(q, x) => x <= k
    BY UnderWhich
  <2>2. m <= k  BY <2>1, <1>4
  <2>3. Kid(q, k) \in DOMAIN at  BY <2>1, <1>6 DEF Ordered
  <2> QED BY <2>2, <2>3, <1>5, <1>1, <1>4
<1>7. ASSUME NEW p \in Under(q, m) PROVE p \in Under(q, A)
  <2> DEFINE w == W(q[2] - 1)
  <2>1. w \in Nat
    <3>1. 0 \in Word  BY PoolIs
    <3> QED BY <3>1, KidIs
  <2> HIDE DEF w
  <2>2. m * w <= A * w /\ m * w \in Nat /\ A * w \in Nat
    <3> DEFINE e == A - m
    <3>1. e \in Nat /\ A = m + e /\ m \in Nat  BY <1>1, <1>4
    <3> HIDE DEF e
    <3>2. (m + e) * w = m * w + e * w /\ e * w \in Nat /\ m * w \in Nat  BY <3>1, <2>1
    <3> QED BY <3>1, <3>2
  <2>3. p \in Sites /\ First(p) \in Nat /\ First(q) \in Nat  BY SiteIs DEF Under
  <2> QED BY <2>2, <2>3 DEF Under, w
<1>8. Img(at, Under(q, m)) = Img(at, Under(q, A))  BY <1>6, <1>7 DEF Img
<1> QED BY <1>4, <1>5, <1>8

\* What is below a part of q is below q.
LEMMA BelowKid ==
  ASSUME NEW q \in Sites, q[2] # 0, NEW k \in Word
  PROVE  Below(Kid(q, k)) \subseteq Below(q) /\ Kid(q, k) \in Below(Kid(q, k))
<1>1. /\ Kid(q, k) \in Sites /\ Kid(q, k)[1] = q[1] /\ Kid(q, k)[2] = q[2] - 1
      /\ First(Kid(q, k)) = First(q) + k * W(q[2] - 1) /\ k * W(q[2] - 1) \in Nat
      /\ W(q[2] - 1) \in Nat /\ W(q[2] - 1) >= 1
      /\ First(Kid(q, k)) + W(q[2] - 1) <= First(q) + W(q[2]) /\ q[2] \in 1 .. 3
  BY KidIs
<1>2. First(q) \in Nat /\ First(Kid(q, k)) \in Nat /\ W(q[2]) \in Nat  BY <1>1, SiteIs
<1>3. First(q) <= First(Kid(q, k))  BY <1>1, <1>2
<1>4. ASSUME NEW p \in Below(Kid(q, k)) PROVE p \in Below(q)
  <2>1. /\ p \in Sites /\ p[1] = q[1] /\ p[2] <= q[2] - 1 /\ First(Kid(q, k)) <= First(p)
        /\ First(p) < First(Kid(q, k)) + W(q[2] - 1)
    BY <1>1, <1>4 DEF Below
  <2>2. p[2] \in Nat /\ First(p) \in Nat  BY <2>1, SiteIs
  <2>3. p[2] <= q[2] /\ First(q) <= First(p) /\ First(p) < First(q) + W(q[2])
    BY <1>1, <1>2, <1>3, <2>1, <2>2
  <2> QED BY <2>1, <2>3 DEF Below
<1>5. Kid(q, k) \in Below(Kid(q, k))
  <2>1. First(Kid(q, k)) < First(Kid(q, k)) + W(Kid(q, k)[2])  BY <1>1, <1>2
  <2> QED BY <2>1, <1>1, <1>2 DEF Below
<1> QED BY <1>4, <1>5

\* From one height to the next.
LEMMA NestedStep ==
  ASSUME NEW h \in 1 .. 3, Does(h - 1)
  PROVE  Does(h)
<1> SUFFICES ASSUME NEW f, NEW F, NEW at, NEW q,
                    Placed(at), Ordered(at), q \in DOMAIN at, q[2] = h, Held(f, F, at, q)
             PROVE  Freed(f, F, NestedAt(h, f, at[q]), Img(at, Below(q)))
  BY DEF Does
<1>1. q \in Sites /\ at[q] \in Pool /\ q[2] # 0 /\ at[q] \in Nat /\ at[q] > 0  BY PoolIs DEF Placed
<1>2. PICK m \in 0 .. A : /\ \A k \in Word : Kid(q, k) \in DOMAIN at <=> k < m
                          /\ Img(at, Under(q, m)) = Img(at, Under(q, A))
  BY <1>1, EntriesTaken
<1>3. A \in Nat /\ Word = 0 .. (A - 1) /\ A >= 1 /\ m \in Nat  BY Sizes, <1>2
<1> DEFINE sq == UntilZero(f.blk[at[q]])
           g(k) == Folded(NestedLoop(h, sq), f, k)
           X(k) == Img(at, Under(q, k))
<1>4. q \in Below(q) /\ Below(q) = {q} \union Under(q, A) /\ q \notin Under(q, A) /\ Under(q, 0) = {}
  BY <1>1, BelowIs
<1>5. FreeIs(f, F) /\ at[q] \notin F /\ Points(f.blk, at, q)  BY <1>1, <1>4 DEF Held
<1>6. sq = [k \in 1 .. m |-> at[Kid(q, k - 1)]]
  <2> DEFINE b == f.blk[at[q]]
  <2>1. \A k \in Word : b[k] = IF k < m THEN at[Kid(q, k)] ELSE 0  BY <1>2, <1>5 DEF Points, EntryAt
  <2>2. m = A \/ b[m] = 0
    <3>1. CASE m = A
      BY <3>1
    <3>2. CASE m # A
      <4>1. m \in Word  BY <1>2, <1>3, <3>2
      <4> QED BY <4>1, <2>1, <1>3
    <3> QED BY <3>1, <3>2
  <2>3. ASSUME NEW k \in 0 .. (m - 1) PROVE b[k] = at[Kid(q, k)] /\ b[k] # 0
    <3>1. k \in Word /\ k < m  BY <1>2, <1>3
    <3>2. at[Kid(q, k)] \in Pool  BY <3>1, <1>2 DEF Placed
    <3> QED BY <3>1, <3>2, <2>1, PoolIs
  <2> HIDE DEF b
  <2>4. UntilZero(b) = [k \in 1 .. m |-> b[k - 1]]  BY <2>2, <2>3, UntilZeroIs
  <2>5. \A k \in 1 .. m : k - 1 \in 0 .. (m - 1)  BY <1>3
  <2>6. [k \in 1 .. m |-> b[k - 1]] = [k \in 1 .. m |-> at[Kid(q, k - 1)]]  BY <2>3, <2>5
  <2> QED BY <2>4, <2>6 DEF b
<1>7. DOMAIN sq = 1 .. m  BY <1>6
<1>8. NestedAt(h, f, at[q]) = free_data_block(g(m), at[q]).fs  BY <1>1, <1>3, <1>7, NestedIs
<1> HIDE DEF sq
<1>9. g(0) = f /\ \A k \in Nat : g(k + 1) = Round(NestedLoop(h, sq), g(k), k + 1)
  <2> DEFINE p == NestedLoop(h, sq)
  <2> HIDE DEF p
  <2>1. /\ Folded(p, f, 0) = f
        /\ \A k \in Nat : Folded(p, f, k + 1) = Round(p, Folded(p, f, k), k + 1)
    BY FoldStep
  <2> QED BY <2>1 DEF p
<1>10. \A k \in 1 .. m : \A x : Round(NestedLoop(h, sq), x, k) = NestedAt(h - 1, x, at[Kid(q, k - 1)])
  <2>1. NestedLoop(h, sq).loop = "nested" /\ NestedLoop(h, sq).h = h /\ NestedLoop(h, sq).seq = sq
    BY DEF NestedLoop
  <2>2. \A k \in 1 .. m : \A x : Round(NestedLoop(h, sq), x, k) = FreeNested(h, x, sq[k])
    BY <2>1 DEF Round
  <2>3. \A k \in 1 .. m : sq[k] = at[Kid(q, k - 1)]  BY <1>6
  <2>4. \A x, b : FreeNested(h, x, b) = NestedAt(h - 1, x, b)
    <3>1. h = 1 \/ h = 2 \/ h = 3  OBVIOUS
    <3> QED BY <3>1 DEF FreeNested, NestedAt
  <2> QED BY <2>2, <2>3, <2>4
<1> HIDE DEF g, X
<1> DEFINE S == {k \in 0 .. m : Freed(f, F, g(k), X(k))}
<1>11. 0 \in S
  <2>1. X(0) = {}  BY <1>4 DEF X, Img
  <2>2. Freed(f, F, g(0), X(0))  BY <2>1, <1>5, <1>9, FreedNone
  <2> QED BY <2>2, <1>3
<1>12. ASSUME NEW k \in 0 .. (m - 1), k \in S PROVE k + 1 \in S
  <2>1. k \in Word /\ k + 1 \in 1 .. m /\ k \in Nat /\ k < m /\ (k + 1) - 1 = k  BY <1>2, <1>3
  <2> DEFINE c == Kid(q, k)
  <2>2. c \in DOMAIN at /\ c \in Sites /\ c[2] = h - 1  BY <2>1, <1>1, <1>2, KidIs
  <2>3. Under(q, k + 1) = Under(q, k) \union Below(c) /\ Under(q, k) \intersect Below(c) = {}
        /\ Below(c) \subseteq Below(q)
    BY <2>1, <1>1, UnderNext, BelowKid
  <2> HIDE DEF c
  <2>4. Freed(f, F, g(k), Img(at, Under(q, k)))  BY <1>12 DEF X
  <2>5. Held(g(k), F \union Img(at, Under(q, k)), at, c)  BY <2>2, <2>3, <2>4, HeldApart
  <2>6. Freed(g(k), F \union Img(at, Under(q, k)), NestedAt(h - 1, g(k), at[c]), Img(at, Below(c)))
    BY <2>2, <2>5 DEF Does
  <2>7. g(k + 1) = NestedAt(h - 1, g(k), at[c])  BY <1>9, <1>10, <2>1 DEF c
  <2>8. X(k + 1) = Img(at, Under(q, k)) \union Img(at, Below(c))  BY <2>3 DEF X, Img
  <2>9. Freed(f, F, g(k + 1), X(k + 1))  BY <2>4, <2>6, <2>7, <2>8, FreedMore
  <2> QED BY <2>1, <2>9
<1>13. \A k \in 0 .. m : k \in S
  <2> HIDE DEF S
  <2> QED BY <1>3, <1>11, <1>12, Induction
<1>14. Freed(f, F, g(m), X(m))
  <2>1. m \in 0 .. m  BY <1>3
  <2> QED BY <2>1, <1>13
<1>15. at[q] \notin F \union X(m)
  <2>1. X(m) = Img(at, Under(q, A))  BY <1>2 DEF X
  <2>2. at[q] \notin Img(at, Under(q, A))  BY <1>4 DEF Img, Placed
  <2> QED BY <2>1, <2>2, <1>5
<1>16. FreeIs(g(m), F \union X(m))  BY <1>14 DEF Freed
<1>17. Freed(g(m), F \union X(m), free_data_block(g(m), at[q]).fs, {at[q]})
  BY <1>1, <1>15, <1>16, FreedOne
<1>18. Freed(f, F, NestedAt(h, f, at[q]), X(m) \union {at[q]})  BY <1>8, <1>14, <1>17, FreedMore DEF g
<1>19. Img(at, Below(q)) = X(m) \union {at[q]}
  <2>1. X(m) = Img(at, Under(q, A))  BY <1>2 DEF X
  <2>2. Img(at, {q} \union Under(q, A)) = Img(at, Under(q, A)) \union {at[q]}  BY DEF Img
  <2> QED BY <2>1, <2>2, <1>4
<1> QED BY <1>18, <1>19

\* At every height.
LEMMA NestedFrees ==
  ASSUME NEW f, NEW F, NEW at, NEW q, Placed(at), Ordered(at), q \in DOMAIN at, q[2] \in 0 .. 3, Held(f, F, at, q)
  PROVE  Freed(f, F, NestedAt(q[2], f, at[q]), Img(at, Below(q)))
<1>1. Does(0)  BY NestedData
<1>2. Does(1)  BY <1>1, NestedStep
<1>3. Does(2)
  <2>1. Does(2 - 1)  BY <1>2
  <2> QED BY <2>1, NestedStep
<1>4. Does(3)
  <2>1. Does(3 - 1)  BY <1>3
  <2> QED BY <2>1, NestedStep
<1>5. Does(q[2])  BY <1>1, <1>2, <1>3, <1>4
<1> QED BY <1>5 DEF Does

--------------------
(* Some entries of an array of addresses *)

Zeroed(addr, D, from, upto) == [k \in D |-> IF from <= k /\ k < upto THEN 0 ELSE addr[k]]

Some(addr, from, upto) == {addr[k] : k \in from .. (upto - 1)}

\* The entries of the array hold blocks that are in use, each another one.
Giveable(addr, D, F, from, upto) ==
  /\ D \subseteq Nat /\ Addresses(addr, D)
  /\ from .. (upto - 1) \subseteq D
  /\ \A k \in from .. (upto - 1) : addr[k] \in Pool /\ addr[k] \notin F
  /\ \A j, k \in from .. (upto - 1) : addr[j] = addr[k] => j = k

\* The entries are given up and are 0 in memory.
LEMMA EntriesFreed ==
  ASSUME NEW f, NEW F, FreeIs(f, F), NEW from \in Nat, NEW upto \in Int, NEW D, NEW addr, Giveable(addr, D, F, from, upto)
  PROVE  /\ FreeEntries(f, addr, from, upto).ok = TRUE
         /\ Freed(f, F, FreeEntries(f, addr, from, upto).fs, Some(addr, from, upto))
         /\ FreeEntries(f, addr, from, upto).addr = Zeroed(addr, D, from, upto)
<1> DEFINE n == IF upto > from THEN upto - from ELSE 0
           p == EntriesLoop(addr, from)
           base == [fs |-> f, addr |-> addr, ok |-> TRUE]
           g(k) == Folded(p, base, k)
           X(k) == Some(addr, from, from + k)
           Y(k) == Zeroed(addr, D, from, from + k)
           S == {k \in 0 .. n : g(k).ok = TRUE /\ Freed(f, F, g(k).fs, X(k)) /\ g(k).addr = Y(k)}
<1>1. n \in Nat /\ (n > 0 => from + n = upto) /\ (n = 0 => upto <= from)  OBVIOUS
<1>a. /\ D \subseteq Nat /\ Addresses(addr, D)
      /\ from .. (upto - 1) \subseteq D
      /\ \A k \in from .. (upto - 1) : addr[k] \in Pool /\ addr[k] \notin F
      /\ \A j, k \in from .. (upto - 1) : addr[j] = addr[k] => j = k
  BY DEF Giveable
<1>2. FreeEntries(f, addr, from, upto) = g(n)
  <2>1. n = IF upto > from THEN upto - from ELSE 0  OBVIOUS
  <2> HIDE DEF n
  <2> QED BY <1>1, <2>1, EntriesFold
<1>3. \A k \in 1 .. n : \A x : Round(p, x, k) = EntryRound(addr, x, from + k - 1)
  BY DEF Round, EntriesLoop
<1> HIDE DEF p, n
<1>4. g(0) = base /\ \A k \in Nat : g(k + 1) = Round(p, g(k), k + 1)  BY FoldStep
<1> HIDE DEF g
<1>5. 0 \in S
  <2>1. X(0) = {}  BY DEF Some
  <2>2. Y(0) = addr
    <3>1. \A k \in D : ~(from <= k /\ k < from + 0)  BY <1>a
    <3> QED BY <3>1, <1>a DEF Zeroed, Addresses
  <2>3. g(0).ok = TRUE /\ g(0).fs = f /\ g(0).addr = addr  BY <1>4
  <2>4. Freed(f, F, f, {})  BY FreedNone
  <2>5. g(0).ok = TRUE /\ Freed(f, F, g(0).fs, X(0)) /\ g(0).addr = Y(0)
    <3> HIDE DEF X, Y
    <3> QED BY <2>1, <2>2, <2>3, <2>4
  <2> QED BY <1>1, <2>5
<1>6. ASSUME NEW k \in 0 .. (n - 1), k \in S PROVE k + 1 \in S
  <2> DEFINE j == from + k
             st == g(k)
             b  == addr[j]
             new == free_data_block(st.fs, b)
  <2>1. /\ k \in Nat /\ k + 1 \in 1 .. n /\ from + (k + 1) - 1 = from + k
        /\ j \in Nat /\ j \in from .. (upto - 1) /\ j \in D
    BY <1>1, <1>a
  <2>2. st.ok = TRUE /\ Freed(f, F, st.fs, X(k)) /\ st.addr = Y(k)  BY <1>6
  <2>3. b \in Pool /\ b \notin F /\ b \notin X(k)
    <3>1. b \in Pool /\ b \notin F  BY <2>1, <1>a
    <3>2. ASSUME NEW i \in from .. (from + k - 1) PROVE addr[i] # b
      <4>1. i \in from .. (upto - 1) /\ i # j  BY <1>1, <2>1
      <4> QED BY <4>1, <2>1, <1>a
    <3> QED BY <3>1, <3>2 DEF Some
  <2>4. g(k + 1) = EntryRound(addr, st, j)
    <3>1. g(k + 1) = Round(p, g(k), k + 1)  BY <1>4, <2>1
    <3>2. Round(p, g(k), k + 1) = EntryRound(addr, g(k), from + (k + 1) - 1)  BY <1>3, <2>1
    <3> QED BY <3>1, <3>2, <2>1
  <2>5. X(k + 1) = X(k) \union {b}
    <3>1. \A i : i \in from .. (from + (k + 1) - 1) <=> i \in from .. (from + k - 1) \/ i = j  BY <2>1
    <3> QED BY <3>1 DEF Some
  <2>6. Y(k + 1) = [Y(k) EXCEPT ![j] = 0]
    <3>1. \A i \in D : i < from + (k + 1) <=> i < from + k \/ i = j  BY <2>1, <1>a
    <3>2. from <= j  BY <2>1
    <3> QED BY <3>1, <3>2, <2>1 DEF Zeroed
  <2> HIDE DEF j, st, b, X, Y
  <2>7. new.ok = TRUE /\ Freed(st.fs, F \union X(k), new.fs, {b})
    <3>1. FreeIs(st.fs, F \union X(k)) /\ b \notin F \union X(k)  BY <2>2, <2>3 DEF Freed
    <3> QED BY <3>1, <2>3, FreedOne
  <2>8. g(k + 1) = [fs |-> new.fs, ok |-> TRUE, addr |-> [st.addr EXCEPT ![j] = 0]]
    BY <2>2, <2>4, <2>7 DEF EntryRound, b
  <2>9. Freed(f, F, new.fs, X(k + 1))  BY <2>2, <2>5, <2>7, FreedMore
  <2>10. g(k + 1).ok = TRUE /\ g(k + 1).fs = new.fs /\ g(k + 1).addr = Y(k + 1)
    <3>1. g(k + 1).ok = TRUE /\ g(k + 1).fs = new.fs /\ g(k + 1).addr = [st.addr EXCEPT ![j] = 0]
      BY <2>8
    <3>2. [st.addr EXCEPT ![j] = 0] = Y(k + 1)  BY <2>2, <2>6
    <3> QED BY <3>1, <3>2
  <2>11. k + 1 \in 0 .. n  BY <2>1, <1>1
  <2> QED BY <2>9, <2>10, <2>11
<1>7. \A k \in 0 .. n : k \in S
  <2> HIDE DEF S
  <2> QED BY <1>1, <1>5, <1>6, Induction
<1>8. g(n).ok = TRUE /\ Freed(f, F, g(n).fs, X(n)) /\ g(n).addr = Y(n)
  <2>1. n \in 0 .. n  BY <1>1
  <2> QED BY <2>1, <1>7
<1>9. X(n) = Some(addr, from, upto) /\ Y(n) = Zeroed(addr, D, from, upto)
  <2>1. CASE n > 0
    BY <2>1, <1>1
  <2>2. CASE n = 0
    <3>1. from .. ((from + n) - 1) = {} /\ from .. (upto - 1) = {}  BY <2>2, <1>1
    <3>2. \A k \in D : ~(from <= k /\ k < from + n) /\ ~(from <= k /\ k < upto)  BY <2>2, <1>1, <1>a
    <3>3. Y(n) = addr /\ Zeroed(addr, D, from, upto) = addr  BY <3>2, <1>a DEF Zeroed, Addresses
    <3>4. X(n) = {addr[k] : k \in from .. ((from + n) - 1)}  BY DEF Some
    <3>5. X(n) = {} /\ Some(addr, from, upto) = {}  BY <3>1, <3>4 DEF Some
    <3> QED BY <3>3, <3>5
  <2> QED BY <2>1, <2>2, <1>1
<1> QED BY <1>2, <1>8, <1>9

\* The blocks at the entries from .. upto - 1 of a site.
Kids(at, q, from, upto) == {at[Kid(q, k)] : k \in {k \in Word : from <= k /\ k < upto}}

\* The first entries of a site have blocks.
Filled(at, q, upto) == \A k \in Word : k < upto => Kid(q, k) \in DOMAIN at

\* The blocks at some entries of q are given up, and the entries are 0.
Trimmed(f, F, at, q, from, upto, f2) ==
  /\ FreeIs(f2, F \union Kids(at, q, from, upto))
  /\ SameBut(f.blk, f2.blk, Kids(at, q, from, upto) \union {at[q]})
  /\ \A k \in Word : f2.blk[at[q]][k] = IF from <= k /\ k < upto THEN 0 ELSE f.blk[at[q]][k]

\* A state of a loop that did not fail, with another disk.
Onward(st, f) == [st EXCEPT !.fs = f, !.ok = TRUE]

\* The same on a block of addresses: the entries behind from are given up, the block keeps
\* the others.
LEMMA BlockTrimmed ==
  ASSUME NEW st, NEW F, NEW at, NEW q, Placed(at), Ordered(at), q \in DOMAIN at, q[2] = 1, Held(st.fs, F, at, q),
         NEW from \in Nat, NEW upto \in Nat, Filled(at, q, upto)
  PROVE  \E f2 : /\ TrimBlock(st, at[q], from, upto) = Onward(st, f2)
                 /\ Trimmed(st.fs, F, at, q, from, upto, f2)
<1> DEFINE f == st.fs
           b == at[q]
           addr == f.blk[b]
           u == Least(upto, NUM_OF_SINGLE_INDIRECT_BLOCK_ADDR)
           e == FreeEntries(f, addr, from, u)
           r == TrimBlock(st, b, from, upto)
           X == Kids(at, q, from, upto)
<1>1. A \in Nat /\ A >= 1 /\ Word = 0 .. (A - 1) /\ NUM_OF_SINGLE_INDIRECT_BLOCK_ADDR = A
  BY Sizes DEF NUM_OF_SINGLE_INDIRECT_BLOCK_ADDR, A
<1>2. u \in Nat /\ u <= upto /\ u <= A /\ (upto <= A => u = upto) /\ (upto > A => u = A)
  BY <1>1 DEF Least
<1>3. q \in Sites /\ b \in Pool /\ q[2] # 0 /\ b \in DataRegion  BY PoolIs DEF Placed
<1>4. q \in Below(q) /\ Below(q) = {q} \union Under(q, A) /\ q \notin Under(q, A)  BY <1>3, BelowIs
<1>5. FreeIs(f, F) /\ b \notin F /\ Points(f.blk, at, q)  BY <1>3, <1>4 DEF Held
<1>6. f \in FileSystem /\ addr \in [Word -> Int]  BY <1>3, <1>5, FreeInPool, DiskIs
<1> HIDE DEF u
<1>7. ASSUME NEW k \in from .. (u - 1)
      PROVE  /\ k \in Word /\ from <= k /\ k < upto /\ Kid(q, k) \in DOMAIN at
             /\ addr[k] = at[Kid(q, k)] /\ addr[k] \in Pool /\ addr[k] \notin F /\ addr[k] # b
  <2>1. k \in Word /\ from <= k /\ k < upto  BY <1>1, <1>2
  <2>2. Kid(q, k) \in DOMAIN at /\ addr[k] = at[Kid(q, k)]  BY <2>1, <1>5 DEF Points, EntryAt, Filled
  <2>3. Kid(q, k) \in Below(q) /\ Kid(q, k)[2] # q[2]
    <3>1. Kid(q, k) \in Below(q)  BY <1>3, <2>1, BelowKid
    <3>2. Kid(q, k)[2] = q[2] - 1  BY <1>3, <2>1, KidIs
    <3> QED BY <3>1, <3>2
  <2>4. addr[k] \notin F  BY <2>2, <2>3 DEF Held
  <2>5. addr[k] \in Pool /\ addr[k] # b  BY <2>2, <2>3 DEF Placed
  <2> QED BY <2>1, <2>2, <2>4, <2>5
<1>8. \A j, k \in from .. (u - 1) : addr[j] = addr[k] => j = k
  <2> SUFFICES ASSUME NEW j \in from .. (u - 1), NEW k \in from .. (u - 1), addr[j] = addr[k] PROVE j = k
    OBVIOUS
  <2>1. Kid(q, j) = Kid(q, k)  BY <1>7 DEF Placed
  <2>2. j \in Word /\ k \in Word  BY <1>7
  <2> QED BY <2>1, <2>2, <1>3, KidOnce
<1>9. e.ok = TRUE /\ Freed(f, F, e.fs, Some(addr, from, u)) /\ e.addr = Zeroed(addr, Word, from, u)
  <2> HIDE DEF addr, f, b
  <2>1. from .. (u - 1) \subseteq Word /\ Word \in SUBSET Nat  BY <1>7, <1>1
  <2>2. \A k \in from .. (u - 1) : addr[k] \in Pool /\ addr[k] \notin F  BY <1>7
  <2>3. FreeIs(f, F) /\ Addresses(addr, Word) /\ u \in Int  BY <1>2, <1>5, <1>6 DEF Addresses
  <2>4. Giveable(addr, Word, F, from, u)  BY <1>8, <2>1, <2>2, <2>3 DEF Giveable
  <2> QED BY <2>3, <2>4, EntriesFreed
<1>10. Some(addr, from, u) = X
  <2>1. ASSUME NEW k \in Word, from <= k, k < upto PROVE k \in from .. (u - 1)
    BY <1>1, <1>2, <2>1
  <2>2. X \subseteq Some(addr, from, u)  BY <2>1, <1>7 DEF Some, Kids
  <2>3. Some(addr, from, u) \subseteq X  BY <1>7 DEF Some, Kids
  <2> QED BY <2>2, <2>3
<1>11. \A k \in Word : Zeroed(addr, Word, from, u)[k] = IF from <= k /\ k < upto THEN 0 ELSE addr[k]
  <2>1. \A k \in Word : k < u <=> k < upto  BY <1>1, <1>2
  <2> QED BY <2>1 DEF Zeroed
<1>12. e.addr \in [Word -> Int]  BY <1>6, <1>9 DEF Zeroed
<1>13. b \notin F \union X
  <2>1. b \notin X  BY <1>7, <1>10 DEF Some
  <2> QED BY <2>1, <1>5
<1>14. FreeIs(e.fs, F \union X) /\ SameBut(f.blk, e.fs.blk, X)  BY <1>9, <1>10 DEF Freed
<1> DEFINE w == write_data_block(e.fs, b, e.addr)
<1>15. r = Onward(st, w)  BY <1>9 DEF TrimBlock, WriteBack, Onward, u
<1> HIDE DEF e, r, X, b, addr, f
<1>16. FreeIs(w, F \union X) /\ w.blk[b] = e.addr /\ SameBut(e.fs.blk, w.blk, {b})
  <2>1. FreeIs(e.fs, F \union X) /\ b \in Pool /\ b \notin F \union X /\ e.addr \in [Word -> Int]
    BY <1>3, <1>12, <1>13, <1>14
  <2> DEFINE G == F \union X
             d == e.fs
             buf == e.addr
  <2>2. FreeIs(d, G) /\ b \notin G /\ Addresses(buf, Word)  BY <2>1 DEF Addresses
  <2> HIDE DEF G, d, buf
  <2>3. /\ FreeIs(write_data_block(d, b, buf), G)
        /\ write_data_block(d, b, buf).blk[b] = buf
        /\ SameBut(d.blk, write_data_block(d, b, buf).blk, {b})
    BY <1>3, <2>2, WriteOne
  <2> QED BY <2>3 DEF G, d, buf
<1> HIDE DEF w
<1>17. SameBut(f.blk, w.blk, X \union {b})  BY <1>14, <1>16 DEF SameBut
<1>18. \A k \in Word : w.blk[b][k] = IF from <= k /\ k < upto THEN 0 ELSE addr[k]  BY <1>9, <1>11, <1>16
<1> QED BY <1>15, <1>16, <1>17, <1>18 DEF r, X, b, addr, f, Trimmed

--------------------
(* Whole trees: the loops of remove_datablocks_range_from_inode from the   *)
(* first entry on                                                          *)

Running(f, end) == [fs |-> f, end |-> end, ok |-> TRUE, reached |-> FALSE]
Ended(f, end) == [fs |-> f, end |-> end, ok |-> TRUE, reached |-> TRUE]

\* The loops go on after a call that did not fail.
LEMMA RunningOn ==
  ASSUME NEW f, NEW end, NEW f2
  PROVE  Onward(Running(f, end), f2) = Running(f2, end)
<1> DEFINE st == Running(f, end)
           r == Onward(st, f2)
<1>1. r = [st EXCEPT !.fs = f2, !.ok = TRUE]  BY DEF Onward
<1>2. st = [fs |-> f, end |-> end, ok |-> TRUE, reached |-> FALSE]  BY DEF Running
<1> HIDE DEF r, st
<1>3. r = [fs |-> f2, end |-> end, ok |-> TRUE, reached |-> FALSE]  BY <1>1, <1>2
<1> QED BY <1>3 DEF Running, r, st

\* Where the loop over a double indirect block stands after one block of addresses.
LEMMA PastIs ==
  ASSUME NEW f, NEW end \in Nat
  PROVE  PastBlock(Running(f, end), 0) = IF end <= A THEN Ended(f, end) ELSE Running(f, end - A)
<1> DEFINE st == Running(f, end)
           r == PastBlock(st, 0)
<1>1. NUM_OF_SINGLE_INDIRECT_BLOCK_ADDR = A /\ A \in Nat
  BY Sizes DEF NUM_OF_SINGLE_INDIRECT_BLOCK_ADDR, A
<1>2. st = [fs |-> f, end |-> end, ok |-> TRUE, reached |-> FALSE]  BY DEF Running
<1> HIDE DEF st
<1>3. CASE end <= A
  <2>1. r = [st EXCEPT !.reached = TRUE]  BY <1>1, <1>2, <1>3 DEF PastBlock
  <2> HIDE DEF r
  <2>2. r = [fs |-> f, end |-> end, ok |-> TRUE, reached |-> TRUE]  BY <1>2, <2>1
  <2> QED BY <2>2, <1>3 DEF Ended, r, st
<1>4. CASE end > A
  <2>1. r = [st EXCEPT !.end = end - A]  BY <1>1, <1>2, <1>4 DEF PastBlock
  <2> HIDE DEF r
  <2>2. r = [fs |-> f, end |-> end - A, ok |-> TRUE, reached |-> FALSE]  BY <1>2, <2>1
  <2>3. ~(end <= A)  BY <1>1, <1>4
  <2> QED BY <2>2, <2>3 DEF Running, r, st
<1> QED BY <1>1, <1>3, <1>4

\* A block is freed in a loop.
LEMMA FreeInLoop ==
  ASSUME NEW f, NEW end, NEW F, FreeIs(f, F), NEW b \in Pool, b \notin F
  PROVE  \E f2 : FreeIf(Running(f, end), TRUE, b) = Running(f2, end) /\ Freed(f, F, f2, {b})
<1> DEFINE new == free_data_block(f, b)
<1>1. new.ok = TRUE /\ Freed(f, F, new.fs, {b})  BY FreedOne
<1> DEFINE st == Running(f, end)
<1>2. st.fs = f /\ st.ok = TRUE  BY DEF Running
<1>a. Onward(st, new.fs) = Running(new.fs, end)  BY RunningOn
<1> HIDE DEF st
<1>3. FreeIf(st, TRUE, b) = [st EXCEPT !.fs = new.fs, !.ok = new.ok]  BY <1>2 DEF FreeIf
<1>4. FreeIf(st, TRUE, b) = Onward(st, new.fs)  BY <1>1, <1>3 DEF Onward
<1>5. FreeIf(st, TRUE, b) = Running(new.fs, end)  BY <1>a, <1>4
<1> QED BY <1>1, <1>5 DEF st

\* A block of addresses with its data.
LEMMA WholeBlock ==
  ASSUME NEW f, NEW end, NEW F, NEW at, NEW q, Placed(at), Ordered(at), q \in DOMAIN at, q[2] = 1, Held(f, F, at, q),
         NEW upto \in Nat, \A k \in Word : k < upto <=> Kid(q, k) \in DOMAIN at
  PROVE  \E f2 : /\ FreeIf(TrimBlock(Running(f, end), at[q], 0, upto), TRUE, at[q]) = Running(f2, end)
                 /\ Freed(f, F, f2, Img(at, Below(q)))
<1> DEFINE st == Running(f, end)
           X  == Kids(at, q, 0, upto)
<1>1. st.fs = f /\ 0 \in Nat  BY DEF Running
<1>2. PICK f1 : /\ TrimBlock(st, at[q], 0, upto) = Onward(st, f1)
                /\ FreeIs(f1, F \union X) /\ SameBut(f.blk, f1.blk, X \union {at[q]})
  <2> HIDE DEF st
  <2>1. Filled(at, q, upto)  BY DEF Filled
  <2>2. Held(st.fs, F, at, q)  BY <1>1
  <2>3. \E f2 : TrimBlock(st, at[q], 0, upto) = Onward(st, f2) /\ Trimmed(st.fs, F, at, q, 0, upto, f2)
    BY <1>1, <2>1, <2>2, BlockTrimmed
  <2> QED BY <1>1, <2>3 DEF Trimmed
<1>3. TrimBlock(st, at[q], 0, upto) = Running(f1, end)
  <2>1. Onward(st, f1) = Running(f1, end)  BY RunningOn
  <2> QED BY <1>2, <2>1
<1>4. q \in Sites /\ at[q] \in Pool /\ q[2] # 0  BY DEF Placed
<1>5. q \in Below(q) /\ Below(q) = {q} \union Under(q, A) /\ q \notin Under(q, A)  BY <1>4, BelowIs
<1>6. X = Img(at, Under(q, A))
  <2>1. ASSUME NEW k \in Word, 0 <= k, k < upto PROVE at[Kid(q, k)] \in Img(at, Under(q, A))
    <3>1. Kid(q, k) \in DOMAIN at  BY <2>1
    <3>2. Kid(q, k) \in Below(q) /\ Kid(q, k) # q
      <4>1. Kid(q, k)[2] = q[2] - 1  BY <1>4, KidIs
      <4>2. Kid(q, k) \in Below(q)  BY <1>4, BelowKid
      <4>3. Kid(q, k)[2] # q[2]  BY <4>1
      <4> QED BY <4>2, <4>3
    <3> QED BY <3>1, <3>2, <1>5 DEF Img
  <2>2. ASSUME NEW p \in Under(q, A), p \in DOMAIN at PROVE at[p] \in X
    <3>1. PICK k \in Word : p \in Below(Kid(q, k))
      BY <1>4, <2>2, UnderWhich
    <3>2. Kid(q, k) \in Sites /\ Kid(q, k)[2] = 0  BY <1>4, KidIs
    <3>3. p = Kid(q, k)  BY <3>1, <3>2, BelowData
    <3>4. 0 <= k /\ k < upto  BY <2>2, <3>3, Sizes
    <3> QED BY <3>3, <3>4 DEF Kids
  <2> QED BY <2>1, <2>2 DEF Img, Kids
<1>7. at[q] \notin F \union X
  <2>1. at[q] \notin Img(at, Under(q, A))  BY <1>5 DEF Img, Placed
  <2> QED BY <2>1, <1>5, <1>6 DEF Held
<1> HIDE DEF X
<1>8. PICK f2 : FreeIf(Running(f1, end), TRUE, at[q]) = Running(f2, end) /\ Freed(f1, F \union X, f2, {at[q]})
  BY <1>2, <1>4, <1>7, FreeInLoop
<1>10. FreeIs(f2, (F \union X) \union {at[q]}) /\ SameBut(f.blk, f2.blk, X \union {at[q]})
  BY <1>2, <1>8 DEF Freed, SameBut
<1>11. Img(at, Below(q)) = X \union {at[q]}
  <2>1. Img(at, {q} \union Under(q, A)) = Img(at, Under(q, A)) \union {at[q]}  BY DEF Img
  <2> QED BY <2>1, <1>5, <1>6
<1>12. (F \union X) \union {at[q]} = F \union Img(at, Below(q))  BY <1>11
<1>13. Freed(f, F, f2, Img(at, Below(q)))  BY <1>10, <1>11, <1>12 DEF Freed
<1> QED BY <1>3, <1>8, <1>13

\* The state of the loop over a double indirect block after k rounds.
LeavesAt(f, F, at, q, left, st, k) ==
  \E f2, end :
    /\ Freed(f, F, f2, Img(at, Under(q, k)))
    /\ \/ st = Running(f2, end) /\ end = left - k * A /\ left > k * A
       \/ st = Ended(f2, end) /\ end \in 1 .. A /\ left <= k * A

\* The sites below q that have a block are those of a file of n blocks.
RegularBelow(at, q, n) == \A p \in Below(q) : p \in DOMAIN at <=> First(p) < n

\* One round of it.
LEMMA LeavesNext ==
  ASSUME NEW f, NEW F, NEW at, NEW q, Placed(at), Ordered(at), q \in DOMAIN at, q[2] = 2, Held(f, F, at, q),
         NEW n \in Nat, RegularBelow(at, q, n), NEW left \in Nat, n = First(q) + left,
         NEW k \in Word, NEW st, LeavesAt(f, F, at, q, left, st, k)
  PROVE  LeavesAt(f, F, at, q, left, LeafRound(f.blk[at[q]], 0, 0, st, k), k + 1)
<1> DEFINE c == Kid(q, k)
           x == k * A
           dind == f.blk[at[q]]
           st2 == LeafRound(dind, 0, 0, st, k)
<1>1. q \in Sites /\ q[2] # 0 /\ at[q] \in Pool /\ at[q] > 0 /\ at[q] \in DataRegion
  BY PoolIs DEF Placed
<1>2. A \in Nat /\ A >= 1 /\ k \in Nat /\ NUM_OF_SINGLE_INDIRECT_BLOCK_ADDR = A
  BY Sizes DEF NUM_OF_SINGLE_INDIRECT_BLOCK_ADDR, A
<1>3. x \in Nat /\ (k + 1) * A = x + A  BY <1>2
<1>4. W(q[2] - 1) = A  BY Weights
<1>5. c \in Sites /\ c[2] = 1 /\ First(c) = First(q) + x /\ First(q) \in Nat
  BY <1>1, <1>4, KidIs, SiteIs
<1>6. Under(q, k + 1) = Under(q, k) \union Below(c) /\ Under(q, k) \intersect Below(c) = {}
      /\ Below(c) \subseteq Below(q) /\ c \in Below(c)
  BY <1>1, UnderNext, BelowKid
<1>7. Img(at, Under(q, k + 1)) = Img(at, Under(q, k)) \union Img(at, Below(c))  BY <1>6 DEF Img
<1>8. PICK f1, end : /\ Freed(f, F, f1, Img(at, Under(q, k)))
                     /\ \/ st = Running(f1, end) /\ end = left - x /\ left > x
                        \/ st = Ended(f1, end) /\ end \in 1 .. A /\ left <= x
  BY DEF LeavesAt
<1> SUFFICES LeavesAt(f, F, at, q, left, st2, k + 1)  OBVIOUS
<1>9. CASE st = Ended(f1, end) /\ end \in 1 .. A /\ left <= x
  <2>1. st2 = st  BY <1>9 DEF LeafRound, Ended
  <2>2. Below(c) \intersect DOMAIN at = {}
    <3> SUFFICES ASSUME NEW p \in Below(c), p \in DOMAIN at PROVE FALSE
      OBVIOUS
    <3>1. First(p) < n  BY <1>6 DEF RegularBelow
    <3>2. First(c) <= First(p) /\ First(p) \in Nat  BY SiteIs DEF Below
    <3> HIDE DEF x
    <3> QED BY <3>1, <3>2, <1>3, <1>5, <1>9
  <2>3. Img(at, Under(q, k + 1)) = Img(at, Under(q, k))  BY <2>2, <1>6 DEF Img
  <2>4. left <= (k + 1) * A
    <3> HIDE DEF x
    <3> QED BY <1>2, <1>3, <1>9
  <2> QED BY <2>1, <2>3, <2>4, <1>8, <1>9 DEF LeavesAt
<1>10. CASE st = Running(f1, end) /\ end = left - x /\ left > x
  <2>1. end \in Nat /\ end > 0
    <3> HIDE DEF x
    <3> QED BY <1>3, <1>10
  <2>2. c \in DOMAIN at
    <3>1. First(c) < n
      <4> HIDE DEF x
      <4> QED BY <1>3, <1>5, <1>10
    <3> QED BY <3>1, <1>6 DEF RegularBelow
  <2>3. dind[k] = at[c] /\ at[c] > 0 /\ at[c] \in Nat
    <3>1. q \in Below(q)  BY <1>1, BelowIs
    <3>2. Points(dind, at, q) \/ Points(f.blk, at, q)  BY <3>1, <1>1 DEF Held
    <3>3. Points(f.blk, at, q)  BY <3>1, <1>1 DEF Held
    <3>4. dind[k] = at[c]  BY <3>3, <2>2 DEF Points, EntryAt
    <3>5. at[c] \in Pool  BY <2>2 DEF Placed
    <3> QED BY <3>4, <3>5, PoolIs
  <2>4. \A m \in Word : m < end <=> Kid(c, m) \in DOMAIN at
    <3> SUFFICES ASSUME NEW m \in Word PROVE m < end <=> Kid(c, m) \in DOMAIN at
      OBVIOUS
    <3>1. Kid(c, m) \in Sites /\ First(Kid(c, m)) = First(c) + m * W(0) /\ m \in Nat
      <4> HIDE DEF c
      <4>1. c[2] - 1 = 0 /\ c[2] # 0  BY <1>5
      <4>2. Kid(c, m) \in Sites /\ First(Kid(c, m)) = First(c) + m * W(c[2] - 1)  BY <1>5, <4>1, KidIs
      <4> QED BY <4>1, <4>2, Sizes
    <3>2. First(Kid(c, m)) = First(c) + m  BY <3>1, Weights
    <3>3. Kid(c, m) \in Below(q)  BY <1>5, <1>6, BelowKid
    <3>4. Kid(c, m) \in DOMAIN at <=> First(c) + m < n  BY <3>2, <3>3 DEF RegularBelow
    <3> HIDE DEF x, c
    <3> QED BY <3>1, <3>4, <1>3, <1>5, <1>10
  <2> HIDE DEF c, dind
  <2>5. Held(f1, F \union Img(at, Under(q, k)), at, c)  BY <1>5, <1>6, <1>8, HeldApart
  <2>6. PICK f2 : /\ FreeIf(TrimBlock(Running(f1, end), at[c], 0, end), TRUE, at[c]) = Running(f2, end)
                  /\ Freed(f1, F \union Img(at, Under(q, k)), f2, Img(at, Below(c)))
    BY <2>1, <2>2, <2>4, <2>5, <1>5, WholeBlock
  <2>7. Freed(f, F, f2, Img(at, Under(q, k + 1)))  BY <2>6, <1>7, <1>8, FreedMore
  <2>8. st2 = PastBlock(Running(f2, end), 0)
    <3>1. ~(~st.ok \/ st.reached) /\ st.end = end /\ ~(dind[k] <= 0)  BY <1>10, <2>3 DEF Running
    <3>2. (IF k = 0 THEN 0 ELSE 0) = 0  OBVIOUS
    <3>3. st2 = PastBlock(FreeIf(TrimBlock(st, dind[k], 0, st.end), 0 = 0, dind[k]), 0)
      BY <3>1, <3>2 DEF LeafRound
    <3>4. (0 = 0) = TRUE  OBVIOUS
    <3> QED BY <3>1, <3>3, <3>4, <2>3, <2>6, <1>10
  <2> HIDE DEF st2
  <2>9. CASE end <= A
    <3>1. st2 = Ended(f2, end)  BY <2>8, <2>9, <2>1, PastIs
    <3>2. end \in 1 .. A /\ left <= (k + 1) * A
      <4> HIDE DEF x
      <4> QED BY <2>1, <2>9, <1>2, <1>3, <1>10
    <3> QED BY <3>1, <3>2, <2>7 DEF LeavesAt
  <2>10. CASE end > A
    <3> DEFINE e == end - A
    <3>1. st2 = Running(f2, e)
      <4>1. ~(end <= A)  BY <2>10, <2>1, <1>2
      <4> QED BY <2>8, <2>1, <4>1, PastIs
    <3>2. e = left - (k + 1) * A /\ left > (k + 1) * A
      <4> HIDE DEF x
      <4> QED BY <2>1, <2>10, <1>2, <1>3, <1>10
    <3> HIDE DEF e
    <3> QED BY <3>1, <3>2, <2>7 DEF LeavesAt
  <2> QED BY <2>1, <2>9, <2>10, <1>2
<1> QED BY <1>8, <1>9, <1>10

\* What the loop over a double indirect block leaves, when left blocks are below it and end is
\* where the last one is in the last block of addresses.
TreeLeft(st, f, F, X, left, size) ==
  \E f2, end :
    /\ Freed(f, F, f2, X)
    /\ \/ st = Running(f2, end) /\ end = left - size /\ left > size
       \/ st = Ended(f2, end) /\ end \in 1 .. A /\ left <= size

\* The whole loop: all that is below a double indirect block is given up.
LEMMA WholeLeaves ==
  ASSUME NEW f, NEW F, NEW at, NEW q, Placed(at), Ordered(at), q \in DOMAIN at, q[2] = 2, Held(f, F, at, q),
         NEW n \in Nat, RegularBelow(at, q, n), NEW left \in Nat, n = First(q) + left, left > 0
  PROVE  TreeLeft(TrimLeaves(f, f.blk[at[q]], 0, 0, 0, left), f, F, Img(at, Under(q, A)), left, A2)
<1> DEFINE base == [fs |-> f, end |-> left, ok |-> TRUE, reached |-> FALSE]
           p == LeavesLoop(f.blk[at[q]], 0, 0, 0)
           g(k) == Folded(p, base, k)
           S == {k \in 0 .. A : LeavesAt(f, F, at, q, left, g(k), k)}
<1>1. A \in Nat /\ A - 0 = A /\ Word = 0 .. (A - 1) /\ A2 = A * A  BY Sizes
<1>2. TrimLeaves(f, f.blk[at[q]], 0, 0, 0, left) = g(A)  BY <1>1, LeavesFold
<1>3. p.loop = "leaves" /\ p.dind = f.blk[at[q]] /\ p.d0 = 0 /\ p.k0 = 0 /\ p.from = 0  BY DEF LeavesLoop
<1> HIDE DEF p, base
<1>4. g(0) = base /\ \A k \in Nat : g(k + 1) = Round(p, g(k), k + 1)
  <2> HIDE DEF g
  <2>1. Folded(p, base, 0) = base /\ \A k \in Nat : Folded(p, base, k + 1) = Round(p, Folded(p, base, k), k + 1)
    BY FoldStep
  <2> QED BY <2>1 DEF g
<1> HIDE DEF g
<1>5. 0 \in S
  <2>1. FreeIs(f, F)  BY DEF Held
  <2>2. Freed(f, F, f, {})  BY <2>1, FreedNone
  <2>3. q \in Sites /\ q[2] # 0  BY DEF Placed
  <2>4. Img(at, Under(q, 0)) = {}  BY <2>3, BelowIs DEF Img
  <2>5. g(0) = Running(f, left)  BY <1>4 DEF Running, base
  <2>6. left = left - 0 * A /\ left > 0 * A  BY <1>1
  <2>7. LeavesAt(f, F, at, q, left, g(0), 0)  BY <2>2, <2>4, <2>5, <2>6 DEF LeavesAt
  <2> QED BY <2>7, <1>1
<1>6. ASSUME NEW k \in 0 .. (A - 1), k \in S PROVE k + 1 \in S
  <2>1. k \in Word /\ k \in Nat /\ k + 1 \in 0 .. A  BY <1>1
  <2>2. g(k + 1) = LeafRound(f.blk[at[q]], 0, 0, g(k), k)
    <3>1. p.from + (k + 1) - 1 = k  BY <1>3, <2>1
    <3>2. g(k + 1) = Round(p, g(k), k + 1)  BY <1>4, <2>1
    <3> QED BY <3>1, <3>2, <1>3 DEF Round
  <2>3. LeavesAt(f, F, at, q, left, g(k), k)  BY <1>6
  <2>4. LeavesAt(f, F, at, q, left, LeafRound(f.blk[at[q]], 0, 0, g(k), k), k + 1)
    BY <2>1, <2>3, LeavesNext
  <2> QED BY <2>1, <2>2, <2>4
<1>7. A \in S
  <2> HIDE DEF S
  <2>1. \A k \in 0 .. A : k \in S  BY <1>1, <1>5, <1>6, Induction
  <2> QED BY <2>1, <1>1
<1>8. LeavesAt(f, F, at, q, left, g(A), A)  BY <1>7
<1> QED BY <1>1, <1>2, <1>8 DEF LeavesAt, TreeLeft

\* The blocks below the triple indirect block after k rounds of the loop over it.
TriplesAt(f, F, at, q, n, left, st, k) ==
  \E f2, end :
    /\ Freed(f, F, f2, Img(at, Under(q, k) \intersect Reg(n)))
    /\ \/ st = Running(f2, end) /\ end = left - k * A2 /\ left > k * A2
       \/ st = Ended(f2, end) /\ end \in 1 .. A /\ left <= k * A2

\* Below the entries of q that a file of n blocks uses there is what it uses.
EntriesRegular(at, q, n) ==
  /\ \A p \in Reg(n) : p \in DOMAIN at
  /\ \A k \in Word : First(Kid(q, k)) < n => RegularBelow(at, Kid(q, k), n)

\* One round of it.
LEMMA TriplesNext ==
  ASSUME NEW f, NEW F, NEW at, NEW q, Placed(at), Ordered(at), q \in DOMAIN at, q[2] = 3, Held(f, F, at, q),
         NEW n \in Nat, EntriesRegular(at, q, n), NEW left \in Nat, n = First(q) + left,
         NEW k \in Word, NEW st, TriplesAt(f, F, at, q, n, left, st, k)
  PROVE  TriplesAt(f, F, at, q, n, left, TripleRound(f.blk[at[q]], 0, 0, 0, st, k), k + 1)
<1> DEFINE c == Kid(q, k)
           x == k * A2
           tind == f.blk[at[q]]
           st2 == TripleRound(tind, 0, 0, 0, st, k)
           U(m) == Under(q, m) \intersect Reg(n)
<1>1. q \in Sites /\ q[2] # 0 /\ at[q] \in Pool /\ at[q] > 0 /\ at[q] \in DataRegion
  BY PoolIs DEF Placed
<1>2. A \in Nat /\ A >= 1 /\ k \in Nat /\ A2 \in Nat /\ A2 >= 1  BY Sizes
<1>3. x \in Nat /\ (k + 1) * A2 = x + A2  BY <1>2
<1>4. W(q[2] - 1) = A2  BY Weights
<1>5. c \in Sites /\ c[2] = 2 /\ First(c) = First(q) + x /\ First(q) \in Nat
  BY <1>1, <1>4, KidIs, SiteIs
<1>6. Under(q, k + 1) = Under(q, k) \union Below(c) /\ Under(q, k) \intersect Below(c) = {}
      /\ Below(c) \subseteq Below(q) /\ c \in Below(c)
  BY <1>1, UnderNext, BelowKid
<1>7. U(k + 1) = U(k) \union (Below(c) \intersect Reg(n))  BY <1>6
<1>8. PICK f1, end : /\ Freed(f, F, f1, Img(at, U(k)))
                     /\ \/ st = Running(f1, end) /\ end = left - x /\ left > x
                        \/ st = Ended(f1, end) /\ end \in 1 .. A /\ left <= x
  BY DEF TriplesAt
<1> SUFFICES TriplesAt(f, F, at, q, n, left, st2, k + 1)  OBVIOUS
<1>9. CASE st = Ended(f1, end) /\ end \in 1 .. A /\ left <= x
  <2>1. st2 = st  BY <1>9 DEF TripleRound, Ended
  <2>2. Below(c) \intersect Reg(n) = {}
    <3> SUFFICES ASSUME NEW p \in Below(c), p \in Reg(n) PROVE FALSE
      OBVIOUS
    <3>1. First(p) < n  BY DEF Reg
    <3>2. First(c) <= First(p) /\ First(p) \in Nat  BY SiteIs DEF Below
    <3> HIDE DEF x
    <3> QED BY <3>1, <3>2, <1>3, <1>5, <1>9
  <2>3. U(k + 1) = U(k)  BY <2>2, <1>7
  <2>4. left <= (k + 1) * A2
    <3> HIDE DEF x
    <3> QED BY <1>2, <1>3, <1>9
  <2>5. Freed(f, F, f1, Img(at, Under(q, k + 1) \intersect Reg(n)))  BY <2>3, <1>8
  <2> HIDE DEF U, st2
  <2> QED BY <2>1, <2>4, <2>5, <1>9 DEF TriplesAt
<1>10. CASE st = Running(f1, end) /\ end = left - x /\ left > x
  <2>1. end \in Nat /\ end > 0 /\ n = First(c) + end
    <3> HIDE DEF x
    <3> QED BY <1>3, <1>5, <1>10
  <2>2. First(c) < n
    <3> HIDE DEF x, c
    <3> QED BY <2>1, <1>3, <1>5
  <2>3. c \in DOMAIN at /\ RegularBelow(at, c, n)
    <3>1. c \in Reg(n)  BY <2>2, <1>5 DEF Reg
    <3> QED BY <2>2, <3>1 DEF EntriesRegular
  <2>4. tind[k] = at[c] /\ at[c] > 0 /\ at[c] \in Nat /\ at[c] \in Pool
    <3>1. q \in Below(q)  BY <1>1, BelowIs
    <3>2. Points(f.blk, at, q)  BY <3>1, <1>1 DEF Held
    <3>3. tind[k] = at[c]  BY <3>2, <2>3 DEF Points, EntryAt
    <3>4. at[c] \in Pool  BY <2>3 DEF Placed
    <3> QED BY <3>3, <3>4, PoolIs
  <2>5. Below(c) \intersect Reg(n) = Below(c) \intersect DOMAIN at
    <3>1. \A p \in Below(c) : p \in Sites  BY DEF Below
    <3> QED BY <3>1, <2>3 DEF RegularBelow, Reg
  <2>6. Img(at, U(k + 1)) = Img(at, U(k)) \union Img(at, Below(c))  BY <2>5, <1>7 DEF Img
  <2>7. f1.blk[at[c]] = f.blk[at[c]]
    <3>1. at[c] \notin Img(at, U(k))
      <4> SUFFICES ASSUME NEW p \in U(k) \intersect DOMAIN at, at[p] = at[c] PROVE FALSE
        BY DEF Img
      <4>1. p = c  BY <2>3 DEF Placed
      <4> QED BY <4>1, <1>6
    <3>2. at[c] \in DataRegion  BY <2>4, PoolIs
    <3> QED BY <3>1, <3>2, <1>8 DEF Freed, SameBut
  <2> HIDE DEF c, tind
  <2>8. U(k) \intersect Below(c) = {}  BY <1>6
  <2> HIDE DEF U
  <2>9. Held(f1, F \union Img(at, U(k)), at, c)  BY <1>5, <1>6, <1>8, <2>8, HeldApart
  <2> DEFINE tl == TrimLeaves(f1, f1.blk[at[c]], 0, 0, 0, end)
             F1 == F \union Img(at, U(k))
  <2>10. TreeLeft(tl, f1, F1, Img(at, Under(c, A)), end, A2)
    <3> HIDE DEF F1
    <3> QED BY <2>1, <2>3, <2>9, <1>5, WholeLeaves DEF F1
  <2>11. PICK f2, e : /\ Freed(f1, F1, f2, Img(at, Under(c, A)))
                      /\ \/ tl = Running(f2, e) /\ e = end - A2 /\ end > A2
                         \/ tl = Ended(f2, e) /\ e \in 1 .. A /\ end <= A2
    BY <2>10 DEF TreeLeft
  <2>12. c # q /\ c[2] # 0 /\ Below(c) = {c} \union Under(c, A) /\ c \notin Under(c, A)  BY <1>5, BelowIs
  <2>13. at[c] \notin F1 \union Img(at, Under(c, A))
    <3>1. at[c] \notin F1  BY <2>9, <2>3, <1>6 DEF Held
    <3>2. ASSUME NEW p \in Under(c, A) \intersect DOMAIN at, at[p] = at[c] PROVE FALSE
      <4>1. p = c  BY <2>3, <3>2 DEF Placed
      <4> QED BY <4>1, <2>12
    <3> QED BY <3>1, <3>2 DEF Img
  <2> DEFINE F2 == F1 \union Img(at, Under(c, A))
             f3 == free_data_block(f2, at[c]).fs
  <2>14. free_data_block(f2, at[c]).ok = TRUE /\ Freed(f2, F2, f3, {at[c]})
    <3>1. FreeIs(f2, F2)  BY <2>11 DEF Freed
    <3> HIDE DEF F2
    <3> QED BY <3>1, <2>4, <2>13, FreedOne DEF F2
  <2>15. Freed(f, F, f3, Img(at, Under(q, k + 1) \intersect Reg(n)))
    <3>1. Freed(f1, F1, f3, Img(at, Under(c, A)) \union {at[c]})
      <4> HIDE DEF F1, f3
      <4> QED BY <2>11, <2>14, FreedMore DEF F2
    <3>2. Img(at, Under(c, A)) \union {at[c]} = Img(at, Below(c))  BY <2>3, <2>12 DEF Img
    <3>3. Freed(f, F, f3, Img(at, U(k)) \union Img(at, Below(c)))
      <4> HIDE DEF f3
      <4> QED BY <3>1, <3>2, <1>8, FreedMore
    <3> QED BY <3>3, <2>6 DEF U
  <2>16. st2 = [tl EXCEPT !.fs = f3, !.ok = TRUE]
    <3>1. ~(~st.ok \/ st.reached) /\ st.end = end /\ ~(tind[k] <= 0) /\ st.fs = f1
      BY <1>10, <2>4 DEF Running
    <3>2. (IF k = 0 THEN 0 ELSE 0) = 0  OBVIOUS
    <3>3. st2 = FreeIf(TrimLeaves(f1, f1.blk[at[c]], 0, 0, 0, end), 0 = 0, at[c])
      BY <3>1, <3>2, <2>4 DEF TripleRound
    <3>4. tl.ok = TRUE /\ tl.fs = f2  BY <2>11 DEF Running, Ended
    <3> HIDE DEF st2
    <3> QED BY <3>3, <3>4, <2>14 DEF FreeIf
  <2> HIDE DEF st2, f3
  <2>17. CASE tl = Running(f2, e) /\ e = end - A2 /\ end > A2
    <3>1. st2 = Running(f3, e)
      <4>1. tl = [fs |-> f2, end |-> e, ok |-> TRUE, reached |-> FALSE]  BY <2>17 DEF Running
      <4> HIDE DEF tl
      <4>2. st2 = [fs |-> f3, end |-> e, ok |-> TRUE, reached |-> FALSE]  BY <4>1, <2>16
      <4> QED BY <4>2 DEF Running
    <3>2. e = left - (k + 1) * A2 /\ left > (k + 1) * A2
      <4> HIDE DEF x
      <4> QED BY <2>1, <2>17, <1>2, <1>3, <1>10
    <3> QED BY <3>1, <3>2, <2>15 DEF TriplesAt
  <2>18. CASE tl = Ended(f2, e) /\ e \in 1 .. A /\ end <= A2
    <3>1. st2 = Ended(f3, e)
      <4>1. tl = [fs |-> f2, end |-> e, ok |-> TRUE, reached |-> TRUE]  BY <2>18 DEF Ended
      <4> HIDE DEF tl
      <4>2. st2 = [fs |-> f3, end |-> e, ok |-> TRUE, reached |-> TRUE]  BY <4>1, <2>16
      <4> QED BY <4>2 DEF Ended
    <3>2. left <= (k + 1) * A2
      <4> HIDE DEF x
      <4> QED BY <2>1, <2>18, <1>2, <1>3, <1>10
    <3> QED BY <3>1, <3>2, <2>15, <2>18 DEF TriplesAt
  <2> QED BY <2>11, <2>17, <2>18
<1> QED BY <1>8, <1>9, <1>10

\* The whole loop over the triple indirect block.
LEMMA WholeTriple ==
  ASSUME NEW f, NEW F, NEW at, NEW q, Placed(at), Ordered(at), q \in DOMAIN at, q[2] = 3, Held(f, F, at, q),
         NEW n \in Nat, EntriesRegular(at, q, n), NEW left \in Nat, n = First(q) + left, left > 0
  PROVE  TreeLeft(TrimTriple(f, f.blk[at[q]], 0, 0, 0, left), f, F, Img(at, Under(q, A) \intersect Reg(n)), left, A3)
<1> DEFINE base == [fs |-> f, end |-> left, ok |-> TRUE, reached |-> FALSE]
           p == TripleLoop(f.blk[at[q]], 0, 0, 0)
           g(k) == Folded(p, base, k)
           S == {k \in 0 .. A : TriplesAt(f, F, at, q, n, left, g(k), k)}
<1>1. A \in Nat /\ A - 0 = A /\ Word = 0 .. (A - 1) /\ A3 = A2 * A /\ A2 \in Nat  BY Sizes
<1>2. TrimTriple(f, f.blk[at[q]], 0, 0, 0, left) = g(A)  BY <1>1, TripleFold
<1>3. p.loop = "triple" /\ p.tind = f.blk[at[q]] /\ p.d0 = 0 /\ p.k0 = 0 /\ p.from = 0  BY DEF TripleLoop
<1> HIDE DEF p, base
<1>4. g(0) = base /\ \A k \in Nat : g(k + 1) = Round(p, g(k), k + 1)
  <2> HIDE DEF g
  <2>1. Folded(p, base, 0) = base /\ \A k \in Nat : Folded(p, base, k + 1) = Round(p, Folded(p, base, k), k + 1)
    BY FoldStep
  <2> QED BY <2>1 DEF g
<1> HIDE DEF g
<1>5. 0 \in S
  <2>1. FreeIs(f, F)  BY DEF Held
  <2>2. Freed(f, F, f, {})  BY <2>1, FreedNone
  <2>3. q \in Sites /\ q[2] # 0  BY DEF Placed
  <2>4. Img(at, Under(q, 0) \intersect Reg(n)) = {}  BY <2>3, BelowIs DEF Img
  <2>5. g(0) = Running(f, left)  BY <1>4 DEF Running, base
  <2>6. left = left - 0 * A2 /\ left > 0 * A2  BY <1>1
  <2>7. TriplesAt(f, F, at, q, n, left, g(0), 0)  BY <2>2, <2>4, <2>5, <2>6 DEF TriplesAt
  <2> QED BY <2>7, <1>1
<1>6. ASSUME NEW k \in 0 .. (A - 1), k \in S PROVE k + 1 \in S
  <2>1. k \in Word /\ k \in Nat /\ k + 1 \in 0 .. A  BY <1>1
  <2>2. g(k + 1) = TripleRound(f.blk[at[q]], 0, 0, 0, g(k), k)
    <3>1. p.from + (k + 1) - 1 = k  BY <1>3, <2>1
    <3>2. g(k + 1) = Round(p, g(k), k + 1)  BY <1>4, <2>1
    <3> QED BY <3>1, <3>2, <1>3 DEF Round
  <2>3. TriplesAt(f, F, at, q, n, left, g(k), k)  BY <1>6
  <2>4. TriplesAt(f, F, at, q, n, left, TripleRound(f.blk[at[q]], 0, 0, 0, g(k), k), k + 1)
    BY <2>1, <2>3, TriplesNext
  <2> QED BY <2>1, <2>2, <2>4
<1>7. A \in S
  <2> HIDE DEF S
  <2>1. \A k \in 0 .. A : k \in S  BY <1>1, <1>5, <1>6, Induction
  <2> QED BY <2>1, <1>1
<1>8. TriplesAt(f, F, at, q, n, left, g(A), A)  BY <1>7
<1>9. A * A2 = A3  BY <1>1
<1> QED BY <1>2, <1>8, <1>9 DEF TriplesAt, TreeLeft

--------------------
(* One block of addresses: the loops from the middle of a block on *)

\* A loop that has reached its end goes on without doing anything.
StaysLeaf(p, st) == \A k \in Nat : LeafRound(p.dind, p.d0, p.k0, st, p.from + (k + 1) - 1) = st
StaysTriple(p, st) == \A k \in Nat : TripleRound(p.tind, p.from, p.d0, p.k0, st, p.from + (k + 1) - 1) = st

Stays(p, st) == (p.loop = "leaves" /\ StaysLeaf(p, st)) \/ (p.loop = "triple" /\ StaysTriple(p, st))

\* The loops do nothing more behind their end.
LEMMA LeavesStay ==
  ASSUME NEW f, NEW end, NEW p
  PROVE  StaysLeaf(p, Ended(f, end)) /\ StaysTriple(p, Ended(f, end))
<1>1. Ended(f, end).ok = TRUE /\ Ended(f, end).reached = TRUE  BY DEF Ended
<1> QED BY <1>1 DEF StaysLeaf, StaysTriple, LeafRound, TripleRound

\* What a fold has after its first round it keeps.
LEMMA FirstRound ==
  ASSUME NEW p, NEW base, NEW st, Round(p, base, 1) = st, NEW n \in Nat, n >= 1,
         Stays(p, st)
  PROVE  Folded(p, base, n) = st
<1> DEFINE g(k) == Folded(p, base, k)
           S == {k \in 0 .. (n - 1) : g(k + 1) = st}
<1>1. g(0) = base /\ \A k \in Nat : g(k + 1) = Round(p, g(k), k + 1)
  <2> HIDE DEF g
  <2>1. Folded(p, base, 0) = base /\ \A k \in Nat : Folded(p, base, k + 1) = Round(p, Folded(p, base, k), k + 1)
    BY FoldStep
  <2> QED BY <2>1 DEF g
<1> HIDE DEF g
<1>2. n - 1 \in Nat  OBVIOUS
<1>3. 0 \in S
  <2>1. g(0 + 1) = Round(p, g(0), 0 + 1) /\ 0 + 1 = 1  BY <1>1
  <2> QED BY <2>1, <1>1, <1>2
<1>4. ASSUME NEW k \in 0 .. ((n - 1) - 1), k \in S PROVE k + 1 \in S
  <2>1. k + 1 \in 0 .. (n - 1) /\ k + 1 \in Nat  OBVIOUS
  <2>2. g(k + 1) = st  BY <1>4
  <2>3. g((k + 1) + 1) = Round(p, st, (k + 1) + 1)  BY <1>1, <2>1, <2>2
  <2>4. Round(p, st, (k + 1) + 1) = st
    <3>1. CASE p.loop = "leaves" /\ StaysLeaf(p, st)
      BY <3>1, <2>1 DEF Round, StaysLeaf
    <3>2. CASE p.loop = "triple" /\ StaysTriple(p, st)
      BY <3>2, <2>1 DEF Round, StaysTriple
    <3> QED BY <3>1, <3>2 DEF Stays
  <2> QED BY <2>1, <2>3, <2>4
<1>5. n - 1 \in S
  <2> HIDE DEF S
  <2>1. \A k \in 0 .. (n - 1) : k \in S  BY <1>2, <1>3, <1>4, Induction
  <2> QED BY <2>1, <1>2
<1>6. (n - 1) + 1 = n  OBVIOUS
<1>7. g(n) = st  BY <1>5, <1>6
<1> QED BY <1>7 DEF g

\* Entries k0 .. end - 1 of the block of addresses at entry d of a double indirect block.
LEMMA PartOfLeaves ==
  ASSUME NEW f, NEW F, NEW at, NEW q, Placed(at), Ordered(at), q \in DOMAIN at, q[2] = 1, Held(f, F, at, q),
         NEW dind, NEW d \in Word, dind[d] = at[q], NEW k0 \in Nat, k0 > 0, NEW end \in Nat, k0 <= end, end <= A,
         Filled(at, q, end)
  PROVE  \E f2 : TrimLeaves(f, dind, d, d, k0, end) = Ended(f2, end) /\ Trimmed(f, F, at, q, k0, end, f2)
<1> DEFINE base == Running(f, end)
           p == LeavesLoop(dind, d, d, k0)
<1>1. A \in Nat /\ Word = 0 .. (A - 1) /\ NUM_OF_SINGLE_INDIRECT_BLOCK_ADDR = A
  BY Sizes DEF NUM_OF_SINGLE_INDIRECT_BLOCK_ADDR, A
<1>2. A - d \in Nat /\ A - d >= 1  BY <1>1
<1>3. TrimLeaves(f, dind, d, d, k0, end) = Folded(p, base, A - d)  BY <1>2, LeavesFold DEF Running
<1>4. p.loop = "leaves" /\ p.dind = dind /\ p.d0 = d /\ p.k0 = k0 /\ p.from = d  BY DEF LeavesLoop
<1>5. base.fs = f /\ base.ok = TRUE /\ base.reached = FALSE /\ base.end = end  BY DEF Running
<1> HIDE DEF p, base
<1>6. PICK f2 : /\ TrimBlock(base, at[q], k0, end) = Onward(base, f2)
                /\ Trimmed(f, F, at, q, k0, end, f2)
  BY <1>5, BlockTrimmed
<1>7. Onward(base, f2) = Running(f2, end)  BY RunningOn DEF base
<1>8. at[q] > 0
  <2>1. at[q] \in Pool  BY DEF Placed
  <2> QED BY <2>1, PoolIs
<1>9. Round(p, base, 1) = PastBlock(FreeIf(Running(f2, end), k0 = 0, at[q]), k0)
  <2>1. p.from + 1 - 1 = d  BY <1>1, <1>4
  <2>2. Round(p, base, 1) = LeafRound(dind, d, k0, base, d)  BY <2>1, <1>4 DEF Round
  <2>3. ~(dind[d] <= 0) /\ at[q] \in Int /\ ~(~base.ok \/ base.reached)
    <3>1. at[q] \in Pool  BY DEF Placed
    <3> QED BY <3>1, <1>5, <1>8, PoolIs
  <2> QED BY <2>2, <2>3, <1>5, <1>6, <1>7 DEF LeafRound
<1>10. FreeIf(Running(f2, end), k0 = 0, at[q]) = Running(f2, end)
  <2>1. (k0 = 0) = FALSE  OBVIOUS
  <2> QED BY <2>1 DEF FreeIf
<1>11. PastBlock(Running(f2, end), k0) = Ended(f2, end)
  <2> DEFINE st == Running(f2, end)
             r == PastBlock(st, k0)
  <2>1. st = [fs |-> f2, end |-> end, ok |-> TRUE, reached |-> FALSE]  BY DEF Running
  <2> HIDE DEF st
  <2>2. r = [st EXCEPT !.reached = TRUE]  BY <2>1, <1>1 DEF PastBlock
  <2> HIDE DEF r
  <2>3. r = [fs |-> f2, end |-> end, ok |-> TRUE, reached |-> TRUE]  BY <2>1, <2>2
  <2> QED BY <2>3 DEF Ended, r, st
<1>12. Round(p, base, 1) = Ended(f2, end)  BY <1>9, <1>10, <1>11
<1>13. Stays(p, Ended(f2, end))  BY <1>4, LeavesStay DEF Stays
<1>14. Folded(p, base, A - d) = Ended(f2, end)  BY <1>2, <1>4, <1>12, <1>13, FirstRound
<1> QED BY <1>3, <1>6, <1>14

\* The same below entry t of the triple indirect block, behind its first block of addresses.
LEMMA PartOfTriple ==
  ASSUME NEW f, NEW F, NEW at, NEW q, Placed(at), Ordered(at), q \in DOMAIN at, q[2] = 1, Held(f, F, at, q),
         NEW tind, NEW t \in Word, NEW d \in Word, d > 0, tind[t] > 0, tind[t] \in Nat, f.blk[tind[t]][d] = at[q],
         NEW k0 \in Nat, k0 > 0, NEW end \in Nat, k0 <= end, end <= A, Filled(at, q, end)
  PROVE  \E f2 : TrimTriple(f, tind, t, d, k0, end) = Ended(f2, end) /\ Trimmed(f, F, at, q, k0, end, f2)
<1> DEFINE base == Running(f, end)
           p == TripleLoop(tind, t, d, k0)
<1>1. A \in Nat /\ Word = 0 .. (A - 1)  BY Sizes
<1>2. A - t \in Nat /\ A - t >= 1  BY <1>1
<1>3. TrimTriple(f, tind, t, d, k0, end) = Folded(p, base, A - t)  BY <1>2, TripleFold DEF Running
<1>4. p.loop = "triple" /\ p.tind = tind /\ p.d0 = d /\ p.k0 = k0 /\ p.from = t  BY DEF TripleLoop
<1>5. base.fs = f /\ base.ok = TRUE /\ base.reached = FALSE /\ base.end = end  BY DEF Running
<1> HIDE DEF p, base
<1>6. PICK f2 : TrimLeaves(f, f.blk[tind[t]], d, d, k0, end) = Ended(f2, end) /\ Trimmed(f, F, at, q, k0, end, f2)
  BY PartOfLeaves
<1>7. Round(p, base, 1) = FreeIf(Ended(f2, end), d = 0, tind[t])
  <2>1. p.from + 1 - 1 = t  BY <1>1, <1>4
  <2>2. Round(p, base, 1) = TripleRound(tind, t, d, k0, base, t)  BY <2>1, <1>4 DEF Round
  <2>3. ~(tind[t] <= 0) /\ ~(~base.ok \/ base.reached)  BY <1>5
  <2> QED BY <2>2, <2>3, <1>5, <1>6 DEF TripleRound
<1>8. FreeIf(Ended(f2, end), d = 0, tind[t]) = Ended(f2, end)
  <2>1. (d = 0) = FALSE  BY <1>1
  <2> QED BY <2>1 DEF FreeIf
<1>9. Round(p, base, 1) = Ended(f2, end)  BY <1>7, <1>8
<1>10. Stays(p, Ended(f2, end))  BY <1>4, LeavesStay DEF Stays
<1>11. Folded(p, base, A - t) = Ended(f2, end)  BY <1>2, <1>4, <1>9, <1>10, FirstRound
<1> QED BY <1>3, <1>6, <1>11

--------------------
(* The inode in memory and the roots of its trees *)

\* A state of a removal that did not fail.
Removing(f, node) == [fs |-> f, node |-> node, ok |-> TRUE]

\* The three roots are different fields of the inode.
LEMMA RootsAre ==
  /\ Roots[1] = "singleIndirect" /\ Roots[2] = "doubleIndirect" /\ Roots[3] = "tripleIndirect"
  /\ Len(Roots) = 3 /\ \A r, s \in 1 .. 3 : Roots[r] = Roots[s] => r = s
<1>1. Roots[1] = "singleIndirect" /\ Roots[2] = "doubleIndirect" /\ Roots[3] = "tripleIndirect" /\ Len(Roots) = 3
  BY DEF Roots
<1>2. \A r \in 1 .. 3 : r = 1 \/ r = 2 \/ r = 3  OBVIOUS
<1>3. "singleIndirect" # "doubleIndirect" /\ "singleIndirect" # "tripleIndirect" /\ "doubleIndirect" # "tripleIndirect"
  OBVIOUS
<1> HIDE DEF Roots
<1> QED BY <1>1, <1>2, <1>3

\* Two inodes that differ in the roots l .. u - 1 at most, which the second one has no more.
Uprooted(node, node2, l, u) ==
  /\ node2 \in InodeStruct /\ node2.blocks = node.blocks /\ node2.directAddresses = node.directAddresses
  /\ \A r \in 1 .. 3 : node2[Roots[r]] = IF l <= r /\ r < u THEN 0 ELSE node[Roots[r]]

\* The fields of an inode.
LEMMA NodeIs ==
  ASSUME NEW node \in InodeStruct
  PROVE  /\ node.blocks \in 0 .. MaxBlocks /\ node.blocks \in Nat
         /\ Addresses(node.directAddresses, 0 .. (NUM_DIRECT_BLOCKS - 1))
         /\ \A r \in 1 .. 3 : node[Roots[r]] \in Int
<1>1. /\ node.blocks \in 0 .. MaxBlocks /\ node.directAddresses \in [0 .. (NUM_DIRECT_BLOCKS - 1) -> Int]
      /\ node.singleIndirect \in Int /\ node.doubleIndirect \in Int /\ node.tripleIndirect \in Int
  BY DEF InodeStruct
<1>2. \A r \in 1 .. 3 : r = 1 \/ r = 2 \/ r = 3  OBVIOUS
<1>3. node.blocks \in Nat  BY <1>1, Starts
<1>4. \A r \in 1 .. 3 : node[Roots[r]] \in Int  BY <1>1, <1>2, RootsAre
<1> QED BY <1>1, <1>3, <1>4 DEF Addresses

\* One field of it changes.
LEMMA RootEdit ==
  ASSUME NEW node \in InodeStruct, NEW r \in 1 .. 3, NEW v \in Int
  PROVE  /\ [node EXCEPT ![Roots[r]] = v] \in InodeStruct
         /\ [node EXCEPT ![Roots[r]] = v].blocks = node.blocks
         /\ [node EXCEPT ![Roots[r]] = v].directAddresses = node.directAddresses
         /\ \A s \in 1 .. 3 : [node EXCEPT ![Roots[r]] = v][Roots[s]] = IF s = r THEN v ELSE node[Roots[s]]
<1>1. r = 1 \/ r = 2 \/ r = 3  OBVIOUS
<1>2. \A s \in 1 .. 3 : s = 1 \/ s = 2 \/ s = 3  OBVIOUS
<1>3. /\ [node EXCEPT !.singleIndirect = v] \in InodeStruct /\ [node EXCEPT !.doubleIndirect = v] \in InodeStruct
      /\ [node EXCEPT !.tripleIndirect = v] \in InodeStruct
  BY DEF InodeStruct
<1>4. [node EXCEPT ![Roots[r]] = v] \in InodeStruct  BY <1>1, <1>3, RootsAre
<1>5. /\ [node EXCEPT ![Roots[r]] = v].blocks = node.blocks
      /\ [node EXCEPT ![Roots[r]] = v].directAddresses = node.directAddresses
  BY <1>1, RootsAre DEF InodeStruct
<1>6. ASSUME NEW s \in 1 .. 3
      PROVE  [node EXCEPT ![Roots[r]] = v][Roots[s]] = IF s = r THEN v ELSE node[Roots[s]]
  <2>1. Roots[s] \in DOMAIN node  BY <1>2, RootsAre DEF InodeStruct
  <2>2. CASE s = r
    BY <2>1, <2>2
  <2>3. CASE s # r
    <3>1. Roots[s] # Roots[r]  BY <2>3, RootsAre
    <3> QED BY <2>1, <2>3, <3>1
  <2> QED BY <2>2, <2>3
<1> QED BY <1>4, <1>5, <1>6

\* Another number of blocks leaves the addresses as they are.
LEMMA BlocksEdit ==
  ASSUME NEW node \in InodeStruct, NEW n \in 0 .. MaxBlocks
  PROVE  /\ [node EXCEPT !.blocks = n] \in InodeStruct
         /\ [node EXCEPT !.blocks = n].blocks = n
         /\ [node EXCEPT !.blocks = n].directAddresses = node.directAddresses
         /\ \A s \in 1 .. 3 : [node EXCEPT !.blocks = n][Roots[s]] = node[Roots[s]]
<1>1. \A s \in 1 .. 3 : s = 1 \/ s = 2 \/ s = 3  OBVIOUS
<1>2. [node EXCEPT !.blocks = n] \in InodeStruct  BY DEF InodeStruct
<1>3. [node EXCEPT !.blocks = n].blocks = n /\ [node EXCEPT !.blocks = n].directAddresses = node.directAddresses
  BY DEF InodeStruct
<1>4. \A s \in 1 .. 3 : [node EXCEPT !.blocks = n][Roots[s]] = node[Roots[s]]
  BY <1>1, RootsAre DEF InodeStruct
<1> QED BY <1>2, <1>3, <1>4

\* Other direct addresses leave the rest as it is.
LEMMA DirectEdit ==
  ASSUME NEW node \in InodeStruct, NEW addr, Addresses(addr, 0 .. (NUM_DIRECT_BLOCKS - 1))
  PROVE  /\ [node EXCEPT !.directAddresses = addr] \in InodeStruct
         /\ [node EXCEPT !.directAddresses = addr].blocks = node.blocks
         /\ [node EXCEPT !.directAddresses = addr].directAddresses = addr
         /\ \A s \in 1 .. 3 : [node EXCEPT !.directAddresses = addr][Roots[s]] = node[Roots[s]]
<1>1. \A s \in 1 .. 3 : s = 1 \/ s = 2 \/ s = 3  OBVIOUS
<1>2. [node EXCEPT !.directAddresses = addr] \in InodeStruct  BY DEF InodeStruct, Addresses
<1>3. [node EXCEPT !.directAddresses = addr].blocks = node.blocks /\ [node EXCEPT !.directAddresses = addr].directAddresses = addr
  BY DEF InodeStruct
<1>4. \A s \in 1 .. 3 : [node EXCEPT !.directAddresses = addr][Roots[s]] = node[Roots[s]]
  BY <1>1, RootsAre DEF InodeStruct
<1> QED BY <1>2, <1>3, <1>4

\* The roots that a file of n blocks uses.
LEMMA LevelsIs ==
  ASSUME NEW n \in 0 .. MaxBlocks
  PROVE  Levels(n) \in 0 .. 3 /\ \A r \in 1 .. 3 : r <= Levels(n) <=> Start(r) < n
<1>1. n \in Nat  BY Starts
<1>2. /\ n <= SingleStart => Levels(n) = 0
      /\ SingleStart < n /\ n <= DoubleStart => Levels(n) = 1
      /\ DoubleStart < n /\ n <= TripleStart => Levels(n) = 2
      /\ TripleStart < n => Levels(n) = 3
  BY <1>1, Starts DEF Levels
<1>3. \A r \in 1 .. 3 : r = 1 \/ r = 2 \/ r = 3  OBVIOUS
<1> QED BY <1>1, <1>2, <1>3, Starts

\* The sites of the roots l .. u - 1.
InLevels(l, u) == {p \in Sites : l <= p[1] /\ p[1] < u}

\* All sites of a root are below it.
LEMMA RootIs ==
  ASSUME NEW r \in 1 .. 3
  PROVE  /\ Root(r) \in Sites /\ Root(r)[1] = r /\ Root(r)[2] = r /\ First(Root(r)) = Start(r)
         /\ Below(Root(r)) = {p \in Sites : p[1] = r}
<1>1. Root(r)[1] = r /\ Root(r)[2] = r /\ Root(r)[3] = 0  BY DEF Root
<1>2. Width(r, r) = 1 /\ Start(r + 1) = Start(r) + W(r) /\ Start(r) \in Nat /\ W(r) \in Nat
  BY Widths, Weights
<1>3. Root(r) \in Sites  BY <1>1, <1>2 DEF Sites, Root
<1>4. First(Root(r)) = Start(r)  BY <1>1, <1>2 DEF First
<1>5. ASSUME NEW p \in Sites, p[1] = r
      PROVE  p[2] <= r /\ Start(r) <= First(p) /\ First(p) < Start(r) + W(r)
  BY <1>2, <1>5, SiteIs, SiteEnds
<1> QED BY <1>1, <1>3, <1>4, <1>5 DEF Below

\* The root of a level is where the inode says.
Rooted(node, at, r) == Root(r) \in DOMAIN at /\ node[Roots[r]] = at[Root(r)]

\* One root with all that is below it is given up.
LEMMA RootDropped ==
  ASSUME NEW f, NEW F, NEW at, Placed(at), Ordered(at), NEW r \in 1 .. 3, NEW node \in InodeStruct, Rooted(node, at, r),
         Held(f, F, at, Root(r))
  PROVE  \E f2 : /\ DropRoot(Removing(f, node), Roots[r]) = Removing(f2, [node EXCEPT ![Roots[r]] = 0])
                 /\ Freed(f, F, f2, Img(at, InLevels(r, r + 1)))
<1> DEFINE b == at[Root(r)]
           st == Removing(f, node)
           f2 == NestedAt(r, f, b)
<1>1. Root(r) \in DOMAIN at /\ node[Roots[r]] = b /\ b \in Pool /\ ~(b <= 0)
  <2>1. b \in Pool  BY DEF Rooted, Placed
  <2> QED BY <2>1, PoolIs DEF Rooted
<1>2. Root(r)[2] = r /\ Below(Root(r)) = InLevels(r, r + 1)  BY RootIs, SiteIs DEF InLevels
<1>3. Freed(f, F, f2, Img(at, InLevels(r, r + 1)))
  <2>1. Root(r)[2] \in 0 .. 3  BY <1>2
  <2> QED BY <2>1, <1>1, <1>2, NestedFrees
<1>4. r = 1 \/ r = 2 \/ r = 3  OBVIOUS
<1>5. st.fs = f /\ st.node = node /\ st.ok = TRUE  BY DEF Removing
<1>6. (CASE Roots[r] = "singleIndirect" -> Nested1(f, b)
         [] Roots[r] = "doubleIndirect" -> Nested2(f, b)
         [] Roots[r] = "tripleIndirect" -> Nested3(f, b)) = f2
  <2> HIDE DEF b
  <2> QED BY <1>4, RootsAre DEF NestedAt
<1> HIDE DEF b, f2, st
<1>7. DropRoot(st, Roots[r]) = Removing(f2, [node EXCEPT ![Roots[r]] = 0])
  BY <1>1, <1>5, <1>6 DEF DropRoot, Removing
<1> QED BY <1>3, <1>7 DEF st

\* The state of DropFrom after some rounds: the roots level .. u - 1 are gone.
DroppedTo(f, F, at, node, level, u, st) ==
  \E f2, node2 :
    /\ st = Removing(f2, node2)
    /\ Uprooted(node, node2, level, u)
    /\ Freed(f, F, f2, Img(at, InLevels(level, u)))

\* The roots level .. m have blocks that are in use and linked.
RootsHeld(f, F, at, node, level, m) ==
  \A r \in level .. m : Rooted(node, at, r) /\ Held(f, F, at, Root(r))

\* One round of it.
LEMMA DropsNext ==
  ASSUME NEW f, NEW F, NEW at, Placed(at), Ordered(at), NEW level \in 1 .. 4, NEW m \in 0 .. 3, NEW node \in InodeStruct,
         RootsHeld(f, F, at, node, level, m), NEW u \in level .. m, NEW st, DroppedTo(f, F, at, node, level, u, st)
  PROVE  DroppedTo(f, F, at, node, level, u + 1, DropRoot(st, Roots[u]))
<1> DEFINE S == InLevels(level, u)
<1>1. PICK f1, node1 : /\ st = Removing(f1, node1)
                       /\ Uprooted(node, node1, level, u)
                       /\ Freed(f, F, f1, Img(at, S))
  BY DEF DroppedTo
<1>2. u \in 1 .. 3 /\ node1 \in InodeStruct  BY <1>1 DEF Uprooted
<1>3. Rooted(node, at, u) /\ Held(f, F, at, Root(u))  BY DEF RootsHeld
<1>4. Rooted(node1, at, u)  BY <1>1, <1>2, <1>3 DEF Rooted, Uprooted
<1>5. Root(u) \in Sites /\ Below(Root(u)) = InLevels(u, u + 1) /\ S \intersect Below(Root(u)) = {}
  BY <1>2, RootIs, SiteIs DEF InLevels
<1>6. Held(f1, F \union Img(at, S), at, Root(u))
  <2> HIDE DEF S
  <2>1. Below(Root(u)) \subseteq Below(Root(u))  OBVIOUS
  <2> QED BY <2>1, <1>1, <1>3, <1>5, HeldApart
<1>7. PICK f2 : /\ DropRoot(Removing(f1, node1), Roots[u]) = Removing(f2, [node1 EXCEPT ![Roots[u]] = 0])
                /\ Freed(f1, F \union Img(at, S), f2, Img(at, InLevels(u, u + 1)))
  <2> HIDE DEF S
  <2> QED BY <1>2, <1>4, <1>6, RootDropped
<1> DEFINE node2 == [node1 EXCEPT ![Roots[u]] = 0]
<1>8. Freed(f, F, f2, Img(at, InLevels(level, u + 1)))
  <2>1. Img(at, InLevels(level, u + 1)) = Img(at, S) \union Img(at, InLevels(u, u + 1))
    <3>1. \A p \in Sites : p[1] \in 0 .. 3  BY SiteIs
    <3> QED BY <3>1, <1>2 DEF Img, InLevels
  <2> HIDE DEF S
  <2> QED BY <2>1, <1>1, <1>7, FreedMore
<1>9. Uprooted(node, node2, level, u + 1)
  <2>1. /\ node2 \in InodeStruct /\ node2.blocks = node1.blocks /\ node2.directAddresses = node1.directAddresses
        /\ \A s \in 1 .. 3 : node2[Roots[s]] = IF s = u THEN 0 ELSE node1[Roots[s]]
    <3>1. 0 \in Int  OBVIOUS
    <3> QED BY <3>1, <1>2, RootEdit
  <2> HIDE DEF node2
  <2> QED BY <2>1, <1>1, <1>2 DEF Uprooted
<1> QED BY <1>1, <1>7, <1>8, <1>9 DEF DroppedTo

\* All rounds.
LEMMA RootsDropped ==
  ASSUME NEW f, NEW F, FreeIs(f, F), NEW at, Placed(at), Ordered(at), NEW level \in 1 .. 4, NEW m \in 0 .. 3, level <= m + 1,
         NEW node \in InodeStruct, RootsHeld(f, F, at, node, level, m)
  PROVE  DroppedTo(f, F, at, node, level, m + 1, FoldLeft(DropRoot, Removing(f, node), SubSeq(Roots, level, m)))
<1> DEFINE sq == SubSeq(Roots, level, m)
           N == m + 1 - level
           base == Removing(f, node)
           p == RootsLoop(sq)
           g(k) == Folded(p, base, k)
           S == {k \in 0 .. N : DroppedTo(f, F, at, node, level, level + k, g(k))}
<1>1. N \in Nat /\ level + N = m + 1  OBVIOUS
<1>2. DOMAIN sq = 1 .. N /\ \A k \in 1 .. N : sq[k] = Roots[level + k - 1]
  <2>1. Roots \in Seq({"singleIndirect", "doubleIndirect", "tripleIndirect"}) /\ Len(Roots) = 3
    BY DEF Roots
  <2>2. sq = [k \in 1 .. (m - level + 1) |-> Roots[level + k - 1]]  BY DEF SubSeq
  <2>3. m - level + 1 = N  OBVIOUS
  <2> HIDE DEF sq, N
  <2> QED BY <2>2, <2>3
<1> HIDE DEF sq
<1>3. FoldLeft(DropRoot, base, sq) = g(N)  BY <1>1, <1>2, RootsFold
<1>4. p.loop = "roots" /\ p.seq = sq  BY DEF RootsLoop
<1> HIDE DEF p, base
<1>5. g(0) = base /\ \A k \in Nat : g(k + 1) = Round(p, g(k), k + 1)
  <2> HIDE DEF g
  <2>1. Folded(p, base, 0) = base /\ \A k \in Nat : Folded(p, base, k + 1) = Round(p, Folded(p, base, k), k + 1)
    BY FoldStep
  <2> QED BY <2>1 DEF g
<1> HIDE DEF g
<1>6. 0 \in S
  <2>1. Freed(f, F, f, {}) /\ Img(at, InLevels(level, level)) = {}
    <3>1. \A q \in Sites : q[1] \in 0 .. 3  BY SiteIs
    <3>2. InLevels(level, level) = {}  BY <3>1 DEF InLevels
    <3> QED BY <3>2, FreedNone DEF Img
  <2>2. Uprooted(node, node, level, level)  BY DEF Uprooted
  <2>3. level + 0 = level  OBVIOUS
  <2>4. DroppedTo(f, F, at, node, level, level, g(0))  BY <2>1, <2>2, <1>5 DEF DroppedTo, base
  <2> QED BY <2>3, <2>4, <1>1
<1>7. ASSUME NEW k \in 0 .. (N - 1), k \in S PROVE k + 1 \in S
  <2>1. k \in Nat /\ k + 1 \in 1 .. N /\ level + k \in level .. m /\ level + (k + 1) = (level + k) + 1
        /\ level + (k + 1) - 1 = level + k
    OBVIOUS
  <2>2. DroppedTo(f, F, at, node, level, level + k, g(k))  BY <1>7
  <2> HIDE DEF N, S
  <2>3. g(k + 1) = DropRoot(g(k), Roots[level + k])
    <3>1. g(k + 1) = Round(p, g(k), k + 1)  BY <1>5, <2>1
    <3>2. sq[k + 1] = Roots[level + k]  BY <1>2, <2>1
    <3> QED BY <3>1, <3>2, <1>4 DEF Round
  <2>4. DroppedTo(f, F, at, node, level, (level + k) + 1, DropRoot(g(k), Roots[level + k]))
    BY <2>1, <2>2, DropsNext
  <2>5. k + 1 \in 0 .. N  BY <2>1
  <2> QED BY <2>1, <2>3, <2>4, <2>5 DEF S
<1>8. N \in S
  <2> HIDE DEF S, N
  <2>1. \A k \in 0 .. N : k \in S  BY <1>1, <1>6, <1>7, Induction
  <2> QED BY <2>1, <1>1
<1> HIDE DEF N
<1>9. DroppedTo(f, F, at, node, level, level + N, g(N))  BY <1>8
<1> QED BY <1>1, <1>3, <1>9 DEF sq, base

\* DropFrom: the roots that the file uses, and its number of blocks.
LEMMA DroppedFrom ==
  ASSUME NEW f, NEW F, FreeIs(f, F), NEW at, Placed(at), Ordered(at), NEW level \in 1 .. 4,
         NEW node \in InodeStruct, NEW m, m = Levels(node.blocks), level <= m + 1, RootsHeld(f, F, at, node, level, m),
         NEW n0 \in 0 .. MaxBlocks
  PROVE  \E f2, node2 : /\ DropFrom(Removing(f, node), level, n0) = Removing(f2, [node2 EXCEPT !.blocks = n0])
                        /\ Uprooted(node, node2, level, m + 1)
                        /\ Freed(f, F, f2, Img(at, InLevels(level, m + 1)))
<1> DEFINE st0 == Removing(f, node)
           st == FoldLeft(DropRoot, st0, SubSeq(Roots, level, m))
<1>1. m \in 0 .. 3  BY NodeIs, LevelsIs
<1>2. DroppedTo(f, F, at, node, level, m + 1, st)  BY <1>1, RootsDropped
<1>3. PICK f2, node2 : /\ st = Removing(f2, node2)
                       /\ Uprooted(node, node2, level, m + 1)
                       /\ Freed(f, F, f2, Img(at, InLevels(level, m + 1)))
  <2> HIDE DEF st
  <2> QED BY <1>2 DEF DroppedTo
<1>4. st0.node = node  BY DEF Removing
<1>5. DropFrom(st0, level, n0) = Shortened(st, n0)  BY <1>4 DEF DropFrom
<1> HIDE DEF st
<1>6. Shortened(st, n0) = Removing(f2, [node2 EXCEPT !.blocks = n0])
  <2> DEFINE r == Shortened(st, n0)
  <2>1. st = [fs |-> f2, node |-> node2, ok |-> TRUE]  BY <1>3 DEF Removing
  <2>2. r = [st EXCEPT !.node.blocks = n0]  BY <2>1 DEF Shortened
  <2> HIDE DEF r
  <2>3. r = [fs |-> f2, node |-> [node2 EXCEPT !.blocks = n0], ok |-> TRUE]  BY <2>1, <2>2
  <2> QED BY <2>3 DEF Removing, r
<1> QED BY <1>3, <1>5, <1>6

--------------------
(* One file *)

\* A file has no block below an entry without one.
LEMMA ShapeOrdered ==
  ASSUME NEW at, NEW n \in Nat, Shape(at, n)
  PROVE  Placed(at) /\ Ordered(at)
<1>1. Placed(at) /\ DOMAIN at \subseteq Sites /\ \A p \in DOMAIN at : p \in Sites /\ (First(p) < n \/ p \in Stale(n))
  BY DEF Shape, Placed, Reg
<1>2. ASSUME NEW p \in Sites, First(p) < n PROVE p \in DOMAIN at
  BY <1>2 DEF Shape, Reg
<1>3. ASSUME NEW q \in Sites, q[2] # 0, NEW k \in Word, NEW p \in DOMAIN at, p \in Below(Kid(q, k))
      PROVE  Kid(q, k) \in DOMAIN at
  <2> DEFINE c == Kid(q, k)
  <2>1. c \in Sites /\ c[1] = q[1] /\ c[2] = q[2] - 1 /\ c[2] \in 0 .. 2  BY <1>3, KidIs, SiteIs
  <2> HIDE DEF c
  <2>2. p \in Sites /\ p[1] = c[1] /\ p[2] <= c[2] /\ First(c) <= First(p) /\ First(p) < First(c) + W(c[2])
        /\ First(c) \in Nat /\ First(p) \in Nat /\ p[2] \in Nat
    BY <1>3, <2>1, SiteIs DEF Below, c
  <2>3. CASE First(p) < n
    BY <2>1, <2>2, <2>3, <1>2 DEF c
  <2>4. CASE p \in Stale(n)
    <3>1. p[2] = c[2]  BY <2>1, <2>2, <2>4 DEF Stale
    <3>2. c = p  BY <2>1, <2>2, <3>1, SitesApart
    <3> QED BY <3>2, <1>3 DEF c
  <2> QED BY <2>3, <2>4, <1>1
<1>4. ASSUME NEW q \in Sites, q[2] # 0, NEW k \in Word, NEW j \in Word, j < k, Kid(q, k) \in DOMAIN at
      PROVE  Kid(q, j) \in DOMAIN at
  <2> DEFINE c == Kid(q, k)
             d == Kid(q, j)
             w == W(q[2] - 1)
  <2>1. /\ c \in Sites /\ c[1] = q[1] /\ c[2] = q[2] - 1 /\ First(c) = First(q) + k * w
        /\ d \in Sites /\ First(d) = First(q) + j * w /\ w \in Nat /\ w >= 1 /\ First(q) \in Nat
    BY <1>4, KidIs, SiteIs
  <2>2. j \in Nat /\ k \in Nat  BY Sizes
  <2> HIDE DEF c, d, w
  <2>3. First(d) + w <= First(c) /\ First(d) \in Nat /\ First(c) \in Nat
    <3>1. k * w = j * w + (k - j) * w /\ k - j \in Nat /\ k - j >= 1  BY <2>1, <2>2, <1>4
    <3>2. (k - j) * w >= w /\ j * w \in Nat /\ k * w \in Nat /\ (k - j) * w \in Nat  BY <3>1, <2>1, <2>2
    <3> DEFINE x == k * w
               y == j * w
               z == (k - j) * w
    <3> HIDE DEF x, y, z
    <3>3. x = y + z /\ z >= w /\ x \in Nat /\ y \in Nat /\ z \in Nat  BY <3>1, <3>2 DEF x, y, z
    <3>4. First(c) = First(q) + x /\ First(d) = First(q) + y  BY <2>1 DEF x, y
    <3> QED BY <3>3, <3>4, <2>1
  <2>4. First(d) < n
    <3>1. CASE First(c) < n
      BY <3>1, <2>1, <2>3
    <3>2. CASE c \in Stale(n)
      <4>1. c[2] = 2 /\ First(c) < n + A2  BY <3>2 DEF Stale
      <4>2. w = A2 /\ A2 \in Nat  BY <4>1, <2>1, Weights, Sizes DEF w
      <4> QED BY <4>1, <4>2, <2>3
    <3> QED BY <3>1, <3>2, <1>1, <1>4 DEF c
  <2> QED BY <2>1, <2>4, <1>2 DEF d
<1> QED BY <1>1, <1>3, <1>4 DEF Ordered

\* Below a site of the file, and below the roots of the lower levels, there is what the file uses.
LEMMA ShapeRegular ==
  ASSUME NEW at, NEW n \in Nat, Shape(at, n), NEW q \in Sites, q[2] <= 2, First(q) < n \/ q[1] # 3
  PROVE  RegularBelow(at, q, n)
<1> SUFFICES ASSUME NEW p \in Below(q) PROVE p \in DOMAIN at <=> First(p) < n
  BY DEF RegularBelow
<1>1. /\ p \in Sites /\ p[1] = q[1] /\ p[2] <= q[2] /\ First(q) <= First(p) /\ First(p) < First(q) + W(q[2])
      /\ q[2] \in 0 .. 3
  BY SiteIs DEF Below
<1>2. ASSUME p \in Stale(n) PROVE FALSE
  <2>1. p[1] = 3 /\ p[2] = 2 /\ n <= First(p)  BY <1>2 DEF Stale
  <2>2. q[2] = 2 /\ First(q) < n  BY <2>1, <1>1
  <2>3. q = p  BY <2>1, <2>2, <1>1, SitesApart
  <2>4. First(q) \in Nat  BY SiteIs
  <2> QED BY <2>1, <2>2, <2>3, <2>4
<1>3. p \in DOMAIN at => First(p) < n  BY <1>2 DEF Shape, Reg
<1>4. First(p) < n => p \in DOMAIN at  BY <1>1 DEF Shape, Reg
<1> QED BY <1>3, <1>4

\* What the removals need of a file.
LEMMA FileIs ==
  ASSUME NEW f, NEW F, NEW at, NEW node, File(f, F, at, node)
  PROVE  /\ node \in InodeStruct /\ node.blocks \in 0 .. MaxBlocks /\ node.blocks \in Nat /\ FreeIs(f, F)
         /\ Placed(at) /\ Ordered(at) /\ Shape(at, node.blocks)
         /\ \A q \in Sites : Held(f, F, at, q)
         /\ \A r \in 1 .. 3 : Start(r) < node.blocks => Rooted(node, at, r)
<1>1. node \in InodeStruct /\ FreeIs(f, F) /\ Shape(at, node.blocks)  BY DEF File
<1>2. node.blocks \in 0 .. MaxBlocks /\ node.blocks \in Nat  BY <1>1, NodeIs
<1>3. Placed(at) /\ Ordered(at)  BY <1>1, <1>2, ShapeOrdered
<1>4. \A q \in Sites : Held(f, F, at, q)  BY <1>1 DEF Held, File
<1>5. ASSUME NEW r \in 1 .. 3, Start(r) < node.blocks PROVE Rooted(node, at, r)
  <2>1. Root(r) \in Sites /\ First(Root(r)) = Start(r)  BY RootIs
  <2>2. Root(r) \in DOMAIN at  BY <2>1, <1>1, <1>5 DEF Shape, Reg
  <2> QED BY <2>2, <1>5 DEF Rooted, File
<1> QED BY <1>1, <1>2, <1>3, <1>4, <1>5

\* The inode says where the blocks that it keeps are.
FieldsKept(node, node2) ==
  /\ node2 \in InodeStruct /\ node2.blocks <= node.blocks
  /\ \A k \in 0 .. (NUM_DIRECT_BLOCKS - 1) : k < node2.blocks => node2.directAddresses[k] = node.directAddresses[k]
  /\ \A r \in 1 .. 3 : Start(r) < node2.blocks => node2[Roots[r]] = node[Roots[r]]

\* The sites K are those of a file of n blocks.
Shaped(K, n) == Reg(n) \subseteq K /\ K \subseteq Reg(n) \union Stale(n)

PointsAll(f, at) == \A q \in DOMAIN at : q[2] # 0 => Points(f.blk, at, q)

\* The sites of the direct addresses.
LEMMA DirectSite ==
  ASSUME NEW k \in 0 .. (NUM_DIRECT_BLOCKS - 1)
  PROVE  <<0, 0, k>> \in Sites /\ First(<<0, 0, k>>) = k /\ k \in Nat
<1>1. Width(0, 0) = NUM_DIRECT_BLOCKS /\ W(0) = 1 /\ Start(0) = 0 /\ k \in Nat /\ k < NUM_DIRECT_BLOCKS
  BY Weights, Starts, Sizes DEF Width
<1> QED BY <1>1 DEF Sites, First

\* A file that keeps the sites K and gives up G.
LEMMA Shortens ==
  ASSUME NEW f, NEW F, NEW at, NEW node, File(f, F, at, node), NEW node2, FieldsKept(node, node2),
         NEW K \in SUBSET DOMAIN at, Shaped(K, node2.blocks), NEW G, G \intersect K = {},
         NEW f2, FreeIs(f2, F \union Img(at, G)), PointsAll(f2, Kept(at, K)),
         SameBut(f.blk, f2.blk, Img(at, Sites))
  PROVE  /\ File(f2, F \union Img(at, G), Kept(at, K), node2)
         /\ Turn(f, F, at, f2, F \union Img(at, G), Kept(at, K))
         /\ DOMAIN at \subseteq K \union G
              => (F \union Img(at, G)) \union Img(Kept(at, K), Sites) = F \union Img(at, Sites)
<1> DEFINE at2 == Kept(at, K)
           F2 == F \union Img(at, G)
<1>1. DOMAIN at2 = K /\ \A q \in K : at2[q] = at[q] /\ q \in DOMAIN at  BY DEF Kept
<1>2. DOMAIN at \subseteq Sites /\ Placed(at)  BY FileIs DEF Placed
<1>3. Placed(at2)
  <2> HIDE DEF at2
  <2> QED BY <1>1, <1>2 DEF Placed
<1>4. Shape(at2, node2.blocks)  BY <1>1, <1>3 DEF Shape, Shaped
<1>5. ASSUME NEW q \in K PROVE at2[q] \notin F2
  <2>1. at[q] \notin F  BY <1>1 DEF File
  <2>2. ASSUME NEW p \in G \intersect DOMAIN at, at[p] = at[q] PROVE FALSE
    <3>1. p = q  BY <2>2, <1>1, <1>2 DEF Placed
    <3> QED BY <3>1
  <2> QED BY <2>1, <2>2, <1>1 DEF Img
<1>6. ASSUME NEW k \in 0 .. (NUM_DIRECT_BLOCKS - 1), k < node2.blocks
      PROVE  node2.directAddresses[k] = at2[<<0, 0, k>>]
  <2>1. <<0, 0, k>> \in Reg(node2.blocks)  BY <1>6, DirectSite DEF Reg
  <2>2. <<0, 0, k>> \in K  BY <2>1 DEF Shaped
  <2>3. k < node.blocks /\ node2.directAddresses[k] = node.directAddresses[k]
    <3>1. node.blocks \in Nat /\ node2.blocks \in Nat /\ k \in Nat  BY FileIs, NodeIs DEF FieldsKept
    <3> QED BY <3>1, <1>6 DEF FieldsKept
  <2>4. node.directAddresses[k] = at[<<0, 0, k>>]  BY <2>3 DEF File
  <2> HIDE DEF at2
  <2> QED BY <2>2, <2>3, <2>4, <1>1
<1>7. ASSUME NEW r \in 1 .. 3, Start(r) < node2.blocks
      PROVE  node2[Roots[r]] = at2[Root(r)]
  <2>1. Root(r) \in Reg(node2.blocks)  BY <1>7, RootIs DEF Reg
  <2>2. Root(r) \in K  BY <2>1 DEF Shaped
  <2>3. Start(r) < node.blocks /\ node2[Roots[r]] = node[Roots[r]]
    <3>1. node.blocks \in Nat /\ node2.blocks \in Nat /\ Start(r) \in Nat
      <4>1. node.blocks \in Nat  BY FileIs
      <4>2. node2.blocks \in Nat  BY NodeIs DEF FieldsKept
      <4>3. r \in 0 .. 3  OBVIOUS
      <4>4. Start(r) \in Nat  BY <4>3, Widths
      <4> QED BY <4>1, <4>2, <4>4
    <3> QED BY <3>1, <1>7 DEF FieldsKept
  <2>4. node[Roots[r]] = at[Root(r)]  BY <2>3 DEF File
  <2> HIDE DEF at2
  <2> QED BY <2>2, <2>3, <2>4, <1>1
<1>8. node2 \in InodeStruct  BY DEF FieldsKept
<1>9. Img(at2, Sites) = {at[q] : q \in K} /\ Img(at, Sites) = {at[q] : q \in DOMAIN at}
  <2> HIDE DEF at2
  <2> QED BY <1>1, <1>2 DEF Img
<1>10. F2 \union Img(at2, Sites) \subseteq F \union Img(at, Sites)  BY <1>1, <1>9 DEF Img
<1>11. SameBut(f.blk, f2.blk, F \union Img(at, Sites))  BY DEF SameBut
<1>12. ASSUME DOMAIN at \subseteq K \union G PROVE F2 \union Img(at2, Sites) = F \union Img(at, Sites)
  BY <1>9, <1>10, <1>12 DEF Img
<1> HIDE DEF at2, F2
<1>13. File(f2, F2, at2, node2)  BY <1>1, <1>4, <1>5, <1>6, <1>7, <1>8 DEF File, PointsAll, at2, F2
<1>14. Turn(f, F, at, f2, F2, at2)  BY <1>10, <1>11 DEF Turn
<1> QED BY <1>12, <1>13, <1>14 DEF at2, F2

\* A block of addresses that did not change, whose entries are kept.
LEMMA PointsKept ==
  ASSUME NEW f, NEW f2, NEW at, NEW p \in DOMAIN at, Points(f.blk, at, p), f2.blk[at[p]] = f.blk[at[p]],
         NEW K \in SUBSET DOMAIN at, p \in K, \A k \in Word : Kid(p, k) \in DOMAIN at => Kid(p, k) \in K
  PROVE  Points(f2.blk, Kept(at, K), p)
<1> DEFINE at2 == Kept(at, K)
<1>1. DOMAIN at2 = K /\ \A q \in K : at2[q] = at[q]  BY DEF Kept
<1> HIDE DEF at2
<1>2. ASSUME NEW k \in Word PROVE EntryAt(at2, p, k) = EntryAt(at, p, k)
  BY <1>1 DEF EntryAt
<1>3. Points(f2.blk, at2, p)  BY <1>1, <1>2 DEF Points
<1> QED BY <1>3 DEF at2

--------------------
(* remove_datablocks_range_from_inode *)

\* The file has its first n0 blocks, and gave up the others; if it had no stale block it gave
\* up all of them.
Shrunk(f, F, at, node, n0, st) ==
  \E f2, K, G, node2 :
    /\ st = Removing(f2, node2)
    /\ node2.blocks = n0
    /\ K \in SUBSET DOMAIN at
    /\ File(f2, F \union Img(at, G), Kept(at, K), node2)
    /\ Turn(f, F, at, f2, F \union Img(at, G), Kept(at, K))
    /\ DOMAIN at = Reg(node.blocks)
         => /\ K = Reg(n0)
            /\ (F \union Img(at, G)) \union Img(Kept(at, K), Sites) = F \union Img(at, Sites)

\* The sites K that stay and G that are given up; what else there is was stale.
Parted(at, n, n0, K, G) ==
  /\ K \in SUBSET DOMAIN at /\ G \intersect K = {}
  /\ Shaped(K, n0) /\ K \subseteq Reg(n0) \union Stale(n)
  /\ DOMAIN at \subseteq K \union G \union Stale(n)

\* A file whose sites are parted into those it keeps and those given up has shrunk.
LEMMA PartedShrunk ==
  ASSUME NEW f, NEW F, NEW at, NEW node, File(f, F, at, node), NEW node2, FieldsKept(node, node2),
         NEW K, NEW G, Parted(at, node.blocks, node2.blocks, K, G),
         NEW f2, FreeIs(f2, F \union Img(at, G)), PointsAll(f2, Kept(at, K)),
         SameBut(f.blk, f2.blk, Img(at, Sites))
  PROVE  Shrunk(f, F, at, node, node2.blocks, Removing(f2, node2))
<1> DEFINE F2 == F \union Img(at, G)
           n0 == node2.blocks
<1>1. K \in SUBSET DOMAIN at /\ G \intersect K = {} /\ Shaped(K, n0)  BY DEF Parted
<1>2. /\ File(f2, F2, Kept(at, K), node2)
      /\ Turn(f, F, at, f2, F2, Kept(at, K))
      /\ DOMAIN at \subseteq K \union G => F2 \union Img(Kept(at, K), Sites) = F \union Img(at, Sites)
  BY <1>1, Shortens
<1>3. ASSUME DOMAIN at = Reg(node.blocks)
      PROVE  K = Reg(n0) /\ DOMAIN at \subseteq K \union G
  <2>1. ASSUME NEW p \in Reg(node.blocks) PROVE p \notin Stale(node.blocks)
    <3>1. First(p) < node.blocks /\ First(p) \in Nat /\ node.blocks \in Nat  BY FileIs, SiteIs DEF Reg
    <3> QED BY <3>1 DEF Stale
  <2>2. Reg(n0) \subseteq K /\ K \subseteq Reg(n0) \union Stale(node.blocks)
        /\ K \subseteq DOMAIN at /\ DOMAIN at \subseteq K \union G \union Stale(node.blocks)
    BY DEF Parted, Shaped
  <2> QED BY <2>1, <2>2, <1>3
<1> HIDE DEF F2
<1> QED BY <1>1, <1>2, <1>3 DEF Shrunk, F2

\* With each block of addresses that stays its entries stay.
Closed(at, K) == \A p \in K : \A k \in Word : p[2] # 0 /\ Kid(p, k) \in DOMAIN at => Kid(p, k) \in K

\* Whole trees are given up.
LEMMA WholeShrunk ==
  ASSUME NEW f, NEW F, NEW at, NEW node, File(f, F, at, node), NEW node2, FieldsKept(node, node2),
         NEW K, NEW G, Parted(at, node.blocks, node2.blocks, K, G), Closed(at, K),
         NEW f2, Freed(f, F, f2, Img(at, G))
  PROVE  Shrunk(f, F, at, node, node2.blocks, Removing(f2, node2))
<1>1. FreeIs(f2, F \union Img(at, G)) /\ SameBut(f.blk, f2.blk, Img(at, G))  BY DEF Freed
<1>2. Placed(at) /\ DOMAIN at \subseteq Sites  BY FileIs DEF Placed
<1>3. SameBut(f.blk, f2.blk, Img(at, Sites))  BY <1>1, <1>2 DEF SameBut, Img
<1>4. PointsAll(f2, Kept(at, K))
  <2> SUFFICES ASSUME NEW p \in K, p[2] # 0 PROVE Points(f2.blk, Kept(at, K), p)
    BY DEF PointsAll, Kept
  <2>1. p \in DOMAIN at /\ K \in SUBSET DOMAIN at /\ p \notin G  BY DEF Parted
  <2>2. Points(f.blk, at, p)  BY <2>1 DEF File
  <2>3. f2.blk[at[p]] = f.blk[at[p]]
    <3>1. ASSUME NEW x \in G \intersect DOMAIN at, at[x] = at[p] PROVE FALSE
      <4>1. x = p  BY <3>1, <2>1, <1>2 DEF Placed
      <4> QED BY <4>1, <2>1
    <3>2. at[p] \notin Img(at, G) /\ at[p] \in DataRegion  BY <3>1, <2>1, <1>2, PoolIs DEF Img, Placed
    <3> QED BY <3>2, <1>1 DEF SameBut
  <2>4. \A k \in Word : Kid(p, k) \in DOMAIN at => Kid(p, k) \in K  BY DEF Closed
  <2> QED BY <2>1, <2>2, <2>3, <2>4, PointsKept
<1> QED BY <1>1, <1>3, <1>4, PartedShrunk

\* The entries of q from k0 on.
LastKids(q, k0) == {Kid(q, k) : k \in {k \in Word : k0 <= k}}

\* The entries of q that have a block are the first upto.
FilledTo(at, q, upto) == \A k \in Word : k < upto <=> Kid(q, k) \in DOMAIN at

\* The blocks at the last entries are those of their sites.
LEMMA LastKidsGone ==
  ASSUME NEW at, NEW q, NEW k0, NEW upto, FilledTo(at, q, upto)
  PROVE  Kids(at, q, k0, upto) = Img(at, LastKids(q, k0))
BY DEF Kids, Img, LastKids, FilledTo

\* What is elsewhere is held as before.
LEMMA HeldTrimmed ==
  ASSUME NEW f, NEW F, NEW at, Placed(at), NEW q \in DOMAIN at, NEW k0, NEW upto, NEW f1,
         FilledTo(at, q, upto), Trimmed(f, F, at, q, k0, upto, f1),
         NEW p \in Sites, Held(f, F, at, p), q \notin Below(p), LastKids(q, k0) \intersect Below(p) = {}
  PROVE  Held(f1, F \union Img(at, LastKids(q, k0)), at, p)
<1>1. Kids(at, q, k0, upto) = Img(at, LastKids(q, k0))  BY LastKidsGone
<1> DEFINE X == Img(at, LastKids(q, k0))
<1>2. FreeIs(f1, F \union X) /\ SameBut(f.blk, f1.blk, X \union {at[q]})  BY <1>1 DEF Trimmed
<1>3. ASSUME NEW x \in Below(p) \intersect DOMAIN at PROVE at[x] \notin X /\ at[x] # at[q] /\ at[x] \in DataRegion
  <2>1. x # q /\ x \notin LastKids(q, k0) /\ x \in DOMAIN at  BY <1>3
  <2>2. ASSUME NEW y \in DOMAIN at, at[y] = at[x] PROVE y = x
    BY <2>1, <2>2 DEF Placed
  <2>3. at[x] \notin X /\ at[x] # at[q]  BY <2>1, <2>2 DEF Img
  <2> QED BY <2>1, <2>3, PoolIs DEF Placed
<1> HIDE DEF X
<1>4. ASSUME NEW x \in Below(p) \intersect DOMAIN at
      PROVE  at[x] \notin F \union X /\ (x[2] # 0 => Points(f1.blk, at, x))
  <2>1. at[x] \notin F /\ (x[2] # 0 => Points(f.blk, at, x))  BY DEF Held
  <2>2. f1.blk[at[x]] = f.blk[at[x]]  BY <1>2, <1>3 DEF SameBut
  <2> QED BY <2>1, <2>2, <1>3 DEF Points
<1>5. Held(f1, F \union X, at, p)  BY <1>2, <1>4 DEF Held
<1> QED BY <1>5 DEF X

\* The entries of one block from k0 on are given up, and the levels l .. u - 1 behind it.
LEMMA TrimmedShrunk ==
  ASSUME NEW f, NEW F, NEW at, NEW node, File(f, F, at, node), NEW node2, FieldsKept(node, node2),
         NEW q \in DOMAIN at, q[2] = 1, NEW l \in 1 .. 4, NEW u, q[1] < l, NEW k0 \in Nat, NEW upto,
         FilledTo(at, q, upto), NEW f1, Trimmed(f, F, at, q, k0, upto, f1),
         NEW K, NEW G, G = LastKids(q, k0) \union InLevels(l, u), K = DOMAIN at \ G,
         Parted(at, node.blocks, node2.blocks, K, G),
         NEW f2, Freed(f1, F \union Img(at, LastKids(q, k0)), f2, Img(at, InLevels(l, u)))
  PROVE  Shrunk(f, F, at, node, node2.blocks, Removing(f2, node2))
<1> DEFINE X == LastKids(q, k0)
           Y == InLevels(l, u)
<1>1. Placed(at) /\ DOMAIN at \subseteq Sites /\ q \in Sites /\ q[1] \in 0 .. 3
  BY FileIs, SiteIs DEF Placed
<1>2. Kids(at, q, k0, upto) = Img(at, X)  BY LastKidsGone
<1>3. Img(at, G) = Img(at, X) \union Img(at, Y)  BY DEF Img
<1>4. FreeIs(f2, F \union Img(at, G))
  <2>1. (F \union Img(at, X)) \union Img(at, Y) = F \union Img(at, G)  BY <1>3
  <2> QED BY <2>1 DEF Freed
<1>5. SameBut(f.blk, f2.blk, Img(at, G) \union {at[q]})
  <2>1. SameBut(f.blk, f1.blk, Img(at, X) \union {at[q]}) /\ SameBut(f1.blk, f2.blk, Img(at, Y))
    BY <1>2 DEF Trimmed, Freed
  <2> HIDE DEF X, Y
  <2> QED BY <2>1, <1>3 DEF SameBut
<1>6. SameBut(f.blk, f2.blk, Img(at, Sites))
  <2>1. Img(at, G) \union {at[q]} \subseteq Img(at, Sites)  BY <1>1 DEF Img
  <2> QED BY <2>1, <1>5 DEF SameBut
<1>7. ASSUME NEW p \in K PROVE p \in DOMAIN at /\ p \in Sites /\ at[p] \in DataRegion /\ at[p] \notin Img(at, G)
  <2>1. p \in DOMAIN at /\ p \notin G  OBVIOUS
  <2>2. ASSUME NEW y \in DOMAIN at, at[y] = at[p] PROVE y = p
    BY <2>1, <2>2, <1>1 DEF Placed
  <2> QED BY <2>1, <2>2, <1>1, PoolIs DEF Img, Placed
<1>8. q \notin Y  BY <1>1 DEF InLevels
<1>9. PointsAll(f2, Kept(at, K))
  <2> SUFFICES ASSUME NEW p \in K, p[2] # 0 PROVE Points(f2.blk, Kept(at, K), p)
    BY DEF PointsAll, Kept
  <2>1. Points(f.blk, at, p)  BY <1>7 DEF File
  <2>2. ASSUME NEW k \in Word, Kid(p, k) \in Y PROVE FALSE
    <3>1. Kid(p, k)[1] = p[1]  BY DEF Kid
    <3>2. p \in Y  BY <3>1, <2>2, <1>7 DEF InLevels
    <3> QED BY <3>2
  <2>3. CASE p # q
    <3>1. at[p] # at[q]  BY <2>3, <1>1, <1>7 DEF Placed
    <3>2. f2.blk[at[p]] = f.blk[at[p]]  BY <3>1, <1>5, <1>7 DEF SameBut
    <3>3. ASSUME NEW k \in Word, Kid(p, k) \in DOMAIN at PROVE Kid(p, k) \in K
      <4>1. ASSUME Kid(p, k) \in X PROVE FALSE
        <5>1. PICK j \in Word : Kid(p, k) = Kid(q, j)
          BY <4>1 DEF LastKids
        <5>2. q[2] # 0  OBVIOUS
        <5>3. p = q  BY <5>1, <5>2, <1>1, <1>7, KidOnce
        <5> QED BY <5>3, <2>3
      <4> QED BY <4>1, <2>2, <3>3
    <3> QED BY <2>1, <3>2, <3>3, <1>7, PointsKept
  <2>4. CASE p = q
    <3>1. at[q] \notin Img(at, Y) /\ at[q] \in DataRegion  BY <2>4, <1>7, <1>3
    <3>2. f2.blk[at[q]] = f1.blk[at[q]]  BY <3>1 DEF Freed, SameBut
    <3>3. ASSUME NEW k \in Word PROVE f2.blk[at[q]][k] = EntryAt(Kept(at, K), q, k)
      <4>1. f2.blk[at[q]][k] = IF k0 <= k /\ k < upto THEN 0 ELSE f.blk[at[q]][k]  BY <3>2 DEF Trimmed
      <4>2. f.blk[at[q]][k] = EntryAt(at, q, k)  BY <2>1, <2>4 DEF Points
      <4>3. k < upto <=> Kid(q, k) \in DOMAIN at  BY DEF FilledTo
      <4>4. CASE k0 <= k
        <5>1. Kid(q, k) \in X  BY <4>4 DEF LastKids
        <5>2. EntryAt(Kept(at, K), q, k) = 0  BY <5>1 DEF EntryAt, Kept
        <5>3. f2.blk[at[q]][k] = 0
          <6>1. CASE k < upto
            BY <6>1, <4>1, <4>4
          <6>2. CASE ~(k < upto)
            BY <6>2, <4>1, <4>2, <4>3 DEF EntryAt
          <6> QED BY <6>1, <6>2
        <5> QED BY <5>2, <5>3
      <4>5. CASE ~(k0 <= k)
        <5>1. ASSUME Kid(q, k) \in X PROVE FALSE
          <6>1. PICK j \in Word : k0 <= j /\ Kid(q, k) = Kid(q, j)
            BY <5>1 DEF LastKids
          <6>2. q[2] # 0  OBVIOUS
          <6>3. j = k  BY <6>1, <6>2, <1>1, KidOnce
          <6> QED BY <6>1, <6>3, <4>5
        <5>2. Kid(q, k) \in K <=> Kid(q, k) \in DOMAIN at  BY <5>1, <2>2, <2>4
        <5>3. EntryAt(Kept(at, K), q, k) = EntryAt(at, q, k)  BY <5>2 DEF EntryAt, Kept
        <5> QED BY <5>3, <4>1, <4>2, <4>5
      <4> QED BY <4>4, <4>5
    <3>4. Kept(at, K)[q] = at[q]  BY <2>4 DEF Kept
    <3> QED BY <3>3, <3>4, <2>4 DEF Points
  <2> QED BY <2>3, <2>4
<1> QED BY <1>4, <1>6, <1>9, PartedShrunk

\* Which sites a file of n blocks has.
LEMMA RegIs ==
  ASSUME NEW n \in Nat
  PROVE  /\ \A p \in Sites : p \in Reg(n) <=> First(p) < n
         /\ \A n0 \in Nat : n0 <= n => Reg(n0) \subseteq Reg(n)
         /\ \A p \in Stale(n) : p \notin Reg(n)
         /\ \A p \in Reg(n) : p[1] \in 1 .. 3 => p[1] \in 1 .. Levels(n) \/ n > MaxBlocks
<1>1. \A p \in Sites : p \in Reg(n) <=> First(p) < n  BY DEF Reg
<1>2. \A p \in Reg(n) : p \in Sites /\ First(p) < n /\ First(p) \in Nat  BY SiteIs DEF Reg
<1>3. \A n0 \in Nat : n0 <= n => Reg(n0) \subseteq Reg(n)  BY SiteIs DEF Reg
<1>4. \A p \in Stale(n) : p \notin Reg(n)  BY <1>2 DEF Stale
<1>5. ASSUME NEW p \in Reg(n), p[1] \in 1 .. 3, ~(n > MaxBlocks) PROVE p[1] \in 1 .. Levels(n)
  <2>1. n \in 0 .. MaxBlocks  BY <1>5, Starts
  <2>2. Start(p[1]) <= First(p) /\ Start(p[1]) \in Nat
    <3>1. p[1] \in 0 .. 3  BY <1>5
    <3> QED BY <3>1, <1>2, SiteIs, Widths
  <2>3. Start(p[1]) < n  BY <2>2, <1>2
  <2>4. p[1] <= Levels(n) /\ Levels(n) \in 0 .. 3  BY <2>1, <2>3, <1>5, LevelsIs
  <2> QED BY <2>4, <1>5
<1> QED BY <1>1, <1>3, <1>4, <1>5

\* The data at the direct addresses.
LEMMA DirectIs ==
  ASSUME NEW p \in Sites, p[1] = 0
  PROVE  p[2] = 0 /\ p[3] \in 0 .. (NUM_DIRECT_BLOCKS - 1) /\ p = <<0, 0, p[3]>> /\ First(p) = p[3]
<1>1. p[2] = 0 /\ p[3] \in Nat /\ p = <<0, 0, p[3]>> /\ p[3] < Width(0, 0)  BY SiteIs
<1>2. Width(0, 0) = NUM_DIRECT_BLOCKS  BY DEF Width
<1>3. p[3] \in 0 .. (NUM_DIRECT_BLOCKS - 1)  BY <1>1, <1>2, Sizes
<1>4. First(p) = p[3]  BY <1>1, <1>3, DirectSite
<1> QED BY <1>1, <1>3, <1>4

\* To blocks that the inode addresses itself.
LEMMA DirectShrunk ==
  ASSUME NEW f, NEW F, NEW at, NEW node, File(f, F, at, node), NEW n0 \in 0 .. node.blocks, n0 < SingleStart
  PROVE  Shrunk(f, F, at, node, n0, RemoveFromDirect(f, node, n0))
<1> DEFINE n == node.blocks
           D == 0 .. (NUM_DIRECT_BLOCKS - 1)
           addr == node.directAddresses
           upto == Least(NUM_DIRECT_BLOCKS, n)
           fe == FreeEntries(f, addr, n0, upto)
           f1 == fe.fs
           G0 == {p \in Sites : p[1] = 0 /\ n0 <= First(p)}
           node1 == [node EXCEPT !.directAddresses = fe.addr]
           m == Levels(n)
           G == G0 \union InLevels(1, m + 1)
           K == {p \in DOMAIN at : First(p) < n0}
<1>1. /\ node \in InodeStruct /\ n \in 0 .. MaxBlocks /\ n \in Nat /\ FreeIs(f, F)
      /\ Placed(at) /\ Ordered(at) /\ Shape(at, n) /\ DOMAIN at \subseteq Sites
      /\ (\A q \in Sites : Held(f, F, at, q))
      /\ (\A r \in 1 .. 3 : Start(r) < n => Rooted(node, at, r))
  BY FileIs DEF Placed
<1>2. /\ NUM_DIRECT_BLOCKS \in Nat /\ NUM_DIRECT_BLOCKS >= 1 /\ SingleStart = NUM_DIRECT_BLOCKS
      /\ n0 \in Nat /\ n0 <= n /\ n0 < NUM_DIRECT_BLOCKS
  BY <1>1, Sizes, Starts
<1>3. /\ upto \in Nat /\ upto <= NUM_DIRECT_BLOCKS /\ upto <= n /\ \A k \in Nat : k < NUM_DIRECT_BLOCKS /\ k < n => k < upto
  BY <1>1, <1>2 DEF Least
<1> HIDE DEF upto
<1>4. ASSUME NEW k \in n0 .. (upto - 1)
      PROVE  k \in D /\ <<0, 0, k>> \in G0 \intersect DOMAIN at /\ addr[k] = at[<<0, 0, k>>]
  <2>1. k \in D /\ k < n /\ k \in Nat /\ n0 <= k  BY <1>2, <1>3, <1>1
  <2>2. <<0, 0, k>> \in Sites /\ First(<<0, 0, k>>) = k  BY <2>1, DirectSite
  <2>3. <<0, 0, k>> \in DOMAIN at  BY <2>1, <2>2, <1>1 DEF Shape, Reg
  <2>4. addr[k] = at[<<0, 0, k>>]  BY <2>1 DEF File
  <2> QED BY <2>1, <2>2, <2>3, <2>4
<1>5. Giveable(addr, D, F, n0, upto)
  <2>1. D \subseteq Nat /\ Addresses(addr, D) /\ n0 .. (upto - 1) \subseteq D
    <3>1. D \subseteq Nat  BY <1>2
    <3>2. Addresses(addr, D)  BY <1>1, NodeIs
    <3>3. n0 .. (upto - 1) \subseteq D  BY <1>4
    <3> QED BY <3>1, <3>2, <3>3
  <2>2. \A k \in n0 .. (upto - 1) : addr[k] \in Pool /\ addr[k] \notin F  BY <1>4, <1>1 DEF Placed, File
  <2>3. ASSUME NEW j \in n0 .. (upto - 1), NEW k \in n0 .. (upto - 1), addr[j] = addr[k] PROVE j = k
    <3> DEFINE x == <<0, 0, j>>
               y == <<0, 0, k>>
    <3>2. x \in DOMAIN at /\ y \in DOMAIN at /\ at[x] = at[y]
      <4>1. addr[j] = at[x] /\ addr[k] = at[y] /\ x \in DOMAIN at /\ y \in DOMAIN at  BY <1>4
      <4> QED BY <4>1, <2>3
    <3> HIDE DEF x, y
    <3>3. x = y  BY <3>2, <1>1 DEF Placed
    <3>1. <<0, 0, j>> = <<0, 0, k>>  BY <3>3 DEF x, y
    <3> QED BY <3>1
  <2> HIDE DEF addr, D
  <2> QED BY <2>1, <2>2, <2>3 DEF Giveable
<1>6. Some(addr, n0, upto) = Img(at, G0)
  <2>1. Some(addr, n0, upto) \subseteq Img(at, G0)
    <3> SUFFICES ASSUME NEW k \in n0 .. (upto - 1) PROVE addr[k] \in Img(at, G0)
      BY DEF Some
    <3>1. <<0, 0, k>> \in G0 \intersect DOMAIN at /\ addr[k] = at[<<0, 0, k>>]  BY <1>4
    <3> HIDE DEF addr, G0
    <3> QED BY <3>1 DEF Img
  <2>2. ASSUME NEW p \in G0 \intersect DOMAIN at PROVE at[p] \in Some(addr, n0, upto)
    <3>1. p \in Sites /\ p[1] = 0 /\ n0 <= First(p)  OBVIOUS
    <3>2. p[3] \in D /\ p = <<0, 0, p[3]>> /\ First(p) = p[3] /\ p[2] = 0  BY <3>1, DirectIs
    <3>3. First(p) < n  BY <3>1, <1>1 DEF Shape, Reg, Stale
    <3>4. p[3] \in n0 .. (upto - 1)  BY <3>1, <3>2, <3>3, <1>2, <1>3
    <3>5. addr[p[3]] = at[p]  BY <3>2, <3>4, <1>4
    <3> QED BY <3>4, <3>5 DEF Some
  <2> QED BY <2>1, <2>2 DEF Img
<1>7. fe.ok = TRUE /\ Freed(f, F, f1, Img(at, G0)) /\ fe.addr = Zeroed(addr, D, n0, upto)
  <2> HIDE DEF addr, D, G0
  <2>1. /\ fe.ok = TRUE /\ Freed(f, F, fe.fs, Some(addr, n0, upto)) /\ fe.addr = Zeroed(addr, D, n0, upto)
    <3>1. upto \in Int  BY <1>3
    <3> QED BY <3>1, <1>1, <1>2, <1>5, EntriesFreed
  <2> QED BY <2>1, <1>6
<1>8. Addresses(fe.addr, D) /\ \A k \in D : k < n0 => fe.addr[k] = addr[k]
  <2>1. Addresses(addr, D)  BY <1>5 DEF Giveable
  <2>2. \A k \in D : k \in Nat  BY <1>2
  <2> HIDE DEF addr, D
  <2>3. \A k \in D : addr[k] \in Int  BY <2>1 DEF Addresses
  <2> QED BY <2>2, <2>3, <1>2, <1>7 DEF Zeroed, Addresses
<1>9. /\ node1 \in InodeStruct /\ node1.blocks = n /\ node1.directAddresses = fe.addr
      /\ \A s \in 1 .. 3 : node1[Roots[s]] = node[Roots[s]]
  <2> HIDE DEF fe
  <2> QED BY <1>1, <1>8, DirectEdit
<1>10. RemoveFromDirect(f, node, n0) = DropFrom(Removing(f1, node1), 1, n0)
  <2>1. WithNode(fe, node1) = Removing(f1, node1)  BY <1>7 DEF WithNode, Removing
  <2> QED BY <2>1 DEF RemoveFromDirect, upto
<1> HIDE DEF fe, addr, D, node1, G0
<1>11. m \in 0 .. 3 /\ \A r \in 1 .. 3 : r <= m <=> Start(r) < n  BY <1>1, LevelsIs
<1>12. RootsHeld(f1, F \union Img(at, G0), at, node1, 1, m)
  <2> SUFFICES ASSUME NEW r \in 1 .. m PROVE Rooted(node1, at, r) /\ Held(f1, F \union Img(at, G0), at, Root(r))
    BY DEF RootsHeld
  <2>1. r \in 1 .. 3 /\ Start(r) < n  BY <1>11
  <2>2. Rooted(node, at, r)  BY <2>1, <1>1
  <2>3. Root(r) \in Sites /\ Below(Root(r)) = {p \in Sites : p[1] = r}  BY <2>1, RootIs
  <2>4. G0 \intersect Below(Root(r)) = {}  BY <2>1, <2>3 DEF G0
  <2>5. Held(f1, F \union Img(at, G0), at, Root(r))
    <3>1. Below(Root(r)) \subseteq Below(Root(r)) /\ Held(f, F, at, Root(r))  BY <2>3, <1>1
    <3> QED BY <3>1, <2>3, <2>4, <1>1, <1>7, HeldApart
  <2>6. Rooted(node1, at, r)  BY <2>1, <2>2, <1>9 DEF Rooted
  <2> QED BY <2>5, <2>6
<1>13. PICK f2, nodeU : /\ DropFrom(Removing(f1, node1), 1, n0) = Removing(f2, [nodeU EXCEPT !.blocks = n0])
                        /\ Uprooted(node1, nodeU, 1, m + 1)
                        /\ Freed(f1, F \union Img(at, G0), f2, Img(at, InLevels(1, m + 1)))
  <2>1. FreeIs(f1, F \union Img(at, G0)) /\ n0 \in 0 .. MaxBlocks /\ 1 <= m + 1 /\ 1 \in 1 .. 4
    BY <1>1, <1>2, <1>7, <1>11, Starts DEF Freed
  <2>2. m = Levels(node1.blocks)  BY <1>9
  <2> HIDE DEF m
  <2> QED BY <2>1, <2>2, <1>1, <1>9, <1>12, DroppedFrom
<1> DEFINE node2 == [nodeU EXCEPT !.blocks = n0]
<1>14. nodeU \in InodeStruct /\ nodeU.directAddresses = node1.directAddresses  BY <1>13 DEF Uprooted
<1>15. node2 \in InodeStruct /\ node2.blocks = n0 /\ node2.directAddresses = nodeU.directAddresses
  <2>1. n0 \in 0 .. MaxBlocks  BY <1>1, <1>2, Starts
  <2> QED BY <2>1, <1>14, BlocksEdit
<1> HIDE DEF node2
<1>16. FieldsKept(node, node2)
  <2>1. \A r \in 1 .. 3 : ~(Start(r) < n0)
    <3>1. \A r \in 1 .. 3 : r = 1 \/ r = 2 \/ r = 3  OBVIOUS
    <3> QED BY <3>1, <1>2, Starts
  <2> QED BY <2>1, <1>2, <1>8, <1>9, <1>14, <1>15 DEF FieldsKept, D, addr
<1>17. Freed(f, F, f2, Img(at, G))
  <2>1. Img(at, G) = Img(at, G0) \union Img(at, InLevels(1, m + 1))  BY DEF Img
  <2> HIDE DEF G
  <2> QED BY <2>1, <1>7, <1>13, FreedMore
<1>18. ASSUME NEW p \in Sites, First(p) < n0 PROVE p[1] = 0 /\ p[2] = 0
  <2>1. p[1] \in 0 .. 3 /\ Start(p[1]) <= First(p) /\ First(p) \in Nat /\ p[2] \in 0 .. p[1]  BY SiteIs
  <2>2. p[1] = 0 \/ p[1] = 1 \/ p[1] = 2 \/ p[1] = 3  BY <2>1
  <2> QED BY <2>1, <2>2, <1>2, <1>18, Starts
<1>19. Parted(at, n, n0, K, G)
  <2>1. G \intersect K = {}  BY <1>1, <1>2, <1>18, SiteIs DEF InLevels, G0
  <2>2. Reg(n0) \subseteq K
    <3>1. Reg(n0) \subseteq Reg(n)  BY <1>1, <1>2, RegIs
    <3> QED BY <3>1, <1>1 DEF Shape, Reg
  <2>3. K \subseteq Reg(n0)  BY <1>1 DEF Reg
  <2>4. ASSUME NEW p \in DOMAIN at, p \notin Stale(n) PROVE p \in K \union G
    <3>1. p \in Sites /\ p \in Reg(n)  BY <2>4, <1>1 DEF Shape
    <3>2. First(p) \in Nat /\ p[1] \in 0 .. 3  BY <3>1, SiteIs
    <3>3. CASE p[1] = 0
      BY <3>1, <3>2, <3>3, <1>2 DEF G0
    <3>4. CASE p[1] # 0
      <4>1. p[1] \in 1 .. 3 /\ ~(n > MaxBlocks)  BY <3>2, <3>4, <1>1, Starts
      <4>2. p[1] \in 1 .. m  BY <4>1, <3>1, <1>1, RegIs
      <4>3. p \in InLevels(1, m + 1)  BY <4>2, <3>1, <1>11 DEF InLevels
      <4> QED BY <4>3
    <3> QED BY <3>3, <3>4
  <2> HIDE DEF G
  <2> QED BY <2>1, <2>2, <2>3, <2>4 DEF Parted, Shaped
<1>20. Closed(at, K)  BY <1>1, <1>18 DEF Closed
<1>21. Shrunk(f, F, at, node, n0, Removing(f2, node2))
  <2> HIDE DEF K, G
  <2> QED BY <1>15, <1>16, <1>17, <1>19, <1>20, WholeShrunk
<1> QED BY <1>10, <1>13, <1>21 DEF node2

\* An inode without some of its roots and with fewer blocks.
LEMMA FieldsCut ==
  ASSUME NEW node \in InodeStruct, NEW nodeU, NEW l, NEW u, Uprooted(node, nodeU, l, u), NEW n0 \in 0 .. node.blocks,
         \A r \in 1 .. 3 : l <= r /\ r < u => n0 <= Start(r)
  PROVE  FieldsKept(node, [nodeU EXCEPT !.blocks = n0]) /\ [nodeU EXCEPT !.blocks = n0].blocks = n0
<1> DEFINE node2 == [nodeU EXCEPT !.blocks = n0]
<1>1. n0 \in 0 .. MaxBlocks /\ n0 \in Nat /\ n0 <= node.blocks  BY NodeIs, Starts
<1>2. nodeU \in InodeStruct /\ nodeU.directAddresses = node.directAddresses
      /\ \A r \in 1 .. 3 : nodeU[Roots[r]] = IF l <= r /\ r < u THEN 0 ELSE node[Roots[r]]
  BY DEF Uprooted
<1>3. /\ node2 \in InodeStruct /\ node2.blocks = n0 /\ node2.directAddresses = nodeU.directAddresses
      /\ \A s \in 1 .. 3 : node2[Roots[s]] = nodeU[Roots[s]]
  BY <1>1, <1>2, BlocksEdit
<1> HIDE DEF node2
<1>4. ASSUME NEW r \in 1 .. 3, Start(r) < n0 PROVE node2[Roots[r]] = node[Roots[r]]
  <2>1. r \in 0 .. 3  OBVIOUS
  <2>2. ~(n0 <= Start(r))  BY <2>1, <1>1, <1>4, Widths
  <2> QED BY <2>2, <1>2, <1>3
<1>5. FieldsKept(node, node2)  BY <1>1, <1>2, <1>3, <1>4 DEF FieldsKept
<1> QED BY <1>3, <1>5 DEF node2

\* The block of addresses that the address of logical block n0 is in.
LEMMA LastBlock ==
  ASSUME NEW at, NEW n \in 0 .. MaxBlocks, Shape(at, n), NEW n0 \in Nat, SingleStart <= n0, n0 < n,
         NEW q, q = Anc(n0, 1)
  PROVE  /\ q \in DOMAIN at /\ q \in Sites /\ q[2] = 1 /\ q[1] = Lev(n0) /\ q[1] \in 1 .. 3
         /\ n0 \in 0 .. (MaxBlocks - 1) /\ Slot(Anc(n0, 0)) = n0 - First(q) /\ Slot(Anc(n0, 0)) \in Word
         /\ First(q) \in Nat /\ First(q) <= n0 /\ n0 < First(q) + A
         /\ n - First(q) \in Nat /\ n0 - First(q) \in Nat
         /\ FilledTo(at, q, n - First(q))
         /\ \A k \in Word : Kid(q, k) \in Sites /\ Kid(q, k)[2] = 0 /\ First(Kid(q, k)) = First(q) + k
                            /\ Kid(q, k)[1] = q[1]
         /\ \A p \in LastKids(q, n0 - First(q)) : p \in Sites /\ p[2] = 0 /\ p[1] = q[1] /\ n0 <= First(p)
         /\ \A p \in Sites : p[1] = q[1] /\ p[2] = 0 /\ n0 <= First(p) /\ First(p) < First(q) + A
              => p \in LastKids(q, n0 - First(q))
<1>1. n \in Nat /\ n0 \in 0 .. (MaxBlocks - 1)  BY Starts
<1>2. Lev(n0) \in 1 .. 3
  <2>1. Lev(n0) \in 0 .. 3 /\ n0 < Start(Lev(n0) + 1)  BY <1>1, LevIs
  <2>2. Lev(n0) # 0  BY <2>1, Starts
  <2> QED BY <2>1, <2>2
<1>3. 1 \in 0 .. Lev(n0) /\ 1 \in 1 .. Lev(n0) /\ 1 - 1 = 0  BY <1>2
<1>4. /\ q \in Sites /\ q[1] = Lev(n0) /\ q[2] = 1 /\ First(q) \in Nat /\ First(q) <= n0 /\ n0 < First(q) + W(1)
  BY <1>1, <1>3, AncIs
<1>5. W(1) = A /\ W(0) = 1 /\ A \in Nat /\ A >= 1 /\ Word = 0 .. (A - 1)  BY Weights, Sizes
<1> DEFINE s == Slot(Anc(n0, 0))
<1>6. Anc(n0, 0) = Kid(q, s) /\ s \in Word /\ First(Anc(n0, 0)) = n0
  <2>1. Anc(n0, 1 - 1) = Kid(Anc(n0, 1), Slot(Anc(n0, 1 - 1))) /\ Slot(Anc(n0, 1 - 1)) \in Word
    BY <1>1, <1>3, AncDown
  <2> QED BY <2>1, <1>1, <1>3, LeafIs
<1>7. ASSUME NEW k \in Word
      PROVE  Kid(q, k) \in Sites /\ Kid(q, k)[2] = 0 /\ First(Kid(q, k)) = First(q) + k /\ Kid(q, k)[1] = q[1] /\ k \in Nat
  <2>1. q[2] # 0 /\ q[2] - 1 = 0 /\ k \in Nat  BY <1>4, <1>5
  <2>2. Kid(q, k) \in Sites /\ Kid(q, k)[2] = q[2] - 1 /\ First(Kid(q, k)) = First(q) + k * W(q[2] - 1) /\ Kid(q, k)[1] = q[1]
    BY <2>1, <1>4, KidIs
  <2> QED BY <2>1, <2>2, <1>5
<1>8. s = n0 - First(q)
  <2> HIDE DEF s
  <2> QED BY <1>4, <1>6, <1>7
<1>9. q \in DOMAIN at  BY <1>1, <1>4 DEF Shape, Reg
<1>10. FilledTo(at, q, n - First(q))
  <2> SUFFICES ASSUME NEW k \in Word PROVE k < n - First(q) <=> Kid(q, k) \in DOMAIN at
    BY DEF FilledTo
  <2>1. Kid(q, k) \in DOMAIN at <=> First(q) + k < n  BY <1>7 DEF Shape, Reg, Stale
  <2> QED BY <2>1, <1>1, <1>4, <1>7
<1>11. ASSUME NEW p \in LastKids(q, n0 - First(q))
       PROVE  p \in Sites /\ p[2] = 0 /\ p[1] = q[1] /\ n0 <= First(p)
  <2>1. PICK k \in Word : n0 - First(q) <= k /\ p = Kid(q, k)
    BY DEF LastKids
  <2>2. First(p) = First(q) + k /\ k \in Nat  BY <2>1, <1>7
  <2> QED BY <2>1, <2>2, <1>4, <1>7
<1>12. ASSUME NEW p \in Sites, p[1] = q[1], p[2] = 0, n0 <= First(p), First(p) < First(q) + A
       PROVE  p \in LastKids(q, n0 - First(q))
  <2> DEFINE k == First(p) - First(q)
  <2>1. First(p) \in Nat /\ p[2] \in Nat  BY SiteIs
  <2>2. k \in Word /\ n0 - First(q) <= k /\ First(q) + k = First(p)  BY <2>1, <1>4, <1>5, <1>12
  <2> HIDE DEF k
  <2>3. Kid(q, k) \in Sites /\ Kid(q, k)[1] = p[1] /\ Kid(q, k)[2] = p[2] /\ First(Kid(q, k)) = First(p)
    BY <2>2, <1>7, <1>12
  <2> DEFINE c == Kid(q, k)
  <2>4. c \in Sites /\ c[1] = p[1] /\ c[2] = p[2] /\ First(c) <= First(p) /\ First(p) < First(c) + W(c[2])
    BY <2>1, <2>2, <2>3, <1>5, <1>12
  <2> HIDE DEF c
  <2>5. c = p  BY <2>4, SitesApart
  <2> QED BY <2>2, <2>5 DEF LastKids, c
<1>13. n - First(q) \in Nat /\ n0 - First(q) \in Nat  BY <1>1, <1>4
<1> HIDE DEF s
<1> QED BY <1>1, <1>2, <1>4, <1>5, <1>6, <1>7, <1>8, <1>9, <1>10, <1>11, <1>12, <1>13 DEF s

\* Inside one block of addresses.
LEMMA WithinShrunk ==
  ASSUME NEW f, NEW F, NEW at, NEW node, File(f, F, at, node), NEW n0 \in Nat, SingleStart <= n0, n0 < node.blocks,
         NEW q, q = Anc(n0, 1), First(q) < n0, node.blocks <= First(q) + A,
         NEW f2, Trimmed(f, F, at, q, n0 - First(q), node.blocks - First(q), f2)
  PROVE  Shrunk(f, F, at, node, n0, Removing(f2, [node EXCEPT !.blocks = n0]))
<1> DEFINE n == node.blocks
           k0 == n0 - First(q)
           upto == n - First(q)
           X == LastKids(q, k0)
           Y == InLevels(4, 4)
           G == X \union Y
           K == DOMAIN at \ G
           node2 == [node EXCEPT !.blocks = n0]
<1>1. /\ node \in InodeStruct /\ n \in 0 .. MaxBlocks /\ n \in Nat /\ Placed(at) /\ Shape(at, n) /\ DOMAIN at \subseteq Sites
  BY FileIs DEF Placed
<1>2. /\ q \in DOMAIN at /\ q \in Sites /\ q[2] = 1 /\ q[1] = Lev(n0) /\ q[1] \in 1 .. 3
      /\ n0 \in 0 .. (MaxBlocks - 1)
      /\ First(q) \in Nat /\ First(q) <= n0 /\ n0 < First(q) + A /\ k0 \in Nat
      /\ FilledTo(at, q, upto)
      /\ \A p \in X : p \in Sites /\ p[2] = 0 /\ p[1] = q[1] /\ n0 <= First(p)
      /\ \A p \in Sites : p[1] = q[1] /\ p[2] = 0 /\ n0 <= First(p) /\ First(p) < First(q) + A => p \in X
  BY <1>1, LastBlock
<1>3. Y = {}
  <2>1. \A p \in Sites : p[1] \in 0 .. 3  BY SiteIs
  <2> QED BY <2>1 DEF InLevels
<1>4. FieldsKept(node, node2) /\ node2.blocks = n0
  <2>1. Uprooted(node, node, 4, 4)  BY <1>1 DEF Uprooted
  <2>2. n0 \in 0 .. node.blocks /\ \A r \in 1 .. 3 : 4 <= r /\ r < 4 => n0 <= Start(r)  BY <1>1
  <2> QED BY <2>1, <2>2, <1>1, FieldsCut
<1> HIDE DEF node2
<1>5. A \in Nat /\ A2 \in Nat /\ A2 >= 1 /\ TripleStart \in Nat /\ Start(q[1] + 1) \in Nat
      /\ First(q) + A <= Start(q[1] + 1) /\ Start(q[1]) <= First(q) /\ Start(q[1]) \in Nat
  <2>1. W(q[2]) = A /\ q[1] # 0 /\ q[1] \in 0 .. 3  BY <1>2, Weights
  <2>2. First(q) + A <= Start(q[1] + 1)  BY <2>1, <1>2, SiteEnds
  <2>3. Start(q[1]) <= First(q)  BY <1>2, SiteIs
  <2>4. Start(q[1] + 1) \in Nat /\ Start(q[1]) \in Nat  BY <2>1, Widths
  <2>5. A \in Nat /\ A2 \in Nat /\ A2 >= 1 /\ TripleStart \in Nat  BY Sizes, Starts
  <2> QED BY <2>2, <2>3, <2>4, <2>5
<1>6. ASSUME NEW p \in Sites, n0 <= First(p), First(p) < n PROVE p \in X
  <2> DEFINE x == First(p)
  <2>1. x \in 0 .. (MaxBlocks - 1) /\ p[1] = Lev(x) /\ p = Anc(x, p[2]) /\ x \in Nat /\ p[2] \in 0 .. p[1]
    BY FirstAnc, SiteIs
  <2>2. q[1] = Lev(x) /\ q = Anc(x, 1)
    <3>1. First(q) <= x /\ x < First(q) + W(q[2]) /\ x < Start(q[1] + 1)
      <4>1. W(q[2]) = A  BY <1>2, Weights
      <4> HIDE DEF x
      <4> QED BY <4>1, <2>1, <1>1, <1>2, <1>5, <1>6 DEF x
    <3> HIDE DEF x
    <3>2. q[1] = Lev(x) /\ q = Anc(x, q[2])  BY <2>1, <3>1, <1>2, AncOnly
    <3> QED BY <3>2, <1>2
  <2> HIDE DEF x
  <2>3. ASSUME p[2] # 0 PROVE FALSE
    <3>1. First(Anc(x, p[2])) = x  BY <2>1 DEF x
    <3>2. \A h \in 1 .. Lev(x) : First(Anc(x, h)) = x => First(Anc(x, h - 1)) = x  BY <2>1, AncDown
    <3>3. p[2] \in 1 .. 3 /\ p[2] \in 1 .. Lev(x) /\ Lev(x) \in 1 .. 3  BY <2>1, <2>2, <2>3, <1>2
    <3>4. p[2] = 1 \/ p[2] = 2 \/ p[2] = 3  BY <3>3
    <3>5. First(Anc(x, 1)) = x
      <4>1. p[2] = 2 => First(Anc(x, 2 - 1)) = x  BY <3>1, <3>2, <3>3
      <4>2. p[2] = 3 => First(Anc(x, 3 - 1)) = x /\ 2 \in 1 .. Lev(x) /\ 3 - 1 = 2 /\ 2 - 1 = 1
        BY <3>1, <3>2, <3>3
      <4>3. p[2] = 3 => First(Anc(x, 2 - 1)) = x  BY <4>2, <3>2
      <4>4. 2 - 1 = 1  OBVIOUS
      <4> QED BY <4>1, <4>3, <4>4, <3>1, <3>4
    <3>6. First(q) = x  BY <3>5, <2>2
    <3> QED BY <3>6, <1>2, <1>6, <2>1 DEF x
  <2>4. First(p) < First(q) + A  BY <2>1, <1>1, <1>2, <1>5, <1>6 DEF x
  <2> HIDE DEF X
  <2> QED BY <2>1, <2>2, <2>3, <2>4, <1>2, <1>6
<1>7. ASSUME NEW p \in Stale(n) PROVE p \in Stale(n0)
  <2>1. p \in Sites /\ p[1] = 3 /\ p[2] = 2 /\ TripleStart < n /\ n <= First(p) /\ First(p) < n + A2 /\ First(p) \in Nat
    BY SiteIs DEF Stale
  <2>2. q[1] = 3 /\ TripleStart <= First(q)
    <3>1. TripleStart < Start(q[1] + 1)  BY <2>1, <1>1, <1>2, <1>5
    <3>2. q[1] = 1 \/ q[1] = 2 \/ q[1] = 3  BY <1>2
    <3>3. q[1] = 3  BY <3>1, <3>2, Starts
    <3> QED BY <3>3, <1>5, Starts
  <2> DEFINE Q == Anc(n0, 2)
  <2>3. Q \in Sites /\ Q[1] = 3 /\ Q[2] = 2 /\ First(Q) \in Nat /\ First(Q) <= First(q)
    <3>1. 2 \in 0 .. Lev(n0) /\ 2 \in 1 .. Lev(n0) /\ 2 - 1 = 1  BY <2>2, <1>2
    <3>2. First(Anc(n0, 2)) <= First(Anc(n0, 2 - 1))  BY <3>1, <1>2, AncDown
    <3> QED BY <3>1, <3>2, <2>2, <1>2, AncIs
  <2>4. n <= First(Q) + A2
    <3>1. Q = Up(q)
      <4>1. 2 \in 1 .. Lev(n0) /\ 2 - 1 = 1  BY <2>2, <1>2
      <4>2. Anc(n0, 2) = Up(Anc(n0, 2 - 1))  BY <4>1, <1>2, AncDown
      <4> QED BY <4>1, <4>2
    <3>2. q[2] # q[1]  BY <2>2, <1>2
    <3>3. q = Kid(Q, Slot(q)) /\ Slot(q) \in Word  BY <3>1, <3>2, <1>2, UpIs
    <3>4. Q[2] # 0 /\ Q[2] - 1 = 1  BY <2>3
    <3>5. First(q) + W(1) <= First(Q) + W(2)
      <4> HIDE DEF Q
      <4>1. First(Kid(Q, Slot(q))) + W(Q[2] - 1) <= First(Q) + W(Q[2])  BY <2>3, <3>3, <3>4, KidIs
      <4> QED BY <4>1, <3>3, <3>4, <2>3
    <3> HIDE DEF Q
    <3> QED BY <3>5, <2>3, <1>1, <1>2, <1>5, Weights
  <2> HIDE DEF Q
  <2>5. First(p) = TripleStart + p[3] * A2 /\ First(Q) = TripleStart + Q[3] * A2 /\ p[3] \in Nat /\ Q[3] \in Nat
    <3>1. Start(3) = TripleStart /\ W(2) = A2  BY Starts, Weights
    <3> QED BY <3>1, <2>1, <2>3, SiteIs
  <2>6. First(p) <= First(Q) + A2
    <3>1. ASSUME p[3] > Q[3] + 1 PROVE FALSE
      <4>1. p[3] * A2 = (Q[3] + 2) * A2 + (p[3] - Q[3] - 2) * A2  BY <2>5, <1>5
      <4>2. (p[3] - Q[3] - 2) * A2 \in Nat  BY <3>1, <2>5, <1>5
      <4>3. (Q[3] + 2) * A2 = Q[3] * A2 + 2 * A2  BY <2>5, <1>5
      <4> DEFINE a == p[3] * A2
                 b == Q[3] * A2
                 c == (p[3] - Q[3] - 2) * A2
      <4>4. a = b + 2 * A2 + c /\ c \in Nat /\ b \in Nat  BY <4>1, <4>2, <4>3, <2>5, <1>5
      <4>5. First(p) = TripleStart + a /\ First(Q) = TripleStart + b  BY <2>5
      <4> HIDE DEF a, b, c
      <4> QED BY <4>4, <4>5, <2>1, <2>4, <1>1, <1>5
    <3>2. p[3] <= Q[3] + 1  BY <3>1, <2>5
    <3>3. p[3] * A2 <= (Q[3] + 1) * A2
      <4>1. (Q[3] + 1) * A2 = p[3] * A2 + (Q[3] + 1 - p[3]) * A2 /\ (Q[3] + 1 - p[3]) * A2 \in Nat
        BY <3>2, <2>5, <1>5
      <4> DEFINE a == p[3] * A2
                 b == (Q[3] + 1) * A2
                 c == (Q[3] + 1 - p[3]) * A2
      <4>2. b = a + c /\ c \in Nat /\ a \in Nat  BY <4>1, <2>5, <1>5
      <4> HIDE DEF a, b, c
      <4>3. a <= b  BY <4>2
      <4> QED BY <4>3 DEF a, b
    <3>4. (Q[3] + 1) * A2 = Q[3] * A2 + A2  BY <2>5, <1>5
    <3> DEFINE a == p[3] * A2
               b == Q[3] * A2
    <3>5. a <= b + A2 /\ a \in Nat /\ b \in Nat /\ First(p) = TripleStart + a /\ First(Q) = TripleStart + b
      BY <3>3, <3>4, <2>5, <1>5
    <3> HIDE DEF a, b
    <3> QED BY <3>5, <1>5
  <2>7. TripleStart < n0 /\ n0 <= First(p) /\ First(p) < n0 + A2
    BY <2>1, <2>2, <2>3, <2>6, <1>1, <1>2, <1>5
  <2> QED BY <2>1, <2>7 DEF Stale
<1>8. Parted(at, n, n0, K, G)
  <2>1. ASSUME NEW p \in Reg(n0) PROVE p \in K
    <3>1. p \in Sites /\ First(p) < n0 /\ First(p) \in Nat  BY SiteIs DEF Reg
    <3>2. p \notin G
      <4> HIDE DEF X, Y
      <4> QED BY <3>1, <1>2, <1>3
    <3>3. p \in DOMAIN at  BY <3>1, <1>1 DEF Shape, Reg
    <3> QED BY <3>2, <3>3
  <2>2. ASSUME NEW p \in K PROVE p \in Reg(n0) \/ p \in Stale(n)
    <3>1. p \in Sites /\ (p \in Reg(n) \/ p \in Stale(n)) /\ First(p) \in Nat  BY <1>1, SiteIs DEF Shape
    <3>2. CASE p \in Reg(n)
      <4>1. First(p) < n  BY <3>2 DEF Reg
      <4>2. ~(n0 <= First(p))
        <5> HIDE DEF X, Y
        <5> QED BY <4>1, <3>1, <1>6
      <4> QED BY <4>2, <3>1 DEF Reg
    <3> QED BY <3>1, <3>2
  <2> HIDE DEF G
  <2> QED BY <2>1, <2>2, <1>7 DEF Parted, Shaped
<1>9. Freed(f2, F \union Img(at, X), f2, Img(at, Y))
  <2>1. Kids(at, q, k0, upto) = Img(at, X)  BY <1>2, LastKidsGone
  <2>2. FreeIs(f2, F \union Img(at, X))  BY <2>1 DEF Trimmed
  <2>3. Img(at, Y) = {}  BY <1>3 DEF Img
  <2> HIDE DEF X, Y
  <2> QED BY <2>2, <2>3, FreedNone
<1>10. Shrunk(f, F, at, node, n0, Removing(f2, node2))
  <2>1. 4 \in 1 .. 4 /\ q[1] < 4  BY <1>2
  <2>2. Trimmed(f, F, at, q, k0, upto, f2)  OBVIOUS
  <2>3. G = LastKids(q, k0) \union InLevels(4, 4) /\ K = DOMAIN at \ G
        /\ Parted(at, node.blocks, node2.blocks, K, G)
        /\ Freed(f2, F \union Img(at, LastKids(q, k0)), f2, Img(at, InLevels(4, 4)))
    BY <1>4, <1>8, <1>9
  <2> HIDE DEF G, K, k0, upto
  <2>4. Shrunk(f, F, at, node, node2.blocks, Removing(f2, node2))
    BY <2>1, <2>2, <2>3, <1>2, <1>4, TrimmedShrunk
  <2> QED BY <2>4, <1>4
<1> QED BY <1>10 DEF node2

\* The root above a logical block.
LEMMA AncRoot ==
  ASSUME NEW n \in 0 .. (MaxBlocks - 1), n >= SingleStart
  PROVE  Lev(n) \in 1 .. 3 /\ Anc(n, Lev(n)) = Root(Lev(n))
<1>1. Lev(n) \in 1 .. 3  BY RouteIs
<1> DEFINE r == Lev(n)
           q == Anc(n, r)
<1> HIDE DEF r
<1>2. r \in 1 .. 3 /\ r \in 0 .. 3 /\ r \in 0 .. r  BY <1>1 DEF r
<1>3. q \in Sites /\ q[1] = r /\ q[2] = r  BY <1>2, AncIs DEF r
<1> HIDE DEF q
<1>4. q[3] \in Nat /\ q[3] < Width(r, r) /\ q = <<q[1], q[2], q[3]>>  BY <1>3, SiteIs
<1>5. Width(r, r) = 1  BY <1>2, Widths
<1>6. q[3] = 0  BY <1>4, <1>5
<1> QED BY <1>1, <1>3, <1>4, <1>6 DEF Root, q, r

\* To a part of the single indirect block.
LEMMA SingleShrunk ==
  ASSUME NEW f, NEW F, NEW at, NEW node, File(f, F, at, node), NEW n0 \in Nat, SingleStart < n0, n0 < DoubleStart,
         n0 < node.blocks
  PROVE  Shrunk(f, F, at, node, n0, RemoveFromSingle(f, node, n0))
<1> DEFINE n == node.blocks
           q == Anc(n0, 1)
           k0 == n0 - First(q)
           upto == n - First(q)
           st0 == Removing(f, node)
           X == LastKids(q, k0)
           m == Levels(n)
           Y == InLevels(2, m + 1)
           G == X \union Y
           K == DOMAIN at \ G
           F1 == F \union Img(at, X)
<1>1. /\ node \in InodeStruct /\ n \in 0 .. MaxBlocks /\ n \in Nat /\ FreeIs(f, F)
      /\ Placed(at) /\ Ordered(at) /\ Shape(at, n) /\ DOMAIN at \subseteq Sites
      /\ (\A p \in Sites : Held(f, F, at, p))
      /\ (\A r \in 1 .. 3 : Start(r) < n => Rooted(node, at, r))
  BY FileIs DEF Placed
<1>2. /\ q \in DOMAIN at /\ q \in Sites /\ q[2] = 1 /\ q[1] = Lev(n0)
      /\ n0 \in 0 .. (MaxBlocks - 1)
      /\ First(q) \in Nat /\ First(q) <= n0 /\ n0 < First(q) + A /\ k0 \in Nat /\ upto \in Nat
      /\ FilledTo(at, q, upto)
      /\ (\A p \in X : p \in Sites /\ p[2] = 0 /\ p[1] = q[1] /\ n0 <= First(p))
      /\ (\A p \in Sites : p[1] = q[1] /\ p[2] = 0 /\ n0 <= First(p) /\ First(p) < First(q) + A => p \in X)
  <2>1. SingleStart <= n0  BY Starts
  <2> HIDE DEF q, n
  <2> QED BY <2>1, <1>1, LastBlock DEF q, n
<1>3. Lev(n0) = 1 /\ q = Root(1) /\ First(q) = SingleStart /\ DoubleStart = SingleStart + A
  <2>1. SingleStart <= n0 /\ Start(1) = SingleStart /\ Start(1 + 1) = DoubleStart /\ 1 \in 0 .. 3
    BY Starts
  <2>2. Lev(n0) = 1  BY <2>1, LevOnly
  <2>3. Anc(n0, Lev(n0)) = Root(Lev(n0))  BY <2>1, <1>2, AncRoot
  <2>4. First(Root(1)) = Start(1)  BY RootIs
  <2> QED BY <2>1, <2>2, <2>3, <2>4, Starts
<1>4. /\ SingleStart \in Nat /\ DoubleStart \in Nat /\ TripleStart \in Nat /\ DoubleStart < TripleStart
      /\ Start(1) = SingleStart /\ Start(2) = DoubleStart /\ Start(3) = TripleStart
  BY Starts
<1>5. node.singleIndirect = at[q] /\ st0.fs = f
  <2>1. Start(1) < n  BY <1>1, <1>4
  <2>2. Rooted(node, at, 1)  BY <2>1, <1>1
  <2> HIDE DEF q
  <2> QED BY <2>2, <1>3, RootsAre DEF Rooted, Removing
<1> HIDE DEF q, k0, upto, st0, m
<1>6. PICK f1 : /\ TrimBlock(st0, at[q], k0, upto) = Onward(st0, f1)
                /\ Trimmed(f, F, at, q, k0, upto, f1)
  <2>1. Filled(at, q, upto)  BY <1>2 DEF Filled, FilledTo
  <2>2. Held(st0.fs, F, at, q)  BY <1>1, <1>2, <1>5
  <2> QED BY <2>1, <2>2, <1>1, <1>2, <1>5, BlockTrimmed
<1>7. Onward(st0, f1) = Removing(f1, node)
  <2> DEFINE r == Onward(st0, f1)
  <2>1. st0 = [fs |-> f, node |-> node, ok |-> TRUE]  BY DEF st0, Removing
  <2>2. r = [st0 EXCEPT !.fs = f1, !.ok = TRUE]  BY DEF Onward
  <2> HIDE DEF r
  <2>3. r = [fs |-> f1, node |-> node, ok |-> TRUE]  BY <2>1, <2>2
  <2> QED BY <2>3 DEF Removing, r
<1>8. RemoveFromSingle(f, node, n0) = DropFrom(Removing(f1, node), 2, n0)
  <2>1. k0 = n0 - SingleStart /\ upto = n - SingleStart  BY <1>3 DEF k0, upto
  <2>2. RemoveFromSingle(f, node, n0) = DropFrom(TrimBlock(st0, at[q], k0, upto), 2, n0)
    BY <2>1, <1>5 DEF RemoveFromSingle, st0, Removing
  <2> QED BY <2>2, <1>6, <1>7
<1>9. m \in 0 .. 3 /\ m >= 1 /\ \A r \in 1 .. 3 : r <= m <=> Start(r) < n
  <2>1. m \in 0 .. 3 /\ \A r \in 1 .. 3 : r <= m <=> Start(r) < n  BY <1>1, LevelsIs DEF m
  <2>2. Start(1) < n  BY <1>1, <1>4
  <2> QED BY <2>1, <2>2
<1>10. RootsHeld(f1, F1, at, node, 2, m)
  <2> SUFFICES ASSUME NEW r \in 2 .. m PROVE Rooted(node, at, r) /\ Held(f1, F1, at, Root(r))
    BY DEF RootsHeld
  <2>1. r \in 1 .. 3 /\ r # 1 /\ Start(r) < n  BY <1>9
  <2>2. Rooted(node, at, r)  BY <2>1, <1>1
  <2>3. Root(r) \in Sites /\ Below(Root(r)) = {p \in Sites : p[1] = r}  BY <2>1, RootIs
  <2>4. q \notin Below(Root(r)) /\ X \intersect Below(Root(r)) = {}  BY <2>1, <2>3, <1>2, <1>3
  <2>5. Held(f1, F1, at, Root(r))  BY <2>3, <2>4, <1>1, <1>2, <1>6, HeldTrimmed
  <2> QED BY <2>2, <2>5
<1>11. FreeIs(f1, F1)
  <2>1. Kids(at, q, k0, upto) = Img(at, X)  BY <1>2, LastKidsGone
  <2> QED BY <2>1, <1>6 DEF Trimmed
<1> HIDE DEF F1
<1>12. PICK f2, nodeU : /\ DropFrom(Removing(f1, node), 2, n0) = Removing(f2, [nodeU EXCEPT !.blocks = n0])
                        /\ Uprooted(node, nodeU, 2, m + 1)
                        /\ Freed(f1, F1, f2, Img(at, InLevels(2, m + 1)))
  <2>1. n0 \in 0 .. MaxBlocks /\ 2 <= m + 1 /\ 2 \in 1 .. 4  BY <1>1, <1>9, Starts
  <2> QED BY <2>1, <1>1, <1>10, <1>11, DroppedFrom DEF m
<1> DEFINE node2 == [nodeU EXCEPT !.blocks = n0]
<1>13. FieldsKept(node, node2) /\ node2.blocks = n0
  <2>1. n0 \in 0 .. node.blocks  BY <1>1
  <2>2. \A r \in 1 .. 3 : 2 <= r /\ r < m + 1 => n0 <= Start(r)
    <3>1. \A r \in 1 .. 3 : r = 1 \/ r = 2 \/ r = 3  OBVIOUS
    <3> QED BY <3>1, <1>4
  <2> QED BY <2>1, <2>2, <1>1, <1>12, FieldsCut
<1> HIDE DEF node2
<1>14. ASSUME NEW p \in DOMAIN at, p[1] = 2 \/ p[1] = 3 PROVE p \in Y
  <2>1. p \in Sites /\ (p \in Reg(n) \/ p \in Stale(n))  BY <1>1 DEF Shape
  <2>2. p[1] <= m
    <3>1. CASE p \in Reg(n)
      <4>1. Start(p[1]) <= First(p) /\ First(p) < n /\ First(p) \in Nat  BY <2>1, <3>1, SiteIs DEF Reg
      <4>2. Start(p[1]) < n  BY <4>1, <1>1, <1>4, <1>14
      <4> QED BY <4>2, <1>9, <1>14
    <3>2. CASE p \in Stale(n)
      <4>1. p[1] = 3 /\ TripleStart < n  BY <3>2 DEF Stale
      <4> QED BY <4>1, <1>4, <1>9
    <3> QED BY <2>1, <3>1, <3>2
  <2> QED BY <2>1, <2>2, <1>9, <1>14 DEF InLevels
<1>15. ASSUME NEW p \in Reg(n0) PROVE p \in K
  <2>1. p \in Sites /\ First(p) < n0 /\ First(p) \in Nat /\ p[1] \in 0 .. 3 /\ Start(p[1]) <= First(p)
    BY SiteIs DEF Reg
  <2>2. p \notin X
    <3> HIDE DEF X
    <3> QED BY <2>1, <1>2
  <2>3. p \notin Y
    <3>1. ASSUME p[1] = 2 \/ p[1] = 3 PROVE FALSE
      BY <2>1, <3>1, <1>4
    <3> QED BY <2>1, <3>1 DEF InLevels
  <2>4. p \in DOMAIN at  BY <2>1, <1>1 DEF Shape, Reg
  <2> QED BY <2>2, <2>3, <2>4
<1>16. ASSUME NEW p \in K PROVE p \in Reg(n0)
  <2>1. p \in Sites /\ p \in DOMAIN at /\ p \notin X /\ p \notin Y  BY <1>1
  <2>2. p[1] \in 0 .. 3 /\ p[1] # 2 /\ p[1] # 3  BY <2>1, <1>14, SiteIs
  <2>3. p[1] = 0 \/ p[1] = 1  BY <2>2
  <2>4. CASE p[1] = 0
    <3>1. First(p) = p[3] /\ p[3] \in 0 .. (NUM_DIRECT_BLOCKS - 1)  BY <2>1, <2>4, DirectIs
    <3>2. First(p) < n0  BY <3>1, <1>4, Starts
    <3> QED BY <2>1, <3>2 DEF Reg
  <2>5. CASE p[1] = 1
    <3>1. p[2] \in 0 .. 1 /\ First(p) \in Nat /\ First(p) < DoubleStart
      <4>1. First(p) < Start(1 + 1) /\ 1 + 1 = 2  BY <2>1, <2>5, SiteEnds
      <4> QED BY <4>1, <2>1, <2>5, <1>4, SiteIs
    <3>2. CASE p[2] = 0
      <4>1. ~(n0 <= First(p))
        <5> HIDE DEF X
        <5> QED BY <2>1, <2>5, <3>1, <3>2, <1>2, <1>3
      <4> QED BY <4>1, <2>1, <3>1 DEF Reg
    <3>3. CASE p[2] = 1
      <4>1. q[1] = p[1] /\ q[2] = p[2] /\ First(q) <= First(p) /\ First(p) < First(q) + W(q[2])
        <5>1. Start(p[1]) <= First(p)  BY <2>1, SiteIs
        <5>2. W(1) = A  BY Weights
        <5> QED BY <5>1, <5>2, <2>5, <3>1, <3>3, <1>2, <1>3, <1>4
      <4>2. p = q  BY <4>1, <2>1, <1>2, SitesApart
      <4> QED BY <4>2, <1>2, <1>3, <1>4 DEF Reg
    <3> QED BY <3>1, <3>2, <3>3
  <2> QED BY <2>3, <2>4, <2>5
<1>17. Parted(at, n, n0, K, G)
  <2> HIDE DEF G
  <2> QED BY <1>15, <1>16 DEF Parted, Shaped
<1>18. Shrunk(f, F, at, node, node2.blocks, Removing(f2, node2))
  <2>1. 2 \in 1 .. 4 /\ q[1] < 2  BY <1>2, <1>3
  <2>2. G = LastKids(q, k0) \union InLevels(2, m + 1) /\ K = DOMAIN at \ G
        /\ Parted(at, node.blocks, node2.blocks, K, G)
        /\ Freed(f1, F \union Img(at, LastKids(q, k0)), f2, Img(at, InLevels(2, m + 1)))
    BY <1>12, <1>13, <1>17 DEF F1
  <2> HIDE DEF G, K
  <2> QED BY <2>1, <2>2, <1>2, <1>6, <1>13, TrimmedShrunk
<1> QED BY <1>8, <1>12, <1>13, <1>18 DEF node2

\* A truncation inside one block of addresses.
LEMMA WithinIs ==
  ASSUME NEW n \in 1 .. MaxBlocks, NEW n0 \in Nat, DoubleStart <= n0, n0 < n, WithinBlock(<<n, n0>>),
         NEW q, q = Anc(n0, 1)
  PROVE  First(q) < n0 /\ n <= First(q) + A
<1> DEFINE x == n - 1
<1>1. x \in Nat /\ x \in 0 .. (MaxBlocks - 1) /\ n0 \in 0 .. (MaxBlocks - 1) /\ SingleStart <= n0 /\ SingleStart <= x
      /\ x + 1 = n /\ DoubleStart <= x
  BY Starts
<1>2. Route(n0).path = Route(x).path /\ Route(n0).root = Route(x).root /\ Route(n0).entry > 0
  BY DEF WithinBlock
<1> HIDE DEF x
<1>3. /\ Lev(n0) \in 1 .. 3 /\ Route(n0).root = Roots[Lev(n0)]
      /\ Route(n0).entry = Slot(Anc(n0, 0))
      /\ Lev(n0) = 2 => Route(n0).path = <<Slot(Anc(n0, 1))>>
      /\ Lev(n0) = 3 => Route(n0).path = <<Slot(Anc(n0, 2)), Slot(Anc(n0, 1))>>
  BY <1>1, RouteIs
<1>4. /\ Lev(x) \in 1 .. 3 /\ Route(x).root = Roots[Lev(x)]
      /\ Lev(x) = 2 => Route(x).path = <<Slot(Anc(x, 1))>>
      /\ Lev(x) = 3 => Route(x).path = <<Slot(Anc(x, 2)), Slot(Anc(x, 1))>>
  BY <1>1, RouteIs
<1>5. Lev(n0) = Lev(x) /\ Lev(n0) \in 2 .. 3
  <2>1. Lev(n0) = Lev(x)  BY <1>2, <1>3, <1>4, RootsAre
  <2>2. Lev(n0) # 1
    <3>1. n0 < Start(Lev(n0) + 1)  BY <1>1, LevIs
    <3>2. Start(1 + 1) = DoubleStart  BY Starts
    <3> QED BY <3>1, <3>2, Starts
  <2> QED BY <2>1, <2>2, <1>3
<1>6. Anc(n0, 1) = Anc(x, 1)
  <2>1. Anc(n0, Lev(n0)) = Root(Lev(n0)) /\ Anc(x, Lev(n0)) = Root(Lev(n0))  BY <1>1, <1>5, AncRoot
  <2>2. ASSUME NEW h \in 1 .. 3, h <= Lev(n0), Anc(n0, h) = Anc(x, h), Slot(Anc(n0, h - 1)) = Slot(Anc(x, h - 1))
        PROVE  Anc(n0, h - 1) = Anc(x, h - 1)
    <3>1. h \in 1 .. Lev(n0) /\ h \in 1 .. Lev(x)  BY <2>2, <1>5
    <3>2. Anc(n0, h - 1) = Kid(Anc(n0, h), Slot(Anc(n0, h - 1)))  BY <3>1, <1>1, AncDown
    <3>3. Anc(x, h - 1) = Kid(Anc(x, h), Slot(Anc(x, h - 1)))  BY <3>1, <1>1, AncDown
    <3> QED BY <3>2, <3>3, <2>2
  <2>3. CASE Lev(n0) = 2
    <3>1. Slot(Anc(n0, 1)) = Slot(Anc(x, 1))
      <4>1. <<Slot(Anc(n0, 1))>> = <<Slot(Anc(x, 1))>>  BY <2>3, <1>2, <1>3, <1>4, <1>5
      <4> QED BY <4>1
    <3>2. 2 \in 1 .. 3 /\ 2 <= Lev(n0) /\ 2 - 1 = 1 /\ Anc(n0, 2) = Anc(x, 2)  BY <2>1, <2>3
    <3>3. Anc(n0, 2 - 1) = Anc(x, 2 - 1)  BY <3>1, <3>2, <2>2
    <3> QED BY <3>2, <3>3
  <2>4. CASE Lev(n0) = 3
    <3>1. Slot(Anc(n0, 1)) = Slot(Anc(x, 1)) /\ Slot(Anc(n0, 2)) = Slot(Anc(x, 2))
      <4>1. <<Slot(Anc(n0, 2)), Slot(Anc(n0, 1))>> = <<Slot(Anc(x, 2)), Slot(Anc(x, 1))>>
        BY <2>4, <1>2, <1>3, <1>4, <1>5
      <4> QED BY <4>1
    <3>2. 3 \in 1 .. 3 /\ 2 \in 1 .. 3 /\ 3 <= Lev(n0) /\ 2 <= Lev(n0) /\ 3 - 1 = 2 /\ 2 - 1 = 1 /\ Anc(n0, 3) = Anc(x, 3)
      BY <2>1, <2>4
    <3>3. Anc(n0, 3 - 1) = Anc(x, 3 - 1)  BY <3>1, <3>2, <2>2
    <3>4. Anc(n0, 2) = Anc(x, 2)  BY <3>2, <3>3
    <3>5. Anc(n0, 2 - 1) = Anc(x, 2 - 1)  BY <3>1, <3>2, <3>4, <2>2
    <3> QED BY <3>2, <3>5
  <2> QED BY <2>3, <2>4, <1>5
<1>7. 1 \in 0 .. Lev(n0) /\ 1 \in 1 .. Lev(n0) /\ 1 - 1 = 0 /\ 1 \in 0 .. Lev(x)  BY <1>5
<1>8. x < First(q) + A /\ First(q) \in Nat
  <2>1. x < First(Anc(x, 1)) + W(1) /\ First(Anc(x, 1)) \in Nat  BY <1>1, <1>7, AncIs
  <2> QED BY <2>1, <1>6, Weights
<1>9. First(q) < n0
  <2>1. First(Anc(n0, 1)) <= n0 /\ First(Anc(n0, 1)) \in Nat  BY <1>1, <1>7, AncIs
  <2>2. First(Anc(n0, 1)) = n0 => Slot(Anc(n0, 1 - 1)) = 0  BY <1>1, <1>7, AncDown
  <2>3. Slot(Anc(n0, 0)) > 0  BY <1>2, <1>3
  <2>4. First(Anc(n0, 1)) # n0  BY <2>2, <2>3, <1>7
  <2> QED BY <2>1, <2>4
<1> QED BY <1>1, <1>8, <1>9, Sizes

\* The rest of a removal that ended inside a block of addresses.
LEMMA AfterEnd ==
  ASSUME NEW f, NEW end, end <= A2, NEW node, NEW n0
  PROVE  /\ n0 # DoubleStart => AfterDouble(node, n0, Ended(f, end)) = Removing(f, [node EXCEPT !.blocks = n0])
         /\ n0 # TripleStart => Shortened(Cut(WithNode(Ended(f, end), node), "tripleIndirect", n0 = TripleStart), n0)
                                  = Removing(f, [node EXCEPT !.blocks = n0])
<1> DEFINE st == Removing(f, node)
           r == Shortened(st, n0)
<1>1. WithNode(Ended(f, end), node) = st /\ Ended(f, end).end = end  BY DEF WithNode, Ended, Removing
<1>2. st = [fs |-> f, node |-> node, ok |-> TRUE]  BY DEF Removing
<1> HIDE DEF st
<1>3. \A root : Cut(st, root, FALSE) = st  BY <1>2 DEF Cut, FreeIf
<1>4. r = Removing(f, [node EXCEPT !.blocks = n0])
  <2>1. r = [st EXCEPT !.node.blocks = n0]  BY <1>2 DEF Shortened
  <2> HIDE DEF r
  <2>2. r = [fs |-> f, node |-> [node EXCEPT !.blocks = n0], ok |-> TRUE]  BY <2>1, <1>2
  <2> QED BY <2>2 DEF Removing
<1>5. ASSUME n0 # DoubleStart
      PROVE  AfterDouble(node, n0, Ended(f, end)) = Removing(f, [node EXCEPT !.blocks = n0])
  <2>1. (n0 = DoubleStart) = FALSE  BY <1>5
  <2>2. A2 = NUM_OF_DOUBLE_INDIRECT_BLOCK_ADDR  BY DEF A2
  <2>3. AfterDouble(node, n0, Ended(f, end)) = Shortened(Cut(st, "doubleIndirect", FALSE), n0)
    BY <2>1, <2>2, <1>1 DEF AfterDouble
  <2> QED BY <2>3, <1>3, <1>4
<1>6. ASSUME n0 # TripleStart
      PROVE  Shortened(Cut(WithNode(Ended(f, end), node), "tripleIndirect", n0 = TripleStart), n0)
               = Removing(f, [node EXCEPT !.blocks = n0])
  <2>1. (n0 = TripleStart) = FALSE  BY <1>6
  <2> QED BY <2>1, <1>1, <1>3, <1>4
<1> QED BY <1>5, <1>6

\* Inside one block of addresses below the double indirect block.
LEMMA DoubleWithin ==
  ASSUME NEW f, NEW F, NEW at, NEW node, File(f, F, at, node), NEW n0 \in Nat, DoubleStart < n0, n0 < TripleStart,
         n0 < node.blocks, WithinBlock(<<node.blocks, n0>>)
  PROVE  Shrunk(f, F, at, node, n0, RemoveFromDouble(f, node, n0))
<1> DEFINE n == node.blocks
           q == Anc(n0, 1)
           k0 == n0 - First(q)
           upto == n - First(q)
           d == Slot(q)
<1>1. /\ node \in InodeStruct /\ n \in 0 .. MaxBlocks /\ n \in Nat /\ FreeIs(f, F)
      /\ Placed(at) /\ Ordered(at) /\ Shape(at, n) /\ DOMAIN at \subseteq Sites
      /\ (\A p \in Sites : Held(f, F, at, p))
      /\ (\A r \in 1 .. 3 : Start(r) < n => Rooted(node, at, r))
  BY FileIs DEF Placed
<1>2. SingleStart <= n0 /\ n \in 1 .. MaxBlocks /\ DoubleStart <= n0 /\ Start(2) = DoubleStart /\ Start(2 + 1) = TripleStart
  BY <1>1, Starts
<1>3. First(q) < n0 /\ n <= First(q) + A
  <2> HIDE DEF q, n
  <2> QED BY <1>2, WithinIs DEF q, n
<1>4. /\ q \in DOMAIN at /\ q \in Sites /\ q[2] = 1 /\ q[1] = Lev(n0)
      /\ n0 \in 0 .. (MaxBlocks - 1) /\ Slot(Anc(n0, 0)) = k0
      /\ First(q) \in Nat /\ k0 \in Nat /\ upto \in Nat /\ FilledTo(at, q, upto)
  <2> HIDE DEF q, n
  <2> QED BY <1>1, <1>2, LastBlock DEF q, n
<1>5. Lev(n0) = 2
  <2>1. 2 \in 0 .. 3  OBVIOUS
  <2> QED BY <2>1, <1>2, LevOnly
<1>6. q = Kid(Root(2), d) /\ d \in Word /\ Root(2) \in Sites /\ First(Root(2)) = DoubleStart /\ Root(2)[2] = 2
  <2>1. Anc(n0, 2) = Root(2)  BY <1>2, <1>4, <1>5, AncRoot
  <2>2. 2 \in 1 .. Lev(n0) /\ 2 - 1 = 1  BY <1>5
  <2>3. Anc(n0, 2 - 1) = Kid(Anc(n0, 2), Slot(Anc(n0, 2 - 1))) /\ Slot(Anc(n0, 2 - 1)) \in Word
    BY <2>2, <1>4, AncDown
  <2>4. Root(2) \in Sites /\ First(Root(2)) = Start(2) /\ Root(2)[2] = 2  BY RootIs
  <2> QED BY <2>1, <2>2, <2>3, <2>4, <1>2
<1> HIDE DEF q, k0, upto, d
<1>7. First(q) = DoubleStart + d * A /\ d * A \in Nat /\ d * A = A * d /\ A \in Nat /\ DoubleStart \in Nat
  <2>1. Root(2)[2] # 0 /\ Root(2)[2] - 1 = 1 /\ W(1) = A  BY <1>6, Weights
  <2>2. First(Kid(Root(2), d)) = First(Root(2)) + d * W(Root(2)[2] - 1)  BY <2>1, <1>6, KidIs
  <2>3. A \in Nat /\ d \in Nat /\ DoubleStart \in Nat  BY <1>6, Sizes, Starts
  <2> QED BY <2>1, <2>2, <2>3, <1>6
<1>8. node.doubleIndirect = at[Root(2)] /\ Root(2) \in DOMAIN at
  <2>1. Start(2) < n  BY <1>1, <1>2, <1>7
  <2>2. Rooted(node, at, 2)  BY <2>1, <1>1
  <2> QED BY <2>2, RootsAre DEF Rooted
<1> DEFINE dind == f.blk[node.doubleIndirect]
<1>9. dind[d] = at[q]
  <2>1. Points(f.blk, at, Root(2))  BY <1>6, <1>8 DEF File
  <2>2. EntryAt(at, Root(2), d) = at[q]  BY <1>4, <1>6 DEF EntryAt
  <2> QED BY <2>1, <2>2, <1>6, <1>8 DEF Points
<1>10. k0 > 0 /\ k0 <= upto /\ upto <= A  BY <1>1, <1>3, <1>4, <1>7 DEF k0, upto
<1> HIDE DEF dind
<1>11. PICK f2 : TrimLeaves(f, dind, d, d, k0, upto) = Ended(f2, upto) /\ Trimmed(f, F, at, q, k0, upto, f2)
  <2>1. Filled(at, q, upto)  BY <1>4 DEF Filled, FilledTo
  <2>2. Held(f, F, at, q)  BY <1>1, <1>4
  <2> QED BY <2>1, <2>2, <1>1, <1>4, <1>6, <1>9, <1>10, PartOfLeaves
<1>12. RemoveFromDouble(f, node, n0) = AfterDouble(node, n0, Ended(f2, upto))
  <2>1. Route(n0).path = <<d>> /\ Route(n0).entry = k0  BY <1>2, <1>4, <1>5, RouteIs DEF d, q
  <2>2. Route(n0).path[1] = d  BY <2>1
  <2>3. n - DoubleStart - A * d = upto
    <3> DEFINE z == d * A
    <3>1. A * d = z /\ z \in Nat /\ First(q) = DoubleStart + z  BY <1>7
    <3> HIDE DEF z
    <3> QED BY <3>1, <1>1, <1>4, <1>7 DEF upto
  <2>4. NUM_OF_SINGLE_INDIRECT_BLOCK_ADDR = A  BY DEF NUM_OF_SINGLE_INDIRECT_BLOCK_ADDR, A
  <2>5. RemoveFromDouble(f, node, n0) = AfterDouble(node, n0, TrimLeaves(f, dind, d, d, k0, n - DoubleStart - A * d))
    BY <2>1, <2>2, <2>4 DEF RemoveFromDouble, dind
  <2> QED BY <2>3, <2>5, <1>11
<1>13. RemoveFromDouble(f, node, n0) = Removing(f2, [node EXCEPT !.blocks = n0])
  <2>1. upto <= A2 /\ n0 # DoubleStart  BY <1>4, <1>7, <1>10, Sizes
  <2> QED BY <2>1, <1>12, AfterEnd
<1>14. Shrunk(f, F, at, node, n0, Removing(f2, [node EXCEPT !.blocks = n0]))
  BY <1>2, <1>3, <1>11, WithinShrunk DEF q, k0, upto
<1> QED BY <1>13, <1>14

\* Inside one block of addresses below the triple indirect block, behind the first one below
\* the double indirect block there.
LEMMA TripleWithin ==
  ASSUME NEW f, NEW F, NEW at, NEW node, File(f, F, at, node), NEW n0 \in Nat, TripleStart < n0,
         n0 < node.blocks, WithinBlock(<<node.blocks, n0>>), Route(n0).path[2] > 0
  PROVE  Shrunk(f, F, at, node, n0, RemoveFromTriple(f, node, n0))
<1> DEFINE n == node.blocks
           q == Anc(n0, 1)
           p == Anc(n0, 2)
           k0 == n0 - First(q)
           upto == n - First(q)
           d == Slot(q)
           t == Slot(p)
<1>1. /\ node \in InodeStruct /\ n \in 0 .. MaxBlocks /\ n \in Nat /\ FreeIs(f, F)
      /\ Placed(at) /\ Ordered(at) /\ Shape(at, n) /\ DOMAIN at \subseteq Sites
      /\ (\A x \in Sites : Held(f, F, at, x))
      /\ (\A r \in 1 .. 3 : Start(r) < n => Rooted(node, at, r))
  BY FileIs DEF Placed
<1>2. SingleStart <= n0 /\ n \in 1 .. MaxBlocks /\ DoubleStart <= n0 /\ Start(3) = TripleStart /\ Start(3 + 1) = MaxBlocks
      /\ TripleStart <= n0 /\ n0 < MaxBlocks
  BY <1>1, Starts
<1>3. First(q) < n0 /\ n <= First(q) + A
  <2> HIDE DEF q, n
  <2> QED BY <1>2, WithinIs DEF q, n
<1>4. /\ q \in DOMAIN at /\ q \in Sites /\ q[2] = 1 /\ q[1] = Lev(n0)
      /\ n0 \in 0 .. (MaxBlocks - 1) /\ Slot(Anc(n0, 0)) = k0
      /\ First(q) \in Nat /\ k0 \in Nat /\ upto \in Nat /\ FilledTo(at, q, upto)
  <2> HIDE DEF q, n
  <2> QED BY <1>1, <1>2, LastBlock DEF q, n
<1>5. Lev(n0) = 3
  <2>1. 3 \in 0 .. 3  OBVIOUS
  <2> QED BY <2>1, <1>2, LevOnly
<1>6. /\ q = Kid(p, d) /\ d \in Word /\ p \in Sites /\ p[2] = 2 /\ First(p) \in Nat /\ First(p) <= First(q)
      /\ p = Kid(Root(3), t) /\ t \in Word /\ Root(3) \in Sites /\ First(Root(3)) = TripleStart /\ Root(3)[2] = 3
  <2>1. Anc(n0, 3) = Root(3)  BY <1>2, <1>4, <1>5, AncRoot
  <2>2. 2 \in 1 .. Lev(n0) /\ 2 - 1 = 1 /\ 3 \in 1 .. Lev(n0) /\ 3 - 1 = 2 /\ 2 \in 0 .. Lev(n0)  BY <1>5
  <2>3. Anc(n0, 2 - 1) = Kid(Anc(n0, 2), Slot(Anc(n0, 2 - 1))) /\ Slot(Anc(n0, 2 - 1)) \in Word
        /\ First(Anc(n0, 2)) <= First(Anc(n0, 2 - 1))
    BY <2>2, <1>4, AncDown
  <2>4. Anc(n0, 3 - 1) = Kid(Anc(n0, 3), Slot(Anc(n0, 3 - 1))) /\ Slot(Anc(n0, 3 - 1)) \in Word
    BY <2>2, <1>4, AncDown
  <2>5. Root(3) \in Sites /\ First(Root(3)) = Start(3) /\ Root(3)[2] = 3  BY RootIs
  <2>6. p \in Sites /\ p[2] = 2 /\ First(p) \in Nat  BY <2>2, <1>4, AncIs
  <2> QED BY <2>1, <2>2, <2>3, <2>4, <2>5, <2>6, <1>2
<1>7. Route(n0).path = <<t, d>> /\ Route(n0).entry = k0  BY <1>2, <1>4, <1>5, RouteIs
<1>8. Route(n0).path[1] = t /\ Route(n0).path[2] = d /\ d > 0  BY <1>7
<1> HIDE DEF q, p, k0, upto, d, t
<1>9. /\ First(q) = First(p) + d * A /\ d * A \in Nat /\ d * A = A * d /\ A \in Nat
      /\ First(p) = TripleStart + t * A2 /\ t * A2 \in Nat /\ t * A2 = A2 * t /\ A2 \in Nat /\ TripleStart \in Nat
  <2>1. p[2] # 0 /\ p[2] - 1 = 1 /\ Root(3)[2] # 0 /\ Root(3)[2] - 1 = 2 /\ W(1) = A /\ W(2) = A2
    BY <1>6, Weights
  <2>2. First(Kid(p, d)) = First(p) + d * W(p[2] - 1)  BY <2>1, <1>6, KidIs
  <2>3. First(Kid(Root(3), t)) = First(Root(3)) + t * W(Root(3)[2] - 1)  BY <2>1, <1>6, KidIs
  <2>4. A \in Nat /\ A2 \in Nat /\ d \in Nat /\ t \in Nat /\ TripleStart \in Nat  BY <1>6, Sizes, Starts
  <2> QED BY <2>1, <2>2, <2>3, <2>4, <1>6
<1>10. node.tripleIndirect = at[Root(3)] /\ Root(3) \in DOMAIN at /\ p \in DOMAIN at
  <2>1. Start(3) < n /\ First(p) < n  BY <1>1, <1>2, <1>3, <1>4, <1>6, <1>9
  <2>2. Rooted(node, at, 3)  BY <2>1, <1>1
  <2>3. p \in DOMAIN at  BY <2>1, <1>1, <1>6 DEF Shape, Reg
  <2> QED BY <2>2, <2>3, RootsAre DEF Rooted
<1> DEFINE tind == f.blk[node.tripleIndirect]
<1>11. tind[t] = at[p] /\ at[p] > 0 /\ at[p] \in Nat /\ f.blk[at[p]][d] = at[q]
  <2>1. Points(f.blk, at, Root(3)) /\ Points(f.blk, at, p)  BY <1>6, <1>10 DEF File
  <2>2. EntryAt(at, Root(3), t) = at[p] /\ EntryAt(at, p, d) = at[q]  BY <1>4, <1>6, <1>10 DEF EntryAt
  <2>3. at[p] \in Pool  BY <1>1, <1>10 DEF Placed
  <2> QED BY <2>1, <2>2, <2>3, <1>6, <1>10, PoolIs DEF Points
<1>12. k0 > 0 /\ k0 <= upto /\ upto <= A  BY <1>1, <1>3, <1>4, <1>9 DEF k0, upto
<1> HIDE DEF tind
<1>13. PICK f2 : TrimTriple(f, tind, t, d, k0, upto) = Ended(f2, upto) /\ Trimmed(f, F, at, q, k0, upto, f2)
  <2>1. Filled(at, q, upto)  BY <1>4 DEF Filled, FilledTo
  <2>2. Held(f, F, at, q) /\ tind[t] > 0 /\ tind[t] \in Nat /\ f.blk[tind[t]][d] = at[q]
    BY <1>1, <1>4, <1>11
  <2> QED BY <2>1, <2>2, <1>1, <1>4, <1>6, <1>8, <1>12, PartOfTriple
<1>14. RemoveFromTriple(f, node, n0)
         = Shortened(Cut(WithNode(Ended(f2, upto), node), "tripleIndirect", n0 = TripleStart), n0)
  <2>1. n - TripleStart - A2 * t - A * d = upto
    <3> DEFINE y == t * A2
               z == d * A
    <3>1. A * d = z /\ z \in Nat /\ A2 * t = y /\ y \in Nat /\ First(q) = TripleStart + y + z  BY <1>9
    <3> HIDE DEF y, z
    <3> QED BY <3>1, <1>1, <1>4, <1>9 DEF upto
  <2>2. NUM_OF_SINGLE_INDIRECT_BLOCK_ADDR = A /\ NUM_OF_DOUBLE_INDIRECT_BLOCK_ADDR = A2
    BY DEF NUM_OF_SINGLE_INDIRECT_BLOCK_ADDR, A, A2
  <2>3. RemoveFromTriple(f, node, n0)
          = Shortened(Cut(WithNode(TrimTriple(f, tind, t, d, k0, n - TripleStart - A2 * t - A * d), node),
                          "tripleIndirect", n0 = TripleStart), n0)
    BY <2>2, <1>7, <1>8 DEF RemoveFromTriple, tind
  <2> QED BY <2>1, <2>3, <1>13
<1>15. RemoveFromTriple(f, node, n0) = Removing(f2, [node EXCEPT !.blocks = n0])
  <2>1. upto <= A2 /\ n0 # TripleStart  BY <1>4, <1>9, <1>12, Sizes
  <2> QED BY <2>1, <1>14, AfterEnd
<1>16. Shrunk(f, F, at, node, n0, Removing(f2, [node EXCEPT !.blocks = n0]))
  BY <1>2, <1>3, <1>13, WithinShrunk DEF q, k0, upto
<1> QED BY <1>15, <1>16

\* The first logical block of a level is reached through the entries 0.
LEMMA RouteStart ==
  /\ Route(DoubleStart).path = <<0>> /\ Route(DoubleStart).entry = 0
  /\ Route(TripleStart).path = <<0, 0>> /\ Route(TripleStart).entry = 0
  /\ Route(DoubleStart).root = "doubleIndirect" /\ Route(TripleStart).root = "tripleIndirect"
<1>1. \A r \in 2 .. 3 : /\ Start(r) \in 0 .. (MaxBlocks - 1) /\ Start(r) >= SingleStart /\ Lev(Start(r)) = r
                        /\ First(Anc(Start(r), r)) = Start(r)
  <2> SUFFICES ASSUME NEW r \in 2 .. 3 PROVE /\ Start(r) \in 0 .. (MaxBlocks - 1) /\ Start(r) >= SingleStart /\ Lev(Start(r)) = r
                                             /\ First(Anc(Start(r), r)) = Start(r)
    OBVIOUS
  <2>1. r \in 0 .. 3 /\ r \in 1 .. 3 /\ (r = 2 \/ r = 3)  OBVIOUS
  <2>2. Start(r) \in Nat /\ Start(r) < Start(r + 1) /\ Start(r) <= Start(r)  BY <2>1, Widths
  <2>3. Lev(Start(r)) = r /\ Start(r) \in 0 .. (MaxBlocks - 1)  BY <2>1, <2>2, LevOnly
  <2>4. Start(r) >= SingleStart  BY <2>1, Starts
  <2>5. Anc(Start(r), r) = Root(r)  BY <2>3, <2>4, AncRoot
  <2> QED BY <2>1, <2>3, <2>4, <2>5, RootIs
<1>2. \A r \in 2 .. 3 : \A h \in 1 .. r : First(Anc(Start(r), h)) = Start(r)
         => First(Anc(Start(r), h - 1)) = Start(r) /\ Slot(Anc(Start(r), h - 1)) = 0
  BY <1>1, AncDown
<1>3. Slot(Anc(Start(2), 1)) = 0 /\ Slot(Anc(Start(2), 0)) = 0
  <2>1. First(Anc(Start(2), 2 - 1)) = Start(2) /\ Slot(Anc(Start(2), 2 - 1)) = 0  BY <1>1, <1>2
  <2>2. 2 - 1 = 1 /\ 1 - 1 = 0  OBVIOUS
  <2>3. Slot(Anc(Start(2), 1 - 1)) = 0  BY <2>1, <2>2, <1>2
  <2> QED BY <2>1, <2>2, <2>3
<1>4. Slot(Anc(Start(3), 2)) = 0 /\ Slot(Anc(Start(3), 1)) = 0 /\ Slot(Anc(Start(3), 0)) = 0
  <2>1. First(Anc(Start(3), 3 - 1)) = Start(3) /\ Slot(Anc(Start(3), 3 - 1)) = 0  BY <1>1, <1>2
  <2>2. 3 - 1 = 2 /\ 2 - 1 = 1 /\ 1 - 1 = 0  OBVIOUS
  <2>3. First(Anc(Start(3), 2 - 1)) = Start(3) /\ Slot(Anc(Start(3), 2 - 1)) = 0  BY <2>1, <2>2, <1>2
  <2>4. Slot(Anc(Start(3), 1 - 1)) = 0  BY <2>2, <2>3, <1>2
  <2> QED BY <2>1, <2>2, <2>3, <2>4
<1>5. Start(2) = DoubleStart /\ Start(3) = TripleStart  BY Starts
<1>6. \A r \in 2 .. 3 : /\ Route(Start(r)).entry = Slot(Anc(Start(r), 0)) /\ Route(Start(r)).root = Roots[r]
                        /\ r = 2 => Route(Start(r)).path = <<Slot(Anc(Start(r), 1))>>
                        /\ r = 3 => Route(Start(r)).path = <<Slot(Anc(Start(r), 2)), Slot(Anc(Start(r), 1))>>
  BY <1>1, RouteIs
<1>7. Route(DoubleStart).path = <<0>> /\ Route(DoubleStart).entry = 0 /\ Route(DoubleStart).root = "doubleIndirect"
  BY <1>3, <1>5, <1>6, RootsAre
<1>8. Route(TripleStart).path = <<0, 0>> /\ Route(TripleStart).entry = 0 /\ Route(TripleStart).root = "tripleIndirect"
  BY <1>4, <1>5, <1>6, RootsAre
<1> QED BY <1>7, <1>8

\* The root of a level is freed after what was below it.
LEMMA CutWhole ==
  ASSUME NEW f, NEW F, FreeIs(f, F), NEW at, Placed(at), NEW node, NEW r \in 1 .. 3, Rooted(node, at, r), at[Root(r)] \notin F
  PROVE  \E f2 : /\ Cut(Removing(f, node), Roots[r], TRUE) = Removing(f2, [node EXCEPT ![Roots[r]] = 0])
                 /\ Freed(f, F, f2, {at[Root(r)]})
<1> DEFINE b == at[Root(r)]
           st == Removing(f, node)
           f2 == free_data_block(f, b).fs
           st2 == FreeIf(st, TRUE, b)
           R == Roots[r]
           st3 == Cut(st, R, TRUE)
<1>1. b \in Pool /\ node[R] = b  BY DEF Rooted, Placed
<1>2. free_data_block(f, b).ok = TRUE /\ Freed(f, F, f2, {b})  BY <1>1, FreedOne
<1>3. st = [fs |-> f, node |-> node, ok |-> TRUE]  BY DEF Removing
<1> HIDE DEF b, f2, st, R
<1>4. st2 = [st EXCEPT !.fs = f2, !.ok = TRUE]
  <2>1. st.ok = TRUE /\ st.fs = f  BY <1>3
  <2> QED BY <2>1, <1>2 DEF FreeIf, f2
<1> HIDE DEF st2
<1>5. st2 = [fs |-> f2, node |-> node, ok |-> TRUE]  BY <1>3, <1>4
<1>6. st3 = [st2 EXCEPT !.node[R] = 0]
  <2>1. st.node[R] = b  BY <1>1, <1>3
  <2>2. st3 = IF st2.ok /\ TRUE THEN [st2 EXCEPT !.node[R] = 0] ELSE st2  BY <2>1 DEF Cut, st2
  <2> HIDE DEF st3
  <2> QED BY <2>2, <1>5
<1> HIDE DEF st3
<1>7. st3 = [fs |-> f2, node |-> [node EXCEPT ![R] = 0], ok |-> TRUE]  BY <1>5, <1>6
<1>8. st3 = Removing(f2, [node EXCEPT ![R] = 0])  BY <1>7 DEF Removing
<1> QED BY <1>2, <1>8 DEF st3, st, R, b

\* The last assignment of a removal sets the number of blocks.
LEMMA ShortenedIs ==
  ASSUME NEW f, NEW node, NEW n0
  PROVE  Shortened(Removing(f, node), n0) = Removing(f, [node EXCEPT !.blocks = n0])
<1> DEFINE st == Removing(f, node)
           r == Shortened(st, n0)
<1>1. st = [fs |-> f, node |-> node, ok |-> TRUE]  BY DEF Removing
<1> HIDE DEF st
<1>2. r = [st EXCEPT !.node.blocks = n0]  BY <1>1 DEF Shortened
<1> HIDE DEF r
<1>3. r = [fs |-> f, node |-> [node EXCEPT !.blocks = n0], ok |-> TRUE]  BY <1>1, <1>2
<1> QED BY <1>3 DEF Removing, r, st

\* The levels start one after the other.
LEMMA StartsUp ==
  ASSUME NEW r \in 0 .. 4, NEW s \in 0 .. 4, r <= s
  PROVE  Start(r) <= Start(s) /\ Start(r) \in Nat
<1>1. r = 0 \/ r = 1 \/ r = 2 \/ r = 3 \/ r = 4  OBVIOUS
<1>2. s = 0 \/ s = 1 \/ s = 2 \/ s = 3 \/ s = 4  OBVIOUS
<1>3. Start(r) \in Nat /\ Start(s) \in Nat  BY <1>1, <1>2, Starts
<1>4. /\ Start(0) <= Start(1) /\ Start(1) <= Start(2) /\ Start(2) <= Start(3) /\ Start(3) <= Start(4)
      /\ Start(0) \in Nat /\ Start(1) \in Nat /\ Start(2) \in Nat /\ Start(3) \in Nat /\ Start(4) \in Nat
  BY Starts
<1> QED BY <1>1, <1>2, <1>3, <1>4

\* A file that keeps its lower levels.
LEMMA LevelsParted ==
  ASSUME NEW at, NEW n \in Nat, Shape(at, n), NEW l \in 1 .. 3, Start(l) <= n, NEW G, G \subseteq InLevels(l, 4),
         \A p \in DOMAIN at : l <= p[1] => p \in G \/ p \in Stale(n), NEW K, K = {p \in DOMAIN at : p[1] < l}
  PROVE  Parted(at, n, Start(l), K, G) /\ Closed(at, K)
<1>1. DOMAIN at \subseteq Sites /\ Reg(n) \subseteq DOMAIN at /\ DOMAIN at \subseteq Reg(n) \union Stale(n)
  BY DEF Shape, Placed
<1>2. l \in 0 .. 4 /\ Start(l) \in Nat  BY StartsUp
<1>3. ASSUME NEW p \in Sites PROVE p[1] < l <=> First(p) < Start(l)
  <2>1. p[1] \in 0 .. 3 /\ p[1] \in 0 .. 4 /\ p[1] + 1 \in 0 .. 4 /\ Start(p[1]) <= First(p) /\ First(p) \in Nat
        /\ First(p) < Start(p[1] + 1)
    BY SiteIs, SiteEnds
  <2>2. CASE p[1] < l
    <3>1. p[1] + 1 <= l  BY <2>1, <2>2
    <3>2. Start(p[1] + 1) <= Start(l) /\ Start(p[1] + 1) \in Nat  BY <2>1, <3>1, <1>2, StartsUp
    <3> QED BY <2>1, <2>2, <3>2, <1>2
  <2>3. CASE ~(p[1] < l)
    <3>1. Start(l) <= Start(p[1]) /\ Start(p[1]) \in Nat  BY <2>1, <2>3, <1>2, StartsUp
    <3> QED BY <2>1, <2>3, <3>1, <1>2
  <2> QED BY <2>2, <2>3
<1>4. Reg(Start(l)) \subseteq K
  <2>1. Reg(Start(l)) \subseteq Reg(n)  BY <1>2, RegIs
  <2> QED BY <2>1, <1>1, <1>3 DEF Reg
<1>5. K \subseteq Reg(Start(l))  BY <1>1, <1>3 DEF Reg
<1>6. G \intersect K = {}
  <2>1. \A p \in K : p[1] \in 0 .. 3  BY <1>1, SiteIs
  <2> QED BY <2>1 DEF InLevels
<1>7. DOMAIN at \subseteq K \union G \union Stale(n)
  <2>1. \A p \in DOMAIN at : p[1] \in 0 .. 3  BY <1>1, SiteIs
  <2> QED BY <2>1
<1>8. Parted(at, n, Start(l), K, G)  BY <1>4, <1>5, <1>6, <1>7 DEF Parted, Shaped
<1>9. Closed(at, K)  BY DEF Closed, Kid
<1> QED BY <1>8, <1>9

\* To exactly the start of the double indirect block.
LEMMA DoubleWhole ==
  ASSUME NEW f, NEW F, NEW at, NEW node, File(f, F, at, node), NEW n0, n0 = DoubleStart, n0 < node.blocks,
         node.blocks <= TripleStart \/ node.blocks - TripleStart > A2
  PROVE  Shrunk(f, F, at, node, n0, RemoveFromDouble(f, node, n0))
<1> DEFINE n == node.blocks
           q == Root(2)
           left == n - n0
           trim == TrimLeaves(f, f.blk[at[q]], 0, 0, 0, left)
           X == Img(at, Under(q, A))
           F1 == F \union X
           K == {p \in DOMAIN at : p[1] < 2}
<1>1. /\ node \in InodeStruct /\ n \in 0 .. MaxBlocks /\ n \in Nat /\ FreeIs(f, F)
      /\ Placed(at) /\ Ordered(at) /\ Shape(at, n) /\ DOMAIN at \subseteq Sites
      /\ (\A p \in Sites : Held(f, F, at, p))
      /\ (\A r \in 1 .. 3 : Start(r) < n => Rooted(node, at, r))
  BY FileIs DEF Placed
<1>2. /\ DoubleStart \in Nat /\ TripleStart \in Nat /\ Start(2) = DoubleStart /\ Start(3) = TripleStart
      /\ TripleStart = DoubleStart + A2 /\ A2 \in Nat /\ A \in Nat /\ A <= A2 /\ A2 >= 1
  BY Starts, Sizes
<1>3. /\ q \in Sites /\ q[1] = 2 /\ q[2] = 2 /\ First(q) = n0 /\ Below(q) = {p \in Sites : p[1] = 2}
  BY <1>2, RootIs
<1>4. Rooted(node, at, 2) /\ q \in DOMAIN at /\ node.doubleIndirect = at[q]
  <2>1. Rooted(node, at, 2)  BY <1>1, <1>2
  <2> QED BY <2>1, RootsAre DEF Rooted
<1>5. left \in Nat /\ left > 0 /\ n = First(q) + left  BY <1>1, <1>2, <1>3
<1> HIDE DEF q, left
<1>6. TreeLeft(trim, f, F, X, left, A2)
  <2>1. RegularBelow(at, q, n)  BY <1>1, <1>3, ShapeRegular
  <2>2. Held(f, F, at, q)  BY <1>1, <1>3
  <2> QED BY <2>1, <2>2, <1>1, <1>3, <1>4, <1>5, WholeLeaves
<1>7. PICK f1, e : /\ Freed(f, F, f1, X)
                   /\ \/ trim = Running(f1, e) /\ e = left - A2 /\ left > A2
                      \/ trim = Ended(f1, e) /\ e \in 1 .. A /\ left <= A2
  <2> HIDE DEF trim, X
  <2> QED BY <1>6 DEF TreeLeft
<1>8. trim.fs = f1 /\ trim.ok = TRUE /\ trim.end = e
  <2> HIDE DEF trim
  <2> QED BY <1>7 DEF Running, Ended
<1>9. WithNode(trim, node) = Removing(f1, node)  BY <1>8 DEF WithNode, Removing
<1>10. RemoveFromDouble(f, node, n0) = AfterDouble(node, n0, trim)
  <2>1. Route(n0).path[1] = 0 /\ Route(n0).entry = 0  BY RouteStart
  <2>2. n - DoubleStart - A * 0 = left  BY <1>1, <1>2 DEF left
  <2>3. NUM_OF_SINGLE_INDIRECT_BLOCK_ADDR = A  BY DEF NUM_OF_SINGLE_INDIRECT_BLOCK_ADDR, A
  <2> QED BY <2>1, <2>2, <2>3, <1>4 DEF RemoveFromDouble
<1> HIDE DEF trim
<1>11. q \notin Under(q, A) /\ Below(q) = {q} \union Under(q, A) /\ at[q] \notin F1
  <2>1. q \notin Under(q, A) /\ Below(q) = {q} \union Under(q, A) /\ q \in Below(q)  BY <1>3, BelowIs
  <2>2. at[q] \notin F  BY <1>4 DEF File
  <2>3. ASSUME NEW p \in Under(q, A) \intersect DOMAIN at, at[p] = at[q] PROVE FALSE
    <3>1. p = q  BY <2>3, <1>1, <1>4 DEF Placed
    <3> QED BY <3>1, <2>1
  <2> QED BY <2>1, <2>2, <2>3 DEF Img
<1> DEFINE node1 == [node EXCEPT ![Roots[2]] = 0]
<1>12. PICK f2 : /\ Cut(Removing(f1, node), Roots[2], TRUE) = Removing(f2, node1)
                 /\ Freed(f1, F1, f2, {at[q]})
  <2>1. FreeIs(f1, F1)  BY <1>7 DEF Freed
  <2>2. 2 \in 1 .. 3  OBVIOUS
  <2> HIDE DEF F1
  <2> QED BY <2>1, <2>2, <1>1, <1>4, <1>11, CutWhole DEF q
<1>13. Freed(f, F, f2, Img(at, Below(q)))
  <2>1. Freed(f, F, f2, X \union {at[q]})
    <3> HIDE DEF X
    <3> QED BY <1>7, <1>12, FreedMore
  <2>2. X \union {at[q]} = Img(at, Below(q))  BY <1>4, <1>11 DEF Img
  <2> QED BY <2>1, <2>2
<1>14. node1 \in InodeStruct /\ node1.blocks = n /\ Uprooted(node, node1, 2, 3)
       /\ \A s \in 1 .. 3 : node1[Roots[s]] = IF s = 2 THEN 0 ELSE node[Roots[s]]
  <2>1. 2 \in 1 .. 3 /\ 0 \in Int  OBVIOUS
  <2>2. /\ node1 \in InodeStruct /\ node1.blocks = node.blocks /\ node1.directAddresses = node.directAddresses
        /\ \A s \in 1 .. 3 : node1[Roots[s]] = IF s = 2 THEN 0 ELSE node[Roots[s]]
    BY <2>1, <1>1, RootEdit
  <2>3. \A s \in 1 .. 3 : s = 2 <=> 2 <= s /\ s < 3  OBVIOUS
  <2> HIDE DEF node1
  <2> QED BY <2>2, <2>3 DEF Uprooted
<1> HIDE DEF node1
<1>15. AfterDouble(node, n0, trim) = Shortened(IF e <= A2 THEN Removing(f2, node1) ELSE DropRoot(Removing(f2, node1), "tripleIndirect"), n0)
  <2>1. (n0 = DoubleStart) = TRUE /\ NUM_OF_DOUBLE_INDIRECT_BLOCK_ADDR = A2  BY DEF A2
  <2>2. Cut(WithNode(trim, node), "doubleIndirect", n0 = DoubleStart) = Removing(f2, node1)
    BY <2>1, <1>9, <1>12, RootsAre
  <2> QED BY <2>1, <2>2, <1>8 DEF AfterDouble
<1>16. n0 \in 0 .. n /\ n0 <= n /\ Start(2) = n0 /\ n0 < Start(3)  BY <1>1, <1>2
<1>17. CASE n <= TripleStart
  <2>1. e <= A2
    <3>1. left <= A2  BY <1>17, <1>1, <1>2, <1>5 DEF left
    <3> QED BY <3>1, <1>2, <1>5, <1>7
  <2> DEFINE node2 == [node1 EXCEPT !.blocks = n0]
  <2>2. RemoveFromDouble(f, node, n0) = Removing(f2, node2)  BY <2>1, <1>10, <1>15, ShortenedIs
  <2>3. FieldsKept(node, node2) /\ node2.blocks = n0
    <3>1. \A r \in 1 .. 3 : 2 <= r /\ r < 3 => n0 <= Start(r)
      <4>1. \A r \in 1 .. 3 : r = 1 \/ r = 2 \/ r = 3  OBVIOUS
      <4> QED BY <4>1, <1>16, <1>2
    <3> QED BY <3>1, <1>1, <1>14, <1>16, FieldsCut
  <2>4. Parted(at, n, Start(2), K, Below(q)) /\ Closed(at, K)
    <3>1. Below(q) \subseteq InLevels(2, 4)  BY <1>3 DEF InLevels
    <3>2. ASSUME NEW p \in DOMAIN at, 2 <= p[1] PROVE p \in Below(q) \/ p \in Stale(n)
      <4>1. p \in Sites /\ p[1] \in 0 .. 3 /\ Start(p[1]) <= First(p) /\ First(p) \in Nat
        BY <1>1, SiteIs
      <4>2. p \in Stale(n) \/ First(p) < n  BY <1>1 DEF Shape, Reg
      <4>3. p[1] = 2 \/ p[1] = 3  BY <4>1, <3>2
      <4> QED BY <4>1, <4>2, <4>3, <1>1, <1>2, <1>3, <1>17
    <3>3. 2 \in 1 .. 3  OBVIOUS
    <3> QED BY <3>1, <3>2, <3>3, <1>1, <1>16, LevelsParted
  <2> HIDE DEF K, node2
  <2>5. Parted(at, node.blocks, node2.blocks, K, Below(q))  BY <2>3, <2>4, <1>16
  <2>6. Shrunk(f, F, at, node, node2.blocks, Removing(f2, node2))
    BY <2>3, <2>4, <2>5, <1>13, WholeShrunk
  <2> QED BY <2>2, <2>3, <2>6
<1>18. CASE n - TripleStart > A2
  <2>1. ~(e <= A2)
    <3>1. left = n - TripleStart + A2  BY <1>1, <1>2 DEF left
    <3>2. left > A2 /\ left - A2 > A2  BY <3>1, <1>18, <1>1, <1>2
    <3> QED BY <3>2, <1>2, <1>5, <1>7
  <2>2. Rooted(node1, at, 3)
    <3>1. Start(3) < n  BY <1>18, <1>1, <1>2
    <3>2. Rooted(node, at, 3)  BY <3>1, <1>1
    <3>3. 3 \in 1 .. 3 /\ 3 # 2  OBVIOUS
    <3> QED BY <3>2, <3>3, <1>14 DEF Rooted
  <2> DEFINE F2 == F \union Img(at, Below(q))
  <2>3. Held(f2, F2, at, Root(3))
    <3>1. Root(3) \in Sites /\ Below(Root(3)) = {p \in Sites : p[1] = 3}  BY RootIs
    <3>2. Below(q) \intersect Below(Root(3)) = {}  BY <3>1, <1>3
    <3>3. Below(Root(3)) \subseteq Below(Root(3)) /\ Held(f, F, at, Root(3))  BY <3>1, <1>1
    <3> QED BY <3>1, <3>2, <3>3, <1>1, <1>13, HeldApart
  <2> DEFINE node3 == [node1 EXCEPT ![Roots[3]] = 0]
             Y == InLevels(3, 3 + 1)
  <2>4. PICK f3 : /\ DropRoot(Removing(f2, node1), Roots[3]) = Removing(f3, node3)
                  /\ Freed(f2, F2, f3, Img(at, Y))
    <3>1. 3 \in 1 .. 3  OBVIOUS
    <3> HIDE DEF F2
    <3> QED BY <3>1, <2>2, <2>3, <1>1, <1>14, RootDropped
  <2> DEFINE node2 == [node3 EXCEPT !.blocks = n0]
             G == Below(q) \union Y
  <2>5. RemoveFromDouble(f, node, n0) = Removing(f3, node2)
    <3>1. Roots[3] = "tripleIndirect"  BY RootsAre
    <3>2. AfterDouble(node, n0, trim) =
            Shortened(IF e <= A2 THEN Removing(f2, node1) ELSE DropRoot(Removing(f2, node1), "tripleIndirect"), n0)
      BY <1>15
    <3> HIDE DEF node3, node1
    <3> QED BY <3>1, <3>2, <2>1, <2>4, <1>10, ShortenedIs
  <2>6. Freed(f, F, f3, Img(at, G))
    <3>1. Img(at, G) = Img(at, Below(q)) \union Img(at, Y)  BY DEF Img
    <3> HIDE DEF G, Y
    <3> QED BY <3>1, <2>4, <1>13, FreedMore
  <2>7. Uprooted(node, node3, 2, 4)
    <3>1. 3 \in 1 .. 3 /\ 0 \in Int  OBVIOUS
    <3>2. /\ node3 \in InodeStruct /\ node3.blocks = node1.blocks /\ node3.directAddresses = node1.directAddresses
          /\ \A s \in 1 .. 3 : node3[Roots[s]] = IF s = 3 THEN 0 ELSE node1[Roots[s]]
      BY <3>1, <1>14, RootEdit
    <3>3. \A s \in 1 .. 3 : (2 <= s /\ s < 4) <=> (s = 2 \/ s = 3)  OBVIOUS
    <3> HIDE DEF node3
    <3> QED BY <3>2, <3>3, <1>14 DEF Uprooted
  <2> HIDE DEF node3
  <2>8. FieldsKept(node, node2) /\ node2.blocks = n0
    <3>1. \A r \in 1 .. 3 : 2 <= r /\ r < 4 => n0 <= Start(r)
      <4>1. \A r \in 1 .. 3 : r = 1 \/ r = 2 \/ r = 3  OBVIOUS
      <4> QED BY <4>1, <1>16, <1>2
    <3> QED BY <3>1, <2>7, <1>1, <1>16, FieldsCut
  <2>9. Parted(at, n, Start(2), K, G) /\ Closed(at, K)
    <3>1. G \subseteq InLevels(2, 4)
      <4>1. ASSUME NEW p \in G PROVE p \in Sites /\ 2 <= p[1] /\ p[1] < 4
        <5>1. p \in Sites /\ (p[1] = 2 \/ 3 <= p[1])  BY <4>1, <1>3 DEF InLevels
        <5>2. p[1] \in 0 .. 3  BY <5>1, SiteIs
        <5> QED BY <5>1, <5>2
      <4> QED BY <4>1 DEF InLevels
    <3>2. ASSUME NEW p \in DOMAIN at, 2 <= p[1] PROVE p \in G
      <4>1. p \in Sites /\ p[1] \in 0 .. 3  BY <1>1, SiteIs
      <4>2. p[1] = 2 \/ p[1] = 3  BY <4>1, <3>2
      <4> QED BY <4>1, <4>2, <1>3 DEF InLevels
    <3>3. 2 \in 1 .. 3  OBVIOUS
    <3> HIDE DEF G
    <3> QED BY <3>1, <3>2, <3>3, <1>1, <1>16, LevelsParted
  <2> HIDE DEF K, node2, G
  <2>10. Parted(at, node.blocks, node2.blocks, K, G)  BY <2>8, <2>9, <1>16
  <2>11. Shrunk(f, F, at, node, node2.blocks, Removing(f3, node2))
    BY <2>6, <2>8, <2>9, <2>10, WholeShrunk
  <2> QED BY <2>5, <2>8, <2>11
<1> QED BY <1>17, <1>18

\* To exactly the start of the triple indirect block.
LEMMA TripleWhole ==
  ASSUME NEW f, NEW F, NEW at, NEW node, File(f, F, at, node), NEW n0, n0 = TripleStart, n0 < node.blocks
  PROVE  Shrunk(f, F, at, node, n0, RemoveFromTriple(f, node, n0))
<1> DEFINE n == node.blocks
           q == Root(3)
           left == n - n0
           trim == TrimTriple(f, f.blk[at[q]], 0, 0, 0, left)
           S == Under(q, A) \intersect Reg(n)
           X == Img(at, S)
           F1 == F \union X
           K == {p \in DOMAIN at : p[1] < 3}
           G == S \union {q}
<1>1. /\ node \in InodeStruct /\ n \in 0 .. MaxBlocks /\ n \in Nat /\ FreeIs(f, F)
      /\ Placed(at) /\ Ordered(at) /\ Shape(at, n) /\ DOMAIN at \subseteq Sites
      /\ (\A p \in Sites : Held(f, F, at, p))
      /\ (\A r \in 1 .. 3 : Start(r) < n => Rooted(node, at, r))
  BY FileIs DEF Placed
<1>2. TripleStart \in Nat /\ Start(3) = TripleStart  BY Starts
<1>3. /\ q \in Sites /\ q[1] = 3 /\ q[2] = 3 /\ First(q) = n0 /\ Below(q) = {p \in Sites : p[1] = 3}
  BY <1>2, RootIs
<1>4. Rooted(node, at, 3) /\ q \in DOMAIN at /\ node.tripleIndirect = at[q]
  <2>1. Rooted(node, at, 3)  BY <1>1, <1>2
  <2> QED BY <2>1, RootsAre DEF Rooted
<1>5. left \in Nat /\ left > 0 /\ n = First(q) + left  BY <1>1, <1>2, <1>3
<1> HIDE DEF q, left
<1>6. TreeLeft(trim, f, F, X, left, A3)
  <2>1. EntriesRegular(at, q, n)
    <3>1. ASSUME NEW k \in Word, First(Kid(q, k)) < n PROVE RegularBelow(at, Kid(q, k), n)
      <4>1. q[2] # 0 /\ q[2] - 1 = 2  BY <1>3
      <4>2. Kid(q, k) \in Sites /\ Kid(q, k)[2] = 2  BY <4>1, <1>3, KidIs
      <4> QED BY <4>2, <3>1, <1>1, ShapeRegular
    <3>2. \A p \in Reg(n) : p \in DOMAIN at  BY <1>1 DEF Shape
    <3> QED BY <3>1, <3>2 DEF EntriesRegular
  <2>2. Held(f, F, at, q)  BY <1>1, <1>3
  <2> QED BY <2>1, <2>2, <1>1, <1>3, <1>4, <1>5, WholeTriple
<1>7. PICK f1, e : /\ Freed(f, F, f1, X)
                   /\ \/ trim = Running(f1, e) /\ e = left - A3 /\ left > A3
                      \/ trim = Ended(f1, e) /\ e \in 1 .. A /\ left <= A3
  <2> HIDE DEF trim, X
  <2> QED BY <1>6 DEF TreeLeft
<1>8. trim.fs = f1 /\ trim.ok = TRUE
  <2> HIDE DEF trim
  <2> QED BY <1>7 DEF Running, Ended
<1>9. WithNode(trim, node) = Removing(f1, node)  BY <1>8 DEF WithNode, Removing
<1>10. RemoveFromTriple(f, node, n0) = Shortened(Cut(WithNode(trim, node), "tripleIndirect", TRUE), n0)
  <2>1. Route(n0).path[1] = 0 /\ Route(n0).path[2] = 0 /\ Route(n0).entry = 0 /\ (n0 = TripleStart) = TRUE
    BY RouteStart
  <2>2. n - TripleStart - A2 * 0 - A * 0 = left  BY <1>1, <1>2, Sizes DEF left
  <2>3. NUM_OF_SINGLE_INDIRECT_BLOCK_ADDR = A /\ NUM_OF_DOUBLE_INDIRECT_BLOCK_ADDR = A2
    BY DEF NUM_OF_SINGLE_INDIRECT_BLOCK_ADDR, A, A2
  <2> QED BY <2>1, <2>2, <2>3, <1>4 DEF RemoveFromTriple
<1> HIDE DEF trim
<1>11. q \notin Under(q, A) /\ Below(q) = {q} \union Under(q, A) /\ at[q] \notin F1
  <2>1. q \notin Under(q, A) /\ Below(q) = {q} \union Under(q, A) /\ q \in Below(q)  BY <1>3, BelowIs
  <2>2. at[q] \notin F  BY <1>4 DEF File
  <2>3. ASSUME NEW p \in S \intersect DOMAIN at, at[p] = at[q] PROVE FALSE
    <3>1. p = q  BY <2>3, <1>1, <1>4 DEF Placed
    <3> QED BY <3>1, <2>1
  <2> QED BY <2>1, <2>2, <2>3 DEF Img
<1> DEFINE node1 == [node EXCEPT ![Roots[3]] = 0]
           node2 == [node1 EXCEPT !.blocks = n0]
<1>12. PICK f2 : /\ Cut(Removing(f1, node), Roots[3], TRUE) = Removing(f2, node1)
                 /\ Freed(f1, F1, f2, {at[q]})
  <2>1. FreeIs(f1, F1)  BY <1>7 DEF Freed
  <2>2. 3 \in 1 .. 3  OBVIOUS
  <2> HIDE DEF F1
  <2> QED BY <2>1, <2>2, <1>1, <1>4, <1>11, CutWhole DEF q
<1>13. Freed(f, F, f2, Img(at, G))
  <2>1. Freed(f, F, f2, X \union {at[q]})
    <3> HIDE DEF X
    <3> QED BY <1>7, <1>12, FreedMore
  <2>2. X \union {at[q]} = Img(at, G)  BY <1>4 DEF Img
  <2> QED BY <2>1, <2>2
<1>14. node1 \in InodeStruct /\ node1.blocks = n /\ Uprooted(node, node1, 3, 4)
  <2>1. 3 \in 1 .. 3 /\ 0 \in Int  OBVIOUS
  <2>2. /\ node1 \in InodeStruct /\ node1.blocks = node.blocks /\ node1.directAddresses = node.directAddresses
        /\ \A s \in 1 .. 3 : node1[Roots[s]] = IF s = 3 THEN 0 ELSE node[Roots[s]]
    BY <2>1, <1>1, RootEdit
  <2>3. \A s \in 1 .. 3 : s = 3 <=> 3 <= s /\ s < 4  OBVIOUS
  <2> HIDE DEF node1
  <2> QED BY <2>2, <2>3 DEF Uprooted
<1>15. RemoveFromTriple(f, node, n0) = Removing(f2, node2)
  <2>1. Roots[3] = "tripleIndirect"  BY RootsAre
  <2> HIDE DEF node1
  <2>2. Cut(WithNode(trim, node), "tripleIndirect", TRUE) = Removing(f2, node1)  BY <2>1, <1>9, <1>12
  <2>3. Shortened(Removing(f2, node1), n0) = Removing(f2, node2)  BY ShortenedIs
  <2>4. RemoveFromTriple(f, node, n0) = Shortened(Removing(f2, node1), n0)  BY <2>2, <1>10
  <2> QED BY <2>3, <2>4
<1> HIDE DEF node1
<1>16. FieldsKept(node, node2) /\ node2.blocks = n0
  <2>1. \A r \in 1 .. 3 : 3 <= r /\ r < 4 => n0 <= Start(r)
    <3>1. \A r \in 1 .. 3 : 3 <= r => r = 3  OBVIOUS
    <3> QED BY <3>1, <1>2
  <2>2. n0 \in 0 .. n  BY <1>1, <1>2
  <2> QED BY <2>1, <2>2, <1>1, <1>14, FieldsCut
<1>17. Parted(at, n, Start(3), K, G) /\ Closed(at, K)
  <2>1. G \subseteq InLevels(3, 4)  BY <1>3, <1>11 DEF InLevels
  <2>2. ASSUME NEW p \in DOMAIN at, 3 <= p[1] PROVE p \in G \/ p \in Stale(n)
    <3>1. p \in Sites /\ p[1] \in 0 .. 3 /\ (p \in Reg(n) \/ p \in Stale(n))  BY <1>1, SiteIs DEF Shape
    <3>2. p[1] = 3  BY <3>1, <2>2
    <3> QED BY <3>1, <3>2, <1>3, <1>11
  <2>3. 3 \in 1 .. 3 /\ Start(3) <= n  BY <1>1, <1>2
  <2> HIDE DEF G
  <2> QED BY <2>1, <2>2, <2>3, <1>1, LevelsParted
<1> HIDE DEF K, node2, G
<1>18. Parted(at, node.blocks, node2.blocks, K, G)  BY <1>2, <1>16, <1>17
<1>19. Shrunk(f, F, at, node, node2.blocks, Removing(f2, node2))
  BY <1>13, <1>16, <1>17, <1>18, WholeShrunk
<1> QED BY <1>15, <1>16, <1>19

\* In every branch that does not give up before it starts.
LEMMA RemovalIs ==
  ASSUME NEW f, NEW F, NEW at, NEW node, File(f, F, at, node), NEW n0 \in Nat, n0 < SingleStart \/ n0 < node.blocks,
         n0 <= node.blocks
  PROVE  remove_datablocks_range_from_inode(f, node, n0) =
           IF n0 < SingleStart THEN RemoveFromDirect(f, node, n0)
           ELSE IF n0 < DoubleStart THEN RemoveFromSingle(f, node, n0)
           ELSE IF n0 < TripleStart THEN RemoveFromDouble(f, node, n0)
           ELSE RemoveFromTriple(f, node, n0)
<1>1. node.blocks \in 0 .. MaxBlocks /\ node.blocks \in Nat /\ Shape(at, node.blocks)  BY FileIs
<1>2. ~(n0 > node.blocks)  BY <1>1
<1>3. CASE n0 < SingleStart
  BY <1>2, <1>3 DEF remove_datablocks_range_from_inode
<1>4. CASE ~(n0 < SingleStart)
  <2>1. n0 < node.blocks /\ SingleStart <= n0 /\ n0 \in 0 .. (MaxBlocks - 1) /\ ~(n0 >= MaxBlocks)
    <3>1. SingleStart \in Nat /\ MaxBlocks \in Nat  BY Starts
    <3> QED BY <3>1, <1>1, <1>4
  <2>2. Lev(n0) \in 1 .. 3 /\ Route(n0).root = Roots[Lev(n0)]  BY <2>1, RouteIs
  <2>3. Start(Lev(n0)) <= n0 /\ Start(Lev(n0)) \in Nat  BY <2>1, LevIs
  <2>4. Start(Lev(n0)) < node.blocks  BY <2>1, <2>3, <1>1
  <2>5. Rooted(node, at, Lev(n0))  BY <2>2, <2>4, FileIs
  <2>6. node[Route(n0).root] \in Pool  BY <2>2, <2>5, <1>1 DEF Rooted, Shape, Placed
  <2>7. node[Route(n0).root] # 0  BY <2>6, PoolIs
  <2> QED BY <2>1, <2>7, <1>2, <1>4 DEF remove_datablocks_range_from_inode
<1> QED BY <1>3, <1>4

\* The truncations that are done completely, and the removal of everything.
LEMMA RemovalShrinks ==
  ASSUME NEW f, NEW F, NEW at, NEW node, File(f, F, at, node), NEW n0,
         n0 = 0 \/ <<node.blocks, n0>> \in CompleteTruncations
  PROVE  Shrunk(f, F, at, node, n0, remove_datablocks_range_from_inode(f, node, n0))
<1> DEFINE n == node.blocks
<1>1. n \in 0 .. MaxBlocks /\ n \in Nat  BY FileIs
<1>2. /\ SingleStart \in Nat /\ DoubleStart \in Nat /\ TripleStart \in Nat /\ MaxBlocks \in Nat
      /\ 0 < SingleStart /\ SingleStart < DoubleStart /\ DoubleStart < TripleStart
  BY Starts
<1>3. CASE n0 = 0
  <2>1. n0 \in 0 .. n /\ n0 \in Nat /\ n0 < SingleStart /\ n0 <= n  BY <1>1, <1>2, <1>3
  <2>2. remove_datablocks_range_from_inode(f, node, n0) = RemoveFromDirect(f, node, n0)
    BY <2>1, RemovalIs
  <2> QED BY <2>1, <2>2, DirectShrunk
<1>4. CASE <<n, n0>> \in CompleteTruncations
  <2> DEFINE t == <<n, n0>>
  <2>1. /\ t[1] = n /\ t[2] = n0 /\ t \in AllTruncations
        /\ \/ n0 < SingleStart
           \/ n0 > SingleStart /\ n0 < DoubleStart
           \/ n0 = DoubleStart /\ (n <= TripleStart \/ DeepTriple(t))
           \/ n0 > DoubleStart /\ n0 < TripleStart /\ WithinBlock(t)
           \/ n0 = TripleStart
           \/ n0 > TripleStart /\ WithinBlock(t) /\ Route(n0).path[2] > 0
    BY <1>4 DEF CompleteTruncations
  <2>2. n0 \in Nat /\ n0 < n /\ n0 <= n /\ n0 \in 0 .. n
    <3>1. n0 \in 0 .. MaxBlocks /\ n0 < n  BY <2>1 DEF AllTruncations
    <3> QED BY <3>1, <1>1, <1>2
  <2>3. DeepTriple(t) <=> n - TripleStart > A2  BY DEF DeepTriple, A2
  <2> HIDE DEF t
  <2>4. remove_datablocks_range_from_inode(f, node, n0) =
           IF n0 < SingleStart THEN RemoveFromDirect(f, node, n0)
           ELSE IF n0 < DoubleStart THEN RemoveFromSingle(f, node, n0)
           ELSE IF n0 < TripleStart THEN RemoveFromDouble(f, node, n0)
           ELSE RemoveFromTriple(f, node, n0)
    BY <2>2, RemovalIs
  <2>5. CASE n0 < SingleStart
    <3>1. Shrunk(f, F, at, node, n0, RemoveFromDirect(f, node, n0))  BY <2>2, <2>5, DirectShrunk
    <3> QED BY <3>1, <2>4, <2>5
  <2>6. CASE n0 > SingleStart /\ n0 < DoubleStart
    <3>1. ~(n0 < SingleStart) /\ SingleStart < n0  BY <2>6, <2>2, <1>2
    <3>2. Shrunk(f, F, at, node, n0, RemoveFromSingle(f, node, n0))  BY <3>1, <2>2, <2>6, SingleShrunk
    <3> QED BY <3>1, <3>2, <2>4, <2>6
  <2>7. CASE n0 = DoubleStart /\ (n <= TripleStart \/ DeepTriple(t))
    <3>1. ~(n0 < SingleStart) /\ ~(n0 < DoubleStart) /\ n0 < TripleStart  BY <2>7, <2>2, <1>2
    <3>2. Shrunk(f, F, at, node, n0, RemoveFromDouble(f, node, n0))  BY <2>2, <2>3, <2>7, DoubleWhole
    <3> QED BY <3>1, <3>2, <2>4
  <2>8. CASE n0 > DoubleStart /\ n0 < TripleStart /\ WithinBlock(t)
    <3>1. ~(n0 < SingleStart) /\ ~(n0 < DoubleStart) /\ DoubleStart < n0  BY <2>8, <2>2, <1>2
    <3>2. Shrunk(f, F, at, node, n0, RemoveFromDouble(f, node, n0))
      BY <3>1, <2>2, <2>8, DoubleWithin DEF t
    <3> QED BY <3>1, <3>2, <2>4, <2>8
  <2>9. CASE n0 = TripleStart
    <3>1. ~(n0 < SingleStart) /\ ~(n0 < DoubleStart) /\ ~(n0 < TripleStart)  BY <2>9, <2>2, <1>2
    <3>2. Shrunk(f, F, at, node, n0, RemoveFromTriple(f, node, n0))  BY <2>2, <2>9, TripleWhole
    <3> QED BY <3>1, <3>2, <2>4
  <2>10. CASE n0 > TripleStart /\ WithinBlock(t) /\ Route(n0).path[2] > 0
    <3>1. ~(n0 < SingleStart) /\ ~(n0 < DoubleStart) /\ ~(n0 < TripleStart) /\ TripleStart < n0
      BY <2>10, <2>2, <1>2
    <3>2. Shrunk(f, F, at, node, n0, RemoveFromTriple(f, node, n0))
      BY <3>1, <2>2, <2>10, TripleWithin DEF t
    <3> QED BY <3>1, <3>2, <2>4
  <2> QED BY <2>1, <2>5, <2>6, <2>7, <2>8, <2>9, <2>10
<1> QED BY <1>3, <1>4

--------------------
(* get_datablock_from_inode *)

\* The sites above a block of the file have a block, which holds the address of the next one.
LEMMA WayIs ==
  ASSUME NEW f, NEW F, NEW at, NEW node, File(f, F, at, node), NEW k \in 0 .. (node.blocks - 1)
  PROVE  /\ k \in 0 .. (MaxBlocks - 1) /\ k \in Nat /\ k < node.blocks
         /\ \A h \in 0 .. Lev(k) : Anc(k, h) \in DOMAIN at /\ at[Anc(k, h)] \in Pool
         /\ \A h \in 0 .. Lev(k) : at[Anc(k, h)] > 0 /\ at[Anc(k, h)] \in Nat
         /\ \A h \in 1 .. Lev(k) : f.blk[at[Anc(k, h)]][Slot(Anc(k, h - 1))] = at[Anc(k, h - 1)]
         /\ Lev(k) \in 1 .. 3 => node[Route(k).root] = at[Anc(k, Lev(k))]
<1>1. node.blocks \in 0 .. MaxBlocks /\ node.blocks \in Nat /\ Shape(at, node.blocks) /\ Placed(at)
  BY FileIs
<1>2. k \in 0 .. (MaxBlocks - 1) /\ k \in Nat /\ k < node.blocks
  <2>1. MaxBlocks \in Nat  BY Starts
  <2> QED BY <2>1, <1>1
<1>3. Lev(k) \in 0 .. 3 /\ Start(Lev(k)) <= k /\ Start(Lev(k)) \in Nat  BY <1>2, LevIs
<1>4. ASSUME NEW h \in 0 .. Lev(k) PROVE /\ Anc(k, h) \in DOMAIN at /\ at[Anc(k, h)] \in Pool
                                           /\ at[Anc(k, h)] > 0 /\ at[Anc(k, h)] \in Nat
  <2>1. Anc(k, h) \in Sites /\ First(Anc(k, h)) \in Nat /\ First(Anc(k, h)) <= k  BY <1>2, AncIs
  <2>2. First(Anc(k, h)) < node.blocks  BY <2>1, <1>1, <1>2
  <2>3. Anc(k, h) \in DOMAIN at  BY <2>1, <2>2, <1>1 DEF Shape, Reg
  <2>4. at[Anc(k, h)] \in Pool  BY <2>3, <1>1 DEF Placed
  <2> QED BY <2>3, <2>4, PoolIs
<1>5. ASSUME NEW h \in 1 .. Lev(k) PROVE f.blk[at[Anc(k, h)]][Slot(Anc(k, h - 1))] = at[Anc(k, h - 1)]
  <2>1. h \in 0 .. Lev(k) /\ h - 1 \in 0 .. Lev(k) /\ h # 0  BY <1>3
  <2>2. Anc(k, h) \in DOMAIN at /\ Anc(k, h - 1) \in DOMAIN at  BY <2>1, <1>4
  <2>3. Anc(k, h)[2] = h  BY <2>1, <1>2, AncIs
  <2>4. Points(f.blk, at, Anc(k, h))  BY <2>1, <2>2, <2>3 DEF File
  <2>5. Anc(k, h - 1) = Kid(Anc(k, h), Slot(Anc(k, h - 1))) /\ Slot(Anc(k, h - 1)) \in Word
    BY <1>2, AncDown
  <2> QED BY <2>2, <2>4, <2>5 DEF Points, EntryAt
<1>6. ASSUME Lev(k) \in 1 .. 3 PROVE node[Route(k).root] = at[Anc(k, Lev(k))]
  <2>1. k >= SingleStart
    <3>1. ~(k < SingleStart)  BY <1>6 DEF Lev
    <3>2. SingleStart \in Nat  BY Starts
    <3> QED BY <3>1, <3>2, <1>2
  <2>2. Route(k).root = Roots[Lev(k)] /\ Anc(k, Lev(k)) = Root(Lev(k))  BY <2>1, <1>2, RouteIs, AncRoot
  <2>3. Start(Lev(k)) < node.blocks  BY <1>1, <1>2, <1>3
  <2> QED BY <2>2, <2>3, <1>6 DEF File
<1> QED BY <1>2, <1>4, <1>5, <1>6

\* The parts of a way.
LEMMA SubPair ==
  ASSUME NEW a, NEW b
  PROVE  /\ SubSeq(<<a, b>>, 1, 0) = << >> /\ SubSeq(<<a, b>>, 1, 1) = <<a>>
         /\ SubSeq(<<a, b>>, 1, 2) = <<a, b>>
<1>1. SubSeq(<<a, b>>, 1, 0) = << >>  OBVIOUS
<1>2. SubSeq(<<a, b>>, 1, 1) = <<a>>
  <2> DEFINE t == SubSeq(<<a, b>>, 1, 1)
  <2>1. t \in Seq({a, b}) /\ Len(t) = 1 /\ t[1] = a  OBVIOUS
  <2>2. <<a>> \in Seq({a, b}) /\ Len(<<a>>) = 1 /\ <<a>>[1] = a  OBVIOUS
  <2> HIDE DEF t
  <2>3. \A i \in 1 .. Len(t) : t[i] = <<a>>[i]  BY <2>1, <2>2
  <2>4. t = <<a>>  BY <2>1, <2>2, <2>3, SeqEqual
  <2> QED BY <2>4 DEF t
<1>3. SubSeq(<<a, b>>, 1, 2) = <<a, b>>
  <2>1. <<a, b>> \in Seq({a, b}) /\ Len(<<a, b>>) = 2  OBVIOUS
  <2> QED BY <2>1, SubSeqFull
<1> QED BY <1>1, <1>2, <1>3

\* The prefixes of a sequence of one element.
LEMMA SubOne ==
  ASSUME NEW a
  PROVE  SubSeq(<<a>>, 1, 0) = << >> /\ SubSeq(<<a>>, 1, 1) = <<a>>
<1>1. SubSeq(<<a>>, 1, 0) = << >>  OBVIOUS
<1>2. <<a>> \in Seq({a}) /\ Len(<<a>>) = 1  OBVIOUS
<1> QED BY <1>1, <1>2, SubSeqFull

\* Every part of the way leads to the block at a site above.
LEMMA FollowIs ==
  ASSUME NEW f, NEW F, NEW at, NEW node, File(f, F, at, node), NEW k \in 0 .. (node.blocks - 1), k >= SingleStart
  PROVE  /\ Len(Route(k).path) = Lev(k) - 1 /\ Lev(k) \in 1 .. 3 /\ Route(k).path \in Seq(Word)
         /\ Follow(f, node[Route(k).root], Route(k).path) = at[Anc(k, 1)]
         /\ \A m \in 0 .. (Lev(k) - 1) :
              Follow(f, node[Route(k).root], SubSeq(Route(k).path, 1, m)) = at[Anc(k, Lev(k) - m)]
<1> DEFINE L == Lev(k)
           p == node[Route(k).root]
           s == Route(k).path
<1>1. k \in 0 .. (MaxBlocks - 1) /\ k \in Nat  BY WayIs
<1>2. /\ L \in 1 .. 3 /\ (L = 1 => s = << >>) /\ (L = 2 => s = <<Slot(Anc(k, 1))>>)
      /\ (L = 3 => s = <<Slot(Anc(k, 2)), Slot(Anc(k, 1))>>)
  BY <1>1, RouteIs
<1>3. /\ p = at[Anc(k, L)]
      /\ \A h \in 0 .. L : at[Anc(k, h)] > 0 /\ at[Anc(k, h)] \in Nat
      /\ \A h \in 1 .. L : f.blk[at[Anc(k, h)]][Slot(Anc(k, h - 1))] = at[Anc(k, h - 1)]
  BY <1>2, WayIs
<1>4. \A h \in 1 .. L : Slot(Anc(k, h - 1)) \in Word  BY <1>1, AncDown
<1>5. ASSUME NEW h \in 1 .. L PROVE Entry(f, at[Anc(k, h)], Slot(Anc(k, h - 1))) = at[Anc(k, h - 1)]
  <2>1. h \in 0 .. L  BY <1>2
  <2>2. ~(at[Anc(k, h)] <= 0)  BY <2>1, <1>3
  <2> QED BY <2>2, <1>3 DEF Entry
<1> HIDE DEF L, p, s
<1>6. 2 - 1 = 1 /\ 3 - 1 = 2 /\ 1 - 1 = 0  OBVIOUS
<1>7. ASSUME NEW t, t = << >> PROVE Len(t) = 0 /\ Follow(f, p, t) = p
  BY <1>7 DEF Follow
<1>8. ASSUME NEW a, NEW t, t = <<a>> PROVE Len(t) = 1 /\ Follow(f, p, t) = Entry(f, p, a)
  BY <1>8 DEF Follow
<1>9. ASSUME NEW a, NEW b, NEW t, t = <<a, b>> PROVE Len(t) = 2 /\ Follow(f, p, t) = Entry(f, Entry(f, p, a), b)
  BY <1>9 DEF Follow
<1>10. CASE L = 1
  <2>1. s = << >>  BY <1>2, <1>10
  <2>2. Len(s) = 0 /\ Follow(f, p, s) = p /\ s \in Seq(Word)  BY <2>1, <1>7
  <2>3. \A m \in 0 .. (L - 1) : m = 0  BY <1>10
  <2>4. SubSeq(s, 1, 0) = << >>  BY <2>1
  <2>5. Follow(f, p, SubSeq(s, 1, 0)) = p  BY <2>4, <1>7
  <2>6. L - 0 = 1 /\ L - 1 = 0  BY <1>10
  <2> QED BY <2>2, <2>3, <2>5, <2>6, <1>2, <1>3, <1>10 DEF L, p, s
<1>11. CASE L = 2
  <2> DEFINE a == Slot(Anc(k, 1))
  <2>1. s = <<a>> /\ a \in Word  BY <1>2, <1>4, <1>6, <1>11
  <2>2. Len(s) = 1 /\ s \in Seq(Word)  BY <2>1
  <2>3. Follow(f, p, s) = at[Anc(k, 1)]
    <3>1. Follow(f, p, s) = Entry(f, p, a)  BY <2>1, <1>8
    <3>2. p = at[Anc(k, 2)]  BY <1>3, <1>11
    <3>3. 2 \in 1 .. L  BY <1>11
    <3>4. Entry(f, at[Anc(k, 2)], Slot(Anc(k, 2 - 1))) = at[Anc(k, 2 - 1)]  BY <3>3, <1>5
    <3> QED BY <3>1, <3>2, <3>4, <1>6
  <2>4. \A m \in 0 .. (L - 1) : m = 0 \/ m = 1  BY <1>11
  <2>5. SubSeq(s, 1, 0) = << >> /\ SubSeq(s, 1, 1) = s
    <3> HIDE DEF a
    <3> QED BY <2>1, SubOne
  <2>6. Follow(f, p, SubSeq(s, 1, 0)) = p  BY <2>5, <1>7
  <2>7. L - 0 = 2 /\ L - 1 = 1  BY <1>11
  <2>8. p = at[Anc(k, 2)]  BY <1>3, <1>11
  <2> QED BY <2>2, <2>3, <2>4, <2>5, <2>6, <2>7, <2>8, <1>2 DEF L, p, s
<1>12. CASE L = 3
  <2> DEFINE a == Slot(Anc(k, 2))
             b == Slot(Anc(k, 1))
  <2>1. s = <<a, b>> /\ a \in Word /\ b \in Word
    <3>1. 3 \in 1 .. L /\ 2 \in 1 .. L  BY <1>12
    <3> QED BY <3>1, <1>2, <1>4, <1>6, <1>12
  <2>2. Len(s) = 2 /\ s \in Seq(Word)  BY <2>1
  <2>3. p = at[Anc(k, 3)]  BY <1>3, <1>12
  <2>4. Entry(f, p, a) = at[Anc(k, 2)]
    <3>1. 3 \in 1 .. L  BY <1>12
    <3>2. Entry(f, at[Anc(k, 3)], Slot(Anc(k, 3 - 1))) = at[Anc(k, 3 - 1)]  BY <3>1, <1>5
    <3> QED BY <3>2, <2>3, <1>6
  <2>5. Entry(f, at[Anc(k, 2)], b) = at[Anc(k, 1)]
    <3>1. 2 \in 1 .. L  BY <1>12
    <3>2. Entry(f, at[Anc(k, 2)], Slot(Anc(k, 2 - 1))) = at[Anc(k, 2 - 1)]  BY <3>1, <1>5
    <3> QED BY <3>2, <1>6
  <2>6. Follow(f, p, s) = at[Anc(k, 1)]  BY <2>1, <2>4, <2>5, <1>9
  <2>7. \A m \in 0 .. (L - 1) : m = 0 \/ m = 1 \/ m = 2  BY <1>12
  <2>8. SubSeq(s, 1, 0) = << >> /\ SubSeq(s, 1, 1) = <<a>> /\ SubSeq(s, 1, 2) = s
    <3> HIDE DEF a, b
    <3> QED BY <2>1, SubPair
  <2>9. Follow(f, p, SubSeq(s, 1, 0)) = p  BY <2>8, <1>7
  <2>10. Follow(f, p, SubSeq(s, 1, 1)) = at[Anc(k, 2)]  BY <2>4, <2>8, <1>8
  <2>11. L - 0 = 3 /\ L - 1 = 2 /\ L - 2 = 1  BY <1>12
  <2> QED BY <2>2, <2>3, <2>6, <2>7, <2>8, <2>9, <2>10, <2>11, <1>2 DEF L, p, s
<1> QED BY <1>2, <1>10, <1>11, <1>12

\* A lookup finds the block of the file, and the block of addresses that it is in.
LEMMA LookupIs ==
  ASSUME NEW f, NEW F, NEW at, NEW node, File(f, F, at, node), NEW k \in 0 .. (node.blocks - 1),
         NEW prev, Trustable(at, k, prev)
  PROVE  /\ get_datablock_from_inode(f, node, k, prev).block = at[Anc(k, 0)]
         /\ get_datablock_from_inode(f, node, k, prev).prev = IF Lev(k) \in {0, 1} THEN prev ELSE at[Anc(k, 1)]
<1>1. /\ k \in 0 .. (MaxBlocks - 1) /\ k \in Nat /\ k < node.blocks /\ node.blocks \in Nat
      /\ \A h \in 0 .. Lev(k) : at[Anc(k, h)] > 0 /\ at[Anc(k, h)] \in Nat
      /\ \A h \in 1 .. Lev(k) : f.blk[at[Anc(k, h)]][Slot(Anc(k, h - 1))] = at[Anc(k, h - 1)]
      /\ (Lev(k) \in 1 .. 3 => node[Route(k).root] = at[Anc(k, Lev(k))])
  BY WayIs, FileIs
<1>2. Lev(k) \in 0 .. 3 /\ SingleStart \in Nat /\ SingleStart = NUM_DIRECT_BLOCKS  BY <1>1, LevIs, Starts
<1>3. ~(k > node.blocks)  BY <1>1
<1>4. CASE k < SingleStart
  <2>1. Lev(k) = 0 /\ Start(0) = 0  BY <1>4, Starts DEF Lev
  <2>2. Anc(k, 0) \in Sites /\ Anc(k, 0)[1] = 0 /\ Anc(k, 0)[2] = 0 /\ Anc(k, 0)[3] = k - 0
    BY <2>1, <1>1, LeafIs
  <2>3. Anc(k, 0) = <<0, 0, k - 0>>  BY <2>2, SiteIs
  <2>4. k - 0 = k /\ k \in 0 .. (NUM_DIRECT_BLOCKS - 1)  BY <1>1, <1>2, <1>4
  <2>5. node.directAddresses[k] = at[<<0, 0, k>>]  BY <2>4, <1>1 DEF File
  <2> QED BY <2>1, <2>3, <2>4, <2>5, <1>2, <1>3, <1>4 DEF get_datablock_from_inode
<1>5. CASE ~(k < SingleStart)
  <2>1. k >= SingleStart /\ ~(k < NUM_DIRECT_BLOCKS)  BY <1>1, <1>2, <1>5
  <2>2. /\ Lev(k) \in 1 .. 3 /\ Follow(f, node[Route(k).root], Route(k).path) = at[Anc(k, 1)]
        /\ Route(k).root = Roots[Lev(k)] /\ Route(k).entry = Slot(Anc(k, 0))
    BY <2>1, <1>1, FollowIs, RouteIs
  <2>3. node[Route(k).root] # 0  BY <2>2, <1>1
  <2>4. f.blk[at[Anc(k, 1)]][Slot(Anc(k, 0))] = at[Anc(k, 0)] /\ ~(at[Anc(k, 1)] <= 0)
    <3>1. 1 \in 1 .. Lev(k) /\ 1 \in 0 .. Lev(k) /\ 1 - 1 = 0  BY <2>2
    <3> QED BY <3>1, <1>1
  <2>5. Route(k).root = "singleIndirect" <=> Lev(k) = 1  BY <2>2, RootsAre
  <2>6. CASE Lev(k) = 1
    <3>1. Route(k).root = "singleIndirect"  BY <2>5, <2>6
    <3> QED BY <3>1, <2>1, <2>2, <2>3, <2>4, <2>6, <1>3 DEF get_datablock_from_inode
  <2>7. CASE Lev(k) # 1
    <3>1. Route(k).root # "singleIndirect" /\ Lev(k) \notin {0, 1}  BY <2>2, <2>5, <2>7
    <3>2. TrustsPrev(Route(k).entry, prev) => prev = at[Anc(k, 1)]
      BY <3>1, <2>2 DEF TrustsPrev, Trustable
    <3> QED BY <3>1, <3>2, <2>1, <2>2, <2>3, <2>4, <1>3 DEF get_datablock_from_inode
  <2> QED BY <2>6, <2>7
<1> QED BY <1>4, <1>5

--------------------
(* add_datablock_to_inode *)

\* Block c at site x.
With(at, x, c) == [p \in DOMAIN at \union {x} |-> IF p = x THEN c ELSE at[p]]

\* One more block, at a site of its own.
LEMMA WithPlaced ==
  ASSUME NEW at, Placed(at), NEW x \in Sites, NEW c \in Pool, \A p \in DOMAIN at : at[p] # c
  PROVE  /\ Placed(With(at, x, c))
         /\ Img(With(at, x, c), Sites) \subseteq Img(at, Sites) \union {c}
         /\ x \notin DOMAIN at => Img(With(at, x, c), Sites) = Img(at, Sites) \union {c}
<1> DEFINE at2 == With(at, x, c)
<1>1. /\ DOMAIN at2 = DOMAIN at \union {x} /\ at2[x] = c
      /\ \A p \in DOMAIN at : p # x => at2[p] = at[p]
  BY DEF With
<1> HIDE DEF at2
<1>2. DOMAIN at \subseteq Sites /\ (\A q \in DOMAIN at : at[q] \in Pool)
      /\ (\A q, p \in DOMAIN at : at[q] = at[p] => q = p)
  BY DEF Placed
<1>3. DOMAIN at2 \subseteq Sites /\ (\A q \in DOMAIN at2 : at2[q] \in Pool)  BY <1>1, <1>2
<1>4. ASSUME NEW q \in DOMAIN at2, NEW p \in DOMAIN at2, at2[q] = at2[p] PROVE q = p
  <2>1. CASE q = x
    BY <2>1, <1>1, <1>4
  <2>2. CASE p = x
    BY <2>2, <1>1, <1>4
  <2>3. CASE q # x /\ p # x
    BY <2>3, <1>1, <1>2, <1>4
  <2> QED BY <2>1, <2>2, <2>3
<1>5. Img(at2, Sites) \subseteq Img(at, Sites) \union {c}  BY <1>1, <1>2 DEF Img
<1>6. ASSUME x \notin DOMAIN at PROVE Img(at, Sites) \union {c} \subseteq Img(at2, Sites)
  <2>1. ASSUME NEW p \in Sites \intersect DOMAIN at PROVE at[p] \in Img(at2, Sites)
    <3>1. p # x  BY <1>6
    <3>2. p \in Sites \intersect DOMAIN at2 /\ at2[p] = at[p]  BY <3>1, <1>1
    <3> QED BY <3>2 DEF Img
  <2>2. c \in Img(at2, Sites)  BY <1>1 DEF Img
  <2> QED BY <2>1, <2>2 DEF Img
<1> QED BY <1>3, <1>4, <1>5, <1>6 DEF Placed, at2

\* A block of addresses that x is not an entry of, and that did not change.
LEMMA WithPoints ==
  ASSUME NEW at, NEW x, NEW c, NEW p \in DOMAIN at, p # x, NEW blk, NEW blk2, Points(blk, at, p),
         blk2[at[p]] = blk[at[p]], \A k \in Word : Kid(p, k) # x
  PROVE  Points(blk2, With(at, x, c), p)
<1>1. /\ DOMAIN With(at, x, c) = DOMAIN at \union {x}
      /\ \A q \in DOMAIN at : q # x => With(at, x, c)[q] = at[q]
  BY DEF With
<1>2. With(at, x, c)[p] = at[p]  BY <1>1
<1>3. ASSUME NEW k \in Word PROVE EntryAt(With(at, x, c), p, k) = EntryAt(at, p, k)
  BY <1>1 DEF EntryAt
<1> QED BY <1>2, <1>3 DEF Points

\* A new block of addresses: nothing is below it, and at most its word 0 is a link of the free list.
Loose(f, F, at, q) ==
  /\ \A w \in Word \ {0} : f.blk[at[q]][w] = 0
  /\ F = {} => f.blk[at[q]][0] = 0
  /\ \A k \in Word : Kid(q, k) \notin DOMAIN at

\* One entry is set.
LEMMA AttachPoints ==
  ASSUME NEW at, NEW q \in DOMAIN at, q \in Sites, q[2] # 0, NEW k \in Word, NEW x, x = Kid(q, k), NEW c,
         NEW f, NEW F, NEW f2, Addresses(f.blk[at[q]], Word), f2.blk[at[q]] = [f.blk[at[q]] EXCEPT ![k] = c],
         Points(f.blk, at, q) \/ (k = 0 /\ Loose(f, F, at, q))
  PROVE  Points(f2.blk, With(at, x, c), q)
<1>1. /\ DOMAIN With(at, x, c) = DOMAIN at \union {x} /\ With(at, x, c)[x] = c
      /\ \A p \in DOMAIN at : p # x => With(at, x, c)[p] = at[p]
  BY DEF With
<1>2. q # x
  <2>1. Kid(q, k)[2] = q[2] - 1 /\ q[2] \in 0 .. 3  BY KidIs, SiteIs
  <2> QED BY <2>1
<1>3. With(at, x, c)[q] = at[q]  BY <1>1, <1>2
<1>4. ASSUME NEW j \in Word PROVE f2.blk[at[q]][j] = EntryAt(With(at, x, c), q, j)
  <2>1. CASE j = k
    <3>1. f2.blk[at[q]][k] = c  BY DEF Addresses
    <3> QED BY <3>1, <2>1, <1>1 DEF EntryAt
  <2>2. CASE j # k
    <3>1. f2.blk[at[q]][j] = f.blk[at[q]][j]  BY <2>2 DEF Addresses
    <3>2. Kid(q, j) # x  BY <2>2, KidOnce
    <3>3. EntryAt(With(at, x, c), q, j) = EntryAt(at, q, j)  BY <3>2, <1>1 DEF EntryAt
    <3>4. CASE Points(f.blk, at, q)
      BY <3>1, <3>3, <3>4 DEF Points
    <3>5. CASE k = 0 /\ Loose(f, F, at, q)
      <4>1. j \in Word \ {0} /\ Kid(q, j) \notin DOMAIN at /\ f.blk[at[q]][j] = 0
        BY <3>5, <2>2 DEF Loose
      <4> QED BY <4>1, <3>1, <3>3 DEF EntryAt
    <3> QED BY <3>4, <3>5
  <2> QED BY <2>1, <2>2
<1> QED BY <1>3, <1>4 DEF Points

\* Nothing is below a site that the next block is the first one of.
LEMMA FreshKids ==
  ASSUME NEW at, NEW n \in Nat, Shape(at, n), NEW x \in Sites, x[2] # 0, First(x) = n, NEW k \in Word
  PROVE  Kid(x, k) \notin DOMAIN at
<1>1. /\ Kid(x, k) \in Sites /\ Kid(x, k)[1] = x[1] /\ Kid(x, k)[2] = x[2] - 1
      /\ First(Kid(x, k)) = First(x) + k * W(x[2] - 1) /\ k * W(x[2] - 1) \in Nat
  BY KidIs
<1>2. First(Kid(x, k)) \in Nat /\ ~(First(Kid(x, k)) < n)  BY <1>1, SiteIs
<1>3. Kid(x, k) \notin Reg(n)  BY <1>2 DEF Reg
<1>4. ASSUME Kid(x, k) \in Stale(n) PROVE FALSE
  <2>1. x[1] = 3 /\ x[2] - 1 = 2 /\ TripleStart < n  BY <1>1, <1>4 DEF Stale
  <2>2. x[2] = 3 /\ x = <<x[1], x[2], x[3]>> /\ x[3] \in Nat /\ x[3] < Width(x[1], x[2])  BY <2>1, SiteIs
  <2>3. Width(3, 3) = 1
    <3>1. 3 \in 1 .. 3  OBVIOUS
    <3> QED BY <3>1, Widths
  <2>4. x[3] = 0  BY <2>1, <2>2, <2>3
  <2>5. x = Root(3)  BY <2>1, <2>2, <2>4 DEF Root
  <2>6. First(x) = Start(3) /\ Start(3) = TripleStart /\ TripleStart \in Nat
    <3>1. 3 \in 1 .. 3  OBVIOUS
    <3> QED BY <3>1, <2>5, RootIs, Starts
  <2> QED BY <2>1, <2>6
<1> QED BY <1>3, <1>4 DEF Shape

\* Where the blocks are while block b, the one to add behind the n blocks of the file, is not
\* there yet: the sites above it from height h on have their blocks.
Opened(at, at2, n, h) ==
  /\ DOMAIN at2 = DOMAIN at \union {Anc(n, j) : j \in h .. Lev(n)}
  /\ \A p \in DOMAIN at : First(p) < n => at2[p] = at[p]

\* Only free blocks and blocks of the file are used; if the file had no stale block none is lost.
Taken(f, F, at, n, X, g, G, at2) ==
  /\ G \subseteq F
  /\ (G \union X) \union Img(at2, Sites) \subseteq F \union Img(at, Sites)
  /\ SameBut(f.blk, g.blk, F \union Img(at, Sites))
  /\ DOMAIN at = Reg(n) => (G \union X) \union Img(at2, Sites) = F \union Img(at, Sites)

Open(f, F, at, n, b, g, G, at2, h) ==
  /\ FreeIs(g, G) /\ Placed(at2) /\ Opened(at, at2, n, h)
  /\ b \in Pool /\ b \notin G
  /\ \A p \in DOMAIN at2 : at2[p] \notin G /\ at2[p] # b
  /\ \A p \in DOMAIN at2 : p[2] # 0 =>
       IF p = Anc(n, h) /\ First(p) = n THEN Loose(g, G, at2, p) ELSE Points(g.blk, at2, p)
  /\ Taken(f, F, at, n, {b}, g, G, at2)

\* The sites of a file that has just n blocks are not above the next one's first one.
LEMMA FreshSite ==
  ASSUME NEW at, NEW n \in 0 .. (MaxBlocks - 1), Shape(at, n), NEW h \in 0 .. Lev(n), First(Anc(n, h)) = n
  PROVE  /\ Anc(n, h) \in Sites /\ Anc(n, h) \notin Reg(n) /\ Anc(n, h)[2] = h /\ Anc(n, h)[1] = Lev(n)
         /\ \A p \in DOMAIN at : First(p) < n => p # Anc(n, h)
<1>1. Anc(n, h) \in Sites /\ Anc(n, h)[2] = h /\ Anc(n, h)[1] = Lev(n) /\ n \in Nat  BY AncIs, LevIs
<1> QED BY <1>1 DEF Reg

\* The block to add is allocated.
LEMMA OpenStart ==
  ASSUME NEW f, NEW F, NEW at, NEW node, File(f, F, at, node), NEW b \in F, NEW g, FreeIs(g, F \ {b}),
         SameBut(f.blk, g.blk, {b})
  PROVE  /\ Open(f, F, at, node.blocks, b, g, F \ {b}, at, Lev(node.blocks) + 1)
         /\ File(g, F \ {b}, at, node) /\ Taken(f, F, at, node.blocks, {b}, g, F \ {b}, at)
<1> DEFINE n == node.blocks
           h == Lev(n) + 1
<1>1. Placed(at) /\ Shape(at, n) /\ FreeIs(f, F) /\ node \in InodeStruct /\ n \in Nat /\ n \in 0 .. MaxBlocks
  BY FileIs
<1>2. b \in Pool /\ F \subseteq Pool  BY <1>1, FreeInPool
<1>3. \A p \in DOMAIN at : at[p] \notin F /\ at[p] \in Pool  BY <1>1 DEF File, Placed
<1>4. Lev(n) \in 0 .. 3  BY DEF Lev
<1>5. h .. Lev(n) = {}  BY <1>4
<1>6. Opened(at, at, n, h)  BY <1>5 DEF Opened
<1>7. ASSUME NEW p \in DOMAIN at, p[2] # 0 PROVE Points(g.blk, at, p)
  <2>1. Points(f.blk, at, p)  BY <1>7 DEF File
  <2>2. at[p] \in DataRegion \ {b}  BY <1>3, PoolIs
  <2>3. g.blk[at[p]] = f.blk[at[p]]  BY <2>2 DEF SameBut
  <2> QED BY <2>1, <2>3 DEF Points
<1>8. ASSUME NEW p \in DOMAIN at PROVE p # Anc(n, h)
  <2>1. p[2] \in 0 .. p[1] /\ p[1] \in 0 .. 3  BY <1>1, SiteIs DEF Placed
  <2>2. Anc(n, h)[2] = h /\ Anc(n, h)[1] = Lev(n)  BY DEF Anc
  <2> QED BY <2>1, <2>2, <1>4
<1>9. Taken(f, F, at, n, {b}, g, F \ {b}, at)
  <2>1. SameBut(f.blk, g.blk, F \union Img(at, Sites))  BY DEF SameBut
  <2>2. (F \ {b}) \union {b} = F  OBVIOUS
  <2> QED BY <2>1, <2>2 DEF Taken
<1>10. Open(f, F, at, n, b, g, F \ {b}, at, h)
  <2> HIDE DEF n, h
  <2> QED BY <1>1, <1>2, <1>3, <1>6, <1>7, <1>8, <1>9 DEF Open
<1>11. File(g, F \ {b}, at, node)  BY <1>1, <1>3, <1>7 DEF File
<1> QED BY <1>9, <1>10, <1>11

\* The block at a site above is there already.
LEMMA OpenOld ==
  ASSUME NEW f, NEW F, NEW at, NEW n \in 0 .. (MaxBlocks - 1), Shape(at, n), NEW b, NEW g, NEW G, NEW at2,
         NEW h \in 1 .. Lev(n), First(Anc(n, h)) # n, Open(f, F, at, n, b, g, G, at2, h + 1)
  PROVE  /\ Open(f, F, at, n, b, g, G, at2, h)
         /\ Anc(n, h) \in DOMAIN at /\ First(Anc(n, h)) < n /\ at2[Anc(n, h)] = at[Anc(n, h)]
<1>1. /\ Lev(n) \in 0 .. 3 /\ h \in 0 .. Lev(n) /\ n \in Nat
      /\ Anc(n, h) \in Sites /\ First(Anc(n, h)) \in Nat /\ First(Anc(n, h)) <= n
  <2>1. Lev(n) \in 0 .. 3 /\ n \in Nat  BY LevIs
  <2>2. h \in 0 .. Lev(n)  BY <2>1
  <2> QED BY <2>1, <2>2, AncIs
<1>2. First(Anc(n, h)) < n  BY <1>1
<1>3. Anc(n, h) \in DOMAIN at  BY <1>1, <1>2 DEF Shape, Reg
<1>4. {Anc(n, j) : j \in h .. Lev(n)} = {Anc(n, j) : j \in (h + 1) .. Lev(n)} \union {Anc(n, h)}
  <2>1. h .. Lev(n) = ((h + 1) .. Lev(n)) \union {h}  BY <1>1
  <2> QED BY <2>1
<1>5. Opened(at, at2, n, h)  BY <1>3, <1>4 DEF Open, Opened
<1>6. ASSUME NEW p \in DOMAIN at2, p = Anc(n, h + 1), First(p) = n PROVE FALSE
  <2>1. CASE h = Lev(n)
    <3>1. p \in Sites  BY DEF Open, Placed
    <3>2. p[2] \in 0 .. p[1] /\ p[1] \in 0 .. 3  BY <3>1, SiteIs
    <3>3. p[2] = Lev(n) + 1 /\ p[1] = Lev(n)  BY <1>6, <2>1 DEF Anc
    <3> QED BY <3>2, <3>3
  <2>2. CASE h # Lev(n)
    <3>1. h + 1 \in 1 .. Lev(n) /\ (h + 1) - 1 = h  BY <2>2, <1>1
    <3>2. First(Anc(n, h + 1)) = n => First(Anc(n, h)) = n  BY <3>1, AncDown
    <3> QED BY <3>2, <1>6
  <2> QED BY <2>1, <2>2
<1>7. ~(First(Anc(n, h)) = n)  OBVIOUS
<1>8. \A p \in DOMAIN at2 : p[2] # 0 =>
         IF p = Anc(n, h) /\ First(p) = n THEN Loose(g, G, at2, p) ELSE Points(g.blk, at2, p)
  BY <1>6, <1>7 DEF Open
<1>9. at2[Anc(n, h)] = at[Anc(n, h)]  BY <1>2, <1>3 DEF Open, Opened
<1> QED BY <1>2, <1>3, <1>5, <1>8, <1>9 DEF Open

\* Block c was written, and its address into the block of addresses above.
Linked(g, g2, at2, n, h, c) ==
  IF h = Lev(n) THEN SameBut(g.blk, g2.blk, {c})
  ELSE LET p == at2[Anc(n, h + 1)]
       IN  /\ SameBut(g.blk, g2.blk, {c, p})
           /\ g2.blk[p] = [g.blk[p] EXCEPT ![Slot(Anc(n, h))] = c]

\* The block above.
LEMMA AboveIs ==
  ASSUME NEW n \in 0 .. (MaxBlocks - 1), NEW h \in 0 .. Lev(n), h # Lev(n), NEW at, NEW at2, Opened(at, at2, n, h + 1)
  PROVE  /\ h + 1 \in 1 .. Lev(n) /\ Anc(n, h + 1) \in DOMAIN at2 /\ Anc(n, h + 1) \in Sites
         /\ Anc(n, h + 1)[2] # 0 /\ Anc(n, h + 1)[2] = h + 1
         /\ Anc(n, h) = Kid(Anc(n, h + 1), Slot(Anc(n, h))) /\ Slot(Anc(n, h)) \in Word
         /\ First(Anc(n, h)) = n /\ First(Anc(n, h + 1)) = n => Slot(Anc(n, h)) = 0
         /\ First(Anc(n, h + 1)) = n => First(Anc(n, h)) = n
<1>1. Lev(n) \in 0 .. 3  BY LevIs
<1>2. h + 1 \in 1 .. Lev(n) /\ h + 1 \in 0 .. Lev(n) /\ (h + 1) - 1 = h /\ h + 1 # 0 /\ h + 1 \in (h + 1) .. Lev(n)
  BY <1>1
<1>3. Anc(n, h + 1) \in DOMAIN at2  BY <1>2 DEF Opened
<1>4. Anc(n, h + 1) \in Sites /\ Anc(n, h + 1)[2] = h + 1  BY <1>2, AncIs
<1>5. /\ Anc(n, h) = Kid(Anc(n, h + 1), Slot(Anc(n, h))) /\ Slot(Anc(n, h)) \in Word
      /\ First(Anc(n, h + 1)) = n <=> (First(Anc(n, h)) = n /\ Slot(Anc(n, h)) = 0)
  BY <1>2, AncDown
<1> QED BY <1>2, <1>3, <1>4, <1>5

\* All other blocks of addresses hold what is below them.
LEMMA PointsLinked ==
  ASSUME NEW f, NEW F, NEW at, NEW n \in 0 .. (MaxBlocks - 1), NEW b, NEW g, NEW G, NEW at2,
         NEW h \in 0 .. Lev(n), NEW x, x = Anc(n, h), First(x) = n, Open(f, F, at, n, b, g, G, at2, h + 1),
         NEW c, \A p \in DOMAIN at2 : at2[p] # c, NEW g2, Linked(g, g2, at2, n, h, c),
         NEW p \in DOMAIN at2, p # x, p[2] # 0
  PROVE  Points(g2.blk, With(at2, x, c), p)
<1>1. /\ FreeIs(g, G) /\ Placed(at2) /\ Opened(at, at2, n, h + 1)
      /\ IF p = Anc(n, h + 1) /\ First(p) = n THEN Loose(g, G, at2, p) ELSE Points(g.blk, at2, p)
  BY DEF Open
<1>2. p \in Sites /\ at2[p] \in Pool /\ at2[p] \in DataRegion /\ at2[p] # c  BY <1>1, PoolIs DEF Placed
<1>3. p[2] \in 0 .. p[1] /\ p[1] \in 0 .. 3 /\ Lev(n) \in 0 .. 3  BY <1>2, SiteIs, LevIs
<1>4. x \in Sites /\ x[1] = Lev(n) /\ x[2] = h  BY AncIs
<1>5. CASE h = Lev(n)
  <2>1. p # Anc(n, h + 1)
    <3>1. Anc(n, h + 1)[1] = Lev(n) /\ Anc(n, h + 1)[2] = h + 1  BY DEF Anc
    <3> QED BY <3>1, <1>3, <1>5
  <2>2. Points(g.blk, at2, p)  BY <2>1, <1>1
  <2>3. g2.blk[at2[p]] = g.blk[at2[p]]  BY <1>2, <1>5 DEF Linked, SameBut
  <2>4. ASSUME NEW k \in Word, Kid(p, k) = x PROVE FALSE
    <3>1. Kid(p, k)[1] = p[1] /\ Kid(p, k)[2] = p[2] - 1  BY DEF Kid
    <3> QED BY <3>1, <2>4, <1>3, <1>4, <1>5
  <2> QED BY <2>2, <2>3, <2>4, WithPoints
<1>6. CASE h # Lev(n)
  <2> DEFINE q == Anc(n, h + 1)
             k0 == Slot(x)
  <2>1. /\ q \in DOMAIN at2 /\ q \in Sites /\ q[2] # 0 /\ x = Kid(q, k0) /\ k0 \in Word
        /\ First(q) = n => k0 = 0
    BY <1>1, <1>6, AboveIs
  <2>2. SameBut(g.blk, g2.blk, {c, at2[q]}) /\ g2.blk[at2[q]] = [g.blk[at2[q]] EXCEPT ![k0] = c]
    BY <1>6 DEF Linked
  <2> HIDE DEF q, k0
  <2>3. CASE p = q
    <3>1. Addresses(g.blk[at2[q]], Word)
      <4>1. g \in FileSystem  BY <1>1, FreeInPool
      <4> QED BY <4>1, <2>3, <1>2, DiskIs DEF Addresses
    <3>2. Points(g.blk, at2, q) \/ (k0 = 0 /\ Loose(g, G, at2, q))  BY <2>1, <2>3, <1>1
    <3> QED BY <3>1, <3>2, <2>1, <2>2, <2>3, AttachPoints
  <2>4. CASE p # q
    <3>1. Points(g.blk, at2, p)  BY <2>4, <1>1 DEF q
    <3>2. at2[p] # at2[q]  BY <2>1, <2>4, <1>1 DEF Placed
    <3>3. g2.blk[at2[p]] = g.blk[at2[p]]  BY <3>2, <2>2, <1>2 DEF SameBut
    <3>4. ASSUME NEW k \in Word, Kid(p, k) = x PROVE FALSE
      <4>1. p = q  BY <3>4, <2>1, <1>2, KidOnce
      <4> QED BY <4>1, <2>4
    <3> QED BY <3>1, <3>3, <3>4, WithPoints
  <2> QED BY <2>3, <2>4
<1> QED BY <1>5, <1>6

\* Block c is taken from the free blocks G and from b, and leaves G2 and X2.
Spent(G, b, at2, c, G2, X2) ==
  /\ G2 \subseteq G /\ G2 \union X2 \union {c} = G \union {b}
  /\ c \in Pool /\ \A p \in DOMAIN at2 : at2[p] # c

\* What a block more takes.
LEMMA TakenMore ==
  ASSUME NEW f, NEW F, NEW at, NEW n \in 0 .. (MaxBlocks - 1), Shape(at, n), NEW b, NEW g, NEW G, NEW at2,
         NEW h \in 0 .. Lev(n), NEW x, x = Anc(n, h), First(x) = n, Open(f, F, at, n, b, g, G, at2, h + 1),
         NEW c, NEW g2, Linked(g, g2, at2, n, h, c),
         NEW G2, NEW X2, Spent(G, b, at2, c, G2, X2)
  PROVE  /\ Taken(f, F, at, n, X2, g2, G2, With(at2, x, c))
         /\ Placed(With(at2, x, c)) /\ Opened(at, With(at2, x, c), n, h)
<1>1. /\ Placed(at2) /\ Opened(at, at2, n, h + 1) /\ Taken(f, F, at, n, {b}, g, G, at2)
      /\ G2 \subseteq G /\ G2 \union X2 \union {c} = G \union {b}
      /\ c \in Pool /\ \A p \in DOMAIN at2 : at2[p] # c
  BY DEF Open, Spent
<1>2. /\ x \in Sites /\ x \notin Reg(n) /\ x[2] = h /\ x[1] = Lev(n)
      /\ (\A p \in DOMAIN at : First(p) < n => p # x) /\ Lev(n) \in 0 .. 3
  BY FreshSite, LevIs
<1> DEFINE at3 == With(at2, x, c)
<1>3. /\ Placed(at3) /\ Img(at3, Sites) \subseteq Img(at2, Sites) \union {c}
      /\ x \notin DOMAIN at2 => Img(at3, Sites) = Img(at2, Sites) \union {c}
  BY <1>1, <1>2, WithPlaced
<1>4. DOMAIN at3 = DOMAIN at2 \union {x} /\ \A p \in DOMAIN at2 : p # x => at3[p] = at2[p]  BY DEF With
<1> HIDE DEF at3
<1>5. Opened(at, at3, n, h)
  <2>1. {Anc(n, j) : j \in h .. Lev(n)} = {Anc(n, j) : j \in (h + 1) .. Lev(n)} \union {x}
    <3>1. h .. Lev(n) = ((h + 1) .. Lev(n)) \union {h}  BY <1>2
    <3> QED BY <3>1
  <2>2. \A p \in DOMAIN at : First(p) < n => at3[p] = at[p]  BY <1>1, <1>2, <1>4 DEF Opened
  <2> QED BY <2>1, <2>2, <1>1, <1>4 DEF Opened
<1>6. G2 \subseteq F  BY <1>1 DEF Taken
<1>7. (G2 \union X2) \union Img(at3, Sites) \subseteq F \union Img(at, Sites)
  <2>1. (G2 \union X2) \union Img(at3, Sites) \subseteq (G \union {b}) \union Img(at2, Sites)
    <3>1. G2 \union X2 \union {c} = G \union {b}  BY <1>1
    <3>2. Img(at3, Sites) \subseteq Img(at2, Sites) \union {c}  BY <1>3
    <3> QED BY <3>1, <3>2
  <2> QED BY <2>1, <1>1 DEF Taken
<1>8. SameBut(f.blk, g2.blk, F \union Img(at, Sites))
  <2>1. c \in F \union Img(at, Sites)  BY <1>1 DEF Taken
  <2>2. SameBut(f.blk, g.blk, F \union Img(at, Sites))  BY <1>1 DEF Taken
  <2>3. CASE h = Lev(n)
    BY <2>1, <2>2, <2>3 DEF Linked, SameBut
  <2>4. CASE h # Lev(n)
    <3>1. Anc(n, h + 1) \in DOMAIN at2 /\ Anc(n, h + 1) \in Sites  BY <2>4, <1>1, AboveIs
    <3>2. at2[Anc(n, h + 1)] \in F \union Img(at, Sites)  BY <3>1, <1>1 DEF Taken, Img
    <3>3. SameBut(g.blk, g2.blk, {c, at2[Anc(n, h + 1)]})  BY <2>4 DEF Linked
    <3> QED BY <3>2, <3>3, <2>1, <2>2 DEF SameBut
  <2> QED BY <2>3, <2>4
<1>9. ASSUME DOMAIN at = Reg(n) PROVE (G2 \union X2) \union Img(at3, Sites) = F \union Img(at, Sites)
  <2>1. x \notin DOMAIN at2
    <3>1. ASSUME NEW j \in (h + 1) .. Lev(n) PROVE Anc(n, j) # x
      <4>1. Anc(n, j)[2] = j /\ j # h  BY <1>2 DEF Anc
      <4> QED BY <4>1, <1>2
    <3> QED BY <3>1, <1>1, <1>2, <1>9 DEF Opened
  <2>2. (G2 \union X2) \union Img(at3, Sites) = (G \union {b}) \union Img(at2, Sites)
    <3>1. G2 \union X2 \union {c} = G \union {b}  BY <1>1
    <3>2. Img(at3, Sites) = Img(at2, Sites) \union {c}  BY <2>1, <1>3
    <3> QED BY <3>1, <3>2
  <2> QED BY <2>2, <1>1, <1>9 DEF Taken
<1> QED BY <1>3, <1>5, <1>6, <1>7, <1>8, <1>9 DEF Taken, at3

\* A block that was just handed out.
Handed(g, G, c) == (\A w \in Word \ {0} : g.blk[c][w] = 0) /\ (G = {} => g.blk[c][0] = 0)

\* A new block of addresses.
LEMMA OpenNew ==
  ASSUME NEW f, NEW F, NEW at, NEW n \in 0 .. (MaxBlocks - 1), Shape(at, n), NEW b, NEW g, NEW G, NEW at2,
         NEW h \in 1 .. Lev(n), NEW x, x = Anc(n, h), First(x) = n, Open(f, F, at, n, b, g, G, at2, h + 1),
         NEW c \in G, NEW g2, FreeIs(g2, G \ {c}), Linked(g, g2, at2, n, h, c), Handed(g2, G \ {c}, c)
  PROVE  Open(f, F, at, n, b, g2, G \ {c}, With(at2, x, c), h)
<1> DEFINE at3 == With(at2, x, c)
           G2 == G \ {c}
<1>1. /\ FreeIs(g, G) /\ Placed(at2) /\ Opened(at, at2, n, h + 1) /\ b \in Pool /\ b \notin G
      /\ \A p \in DOMAIN at2 : at2[p] \notin G /\ at2[p] # b
  BY DEF Open
<1>2. c \in Pool /\ c # b /\ \A p \in DOMAIN at2 : at2[p] # c  BY <1>1, FreeInPool
<1>3. h \in 0 .. Lev(n) /\ h # 0 /\ n \in Nat /\ Lev(n) \in 0 .. 3
  <2>1. Lev(n) \in 0 .. 3 /\ n \in Nat  BY LevIs
  <2> QED BY <2>1
<1>4. x \in Sites /\ x[2] = h /\ x[1] = Lev(n)  BY <1>3, AncIs
<1>5. /\ Taken(f, F, at, n, {b}, g2, G2, at3)
      /\ Placed(at3) /\ Opened(at, at3, n, h)
  <2>1. G2 \subseteq G /\ G2 \union {b} \union {c} = G \union {b}  OBVIOUS
  <2> HIDE DEF G2
  <2>2. Spent(G, b, at2, c, G2, {b})  BY <2>1, <1>2 DEF Spent
  <2> HIDE DEF at3
  <2> QED BY <2>2, <1>3, TakenMore DEF at3
<1>6. /\ DOMAIN at3 = DOMAIN at2 \union {x} /\ at3[x] = c
      /\ \A p \in DOMAIN at2 : p # x => at3[p] = at2[p]
  BY DEF With
<1>7. \A p \in DOMAIN at2 : p # x /\ p[2] # 0 => Points(g2.blk, at3, p)
  <2> HIDE DEF at3
  <2> QED BY <1>2, <1>3, PointsLinked DEF at3
<1> HIDE DEF at3
<1>8. Loose(g2, G2, at3, x)
  <2>1. ASSUME NEW k \in Word PROVE Kid(x, k) \notin DOMAIN at3
    <3>1. Kid(x, k) \notin DOMAIN at  BY <1>3, <1>4, FreshKids
    <3>2. Kid(x, k)[2] = h - 1  BY <1>4 DEF Kid
    <3>3. ASSUME NEW j \in h .. Lev(n) PROVE Kid(x, k) # Anc(n, j)
      <4>1. Anc(n, j)[2] = j /\ j # h - 1  BY <1>3 DEF Anc
      <4> QED BY <4>1, <3>2
    <3> QED BY <3>1, <3>3, <1>5 DEF Opened
  <2> QED BY <2>1, <1>6 DEF Loose, Handed
<1>9. \A p \in DOMAIN at3 : at3[p] \notin G2 /\ at3[p] # b  BY <1>1, <1>2, <1>6
<1>10. \A p \in DOMAIN at3 : p[2] # 0 =>
         IF p = Anc(n, h) /\ First(p) = n THEN Loose(g2, G2, at3, p) ELSE Points(g2.blk, at3, p)
  BY <1>6, <1>7, <1>8
<1> HIDE DEF G2
<1>11. b \notin G2 /\ FreeIs(g2, G2)  BY <1>1 DEF G2
<1> QED BY <1>1, <1>5, <1>9, <1>10, <1>11 DEF Open, at3, G2

\* The inode after a block was added to it.
Added(node, node2, n, b) ==
  /\ node2 \in InodeStruct /\ node2.blocks = n + 1
  /\ \A k \in 0 .. (NUM_DIRECT_BLOCKS - 1) :
       node2.directAddresses[k] = IF k = n THEN b ELSE node.directAddresses[k]

\* The block itself gets its place and its contents.
LEMMA OpenEnd ==
  ASSUME NEW f, NEW F, NEW at, NEW node, File(f, F, at, node), NEW n, n = node.blocks, n \in 0 .. (MaxBlocks - 1),
         NEW b, NEW g, NEW G, NEW at2, Open(f, F, at, n, b, g, G, at2, 1),
         NEW g2, FreeIs(g2, G), Linked(g, g2, at2, n, 0, b), NEW node2, Added(node, node2, n, b),
         \A r \in 1 .. 3 : Start(r) <= n => node2[Roots[r]] = With(at2, Anc(n, 0), b)[Root(r)]
  PROVE  /\ File(g2, G, With(at2, Anc(n, 0), b), node2)
         /\ Taken(f, F, at, n, {}, g2, G, With(at2, Anc(n, 0), b))
         /\ Opened(at, With(at2, Anc(n, 0), b), n, 0)
<1> DEFINE x == Anc(n, 0)
           at3 == With(at2, x, b)
<1>1. /\ FreeIs(g, G) /\ Placed(at2) /\ Opened(at, at2, n, 0 + 1) /\ b \in Pool /\ b \notin G
      /\ \A p \in DOMAIN at2 : at2[p] \notin G /\ at2[p] # b
      /\ Open(f, F, at, n, b, g, G, at2, 0 + 1)
  BY DEF Open
<1>2. Lev(n) \in 0 .. 3 /\ n \in Nat /\ 0 \in 0 .. Lev(n) /\ n < MaxBlocks /\ MaxBlocks \in Nat
  <2>1. Lev(n) \in 0 .. 3 /\ n \in Nat /\ MaxBlocks \in Nat  BY LevIs, Starts
  <2> QED BY <2>1
<1>3. x \in Sites /\ x[2] = 0 /\ x[1] = Lev(n) /\ First(x) = n /\ x[3] = n - Start(Lev(n))  BY LeafIs
<1>4. Placed(at) /\ Shape(at, n)  BY FileIs
<1>5. /\ Taken(f, F, at, n, {}, g2, G, at3)
      /\ Placed(at3) /\ Opened(at, at3, n, 0)
  <2>1. G \subseteq G /\ G \union {} \union {b} = G \union {b}  OBVIOUS
  <2>2. Spent(G, b, at2, b, G, {})  BY <2>1, <1>1 DEF Spent
  <2> HIDE DEF at3, x
  <2> QED BY <2>2, <1>1, <1>2, <1>3, <1>4, TakenMore DEF at3, x
<1>6. /\ DOMAIN at3 = DOMAIN at2 \union {x} /\ at3[x] = b
      /\ \A p \in DOMAIN at2 : p # x => at3[p] = at2[p]
  BY DEF With
<1>7. \A p \in DOMAIN at2 : p # x /\ p[2] # 0 => Points(g2.blk, at3, p)
  <2>1. \A p \in DOMAIN at2 : at2[p] # b  BY <1>1
  <2> HIDE DEF at3, x
  <2> QED BY <2>1, <1>1, <1>2, <1>3, PointsLinked DEF at3, x
<1> HIDE DEF at3
<1>8. \A p \in DOMAIN at3 : at3[p] \notin G /\ (p[2] # 0 => Points(g2.blk, at3, p))
  BY <1>1, <1>3, <1>6, <1>7
<1>9. Reg(n + 1) \subseteq DOMAIN at3
  <2>1. ASSUME NEW p \in Reg(n + 1) PROVE p \in DOMAIN at3
    <3>1. p \in Sites /\ First(p) \in Nat /\ First(p) < n + 1  BY <2>1, SiteIs DEF Reg
    <3>2. CASE First(p) < n
      <4>1. p \in DOMAIN at  BY <3>1, <3>2, <1>4 DEF Reg, Shape
      <4> QED BY <4>1, <1>5 DEF Opened
    <3>3. CASE First(p) = n
      <4>1. p[1] = Lev(n) /\ p = Anc(n, p[2]) /\ p[2] \in 0 .. p[1]  BY <3>1, <3>3, FirstAnc, SiteIs
      <4> QED BY <4>1, <1>5 DEF Opened
    <3> QED BY <3>1, <3>2, <3>3, <1>2
  <2> QED BY <2>1
<1>10. DOMAIN at3 \subseteq Reg(n + 1) \union Stale(n + 1)
  <2>1. ASSUME NEW p \in DOMAIN at PROVE p \in Reg(n + 1) \union Stale(n + 1)
    <3>1. p \in Sites /\ First(p) \in Nat /\ (p \in Reg(n) \/ p \in Stale(n))
      BY <1>4, SiteIs DEF Placed, Shape
    <3>2. CASE First(p) < n + 1
      BY <3>1, <3>2 DEF Reg
    <3>3. CASE ~(First(p) < n + 1)
      <4>1. p \in Stale(n)  BY <3>1, <3>3, <1>2 DEF Reg
      <4>2. TripleStart \in Nat /\ A2 \in Nat  BY Starts, Sizes
      <4>3. p[1] = 3 /\ p[2] = 2 /\ TripleStart < n /\ First(p) < n + A2  BY <4>1 DEF Stale
      <4>4. TripleStart < n + 1 /\ n + 1 <= First(p) /\ First(p) < (n + 1) + A2
        BY <4>2, <4>3, <3>1, <3>3, <1>2
      <4> QED BY <4>3, <4>4, <3>1 DEF Stale
    <3> QED BY <3>2, <3>3
  <2>2. ASSUME NEW j \in 0 .. Lev(n) PROVE Anc(n, j) \in Reg(n + 1)
    <3>1. Anc(n, j) \in Sites /\ First(Anc(n, j)) \in Nat /\ First(Anc(n, j)) <= n  BY AncIs
    <3>2. First(Anc(n, j)) < n + 1  BY <3>1, <1>2
    <3> QED BY <3>1, <3>2 DEF Reg
  <2> QED BY <2>1, <2>2, <1>5 DEF Opened
<1>11. Shape(at3, node2.blocks) /\ node2.blocks = n + 1  BY <1>5, <1>9, <1>10 DEF Shape, Added
<1>12. ASSUME NEW k \in 0 .. (NUM_DIRECT_BLOCKS - 1), k < n + 1 PROVE node2.directAddresses[k] = at3[<<0, 0, k>>]
  <2>1. <<0, 0, k>> \in Sites /\ First(<<0, 0, k>>) = k /\ k \in Nat  BY DirectSite
  <2>2. CASE k = n
    <3>1. n < SingleStart  BY <2>1, <2>2, <1>2, Starts
    <3>2. Lev(n) = 0 /\ Start(0) = 0  BY <3>1, Starts DEF Lev
    <3>3. x = <<0, 0, n - 0>>  BY <3>2, <1>3, SiteIs
    <3>4. x = <<0, 0, k>>  BY <3>3, <2>2, <1>2
    <3> QED BY <3>4, <2>2, <1>6 DEF Added
  <2>3. CASE k # n
    <3>1. k < n  BY <2>1, <2>3, <1>2, <1>12
    <3>2. node2.directAddresses[k] = at[<<0, 0, k>>]  BY <2>3, <3>1 DEF Added, File
    <3>3. <<0, 0, k>> \in DOMAIN at  BY <2>1, <3>1, <1>4 DEF Shape, Reg
    <3>4. at3[<<0, 0, k>>] = at[<<0, 0, k>>]  BY <2>1, <3>1, <3>3, <1>5 DEF Opened
    <3> QED BY <3>2, <3>4
  <2> QED BY <2>2, <2>3
<1>13. ASSUME NEW r \in 1 .. 3, Start(r) < n + 1 PROVE node2[Roots[r]] = at3[Root(r)]
  <2>1. Start(r) \in Nat  BY Widths
  <2>2. Start(r) <= n  BY <2>1, <1>2, <1>13
  <2> QED BY <2>2 DEF at3
<1>14. node2 \in InodeStruct  BY DEF Added
<1>15. File(g2, G, at3, node2)
  <2>1. /\ \A k \in 0 .. (NUM_DIRECT_BLOCKS - 1) : k < node2.blocks => node2.directAddresses[k] = at3[<<0, 0, k>>]
        /\ \A r \in 1 .. 3 : Start(r) < node2.blocks => node2[Roots[r]] = at3[Root(r)]
    BY <1>11, <1>12, <1>13
  <2> QED BY <2>1, <1>8, <1>11, <1>14 DEF File
<1> QED BY <1>5, <1>15 DEF at3

\* An inode that still says where its n blocks are.
Unmoved(node, node1) ==
  /\ node1 \in InodeStruct /\ node1.blocks = node.blocks /\ node1.directAddresses = node.directAddresses
  /\ \A r \in 1 .. 3 : Start(r) < node.blocks => node1[Roots[r]] = node[Roots[r]]

\* The site at a block of the file.
LEMMA DataSite ==
  ASSUME NEW at, NEW n \in 0 .. MaxBlocks, Shape(at, n), NEW k \in 0 .. (n - 1)
  PROVE  k \in 0 .. (MaxBlocks - 1) /\ k < n /\ Anc(k, 0) \in DOMAIN at /\ First(Anc(k, 0)) = k
<1>1. k \in 0 .. (MaxBlocks - 1) /\ k < n  BY Starts
<1>2. Anc(k, 0) \in Sites /\ First(Anc(k, 0)) = k  BY <1>1, LeafIs
<1> QED BY <1>1, <1>2 DEF Shape, Reg

\* The disk is full before the root of the level is there: what was allocated is lost.
LEMMA FailAtRoot ==
  ASSUME NEW f, NEW F, NEW at, NEW node, File(f, F, at, node), NEW n, n = node.blocks, n \in 0 .. (MaxBlocks - 1),
         n >= SingleStart, NEW b, NEW g, NEW at2, NEW h \in 1 .. Lev(n), Open(f, F, at, n, b, g, {}, at2, h + 1),
         NEW node1, Unmoved(node, node1), n = Start(Lev(n))
  PROVE  Grown(f, F, at, node, g, {}, at, node1)
<1>1. /\ Placed(at) /\ Shape(at, n) /\ n \in Nat /\ Lev(n) \in 1 .. 3 /\ DOMAIN at \subseteq Sites
  BY FileIs, LevIs, AncRoot DEF Placed
<1>2. FreeIs(g, {}) /\ Opened(at, at2, n, h + 1) /\ Taken(f, F, at, n, {b}, g, {}, at2)
      /\ \A p \in DOMAIN at2 : p[2] # 0 =>
           IF p = Anc(n, h + 1) /\ First(p) = n THEN Loose(g, {}, at2, p) ELSE Points(g.blk, at2, p)
  BY DEF Open
<1>3. n <= TripleStart /\ TripleStart \in Nat
  <2>1. Lev(n) \in 0 .. 4 /\ 3 \in 0 .. 4 /\ Lev(n) <= 3  BY <1>1
  <2> QED BY <2>1, <1>1, StartsUp, Starts
<1>4. ASSUME NEW p \in DOMAIN at PROVE p \in Sites /\ First(p) \in Nat /\ First(p) < n /\ p[1] # Lev(n) /\ at2[p] = at[p]
  <2>1. p \in Sites /\ First(p) \in Nat /\ Start(p[1]) <= First(p) /\ p[1] \in 0 .. 3  BY <1>1, SiteIs
  <2>2. p \notin Stale(n)  BY <1>1, <1>3 DEF Stale
  <2>3. First(p) < n  BY <2>2, <1>1 DEF Shape, Reg
  <2>4. Start(p[1]) \in Nat  BY <2>1, Widths
  <2>5. p[1] # Lev(n)  BY <2>1, <2>3, <2>4, <1>1
  <2> QED BY <2>1, <2>3, <2>5, <1>2 DEF Opened
<1>5. ASSUME NEW p \in DOMAIN at, p[2] # 0 PROVE Points(g.blk, at, p)
  <2>1. p \in DOMAIN at2 /\ First(p) # n  BY <1>2, <1>4, <1>1 DEF Opened
  <2>2. Points(g.blk, at2, p)  BY <2>1, <1>2, <1>5
  <2>3. ASSUME NEW k \in Word PROVE EntryAt(at2, p, k) = EntryAt(at, p, k)
    <3>1. Kid(p, k)[1] # Lev(n)  BY <1>4 DEF Kid
    <3>2. \A j \in (h + 1) .. Lev(n) : Kid(p, k) # Anc(n, j)  BY <3>1 DEF Anc
    <3>3. Kid(p, k) \in DOMAIN at2 <=> Kid(p, k) \in DOMAIN at  BY <3>2, <1>2 DEF Opened
    <3> QED BY <3>3, <1>4 DEF EntryAt
  <2>4. at2[p] = at[p]  BY <1>4
  <2> QED BY <2>2, <2>3, <2>4 DEF Points
<1>6. /\ node1 \in InodeStruct /\ node1.blocks = n
      /\ \A k \in 0 .. (NUM_DIRECT_BLOCKS - 1) : k < node1.blocks => node1.directAddresses[k] = at[<<0, 0, k>>]
      /\ \A r \in 1 .. 3 : Start(r) < node1.blocks => node1[Roots[r]] = at[Root(r)]
  BY DEF Unmoved, File
<1>7. File(g, {}, at, node1)  BY <1>1, <1>2, <1>5, <1>6 DEF File
<1>8. Turn(f, F, at, g, {}, at)  BY <1>2 DEF Taken, Turn
<1> QED BY <1>1, <1>6, <1>7, <1>8 DEF Grown

\* It is full below the root: a new block of addresses stays there, with nothing below it.
LEMMA FailBelow ==
  ASSUME NEW f, NEW F, NEW at, NEW node, File(f, F, at, node), NEW n, n = node.blocks, n \in 0 .. (MaxBlocks - 1),
         n >= SingleStart, NEW b, NEW g, NEW at2, NEW h \in 1 .. Lev(n), Open(f, F, at, n, b, g, {}, at2, h + 1),
         NEW node1, Unmoved(node, node1), n # Start(Lev(n))
  PROVE  Grown(f, F, at, node, g, {}, at2, node1)
<1>1. /\ Placed(at) /\ Shape(at, n) /\ n \in Nat /\ n \in 0 .. MaxBlocks /\ DOMAIN at \subseteq Sites
  BY FileIs DEF Placed
<1>2. /\ FreeIs(g, {}) /\ Placed(at2) /\ Opened(at, at2, n, h + 1) /\ Taken(f, F, at, n, {b}, g, {}, at2)
      /\ \A p \in DOMAIN at2 : p[2] # 0 =>
           IF p = Anc(n, h + 1) /\ First(p) = n THEN Loose(g, {}, at2, p) ELSE Points(g.blk, at2, p)
  BY DEF Open
<1>3. /\ Lev(n) \in 1 .. 3 /\ Start(Lev(n)) <= n /\ Start(Lev(n)) \in Nat /\ Anc(n, Lev(n)) = Root(Lev(n))
      /\ First(Root(Lev(n))) = Start(Lev(n))
  BY LevIs, AncRoot, RootIs
<1>4. ASSUME NEW j \in (h + 1) .. Lev(n) PROVE Anc(n, j) \in Reg(n) \union Stale(n)
  <2>1. j \in 0 .. Lev(n) /\ j \in 2 .. 3  BY <1>3
  <2>2. Anc(n, j) \in Sites /\ First(Anc(n, j)) \in Nat /\ First(Anc(n, j)) <= n /\ Anc(n, j)[1] = Lev(n) /\ Anc(n, j)[2] = j
    BY <2>1, AncIs
  <2>3. CASE First(Anc(n, j)) < n
    BY <2>2, <2>3 DEF Reg
  <2>4. CASE First(Anc(n, j)) = n
    <3>1. j # Lev(n)  BY <2>4, <1>3
    <3>2. j = 2 /\ Lev(n) = 3  BY <3>1, <2>1, <1>3
    <3>3. TripleStart < n /\ A2 \in Nat /\ A2 >= 1
      <4>1. TripleStart <= n /\ TripleStart # n /\ TripleStart \in Nat  BY <3>2, <1>3, Starts
      <4>2. A2 \in Nat /\ A2 >= 1  BY Sizes
      <4> QED BY <4>1, <4>2, <1>1
    <3>4. n <= First(Anc(n, j)) /\ First(Anc(n, j)) < n + A2  BY <3>3, <2>4, <1>1
    <3> QED BY <2>2, <3>2, <3>3, <3>4 DEF Stale
  <2> QED BY <2>2, <2>3, <2>4, <1>1
<1>5. Shape(at2, n)  BY <1>1, <1>2, <1>4 DEF Shape, Opened
<1>6. ASSUME NEW p \in DOMAIN at2, p[2] # 0 PROVE Points(g.blk, at2, p)
  <2>1. CASE Loose(g, {}, at2, p)
    <3>1. ASSUME NEW k \in Word PROVE g.blk[at2[p]][k] = 0 /\ Kid(p, k) \notin DOMAIN at2
      BY <2>1 DEF Loose
    <3> QED BY <3>1 DEF Points, EntryAt
  <2> QED BY <2>1, <1>2, <1>6
<1>7. \A p \in DOMAIN at : First(p) < n => at2[p] = at[p]  BY <1>2 DEF Opened
<1>8. ASSUME NEW k \in 0 .. (NUM_DIRECT_BLOCKS - 1), k < n PROVE node1.directAddresses[k] = at2[<<0, 0, k>>]
  <2>1. <<0, 0, k>> \in Sites /\ First(<<0, 0, k>>) = k  BY DirectSite
  <2>2. <<0, 0, k>> \in DOMAIN at  BY <2>1, <1>1, <1>8 DEF Shape, Reg
  <2>3. node1.directAddresses[k] = at[<<0, 0, k>>]  BY <1>8 DEF Unmoved, File
  <2> QED BY <2>1, <2>2, <2>3, <1>7, <1>8
<1>9. ASSUME NEW r \in 1 .. 3, Start(r) < n PROVE node1[Roots[r]] = at2[Root(r)]
  <2>1. Root(r) \in Sites /\ First(Root(r)) = Start(r)  BY RootIs
  <2>2. Root(r) \in DOMAIN at  BY <2>1, <1>1, <1>9 DEF Shape, Reg
  <2>3. node1[Roots[r]] = at[Root(r)]  BY <1>9 DEF Unmoved, File
  <2> QED BY <2>1, <2>2, <2>3, <1>7, <1>9
<1>10. File(g, {}, at2, node1)
  <2>1. /\ node1 \in InodeStruct /\ node1.blocks = n
        /\ \A k \in 0 .. (NUM_DIRECT_BLOCKS - 1) : k < node1.blocks => node1.directAddresses[k] = at2[<<0, 0, k>>]
        /\ \A r \in 1 .. 3 : Start(r) < node1.blocks => node1[Roots[r]] = at2[Root(r)]
    BY <1>8, <1>9 DEF Unmoved
  <2> QED BY <2>1, <1>2, <1>5, <1>6 DEF File
<1>11. Turn(f, F, at, g, {}, at2)  BY <1>2 DEF Taken, Turn
<1>12. \A k \in 0 .. (n - 1) : at2[Anc(k, 0)] = at[Anc(k, 0)]  BY <1>1, <1>7, DataSite
<1>13. node.blocks <= node1.blocks  BY <1>1 DEF Unmoved
<1> QED BY <1>10, <1>11, <1>12, <1>13 DEF Grown

\* The way down to height h: the block there, rp being that of the root; or the disk became full.
Arrived(f, F, at, n, b, h, rp, st) ==
  \E g, G, at2 :
    /\ Open(f, F, at, n, b, g, G, at2, h)
    /\ st = [fs |-> g, ptr |-> at2[Anc(n, h)], ok |-> TRUE] /\ at2[Anc(n, Lev(n))] = rp
Stuck(f, F, at, n, b, h, st) ==
  \E g, at2 : \E j \in h .. Lev(n) :
    Open(f, F, at, n, b, g, {}, at2, j + 1) /\ st.fs = g /\ st.ok = FALSE

\* A block that is handed out, and what is done with it.
LEMMA HandOut ==
  ASSUME NEW g, NEW G, FreeIs(g, G)
  PROVE  \/ G = {} /\ allocate_data_block(g) = [fs |-> g, ret |-> -1]
         \/ /\ allocate_data_block(g).ret \in G /\ allocate_data_block(g).ret # -1
            /\ allocate_data_block(g).ret \in Pool
            /\ FreeIs(allocate_data_block(g).fs, G \ {allocate_data_block(g).ret})
            /\ SameBut(g.blk, allocate_data_block(g).fs.blk, {allocate_data_block(g).ret})
            /\ Handed(allocate_data_block(g).fs, G \ {allocate_data_block(g).ret}, allocate_data_block(g).ret)
<1> DEFINE new == allocate_data_block(g)
<1>1. G = {} => new = [fs |-> g, ret |-> -1]  BY AllocOne
<1>2. G # {} => /\ new.ret \in G /\ FreeIs(new.fs, G \ {new.ret})
                /\ SameBut(g.blk, new.fs.blk, {new.ret})
                /\ \A w \in Word \ {0} : new.fs.blk[new.ret][w] = 0
                /\ G \ {new.ret} = {} => new.fs.blk[new.ret][0] = 0
  BY AllocOne
<1>3. G \subseteq Pool /\ -1 \notin Pool  BY FreeInPool, PoolIs
<1> HIDE DEF new
<1>4. CASE G = {}
  BY <1>1, <1>4 DEF new
<1>5. CASE G # {}
  <2>1. Handed(new.fs, G \ {new.ret}, new.ret)  BY <1>2, <1>5 DEF Handed
  <2>2. new.ret \in Pool /\ new.ret # -1  BY <1>2, <1>3, <1>5
  <2> QED BY <2>1, <2>2, <1>2, <1>5 DEF new
<1> QED BY <1>4, <1>5

\* A block that is written.
LEMMA Written ==
  ASSUME NEW f, NEW F, FreeIs(f, F), NEW b \in Pool, b \notin F, NEW buffer, Addresses(buffer, Word),
         NEW f2, f2 = write_data_block(f, b, buffer)
  PROVE  FreeIs(f2, F) /\ f2.blk[b] = buffer /\ SameBut(f.blk, f2.blk, {b})
BY WriteOne

\* The root.
LEMMA RootStep ==
  ASSUME NEW f, NEW F, NEW at, NEW node, File(f, F, at, node), NEW n, n = node.blocks, n \in 0 .. (MaxBlocks - 1),
         n >= SingleStart, NEW b, NEW g, NEW G, Open(f, F, at, n, b, g, G, at, Lev(n) + 1),
         NEW p, p = node[Roots[Lev(n)]], NEW root, root = NewRoot(g, p, n = Start(Lev(n)))
  PROVE  /\ Arrived(f, F, at, n, b, Lev(n), root.ptr, root) \/ Stuck(f, F, at, n, b, Lev(n), root)
         /\ root.ptr \in Int /\ (n # Start(Lev(n)) => root.ptr = p)
<1> DEFINE isFirst == n = Start(Lev(n))
           h == Lev(n)
           new == allocate_data_block(g)
           x == Anc(n, h)
<1>1. /\ h \in 1 .. 3 /\ h \in 1 .. h /\ h \in 0 .. h /\ x = Root(h) /\ First(x) = Start(h) /\ Start(h) <= n /\ Start(h) \in Nat /\ n \in Nat
  <2>1. h \in 1 .. 3 /\ x = Root(h) /\ Start(h) <= n /\ Start(h) \in Nat /\ n \in Nat  BY AncRoot, LevIs
  <2>2. h \in 1 .. h /\ h \in 0 .. h  BY <2>1
  <2> QED BY <2>1, <2>2, RootIs
<1>2. Shape(at, n) /\ node \in InodeStruct /\ p \in Int  BY <1>1, FileIs, NodeIs
<1>3. FreeIs(g, G) /\ \A q \in DOMAIN at : at[q] \notin G  BY DEF Open
<1>4. CASE ~isFirst
  <2>1. root = [fs |-> g, ptr |-> p, ok |-> TRUE]  BY <1>4 DEF NewRoot
  <2>2. First(x) # n /\ Start(h) < n  BY <1>1, <1>4
  <2>3. Open(f, F, at, n, b, g, G, at, h)
    <3> HIDE DEF h
    <3> QED BY <2>2, <1>1, <1>2, OpenOld DEF h
  <2>4. p = at[x]  BY <2>2, <1>1 DEF File
  <2>5. root.ptr = at[x] /\ root.ptr = p  BY <2>1, <2>4
  <2>6. Arrived(f, F, at, n, b, h, root.ptr, root)  BY <2>1, <2>3, <2>4, <2>5 DEF Arrived
  <2> QED BY <2>5, <2>6, <1>2
<1>5. CASE isFirst
  <2>1. First(x) = n /\ n = Start(h)  BY <1>1, <1>5
  <2>2. CASE G = {} /\ new = [fs |-> g, ret |-> -1]
    <3>1. root = [fs |-> g, ptr |-> p, ok |-> FALSE]  BY <2>2, <1>5 DEF NewRoot
    <3>2. Stuck(f, F, at, n, b, h, root)
      <4>1. h \in h .. Lev(n) /\ Open(f, F, at, n, b, g, {}, at, h + 1) /\ root.fs = g /\ root.ok = FALSE
        BY <3>1, <2>2, <1>1
      <4> HIDE DEF h
      <4> QED BY <4>1 DEF Stuck
    <3> QED BY <3>1, <3>2, <2>1, <1>2
  <2>3. CASE /\ new.ret \in G /\ new.ret # -1 /\ new.ret \in Pool /\ FreeIs(new.fs, G \ {new.ret})
             /\ SameBut(g.blk, new.fs.blk, {new.ret}) /\ Handed(new.fs, G \ {new.ret}, new.ret)
    <3>1. root = [fs |-> new.fs, ptr |-> new.ret, ok |-> TRUE]  BY <2>3, <1>5 DEF NewRoot
    <3>2. Linked(g, new.fs, at, n, h, new.ret)  BY <2>3 DEF Linked
    <3> HIDE DEF new
    <3>3. Open(f, F, at, n, b, new.fs, G \ {new.ret}, With(at, x, new.ret), h)
      <4> HIDE DEF h, x
      <4> QED BY <3>2, <2>1, <2>3, <1>1, <1>2, OpenNew DEF h, x
    <3>4. With(at, x, new.ret)[x] = new.ret  BY DEF With
    <3>5. Arrived(f, F, at, n, b, h, root.ptr, root)
      <4>1. root.ptr = new.ret /\ x = Anc(n, Lev(n)) /\ x = Anc(n, h)  BY <3>1
      <4> DEFINE at3 == With(at, x, new.ret)
      <4>2. at3[Anc(n, h)] = new.ret /\ at3[Anc(n, Lev(n))] = root.ptr  BY <4>1, <3>4
      <4>3. root = [fs |-> new.fs, ptr |-> at3[Anc(n, h)], ok |-> TRUE]  BY <4>2, <3>1
      <4>4. Open(f, F, at, n, b, new.fs, G \ {new.ret}, at3, h)  BY <3>3
      <4> HIDE DEF at3, h, x
      <4> QED BY <4>2, <4>3, <4>4 DEF Arrived
    <3>6. root.ptr \in Int  BY <3>1, <2>3, PoolIs
    <3> QED BY <3>5, <3>6, <2>1
  <2> QED BY <2>2, <2>3, <1>3, HandOut
<1> QED BY <1>4, <1>5

\* A block below it.
LEMMA ChildStep ==
  ASSUME NEW f, NEW F, NEW at, NEW n \in 0 .. (MaxBlocks - 1), Shape(at, n), NEW b, NEW h \in 1 .. Lev(n), h # Lev(n), NEW rp, NEW st,
         Arrived(f, F, at, n, b, h + 1, rp, st) \/ Stuck(f, F, at, n, b, h + 1, st),
         NEW k, k = Slot(Anc(n, h)), NEW isFirst \in BOOLEAN, isFirst <=> First(Anc(n, h)) = n
  PROVE  Arrived(f, F, at, n, b, h, rp, Child(st, k, isFirst)) \/ Stuck(f, F, at, n, b, h, Child(st, k, isFirst))
<1> DEFINE x == Anc(n, h)
           q == Anc(n, h + 1)
<1>1. Lev(n) \in 0 .. 3 /\ h \in 0 .. Lev(n) /\ h \in h .. Lev(n) /\ \A j \in (h + 1) .. Lev(n) : j \in h .. Lev(n)
  <2>1. Lev(n) \in 0 .. 3  BY LevIs
  <2> QED BY <2>1
<1>2. CASE Stuck(f, F, at, n, b, h + 1, st)
  <2>1. st.ok = FALSE  BY <1>2 DEF Stuck
  <2>2. Child(st, k, isFirst) = st  BY <2>1 DEF Child
  <2>3. Stuck(f, F, at, n, b, h, st)  BY <1>1, <1>2 DEF Stuck
  <2> QED BY <2>2, <2>3
<1>3. ASSUME Arrived(f, F, at, n, b, h + 1, rp, st)
      PROVE  Arrived(f, F, at, n, b, h, rp, Child(st, k, isFirst)) \/ Stuck(f, F, at, n, b, h, Child(st, k, isFirst))
  <2>1. PICK g, G, at2 :
          /\ Open(f, F, at, n, b, g, G, at2, h + 1)
          /\ st = [fs |-> g, ptr |-> at2[q], ok |-> TRUE] /\ at2[Anc(n, Lev(n))] = rp
    BY <1>3 DEF Arrived
  <2>2. /\ FreeIs(g, G) /\ Placed(at2) /\ Opened(at, at2, n, h + 1)
        /\ (\A p \in DOMAIN at2 : at2[p] \notin G /\ at2[p] # b)
        /\ \A p \in DOMAIN at2 : p[2] # 0 =>
             IF p = q /\ First(p) = n THEN Loose(g, G, at2, p) ELSE Points(g.blk, at2, p)
    BY <2>1 DEF Open
  <2>3. /\ q \in DOMAIN at2 /\ q \in Sites /\ q[2] # 0 /\ x = Kid(q, k) /\ k \in Word
        /\ (First(q) = n => First(x) = n)
    BY <2>2, <1>1, AboveIs
  <2>4. at2[q] \in Pool /\ at2[q] \in DataRegion  BY <2>2, <2>3, PoolIs DEF Placed
  <2> DEFINE block == g.blk[at2[q]]
             new == allocate_data_block(g)
  <2>5. CASE ~isFirst
    <3>1. Child(st, k, isFirst) = [fs |-> g, ptr |-> block[k], ok |-> TRUE]  BY <2>1, <2>5 DEF Child
    <3>2. First(x) # n  BY <2>5
    <3>3. Open(f, F, at, n, b, g, G, at2, h)  BY <3>2, <2>1, OpenOld
    <3>4. Points(g.blk, at2, q)  BY <3>2, <2>2, <2>3
    <3>5. x \in DOMAIN at2
      <4>1. Opened(at, at2, n, h)  BY <3>3 DEF Open
      <4> QED BY <4>1, <1>1 DEF Opened
    <3>6. block[k] = at2[x]  BY <3>4, <3>5, <2>3 DEF Points, EntryAt
    <3> HIDE DEF x, q, block
    <3>7. Arrived(f, F, at, n, b, h, rp, Child(st, k, isFirst))  BY <3>1, <3>3, <3>6, <2>1 DEF Arrived, x
    <3> QED BY <3>7
  <2>6. CASE isFirst /\ G = {} /\ new = [fs |-> g, ret |-> -1]
    <3>1. Child(st, k, isFirst) = [fs |-> g, ptr |-> 0, ok |-> FALSE]
      <4>1. st.fs = g /\ st.ok = TRUE  BY <2>1
      <4>2. allocate_data_block(st.fs).ret = -1 /\ allocate_data_block(st.fs).fs = g  BY <4>1, <2>6
      <4> QED BY <4>1, <4>2, <2>6 DEF Child
    <3>2. Open(f, F, at, n, b, g, {}, at2, h + 1)  BY <2>1, <2>6
    <3>3. Stuck(f, F, at, n, b, h, Child(st, k, isFirst))  BY <3>1, <3>2, <1>1 DEF Stuck
    <3> QED BY <3>3
  <2>7. CASE /\ isFirst
             /\ new.ret \in G /\ new.ret # -1 /\ new.ret \in Pool /\ FreeIs(new.fs, G \ {new.ret})
             /\ SameBut(g.blk, new.fs.blk, {new.ret}) /\ Handed(new.fs, G \ {new.ret}, new.ret)
    <3> DEFINE c == new.ret
               G2 == G \ {c}
               buffer == [block EXCEPT ![k] = c]
               g2 == write_data_block(new.fs, at2[q], buffer)
    <3>1. Child(st, k, isFirst) = [fs |-> g2, ptr |-> c, ok |-> TRUE]  BY <2>1, <2>7 DEF Child
    <3>2. Addresses(buffer, Word) /\ at2[q] \notin G2 /\ at2[q] # c /\ c \in Int
      <4>1. g \in FileSystem  BY <2>2, FreeInPool
      <4>2. block \in [Word -> Int]  BY <4>1, <2>4, DiskIs
      <4>3. c \in Int  BY <2>7, PoolIs
      <4>4. at2[q] \notin G  BY <2>2, <2>3
      <4> HIDE DEF new, block
      <4> QED BY <4>2, <4>3, <4>4, <2>3, <2>7 DEF Addresses
    <3> HIDE DEF new, buffer
    <3>3. FreeIs(new.fs, G2) /\ SameBut(g.blk, new.fs.blk, {c}) /\ Handed(new.fs, G2, c) /\ c \in G /\ c \in Pool
      BY <2>7
    <3> HIDE DEF c, G2
    <3>4. FreeIs(g2, G2) /\ g2.blk[at2[q]] = buffer /\ SameBut(new.fs.blk, g2.blk, {at2[q]})
      <4> DEFINE p == at2[q]
      <4>1. p \in Pool /\ p \notin G2 /\ g2 = write_data_block(new.fs, p, buffer)  BY <3>2, <2>4
      <4> HIDE DEF p, g2
      <4> DEFINE e == new.fs
      <4>2. FreeIs(e, G2) /\ Addresses(buffer, Word) /\ g2 = write_data_block(e, p, buffer)
        BY <4>1, <3>2, <3>3
      <4> HIDE DEF e
      <4>3. FreeIs(g2, G2) /\ g2.blk[p] = buffer /\ SameBut(e.blk, g2.blk, {p})  BY <4>1, <4>2, Written
      <4> QED BY <4>3 DEF p, e
    <3> HIDE DEF g2
    <3>5. SameBut(g.blk, g2.blk, {c, at2[q]})  BY <3>3, <3>4 DEF SameBut
    <3>6. Linked(g, g2, at2, n, h, c)  BY <3>4, <3>5 DEF Linked, buffer
    <3>7. Handed(g2, G2, c)
      <4>1. c \in DataRegion \ {at2[q]}  BY <3>2, <3>3, PoolIs
      <4>2. g2.blk[c] = new.fs.blk[c]  BY <4>1, <3>4 DEF SameBut
      <4> QED BY <4>2, <3>3 DEF Handed
    <3>8. Open(f, F, at, n, b, g2, G2, With(at2, x, c), h)
      <4>1. First(x) = n  BY <2>7
      <4> HIDE DEF x
      <4> QED BY <4>1, <3>3, <3>4, <3>6, <3>7, <2>1, OpenNew DEF x, G2
    <3>9. With(at2, x, c)[x] = c /\ With(at2, x, c)[Anc(n, Lev(n))] = rp
      <4>1. Anc(n, Lev(n)) \in DOMAIN at2
        <5>1. Lev(n) \in (h + 1) .. Lev(n)  BY <1>1
        <5> QED BY <5>1, <2>2 DEF Opened
      <4>2. Anc(n, Lev(n)) # x  BY DEF Anc
      <4> HIDE DEF x
      <4> QED BY <4>1, <4>2, <2>1 DEF With
    <3> HIDE DEF x, q
    <3>10. Arrived(f, F, at, n, b, h, rp, Child(st, k, isFirst))  BY <3>1, <3>8, <3>9 DEF Arrived, x
    <3> QED BY <3>10
  <2> QED BY <2>2, <2>5, <2>6, <2>7, HandOut
<1> QED BY <1>2, <1>3

\* The way of add_datablock_to_inode down to the block of addresses.
WayRoot(g, node, n) == NewRoot(g, node[Roots[Lev(n)]], n = Start(Lev(n)))
WayDown(g, node, n) ==
  LET root == WayRoot(g, node, n)
  IN  IF Lev(n) = 1 THEN root
      ELSE IF Lev(n) = 2 THEN Child(root, Slot(Anc(n, 1)), First(Anc(n, 1)) = n)
      ELSE Child(Child(root, Slot(Anc(n, 2)), First(Anc(n, 2)) = n), Slot(Anc(n, 1)), First(Anc(n, 1)) = n)

\* Which blocks are the first ones below the sites above them.
LEMMA FirstIs ==
  ASSUME NEW n \in 0 .. (MaxBlocks - 1), n >= SingleStart
  PROVE  /\ (n \in {SingleStart, DoubleStart, TripleStart}) <=> n = Start(Lev(n))
         /\ (First(Anc(n, 1)) = n) <=> Slot(Anc(n, 0)) = 0
         /\ Lev(n) = 3 => ((First(Anc(n, 2)) = n) <=> (Slot(Anc(n, 0)) = 0 /\ Slot(Anc(n, 1)) = 0))
<1>1. Lev(n) \in 1 .. 3 /\ n \in Nat /\ First(Anc(n, 0)) = n  BY AncRoot, LevIs, LeafIs
<1>2. (First(Anc(n, 1)) = n) <=> Slot(Anc(n, 0)) = 0
  <2>1. 1 \in 1 .. Lev(n) /\ 1 - 1 = 0  BY <1>1
  <2> QED BY <2>1, <1>1, AncDown
<1>3. ASSUME Lev(n) = 3 PROVE (First(Anc(n, 2)) = n) <=> (Slot(Anc(n, 0)) = 0 /\ Slot(Anc(n, 1)) = 0)
  <2>1. 2 \in 1 .. Lev(n) /\ 2 - 1 = 1  BY <1>3
  <2>2. (First(Anc(n, 2)) = n) <=> (First(Anc(n, 1)) = n /\ Slot(Anc(n, 1)) = 0)  BY <2>1, AncDown
  <2> QED BY <2>2, <1>2
<1>4. (n \in {SingleStart, DoubleStart, TripleStart}) <=> n = Start(Lev(n))
  <2>1. /\ SingleStart \in Nat /\ DoubleStart \in Nat /\ TripleStart \in Nat
        /\ SingleStart < DoubleStart /\ DoubleStart < TripleStart
        /\ Start(1) = SingleStart /\ Start(2) = DoubleStart /\ Start(3) = TripleStart
    BY Starts
  <2> QED BY <2>1, <1>1 DEF Lev
<1> QED BY <1>2, <1>3, <1>4

\* The inode with v for its root r.
Rerooted(node, node1, r, v) == node1 = [node EXCEPT ![Roots[r]] = v]

\* The end of add_datablock_to_inode: the way failed, or block n is entered in the block it leads to.
Adds(added, st, node1, n, b) ==
  /\ ~st.ok => added = [fs |-> st.fs, ok |-> FALSE, node |-> node1]
  /\ st.ok /\ ~(st.ptr <= 0) =>
       added = [fs |-> write_data_block(st.fs, st.ptr, [st.fs.blk[st.ptr] EXCEPT ![Slot(Anc(n, 0))] = b]),
                ok |-> TRUE, node |-> [node1 EXCEPT !.blocks = n + 1]]

\* What add_datablock_to_inode leaves when the block is not addressed by the inode itself.
LEMMA AddIs ==
  ASSUME NEW g, NEW node \in InodeStruct, NEW n, n = node.blocks, n \in 0 .. (MaxBlocks - 1), n >= SingleStart, NEW b,
         NEW st, st = WayDown(g, node, n), NEW node1, Rerooted(node, node1, Lev(n), WayRoot(g, node, n).ptr)
  PROVE  Adds(add_datablock_to_inode(g, node, b), st, node1, n, b)
<1> DEFINE root == WayRoot(g, node, n)
           r == Route(n)
<1>1. Lev(n) \in 1 .. 3 /\ n \in Nat  BY AncRoot, LevIs
<1>2. /\ r.root = Roots[Lev(n)] /\ r.entry = Slot(Anc(n, 0))
      /\ Lev(n) = 1 => r.path = << >>
      /\ Lev(n) = 2 => r.path = <<Slot(Anc(n, 1))>>
      /\ Lev(n) = 3 => r.path = <<Slot(Anc(n, 2)), Slot(Anc(n, 1))>>
  BY RouteIs
<1>3. ~(n < NUM_DIRECT_BLOCKS) /\ ~(n >= MaxBlocks)
  <2>1. SingleStart = NUM_DIRECT_BLOCKS /\ SingleStart \in Nat /\ MaxBlocks \in Nat  BY Starts
  <2> QED BY <2>1, <1>1
<1>4. NewRoot(g, node[r.root], n \in {SingleStart, DoubleStart, TripleStart}) = root
  <2>1. (n \in {SingleStart, DoubleStart, TripleStart}) = (n = Start(Lev(n)))  BY FirstIs
  <2> QED BY <2>1, <1>2 DEF WayRoot
<1> DEFINE at == CASE Len(r.path) = 0 -> root
                   [] Len(r.path) = 1 -> Child(root, r.path[1], r.entry = 0)
                   [] Len(r.path) = 2 -> Child(Child(root, r.path[1], r.entry = 0 /\ r.path[2] = 0),
                                               r.path[2], r.entry = 0)
<1>5. at = st
  <2>1. (r.entry = 0) = (First(Anc(n, 1)) = n)  BY <1>2, FirstIs
  <2> HIDE DEF root, r
  <2>2. CASE Lev(n) = 1
    <3>1. Len(r.path) = 0  BY <1>2, <2>2
    <3> QED BY <3>1, <2>2 DEF WayDown, root
  <2>3. CASE Lev(n) = 2
    <3>1. Len(r.path) = 1 /\ r.path[1] = Slot(Anc(n, 1))  BY <1>2, <2>3
    <3> QED BY <3>1, <2>1, <2>3 DEF WayDown, root
  <2>4. CASE Lev(n) = 3
    <3>1. Len(r.path) = 2 /\ r.path[1] = Slot(Anc(n, 2)) /\ r.path[2] = Slot(Anc(n, 1))
      <4>1. r.path = <<Slot(Anc(n, 2)), Slot(Anc(n, 1))>>  BY <1>2, <2>4
      <4> QED BY <4>1
    <3>2. (r.entry = 0 /\ r.path[2] = 0) = (First(Anc(n, 2)) = n)  BY <3>1, <1>2, <2>4, FirstIs
    <3> QED BY <3>1, <3>2, <2>1, <2>4 DEF WayDown, root
  <2>5. Lev(n) = 1 \/ Lev(n) = 2 \/ Lev(n) = 3  BY <1>1
  <2> QED BY <2>2, <2>3, <2>4, <2>5
<1>6. add_datablock_to_inode(g, node, b) =
        IF ~at.ok \/ (r.path # << >> /\ at.ptr <= 0) THEN [fs |-> at.fs, ok |-> FALSE, node |-> [node EXCEPT ![r.root] = root.ptr]]
        ELSE [fs |-> write_data_block(at.fs, at.ptr, [at.fs.blk[at.ptr] EXCEPT ![r.entry] = b]), ok |-> TRUE,
              node |-> [[node EXCEPT ![r.root] = root.ptr] EXCEPT !.blocks = n + 1]]
  BY <1>3, <1>4 DEF add_datablock_to_inode
<1> HIDE DEF at, r, root
<1>7. [node EXCEPT ![r.root] = root.ptr] = node1  BY <1>2 DEF root, Rerooted
<1> QED BY <1>2, <1>5, <1>6, <1>7 DEF Adds

\* One level further down on the way, whatever happened before.
LEMMA ChildTo ==
  ASSUME NEW f, NEW F, NEW at, NEW n \in 0 .. (MaxBlocks - 1), Shape(at, n), NEW b, NEW h \in 1 .. Lev(n), h # Lev(n), NEW rp, NEW st,
         Arrived(f, F, at, n, b, h + 1, rp, st) \/ Stuck(f, F, at, n, b, h + 1, st),
         NEW st2, st2 = Child(st, Slot(Anc(n, h)), First(Anc(n, h)) = n)
  PROVE  Arrived(f, F, at, n, b, h, rp, st2) \/ Stuck(f, F, at, n, b, h, st2)
<1> DEFINE isFirst == First(Anc(n, h)) = n
           k == Slot(Anc(n, h))
<1>1. /\ isFirst \in BOOLEAN /\ (isFirst <=> First(Anc(n, h)) = n) /\ k = Slot(Anc(n, h))
      /\ st2 = Child(st, k, isFirst)
  OBVIOUS
<1> HIDE DEF isFirst, k
<1> QED BY <1>1, ChildStep

\* The way leads to the block of addresses, or the disk becomes full.
LEMMA WayArrives ==
  ASSUME NEW f, NEW F, NEW at, NEW node, File(f, F, at, node), NEW n, n = node.blocks, n \in 0 .. (MaxBlocks - 1),
         n >= SingleStart, NEW b, NEW g, NEW G, Open(f, F, at, n, b, g, G, at, Lev(n) + 1),
         NEW rp, rp = WayRoot(g, node, n).ptr, NEW st, st = WayDown(g, node, n)
  PROVE  /\ Arrived(f, F, at, n, b, 1, rp, st) \/ Stuck(f, F, at, n, b, 1, st)
         /\ rp \in Int /\ (n # Start(Lev(n)) => rp = node[Roots[Lev(n)]])
<1> DEFINE root == WayRoot(g, node, n)
           L == Lev(n)
<1>1. L \in 1 .. 3 /\ n \in Nat /\ Shape(at, n)  BY AncRoot, LevIs, FileIs
<1>2. /\ Arrived(f, F, at, n, b, L, rp, root) \/ Stuck(f, F, at, n, b, L, root)
      /\ rp \in Int /\ (n # Start(L) => rp = node[Roots[L]])
  <2>1. (n = Start(L)) \in BOOLEAN /\ root = NewRoot(g, node[Roots[L]], n = Start(L)) /\ rp = root.ptr
    BY DEF WayRoot
  <2> DEFINE p == node[Roots[Lev(n)]]
  <2>2. root = NewRoot(g, p, n = Start(Lev(n))) /\ p = node[Roots[Lev(n)]]  BY <2>1
  <2> HIDE DEF root, p
  <2>3. /\ Arrived(f, F, at, n, b, Lev(n), root.ptr, root) \/ Stuck(f, F, at, n, b, Lev(n), root)
        /\ root.ptr \in Int /\ (n # Start(Lev(n)) => root.ptr = p)
    BY <2>2, RootStep
  <2> QED BY <2>1, <2>3 DEF p
<1> HIDE DEF root, L
<1>3. CASE L = 1
  <2>1. st = root  BY <1>3 DEF WayDown, root, L
  <2> QED BY <2>1, <1>2, <1>3 DEF L
<1>4. CASE L = 2
  <2>1. 1 \in 1 .. Lev(n) /\ 1 # Lev(n) /\ 1 + 1 = L  BY <1>4 DEF L
  <2>2. st = Child(root, Slot(Anc(n, 1)), First(Anc(n, 1)) = n) /\ (First(Anc(n, 1)) = n) \in BOOLEAN
    BY <1>4 DEF WayDown, root, L
  <2>3. Arrived(f, F, at, n, b, 1 + 1, rp, root) \/ Stuck(f, F, at, n, b, 1 + 1, root)  BY <2>1, <1>2
  <2>4. Arrived(f, F, at, n, b, 1, rp, st) \/ Stuck(f, F, at, n, b, 1, st)
    BY <2>1, <2>2, <2>3, <1>1, ChildTo
  <2> QED BY <2>4, <1>2 DEF L
<1>5. CASE L = 3
  <2> DEFINE mid == Child(root, Slot(Anc(n, 2)), First(Anc(n, 2)) = n)
  <2>1. /\ 1 \in 1 .. Lev(n) /\ 1 # Lev(n) /\ 1 + 1 = 2
        /\ 2 \in 1 .. Lev(n) /\ 2 # Lev(n) /\ 2 + 1 = L
    BY <1>5 DEF L
  <2>2. /\ st = Child(mid, Slot(Anc(n, 1)), First(Anc(n, 1)) = n) /\ (First(Anc(n, 1)) = n) \in BOOLEAN
        /\ (First(Anc(n, 2)) = n) \in BOOLEAN
    BY <1>5 DEF WayDown, root, L
  <2>3. Arrived(f, F, at, n, b, 2 + 1, rp, root) \/ Stuck(f, F, at, n, b, 2 + 1, root)  BY <2>1, <1>2
  <2>4. Arrived(f, F, at, n, b, 2, rp, mid) \/ Stuck(f, F, at, n, b, 2, mid)
    BY <2>1, <2>3, <1>1, ChildTo
  <2> HIDE DEF mid
  <2>5. Arrived(f, F, at, n, b, 1 + 1, rp, mid) \/ Stuck(f, F, at, n, b, 1 + 1, mid)  BY <2>1, <2>4
  <2>6. Arrived(f, F, at, n, b, 1, rp, st) \/ Stuck(f, F, at, n, b, 1, st)
    BY <2>1, <2>2, <2>5, <1>1, ChildTo
  <2> QED BY <2>6, <1>2 DEF L
<1> QED BY <1>1, <1>3, <1>4, <1>5

\* The file has one block more.
LEMMA GrownEnd ==
  ASSUME NEW f, NEW F, NEW at, NEW node, File(f, F, at, node), NEW n, n = node.blocks, n \in 0 .. (MaxBlocks - 1),
         NEW g, NEW G, NEW at2, NEW node2, File(g, G, at2, node2), node2.blocks = n + 1,
         Taken(f, F, at, n, {}, g, G, at2), Opened(at, at2, n, 0)
  PROVE  Grown(f, F, at, node, g, G, at2, node2)
<1>1. n \in Nat /\ n \in 0 .. MaxBlocks /\ Shape(at, n) /\ Shape(at2, n + 1)  BY FileIs
<1>2. /\ G \subseteq F /\ (G \union {}) \union Img(at2, Sites) \subseteq F \union Img(at, Sites)
      /\ SameBut(f.blk, g.blk, F \union Img(at, Sites))
      /\ (DOMAIN at = Reg(n) => (G \union {}) \union Img(at2, Sites) = F \union Img(at, Sites))
  BY DEF Taken
<1>3. G \union {} = G  OBVIOUS
<1>4. Turn(f, F, at, g, G, at2)  BY <1>2, <1>3 DEF Turn
<1>5. \A k \in 0 .. (node.blocks - 1) : at2[Anc(k, 0)] = at[Anc(k, 0)]
  <2>1. ASSUME NEW k \in 0 .. (n - 1) PROVE at2[Anc(k, 0)] = at[Anc(k, 0)]
    <3>1. k < n /\ Anc(k, 0) \in DOMAIN at /\ First(Anc(k, 0)) = k  BY <1>1, DataSite
    <3> QED BY <3>1 DEF Opened
  <2> QED BY <2>1
<1>6. ASSUME DOMAIN at = Reg(n) PROVE DOMAIN at2 = Reg(n + 1)
  <2>1. Reg(n + 1) \subseteq DOMAIN at2  BY <1>1 DEF Shape
  <2>2. Reg(n) \subseteq Reg(n + 1)
    <3>1. n + 1 \in Nat /\ n <= n + 1  BY <1>1
    <3> QED BY <3>1, <1>1, RegIs
  <2>3. ASSUME NEW j \in 0 .. Lev(n) PROVE Anc(n, j) \in Reg(n + 1)
    <3>1. Anc(n, j) \in Sites /\ First(Anc(n, j)) \in Nat /\ First(Anc(n, j)) <= n  BY AncIs
    <3>2. First(Anc(n, j)) < n + 1  BY <3>1, <1>1
    <3> QED BY <3>1, <3>2 DEF Reg
  <2> QED BY <2>1, <2>2, <2>3, <1>6 DEF Opened
<1>7. node.blocks <= node2.blocks  BY <1>1
<1> QED BY <1>2, <1>3, <1>4, <1>5, <1>6, <1>7 DEF Grown

\* Nothing was allocated.
LEMMA GrownNone ==
  ASSUME NEW f, NEW F, NEW at, NEW node, File(f, F, at, node)
  PROVE  Grown(f, F, at, node, f, F, at, node)
<1>1. node.blocks <= node.blocks  BY FileIs
<1>2. Turn(f, F, at, f, F, at)  BY DEF Turn, SameBut
<1> QED BY <1>1, <1>2 DEF Grown

\* The contents of a file are integers in every word.
LEMMA FileDataIs == Addresses(FileData, Word)
BY DEF FileData, Addresses

\* A block that the inode addresses itself.
LEMMA AppendDirect ==
  ASSUME NEW f, NEW F, NEW at, NEW node, File(f, F, at, node), NEW n, n = node.blocks, n < NUM_DIRECT_BLOCKS,
         NEW b \in F, NEW g, FreeIs(g, F \ {b}), SameBut(f.blk, g.blk, {b}), NEW g2, g2 = write_data_block(g, b, FileData),
         NEW node2, node2 = [node EXCEPT !.directAddresses[n] = b, !.blocks = n + 1]
  PROVE  \E at2 : Grown(f, F, at, node, g2, F \ {b}, at2, node2)
<1> DEFINE G == F \ {b}
<1>1. n \in Nat /\ n \in 0 .. (MaxBlocks - 1) /\ n \in 0 .. (NUM_DIRECT_BLOCKS - 1) /\ Lev(n) = 0 /\ node \in InodeStruct /\ FreeIs(f, F)
      /\ n + 1 \in 0 .. MaxBlocks /\ n < SingleStart /\ SingleStart \in Nat
  <2>1. n \in Nat /\ node \in InodeStruct /\ FreeIs(f, F)  BY FileIs
  <2>2. /\ SingleStart = NUM_DIRECT_BLOCKS /\ SingleStart \in Nat /\ MaxBlocks \in Nat
        /\ SingleStart < DoubleStart /\ DoubleStart < TripleStart /\ TripleStart < MaxBlocks
        /\ DoubleStart \in Nat /\ TripleStart \in Nat
    BY Starts
  <2>3. n < SingleStart  BY <2>1, <2>2
  <2>4. Lev(n) = 0  BY <2>3 DEF Lev
  <2> QED BY <2>1, <2>2, <2>3, <2>4
<1>2. b \in Pool /\ b \in Int /\ b \notin G  BY <1>1, FreeInPool, PoolIs
<1>3. Open(f, F, at, n, b, g, G, at, 1)
  <2>1. Lev(n) + 1 = 1  BY <1>1
  <2> QED BY <2>1, OpenStart
<1> HIDE DEF G
<1>4. FreeIs(g2, G) /\ SameBut(g.blk, g2.blk, {b})  BY <1>2, FileDataIs, Written DEF G
<1>5. Linked(g, g2, at, n, 0, b)  BY <1>1, <1>4 DEF Linked
<1>6. Added(node, node2, n, b)
  <2>1. Addresses(node.directAddresses, 0 .. (NUM_DIRECT_BLOCKS - 1))  BY <1>1, NodeIs
  <2> DEFINE addr == [node.directAddresses EXCEPT ![n] = b]
             nodeD == [node EXCEPT !.directAddresses = addr]
  <2>2. Addresses(addr, 0 .. (NUM_DIRECT_BLOCKS - 1)) /\ \A k \in 0 .. (NUM_DIRECT_BLOCKS - 1) : addr[k] = IF k = n THEN b ELSE node.directAddresses[k]
    BY <2>1, <1>1, <1>2 DEF Addresses
  <2>3. node2 = [nodeD EXCEPT !.blocks = n + 1]  OBVIOUS
  <2> HIDE DEF addr
  <2>4. nodeD \in InodeStruct /\ nodeD.directAddresses = addr  BY <2>2, <1>1, DirectEdit
  <2> HIDE DEF nodeD
  <2>5. node2 \in InodeStruct /\ node2.blocks = n + 1 /\ node2.directAddresses = addr
    <3>1. /\ [nodeD EXCEPT !.blocks = n + 1] \in InodeStruct /\ [nodeD EXCEPT !.blocks = n + 1].blocks = n + 1
          /\ [nodeD EXCEPT !.blocks = n + 1].directAddresses = nodeD.directAddresses
      BY <2>4, <1>1, BlocksEdit
    <3> QED BY <3>1, <2>3, <2>4
  <2> QED BY <2>2, <2>5 DEF Added
<1>7. \A r \in 1 .. 3 : ~(Start(r) <= n)
  <2>1. ASSUME NEW r \in 1 .. 3 PROVE ~(Start(r) <= n)
    <3>1. 1 \in 0 .. 4 /\ r \in 0 .. 4 /\ 1 <= r  OBVIOUS
    <3>2. Start(1) <= Start(r) /\ Start(r) \in Nat /\ Start(1) = SingleStart  BY <3>1, StartsUp, Starts
    <3> QED BY <3>2, <1>1
  <2> QED BY <2>1
<1> DEFINE at2 == With(at, Anc(n, 0), b)
<1>8. File(g2, G, at2, node2) /\ Taken(f, F, at, n, {}, g2, G, at2) /\ Opened(at, at2, n, 0)
  BY <1>1, <1>3, <1>4, <1>5, <1>6, <1>7, OpenEnd
<1> HIDE DEF at2
<1>9. Grown(f, F, at, node, g2, G, at2, node2)
  <2>1. node2.blocks = n + 1  BY <1>6 DEF Added
  <2> QED BY <2>1, <1>1, <1>8, GrownEnd
<1> QED BY <1>9 DEF G

\* What an inode with another root has.
LEMMA RerootedIs ==
  ASSUME NEW node \in InodeStruct, NEW r \in 1 .. 3, NEW v \in Int, NEW node1, Rerooted(node, node1, r, v)
  PROVE  /\ node1 \in InodeStruct /\ node1.blocks = node.blocks /\ node1.directAddresses = node.directAddresses
         /\ \A s \in 1 .. 3 : node1[Roots[s]] = IF s = r THEN v ELSE node[Roots[s]]
<1> DEFINE e == [node EXCEPT ![Roots[r]] = v]
<1>1. /\ e \in InodeStruct /\ e.blocks = node.blocks /\ e.directAddresses = node.directAddresses
      /\ \A s \in 1 .. 3 : e[Roots[s]] = IF s = r THEN v ELSE node[Roots[s]]
  BY RootEdit
<1>2. node1 = e  BY DEF Rerooted
<1> HIDE DEF e
<1> QED BY <1>1, <1>2

\* A root that was there is set to what it was.
LEMMA RootSet ==
  ASSUME NEW node \in InodeStruct, NEW n, n = node.blocks, NEW r \in 1 .. 3, NEW v \in Int,
         NEW node1, Rerooted(node, node1, r, v), Start(r) < n => v = node[Roots[r]]
  PROVE  Unmoved(node, node1)
<1>1. /\ node1 \in InodeStruct /\ node1.blocks = node.blocks /\ node1.directAddresses = node.directAddresses
      /\ \A s \in 1 .. 3 : node1[Roots[s]] = IF s = r THEN v ELSE node[Roots[s]]
  BY RerootedIs
<1> QED BY <1>1 DEF Unmoved

\* The disk became full on the way.
LEMMA StuckGrown ==
  ASSUME NEW f, NEW F, NEW at, NEW node, File(f, F, at, node), NEW n, n = node.blocks, n \in 0 .. (MaxBlocks - 1),
         n >= SingleStart, NEW b, NEW st, Stuck(f, F, at, n, b, 1, st), NEW node1, Unmoved(node, node1)
  PROVE  \E at2 : Grown(f, F, at, node, st.fs, {}, at2, node1)
<1>1. PICK g, at2, j : /\ j \in 1 .. Lev(n) /\ Open(f, F, at, n, b, g, {}, at2, j + 1) /\ st.fs = g
  BY DEF Stuck
<1>2. CASE n = Start(Lev(n))
  BY <1>1, <1>2, FailAtRoot
<1>3. CASE n # Start(Lev(n))
  BY <1>1, <1>3, FailBelow
<1> QED BY <1>2, <1>3

\* The block is written, its address before it.
LEMMA LeafLinked ==
  ASSUME NEW f, NEW F, NEW at, NEW n \in 0 .. (MaxBlocks - 1), n >= SingleStart, NEW b, NEW g, NEW G, NEW at2,
         Open(f, F, at, n, b, g, G, at2, 1), NEW p, p = at2[Anc(n, 1)],
         NEW k, k = Slot(Anc(n, 0)), NEW g1, g1 = write_data_block(g, p, [g.blk[p] EXCEPT ![k] = b]),
         NEW g2, g2 = write_data_block(g1, b, FileData)
  PROVE  FreeIs(g2, G) /\ Linked(g, g2, at2, n, 0, b) /\ p > 0
<1> DEFINE leaf == [g.blk[p] EXCEPT ![k] = b]
<1>1. Lev(n) \in 1 .. 3 /\ 0 \in 0 .. Lev(n) /\ 0 # Lev(n) /\ 0 + 1 = 1
  <2>1. Lev(n) \in 1 .. 3  BY AncRoot
  <2> QED BY <2>1
<1>2. /\ FreeIs(g, G) /\ Placed(at2) /\ Opened(at, at2, n, 0 + 1) /\ b \in Pool /\ b \notin G
      /\ \A q \in DOMAIN at2 : at2[q] \notin G /\ at2[q] # b
  BY DEF Open
<1>3. Anc(n, 0 + 1) \in DOMAIN at2 /\ k \in Word  BY <1>1, <1>2, AboveIs
<1>4. p \in Pool /\ p \in DataRegion /\ p \notin G /\ p # b /\ p > 0 /\ b \in Int /\ b \in DataRegion
  BY <1>1, <1>2, <1>3, PoolIs DEF Placed
<1>5. Addresses(leaf, Word)
  <2>1. g \in FileSystem  BY <1>2, FreeInPool
  <2>2. g.blk[p] \in [Word -> Int]  BY <2>1, <1>4, DiskIs
  <2> QED BY <2>2, <1>3, <1>4 DEF Addresses
<1>6. g1 = write_data_block(g, p, leaf)  OBVIOUS
<1> HIDE DEF leaf
<1>7. FreeIs(g1, G) /\ g1.blk[p] = leaf /\ SameBut(g.blk, g1.blk, {p})
  <2>1. FreeIs(g, G) /\ p \in Pool /\ p \notin G  BY <1>2, <1>4
  <2> QED BY <2>1, <1>5, <1>6, Written
<1>8. FreeIs(g2, G) /\ SameBut(g1.blk, g2.blk, {b})  BY <1>2, <1>7, FileDataIs, Written
<1>9. SameBut(g.blk, g2.blk, {b, p}) /\ g2.blk[p] = leaf  BY <1>4, <1>7, <1>8 DEF SameBut
<1>10. Linked(g, g2, at2, n, 0, b)  BY <1>1, <1>9 DEF Linked, leaf
<1> QED BY <1>4, <1>8, <1>10

\* A block below one of the roots.
LEMMA ArrivedGrown ==
  ASSUME NEW f, NEW F, NEW at, NEW node, File(f, F, at, node), NEW n, n = node.blocks, n \in 0 .. (MaxBlocks - 1),
         n >= SingleStart, NEW b, NEW rp \in Int, NEW g, NEW G, NEW at2, Open(f, F, at, n, b, g, G, at2, 1),
         at2[Anc(n, Lev(n))] = rp, NEW node1, Rerooted(node, node1, Lev(n), rp),
         NEW node2, node2 = [node1 EXCEPT !.blocks = n + 1],
         NEW g2, FreeIs(g2, G), Linked(g, g2, at2, n, 0, b)
  PROVE  \E at3 : Grown(f, F, at, node, g2, G, at3, node2)
<1>1. /\ Lev(n) \in 1 .. 3 /\ n \in Nat /\ node \in InodeStruct /\ Shape(at, n) /\ n + 1 \in 0 .. MaxBlocks
      /\ Anc(n, Lev(n)) = Root(Lev(n)) /\ n < Start(Lev(n) + 1)
  <2>1. MaxBlocks \in Nat  BY Starts
  <2>2. n \in Nat /\ n + 1 \in 0 .. MaxBlocks  BY <2>1
  <2> QED BY <2>2, AncRoot, FileIs, LevIs
<1>2. /\ node1 \in InodeStruct /\ node1.directAddresses = node.directAddresses
      /\ \A s \in 1 .. 3 : node1[Roots[s]] = IF s = Lev(n) THEN rp ELSE node[Roots[s]]
  BY <1>1, RerootedIs
<1>3. /\ node2 \in InodeStruct /\ node2.blocks = n + 1 /\ node2.directAddresses = node.directAddresses
      /\ \A s \in 1 .. 3 : node2[Roots[s]] = IF s = Lev(n) THEN rp ELSE node[Roots[s]]
  <2>1. /\ [node1 EXCEPT !.blocks = n + 1] \in InodeStruct /\ [node1 EXCEPT !.blocks = n + 1].blocks = n + 1
        /\ [node1 EXCEPT !.blocks = n + 1].directAddresses = node1.directAddresses
        /\ \A s \in 1 .. 3 : [node1 EXCEPT !.blocks = n + 1][Roots[s]] = node1[Roots[s]]
    BY <1>1, <1>2, BlocksEdit
  <2> QED BY <2>1, <1>2
<1>4. Added(node, node2, n, b)
  <2>1. NUM_DIRECT_BLOCKS = SingleStart /\ SingleStart \in Nat  BY Starts
  <2>2. \A k \in 0 .. (NUM_DIRECT_BLOCKS - 1) : k # n  BY <2>1, <1>1
  <2> QED BY <2>2, <1>3 DEF Added
<1> DEFINE at3 == With(at2, Anc(n, 0), b)
<1>5. ASSUME NEW r \in 1 .. 3, Start(r) <= n PROVE node2[Roots[r]] = at3[Root(r)]
  <2>1. Root(r) \in Sites /\ First(Root(r)) = Start(r) /\ Root(r)[2] = r  BY RootIs
  <2>2. Root(r) # Anc(n, 0)  BY <2>1 DEF Anc
  <2>3. CASE r = Lev(n)
    <3>1. Root(r) \in DOMAIN at2
      <4>1. Lev(n) \in 1 .. Lev(n)  BY <1>1
      <4> QED BY <4>1, <2>3, <1>1 DEF Open, Opened
    <3>2. at3[Root(r)] = at2[Root(r)]  BY <3>1, <2>2 DEF With
    <3> QED BY <3>2, <2>3, <1>1, <1>3
  <2>4. CASE r # Lev(n)
    <3>1. r < Lev(n)
      <4>1. ASSUME Lev(n) < r PROVE FALSE
        <5>1. Lev(n) + 1 \in 0 .. 4 /\ r \in 0 .. 4 /\ Lev(n) + 1 <= r  BY <4>1, <1>1
        <5>2. Start(Lev(n) + 1) <= Start(r) /\ Start(r) \in Nat /\ Start(Lev(n) + 1) \in Nat
          BY <5>1, StartsUp
        <5> QED BY <5>2, <1>1, <1>5
      <4> QED BY <4>1, <2>4, <1>1
    <3>2. Start(r) < n
      <4>1. Start(r) < Start(r + 1) /\ r \in 0 .. 3  BY Widths
      <4>2. r + 1 \in 0 .. 4 /\ Lev(n) \in 0 .. 4 /\ r + 1 <= Lev(n)  BY <3>1, <1>1
      <4>3. Start(r + 1) <= Start(Lev(n)) /\ Start(r + 1) \in Nat /\ Start(Lev(n)) <= n /\ Start(Lev(n)) \in Nat
        BY <4>2, StartsUp, LevIs
      <4>4. Start(r) \in Nat  BY Widths
      <4> QED BY <4>1, <4>3, <4>4, <1>1
    <3>3. node[Roots[r]] = at[Root(r)] /\ Root(r) \in DOMAIN at  BY <3>2, <2>1, <1>1 DEF File, Shape, Reg
    <3>4. at2[Root(r)] = at[Root(r)] /\ Root(r) \in DOMAIN at2  BY <3>2, <3>3, <2>1 DEF Open, Opened
    <3>5. at3[Root(r)] = at2[Root(r)]  BY <3>4, <2>2 DEF With
    <3> QED BY <3>3, <3>4, <3>5, <2>4, <1>3
  <2> QED BY <2>3, <2>4
<1>6. File(g2, G, at3, node2) /\ Taken(f, F, at, n, {}, g2, G, at3) /\ Opened(at, at3, n, 0)
  BY <1>4, <1>5, OpenEnd
<1> HIDE DEF at3
<1>7. Grown(f, F, at, node, g2, G, at3, node2)
  <2>1. node2.blocks = n + 1  BY <1>3
  <2> QED BY <2>1, <1>6, GrownEnd
<1> QED BY <1>7

\* The state of the loop of fs_write, going on or stopped.
Writing(f, node) == [fs |-> f, node |-> node, ok |-> TRUE]
Stopped(f, node) == [fs |-> f, node |-> node, ok |-> FALSE]

\* The file has its greatest size: the block that was allocated is lost.
LEMMA GrownFull ==
  ASSUME NEW f, NEW F, NEW at, NEW node, File(f, F, at, node), node.blocks = MaxBlocks, NEW b \in F, NEW g, FreeIs(g, F \ {b}),
         SameBut(f.blk, g.blk, {b})
  PROVE  Grown(f, F, at, node, g, F \ {b}, at, node)
<1> DEFINE G == F \ {b}
<1>1. File(g, G, at, node) /\ Taken(f, F, at, node.blocks, {b}, g, G, at)  BY OpenStart
<1>2. G \subseteq F  OBVIOUS
<1> HIDE DEF G
<1>3. Turn(f, F, at, g, G, at)  BY <1>1 DEF Taken, Turn
<1>4. node.blocks <= node.blocks /\ ~(node.blocks < MaxBlocks)  BY Starts
<1>5. Grown(f, F, at, node, g, G, at, node)  BY <1>1, <1>2, <1>3, <1>4 DEF Grown
<1> QED BY <1>5 DEF G

\* The block has been allocated: add_datablock_to_inode and write_data_block.
LEMMA AppendTree ==
  ASSUME NEW f, NEW F, NEW at, NEW node, File(f, F, at, node), NEW n, n = node.blocks, n \in 0 .. (MaxBlocks - 1), n >= SingleStart,
         NEW b \in F, NEW g, FreeIs(g, F \ {b}), SameBut(f.blk, g.blk, {b}),
         NEW added, added = add_datablock_to_inode(g, node, b)
  PROVE  \E f2, F2, at2, node2 :
           /\ Grown(f, F, at, node, f2, F2, at2, node2)
           /\ \/ added = Stopped(f2, node2)
              \/ \E g1 : added = Writing(g1, node2) /\ f2 = write_data_block(g1, b, FileData)
<1> DEFINE G == F \ {b}
           st == WayDown(g, node, n)
           L == Lev(n)
           rp == WayRoot(g, node, n).ptr
           node1 == [node EXCEPT ![Roots[L]] = rp]
<1>1. node \in InodeStruct /\ L \in 1 .. 3 /\ Start(L) <= n /\ Start(L) \in Nat
  BY FileIs, AncRoot, LevIs
<1>2. Open(f, F, at, n, b, g, G, at, L + 1)  BY OpenStart
<1>4. Rerooted(node, node1, L, rp)  BY DEF Rerooted
<1>8. st = WayDown(g, node, n) /\ Rerooted(node, node1, Lev(n), WayRoot(g, node, n).ptr)  BY <1>4
<1> HIDE DEF st, rp, node1
<1>9. Adds(add_datablock_to_inode(g, node, b), st, node1, n, b)  BY <1>1, <1>8, AddIs
<1>3. /\ ~st.ok => added = [fs |-> st.fs, ok |-> FALSE, node |-> node1]
      /\ st.ok /\ ~(st.ptr <= 0) =>
           added = [fs |-> write_data_block(st.fs, st.ptr, [st.fs.blk[st.ptr] EXCEPT ![Slot(Anc(n, 0))] = b]),
                    ok |-> TRUE, node |-> [node1 EXCEPT !.blocks = n + 1]]
  BY <1>9 DEF Adds
<1> HIDE DEF G, L
<1>5. /\ Arrived(f, F, at, n, b, 1, rp, st) \/ Stuck(f, F, at, n, b, 1, st)
      /\ rp \in Int /\ (n # Start(L) => rp = node[Roots[L]])
  BY <1>2, WayArrives DEF st, rp, L
<1>6. CASE Stuck(f, F, at, n, b, 1, st)
  <2>1. ~st.ok  BY <1>6 DEF Stuck
  <2>2. added = Stopped(st.fs, node1)  BY <2>1, <1>3 DEF Writing, Stopped
  <2>3. Start(L) < n => rp = node[Roots[L]]  BY <1>1, <1>5
  <2>4. Unmoved(node, node1)  BY <2>3, <1>1, <1>4, <1>5, RootSet
  <2>5. \E at2 : Grown(f, F, at, node, st.fs, {}, at2, node1)  BY <2>4, <1>6, StuckGrown
  <2> QED BY <2>2, <2>5
<1>7. CASE Arrived(f, F, at, n, b, 1, rp, st)
  <2>1. PICK h, H, at2 :
          /\ Open(f, F, at, n, b, h, H, at2, 1)
          /\ st = [fs |-> h, ptr |-> at2[Anc(n, 1)], ok |-> TRUE] /\ at2[Anc(n, L)] = rp
    BY <1>7 DEF Arrived, L
  <2> DEFINE p == at2[Anc(n, 1)]
             k == Slot(Anc(n, 0))
             g1 == write_data_block(h, p, [h.blk[p] EXCEPT ![k] = b])
             f2 == write_data_block(g1, b, FileData)
             node2 == [node1 EXCEPT !.blocks = n + 1]
  <2>2. st.fs = h /\ st.ptr = p /\ st.ok = TRUE  BY <2>1
  <2>3. FreeIs(f2, H) /\ Linked(h, f2, at2, n, 0, b) /\ p > 0
    <3>1. p = at2[Anc(n, 1)] /\ k = Slot(Anc(n, 0)) /\ g1 = write_data_block(h, p, [h.blk[p] EXCEPT ![k] = b])
          /\ f2 = write_data_block(g1, b, FileData)
      OBVIOUS
    <3> HIDE DEF p, k, g1, f2
    <3> QED BY <3>1, <2>1, LeafLinked
  <2>4. p \in Nat
    <3>1. Placed(at2) /\ Opened(at, at2, n, 1)  BY <2>1 DEF Open
    <3>2. 1 \in 1 .. Lev(n)  BY <1>1 DEF L
    <3>3. Anc(n, 1) \in DOMAIN at2  BY <3>1, <3>2 DEF Opened
    <3> QED BY <3>1, <3>3, PoolIs DEF Placed
  <2>5. ~(p <= 0)  BY <2>3, <2>4
  <2>6. added = [fs |-> write_data_block(h, p, [h.blk[p] EXCEPT ![k] = b]), ok |-> TRUE, node |-> node2]
    <3> HIDE DEF p, k, node2
    <3> QED BY <2>2, <2>5, <1>3 DEF k, node2
  <2>7. added = Writing(g1, node2)
    <3>1. added = [fs |-> g1, ok |-> TRUE, node |-> node2]  BY <2>6
    <3> HIDE DEF g1, node2
    <3> QED BY <3>1 DEF Writing, Stopped
  <2> HIDE DEF f2, node2
  <2>8. \E at3 : Grown(f, F, at, node, f2, H, at3, node2)
    BY <2>1, <2>3, <1>4, <1>5, ArrivedGrown DEF node2, L
  <2>9. PICK at3 : Grown(f, F, at, node, f2, H, at3, node2)
    BY <2>8
  <2>10. f2 = write_data_block(g1, b, FileData)  BY DEF f2
  <2> HIDE DEF g1
  <2> QED BY <2>7, <2>9, <2>10
<1> QED BY <1>5, <1>6, <1>7

\* What the loop of fs_write has after some rounds.
WritesOn(f, F, at, node, st) ==
  \E f2, F2, at2, node2 :
    /\ Grown(f, F, at, node, f2, F2, at2, node2)
    /\ st = Writing(f2, node2) \/ st = Stopped(f2, node2)

\* The parts of such a state.
LEMMA WritingParts ==
  ASSUME NEW f, NEW node, NEW st, st = Writing(f, node)
  PROVE  st.fs = f /\ st.node = node /\ st.ok
  BY DEF Writing

\* The parts of a state that was stopped.
LEMMA StoppedParts ==
  ASSUME NEW f, NEW node, NEW st, st = Stopped(f, node)
  PROVE  st.fs = f /\ st.node = node /\ ~st.ok
  BY DEF Stopped

\* With another disk.
LEMMA WritingSetIs ==
  ASSUME NEW f, NEW node, NEW g
  PROVE  [Writing(f, node) EXCEPT !.fs = g] = Writing(g, node)
<1> DEFINE st == Writing(f, node)
           r == [st EXCEPT !.fs = g]
<1>1. st = [fs |-> f, node |-> node, ok |-> TRUE]  BY DEF Writing
<1> HIDE DEF st
<1>2. r = [st EXCEPT !.fs = g]  OBVIOUS
<1> HIDE DEF r
<1>3. r = [fs |-> g, node |-> node, ok |-> TRUE]  BY <1>1, <1>2
<1> QED BY <1>3 DEF Writing, r, st

\* The disk has no block left.
LEMMA WritingStopIs ==
  ASSUME NEW f, NEW node, NEW g
  PROVE  [Writing(f, node) EXCEPT !.fs = g, !.ok = FALSE] = Stopped(g, node)
<1> DEFINE st == Writing(f, node)
           r == [st EXCEPT !.fs = g, !.ok = FALSE]
<1>1. st = [fs |-> f, node |-> node, ok |-> TRUE]  BY DEF Writing
<1> HIDE DEF st
<1>2. r = [st EXCEPT !.fs = g, !.ok = FALSE]  OBVIOUS
<1> HIDE DEF r
<1>3. r = [fs |-> g, node |-> node, ok |-> FALSE]  BY <1>1, <1>2
<1> QED BY <1>3 DEF Stopped, r, st

\* The same, for a state by its name.
LEMMA WritingSet ==
  ASSUME NEW f, NEW node, NEW st, st = Writing(f, node), NEW g, NEW st2, st2 = [st EXCEPT !.fs = g]
  PROVE  st2 = Writing(g, node)
  BY Zenon, WritingSetIs

\* The same, when the disk has no block left.
LEMMA WritingStop ==
  ASSUME NEW f, NEW node, NEW st, st = Writing(f, node), NEW g, NEW st2, st2 = [st EXCEPT !.fs = g, !.ok = FALSE]
  PROVE  st2 = Stopped(g, node)
  BY Zenon, WritingStopIs

\* One round of it that is not stopped.
LEMMA AppendOne ==
  ASSUME NEW f, NEW F, NEW at, NEW node, File(f, F, at, node)
  PROVE  WritesOn(f, F, at, node, AppendBlock(Writing(f, node)))
<1> DEFINE al == allocate_data_block(f)
           b == al.ret
           g == al.fs
           added == add_datablock_to_inode(g, node, b)
           st == Writing(f, node)
           next == AppendBlock(st)
           n == node.blocks
<1>1. FreeIs(f, F) /\ node \in InodeStruct /\ n \in 0 .. MaxBlocks /\ n \in Nat  BY FileIs
<1>0. st = Writing(f, node)  OBVIOUS
<1>2. st.fs = f /\ st.node = node /\ st.ok
  <2> HIDE DEF st
  <2> QED BY <1>0, WritingParts
<1>3. next =
        IF b <= 0 THEN [st EXCEPT !.fs = g, !.ok = FALSE]
        ELSE IF ~added.ok THEN added
        ELSE [added EXCEPT !.fs = write_data_block(added.fs, b, FileData)]
  <2> HIDE DEF st
  <2> QED BY <1>2 DEF AppendBlock
<1> HIDE DEF next, st
<1>4. \/ F = {} /\ al = [fs |-> f, ret |-> -1]
      \/ b \in F /\ b \in Pool /\ FreeIs(g, F \ {b}) /\ SameBut(f.blk, g.blk, {b})
  BY <1>1, HandOut
<1> HIDE DEF al
<1>5. CASE F = {} /\ al = [fs |-> f, ret |-> -1]
  <2>1. g = f /\ b = -1 /\ b <= 0  BY <1>5
  <2> HIDE DEF g, b
  <2>2. next = [st EXCEPT !.fs = f, !.ok = FALSE]  BY <2>1, <1>3
  <2>3. next = Stopped(f, node)
    <3> HIDE DEF st
    <3> QED BY <2>2, <1>0, WritingStop
  <2>4. Grown(f, F, at, node, f, F, at, node)  BY GrownNone
  <2> QED BY <2>3, <2>4 DEF WritesOn, next, st
<1>6. CASE b \in F /\ b \in Pool /\ FreeIs(g, F \ {b}) /\ SameBut(f.blk, g.blk, {b})
  <2>1. ~(b <= 0)  BY <1>6, PoolIs
  <2> HIDE DEF g, b
  <2>2. CASE n < NUM_DIRECT_BLOCKS
    <3> DEFINE node2 == [node EXCEPT !.directAddresses[n] = b, !.blocks = n + 1]
               g2 == write_data_block(g, b, FileData)
    <3>1. added = [fs |-> g, ok |-> TRUE, node |-> node2]  BY <2>2 DEF add_datablock_to_inode
    <3>2. n = node.blocks /\ node2 = [node EXCEPT !.directAddresses[n] = b, !.blocks = n + 1] /\ g2 = write_data_block(g, b, FileData)
      OBVIOUS
    <3> HIDE DEF added, node2, g2, n
    <3>3. \E at2 : Grown(f, F, at, node, g2, F \ {b}, at2, node2)  BY <3>2, <2>2, <1>6, AppendDirect
    <3>4. added = Writing(g, node2)  BY <3>1 DEF Writing, Stopped
    <3>5. next = [Writing(g, node2) EXCEPT !.fs = g2]
      <4>1. added.ok /\ added.fs = g  BY <3>4, WritingParts
      <4>2. next = [added EXCEPT !.fs = g2]  BY <4>1, <1>3, <2>1, <3>2
      <4> QED BY <4>2, <3>4
    <3>6. next = Writing(g2, node2)
      <4> DEFINE w == Writing(g, node2)
      <4>1. w = Writing(g, node2) /\ next = [w EXCEPT !.fs = g2]  BY <3>5
      <4> HIDE DEF w
      <4> QED BY <4>1, WritingSet
    <3> QED BY <3>3, <3>6 DEF WritesOn, next, st
  <2>3. CASE n >= MaxBlocks
    <3>1. ~(n < NUM_DIRECT_BLOCKS) /\ n = MaxBlocks  BY <2>3, <1>1, Starts
    <3>2. added = [fs |-> g, ok |-> FALSE, node |-> node]  BY <2>3, <3>1 DEF add_datablock_to_inode
    <3> HIDE DEF added
    <3>3. added = Stopped(g, node)  BY <3>2 DEF Writing, Stopped
    <3>4. next = Stopped(g, node)  BY <3>3, <2>1, <1>3, StoppedParts
    <3>5. Grown(f, F, at, node, g, F \ {b}, at, node)  BY <3>1, <1>6, GrownFull
    <3> QED BY <3>4, <3>5 DEF WritesOn, next, st
  <2>4. CASE ~(n < NUM_DIRECT_BLOCKS) /\ ~(n >= MaxBlocks)
    <3>1. n >= SingleStart /\ n \in 0 .. (MaxBlocks - 1)  BY <2>4, <1>1, Starts
    <3>2. added = add_datablock_to_inode(g, node, b) /\ n = node.blocks  OBVIOUS
    <3> HIDE DEF added, n
    <3>3. \E f2, F2, at2, node2 :
            /\ Grown(f, F, at, node, f2, F2, at2, node2)
            /\ \/ added = Stopped(f2, node2)
               \/ \E g1 : added = Writing(g1, node2) /\ f2 = write_data_block(g1, b, FileData)
      BY <3>1, <3>2, <1>6, AppendTree
    <3>4. PICK f2, F2, at2, node2 :
            /\ Grown(f, F, at, node, f2, F2, at2, node2)
            /\ \/ added = Stopped(f2, node2)
               \/ \E g1 : added = Writing(g1, node2) /\ f2 = write_data_block(g1, b, FileData)
      BY <3>3
    <3>5. CASE added = Stopped(f2, node2)
      <4>1. next = Stopped(f2, node2)  BY <3>5, <2>1, <1>3, StoppedParts
      <4> QED BY <4>1, <3>4 DEF WritesOn, next, st
    <3>6. CASE \E g1 : added = Writing(g1, node2) /\ f2 = write_data_block(g1, b, FileData)
      <4>1. PICK g1 : added = Writing(g1, node2) /\ f2 = write_data_block(g1, b, FileData)
        BY <3>6
      <4>2. added.ok /\ added.fs = g1  BY <4>1, WritingParts
      <4>3. next = [added EXCEPT !.fs = f2]  BY <4>1, <4>2, <1>3, <2>1
      <4>4. next = Writing(f2, node2)  BY <4>3, <4>1, WritingSet
      <4> QED BY <4>4, <3>4 DEF WritesOn, next, st
    <3> QED BY <3>4, <3>5, <3>6
  <2> QED BY <2>2, <2>3, <2>4
<1> QED BY <1>4, <1>5, <1>6

\* A file that grew and grew again.
LEMMA GrownMore ==
  ASSUME NEW f, NEW F, NEW at, NEW node, NEW f1, NEW F1, NEW at1, NEW node1, NEW f2, NEW F2, NEW at2, NEW node2,
         node.blocks \in Nat,
         Grown(f, F, at, node, f1, F1, at1, node1), Grown(f1, F1, at1, node1, f2, F2, at2, node2)
  PROVE  Grown(f, F, at, node, f2, F2, at2, node2)
<1>1. node1.blocks \in Nat /\ node2.blocks \in Nat /\ MaxBlocks \in Nat  BY FileIs, Starts DEF Grown
<1>2. File(f2, F2, at2, node2) /\ F2 \subseteq F /\ node.blocks <= node2.blocks  BY <1>1 DEF Grown
<1>3. Turn(f, F, at, f2, F2, at2)  BY DEF Grown, Turn, SameBut
<1>4. \A k \in 0 .. (node.blocks - 1) : at2[Anc(k, 0)] = at[Anc(k, 0)]
  <2>1. ASSUME NEW k \in 0 .. (node.blocks - 1) PROVE at2[Anc(k, 0)] = at[Anc(k, 0)]
    <3>1. at1[Anc(k, 0)] = at[Anc(k, 0)]  BY DEF Grown
    <3>2. k \in 0 .. (node1.blocks - 1)  BY <1>1 DEF Grown
    <3>3. at2[Anc(k, 0)] = at1[Anc(k, 0)]  BY <3>2 DEF Grown
    <3> QED BY <3>1, <3>3
  <2> QED BY <2>1
<1>5. ASSUME DOMAIN at = Reg(node.blocks), F2 # {}, node2.blocks < MaxBlocks
      PROVE  DOMAIN at2 = Reg(node2.blocks) /\ F2 \union Img(at2, Sites) = F \union Img(at, Sites)
  <2>1. F1 # {} /\ node1.blocks < MaxBlocks  BY <1>5, <1>1 DEF Grown
  <2>2. DOMAIN at1 = Reg(node1.blocks) /\ F1 \union Img(at1, Sites) = F \union Img(at, Sites)
    BY <2>1, <1>5 DEF Grown
  <2>3. DOMAIN at2 = Reg(node2.blocks) /\ F2 \union Img(at2, Sites) = F1 \union Img(at1, Sites)
    BY <2>2, <1>5 DEF Grown
  <2> QED BY <2>2, <2>3
<1> QED BY <1>2, <1>3, <1>4, <1>5 DEF Grown

\* One round of the loop.
LEMMA AppendsNext ==
  ASSUME NEW f, NEW F, NEW at, NEW node, node.blocks \in Nat, NEW st, WritesOn(f, F, at, node, st)
  PROVE  WritesOn(f, F, at, node, AppendBlock(st))
<1>1. PICK f1, F1, at1, node1 :
        Grown(f, F, at, node, f1, F1, at1, node1) /\ (st = Writing(f1, node1) \/ st = Stopped(f1, node1))
  BY DEF WritesOn
<1>2. CASE st = Stopped(f1, node1)
  <2>1. ~st.ok  BY <1>2, StoppedParts
  <2>2. AppendBlock(st) = st  BY <2>1 DEF AppendBlock
  <2> QED BY <2>2
<1>3. CASE st = Writing(f1, node1)
  <2>1. Grown(f, F, at, node, f1, F1, at1, node1) /\ File(f1, F1, at1, node1)  BY <1>1 DEF Grown
  <2>2. WritesOn(f1, F1, at1, node1, AppendBlock(st))  BY <2>1, <1>3, AppendOne
  <2>3. PICK f2, F2, at2, node2 :
          Grown(f1, F1, at1, node1, f2, F2, at2, node2) /\ (AppendBlock(st) = Writing(f2, node2) \/ AppendBlock(st) = Stopped(f2, node2))
    BY <2>2 DEF WritesOn
  <2>4. Grown(f, F, at, node, f2, F2, at2, node2)  BY <2>1, <2>3, GrownMore
  <2> QED BY <2>3, <2>4 DEF WritesOn
<1> QED BY <1>1, <1>2, <1>3

\* The whole loop: a file that grew, and whatever else was not its own is as before.
LEMMA Appends ==
  ASSUME NEW f, NEW F, NEW at, NEW node, File(f, F, at, node), NEW count, NEW n \in Nat, n = count
  PROVE  WritesOn(f, F, at, node,
           FoldLeft(LAMBDA st, k : AppendBlock(st), [fs |-> f, node |-> node, ok |-> TRUE], [k \in 1 .. count |-> k]))
<1> DEFINE st0 == Writing(f, node)
           p == AppendLoop
           S == {m \in 0 .. n : WritesOn(f, F, at, node, Folded(p, st0, m))}
<1>1. node.blocks \in Nat  BY FileIs
<1>2. /\ Folded(p, st0, 0) = st0
      /\ \A m \in Nat : Folded(p, st0, m + 1) = AppendBlock(Folded(p, st0, m))
  <2>1. /\ Folded(p, st0, 0) = st0
        /\ \A m \in Nat : Folded(p, st0, m + 1) = Round(p, Folded(p, st0, m), m + 1)
    <3> HIDE DEF p, st0
    <3> QED BY FoldStep
  <2>2. \A s, k : Round(p, s, k) = AppendBlock(s)  BY DEF Round, AppendLoop
  <2> HIDE DEF p, st0
  <2> QED BY <2>1, <2>2
<1>3. 0 \in S
  <2>1. Grown(f, F, at, node, f, F, at, node)  BY GrownNone
  <2>2. WritesOn(f, F, at, node, Folded(p, st0, 0))  BY <2>1, <1>2 DEF WritesOn
  <2> QED BY <2>2
<1>4. ASSUME NEW m \in 0 .. (n - 1), m \in S PROVE m + 1 \in S
  <2> HIDE DEF st0, p
  <2>1. WritesOn(f, F, at, node, Folded(p, st0, m)) /\ m \in Nat /\ m + 1 \in 0 .. n  BY <1>4
  <2>2. WritesOn(f, F, at, node, AppendBlock(Folded(p, st0, m)))  BY <2>1, <1>1, AppendsNext
  <2> QED BY <2>1, <2>2, <1>2
<1>5. n \in S
  <2> HIDE DEF S
  <2>1. \A m \in 0 .. n : m \in S  BY <1>3, <1>4, Induction
  <2> QED BY <2>1
<1>6. FoldLeft(LAMBDA st, k : AppendBlock(st), st0, [k \in 1 .. count |-> k]) = Folded(p, st0, n)
  <2> HIDE DEF st0
  <2> QED BY AppendFold
<1> QED BY <1>5, <1>6 DEF Writing, Stopped

--------------------
(* All files *)

\* Such a function.
LEMMA UpdatedIs ==
  ASSUME NEW g, NEW i \in DOMAIN g, NEW v
  PROVE  Updated(g, [j \in DOMAIN g |-> IF j = i THEN v ELSE g[j]], i, v)
  BY DEF Updated

\* The blocks of a file are in the pool and not free.
LEMMA ImgIs ==
  ASSUME NEW f, NEW F, NEW at, NEW node, File(f, F, at, node)
  PROVE  \A q \in DOMAIN at : q \in Sites /\ at[q] \in Img(at, Sites) /\ at[q] \in Pool /\ at[q] \in DataRegion /\ at[q] \notin F
<1>1. Placed(at) /\ (\A q \in DOMAIN at : at[q] \notin F)  BY FileIs DEF File
<1> QED BY <1>1, PoolIs DEF Placed, Img

\* A file that a request on another file did not touch.
LEMMA FileUntouched ==
  ASSUME NEW f, NEW F, NEW at, NEW node, NEW at0, NEW node0, File(f, F, at, node), File(f, F, at0, node0),
         NEW f2, NEW F2, NEW at2, NEW node2, File(f2, F2, at2, node2), Turn(f, F, at, f2, F2, at2),
         Img(at, Sites) \intersect Img(at0, Sites) = {}
  PROVE  File(f2, F2, at0, node0) /\ Img(at2, Sites) \intersect Img(at0, Sites) = {}
<1>1. FreeIs(f2, F2) /\ node0 \in InodeStruct /\ Shape(at0, node0.blocks)  BY DEF File
<1>2. F2 \union Img(at2, Sites) \subseteq F \union Img(at, Sites) /\ SameBut(f.blk, f2.blk, F \union Img(at, Sites))
  BY DEF Turn
<1>3. \A q \in DOMAIN at0 : at0[q] \in DataRegion /\ at0[q] \notin F \union Img(at, Sites)
  <2>1. \A q \in DOMAIN at0 : at0[q] \in Img(at0, Sites) /\ at0[q] \in DataRegion /\ at0[q] \notin F
    BY ImgIs
  <2> QED BY <2>1
<1>4. ASSUME NEW q \in DOMAIN at0 PROVE at0[q] \notin F2 /\ (q[2] # 0 => Points(f2.blk, at0, q))
  <2>1. at0[q] \notin F2 /\ f2.blk[at0[q]] = f.blk[at0[q]]  BY <1>2, <1>3 DEF SameBut
  <2>2. q[2] # 0 => Points(f.blk, at0, q)  BY DEF File
  <2> QED BY <2>1, <2>2 DEF Points
<1>5. File(f2, F2, at0, node0)  BY <1>1, <1>4 DEF File
<1>6. \A b \in Img(at0, Sites) : b \notin F  BY ImgIs DEF Img
<1> QED BY <1>2, <1>5, <1>6

\* A request on inode i.
LEMMA StoredNext ==
  ASSUME NEW f, NEW F, NEW at, NEW node, Stored(f, F, at, node), NEW i \in Inode,
         NEW f2, NEW F2, NEW at2, NEW node2, File(f2, F2, at2, node2), Turn(f, F, at[i], f2, F2, at2),
         NEW atN, Updated(at, atN, i, at2), NEW nodeN, Updated(node, nodeN, i, node2)
  PROVE  Stored(f2, F2, atN, nodeN)
<1>1. FreeIs(f2, F2)  BY FileIs
<1>2. DOMAIN atN = Inode /\ DOMAIN nodeN = Inode /\ atN[i] = at2 /\ nodeN[i] = node2
      /\ \A j \in Inode : j # i => atN[j] = at[j] /\ nodeN[j] = node[j]
  BY DEF Updated, Stored
<1>3. ASSUME NEW j \in Inode, j # i
      PROVE  File(f2, F2, at[j], node[j]) /\ Img(at2, Sites) \intersect Img(at[j], Sites) = {}
  <2>1. File(f, F, at[i], node[i]) /\ File(f, F, at[j], node[j]) /\ Img(at[i], Sites) \intersect Img(at[j], Sites) = {}
    BY <1>3 DEF Stored
  <2> QED BY <2>1, FileUntouched
<1>4. ASSUME NEW j \in Inode PROVE File(f2, F2, atN[j], nodeN[j])
  BY <1>2, <1>3
<1>5. ASSUME NEW j \in Inode, NEW k \in Inode, j # k PROVE Img(atN[j], Sites) \intersect Img(atN[k], Sites) = {}
  <2>1. CASE j = i
    BY <2>1, <1>2, <1>3, <1>5
  <2>2. CASE k = i
    BY <2>2, <1>2, <1>3, <1>5
  <2>3. CASE j # i /\ k # i
    BY <2>3, <1>2, <1>5 DEF Stored
  <2> QED BY <2>1, <2>2, <2>3
<1> QED BY <1>1, <1>2, <1>4, <1>5 DEF Stored

\* It loses nothing when it loses nothing of the file.
LEMMA ExactNext ==
  ASSUME NEW F, NEW at, NEW node, DOMAIN at = Inode, DOMAIN node = Inode, Exact(F, at, node), NEW i \in Inode,
         NEW F2, NEW at2, NEW node2, DOMAIN at2 = Reg(node2.blocks),
         F2 \union Img(at2, Sites) = F \union Img(at[i], Sites),
         NEW atN, Updated(at, atN, i, at2), NEW nodeN, Updated(node, nodeN, i, node2)
  PROVE  Exact(F2, atN, nodeN)
<1>1. /\ atN[i] = at2 /\ nodeN[i] = node2
      /\ \A j \in Inode : j # i => atN[j] = at[j] /\ nodeN[j] = node[j]
  BY DEF Updated
<1>2. \A j \in Inode : DOMAIN atN[j] = Reg(nodeN[j].blocks)  BY <1>1 DEF Exact
<1>3. ASSUME NEW b \in Pool PROVE b \in F2 \/ \E j \in Inode : b \in Img(atN[j], Sites)
  <2>1. CASE b \in F \union Img(at[i], Sites)
    BY <2>1, <1>1
  <2>2. CASE \E j \in Inode : b \in Img(at[j], Sites) /\ j # i
    BY <2>2, <1>1
  <2> QED BY <2>1, <2>2 DEF Exact
<1> QED BY <1>2, <1>3 DEF Exact

\* Nothing is at a site of an empty file.
LEMMA RegNone == Reg(0) = {} /\ Stale(0) = {}
<1>1. \A q \in Sites : ~(First(q) < 0)  BY SiteIs
<1>2. ~(TripleStart < 0)  BY Starts
<1> QED BY <1>1, <1>2 DEF Reg, Stale

\* The empty inode is an inode without blocks.
LEMMA EmptyInodeIs == EmptyInode \in InodeStruct /\ EmptyInode.blocks = 0
<1>1. MaxBlocks \in Nat  BY Starts
<1> QED BY <1>1 DEF EmptyInode, InodeStruct

\* An inode without blocks may be emptied.
LEMMA FileEmpty ==
  ASSUME NEW f, NEW F, NEW at, NEW node, File(f, F, at, node), node.blocks = 0
  PROVE  File(f, F, at, EmptyInode)
<1>1. EmptyInode \in InodeStruct /\ EmptyInode.blocks = 0  BY EmptyInodeIs
<1>2. \A r \in 1 .. 3 : ~(Start(r) < 0)  BY Widths
<1> QED BY <1>1, <1>2 DEF File

\* A removal that is done completely.
Removable(node, n0) == n0 \in Nat /\ (n0 = 0 \/ <<node.blocks, n0>> \in CompleteTruncations)

\* What a removal leaves is such a file.
LEMMA RemovalLess ==
  ASSUME NEW f, NEW F, NEW at, NEW node, File(f, F, at, node), NEW n0, Removable(node, n0),
         NEW st, st = remove_datablocks_range_from_inode(f, node, n0)
  PROVE  \E f2, F2, at2, node2 :
           /\ st = Removing(f2, node2) /\ node2.blocks = n0
           /\ Lessened(f, F, at, node, f2, F2, at2, node2)
<1>0. n0 \in Nat /\ (n0 = 0 \/ <<node.blocks, n0>> \in CompleteTruncations)  BY DEF Removable
<1>1. Shrunk(f, F, at, node, n0, st)  BY <1>0, RemovalShrinks
<1>2. PICK f2, K, G, node2 :
        /\ st = Removing(f2, node2)
        /\ node2.blocks = n0
        /\ K \in SUBSET DOMAIN at
        /\ File(f2, F \union Img(at, G), Kept(at, K), node2)
        /\ Turn(f, F, at, f2, F \union Img(at, G), Kept(at, K))
        /\ DOMAIN at = Reg(node.blocks)
             => /\ K = Reg(n0)
                /\ (F \union Img(at, G)) \union Img(Kept(at, K), Sites) = F \union Img(at, Sites)
  BY <1>1 DEF Shrunk
<1> DEFINE F2 == F \union Img(at, G)
           at2 == Kept(at, K)
<1>3. DOMAIN at2 = K /\ \A q \in DOMAIN at2 : q \in DOMAIN at /\ at2[q] = at[q]  BY <1>2 DEF Kept
<1>4. n0 <= node.blocks
  <2>1. node.blocks \in Nat  BY FileIs
  <2>2. ASSUME <<node.blocks, n0>> \in CompleteTruncations PROVE n0 < node.blocks
    BY <2>2 DEF CompleteTruncations, AllTruncations
  <2> QED BY <1>0, <2>1, <2>2
<1>5. /\ File(f2, F2, at2, node2) /\ Turn(f, F, at, f2, F2, at2)
      /\ DOMAIN at = Reg(node.blocks)
           => DOMAIN at2 = Reg(node2.blocks) /\ F2 \union Img(at2, Sites) = F \union Img(at, Sites)
  BY <1>2, <1>3
<1> HIDE DEF F2, at2
<1>6. Lessened(f, F, at, node, f2, F2, at2, node2)  BY <1>2, <1>3, <1>4, <1>5 DEF Lessened
<1> QED BY <1>2, <1>6

\* A file that nothing happens to.
LEMMA LessNone ==
  ASSUME NEW f, NEW F, NEW at, NEW node, File(f, F, at, node)
  PROVE  Lessened(f, F, at, node, f, F, at, node)
<1>1. node.blocks \in Nat  BY FileIs
<1>2. Turn(f, F, at, f, F, at)  BY DEF Turn, SameBut
<1> QED BY <1>1, <1>2 DEF Lessened

\* The parts of the state of a removal.
LEMMA RemovingParts ==
  ASSUME NEW f, NEW node, NEW st, st = Removing(f, node)
  PROVE  st.fs = f /\ st.node = node /\ st.ok
  BY DEF Removing

\* After a removal the last block that stays is found.
LEMMA AfterFound ==
  ASSUME NEW f, NEW F, NEW at, NEW node, File(f, F, at, node), NEW n, node.blocks = n, NEW st, st.fs = f, st.node = node,
         NEW i
  PROVE  AfterRemoval(i, n, st) = st
<1>1. n \in Nat  BY FileIs
<1>2. CASE n > 0
  <2>1. n - 1 \in 0 .. (node.blocks - 1)  BY <1>1, <1>2
  <2> DEFINE k == n - 1
  <2>2. k \in 0 .. (node.blocks - 1) /\ Trustable(at, k, 0)  BY <2>1 DEF Trustable
  <2> HIDE DEF k
  <2>3. get_datablock_from_inode(f, node, k, 0).block = at[Anc(k, 0)]  BY <2>2, LookupIs
  <2>4. Lev(k) \in 0 .. 3  BY <2>2, WayIs, LevIs
  <2>5. at[Anc(k, 0)] > 0 /\ at[Anc(k, 0)] \in Nat  BY <2>2, <2>4, WayIs
  <2>6. ~(get_datablock_from_inode(st.fs, st.node, n - 1, 0).block <= 0)  BY <2>3, <2>5 DEF k
  <2> QED BY <2>6 DEF AfterRemoval
<1>3. CASE ~(n > 0)
  BY <1>3 DEF AfterRemoval
<1> QED BY <1>2, <1>3

--------------------
(* The requests *)

\* One inode is another.
LEMMA InodeSet ==
  ASSUME NEW i \in Inode, DOMAIN inode = Inode, NEW v, inode' = [inode EXCEPT ![i] = v]
  PROVE  Updated(inode, inode', i, v)
  BY DEF Updated

\* A request makes the file longer.
Grows(F, at, i) ==
  \E F2, at2 : /\ Grown(fs, F, at[i], inode[i], fs', F2, at2, inode'[i])
               /\ Updated(inode, inode', i, inode'[i])

\* A request makes the file shorter.
Shrinks(F, at, i) ==
  \E F2, at2 : /\ Lessened(fs, F, at[i], inode[i], fs', F2, at2, inode'[i])
               /\ Updated(inode, inode', i, inode'[i])

\* fs_write makes one file longer.
LEMMA WriteGrows ==
  ASSUME NEW F, NEW at, Stored(fs, F, at, inode), NEW i \in Inode, NEW count \in Growths, fs_write(i, count)
  PROVE  Grows(F, at, i)
<1> DEFINE st == FoldLeft(LAMBDA s, n : AppendBlock(s),
                          [fs |-> fs, node |-> inode[i], ok |-> TRUE], [n \in 1 .. count |-> n])
<1>1. File(fs, F, at[i], inode[i]) /\ DOMAIN inode = Inode  BY DEF Stored
<1>2. count \in Nat  BY RequestAssumption
<1>3. WritesOn(fs, F, at[i], inode[i], st)  BY <1>1, <1>2, Appends
<1>4. fs' = st.fs /\ inode' = [inode EXCEPT ![i] = st.node]  BY DEF fs_write, Store
<1> HIDE DEF st
<1>5. PICK f2, F2, at2, node2 :
        /\ Grown(fs, F, at[i], inode[i], f2, F2, at2, node2)
        /\ st = Writing(f2, node2) \/ st = Stopped(f2, node2)
  BY <1>3 DEF WritesOn
<1>6. st.fs = f2 /\ st.node = node2  BY <1>5, WritingParts, StoppedParts
<1>7. Updated(inode, inode', i, node2)  BY <1>1, <1>4, <1>6, InodeSet
<1>8. inode'[i] = node2 /\ fs' = f2  BY <1>4, <1>6, <1>7 DEF Updated
<1> QED BY <1>5, <1>7, <1>8 DEF Grows

\* fs_truncate makes one file shorter.
LEMMA TruncateShrinks ==
  ASSUME Truncations \subseteq CompleteTruncations,
         NEW F, NEW at, Stored(fs, F, at, inode), NEW i \in Inode, NEW n \in 0 .. (inode[i].blocks - 1), fs_truncate(i, n)
  PROVE  Shrinks(F, at, i)
<1> DEFINE st == remove_datablocks_range_from_inode(fs, inode[i], n)
           t == AfterRemoval(i, n, st)
<1>1. File(fs, F, at[i], inode[i]) /\ DOMAIN inode = Inode  BY DEF Stored
<1>2. Removable(inode[i], n)
  <2>1. <<inode[i].blocks, n>> \in CompleteTruncations /\ n \in Nat  BY DEF fs_truncate
  <2> QED BY <2>1 DEF Removable
<1>3. fs' = t.fs /\ inode' = [inode EXCEPT ![i] = t.node]  BY DEF fs_truncate, Truncated, Store
<1>4. st = remove_datablocks_range_from_inode(fs, inode[i], n)  OBVIOUS
<1> HIDE DEF st
<1>5. PICK f2, F2, at2, node2 :
        /\ st = Removing(f2, node2) /\ node2.blocks = n
        /\ Lessened(fs, F, at[i], inode[i], f2, F2, at2, node2)
  BY <1>1, <1>2, <1>4, RemovalLess
<1>6. st.fs = f2 /\ st.node = node2  BY <1>5, RemovingParts
<1>7. t = st
  <2>1. File(f2, F2, at2, node2)  BY <1>5 DEF Lessened
  <2> QED BY <2>1, <1>5, <1>6, AfterFound
<1> HIDE DEF t
<1>8. Updated(inode, inode', i, node2)  BY <1>1, <1>3, <1>6, <1>7, InodeSet
<1>9. inode'[i] = node2 /\ fs' = f2  BY <1>3, <1>6, <1>7, <1>8 DEF Updated
<1> QED BY <1>5, <1>8, <1>9 DEF Shrinks

\* fs_openFile leaves the files as they are: what it would truncate is empty.
LEMMA OpenShrinks ==
  ASSUME OpenTruncations \subseteq {0},
         NEW F, NEW at, Stored(fs, F, at, inode), NEW i \in Inode, fs_openFile(i)
  PROVE  Shrinks(F, at, i)
<1>1. File(fs, F, at[i], inode[i]) /\ DOMAIN inode = Inode  BY DEF Stored
<1>2. inode[i].blocks = 0  BY DEF fs_openFile
<1>3. fs' = fs /\ inode' = inode  BY <1>2 DEF fs_openFile
<1>4. Lessened(fs, F, at[i], inode[i], fs, F, at[i], inode[i])  BY <1>1, LessNone
<1>5. Updated(inode, inode', i, inode'[i])  BY <1>3 DEF Updated
<1> QED BY <1>3, <1>4, <1>5 DEF Shrinks

\* fs_unlink makes one file empty.
LEMMA UnlinkShrinks ==
  ASSUME NEW F, NEW at, Stored(fs, F, at, inode), NEW i \in Inode, fs_unlink(i)
  PROVE  Shrinks(F, at, i)
<1> DEFINE st == remove_datablocks_range_from_inode(fs, inode[i], 0)
           t == delete_inode(i, st)
<1>1. File(fs, F, at[i], inode[i]) /\ DOMAIN inode = Inode  BY DEF Stored
<1>2. fs' = t.fs /\ inode' = [inode EXCEPT ![i] = t.node]  BY DEF fs_unlink, Store
<1>3. st = remove_datablocks_range_from_inode(fs, inode[i], 0)  OBVIOUS
<1> HIDE DEF st
<1>4. PICK f2, F2, at2, node2 :
        /\ st = Removing(f2, node2) /\ node2.blocks = 0
        /\ Lessened(fs, F, at[i], inode[i], f2, F2, at2, node2)
  <2>1. Removable(inode[i], 0)  BY DEF Removable
  <2> QED BY <1>1, <1>3, <2>1, RemovalLess
<1>5. t.fs = f2 /\ t.node = EmptyInode
  <2>1. st = [fs |-> f2, node |-> node2, ok |-> TRUE]  BY <1>4 DEF Removing
  <2> QED BY <2>1 DEF delete_inode
<1> HIDE DEF t
<1>6. Lessened(fs, F, at[i], inode[i], f2, F2, at2, EmptyInode)
  <2>1. File(f2, F2, at2, node2)  BY <1>4 DEF Lessened
  <2>2. File(f2, F2, at2, EmptyInode)  BY <2>1, <1>4, FileEmpty
  <2>3. EmptyInode.blocks = node2.blocks  BY <1>4, EmptyInodeIs
  <2> QED BY <2>2, <2>3, <1>4 DEF Lessened
<1>7. Updated(inode, inode', i, EmptyInode)  BY <1>1, <1>2, <1>5, InodeSet
<1>8. inode'[i] = EmptyInode /\ fs' = f2  BY <1>2, <1>5, <1>7 DEF Updated
<1> QED BY <1>6, <1>7, <1>8 DEF Shrinks

--------------------
(* fs_read *)

\* The next block is below the same block of addresses, or at entry 0 of another one.
LEMMA NextSite ==
  ASSUME NEW k \in 0 .. (MaxBlocks - 1), NEW j, j = k + 1, j \in 0 .. (MaxBlocks - 1)
  PROVE  \/ Slot(Anc(j, 0)) = 0 \/ Lev(j) \in {0, 1}
         \/ Lev(j) = Lev(k) /\ Anc(j, 1) = Anc(k, 1)
<1> DEFINE q == Anc(j, 1)
<1>1. SUFFICES ASSUME Slot(Anc(j, 0)) # 0, Lev(j) \notin {0, 1}
               PROVE  Lev(j) = Lev(k) /\ q = Anc(k, 1)
  OBVIOUS
<1>2. /\ k \in Nat /\ j \in Nat /\ Lev(j) \in 0 .. 3 /\ Lev(j) \in 1 .. 3
      /\ Start(Lev(j)) <= j /\ j < Start(Lev(j) + 1) /\ Start(Lev(j)) \in Nat
  BY <1>1, LevIs
<1>3. 1 \in 1 .. Lev(j) /\ 0 \in 0 .. Lev(j) /\ 1 \in 0 .. Lev(j) /\ 1 - 1 = 0  BY <1>2
<1>4. /\ q \in Sites /\ q[1] = Lev(j) /\ q[2] = 1 /\ First(q) \in Nat /\ First(q) <= j /\ j < First(q) + W(1)
  BY <1>3, AncIs
<1>5. First(Anc(j, 0)) = j /\ Anc(j, 0)[3] = j - Start(Lev(j))  BY LeafIs
<1>6. First(q) # j  BY <1>1, <1>3, <1>5, AncDown
<1>7. W(1) \in Nat  BY Weights
<1>8. First(q) <= k /\ k < First(q) + W(1)  BY <1>2, <1>4, <1>6, <1>7
<1>9. Start(q[1]) <= First(q) /\ k < Start(q[1] + 1)
  <2>1. Start(q[1]) <= First(q)  BY <1>4, SiteIs
  <2>2. Start(Lev(j) + 1) \in Nat  BY <1>2, Widths
  <2> QED BY <2>1, <2>2, <1>2, <1>4
<1> HIDE DEF q
<1>10. q[1] = Lev(k) /\ q = Anc(k, q[2])
  <2>1. First(q) <= k /\ k < First(q) + W(q[2]) /\ k < Start(q[1] + 1)  BY <1>4, <1>8, <1>9
  <2> QED BY <2>1, <1>2, <1>4, AncOnly
<1> QED BY <1>4, <1>10

\* What a read of a file of N blocks has after m rounds, from block n on: the blocks, and a block of addresses that
\* the next lookup can trust.
ReadTo(at, N, n, m, st) ==
  /\ st.blocks = [j \in 1 .. m |-> at[Anc((n + j) - 1, 0)]]
  /\ n + m < N => Trustable(at, n + m, st.prev)

\* One round of it.
LEMMA ReadsNext ==
  ASSUME NEW f, NEW F, NEW at, NEW node, File(f, F, at, node), NEW n \in Nat, NEW m \in Nat, n + m < node.blocks,
         NEW st, ReadTo(at, node.blocks, n, m, st), NEW k, k = n + m
  PROVE  ReadTo(at, node.blocks, n, m + 1, ReadRound(f, node, st, k))
<1> DEFINE e(j) == at[Anc((n + j) - 1, 0)]
           found == get_datablock_from_inode(f, node, k, st.prev)
           st2 == ReadRound(f, node, st, k)
<1>1. k \in Nat /\ node.blocks \in 0 .. MaxBlocks /\ MaxBlocks \in Nat /\ k \in 0 .. (node.blocks - 1) /\ k \in 0 .. (MaxBlocks - 1)
  <2>1. node.blocks \in 0 .. MaxBlocks /\ MaxBlocks \in Nat  BY FileIs, Starts
  <2> QED BY <2>1
<1>2. st.blocks = [j \in 1 .. m |-> e(j)] /\ Trustable(at, k, st.prev)  BY DEF ReadTo
<1>3. /\ found.block = at[Anc(k, 0)]
      /\ found.prev = IF Lev(k) \in {0, 1} THEN st.prev ELSE at[Anc(k, 1)]
  BY <1>1, <1>2, LookupIs
<1>4. st2.blocks = Append(st.blocks, found.block) /\ st2.prev = found.prev  BY DEF ReadRound
<1> HIDE DEF found, st2
<1>5. e(m + 1) = at[Anc(k, 0)]
  <2>1. (n + (m + 1)) - 1 = k  OBVIOUS
  <2> QED BY <2>1
<1> HIDE DEF e
<1>6. st2.blocks = [j \in 1 .. (m + 1) |-> e(j)]
  <2>1. st2.blocks = Append([j \in 1 .. m |-> e(j)], e(m + 1))  BY <1>2, <1>3, <1>4, <1>5
  <2> QED BY <2>1
<1>7. ASSUME k + 1 < node.blocks PROVE Trustable(at, k + 1, st2.prev)
  <2> DEFINE j == k + 1
  <2>1. j = k + 1 /\ j \in 0 .. (MaxBlocks - 1)  BY <1>1, <1>7
  <2> HIDE DEF j
  <2>2. \/ Slot(Anc(j, 0)) = 0 \/ Lev(j) \in {0, 1}
        \/ Lev(j) = Lev(k) /\ Anc(j, 1) = Anc(k, 1)
    BY <2>1, <1>1, NextSite
  <2>3. Trustable(at, j, st2.prev)  BY <2>2, <1>3, <1>4 DEF Trustable
  <2> QED BY <2>3 DEF j
<1>8. n + (m + 1) = k + 1  BY <1>1
<1> QED BY <1>6, <1>7, <1>8 DEF ReadTo, e, st2

\* All rounds: the blocks of the file from block n on.
LEMMA ReadsAll ==
  ASSUME NEW f, NEW F, NEW at, NEW node, File(f, F, at, node), NEW n \in 0 .. (node.blocks - 1),
         NEW upto, upto = node.blocks - n
  PROVE  ReadOf(f, node, n, upto).blocks = [j \in 1 .. upto |-> at[Anc((n + j) - 1, 0)]]
<1> DEFINE base == [blocks |-> << >>, prev |-> 0]
           p == ReadLoop(f, node, n)
           N == node.blocks
           S == {m \in 0 .. upto : ReadTo(at, N, n, m, Folded(p, base, m))}
<1>1. N \in Nat /\ n \in Nat /\ upto \in Nat /\ n + upto = N
  <2>1. node.blocks \in Nat  BY FileIs
  <2> QED BY <2>1
<1>2. ReadOf(f, node, n, upto) = Folded(p, base, upto)  BY <1>1, ReadFold
<1>3. /\ Folded(p, base, 0) = base
      /\ \A m \in Nat : Folded(p, base, m + 1) = Round(p, Folded(p, base, m), m + 1)
  <2> HIDE DEF p, base
  <2> QED BY FoldStep
<1>4. \A s, k : Round(p, s, k) = ReadRound(f, node, s, n + k - 1)  BY DEF Round, ReadLoop
<1>5. base.blocks = << >> /\ base.prev = 0  OBVIOUS
<1> HIDE DEF p, base
<1>6. 0 \in S
  <2>1. Trustable(at, n + 0, base.prev)  BY <1>5 DEF Trustable
  <2>2. base.blocks = [j \in 1 .. 0 |-> at[Anc((n + j) - 1, 0)]]  BY <1>5
  <2>3. ReadTo(at, N, n, 0, base)  BY <2>1, <2>2 DEF ReadTo
  <2> QED BY <2>3, <1>1, <1>3
<1>7. ASSUME NEW m \in 0 .. (upto - 1), m \in S PROVE m + 1 \in S
  <2> DEFINE st == Folded(p, base, m)
             k == n + m
  <2>1. m \in Nat /\ m + 1 \in 0 .. upto /\ n + m < node.blocks /\ k = n + m  BY <1>1
  <2>2. ReadTo(at, node.blocks, n, m, st)  BY <1>7
  <2>3. n + (m + 1) - 1 = k  BY <1>1, <2>1
  <2>4. Folded(p, base, m + 1) = ReadRound(f, node, st, k)  BY <1>3, <1>4, <2>1, <2>3
  <2> HIDE DEF st, k
  <2>5. ReadTo(at, node.blocks, n, m + 1, ReadRound(f, node, st, k))  BY <1>1, <2>1, <2>2, ReadsNext
  <2> QED BY <2>1, <2>4, <2>5
<1>8. upto \in S
  <2> HIDE DEF S
  <2>1. \A m \in 0 .. upto : m \in S  BY <1>1, <1>6, <1>7, Induction
  <2> QED BY <2>1, <1>1
<1>9. Folded(p, base, upto).blocks = [j \in 1 .. upto |-> at[Anc((n + j) - 1, 0)]]  BY <1>8 DEF ReadTo
<1> QED BY <1>2, <1>9 DEF base

--------------------
(* The places of a file *)

\* The way to the block at height h above logical block k.
LEMMA PathIs ==
  ASSUME NEW k \in 0 .. (MaxBlocks - 1), k >= SingleStart, NEW h \in 1 .. Lev(k)
  PROVE  PathTo(Anc(k, h)) = SubSeq(Route(k).path, 1, Lev(k) - h) /\ Roots[Anc(k, h)[1]] = Route(k).root
<1>1. /\ Lev(k) \in 1 .. 3 /\ Route(k).root = Roots[Lev(k)]
      /\ Lev(k) = 1 => Route(k).path = << >>
      /\ Lev(k) = 2 => Route(k).path = <<Slot(Anc(k, 1))>>
      /\ Lev(k) = 3 => Route(k).path = <<Slot(Anc(k, 2)), Slot(Anc(k, 1))>>
  BY RouteIs
<1>2. Anc(k, h)[1] = Lev(k) /\ Anc(k, h)[2] = h  BY AncIs, <1>1
<1> DEFINE q == Anc(k, h)
<1>3. CASE Lev(k) = 1
  <2>1. h = 1 /\ Lev(k) - h = 0  BY <1>3
  <2>2. PathTo(q) = << >>  BY <2>1, <1>2, <1>3 DEF PathTo
  <2>3. SubSeq(<< >>, 1, 0) = << >>  OBVIOUS
  <2> QED BY <2>1, <2>2, <2>3, <1>1, <1>2, <1>3
<1>4. CASE Lev(k) = 2
  <2>1. CASE h = 2
    <3>1. PathTo(q) = << >> /\ Lev(k) - h = 0  BY <2>1, <1>2, <1>4 DEF PathTo
    <3> QED BY <3>1, <1>1, <1>2, <1>4, SubOne
  <2>2. CASE h = 1
    <3>1. PathTo(q) = <<Slot(Anc(k, 1))>> /\ Lev(k) - h = 1  BY <2>2, <1>2, <1>4 DEF PathTo
    <3> QED BY <3>1, <1>1, <1>2, <1>4, SubOne
  <2> QED BY <2>1, <2>2, <1>4
<1>5. CASE Lev(k) = 3
  <2>1. CASE h = 3
    <3>1. PathTo(q) = << >> /\ Lev(k) - h = 0  BY <2>1, <1>2, <1>5 DEF PathTo
    <3> QED BY <3>1, <1>1, <1>2, <1>5, SubPair
  <2>2. CASE h = 2
    <3>1. PathTo(q) = <<Slot(Anc(k, 2))>> /\ Lev(k) - h = 1  BY <2>2, <1>2, <1>5 DEF PathTo
    <3> QED BY <3>1, <1>1, <1>2, <1>5, SubPair
  <2>3. CASE h = 1
    <3>1. 2 \in 1 .. Lev(k) /\ 2 - 1 = 1  BY <1>5
    <3>2. Anc(k, 2) = Up(Anc(k, 1))  BY <3>1, AncDown
    <3>3. PathTo(q) = <<Slot(Anc(k, 2)), Slot(Anc(k, 1))>> /\ Lev(k) - h = 2
      BY <2>3, <3>2, <1>2, <1>5 DEF PathTo
    <3> QED BY <3>3, <1>1, <1>2, <1>5, SubPair
  <2> QED BY <2>1, <2>2, <2>3, <1>5
<1> QED BY <1>1, <1>3, <1>4, <1>5

\* The block at it.
LEMMA PlaceIs ==
  ASSUME NEW f, NEW F, NEW at, NEW node, File(f, F, at, node), NEW k \in 0 .. (node.blocks - 1), k >= SingleStart,
         NEW h \in 1 .. Lev(k)
  PROVE  /\ Follow(f, node[Route(k).root], SubSeq(Route(k).path, 1, Lev(k) - h)) = at[Anc(k, h)]
         /\ Anc(k, h) \in DOMAIN at /\ Lev(k) - h \in 0 .. Len(Route(k).path)
<1>1. /\ Len(Route(k).path) = Lev(k) - 1 /\ Lev(k) \in 1 .. 3
      /\ \A m \in 0 .. (Lev(k) - 1) :
           Follow(f, node[Route(k).root], SubSeq(Route(k).path, 1, m)) = at[Anc(k, Lev(k) - m)]
  BY FollowIs
<1>2. Anc(k, h) \in DOMAIN at
  <2>1. h \in 0 .. Lev(k)  BY <1>1
  <2> QED BY <2>1, WayIs
<1> DEFINE m == Lev(k) - h
<1>3. m \in 0 .. (Lev(k) - 1) /\ Lev(k) - m = h  BY <1>1
<1> HIDE DEF m
<1>4. Follow(f, node[Route(k).root], SubSeq(Route(k).path, 1, m)) = at[Anc(k, h)] /\ m \in 0 .. Len(Route(k).path)
  BY <1>1, <1>3
<1> QED BY <1>2, <1>4 DEF m

\* Every place that a file needs a block at is a site of it, with its block.
LEMMA PlacesAre ==
  ASSUME NEW F, NEW at, Stored(fs, F, at, inode), NEW i \in Inode, NEW p \in Places(i)
  PROVE  \E q \in DOMAIN at[i] : p = PlaceOf(i, q) /\ BlockAt(p) = at[i][q]
<1>1. File(fs, F, at[i], inode[i])  BY DEF Stored
<1> DEFINE n == inode[i].blocks
<1>2. n \in 0 .. MaxBlocks /\ n \in Nat /\ MaxBlocks \in Nat  BY <1>1, FileIs, Starts
<1>3. CASE \E k \in 0 .. (n - 1) : p = [inode |-> i, block |-> k]
  <2>1. PICK k \in 0 .. (n - 1) : p = [inode |-> i, block |-> k]
    BY <1>3
  <2>2. k \in 0 .. (MaxBlocks - 1)  BY <1>2
  <2>3. Anc(k, 0) \in DOMAIN at[i] /\ First(Anc(k, 0)) = k /\ Anc(k, 0)[2] = 0
    <3>1. Lev(k) \in 0 .. 3  BY <2>2, LevIs
    <3>2. Anc(k, 0) \in DOMAIN at[i]  BY <3>1, <1>1, WayIs
    <3> QED BY <3>2, <2>2, LeafIs
  <2>4. p = PlaceOf(i, Anc(k, 0))  BY <2>1, <2>3 DEF PlaceOf
  <2>5. BlockAt(p) = get_datablock_from_inode(fs, inode[i], k, 0).block
    <3>1. "block" \in DOMAIN p /\ p.inode = i /\ p.block = k  BY <2>1
    <3> QED BY <3>1 DEF BlockAt
  <2>6. get_datablock_from_inode(fs, inode[i], k, 0).block = at[i][Anc(k, 0)]
    <3>1. Trustable(at[i], k, 0)  BY DEF Trustable
    <3> QED BY <3>1, <1>1, LookupIs
  <2> QED BY <2>3, <2>4, <2>5, <2>6
<1>4. CASE \E k \in SingleStart .. (n - 1) : \E m \in 0 .. Len(Route(k).path) :
             p = [inode |-> i, root |-> Route(k).root, path |-> SubSeq(Route(k).path, 1, m)]
  <2>1. PICK k \in SingleStart .. (n - 1) : \E m \in 0 .. Len(Route(k).path) :
             p = [inode |-> i, root |-> Route(k).root, path |-> SubSeq(Route(k).path, 1, m)]
    BY <1>4
  <2>2. PICK m \in 0 .. Len(Route(k).path) :
             p = [inode |-> i, root |-> Route(k).root, path |-> SubSeq(Route(k).path, 1, m)]
    BY <2>1
  <2>3. k \in 0 .. (n - 1) /\ k >= SingleStart /\ k \in 0 .. (MaxBlocks - 1)  BY <1>2, Starts
  <2>4. Len(Route(k).path) = Lev(k) - 1 /\ Lev(k) \in 1 .. 3  BY <2>3, <1>1, FollowIs
  <2> DEFINE h == Lev(k) - m
             q == Anc(k, h)
  <2>5. h \in 1 .. Lev(k) /\ Lev(k) - h = m  BY <2>4
  <2>6. q[1] = Lev(k) /\ q[2] = h
    <3>1. h \in 0 .. Lev(k)  BY <2>4, <2>5
    <3> QED BY <3>1, <2>3, AncIs
  <2> HIDE DEF h
  <2>7. PathTo(q) = SubSeq(Route(k).path, 1, m) /\ Roots[q[1]] = Route(k).root  BY <2>3, <2>5, PathIs
  <2>8. Follow(fs, inode[i][Route(k).root], SubSeq(Route(k).path, 1, m)) = at[i][q] /\ q \in DOMAIN at[i]
    BY <2>3, <2>5, <1>1, PlaceIs
  <2> HIDE DEF q
  <2>9. p = PlaceOf(i, q)
    <3>1. q[2] # 0  BY <2>5, <2>6
    <3> QED BY <3>1, <2>2, <2>7 DEF PlaceOf
  <2>10. BlockAt(p) = Follow(fs, inode[i][Route(k).root], SubSeq(Route(k).path, 1, m))
    <3>1. "block" \notin DOMAIN p /\ p.inode = i /\ p.root = Route(k).root /\ p.path = SubSeq(Route(k).path, 1, m)
      BY <2>2
    <3> QED BY <3>1 DEF BlockAt
  <2> QED BY <2>8, <2>9, <2>10
<1> QED BY <1>3, <1>4 DEF Places

\* And every site of the file is such a place, with its block.
LEMMA SitesAre ==
  ASSUME NEW F, NEW at, Stored(fs, F, at, inode), NEW i \in Inode, NEW q \in Reg(inode[i].blocks)
  PROVE  PlaceOf(i, q) \in Places(i) /\ BlockAt(PlaceOf(i, q)) = at[i][q]
<1>1. File(fs, F, at[i], inode[i])  BY DEF Stored
<1> DEFINE n == inode[i].blocks
           k == First(q)
<1>2. n \in 0 .. MaxBlocks /\ n \in Nat /\ MaxBlocks \in Nat  BY <1>1, FileIs, Starts
<1>3. q \in Sites /\ k \in Nat /\ k < n /\ k \in 0 .. (MaxBlocks - 1) /\ q[1] = Lev(k) /\ q = Anc(k, q[2])
      /\ q[2] \in 0 .. q[1]
  <2>1. q \in Sites /\ k < n  BY DEF Reg
  <2> QED BY <2>1, FirstAnc, SiteIs
<1>4. k \in 0 .. (n - 1)  BY <1>2, <1>3
<1> HIDE DEF k, n
<1>5. CASE q[2] = 0
  <2>1. PlaceOf(i, q) = [inode |-> i, block |-> k]  BY <1>5 DEF PlaceOf, k
  <2>2. BlockAt(PlaceOf(i, q)) = get_datablock_from_inode(fs, inode[i], k, 0).block
    <3> DEFINE p == [inode |-> i, block |-> k]
    <3>1. "block" \in DOMAIN p /\ p.inode = i /\ p.block = k  OBVIOUS
    <3> HIDE DEF p
    <3>2. BlockAt(p) = get_datablock_from_inode(fs, inode[i], k, 0).block  BY <3>1 DEF BlockAt
    <3> QED BY <3>2, <2>1 DEF p
  <2>3. get_datablock_from_inode(fs, inode[i], k, 0).block = at[i][Anc(k, 0)]
    <3>1. Trustable(at[i], k, 0)  BY DEF Trustable
    <3> QED BY <3>1, <1>1, <1>4, LookupIs DEF n
  <2> QED BY <2>1, <2>2, <2>3, <1>3, <1>4, <1>5 DEF Places, n
<1>6. CASE q[2] # 0
  <2> DEFINE h == q[2]
  <2>0. q[1] \in 0 .. 3 /\ h = q[2]  BY <1>3, SiteIs
  <2>1. h \in 1 .. Lev(k) /\ q = Anc(k, h)  BY <1>3, <1>6, <2>0
  <2> HIDE DEF h
  <2>2. k >= SingleStart
    <3>1. ~(k < SingleStart)  BY <2>1 DEF Lev
    <3> QED BY <3>1, <1>3, Starts
  <2>3. PathTo(q) = SubSeq(Route(k).path, 1, Lev(k) - h) /\ Roots[q[1]] = Route(k).root
    BY <2>1, <2>2, <1>3, PathIs
  <2>4. Lev(k) - h \in 0 .. Len(Route(k).path)  BY <2>1, <2>2, <1>1, <1>4, PlaceIs DEF n
  <2> DEFINE m == Lev(k) - h
  <2>5. PlaceOf(i, q) = [inode |-> i, root |-> Route(k).root, path |-> SubSeq(Route(k).path, 1, m)]
    BY <2>3, <1>6 DEF PlaceOf
  <2> HIDE DEF m
  <2>6. k \in SingleStart .. (n - 1)  BY <2>2, <1>3, <1>4, Starts
  <2> DEFINE r == Route(k)
             ways == {Route(j) : j \in SingleStart .. (n - 1)}
             P(w) == {[inode |-> i, root |-> w.root, path |-> SubSeq(w.path, 1, j)] : j \in 0 .. Len(w.path)}
  <2>7. PlaceOf(i, q) \in P(r)  BY <2>4, <2>5 DEF m
  <2>8. r \in ways  BY <2>6
  <2>9. Places(i) = {[inode |-> i, block |-> j] : j \in 0 .. (n - 1)} \union UNION {P(w) : w \in ways}
    BY DEF Places, n
  <2> HIDE DEF P, r, ways
  <2>10. PlaceOf(i, q) \in UNION {P(w) : w \in ways}  BY <2>7, <2>8
  <2>11. BlockAt(PlaceOf(i, q)) = Follow(fs, inode[i][Route(k).root], SubSeq(Route(k).path, 1, m))
    <3> DEFINE p == PlaceOf(i, q)
    <3>0. p = [inode |-> i, root |-> Route(k).root, path |-> SubSeq(Route(k).path, 1, m)]  BY <2>5
    <3> HIDE DEF p
    <3>1. "block" \notin DOMAIN p /\ p.inode = i /\ p.root = Route(k).root /\ p.path = SubSeq(Route(k).path, 1, m)
      BY <3>0
    <3>2. BlockAt(p) = Follow(fs, inode[i][Route(k).root], SubSeq(Route(k).path, 1, m))
      BY <3>1 DEF BlockAt
    <3> QED BY <3>2 DEF p
  <2>12. Follow(fs, inode[i][Route(k).root], SubSeq(Route(k).path, 1, m)) = at[i][q]
    BY <2>1, <2>2, <1>1, <1>4, PlaceIs DEF n, m
  <2> QED BY <2>9, <2>10, <2>11, <2>12
<1> QED BY <1>5, <1>6

--------------------
(* What the state of the disk says *)

\* The walk along the free list meets just the free blocks below maxAlloc, and ends.
LEMMA FreeWalk ==
  ASSUME NEW F, FreeIs(fs, F)
  PROVE  FreeListSound /\ OnFreeList = F \intersect Allocated
<1>1. PICK c \in Seq(Pool) :
        /\ Chain([b \in DataRegion |-> fs.blk[b][0]], fs.freelist_head, c)
        /\ Elements(c) \subseteq FirstDataBlock .. (fs.maxAlloc - 1)
        /\ F = Elements(c) \union (fs.maxAlloc .. (NUM_OF_DATA_BLOCKS - 1))
  BY DEF FreeIs
<1> DEFINE word == [b \in DataRegion |-> fs.blk[b][0]]
           head == fs.freelist_head
           g == [n \in 0 .. BLOCK_COUNT |-> NodeAt(c, n)]
           f == FreeListBlock
<1>2. BLOCK_COUNT \in Nat /\ Pool \subseteq DataRegion /\ 0 \notin Pool /\ 0 \notin DataRegion
  BY DiskAssumption, PoolIs DEF DataRegion, FirstDataBlock
<1>3. c \in Seq(DataRegion) /\ Chain(word, head, c) /\ \A b \in DataRegion : word[b] = fs.blk[b][0]
  <2>1. Seq(Pool) \subseteq Seq(DataRegion)  BY <1>2
  <2> QED BY <2>1, <1>1
<1> HIDE DEF word, head
<1>4. \A n \in 0 .. BLOCK_COUNT :
        g[n] = IF n = 0 THEN head ELSE IF g[n - 1] \in DataRegion THEN word[g[n - 1]] ELSE 0
  BY <1>2, <1>3, WalkExists
<1> HIDE DEF g
<1>5. g = [n \in 0 .. BLOCK_COUNT |-> IF n = 0 THEN head
             ELSE IF g[n - 1] \in DataRegion THEN fs.blk[g[n - 1]][0] ELSE 0]
  BY <1>3, <1>4 DEF g
<1>6. f = [n \in 0 .. BLOCK_COUNT |-> IF n = 0 THEN head
             ELSE IF f[n - 1] \in DataRegion THEN fs.blk[f[n - 1]][0] ELSE 0]
  BY <1>5 DEF FreeListBlock, head
<1> HIDE DEF f
<1>7. f[0] = head /\ Follows(DataRegion, word, f, 1, BLOCK_COUNT)
  <2>1. f[0] = head  BY <1>2, <1>6
  <2>2. ASSUME NEW n \in 1 .. BLOCK_COUNT
        PROVE  f[n] = IF f[n - 1] \in DataRegion THEN word[f[n - 1]] ELSE 0
    <3>1. n \in 0 .. BLOCK_COUNT /\ n # 0  BY <1>2
    <3>2. f[n] = IF f[n - 1] \in DataRegion THEN fs.blk[f[n - 1]][0] ELSE 0  BY <1>6, <3>1
    <3> QED BY <3>2, <1>3
  <2> QED BY <2>1, <2>2 DEF Follows
<1>8. \A n \in 0 .. BLOCK_COUNT : f[n] = NodeAt(c, n)  BY <1>2, <1>3, <1>7, Walk
<1>9. Len(c) <= BLOCK_COUNT /\ Len(c) \in Nat /\ \A k \in 1 .. Len(c) : c[k] \in DataRegion
  <2>1. IsFiniteSet(DataRegion) /\ Cardinality(DataRegion) <= BLOCK_COUNT
    <3>1. FirstDataBlock \in Nat /\ FirstDataBlock >= 1  BY PoolIs
    <3>2. /\ IsFiniteSet(DataRegion)
          /\ Cardinality(DataRegion) = IF FirstDataBlock > BLOCK_COUNT - 1 THEN 0
                                       ELSE BLOCK_COUNT - 1 - FirstDataBlock + 1
      BY <1>2, <3>1, FS_Interval DEF DataRegion
    <3> QED BY <3>1, <3>2, <1>2
  <2>2. Len(c) <= Cardinality(DataRegion) /\ Cardinality(DataRegion) \in Nat
    BY <1>3, <2>1, DistinctCount DEF Chain
  <2> QED BY <1>2, <1>3, <2>1, <2>2
<1>10. f[BLOCK_COUNT] = 0  BY <1>2, <1>8, <1>9 DEF NodeAt
<1>11. ASSUME NEW n \in 0 .. BLOCK_COUNT, f[n] # 0 PROVE f[n] \in Elements(c)
  <2>1. n < Len(c) /\ f[n] = c[Len(c) - n] /\ Len(c) - n \in 1 .. Len(c)  BY <1>8, <1>9, <1>11 DEF NodeAt
  <2> QED BY <2>1 DEF Elements
<1>12. ASSUME NEW k \in 1 .. Len(c) PROVE \E n \in 0 .. BLOCK_COUNT : f[n] = c[k] /\ c[k] # 0
  <2>1. Len(c) - k \in 0 .. BLOCK_COUNT /\ Len(c) - k < Len(c) /\ Len(c) - (Len(c) - k) = k
    BY <1>2, <1>9
  <2>2. f[Len(c) - k] = c[k] /\ c[k] # 0  BY <1>2, <1>8, <1>9, <2>1 DEF NodeAt
  <2> QED BY <2>1, <2>2
<1>13. OnFreeList = Elements(c)  BY <1>11, <1>12 DEF OnFreeList, Elements, f
<1>14. Elements(c) = F \intersect Allocated /\ Elements(c) \subseteq Allocated
  <2>1. fs.maxAlloc \in Int  BY PoolIs DEF FreeIs
  <2> QED BY <1>1, <2>1 DEF Allocated
<1> QED BY <1>10, <1>13, <1>14 DEF FreeListSound, f

\* No block at two places, none of them free.
LEMMA SharingNone ==
  ASSUME NEW F, NEW at, Stored(fs, F, at, inode)
  PROVE  NoSharing
<1>1. FreeIs(fs, F) /\ \A i \in Inode : File(fs, F, at[i], inode[i])  BY DEF Stored
<1>2. OnFreeList = F \intersect Allocated  BY <1>1, FreeWalk
<1>3. ASSUME NEW p \in AllPlaces PROVE BlockAt(p) \in Pool /\ BlockAt(p) \notin F
  <2>1. PICK i \in Inode : p \in Places(i)
    BY DEF AllPlaces
  <2>2. PICK q \in DOMAIN at[i] : BlockAt(p) = at[i][q]
    BY <2>1, PlacesAre
  <2>3. File(fs, F, at[i], inode[i])  BY <1>1
  <2>4. at[i][q] \in Pool /\ at[i][q] \notin F  BY <2>2, <2>3, ImgIs
  <2> QED BY <2>2, <2>4
<1>4. ASSUME NEW p \in AllPlaces, NEW r \in AllPlaces, BlockAt(p) = BlockAt(r) PROVE p = r
  <2>1. PICK i \in Inode : p \in Places(i)
    BY DEF AllPlaces
  <2>2. PICK q \in DOMAIN at[i] : p = PlaceOf(i, q) /\ BlockAt(p) = at[i][q]
    BY <2>1, PlacesAre
  <2>3. PICK j \in Inode : r \in Places(j)
    BY DEF AllPlaces
  <2>4. PICK s \in DOMAIN at[j] : r = PlaceOf(j, s) /\ BlockAt(r) = at[j][s]
    BY <2>3, PlacesAre
  <2>5. at[i][q] \in Img(at[i], Sites) /\ at[j][s] \in Img(at[j], Sites)  BY <1>1, ImgIs
  <2>6. i = j  BY <2>2, <2>4, <2>5, <1>4 DEF Stored
  <2>7. Placed(at[i])  BY <1>1, FileIs
  <2>8. q = s  BY <2>2, <2>4, <2>6, <2>7, <1>4 DEF Placed
  <2> QED BY <2>2, <2>4, <2>6, <2>8
<1>5. Used \subseteq Pool /\ IsFiniteSet(Used)
  <2>1. Used \subseteq Pool  BY <1>3 DEF Used
  <2> QED BY <2>1, PoolIs, FS_Subset
<1> DEFINE g == [b \in Used |-> CHOOSE p \in AllPlaces : BlockAt(p) = b]
<1>6. \A b \in Used : g[b] \in AllPlaces /\ BlockAt(g[b]) = b  BY DEF Used
<1>7. g \in Bijection(Used, AllPlaces)
  <2>1. g \in [Used -> AllPlaces]  BY <1>6
  <2>2. \A b, d \in Used : g[b] = g[d] => b = d  BY <1>6
  <2>3. \A p \in AllPlaces : BlockAt(p) \in Used /\ g[BlockAt(p)] = p  BY <1>4, <1>6 DEF Used
  <2> HIDE DEF g
  <2>4. g \in Injection(Used, AllPlaces)  BY <2>1, <2>2 DEF Injection, IsInjective
  <2>5. g \in Surjection(Used, AllPlaces)  BY <2>1, <2>3 DEF Surjection
  <2> QED BY <2>4, <2>5 DEF Bijection
<1>8. Cardinality(Used) = Cardinality(AllPlaces)
  <2> HIDE DEF g
  <2>1. ExistsBijection(Used, AllPlaces)  BY <1>7 DEF ExistsBijection
  <2> QED BY <1>5, <2>1, FS_Bijection
<1>9. ASSUME NEW b \in Used PROVE b \in Allocated /\ b \notin OnFreeList
  <2>1. b \in Pool /\ b \notin F  BY <1>3 DEF Used
  <2>2. fs.maxAlloc .. (NUM_OF_DATA_BLOCKS - 1) \subseteq F /\ fs.maxAlloc \in FirstDataBlock .. NUM_OF_DATA_BLOCKS
    BY <1>1 DEF FreeIs
  <2>3. b \in Nat /\ FirstDataBlock <= b /\ b < NUM_OF_DATA_BLOCKS /\ FirstDataBlock \in Nat /\ NUM_OF_DATA_BLOCKS \in Nat
    BY <2>1, PoolIs
  <2>4. b < fs.maxAlloc  BY <2>1, <2>2, <2>3
  <2> QED BY <2>1, <2>2, <2>3, <2>4, <1>2 DEF Allocated
<1> QED BY <1>8, <1>9 DEF NoSharing

\* Nothing is lost.
LEMMA LeakNone ==
  ASSUME NEW F, NEW at, Stored(fs, F, at, inode), Exact(F, at, inode)
  PROVE  NoLeak
<1>1. FreeIs(fs, F)  BY DEF Stored
<1>2. ASSUME NEW b \in Allocated PROVE b \in Used \/ b \in OnFreeList
  <2>1. b \in Pool
    <3>1. fs.maxAlloc \in FirstDataBlock .. NUM_OF_DATA_BLOCKS  BY <1>1 DEF FreeIs
    <3>2. FirstDataBlock \in Nat /\ NUM_OF_DATA_BLOCKS \in Nat  BY PoolIs
    <3>3. b \in FirstDataBlock .. (NUM_OF_DATA_BLOCKS - 1)  BY <3>1, <3>2 DEF Allocated
    <3> QED BY <3>3 DEF Pool
  <2>2. CASE b \in F
    BY <2>2, <1>1, FreeWalk
  <2>3. CASE \E i \in Inode : b \in Img(at[i], Sites)
    <3>1. PICK i \in Inode : b \in Img(at[i], Sites)
      BY <2>3
    <3>2. PICK q \in DOMAIN at[i] : b = at[i][q]
      BY <3>1 DEF Img
    <3>3. q \in Reg(inode[i].blocks)  BY <3>2 DEF Exact
    <3>4. PlaceOf(i, q) \in Places(i) /\ BlockAt(PlaceOf(i, q)) = at[i][q]  BY <3>3, SitesAre
    <3>5. PlaceOf(i, q) \in AllPlaces  BY <3>4 DEF AllPlaces
    <3> QED BY <3>2, <3>4, <3>5 DEF Used
  <2> QED BY <2>1, <2>2, <2>3 DEF Exact
<1> QED BY <1>2 DEF NoLeak

--------------------
(* The invariant *)

\* The free blocks and the blocks of the files keep apart, and each is where its inode and its blocks of addresses say.
BlockInv ==
  /\ inode \in [Inode -> InodeStruct] /\ seen \in Seq(Pool) /\ requests \in 0 .. MaxRequests
  /\ \E F, at : Stored(fs, F, at, inode)

\* And every block is free or at a place.
ExactInv == \E F, at : Stored(fs, F, at, inode) /\ Exact(F, at, inode)

\* Nothing is anywhere on a new disk.
LEMMA InitFree ==
  ASSUME Init
  PROVE  FreeIs(fs, Pool)
<1> DEFINE blk == [b \in DataRegion |-> ZeroBlock]
           c == << >>
<1>1. /\ fs = [maxAlloc |-> FirstDataBlock, freelist_head |-> 0, blk |-> blk]
      /\ blk \in [DataRegion -> [Word -> Int]]
  BY DEF Init, ZeroBlock
<1> HIDE DEF blk
<1>2. fs.maxAlloc = FirstDataBlock /\ fs.freelist_head = 0 /\ fs \in FileSystem
  <2>1. FirstDataBlock \in Int  BY PoolIs
  <2> QED BY <1>1, <2>1 DEF FileSystem
<1>3. c \in Seq(Pool) /\ Elements(c) = {}  BY DEF Elements
<1>4. Chain([b \in DataRegion |-> fs.blk[b][0]], fs.freelist_head, c)  BY <1>2 DEF Chain, Distinct
<1>5. Pool = fs.maxAlloc .. (NUM_OF_DATA_BLOCKS - 1)  BY <1>2 DEF Pool
<1>6. fs.maxAlloc \in FirstDataBlock .. NUM_OF_DATA_BLOCKS
  <2>1. FirstDataBlock \in Nat /\ NUM_OF_DATA_BLOCKS \in Nat /\ FirstDataBlock <= NUM_OF_DATA_BLOCKS
    BY DiskAssumption DEF FirstDataBlock, NUM_OF_DATA_BLOCKS
  <2> QED BY <1>2, <2>1
<1> HIDE DEF c
<1>7. /\ Elements(c) \subseteq FirstDataBlock .. (fs.maxAlloc - 1)
      /\ Pool = Elements(c) \union (fs.maxAlloc .. (NUM_OF_DATA_BLOCKS - 1))
      /\ \A b \in Elements(c) : \A w \in Word \ {0} : fs.blk[b][w] = 0
  BY <1>3, <1>5
<1> QED BY <1>2, <1>3, <1>4, <1>6, <1>7 DEF FreeIs

\* Nor is it in a file.
LEMMA InitStored ==
  ASSUME Init
  PROVE  \E F, at : Stored(fs, F, at, inode) /\ Exact(F, at, inode)
<1> DEFINE none == [q \in {} |-> 0]
           at == [i \in Inode |-> none]
<1>1. FreeIs(fs, Pool)  BY InitFree
<1>2. EmptyInode \in InodeStruct /\ EmptyInode.blocks = 0 /\ Reg(0) = {} /\ Stale(0) = {}
  BY EmptyInodeIs, RegNone
<1>3. DOMAIN none = {}  OBVIOUS
<1> HIDE DEF none
<1>4. Placed(none) /\ Shape(none, 0)  BY <1>2, <1>3 DEF Placed, Shape
<1>5. File(fs, Pool, none, EmptyInode)
  <2>1. \A k \in 0 .. (NUM_DIRECT_BLOCKS - 1) : ~(k < EmptyInode.blocks)  BY <1>2
  <2>2. \A r \in 1 .. 3 : ~(Start(r) < EmptyInode.blocks)  BY <1>2, Starts
  <2> QED BY <1>1, <1>2, <1>3, <1>4, <2>1, <2>2 DEF File
<1>6. Img(none, Sites) = {}  BY <1>3 DEF Img
<1>7. DOMAIN at = Inode /\ \A i \in Inode : at[i] = none  OBVIOUS
<1>8. DOMAIN inode = Inode /\ \A i \in Inode : inode[i] = EmptyInode  BY DEF Init
<1> HIDE DEF at
<1>9. Stored(fs, Pool, at, inode)  BY <1>1, <1>5, <1>6, <1>7, <1>8 DEF Stored
<1>10. Exact(Pool, at, inode)  BY <1>2, <1>3, <1>7, <1>8 DEF Exact
<1> QED BY <1>9, <1>10

\* A new disk.
LEMMA InitInv ==
  ASSUME Init
  PROVE  BlockInv /\ ExactInv
<1>1. \E F, at : Stored(fs, F, at, inode) /\ Exact(F, at, inode)  BY InitStored
<1>2. inode \in [Inode -> InodeStruct]  BY EmptyInodeIs DEF Init
<1>3. seen \in Seq(Pool) /\ requests \in 0 .. MaxRequests  BY RequestAssumption DEF Init
<1> QED BY <1>1, <1>2, <1>3 DEF BlockInv, ExactInv

\* What a read leaves.
LEMMA ReadIs ==
  ASSUME NEW i \in Inode, NEW n, fs_read(i, n)
  PROVE  /\ seen' = ReadOf(fs, inode[i], n, inode[i].blocks - n).blocks
         /\ fs' = fs /\ inode' = inode /\ requests' = requests
<1>1. seen' = ReadOf(fs, inode[i], n, inode[i].blocks - n).blocks  BY DEF fs_read, ReadOf
<1> QED BY <1>1 DEF fs_read

\* A read goes through the blocks of the file.
LEMMA ReadBlocks ==
  ASSUME NEW F, NEW at, Stored(fs, F, at, inode), NEW i \in Inode, NEW n \in 0 .. (inode[i].blocks - 1), fs_read(i, n)
  PROVE  /\ seen' = [j \in 1 .. (inode[i].blocks - n) |-> at[i][Anc((n + j) - 1, 0)]]
         /\ inode[i].blocks \in Nat /\ seen' \in Seq(Pool)
<1>1. File(fs, F, at[i], inode[i])  BY DEF Stored
<1> DEFINE N == inode[i].blocks
           upto == N - n
<1>2. N \in Nat /\ N \in 0 .. MaxBlocks /\ Shape(at[i], N) /\ Placed(at[i])  BY <1>1, FileIs
<1>3. upto \in Nat /\ n \in Nat  BY <1>2
<1>4. upto = inode[i].blocks - n  OBVIOUS
<1>5. seen' = ReadOf(fs, inode[i], n, inode[i].blocks - n).blocks  BY ReadIs
<1> HIDE DEF upto
<1>6. ReadOf(fs, inode[i], n, upto).blocks = [j \in 1 .. upto |-> at[i][Anc((n + j) - 1, 0)]]
  BY <1>1, <1>4, ReadsAll
<1>7. ASSUME NEW j \in 1 .. upto PROVE at[i][Anc((n + j) - 1, 0)] \in Pool
  <2> DEFINE k == (n + j) - 1
  <2>1. k \in 0 .. (N - 1)  BY <1>2, <1>3 DEF upto
  <2> HIDE DEF k
  <2>2. Anc(k, 0) \in DOMAIN at[i]  BY <2>1, <1>2, DataSite
  <2> QED BY <2>2, <1>2 DEF Placed, k
<1>8. [j \in 1 .. upto |-> at[i][Anc((n + j) - 1, 0)]] \in Seq(Pool)  BY <1>3, <1>7
<1> QED BY <1>2, <1>4, <1>5, <1>6, <1>8

--------------------
(* The steps *)

\* What a request leaves of the files.
LEMMA GrowsTo ==
  ASSUME NEW F, NEW at, Stored(fs, F, at, inode), NEW i \in Inode, Grows(F, at, i)
  PROVE  \E F2, at2, atN :
           /\ Stored(fs', F2, atN, inode') /\ Updated(at, atN, i, at2)
           /\ Grown(fs, F, at[i], inode[i], fs', F2, at2, inode'[i])
<1>1. PICK F2, at2 : /\ Grown(fs, F, at[i], inode[i], fs', F2, at2, inode'[i])
                     /\ Updated(inode, inode', i, inode'[i])
  BY DEF Grows
<1> DEFINE atN == [j \in DOMAIN at |-> IF j = i THEN at2 ELSE at[j]]
<1>2. i \in DOMAIN at  BY DEF Stored
<1>3. Updated(at, atN, i, at2)  BY <1>2, UpdatedIs
<1> HIDE DEF atN
<1>4. File(fs', F2, at2, inode'[i]) /\ Turn(fs, F, at[i], fs', F2, at2)  BY <1>1 DEF Grown
<1>5. Stored(fs', F2, atN, inode')  BY <1>1, <1>3, <1>4, StoredNext
<1> QED BY <1>1, <1>3, <1>5

\* And of a file that became shorter.
LEMMA ShrinksTo ==
  ASSUME NEW F, NEW at, Stored(fs, F, at, inode), NEW i \in Inode, Shrinks(F, at, i)
  PROVE  \E F2, at2, atN :
           /\ Stored(fs', F2, atN, inode') /\ Updated(at, atN, i, at2)
           /\ Lessened(fs, F, at[i], inode[i], fs', F2, at2, inode'[i])
<1>1. PICK F2, at2 : /\ Lessened(fs, F, at[i], inode[i], fs', F2, at2, inode'[i])
                     /\ Updated(inode, inode', i, inode'[i])
  BY DEF Shrinks
<1> DEFINE atN == [j \in DOMAIN at |-> IF j = i THEN at2 ELSE at[j]]
<1>2. i \in DOMAIN at  BY DEF Stored
<1>3. Updated(at, atN, i, at2)  BY <1>2, UpdatedIs
<1> HIDE DEF atN
<1>4. File(fs', F2, at2, inode'[i]) /\ Turn(fs, F, at[i], fs', F2, at2)  BY <1>1 DEF Lessened
<1>5. Stored(fs', F2, atN, inode')  BY <1>1, <1>3, <1>4, StoredNext
<1> QED BY <1>1, <1>3, <1>5

\* A request grows or shrinks one file, or reads it.
LEMMA NextIs ==
  ASSUME Truncations \subseteq CompleteTruncations, OpenTruncations \subseteq {0},
         NEW F, NEW at, Stored(fs, F, at, inode), Next
  PROVE  \E i \in Inode : \/ Serve /\ Grows(F, at, i)
                          \/ Serve /\ Shrinks(F, at, i)
                          \/ \E n \in 0 .. (inode[i].blocks - 1) : fs_read(i, n)
<1>1. PICK i \in Inode :
        \/ \E count \in Growths : fs_write(i, count)
        \/ \E n \in 0 .. (inode[i].blocks - 1) : fs_truncate(i, n)
        \/ fs_openFile(i)
        \/ fs_unlink(i)
        \/ \E n \in 0 .. (inode[i].blocks - 1) : fs_read(i, n)
  BY DEF Next
<1>2. ASSUME NEW count \in Growths, fs_write(i, count) PROVE Serve /\ Grows(F, at, i)
  <2>1. Grows(F, at, i)  BY <1>2, WriteGrows
  <2> QED BY <2>1, <1>2 DEF fs_write
<1>3. ASSUME NEW n \in 0 .. (inode[i].blocks - 1), fs_truncate(i, n) PROVE Serve /\ Shrinks(F, at, i)
  <2>1. Shrinks(F, at, i)  BY <1>3, TruncateShrinks
  <2> QED BY <2>1, <1>3 DEF fs_truncate
<1>4. ASSUME fs_openFile(i) PROVE Serve /\ Shrinks(F, at, i)
  <2>1. Shrinks(F, at, i)  BY <1>4, OpenShrinks
  <2> QED BY <2>1, <1>4 DEF fs_openFile
<1>5. ASSUME fs_unlink(i) PROVE Serve /\ Shrinks(F, at, i)
  <2>1. Shrinks(F, at, i)  BY <1>5, UnlinkShrinks
  <2> QED BY <2>1, <1>5 DEF fs_unlink
<1> QED BY <1>1, <1>2, <1>3, <1>4, <1>5

\* The inodes stay a function.
LEMMA InodesStay ==
  ASSUME inode \in [Inode -> InodeStruct], [Next]_vars
  PROVE  inode' = [j \in Inode |-> inode'[j]]
<1>1. ASSUME NEW i \in Inode, NEW v, inode' = [inode EXCEPT ![i] = v] PROVE inode' = [j \in Inode |-> inode'[j]]
  BY <1>1
<1>2. ASSUME NEW i \in Inode, NEW st, Store(i, st) PROVE inode' = [j \in Inode |-> inode'[j]]
  BY <1>1, <1>2 DEF Store
<1>3. CASE inode' = inode
  BY <1>3
<1>4. CASE Next
  <2>1. PICK i \in Inode :
          \/ \E count \in Growths : fs_write(i, count)
          \/ \E n \in 0 .. (inode[i].blocks - 1) : fs_truncate(i, n)
          \/ fs_openFile(i)
          \/ fs_unlink(i)
          \/ \E n \in 0 .. (inode[i].blocks - 1) : fs_read(i, n)
    BY <1>4 DEF Next
  <2>2. (\E st : Store(i, st)) \/ inode' = inode
    <3>1. ASSUME NEW count, fs_write(i, count) PROVE \E st : Store(i, st)
      BY <3>1 DEF fs_write
    <3>2. ASSUME NEW n, fs_truncate(i, n) PROVE \E st : Store(i, st)
      BY <3>2 DEF fs_truncate
    <3>3. ASSUME fs_openFile(i) PROVE inode' = inode
      BY <3>3 DEF fs_openFile
    <3>4. ASSUME fs_unlink(i) PROVE \E st : Store(i, st)
      BY <3>4 DEF fs_unlink
    <3>5. ASSUME NEW n, fs_read(i, n) PROVE inode' = inode
      BY <3>5 DEF fs_read
    <3> QED BY <2>1, <3>1, <3>2, <3>3, <3>4, <3>5
  <2> QED BY <2>2, <1>2, <1>3
<1> QED BY <1>3, <1>4 DEF vars

\* The invariant holds after every step.
LEMMA InvNext ==
  ASSUME Truncations \subseteq CompleteTruncations, OpenTruncations \subseteq {0}, BlockInv, [Next]_vars
  PROVE  BlockInv'
<1>1. PICK F, at : Stored(fs, F, at, inode)
  BY DEF BlockInv
<1>2. inode \in [Inode -> InodeStruct] /\ seen \in Seq(Pool) /\ requests \in 0 .. MaxRequests
  BY DEF BlockInv
<1>0. inode' = [j \in Inode |-> inode'[j]]  BY <1>2, InodesStay
<1>3. CASE UNCHANGED vars
  <2>1. fs' = fs /\ inode' = inode /\ seen' = seen /\ requests' = requests  BY <1>3 DEF vars
  <2>2. Stored(fs', F, at, inode')  BY <1>1, <2>1
  <2> QED BY <1>2, <2>1, <2>2 DEF BlockInv
<1>4. ASSUME NEW F2, NEW atN, Stored(fs', F2, atN, inode'), Serve, NEW i \in Inode, Updated(inode, inode', i, inode'[i])
      PROVE  BlockInv'
  <2>1. requests' \in 0 .. MaxRequests /\ seen' \in Seq(Pool)  BY <1>2, <1>4, RequestAssumption DEF Serve
  <2>2. \A j \in Inode : inode'[j] \in InodeStruct  BY <1>4, FileIs DEF Stored
  <2>3. inode' \in [Inode -> InodeStruct]  BY <2>2, <1>0
  <2> QED BY <1>4, <2>1, <2>3 DEF BlockInv
<1>5. CASE Next
  <2>1. PICK i \in Inode : \/ Serve /\ Grows(F, at, i)
                           \/ Serve /\ Shrinks(F, at, i)
                           \/ \E n \in 0 .. (inode[i].blocks - 1) : fs_read(i, n)
    BY <1>1, <1>5, NextIs
  <2>2. CASE Serve /\ Grows(F, at, i)
    <3>1. \E F2, at2, atN : Stored(fs', F2, atN, inode')  BY <1>1, <2>2, GrowsTo
    <3>2. Updated(inode, inode', i, inode'[i])  BY <2>2 DEF Grows
    <3> QED BY <1>4, <2>2, <3>1, <3>2
  <2>3. CASE Serve /\ Shrinks(F, at, i)
    <3>1. \E F2, at2, atN : Stored(fs', F2, atN, inode')  BY <1>1, <2>3, ShrinksTo
    <3>2. Updated(inode, inode', i, inode'[i])  BY <2>3 DEF Shrinks
    <3> QED BY <1>4, <2>3, <3>1, <3>2
  <2>4. CASE \E n \in 0 .. (inode[i].blocks - 1) : fs_read(i, n)
    <3>1. PICK n \in 0 .. (inode[i].blocks - 1) : fs_read(i, n)
      BY <2>4
    <3>2. fs' = fs /\ inode' = inode /\ requests' = requests  BY <3>1, ReadIs
    <3>3. seen' \in Seq(Pool)  BY <1>1, <3>1, ReadBlocks
    <3>4. Stored(fs', F, at, inode')  BY <1>1, <3>2
    <3> QED BY <1>2, <3>2, <3>3, <3>4 DEF BlockInv
  <2> QED BY <2>1, <2>2, <2>3, <2>4
<1> QED BY <1>3, <1>5

\* There is a block left, and no file is as long as an inode can say.
Room == ~NoBlockLeft(fs) /\ \A i \in Inode : inode[i].blocks < MaxBlocks

\* Nothing is lost by a step after which there is room.
LEMMA ExactStep ==
  ASSUME Truncations \subseteq CompleteTruncations, OpenTruncations \subseteq {0}, ExactInv, [Next]_vars, Room'
  PROVE  ExactInv'
<1>1. PICK F, at : Stored(fs, F, at, inode) /\ Exact(F, at, inode)
  BY DEF ExactInv
<1>2. CASE fs' = fs /\ inode' = inode
  <2>1. Stored(fs', F, at, inode') /\ Exact(F, at, inode')  BY <1>1, <1>2
  <2> QED BY <2>1 DEF ExactInv
<1>3. DOMAIN at = Inode /\ DOMAIN inode = Inode  BY <1>1 DEF Stored
<1>4. ASSUME NEW i \in Inode PROVE DOMAIN at[i] = Reg(inode[i].blocks)
  BY <1>1 DEF Exact
<1>5. ASSUME NEW i \in Inode, Grows(F, at, i) PROVE ExactInv'
  <2>1. PICK F2, at2, atN :
          /\ Stored(fs', F2, atN, inode') /\ Updated(at, atN, i, at2)
          /\ Grown(fs, F, at[i], inode[i], fs', F2, at2, inode'[i])
    BY <1>1, <1>5, GrowsTo
  <2>2. Updated(inode, inode', i, inode'[i])  BY <1>5 DEF Grows
  <2>3. F2 # {}
    <3>1. FreeIs(fs', F2)  BY <2>1 DEF Stored
    <3>2. F2 = {} <=> NoBlockLeft(fs')  BY <3>1, AllocOne
    <3>3. ~NoBlockLeft(fs')  BY DEF Room, NoBlockLeft
    <3> QED BY <3>2, <3>3
  <2>4. inode'[i].blocks < MaxBlocks  BY DEF Room
  <2>5. DOMAIN at2 = Reg(inode'[i].blocks) /\ F2 \union Img(at2, Sites) = F \union Img(at[i], Sites)
    BY <1>4, <2>1, <2>3, <2>4 DEF Grown
  <2>6. Exact(F2, atN, inode')  BY <1>1, <1>3, <2>1, <2>2, <2>5, ExactNext
  <2> QED BY <2>1, <2>6 DEF ExactInv
<1>6. ASSUME NEW i \in Inode, Shrinks(F, at, i) PROVE ExactInv'
  <2>1. PICK F2, at2, atN :
          /\ Stored(fs', F2, atN, inode') /\ Updated(at, atN, i, at2)
          /\ Lessened(fs, F, at[i], inode[i], fs', F2, at2, inode'[i])
    BY <1>1, <1>6, ShrinksTo
  <2>2. Updated(inode, inode', i, inode'[i])  BY <1>6 DEF Shrinks
  <2>3. DOMAIN at2 = Reg(inode'[i].blocks) /\ F2 \union Img(at2, Sites) = F \union Img(at[i], Sites)
    BY <1>4, <2>1 DEF Lessened
  <2>4. Exact(F2, atN, inode')  BY <1>1, <1>3, <2>1, <2>2, <2>3, ExactNext
  <2> QED BY <2>1, <2>4 DEF ExactInv
<1>7. CASE Next
  <2>1. PICK i \in Inode : \/ Serve /\ Grows(F, at, i)
                           \/ Serve /\ Shrinks(F, at, i)
                           \/ \E n \in 0 .. (inode[i].blocks - 1) : fs_read(i, n)
    BY <1>1, <1>7, NextIs
  <2>2. CASE \E n \in 0 .. (inode[i].blocks - 1) : fs_read(i, n)
    BY <1>2, <2>2, ReadIs
  <2> QED BY <1>5, <1>6, <2>1, <2>2
<1> QED BY <1>2, <1>7 DEF vars

--------------------
(* What holds of the block map *)

\* The free blocks and the blocks of the files keep apart after every request.
THEOREM BlockInvCorrect ==
  ASSUME Truncations \subseteq CompleteTruncations, OpenTruncations \subseteq {0}
  PROVE  Spec => []BlockInv
<1>1. Init => BlockInv  BY InitInv
<1>2. BlockInv /\ [Next]_vars => BlockInv'  BY InvNext
<1> QED BY <1>1, <1>2, PTL DEF Spec

\* The superblock, the inodes and what a read goes through have their types.
THEOREM TypeCorrect ==
  ASSUME Truncations \subseteq CompleteTruncations, OpenTruncations \subseteq {0}
  PROVE  Spec => []TypeOK
<1>1. BlockInv => TypeOK  BY DEF BlockInv, TypeOK, Stored, FreeIs
<1> QED BY <1>1, BlockInvCorrect, PTL

\* The free list ends, and holds only blocks below maxAlloc.
THEOREM FreeListSoundCorrect ==
  ASSUME Truncations \subseteq CompleteTruncations, OpenTruncations \subseteq {0}
  PROVE  Spec => []FreeListSound
<1>1. BlockInv => FreeListSound
  <2>1. ASSUME NEW F, NEW at, Stored(fs, F, at, inode) PROVE FreeListSound
    <3>1. FreeIs(fs, F)  BY <2>1 DEF Stored
    <3> QED BY <3>1, FreeWalk
  <2> QED BY <2>1 DEF BlockInv
<1> QED BY <1>1, BlockInvCorrect, PTL

\* No block is in two places of files or free and in use.
THEOREM NoSharingCorrect ==
  ASSUME Truncations \subseteq CompleteTruncations, OpenTruncations \subseteq {0}
  PROVE  Spec => []NoSharing
<1>1. BlockInv => NoSharing  BY SharingNone DEF BlockInv
<1> QED BY <1>1, BlockInvCorrect, PTL

\* No block is lost as long as no write meets a full disk or a full inode.
THEOREM NoLeakCorrect ==
  ASSUME Truncations \subseteq CompleteTruncations, OpenTruncations \subseteq {0}
  PROVE  Spec /\ []Room => []NoLeak
<1>1. Init => ExactInv  BY InitInv
<1>2. ExactInv /\ [Next]_vars /\ Room' => ExactInv'  BY ExactStep
<1>3. ExactInv => NoLeak  BY LeakNone DEF ExactInv
<1> QED BY <1>1, <1>2, <1>3, PTL DEF Spec

--------------------
(* The files as sequences *)

\* The operators of FileMap are the usual ones.
LEMMA SameCardinality ==
  ASSUME NEW S
  PROVE  FileSpec!Cardinality(S) = Cardinality(S)
  BY DEF FileSpec!Cardinality, Cardinality

\* A prefix, by its definition.
LEMMA SamePrefix ==
  ASSUME NEW s, NEW t
  PROVE  FileSpec!IsPrefix(s, t) = (Len(s) <= Len(t) /\ SubSeq(s, 1, Len(s)) = SubSeq(t, 1, Len(s)))
  BY DEF FileSpec!IsPrefix

\* They are the blocks of the file.
LEMMA BlocksAre ==
  ASSUME NEW f, NEW F, NEW at, NEW node, File(f, F, at, node)
  PROVE  BlocksOf(f, node) = Row(at, node.blocks)
<1>1. node.blocks \in Nat  BY FileIs
<1>2. ASSUME NEW n \in 1 .. node.blocks
      PROVE  get_datablock_from_inode(f, node, n - 1, 0).block = at[Anc(n - 1, 0)]
  <2> DEFINE k == n - 1
  <2>1. k \in 0 .. (node.blocks - 1)  BY <1>1
  <2> HIDE DEF k
  <2>2. Trustable(at, k, 0)  BY DEF Trustable
  <2>3. get_datablock_from_inode(f, node, k, 0).block = at[Anc(k, 0)]  BY <2>1, <2>2, LookupIs
  <2> QED BY <2>3 DEF k
<1> QED BY <1>1, <1>2 DEF BlocksOf, Row

\* A row is a sequence of different blocks.
LEMMA RowIs ==
  ASSUME NEW at, NEW n \in 0 .. MaxBlocks, Shape(at, n)
  PROVE  /\ Len(Row(at, n)) = n /\ Row(at, n) \in Seq(Pool) /\ n \in Nat
         /\ \A j \in 1 .. n : Row(at, n)[j] = at[Anc(j - 1, 0)] /\ Row(at, n)[j] \in Img(at, Sites)
         /\ \A j, k \in 1 .. n : Row(at, n)[j] = Row(at, n)[k] => j = k
<1>1. n \in Nat /\ Placed(at)  BY Starts DEF Shape
<1>2. ASSUME NEW j \in 1 .. n
      PROVE  Anc(j - 1, 0) \in DOMAIN at /\ First(Anc(j - 1, 0)) = j - 1 /\ at[Anc(j - 1, 0)] \in Pool
             /\ at[Anc(j - 1, 0)] \in Img(at, Sites)
  <2> DEFINE k == j - 1
  <2>1. k \in 0 .. (n - 1)  BY <1>1
  <2> HIDE DEF k
  <2>2. Anc(k, 0) \in DOMAIN at /\ First(Anc(k, 0)) = k  BY <2>1, DataSite
  <2>3. at[Anc(k, 0)] \in Pool /\ Anc(k, 0) \in Sites  BY <1>1, <2>2 DEF Placed
  <2>4. at[Anc(k, 0)] \in Img(at, Sites)  BY <2>2, <2>3 DEF Img
  <2> QED BY <2>2, <2>3, <2>4 DEF k
<1>3. ASSUME NEW j \in 1 .. n, NEW k \in 1 .. n, at[Anc(j - 1, 0)] = at[Anc(k - 1, 0)] PROVE j = k
  <2>1. Anc(j - 1, 0) = Anc(k - 1, 0)  BY <1>1, <1>2, <1>3 DEF Placed
  <2>2. First(Anc(j - 1, 0)) = j - 1 /\ First(Anc(k - 1, 0)) = k - 1  BY <1>2
  <2>3. j - 1 = k - 1  BY <2>1, <2>2
  <2> QED BY <2>3
<1>4. \A j \in 1 .. n : Row(at, n)[j] = at[Anc(j - 1, 0)]  BY DEF Row
<1>5. Row(at, n) \in [1 .. n -> Pool]  BY <1>2 DEF Row
<1> QED BY <1>1, <1>2, <1>3, <1>4, <1>5

\* A file that keeps its first blocks.
LEMMA RowPrefix ==
  ASSUME NEW at, NEW n \in 0 .. MaxBlocks, Shape(at, n), NEW at2, NEW n2 \in 0 .. MaxBlocks, Shape(at2, n2), n <= n2,
         NEW K, K = 0 .. (n - 1), \A k \in K : at2[Anc(k, 0)] = at[Anc(k, 0)]
  PROVE  /\ FileSpec!IsPrefix(Row(at, n), Row(at2, n2))
         /\ \A j \in 1 .. n : Row(at2, n2)[j] = Row(at, n)[j]
<1> DEFINE s == Row(at, n)
           t == Row(at2, n2)
<1>1. Len(s) = n /\ s \in Seq(Pool) /\ n \in Nat /\ \A j \in 1 .. n : s[j] = at[Anc(j - 1, 0)]  BY RowIs
<1>2. Len(t) = n2 /\ t \in Seq(Pool) /\ n2 \in Nat /\ \A j \in 1 .. n2 : t[j] = at2[Anc(j - 1, 0)]
  BY RowIs
<1> HIDE DEF s, t
<1>3. ASSUME NEW j \in 1 .. n PROVE t[j] = s[j]
  <2>1. j \in 1 .. n2 /\ j - 1 \in K  BY <1>1, <1>2
  <2>2. at2[Anc(j - 1, 0)] = at[Anc(j - 1, 0)]  BY <2>1
  <2> QED BY <1>1, <1>2, <2>1, <2>2
<1>4. SubSeq(s, 1, n) = SubSeq(t, 1, n)  BY <1>1, <1>2, <1>3
<1>5. FileSpec!IsPrefix(s, t)  BY <1>1, <1>2, <1>4, SamePrefix
<1> QED BY <1>3, <1>5 DEF s, t

\* What is behind them is as many blocks as there are more.
LEMMA RowAdded ==
  ASSUME NEW s \in Seq(Pool), NEW t \in Seq(Pool), NEW n \in Nat, NEW m \in Nat, Len(s) = n, Len(t) = m, n <= m,
         \A j \in 1 .. n : t[j] = s[j], \A j, k \in 1 .. m : t[j] = t[k] => j = k
  PROVE  FileSpec!Cardinality(FileSpec!Range(t) \ FileSpec!Range(s)) = m - n
<1> DEFINE D == (n + 1) .. m
           T == {t[j] : j \in D}
           g == [j \in D |-> t[j]]
<1>1. FileSpec!Range(t) \ FileSpec!Range(s) = T
  <2>1. FileSpec!Range(t) = {t[j] : j \in 1 .. m} /\ FileSpec!Range(s) = {t[j] : j \in 1 .. n}
    BY DEF FileSpec!Range
  <2>2. \A j \in 1 .. m : j \in 1 .. n \/ j \in D  OBVIOUS
  <2>3. \A j \in D : j \in 1 .. m /\ \A k \in 1 .. n : t[j] # t[k]  OBVIOUS
  <2> QED BY <2>1, <2>2, <2>3
<1>2. IsFiniteSet(D) /\ Cardinality(D) = m - n
  <2>1. /\ IsFiniteSet(D)
        /\ Cardinality(D) = IF n + 1 > m THEN 0 ELSE m - (n + 1) + 1
    BY FS_Interval
  <2> QED BY <2>1
<1>3. g \in Bijection(D, T)
  <2>1. g \in [D -> T]  OBVIOUS
  <2>2. \A j, k \in D : g[j] = g[k] => j = k  OBVIOUS
  <2>3. \A b \in T : \E j \in D : g[j] = b  OBVIOUS
  <2> HIDE DEF g, T
  <2>4. g \in Injection(D, T)  BY <2>1, <2>2 DEF Injection, IsInjective
  <2>5. g \in Surjection(D, T)  BY <2>1, <2>3 DEF Surjection
  <2> QED BY <2>4, <2>5 DEF Bijection
<1>4. Cardinality(T) = Cardinality(D)
  <2> HIDE DEF g, T, D
  <2>1. ExistsBijection(D, T)  BY <1>3 DEF ExistsBijection
  <2> QED BY <1>2, <2>1, FS_Bijection
<1> QED BY <1>1, <1>2, <1>4, SameCardinality

--------------------
(* The requests do what FileMap says *)

\* The files of FileMap.
file == [i \in Inode |-> Blocks(i)]

\* They are what the inodes and their blocks say, before a step and after it.
LEMMA FileNow == \A i \in Inode : file[i] = BlocksOf(fs, inode[i])
  BY DEF file, Blocks, BlocksOf

\* The same after a step.
LEMMA FileThen == \A i \in Inode : file'[i] = BlocksOf(fs', inode'[i])
  BY DEF file, Blocks, BlocksOf

\* They are rows of different blocks.
LEMMA StoredRows ==
  ASSUME NEW f, NEW F, NEW at, NEW node, Stored(f, F, at, node), NEW i \in Inode
  PROVE  /\ BlocksOf(f, node[i]) = Row(at[i], node[i].blocks) /\ node[i].blocks \in 0 .. MaxBlocks
         /\ Shape(at[i], node[i].blocks)
<1>1. File(f, F, at[i], node[i])  BY DEF Stored
<1> QED BY <1>1, BlocksAre, FileIs

\* A request on one file does not change another.
LEMMA OthersStay ==
  ASSUME NEW F, NEW at, Stored(fs, F, at, inode), NEW i \in Inode, NEW F2, NEW atN, Stored(fs', F2, atN, inode'), NEW at2,
         Updated(at, atN, i, at2), Updated(inode, inode', i, inode'[i])
  PROVE  \A j \in Inode \ {i} : file'[j] = file[j]
<1>1. ASSUME NEW j \in Inode \ {i} PROVE file'[j] = file[j]
  <2>1. atN[j] = at[j] /\ inode'[j] = inode[j]  BY DEF Updated, Stored
  <2>2. file[j] = Row(at[j], inode[j].blocks)  BY StoredRows, FileNow
  <2>3. file'[j] = Row(atN[j], inode'[j].blocks)  BY StoredRows, FileThen
  <2> QED BY <2>1, <2>2, <2>3
<1> QED BY <1>1

\* The blocks in use.
LEMMA InUseIs == \A b : b \in FileSpec!InUse <=> \E j \in Inode : b \in FileSpec!Range(file[j])
  BY DEF FileSpec!InUse, file

\* A write adds blocks that no file has.
LEMMA GrowMaps ==
  ASSUME NEW F, NEW at, Stored(fs, F, at, inode), NEW i \in Inode, Serve, Grows(F, at, i)
  PROVE  FileSpec!Grow(i)
<1>1. PICK F2, at2, atN :
        /\ Stored(fs', F2, atN, inode') /\ Updated(at, atN, i, at2)
        /\ Grown(fs, F, at[i], inode[i], fs', F2, at2, inode'[i])
  BY GrowsTo
<1>2. Updated(inode, inode', i, inode'[i])  BY DEF Grows
<1> DEFINE n == inode[i].blocks
           m == inode'[i].blocks
           s == file[i]
           t == file'[i]
           added == FileSpec!Range(t) \ FileSpec!Range(s)
<1>3. atN[i] = at2  BY <1>1 DEF Updated
<1>4. s = Row(at[i], n) /\ n \in 0 .. MaxBlocks /\ Shape(at[i], n)  BY StoredRows, FileNow
<1>5. t = Row(at2, m) /\ m \in 0 .. MaxBlocks /\ Shape(at2, m)
  <2>1. /\ BlocksOf(fs', inode'[i]) = Row(atN[i], inode'[i].blocks) /\ inode'[i].blocks \in 0 .. MaxBlocks
        /\ Shape(atN[i], inode'[i].blocks)
    BY <1>1, StoredRows
  <2> QED BY <2>1, <1>3, FileThen
<1> DEFINE K == 0 .. (n - 1)
<1>6. n <= m /\ \A k \in K : at2[Anc(k, 0)] = at[i][Anc(k, 0)]  BY <1>1 DEF Grown
<1> HIDE DEF n, m
<1>7. /\ Len(s) = n /\ s \in Seq(Pool) /\ n \in Nat
      /\ \A j \in 1 .. n : s[j] \in Img(at[i], Sites)
  <2>1. /\ Len(Row(at[i], n)) = n /\ Row(at[i], n) \in Seq(Pool) /\ n \in Nat
        /\ \A j \in 1 .. n : Row(at[i], n)[j] = at[i][Anc(j - 1, 0)] /\ Row(at[i], n)[j] \in Img(at[i], Sites)
    BY <1>4, RowIs
  <2> QED BY <2>1, <1>4
<1>8. /\ Len(t) = m /\ t \in Seq(Pool) /\ m \in Nat
      /\ \A j \in 1 .. m : t[j] \in Img(at2, Sites)
      /\ \A j, k \in 1 .. m : t[j] = t[k] => j = k
  <2>1. /\ Len(Row(at2, m)) = m /\ Row(at2, m) \in Seq(Pool) /\ m \in Nat
        /\ \A j \in 1 .. m : Row(at2, m)[j] = at2[Anc(j - 1, 0)] /\ Row(at2, m)[j] \in Img(at2, Sites)
        /\ \A j, k \in 1 .. m : Row(at2, m)[j] = Row(at2, m)[k] => j = k
    BY <1>5, RowIs
  <2> QED BY <2>1, <1>5
<1> HIDE DEF K
<1>9. FileSpec!IsPrefix(Row(at[i], n), Row(at2, m)) /\ \A j \in 1 .. n : Row(at2, m)[j] = Row(at[i], n)[j]
  BY <1>4, <1>5, <1>6, RowPrefix DEF K
<1>10. FileSpec!IsPrefix(s, t) /\ \A j \in 1 .. n : t[j] = s[j]  BY <1>4, <1>5, <1>9
<1> HIDE DEF s, t
<1>11. FileSpec!Cardinality(FileSpec!Range(t) \ FileSpec!Range(s)) = m - n
  BY <1>6, <1>7, <1>8, <1>10, RowAdded
<1>12. FileSpec!Cardinality(added) = Len(t) - Len(s)  BY <1>7, <1>8, <1>11
<1>13. ASSUME NEW b \in added PROVE b \in Pool /\ b \notin FileSpec!InUse
  <2>1. PICK k \in 1 .. m : b = t[k]
    BY <1>8, <1>13 DEF FileSpec!Range
  <2>2. b \in Pool /\ b \in Img(at2, Sites)  BY <2>1, <1>8
  <2>3. ASSUME NEW j \in Inode, b \in FileSpec!Range(file[j]) PROVE FALSE
    <3>1. CASE j = i
      BY <2>3, <3>1, <1>13 DEF s
    <3>2. CASE j # i
      <4> DEFINE N == inode[j].blocks
      <4>1. file[j] = Row(at[j], N) /\ N \in 0 .. MaxBlocks /\ Shape(at[j], N)  BY StoredRows, FileNow
      <4> HIDE DEF N
      <4>2. /\ Len(Row(at[j], N)) = N /\ Row(at[j], N) \in Seq(Pool)
            /\ \A l \in 1 .. N : Row(at[j], N)[l] = at[j][Anc(l - 1, 0)] /\ Row(at[j], N)[l] \in Img(at[j], Sites)
        BY <4>1, RowIs
      <4>3. PICK l \in DOMAIN file[j] : b = file[j][l]
        BY <2>3 DEF FileSpec!Range
      <4>4. b \in Img(at[j], Sites)  BY <4>1, <4>2, <4>3
      <4>5. atN[j] = at[j]  BY <1>1, <3>2 DEF Updated, Stored
      <4>6. Img(atN[i], Sites) \intersect Img(atN[j], Sites) = {}  BY <1>1, <3>2 DEF Stored
      <4> QED BY <2>2, <4>4, <4>5, <4>6, <1>3
    <3> QED BY <3>1, <3>2
  <2> QED BY <2>2, <2>3, InUseIs
<1>14. added \subseteq Pool \ FileSpec!InUse  BY <1>13
<1>15. \A j \in Inode \ {i} : file'[j] = file[j]  BY <1>1, <1>2, OthersStay
<1>16. FileSpec!Others(i)  BY <1>15 DEF FileSpec!Others, file
<1>17. seen' = << >>  BY DEF Serve
<1> QED BY <1>10, <1>12, <1>14, <1>16, <1>17 DEF FileSpec!Grow, s, t, file

\* A truncation keeps the first blocks.
LEMMA ShrinkMaps ==
  ASSUME NEW F, NEW at, Stored(fs, F, at, inode), NEW i \in Inode, Serve, Shrinks(F, at, i)
  PROVE  FileSpec!Shrink(i)
<1>1. PICK F2, at2, atN :
        /\ Stored(fs', F2, atN, inode') /\ Updated(at, atN, i, at2)
        /\ Lessened(fs, F, at[i], inode[i], fs', F2, at2, inode'[i])
  BY ShrinksTo
<1>2. Updated(inode, inode', i, inode'[i])  BY DEF Shrinks
<1> DEFINE n == inode[i].blocks
           m == inode'[i].blocks
           s == file[i]
           t == file'[i]
<1>3. atN[i] = at2  BY <1>1 DEF Updated
<1>4. s = Row(at[i], n) /\ n \in 0 .. MaxBlocks /\ Shape(at[i], n)  BY StoredRows, FileNow
<1>5. t = Row(at2, m) /\ m \in 0 .. MaxBlocks /\ Shape(at2, m)
  <2>1. /\ BlocksOf(fs', inode'[i]) = Row(atN[i], inode'[i].blocks) /\ inode'[i].blocks \in 0 .. MaxBlocks
        /\ Shape(atN[i], inode'[i].blocks)
    BY <1>1, StoredRows
  <2> QED BY <2>1, <1>3, FileThen
<1>6. m <= n /\ \A q \in DOMAIN at2 : at2[q] = at[i][q]  BY <1>1 DEF Lessened
<1> DEFINE K == 0 .. (m - 1)
<1> HIDE DEF n, m
<1>7. \A k \in K : at[i][Anc(k, 0)] = at2[Anc(k, 0)]  BY <1>5, <1>6, DataSite
<1> HIDE DEF K
<1>8. FileSpec!IsPrefix(Row(at2, m), Row(at[i], n))  BY <1>4, <1>5, <1>6, <1>7, RowPrefix DEF K
<1>9. FileSpec!IsPrefix(t, s)  BY <1>4, <1>5, <1>8
<1>10. \A j \in Inode \ {i} : file'[j] = file[j]  BY <1>1, <1>2, OthersStay
<1> HIDE DEF s, t
<1>11. FileSpec!Others(i)  BY <1>10 DEF FileSpec!Others, file
<1>12. seen' = << >>  BY DEF Serve
<1> QED BY <1>9, <1>11, <1>12 DEF FileSpec!Shrink, s, t, file

\* A read goes through the last blocks, in order.
LEMMA ReadMaps ==
  ASSUME NEW F, NEW at, Stored(fs, F, at, inode), NEW i \in Inode, NEW n \in 0 .. (inode[i].blocks - 1), fs_read(i, n)
  PROVE  FileSpec!Read(i)
<1> DEFINE N == inode[i].blocks
           t == file[i]
           m == N - n
           s == [j \in 1 .. m |-> at[i][Anc((n + j) - 1, 0)]]
<1>1. seen' = s /\ N \in Nat  BY ReadBlocks
<1>2. t = Row(at[i], N) /\ N \in 0 .. MaxBlocks /\ Shape(at[i], N)  BY StoredRows, FileNow
<1>3. n \in Nat /\ n < N /\ m \in Nat /\ m >= 1 /\ m <= N /\ n + m = N
  <2>1. N \in Nat /\ n \in 0 .. (N - 1)  BY <1>1
  <2> HIDE DEF N
  <2> QED BY <2>1
<1> HIDE DEF N, m
<1>4. /\ Len(Row(at[i], N)) = N /\ Row(at[i], N) \in Seq(Pool)
      /\ \A j \in 1 .. N : Row(at[i], N)[j] = at[i][Anc(j - 1, 0)] /\ Row(at[i], N)[j] \in Img(at[i], Sites)
  BY <1>2, RowIs
<1>5. Len(t) = N /\ t \in Seq(Pool) /\ \A j \in 1 .. N : t[j] = at[i][Anc(j - 1, 0)]  BY <1>2, <1>4
<1> HIDE DEF t
<1>6. Len(s) = m /\ s # << >> /\ \A j \in 1 .. m : s[j] = t[n + j]
  <2>1. Len(s) = m /\ s # << >>  BY <1>3
  <2>2. ASSUME NEW j \in 1 .. m PROVE s[j] = t[n + j]
    <3>1. n + j \in 1 .. N  BY <1>3
    <3>2. t[n + j] = at[i][Anc((n + j) - 1, 0)]  BY <3>1, <1>5
    <3> QED BY <3>2
  <2> QED BY <2>1, <2>2
<1> HIDE DEF s
<1> DEFINE rs == FileSpec!Reverse(s)
           rt == FileSpec!Reverse(t)
<1>7. rs = [j \in 1 .. m |-> s[(m - j) + 1]] /\ rt = [j \in 1 .. N |-> t[(N - j) + 1]]
  BY <1>5, <1>6 DEF FileSpec!Reverse
<1>8. ASSUME NEW j \in 1 .. m PROVE rs[j] = rt[j]
  <2> DEFINE k == (m - j) + 1
  <2>1. k \in 1 .. m /\ n + k = (N - j) + 1 /\ j \in 1 .. N  BY <1>1, <1>3
  <2>2. rs[j] = s[k] /\ rt[j] = t[(N - j) + 1]  BY <1>7, <2>1
  <2> HIDE DEF k, rs, rt
  <2> QED BY <2>1, <2>2, <1>6
<1> HIDE DEF rs, rt
<1>9. Len(rs) = m /\ Len(rt) = N /\ SubSeq(rs, 1, m) = SubSeq(rt, 1, m)
  <2>1. \A j \in 1 .. N : (N - j) + 1 \in 1 .. N /\ t[(N - j) + 1] \in Pool  BY <1>1, <1>5
  <2>2. rt \in [1 .. N -> Pool]  BY <1>7, <2>1
  <2>3. \A j \in 1 .. m : j \in 1 .. N  BY <1>1, <1>3
  <2>4. rs \in [1 .. m -> Pool]  BY <1>7, <1>8, <2>2, <2>3
  <2>5. Len(rs) = m /\ Len(rt) = N /\ rs \in Seq(Pool) /\ rt \in Seq(Pool)  BY <1>1, <1>3, <2>2, <2>4
  <2> QED BY <1>1, <1>3, <1>8, <2>3, <2>5
<1>10. FileSpec!IsPrefix(rs, rt)  BY <1>3, <1>9, SamePrefix
<1>11. FileSpec!IsSuffix(seen', t)  BY <1>1, <1>10 DEF FileSpec!IsSuffix, rs, rt
<1>12. file' = file  BY ReadIs DEF file, Blocks
<1> QED BY <1>1, <1>6, <1>11, <1>12 DEF FileSpec!Read, t, file

\* An empty disk.
LEMMA InitMaps ==
  ASSUME Init
  PROVE  FileSpec!Init
<1>1. \A i \in Inode : inode[i].blocks = 0  BY EmptyInodeIs DEF Init
<1>2. \A i \in Inode : Blocks(i) = << >>  BY <1>1 DEF Blocks
<1> QED BY <1>2 DEF FileSpec!Init, Init

\* Every step is a step of FileMap, or changes nothing of it.
LEMMA NextMaps ==
  ASSUME Truncations \subseteq CompleteTruncations, OpenTruncations \subseteq {0}, BlockInv, [Next]_vars
  PROVE  [FileSpec!Next]_FileSpec!vars
<1>1. PICK F, at : Stored(fs, F, at, inode)
  BY DEF BlockInv
<1>2. CASE UNCHANGED vars
  BY <1>2 DEF vars, FileSpec!vars, Blocks
<1>3. CASE Next
  <2>1. PICK i \in Inode : \/ Serve /\ Grows(F, at, i)
                           \/ Serve /\ Shrinks(F, at, i)
                           \/ \E n \in 0 .. (inode[i].blocks - 1) : fs_read(i, n)
    BY <1>1, <1>3, NextIs
  <2>2. FileSpec!Grow(i) \/ FileSpec!Shrink(i) \/ FileSpec!Read(i)
    BY <1>1, <2>1, GrowMaps, ShrinkMaps, ReadMaps
  <2> QED BY <2>2 DEF FileSpec!Next
<1> QED BY <1>2, <1>3

\* The block map does for the files what FileMap says: they grow and shrink at their ends, by blocks of their own.
THEOREM FileMapCorrect ==
  ASSUME Truncations \subseteq CompleteTruncations, OpenTruncations \subseteq {0}
  PROVE  Spec => ImplementsFileMap
<1>1. Init => FileSpec!Init  BY InitMaps
<1>2. BlockInv /\ [Next]_vars => [FileSpec!Next]_FileSpec!vars  BY NextMaps
<1> QED BY <1>1, <1>2, BlockInvCorrect, PTL DEF Spec, ImplementsFileMap, FileSpec!Spec
=============================================================================
