------------------------------ MODULE BlockSites ------------------------------
(***************************************************************************)
(* Where the blocks of a file are: the words in which BlockMapProofs says  *)
(* what holds of the disk.  A file is a function at from sites to blocks;  *)
(* the blocks of addresses and the inode say the same, and what is not at  *)
(* a site of a file is free.                                               *)
(***************************************************************************)
EXTENDS BlockMap, Truncations, Facts

\* The addresses in a block, and the data blocks below a double and a triple indirect block.
A  == NUM_OF_ADDRESSES_PER_BLOCK
A2 == NUM_OF_DOUBLE_INDIRECT_BLOCK_ADDR
A3 == NUM_OF_TRIPLE_INDIRECT_BLOCK_ADDR

\* The logical blocks below a block at height h: data at 0, addresses of data at 1.
W(h) == IF h = 0 THEN 1 ELSE IF h = 1 THEN A ELSE IF h = 2 THEN A2 ELSE A3

\* The first logical block of root r: 0 stands for the direct addresses.
Start(r) ==
  IF r = 0 THEN 0 ELSE IF r = 1 THEN SingleStart ELSE IF r = 2 THEN DoubleStart
  ELSE IF r = 3 THEN TripleStart ELSE MaxBlocks

\* The number of sites of root r at height h.
Width(r, h) == IF r = 0 THEN NUM_DIRECT_BLOCKS ELSE W(r - h)

\* The sites of a file: root, height, and place among those of the same root and height.
Sites == {q \in (0 .. 3) \X (0 .. 3) \X Nat : q[2] <= q[1] /\ q[3] < Width(q[1], q[2])}

\* The site below q that entry k leads to.
Kid(q, k) == <<q[1], q[2] - 1, q[3] * A + k>>

\* The first logical block below a site.
First(q) == Start(q[1]) + q[3] * W(q[2])

\* The sites that a file of n blocks needs.
Reg(n) == {q \in Sites : First(q) < n}

\* The block above a site, and the entry of the site in it.
Up(q) == <<q[1], q[2] + 1, q[3] \div A>>
Slot(q) == q[3] % A

\* The root that logical block n is below.
Lev(n) == IF n < SingleStart THEN 0 ELSE IF n < DoubleStart THEN 1 ELSE IF n < TripleStart THEN 2 ELSE 3

\* The site at height h above logical block n.
Anc(n, h) == <<Lev(n), h, (n - Start(Lev(n))) \div W(h)>>

\* F is the set of the free blocks: those on the free list and those never allocated.
FreeIs(f, F) ==
  /\ f \in FileSystem /\ f.maxAlloc \in FirstDataBlock .. NUM_OF_DATA_BLOCKS
  /\ \E c \in Seq(Pool) :
       /\ Chain([b \in DataRegion |-> f.blk[b][0]], f.freelist_head, c)
       /\ Elements(c) \subseteq FirstDataBlock .. (f.maxAlloc - 1)
       /\ F = Elements(c) \union (f.maxAlloc .. (NUM_OF_DATA_BLOCKS - 1))
       /\ \A b \in Elements(c) : \A w \in Word \ {0} : f.blk[b][w] = 0

\* Two arrays of blocks that differ in the blocks X at most.
SameBut(bk, bk2, X) == \A b \in DataRegion \ X : bk2[b] = bk[b]

\* A site and the sites below it.
Below(q) ==
  {p \in Sites : p[1] = q[1] /\ p[2] <= q[2] /\ First(q) <= First(p) /\ First(p) < First(q) + W(q[2])}

\* The sites below the first k entries of a site.
Under(q, k) ==
  {p \in Sites : p[1] = q[1] /\ p[2] < q[2] /\ First(q) <= First(p) /\ First(p) < First(q) + k * W(q[2] - 1)}

\* No block at two sites.
Placed(at) ==
  /\ DOMAIN at \subseteq Sites
  /\ \A q \in DOMAIN at : at[q] \in Pool
  /\ \A q, p \in DOMAIN at : at[q] = at[p] => q = p

\* Nothing is below an entry that has no block, and no entry behind one.
Ordered(at) ==
  \A q \in Sites : q[2] # 0 =>
    \A k \in Word :
      /\ \A p \in DOMAIN at : p \in Below(Kid(q, k)) => Kid(q, k) \in DOMAIN at
      /\ \A j \in Word : j < k /\ Kid(q, k) \in DOMAIN at => Kid(q, j) \in DOMAIN at

EntryAt(at, q, k) == IF Kid(q, k) \in DOMAIN at THEN at[Kid(q, k)] ELSE 0

\* The block at a site holds the addresses of the blocks below.
Points(blk, at, q) == \A k \in Word : blk[at[q]][k] = EntryAt(at, q, k)

\* The blocks at the sites S.
Img(at, S) == {at[p] : p \in S \intersect DOMAIN at}

\* What is below q is in use and linked.
Held(f, F, at, q) ==
  /\ FreeIs(f, F)
  /\ \A p \in Below(q) \intersect DOMAIN at :
       at[p] \notin F /\ (p[2] # 0 => Points(f.blk, at, p))

\* The blocks X are given up, nothing else changes.
Freed(f, F, f2, X) == FreeIs(f2, F \union X) /\ SameBut(f.blk, f2.blk, X)

\* Below the triple indirect block a double one can be left of a write for which the disk had
\* too few blocks: it is the next one there, and has nothing below it.
Stale(n) == {q \in Sites : q[1] = 3 /\ q[2] = 2 /\ TripleStart < n /\ n <= First(q) /\ First(q) < n + A2}

\* The sites that have a block, in a file of n blocks.
Shape(at, n) == Placed(at) /\ Reg(n) \subseteq DOMAIN at /\ DOMAIN at \subseteq Reg(n) \union Stale(n)

Root(r) == <<r, r, 0>>

\* The blocks of a file: at says where they are.
File(f, F, at, node) ==
  /\ FreeIs(f, F)
  /\ node \in InodeStruct
  /\ Shape(at, node.blocks)
  /\ \A q \in DOMAIN at : at[q] \notin F /\ (q[2] # 0 => Points(f.blk, at, q))
  /\ \A k \in 0 .. (NUM_DIRECT_BLOCKS - 1) : k < node.blocks => node.directAddresses[k] = at[<<0, 0, k>>]
  /\ \A r \in 1 .. 3 : Start(r) < node.blocks => node[Roots[r]] = at[Root(r)]

\* A request on a file uses the free blocks and its own.
Turn(f, F, at, f2, F2, at2) ==
  /\ F2 \union Img(at2, Sites) \subseteq F \union Img(at, Sites)
  /\ SameBut(f.blk, f2.blk, F \union Img(at, Sites))

\* The blocks at some of the sites.
Kept(at, K) == [q \in K |-> at[q]]

\* The entries to follow from the root of site q to it.
PathTo(q) ==
  IF q[2] = q[1] THEN << >> ELSE IF q[2] + 1 = q[1] THEN <<Slot(q)>> ELSE <<Slot(Up(q)), Slot(q)>>

\* The place of the block at site q of inode i.
PlaceOf(i, q) ==
  IF q[2] = 0 THEN [inode |-> i, block |-> First(q)]
  ELSE [inode |-> i, root |-> Roots[q[1]], path |-> PathTo(q)]

\* A lookup that a cached block of addresses can be trusted in.
Trustable(at, k, prev) == prev = 0 \/ Slot(Anc(k, 0)) = 0 \/ Lev(k) \in {0, 1} \/ prev = at[Anc(k, 1)]

\* A file that grew, or kept its blocks: nothing is lost of one that had no stale block, unless
\* the disk or the file is full.
Grown(f, F, at, node, f2, F2, at2, node2) ==
  /\ File(f2, F2, at2, node2) /\ F2 \subseteq F /\ Turn(f, F, at, f2, F2, at2)
  /\ node.blocks <= node2.blocks
  /\ \A k \in 0 .. (node.blocks - 1) : at2[Anc(k, 0)] = at[Anc(k, 0)]
  /\ DOMAIN at = Reg(node.blocks) /\ F2 # {} /\ node2.blocks < MaxBlocks
       => DOMAIN at2 = Reg(node2.blocks) /\ F2 \union Img(at2, Sites) = F \union Img(at, Sites)

\* A file that has become shorter, or stayed: it gave up what it no longer needs.
Lessened(f, F, at, node, f2, F2, at2, node2) ==
  /\ File(f2, F2, at2, node2) /\ Turn(f, F, at, f2, F2, at2)
  /\ node2.blocks <= node.blocks
  /\ \A q \in DOMAIN at2 : q \in DOMAIN at /\ at2[q] = at[q]
  /\ DOMAIN at = Reg(node.blocks)
       => DOMAIN at2 = Reg(node2.blocks) /\ F2 \union Img(at2, Sites) = F \union Img(at, Sites)

\* F is the set of the free blocks, at[i] says where the blocks of inode i are: no block is in two files.
Stored(f, F, at, node) ==
  /\ FreeIs(f, F) /\ DOMAIN at = Inode /\ DOMAIN node = Inode
  /\ \A i \in Inode : File(f, F, at[i], node[i])
  /\ \A i, j \in Inode : i # j => Img(at[i], Sites) \intersect Img(at[j], Sites) = {}

\* Nothing is lost.
Exact(F, at, node) ==
  /\ \A i \in Inode : DOMAIN at[i] = Reg(node[i].blocks)
  /\ \A b \in Pool : b \in F \/ \E i \in Inode : b \in Img(at[i], Sites)

\* A function with another value.
Updated(g, g2, i, v) == DOMAIN g2 = DOMAIN g /\ g2[i] = v /\ \A j \in DOMAIN g : j # i => g2[j] = g[j]

\* The blocks of a file of n blocks, in order.
Row(at, n) == [k \in 1 .. n |-> at[Anc(k - 1, 0)]]

\* The blocks that the lookup finds.
BlocksOf(f, node) == [n \in 1 .. node.blocks |-> get_datablock_from_inode(f, node, n - 1, 0).block]
=============================================================================
