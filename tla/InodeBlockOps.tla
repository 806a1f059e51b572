--------------------------- MODULE InodeBlockOps ---------------------------
(***************************************************************************)
(* The blocks of an inode (inode.cpp): the direct addresses and the trees  *)
(* of single, double and triple indirect blocks, as state transformers on  *)
(* the data block layer fs and an inode in memory, node.                   *)
(*                                                                         *)
(* A pointer that read_data_block refuses is dereferenced as NULL by the   *)
(* code; here it is an application outside the domain of fs.blk.           *)
(***************************************************************************)
EXTENDS DataBlockOps, Sequences, SequencesExt

CONSTANT NUM_DIRECT_BLOCKS   \* direct addresses of an inode

ASSUME DirectAssumption == NUM_DIRECT_BLOCKS \in Nat \ {0}

NUM_OF_SINGLE_INDIRECT_BLOCK_ADDR == NUM_OF_ADDRESSES_PER_BLOCK
NUM_OF_DOUBLE_INDIRECT_BLOCK_ADDR == NUM_OF_SINGLE_INDIRECT_BLOCK_ADDR * NUM_OF_SINGLE_INDIRECT_BLOCK_ADDR
NUM_OF_TRIPLE_INDIRECT_BLOCK_ADDR == NUM_OF_DOUBLE_INDIRECT_BLOCK_ADDR * NUM_OF_SINGLE_INDIRECT_BLOCK_ADDR

\* The first logical block of each level.
SingleStart == NUM_DIRECT_BLOCKS
DoubleStart == SingleStart + NUM_OF_SINGLE_INDIRECT_BLOCK_ADDR
TripleStart == DoubleStart + NUM_OF_DOUBLE_INDIRECT_BLOCK_ADDR
MaxBlocks   == TripleStart + NUM_OF_TRIPLE_INDIRECT_BLOCK_ADDR

Roots == <<"singleIndirect", "doubleIndirect", "tripleIndirect">>

\* The fields of inodeStruct that say where the blocks are.
InodeStruct ==
  [blocks : 0 .. MaxBlocks,
   directAddresses : [0 .. (NUM_DIRECT_BLOCKS - 1) -> Int],
   singleIndirect : Int, doubleIndirect : Int, tripleIndirect : Int]

EmptyInode ==
  [blocks |-> 0,
   directAddresses |-> [n \in 0 .. (NUM_DIRECT_BLOCKS - 1) |-> 0],
   singleIndirect |-> 0, doubleIndirect |-> 0, tripleIndirect |-> 0]

\* Where the address of logical block n >= NUM_DIRECT_BLOCKS is: the root to
\* start from, the entries to follow down to the block of addresses, and the
\* entry there.
Route(n) ==
  LET A == NUM_OF_ADDRESSES_PER_BLOCK
      d == n - DoubleStart
      t == n - TripleStart
  IN  IF n < DoubleStart
      THEN [root |-> "singleIndirect", path |-> << >>, entry |-> n - SingleStart]
      ELSE IF n < TripleStart
      THEN [root |-> "doubleIndirect", path |-> <<d \div A>>, entry |-> d % A]
      ELSE [root |-> "tripleIndirect",
            path |-> <<t \div NUM_OF_DOUBLE_INDIRECT_BLOCK_ADDR, (t \div A) % A>>, entry |-> t % A]

Entry(fs, p, k) == IF p <= 0 THEN -1 ELSE fs.blk[p][k]

Follow(fs, p, path) ==
  CASE Len(path) = 0 -> p
    [] Len(path) = 1 -> Entry(fs, p, path[1])
    [] Len(path) = 2 -> Entry(fs, Entry(fs, p, path[1]), path[2])

-----------------------------------------------------------------------------
(* add_datablock_to_inode *)

\* A new root of a tree, when block r is the first one below it.
NewRoot(fs, p, isFirst) ==
  LET new == allocate_data_block(fs)
  IN  IF ~isFirst THEN [fs |-> fs, ptr |-> p, ok |-> TRUE]
      ELSE IF new.ret = -1 THEN [fs |-> new.fs, ptr |-> p, ok |-> FALSE]
      ELSE [fs |-> new.fs, ptr |-> new.ret, ok |-> TRUE]

\* The block below entry k of the indirect block at.ptr, a new one when isFirst.
\* The block is read before the allocation and written whole after it.
Child(at, k, isFirst) ==
  LET block == at.fs.blk[at.ptr]
      new   == allocate_data_block(at.fs)
  IN  IF ~at.ok THEN at
      ELSE IF ~isFirst THEN [at EXCEPT !.ptr = block[k]]
      ELSE IF new.ret = -1 THEN [fs |-> new.fs, ptr |-> 0, ok |-> FALSE]
      ELSE [fs |-> write_data_block(new.fs, at.ptr, [block EXCEPT ![k] = new.ret]),
            ptr |-> new.ret, ok |-> TRUE]

\* A new root stays in the inode when a later allocation fails, and nothing
\* that was allocated is given back.
add_datablock_to_inode(fs, node, data_block_num) ==
  LET n    == node.blocks
      r    == Route(n)
      root == NewRoot(fs, node[r.root], n \in {SingleStart, DoubleStart, TripleStart})
      at   == CASE Len(r.path) = 0 -> root
                [] Len(r.path) = 1 -> Child(root, r.path[1], r.entry = 0)
                [] Len(r.path) = 2 -> Child(Child(root, r.path[1], r.entry = 0 /\ r.path[2] = 0),
                                            r.path[2], r.entry = 0)
      node1 == [node EXCEPT ![r.root] = root.ptr]
      leaf  == [at.fs.blk[at.ptr] EXCEPT ![r.entry] = data_block_num]
  IN  IF n < NUM_DIRECT_BLOCKS
      THEN [fs |-> fs, ok |-> TRUE,
            node |-> [node EXCEPT !.directAddresses[n] = data_block_num, !.blocks = n + 1]]
      ELSE IF n >= MaxBlocks THEN [fs |-> fs, ok |-> FALSE, node |-> node]
      ELSE IF ~at.ok \/ (r.path # << >> /\ at.ptr <= 0) THEN [fs |-> at.fs, ok |-> FALSE, node |-> node1]
      ELSE [fs |-> write_data_block(at.fs, at.ptr, leaf), ok |-> TRUE,
            node |-> [node1 EXCEPT !.blocks = n + 1]]

-----------------------------------------------------------------------------
(* get_datablock_from_inode *)

\* prev_indirect_block, the block of addresses that the last lookup went
\* through, is trusted by a lookup that is not at entry 0.
TrustsPrevAlways(entry, prev) == prev # 0   \* mutant: no test of the entry
TrustsPrev(entry, prev) == entry # 0 /\ prev # 0

get_datablock_from_inode(fs, node, n, prev) ==
  LET r    == Route(n)
      leaf == Follow(fs, node[r.root], r.path)
  IN  IF n > node.blocks THEN [block |-> -1, prev |-> prev]
      ELSE IF n < NUM_DIRECT_BLOCKS THEN [block |-> node.directAddresses[n], prev |-> prev]
      ELSE IF node[r.root] = 0 THEN [block |-> -1, prev |-> prev]
      ELSE IF r.root = "singleIndirect"
      THEN [block |-> fs.blk[leaf][r.entry], prev |-> prev]
      ELSE IF TrustsPrev(r.entry, prev)
      THEN [block |-> fs.blk[prev][r.entry], prev |-> prev]
      ELSE IF leaf <= 0 THEN [block |-> -1, prev |-> prev]
      ELSE [block |-> fs.blk[leaf][r.entry], prev |-> leaf]

-----------------------------------------------------------------------------
(* remove_datablocks_nested *)

\* The entries of an indirect block up to the first 0.
UntilZero(block) ==
  LET n == CHOOSE n \in 0 .. NUM_OF_SINGLE_INDIRECT_BLOCK_ADDR :
             /\ n = NUM_OF_SINGLE_INDIRECT_BLOCK_ADDR \/ block[n] = 0
             /\ \A m \in 0 .. (n - 1) : block[m] # 0
  IN  [k \in 1 .. n |-> block[k - 1]]

\* What is below p, as p held it at the start, and p itself.  The results of
\* the calls are not looked at.
FreeBelow(fs, p, FreeEntry(_, _)) ==
  IF p <= 0 THEN fs
  ELSE free_data_block(FoldLeft(FreeEntry, fs, UntilZero(fs.blk[p])), p).fs

Nested1(fs, p) == FreeBelow(fs, p, LAMBDA f, b : free_data_block(f, b).fs)
Nested2(fs, p) == FreeBelow(fs, p, Nested1)
Nested3(fs, p) == FreeBelow(fs, p, Nested2)

\* One call of remove_datablocks_nested by remove_datablocks_range_from_inode.
DropRoot(st, root) ==
  LET p == st.node[root]
  IN  IF ~st.ok \/ p <= 0 THEN [st EXCEPT !.ok = FALSE]
      ELSE [fs |-> CASE root = "singleIndirect" -> Nested1(st.fs, p)
                     [] root = "doubleIndirect" -> Nested2(st.fs, p)
                     [] root = "tripleIndirect" -> Nested3(st.fs, p),
            node |-> [st.node EXCEPT ![root] = 0], ok |-> TRUE]

-----------------------------------------------------------------------------
(* remove_datablocks_range_from_inode *)

\* Mutant: the entries that were freed stay in the array.
FreeEntriesStale(fs, addr, from, upto) ==
  FoldLeft(LAMBDA st, k :
             LET freed == free_data_block(st.fs, addr[k])
             IN  IF ~st.ok THEN st ELSE [st EXCEPT !.fs = freed.fs, !.ok = freed.ok],
           [fs |-> fs, addr |-> addr, ok |-> TRUE],
           [k \in 1 .. (IF upto > from THEN upto - from ELSE 0) |-> from + k - 1])

\* Frees entries from .. upto - 1 of an array of addresses and zeroes them in
\* memory, up to the first one that free_data_block refuses.
FreeEntries(fs, addr, from, upto) ==
  FoldLeft(LAMBDA st, k :
             LET freed == free_data_block(st.fs, addr[k])
             IN  IF ~st.ok THEN st
                 ELSE [fs |-> freed.fs, ok |-> freed.ok,
                       addr |-> IF freed.ok THEN [st.addr EXCEPT ![k] = 0] ELSE st.addr],
           [fs |-> fs, addr |-> addr, ok |-> TRUE],
           [k \in 1 .. (IF upto > from THEN upto - from ELSE 0) |-> from + k - 1])

Least(a, b) == IF a < b THEN a ELSE b

WriteBack(st, p, freed) ==
  [st EXCEPT !.fs = IF freed.ok THEN write_data_block(freed.fs, p, freed.addr) ELSE freed.fs,
             !.ok = freed.ok]

\* The same on an indirect block, which is written back unless it failed.
TrimBlock(st, p, from, upto) ==
  WriteBack(st, p, FreeEntries(st.fs, st.fs.blk[p], from,
                               Least(upto, NUM_OF_SINGLE_INDIRECT_BLOCK_ADDR)))

\* Mutant: frees p in every case.
FreeAlways(st, wanted, p) ==
  LET freed == free_data_block(st.fs, p)
  IN  IF st.ok THEN [st EXCEPT !.fs = freed.fs, !.ok = freed.ok] ELSE st

\* Frees block p when the code does, and keeps the failure.
FreeIf(st, wanted, p) ==
  LET freed == free_data_block(st.fs, p)
  IN  IF st.ok /\ wanted THEN [st EXCEPT !.fs = freed.fs, !.ok = freed.ok] ELSE st

\* end counts from entry 0 of the current block; the loop stops in the block
\* where it falls.
PastBlock(st, from) ==
  IF ~st.ok THEN st
  ELSE IF from <= st.end /\ st.end <= NUM_OF_SINGLE_INDIRECT_BLOCK_ADDR
  THEN [st EXCEPT !.reached = TRUE]
  ELSE [st EXCEPT !.end = @ - NUM_OF_SINGLE_INDIRECT_BLOCK_ADDR]

\* The loop over the entries j = first, ... of the double indirect block dind.
\* Entry k0 of the block under d0, and entry 0 of the others, is where the
\* freeing starts; a block trimmed from 0 is freed, but its entry in dind stays.
TrimLeaves(fs, dind, first, d0, k0, end0) ==
  FoldLeft(LAMBDA st, j :
             LET from == IF j = d0 THEN k0 ELSE 0
             IN  IF ~st.ok \/ st.reached THEN st
                 ELSE IF dind[j] <= 0 THEN [st EXCEPT !.ok = FALSE]
                 ELSE PastBlock(FreeIf(TrimBlock(st, dind[j], from, st.end), from = 0, dind[j]), from),
           [fs |-> fs, end |-> end0, ok |-> TRUE, reached |-> FALSE],
           [k \in 1 .. (NUM_OF_SINGLE_INDIRECT_BLOCK_ADDR - first) |-> first + k - 1])

\* The loop over the triple indirect block.  d0 and k0 are used in every
\* round, and a double indirect block is freed when the loop over it starts at 0.
TrimTriple(fs, tind, t0, d0, k0, end0) ==
  FoldLeft(LAMBDA st, i :
             LET first == IF i = t0 THEN d0 ELSE 0
             IN  IF ~st.ok \/ st.reached THEN st
                 ELSE IF tind[i] <= 0 THEN [st EXCEPT !.ok = FALSE]
                 ELSE FreeIf(TrimLeaves(st.fs, st.fs.blk[tind[i]], first, d0, k0, st.end),
                             first = 0, tind[i]),
           [fs |-> fs, end |-> end0, ok |-> TRUE, reached |-> FALSE],
           [k \in 1 .. (NUM_OF_SINGLE_INDIRECT_BLOCK_ADDR - t0) |-> t0 + k - 1])

\* Mutant: one block too many is taken to fit below the single indirect block.
LevelsOffByOne(blocks) ==
  CASE blocks <= SingleStart -> 0
    [] SingleStart < blocks /\ blocks <= DoubleStart + 1 -> 1
    [] DoubleStart + 1 < blocks /\ blocks <= TripleStart -> 2
    [] TripleStart < blocks -> 3

\* Mutant: a file that just fits below a level is taken to use the next one.
LevelsAtBoundary(blocks) ==
  CASE blocks < SingleStart -> 0
    [] SingleStart <= blocks /\ blocks < DoubleStart -> 1
    [] DoubleStart <= blocks /\ blocks < TripleStart -> 2
    [] TripleStart <= blocks -> 3

\* The roots that a file of so many blocks uses.
Levels(blocks) ==
  CASE blocks <= SingleStart -> 0
    [] SingleStart < blocks /\ blocks <= DoubleStart -> 1
    [] DoubleStart < blocks /\ blocks <= TripleStart -> 2
    [] TripleStart < blocks -> 3

WithNode(st, node) == [fs |-> st.fs, node |-> node, ok |-> st.ok]

\* Every branch ends with this; one that failed leaves blocks as it was.
Shortened(st, n0) == IF st.ok THEN [st EXCEPT !.node.blocks = n0] ELSE st

\* The roots from a level on, of those the file uses.
DropFrom(st, level, n0) ==
  Shortened(FoldLeft(DropRoot, st, SubSeq(Roots, level, Levels(st.node.blocks))), n0)

\* A root is freed when the first block to remove is its first one.
Cut(st, root, isFirst) ==
  LET freed == FreeIf(st, isFirst, st.node[root])
  IN  IF freed.ok /\ isFirst THEN [freed EXCEPT !.node[root] = 0] ELSE freed

RemoveFromDirect(fs, node, n0) ==
  LET st == FreeEntries(fs, node.directAddresses, n0, Least(NUM_DIRECT_BLOCKS, node.blocks))
  IN  DropFrom(WithNode(st, [node EXCEPT !.directAddresses = st.addr]), 1, n0)

RemoveFromSingle(fs, node, n0) ==
  DropFrom(TrimBlock([fs |-> fs, node |-> node, ok |-> TRUE], node.singleIndirect,
                     n0 - SingleStart, node.blocks - SingleStart), 2, n0)

\* The triple indirect block is dropped when the loop over the double one left
\* more than its size to go.
AfterDouble(node, n0, trim) ==
  LET st == Cut(WithNode(trim, node), "doubleIndirect", n0 = DoubleStart)
  IN  Shortened(IF trim.end <= NUM_OF_DOUBLE_INDIRECT_BLOCK_ADDR THEN st
                ELSE DropRoot(st, "tripleIndirect"), n0)

RemoveFromDouble(fs, node, n0) ==
  LET r == Route(n0)
  IN  AfterDouble(node, n0,
        TrimLeaves(fs, fs.blk[node.doubleIndirect], r.path[1], r.path[1], r.entry,
                   node.blocks - DoubleStart - NUM_OF_SINGLE_INDIRECT_BLOCK_ADDR * r.path[1]))

RemoveFromTriple(fs, node, n0) ==
  LET r    == Route(n0)
      end0 == node.blocks - TripleStart - NUM_OF_DOUBLE_INDIRECT_BLOCK_ADDR * r.path[1]
                - NUM_OF_SINGLE_INDIRECT_BLOCK_ADDR * r.path[2]
      trim == TrimTriple(fs, fs.blk[node.tripleIndirect], r.path[1], r.path[2], r.entry, end0)
  IN  Shortened(Cut(WithNode(trim, node), "tripleIndirect", n0 = TripleStart), n0)

\* Removes the logical blocks n0, ... of the inode: one branch for each level
\* that n0 can be in.
remove_datablocks_range_from_inode(fs, node, n0) ==
  IF n0 > node.blocks THEN [fs |-> fs, node |-> node, ok |-> FALSE]
  ELSE IF n0 < SingleStart THEN RemoveFromDirect(fs, node, n0)
  ELSE IF n0 >= MaxBlocks \/ node[Route(n0).root] = 0 THEN [fs |-> fs, node |-> node, ok |-> FALSE]
  ELSE IF n0 < DoubleStart THEN RemoveFromSingle(fs, node, n0)
  ELSE IF n0 < TripleStart THEN RemoveFromDouble(fs, node, n0)
  ELSE RemoveFromTriple(fs, node, n0)
=============================================================================
