------------------------------ MODULE BlockMap ------------------------------
(***************************************************************************)
(* The blocks of several files on one disk: what fs_write, fs_truncate,    *)
(* fs_openFile, fs_unlink and fs_read (linkFuseAndFS.cpp) do to the data   *)
(* block layer and to the inodes on the disk.                              *)
(*                                                                         *)
(* One request runs at a time, nothing crashes and the device answers      *)
(* every request.  Sizes are whole blocks; file sizes in bytes, times and  *)
(* names are left out.                                                     *)
(***************************************************************************)
EXTENDS InodeBlockOps, FiniteSets

CONSTANTS
  Inode,            \* the files
  Growths,          \* numbers of blocks that a write adds
  Truncations,      \* <<blocks of the file, blocks to keep>> of the truncations asked for
  OpenTruncations,  \* blocks of the files opened with O_TRUNC
  MaxRequests       \* bound: requests that change the disk

ASSUME RequestAssumption ==
  /\ Growths \subseteq Nat \ {0}
  /\ \A t \in Truncations : t[1] \in 0 .. MaxBlocks /\ t[2] \in 0 .. (t[1] - 1)
  /\ OpenTruncations \subseteq 0 .. MaxBlocks
  /\ MaxRequests \in Nat

VARIABLES
  fs,        \* superblock and data region
  inode,     \* the inodes on the disk
  seen,      \* the data blocks the last fs_read went through
  requests   \* requests served so far that change the disk

vars == <<fs, inode, seen, requests>>

\* Contents of a file: nothing in it is a block number.
FileData == [w \in Word |-> -1]

Init ==
  /\ fs = [maxAlloc |-> FirstDataBlock, freelist_head |-> 0,
           blk |-> [b \in DataRegion |-> ZeroBlock]]
  /\ inode = [i \in Inode |-> EmptyInode]
  /\ seen = << >>
  /\ requests = 0

Serve ==
  /\ requests < MaxRequests
  /\ requests' = requests + 1
  /\ seen' = << >>

\* Mutant: the loop goes on when there is no block left.
AppendAnyBlock(st) ==
  LET new   == allocate_data_block(st.fs)
      added == add_datablock_to_inode(new.fs, st.node, new.ret)
  IN  IF ~st.ok \/ ~added.ok THEN [added EXCEPT !.ok = FALSE]
      ELSE [added EXCEPT !.fs = write_data_block(added.fs, new.ret, FileData)]

\* The second loop of fs_write: one more block, allocated, added to the inode
\* and written.  The first failure ends the loop.
AppendBlock(st) ==
  LET new   == allocate_data_block(st.fs)
      added == add_datablock_to_inode(new.fs, st.node, new.ret)
  IN  IF ~st.ok THEN st
      ELSE IF new.ret <= 0 THEN [st EXCEPT !.fs = new.fs, !.ok = FALSE]
      ELSE IF ~added.ok THEN added
      ELSE [added EXCEPT !.fs = write_data_block(added.fs, new.ret, FileData)]

\* What a handler leaves of the disk and of the inode.
Store(i, st) ==
  /\ fs' = st.fs
  /\ inode' = [inode EXCEPT ![i] = st.node]

\* fs_write with count blocks behind the end of the file.  The inode is
\* written whatever happened.
fs_write(i, count) ==
  /\ Serve
  /\ Store(i, FoldLeft(LAMBDA st, n : AppendBlock(st),
                       [fs |-> fs, node |-> inode[i], ok |-> TRUE], [n \in 1 .. count |-> n]))

\* After the removal, whose result is not looked at: the inode is not written
\* when the last block that stays cannot be found.
AfterRemoval(i, n, st) ==
  IF n > 0 /\ get_datablock_from_inode(st.fs, st.node, n - 1, 0).block <= 0
  THEN [st EXCEPT !.node = inode[i]] ELSE st

\* fs_truncate to n blocks.
Truncated(i, n) == AfterRemoval(i, n, remove_datablocks_range_from_inode(fs, inode[i], n))

fs_truncate(i, n) ==
  /\ <<inode[i].blocks, n>> \in Truncations
  /\ Serve
  /\ Store(i, Truncated(i, n))

\* fs_openFile with O_TRUNC on a file that exists: the inode was loaded before
\* fs_truncate, and that copy is written back with new times.
fs_openFile(i) ==
  /\ inode[i].blocks \in OpenTruncations
  /\ Serve
  /\ fs' = IF inode[i].blocks = 0 THEN fs ELSE Truncated(i, 0).fs
  /\ UNCHANGED inode

\* Mutant: the inode keeps its addresses.
delete_keeps_addresses(i, st) == [st EXCEPT !.node = inode[i]]

\* delete_inode leaves the inode on the disk as it was when the removal fails.
delete_inode(i, st) == [st EXCEPT !.node = IF st.ok THEN EmptyInode ELSE inode[i]]

\* fs_unlink of the last link; the result of delete_inode is not looked at.
\* The emptied inode is there for the next file; whether a name leads to it is
\* not modelled here.
fs_unlink(i) ==
  /\ Serve
  /\ Store(i, delete_inode(i, remove_datablocks_range_from_inode(fs, inode[i], 0)))

\* fs_read from block n to the end: one cached lookup after the other.
fs_read(i, n) ==
  /\ seen' = FoldLeft(LAMBDA st, k :
                        LET found == get_datablock_from_inode(fs, inode[i], k, st.prev)
                        IN  [blocks |-> Append(st.blocks, found.block), prev |-> found.prev],
                      [blocks |-> << >>, prev |-> 0],
                      [k \in 1 .. (inode[i].blocks - n) |-> n + k - 1]).blocks
  /\ UNCHANGED <<fs, inode, requests>>

Next ==
  \E i \in Inode :
    \/ \E count \in Growths : fs_write(i, count)
    \/ \E n \in 0 .. (inode[i].blocks - 1) : fs_truncate(i, n)
    \/ fs_openFile(i)
    \/ fs_unlink(i)
    \/ \E n \in 0 .. (inode[i].blocks - 1) : fs_read(i, n)

Spec == Init /\ [][Next]_vars

-----------------------------------------------------------------------------
(* Properties *)

TypeOK ==
  /\ fs \in FileSystem
  /\ fs.maxAlloc \in FirstDataBlock .. NUM_OF_DATA_BLOCKS
  /\ inode \in [Inode -> InodeStruct]
  /\ seen \in Seq(Pool)
  /\ requests \in 0 .. MaxRequests

\* Every place where inode i needs a block: its logical blocks, and the
\* indirect blocks on the way to them.
Places(i) ==
  LET n    == inode[i].blocks
      ways == {Route(k) : k \in SingleStart .. (n - 1)}
  IN  {[inode |-> i, block |-> k] : k \in 0 .. (n - 1)}
      \union UNION {{[inode |-> i, root |-> r.root, path |-> SubSeq(r.path, 1, m)] :
                       m \in 0 .. Len(r.path)} : r \in ways}

AllPlaces == UNION {Places(i) : i \in Inode}

BlockAt(p) ==
  LET node == inode[p.inode]
  IN  IF "block" \in DOMAIN p THEN get_datablock_from_inode(fs, node, p.block, 0).block
      ELSE Follow(fs, node[p.root], p.path)

Used == {BlockAt(p) : p \in AllPlaces}

\* The blocks on the free list, read from the disk: the n-th one, 0 past the end.
FreeListBlock ==
  LET Link(b) == IF b \in DataRegion THEN fs.blk[b][0] ELSE 0
      block[n \in 0 .. BLOCK_COUNT] == IF n = 0 THEN fs.freelist_head ELSE Link(block[n - 1])
  IN  block

OnFreeList == {FreeListBlock[n] : n \in 0 .. BLOCK_COUNT} \ {0}

Allocated == FirstDataBlock .. (fs.maxAlloc - 1)

\* The free list ends and stays below maxAlloc: no block was freed twice.
FreeListSound == FreeListBlock[BLOCK_COUNT] = 0 /\ OnFreeList \subseteq Allocated

\* No block is used in two places, by one file or by two, as data or as an
\* indirect block, and no block in use can be allocated.
NoSharing ==
  /\ Used \subseteq Allocated
  /\ Cardinality(Used) = Cardinality(AllPlaces)
  /\ Used \intersect OnFreeList = {}

\* Every block below maxAlloc is in use or on the free list: what is removed
\* from a file can be allocated again.
NoLeak == Allocated \subseteq Used \union OnFreeList

\* The files as sequences of blocks.
Blocks(i) == [n \in 1 .. inode[i].blocks |-> get_datablock_from_inode(fs, inode[i], n - 1, 0).block]

\* The inodes keep their blocks like FileMap: a write keeps what is there and
\* adds blocks that are new to every file, a truncation keeps a prefix, no
\* request changes another file, and a read with the cached lookups of fs_read
\* goes through exactly the blocks of the file, in order.
FileSpec == INSTANCE FileMap WITH Block <- Pool, file <- [i \in Inode |-> Blocks(i)]
ImplementsFileMap == FileSpec!Spec
=============================================================================
