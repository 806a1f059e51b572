------------------------------- MODULE FileIO -------------------------------
(***************************************************************************)
(* Reading, writing and truncating files (fs_read, fs_write, fs_truncate   *)
(* of linkFuseAndFS.cpp) over the block map of their inodes, with partial  *)
(* blocks, overwriting, holes and a disk that fills up.  The unit of data  *)
(* is a word: offsets, lengths and fileSize count words.                   *)
(*                                                                         *)
(* One request runs at a time and the device answers every access.  A      *)
(* request may be cut short by a crash between its steps on blocks; the    *)
(* inode on the disk is then the one from before.                          *)
(***************************************************************************)
EXTENDS InodeBlockOps

CONSTANTS
  Inode,             \* the files
  Writes,            \* <<fileSize, offset, words>> of the writes asked for
  Reads,             \* <<offset, words>> of the reads asked for
  Lengths,           \* lengths that files are truncated to
  Truncations,       \* <<blocks, blocks to keep>> of the truncations asked for
  CrashTruncations,  \* those that may be cut short by a crash
  MaxWords,          \* bound: the length of a file
  MaxRequests,       \* bound: requests that change the disk
  MaxCrashes         \* bound: crashes

ASSUME RequestAssumption ==
  /\ MaxWords \in Nat /\ MaxRequests \in Nat /\ MaxCrashes \in Nat
  /\ \A w \in Writes : w[2] \in Nat /\ w[3] \in Nat \ {0} /\ w[2] + w[3] <= MaxWords
  /\ Reads \subseteq (0 .. MaxWords) \X (0 .. MaxWords)
  /\ Lengths \subseteq 0 .. MaxWords

BLOCK_SIZE == NUM_OF_ADDRESSES_PER_BLOCK

VARIABLES
  fs,         \* superblock and data region
  inode,      \* the inodes on the disk
  answer,     \* the result of the last request: how it ended, words written, or read
  short,      \* history: files whose last write found no block for the gap before it
  requests,   \* requests served so far that change the disk
  crashes

vars == <<fs, inode, answer, short, requests, crashes>>

NewInode ==
  [blocks |-> 0, directAddresses |-> EmptyInode.directAddresses,
   singleIndirect |-> 0, doubleIndirect |-> 0, tripleIndirect |-> 0, fileSize |-> 0]

Nothing == [result |-> "done", written |-> 0, data |-> << >>]

\* An error code instead: "failed" for -1, "refused" for -EOVERFLOW.
Error(result) == [Nothing EXCEPT !.result = result]

Init ==
  /\ fs = [maxAlloc |-> FirstDataBlock, freelist_head |-> 0,
           blk |-> [b \in DataRegion |-> ZeroBlock]]
  /\ inode = [i \in Inode |-> NewInode]
  /\ answer = Nothing
  /\ short = {}
  /\ requests = 0 /\ crashes = 0

-----------------------------------------------------------------------------
(* fs_write *)

\* A request for n words at an offset, from a buffer or into one.
Request(offset, n, buff) ==
  [offset |-> offset, n |-> n, buff |-> buff,
   start |-> offset \div BLOCK_SIZE, startOffset |-> offset % BLOCK_SIZE,
   end |-> (offset + n - 1) \div BLOCK_SIZE, endOffset |-> (offset + n - 1) % BLOCK_SIZE]

\* memcpy of count words of the buffer, from word first on, into a block.
CopyIn(block, at, buff, first, count) ==
  [w \in Word |-> IF at <= w /\ w < at + count THEN buff[first + w - at] ELSE block[w]]

\* The words that go into the first block of the request.
FirstPart(r) == Least(BLOCK_SIZE - r.startOffset, r.n)

\* The words that go into another block of it.
NextPart(r, isLast) == IF isLast THEN r.endOffset + 1 ELSE BLOCK_SIZE

\* One round of the first loop: block i of the file, as the lookup found it.
OverwriteFound(st, r, i, found) ==
  LET old  == st.fs.blk[found.block]
      part == IF i = r.start THEN FirstPart(r) ELSE NextPart(r, i = r.end)
      new  == IF i = r.start THEN CopyIn(old, r.startOffset, r.buff, 0, part)
              ELSE CopyIn(old, 0, r.buff, st.written, part)
  IN  IF found.block <= 0 THEN [st EXCEPT !.ok = FALSE]
      ELSE [st EXCEPT !.fs = write_data_block(st.fs, found.block, new),
                      !.written = @ + part, !.prev = found.prev]

OverwriteBlock(st, r, i) ==
  IF ~st.ok THEN st
  ELSE OverwriteFound(st, r, i, get_datablock_from_inode(st.fs, st.node, i, st.prev))

\* The first count rounds of the first loop.
Overwrite(st, r, count) ==
  FoldLeft(LAMBDA s, k : OverwriteBlock(s, r, r.start + k - 1), st, [k \in 1 .. count |-> k])

OldBlocks(node, r) ==
  LET last == Least(r.end, node.blocks - 1)
  IN  IF r.start <= last THEN last - r.start + 1 ELSE 0

NewBlocks(node, r) == IF r.end >= node.blocks THEN r.end - node.blocks + 1 ELSE 0

\* A round of the second loop allocates block i (counted from 1) of the new ones,
\* adds it to the inode, and writes it, unless it lies in front of the data: then
\* it stays as the allocator gave it.
AllocateNew(st) ==
  LET new == allocate_data_block(st.fs)
  IN  [st EXCEPT !.fs = new.fs, !.block = new.ret, !.ok = st.ok /\ new.ret > 0]

AddNew(st) ==
  LET added == add_datablock_to_inode(st.fs, st.node, st.block)
  IN  IF ~st.ok THEN st ELSE [st EXCEPT !.fs = added.fs, !.node = added.node, !.ok = added.ok]

\* Mutant: the words count although there is no block for them.
WriteNewUnchecked(st, r, i, starting, count) ==
  LET isFirst == starting >= 1 /\ i = starting
      part    == IF isFirst THEN FirstPart(r) ELSE NextPart(r, i = count)
  IN  IF i < starting THEN st ELSE [st EXCEPT !.written = @ + part]

WriteNew(st, r, i, starting, count) ==
  LET isFirst == starting >= 1 /\ i = starting
      part    == IF isFirst THEN FirstPart(r) ELSE NextPart(r, i = count)
      new     == IF isFirst THEN CopyIn(ZeroBlock, r.startOffset, r.buff, 0, part)
                 ELSE CopyIn(ZeroBlock, 0, r.buff, st.written, part)
  IN  IF ~st.ok \/ i < starting THEN st
      ELSE [st EXCEPT !.fs = write_data_block(st.fs, st.block, new), !.written = @ + part]

ExtendBlock(st, r, i, starting, count) ==
  IF ~st.ok THEN st ELSE WriteNew(AddNew(AllocateNew(st)), r, i, starting, count)

\* The first rounds of the second loop, of count in all, for a file that had
\* blocks blocks.
Extend(st, r, rounds, blocks, count) ==
  FoldLeft(LAMBDA s, i : ExtendBlock(s, r, i, r.start - blocks + 1, count),
           st, [i \in 1 .. rounds |-> i])

Begin(i) == [fs |-> fs, node |-> inode[i], written |-> 0, prev |-> 0, block |-> 0, ok |-> TRUE]

\* Mutant: fileSize counts the words written.
SizeAdded(st, r) == [st EXCEPT !.node.fileSize = @ + st.written, !.ok = TRUE]

\* fileSize becomes the end of the write, wherever the file ended before and
\* however the second loop ended: the inode is written in any case.
Sized(st, r) == [st EXCEPT !.node.fileSize = r.offset + st.written, !.ok = TRUE]

\* After the first loop, in which a failure returns without writing the inode.
Written(i, r, st) ==
  LET count == NewBlocks(inode[i], r)
  IN  IF ~st.ok THEN [st EXCEPT !.node = inode[i]]
      ELSE Sized(Extend(st, r, count, inode[i].blocks, count), r)

fs_write(i, r) ==
  Written(i, r, Overwrite(Begin(i), r, OldBlocks(inode[i], r)))

-----------------------------------------------------------------------------
(* fs_truncate to a length that is not longer *)

\* Mutant: what is left of the last block keeps its words.
TailKept(block, length) == block

\* The words of the last block behind the length are cleared.
TailCleared(block, length) ==
  [w \in Word |-> IF w > (length - 1) % BLOCK_SIZE THEN 0 ELSE block[w]]

Keep(length) == IF length = 0 THEN 0 ELSE (length - 1) \div BLOCK_SIZE + 1

\* The blocks behind the length are removed; the result is not looked at.
Removed(i, length) ==
  IF inode[i].blocks > Keep(length)
  THEN remove_datablocks_range_from_inode(fs, inode[i], Keep(length))
  ELSE [fs |-> fs, node |-> inode[i], ok |-> TRUE]

\* When the last block is not found the inode is not written.
EndedIn(i, length, st, last) ==
  IF last <= 0 THEN [fs |-> st.fs, node |-> inode[i], ok |-> FALSE]
  ELSE [fs |-> write_data_block(st.fs, last, TailCleared(st.fs.blk[last], length)),
        node |-> [st.node EXCEPT !.fileSize = length], ok |-> TRUE]

TruncatedTo(i, length, st) ==
  IF length = 0 THEN [fs |-> st.fs, node |-> [st.node EXCEPT !.fileSize = 0], ok |-> TRUE]
  ELSE EndedIn(i, length, st, get_datablock_from_inode(st.fs, st.node, Keep(length) - 1, 0).block)

fs_truncate(i, length) == TruncatedTo(i, length, Removed(i, length))

-----------------------------------------------------------------------------
(* fs_read *)

\* Mutant: a block that is not there reads as zeros.
ReadFoundZeros(st, r, i, found) ==
  LET from == IF i = r.start THEN r.startOffset ELSE 0
      upto == IF i = r.end THEN r.endOffset ELSE BLOCK_SIZE - 1
  IN  [st EXCEPT !.prev = found.prev,
                 !.data = @ \o [k \in 1 .. (upto - from + 1) |->
                                 IF found.block <= 0 THEN 0 ELSE fs.blk[found.block][from + k - 1]]]

\* One block of the request, looked up with the cached block of addresses of the
\* lookup before it.
ReadFound(st, r, i, found) ==
  LET from == IF i = r.start THEN r.startOffset ELSE 0
      upto == IF i = r.end THEN r.endOffset ELSE BLOCK_SIZE - 1
  IN  IF found.block <= 0 THEN [st EXCEPT !.ok = FALSE]
      ELSE [st EXCEPT !.prev = found.prev,
                      !.data = @ \o [k \in 1 .. (upto - from + 1) |-> fs.blk[found.block][from + k - 1]]]

ReadBlock(st, r, i) ==
  IF ~st.ok THEN st ELSE ReadFound(st, r, i, get_datablock_from_inode(fs, st.node, i, st.prev))

ReadBlocks(i, r) ==
  FoldLeft(LAMBDA st, k : ReadBlock(st, r, r.start + k - 1),
           [node |-> inode[i], prev |-> 0, data |-> << >>, ok |-> TRUE],
           [k \in 1 .. (r.end - r.start + 1) |-> k])

\* A request behind the end is refused, one across the end is clipped, one that
\* does not find all its blocks fails.
fs_read(i, offset, n) ==
  LET size == inode[i].fileSize
      st   == ReadBlocks(i, Request(offset, Least(n, size - offset), << >>))
  IN  IF n = 0 \/ size = 0 THEN Nothing
      ELSE IF offset >= size THEN Error("refused")
      ELSE IF st.ok THEN [Nothing EXCEPT !.data = st.data] ELSE Error("failed")

-----------------------------------------------------------------------------
(* The requests *)

Serve ==
  /\ requests < MaxRequests
  /\ requests' = requests + 1

Store(i, st) ==
  /\ fs' = st.fs
  /\ inode' = [inode EXCEPT ![i] = st.node]

\* A write that gets no word onto a full disk still moves the end of the file to
\* its offset: when there are not all blocks in front of it, the file is short of
\* them until a write gets further or a truncation takes the end back.
NoteGap(i, offset, st) ==
  short' = IF ~st.ok THEN short
           ELSE IF st.written = 0 /\ Keep(offset) > inode[i].blocks THEN short \union {i}
           ELSE short \ {i}

Data  == [k \in 0 .. MaxWords |-> -(k + 1)]   \* no word of it is a block number
Zeros == [k \in 0 .. MaxWords |-> 0]

Write(i, offset, n) ==
  /\ Serve
  /\ \E done \in {fs_write(i, Request(offset, n, Data))} :
       /\ Store(i, done)
       /\ NoteGap(i, offset, done)
       /\ answer' = IF done.ok \/ done.written > 0 THEN [Nothing EXCEPT !.written = done.written]
                    ELSE Error("failed")
  /\ UNCHANGED crashes

\* fs_write with no words returns at once.
WriteNothing ==
  /\ answer' = Nothing
  /\ UNCHANGED <<fs, inode, short, requests, crashes>>

\* fs_truncate to a greater length writes zeros behind the end.
Lengthen(i, length) ==
  LET size == inode[i].fileSize
  IN  /\ length > size
      /\ Serve
      /\ \E done \in {fs_write(i, Request(size, length - size, Zeros))} :
           /\ Store(i, done)
           /\ NoteGap(i, size, done)
           /\ answer' = IF done.written = length - size THEN Nothing ELSE Error("failed")
      /\ UNCHANGED crashes

\* An empty file truncated to nothing is left alone.
Shorten(i, length) ==
  /\ length <= inode[i].fileSize /\ inode[i].fileSize > 0
  /\ <<inode[i].blocks, Keep(length)>> \in Truncations
  /\ Serve
  /\ \E done \in {fs_truncate(i, length)} :
       /\ Store(i, done)
       /\ short' = IF done.ok /\ Keep(length) <= inode[i].blocks THEN short \ {i} ELSE short
       /\ answer' = IF done.ok THEN Nothing ELSE Error("failed")
  /\ UNCHANGED crashes

\* The inode is written back as it was but for its access time.
Read(i, offset, n) ==
  /\ answer' = fs_read(i, offset, n)
  /\ UNCHANGED <<fs, inode, short, requests, crashes>>

-----------------------------------------------------------------------------
(* Crashes.  The program is started again with the superblock and the inode *)
(* that are on the disk.                                                    *)

Crash(st) ==
  /\ Serve
  /\ crashes < MaxCrashes
  /\ crashes' = crashes + 1
  /\ fs' = st.fs
  /\ answer' = Nothing
  /\ UNCHANGED <<inode, short>>

\* In the first loop of fs_write, or in the second one: between two rounds of it,
\* behind the allocation, or behind the addition to the inode.
CrashInWrite(i, r, old, new) ==
  \/ \E rounds \in 0 .. old : Crash(Overwrite(Begin(i), r, rounds))
  \/ \E rounds \in 0 .. new, over \in {Overwrite(Begin(i), r, old)} :
       \E st \in {Extend(over, r, rounds, inode[i].blocks, new)} :
         \/ Crash(st)
         \/ rounds < new /\ \E more \in {AllocateNew(st)} : Crash(more) \/ Crash(AddNew(more))

WriteCut(i, offset, n) ==
  /\ requests < MaxRequests /\ crashes < MaxCrashes
  /\ LET r == Request(offset, n, Data)
     IN  CrashInWrite(i, r, OldBlocks(inode[i], r), NewBlocks(inode[i], r))

\* Behind the removal of blocks and the clearing of the last one.
ShortenCut(i, length) ==
  /\ length <= inode[i].fileSize /\ inode[i].fileSize > 0
  /\ <<inode[i].blocks, Keep(length)>> \in CrashTruncations
  /\ Crash(fs_truncate(i, length))

Next ==
  \/ \E i \in Inode :
       \/ \E w \in {w \in Writes : w[1] = inode[i].fileSize} :
            Write(i, w[2], w[3]) \/ WriteCut(i, w[2], w[3])
       \/ \E read \in Reads : Read(i, read[1], read[2])
       \/ \E length \in Lengths : Lengthen(i, length) \/ Shorten(i, length) \/ ShortenCut(i, length)
  \/ WriteNothing

Spec == Init /\ [][Next]_vars

-----------------------------------------------------------------------------
(* Properties *)

TypeOK ==
  /\ fs \in FileSystem
  /\ \A i \in Inode : inode[i].blocks \in 0 .. MaxBlocks /\ inode[i].fileSize \in 0 .. MaxWords
  /\ answer.result \in {"done", "failed", "refused"}
  /\ answer.written \in 0 .. MaxWords /\ answer.data \in Seq(Int)
  /\ short \subseteq Inode
  /\ requests \in 0 .. MaxRequests /\ crashes \in 0 .. MaxCrashes

\* A file has the blocks that its size needs, no more and no less, also when the
\* disk filled up in the middle of a write.  The one exception is a file whose
\* last write lay behind its blocks and found the disk full before its first
\* word: such a file has no more blocks than its size needs, and has exactly
\* those again as soon as a write stores a word.
SizeFitsBlocks ==
  \A i \in Inode :
    /\ inode[i].blocks <= Keep(inode[i].fileSize)
    /\ i \notin short => inode[i].blocks = Keep(inode[i].fileSize)

\* remove_datablocks_range_from_inode, whose result fs_truncate does not look at,
\* does not fail on any truncation that can be asked for: all addresses behind
\* the length are those of data blocks, also after writes that the full disk or
\* a crash cut short.
RemovalsSucceed ==
  \A i \in Inode, length \in Lengths :
    length <= inode[i].fileSize /\ <<inode[i].blocks, Keep(length)>> \in Truncations =>
      Removed(i, length).ok

\* No word that is ever on the disk: a word of a file that lies behind its blocks.
Missing == -(MaxWords + 2)

\* The words of a file.
Words(i) ==
  [k \in 1 .. inode[i].fileSize |->
     LET n == (k - 1) \div BLOCK_SIZE
     IN  IF n >= inode[i].blocks THEN Missing
         ELSE fs.blk[get_datablock_from_inode(fs, inode[i], n, 0).block][(k - 1) % BLOCK_SIZE]]

\* The blocks handed out may hold words from before.
Recycled == fs.freelist_head # 0 \/ crashes > 0

\* The files are the sequences of words of WordFile: a read returns what was
\* written last and zeros where nothing was, across blocks and levels, after
\* writes that the full disk or a crash cut short, and fails where a full disk
\* left a gap without blocks.
FileSpec == INSTANCE WordFile WITH file <- [i \in Inode |-> Words(i)], recycled <- Recycled
ImplementsWordFile == FileSpec!Spec
=============================================================================
