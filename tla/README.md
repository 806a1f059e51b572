# BeachBytes file system: TLA+ models, checks and proofs

BeachBytes is a FUSE file system on a raw device (`src/src/`, about 3000 lines
of C++). This directory holds TLA+ modules that model it, TLC configurations
that check them on small disks, and proofs for disks of every size.

    tlc -workers 2 -config BlockAllocator.cfg MCBlockAllocator
    tlapm BlockAllocatorProofs.tla
    tlapm AllocatorStepsProofs.tla
    tlapm InodeTableProofs.tla
    tlapm BootProofs.tla
    tlapm NamespaceProofs.tla
    tlapm FileIOProofs.tla
    tlapm BlockMapProofs.tla     # 15 minutes

## 1. The system

The layers, from the device up. A layer calls only the ones above it in this
table, and all of them run inside the FUSE callback that the kernel started.

| component | source | state | operations |
|---|---|---|---|
| device and superblock | `layerZero.cpp` | the device, `fs_superblock` in memory, its copy in block 0 | `fs_read_block`, `fs_write_block`, `fs_write_superblock`, `fs_create_superblock`, `load_FS` |
| data block layer | `data_block_operation.cpp` | `maxAlloc`, `freelist_head`, links in word 0 of the free blocks | `allocate_data_block`, `free_data_block`, `read_data_block`, `write_data_block` |
| inode table | `inode.cpp` 6-135, 145-191 | blocks 1 .. `INODE_BLOCK_COUNT`, several inodes in each | `createInode`, `getNextFreeINode`, `loadINodeFromDisk`, `writeINodeToDisk`, `delete_inode` |
| block map of an inode | `inode.cpp` 193-481, 647-999 | `blocks`, `directAddresses`, three trees of indirect blocks | `add_datablock_to_inode`, `get_datablock_from_inode`, `remove_datablocks_range_from_inode` |
| directories and paths | `inode.cpp` 483-644, 1001-1157 | records of name and inode number in the data blocks of a directory, `filesCount` | `add_directory_entry`, `remove_from_directory`, `get_inode_of_File` |
| file operations | `linkFuseAndFS.cpp` | `fileSize`, contents | `fs_read`, `fs_write`, `fs_truncate`, `fs_openFile` |
| namespace operations | `linkFuseAndFS.cpp` | the tree of directories, `linkCount` | `create_new_file`, `fs_mkdir`, `fs_unlink`, `fs_rename`, `fs_readdir` |
| set-up and boot | `setupDiskMain.cpp`, `linkFuseAndFS.cpp` 15-68 | `ROOT_DIR_INODE_NUM` | `fs_init`, `bootUpFileSytem`, `restartDisk` |
| FUSE glue | `fuse_interface.cpp` | none | one callback for each operation above |

How they interact. Everything is a call; there are no messages and no locks.
The state is shared in three places: the superblock in memory, the device, and
the copies of inodes that a handler loads, changes and writes back. `fuse_main`
is called without `-s`, so two handlers may run at once.

What is hard:

- **order of steps**: an inode is in memory while the blocks under it are
  already changed on the disk; a copy that is written back too late undoes what
  happened in between (`fs_openFile`);
- **arithmetic on block numbers**: adding, looking up and removing each
  translate a logical block number again, by hand, for four levels, and the
  removal recomputes where the file ends at each level;
- **stale numbers**: a block that is freed must disappear from the block above
  it; a block from the free list keeps an old link in word 0; a lookup trusts
  the block of addresses of the lookup before it;
- **a full disk** between a data block and the indirect blocks it needs, between
  the removal of the target of a rename and its new name, or between a new
  directory and its "." and "..";
- **sizes against blocks**: `fileSize` and `blocks` are computed apart, from an
  offset and from two loops that may each end early;
- **threads, failing I/O and crashes** between the reads and writes of one
  operation: several inodes share a block, all threads share one file offset,
  an entry is on the disk before the directory counts it.

What makes each component correct:

- data block layer: a block has one owner; the free list is finite and holds
  exactly the allocated blocks nobody owns; a request is refused only when
  nothing is left;
- block map: the blocks of a file are a sequence that grows and shrinks at its
  end; no block is in two places; what a removal gives up can be allocated;
  a lookup finds the block that was added at that place;
- inode table: an inode number is given to one file at a time; writing an inode
  leaves its neighbours alone;
- files: a read returns what was written last, and zeros where nothing was;
- namespace: the directories are a tree; a name leads to an allocated inode; a
  renamed file is under one of its names at any time; `linkCount` and
  `filesCount` count;
- boot: after a crash at any point the next boot finds the same root.

`PROJECT.json` lists under "hazards" where each of these can go wrong, and the
property that would show it.

## 2. Modules

| module | models | how |
|---|---|---|
| `DataBlockOps` | `data_block_operation.cpp` | operators from a disk state (and arguments) to the next one with the result |
| `BlockAllocator` | the data block layer and its callers | actions `Allocate`, `Write`, `Free`; `held` is what the callers own, `chain` is a history variable |
| `FreePool` | what the layer promises | a set of blocks, acquired and released |
| `AllocatorSteps` | the data block layer, `load_FS` after a crash, `restartDisk` | one action for each access to the superblock in memory or to the device, by several threads |
| `InodeBlockOps` | the block map of an inode | operators on a disk state and an inode in memory |
| `Truncations` | | the cuts for which the removal of blocks is complete |
| `BlockMap` | several files on one disk, in whole blocks | one action for each of `fs_write`, `fs_truncate`, `fs_openFile`, `fs_unlink`, `fs_read` |
| `FileMap` | what the block map promises | each file is a sequence of blocks |
| `FileIO` | `fs_read`, `fs_write`, `fs_truncate` in words | one action for each request; a crash cuts one short at any step on a block |
| `WordFile` | what reading and writing promise | each file is a sequence of words |
| `InodeTable` | `inode.cpp` 6-191 | one action for each `lseek`, `read` and `write`, by several threads, with crashes and faults |
| `InodeStore` | what the inode table promises | a function from numbers to inodes, each call one step |
| `Namespace` | directories, paths and the operations on names | one action for each write to the device, with a crash between any two |
| `Boot` | set-up, start, stop | one action for each access to the device, with crashes and faults |
| `BlockSites` | where the blocks of a file are | the words for the inductive invariant of `BlockMap` |
| `BlockAllocatorProofs`, `AllocatorStepsProofs`, `InodeTableProofs`, `BootProofs`, `NamespaceProofs`, `FileIOProofs`, `BlockMapProofs` | | theorems and proofs |
| `Facts` | | lemmas that they share |
| `MCBlockAllocator`, `MCAllocatorSteps`, `MCBlockMap`, `MCFileIO`, `MCNamespace` | | instances for TLC |

How they fit together. `DataBlockOps` is extended by `BlockAllocator`, which
shows what it promises, and by `InodeBlockOps`; `BlockMap` and `FileIO` compose
the block map and the allocator and run on one disk. `AllocatorSteps` and
`BlockAllocator` are two models of the same layer that both implement
`FreePool`: one says that the operations, taken whole, are right, the other that
one thread may take them for whole. `InodeTable` and `InodeStore` do the same
for inodes. `Namespace` and `Boot` stand on both layers: they take a block or
a number from a set, as `FreePool` and `InodeStore` promise, and write an inode
in one step.

### State

**Blocks** (`DataBlockOps`, `BlockAllocator`, `BlockMap`, `FileIO`). `fs` is a
record of the superblock fields `maxAlloc` and `freelist_head` and of `blk`, the
data region as arrays of words (`blk[b][0]` is the link of a free block, an
address, or the beginning of file data). `fs_write_superblock` ends every
operation of the layer, and within these models nothing happens between a change
of a field and that write, so the copy in block 0 is not kept apart. `inode`
holds the inodes as they are on the disk; the copy a handler works on is a local
of the action. In `BlockMap` a block of file data has -1 in every word, in
`FileIO` the words of a buffer are negative too: nothing in it is a block
number, and a walk that takes it for one leaves the data region.

**`AllocatorSteps`**. The superblock in memory (`fs_superblock`) and its copy in
block 0 (`disk.sb`) are apart, `op` holds for each thread the next access and
the locals `allocated_bk_no` or `index` (`block`) and `nextAlloct` or the buffer
(`word`), and of each data block word 0 is kept. `held`, the blocks the callers
refer to, survives a crash: the inodes are on the device.

**`InodeTable`**. `disk` is the device from block 1 on, each block a function
from offsets to inodes; `fs_ptr` is the one file offset of the device, which
`lseek` sets and each transfer moves on; `op[t]` is the function that thread `t`
is in, its next access, the number and the block it works on, and its buffer.
Of an inode `is_allocated`, `linkCount` and `i_mode` are kept: one field that
`delete_inode` resets and one that it leaves.

**`Namespace`**. `inode` and `blk` are what is on the device, a block being a
sequence of entries; `op` is the handler that runs, with its next write and the
copy of a directory (`node`) that it will write later. A lookup reads the device
as it is at that step, as the code does. A directory has blocks of entries and
`addresses`, the indirect blocks that lead to them; both come out of the same
disk. Four variables are history. `torn` are the inodes that a handler cut short
by a crash was about. The other three record what the code itself does on a
full disk, with no crash: `bare` are directories that got no "." and "..",
`stranded` inodes whose name went with such a directory, `lost` blocks that were
taken for an entry and that nobody has.

**`FileIO`**. `answer` is what the last request returned: a number of words or
the words read, or an error, -1 (`failed`) or -EOVERFLOW (`refused`). `short`
is history: the files whose last write lay behind their blocks and found the
disk full before its first word.

**`Boot`**. `disk` has the superblock, the inodes and the entries of data
blocks; `fs_superblock`, `ROOT_DIR_INODE_NUM` and `node` (`root_dir`) are in
memory. `ready`, `flawed`, `torn` and `home` are history.

### What an action covers

An action of `BlockMap` is the whole handler, from the loading of the inode to
the last write. `fs_write(i, count)` is a write of `count` whole blocks behind
the end: the loop over `allocate_data_block`, `add_datablock_to_inode` and
`write_data_block`, and the `writeINodeToDisk` after it, also when the loop
broke off. `fs_truncate(i, n)` keeps the order and the ignored result of the
removal, and the early return that leaves the inode unwritten.
`fs_openFile(i)` is an open with `O_TRUNC`, with the second write of the inode.
`fs_unlink(i)` is `delete_inode` on the last link. `fs_read(i, n)` reads from
block `n` to the end with one `prev_block` for all lookups.

`remove_datablocks_range_from_inode` is translated branch by branch:
`RemoveFromDirect`, `RemoveFromSingle`, `RemoveFromDouble` and
`RemoveFromTriple` are the four branches on the first block to remove,
`TrimLeaves` and `TrimTriple` the loops with their running end of the file,
`DropRoot` one call of `remove_datablocks_nested`, `Levels` the tests of how
far the file reaches, `Cut` the release of the root.

An action of `FileIO` is the whole handler as well, in words instead of blocks.
`Overwrite` is the first loop of `fs_write`, over blocks the file has, `Extend`
the second one, over blocks it gets; both are folds over the rounds, so that
`CrashInWrite` can stop them behind any round, and in the second loop also
behind the allocation and behind the addition to the inode. `Removed` and
`TruncatedTo` are the two halves of `fs_truncate`, `Lengthen` its call of
`fs_write` with zeros. `ReadBlocks` is the loop of `fs_read`; its two branches,
for one block and for several, compute the same and are one here. `Write` has
no guard on its outcome: when the second loop breaks off in front of the first
word, `Sized` still sets `fileSize` to the offset, as line 591 does. `fs_read`
keeps its ways to end apart: nothing to read (0), an offset behind the end
(-EOVERFLOW, :754), a block that is not found (-1), the words.

The steps of `AllocatorSteps` follow the lines of `allocate_data_block` and
`free_data_block`: `Test` is line 6, `Branch` 14, `Load` and `Bump` the two
halves of `maxAlloc++` in 15, `Zero` 17, `ReadHead` 27, `Read` 29-34 (which reads
the head from memory again), `Relink` 35, `Save` 21 or 36 with what follows;
`Compare` is 86, `Rewind` 87, `Link` 95, `Push` 96, `SaveFreed` 88 or 98,
`WriteLink` 103. Two accesses that this model takes for one: the copy and the
write inside `fs_write_superblock`, and `lseek` with the `read` or `write` after
it, which `InodeTable` takes apart.

In `InodeTable` the four functions share their accesses. `createInode` scans
(`scanSeek`, `scanRead` for each block) and then, like `writeINodeToDisk` and
`delete_inode`, reads the block (`readSeek`, `read`) and writes it back
(`writeSeek`, `write`) with what `Edit` makes of the inode;
`loadINodeFromDisk` stops after the read (`Load`). `fs_chmod` and `SetLinks`
stand for the handlers: they write back the inode that the thread loaded last,
with one field changed.

`Namespace` follows the writes of each handler in their order:

| handler | steps |
|---|---|
| `create_new_file` | `createInode`, `AddChild` (the block with the entry, or `UndoCreate`), `WriteParent`, `WriteChild`; for `fs_mkdir` then `AddDots`, `WriteSelf` |
| `fs_unlink` | `RemoveName`, on the last link `FreeBlocks`, then `WriteNode`, `WriteUpper` |
| `fs_rename` | the steps of `fs_unlink` for a target that exists, then `AddName`, `WriteTo`, `DropName`, `WriteFrom` |

`add_directory_entry` puts an entry into the first block with room, or takes a
block for it, and for that block the indirect blocks that `AddressBlocks`
counts. When the disk has no block for the entry it fails; when it has one, but
not the indirect blocks, it fails too, and what it took stays taken
(`inode.cpp:555-558`). When `AddDots` fails, the new directory stays in its
parent, and further requests find it there like any other
(`linkFuseAndFS.cpp:284`). The third level of indirect blocks is not in
`AddressBlocks`: a directory takes a new block only when all it has are full,
and the first two levels hold more entries than the device has inodes.

The steps of `Boot`: `fs_create_superblock` and `fs_create_ilist` (a block at a
time) for set-up; `load_FS`, `FindRoot`, `createInode`, `allocate_data_block`,
`AddEntry` twice and `WriteRoot` for a start; `fs_destroy` for a stop.

`Route` gives the place of a logical block; the three functions of the code each
compute it anew, and each was compared with it. A pointer for which
`read_data_block` returns NULL is dereferenced by the code at once; the models
have an application outside the domain there, which TLC reports as an error,
so a run that ends without one also shows that this does not happen.

## 3. Runs

| run | expected | shows |
|---|---|---|
| `allocator` | pass | for every sequence of calls and every old contents of the disk: the free list is exact (`FreeListExact`), the walk of `getFreeListLength` ends and counts it (`WalkAgrees`), a block handed out is zero behind word 0 (`AllocatedClean`), and the layer implements `FreePool` (`ImplementsPool`) |
| `allocator_crash` | pass | one thread; up to the first crash or fault the accesses implement `FreePool` (`ImplementsPool`); after crashes and failing accesses, as long as none of them cut a `free_data_block` between its two writes, at each access the disk is one from which a restart continues without handing out a block in use (`RebootSafe`), and the same holds in memory between calls (`MemorySound`); a crash or fault loses one block at most |
| `one_file` | pass | growing, cutting, reading and removing a file over all four levels shares no block (`NoSharing`), frees none twice (`FreeListSound`), loses none (`NoLeak`), and implements `FileMap` |
| `two_files` | pass | the same without `NoLeak` for two files that compete for a disk that is too small |
| `file_io` | pass | a file has the blocks that `fileSize` needs after every request, also after one that the full disk cut short (`SizeFitsBlocks`, but for a file in `short`, which has fewer); reads return what the writes put there, across blocks and levels, over holes, after truncation in both directions and after a crash inside a request, and fail where a full disk left no blocks (`ImplementsWordFile`); no removal that `fs_truncate` asks for fails, whose result it does not look at (`RemovalsSucceed`) |
| `inode_table` | pass | one thread, a crash and a fault anywhere: the calls implement `InodeStore`: one write changes one inode, a number is given out once, a creation is refused only when no usable number is free; every call returns (`CallsReturn`) |
| `namespace` | pass | creations, removals and renames in any order on a disk with room for little: the names form a tree (`Tree`), counts are exact (`CountsExact`), no name leads nowhere (`NoDangling`), a renamed file always has a name (`NeverNameless`), a directory that is not empty is not removed (`OnlyEmptyRemoved`), directories share no block (`BlocksOwned`), and can be listed (`Listable`); each with the exceptions below |
| `boot` | pass | what is mounted is a whole root (`MountedSound`), the same at every start (`SameRoot`); a start that nothing disturbs succeeds whatever came before it (`BootsUp`) |
| `open_truncate` | violation of `NoSharing` | a file opened with `O_TRUNC` keeps the blocks that were freed |
| `write_inside` | violation of `SizeFitsBlocks` | a write inside a file makes its end the end of the file |
| `inode_threads` | violation of `CreatedApart` | two threads are given the same inode |
| `root_lost` | violation of `RootFound` | a crash in a creation and a removal after it make the next start miss the root |

### What the exceptions hide

The passing runs leave out cases in which the code is wrong, each under a
named condition. TLC finds a counterexample when the condition is lifted; the
first four of these have a run of their own above. Some exceptions are not
conditions but part of what the property says: it names the damage, and states
that there is no other.

- `OpenTruncations = {0}` (`BlockMap`): opening a file that has blocks with
  `O_TRUNC` brings the freed blocks back (`open_truncate`).
- `MCWrites` (`FileIO`): a write that ends inside the file (`write_inside`).
- `Thread = {t1}` (`InodeTable`): two threads (`inode_threads`); the file
  offset moves between `lseek` and `read`, and the write of a block takes back
  what another thread wrote to a neighbour, so that `ImplementsStore` fails as
  well. With two threads `AllocatorSteps` hands one block to both
  (`ImplementsPool`).
- `Crash` of `Namespace` needs a root that will be found (`root_lost`).
- `CompleteTruncations` (`BlockMap`, `FileIO`) is the set of cuts after which
  the inode has given up exactly the blocks behind the cut. Outside it: a cut to
  exactly the direct blocks keeps the single indirect block, which growing
  replaces (`NoLeak`, `inode.cpp:769`); a cut over more than one block of
  addresses below the double indirect block leaves the number of a block that
  was freed, and the next removal frees it again (`FreeListSound`, `:846`); a
  cut inside the first block of addresses below the triple root frees the
  double indirect block above blocks that stay (`NoSharing`, `:922`); a file
  that uses the triple root no further than its first double indirect block
  and is cut to the start of the double level keeps the triple tree
  (`NoLeak`, `:872`).
- `NoLeak` is not in `two_files`: a write that fills the disk loses the data
  block for which no indirect block was left, and the indirect blocks taken for
  it (`linkFuseAndFS.cpp:559`).
- `RebootSafe` and `MemorySound` except a `free_data_block` cut between its two
  writes: the list then goes on with what the freed block held
  (`data_block_operation.cpp:98`).
- `short` (`SizeFitsBlocks`): a write behind the end of a file that finds the disk
  full before its first word returns 0 and still sets `fileSize` to its offset
  (`linkFuseAndFS.cpp:551-557`, `:591`). The file then claims blocks that it does
  not have. `SizeFitsBlocks` says that it never has too many, and the
  right number again once a write stores a word; `WordFile` has those words as
  `Missing`: a read that needs one fails (-1), a cut inside the gap fails, a later
  write that gets further fills them.
- `recycled` (`WordFile`): the blocks of a gap are added without being written
  (`:582`), so a gap reads as zeros only as long as no block is handed out a second
  time. One from the free list reads as its old link, and behind a crash a block can
  hold what the write cut short put there. For the same reason a lookup behind the
  blocks of a `short` file may then find something where nothing is.
- `CrashTruncations = NothingRemoved` (`FileIO`): a crash behind a removal
  leaves the inode with blocks that are free (`linkFuseAndFS.cpp:427`).
- `bare` and `stranded` (`Namespace`), without any crash: on a full disk
  `fs_mkdir` fails and leaves the directory in its parent, without "." and ".."
  (`linkFuseAndFS.cpp:284`). Names can be made in it later. `is_empty_dir`
  (`:307`) takes any directory with up to two entries for empty, so `fs_unlink`
  and `fs_rename` remove this one with one or two names in it, and the inodes
  these led to stay allocated with no name: `mkdir /d` on the full disk, a
  block is freed, `mknod /d/x`, `rmdir /d`. `Tree`, `NeverNameless` and
  `OnlyEmptyRemoved` say that this is the only way: a stranded inode has no
  name and one link, what is below it is still a tree, and no other directory
  is removed with a name in it. Nothing in the repository's docs or tests says
  what a directory made on a full disk should be, so there is no run that
  refutes it.
- `lost` (`BlocksOwned`): a block that was taken and written for an entry
  before `add_datablock_to_inode` found no indirect block for it
  (`inode.cpp:555-558`), with the indirect blocks taken so far. `BlocksOwned`
  says that no other block is lost and that those are in no directory.
- `torn` and `Contained` (`Namespace`). A handler cut short by a crash damages
  the inodes it was about: a parent that counts one entry too few, a child that
  has no links or that no name leads to, a file with two names. `NoDangling`,
  `CountsExact`, `BlocksOwned` and `OnlyEmptyRemoved` except those inodes and
  hold for all others; `Tree`, `Listable` and `NeverNameless` are about
  behaviours without such a crash. With two handlers cut short the damage
  spreads: a rename that left two names, and a removal through one of them that
  freed the blocks and not the inode, let a removal through the other name free
  the blocks again, then those of another directory. It also spreads when the
  handler was about a bare directory, which is removed with names in it.
- `Listable` excepts bare directories, which have no "..", and directories that
  were moved: ".." still names the old parent (`linkFuseAndFS.cpp:903`), and
  when that is removed `fs_readdir` fails at it (`:643`).
- `ready`, `flawed`, `torn` (`Boot`): the disk was set up to the end; the start
  could read the superblock and the root (the code does not look at the result
  of `load_FS`, and a root that cannot be read counts as one that is not
  there, so such a start makes a second root); no start ended between
  `createInode` and `WriteRoot` (the inode it took stays allocated, and the
  next start makes its root under the next number).

Two things that break no property. The pool ends early: `maxAlloc`, the number
of the next block, is compared with a count of blocks
(`data_block_operation.cpp:6`), so that the last `INODE_BLOCK_COUNT + 1` blocks
of the device are never used. And most inodes are never used: the scan leaves
out the last inode block (`inode.cpp:84`), and `inodeNum_valid` takes the
number of inode blocks for the number of inodes (`:7`). `FreePool` and
`InodeStore` are given the smaller sets.

When the head of the free list cannot be read, `allocate_data_block` returns
`false`, that is 0 (`data_block_operation.cpp:32`), and `add_datablock_to_inode`
tests for -1 only; the models of the block map have no failing device.

### Bounds

- `BLOCK_COUNT`, `INODE_BLOCK_COUNT`: ten blocks with two inode blocks give the
  allocator a pool of four, enough for a free list of three (a middle block
  goes and comes back, the last one goes back behind `maxAlloc`). The run has
  no bound on the number of calls. Thirty blocks hold any file of `one_file`
  with all its indirect blocks; seventeen are too few for two files, and the
  writes of `two_files` fail for lack of a data block and of each indirect
  block up to the double level. The triple level is not reached there:
  `one_file` grows over it on a disk that is large enough, and only
  `BlockMapProofs` covers a disk that is full inside it.
- `AllocatorSteps`: seven blocks, a pool of three; `MaxCrashes = 2` and
  `MaxFaults = 1`, so that a block lost once meets a second loss and the list is
  rebuilt in between. The number of calls is not bounded. `Content` has a zero
  and a number of the pool, so that what a caller wrote can pass for a link.
- `NUM_OF_ADDRESSES_PER_BLOCK = 2`, `NUM_DIRECT_BLOCKS = 1`: the smallest with
  a first and a last entry in each block. A file then has 1 + 2 + 4 + 8 blocks
  at most, and every boundary between levels is crossed in one step or several.
- `Growths`: all numbers of blocks in `one_file`; 1, 2, 5 and 9 in `two_files`,
  which end inside or at the edge of the levels.
- `MaxRequests` of `BlockMap`: four requests that change the disk in `one_file`
  (grow, cut, grow over the free list, cut or remove), five in `two_files`;
  reads are not counted.
- `FileIO`: a block has two words, so that a request begins and ends in either
  half of a block; `MaxWords = 8` are four blocks, up to the double indirect
  block; the pool of `file_io` is one block short of such a file with its
  blocks of addresses, so that writes fail at each place where one is taken.
  Four requests, one of them cut short: write, truncate, write over the old
  tail, read what is there at each point. A write to the fourth block of an
  empty file finds the disk full inside the hole in front of it, and later
  requests read, cut or fill that hole.
- `InodeTable`: two inodes in a block, so that each has a neighbour; three
  inode blocks, of which two are scanned, and three numbers that are valid. The
  number of calls is not bounded, there is one crash and one fault.
- `Namespace`: three names and paths of two names give a directory with two
  names in it beside another one, and every kind of move between them. An entry
  block holds four entries, so that the third name in the root needs a new
  block and, with one direct address, an indirect one, and a bare directory has
  room for two names and more; three blocks and four inodes run out within the
  six requests, and a full disk, a bare directory, a name in it and its removal
  fit into them. The double indirect level of a directory is not reached; that
  is left to `NamespaceProofs`. One crash, because two are excepted. The names
  are symmetric: nothing tells them apart.
- `Boot`: six starts, two crashes, one fault; six numbers in three inode blocks;
  a pool of three blocks, which the starts cut short use up.
- `CHECK_DEADLOCK FALSE` where a bound on requests or starts ends the behaviour;
  in `allocator`, `allocator_crash`, `inode_table` deadlock is checked.

### Fairness

`InodeTable` assumes `WF_vars(Access(t))` for each thread, and `Boot`
`WF_vars(Step)`: a function that was called goes on. Both are justified by
straight-line code: between two accesses there is no lock, no wait and no loop
but the scan, which moves one block on each time. No fairness is assumed of calls
(`Begin`, `bootUpFileSytem`), of crashes and of faults. `CallsReturn` then says
that the scan ends, and `BootsUp` that a start does; `BootsUp` looks at starts
for which no crash and no fault is left, because one may hit any start. The
handlers of `BlockMap` and `FileIO` are single steps whose loops are bounded by
the sizes of the file and of the blocks; no liveness is claimed of them, of
`AllocatorSteps` and of `Namespace`, whose steps go straight on too.

## 4. Proofs

### `BlockAllocatorProofs`

For every `BLOCK_COUNT`, `INODE_BLOCK_COUNT`, `NUM_OF_ADDRESSES_PER_BLOCK` and
`Payload`:

- `TypeCorrect`: `Spec => []TypeOK`;
- `FreeListCorrect`: `Spec => []FreeListExact`;
- `CleanCorrect`: `Spec => AllocatedClean`;
- `PoolCorrect`: `Spec => ImplementsPool`, the refinement of `FreePool`;
- `WalkCorrect`: `Spec => []WalkAgrees`.

Assumed are `DiskAssumption` (natural numbers, a block has at least one word,
the pool is not empty) and `PayloadAssumption` (what callers write is a block).
TLC evaluates both in the run `allocator`.

The inductive invariant is `Inv == TypeOK /\ FreeListExact`. That the new head
is a block of the pool needs the links on the disk to be the chain
(`ListOnDisk`); that the link of a block on the list is not overwritten needs
the list and the blocks in use to be disjoint (`Partition`); that a freed block
is not put on the list twice needs both. `chain` is a history variable: the
code has no such list, and it never decides what the code does. It is what lets
the invariant speak of a finite list without recursion over the links.

The argument: `AllocateCases` and `FreeCases` say what the two operations
return; for each branch a lemma gives its effect on the variables under the
invariant (`AllocateRefused`, `AllocateFresh`, `AllocateReused`, `FreeEffect`);
`AllocateInv`, `FreeInv`, `WriteInv` re-establish the invariant; `PoolCorrect`
maps each branch to an action of `FreePool` from the same lemmas. `WalkCorrect`
needs no other invariant: under `ListOnDisk` the walk of `getFreeListLength`
goes down `chain` from its end (`Walk` in `Facts`, by induction on the steps).

### `AllocatorStepsProofs`

With one thread (`OneThread`), for every size of the device, whatever the
callers write, and any number of crashes and failing accesses:

- `TypeCorrect`: `Spec => []TypeOK`;
- `MemorySoundCorrect`: `Spec => []MemorySound`;
- `RebootSafeCorrect`: `Spec => []RebootSafe`;
- `PoolCorrect`: `Spec => ImplementsPool`.

The second and third say nothing once a `free_data_block` was cut between its two
writes (`cut`), the last one nothing after the first crash or fault. Assumed is
`StepsAssumption`, which TLC evaluates in the run `allocator_crash`.
`OneThread` is a hypothesis of the theorems and not of the module: with two
threads they are false.

`MemorySound` and `RebootSafe` speak of two moments, between calls and at a
crash; the inductive invariant (`Inv`) speaks of every access. Its centre is
`Layout`: a superblock, the links on the disk and the blocks in use fit each
other, apart from one block that is between the list and a caller, and at most
so many blocks belong to nobody. `InMemory` says it of the superblock in memory
and `OnDisk` of the copy in block 0, at once; the two differ in the block that
is apart (`InFlight`, `Freeing`) and, while `free_data_block` has moved the
head and not yet written the link, in where the list begins (`LinkedHead`).
`Behind` says that the copy never counts more blocks than the memory, `Local`
what each access knows from the tests before it, `CutPaid` that a free list cut
in two was paid for with a crash or a fault. In words: the order of the
accesses (superblock before link, link before the block is given away) is what
makes a crash cost one block and never share one; the only gap is the one that
`cut` records.

The argument: `LayoutPop`, `LayoutPush`, `LayoutMore`, `LayoutLose` and the
others say what taking a block from the list, putting one on it, counting one
more and losing one does to `Layout`; one lemma for each access
(`AllocateKeeps` to `WriteLinkKeeps`, then `WriteKeeps`, `CrashKeeps`,
`RestartKeeps`) shows that it keeps `Inv`, `FailedKeeps` that a failing one does;
`NextInv` joins them. `LayoutSound` leads from `Layout` to the walk in `Sound`,
which is a recursive function (`FreeList`, by induction). `PoolStep` maps
`Save`, which gives the block to the caller, `Free` and a refusing `Test` to the
operations of `FreePool`, and every other access to a stutter.

### `Facts`

What the proofs share and what does not speak of the file system: quotients and
remainders, the least element of a set of numbers, induction up to a bound,
functions defined by recursion (`Recursion`: one exists), sequences with an
element more or less, and linked lists (`Chain`): what a walk along the links
visits, and what writing elsewhere, pushing and popping leave. `Induction` is
about the *set* of numbers for which something holds, because the provers
cannot instantiate the operator parameter of the library's induction theorems.

### `InodeTableProofs`

With one thread (`OneThread`), for every number of blocks, of inode blocks, of
inodes in a block, and any number of crashes and faults:

- `TypeCorrect`: `Spec => []TypeOK`;
- `StoreCorrect`: `Spec => ImplementsStore`, the refinement of `InodeStore`.

Assumed is `TableAssumption`, which TLC evaluates in the run `inode_table`.

The inductive invariant is `Inv == TypeOK /\ Undisturbed /\ Located /\
Purpose`. `Located` says where a function is: a scan is in front of the last
inode block, every other access has a valid number. `Purpose` says what it came
for: a creation holds the number of an inode that is free, a function that
writes an inode was called after a load of it. `Undisturbed` says what one
thread can count on from access to access: the offset is on the block, the
buffer is the block. Without `Purpose` a write is not a step of `InodeStore`,
without `Undisturbed` it might change a neighbour, without `Located` neither
could be said of a number.

The argument: `DivMod`, `Quotient` and `Geometry` show that block and offset name
one inode and that a number found in a scan leads back to its block; for each
action one lemma shows that it keeps `Inv` (`SeekKeeps` to `CrashKeeps`, joined
in `StepInv`). `WriteEffect` is the centre of the refinement: under `Inv` the
write of a whole block changes the inode of one number. `ScanEnd` shows that a
scan that ends has seen every inode that has a valid number, so that a refusal
is one of `InodeStore`; `Unseen` that all other accesses are stutters. With two
threads the theorems are false, as `inode_threads` shows.

### `BootProofs`

For every size of the device and any number of starts, crashes and faults:

- `TypeCorrect`: `Spec => []TypeOK`;
- `MountedCorrect`: `Spec => []MountedSound`;
- `SameRootCorrect`: `Spec => []SameRoot`.

Assumed is `BootAssumption` (at least one inode block and one inode in it, a
data block behind them), which TLC evaluates in the run `boot`.

The inductive invariant has a part for each phase of a program. `Clearing`: a
set-up that is not over has cleared the blocks before `k`. `Remembered`: the
superblock in memory is the disk's, or all zero in a flawed start, and a zero
superblock has no block to hand out; so the zero superblock that `fs_destroy`
may then write back is harmless to the roots on the disk. `Making`: while a root is
made, its inode on the disk counts no entries, its block lies in front of
`maxAlloc`, holds the entries written so far, and belongs to no other root.
`Roots`: after a set-up an inode that counts entries is a root from end to end
(`Whole`). `Chosen` and `Homed` say which number is mounted and where the first
one was. `MountedSound` alone is not inductive: it says nothing of the inodes
that are not mounted, which the next start may mount, nor of what a start that
is cut leaves behind.

The argument: `FailKeeps` covers every crash and fault, since none of them
changes the disk; one lemma for each action covers its success (`SetUpKeeps` to
`DestroyKeeps`, joined in `NextInv`). `BlockKeeps` shows that a new root never
gets the block of another, `WriteRootKeeps` that the inode, written last, shows
a whole root at once, and `CreateKeeps`, with `Least` of `Facts`, that the
first free inode is inode 0 unless the root was there and could not be read.

### `NamespaceProofs`

For any names, any number of inodes, of blocks, of entries in a block and of
requests, and any depth of the paths:

- `TreeCorrect`: `Spec => []Tree`;
- `ListableCorrect`: `Spec => []Listable`;
- `NeverNamelessCorrect`: `Spec => []NeverNameless`;
- `NoDanglingCorrect`, `CountsExactCorrect`, `BlocksOwnedCorrect`, `TypeCorrect`:
  `Spec => [](torn = {} => NoDangling)` and the same for `CountsExact`,
  `BlocksOwned` and `TypeOK`;
- `OnlyEmptyRemovedCorrect`: `Spec /\ [](torn = {}) => OnlyEmptyRemoved`.

The last five are about the time while no crash cut a handler short (`torn =
{}`). Only a crash puts an inode into `torn`: a full disk, with what it leaves
half made, and crashes that leave nothing half written are included. The
properties say more, of the time after one handler was cut short by a crash,
and that is left to `namespace`. What they say with no inode excepted for a
crash is in `NoDanglingUncut`, `CountsExactUncut`, `BlocksOwnedUncut`,
`OnlyEmptyRemovedUncut`; the exceptions for a full disk (`bare`, `stranded`,
`lost`) are in the theorems as in the properties.

Assumed is `NamespaceAssumption`, which TLC evaluates in the run `namespace`.

The inductive invariant (`Invariant`) is `Inv`: while `torn` is empty,
`Clean` and `Recorded`, which is about the history variables. `Sound`
says of inodes, blocks and allocated blocks what a finished request leaves:
they fit (`Fits`: no block twice, no name twice in a directory, counts exact),
a directory that is not bare has its "." and "..", and the names are the edges
of trees (`Treelike`), one with the root directory at its root and one for each
stranded inode. Trees are stated without paths: what contains the roots and
whatever its members lead to is everything. `Fits` also
says that the allocated blocks which are not lost (`Held`) are those of the
directories, `Accounts` that the lost ones are allocated. In the middle of a handler the disk is not
sound, but the disk *with the writes that are still to come* is: `Clean` says
for each next write (`pc`) of which table of inodes, `Parented`, `Removed`,
`Dotted` or the disk itself, `Sound` holds, and what the handler knows from the
lookups that it does not repeat (`Loaded`, `Doomed`, `Renaming`, `Vacant`). Two
names for one inode, in the middle of a rename, are a tree as soon as the old
one is left out (`TwoNames`); that needs the new directory not to be below the
source, which follows from the test of the two paths because a directory has
one path only (`OnePath`, `Moved`).

The module begins with the lemmas: what a leaf more or less does to a tree and
to paths, that `get_inode_of_File` finds `n` if and only if the path leads to
`n` (`Lookup`, by induction on the path), what `add_directory_entry` and
`remove_from_directory` do to the entries and the counts (`NameAdded`,
`NameDropped`), that `Entries`, which flattens the blocks, keeps every entry
once (`EntriesOf`), and that as many steps as there are inodes reach all of a
tree (`ReachesAll`, because each step that is not the last adds an inode). One
lemma for each action shows that it keeps `Clean`. For `TypeOK`, `Limited` is
carried on beside it: no block holds more than `ENTRIES` entries, which with
exact counts bounds `filesCount` (`CountLimit`: the entries of a directory are
at different places on the device). `Seen` leads back from the table that is
sound to what the disk shows meanwhile, for the properties of every step.

### `FileIOProofs`

- `SizeFitsCorrect` (`SizeFitsBlocks`): a file has no more blocks than its size
  needs, and exactly as many unless it is `short`, as long as no removal of
  blocks fails. That none fails (`RemovalsSucceed`) is what `file_io` checks:
  it depends on `Truncations`, because the removal is not right for all of
  them. So a failed removal, which `fs_truncate` does not notice, and a gap on
  a full disk are the only ways in which size and blocks can part.
- `SizeFitsWithoutRemoval`: when no truncation takes a block from its file
  (`NothingRemoved`), nothing is assumed of the behaviour.

Both are about requests without a write inside a file (`NoWriteInside`), for
which the property is false (`write_inside`). Assumed besides are
`DiskAssumption`, `DirectAssumption` and `RequestAssumption`, which TLC
evaluates in `file_io`. A crash leaves the inode as it was, so crashes at any
step are covered.

The inductive invariant (`Inv`) is the property and that an inode has its
fields. The work is in one step, because `fs_write` is one action with two
loops. After `c` blocks of a request, `WordsIn(r, c)` words are written
(`WordsNext`); the first loop keeps this (`OverwriteRound`), and the second
keeps that `written` is what goes into the blocks up to the ones the inode has
now, also in the round that fails (`ExtendRound`): an allocation that fails
leaves the number of blocks as it was. `WriteFits` draws the conclusion from
that, with `KeepIs`, which says without a division how many blocks a length
needs. With no word written the file ends at the offset, in the gap: then it
has as many blocks as were added (`InGap`), at most those that the offset
needs, and `NoteGap` puts it into `short` unless it has all of them. For
`fs_truncate`, `RemovalCounts` shows in each branch of the removal that one
that does not fail has set the number of blocks.

The loops are folds. `FoldStep` turns a fold into one round after the other; as
the provers take no operator as a parameter, it is about the three loops at once
(`Round`).

### `BlockMapProofs`

For every number of blocks of the device, of inode blocks, of addresses in a
block and of direct addresses, any files, and requests of any length in any
order, when `Truncations \subseteq CompleteTruncations` and
`OpenTruncations \subseteq {0}`:

- `TypeCorrect`, `FreeListSoundCorrect`, `NoSharingCorrect`: `Spec => []TypeOK`,
  `Spec => []FreeListSound`, `Spec => []NoSharing`;
- `NoLeakCorrect`: `Spec /\ []Room => []NoLeak`;
- `FileMapCorrect`: `Spec => ImplementsFileMap`, the refinement of `FileMap`;
- `BlockInvCorrect`: `Spec => []BlockInv`, from which all but `NoLeakCorrect`
  follow.

The two conditions are the ones under which the runs `one_file` and `two_files`
pass. They are hypotheses of the theorems and not of the module, because the code
does not establish them: outside them the properties are false (see "What the
exceptions hide", and the run `open_truncate`). So `CompleteTruncations`, which
was found by running the removal on small files, is now shown to be right for
files of every shape: each cut in it frees exactly what lies behind it.
`Room` says that a block is left on the disk and that no file has all the blocks
an inode can have. Without it a write loses the data block for which there was no
indirect block, or no entry in the inode (`linkFuseAndFS.cpp:559`). That is all it
is needed for: a full disk breaks none of the other theorems. Assumed are
`DiskAssumption`, `DirectAssumption` and `RequestAssumption`, which TLC evaluates in
`one_file`.

**The invariant.** Where a block is in a file is a *site* (`BlockSites`): a root
(0 for the direct addresses, 1 to 3 for the single, double and triple
indirect block), a height (0 for data) and a number among those of the same root and
height. `First(q)` is the first logical block below site `q`, and a file of
`n` blocks needs the sites `Reg(n)`, those with `First(q) < n`. A file is then a
function `at` from sites to blocks. `File` says that the disk agrees with it: the
inode has the blocks at the roots, each block of addresses has in entry `k` the
block at `Kid(q, k)` or 0 (`Points`), and no block is at two sites (`Placed`).
`Stored` adds a set `F` of free blocks (`FreeIs`: the free list from its head
together with what lies behind `maxAlloc`) and that files have no block in common.
`BlockInv` is: there are `F` and `at` with `Stored`.

What the properties say is about walks (`FreeList`, `Placements`) and cannot be
carried over a step: it does not say that a block of addresses has zeros behind
its last entry, which `add_datablock_to_inode` relies on when it asks for the
next block, nor that the blocks on the free list have zeros behind their link,
which is why a block of addresses taken from there starts out empty. And it is
not true that a file of `n` blocks has blocks at `Reg(n)` alone: when the disk
has one block left too few, a double indirect block below the triple one stays
linked with nothing below it. `Stale(n)` allows it: the next write that comes
to this place takes another block for it, and the stale one is lost. The proofs
show that no removal frees a block twice or one in use because of it. With
`Room` no such block comes to be; `Exact` (`Reg(n)` and no more, and every
block is free or in a file) is what `NoLeakCorrect` carries on.

**The argument**, from the bottom up:

1. sites: the sites below another one, one after the other; `Route` as the
   path to a site (`WayIs`, `PathIs`), with quotients and remainders in place of
   the divisions of the code;
2. free list: `allocate_data_block` takes a block out of `F`, `free_data_block`
   puts one in, and neither changes another block;
3. removal: the loops of `remove_datablocks_range_from_inode` are folds;
   each is shown to free what is below the entries it went through
   (`DirectShrunk`, `SingleShrunk`, `DoubleWithin`, `TripleWithin`, `DoubleWhole`,
   `TripleWhole`), joined in `RemovalShrinks` for the cuts in `CompleteTruncations`;
4. lookup: `get_datablock_from_inode` returns the block at the site
   (`LookupIs`), and the block of addresses that `fs_read` keeps from one call
   to the next is the right one whenever it is used (`Trustable`, `ReadsAll`);
5. append: `add_datablock_to_inode` goes down to the first entry without a
   block (`OpenOld`, `OpenNew`, `ChildTo`), fails without a trace except the
   stale block (`FailAtRoot`, `FailBelow`), or ends with the block at its site
   (`AppendOne`, `Appends`);
6. requests: `WriteGrows`, `TruncateShrinks`, `OpenShrinks`, `UnlinkShrinks`,
   each with what it leaves alone (`Turn`: it touches its own blocks and free
   ones), from which `StoredNext` and `ExactNext` lead back to the invariant
   for all files;
7. properties: `FreeWalk`, `SharingNone` and `LeakNone` lead from `Stored` and
   `Exact` to the walks, `GrowMaps`, `ShrinkMaps` and `ReadMaps` to the
   operations of `FileMap`, whose sequence of blocks is `Row`.

### What is only model-checked

Of `FileIO`: `ImplementsWordFile`, `TypeOK`, and that no removal fails
(`RemovalsSucceed`). A crash of `FileIO` leaves blocks that are neither free
nor in a file and blocks with words of a write that was cut short, so the
invariant of `BlockMap` does not hold there as it stands. Of `Namespace`: what
one handler cut short by a crash may damage, that is what the properties say
while `Contained` holds and `torn` is not empty, `TypeOK` included.
`CallsReturn` and `BootsUp` are liveness under fairness. Out of the prover's
reach in general: liveness, `ENABLED`, and theorems with an operator as a
parameter (induction and recursion are therefore over sets of numbers, as in
`Facts`).

## 5. Not modelled

- **Times, permissions, owners**: they change no block, inode number or name;
  the early returns on `S_IWUSR` and `S_IRUSR` do nothing.
- **Bytes of a record in a directory**: the search for a name compares lengths
  and bytes, the models compare names. Names longer than
  `FILE_NAME_MAX_LENGTH` are refused by the kernel before.
- **`fs_getattr`, `fs_access`**: they load an inode and change nothing.
- **What the kernel checks**: `Namespace` takes for granted that "." and ".."
  are not created or removed, that a directory is not moved below itself, and
  that a target is not moved over by the other kind of file. `fioc_rename`
  ignores its flags, so `RENAME_EXCHANGE` and `RENAME_NOREPLACE` act as a plain
  rename.
- **Handlers of `Namespace` in several threads**: `InodeTable` and
  `AllocatorSteps` already fail there, one layer below.
- **A failing device** below `BlockMap`, `FileIO` and `Namespace`: faults are in
  `AllocatorSteps`, `InodeTable` and `Boot`.
- **Contents of a file across `fs_unlink`, several files in `FileIO`**: sharing
  of blocks between files is in `BlockMap`.
- **`fuse_interface.cpp`** but for its `main` and the handlers that forward a
  modelled operation; `inMemory`, which only tests set; formatting and logging;
  the tests and the build files.

What could come next: the damage of one handler cut short by a crash in
`Namespace` proved to stay with its inodes, and the invariant of
`BlockMapProofs` carried over to `FileIO` with its crashes, for
`RemovalsSucceed` and the refinement of `WordFile`.
