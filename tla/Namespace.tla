----------------------------- MODULE Namespace -----------------------------
(***************************************************************************)
(* Names and directories: fs_mknod, fs_mkdir, fs_unlink and fs_rename      *)
(* (linkFuseAndFS.cpp) with create_new_file, add_directory_entry,          *)
(* remove_from_directory and get_inode_of_File, one write to the device    *)
(* at a time.  The program may crash between any two writes and is started *)
(* again; the disk and the inode table may be full.                        *)
(*                                                                         *)
(* The kernel (vfs) serves one such request at a time here, and has passed *)
(* on no request that names "." or "..", moves a directory below itself,   *)
(* moves over a directory above the source, or over the other kind of file. *)
(*                                                                         *)
(* Blocks and inode numbers are handed out by layers with models of their  *)
(* own.  A directory is a sequence of blocks of entries and the blocks of  *)
(* addresses that lead to them; a file has none.                           *)
(***************************************************************************)
EXTENDS Integers, FiniteSets, SequencesExt, FiniteSetsExt

CONSTANTS
  Name,          \* names of files, without the two below
  Dot, DotDot,   \* "." and ".."
  INODES,        \* usable inode numbers
  BLOCKS,        \* data blocks that the allocator can hand out
  ENTRIES,       \* entries that fit into a block
  NUM_DIRECT_BLOCKS, NUM_OF_ADDRESSES_PER_BLOCK,
  MaxDepth,      \* bound: names in a path
  MaxRequests,   \* bound: requests
  MaxCrashes     \* bound: crashes

ASSUME NamespaceAssumption ==
  /\ Dot \notin Name /\ DotDot \notin Name /\ Dot # DotDot
  /\ INODES \in Nat \ {0} /\ BLOCKS \in Nat \ {0} /\ ENTRIES \in Nat /\ ENTRIES >= 2
  /\ NUM_DIRECT_BLOCKS \in Nat \ {0} /\ NUM_OF_ADDRESSES_PER_BLOCK \in Nat \ {0}
  /\ MaxDepth \in Nat /\ MaxRequests \in Nat /\ MaxCrashes \in Nat

Inum  == 0 .. (INODES - 1)
Block == 1 .. BLOCKS
Path  == BoundedSeq(Name, MaxDepth) \ {<< >>}

ROOT_DIR_INODE_NUM == 0

\* fs_rename may write the -1 of a lookup that failed into an entry.
Entry == [name : Name \union {Dot, DotDot}, inum : Inum \union {-1}]

\* Of inodeStruct: whether it is allocated, S_ISDIR of its mode, its counts, its blocks in
\* order and the blocks of addresses that lead to them.  Each crash may put a count off by one.
Inode == [is_allocated : BOOLEAN, dir : BOOLEAN, linkCount : (-1 - MaxCrashes) .. 1,
          filesCount : (-MaxCrashes) .. (BLOCKS * ENTRIES + MaxCrashes), blocks : Seq(Block),
          addresses : SUBSET Block]

VARIABLES
  inode,      \* the inodes on the device
  blk,        \* the blocks, as sequences of entries
  used,       \* the blocks that are allocated
  op,         \* the handler that runs: its next write and its locals
  bare,       \* history: directories without "." and "..", for which the disk was too full
  stranded,   \* history: inodes whose name went with a bare directory that was removed
  lost,       \* history: blocks taken for a directory that a full disk let nobody have
  torn,       \* history: inodes that a handler cut short by a crash was about
  requests, crashes

history == <<bare, stranded, lost, torn>>

vars == <<inode, blk, used, op, history, requests, crashes>>

Free == [is_allocated |-> FALSE, dir |-> FALSE, linkCount |-> 0, filesCount |-> 0, blocks |-> << >>,
         addresses |-> {}]

EmptyDir == [Free EXCEPT !.is_allocated = TRUE, !.dir = TRUE, !.linkCount = 1]

\* node is the copy in memory of the directory that is written later.
Idle == [pc |-> "idle", call |-> "none", path |-> << >>, from |-> << >>,
         parent |-> -1, child |-> -1, node |-> Free]

\* bootUpFileSytem has made the root directory.
Init ==
  /\ inode = [n \in Inum |-> IF n = ROOT_DIR_INODE_NUM
                             THEN [EmptyDir EXCEPT !.filesCount = 2, !.blocks = <<1>>] ELSE Free]
  /\ blk = [b \in Block |-> IF b = 1 THEN <<[name |-> Dot, inum |-> 0], [name |-> DotDot, inum |-> 0]>>
                            ELSE << >>]
  /\ used = {1}
  /\ op = Idle
  /\ bare = {} /\ stranded = {} /\ lost = {} /\ torn = {}
  /\ requests = 0 /\ crashes = 0

-----------------------------------------------------------------------------
(* Directories *)

Entries(node) == FlattenSeq([k \in DOMAIN node.blocks |-> blk[node.blocks[k]]])

IsDir(d) == d # -1 /\ inode[d].is_allocated /\ inode[d].dir

\* The place of the first entry with the name, 0 when there is none.
PlaceOf(entries, name) == SelectInSeq(entries, LAMBDA e : e.name = name)

FindIn(d, name) ==
  LET entries == Entries(inode[d])
      k       == PlaceOf(entries, name)
  IN  IF ~IsDir(d) \/ k = 0 THEN -1 ELSE entries[k].inum

Has(d, name) == IsDir(d) /\ \E k \in DOMAIN Entries(inode[d]) : Entries(inode[d])[k].name = name

\* at[k] is what the first k names of the path lead to: the recursion on the path of
\* the parent, which copy_parent_path and copy_file_name take off.
get_inode_of_File(path) ==
  LET at[k \in 0 .. Len(path)] == IF k = 0 THEN ROOT_DIR_INODE_NUM ELSE FindIn(at[k - 1], path[k])
  IN  at[Len(path)]

\* The blocks of addresses that add_datablock_to_inode takes for the data block with k before it.
\* A directory has no third level: its first two hold more entries than there are inodes.
AddressBlocks(k) ==
  LET reference_blockId == k - NUM_DIRECT_BLOCKS
  IN  IF reference_blockId < 0 \/ reference_blockId % NUM_OF_ADDRESSES_PER_BLOCK # 0 THEN 0
      ELSE IF reference_blockId = NUM_OF_ADDRESSES_PER_BLOCK THEN 2 ELSE 1

\* What a further block of a directory takes: itself and its blocks of addresses.
Takings(node) == kSubset(1 + AddressBlocks(Len(node.blocks)), Block \ used)

\* The blocks of the directory with room for an entry more.
Room(node) == {k \in DOMAIN node.blocks : Len(blk[node.blocks[k]]) < ENTRIES}

\* The entry goes into the first block with room, which is written at once.
AddedTo(node, room, entry) ==
  LET first == CHOOSE k \in room : \A j \in room : k <= j
  IN  [ok |-> TRUE, used |-> used, node |-> [node EXCEPT !.filesCount = @ + 1],
       blk |-> [blk EXCEPT ![node.blocks[first]] = Append(@, entry)]]

\* Mutant: the directory does not count the entry.
add_uncounted(node, n, name) ==
  [AddedTo(node, Room(node), [name |-> name, inum |-> n]) EXCEPT !.node = node]

\* Mutant: a full block takes one entry more.
add_to_full(node, n, name) ==
  LET room == {k \in DOMAIN node.blocks : Len(blk[node.blocks[k]]) <= ENTRIES}
  IN  IF room = {} THEN [ok |-> FALSE, node |-> node, blk |-> blk, used |-> used]
      ELSE AddedTo(node, room, [name |-> name, inum |-> n])

\* Into a block with room, or else into a new one, which only the copy of the directory in
\* memory leads to.  Without enough blocks for it, what was taken already stays taken.
add_directory_entry(node, n, name) ==
  LET entry == [name |-> name, inum |-> n]
      taken == CHOOSE T \in Takings(node) : TRUE
      new   == CHOOSE b \in taken : TRUE
  IN  IF ~node.dir THEN [ok |-> FALSE, node |-> node, blk |-> blk, used |-> used]
      ELSE IF Room(node) # {} THEN AddedTo(node, Room(node), entry)
      ELSE IF Takings(node) = {} THEN [ok |-> FALSE, node |-> node, blk |-> blk, used |-> Block]
      ELSE [ok |-> TRUE, used |-> used \union taken, blk |-> [blk EXCEPT ![new] = <<entry>>],
            node |-> [node EXCEPT !.filesCount = @ + 1, !.blocks = Append(@, new),
                                  !.addresses = @ \union (taken \ {new})]]

\* The blocks that an entry that could not be added leaves to nobody.
Lost(added) == IF added.ok THEN lost ELSE lost \union (added.used \ used)

\* The entry is taken out of its block, which is written at once.
remove_from_directory(node, name) ==
  LET Place(j) == PlaceOf(blk[node.blocks[j]], name)
      k      == CHOOSE j \in DOMAIN node.blocks : Place(j) # 0 /\ \A i \in 1 .. (j - 1) : Place(i) = 0
  IN  [node |-> [node EXCEPT !.filesCount = @ - 1],
       blk  |-> [blk EXCEPT ![node.blocks[k]] = RemoveAt(@, Place(k))]]

-----------------------------------------------------------------------------
(* The frame of a request and of its writes *)

Request(o) ==
  /\ requests' = requests + 1
  /\ op' = o
  /\ UNCHANGED <<inode, blk, used, history, crashes>>

At(pc) == op.pc = pc

Go(pc) == op' = [op EXCEPT !.pc = pc]

Same == UNCHANGED <<history, requests, crashes>>

WriteInode(n, node) ==
  /\ inode' = [inode EXCEPT ![n] = node]
  /\ UNCHANGED <<blk, used>>

Finish(n, node) == WriteInode(n, node) /\ op' = Idle /\ Same

-----------------------------------------------------------------------------
(* create_new_file, for fs_mknod and fs_mkdir *)

Create(call, path) ==
  LET d == get_inode_of_File(Front(path))
  IN  /\ get_inode_of_File(path) = -1
      /\ IsDir(d)
      /\ Request([Idle EXCEPT !.pc = "create", !.call = call, !.path = path, !.parent = d,
                              !.node = inode[d]])

fs_mknod(path) == Create("mknod", path)
fs_mkdir(path) == Create("mkdir", path)

\* What the inode held before stays in it, its mode included.
createInode ==
  LET free == {n \in Inum : ~inode[n].is_allocated}
      n    == CHOOSE n \in free : \A m \in free : n <= m
  IN  /\ At("create")
      /\ IF free = {} THEN op' = Idle /\ UNCHANGED <<inode, blk, used>>
         ELSE /\ WriteInode(n, [inode[n] EXCEPT !.is_allocated = TRUE, !.linkCount = 0])
              /\ op' = [op EXCEPT !.pc = "add", !.child = n]
      /\ Same

AddChild ==
  LET added == add_directory_entry(op.node, op.child, Last(op.path))
  IN  /\ At("add")
      /\ blk' = added.blk /\ used' = added.used /\ lost' = Lost(added)
      /\ op' = [op EXCEPT !.pc = IF added.ok THEN "parent" ELSE "undo", !.node = added.node]
      /\ UNCHANGED <<inode, bare, stranded, torn, requests, crashes>>

\* delete_inode leaves i_mode.
Deleted(n) == [Free EXCEPT !.dir = inode[n].dir]

\* Mutant: the inode of a creation that failed stays allocated.
UndoNothing == At("undo") /\ op' = Idle /\ UNCHANGED <<inode, blk, used>> /\ Same

UndoCreate == At("undo") /\ Finish(op.child, Deleted(op.child))

WriteParent ==
  /\ At("parent")
  /\ WriteInode(op.parent, op.node)
  /\ Go("child") /\ Same

WriteChild ==
  /\ At("child")
  /\ WriteInode(op.child, [EmptyDir EXCEPT !.dir = (op.call = "mkdir")])
  /\ IF op.call = "mkdir" THEN Go("dots") ELSE op' = Idle
  /\ Same

\* fs_mkdir: "." and ".." need a block; without one the new directory stays as it
\* is, in its parent, and fs_mkdir fails.
AddDots ==
  LET dots == add_directory_entry(inode[op.child], op.child, Dot)
      b    == dots.node.blocks[1]
  IN  /\ At("dots")
      /\ used' = dots.used /\ lost' = Lost(dots)
      /\ IF dots.ok
         THEN /\ blk' = [dots.blk EXCEPT ![b] = Append(@, [name |-> DotDot, inum |-> op.parent])]
              /\ op' = [op EXCEPT !.pc = "self", !.node = [dots.node EXCEPT !.filesCount = @ + 1]]
              /\ UNCHANGED bare
         ELSE /\ op' = Idle
              /\ bare' = bare \union {op.child}
              /\ UNCHANGED blk
      /\ UNCHANGED <<inode, stranded, torn, requests, crashes>>

WriteSelf == At("self") /\ Finish(op.child, op.node)

-----------------------------------------------------------------------------
(* fs_unlink, for files and directories; fs_rename calls it for its target *)

\* Mutant: a directory is never too full to be removed.
RemovableAlways(n) == n \notin {-1, ROOT_DIR_INODE_NUM} /\ inode[n].is_allocated

Removable(n) ==
  /\ n \notin {-1, ROOT_DIR_INODE_NUM}
  /\ inode[n].is_allocated
  /\ ~(inode[n].dir /\ inode[n].filesCount > 2)

Unlinking(call, path, from) ==
  LET d == get_inode_of_File(Front(path))
  IN  [Idle EXCEPT !.pc = "remove", !.call = call, !.path = path, !.from = from,
                   !.parent = d, !.child = get_inode_of_File(path), !.node = inode[d]]

fs_unlink(path) ==
  /\ Removable(get_inode_of_File(path))
  /\ Request(Unlinking("unlink", path, << >>))

RemoveName ==
  LET removed == remove_from_directory(op.node, Last(op.path))
  IN  /\ At("remove")
      /\ blk' = removed.blk
      /\ op' = [op EXCEPT !.node = removed.node,
                          !.pc = IF inode[op.child].linkCount = 1 THEN "free" ELSE "node"]
      /\ UNCHANGED <<inode, used>> /\ Same

\* The blocks of a directory.
Owns(node) == Range(node.blocks) \union node.addresses

\* The inodes that the names in a directory lead to.
NamesIn(d) ==
  LET entries == Entries(inode[d])
  IN  {entries[k].inum : k \in {j \in DOMAIN entries : entries[j].name \in Name}}

\* Mutant: the blocks stay allocated.
FreeNothing == At("free") /\ Go("node") /\ UNCHANGED <<inode, blk, used>> /\ Same

\* The last link: delete_inode frees the blocks and then writes the inode.
FreeBlocks ==
  /\ At("free")
  /\ used' = used \ Owns(inode[op.child])
  /\ Go("node")
  /\ UNCHANGED <<inode, blk>> /\ Same

\* The names in a directory that is removed are gone with it.
WriteNode ==
  LET last == inode[op.child].linkCount = 1
  IN  /\ At("node")
      /\ WriteInode(op.child, IF last THEN Deleted(op.child) ELSE [inode[op.child] EXCEPT !.linkCount = @ - 1])
      /\ stranded' = IF last /\ op.child \in bare THEN stranded \union NamesIn(op.child) ELSE stranded
      /\ bare' = IF last /\ op.child \notin torn THEN bare \ {op.child} ELSE bare
      /\ Go("upper")
      /\ UNCHANGED <<lost, torn, requests, crashes>>

WriteUpper ==
  /\ At("upper")
  /\ WriteInode(op.parent, op.node)
  /\ IF op.call = "rename" THEN Go("link") ELSE op' = Idle
  /\ Same

-----------------------------------------------------------------------------
(* fs_rename *)

fs_rename(from, path) ==
  LET n == get_inode_of_File(from)
      m == get_inode_of_File(path)
  IN  /\ n # -1 /\ inode[n].is_allocated
      /\ IsDir(get_inode_of_File(Front(path)))
      /\ ~IsPrefix(from, path) /\ ~IsPrefix(path, from)
      /\ m # -1 => Removable(m) /\ inode[m].dir = inode[n].dir
      /\ Request(IF m # -1 THEN Unlinking("rename", path, from)
                 ELSE [Idle EXCEPT !.pc = "link", !.call = "rename", !.path = path, !.from = from])

\* Mutant: the old name is dropped even when there was no room for the new one.
AddNameUnchecked ==
  LET d     == get_inode_of_File(Front(op.path))
      n     == get_inode_of_File(op.from)
      added == add_directory_entry(inode[d], n, Last(op.path))
  IN  /\ At("link") /\ IsDir(d)
      /\ blk' = added.blk /\ used' = added.used /\ lost' = Lost(added)
      /\ op' = [op EXCEPT !.pc = "linked", !.parent = d, !.child = n, !.node = added.node]
      /\ UNCHANGED <<inode, bare, stranded, torn, requests, crashes>>

\* The new name; when there is no room for it the target is gone all the same.
AddName ==
  LET d     == get_inode_of_File(Front(op.path))
      n     == get_inode_of_File(op.from)
      added == add_directory_entry(inode[d], n, Last(op.path))
  IN  /\ At("link")
      /\ IF IsDir(d)
         THEN /\ blk' = added.blk /\ used' = added.used /\ lost' = Lost(added)
              /\ op' = IF ~added.ok THEN Idle
                       ELSE [op EXCEPT !.pc = "linked", !.parent = d, !.child = n, !.node = added.node]
         ELSE op' = Idle /\ UNCHANGED <<blk, used, lost>>
      /\ UNCHANGED <<inode, bare, stranded, torn, requests, crashes>>

WriteTo ==
  /\ At("linked")
  /\ WriteInode(op.parent, op.node)
  /\ Go("drop") /\ Same

\* Mutant: the old name stays.
DropNothing == At("drop") /\ op' = Idle /\ UNCHANGED <<inode, blk, used>> /\ Same

\* The directory of the old name is loaded after that of the new one was written.
DropName ==
  LET d       == get_inode_of_File(Front(op.from))
      removed == remove_from_directory(inode[d], Last(op.from))
  IN  /\ At("drop")
      /\ IF Has(d, Last(op.from))
         THEN blk' = removed.blk /\ op' = [op EXCEPT !.pc = "dropped", !.parent = d, !.node = removed.node]
         ELSE op' = Idle /\ UNCHANGED blk
      /\ UNCHANGED <<inode, used>> /\ Same

WriteFrom == At("dropped") /\ Finish(op.parent, op.node)

-----------------------------------------------------------------------------

\* bootUpFileSytem takes the root directory that it finds.
root_found ==
  /\ inode[ROOT_DIR_INODE_NUM].is_allocated
  /\ inode[ROOT_DIR_INODE_NUM].filesCount >= 2

\* The program stops between two writes and is started again; this model ends
\* where it would then make another root.
Crash ==
  /\ ~At("idle")
  /\ root_found
  /\ crashes < MaxCrashes
  /\ crashes' = crashes + 1
  /\ op' = Idle
  /\ torn' = IF op.pc \in {"create", "remove", "link"} THEN torn
             ELSE torn \union ({op.parent, op.child} \ {-1})
  /\ UNCHANGED <<inode, blk, used, bare, stranded, lost, requests>>

\* One request at a time.
Serve ==
  /\ At("idle")
  /\ requests < MaxRequests
  /\ \/ \E path \in Path : fs_mknod(path) \/ fs_mkdir(path) \/ fs_unlink(path)
     \/ \E from \in Path, path \in Path : fs_rename(from, path)

Next ==
  \/ Serve
  \/ createInode \/ AddChild \/ UndoCreate \/ WriteParent \/ WriteChild \/ AddDots \/ WriteSelf
  \/ RemoveName \/ FreeBlocks \/ WriteNode \/ WriteUpper
  \/ AddName \/ WriteTo \/ DropName \/ WriteFrom
  \/ Crash

Spec == Init /\ [][Next]_vars

-----------------------------------------------------------------------------
(* Properties *)

\* Every field keeps its type and its bounds: no block holds more entries than fit, and
\* a crash puts the count of entries or of links of an inode off by one at most.
TypeOK ==
  /\ inode \in [Inum -> Inode]
  /\ blk \in [Block -> Seq(Entry)] /\ \A b \in Block : Len(blk[b]) <= ENTRIES
  /\ used \subseteq Block
  /\ bare \subseteq Inum /\ stranded \subseteq Inum /\ torn \subseteq Inum
  /\ lost \subseteq Block
  /\ op.parent \in Inum \union {-1} /\ op.child \in Inum \union {-1}
  /\ requests \in 0 .. MaxRequests /\ crashes \in 0 .. MaxCrashes

Dirs == {d \in Inum : IsDir(d)}

\* The names, "." and ".." apart, in the directories: the directory, the place in it
\* and the inode that the name leads to.
Links ==
  UNION {LET entries == Entries(inode[d])
         IN  {<<d, k, entries[k].inum>> : k \in {j \in DOMAIN entries : entries[j].name \in Name}} : d \in Dirs}

LinksTo(n) == {l \in Links : l[3] = n}

\* The damage of one handler cut short stays with the inodes it was about.  After a second crash,
\* or when the handler was about a bare directory, later requests may spread it.
Contained == crashes <= 1 /\ torn \intersect bare = {}

\* A name leads to an inode that is allocated, at every step of every handler and
\* after a crash at any of them: only the inodes a handler cut short was about
\* are excepted.
NoDangling ==
  Contained => \A l \in Links : l[1] \in torn \/ l[3] \in torn \/ (l[3] # -1 /\ inode[l[3]].is_allocated)

\* Between requests, a directory counts the entries it has: is_empty_dir, which
\* reads nothing but filesCount, is right.
CountsExact ==
  Contained /\ op = Idle => \A d \in Dirs \ torn : inode[d].filesCount = Len(Entries(inode[d]))

\* The inodes that k names lead to, at most, from the root or from a stranded inode.
Reached ==
  LET reach[k \in 0 .. INODES] ==
        IF k = 0 THEN {ROOT_DIR_INODE_NUM} \union stranded
        ELSE reach[k - 1] \union {l[3] : l \in {m \in Links : m[1] \in reach[k - 1]}}
  IN  reach[INODES]

\* Between requests, and while no crash cut a handler short, the names form a tree: an
\* allocated inode other than the root has one name and one link, and a path from the root
\* leads to it.  The exception are the inodes whose names went with a bare directory:
\* they have no name left, and trees of their own below them.  No other request, on a full
\* disk or with no inode left, leaves an inode allocated that nobody can reach.
Tree ==
  op = Idle /\ torn = {} =>
    \A n \in Inum \ {ROOT_DIR_INODE_NUM} :
      inode[n].is_allocated => /\ Cardinality(LinksTo(n)) = IF n \in stranded THEN 0 ELSE 1
                               /\ inode[n].linkCount = 1
                               /\ n \in Reached

\* fs_readdir stops with an error at the first entry whose inode it cannot load, "." and
\* ".." included.
fs_readdir(d) ==
  \A k \in DOMAIN Entries(inode[d]) :
    LET n == Entries(inode[d])[k].inum IN n # -1 /\ inode[n].is_allocated

\* Between requests every directory can be listed, unless it was moved: its ".." still
\* names the directory it was made in, which may be gone.  A bare one has no "..".
Listable ==
  op = Idle /\ torn = {} =>
    \A d \in Dirs \ ({ROOT_DIR_INODE_NUM} \union bare) :
      FindIn(d, DotDot) \in {l[1] : l \in LinksTo(d)} => fs_readdir(d)

\* A file has a name at every step, that of fs_rename included, but for
\* the steps of fs_unlink that follow the removal of the name, and for the inodes
\* whose names went with a bare directory.
NeverNameless ==
  torn = {} =>
    \A n \in Inum \ ({ROOT_DIR_INODE_NUM} \union stranded) :
      inode[n].is_allocated /\ inode[n].linkCount = 1 /\ ~(op.child = n /\ op.pc \in {"free", "node"})
        => LinksTo(n) # {}

\* Two directories have no block in common, of entries or of addresses, every block of a
\* directory is allocated and none is lost, after a crash too.  While no crash cut a handler short
\* and none runs, every block that is allocated belongs to a directory, but for those
\* that were taken for an entry whose blocks of addresses a full disk did not have.
BlocksOwned ==
  /\ Contained => \A d \in Dirs \ torn :
       /\ Owns(inode[d]) \subseteq used \ lost \/ (op.child = d /\ op.pc = "node")
       /\ \A e \in Dirs \ (torn \union {d}) : Owns(inode[d]) \intersect Owns(inode[e]) = {}
  /\ op = Idle /\ torn = {} => used = lost \union UNION {Owns(inode[d]) : d \in Dirs}

\* bootUpFileSytem ("Check for root directory") finds the root directory that it made,
\* whenever the program is started.
RootFound == op = Idle => root_found

\* fs_unlink and fs_rename remove no directory with a name in it, unless it is bare:
\* is_empty_dir then takes its first two names for "." and "..".
OnlyEmptyRemoved ==
  [][Contained => \A d \in Dirs \ torn :
       ~inode'[d].is_allocated => \/ \A l \in Links : l[1] # d
                                  \/ d \in bare /\ Len(Entries(inode[d])) <= 2]_vars
=============================================================================
