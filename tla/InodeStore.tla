----------------------------- MODULE InodeStore -----------------------------
(***************************************************************************)
(* What the inode table promises to the handlers: every usable number      *)
(* names an inode, which is free or allocated.  A number is given out only *)
(* while its inode is free, a creation is refused only when none is free,  *)
(* a load returns what was written last under that number, and a call      *)
(* that fails changes nothing.                                             *)
(***************************************************************************)
EXTENDS Integers

CONSTANTS
  Thread,    \* threads that run handlers
  Number,    \* the usable inode numbers
  Inode,     \* the contents of an inode
  Blank      \* what a free inode holds, but for i_mode

VARIABLES
  inode,    \* the inode under each number
  answer,   \* for each thread: the result of its last call
  faults    \* accesses that the device did not carry out

vars == <<inode, answer, faults>>

Nothing == [call |-> "none", num |-> -1, ok |-> FALSE, node |-> Blank]

Init ==
  /\ inode \in [Number -> {i \in Inode : ~i.is_allocated}]
  /\ answer = [t \in Thread |-> Nothing]
  /\ faults = 0

Answer(t, call, n, ok, node) ==
  answer' = [answer EXCEPT ![t] = [call |-> call, num |-> n, ok |-> ok, node |-> node]]

Create(t, n) ==
  /\ ~inode[n].is_allocated
  /\ inode' = [inode EXCEPT ![n].is_allocated = TRUE, ![n].linkCount = 0]
  /\ Answer(t, "createInode", n, TRUE, Blank)
  /\ UNCHANGED faults

Refuse(t) ==
  /\ \A n \in Number : inode[n].is_allocated
  /\ Answer(t, "createInode", -1, FALSE, Blank)
  /\ UNCHANGED <<inode, faults>>

Load(t, n) ==
  /\ IF n \in Number /\ inode[n].is_allocated
     THEN Answer(t, "loadINodeFromDisk", n, TRUE, inode[n])
     ELSE Answer(t, "loadINodeFromDisk", n, FALSE, Blank)
  /\ UNCHANGED <<inode, faults>>

\* Of an inode the handler loaded, with one of its fields changed.
Write(t, n) ==
  /\ answer[t].call = "loadINodeFromDisk" /\ answer[t].ok /\ answer[t].num = n
  /\ \E node \in Inode :
       /\ node.is_allocated
       /\ node.i_mode = answer[t].node.i_mode \/ node.linkCount = answer[t].node.linkCount
       /\ inode' = [inode EXCEPT ![n] = node]
       /\ Answer(t, "writeINodeToDisk", n, TRUE, Blank)
  /\ UNCHANGED faults

Delete(t, n) ==
  /\ answer[t].call = "loadINodeFromDisk" /\ answer[t].ok /\ answer[t].num = n
  /\ inode' = [inode EXCEPT ![n] = [Blank EXCEPT !.i_mode = inode[n].i_mode]]
  /\ Answer(t, "delete_inode", n, TRUE, Blank)
  /\ UNCHANGED faults

\* Nothing fails unless the device does.
Fail(t) ==
  /\ faults' = faults + 1
  /\ \E call \in {"createInode", "loadINodeFromDisk", "writeINodeToDisk", "delete_inode"},
        n \in Number \union {-1} : Answer(t, call, n, FALSE, Blank)
  /\ UNCHANGED inode

Restart ==
  /\ answer' = [t \in Thread |-> Nothing]
  /\ UNCHANGED <<inode, faults>>

Next ==
  \/ \E t \in Thread :
       \/ Refuse(t) \/ Fail(t)
       \/ \E n \in Number : Create(t, n) \/ Write(t, n) \/ Delete(t, n)
       \/ \E n \in Number \union {-1} : Load(t, n)
  \/ Restart

Spec == Init /\ [][Next]_vars
=============================================================================
