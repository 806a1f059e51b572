------------------------------ MODULE FreePool ------------------------------
(***************************************************************************)
(* What the data block layer promises to its callers: a pool of blocks.    *)
(* A block is given to one caller at a time, an allocation is refused only *)
(* when every block of the pool is in use, and a block given back can be   *)
(* given out again.  How the free blocks are found is not said.            *)
(***************************************************************************)
EXTENDS Integers

CONSTANT Block   \* the blocks of the pool

VARIABLES
  held,   \* the blocks in use
  ret     \* the result of the last allocation: a block, or -1

vars == <<held, ret>>

Init == held = {} /\ ret = -1

Acquire(b) ==
  /\ b \notin held
  /\ held' = held \union {b}
  /\ ret' = b

Refuse ==
  /\ Block \subseteq held
  /\ ret' = -1
  /\ UNCHANGED held

Release(b) ==
  /\ b \in held
  /\ held' = held \ {b}
  /\ UNCHANGED ret

Next ==
  \/ \E b \in Block : Acquire(b) \/ Release(b)
  \/ Refuse

Spec == Init /\ [][Next]_vars
=============================================================================
