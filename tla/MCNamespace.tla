----------------------------- MODULE MCNamespace -----------------------------
(***************************************************************************)
(* Namespace for TLC.  No definition tells one name from another, so that  *)
(* the names are interchangeable.                                          *)
(***************************************************************************)
EXTENDS Namespace, TLC

Interchangeable == Permutations(Name)
=============================================================================
