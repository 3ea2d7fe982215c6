---------------------------- MODULE MCUnwinding -----------------------------
(* Two fibers and the root, with few frames between them. *)
EXTENDS Unwinding, TLC

Alike == Permutations(Fibers)
=============================================================================
