--------------------------- MODULE MCHostValues ---------------------------
(* Finite instances of HostValues. *)
EXTENDS HostValues, TLC

CONSTANTS v1, v2, v3, v4, o1, o2, o3

Sym == Permutations(Values) \cup Permutations(Objects)
===========================================================================
