--------------------------- MODULE MCTaskQueue ---------------------------
(* Finite instances of TaskQueue. *)
EXTENDS TaskQueue, TLC

CONSTANTS t1, t2, t3, q1, q2

Sym == Permutations(Tasks)
===========================================================================
