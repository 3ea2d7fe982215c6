------------------------- MODULE MCTaskScheduler -------------------------
(* Finite instances of TaskScheduler. *)
EXTENDS TaskScheduler, TLC

CONSTANTS t1, t2, t3

Sym == Permutations(Tasks)
===========================================================================
