------------------------------- MODULE MCHash -------------------------------
(* Small Hashes.  Every face of an object key has the same hash code, so that *)
(* they meet in the same buckets, whichever answers by which.                 *)
EXTENDS HashCalls, TLC

Codes == [c \in NativeKeys \cup Faces |-> IF c \in Faces THEN 1 ELSE 2]

Alike == Permutations(NativeKeys) \cup Permutations(ObjKeys) \cup Permutations(Faces)
=============================================================================
