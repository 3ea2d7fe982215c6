---------------------------- MODULE MCCollector -----------------------------
(* A small heap, one context besides the root. *)
EXTENDS Collector, TLC
=============================================================================
