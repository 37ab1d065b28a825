------------------------------- MODULE MCSync -------------------------------
(* Sync for TLC: threads and records are interchangeable, objects are not. *)
EXTENDS Sync, TLC

Symmetry == Permutations(Threads) \cup Permutations(Records)
=============================================================================
