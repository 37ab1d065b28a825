----------------------------- MODULE MCWeakRefs -----------------------------
(* WeakRefs for TLC: each object on a stripe of its own, nil on the first.  *)
EXTENDS WeakRefs, TLC

CONSTANTS o1, o2
MCStripe == [o \in Objects \cup {Nil} |-> IF o = o2 THEN 2 ELSE 1]
Symmetry == Permutations(Threads) \cup Permutations(Locations)
=============================================================================
