----------------------------- MODULE MCRefCount -----------------------------
(* Model checking of RefCount: symmetry of the threads that are alike.     *)
EXTENDS RefCount, TLC

Symmetry == Permutations(Threads)
=============================================================================
