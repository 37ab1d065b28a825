----------------------------- MODULE MCStorage ------------------------------
(* Storage for TLC: a key whose values are copied or only assigned, a key of *)
(* the system, a property, and three structs of which two share a lock.      *)
EXTENDS Storage, TLC

MCPolicies == "k" :> {"copy", "assign"} @@ "l" :> {"system"}
MCStripeOf == "p" :> 1 @@ "s1" :> 1 @@ "s2" :> 2 @@ "s3" :> 2
MCStructCopies == {<<"s1", "s2">>, <<"s2", "s3">>, <<"s3", "s1">>}
Symmetry == Permutations(Threads) \cup Permutations(Values)
=============================================================================
