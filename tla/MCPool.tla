------------------------------- MODULE MCPool -------------------------------
(* Small pages of entries that stay apart, and one page of entries that       *)
(* coalesce.  Where pools have pages of their own, -dealloc methods that pop  *)
(* what they push, and ones that need not.                                    *)
EXTENDS AutoreleasePool, TLC

Apart == {"DISABLE_AUTORELEASE_COALESCING", "DISABLE_AUTORELEASE_COALESCING_LRU"}
Coalescing == {{}, {"DISABLE_AUTORELEASE_COALESCING_LRU"}}
DebuggedPools == {Apart \cup {"DEBUG_POOL_ALLOCATION"}}
LeakyDebuggedPools == {{"DEBUG_POOL_ALLOCATION", "DISABLE_AUTORELEASE_COALESCING_LRU"}}

MCEnvironments == Coalescing \cup DebuggedPools \cup LeakyDebuggedPools \cup {Apart, Apart \cup {"DEBUG_MISSING_POOLS"}}
MCLeakyEnvironments == MCEnvironments \ DebuggedPools
MCPageSize == [e \in MCEnvironments |-> IF e \in Coalescing THEN 5 ELSE 2]
MCMaxPages == [e \in MCEnvironments |-> IF e \in Coalescing THEN 1 ELSE 3]

Symmetry == Permutations(Objects)
=============================================================================
