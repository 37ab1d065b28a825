------------------------------ MODULE Monitors ------------------------------
(***************************************************************************)
(* What @synchronized promises: each object has a recursive lock that one  *)
(* thread at a time is inside of, any number of blocks deep.               *)
(***************************************************************************)
EXTENDS Naturals

CONSTANTS Threads, Objects

VARIABLE inside   \* inside[t][o]: blocks on o that t is in

Init == inside = [t \in Threads |-> [o \in Objects |-> 0]]

Enter(t, o) ==
  /\ \A u \in Threads \ {t} : inside[u][o] = 0
  /\ inside' = [inside EXCEPT ![t][o] = @ + 1]

Exit(t, o) ==
  /\ inside[t][o] > 0
  /\ inside' = [inside EXCEPT ![t][o] = @ - 1]

Next == \E t \in Threads, o \in Objects : Enter(t, o) \/ Exit(t, o)

Spec == Init /\ [][Next]_inside
=============================================================================
