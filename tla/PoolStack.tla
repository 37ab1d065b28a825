----------------------------- MODULE PoolStack -----------------------------
(***************************************************************************)
(* What autorelease pools promise a thread: a stack of pools, each a bag   *)
(* of objects.  A pop drains the pools it covers, newest first, whatever   *)
(* the objects' -dealloc methods push, pop and autorelease meanwhile, and  *)
(* releases every object as often as it was autoreleased.                  *)
(***************************************************************************)
EXTENDS Integers, Sequences, SequencesExt

CONSTANTS Objects, NoObject

VARIABLES
  levels,   \* levels[1] is for objects outside of any pool, then one per pool
  drains,   \* pops in progress, newest last: the number of levels to keep, and
            \* the object in hand with the number of releases it has left
  owed,     \* owed[o]: autoreleases of o that were not followed by a release
  abandons  \* whether an exiting thread may abandon what is left

EmptyPool == [o \in Objects |-> 0]
Top == Len(levels)
Current == Last(drains)
Draining == drains # <<>> /\ Current.left = 0 /\ Top > Current.keep

Init == levels = <<EmptyPool>> /\ drains = <<>> /\ owed = EmptyPool /\ abandons \in BOOLEAN

Autorelease(o) ==
  /\ levels' = [levels EXCEPT ![Top][o] = @ + 1]
  /\ owed' = [owed EXCEPT ![o] = @ + 1]
  /\ UNCHANGED drains

Push == levels' = Append(levels, EmptyPool) /\ UNCHANGED <<drains, owed>>

\* A pop does not reach below the pop it happens in.
MayKeep(n) == n \in 0..Top /\ (drains # <<>> => n >= Current.keep)

Pop(n) ==
  /\ MayKeep(n)
  /\ drains' = Append(drains, [keep |-> n, obj |-> NoObject, left |-> 0])
  /\ UNCHANGED <<levels, owed>>

\* Pools that nothing was put into go at once.
PopEmpty(n) ==
  /\ MayKeep(n) /\ n > 0 /\ \A i \in n + 1 .. Top : levels[i] = EmptyPool
  /\ levels' = SubSeq(levels, 1, n)
  /\ UNCHANGED <<drains, owed>>

Take(o, n) ==
  /\ Draining /\ n \in 1..levels[Top][o]
  /\ levels' = [levels EXCEPT ![Top][o] = @ - n]
  /\ drains' = [drains EXCEPT ![Len(drains)].obj = o, ![Len(drains)].left = n]
  /\ UNCHANGED owed

Release ==
  /\ drains # <<>> /\ Current.left > 0
  /\ drains' = [drains EXCEPT ![Len(drains)].left = @ - 1,
                              ![Len(drains)].obj = IF Current.left = 1 THEN NoObject ELSE @]
  /\ owed' = [owed EXCEPT ![Current.obj] = @ - 1]
  /\ UNCHANGED levels

DropPool ==
  /\ Draining /\ Top > 1 /\ levels[Top] = EmptyPool
  /\ levels' = Front(levels)
  /\ UNCHANGED <<drains, owed>>

\* A drain that keeps no level is the thread's exit.
Finish ==
  /\ drains # <<>> /\ Current.left = 0
  /\ Top = Current.keep \/ levels = <<EmptyPool>>
  /\ drains' = Front(drains)
  /\ UNCHANGED <<levels, owed>>

Abandon ==
  /\ abandons /\ drains # <<>> /\ Current.left = 0 /\ Current.keep = 0
  /\ levels' = <<EmptyPool>> /\ drains' = Front(drains) /\ owed' = EmptyPool

Step ==
  \/ \E o \in Objects : Autorelease(o) \/ \E n \in 1..levels[Top][o] : Take(o, n)
  \/ \E n \in 0..Top : Pop(n) \/ PopEmpty(n)
  \/ Push \/ Release \/ DropPool \/ Finish \/ Abandon

Next == Step /\ UNCHANGED abandons

Spec == Init /\ [][Next]_<<levels, drains, owed, abandons>>
=============================================================================
