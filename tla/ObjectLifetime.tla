--------------------------- MODULE ObjectLifetime ---------------------------
(***************************************************************************)
(* What reference counting promises, with nothing of how it is stored: an  *)
(* object has one count of strong references, -dealloc begins in the very  *)
(* step that drops the last one, no reference appears after that, and the  *)
(* memory is freed only after every weak variable was cleared.             *)
(***************************************************************************)
EXTENDS Naturals

VARIABLES
  phase,   \* "free", "live" or "dealloc"
  refs,    \* strong references
  weak     \* a weak variable holds the object

vars == <<phase, refs, weak>>

Init == phase = "free" /\ refs = 0 /\ weak = FALSE

Create ==
  /\ phase = "free" /\ ~weak
  /\ phase' = "live" /\ refs' = 1 /\ UNCHANGED weak

\* -retain, and a weak load that succeeds.
Retain ==
  /\ phase = "live" /\ refs > 0
  /\ refs' = refs + 1 /\ UNCHANGED <<phase, weak>>

Release ==
  /\ phase = "live" /\ refs > 1
  /\ refs' = refs - 1 /\ UNCHANGED <<phase, weak>>

LastRelease ==
  /\ phase = "live" /\ refs = 1
  /\ refs' = 0 /\ phase' = "dealloc" /\ UNCHANGED weak

FormWeak ==
  /\ phase = "live" /\ refs > 0
  /\ weak' = TRUE /\ UNCHANGED <<phase, refs>>

ClearWeak ==
  /\ weak
  /\ weak' = FALSE /\ UNCHANGED <<phase, refs>>

Free ==
  /\ phase = "dealloc" /\ ~weak
  /\ phase' = "free" /\ UNCHANGED <<refs, weak>>

Next == Create \/ Retain \/ Release \/ LastRelease \/ FormWeak \/ ClearWeak \/ Free

Spec == Init /\ [][Next]_vars
=============================================================================
