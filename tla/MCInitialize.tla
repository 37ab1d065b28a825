---------------------------- MODULE MCInitialize ----------------------------
(* Initialize for TLC: the hierarchy of the note on deadlocks in           *)
(* objc-initialize.mm, cut down: a root class, a class whose +initialize   *)
(* uses its subclass and its sibling, that subclass, and that sibling.     *)
EXTENDS Initialize

MCClasses == {"Root", "Base", "Leaf", "Other"}
MCSuperclass == [c \in MCClasses |-> CASE c = "Root" -> "Nil" [] c = "Leaf" -> "Base" [] OTHER -> "Root"]
MCUses == [c \in MCClasses |-> IF c = "Base" THEN {"Leaf", "Other"} ELSE IF c = "Leaf" THEN {"Base"} ELSE {}]
=============================================================================
