----------------------------- MODULE Registers ------------------------------
(***************************************************************************)
(* What associated objects and properties promise: each is a register of   *)
(* the object.  A call takes effect at one moment between its beginning    *)
(* and its end; a new object at the same address has empty registers.      *)
(***************************************************************************)
CONSTANTS
  Threads, Cells, Items, empty,
  Kept        \* the items that objc_removeAssociatedObjects leaves

VARIABLES val, call, alive

regVars == <<val, call, alive>>

Entry(kind, cell, item, done) == [kind |-> kind, cell |-> cell, item |-> item, done |-> done]
Idle == Entry("none", empty, empty, FALSE)

Init == val = [c \in Cells |-> empty] /\ call = [t \in Threads |-> Idle] /\ alive = TRUE

Calls ==
  [kind : {"set"}, cell : Cells, item : Items \cup {empty}, done : {FALSE}]
  \cup [kind : {"get"}, cell : Cells, item : {empty}, done : {FALSE}]
  \cup {Entry("clear", empty, empty, FALSE)}

Begin(t) ==
  /\ alive /\ call[t] = Idle
  /\ call'[t] \in Calls /\ \A u \in Threads \ {t} : call'[u] = call[u]
  /\ UNCHANGED <<val, alive>>

Set(t) ==
  /\ call[t].kind = "set" /\ ~call[t].done
  /\ val' = [val EXCEPT ![call[t].cell] = call[t].item]
  /\ call' = [call EXCEPT ![t] = Entry("set", empty, empty, TRUE)]
  /\ UNCHANGED alive

Get(t) ==
  /\ call[t].kind = "get" /\ ~call[t].done
  /\ call' = [call EXCEPT ![t] = Entry("get", call[t].cell, val[call[t].cell], TRUE)]
  /\ UNCHANGED <<val, alive>>

\* Removing everything may be without effect while another call is setting something.
Clear(t) ==
  /\ call[t].kind = "clear" /\ ~call[t].done
  /\ call' = [call EXCEPT ![t] = Entry("clear", empty, empty, TRUE)]
  /\ \/ val' = [c \in Cells |-> IF val[c] \in Kept THEN val[c] ELSE empty]
     \/ UNCHANGED val /\ \E u \in Threads : call[u].kind = "set" /\ call[u].done
  /\ UNCHANGED alive

End(t) == call[t].done /\ call' = [call EXCEPT ![t] = Idle] /\ UNCHANGED <<val, alive>>

\* The object dies when nobody uses it; its registers are emptied before it is born again.
Die == alive /\ alive' = FALSE /\ (\A t \in Threads : call[t] = Idle) /\ UNCHANGED <<val, call>>
Empty == ~alive /\ (\A c \in Cells : val'[c] \in {val[c], empty}) /\ UNCHANGED <<call, alive>>
Born == ~alive /\ alive' = TRUE /\ (\A c \in Cells : val[c] = empty) /\ UNCHANGED <<val, call>>

Next ==
  \/ \E t \in Threads : Begin(t) \/ Set(t) \/ Get(t) \/ Clear(t) \/ End(t)
  \/ Die \/ Born \/ Empty

Spec == Init /\ [][Next]_regVars
=============================================================================
