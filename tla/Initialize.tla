----------------------------- MODULE Initialize -----------------------------
(***************************************************************************)
(* +initialize (objc-initialize.mm): the first message to a class runs its *)
(* +initialize method, on one thread, after the one of its superclass,     *)
(* while that thread may use the class and others wait; the functions to   *)
(* be told of it; and what becomes of it in the child of a fork.           *)
(*                                                                         *)
(* classInitLock is held for whole steps of this module; reads outside of  *)
(* it are steps of their own.  A thread has a stack of calls, of           *)
(* initializeNonMetaClass and of _objc_addWillInitializeClassFunc.         *)
(***************************************************************************)
EXTENDS Integers, Sequences, FiniteSets, SequencesExt

CONSTANTS
  Threads, Classes, NoClass,
  Superclass,   \* Superclass[c]: a class, or NoClass for a root class
  Inherits,     \* classes whose +initialize is none or the root class's
  Uses,         \* Uses[c]: classes that [c initialize] sends messages to
  Funcs,        \* will-initialize functions
  Forks         \* whether the process may fork

\* A class and its superclasses: what every set that contains the class and, with
\* a class, its superclass has in common.
Closed(S) == \A c \in S : Superclass[c] \in S \cup {NoClass}
Lineage(c) == {d \in Classes : \A S \in SUBSET Classes : c \in S /\ Closed(S) => d \in S}

classHasTrivialInitialize(c) == Superclass[c] = NoClass \/ c \in Inherits

\* The last part is performForkChildInitialize's: "Root class +initialize is assumed
\* to be empty if it exists."
ASSUME InitializeAssumption ==
  /\ NoClass \notin Classes
  /\ Superclass \in [Classes -> Classes \cup {NoClass}]
  /\ \A S \in (SUBSET Classes) \ {{}} : \E c \in S : Superclass[c] \notin S
  /\ Inherits \subseteq Classes
  /\ Uses \in [Classes -> SUBSET Classes]
  /\ Forks \in BOOLEAN
  /\ Forks => \A c \in Classes : classHasTrivialInitialize(c) => Uses[c] = {}

VARIABLES
  initializing, initialized,   \* classes with RW_INITIALIZING, RW_INITIALIZED
  metaclasses,   \* metaclasses[t]: the list of classes thread t is initializing
  pending,       \* classes that wait for their superclass to be initialized
  stack,         \* stack[t]: calls in progress, newest last
  willInitializeFuncs,
  multithreadedForkChild,
  halted,        \* "no", or what a fatal error was about
  sent, told     \* ghosts: how often c was sent +initialize, f was told of c

vars == <<initializing, initialized, metaclasses, pending, stack, willInitializeFuncs,
          multithreadedForkChild, halted, sent, told>>
flags == <<initializing, initialized, pending>>
ghosts == <<sent, told>>
process == <<willInitializeFuncs, multithreadedForkChild>>

\* A call for class cls that goes on at a step; the classes its client code has
\* still to use, the functions it has still to tell, and whether it throws.
Call(c) == [cls |-> c, at |-> "start", todo |-> {}, funcs |-> {}, throws |-> FALSE]

Top(t) == Last(stack[t])
At(t, step) == stack[t] # <<>> /\ Top(t).at = step
Update(t, frame) == [stack EXCEPT ![t] = Append(Front(@), frame)]
Goto(t, step) == stack' = Update(t, [Top(t) EXCEPT !.at = step])
Return(t) == stack' = [stack EXCEPT ![t] = Front(@)]
ClientRuns(t) == stack[t] = <<>> \/ At(t, "client")

----------------------------------------------------------------------------
(* Sending a message, from client code.                                    *)

\* initializeAndMaybeRelock: nothing to do for a class that is initialized.
Send(t, c) ==
  /\ ClientRuns(t) /\ c \notin initialized
  /\ stack[t] # <<>> => c \in Top(t).todo
  /\ LET caller == [Top(t) EXCEPT !.todo = @ \ {c}]
     IN  stack' = [stack EXCEPT ![t] = IF @ = <<>> THEN <<Call(c)>>
                                       ELSE Append(Append(Front(@), caller), Call(c))]
  /\ UNCHANGED <<flags, metaclasses, process, halted, ghosts>>

----------------------------------------------------------------------------
(* initializeNonMetaClass                                                  *)

\* Mutant: the superclass is left to take care of itself.
MutStart(t) ==
  /\ At(t, "start")
  /\ Goto(t, "set")
  /\ UNCHANGED <<flags, metaclasses, process, halted, ghosts>>

\* The superclass first: its flag is read without the lock.
Start(t) ==
  /\ At(t, "start")
  /\ LET supercls == Superclass[Top(t).cls]
         frame == [Top(t) EXCEPT !.at = "set"]
     IN  stack' = [stack EXCEPT ![t] =
                     IF supercls = NoClass \/ supercls \in initialized THEN Append(Front(@), frame)
                     ELSE Append(Append(Front(@), frame), Call(supercls))]
  /\ UNCHANGED <<flags, metaclasses, process, halted, ghosts>>

\* Mutant: only RW_INITIALIZED is tested.
MutSetInitializing(t) ==
  /\ At(t, "set") /\ Top(t).cls \notin initialized
  /\ initializing' = initializing \cup {Top(t).cls}
  /\ stack' = Update(t, [Top(t) EXCEPT !.at = "begin", !.funcs = willInitializeFuncs])
  /\ UNCHANGED <<initialized, pending, metaclasses, process, halted, ghosts>>

\* The atomic test-and-set, and a copy of the functions to tell.
SetInitializing(t) ==
  /\ At(t, "set") /\ Top(t).cls \notin initializing \cup initialized
  /\ initializing' = initializing \cup {Top(t).cls}
  /\ stack' = Update(t, [Top(t) EXCEPT !.at = "begin", !.funcs = willInitializeFuncs])
  /\ UNCHANGED <<initialized, pending, metaclasses, process, halted, ghosts>>

SetFails(t) ==
  /\ At(t, "set") /\ Top(t).cls \in initializing \cup initialized
  /\ Goto(t, "isInitializing")
  /\ UNCHANGED <<flags, metaclasses, process, halted, ghosts>>

ThisThreadIsInitializingClass(t, c) == c \in metaclasses[t]

\* _setThisThreadIsInitializingClass: fatal when the class is on the list.
Claim(t) ==
  /\ metaclasses' = [metaclasses EXCEPT ![t] = @ \cup {Top(t).cls}]
  /\ halted' = IF ThisThreadIsInitializingClass(t, Top(t).cls) THEN "already initializing" ELSE "no"

\* This thread initializes the class; in a fork child the functions are not told.
Begin(t) ==
  /\ At(t, "begin")
  /\ Claim(t)
  /\ Goto(t, IF multithreadedForkChild THEN "fork" ELSE "tell")
  /\ UNCHANGED <<flags, process, ghosts>>

Tell(t, f) ==
  /\ At(t, "tell") /\ f \in Top(t).funcs
  /\ told' = [told EXCEPT ![f][Top(t).cls] = @ + 1]
  /\ stack' = Update(t, [Top(t) EXCEPT !.funcs = @ \ {f}])
  /\ UNCHANGED <<flags, metaclasses, process, halted, sent>>

CallInitialize(t) ==
  /\ At(t, "tell") /\ Top(t).funcs = {}
  /\ sent' = [sent EXCEPT ![Top(t).cls] = @ + 1]
  /\ stack' = Update(t, [Top(t) EXCEPT !.at = "client", !.todo = Uses[Top(t).cls]])
  /\ UNCHANGED <<flags, metaclasses, process, halted, told>>

\* A +initialize that throws is deemed to be complete.
InitializeReturns(t, throws) ==
  /\ At(t, "client")
  /\ stack' = Update(t, [Top(t) EXCEPT !.at = "finish", !.todo = {}, !.throws = throws])
  /\ UNCHANGED <<flags, metaclasses, process, halted, ghosts>>

\* performForkChildInitialize: a +initialize of its own may not be skipped.
ForkChildInitialize(t) ==
  /\ At(t, "fork")
  /\ IF classHasTrivialInitialize(Top(t).cls) THEN Goto(t, "finish") /\ UNCHANGED halted
     ELSE halted' = "after fork" /\ UNCHANGED stack
  /\ UNCHANGED <<flags, metaclasses, process, ghosts>>

----------------------------------------------------------------------------
(* lockAndFinishInitializing                                               *)

\* cls and the classes that were merely waiting for it, or for one of those.
Released(c) ==
  {c} \cup {d \in pending : c \in Lineage(d) /\ Lineage(d) \ Lineage(c) \subseteq pending}

\* objc_class::setInitialized changes both bits at once.
SetInitialized(done) ==
  /\ initialized' = initialized \cup done
  /\ initializing' = initializing \ done

\* _setThisThreadIsNotInitializingClass: fatal for a class that is not on the list.
Disclaim(t, done) ==
  /\ metaclasses' = [metaclasses EXCEPT ![t] = @ \ done]
  /\ halted' = IF done \subseteq metaclasses[t] THEN "no" ELSE "not initializing"

\* Mutant: nobody is notified.
MutWake(s) == s

\* notifyAll of the monitor.
Wake(s) == [i \in DOMAIN s |-> IF s[i].at = "blocked" THEN [s[i] EXCEPT !.at = "wait"] ELSE s[i]]

\* An exception leaves the calls that waited for a superclass.
Leave(t) ==
  IF ~Top(t).throws THEN Front(stack[t])
  ELSE SubSeq(stack[t], 1, Max({0} \cup {i \in 1..Len(stack[t]) - 1 : stack[t][i].at = "client"}))

FinishInitializing(t) ==
  LET done == Released(Top(t).cls)
  IN  /\ SetInitialized(done)
      /\ Disclaim(t, done)
      /\ pending' = pending \ done
      /\ stack' = [u \in Threads |-> Wake(IF u = t THEN Leave(t) ELSE stack[u])]

FinishInitializingAfter(t) ==
  /\ pending' = pending \cup {Top(t).cls}
  /\ stack' = [stack EXCEPT ![t] = Leave(t)]
  /\ UNCHANGED <<initializing, initialized, metaclasses, halted>>

\* The class stays initializing while its superclass is.
LockAndFinishInitializing(t) ==
  /\ At(t, "finish")
  /\ LET supercls == Superclass[Top(t).cls]
     IN  IF supercls = NoClass \/ supercls \in initialized THEN FinishInitializing(t)
         ELSE FinishInitializingAfter(t)
  /\ UNCHANGED <<process, ghosts>>

----------------------------------------------------------------------------
(* When RW_INITIALIZING was not ours to set: flags read without the lock.  *)

\* Mutant: RW_INITIALIZED is looked at first.
MutIsInitializing(t) ==
  /\ At(t, "isInitializing")
  /\ IF Top(t).cls \in initialized THEN Return(t)
     ELSE Goto(t, "isInitialized")
  /\ UNCHANGED <<flags, metaclasses, process, halted, ghosts>>

IsInitializing(t) ==
  /\ At(t, "isInitializing")
  /\ IF Top(t).cls \notin initializing THEN Goto(t, "isInitialized")
     ELSE IF ThisThreadIsInitializingClass(t, Top(t).cls) THEN Return(t)
     ELSE Goto(t, IF multithreadedForkChild THEN "takeOver" ELSE "wait")
  /\ UNCHANGED <<flags, metaclasses, process, halted, ghosts>>

IsInitialized(t) ==
  /\ At(t, "isInitialized")
  /\ IF Top(t).cls \in initialized THEN Return(t) /\ UNCHANGED halted
     ELSE halted' = "buggy" /\ UNCHANGED stack
  /\ UNCHANGED <<flags, metaclasses, process, ghosts>>

\* A fork child goes on with a class that a lost thread was initializing.
TakeOver(t) ==
  /\ At(t, "takeOver")
  /\ Claim(t)
  /\ Goto(t, "fork")
  /\ UNCHANGED <<flags, process, ghosts>>

\* Mutant: a thread that is woken does not look again.
MutWait(t) ==
  /\ At(t, "wait")
  /\ Return(t)
  /\ UNCHANGED <<flags, metaclasses, process, halted, ghosts>>

\* waitForInitializeToComplete: the loop around the wait on the monitor.
Wait(t) ==
  /\ At(t, "wait")
  /\ IF Top(t).cls \in initialized THEN Return(t) ELSE Goto(t, "blocked")
  /\ UNCHANGED <<flags, metaclasses, process, halted, ghosts>>

----------------------------------------------------------------------------
(* _objc_addWillInitializeClassFunc                                        *)

AddWillInitializeFunc(t, f) ==
  /\ stack[t] = <<>> /\ f \notin willInitializeFuncs
  /\ willInitializeFuncs' = willInitializeFuncs \cup {f}
  /\ stack' = [stack EXCEPT ![t] = <<[Call(NoClass) EXCEPT !.at = "add", !.funcs = {f},
                                                           !.todo = initializing \cup initialized]>>]
  /\ UNCHANGED <<flags, metaclasses, multithreadedForkChild, halted, ghosts>>

\* The new function is told of the classes found, without the lock.
TellOf(t, c) ==
  /\ At(t, "add") /\ c \in Top(t).todo
  /\ told' = [f \in Funcs |-> IF f \in Top(t).funcs THEN [told[f] EXCEPT ![c] = @ + 1] ELSE told[f]]
  /\ stack' = Update(t, [Top(t) EXCEPT !.todo = @ \ {c}])
  /\ UNCHANGED <<flags, metaclasses, process, halted, sent>>

AddReturns(t) ==
  /\ At(t, "add") /\ Top(t).todo = {}
  /\ Return(t)
  /\ UNCHANGED <<flags, metaclasses, process, halted, ghosts>>

----------------------------------------------------------------------------
(* fork, seen from the child: t survives, new threads may be started.      *)

Fork(t) ==
  /\ Forks /\ ~multithreadedForkChild /\ ClientRuns(t)
  /\ multithreadedForkChild' = TRUE
  /\ stack' = [u \in Threads |-> IF u = t THEN stack[t] ELSE <<>>]
  /\ metaclasses' = [u \in Threads |-> IF u = t THEN metaclasses[t] ELSE {}]
  /\ UNCHANGED <<flags, willInitializeFuncs, halted, ghosts>>

----------------------------------------------------------------------------

Init ==
  /\ initializing = {} /\ initialized = {} /\ pending = {}
  /\ metaclasses = [t \in Threads |-> {}] /\ stack = [t \in Threads |-> <<>>]
  /\ willInitializeFuncs = {} /\ multithreadedForkChild = FALSE /\ halted = "no"
  /\ sent = [c \in Classes |-> 0] /\ told = [f \in Funcs |-> [c \in Classes |-> 0]]

Step(t) ==
  \/ Start(t) \/ SetInitializing(t) \/ SetFails(t) \/ Begin(t)
  \/ \E f \in Funcs : Tell(t, f)
  \/ CallInitialize(t)
  \/ \E throws \in BOOLEAN : InitializeReturns(t, throws)
  \/ ForkChildInitialize(t) \/ LockAndFinishInitializing(t)
  \/ IsInitializing(t) \/ IsInitialized(t) \/ TakeOver(t) \/ Wait(t)
  \/ \E c \in Classes : TellOf(t, c)
  \/ AddReturns(t)

Client(t) ==
  \/ \E c \in Classes : Send(t, c)
  \/ \E f \in Funcs : AddWillInitializeFunc(t, f)
  \/ Fork(t)

Next == halted = "no" /\ \E t \in Threads : Step(t) \/ Client(t)

Spec == Init /\ [][Next]_vars

\* Threads run, and +initialize methods return.
Fairness == \A t \in Threads : WF_vars(halted = "no" /\ Step(t))

FairSpec == Spec /\ Fairness

----------------------------------------------------------------------------
(* Properties.                                                             *)

Steps == {"start", "set", "begin", "tell", "client", "finish", "fork", "isInitializing", "isInitialized",
          "takeOver", "wait", "blocked", "add"}

\* Every variable has its type, and "CLS_INITIALIZING and CLS_INITIALIZED are
\* never set at the same time".
TypeOK ==
  /\ initializing \subseteq Classes /\ initialized \subseteq Classes /\ pending \subseteq Classes
  /\ initializing \cap initialized = {}
  /\ metaclasses \in [Threads -> SUBSET Classes]
  /\ \A t \in Threads : \A i \in DOMAIN stack[t] : stack[t][i].at \in Steps
  /\ willInitializeFuncs \subseteq Funcs /\ multithreadedForkChild \in BOOLEAN
  /\ halted \in {"no", "already initializing", "not initializing", "buggy", "after fork"}

\* "the initializing+initialized part of the class hierarchy will be a
\* contiguous subtree starting at the root", and where a class and its
\* superclass are both being initialized one thread does both.
ContiguousSubtree ==
  \A c \in initializing \cup initialized :
    LET s == Superclass[c]
    IN  s # NoClass =>
          /\ s \in initializing \cup initialized
          /\ c \in initialized => s \in initialized
          /\ s \in initializing => \A t \in Threads : c \in metaclasses[t] => s \in metaclasses[t]

\* A class waits only for a superclass that is being initialized, a thread that has
\* nothing in progress claims no class, and "thread-safe class init in objc runtime is
\* buggy!", "thread is already initializing this class!" and "thread is not
\* initializing this class!" are not reached, not even in the child of a fork.
ClaimsAreKept ==
  /\ \A c \in pending : c \in initializing /\ Superclass[c] \in initializing
  /\ \A t \in Threads : stack[t] = <<>> => metaclasses[t] = {}
  /\ halted \in {"no", "after fork"}

\* A message is delivered once +initialize has finished, or on the thread that
\* runs it: a call that returns leaves the class usable for its caller.
Usable(t, c) == c \in initialized' \/ c \in metaclasses'[t]
MessagesWait ==
  [][\A t \in Threads :
       (multithreadedForkChild' = multithreadedForkChild /\ stack[t] # <<>> /\ stack'[t] = Front(stack[t]) /\ Top(t).cls # NoClass)
         => Usable(t, Top(t).cls)]_vars

\* The calls that still have to tell the function of the class.
Owed(f, c) == {t \in Threads : \E i \in DOMAIN stack[t] :
                 LET frame == stack[t][i]
                 IN  f \in frame.funcs /\ (frame.cls = c \/ c \in frame.todo)}
ToldOnce ==
  ~multithreadedForkChild =>
    \A f \in Funcs, c \in Classes :
      told[f][c] + Cardinality(Owed(f, c)) =
        IF f \in willInitializeFuncs /\ c \in initializing \cup initialized THEN 1 ELSE 0

\* "Only one thread is allowed to actually initialize a class and send
\* +initialize": a class that is initialized has been sent it once, by the one
\* thread that claimed it; and a will-initialize function is told once of every
\* class whose initialization has begun: already, by the call that initializes
\* the class, or by the call that added the function.
InitializeOnce ==
  /\ \A c \in Classes : sent[c] <= 1
  /\ ~multithreadedForkChild =>
       /\ \A c \in initialized : sent[c] = 1
       /\ \A t, u \in Threads : t # u => metaclasses[t] \cap metaclasses[u] = {}
  /\ ToldOnce

\* Every message to a class is delivered in the end, unless the process halts.
SendReturns ==
  \A t \in Threads : stack[t] # <<>> ~> (stack[t] = <<>> \/ halted # "no")
=============================================================================
