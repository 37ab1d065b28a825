---------------------------- MODULE MethodLookup ----------------------------
(***************************************************************************)
(* From a message to an implementation (objc-runtime-new.mm): the lookup   *)
(* through method lists and superclass caches, dynamic resolution, and     *)
(* everything that changes what the lookup must answer: categories, added, *)
(* replaced and exchanged methods, a new superclass.                       *)
(*                                                                         *)
(* A step is one critical section of runtimeLock, or what a thread does    *)
(* between two of them.  Reading one's own cache without the lock is one   *)
(* step here; MethodCache takes it apart.                                  *)
(***************************************************************************)
EXTENDS Integers, Sequences, FiniteSets, SequencesExt

CONSTANTS
  Threads,
  Sels, Imps,
  Metaclasses,
  Resolvers,      \* the classes with a resolver, each with the question that it answers
  NonMeta,        \* metaclasses to the classes they describe
  Programs,       \* records [superclass, base, categories, messages, changes]
  ATTACH_BUFSIZ,
  MaxLists,       \* bound: method lists of a class
  NoClass, NoImp, forward_imp

ASSUME MethodLookupAssumption ==
  /\ IsFiniteSet(Threads) /\ {NoImp, forward_imp} \cap Imps = {} /\ NoImp # forward_imp
  /\ ATTACH_BUFSIZ \in Nat \ {0} /\ MaxLists \in Nat
  /\ \A m1, m2 \in Metaclasses : NonMeta[m1] = NonMeta[m2] => m1 = m2

Implementations == UNION {[ss -> Imps] : ss \in SUBSET Sels}

\* Going from class to superclass comes to an end.
Rooted(up) == \A S \in (SUBSET DOMAIN up) \ {{}} : \E c \in S : up[c] \notin S

\* A program has the metaclasses of all its classes or leaves them all out.
ASSUME ProgramsAssumption ==
  \A prog \in Programs :
    LET classes == DOMAIN prog.superclass
    IN /\ NoClass \notin classes
       /\ prog.superclass \in [classes -> classes \cup {NoClass}] /\ Rooted(prog.superclass)
       /\ prog.base \in [classes -> Implementations]
       /\ prog.categories \in Seq([cls : classes, imps : Implementations])
       /\ prog.messages \subseteq classes \X Sels
       /\ prog.changes \in Nat
       /\ LET metas == classes \cap Metaclasses
          IN metas = {} \/ {NonMeta[m] : m \in metas} = classes \ Metaclasses

VARIABLES
  program,
  superclass,
  methods,        \* the lists of each realized class, as they are searched
  unattached,     \* the categories loaded before their class was realized
  realized, initialized,
  cache,          \* what each class has cached for each selector
  loaded,         \* categories loaded so far
  changes,        \* calls so far that changed methods; program.changes bounds them
  call,           \* the lookup of each thread
  asked           \* ghost: the questions some resolver has answered

lists == <<methods, unattached, realized, loaded>>
vars == <<program, superclass, lists, initialized, cache, changes, call, asked>>

Classes == DOMAIN superclass
Idle == [pc |-> "idle", cls |-> NoClass, sel |-> NoImp, initialize |-> FALSE,
         resolver |-> FALSE, nocache |-> FALSE, kept |-> FALSE, then |-> "answer"]
NothingCached == [s \in Sels |-> NoImp]

Init ==
  /\ program \in Programs
  /\ superclass = program.superclass
  /\ methods = [c \in Classes |-> <<>>]
  /\ unattached = [c \in Classes |-> <<>>]
  /\ realized = {} /\ initialized = {}
  /\ cache = [c \in Classes |-> NothingCached]
  /\ loaded = 0 /\ changes = 0
  /\ call = [t \in Threads |-> Idle]
  /\ asked = {}

(***************************************************************************)
(* Classes.  The initialized bit is the metaclass's, for both.             *)
(***************************************************************************)
Closed(S) == \A c \in S : superclass[c] # NoClass => superclass[c] \in S

\* The class and the classes above it: the least closed set with the class.
Lineage(c) == {d \in Classes : \A S \in SUBSET (Classes \ {d}) : c \in S => ~Closed(S)}

\* The first of some classes that a walk up from a subclass of theirs meets.
Nearest(S) == CHOOSE c \in S : S \subseteq Lineage(c)

Subtree(c) == {d \in realized : c \in Lineage(d)}
nonmeta(c) == IF c \in Metaclasses THEN NonMeta[c] ELSE c
isInitialized(c) == nonmeta(c) \in initialized

\* The metaclass of a class, where the program has it.
ISA(c) ==
  LET metas == {m \in Classes \cap Metaclasses : NonMeta[m] = c}
  IN IF metas = {} THEN NoClass ELSE CHOOSE m \in metas : TRUE
WithMetas(S) == \A m \in Classes \cap Metaclasses : NonMeta[m] \in S => m \in S

(***************************************************************************)
(* Method lists.                                                           *)
(***************************************************************************)
\* The list that has the method, searched from the front; 0 for none.
getMethodNoSuper_nolock(c, s) == SelectInSeq(methods[c], LAMBDA l : s \in DOMAIN l.imps)
Imp(c, s) == methods[c][getMethodNoSuper_nolock(c, s)].imps[s]
Has(c, s) == getMethodNoSuper_nolock(c, s) > 0

\* What the method lists alone answer.
getMethod_nolock(cls, s) ==
  LET holders == {c \in Lineage(cls) : Has(c, s)}
  IN IF holders = {} THEN forward_imp ELSE Imp(Nearest(holders), s)

\* What lookUpImpOrForward finds: the walk ends at a class with the method, at the
\* root, or below a class that has the selector in its cache.
Search(cls, s) ==
  LET ends == {c \in Lineage(cls) : Has(c, s) \/ superclass[c] = NoClass \/ cache[superclass[c]][s] # NoImp}
      last == Nearest(ends)
  IN IF Has(last, s) THEN Imp(last, s)
     ELSE IF superclass[last] = NoClass THEN forward_imp ELSE cache[superclass[last]][s]

\* Mutant: the buffer of method lists is filled from the front.
Mutplace(i) == (i - 1) % ATTACH_BUFSIZ

\* The buffer that the i-th category goes into, and its place there, from the back.
round(i) == (i - 1) \div ATTACH_BUFSIZ
place(i) == ATTACH_BUFSIZ - 1 - ((i - 1) % ATTACH_BUFSIZ)

\* Each buffer goes before the lists there are, the earlier buffers among them.
before(i, j) == round(i) > round(j) \/ (round(i) = round(j) /\ place(i) < place(j))

\* Oldest category first.
attachCategories(old, cats) ==
  LET n == Len(cats)
      at(i) == Cardinality({j \in 1..n : before(j, i)}) + 1
  IN [k \in 1..n |-> cats[CHOOSE i \in 1..n : at(i) = k]] \o old

\* Mutant: the flush stops at the class itself.
Mutflush(c) == [d \in Classes |-> IF d = c THEN NothingCached ELSE cache[d]]

\* flushCaches with a predicate that is true of every class.
flush(c) == [d \in Classes |-> IF d \in Subtree(c) THEN NothingCached ELSE cache[d]]

\* flushCaches where some cache still has the old implementation of a method.
flushOld(top, olds) ==
  [d \in Classes |-> IF d \in top /\ \E o \in olds : cache[d][o.sel] = o.imp
                     THEN NothingCached ELSE cache[d]]

(***************************************************************************)
(* Realization and categories.                                             *)
(***************************************************************************)
BaseList(c) == [from |-> 0, imps |-> program.base[c]]
Own(c) == IF DOMAIN program.base[c] = {} THEN <<>> ELSE <<BaseList(c)>>

\* Superclasses and metaclasses are realized with a class, and with each of them theirs.
RealizedWith(c) ==
  {d \in Classes : \A S \in SUBSET Classes :
     c \in S /\ Closed(S) /\ WithMetas(S) => d \in S}

\* Each gets the categories that waited for it.
realizeClassWithoutSwift(c) ==
  LET new == RealizedWith(c) \ realized
  IN /\ realized' = realized \cup new
     /\ methods' = [d \in Classes |-> IF d \in new THEN attachCategories(Own(d), unattached[d]) ELSE methods[d]]
     /\ unattached' = [d \in Classes |-> IF d \in new THEN <<>> ELSE unattached[d]]

load_categories_nolock ==
  LET cat == program.categories[loaded + 1]
      l == [from |-> loaded + 1, imps |-> cat.imps]
  IN /\ loaded < Len(program.categories)
     /\ loaded' = loaded + 1
     /\ IF cat.cls \in realized
        THEN /\ methods' = [methods EXCEPT ![cat.cls] = attachCategories(@, <<l>>)]
             /\ cache' = flush(cat.cls)
             /\ UNCHANGED unattached
        ELSE /\ unattached' = [unattached EXCEPT ![cat.cls] = Append(@, l)]
             /\ UNCHANGED <<methods, cache>>
     /\ UNCHANGED <<program, superclass, realized, initialized, changes, call, asked>>

(***************************************************************************)
(* Changing methods.                                                       *)
(***************************************************************************)
\* addMethod and addMethods: the methods the class has are replaced one by one, or
\* stay; the others come in a list of their own.
addMethods(c, new, replace) ==
  LET there == {s \in DOMAIN new : getMethodNoSuper_nolock(c, s) > 0}
      missing == DOMAIN new \ there
      set == [k \in DOMAIN methods[c] |-> [methods[c][k] EXCEPT !.imps =
               [s \in DOMAIN @ |-> IF replace /\ s \in there /\ k = getMethodNoSuper_nolock(c, s)
                                   THEN new[s] ELSE @[s]]]]
      olds == IF replace THEN {[sel |-> s, imp |-> Imp(c, s)] : s \in there} ELSE {}
      list == [from |-> -1, imps |-> [s \in missing |-> new[s]]]
  IN /\ methods' = [methods EXCEPT ![c] = IF missing = {} THEN set ELSE <<list>> \o set]
     /\ cache' = IF missing = {} THEN flushOld(Subtree(c), olds) ELSE flush(c)

Change == changes < program.changes /\ changes' = changes + 1
Quiet == UNCHANGED <<program, superclass, unattached, realized, initialized, loaded, call, asked>>

\* class_addMethod, class_replaceMethod and their bulk forms.
class_addMethods(c, new, replace) ==
  /\ Change /\ c \in realized /\ Len(methods[c]) < MaxLists
  /\ addMethods(c, new, replace)
  /\ Quiet

\* A Method is a place in some list, found by a search or not.
Methods == {m \in realized \X (1..MaxLists) \X Sels :
              m[2] \in DOMAIN methods[m[1]] /\ m[3] \in DOMAIN methods[m[1]][m[2]].imps}
imp(m) == methods[m[1]][m[2]].imps[m[3]]
Old(m) == [sel |-> m[3], imp |-> imp(m)]

method_setImplementation(m, new) ==
  /\ Change
  /\ methods' = [methods EXCEPT ![m[1]][m[2]].imps[m[3]] = new]
  /\ cache' = flushOld(realized, {Old(m)})
  /\ Quiet

method_exchangeImplementations(m1, m2) ==
  /\ Change
  /\ methods' = [methods EXCEPT ![m1[1]][m1[2]].imps[m1[3]] = imp(m2), ![m2[1]][m2[2]].imps[m2[3]] = imp(m1)]
  /\ cache' = flushOld(realized, {Old(m1), Old(m2)})
  /\ Quiet

\* Their metaclasses move with the classes.  The caller makes no cycle.
class_setSuperclass(c, new) ==
  /\ Change
  /\ {c, new} \subseteq realized \ Metaclasses /\ superclass[c] # NoClass
  /\ \A d \in {new, ISA(new)} \ {NoClass} : {c, ISA(c)} \cap Lineage(d) = {}
  /\ superclass' = [d \in Classes |-> IF d = c THEN new ELSE IF d = ISA(c) THEN ISA(new) ELSE superclass[d]]
  /\ cache' = [d \in Classes |-> IF d \in Subtree(ISA(c)) THEN NothingCached ELSE flush(c)[d]]
  /\ UNCHANGED <<program, lists, initialized, call, asked>>

_objc_flush_caches ==
  /\ Change
  /\ cache' = [c \in Classes |-> NothingCached]
  /\ UNCHANGED methods /\ Quiet

(***************************************************************************)
(* Lookup.                                                                 *)
(***************************************************************************)
Goes(t, me) == call' = [call EXCEPT ![t] = me]

\* What a call asks: resolveClassMethod: of a metaclass before resolveInstanceMethod:.
FirstQuestion(c) == <<IF c \in Metaclasses THEN "class" ELSE "instance", c>>
Question(me) == <<IF me.then = "asked class" THEN "class" ELSE "instance", me.cls>>

\* The rest of the call once a lookup has its answer.
After(me, found) ==
  IF me.then = "answer" THEN Idle
  ELSE IF me.then = "asked class" THEN [me EXCEPT !.pc = "try", !.then = "still missing"]
  ELSE IF me.then = "still missing" /\ found = forward_imp /\ <<"instance", me.cls>> \in Resolvers
  THEN [me EXCEPT !.pc = "resolver", !.then = "asked"]
  ELSE [me EXCEPT !.pc = "try", !.then = "answer"]

\* lookUpImpOrForward reads the initialized bit before it takes the lock.
lookUp(me) ==
  [me EXCEPT !.pc = "lookup", !.nocache = ~isInitialized(me.cls) \/ (me.then = "answer" /\ me.kept)]

\* lookUpImpOrForwardTryCache and lookUpImpOrNilTryCache.
Starts(me) ==
  LET found == cache[me.cls][me.sel]
  IN IF isInitialized(me.cls) /\ found # NoImp THEN After(me, found) ELSE lookUp(me)

\* The messenger takes what is cached without asking whether the class is initialized.
objc_msgSend(t, c, s) ==
  LET me == [Idle EXCEPT !.cls = c, !.sel = s, !.initialize = TRUE, !.resolver = TRUE]
  IN /\ call[t] = Idle
     /\ Goes(t, IF cache[c][s] # NoImp THEN Idle ELSE lookUp(me))
     /\ UNCHANGED <<program, superclass, lists, initialized, cache, changes, asked>>

\* Neither initializes the class nor looks into its cache.
class_getInstanceMethod(t, c, s) ==
  /\ call[t] = Idle
  /\ Goes(t, lookUp([Idle EXCEPT !.cls = c, !.sel = s, !.resolver = TRUE]))
  /\ UNCHANGED <<program, superclass, lists, initialized, cache, changes, asked>>

_lookUpImpTryCache(t) ==
  /\ call[t].pc = "try"
  /\ Goes(t, Starts(call[t]))
  /\ UNCHANGED <<program, superclass, lists, initialized, cache, changes, asked>>

\* realizeAndInitializeIfNeeded_locked may drop the lock to realize the class, and a
\* class before the +initialize that a message to its metaclass has to wait for.
Realize(t) ==
  LET me == call[t]
      c == IF me.cls \in realized THEN nonmeta(me.cls) ELSE me.cls
  IN /\ me.pc = "lookup" /\ c \notin realized
     /\ me.cls \in realized => me.initialize /\ ~isInitialized(me.cls)
     /\ realizeClassWithoutSwift(c)
     /\ UNCHANGED <<program, superclass, initialized, cache, loaded, changes, call, asked>>

\* initializeAndLeaveLocked drops the lock; superclasses come first.
Initialize(t) ==
  LET me == call[t]
  IN /\ me.pc = "lookup" /\ me.initialize /\ {me.cls, nonmeta(me.cls)} \subseteq realized /\ ~isInitialized(me.cls)
     /\ initialized' = initialized \cup Lineage(nonmeta(me.cls))
     /\ UNCHANGED <<program, superclass, lists, cache, changes, call, asked>>

\* cache_t::insert: not before +initialize is done, not over an entry that is there;
\* growing forgets the other entries.
insert(me, found) ==
  IF me.nocache \/ ~isInitialized(me.cls) THEN {cache}
  ELSE {[cache EXCEPT ![me.cls] = [old EXCEPT ![me.sel] = IF @ = NoImp THEN found ELSE @]] :
        old \in {cache[me.cls], NothingCached}}

\* Mutant: a forward entry of a superclass ends the lookup.
MutAsks(me, found) == found = forward_imp /\ me.resolver /\ \A c \in Lineage(me.cls) : cache[c][me.sel] # forward_imp

Asks(me, found) == found = forward_imp /\ me.resolver

\* resolveMethod_locked: the resolver is asked with the lock dropped, once per call.
resolveMethod_locked(me) ==
  LET once == [me EXCEPT !.resolver = FALSE, !.kept = me.nocache]
  IN IF FirstQuestion(me.cls) \in Resolvers
     THEN [once EXCEPT !.pc = "resolver", !.then = IF me.cls \in Metaclasses THEN "asked class" ELSE "asked"]
     ELSE [once EXCEPT !.pc = "try", !.then = IF me.cls \in Metaclasses THEN "still missing" ELSE "answer"]

lookUpImpOrForward(t) ==
  LET me == call[t]
      found == Search(me.cls, me.sel)
  IN /\ me.pc = "lookup" /\ me.cls \in realized
     /\ me.initialize => isInitialized(me.cls)
     /\ IF Asks(me, found)
        THEN Goes(t, resolveMethod_locked(me)) /\ UNCHANGED cache
        ELSE Goes(t, After(me, found)) /\ cache' \in insert(me, found)
     /\ UNCHANGED <<program, superclass, lists, initialized, changes, asked>>

\* The resolver adds the method or does not; then resolveInstanceMethod and
\* resolveClassMethod look it up to cache the result, good or bad.
ResolverReturns(t) ==
  LET me == call[t]
  IN /\ me.pc = "resolver"
     /\ asked' = asked \cup {<<Question(me), me.sel>>}
     /\ Goes(t, [me EXCEPT !.pc = "try"])
     /\ \/ UNCHANGED <<methods, cache>>
        \/ \E i \in Imps : Len(methods[me.cls]) < MaxLists /\ addMethods(me.cls, [s \in {me.sel} |-> i], FALSE)
     /\ UNCHANGED <<program, superclass, unattached, realized, initialized, loaded, changes>>

Step(t) == _lookUpImpTryCache(t) \/ Realize(t) \/ Initialize(t) \/ lookUpImpOrForward(t) \/ ResolverReturns(t)

Sent == program.messages
NewMethods == UNION {[ss -> Imps] : ss \in (SUBSET {m[2] : m \in Sent}) \ {{}}}

Next ==
  \/ \E t \in Threads, m \in Sent : objc_msgSend(t, m[1], m[2]) \/ class_getInstanceMethod(t, m[1], m[2])
  \/ \E t \in Threads : Step(t)
  \/ load_categories_nolock
  \/ \E c \in realized, new \in NewMethods, replace \in BOOLEAN : class_addMethods(c, new, replace)
  \/ \E m \in Methods, i \in Imps : method_setImplementation(m, i)
  \/ \E m1, m2 \in Methods : method_exchangeImplementations(m1, m2)
  \/ \E c, new \in realized : class_setSuperclass(c, new)
  \/ _objc_flush_caches

Spec == Init /\ [][Next]_vars

(***************************************************************************)
(* Properties.                                                             *)
(***************************************************************************)
\* Whatever a class has cached, "not implemented" too, is what its method lists and
\* those of its superclasses answer now, through every partial flush of flushCaches,
\* and only classes whose +initialize is done have caches.
CachesAgree ==
  \A c \in Classes, s \in Sels :
    cache[c][s] # NoImp => isInitialized(c) /\ cache[c][s] = getMethod_nolock(c, s)

\* Every category is searched before those that were loaded earlier and before the
\* class's own methods, whether it came before or after its class was realized, and
\* none is lost or attached twice.
Loaded(c) == {f \in 1..loaded : program.categories[f].cls = c}
LaterCategoriesWin ==
  \A c \in Classes :
    LET from(k) == methods[c][k].from
        waits(k) == unattached[c][k].from
    IN IF c \in realized
       THEN /\ Loaded(c) = {from(k) : k \in {k \in DOMAIN methods[c] : from(k) > 0}}
            /\ \A k, l \in DOMAIN methods[c] : k < l /\ from(l) > 0 => from(k) > from(l) \/ from(k) < 0
            /\ unattached[c] = <<>>
       ELSE /\ Loaded(c) = {waits(k) : k \in DOMAIN unattached[c]}
            /\ \A k, l \in DOMAIN unattached[c] : k < l => waits(k) < waits(l)
            /\ methods[c] = <<>>

\* No message is forwarded, from the cache or after a search, before the resolver of
\* the receiver's own class was asked, resolveClassMethod: for a class method: resolving
\* a superclass, or the other kind of method, does not count.
ResolverComesFirst ==
  /\ \A c \in Classes, s \in Sels :
       cache[c][s] = forward_imp /\ FirstQuestion(c) \in Resolvers => <<FirstQuestion(c), s>> \in asked
  /\ \A t \in Threads : LET me == call[t] IN
       me.pc = "lookup" /\ ~me.resolver /\ FirstQuestion(me.cls) \in Resolvers
         => <<FirstQuestion(me.cls), me.sel>> \in asked
=============================================================================
