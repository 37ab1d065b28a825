---------------------------- MODULE LookupProofs ----------------------------
(***************************************************************************)
(* Proofs about MethodLookup for every number of threads, every program of *)
(* classes, selectors and categories, and every size of the buffer that    *)
(* attachCategories uses.                                                  *)
(***************************************************************************)
EXTENDS MethodLookup, FiniteSetTheorems, WellFoundedInduction, SequenceTheorems, TLAPS

----------------------------------------------------------------------------
(* Chains of superclasses, now or after a step: up is superclass.          *)

IsClosed(up, S) == \A c \in S : up[c] # NoClass => up[c] \in S
Up(up, c) == {d \in DOMAIN up : \A S \in SUBSET (DOMAIN up \ {d}) : c \in S => ~IsClosed(up, S)}
Hierarchy(up) ==
  up \in [DOMAIN up -> DOMAIN up \cup {NoClass}] /\ NoClass \notin DOMAIN up /\ Rooted(up)

LEMMA UpIsLeast ==
  ASSUME NEW up, NEW c, NEW S \in SUBSET DOMAIN up, c \in S, IsClosed(up, S)
  PROVE  Up(up, c) \subseteq S
BY DEF Up

LEMMA UpIsClosed ==
  ASSUME NEW up, Hierarchy(up), NEW c \in DOMAIN up
  PROVE  c \in Up(up, c) /\ Up(up, c) \subseteq DOMAIN up /\ IsClosed(up, Up(up, c))
<1>1. c \in Up(up, c) /\ Up(up, c) \subseteq DOMAIN up
  BY DEF Up
<1>2. ASSUME NEW d \in Up(up, c), up[d] # NoClass PROVE up[d] \in Up(up, c)
  <2>1. d \in DOMAIN up /\ up[d] \in DOMAIN up
    BY <1>1, <1>2 DEF Hierarchy
  <2>2. ASSUME NEW S \in SUBSET (DOMAIN up \ {up[d]}), c \in S, IsClosed(up, S) PROVE FALSE
    <3>1. d \notin S
      BY <1>2, <2>2 DEF IsClosed
    <3>2. S \in SUBSET (DOMAIN up \ {d})
      BY <2>2, <3>1
    <3> QED
      BY <1>2, <2>2, <3>2 DEF Up
  <2> QED
    BY <2>1, <2>2 DEF Up
<1> QED
  BY <1>1, <1>2 DEF IsClosed

LEMMA UpIsTransitive ==
  ASSUME NEW up, Hierarchy(up), NEW c \in DOMAIN up, NEW d \in Up(up, c)
  PROVE  Up(up, d) \subseteq Up(up, c)
<1>1. Up(up, c) \in SUBSET DOMAIN up /\ IsClosed(up, Up(up, c))
  BY UpIsClosed
<1> QED
  BY <1>1, UpIsLeast

LEMMA UpUnfolds ==
  ASSUME NEW up, Hierarchy(up), NEW c \in DOMAIN up
  PROVE  /\ up[c] = NoClass => Up(up, c) = {c}
         /\ up[c] # NoClass => up[c] \in DOMAIN up /\ Up(up, c) = {c} \cup Up(up, up[c])
<1>1. c \in Up(up, c) /\ Up(up, c) \subseteq DOMAIN up /\ IsClosed(up, Up(up, c))
  BY UpIsClosed
<1>2. ASSUME up[c] = NoClass PROVE Up(up, c) = {c}
  <2>1. {c} \in SUBSET DOMAIN up /\ c \in {c} /\ IsClosed(up, {c})
    BY <1>2 DEF IsClosed
  <2>2. Up(up, c) \subseteq {c}
    BY <2>1, UpIsLeast
  <2> QED
    BY <1>1, <2>2
<1>3. ASSUME up[c] # NoClass PROVE up[c] \in DOMAIN up /\ Up(up, c) = {c} \cup Up(up, up[c])
  <2> DEFINE T == {c} \cup Up(up, up[c])
  <2>1. up[c] \in DOMAIN up
    BY <1>3 DEF Hierarchy
  <2>2. up[c] \in Up(up, up[c]) /\ Up(up, up[c]) \subseteq DOMAIN up /\ IsClosed(up, Up(up, up[c]))
    BY <2>1, UpIsClosed
  <2>3. T \in SUBSET DOMAIN up /\ c \in T /\ IsClosed(up, T)
    BY <2>2 DEF IsClosed
  <2>4. Up(up, c) \subseteq T
    BY <2>3, UpIsLeast
  <2>5. up[c] \in Up(up, c)
    BY <1>1, <1>3 DEF IsClosed
  <2>6. Up(up, up[c]) \subseteq Up(up, c)
    BY <2>5, UpIsTransitive
  <2> QED
    BY <1>1, <2>1, <2>4, <2>6
<1> QED
  BY <1>2, <1>3

LEMMA UpHasNoCycle ==
  ASSUME NEW up, Hierarchy(up), NEW c \in DOMAIN up, up[c] # NoClass
  PROVE  c \notin Up(up, up[c])
<1> SUFFICES ASSUME c \in Up(up, up[c]) PROVE FALSE
  OBVIOUS
<1>0. up[c] \in DOMAIN up
  BY DEF Hierarchy
<1> DEFINE T == {x \in Up(up, up[c]) : c \in Up(up, x)}
<1>1. up[c] \in Up(up, up[c]) /\ Up(up, up[c]) \subseteq DOMAIN up /\ IsClosed(up, Up(up, up[c]))
  BY <1>0, UpIsClosed
<1>2. T \in (SUBSET DOMAIN up) \ {{}} /\ up[c] \in T
  BY <1>1
<1>3. PICK x \in T : up[x] \notin T
  BY <1>2 DEF Hierarchy, Rooted
<1>4. x \in DOMAIN up /\ x # c /\ c \in Up(up, x)
  BY <1>1, <1>2, <1>3
<1>5. up[x] # NoClass /\ c \in Up(up, up[x])
  BY <1>4, UpUnfolds
<1>6. up[x] \in Up(up, up[c])
  BY <1>1, <1>3, <1>5 DEF IsClosed
<1> QED
  BY <1>3, <1>5, <1>6

LEMMA UpIsAnOrder ==
  ASSUME NEW up, Hierarchy(up), NEW c \in DOMAIN up, NEW d \in DOMAIN up, d \in Up(up, c), c \in Up(up, d)
  PROVE  c = d
<1> SUFFICES ASSUME c # d PROVE FALSE
  OBVIOUS
<1>1. up[c] # NoClass /\ up[c] \in DOMAIN up /\ d \in Up(up, up[c])
  BY UpUnfolds
<1>2. Up(up, d) \subseteq Up(up, up[c])
  BY <1>1, UpIsTransitive
<1> QED
  BY <1>1, <1>2, UpHasNoCycle

\* What holds of a class when it holds of its superclass holds of every class.
LEMMA UpInduction ==
  ASSUME NEW up, Hierarchy(up), NEW S \in SUBSET DOMAIN up,
         \A c \in DOMAIN up : up[c] = NoClass \/ up[c] \in S => c \in S
  PROVE  S = DOMAIN up
<1> SUFFICES ASSUME DOMAIN up \ S # {} PROVE FALSE
  OBVIOUS
<1>1. DOMAIN up \ S \in (SUBSET DOMAIN up) \ {{}}
  OBVIOUS
<1>2. PICK c \in DOMAIN up \ S : up[c] \notin DOMAIN up \ S
  BY <1>1 DEF Hierarchy, Rooted
<1> QED
  BY <1>2 DEF Hierarchy

\* The nearest of some classes above c.
Closest(up, H) == CHOOSE c \in H : H \subseteq Up(up, c)

LEMMA ClosestExists ==
  ASSUME NEW up, Hierarchy(up), NEW c \in DOMAIN up, NEW H \in SUBSET Up(up, c), H # {}
  PROVE  /\ Closest(up, H) \in H /\ H \subseteq Up(up, Closest(up, H))
         /\ \A h \in H : H \subseteq Up(up, h) => h = Closest(up, H)
<1>0. c \in Up(up, c) /\ Up(up, c) \subseteq DOMAIN up
  BY UpIsClosed
<1>1. \E h \in H : H \subseteq Up(up, h)
  <2> SUFFICES ASSUME \A h \in H : ~(H \subseteq Up(up, h)) PROVE FALSE
    OBVIOUS
  <2> DEFINE T == {d \in DOMAIN up : H \subseteq Up(up, d)}
  <2>1. c \in T /\ T \in SUBSET DOMAIN up
    OBVIOUS
  <2>2. ASSUME NEW d \in T, up[d] # NoClass PROVE up[d] \in T
    <3>1. d \notin H /\ d \in DOMAIN up
      BY <2>2
    <3>2. up[d] \in DOMAIN up /\ Up(up, d) = {d} \cup Up(up, up[d])
      BY <2>2, <3>1, UpUnfolds
    <3> QED
      BY <2>2, <3>1, <3>2
  <2>3. Up(up, c) \subseteq T
    BY <2>1, <2>2, UpIsLeast DEF IsClosed
  <2> QED
    BY <2>3
<1>2. Closest(up, H) \in H /\ H \subseteq Up(up, Closest(up, H))
  BY <1>1 DEF Closest
<1>3. ASSUME NEW h \in H, H \subseteq Up(up, h) PROVE h = Closest(up, H)
  <2>1. h \in DOMAIN up /\ Closest(up, H) \in DOMAIN up
    BY <1>0, <1>2
  <2> QED
    BY <1>2, <1>3, <2>1, UpIsAnOrder
<1> QED
  BY <1>2, <1>3

\* A chain is what it was if the superclasses of its classes are.
LEMMA UpStays ==
  ASSUME NEW up, Hierarchy(up), NEW new, Hierarchy(new), DOMAIN new = DOMAIN up, NEW c \in DOMAIN up,
         \A d \in Up(up, c) : new[d] = up[d]
  PROVE  Up(new, c) = Up(up, c)
<1>1. c \in Up(up, c) /\ Up(up, c) \subseteq DOMAIN up /\ IsClosed(up, Up(up, c))
  BY UpIsClosed
<1>2. c \in Up(new, c) /\ Up(new, c) \subseteq DOMAIN up /\ IsClosed(new, Up(new, c))
  BY UpIsClosed
<1>3. Up(new, c) \subseteq Up(up, c)
  <2>1. Up(up, c) \in SUBSET DOMAIN new /\ IsClosed(new, Up(up, c))
    BY <1>1 DEF IsClosed
  <2> QED
    BY <1>1, <2>1, UpIsLeast
<1>4. Up(up, c) \subseteq Up(up, c) \cap Up(new, c)
  <2> DEFINE T == Up(up, c) \cap Up(new, c)
  <2>1. T \in SUBSET DOMAIN up /\ c \in T /\ IsClosed(up, T)
    BY <1>1, <1>2 DEF IsClosed
  <2> HIDE DEF T
  <2>2. Up(up, c) \subseteq T
    BY <2>1, UpIsLeast
  <2> QED
    BY <2>2 DEF T
<1> QED
  BY <1>3, <1>4

----------------------------------------------------------------------------
(* Method lists, now or after a step.                                      *)

List == [from : Int, imps : Implementations]
FirstOf(ls, s) == SelectInSeq(ls, LAMBDA l : s \in DOMAIN l.imps)
HasIn(ls, s) == FirstOf(ls, s) > 0
ImpIn(ls, s) == ls[FirstOf(ls, s)].imps[s]

LEMMA ImplementationsType ==
  ASSUME NEW f \in Implementations
  PROVE  DOMAIN f \in SUBSET Sels /\ \A s \in DOMAIN f : f[s] \in Imps
BY DEF Implementations

LEMMA LeastExists ==
  ASSUME NEW n \in Nat, NEW I \in SUBSET (1..n), I # {}
  PROVE  Min(I) \in I /\ \A k \in I : Min(I) <= k
<1> DEFINE Below(k) == {j \in I : j < k}
           F == {Below(k) : k \in I}
<1>0. IsFiniteSet(I) /\ I \subseteq Nat
  <2>1. IsFiniteSet(1..n)
    BY FS_Interval
  <2>2. IsFiniteSet(I)
    BY <2>1, FS_Subset
  <2>3. I \subseteq Nat
    OBVIOUS
  <2> QED
    BY <2>2, <2>3
<1>1. IsWellFoundedOn(StrictSubsetOrdering(I), SUBSET I)
  BY <1>0, FS_StrictSubsetOrderingWellFounded, FS_FiniteSubsetsOfFinite
<1>2. F \subseteq SUBSET I /\ F # {}
  <2>1. PICK k \in I : TRUE
    OBVIOUS
  <2>2. Below(k) \in F
    BY <2>1
  <2> QED
    BY <2>2
<1>3. PICK S \in F : \A R \in F : ~(<<R, S>> \in StrictSubsetOrdering(I))
  <2> HIDE DEF F
  <2> QED
    BY <1>1, <1>2, WFMin
<1>4. PICK k \in I : S = Below(k)
  OBVIOUS
<1>5. ASSUME NEW j \in I, j < k PROVE FALSE
  <2>0. j \in Nat /\ k \in Nat /\ \A i \in I : i \in Nat
    BY <1>0
  <2>a. \A i \in I : i < j => i < k
    BY <1>5, <2>0
  <2>b. ~(j < j)
    BY <2>0
  <2>1. Below(j) \subseteq Below(k) /\ j \in Below(k) /\ j \notin Below(j)
    BY <1>5, <2>a, <2>b
  <2>2. <<Below(j), Below(k)>> \in StrictSubsetOrdering(I)
    <3>1. Below(j) \in SUBSET I /\ Below(k) \in SUBSET I
      OBVIOUS
    <3>2. Below(j) # Below(k)
      BY <2>1
    <3> HIDE DEF Below
    <3> QED
      BY <2>1, <3>1, <3>2 DEF StrictSubsetOrdering
  <2> QED
    BY <1>3, <1>4, <2>2
<1>6. \A j \in I : k <= j
  BY <1>0, <1>5
<1> QED
  BY <1>6 DEF Min

LEMMA FirstOfLists ==
  ASSUME NEW ls \in Seq(List), NEW s
  PROVE  /\ FirstOf(ls, s) \in Nat
         /\ HasIn(ls, s) <=> \E k \in 1..Len(ls) : s \in DOMAIN ls[k].imps
         /\ HasIn(ls, s) => FirstOf(ls, s) \in 1..Len(ls) /\ s \in DOMAIN ls[FirstOf(ls, s)].imps
         /\ HasIn(ls, s) => ImpIn(ls, s) \in Imps
<1> DEFINE I == {k \in 1..Len(ls) : s \in DOMAIN ls[k].imps}
<1>1. FirstOf(ls, s) = IF I # {} THEN Min(I) ELSE 0
  BY DEF FirstOf, SelectInSeq
<1>2. Len(ls) \in Nat /\ I \in SUBSET (1..Len(ls))
  OBVIOUS
<1>3. I # {} => Min(I) \in I
  <2> HIDE DEF I
  <2> QED
    BY <1>2, LeastExists
<1>4. FirstOf(ls, s) \in Nat /\ (HasIn(ls, s) <=> I # {}) /\ (HasIn(ls, s) => FirstOf(ls, s) \in I)
  BY <1>1, <1>3 DEF HasIn
<1>5. ASSUME HasIn(ls, s) PROVE ImpIn(ls, s) \in Imps
  <2>1. FirstOf(ls, s) \in 1..Len(ls) /\ s \in DOMAIN ls[FirstOf(ls, s)].imps
    BY <1>4, <1>5
  <2>2. ls[FirstOf(ls, s)].imps \in Implementations
    <3>1. ls[FirstOf(ls, s)] \in List
      BY <2>1
    <3> QED
      BY <3>1 DEF List
  <2> QED
    BY <2>1, <2>2, ImplementationsType DEF ImpIn
<1> QED
  BY <1>4, <1>5

\* Which selectors the lists are for decides where one is found.
LEMMA SameFirst ==
  ASSUME NEW ls, NEW new, NEW s, Len(new) = Len(ls),
         \A k \in 1..Len(ls) : s \in DOMAIN new[k].imps <=> s \in DOMAIN ls[k].imps
  PROVE  FirstOf(new, s) = FirstOf(ls, s)
<1>1. {k \in 1..Len(new) : s \in DOMAIN new[k].imps} = {k \in 1..Len(ls) : s \in DOMAIN ls[k].imps}
  OBVIOUS
<1> QED
  BY <1>1 DEF FirstOf, SelectInSeq

----------------------------------------------------------------------------
(* What the method lists answer, and what a lookup finds.                  *)

Holders(up, ms, c, s) == {d \in Up(up, c) : HasIn(ms[d], s)}
Answer(up, ms, c, s) ==
  IF Holders(up, ms, c, s) = {} THEN forward_imp ELSE ImpIn(ms[Closest(up, Holders(up, ms, c, s))], s)

Ends(up, ms, ca, c, s) ==
  {d \in Up(up, c) : HasIn(ms[d], s) \/ up[d] = NoClass \/ ca[up[d]][s] # NoImp}
EndsAt(up, ms, ca, c, s) ==
  IF HasIn(ms[c], s) THEN ImpIn(ms[c], s)
  ELSE IF up[c] = NoClass THEN forward_imp ELSE ca[up[c]][s]
Found(up, ms, ca, c, s) == EndsAt(up, ms, ca, Closest(up, Ends(up, ms, ca, c, s)), s)

LEMMA AnswerUnfolds ==
  ASSUME NEW up, Hierarchy(up), NEW ms, NEW c \in DOMAIN up, NEW s
  PROVE  Answer(up, ms, c, s) = IF HasIn(ms[c], s) THEN ImpIn(ms[c], s)
                                ELSE IF up[c] = NoClass THEN forward_imp ELSE Answer(up, ms, up[c], s)
<1> DEFINE H == Holders(up, ms, c, s)
<1>0. c \in Up(up, c) /\ H \in SUBSET Up(up, c)
  BY UpIsClosed DEF Holders
<1>1. CASE HasIn(ms[c], s)
  <2>1. c \in H /\ H \subseteq Up(up, c)
    BY <1>0, <1>1 DEF Holders
  <2>2. c = Closest(up, H)
    BY <1>0, <2>1, ClosestExists
  <2> QED
    BY <1>1, <2>1, <2>2 DEF Answer
<1>2. CASE ~HasIn(ms[c], s) /\ up[c] = NoClass
  <2>1. H = {}
    BY <1>2, UpUnfolds DEF Holders
  <2> QED
    BY <1>2, <2>1 DEF Answer
<1>3. CASE ~HasIn(ms[c], s) /\ up[c] # NoClass
  <2>1. H = Holders(up, ms, up[c], s)
    BY <1>3, UpUnfolds DEF Holders
  <2> QED
    BY <1>3, <2>1 DEF Answer
<1> QED
  BY <1>1, <1>2, <1>3

LEMMA FoundUnfolds ==
  ASSUME NEW up, Hierarchy(up), NEW ms, NEW ca, NEW c \in DOMAIN up, NEW s
  PROVE  Found(up, ms, ca, c, s) =
           IF HasIn(ms[c], s) THEN ImpIn(ms[c], s)
           ELSE IF up[c] = NoClass THEN forward_imp
           ELSE IF ca[up[c]][s] # NoImp THEN ca[up[c]][s] ELSE Found(up, ms, ca, up[c], s)
<1> DEFINE E == Ends(up, ms, ca, c, s)
           stop == HasIn(ms[c], s) \/ up[c] = NoClass \/ ca[up[c]][s] # NoImp
<1>0. c \in Up(up, c) /\ E \in SUBSET Up(up, c)
  BY UpIsClosed DEF Ends
<1>1. CASE stop
  <2>1. c \in E /\ E \subseteq Up(up, c)
    BY <1>0, <1>1 DEF Ends
  <2>2. c = Closest(up, E)
    BY <1>0, <2>1, ClosestExists
  <2> QED
    BY <1>1, <2>2 DEF Found, EndsAt
<1>2. CASE ~stop
  <2>1. E = Ends(up, ms, ca, up[c], s)
    BY <1>2, UpUnfolds DEF Ends
  <2> QED
    BY <1>2, <2>1 DEF Found
<1> QED
  BY <1>1, <1>2

\* The caches of the superclasses may cut the walk short.
LEMMA FoundIsAnswer ==
  ASSUME NEW up, Hierarchy(up), NEW ms, NEW ca, NEW c \in DOMAIN up, NEW s,
         \A d \in DOMAIN up : ca[d][s] # NoImp => ca[d][s] = Answer(up, ms, d, s)
  PROVE  Found(up, ms, ca, c, s) = Answer(up, ms, c, s)
<1> DEFINE S == {d \in DOMAIN up : Found(up, ms, ca, d, s) = Answer(up, ms, d, s)}
<1>1. ASSUME NEW d \in DOMAIN up, up[d] = NoClass \/ up[d] \in S PROVE d \in S
  <2>1. up[d] # NoClass => up[d] \in DOMAIN up
    BY DEF Hierarchy
  <2>2. Answer(up, ms, d, s) = IF HasIn(ms[d], s) THEN ImpIn(ms[d], s)
                               ELSE IF up[d] = NoClass THEN forward_imp ELSE Answer(up, ms, up[d], s)
    BY AnswerUnfolds
  <2>3. Found(up, ms, ca, d, s) =
          IF HasIn(ms[d], s) THEN ImpIn(ms[d], s)
          ELSE IF up[d] = NoClass THEN forward_imp
          ELSE IF ca[up[d]][s] # NoImp THEN ca[up[d]][s] ELSE Found(up, ms, ca, up[d], s)
    BY FoundUnfolds
  <2>4. up[d] # NoClass => Found(up, ms, ca, up[d], s) = Answer(up, ms, up[d], s)
    BY <1>1
  <2>5. up[d] # NoClass => (ca[up[d]][s] # NoImp => ca[up[d]][s] = Answer(up, ms, up[d], s))
    BY <2>1
  <2>6. Found(up, ms, ca, d, s) = Answer(up, ms, d, s)
    BY <2>2, <2>3, <2>4, <2>5
  <2> QED
    BY <2>6
<1>2. S \in SUBSET DOMAIN up
  OBVIOUS
<1>3. S = DOMAIN up
  <2> HIDE DEF S
  <2> QED
    BY <1>1, <1>2, UpInduction
<1> QED
  BY <1>3

\* The answer is an implementation.
LEMMA AnswerType ==
  ASSUME NEW up, Hierarchy(up), NEW ms \in [DOMAIN up -> Seq(List)], NEW c \in DOMAIN up, NEW s
  PROVE  Answer(up, ms, c, s) \in Imps \cup {forward_imp}
<1> DEFINE H == Holders(up, ms, c, s)
<1>1. H \in SUBSET Up(up, c) /\ Up(up, c) \subseteq DOMAIN up
  BY UpIsClosed DEF Holders
<1>2. CASE H = {}
  BY <1>2 DEF Answer
<1>3. CASE H # {}
  <2>1. Closest(up, H) \in H
    BY <1>1, <1>3, ClosestExists
  <2>2. ms[Closest(up, H)] \in Seq(List) /\ HasIn(ms[Closest(up, H)], s)
    BY <1>1, <2>1 DEF Holders
  <2>3. ImpIn(ms[Closest(up, H)], s) \in Imps
    BY <2>2, FirstOfLists
  <2> QED
    BY <1>3, <2>3 DEF Answer
<1> QED
  BY <1>2, <1>3

\* The answer is what it was if the classes above c have the methods they had, and the
\* class that answers the same implementation.
LEMMA AnswerStays ==
  ASSUME NEW up, Hierarchy(up), NEW new, Hierarchy(new), DOMAIN new = DOMAIN up,
         NEW ms, NEW mn, NEW c \in DOMAIN up, NEW s,
         \A d \in Up(up, c) : new[d] = up[d] /\ (HasIn(mn[d], s) <=> HasIn(ms[d], s)),
         \A d \in Holders(up, ms, c, s) : Answer(up, ms, c, s) = ImpIn(ms[d], s) => ImpIn(mn[d], s) = ImpIn(ms[d], s)
  PROVE  Answer(new, mn, c, s) = Answer(up, ms, c, s)
<1> DEFINE H == Holders(up, ms, c, s)
<1>1. Up(new, c) = Up(up, c)
  BY UpStays
<1>2. Holders(new, mn, c, s) = H
  BY <1>1 DEF Holders
<1>3. CASE H = {}
  BY <1>2, <1>3 DEF Answer
<1>4. CASE H # {}
  <2>1. H \in SUBSET Up(up, c) /\ Up(up, c) \subseteq DOMAIN up
    BY UpIsClosed DEF Holders
  <2>2. Closest(up, H) \in H /\ H \subseteq Up(up, Closest(up, H))
    BY <1>4, <2>1, ClosestExists
  <2>3. Up(up, Closest(up, H)) \subseteq Up(up, c) /\ Closest(up, H) \in DOMAIN up
    BY <2>1, <2>2, UpIsTransitive
  <2>4. Up(new, Closest(up, H)) = Up(up, Closest(up, H))
    BY <2>3, UpStays
  <2>5. Closest(new, H) = Closest(up, H)
    <3>1. H \in SUBSET Up(new, c)
      BY <1>1, <2>1
    <3> HIDE DEF H
    <3> QED
      BY <1>4, <2>2, <2>4, <3>1, ClosestExists
  <2> QED
    BY <1>2, <1>4, <2>2, <2>5 DEF Answer
<1> QED
  BY <1>3, <1>4

----------------------------------------------------------------------------
(* Attaching categories.                                                   *)

LEMMA DivMod ==
  ASSUME NEW a \in Nat
  PROVE  /\ a \div ATTACH_BUFSIZ \in Int /\ a % ATTACH_BUFSIZ \in 0..(ATTACH_BUFSIZ - 1)
         /\ a = ATTACH_BUFSIZ * (a \div ATTACH_BUFSIZ) + (a % ATTACH_BUFSIZ)
<1>1. ATTACH_BUFSIZ \in Nat \ {0}
  BY MethodLookupAssumption
<1> QED
  BY <1>1

LEMMA LaterIsBefore ==
  ASSUME NEW i \in Nat \ {0}, NEW j \in Nat \ {0}, i > j
  PROVE  before(i, j) /\ ~before(j, i)
<1> DEFINE B == ATTACH_BUFSIZ
           q == (i - 1) \div B
           r == (i - 1) % B
           p == (j - 1) \div B
           s == (j - 1) % B
<1>1. B \in Nat \ {0} /\ i - 1 \in Nat /\ j - 1 \in Nat
  BY MethodLookupAssumption
<1>2. /\ q \in Int /\ r \in 0..(B - 1) /\ i - 1 = B * q + r
      /\ p \in Int /\ s \in 0..(B - 1) /\ j - 1 = B * p + s
  BY <1>1, DivMod
<1> HIDE DEF B, q, r, p, s
<1>3. q \in Int /\ p \in Int /\ r \in Int /\ s \in Int /\ B \in Int /\ r < B /\ s < B /\ r >= 0 /\ s >= 0
  BY <1>1, <1>2
<1>4. B * q + r > B * p + s
  BY <1>2
<1>5. ~(q < p)
  <2> SUFFICES ASSUME q < p PROVE FALSE
    OBVIOUS
  <2>1. q + 1 <= p
    BY <1>3
  <2>2. B * (q + 1) <= B * p
    BY <1>1, <1>3, <2>1
  <2>3. B * (q + 1) = B * q + B
    BY <1>3
  <2> QED
    BY <1>3, <1>4, <2>2, <2>3
<1>6. q = p => r > s
  BY <1>3, <1>4
<1>7. /\ q > p \/ (q = p /\ B - 1 - r < B - 1 - s)
      /\ ~(p > q \/ (p = q /\ B - 1 - s < B - 1 - r))
  BY <1>3, <1>5, <1>6
<1> QED
  BY <1>7 DEF before, round, place, B, q, r, p, s

LEMMA BeforeIsLater ==
  ASSUME NEW i \in Nat \ {0}, NEW j \in Nat \ {0}
  PROVE  before(j, i) <=> j > i
<1>1. CASE j > i
  BY <1>1, LaterIsBefore
<1>2. CASE i > j
  BY <1>2, LaterIsBefore
<1>3. CASE i = j
  <2>1. round(i) \in Int /\ place(i) \in Int
    <3>1. i - 1 \in Nat
      OBVIOUS
    <3>2. (i - 1) \div ATTACH_BUFSIZ \in Int /\ (i - 1) % ATTACH_BUFSIZ \in Int /\ ATTACH_BUFSIZ \in Nat
      BY <3>1, DivMod, MethodLookupAssumption
    <3> QED
      BY <3>2 DEF round, place
  <2> QED
    BY <1>3, <2>1 DEF before
<1> QED
  BY <1>1, <1>2, <1>3

\* Whatever the size of the buffer, the youngest category comes first.
LEMMA AttachReverses ==
  ASSUME NEW L, NEW old \in Seq(L), NEW cats \in Seq(L)
  PROVE  /\ attachCategories(old, cats) \in Seq(L)
         /\ Len(attachCategories(old, cats)) = Len(cats) + Len(old)
         /\ \A k \in 1..Len(cats) : attachCategories(old, cats)[k] = cats[Len(cats) + 1 - k]
         /\ \A k \in 1..Len(old) : attachCategories(old, cats)[Len(cats) + k] = old[k]
<1> DEFINE n == Len(cats)
           at(i) == Cardinality({j \in 1..n : before(j, i)}) + 1
           front == [k \in 1..n |-> cats[CHOOSE i \in 1..n : at(i) = k]]
<1>0. n \in Nat
  OBVIOUS
<1>1. ASSUME NEW i \in 1..n PROVE at(i) = n + 1 - i
  <2>1. {j \in 1..n : before(j, i)} = (i + 1)..n
    BY <1>0, BeforeIsLater
  <2>2. Cardinality((i + 1)..n) = n - i
    BY <1>0, FS_Interval
  <2>3. Cardinality({j \in 1..n : before(j, i)}) = n - i
    BY <2>1, <2>2
  <2> QED
    BY <1>0, <2>3
<1>2. ASSUME NEW k \in 1..n PROVE (CHOOSE i \in 1..n : at(i) = k) = n + 1 - k
  <2>1. n + 1 - k \in 1..n /\ at(n + 1 - k) = k
    <3>1. n + 1 - k \in 1..n
      BY <1>0
    <3>2. at(n + 1 - k) = n + 1 - (n + 1 - k)
      BY <1>1, <3>1
    <3> QED
      BY <1>0, <3>1, <3>2
  <2>2. \A i \in 1..n : at(i) = k => i = n + 1 - k
    <3> SUFFICES ASSUME NEW i \in 1..n, at(i) = k PROVE i = n + 1 - k
      OBVIOUS
    <3>1. at(i) = n + 1 - i
      BY <1>1
    <3> QED
      BY <1>0, <3>1
  <2> HIDE DEF at
  <2> QED
    BY <2>1, <2>2
<1>3. \A k \in 1..n : front[k] = cats[n + 1 - k] /\ front[k] \in L
  <2> TAKE k \in 1..n
  <2>1. front[k] = cats[CHOOSE i \in 1..n : at(i) = k]
    OBVIOUS
  <2>2. front[k] = cats[n + 1 - k]
    BY <1>2, <2>1
  <2>3. n + 1 - k \in 1..n
    BY <1>0
  <2> HIDE DEF front
  <2> QED
    BY <2>2, <2>3
<1>4. front \in Seq(L) /\ Len(front) = n
  <2>1. front \in [1..n -> L]
    BY <1>3
  <2> HIDE DEF front
  <2> QED
    BY <1>0, <2>1
<1>5. attachCategories(old, cats) = front \o old
  BY DEF attachCategories
<1> HIDE DEF front
<1>6. front \o old \in Seq(L) /\ Len(front \o old) = n + Len(old)
  BY <1>0, <1>4
<1>7. \A k \in 1..n : (front \o old)[k] = cats[n + 1 - k]
  BY <1>0, <1>3, <1>4
<1>8. \A k \in 1..Len(old) : (front \o old)[n + k] = old[k]
  BY <1>0, <1>4
<1> QED
  BY <1>5, <1>6, <1>7, <1>8

----------------------------------------------------------------------------
(* The inductive invariant.                                                *)

Pcs == {"idle", "try", "lookup", "resolver"}
Thens == {"answer", "asked", "asked class", "still missing"}
Calls == [pc : Pcs, cls : Classes \cup {NoClass}, sel : Sels \cup {NoImp}, initialize : BOOLEAN,
          resolver : BOOLEAN, nocache : BOOLEAN, kept : BOOLEAN, then : Thens]

TypeInv ==
  /\ program \in Programs
  /\ Classes = DOMAIN program.superclass /\ Hierarchy(superclass)
  /\ methods \in [Classes -> Seq(List)] /\ unattached \in [Classes -> Seq(List)]
  /\ realized \in SUBSET Classes
  /\ cache \in [Classes -> [Sels -> Imps \cup {NoImp, forward_imp}]]
  /\ loaded \in 0..Len(program.categories)
  /\ call \in [Threads -> Calls]
  /\ \A t \in Threads : call[t].pc # "idle" => call[t].cls \in Classes /\ call[t].sel \in Sels

\* Superclasses and metaclasses are realized with a class.
AllRealized == Closed(realized) /\ WithMetas(realized)

\* A class that has something in its cache is realized, and so are its superclasses: the
\* flushes, which look at realized classes only, reach it.
RealizeInv ==
  /\ AllRealized
  /\ \A c \in Classes, s \in Sels : cache[c][s] # NoImp => c \in realized
  /\ \A t \in Threads : call[t].pc = "resolver" => call[t].cls \in realized

\* The resolver that comes first for a class has been asked for a selector.
AskedFirst(c, s, answered) == FirstQuestion(c) \in Resolvers => <<FirstQuestion(c), s>> \in answered

\* A call that asks no resolver any more, or the second one, has asked the first.
HasAsked(me, answered) ==
  /\ ~me.resolver
  /\ me.pc \in {"try", "lookup"} \/ (me.pc = "resolver" /\ Question(me) # FirstQuestion(me.cls))
  => AskedFirst(me.cls, me.sel, answered)

AskInv ==
  /\ \A c \in Classes, s \in Sels : cache[c][s] = forward_imp => AskedFirst(c, s, asked)
  /\ \A t \in Threads : HasAsked(call[t], asked)

IndInv == TypeInv /\ RealizeInv /\ CachesAgree /\ LaterCategoriesWin /\ AskInv

LEMMA ProgramType ==
  ASSUME TypeInv
  PROVE  /\ NoClass \notin Classes
         /\ program.base \in [Classes -> Implementations]
         /\ program.categories \in Seq([cls : Classes, imps : Implementations])
         /\ program.messages \subseteq Classes \X Sels
BY ProgramsAssumption DEF TypeInv

\* The operators of the model are those of the lemmas.
LEMMA LookupForms ==
  ASSUME NEW c, NEW s
  PROVE  /\ Lineage(c) = Up(superclass, c) /\ Lineage(c)' = Up(superclass', c)
         /\ Has(c, s) <=> HasIn(methods[c], s)
         /\ Imp(c, s) = ImpIn(methods[c], s)
         /\ getMethod_nolock(c, s) = Answer(superclass, methods, c, s)
         /\ getMethod_nolock(c, s)' = Answer(superclass', methods', c, s)
         /\ Search(c, s) = Found(superclass, methods, cache, c, s)
<1>1. \A d : Lineage(d) = Up(superclass, d) /\ Lineage(d)' = Up(superclass', d)
  BY DEF Lineage, Closed, Classes, Up, IsClosed
<1>2. \A S : Nearest(S) = Closest(superclass, S)
  BY <1>1 DEF Nearest, Closest
<1>3. \A S : Nearest(S)' = Closest(superclass', S')
  BY <1>1 DEF Nearest, Closest
<1>4. \A d : (Has(d, s) <=> HasIn(methods[d], s)) /\ Imp(d, s) = ImpIn(methods[d], s)
  BY DEF Has, HasIn, Imp, ImpIn, getMethodNoSuper_nolock, FirstOf
<1>5. \A d : (Has(d, s)' <=> HasIn(methods'[d], s)) /\ Imp(d, s)' = ImpIn(methods'[d], s)
  BY DEF Has, HasIn, Imp, ImpIn, getMethodNoSuper_nolock, FirstOf, SelectInSeq
<1>6. getMethod_nolock(c, s) = Answer(superclass, methods, c, s)
  BY <1>1, <1>2, <1>4 DEF getMethod_nolock, Answer, Holders
<1>7. getMethod_nolock(c, s)' = Answer(superclass', methods', c, s)
  BY <1>1, <1>3, <1>5 DEF getMethod_nolock, Answer, Holders
<1>8. Search(c, s) = Found(superclass, methods, cache, c, s)
  BY <1>1, <1>2, <1>4 DEF Search, Found, Ends, EndsAt
<1> QED
  BY <1>1, <1>4, <1>6, <1>7, <1>8

----------------------------------------------------------------------------
(* Flushing caches.                                                        *)

CacheType == cache \in [Classes -> [Sels -> Imps \cup {NoImp, forward_imp}]]

\* Caches lose entries and gain none.
CacheLoses ==
  /\ cache' \in [Classes -> [Sels -> Imps \cup {NoImp, forward_imp}]]
  /\ \A c \in Classes, s \in Sels : cache'[c][s] = cache[c][s] \/ cache'[c][s] = NoImp

\* What stays cached is still the answer.
StillRight ==
  \A c \in Classes, s \in Sels :
    cache'[c][s] # NoImp => Answer(superclass', methods', c, s) = Answer(superclass, methods, c, s)

LEMMA NothingCachedType ==
  NothingCached \in [Sels -> Imps \cup {NoImp, forward_imp}] /\ \A s \in Sels : NothingCached[s] = NoImp
BY DEF NothingCached

LEMMA FlushLoses ==
  ASSUME CacheType, NEW c, cache' = flush(c)
  PROVE  CacheLoses /\ \A d \in Classes, s \in Sels : cache'[d][s] # NoImp => d \notin Subtree(c)
<1>1. \A d \in Classes : cache'[d] = IF d \in Subtree(c) THEN NothingCached ELSE cache[d]
  BY DEF flush
<1>2. cache' \in [Classes -> [Sels -> Imps \cup {NoImp, forward_imp}]]
  BY NothingCachedType DEF flush, CacheType
<1> QED
  BY <1>1, <1>2, NothingCachedType DEF CacheLoses

LEMMA FlushOldLoses ==
  ASSUME CacheType, NEW top, NEW olds, cache' = flushOld(top, olds)
  PROVE  CacheLoses /\ \A d \in Classes, s \in Sels :
           cache'[d][s] # NoImp => d \notin top \/ \A o \in olds : cache[d][o.sel] # o.imp
<1> DEFINE old(d) == d \in top /\ \E o \in olds : cache[d][o.sel] = o.imp
<1>1. \A d \in Classes : cache'[d] = IF old(d) THEN NothingCached ELSE cache[d]
  BY DEF flushOld
<1>2. cache' \in [Classes -> [Sels -> Imps \cup {NoImp, forward_imp}]]
  BY NothingCachedType DEF flushOld, CacheType
<1> QED
  BY <1>1, <1>2, NothingCachedType DEF CacheLoses

\* Flushing the subtrees of the class whose methods or superclass change, and of a second
\* one, is enough.
LEMMA FlushAgrees ==
  ASSUME TypeInv, RealizeInv, CacheLoses, Hierarchy(superclass'), DOMAIN superclass' = Classes, NEW c, NEW m,
         \A d \in Classes, s \in Sels : cache'[d][s] # NoImp => d \notin Subtree(c) /\ d \notin Subtree(m),
         \A d \in Classes : d # c /\ d # m => methods'[d] = methods[d] /\ superclass'[d] = superclass[d]
  PROVE  StillRight
<1> SUFFICES ASSUME NEW d \in Classes, NEW s \in Sels, cache'[d][s] # NoImp
             PROVE  Answer(superclass', methods', d, s) = Answer(superclass, methods, d, s)
  BY DEF StillRight
<1>1. cache[d][s] # NoImp /\ d \in realized
  BY DEF CacheLoses, RealizeInv
<1>2. c \notin Lineage(d) /\ m \notin Lineage(d)
  BY <1>1 DEF Subtree
<1>3. Lineage(d) = Up(superclass, d)
  BY LookupForms
<1>4. Hierarchy(superclass) /\ DOMAIN superclass = Classes
  BY DEF TypeInv, Classes
<1>5. Up(superclass, d) \subseteq Classes
  BY <1>4, UpIsClosed
<1>6. \A e \in Up(superclass, d) : methods'[e] = methods[e] /\ superclass'[e] = superclass[e]
  BY <1>2, <1>3, <1>5
<1>7. \A e \in Holders(superclass, methods, d, s) : methods'[e] = methods[e]
  BY <1>6 DEF Holders
<1> QED
  BY <1>4, <1>6, <1>7, AnswerStays

\* So is flushing, where implementations change, the caches that have an old one.
LEMMA FlushOldAgrees ==
  ASSUME TypeInv, RealizeInv, CachesAgree, CacheLoses, superclass' = superclass, NEW top, NEW olds,
         \A d \in Classes, s \in Sels :
           cache'[d][s] # NoImp => d \notin top \/ \A o \in olds : cache[d][o.sel] # o.imp,
         \A d \in Classes, s \in Sels : HasIn(methods'[d], s) <=> HasIn(methods[d], s),
         \A d \in Classes, s \in Sels : HasIn(methods[d], s) /\ ImpIn(methods'[d], s) # ImpIn(methods[d], s) =>
           /\ \E o \in olds : o.sel = s /\ o.imp = ImpIn(methods[d], s)
           /\ \A e \in realized : d \in Lineage(e) => e \in top
  PROVE  StillRight
<1> SUFFICES ASSUME NEW e \in Classes, NEW s \in Sels, cache'[e][s] # NoImp
             PROVE  Answer(superclass', methods', e, s) = Answer(superclass, methods, e, s)
  BY DEF StillRight
<1>1. cache[e][s] # NoImp /\ e \in realized
  BY DEF CacheLoses, RealizeInv
<1>2. cache[e][s] = Answer(superclass, methods, e, s)
  BY <1>1, LookupForms DEF CachesAgree
<1>3. Lineage(e) = Up(superclass, e)
  BY LookupForms
<1>4. Hierarchy(superclass) /\ DOMAIN superclass = Classes
  BY DEF TypeInv, Classes
<1>5. Up(superclass, e) \subseteq Classes
  BY <1>4, UpIsClosed
<1>6. ASSUME NEW d \in Holders(superclass, methods, e, s), Answer(superclass, methods, e, s) = ImpIn(methods[d], s)
      PROVE  ImpIn(methods'[d], s) = ImpIn(methods[d], s)
  <2>1. d \in Lineage(e) /\ d \in Classes /\ HasIn(methods[d], s)
    BY <1>3, <1>5 DEF Holders
  <2> SUFFICES ASSUME ImpIn(methods'[d], s) # ImpIn(methods[d], s) PROVE FALSE
    OBVIOUS
  <2>2. PICK o \in olds : o.sel = s /\ o.imp = ImpIn(methods[d], s)
    BY <2>1
  <2>3. e \in top
    BY <1>1, <2>1
  <2>4. cache[e][o.sel] = o.imp
    BY <1>2, <1>6, <2>2
  <2> QED
    BY <2>2, <2>3, <2>4
<1>7. \A d \in Up(superclass, e) : HasIn(methods'[d], s) <=> HasIn(methods[d], s)
  BY <1>5
<1> QED
  BY <1>4, <1>6, <1>7, AnswerStays

\* Steps that fill no cache.
LEMMA AgreeStays ==
  ASSUME TypeInv, CachesAgree, CacheLoses, StillRight, Classes' = Classes, initialized \subseteq initialized'
  PROVE  CachesAgree'
<1> SUFFICES ASSUME NEW c \in Classes, NEW s \in Sels, cache'[c][s] # NoImp
             PROVE  isInitialized(c)' /\ cache'[c][s] = getMethod_nolock(c, s)'
  BY DEF CachesAgree
<1>1. cache'[c][s] = cache[c][s]
  BY DEF CacheLoses
<1>2. isInitialized(c) /\ cache[c][s] = getMethod_nolock(c, s)
  BY <1>1 DEF CachesAgree
<1>3. isInitialized(c)'
  BY <1>2 DEF isInitialized, nonmeta
<1>4. getMethod_nolock(c, s)' = getMethod_nolock(c, s)
  BY LookupForms DEF StillRight
<1> QED
  BY <1>1, <1>2, <1>3, <1>4

LEMMA UnchangedLoses ==
  ASSUME TypeInv, UNCHANGED cache
  PROVE  CacheLoses
BY DEF TypeInv, CacheLoses

LEMMA UnchangedRight ==
  ASSUME UNCHANGED <<superclass, methods>>
  PROVE  StillRight
BY DEF StillRight

----------------------------------------------------------------------------
(* Changing implementations in their lists.                                *)

\* The same lists for the same selectors.
SameShape(ls, new) ==
  /\ new \in Seq(List) /\ Len(new) = Len(ls)
  /\ \A k \in 1..Len(ls) : new[k].from = ls[k].from /\ DOMAIN new[k].imps = DOMAIN ls[k].imps

LEMMA SameShapeHas ==
  ASSUME NEW ls, NEW new, SameShape(ls, new), NEW s
  PROVE  FirstOf(new, s) = FirstOf(ls, s) /\ (HasIn(new, s) <=> HasIn(ls, s))
BY SameFirst DEF SameShape, HasIn

LEMMA ListType ==
  ASSUME NEW l \in List
  PROVE  /\ l.from \in Int /\ l.imps \in Implementations
         /\ DOMAIN l.imps \in SUBSET Sels /\ l.imps \in [DOMAIN l.imps -> Imps]
<1>1. l.from \in Int /\ l.imps \in Implementations
  BY DEF List
<1> QED
  BY <1>1, ImplementationsType DEF Implementations

\* A list with other implementations for its selectors.
LEMMA ReplacedList ==
  ASSUME NEW l \in List, NEW f \in [DOMAIN l.imps -> Imps]
  PROVE  [l EXCEPT !.imps = f] \in List /\ [l EXCEPT !.imps = f].from = l.from /\ [l EXCEPT !.imps = f].imps = f
<1>1. f \in Implementations
  BY ListType DEF Implementations
<1> QED
  BY <1>1 DEF List

Put(ms, m, i) ==
  [ms EXCEPT ![m[1]] = [ms[m[1]] EXCEPT ![m[2]] =
    [ms[m[1]][m[2]] EXCEPT !.imps = [ms[m[1]][m[2]].imps EXCEPT ![m[3]] = i]]]]

IsMethod(ms, m) == m[1] \in Classes /\ m[2] \in 1..Len(ms[m[1]]) /\ m[3] \in DOMAIN ms[m[1]][m[2]].imps

LEMMA PutEffect ==
  ASSUME NEW ms \in [Classes -> Seq(List)], NEW m, IsMethod(ms, m), NEW i \in Imps
  PROVE  /\ Put(ms, m, i) \in [Classes -> Seq(List)]
         /\ \A d \in Classes : SameShape(ms[d], Put(ms, m, i)[d])
         /\ \A d \in Classes : \A k \in 1..Len(ms[d]) : \A s \in DOMAIN ms[d][k].imps :
              Put(ms, m, i)[d][k].imps[s] = IF d = m[1] /\ k = m[2] /\ s = m[3] THEN i ELSE ms[d][k].imps[s]
<1> DEFINE ls == ms[m[1]]
           l == ls[m[2]]
           f == [l.imps EXCEPT ![m[3]] = i]
           new == [l EXCEPT !.imps = f]
           lsn == [ls EXCEPT ![m[2]] = new]
<1>1. m[1] \in Classes /\ ls \in Seq(List) /\ m[2] \in 1..Len(ls) /\ m[3] \in DOMAIN l.imps
  BY DEF IsMethod
<1>2. l \in List
  BY <1>1
<1>3. f \in [DOMAIN l.imps -> Imps] /\ f[m[3]] = i /\ \A s \in DOMAIN l.imps : s # m[3] => f[s] = l.imps[s]
  BY <1>1, <1>2, ListType
<1>4. new \in List /\ new.from = l.from /\ new.imps = f
  <2> HIDE DEF f, l
  <2> QED
    BY <1>2, <1>3, ReplacedList
<1>5. Put(ms, m, i) = [ms EXCEPT ![m[1]] = lsn]
  BY DEF Put
<1> HIDE DEF f, new
<1>6. lsn \in Seq(List) /\ Len(lsn) = Len(ls) /\ lsn[m[2]] = new /\ \A k \in 1..Len(ls) : k # m[2] => lsn[k] = ls[k]
  BY <1>1, <1>4
<1>7. DOMAIN f = DOMAIN l.imps
  BY <1>3
<1> HIDE DEF lsn
<1>8. SameShape(ls, lsn)
  BY <1>1, <1>4, <1>6, <1>7 DEF SameShape
<1>9. Put(ms, m, i)[m[1]] = lsn /\ \A d \in Classes : d # m[1] => Put(ms, m, i)[d] = ms[d]
  BY <1>1, <1>5
<1>10. Put(ms, m, i) \in [Classes -> Seq(List)]
  BY <1>5, <1>6
<1>11. \A d \in Classes : SameShape(ms[d], Put(ms, m, i)[d])
  <2> TAKE d \in Classes
  <2>1. ms[d] \in Seq(List) /\ SameShape(ms[d], ms[d])
    BY DEF SameShape
  <2> QED
    BY <1>8, <1>9, <2>1
<1>12. ASSUME NEW d \in Classes, NEW k \in 1..Len(ms[d]), NEW s \in DOMAIN ms[d][k].imps
       PROVE  Put(ms, m, i)[d][k].imps[s] = IF d = m[1] /\ k = m[2] /\ s = m[3] THEN i ELSE ms[d][k].imps[s]
  <2>1. CASE d # m[1]
    BY <1>9, <2>1
  <2>2. CASE d = m[1] /\ k # m[2]
    BY <1>6, <1>9, <2>2
  <2>3. CASE d = m[1] /\ k = m[2]
    BY <1>3, <1>4, <1>6, <1>9, <2>3
  <2> QED
    BY <2>1, <2>2, <2>3
<1> QED
  BY <1>10, <1>11, <1>12

\* addMethods replaces in place what the class has, and adds the rest before it.
LEMMA AddMethodsEffect ==
  ASSUME TypeInv, NEW c \in Classes, NEW new \in Implementations, NEW replace \in BOOLEAN, addMethods(c, new, replace)
  PROVE  /\ methods' \in [Classes -> Seq(List)] /\ \A d \in Classes : d # c => methods'[d] = methods[d]
         /\ \/ /\ cache' = flush(c)
               /\ Len(methods'[c]) = Len(methods[c]) + 1 /\ methods'[c][1].from = -1
               /\ \A k \in 1..Len(methods[c]) : methods'[c][k + 1].from = methods[c][k].from
            \/ /\ SameShape(methods[c], methods'[c])
               /\ \E olds : /\ cache' = flushOld(Subtree(c), olds)
                            /\ \A s \in Sels : HasIn(methods[c], s) /\ ImpIn(methods'[c], s) # ImpIn(methods[c], s) =>
                                 \E o \in olds : o.sel = s /\ o.imp = ImpIn(methods[c], s)
<1> DEFINE ls == methods[c]
           there == {s \in DOMAIN new : getMethodNoSuper_nolock(c, s) > 0}
           missing == DOMAIN new \ there
           g(k) == [s \in DOMAIN ls[k].imps |-> IF replace /\ s \in there /\ k = getMethodNoSuper_nolock(c, s)
                                                THEN new[s] ELSE ls[k].imps[s]]
           set == [k \in DOMAIN ls |-> [ls[k] EXCEPT !.imps = g(k)]]
           olds == IF replace THEN {[sel |-> s, imp |-> Imp(c, s)] : s \in there} ELSE {}
           list == [from |-> -1, imps |-> [s \in missing |-> new[s]]]
<1>0. /\ methods' = [methods EXCEPT ![c] = IF missing = {} THEN set ELSE <<list>> \o set]
      /\ cache' = IF missing = {} THEN flushOld(Subtree(c), olds) ELSE flush(c)
  BY DEF addMethods
<1>1. methods \in [Classes -> Seq(List)] /\ ls \in Seq(List)
  BY DEF TypeInv
<1>2. DOMAIN new \in SUBSET Sels /\ \A s \in DOMAIN new : new[s] \in Imps
  BY ImplementationsType
<1>3. ASSUME NEW k \in 1..Len(ls)
      PROVE  set[k] \in List /\ set[k].from = ls[k].from /\ set[k].imps = g(k) /\ DOMAIN g(k) = DOMAIN ls[k].imps
  <2>1. ls[k] \in List /\ k \in DOMAIN ls
    BY <1>1
  <2>2. \A s \in DOMAIN ls[k].imps : ls[k].imps[s] \in Imps
    BY <2>1, ListType
  <2>3. g(k) \in [DOMAIN ls[k].imps -> Imps]
    BY <1>2, <2>2
  <2>4. set[k] = [ls[k] EXCEPT !.imps = g(k)]
    BY <2>1
  <2> HIDE DEF g
  <2>5. DOMAIN g(k) = DOMAIN ls[k].imps
    BY <2>3
  <2> QED
    BY <2>1, <2>3, <2>4, <2>5, ReplacedList
<1>4. set \in Seq(List) /\ Len(set) = Len(ls)
  <2>1. DOMAIN ls = 1..Len(ls) /\ Len(ls) \in Nat
    BY <1>1
  <2>2. set \in [1..Len(ls) -> List]
    BY <1>3, <2>1
  <2> HIDE DEF set
  <2> QED
    BY <2>1, <2>2
<1>5. list \in List /\ list.from = -1
  <2>1. [s \in missing |-> new[s]] \in Implementations
    <3>1. missing \in SUBSET Sels /\ [s \in missing |-> new[s]] \in [missing -> Imps]
      BY <1>2
    <3> HIDE DEF missing
    <3> QED
      BY <3>1 DEF Implementations
  <2> QED
    BY <2>1 DEF List
<1>6. SameShape(ls, set)
  BY <1>3, <1>4 DEF SameShape
<1>7. CASE missing # {}
  <2> HIDE DEF set, list
  <2>1. <<list>> \o set \in Seq(List) /\ Len(<<list>> \o set) = Len(ls) + 1 /\ (<<list>> \o set)[1] = list
    BY <1>1, <1>4, <1>5
  <2>2. \A k \in 1..Len(ls) : (<<list>> \o set)[k + 1] = set[k]
    BY <1>1, <1>4, <1>5
  <2>3. methods' = [methods EXCEPT ![c] = <<list>> \o set] /\ cache' = flush(c)
    BY <1>0, <1>7
  <2>4. methods'[c] = <<list>> \o set /\ \A d \in Classes : d # c => methods'[d] = methods[d]
    BY <1>1, <2>3
  <2>5. methods' \in [Classes -> Seq(List)]
    BY <1>1, <2>1, <2>3
  <2> QED
    BY <1>3, <1>5, <2>1, <2>2, <2>3, <2>4, <2>5
<1>8. CASE missing = {}
  <2>1. methods' = [methods EXCEPT ![c] = set] /\ cache' = flushOld(Subtree(c), olds)
    BY <1>0, <1>8
  <2>2. methods' \in [Classes -> Seq(List)] /\ methods'[c] = set /\ \A d \in Classes : d # c => methods'[d] = methods[d]
    <3> HIDE DEF set
    <3> QED
      BY <1>1, <1>4, <2>1
  <2>3. ASSUME NEW s \in Sels, HasIn(ls, s), ImpIn(set, s) # ImpIn(ls, s)
        PROVE  \E o \in olds : o.sel = s /\ o.imp = ImpIn(ls, s)
    <3> DEFINE k == FirstOf(ls, s)
    <3>1. k \in 1..Len(ls) /\ s \in DOMAIN ls[k].imps /\ FirstOf(set, s) = k
      BY <1>1, <1>6, <2>3, FirstOfLists, SameShapeHas
    <3>2. ImpIn(set, s) = g(k)[s] /\ ImpIn(ls, s) = ls[k].imps[s]
      BY <1>3, <3>1 DEF ImpIn
    <3>3. replace /\ s \in there
      BY <2>3, <3>1, <3>2
    <3>4. Imp(c, s) = ImpIn(ls, s)
      BY LookupForms
    <3> DEFINE o == [sel |-> s, imp |-> Imp(c, s)]
    <3>5. o \in olds
      BY <3>3
    <3>6. o.sel = s /\ o.imp = ImpIn(ls, s)
      BY <3>4
    <3> HIDE DEF o, olds
    <3> QED
      BY <3>5, <3>6
  <2> HIDE DEF set, olds
  <2> QED
    BY <1>6, <2>1, <2>2, <2>3
<1> QED
  BY <1>7, <1>8

----------------------------------------------------------------------------
(* Steps that leave the calls alone.                                       *)

LEMMA QuietStep ==
  ASSUME IndInv, UNCHANGED <<program, call, asked>>, DOMAIN superclass' = Classes, Hierarchy(superclass'),
         methods' \in [Classes -> Seq(List)], unattached' \in [Classes -> Seq(List)],
         realized' \in SUBSET Classes, realized \subseteq realized', AllRealized',
         loaded' \in 0..Len(program.categories), initialized \subseteq initialized',
         CacheLoses, StillRight, LaterCategoriesWin'
  PROVE  IndInv'
<1>0. TypeInv /\ RealizeInv /\ CachesAgree /\ AskInv /\ Classes' = Classes
  BY DEF IndInv, Classes
<1>1. Calls' = Calls
  BY <1>0 DEF Calls
<1>2. TypeInv'
  BY <1>0, <1>1 DEF TypeInv, CacheLoses
<1>3. RealizeInv'
  <2>1. \A c \in Classes, s \in Sels : cache'[c][s] # NoImp => c \in realized'
    BY <1>0 DEF RealizeInv, CacheLoses
  <2>2. \A t \in Threads : call[t].pc = "resolver" => call[t].cls \in realized'
    BY <1>0 DEF RealizeInv
  <2> QED
    BY <1>0, <2>1, <2>2 DEF RealizeInv
<1>4. CachesAgree'
  BY <1>0, AgreeStays
<1>5. AskInv'
  <2>1. \A c \in Classes, s \in Sels : cache'[c][s] = forward_imp => cache[c][s] = forward_imp
    BY MethodLookupAssumption DEF CacheLoses
  <2> QED
    BY <1>0, <2>1 DEF AskInv
<1> QED
  BY <1>2, <1>3, <1>4, <1>5 DEF IndInv

\* The categories of F are attached, the youngest first, or wait, the oldest first.
Origins(ls) == {ls[k].from : k \in {k \in DOMAIN ls : ls[k].from > 0}}
Attached(ls, F) ==
  /\ F = Origins(ls)
  /\ \A k, l \in DOMAIN ls : k < l /\ ls[l].from > 0 => ls[k].from > ls[l].from \/ ls[k].from < 0
Waits(ls, F) ==
  /\ F = {ls[k].from : k \in DOMAIN ls}
  /\ \A k, l \in DOMAIN ls : k < l => ls[k].from < ls[l].from

LEMMA CategoryForms ==
  /\ LaterCategoriesWin <=>
       \A c \in Classes : IF c \in realized THEN Attached(methods[c], Loaded(c)) /\ unattached[c] = <<>>
                          ELSE Waits(unattached[c], Loaded(c)) /\ methods[c] = <<>>
  /\ LaterCategoriesWin' <=>
       \A c \in Classes' : IF c \in realized' THEN Attached(methods'[c], Loaded(c)') /\ unattached'[c] = <<>>
                           ELSE Waits(unattached'[c], Loaded(c)') /\ methods'[c] = <<>>
<1>1. LaterCategoriesWin <=>
       \A c \in Classes : IF c \in realized THEN Attached(methods[c], Loaded(c)) /\ unattached[c] = <<>>
                          ELSE Waits(unattached[c], Loaded(c)) /\ methods[c] = <<>>
  BY DEF LaterCategoriesWin, Attached, Waits, Origins
<1>2. LaterCategoriesWin' <=>
       \A c \in Classes' : IF c \in realized' THEN Attached(methods'[c], Loaded(c)') /\ unattached'[c] = <<>>
                           ELSE Waits(unattached'[c], Loaded(c)') /\ methods'[c] = <<>>
  BY DEF LaterCategoriesWin, Attached, Waits, Origins
<1> QED
  BY <1>1, <1>2

\* Lists that keep their origins keep their order.
LEMMA OriginsStay ==
  ASSUME NEW ls \in Seq(List), NEW new, SameShape(ls, new), NEW F, Attached(ls, F)
  PROVE  Attached(new, F)
<1>1. DOMAIN ls = 1..Len(ls) /\ DOMAIN new = 1..Len(ls) /\ \A k \in 1..Len(ls) : new[k].from = ls[k].from
  BY DEF SameShape
<1>2. Origins(new) = Origins(ls)
  BY <1>1 DEF Origins
<1> QED
  BY <1>1, <1>2 DEF Attached

\* So do those that a list of added methods is put before.
LEMMA ListAdded ==
  ASSUME NEW ls \in Seq(List), NEW new \in Seq(List), Len(new) = Len(ls) + 1, new[1].from = -1,
         \A k \in 1..Len(ls) : new[k + 1].from = ls[k].from, NEW F, Attached(ls, F)
  PROVE  Attached(new, F)
<1> DEFINE n == Len(ls)
<1>1. n \in Nat /\ DOMAIN ls = 1..n /\ DOMAIN new = 1..(n + 1)
  OBVIOUS
<1>3. \A k \in 2..(n + 1) : k - 1 \in 1..n /\ new[k].from = ls[k - 1].from
  <2> TAKE k \in 2..(n + 1)
  <2>1. k - 1 \in 1..n /\ (k - 1) + 1 = k
    BY <1>1
  <2> QED
    BY <2>1
<1>4. \A k \in 1..(n + 1) : new[k].from > 0 => k \in 2..(n + 1)
  BY <1>1
<1>5. \A k \in 1..n : k + 1 \in 1..(n + 1) /\ new[k + 1].from = ls[k].from
  BY <1>1
<1>6. Origins(new) = Origins(ls)
  <2>1. ASSUME NEW f \in Origins(new) PROVE f \in Origins(ls)
    <3>1. PICK k \in 1..(n + 1) : new[k].from > 0 /\ f = new[k].from
      BY <1>1 DEF Origins
    <3>2. k - 1 \in 1..n /\ f = ls[k - 1].from /\ ls[k - 1].from > 0
      BY <1>3, <1>4, <3>1
    <3> QED
      BY <1>1, <3>2 DEF Origins
  <2>2. ASSUME NEW f \in Origins(ls) PROVE f \in Origins(new)
    <3>1. PICK k \in 1..n : ls[k].from > 0 /\ f = ls[k].from
      BY <1>1 DEF Origins
    <3>2. k + 1 \in 1..(n + 1) /\ f = new[k + 1].from /\ new[k + 1].from > 0
      BY <1>5, <3>1
    <3> QED
      BY <1>1, <3>2 DEF Origins
  <2> QED
    BY <2>1, <2>2
<1>7. ASSUME NEW k \in 1..(n + 1), NEW l \in 1..(n + 1), k < l, new[l].from > 0
      PROVE  new[k].from > new[l].from \/ new[k].from < 0
  <2>1. CASE k = 1
    BY <2>1
  <2>2. CASE k # 1
    <3>1. k \in 2..(n + 1) /\ l \in 2..(n + 1) /\ k - 1 < l - 1
      BY <1>1, <1>7, <2>2
    <3>2. k - 1 \in 1..n /\ l - 1 \in 1..n /\ new[k].from = ls[k - 1].from /\ new[l].from = ls[l - 1].from
      BY <1>3, <3>1
    <3>3. ls[k - 1].from > ls[l - 1].from \/ ls[k - 1].from < 0
      BY <1>1, <1>7, <3>1, <3>2 DEF Attached
    <3> QED
      BY <3>2, <3>3
  <2> QED
    BY <2>1, <2>2
<1> QED
  BY <1>1, <1>6, <1>7 DEF Attached

\* A new order in one class.
LEMMA AttachedStays ==
  ASSUME LaterCategoriesWin, UNCHANGED <<program, unattached, realized, loaded>>, Classes' = Classes,
         NEW C \in SUBSET realized, \A d \in Classes \ C : methods'[d] = methods[d],
         \A c \in C \cap Classes : Attached(methods[c], Loaded(c)) => Attached(methods'[c], Loaded(c))
  PROVE  LaterCategoriesWin'
<1>1. \A c : Loaded(c)' = Loaded(c)
  BY DEF Loaded
<1> QED
  BY <1>1, CategoryForms

\* The method lists and caches after addMethods.
LEMMA AddMethodsKeeps ==
  ASSUME IndInv, NEW c \in realized, NEW new \in Implementations, NEW replace \in BOOLEAN, addMethods(c, new, replace),
         UNCHANGED <<program, superclass, unattached, realized, loaded>>
  PROVE  methods' \in [Classes -> Seq(List)] /\ CacheLoses /\ StillRight /\ LaterCategoriesWin'
<1>0. /\ TypeInv /\ RealizeInv /\ CachesAgree /\ LaterCategoriesWin /\ c \in Classes /\ Classes' = Classes /\ CacheType
      /\ methods \in [Classes -> Seq(List)] /\ realized \in SUBSET Classes
      /\ Hierarchy(superclass) /\ Hierarchy(superclass') /\ DOMAIN superclass' = Classes
  BY DEF IndInv, TypeInv, CacheType, Classes
<1>1. methods' \in [Classes -> Seq(List)] /\ \A d \in Classes : d # c => methods'[d] = methods[d]
  BY <1>0, AddMethodsEffect
<1>2. CASE /\ cache' = flush(c)
           /\ Len(methods'[c]) = Len(methods[c]) + 1 /\ methods'[c][1].from = -1
           /\ \A k \in 1..Len(methods[c]) : methods'[c][k + 1].from = methods[c][k].from
  <2>1. CacheLoses /\ \A d \in Classes, s \in Sels : cache'[d][s] # NoImp => d \notin Subtree(c)
    BY <1>0, <1>2, FlushLoses
  <2>2. StillRight
    BY <1>0, <1>1, <2>1, FlushAgrees
  <2>3. LaterCategoriesWin'
    <3>1. methods[c] \in Seq(List) /\ methods'[c] \in Seq(List) /\ {c} \in SUBSET realized
      BY <1>0, <1>1
    <3>2. Attached(methods[c], Loaded(c)) => Attached(methods'[c], Loaded(c))
      BY <1>2, <3>1, ListAdded
    <3> QED
      BY <1>0, <1>1, <3>1, <3>2, AttachedStays
  <2> QED
    BY <1>1, <2>1, <2>2, <2>3
<1>3. CASE /\ SameShape(methods[c], methods'[c])
           /\ \E olds : /\ cache' = flushOld(Subtree(c), olds)
                        /\ \A s \in Sels : HasIn(methods[c], s) /\ ImpIn(methods'[c], s) # ImpIn(methods[c], s) =>
                             \E o \in olds : o.sel = s /\ o.imp = ImpIn(methods[c], s)
  <2>1. PICK olds : /\ cache' = flushOld(Subtree(c), olds)
                    /\ \A s \in Sels : HasIn(methods[c], s) /\ ImpIn(methods'[c], s) # ImpIn(methods[c], s) =>
                         \E o \in olds : o.sel = s /\ o.imp = ImpIn(methods[c], s)
    BY <1>3
  <2>2. CacheLoses /\ \A d \in Classes, s \in Sels :
          cache'[d][s] # NoImp => d \notin Subtree(c) \/ \A o \in olds : cache[d][o.sel] # o.imp
    BY <1>0, <2>1, FlushOldLoses
  <2>3. \A d \in Classes : SameShape(methods[d], methods'[d])
    <3> TAKE d \in Classes
    <3>1. methods[d] \in Seq(List) /\ SameShape(methods[d], methods[d])
      BY <1>0 DEF SameShape
    <3> QED
      BY <1>1, <1>3, <3>1
  <2>4. \A d \in Classes, s \in Sels : HasIn(methods'[d], s) <=> HasIn(methods[d], s)
    BY <2>3, SameShapeHas
  <2>5. ASSUME NEW d \in Classes, NEW s \in Sels, HasIn(methods[d], s), ImpIn(methods'[d], s) # ImpIn(methods[d], s)
        PROVE  /\ \E o \in olds : o.sel = s /\ o.imp = ImpIn(methods[d], s)
               /\ \A e \in realized : d \in Lineage(e) => e \in Subtree(c)
    <3>1. d = c
      BY <1>1, <2>5
    <3> QED
      BY <2>1, <2>5, <3>1 DEF Subtree
  <2>6. StillRight
    <3>1. \A d \in Classes, s \in Sels : HasIn(methods[d], s) /\ ImpIn(methods'[d], s) # ImpIn(methods[d], s) =>
            /\ \E o \in olds : o.sel = s /\ o.imp = ImpIn(methods[d], s)
            /\ \A e \in realized : d \in Lineage(e) => e \in Subtree(c)
      BY <2>5
    <3>2. superclass' = superclass /\ TypeInv /\ RealizeInv /\ CachesAgree /\ CacheLoses
      BY <1>0, <2>2
    <3>3. \A d \in Classes, s \in Sels :
            cache'[d][s] # NoImp => d \notin Subtree(c) \/ \A o \in olds : cache[d][o.sel] # o.imp
      BY <2>2
    <3> QED
      BY ONLY <2>4, <3>1, <3>2, <3>3, FlushOldAgrees
  <2>7. LaterCategoriesWin'
    <3>1. methods[c] \in Seq(List) /\ {c} \in SUBSET realized
      BY <1>0
    <3>2. Attached(methods[c], Loaded(c)) => Attached(methods'[c], Loaded(c))
      BY <1>3, <3>1, OriginsStay
    <3> QED
      BY <1>0, <1>1, <3>1, <3>2, AttachedStays
  <2> QED
    BY <1>1, <2>2, <2>6, <2>7
<1> QED
  BY <1>0, <1>2, <1>3, AddMethodsEffect

----------------------------------------------------------------------------
(* Categories.                                                             *)

LEMMA AttachWaiting ==
  ASSUME NEW old \in Seq(List), \A k \in 1..Len(old) : old[k].from = 0, NEW cats \in Seq(List),
         NEW F \in SUBSET (Nat \ {0}), Waits(cats, F)
  PROVE  Attached(attachCategories(old, cats), F)
<1> DEFINE n == Len(cats)
           m == Len(old)
           new == attachCategories(old, cats)
<1>1. n \in Nat /\ m \in Nat /\ DOMAIN cats = 1..n
  OBVIOUS
<1>2. /\ new \in Seq(List) /\ Len(new) = n + m
      /\ \A k \in 1..n : new[k] = cats[n + 1 - k]
      /\ \A k \in 1..m : new[n + k] = old[k]
  <2>1. /\ attachCategories(old, cats) \in Seq(List)
        /\ Len(attachCategories(old, cats)) = Len(cats) + Len(old)
        /\ \A k \in 1..Len(cats) : attachCategories(old, cats)[k] = cats[Len(cats) + 1 - k]
        /\ \A k \in 1..Len(old) : attachCategories(old, cats)[Len(cats) + k] = old[k]
    BY ONLY old \in Seq(List), cats \in Seq(List), AttachReverses, ZenonT(60)
  <2> QED
    BY ONLY <2>1
<1> HIDE DEF new
<1>3. DOMAIN new = 1..(n + m)
  BY <1>1, <1>2
<1>4. \A k \in 1..n : n + 1 - k \in 1..n /\ new[k].from = cats[n + 1 - k].from /\ new[k].from \in F
  <2> TAKE k \in 1..n
  <2>1. n + 1 - k \in 1..n
    BY <1>1
  <2> QED
    BY <1>1, <1>2, <2>1 DEF Waits
<1>5. \A k \in 1..(n + m) : k \notin 1..n => new[k].from = 0
  <2> SUFFICES ASSUME NEW k \in 1..(n + m), k \notin 1..n PROVE new[k].from = 0
    OBVIOUS
  <2>1. k - n \in 1..m /\ n + (k - n) = k
    BY <1>1
  <2> QED
    BY <1>2, <2>1
<1>6. F = Origins(new)
  <2>1. ASSUME NEW f \in F PROVE f \in Origins(new)
    <3>1. PICK j \in 1..n : f = cats[j].from
      BY <1>1 DEF Waits
    <3>2. n + 1 - j \in 1..n /\ n + 1 - (n + 1 - j) = j /\ n + 1 - j \in 1..(n + m)
      BY <1>1
    <3>3. new[n + 1 - j].from = f /\ f > 0
      BY <1>4, <3>1, <3>2
    <3> QED
      BY <1>3, <3>2, <3>3 DEF Origins
  <2>2. ASSUME NEW f \in Origins(new) PROVE f \in F
    <3>1. PICK k \in 1..(n + m) : new[k].from > 0 /\ f = new[k].from
      BY <1>3 DEF Origins
    <3> QED
      BY <1>4, <1>5, <3>1
  <2> QED
    BY <2>1, <2>2
<1>7. ASSUME NEW k \in 1..(n + m), NEW l \in 1..(n + m), k < l, new[l].from > 0
      PROVE  new[k].from > new[l].from
  <2>1. l \in 1..n
    BY <1>5, <1>7
  <2>2. k \in 1..n /\ n + 1 - l < n + 1 - k
    BY <1>1, <1>7, <2>1
  <2>3. new[k].from = cats[n + 1 - k].from /\ new[l].from = cats[n + 1 - l].from /\ n + 1 - k \in 1..n /\ n + 1 - l \in 1..n
    BY <1>4, <2>1, <2>2
  <2>4. cats[n + 1 - l].from < cats[n + 1 - k].from
    BY <1>1, <2>2, <2>3 DEF Waits
  <2>5. new[k].from \in Nat /\ new[l].from \in Nat
    BY <1>4, <2>1, <2>2
  <2> QED
    BY <2>3, <2>4, <2>5
<1> QED
  BY <1>3, <1>6, <1>7 DEF Attached, new

LEMMA AttachOne ==
  ASSUME NEW old \in Seq(List), NEW l \in List, NEW F \in SUBSET Int, Attached(old, F),
         l.from > 0, \A f \in F : f < l.from
  PROVE  attachCategories(old, <<l>>) \in Seq(List) /\ Attached(attachCategories(old, <<l>>), F \cup {l.from})
<1> DEFINE m == Len(old)
           new == attachCategories(old, <<l>>)
<1>0. <<l>> \in Seq(List) /\ Len(<<l>>) = 1 /\ <<l>>[1] = l /\ l.from \in Int
  BY DEF List
<1>1. m \in Nat /\ DOMAIN old = 1..m
  OBVIOUS
<1>2. /\ new \in Seq(List) /\ Len(new) = 1 + m
      /\ \A k \in 1..1 : new[k] = <<l>>[1 + 1 - k]
      /\ \A k \in 1..m : new[1 + k] = old[k]
  <2> DEFINE cats == <<l>>
  <2>0. old \in Seq(List) /\ cats \in Seq(List)
    BY <1>0
  <2> HIDE DEF cats
  <2>1. /\ attachCategories(old, cats) \in Seq(List)
        /\ Len(attachCategories(old, cats)) = Len(cats) + Len(old)
        /\ \A k \in 1..Len(cats) : attachCategories(old, cats)[k] = cats[Len(cats) + 1 - k]
        /\ \A k \in 1..Len(old) : attachCategories(old, cats)[Len(cats) + k] = old[k]
    BY ONLY <2>0, AttachReverses
  <2>2. Len(cats) = 1
    BY DEF cats
  <2> QED
    BY ONLY <2>1, <2>2 DEF cats
<1> HIDE DEF new
<1>3. DOMAIN new = 1..(m + 1) /\ new[1] = l
  BY <1>0, <1>1, <1>2
<1>4. \A k \in 2..(m + 1) : k - 1 \in 1..m /\ new[k] = old[k - 1]
  <2> TAKE k \in 2..(m + 1)
  <2>1. k - 1 \in 1..m /\ 1 + (k - 1) = k
    BY <1>1
  <2> QED
    BY <1>2, <2>1
<1>5. F \cup {l.from} = Origins(new)
  <2>1. ASSUME NEW f \in F PROVE f \in Origins(new)
    <3>1. PICK k \in 1..m : old[k].from > 0 /\ f = old[k].from
      BY <1>1 DEF Attached, Origins
    <3>2. 1 + k \in 1..(m + 1) /\ new[1 + k] = old[k]
      BY <1>1, <1>2
    <3> QED
      BY <1>3, <3>1, <3>2 DEF Origins
  <2>2. l.from \in Origins(new)
    BY <1>1, <1>3 DEF Origins
  <2>3. ASSUME NEW f \in Origins(new) PROVE f \in F \cup {l.from}
    <3>1. PICK k \in 1..(m + 1) : new[k].from > 0 /\ f = new[k].from
      BY <1>3 DEF Origins
    <3>2. CASE k = 1
      BY <1>3, <3>1, <3>2
    <3>3. CASE k # 1
      <4>1. k \in 2..(m + 1)
        BY <1>1, <3>3
      <4>2. k - 1 \in DOMAIN old /\ old[k - 1].from > 0 /\ f = old[k - 1].from
        BY <1>1, <1>4, <3>1, <4>1
      <4> QED
        BY <4>2 DEF Attached, Origins
    <3> QED
      BY <3>2, <3>3
  <2> QED
    BY <2>1, <2>2, <2>3
<1>6. ASSUME NEW j \in 1..(m + 1), NEW k \in 1..(m + 1), j < k, new[k].from > 0
      PROVE  new[j].from > new[k].from \/ new[j].from < 0
  <2>1. k \in 2..(m + 1) /\ k - 1 \in 1..m /\ new[k] = old[k - 1]
    BY <1>1, <1>4, <1>6
  <2>2. CASE j = 1
    <3>1. old[k - 1].from \in F
      BY <1>1, <1>6, <2>1 DEF Attached, Origins
    <3> QED
      BY <1>0, <1>3, <2>1, <2>2, <3>1
  <2>3. CASE j # 1
    <3>1. j \in 2..(m + 1) /\ j - 1 \in 1..m /\ new[j] = old[j - 1] /\ j - 1 < k - 1
      BY <1>1, <1>4, <1>6, <2>1, <2>3
    <3> QED
      BY <1>1, <1>6, <2>1, <3>1 DEF Attached
  <2> QED
    BY <2>2, <2>3
<1>7. Attached(new, F \cup {l.from})
  BY <1>3, <1>5, <1>6 DEF Attached
<1> QED
  BY <1>2, <1>7 DEF new

LEMMA WaitOne ==
  ASSUME NEW ls \in Seq(List), NEW l \in List, NEW F \in SUBSET Int, Waits(ls, F), \A f \in F : f < l.from
  PROVE  Append(ls, l) \in Seq(List) /\ Waits(Append(ls, l), F \cup {l.from})
<1> DEFINE n == Len(ls)
           new == Append(ls, l)
<1>1. /\ n \in Nat /\ DOMAIN ls = 1..n /\ new \in Seq(List) /\ DOMAIN new = 1..(n + 1)
      /\ new[n + 1] = l /\ \A k \in 1..n : new[k] = ls[k]
  OBVIOUS
<1> HIDE DEF new
<1>2. \A k \in 1..n : ls[k].from \in F
  BY <1>1 DEF Waits
<1>3. F \cup {l.from} = {new[k].from : k \in DOMAIN new}
  <2>1. ASSUME NEW f \in F PROVE f \in {new[k].from : k \in DOMAIN new}
    <3>1. PICK k \in 1..n : f = ls[k].from
      BY <1>1 DEF Waits
    <3>2. k \in DOMAIN new /\ new[k].from = f
      BY <1>1, <3>1
    <3> QED
      BY <3>2
  <2>2. l.from \in {new[k].from : k \in DOMAIN new}
    <3>1. n + 1 \in DOMAIN new
      BY <1>1
    <3> QED
      BY <1>1, <3>1
  <2>3. ASSUME NEW k \in DOMAIN new PROVE new[k].from \in F \cup {l.from}
    <3>1. k \in 1..n \/ k = n + 1
      BY <1>1
    <3> QED
      BY <1>1, <1>2, <3>1
  <2> QED
    BY <2>1, <2>2, <2>3
<1>4. ASSUME NEW j \in DOMAIN new, NEW k \in DOMAIN new, j < k PROVE new[j].from < new[k].from
  <2>1. j \in 1..n
    BY <1>1, <1>4
  <2>2. CASE k = n + 1
    BY <1>1, <1>2, <2>1, <2>2
  <2>3. CASE k # n + 1
    <3>1. k \in 1..n
      BY <1>1, <2>3
    <3> QED
      BY <1>1, <1>4, <2>1, <3>1 DEF Waits
  <2> QED
    BY <2>2, <2>3
<1>5. Waits(new, F \cup {l.from})
  BY <1>3, <1>4 DEF Waits
<1> QED
  BY <1>1, <1>5 DEF new

\* What QuietStep needs of a step that changes no class but its methods.
LEMMA QuietTypes ==
  ASSUME IndInv, UNCHANGED superclass
  PROVE  /\ TypeInv /\ RealizeInv /\ CachesAgree /\ LaterCategoriesWin /\ CacheType
         /\ DOMAIN superclass' = Classes /\ Classes' = Classes /\ Hierarchy(superclass) /\ Hierarchy(superclass')
         /\ methods \in [Classes -> Seq(List)] /\ unattached \in [Classes -> Seq(List)] /\ realized \in SUBSET Classes
         /\ loaded \in 0..Len(program.categories)
         /\ UNCHANGED realized => AllRealized'
<1>1. TypeInv /\ RealizeInv /\ CachesAgree /\ LaterCategoriesWin /\ Classes' = Classes
  BY DEF IndInv, Classes
<1>2. UNCHANGED realized => AllRealized'
  BY <1>1 DEF RealizeInv, AllRealized, Closed, WithMetas
<1> QED
  BY <1>1, <1>2 DEF TypeInv, CacheType, Classes

LEMMA SeqElement ==
  ASSUME NEW S, NEW q \in Seq(S), NEW i \in 1..Len(q)
  PROVE  q[i] \in S
OBVIOUS

\* A category l of the class c is loaded.
LEMMA CategoryKeeps ==
  ASSUME IndInv, NEW c \in Classes, NEW l \in List, l.from = loaded + 1, program.categories[loaded + 1].cls = c,
         loaded < Len(program.categories), loaded' = loaded + 1,
         \/ c \in realized /\ methods' = [methods EXCEPT ![c] = attachCategories(methods[c], <<l>>)]
            /\ cache' = flush(c) /\ UNCHANGED unattached
         \/ c \notin realized /\ unattached' = [unattached EXCEPT ![c] = Append(unattached[c], l)]
            /\ UNCHANGED <<methods, cache>>,
         UNCHANGED <<program, superclass, realized, initialized, call, asked>>
  PROVE  IndInv'
<1>0. UNCHANGED <<program, superclass, realized, initialized, call, asked>>
  OBVIOUS
<1>1. /\ TypeInv /\ RealizeInv /\ CachesAgree /\ LaterCategoriesWin /\ CacheType
      /\ DOMAIN superclass' = Classes /\ Classes' = Classes /\ Hierarchy(superclass) /\ Hierarchy(superclass')
      /\ methods \in [Classes -> Seq(List)] /\ unattached \in [Classes -> Seq(List)] /\ realized \in SUBSET Classes
      /\ loaded \in 0..Len(program.categories) /\ AllRealized'
  BY <1>0, QuietTypes
<1>2. program.categories \in Seq([cls : Classes, imps : Implementations])
  BY <1>1, ProgramType
<1>3. loaded \in Nat /\ loaded + 1 \in 1..Len(program.categories) /\ loaded' \in 0..Len(program.categories)
  BY <1>1, <1>2
<1>5. c \in Classes /\ l \in List /\ l.from = loaded + 1
  OBVIOUS
<1>6. /\ Loaded(c)' = Loaded(c) \cup {l.from}
      /\ \A d \in Classes : d # c => Loaded(d)' = Loaded(d)
      /\ \A d : Loaded(d) \in SUBSET Int /\ \A f \in Loaded(d) : f < l.from
  <2>1. 1..(loaded + 1) = 1..loaded \cup {loaded + 1}
    BY <1>3
  <2>2. \A d : Loaded(d)' = {f \in 1..(loaded + 1) : program.categories[f].cls = d}
    BY <1>0 DEF Loaded
  <2>3. \A d : Loaded(d) \in SUBSET Int /\ \A f \in Loaded(d) : f < l.from
    BY <1>3, <1>5 DEF Loaded
  <2>4. \A d : Loaded(d)' = IF d = c THEN Loaded(d) \cup {loaded + 1} ELSE Loaded(d)
    BY <2>1, <2>2 DEF Loaded
  <2> QED
    BY <1>5, <2>3, <2>4
<1>7. CASE c \in realized
  <2>1. /\ methods' = [methods EXCEPT ![c] = attachCategories(methods[c], <<l>>)]
        /\ cache' = flush(c) /\ UNCHANGED unattached
    BY <1>7
  <2>2. methods[c] \in Seq(List) /\ Attached(methods[c], Loaded(c)) /\ l.from > 0
    BY <1>1, <1>3, <1>5, <1>7, CategoryForms
  <2>3. /\ attachCategories(methods[c], <<l>>) \in Seq(List)
        /\ Attached(attachCategories(methods[c], <<l>>), Loaded(c) \cup {l.from})
    BY <1>5, <1>6, <2>2, AttachOne
  <2>4. methods'[c] = attachCategories(methods[c], <<l>>) /\ \A d \in Classes : d # c => methods'[d] = methods[d]
    BY <1>1, <1>5, <2>1
  <2>5. methods' \in [Classes -> Seq(List)]
    BY <1>1, <2>1, <2>3
  <2>6. CacheLoses /\ \A d \in Classes, s \in Sels : cache'[d][s] # NoImp => d \notin Subtree(c)
    BY <1>1, <2>1, FlushLoses
  <2>7. StillRight
    BY <1>0, <1>1, <2>4, <2>6, FlushAgrees, ZenonT(60)
  <2>8. LaterCategoriesWin'
    <3> SUFFICES ASSUME NEW d \in Classes
                 PROVE  IF d \in realized THEN Attached(methods'[d], Loaded(d)') /\ unattached[d] = <<>>
                        ELSE Waits(unattached[d], Loaded(d)') /\ methods'[d] = <<>>
      BY <1>0, <1>1, <2>1, CategoryForms
    <3>1. IF d \in realized THEN Attached(methods[d], Loaded(d)) /\ unattached[d] = <<>>
          ELSE Waits(unattached[d], Loaded(d)) /\ methods[d] = <<>>
      BY <1>1, CategoryForms
    <3>2. CASE d = c
      <4>1. Attached(methods'[d], Loaded(d)') /\ unattached[d] = <<>> /\ d \in realized
        BY <1>6, <1>7, <2>3, <2>4, <3>1, <3>2
      <4> QED
        BY <4>1
    <3>3. CASE d # c
      BY <1>6, <2>4, <3>1, <3>3
    <3> QED
      BY <3>2, <3>3
  <2> QED
    BY <1>0, <1>1, <1>3, <2>1, <2>5, <2>6, <2>7, <2>8, QuietStep
<1>8. CASE c \notin realized
  <2>1. unattached' = [unattached EXCEPT ![c] = Append(unattached[c], l)] /\ UNCHANGED <<methods, cache>>
    BY <1>8
  <2>2. unattached[c] \in Seq(List) /\ Waits(unattached[c], Loaded(c))
    BY <1>1, <1>5, <1>8, CategoryForms
  <2>3. Append(unattached[c], l) \in Seq(List) /\ Waits(Append(unattached[c], l), Loaded(c) \cup {l.from})
    BY <1>5, <1>6, <2>2, WaitOne
  <2>4. unattached'[c] = Append(unattached[c], l) /\ \A d \in Classes : d # c => unattached'[d] = unattached[d]
    BY <1>1, <1>5, <2>1
  <2>5. unattached' \in [Classes -> Seq(List)]
    BY <1>1, <2>1, <2>3
  <2>6. CacheLoses /\ StillRight
    BY <1>0, <1>1, <2>1, UnchangedLoses, UnchangedRight
  <2>7. LaterCategoriesWin'
    <3> SUFFICES ASSUME NEW d \in Classes
                 PROVE  IF d \in realized THEN Attached(methods[d], Loaded(d)') /\ unattached'[d] = <<>>
                        ELSE Waits(unattached'[d], Loaded(d)') /\ methods[d] = <<>>
      BY <1>0, <1>1, <2>1, CategoryForms
    <3>1. IF d \in realized THEN Attached(methods[d], Loaded(d)) /\ unattached[d] = <<>>
          ELSE Waits(unattached[d], Loaded(d)) /\ methods[d] = <<>>
      BY <1>1, CategoryForms
    <3>2. CASE d = c
      <4>1. Waits(unattached'[d], Loaded(d)') /\ methods[d] = <<>> /\ d \notin realized
        BY <1>6, <1>8, <2>3, <2>4, <3>1, <3>2
      <4> QED
        BY <4>1
    <3>3. CASE d # c
      BY <1>6, <2>4, <3>1, <3>3
    <3> QED
      BY <3>2, <3>3
  <2> QED
    BY <1>0, <1>1, <1>3, <2>1, <2>5, <2>6, <2>7, QuietStep
<1> QED
  BY <1>7, <1>8

LEMMA LoadCategoryKeeps ==
  ASSUME IndInv, load_categories_nolock
  PROVE  IndInv'
<1> DEFINE cat == program.categories[loaded + 1]
           l == [from |-> loaded + 1, imps |-> cat.imps]
<1>0. TypeInv /\ loaded < Len(program.categories)
  BY DEF IndInv, load_categories_nolock
<1>1. program.categories \in Seq([cls : Classes, imps : Implementations])
  BY <1>0, ProgramType
<1>2. loaded \in Nat /\ loaded + 1 \in 1..Len(program.categories)
  BY <1>0, <1>1 DEF TypeInv
<1>3. cat \in [cls : Classes, imps : Implementations]
  <2> HIDE DEF cat
  <2>1. program.categories[loaded + 1] \in [cls : Classes, imps : Implementations]
    BY ONLY <1>1, <1>2, SeqElement
  <2> QED
    BY <2>1 DEF cat
<1>4. cat.cls \in Classes /\ l \in List /\ l.from = loaded + 1
  BY <1>2, <1>3 DEF List
<1>5. /\ loaded' = loaded + 1
      /\ \/ cat.cls \in realized /\ methods' = [methods EXCEPT ![cat.cls] = attachCategories(methods[cat.cls], <<l>>)]
            /\ cache' = flush(cat.cls) /\ UNCHANGED unattached
         \/ cat.cls \notin realized /\ unattached' = [unattached EXCEPT ![cat.cls] = Append(unattached[cat.cls], l)]
            /\ UNCHANGED <<methods, cache>>
      /\ UNCHANGED <<program, superclass, realized, initialized, call, asked>>
  BY DEF load_categories_nolock
<1>6. program.categories[loaded + 1].cls = cat.cls
  OBVIOUS
<1> HIDE DEF l, cat
<1> QED
  BY <1>0, <1>4, <1>5, <1>6, CategoryKeeps

\* The superclasses and metaclasses of what is realized are realized with it.
LEMMA RealizedWithClosed ==
  ASSUME TypeInv, NEW c \in Classes
  PROVE  /\ RealizedWith(c) \in SUBSET Classes
         /\ Closed(RealizedWith(c)) /\ WithMetas(RealizedWith(c))
<1>1. \A d \in Classes : superclass[d] # NoClass => superclass[d] \in Classes
  BY DEF TypeInv, Hierarchy, Classes
<1>2. Closed(RealizedWith(c))
  BY <1>1 DEF RealizedWith, Closed
<1>3. WithMetas(RealizedWith(c))
  BY DEF RealizedWith, WithMetas
<1> QED
  BY <1>2, <1>3 DEF RealizedWith

\* A program with a metaclass has its class.
LEMMA NonMetaType ==
  ASSUME TypeInv, NEW m \in Classes \cap Metaclasses
  PROVE  NonMeta[m] \in Classes
<1>1. /\ program \in Programs /\ Classes = DOMAIN program.superclass
  BY DEF TypeInv
<1>2. \/ Classes \cap Metaclasses = {}
      \/ {NonMeta[d] : d \in Classes \cap Metaclasses} = Classes \ Metaclasses
  BY <1>1, ProgramsAssumption
<1>3. NonMeta[m] \in {NonMeta[d] : d \in Classes \cap Metaclasses}
  OBVIOUS
<1> QED
  BY <1>2, <1>3

LEMMA RealizeKeeps ==
  ASSUME IndInv, NEW t \in Threads, Realize(t)
  PROVE  IndInv'
<1> DEFINE c == IF call[t].cls \in realized THEN nonmeta(call[t].cls) ELSE call[t].cls
           new == RealizedWith(c) \ realized
<1>0. /\ call[t].pc = "lookup" /\ realized' = realized \cup new
      /\ methods' = [d \in Classes |-> IF d \in new THEN attachCategories(Own(d), unattached[d]) ELSE methods[d]]
      /\ unattached' = [d \in Classes |-> IF d \in new THEN <<>> ELSE unattached[d]]
      /\ UNCHANGED <<program, superclass, initialized, cache, loaded, changes, call, asked>>
  BY DEF Realize, realizeClassWithoutSwift
<1>1. /\ TypeInv /\ RealizeInv /\ CachesAgree /\ LaterCategoriesWin /\ CacheType
      /\ DOMAIN superclass' = Classes /\ Classes' = Classes /\ Hierarchy(superclass) /\ Hierarchy(superclass')
      /\ methods \in [Classes -> Seq(List)] /\ unattached \in [Classes -> Seq(List)] /\ realized \in SUBSET Classes
      /\ loaded \in 0..Len(program.categories)
  BY <1>0, QuietTypes
<1>2. c \in Classes
  <2>1. call[t].cls \in Classes
    BY <1>0, <1>1 DEF TypeInv
  <2> QED
    BY <1>1, <2>1, NonMetaType DEF nonmeta
<1> HIDE DEF c
<1>3. RealizedWith(c) \in SUBSET Classes /\ Closed(RealizedWith(c)) /\ WithMetas(RealizedWith(c))
  BY <1>1, <1>2, RealizedWithClosed
<1>4. realized' \in SUBSET Classes /\ realized \subseteq realized' /\ AllRealized'
  <2>1. Closed(realized) /\ WithMetas(realized) /\ realized' = realized \cup RealizedWith(c)
    BY <1>0, <1>1 DEF RealizeInv, AllRealized
  <2>2. Closed(realized)'
    BY <1>0, <1>1, <1>3, <2>1 DEF Closed
  <2>3. WithMetas(realized)'
    BY <1>0, <1>1, <1>3, <2>1 DEF WithMetas
  <2> QED
    BY <1>0, <1>1, <1>3, <2>1, <2>2, <2>3 DEF AllRealized
<1> HIDE DEF new
<1>5. ASSUME NEW d \in Classes
      PROVE  /\ Own(d) \in Seq(List) /\ \A k \in 1..Len(Own(d)) : Own(d)[k].from = 0
             /\ attachCategories(Own(d), unattached[d]) \in Seq(List)
  <2>1. program.base[d] \in Implementations
    BY <1>1, ProgramType
  <2>2. BaseList(d) \in List /\ BaseList(d).from = 0
    BY <2>1 DEF BaseList, List
  <2>3. Own(d) \in Seq(List) /\ \A k \in 1..Len(Own(d)) : Own(d)[k].from = 0
    <3>1. CASE Own(d) = <<>>
      BY <3>1
    <3>2. CASE Own(d) = <<BaseList(d)>>
      BY <2>2, <3>2
    <3> QED
      BY <3>1, <3>2 DEF Own
  <2>4. unattached[d] \in Seq(List)
    BY <1>1
  <2>5. attachCategories(Own(d), unattached[d]) \in Seq(List)
    BY <2>3, <2>4, AttachReverses
  <2> QED
    BY <2>3, <2>5
<1>6. methods' \in [Classes -> Seq(List)] /\ unattached' \in [Classes -> Seq(List)]
  <2>1. <<>> \in Seq(List)
    OBVIOUS
  <2> QED
    BY <1>0, <1>1, <1>5, <2>1
<1>7. CacheLoses
  BY <1>0, <1>1, UnchangedLoses
<1>8. StillRight
  <2> SUFFICES ASSUME NEW d \in Classes, NEW s \in Sels, cache[d][s] # NoImp
               PROVE  Answer(superclass', methods', d, s) = Answer(superclass, methods, d, s)
    BY <1>0 DEF StillRight
  <2>1. d \in realized /\ IsClosed(superclass, realized)
    BY <1>1 DEF RealizeInv, AllRealized, Closed, IsClosed
  <2>2. Up(superclass, d) \subseteq realized
    BY <1>1, <2>1, UpIsLeast DEF Classes
  <2>3. \A e \in Up(superclass, d) : methods'[e] = methods[e] /\ superclass'[e] = superclass[e]
    BY <1>0, <1>1, <2>2 DEF new
  <2>4. \A e \in Holders(superclass, methods, d, s) : methods'[e] = methods[e]
    BY <2>3 DEF Holders
  <2>5. d \in DOMAIN superclass /\ DOMAIN superclass' = DOMAIN superclass
    BY <1>1 DEF Classes
  <2>6. \A e \in Up(superclass, d) : superclass'[e] = superclass[e] /\ (HasIn(methods'[e], s) <=> HasIn(methods[e], s))
    BY <2>3
  <2>7. \A e \in Holders(superclass, methods, d, s) :
          Answer(superclass, methods, d, s) = ImpIn(methods[e], s) => ImpIn(methods'[e], s) = ImpIn(methods[e], s)
    BY <2>4
  <2>8. Hierarchy(superclass) /\ Hierarchy(superclass')
    BY <1>1
  <2> QED
    BY ONLY <2>5, <2>6, <2>7, <2>8, AnswerStays
<1>9. LaterCategoriesWin'
  <2>0. \A d : Loaded(d)' = Loaded(d)
    BY <1>0 DEF Loaded
  <2> SUFFICES ASSUME NEW d \in Classes
               PROVE  IF d \in realized' THEN Attached(methods'[d], Loaded(d)) /\ unattached'[d] = <<>>
                      ELSE Waits(unattached'[d], Loaded(d)) /\ methods'[d] = <<>>
    BY <1>1, <2>0, CategoryForms
  <2>1. IF d \in realized THEN Attached(methods[d], Loaded(d)) /\ unattached[d] = <<>>
        ELSE Waits(unattached[d], Loaded(d)) /\ methods[d] = <<>>
    BY <1>1, CategoryForms
  <2>2. CASE d \notin new
    <3>1. methods'[d] = methods[d] /\ unattached'[d] = unattached[d] /\ (d \in realized' <=> d \in realized)
      BY <1>0, <2>2
    <3> QED
      BY <2>1, <3>1
  <2>3. CASE d \in new
    <3>1. methods'[d] = attachCategories(Own(d), unattached[d]) /\ unattached'[d] = <<>> /\ d \in realized' /\ d \notin realized
      BY <1>0, <2>3 DEF new
    <3>2. Waits(unattached[d], Loaded(d)) /\ unattached[d] \in Seq(List)
      BY <1>1, <2>1, <3>1
    <3>3. Loaded(d) \in SUBSET (Nat \ {0})
      BY <1>1 DEF Loaded
    <3>4. Attached(attachCategories(Own(d), unattached[d]), Loaded(d))
      BY <1>5, <3>2, <3>3, AttachWaiting
    <3> QED
      BY <3>1, <3>4
  <2> QED
    BY <2>2, <2>3
<1> QED
  BY <1>0, <1>1, <1>4, <1>6, <1>7, <1>8, <1>9, QuietStep

----------------------------------------------------------------------------
(* Changing methods.                                                       *)

LEMMA InitializeKeeps ==
  ASSUME IndInv, NEW t \in Threads, Initialize(t)
  PROVE  IndInv'
<1>0. /\ initialized \subseteq initialized'
      /\ UNCHANGED <<program, superclass, methods, unattached, realized, loaded, cache, changes, call, asked>>
  BY DEF Initialize, lists
<1>1. /\ TypeInv /\ LaterCategoriesWin /\ DOMAIN superclass' = Classes /\ Classes' = Classes /\ Hierarchy(superclass')
      /\ methods \in [Classes -> Seq(List)] /\ unattached \in [Classes -> Seq(List)] /\ realized \in SUBSET Classes
      /\ loaded \in 0..Len(program.categories) /\ AllRealized'
  BY <1>0, QuietTypes
<1>2. CacheLoses /\ StillRight
  BY <1>0, <1>1, UnchangedLoses, UnchangedRight
<1>3. LaterCategoriesWin'
  <2>1. {} \in SUBSET realized /\ \A d \in Classes \ {} : methods'[d] = methods[d]
    BY <1>0
  <2> QED
    BY <1>0, <1>1, <2>1, AttachedStays
<1> QED
  BY <1>0, <1>1, <1>2, <1>3, QuietStep

LEMMA AddsKeep ==
  ASSUME IndInv, NEW c \in realized, NEW new \in NewMethods, NEW replace \in BOOLEAN, class_addMethods(c, new, replace)
  PROVE  IndInv'
<1>0. /\ addMethods(c, new, replace)
      /\ UNCHANGED <<program, superclass, unattached, realized, initialized, loaded, call, asked>>
  BY DEF class_addMethods, Quiet
<1>1. /\ TypeInv /\ DOMAIN superclass' = Classes /\ Hierarchy(superclass')
      /\ unattached \in [Classes -> Seq(List)] /\ realized \in SUBSET Classes
      /\ loaded \in 0..Len(program.categories) /\ AllRealized'
  BY <1>0, QuietTypes
<1>2. new \in Implementations
  <2>1. program.messages \subseteq Classes \X Sels
    BY <1>1, ProgramType
  <2>2. {m[2] : m \in program.messages} \subseteq Sels
    BY <2>1
  <2> DEFINE T == {m[2] : m \in program.messages}
  <2>3. T \subseteq Sels
    BY <2>2
  <2>4. new \in UNION {[ss -> Imps] : ss \in (SUBSET T) \ {{}}}
    BY DEF NewMethods, Sent
  <2> HIDE DEF T
  <2>5. PICK ss \in SUBSET T : new \in [ss -> Imps]
    BY <2>4
  <2>6. ss \in SUBSET Sels
    BY <2>3
  <2> QED
    BY <2>5, <2>6 DEF Implementations
<1>3. methods' \in [Classes -> Seq(List)] /\ CacheLoses /\ StillRight /\ LaterCategoriesWin'
  BY <1>0, <1>2, AddMethodsKeeps
<1> QED
  BY <1>0, <1>1, <1>3, QuietStep

\* Implementations are replaced where they are, and no cache keeps one of the old.
LEMMA ReplacedKeeps ==
  ASSUME IndInv, Quiet, methods' \in [Classes -> Seq(List)], \A d \in Classes : SameShape(methods[d], methods'[d]),
         \A d \in Classes \ realized : methods'[d] = methods[d], NEW olds, cache' = flushOld(realized, olds),
         \A d \in Classes : \A k \in 1..Len(methods[d]) : \A s \in DOMAIN methods[d][k].imps :
           methods'[d][k].imps[s] # methods[d][k].imps[s] =>
             \E o \in olds : o.sel = s /\ o.imp = methods[d][k].imps[s]
  PROVE  IndInv'
<1>0. UNCHANGED <<program, superclass, unattached, realized, initialized, loaded, call, asked>>
  BY DEF Quiet
<1>1. /\ TypeInv /\ RealizeInv /\ CachesAgree /\ LaterCategoriesWin /\ CacheType
      /\ DOMAIN superclass' = Classes /\ Classes' = Classes /\ Hierarchy(superclass) /\ Hierarchy(superclass')
      /\ methods \in [Classes -> Seq(List)] /\ unattached \in [Classes -> Seq(List)] /\ realized \in SUBSET Classes
      /\ loaded \in 0..Len(program.categories) /\ AllRealized'
  BY <1>0, QuietTypes
<1>2. CacheLoses /\ \A d \in Classes, s \in Sels :
        cache'[d][s] # NoImp => d \notin realized \/ \A o \in olds : cache[d][o.sel] # o.imp
  BY <1>1, FlushOldLoses
<1>3. \A d \in Classes, s \in Sels : HasIn(methods'[d], s) <=> HasIn(methods[d], s)
  BY SameShapeHas
<1>4. ASSUME NEW d \in Classes, NEW s \in Sels, HasIn(methods[d], s), ImpIn(methods'[d], s) # ImpIn(methods[d], s)
      PROVE  \E o \in olds : o.sel = s /\ o.imp = ImpIn(methods[d], s)
  <2> DEFINE k == FirstOf(methods[d], s)
  <2>1. methods[d] \in Seq(List)
    BY <1>1
  <2>2. k \in 1..Len(methods[d]) /\ s \in DOMAIN methods[d][k].imps
    BY <1>4, <2>1, FirstOfLists
  <2>3. FirstOf(methods'[d], s) = k
    BY SameShapeHas
  <2>4. ImpIn(methods'[d], s) = methods'[d][k].imps[s] /\ ImpIn(methods[d], s) = methods[d][k].imps[s]
    BY <2>3 DEF ImpIn
  <2> QED
    BY <1>4, <2>2, <2>4
<1>5. StillRight
  <2> DEFINE top == realized
  <2> HIDE DEF top
  <2>1. \A d \in Classes, s \in Sels : HasIn(methods[d], s) /\ ImpIn(methods'[d], s) # ImpIn(methods[d], s) =>
          /\ \E o \in olds : o.sel = s /\ o.imp = ImpIn(methods[d], s)
          /\ \A e \in realized : d \in Lineage(e) => e \in top
    BY <1>4 DEF top
  <2>2. superclass' = superclass /\ TypeInv /\ RealizeInv /\ CachesAgree /\ CacheLoses
    BY <1>0, <1>1, <1>2
  <2>3. \A d \in Classes, s \in Sels :
          cache'[d][s] # NoImp => d \notin top \/ \A o \in olds : cache[d][o.sel] # o.imp
    BY <1>2 DEF top
  <2> QED
    BY ONLY <1>3, <2>1, <2>2, <2>3, FlushOldAgrees
<1>6. LaterCategoriesWin'
  <2>1. \A c \in realized \cap Classes : Attached(methods[c], Loaded(c)) => Attached(methods'[c], Loaded(c))
    <3> SUFFICES ASSUME NEW c \in Classes, Attached(methods[c], Loaded(c)) PROVE Attached(methods'[c], Loaded(c))
      OBVIOUS
    <3>1. methods[c] \in Seq(List) /\ SameShape(methods[c], methods'[c])
      BY <1>1
    <3> QED
      BY <3>1, OriginsStay
  <2>2. realized \in SUBSET realized /\ UNCHANGED <<program, unattached, realized, loaded>>
    BY <1>0
  <2> QED
    BY <1>1, <2>1, <2>2, AttachedStays
<1> QED
  BY <1>0, <1>1, <1>2, <1>5, <1>6, QuietStep

\* What is known of a Method that a client has.
LEMMA MethodType ==
  ASSUME TypeInv, NEW m \in Methods
  PROVE  /\ IsMethod(methods, m) /\ m[1] \in realized /\ m[3] \in Sels /\ imp(m) \in Imps
         /\ Old(m).sel = m[3] /\ Old(m).imp = methods[m[1]][m[2]].imps[m[3]]
<1>1. /\ m \in realized \X (1..MaxLists) \X Sels
      /\ m[2] \in DOMAIN methods[m[1]] /\ m[3] \in DOMAIN methods[m[1]][m[2]].imps
  BY DEF Methods
<1>2. m[1] \in realized /\ m[3] \in Sels /\ m[1] \in Classes
  BY <1>1 DEF TypeInv
<1>3. methods[m[1]] \in Seq(List)
  BY <1>2 DEF TypeInv
<1>4. m[2] \in 1..Len(methods[m[1]])
  BY <1>1, <1>3
<1>5. methods[m[1]][m[2]] \in List
  BY ONLY <1>3, <1>4, SeqElement
<1>6. imp(m) \in Imps
  <2>1. methods[m[1]][m[2]].imps \in [DOMAIN methods[m[1]][m[2]].imps -> Imps]
    BY <1>5, ListType
  <2> QED
    BY <1>1, <2>1 DEF imp
<1>7. Old(m).sel = m[3] /\ Old(m).imp = methods[m[1]][m[2]].imps[m[3]]
  BY DEF Old, imp
<1> QED
  BY <1>1, <1>2, <1>4, <1>6, <1>7 DEF IsMethod

LEMMA SetImplementationKeeps ==
  ASSUME IndInv, NEW m \in Methods, NEW i \in Imps, method_setImplementation(m, i)
  PROVE  IndInv'
<1>0. TypeInv /\ methods \in [Classes -> Seq(List)] /\ realized \in SUBSET Classes
  BY DEF IndInv, TypeInv
<1>1. methods' = Put(methods, m, i) /\ cache' = flushOld(realized, {Old(m)}) /\ Quiet
  BY DEF method_setImplementation, Put
<1>2. /\ IsMethod(methods, m) /\ m[1] \in realized
      /\ Old(m).sel = m[3] /\ Old(m).imp = methods[m[1]][m[2]].imps[m[3]]
  BY <1>0, MethodType
<1>3. /\ methods' \in [Classes -> Seq(List)] /\ \A d \in Classes : SameShape(methods[d], methods'[d])
      /\ \A d \in Classes : \A k \in 1..Len(methods[d]) : \A s \in DOMAIN methods[d][k].imps :
           methods'[d][k].imps[s] = IF d = m[1] /\ k = m[2] /\ s = m[3] THEN i ELSE methods[d][k].imps[s]
  BY <1>0, <1>1, <1>2, PutEffect
<1>4. \A d \in Classes \ realized : methods'[d] = methods[d]
  BY <1>0, <1>1, <1>2 DEF Put
<1>5. \A d \in Classes : \A k \in 1..Len(methods[d]) : \A s \in DOMAIN methods[d][k].imps :
        methods'[d][k].imps[s] # methods[d][k].imps[s] =>
          \E o \in {Old(m)} : o.sel = s /\ o.imp = methods[d][k].imps[s]
  BY <1>2, <1>3
<1> QED
  BY <1>1, <1>3, <1>4, <1>5, ReplacedKeeps

LEMMA SameShapeTwice ==
  ASSUME NEW a, NEW b, NEW c, SameShape(a, b), SameShape(b, c)
  PROVE  SameShape(a, c)
BY DEF SameShape

LEMMA ExchangeKeeps ==
  ASSUME IndInv, NEW m1 \in Methods, NEW m2 \in Methods, method_exchangeImplementations(m1, m2)
  PROVE  IndInv'
<1> DEFINE mid == Put(methods, m1, imp(m2))
           olds == {Old(m1), Old(m2)}
<1>0. TypeInv /\ methods \in [Classes -> Seq(List)] /\ realized \in SUBSET Classes
  BY DEF IndInv, TypeInv
<1>1. methods' = Put(mid, m2, imp(m1)) /\ cache' = flushOld(realized, olds) /\ Quiet
  BY DEF method_exchangeImplementations, Put
<1>2. /\ IsMethod(methods, m1) /\ m1[1] \in realized /\ imp(m1) \in Imps
      /\ Old(m1).sel = m1[3] /\ Old(m1).imp = methods[m1[1]][m1[2]].imps[m1[3]]
  BY <1>0, MethodType
<1>3. /\ IsMethod(methods, m2) /\ m2[1] \in realized /\ imp(m2) \in Imps
      /\ Old(m2).sel = m2[3] /\ Old(m2).imp = methods[m2[1]][m2[2]].imps[m2[3]]
  BY <1>0, MethodType
<1>4. /\ mid \in [Classes -> Seq(List)] /\ \A d \in Classes : SameShape(methods[d], mid[d])
      /\ \A d \in Classes : \A k \in 1..Len(methods[d]) : \A s \in DOMAIN methods[d][k].imps :
           mid[d][k].imps[s] = IF d = m1[1] /\ k = m1[2] /\ s = m1[3] THEN imp(m2) ELSE methods[d][k].imps[s]
  <2>1. methods \in [Classes -> Seq(List)] /\ IsMethod(methods, m1) /\ imp(m2) \in Imps
    BY <1>0, <1>2, <1>3
  <2>2. mid \in [Classes -> Seq(List)]
    BY <2>1, PutEffect
  <2>3. \A d \in Classes : SameShape(methods[d], mid[d])
    BY <2>1, PutEffect
  <2>4. \A d \in Classes : \A k \in 1..Len(methods[d]) : \A s \in DOMAIN methods[d][k].imps :
           mid[d][k].imps[s] = IF d = m1[1] /\ k = m1[2] /\ s = m1[3] THEN imp(m2) ELSE methods[d][k].imps[s]
    BY <2>1, PutEffect
  <2> QED
    BY <2>2, <2>3, <2>4
<1>5. \A d \in Classes \ realized : mid[d] = methods[d]
  BY <1>0, <1>2 DEF Put
<1> HIDE DEF mid
<1>6. IsMethod(mid, m2)
  <2>1. m2[1] \in Classes /\ m2[2] \in 1..Len(methods[m2[1]]) /\ m2[3] \in DOMAIN methods[m2[1]][m2[2]].imps
    BY <1>3 DEF IsMethod
  <2>2. SameShape(methods[m2[1]], mid[m2[1]])
    BY <1>4, <2>1
  <2> QED
    BY <2>1, <2>2 DEF IsMethod, SameShape
<1>7. /\ methods' \in [Classes -> Seq(List)] /\ \A d \in Classes : SameShape(mid[d], methods'[d])
      /\ \A d \in Classes : \A k \in 1..Len(mid[d]) : \A s \in DOMAIN mid[d][k].imps :
           methods'[d][k].imps[s] = IF d = m2[1] /\ k = m2[2] /\ s = m2[3] THEN imp(m1) ELSE mid[d][k].imps[s]
  BY <1>1, <1>2, <1>4, <1>6, PutEffect
<1>8. \A d \in Classes \ realized : methods'[d] = methods[d]
  BY <1>0, <1>1, <1>3, <1>4, <1>5 DEF Put
<1>9. \A d \in Classes : SameShape(methods[d], methods'[d])
  BY <1>4, <1>7, SameShapeTwice
<1>10. ASSUME NEW d \in Classes, NEW k \in 1..Len(methods[d]), NEW s \in DOMAIN methods[d][k].imps,
              methods'[d][k].imps[s] # methods[d][k].imps[s]
       PROVE  \E o \in olds : o.sel = s /\ o.imp = methods[d][k].imps[s]
  <2>1. SameShape(methods[d], mid[d])
    BY <1>4
  <2>2. k \in 1..Len(mid[d]) /\ s \in DOMAIN mid[d][k].imps
    BY <2>1 DEF SameShape
  <2>3. mid[d][k].imps[s] = IF d = m1[1] /\ k = m1[2] /\ s = m1[3] THEN imp(m2) ELSE methods[d][k].imps[s]
    BY <1>4
  <2>4. methods'[d][k].imps[s] = IF d = m2[1] /\ k = m2[2] /\ s = m2[3] THEN imp(m1) ELSE mid[d][k].imps[s]
    BY <1>7, <2>2
  <2>5. CASE d = m1[1] /\ k = m1[2] /\ s = m1[3]
    BY <1>2, <2>5
  <2>6. CASE d = m2[1] /\ k = m2[2] /\ s = m2[3]
    BY <1>3, <2>6
  <2> QED
    BY <1>10, <2>3, <2>4, <2>5, <2>6
<1>11. \A d \in Classes : \A k \in 1..Len(methods[d]) : \A s \in DOMAIN methods[d][k].imps :
         methods'[d][k].imps[s] # methods[d][k].imps[s] =>
           \E o \in olds : o.sel = s /\ o.imp = methods[d][k].imps[s]
  BY <1>10
<1> HIDE DEF olds
<1> QED
  BY ONLY IndInv, <1>1, <1>7, <1>8, <1>9, <1>11, ReplacedKeeps, SMTT(30)

LEMMA FlushAllKeeps ==
  ASSUME IndInv, _objc_flush_caches
  PROVE  IndInv'
<1>0. /\ cache' = [c \in Classes |-> NothingCached]
      /\ UNCHANGED <<methods, program, superclass, unattached, realized, initialized, loaded, call, asked>>
  BY DEF _objc_flush_caches, Quiet
<1>1. /\ TypeInv /\ LaterCategoriesWin /\ DOMAIN superclass' = Classes /\ Classes' = Classes /\ Hierarchy(superclass')
      /\ methods \in [Classes -> Seq(List)] /\ unattached \in [Classes -> Seq(List)] /\ realized \in SUBSET Classes
      /\ loaded \in 0..Len(program.categories) /\ AllRealized'
  BY <1>0, QuietTypes
<1>2. CacheLoses
  BY <1>0, NothingCachedType DEF CacheLoses
<1>3. StillRight
  BY <1>0, UnchangedRight
<1>4. LaterCategoriesWin'
  <2>1. {} \in SUBSET realized /\ \A d \in Classes \ {} : methods'[d] = methods[d]
    BY <1>0
  <2> QED
    BY <1>0, <1>1, <2>1, AttachedStays
<1> QED
  BY <1>0, <1>1, <1>2, <1>3, <1>4, QuietStep

\* Two classes that get superclasses with neither of them above keep the hierarchy rooted.
LEMMA StillRooted ==
  ASSUME NEW up, Hierarchy(up), NEW un, DOMAIN un = DOMAIN up, un \in [DOMAIN up -> DOMAIN up \cup {NoClass}],
         NEW c, NEW m,
         \A d \in DOMAIN up : d # c /\ d # m => un[d] = up[d],
         \A d \in DOMAIN up : (d = c \/ d = m) /\ un[d] # NoClass => c \notin Up(up, un[d]) /\ m \notin Up(up, un[d])
  PROVE  Hierarchy(un)
<1>1. NoClass \notin DOMAIN up
  BY DEF Hierarchy
<1>2. ASSUME NEW S \in (SUBSET DOMAIN up) \ {{}} PROVE \E d \in S : un[d] \notin S
  <2> SUFFICES ASSUME \A d \in S : un[d] \in S PROVE FALSE
    OBVIOUS
  <2>1. CASE c \notin S /\ m \notin S
    <3>1. PICK d \in S : up[d] \notin S
      BY DEF Hierarchy, Rooted
    <3> QED
      BY <2>1, <3>1
  <2>2. ASSUME NEW e \in S, e = c \/ e = m PROVE FALSE
    <3> DEFINE T == S \cap Up(up, un[e])
    <3>1. un[e] \in S /\ un[e] \in DOMAIN up /\ c \notin Up(up, un[e]) /\ m \notin Up(up, un[e])
      BY <1>1, <2>2
    <3>2. un[e] \in Up(up, un[e]) /\ Up(up, un[e]) \subseteq DOMAIN up /\ IsClosed(up, Up(up, un[e]))
      BY <3>1, UpIsClosed
    <3>3. T \in (SUBSET DOMAIN up) \ {{}}
      BY <3>1, <3>2
    <3>4. PICK d \in T : up[d] \notin T
      BY <3>3 DEF Hierarchy, Rooted
    <3>5. d # c /\ d # m /\ d \in DOMAIN up /\ up[d] = un[d] /\ un[d] \in S
      BY <3>1, <3>2, <3>4
    <3>6. up[d] \in Up(up, un[e])
      BY <1>1, <3>2, <3>4, <3>5 DEF IsClosed
    <3> QED
      BY <3>4, <3>5, <3>6
  <2> QED
    BY <2>1, <2>2
<1>3. Rooted(un)
  BY <1>2 DEF Rooted
<1> QED
  BY <1>1, <1>3 DEF Hierarchy

LEMMA MetaType ==
  ASSUME TypeInv, NEW c
  PROVE  /\ ISA(c) \in Classes \cup {NoClass}
         /\ ISA(c) # NoClass => ISA(c) \in Classes \cap Metaclasses /\ NonMeta[ISA(c)] = c
BY DEF ISA

LEMMA SetSuperclassKeeps ==
  ASSUME IndInv, NEW c \in realized, NEW new \in realized, class_setSuperclass(c, new)
  PROVE  IndInv'
<1> DEFINE m == ISA(c)
           n == ISA(new)
<1>0. /\ \A d \in {new, n} \ {NoClass} : {c, m} \cap Lineage(d) = {}
      /\ superclass' = [d \in Classes |-> IF d = c THEN new ELSE IF d = m THEN n ELSE superclass[d]]
      /\ cache' = [d \in Classes |-> IF d \in Subtree(m) THEN NothingCached ELSE flush(c)[d]]
      /\ UNCHANGED <<program, methods, unattached, realized, loaded, initialized, call, asked>>
  BY DEF class_setSuperclass, lists
<1>1. /\ TypeInv /\ RealizeInv /\ LaterCategoriesWin /\ CacheType /\ Hierarchy(superclass) /\ DOMAIN superclass = Classes
      /\ methods \in [Classes -> Seq(List)] /\ unattached \in [Classes -> Seq(List)] /\ realized \in SUBSET Classes
      /\ loaded \in 0..Len(program.categories) /\ c \in Classes /\ new \in Classes
  BY DEF IndInv, TypeInv, CacheType, Classes
<1>2. NoClass \notin Classes /\ superclass \in [Classes -> Classes \cup {NoClass}]
  BY <1>1 DEF Hierarchy
<1>3. n \in Classes \cup {NoClass} /\ (n # NoClass => n \in Classes \cap Metaclasses /\ NonMeta[n] = new)
  BY <1>1, MetaType
<1> HIDE DEF m, n
<1>4. /\ superclass' \in [Classes -> Classes \cup {NoClass}] /\ DOMAIN superclass' = Classes
      /\ superclass'[c] = new /\ (m \in Classes /\ m # c => superclass'[m] = n)
      /\ \A d \in Classes : d # c /\ d # m => superclass'[d] = superclass[d]
  BY <1>0, <1>1, <1>2, <1>3
<1>5. \A d \in Classes : (d = c \/ d = m) /\ superclass'[d] # NoClass =>
        c \notin Up(superclass, superclass'[d]) /\ m \notin Up(superclass, superclass'[d])
  <2>1. \A d \in Classes : d = c \/ d = m => superclass'[d] = new \/ superclass'[d] = n
    BY <1>4
  <2>2. \A d : (d = new \/ d = n) /\ d # NoClass => c \notin Up(superclass, d) /\ m \notin Up(superclass, d)
    BY <1>0, LookupForms
  <2> QED
    BY <2>1, <2>2
<1>6. Hierarchy(superclass')
  BY <1>1, <1>4, <1>5, StillRooted
<1>7. CacheLoses /\ \A d \in Classes, s \in Sels : cache'[d][s] # NoImp => d \notin Subtree(c) /\ d \notin Subtree(m)
  <2>1. \A d \in Classes : cache'[d] = IF d \in Subtree(m) \/ d \in Subtree(c) THEN NothingCached ELSE cache[d]
    BY <1>0 DEF flush
  <2>2. DOMAIN cache' = Classes /\ cache' = [d \in Classes |-> cache'[d]]
    BY <1>0
  <2>3. cache' \in [Classes -> [Sels -> Imps \cup {NoImp, forward_imp}]]
    BY <1>1, <2>1, <2>2, NothingCachedType DEF CacheType
  <2> QED
    BY <2>1, <2>3, NothingCachedType DEF CacheLoses
<1>8. StillRight
  <2>1. \A d \in Classes : d # c /\ d # m => methods'[d] = methods[d] /\ superclass'[d] = superclass[d]
    BY <1>0, <1>4
  <2> QED
    BY <1>1, <1>4, <1>6, <1>7, <2>1, FlushAgrees
<1>9. AllRealized'
  <2>1. Closed(realized) /\ WithMetas(realized) /\ Classes' = Classes
    BY <1>1, <1>4 DEF RealizeInv, AllRealized, Classes
  <2>2. n # NoClass => n \in realized
    BY <1>3, <2>1 DEF WithMetas
  <2>3. \A d \in realized : superclass'[d] # NoClass => superclass'[d] \in realized
    BY <1>1, <1>4, <2>1, <2>2 DEF Closed
  <2> QED
    BY <1>0, <2>1, <2>3 DEF AllRealized, Closed, WithMetas
<1>10. LaterCategoriesWin'
  <2>1. Classes' = Classes
    BY <1>4 DEF Classes
  <2>2. {} \in SUBSET realized /\ \A d \in Classes \ {} : methods'[d] = methods[d]
    BY <1>0
  <2> QED
    BY <1>0, <1>1, <2>1, <2>2, AttachedStays
<1> QED
  BY <1>0, <1>1, <1>4, <1>6, <1>7, <1>8, <1>9, <1>10, QuietStep

----------------------------------------------------------------------------
(* Calls.                                                                  *)

GoodCall(me) == me \in Calls /\ (me.pc # "idle" => me.cls \in Classes /\ me.sel \in Sels)

\* A step of a call: the next state of the call, and what may have got into a cache.
LEMMA CallStep ==
  ASSUME IndInv, NEW t \in Threads, NEW me, call' = [call EXCEPT ![t] = me],
         UNCHANGED <<program, superclass, unattached, realized, loaded>>,
         methods' \in [Classes -> Seq(List)], cache' \in [Classes -> [Sels -> Imps \cup {NoImp, forward_imp}]],
         \A c \in Classes, s \in Sels : cache'[c][s] # NoImp => c \in realized,
         \A c \in Classes, s \in Sels : cache'[c][s] = forward_imp => AskedFirst(c, s, asked'),
         CachesAgree', LaterCategoriesWin', asked \subseteq asked',
         GoodCall(me), me.pc = "resolver" => me.cls \in realized, HasAsked(me, asked')
  PROVE  IndInv'
<1>0. TypeInv /\ RealizeInv /\ AskInv /\ Classes' = Classes
  BY DEF IndInv, Classes
<1>1. Calls' = Calls
  BY <1>0 DEF Calls
<1>2. call' \in [Threads -> Calls] /\ call'[t] = me /\ \A u \in Threads : u # t => call'[u] = call[u]
  BY <1>0 DEF TypeInv, GoodCall
<1>3. TypeInv'
  <2>1. \A u \in Threads : call'[u].pc # "idle" => call'[u].cls \in Classes /\ call'[u].sel \in Sels
    BY <1>0, <1>2 DEF TypeInv, GoodCall
  <2> QED
    BY <1>0, <1>1, <1>2, <2>1 DEF TypeInv
<1>4. RealizeInv'
  <2>1. \A u \in Threads : call'[u].pc = "resolver" => call'[u].cls \in realized
    BY <1>0, <1>2 DEF RealizeInv
  <2>2. AllRealized'
    BY <1>0 DEF RealizeInv, AllRealized, Closed, WithMetas
  <2> QED
    BY <1>0, <2>1, <2>2 DEF RealizeInv
<1>5. AskInv'
  <2>1. \A u \in Threads : HasAsked(call'[u], asked')
    <3> TAKE u \in Threads
    <3>1. CASE u = t
      BY <1>2, <3>1
    <3>2. CASE u # t
      BY <1>0, <1>2, <3>2 DEF AskInv, HasAsked, AskedFirst
    <3> QED
      BY <3>1, <3>2
  <2> QED
    BY <1>0, <2>1 DEF AskInv
<1> QED
  BY <1>3, <1>4, <1>5 DEF IndInv

LEMMA IdleIsGood ==
  /\ GoodCall(Idle) /\ Idle.pc = "idle"
  /\ \A answered : HasAsked(Idle, answered)
BY DEF GoodCall, HasAsked, Idle, Calls, Pcs, Thens

LEMMA LookUpIsGood ==
  ASSUME NEW me \in Calls, me.cls \in Classes, me.sel \in Sels
  PROVE  /\ GoodCall(lookUp(me)) /\ lookUp(me).pc = "lookup"
         /\ lookUp(me).cls = me.cls /\ lookUp(me).sel = me.sel /\ lookUp(me).resolver = me.resolver
<1> DEFINE b == ~isInitialized(me.cls) \/ (me.then = "answer" /\ me.kept)
<1>1. b \in BOOLEAN
  OBVIOUS
<1>2. lookUp(me) = [me EXCEPT !.pc = "lookup", !.nocache = b]
  BY DEF lookUp
<1> HIDE DEF b
<1>3. [me EXCEPT !.pc = "lookup"] \in Calls
  BY DEF Calls, Pcs
<1>4. [me EXCEPT !.pc = "lookup", !.nocache = b] \in Calls
  BY <1>1, <1>3 DEF Calls
<1>5. /\ [me EXCEPT !.pc = "lookup", !.nocache = b].pc = "lookup"
      /\ [me EXCEPT !.pc = "lookup", !.nocache = b].cls = me.cls
      /\ [me EXCEPT !.pc = "lookup", !.nocache = b].sel = me.sel
      /\ [me EXCEPT !.pc = "lookup", !.nocache = b].resolver = me.resolver
  BY DEF Calls
<1> QED
  BY <1>2, <1>4, <1>5 DEF GoodCall

\* Going on with another pc.
Moved(me, p, n) == [me EXCEPT !.pc = p, !.then = n]

LEMMA MovesOn ==
  ASSUME NEW me \in Calls, NEW p \in Pcs, NEW n \in Thens
  PROVE  /\ Moved(me, p, n) \in Calls /\ Moved(me, p, n).pc = p
         /\ Moved(me, p, n).cls = me.cls /\ Moved(me, p, n).sel = me.sel
         /\ Moved(me, p, n).resolver = me.resolver
<1>1. [me EXCEPT !.pc = p] \in Calls
  BY DEF Calls
<1>2. [me EXCEPT !.pc = p, !.then = n] \in Calls
  BY <1>1 DEF Calls
<1> QED
  BY <1>2 DEF Calls, Moved

LEMMA AfterIsGood ==
  ASSUME NEW me \in Calls, me.cls \in Classes, me.sel \in Sels, me.cls \in realized,
         NEW answered, ~me.resolver => AskedFirst(me.cls, me.sel, answered), NEW found
  PROVE  /\ GoodCall(After(me, found)) /\ HasAsked(After(me, found), answered)
         /\ After(me, found).pc = "resolver" => After(me, found).cls \in realized
<1>1. CASE After(me, found) = Idle
  BY <1>1, IdleIsGood
<1>2. ASSUME NEW p \in {"try", "resolver"}, NEW n \in Thens, After(me, found) = [me EXCEPT !.pc = p, !.then = n]
      PROVE  /\ GoodCall(After(me, found)) /\ HasAsked(After(me, found), answered)
             /\ After(me, found).pc = "resolver" => After(me, found).cls \in realized
  <2>1. p \in Pcs
    BY DEF Pcs
  <2> DEFINE next == Moved(me, p, n)
  <2>a. /\ next \in Calls /\ next.pc = p /\ next.cls = me.cls /\ next.sel = me.sel /\ next.resolver = me.resolver
    BY <2>1, MovesOn
  <2>b. After(me, found) = next
    BY <1>2 DEF Moved
  <2> HIDE DEF next
  <2>2. /\ After(me, found) \in Calls /\ After(me, found).pc = p
        /\ After(me, found).cls = me.cls /\ After(me, found).sel = me.sel /\ After(me, found).resolver = me.resolver
    BY <2>a, <2>b
  <2> QED
    BY <2>2 DEF GoodCall, HasAsked
<1>3. \/ After(me, found) = Idle
      \/ After(me, found) = [me EXCEPT !.pc = "try", !.then = "still missing"]
      \/ After(me, found) = [me EXCEPT !.pc = "resolver", !.then = "asked"]
      \/ After(me, found) = [me EXCEPT !.pc = "try", !.then = "answer"]
  BY DEF After
<1>4. {"still missing", "asked", "answer"} \subseteq Thens
  BY DEF Thens
<1> QED
  BY <1>1, <1>2, <1>3, <1>4

LEMMA ResolveIsGood ==
  ASSUME NEW me \in Calls, me.cls \in Classes, me.sel \in Sels, me.cls \in realized, NEW answered
  PROVE  /\ GoodCall(resolveMethod_locked(me)) /\ HasAsked(resolveMethod_locked(me), answered)
         /\ resolveMethod_locked(me).pc = "resolver" => resolveMethod_locked(me).cls \in realized
<1> DEFINE half == [me EXCEPT !.resolver = FALSE]
           once == [me EXCEPT !.resolver = FALSE, !.kept = me.nocache]
<1>1. half \in Calls
  BY DEF Calls
<1>2. once \in Calls /\ once.cls = me.cls /\ once.sel = me.sel
  <2>1. me.nocache \in BOOLEAN
    BY DEF Calls
  <2> QED
    BY <1>1, <2>1 DEF Calls
<1> HIDE DEF once
<1>3. ASSUME NEW p \in {"try", "resolver"}, NEW n \in Thens, p = "try" => FirstQuestion(me.cls) \notin Resolvers,
             p = "resolver" => Question(resolveMethod_locked(me)) = FirstQuestion(resolveMethod_locked(me).cls),
             resolveMethod_locked(me) = [once EXCEPT !.pc = p, !.then = n]
      PROVE  /\ GoodCall(resolveMethod_locked(me)) /\ HasAsked(resolveMethod_locked(me), answered)
             /\ resolveMethod_locked(me).pc = "resolver" => resolveMethod_locked(me).cls \in realized
  <2>1. p \in Pcs
    BY DEF Pcs
  <2> DEFINE next == Moved(once, p, n)
  <2>a. next \in Calls /\ next.pc = p /\ next.cls = once.cls /\ next.sel = once.sel
    BY <1>2, <2>1, MovesOn
  <2>b. resolveMethod_locked(me) = next
    BY <1>3 DEF Moved
  <2> HIDE DEF next
  <2>2. /\ resolveMethod_locked(me) \in Calls /\ resolveMethod_locked(me).pc = p
        /\ resolveMethod_locked(me).cls = me.cls /\ resolveMethod_locked(me).sel = me.sel
    BY <1>2, <2>a, <2>b
  <2> QED
    BY <1>3, <2>2 DEF GoodCall, HasAsked, AskedFirst
<1>4. {"asked class", "asked", "still missing", "answer"} \subseteq Thens
  BY DEF Thens
<1>5. CASE FirstQuestion(me.cls) \notin Resolvers
  <2>1. \E n \in Thens : resolveMethod_locked(me) = [once EXCEPT !.pc = "try", !.then = n]
    BY <1>4, <1>5 DEF resolveMethod_locked, once
  <2> QED
    BY <1>3, <1>5, <2>1
<1>6. CASE FirstQuestion(me.cls) \in Resolvers
  <2> DEFINE n == IF me.cls \in Metaclasses THEN "asked class" ELSE "asked"
  <2>1. resolveMethod_locked(me) = [once EXCEPT !.pc = "resolver", !.then = n]
    BY <1>6 DEF resolveMethod_locked, once
  <2>2. [once EXCEPT !.pc = "resolver", !.then = n].then = n /\ [once EXCEPT !.pc = "resolver", !.then = n].cls = me.cls
    BY <1>2 DEF Calls
  <2>3. Question(resolveMethod_locked(me)) = FirstQuestion(resolveMethod_locked(me).cls)
    BY <2>1, <2>2 DEF Question, FirstQuestion
  <2> QED
    BY <1>3, <1>4, <2>1, <2>3
<1> QED
  BY <1>5, <1>6

\* What CallStep needs of a step that changes only the call.
LEMMA OnlyCalls ==
  ASSUME IndInv, NEW t \in Threads, NEW me, call' = [call EXCEPT ![t] = me],
         UNCHANGED <<program, superclass, methods, unattached, realized, loaded, initialized, cache, asked>>,
         GoodCall(me), me.pc = "resolver" => me.cls \in realized, HasAsked(me, asked)
  PROVE  IndInv'
<1>1. TypeInv /\ RealizeInv /\ CachesAgree /\ LaterCategoriesWin /\ AskInv /\ Classes' = Classes
  BY DEF IndInv, Classes
<1>2. CacheLoses /\ StillRight
  BY <1>1, UnchangedLoses, UnchangedRight
<1>3. CachesAgree'
  BY <1>1, <1>2, AgreeStays
<1>4. LaterCategoriesWin'
  <2>1. {} \in SUBSET realized /\ \A d \in Classes \ {} : methods'[d] = methods[d]
    OBVIOUS
  <2> QED
    BY <1>1, <2>1, AttachedStays
<1>5. /\ methods \in [Classes -> Seq(List)] /\ cache \in [Classes -> [Sels -> Imps \cup {NoImp, forward_imp}]]
      /\ \A c \in Classes, s \in Sels : cache[c][s] # NoImp => c \in realized
      /\ \A c \in Classes, s \in Sels : cache[c][s] = forward_imp => AskedFirst(c, s, asked)
  BY <1>1 DEF TypeInv, RealizeInv, AskInv
<1> QED
  BY <1>3, <1>4, <1>5, CallStep

LEMMA SendKeeps ==
  ASSUME IndInv, NEW t \in Threads, NEW m \in program.messages, objc_msgSend(t, m[1], m[2])
  PROVE  IndInv'
<1> DEFINE me == [Idle EXCEPT !.cls = m[1], !.sel = m[2], !.initialize = TRUE, !.resolver = TRUE]
<1>0. /\ call' = [call EXCEPT ![t] = IF cache[m[1]][m[2]] # NoImp THEN Idle ELSE lookUp(me)]
      /\ UNCHANGED <<program, superclass, methods, unattached, realized, loaded, initialized, cache, asked>>
  BY DEF objc_msgSend, Goes, lists
<1>1. TypeInv /\ m[1] \in Classes /\ m[2] \in Sels
  BY ProgramType DEF IndInv
<1>2. me \in Calls /\ me.cls = m[1] /\ me.sel = m[2] /\ me.resolver = TRUE
  <2>1. me \in Calls
    BY <1>1 DEF Idle, Calls, Pcs, Thens
  <2>2. me.cls = m[1] /\ me.sel = m[2] /\ me.resolver = TRUE
    BY DEF Idle
  <2> QED
    BY <2>1, <2>2
<1> HIDE DEF me
<1>3. /\ GoodCall(lookUp(me)) /\ lookUp(me).pc = "lookup" /\ lookUp(me).resolver = TRUE
  BY <1>1, <1>2, LookUpIsGood
<1>4. HasAsked(lookUp(me), asked)
  BY <1>3 DEF HasAsked
<1>5. CASE cache[m[1]][m[2]] # NoImp
  <2>1. call' = [call EXCEPT ![t] = Idle]
    BY <1>0, <1>5
  <2> QED
    BY <1>0, <2>1, IdleIsGood, OnlyCalls
<1>6. CASE cache[m[1]][m[2]] = NoImp
  <2>1. call' = [call EXCEPT ![t] = lookUp(me)]
    BY <1>0, <1>6
  <2> QED
    BY <1>0, <1>3, <1>4, <2>1, OnlyCalls
<1> QED
  BY <1>5, <1>6

LEMMA GetMethodKeeps ==
  ASSUME IndInv, NEW t \in Threads, NEW m \in program.messages, class_getInstanceMethod(t, m[1], m[2])
  PROVE  IndInv'
<1> DEFINE me == [Idle EXCEPT !.cls = m[1], !.sel = m[2], !.resolver = TRUE]
<1>0. /\ call' = [call EXCEPT ![t] = lookUp(me)]
      /\ UNCHANGED <<program, superclass, methods, unattached, realized, loaded, initialized, cache, asked>>
  BY DEF class_getInstanceMethod, Goes, lists
<1>1. TypeInv /\ m[1] \in Classes /\ m[2] \in Sels
  BY ProgramType DEF IndInv
<1>2. me \in Calls /\ me.cls = m[1] /\ me.sel = m[2] /\ me.resolver = TRUE
  BY <1>1 DEF Idle, Calls, Pcs, Thens
<1> HIDE DEF me
<1>3. /\ GoodCall(lookUp(me)) /\ lookUp(me).pc = "lookup" /\ lookUp(me).resolver = TRUE
  BY <1>1, <1>2, LookUpIsGood
<1>4. HasAsked(lookUp(me), asked)
  BY <1>3 DEF HasAsked
<1> QED
  BY <1>0, <1>3, <1>4, OnlyCalls

\* The state of a call under way.
LEMMA CallType ==
  ASSUME IndInv, NEW t \in Threads, call[t].pc # "idle"
  PROVE  /\ call[t] \in Calls /\ call[t].cls \in Classes /\ call[t].sel \in Sels
         /\ HasAsked(call[t], asked)
         /\ call[t].pc = "resolver" => call[t].cls \in realized
<1>1. TypeInv /\ RealizeInv /\ AskInv
  BY DEF IndInv
<1> QED
  BY <1>1 DEF TypeInv, RealizeInv, AskInv, HasAsked

LEMMA TryKeeps ==
  ASSUME IndInv, NEW t \in Threads, _lookUpImpTryCache(t)
  PROVE  IndInv'
<1> DEFINE me == call[t]
           found == cache[me.cls][me.sel]
<1>0. /\ me.pc = "try" /\ call' = [call EXCEPT ![t] = Starts(me)]
      /\ UNCHANGED <<program, superclass, methods, unattached, realized, loaded, initialized, cache, asked>>
  BY DEF _lookUpImpTryCache, Goes, lists
<1>1. me \in Calls /\ me.cls \in Classes /\ me.sel \in Sels /\ HasAsked(me, asked)
  BY <1>0, CallType
<1>2. ~me.resolver => AskedFirst(me.cls, me.sel, asked)
  BY <1>0, <1>1 DEF HasAsked
<1>3. \/ Starts(me) = After(me, found) /\ found # NoImp
      \/ Starts(me) = lookUp(me)
  BY DEF Starts
<1> HIDE DEF me
<1>4. CASE Starts(me) = After(me, found) /\ found # NoImp
  <2>1. me.cls \in realized
    BY <1>1, <1>4 DEF IndInv, RealizeInv
  <2>2. /\ GoodCall(After(me, found)) /\ HasAsked(After(me, found), asked)
        /\ After(me, found).pc = "resolver" => After(me, found).cls \in realized
    BY <1>1, <1>2, <2>1, AfterIsGood
  <2>3. call' = [call EXCEPT ![t] = After(me, found)]
    BY <1>0, <1>4
  <2> QED
    BY <1>0, <2>2, <2>3, OnlyCalls
<1>5. CASE Starts(me) = lookUp(me)
  <2>1. /\ GoodCall(lookUp(me)) /\ lookUp(me).pc = "lookup"
        /\ lookUp(me).cls = me.cls /\ lookUp(me).sel = me.sel /\ lookUp(me).resolver = me.resolver
    BY <1>1, LookUpIsGood
  <2>2. HasAsked(lookUp(me), asked)
    BY <1>2, <2>1 DEF HasAsked
  <2>3. call' = [call EXCEPT ![t] = lookUp(me)]
    BY <1>0, <1>5
  <2> QED
    BY <1>0, <2>1, <2>2, <2>3, OnlyCalls
<1> QED
  BY <1>3, <1>4, <1>5

\* An insertion fills one entry and may forget the others of its class.
LEMMA InsertEffect ==
  ASSUME TypeInv, NEW me, me.cls \in Classes, me.sel \in Sels, NEW found \in Imps \cup {forward_imp},
         cache' \in insert(me, found)
  PROVE  /\ cache' \in [Classes -> [Sels -> Imps \cup {NoImp, forward_imp}]]
         /\ \A c \in Classes, s \in Sels :
              \/ cache'[c][s] = cache[c][s] \/ cache'[c][s] = NoImp
              \/ c = me.cls /\ s = me.sel /\ cache'[c][s] = found /\ isInitialized(c)
<1>0. cache \in [Classes -> [Sels -> Imps \cup {NoImp, forward_imp}]]
  BY DEF TypeInv
<1>1. CASE cache' = cache
  BY <1>0, <1>1
<1>2. ASSUME isInitialized(me.cls), NEW old \in {cache[me.cls], NothingCached},
             cache' = [cache EXCEPT ![me.cls] = [old EXCEPT ![me.sel] = IF old[me.sel] = NoImp THEN found ELSE old[me.sel]]]
      PROVE  /\ cache' \in [Classes -> [Sels -> Imps \cup {NoImp, forward_imp}]]
             /\ \A c \in Classes, s \in Sels :
                  \/ cache'[c][s] = cache[c][s] \/ cache'[c][s] = NoImp
                  \/ c = me.cls /\ s = me.sel /\ cache'[c][s] = found /\ isInitialized(c)
  <2> DEFINE v == IF old[me.sel] = NoImp THEN found ELSE old[me.sel]
             b == [old EXCEPT ![me.sel] = v]
  <2>1. /\ old \in [Sels -> Imps \cup {NoImp, forward_imp}]
        /\ \A s \in Sels : old[s] = cache[me.cls][s] \/ old[s] = NoImp
    BY <1>0, NothingCachedType
  <2>2. v \in Imps \cup {NoImp, forward_imp} /\ (v = found \/ v = old[me.sel])
    BY <2>1
  <2> HIDE DEF v
  <2>3. b \in [Sels -> Imps \cup {NoImp, forward_imp}] /\ b[me.sel] = v /\ \A s \in Sels : s # me.sel => b[s] = old[s]
    BY <2>1, <2>2
  <2>4. cache' = [cache EXCEPT ![me.cls] = b]
    BY <1>2 DEF v
  <2> HIDE DEF b
  <2>5. /\ cache' \in [Classes -> [Sels -> Imps \cup {NoImp, forward_imp}]]
        /\ cache'[me.cls] = b /\ \A c \in Classes : c # me.cls => cache'[c] = cache[c]
    BY <1>0, <2>3, <2>4
  <2> QED
    BY <1>2, <2>1, <2>2, <2>3, <2>5
<1>3. \/ cache' = cache
      \/ /\ isInitialized(me.cls)
         /\ \E old \in {cache[me.cls], NothingCached} :
              cache' = [cache EXCEPT ![me.cls] = [old EXCEPT ![me.sel] = IF old[me.sel] = NoImp THEN found ELSE old[me.sel]]]
  BY DEF insert
<1> QED
  BY <1>1, <1>2, <1>3

LEMMA LookupKeeps ==
  ASSUME IndInv, NEW t \in Threads, lookUpImpOrForward(t)
  PROVE  IndInv'
<1> DEFINE me == call[t]
           found == Search(me.cls, me.sel)
<1>0. /\ me.pc = "lookup" /\ me.cls \in realized
      /\ \/ call' = [call EXCEPT ![t] = resolveMethod_locked(me)] /\ UNCHANGED cache
         \/ ~Asks(me, found) /\ call' = [call EXCEPT ![t] = After(me, found)] /\ cache' \in insert(me, found)
      /\ UNCHANGED <<program, superclass, methods, unattached, realized, loaded, initialized, asked>>
  BY DEF lookUpImpOrForward, Goes, lists
<1>1. me \in Calls /\ me.cls \in Classes /\ me.sel \in Sels /\ HasAsked(me, asked)
  BY <1>0, CallType
<1>2. ~me.resolver => AskedFirst(me.cls, me.sel, asked)
  BY <1>0, <1>1 DEF HasAsked
<1>3. /\ TypeInv /\ RealizeInv /\ CachesAgree /\ LaterCategoriesWin /\ AskInv /\ Classes' = Classes
      /\ Hierarchy(superclass) /\ DOMAIN superclass = Classes /\ methods \in [Classes -> Seq(List)]
  BY <1>0 DEF IndInv, TypeInv, Classes
<1>4. found = Answer(superclass, methods, me.cls, me.sel) /\ found \in Imps \cup {forward_imp}
  <2>1. \A d \in Classes : cache[d][me.sel] # NoImp => cache[d][me.sel] = Answer(superclass, methods, d, me.sel)
    BY <1>1, <1>3, LookupForms DEF CachesAgree
  <2>2. Found(superclass, methods, cache, me.cls, me.sel) = Answer(superclass, methods, me.cls, me.sel)
    BY <1>1, <1>3, <2>1, FoundIsAnswer
  <2>3. found = Found(superclass, methods, cache, me.cls, me.sel)
    BY LookupForms
  <2>4. Answer(superclass, methods, me.cls, me.sel) \in Imps \cup {forward_imp}
    BY <1>1, <1>3, AnswerType
  <2> QED
    BY <2>2, <2>3, <2>4
<1>5. found = forward_imp /\ ~Asks(me, found) => ~me.resolver
  BY DEF Asks
<1> HIDE DEF me, found
<1>6. CASE call' = [call EXCEPT ![t] = resolveMethod_locked(me)] /\ UNCHANGED cache
  <2>1. /\ GoodCall(resolveMethod_locked(me)) /\ HasAsked(resolveMethod_locked(me), asked)
        /\ resolveMethod_locked(me).pc = "resolver" => resolveMethod_locked(me).cls \in realized
    BY <1>0, <1>1, ResolveIsGood
  <2> QED
    BY <1>0, <1>6, <2>1, OnlyCalls
<1>7. CASE ~Asks(me, found) /\ call' = [call EXCEPT ![t] = After(me, found)] /\ cache' \in insert(me, found)
  <2>1. /\ GoodCall(After(me, found)) /\ HasAsked(After(me, found), asked)
        /\ After(me, found).pc = "resolver" => After(me, found).cls \in realized
    BY <1>0, <1>1, <1>2, AfterIsGood
  <2>2. /\ cache' \in [Classes -> [Sels -> Imps \cup {NoImp, forward_imp}]]
        /\ \A c \in Classes, s \in Sels :
             \/ cache'[c][s] = cache[c][s] \/ cache'[c][s] = NoImp
             \/ c = me.cls /\ s = me.sel /\ cache'[c][s] = found /\ isInitialized(c)
    BY <1>1, <1>3, <1>4, <1>7, InsertEffect
  <2>3. \A c \in Classes, s \in Sels : cache'[c][s] # NoImp => c \in realized
    BY <1>0, <1>3, <2>2 DEF RealizeInv
  <2>4. \A c \in Classes, s \in Sels : cache'[c][s] = forward_imp => AskedFirst(c, s, asked')
    <3> SUFFICES ASSUME NEW c \in Classes, NEW s \in Sels, cache'[c][s] = forward_imp
                 PROVE  AskedFirst(c, s, asked)
      BY <1>0
    <3>1. forward_imp # NoImp
      BY MethodLookupAssumption
    <3>2. CASE cache'[c][s] = cache[c][s]
      BY <1>3, <3>2 DEF AskInv
    <3>3. CASE c = me.cls /\ s = me.sel /\ cache'[c][s] = found
      BY <1>2, <1>5, <1>7, <3>3
    <3> QED
      BY <2>2, <3>1, <3>2, <3>3
  <2>5. CachesAgree'
    <3> SUFFICES ASSUME NEW c \in Classes, NEW s \in Sels, cache'[c][s] # NoImp
                 PROVE  isInitialized(c)' /\ cache'[c][s] = getMethod_nolock(c, s)'
      BY <1>3 DEF CachesAgree
    <3>1. getMethod_nolock(c, s)' = Answer(superclass, methods, c, s) /\ getMethod_nolock(c, s) = Answer(superclass, methods, c, s)
      BY <1>0, LookupForms
    <3>2. isInitialized(c) => isInitialized(c)'
      BY <1>0 DEF isInitialized, nonmeta
    <3>3. CASE cache'[c][s] = cache[c][s]
      <4>1. isInitialized(c) /\ cache[c][s] = getMethod_nolock(c, s)
        BY <1>3, <3>3 DEF CachesAgree
      <4> QED
        BY <3>1, <3>2, <3>3, <4>1
    <3>4. CASE c = me.cls /\ s = me.sel /\ cache'[c][s] = found /\ isInitialized(c)
      BY <1>4, <3>1, <3>2, <3>4
    <3> QED
      BY <2>2, <3>3, <3>4
  <2>6. LaterCategoriesWin'
    <3>1. {} \in SUBSET realized /\ \A d \in Classes \ {} : methods'[d] = methods[d]
      BY <1>0
    <3> QED
      BY <1>0, <1>3, <3>1, AttachedStays
  <2> QED
    BY <1>0, <1>3, <1>7, <2>1, <2>2, <2>3, <2>4, <2>5, <2>6, CallStep
<1> QED
  BY <1>0, <1>6, <1>7

LEMMA ResolverKeeps ==
  ASSUME IndInv, NEW t \in Threads, ResolverReturns(t)
  PROVE  IndInv'
<1> DEFINE me == call[t]
           next == [me EXCEPT !.pc = "try"]
<1>0. /\ me.pc = "resolver" /\ asked' = asked \cup {<<Question(me), me.sel>>} /\ call' = [call EXCEPT ![t] = next]
      /\ \/ UNCHANGED <<methods, cache>>
         \/ \E i \in Imps : addMethods(me.cls, [s \in {me.sel} |-> i], FALSE)
      /\ UNCHANGED <<program, superclass, unattached, realized, initialized, loaded>>
  BY DEF ResolverReturns, Goes
<1>1. me \in Calls /\ me.cls \in Classes /\ me.sel \in Sels /\ me.cls \in realized /\ HasAsked(me, asked)
  BY <1>0, CallType
<1>2. next \in Calls /\ next.pc = "try" /\ next.cls = me.cls /\ next.sel = me.sel /\ next.resolver = me.resolver
  BY <1>1 DEF Calls, Pcs
<1> HIDE DEF me, next
<1>3. GoodCall(next) /\ HasAsked(next, asked')
  <2>1. CASE Question(me) = FirstQuestion(me.cls)
    BY <1>0, <1>1, <1>2, <2>1 DEF GoodCall, HasAsked, AskedFirst
  <2>2. CASE Question(me) # FirstQuestion(me.cls)
    BY <1>0, <1>1, <1>2, <2>2 DEF GoodCall, HasAsked, AskedFirst
  <2> QED
    BY <2>1, <2>2
<1>4. /\ TypeInv /\ RealizeInv /\ CachesAgree /\ LaterCategoriesWin /\ AskInv /\ Classes' = Classes
      /\ methods \in [Classes -> Seq(List)]
  BY <1>0 DEF IndInv, TypeInv, Classes
<1>5. methods' \in [Classes -> Seq(List)] /\ CacheLoses /\ StillRight /\ LaterCategoriesWin'
  <2>1. CASE UNCHANGED <<methods, cache>>
    <3>1. {} \in SUBSET realized /\ \A d \in Classes \ {} : methods'[d] = methods[d]
      BY <2>1
    <3>2. LaterCategoriesWin'
      BY <1>0, <1>4, <3>1, AttachedStays
    <3> QED
      BY <1>0, <1>4, <2>1, <3>2, UnchangedLoses, UnchangedRight
  <2>2. ASSUME NEW i \in Imps, addMethods(me.cls, [s \in {me.sel} |-> i], FALSE)
        PROVE  methods' \in [Classes -> Seq(List)] /\ CacheLoses /\ StillRight /\ LaterCategoriesWin'
    <3> DEFINE f == [s \in {me.sel} |-> i]
    <3>1. {me.sel} \in SUBSET Sels /\ f \in [{me.sel} -> Imps]
      BY <1>1
    <3>2. f \in Implementations
      <4> HIDE DEF f
      <4> QED
        BY <3>1 DEF Implementations
    <3>3. addMethods(me.cls, f, FALSE)
      BY <2>2
    <3> HIDE DEF f
    <3> QED
      BY <1>0, <1>1, <3>2, <3>3, AddMethodsKeeps
  <2> QED
    BY <1>0, <2>1, <2>2
<1>6. CachesAgree'
  BY <1>0, <1>4, <1>5, AgreeStays
<1>7. /\ cache' \in [Classes -> [Sels -> Imps \cup {NoImp, forward_imp}]]
      /\ \A c \in Classes, s \in Sels : cache'[c][s] # NoImp => c \in realized
  BY <1>4, <1>5 DEF CacheLoses, RealizeInv
<1>8. \A c \in Classes, s \in Sels : cache'[c][s] = forward_imp => AskedFirst(c, s, asked')
  <2>1. \A c \in Classes, s \in Sels : cache'[c][s] = forward_imp => cache[c][s] = forward_imp
    BY <1>5, MethodLookupAssumption DEF CacheLoses
  <2> QED
    BY <1>0, <1>4, <2>1 DEF AskInv, AskedFirst
<1> QED
  BY <1>0, <1>2, <1>3, <1>5, <1>6, <1>7, <1>8, CallStep

----------------------------------------------------------------------------
(* The theorems.                                                           *)

LEMMA InitEstablishes ==
  ASSUME Init
  PROVE  IndInv
<1>0. /\ program \in Programs /\ superclass = program.superclass
      /\ methods = [c \in Classes |-> <<>>] /\ unattached = [c \in Classes |-> <<>>]
      /\ realized = {} /\ cache = [c \in Classes |-> NothingCached] /\ loaded = 0
      /\ call = [t \in Threads |-> Idle]
  BY DEF Init
<1>1. Hierarchy(superclass) /\ program.categories \in Seq([cls : Classes, imps : Implementations])
  <2>1. /\ NoClass \notin DOMAIN program.superclass
        /\ program.superclass \in [DOMAIN program.superclass -> DOMAIN program.superclass \cup {NoClass}]
        /\ Rooted(program.superclass)
        /\ program.categories \in Seq([cls : DOMAIN program.superclass, imps : Implementations])
    BY <1>0, ProgramsAssumption
  <2> QED
    BY <1>0, <2>1 DEF Hierarchy, Classes
<1>2. cache \in [Classes -> [Sels -> Imps \cup {NoImp, forward_imp}]] /\ \A c \in Classes, s \in Sels : cache[c][s] = NoImp
  BY <1>0, NothingCachedType
<1>3. call \in [Threads -> Calls] /\ \A t \in Threads : call[t].pc = "idle"
  BY <1>0, IdleIsGood DEF GoodCall
<1>4. methods \in [Classes -> Seq(List)] /\ unattached \in [Classes -> Seq(List)]
  <2>1. <<>> \in Seq(List)
    OBVIOUS
  <2> QED
    BY <1>0, <2>1
<1>5. TypeInv
  <2>1. loaded \in 0..Len(program.categories)
    BY <1>0, <1>1
  <2>2. Classes = DOMAIN program.superclass
    BY <1>0 DEF Classes
  <2>3. \A t \in Threads : call[t].pc # "idle" => call[t].cls \in Classes /\ call[t].sel \in Sels
    BY <1>3
  <2>4. realized \in SUBSET Classes /\ program \in Programs
    BY <1>0
  <2> QED
    BY <1>1, <1>2, <1>3, <1>4, <2>1, <2>2, <2>3, <2>4 DEF TypeInv
<1>6. RealizeInv
  BY <1>0, <1>2, <1>3 DEF RealizeInv, AllRealized, Closed, WithMetas
<1>7. CachesAgree
  BY <1>2 DEF CachesAgree
<1>8. AskInv
  BY <1>2, <1>3, MethodLookupAssumption DEF AskInv, HasAsked
<1>9. LaterCategoriesWin
  <2>1. \A c : Loaded(c) = {}
    BY <1>0 DEF Loaded
  <2>2. \A c \in Classes : Waits(unattached[c], Loaded(c)) /\ methods[c] = <<>>
    BY <1>0, <2>1 DEF Waits
  <2> QED
    BY <1>0, <2>2, CategoryForms
<1> QED
  BY <1>5, <1>6, <1>7, <1>8, <1>9 DEF IndInv

LEMMA NextPreserves ==
  ASSUME IndInv, Next
  PROVE  IndInv'
<1>1. ASSUME NEW t \in Threads, NEW m \in Sent, objc_msgSend(t, m[1], m[2]) PROVE IndInv'
  BY <1>1, SendKeeps DEF Sent
<1>2. ASSUME NEW t \in Threads, NEW m \in Sent, class_getInstanceMethod(t, m[1], m[2]) PROVE IndInv'
  BY <1>2, GetMethodKeeps DEF Sent
<1>3. ASSUME NEW t \in Threads, Step(t) PROVE IndInv'
  <2>1. CASE _lookUpImpTryCache(t)
    BY <2>1, TryKeeps
  <2>2. CASE Realize(t)
    BY <2>2, RealizeKeeps
  <2>3. CASE Initialize(t)
    BY <2>3, InitializeKeeps
  <2>4. CASE lookUpImpOrForward(t)
    BY <2>4, LookupKeeps
  <2>5. CASE ResolverReturns(t)
    BY <2>5, ResolverKeeps
  <2> QED
    BY <1>3, <2>1, <2>2, <2>3, <2>4, <2>5 DEF Step
<1>4. CASE load_categories_nolock
  BY <1>4, LoadCategoryKeeps
<1>5. ASSUME NEW c \in realized, NEW new \in NewMethods, NEW replace \in BOOLEAN, class_addMethods(c, new, replace)
      PROVE  IndInv'
  BY <1>5, AddsKeep
<1>6. ASSUME NEW m \in Methods, NEW i \in Imps, method_setImplementation(m, i) PROVE IndInv'
  BY <1>6, SetImplementationKeeps
<1>7. ASSUME NEW m1 \in Methods, NEW m2 \in Methods, method_exchangeImplementations(m1, m2) PROVE IndInv'
  BY <1>7, ExchangeKeeps
<1>8. ASSUME NEW c \in realized, NEW new \in realized, class_setSuperclass(c, new) PROVE IndInv'
  BY <1>8, SetSuperclassKeeps
<1>9. CASE _objc_flush_caches
  BY <1>9, FlushAllKeeps
<1> QED
  BY <1>1, <1>2, <1>3, <1>4, <1>5, <1>6, <1>7, <1>8, <1>9 DEF Next

LEMMA StutterPreserves ==
  ASSUME IndInv, UNCHANGED vars
  PROVE  IndInv'
<1>0. UNCHANGED <<program, superclass, methods, unattached, realized, loaded, initialized, cache, changes, call, asked>>
  BY DEF vars, lists
<1>1. /\ TypeInv /\ LaterCategoriesWin /\ DOMAIN superclass' = Classes /\ Classes' = Classes /\ Hierarchy(superclass')
      /\ methods \in [Classes -> Seq(List)] /\ unattached \in [Classes -> Seq(List)] /\ realized \in SUBSET Classes
      /\ loaded \in 0..Len(program.categories) /\ AllRealized'
  BY <1>0, QuietTypes
<1>2. CacheLoses /\ StillRight
  BY <1>0, <1>1, UnchangedLoses, UnchangedRight
<1>3. LaterCategoriesWin'
  <2>1. {} \in SUBSET realized /\ \A d \in Classes \ {} : methods'[d] = methods[d]
    BY <1>0
  <2> QED
    BY <1>0, <1>1, <2>1, AttachedStays
<1> QED
  BY <1>0, <1>1, <1>2, <1>3, QuietStep

\* The inductive invariant holds: types, superclasses realized before their subclasses
\* and before anything is cached, caches that agree with the method lists, categories
\* in their order, and resolvers that were asked, in objc-runtime-new.mm.
THEOREM LookupInvariance == Spec => []IndInv
<1>1. Init => IndInv
  BY InitEstablishes
<1>2. IndInv /\ [Next]_vars => IndInv'
  BY NextPreserves, StutterPreserves
<1> QED
  BY <1>1, <1>2, PTL DEF Spec

\* The partial flushes of flushCaches and resolveMethod_locked's caching of what was not
\* found are enough: no class ever has anything else in its cache than what its method
\* lists and those of its superclasses answer, and nothing before +initialize.
THEOREM CachesStayRight == Spec => []CachesAgree
<1>1. IndInv => CachesAgree
  BY DEF IndInv
<1> QED
  BY <1>1, LookupInvariance, PTL

\* attachCategories and load_categories_nolock keep the later category first, for every
\* number of categories and every size of the buffer, and lose or repeat none.
THEOREM CategoriesStayOrdered == Spec => []LaterCategoriesWin
<1>1. IndInv => LaterCategoriesWin
  BY DEF IndInv
<1> QED
  BY <1>1, LookupInvariance, PTL

\* resolveMethod_locked asks the resolver of the receiver's own class before the message
\* is forwarded, whatever superclasses have cached.
THEOREM ResolverIsAsked == Spec => []ResolverComesFirst
<1>1. IndInv => ResolverComesFirst
  BY DEF IndInv, AskInv, HasAsked, AskedFirst, ResolverComesFirst
<1> QED
  BY <1>1, LookupInvariance, PTL

=============================================================================
