--------------------------- MODULE MCMethodLookup ---------------------------
(* MethodLookup for TLC: a chain of classes with categories, and a chain of  *)
(* metaclasses that ends in the root class.                                  *)
EXTENDS MethodLookup, TLC

CONSTANTS Root, A, B, RootMeta, AMeta, BMeta, p, q

MCNonMeta == (RootMeta :> Root) @@ (AMeta :> A) @@ (BMeta :> B)
MCResolvers == {<<"instance", A>>, <<"instance", B>>, <<"class", AMeta>>, <<"instance", AMeta>>}
None == <<>>

\* Three categories of one class, one more than a buffer holds.
Categories ==
  [superclass |-> (Root :> NoClass) @@ (A :> Root),
   base |-> (Root :> (p :> 1)) @@ (A :> None),
   categories |-> <<[cls |-> A, imps |-> (p :> 1)], [cls |-> A, imps |-> (p :> 2)], [cls |-> A, imps |-> (p :> 1)]>>,
   messages |-> {<<A, p>>}, changes |-> 1]

\* A class and its superclass ask their resolvers for the same selector.
Chain ==
  [superclass |-> (Root :> NoClass) @@ (A :> Root) @@ (B :> A),
   base |-> (Root :> None) @@ (A :> None) @@ (B :> None),
   categories |-> <<>>,
   messages |-> {<<A, p>>, <<B, p>>}, changes |-> 2]

\* Class methods, down to an instance method of the root class.
Metas ==
  [superclass |-> (Root :> NoClass) @@ (A :> Root) @@ (RootMeta :> Root) @@ (AMeta :> RootMeta),
   base |-> (Root :> None) @@ (A :> None) @@ (RootMeta :> None) @@ (AMeta :> None),
   categories |-> <<[cls |-> Root, imps |-> (p :> 2)]>>,
   messages |-> {<<RootMeta, p>>, <<AMeta, p>>}, changes |-> 0]

\* A class method that is inherited until the class gets another superclass.
Moves ==
  [superclass |-> (Root :> NoClass) @@ (A :> Root) @@ (B :> A) @@ (RootMeta :> Root) @@ (AMeta :> RootMeta) @@ (BMeta :> AMeta),
   base |-> (Root :> None) @@ (A :> None) @@ (B :> None) @@ (RootMeta :> None) @@ (AMeta :> (p :> 1)) @@ (BMeta :> None),
   categories |-> <<>>,
   messages |-> {<<BMeta, p>>}, changes |-> 2]

\* Two methods to exchange, one of them overridden.
Swizzle ==
  [superclass |-> (Root :> NoClass) @@ (B :> Root),
   base |-> (Root :> ((p :> 1) @@ (q :> 2))) @@ (B :> (p :> 2)),
   categories |-> <<>>,
   messages |-> {<<B, p>>, <<B, q>>}, changes |-> 2]

MCPrograms == {Categories, Chain, Metas, Moves, Swizzle}
Symmetry == Permutations(Threads)
=============================================================================
