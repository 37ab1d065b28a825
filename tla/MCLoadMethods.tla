--------------------------- MODULE MCLoadMethods ----------------------------
(* LoadMethods for TLC: a library whose class list has the subclass first,   *)
(* bundles with subclasses and categories of each other's classes, and an    *)
(* image without +load methods.                                              *)
EXTENDS LoadMethods, TLC

MCClassList ==
  "lib" :> <<"B", "A">> @@ "one" :> <<"C">> @@ "two" :> <<"D">> @@ "three" :> <<"E">> @@ "cat" :> <<>> @@ "plain" :> <<>>
MCCategoryList ==
  "lib" :> <<"A+x">> @@ "one" :> <<"B+y", "C+z">> @@ "two" :> <<>> @@ "three" :> <<"D+w">> @@ "cat" :> <<"B+u">> @@
  "plain" :> <<>>
MCsuper == "A" :> "nil" @@ "M" :> "A" @@ "B" :> "M" @@ "C" :> "B" @@ "D" :> "A" @@ "E" :> "C"
MCclass_of == "A+x" :> "A" @@ "B+y" :> "B" @@ "C+z" :> "C" @@ "D+w" :> "D" @@ "B+u" :> "B"
MCNeeds ==
  "lib" :> {} @@ "one" :> {"lib"} @@ "two" :> {"lib"} @@ "three" :> {"one", "two"} @@ "cat" :> {"lib"} @@
  "plain" :> {}
=============================================================================
