SPECIFICATION Spec
SYMMETRY Symmetry
CONSTANTS
  Threads = {t1, t2}
  Values = {v1, v2}
  nil = nil
  MaxHeld = 1
  Keys = {"k", "l"}
  Policies <- MCPolicies
  Slots = {"p"}
  Structs = {"s1", "s2", "s3"}
  StructCopies <- MCStructCopies
  StripeOf <- MCStripeOf
INVARIANTS CountsOwners NoTornAccess
PROPERTIES ImplementsRegisters
