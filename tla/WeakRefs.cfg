SPECIFICATION Spec
CONSTANTS
  Threads = {t1, t2}
  o1 = o1
  o2 = o2
  Objects = {o1, o2}
  Locations = {v, w}
  Nil = Nil
  Stripe <- MCStripe
  Uninitialized = {o1}
  CustomRR = {o2}
  MaxOwned = 1
SYMMETRY Symmetry
INVARIANTS Registered NobodyWaitsForever
PROPERTIES EachLifetime
CHECK_DEADLOCK FALSE
