SPECIFICATION Spec
CONSTANTS
  NoThread = NoThread
  NoClass = NoClass
  Threads = {t1, t2}
  Changers = {}
  Classes = {Plain, Raw}
  RawClasses = {Raw}
  RC_HALF = 2
  SideLimit = 16
  MaxRefs = 6
  SpuriousFailure = TRUE
INVARIANTS LockBalanced
CHECK_DEADLOCK FALSE
