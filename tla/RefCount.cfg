SPECIFICATION Spec
CONSTANTS
  NoThread = NoThread
  NoClass = NoClass
  Threads = {t1, t2, t3}
  Changers = {}
  Classes = {Plain, Raw}
  RawClasses = {Raw}
  RC_HALF = 2
  SideLimit = 16
  MaxRefs = 6
  SpuriousFailure = TRUE
SYMMETRY Symmetry
INVARIANTS RetainCountExact NoPrematureDealloc NoUseAfterFree FreedIsForgotten BorrowFindsCount
PROPERTIES ImplementsLifetime
CHECK_DEADLOCK FALSE
