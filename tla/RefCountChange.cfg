SPECIFICATION FairSpec
CONSTANTS
  NoThread = NoThread
  NoClass = NoClass
  Threads = {t1, t2}
  Changers = {t1}
  Classes = {Plain, Raw}
  RawClasses = {Raw}
  RC_HALF = 2
  SideLimit = 16
  MaxRefs = 6
  SpuriousFailure = FALSE
INVARIANTS RetainCountCovers IndInv
PROPERTIES DeallocFinishes
CHECK_DEADLOCK FALSE
