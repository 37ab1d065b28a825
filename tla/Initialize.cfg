SPECIFICATION FairSpec
CONSTANTS
  Threads = {t1, t2}
  Classes <- MCClasses
  NoClass = "Nil"
  Superclass <- MCSuperclass
  Inherits = {"Other"}
  Uses <- MCUses
  Funcs = {f1}
  Forks = TRUE
INVARIANTS InitializeOnce ContiguousSubtree ClaimsAreKept
PROPERTIES MessagesWait SendReturns
CHECK_DEADLOCK FALSE
