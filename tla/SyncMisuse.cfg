SPECIFICATION Spec
CONSTANTS
  NoThread = NoThread
  NoRecord = NoRecord
  Threads = {t1, t2}
  Objects = {1, 2}
  Records = {d1, d2}
  InitialSlots = 1
  MaxDepth = 2
  MaxCount = 2
  TryEnters = TRUE
  StrayExits = TRUE
SYMMETRY Symmetry
INVARIANTS ExitSucceeds NeverFatal IndInv
PROPERTIES ImplementsMonitors
