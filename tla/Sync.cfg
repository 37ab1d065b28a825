SPECIFICATION FairSpec
CONSTANTS
  NoThread = NoThread
  NoRecord = NoRecord
  Threads = {t1, t2}
  Objects = {1, 2, 3}
  Records = {d1, d2, d3}
  InitialSlots = 1
  MaxDepth = 2
  MaxCount = 4
  TryEnters = FALSE
  StrayExits = FALSE
INVARIANTS BooksAreExact
PROPERTIES EnterProgress
