SPECIFICATION Spec
CONSTANTS
  NoClass = NoClass
  NoImp = NoImp
  forward_imp = forward_imp
  Root = Root
  A = A
  B = B
  RootMeta = RootMeta
  AMeta = AMeta
  BMeta = BMeta
  p = p
  q = q
  Threads = {t1, t2}
  Sels = {p, q}
  Imps = {1, 2}
  Metaclasses = {RootMeta, AMeta, BMeta}
  Resolvers <- MCResolvers
  NonMeta <- MCNonMeta
  Programs <- MCPrograms
  ATTACH_BUFSIZ = 2
  MaxLists = 4
INVARIANTS CachesAgree LaterCategoriesWin ResolverComesFirst
SYMMETRY Symmetry
