SPECIFICATION Spec
CONSTANTS
  Objects = {o1, o2}
  NoObject = NoObject
  LookBack = 2
  MaxCount = 1
  Environments <- MCEnvironments
  LeakyEnvironments <- MCLeakyEnvironments
  PageSize <- MCPageSize
  MaxPages <- MCMaxPages
  MaxFrames = 2
SYMMETRY Symmetry
INVARIANTS TokensStayValid PagesAreDrained WalkBackEnds
PROPERTIES ImplementsPoolStack
