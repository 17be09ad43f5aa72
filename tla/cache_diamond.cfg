SPECIFICATION Spec
CONSTANTS
  NULL = NULL
  Main = Main
  datum = datum  left = left  right = right  whole = whole
  page = page  other = other  part = part  path1 = path1  path2 = path2
  Docs <- DiamondDocs
  Kind <- DiamondKind
  Ingr <- DiamondIngr
  Path0 <- DiamondPath0
  Paths = {}
  Threads = {t1, t2}
  Preset = {datum, left, right}
  CanThrow = {}
  MaxOps = 5
  MaxVersion = 2
  MaxClock = 1
INVARIANTS
  CleanMeansFresh
  LocksHaveHolders
PROPERTIES
  OperationsEnd
