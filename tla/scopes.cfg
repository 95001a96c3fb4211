SPECIFICATION Spec
CONSTANTS
  Names = {x, y}
  Qualified = {}
  Objects = {t}
  Plain = {s}
  Items <- Pairs
  Unbound = Unbound
  MaxCalls = 2
  MaxArgs = 2
  MaxItems = 2
  MaxLocals = 1
  MaxBinders = 1
  MaxEnvs = 1
  MaxActive = 3
  Declares = TRUE
SYMMETRY NameSymmetry
INVARIANTS
  WiredToItsArgument
  ClosureReadsAsMaker
PROPERTIES
  BinderRestores
  WriteReachesCaller
  CallerLocalsKept
