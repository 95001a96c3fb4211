SPECIFICATION Spec
CONSTANTS
  MaxExprs = 2
  MaxGen = 2
  MaxEpoch = 0
  MaxArgs = 2
  Crashes = TRUE
  Timeouts = FALSE
  Coarse = FALSE
INVARIANTS
  ReadsOwn
