SPECIFICATION RememberSpec
CONSTANTS
  MaxExprs = 2
  MaxGen = 1
  MaxEpoch = 2
  MaxArgs = 2
  Crashes = FALSE
  Timeouts = FALSE
  Coarse = TRUE
  MaxDepth = 2
INVARIANTS
  ReadsOwn
  LiveEntryKept
  HitIsOwn
