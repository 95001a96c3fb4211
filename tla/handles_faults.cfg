SPECIFICATION RememberSpec
CONSTANTS
  MaxExprs = 2
  MaxGen = 2
  MaxEpoch = 0
  MaxArgs = 2
  Crashes = TRUE
  Timeouts = TRUE
  Coarse = FALSE
  MaxDepth = 1
INVARIANTS
  TypeOK
  OpResolvesOwn
  ReadsOwnUntilRestart
  LostOnlyToStaleFree
  NoOrphanEntry
  WrongHitNeedsRestart
PROPERTIES
  ImplementsStore
