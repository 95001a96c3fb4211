SPECIFICATION Spec
CONSTANTS
  MaxDepth = 3
INVARIANTS
  CallerRestored
  SignalFindsItsTarget
PROPERTIES
  FinallyRunsOnce
