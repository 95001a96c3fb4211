SPECIFICATION FairSpec
CONSTANTS
  MaxCalls = 2
  MaxStarts = 2
  MaxFrees = 1
  Budgets = {{}, {"light"}, {"heavy"}, {"light", "heavy"}}
PROPERTIES
  ImplementsService
  CallEnds
CHECK_DEADLOCK FALSE
