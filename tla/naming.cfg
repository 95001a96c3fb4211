SPECIFICATION Spec
CONSTANTS
  Texts <- MCTexts
  Atoms <- MCAtoms
  MaxCalls = 3
  MaxOperands = 2
INVARIANTS
  RingCoversOperands
  NamesComeBack
CHECK_DEADLOCK FALSE
