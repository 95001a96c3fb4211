SPECIFICATION Spec
CONSTANTS
  Plain = {a, b}
  Guard = Guard
  MaxSaved = 2
INVARIANTS
  FileIsOneSave
  ExportedMeansLoaded
PROPERTY ReadRestores
SYMMETRY PlainSymmetry
