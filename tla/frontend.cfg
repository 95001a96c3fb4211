SPECIFICATION Spec
CONSTANTS
  Names = {"a"}
  Numbers = {"1"}
  InfixOps = {"=", "in", ">", "..", "union", "intersect", "-", "mod", "$", "::", "^", "@", ":-", "->", "or", "and", ":="}
  MaxDepth = 3
  MaxText = 4
  Keys = {"a", "(", ")", ",", ";", "in", "..", "<", ">", "-", "if", "then", "end"}
  MaxLine = 5
  Chars = {"1", ".", "e", "a", "-", ":", "=", ">", "string", "uneval", "x", " ", "n", "#", "%", "&"}
INVARIANTS
  ReadsWhatIsWritten
  NothingLost
  TokensStandAlone
CHECK_DEADLOCK FALSE
