SPECIFICATION Spec
CONSTANTS
  Rows = 3
  Cols = 2
  Chars = {a}
  NewLine = NewLine
  Empty = Empty
  Pattern = Pattern
  Keys = {"F1", "D", "E"}
  Clocks = 2
  Nesting = FALSE
INVARIANTS
  HiddenOrFollowed
  TextWellFormed
PROPERTIES
  ImplementsConsole
