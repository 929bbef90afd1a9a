SPECIFICATION SpecScreens
CONSTANTS
  Rows = 2
  Cols = 2
  Chars = {a}
  NewLine = NewLine
  Empty = Empty
  Pattern = Pattern
  Keys = {"F1"}
  Clocks = 1
  Nesting = TRUE
  Depths = {0, 24, 32}
INVARIANTS
  TypeOK
  DamageBounded
  StoresInside
  ScreenWellFormed
