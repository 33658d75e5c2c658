SPECIFICATION Spec
CONSTANTS
  Shells = {s1, s2}
  Keys = {"letter", "back", "shiftL", "left", "right", "keypadEnter"}
  Rollover = 2
  LineMax = 5
  Cols = 2
  Rows = 2
  Prompt <- OneString
INVARIANTS
  TypeOK
  LineIsTyped
  CursorOnScreen
  
SYMMETRY Sym
