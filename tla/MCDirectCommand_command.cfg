SPECIFICATION Spec
CONSTANTS
  a = a
  tab = tab
  Dm = Dm
  Space = Space
  Newline = Newline
  Chars <- AllChars
  White <- WhiteChars
  MaxLength = 7
INVARIANTS
  DirectArrives
  FirstWordAddressed
CHECK_DEADLOCK FALSE
