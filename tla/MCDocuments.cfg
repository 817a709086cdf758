CONSTANTS
  a = a
  b = b
  w = w
  x = x
  y = y
  z = z
  Peers = {a, b}
  Writers = {a, b}
  Line = {w, x, y, z, blank, error}
  Blank = blank
  ErrorLine = error
  MaxHair = 2
  Texts <- Pages
  MaxEdits = 2
  MaxOpened = 2
SPECIFICATION FairSpec
PROPERTIES KeepsHistory EditsReachAll
CHECK_DEADLOCK FALSE
