CONSTANTS
  a = a
  b = b
  w = w
  x = x
  y = y
  z = z
  Peers = {a}
  Writers = {a}
  Line = {w, x, y, z, blank, error}
  Blank = blank
  ErrorLine = error
  MaxHair = 1024
  Texts <- Repeated
  MaxEdits = 2
  MaxOpened = 2
SPECIFICATION Spec
INVARIANTS ShowsWhatWasTyped
