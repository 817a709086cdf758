CONSTANTS
  k1 = k1
  k2 = k2
  short = short
  long = long
  None = None
  Broken = Broken
  Keys = {k1, k2}
  Values = {short, long}
  Size <- Sizes
  MaxCells = 5
SPECIFICATION Spec
INVARIANTS OncePerKey SavedIsThere
PROPERTIES KeepsTheFirst
CHECK_DEADLOCK FALSE
