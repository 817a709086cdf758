CONSTANTS
  h1 = h1
  h2 = h2
  Hashes = {h1, h2}
  Hole = Hole
  Names = {"f"}
  Name <- OneName
  Size <- Growing
  MaxKicks <- Kicks
  MaxAdds <- Adds
SPECIFICATION MCSpec
INVARIANTS InOrder ErrorOnlyWhenMixed OneRequestPerKick KnownIsKept
PROPERTIES Completes
CHECK_DEADLOCK FALSE
