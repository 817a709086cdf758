CONSTANTS
  k = k
  s = s
  z = z
  x = x
  y = y
  w = w
  Nobody = Nobody
  Keys = {k}
  Values = {"good", "broken"}
  Good = {"good"}
  Broken = {"broken"}
  Searches = {s, z}
  Requests = {x, y, w}
  Kind <- MCKind
  For <- MCFor
  Lookups <- MCLookups
  Throttle = 1
  Delay = 1
  Linger = 2
  Forget = 2
  Timeout = 2
  Lasting = 3
  Spread = 1
  MaxSessions = 1
  MaxStops = 1
  Late = 0
  Notices = 5
  Together = FALSE
  Quiet = 3
  Friends = {"q"}
  Second = 2
  Lapse = 3
SPECIFICATION FairSpec
INVARIANTS NothingOverlooked SilenceShows
PROPERTIES EndsOnce LookupsOver AllEnds OnlySilence
CHECK_DEADLOCK FALSE
