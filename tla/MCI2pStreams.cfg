CONSTANTS
  Dests = {d1}
  NoDest = NoDest
  Msgs = {m1}
  Dest <- ToOne
  Socks = {c1, c2}
  Free = Free
  Num = 1
  MaxTroubles = 3
  MaxTimers = 1
SPECIFICATION FairSpec
INVARIANTS NoGhosts WrittenOnce ConnectEnds
PROPERTY GoesOut
CHECK_DEADLOCK FALSE
