CONSTANTS
  Others = {q1, q2, q3}
  Addrs = {here, a1, a2, a3, a4}
  Here = here
  NoAddr = NoAddr
  Free = Free
  Limit = 2
  Home <- HomeOfEach
  Loaded <- RightOrWrong
  Nowhere = a4
  Order <- OneBucket
  Slots = {1, 2, 3}
  MaxTroubles = 2
SPECIFICATION Spec
PROPERTY FreshStays
CHECK_DEADLOCK FALSE
