CONSTANTS
  Controls = {c1, c2, c3}
  NoSock = NoSock
  MaxToggles = 1
  MaxFailures = 2
  MaxPending = 2
SPECIFICATION FairSessionSpec
INVARIANTS ComesBack OffStaysOff ReadyIsOurs
PROPERTY Recovers
CHECK_DEADLOCK FALSE
