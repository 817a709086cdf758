CONSTANTS
  o = o
  a = a
  b = b
  NoPeer = NoPeer
  Peers = {o, a, b}
  Mids = {m1}
  Owner = o
  Sources <- AllKnown
  AtAddress <- SharedAddress
  Retries = 1
  Rules <- MCRules
  MaxForget = 1
  Lossy = TRUE
SPECIFICATION MCSpec
INVARIANTS DeliveredIsKept ShownOncePerMemory OneAnswerPerMemory
PROPERTIES NeverAfterAnswer ImplementsDelivery EveryMemberGetsIt
CHECK_DEADLOCK FALSE
