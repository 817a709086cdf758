CONSTANTS
  o = o
  u = u
  v = v
  Peers = {o, u, v}
  Owner = o
  N = 2
  Letter <- Plain
  Sources <- AllKnown
  MaxOffers = 1
  Last = 2
  MaxAged = 0
  MaxRemoved = 0
SPECIFICATION MCSpec
PROPERTIES NothingAllowedIsDenied
