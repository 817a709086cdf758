CONSTANTS
  o = o
  u = u
  v = v
  Peers = {o, u}
  Owner = o
  N = 3
  Letter <- Revoked
  Sources <- AllKnown
  MaxOffers = 1
  Last = 2
  MaxAged = 1
  MaxRemoved = 1
SPECIFICATION MCSpec
PROPERTIES RuleNeverGoesBack DenialNeedsGap DeletedStaysHere
           BodyFollowsHeader RuleReachesMembers
CHECK_DEADLOCK FALSE
