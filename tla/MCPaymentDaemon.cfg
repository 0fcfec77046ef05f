SPECIFICATION DaemonSpec
CONSTANTS
  g = g
  a1 = a1
  b1 = b1
  b2 = b2
  b3 = b3
  c2 = c2
  p1 = p1
  obs = obs
  NoBlock = NoBlock
  Payment = {p1}
  Consumer = {obs}
  Observer = {obs}
  Block = {g, a1, b1, b2, b3, c2}
  Parent <- MCParent
  Height <- MCHeight
  Carries <- MCCarries
  Branch <- MCBranch
  Floor = 2
  MaxRev = 3
  Depth = 2
  Birthday = 1
  Batch = 2
  MayRetreat = TRUE
  Configs <- OrNone
  MaxReorgs = 1
  MaxFails = 1
  MaxStops = 1
INVARIANTS
  LineageComplete
  RevocationFollowsPositive
  OfferedWorkIsCanonical
PROPERTIES
  ImplementsDelivery
