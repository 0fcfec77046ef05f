SPECIFICATION FairSpec
CONSTANTS
  a = a
  b = b
  p1 = p1
  p2 = p2
  obs = obs
  NoBlock = NoBlock
  Payment = {p1, p2}
  Consumer = {obs}
  Observer = {obs}
  Block = {a, b}
  Parent <- MCParent
  Height <- MCHeight
  Carries <- TwoPayments
  Floor = 2
  MaxRev = 1
  Configs <- OneConfig
  MaxStops = 1
INVARIANTS
  NothingLost
PROPERTIES
  RevocationsArrive
  PromiseKept
  HooksInOrder
  NoPositiveAfterRevocation
