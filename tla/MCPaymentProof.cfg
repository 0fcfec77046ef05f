SPECIFICATION ProofSpec
CONSTANTS
  g = g
  a1 = a1
  a2 = a2
  b1 = b1
  b2 = b2
  b3 = b3
  p1 = p1
  obs = obs
  NoBlock = NoBlock
  Payment = {p1}
  Consumer = {obs}
  Observer = {obs}
  Block = {g, a1, a2, b1, b2, b3}
  Parent <- MCParent
  Height <- MCHeight
  Carries <- MinedTwice
  Branch <- MCBranch
  Floor = 1
  MaxRev = 4
  Depth = 2
  Birthday = 1
  Batch = 2
  MayRetreat = FALSE
  Configs <- OneConfig
  MaxReorgs = 3
  MaxFails = 1
  MaxStops = 0
INVARIANTS
  ProofIsSound
PROPERTIES
  RevocationOutlivesProof
