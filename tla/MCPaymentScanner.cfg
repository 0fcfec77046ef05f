SPECIFICATION FairScanSpec
CONSTANTS
  g = g
  a1 = a1
  a2 = a2
  a3 = a3
  b2 = b2
  b3 = b3
  p1 = p1
  obs = obs
  fin = fin
  NoBlock = NoBlock
  Payment = {p1}
  Consumer = {obs, fin}
  Observer = {obs}
  Block = {g, a1, a2, a3, b2, b3}
  Parent <- MCParent
  Height <- MCHeight
  Carries <- MinedTwice
  Branch <- MCBranch
  Floor = 1
  MaxRev = 4
  Depth = 2
  Birthday = 1
  Batch = 2
  MayRetreat = TRUE
  Configs <- JoinLater
  MaxReorgs = 2
  MaxFails = 1
  MaxStops = 1
INVARIANTS
  ReadyIsCanonical
  NoStalePositiveQueued
  RevocationIsFinal
PROPERTIES
  CatchesUp
  RevocationIsJustified
