SPECIFICATION JournalSpec
CONSTANTS
  g = g
  h = h
  a1 = a1
  b1 = b1
  p1 = p1
  obs = obs
  fin = fin
  NoBlock = NoBlock
  Payment = {p1}
  Consumer = {obs, fin}
  Observer = {obs}
  Block = {g, h, a1, b1}
  Parent <- MCParent
  Height <- MCHeight
  Carries <- OnePayment
  Floor = 2
  MaxRev = 2
PROPERTIES
  HandoffIsComplete
