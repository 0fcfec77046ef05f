SPECIFICATION HoldsSpec
CONSTANTS
  u1 = u1
  u2 = u2
  h1 = h1
  h2 = h2
  p1 = p1
  NoLimit = NoLimit
  User = {u1}
  Purchase = {}
  Buyer <- BuyerIsU1
  Price <- PriceTwo
  MaxBalance = 2
  Hold = {h1, h2}
  Owner <- OwnerIsU1
  Call <- SameCall
  FirstParty = {}
  Developer = u1
  Terms <- OneTerm
  Limit <- AnyLimit
  Totals = {TRUE, FALSE}
  MaxReserve = 2
  MaxNow = 2
  MaxRevision = 1
SYMMETRY SameAttempts
INVARIANTS
  HeldIsOpenHolds
  WindowsAddUp
  ClearingIsOwed
  ReservedIsCollectable
  OneChargePerCall
  SplitOnce
