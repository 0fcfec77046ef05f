SPECIFICATION HoldsSpec
CONSTANTS
  u1 = u1
  u2 = u2
  h1 = h1
  h2 = h2
  p1 = p1
  NoLimit = NoLimit
  User = {u1, u2}
  Purchase = {p1}
  Buyer <- BuyerIsU1
  Price <- PriceTwo
  MaxBalance = 1
  Hold = {h1, h2}
  Owner <- OwnerIsU1
  Call <- SameCall
  FirstParty = {h1}
  Developer = u2
  Terms <- OneTerm
  Limit <- Uncapped
  Totals = {TRUE}
  MaxReserve = 1
  MaxNow = 1
  MaxRevision = 0
INVARIANTS
  DebtBlocksSpending
  BoundaryHolds
  CursorMatchesJournal
