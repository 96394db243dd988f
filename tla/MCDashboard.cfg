SPECIFICATION DashFairSpec
CONSTANTS
  Vendors <- MCVendors
  Catalogue <- MCVendors
  Lower <- MCLower
  Sells <- MCSells
  Categories = {}
  NoOrder = "no order"
  NoVendor = "no vendor"
  NoCall = "no call"
  NoCategory = "no category"
  MaxRestarts = 0
  Orders = {o1}
  c1 = c1
  c2 = c2
  Sids = {c1, c2, c3}
  MaxAttempts = 3
  ClientOrderIds = FALSE
  Faults = {}
  Slots = {p1, p2}
  MaxFetches = 2
  MaxReadErrors = 2
  Short <- MCShort
INVARIANTS DashTypeOK ShownAsSettled PONamesAcceptor FailedMeansExhausted
PROPERTIES OutcomeShown EveryOrderSettles
CHECK_DEADLOCK FALSE
