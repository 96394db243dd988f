SPECIFICATION Spec
CONSTANTS
  acme = acme
  birla = birla
  crest = crest
  Vendors <- MCVendors
  Categories <- MCCategories
  Listed <- MCListed
  NoOrder = "no order"
  NoVendor = "no vendor"
  NoCall = "no call"
  NoCategory = "no category"
  Orders = {o1}
  Sids = {c1, c2, c3}
  SendsCategory = TRUE
  MaxAttempts = 2
  MaxReports = 3
  Faults = {}
INVARIANTS AttemptsBounded
CHECK_DEADLOCK FALSE
