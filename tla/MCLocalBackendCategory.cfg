SPECIFICATION FairSpec
CONSTANTS
  acme = acme
  birla = birla
  crest = crest
  Vendors <- MCVendors
  Categories <- MCCategories
  Listed <- MCListed
  NoOrder = "no order"
  NoVendor = "no vendor"
  NoCall = "no call"
  NoCategory = "no category"
  Orders = {o1}
  Sids = {c1, c2}
  SendsCategory = FALSE
  MaxAttempts = 2
  MaxReports = 1
  Faults = {}
PROPERTIES DeclineMovesOn
CHECK_DEADLOCK FALSE
