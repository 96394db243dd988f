SPECIFICATION Spec
CONSTANTS
  acme = acme
  birla = birla
  crest = crest
  Vendors <- MCVendors
  Categories <- MCCategories
  Listed <- MCListed
  NoOrder = "no order"
  NoVendor = "no vendor"
  NoCall = "no call"
  NoCategory = "no category"
  Orders = {o1, o2}
  Sids = {c1, c2, c3}
  SendsCategory = TRUE
  MaxAttempts = 2
  MaxReports = 2
  Faults = {"no_answer", "twilio_error", "query_error"}
SYMMETRY MCSymmetry
INVARIANTS TypeOK ChainCountsCalls FallbackIsOrderly NotificationIsEarned
CHECK_DEADLOCK FALSE
