SPECIFICATION BridgeFairSpec
CONSTANTS
  Vendors <- MCVendors
  Catalogue <- MCCatalogue
  Lower <- MCLower
  Categories = {}
  Sells <- MCSells
  NoOrder = "no order"
  NoVendor = "no vendor"
  NoCall = "no call"
  NoCategory = "no category"
  MaxRestarts = 0
  Orders = {o1}
  Sids = {c1, c2, c3}
  MaxAttempts = 2
  ClientOrderIds = FALSE
  Faults = {"twilio_error", "no_answer", "session_error", "drop"}
  MaxTries = 2
  BridgeFaults = {"metadata_error", "slow", "lost", "forward_error"}
INVARIANTS BridgeTypeOK AttemptsBounded OutcomeHasCause ReportsAgree
PROPERTIES EveryCallReported
CHECK_DEADLOCK FALSE
