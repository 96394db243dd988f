SPECIFICATION OrchFairSpec
CONSTANTS
  Vendors <- MCVendors
  Categories <- MCCategories
  Listed <- MCListed
  Stripped <- MCStripped
  Lowered <- MCLowered
  VendorLists <- MCVendorLists
  DefaultVendors <- MCDefaults
  Preferences <- MCPreferences
  NoOrder = "no order"
  NoVendor = "no vendor"
  NoCall = "no call"
  NoCategory = "no category"
  Orders = {o1, o2}
  Sids = {c1, c2, c3}
  SendsCategory = FALSE
  MaxAttempts = 2
  MaxVendors = 2
  MaxReports = 1
  Faults = {"no_answer", "twilio_error", "query_error"}
  Timeouts = {"call_vendor", "call_status", "transcript", "decision"}
INVARIANTS OrchTypeOK HardCap PreferredFirst AttemptsFollowAnswers
PROPERTIES ImplementsOffer PurchaseEnds
CHECK_DEADLOCK FALSE
