SPECIFICATION OrchSpec
CONSTANTS
  Vendors <- MCVendors
  Categories <- MCCategories
  Listed <- MCListed
  Stripped <- MCStripped
  Lowered <- MCLowered
  VendorLists <- MCVendorLists
  DefaultVendors <- MCDefaults
  Preferences <- MCPreferences
  NoOrder = "no order"
  NoVendor = "no vendor"
  NoCall = "no call"
  NoCategory = "no category"
  Orders = {o1, o2, o3}
  Sids = {c1, c2, c3}
  SendsCategory = FALSE
  MaxAttempts = 2
  MaxVendors = 2
  MaxReports = 1
  Faults = {}
  Timeouts = {"call_status", "transcript"}
INVARIANTS OneOnThePhone
CHECK_DEADLOCK FALSE
