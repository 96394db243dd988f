SPECIFICATION Spec
CONSTANTS
  Vendors <- MCVendors
  Catalogue <- MCCatalogue
  Lower <- MCLower
  Categories <- MCCategories
  Sells <- MCSells
  NoOrder = "no order"
  NoVendor = "no vendor"
  NoCall = "no call"
  NoCategory = "no category"
  MaxRestarts = 1
  Orders = {o1, o2}
  Sids = {c1, c2, c3, c4}
  MaxAttempts = 3
  ClientOrderIds = FALSE
  Faults = {"twilio_error", "catalogue_error", "no_answer", "session_error", "drop", "restart"}
SYMMETRY MCSymmetry
INVARIANTS TypeOK ChainAligned OneOfferAtATime StatusIsEarned FirstSidShowsLatest OwnTranscriptKept AgentKnowsItsVendor
PROPERTIES SettledIsFinal CategoryFirst ImplementsOffer
CHECK_DEADLOCK FALSE
