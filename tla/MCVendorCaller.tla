--------------------------- MODULE MCVendorCaller ---------------------------
(******************************************************************************)
(* Small instances of VendorCaller.  The catalogue holds three vendors, one   *)
(* of them in the category "food"; clients may also name "Dutta", which it    *)
(* does not hold, and spell "Acme" as "ACME".                                 *)
(******************************************************************************)
EXTENDS VendorCallerOffer, TLC

MCVendors    == {"Acme", "ACME", "Birla", "Crest", "Dutta"}
MCCatalogue  == {"Acme", "Birla", "Crest"}
MCLower      == [v \in MCVendors |-> IF v = "ACME" THEN "Acme" ELSE v]
MCCategories == {"food"}
MCSells      == [v \in MCVendors |-> IF v = "Crest" THEN {"food"} ELSE {}]

\* SIDs are opaque and handed out by Twilio: any renaming is the same run.
MCSymmetry == Permutations(Sids)
=============================================================================
