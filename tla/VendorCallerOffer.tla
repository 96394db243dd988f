-------------------------- MODULE VendorCallerOffer --------------------------
(******************************************************************************)
(* The vendor calling server implements OrderOffer: an order's offers are     *)
(* the vendors tried, by their spelling-free names, and its outcome is what   *)
(* the status of its chain says.                                              *)
(******************************************************************************)
EXTENDS VendorCaller

OffersOf(c) == [i \in DOMAIN c.tried |-> Lower[c.tried[i]]]

OutcomeOf(c) ==
    CASE c.status = "NONE"      -> "none"
      [] c.status = "FULFILLED" -> "accepted"
      [] c.status = "FAILED"    -> "declined"
      [] c.status = "UNKNOWN"   -> "unclear"
      [] OTHER                  -> "open"

Offer == INSTANCE OrderOffer WITH
    Names <- Vendors,
    MaxOffers <- MaxAttempts,
    offers <- [o \in Orders |-> OffersOf(order_chains[o])],
    outcome <- [o \in Orders |-> OutcomeOf(order_chains[o])]

\* The call chain of cloud_server.py implements the abstract fallback: one
\* vendor at a time, none twice, a bounded number, and a final outcome.
ImplementsOffer == Offer!Spec
=============================================================================
