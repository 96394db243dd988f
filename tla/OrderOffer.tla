----------------------------- MODULE OrderOffer -----------------------------
(******************************************************************************)
(* What the vendor fallback promises, whatever places the calls: an order     *)
(* is offered to one vendor at a time, to no vendor twice and to at most      *)
(* MaxOffers vendors; once it has an outcome it is not offered again.  The    *)
(* service keeps its orders in memory and may forget all of them.             *)
(******************************************************************************)
EXTENDS Integers, Sequences

CONSTANTS Orders, Names, MaxOffers

VARIABLES
    offers,     \* order -> the names it was offered to, in order
    outcome     \* order -> "none", "open", or how it was settled

offer_vars == <<offers, outcome>>

Outcomes == {"accepted", "declined", "unclear"}

TypeInv ==
    /\ offers \in [Orders -> Seq(Names)]
    /\ outcome \in [Orders -> Outcomes \cup {"none", "open"}]

Init ==
    /\ offers = [o \in Orders |-> <<>>]
    /\ outcome = [o \in Orders |-> "none"]

Open(o, n) ==
    /\ outcome[o] = "none"
    /\ offers' = [offers EXCEPT ![o] = <<n>>]
    /\ outcome' = [outcome EXCEPT ![o] = "open"]

OfferNext(o, n) ==
    /\ outcome[o] = "open"
    /\ Len(offers[o]) < MaxOffers
    /\ \A i \in DOMAIN offers[o] : offers[o][i] # n
    /\ offers' = [offers EXCEPT ![o] = Append(@, n)]
    /\ UNCHANGED outcome

Settle(o, r) ==
    /\ outcome[o] = "open"
    /\ outcome' = [outcome EXCEPT ![o] = r]
    /\ UNCHANGED offers

ForgetAll ==
    /\ offers' = [o \in Orders |-> <<>>]
    /\ outcome' = [o \in Orders |-> "none"]

Next ==
    \/ \E o \in Orders, n \in Names : Open(o, n) \/ OfferNext(o, n)
    \/ \E o \in Orders, r \in Outcomes : Settle(o, r)
    \/ ForgetAll

Spec == Init /\ [][Next]_offer_vars
=============================================================================
