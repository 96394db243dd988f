--------------------------- MODULE MCRemoteBridge ---------------------------
(******************************************************************************)
(* Small instances of RemoteBridge: a catalogue of three vendors, one more    *)
(* than an order may be offered to, without spellings and categories, which   *)
(* the reports have nothing to do with.                                       *)
(******************************************************************************)
EXTENDS RemoteBridge

MCVendors   == {"Acme", "Birla", "Crest"}
MCCatalogue == MCVendors
MCLower     == [v \in MCVendors |-> v]
MCSells     == [v \in MCVendors |-> {}]
=============================================================================
