----------------------------- MODULE MCDashboard -----------------------------
(******************************************************************************)
(* Small instances of Dashboard: a catalogue of three vendors, without        *)
(* categories, which neither the panel nor the server passes on.              *)
(******************************************************************************)
EXTENDS Dashboard

MCVendors   == {"Acme", "Birla", "Crest"}
MCLower     == [v \in MCVendors |-> v]
MCSells     == [v \in MCVendors |-> {}]

\* Two of the SIDs begin with the same characters.
CONSTANTS c1, c2
MCShort     == [s \in Sids |-> IF s = c2 THEN c1 ELSE s]
=============================================================================
