--------------------------- MODULE MCOrchestrator ---------------------------
(******************************************************************************)
(* Small instances of Orchestrator: the database knows nobody (two vendors    *)
(* take their place), one vendor, or two, one of them twice with a blank      *)
(* before its name; the dashboard may prefer a vendor in another spelling     *)
(* that stands first or later in the list, or that the database lacks.        *)
(******************************************************************************)
EXTENDS Orchestrator

MCVendors     == {"Acme", " Acme", "ACME", "Birla", "Crest"}
MCCategories  == {"food"}
MCListed      == [c \in MCCategories |-> {"Acme", "Birla", "Crest"}]
MCStripped    == [v \in MCVendors |-> IF v = " Acme" THEN "Acme" ELSE v]
MCLowered     == [v \in MCVendors |->
                     IF v \in {" Acme", "ACME"} THEN "Acme" ELSE v]
MCVendorLists == {<<>>, <<"Birla">>, <<" Acme", "Acme", "Birla">>}
MCDefaults    == <<"Birla", "Acme">>
MCPreferences == {NoVendor, "ACME"}
=============================================================================
