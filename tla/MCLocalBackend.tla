--------------------------- MODULE MCLocalBackend ---------------------------
(******************************************************************************)
(* Small instances of LocalBackend: three vendors listed for "food" (one      *)
(* more than an order may be offered to), one for "decor".                    *)
(******************************************************************************)
EXTENDS LocalBackend, TLC

CONSTANTS acme, birla, crest

MCVendors    == {acme, birla, crest}
MCCategories == {"food", "decor"}
MCListed     == [c \in MCCategories |->
                    IF c = "food" THEN MCVendors ELSE {crest}]

\* SIDs and order ids are opaque, and nothing tells the two vendors apart that
\* are listed for the same category: any renaming of them is the same run.
MCSymmetry == Permutations(Sids) \cup Permutations(Orders)
                  \cup Permutations({acme, birla})
=============================================================================
