--------------------------- MODULE MCReplenishment ---------------------------
(******************************************************************************)
(* Small instances of Replenishment: tables of up to three products, around   *)
(* the bounds of the stock (none, 1, the threshold and above it), selling     *)
(* slowly (one in two days) or fast, with minimum orders of 7 and 50.         *)
(******************************************************************************)
EXTENDS Replenishment

MCProducts ==
    [stock : {0, 1, 8, 20, 21}, velocity : {50, 267, 1000},
     lead_time : {7}, moq : {7, 50}]

MCCatalogues == UNION {[1..n -> MCProducts] : n \in 1..3}
=============================================================================
