----------------------------- MODULE MCListings -----------------------------
(***************************************************************************)
(* A sheet that names one product by its code and, in two ways, another    *)
(* item of the vendor's that nothing matches.                              *)
(***************************************************************************)
EXTENDS Listings, TLC

CONSTANTS p1, k1, exact, text, other

MCCode == exact :> p1 @@ text :> Null @@ other :> Null

MCLines ==
  {[ref |-> exact, sku |-> Null, stocked |-> FALSE, cell |-> "paused"],
   [ref |-> text, sku |-> k1, stocked |-> TRUE, cell |-> "unknown"],
   [ref |-> other, sku |-> k1, stocked |-> TRUE, cell |-> "blank"]}

Identical == Permutations(Workers) \cup Permutations(Reviews)
=============================================================================
