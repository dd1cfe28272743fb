--------------------------- MODULE MCSearchOutbox ---------------------------
(***************************************************************************)
(* One product that two vendors list, one in each of two cities; the first *)
(* vendor may move to the other city and back, or lose its city.           *)
(***************************************************************************)
EXTENDS SearchOutbox, TLC

CONSTANTS cement, pune, nashik, v1, v2

MCListings == {<<v1, cement>>, <<v2, cement>>}
MCHome == v1 :> pune @@ v2 :> nashik
MCMoves == {<<v1, pune>>, <<v1, nashik>>, <<v1, Null>>}
Identical == Permutations(Writers) \cup Permutations(Workers)
=============================================================================
