-------------------------------- MODULE MCCart --------------------------------
(***************************************************************************)
(* Several devices and double submits of one cart.                         *)
(***************************************************************************)
EXTENDS Cart, TLC

Identical == Permutations(Listings) \cup Permutations(Taps) \cup Permutations(Checkouts)
===============================================================================
