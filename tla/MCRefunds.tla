----------------------------- MODULE MCRefunds -----------------------------
(***************************************************************************)
(* One vendor group, paid one unit of the capture.                         *)
(***************************************************************************)
EXTENDS Refunds, TLC

CONSTANT g1

MCShare == g1 :> 1
Identical == Permutations(Refunds) \cup Permutations(Workers)
=============================================================================
