--------------------------- MODULE MCOrderPayment ---------------------------
(***************************************************************************)
(* o1 can be paid exactly (p1) and by a payment of another amount (p2), o2 *)
(* exactly (p3).  Each cfg chooses which of them take part.                *)
(***************************************************************************)
EXTENDS OrderPayment, TLC

CONSTANTS o1, o2, l1, v1, p1, p2, p3

MCQty == o1 :> (l1 :> 1) @@ o2 :> (l1 :> 2)
OneQty == o1 :> (l1 :> 1)
MCSellerOf == l1 :> v1
MCOrderOf == p1 :> o1 @@ p3 :> o2
OneOrderOf == p1 :> o1 @@ p2 :> o1
MCExact == {p1, p3} \cap Payments

WorkerSymmetry == Permutations(Workers)
=============================================================================
