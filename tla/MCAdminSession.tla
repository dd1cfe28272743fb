--------------------------- MODULE MCAdminSession ---------------------------
(***************************************************************************)
(* Two tabs with one request each.                                         *)
(***************************************************************************)
EXTENDS AdminSession, TLC

CONSTANTS t1, t2, q1, q2

MCTabOf == q1 :> t1 @@ q2 :> t2
=============================================================================
