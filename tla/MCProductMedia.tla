--------------------------- MODULE MCProductMedia ---------------------------
(* Instances of ProductMedia for TLC.                                      *)
EXTENDS ProductMedia, TLC

AllGood == [m \in Media |-> "good"]
=============================================================================
