--------------------------- MODULE MCHireRequests ---------------------------
(***************************************************************************)
(* Every request is between the same customer and ustaad.                  *)
(***************************************************************************)
EXTENDS HireRequests

CONSTANT pair

MCPairOf == [r \in Requests |-> pair]
=============================================================================
