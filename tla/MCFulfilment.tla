---------------------------- MODULE MCFulfilment ----------------------------
(***************************************************************************)
(* One order of two vendors, two callers that each read a group before     *)
(* they save it.                                                           *)
(***************************************************************************)
EXTENDS Fulfilment, TLC
=============================================================================
