-------------------------- MODULE MCRequiredOrders --------------------------
(* Two regulators; poles and requested orders from -2 to 1, so that the    *)
(* clamp to one order and counts above one both occur.                     *)
EXTENDS RequiredOrders

MCOrders == -2..1
=============================================================================
