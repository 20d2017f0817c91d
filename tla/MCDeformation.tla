---------------------------- MODULE MCDeformation ---------------------------
EXTENDS Deformation

(* Parameter values 0..3 with minimum 1 and maximum 2: every sample value  *)
(* is below, inside or above the range, or NaN.                            *)
MCValues == 0..3
=============================================================================
