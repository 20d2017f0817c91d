---------------------------- MODULE MCSignChecks ----------------------------
(* Two functions of the list, calI and one derivative, called at four    *)
(* points of two arguments: a corner that needs no check and three points *)
(* where a variable x is left.                                             *)
EXTENDS SignChecks

CONSTANTS calI, dcalI, x

MCNames == {calI, dcalI}

MCCalIDerivatives == <<calI, dcalI>>

MCPoints == {<<0, 1>>, <<x, 1>>, <<0, x>>, <<x, x>>}
=============================================================================
