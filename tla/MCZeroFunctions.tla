--------------------------- MODULE MCZeroFunctions ---------------------------
(* Three groups of two, one and two functions, with a contour deformation, *)
(* so that a group can have no, one or two nonzero functions.             *)
EXTENDS ZeroFunctions

CONSTANTS p1, p2, f1, d1, d2

MCDecomposedPolynomialDerivatives == <<p1, p2>>

MCFunctionsList == <<f1>>

MCDeformedDerivatives == <<d1, d2>>
=============================================================================
