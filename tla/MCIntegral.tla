----------------------------- MODULE MCIntegral -----------------------------
(* Two Integrals as in the unit test: A on a qmc integrator whose table    *)
(* starts above minn, B on a cuba integrator; requests below the minimum,  *)
(* between lattices and beyond the largest lattice.                        *)
EXTENDS Integral

MCIntegrals == {"A", "B"}
MCBackend == [i \in MCIntegrals |-> IF i = "A" THEN "qmc" ELSE "cuba"]
MCLattices == {4, 8, 12}
MCUnc(i, n, u) == IF n < 8 THEN u \in {2, 3} ELSE u = 1
MCRequests == {1, 5, 9, 13}
=============================================================================
