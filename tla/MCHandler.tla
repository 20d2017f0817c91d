----------------------------- MODULE MCHandler ------------------------------
EXTENDS Handler

MCIntegrals == {"A", "B"}

MCBackend == [i \in MCIntegrals |-> IF i = "A" THEN "qmc" ELSE "cuba"]

MCLattices == {4, 8, 12, 16}

(* Three Sums shaped like those of the handler test (part_000 lines       *)
(* 316-320), with integer coefficients: 3 A, 2 A + B, A + B - B.  The     *)
(* second needs both Integrals refined, the third cancels B.               *)
T(i, c) == [integral |-> i, coefficient |-> c]

MCExpression == << << T("A", 3) >>,
                   << T("A", 2), T("B", 1) >>,
                   << T("A", 1), T("B", 1), T("B", -1) >> >>

MCTarget == <<3, 1, 2>>

(* A variant whose second Sum, A + B, can be met with a noisier A.         *)
MCExpressionShared == << << T("A", 3) >>,
                         << T("A", 1), T("B", 1) >>,
                         << T("A", 1), T("B", 1), T("B", -1) >> >>

MCTargetShared == <<3, 2, 2>>

(* An uncertainty that falls with the number of samples. *)
UncOf(n) == IF n < 8 THEN 2 ELSE IF n < 16 THEN 1 ELSE 0

MCUnc(i, n, u) == u = UncOf(n)

(* Sampling noise: a qmc estimate with 8 to 15 samples may come out worse  *)
(* than one with fewer.                                                    *)
MCUncNoisy(i, n, u) ==
    IF i = "A" /\ n >= 8 /\ n < 16 THEN u \in {UncOf(n), 2} ELSE u = UncOf(n)
=============================================================================
