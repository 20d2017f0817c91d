---------------------------- MODULE WeightedSum -----------------------------
(***************************************************************************)
(* The WeightedIntegral algebra of secdecutil::amplitude (spec section     *)
(* 4.5), checked against the merge by identity of module SumTerms.  A    *)
(* Sum is the vector of terms (Integral, coefficient) that the code keeps; *)
(* += and + append the right-hand terms without merging, *= and * scale   *)
(* every coefficient.                                                      *)
(*                                                                         *)
(* amplitude.hpp is not part of src/; the operations are modelled from the *)
(* spec and the tests of src/unnamed/part_000 (lines 210-288, 316-327).    *)
(* Coefficients are integers: the merge sums them exactly, which is what   *)
(* the identity law of spec section 8 requires.                            *)
(***************************************************************************)
EXTENDS SumTerms

CONSTANTS
    SumIds,         \* the Sum variables of a program
    Coefficients,   \* coefficients a WeightedIntegral is built with
    Factors,        \* scalars a Sum is multiplied by
    MaxTerms,       \* bound on the length of a Sum
    MaxCoef         \* bound on the magnitude of a coefficient

ASSUME WeightedSumAssumption ==
    /\ Coefficients \subseteq Int
    /\ Factors \subseteq Int
    /\ MaxTerms \in Nat
    /\ MaxCoef \in Nat

VARIABLE sums      \* sums[s]: the terms of Sum s, in order

(* WeightedIntegral(integral, coefficient) assigned to a Sum variable. *)
MakeWeighted(s, i, c) ==
    sums' = [sums EXCEPT ![s] = << [integral |-> i, coefficient |-> c] >>]

(* d = s + t, and d += t when d = s: the terms of t appended to those of s. *)
Plus(s, t, d) ==
    /\ Len(sums[s]) + Len(sums[t]) <= MaxTerms
    /\ sums' = [sums EXCEPT ![d] = sums[s] \o sums[t]]

(* s *= k: every coefficient multiplied (Scaled), the Integrals left alone. *)
Times(s, k) ==
    /\ \A n \in 1..Len(sums[s]) : sums[s][n].coefficient * k \in -MaxCoef..MaxCoef
    /\ sums' = [sums EXCEPT ![s] = Scaled(sums[s], k)]

Init == sums = [s \in SumIds |-> << >>]

Next ==
    \/ \E s \in SumIds, i \in Integrals, c \in Coefficients : MakeWeighted(s, i, c)
    \/ \E s, t, d \in SumIds : Plus(s, t, d)
    \/ \E s \in SumIds, k \in Factors : Times(s, k)

Spec == Init /\ [][Next]_sums

TypeOK == sums \in [SumIds -> Seq(Terms)]

-----------------------------------------------------------------------------
(***************************************************************************)
(* Refinement: under the merge by identity, every Sum the program builds   *)
(* evaluates to the linear form the algebra promises.  The + and *= steps  *)
(* never merge, so two terms for one Integral (12.5 A + 1.2 B - 1.2 B of   *)
(* the handler test) must still net out exactly when the handler merges.   *)
(***************************************************************************)
LF == INSTANCE LinearForm
        WITH forms <- [s \in SumIds |-> NetCoefficients(sums[s])]

(* Every sequence of +, += and *= on Sums is, after the handler's merge by *)
(* identity, the corresponding sequence of operations on linear forms.     *)
ImplementsLinearForm == LF!Spec
=============================================================================
