------------------------------ MODULE SumTerms ------------------------------
(***************************************************************************)
(* The terms of a WeightedIntegral sum and the merge by identity that the  *)
(* WeightedIntegralHandler performs before it combines statistics (spec    *)
(* section 4.6): terms that reference the same Integral object have their  *)
(* coefficients summed exactly.  amplitude.hpp is not part of src/; the    *)
(* merge is modelled from the spec and the handler test of                 *)
(* src/unnamed/part_000 (lines 316-327, the sum 12.5 A + 1.2 B - 1.2 B).   *)
(***************************************************************************)
EXTENDS Integers, Sequences

CONSTANT Integrals      \* the Integral objects, compared by identity

Terms == [integral : Integrals, coefficient : Int]

(* A mutant of the merge: a map insert that keeps the first coefficient    *)
(* seen for an Integral instead of accumulating.                           *)
NetCoefficientsFirstWins(terms) ==
    LET net[k \in 0..Len(terms)] ==
          IF k = 0 THEN [i \in Integrals |-> 0]
          ELSE IF net[k - 1][terms[k].integral] = 0
               THEN [net[k - 1] EXCEPT ![terms[k].integral] = terms[k].coefficient]
               ELSE net[k - 1]
    IN  net[Len(terms)]

(* One pass over the terms, adding each coefficient to the net coefficient *)
(* of the Integral it references.                                          *)
NetCoefficients(terms) ==
    LET net[k \in 0..Len(terms)] ==
          IF k = 0 THEN [i \in Integrals |-> 0]
          ELSE [net[k - 1] EXCEPT ![terms[k].integral] = @ + terms[k].coefficient]
    IN  net[Len(terms)]

(* sum *= k and sum * k (part_000 lines 261-286): every coefficient is    *)
(* multiplied by k, the Integrals are left alone.                          *)
Scaled(terms, k) ==
    [n \in 1..Len(terms) |-> [terms[n] EXCEPT !.coefficient = @ * k]]

(* The Integrals a sum still depends on after cancellation. *)
Contributing(terms) == {i \in Integrals : NetCoefficients(terms)[i] # 0}
====
