------------------------------ MODULE Integral ------------------------------
(***************************************************************************)
(* The stateful Integral of secdecutil::amplitude: one integrand bound to  *)
(* one integrator backend, with its evaluation-count bookkeeping and the   *)
(* cached result of the last successful compute().                        *)
(*                                                                         *)
(* amplitude.hpp itself is not part of src/: the operations are modelled   *)
(* from the spec (sections 4.1-4.3, 7) and from the behaviour that the     *)
(* unit tests in src/unnamed/part_000 (lines 45-207) require of it.        *)
(*                                                                         *)
(* Two backends: "qmc" (QmcIntegral, lattice sizes from a table of         *)
(* generating vectors) and "cuba" (CubaIntegral, Vegas/Suave/Divonne/Cuhre *)
(* with a continuous number of samples).                                   *)
(***************************************************************************)
EXTENDS Naturals, SumTerms

CONSTANTS
    Backend,        \* Backend[i] \in {"qmc", "cuba"}
    Lattices,       \* sizes of the tabulated generating vectors (qmc)
    QmcMinN,        \* the qmc integrator's minn
    CubaMinEval,    \* the cuba integrator's mineval
    Uncertainties,  \* the uncertainty levels a result may carry
    Unc(_, _, _),   \* Unc(i, n, u): a run of i with n samples may report uncertainty u
    Requests        \* counts a caller may pass to set_next_number_of_function_evaluations

ASSUME IntegralAssumption ==
    /\ Backend \in [Integrals -> {"qmc", "cuba"}]
    /\ Lattices \subseteq Nat \ {0}
    /\ QmcMinN \in Nat \ {0}
    /\ CubaMinEval \in Nat \ {0}
    /\ Uncertainties \subseteq Nat
    /\ Requests \subseteq Nat

(* The cached result before the first compute(): the getters throw        *)
(* integral_not_computed_error while computed is FALSE.                    *)
NoResult == [n |-> 0, u |-> 0]

VARIABLES
    computed,   \* a compute() has succeeded at least once
    nfe,        \* number_of_function_evaluations (realized)
    next,       \* next_number_of_function_evaluations (scheduled)
    result,     \* cached integral_result: samples it was computed with and its uncertainty
    error       \* the error the last call threw, "none" if it returned

vars == <<computed, nfe, next, result, error>>

Errors == {"none", "domain_error", "backend_error"}

TypeOK ==
    /\ computed \in [Integrals -> BOOLEAN]
    /\ nfe \in [Integrals -> Nat]
    /\ next \in [Integrals -> Nat]
    /\ result \in [Integrals -> [n : Nat, u : Nat]]
    /\ error \in Errors

(***************************************************************************)
(* The count a backend realizes for a request m: a qmc integrator picks    *)
(* the smallest tabulated lattice at least max(m, minn) (it fails if there *)
(* is none); a cuba integrator uses max(m, mineval) samples.               *)
(***************************************************************************)
QmcRequest(m) == IF m > QmcMinN THEN m ELSE QmcMinN

IsSmallestLattice(l, m) ==
    /\ l \in Lattices
    /\ l >= QmcRequest(m)
    /\ \A l2 \in Lattices : l2 >= QmcRequest(m) => l <= l2

ExceedsLargestLattice(m) == \A l \in Lattices : l < QmcRequest(m)

CubaRealized(m) == IF m > CubaMinEval THEN m ELSE CubaMinEval

(***************************************************************************)
(* The Integral constructor: nothing computed, the scheduled count is the  *)
(* backend's minimum (minn for qmc, mineval for cuba).                     *)
(***************************************************************************)
InitialNext(i) == IF Backend[i] = "qmc" THEN QmcMinN ELSE CubaMinEval

Init ==
    /\ computed = [i \in Integrals |-> FALSE]
    /\ nfe = [i \in Integrals |-> 0]
    /\ next = [i \in Integrals |-> InitialNext(i)]
    /\ result = [i \in Integrals |-> NoResult]
    /\ error = "none"

(***************************************************************************)
(* set_next_number_of_function_evaluations(n): the scheduled count becomes *)
(* n, unless n does not exceed the realized count, which it then keeps.    *)
(* The mutant stores n unclamped.                                          *)
(***************************************************************************)
ScheduledCountUnclamped(i, n) == n

ScheduledCount(i, n) == IF n > nfe[i] THEN n ELSE nfe[i]

SetNext(i, n) ==
    /\ next' = [next EXCEPT ![i] = ScheduledCount(i, n)]
    /\ error' = "none"
    /\ UNCHANGED <<computed, nfe, result>>

(***************************************************************************)
(* compute() that succeeds: the backend runs with the realized count r,    *)
(* which becomes both the realized and the scheduled count; the result and *)
(* the integration time are cached.                                        *)
(***************************************************************************)
Store(i, r) ==
    /\ computed' = [computed EXCEPT ![i] = TRUE]
    /\ nfe' = [nfe EXCEPT ![i] = r]
    /\ next' = [next EXCEPT ![i] = r]
    /\ \E u \in Uncertainties :
          /\ Unc(i, r, u)
          /\ result' = [result EXCEPT ![i] = [n |-> r, u |-> u]]
    /\ error' = "none"

ComputeQmc(i) ==
    /\ Backend[i] = "qmc"
    /\ \E l \in Lattices : IsSmallestLattice(l, next[i]) /\ Store(i, l)

ComputeCuba(i) ==
    /\ Backend[i] = "cuba"
    /\ Store(i, CubaRealized(next[i]))

Compute(i) == ComputeQmc(i) \/ ComputeCuba(i)

(***************************************************************************)
(* compute() that throws: the qmc domain_error when the scheduled count is *)
(* beyond the largest lattice, or an error of the backend or the integrand *)
(* (gsl_error, sign_check_error).  The cached state is left untouched.     *)
(***************************************************************************)
ComputeDomainError(i) ==
    /\ Backend[i] = "qmc"
    /\ ExceedsLargestLattice(next[i])
    /\ error' = "domain_error"
    /\ UNCHANGED <<computed, nfe, next, result>>

ComputeBackendError(i) ==
    /\ error' = "backend_error"
    /\ UNCHANGED <<computed, nfe, next, result>>

Next ==
    \E i \in Integrals :
        \/ \E n \in Requests : SetNext(i, n)
        \/ Compute(i)
        \/ ComputeDomainError(i)
        \/ ComputeBackendError(i)

Spec == Init /\ [][Next]_vars

-----------------------------------------------------------------------------
(***************************************************************************)
(* Properties.                                                             *)
(***************************************************************************)

(* The scheduled count never falls below the realized count: whatever      *)
(* sequence of set_next_number_of_function_evaluations and compute() calls *)
(* (successful or throwing), the next compute() asks for at least as many  *)
(* samples as the last one realized.                                       *)
NextNotBelowRealized ==
    \A i \in Integrals : next[i] >= nfe[i]

(* get_number_of_function_evaluations() never decreases from one call to   *)
(* the next, across set_next and compute() (spec section 8, first item).   *)
EvaluationsMonotone ==
    [][\A i \in Integrals : nfe'[i] >= nfe[i]]_vars

(* Spec section 4.1: set_next_number_of_function_evaluations clamps the    *)
(* scheduled count to max(scheduled, n), so requests to decrease effort    *)
(* are ignored and the scheduled count never goes down.                   *)
ScheduledNeverLowered ==
    [][\A i \in Integrals : next'[i] >= next[i]]_vars

=============================================================================
