----------------------------- MODULE Deformation ----------------------------
(***************************************************************************)
(* SectorContainerWithDeformation::optimize_deformation_parameters         *)
(* (src/doc/source/cpp_doctest/integrand_container_doctest_basic_usage.cpp *)
(* lines 138-206) and the sign check it relies on (lines 216-226).         *)
(*                                                                         *)
(* Phase 1 walks the Sobol presamples and lowers each component of the     *)
(* deformation parameters to the smallest maximal allowed value seen,      *)
(* clamped into [minimum, maximum].  Phase 2 walks the same samples again  *)
(* and, while a sample fails the sign check Im P(lambda) <= Im P(0),       *)
(* multiplies every component by decrease_factor.                          *)
(*                                                                         *)
(* The samples, the values maximal_allowed_deformation_parameters returns  *)
(* for them, and the outcome of the sign check are the inputs: Init picks  *)
(* every combination of them over small sets.  A deformation parameter     *)
(* value is an element of Values or NaN.  Phase 2 multiplies all           *)
(* components by the same factor, so its state is the number k of         *)
(* decreases: the parameters are lambda1 * decrease_factor^k.  With        *)
(* decrease_factor < 1 the parameters underflow to zero after KMax         *)
(* decreases, where the sign check compares Im P(0) with itself and        *)
(* passes.                                                                 *)
(***************************************************************************)
EXTENDS Naturals

CONSTANTS
    Values,         \* the finite values a deformation parameter takes
    NaN,            \* what maximal_allowed_deformation_parameters may return besides
    Minimum,        \* the argument minimum
    Maximum,        \* the argument maximum
    MaxSamples,     \* bound on number_of_presamples
    MaxDims,        \* bound on number_of_integration_variables
    SobolMaxDim,    \* Sobol_maxdim (40 in the code)
    KMax,           \* decreases after which the parameters are zero
    Monotone        \* TRUE: a sample that passes at lambda passes at every smaller lambda

ASSUME DeformationAssumption ==
    /\ Values \subseteq Nat /\ NaN \notin Values
    /\ Minimum \in Values /\ Maximum \in Values /\ Minimum <= Maximum
    /\ MaxSamples \in Nat /\ MaxDims \in Nat \ {0}
    /\ SobolMaxDim \in Nat /\ KMax \in Nat
    /\ Monotone \in BOOLEAN

Samples == 1..MaxSamples

Dims == 1..MaxDims

Decreases == 0..KMax

(***************************************************************************)
(* The sign check of sample s after k decreases.  Whatever the polynomial, *)
(* it passes once the parameters are zero.  Im P(lambda) - Im P(0) is a   *)
(* polynomial in lambda, so a sample may fail, pass and fail again as      *)
(* lambda shrinks; Monotone rules that out.                                *)
(***************************************************************************)
SignChecks == {c \in [Samples -> [Decreases -> BOOLEAN]] :
                  /\ \A s \in Samples : c[s][KMax]
                  /\ Monotone => \A s \in Samples, m \in Decreases :
                                    c[s][m] => \A m2 \in m..KMax : c[s][m2]}

VARIABLES
    presamples, \* number_of_presamples
    ndims,      \* number_of_integration_variables
    allowed,    \* allowed[s][j]: maximal_allowed_deformation_parameters of sample s
    passes,     \* passes[s][k]: contour_deformation_polynomial_passes_sign_check
    pc,         \* "start", "phase1", "phase2", "done", "error" (gsl_error thrown)
    i,          \* the sample index of the running loop
    lambda,     \* optimized_deformation_parameters after phase 1
    k           \* the decreases phase 2 has applied

vars == <<presamples, ndims, allowed, passes, pc, i, lambda, k>>

TypeOK ==
    /\ presamples \in 0..MaxSamples /\ ndims \in Dims
    /\ allowed \in [Samples -> [Dims -> Values \cup {NaN}]]
    /\ passes \in SignChecks
    /\ pc \in {"start", "phase1", "phase2", "done", "error"}
    /\ i \in 1..MaxSamples + 1
    /\ lambda \in [Dims -> Values]
    /\ k \in Decreases

Init ==
    /\ presamples \in 0..MaxSamples
    /\ ndims \in Dims
    /\ allowed \in [Samples -> [Dims -> Values \cup {NaN}]]
    /\ passes \in SignChecks
    /\ pc = "start" /\ i = 1 /\ k = 0
    /\ lambda = [j \in Dims |-> Maximum]

(***************************************************************************)
(* Entry: no presamples returns maximum for every component at once; more  *)
(* than Sobol_maxdim variables throws gsl_error; otherwise the output      *)
(* starts at maximum and phase 1 begins.                                   *)
(***************************************************************************)
Start ==
    /\ pc = "start"
    /\ pc' = IF presamples = 0 THEN "done"
             ELSE IF ndims > SobolMaxDim THEN "error"
             ELSE "phase1"
    /\ UNCHANGED <<presamples, ndims, allowed, passes, i, lambda, k>>

(***************************************************************************)
(* One component of a phase-1 iteration: a value t inside [minimum,        *)
(* maximum] lowers the component to t, a value below minimum sets it to    *)
(* minimum, anything else (above maximum, NaN) leaves it.  A comparison    *)
(* with NaN is false.  The mutant forgets the branch for values below      *)
(* minimum.                                                                *)
(***************************************************************************)
Below(t, v) == t # NaN /\ t < v

InRange(t) == t # NaN /\ Minimum <= t /\ t <= Maximum

LoweredNoFloor(cur, t) ==
    IF InRange(t) /\ cur > t THEN t ELSE cur

Lowered(cur, t) ==
    IF InRange(t) THEN IF cur > t THEN t ELSE cur
    ELSE IF Below(t, Minimum) THEN Minimum
    ELSE cur

Phase1 ==
    /\ pc = "phase1"
    /\ IF i <= presamples
         THEN /\ lambda' = [j \in Dims |-> IF j <= ndims THEN Lowered(lambda[j], allowed[i][j])
                                            ELSE lambda[j]]
              /\ i' = i + 1 /\ pc' = pc
         ELSE \* the Sobol generator is freed and reallocated: same samples again
              /\ i' = 1 /\ pc' = "phase2" /\ UNCHANGED lambda
    /\ UNCHANGED <<presamples, ndims, allowed, passes, k>>

(***************************************************************************)
(* One iteration of phase 2: sample i passes and the loop moves on, or it  *)
(* fails and every component is multiplied by decrease_factor, and the     *)
(* same sample is checked again.  After the last sample the vector is      *)
(* returned.  The mutants: a decrease that does not change the parameters, *)
(* and an "if" in place of the "while", which moves on after one decrease. *)
(***************************************************************************)
DecreasedSame(n) == n

Decreased(n) == n + 1

Phase2Once ==
    /\ pc = "phase2"
    /\ IF i <= presamples
         THEN IF passes[i][k] THEN i' = i + 1 /\ UNCHANGED k
              ELSE k' = Decreased(k) /\ i' = i + 1
         ELSE UNCHANGED <<i, k>>
    /\ pc' = IF i <= presamples THEN pc ELSE "done"
    /\ UNCHANGED <<presamples, ndims, allowed, passes, lambda>>

Phase2 ==
    /\ pc = "phase2"
    /\ IF i <= presamples
         THEN IF passes[i][k] THEN i' = i + 1 /\ UNCHANGED k
              ELSE k' = Decreased(k) /\ UNCHANGED i
         ELSE UNCHANGED <<i, k>>
    /\ pc' = IF i <= presamples THEN pc ELSE "done"
    /\ UNCHANGED <<presamples, ndims, allowed, passes, lambda>>

(* The function has returned or thrown. *)
Returned == pc \in {"done", "error"} /\ UNCHANGED vars

Next == Start \/ Phase1 \/ Phase2 \/ Returned

(* The optimizer is one sequential call: it keeps running until it returns. *)
Spec == Init /\ [][Next]_vars /\ WF_vars(Start \/ Phase1 \/ Phase2)

-----------------------------------------------------------------------------
(***************************************************************************)
(* Properties.                                                             *)
(***************************************************************************)

(* Reference for phase 1: each component is the smallest value returned    *)
(* for it over the presamples (NaN ignored), clamped into [minimum,        *)
(* maximum]; maximum when there is none.                                   *)
Seen(j) == {allowed[s][j] : s \in 1..presamples} \ {NaN}

Clamped(j) ==
    IF Seen(j) = {} THEN Maximum
    ELSE LET m == CHOOSE m \in Seen(j) : \A t \in Seen(j) : m <= t
         IN  IF m < Minimum THEN Minimum ELSE IF m > Maximum THEN Maximum ELSE m

(* Whatever order the presamples come in, with values above maximum, below *)
(* minimum or NaN, the vector phase 1 leaves (and the one returned without *)
(* presamples) is the clamped componentwise minimum.                       *)
Phase1Clamped ==
    pc \in {"phase2", "done"} => \A j \in 1..ndims : lambda[j] = Clamped(j)

(* The returned parameters pass the sign check on every presample, also on *)
(* those checked before later samples forced further decreases (the        *)
(* comment of lines 191-192: "perform the sign check for each sample").    *)
FinalPassesAll ==
    pc = "done" => \A s \in 1..presamples : passes[s][k]

(* optimize_deformation_parameters returns or throws. *)
Termination == <>(pc \in {"done", "error"})
=============================================================================
