------------------------- MODULE WeightedAmplitude -------------------------
(***************************************************************************)
(* make_weighted_integral (src/unnamed/part_004 lines 319-331): the        *)
(* amplitude of one sub-integral is the sum of its sector integrals,       *)
(* accumulated from *integrals.begin() over ++integrals.begin() ..         *)
(* integrals.end(), multiplied by the series prefactor * coefficient.      *)
(*                                                                         *)
(* A nested series of sums is abstracted to one regulator with the orders  *)
(* 0..Hi (the lowest order is a shift that changes nothing here); every    *)
(* order holds a sum of WeightedIntegral terms (SumTerms).  The series     *)
(* prefactor * coefficient is one series of scalars, Factor, chosen in     *)
(* Init.  The series operators are those of series.hpp (not under src/):   *)
(* + adds order by order, and since Sum + Sum concatenates the terms, an   *)
(* order of the sum is the concatenation of the orders; * gives order k    *)
(* the sum over i + j = k of a[i] * f[j], truncated where both operands    *)
(* are known (here at Hi), and Sum * scalar scales every coefficient.      *)
(*                                                                         *)
(* With an empty vector of integrals, *integrals.begin() dereferences      *)
(* end(): undefined behaviour, modelled as a crash or as an arbitrary      *)
(* amplitude read from whatever lies there.                                *)
(***************************************************************************)
EXTENDS SumTerms

CONSTANTS
    Hi,             \* the highest order of the series
    MaxSectors,     \* bound on the number of sector integrals
    SectorSums,     \* the sums an order of a sector integral may hold
    Factors         \* the values an order of prefactor * coefficient may take

ASSUME WeightedAmplitudeAssumption ==
    /\ Hi \in Nat /\ MaxSectors \in Nat
    /\ SectorSums \subseteq Seq(Terms)
    /\ Factors \subseteq Int

Orders == 0..Hi

Series == [Orders -> SectorSums]

VARIABLES
    integrals,  \* the std::vector of the sector integrals, as a sequence
    factor,     \* prefactor(...) * coefficient(..., amp_idx)
    amplitude,  \* the returned series
    pc          \* "start", "done" or "crashed"

vars == <<integrals, factor, amplitude, pc>>

TypeOK ==
    /\ integrals \in Seq(Series) /\ Len(integrals) <= MaxSectors
    /\ factor \in [Orders -> Factors]
    /\ amplitude \in [Orders -> Seq(Terms)]
    /\ pc \in {"start", "done", "crashed"}

Init ==
    /\ integrals \in UNION {[1..n -> Series] : n \in 0..MaxSectors}
    /\ factor \in [Orders -> Factors]
    /\ amplitude = [o \in Orders |-> << >>]
    /\ pc = "start"

(* The mutant starts std::accumulate at integrals.begin() instead of      *)
(* ++integrals.begin(), so the first sector is added to itself.            *)
AccumulatedFromBegin ==
    LET acc[n \in 0..Len(integrals)] ==
          IF n = 0 THEN integrals[1]
          ELSE [o \in Orders |-> acc[n - 1][o] \o integrals[n][o]]
    IN  acc[Len(integrals)]

(* std::accumulate(++integrals.begin(), integrals.end(), *integrals.begin()) *)
Accumulated ==
    LET acc[n \in 1..Len(integrals)] ==
          IF n = 1 THEN integrals[1]
          ELSE [o \in Orders |-> acc[n - 1][o] \o integrals[n][o]]
    IN  acc[Len(integrals)]

(* amplitude *= prefactor * coefficient: order k collects a[k - j] * f[j] *)
(* for j = 0..k.                                                           *)
Weighted(a, f) ==
    [k \in Orders |->
        LET p[n \in 0..k + 1] ==
              IF n = 0 THEN << >> ELSE p[n - 1] \o Scaled(a[k - (n - 1)], f[n - 1])
        IN  p[k + 1]]

MakeWeightedIntegral ==
    /\ pc = "start" /\ Len(integrals) > 0
    /\ amplitude' = Weighted(Accumulated, factor)
    /\ pc' = "done"
    /\ UNCHANGED <<integrals, factor>>

(* The empty vector: the dereference of end() faults, or reads garbage.   *)
MakeWeightedIntegralEmpty ==
    /\ pc = "start" /\ Len(integrals) = 0
    /\ \/ pc' = "crashed" /\ UNCHANGED amplitude
       \/ pc' = "done" /\ amplitude' \in Series
    /\ UNCHANGED <<integrals, factor>>

Next == MakeWeightedIntegral \/ MakeWeightedIntegralEmpty

Spec == Init /\ [][Next]_vars

-----------------------------------------------------------------------------
(***************************************************************************)
(* Reference: the net coefficient of Integral i at order k of the weighted *)
(* sum of the sectors, sum over j <= k of f[j] * sum over s of the net     *)
(* coefficient of i at order k - j of sector s.                            *)
(***************************************************************************)
OrderNet(o, i) ==
    LET tot[n \in 0..Len(integrals)] ==
          IF n = 0 THEN 0 ELSE tot[n - 1] + NetCoefficients(integrals[n][o])[i]
    IN  tot[Len(integrals)]

ExpectedNet(k, i) ==
    LET tot[j \in 0..k + 1] ==
          IF j = 0 THEN 0 ELSE tot[j - 1] + factor[j - 1] * OrderNet(k - (j - 1), i)
    IN  tot[k + 1]

(* What make_weighted_integral promises its caller: the call returns, and *)
(* at every order the amplitude depends on every Integral with the net    *)
(* coefficient of the weighted sum of all sectors, each sector once.       *)
AmplitudeIsWeightedSumOfSectors ==
    /\ pc # "crashed"
    /\ pc = "done" =>
         \A k \in Orders, i \in Integrals :
             NetCoefficients(amplitude[k])[i] = ExpectedNet(k, i)

(* The same promise for every sub-integral that has at least one sector,  *)
(* the case the generated code relies on.                                  *)
WeightedSumWhenSectors ==
    Len(integrals) > 0 => AmplitudeIsWeightedSumOfSectors
=============================================================================
