--------------------------- MODULE IntegralProofs ---------------------------
(***************************************************************************)
(* Proofs about the Integral bookkeeping, for every set of Integrals,      *)
(* every lattice table and every backend minimum.                          *)
(***************************************************************************)
EXTENDS Integral, TLAPS

USE IntegralAssumption

(* The realized count of a qmc compute() is a lattice of at least the      *)
(* scheduled count.                                                        *)
LEMMA SmallestLatticeCovers ==
    ASSUME NEW l, NEW m \in Nat, IsSmallestLattice(l, m)
    PROVE  l \in Nat /\ l >= m
BY DEF IsSmallestLattice, QmcRequest

(* The realized count of a cuba compute() is at least the scheduled count. *)
LEMMA CubaRealizedCovers ==
    ASSUME NEW m \in Nat
    PROVE  CubaRealized(m) \in Nat /\ CubaRealized(m) >= m
BY DEF CubaRealized

(* Every step keeps the type of every Integral's state.                   *)
LEMMA TypeStep == TypeOK /\ [Next]_vars => TypeOK'
<1> SUFFICES ASSUME TypeOK, [Next]_vars PROVE TypeOK'
  OBVIOUS
<1>1. ASSUME NEW i \in Integrals, NEW n \in Requests, SetNext(i, n)
      PROVE  TypeOK'
  BY <1>1 DEF SetNext, ScheduledCount, TypeOK, Errors
<1>2. ASSUME NEW i \in Integrals, NEW r \in Nat, Store(i, r)
      PROVE  TypeOK'
  BY <1>2 DEF Store, TypeOK, Errors
<1>3. ASSUME NEW i \in Integrals, ComputeQmc(i) PROVE TypeOK'
  <2>1. PICK l \in Lattices : IsSmallestLattice(l, next[i]) /\ Store(i, l)
    BY <1>3 DEF ComputeQmc
  <2>2. l \in Nat
    BY <2>1, SmallestLatticeCovers DEF TypeOK
  <2>. QED  BY <2>1, <2>2, <1>2
<1>4. ASSUME NEW i \in Integrals, ComputeCuba(i) PROVE TypeOK'
  BY <1>4, <1>2, CubaRealizedCovers DEF ComputeCuba, TypeOK
<1>5. ASSUME NEW i \in Integrals, ComputeDomainError(i) \/ ComputeBackendError(i)
      PROVE  TypeOK'
  BY <1>5 DEF ComputeDomainError, ComputeBackendError, TypeOK, Errors
<1>6. CASE UNCHANGED vars
  BY <1>6 DEF vars, TypeOK
<1>. QED  BY <1>1, <1>3, <1>4, <1>5, <1>6 DEF Next, Compute

(* The state of every Integral keeps its type (spec section 3).           *)
THEOREM TypeCorrect == Spec => []TypeOK
<1>1. Init => TypeOK
  BY DEF Init, TypeOK, InitialNext, NoResult, Errors
<1>. QED  BY <1>1, TypeStep, PTL DEF Spec

(***************************************************************************)
(* NextNotBelowRealized is inductive once the type is known: the only      *)
(* steps that write next are set_next, which clamps against the realized   *)
(* count, and a successful compute(), which writes the same count to both. *)
(***************************************************************************)
IInv == TypeOK /\ NextNotBelowRealized

LEMMA IInvStep == IInv /\ [Next]_vars => IInv'
<1> SUFFICES ASSUME IInv, [Next]_vars PROVE IInv'
  OBVIOUS
<1>1. TypeOK'
  BY TypeStep DEF IInv
<1>2. ASSUME NEW i \in Integrals, NEW n \in Requests, SetNext(i, n)
      PROVE  NextNotBelowRealized'
  BY <1>2 DEF SetNext, ScheduledCount, IInv, TypeOK, NextNotBelowRealized
<1>3. ASSUME NEW i \in Integrals, NEW r \in Nat, Store(i, r)
      PROVE  NextNotBelowRealized'
  BY <1>3 DEF Store, IInv, TypeOK, NextNotBelowRealized
<1>4. ASSUME NEW i \in Integrals, ComputeQmc(i) PROVE NextNotBelowRealized'
  <2>1. PICK l \in Lattices : IsSmallestLattice(l, next[i]) /\ Store(i, l)
    BY <1>4 DEF ComputeQmc
  <2>2. l \in Nat
    BY <2>1, SmallestLatticeCovers DEF IInv, TypeOK
  <2>. QED  BY <2>1, <2>2, <1>3
<1>7. ASSUME NEW i \in Integrals, ComputeCuba(i) PROVE NextNotBelowRealized'
  BY <1>7, <1>3, CubaRealizedCovers DEF ComputeCuba, IInv, TypeOK
<1>5. ASSUME NEW i \in Integrals, ComputeDomainError(i) \/ ComputeBackendError(i)
      PROVE  NextNotBelowRealized'
  BY <1>5 DEF ComputeDomainError, ComputeBackendError, NextNotBelowRealized, IInv
<1>6. CASE UNCHANGED vars
  BY <1>1, <1>6 DEF vars, IInv, NextNotBelowRealized
<1>. QED  BY <1>1, <1>2, <1>4, <1>5, <1>6, <1>7 DEF Next, Compute, IInv

(* The next compute() never asks for fewer samples than the last one       *)
(* realized (the invariant the unit test "should not decrease next number  *)
(* of function evaluations" exercises).                                    *)
THEOREM NextNotBelowRealizedHolds == Spec => []NextNotBelowRealized
<1>1. Init => IInv
  BY DEF Init, IInv, TypeOK, NextNotBelowRealized, InitialNext, NoResult, Errors
<1>. QED  BY <1>1, IInvStep, PTL DEF Spec, IInv

(***************************************************************************)
(* A step never lowers a realized count: set_next and a throwing compute() *)
(* leave it, a successful one realizes at least the scheduled count, which *)
(* by the invariant is at least the realized one.                          *)
(***************************************************************************)
LEMMA MonotoneStep ==
    IInv /\ [Next]_vars => \A i \in Integrals : nfe'[i] >= nfe[i]
<1> SUFFICES ASSUME IInv, [Next]_vars, NEW j \in Integrals PROVE nfe'[j] >= nfe[j]
  OBVIOUS
<1>1. ASSUME NEW i \in Integrals, NEW r \in Nat, r >= next[i], Store(i, r)
      PROVE  nfe'[j] >= nfe[j]
  BY <1>1 DEF Store, IInv, TypeOK, NextNotBelowRealized
<1>2. ASSUME NEW i \in Integrals, ComputeQmc(i) PROVE nfe'[j] >= nfe[j]
  <2>1. PICK l \in Lattices : IsSmallestLattice(l, next[i]) /\ Store(i, l)
    BY <1>2 DEF ComputeQmc
  <2>2. l \in Nat /\ l >= next[i]
    BY <2>1, SmallestLatticeCovers DEF IInv, TypeOK
  <2>. QED  BY <2>1, <2>2, <1>1
<1>3. ASSUME NEW i \in Integrals, ComputeCuba(i) PROVE nfe'[j] >= nfe[j]
  BY <1>3, <1>1, CubaRealizedCovers DEF ComputeCuba, IInv, TypeOK
<1>4. ASSUME NEW i \in Integrals,
             \/ \E n \in Requests : SetNext(i, n)
             \/ ComputeDomainError(i) \/ ComputeBackendError(i)
      PROVE  nfe'[j] >= nfe[j]
  BY <1>4 DEF SetNext, ComputeDomainError, ComputeBackendError, IInv, TypeOK
<1>5. CASE UNCHANGED vars
  BY <1>5 DEF vars, IInv, TypeOK
<1>. QED  BY <1>2, <1>3, <1>4, <1>5 DEF Next, Compute

(* get_number_of_function_evaluations() is non-decreasing in every         *)
(* behaviour (spec section 8, first testable property).                    *)
THEOREM EvaluationsMonotoneHolds == Spec => EvaluationsMonotone
<1>1. Init => IInv
  BY DEF Init, IInv, TypeOK, NextNotBelowRealized, InitialNext, NoResult, Errors
<1>2. [][IInv /\ [Next]_vars => \A i \in Integrals : nfe'[i] >= nfe[i]]_vars
  BY MonotoneStep, PTL
<1>. QED  BY <1>1, <1>2, IInvStep, PTL DEF Spec, EvaluationsMonotone
====
