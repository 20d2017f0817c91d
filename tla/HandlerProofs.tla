---------------------------- MODULE HandlerProofs ----------------------------
(***************************************************************************)
(* Proof that WeightedIntegralHandler::evaluate() keeps every Integral     *)
(* within maxeval (up to the rounding of a qmc request to a lattice), for  *)
(* every expression, every lattice table and every backend, provided the  *)
(* backends' own minima do not exceed maxeval.                            *)
(***************************************************************************)
EXTENDS Handler, WellFoundedInduction, TLAPS

USE IntegralAssumption, HandlerAssumption

(* The integrators' minimum counts (qmc minn, cuba mineval) are at most    *)
(* maxeval.  Without it the first compute() of evaluate() already runs    *)
(* past maxeval: nothing in evaluate() caps a backend's minimum.           *)
MinimaWithinMaxEval == QmcMinN <= MaxEval /\ CubaMinEval <= MaxEval

(* A realized count n of Integral i keeps the effort bound. *)
WithinEffort(i, n) ==
    \/ n <= MaxEval
    \/ Backend[i] = "qmc" /\ \A l \in Lattices : l < n => l < MaxEval

(***************************************************************************)
(* EffortBound speaks of the realized counts only.  The inductive          *)
(* invariant adds that they are natural numbers, and that before the first *)
(* pass of evaluate() nothing has been computed, so that the mineval      *)
(* request of the first pass is not raised by ScheduledCount.              *)
(***************************************************************************)
HInv ==
    /\ nfe \in [Integrals -> Nat]
    /\ phase \in Phases
    /\ phase = "start" => \A i \in Integrals : nfe[i] = 0
    /\ \A i \in Integrals : WithinEffort(i, nfe[i])

(* A scheduled count no longer than the largest lattice has a smallest     *)
(* lattice covering it (the lattice table need not be finite).             *)
LEMMA LeastLattice ==
    ASSUME NEW m \in Nat, ~ExceedsLargestLattice(m)
    PROVE  \E l \in Lattices : IsSmallestLattice(l, m)
<1> DEFINE T == {l \in Lattices : l >= QmcRequest(m)}
<1>0. QmcRequest(m) \in Nat
  BY DEF QmcRequest
<1>1. T \subseteq Nat /\ T # {}
  <2>1. Lattices \subseteq Nat
    BY IntegralAssumption
  <2>2. \E l \in Lattices : l >= QmcRequest(m)
    BY <1>0, <2>1 DEF ExceedsLargestLattice
  <2>. QED  BY <2>1, <2>2
<1>2. PICK x \in T : \A y \in T : ~(<<y, x>> \in OpToRel(<, Nat))
  BY <1>1, NatLessThanWellFounded, WFMin
<1>3. \A y \in T : ~(y < x)
  BY <1>1, <1>2 DEF OpToRel
<1>. QED  BY <1>0, <1>1, <1>3 DEF IsSmallestLattice

(* A compute() scheduled for at most maxeval samples that does not throw   *)
(* realizes a count within the effort bound.                               *)
LEMMA RealizedWithinEffort ==
    ASSUME MinimaWithinMaxEval, NEW i \in Integrals, NEW m \in 0..MaxEval, ~Fails(i, m)
    PROVE  Realized(i, m) \in Nat /\ WithinEffort(i, Realized(i, m))
<1>1. CASE Backend[i] = "qmc"
  <2>1. \E l \in Lattices : IsSmallestLattice(l, m)
    BY <1>1, LeastLattice DEF Fails
  <2>2. IsSmallestLattice(Realized(i, m), m)
    BY <1>1, <2>1 DEF Realized
  <2>3. QmcRequest(m) \in Nat /\ QmcRequest(m) <= MaxEval
    BY DEF QmcRequest, MinimaWithinMaxEval
  <2>4. Realized(i, m) \in Nat
    BY <2>2 DEF IsSmallestLattice
  <2>5. \A l \in Lattices : l < Realized(i, m) => l < QmcRequest(m)
    BY <2>2, <2>3, <2>4 DEF IsSmallestLattice
  <2>. QED  BY <1>1, <2>3, <2>4, <2>5 DEF WithinEffort
<1>2. CASE Backend[i] # "qmc"
  BY <1>2 DEF Realized, CubaRealized, WithinEffort, MinimaWithinMaxEval
<1>. QED  BY <1>1, <1>2

(* A round of compute() calls in which every Integral of D that returned  *)
(* was scheduled for at most maxeval samples and did not throw keeps      *)
(* every realized count within the effort bound.                           *)
LEMMA RecomputeWithinEffort ==
    ASSUME MinimaWithinMaxEval,
           nfe \in [Integrals -> Nat], \A i \in Integrals : WithinEffort(i, nfe[i]),
           NEW D, NEW F, NEW req,
           \A i \in D \cap Integrals : Sched(req, i) \in 0..MaxEval /\ ~Fails(i, Sched(req, i)),
           Recompute(D, F, req)
    PROVE  /\ nfe' \in [Integrals -> Nat]
           /\ \A i \in Integrals : WithinEffort(i, nfe'[i])
<1>1. nfe' = [i \in Integrals |-> IF i \in D THEN Realized(i, Sched(req, i)) ELSE nfe[i]]
  BY DEF Recompute
<1>2. ASSUME NEW i \in Integrals
      PROVE  nfe'[i] \in Nat /\ WithinEffort(i, nfe'[i])
  <2>1. CASE i \in D
    BY <1>1, <2>1, RealizedWithinEffort
  <2>2. CASE i \notin D
    BY <1>1, <2>2
  <2>. QED  BY <2>1, <2>2
<1>. QED  BY <1>1, <1>2

(* The requests of a round: a request above the realized count is kept,   *)
(* and evaluate() asks for at most maxeval.                                *)
LEMMA SchedWithin ==
    ASSUME nfe \in [Integrals -> Nat], NEW i \in Integrals, NEW req,
           req[i] \in 0..MaxEval, nfe[i] <= MaxEval \/ req[i] > nfe[i]
    PROVE  Sched(req, i) \in 0..MaxEval
BY DEF Sched, ScheduledCount

LEMMA InitHInv == HInit => HInv
BY DEF HInit, Init, HInv, Phases, WithinEffort

(* An escalation request lies between the realized count and maxeval. *)
LEMMA EscalationWithin ==
    ASSUME nfe \in [Integrals -> Nat], NEW i \in Integrals, NEW r \in Escalations(i)
    PROVE  r \in 0..MaxEval /\ r > nfe[i]
<1>1. Cap(nfe[i]) \in Int /\ Cap(nfe[i]) <= MaxEval
  BY DEF Cap
<1>. QED  BY <1>1 DEF Escalations

LEMMA NextHInv ==
    ASSUME MinimaWithinMaxEval
    PROVE  HInv /\ [HNext]_hvars => HInv'
<1> SUFFICES ASSUME HInv, [HNext]_hvars PROVE HInv'
  OBVIOUS
<1>1. CASE ComputeInitial
  <2> DEFINE req == [i \in Uncomputed |-> MinEval]
  <2>1. \A i \in Integrals : nfe[i] = 0
    BY <1>1 DEF ComputeInitial, HInv
  <2>2. \A i \in Uncomputed \cap Integrals :
           Sched(req, i) \in 0..MaxEval /\ ~Fails(i, Sched(req, i))
    <3>1. \A i \in Uncomputed \cap Integrals : Sched(req, i) \in 0..MaxEval
      BY <2>1 DEF Sched, ScheduledCount
    <3>. QED  BY <1>1, <3>1 DEF ComputeInitial, RoundOk
  <2>3. Recompute(Uncomputed, {}, req) /\ phase' = "loop"
    BY <1>1 DEF ComputeInitial, RoundOk
  <2>. QED  BY <2>2, <2>3, RecomputeWithinEffort DEF HInv, Phases
<1>2. CASE ComputeInitialFails
  <2> DEFINE req == [i \in Uncomputed |-> MinEval]
  <2>1. \A i \in Integrals : nfe[i] = 0
    BY <1>2 DEF ComputeInitialFails, HInv
  <2>4. PICK f \in Uncomputed : \E D \in SUBSET (Uncomputed \ {f}) :
           /\ \A i \in D : ~Fails(i, Sched(req, i))
           /\ Recompute(D, {f}, req)
           /\ phase' = "failed"
    BY <1>2 DEF ComputeInitialFails, RoundFails
  <2>2. PICK D \in SUBSET (Uncomputed \ {f}) :
           /\ \A i \in D : ~Fails(i, Sched(req, i))
           /\ Recompute(D, {f}, req)
           /\ phase' = "failed"
    BY <2>4
  <2>3. \A i \in D \cap Integrals : Sched(req, i) \in 0..MaxEval
    BY <2>1, <2>2 DEF Sched, ScheduledCount
  <2>. QED  BY <2>2, <2>3, RecomputeWithinEffort DEF HInv, Phases
<1>3. CASE Escalate
  <2>0. PICK E \in SUBSET Candidates \ {{}} :
           \E req \in [E -> UNION {Escalations(i) : i \in E}] :
              /\ \A i \in E : req[i] \in Escalations(i)
              /\ RoundOk(E, req)
    BY <1>3 DEF Escalate
  <2>1. PICK req \in [E -> UNION {Escalations(i) : i \in E}] :
           /\ \A i \in E : req[i] \in Escalations(i)
           /\ RoundOk(E, req)
    BY <2>0
  <2>2. \A i \in E \cap Integrals : Sched(req, i) \in 0..MaxEval
    BY <2>1, EscalationWithin, SchedWithin DEF HInv
  <2>3. /\ \A i \in E : ~Fails(i, Sched(req, i))
        /\ Recompute(E, {}, req) /\ phase' = "loop"
    BY <2>1 DEF RoundOk
  <2>. QED  BY <2>2, <2>3, RecomputeWithinEffort DEF HInv, Phases
<1>4. CASE EscalateFails
  <2>0. PICK E \in SUBSET Candidates \ {{}} :
           \E req \in [E -> UNION {Escalations(i) : i \in E}] :
              /\ \A i \in E : req[i] \in Escalations(i)
              /\ RoundFails(E, req)
    BY <1>4 DEF EscalateFails
  <2>1. PICK req \in [E -> UNION {Escalations(i) : i \in E}] :
           /\ \A i \in E : req[i] \in Escalations(i)
           /\ RoundFails(E, req)
    BY <2>0
  <2>4. PICK f \in E : \E D \in SUBSET (E \ {f}) :
           /\ \A i \in D : ~Fails(i, Sched(req, i))
           /\ Recompute(D, {f}, req)
           /\ phase' = "failed"
    BY <2>1 DEF RoundFails
  <2>2. PICK D \in SUBSET (E \ {f}) :
           /\ \A i \in D : ~Fails(i, Sched(req, i))
           /\ Recompute(D, {f}, req)
           /\ phase' = "failed"
    BY <2>4
  <2>3. \A i \in D \cap Integrals : Sched(req, i) \in 0..MaxEval
    BY <2>1, <2>2, EscalationWithin, SchedWithin DEF HInv
  <2>. QED  BY <2>2, <2>3, RecomputeWithinEffort DEF HInv, Phases
<1>5. CASE NextSum \/ RepeatRound \/ Finish
  BY <1>5 DEF NextSum, RepeatRound, Finish, vars, HInv, Phases, WithinEffort
<1>6. CASE Returned
  BY <1>6 DEF Returned, hvars, vars, HInv, WithinEffort
<1>7. CASE UNCHANGED hvars
  BY <1>7 DEF hvars, vars, HInv, WithinEffort
<1>. QED  BY <1>1, <1>2, <1>3, <1>4, <1>5, <1>6, <1>7 DEF HNext

(* Whatever the expression, the sharing of Integrals between its Sums, the *)
(* order in which evaluate() escalates them and the compute() calls that   *)
(* throw, no Integral realizes more than maxeval samples but for the       *)
(* rounding of a qmc request up to the first lattice past maxeval --       *)
(* provided the backends' minima are within maxeval.                       *)
THEOREM EffortBoundHolds ==
    ASSUME MinimaWithinMaxEval
    PROVE  HSpec => []EffortBound
<1>1. HInv => EffortBound
  <2> SUFFICES ASSUME HInv, NEW i \in Referenced PROVE WithinEffort(i, nfe[i])
    BY DEF EffortBound, WithinEffort
  <2>1. i \in Integrals
    <3>1. PICK k \in Sums : \E t \in Range(Expression[k]) : i = t.integral
      BY DEF Referenced
    <3>2. Expression[k] \in Seq(Terms)
      BY DEF Sums
    <3>3. Range(Expression[k]) \subseteq Terms
      BY <3>2 DEF Range
    <3>. QED  BY <3>1, <3>3 DEF Terms
  <2>. QED  BY <2>1 DEF HInv
<1>. QED  BY <1>1, InitHInv, NextHInv, PTL DEF HSpec
-----------------------------------------------------------------------------
(***************************************************************************)
(* Proof that evaluate() returns only when every Sum is accepted on the    *)
(* final results.  The invariant: in a round that has escalated nothing   *)
(* so far, the Sums already passed are accepted -- nothing has been        *)
(* recomputed since each of them was judged; and once evaluate() has      *)
(* returned normally, every Sum is accepted.  No assumption on the         *)
(* backends' noise is needed: the round flag, not the uncertainties,      *)
(* carries the argument.                                                   *)
(***************************************************************************)
Accepted(k) == Converged(k) \/ Saturated(k)

DInv ==
    /\ phase \in Phases
    /\ cursor \in 1..Len(Expression) + 1
    /\ escalated \in BOOLEAN
    /\ phase = "loop" /\ ~escalated => \A k \in 1..cursor - 1 : Accepted(k)
    /\ phase = "done" => \A k \in Sums : Accepted(k)

(* A step that recomputes nothing leaves every Sum's verdict as it was. *)
LEMMA AcceptedUnchanged ==
    ASSUME UNCHANGED vars, NEW k
    PROVE  Accepted(k)' <=> Accepted(k)
BY DEF vars, Accepted, Converged, Saturated, Variance

LEMMA SumsBound == Len(Expression) \in Nat /\ Sums = 1..Len(Expression)
BY DEF Sums

LEMMA InitDInv == HInit => DInv
<1> SUFFICES ASSUME HInit PROVE DInv
  OBVIOUS
<1>1. phase = "start" /\ cursor = 1 /\ escalated = FALSE
  BY DEF HInit
<1>2. cursor \in 1..Len(Expression) + 1
  BY <1>1, SumsBound
<1>. QED  BY <1>1, <1>2 DEF DInv, Phases

LEMMA NextDInv == DInv /\ [HNext]_hvars => DInv'
<1> SUFFICES ASSUME DInv, [HNext]_hvars PROVE DInv'
  OBVIOUS
<1>1. CASE ComputeInitial
  <2>1. phase' = "loop" /\ cursor' = 1 /\ escalated' = FALSE
    BY <1>1 DEF ComputeInitial, RoundOk
  <2>2. cursor' \in 1..Len(Expression) + 1 /\ 1..cursor' - 1 = {}
    BY <2>1, SumsBound
  <2>. QED  BY <2>1, <2>2 DEF DInv, Phases
<1>2. CASE ComputeInitialFails
  BY <1>2 DEF ComputeInitialFails, RoundFails, DInv, Phases
<1>3. CASE Escalate
  BY <1>3 DEF Escalate, RoundOk, DInv, Phases
<1>4. CASE EscalateFails
  BY <1>4 DEF EscalateFails, RoundFails, DInv, Phases
<1>5. CASE NextSum
  <2>1. /\ UNCHANGED vars /\ phase = "loop" /\ phase' = "loop"
        /\ cursor \in Sums /\ cursor' = cursor + 1 /\ escalated' = escalated
    BY <1>5 DEF NextSum
  <2>3. Accepted(cursor)
    BY <1>5 DEF NextSum, Accepted
  <2>2. \A k : Accepted(k)' <=> Accepted(k)
    BY <2>1, AcceptedUnchanged
  <2>4. ASSUME ~escalated' PROVE \A k \in 1..cursor' - 1 : Accepted(k)'
    <3>1. \A k \in 1..cursor - 1 : Accepted(k)
      BY <2>1, <2>4 DEF DInv
    <3>2. \A k \in 1..cursor' - 1 : k \in 1..cursor - 1 \/ k = cursor
      BY <2>1, SumsBound
    <3>. QED  BY <3>1, <3>2, <2>2, <2>3
  <2>5. cursor' \in 1..Len(Expression) + 1
    BY <2>1, SumsBound
  <2>. QED  BY <2>1, <2>4, <2>5 DEF DInv, Phases
<1>6. CASE RepeatRound
  <2>1. phase' = "loop" /\ cursor' = 1 /\ escalated' = FALSE
    BY <1>6 DEF RepeatRound
  <2>2. cursor' \in 1..Len(Expression) + 1 /\ 1..cursor' - 1 = {}
    BY <2>1, SumsBound
  <2>. QED  BY <2>1, <2>2 DEF DInv, Phases
<1>7. CASE Finish
  <2>1. UNCHANGED vars /\ phase = "loop" /\ phase' = "done" /\ ~escalated
        /\ cursor = Len(Expression) + 1 /\ UNCHANGED <<cursor, escalated>>
    BY <1>7 DEF Finish
  <2>2. \A k : Accepted(k)' <=> Accepted(k)
    BY <2>1, AcceptedUnchanged
  <2>. QED  BY <2>1, <2>2 DEF DInv, Sums, Phases
<1>8. CASE Returned \/ UNCHANGED hvars
  <2>1. UNCHANGED vars /\ UNCHANGED <<phase, cursor, escalated>>
    BY <1>8 DEF Returned, hvars
  <2>2. \A k : Accepted(k)' <=> Accepted(k)
    BY <2>1, AcceptedUnchanged
  <2>. QED  BY <2>1, <2>2 DEF DInv
<1>. QED  BY <1>1, <1>2, <1>3, <1>4, <1>5, <1>6, <1>7, <1>8 DEF HNext

(* Whatever the expression, the sharing of Integrals between its Sums and  *)
(* the noise of the backends, evaluate() returns normally only when every  *)
(* Sum is within its target or saturated on the final cached results.      *)
THEOREM DoneConvergedOrSaturatedHolds == HSpec => []DoneConvergedOrSaturated
<1>1. DInv => DoneConvergedOrSaturated
  BY DEF DInv, DoneConvergedOrSaturated, Accepted, Saturated
<1>. QED  BY <1>1, InitDInv, NextDInv, PTL DEF HSpec
=============================================================================
