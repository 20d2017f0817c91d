------------------------- MODULE DeformationProofs --------------------------
(***************************************************************************)
(* Proofs about optimize_deformation_parameters, for every number of       *)
(* presamples and integration variables, every range [minimum, maximum]   *)
(* and every value maximal_allowed_deformation_parameters returns.        *)
(***************************************************************************)
EXTENDS Deformation, TLAPS

USE DeformationAssumption

(***************************************************************************)
(* Phase 1 computes a clamped running minimum.  After n presamples a      *)
(* component holds Maximum if no finite value was seen for it, and the    *)
(* clamp of the smallest finite value seen otherwise.                      *)
(***************************************************************************)
SeenTo(a, j, n) == {a[s][j] : s \in 1..n} \ {NaN}

IsLeast(m, S) == m \in S /\ \A t \in S : m <= t

Clamp(m) == IF m < Minimum THEN Minimum ELSE IF m > Maximum THEN Maximum ELSE m

RunningClamp(a, j, n, v) ==
    IF SeenTo(a, j, n) = {} THEN v = Maximum
    ELSE \E m \in SeenTo(a, j, n) : IsLeast(m, SeenTo(a, j, n)) /\ v = Clamp(m)

(* Phase1Clamped holds only once phase 1 is over; while it runs, every    *)
(* component is the clamped running minimum of the samples walked so far. *)
ClampInv ==
    /\ presamples \in 0..MaxSamples /\ ndims \in Dims
    /\ allowed \in [Samples -> [Dims -> Values \cup {NaN}]]
    /\ lambda \in [Dims -> Values]
    /\ i \in Nat \ {0}
    /\ pc \in {"start", "phase1", "phase2", "done", "error"}
    /\ pc = "start" => i = 1 /\ \A j \in Dims : lambda[j] = Maximum
    /\ pc = "phase1" => /\ i <= presamples + 1
                        /\ \A j \in 1..ndims : RunningClamp(allowed, j, i - 1, lambda[j])
    /\ pc \in {"phase2", "done"} => \A j \in 1..ndims : RunningClamp(allowed, j, presamples, lambda[j])

(* The CHOOSE of Clamped picks the least element when there is one. *)
LEMMA ChooseLeast ==
    ASSUME NEW S \in SUBSET Nat, NEW m \in S, IsLeast(m, S)
    PROVE  (CHOOSE x \in S : \A t \in S : x <= t) = m
<1> DEFINE x == CHOOSE x \in S : \A t \in S : x <= t
<1>1. \E y \in S : \A t \in S : y <= t
  BY DEF IsLeast
<1>2. x \in S /\ \A t \in S : x <= t
  BY <1>1
<1> HIDE DEF x
<1>3. x = m
  BY <1>2 DEF IsLeast
<1>. QED  BY <1>3 DEF x

(* One sample adds its value, unless it is NaN, to the values seen. *)
LEMMA SeenStep ==
    ASSUME NEW j, NEW s \in Nat \ {0}
    PROVE  SeenTo(allowed, j, s) = SeenTo(allowed, j, s - 1) \cup ({allowed[s][j]} \ {NaN})
BY DEF SeenTo

(* Lowered on a clamped minimum m and a finite value t is the clamp of    *)
(* the smaller of the two.                                                 *)
LEMMA LoweredClamp ==
    ASSUME NEW t \in Values, NEW m \in Nat
    PROVE  /\ Lowered(Maximum, t) = Clamp(t)
           /\ t < m => Lowered(Clamp(m), t) = Clamp(t)
           /\ ~(t < m) => Lowered(Clamp(m), t) = Clamp(m)
<1>1. t \in Nat /\ t # NaN /\ Minimum \in Nat /\ Maximum \in Nat /\ Minimum <= Maximum
  OBVIOUS
<1>. QED  BY <1>1 DEF Lowered, InRange, Below, Clamp

(* One component of one phase-1 iteration extends the clamped running    *)
(* minimum by the sample's value: NaN and values above maximum change     *)
(* nothing, a value below minimum floors the component, a value in range  *)
(* lowers it.                                                              *)
LEMMA LoweredStep ==
    ASSUME NEW j \in Dims, NEW s \in Samples,
           allowed \in [Samples -> [Dims -> Values \cup {NaN}]],
           NEW v \in Values, RunningClamp(allowed, j, s - 1, v)
    PROVE  /\ Lowered(v, allowed[s][j]) \in Values
           /\ RunningClamp(allowed, j, s, Lowered(v, allowed[s][j]))
<1> DEFINE t == allowed[s][j]
           S == SeenTo(allowed, j, s - 1)
<1>1. t \in Values \cup {NaN}
  OBVIOUS
<1>2. S \subseteq Nat
  <2>1. \A s2 \in 1..s - 1 : allowed[s2][j] \in Values \cup {NaN}
    BY DEF Samples
  <2>. QED  BY <2>1 DEF SeenTo
<1>3. SeenTo(allowed, j, s) = S \cup ({t} \ {NaN})
  BY SeenStep DEF Samples
<1>4. Lowered(v, t) \in Values
  BY <1>1 DEF Lowered, InRange, Below
<1>5. CASE t = NaN
  <2>1. Lowered(v, t) = v /\ SeenTo(allowed, j, s) = S
    BY <1>3, <1>5 DEF Lowered, InRange, Below
  <2>. QED  BY <1>4, <2>1 DEF RunningClamp
<1>6. CASE t # NaN /\ S = {}
  <2>1. SeenTo(allowed, j, s) = {t} /\ v = Maximum /\ t \in Values
    BY <1>1, <1>3, <1>6 DEF RunningClamp
  <2>2. IsLeast(t, {t})
    <3>1. t \in Nat
      BY <2>1
    <3>. QED  BY <3>1 DEF IsLeast
  <2>3. Lowered(v, t) = Clamp(t)
    BY <2>1, LoweredClamp
  <2>. QED  BY <1>4, <2>1, <2>2, <2>3 DEF RunningClamp
<1>7. CASE t # NaN /\ S # {}
  <2>1. PICK m \in S : IsLeast(m, S) /\ v = Clamp(m)
    BY <1>7 DEF RunningClamp
  <2>2. SeenTo(allowed, j, s) = S \cup {t} /\ t \in Values /\ t \in Nat /\ m \in Nat
    BY <1>1, <1>2, <1>3, <1>7
  <2>3. CASE t < m
    <3>1. IsLeast(t, S \cup {t})
      BY <1>2, <2>1, <2>2, <2>3 DEF IsLeast
    <3>2. Lowered(v, t) = Clamp(t)
      BY <2>1, <2>2, <2>3, LoweredClamp
    <3>. QED  BY <1>4, <2>2, <3>1, <3>2 DEF RunningClamp
  <2>4. CASE ~(t < m)
    <3>1. IsLeast(m, S \cup {t})
      BY <1>2, <2>1, <2>2, <2>4 DEF IsLeast
    <3>2. Lowered(v, t) = Clamp(m)
      BY <2>1, <2>2, <2>4, LoweredClamp
    <3>. QED  BY <1>4, <2>2, <3>1, <3>2 DEF RunningClamp
  <2>. QED  BY <2>3, <2>4
<1>. QED  BY <1>5, <1>6, <1>7

LEMMA InitClampInv == Init => ClampInv
BY DEF Init, ClampInv, Dims

LEMMA NextClampInv == ClampInv /\ [Next]_vars => ClampInv'
<1> SUFFICES ASSUME ClampInv, [Next]_vars PROVE ClampInv'
  OBVIOUS
<1>1. CASE Start
  <2>1. \A j \in 1..ndims : RunningClamp(allowed, j, 0, lambda[j])
    BY <1>1 DEF Start, ClampInv, RunningClamp, SeenTo, Dims
  <2>2. /\ pc' \in {"done", "error", "phase1"} /\ pc = "start" /\ i = 1
        /\ pc' = "done" => presamples = 0
        /\ UNCHANGED <<presamples, ndims, allowed, i, lambda>>
    BY <1>1 DEF Start, ClampInv
  <2>. QED  BY <2>1, <2>2 DEF ClampInv
<1>2. CASE Phase1 /\ i <= presamples
  <2>1. i \in Samples /\ pc = "phase1"
    BY <1>2 DEF Phase1, ClampInv, Samples
  <2>2. /\ lambda' = [j \in Dims |-> IF j <= ndims THEN Lowered(lambda[j], allowed[i][j])
                                      ELSE lambda[j]]
        /\ i' = i + 1 /\ pc' = "phase1"
        /\ UNCHANGED <<presamples, ndims, allowed>>
    BY <1>2, <2>1 DEF Phase1
  <2>3. ASSUME NEW j \in Dims
        PROVE  /\ lambda'[j] \in Values
               /\ j <= ndims => RunningClamp(allowed, j, i, lambda'[j])
    <3>1. CASE j <= ndims
      <4>1. j \in 1..ndims
        BY <3>1 DEF Dims
      <4>2. RunningClamp(allowed, j, i - 1, lambda[j]) /\ lambda[j] \in Values
        BY <2>1, <4>1 DEF ClampInv
      <4>3. /\ Lowered(lambda[j], allowed[i][j]) \in Values
            /\ RunningClamp(allowed, j, i, Lowered(lambda[j], allowed[i][j]))
        BY <2>1, <4>2, LoweredStep DEF ClampInv
      <4>. QED  BY <2>2, <3>1, <4>3
    <3>2. CASE ~(j <= ndims)
      BY <2>2, <3>2 DEF ClampInv
    <3>. QED  BY <3>1, <3>2
  <2>4. lambda' \in [Dims -> Values]
    BY <2>2, <2>3
  <2>5. \A j \in 1..ndims : RunningClamp(allowed, j, i, lambda'[j])
    BY <2>3 DEF ClampInv, Dims
  <2>6. i' \in Nat \ {0} /\ i' <= presamples' + 1
    BY <1>2, <2>1, <2>2 DEF ClampInv, Samples
  <2>7. \A j \in 1..ndims' : RunningClamp(allowed', j, i' - 1, lambda'[j])
    BY <2>1, <2>2, <2>5 DEF Samples
  <2>. QED  BY <2>2, <2>4, <2>6, <2>7 DEF ClampInv
<1>3. CASE Phase1 /\ ~(i <= presamples)
  <2>1. i - 1 = presamples /\ pc' = "phase2" /\ i' = 1
        /\ UNCHANGED <<presamples, ndims, allowed, lambda>>
    BY <1>3 DEF Phase1, ClampInv
  <2>2. \A j \in 1..ndims : RunningClamp(allowed, j, presamples, lambda[j])
    BY <1>3, <2>1 DEF Phase1, ClampInv
  <2>. QED  BY <2>1, <2>2 DEF ClampInv
<1>4. CASE Phase2
  <2>1. /\ pc \in {"phase2"} /\ pc' \in {"phase2", "done"}
        /\ UNCHANGED <<presamples, ndims, allowed, lambda>>
        /\ i' \in Nat \ {0}
    BY <1>4 DEF Phase2, Decreased, ClampInv
  <2>. QED  BY <2>1 DEF ClampInv
<1>5. CASE Returned
  BY <1>5 DEF Returned, vars, ClampInv
<1>6. CASE UNCHANGED vars
  BY <1>6 DEF vars, ClampInv
<1>. QED  BY <1>1, <1>2, <1>3, <1>4, <1>5, <1>6 DEF Next

(* Whatever order the presamples come in and whatever values             *)
(* maximal_allowed_deformation_parameters returns (below minimum, inside  *)
(* the range, above maximum or NaN), the vector phase 1 of lines 172-185  *)
(* leaves, and the one returned without presamples, is the componentwise *)
(* minimum of the finite values clamped into [minimum, maximum].           *)
THEOREM Phase1ClampedHolds == Spec => []Phase1Clamped
<1>1. ClampInv => Phase1Clamped
  <2> SUFFICES ASSUME ClampInv, pc \in {"phase2", "done"}, NEW j \in 1..ndims
               PROVE  lambda[j] = Clamped(j)
    BY DEF Phase1Clamped
  <2>1. RunningClamp(allowed, j, presamples, lambda[j])
    BY DEF ClampInv
  <2>6. SeenTo(allowed, j, presamples) = Seen(j)
    BY DEF SeenTo, Seen
  <2>2. Seen(j) \subseteq Nat
    <3>1. \A s \in 1..presamples : allowed[s][j] \in Values \cup {NaN}
      BY DEF ClampInv, Dims, Samples
    <3>. QED  BY <3>1 DEF Seen
  <2>3. CASE Seen(j) = {}
    BY <2>1, <2>6, <2>3 DEF RunningClamp, Clamped
  <2>4. CASE Seen(j) # {}
    <3>1. PICK m \in Seen(j) : IsLeast(m, Seen(j)) /\ lambda[j] = Clamp(m)
      BY <2>1, <2>6, <2>4 DEF RunningClamp
    <3>2. (CHOOSE x \in Seen(j) : \A t \in Seen(j) : x <= t) = m
      BY <2>2, <3>1, ChooseLeast
    <3>. QED  BY <2>4, <3>1, <3>2 DEF Clamped, Clamp
  <2>. QED  BY <2>3, <2>4
<1>. QED  BY <1>1, InitClampInv, NextClampInv, PTL DEF Spec
=============================================================================
