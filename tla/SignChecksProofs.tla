-------------------------- MODULE SignChecksProofs --------------------------
(***************************************************************************)
(* Proof that the sign-check search of write_integrand.frm labels every   *)
(* point that needs a check exactly once, for every list of functions,    *)
(* every set of points and every expression.                               *)
(*                                                                         *)
(* The inductive invariant says that the labelled points are exactly the  *)
(* needed points of which no call is left in tmp, that no point is        *)
(* labelled twice, and that the functions before the current one have no  *)
(* call left; at the end every function of the list has none, so tmp is   *)
(* empty and every needed point is labelled.                               *)
(***************************************************************************)
EXTENDS SignChecks, SequenceTheorems, TLAPS

(* Some call at point a is left in t. *)
Left(t, a) == \E c \in t : c[2] = a

(* No call of function f is left in t. *)
Cleared(t, f) == \A a \in Points : <<f, a>> \notin t

IInv ==
    /\ TypeOK
    /\ tmp \subseteq expression
    /\ Range(signCheck) = {a \in Needed : ~Left(tmp, a)}
    /\ IsInjective(signCheck)
    /\ \A k \in 1..fn - 1 : Cleared(tmp, CalIDerivatives[k])
    /\ pc = "done" /\ ContourDeformation => fn = Len(CalIDerivatives) + 1

(* Appending a new element to an injective sequence keeps it injective and *)
(* adds the element to its range.                                          *)
LEMMA AppendAddsToRange ==
    ASSUME NEW S, NEW s \in Seq(S), NEW a \in S
    PROVE  Range(Append(s, a)) = Range(s) \cup {a}
<1>1. Len(Append(s, a)) = Len(s) + 1 /\ DOMAIN Append(s, a) = 1..Len(s) + 1
  BY AppendProperties
<1>2. \A i \in 1..Len(s) : Append(s, a)[i] = s[i]
  BY AppendProperties
<1>3. Append(s, a)[Len(s) + 1] = a
  BY AppendProperties
<1>4. DOMAIN s = 1..Len(s)
  OBVIOUS
<1>. QED
  BY <1>1, <1>2, <1>3, <1>4 DEF Range

LEMMA AppendKeepsInjective ==
    ASSUME NEW S, NEW s \in Seq(S), NEW a \in S,
           IsInjective(s), a \notin Range(s)
    PROVE  IsInjective(Append(s, a))
<1>1. DOMAIN Append(s, a) = 1..Len(s) + 1
  BY AppendProperties
<1>2. \A i \in 1..Len(s) : Append(s, a)[i] = s[i]
  BY AppendProperties
<1>3. Append(s, a)[Len(s) + 1] = a
  BY AppendProperties
<1>4. \A i \in 1..Len(s) : s[i] # a
  BY DEF Range
<1>5. \A i, j \in 1..Len(s) : s[i] = s[j] => i = j
  BY DEF IsInjective
<1>6. \A i, j \in 1..Len(s) + 1 : Append(s, a)[i] = Append(s, a)[j] => i = j
  BY <1>2, <1>3, <1>4, <1>5
<1>. QED
  BY <1>1, <1>6 DEF IsInjective

LEMMA InitIInv == Init => IInv
<1> SUFFICES ASSUME Init PROVE IInv
  OBVIOUS
<1>1. TypeOK
  BY SignChecksAssumption DEF Init, TypeOK, Calls
<1>2. Range(signCheck) = {} /\ IsInjective(signCheck)
  BY DEF Init, Range, IsInjective
<1>3. \A a \in Needed : Left(tmp, a)
  BY DEF Init, Needed, Left
<1>4. \A k \in 1..fn - 1 : Cleared(tmp, CalIDerivatives[k])
  BY DEF Init
<1>5. pc = "done" /\ ContourDeformation => fn = Len(CalIDerivatives) + 1
  BY SignChecksAssumption DEF Init
<1>. QED
  BY <1>1, <1>2, <1>3, <1>4, <1>5 DEF IInv, Init

LEMMA NextIInv == IInv /\ [Next]_vars => IInv'
<1> SUFFICES ASSUME IInv, [Next]_vars PROVE IInv'
  OBVIOUS
<1>0. /\ CalIDerivatives \in Seq(Names)
      /\ Len(CalIDerivatives) \in Nat
  BY SignChecksAssumption
<1>1. CASE \E a \in Points : Match(a)
  <2>1. PICK a \in Points : Match(a)
    BY <1>1
  <2>2. Left(tmp, a)
    BY <2>1 DEF Match, ArgsOf, Left
  <2>3. tmp' = {c \in tmp : c[2] # a}
    BY <2>1 DEF Match
  <2>4. \A b \in Points : Left(tmp', b) <=> Left(tmp, b) /\ b # a
    BY <2>3 DEF Left
  <2>5. a \notin Range(signCheck)
    BY <2>2 DEF IInv
  <2>6. a \in Needed <=> NeedThisCheck(a)
    BY <2>1, <2>2 DEF IInv, Needed, Left, TypeOK, Calls, Match
  <2>7. Range(signCheck') = {b \in Needed : ~Left(tmp', b)} /\ IsInjective(signCheck')
    <3>1. CASE NeedThisCheck(a)
      <4>1. signCheck' = Append(signCheck, a)
        BY <2>1, <3>1 DEF Match, Labelled
      <4>2. Range(signCheck') = Range(signCheck) \cup {a}
        BY <4>1, AppendAddsToRange DEF IInv, TypeOK
      <4>3. IsInjective(signCheck')
        <5>1. signCheck \in Seq(Points) /\ IsInjective(signCheck)
          BY DEF IInv, TypeOK
        <5>. QED
          BY <4>1, <2>5, <5>1, AppendKeepsInjective
      <4>4. Needed \subseteq Points
        BY DEF Needed
      <4>. QED
        BY <4>2, <4>3, <4>4, <2>4, <2>6, <3>1 DEF IInv
    <3>2. CASE ~NeedThisCheck(a)
      <4>1. signCheck' = signCheck
        BY <2>1, <3>2 DEF Match, Labelled
      <4>2. Needed \subseteq Points
        BY DEF Needed
      <4>. QED
        BY <4>1, <4>2, <2>4, <2>6, <3>2 DEF IInv
    <3>. QED
      BY <3>1, <3>2
  <2>8. labelCounterU' \in Nat
    BY <2>1, SignChecksAssumption DEF Match, Labelled, IInv, TypeOK
  <2>9. signCheck' \in Seq(Points)
    BY <2>1 DEF Match, Labelled, IInv, TypeOK
  <2>10. \A k \in 1..fn' - 1 : Cleared(tmp', CalIDerivatives[k])
    BY <2>1, <2>3 DEF Match, IInv, Cleared
  <2>11. tmp' \subseteq expression /\ tmp' \subseteq Calls
    BY <2>3, <2>1 DEF Match, IInv, TypeOK
  <2>. QED
    BY <2>1, <2>7, <2>8, <2>9, <2>10, <2>11 DEF Match, IInv, TypeOK, Needed
<1>2. CASE NextFunction
  <2>1. fn' = fn + 1 /\ fn <= Len(CalIDerivatives) /\ fn \in Nat
    BY <1>2 DEF NextFunction, IInv, TypeOK
  <2>2. \A k \in 1..fn' - 1 : Cleared(tmp', CalIDerivatives[k])
    <3>1. Cleared(tmp', CalIDerivatives[fn])
      BY <1>2 DEF NextFunction, ArgsOf, Cleared
    <3>2. \A k \in 1..fn - 1 : Cleared(tmp', CalIDerivatives[k])
      BY <1>2 DEF NextFunction, Cleared, IInv
    <3>. QED
      BY <2>1, <3>1, <3>2
  <2>3. fn' \in 1..Len(CalIDerivatives) + 1
    BY <2>1 DEF IInv, TypeOK
  <2>. QED
    BY <1>2, <2>2, <2>3 DEF NextFunction, IInv, TypeOK, Needed
<1>3. CASE Finish
  BY <1>3 DEF Finish, IInv, TypeOK, Needed, Cleared
<1>4. CASE Done \/ UNCHANGED vars
  BY <1>4 DEF Done, vars, IInv, TypeOK, Needed, Cleared
<1>. QED
  BY <1>1, <1>2, <1>3, <1>4 DEF Next

(* The search ends with every function's calls gone from tmp, so the      *)
(* labels cover the needed points, each once.                              *)
LEMMA IInvImpliesOneCheck == IInv => OneCheckPerPoint
<1> SUFFICES ASSUME IInv, pc = "done", ContourDeformation
             PROVE  Range(signCheck) = Needed /\ IsInjective(signCheck)
  BY DEF OneCheckPerPoint
<1>1. fn = Len(CalIDerivatives) + 1
  BY DEF IInv
<1>2. \A k \in 1..Len(CalIDerivatives) : Cleared(tmp, CalIDerivatives[k])
  BY <1>1 DEF IInv
<1>3. tmp = {}
  <2>1. SUFFICES ASSUME NEW c \in tmp PROVE FALSE
    OBVIOUS
  <2>2. c[1] \in Functions /\ c[2] \in Points /\ c = <<c[1], c[2]>>
    BY DEF IInv, TypeOK, Calls
  <2>3. PICK k \in DOMAIN CalIDerivatives : CalIDerivatives[k] = c[1]
    BY <2>2 DEF Functions, Range
  <2>4. k \in 1..Len(CalIDerivatives)
    BY <2>3, SignChecksAssumption
  <2>5. <<CalIDerivatives[k], c[2]>> \in tmp
    BY <2>2, <2>3
  <2>. QED
    BY <1>2, <2>2, <2>4, <2>5 DEF Cleared
<1>4. \A a \in Needed : ~Left(tmp, a)
  BY <1>3 DEF Left
<1>. QED
  BY <1>4 DEF IInv

(* For every list of calI and its derivatives, every set of points and    *)
(* every expression, the sign-check search of write_integrand.frm ends    *)
(* with exactly one F label for each point of the expression that is not  *)
(* a corner of zeros and ones.                                             *)
THEOREM OneCheckPerPointHolds == Spec => []OneCheckPerPoint
<1>1. Init => IInv
  BY InitIInv
<1>2. IInv /\ [Next]_vars => IInv'
  BY NextIInv
<1>3. IInv => OneCheckPerPoint
  BY IInvImpliesOneCheck
<1>. QED
  BY <1>1, <1>2, <1>3, PTL DEF Spec
=============================================================================
