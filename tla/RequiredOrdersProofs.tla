------------------------ MODULE RequiredOrdersProofs ------------------------
(***************************************************************************)
(* Proof that the numbers of coefficient orders compute_required_orders    *)
(* returns make the amplitude exact up to the requested order, for every   *)
(* number of regulators and all generated orders.                          *)
(***************************************************************************)
EXTENDS RequiredOrders, TLAPS

USE RequiredOrdersAssumption

(***************************************************************************)
(* AmplitudeExactThroughRequested speaks only of the returned vector.  The *)
(* loop keeps every entry pushed so far equal to RequiredOrder of its      *)
(* regulator, and the vector one entry per iteration long.                 *)
(***************************************************************************)
IInv ==
    /\ requested \in [Regs -> Orders] /\ lowestCoef \in [Regs -> Orders]
    /\ lowest \in [Regs -> Orders] /\ lowestPref \in [Regs -> Orders]
    /\ i \in 1..NumRegulators + 1
    /\ orders \in Seq(Int) /\ Len(orders) = i - 1
    /\ \A r \in 1..i - 1 : orders[r] = RequiredOrder(r)

LEMMA InitIInv == Init => IInv
BY DEF Init, IInv

LEMMA NextIInv == IInv /\ [Next]_vars => IInv'
<1> SUFFICES ASSUME IInv, [Next]_vars PROVE IInv'
  OBVIOUS
<1>1. CASE PushOrder
  <2>1. i \in Regs
    BY <1>1 DEF PushOrder, IInv, Regs
  <2>2. RequiredOrder(i) \in Int
    <3>1. /\ requested[i] \in Int /\ lowestCoef[i] \in Int
          /\ lowest[i] \in Int /\ lowestPref[i] \in Int
      BY <2>1 DEF IInv
    <3>. QED  BY <3>1 DEF RequiredOrder
  <2>3. /\ orders' = Append(orders, RequiredOrder(i)) /\ i' = i + 1
        /\ UNCHANGED <<requested, lowestCoef, lowest, lowestPref>>
    BY <1>1 DEF PushOrder
  <2>4. \A r \in 1..i : orders'[r] = RequiredOrder(r)'
    BY <2>2, <2>3 DEF IInv, RequiredOrder
  <2>5. orders' \in Seq(Int) /\ Len(orders') = i' - 1
    BY <2>2, <2>3 DEF IInv
  <2>6. i' \in 1..NumRegulators + 1
    BY <2>1, <2>3 DEF Regs
  <2>7. /\ requested' \in [Regs -> Orders] /\ lowestCoef' \in [Regs -> Orders]
        /\ lowest' \in [Regs -> Orders] /\ lowestPref' \in [Regs -> Orders]
    BY <2>3 DEF IInv
  <2>. QED  BY <2>3, <2>4, <2>5, <2>6, <2>7 DEF IInv
<1>2. CASE Returned
  BY <1>2 DEF Returned, vars, IInv, RequiredOrder
<1>3. CASE UNCHANGED vars
  BY <1>3 DEF vars, IInv, RequiredOrder
<1>. QED  BY <1>1, <1>2, <1>3 DEF Next

(* The number of coefficient orders compute_required_orders returns, for  *)
(* every regulator, makes the amplitude built with the truncated           *)
(* coefficient agree up to the requested order with the one built with    *)
(* the untruncated coefficient, whatever the number of regulators and the  *)
(* lowest orders of the integral, the prefactor and the coefficient.       *)
THEOREM AmplitudeExactThroughRequestedHolds == Spec => []AmplitudeExactThroughRequested
<1>1. IInv => AmplitudeExactThroughRequested
  <2> SUFFICES ASSUME IInv, i > NumRegulators, NEW r \in Regs,
                      NEW k \in Lowest3(r) .. requested[r]
               PROVE  Triples(k, Full(lowest[r], r), Full(lowestPref[r], r),
                              lowestCoef[r] .. lowestCoef[r] + orders[r] - 1)
                    = Triples(k, Full(lowest[r], r), Full(lowestPref[r], r),
                              Full(lowestCoef[r], r))
    BY DEF AmplitudeExactThroughRequested
  <2>1. r \in 1..i - 1 /\ orders[r] = RequiredOrder(r)
    BY DEF IInv, Regs
  <2>2. /\ requested[r] \in Int /\ lowest[r] \in Int
        /\ lowestPref[r] \in Int /\ lowestCoef[r] \in Int
    BY DEF IInv
  <2> DEFINE q == requested[r]  a == lowest[r]  b == lowestPref[r]  c == lowestCoef[r]
  <2>4. k \in (a + b + c)..q
    BY DEF Lowest3
  <2>3. orders[r] \in Int /\ orders[r] = q + 1 - c - a - b
    BY <2>1, <2>2, <2>4 DEF RequiredOrder
  <2>5. Triples(k, a .. q - ((a + b + c) - a) + 1, b .. q - ((a + b + c) - b) + 1,
                c .. c + orders[r] - 1)
      = Triples(k, a .. q - ((a + b + c) - a) + 1, b .. q - ((a + b + c) - b) + 1,
                c .. q - ((a + b + c) - c) + 1)
    (* the cut loses no triple: with x >= a and y >= b, a triple summing *)
    (* to k <= q has z <= q - a - b = c + orders[r] - 1                      *)
    <3>1. \A x \in a .. q - ((a + b + c) - a) + 1, y \in b .. q - ((a + b + c) - b) + 1,
             z \in Int :
             x + y + z = k =>
               (z \in c .. c + orders[r] - 1 <=> z \in c .. q - ((a + b + c) - c) + 1)
      BY <2>2, <2>3, <2>4
    <3>. QED  BY <3>1 DEF Triples
  <2>. QED  BY <2>5 DEF Full, Lowest3
<1>. QED  BY <1>1, InitIInv, NextIInv, PTL DEF Spec
=============================================================================
