--------------------------- MODULE RequiredOrders ---------------------------
(***************************************************************************)
(* compute_required_orders (src/unnamed/part_004 lines 24-40): how many    *)
(* orders of the coefficient of amplitude amp_idx, in each regulator, are  *)
(* read from lib/<name>_coefficient<amp_idx>.txt so that                   *)
(*     amplitude = integral * prefactor * coefficient                      *)
(* (make_weighted_integral, lines 319-331) is exact up to the requested    *)
(* order.  The returned vector is passed to read_coefficient as the number *)
(* of orders to expand the coefficient to, counted from its lowest order   *)
(* (which the "+ 1" of line 34 presupposes).                               *)
(*                                                                         *)
(* The generated constants (requested_orders, lowest_coefficient_orders,   *)
(* lowest_orders, lowest_prefactor_orders) are inputs chosen in Init; the  *)
(* for loop over the regulators is one step per iteration.                 *)
(***************************************************************************)
EXTENDS Integers, Sequences, FiniteSets

CONSTANTS
    NumRegulators,  \* number_of_regulators
    Orders          \* the orders a generated constant may take

ASSUME RequiredOrdersAssumption ==
    /\ NumRegulators \in Nat
    /\ Orders \subseteq Int /\ IsFiniteSet(Orders)

Regs == 1..NumRegulators

VARIABLES
    requested,  \* requested_orders
    lowestCoef, \* lowest_coefficient_orders.at(amp_idx)
    lowest,     \* lowest_orders of the sub-integral (without prefactor)
    lowestPref, \* lowest_prefactor_orders
    orders,     \* the vector being built
    i           \* the loop index, 1-based

vars == <<requested, lowestCoef, lowest, lowestPref, orders, i>>

Init ==
    /\ requested \in [Regs -> Orders]
    /\ lowestCoef \in [Regs -> Orders]
    /\ lowest \in [Regs -> Orders]
    /\ lowestPref \in [Regs -> Orders]
    /\ orders = << >>
    /\ i = 1

(* One iteration: the count of orders needed, at least 1.  The mutant     *)
(* drops the "+ 1" and so stops one order short.                           *)
RequiredOrderNoPlusOne(r) ==
    LET order == requested[r] - lowestCoef[r] - lowest[r] - lowestPref[r]
    IN  IF order > 0 THEN order ELSE 1

RequiredOrder(r) ==
    LET order == requested[r] + 1 - lowestCoef[r] - lowest[r] - lowestPref[r]
    IN  IF order > 0 THEN order ELSE 1

PushOrder ==
    /\ i <= NumRegulators
    /\ orders' = Append(orders, RequiredOrder(i))
    /\ i' = i + 1
    /\ UNCHANGED <<requested, lowestCoef, lowest, lowestPref>>

(* The vector has been returned to coefficient(). *)
Returned == i > NumRegulators /\ UNCHANGED vars

Next == PushOrder \/ Returned

Spec == Init /\ [][Next]_vars

TypeOK ==
    /\ orders \in Seq(Nat \ {0})
    /\ i \in 1..NumRegulators + 1

-----------------------------------------------------------------------------
(***************************************************************************)
(* Reference: the Laurent product of three series in one regulator.  With *)
(* every coefficient non-zero and of one sign, the coefficient of order k *)
(* of the product changes exactly when a triple of orders summing to k is *)
(* added or removed, so counting triples tells truncations apart.  The    *)
(* series of a regulator factorizes from the others in a nested series.    *)
(***************************************************************************)
Triples(k, A, B, C) == {t \in A \X B \X C : t[1] + t[2] + t[3] = k}

Lowest3(r) == lowest[r] + lowestPref[r] + lowestCoef[r]

(* The untruncated range of a factor with lowest order x: far enough that *)
(* nothing beyond it reaches the requested order.                          *)
Full(x, r) == x .. requested[r] - (Lowest3(r) - x) + 1

(* Once compute_required_orders has returned, the amplitude built with the *)
(* coefficient truncated to the returned numbers of orders agrees, in     *)
(* every regulator and at every order up to the requested one, with the    *)
(* amplitude built with the untruncated coefficient.                      *)
AmplitudeExactThroughRequested ==
    i > NumRegulators =>
        \A r \in Regs :
            LET I == Full(lowest[r], r)
                P == Full(lowestPref[r], r)
            IN  \A k \in Lowest3(r) .. requested[r] :
                    Cardinality(Triples(k, I, P, lowestCoef[r] .. lowestCoef[r] + orders[r] - 1))
                  = Cardinality(Triples(k, I, P, Full(lowestCoef[r], r)))
=============================================================================
