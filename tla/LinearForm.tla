----------------------------- MODULE LinearForm -----------------------------
(***************************************************************************)
(* What a WeightedIntegral sum promises (spec sections 4.5, 4.6): each Sum *)
(* stands for a linear form, one net coefficient per Integral object.      *)
(* Building a sum from one weighted Integral, adding two sums and scaling  *)
(* a sum act on those forms; the order of the terms and how many terms     *)
(* name the same Integral are invisible at this level.                     *)
(***************************************************************************)
EXTENDS Integers

CONSTANTS Integrals, SumIds, Coefficients, Factors

VARIABLE forms     \* forms[s][i]: the net coefficient of Integral i in Sum s

Zero == [i \in Integrals |-> 0]

Make(s, i, c) == forms' = [forms EXCEPT ![s] = [Zero EXCEPT ![i] = c]]

Add(s, t, d) == forms' = [forms EXCEPT ![d] = [i \in Integrals |-> forms[s][i] + forms[t][i]]]

ScaleBy(s, k) == forms' = [forms EXCEPT ![s] = [i \in Integrals |-> forms[s][i] * k]]

Init == forms = [s \in SumIds |-> Zero]

Next ==
    \/ \E s \in SumIds, i \in Integrals, c \in Coefficients : Make(s, i, c)
    \/ \E s, t, d \in SumIds : Add(s, t, d)
    \/ \E s \in SumIds, k \in Factors : ScaleBy(s, k)

Spec == Init /\ [][Next]_forms
=============================================================================
