------------------------------ MODULE Handler -------------------------------
(***************************************************************************)
(* WeightedIntegralHandler::evaluate() (spec section 4.6) driving the      *)
(* Integrals of module Integral.  The handler walks the Sums of its        *)
(* expression in rounds; for the current Sum it merges the terms by        *)
(* identity, combines the uncertainties of the contributing Integrals and, *)
(* while the Sum is neither within its target nor saturated at maxeval,   *)
(* schedules larger counts for some of its Integrals (set_next) and        *)
(* recomputes them.  An Integral may be shared by several Sums: escalating *)
(* it for a later Sum changes what an earlier Sum was judged on.           *)
(*                                                                         *)
(* amplitude.hpp is not part of src/: modelled from the spec and the       *)
(* handler tests of src/unnamed/part_000 (lines 290-435).                  *)
(*                                                                         *)
(* Numbers are abstracted to integers.  An uncertainty is an element of    *)
(* Uncertainties that Unc allows for the realized count; a Sum's target is *)
(* an absolute uncertainty Target[k], standing for the clamped             *)
(* max(epsrel * |value|, epsabs) of the code; the extrapolated count       *)
(* (current_n * (u / target)^(1/p)) is any count above the realized one,  *)
(* capped by current_n * maxincreasefac and by maxeval as the spec says.   *)
(***************************************************************************)
EXTENDS Integral, Functions

CONSTANTS
    Expression,     \* the Sums: a sequence of sequences of terms
    Target,         \* Target[k]: the target uncertainty of Sum k
    MinEval,        \* the handler's mineval
    MaxEval,        \* the handler's maxeval
    IncNum, IncDen  \* maxincreasefac = IncNum / IncDen

ASSUME HandlerAssumption ==
    /\ Expression \in Seq(Seq(Terms))
    /\ Target \in [1..Len(Expression) -> Nat]
    /\ MinEval \in Nat /\ MaxEval \in Nat /\ MinEval <= MaxEval
    /\ IncNum \in Nat /\ IncDen \in Nat \ {0} /\ IncNum > IncDen

VARIABLES
    phase,      \* "start", "loop", "done" or "failed" (evaluate() threw)
    cursor,     \* the index of the Sum being judged; Len + 1 past the last
    escalated   \* some Integral was escalated in the current round

hvars == <<vars, phase, cursor, escalated>>

Phases == {"start", "loop", "done", "failed"}

Sums == 1..Len(Expression)

Net(k) == NetCoefficients(Expression[k])

(* Every Integral some Sum references, cancelled or not. *)
Referenced == UNION {{t.integral : t \in Range(Expression[k])} : k \in Sums}

(***************************************************************************)
(* The squared uncertainty of Sum k from the cached results: the sum over  *)
(* the contributing Integrals of (net coefficient * uncertainty)^2.        *)
(***************************************************************************)
Variance(k) ==
    LET sq[S \in SUBSET Integrals] ==
          IF S = {} THEN 0
          ELSE LET i == CHOOSE i \in S : TRUE
               IN  Net(k)[i] * Net(k)[i] * result[i].u * result[i].u + sq[S \ {i}]
    IN  sq[Contributing(Expression[k])]

Converged(k) == Variance(k) <= Target[k] * Target[k]

(* Saturation of Sum k: every Integral it still depends on has reached    *)
(* maxeval.                                                                *)
Saturated(k) == \A i \in Contributing(Expression[k]) : nfe[i] >= MaxEval

(* The realized count of a compute() scheduled for m. *)
Realized(i, m) ==
    IF Backend[i] = "qmc" THEN CHOOSE l \in Lattices : IsSmallestLattice(l, m)
                          ELSE CubaRealized(m)

Fails(i, m) == Backend[i] = "qmc" /\ ExceedsLargestLattice(m)

(***************************************************************************)
(* One round of set_next + compute() over the Integrals of E with the      *)
(* requests req, in some order.  Either every compute() returns, or the    *)
(* Integrals D returned before the compute() of f threw and evaluate()     *)
(* propagates the error; the remaining Integrals are left untouched.       *)
(***************************************************************************)
Sched(req, i) == ScheduledCount(i, req[i])

Recompute(D, F, req) ==
    /\ nfe' = [i \in Integrals |-> IF i \in D THEN Realized(i, Sched(req, i)) ELSE nfe[i]]
    /\ next' = [i \in Integrals |-> IF i \in D THEN Realized(i, Sched(req, i))
                                    ELSE IF i \in F THEN Sched(req, i) ELSE next[i]]
    /\ computed' = [i \in Integrals |-> computed[i] \/ i \in D]
    /\ \E u \in [D -> Uncertainties] :
          /\ \A i \in D : Unc(i, nfe'[i], u[i])
          /\ result' = [i \in Integrals |-> IF i \in D THEN [n |-> nfe'[i], u |-> u[i]]
                                            ELSE result[i]]

RoundOk(E, req) ==
    /\ \A i \in E : ~Fails(i, Sched(req, i))
    /\ Recompute(E, {}, req)
    /\ error' = "none"
    /\ phase' = "loop"

RoundFails(E, req) ==
    \E f \in E : \E D \in SUBSET (E \ {f}) :
        /\ \A i \in D : ~Fails(i, Sched(req, i))
        /\ \/ Fails(f, Sched(req, f)) /\ error' = "domain_error"
           \/ error' = "backend_error"
        /\ Recompute(D, {f}, req)
        /\ phase' = "failed"
        /\ UNCHANGED <<cursor, escalated>>

(* evaluate(), first pass: every referenced Integral not yet computed is   *)
(* computed once with mineval requested; then the first round begins.     *)
Uncomputed == {i \in Referenced : ~computed[i]}

ComputeInitial ==
    /\ phase = "start"
    /\ RoundOk(Uncomputed, [i \in Uncomputed |-> MinEval])
    /\ cursor' = 1 /\ escalated' = FALSE

ComputeInitialFails ==
    /\ phase = "start"
    /\ RoundFails(Uncomputed, [i \in Uncomputed |-> MinEval])

(* The extrapolated request of a Sum's Integral, capped by the increase    *)
(* factor and by maxeval; a mutant that forgets the maxeval cap, and one   *)
(* whose extrapolation rounds down to the realized count, come first.      *)
CapUnbounded(n) == (n * IncNum) \div IncDen

Cap(n) == IF (n * IncNum) \div IncDen < MaxEval THEN (n * IncNum) \div IncDen ELSE MaxEval

EscalationsNoIncrease(i) == nfe[i] .. nfe[i]

Escalations(i) == nfe[i] + 1 .. Cap(nfe[i])

(* The current Sum is off target and not saturated: some of its            *)
(* non-saturated Integrals are rescheduled and recomputed (step 3), and    *)
(* the round is marked as one that changed something.                      *)
Refining ==
    /\ phase = "loop"
    /\ cursor \in Sums
    /\ ~Converged(cursor) /\ ~Saturated(cursor)

Candidates == {i \in Contributing(Expression[cursor]) : nfe[i] < MaxEval}

Escalate ==
    /\ Refining
    /\ \E E \in SUBSET Candidates \ {{}} :
          \E req \in [E -> UNION {Escalations(i) : i \in E}] :
             /\ \A i \in E : req[i] \in Escalations(i)
             /\ RoundOk(E, req)
    /\ UNCHANGED cursor /\ escalated' = TRUE

EscalateFails ==
    /\ Refining
    /\ \E E \in SUBSET Candidates \ {{}} :
          \E req \in [E -> UNION {Escalations(i) : i \in E}] :
             /\ \A i \in E : req[i] \in Escalations(i)
             /\ RoundFails(E, req)

(* The current Sum is within target or saturated: go on to the next one. *)
NextSum ==
    /\ phase = "loop"
    /\ cursor \in Sums
    /\ Converged(cursor) \/ Saturated(cursor)
    /\ cursor' = cursor + 1
    /\ UNCHANGED <<vars, phase, escalated>>

(* Past the last Sum (step 4): a round that escalated some Integral may    *)
(* have moved a Sum accepted earlier in it, so every Sum is judged again;  *)
(* a round that escalated nothing ends evaluate().  The mutant ends it    *)
(* after the first round whatever that round did.                          *)
RepeatRound ==
    /\ phase = "loop" /\ cursor = Len(Expression) + 1 /\ escalated
    /\ cursor' = 1 /\ escalated' = FALSE
    /\ UNCHANGED <<vars, phase>>

FinishOnce ==
    /\ phase = "loop" /\ cursor = Len(Expression) + 1
    /\ phase' = "done"
    /\ UNCHANGED <<vars, cursor, escalated>>

Finish ==
    /\ phase = "loop" /\ cursor = Len(Expression) + 1 /\ ~escalated
    /\ phase' = "done"
    /\ UNCHANGED <<vars, cursor, escalated>>

(* evaluate() has returned or thrown: nothing happens any more. *)
Returned ==
    /\ phase \in {"done", "failed"}
    /\ UNCHANGED hvars

HInit == Init /\ phase = "start" /\ cursor = 1 /\ escalated = FALSE

HNext ==
    \/ ComputeInitial \/ ComputeInitialFails
    \/ Escalate \/ EscalateFails
    \/ NextSum \/ RepeatRound \/ Finish
    \/ Returned

(***************************************************************************)
(* evaluate() runs on one thread without waiting on anyone: while it has   *)
(* not returned, it keeps taking steps.  Fairness is on the steps that     *)
(* return normally; a throwing compute() is possible, never forced.        *)
(***************************************************************************)
Progress == ComputeInitial \/ Escalate \/ NextSum \/ RepeatRound \/ Finish

HSpec == HInit /\ [][HNext]_hvars /\ WF_hvars(Progress)

HTypeOK ==
    TypeOK /\ phase \in Phases /\ cursor \in 1..Len(Expression) + 1 /\ escalated \in BOOLEAN

-----------------------------------------------------------------------------
(***************************************************************************)
(* Properties.                                                             *)
(***************************************************************************)

(* When evaluate() returns, every Sum of the expression is within its      *)
(* target or depends only on Integrals saturated at maxeval (spec 4.6,     *)
(* step 4), judged on the Integrals' final cached results: a Sum accepted  *)
(* early in a round may be pushed off target when a later Sum escalates   *)
(* an Integral they share and sampling noise makes its uncertainty grow;  *)
(* only a round that escalated nothing may end evaluate().                *)
DoneConvergedOrSaturated ==
    phase = "done" =>
        \A k \in Sums :
            \/ Converged(k)
            \/ \A i \in Contributing(Expression[k]) : nfe[i] >= MaxEval

(* No Integral of the expression realizes more than maxeval samples, but  *)
(* for the rounding of a qmc request up to the first lattice past maxeval: *)
(* escalation caps every request at maxeval, whatever order the Sums and   *)
(* the rounds take.                                                        *)
EffortBound ==
    \A i \in Referenced :
        \/ nfe[i] <= MaxEval
        \/ Backend[i] = "qmc" /\ \A l \in Lattices : l < nfe[i] => l < MaxEval

(* evaluate() eventually returns or throws: every escalation raises the    *)
(* realized count of some Integral below maxeval, so the rounds that      *)
(* escalate something are finitely many, whatever the noise does.          *)
Termination == <>(phase \in {"done", "failed"})
=============================================================================
