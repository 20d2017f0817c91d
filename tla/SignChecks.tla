------------------------------ MODULE SignChecks ------------------------------
(***************************************************************************)
(* The search for the sign checks of the contour deformation in the FORM  *)
(* integrand writer (src/pySecDec/code_writer/templates/codegen/           *)
(* write_integrand.frm, lines 217-337), run once per order.                *)
(*                                                                         *)
(* The expression of the order calls SecDecInternalCalI and its           *)
(* derivatives (the list calIDerivatives) at points that differ in which  *)
(* Feynman parameters are set to zero or one.  For each function of the   *)
(* list in turn, a "#Do i = 1,1" loop whose variable is reset while a      *)
(* call is found picks the arguments $args of some call of that function  *)
(* in the copy tmp, deletes every term that calls any function of the     *)
(* list at those arguments, and, unless every argument is 0 or 1, adds a  *)
(* labelled check of the contour deformation polynomial at $args, and one *)
(* for each positive polynomial, to signCheck.  The labels are numbered   *)
(* by the counters $labelCounterF and $labelCounterU.                      *)
(*                                                                         *)
(* A call is abstracted to its function and its argument list; a term     *)
(* evaluates one polynomial at one point, so deleting the terms that call *)
(* the list at $args deletes exactly the calls at $args.  The arguments   *)
(* are functions from positions to {0, 1} and the other values a FORM     *)
(* argument takes (a variable, an expression).                             *)
(***************************************************************************)
EXTENDS Naturals, Sequences, Functions

CONSTANTS
    Names,              \* the names a function of the list can have
    CalIDerivatives,    \* the list calIDerivatives
    Points,             \* the argument lists a call can have
    NumPositive,        \* the number of names in positivePolynomials
    ContourDeformation  \* the preprocessor variable contourDeformation

ASSUME SignChecksAssumption ==
    /\ CalIDerivatives \in Seq(Names)
    /\ IsInjective(CalIDerivatives)
    /\ NumPositive \in Nat
    /\ ContourDeformation \in BOOLEAN

Functions == Range(CalIDerivatives)

Calls == Functions \X Points

VARIABLES
    expression,     \* the calls of the order's expression
    tmp,            \* the calls left in the copy tmp
    fn,             \* the index of the function of the outer #Do loop
    signCheck,      \* the arguments of the F checks, by label
    labelCounterU,  \* $labelCounterU
    pc              \* "search" while the loops run, then "done"

vars == <<expression, tmp, fn, signCheck, labelCounterU, pc>>

TypeOK ==
    /\ expression \subseteq Calls /\ tmp \subseteq Calls
    /\ fn \in 1..Len(CalIDerivatives) + 1
    /\ signCheck \in Seq(Points)
    /\ labelCounterU \in Nat
    /\ pc \in {"search", "done"}

(* The arguments of the calls of f left in tmp. *)
ArgsOf(f) == {a \in Points : <<f, a>> \in tmp}

(* needThisCheck (lines 250-260): some argument is neither 0 nor 1. *)
NeedThisCheck(a) == \E p \in DOMAIN a : a[p] \notin {0, 1}

Init ==
    /\ expression \in SUBSET Calls
    /\ tmp = expression
    /\ fn = 1
    /\ signCheck = << >>
    /\ labelCounterU = 0
    /\ pc = IF ContourDeformation THEN "search" ELSE "done"

(***************************************************************************)
(* One pass of the inner loop that finds a call of the current function:  *)
(* the Id statements of lines 247-249 delete the calls at $args of every  *)
(* function of the list; a check that is needed gets the next F label and *)
(* the next NumPositive U labels (lines 262-281).  The first mutant       *)
(* deletes the call of the current function only, the second deletes the  *)
(* calls only when a check is needed.                                      *)
(***************************************************************************)
Labelled(a) ==
    IF NeedThisCheck(a)
    THEN /\ signCheck' = Append(signCheck, a)
         /\ labelCounterU' = labelCounterU + NumPositive
    ELSE UNCHANGED <<signCheck, labelCounterU>>

MatchOwnFunction(a) ==
    /\ pc = "search" /\ fn <= Len(CalIDerivatives)
    /\ a \in ArgsOf(CalIDerivatives[fn])
    /\ tmp' = tmp \ {<<CalIDerivatives[fn], a>>}
    /\ Labelled(a)
    /\ UNCHANGED <<expression, fn, pc>>

MatchDeleteIfNeeded(a) ==
    /\ pc = "search" /\ fn <= Len(CalIDerivatives)
    /\ a \in ArgsOf(CalIDerivatives[fn])
    /\ tmp' = IF NeedThisCheck(a) THEN {c \in tmp : c[2] # a} ELSE tmp
    /\ Labelled(a)
    /\ UNCHANGED <<expression, fn, pc>>

Match(a) ==
    /\ pc = "search" /\ fn <= Len(CalIDerivatives)
    /\ a \in ArgsOf(CalIDerivatives[fn])
    /\ tmp' = {c \in tmp : c[2] # a}
    /\ Labelled(a)
    /\ UNCHANGED <<expression, fn, pc>>

(* No call of the current function is left: the inner loop ends, the      *)
(* number of F checks is recorded (lines 325-326) and the next function   *)
(* of the list is searched.                                                *)
NextFunction ==
    /\ pc = "search" /\ fn <= Len(CalIDerivatives)
    /\ ArgsOf(CalIDerivatives[fn]) = {}
    /\ fn' = fn + 1
    /\ UNCHANGED <<expression, tmp, signCheck, labelCounterU, pc>>

(* After the last function tmp is dropped (lines 330-333). *)
Finish ==
    /\ pc = "search" /\ fn = Len(CalIDerivatives) + 1
    /\ pc' = "done"
    /\ UNCHANGED <<expression, tmp, fn, signCheck, labelCounterU>>

Done == pc = "done" /\ UNCHANGED vars

Next ==
    \/ \E a \in Points : Match(a)
    \/ NextFunction \/ Finish \/ Done

(* FORM runs the preprocessor loops to their end on its own. *)
Spec == Init /\ [][Next]_vars /\ WF_vars(Next)

-----------------------------------------------------------------------------
(***************************************************************************)
(* Properties.                                                             *)
(***************************************************************************)

(* The points of the expression that need a check. *)
Needed == {a \in Points : NeedThisCheck(a) /\ \E f \in Functions : <<f, a>> \in expression}

(* When the search is over, every point at which the expression calls      *)
(* calI or one of its derivatives and that is not a corner of zeros and    *)
(* ones has exactly one F label: none is missed although the terms of     *)
(* other functions at that point were deleted before their turn, and none  *)
(* is labelled twice although several functions of the list are called   *)
(* there.                                                                  *)
OneCheckPerPoint ==
    pc = "done" /\ ContourDeformation =>
        /\ Range(signCheck) = Needed
        /\ IsInjective(signCheck)

(* The search ends: the "#Do i = 1,1" loop, which runs again whenever    *)
(* match finds a call, stops because every pass deletes the call found,   *)
(* whether or not its point needs a check.                                 *)
Termination == <>(pc = "done")
=============================================================================
