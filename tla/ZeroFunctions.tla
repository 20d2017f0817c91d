---------------------------- MODULE ZeroFunctions ----------------------------
(***************************************************************************)
(* The search for functions that vanish whatever their arguments, in the  *)
(* FORM integrand writer (src/pySecDec/code_writer/templates/codegen/      *)
(* write_integrand.frm, lines 85-135).                                     *)
(*                                                                         *)
(* The groups decomposedPolynomialDerivatives and functions, and with a   *)
(* contour deformation deformedIntegrationVariableDerivativeFunctions, are *)
(* walked in turn.  Each function of a group is called at the integration  *)
(* variables with every regulator set to zero, its definition inserted;   *)
(* a call that vanishes puts the function on knownZeroFunctions (the list *)
(* the procedure nullify later sets to zero), any other is counted in     *)
(* $counter and put on knownNonzeroFunctionsThisGroup.  The group's       *)
(* preprocessor variable is then redefined to its nonzero functions,      *)
(* padded with dummy names to at least two entries for the #Do loops that *)
(* walk it later.                                                          *)
(*                                                                         *)
(* Whether a call vanishes depends on the algebra FORM does; it is the    *)
(* oracle isZero, fixed at the start and free in every run.  A list is a  *)
(* sequence of names.                                                      *)
(***************************************************************************)
EXTENDS Naturals, Sequences

CONSTANTS
    DecomposedPolynomialDerivatives,  \* the list of that name
    FunctionsList,                    \* the list `functions'
    DeformedDerivatives,    \* deformedIntegrationVariableDerivativeFunctions
    ContourDeformation,     \* the preprocessor variable contourDeformation
    Dummy1, Dummy2, Dummy   \* SecDecInternalfDUMMYNONEXISTENT1, ...2 and ...

ASSUME ZeroFunctionsAssumption == ContourDeformation \in BOOLEAN

(* groupOfFunctionsToConsider (lines 90-93). *)
GroupOfFunctionsToConsider ==
    <<DecomposedPolynomialDerivatives, FunctionsList>>
      \o (IF ContourDeformation THEN <<DeformedDerivatives>> ELSE << >>)

NumGroups == Len(GroupOfFunctionsToConsider)

Group(g) == GroupOfFunctionsToConsider[g]

AllFunctions == UNION {{Group(g)[i] : i \in 1..Len(Group(g))} : g \in 1..NumGroups}

VARIABLES
    isZero,         \* whether the call of a function vanishes
    g,              \* the group of the outer #Do loop
    i,              \* the function of the inner #Do loop
    counter,        \* $counter
    nonzeroThisGroup,   \* knownNonzeroFunctionsThisGroup
    knownZeroFunctions, \* knownZeroFunctions
    redefined,      \* the groups' preprocessor variables, as redefined
    pc              \* "functions", "pad" or "done"

vars == <<isZero, g, i, counter, nonzeroThisGroup, knownZeroFunctions, redefined, pc>>

TypeOK ==
    /\ isZero \in [AllFunctions -> BOOLEAN]
    /\ g \in 1..NumGroups + 1
    /\ counter \in Nat
    /\ nonzeroThisGroup \in Seq(AllFunctions)
    /\ knownZeroFunctions \in Seq(AllFunctions)
    /\ redefined \in [1..NumGroups -> Seq(AllFunctions \cup {Dummy1, Dummy2, Dummy})]
    /\ pc \in {"functions", "pad", "done"}

Init ==
    /\ isZero \in [AllFunctions -> BOOLEAN]
    /\ g = 1 /\ i = 1 /\ counter = 0
    /\ nonzeroThisGroup = << >>
    /\ knownZeroFunctions = << >>
    /\ redefined = [k \in 1..NumGroups |-> Group(k)]
    /\ pc = IF NumGroups > 0 THEN "functions" ELSE "done"

(***************************************************************************)
(* One function of the group (lines 105-124).  A nonzero function starts  *)
(* the list afresh when it is the first of its group and is appended to  *)
(* it otherwise; the mutant appends always, so the list still holds the   *)
(* nonzero functions of the group before.                                 *)
(***************************************************************************)
CheckFunctionNoReset ==
    /\ pc = "functions" /\ i <= Len(Group(g))
    /\ LET f == Group(g)[i] IN
         IF isZero[f]
         THEN /\ knownZeroFunctions' = Append(knownZeroFunctions, f)
              /\ UNCHANGED <<counter, nonzeroThisGroup>>
         ELSE /\ counter' = counter + 1
              /\ nonzeroThisGroup' = Append(nonzeroThisGroup, f)
              /\ UNCHANGED knownZeroFunctions
    /\ i' = i + 1
    /\ UNCHANGED <<isZero, g, redefined, pc>>

CheckFunction ==
    /\ pc = "functions" /\ i <= Len(Group(g))
    /\ LET f == Group(g)[i] IN
         IF isZero[f]
         THEN /\ knownZeroFunctions' = Append(knownZeroFunctions, f)
              /\ UNCHANGED <<counter, nonzeroThisGroup>>
         ELSE /\ counter' = counter + 1
              /\ nonzeroThisGroup' =
                   IF counter' = 1 THEN <<f>> ELSE Append(nonzeroThisGroup, f)
              /\ UNCHANGED knownZeroFunctions
    /\ i' = i + 1
    /\ UNCHANGED <<isZero, g, redefined, pc>>

GroupDone ==
    /\ pc = "functions" /\ i = Len(Group(g)) + 1
    /\ pc' = "pad"
    /\ UNCHANGED <<isZero, g, i, counter, nonzeroThisGroup, knownZeroFunctions, redefined>>

(***************************************************************************)
(* The padding to two entries (lines 125-133), then the next group with   *)
(* $counter back at zero (line 103); after the last group zeroCheck is    *)
(* dropped.  The list of the group before is left in nonzeroThisGroup.    *)
(***************************************************************************)
Padded(s) ==
    CASE Len(s) = 0 -> <<Dummy1, Dummy2>>
      [] Len(s) = 1 -> s \o <<Dummy>>
      [] OTHER      -> s

PadGroup ==
    /\ pc = "pad"
    /\ redefined' = [redefined EXCEPT ![g] =
                       Padded(IF counter = 0 THEN << >> ELSE nonzeroThisGroup)]
    /\ g' = g + 1 /\ i' = 1 /\ counter' = 0
    /\ pc' = IF g < NumGroups THEN "functions" ELSE "done"
    /\ UNCHANGED <<isZero, nonzeroThisGroup, knownZeroFunctions>>

Done == pc = "done" /\ UNCHANGED vars

Next == CheckFunction \/ GroupDone \/ PadGroup \/ Done

Spec == Init /\ [][Next]_vars /\ WF_vars(Next)

-----------------------------------------------------------------------------
(***************************************************************************)
(* Properties.                                                             *)
(***************************************************************************)

(* The functions of s that the oracle calls nonzero, in the order of s. *)
NonzeroOf(s) == SelectSeq(s, LAMBDA f : ~isZero[f])

ZeroOf(s) == SelectSeq(s, LAMBDA f : isZero[f])

(* The zero functions of the groups before group k, in order. *)
ZerosBefore[k \in 1..NumGroups + 1] ==
    IF k = 1 THEN << >> ELSE ZerosBefore[k - 1] \o ZeroOf(Group(k - 1))

(* When the search is over, every group's variable lists exactly that    *)
(* group's nonzero functions, in order and with no function of another    *)
(* group carried over in knownNonzeroFunctionsThisGroup, padded with     *)
(* dummies to the two entries its later #Do loops need; and               *)
(* knownZeroFunctions lists every zero function once, group by group.     *)
GroupsRedefined ==
    pc = "done" =>
        /\ \A k \in 1..NumGroups : redefined[k] = Padded(NonzeroOf(Group(k)))
        /\ knownZeroFunctions = ZerosBefore[NumGroups + 1]
=============================================================================
