# TLA+ models of the secdecutil integration engine

This directory holds TLA+ models of the C++ runtime of pySecDec (`secdecutil`).
They cover its integrals, its amplitude handler, the deformation optimizer
and the amplitude glue, and two loops of the FORM integrand writer that
generates the sector code. Alongside the models are the TLC configurations
that check them, and TLAPS proofs of most of the safety properties the runs
check: the Integral invariants, the optimizer's clamp, the handler's effort
bound and its acceptance of every Sum, the required orders, the weighted
sums, and the sign-check labels of the FORM writer. Paths are relative to
the repository root.

## The system and its parts

- **Integral** (`secdecutil::amplitude::Integral`, `QmcIntegral`,
  `CubaIntegral`). Each one is an integrand bound to an integrator. It keeps
  two counts:
  - the realized count: samples of the last successful `compute()`;
  - the scheduled count: the next request, set by
    `set_next_number_of_function_evaluations`.

  A qmc integral rounds the request up to the smallest tabulated lattice, and
  throws `domain_error` beyond the largest one. A cuba integral uses
  `max(request, mineval)`.

  `amplitude.hpp` is not in `src/`. The model follows the spec and the unit
  tests of `src/unnamed/part_000` (lines 45-207).
- **WeightedIntegral algebra**. A Sum is a vector of (Integral, coefficient)
  terms.
  - `+` and `+=` append terms without merging them.
  - `*` and `*=` scale every coefficient.
  - The handler merges terms by Integral identity.

  Tested in part_000, lines 210-288.
- **WeightedIntegralHandler::evaluate** (spec section 4.6).
  1. It computes every referenced Integral once, at `mineval`.
  2. It walks the Sums in order.
  3. While the current Sum is neither within its target nor saturated at
     `maxeval`, it reschedules some of the Sum's Integrals, with each request
     capped by `maxincreasefac` and `maxeval`, and recomputes them.
  4. It repeats the walk until every Sum converges: a walk (a *round*) that
     escalated some Integral is followed by another, and a round that
     escalated nothing ends the call.
  5. Errors propagate.

  Integrals are shared between Sums: the test's three Sums all use one qmc
  Integral. That is why step 4 matters: a Sum accepted early in a round may
  be pushed off target when a later Sum recomputes an Integral they share.
- **Deformation optimizer**
  (`SectorContainerWithDeformation::optimize_deformation_parameters`,
  `src/doc/source/cpp_doctest/integrand_container_doctest_basic_usage.cpp`,
  lines 138-226).
  - Phase 1 takes the componentwise minimum of the maximal allowed
    parameters over the Sobol presamples, clamped into
    `[minimum, maximum]`.
  - Phase 2 replays the same presamples. While a presample fails the sign
    check `Im P(lambda) <= Im P(0)`, it multiplies all parameters by
    `decrease_factor`.
- **Amplitude glue** (`src/unnamed/part_004`). `compute_required_orders`
  (lines 24-40) decides how many orders of each amplitude coefficient are
  read. `make_weighted_integral` (319-331) accumulates the sector
  integrals from `*integrals.begin()` and multiplies the sum by the series
  prefactor * coefficient.
- **FORM integrand writer**
  (`src/pySecDec/code_writer/templates/codegen/write_integrand.frm`). Two
  of its preprocessor loops are modelled.
  - Zero functions (lines 85-137). The groups
    `decomposedPolynomialDerivatives`, `functions` and, with contour
    deformation, `deformedIntegrationVariableDerivativeFunctions` are walked
    in turn. A function whose call vanishes goes on `knownZeroFunctions`
    (which `nullify` later sets to zero). Each group's list is redefined to
    its nonzero functions, padded with dummy names to at least two entries.
  - Sign checks (lines 217-335). For each function of `calIDerivatives`, a
    `#Do i = 1,1` loop runs again while `match` finds a call of it. It
    deletes the calls of every function of the list at the arguments found.
    Unless every argument is 0 or 1, it adds a labelled sign check of the
    contour-deformation polynomial, and one per positive polynomial.
- **Not modelled**: the integrator interface and `MultiIntegrator`, the
  integrand binding of the doc example, the algebra of the FORM writer, the
  generated headers (part_002 head, part_003), the backend tests (part_001),
  the build (`SConstruct`) and `README.MD`. See "Not modelled" below.

The parts interact as follows. The Handler drives Integrals. The integrand
of an integral with contour deformation carries the parameters the
optimizer chose, and its generated code performs the sign checks that the
FORM writer labelled. The glue builds the Sums of an amplitude from the
sub-integral series.

## Modules

| Module | Models | State | Actions |
|---|---|---|---|
| `SumTerms` | merge by Integral identity | (operators) | `NetCoefficients` (a recursive function over the term sequence), `Contributing` |
| `Integral` | Integral, QmcIntegral, CubaIntegral | `computed`, `nfe` (realized), `next` (scheduled), `result`, `error` | `SetNext`, `ComputeQmc`, `ComputeCuba`, `ComputeDomainError`, `ComputeBackendError` |
| `LinearForm` | the abstract algebra: a Sum is a function Integral -> coefficient | `forms` | `Make`, `Add`, `ScaleBy` |
| `WeightedSum` | the code's Sums: sequences of terms | `sums` | `MakeWeighted`, `Plus`, `Times`; refinement mapping to `LinearForm` through `NetCoefficients` |
| `Handler` | `WeightedIntegralHandler::evaluate` over `Integral` | Integral state, `phase`, `cursor` (the Sum judged), `escalated` (this round escalated something) | `ComputeInitial`, `ComputeInitialFails`, `Escalate`, `EscalateFails`, `NextSum`, `RepeatRound`, `Finish`, `Returned` |
| `Deformation` | `optimize_deformation_parameters` | inputs (presamples, allowed values, sign-check oracle), `pc`, `i`, `lambda`, `k` | `Start`, `Phase1`, `Phase2`, `Returned` |
| `RequiredOrders` | `compute_required_orders` | the generated constants, `orders`, `i` | `PushOrder` (one loop iteration), `Returned` |
| `WeightedAmplitude` | `make_weighted_integral` over `SumTerms` | `integrals` (the sector series), `factor`, `amplitude`, `pc` | `MakeWeightedIntegral`, `MakeWeightedIntegralEmpty` (the empty vector: crash or garbage) |
| `ZeroFunctions` | the zero-function search of `write_integrand.frm` | the oracle `isZero`, `g`, `i`, `counter`, `nonzeroThisGroup`, `knownZeroFunctions`, `redefined`, `pc` | `CheckFunction`, `GroupDone`, `PadGroup` |
| `SignChecks` | the sign-check search of `write_integrand.frm` | `expression`, `tmp` (calls left), `fn`, `signCheck` (the points of the F labels, by label), `labelCounterU`, `pc` | `Match` (one pass of the inner loop), `NextFunction`, `Finish` |
| `IntegralProofs` | TLAPS proofs about `Integral` | | |
| `DeformationProofs` | TLAPS proof of `Phase1Clamped` | | |
| `HandlerProofs` | TLAPS proofs of `EffortBound` and `DoneConvergedOrSaturated` | | |
| `RequiredOrdersProofs` | TLAPS proof of `AmplitudeExactThroughRequested` | | |
| `SignChecksProofs` | TLAPS proof of `OneCheckPerPoint` | | |
| `WeightedSumProofs` | TLAPS proof that `WeightedSum` implements `LinearForm`, and the merge lemmas | | |
| `WeightedAmplitudeProofs` | TLAPS proof of `WeightedSumWhenSectors` | | |

The `MC*` modules give the constants small values.

### Abstractions

- **Numbers.** Sample counts are small naturals, lattices are small tables,
  and uncertainties are small naturals.
- **Handler.**
  - `Unc(i, n, u)` says which uncertainty a run with `n` samples may report.
  - Each Sum's clamped `max(epsrel*|value|, epsabs)` becomes one absolute
    target `Target[k]`.
  - The convergence-rate extrapolation becomes any count above the realized
    one, capped as the code caps it.
  - An escalation recomputes any non-empty subset of the Sum's unsaturated
    Integrals, and stays on the same Sum until it is accepted.
- **Deformation.**
  - Phase 2 multiplies every component by the same factor, so its state is
    the number `k` of decreases.
  - Once the parameters reach zero (after `KMax` decreases), the check
    passes: `Im P(0) <= Im P(0)`.
  - The inputs are arbitrary: every combination of presample values (with
    NaN) and sign-check outcomes is an initial state.
- **WeightedAmplitude.** One regulator with orders 0..`Hi` (the lowest
  order is a shift). Each order holds a Sum, so `+` of series concatenates
  each order, and `*` with the scalar series `factor` (prefactor *
  coefficient as one series) gives order k the terms `a[k-j] * f[j]`.
  `series.hpp` is not under `src/`, so these operators are taken from its
  documented semantics.
- **FORM writer.** A function is a model value and a list a sequence of
  them. Whether a function's call vanishes depends on FORM's algebra, so it
  is an oracle fixed at the start and free in every run. A call of the sign
  check search is a function and an argument list; an argument is 0, 1 or
  anything else (a variable). A term of the expression evaluates one
  polynomial at one point, so deleting the terms that call the list at
  `$args` deletes exactly the calls at that point. The `match` picks some
  call of the current function; FORM's term order is not modelled, so any
  call may be picked.

## Runs

| Run | cfg | Expect | What it shows |
|---|---|---|---|
| `integral_pass` | `MCIntegral.cfg` | pass | On a qmc Integral (lattices 4, 8, 12, `minn` 2) and a cuba Integral (`mineval` 3), every sequence of `set_next` (requests 1, 5, 9, 13) and successful or throwing `compute()` keeps `next >= nfe` (`NextNotBelowRealized`). `nfe` never decreases (`EvaluationsMonotone`). |
| `integral_scheduled_lowered` | `MCIntegral_lower.cfg` | violation | `set_next(1)` before the first `compute()` lowers `next` below `minn` (`ScheduledNeverLowered`, from spec 4.1). The test at part_000:85 requires exactly that. |
| `weightedsum_refinement` | `MCWeightedSum.cfg` | pass | Every sequence of constructions, `+`/`+=` and `*=` on two Sum variables, with coefficients and factors of both signs (so terms cancel), is a behaviour of `LinearForm` under the merge (`ImplementsLinearForm`). |
| `handler_pass` | `MCHandler.cfg` | pass | Three Sums that all refine A (3A; A+B; A+B-B), a qmc A whose uncertainty may jump back up between 8 and 15 samples, and a cuba B: a Sum accepted early can be pushed off target by a later Sum's escalation, yet the handler returns only with every Sum on target or saturated (`DoneConvergedOrSaturated`). No Integral exceeds `maxeval` but for the final lattice rounding (`EffortBound`). `evaluate()` returns or throws (`Termination`). |
| `deformation_pass` | `MCDeformation.cfg` | pass | With a sign check monotone in lambda: phase 1 yields the clamped minimum (`Phase1Clamped`), the result passes every presample (`FinalPassesAll`), and the optimizer terminates (`Termination`). |
| `deformation_nonmonotone` | `MCDeformation_nonmonotone.cfg` | violation | Without monotonicity, the returned parameters fail an earlier presample. |
| `weightedamplitude_pass` | `MCWeightedAmplitude.cfg` | pass | One or two sectors whose orders hold one term or two terms that cancel on A, factors -1 and 2 over orders 0..1: the amplitude has at every order the net coefficients of the weighted sum of all sectors, each once (`WeightedSumWhenSectors`). Runs without sectors are in the state space too. There, `*integrals.begin()` dereferences `end()` (undefined behaviour: a crash or garbage) and the unguarded `AmplitudeIsWeightedSumOfSectors` fails at once. No run asserts it, because nothing under `src/` says whether a sub-integral without sectors can be generated. |
| `zerofunctions_pass` | `MCZeroFunctions.cfg` | pass | Groups of two, one and two functions with contour deformation, every choice of which vanish: each group's variable is redefined to exactly its own nonzero functions in order, padded with dummies to two entries, and `knownZeroFunctions` lists the zero ones group by group (`GroupsRedefined`). |
| `signchecks_pass` | `MCSignChecks.cfg` | pass | `calI` and one derivative, four points of two arguments (one a corner of 0 and 1), every set of calls: each point that needs a check gets exactly one F label, although several functions are called there and the calls of functions not yet searched are deleted early (`OneCheckPerPoint`); the search ends (`Termination`). |
| `requiredorders_pass` | `MCRequiredOrders.cfg` | pass | For two regulators and every combination of requested and lowest orders in -2..1, the truncated coefficient gives the amplitude exactly up to the requested order (`AmplitudeExactThroughRequested`). The check counts the triples of orders of a Laurent product. |

Each property of a passing run has a mutant in `PROJECT.json`: a one-definition
change modelling a plausible bug, which TLC catches.

- `ScheduledCount` without the clamp.
- `NetCoefficients` keeping the first coefficient.
- A handler that returns after the first round, whatever it escalated.
- `Cap` without `maxeval`.
- An escalation that does not raise the count.
- Phase 1 without the branch for values below `minimum`.
- An `if` in place of phase 2's `while`.
- A decrease that does not decrease.
- `compute_required_orders` without its `+ 1`.
- `std::accumulate` started at `begin()` instead of `++begin()`.
- A zero-function search that never restarts the nonzero list of a group.
- A sign-check pass that deletes the calls of the current function only
  (a later function labels the point again).
- A sign-check pass that deletes the calls only when a check is needed (the
  inner loop finds the same corner forever).

### Bounds

- **Integral.** Three lattices, with requests below, between and above them.
  This reaches rounding, clamping and `domain_error`.
- **Handler.**
  - Lattices 4, 8, 12, 16 and `maxeval` 20 make A's requests 17-20 exceed the
    largest lattice, so the `domain_error` path is reached.
  - `maxincreasefac` 2 makes the cap bind.
  - The uncertainty drops at 8 and 16 samples, so several escalation rounds
    happen.
  - A's uncertainty may jump back to 2 between 8 and 15 samples, and every
    Sum refines A, so a later Sum's escalation can undo an earlier Sum's
    acceptance and a further round is needed.
- **Deformation.** Two presamples and two dimensions are enough to have an
  earlier sample fail after a later sample's decrease. Values 0..3 with NaN,
  around `[1, 2]`, reach every branch of phase 1. `SobolMaxDim` 1 reaches the
  `gsl_error`.
- **WeightedSum.** Sums of up to three terms, so a cancelling pair and a
  third term fit.
- **ZeroFunctions.** Three groups of sizes 2, 1 and 2 with every choice of
  vanishing functions: groups end with none, one and two nonzero
  functions, and a group follows one whose nonzero list is longer.
- **SignChecks.** Two functions and four points, every subset of the eight
  calls: a point called by both functions, by one only, and a corner that
  needs no check all occur, in every order `match` may pick them.
- **WeightedAmplitude.** Two sectors and two orders, so that the accumulate
  covers more than its first element and the product sums over more than
  one pair of orders. The cancelling sum makes the net coefficients differ
  from a count of terms.

### Fairness

- `evaluate()` and `optimize_deformation_parameters` each run on one thread
  and wait for no one. Weak fairness on their normally returning steps is
  what running code does.
- A throwing `compute()` is possible but never forced: `ComputeInitialFails`
  and `EscalateFails` are outside the fair action.
- The FORM preprocessor runs its loops to the end by itself; the
  `SignChecks` and `ZeroFunctions` specifications are weakly fair on their
  next-state relation, and stutter in `Done` once finished.
- The other modules check only safety.
- `MCWeightedAmplitude.cfg` sets `CHECK_DEADLOCK FALSE`: once
  `make_weighted_integral` has returned, the program stops there.

## Proofs

`IntegralProofs` proves three theorems for every value of the constants
allowed by `IntegralAssumption`:

- `TypeCorrect`: `Spec => []TypeOK`. Its step lemma is `TypeStep`. It rests
  on `SmallestLatticeCovers` (a chosen smallest lattice is at least the
  request) and `CubaRealizedCovers`.
- `NextNotBelowRealizedHolds`: `Spec => []NextNotBelowRealized`.
  - `NextNotBelowRealized` alone is inductive except for the types, so the
    inductive invariant `IInv` conjoins it with `TypeOK`. It was checked with
    TLC before it was proved.
  - `IInvStep` has one case per action. `SetNext` keeps `next >= nfe` through
    the clamp against `nfe`. A successful `compute()` sets both counts to the
    same value. The throwing actions change neither count.
- `EvaluationsMonotoneHolds`: the action property `EvaluationsMonotone`,
  from `MonotoneStep` under `IInv`. A successful `compute()` realizes at
  least the scheduled count (the lemmas above), which is at least the old
  realized count (`IInv`).

`DeformationProofs` proves `Phase1ClampedHolds`:
`Spec => []Phase1Clamped`, with no hypothesis beyond
`DeformationAssumption`.
- `Phase1Clamped` speaks only after phase 1. The inductive invariant
  `ClampInv` says that while phase 1 runs, each component is the clamped
  running minimum of the samples walked so far. `RunningClamp(a, j, n, v)`
  says that `v` is `Maximum` when no finite value was seen in samples
  `1..n`, and otherwise the clamp of the least one. The sample table `a`
  is a parameter, so that a step that leaves `allowed` alone moves the
  invariant by its other arguments only.
- `LoweredStep` is the heart of the argument. One component of one
  iteration (`Lowered`) extends the running clamp by one sample: NaN and
  values above maximum change nothing, and a smaller value lowers the
  component. It rests on `SeenStep` (the seen values grow by the new
  sample), `LoweredClamp` (the three branches of the loop body against
  `Clamp`) and `ChooseLeast` (the `CHOOSE` of `Clamped` picks the least
  value).

`HandlerProofs` proves `EffortBoundHolds`: under the hypothesis
`MinimaWithinMaxEval` (qmc `minn` and cuba `mineval` at most `maxeval`),
`HSpec => []EffortBound` for every expression, lattice table and backend.
- The hypothesis is needed. With `minn` above `maxeval`, the first pass of
  `evaluate()` already realizes the first lattice past `minn`, and TLC
  reports `EffortBound` violated in the initial round. Nothing in
  `evaluate()` caps a backend's minimum.
- The inductive invariant `HInv` keeps the realized counts natural, every
  count within the bound (`WithinEffort`), and all counts zero before the
  first pass, so that `ScheduledCount` keeps the `mineval` request of that
  pass. It was checked with TLC on the `handler_pass` constants (838
  states) before it was proved.
- Every round requests at most `maxeval` (`EscalationWithin`: an escalation
  lies between the realized count and `Cap`; `SchedWithin`). A compute()
  that does not throw then realizes a count within the bound
  (`RealizedWithinEffort`). That needs the smallest covering lattice to
  exist for an unbounded lattice table (`LeastLattice`). The proof takes it
  from the well-foundedness of `<` on `Nat`
  (`NatLessThanWellFounded` and `WFMin` of the library), which has no
  operator parameter. `RecomputeWithinEffort` lifts this to a round in
  which some compute() calls throw.

`RequiredOrdersProofs` proves `AmplitudeExactThroughRequestedHolds` for every
number of regulators and every choice of generated orders.
- The loop invariant `IInv` says that the vector holds `i - 1` entries, each
  equal to `RequiredOrder` of its regulator.
- At the end, the truncated coefficient range loses no triple. A triple
  summing to `k <= requested` with the two other orders at least their
  lowest has its coefficient order at most
  `requested - lowest - lowestPref`. That is the last order kept, and is
  where the `+ 1` of `compute_required_orders` matters. The proof shows
  that the two sets of triples are *equal*. This is stronger than the
  equal counts the property needs.

`HandlerProofs` also proves `DoneConvergedOrSaturatedHolds`:
`HSpec => []DoneConvergedOrSaturated` for every expression, sharing of
Integrals between Sums, uncertainty table, lattice table, backend and
escalation order, with no hypothesis on the uncertainties.
- The property holds because evaluate() ends only after a round that
  escalated nothing, so no Integral changed during that round and every
  Sum it passed was accepted on the results it returns. The inductive
  invariant `DInv` says that, in a round that has escalated nothing so far,
  every Sum before the cursor is on target or saturated (`Accepted`), and
  that `done` means every Sum is. It was checked with TLC on the
  `handler_pass` constants before it was proved.
- `NextSum` extends the accepted prefix by the Sum it accepts; `Escalate`
  sets `escalated`, which suspends the claim; `RepeatRound` empties the
  prefix. A step that leaves the Integrals alone keeps `Accepted`
  (`AcceptedUnchanged`), and `Finish` requires a round that escalated
  nothing, so the prefix is then all the Sums.

`SignChecksProofs` proves `OneCheckPerPointHolds`:
`Spec => []OneCheckPerPoint` for every list of functions, set of points and
expression.
- The inductive invariant `IInv` says that the labelled points are exactly
  the needed points with no call left in `tmp`, that the labels are
  injective, and that the functions before the current one have no call
  left (`Cleared`).
- A pass of the inner loop deletes every call at the point it found, which
  was not yet labelled (it still had a call), so appending it keeps the
  labels injective (`AppendKeepsInjective`) and adds exactly that point to
  their range (`AppendAddsToRange`). `NextFunction` moves on only when the
  current function has no call left. At the end every function of the list
  is cleared, so `tmp` is empty and every needed point is labelled.

`WeightedSumProofs` proves `ImplementsLinearFormHolds`: `Spec =>
ImplementsLinearForm` for every set of Integrals, Sum variables,
coefficients and factors. The refinement mapping sends each Sum variable to
the merge of its terms (`Mapped`).
- `NetCoefficients` is a recursive function over the term positions, which
  tlapm sees as a `CHOOSE` of a solution of its recursion. `NetWitness`
  builds a solution on `0..Len(terms)` by a least counterexample, and
  `NetUnique` shows by another one that all solutions agree. `NetIs` then
  pins the value. On top of these: the merge of `<< >>`, of one term, of a
  concatenation (`NetConcat`) and of a scaled sequence (`NetScaled`).
- With the type invariant `TypeOK` as the only inductive invariant,
  `MakeWeighted` maps to `Make`, `Plus` (`+` and `+=`) to `Add`, and `Times`
  to `ScaleBy` (`InitRefines`, `NextRefines`).

`WeightedAmplitudeProofs` proves `WeightedSumWhenSectorsHolds`:
`Spec => []WeightedSumWhenSectors` for every highest order, number of
sectors, sector sums and factors.
- Four recursive functions meet here: the accumulate over the sectors, the
  truncated series product, and the two sums of the reference. Each is
  matched with a solution given by the generic `RecSolution`, whose
  existence and agreement with the `CHOOSE` go through `UpToInduction`.
  `IsRecSol` and `StepInto` keep the function set and the step function
  opaque, so that the provers can instantiate the lemma.
- The merge facts come from `WeightedSumProofs` through `INSTANCE`
  (`NetConcat`, `NetScaled`, `NetInt`). `AccNet` then gives the merge of
  the accumulated series, and `WeightedNet` that of the product.
- The inductive invariant is `TypeOK /\ WeightedSumWhenSectors`. The only
  step that changes the amplitude is the call itself.

Only TLC checks the following:

- **Liveness** (`Termination` of the Handler and of the optimizer): TLAPS
  does not handle fairness and `ENABLED` here.
- **`FinalPassesAll`** of the optimizer. Phase 2 does not re-check
  earlier presamples after a later decrease, so the property holds only
  when the sign check is monotone in the deformation (`deformation_pass`)
  and fails otherwise (`deformation_nonmonotone`). Monotonicity is a
  property of the polynomial, not of this code, so no theorem assumes it.
- **`GroupsRedefined`** of the zero-function search, which compares the
  loop with a reference over recursive functions of the groups; it is
  small and sequential, so the run covers it for every oracle.

The induction over data that the library's theorems state with an operator
parameter is done here over a set of naturals instead (`UpToInduction`).
For recursion over finite sets, it runs on their cardinality. So what
`NetCoefficients`, the amplitude's recursions and `Variance` compute is
proved, not only model-checked.

## Not modelled

- **The integrator interface and `MultiIntegrator`**
  (`src/util/secdecutil/integrators/integrator.hpp`). An earlier model
  followed the dispatch of `integrate` through `together` and the copy of
  the lambda that captures `this`. Its property held by construction when
  copies rebind, and failed only for a copy that `make_integral` makes of
  an integrator that does not outlive it, which the generated code never
  relies on; the model was dropped rather than kept with a property that
  says nothing about the code.
- **The integrand binding of the doc example** (lines 281-345). The raw
  `data()` pointers that `std::bind` stores point into vectors the bound
  functor's container copy itself owns, so their validity follows by
  construction and a model of it says no more than the code.
- **The rest of the FORM code writer.** Insertion, expansion and
  optimisation are term rewriting, and the writing of C++ code is text
  output. The per-order file names (lines 170-191) only format numbers.
- **Compile-time type selection** (`AmplitudeIntegral`).
- **The numerical backends** (part_001).
- **The doc example's container constructors and integrand members**
  (lines 85-103, 254-278, 74-82, 228-252). They copy their arguments, or
  call the generated function and rephrase its `sign_check_error`, and
  change no state a property tells apart.
- **`read_coefficient`** and the file reading of the glue: I/O.
- **`SConstruct` and `README.MD`**.
