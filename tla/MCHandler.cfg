CONSTANTS
    Integrals <- MCIntegrals
    Backend <- MCBackend
    Lattices <- MCLattices
    QmcMinN = 2
    CubaMinEval = 2
    Uncertainties = {0, 1, 2, 3}
    Unc <- MCUncNoisy
    Requests = {}
    Expression <- MCExpressionShared
    Target <- MCTargetShared
    MinEval = 3
    MaxEval = 20
    IncNum = 2
    IncDen = 1

SPECIFICATION HSpec

INVARIANT DoneConvergedOrSaturated
INVARIANT EffortBound
PROPERTY Termination
