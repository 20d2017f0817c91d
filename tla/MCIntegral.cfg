CONSTANTS
    Integrals <- MCIntegrals
    Backend <- MCBackend
    Lattices <- MCLattices
    QmcMinN = 2
    CubaMinEval = 3
    Uncertainties = {1, 2, 3}
    Unc <- MCUnc
    Requests <- MCRequests

SPECIFICATION Spec

INVARIANT NextNotBelowRealized
PROPERTY EvaluationsMonotone
