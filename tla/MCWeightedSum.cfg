CONSTANTS
    Integrals <- MCIntegrals
    SumIds <- MCSumIds
    Coefficients <- MCCoefficients
    Factors <- MCFactors
    MaxTerms = 3
    MaxCoef = 2

SPECIFICATION Spec

PROPERTY ImplementsLinearForm
