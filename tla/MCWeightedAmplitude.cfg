CONSTANTS
    Integrals <- MCIntegrals
    SectorSums <- MCSectorSums
    Factors <- MCFactors
    Hi = 1
    MaxSectors = 2

SPECIFICATION Spec

INVARIANT WeightedSumWhenSectors

\* make_weighted_integral returns and the program ends there.
CHECK_DEADLOCK FALSE
