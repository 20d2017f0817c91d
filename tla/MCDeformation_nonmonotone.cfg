CONSTANTS
    Values <- MCValues
    NaN = NaN
    Minimum = 1
    Maximum = 2
    MaxSamples = 2
    MaxDims = 2
    SobolMaxDim = 1
    KMax = 2
    Monotone = FALSE

SPECIFICATION Spec

INVARIANT FinalPassesAll
