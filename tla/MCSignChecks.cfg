CONSTANTS
    calI = calI
    dcalI = dcalI
    x = x
    Names <- MCNames
    CalIDerivatives <- MCCalIDerivatives
    Points <- MCPoints
    NumPositive = 1
    ContourDeformation = TRUE
SPECIFICATION Spec
INVARIANTS OneCheckPerPoint
PROPERTIES Termination
