CONSTANTS
    p1 = p1
    p2 = p2
    f1 = f1
    d1 = d1
    d2 = d2
    Dummy1 = Dummy1
    Dummy2 = Dummy2
    Dummy = Dummy
    DecomposedPolynomialDerivatives <- MCDecomposedPolynomialDerivatives
    FunctionsList <- MCFunctionsList
    DeformedDerivatives <- MCDeformedDerivatives
    ContourDeformation = TRUE
SPECIFICATION Spec
INVARIANTS GroupsRedefined
