CONSTANTS
    NumRegulators = 2
    Orders <- MCOrders

SPECIFICATION Spec

INVARIANT AmplitudeExactThroughRequested
