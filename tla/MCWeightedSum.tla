--------------------------- MODULE MCWeightedSum ----------------------------
EXTENDS WeightedSum

MCIntegrals == {"A", "B"}

MCSumIds == {"s1", "s2"}

MCCoefficients == {-1, 1}

MCFactors == {-1, 2}
=============================================================================
