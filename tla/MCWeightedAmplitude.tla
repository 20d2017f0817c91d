------------------------ MODULE MCWeightedAmplitude -------------------------
EXTENDS WeightedAmplitude

MCIntegrals == {"A", "B"}

(* An order of a sector: one term, or two terms that cancel on A. *)
MCSectorSums ==
    { << [integral |-> "A", coefficient |-> 1] >>,
      << [integral |-> "B", coefficient |-> 2], [integral |-> "A", coefficient |-> -1] >> }

MCFactors == {-1, 2}
=============================================================================
