---------------------------- MODULE MCStepZeroRuns ----------------------------
(* An instance of StepZeroRuns for TLC. *)
EXTENDS StepZeroRuns, TLC

Symmetry == Permutations(Windows) \cup Permutations(Cases) \cup Permutations(Posts) \cup Permutations(Models)
=============================================================================
