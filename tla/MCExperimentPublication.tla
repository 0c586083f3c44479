---------------------- MODULE MCExperimentPublication ----------------------
(***************************************************************************)
(* Instances of ExperimentPublication for TLC.                             *)
(***************************************************************************)
EXTENDS ExperimentPublication, TLC

CONSTANTS p1, p2, p3, m1, m2, c1, c2, o1, o2

Symmetric ==
  Permutations(Runs) \cup Permutations(Models) \cup Permutations(Contexts)
    \cup Permutations(Outcomes)

=============================================================================
