-------------------------- MODULE MCFrozenLineage --------------------------
(***************************************************************************)
(* An instance of FrozenLineage for TLC.                                   *)
(***************************************************************************)
EXTENDS FrozenLineage, FiniteSets, TLC

CONSTANTS r1, r2, m1, m2, s1, s2, o1, o2

\* At most so many of the calibrations leave the probabilities as they are.
MaxIdentity == 2

MCInit == Init /\ Cardinality(identity) <= MaxIdentity

MCSpec == MCInit /\ [][Next]_vars

Symmetric ==
  Permutations(Runs) \cup Permutations(Models) \cup Permutations(Settings)
    \cup Permutations(Options)

=============================================================================
