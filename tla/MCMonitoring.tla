---------------------------- MODULE MCMonitoring ----------------------------
(***************************************************************************)
(* An instance of Monitoring for TLC: two releases under one version, and  *)
(* one under another, and a bound on the manifests that are replaced.      *)
(***************************************************************************)
EXTENDS Monitoring, TLC

CONSTANTS e1, e2, p1, v1, v2, d1, d2, d3

SomeReleases ==
  {[version |-> v1, digest |-> d1], [version |-> v1, digest |-> d2],
   [version |-> v2, digest |-> d3]}

\* At most so many manifests are replaced by those of another release.
CONSTANT MaxReplaced
VARIABLE replaced

MCInit == Init /\ replaced = 0

Replaces == model' # model \/ others' # others

MCNext ==
  /\ Next
  /\ replaced' = IF Replaces THEN replaced + 1 ELSE replaced
  /\ replaced' <= MaxReplaced

MCSpec == MCInit /\ [][MCNext]_<<vars, replaced>>

Symmetric == Permutations(Events) \cup Permutations({d1, d2})

=============================================================================
