------------------------- MODULE MCFinalEvaluation -------------------------
(***************************************************************************)
(* An instance of FinalEvaluation for TLC: the owner edits the frozen      *)
(* files at most MaxEdits times.  Two edits let a file be changed and put  *)
(* back between two reads of one run, or be changed after each of two      *)
(* comparisons.  Once they are used up and the runs have ended, the system *)
(* stops.                                                                  *)
(***************************************************************************)
EXTENDS FinalEvaluation, TLC

CONSTANTS p1, p2, p3, v1, v2, MaxEdits

VARIABLE edits

MCInit == Init /\ edits = 0

MCNext ==
  \/ edits < MaxEdits /\ Edit /\ edits' = edits + 1
  \/ (\E p \in Runs : Step(p) \/ Crash(p)) /\ UNCHANGED edits

MCSpec == MCInit /\ [][MCNext]_<<vars, edits>>

Symmetric == Permutations(Runs) \cup Permutations(Versions)

=============================================================================
