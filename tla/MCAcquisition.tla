--------------------------- MODULE MCAcquisition ---------------------------
(***************************************************************************)
(* Instances of Acquisition for TLC.                                       *)
(***************************************************************************)
EXTENDS Acquisition, TLC

CONSTANTS p1, p2, p3

Symmetric == Permutations(Procs)

=============================================================================
