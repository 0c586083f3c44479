---------------------------- MODULE MCApiServer ----------------------------
(***************************************************************************)
(* Instances of ApiServer for TLC.                                         *)
(***************************************************************************)
EXTENDS ApiServer, TLC

CONSTANTS r1, r2

TwoRequests == {r1, r2}

Symmetric == Permutations(Requests)

=============================================================================
