---------------------------- MODULE MCAlgorithms ----------------------------
(***************************************************************************)
(* The tasks of Selection, of ScoreTables and of Explanation in one state  *)
(* space.                                                                  *)
(***************************************************************************)
EXTENDS Selection, ScoreTables, Explanation

Init == SelectionInit \/ ScoreTablesInit \/ ExplanationInit

Next == SelectionNext \/ ScoreTablesNext \/ ExplanationNext

Spec == Init /\ [][Next]_vars

=============================================================================
