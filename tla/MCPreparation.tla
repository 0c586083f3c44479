--------------------------- MODULE MCPreparation ---------------------------
(***************************************************************************)
(* An instance of Preparation, and of the Acquisition within, for TLC.     *)
(***************************************************************************)
EXTENDS Preparation, Integers, TLC

CONSTANTS p1, p2, p3, r1, r2

Symmetric == Permutations(Procs) \cup Permutations(Runs)

UnderWay ==
  Cardinality({p \in Procs : pc[p] \notin Stopped \cup {"look"}})
    + Cardinality({p \in Runs : Running(p)})

\* Acquisitions race with each other before the first run begins, and runs
\* with each other or with one acquisition.
Bounded ==
  \/ \A p \in Runs : at[p] = "waiting"
  \/ /\ UnderWay <= 2
     /\ Cardinality({p \in Procs : pc[p] # "look"}) <= 1

=============================================================================
