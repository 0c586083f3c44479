-------------------------------- MODULE Task --------------------------------
(***************************************************************************)
(* How the pure algorithms of the experiments are checked: the initial     *)
(* state is a task, one out of all inputs of the bounds, and one step       *)
(* answers it.                                                             *)
(***************************************************************************)
EXTENDS Naturals, FiniteSets

CONSTANT TopP  \* the probabilities are 0..TopP, in units of 1/TopP

ASSUME TopPAssumption == TopP \in Nat

VARIABLES
  task,    \* the kind of the task, and its input
  answer   \* what the code makes of it; Pending until it has

vars == <<task, answer>>

Pending == [pending |-> TRUE]

Refused == [refused |-> TRUE]   \* the code raises an error

(* The members of S in an order; they are few, so that each finds its own  *)
(* place.                                                                  *)
Ordered(S, Before(_, _)) ==
  [k \in 1..Cardinality(S) |-> CHOOSE i \in S :
     Cardinality({j \in S : Before(j, i)}) = k - 1]

Answered(kind) == task.kind = kind /\ answer # Pending

=============================================================================
