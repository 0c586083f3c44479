-------------------------- MODULE AuditedInference --------------------------
(***************************************************************************)
(* What the service promises of its audit trail, without saying how: a     *)
(* request is admitted at most once, an event is recorded for admitted     *)
(* requests only, nothing recorded is ever lost, and the success of an     *)
(* inference is reported only when its event is on record.  The client may *)
(* be refused, or hear nothing, whether or not the event was recorded      *)
(* (docs/persistence.md, "Fail-Closed Audit Policy").                      *)
(***************************************************************************)
CONSTANT Requests

VARIABLES
  admitted,  \* requests that passed authentication and the rate limit
  audit,     \* requests with an event in the database
  answer     \* what the client of each request has heard of an inference

vars == <<admitted, audit, answer>>

TypeOK ==
  /\ admitted \subseteq Requests
  /\ audit \subseteq Requests
  /\ answer \in [Requests -> {"none", "success", "refusal"}]

Init ==
  /\ admitted = {}
  /\ audit = {}
  /\ answer = [r \in Requests |-> "none"]

Admit(r) ==
  /\ r \notin admitted
  /\ answer[r] = "none"
  /\ admitted' = admitted \cup {r}
  /\ UNCHANGED <<audit, answer>>

Record(r) ==
  /\ r \in admitted
  /\ audit' = audit \cup {r}
  /\ UNCHANGED <<admitted, answer>>

Succeed(r) ==
  /\ r \in audit
  /\ answer[r] = "none"
  /\ answer' = [answer EXCEPT ![r] = "success"]
  /\ UNCHANGED <<admitted, audit>>

Refuse(r) ==
  /\ answer[r] = "none"
  /\ answer' = [answer EXCEPT ![r] = "refusal"]
  /\ UNCHANGED <<admitted, audit>>

Next == \E r \in Requests : Admit(r) \/ Record(r) \/ Succeed(r) \/ Refuse(r)

Spec == Init /\ [][Next]_vars

=============================================================================
