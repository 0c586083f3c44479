-------------------------- MODULE ApiServerProofs --------------------------
(***************************************************************************)
(* Proofs about ApiServer, for any number of requests, any limit, window   *)
(* and pool.                                                               *)
(***************************************************************************)
EXTENDS ApiServer, SequenceTheorems, FiniteSetTheorems, TLAPS

\* What is left of the deque is a sequence of stamps.
LEMMA LiveType ==
  ASSUME history \in Seq(Nat)
  PROVE  Live \in Seq(Nat)
<1> DEFINE old == {i \in 1 .. Len(history) : history[i] <= now - Window}
<1>1. /\ IsFiniteSet(1 .. Len(history))
      /\ Cardinality(1 .. Len(history)) = Len(history)
  <2>1. Len(history) \in Nat
    OBVIOUS
  <2>2. PICK n \in Nat : n = Len(history)
    BY <2>1
  <2>3. IsFiniteSet(1 .. n) /\ Cardinality(1 .. n) = n
    BY FS_Interval
  <2>. QED  BY <2>2, <2>3
<1>2. /\ Cardinality(old) \in Nat
      /\ Cardinality(old) <= Len(history)
  <2>1. old \subseteq 1 .. Len(history)
    OBVIOUS
  <2>. QED  BY <1>1, <2>1, FS_Subset, FS_CardinalityType
<1>3. Expired \in 0 .. Len(history)
  BY <1>2 DEF Expired
<1>. QED  BY <1>3, SubSeqProperties DEF Live

(***************************************************************************)
(* Types.                                                                  *)
(***************************************************************************)

LEMMA InitTypeOK == Init => TypeOK
  BY DEF Init, TypeOK, Silent, NoLog, Codes, Statuses, AuditStates, Finished,
         Places

\* A request moves to one of the places, with one of the answers.
LEMMA GotoType ==
  ASSUME TypeOK, NEW r \in Requests, NEW l \in Places, Goto(r, l)
  PROVE  pc' \in [Requests -> Places]
  BY DEF TypeOK, Goto

LEMMA AnswerType ==
  ASSUME TypeOK, NEW r \in Requests, NEW c \in Codes, NEW n \in Statuses,
         Answer(r, c, n)
  PROVE  /\ pc' \in [Requests -> Places]
         /\ outcome' \in [Requests -> [status : Statuses, code : Codes]]
<1>1. pc' \in [Requests -> Places]
  BY GotoType DEF Answer, Places
<1>2. outcome' \in [Requests -> [status : Statuses, code : Codes]]
  BY DEF TypeOK, Answer
<1>. QED  BY <1>1, <1>2

LEMMA DbErrorType ==
  ASSUME TypeOK, NEW r \in Requests, DbError(r)
  PROVE  /\ pc' \in [Requests -> Places]
         /\ outcome' \in [Requests -> [status : Statuses, code : Codes]]
         /\ persistence' \in [Requests -> AuditStates]
<1>1. /\ {"SERVICE_NOT_READY", "PERSISTENCE_ERROR"} \subseteq Codes
      /\ 503 \in Statuses
  BY DEF Codes, Statuses
<1>2. CASE kind[r] = "ready"
  BY <1>1, <1>2, AnswerType DEF DbError, TypeOK
<1>3. CASE kind[r] # "ready"
  <2>1. persistence' \in [Requests -> AuditStates]
    BY <1>3 DEF DbError, TypeOK, AuditStates
  <2>. QED  BY <1>1, <1>3, <2>1, AnswerType DEF DbError
<1>. QED  BY <1>2, <1>3

LEMMA InfersType ==
  ASSUME TypeOK, NEW r \in Requests, Infers(r)
  PROVE  /\ pc' \in [Requests -> Places]
         /\ outcome' \in [Requests -> [status : Statuses, code : Codes]]
<1>1. CASE Goto(r, "audit") /\ UNCHANGED outcome
  BY <1>1, GotoType DEF TypeOK, Places
<1>2. CASE Answer(r, "INTERNAL_ERROR", 500)
  BY <1>2, AnswerType DEF Codes, Statuses
<1>. QED  BY <1>1, <1>2 DEF Infers

LEMMA EnvironmentTypeOK ==
  ASSUME TypeOK, Environment
  PROVE  TypeOK'
<1> USE DEF TypeOK, dbVars, clientVars
<1>1. CASE Tick        BY <1>1 DEF Tick
<1>2. CASE Migrate     BY <1>2 DEF Migrate
<1>3. CASE DbFails     BY <1>3 DEF DbFails
<1>4. CASE DbRecovers  BY <1>4 DEF DbRecovers
<1>5. CASE Startup     BY <1>5 DEF Startup
<1>6. CASE Shutdown    BY <1>6 DEF Shutdown
<1>7. CASE ProcessExit
  <2>1. "lost" \in Places
    BY DEF Places, Finished
  <2>. QED  BY <1>7, <2>1 DEF ProcessExit
<1>8. CASE Restart     BY <1>8 DEF Restart
<1>9. CASE DisposePool BY <1>9 DEF DisposePool
<1>. QED
  BY <1>1, <1>2, <1>3, <1>4, <1>5, <1>6, <1>7, <1>8, <1>9 DEF Environment

\* The answers, statuses and places that the steps below name.
LEMMA Names ==
  /\ {"SERVICE_NOT_READY", "AUTHENTICATION_FAILED", "RATE_LIMIT_EXCEEDED",
      "METHOD_NOT_ALLOWED", "VALIDATION_ERROR", "REQUEST_TOO_LARGE"} \subseteq Codes
  /\ {400, 401, 405, 413, 422, 429, 503} \subseteq Statuses
  /\ {"receiving", "dispatch", "handler", "closing", "done"} \subseteq Places
BY DEF Codes, Statuses, Places, Finished

LEMMA HeaderErrorTypes == \A e \in HeaderErrors : e[1] \in Codes /\ e[2] \in Statuses
BY DEF HeaderErrors, Codes, Statuses

\* What a step that leaves the rest alone has to show.
LEMMA ArrivesType ==
  ASSUME TypeOK, NEW r \in Requests, Arrives(r),
         history' \in Seq(Nat),
         granted' \subseteq Requests,
         pc' \in [Requests -> Places],
         outcome' \in [Requests -> [status : Statuses, code : Codes]]
  PROVE  TypeOK'
BY DEF TypeOK, Arrives, dbVars, clientVars

LEMMA ArrivalTypeOK ==
  ASSUME TypeOK, NEW r \in Requests, Arrival(r)
  PROVE  TypeOK'
<1>0. /\ Live \in Seq(Nat)
      /\ Append(Live, now) \in Seq(Nat)
      /\ history \in Seq(Nat)
      /\ granted \subseteq Requests
      /\ outcome \in [Requests -> [status : Statuses, code : Codes]]
  <2>1. history \in Seq(Nat) /\ now \in Nat
    BY DEF TypeOK
  <2>2. Live \in Seq(Nat)
    BY <2>1, LiveType
  <2>. QED  BY <2>1, <2>2 DEF TypeOK
<1>1. ASSUME Arrives(r), history' \in Seq(Nat), granted' \subseteq Requests,
             NEW c \in Codes, NEW n \in Statuses, Answer(r, c, n)
      PROVE  TypeOK'
  BY <1>1, ArrivesType, AnswerType
<1>2. ASSUME Arrives(r), history' \in Seq(Nat), granted' \subseteq Requests,
             NEW l \in Places, Goto(r, l), UNCHANGED outcome
      PROVE  TypeOK'
  <2>1. pc' \in [Requests -> Places]
    BY <1>2, GotoType
  <2>. QED  BY <1>0, <1>2, <2>1, ArrivesType
<1>3. TakeQuota(r) => /\ Arrives(r)
                      /\ history' \in Seq(Nat)
                      /\ granted' \subseteq Requests
  BY <1>0 DEF TakeQuota, AsksForQuota
<1>4. CASE RejectNotReady(r)
  BY <1>0, <1>1, <1>4, Names DEF RejectNotReady
<1>5. CASE RejectKey(r)
  BY <1>0, <1>1, <1>5, Names DEF RejectKey
<1>6. CASE RejectQuota(r)
  BY <1>0, <1>1, <1>6, Names DEF RejectQuota, AsksForQuota
<1>7. CASE RejectHeaders(r)
  BY <1>1, <1>3, <1>7, HeaderErrorTypes DEF RejectHeaders
<1>8. CASE OpenBody(r)
  BY <1>2, <1>3, <1>8, Names DEF OpenBody
<1>9. CASE PassOtherMethod(r)
  BY <1>2, <1>3, <1>9, Names DEF PassOtherMethod
<1>10. CASE PassUnlimited(r)
  BY <1>0, <1>2, <1>10, Names DEF PassUnlimited
<1>. QED  BY <1>4, <1>5, <1>6, <1>7, <1>8, <1>9, <1>10 DEF Arrival

\* The same for the steps of the event loop behind the guard.
LEMMA LoopType ==
  ASSUME TypeOK, UNCHANGED <<server, now, history, dbVars, clientVars, granted,
                             persistence, lock, pool>>,
         answered' \subseteq Requests,
         log' \in [Requests -> [status : Statuses, persistence : AuditStates] \cup {NoLog}],
         pc' \in [Requests -> Places],
         outcome' \in [Requests -> [status : Statuses, code : Codes]]
  PROVE  TypeOK'
BY DEF TypeOK, dbVars, clientVars

LEMMA LoopTypeOK ==
  ASSUME TypeOK, NEW r \in Requests, Body(r) \/ EventLoop(r)
  PROVE  TypeOK'
<1> DEFINE Same == UNCHANGED <<server, now, history, dbVars, clientVars, granted,
                              persistence, lock, pool>>
<1>0. /\ answered \subseteq Requests
      /\ outcome \in [Requests -> [status : Statuses, code : Codes]]
      /\ log \in [Requests -> [status : Statuses, persistence : AuditStates]
                              \cup {NoLog}]
  BY DEF TypeOK
<1>1. ASSUME Same, UNCHANGED <<answered, log>>,
             NEW c \in Codes, NEW n \in Statuses, Answer(r, c, n)
      PROVE  TypeOK'
  <2>1. /\ pc' \in [Requests -> Places]
        /\ outcome' \in [Requests -> [status : Statuses, code : Codes]]
    BY <1>1, AnswerType
  <2>. QED  BY <1>0, <1>1, <2>1, LoopType
<1>2. ASSUME Same, UNCHANGED outcome, answered' \subseteq Requests,
             log' \in [Requests -> [status : Statuses, persistence : AuditStates]
                                   \cup {NoLog}],
             NEW l \in Places, Goto(r, l)
      PROVE  TypeOK'
  <2>1. pc' \in [Requests -> Places]
    BY <1>2, GotoType
  <2>. QED  BY <1>0, <1>2, <2>1, LoopType
<1>3. CASE BodyComplete(r)
  BY <1>0, <1>2, <1>3, Names DEF BodyComplete, serverVars
<1>4. CASE BodyTooLarge(r)
  BY <1>1, <1>4, Names DEF BodyTooLarge, serverVars
<1>5. CASE ClientDisconnects(r)
  BY <1>0, <1>2, <1>5, Names DEF ClientDisconnects, serverVars
<1>6. CASE Dispatch(r)
  <2>1. Same /\ UNCHANGED <<answered, log>>
    BY <1>6 DEF Dispatch, serverVars
  <2>2. CASE Answer(r, "METHOD_NOT_ALLOWED", 405)
    BY <1>1, <2>1, <2>2, Names
  <2>3. ASSUME NEW status \in {400, 422}, Answer(r, "VALIDATION_ERROR", status)
        PROVE  TypeOK'
    BY <1>1, <2>1, <2>3, Names
  <2>4. CASE Goto(r, "handler") /\ UNCHANGED outcome
    BY <1>0, <1>2, <2>1, <2>4, Names
  <2>. QED  BY <1>6, <2>2, <2>3, <2>4 DEF Dispatch
<1>7. CASE Respond(r)
  BY <1>0, <1>2, <1>7, Names DEF Respond, serverVars
<1>8. CASE LogRequest(r)
  <2>1. outcome[r].status \in Statuses /\ persistence[r] \in AuditStates
    BY <1>0 DEF TypeOK
  <2>2. log' \in [Requests -> [status : Statuses, persistence : AuditStates]
                             \cup {NoLog}]
    BY <1>0, <1>8, <2>1 DEF LogRequest
  <2>. QED  BY <1>0, <1>2, <1>8, <2>2, Names DEF LogRequest, serverVars
<1>. QED  BY <1>3, <1>4, <1>5, <1>6, <1>7, <1>8 DEF Body, EventLoop

LEMMA HandlerTypeOK ==
  ASSUME TypeOK, NEW r \in Requests, Handler(r) \/ Database(r)
  PROVE  TypeOK'
<1> USE AnswerType, GotoType
    DEF threadVars, threadNoDb, serverVars, dbVars, clientVars
<1>0. /\ {"OK", "SERVICE_NOT_READY", "INTERNAL_ERROR"} \subseteq Codes
      /\ {200, 500, 503} \subseteq Statuses
      /\ {"computing", "lockwait", "explaining", "checkout", "probing",
          "saving", "committing", "respond"} \subseteq Places
  BY DEF Codes, Statuses, Places, AtDatabase
<1>1. CASE CheckRuntime(r)
  <2>1. CASE Answer(r, "SERVICE_NOT_READY", 503)
    BY <1>0, <1>1, <2>1 DEF CheckRuntime, TypeOK
  <2>2. CASE Answer(r, "OK", 200)
    BY <1>0, <1>1, <2>2 DEF CheckRuntime, TypeOK
  <2>3. CASE /\ \E l \in {"computing", "lockwait", "checkout"} : Goto(r, l)
             /\ UNCHANGED outcome
    BY <1>0, <1>1, <2>3 DEF CheckRuntime, TypeOK
  <2>. QED  BY <1>1, <2>1, <2>2, <2>3 DEF CheckRuntime
<1>2. CASE LockExplainer(r)  BY <1>0, <1>2 DEF LockExplainer, TypeOK
<1>3. CASE Predict(r)        BY <1>3, InfersType DEF Predict, TypeOK
<1>4. CASE Explain(r)        BY <1>4, InfersType DEF Explain, TypeOK
<1>5. CASE BeginSave(r)
  <2>1. CASE Goto(r, "checkout") /\ UNCHANGED outcome
    BY <1>0, <1>5, <2>1 DEF BeginSave, TypeOK
  <2>2. CASE Answer(r, "INTERNAL_ERROR", 500)
    BY <1>0, <1>5, <2>2 DEF BeginSave, TypeOK
  <2>. QED  BY <1>5, <2>1, <2>2 DEF BeginSave
<1>6. CASE CheckOut(r)       BY <1>0, <1>6 DEF CheckOut, TypeOK
<1>7. CASE CheckOutFails(r)  BY <1>7, DbErrorType DEF CheckOutFails, TypeOK
<1>8. CASE Probe(r)
  <2>1. CASE Answer(r, "OK", 200) /\ UNCHANGED persistence
    BY <1>0, <1>8, <2>1 DEF Probe, TypeOK
  <2>2. CASE DbError(r)
    BY <1>8, <2>2, DbErrorType DEF Probe, TypeOK
  <2>. QED  BY <1>8, <2>1, <2>2 DEF Probe
<1>9. CASE InsertFails(r)    BY <1>9, DbErrorType DEF InsertFails, TypeOK
<1>10. CASE SendCommit(r)     BY <1>0, <1>10 DEF SendCommit, TypeOK
<1>11. CASE CommitSucceeds(r)
  BY <1>0, <1>11 DEF CommitSucceeds, TypeOK, AuditStates
<1>12. CASE CommitFails(r)    BY <1>12, DbErrorType DEF CommitFails, TypeOK
<1>13. CASE DbApplies(r)      BY <1>13 DEF DbApplies, TypeOK
<1>14. CASE DbDiscards(r)     BY <1>14 DEF DbDiscards, TypeOK
<1>. QED  BY <1>1, <1>2, <1>3, <1>4, <1>5, <1>6, <1>7, <1>8, <1>9, <1>10,
             <1>11, <1>12, <1>13, <1>14 DEF Handler, Database

LEMMA NextTypeOK == TypeOK /\ [Next]_vars => TypeOK'
<1> SUFFICES ASSUME TypeOK, [Next]_vars PROVE TypeOK'
  OBVIOUS
<1>1. CASE Next
  BY <1>1, EnvironmentTypeOK, ArrivalTypeOK, LoopTypeOK, HandlerTypeOK DEF Next
<1>2. CASE UNCHANGED vars
  BY <1>2 DEF TypeOK, vars, dbVars, clientVars
<1>. QED  BY <1>1, <1>2

\* Every state of the server has the types of TypeOK.
THEOREM ServerTypeOK == Spec => []TypeOK
  BY InitTypeOK, NextTypeOK, PTL DEF Spec

-----------------------------------------------------------------------------
(***************************************************************************)
(* The inductive invariant: what is known of one request at each place.    *)
(***************************************************************************)

\* Between its arrival and the decision of its outcome.
InFlight ==
  {"receiving", "dispatch", "handler", "computing", "lockwait", "explaining",
   "audit", "checkout", "probing", "saving", "committing"}
Decided == {"respond", "closing", "done"}

\* Only the kinds that belong there get to a place, and a POST gets past its
\* arrival with a verified key and quota only.
AdmissionInv(r) ==
  /\ pc[r] = "unsent" => r \notin granted
  /\ r \in answered => pc[r] \in {"closing", "done", "lost"}
  /\ pc[r] \in InFlight /\ kind[r] \in PostKinds =>
       keyValid[r] /\ r \in granted
  /\ pc[r] \in {"receiving", "computing", "lockwait", "explaining", "audit",
                "saving", "committing"} => kind[r] \in PostKinds
  /\ pc[r] = "probing" => kind[r] = "ready"
  /\ pc[r] \in {"handler", "checkout"} => kind[r] # "get-inference"
  /\ pc[r] = "checkout" => kind[r] # "model-info"

\* A COMMIT is only ever sent by "saving", and leaves a trace in the outcome.
CommitInv(r) ==
  r \in rows \cup commits =>
    /\ keyValid[r] /\ r \in granted /\ kind[r] \in PostKinds
    /\ pc[r] \in {"committing", "lost"} \cup Decided
    /\ pc[r] \in Decided \/ r \in answered =>
         outcome[r].code \in {"OK", "PERSISTENCE_ERROR"}
    /\ pc[r] \in Decided => persistence[r] # "not_attempted"

\* Success is decided once the row is there, and rows stay.
SuccessInv(r) ==
  /\ pc[r] = "respond" \/ r \in answered =>
       (kind[r] \in InferenceKinds /\ outcome[r].status = 200 => r \in rows)
  /\ persistence[r] = "committed" => r \in rows

LogInv(r) ==
  log[r] # NoLog =>
    pc[r] = "done" /\ log[r].persistence = persistence[r]

HoldInv(r) ==
  /\ pc[r] = "explaining" <=> lock = r
  /\ r \in pool => pc[r] \in AtDatabase

RequestInv(r) ==
  /\ AdmissionInv(r)
  /\ CommitInv(r)
  /\ SuccessInv(r)
  /\ LogInv(r)
  /\ HoldInv(r)

IInv == TypeOK /\ \A r \in Requests : RequestInv(r)

\* Where a step leaves the places and outcomes.
LEMMA GotoAt ==
  ASSUME TypeOK, NEW r \in Requests, NEW l, Goto(r, l)
  PROVE  /\ pc'[r] = l
         /\ \A q \in Requests \ {r} : pc'[q] = pc[q]
  BY DEF TypeOK, Goto

LEMMA AnswerAt ==
  ASSUME TypeOK, NEW r \in Requests, NEW c, NEW n, Answer(r, c, n)
  PROVE  /\ pc'[r] = "respond"
         /\ outcome'[r].status = n
         /\ outcome'[r].code = c
         /\ \A q \in Requests \ {r} :
              pc'[q] = pc[q] /\ outcome'[q] = outcome[q]
  BY GotoAt DEF TypeOK, Answer

LEMMA DbErrorAt ==
  ASSUME TypeOK, NEW r \in Requests, DbError(r)
  PROVE  /\ pc'[r] = "respond"
         /\ outcome'[r].status = 503
         /\ kind[r] # "ready" => /\ outcome'[r].code = "PERSISTENCE_ERROR"
                                 /\ persistence'[r] = "failed"
         /\ kind[r] = "ready" => persistence'[r] = persistence[r]
         /\ \A q \in Requests \ {r} :
              /\ pc'[q] = pc[q]
              /\ outcome'[q] = outcome[q]
              /\ persistence'[q] = persistence[q]
<1>1. CASE kind[r] = "ready"
  <2>1. Answer(r, "SERVICE_NOT_READY", 503) /\ UNCHANGED persistence
    BY <1>1 DEF DbError
  <2>. QED  BY <1>1, <2>1, AnswerAt
<1>2. CASE kind[r] # "ready"
  <2>1. /\ persistence'[r] = "failed"
        /\ \A q \in Requests \ {r} : persistence'[q] = persistence[q]
    BY <1>2 DEF DbError, TypeOK
  <2>2. Answer(r, "PERSISTENCE_ERROR", 503)
    BY <1>2 DEF DbError
  <2>. QED  BY <1>2, <2>1, <2>2, AnswerAt
<1>. QED  BY <1>1, <1>2

LEMMA InfersAt ==
  ASSUME TypeOK, NEW r \in Requests, Infers(r)
  PROVE  /\ \/ pc'[r] = "audit" /\ outcome'[r] = outcome[r]
            \/ pc'[r] = "respond" /\ outcome'[r].status = 500
         /\ \A q \in Requests \ {r} :
              pc'[q] = pc[q] /\ outcome'[q] = outcome[q]
<1>1. CASE Goto(r, "audit") /\ UNCHANGED outcome
  BY <1>1, GotoAt
<1>2. CASE Answer(r, "INTERNAL_ERROR", 500)
  BY <1>2, AnswerAt
<1>. QED  BY <1>1, <1>2 DEF Infers

\* What is known of a request stays known when the step is about another one,
\* or when the database decides its COMMIT.
LEMMA Frame ==
  ASSUME NEW q \in Requests, RequestInv(q),
         kind' = kind, keyValid' = keyValid,
         pc'[q] = pc[q], outcome'[q] = outcome[q],
         persistence'[q] = persistence[q], log'[q] = log[q],
         q \in granted' <=> q \in granted,
         q \in answered' <=> q \in answered,
         lock' = q <=> lock = q,
         q \in pool' => q \in pool,
         q \in rows => q \in rows',
         q \in rows' \cup commits' => q \in rows \cup commits
  PROVE  RequestInv(q)'
<1>1. AdmissionInv(q)'  BY DEF RequestInv, AdmissionInv
<1>2. CommitInv(q)'     BY DEF RequestInv, CommitInv
<1>3. SuccessInv(q)'    BY DEF RequestInv, SuccessInv
<1>4. LogInv(q)'        BY DEF RequestInv, LogInv
<1>5. HoldInv(q)'       BY DEF RequestInv, HoldInv
<1>. QED  BY <1>1, <1>2, <1>3, <1>4, <1>5 DEF RequestInv

LEMMA InitIInv == Init => IInv
<1> SUFFICES ASSUME Init PROVE IInv
  OBVIOUS
<1>1. TypeOK
  BY InitTypeOK
<1>2. ASSUME NEW r \in Requests PROVE RequestInv(r)
  BY NobodyAssumption
     DEF Init, RequestInv, AdmissionInv, CommitInv, SuccessInv, LogInv,
         HoldInv, Silent, NoLog, InFlight, Decided, AtDatabase
<1>. QED  BY <1>1, <1>2 DEF IInv

LEMMA EnvironmentIInv ==
  ASSUME IInv, Environment, NEW q \in Requests
  PROVE  RequestInv(q)'
<1> USE DEF dbVars, clientVars
<1>0. TypeOK /\ RequestInv(q)
  BY DEF IInv
<1>1. CASE Tick        BY <1>0, <1>1, Frame DEF Tick
<1>2. CASE Migrate     BY <1>0, <1>2, Frame DEF Migrate
<1>3. CASE DbFails     BY <1>0, <1>3, Frame DEF DbFails
<1>4. CASE DbRecovers  BY <1>0, <1>4, Frame DEF DbRecovers
<1>5. CASE Startup     BY <1>0, <1>5, Frame DEF Startup
<1>6. CASE Shutdown    BY <1>0, <1>6, Frame DEF Shutdown
<1>7. CASE ProcessExit
  <2>1. /\ pc'[q] = IF pc[q] \in Finished THEN pc[q] ELSE "lost"
        /\ lock' # q
        /\ pool' = {}
        /\ UNCHANGED <<commits, rows, kind, keyValid, granted, outcome,
                       answered, persistence, log>>
    BY <1>0, <1>7, NobodyAssumption DEF ProcessExit, TypeOK
  <2>2. AdmissionInv(q)'
    BY <1>0, <2>1 DEF RequestInv, AdmissionInv, InFlight, Finished
  <2>3. CommitInv(q)'
    BY <1>0, <2>1 DEF RequestInv, CommitInv, Decided, Finished
  <2>4. SuccessInv(q)'
    BY <1>0, <2>1 DEF RequestInv, SuccessInv, Finished
  <2>5. LogInv(q)'
    BY <1>0, <2>1 DEF RequestInv, LogInv, Finished
  <2>6. HoldInv(q)'
    BY <1>0, <2>1 DEF HoldInv, Finished
  <2>. QED  BY <2>2, <2>3, <2>4, <2>5, <2>6 DEF RequestInv
<1>8. CASE Restart     BY <1>0, <1>8, Frame DEF Restart
<1>9. CASE DisposePool BY <1>0, <1>9, Frame DEF DisposePool
<1>. QED
  BY <1>1, <1>2, <1>3, <1>4, <1>5, <1>6, <1>7, <1>8, <1>9 DEF Environment

LEMMA DatabaseIInv ==
  ASSUME IInv, NEW r \in Requests, Database(r), NEW q \in Requests
  PROVE  RequestInv(q)'
<1> USE DEF threadNoDb, clientVars
<1>0. RequestInv(q)
  BY DEF IInv
<1>1. CASE DbApplies(r)   BY <1>0, <1>1, Frame DEF DbApplies
<1>2. CASE DbDiscards(r)  BY <1>0, <1>2, Frame DEF DbDiscards
<1>. QED  BY <1>1, <1>2 DEF Database

\* A step of one request leaves the others where they are.
LEMMA OthersIInv ==
  ASSUME IInv, NEW r \in Requests, NEW q \in Requests \ {r},
         Arrival(r) \/ Body(r) \/ EventLoop(r) \/ Handler(r)
  PROVE  RequestInv(q)'
<1>0. TypeOK /\ RequestInv(q) /\ RequestInv(r)
  BY DEF IInv
<1>1. CASE Arrival(r)
  <2> USE DEF dbVars, clientVars, Arrives
  <2>0. UNCHANGED <<dbVars, clientVars, answered, persistence, lock, pool, log>>
    BY <1>1 DEF Arrival, RejectNotReady, RejectKey, RejectQuota, RejectHeaders,
                OpenBody, PassOtherMethod, PassUnlimited, AsksForQuota, TakeQuota
  <2>1. q \in granted' <=> q \in granted
    BY <1>1 DEF Arrival, RejectNotReady, RejectKey, RejectQuota, RejectHeaders,
                OpenBody, PassOtherMethod, PassUnlimited, AsksForQuota, TakeQuota
  <2>2. pc'[q] = pc[q] /\ outcome'[q] = outcome[q]
    <3>1. \/ \E c, n : Answer(r, c, n)
          \/ \E l : Goto(r, l) /\ UNCHANGED outcome
      BY <1>1 DEF Arrival, RejectNotReady, RejectKey, RejectQuota,
                  RejectHeaders, OpenBody, PassOtherMethod, PassUnlimited
    <3>. QED  BY <1>0, <3>1, AnswerAt, GotoAt
  <2>. QED  BY <1>0, <2>0, <2>1, <2>2, Frame
<1>2. CASE Body(r) \/ EventLoop(r)
  <2> USE DEF serverVars, dbVars, clientVars
  <2>0. /\ UNCHANGED <<serverVars, persistence, lock, pool>>
        /\ q \in answered' <=> q \in answered
        /\ log'[q] = log[q]
    BY <1>0, <1>2 DEF Body, EventLoop, BodyComplete, BodyTooLarge,
       ClientDisconnects, Dispatch, Respond, LogRequest, TypeOK
  <2>1. pc'[q] = pc[q] /\ outcome'[q] = outcome[q]
    <3>1. \/ \E c, n : Answer(r, c, n)
          \/ \E l : Goto(r, l) /\ UNCHANGED outcome
      BY <1>2 DEF Body, EventLoop, BodyComplete, BodyTooLarge,
         ClientDisconnects, Dispatch, Respond, LogRequest
    <3>. QED  BY <1>0, <3>1, AnswerAt, GotoAt
  <2>. QED  BY <1>0, <2>0, <2>1, Frame
<1>3. CASE Handler(r)
  <2> USE DEF threadVars, threadNoDb, serverVars, dbVars, clientVars
  <2>1. CASE CheckRuntime(r)
    <3>1. \/ \E c, n : Answer(r, c, n)
          \/ \E l : Goto(r, l) /\ UNCHANGED outcome
      BY <2>1 DEF CheckRuntime
    <3>2. pc'[q] = pc[q] /\ outcome'[q] = outcome[q]
      BY <1>0, <3>1, AnswerAt, GotoAt
    <3>. QED  BY <1>0, <2>1, <3>2, Frame DEF CheckRuntime
  <2>2. CASE LockExplainer(r)
    <3>1. pc'[q] = pc[q] /\ (lock' = q <=> lock = q)
      BY <1>0, <2>2, GotoAt, NobodyAssumption DEF LockExplainer
    <3>. QED  BY <1>0, <2>2, <3>1, Frame DEF LockExplainer
  <2>3. CASE Predict(r)
    <3>1. pc'[q] = pc[q] /\ outcome'[q] = outcome[q]
      BY <1>0, <2>3, InfersAt DEF Predict
    <3>. QED  BY <1>0, <2>3, <3>1, Frame DEF Predict
  <2>4. CASE Explain(r)
    <3>1. pc'[q] = pc[q] /\ outcome'[q] = outcome[q]
      BY <1>0, <2>4, InfersAt DEF Explain
    <3>2. lock' = q <=> lock = q
      BY <1>0, <2>4, NobodyAssumption DEF Explain, RequestInv, HoldInv
    <3>. QED  BY <1>0, <2>4, <3>1, <3>2, Frame DEF Explain
  <2>5. CASE BeginSave(r)
    <3>1. \/ \E c, n : Answer(r, c, n)
          \/ \E l : Goto(r, l) /\ UNCHANGED outcome
      BY <2>5 DEF BeginSave
    <3>2. pc'[q] = pc[q] /\ outcome'[q] = outcome[q]
      BY <1>0, <3>1, AnswerAt, GotoAt
    <3>. QED  BY <1>0, <2>5, <3>2, Frame DEF BeginSave
  <2>6. CASE CheckOut(r)
    <3>1. \E l : Goto(r, l)
      BY <2>6 DEF CheckOut
    <3>2. pc'[q] = pc[q] /\ (q \in pool' => q \in pool)
      BY <1>0, <2>6, <3>1, GotoAt DEF CheckOut
    <3>. QED  BY <1>0, <2>6, <3>2, Frame DEF CheckOut
  <2>7. CASE CheckOutFails(r)
    BY <1>0, <2>7, DbErrorAt, Frame DEF CheckOutFails
  <2>8. CASE Probe(r)
    <3>1. /\ pc'[q] = pc[q]
          /\ outcome'[q] = outcome[q]
          /\ persistence'[q] = persistence[q]
      <4>1. CASE Answer(r, "OK", 200) /\ UNCHANGED persistence
        BY <1>0, <4>1, AnswerAt
      <4>2. CASE DbError(r)
        BY <1>0, <4>2, DbErrorAt
      <4>. QED  BY <2>8, <4>1, <4>2 DEF Probe
    <3>. QED  BY <1>0, <2>8, <3>1, Frame DEF Probe
  <2>9. CASE InsertFails(r)
    BY <1>0, <2>9, DbErrorAt, Frame DEF InsertFails
  <2>10. CASE SendCommit(r)
    BY <1>0, <2>10, GotoAt, Frame DEF SendCommit
  <2>11. CASE CommitSucceeds(r)
    <3>1. persistence'[q] = persistence[q]
      BY <1>0, <2>11 DEF CommitSucceeds, TypeOK
    <3>2. pc'[q] = pc[q] /\ outcome'[q] = outcome[q]
      BY <1>0, <2>11, AnswerAt DEF CommitSucceeds
    <3>. QED  BY <1>0, <2>11, <3>1, <3>2, Frame DEF CommitSucceeds
  <2>12. CASE CommitFails(r)
    BY <1>0, <2>12, DbErrorAt, Frame DEF CommitFails
  <2>. QED  BY <1>3, <2>1, <2>2, <2>3, <2>4, <2>5, <2>6, <2>7, <2>8, <2>9,
               <2>10, <2>11, <2>12 DEF Handler
<1>. QED  BY <1>1, <1>2, <1>3

\* Arrival: nothing was granted, sent or recorded before.
LEMMA ArrivalIInv ==
  ASSUME IInv, NEW r \in Requests, Arrival(r)
  PROVE  RequestInv(r)'
<1> USE DEF dbVars, clientVars, Arrives
<1>0. /\ TypeOK /\ AdmissionInv(r) /\ CommitInv(r) /\ SuccessInv(r)
      /\ LogInv(r) /\ HoldInv(r)
  BY DEF IInv, RequestInv
<1>1. /\ pc[r] = "unsent"
      /\ UNCHANGED <<dbVars, clientVars, answered, persistence, lock, pool, log>>
  BY DEF Arrival, RejectNotReady, RejectKey, RejectQuota, RejectHeaders,
         OpenBody, PassOtherMethod, PassUnlimited, AsksForQuota, TakeQuota
<1>2. /\ r \notin answered
      /\ r \notin rows \cup commits
      /\ log[r] = NoLog
      /\ lock # r
      /\ r \notin pool
  BY <1>0, <1>1 DEF AdmissionInv, CommitInv, LogInv, HoldInv, Decided,
                    AtDatabase
<1>3. \/ /\ pc'[r] = "respond"
         /\ outcome'[r].status # 200
      \/ /\ pc'[r] = "receiving"
         /\ kind[r] \in PostKinds
         /\ keyValid[r] /\ r \in granted'
      \/ /\ pc'[r] = "dispatch"
         /\ kind[r] \notin PostKinds
  <2>1. CASE RejectNotReady(r)  BY <1>0, <2>1, AnswerAt DEF RejectNotReady
  <2>2. CASE RejectKey(r)       BY <1>0, <2>2, AnswerAt DEF RejectKey
  <2>3. CASE RejectQuota(r)     BY <1>0, <2>3, AnswerAt DEF RejectQuota
  <2>4. CASE RejectHeaders(r)
    <3>1. PICK e \in HeaderErrors : Answer(r, e[1], e[2])
      BY <2>4 DEF RejectHeaders
    <3>2. e[2] # 200
      BY DEF HeaderErrors
    <3>. QED  BY <1>0, <3>1, <3>2, AnswerAt
  <2>5. CASE OpenBody(r)
    BY <1>0, <2>5, GotoAt DEF OpenBody, TakeQuota, AsksForQuota
  <2>6. CASE PassOtherMethod(r)
    BY <1>0, <2>6, GotoAt DEF PassOtherMethod
  <2>7. CASE PassUnlimited(r)
    BY <1>0, <2>7, GotoAt DEF PassUnlimited, InferenceKinds
  <2>. QED  BY <2>1, <2>2, <2>3, <2>4, <2>5, <2>6, <2>7 DEF Arrival
<1>4. AdmissionInv(r)'
  BY <1>1, <1>2, <1>3 DEF AdmissionInv, InFlight
<1>5. CommitInv(r)'   BY <1>1, <1>2 DEF CommitInv
<1>6. SuccessInv(r)'  BY <1>0, <1>1, <1>2, <1>3 DEF SuccessInv
<1>7. LogInv(r)'      BY <1>1, <1>2 DEF LogInv
<1>8. HoldInv(r)'     BY <1>1, <1>2, <1>3 DEF HoldInv
<1>. QED  BY <1>4, <1>5, <1>6, <1>7, <1>8 DEF RequestInv

LEMMA LoopIInv ==
  ASSUME IInv, NEW r \in Requests, Body(r) \/ EventLoop(r)
  PROVE  RequestInv(r)'
<1> USE DEF serverVars, dbVars, clientVars
<1>0. /\ TypeOK /\ AdmissionInv(r) /\ CommitInv(r) /\ SuccessInv(r)
      /\ LogInv(r) /\ HoldInv(r)
  BY DEF IInv, RequestInv
<1>1. CASE Body(r) \/ Dispatch(r)
  <2>1. /\ pc[r] \in {"receiving", "dispatch"}
        /\ UNCHANGED <<serverVars, answered, persistence, lock, pool, log>>
    BY <1>1 DEF Body, BodyComplete, BodyTooLarge, ClientDisconnects, Dispatch
  <2>2. /\ r \notin answered
        /\ r \notin rows \cup commits
        /\ log[r] = NoLog
        /\ lock # r
        /\ r \notin pool
    BY <1>0, <2>1 DEF AdmissionInv, CommitInv, LogInv, HoldInv, Decided,
                      AtDatabase
  <2>3. \/ /\ pc'[r] = "respond"
           /\ outcome'[r].status # 200
        \/ pc'[r] = "closing"
        \/ pc'[r] = "dispatch" /\ kind[r] \in PostKinds
        \/ pc'[r] = "handler" /\ kind[r] # "get-inference"
    <3>1. CASE BodyComplete(r)
      BY <1>0, <3>1, GotoAt DEF BodyComplete, AdmissionInv
    <3>2. CASE BodyTooLarge(r)
      BY <1>0, <3>2, AnswerAt DEF BodyTooLarge
    <3>3. CASE ClientDisconnects(r)
      BY <1>0, <3>3, GotoAt DEF ClientDisconnects
    <3>4. CASE Dispatch(r)
      BY <1>0, <3>4, AnswerAt, GotoAt DEF Dispatch
    <3>. QED  BY <1>1, <3>1, <3>2, <3>3, <3>4 DEF Body
  <2>4. AdmissionInv(r)'
    BY <1>0, <2>1, <2>2, <2>3 DEF AdmissionInv, InFlight
  <2>5. CommitInv(r)'   BY <2>1, <2>2 DEF CommitInv
  <2>6. SuccessInv(r)'  BY <1>0, <2>1, <2>2, <2>3 DEF SuccessInv
  <2>7. LogInv(r)'      BY <2>1, <2>2 DEF LogInv
  <2>8. HoldInv(r)'     BY <2>1, <2>2, <2>3 DEF HoldInv
  <2>. QED  BY <2>4, <2>5, <2>6, <2>7, <2>8 DEF RequestInv
<1>2. CASE Respond(r)
  <2>1. /\ pc[r] = "respond"
        /\ pc'[r] = "closing"
        /\ answered' = answered \cup {r}
        /\ UNCHANGED <<serverVars, outcome, persistence, lock, pool, log>>
    BY <1>0, <1>2, GotoAt DEF Respond
  <2>2. AdmissionInv(r)'  BY <1>0, <2>1 DEF AdmissionInv, InFlight
  <2>3. CommitInv(r)'     BY <1>0, <2>1 DEF CommitInv, Decided
  <2>4. SuccessInv(r)'    BY <1>0, <2>1 DEF SuccessInv
  <2>5. LogInv(r)'        BY <1>0, <2>1 DEF LogInv
  <2>6. HoldInv(r)'       BY <1>0, <2>1 DEF HoldInv, AtDatabase
  <2>. QED  BY <2>2, <2>3, <2>4, <2>5, <2>6 DEF RequestInv
<1>3. CASE LogRequest(r)
  <2>1. /\ pc[r] = "closing"
        /\ pc'[r] = "done"
        /\ log'[r].persistence = persistence[r]
        /\ UNCHANGED <<serverVars, outcome, answered, persistence, lock, pool>>
    <3>1. log'[r] = [status |-> outcome[r].status,
                     persistence |-> persistence[r]]
      BY <1>0, <1>3 DEF LogRequest, TypeOK
    <3>2. pc'[r] = "done"
      BY <1>0, <1>3, GotoAt DEF LogRequest
    <3>. QED  BY <1>3, <3>1, <3>2 DEF LogRequest
  <2>2. AdmissionInv(r)'  BY <1>0, <2>1 DEF AdmissionInv, InFlight
  <2>3. CommitInv(r)'     BY <1>0, <2>1 DEF CommitInv, Decided
  <2>4. SuccessInv(r)'    BY <1>0, <2>1 DEF SuccessInv
  <2>5. LogInv(r)'        BY <2>1 DEF LogInv
  <2>6. HoldInv(r)'       BY <1>0, <2>1 DEF HoldInv, AtDatabase
  <2>. QED  BY <2>2, <2>3, <2>4, <2>5, <2>6 DEF RequestInv
<1>. QED  BY <1>1, <1>2, <1>3 DEF EventLoop

\* Before its COMMIT a request has no trace in the database, and however the
\* repository ends the request has left its connection and its mark.
LEMMA HandlerIInv ==
  ASSUME IInv, NEW r \in Requests, Handler(r)
  PROVE  RequestInv(r)'
<1> USE DEF threadVars, threadNoDb, serverVars, dbVars, clientVars
<1>0. /\ TypeOK /\ AdmissionInv(r) /\ CommitInv(r) /\ SuccessInv(r)
      /\ LogInv(r) /\ HoldInv(r)
  BY DEF IInv, RequestInv
<1>1. /\ pc[r] \in {"handler", "computing", "lockwait", "explaining", "audit",
                    "checkout", "probing", "saving", "committing"}
      /\ UNCHANGED <<clientVars, granted, answered, rows, log>>
  BY DEF Handler, CheckRuntime, LockExplainer, Predict, Explain, BeginSave,
     CheckOut, CheckOutFails, Probe, InsertFails, SendCommit, CommitSucceeds,
     CommitFails
<1>2. /\ r \notin answered
      /\ log[r] = NoLog
      /\ pc[r] # "committing" => r \notin rows \cup commits
      /\ kind[r] \in PostKinds => keyValid[r] /\ r \in granted
      /\ persistence[r] = "committed" => r \in rows
  BY <1>0, <1>1 DEF AdmissionInv, CommitInv, SuccessInv, LogInv, Decided,
                    InFlight
<1>3. LogInv(r)'
  BY <1>1, <1>2 DEF LogInv
\* Steps before the repository, and out of it without a COMMIT.
<1>4. CASE CheckRuntime(r) \/ LockExplainer(r) \/ Predict(r) \/ Explain(r)
           \/ BeginSave(r) \/ CheckOut(r)
  <2>1. /\ r \notin rows \cup commits
        /\ UNCHANGED <<commits, persistence>>
    BY <1>2, <1>4 DEF CheckRuntime, LockExplainer, Predict, Explain, BeginSave,
       CheckOut
  <2>2. \/ /\ pc'[r] = "respond"
           /\ outcome'[r].status = 200 => kind[r] = "model-info"
           /\ lock' # r /\ r \notin pool'
        \/ /\ pc'[r] \in {"computing", "lockwait", "audit"}
           /\ kind[r] \in PostKinds
           /\ lock' # r /\ r \notin pool'
        \/ /\ pc'[r] = "explaining"
           /\ kind[r] \in PostKinds
           /\ lock' = r /\ r \notin pool'
        \/ /\ pc'[r] = "checkout"
           /\ kind[r] \in PostKinds \cup {"ready"}
           /\ lock' # r /\ r \notin pool'
        \/ /\ pc'[r] = "probing"
           /\ kind[r] = "ready"
           /\ lock' # r
        \/ /\ pc'[r] = "saving"
           /\ kind[r] \in PostKinds
           /\ lock' # r
    <3>0. /\ kind[r] \in AllKinds
          /\ pc[r] \notin AtDatabase => r \notin pool
          /\ pc[r] # "explaining" => lock # r
      BY <1>0, KindsAssumption DEF TypeOK, HoldInv
    <3>1. CASE CheckRuntime(r)
      <4>1. pc[r] = "handler" /\ kind[r] # "get-inference"
        BY <1>0, <3>1 DEF CheckRuntime, AdmissionInv
      <4>2. lock' # r /\ r \notin pool'
        BY <3>0, <3>1, <4>1 DEF CheckRuntime, AtDatabase
      <4>3. CASE Answer(r, "SERVICE_NOT_READY", 503)
        BY <1>0, <4>2, <4>3, AnswerAt
      <4>4. CASE kind[r] = "model-info" /\ Answer(r, "OK", 200)
        BY <1>0, <4>2, <4>4, AnswerAt
      <4>5. CASE kind[r] = "predict" /\ Goto(r, "computing")
        BY <1>0, <4>2, <4>5, GotoAt DEF PostKinds
      <4>6. CASE kind[r] = "explain" /\ Goto(r, "lockwait")
        BY <1>0, <4>2, <4>6, GotoAt DEF PostKinds
      <4>7. CASE kind[r] = "ready" /\ Goto(r, "checkout")
        BY <1>0, <4>2, <4>7, GotoAt
      <4>. QED
        BY <3>0, <3>1, <4>1, <4>3, <4>4, <4>5, <4>6, <4>7
           DEF CheckRuntime, AllKinds, ProtectedKinds, InferenceKinds, PostKinds
    <3>2. CASE LockExplainer(r)
      BY <1>0, <3>0, <3>2, GotoAt DEF LockExplainer, AdmissionInv, AtDatabase
    <3>3. CASE Predict(r)
      BY <1>0, <3>0, <3>3, InfersAt DEF Predict, AdmissionInv, AtDatabase
    <3>4. CASE Explain(r)
      BY <1>0, <3>0, <3>4, InfersAt, NobodyAssumption
         DEF Explain, AdmissionInv, AtDatabase
    <3>5. CASE BeginSave(r)
      <4>1. /\ kind[r] \in PostKinds
            /\ lock' # r /\ r \notin pool'
        BY <1>0, <3>0, <3>5 DEF BeginSave, AdmissionInv, AtDatabase
      <4>2. CASE Goto(r, "checkout")
        BY <1>0, <4>1, <4>2, GotoAt
      <4>3. CASE Answer(r, "INTERNAL_ERROR", 500)
        BY <1>0, <4>1, <4>3, AnswerAt
      <4>. QED  BY <3>5, <4>2, <4>3 DEF BeginSave
    <3>6. CASE CheckOut(r)
      <4>1. /\ kind[r] \in PostKinds \cup {"ready"}
            /\ lock' # r
        BY <1>0, <3>0, <3>6
           DEF CheckOut, AdmissionInv, AllKinds, ProtectedKinds, InferenceKinds
      <4>2. CASE kind[r] = "ready"
        BY <1>0, <3>6, <4>1, <4>2, GotoAt DEF CheckOut
      <4>3. CASE kind[r] # "ready"
        BY <1>0, <3>6, <4>1, <4>3, GotoAt DEF CheckOut
      <4>. QED  BY <4>2, <4>3
    <3>. QED  BY <1>4, <3>1, <3>2, <3>3, <3>4, <3>5, <3>6
  <2>3. AdmissionInv(r)'
    BY <1>1, <1>2, <2>2 DEF AdmissionInv, PostKinds
  <2>4. CommitInv(r)'   BY <1>1, <2>1 DEF CommitInv
  <2>5. SuccessInv(r)'
    BY <1>1, <1>2, <2>1, <2>2 DEF SuccessInv, InferenceKinds, PostKinds
  <2>6. HoldInv(r)'     BY <2>2 DEF HoldInv, AtDatabase
  <2>. QED  BY <1>3, <2>3, <2>4, <2>5, <2>6 DEF RequestInv
\* Errors at the database.
<1>5. CASE /\ CheckOutFails(r) \/ Probe(r) \/ InsertFails(r) \/ CommitFails(r)
           /\ DbError(r)
  <2>1. /\ r \notin pool'
        /\ lock' # r
        /\ UNCHANGED commits
    BY <1>0, <1>5 DEF CheckOutFails, Probe, InsertFails, CommitFails, HoldInv,
                      AtDatabase
  <2>2. /\ pc'[r] = "respond"
        /\ outcome'[r].status = 503
        /\ kind[r] # "ready" => /\ outcome'[r].code = "PERSISTENCE_ERROR"
                                /\ persistence'[r] = "failed"
        /\ kind[r] = "ready" => persistence'[r] = persistence[r]
    BY <1>0, <1>5, DbErrorAt
  <2>3. AdmissionInv(r)'
    BY <1>1, <1>2, <2>2 DEF AdmissionInv, InFlight
  <2>4. CommitInv(r)'
    BY <1>0, <1>1, <2>1, <2>2 DEF CommitInv, Decided, PostKinds
  <2>5. SuccessInv(r)'
    BY <1>0, <1>1, <1>2, <2>2 DEF SuccessInv
  <2>6. HoldInv(r)'     BY <2>1, <2>2 DEF HoldInv
  <2>. QED  BY <1>3, <2>3, <2>4, <2>5, <2>6 DEF RequestInv
\* The readiness check succeeds.
<1>6. CASE Probe(r) /\ Answer(r, "OK", 200) /\ UNCHANGED persistence
  <2>1. /\ pc[r] = "probing"
        /\ kind[r] = "ready"
        /\ r \notin pool'
        /\ lock' # r
        /\ UNCHANGED commits
        /\ r \notin rows \cup commits
    BY <1>0, <1>2, <1>6 DEF Probe, AdmissionInv, HoldInv
  <2>2. pc'[r] = "respond"
    BY <1>0, <1>6, AnswerAt
  <2>3. AdmissionInv(r)'  BY <1>1, <1>2, <2>2 DEF AdmissionInv, InFlight
  <2>4. CommitInv(r)'     BY <1>1, <2>1 DEF CommitInv
  <2>5. SuccessInv(r)'
    BY <1>1, <1>2, <1>6, <2>1 DEF SuccessInv, InferenceKinds, PostKinds
  <2>6. HoldInv(r)'       BY <2>1, <2>2 DEF HoldInv
  <2>. QED  BY <1>3, <2>3, <2>4, <2>5, <2>6 DEF RequestInv
<1>7. CASE SendCommit(r)
  <2>1. /\ pc[r] = "saving"
        /\ pc'[r] = "committing"
        /\ kind[r] \in PostKinds
        /\ lock' # r
        /\ UNCHANGED persistence
    BY <1>0, <1>7, GotoAt DEF SendCommit, AdmissionInv, HoldInv
  <2>2. AdmissionInv(r)'  BY <1>1, <1>2, <2>1 DEF AdmissionInv
  <2>3. CommitInv(r)'     BY <1>1, <1>2, <2>1 DEF CommitInv, Decided
  <2>4. SuccessInv(r)'    BY <1>1, <1>2, <2>1 DEF SuccessInv
  <2>5. HoldInv(r)'       BY <2>1 DEF HoldInv, AtDatabase
  <2>. QED  BY <1>3, <2>2, <2>3, <2>4, <2>5 DEF RequestInv
<1>8. CASE CommitSucceeds(r)
  <2>1. /\ pc[r] = "committing"
        /\ r \in rows
        /\ r \notin pool'
        /\ lock' # r
        /\ persistence'[r] = "committed"
        /\ UNCHANGED commits
    BY <1>0, <1>8 DEF CommitSucceeds, HoldInv, TypeOK
  <2>2. pc'[r] = "respond" /\ outcome'[r].code = "OK"
    BY <1>0, <1>8, AnswerAt DEF CommitSucceeds
  <2>3. AdmissionInv(r)'  BY <1>1, <1>2, <2>2 DEF AdmissionInv, InFlight
  <2>4. CommitInv(r)'     BY <1>0, <1>1, <2>1, <2>2 DEF CommitInv, Decided
  <2>5. SuccessInv(r)'    BY <1>1, <2>1 DEF SuccessInv
  <2>6. HoldInv(r)'       BY <2>1, <2>2 DEF HoldInv
  <2>. QED  BY <1>3, <2>3, <2>4, <2>5, <2>6 DEF RequestInv
<1>9. Probe(r) => DbError(r) \/ (Answer(r, "OK", 200) /\ UNCHANGED persistence)
  BY DEF Probe
<1>10. CheckOutFails(r) \/ InsertFails(r) \/ CommitFails(r) => DbError(r)
  BY DEF CheckOutFails, InsertFails, CommitFails
<1>. QED
  BY <1>4, <1>5, <1>6, <1>7, <1>8, <1>9, <1>10 DEF Handler

LEMMA NextIInv == IInv /\ [Next]_vars => IInv'
<1> SUFFICES ASSUME IInv, [Next]_vars PROVE IInv'
  OBVIOUS
<1>1. TypeOK'
  BY NextTypeOK DEF IInv
<1>2. ASSUME NEW q \in Requests PROVE RequestInv(q)'
  <2>1. CASE Environment
    BY <2>1, EnvironmentIInv
  <2>2. ASSUME NEW r \in Requests, Database(r) PROVE RequestInv(q)'
    BY <2>2, DatabaseIInv
  <2>3. ASSUME NEW r \in Requests,
               Arrival(r) \/ Body(r) \/ EventLoop(r) \/ Handler(r)
        PROVE  RequestInv(q)'
    <3>1. CASE q = r
      BY <2>3, <3>1, ArrivalIInv, LoopIInv, HandlerIInv
    <3>2. CASE q # r
      BY <2>3, <3>2, OthersIInv
    <3>. QED  BY <3>1, <3>2
  <2>4. CASE UNCHANGED vars
    BY <2>4, Frame DEF IInv, vars, dbVars, clientVars
  <2>. QED  BY <2>1, <2>2, <2>3, <2>4 DEF Next
<1>. QED  BY <1>1, <1>2 DEF IInv

LEMMA SpecIInv == Spec => []IInv
  BY InitIInv, NextIInv, PTL DEF Spec

-----------------------------------------------------------------------------
(***************************************************************************)
(* What follows from it.                                                   *)
(***************************************************************************)

\* No 200 to predict or explain is sent without its committed row.
THEOREM ServerAuditBeforeSuccess == Spec => []AuditBeforeSuccess
<1>1. IInv => AuditBeforeSuccess
  BY DEF IInv, RequestInv, SuccessInv, AuditBeforeSuccess, TypeOK,
         InferenceKinds
<1>. QED  BY <1>1, SpecIInv, PTL

\* Any refusal but PERSISTENCE_ERROR says that nothing is on record.
THEOREM ServerRefusalMeansUnaudited == Spec => []RefusalMeansUnaudited
<1>1. IInv => RefusalMeansUnaudited
  BY DEF IInv, RequestInv, CommitInv, RefusalMeansUnaudited, TypeOK
<1>. QED  BY <1>1, SpecIInv, PTL

\* Rows are of authenticated, counted POSTs only.
THEOREM ServerOnlyAdmittedAudited == Spec => []OnlyAdmittedAudited
<1>1. IInv => OnlyAdmittedAudited
  BY DEF IInv, RequestInv, CommitInv, OnlyAdmittedAudited, TypeOK
<1>. QED  BY <1>1, SpecIInv, PTL

\* The log never contradicts the table.
THEOREM ServerLogAgreesWithAudit == Spec => []LogAgreesWithAudit
<1>1. IInv => LogAgreesWithAudit
  BY DEF IInv, RequestInv, CommitInv, SuccessInv, LogInv, LogAgreesWithAudit,
         NoLog, Decided
<1>. QED  BY <1>1, SpecIInv, PTL

\* One request at a time is inside the explainer, and it holds the lock.
THEOREM ServerExplainerExclusive == Spec => []ExplainerExclusive
<1>1. IInv => ExplainerExclusive
  BY DEF IInv, RequestInv, HoldInv, ExplainerExclusive
<1>. QED  BY <1>1, SpecIInv, PTL

\* No connection outlives the call that took it from the pool.
THEOREM ServerNoConnectionLeak == Spec => []NoConnectionLeak
<1>1. IInv => NoConnectionLeak
  BY DEF IInv, RequestInv, HoldInv, NoConnectionLeak, TypeOK
<1>. QED  BY <1>1, SpecIInv, PTL

-----------------------------------------------------------------------------
(***************************************************************************)
(* Refinement: every step of the server admits, records, succeeds or       *)
(* refuses, or nothing a client or an auditor sees changes.                *)
(***************************************************************************)

Heard(r) ==
  IF r \notin answered \/ kind[r] \notin InferenceKinds THEN "none"
  ELSE IF outcome[r].status = 200 THEN "success" ELSE "refusal"

\* A request decides no outcome but its own.
LEMMA OutcomeElsewhere ==
  ASSUME TypeOK, NEW r \in Requests, NEW q \in Requests \ {r},
         Arrival(r) \/ Body(r) \/ EventLoop(r) \/ Handler(r)
  PROVE  outcome'[q] = outcome[q]
<1>1. \/ \E c, n : Answer(r, c, n)
      \/ DbError(r)
      \/ Infers(r)
      \/ UNCHANGED outcome
  BY DEF Arrival, RejectNotReady, RejectKey, RejectQuota, RejectHeaders,
     OpenBody, PassOtherMethod, PassUnlimited, Body, BodyComplete,
     BodyTooLarge, ClientDisconnects, EventLoop, Dispatch, Respond, LogRequest,
     Handler, CheckRuntime, LockExplainer, Predict, Explain, BeginSave,
     CheckOut, CheckOutFails, Probe, InsertFails, SendCommit, CommitSucceeds,
     CommitFails
<1>. QED  BY <1>1, AnswerAt, DbErrorAt, InfersAt

\* Outcomes only change before they are sent.
LEMMA HeardStays ==
  ASSUME IInv, Next, UNCHANGED answered
  PROVE  UNCHANGED ClientHears
<1>1. ASSUME NEW q \in Requests PROVE Heard(q)' = Heard(q)
  <2>0. /\ TypeOK
        /\ kind' = kind
        /\ q \in answered => pc[q] \in {"closing", "done", "lost"}
    <3>1. TypeOK /\ AdmissionInv(q)
      BY DEF IInv, RequestInv
    <3>2. kind' = kind
      BY DEF Next, Environment, Tick, Migrate, DbFails, DbRecovers, Startup,
         Shutdown, DisposePool, ProcessExit, Restart, Arrival, RejectNotReady, RejectKey,
         RejectQuota, RejectHeaders, OpenBody, PassOtherMethod, PassUnlimited,
         Arrives, AsksForQuota, TakeQuota, Body, BodyComplete, BodyTooLarge,
         ClientDisconnects, EventLoop, Dispatch, Respond, LogRequest, Handler,
         CheckRuntime, LockExplainer, Predict, Explain, BeginSave, CheckOut,
         CheckOutFails, Probe, InsertFails, SendCommit, CommitSucceeds,
         CommitFails, Database, DbApplies, DbDiscards, threadVars, threadNoDb,
         serverVars, clientVars
    <3>. QED  BY <3>1, <3>2 DEF AdmissionInv
  <2>1. CASE q \notin answered
    BY <2>0, <2>1 DEF Heard
  <2>2. CASE q \in answered
    <3>1. outcome'[q] = outcome[q]
      <4>1. ASSUME NEW r \in Requests, Arrival(r) \/ Body(r) \/ EventLoop(r)
                                       \/ Handler(r)
            PROVE  outcome'[q] = outcome[q]
        <5>1. CASE r # q
          BY <2>0, <4>1, <5>1, OutcomeElsewhere
        <5>2. CASE r = q
          BY <2>0, <2>2, <4>1, <5>2
             DEF Arrival, RejectNotReady, RejectKey, RejectQuota,
                 RejectHeaders, OpenBody, PassOtherMethod, PassUnlimited,
                 Arrives, AsksForQuota, TakeQuota, Body, BodyComplete,
                 BodyTooLarge, ClientDisconnects, EventLoop, Dispatch, Respond,
                 LogRequest, Handler, CheckRuntime, LockExplainer, Predict,
                 Explain, BeginSave, CheckOut, CheckOutFails, Probe,
                 InsertFails, SendCommit, CommitSucceeds, CommitFails
        <5>. QED  BY <5>1, <5>2
      <4>2. CASE Environment \/ \E r \in Requests : Database(r)
        BY <4>2 DEF Environment, Tick, Migrate, DbFails, DbRecovers, Startup,
           Shutdown, DisposePool, ProcessExit, Restart, Database, DbApplies, DbDiscards,
           threadNoDb
      <4>. QED  BY <4>1, <4>2 DEF Next
    <3>. QED  BY <2>0, <3>1 DEF Heard
  <2>. QED  BY <2>1, <2>2
<1>. QED  BY <1>1 DEF ClientHears, Heard

absVars == <<granted, rows, ClientHears>>

LEMMA StepRefines == IInv /\ [Next]_vars => [Abstract!Next]_absVars
<1> SUFFICES ASSUME IInv, [Next]_vars PROVE [Abstract!Next]_absVars
  OBVIOUS
<1> USE DEF absVars
<1>0. ASSUME NEW r \in Requests PROVE AdmissionInv(r) /\ SuccessInv(r)
  BY DEF IInv, RequestInv
<1>1. CASE UNCHANGED vars
  BY <1>1 DEF vars, clientVars, dbVars, ClientHears
<1>2. CASE Environment
  <2>1. UNCHANGED <<granted, rows, answered>>
    BY <1>2 DEF Environment, Tick, Migrate, DbFails, DbRecovers, Startup,
       Shutdown, DisposePool, ProcessExit, Restart, dbVars
  <2>. QED  BY <1>2, <2>1, HeardStays DEF Next
<1>3. ASSUME NEW r \in Requests, Arrival(r) PROVE [Abstract!Next]_absVars
  <2>1. /\ pc[r] = "unsent"
        /\ UNCHANGED <<rows, answered>>
        /\ granted' = granted \cup {r} \/ granted' = granted
    BY <1>3 DEF Arrival, RejectNotReady, RejectKey, RejectQuota, RejectHeaders,
       OpenBody, PassOtherMethod, PassUnlimited, Arrives, AsksForQuota,
       TakeQuota, dbVars
  <2>2. UNCHANGED ClientHears
    BY <1>3, <2>1, HeardStays DEF Next
  <2>3. r \notin granted /\ ClientHears[r] = "none"
    BY <1>0, <2>1 DEF AdmissionInv, ClientHears
  <2>4. CASE granted' = granted \cup {r}
    <3>1. Abstract!Admit(r)
      BY <2>1, <2>2, <2>3, <2>4 DEF Abstract!Admit
    <3>. QED  BY <3>1 DEF Abstract!Next
  <2>. QED  BY <2>1, <2>2, <2>4
<1>4. ASSUME NEW r \in Requests, Respond(r) PROVE [Abstract!Next]_absVars
  <2>1. /\ pc[r] = "respond"
        /\ answered' = answered \cup {r}
        /\ UNCHANGED <<granted, rows, kind, outcome>>
    BY <1>4 DEF Respond, serverVars, dbVars, clientVars
  <2>2. r \notin answered /\ ClientHears[r] = "none"
    BY <1>0, <2>1 DEF AdmissionInv, ClientHears
  <2>3. CASE kind[r] \notin InferenceKinds
    <3>1. UNCHANGED ClientHears
      BY <2>1, <2>3 DEF ClientHears
    <3>. QED  BY <2>1, <3>1
  <2>4. CASE kind[r] \in InferenceKinds /\ outcome[r].status = 200
    <3>1. r \in rows
      BY <1>0, <2>1, <2>4 DEF SuccessInv
    <3>2. ClientHears' = [ClientHears EXCEPT ![r] = "success"]
      BY <2>1, <2>4 DEF ClientHears
    <3>3. Abstract!Succeed(r)
      BY <2>1, <2>2, <3>1, <3>2 DEF Abstract!Succeed
    <3>. QED  BY <3>3 DEF Abstract!Next
  <2>5. CASE kind[r] \in InferenceKinds /\ outcome[r].status # 200
    <3>1. ClientHears' = [ClientHears EXCEPT ![r] = "refusal"]
      BY <2>1, <2>5 DEF ClientHears
    <3>2. Abstract!Refuse(r)
      BY <2>1, <2>2, <3>1 DEF Abstract!Refuse
    <3>. QED  BY <3>2 DEF Abstract!Next
  <2>. QED  BY <2>3, <2>4, <2>5
<1>5. ASSUME NEW r \in Requests,
             Body(r) \/ Dispatch(r) \/ LogRequest(r) \/ Handler(r)
                    \/ DbDiscards(r)
      PROVE  [Abstract!Next]_absVars
  <2>1. UNCHANGED <<granted, rows, answered>>
    BY <1>5 DEF Body, BodyComplete, BodyTooLarge, ClientDisconnects, Dispatch,
       LogRequest, Handler, CheckRuntime, LockExplainer, Predict, Explain,
       BeginSave, CheckOut, CheckOutFails, Probe, InsertFails, SendCommit,
       CommitSucceeds, CommitFails, DbDiscards, threadVars, threadNoDb,
       serverVars, dbVars
  <2>. QED  BY <1>5, <2>1, HeardStays DEF Next, EventLoop, Database
<1>6. ASSUME NEW r \in Requests, DbApplies(r) PROVE [Abstract!Next]_absVars
  <2>1. /\ r \in commits
        /\ rows' = rows \cup {r}
        /\ UNCHANGED <<granted, answered>>
    BY <1>6 DEF DbApplies, threadNoDb
  <2>2. UNCHANGED ClientHears
    BY <1>6, <2>1, HeardStays DEF Next, Database
  <2>3. r \in granted
    BY <2>1 DEF IInv, RequestInv, CommitInv
  <2>4. Abstract!Record(r)
    BY <2>1, <2>2, <2>3 DEF Abstract!Record
  <2>. QED  BY <2>4 DEF Abstract!Next
<1>. QED
  BY <1>1, <1>2, <1>3, <1>4, <1>5, <1>6 DEF Next, EventLoop, Database

LEMMA InitRefines == Init => Abstract!Init
  BY DEF Init, Abstract!Init, ClientHears

\* The server implements the audited inference service: clients hear of a
\* success only once its event is on record, and events are recorded for
\* admitted requests only and never lost.
THEOREM ServerImplementsAuditedInference == Spec => ImplementsAuditedInference
<1>1. IInv /\ [Next]_vars => [Abstract!Next]_Abstract!vars
  BY StepRefines DEF absVars, Abstract!vars
<1>. QED
  BY <1>1, InitRefines, SpecIInv, PTL
     DEF Spec, ImplementsAuditedInference, Abstract!Spec

=============================================================================
