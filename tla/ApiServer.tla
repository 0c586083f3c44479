----------------------------- MODULE ApiServer -----------------------------
(***************************************************************************)
(* One process of the prediction API with its clients and its database:    *)
(*                                                                         *)
(*   - the lifespan of the application (api/main.py) and its process,      *)
(*   - RequestGuard (api/middleware.py), which runs in the event loop: one *)
(*     action here is the code between two awaits,                         *)
(*   - the handlers (api/main.py), which run in threads of a pool and      *)
(*     interleave with the event loop and with one another,                *)
(*   - the explanation lock (service/inference.py),                        *)
(*   - the repository and its connection pool (persistence/), down to the  *)
(*     COMMIT that the database may apply although the API never hears.    *)
(*                                                                         *)
(* The rate limiter is the one of RateLimiter; the middleware calls it     *)
(* from the event loop only, so a call is one step here.                   *)
(***************************************************************************)
EXTENDS Integers, Sequences, FiniteSets

CONSTANTS
  Requests,  \* the requests clients may send, each with its own uuid4
  Nobody,    \* holder of a free lock
  Limit,     \* requests_per_minute
  Window,    \* the limiter's sixty seconds, in ticks
  PoolSize,  \* connections the pool hands out (5 and 10 overflow)
  Kinds,     \* kinds of request that clients send
  MaxTime    \* bound on the clock

PostKinds == {"predict", "explain"}
\* "get-inference" is a request with another method to /v1/predict or /v1/explain.
InferenceKinds == PostKinds \cup {"get-inference"}
ProtectedKinds == InferenceKinds \cup {"model-info"}
AllKinds == ProtectedKinds \cup {"ready"}

ASSUME KindsAssumption == Kinds \subseteq AllKinds
ASSUME NobodyAssumption == Nobody \notin Requests
ASSUME BoundsAssumption ==
  /\ Limit \in Nat \ {0}
  /\ Window \in Nat \ {0}
  /\ PoolSize \in Nat \ {0}
  /\ MaxTime \in Nat

VARIABLES
  server,       \* the process: see Startup, Shutdown and ProcessExit
  now,          \* the monotonic clock
  history,      \* the limiter's deque for the one configured api_key_id
  db,           \* the database, as the API can reach it
  commits,      \* requests whose COMMIT is on its way or being decided
  rows,         \* requests with a row in prediction_events
  pc,           \* where each request is
  kind,         \* what the client asked for
  keyValid,     \* whether the request carries exactly one key, and the right one
  granted,      \* requests the limiter let pass
  outcome,      \* status and error code decided for the request
  answered,     \* requests whose http.response.start was sent
  persistence,  \* request.state.persistence_status
  lock,         \* holder of InferenceService._explanation_lock
  pool,         \* requests that hold a connection of the current pool
  log           \* the record logged for each finished request

clientVars == <<kind, keyValid>>
dbVars == <<db, commits, rows>>
vars == <<server, now, history, db, commits, rows, pc, kind, keyValid, granted,
          outcome, answered, persistence, lock, pool, log>>

\* The status RequestGuard logs when nothing was sent.
Silent == [status |-> 500, code |-> "NONE"]
NoLog == [status |-> 0, persistence |-> "not_logged"]

Alive == server \in {"created", "up", "stopping", "closing"}
\* app.state.settings stays set after shutdown, app.state.runtime does not.
SettingsInstalled == server \in {"up", "stopping", "closing"}
RuntimeLoaded == server = "up"

Finished == {"unsent", "done", "lost"}

Init ==
  /\ server = "created"
  /\ now = 0
  /\ history = << >>
  /\ db = "unmigrated"
  /\ commits = {}
  /\ rows = {}
  /\ pc = [r \in Requests |-> "unsent"]
  /\ kind \in [Requests -> Kinds]
  /\ keyValid \in [Requests -> BOOLEAN]
  /\ granted = {}
  /\ outcome = [r \in Requests |-> Silent]
  /\ answered = {}
  /\ persistence = [r \in Requests |-> "not_attempted"]
  /\ lock = Nobody
  /\ pool = {}
  /\ log = [r \in Requests |-> NoLog]

-----------------------------------------------------------------------------
(***************************************************************************)
(* The process and what surrounds it.                                      *)
(***************************************************************************)

Tick ==
  /\ now < MaxTime
  /\ now' = now + 1
  /\ UNCHANGED <<server, history, dbVars, pc, clientVars, granted, outcome,
                 answered, persistence, lock, pool, log>>

\* The migration job creates the audit table; readiness checks look for it.
Migrate ==
  /\ db = "unmigrated"
  /\ db' = "up"
  /\ UNCHANGED <<server, now, history, commits, rows, pc, clientVars, granted,
                 outcome, answered, persistence, lock, pool, log>>

\* The database, or the way to it, fails and comes back.
DbFails ==
  /\ db = "up"
  /\ db' = "down"
  /\ UNCHANGED <<server, now, history, commits, rows, pc, clientVars, granted,
                 outcome, answered, persistence, lock, pool, log>>

DbRecovers ==
  /\ db = "down"
  /\ db' = "up"
  /\ UNCHANGED <<server, now, history, commits, rows, pc, clientVars, granted,
                 outcome, answered, persistence, lock, pool, log>>

\* Entering the lifespan: settings, runtime, a ready database, a new limiter.
\* Without them it raises and the process exits.
Startup ==
  /\ server = "created"
  /\ db = "up"
  /\ server' = "up"
  /\ history' = << >>
  /\ UNCHANGED <<now, dbVars, pc, clientVars, granted, outcome, answered,
                 persistence, lock, pool, log>>

\* Leaving the lifespan drops the runtime.  Requests may still be in flight;
\* that the server outside src/ drains them first is not relied on.
Shutdown ==
  /\ server = "up"
  /\ server' = "stopping"
  /\ UNCHANGED <<now, history, dbVars, pc, clientVars, granted, outcome,
                 answered, persistence, lock, pool, log>>

\* Then it disposes the pool, while threads run on: connections in use stay
\* with their users and a new pool starts empty.
DisposePool ==
  /\ server = "stopping"
  /\ server' = "closing"
  /\ pool' = {}
  /\ UNCHANGED <<now, history, dbVars, pc, clientVars, granted, outcome,
                 answered, persistence, lock, log>>

\* The process ends: killed at any point, after a failed startup, or after
\* shutdown.  What it had in memory is gone, and the clients of the requests
\* in flight hear nothing more.
ProcessExit ==
  /\ Alive
  /\ server' = "exited"
  /\ pc' = [r \in Requests |-> IF pc[r] \in Finished THEN pc[r] ELSE "lost"]
  /\ history' = << >>
  /\ lock' = Nobody
  /\ pool' = {}
  /\ UNCHANGED <<now, dbVars, clientVars, granted, outcome, answered,
                 persistence, log>>

Restart ==
  /\ server = "exited"
  /\ server' = "created"
  /\ UNCHANGED <<now, history, dbVars, pc, clientVars, granted, outcome,
                 answered, persistence, lock, pool, log>>

-----------------------------------------------------------------------------
(***************************************************************************)
(* RequestGuard, from the arrival of a request to its first await.         *)
(***************************************************************************)

Goto(r, l) == pc' = [pc EXCEPT ![r] = l]

\* The outcome is decided; the event loop has yet to send it.
Answer(r, c, n) ==
  /\ Goto(r, "respond")
  /\ outcome' = [outcome EXCEPT ![r] = [status |-> n, code |-> c]]

Arrives(r) ==
  /\ pc[r] = "unsent"
  /\ Alive
  /\ UNCHANGED <<server, now, dbVars, clientVars, answered, persistence, lock,
                 pool, log>>

RejectNotReady(r) ==
  /\ Arrives(r)
  /\ kind[r] \in ProtectedKinds
  /\ ~SettingsInstalled
  /\ Answer(r, "SERVICE_NOT_READY", 503)
  /\ UNCHANGED <<history, granted>>

RejectKey(r) ==
  /\ Arrives(r)
  /\ kind[r] \in ProtectedKinds
  /\ SettingsInstalled
  /\ ~keyValid[r]
  /\ Answer(r, "AUTHENTICATION_FAILED", 401)
  /\ UNCHANGED <<history, granted>>

\* Faulty: forgets that the key was wrong.
AsksForQuotaUnchecked(r) ==
  /\ Arrives(r)
  /\ kind[r] \in InferenceKinds
  /\ SettingsInstalled

\* The request is for an inference path and the client is who it should be.
AsksForQuota(r) ==
  /\ Arrives(r)
  /\ kind[r] \in InferenceKinds
  /\ SettingsInstalled
  /\ keyValid[r]

\* The deque is sorted, so popping its expired head as often as possible drops
\* every stamp that has expired.
Expired == Cardinality({i \in 1 .. Len(history) : history[i] <= now - Window})
Live == SubSeq(history, Expired + 1, Len(history))

RejectQuota(r) ==
  /\ AsksForQuota(r)
  /\ Len(Live) >= Limit
  /\ history' = Live
  /\ Answer(r, "RATE_LIMIT_EXCEEDED", 429)
  /\ UNCHANGED granted

TakeQuota(r) ==
  /\ AsksForQuota(r)
  /\ Len(Live) < Limit
  /\ history' = Append(Live, now)
  /\ granted' = granted \cup {r}

HeaderErrors ==
  {<<"UNSUPPORTED_MEDIA_TYPE", 415>>, <<"VALIDATION_ERROR", 400>>,
   <<"REQUEST_TOO_LARGE", 413>>}

\* Content-Type or Content-Length is missing, repeated, malformed or too big.
RejectHeaders(r) ==
  /\ TakeQuota(r)
  /\ kind[r] \in PostKinds
  /\ \E e \in HeaderErrors : Answer(r, e[1], e[2])

OpenBody(r) ==
  /\ TakeQuota(r)
  /\ kind[r] \in PostKinds
  /\ Goto(r, "receiving")
  /\ UNCHANGED outcome

\* Another method on an inference path spends quota before it gets its 405.
PassOtherMethod(r) ==
  /\ TakeQuota(r)
  /\ kind[r] \notin PostKinds
  /\ Goto(r, "dispatch")
  /\ UNCHANGED outcome

PassUnlimited(r) ==
  /\ Arrives(r)
  /\ kind[r] \notin InferenceKinds
  /\ kind[r] \in ProtectedKinds => SettingsInstalled /\ keyValid[r]
  /\ Goto(r, "dispatch")
  /\ UNCHANGED <<history, granted, outcome>>

-----------------------------------------------------------------------------
(***************************************************************************)
(* RequestGuard's receive loop, the router, and the end of the request.    *)
(***************************************************************************)

serverVars == <<server, now, history, dbVars, clientVars, granted>>

BodyComplete(r) ==
  /\ pc[r] = "receiving"
  /\ Goto(r, "dispatch")
  /\ UNCHANGED <<serverVars, outcome, answered, persistence, lock, pool, log>>

\* The chunks received so far exceed max_body_bytes.
BodyTooLarge(r) ==
  /\ pc[r] = "receiving"
  /\ Answer(r, "REQUEST_TOO_LARGE", 413)
  /\ UNCHANGED <<serverVars, answered, persistence, lock, pool, log>>

\* http.disconnect while receiving: the guard returns without a response.
ClientDisconnects(r) ==
  /\ pc[r] = "receiving"
  /\ Goto(r, "closing")
  /\ UNCHANGED <<serverVars, outcome, answered, persistence, lock, pool, log>>

\* Routing and schema validation, then a thread of the pool runs the handler.
\* A body that cannot be parsed has the status 400 of the framework.
Dispatch(r) ==
  /\ pc[r] = "dispatch"
  /\ \/ /\ kind[r] = "get-inference"
        /\ Answer(r, "METHOD_NOT_ALLOWED", 405)
     \/ /\ kind[r] \in PostKinds
        /\ \E status \in {400, 422} : Answer(r, "VALIDATION_ERROR", status)
     \/ /\ kind[r] # "get-inference"
        /\ Goto(r, "handler")
        /\ UNCHANGED outcome
  /\ UNCHANGED <<serverVars, answered, persistence, lock, pool, log>>

\* safe_send of http.response.start.
Respond(r) ==
  /\ pc[r] = "respond"
  /\ answered' = answered \cup {r}
  /\ Goto(r, "closing")
  /\ UNCHANGED <<serverVars, outcome, persistence, lock, pool, log>>

\* The finally block.
LogRequest(r) ==
  /\ pc[r] = "closing"
  /\ log' = [log EXCEPT ![r] = [status |-> outcome[r].status,
                                persistence |-> persistence[r]]]
  /\ Goto(r, "done")
  /\ UNCHANGED <<serverVars, outcome, answered, persistence, lock, pool>>

-----------------------------------------------------------------------------
(***************************************************************************)
(* The handlers, in threads of the pool.                                   *)
(***************************************************************************)

threadVars == <<serverVars, answered, log>>

\* Every handler looks at app.state.runtime first; model_info needs no more.
CheckRuntime(r) ==
  /\ pc[r] = "handler"
  /\ \/ /\ ~RuntimeLoaded
        /\ Answer(r, "SERVICE_NOT_READY", 503)
     \/ /\ RuntimeLoaded
        /\ kind[r] = "model-info"
        /\ Answer(r, "OK", 200)
     \/ /\ RuntimeLoaded
        /\ kind[r] # "model-info"
        /\ Goto(r, IF kind[r] = "predict" THEN "computing"
                   ELSE IF kind[r] = "explain" THEN "lockwait" ELSE "checkout")
        /\ UNCHANGED outcome
  /\ UNCHANGED <<threadVars, persistence, lock, pool>>

LockExplainer(r) ==
  /\ pc[r] = "lockwait"
  /\ lock = Nobody
  /\ lock' = r
  /\ Goto(r, "explaining")
  /\ UNCHANGED <<threadVars, outcome, persistence, pool>>

\* A result that met its contracts, or an exception from the inference or from
\* the validation of the response, which RequestGuard turns into a 500.
Infers(r) ==
  \/ /\ Goto(r, "audit")
     /\ UNCHANGED outcome
  \/ Answer(r, "INTERNAL_ERROR", 500)

Predict(r) ==
  /\ pc[r] = "computing"
  /\ Infers(r)
  /\ UNCHANGED <<threadVars, persistence, lock, pool>>

\* Faulty: an acquire/release pair without a finally keeps the lock.
ExplainKeepingLock(r) ==
  /\ pc[r] = "explaining"
  /\ \/ lock' = Nobody /\ Goto(r, "audit") /\ UNCHANGED outcome
     \/ Answer(r, "INTERNAL_ERROR", 500) /\ UNCHANGED lock
  /\ UNCHANGED <<threadVars, persistence, pool>>

\* Leaving "with self._explanation_lock", normally or by an exception.
Explain(r) ==
  /\ pc[r] = "explaining"
  /\ lock' = Nobody
  /\ Infers(r)
  /\ UNCHANGED <<threadVars, persistence, pool>>

\* The arguments of save_prediction are read from app.state.runtime again: it
\* may be gone by now, and reading an attribute of None raises.
BeginSave(r) ==
  /\ pc[r] = "audit"
  /\ \/ /\ RuntimeLoaded
        /\ Goto(r, "checkout")
        /\ UNCHANGED outcome
     \/ /\ ~RuntimeLoaded
        /\ Answer(r, "INTERNAL_ERROR", 500)
  /\ UNCHANGED <<threadVars, persistence, lock, pool>>

-----------------------------------------------------------------------------
(***************************************************************************)
(* The repository and its pool.                                            *)
(***************************************************************************)

\* Faulty: three ways to write the except clauses around the repository that
\* a unit test of the happy path accepts.
DbErrorSwallowed(r) ==
  /\ Answer(r, "OK", 200)
  /\ persistence' = [persistence EXCEPT ![r] = "failed"]

DbErrorUncaught(r) ==
  /\ Answer(r, "INTERNAL_ERROR", 500)
  /\ UNCHANGED persistence

DbErrorUnmarked(r) ==
  /\ Answer(r, "PERSISTENCE_ERROR", 503)
  /\ UNCHANGED persistence

\* save_prediction raises PersistenceError, or check_ready raises.
DbError(r) ==
  IF kind[r] = "ready"
  THEN /\ Answer(r, "SERVICE_NOT_READY", 503)
       /\ UNCHANGED persistence
  ELSE /\ Answer(r, "PERSISTENCE_ERROR", 503)
       /\ persistence' = [persistence EXCEPT ![r] = "failed"]

CheckOut(r) ==
  /\ pc[r] = "checkout"
  /\ db = "up"
  /\ Cardinality(pool) < PoolSize
  /\ pool' = pool \cup {r}
  /\ Goto(r, IF kind[r] = "ready" THEN "probing" ELSE "saving")
  /\ UNCHANGED <<threadVars, outcome, persistence, lock>>

\* No database, or pool_timeout elapsed with every connection in use.
CheckOutFails(r) ==
  /\ pc[r] = "checkout"
  /\ db # "up" \/ Cardinality(pool) >= PoolSize
  /\ DbError(r)
  /\ UNCHANGED <<threadVars, lock, pool>>

Probe(r) ==
  /\ pc[r] = "probing"
  /\ pool' = pool \ {r}
  /\ \/ /\ db = "up"
        /\ Answer(r, "OK", 200)
        /\ UNCHANGED persistence
     \/ /\ db # "up"
        /\ DbError(r)
  /\ UNCHANGED <<threadVars, lock>>

\* Faulty: an exception leaves the session open.
InsertFailsLeaking(r) ==
  /\ pc[r] = "saving"
  /\ DbError(r)
  /\ UNCHANGED <<threadVars, lock, pool>>

\* The INSERT is refused (a constraint, a broken connection): rollback.
InsertFails(r) ==
  /\ pc[r] = "saving"
  /\ pool' = pool \ {r}
  /\ DbError(r)
  /\ UNCHANGED <<threadVars, lock>>

threadNoDb == <<server, now, history, clientVars, granted, answered, log>>

\* Faulty: answers once the COMMIT is sent.
SendCommitAnswering(r) ==
  /\ pc[r] = "saving"
  /\ db = "up"
  /\ commits' = commits \cup {r}
  /\ pool' = pool \ {r}
  /\ Answer(r, "OK", 200)
  /\ UNCHANGED <<threadNoDb, db, rows, persistence, lock>>

\* The INSERT succeeded and COMMIT is sent.
SendCommit(r) ==
  /\ pc[r] = "saving"
  /\ db = "up"
  /\ commits' = commits \cup {r}
  /\ Goto(r, "committing")
  /\ UNCHANGED <<threadNoDb, db, rows, outcome, persistence, lock, pool>>

\* The database decides a COMMIT on its own time, whether or not the API still
\* waits for the answer, is cut off from it or is running at all.
DbApplies(r) ==
  /\ r \in commits
  /\ commits' = commits \ {r}
  /\ rows' = rows \cup {r}
  /\ UNCHANGED <<threadNoDb, db, pc, outcome, persistence, lock, pool>>

DbDiscards(r) ==
  /\ r \in commits
  /\ commits' = commits \ {r}
  /\ UNCHANGED <<threadNoDb, db, rows, pc, outcome, persistence, lock, pool>>

\* The answer arrives, perhaps after the database went away again.
CommitSucceeds(r) ==
  /\ pc[r] = "committing"
  /\ r \in rows
  /\ pool' = pool \ {r}
  /\ persistence' = [persistence EXCEPT ![r] = "committed"]
  /\ Answer(r, "OK", 200)
  /\ UNCHANGED <<threadVars, lock>>

\* The COMMIT is refused, or the connection breaks before the answer and the
\* fate of the COMMIT is unknown.
CommitFails(r) ==
  /\ pc[r] = "committing"
  /\ pool' = pool \ {r}
  /\ DbError(r)
  /\ UNCHANGED <<threadVars, lock>>

-----------------------------------------------------------------------------

Arrival(r) ==
  \/ RejectNotReady(r) \/ RejectKey(r) \/ RejectQuota(r) \/ RejectHeaders(r)
  \/ OpenBody(r) \/ PassOtherMethod(r) \/ PassUnlimited(r)

Body(r) == BodyComplete(r) \/ BodyTooLarge(r) \/ ClientDisconnects(r)

EventLoop(r) == Dispatch(r) \/ Respond(r) \/ LogRequest(r)

Handler(r) ==
  \/ CheckRuntime(r) \/ LockExplainer(r) \/ Predict(r) \/ Explain(r)
  \/ BeginSave(r) \/ CheckOut(r) \/ CheckOutFails(r) \/ Probe(r)
  \/ InsertFails(r) \/ SendCommit(r) \/ CommitSucceeds(r) \/ CommitFails(r)

Database(r) == DbApplies(r) \/ DbDiscards(r)

Environment ==
  \/ Tick \/ Migrate \/ DbFails \/ DbRecovers
  \/ Startup \/ Shutdown \/ DisposePool \/ ProcessExit \/ Restart

Next ==
  \/ Environment
  \/ \E r \in Requests :
       Arrival(r) \/ Body(r) \/ EventLoop(r) \/ Handler(r) \/ Database(r)

\* The event loop and the threads run on, and the database decides every
\* COMMIT it received.  Clients, operators and outages owe nothing.
Fairness ==
  \A r \in Requests :
    WF_vars(EventLoop(r)) /\ WF_vars(Handler(r)) /\ WF_vars(Database(r))

Spec == Init /\ [][Next]_vars /\ Fairness

-----------------------------------------------------------------------------
(***************************************************************************)
(* Properties.                                                             *)
(***************************************************************************)

AtDatabase == {"probing", "saving", "committing"}
Places ==
  AtDatabase \cup Finished \cup
  {"receiving", "dispatch", "handler", "computing", "lockwait", "explaining",
   "audit", "checkout", "respond", "closing"}
Codes ==
  {"NONE", "OK", "SERVICE_NOT_READY", "AUTHENTICATION_FAILED",
   "RATE_LIMIT_EXCEEDED", "UNSUPPORTED_MEDIA_TYPE", "VALIDATION_ERROR",
   "REQUEST_TOO_LARGE", "METHOD_NOT_ALLOWED", "INTERNAL_ERROR",
   "PERSISTENCE_ERROR"}
Statuses == {200, 400, 401, 405, 413, 415, 422, 429, 500, 503}
AuditStates == {"not_attempted", "failed", "committed"}

TypeOK ==
  /\ server \in {"created", "up", "stopping", "closing", "exited"}
  /\ now \in Nat
  /\ history \in Seq(Nat)
  /\ db \in {"unmigrated", "up", "down"}
  /\ commits \subseteq Requests
  /\ rows \subseteq Requests
  /\ pc \in [Requests -> Places]
  /\ kind \in [Requests -> Kinds]
  /\ keyValid \in [Requests -> BOOLEAN]
  /\ granted \subseteq Requests
  /\ outcome \in [Requests -> [status : Statuses, code : Codes]]
  /\ answered \subseteq Requests
  /\ persistence \in [Requests -> AuditStates]
  /\ lock \in Requests \cup {Nobody}
  /\ pool \subseteq Requests
  /\ log \in [Requests -> [status : Statuses, persistence : AuditStates]
                           \cup {NoLog}]

\* No un-audited successful result is returned: whoever was sent a 200 to
\* predict or explain has a committed row, through shutdowns, outages and
\* commits whose answer came late (docs/api.md, infer in api/main.py).
AuditBeforeSuccess ==
  \A r \in answered :
    kind[r] \in PostKinds /\ outcome[r].status = 200 => r \in rows

\* A client may ask again after any refusal but PERSISTENCE_ERROR without
\* leaving two events of one inference: nothing of the refused request is, or
\* will be, on record.  PERSISTENCE_ERROR alone leaves that open.
RefusalMeansUnaudited ==
  \A r \in answered :
    outcome[r].code \notin {"OK", "PERSISTENCE_ERROR"} =>
      r \notin rows \cup commits

\* Every row, and every COMMIT under way, is of a POST to an inference path
\* whose key was verified and which the limiter counted.
OnlyAdmittedAudited ==
  \A r \in rows \cup commits :
    keyValid[r] /\ r \in granted /\ kind[r] \in PostKinds

\* The log and the table tell one story: a request logged as committed has its
\* row, and one logged as not attempted never gets one.
LogAgreesWithAudit ==
  \A r \in Requests :
    /\ log[r].persistence = "committed" => r \in rows
    /\ log[r].persistence = "not_attempted" => r \notin rows \cup commits

\* TreeExplainer, which changes itself, never serves two requests at once, and
\* nobody who has left it, normally or by an exception, still holds its lock.
ExplainerExclusive ==
  \A r \in Requests : pc[r] = "explaining" <=> lock = r

\* Every way out of the repository gives its connection back: what the pool
\* has lent is in use by a request that is talking to the database.
NoConnectionLeak ==
  \A r \in pool : pc[r] \in AtDatabase

\* Seen from outside, the server is the audited inference service of
\* AuditedInference: a client hears of success or refusal with the first bytes
\* of its response.
ClientHears ==
  [r \in Requests |->
     IF r \notin answered \/ kind[r] \notin InferenceKinds THEN "none"
     ELSE IF outcome[r].status = 200 THEN "success" ELSE "refusal"]

Abstract == INSTANCE AuditedInference
              WITH admitted <- granted, audit <- rows, answer <- ClientHears

ImplementsAuditedInference == Abstract!Spec

\* Every request whose body has arrived is answered and logged, unless the
\* process dies: no wait for the explainer, for a connection or for a COMMIT
\* lasts for ever, whatever fails around it.
AcceptedIsFinished ==
  \A r \in Requests :
    pc[r] \notin Finished \cup {"receiving"} ~> pc[r] \in {"done", "lost"}

\* The error contract of docs/api.md gives each code its status, and
\* VALIDATION_ERROR has 422.  RejectHeaders sends it with 400: see README.md.
ValidationErrorIs422 ==
  \A r \in answered :
    outcome[r].code = "VALIDATION_ERROR" => outcome[r].status = 422

=============================================================================
