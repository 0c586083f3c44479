-------------------------- MODULE MonitoringProofs --------------------------
(***************************************************************************)
(* Proofs about Monitoring, for any number of events, runs and releases.   *)
(* A run has its rows from the moment it collected them until it is asked  *)
(* again, so that the invariant speaks of every run that Knows its rows.   *)
(***************************************************************************)
EXTENDS Monitoring, TLAPS

Reports == {"valid", "invalid", "summary"}
Knows(p) == cli[p].pc = "rows" \/ cli[p].report \in Reports

\* A window ends when it was taken, or before.
WindowInv == \A p \in Runs : cli[p].end <= clock

\* Before it is done, a run has reported nothing.
PlaceInv == \A p \in Runs : cli[p].pc # "done" => cli[p].report = "none"

\* An event of the window that is stored, or may yet be, has been seen.
SeenInv ==
  \A p \in Runs, e \in Events :
    /\ Knows(p)
    /\ event[e].state \in {"in flight", "committed"}
    /\ InWindow(event[e].at, cli[p].start, cli[p].end)
    => e \in cli[p].rows \cup cli[p].pending

\* Who is past the contracts has found the API manifest and the others to agree.
ContractInv ==
  \A p \in Runs :
    cli[p].pc \in {"ready", "window", "rows"} => cli[p].model = cli[p].api

\* Rows are stored, and those of a summary are of the release it expected.
RowsInv ==
  \A p \in Runs : Knows(p) =>
    /\ \A e \in cli[p].rows : Stored(e)
    /\ cli[p].report = "summary" =>
         /\ cli[p].baseline = cli[p].api.version
         /\ \A e \in cli[p].rows : event[e].release = cli[p].api

MInv == TypeOK /\ WindowInv /\ PlaceInv /\ ContractInv /\ SeenInv /\ RowsInv

-----------------------------------------------------------------------------

LEMMA NewRunFacts ==
  /\ NewRun \in RunRecords /\ NewRun.end = 0
  /\ NewRun.pc = "idle" /\ NewRun.report = "none"
BY DEF NewRun, RunRecords

LEMMA InitMInv == Init => MInv
<1> SUFFICES ASSUME Init PROVE MInv
  OBVIOUS
<1>1. /\ \A p \in Runs : cli[p] = NewRun
      /\ cli \in [Runs -> RunRecords]
  BY NewRunFacts DEF Init
<1>2. NewEvent \in EventRecords
  BY DEF NewEvent, EventRecords
<1>3. TypeOK
  BY <1>1, <1>2 DEF Init, TypeOK
<1>4. clock = 0
  BY DEF Init
<1>5. WindowInv /\ PlaceInv /\ ContractInv
  BY <1>1, <1>4, NewRunFacts DEF WindowInv, PlaceInv, ContractInv
<1>6. \A p \in Runs : ~Knows(p)
  BY <1>1, NewRunFacts DEF Knows, Reports
<1>. QED  BY <1>3, <1>5, <1>6 DEF MInv, SeenInv, RowsInv

\* Steps of the owner and of releases touch neither events nor runs.
LEMMA OwnerMInv ==
  ASSUME MInv, TypeOK', UNCHANGED <<event, cli>>, clock' \in {clock, clock + 1}
  PROVE  MInv'
<1>1. clock \in Nat /\ clock' >= clock
  BY DEF MInv, TypeOK
<1>2. \A p \in Runs : cli[p].end \in Nat
  BY DEF MInv, TypeOK, RunRecords
<1>3. WindowInv'
  BY <1>1, <1>2 DEF MInv, WindowInv
<1>4. PlaceInv' /\ ContractInv' /\ SeenInv' /\ RowsInv'
  BY DEF MInv, PlaceInv, ContractInv, SeenInv, RowsInv, Knows, Stored
<1>. QED  BY <1>3, <1>4 DEF MInv

LEMMA OwnerTypes ==
  ASSUME TypeOK,
         \/ Tick \/ WriteApiManifest \/ BuildBaseline \/ RemoveBaseline
         \/ \E r \in Releases : ReplaceModel(r) \/ ReplaceOthers(r)
         \/ \E v \in Versions : WriteBaseline(v)
  PROVE  TypeOK' /\ UNCHANGED <<event, cli>> /\ clock' \in {clock, clock + 1}
<1>1. UNCHANGED <<event, cli, served>> /\ clock' \in {clock, clock + 1}
  BY DEF Tick, WriteApiManifest, BuildBaseline, RemoveBaseline, ReplaceModel,
     ReplaceOthers, WriteBaseline, service, metadata
<1>2. api.version \in Versions
  BY DEF TypeOK, Versions
<1>3. model' \in Releases /\ others' \in Releases /\ api' \in Releases
  BY DEF TypeOK, Tick, WriteApiManifest, BuildBaseline, RemoveBaseline, ReplaceModel,
     ReplaceOthers, WriteBaseline, metadata
<1>4. baseline' \in Versions \cup {Absent, Torn} /\ drafts' \subseteq Versions
  BY <1>2 DEF TypeOK, Tick, WriteApiManifest, BuildBaseline, RemoveBaseline,
     ReplaceModel, ReplaceOthers, WriteBaseline, reference
<1>. QED  BY <1>1, <1>3, <1>4 DEF TypeOK

\* What a step of the service makes of the events: those stored stay as they
\* are, and who is or comes in flight has its old stamp, or the present one.
EventStep ==
  \A e \in Events :
    /\ event'[e] \in EventRecords
    /\ Stored(e) => event'[e] = event[e]
    /\ event'[e].state \in {"in flight", "committed"} =>
         \/ event[e].state \in {"in flight", "committed"} /\ event'[e].at = event[e].at
         \/ event'[e].at = clock

LEMMA ArriveStep ==
  ASSUME TypeOK, NEW e \in Events, Arrive(e) PROVE EventStep
<1> DEFINE arrived == [state |-> "in flight", at |-> clock, release |-> served]
<1>1. arrived \in EventRecords /\ arrived.at = clock
  BY DEF TypeOK, EventRecords
<1>2. /\ event'[e] = arrived
      /\ \A d \in Events : d # e => event'[d] = event[d]
  BY DEF TypeOK, Arrive
<1> HIDE DEF arrived
<1>3. ~Stored(e)
  <2>1. event[e].state = "new"
    BY DEF Arrive
  <2>. QED  BY <2>1 DEF Stored
<1>4. \A d \in Events : event[d] \in EventRecords
  BY DEF TypeOK
<1>. QED  BY <1>1, <1>2, <1>3, <1>4 DEF EventStep

LEMMA SettledEvent ==
  ASSUME NEW e \in EventRecords,
         NEW s \in {"new", "in flight", "committed", "lost"}
  PROVE  /\ [e EXCEPT !.state = s] \in EventRecords
         /\ [e EXCEPT !.state = s].state = s
         /\ [e EXCEPT !.state = s].at = e.at
BY DEF EventRecords

LEMMA SaveStep ==
  ASSUME TypeOK, NEW e \in Events, Save(e) PROVE EventStep
<1>1. PICK s \in {"committed", "lost"} : event' = [event EXCEPT ![e].state = s]
  BY DEF Save
<1>2. /\ event'[e] = [event[e] EXCEPT !.state = s]
      /\ \A d \in Events : d # e => event'[d] = event[d]
  BY <1>1 DEF TypeOK
<1>3. event[e] \in EventRecords /\ event[e].state = "in flight"
  BY DEF TypeOK, Save
<1>4. event'[e] \in EventRecords /\ event'[e].at = event[e].at
  <2>1. s \in {"new", "in flight", "committed", "lost"}
    OBVIOUS
  <2> DEFINE changed == [event[e] EXCEPT !.state = s]
  <2>2. changed \in EventRecords /\ changed.at = event[e].at
    BY <1>3, <2>1, SettledEvent
  <2>. QED  BY <1>2, <2>2
<1>5. \A d \in Events : event[d] \in EventRecords
  BY DEF TypeOK
<1>. QED  BY <1>2, <1>3, <1>4, <1>5 DEF EventStep, Stored

LEMMA RestartStep ==
  ASSUME TypeOK, Restart PROVE EventStep
BY DEF TypeOK, Restart, EventStep

LEMMA ServiceMInv ==
  ASSUME MInv, (\E e \in Events : Arrive(e) \/ Save(e)) \/ Restart
  PROVE  MInv'
<1>1. /\ UNCHANGED <<clock, model, others, api, baseline, drafts, cli>>
      /\ served' \in Releases
  BY DEF MInv, TypeOK, Arrive, Save, Restart, metadata, reference
<1>2. EventStep
  BY ArriveStep, SaveStep, RestartStep DEF MInv
<1>3. event' = [e \in Events |-> event'[e]]
  BY DEF MInv, TypeOK, Arrive, Save, Restart
<1>4. event' \in [Events -> EventRecords]
  BY <1>2, <1>3 DEF EventStep
<1>5. TypeOK'
  BY <1>1, <1>4 DEF MInv, TypeOK
<1>6. WindowInv' /\ PlaceInv' /\ ContractInv'
  BY <1>1 DEF MInv, WindowInv, PlaceInv, ContractInv
<1>7. \A p \in Runs : Knows(p)' <=> Knows(p)
  BY <1>1 DEF Knows
<1>8. \A p \in Runs : ~InWindow(clock, cli[p].start, cli[p].end)
  <2>1. clock \in Nat /\ \A p \in Runs : cli[p].end \in Nat
    BY DEF MInv, TypeOK, RunRecords
  <2>. QED  BY <2>1 DEF MInv, WindowInv, InWindow
<1>9. SeenInv'
  <2> SUFFICES ASSUME NEW p \in Runs, NEW e \in Events, Knows(p),
                      event'[e].state \in {"in flight", "committed"},
                      InWindow(event'[e].at, cli[p].start, cli[p].end)
               PROVE  e \in cli[p].rows \cup cli[p].pending
    BY <1>1, <1>7 DEF SeenInv, InWindow
  <2>1. event'[e].at # clock
    BY <1>8
  <2>. QED  BY <1>2, <2>1 DEF EventStep, MInv, SeenInv
<1>10. \A p \in Runs : cli[p].rows \subseteq Events
  BY DEF MInv, TypeOK, RunRecords
<1>11. RowsInv'
  BY <1>1, <1>2, <1>7, <1>10 DEF MInv, RowsInv, EventStep, Stored
<1>. QED  BY <1>5, <1>6, <1>9, <1>11 DEF MInv

\* A step of one run concerns that run alone.
LEMMA RunMInv ==
  ASSUME MInv, NEW p \in Runs, NEW run \in RunRecords, Set(p, run),
         run.end <= clock,
         run.pc # "done" => run.report = "none",
         run.pc \in {"ready", "window", "rows"} => run.model = run.api,
         run.pc = "rows" \/ run.report \in Reports =>
           /\ \A e \in Events :
                /\ event[e].state \in {"in flight", "committed"}
                /\ InWindow(event[e].at, run.start, run.end)
                => e \in run.rows \cup run.pending
           /\ \A e \in run.rows : Stored(e)
           /\ run.report = "summary" =>
                /\ run.baseline = run.api.version
                /\ \A e \in run.rows : event[e].release = run.api
  PROVE  MInv'
<1>1. UNCHANGED <<clock, model, others, api, served, event, baseline, drafts>>
  BY DEF Set, metadata, service, reference
<1>2. /\ cli'[p] = run
      /\ \A q \in Runs : q # p => cli'[q] = cli[q]
      /\ cli' \in [Runs -> RunRecords]
  BY DEF MInv, TypeOK, Set
<1>3. TypeOK'
  BY <1>1, <1>2 DEF MInv, TypeOK
<1>4. WindowInv' /\ PlaceInv' /\ ContractInv'
  BY <1>1, <1>2 DEF MInv, WindowInv, PlaceInv, ContractInv
<1>5. Knows(p)' <=> run.pc = "rows" \/ run.report \in Reports
  BY <1>2 DEF Knows
<1>6. \A q \in Runs : q # p => (Knows(q)' <=> Knows(q))
  BY <1>2 DEF Knows
<1>7. SeenInv'
  BY <1>1, <1>2, <1>5, <1>6 DEF MInv, SeenInv, InWindow
<1>8. RowsInv'
  <2>1. ASSUME NEW q \in Runs, Knows(q)'
        PROVE  /\ \A e \in cli'[q].rows : Stored(e)'
               /\ cli'[q].report = "summary" =>
                    /\ cli'[q].baseline = cli'[q].api.version
                    /\ \A e \in cli'[q].rows : event'[e].release = cli'[q].api
    <3>1. CASE q = p
      BY <1>1, <1>2, <1>5, <2>1, <3>1 DEF Stored
    <3>2. CASE q # p
      <4>1. cli'[q] = cli[q] /\ event' = event
        BY <1>1, <1>2, <3>2
      <4>2. Knows(q)
        BY <1>6, <2>1, <3>2
      <4>3. RowsInv
        BY DEF MInv
      <4>. QED  BY <4>1, <4>2, <4>3 DEF RowsInv, Stored
    <3>. QED  BY <3>1, <3>2
  <2>. QED  BY <2>1 DEF RowsInv
<1>. QED  BY <1>3, <1>4, <1>7, <1>8 DEF MInv

\* A run that is not done and has no rows makes no claim.
LEMMA SilentMInv ==
  ASSUME MInv, NEW p \in Runs, NEW run \in RunRecords, Set(p, run),
         run.end <= clock, run.pc # "rows",
         run.pc \in {"ready", "window"} => run.model = run.api,
         run.report = "none" \/ (run.pc = "done" /\ run.report = "error")
  PROVE  MInv'
BY RunMInv DEF Reports

LEMMA CommandMInv ==
  ASSUME MInv, NEW p \in Runs,
         \/ Fail(p) \/ ReadApi(p) \/ ReadModel(p) \/ ReadOthers(p) \/ Collect(p)
         \/ ReportAudit(p) \/ ReportSummary(p)
         \/ \E hours \in Hours : TakeWindow(p, hours)
  PROVE  MInv'
<1>0. /\ cli[p] \in RunRecords /\ cli[p].end <= clock /\ clock \in Nat
      /\ cli[p].pc # "done" => cli[p].report = "none"
      /\ cli[p].pc \in {"ready", "window", "rows"} => cli[p].model = cli[p].api
      /\ Hours \subseteq Nat
  BY MonitoringAssumption DEF MInv, TypeOK, WindowInv, PlaceInv, ContractInv
<1>1. CASE Fail(p)
  <2> DEFINE run == [NewRun EXCEPT !.pc = "done", !.report = "error"]
  <2>1. run \in RunRecords /\ run.end = 0 /\ run.pc = "done" /\ run.report = "error"
    BY NewRunFacts DEF RunRecords
  <2>2. Set(p, run)
    BY <1>1 DEF Fail
  <2> HIDE DEF run
  <2>. QED  BY <1>0, <2>1, <2>2, SilentMInv
<1>2. CASE ReadApi(p)
  <2> DEFINE run == [NewRun EXCEPT !.pc = "contracts", !.api = api]
  <2>1. run \in RunRecords /\ run.end = 0 /\ run.pc = "contracts" /\ run.report = "none"
    BY NewRunFacts DEF RunRecords, MInv, TypeOK
  <2>2. Set(p, run)
    BY <1>2 DEF ReadApi
  <2> HIDE DEF run
  <2>. QED  BY <1>0, <2>1, <2>2, SilentMInv
<1>3. CASE ReadModel(p)
  <2> DEFINE run == [cli[p] EXCEPT !.pc = "model", !.model = model]
  <2>1. model \in Releases \cup {Absent} /\ cli[p].pc = "contracts" /\ Set(p, run)
    BY <1>3 DEF MInv, TypeOK, ReadModel
  <2>2. run \in RunRecords /\ run.end = cli[p].end /\ run.pc = "model" /\ run.report = cli[p].report
    BY <1>0, <2>1 DEF RunRecords
  <2> HIDE DEF run
  <2>. QED  BY <1>0, <2>1, <2>2, SilentMInv
<1>3a. CASE ReadOthers(p)
  <2> DEFINE run == [cli[p] EXCEPT !.pc = "ready", !.version = others.version]
  <2>1. /\ others.version \in Versions \cup {Absent} /\ cli[p].pc = "model" /\ Set(p, run)
        /\ cli[p].model = cli[p].api
    BY <1>3a DEF MInv, TypeOK, ReadOthers, Versions, Agree
  <2>2. /\ run \in RunRecords /\ run.end = cli[p].end /\ run.pc = "ready" /\ run.report = cli[p].report
        /\ run.model = run.api
    BY <1>0, <2>1 DEF RunRecords
  <2> HIDE DEF run
  <2>. QED  BY <1>0, <2>1, <2>2, SilentMInv
<1>4. CASE \E hours \in Hours : TakeWindow(p, hours)
  <2>1. PICK hours \in Hours : TakeWindow(p, hours)
    BY <1>4
  <2> DEFINE run == [cli[p] EXCEPT !.pc = "window", !.start = clock - hours, !.end = clock]
  <2>2. cli[p].pc = "ready" /\ Set(p, run)
    BY <2>1 DEF TakeWindow
  <2>4. hours \in Nat /\ clock - hours \in Int
    BY <1>0
  <2>3. /\ run \in RunRecords /\ run.end = clock /\ run.pc = "window" /\ run.report = cli[p].report
        /\ run.model = run.api
    BY <1>0, <2>2, <2>4 DEF RunRecords
  <2> HIDE DEF run
  <2>. QED  BY <1>0, <2>2, <2>3, SilentMInv
<1>5. CASE Collect(p)
  <2> DEFINE rows == {e \in Events : Stored(e) /\
                        InWindow(event[e].at, cli[p].start, cli[p].end)}
             pending == {e \in Events : event[e].state = "in flight"}
             run == [cli[p] EXCEPT !.pc = "rows", !.rows = rows, !.pending = pending]
  <2>1. cli[p].pc = "window" /\ Set(p, run)
    BY <1>5 DEF Collect
  <2>2. rows \in SUBSET Events /\ pending \in SUBSET Events
    OBVIOUS
  <2>3. \A e \in Events :
          /\ event[e].state \in {"in flight", "committed"}
          /\ InWindow(event[e].at, cli[p].start, cli[p].end)
          => e \in rows \cup pending
    BY DEF Stored
  <2>4. \A e \in rows : Stored(e)
    OBVIOUS
  <2> HIDE DEF rows, pending
  <2>5. /\ run \in RunRecords /\ run.end = cli[p].end /\ run.start = cli[p].start
        /\ run.pc = "rows" /\ run.report = "none"
        /\ run.rows = rows /\ run.pending = pending /\ run.model = run.api
    BY <1>0, <2>1, <2>2 DEF RunRecords
  <2> HIDE DEF run
  <2>. QED  BY <1>0, <2>1, <2>3, <2>4, <2>5, RunMInv
<1>6. CASE ReportAudit(p)
  <2> DEFINE verdict == IF Valid(p) THEN "valid" ELSE "invalid"
             run == [cli[p] EXCEPT !.pc = "done", !.report = verdict]
  <2>1. cli[p].pc = "rows" /\ Set(p, run) /\ verdict \in {"valid", "invalid"}
    BY <1>6 DEF ReportAudit
  <2> HIDE DEF verdict
  <2>2. /\ run \in RunRecords /\ run.end = cli[p].end /\ run.start = cli[p].start
        /\ run.pc = "done" /\ run.report = verdict
        /\ run.rows = cli[p].rows /\ run.pending = cli[p].pending
    BY <1>0, <2>1 DEF RunRecords
  <2>3. Knows(p) /\ verdict # "summary"
    BY <2>1 DEF Knows
  <2> HIDE DEF run
  <2>. QED  BY <1>0, <2>1, <2>2, <2>3, RunMInv DEF MInv, SeenInv, RowsInv
<1>7. CASE ReportSummary(p)
  <2> DEFINE run == [cli[p] EXCEPT !.pc = "done", !.report = "summary", !.baseline = baseline]
  <2>1. /\ cli[p].pc = "rows" /\ Set(p, run)
        /\ baseline = cli[p].api.version
        /\ \A e \in cli[p].rows : event[e].release = cli[p].api
    BY <1>0, <1>7 DEF ReportSummary, BaselineFits, Valid
  <2>2. /\ run \in RunRecords /\ run.end = cli[p].end /\ run.start = cli[p].start
        /\ run.pc = "done" /\ run.report = "summary" /\ run.baseline = baseline
        /\ run.rows = cli[p].rows /\ run.pending = cli[p].pending
        /\ run.api = cli[p].api
    BY <1>0, <2>1 DEF RunRecords, MInv, TypeOK
  <2>3. Knows(p)
    BY <2>1 DEF Knows
  <2> HIDE DEF run
  <2>. QED  BY <1>0, <2>1, <2>2, <2>3, RunMInv DEF MInv, SeenInv, RowsInv
<1>. QED  BY <1>1, <1>2, <1>3, <1>4, <1>5, <1>6, <1>7, <1>3a

LEMMA NextMInv == MInv /\ [Next]_vars => MInv'
<1> SUFFICES ASSUME MInv, [Next]_vars PROVE MInv'
  OBVIOUS
<1>1. CASE UNCHANGED vars
  <2>1. TypeOK' /\ UNCHANGED <<event, cli, clock>>
    BY <1>1 DEF MInv, TypeOK, vars, metadata, service, reference
  <2>. QED  BY <2>1, OwnerMInv
<1>2. CASE Next
  <2>1. CASE \/ Tick \/ WriteApiManifest \/ BuildBaseline \/ RemoveBaseline
             \/ \E r \in Releases : ReplaceModel(r) \/ ReplaceOthers(r)
             \/ \E v \in Versions : WriteBaseline(v)
    BY <2>1, OwnerTypes, OwnerMInv DEF MInv
  <2>2. CASE (\E e \in Events : Arrive(e) \/ Save(e)) \/ Restart
    BY <2>2, ServiceMInv
  <2>3. CASE \E p \in Runs :
               \/ Fail(p) \/ ReadApi(p) \/ ReadModel(p) \/ ReadOthers(p) \/ Collect(p)
               \/ ReportAudit(p) \/ ReportSummary(p)
               \/ \E hours \in Hours : TakeWindow(p, hours)
    BY <2>3, CommandMInv
  <2>. QED  BY <1>2, <2>1, <2>2, <2>3 DEF Next
<1>. QED  BY <1>1, <1>2

LEMMA SpecMInv == Spec => []MInv
BY InitMInv, NextMInv, PTL DEF Spec

-----------------------------------------------------------------------------

\* Events, runs and metadata keep their types.
THEOREM MonitoringTypeOK == Spec => []TypeOK
<1>1. MInv => TypeOK
  BY DEF MInv
<1>. QED  BY <1>1, SpecMInv, PTL

\* Whatever arrives, commits or is lost meanwhile, what a report misses of its
\* window was in flight when the table was read.
THEOREM MonitoringMissedOnlyInFlight == Spec => []MissedOnlyInFlight
<1>1. MInv => MissedOnlyInFlight
  BY DEF MInv, SeenInv, Knows, Reports, MissedOnlyInFlight, Stored
<1>. QED  BY <1>1, SpecMInv, PTL

\* Whatever is released, published or restarted meanwhile, file by file, a summary
\* is of the one release that the API manifest described when its run began.
THEOREM MonitoringSummaryIsOfOneVersion == Spec => []SummaryIsOfOneVersion
<1>1. MInv => SummaryIsOfOneVersion
  BY DEF MInv, RowsInv, Knows, Reports, SummaryIsOfOneVersion
<1>. QED  BY <1>1, SpecMInv, PTL

=============================================================================
