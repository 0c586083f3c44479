----------------------------- MODULE Monitoring -----------------------------
(***************************************************************************)
(* The operations commands beside a running service.  The service stamps   *)
(* an event when the request arrives and commits it when it has been       *)
(* answered; releases replace the metadata file by file, the service takes *)
(* a release up when it restarts; and ops/run.py reads the metadata, fixes *)
(* a window, fetches its events, audits them and may summarise them        *)
(* against the monitoring baseline.                                        *)
(*                                                                         *)
(* A release is known by a version and a digest.  The model manifest holds *)
(* both; of the manifests of calibration, score and explanation, which are *)
(* one variable, ops/contracts.py compares the versions only, while        *)
(* load_runtime refuses any mixture.  An event is invalid when it is of    *)
(* another release: nothing else that audit_rows counts can come out of    *)
(* save_prediction and the constraints of the table.                       *)
(***************************************************************************)
EXTENDS Integers

CONSTANTS
  Events,    \* inference requests
  Runs,      \* processes of the operations commands
  Releases,  \* what has been released: a version and a digest each
  MaxClock,  \* bound on the clock
  Hours,     \* lengths of window that are asked for
  Absent, Torn

ASSUME MonitoringAssumption ==
  /\ MaxClock \in Nat /\ Hours \subseteq Nat \ {0}
  /\ {Absent, Torn} \cap (Releases \cup {r.version : r \in Releases}) = {}

VARIABLES
  clock,     \* the time, which does not run backwards
  model,     \* the model manifest
  others,    \* the manifests of calibration, score and explanation
  api,       \* the API manifest
  served,    \* the release the service has loaded
  event,     \* each event: where it is, its stamp and its release
  baseline,  \* monitoring_baseline.json, by the version it names
  drafts,    \* baselines that publishers have compared with it and will write
  cli        \* each run: where it is, what it has read and reported

metadata == <<model, others, api>>
service == <<served, event>>
reference == <<baseline, drafts>>
vars == <<clock, metadata, service, reference, cli>>

Versions == {r.version : r \in Releases}

NewEvent == [state |-> "new", at |-> 0, release |-> Absent]

NewRun == [pc |-> "idle", api |-> Absent, model |-> Absent, version |-> Absent,
           start |-> 0, end |-> 0, rows |-> {}, pending |-> {}, baseline |-> Absent,
           report |-> "none"]

Init ==
  /\ clock = 0
  /\ model \in Releases
  /\ others = model /\ api = model /\ served = model
  /\ event = [e \in Events |-> NewEvent]
  /\ baseline = Absent /\ drafts = {}
  /\ cli = [p \in Runs |-> NewRun]

Tick ==
  /\ clock < MaxClock
  /\ clock' = clock + 1
  /\ UNCHANGED <<metadata, service, reference, cli>>

-----------------------------------------------------------------------------
(***************************************************************************)
(* The service, as far as its events go; ApiServer has the rest.           *)
(***************************************************************************)

Arrive(e) ==
  /\ event[e].state = "new"
  /\ event' = [event EXCEPT ![e] =
                 [state |-> "in flight", at |-> clock, release |-> served]]
  /\ UNCHANGED <<clock, metadata, served, reference, cli>>

(* The insert is committed, or rolled back.  The database decides, also    *)
(* about an event of a service that has ended meanwhile.                   *)
Save(e) ==
  /\ event[e].state = "in flight"
  /\ \E outcome \in {"committed", "lost"} : event' = [event EXCEPT ![e].state = outcome]
  /\ UNCHANGED <<clock, metadata, served, reference, cli>>

(* load_runtime refuses manifests that are not all of one model.           *)
Consistent == model = others

Restart ==
  /\ Consistent
  /\ served' = model
  /\ UNCHANGED <<clock, metadata, event, reference, cli>>

-----------------------------------------------------------------------------
(***************************************************************************)
(* Releases and the baseline.                                              *)
(***************************************************************************)

ReplaceModel(r) ==
  /\ model' = r
  /\ UNCHANGED <<clock, others, api, service, reference, cli>>

ReplaceOthers(r) ==
  /\ others' = r
  /\ UNCHANGED <<clock, model, api, service, reference, cli>>

(* api/manifest.py loads the runtime first.                                *)
WriteApiManifest ==
  /\ Consistent
  /\ api' = model
  /\ UNCHANGED <<clock, model, others, service, reference, cli>>

\* Faulty: what was read is not compared.
AgreeAlways(a, m, o) == TRUE

(* contracts, of the API manifest a, the model manifest m and the others o. *)
Agree(a, m, o) == m = a /\ o.version = a.version

(* The deciles that it is built from carry no identity, and the baseline   *)
(* is given the version of the metadata.  When there is one already, it    *)
(* has to be equal; one that is not whole cannot be read.                  *)
BuildBaseline ==
  /\ Agree(api, model, others)
  /\ baseline \in {Absent, api.version}
  /\ drafts' = drafts \cup {api.version}
  /\ UNCHANGED <<clock, metadata, service, baseline, cli>>

(* The file is truncated and then filled, by any number of publishers: one *)
(* has further to go, is done, or was killed, and others held the same.    *)
WriteBaseline(v) ==
  /\ v \in drafts
  /\ baseline' \in {v, Torn}
  /\ drafts' \in {drafts, drafts \ {v}}
  /\ UNCHANGED <<clock, metadata, service, cli>>

(* A new reviewed baseline begins with the removal of the old one.         *)
RemoveBaseline ==
  /\ baseline # Absent
  /\ baseline' = Absent
  /\ UNCHANGED <<clock, metadata, service, drafts, cli>>

-----------------------------------------------------------------------------
(***************************************************************************)
(* The command.  Any step may fail, with a report that says nothing more.  *)
(***************************************************************************)

Set(p, run) ==
  /\ cli' = [cli EXCEPT ![p] = run]
  /\ UNCHANGED <<clock, metadata, service, reference>>

Fail(p) ==
  /\ cli[p].pc \notin {"idle", "done"}
  /\ Set(p, [NewRun EXCEPT !.pc = "done", !.report = "error"])

ReadApi(p) ==
  /\ cli[p].pc \in {"idle", "done"}
  /\ Set(p, [NewRun EXCEPT !.pc = "contracts", !.api = api])

ReadModel(p) ==
  /\ cli[p].pc = "contracts"
  /\ Set(p, [cli[p] EXCEPT !.pc = "model", !.model = model])

(* The others are read one after another, and all is compared at the end.  *)
ReadOthers(p) ==
  /\ cli[p].pc = "model"
  /\ Agree(cli[p].api, cli[p].model, others)
  /\ Set(p, [cli[p] EXCEPT !.pc = "ready", !.version = others.version])

(* After the database has been checked.                                    *)
TakeWindow(p, hours) ==
  /\ cli[p].pc = "ready"
  /\ Set(p, [cli[p] EXCEPT !.pc = "window", !.start = clock - hours, !.end = clock])

\* Faulty: the end of the window belongs to it.
InClosedWindow(at, start, end) == start <= at /\ at <= end

InWindow(at, start, end) == start <= at /\ at < end

Stored(e) == event[e].state = "committed"

(* "pending" is of no use to the run: the events it came too early for.    *)
Collect(p) ==
  /\ cli[p].pc = "window"
  /\ Set(p, [cli[p] EXCEPT !.pc = "rows",
       !.rows = {e \in Events : Stored(e) /\ InWindow(event[e].at, cli[p].start, cli[p].end)},
       !.pending = {e \in Events : event[e].state = "in flight"}])

Valid(p) ==
  \A e \in cli[p].rows :
    event[e].release = cli[p].model /\ event[e].release.version = cli[p].version

(* The command "audit", and "summary" when the audit finds a fault.        *)
ReportAudit(p) ==
  /\ cli[p].pc = "rows"
  /\ Set(p, [cli[p] EXCEPT !.pc = "done",
       !.report = IF Valid(p) THEN "valid" ELSE "invalid"])

BaselineFits(p) == baseline = cli[p].model.version /\ baseline = cli[p].version

(* The command "summary"; a baseline that does not fit, or is not whole,   *)
(* is an error.                                                            *)
ReportSummary(p) ==
  /\ cli[p].pc = "rows"
  /\ Valid(p)
  /\ BaselineFits(p)
  /\ Set(p, [cli[p] EXCEPT !.pc = "done", !.report = "summary", !.baseline = baseline])

Next ==
  \/ Tick
  \/ \E e \in Events : Arrive(e) \/ Save(e)
  \/ Restart
  \/ WriteApiManifest
  \/ \E r \in Releases : ReplaceModel(r) \/ ReplaceOthers(r)
  \/ BuildBaseline \/ RemoveBaseline
  \/ \E v \in Versions : WriteBaseline(v)
  \/ \E p \in Runs :
       \/ Fail(p) \/ ReadApi(p) \/ ReadModel(p) \/ ReadOthers(p) \/ Collect(p)
       \/ ReportAudit(p) \/ ReportSummary(p)
       \/ \E hours \in Hours : TakeWindow(p, hours)

Spec == Init /\ [][Next]_vars

-----------------------------------------------------------------------------

EventRecords ==
  [state : {"new", "in flight", "committed", "lost"}, at : Nat,
   release : Releases \cup {Absent}]

RunRecords ==
  [pc : {"idle", "contracts", "model", "ready", "window", "rows", "done"},
   api : Releases \cup {Absent}, model : Releases \cup {Absent},
   version : Versions \cup {Absent},
   start : Int, end : Nat, rows : SUBSET Events, pending : SUBSET Events,
   baseline : Versions \cup {Absent, Torn},
   report : {"none", "error", "valid", "invalid", "summary"}]

TypeOK ==
  /\ clock \in Nat
  /\ model \in Releases /\ others \in Releases
  /\ api \in Releases /\ served \in Releases
  /\ event \in [Events -> EventRecords]
  /\ baseline \in Versions \cup {Absent, Torn} /\ drafts \subseteq Versions
  /\ cli \in [Runs -> RunRecords]

(* Events are stamped long before they are committed, and the window is    *)
(* fixed before it is read: all the same an event of the window that a     *)
(* report has missed was in flight when the run read the table.  Events    *)
(* stored by then are all there, and none arrives in the window later; it  *)
(* is the open end of the window that this takes (ops/run.py, collect).    *)
MissedOnlyInFlight ==
  \A p \in Runs, e \in Events :
    /\ cli[p].pc = "rows" \/ cli[p].report \in {"valid", "invalid", "summary"}
    /\ event[e].state # "new"
    /\ InWindow(event[e].at, cli[p].start, cli[p].end)
    /\ Stored(e)
    => e \in cli[p].rows \cup cli[p].pending

(* However releases, restarts and baselines cross a run, whose files are   *)
(* read one after another: a summary is of committed events of the release *)
(* that the API manifest described when the run began, and it compares     *)
(* them with a whole baseline that names its version (ops/contracts.py,    *)
(* ops/audit.py, ops/run.py).                                              *)
SummaryIsOfOneVersion ==
  \A p \in Runs :
    cli[p].report = "summary" =>
      /\ cli[p].baseline = cli[p].api.version
      /\ \A e \in cli[p].rows : Stored(e) /\ event[e].release = cli[p].api

=============================================================================
