----------------------- MODULE ExperimentPublication -----------------------
(***************************************************************************)
(* One stage that fits a model and records it as an experiment:            *)
(* modeling/baseline.py or modeling/xgboost_challenger.py, with            *)
(* publish_experiment of modeling/experiment_metadata.py.                  *)
(*                                                                         *)
(* A run fits, saves the model under a name made of its digest, loads it   *)
(* back and publishes: reports one after another, the search table, and    *)
(* the manifest last.  Where a manifest exists it compares instead.  A run *)
(* may be killed at any point, and any write may fail.                     *)
(***************************************************************************)
EXTENDS Naturals

CONSTANTS
  Runs,        \* executions of the stage
  Models,      \* the models that may come out of fitting, by their digests
  Contexts,    \* what else a manifest says: data, parameters, versions
  Outcomes,    \* what its reports and its search table say
  Reports,     \* how many JSON reports the stage has
  HasTable,    \* whether it has a search table (the challenger does)
  OneAtATime,  \* whether runs wait for each other
  Earlier,     \* the run whose record the repository came with
  Absent,      \* a file that does not exist
  Partial      \* a file that was opened for writing and not filled

Identities == [model : Models, context : Contexts]
Experiments == [identity : Identities, outcome : Outcomes]
Authors == Runs \cup {Earlier}
Records == [identity : Identities, author : Authors]
\* The timing columns of the table are the author's own.
Tables == [outcome : Outcomes, author : Authors]

ASSUME ReportsAssumption == Reports \in Nat \ {0}
ASSUME SwitchesAssumption == HasTable \in BOOLEAN /\ OneAtATime \in BOOLEAN
ASSUME NamesAssumption ==
  /\ Earlier \notin Runs
  /\ Absent # Partial /\ "whole" \notin {Absent, Partial}
  /\ {Absent, Partial} \cap (Outcomes \cup Records \cup Tables) = {}

VARIABLES
  computed,   \* the experiment each author's configuration and code amount to
  artifacts,  \* the file whose name holds the digest of a model
  reports,    \* metrics, coefficients, comparison, importance
  table,      \* xgboost_search_results.csv
  manifest,   \* *_model_manifest.json
  pc,         \* where each run is
  next        \* the report it is at

files == <<reports, table, manifest>>
vars == <<computed, artifacts, files, pc, next>>

Succeeded == {"recorded", "reproduced"}
Ended == Succeeded \cup {"refused", "failed", "killed"}
Saved == {"publish", "compare", "report", "table", "record"}
Places == {"fit", "create", "fill", "load"} \cup Saved \cup Ended

NothingRecorded ==
  /\ reports = [i \in 1 .. Reports |-> Absent]
  /\ table = Absent
  /\ manifest = Absent

\* The records are under version control and the artifacts are not.
RecordedEarlier ==
  LET e == computed[Earlier]
  IN  /\ reports = [i \in 1 .. Reports |-> e.outcome]
      /\ table = IF HasTable THEN [outcome |-> e.outcome, author |-> Earlier]
                 ELSE Absent
      /\ manifest = [identity |-> e.identity, author |-> Earlier]

Init ==
  /\ computed \in [Authors -> Experiments]
  /\ artifacts = [d \in Models |-> Absent]
  /\ NothingRecorded \/ RecordedEarlier
  /\ pc = [p \in Runs |-> "fit"]
  /\ next = [p \in Runs |-> 1]

Goto(p, l) == pc' = [pc EXCEPT ![p] = l]
Digest(p) == computed[p].identity.model

-----------------------------------------------------------------------------
(***************************************************************************)
(* save_model, save_native, and the loading back.                          *)
(***************************************************************************)

\* Faulty: a file of that name means that the model has been saved.
FindArtifactSkipping(p) ==
  /\ pc[p] = "fit"
  /\ OneAtATime => \A q \in Runs : pc[q] \in Ended \cup {"fit"}
  /\ Goto(p, IF artifacts[Digest(p)] = Absent THEN "create" ELSE "publish")
  /\ UNCHANGED <<computed, artifacts, files, next>>

\* The model is fitted; is its file there already?
FindArtifact(p) ==
  /\ pc[p] = "fit"
  /\ OneAtATime => \A q \in Runs : pc[q] \in Ended \cup {"fit"}
  /\ \/ artifacts[Digest(p)] = Absent /\ Goto(p, "create")
     \/ artifacts[Digest(p)] = Partial /\ Goto(p, "refused")
     \/ artifacts[Digest(p)] = "whole" /\ Goto(p, "load")
  /\ UNCHANGED <<computed, artifacts, files, next>>

\* open("xb"): it creates, or somebody was faster.
CreateArtifact(p) ==
  /\ pc[p] = "create"
  /\ \/ /\ artifacts[Digest(p)] = Absent
        /\ artifacts' = [artifacts EXCEPT ![Digest(p)] = Partial]
        /\ Goto(p, "fill")
     \/ /\ artifacts[Digest(p)] # Absent
        /\ Goto(p, "failed")
        /\ UNCHANGED artifacts
  /\ UNCHANGED <<computed, files, next>>

FillArtifact(p) ==
  /\ pc[p] = "fill"
  /\ \/ /\ artifacts' = [artifacts EXCEPT ![Digest(p)] = "whole"]
        /\ Goto(p, "load")
     \/ /\ Goto(p, "failed")
        /\ UNCHANGED artifacts
  /\ UNCHANGED <<computed, files, next>>

\* The bytes must have the digest.
LoadArtifact(p) ==
  /\ pc[p] = "load"
  /\ Goto(p, IF artifacts[Digest(p)] = "whole" THEN "publish" ELSE "refused")
  /\ UNCHANGED <<computed, artifacts, files, next>>

-----------------------------------------------------------------------------
(***************************************************************************)
(* publish_experiment.                                                     *)
(***************************************************************************)

\* Faulty: a changed experiment replaces the record.
FindManifestReplacing(p) ==
  /\ pc[p] = "publish"
  /\ Goto(p, IF manifest = Absent \/ manifest.identity # computed[p].identity
             THEN "report" ELSE "compare")
  /\ UNCHANGED <<computed, artifacts, files, next>>

\* Faulty: only the results are compared.
FindManifestTrusting(p) ==
  /\ pc[p] = "publish"
  /\ Goto(p, IF manifest = Absent THEN "report" ELSE "compare")
  /\ UNCHANGED <<computed, artifacts, files, next>>

\* Generation time and implementation hashes are not compared.
FindManifest(p) ==
  /\ pc[p] = "publish"
  /\ \/ manifest = Absent /\ Goto(p, "report")
     \/ /\ manifest # Absent
        /\ Goto(p, IF manifest.identity = computed[p].identity
                   THEN "compare" ELSE "refused")
  /\ UNCHANGED <<computed, artifacts, files, next>>

CompareReport(p) ==
  /\ pc[p] = "compare"
  /\ next[p] <= Reports
  /\ IF reports[next[p]] = computed[p].outcome
     THEN next' = [next EXCEPT ![p] = @ + 1] /\ UNCHANGED pc
     ELSE Goto(p, "refused") /\ UNCHANGED next
  /\ UNCHANGED <<computed, artifacts, files>>

\* Faulty: the timing columns are compared as well.
SameTableTimed(p) ==
  table = [outcome |-> computed[p].outcome, author |-> p]

\* Missing, torn and different tables are told apart from the same one.
SameTable(p) == table \in [outcome : {computed[p].outcome}, author : Authors]

CompareTable(p) ==
  /\ pc[p] = "compare"
  /\ next[p] > Reports
  /\ Goto(p, IF HasTable => SameTable(p) THEN "reproduced" ELSE "refused")
  /\ UNCHANGED <<computed, artifacts, files, next>>

\* Faulty: a report that cannot be written is left out.
WriteReportLenient(p) ==
  /\ pc[p] = "report"
  /\ next[p] <= Reports
  /\ \/ reports' = [reports EXCEPT ![next[p]] = computed[p].outcome]
     \/ UNCHANGED reports
  /\ next' = [next EXCEPT ![p] = @ + 1]
  /\ UNCHANGED <<computed, artifacts, table, manifest, pc>>

\* write_json: the report is replaced, in one rename, or the write fails.
WriteReport(p) ==
  /\ pc[p] = "report"
  /\ next[p] <= Reports
  /\ \/ /\ reports' = [reports EXCEPT ![next[p]] = computed[p].outcome]
        /\ next' = [next EXCEPT ![p] = @ + 1]
        /\ UNCHANGED pc
     \/ /\ Goto(p, "failed")
        /\ UNCHANGED <<reports, next>>
  /\ UNCHANGED <<computed, artifacts, table, manifest>>

\* to_csv truncates the file it finds ...
OpenTable(p) ==
  /\ pc[p] = "report"
  /\ next[p] > Reports
  /\ IF HasTable THEN table' = Partial /\ Goto(p, "table")
     ELSE Goto(p, "record") /\ UNCHANGED table
  /\ UNCHANGED <<computed, artifacts, reports, manifest, next>>

\* ... and fills it in place.
FillTable(p) ==
  /\ pc[p] = "table"
  /\ \/ /\ table' = [outcome |-> computed[p].outcome, author |-> p]
        /\ Goto(p, "record")
     \/ /\ Goto(p, "failed")
        /\ UNCHANGED table
  /\ UNCHANGED <<computed, artifacts, reports, manifest, next>>

WriteManifest(p) ==
  /\ pc[p] = "record"
  /\ \/ /\ manifest' = [identity |-> computed[p].identity, author |-> p]
        /\ Goto(p, "recorded")
     \/ /\ Goto(p, "failed")
        /\ UNCHANGED manifest
  /\ UNCHANGED <<computed, artifacts, reports, table, next>>

Kill(p) ==
  /\ pc[p] \notin Ended \cup {"fit"}
  /\ Goto(p, "killed")
  /\ UNCHANGED <<computed, artifacts, files, next>>

Saving(p) ==
  FindArtifact(p) \/ CreateArtifact(p) \/ FillArtifact(p) \/ LoadArtifact(p)

Publishing(p) ==
  \/ FindManifest(p) \/ CompareReport(p) \/ CompareTable(p)
  \/ WriteReport(p) \/ OpenTable(p) \/ FillTable(p) \/ WriteManifest(p)

Next == \E p \in Runs : Saving(p) \/ Publishing(p) \/ Kill(p)

Spec == Init /\ [][Next]_vars

-----------------------------------------------------------------------------
(***************************************************************************)
(* Properties.                                                             *)
(***************************************************************************)

TypeOK ==
  /\ computed \in [Authors -> Experiments]
  /\ artifacts \in [Models -> {Absent, Partial, "whole"}]
  /\ reports \in [1 .. Reports -> Outcomes \cup {Absent}]
  /\ table \in Tables \cup {Absent, Partial}
  /\ manifest \in Records \cup {Absent}
  /\ pc \in [Runs -> Places]
  /\ next \in [Runs -> 1 .. Reports + 1]

\* Where there is a manifest, everything it stands for is there and its
\* author's: kills and failing writes, at whatever point of whichever run, only
\* leave files that no manifest vouches for.
RecordIsWhole ==
  manifest # Absent =>
    LET e == computed[manifest.author]
    IN  /\ manifest.identity = e.identity
        /\ \A i \in 1 .. Reports : reports[i] = e.outcome
        /\ HasTable => table = [outcome |-> e.outcome, author |-> manifest.author]
        /\ manifest.author # Earlier => artifacts[e.identity.model] = "whole"

\* "Publish once": what is recorded keeps its bytes, provenance and timings,
\* and a changed experiment never replaces it.
RecordIsKept == [][manifest # Absent => UNCHANGED files]_vars

\* A run that reports success has its own experiment in the record, whoever
\* recorded it.
SuccessMeansRecorded ==
  \A p \in Runs :
    pc[p] \in Succeeded =>
      /\ manifest # Absent
      /\ manifest.identity = computed[p].identity
      /\ \A i \in 1 .. Reports : reports[i] = computed[p].outcome

\* Reproducing an experiment is refused only if the record is of another one,
\* or a run of the stage was cut short; never for its clock, its provenance or
\* its timings.
RefusalHasACause ==
  \A p \in Runs :
    pc[p] = "refused" =>
      \/ manifest # Absent /\ computed[manifest.author] # computed[p]
      \/ \E q \in Runs : pc[q] \in {"failed", "killed"}

\* A saved model is not written again, and a run publishes only what it could
\* load, however many runs save at once.
ArtifactsAreKept ==
  [][\A d \in Models : artifacts[d] = "whole" => artifacts'[d] = "whole"]_vars

PublishedIsLoadable ==
  \A p \in Runs :
    pc[p] \in Saved \cup Succeeded => artifacts[Digest(p)] = "whole"

=============================================================================
