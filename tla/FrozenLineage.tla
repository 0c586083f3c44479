--------------------------- MODULE FrozenLineage ---------------------------
(***************************************************************************)
(* The chain of files from the challenger to the service.  Training        *)
(* publishes reports and a model manifest, modeling/calibration.py a       *)
(* calibration manifest and a selection, explainability/run.py an          *)
(* explanation and a score manifest, and service/runtime.py accepts all of *)
(* them or refuses to start.                                               *)
(*                                                                         *)
(* Each file is read and replaced on its own.  A run may be killed at any  *)
(* point, refuse, and be started again, any number of times; the owner     *)
(* edits the configuration at any time and removes a model's record to     *)
(* make a new one.                                                         *)
(***************************************************************************)
EXTENDS Naturals

CONSTANTS
  Runs,        \* processes, each of which runs one stage after another
  Models,      \* the models that training may yield, by their digests
  Settings,    \* contents of configs/calibration.yaml, and the baseline at the time
  Options,     \* contents of configs/explainability.yaml: tolerances, top_k
  OneAtATime,  \* whether runs, and the removal of a record, wait for each other
  Absent       \* no file, or nothing read

Calibrations == [model : Models, settings : Settings]
\* The options an explanation was made with and those that were hashed; edited
\* is history: the file changed between the two.
Explanations ==
  [model : Models, options : Options, hash : Options, gain : Models,
   edited : BOOLEAN]

ASSUME AbsentAssumption ==
  Absent \notin
    Models \cup Settings \cup Options \cup Calibrations \cup Explanations
ASSUME SwitchAssumption == OneAtATime \in BOOLEAN

VARIABLES
  identity,     \* the calibrations that leave the probabilities as they are
  leads,        \* those of them in which the challenger is selected
  config,       \* what training yields, and the two files of configuration
  reports,      \* xgboost_metrics.json and xgboost_feature_importance.json
  manifest,     \* xgboost_model_manifest.json
  calibration,  \* calibration_manifest.json
  selection,    \* phase6_model_selection.json
  explanation,  \* explainability_manifest.json
  score,        \* internal_score_manifest.json
  pc,           \* where each process is
  seen,         \* what its run has read
  selected      \* every selection that was ever published

results == <<identity, leads>>
record == <<reports, manifest>>
calibrated == <<calibration, selection, selected>>
explained == <<explanation, score>>
files == <<record, calibrated, explained>>
vars == <<results, config, files, pc, seen>>

Configurations == [model : Models, settings : Settings, options : Options]
Nothing == [model |-> Absent, settings |-> Absent, options |-> Absent,
            gain |-> Absent, explanation |-> Absent, score |-> Absent,
            edited |-> FALSE]

Busy(p) == pc[p] \notin {"idle", "serving"}
MayAct == OneAtATime => \A p \in Runs : ~ Busy(p)

Init ==
  /\ identity \in SUBSET Calibrations /\ leads \in SUBSET identity
  /\ config \in Configurations
  /\ reports = Absent /\ manifest = Absent
  /\ calibration = Absent /\ selection = Absent /\ selected = {}
  /\ explanation = Absent /\ score = Absent
  /\ pc = [p \in Runs |-> "idle"]
  /\ seen = [p \in Runs |-> Nothing]

Goto(p, l) == pc' = [pc EXCEPT ![p] = l]
Saw(p, what) == seen' = [seen EXCEPT ![p] = what]
Leave(p) == Goto(p, "idle") /\ Saw(p, Nothing)

-----------------------------------------------------------------------------
(***************************************************************************)
(* Training, as far as later stages depend on it; ExperimentPublication    *)
(* has the rest.                                                           *)
(***************************************************************************)

Fit(p) ==
  /\ pc[p] = "idle" /\ MayAct
  /\ Goto(p, "fitted")
  /\ Saw(p, [Nothing EXCEPT !.model = config.model])
  /\ UNCHANGED <<results, config, files>>

\* publish_experiment: a record is reproduced or refused, not changed.
FindRecord(p) ==
  /\ pc[p] = "fitted"
  /\ IF manifest = Absent THEN Goto(p, "report") /\ UNCHANGED seen ELSE Leave(p)
  /\ UNCHANGED <<results, config, files>>

\* Faulty: a report that cannot be written is left out.
WriteReportsLenient(p) ==
  /\ pc[p] = "report"
  /\ reports' \in {seen[p].model, reports}
  /\ Goto(p, "record")
  /\ UNCHANGED <<results, config, manifest, calibrated, explained, seen>>

WriteReports(p) ==
  /\ pc[p] = "report"
  /\ reports' = seen[p].model
  /\ Goto(p, "record")
  /\ UNCHANGED <<results, config, manifest, calibrated, explained, seen>>

WriteManifest(p) ==
  /\ pc[p] = "record"
  /\ manifest' = seen[p].model
  /\ Leave(p)
  /\ UNCHANGED <<results, config, reports, calibrated, explained>>

-----------------------------------------------------------------------------
(***************************************************************************)
(* run_calibration.                                                        *)
(***************************************************************************)

ReadSettings(p) ==
  /\ pc[p] = "idle" /\ MayAct
  /\ Goto(p, "settings")
  /\ Saw(p, [Nothing EXCEPT !.settings = config.settings])
  /\ UNCHANGED <<results, config, files>>

ReadCandidate(p) ==
  /\ pc[p] = "settings"
  /\ IF manifest # Absent
     THEN Goto(p, "candidate") /\ Saw(p, [seen[p] EXCEPT !.model = manifest])
     ELSE Leave(p)
  /\ UNCHANGED <<results, config, files>>

\* Validation metrics are computed anew and must be those in the reports.
VerifyCandidate(p) ==
  /\ pc[p] = "candidate"
  /\ IF reports = seen[p].model THEN Goto(p, "calibrated") /\ UNCHANGED seen
     ELSE Leave(p)
  /\ UNCHANGED <<results, config, files>>

Calibrated(p) == [model |-> seen[p].model, settings |-> seen[p].settings]

WriteCalibration(p) ==
  /\ pc[p] = "calibrated"
  /\ calibration' = Calibrated(p)
  /\ Goto(p, "select")
  /\ UNCHANGED <<results, config, record, selection, selected, explained, seen>>

WriteSelection(p) ==
  /\ pc[p] = "select"
  /\ selection' = Calibrated(p)
  /\ selected' = selected \cup {Calibrated(p)}
  /\ Leave(p)
  /\ UNCHANGED <<results, config, record, calibration, explained>>

-----------------------------------------------------------------------------
(***************************************************************************)
(* Reading the chain: load_frozen, and load_runtime.  A file that fails a  *)
(* check ends the run; nothing happens between a read and its check that   *)
(* another process could see, so they are one step.                        *)
(***************************************************************************)

ReadOptions(p) ==
  /\ pc[p] = "idle" /\ MayAct
  /\ Goto(p, "manifest")
  /\ Saw(p, [Nothing EXCEPT !.options = config.options])
  /\ UNCHANGED <<results, config, files>>

\* load_runtime reads its options last.
Start(p) ==
  /\ pc[p] = "idle" /\ MayAct
  /\ Goto(p, "manifest") /\ Saw(p, Nothing)
  /\ UNCHANGED <<results, config, files>>

Explains(p) == seen[p].options # Absent

ReadManifest(p) ==
  /\ pc[p] = "manifest"
  /\ IF manifest # Absent
     THEN Goto(p, "calibration") /\ Saw(p, [seen[p] EXCEPT !.model = manifest])
     ELSE Leave(p)
  /\ UNCHANGED <<results, config, files>>

ReadCalibration(p) ==
  /\ pc[p] = "calibration"
  /\ IF calibration \in identity /\ calibration.model = seen[p].model
     THEN Goto(p, "selection") /\ UNCHANGED seen
     ELSE Leave(p)
  /\ UNCHANGED <<results, config, files>>

\* Faulty: the explainer trusts the version that the selection names.
AcceptsVersion(p) == selection \in leads

\* The selection names a version, which all models share.  Only the explainer
\* computes the metrics again and compares them.
Accepts(p) ==
  /\ selection \in leads
  /\ Explains(p) => selection.model = seen[p].model

ReadSelection(p) ==
  /\ pc[p] = "selection"
  /\ IF Accepts(p)
     THEN Goto(p, IF Explains(p) THEN "gain" ELSE "explanation") /\ UNCHANGED seen
     ELSE Leave(p)
  /\ UNCHANGED <<results, config, files>>

-----------------------------------------------------------------------------
(***************************************************************************)
(* run_explainability, from here.                                          *)
(***************************************************************************)

\* The importances name a version only.
ReadGain(p) ==
  /\ pc[p] = "gain"
  /\ IF reports # Absent
     THEN Goto(p, "explained") /\ Saw(p, [seen[p] EXCEPT !.gain = reports])
     ELSE Leave(p)
  /\ UNCHANGED <<results, config, files>>

\* The manifest is put together: the configuration is hashed here, its values
\* were read when the run began.
HashOptions(p) ==
  /\ pc[p] = "explained"
  /\ Saw(p, [seen[p] EXCEPT !.explanation =
               [model |-> seen[p].model, options |-> seen[p].options,
                hash |-> config.options, gain |-> seen[p].gain,
                edited |-> seen[p].edited]])
  /\ Goto(p, "hashed")
  /\ UNCHANGED <<results, config, files>>

WriteExplanation(p) ==
  /\ pc[p] = "hashed"
  /\ explanation' = seen[p].explanation
  /\ Goto(p, "score")
  /\ UNCHANGED <<results, config, record, calibrated, score, seen>>

WriteScore(p) ==
  /\ pc[p] = "score"
  /\ score' = seen[p].model
  /\ Leave(p)
  /\ UNCHANGED <<results, config, record, calibrated, explanation>>

-----------------------------------------------------------------------------
(***************************************************************************)
(* load_runtime, from here.                                                *)
(***************************************************************************)

ReadExplanation(p) ==
  /\ pc[p] = "explanation"
  /\ IF explanation # Absent /\ explanation.model = seen[p].model
     THEN Goto(p, "scores") /\ Saw(p, [seen[p] EXCEPT !.explanation = explanation])
     ELSE Leave(p)
  /\ UNCHANGED <<results, config, files>>

\* The parameters of the score are constants that settings() insists on: the
\* manifest is compared with them, and only the model can differ.
ReadScore(p) ==
  /\ pc[p] = "scores"
  /\ IF score = seen[p].model
     THEN Goto(p, "options") /\ Saw(p, [seen[p] EXCEPT !.score = score])
     ELSE Leave(p)
  /\ UNCHANGED <<results, config, files>>

LoadOptions(p) ==
  /\ pc[p] = "options"
  /\ Goto(p, "hash")
  /\ Saw(p, [seen[p] EXCEPT !.options = config.options])
  /\ UNCHANGED <<results, config, files>>

\* Faulty: compares no hashes.
CheckHashNever(p) ==
  /\ pc[p] = "hash"
  /\ Goto(p, "serving")
  /\ UNCHANGED <<results, config, files, seen>>

\* The file is read again to be hashed.  That top_k is compared too is a refusal
\* more.
CheckHash(p) ==
  /\ pc[p] = "hash"
  /\ IF seen[p].explanation.hash = config.options
     THEN Goto(p, "serving") /\ UNCHANGED seen
     ELSE Leave(p)
  /\ UNCHANGED <<results, config, files>>

\* A refusal of what is not modelled, a kill, or the end of the service.
Stop(p) ==
  /\ pc[p] # "idle"
  /\ Leave(p)
  /\ UNCHANGED <<results, config, files>>

-----------------------------------------------------------------------------

Train(p) == Fit(p) \/ FindRecord(p) \/ WriteReports(p) \/ WriteManifest(p)

Calibrate(p) ==
  \/ ReadSettings(p) \/ ReadCandidate(p) \/ VerifyCandidate(p)
  \/ WriteCalibration(p) \/ WriteSelection(p)

ReadChain(p) ==
  \/ ReadOptions(p) \/ Start(p) \/ ReadManifest(p) \/ ReadCalibration(p)
  \/ ReadSelection(p)

Explain(p) ==
  ReadGain(p) \/ HashOptions(p) \/ WriteExplanation(p) \/ WriteScore(p)

Load(p) == ReadExplanation(p) \/ ReadScore(p) \/ LoadOptions(p) \/ CheckHash(p)

\* Places where options were read and are still to be hashed.
HasOptions(p) ==
  \/ pc[p] = "hash"
  \/ /\ Explains(p)
     /\ pc[p] \in {"manifest", "calibration", "selection", "gain", "explained"}

\* The owner edits the configuration, what training depends on included, at any
\* time.
Configure ==
  /\ config' \in Configurations
  /\ seen' = [p \in Runs |->
                IF HasOptions(p) /\ config'.options # config.options
                THEN [seen[p] EXCEPT !.edited = TRUE] ELSE seen[p]]
  /\ UNCHANGED <<results, files, pc>>

\* A changed experiment requires a new record: the owner removes the old one.
RemoveRecord ==
  /\ MayAct
  /\ manifest' = Absent
  /\ UNCHANGED <<results, config, reports, calibrated, explained, pc, seen>>

Next ==
  \/ \E p \in Runs :
       Train(p) \/ Calibrate(p) \/ ReadChain(p) \/ Explain(p) \/ Load(p) \/ Stop(p)
  \/ Configure \/ RemoveRecord

Spec == Init /\ [][Next]_vars

-----------------------------------------------------------------------------
(***************************************************************************)
(* Properties.                                                             *)
(***************************************************************************)

Reads ==
  [model : Models \cup {Absent}, settings : Settings \cup {Absent},
   options : Options \cup {Absent}, gain : Models \cup {Absent},
   explanation : Explanations \cup {Absent}, score : Models \cup {Absent},
   edited : BOOLEAN]

Places ==
  {"idle", "fitted", "report", "record", "settings", "candidate", "calibrated",
   "select", "manifest", "calibration", "selection", "gain", "explained", "hashed",
   "score", "explanation", "scores", "options", "hash", "serving"}

TypeOK ==
  /\ identity \subseteq Calibrations /\ leads \subseteq identity
  /\ config \in Configurations
  /\ reports \in Models \cup {Absent} /\ manifest \in Models \cup {Absent}
  /\ calibration \in Calibrations \cup {Absent}
  /\ selection \in Calibrations \cup {Absent} /\ selected \subseteq Calibrations
  /\ explanation \in Explanations \cup {Absent} /\ score \in Models \cup {Absent}
  /\ pc \in [Runs -> Places]
  /\ seen \in [Runs -> Reads]

\* Whatever is edited, replaced, cut short and started again, and however runs
\* overlap: a service starts only with a model that some calibration run
\* evaluated, left uncalibrated, and selected.  No file that the service reads
\* says so; the explainer's comparison of metrics does.
ServedWasSelected ==
  \A p \in Runs :
    pc[p] = "serving" =>
      \E c \in selected : c \in leads /\ c.model = seen[p].model

\* A service scores and explains one model, and with the values of the
\* configuration that the explanations were checked with, whatever was edited or
\* replaced before, between and after.  The manifest records a hash taken after
\* the values were used, and the service compares it after it read them: an edit
\* in one of these two gaps is what neither can see.
ServedIsOneChain ==
  \A p \in Runs :
    pc[p] = "serving" =>
      /\ seen[p].score = seen[p].model /\ seen[p].explanation.model = seen[p].model
      /\ \/ seen[p].explanation.options = seen[p].options
         \/ seen[p].explanation.edited \/ seen[p].edited

\* The importances that an explanation is compared with are those of the model
\* it explains.  They name no model; that they come before the manifest, and
\* that calibration checks the other reports, has to suffice.
GainIsOfTheModel ==
  explanation # Absent => explanation.gain = explanation.model

=============================================================================
