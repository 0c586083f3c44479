------------------------ MODULE FrozenLineageProofs ------------------------
(***************************************************************************)
(* Proofs about FrozenLineage, for any number of processes, models and     *)
(* contents of the configuration.                                          *)
(***************************************************************************)
EXTENDS FrozenLineage, TLAPS

\* What a run has read when it is at l.
Read(l, r) ==
  /\ l \notin {"idle", "settings", "manifest"} => r.model \in Models
  /\ l \in {"settings", "candidate", "calibrated", "select"} => r.settings \in Settings
  /\ l \in {"gain", "explained", "hash", "serving"} => r.options \in Options
  /\ l = "explained" => r.gain \in Models
  /\ l \in {"hashed", "scores", "options", "hash", "serving"} =>
       r.explanation \in Explanations /\ r.explanation.model = r.model
  /\ l \in {"options", "hash", "serving"} => r.score = r.model

ReadInv == \A p \in Runs : Read(pc[p], seen[p])

WasSelected(m) == \E c \in selected : c \in leads /\ c.model = m

\* Places past the comparison with the selection, or with an explanation.
PastSelection ==
  {"gain", "explained", "hashed", "score", "scores", "options", "hash", "serving"}

SelectionInv ==
  /\ selection # Absent => selection \in selected
  /\ explanation # Absent => WasSelected(explanation.model)
  /\ \A p \in Runs : pc[p] \in PastSelection => WasSelected(seen[p].model)

Exclusive == \A p, q \in Runs : Busy(p) /\ Busy(q) => p = q

\* The reports are those of the manifest, and who reads the chain reads it of
\* the manifest that is still there.
RecordInv ==
  /\ manifest # Absent => reports = manifest
  /\ \A p \in Runs :
       /\ pc[p] \in {"report", "record"} => manifest = Absent
       /\ pc[p] = "record" => reports = seen[p].model
       /\ pc[p] \in {"calibration", "selection", "gain"} => manifest = seen[p].model
       /\ pc[p] = "explained" => seen[p].gain = seen[p].model
       /\ pc[p] = "hashed" => seen[p].explanation.gain = seen[p].explanation.model

\* The hash of an explanation is of the values it was made with, but for an edit.
Honest(e) == e.edited \/ e.hash = e.options

\* What was read is what is hashed, but for an edit in between.
Fresh(p) == seen[p].edited \/ seen[p].options = config.options

ConfigInv ==
  /\ explanation # Absent => Honest(explanation)
  /\ \A p \in Runs :
       /\ HasOptions(p) => Fresh(p)
       /\ pc[p] \in {"hashed", "scores", "options", "hash", "serving"}
            => Honest(seen[p].explanation)
       /\ pc[p] = "serving"
            => seen[p].edited \/ seen[p].explanation.hash = seen[p].options

\* What holds when runs, and the removal of a record, wait for each other.
Sequential == Exclusive /\ RecordInv /\ GainIsOfTheModel

IInv ==
  /\ TypeOK
  /\ ReadInv
  /\ SelectionInv
  /\ ConfigInv
  /\ OneAtATime => Sequential

Step(p) ==
  Train(p) \/ Calibrate(p) \/ ReadChain(p) \/ Explain(p) \/ Load(p) \/ Stop(p)

Moves(p, l, r) ==
  /\ pc' = [pc EXCEPT ![p] = l]
  /\ seen' = [seen EXCEPT ![p] = r]

-----------------------------------------------------------------------------
(***************************************************************************)
(* Types, and what a run has read.                                         *)
(***************************************************************************)

LEMMA NothingType == Nothing \in Reads
BY DEF Nothing, Reads

LEMMA LeaveMoves ==
  ASSUME NEW p \in Runs, Leave(p)
  PROVE  /\ Moves(p, "idle", Nothing)
         /\ "idle" \in Places /\ Nothing \in Reads /\ Read("idle", Nothing)
BY NothingType DEF Leave, Goto, Saw, Moves, Places, Read

\* A step that changes only the place.
LEMMA GotoMoves ==
  ASSUME TypeOK, NEW p \in Runs, NEW l, Goto(p, l), UNCHANGED seen
  PROVE  Moves(p, l, seen[p]) /\ seen[p] \in Reads
BY DEF TypeOK, Goto, Moves

LEMMA TrainMoves ==
  ASSUME TypeOK, ReadInv, NEW p \in Runs, Train(p)
  PROVE  \E l \in Places, r \in Reads : Moves(p, l, r) /\ Read(l, r)
<1>0. Read(pc[p], seen[p])
  BY DEF ReadInv
<1>1. CASE Fit(p)
  <2> DEFINE r == [Nothing EXCEPT !.model = config.model]
  <2>1. config.model \in Models
    BY DEF TypeOK, Configurations
  <2>2. r \in Reads /\ r.model \in Models
    BY <2>1 DEF Nothing, Reads
  <2>3. Moves(p, "fitted", r) /\ Read("fitted", r)
    BY <1>1, <2>2 DEF Fit, Goto, Saw, Moves, Read
  <2>. QED  BY <2>2, <2>3 DEF Places
<1>2. CASE FindRecord(p)
  <2>1. CASE Leave(p)
    BY <2>1, LeaveMoves
  <2>2. CASE Goto(p, "report") /\ UNCHANGED seen
    <3>1. Read("report", seen[p])
      BY <1>0, <1>2 DEF Read, FindRecord
    <3>. QED  BY <2>2, <3>1, GotoMoves DEF Places
  <2>. QED  BY <1>2, <2>1, <2>2 DEF FindRecord
<1>3. CASE WriteReports(p)
  <2>1. Read("record", seen[p])
    BY <1>0, <1>3 DEF Read, WriteReports
  <2>2. Goto(p, "record") /\ UNCHANGED seen
    BY <1>3 DEF WriteReports
  <2>. QED  BY <2>1, <2>2, GotoMoves DEF Places
<1>4. CASE WriteManifest(p)
  BY <1>4, LeaveMoves DEF WriteManifest
<1>. QED  BY <1>1, <1>2, <1>3, <1>4 DEF Train

LEMMA CalibrateMoves ==
  ASSUME TypeOK, ReadInv, NEW p \in Runs, Calibrate(p)
  PROVE  \E l \in Places, r \in Reads : Moves(p, l, r) /\ Read(l, r)
<1>0. Read(pc[p], seen[p]) /\ seen[p] \in Reads
  BY DEF ReadInv, TypeOK
<1>1. CASE ReadSettings(p)
  <2> DEFINE r == [Nothing EXCEPT !.settings = config.settings]
  <2>1. config.settings \in Settings
    BY DEF TypeOK, Configurations
  <2>2. r \in Reads /\ r.settings \in Settings
    BY <2>1 DEF Nothing, Reads
  <2>3. Moves(p, "settings", r) /\ Read("settings", r)
    BY <1>1, <2>2 DEF ReadSettings, Goto, Saw, Moves, Read
  <2>. QED  BY <2>2, <2>3 DEF Places
<1>2. CASE ReadCandidate(p)
  <2>1. CASE Leave(p)
    BY <2>1, LeaveMoves
  <2>2. CASE ~ Leave(p)
    <3> DEFINE r == [seen[p] EXCEPT !.model = manifest]
    <3>1. /\ Goto(p, "candidate") /\ Saw(p, r)
          /\ manifest \in Models /\ pc[p] = "settings"
      BY <1>2, <2>2 DEF ReadCandidate, TypeOK
    <3>2. /\ r \in Reads /\ r.model \in Models
          /\ r.settings = seen[p].settings
      BY <1>0, <3>1 DEF Reads
    <3>3. Moves(p, "candidate", r) /\ Read("candidate", r)
      BY <1>0, <3>1, <3>2 DEF Goto, Saw, Moves, Read
    <3>. QED  BY <3>2, <3>3 DEF Places
  <2>. QED  BY <2>1, <2>2
<1>3. CASE VerifyCandidate(p)
  <2>1. CASE Leave(p)
    BY <2>1, LeaveMoves
  <2>2. CASE Goto(p, "calibrated") /\ UNCHANGED seen
    <3>1. Read("calibrated", seen[p])
      BY <1>0, <1>3 DEF Read, VerifyCandidate
    <3>. QED  BY <2>2, <3>1, GotoMoves DEF Places
  <2>. QED  BY <1>3, <2>1, <2>2 DEF VerifyCandidate
<1>4. CASE WriteCalibration(p)
  <2>1. Read("select", seen[p])
    BY <1>0, <1>4 DEF Read, WriteCalibration
  <2>2. Goto(p, "select") /\ UNCHANGED seen
    BY <1>4 DEF WriteCalibration
  <2>. QED  BY <2>1, <2>2, GotoMoves DEF Places
<1>5. CASE WriteSelection(p)
  BY <1>5, LeaveMoves DEF WriteSelection
<1>. QED  BY <1>1, <1>2, <1>3, <1>4, <1>5 DEF Calibrate

LEMMA ReadChainMoves ==
  ASSUME TypeOK, ReadInv, NEW p \in Runs, ReadChain(p)
  PROVE  \E l \in Places, r \in Reads : Moves(p, l, r) /\ Read(l, r)
<1>0. Read(pc[p], seen[p]) /\ seen[p] \in Reads
  BY DEF ReadInv, TypeOK
<1>1. CASE ReadOptions(p)
  <2> DEFINE r == [Nothing EXCEPT !.options = config.options]
  <2>1. config.options \in Options
    BY DEF TypeOK, Configurations
  <2>2. r \in Reads
    BY <2>1 DEF Nothing, Reads
  <2>3. Moves(p, "manifest", r) /\ Read("manifest", r)
    BY <1>1, <2>2 DEF ReadOptions, Goto, Saw, Moves, Read
  <2>. QED  BY <2>2, <2>3 DEF Places
<1>2. CASE Start(p)
  <2>1. Moves(p, "manifest", Nothing) /\ Read("manifest", Nothing)
    BY <1>2 DEF Start, Goto, Saw, Moves, Read
  <2>. QED  BY <2>1, NothingType DEF Places
<1>3. CASE ReadManifest(p)
  <2>1. CASE Leave(p)
    BY <2>1, LeaveMoves
  <2>2. CASE ~ Leave(p)
    <3> DEFINE r == [seen[p] EXCEPT !.model = manifest]
    <3>1. Goto(p, "calibration") /\ Saw(p, r) /\ manifest \in Models
      BY <1>3, <2>2 DEF ReadManifest, TypeOK
    <3>2. r \in Reads /\ r.model \in Models
      BY <1>0, <3>1 DEF Reads
    <3>3. Moves(p, "calibration", r) /\ Read("calibration", r)
      BY <3>1, <3>2 DEF Goto, Saw, Moves, Read
    <3>. QED  BY <3>2, <3>3 DEF Places
  <2>. QED  BY <2>1, <2>2
<1>4. CASE ReadCalibration(p)
  <2>1. CASE Leave(p)
    BY <2>1, LeaveMoves
  <2>2. CASE Goto(p, "selection") /\ UNCHANGED seen
    <3>1. Read("selection", seen[p])
      BY <1>0, <1>4 DEF Read, ReadCalibration
    <3>. QED  BY <2>2, <3>1, GotoMoves DEF Places
  <2>. QED  BY <1>4, <2>1, <2>2 DEF ReadCalibration
<1>5. CASE ReadSelection(p)
  <2>0. seen[p].model \in Models /\ seen[p].options \in Options \cup {Absent}
    BY <1>0, <1>5 DEF Read, ReadSelection, Reads
  <2>1. CASE Leave(p)
    BY <2>1, LeaveMoves
  <2>2. CASE Goto(p, "gain") /\ Explains(p) /\ UNCHANGED seen
    <3>1. Read("gain", seen[p])
      BY <2>0, <2>2 DEF Read, Explains
    <3>. QED  BY <2>2, <3>1, GotoMoves DEF Places
  <2>3. CASE Goto(p, "explanation") /\ UNCHANGED seen
    <3>1. Read("explanation", seen[p])
      BY <2>0 DEF Read
    <3>. QED  BY <2>3, <3>1, GotoMoves DEF Places
  <2>. QED  BY <1>5, <2>1, <2>2, <2>3 DEF ReadSelection
<1>. QED  BY <1>1, <1>2, <1>3, <1>4, <1>5 DEF ReadChain

LEMMA ExplainMoves ==
  ASSUME TypeOK, ReadInv, NEW p \in Runs, Explain(p)
  PROVE  \E l \in Places, r \in Reads : Moves(p, l, r) /\ Read(l, r)
<1>0. Read(pc[p], seen[p]) /\ seen[p] \in Reads
  BY DEF ReadInv, TypeOK
<1>1. CASE ReadGain(p)
  <2>1. CASE Leave(p)
    BY <2>1, LeaveMoves
  <2>2. CASE ~ Leave(p)
    <3> DEFINE r == [seen[p] EXCEPT !.gain = reports]
    <3>1. /\ Goto(p, "explained") /\ Saw(p, r)
          /\ reports \in Models /\ pc[p] = "gain"
      BY <1>1, <2>2 DEF ReadGain, TypeOK
    <3>2. /\ r \in Reads /\ r.gain \in Models
          /\ r.model = seen[p].model /\ r.options = seen[p].options
      BY <1>0, <3>1 DEF Reads
    <3>3. Moves(p, "explained", r) /\ Read("explained", r)
      BY <1>0, <3>1, <3>2 DEF Goto, Saw, Moves, Read
    <3>. QED  BY <3>2, <3>3 DEF Places
  <2>. QED  BY <2>1, <2>2
<1>2. CASE HashOptions(p)
  <2> DEFINE e == [model |-> seen[p].model, options |-> seen[p].options,
                   hash |-> config.options, gain |-> seen[p].gain,
                   edited |-> seen[p].edited]
             r == [seen[p] EXCEPT !.explanation = e]
  <2>1. Goto(p, "hashed") /\ Saw(p, r) /\ pc[p] = "explained"
    BY <1>2 DEF HashOptions
  <2>2. /\ seen[p].model \in Models /\ seen[p].options \in Options
        /\ seen[p].gain \in Models /\ seen[p].edited \in BOOLEAN
        /\ config.options \in Options
    BY <1>0, <2>1 DEF Read, Reads, TypeOK, Configurations
  <2>3. e \in Explanations /\ e.model = seen[p].model
    BY <2>2 DEF Explanations
  <2>. HIDE DEF e
  <2>4. r \in Reads /\ r.model = seen[p].model /\ r.explanation = e
    BY <1>0, <2>3 DEF Reads
  <2>5. Moves(p, "hashed", r) /\ Read("hashed", r)
    BY <2>1, <2>2, <2>3, <2>4 DEF Goto, Saw, Moves, Read
  <2>. QED  BY <2>4, <2>5 DEF Places
<1>3. CASE WriteExplanation(p)
  <2>1. Read("score", seen[p])
    BY <1>0, <1>3 DEF Read, WriteExplanation
  <2>2. Goto(p, "score") /\ UNCHANGED seen
    BY <1>3 DEF WriteExplanation
  <2>. QED  BY <2>1, <2>2, GotoMoves DEF Places
<1>4. CASE WriteScore(p)
  BY <1>4, LeaveMoves DEF WriteScore
<1>. QED  BY <1>1, <1>2, <1>3, <1>4 DEF Explain

LEMMA LoadMoves ==
  ASSUME TypeOK, ReadInv, NEW p \in Runs, Load(p)
  PROVE  \E l \in Places, r \in Reads : Moves(p, l, r) /\ Read(l, r)
<1>0. Read(pc[p], seen[p]) /\ seen[p] \in Reads
  BY DEF ReadInv, TypeOK
<1>1. CASE ReadExplanation(p)
  <2>1. CASE Leave(p)
    BY <2>1, LeaveMoves
  <2>2. CASE ~ Leave(p)
    <3> DEFINE r == [seen[p] EXCEPT !.explanation = explanation]
    <3>1. /\ Goto(p, "scores") /\ Saw(p, r) /\ pc[p] = "explanation"
          /\ explanation \in Explanations /\ explanation.model = seen[p].model
      BY <1>1, <2>2 DEF ReadExplanation, TypeOK
    <3>2. r \in Reads /\ r.explanation = explanation /\ r.model = seen[p].model
      BY <1>0, <3>1 DEF Reads
    <3>3. Moves(p, "scores", r) /\ Read("scores", r)
      BY <1>0, <3>1, <3>2 DEF Goto, Saw, Moves, Read
    <3>. QED  BY <3>2, <3>3 DEF Places
  <2>. QED  BY <2>1, <2>2
<1>2. CASE ReadScore(p)
  <2>1. CASE Leave(p)
    BY <2>1, LeaveMoves
  <2>2. CASE ~ Leave(p)
    <3> DEFINE r == [seen[p] EXCEPT !.score = score]
    <3>1. /\ Goto(p, "options") /\ Saw(p, r) /\ pc[p] = "scores"
          /\ score = seen[p].model /\ score \in Models \cup {Absent}
      BY <1>2, <2>2 DEF ReadScore, TypeOK
    <3>2. /\ r \in Reads /\ r.score = score
          /\ r.model = seen[p].model /\ r.explanation = seen[p].explanation
      BY <1>0, <3>1 DEF Reads
    <3>3. Moves(p, "options", r) /\ Read("options", r)
      BY <1>0, <3>1, <3>2 DEF Goto, Saw, Moves, Read
    <3>. QED  BY <3>2, <3>3 DEF Places
  <2>. QED  BY <2>1, <2>2
<1>3. CASE LoadOptions(p)
  <2> DEFINE r == [seen[p] EXCEPT !.options = config.options]
  <2>1. Goto(p, "hash") /\ Saw(p, r) /\ pc[p] = "options"
    BY <1>3 DEF LoadOptions
  <2>2. config.options \in Options
    BY DEF TypeOK, Configurations
  <2>3. /\ r \in Reads /\ r.options \in Options /\ r.score = seen[p].score
        /\ r.model = seen[p].model /\ r.explanation = seen[p].explanation
    BY <1>0, <2>2 DEF Reads
  <2>4. Moves(p, "hash", r) /\ Read("hash", r)
    BY <1>0, <2>1, <2>3 DEF Goto, Saw, Moves, Read
  <2>. QED  BY <2>3, <2>4 DEF Places
<1>4. CASE CheckHash(p)
  <2>1. CASE Leave(p)
    BY <2>1, LeaveMoves
  <2>2. CASE Goto(p, "serving") /\ UNCHANGED seen
    <3>1. Read("serving", seen[p])
      BY <1>0, <1>4 DEF Read, CheckHash
    <3>. QED  BY <2>2, <3>1, GotoMoves DEF Places
  <2>. QED  BY <1>4, <2>1, <2>2 DEF CheckHash
<1>. QED  BY <1>1, <1>2, <1>3, <1>4 DEF Load

LEMMA StepMoves ==
  ASSUME TypeOK, ReadInv, NEW p \in Runs, Step(p)
  PROVE  \E l \in Places, r \in Reads : Moves(p, l, r) /\ Read(l, r)
<1>1. CASE Stop(p)
  BY <1>1, LeaveMoves DEF Stop
<1>. QED  BY <1>1, TrainMoves, CalibrateMoves, ReadChainMoves, ExplainMoves,
             LoadMoves DEF Step

\* The other processes stay where they are, and so does the configuration.
LEMMA Frame ==
  ASSUME TypeOK, ReadInv, NEW p \in Runs, Step(p)
  PROVE  /\ ReadInv'
         /\ pc' \in [Runs -> Places] /\ seen' \in [Runs -> Reads]
         /\ \A q \in Runs \ {p} : pc'[q] = pc[q] /\ seen'[q] = seen[q]
<1>1. PICK l \in Places, r \in Reads : Moves(p, l, r) /\ Read(l, r)
  BY StepMoves
<1>2. pc'[p] = l /\ seen'[p] = r
  BY <1>1 DEF Moves, TypeOK
<1>3. \A q \in Runs \ {p} : pc'[q] = pc[q] /\ seen'[q] = seen[q]
  BY <1>1 DEF Moves, TypeOK
<1>4. pc' \in [Runs -> Places] /\ seen' \in [Runs -> Reads]
  BY <1>1 DEF Moves, TypeOK
<1>. QED  BY <1>1, <1>2, <1>3, <1>4 DEF ReadInv

\* A step that writes no file.
LEMMA Quiet ==
  ASSUME NEW p \in Runs, Step(p)
  PROVE  \/ UNCHANGED <<results, config, files>>
         \/ WriteReports(p) \/ WriteManifest(p)
         \/ WriteCalibration(p) \/ WriteSelection(p)
         \/ WriteExplanation(p) \/ WriteScore(p)
<1>1. CASE Train(p)
  BY <1>1 DEF Train, Fit, FindRecord
<1>2. CASE Calibrate(p)
  BY <1>2 DEF Calibrate, ReadSettings, ReadCandidate, VerifyCandidate
<1>3. CASE ReadChain(p)
  BY <1>3 DEF ReadChain, ReadOptions, Start, ReadManifest, ReadCalibration, ReadSelection
<1>4. CASE Explain(p)
  BY <1>4 DEF Explain, ReadGain, HashOptions
<1>5. CASE Load(p)
  BY <1>5 DEF Load, ReadExplanation, ReadScore, LoadOptions, CheckHash
<1>6. CASE Stop(p)
  BY <1>6 DEF Stop
<1>. QED  BY <1>1, <1>2, <1>3, <1>4, <1>5, <1>6 DEF Step

LEMMA StepTypeOK ==
  ASSUME TypeOK, ReadInv, NEW p \in Runs, Step(p)
  PROVE  TypeOK'
<1>0. Read(pc[p], seen[p]) /\ seen[p] \in Reads
  BY DEF ReadInv, TypeOK
<1>1. pc' \in [Runs -> Places] /\ seen' \in [Runs -> Reads]
  BY Frame
<1>2. CASE WriteReports(p)
  <2>1. seen[p].model \in Models
    BY <1>0, <1>2 DEF Read, WriteReports
  <2>. QED  BY <1>1, <1>2, <2>1 DEF TypeOK, WriteReports, results, calibrated, explained
<1>3. CASE WriteManifest(p)
  <2>1. seen[p].model \in Models
    BY <1>0, <1>3 DEF Read, WriteManifest
  <2>. QED  BY <1>1, <1>3, <2>1 DEF TypeOK, WriteManifest, results, calibrated, explained
<1>4. CASE WriteCalibration(p)
  <2>1. Calibrated(p) \in Calibrations
    BY <1>0, <1>4 DEF Read, WriteCalibration, Calibrated, Calibrations
  <2>. QED  BY <1>1, <1>4, <2>1 DEF TypeOK, WriteCalibration, results, record, explained
<1>5. CASE WriteSelection(p)
  <2>1. Calibrated(p) \in Calibrations
    BY <1>0, <1>5 DEF Read, WriteSelection, Calibrated, Calibrations
  <2>. QED  BY <1>1, <1>5, <2>1 DEF TypeOK, WriteSelection, results, record, explained
<1>6. CASE WriteExplanation(p)
  <2>1. explanation' \in Explanations
    BY <1>0, <1>6 DEF Read, WriteExplanation
  <2>. QED  BY <1>1, <1>6, <2>1 DEF TypeOK, WriteExplanation, results, record, calibrated
<1>7. CASE WriteScore(p)
  <2>1. score' \in Models
    BY <1>0, <1>7 DEF Read, WriteScore
  <2>. QED  BY <1>1, <1>7, <2>1 DEF TypeOK, WriteScore, results, record, calibrated
<1>8. CASE UNCHANGED <<results, config, files>>
  BY <1>1, <1>8 DEF TypeOK, results, files, record, calibrated, explained
<1>. QED
  BY <1>2, <1>3, <1>4, <1>5, <1>6, <1>7, <1>8, Quiet DEF Step, Train, Calibrate, Explain

-----------------------------------------------------------------------------
(***************************************************************************)
(* What is explained or served was selected, however runs overlap.         *)
(***************************************************************************)

\* No step takes back a selection.
LEMMA SelectedGrows ==
  ASSUME TypeOK, NEW p \in Runs, Step(p), NEW m, WasSelected(m)
  PROVE  WasSelected(m)'
<1>1. selected \subseteq selected' /\ leads' = leads
  <2>1. CASE UNCHANGED <<results, config, files>>
    BY <2>1 DEF results, files, calibrated
  <2>. QED  BY <2>1, Quiet DEF WriteReports, WriteManifest, WriteCalibration,
               WriteSelection, WriteExplanation, WriteScore, calibrated, results
<1>. QED  BY <1>1 DEF WasSelected

LEMMA TrainStaysBefore ==
  ASSUME TypeOK, NEW p \in Runs, Train(p) \/ Calibrate(p) \/ Stop(p)
  PROVE  pc'[p] \notin PastSelection
<1>1. \A l \in Places : Goto(p, l) => pc'[p] = l
  BY DEF Goto, TypeOK
<1>2. Leave(p) => pc'[p] = "idle"
  BY DEF Leave, Goto, TypeOK
<1>3. CASE Train(p)
  BY <1>1, <1>2, <1>3
     DEF Train, Fit, FindRecord, WriteReports, WriteManifest, Places, PastSelection
<1>4. CASE Calibrate(p)
  BY <1>1, <1>2, <1>4
     DEF Calibrate, ReadSettings, ReadCandidate, VerifyCandidate, WriteCalibration,
         WriteSelection, Places, PastSelection
<1>5. CASE Stop(p)
  BY <1>2, <1>5 DEF Stop, PastSelection
<1>. QED  BY <1>3, <1>4, <1>5

LEMMA SelectionWasSelected ==
  ASSUME TypeOK, SelectionInv, selection \in leads
  PROVE  WasSelected(selection.model)
<1>1. selection # Absent
  BY AbsentAssumption DEF TypeOK
<1>. QED  BY <1>1 DEF SelectionInv, WasSelected

LEMMA ReadChainPast ==
  ASSUME TypeOK, SelectionInv, NEW p \in Runs, ReadChain(p), pc'[p] \in PastSelection
  PROVE  WasSelected(seen'[p].model)
<1>1. \A l \in Places : Goto(p, l) => pc'[p] = l
  BY DEF Goto, TypeOK
<1>2. Leave(p) => pc'[p] = "idle"
  BY DEF Leave, Goto, TypeOK
<1>3. ReadSelection(p) /\ ~ Leave(p)
  BY <1>1, <1>2 DEF ReadChain, ReadOptions, Start, ReadManifest, ReadCalibration,
                    ReadSelection, Places, PastSelection
<1>4. Accepts(p) /\ UNCHANGED seen /\ Explains(p)
  BY <1>1, <1>3 DEF ReadSelection, Places, PastSelection
<1>. QED  BY <1>4, SelectionWasSelected DEF Accepts

LEMMA ExplainPast ==
  ASSUME TypeOK, SelectionInv, NEW p \in Runs, Explain(p) \/ Load(p),
         pc'[p] \in PastSelection
  PROVE  WasSelected(seen'[p].model)
<1>1. ~ Leave(p)
  BY DEF Leave, Goto, TypeOK, PastSelection
<1>2. CASE pc[p] \in PastSelection
  <2>1. WasSelected(seen[p].model)
    BY <1>2 DEF SelectionInv
  <2>2. seen'[p].model = seen[p].model
    <3>1. seen[p] \in Reads /\ seen \in [Runs -> Reads]
      BY DEF TypeOK
    <3>2. CASE UNCHANGED seen
      BY <3>2
    <3>3. CASE ReadGain(p)
      BY <3>1, <3>3, <1>1 DEF ReadGain, Saw, Reads
    <3>0. CASE HashOptions(p)
      BY <3>1, <3>0 DEF HashOptions, Saw, Reads
    <3>4. CASE ReadScore(p)
      BY <3>1, <3>4, <1>1 DEF ReadScore, Saw, Reads
    <3>5. CASE LoadOptions(p)
      BY <3>1, <3>5, <1>1 DEF LoadOptions, Saw, Reads
    <3>6. ~ ReadExplanation(p)
      BY <1>2 DEF ReadExplanation, PastSelection
    <3>. QED  BY <3>0, <3>2, <3>3, <3>4, <3>5, <3>6, <1>1
                 DEF Explain, Load, WriteExplanation, WriteScore, CheckHash
  <2>. QED  BY <2>1, <2>2
<1>3. CASE pc[p] \notin PastSelection
  <2>1. ReadExplanation(p)
    BY <1>3 DEF Explain, Load, ReadGain, HashOptions, WriteExplanation, WriteScore,
                ReadScore, LoadOptions, CheckHash, PastSelection
  <2>2. /\ explanation # Absent /\ explanation.model = seen[p].model
        /\ Saw(p, [seen[p] EXCEPT !.explanation = explanation])
    BY <1>1, <2>1 DEF ReadExplanation
  <2>3. seen'[p].model = seen[p].model
    BY <2>2 DEF Saw, TypeOK, Reads
  <2>. QED  BY <2>2, <2>3 DEF SelectionInv
<1>. QED  BY <1>2, <1>3

LEMMA StepSelectionInv ==
  ASSUME TypeOK, ReadInv, SelectionInv, NEW p \in Runs, Step(p)
  PROVE  SelectionInv'
<1>1. \A m : WasSelected(m) => WasSelected(m)'
  BY SelectedGrows
<1>2. selection' # Absent => selection' \in selected'
  <2>1. CASE UNCHANGED <<results, config, files>>
    BY <2>1 DEF SelectionInv, files, calibrated
  <2>. QED  BY <2>1, Quiet DEF SelectionInv, WriteReports, WriteManifest,
               WriteCalibration, WriteSelection, WriteExplanation, WriteScore, calibrated
<1>3. explanation' # Absent => WasSelected(explanation'.model)
  <2>1. CASE UNCHANGED <<results, config, files>>
    BY <2>1 DEF SelectionInv, files, explained
  <2>2. CASE WriteExplanation(p)
    <3>1. explanation'.model = seen[p].model /\ pc[p] \in PastSelection
      BY <2>2 DEF WriteExplanation, ReadInv, Read, PastSelection
    <3>. QED  BY <3>1 DEF SelectionInv
  <2>. QED  BY <2>1, <2>2, Quiet DEF SelectionInv, WriteReports, WriteManifest,
               WriteCalibration, WriteSelection, WriteScore, explained
<1>4. pc'[p] \in PastSelection => WasSelected(seen'[p].model)
  BY TrainStaysBefore, ReadChainPast, ExplainPast DEF Step
<1>5. \A q \in Runs : pc'[q] \in PastSelection => WasSelected(seen'[q].model)
  BY <1>4, Frame DEF SelectionInv
<1>. QED  BY <1>1, <1>2, <1>3, <1>5 DEF SelectionInv

-----------------------------------------------------------------------------
(***************************************************************************)
(* One run at a time.                                                      *)
(***************************************************************************)

Alone(p) == \A q \in Runs \ {p} : ~ Busy(q)

\* A run that reads or writes is the only one; a service may stop beside it.
LEMMA StepAlone ==
  ASSUME TypeOK, OneAtATime, Exclusive, NEW p \in Runs, Step(p), ~ Stop(p)
  PROVE  Alone(p)
<1>1. CASE Busy(p)
  BY <1>1 DEF Exclusive, Alone
<1>2. CASE ~ Busy(p)
  <2>1. MayAct
    BY <1>2 DEF Busy, Step, Train, Fit, FindRecord, WriteReports, WriteManifest,
       Calibrate, ReadSettings, ReadCandidate, VerifyCandidate, WriteCalibration,
       WriteSelection, ReadChain, ReadOptions, Start, ReadManifest, ReadCalibration,
       ReadSelection, Explain, ReadGain, HashOptions, WriteExplanation, WriteScore,
       Load, ReadExplanation, ReadScore, LoadOptions, CheckHash
  <2>. QED  BY <2>1 DEF MayAct, Alone
<1>. QED  BY <1>1, <1>2

LEMMA StopMoves ==
  ASSUME TypeOK, NEW p \in Runs, Stop(p)
  PROVE  pc'[p] = "idle" /\ UNCHANGED <<results, config, files>>
BY DEF Stop, Leave, Goto, TypeOK

LEMMA StepExclusive ==
  ASSUME TypeOK, ReadInv, OneAtATime, Exclusive, NEW p \in Runs, Step(p)
  PROVE  Exclusive'
<1>1. \A q \in Runs \ {p} : Busy(q)' => Busy(q)
  BY Frame DEF Busy
<1>2. CASE Stop(p)
  <2>1. ~ Busy(p)'
    BY <1>2, StopMoves DEF Busy
  <2>. QED  BY <1>1, <2>1 DEF Exclusive
<1>3. CASE ~ Stop(p)
  BY <1>1, <1>3, StepAlone DEF Alone, Exclusive
<1>. QED  BY <1>2, <1>3

\* What RecordInv says of the run p.
RecordOf(p) ==
  /\ pc[p] \in {"report", "record"} => manifest = Absent
  /\ pc[p] = "record" => reports = seen[p].model
  /\ pc[p] \in {"calibration", "selection", "gain"} => manifest = seen[p].model
  /\ pc[p] = "explained" => seen[p].gain = seen[p].model
  /\ pc[p] = "hashed" => seen[p].explanation.gain = seen[p].explanation.model

LEMMA RestRecordOf ==
  ASSUME NEW q \in Runs, ~ Busy(q)
  PROVE  RecordOf(q)
BY DEF Busy, RecordOf

\* The record and the run that steps.
LEMMA StepRecordOf ==
  ASSUME TypeOK, ReadInv, manifest # Absent => reports = manifest,
         NEW p \in Runs, RecordOf(p), Step(p)
  PROVE  /\ RecordOf(p)'
         /\ manifest' # Absent => reports' = manifest'
<1>0. /\ \A l \in Places : Goto(p, l) => pc'[p] = l
      /\ Leave(p) => pc'[p] = "idle"
      /\ \A r \in Reads : Saw(p, r) => seen'[p] = r
      /\ seen[p] \in Reads /\ Read(pc[p], seen[p])
  BY DEF Leave, Goto, Saw, TypeOK, ReadInv
<1>1. pc'[p] = "idle" => RecordOf(p)'
  BY DEF RecordOf
<1>2. CASE UNCHANGED <<results, config, files>>
  <2>1. reports' = reports /\ manifest' = manifest
    BY <1>2 DEF files, record
  <2>2. CASE Train(p)
    BY <1>0, <1>1, <2>1, <2>2 DEF Train, Fit, FindRecord, WriteReports, WriteManifest,
       RecordOf, Places
  <2>3. CASE Calibrate(p)
    BY <1>0, <1>1, <2>1, <2>3 DEF Calibrate, ReadSettings, ReadCandidate,
       VerifyCandidate, WriteCalibration, WriteSelection, RecordOf, Places
  <2>4. CASE ReadChain(p)
    <3>1. CASE ReadOptions(p)
      BY <1>0, <2>1, <3>1 DEF ReadOptions, RecordOf, Places
    <3>2. CASE Start(p)
      BY <1>0, <2>1, <3>2 DEF Start, RecordOf, Places
    <3>3. CASE ReadManifest(p)
      <4>1. CASE ~ Leave(p)
        <5>1. pc'[p] = "calibration" /\ Saw(p, [seen[p] EXCEPT !.model = manifest])
          BY <1>0, <3>3, <4>1 DEF ReadManifest, Places
        <5>2. seen'[p].model = manifest
          BY <1>0, <5>1 DEF Saw, TypeOK, Reads
        <5>. QED  BY <2>1, <5>1, <5>2 DEF RecordOf
      <4>. QED  BY <1>0, <1>1, <2>1, <4>1
    <3>4. CASE ReadCalibration(p)
      BY <1>0, <1>1, <2>1, <3>4 DEF ReadCalibration, RecordOf, Places
    <3>5. CASE ReadSelection(p)
      BY <1>0, <1>1, <2>1, <3>5 DEF ReadSelection, RecordOf, Places
    <3>. QED  BY <2>4, <3>1, <3>2, <3>3, <3>4, <3>5 DEF ReadChain
  <2>5. CASE Explain(p)
    <3>1. CASE ReadGain(p) /\ ~ Leave(p)
      <4>1. /\ pc'[p] = "explained" /\ pc[p] = "gain" /\ reports # Absent
            /\ Saw(p, [seen[p] EXCEPT !.gain = reports])
        BY <1>0, <3>1 DEF ReadGain, Places
      <4>2. seen'[p].gain = reports /\ seen'[p].model = seen[p].model
        BY <1>0, <4>1 DEF Saw, TypeOK, Reads
      <4>3. seen[p].model \in Models /\ manifest = seen[p].model
        BY <1>0, <4>1 DEF Read, RecordOf
      <4>4. reports = seen[p].model
        BY <4>3, AbsentAssumption
      <4>. QED  BY <2>1, <4>1, <4>2, <4>4 DEF RecordOf
    <3>2. CASE HashOptions(p)
      <4>1. pc'[p] = "hashed" /\ pc[p] = "explained"
        BY <1>0, <3>2 DEF HashOptions, Places
      <4>2. /\ seen'[p].explanation.gain = seen[p].gain
            /\ seen'[p].explanation.model = seen[p].model
        BY <1>0, <3>2 DEF HashOptions, Saw, TypeOK, Reads
      <4>. QED  BY <2>1, <4>1, <4>2 DEF RecordOf
    <3>. QED  BY <1>0, <1>1, <2>1, <2>5, <3>1, <3>2 DEF Explain, WriteExplanation,
         WriteScore, RecordOf, Places
  <2>6. CASE Load(p)
    <3>1. Load(p) => pc'[p] \in {"idle", "scores", "options", "hash", "serving"}
      BY <1>0 DEF Load, ReadExplanation, ReadScore, LoadOptions, CheckHash, Places
    <3>. QED  BY <2>1, <2>6, <3>1 DEF RecordOf
  <2>7. CASE Stop(p)
    BY <1>0, <1>1, <2>1, <2>7 DEF Stop
  <2>. QED  BY <2>1, <2>2, <2>3, <2>4, <2>5, <2>6, <2>7 DEF Step
<1>3. CASE WriteReports(p)
  BY <1>0, <1>3 DEF WriteReports, RecordOf, Places
<1>4. CASE WriteManifest(p)
  BY <1>0, <1>1, <1>4 DEF WriteManifest, RecordOf
<1>5. CASE WriteCalibration(p) \/ WriteExplanation(p)
  BY <1>0, <1>5 DEF WriteCalibration, WriteExplanation, RecordOf, Places, record
<1>6. CASE WriteSelection(p) \/ WriteScore(p)
  BY <1>0, <1>1, <1>6 DEF WriteSelection, WriteScore, record
<1>. QED  BY <1>2, <1>3, <1>4, <1>5, <1>6, Quiet

LEMMA StepRecordInv ==
  ASSUME TypeOK, ReadInv, OneAtATime, Exclusive, RecordInv, NEW p \in Runs, Step(p)
  PROVE  RecordInv'
<1>1. /\ RecordOf(p)'
      /\ manifest' # Absent => reports' = manifest'
  BY StepRecordOf DEF RecordInv, RecordOf
<1>2. \A q \in Runs \ {p} : RecordOf(q)'
  <2> SUFFICES ASSUME NEW q \in Runs \ {p} PROVE RecordOf(q)'
    OBVIOUS
  <2>1. pc'[q] = pc[q] /\ seen'[q] = seen[q]
    BY Frame
  <2>2. CASE Stop(p)
    <3>1. reports' = reports /\ manifest' = manifest
      BY <2>2 DEF Stop, files, record
    <3>. QED  BY <2>1, <3>1 DEF RecordInv, RecordOf
  <2>3. CASE ~ Stop(p)
    BY <2>1, <2>3, StepAlone DEF Alone, Busy, RecordOf
  <2>. QED  BY <2>2, <2>3
<1>. QED  BY <1>1, <1>2 DEF RecordInv, RecordOf

\* What ConfigInv says of the run p.
ConfigOf(p) ==
  /\ HasOptions(p) => Fresh(p)
  /\ pc[p] \in {"hashed", "scores", "options", "hash", "serving"}
       => Honest(seen[p].explanation)
  /\ pc[p] = "serving" => seen[p].edited \/ seen[p].explanation.hash = seen[p].options

\* The configuration and the run that steps.
LEMMA StepConfigOf ==
  ASSUME TypeOK, ReadInv, ConfigInv, config' = config, NEW p \in Runs, Step(p)
  PROVE  ConfigOf(p)'
<1>0. /\ \A l \in Places : Goto(p, l) => pc'[p] = l
      /\ Leave(p) => pc'[p] = "idle"
      /\ seen[p] \in Reads /\ seen \in [Runs -> Reads]
  BY DEF Leave, Goto, TypeOK
<1>1. pc'[p] = "idle" => ConfigOf(p)'
  BY DEF ConfigOf, HasOptions
<1>2. ConfigOf(p)
  BY DEF ConfigInv, ConfigOf
<1>3. CASE Train(p) \/ Calibrate(p)
  <2>1. pc'[p] \in {"idle", "fitted", "report", "record", "settings", "candidate",
                    "calibrated", "select"}
    BY <1>0, <1>3 DEF Train, Fit, FindRecord, WriteReports, WriteManifest, Calibrate,
       ReadSettings, ReadCandidate, VerifyCandidate, WriteCalibration, WriteSelection, Places
  <2>. QED  BY <2>1 DEF ConfigOf, HasOptions
<1>4. CASE ReadChain(p)
  <2>1. CASE ReadOptions(p)
    <3>1. pc'[p] = "manifest" /\ seen'[p].options = config.options
      BY <1>0, <2>1 DEF ReadOptions, Saw, Places, Nothing
    <3>. QED  BY <3>1 DEF ConfigOf, Fresh
  <2>2. CASE Start(p)
    <3>1. pc'[p] = "manifest" /\ seen'[p].options = Absent
      BY <1>0, <2>2 DEF Start, Saw, Places, Nothing
    <3>. QED  BY <3>1 DEF ConfigOf, HasOptions, Explains
  <2>3. CASE ReadManifest(p) /\ ~ Leave(p)
    <3>1. /\ pc'[p] = "calibration" /\ pc[p] = "manifest"
          /\ seen'[p].options = seen[p].options /\ seen'[p].edited = seen[p].edited
      BY <1>0, <2>3 DEF ReadManifest, Saw, Places, Reads
    <3>. QED  BY <1>2, <3>1 DEF ConfigOf, HasOptions, Explains, Fresh
  <2>4. CASE (ReadCalibration(p) \/ ReadSelection(p)) /\ ~ Leave(p)
    <3>1. /\ pc'[p] \in {"selection", "gain", "explanation"}
          /\ pc[p] \in {"calibration", "selection"} /\ UNCHANGED seen
      BY <1>0, <2>4 DEF ReadCalibration, ReadSelection, Places
    <3>. QED  BY <1>2, <3>1 DEF ConfigOf, HasOptions, Explains, Fresh
  <2>. QED  BY <1>0, <1>1, <1>4, <2>1, <2>2, <2>3, <2>4 DEF ReadChain
<1>5. CASE Explain(p)
  <2>1. CASE ReadGain(p) /\ ~ Leave(p)
    <3>1. /\ pc'[p] = "explained" /\ pc[p] = "gain"
          /\ seen'[p].options = seen[p].options /\ seen'[p].edited = seen[p].edited
      BY <1>0, <2>1 DEF ReadGain, Saw, Places, Reads
    <3>. QED  BY <1>2, <3>1 DEF ConfigOf, HasOptions, Explains, Fresh
  <2>2. CASE HashOptions(p)
    <3>1. pc'[p] = "hashed" /\ pc[p] = "explained"
      BY <1>0, <2>2 DEF HashOptions, Places
    <3>2. seen'[p].explanation = [model |-> seen[p].model, options |-> seen[p].options,
                                  hash |-> config.options, gain |-> seen[p].gain,
                                  edited |-> seen[p].edited]
      BY <1>0, <2>2 DEF HashOptions, Saw, Reads
    <3>3. Fresh(p)
      <4>1. seen[p].options \in Options
        BY <3>1 DEF ReadInv, Read
      <4>. QED  BY <1>2, <3>1, <4>1, AbsentAssumption DEF ConfigOf, HasOptions, Explains
    <3>4. Honest(seen'[p].explanation)
      BY <3>2, <3>3 DEF Honest, Fresh
    <3>. QED  BY <3>1, <3>4 DEF ConfigOf, HasOptions
  <2>3. CASE WriteExplanation(p)
    <3>1. pc'[p] = "score"
      BY <1>0, <2>3 DEF WriteExplanation, Places
    <3>. QED  BY <3>1 DEF ConfigOf, HasOptions
  <2>. QED  BY <1>0, <1>1, <1>5, <2>1, <2>2, <2>3 DEF Explain, WriteScore
<1>6. CASE Load(p)
  <2>1. CASE ReadExplanation(p) /\ ~ Leave(p)
    <3>1. /\ pc'[p] = "scores" /\ seen'[p].explanation = explanation
          /\ explanation # Absent
      BY <1>0, <2>1 DEF ReadExplanation, Saw, Places, Reads
    <3>. QED  BY <3>1 DEF ConfigInv, ConfigOf, HasOptions
  <2>2. CASE ReadScore(p) /\ ~ Leave(p)
    <3>1. /\ pc'[p] = "options" /\ pc[p] = "scores"
          /\ seen'[p].explanation = seen[p].explanation
      BY <1>0, <2>2 DEF ReadScore, Saw, Places, Reads
    <3>. QED  BY <1>2, <3>1 DEF ConfigOf, HasOptions
  <2>3. CASE LoadOptions(p)
    <3>1. /\ pc'[p] = "hash" /\ pc[p] = "options" /\ seen'[p].options = config.options
          /\ seen'[p].explanation = seen[p].explanation
      BY <1>0, <2>3 DEF LoadOptions, Saw, Places, Reads
    <3>. QED  BY <1>2, <3>1 DEF ConfigOf, Fresh
  <2>4. CASE CheckHash(p) /\ ~ Leave(p)
    <3>1. /\ pc'[p] = "serving" /\ pc[p] = "hash" /\ UNCHANGED seen
          /\ seen[p].explanation.hash = config.options
      BY <1>0, <2>4 DEF CheckHash, Places
    <3>. QED  BY <1>2, <3>1 DEF ConfigOf, HasOptions, Fresh
  <2>. QED  BY <1>0, <1>1, <1>6, <2>1, <2>2, <2>3, <2>4 DEF Load
<1>7. CASE Stop(p)
  BY <1>1, <1>7, StopMoves
<1>. QED  BY <1>3, <1>4, <1>5, <1>6, <1>7 DEF Step

LEMMA StepConfigInv ==
  ASSUME TypeOK, ReadInv, ConfigInv, NEW p \in Runs, Step(p)
  PROVE  ConfigInv'
<1>1. config' = config
  BY Quiet DEF WriteReports, WriteManifest, WriteCalibration, WriteSelection,
               WriteExplanation, WriteScore
<1>2. ConfigOf(p)'
  BY <1>1, StepConfigOf
<1>3. \A q \in Runs \ {p} : ConfigOf(q)'
  BY <1>1, Frame DEF ConfigInv, ConfigOf, HasOptions, Explains, Fresh
<1>4. explanation' # Absent => Honest(explanation')
  <2>1. CASE WriteExplanation(p)
    BY <2>1 DEF WriteExplanation, ConfigInv
  <2>2. CASE UNCHANGED <<results, config, files>>
    BY <2>2 DEF ConfigInv, files, explained
  <2>. QED  BY <2>1, <2>2, Quiet DEF ConfigInv, WriteReports, WriteManifest,
               WriteCalibration, WriteSelection, WriteScore, explained
<1>. QED  BY <1>2, <1>3, <1>4 DEF ConfigInv, ConfigOf

LEMMA StepGain ==
  ASSUME RecordInv, GainIsOfTheModel, NEW p \in Runs, Step(p)
  PROVE  GainIsOfTheModel'
<1>1. CASE WriteExplanation(p)
  BY <1>1 DEF WriteExplanation, RecordInv, GainIsOfTheModel
<1>2. CASE UNCHANGED <<results, config, files>>
  BY <1>2 DEF GainIsOfTheModel, files, explained
<1>. QED  BY <1>1, <1>2, Quiet DEF GainIsOfTheModel, WriteReports, WriteManifest,
             WriteCalibration, WriteSelection, WriteScore, explained

-----------------------------------------------------------------------------
(***************************************************************************)
(* The invariant.                                                          *)
(***************************************************************************)

LEMMA InitIInv == Init => IInv
<1> SUFFICES ASSUME Init PROVE IInv
  OBVIOUS
<1>1. seen \in [Runs -> Reads]
  BY NothingType DEF Init
<1>2. identity \subseteq Calibrations /\ leads \subseteq identity
  BY DEF Init
<1>3. TypeOK
  BY <1>1, <1>2 DEF Init, TypeOK, Places
<1>4. ReadInv /\ SelectionInv
  BY DEF Init, ReadInv, Read, SelectionInv, PastSelection
<1>5. ConfigInv
  BY DEF Init, ConfigInv, HasOptions
<1>6. Sequential
  BY DEF Init, Sequential, Exclusive, Busy, RecordInv, GainIsOfTheModel
<1>. QED  BY <1>3, <1>4, <1>5, <1>6 DEF IInv

LEMMA StepIInv ==
  ASSUME IInv, NEW p \in Runs, Step(p)
  PROVE  IInv'
<1>1. TypeOK' /\ ReadInv' /\ SelectionInv' /\ ConfigInv'
  BY StepTypeOK, Frame, StepSelectionInv, StepConfigInv DEF IInv
<1>2. ASSUME OneAtATime PROVE Sequential'
  BY <1>2, StepExclusive, StepRecordInv, StepGain DEF IInv, Sequential
<1>. QED  BY <1>1, <1>2 DEF IInv

\* An edit leaves the runs as they are, but for the note that there was one.
LEMMA ConfigureSeen ==
  ASSUME TypeOK, Configure, NEW p \in Runs
  PROVE  /\ seen'[p] \in Reads
         /\ seen'[p].model = seen[p].model /\ seen'[p].settings = seen[p].settings
         /\ seen'[p].options = seen[p].options /\ seen'[p].gain = seen[p].gain
         /\ seen'[p].explanation = seen[p].explanation
         /\ seen'[p].score = seen[p].score
         /\ seen[p].edited => seen'[p].edited
         /\ HasOptions(p) => seen'[p].edited \/ config'.options = config.options
<1>1. seen[p] \in Reads
  BY DEF TypeOK
<1>2. CASE HasOptions(p) /\ config'.options # config.options
  <2>1. seen'[p] = [seen[p] EXCEPT !.edited = TRUE]
    BY <1>2 DEF Configure
  <2>. QED  BY <1>1, <2>1 DEF Reads
<1>3. CASE ~ (HasOptions(p) /\ config'.options # config.options)
  <2>1. seen'[p] = seen[p]
    BY <1>3 DEF Configure
  <2>. QED  BY <1>1, <1>3, <2>1
<1>. QED  BY <1>2, <1>3

LEMMA ConfigureIInv ==
  ASSUME IInv, Configure
  PROVE  IInv'
<1>0. TypeOK /\ ReadInv /\ SelectionInv /\ ConfigInv
  BY DEF IInv
<1>1. UNCHANGED <<results, files, pc>> /\ config' \in Configurations
  BY DEF Configure
<1>2. TypeOK'
  <2>1. seen' \in [Runs -> Reads]
    BY <1>0, ConfigureSeen DEF Configure
  <2>. QED  BY <1>0, <1>1, <2>1 DEF TypeOK, results, files, record, calibrated, explained
<1>3. ReadInv'
  BY <1>0, <1>1, ConfigureSeen DEF ReadInv, Read
<1>4. SelectionInv'
  BY <1>0, <1>1, ConfigureSeen DEF SelectionInv, WasSelected, results, files, calibrated,
     explained
<1>5. ConfigInv'
  <2>1. \A p \in Runs : HasOptions(p)' => HasOptions(p)
    BY <1>0, <1>1, ConfigureSeen DEF HasOptions, Explains
  <2>2. \A p \in Runs : HasOptions(p)' => Fresh(p)'
    BY <1>0, <2>1, ConfigureSeen DEF ConfigInv, Fresh
  <2>3. explanation' = explanation
    BY <1>1 DEF files, explained
  <2>. QED  BY <1>0, <1>1, <2>2, <2>3, ConfigureSeen DEF ConfigInv
<1>6. ASSUME OneAtATime PROVE Sequential'
  BY <1>0, <1>1, <1>6, ConfigureSeen DEF IInv, Sequential, Exclusive, Busy, RecordInv,
     GainIsOfTheModel, files, record, explained
<1>. QED  BY <1>2, <1>3, <1>4, <1>5, <1>6 DEF IInv

LEMMA RemoveRecordIInv ==
  ASSUME IInv, RemoveRecord
  PROVE  IInv'
<1>1. manifest' = Absent /\ UNCHANGED <<results, config, reports, calibrated, explained, pc, seen>>
  BY DEF RemoveRecord
<1>2. TypeOK'
  BY <1>1 DEF IInv, TypeOK, results, calibrated, explained
<1>3. ReadInv' /\ SelectionInv'
  BY <1>1 DEF IInv, ReadInv, SelectionInv, WasSelected, results, calibrated, explained
<1>4. ConfigInv'
  BY <1>1 DEF IInv, ConfigInv, HasOptions, Explains, Fresh, explained
<1>5. ASSUME OneAtATime PROVE Sequential'
  <2>1. \A p \in Runs : pc[p] \in {"idle", "serving"}
    BY <1>5 DEF RemoveRecord, MayAct, Busy
  <2>2. Exclusive' /\ GainIsOfTheModel'
    BY <1>1, <1>5 DEF IInv, Sequential, Exclusive, Busy, GainIsOfTheModel, explained
  <2>3. RecordInv'
    BY <1>1, <2>1 DEF RecordInv
  <2>. QED  BY <2>2, <2>3 DEF Sequential
<1>. QED  BY <1>2, <1>3, <1>4, <1>5 DEF IInv

LEMMA NextIInv == IInv /\ [Next]_vars => IInv'
<1> SUFFICES ASSUME IInv, [Next]_vars PROVE IInv'
  OBVIOUS
<1>1. ASSUME NEW p \in Runs, Step(p) PROVE IInv'
  BY <1>1, StepIInv
<1>2. CASE Configure \/ RemoveRecord
  BY <1>2, ConfigureIInv, RemoveRecordIInv
<1>3. CASE UNCHANGED vars
  <2>1. UNCHANGED <<identity, leads, config, reports, manifest, calibration, selection,
                    selected, explanation, score, pc, seen>>
    BY <1>3 DEF vars, results, files, record, calibrated, explained
  <2>. QED  BY <2>1 DEF IInv, TypeOK, ReadInv, SelectionInv, WasSelected, Sequential,
               Exclusive, Busy, RecordInv, ConfigInv, HasOptions, Explains, Fresh,
               GainIsOfTheModel
<1>. QED  BY <1>1, <1>2, <1>3 DEF Next, Step

LEMMA SpecIInv == Spec => []IInv
BY InitIInv, NextIInv, PTL DEF Spec

-----------------------------------------------------------------------------
(***************************************************************************)
(* Theorems.                                                               *)
(***************************************************************************)

\* The variables stay in their types.
THEOREM LineageTypeOK == Spec => []TypeOK
<1>1. IInv => TypeOK
  BY DEF IInv
<1>. QED  BY <1>1, SpecIInv, PTL

\* In any interleaving of any number of runs and edits, load_runtime accepts
\* only a model that a published calibration run selected.
THEOREM LineageServedWasSelected == Spec => []ServedWasSelected
<1>1. IInv => ServedWasSelected
  BY DEF IInv, SelectionInv, PastSelection, WasSelected, ServedWasSelected
<1>. QED  BY <1>1, SpecIInv, PTL

\* In any interleaving of any number of runs and edits, what load_runtime accepts
\* scores and explains one model, and with the values that its explanations were
\* checked with, unless there was an edit between the use of a file and its hash.
THEOREM LineageServedIsOneChain == Spec => []ServedIsOneChain
<1>1. IInv => ServedIsOneChain
  BY DEF IInv, ReadInv, Read, ConfigInv, Honest, ServedIsOneChain
<1>. QED  BY <1>1, SpecIInv, PTL

\* While runs wait for each other, the explanation manifest holds the
\* importances of the model it names.
THEOREM LineageGainIsOfTheModel == Spec => [](OneAtATime => GainIsOfTheModel)
<1>1. IInv => (OneAtATime => GainIsOfTheModel)
  BY DEF IInv, Sequential
<1>. QED  BY <1>1, SpecIInv, PTL

=============================================================================
