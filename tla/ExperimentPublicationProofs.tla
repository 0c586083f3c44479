-------------------- MODULE ExperimentPublicationProofs --------------------
(***************************************************************************)
(* Proofs about ExperimentPublication, for any number of runs and reports, *)
(* any models, contexts and outcomes.                                      *)
(***************************************************************************)
EXTENDS ExperimentPublication, TLAPS

Active(p) == pc[p] \notin Ended \cup {"fit"}
Cut(p) == pc[p] \in {"failed", "killed"}
ReportsUpTo(p, n) == \A i \in 1 .. n : reports[i] = computed[p].outcome

\* Runs wait for each other.
Exclusive == \A p, q \in Runs : Active(p) /\ Active(q) => p = q

\* Who got past saving has its model on disk.
SavedInv ==
  \A p \in Runs :
    pc[p] \in {"load"} \cup Saved \cup Succeeded => artifacts[Digest(p)] = "whole"

\* A torn artifact is being filled, or somebody was cut short.
TornInv ==
  \A d \in Models :
    artifacts[d] = Partial =>
      \E q \in Runs : (pc[q] = "fill" /\ Digest(q) = d) \/ Cut(q)

\* What a run has compared or written so far.
Progress(p) ==
  /\ pc[p] \in {"fit", "create", "fill", "load", "publish"} => next[p] = 1
  /\ pc[p] = "compare" =>
       /\ manifest # Absent
       /\ manifest.identity = computed[p].identity
       /\ ReportsUpTo(p, next[p] - 1)
  /\ pc[p] \in {"report", "table", "record"} => manifest = Absent
  /\ pc[p] = "report" => ReportsUpTo(p, next[p] - 1)
  /\ pc[p] \in {"table", "record"} => ReportsUpTo(p, Reports)
  /\ pc[p] = "record" /\ HasTable =>
       table = [outcome |-> computed[p].outcome, author |-> p]

\* What a run that has ended says.
Verdict(p) ==
  /\ pc[p] \in Succeeded =>
       /\ manifest # Absent
       /\ manifest.identity = computed[p].identity
       /\ ReportsUpTo(p, Reports)
  /\ pc[p] = "refused" =>
       \/ manifest # Absent /\ computed[manifest.author] # computed[p]
       \/ \E q \in Runs : Cut(q)

\* What holds when runs wait for each other.
Sequential ==
  /\ Exclusive
  /\ TornInv
  /\ \A p \in Runs : Progress(p) /\ Verdict(p)
  /\ RecordIsWhole

IInv ==
  /\ TypeOK
  /\ SavedInv
  /\ OneAtATime => Sequential

Step(p) == Saving(p) \/ Publishing(p) \/ Kill(p)

-----------------------------------------------------------------------------
(***************************************************************************)
(* Types.                                                                  *)
(***************************************************************************)

LEMMA Made ==
  ASSUME TypeOK, NEW a \in Authors
  PROVE  /\ computed[a].identity \in Identities
         /\ computed[a].identity.model \in Models
         /\ computed[a].outcome \in Outcomes
         /\ [identity |-> computed[a].identity, author |-> a] \in Records
         /\ [outcome |-> computed[a].outcome, author |-> a] \in Tables
<1>1. computed[a] \in Experiments
  BY DEF TypeOK
<1>2. computed[a].identity \in Identities /\ computed[a].outcome \in Outcomes
  BY <1>1 DEF Experiments
<1>3. computed[a].identity.model \in Models
  BY <1>2 DEF Identities
<1>. QED  BY <1>2, <1>3 DEF Records, Tables

LEMMA DigestType ==
  ASSUME TypeOK, NEW p \in Runs
  PROVE  Digest(p) \in Models /\ computed[p].outcome \in Outcomes
<1>1. p \in Authors
  BY DEF Authors
<1>. QED  BY <1>1, Made DEF Digest

LEMMA GotoType ==
  ASSUME TypeOK, NEW p \in Runs, NEW l \in Places, Goto(p, l)
  PROVE  pc' \in [Runs -> Places]
BY DEF TypeOK, Goto

LEMMA InitTypeOK == Init => TypeOK
<1> SUFFICES ASSUME Init PROVE TypeOK
  OBVIOUS
<1>1. computed \in [Authors -> Experiments]
  BY DEF Init
<1>2. Earlier \in Authors
  BY DEF Authors
<1>3. computed[Earlier].identity \in Identities /\ computed[Earlier].outcome \in Outcomes
  BY <1>1, <1>2 DEF Experiments
<1>4. /\ reports \in [1 .. Reports -> Outcomes \cup {Absent}]
      /\ table \in Tables \cup {Absent, Partial}
      /\ manifest \in Records \cup {Absent}
  <2>1. CASE NothingRecorded
    BY <2>1 DEF NothingRecorded
  <2>2. CASE RecordedEarlier
    BY <2>2, <1>2, <1>3 DEF RecordedEarlier, Tables, Records
  <2>. QED  BY <2>1, <2>2 DEF Init
<1>5. artifacts \in [Models -> {Absent, Partial, "whole"}]
  BY DEF Init
<1>6. pc \in [Runs -> Places]
  BY DEF Init, Places
<1>7. next \in [Runs -> 1 .. Reports + 1]
  BY ReportsAssumption DEF Init
<1>. QED  BY <1>1, <1>4, <1>5, <1>6, <1>7 DEF TypeOK

LEMMA StepTypeOK ==
  ASSUME TypeOK, NEW p \in Runs, Step(p)
  PROVE  TypeOK'
<1>0. /\ Digest(p) \in Models /\ computed[p].outcome \in Outcomes
      /\ p \in Authors
      /\ [identity |-> computed[p].identity, author |-> p] \in Records
      /\ [outcome |-> computed[p].outcome, author |-> p] \in Tables
  BY DigestType, Made DEF Authors
<1>1. \E l \in Places : Goto(p, l) \/ UNCHANGED pc
  <2>. "refused" \in Places /\ "load" \in Places /\ "create" \in Places
       /\ "fill" \in Places /\ "failed" \in Places /\ "killed" \in Places
       /\ "publish" \in Places /\ "compare" \in Places /\ "report" \in Places
       /\ "table" \in Places /\ "record" \in Places /\ "recorded" \in Places
       /\ "reproduced" \in Places
    BY DEF Places, Saved, Ended, Succeeded
  <2>1. CASE Saving(p)
    BY <2>1 DEF Saving, FindArtifact, CreateArtifact, FillArtifact, LoadArtifact
  <2>2. CASE FindManifest(p) \/ CompareReport(p) \/ CompareTable(p)
    BY <2>2 DEF FindManifest, CompareReport, CompareTable
  <2>3. CASE WriteReport(p) \/ OpenTable(p) \/ FillTable(p) \/ WriteManifest(p)
    BY <2>3 DEF WriteReport, OpenTable, FillTable, WriteManifest
  <2>4. CASE Kill(p)
    BY <2>4 DEF Kill
  <2>. QED  BY <2>1, <2>2, <2>3, <2>4 DEF Step, Publishing
<1>2. pc' \in [Runs -> Places]
  BY <1>1, GotoType DEF TypeOK
<1>3. computed' = computed
  BY DEF Step, Saving, Publishing, Kill, FindArtifact, CreateArtifact,
         FillArtifact, LoadArtifact, FindManifest, CompareReport, CompareTable,
         WriteReport, OpenTable, FillTable, WriteManifest
<1>4. artifacts' \in [Models -> {Absent, Partial, "whole"}]
  <2>1. CASE CreateArtifact(p) \/ FillArtifact(p)
    BY <2>1, <1>0 DEF CreateArtifact, FillArtifact, TypeOK
  <2>2. CASE ~ (CreateArtifact(p) \/ FillArtifact(p))
    BY <2>2 DEF Step, Saving, Publishing, Kill, FindArtifact,
         LoadArtifact, FindManifest, CompareReport, CompareTable,
         WriteReport, OpenTable, FillTable, WriteManifest, TypeOK
  <2>. QED  BY <2>1, <2>2
<1>5. reports' \in [1 .. Reports -> Outcomes \cup {Absent}]
  <2>1. CASE WriteReport(p)
    <3>1. next[p] \in 1 .. Reports \/ reports' = reports
      BY <2>1 DEF WriteReport, TypeOK
    <3>. QED  BY <2>1, <3>1, <1>0 DEF WriteReport, TypeOK
  <2>2. CASE ~ WriteReport(p)
    BY <2>2 DEF Step, Saving, Publishing, Kill, FindArtifact, CreateArtifact,
         FillArtifact, LoadArtifact, FindManifest, CompareReport, CompareTable,
         OpenTable, FillTable, WriteManifest, TypeOK, files
  <2>. QED  BY <2>1, <2>2
<1>6. table' \in Tables \cup {Absent, Partial}
  <2>1. CASE OpenTable(p) \/ FillTable(p)
    BY <2>1, <1>0 DEF OpenTable, FillTable, TypeOK
  <2>2. CASE ~ (OpenTable(p) \/ FillTable(p))
    BY <2>2 DEF Step, Saving, Publishing, Kill, FindArtifact, CreateArtifact,
         FillArtifact, LoadArtifact, FindManifest, CompareReport, CompareTable,
         WriteReport, WriteManifest, TypeOK, files
  <2>. QED  BY <2>1, <2>2
<1>7. manifest' \in Records \cup {Absent}
  <2>1. CASE WriteManifest(p)
    BY <2>1, <1>0 DEF WriteManifest, TypeOK
  <2>2. CASE ~ WriteManifest(p)
    BY <2>2 DEF Step, Saving, Publishing, Kill, FindArtifact, CreateArtifact,
         FillArtifact, LoadArtifact, FindManifest, CompareReport, CompareTable,
         WriteReport, OpenTable, FillTable, TypeOK, files
  <2>. QED  BY <2>1, <2>2
<1>8. next' \in [Runs -> 1 .. Reports + 1]
  <2>1. CASE CompareReport(p) \/ WriteReport(p)
    <3>1. next[p] \in 1 .. Reports
      BY <2>1, ReportsAssumption DEF CompareReport, WriteReport, TypeOK
    <3>2. next[p] + 1 \in 1 .. Reports + 1
      BY <3>1, ReportsAssumption
    <3>3. next' = next \/ next' = [next EXCEPT ![p] = next[p] + 1]
      BY <2>1 DEF CompareReport, WriteReport
    <3>. QED  BY <3>2, <3>3 DEF TypeOK
  <2>2. CASE ~ (CompareReport(p) \/ WriteReport(p))
    BY <2>2 DEF Step, Saving, Publishing, Kill, FindArtifact, CreateArtifact,
         FillArtifact, LoadArtifact, FindManifest, CompareTable,
         OpenTable, FillTable, WriteManifest, TypeOK
  <2>. QED  BY <2>1, <2>2
<1>9. computed \in [Authors -> Experiments]
  BY DEF TypeOK
<1>. QED  BY <1>2, <1>3, <1>4, <1>5, <1>6, <1>7, <1>8, <1>9 DEF TypeOK

-----------------------------------------------------------------------------
(***************************************************************************)
(* Artifacts, for any interleaving.                                        *)
(***************************************************************************)

\* No step touches a whole artifact.
LEMMA WholeStays ==
  ASSUME TypeOK, NEW p \in Runs, Step(p), NEW d \in Models, artifacts[d] = "whole"
  PROVE  artifacts'[d] = "whole"
<1>1. CASE CreateArtifact(p)
  <2>1. artifacts' = artifacts \/ (artifacts[Digest(p)] = Absent /\ Digest(p) # d)
    BY <1>1, NamesAssumption DEF CreateArtifact
  <2>. QED  BY <1>1, <2>1 DEF CreateArtifact, TypeOK
<1>2. CASE FillArtifact(p)
  BY <1>2 DEF FillArtifact, TypeOK
<1>3. CASE ~ (CreateArtifact(p) \/ FillArtifact(p))
  BY <1>3 DEF Step, Saving, Publishing, Kill, FindArtifact,
       LoadArtifact, FindManifest, CompareReport, CompareTable,
       WriteReport, OpenTable, FillTable, WriteManifest
<1>. QED  BY <1>1, <1>2, <1>3

\* What a step leaves alone: the experiments and the other runs.
LEMMA Frame ==
  ASSUME TypeOK, NEW p \in Runs, Step(p)
  PROVE  /\ computed' = computed
         /\ pc[p] \notin Ended
         /\ \A q \in Runs \ {p} : pc'[q] = pc[q] /\ next'[q] = next[q]
<1> USE DEF Goto, TypeOK
<1>1. CASE Saving(p)
  BY <1>1 DEF Saving, FindArtifact, CreateArtifact, FillArtifact, LoadArtifact,
     Ended, Succeeded
<1>2. CASE FindManifest(p) \/ CompareReport(p) \/ CompareTable(p)
  BY <1>2 DEF FindManifest, CompareReport, CompareTable, Ended, Succeeded
<1>3. CASE WriteReport(p) \/ OpenTable(p) \/ FillTable(p) \/ WriteManifest(p)
  BY <1>3 DEF WriteReport, OpenTable, FillTable, WriteManifest, Ended, Succeeded
<1>4. CASE Kill(p)
  BY <1>4 DEF Kill
<1>. QED  BY <1>1, <1>2, <1>3, <1>4 DEF Step, Publishing

LEMMA StepSavedInv ==
  ASSUME TypeOK, SavedInv, NEW p \in Runs, Step(p)
  PROVE  SavedInv'
<1> DEFINE Later == {"load"} \cup Saved \cup Succeeded
<1>0. /\ \A q \in Runs : Digest(q)' = Digest(q) /\ Digest(q) \in Models
      /\ \A q \in Runs \ {p} : pc'[q] = pc[q]
  BY Frame, DigestType DEF Digest
<1>1. ASSUME NEW q \in Runs, q # p, pc'[q] \in Later
      PROVE  artifacts'[Digest(q)] = "whole"
  BY <1>0, <1>1, WholeStays DEF SavedInv
<1>2. ASSUME pc'[p] \in Later
      PROVE  artifacts'[Digest(p)] = "whole"
  <2>1. CASE pc[p] \in Later
    BY <2>1, <1>0, WholeStays DEF SavedInv
  <2>2. CASE pc[p] \notin Later
    <3>1. Saving(p) \/ Kill(p)
      BY <2>2 DEF Step, Publishing, FindManifest, CompareReport, CompareTable,
         WriteReport, OpenTable, FillTable, WriteManifest, Saved
    <3>2. CASE FindArtifact(p)
      BY <3>2, <1>2 DEF FindArtifact, Goto, TypeOK, Saved, Succeeded
    <3>3. CASE CreateArtifact(p)
      BY <3>3, <1>2 DEF CreateArtifact, Goto, TypeOK, Saved, Succeeded
    <3>4. CASE FillArtifact(p)
      BY <3>4, <1>0, <1>2 DEF FillArtifact, Goto, TypeOK, Saved, Succeeded
    <3>5. CASE LoadArtifact(p)
      BY <3>5, <2>2 DEF LoadArtifact
    <3>6. CASE Kill(p)
      BY <3>6, <1>2 DEF Kill, Goto, TypeOK, Saved, Succeeded
    <3>. QED  BY <3>1, <3>2, <3>3, <3>4, <3>5, <3>6 DEF Saving
  <2>. QED  BY <2>1, <2>2
<1>. QED  BY <1>0, <1>1, <1>2 DEF SavedInv

-----------------------------------------------------------------------------
(***************************************************************************)
(* Runs that wait for each other.                                          *)
(***************************************************************************)

\* While one run takes a step the others have ended or not begun.
LEMMA Alone ==
  ASSUME TypeOK, OneAtATime, Exclusive, NEW p \in Runs, Step(p), NEW q \in Runs, q # p
  PROVE  pc[q] \in Ended \cup {"fit"}
<1>1. CASE pc[p] = "fit"
  <2>1. FindArtifact(p)
    BY <1>1 DEF Step, Saving, Publishing, Kill, CreateArtifact, FillArtifact,
       LoadArtifact, FindManifest, CompareReport, CompareTable,
       WriteReport, OpenTable, FillTable, WriteManifest
  <2>. QED  BY <2>1 DEF FindArtifact
<1>2. CASE pc[p] # "fit"
  BY <1>2, Frame DEF Exclusive, Active
<1>. QED  BY <1>1, <1>2

\* What is recorded is not written.
LEMMA RecordStays ==
  ASSUME TypeOK, Sequential, NEW p \in Runs, Step(p), manifest # Absent
  PROVE  UNCHANGED files
<1>1. pc[p] \notin {"report", "table", "record"}
  BY DEF Sequential, Progress
<1>. QED  BY <1>1 DEF files, Step, Saving, Publishing, Kill, FindArtifact,
  CreateArtifact, FillArtifact, LoadArtifact, FindManifest, CompareReport,
  CompareTable, WriteReport, OpenTable, FillTable, WriteManifest

LEMMA StepExclusive ==
  ASSUME TypeOK, OneAtATime, Exclusive, NEW p \in Runs, Step(p)
  PROVE  Exclusive'
<1>1. \A q \in Runs \ {p} : pc'[q] \in Ended \cup {"fit"}
  BY Alone, Frame
<1>. QED  BY <1>1 DEF Exclusive, Active

\* Who was cut short stays so.
LEMMA CutStays ==
  ASSUME TypeOK, NEW p \in Runs, Step(p), NEW q \in Runs, Cut(q)
  PROVE  Cut(q)'
<1>1. q # p
  BY Frame DEF Cut, Ended
<1>. QED  BY <1>1, Frame DEF Cut

LEMMA StepTornInv ==
  ASSUME TypeOK, TornInv, NEW p \in Runs, Step(p)
  PROVE  TornInv'
<1> SUFFICES ASSUME NEW d \in Models, artifacts'[d] = Partial
             PROVE  \E q \in Runs : (pc'[q] = "fill" /\ Digest(q)' = d) \/ Cut(q)'
  BY DEF TornInv
<1>1. CASE artifacts[d] = Partial
  <2>1. PICK q \in Runs : (pc[q] = "fill" /\ Digest(q) = d) \/ Cut(q)
    BY <1>1 DEF TornInv
  <2>2. CASE Cut(q)
    BY <2>2, CutStays
  <2>3. CASE pc[q] = "fill" /\ Digest(q) = d /\ q # p
    BY <2>3, Frame DEF Digest
  <2>4. CASE pc[p] = "fill" /\ Digest(p) = d
    <3>1. FillArtifact(p) \/ Kill(p)
      BY <2>4 DEF Step, Saving, Publishing, FindArtifact, CreateArtifact,
         LoadArtifact, FindManifest, CompareReport, CompareTable,
         WriteReport, OpenTable, FillTable, WriteManifest
    <3>2. CASE pc'[p] = "failed" \/ pc'[p] = "killed"
      BY <3>2 DEF Cut
    <3>3. CASE ~ (pc'[p] = "failed" \/ pc'[p] = "killed")
      <4>1. artifacts' = [artifacts EXCEPT ![d] = "whole"]
        BY <2>4, <3>1, <3>3 DEF FillArtifact, Kill, Goto, TypeOK
      <4>. QED  BY <4>1, NamesAssumption DEF TypeOK
    <3>. QED  BY <3>1, <3>2, <3>3
  <2>. QED  BY <2>1, <2>2, <2>3, <2>4
<1>2. CASE artifacts[d] # Partial
  <2>1. CASE CreateArtifact(p)
    <3>1. Digest(p) = d /\ pc'[p] = "fill"
      BY <2>1, <1>2, DigestType DEF CreateArtifact, Goto, TypeOK
    <3>. QED  BY <3>1, Frame DEF Digest
  <2>2. CASE FillArtifact(p)
    BY <2>2, <1>2, NamesAssumption DEF FillArtifact, TypeOK
  <2>3. CASE ~ (CreateArtifact(p) \/ FillArtifact(p))
    BY <2>3, <1>2 DEF Step, Saving, Publishing, Kill, FindArtifact,
       LoadArtifact, FindManifest, CompareReport, CompareTable,
       WriteReport, OpenTable, FillTable, WriteManifest
  <2>. QED  BY <2>1, <2>2, <2>3
<1>. QED  BY <1>1, <1>2

\* The other runs: where there is a record it stays, and none is in the middle.
LEMMA StepOthers ==
  ASSUME TypeOK, OneAtATime, Sequential, NEW p \in Runs, Step(p),
         NEW q \in Runs, q # p
  PROVE  Progress(q)' /\ Verdict(q)'
<1>1. /\ computed' = computed
      /\ pc'[q] = pc[q]
      /\ next'[q] = next[q]
      /\ pc[q] \in Ended \cup {"fit"}
  BY Frame, Alone DEF Sequential
<1>2. Progress(q) /\ Verdict(q)
  BY DEF Sequential
<1>3. Progress(q)'
  BY <1>1, <1>2 DEF Progress, Ended, Succeeded
<1>4. ASSUME pc[q] \in Succeeded
      PROVE  /\ manifest' # Absent
             /\ manifest'.identity = computed[q].identity
             /\ ReportsUpTo(q, Reports)'
  <2>1. UNCHANGED files
    BY <1>2, <1>4, RecordStays DEF Verdict
  <2>. QED  BY <1>1, <1>2, <1>4, <2>1 DEF Verdict, files, ReportsUpTo
<1>5. ASSUME pc[q] = "refused"
      PROVE  \/ manifest' # Absent /\ computed[manifest'.author] # computed[q]
             \/ \E r \in Runs : Cut(r)'
  <2>1. CASE manifest # Absent /\ computed[manifest.author] # computed[q]
    BY <2>1, RecordStays DEF files
  <2>2. CASE \E r \in Runs : Cut(r)
    BY <2>2, CutStays
  <2>. QED  BY <1>2, <1>5, <2>1, <2>2 DEF Verdict
<1>. QED  BY <1>1, <1>3, <1>4, <1>5 DEF Verdict

\* A record and what it is compared with: a difference means another experiment.
LEMMA Differs ==
  ASSUME TypeOK, RecordIsWhole, NEW p \in Runs, manifest # Absent,
         \/ manifest.identity # computed[p].identity
         \/ \E i \in 1 .. Reports : reports[i] # computed[p].outcome
         \/ HasTable /\ ~ SameTable(p)
  PROVE  computed[manifest.author] # computed[p]
<1>1. manifest.author \in Authors
  BY DEF TypeOK, Records
<1>2. CASE HasTable /\ ~ SameTable(p)
  BY <1>1, <1>2 DEF RecordIsWhole, SameTable
<1>3. CASE ~ (HasTable /\ ~ SameTable(p))
  BY <1>3 DEF RecordIsWhole
<1>. QED  BY <1>2, <1>3

\* A run that is saving its model.
LEMMA StepSaving ==
  ASSUME TypeOK, SavedInv, OneAtATime, Sequential, NEW p \in Runs, Saving(p)
  PROVE  Progress(p)' /\ Verdict(p)'
<1>1. next[p] = 1 /\ next' = next /\ UNCHANGED files
  BY DEF Saving, FindArtifact, CreateArtifact, FillArtifact, LoadArtifact,
     Sequential, Progress
<1>2. pc'[p] \in {"create", "fill", "load", "publish", "refused", "failed"}
  BY DEF Saving, FindArtifact, CreateArtifact, FillArtifact, LoadArtifact,
     Goto, TypeOK
<1>3. ASSUME pc'[p] = "refused"
      PROVE  \E q \in Runs : Cut(q)'
  <2>1. Step(p) /\ Digest(p) \in Models
    BY DigestType DEF Step
  <2>2. artifacts[Digest(p)] = Partial /\ FindArtifact(p)
    <3>1. ~ LoadArtifact(p)
      BY <1>3 DEF LoadArtifact, SavedInv, Goto, TypeOK
    <3>. QED  BY <1>3, <3>1, NamesAssumption
       DEF Saving, FindArtifact, CreateArtifact, FillArtifact, Goto, TypeOK
  <2>3. PICK q \in Runs : pc[q] = "fill" \/ Cut(q)
    BY <2>1, <2>2 DEF Sequential, TornInv
  <2>4. Cut(q)
    BY <2>2, <2>3 DEF FindArtifact, Ended, Succeeded
  <2>. QED  BY <2>1, <2>4, CutStays
<1>. QED  BY <1>1, <1>2, <1>3 DEF Progress, Verdict, Succeeded

LEMMA StepFindManifest ==
  ASSUME TypeOK, Sequential, NEW p \in Runs, FindManifest(p)
  PROVE  Progress(p)' /\ Verdict(p)'
<1>1. /\ next[p] = 1 /\ next' = next
      /\ computed' = computed /\ UNCHANGED files
  BY DEF FindManifest, Sequential, Progress
<1>2. \/ manifest = Absent /\ pc'[p] = "report"
      \/ /\ manifest # Absent
         /\ manifest.identity = computed[p].identity
         /\ pc'[p] = "compare"
      \/ /\ manifest # Absent
         /\ computed[manifest.author] # computed[p]
         /\ pc'[p] = "refused"
  BY Differs DEF FindManifest, Goto, TypeOK, Sequential
<1>3. ReportsUpTo(p, next[p] - 1)'
  BY <1>1 DEF ReportsUpTo
<1>. QED  BY <1>1, <1>2, <1>3 DEF Progress, Verdict, Succeeded, files

\* One more report agrees.
LEMMA UpToNext ==
  ASSUME NEW p, NEW n \in Nat \ {0}, ReportsUpTo(p, n - 1),
         reports[n] = computed[p].outcome
  PROVE  ReportsUpTo(p, n)
BY DEF ReportsUpTo

LEMMA NextType ==
  ASSUME TypeOK, NEW p \in Runs
  PROVE  next[p] \in Nat \ {0} /\ next[p] <= Reports + 1
BY ReportsAssumption DEF TypeOK

LEMMA StepComparing ==
  ASSUME TypeOK, Sequential, NEW p \in Runs, CompareReport(p) \/ CompareTable(p)
  PROVE  Progress(p)' /\ Verdict(p)'
<1>1. /\ manifest # Absent
      /\ manifest.identity = computed[p].identity
      /\ ReportsUpTo(p, next[p] - 1)
      /\ RecordIsWhole
  BY DEF Sequential, Progress, CompareReport, CompareTable
<1>2. computed' = computed /\ UNCHANGED files
  BY DEF CompareReport, CompareTable
<1>3. CASE CompareReport(p) /\ reports[next[p]] = computed[p].outcome
  <2>1. pc'[p] = "compare" /\ next'[p] = next[p] + 1
    BY <1>3 DEF CompareReport, TypeOK
  <2>2. ReportsUpTo(p, next[p])
    BY <1>1, <1>3, UpToNext, NextType
  <2>3. ReportsUpTo(p, next[p] - 1)'
    BY <1>2, <2>1, <2>2, NextType DEF ReportsUpTo, files
  <2>. QED  BY <1>1, <1>2, <2>1, <2>3 DEF Progress, Verdict, Succeeded, files
<1>4. CASE CompareReport(p) /\ reports[next[p]] # computed[p].outcome
  <2>1. pc'[p] = "refused" /\ next[p] \in 1 .. Reports
    BY <1>4, NextType, ReportsAssumption DEF CompareReport, Goto, TypeOK
  <2>2. computed[manifest.author] # computed[p]
    BY <1>1, <1>4, <2>1, Differs
  <2>. QED  BY <1>1, <1>2, <2>1, <2>2 DEF Progress, Verdict, Succeeded, files
<1>5. CASE CompareTable(p) /\ (HasTable => SameTable(p))
  <2>1. pc'[p] = "reproduced"
    BY <1>5 DEF CompareTable, Goto, TypeOK
  <2>2. ReportsUpTo(p, Reports)
    BY <1>1, <1>5, NextType, ReportsAssumption DEF CompareTable, ReportsUpTo
  <2>. QED  BY <1>1, <1>2, <2>1, <2>2 DEF Progress, Verdict, files, ReportsUpTo
<1>6. CASE CompareTable(p) /\ ~ (HasTable => SameTable(p))
  <2>1. pc'[p] = "refused"
    BY <1>6 DEF CompareTable, Goto, TypeOK
  <2>2. computed[manifest.author] # computed[p]
    BY <1>1, <1>6, Differs
  <2>. QED  BY <1>1, <1>2, <2>1, <2>2 DEF Progress, Verdict, Succeeded, files
<1>. QED  BY <1>3, <1>4, <1>5, <1>6

LEMMA StepWriting ==
  ASSUME TypeOK, Sequential, NEW p \in Runs,
         WriteReport(p) \/ OpenTable(p) \/ FillTable(p) \/ WriteManifest(p)
  PROVE  Progress(p)' /\ Verdict(p)'
<1>1. Progress(p) /\ computed' = computed /\ manifest = Absent
  BY DEF Sequential, Progress, WriteReport, OpenTable, FillTable, WriteManifest
<1>2. CASE pc'[p] = "failed"
  BY <1>2 DEF Progress, Verdict, Succeeded
<1>3. CASE pc'[p] # "failed"
  <2>1. CASE WriteReport(p)
    <3>1. /\ reports' = [reports EXCEPT ![next[p]] = computed[p].outcome]
          /\ pc'[p] = "report" /\ next'[p] = next[p] + 1 /\ manifest' = manifest
      BY <1>3, <2>1 DEF WriteReport, Goto, TypeOK
    <3>2. next[p] \in 1 .. Reports
      BY <2>1, NextType, ReportsAssumption DEF WriteReport
    <3>3. \A i \in 1 .. next[p] : reports'[i] = computed[p].outcome
      <4>1. \A i \in 1 .. next[p] - 1 : reports[i] = computed[p].outcome
        BY <1>1, <2>1 DEF Progress, WriteReport, ReportsUpTo
      <4>. QED  BY <3>1, <3>2, <4>1, ReportsAssumption DEF TypeOK
    <3>4. ReportsUpTo(p, next[p] - 1)'
      BY <1>1, <3>1, <3>2, <3>3, ReportsAssumption DEF ReportsUpTo
    <3>. QED  BY <1>1, <3>1, <3>4 DEF Progress, Verdict, Succeeded
  <2>2. CASE OpenTable(p)
    <3>1. /\ reports' = reports /\ manifest' = manifest
          /\ \/ ~ HasTable /\ pc'[p] = "record"
             \/ pc'[p] = "table"
      BY <2>2 DEF OpenTable, Goto, TypeOK
    <3>2. ReportsUpTo(p, Reports)
      BY <1>1, <2>2, NextType, ReportsAssumption
         DEF OpenTable, Progress, ReportsUpTo
    <3>. QED  BY <1>1, <3>1, <3>2 DEF Progress, Verdict, Succeeded, ReportsUpTo
  <2>3. CASE FillTable(p)
    <3>1. /\ reports' = reports /\ manifest' = manifest
          /\ table' = [outcome |-> computed[p].outcome, author |-> p]
          /\ pc'[p] = "record"
      BY <1>3, <2>3 DEF FillTable, Goto, TypeOK
    <3>2. ReportsUpTo(p, Reports)
      BY <1>1, <2>3 DEF FillTable, Progress
    <3>. QED  BY <1>1, <3>1, <3>2 DEF Progress, Verdict, Succeeded, ReportsUpTo
  <2>4. CASE WriteManifest(p)
    <3>1. /\ reports' = reports /\ pc'[p] = "recorded"
          /\ manifest' = [identity |-> computed[p].identity, author |-> p]
      BY <1>3, <2>4 DEF WriteManifest, Goto, TypeOK
    <3>2. manifest' # Absent
      BY <3>1, Made, NamesAssumption DEF Authors
    <3>3. ReportsUpTo(p, Reports)
      BY <1>1, <2>4 DEF WriteManifest, Progress
    <3>. QED  BY <1>1, <3>1, <3>2, <3>3 DEF Progress, Verdict, ReportsUpTo
  <2>. QED  BY <2>1, <2>2, <2>3, <2>4
<1>. QED  BY <1>2, <1>3

LEMMA StepMine ==
  ASSUME TypeOK, SavedInv, OneAtATime, Sequential, NEW p \in Runs, Step(p)
  PROVE  Progress(p)' /\ Verdict(p)'
<1>1. CASE Saving(p)
  BY <1>1, StepSaving
<1>2. CASE FindManifest(p)
  BY <1>2, StepFindManifest
<1>3. CASE CompareReport(p) \/ CompareTable(p)
  BY <1>3, StepComparing
<1>4. CASE WriteReport(p) \/ OpenTable(p) \/ FillTable(p) \/ WriteManifest(p)
  BY <1>4, StepWriting
<1>5. CASE Kill(p)
  <2>1. pc'[p] = "killed"
    BY <1>5 DEF Kill, Goto, TypeOK
  <2>. QED  BY <2>1 DEF Progress, Verdict, Succeeded
<1>. QED  BY <1>1, <1>2, <1>3, <1>4, <1>5 DEF Step, Publishing

\* The manifest comes last.
LEMMA StepRecordIsWhole ==
  ASSUME TypeOK, SavedInv, Sequential, NEW p \in Runs, Step(p)
  PROVE  RecordIsWhole'
<1>1. computed' = computed
  BY Frame
<1>2. CASE manifest # Absent
  <2>1. UNCHANGED files /\ RecordIsWhole
    BY <1>2, RecordStays DEF Sequential
  <2>2. manifest.author \in Authors
    BY <1>2 DEF TypeOK, Records
  <2>3. computed[manifest.author].identity.model \in Models
    BY <2>2, Made
  <2>4. manifest.author # Earlier =>
          artifacts'[computed[manifest.author].identity.model] = "whole"
    BY <1>2, <2>1, <2>3, WholeStays DEF RecordIsWhole
  <2>. QED  BY <1>1, <1>2, <2>1, <2>4 DEF RecordIsWhole, files
<1>3. CASE manifest = Absent /\ manifest' # Absent
  <2>1. WriteManifest(p)
    BY <1>3 DEF Step, Saving, Publishing, Kill, FindArtifact, CreateArtifact,
       FillArtifact, LoadArtifact, FindManifest, CompareReport, CompareTable,
       WriteReport, OpenTable, FillTable, files
  <2>2. /\ manifest' = [identity |-> computed[p].identity, author |-> p]
        /\ reports' = reports /\ table' = table /\ artifacts' = artifacts
    BY <1>3, <2>1 DEF WriteManifest
  <2>3. /\ ReportsUpTo(p, Reports)
        /\ HasTable => table = [outcome |-> computed[p].outcome, author |-> p]
    BY <2>1 DEF Sequential, Progress, WriteManifest
  <2>4. artifacts[computed[p].identity.model] = "whole"
    BY <2>1 DEF SavedInv, WriteManifest, Saved, Digest
  <2>. QED  BY <1>1, <2>2, <2>3, <2>4 DEF RecordIsWhole, ReportsUpTo
<1>4. CASE manifest' = Absent
  BY <1>4 DEF RecordIsWhole
<1>. QED  BY <1>2, <1>3, <1>4

-----------------------------------------------------------------------------
(***************************************************************************)
(* The invariant.                                                          *)
(***************************************************************************)

LEMMA InitIInv == Init => IInv
<1> SUFFICES ASSUME Init PROVE IInv
  OBVIOUS
<1>1. TypeOK
  BY InitTypeOK
<1>2. \A p \in Runs : pc[p] = "fit" /\ next[p] = 1
  BY DEF Init
<1>3. SavedInv /\ Exclusive
  BY <1>2 DEF SavedInv, Saved, Succeeded, Exclusive, Active
<1>4. TornInv
  BY NamesAssumption DEF Init, TornInv
<1>5. ASSUME NEW p \in Runs PROVE Progress(p) /\ Verdict(p)
  BY <1>2 DEF Progress, Verdict, Succeeded
<1>6. RecordIsWhole
  <2>1. CASE NothingRecorded
    BY <2>1 DEF NothingRecorded, RecordIsWhole
  <2>2. CASE RecordedEarlier
    BY <2>2 DEF RecordedEarlier, RecordIsWhole
  <2>. QED  BY <2>1, <2>2 DEF Init
<1>. QED  BY <1>1, <1>3, <1>4, <1>5, <1>6 DEF IInv, Sequential

LEMMA NextIInv == IInv /\ [Next]_vars => IInv'
<1> SUFFICES ASSUME IInv, [Next]_vars PROVE IInv'
  OBVIOUS
<1>1. CASE UNCHANGED vars
  BY <1>1 DEF vars, files, IInv, TypeOK, SavedInv, Sequential, Exclusive, Active,
    TornInv, Cut, Progress, Verdict, ReportsUpTo, RecordIsWhole, Digest
<1>2. ASSUME NEW p \in Runs, Step(p) PROVE IInv'
  <2>1. TypeOK' /\ SavedInv'
    BY <1>2, StepTypeOK, StepSavedInv DEF IInv
  <2>2. ASSUME OneAtATime PROVE Sequential'
    <3>1. TypeOK /\ SavedInv /\ Sequential
      BY <2>2 DEF IInv
    <3>2. Exclusive' /\ TornInv' /\ RecordIsWhole'
      BY <1>2, <2>2, <3>1, StepExclusive, StepTornInv, StepRecordIsWhole
         DEF Sequential
    <3>3. \A q \in Runs : Progress(q)' /\ Verdict(q)'
      BY <1>2, <2>2, <3>1, StepMine, StepOthers
    <3>. QED  BY <3>2, <3>3 DEF Sequential
  <2>. QED  BY <2>1, <2>2 DEF IInv
<1>. QED  BY <1>1, <1>2 DEF Next, Step

LEMMA SpecIInv == Spec => []IInv
BY InitIInv, NextIInv, PTL DEF Spec

-----------------------------------------------------------------------------
(***************************************************************************)
(* Theorems.                                                               *)
(***************************************************************************)

\* Every variable keeps its type.
THEOREM PublicationTypeOK == Spec => []TypeOK
<1>1. IInv => TypeOK
  BY DEF IInv
<1>. QED  BY <1>1, SpecIInv, PTL

\* However many runs save at once, a run publishes only a model that is whole
\* on disk under the name it records.
THEOREM PublicationPublishedIsLoadable == Spec => []PublishedIsLoadable
<1>1. IInv => PublishedIsLoadable
  BY DEF IInv, SavedInv, PublishedIsLoadable
<1>. QED  BY <1>1, SpecIInv, PTL

\* Exclusive creation and the digest in the name keep a saved model as it is.
THEOREM PublicationArtifactsAreKept == Spec => ArtifactsAreKept
<1>1. IInv /\ [Next]_vars =>
        [\A d \in Models : artifacts[d] = "whole" => artifacts'[d] = "whole"]_vars
  BY WholeStays DEF IInv, Next, Step
<1>. QED  BY <1>1, SpecIInv, PTL DEF Spec, ArtifactsAreKept

\* When runs wait for each other, a manifest only ever stands for a complete
\* experiment of one run, wherever earlier runs were killed.
THEOREM PublicationRecordIsWhole == Spec => [](OneAtATime => RecordIsWhole)
<1>1. IInv => (OneAtATime => RecordIsWhole)
  BY DEF IInv, Sequential
<1>. QED  BY <1>1, SpecIInv, PTL

\* When runs wait for each other, success means that the record is of the run's
\* own experiment.
THEOREM PublicationSuccessMeansRecorded ==
  Spec => [](OneAtATime => SuccessMeansRecorded)
<1>1. IInv => (OneAtATime => SuccessMeansRecorded)
  BY DEF IInv, Sequential, Verdict, SuccessMeansRecorded, ReportsUpTo
<1>. QED  BY <1>1, SpecIInv, PTL

\* When runs wait for each other, an experiment is refused only for a reason in
\* the record or for an earlier run that was cut short.
THEOREM PublicationRefusalHasACause == Spec => [](OneAtATime => RefusalHasACause)
<1>1. IInv => (OneAtATime => RefusalHasACause)
  BY DEF IInv, Sequential, Verdict, RefusalHasACause, Cut
<1>. QED  BY <1>1, SpecIInv, PTL

\* When runs wait for each other, what is recorded is never written again.
THEOREM PublicationRecordIsKept == OneAtATime => (Spec => RecordIsKept)
<1> SUFFICES ASSUME OneAtATime PROVE Spec => RecordIsKept
  OBVIOUS
<1>1. IInv /\ [Next]_vars => [manifest # Absent => UNCHANGED files]_vars
  BY RecordStays DEF IInv, Next, Step
<1>. QED  BY <1>1, SpecIInv, PTL DEF Spec, RecordIsKept

=============================================================================
