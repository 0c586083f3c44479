----------------------- MODULE FinalEvaluationProofs -----------------------
(***************************************************************************)
(* Proofs about FinalEvaluation, for any number of runs, files and         *)
(* versions.                                                               *)
(***************************************************************************)
EXTENDS FinalEvaluation, TLAPS

\* Places past the snapshot check, and places inside publish's loop.
PastSnapshot ==
  {"existing", "evaluate", "readonly", "operations", "validation", "publish",
   "create_file", "write_file"}
Writing == {"create_file", "write_file"}

\* The snapshot has one author, and who is past it has its identity.
SnapshotInv ==
  /\ \A p \in Runs : pc[p] = "record" => snap = Partial
  /\ \A p, q \in Runs : pc[p] = "record" /\ pc[q] = "record" => p = q
  /\ \A p \in Runs : pc[p] \in PastSnapshot => snap = identity[p]

\* Who created a file created those before it.
CreatorInv ==
  /\ \A f \in Files : bundle[f] = Absent <=> creator[f] = Absent
  /\ \A f, g \in Files : g < f /\ creator[f] # Absent => creator[g] = creator[f]

\* What a run inside the loop has written so far.
Written(p) ==
  /\ pc[p] \notin Writing \cup {"ended"} => next[p] = 1
  /\ pc[p] \in Writing =>
       \A f \in Files : f < next[p] => creator[f] = p /\ bundle[f] = Result(p, f)
  /\ pc[p] = "write_file" =>
       creator[next[p]] = p /\ bundle[next[p]] = Partial

WriterInv == \A p \in Runs : Written(p)

\* What a run read again is what its identity names, or the comparison of
\* hashes could not see the edit.  Before the comparison it would tell, and
\* behind it only an edit changes what is read next.
Sound(p, r) == read[p][r] = identity[p].files \/ r \in unseen[p]
Checked == {"operations", "validation", "publish"} \cup Writing

Reading(p) ==
  /\ pc[p] = "readonly" =>
       Sound(p, "evaluation") \/ frozen # identity[p].files
  /\ pc[p] \in Checked => Sound(p, "evaluation")
  /\ pc[p] = "operations" =>
       frozen = identity[p].files \/ "operations" \in unseen[p]
  /\ pc[p] \in Checked \ {"operations"} => Sound(p, "operations")
  /\ pc[p] \in {"operations", "validation"} =>
       frozen = identity[p].files \/ "validation" \in unseen[p]
  /\ pc[p] \in {"publish"} \cup Writing => Sound(p, "validation")

ReadInv == \A p \in Runs : Reading(p)

ModeInv ==
  /\ \A p \in Runs : pc[p] \in PastSnapshot => mode[p] # "snapshot"
  /\ \A p \in Runs : pc[p] \in Writing => mode[p] = "evaluate"

EndInv == \A p \in Runs : status[p] # "none" => pc[p] = "ended"

IInv ==
  /\ TypeOK
  /\ SnapshotInv
  /\ CreatorInv
  /\ WriterInv
  /\ ModeInv
  /\ EndInv
  /\ BundleMatchesSnapshot
  /\ ReportedIsThere
  /\ ReadersPublishNothing

-----------------------------------------------------------------------------
(***************************************************************************)
(* Types.                                                                  *)
(***************************************************************************)

\* A file is made of some of what is read again.
LEMMA MadeOfType == \A f \in Files : MadeOf(f) \subseteq Rereads
  BY DEF MadeOf, Rereads

\* The result of a run is one of the results.
LEMMA ResultType ==
  ASSUME TypeOK, NEW p \in Runs, NEW f \in Files
  PROVE  /\ identity[p] \in Identities
         /\ Result(p, f) \in Results
         /\ Result(p, f).identity = identity[p]
         /\ \A r \in MadeOf(f) : Result(p, f).data[r] = read[p][r]
<1>1. /\ identity[p] \in Identities /\ old[p] \in Runs \cup {Absent}
      /\ read[p] \in [Rereads -> Versions]
  BY DEF TypeOK
<1> DEFINE data == [r \in MadeOf(f) |-> read[p][r]]
<1>2. data \in UNION {[R -> Versions] : R \in SUBSET Rereads}
  <2>1. data \in [MadeOf(f) -> Versions]
    BY <1>1, MadeOfType
  <2>2. MadeOf(f) \in SUBSET Rereads
    BY MadeOfType
  <2>. HIDE DEF data
  <2>. QED  BY <2>1, <2>2
<1>3. \A r \in MadeOf(f) : data[r] = read[p][r]
  OBVIOUS
<1>. HIDE DEF data
<1>4. Result(p, f) = [identity |-> identity[p],
                      generated_at |-> IF old[p] = Absent THEN p ELSE old[p],
                      data |-> data]
  BY DEF Result, data
<1>. QED  BY <1>1, <1>2, <1>3, <1>4 DEF Results

LEMMA InitTypeOK == Init => TypeOK
  BY LastAssumption DEF Init, TypeOK, Files, Identities, Rereads

LEMMA StepTypeOK ==
  ASSUME TypeOK, NEW p \in Runs, Step(p) \/ Crash(p)
  PROVE  TypeOK'
<1>0. 1 \in Files /\ Last \in Files
  BY LastAssumption DEF Files
<1>16. identity[p] \in Identities /\ frozen \in Versions
  BY DEF TypeOK
<1> USE DEF TypeOK, Goto, Fail, Return, disk, reads
<1>1. CASE Crash(p)
  BY <1>1 DEF Crash
<1>2. CASE LoadFrozen(p)
  <2>1. [identity[p] EXCEPT !.objects = frozen] \in Identities
    BY <1>16 DEF Identities
  <2>2. identity' \in [Runs -> Identities]
    BY <1>2, <2>1 DEF LoadFrozen
  <2>. QED  BY <1>2, <2>2 DEF LoadFrozen
<1>3. CASE HashFrozen(p)
  <2>1. [identity[p] EXCEPT !.files = frozen] \in Identities
    BY <1>16 DEF Identities
  <2>2. identity' \in [Runs -> Identities]
    BY <1>3, <2>1 DEF HashFrozen
  <2>. QED  BY <1>3, <2>2 DEF HashFrozen
<1>4. CASE CheckSnapshot(p)
  BY <1>4 DEF CheckSnapshot, AfterSnapshot
<1>5. CASE NeedSnapshot(p)
  BY <1>5 DEF NeedSnapshot
<1>6. CASE CreateSnapshot(p)
  BY <1>6 DEF CreateSnapshot
<1>7. CASE RecordSnapshot(p)
  BY <1>7 DEF RecordSnapshot, AfterSnapshot
<1>8. CASE ReadExisting(p)
  <2>1. old' \in [Runs -> Runs \cup {Absent}]
    <3>1. bundle[Metrics] \in Results =>
            bundle[Metrics].generated_at \in Runs
      BY DEF Results
    <3>. QED  BY <1>0, <1>8, <3>1 DEF ReadExisting, Metrics
  <2>. QED  BY <1>8, <2>1 DEF ReadExisting
<1>9. CASE Evaluate(p)
  BY <1>9 DEF Evaluate, Reread, Rereads
<1>10. CASE AssertReadonly(p)
  BY <1>10 DEF AssertReadonly
<1>11. CASE Preflight(p)
  BY <1>11 DEF Preflight
<1>12. CASE CreateFile(p)
  BY <1>12 DEF CreateFile
<1>14. CASE ReadOperations(p)
  BY <1>14 DEF ReadOperations, Reread, Rereads
<1>15. CASE ReadValidation(p)
  BY <1>15 DEF ReadValidation, Reread, Rereads
<1>13. CASE WriteFile(p)
  <2>1. next' \in [Runs -> Files]
    <3>1. CASE next[p] = Last
      BY <1>13, <3>1 DEF WriteFile
    <3>2. CASE next[p] # Last
      <4>1. next[p] + 1 \in Files
        BY <3>2, LastAssumption DEF Files
      <4>. QED  BY <1>13, <3>2, <4>1 DEF WriteFile
    <3>. QED  BY <3>1, <3>2
  <2>2. Result(p, next[p]) \in Results
    BY ResultType
  <2>. QED  BY <1>13, <2>1, <2>2 DEF WriteFile
<1>. QED
  BY <1>1, <1>2, <1>3, <1>4, <1>5, <1>6, <1>7,
     <1>8, <1>9, <1>10, <1>11, <1>12, <1>13, <1>14, <1>15 DEF Step

LEMMA NextTypeOK == TypeOK /\ [Next]_vars => TypeOK'
<1> SUFFICES ASSUME TypeOK, [Next]_vars PROVE TypeOK'
  OBVIOUS
<1>1. CASE Edit
  BY <1>1 DEF Edit, TypeOK, Missed
<1>2. CASE UNCHANGED vars
  BY <1>2 DEF vars, TypeOK
<1>. QED  BY <1>1, <1>2, StepTypeOK DEF Next

\* Every state of the runs and of their directory has the types of TypeOK.
THEOREM EvaluationTypeOK == Spec => []TypeOK
  BY InitTypeOK, NextTypeOK, PTL DEF Spec

-----------------------------------------------------------------------------
(***************************************************************************)
(* The inductive invariant.                                                *)
(***************************************************************************)

\* An edit reaches a run unseen, or the comparison of hashes will tell.
LEMMA NextReadInv == TypeOK /\ ReadInv /\ [Next]_vars => ReadInv'
<1> SUFFICES ASSUME TypeOK, ReadInv, [Next]_vars PROVE ReadInv'
  OBVIOUS
<1> USE DEF ReadInv, Reading, Sound, Checked, Writing
<1>1. CASE UNCHANGED vars
  BY <1>1 DEF vars
<1>2. CASE Edit
  <2>1. UNCHANGED <<pc, identity, read>>
    BY <1>2 DEF Edit
  <2>2. \A p \in Runs : unseen'[p] = unseen[p] \cup Missed(p, frozen')
    BY <1>2 DEF Edit
  <2>. QED  BY <2>1, <2>2 DEF Missed, Rereads
<1>3. ASSUME NEW p \in Runs, Step(p) \/ Crash(p)
      PROVE  ReadInv'
  <2> USE DEF TypeOK, Goto, Fail, Return
  <2>1. UNCHANGED <<frozen, unseen>>
    BY <1>3 DEF Step, Crash, LoadFrozen, HashFrozen, CheckSnapshot,
         NeedSnapshot, CreateSnapshot, RecordSnapshot, ReadExisting, Evaluate,
         AssertReadonly, ReadOperations, ReadValidation, Preflight, CreateFile,
         WriteFile, disk, reads
  <2>2. \A q \in Runs \ {p} : /\ pc'[q] = pc[q] /\ identity'[q] = identity[q]
                             /\ read'[q] = read[q]
    BY <1>3 DEF Step, Crash, LoadFrozen, HashFrozen, CheckSnapshot,
         NeedSnapshot, CreateSnapshot, RecordSnapshot, ReadExisting, Evaluate,
         AssertReadonly, ReadOperations, ReadValidation, Preflight, CreateFile,
         WriteFile, AfterSnapshot, Reread, reads
  <2>9. \A q \in Runs \ {p} : Reading(q)'
    BY <2>1, <2>2
  <2> SUFFICES Reading(p)'
    BY <2>9
  <2>3. CASE \/ Crash(p) \/ LoadFrozen(p) \/ HashFrozen(p) \/ CheckSnapshot(p)
             \/ NeedSnapshot(p) \/ CreateSnapshot(p) \/ RecordSnapshot(p)
             \/ ReadExisting(p)
    <3>1. pc'[p] \notin Checked \cup {"readonly"}
      BY <2>3 DEF Crash, LoadFrozen, HashFrozen, CheckSnapshot, NeedSnapshot,
           CreateSnapshot, RecordSnapshot, ReadExisting, AfterSnapshot
    <3>. QED  BY <2>1, <3>1
  <2>4. CASE Evaluate(p)
    <3>1. /\ read'[p].evaluation = frozen /\ identity' = identity
          /\ pc'[p] \in {"readonly", "ended"}
      BY <2>4 DEF Evaluate, Reread, Rereads
    <3>. QED  BY <2>1, <3>1
  <2>5. CASE AssertReadonly(p)
    BY <2>1, <2>5 DEF AssertReadonly, reads
  <2>6. CASE ReadOperations(p)
    <3>1. /\ read'[p] = [read[p] EXCEPT !["operations"] = frozen]
          /\ identity' = identity
          /\ pc[p] = "operations" /\ pc'[p] \in {"validation", "ended"}
      BY <2>6 DEF ReadOperations, Reread
    <3>2. read'[p]["operations"] = frozen /\ read'[p]["evaluation"] = read[p]["evaluation"]
      BY <3>1 DEF Rereads
    <3>. QED  BY <2>1, <3>1, <3>2
  <2>7. CASE ReadValidation(p)
    <3>1. /\ read'[p] = [read[p] EXCEPT !["validation"] = frozen]
          /\ identity' = identity
          /\ pc[p] = "validation" /\ pc'[p] \in {"publish", "ended"}
      BY <2>7 DEF ReadValidation, Reread
    <3>2. /\ read'[p]["validation"] = frozen
          /\ read'[p]["evaluation"] = read[p]["evaluation"]
          /\ read'[p]["operations"] = read[p]["operations"]
      BY <3>1 DEF Rereads
    <3>. QED  BY <2>1, <3>1, <3>2
  <2>8. CASE Preflight(p) \/ CreateFile(p) \/ WriteFile(p)
    <3>1. /\ UNCHANGED <<read, identity>>
          /\ pc[p] \in {"publish"} \cup Writing
          /\ pc'[p] \in {"ended"} \cup Writing
      BY <2>8 DEF Preflight, CreateFile, WriteFile, reads
    <3>. QED  BY <2>1, <3>1
  <2>. QED
    BY <1>3, <2>3, <2>4, <2>5, <2>6, <2>7, <2>8 DEF Step
<1>. QED  BY <1>1, <1>2, <1>3 DEF Next

LEMMA SpecReadInv == Spec => []ReadInv
<1>1. Init => ReadInv
  BY DEF Init, ReadInv, Reading, Checked, Writing
<1>. QED  BY <1>1, EvaluationTypeOK, NextReadInv, PTL DEF Spec

\* A marker is never mistaken for content.
LEMMA Markers ==
  /\ Absent # Partial
  /\ Absent \notin Identities /\ Partial \notin Identities
  /\ Absent \notin Results /\ Partial \notin Results
  /\ Absent \notin Runs
  BY MarkersAssumption

LEMMA InitIInv == Init => IInv
<1> SUFFICES ASSUME Init PROVE IInv
  OBVIOUS
<1>1. TypeOK
  BY InitTypeOK
<1>. QED
  BY <1>1, Markers
     DEF Init, IInv, SnapshotInv, CreatorInv, WriterInv, Written, ModeInv, EndInv,
         BundleMatchesSnapshot, ReportedIsThere, ReadersPublishNothing,
         PastSnapshot, Writing

\* Steps that only read the directory: a run moves on, starts to write when
\* nothing is there, or ends with a status.
LEMMA ReadingIInv ==
  ASSUME IInv, TypeOK', NEW p \in Runs,
         UNCHANGED <<disk, mode, next, unseen>>,
         \A q \in Runs \ {p} :
           /\ pc'[q] = pc[q]
           /\ status'[q] = status[q]
           /\ identity'[q] = identity[q]
           /\ read'[q] = read[q]
           /\ old'[q] = old[q],
         pc[p] # "ended",
         pc'[p] # "record",
         pc'[p] \in PastSnapshot =>
           /\ snap = identity'[p]
           /\ mode[p] # "snapshot",
         pc'[p] # "write_file",
         pc'[p] = "create_file" =>
           /\ pc[p] \notin Writing
           /\ mode[p] = "evaluate",
         pc'[p] # "ended" => pc[p] \notin Writing,
         status'[p] # "none" => pc'[p] = "ended",
         status'[p] # "published",
         status'[p] = "verified_existing" =>
           \A f \in Files : bundle[f] = Result(p, f)'
  PROVE  IInv'
<1> USE DEF disk, IInv
<1>1. SnapshotInv'
  BY DEF SnapshotInv, PastSnapshot
<1>2. CreatorInv'
  BY DEF CreatorInv
<1>3. WriterInv'
  <2>1. ASSUME NEW q \in Runs PROVE Written(q)'
    <3>1. CASE q = p
      <4>1. pc'[p] # "ended" => next[p] = 1
        BY DEF WriterInv, Written
      <4>2. \A f \in Files : ~ (f < 1)
        BY LastAssumption DEF Files
      <4>. QED  BY <3>1, <4>1, <4>2 DEF Written, Writing
    <3>2. CASE q # p
      <4>1. \A f \in Files : Result(q, f)' = Result(q, f)
        BY <3>2 DEF Result
      <4>. QED  BY <3>2, <4>1 DEF WriterInv, Written, Writing
    <3>. QED  BY <3>1, <3>2
  <2>. QED  BY <2>1 DEF WriterInv
<1>4. ModeInv'
  BY DEF ModeInv, PastSnapshot, Writing
<1>5. EndInv'
  BY DEF EndInv
<1>6. BundleMatchesSnapshot'
  BY DEF BundleMatchesSnapshot
<1>7. ReportedIsThere'
  <2> SUFFICES ASSUME NEW q \in Runs,
                      status'[q] \in {"published", "verified_existing"}
               PROVE  \A f \in Files : bundle'[f] = Result(q, f)'
    BY DEF ReportedIsThere
  <2>1. CASE q = p
    BY <2>1
  <2>2. CASE q # p
    BY <2>2 DEF ReportedIsThere, Result
  <2>. QED  BY <2>1, <2>2
<1>8. ReadersPublishNothing'
  BY DEF ReadersPublishNothing
<1>. QED  BY <1>1, <1>2, <1>3, <1>4, <1>5, <1>6, <1>7, <1>8

LEMMA ReadersIInv ==
  ASSUME IInv, NEW p \in Runs,
         \/ Crash(p) \/ LoadFrozen(p) \/ HashFrozen(p) \/ CheckSnapshot(p)
         \/ NeedSnapshot(p) \/ ReadExisting(p) \/ Evaluate(p)
         \/ AssertReadonly(p) \/ ReadOperations(p) \/ ReadValidation(p)
         \/ Preflight(p)
  PROVE  IInv'
<1>1. /\ UNCHANGED <<disk, mode, next, unseen>>
      /\ pc[p] # "ended"
  BY DEF Crash, LoadFrozen, HashFrozen, CheckSnapshot, NeedSnapshot,
         ReadExisting, Evaluate, AssertReadonly, ReadOperations,
         ReadValidation, Preflight, Writing, disk, reads
<1>2. status[p] = "none"
  BY <1>1 DEF IInv, EndInv
<1>3. /\ TypeOK
      /\ pc[p] \in PastSnapshot => snap = identity[p] /\ mode[p] # "snapshot"
  BY DEF IInv, SnapshotInv, ModeInv
<1>4. ASSUME NEW q \in Runs \ {p}
      PROVE  /\ pc'[q] = pc[q]
             /\ status'[q] = status[q]
             /\ identity'[q] = identity[q]
             /\ read'[q] = read[q]
             /\ old'[q] = old[q]
  <2> USE DEF TypeOK, Goto, Fail, Return, Reread, reads
  <2>1. CASE Crash(p)  BY <1>3, <2>1 DEF Crash
  <2>2. CASE LoadFrozen(p)  BY <1>3, <2>2 DEF LoadFrozen
  <2>3. CASE HashFrozen(p)  BY <1>3, <2>3 DEF HashFrozen
  <2>4. CASE CheckSnapshot(p)  BY <1>3, <2>4 DEF CheckSnapshot, AfterSnapshot
  <2>5. CASE NeedSnapshot(p)  BY <1>3, <2>5 DEF NeedSnapshot
  <2>6. CASE ReadExisting(p)  BY <1>3, <2>6 DEF ReadExisting
  <2>7. CASE Evaluate(p)  BY <1>3, <2>7 DEF Evaluate
  <2>8. CASE AssertReadonly(p)  BY <1>3, <2>8 DEF AssertReadonly
  <2>9. CASE Preflight(p)  BY <1>3, <2>9 DEF Preflight
  <2>10. CASE ReadOperations(p)  BY <1>3, <2>10 DEF ReadOperations
  <2>11. CASE ReadValidation(p)  BY <1>3, <2>11 DEF ReadValidation
  <2>. QED
    BY <2>1, <2>2, <2>3, <2>4, <2>5, <2>6, <2>7, <2>8, <2>9, <2>10, <2>11
<1> DEFINE
  Fine ==
    /\ pc'[p] # "record"
    /\ pc'[p] \in PastSnapshot => snap = identity'[p] /\ mode[p] # "snapshot"
    /\ pc'[p] # "write_file"
    /\ pc'[p] = "create_file" => pc[p] \notin Writing /\ mode[p] = "evaluate"
    /\ pc'[p] # "ended" => pc[p] \notin Writing
    /\ status'[p] # "none" => pc'[p] = "ended"
    /\ status'[p] # "published"
    /\ status'[p] = "verified_existing" =>
         \A f \in Files : bundle[f] = Result(p, f)'
<1>5. Fine
  <2> USE DEF TypeOK, Goto, Fail, Return, PastSnapshot, Writing
  <2>1. CASE Crash(p)
    BY <1>2, <1>3, <2>1 DEF Crash
  <2>2. CASE LoadFrozen(p)
    BY <1>2, <1>3, <2>2 DEF LoadFrozen
  <2>3. CASE HashFrozen(p)
    BY <1>2, <1>3, <2>3 DEF HashFrozen
  <2>4. CASE CheckSnapshot(p)
    BY <1>2, <1>3, <2>4 DEF CheckSnapshot, AfterSnapshot
  <2>5. CASE NeedSnapshot(p)
    BY <1>2, <1>3, <2>5 DEF NeedSnapshot
  <2>6. CASE ReadExisting(p)
    BY <1>2, <1>3, <2>6 DEF ReadExisting
  <2>7. CASE Evaluate(p)
    BY <1>2, <1>3, <2>7 DEF Evaluate
  <2>8. CASE AssertReadonly(p)
    BY <1>2, <1>3, <2>8 DEF AssertReadonly
  <2>9. CASE Preflight(p)
    <3>1. \A f \in Files : Result(p, f)' = Result(p, f)
      BY <2>9 DEF Preflight, Result, reads
    <3>2. mode[p] \in Modes
      BY <1>3
    <3>. QED  BY <1>2, <1>3, <2>9, <3>1, <3>2 DEF Preflight, Modes
  <2>10. CASE ReadOperations(p)
    BY <1>2, <1>3, <2>10 DEF ReadOperations
  <2>11. CASE ReadValidation(p)
    BY <1>2, <1>3, <2>11 DEF ReadValidation
  <2>. QED
    BY <2>1, <2>2, <2>3, <2>4, <2>5, <2>6, <2>7, <2>8, <2>9, <2>10, <2>11
<1>. QED
  <2>1. TypeOK'
    BY StepTypeOK DEF IInv, Step
  <2>. QED  BY <1>1, <1>4, <1>5, <2>1, ReadingIInv

\* The two steps that write the snapshot.  While one run records, nobody is
\* past the snapshot and there is no result.
LEMMA SnapshotStepsIInv ==
  ASSUME IInv, NEW p \in Runs, CreateSnapshot(p) \/ RecordSnapshot(p)
  PROVE  IInv'
<1> USE DEF IInv
<1>1. /\ TypeOK /\ TypeOK'
      /\ status[p] = "none"
  BY StepTypeOK DEF Step, EndInv, CreateSnapshot, RecordSnapshot
<1>2. /\ UNCHANGED <<frozen, bundle, creator, mode, identity, read, old, next,
                    unseen>>
      /\ \A q \in Runs \ {p} : pc'[q] = pc[q] /\ status'[q] = status[q]
      /\ pc[p] \in {"create", "record"}
      /\ pc'[p] \in {"record", "existing", "ended"}
      /\ pc'[p] = "existing" => mode[p] # "snapshot"
      /\ status'[p] \in {"none", "error", "snapshot_verified"}
      /\ status'[p] # "none" => pc'[p] = "ended"
  BY <1>1 DEF CreateSnapshot, RecordSnapshot, AfterSnapshot, Fail, Return,
              Goto, TypeOK, reads
<1>3. \/ snap' = snap /\ pc'[p] = "ended"
      \/ snap = Absent /\ snap' = Partial /\ pc'[p] = "record"
      \/ pc[p] = "record" /\ snap = Partial /\ snap' = identity[p]
           /\ pc'[p] # "record"
  BY <1>1 DEF CreateSnapshot, RecordSnapshot, AfterSnapshot, Fail, Return,
              Goto, TypeOK, SnapshotInv
<1>4. snap' = snap \/ \A q \in Runs : pc[q] \notin PastSnapshot
  BY <1>1, <1>3, Markers DEF TypeOK, SnapshotInv
<1>5. SnapshotInv'
  <2>1. CASE snap' = snap /\ pc'[p] = "ended"
    BY <1>2, <2>1 DEF SnapshotInv, PastSnapshot
  <2>2. CASE snap = Absent /\ snap' = Partial /\ pc'[p] = "record"
    <3>1. \A q \in Runs : pc[q] # "record" /\ pc[q] \notin PastSnapshot
      BY <1>4, <2>2, Markers DEF SnapshotInv
    <3>. QED  BY <1>2, <2>2, <3>1 DEF SnapshotInv, PastSnapshot
  <2>3. CASE pc[p] = "record" /\ snap = Partial /\ snap' = identity[p]
               /\ pc'[p] # "record"
    <3>1. \A q \in Runs \ {p} : pc[q] # "record" /\ pc[q] \notin PastSnapshot
      <4>1. identity[p] # Partial
        BY <1>1, Markers DEF TypeOK
      <4>. QED  BY <1>4, <2>3, <4>1 DEF SnapshotInv
    <3>. QED  BY <1>2, <2>3, <3>1 DEF SnapshotInv, PastSnapshot
  <2>. QED  BY <1>3, <2>1, <2>2, <2>3
<1>6. CreatorInv'
  BY <1>2 DEF CreatorInv
<1>7. WriterInv'
  <2>1. ASSUME NEW q \in Runs PROVE Written(q)'
    BY <1>2 DEF WriterInv, Written, Writing, Result
  <2>. QED  BY <2>1 DEF WriterInv
<1>8. ModeInv'
  BY <1>2 DEF ModeInv, PastSnapshot, Writing
<1>9. EndInv'
  BY <1>2 DEF EndInv
<1>10. BundleMatchesSnapshot'
  <2>1. CASE snap' = snap
    BY <1>2, <2>1 DEF BundleMatchesSnapshot
  <2>2. CASE snap \in {Absent, Partial}
    <3>1. \A f \in Files : bundle[f] \notin Results
      <4>1. \A x \in Results : x.identity \in Identities
        BY DEF Results
      <4>. QED  BY <2>2, <4>1, Markers DEF BundleMatchesSnapshot
    <3>. QED  BY <1>2, <3>1 DEF BundleMatchesSnapshot
  <2>. QED  BY <1>3, <2>1, <2>2
<1>11. ReportedIsThere'
  BY <1>2 DEF ReportedIsThere, Result
<1>12. ReadersPublishNothing'
  BY <1>2 DEF ReadersPublishNothing
<1>. QED
  BY <1>1, <1>5, <1>6, <1>7, <1>8, <1>9, <1>10, <1>11, <1>12

LEMMA CreateFileIInv ==
  ASSUME IInv, NEW p \in Runs, CreateFile(p), bundle[next[p]] = Absent
  PROVE  IInv'
<1> USE DEF IInv
<1>1. /\ TypeOK /\ TypeOK'
      /\ status[p] = "none"
      /\ next[p] \in Files
      /\ pc[p] = "create_file"
      /\ mode[p] = "evaluate"
      /\ snap = identity[p]
      /\ Written(p)
  BY StepTypeOK DEF Step, EndInv, CreateFile, TypeOK, ModeInv, Writing,
                    SnapshotInv, PastSnapshot, WriterInv
<1>2. PICK n \in Files : n = next[p]
  BY <1>1
<1>3. /\ UNCHANGED <<frozen, snap, mode, identity, read, old, next, status,
                    unseen>>
      /\ pc'[p] = "write_file"
      /\ \A q \in Runs \ {p} : pc'[q] = pc[q]
      /\ bundle'[n] = Partial /\ creator'[n] = p
      /\ \A f \in Files \ {n} : bundle'[f] = bundle[f] /\ creator'[f] = creator[f]
      /\ bundle[n] = Absent /\ creator[n] = Absent
  BY <1>1, <1>2 DEF CreateFile, Goto, TypeOK, CreatorInv, reads
\* Nobody has created this file or one after it.
<1>4. /\ \A f \in Files : f < n => creator[f] = p
      /\ \A f \in Files : f > n => creator[f] = Absent
  <2>1. \A f \in Files : f < n => creator[f] = p
    BY <1>1, <1>2 DEF Written, Writing
  <2>2. \A f \in Files : f > n => creator[f] = Absent
    BY <1>3 DEF CreatorInv
  <2>. QED  BY <2>1, <2>2
<1>5. SnapshotInv'
  BY <1>1, <1>3 DEF SnapshotInv, PastSnapshot
<1>6. CreatorInv'
  <2>1. \A f \in Files : bundle'[f] = Absent <=> creator'[f] = Absent
    <3>1. p # Absent
      BY Markers
    <3>. QED  BY <1>3, <3>1, Markers DEF CreatorInv
  <2>2. ASSUME NEW f \in Files, NEW g \in Files, g < f, creator'[f] # Absent
        PROVE  creator'[g] = creator'[f]
    <3>1. f <= n
      BY <1>3, <1>4, <2>2, LastAssumption DEF Files
    <3>2. g < n
      BY <2>2, <3>1, LastAssumption DEF Files
    <3>3. creator'[g] = p
      BY <1>3, <1>4, <3>2
    <3>4. creator'[f] = p
      BY <1>3, <1>4, <3>1, LastAssumption DEF Files
    <3>. QED  BY <3>3, <3>4
  <2>. QED  BY <2>1, <2>2 DEF CreatorInv
<1>7. WriterInv'
  <2>1. ASSUME NEW q \in Runs PROVE Written(q)'
    <3>1. \A f \in Files : Result(q, f)' = Result(q, f)
      BY <1>3 DEF Result
    <3>2. CASE q = p
      BY <1>1, <1>2, <1>3, <3>1, <3>2, LastAssumption
         DEF Written, Writing, Files
    <3>3. CASE q # p
      <4>1. /\ Written(q) /\ next'[q] = next[q] /\ pc'[q] = pc[q]
            /\ \A f \in Files : Result(q, f) # Absent
            /\ q # Absent /\ next[q] \in Files
        BY <1>1, <1>3, <3>3, Markers, ResultType DEF WriterInv, TypeOK
      <4>2. pc[q] \in Writing =>
              \A f \in Files : f < next[q] => f # n
        BY <1>3, <4>1 DEF Written
      <4>3. pc[q] = "write_file" => next[q] # n
        BY <1>3, <4>1 DEF Written
      <4>. QED  BY <1>3, <3>1, <4>1, <4>2, <4>3 DEF Written, Writing
    <3>. QED  BY <3>2, <3>3
  <2>. QED  BY <2>1 DEF WriterInv
<1>8. ModeInv'
  BY <1>1, <1>3 DEF ModeInv, PastSnapshot, Writing
<1>9. EndInv'
  BY <1>1, <1>3 DEF EndInv
<1>10. BundleMatchesSnapshot'
  BY <1>3, Markers DEF BundleMatchesSnapshot
<1>11. ReportedIsThere'
  <2>1. ASSUME NEW q \in Runs,
               status'[q] \in {"published", "verified_existing"}
        PROVE  FALSE
    BY <1>1, <1>3, <2>1, Markers, ResultType DEF ReportedIsThere
  <2>. QED  BY <2>1 DEF ReportedIsThere
<1>12. ReadersPublishNothing'
  BY <1>1, <1>3 DEF ReadersPublishNothing
<1>. QED
  BY <1>1, <1>5, <1>6, <1>7, <1>8, <1>9, <1>10, <1>11, <1>12

\* A run that finds its file there gives up, and leaves what it wrote.
LEMMA GiveUpIInv ==
  ASSUME IInv, NEW p \in Runs, CreateFile(p), bundle[next[p]] # Absent
  PROVE  IInv'
<1>1. TypeOK'
  BY StepTypeOK DEF IInv, Step
<1>2. /\ UNCHANGED <<disk, mode, next, identity, read, old, unseen>>
      /\ pc[p] = "create_file" /\ pc'[p] = "ended" /\ status'[p] = "error"
      /\ \A q \in Runs \ {p} : pc'[q] = pc[q] /\ status'[q] = status[q]
  BY DEF CreateFile, Fail, Return, Goto, disk, IInv, TypeOK, reads
<1>3. "ended" \notin PastSnapshot
  BY DEF PastSnapshot
<1>. QED  BY <1>1, <1>2, <1>3, ReadingIInv

LEMMA WriteFileIInv ==
  ASSUME IInv, ReadInv, NEW p \in Runs, WriteFile(p)
  PROVE  IInv'
<1> USE DEF IInv
<1>1. /\ TypeOK /\ TypeOK'
      /\ status[p] = "none"
      /\ next[p] \in Files
      /\ pc[p] = "write_file"
      /\ mode[p] = "evaluate"
      /\ snap = identity[p]
      /\ Written(p)
  BY StepTypeOK DEF Step, EndInv, WriteFile, TypeOK, ModeInv, Writing,
                    SnapshotInv, PastSnapshot, WriterInv
<1>2. PICK n \in Files : n = next[p]
  BY <1>1
<1>3. /\ UNCHANGED <<frozen, snap, mode, identity, read, old, creator, unseen>>
      /\ \A q \in Runs \ {p} :
           pc'[q] = pc[q] /\ status'[q] = status[q] /\ next'[q] = next[q]
      /\ bundle[n] = Partial /\ creator[n] = p
      /\ bundle'[n] = Result(p, n)
      /\ \A f \in Files \ {n} : bundle'[f] = bundle[f]
      /\ \A f \in Files : f < n => creator[f] = p /\ bundle[f] = Result(p, f)
  BY <1>1, <1>2 DEF WriteFile, Return, Goto, TypeOK, Written, Writing, reads
<1>4. \/ n = Last /\ pc'[p] = "ended" /\ status'[p] = "published"
      \/ /\ n # Last /\ pc'[p] = "create_file" /\ status'[p] = "none"
         /\ next'[p] = n + 1
  BY <1>1, <1>2 DEF WriteFile, Return, Goto, TypeOK
<1>5. \A q \in Runs : \A f \in Files : Result(q, f)' = Result(q, f)
  BY <1>3 DEF Result
<1>6. Result(p, n) # Absent /\ Result(p, n) # Partial /\ p # Absent
  BY <1>1, Markers, ResultType
<1>7. SnapshotInv'
  BY <1>1, <1>3, <1>4 DEF SnapshotInv, PastSnapshot
<1>8. CreatorInv'
  BY <1>3, <1>6 DEF CreatorInv
<1>9. WriterInv'
  <2>1. ASSUME NEW q \in Runs PROVE Written(q)'
    <3>1. CASE q = p
      <4>1. CASE n = Last
        BY <1>4, <3>1, <4>1 DEF Written, Writing
      <4>2. CASE n # Last
        <5>1. \A f \in Files : f < n + 1 => f < n \/ f = n
          BY LastAssumption DEF Files
        <5>2. \A f \in Files : f < n + 1 =>
                creator'[f] = p /\ bundle'[f] = Result(p, f)'
          BY <1>3, <1>5, <5>1
        <5>. QED  BY <1>4, <3>1, <4>2, <5>2 DEF Written, Writing
      <4>. QED  BY <4>1, <4>2
    <3>2. CASE q # p
      <4>1. /\ Written(q) /\ next'[q] = next[q] /\ pc'[q] = pc[q]
            /\ next[q] \in Files
        BY <1>1, <1>3, <3>2 DEF WriterInv, TypeOK
      <4>2. pc[q] \in Writing =>
              \A f \in Files : f < next[q] => f # n
        BY <1>3, <3>2, <4>1 DEF Written
      <4>3. pc[q] = "write_file" => next[q] # n
        BY <1>3, <3>2, <4>1 DEF Written
      <4>. QED  BY <1>3, <1>5, <4>1, <4>2, <4>3 DEF Written, Writing
    <3>. QED  BY <3>1, <3>2
  <2>. QED  BY <2>1 DEF WriterInv
<1>10. ModeInv'
  BY <1>1, <1>3, <1>4 DEF ModeInv, PastSnapshot, Writing
<1>11. EndInv'
  BY <1>1, <1>3, <1>4 DEF EndInv
<1>12. BundleMatchesSnapshot'
  <2>1. /\ Result(p, n).identity = snap
        /\ \A r \in MadeOf(n) : Result(p, n).data[r] = read[p][r]
    BY <1>1, ResultType
  <2>2. \A r \in Rereads : read[p][r] = snap.files \/ r \in unseen[p]
    BY <1>1 DEF ReadInv, Reading, Sound, Checked, Writing, Rereads
  <2>3. \A r \in MadeOf(n) :
          bundle'[n].data[r] = snap.files \/ r \in unseen[creator[n]]
    BY <1>3, <2>1, <2>2, MadeOfType
  <2>. QED  BY <1>3, <2>1, <2>3 DEF BundleMatchesSnapshot
<1>13. ReportedIsThere'
  <2> SUFFICES ASSUME NEW q \in Runs,
                      status'[q] \in {"published", "verified_existing"}
               PROVE  \A f \in Files : bundle'[f] = Result(q, f)'
    BY DEF ReportedIsThere
  <2>1. CASE q = p
    <3>1. n = Last
      BY <1>4, <2>1
    <3>2. \A f \in Files : f < n \/ f = n
      BY <3>1, LastAssumption DEF Files
    <3>. QED  BY <1>3, <1>5, <2>1, <3>2
  <2>2. CASE q # p
    <3>1. bundle[n] = Result(q, n)
      BY <1>3, <2>2 DEF ReportedIsThere
    <3>2. Result(q, n) # Partial
      BY <1>1, Markers, ResultType
    <3>. QED  BY <1>3, <3>1, <3>2
  <2>. QED  BY <2>1, <2>2
<1>14. ReadersPublishNothing'
  BY <1>3 DEF ReadersPublishNothing
<1>. QED
  BY <1>1, <1>7, <1>8, <1>9, <1>10, <1>11, <1>12, <1>13, <1>14

\* Nothing but the frozen files changes, or nothing at all.
LEMMA EditIInv ==
  ASSUME IInv, Edit \/ UNCHANGED vars
  PROVE  IInv'
<1>1. UNCHANGED <<snap, bundle, pc, mode, identity, read, old, next, status,
                  creator>>
  BY DEF Edit, vars
<1>2. TypeOK'
  BY NextTypeOK DEF IInv, Next
<1>3. \A q \in Runs : \A f \in Files : Result(q, f)' = Result(q, f)
  BY <1>1 DEF Result
<1>4. SnapshotInv' /\ CreatorInv' /\ ModeInv' /\ EndInv'
  BY <1>1 DEF IInv, SnapshotInv, CreatorInv, ModeInv, EndInv
<1>5. WriterInv'
  BY <1>1, <1>3 DEF IInv, WriterInv, Written
<1>6. ReportedIsThere' /\ ReadersPublishNothing'
  BY <1>1, <1>3 DEF IInv, ReportedIsThere, ReadersPublishNothing
<1>7. BundleMatchesSnapshot'
  <2>1. \A q \in Runs : unseen[q] \subseteq unseen'[q]
    BY DEF Edit, vars
  <2>2. \A f \in Files : bundle[f] \in Results => creator[f] \in Runs
    BY Markers DEF IInv, CreatorInv, TypeOK
  <2>. QED  BY <1>1, <2>1, <2>2 DEF IInv, BundleMatchesSnapshot
<1>. QED  BY <1>2, <1>4, <1>5, <1>6, <1>7 DEF IInv

LEMMA NextIInv == IInv /\ ReadInv /\ [Next]_vars => IInv'
<1> SUFFICES ASSUME IInv, ReadInv, [Next]_vars PROVE IInv'
  OBVIOUS
<1>1. CASE Edit \/ UNCHANGED vars
  BY <1>1, EditIInv
<1>2. ASSUME NEW p \in Runs, Step(p) \/ Crash(p)
      PROVE  IInv'
  BY <1>2, ReadersIInv, SnapshotStepsIInv, CreateFileIInv, GiveUpIInv,
     WriteFileIInv DEF Step
<1>. QED  BY <1>1, <1>2 DEF Next

LEMMA SpecIInv == Spec => []IInv
  BY InitIInv, NextIInv, SpecReadInv, PTL DEF Spec

-----------------------------------------------------------------------------
(***************************************************************************)
(* The properties.                                                         *)
(***************************************************************************)

\* All the files of a bundle come from one run, whatever ran, raced or died:
\* exclusive creation in publish's fixed order.
THEOREM EvaluationOneCreator == Spec => []OneCreator
<1>1. IInv => OneCreator
  <2> SUFFICES ASSUME IInv, NEW f \in Files, NEW g \in Files,
                      creator[f] # Absent, creator[g] # Absent
               PROVE  creator[f] = creator[g]
    BY DEF OneCreator
  <2>1. f < g \/ g < f \/ f = g
    BY LastAssumption DEF Files
  <2>. QED  BY <2>1 DEF IInv, CreatorInv
<1>. QED  BY <1>1, SpecIInv, PTL

\* Results are published for the identity of the pre-unseal snapshot only, and
\* made of the files it recorded, save for edits that assert_readonly's one
\* comparison cannot see.
THEOREM EvaluationBundleMatchesSnapshot == Spec => []BundleMatchesSnapshot
<1>1. IInv => BundleMatchesSnapshot
  BY DEF IInv
<1>. QED  BY <1>1, SpecIInv, PTL

\* TEST is opened behind a complete snapshot of the run's own identity.
THEOREM EvaluationSealedUntilSnapshot == Spec => []SealedUntilSnapshot
<1>1. IInv => SealedUntilSnapshot
  BY DEF IInv, SnapshotInv, SealedUntilSnapshot, PastSnapshot
<1>. QED  BY <1>1, SpecIInv, PTL

\* "published" and "verified_existing" are true when reported, and for ever.
THEOREM EvaluationReportedIsThere == Spec => []ReportedIsThere
<1>1. IInv => ReportedIsThere
  BY DEF IInv
<1>. QED  BY <1>1, SpecIInv, PTL

\* --verify-existing and --snapshot-only create no result file.
THEOREM EvaluationReadersPublishNothing == Spec => []ReadersPublishNothing
<1>1. IInv => ReadersPublishNothing
  BY DEF IInv
<1>. QED  BY <1>1, SpecIInv, PTL

\* What one step leaves alone.
ImmutableStep ==
  /\ \A f \in Files : bundle[f] \in Results => bundle'[f] = bundle[f]
  /\ \A f \in Files : bundle[f] # Absent => bundle'[f] # Absent
  /\ snap \in Identities => snap' = snap

LEMMA StepImmutable == IInv /\ [Next]_vars => [ImmutableStep]_vars
<1> SUFFICES ASSUME IInv, Next PROVE ImmutableStep
  BY DEF ImmutableStep
<1>1. CASE Edit
  BY <1>1 DEF Edit, ImmutableStep
<1>2. ASSUME NEW p \in Runs, Step(p) \/ Crash(p)
      PROVE  ImmutableStep
  <2>1. CASE CreateSnapshot(p)
    BY <2>1, Markers DEF CreateSnapshot, ImmutableStep
  <2>2. CASE RecordSnapshot(p)
    BY <2>2, Markers DEF RecordSnapshot, ImmutableStep, IInv, SnapshotInv
  <2>3. CASE CreateFile(p)
    BY <2>3, Markers DEF CreateFile, ImmutableStep, IInv, TypeOK
  <2>4. CASE WriteFile(p)
    <3>1. Result(p, next[p]) # Absent /\ bundle[next[p]] = Partial
      BY <2>4, Markers, ResultType DEF WriteFile, IInv, WriterInv, Written, TypeOK
    <3>. QED  BY <2>4, <3>1, Markers DEF WriteFile, ImmutableStep, IInv, TypeOK
  <2>5. CASE UNCHANGED disk
    BY <2>5 DEF disk, ImmutableStep
  <2>. QED
    BY <1>2, <2>1, <2>2, <2>3, <2>4, <2>5
       DEF Step, Crash, LoadFrozen, HashFrozen, CheckSnapshot, NeedSnapshot,
           ReadExisting, Evaluate, AssertReadonly, ReadOperations,
           ReadValidation, Preflight
<1>. QED  BY <1>1, <1>2 DEF Next

\* A published file and a recorded snapshot are never written again, and no
\* file disappears.
THEOREM EvaluationImmutable == Spec => Immutable
<1>1. Spec => [][ImmutableStep]_vars
  BY SpecIInv, StepImmutable, PTL DEF Spec
<1>. QED  BY <1>1 DEF Immutable, ImmutableStep

=============================================================================
