-------------------------- MODULE FinalEvaluation --------------------------
(***************************************************************************)
(* The one-time evaluation on the sealed TEST partition,                   *)
(* evaluation/final.py.                                                    *)
(*                                                                         *)
(* Any number of processes may run it over one project directory, at the   *)
(* same time or after one another, and any of them may be killed at any    *)
(* step.  They share the directory only: a snapshot of the frozen identity *)
(* written before TEST is opened, and the bundle of result files.  Files   *)
(* are created exclusively (open "xb") and filled afterwards, so a process *)
(* that dies in between leaves an empty or half-written one.               *)
(*                                                                         *)
(* The frozen files (metadata, artifacts, sources) are one version here;   *)
(* their owner may change them at any time, also while a run is between    *)
(* two reads of them.  A run reads them to make its identity, some of them *)
(* again while it evaluates, then compares their hashes with the identity, *)
(* and reads two of them once more, unchecked, for what it publishes.      *)
(***************************************************************************)
EXTENDS Integers, FiniteSets

CONSTANTS
  Runs,      \* processes, each running main() once
  Versions,  \* what the frozen files may contain
  Last,      \* number of files in the bundle; the last one is docs/*.md
  Absent,    \* a path that does not exist
  Partial    \* a file created and not completely written

ASSUME LastAssumption == Last \in Nat /\ Last >= 3

Files == 1 .. Last
Metrics == 1  \* final_test_metrics.json is written first
Release == 2  \* final_release_manifest.json; then the tables, and the report

\* What of the frozen files is read again for the results: configuration and
\* split by evaluate(), the operations manifest and the calibration metrics
\* by run().
Rereads == {"evaluation", "operations", "validation"}

\* The rereads that a file is made of.
MadeOf(f) ==
  IF f = Release THEN {"operations"}
  ELSE IF f = Last THEN {"evaluation", "validation"}
  ELSE {"evaluation"}

\* frozen_contract: what was loaded, and the hashes taken afterwards.
Identities == [objects : Versions, files : Versions]
\* The bytes of a result are a function of the identity, of generated_at (the
\* run that took it from the clock), of the snapshot and of what was read again.
Results == [identity : Identities, generated_at : Runs,
            data : UNION {[R -> Versions] : R \in SUBSET Rereads}]

ASSUME MarkersAssumption ==
  /\ Absent # Partial
  /\ {Absent, Partial} \cap (Identities \cup Results \cup Runs) = {}

VARIABLES
  frozen,    \* version of the frozen files on disk
  snap,      \* final_pre_unseal_snapshot.json
  bundle,    \* the result files
  pc,        \* where each run is
  mode,      \* "evaluate", "verify" or "snapshot"
  identity,  \* the local of run()
  read,      \* what it read again, in the version read
  old,       \* generated_at of the existing metrics, or Absent
  next,      \* the file that publish is about to write
  status,    \* what the run returned
  creator,   \* history: the run that created each file, or Absent
  unseen     \* history: the rereads that an edit may have reached unseen by
             \* the comparison of hashes

disk == <<frozen, snap, bundle, creator>>
\* The locals of a run that only the steps below named for them set.
reads == <<read, unseen>>
vars == <<frozen, snap, bundle, pc, mode, identity, read, old, next, status,
          creator, unseen>>

Modes == {"evaluate", "verify", "snapshot"}

Init ==
  /\ frozen \in Versions
  /\ snap = Absent
  /\ bundle = [f \in Files |-> Absent]
  /\ pc = [p \in Runs |-> "load"]
  /\ mode \in [Runs -> Modes]
  /\ identity = [p \in Runs |-> [objects |-> frozen, files |-> frozen]]
  /\ read = [p \in Runs |-> [r \in Rereads |-> frozen]]
  /\ old = [p \in Runs |-> Absent]
  /\ next = [p \in Runs |-> 1]
  /\ status = [p \in Runs |-> "none"]
  /\ creator = [f \in Files |-> Absent]
  /\ unseen = [p \in Runs |-> {}]

Goto(p, l) == pc' = [pc EXCEPT ![p] = l]
Return(p, s) == Goto(p, "ended") /\ status' = [status EXCEPT ![p] = s]
\* Any exception ends the run.
Fail(p) == Return(p, "error")

-----------------------------------------------------------------------------
\* The rereads of a run that an edit to version v reaches without a trace: what
\* evaluate() read is put back before the hashes are compared, or the edit
\* comes after the comparison and before the read.
Missed(p, v) ==
  {r \in Rereads :
     \/ r = "evaluation" /\ pc[p] = "readonly" /\ v = identity[p].files
     \/ r = "operations" /\ pc[p] = "operations"
     \/ r = "validation" /\ pc[p] \in {"operations", "validation"}}

\* The owner of the repository changes a frozen file, or changes it back.
Edit ==
  /\ frozen' \in Versions \ {frozen}
  /\ unseen' = [p \in Runs |-> unseen[p] \cup Missed(p, frozen')]
  /\ UNCHANGED <<snap, bundle, pc, mode, identity, read, old, next, status,
                 creator>>

\* The process is killed.
Crash(p) ==
  /\ pc[p] # "ended"
  /\ Return(p, "crashed")
  /\ UNCHANGED <<disk, reads, mode, identity, old, next>>

\* frozen_contract imports and loads first, and hashes what is there later.
\* Files that disagree with one another stop it.
LoadFrozen(p) ==
  /\ pc[p] = "load"
  /\ identity' = [identity EXCEPT ![p].objects = frozen]
  /\ \/ Goto(p, "hash") /\ UNCHANGED status
     \/ Fail(p)
  /\ UNCHANGED <<disk, reads, mode, old, next>>

HashFrozen(p) ==
  /\ pc[p] = "hash"
  /\ identity' = [identity EXCEPT ![p].files = frozen]
  /\ IF mode[p] = "verify" /\ bundle[Metrics] = Absent
     THEN Fail(p)
     ELSE Goto(p, "snapshot") /\ UNCHANGED status
  /\ UNCHANGED <<disk, reads, mode, old, next>>

\* Faulty: --snapshot-only is forgotten, and the run goes on.
AfterSnapshotAlways(p) == Goto(p, "existing") /\ UNCHANGED status

AfterSnapshot(p) ==
  IF mode[p] = "snapshot"
  THEN Return(p, "snapshot_verified")
  ELSE Goto(p, "existing") /\ UNCHANGED status

\* snapshot(), when one exists: half-written JSON raises, and so does another
\* identity.
CheckSnapshot(p) ==
  /\ pc[p] = "snapshot"
  /\ snap # Absent
  /\ IF snap = identity[p] THEN AfterSnapshot(p) ELSE Fail(p)
  /\ UNCHANGED <<disk, reads, mode, identity, old, next>>

\* No snapshot: results under data/metadata must not exist either, and git has
\* to tell its HEAD.
NeedSnapshot(p) ==
  /\ pc[p] = "snapshot"
  /\ snap = Absent
  /\ \/ /\ \A f \in 1 .. Last - 1 : bundle[f] = Absent
        /\ Goto(p, "create")
        /\ UNCHANGED status
     \/ Fail(p)
  /\ UNCHANGED <<disk, reads, mode, identity, old, next>>

\* Faulty: open "wb" in place of "xb".
CreateSnapshotOver(p) ==
  /\ pc[p] = "create"
  /\ snap' = Partial
  /\ Goto(p, "record")
  /\ UNCHANGED <<frozen, bundle, creator, reads, mode, identity, old, next, status>>

CreateSnapshot(p) ==
  /\ pc[p] = "create"
  /\ IF snap = Absent
     THEN /\ snap' = Partial
          /\ Goto(p, "record")
          /\ UNCHANGED status
     ELSE Fail(p) /\ UNCHANGED snap
  /\ UNCHANGED <<frozen, bundle, creator, reads, mode, identity, old, next>>

RecordSnapshot(p) ==
  /\ pc[p] = "record"
  /\ snap' = identity[p]
  /\ AfterSnapshot(p)
  /\ UNCHANGED <<frozen, bundle, creator, reads, mode, identity, old, next>>

\* run() reads the existing metrics, before TEST is opened.
ReadExisting(p) ==
  /\ pc[p] = "existing"
  /\ IF bundle[Metrics] = Absent
     THEN Goto(p, "evaluate") /\ UNCHANGED <<old, status>>
     ELSE IF bundle[Metrics] # Partial /\ bundle[Metrics].identity = identity[p]
     THEN /\ old' = [old EXCEPT ![p] = bundle[Metrics].generated_at]
          /\ Goto(p, "evaluate")
          /\ UNCHANGED status
     ELSE Fail(p) /\ UNCHANGED old
  /\ UNCHANGED <<disk, reads, mode, identity, next>>

\* A reread: what is on disk now.
Reread(p, r) == read' = [read EXCEPT ![p][r] = frozen]

\* evaluate() opens TEST, reading the configuration and the split manifest
\* again; its own checks may fail.
Evaluate(p) ==
  /\ pc[p] = "evaluate"
  /\ Reread(p, "evaluation")
  /\ \/ Goto(p, "readonly") /\ UNCHANGED status
     \/ Fail(p)
  /\ UNCHANGED <<disk, unseen, mode, identity, old, next>>

\* Faulty: the hashes are not compared again.
AssertReadonlyNever(p) ==
  /\ pc[p] = "readonly"
  /\ Goto(p, "operations")
  /\ UNCHANGED <<disk, reads, mode, identity, old, next, status>>

\* assert_readonly compares the disk with the hashes of the identity.
AssertReadonly(p) ==
  /\ pc[p] = "readonly"
  /\ IF frozen = identity[p].files
     THEN Goto(p, "operations") /\ UNCHANGED status
     ELSE Fail(p)
  /\ UNCHANGED <<disk, reads, mode, identity, old, next>>

\* run() reads the operations manifest for the release manifest, and then the
\* calibration metrics for the report.
ReadOperations(p) ==
  /\ pc[p] = "operations"
  /\ Reread(p, "operations")
  /\ \/ Goto(p, "validation") /\ UNCHANGED status
     \/ Fail(p)
  /\ UNCHANGED <<disk, unseen, mode, identity, old, next>>

ReadValidation(p) ==
  /\ pc[p] = "validation"
  /\ Reread(p, "validation")
  /\ \/ Goto(p, "publish") /\ UNCHANGED status
     \/ Fail(p)
  /\ UNCHANGED <<disk, unseen, mode, identity, old, next>>

\* The content of file f.
Result(p, f) ==
  [identity |-> identity[p],
   generated_at |-> IF old[p] = Absent THEN p ELSE old[p],
   data |-> [r \in MadeOf(f) |-> read[p][r]]]

\* Faulty: the files that are there agree, so the bundle is taken as verified.
PreflightLenient(p) ==
  /\ pc[p] = "publish"
  /\ \/ /\ \A f \in Files : bundle[f] = Absent
        /\ mode[p] # "verify"
        /\ Goto(p, "create_file")
        /\ UNCHANGED status
     \/ /\ \E f \in Files : bundle[f] # Absent
        /\ \A f \in Files : bundle[f] \in {Absent, Result(p, f)}
        /\ Return(p, "verified_existing")
  /\ UNCHANGED <<disk, reads, mode, identity, old, next>>

\* publish() looks at the whole bundle first.  Files only ever appear, in one
\* order, so looking at them one by one sees what looking at once may see.
Preflight(p) ==
  /\ pc[p] = "publish"
  /\ \/ /\ \A f \in Files : bundle[f] = Absent
        /\ mode[p] # "verify"
        /\ Goto(p, "create_file")
        /\ UNCHANGED status
     \/ /\ \A f \in Files : bundle[f] = Result(p, f)
        /\ Return(p, "verified_existing")
     \/ /\ \E f \in Files : bundle[f] # Result(p, f)
        /\ \/ \E f \in Files : bundle[f] # Absent
           \/ mode[p] = "verify"
        /\ Fail(p)
  /\ UNCHANGED <<disk, reads, mode, identity, old, next>>

\* Faulty: open "wb" in place of "xb".
CreateFileOver(p) ==
  /\ pc[p] = "create_file"
  /\ bundle' = [bundle EXCEPT ![next[p]] = Partial]
  /\ creator' = [creator EXCEPT ![next[p]] = p]
  /\ Goto(p, "write_file")
  /\ UNCHANGED <<frozen, snap, reads, mode, identity, old, next, status>>

\* Faulty: files that exist by now are skipped, the missing ones filled in.
CreateFileResuming(p) ==
  /\ pc[p] = "create_file"
  /\ IF bundle[next[p]] = Absent
     THEN /\ bundle' = [bundle EXCEPT ![next[p]] = Partial]
          /\ creator' = [creator EXCEPT ![next[p]] = p]
          /\ Goto(p, "write_file")
          /\ UNCHANGED next
     ELSE /\ next' = [next EXCEPT ![p] = IF @ < Last THEN @ + 1 ELSE @]
          /\ UNCHANGED <<bundle, creator, pc>>
  /\ UNCHANGED <<frozen, snap, reads, mode, identity, old, status>>

CreateFile(p) ==
  /\ pc[p] = "create_file"
  /\ IF bundle[next[p]] = Absent
     THEN /\ bundle' = [bundle EXCEPT ![next[p]] = Partial]
          /\ creator' = [creator EXCEPT ![next[p]] = p]
          /\ Goto(p, "write_file")
          /\ UNCHANGED status
     ELSE Fail(p) /\ UNCHANGED <<bundle, creator>>
  /\ UNCHANGED <<frozen, snap, reads, mode, identity, old, next>>

WriteFile(p) ==
  /\ pc[p] = "write_file"
  /\ bundle' = [bundle EXCEPT ![next[p]] = Result(p, next[p])]
  /\ IF next[p] = Last
     THEN Return(p, "published") /\ UNCHANGED next
     ELSE /\ next' = [next EXCEPT ![p] = next[p] + 1]
          /\ Goto(p, "create_file")
          /\ UNCHANGED status
  /\ UNCHANGED <<frozen, snap, creator, reads, mode, identity, old>>

Step(p) ==
  \/ LoadFrozen(p) \/ HashFrozen(p)
  \/ CheckSnapshot(p) \/ NeedSnapshot(p) \/ CreateSnapshot(p)
  \/ RecordSnapshot(p) \/ ReadExisting(p) \/ Evaluate(p)
  \/ AssertReadonly(p) \/ ReadOperations(p) \/ ReadValidation(p)
  \/ Preflight(p) \/ CreateFile(p) \/ WriteFile(p)

Next == Edit \/ \E p \in Runs : Step(p) \/ Crash(p)

Spec == Init /\ [][Next]_vars

-----------------------------------------------------------------------------
(***************************************************************************)
(* Properties.                                                             *)
(***************************************************************************)

TypeOK ==
  /\ frozen \in Versions
  /\ snap \in {Absent, Partial} \cup Identities
  /\ bundle \in [Files -> {Absent, Partial} \cup Results]
  /\ pc \in [Runs -> {"load", "hash", "snapshot", "create", "record",
                      "existing", "evaluate", "readonly", "operations",
                      "validation", "publish", "create_file", "write_file",
                      "ended"}]
  /\ mode \in [Runs -> Modes]
  /\ identity \in [Runs -> Identities]
  /\ read \in [Runs -> [Rereads -> Versions]]
  /\ old \in [Runs -> Runs \cup {Absent}]
  /\ next \in [Runs -> Files]
  /\ status \in [Runs -> {"none", "error", "crashed", "snapshot_verified",
                          "verified_existing", "published"}]
  /\ creator \in [Files -> Runs \cup {Absent}]
  /\ unseen \in [Runs -> SUBSET Rereads]

\* The files of the bundle all come from one run, however many ran, raced or
\* died half-way: an interrupted publication is never filled in by another.
OneCreator ==
  \A f, g \in Files :
    creator[f] # Absent /\ creator[g] # Absent => creator[f] = creator[g]

\* Results are only ever published for the identity that the snapshot
\* recorded before TEST was opened, and are made of the frozen files that it
\* recorded: what was read again had the recorded hashes, unless an edit fell
\* where the one comparison of hashes cannot see it.  Metrics and tables in
\* particular are out of reach of any edit after that comparison.
BundleMatchesSnapshot ==
  \A f \in Files : bundle[f] \in Results =>
    /\ bundle[f].identity = snap
    /\ \A r \in MadeOf(f) :
         \/ bundle[f].data[r] = snap.files
         \/ r \in unseen[creator[f]]

\* TEST stays sealed until a complete snapshot of this very identity exists.
SealedUntilSnapshot ==
  \A p \in Runs :
    pc[p] \in {"evaluate", "readonly", "operations", "validation", "publish",
               "create_file", "write_file"}
      => snap = identity[p]

\* A run that reports a published or verified bundle reports what is there,
\* and stays right: all files are complete and hold the result of that run.
ReportedIsThere ==
  \A p \in Runs :
    status[p] \in {"published", "verified_existing"} =>
      \A f \in Files : bundle[f] = Result(p, f)

\* Published bytes and the recorded snapshot are immutable, and nothing that
\* exists disappears.
Immutable ==
  [][/\ \A f \in Files : bundle[f] \in Results => bundle'[f] = bundle[f]
     /\ \A f \in Files : bundle[f] # Absent => bundle'[f] # Absent
     /\ snap \in Identities => snap' = snap]_vars

\* A run that only verifies, or only takes the snapshot, publishes nothing.
ReadersPublishNothing ==
  \A f \in Files : creator[f] # Absent => mode[creator[f]] = "evaluate"

=============================================================================
