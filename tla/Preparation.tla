---------------------------- MODULE Preparation ----------------------------
(***************************************************************************)
(* Preparation of the data and the boundary behind which models are made,  *)
(* features/prepare.py, features/preprocessing.py, modeling/contract.py.   *)
(*                                                                         *)
(* A run prepares (run_preparation) or loads (load_modeling_data).  Both   *)
(* verify what Acquisition left, whose processes and files are here as     *)
(* well.  Runs overlap, fail and are killed, and the owner of the          *)
(* repository edits its configuration and its code at any time: a run may  *)
(* find any version of them whenever it looks.  One version of each was    *)
(* reviewed; the hashes in PHASE3_IDENTITIES are of what it produces.  The *)
(* time of a manifest is named, as in Acquisition, by the run that took it. *)
(***************************************************************************)
EXTENDS Acquisition, Integers, Sequences

CONSTANTS
  Runs,      \* runs, each preparing or loading once
  Versions,  \* versions of the configuration, and of the code in features/
  Reviewed,  \* the version that was reviewed
  Partial    \* an artifact that was created and not, or not fully, written

ASSUME VersionsAssumption ==
  /\ Reviewed \in Versions
  /\ {Absent, Unreadable, Partial} \cap Versions = {}
  /\ Absent # Partial /\ "whole" \notin {Absent, Partial}
  /\ Earlier \notin Runs

VARIABLES
  metadata,   \* the three manifests in data/metadata
  artifacts,  \* artifacts/preprocessing, by what was fitted
  at,         \* where each run is
  mode,       \* "prepare" or "load"
  conf,       \* the local config
  memory,     \* the code of features/ that the run has imported
  hashed,     \* the code of features/ that it found on disk later
  held,       \* the manifests that a load has read, as it identifies them
  time        \* the local generated_at

files == <<metadata, artifacts>>
locals == <<mode, conf, memory, hashed, held, time>>
prepVars == <<files, at, locals>>

\* What a fit, and the bytes of its artifact, depend on besides the raw bytes.
Fits == [config : Versions, code : Versions]
Fit(p) == [config |-> conf[p], code |-> memory[p]]

\* What a run writes into the manifests.  The split and the names of the
\* features are taken to be the same for every version of the code, so that
\* only its hashes tell two versions apart.
SplitContent(p) == conf[p]
FeatureContent(p) == conf[p]

\* preprocessing_manifest.json without and with its generation time.
Content(p) == [fit |-> Fit(p), implementation |-> hashed[p]]
Undated(m) == [fit |-> m.fit, implementation |-> m.implementation]
Dated(c, t) ==
  [fit |-> c.fit, implementation |-> c.implementation, generated_at |-> t]

\* The manifests in the order of PHASE3_IDENTITIES, and their identities.
Contracts == <<"split_manifest", "feature_manifest", "preprocessing_manifest">>
ReviewedFit == [config |-> Reviewed, code |-> Reviewed]
ReviewedContent == [fit |-> ReviewedFit, implementation |-> Reviewed]
PHASE3_IDENTITIES ==
  [split_manifest |-> Reviewed, feature_manifest |-> Reviewed,
   preprocessing_manifest |-> ReviewedContent]

Fresh ==
  [split_manifest |-> Absent, feature_manifest |-> Absent,
   preprocessing_manifest |-> Absent]
Committed ==
  [split_manifest |-> Reviewed, feature_manifest |-> Reviewed,
   preprocessing_manifest |-> Dated(ReviewedContent, Earlier)]

\* The manifests are in the repository, the artifacts are not.
PrepInit ==
  /\ metadata \in {Fresh, Committed,
                   [Committed EXCEPT !.preprocessing_manifest = Unreadable]}
  /\ artifacts = [f \in Fits |-> Absent]
  /\ at = [p \in Runs |-> "waiting"]
  /\ mode = [p \in Runs |-> "prepare"]
  /\ conf = [p \in Runs |-> Reviewed]
  /\ memory = [p \in Runs |-> Reviewed]
  /\ hashed = [p \in Runs |-> Reviewed]
  /\ held = [p \in Runs |-> Fresh]
  /\ time = [p \in Runs |-> Earlier]

Ended == {"done", "data", "stopped"}
Running(p) == at[p] \notin Ended \cup {"waiting"}

Enter(p, l) == at' = [at EXCEPT ![p] = l]

-----------------------------------------------------------------------------
\* Any check, read or write may raise, and a run may be killed.
Stop(p) ==
  /\ Running(p)
  /\ Enter(p, "stopped")
  /\ UNCHANGED <<files, locals, vars>>

\* A process imports its modules and reads the configuration.
Begin(p) ==
  /\ at[p] = "waiting"
  /\ \E m \in {"prepare", "load"}, c, d \in Versions :
       /\ mode' = [mode EXCEPT ![p] = m]
       /\ conf' = [conf EXCEPT ![p] = c]
       /\ memory' = [memory EXCEPT ![p] = d]
       /\ Enter(p, IF m = "prepare" THEN "raw" ELSE Contracts[1])
  /\ UNCHANGED <<files, hashed, held, time, vars>>

(***************************************************************************)
(* verify_dataset_manifest, common to both: the raw file is hashed, the    *)
(* manifest compared, and then the raw file read again.                    *)
(***************************************************************************)
VerifyRawDigest(p) ==
  /\ at[p] = "raw"
  /\ raw = "pinned"
  /\ Enter(p, "dataset")
  /\ UNCHANGED <<files, locals, vars>>

VerifyDataset(p) ==
  /\ at[p] = "dataset"
  /\ Pinned(manifest)
  /\ Enter(p, "source")
  /\ UNCHANGED <<files, locals, vars>>

\* load_source checks the layout of what it reads, not its digest.
ReadSource(p) ==
  /\ at[p] = "source"
  /\ raw # Absent
  /\ Enter(p, IF mode[p] = "prepare" THEN "find" ELSE "transform")
  /\ UNCHANGED <<files, locals, vars>>

-----------------------------------------------------------------------------
(***************************************************************************)
(* run_preparation.                                                        *)
(***************************************************************************)
\* save_preprocessor, for the digest of what was fitted: existing bytes must
\* be the same.
FindArtifact(p) ==
  /\ at[p] = "find"
  /\ \/ artifacts[Fit(p)] = Absent /\ Enter(p, "create")
     \/ artifacts[Fit(p)] = "whole" /\ Enter(p, "round_trip")
  /\ UNCHANGED <<files, locals, vars>>

\* Faulty: open "wb" in place of "xb".
CreateArtifactOver(p) ==
  /\ at[p] = "create"
  /\ artifacts' = [artifacts EXCEPT ![Fit(p)] = Partial]
  /\ Enter(p, "fill")
  /\ UNCHANGED <<metadata, locals, vars>>

CreateArtifact(p) ==
  /\ at[p] = "create"
  /\ artifacts[Fit(p)] = Absent
  /\ artifacts' = [artifacts EXCEPT ![Fit(p)] = Partial]
  /\ Enter(p, "fill")
  /\ UNCHANGED <<metadata, locals, vars>>

FillArtifact(p) ==
  /\ at[p] = "fill"
  /\ artifacts' = [artifacts EXCEPT ![Fit(p)] = "whole"]
  /\ Enter(p, "round_trip")
  /\ UNCHANGED <<metadata, locals, vars>>

\* load_preprocessor, what it transforms, and the hashes of the code as it is
\* on disk by now.
RoundTrip(p) ==
  /\ at[p] = "round_trip"
  /\ artifacts[Fit(p)] = "whole"
  /\ \E d \in Versions : hashed' = [hashed EXCEPT ![p] = d]
  /\ Enter(p, "write_split")
  /\ UNCHANGED <<files, mode, conf, memory, held, time, vars>>

WriteSplit(p) ==
  /\ at[p] = "write_split"
  /\ metadata' = [metadata EXCEPT !.split_manifest = SplitContent(p)]
  /\ Enter(p, "write_feature")
  /\ UNCHANGED <<artifacts, locals, vars>>

WriteFeature(p) ==
  /\ at[p] = "write_feature"
  /\ metadata' = [metadata EXCEPT !.feature_manifest = FeatureContent(p)]
  /\ Enter(p, "date")
  /\ UNCHANGED <<artifacts, locals, vars>>

\* Faulty: the time of whatever was there is kept.
DateOfAny(p, old) == IF old = Absent THEN p ELSE old.generated_at

\* _write_timestamped keeps the time of unchanged content.
DateOf(p, old) ==
  IF old # Absent /\ Undated(old) = Content(p) THEN old.generated_at ELSE p

ReadOldTime(p) ==
  /\ at[p] = "date"
  /\ metadata.preprocessing_manifest # Unreadable
  /\ time' = [time EXCEPT ![p] = DateOf(p, metadata.preprocessing_manifest)]
  /\ Enter(p, "write_preprocessing")
  /\ UNCHANGED <<files, mode, conf, memory, hashed, held, vars>>

WritePreprocessing(p) ==
  /\ at[p] = "write_preprocessing"
  /\ metadata' =
       [metadata EXCEPT !.preprocessing_manifest = Dated(Content(p), time[p])]
  /\ Enter(p, "done")
  /\ UNCHANGED <<artifacts, locals, vars>>

-----------------------------------------------------------------------------
(***************************************************************************)
(* load_modeling_data.                                                     *)
(***************************************************************************)
IsReadable(name) == metadata[name] \notin {Absent, Unreadable}

\* manifest_identity leaves the generation time out.
Identity(name) ==
  IF name = "preprocessing_manifest" THEN Undated(metadata[name])
  ELSE metadata[name]

\* Faulty: a manifest that can be read is not compared with its identity.
IsAnything(name) == IsReadable(name)

IsReviewed(name) ==
  IsReadable(name) /\ Identity(name) = PHASE3_IDENTITIES[name]

\* read_contracts reads one manifest after another.
ReadContract(p) ==
  \E i \in 1 .. 3 :
    /\ at[p] = Contracts[i]
    /\ IsReviewed(Contracts[i])
    /\ held' = [held EXCEPT ![p][Contracts[i]] = Identity(Contracts[i])]
    /\ Enter(p, IF i < 3 THEN Contracts[i + 1] ELSE "compare")
    /\ UNCHANGED <<files, mode, conf, memory, hashed, time, vars>>

\* The configuration that was read is the one that the split manifest names,
\* and the code that is on disk by now the one of the preprocessing manifest.
Compare(p) ==
  /\ at[p] = "compare"
  /\ conf[p] = held[p].split_manifest
  /\ hashed' =
       [hashed EXCEPT ![p] = held[p].preprocessing_manifest.implementation]
  /\ Enter(p, "raw")
  /\ UNCHANGED <<files, mode, conf, memory, held, time, vars>>

\* The artifact that the preprocessing manifest names has the names of the
\* feature manifest, and makes the matrices.
Transform(p) ==
  LET fit == held[p].preprocessing_manifest.fit
  IN  /\ at[p] = "transform"
      /\ artifacts[fit] = "whole"
      /\ held[p].feature_manifest = fit.config
      /\ Enter(p, "data")
      /\ UNCHANGED <<files, locals, vars>>

Prepare(p) ==
  \/ FindArtifact(p) \/ CreateArtifact(p) \/ FillArtifact(p) \/ RoundTrip(p)
  \/ WriteSplit(p) \/ WriteFeature(p) \/ ReadOldTime(p) \/ WritePreprocessing(p)

Load(p) == ReadContract(p) \/ Compare(p) \/ Transform(p)

Preparing ==
  \E p \in Runs :
    \/ Begin(p) \/ VerifyRawDigest(p) \/ VerifyDataset(p) \/ ReadSource(p)
    \/ Prepare(p) \/ Load(p) \/ Stop(p)

BothInit == Init /\ PrepInit

BothNext == Preparing \/ (Next /\ UNCHANGED prepVars)

BothSpec == BothInit /\ [][BothNext]_<<vars, prepVars>>

-----------------------------------------------------------------------------
(***************************************************************************)
(* Properties.                                                             *)
(***************************************************************************)
PrepTypeOK ==
  /\ metadata \in
       [split_manifest : Versions \cup {Absent, Unreadable},
        feature_manifest : Versions \cup {Absent, Unreadable},
        preprocessing_manifest : {Absent, Unreadable} \cup
          [fit : Fits, implementation : Versions,
           generated_at : Runs \cup {Earlier}]]
  /\ artifacts \in [Fits -> {Absent, Partial, "whole"}]
  /\ at \in [Runs -> Ended \cup
               {"waiting", "raw", "dataset", "source", "find", "create", "fill",
                "round_trip", "write_split", "write_feature", "date",
                "write_preprocessing", "split_manifest", "feature_manifest",
                "preprocessing_manifest", "compare", "transform"}]
  /\ mode \in [Runs -> {"prepare", "load"}]
  /\ conf \in [Runs -> Versions]
  /\ memory \in [Runs -> Versions]
  /\ hashed \in [Runs -> Versions]
  /\ held \in
       [Runs -> [split_manifest : Versions \cup {Absent},
                 feature_manifest : Versions \cup {Absent},
                 preprocessing_manifest :
                   {Absent} \cup [fit : Fits, implementation : Versions]]]
  /\ time \in [Runs -> Runs \cup {Earlier}]

\* Models are made of the pinned bytes, split as reviewed and transformed by
\* the artifact of the reviewed fit, although a run finds manifest, artifact,
\* configuration and code each at its own time, and whatever was prepared,
\* acquired or edited before or meanwhile; and with the reviewed code, unless
\* that was edited between its import and its hashing.
DataIsReviewed ==
  \A p \in Runs : at[p] = "data" =>
    LET fit == held[p].preprocessing_manifest.fit
    IN  /\ raw = "pinned" /\ Pinned(manifest)
        /\ conf[p] = Reviewed
        /\ fit = ReviewedFit /\ artifacts[fit] = "whole"
        /\ memory[p] = hashed[p] => memory[p] = Reviewed

\* A preparation that succeeded, or has begun to publish, leaves an artifact
\* that can be loaded, and no other run ever takes it away or damages it.
ReportedIsLoadable ==
  \A p \in Runs :
    mode[p] = "prepare"
      /\ at[p] \in {"write_split", "write_feature", "date",
                    "write_preprocessing", "done"}
      => artifacts[Fit(p)] = "whole"

\* A generation time is that of a run which generated just this content: it
\* survives regeneration of the content and never passes to another one.
TimeIsOfTheContent ==
  \A p \in Runs :
    LET m == metadata.preprocessing_manifest
    IN  m \notin {Absent, Unreadable} /\ m.generated_at = p
          => Undated(m) = Content(p)

=============================================================================
