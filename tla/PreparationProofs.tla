------------------------- MODULE PreparationProofs -------------------------
(***************************************************************************)
(* What Acquisition and Preparation promise for any number of processes,   *)
(* runs and versions.  A step of the two together is one of Acquisition    *)
(* that leaves the runs alone, or one of a run that leaves the processes   *)
(* alone, so the theorems of Acquisition carry over by Composition.        *)
(***************************************************************************)
EXTENDS Preparation, TLAPS

USE NamesAssumption, VersionsAssumption

-----------------------------------------------------------------------------
(***************************************************************************)
(* Acquisition.  A process past its verification relies on raw bytes that  *)
(* nobody replaces; a retrieval time exists only behind a link, and a link *)
(* only behind a raw file, so the process that links finds no other time.  *)
(***************************************************************************)
Verified == {"manifest", "load", "write", "replace", "done"}

VerifiedInv == \A p \in Procs : pc[p] \in Verified => raw = "pinned"

DoneInv == \A p \in Procs : pc[p] = "done" => Pinned(manifest)

LinkInv == linker # Absent => raw # Absent

AInv == TypeOK /\ VerifiedInv /\ DoneInv /\ LinkInv /\ TimeIsOfTheDownload

LEMMA NewIsPinned ==
  ASSUME TypeOK, NEW p \in Procs
  PROVE  Pinned(New(p)) /\ New(p).retrieved_at = retrieved[p]
  BY DEF TypeOK, New, Pinned, Manifests, Bytes, Times

LEMMA InitAInv == Init => AInv
<1> SUFFICES ASSUME Init PROVE AInv
  OBVIOUS
<1>1. TypeOK
  BY DEF Init, TypeOK, Manifests, Bytes, Times, Stopped
<1>2. VerifiedInv /\ DoneInv /\ LinkInv
  BY DEF Init, VerifiedInv, DoneInv, LinkInv, Verified
<1>3. TimeIsOfTheDownload
  BY DEF Init, TimeIsOfTheDownload, Manifests, Bytes, Times
<1>. QED  BY <1>1, <1>2, <1>3 DEF AInv

\* A step of p that moves p alone and touches neither the files that matter
\* nor what was retrieved.
LEMMA QuietStep ==
  ASSUME AInv, NEW p \in Procs, NEW l, Goto(p, l),
         l \in Stopped \cup
               {"look", "fetch", "raw_temp", "link", "unlink", "unlink_error",
                "verify", "manifest", "load", "write", "replace"},
         l \in Verified => raw = "pinned",
         l = "done" => Pinned(manifest),
         rawTemp' \subseteq Procs, manifestTemp' \subseteq Procs,
         UNCHANGED <<raw, manifest, retrieved, linker>>
  PROVE  AInv'
<1>1. TypeOK'
  BY DEF AInv, TypeOK, Goto
<1>2. VerifiedInv' /\ DoneInv'
  BY DEF AInv, VerifiedInv, DoneInv, Goto, TypeOK
<1>3. LinkInv' /\ TimeIsOfTheDownload'
  BY DEF AInv, LinkInv, TimeIsOfTheDownload
<1>. QED  BY <1>1, <1>2, <1>3 DEF AInv

LEMMA LinkAInv ==
  ASSUME AInv, NEW p \in Procs, Link(p) PROVE AInv'
<1>1. CASE UNCHANGED raw /\ UNCHANGED <<retrieved, linker>>
  <2>1. PICK l \in {"unlink", "unlink_error"} : Goto(p, l)
    BY <1>1 DEF Link
  <2>2. l \notin Verified
    BY <2>1 DEF Verified
  <2>3. l # "done"
    BY <2>1
  <2>4. UNCHANGED <<raw, manifest, retrieved, linker, rawTemp, manifestTemp>>
    BY <1>1 DEF Link
  <2>. QED  BY <2>1, <2>2, <2>3, <2>4, QuietStep DEF AInv, TypeOK
<1>2. CASE /\ raw = Absent
           /\ raw' = "pinned"
           /\ linker' = p
           /\ retrieved' = [retrieved EXCEPT ![p] = p]
           /\ Goto(p, "unlink")
  <2>0. UNCHANGED <<manifest, rawTemp, manifestTemp>>
    BY DEF Link
  <2>1. TypeOK'
    BY <1>2, <2>0 DEF AInv, TypeOK, Goto, Bytes, Times
  <2>2. VerifiedInv' /\ DoneInv' /\ LinkInv'
    BY <1>2, <2>0 DEF AInv, VerifiedInv, DoneInv, LinkInv, Goto, Verified,
       TypeOK, Bytes
  <2>3. linker = Absent
    BY <1>2 DEF AInv, LinkInv
  <2>4. \A q \in Procs : linker # q
    BY <2>3 DEF Times
  <2>5. \A q, q2 \in Procs :
          ~(manifest \in Manifests /\ manifest.retrieved_at = q)
          /\ retrieved[q2] # q
    BY <2>4 DEF AInv, TimeIsOfTheDownload
  <2>6. TimeIsOfTheDownload'
    BY <1>2, <2>0, <2>5 DEF TimeIsOfTheDownload, AInv, TypeOK
  <2>. QED  BY <2>1, <2>2, <2>6 DEF AInv
<1>. QED  BY <1>1, <1>2 DEF Link

LEMMA ReadManifestAInv ==
  ASSUME AInv, NEW p \in Procs, ReadManifest(p) PROVE AInv'
<1>0. /\ raw = "pinned"
      /\ UNCHANGED <<raw, manifest, rawTemp, manifestTemp, linker>>
  BY DEF ReadManifest, AInv, VerifiedInv, Verified
<1>1. CASE UNCHANGED retrieved
  <2>1. PICK l \in {"load", "error"} : Goto(p, l)
    BY DEF ReadManifest
  <2>2. l \in Stopped \cup {"load"} /\ l # "done"
    BY <2>1 DEF Stopped
  <2>. QED  BY <1>0, <1>1, <2>1, <2>2, QuietStep DEF AInv, TypeOK
<1>2. CASE /\ manifest # Absent
           /\ manifest # Unreadable /\ manifest.sha256 = "pinned"
           /\ retrieved' = [retrieved EXCEPT ![p] = manifest.retrieved_at]
           /\ Goto(p, "load")
  <2>1. manifest \in Manifests /\ manifest.retrieved_at \in Times
    BY <1>2 DEF AInv, TypeOK, Manifests
  <2>2. TypeOK'
    BY <1>0, <1>2, <2>1 DEF AInv, TypeOK, Goto
  <2>3. VerifiedInv' /\ DoneInv' /\ LinkInv'
    BY <1>0, <1>2 DEF AInv, VerifiedInv, DoneInv, LinkInv, Goto, TypeOK
  <2>4. TimeIsOfTheDownload'
    BY <1>0, <1>2, <2>1 DEF AInv, TypeOK, TimeIsOfTheDownload
  <2>. QED  BY <2>2, <2>3, <2>4 DEF AInv
<1>. QED  BY <1>1, <1>2 DEF ReadManifest

LEMMA ReplaceManifestAInv ==
  ASSUME AInv, NEW p \in Procs, ReplaceManifest(p) PROVE AInv'
<1>0. /\ raw = "pinned"
      /\ UNCHANGED <<raw, rawTemp, retrieved, linker>>
      /\ manifestTemp' \subseteq Procs
  BY DEF ReplaceManifest, AInv, VerifiedInv, Verified, TypeOK
<1>1. CASE Goto(p, "error") /\ UNCHANGED manifest
  <2>1. "error" \in Stopped /\ "error" \notin Verified
    BY DEF Stopped, Verified
  <2>. QED  BY <1>0, <1>1, <2>1, QuietStep DEF AInv, TypeOK
<1>2. CASE manifest' = New(p) /\ Goto(p, "done")
  <2>1. Pinned(manifest') /\ manifest'.retrieved_at = retrieved[p]
    BY <1>2, NewIsPinned DEF AInv
  <2>2. TypeOK'
    BY <1>0, <1>2, <2>1 DEF AInv, TypeOK, Goto, Pinned, Stopped
  <2>3. VerifiedInv' /\ DoneInv' /\ LinkInv'
    BY <1>0, <1>2, <2>1 DEF AInv, VerifiedInv, DoneInv, LinkInv, Goto, TypeOK
  <2>4. TimeIsOfTheDownload'
    BY <1>0, <2>1 DEF AInv, TimeIsOfTheDownload
  <2>. QED  BY <2>2, <2>3, <2>4 DEF AInv
<1>. QED  BY <1>1, <1>2 DEF ReplaceManifest

LEMMA NextAInv == AInv /\ [Next]_vars => AInv'
<1> SUFFICES ASSUME AInv, [Next]_vars PROVE AInv'
  OBVIOUS
<1>1. CASE SomebodyWrites
  <2>1. TypeOK'
    BY <1>1 DEF SomebodyWrites, AInv, TypeOK
  <2>2. VerifiedInv' /\ DoneInv' /\ LinkInv' /\ TimeIsOfTheDownload'
    BY <1>1 DEF SomebodyWrites, AInv, VerifiedInv, DoneInv, LinkInv,
       TimeIsOfTheDownload, Bytes, Pinned
  <2>. QED  BY <2>1, <2>2 DEF AInv
<1>2. ASSUME NEW p \in Procs,
             Killed(p) \/ Look(p) \/ Fetch(p) \/ WriteRawTemp(p)
               \/ UnlinkRawTemp(p) \/ VerifyRaw(p)
      PROVE  AInv'
  <2>1. /\ UNCHANGED <<raw, manifest, manifestTemp, retrieved, linker>>
        /\ rawTemp' \subseteq Procs
    BY <1>2 DEF Killed, Look, Fetch, WriteRawTemp, UnlinkRawTemp, VerifyRaw,
       AInv, TypeOK
  <2>2. PICK l \in {"killed", "fetch", "verify", "error", "raw_temp", "link",
                    "failed_write", "manifest"} :
          Goto(p, l) /\ (l = "manifest" => raw = "pinned")
    BY <1>2 DEF Killed, Look, Fetch, WriteRawTemp, UnlinkRawTemp, VerifyRaw
  <2>. QED  BY <2>1, <2>2, QuietStep DEF AInv, TypeOK, Stopped, Verified
<1>3. ASSUME NEW p \in Procs, LoadSource(p) \/ WriteManifestTemp(p)
      PROVE  AInv'
  <2>1. /\ UNCHANGED <<raw, manifest, rawTemp, retrieved, linker>>
        /\ manifestTemp' \subseteq Procs
        /\ raw = "pinned"
    BY <1>3 DEF LoadSource, WriteManifestTemp, AInv, TypeOK, VerifiedInv,
       Verified
  <2>2. PICK l \in {"write", "error", "done", "replace", "failed_write"} :
          Goto(p, l) /\ (l = "done" => manifest = New(p))
    BY <1>3 DEF LoadSource, WriteManifestTemp
  <2>3. l = "done" => Pinned(manifest)
    BY <2>2, NewIsPinned DEF AInv
  <2>. QED  BY <2>1, <2>2, <2>3, QuietStep DEF AInv, TypeOK, Stopped
<1>4. CASE UNCHANGED vars
  BY <1>4 DEF vars, AInv, TypeOK, VerifiedInv, DoneInv, LinkInv,
     TimeIsOfTheDownload
<1>. QED
  BY <1>1, <1>2, <1>3, <1>4, LinkAInv, ReadManifestAInv, ReplaceManifestAInv
     DEF Next, Run

\* Nothing but a file put where none was changes the raw bytes, and a manifest
\* of the pinned bytes is only ever replaced by another one.
LEMMA InputsAreKept ==
  ASSUME AInv, [Next]_vars
  PROVE  /\ raw # Absent => raw' = raw
         /\ Pinned(manifest) => Pinned(manifest')
<1>1. raw # Absent => raw' = raw
  BY DEF Next, Run, SomebodyWrites, Killed, Look, Fetch, WriteRawTemp, Link,
     UnlinkRawTemp, VerifyRaw, ReadManifest, LoadSource, WriteManifestTemp,
     ReplaceManifest, vars
<1>2. manifest' = manifest \/ \E p \in Procs : manifest' = New(p)
  BY DEF Next, Run, SomebodyWrites, Killed, Look, Fetch, WriteRawTemp, Link,
     UnlinkRawTemp, VerifyRaw, ReadManifest, LoadSource, WriteManifestTemp,
     ReplaceManifest, vars
<1>. QED  BY <1>1, <1>2, NewIsPinned DEF AInv

LEMMA SpecAInv == Spec => []AInv
BY InitAInv, NextAInv, PTL DEF Spec

\* Every variable of an acquisition keeps its type.
THEOREM AcquisitionTypeOK == Spec => []TypeOK
<1>1. AInv => TypeOK
  BY DEF AInv
<1>. QED  BY <1>1, SpecAInv, PTL

\* However many acquisitions race, fail or are killed, success means that the
\* raw file is the pinned one and that its manifest says so.
THEOREM AcquisitionDoneMeansVerified == Spec => []DoneMeansVerified
<1>1. AInv => DoneMeansVerified
  BY DEF AInv, VerifiedInv, DoneInv, DoneMeansVerified, Verified
<1>. QED  BY <1>1, SpecAInv, PTL

\* A recorded retrieval time is that of the download that became the raw file.
THEOREM AcquisitionTimeIsOfTheDownload == Spec => []TimeIsOfTheDownload
<1>1. AInv => TimeIsOfTheDownload
  BY DEF AInv
<1>. QED  BY <1>1, SpecAInv, PTL

\* Nobody ever overwrites or removes a raw file.
THEOREM AcquisitionRawIsKept == Spec => RawIsKept
<1>1. AInv /\ [Next]_vars => [raw # Absent => raw' = raw]_vars
  BY InputsAreKept
<1>. QED  BY <1>1, SpecAInv, PTL DEF Spec, RawIsKept

-----------------------------------------------------------------------------
(***************************************************************************)
(* Preparation.  What a run relies on stays once it was seen: the raw      *)
(* bytes, a manifest of them, and a whole artifact.  A time in the         *)
(* preprocessing manifest, or about to be written there, is that of a run  *)
(* which is past its own dating, whose content no longer changes.          *)
(***************************************************************************)
Publishing ==
  {"write_split", "write_feature", "date", "write_preprocessing", "done"}
Settled == {"write_preprocessing", "done", "stopped"}

\* What has been verified by now.
SourceInv ==
  \A p \in Runs :
    /\ at[p] \in {"dataset", "source", "transform", "data"} => raw = "pinned"
    /\ at[p] \in {"source", "transform", "data"} => Pinned(manifest)

\* What a load has read is what was reviewed, and what it has compared agrees.
Compared(p) ==
  /\ held[p] = PHASE3_IDENTITIES
  /\ conf[p] = Reviewed /\ hashed[p] = Reviewed

ContractInv ==
  \A p \in Runs :
    /\ at[p] \in {"feature_manifest", "preprocessing_manifest"}
         => held[p].split_manifest = Reviewed
    /\ at[p] = "preprocessing_manifest" => held[p].feature_manifest = Reviewed
    /\ at[p] = "compare" => held[p] = PHASE3_IDENTITIES
    /\ at[p] \in {"transform", "data"} => mode[p] = "load"
    /\ mode[p] = "load"
         /\ at[p] \in {"raw", "dataset", "source", "transform", "data"}
         => Compared(p)
    /\ at[p] = "data" => artifacts[ReviewedFit] = "whole"

DateInv ==
  \A p \in Runs :
    /\ LET m == metadata.preprocessing_manifest
       IN  m \notin {Absent, Unreadable} /\ m.generated_at = p
             => at[p] \in Settled /\ Undated(m) = Content(p)
    /\ \A q \in Runs : at[q] = "write_preprocessing" /\ time[q] = p
         => at[p] \in Settled /\ Content(q) = Content(p)

PInv ==
  /\ PrepTypeOK
  /\ SourceInv
  /\ ContractInv
  /\ ReportedIsLoadable
  /\ DateInv

LEMMA ReviewedTypes ==
  /\ Reviewed \in Versions
  /\ ReviewedFit \in Fits
  /\ ReviewedContent \in [fit : Fits, implementation : Versions]
  /\ PHASE3_IDENTITIES.preprocessing_manifest.fit = ReviewedFit
  /\ PHASE3_IDENTITIES.preprocessing_manifest.implementation = Reviewed
  /\ PHASE3_IDENTITIES.split_manifest = Reviewed
  /\ PHASE3_IDENTITIES.feature_manifest = Reviewed
  /\ PHASE3_IDENTITIES.preprocessing_manifest = ReviewedContent
  BY DEF ReviewedFit, Fits, ReviewedContent, PHASE3_IDENTITIES

LEMMA FitTypes ==
  ASSUME PrepTypeOK, NEW p \in Runs
  PROVE  /\ Fit(p) \in Fits
         /\ Content(p) \in [fit : Fits, implementation : Versions]
  BY DEF PrepTypeOK, Fit, Fits, Content

LEMMA UndatedDated ==
  ASSUME NEW c \in [fit : Fits, implementation : Versions], NEW t
  PROVE  Undated(Dated(c, t)) = c /\ Dated(c, t).generated_at = t
  BY DEF Undated, Dated

LEMMA InitPInv == PrepInit => PInv
<1> SUFFICES ASSUME PrepInit PROVE PInv
  OBVIOUS
<1>1. PrepTypeOK
  BY ReviewedTypes DEF PrepInit, PrepTypeOK, Fresh, Committed, Dated,
     ReviewedContent, Fits, Ended
<1>2. SourceInv /\ ContractInv /\ ReportedIsLoadable
  BY DEF PrepInit, SourceInv, ContractInv, ReportedIsLoadable
<1>3. DateInv
  <2>1. \A p \in Runs : p # Earlier
    OBVIOUS
  <2>2. LET m == metadata.preprocessing_manifest
        IN  m \in {Absent, Unreadable} \/ m.generated_at = Earlier
    BY DEF PrepInit, Fresh, Committed, Dated
  <2>. QED  BY <2>1, <2>2 DEF PrepInit, DateInv
<1>. QED  BY <1>1, <1>2, <1>3 DEF PInv

\* A run that moves and changes nothing else.
LEMMA MoveKeepsPInv ==
  ASSUME PInv, NEW p \in Runs, NEW l, Enter(p, l),
         l \in {"stopped", "dataset", "source", "find", "create", "round_trip",
                "transform", "data"},
         UNCHANGED <<files, locals, vars>>,
         l \in {"dataset", "source", "transform", "data"} => raw = "pinned",
         l \in {"source", "transform", "data"} => Pinned(manifest),
         l \in {"transform", "data"} => mode[p] = "load",
         mode[p] = "load" /\ l \in {"dataset", "source", "transform", "data"}
           => Compared(p),
         l = "data" => artifacts[ReviewedFit] = "whole",
         at[p] \in Settled => l = "stopped"
  PROVE  PInv'
<1>0. UNCHANGED <<metadata, artifacts, mode, conf, memory, hashed, held, time,
                  raw, manifest>>
  BY DEF files, locals, vars
<1>1. PrepTypeOK'
  BY <1>0 DEF PInv, PrepTypeOK, Enter, Ended
<1>2. SourceInv'
  BY <1>0 DEF PInv, PrepTypeOK, Enter, SourceInv
<1>3. ContractInv'
  BY <1>0 DEF PInv, PrepTypeOK, Enter, ContractInv, Compared
<1>4. ReportedIsLoadable'
  BY <1>0 DEF PInv, PrepTypeOK, Enter, ReportedIsLoadable, Fit
<1>5. DateInv'
  <2>1. \A q \in Runs : Content(q)' = Content(q)
    BY <1>0 DEF Content, Fit
  <2>2. \A q \in Runs :
          /\ at[q] \in Settled => at'[q] \in Settled
          /\ at'[q] = "write_preprocessing" => at[q] = "write_preprocessing"
    BY DEF PInv, PrepTypeOK, Enter, Settled
  <2>. QED  BY <1>0, <2>1, <2>2 DEF PInv, DateInv, Undated
<1>. QED  BY <1>1, <1>2, <1>3, <1>4, <1>5 DEF PInv

LEMMA MovesPInv ==
  ASSUME PInv, NEW p \in Runs,
         Stop(p) \/ VerifyRawDigest(p) \/ VerifyDataset(p) \/ ReadSource(p)
           \/ FindArtifact(p) \/ Transform(p)
  PROVE  PInv'
<1>1. CASE Stop(p)
  BY <1>1, MoveKeepsPInv DEF Stop
<1>2. CASE VerifyRawDigest(p)
  BY <1>2, MoveKeepsPInv DEF VerifyRawDigest, PInv, ContractInv, Settled
<1>3. CASE VerifyDataset(p)
  BY <1>3, MoveKeepsPInv DEF VerifyDataset, PInv, SourceInv, ContractInv,
     Settled
<1>4. CASE ReadSource(p)
  <2>1. /\ raw = "pinned" /\ Pinned(manifest)
        /\ mode[p] = "load" => Compared(p)
        /\ mode[p] \in {"prepare", "load"}
        /\ at[p] \notin Settled
    BY <1>4 DEF ReadSource, PInv, SourceInv, ContractInv, PrepTypeOK, Settled
  <2>2. CASE mode[p] = "prepare"
    BY <1>4, <2>1, <2>2, MoveKeepsPInv DEF ReadSource
  <2>3. CASE mode[p] = "load"
    BY <1>4, <2>1, <2>3, MoveKeepsPInv DEF ReadSource
  <2>. QED  BY <2>1, <2>2, <2>3
<1>5. CASE FindArtifact(p)
  <2>1. PICK l \in {"create", "round_trip"} : Enter(p, l)
    BY <1>5 DEF FindArtifact
  <2>. QED  BY <1>5, <2>1, MoveKeepsPInv DEF FindArtifact, Settled
<1>6. CASE Transform(p)
  <2>1. /\ at[p] = "transform" /\ Enter(p, "data")
        /\ UNCHANGED <<files, locals, vars>>
        /\ artifacts[held[p].preprocessing_manifest.fit] = "whole"
    BY <1>6 DEF Transform
  <2>2. /\ raw = "pinned" /\ Pinned(manifest)
        /\ mode[p] = "load" /\ Compared(p)
    BY <2>1 DEF PInv, SourceInv, ContractInv
  <2>3. artifacts[ReviewedFit] = "whole" /\ at[p] \notin Settled
    BY <2>1, <2>2, ReviewedTypes DEF Compared, Settled
  <2>. QED  BY <2>1, <2>2, <2>3, MoveKeepsPInv
<1>. QED  BY <1>1, <1>2, <1>3, <1>4, <1>5, <1>6

\* A manifest of the contract is read.
LEMMA ReadContractPInv ==
  ASSUME PInv, NEW p \in Runs, ReadContract(p) PROVE PInv'
<1>0. PICK i \in 1 .. 3 :
        /\ at[p] = Contracts[i]
        /\ IsReviewed(Contracts[i])
        /\ held' = [held EXCEPT ![p][Contracts[i]] = Identity(Contracts[i])]
        /\ Enter(p, IF i < 3 THEN Contracts[i + 1] ELSE "compare")
  BY DEF ReadContract
<1>1. UNCHANGED <<metadata, artifacts, mode, conf, memory, hashed, time, raw,
                  manifest>>
  BY DEF ReadContract, files, vars
<1>2. /\ held[p] \in [split_manifest : Versions \cup {Absent},
                      feature_manifest : Versions \cup {Absent},
                      preprocessing_manifest :
                        {Absent} \cup [fit : Fits, implementation : Versions]]
      /\ held'[p] = [held[p] EXCEPT ![Contracts[i]] = PHASE3_IDENTITIES[Contracts[i]]]
      /\ \A q \in Runs : q # p => held'[q] = held[q] /\ at'[q] = at[q]
  BY <1>0 DEF PInv, PrepTypeOK, IsReviewed, Enter
<1>3. \/ /\ at[p] = "split_manifest" /\ at'[p] = "feature_manifest"
         /\ held'[p] = [held[p] EXCEPT !.split_manifest = Reviewed]
      \/ /\ at[p] = "feature_manifest" /\ at'[p] = "preprocessing_manifest"
         /\ held'[p] = [held[p] EXCEPT !.feature_manifest = Reviewed]
      \/ /\ at[p] = "preprocessing_manifest" /\ at'[p] = "compare"
         /\ held'[p] = [held[p] EXCEPT !.preprocessing_manifest = ReviewedContent]
  <2>1. i \in {1, 2, 3}
    OBVIOUS
  <2>5. /\ Contracts[1] = "split_manifest"
        /\ Contracts[2] = "feature_manifest"
        /\ Contracts[3] = "preprocessing_manifest"
        /\ at'[p] = IF i < 3 THEN Contracts[i + 1] ELSE "compare"
    BY <1>0 DEF Contracts, Enter, PInv, PrepTypeOK
  <2>2. CASE i = 1
    BY <1>0, <1>2, <2>2, <2>5, ReviewedTypes
  <2>3. CASE i = 2
    BY <1>0, <1>2, <2>3, <2>5, ReviewedTypes
  <2>4. CASE i = 3
    BY <1>0, <1>2, <2>4, <2>5, ReviewedTypes
  <2>. QED  BY <2>1, <2>2, <2>3, <2>4
<1>4. held'[p] \in [split_manifest : Versions \cup {Absent},
                    feature_manifest : Versions \cup {Absent},
                    preprocessing_manifest :
                      {Absent} \cup [fit : Fits, implementation : Versions]]
  BY <1>2, <1>3, ReviewedTypes
<1>5. PrepTypeOK'
  <2>1. held' = [held EXCEPT ![p] = held'[p]]
    BY <1>0, <1>2 DEF PInv, PrepTypeOK
  <2>2. at' = [at EXCEPT ![p] = at'[p]]
    BY <1>0 DEF PInv, PrepTypeOK, Enter
  <2>3. held' \in
          [Runs -> [split_manifest : Versions \cup {Absent},
                    feature_manifest : Versions \cup {Absent},
                    preprocessing_manifest :
                      {Absent} \cup [fit : Fits, implementation : Versions]]]
    BY <1>4, <2>1 DEF PInv, PrepTypeOK
  <2>4. at' \in [Runs -> Ended \cup
                   {"waiting", "raw", "dataset", "source", "find", "create",
                    "fill", "round_trip", "write_split", "write_feature", "date",
                    "write_preprocessing", "split_manifest", "feature_manifest",
                    "preprocessing_manifest", "compare", "transform"}]
    BY <1>3, <2>2 DEF PInv, PrepTypeOK
  <2>. QED  BY <1>1, <2>3, <2>4 DEF PInv, PrepTypeOK
<1>6. SourceInv'
  BY <1>1, <1>2, <1>3 DEF PInv, SourceInv
<1>7. ContractInv'
  <2>1. at'[p] = "compare" => held'[p] = PHASE3_IDENTITIES
    BY <1>2, <1>3, ReviewedTypes DEF PInv, ContractInv, PHASE3_IDENTITIES
  <2>2. /\ at'[p] \in {"feature_manifest", "preprocessing_manifest"}
             => held'[p].split_manifest = Reviewed
        /\ at'[p] = "preprocessing_manifest"
             => held'[p].feature_manifest = Reviewed
    BY <1>2, <1>3 DEF PInv, ContractInv
  <2>. QED  BY <1>1, <1>2, <1>3, <2>1, <2>2 DEF PInv, ContractInv, Compared
<1>8. \A q \in Runs : Content(q)' = Content(q) /\ Fit(q)' = Fit(q)
  BY <1>1 DEF Content, Fit
<1>9. ReportedIsLoadable'
  BY <1>1, <1>2, <1>3, <1>8 DEF PInv, ReportedIsLoadable
<1>10. DateInv'
  <2>1. \A q \in Runs :
          /\ q # p => at'[q] = at[q]
          /\ q = p => at[q] \notin Settled /\ at'[q] # "write_preprocessing"
    BY <1>2, <1>3 DEF Settled
  <2>. QED  BY <1>1, <1>8, <2>1 DEF PInv, DateInv, Undated
<1>. QED  BY <1>5, <1>6, <1>7, <1>9, <1>10 DEF PInv

LEMMA BeginPInv ==
  ASSUME PInv, NEW p \in Runs, Begin(p) PROVE PInv'
<1>0. PICK m \in {"prepare", "load"}, c \in Versions, d \in Versions :
        /\ mode' = [mode EXCEPT ![p] = m]
        /\ conf' = [conf EXCEPT ![p] = c]
        /\ memory' = [memory EXCEPT ![p] = d]
        /\ Enter(p, IF m = "prepare" THEN "raw" ELSE Contracts[1])
  BY DEF Begin
<1>1. /\ at[p] = "waiting"
      /\ UNCHANGED <<metadata, artifacts, hashed, held, time, raw, manifest>>
  BY DEF Begin, files, vars
<1>2. PICK l \in {"raw", "split_manifest"} :
        Enter(p, l) /\ (l = "raw" => m = "prepare")
  BY <1>0 DEF Contracts
<1>3. PrepTypeOK'
  BY <1>0, <1>1, <1>2 DEF PInv, PrepTypeOK, Enter, Ended
<1>4. SourceInv'
  BY <1>1, <1>2 DEF PInv, PrepTypeOK, Enter, SourceInv
<1>5. ContractInv'
  BY <1>0, <1>1, <1>2 DEF PInv, PrepTypeOK, Enter, ContractInv, Compared
<1>6. \A q \in Runs : q # p => Content(q)' = Content(q) /\ Fit(q)' = Fit(q)
  BY <1>0, <1>1 DEF PInv, PrepTypeOK, Content, Fit
<1>7. ReportedIsLoadable'
  BY <1>0, <1>1, <1>2, <1>6 DEF PInv, PrepTypeOK, Enter, ReportedIsLoadable
<1>8. DateInv'
  <2>1. \A q \in Runs :
          /\ q # p => at'[q] = at[q]
          /\ q = p => at[q] \notin Settled /\ at'[q] # "write_preprocessing"
    BY <1>1, <1>2 DEF PInv, PrepTypeOK, Enter, Settled
  <2>. QED  BY <1>1, <1>6, <2>1 DEF PInv, DateInv, Undated
<1>. QED  BY <1>3, <1>4, <1>5, <1>7, <1>8 DEF PInv

\* Writing an artifact harms none that is whole.
LEMMA ArtifactPInv ==
  ASSUME PInv, NEW p \in Runs, CreateArtifact(p) \/ FillArtifact(p)
  PROVE  PInv'
<1>0. /\ UNCHANGED <<metadata, mode, conf, memory, hashed, held, time, raw, manifest>>
      /\ at[p] \in {"create", "fill"}
  BY DEF CreateArtifact, FillArtifact, locals, vars
<1>1. PICK l \in {"fill", "round_trip"} : Enter(p, l)
  BY DEF CreateArtifact, FillArtifact
<1>2. /\ artifacts' \in [Fits -> {Absent, Partial, "whole"}]
      /\ \A f \in Fits : artifacts[f] = "whole" => artifacts'[f] = "whole"
  <2>1. PICK v \in {Partial, "whole"} :
          /\ artifacts' = [artifacts EXCEPT ![Fit(p)] = v]
          /\ v = Partial => artifacts[Fit(p)] = Absent
    BY DEF CreateArtifact, FillArtifact
  <2>. QED  BY <2>1, FitTypes DEF PInv, PrepTypeOK
<1>3. \A q \in Runs : Content(q)' = Content(q) /\ Fit(q)' = Fit(q)
  BY <1>0 DEF Content, Fit
<1>4. PrepTypeOK'
  BY <1>0, <1>1, <1>2 DEF PInv, PrepTypeOK, Enter, Ended
<1>5. SourceInv'
  BY <1>0, <1>1 DEF PInv, PrepTypeOK, Enter, SourceInv
<1>6. ContractInv'
  BY <1>0, <1>1, <1>2, ReviewedTypes DEF PInv, PrepTypeOK, Enter, ContractInv, Compared
<1>7. ReportedIsLoadable'
  BY <1>0, <1>1, <1>2, <1>3, FitTypes
     DEF PInv, PrepTypeOK, Enter, ReportedIsLoadable
<1>8. DateInv'
  <2>1. \A q \in Runs :
          /\ q # p => at'[q] = at[q]
          /\ q = p => at[q] \notin Settled /\ at'[q] # "write_preprocessing"
    BY <1>0, <1>1 DEF PInv, PrepTypeOK, Enter, Settled
  <2>. QED  BY <1>0, <1>3, <2>1 DEF PInv, DateInv, Undated
<1>. QED  BY <1>4, <1>5, <1>6, <1>7, <1>8 DEF PInv

LEMMA HashPInv ==
  ASSUME PInv, NEW p \in Runs, RoundTrip(p) \/ Compare(p) PROVE PInv'
<1>0. /\ UNCHANGED <<metadata, artifacts, mode, conf, memory, held, time, raw,
                    manifest>>
      /\ at[p] \in {"round_trip", "compare"}
  BY DEF RoundTrip, Compare, files, vars
<1>1. PICK d \in Versions : hashed' = [hashed EXCEPT ![p] = d]
  BY ReviewedTypes DEF RoundTrip, Compare, PInv, ContractInv
<1>2. PICK l \in {"write_split", "raw"} :
        /\ Enter(p, l)
        /\ l = "write_split" => artifacts[Fit(p)] = "whole"
        /\ l = "raw" => Compared(p)'
  BY <1>0, <1>1, ReviewedTypes
     DEF RoundTrip, Compare, PInv, PrepTypeOK, ContractInv, Compared
<1>3. PrepTypeOK'
  BY <1>0, <1>1, <1>2 DEF PInv, PrepTypeOK, Enter, Ended
<1>4. SourceInv'
  BY <1>0, <1>2 DEF PInv, PrepTypeOK, Enter, SourceInv
<1>5. ContractInv'
  BY <1>0, <1>1, <1>2 DEF PInv, PrepTypeOK, Enter, ContractInv, Compared
<1>6. \A q \in Runs : Fit(q)' = Fit(q) /\ (q # p => Content(q)' = Content(q))
  BY <1>0, <1>1 DEF PInv, PrepTypeOK, Content, Fit
<1>7. ReportedIsLoadable'
  BY <1>0, <1>2, <1>6 DEF PInv, PrepTypeOK, Enter, ReportedIsLoadable
<1>8. DateInv'
  <2>1. \A q \in Runs :
          /\ q # p => at'[q] = at[q]
          /\ q = p => at[q] \notin Settled /\ at'[q] # "write_preprocessing"
    BY <1>0, <1>2 DEF PInv, PrepTypeOK, Enter, Settled
  <2>. QED  BY <1>0, <1>6, <2>1 DEF PInv, DateInv, Undated
<1>. QED  BY <1>3, <1>4, <1>5, <1>7, <1>8 DEF PInv

LEMMA WriteFirstTwoPInv ==
  ASSUME PInv, NEW p \in Runs, WriteSplit(p) \/ WriteFeature(p) PROVE PInv'
<1>0. /\ UNCHANGED <<artifacts, mode, conf, memory, hashed, held, time, raw, manifest>>
      /\ at[p] \in {"write_split", "write_feature"}
  BY DEF WriteSplit, WriteFeature, locals, vars
<1>1. PICK l \in {"write_feature", "date"} : Enter(p, l)
  BY DEF WriteSplit, WriteFeature
<1>2. metadata'.preprocessing_manifest = metadata.preprocessing_manifest
  BY DEF WriteSplit, WriteFeature, SplitContent, FeatureContent, PInv, PrepTypeOK
<1>3. PrepTypeOK'
  BY <1>0, <1>1, SMTT(20) DEF WriteSplit, WriteFeature, SplitContent,
     FeatureContent, PInv, PrepTypeOK, Enter, Ended
<1>4. SourceInv' /\ ContractInv'
  BY <1>0, <1>1 DEF PInv, PrepTypeOK, Enter, SourceInv, ContractInv, Compared
<1>5. \A q \in Runs : Content(q)' = Content(q) /\ Fit(q)' = Fit(q)
  BY <1>0 DEF Content, Fit
<1>6. ReportedIsLoadable'
  BY <1>0, <1>1, <1>5 DEF PInv, PrepTypeOK, Enter, ReportedIsLoadable
<1>7. DateInv'
  <2>1. \A q \in Runs :
          /\ q # p => at'[q] = at[q]
          /\ q = p => at[q] \notin Settled /\ at'[q] # "write_preprocessing"
    BY <1>0, <1>1 DEF PInv, PrepTypeOK, Enter, Settled
  <2>. QED  BY <1>0, <1>2, <1>5, <2>1 DEF PInv, DateInv, Undated
<1>. QED  BY <1>3, <1>4, <1>6, <1>7 DEF PInv

\* The time is that of the manifest whose content is regenerated, whose run is
\* known to DateInv, or the run's own.
LEMMA ReadOldTimePInv ==
  ASSUME PInv, NEW p \in Runs, ReadOldTime(p) PROVE PInv'
<1> DEFINE old == metadata.preprocessing_manifest
           new == DateOf(p, old)
<1>0. /\ at[p] = "date"
      /\ old # Unreadable
      /\ time' = [time EXCEPT ![p] = new]
      /\ Enter(p, "write_preprocessing")
      /\ UNCHANGED <<metadata, artifacts, mode, conf, memory, hashed, held, raw,
                    manifest>>
  BY DEF ReadOldTime, files, vars
<1>1. \/ new = p
      \/ /\ old \notin {Absent, Unreadable}
         /\ Undated(old) = Content(p)
         /\ new = old.generated_at
  BY <1>0 DEF DateOf
<1>2. new \in Runs \cup {Earlier}
  <2>1. old \notin {Absent, Unreadable} => old.generated_at \in Runs \cup {Earlier}
    BY DEF PInv, PrepTypeOK
  <2>. QED  BY <1>1, <2>1
<1>3. PrepTypeOK'
  BY <1>0, <1>2 DEF PInv, PrepTypeOK, Enter, Ended
<1>4. SourceInv' /\ ContractInv'
  BY <1>0 DEF PInv, PrepTypeOK, Enter, SourceInv, ContractInv, Compared
<1>5. \A q \in Runs : Content(q)' = Content(q) /\ Fit(q)' = Fit(q)
  BY <1>0 DEF Content, Fit
<1>6. ReportedIsLoadable'
  BY <1>0, <1>5 DEF PInv, PrepTypeOK, Enter, ReportedIsLoadable
<1>7. \A q \in Runs :
        /\ q # p => at'[q] = at[q] /\ time'[q] = time[q]
        /\ q = p => at'[q] = "write_preprocessing" /\ time'[q] = new
        /\ at[q] \in Settled => at'[q] \in Settled
  BY <1>0 DEF PInv, PrepTypeOK, Enter, Settled
<1>8. \A q \in Runs :
        old \notin {Absent, Unreadable} /\ old.generated_at = q
          => at[q] \in Settled /\ Undated(old) = Content(q)
  BY DEF PInv, DateInv
<1>9. \A q \in Runs : new = q => at'[q] \in Settled /\ Content(p) = Content(q)
  <2>1. "write_preprocessing" \in Settled
    BY DEF Settled
  <2>. QED  BY <1>1, <1>7, <1>8, <2>1
<1>10. \A q \in Runs :
         /\ old \notin {Absent, Unreadable} /\ old.generated_at = q
              => at'[q] \in Settled /\ Undated(old) = Content(q)
         /\ \A r \in Runs : at'[r] = "write_preprocessing" /\ time'[r] = q
              => at'[q] \in Settled /\ Content(r) = Content(q)
  <2> HIDE DEF new, old
  <2>1. \A q, r \in Runs :
          at[r] = "write_preprocessing" /\ time[r] = q
            => at[q] \in Settled /\ Content(r) = Content(q)
    BY DEF PInv, DateInv
  <2>. QED  BY <1>7, <1>8, <1>9, <2>1
<1>11. DateInv'
  BY <1>0, <1>5, <1>10 DEF DateInv, Undated
<1>. QED  BY <1>3, <1>4, <1>6, <1>11 DEF PInv

LEMMA WritePreprocessingPInv ==
  ASSUME PInv, NEW p \in Runs, WritePreprocessing(p) PROVE PInv'
<1> DEFINE m == Dated(Content(p), time[p])
<1>0. /\ at[p] = "write_preprocessing"
      /\ metadata' = [metadata EXCEPT !.preprocessing_manifest = m]
      /\ Enter(p, "done")
      /\ UNCHANGED <<artifacts, mode, conf, memory, hashed, held, time, raw, manifest>>
  BY DEF WritePreprocessing, locals, vars
<1>1. /\ m \in [fit : Fits, implementation : Versions,
                generated_at : Runs \cup {Earlier}]
      /\ Undated(m) = Content(p) /\ m.generated_at = time[p]
  BY FitTypes, UndatedDated DEF PInv, PrepTypeOK, Dated
<1>2. metadata'.preprocessing_manifest = m
  BY <1>0 DEF PInv, PrepTypeOK
<1>3. PrepTypeOK'
  BY <1>0, <1>1 DEF PInv, PrepTypeOK, Enter, Ended
<1>4. SourceInv' /\ ContractInv'
  BY <1>0 DEF PInv, PrepTypeOK, Enter, SourceInv, ContractInv, Compared
<1>5. \A q \in Runs : Content(q)' = Content(q) /\ Fit(q)' = Fit(q)
  BY <1>0 DEF Content, Fit
<1>6. ReportedIsLoadable'
  BY <1>0, <1>5 DEF PInv, PrepTypeOK, Enter, ReportedIsLoadable
<1>7. \A q \in Runs :
        /\ at[q] \in Settled => at'[q] \in Settled
        /\ at'[q] = "write_preprocessing" => at[q] = "write_preprocessing"
  BY <1>0 DEF PInv, PrepTypeOK, Enter, Settled
<1>8. \A q, r \in Runs :
        at[r] = "write_preprocessing" /\ time[r] = q
          => at[q] \in Settled /\ Content(r) = Content(q)
  BY DEF PInv, DateInv
<1>9. DateInv'
  <2> HIDE DEF m
  <2>1. (Undated(metadata.preprocessing_manifest))' = Content(p)
    BY <1>1, <1>2 DEF Undated
  <2>2. \A q \in Runs : time[p] = q => at'[q] \in Settled /\ Content(p) = Content(q)
    BY <1>0, <1>7, <1>8
  <2>3. \A q, r \in Runs :
          at'[r] = "write_preprocessing" /\ time'[r] = q
            => at'[q] \in Settled /\ Content(r)' = Content(q)'
    BY <1>0, <1>5, <1>7, <1>8
  <2>. QED  BY <1>1, <1>2, <1>5, <2>1, <2>2, <2>3 DEF DateInv
<1>. QED  BY <1>3, <1>4, <1>6, <1>9 DEF PInv

-----------------------------------------------------------------------------
(***************************************************************************)
(* The two together.                                                       *)
(***************************************************************************)
LEMMA PreparingKeepsAcquisition == Preparing => UNCHANGED vars
  BY DEF Preparing, Prepare, Load, Begin, VerifyRawDigest, VerifyDataset,
     ReadSource, FindArtifact, CreateArtifact, FillArtifact, RoundTrip,
     WriteSplit, WriteFeature, ReadOldTime, WritePreprocessing, ReadContract,
     Compare, Transform, Stop

\* What the processes of an acquisition do meanwhile disturbs no run.
LEMMA AcquisitionPInv ==
  ASSUME AInv, PInv, [Next]_vars, UNCHANGED prepVars
  PROVE  PInv'
<1>0. UNCHANGED <<metadata, artifacts, at, mode, conf, memory, hashed, held, time>>
  BY DEF prepVars, files, locals
<1>1. "pinned" # Absent
  BY DEF Bytes
<1>2. SourceInv'
  BY <1>0, <1>1, InputsAreKept DEF PInv, SourceInv
<1>3. PrepTypeOK' /\ ContractInv' /\ ReportedIsLoadable' /\ DateInv'
  BY <1>0 DEF PInv, PrepTypeOK, ContractInv, Compared, ReportedIsLoadable, Fit, DateInv,
     Content, Undated
<1>. QED  BY <1>2, <1>3 DEF PInv

LEMMA BothNextInv ==
  AInv /\ PInv /\ [BothNext]_<<vars, prepVars>> => AInv' /\ PInv' /\ [Next]_vars
<1> SUFFICES ASSUME AInv, PInv, [BothNext]_<<vars, prepVars>>
             PROVE  AInv' /\ PInv' /\ [Next]_vars
  OBVIOUS
<1>1. [Next]_vars
  BY PreparingKeepsAcquisition DEF BothNext
<1>2. PInv'
  <2>1. CASE UNCHANGED prepVars
    BY <1>1, <2>1, AcquisitionPInv
  <2>2. CASE Preparing
    BY <2>2, MovesPInv, ReadContractPInv, BeginPInv, ArtifactPInv, HashPInv, WriteFirstTwoPInv,
       ReadOldTimePInv, WritePreprocessingPInv DEF Preparing, Prepare, Load
  <2>. QED  BY <2>1, <2>2 DEF BothNext
<1>. QED  BY <1>1, <1>2, NextAInv

LEMMA BothSpecInv == BothSpec => [](AInv /\ PInv)
BY InitAInv, InitPInv, BothNextInv, PTL DEF BothSpec, BothInit

\* Runs that prepare or load leave an acquisition what it is by itself, so
\* every theorem about Spec holds of the two together.
THEOREM Composition == BothSpec => Spec
BY InitAInv, BothNextInv, BothSpecInv, PTL DEF BothSpec, BothInit, Spec

\* Runs, manifests and artifacts keep their types.
THEOREM PreparationTypeOK == BothSpec => []PrepTypeOK
<1>1. PInv => PrepTypeOK
  BY DEF PInv
<1>. QED  BY <1>1, BothSpecInv, PTL

\* Whatever was prepared, acquired or edited meanwhile, models are made of the
\* pinned bytes as reviewed.
THEOREM PreparationDataIsReviewed == BothSpec => []DataIsReviewed
<1>1. PInv => DataIsReviewed
  BY ReviewedTypes DEF PInv, SourceInv, ContractInv, Compared, DataIsReviewed
<1>. QED  BY <1>1, BothSpecInv, PTL

\* However many runs save at once, what a preparation publishes or has
\* reported can be loaded.
THEOREM PreparationReportedIsLoadable == BothSpec => []ReportedIsLoadable
<1>1. PInv => ReportedIsLoadable
  BY DEF PInv
<1>. QED  BY <1>1, BothSpecInv, PTL

\* A generation time belongs to a run that generated this very content.
THEOREM PreparationTimeIsOfTheContent == BothSpec => []TimeIsOfTheContent
<1>1. PInv => TimeIsOfTheContent
  BY DEF PInv, DateInv, TimeIsOfTheContent
<1>. QED  BY <1>1, BothSpecInv, PTL

=============================================================================
