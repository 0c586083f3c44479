---------------------------- MODULE Acquisition ----------------------------
(***************************************************************************)
(* Acquisition of the pinned source file, data/download.py.                *)
(*                                                                         *)
(* Processes that run acquire() share data/raw and data/metadata.  The raw *)
(* file is published by a hard link, which refuses to overwrite, and the   *)
(* manifest by write_json, which renames a temporary file over it.  Any    *)
(* process may be killed, and somebody else may put a raw file in place at *)
(* any time.  Bytes are told apart by whether they have the pinned SHA-256.*)
(***************************************************************************)
EXTENDS FiniteSets

CONSTANTS
  Procs,       \* processes, each running acquire() once
  Absent,      \* a path that does not exist, or a local that is not bound
  Unreadable,  \* a manifest that is not JSON
  Null,        \* retrieved_at when nobody recorded a time
  Earlier      \* retrieved_at of a manifest older than all of Procs

Bytes == {"pinned", "other"}
\* A time is named by the process that took it from the clock.
Times == Procs \cup {Null, Earlier}
Manifests == [sha256 : Bytes, retrieved_at : Times]

ASSUME NamesAssumption ==
  /\ Absent # Unreadable /\ Null # Earlier
  /\ {Absent, Unreadable} \cap (Bytes \cup Manifests \cup Times) = {}
  /\ {Null, Earlier} \cap Procs = {}

VARIABLES
  raw,           \* the XLS
  manifest,      \* dataset_manifest.json
  pc,            \* where each process is
  rawTemp,       \* processes whose *.tmp is in data/raw
  manifestTemp,  \* processes whose *.tmp is in data/metadata
  retrieved,     \* the local retrieved_at
  linker         \* history: the process that linked the raw file, or Absent

vars == <<raw, manifest, pc, rawTemp, manifestTemp, retrieved, linker>>

Stopped == {"done", "error", "failed_write", "killed"}

Init ==
  /\ raw \in Bytes \cup {Absent}
  /\ manifest \in {Absent, Unreadable} \cup
                  [sha256 : Bytes, retrieved_at : {Null, Earlier}]
  /\ pc = [p \in Procs |-> "look"]
  /\ rawTemp = {}
  /\ manifestTemp = {}
  /\ retrieved = [p \in Procs |-> Null]
  /\ linker = Absent

Goto(p, l) == pc' = [pc EXCEPT ![p] = l]

-----------------------------------------------------------------------------
\* Another program, or a person, puts a file where there was none.
SomebodyWrites ==
  /\ raw = Absent
  /\ raw' \in Bytes
  /\ UNCHANGED <<manifest, pc, rawTemp, manifestTemp, retrieved, linker>>

\* The process is killed and leaves its temporary files.
Killed(p) ==
  /\ pc[p] \notin Stopped
  /\ Goto(p, "killed")
  /\ UNCHANGED <<raw, manifest, rawTemp, manifestTemp, retrieved, linker>>

\* An existing raw file is verified where it is; otherwise it is downloaded.
Look(p) ==
  /\ pc[p] = "look"
  /\ Goto(p, IF raw = Absent THEN "fetch"
             ELSE IF raw = "pinned" THEN "verify" ELSE "error")
  /\ UNCHANGED <<raw, manifest, rawTemp, manifestTemp, retrieved, linker>>

\* Network, archive and checksum errors all raise; otherwise these are the
\* pinned bytes.
Fetch(p) ==
  /\ pc[p] = "fetch"
  /\ Goto(p, "raw_temp") \/ Goto(p, "error")
  /\ UNCHANGED <<raw, manifest, rawTemp, manifestTemp, retrieved, linker>>

\* The bytes go to a temporary file, which a failing write leaves behind.
WriteRawTemp(p) ==
  /\ pc[p] = "raw_temp"
  /\ rawTemp' = rawTemp \cup {p}
  /\ Goto(p, "link") \/ Goto(p, "failed_write")
  /\ UNCHANGED <<raw, manifest, manifestTemp, retrieved, linker>>

\* Faulty: os.replace instead of os.link.
LinkOver(p) ==
  /\ pc[p] = "link"
  /\ raw' = "pinned"
  /\ linker' = p
  /\ retrieved' = [retrieved EXCEPT ![p] = p]
  /\ Goto(p, "unlink")
  /\ UNCHANGED <<manifest, rawTemp, manifestTemp>>

\* Faulty: the clock is read whether or not the link was made.
LinkStampedAnyway(p) ==
  /\ pc[p] = "link"
  /\ retrieved' = [retrieved EXCEPT ![p] = p]
  /\ IF raw = Absent
     THEN /\ raw' = "pinned"
          /\ linker' = p
          /\ Goto(p, "unlink")
     ELSE /\ Goto(p, IF raw = "pinned" THEN "unlink" ELSE "unlink_error")
          /\ UNCHANGED <<raw, linker>>
  /\ UNCHANGED <<manifest, rawTemp, manifestTemp>>

\* os.link: it publishes, or finds a file whose bytes are verified in place, or
\* fails in another way.
Link(p) ==
  /\ pc[p] = "link"
  /\ \/ /\ raw = Absent
        /\ raw' = "pinned"
        /\ linker' = p
        /\ retrieved' = [retrieved EXCEPT ![p] = p]
        /\ Goto(p, "unlink")
     \/ /\ raw # Absent
        /\ Goto(p, IF raw = "pinned" THEN "unlink" ELSE "unlink_error")
        /\ UNCHANGED <<raw, retrieved, linker>>
     \/ /\ Goto(p, "unlink_error")
        /\ UNCHANGED <<raw, retrieved, linker>>
  /\ UNCHANGED <<manifest, rawTemp, manifestTemp>>

\* The finally block around the link.
UnlinkRawTemp(p) ==
  /\ pc[p] \in {"unlink", "unlink_error"}
  /\ rawTemp' = rawTemp \ {p}
  /\ Goto(p, IF pc[p] = "unlink" THEN "verify" ELSE "error")
  /\ UNCHANGED <<raw, manifest, manifestTemp, retrieved, linker>>

VerifyRaw(p) ==
  /\ pc[p] = "verify"
  /\ Goto(p, IF raw = "pinned" THEN "manifest" ELSE "error")
  /\ UNCHANGED <<raw, manifest, rawTemp, manifestTemp, retrieved, linker>>

\* Faulty: an existing manifest means that the work has been done.
ReadManifestSkipping(p) ==
  /\ pc[p] = "manifest"
  /\ Goto(p, IF manifest = Absent THEN "load" ELSE "done")
  /\ UNCHANGED <<raw, manifest, rawTemp, manifestTemp, retrieved, linker>>

\* An existing manifest must be readable and of the pinned bytes, and its
\* retrieval time is kept.
ReadManifest(p) ==
  /\ pc[p] = "manifest"
  /\ IF manifest = Absent THEN Goto(p, "load") /\ UNCHANGED retrieved
     ELSE IF manifest # Unreadable /\ manifest.sha256 = "pinned"
     THEN /\ retrieved' = [retrieved EXCEPT ![p] = manifest.retrieved_at]
          /\ Goto(p, "load")
     ELSE Goto(p, "error") /\ UNCHANGED retrieved
  /\ UNCHANGED <<raw, manifest, rawTemp, manifestTemp, linker>>

\* load_source checks the layout of what the bytes hold.
LoadSource(p) ==
  /\ pc[p] = "load"
  /\ Goto(p, "write") \/ Goto(p, "error")
  /\ UNCHANGED <<raw, manifest, rawTemp, manifestTemp, retrieved, linker>>

New(p) == [sha256 |-> "pinned", retrieved_at |-> retrieved[p]]

\* write_json: nothing to do, or the content goes to a temporary file first.
WriteManifestTemp(p) ==
  /\ pc[p] = "write"
  /\ \/ /\ manifest = New(p)
        /\ Goto(p, "done")
        /\ UNCHANGED manifestTemp
     \/ /\ manifest # New(p)
        /\ manifestTemp' = manifestTemp \cup {p}
        /\ Goto(p, "replace") \/ Goto(p, "failed_write")
  /\ UNCHANGED <<raw, manifest, rawTemp, retrieved, linker>>

\* The rename takes the temporary file away; the finally block does, when it
\* fails.
ReplaceManifest(p) ==
  /\ pc[p] = "replace"
  /\ \/ manifest' = New(p) /\ Goto(p, "done")
     \/ Goto(p, "error") /\ UNCHANGED manifest
  /\ manifestTemp' = manifestTemp \ {p}
  /\ UNCHANGED <<raw, rawTemp, retrieved, linker>>

Run(p) ==
  \/ Look(p) \/ Fetch(p) \/ WriteRawTemp(p) \/ Link(p) \/ UnlinkRawTemp(p)
  \/ VerifyRaw(p) \/ ReadManifest(p) \/ LoadSource(p) \/ WriteManifestTemp(p)
  \/ ReplaceManifest(p)

Next == SomebodyWrites \/ \E p \in Procs : Run(p) \/ Killed(p)

Spec == Init /\ [][Next]_vars

-----------------------------------------------------------------------------
(***************************************************************************)
(* Properties.                                                             *)
(***************************************************************************)

TypeOK ==
  /\ raw \in Bytes \cup {Absent}
  /\ manifest \in Manifests \cup {Absent, Unreadable}
  /\ pc \in [Procs -> Stopped \cup
               {"look", "fetch", "raw_temp", "link", "unlink", "unlink_error",
                "verify", "manifest", "load", "write", "replace"}]
  /\ rawTemp \subseteq Procs
  /\ manifestTemp \subseteq Procs
  /\ retrieved \in [Procs -> Times]
  /\ linker \in Procs \cup {Absent}

\* Raw bytes, right or wrong, are never overwritten, whoever put them there
\* and however late ("never replace a mismatching existing XLS").
RawIsKept == [][raw # Absent => raw' = raw]_vars

\* A readable manifest of the pinned bytes.
Pinned(m) == m \in Manifests /\ m.sha256 = "pinned"

\* Whoever reports success has verified the bytes that the manifest describes
\* and that are there.
DoneMeansVerified ==
  \A p \in Procs :
    pc[p] = "done" => raw = "pinned" /\ Pinned(manifest)

\* A retrieval time in the manifest, or on its way there, was taken by the
\* process whose download is the raw file: losing the race to link it, or
\* finding it there, records none.
TimeIsOfTheDownload ==
  \A p \in Procs :
    /\ manifest \in Manifests /\ manifest.retrieved_at = p => linker = p
    /\ (\E q \in Procs : retrieved[q] = p) => linker = p

\* "Preserve original acquisition time on idempotent reruns": a recorded time
\* stays.  It does not when two first runs overlap: see README.md.
TimeIsKept ==
  [][Pinned(manifest) /\ manifest.retrieved_at \in Procs
       => manifest' = manifest]_vars

=============================================================================
