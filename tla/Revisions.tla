------------------------------ MODULE Revisions ------------------------------
(***************************************************************************)
(* One document from the source file to the lexical index: the connector's *)
(* scan of its file (connector/main.go), the ingest API (register_upload   *)
(* and complete_reconcile of app/catalog.py, the endpoints of app/main.py) *)
(* and process_extract of app/worker.py, on the queue of JobQueue.         *)
(*                                                                         *)
(* The constant Jobs is the set of the file's revisions: a revision stands *)
(* for the version row and for the extract job of the same stable ID.      *)
(* Every upload makes a staged copy of its own, numbered 1, 2, ...         *)
(*                                                                         *)
(* process_extract commits several times, so each of its transactions is a *)
(* step, and the API's transactions and the death of the worker may come   *)
(* in between.                                                             *)
(*                                                                         *)
(* One worker runs.  That it may wait for the write lock is left to        *)
(* JobQueue: alone, it would only overlook what became due meanwhile.      *)
(***************************************************************************)
EXTENDS JobQueue

CONSTANTS
    None,         \* no revision
    Yields,       \* the kinds of derived data that extraction finds in the file
    Confirmations,\* reconcile_delete_confirmations, 2
    MaxUploads,   \* bound on the uploads that reach the server
    MaxEdits,     \* bound on the changes of the source file
    MaxScans      \* bound on the scans that are reconciled or aborted

Evidence == {"chunks", "cells", "previews"}

ASSUME RevisionsAssumption ==
    /\ None \notin Jobs
    /\ Yields \subseteq Evidence
    /\ {Confirmations, MaxUploads, MaxEdits, MaxScans} \subseteq Nat
    /\ Confirmations > 0
    /\ MaxUploads <= MaxRequests

ASSUME SingleWorker == \A w1, w2 \in Workers : w1 = w2

VARIABLES
    \* the Windows machine
    disk,       \* the revision in the source file, or None
    known,      \* the revision in the connector's saved state, or None
    visit,      \* what the running scan found: "no" scan, "absent", "reported", "failed"
    carried,    \* the revision the scan will save for the file
    edits, scans,
    \* table "documents"
    docState,   \* state; "none" before the first upload
    deleted,    \* is deleted_at set?
    current,    \* current_version_id
    missing,    \* missing_confirmations
    \* table "versions" and what hangs on it
    version,    \* "absent", "staged" (indexed_at IS NULL) or "indexed"
    raw,        \* raw_staging_path: the number of an upload, or 0
    evidence,   \* the derived data written for the version
    staged,     \* the staged copies on disk
    uploads,    \* uploads so far
    \* process_extract
    step,
    taken       \* raw_path, read at its start

sourceVars == <<disk, known, visit, carried, edits, scans>>
docVars == <<docState, deleted, current, missing>>
versionVars == <<version, raw, evidence, staged, uploads>>
handlerVars == <<step, taken>>
revisionVars == <<vars, sourceVars, docVars, versionVars, handlerVars>>

RInit ==
    /\ Init
    /\ disk \in Jobs /\ known = None
    /\ visit = "no" /\ carried = None
    /\ edits = 0 /\ scans = 0
    /\ docState = "none" /\ deleted = FALSE /\ current = None /\ missing = 0
    /\ version = [v \in Jobs |-> "absent"]
    /\ raw = [v \in Jobs |-> 0]
    /\ evidence = [v \in Jobs |-> {}]
    /\ staged = {} /\ uploads = 0
    /\ step = [w \in Workers |-> "idle"]
    /\ taken = [w \in Workers |-> 0]

-----------------------------------------------------------------------------
(* The source file and the connector                                       *)

\* The user edits, deletes or restores the file.
Edit ==
    /\ edits < MaxEdits
    /\ edits' = edits + 1
    /\ disk' \in (Jobs \cup {None}) \ {disk}
    /\ UNCHANGED <<vars, known, visit, carried, scans, docVars, versionVars, handlerVars>>

\* An upload changes the current revision only if it is one that is indexed.
CurrentAfter(v) == IF version[v] = "indexed" THEN v ELSE current

\* register_upload of revision v, in one transaction.
Register(v) ==
    /\ deleted' = FALSE
    /\ missing' = 0
    /\ uploads' = uploads + 1
    /\ current' = CurrentAfter(v)
    /\ IF version[v] = "indexed"
       THEN /\ docState' = "indexed"
            /\ UNCHANGED <<vars, version, raw, evidence, staged>>
       ELSE /\ version' = [version EXCEPT ![v] = "staged"]
            /\ raw' = [raw EXCEPT ![v] = uploads + 1]
            /\ staged' = staged \cup {uploads + 1}
            /\ CreateJob(v)
            /\ docState' = "queued"
            /\ UNCHANGED evidence

\* A scan comes to a changed file and uploads it; an upload that fails before
\* register_upload leaves nothing behind and is no step.  A file whose first
\* upload was not acknowledged gets another document ID the next time, so that a
\* lost reply is of interest only for a document the connector knows.
UploadFile(replied) ==
    /\ visit = "no" /\ scans < MaxScans
    /\ disk # None /\ disk # known
    /\ known = None => docState = "none" /\ replied
    /\ uploads < MaxUploads
    /\ ~paused[VaultOf[disk]]
    /\ Register(disk)
    /\ visit' = IF replied THEN "reported" ELSE "failed"
    /\ carried' = IF replied THEN disk ELSE known
    /\ UNCHANGED <<disk, known, edits, scans, handlerVars>>

\* A scan comes to an unchanged file: /api/seen.
ReportSeen ==
    /\ visit = "no" /\ scans < MaxScans
    /\ disk # None /\ disk = known
    /\ missing' = 0
    /\ visit' = "reported"
    /\ carried' = known
    /\ UNCHANGED <<vars, disk, known, edits, scans, docState, deleted, current,
                   versionVars, handlerVars>>

\* A scan does not find a file it knows.
FindAbsent ==
    /\ visit = "no" /\ scans < MaxScans
    /\ disk = None /\ known # None
    /\ visit' = "absent"
    /\ carried' = None
    /\ UNCHANGED <<vars, disk, known, edits, scans, docVars, versionVars, handlerVars>>

MutantUnseen == visit = "absent"

Unseen == visit = "absent" /\ ~deleted

\* complete_reconcile(complete=True): a document that the scan did not report
\* is missing once more, and is deleted with all it has when that is enough.
Confirm ==
    LET dies == Unseen /\ missing + 1 >= Confirmations
    IN  /\ missing' = IF Unseen THEN missing + 1 ELSE missing
        /\ deleted' = (deleted \/ dies)
        /\ docState' = IF dies THEN "deleted" ELSE docState
        /\ version' = [v \in Jobs |-> IF dies THEN "absent" ELSE version[v]]
        /\ raw' = [v \in Jobs |-> IF dies THEN 0 ELSE raw[v]]
        /\ evidence' = [v \in Jobs |-> IF dies THEN {} ELSE evidence[v]]
        /\ staged' = IF dies THEN staged \ {raw[v] : v \in Jobs} ELSE staged
        /\ UNCHANGED <<current, uploads>>

\* The scan ends.  The reconciliation is complete or not; the connector saves
\* what the scan carried (forgetting an absent file only if the reply to a
\* complete reconciliation arrived), or dies before it does.
EndScan ==
    /\ visit # "no"
    /\ scans' = scans + 1
    /\ visit' = "no" /\ carried' = None
    /\ \/ /\ visit # "failed"
          /\ Confirm
          /\ known' \in {carried, known}
       \/ /\ known' \in {IF carried = None THEN known ELSE carried, known}
          /\ UNCHANGED <<docVars, versionVars>>
    /\ UNCHANGED <<vars, disk, edits, handlerVars>>

-----------------------------------------------------------------------------
(* The worker                                                              *)

At(w, s) == step[w] = s
GoTo(w, s) == step' = [step EXCEPT ![w] = s]

Claim(w) ==
    /\ At(w, "idle")
    /\ ClaimJob(w)
    /\ GoTo(w, "claimed")
    /\ UNCHANGED <<sourceVars, docVars, versionVars, taken>>

RequeueExpired(w) ==
    /\ At(w, "idle")
    /\ ClaimNothing(w)
    /\ UNCHANGED <<sourceVars, docVars, versionVars, handlerVars>>

\* The version row and its staged copy, or "Staged source is no longer available".
ReadVersion(w) ==
    /\ At(w, "claimed")
    /\ GoTo(w, IF version[holds[w]] # "absent" /\ raw[holds[w]] # 0
               THEN "read" ELSE "raised")
    /\ taken' = [taken EXCEPT ![w] = raw[holds[w]]]
    /\ UNCHANGED <<vars, sourceVars, docVars, versionVars>>

\* extract_document: it raises when the copy is gone or cannot be parsed.
ExtractDocument(w) ==
    /\ At(w, "read")
    /\ \/ taken[w] \in staged /\ GoTo(w, "chunks")
       \/ GoTo(w, "raised")
    /\ UNCHANGED <<vars, sourceVars, docVars, versionVars, taken>>

MutantRowsAccepted(v) == v \in Jobs

RowsAccepted(v) == version[v] # "absent"

\* _replace_chunks deletes the chunks of the previews too.
Cleared(kind) == IF kind = "chunks" THEN {"chunks", "previews"} ELSE {kind}

\* _replace_chunks, _replace_table_cells and _replace_visual_evidence: rows of a
\* version that is gone break its foreign key, if there are any to insert.
Replace(w, kind, next) ==
    /\ At(w, kind)
    /\ kind \in Yields => RowsAccepted(holds[w])
    /\ evidence' = [evidence EXCEPT ![holds[w]] = (@ \ Cleared(kind)) \cup ({kind} \cap Yields)]
    /\ GoTo(w, next)
    /\ UNCHANGED <<vars, sourceVars, docVars, version, raw, staged, uploads, taken>>

\* _replace_table_cells commits row by row: it may stop half way.
LoseCells(w) ==
    /\ At(w, "cells")
    /\ evidence' = [evidence EXCEPT ![holds[w]] = @ \ {"cells"}]

MutantCellsFail(w) ==
    /\ LoseCells(w)
    /\ GoTo(w, "previews")
    /\ UNCHANGED <<vars, sourceVars, docVars, version, raw, staged, uploads, taken>>

CellsFail(w) ==
    /\ LoseCells(w)
    /\ GoTo(w, "raised")
    /\ UNCHANGED <<vars, sourceVars, docVars, version, raw, staged, uploads, taken>>

ReplaceEvidence(w) ==
    \/ Replace(w, "chunks", "cells")
    \/ Replace(w, "cells", "previews")
    \/ CellsFail(w)
    \/ Replace(w, "previews", "written")

\* A broken foreign key, a locked database or a file error ends any step of the
\* extraction before its commit.
Raise(w) ==
    /\ step[w] \in Evidence \cup {"written", "unlinked"}
    /\ GoTo(w, "raised")
    /\ UNCHANGED <<vars, sourceVars, docVars, versionVars, taken>>

\* raw_path.unlink
UnlinkRaw(w) ==
    /\ At(w, "written")
    /\ staged' = staged \ {taken[w]}
    /\ GoTo(w, "unlinked")
    /\ UNCHANGED <<vars, sourceVars, docVars, version, raw, evidence, uploads, taken>>

MutantObsolete(v) == Jobs \ {v}

\* The last transaction: the version becomes the indexed and current one, and the
\* document's other versions that are not indexed go with their staged copies.
Obsolete(v) == {u \in Jobs \ {v} : version[u] = "staged"}

CommitIndex(w) ==
    LET v == holds[w]
    IN  /\ At(w, "unlinked")
        /\ version' = [u \in Jobs |->
                         CASE u \in Obsolete(v) -> "absent"
                           [] u = v /\ version[u] = "staged" -> "indexed"
                           [] OTHER -> version[u]]
        /\ raw' = [u \in Jobs |-> IF u \in Obsolete(v) \cup {v} THEN 0 ELSE raw[u]]
        /\ evidence' = [u \in Jobs |-> IF u \in Obsolete(v) THEN {} ELSE evidence[u]]
        /\ staged' = staged \ {raw[u] : u \in Obsolete(v)}
        /\ current' = v
        /\ docState' = "indexed"
        /\ \/ DropFailed(w)
           \/ (\A j \in Supersedes[v] : state[j] # "failed") /\ UNCHANGED vars
        /\ GoTo(w, "returned")
        /\ UNCHANGED <<sourceVars, deleted, missing, uploads, taken>>

Rest(w) ==
    /\ GoTo(w, "idle")
    /\ taken' = [taken EXCEPT ![w] = 0]

Finish(w) ==
    /\ At(w, "returned")
    /\ FinishJob(w)
    /\ Rest(w)
    /\ UNCHANGED <<sourceVars, docVars, versionVars>>

Fail(w) ==
    /\ At(w, "raised")
    /\ FailJob(w)
    /\ Rest(w)
    /\ UNCHANGED <<sourceVars, docVars, versionVars>>

WorkerDies(w) ==
    /\ Crash(w)
    /\ Rest(w)
    /\ LoseCells(w) \/ UNCHANGED evidence
    /\ UNCHANGED <<sourceVars, docVars, version, raw, staged, uploads>>

\* cleanup_expired, when there is nothing to claim: the staged copies older than
\* a day go.
ExpireRaw(w) ==
    /\ At(w, "idle")
    /\ Claimable(w) = {}
    /\ \E old \in SUBSET {v \in Jobs : raw[v] # 0} \ {{}} :
          /\ staged' = staged \ {raw[v] : v \in old}
          /\ raw' = [v \in Jobs |-> IF v \in old THEN 0 ELSE raw[v]]
    /\ UNCHANGED <<vars, sourceVars, docVars, version, evidence, uploads, handlerVars>>

-----------------------------------------------------------------------------
QueueTime ==
    /\ \E v \in Jobs : LeaseRunsOut(v) \/ BackoffEnds(v)
    /\ UNCHANGED <<sourceVars, docVars, versionVars, handlerVars>>

VaultPaused ==
    /\ \E u \in Vaults : Pause(u)
    /\ UNCHANGED <<sourceVars, docVars, versionVars, handlerVars>>

Connector ==
    \/ \E replied \in BOOLEAN : UploadFile(replied)
    \/ ReportSeen
    \/ FindAbsent
    \/ EndScan

Handler(w) ==
    \/ Claim(w)
    \/ RequeueExpired(w)
    \/ ReadVersion(w)
    \/ ExtractDocument(w)
    \/ ReplaceEvidence(w)
    \/ Raise(w)
    \/ UnlinkRaw(w)
    \/ CommitIndex(w)
    \/ Finish(w)
    \/ Fail(w)

RNext ==
    \/ Edit
    \/ Connector
    \/ \E w \in Workers : Handler(w) \/ WorkerDies(w) \/ ExpireRaw(w)
    \/ QueueTime
    \/ VaultPaused

RSpec == RInit /\ [][RNext]_revisionVars

-----------------------------------------------------------------------------
(* Properties                                                              *)

\* Every variable keeps to its type, and the handler's position to the queue's.
RTypeOK ==
    /\ TypeOK
    /\ disk \in Jobs \cup {None} /\ known \in Jobs \cup {None}
    /\ visit \in {"no", "absent", "reported", "failed"}
    /\ carried \in Jobs \cup {None}
    /\ docState \in {"none", "queued", "indexed", "deleted"}
    /\ deleted \in BOOLEAN
    /\ current \in Jobs \cup {None}
    /\ missing \in 0..Confirmations
    /\ version \in [Jobs -> {"absent", "staged", "indexed"}]
    /\ raw \in [Jobs -> 0..MaxUploads]
    /\ evidence \in [Jobs -> SUBSET Evidence]
    /\ staged \subseteq 1..MaxUploads
    /\ step \in [Workers -> {"idle", "claimed", "read", "written", "unlinked",
                             "returned", "raised"} \cup Evidence]
    /\ taken \in [Workers -> 0..MaxUploads]
    /\ \A w \in Workers : holds[w] = NoJob <=> step[w] = "idle"

\* A deleted document leaves nothing to find: no version and no derived data,
\* although an extraction that began before the deletion goes on writing.
DeletionIsComplete ==
    deleted => \A v \in Jobs : version[v] = "absent" /\ evidence[v] = {} /\ raw[v] = 0

\* What becomes indexed has all its evidence, through crashes, retries, partial
\* writes and deletions, unless a new upload of the same revision took the place
\* of the copy being extracted (after a deletion the handler then goes on, and
\* indexes the new version without what it wrote for the deleted one).
IndexedIsWhole ==
    [][\A v \in Jobs :
          version[v] # "indexed" /\ version'[v] = "indexed" =>
              \/ evidence[v] = Yields
              \/ \A w \in Workers : holds[w] = v => taken[w] # raw[v]]_revisionVars

\* Ordinary search joins chunks with documents.current_version_id.
Searchable ==
    /\ ~deleted
    /\ current # None
    /\ version[current] = "indexed"

\* An indexed document stays searchable while newer revisions arrive, are
\* extracted, fail, expire or are taken back; only a deletion ends that.
SearchableStays == [][Searchable /\ ~deleted' => Searchable']_revisionVars

\* The document keeps the promise of DocumentPromise: what search shows was delivered
\* since the last deletion and is indexed, it changes only when a revision is indexed or
\* delivered, and only as many confirmed absences in a row as the threshold take it away.
Document == INSTANCE DocumentPromise WITH
    Revisions <- Jobs,
    shown <- IF Searchable THEN current ELSE None,
    waiting <- {v \in Jobs : version[v] = "staged"},
    ready <- {v \in Jobs : version[v] = "indexed"},
    absent <- missing,
    gone <- deleted
KeepsDocument == Document!OSpec

\* Every staged copy on disk is on record or in the hands of the handler, so that
\* somebody will remove it (docs/DECISIONS.md: "Raw server uploads expire after
\* 24 hours and are deleted immediately after successful extraction").
UploadsAreOnRecord ==
    \A n \in staged : (\E v \in Jobs : raw[v] = n) \/ (\E w \in Workers : taken[w] = n)

\* When the queue is quiet and the connector has nothing left to deliver, search
\* finds the revision the source has, unless its extraction failed
\* (docs/ARCHITECTURE.md: "Ordinary search returns current revisions only").
Quiet ==
    /\ Active = {}
    /\ visit = "no"
    /\ known # None /\ disk = known
    /\ ~deleted

SettledIsNewest ==
    Quiet /\ version[known] # "staged" => current = known /\ version[known] = "indexed"
=============================================================================
