# Personal Vault: formal models

TLA+ models of Personal Vault RAG, the TLC runs that check them, and theorems
about them that TLAPS checks. Every definition is a translation of code under
`src/`; `PROJECT.json` names, definition by definition, the lines it stands for.

## 1. The system

A Windows **connector** (Go) scans folders and uploads changed files to a
**FastAPI** process (admin/ingest API and MCP tools). One **worker** process takes
jobs from a table and turns staged bytes into text, table cells, previews and
vectors. All durable state is in **SQLite**, apart from staged files, preview files
and the vectors in Qdrant, which no transaction covers.

| Component | State | Operations | What makes it correct |
|---|---|---|---|
| Job queue (`catalog.py`, `worker.py`) | `jobs`, `vaults.last_job_claim_at`, `vaults.paused` | `create_job`, `claim_job`, `finish_job`, `fail_job`, drop of superseded failures | one handler per job; a verdict meets the row it was made for; bounded retries; no vault starves; a dead worker's job returns |
| Ingestion and reconciliation (`catalog.py`, `main.py`) | `documents`, `versions`, staged files | `register_upload`, `seen`, `complete_reconcile` | deletion only after two confirmations and then complete; every staged copy on record |
| Extraction worker (`worker.py`) | `chunks`, `chunks_fts`, `table_cells`, `previews`; a handler's position | `process_extract`, `process_render_visual` | nothing half extracted is indexed; an indexed document stays searchable; the newest revision wins |
| Temporary inspections (`mcp_server.py`, `worker.py`) | `temporary_inspections`, staged files | attach, extract, record failure, expire, poll | a poll ends and does not take back its answer; bytes do not outlive their record |
| Expiry cleanup (`catalog.py`) | staged paths, previews, artifacts | `cleanup_expired` | everything temporary is bounded in time |
| Connector scan (`connector/main.go`) | state file: path to (document ID, size, mtime, hash) | `scan`, `upload`, `seen` | saved state never claims more than the server has; renames keep identity |
| Artifact delivery (`main.go`, `main.py`, `mcp_server.py`) | `pending_artifacts`, files in the destination | save, list, fetch, write, complete | saved means exactly those bytes were written; no foreign file overwritten; no duplicates |
| Vectors and visual recovery (`worker.py`, `retrieval.py`) | Qdrant points, `embedding_batches`, readiness columns | `embed_text`, `embed_visual`, `render_visual`, `mark_historical`, deletions | readiness implies the vectors are there; deleted documents have none |
| Provider and budget (`provider.py`, `budget.py`) | `usage_ledger` | `reserve`, `complete`, `release`, `mark_uncertain` | what may have been billed stays counted, and within the month's allowance |
| Search (`retrieval.py`) | none of its own; a request's rankings | the lexical, text and visual channel, fusion, check against SQLite, reranking, selection | results are fresh and diverse; without a key the lexical channel alone answers |
| Tokens, pairing, OAuth (`security.py`, `oauth.py`, `main.py`) | token, code and pairing tables | issue, redeem, refresh, revoke | not modelled, see section 5 |
| Passages, tables, MCP read tools, views | none of their own | fetch, calculate, render | readers of the state above |

**How they interact.** Components share only the database and the file system.
`register_upload` and `complete_reconcile` are single `BEGIN IMMEDIATE`
transactions of API threads; the worker's handlers are *sequences* of transactions
with file operations between them. That is where the hard behaviours are:

* an upload, a deletion or an expiry between two transactions of a handler;
* a death of the worker, or of the API process, between two commits or between a
  commit and the removal of a file;
* a lease that expires, a retry of a half-finished job, a job revived or asked for
  again while it runs;
* a reply the connector never sees: it repeats an upload that succeeded, or saves
  a state older than the server's;
* several jobs, several vaults, and one worker;
* what SQLite says of Qdrant and of the preview files, between the call that changes the
  one and the commit that says so;
* two scans at the same time, which share a state file, and answers of the provider that
  are billed and never arrive.

The hazards are listed in `PROJECT.json`, each at its line, with the properties that
cover it, or the reason why none does yet.

## 2. Modules

| Module | What it is |
|---|---|
| `JobQueue` | the queue with its workers; `VaultRotation`, `Inspection` and `Revisions` extend it |
| `VaultRotation` | `JobQueue` with a history variable, to state fair rotation |
| `Inspection` | temporary inspections on the queue |
| `DocumentPromise` | abstract: what search shows of one document, and what takes it away |
| `Revisions` | one document from its source file to the lexical index, on the queue; implements `DocumentPromise` |
| `SavePromise` | abstract: what an explicit save from a chat promises |
| `ArtifactDelivery` | explicit saves, from the tool call to the file in the folder; implements `SavePromise` |
| `Vectors` | the vectors and previews of one document, and what SQLite says of them |
| `ConnectorScan` | the scan of one source with several files, its state file, and the rows of the documents |
| `Budget` | the paid calls of a vault and their ledger |
| `Search` | a search from its first query to its answer; extends `Budget`, whose callers are requests and jobs |
| `JobQueueProofs`, `VaultRotationProofs`, `InspectionProofs`, `RevisionsProofs`, `ArtifactProofs`, `VectorsProofs`, `ScanProofs`, `SearchProofs` | theorems, each about the module it is named for; `SearchProofs` about `Budget` too |
| `MC*` | constants for TLC, nothing else |

An action is one transaction, one autocommitted statement, one file operation or one
death of a process. Where the code keeps several columns for one purpose only what
the properties can tell apart is kept.

**`JobQueue`.** A job is its `(vault, kind, payload)`, the triple `create_job` looks it
up by. `state`, `attempts` are columns. Times are not numbers: the comparison of
`not_before` and `lease_expires_at` with *now* is a flag (`delayed`, `leased`) that
`BackoffEnds` and `LeaseRunsOut` flip, the comparison of two `created_at` or two
`last_job_claim_at` is a relation (`older`, `sooner`; a vault never served, whose
NULL counts as 0, comes before all that were). `holds` and `snapshot` are the
local `job` of the worker's `main`: the job and the `attempts` that `claim_job`
returned, taken *before* its UPDATE. `claim_job` is `ClaimJob`, or `ClaimNothing` when
it requeues expired leases and finds nothing; `Requeued`, `Claimable` and `First` are its
three statements. `claim_job` reads its stamp before `BEGIN IMMEDIATE` (`worker.py:27`), compares leases
and back-offs with it and stores it as the vault's last claim. When it has to wait for the lock that is a
step of its own, `AwaitLock`: `waiting` are the workers that wait, `missed[w]` what became due
since `w` read the clock and will be overlooked, and `sooner` orders their stamps among the last claims of
the vaults. A claim without a wait reads the clock and commits in one step. `LockTimesOut` is the end of the busy
timeout. A completed row and no row are the same state: nobody reads a completed row.

**`VaultRotation`** adds `passed[v]`: which vaults were served, with a stamp later than the last claim
of `v`, since `v` began to wait.

**`Inspection`.** `call` is how far `inspect_chat_attachment` has come (bytes, row, job:
three commits); `row`, `path`, `old` are columns, `file` the bytes on disk; `step` is the
handler's position and `giveUp` the inspection `fail_job` has still to mark after it
committed the job's row. The handler commits the result and only then removes the
file. Every INSERT, UPDATE and unlink may raise. `ToolFails` is an exception of the tool call or the death of its
process; `DiscardBytes` may fail to remove the file, `ExtractionFails` too; an exception of `fail_job` or
`cleanup_expired` ends the worker's process and is part of `WorkerDies` and `CleanupFails`, which leave the file system
as far as it was changed and roll the rows back. `lost` remembers which bytes a failure or a death has cut loose
from their record. The wait for the lock of `JobQueue` is left out here: a single worker only overlooks what became due meanwhile.

**`Revisions`.** `Jobs` is the set of the file's revisions: a revision names the version
row and its extract job, both stable IDs. `disk`, `known`, `visit`, `carried` are the file,
the connector's saved state, and the running scan with the state it is about to
save; uploads number their staged copies, so that `staged` (on disk), `raw`
(`raw_staging_path`) and `taken` (the handler's local `raw_path`) can differ.
`process_extract` is `ReadVersion`, `ExtractDocument`, `Replace` three times, `UnlinkRaw`,
`CommitIndex`; `Raise` is any exception on the way, `LoseCells` the table cells' autocommit
row by row. `evidence[v]` has one member per kind of derived data; `chunks_fts` goes
with `chunks`. Foreign keys are guards (`RowsAccepted`) and cascades. `Register`, `Confirm` and
`ExpireRaw` are `register_upload`, `complete_reconcile` and the part of
`cleanup_expired` about staged copies. A scan's request that fails before it reaches the
server changes nothing there and is left out; one that succeeds and whose reply is
lost is not.

**`ArtifactDelivery`.** `state`, `born` (`created_at`), `old` (`expires_at` is past) are columns
of `pending_artifacts`, `bytes` the staged file; `staging` are the downloads that have no row yet, `closing` the
saves whose staged file `artifact_complete` removes only after its commit. `SaveFails` is an exception between
the download and the commit of the row, `RemoveFails` an unlink that raises, `CleanupFails` a cleanup that
raises or dies after it has removed some files: its rows roll back to pending. `lost` are the bytes left behind so. Each connector has its `todo` (the
listing it works through), the position `step` of `writeArtifact` in the attempt number
`try`, and a folder: `disk` is what is at a path, `sidecar` what is in its `.note.md`. Every
file operation is an action, so a death leaves a target half written (`Partial`), a note
half written, or a report unsent. `writeArtifact` and `ensureAnnotation` ignore every error of `os.Remove`: where one is
refused, what was to be removed stays, half written or whole (`Spoil`, remembered in `spoilt`, with the places
where a death struck), and `fileMatches` takes a file it cannot read for another one (`Misread`). `Report(c, FALSE)` is a report that is lost, a failed
report or a lost reply being the same to a connector that does not look at it. A content is
one value: size and SHA-256 are compared as equality of contents. Two
names that differ are two paths; that a file called `x.note.md` may be asked for next to `x`,
and the rename rules of `safeName`, are left out. `UserEdits` puts a file of the user at any path,
or takes one away, but not the one the connector is writing at that moment. `places` is history.

**`Vectors`.** A version's record `row[v]` is its row in `versions` and what cascades from it:
`ready` are `text_indexed_at` and `visual_indexed_at`, `has` the chunks and previews, `batches` the
rows of `embedding_batches`. `points` and `marked` are Qdrant, `files` the preview files. Every
statement, call to Qdrant and file operation of the five handlers is an action: `EmbedBatch` upserts
and `RecordBatch` commits, `Drop` and `Mark` take one modality after the other. `complete_reconcile`
is `Delete` and, after its commit, `Unlink`; `provider_config` is `Configure` and `Backfill`; a viewer that
does not find a preview's file is `Look` and `Withhold`, two transactions of `api_visual_preview` and
of `inspect_visual`. The queue is written out here for one vault and one worker, without the order of
jobs of one priority: with `JobQueue` itself the space would be out of TLC's reach. Jobs that differ
only in the embedding model are one, since no operation changes the model of a vault.

**`ConnectorScan`.** `scan[s]` is a running `scan()`: `old` and `next` are the two states, `todo` the
walk, `complete` whether anything went wrong. A generation is a time, and only its comparison
with `last_seen_generation` matters: `behind` are the documents whose last report is older than this
scan, `after` the scans that began before it. `docs` has a row for every document ID, deleted ones
included, with the path that the unique index knows. `Report` is what `/api/seen` and the upsert of
`register_upload` have in common. `scan()` returns nil although an upload failed, since only
`complete` is set; nobody reads the result but the log. Several sources and the case of letters are
left out; equal hashes with different times count as different contents.

**`Budget` and `Search`.** `call[c]` is one call of `embed_texts`, `rerank` or `embed_visual_inputs`: reserved,
posted (`good`; `odd`, an answer that turns out to be malformed after `complete`; `lost`), settled.
`billed` is the provider's side, which the program never sees. A month is attributed by the
reservation, as in the ledger. A reservation is assumed to be an upper bound of the bill: it
counts bytes as tokens and full pixels. `request[r]` is a search between two of its statements. A channel returns *any*
ranking without repetition of what it can see, so the properties hold for every ranking function;
Qdrant may return any version that ever had vectors, current or not. `Fused`, `Taken` and
`Select` are the fusion and the selection as the code computes them.

Operators with `Mutant` in their name are the neighbouring definition with a plausible
bug. No specification uses them: `PROJECT.json` pairs each with the property that
fails when it takes the definition's place, which shows that the property depends on
that line of the code.

## 3. Runs

| Run | Question | Result |
|---|---|---|
| `queue` | two workers, two revisions of one document and an urgent job of another vault, retries, one death, one wait for the lock: `Exclusive`, `VerdictFitsRow`, `RetryBudget`, `PassedStandBehind`, `NoSecondOvertake`; under fairness `QueueDrains`, `InterruptedJobReturns` | holds |
| `inspection` | two attachments, a tool call that fails or dies, commits and removals that fail, one death of the worker: `StrayBytesHaveACause`, `ExtractsOnlyQueued`, and under fairness `PollEnds` | holds |
| `inspection_complete` | is a completed inspection ever reported failed? (`CompleteStays`) | violated |
| `revisions` | one document, two revisions, three uploads, two edits, three scans, one death: `DeletionIsComplete`, `IndexedIsWhole`, and `KeepsDocument`: it implements `DocumentPromise`, in which only the last absence takes away what search shows (`SearchableStays`) | holds |
| `revisions_newest` | does a quiet system show the newest revision? (`SettledIsNewest`) | violated |
| `revisions_staged` | is every staged copy on record? (`UploadsAreOnRecord`) | violated |
| `delivery` | two files of the same bytes with different annotations and a note, all of one name; one connector, any failed attempts and lost reports, expiry, one death, one operation refused by SQLite or a file system, or one edit of the user: `KeepsPromise`, `DeliveredWhole`, `SavedInOnePlace`, `OthersFilesStay`, `OnlyDeliveriesStay`, `BytesFollowState` | holds |
| `delivery_notes` | does a repeated delivery of a note add nothing? (`NotesStandAlone`) | violated |
| `vectors` | one document, two versions, two batches of text and one of previews, three uploads, two disturbances (a deletion, an expiry, a change of the settings, a viewer, a failure or a death): `DeletedLeavesNoVectors`, `ReadyUntilDeleted`, `MarkedIsCurrent`, `NothingLeftBehind`, `VisualHasPreviews` | holds |
| `scan` | two files, two scanners, four scans, one edit, one failure or death: `PresentIsKept`, `SavedIsAccepted`, `LiveIsFound`, `FoundIsKnown` | holds |
| `scan_returns` | does the server take what a scan sends? (`SentIsAccepted`) | violated |
| `search` | a request and a job, two revisions, two attempts, one change of the catalogue, the settings or the month: `BilledIsCounted`, `WithinAllowance`, `AnswerIsFresh`, `LexicalStays`, `Diverse` | holds |

The five violations are behaviours of the code:

1. **A complete inspection turns failed.** The worker commits `complete` and dies before
   `finish_job`. The lease expires, the retries raise (the row is no longer `queued`),
   and at the last one `fail_job` sets `state='failed'` without asking what it was
   (`worker.py:71`). A second way, without a death: the unlink in the `finally` clause
   raises after the commit.
2. **An older revision displaces a newer one.** The worker is extracting r1 when r2 is
   uploaded. The last transaction for r1 deletes every *other version without
   indexed_at* (`worker.py:238`), r2 and its bytes among them. r2's job fails until it
   is given up; the connector's state says r2 is delivered, so it only reports it as
   seen. Search stays on r1 until the file changes again. `SettledIsNewest` has a second
   kind of counterexample: the file returns to an indexed revision while a newer one
   is queued, whose job then makes it current.
3. **A staged copy is forgotten.** The reply to an upload is lost and the upload
   repeated: the upsert replaces `raw_staging_path` (`catalog.py:187`) and the first
   copy is on no record that deletion or `cleanup_expired` reads.
4. **A note is annotated with itself.** A note is written, the report is lost, the note is
   listed again. The branch of `writeArtifact` for an existing file (`main.go:561`) calls
   `ensureAnnotation` without asking for `HasFile`, as the branch for a new file does
   (`main.go:600`), and `note_text` is the note itself: `x.md.note.md` appears beside `x.md`
   and the next scan indexes it as a document.
5. **A file that comes back is refused.** A complete scan that does not find a file drops its
   entry from the state file (`main.go:468`), while its row keeps the path. When the file returns,
   the scan makes up a new document ID (`main.go:443`), and the unique index on the path
   (`db.py:83`), which deleted rows obey too, refuses the upload, now and in every later scan.
   Each of these scans is incomplete, so no deletion of the source is confirmed any more.

**Bounds.** `MaxAttempts` is 2 or 3 (3 in the code): 2 already has a retry and a final
failure. Three jobs and two vaults are the least for which priority, age and rotation
disagree. `queue` has two workers whose handlers end within their lease; one worker whose handlers
outlast it is the instance of `inspection`, and the theorems hold for both. Two revisions are
the least for which one can be obsolete; three uploads let a file return to a revision that is
indexed, or one revision arrive twice and the other once; two edits let a file change and
return or vanish and return. `revisions` deletes after one confirmation instead of two, so that
three scans allow a deletion, a return and one more; two confirmations are in `scan`, in the
two violations, and in the theorems.
One death is enough for every window between two steps, since after a restart
nothing of the worker's memory is left; the theorems hold for any number.
`MaxRequests` bounds the calls that ask for a job and those that pause a vault instead; `MaxWaits`, the waits for
the lock, is 1 in `queue`: that is enough for a claim to be committed after another one and stamped before it, and 0 elsewhere.
In `delivery` one name for three artifacts makes every candidate collide, two candidates per
artifact let the first be taken, and a listing of one leaves saves behind that the next one finds. `MaxTroubles` bounds the deaths, the refused operations
and the edits of the user together; it is 1 in the run, and with 2 the properties hold as well (12.5 million
states). One connector: folders are not shared, and a
second one meets the first only in the server's row, which the theorems cover for any number.
In `vectors` two batches of text let a handler stop between them; three uploads go to a version,
away from it and back. With two uploads and three disturbances (6.6 million states) the
properties hold as well. In `scan` two files and two contents are the least for a rename, a copy
and an exchange, four scans allow a deletion (two confirmations), what led to it and what follows;
wider instances hold too: two edits (8.2 million states), three files with one scanner and
four edits (3.5 million), three edits and two failures. In `search` one document with two
revisions lets a channel return what is no longer current. The estimates of two calls (2 each) do
not both fit in the allowance of 3, so that the request and the job compete; what the first call
costs decides whether the second follows. Two candidates of a channel and allowances of one and two
calls hold as well (2.4 million states). The cap of the fusion and of the reranking (50 and 12 in
the code) are set to what there is. The limit of 4 and the share of 1 keep the proportions of the
code, where the share is 3 of a limit of 8. With one document and that share an answer of the run holds at most one
result, and the limit is never reached: how a longer answer is filled is the subject of `AnswersAreDiverse`,
which is for any documents, limits and shares.
The symmetries exchange the revisions of a document, or contents and scanners, which nothing in
those configurations tells apart; none of these runs checks liveness. Deadlock is not checked: with
its bounded counters used up the system rests.

**Fairness.** Some worker's loop goes on as long as there is something to do, and a handler returns or raises
(weak fairness of the workers' steps together), the clock goes on (`LeaseRunsOut`, `BackoffEnds`,
`Expire`), and `cleanup_expired` has its hour when the worker is idle and does not fail for ever. Nothing is
assumed about users, the connector or the API. No strong fairness is needed:
`ClaimJob` and `ClaimNothing` together stay enabled while there is something to do. `QueueDrains`
says that from some time on every job is completed, given up or in a vault that was paused;
`InterruptedJobReturns` that the jobs which dead workers left `running` do not stay so.

**How far the properties hold.** `NoSecondOvertake` and `PassedStandBehind` go by stamps. With two workers a worker may read
the clock, wait for the lock while the other one claims for vault A, and then claim for B with its earlier stamp:
B then stands *before* a vault that waits since A's claim, and is served again before it. Such a claim does not
count as having passed the waiting vault, and a worker does not see a job that became due after it read the clock: each
such reading may give a vault one more turn. With one worker every stamp is the latest (`OneWorkerIsFresh`), and the two
say what `docs/ARCHITECTURE.md` calls fair rotation without reserve. That a single worker which waits may overlook
what becomes due meanwhile remains.

`IndexedIsWhole` has an exception the code needs: if the document is deleted and the same
revision uploaded again while it is being extracted, the handler's last transaction
meets the new row (same stable ID) and marks it indexed although its evidence went
with the old one.

`StrayBytesHaveACause` names the three ways in which bytes of an inspection come to lie on no record, and says that
there are no others: the call raises or dies between the download and the INSERT (`mcp_server.py:215-222`), or,
after the result was committed with `staging_path=NULL`, the worker dies before the unlink (`worker.py:442`) or the
unlink raises. In each of them the bytes stay for good.
`BytesFollowState` does the same for the bytes of a save: what can be asked for is staged, whatever failed; and bytes stay
beside a row that is not pending only while a call is under way, after a call that raised or died between the
download and its commit, or after a completion whose removal (`main.py:472`) raised or was cut short.

The properties of `Vectors` state how far they hold, and each exception is a state the model
reaches. `ReadyUntilDeleted`: after a deletion and a new upload a late `delete_vectors` removes vectors just
written, and an embedding handler that began before may record its batch in the new row; a
`delete_version_vectors` that comes late after a failure removes what was embedded since; a rendering that
is to be repeated has dropped the vectors before it withdraws the readiness. `VisualHasPreviews`: an
extraction that fails after its last commit begins again by replacing the chunks, and the previews with
them, while the row goes on saying that the version is visually ready; `replacing` is the history
of that. The proof brought this out: said of versions whose extract job rests, the property holds in the
run and fails in longer behaviours, where that job is given up half way.
`MarkedIsCurrent` and `NothingLeftBehind` except behaviours in which `create_job` returned a job that the
worker was running (`overlooked`): that run has read its input, and no job sees the change. A job that a dead
worker held is no exception, since it will run again.

`FoundIsKnown` excepts documents that two paths once shared: the walk gives a copy that comes before
its original the original's document. `PresentIsKept` is an action property, and its two conditions are
what the proof needed; TLC confirmed that it fails without either.
(a) There are no more scanners than confirmations. The daemon and the `scan` command are two, and so are the
confirmations. With three, a report of the slowest scan takes the generation of a present document back, so
that the two scans which began after it both count it as missing.
(b) When scans have overlapped, a document may be deleted *already* where nothing was touched: the late
report of an overlapping scan moves it to the path of a copy, it is deleted there, and `/api/seen` takes it
back to its own path and leaves it deleted (`main.py:271` resets the missing count and not `deleted_at`).
Three paths, five scans and three edits are the least for that, more than the run has.
`LexicalStays` is about vaults without a
key, because with one the calls to Qdrant that stand before the `try` of `_dense` and `_visual` can
fail the whole request.

`OnlyDeliveriesStay` says that a folder which the user leaves alone holds what was delivered, with its annotation,
and the target at work, and nothing else, however attempts failed, *but where a removal was refused or the connector
died* (`spoilt`). There half a file, a whole file without its annotation, or an annotation by itself stays, and the
next scan indexes it: the error of `os.Remove` is ignored (`main.go:551`, `597`, `602`, `605`).

`SavedInOnePlace` holds while the user leaves the folder alone. A delivered file that could not be read when the
delivery was repeated is written a second time under the next name (`misread`). A note is delivered twice as well if
something stands beside it that is not its text: what a failed removal or a death left (`spoilt`), or the
annotation of a file whose bytes are the note's text (`Unrivalled`). In the latter case the file is recognised in
the note's place and its annotation written beside it; if the note's report was lost, the note is delivered again,
`writeArtifact` takes that annotation for a foreign one (`main.go:561`) and writes the note a second time
under its next name. This came out of the proof: no artifact of the run has another's
bytes and is a note. Deaths are no exception for files: what a death left half written is passed over by every
later attempt in the same way.

## 4. Theorems

TLAPS proves, for any sets of jobs, vaults, workers, revisions, artifacts, connectors, paths and scanners
and any bounds:

| Theorem | States |
|---|---|
| `TypeCorrect`, `ExclusiveHolds`, `VerdictFitsRowHolds`, `RetryBudgetHolds` | the invariants of `JobQueue` |
| `FairRotation`, `PassedStandBehindHolds` | the rotation of `VaultRotation` |
| `OneWorkerIsFresh` | with one worker no stamp is out of date when it is used, so that the rotation is that of all claims |
| `RevisionsTypeCorrect`, `DeletionHolds`, `IndexedIsWholeHolds`, `SearchableHolds` | the invariants and action properties of `Revisions` |
| `DocumentKept` | `Revisions` implements `DocumentPromise`, for any number of confirmations |
| `InspectionTypeCorrect`, `ExtractsOnlyQueuedHolds`, `StrayBytesHaveACauseHolds` | the invariants of `Inspection` |
| `DeliveryTypeCorrect`, `PromiseKept` | `ArtifactDelivery`: its types, and that it implements `SavePromise` |
| `DeliveredWholeHolds`, `OthersFilesAreSafe`, `OnlyDeliveriesStayHolds`, `SavedInOnePlaceHolds`, `BytesFollowStateHolds` | what it leaves in the folders and in the staging directory: all the safety properties of its run |
| `VectorsTypeCorrect`, `DeletedLeavesNoVectorsHolds`, `VisualHasPreviewsHolds`, `MarkedIsCurrentHolds`, `NothingLeftBehindHolds`, `ReadyUntilDeletedHolds` | all the invariants of `Vectors` |
| `ScanTypeCorrect`, `SavedIsAcceptedHolds`, `PresentIsKeptHolds`, `LiveIsFoundHolds`, `FoundIsKnownHolds` | `ConnectorScan`: all the properties of its run |
| `LedgerInvariant`, `BilledIsAlwaysCounted`, `NeverOverspent` | `Budget` as `Search` and its jobs use it: its types, that what may have been billed is counted, and that a month's bills stay within its allowance |
| `RequestInvariant`, `SearchTypeOK`, `AnswersAreFresh`, `LexicalSearchStays`, `AnswersAreDiverse` | `Search`: all the invariants of its run, for any documents, requests, rankings and limits |

**Assumptions.** `JobsAssumption` and `BoundsAssumption` say what the constants are.
`LeaseAssumption` is the one with content: either no handler outlasts its lease, or there
is one worker, as `docs/OPERATIONS.md` demands. `Revisions` and `Inspection` assume one
worker. `PresentIsKeptHolds` has one hypothesis of its own, no more scanners than confirmations, which
the instance of the run meets with two and two (section 3 says why it is needed). `DeliveryAssumption` says that there are finitely many artifacts and that the markers of a
folder (no file, half a file, a file of the user) are no content. TLC evaluates them in the runs.

**Arguments.**

* `JobQueue`: `Exclusive` is not inductive: a requeued job with a live handler would be
  claimed twice. `HoldersInv` adds that a held job is `running`, has an unexpired lease
  unless it is slow, and `attempts = snapshot + 1` (`VerdictFitsRow`). Lemma
  `ExpiredIsOrphaned` is the heart: when an idle worker claims, nobody holds what has
  expired, by `LeaseAssumption`. `BudgetLeft` strengthens `RetryBudget`: attempts above the
  budget are paid for by crashes, with one to spare while no handler runs.
* `VaultRotation`: `PassedStandBehind` is the invariant. A claim puts its vault in its worker's place in the
  order of stamps (`StampedOrder`): behind every vault whose last claim is earlier, which are those it is counted as
  having passed; vaults already passed stay behind until the waiting one is served, and it is served with a stamp of
  its own. A claim by `First` of a vault behind one with a claimable job contradicts `Ahead`.
* `Revisions`: `QueueStep` shows that each step is a step of the queue or leaves it alone,
  so the queue's invariants carry over. `Counted` bounds what `RTypeOK` needs. `IndexInv` says
  for each position of the handler which evidence is already there if the copy it took
  is still the one on record, and that evidence hangs only on existing versions and an
  indexed current version stays one. Deletion takes all of it at once, a late insert
  meets its foreign key, and the last transaction spares the version it indexes. With the same invariant each
  step maps to one of `DocumentPromise`: an upload delivers, `/api/seen` sees, a complete reconciliation
  misses, the last transaction publishes. One abstract step is there because the code can do
  it: an extraction that outlives the deletion of its document finds its own version gone, indexes nothing,
  and removes the versions delivered since (`GiveUp`). The promise does not say that the newest delivery
  is shown in the end: `revisions_newest` refutes that.
* `ArtifactDelivery`: `PromiseInv` adds to the types that only what was asked for is listed
  (`Asked`) and that a success about to be reported has a place (`Landed`); then a step is
  a step of `SavePromise` or changes neither the row nor the places. `WholeAt` is the invariant
  of one folder: an attempt works only at a target it has created where nothing was
  delivered, or at one whose bytes it has recognised, and then it changes nothing there but
  a missing note. `DeliverIsLocal` reduces a step to the folder of its connector. `BytesInv` adds that a download
  under way has no row and its bytes, and that a row being completed is `saved` already, so that the removal of its bytes,
  the cleanup and a new save never meet. `LeftAt` is `OnlyDeliveriesStay` for one folder; `KeepsLeft` reduces a step to
  the one path it touches, where it leaves a delivery, a target at work or nothing, or else spoils the path.
  `SavedInOnePlace` needs the most. `TidyAt` says that the names an attempt has
  passed are `Barred` to its artifact, by what lies there or because it could not be read, and that each artifact lies
  under a name before which all are barred. A barred name stays barred, because what is in place and not the
  target at work is never changed (`WriteKeepsSettled`, `BarredStays`), and no artifact bars its own place (`OnePlace`), so a
  repeated attempt ends there.
* `Inspection`: `InspectionInv` takes `HoldersInv` from the queue and ties the handler's position, the row
  and the bytes together: only the one worker's handler, `fail_job`'s tail and the cleanup, which needs an
  idle worker, settle a row or remove bytes, and each does it while the others stand still. A failure or a death that takes a
  record away from bytes is one of those that `lost` remembers (`BytesStayTracked`).
* `Vectors`: `VInv` bounds the attempts of a job by its budget and the troubles that remain (`JobsFit`),
  says at which step a handler of which kind stands (`HandFits`), and then two things: while a document is
  deleted either its `delete_vectors` job is still to come or at work, with the modalities
  it has dropped empty, or there is no vector (`VectorsGone`); and what embeds previews has found them
  (`PreviewsFound`), since a cleanup takes an idle worker and a rendering the same worker.
  The other three invariants have strengthenings of their own, each over `VInv`.
  `MarkInv`: unless a `mark_historical` job of the current version is still to come, the handler that marks has
  left the right marks in the modalities it is through with (`MarksOf`), and what other handlers do keeps them.
  `LeftInv`: for whatever the current version lacks there is an embedding job, or an extraction or rendering that
  ends by asking for one, which has still to end or was given up (`Coming`), unless the backfill of a setting or the
  start of the worker is ahead, which ask for it.
  `ReadyInv` has a part for each regime. Without deletions no `delete_vectors` exists (`UndeletedFit`); without
  expiries and viewers no `delete_version_vectors` (`UnexpiredFit`); without failures a version is extracted
  once, previews have their files, and a `delete_version_vectors` runs before anything else can
  (`UntroubledFit`), because its priority is the highest and the cleanup finds the queue empty. In both regimes
  `Kept` says that what a version has recorded or is ready in is in Qdrant, and `EmbeddedSoFar` the same of the
  batches an embedding handler has passed.
* `ConnectorScan`: `ScanInv` says that every entry of a state, the file's or a scan's, is a content accepted
  for its document (`EntriesAccepted`), that a document has one path and a path one document
  (`DocsFit`), and where each scan stands (`ScansFit`). `PresentIsKept` needs to count: a present document
  is counted missing only after a late report, and the scans that a report is late for are scans that run beside
  the reporter. `LateScansFit` says that the missing count of a document at an untouched
  path and the scans which may still raise it are together fewer than the scanners, hence than the
  confirmations. `AloneFit` says of a scan without another beside it which
  documents it has met and which entries it will save; `LiveIsFound` is its conclusion. `FoundIsKnown`
  follows each entry through the scan: the document lies where the entry says, or another path is
  a `Rival` for it and will have it in the saved state too, or two paths shared it before (`Placed`). A report moves a
  row away from a path only to the file at hand, which then is the rival of the other (`RowStays`), and a
  rival stays one until the scan saves, when the sharing comes on record (`SaveFinds`). An incomplete
  scan keeps entries it did not come to, so `EntriesPlaced` is about the old entries as well, and an
  entry that an upload failed for is a rival only in a scan that is not complete.
* `Budget`: `BilledIsCounted` is not inductive, because nothing in it says which row a call
  settles. `BInv` adds that a call under way has a row that no other call writes in, still
  `reserved` while the outcome is open (`CallOwnsRow`), and that a row covers what may have been
  billed, whatever its state (`RowCovers`). `OneRowChanges` reduces a step to the row of its
  call, `BudgetStep` a step of `Search` to a step of the ledger. That a reservation is an upper
  bound of the bill is an assumption of the model.
  `WithinAllowance` speaks of a sum over all rows. `MoneyFits` says that the rows charged to a month
  add up to no more than its highest allowance, and that this is no less than the allowance in force;
  a step changes one row, and `TotalOfOneMore` says by how much the sum then changes. `Spent` is the
  sum that `reserve` compares in the transaction of its INSERT, which is why two
  callers cannot take the last of the allowance together. Rows of earlier months may still be settled
  after the month has turned: they never become dearer (`RowCovers`).
* `Search`: `SearchInv` says of each request what it has collected: what is ranked could be found
  while it ran (`RequestFits`), between what stayed findable (`steady`) and what ever was (`fresh`), and the
  results are the selection from what is ranked. `Load` is the step that matters: before it nothing is
  known of what Qdrant returned, after it everything is. Without a key nothing was embedded and every call is
  refused (`KeylessCalls`), so the lexical channel is alone and the fusion keeps its order
  (`LexicalIsFused`). `SelectedFrom` is the specification of the selection for a prefix of the candidates:
  `OneMoreCandidate` extends it by a candidate, `SelectionOfAll` concludes by induction.

`Total` and `Select` are recursive functions, and tlapm cannot use the library's induction theorems, whose
parameter is a predicate. `NatInduced` is induction over a *set* of numbers, proved from the
well-foundedness of `<`: the set of those n for which the function is what it should be is a set like any other.

**Only model-checked:** `QueueDrains`, `InterruptedJobReturns` and `PollEnds` (liveness under
fairness is out of the prover's reach). Every invariant and every action property of the passing runs is a theorem.

## 5. Not modelled, and the plan

Left out on purpose: text extraction, rendering, HTTP and MCP plumbing, migrations,
set-up dialogs, scripts, ranking quality: no shared state, or nothing but input and output.
Access tokens, pairing codes and the OAuth flow guard the way to the vault's data and are not
part of the project, which is about the data. `fetch_chunk` and `calculate_table` read one
snapshot of rows that `Revisions` shows to be whole. Documents of different sources and vaults
share nothing but the worker, and the queue's modules have several vaults.

`Revisions` takes a commit and the unlinking after it in `complete_reconcile` as one step, and
leaves out previews, marks and the visual-recovery branch of `register_upload`: these are in
`Vectors`. A cleanup that fails after it has removed staged copies is left out of `Revisions`: it leaves what an extraction
leaves that raises after its unlink, a path without a file. `Search` keeps the chunks of a version as they are while it exists. A reranking that names an item twice or
leaves one out is not modelled: what a reranking returns is some order of what it was given. `reserve` reads its stamp
before its transaction, as `claim_job` does, and the model takes the two together: they differ only for a reservation that waits
for the lock across a turn of the month, which is then charged to the month before, under the allowance in force when it commits.

What could come next: an abstract document that also says what the vectors and previews show,
implemented by `Revisions` and `Vectors` together.
