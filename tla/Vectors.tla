------------------------------- MODULE Vectors -------------------------------
(***************************************************************************)
(* The vectors of one document and what SQLite says of them:               *)
(* process_embed_text, process_embed_visual, process_render_visual and     *)
(* process_job of app/worker.py, the point operations of app/retrieval.py, *)
(* and what the queueing, upload, deletion and cleanup of app/catalog.py   *)
(* have to do with them.  No transaction spans SQLite, Qdrant and the      *)
(* preview files.                                                          *)
(*                                                                         *)
(* The queue is that of JobQueue for one vault and one worker, except that *)
(* jobs of one priority are claimed in any order.                          *)
(***************************************************************************)
EXTENDS Naturals

CONSTANTS
    Versions, None,
    Batches,       \* how many batches a version has in each modality
    MaxAttempts,   \* jobs.max_attempts, 3
    MaxUploads,    \* bound on the uploads
    MaxEvents      \* bound on deletions, expiries, settings and troubles together

Modalities == {"text", "visual"}

ASSUME VectorsAssumption ==
    /\ None \notin Versions
    /\ Batches \in [Modalities -> Nat \ {0}]
    /\ MaxAttempts \in Nat \ {0}
    /\ {MaxUploads, MaxEvents} \subseteq Nat

Embeds == [embed_text |-> "text", embed_visual |-> "visual"]

Priority == [delete_vectors |-> 20, delete_version_vectors |-> 20, mark_historical |-> 30,
             render_visual |-> 70, embed_text |-> 80, embed_visual |-> 85, extract |-> 100]

\* A job is its kind and payload; delete_vectors names the document alone.
DeleteVectors == <<"delete_vectors", None>>
Jobs == ((DOMAIN Priority \ {"delete_vectors"}) \X Versions) \cup {DeleteVectors}

Pieces == UNION {{m} \X (1..Batches[m]) : m \in Modalities}
Point(v, p) == <<v, p[1], p[2]>>

VARIABLES
    doc,         \* "documents": [current, deleted]
    row,         \* "versions" and what cascades from it, a record for each version
    on,          \* "vaults": a provider key and an allowance above 0
    files,       \* the versions whose preview files exist
    points,      \* <<v, m, n>> : the vectors of v's batch n in modality m are in Qdrant
    marked,      \* the points whose payload says "current"
    status,      \* jobs.state, "delayed" before not_before
    tries,       \* jobs.attempts
    overlooked,  \* history: was a job asked for while the worker ran it?
    hand,        \* the worker: its job, the handler's step and loop index
    unlinking,   \* complete_reconcile: preview directories it has still to remove
    backfill,    \* provider_config: has it still to queue what is missing?
    missed,      \* a viewer of a preview: the version whose file it did not find
    count        \* how often each of these happened

outside == <<files, points, marked>>
queueVars == <<status, tries, overlooked>>
apiVars == <<on, unlinking, backfill, missed>>
vectorVars == <<doc, row, outside, queueVars, hand, apiVars, count>>

\* Its state ("absent", "staged", "indexed"), whether raw_staging_path is set, the
\* modalities it has rows for ("text" chunks, "visual" previews), those it is ready
\* in, visual_recovery_needed, and its rows of "embedding_batches"; history: has an
\* extraction begun to replace its chunks and not committed?
NoRow == [state |-> "absent", raw |-> FALSE, has |-> {}, ready |-> {}, recovery |-> FALSE,
          batches |-> {}, replacing |-> FALSE]
Idle == [job |-> <<"idle", None>>, step |-> "idle", at |-> 0]
Events == {"delete", "expire", "configure", "look", "trouble"}

VInit ==
    /\ doc = [current |-> None, deleted |-> FALSE]
    /\ row = [v \in Versions |-> NoRow]
    /\ on \in BOOLEAN
    /\ files = {} /\ points = {} /\ marked = {}
    /\ status = [j \in Jobs |-> "none"]
    /\ tries = [j \in Jobs |-> 0]
    /\ overlooked = FALSE
    /\ hand = Idle
    /\ unlinking = {} /\ backfill = FALSE /\ missed = None
    /\ count = [e \in Events \cup {"upload"} |-> 0]

Counted(e) == count' = [count EXCEPT ![e] = @ + 1]
Happens(e) ==
    /\ count["delete"] + count["expire"] + count["configure"] + count["look"]
           + count["trouble"] < MaxEvents
    /\ Counted(e)

\* Operators with "Mutant" in their name are the code with a plausible bug.
MutantExists(v) == v \in Versions
Exists(v) == row[v].state # "absent"

MutantIsCurrent(v) == Exists(v) /\ ~doc.deleted
IsCurrent(v) == Exists(v) /\ doc.current = v /\ ~doc.deleted

\* Without its visual batches and previews a version is not visually ready.
MutantWithdrawn(v) == row[v].ready
Withdrawn(v) == row[v].ready \ {"visual"}
TextOnly(ps) == {p \in ps : p[1] = "text"}

Visual(v, ps) == {p \in ps : p[1] = v /\ p[2] = "visual"}

-----------------------------------------------------------------------------
(* Jobs                                                                    *)

\* create_job for each of these: a new row, a failed one revived, or the active one.
CreateJobs(asked) ==
    /\ status' = [j \in Jobs |-> IF j \in asked /\ status[j] \in {"none", "failed"}
                                 THEN "queued" ELSE status[j]]
    /\ tries' = [j \in Jobs |-> IF j \in asked /\ status[j] = "failed" THEN 0 ELSE tries[j]]
    /\ overlooked' = (overlooked \/ hand.job \in asked)

MutantUnready(v) == IF "text" \in row[v].ready THEN {} ELSE row[v].has
Unready(v) == row[v].has \ row[v].ready

\* _enqueue_missing_embedding_jobs for v, the current version.
Missing(v) ==
    {<<k, v>> : k \in {e \in DOMAIN Embeds :
                          on /\ row[v].state = "indexed" /\ Embeds[e] \in Unready(v)}}

MissingNow == UNION {Missing(v) : v \in {u \in Versions : IsCurrent(u)}}

-----------------------------------------------------------------------------
(* The API                                                                 *)

\* register_upload: an unknown or unfinished version is to be extracted, one that
\* waits for its previews is to be rendered, any other becomes the current one.
Upload(v) ==
    /\ count["upload"] < MaxUploads
    /\ Counted("upload")
    /\ \/ /\ row[v].state # "indexed"
          /\ row' = [row EXCEPT ![v].state = "staged", ![v].raw = TRUE]
          /\ doc' = [doc EXCEPT !.deleted = FALSE]
          /\ CreateJobs({<<"extract", v>>})
       \/ /\ row[v].state = "indexed" /\ row[v].recovery
          /\ row' = [row EXCEPT ![v].raw = TRUE]
          /\ doc' = [doc EXCEPT !.deleted = FALSE]
          /\ CreateJobs({<<"render_visual", v>>})
       \/ /\ row[v].state = "indexed" /\ ~row[v].recovery
          /\ doc' = [current |-> v, deleted |-> FALSE]
          /\ CreateJobs({<<"mark_historical", v>>} \cup Missing(v))
          /\ UNCHANGED row
    /\ UNCHANGED <<outside, hand, apiVars>>

\* complete_reconcile deletes the document, and after its commit the preview
\* directories of the versions it had.
Delete ==
    /\ count["upload"] > 0 /\ ~doc.deleted
    /\ Happens("delete")
    /\ doc' = [doc EXCEPT !.deleted = TRUE]
    /\ row' = [v \in Versions |-> NoRow]
    /\ unlinking' = unlinking \cup {v \in Versions : Exists(v)}
    /\ CreateJobs({DeleteVectors})
    /\ UNCHANGED <<outside, hand, on, backfill, missed>>

Unlink ==
    /\ unlinking # {}
    /\ files' = files \ unlinking
    /\ unlinking' = {}
    /\ UNCHANGED <<doc, row, points, marked, queueVars, hand, on, backfill, missed, count>>

\* provider_config, in two transactions.
Configure ==
    /\ ~backfill
    /\ Happens("configure")
    /\ on' = ~on
    /\ backfill' = on'
    /\ UNCHANGED <<doc, row, outside, queueVars, hand, unlinking, missed>>

Backfill ==
    /\ backfill
    /\ backfill' = FALSE
    /\ CreateJobs(MissingNow)
    /\ UNCHANGED <<doc, row, outside, hand, on, unlinking, missed, count>>

\* Someone wants to see a preview: its row is there and the file is not.
Look ==
    /\ missed = None
    /\ \E v \in Versions :
          /\ IsCurrent(v) /\ "visual" \in row[v].has /\ v \notin files
          /\ missed' = v
    /\ Happens("look")
    /\ UNCHANGED <<doc, row, outside, queueVars, hand, on, unlinking, backfill>>

\* api_visual_preview then withdraws what the previews stood for; inspect_visual does so
\* for the version that is current by now.
Withhold ==
    \E v \in {missed, doc.current} \ {None} :
        /\ missed # None
        /\ row' = IF Exists(v)
                  THEN [row EXCEPT ![v].batches = TextOnly(@), ![v].ready = Withdrawn(v),
                                   ![v].recovery = TRUE]
                  ELSE row
        /\ CreateJobs({<<"delete_version_vectors", v>>})
        /\ missed' = None
        /\ UNCHANGED <<doc, outside, hand, on, unlinking, backfill, count>>

-----------------------------------------------------------------------------
(* The worker's loop                                                       *)

At(s) == hand.step = s
GoTo(s) == hand' = [hand EXCEPT !.step = s]
Proceed(n, s) == hand' = [hand EXCEPT !.at = n, !.step = s]
Quick == hand.step \in {"idle", "booting", "returned", "raised"}

Claimable == {j \in Jobs : status[j] = "queued"}

Claim ==
    /\ At("idle")
    /\ \E j \in Claimable :
          /\ \A k \in Claimable : Priority[j[1]] <= Priority[k[1]]
          /\ status' = [status EXCEPT ![j] = "running"]
          /\ tries' = [tries EXCEPT ![j] = @ + 1]
          /\ hand' = [job |-> j, step |-> "claimed", at |-> 0]
    /\ UNCHANGED <<doc, row, outside, overlooked, apiVars, count>>

Finish ==
    /\ At("returned")
    /\ status' = [status EXCEPT ![hand.job] = "none"]
    /\ tries' = [tries EXCEPT ![hand.job] = 0]
    /\ hand' = Idle
    /\ UNCHANGED <<doc, row, outside, overlooked, apiVars, count>>

Fail ==
    /\ At("raised")
    /\ status' = [status EXCEPT ![hand.job] =
                     IF tries[hand.job] < MaxAttempts THEN "delayed" ELSE "failed"]
    /\ hand' = Idle
    /\ UNCHANGED <<doc, row, outside, tries, overlooked, apiVars, count>>

\* A backoff ends, or the lease of a job that a dead worker held.
Requeue(j) ==
    /\ status[j] = "delayed" \/ (status[j] = "running" /\ hand.job # j)
    /\ status' = [status EXCEPT ![j] = "queued"]
    /\ UNCHANGED <<doc, row, outside, tries, overlooked, hand, apiVars, count>>

\* The worker dies; main begins by queueing what is missing.
Crash ==
    /\ hand.step \notin {"idle", "booting"}
    /\ Happens("trouble")
    /\ hand' = [Idle EXCEPT !.step = "booting"]
    /\ UNCHANGED <<doc, row, outside, queueVars, apiVars>>

Boot ==
    /\ At("booting")
    /\ CreateJobs(MissingNow)
    /\ hand' = Idle
    /\ UNCHANGED <<doc, row, outside, apiVars, count>>

\* Qdrant, the provider, the database or a file fails the handler.
Raise ==
    /\ ~Quick
    /\ Happens("trouble")
    /\ GoTo("raised")
    /\ UNCHANGED <<doc, row, outside, queueVars, apiVars>>

\* cleanup_expired in an idle worker: these previews are past their time, and these
\* staged copies past theirs.
Expire ==
    /\ At("idle") /\ Claimable = {}
    /\ Happens("expire")
    /\ \E vs \in SUBSET {v \in Versions : "visual" \in row[v].has},
          raws \in SUBSET {v \in Versions : row[v].raw} :
          /\ vs \cup raws # {}
          /\ row' = [v \in Versions |->
                       [row[v] EXCEPT
                          !.raw = IF v \in raws THEN FALSE ELSE @,
                          !.has = IF v \in vs THEN @ \ {"visual"} ELSE @,
                          !.ready = IF v \in vs THEN Withdrawn(v) ELSE @,
                          !.recovery = IF v \in vs THEN TRUE ELSE @,
                          !.batches = IF v \in vs THEN TextOnly(@) ELSE @]]
          /\ files' = files \ vs
          /\ CreateJobs({"delete_version_vectors"} \X vs)
    /\ UNCHANGED <<doc, points, marked, hand, apiVars>>

\* It unlinks before it commits: a death in between takes preview files alone.
CleanupDies ==
    /\ At("idle") /\ Claimable = {}
    /\ Happens("trouble")
    /\ \E vs \in SUBSET {v \in files : "visual" \in row[v].has} \ {{}} : files' = files \ vs
    /\ hand' = [Idle EXCEPT !.step = "booting"]
    /\ UNCHANGED <<doc, row, points, marked, queueVars, apiVars>>

-----------------------------------------------------------------------------
(* The handlers                                                            *)

Kind == hand.job[1]
Subject == hand.job[2]
Modality == Embeds[Kind]

\* What the handler reads first, and what it does about it.
FirstStep ==
    CASE Kind = "extract" -> IF row[Subject].raw THEN "parse" ELSE "raised"
      [] Kind = "render_visual" ->
            IF IsCurrent(Subject) /\ row[Subject].raw THEN "parse" ELSE "raised"
      [] Kind \in DOMAIN Embeds ->
            IF ~IsCurrent(Subject) \/ Modality \notin row[Subject].has THEN "returned"
            ELSE IF Modality = "visual" /\ Subject \notin files THEN "lost"
            ELSE "embed"
      [] Kind = "mark_historical" -> IF IsCurrent(Subject) THEN "mark" ELSE "returned"
      [] Kind = "delete_vectors" -> "drop"
      [] Kind = "delete_version_vectors" -> "dropVisual"

Begin ==
    /\ At("claimed")
    /\ GoTo(FirstStep)
    /\ UNCHANGED <<doc, row, outside, queueVars, apiVars, count>>

\* rmtree of the preview directory; extract_document fills it, or raises.
RemovePreviews ==
    /\ At("parse")
    /\ files' = files \ {Subject}
    /\ GoTo("filling")
    /\ UNCHANGED <<doc, row, points, marked, queueVars, apiVars, count>>

Parse ==
    /\ At("filling")
    /\ files' = files \cup {Subject}
    /\ GoTo(IF Kind = "extract" THEN "chunks" ELSE "dropVisual")
    /\ UNCHANGED <<doc, row, points, marked, queueVars, apiVars, count>>

\* The version row changes, or rows inserted for it break their foreign key.
Update(s, new, next) ==
    /\ At(s)
    /\ row' = IF Exists(Subject) THEN [row EXCEPT ![Subject] = new] ELSE row
    /\ GoTo(next)
    /\ UNCHANGED <<doc, outside, queueVars, apiVars, count>>

Insert(s, new, next) == Update(s, new, IF Exists(Subject) THEN next ELSE "raised")

\* _replace_chunks leaves no visual chunk that a preview row could join.
ReplaceChunks ==
    Insert("chunks", [row[Subject] EXCEPT !.has = {"text"}, !.replacing = TRUE], "visuals")

\* _replace_visual_evidence
ReplaceVisuals ==
    Insert("visuals", [row[Subject] EXCEPT !.has = @ \cup {"visual"}],
           IF Kind = "extract" THEN "commit" ELSE "rendered")

\* The last transaction of process_extract.
CommitExtract ==
    LET failed == {<<"extract", v>> : v \in {u \in Versions : status[<<"extract", u>>] = "failed"}}
        mark == <<"mark_historical", Subject>>
    IN  /\ At("commit")
        /\ row' = [v \in Versions |->
                     IF v = Subject /\ Exists(v)
                     THEN [row[v] EXCEPT !.state = "indexed", !.raw = FALSE, !.ready = {},
                                         !.recovery = FALSE, !.replacing = FALSE]
                     ELSE IF row[v].state = "staged" THEN NoRow ELSE row[v]]
        /\ doc' = [doc EXCEPT !.current = Subject]
        /\ status' = [j \in Jobs |-> IF j \in failed THEN "none"
                                     ELSE IF j = mark /\ status[j] \in {"none", "failed"}
                                     THEN "queued" ELSE status[j]]
        /\ tries' = [j \in Jobs |-> IF j \in failed \/ (j = mark /\ status[j] = "failed")
                                    THEN 0 ELSE tries[j]]
        /\ GoTo("enqueue")
        /\ UNCHANGED <<outside, overlooked, apiVars, count>>

Enqueue ==
    /\ At("enqueue")
    /\ CreateJobs(IF doc.current = Subject THEN MissingNow ELSE {})
    /\ GoTo("returned")
    /\ UNCHANGED <<doc, row, outside, apiVars, count>>

\* delete_version_vectors of the visual modality, for three handlers.
DropVisual ==
    /\ At("dropVisual")
    /\ points' = points \ Visual(Subject, points)
    /\ marked' = marked \ Visual(Subject, marked)
    /\ GoTo(IF Kind = "render_visual" THEN "forget" ELSE "returned")
    /\ UNCHANGED <<doc, row, files, queueVars, apiVars, count>>

\* process_render_visual forgets the visual batches, and ends by withdrawing the
\* readiness of the previews it replaced.
ForgetBatches ==
    Update("forget", [row[Subject] EXCEPT !.batches = TextOnly(@)], "visuals")

Rendered ==
    Update("rendered", [row[Subject] EXCEPT !.raw = FALSE, !.ready = Withdrawn(Subject),
                                            !.recovery = FALSE], "enqueue")

\* process_embed_visual when its preview files are gone: two statements.
LoseBatches ==
    Update("lost", [row[Subject] EXCEPT !.batches = TextOnly(@)], "withdraw")

Withdraw ==
    Update("withdraw", [row[Subject] EXCEPT !.ready = Withdrawn(Subject), !.recovery = TRUE],
           "dropVisual")

\* One batch: skipped if recorded, or embedded and upserted as current.
Piece == <<Modality, hand.at + 1>>
MutantDone == \E v \in Versions : Piece \in row[v].batches
Done == Piece \in row[Subject].batches

EmbedBatch ==
    /\ At("embed") /\ hand.at < Batches[Modality]
    /\ \/ Done /\ Proceed(hand.at + 1, "embed") /\ UNCHANGED <<points, marked>>
       \/ /\ ~Done /\ on /\ (Modality = "visual" => Subject \in files)
          /\ points' = points \cup {Point(Subject, Piece)}
          /\ marked' = marked \cup {Point(Subject, Piece)}
          /\ GoTo("record")
       \/ /\ ~Done /\ ~(on /\ (Modality = "visual" => Subject \in files))
          /\ GoTo("raised") /\ UNCHANGED <<points, marked>>
    /\ UNCHANGED <<doc, row, files, queueVars, apiVars, count>>

RecordBatch ==
    /\ At("record")
    /\ IF Exists(Subject)
       THEN /\ row' = [row EXCEPT ![Subject].batches = @ \cup {Piece}]
            /\ Proceed(hand.at + 1, "embed")
       ELSE GoTo("raised") /\ UNCHANGED row
    /\ UNCHANGED <<doc, outside, queueVars, apiVars, count>>

\* The last statement of both embedding handlers.
SetReady ==
    /\ Kind \in DOMAIN Embeds /\ hand.at = Batches[Modality]
    /\ Update("embed", [row[Subject] EXCEPT !.ready = @ \cup {Modality},
                                            !.recovery = @ /\ Modality # "visual"], "returned")

\* delete_document_vectors: all versions, one modality after the other.
MutantDropped(m) == {p \in marked : p[2] = m}
Dropped(m) == {p \in points : p[2] = m}

Drop ==
    LET gone == Dropped(IF hand.at = 0 THEN "text" ELSE "visual")
    IN  /\ At("drop")
        /\ points' = points \ gone
        /\ marked' = marked \ gone
        /\ Proceed(1, IF hand.at = 0 THEN "drop" ELSE "returned")
        /\ UNCHANGED <<doc, row, files, queueVars, apiVars, count>>

\* mark_document_vectors_historical: in each modality all the document's points become
\* historical, and then those of the current version current again.
Mark ==
    LET m == IF hand.at < 2 THEN "text" ELSE "visual"
    IN  /\ At("mark")
        /\ marked' = IF hand.at \in {0, 2} THEN {p \in marked : p[2] # m}
                     ELSE marked \cup {p \in points : p[2] = m /\ p[1] = Subject}
        /\ Proceed(hand.at + 1, IF hand.at < 3 THEN "mark" ELSE "returned")
        /\ UNCHANGED <<doc, row, files, points, queueVars, apiVars, count>>

-----------------------------------------------------------------------------
Api == (\E v \in Versions : Upload(v)) \/ Delete \/ Unlink \/ Configure \/ Backfill
       \/ Look \/ Withhold

Worker ==
    \/ Claim \/ Finish \/ Fail \/ Boot \/ Expire \/ CleanupDies \/ Crash \/ Raise
    \/ \E j \in Jobs : Requeue(j)

Handler ==
    \/ Begin \/ RemovePreviews \/ Parse \/ ReplaceChunks \/ ReplaceVisuals \/ CommitExtract \/ Enqueue
    \/ DropVisual \/ ForgetBatches \/ Rendered \/ LoseBatches \/ Withdraw
    \/ EmbedBatch \/ RecordBatch \/ SetReady \/ Drop \/ Mark

VNext == Api \/ Worker \/ Handler

VSpec == VInit /\ [][VNext]_vectorVars

-----------------------------------------------------------------------------
(* Properties                                                              *)

RowType == [state : {"absent", "staged", "indexed"}, raw : BOOLEAN, has : SUBSET Modalities,
            ready : SUBSET Modalities, recovery : BOOLEAN, batches : SUBSET Pieces,
            replacing : BOOLEAN]

RowsOK ==
    /\ row \in [Versions -> RowType]
    /\ \A v \in Versions : row[v].state = "absent" => row[v] = NoRow

StoresOK ==
    /\ marked \subseteq points /\ points \subseteq {Point(v, p) : v \in Versions, p \in Pieces}
    /\ files \cup unlinking \subseteq Versions

QueueOK ==
    /\ status \in [Jobs -> {"none", "queued", "delayed", "running", "failed"}]
    /\ tries \in [Jobs -> 0..(MaxAttempts + MaxEvents)]

\* Every variable keeps to its type, and nothing hangs on a version that is gone.
VTypeOK ==
    /\ doc \in [current : Versions \cup {None}, deleted : BOOLEAN]
    /\ missed \in Versions \cup {None}
    /\ hand.job \in Jobs \cup {Idle.job} /\ hand.at \in Nat
    /\ RowsOK /\ StoresOK /\ QueueOK

\* Once the delete_vectors job of a deleted document is through, no vector of it is
\* left and none comes back, although an embedding handler that began before the
\* deletion goes on upserting.
DeletedLeavesNoVectors == doc.deleted /\ status[DeleteVectors] = "none" => points = {}

\* What the readiness of the current version claims is in Qdrant (docs/HOWTO-HUMAN.md:
\* "the readiness cards show completed coverage"), as long as the document was never
\* deleted, no deletion of vectors that an expiry or a viewer asked for can come late
\* because something failed, and no rendering is to be repeated.
ReadyUntilDeleted ==
    count["delete"] = 0 /\ (count["expire"] + count["look"] = 0 \/ count["trouble"] = 0) =>
        \A v \in Versions :
            IsCurrent(v) /\ row[v].state = "indexed" /\ status[<<"render_visual", v>>] = "none"
                => \A p \in Pieces : p[1] \in row[v].ready => Point(v, p) \in points

\* Nothing is going on, v is the current version, and no job of it was given up.
Quiet(v) ==
    /\ \A j \in Jobs : status[j] = "none" \/ (status[j] = "failed" /\ j[2] # v)
    /\ hand = Idle /\ unlinking = {} /\ ~backfill /\ missed = None
    /\ IsCurrent(v) /\ row[v].state = "indexed"

\* When the queue is quiet, exactly the vectors of the current version are marked
\* current, whatever was uploaded, reverted and retried in between, unless a job was
\* asked for while it ran: create_job then leaves it at the run that is ending.
MarkedIsCurrent ==
    \A v \in Versions : Quiet(v) /\ ~overlooked => marked = {p \in points : p[1] = v}

\* When the queue is quiet, all the current version has is embedded, unless its
\* previews wait for the source (docs/ARCHITECTURE.md: "Enabling a key and allowance
\* queues resumable batches over retained text and previews").
NothingLeftBehind ==
    \A v \in Versions :
        Quiet(v) /\ on /\ ~overlooked =>
            row[v].has \ row[v].ready \subseteq IF row[v].recovery THEN {"visual"} ELSE {}

\* A version is visually ready only with the previews that a search result shows, unless
\* an extraction that failed after its last commit was repeated and has replaced them
\* without coming to that commit again.
VisualHasPreviews ==
    \A v \in Versions :
        row[v].state = "indexed" /\ "visual" \in row[v].ready /\ ~row[v].replacing =>
            "visual" \in row[v].has /\ ~row[v].recovery
=============================================================================
