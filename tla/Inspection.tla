----------------------------- MODULE Inspection -----------------------------
(***************************************************************************)
(* Temporary inspection of a chat attachment: inspect_chat_attachment of   *)
(* app/mcp_server.py stages the bytes and asks for a job,                  *)
(* process_temporary_inspection of app/worker.py extracts the text, the    *)
(* tail of fail_job records a failure and cleanup_expired of               *)
(* app/catalog.py removes what is old.  It runs on the queue of JobQueue,  *)
(* whose Jobs are here the inspections.                                    *)
(*                                                                         *)
(* Every commit to the table "temporary_inspections" and every removal of  *)
(* a staged file is a step of its own, because a process may die between   *)
(* any two of them.  Every INSERT, UPDATE and unlink may raise (a locked   *)
(* database, a disk error): an exception of the tool call or of the        *)
(* handler is caught above it, one of fail_job or cleanup_expired ends the *)
(* worker's process like a death.                                          *)
(*                                                                         *)
(* One worker runs.  That it may wait for the write lock is left to        *)
(* JobQueue: alone, it would only overlook what became due meanwhile.      *)
(***************************************************************************)
EXTENDS JobQueue

ASSUME SingleWorker == \A w1, w2 \in Workers : w1 = w2

VARIABLES
    call,    \* how far the tool call that attaches the file has come
    row,     \* temporary_inspections.state; "none" when there is no row
    path,    \* is staging_path set?
    file,    \* are the staged bytes on disk?
    old,     \* is expires_at in the past?
    lost,    \* history: inspections whose bytes a failure or a death cut loose
    step,    \* where the worker's handler stands
    giveUp   \* the inspection whose failure fail_job has still to record

toolVars == <<call>>
rowVars == <<row, path, file, old, lost>>
handlerVars == <<step, giveUp>>
inspectionVars == <<vars, toolVars, rowVars, handlerVars>>

IInit ==
    /\ Init
    /\ call = [i \in Jobs |-> "none"]
    /\ row = [i \in Jobs |-> "none"]
    /\ path = [i \in Jobs |-> FALSE]
    /\ file = [i \in Jobs |-> FALSE]
    /\ old = [i \in Jobs |-> FALSE]
    /\ lost = {}
    /\ step = [w \in Workers |-> "idle"]
    /\ giveUp = [w \in Workers |-> NoJob]

-----------------------------------------------------------------------------
(* The tool call                                                           *)

\* _download_openai_file.
Download(i) ==
    /\ call[i] = "none"
    /\ call' = [call EXCEPT ![i] = "staged"]
    /\ file' = [file EXCEPT ![i] = TRUE]
    /\ UNCHANGED <<vars, row, path, old, lost, handlerVars>>

\* The INSERT, committed before create_job runs.
InsertRow(i) ==
    /\ call[i] = "staged"
    /\ call' = [call EXCEPT ![i] = "inserted"]
    /\ row' = [row EXCEPT ![i] = "queued"]
    /\ path' = [path EXCEPT ![i] = TRUE]
    /\ UNCHANGED <<vars, file, old, lost, handlerVars>>

AskForJob(i) ==
    /\ call[i] = "inserted"
    /\ CreateJob(i)
    /\ call' = [call EXCEPT ![i] = "answered"]
    /\ UNCHANGED <<rowVars, handlerVars>>

\* The INSERT or create_job raises, or the API process dies: the bytes stay where
\* they are, with the row if it was inserted.
ToolFails(i) ==
    /\ call[i] \in {"staged", "inserted"}
    /\ lost' = IF call[i] = "staged" THEN lost \cup {i} ELSE lost
    /\ call' = [call EXCEPT ![i] = "failed"]
    /\ UNCHANGED <<vars, row, path, file, old, handlerVars>>

-----------------------------------------------------------------------------
(* The worker                                                              *)

Idle(w) == step[w] = "idle"

Claim(w) ==
    /\ Idle(w)
    /\ ClaimJob(w)
    /\ step' = [step EXCEPT ![w] = "claimed"]
    /\ UNCHANGED <<toolVars, rowVars, giveUp>>

RequeueExpired(w) ==
    /\ Idle(w)
    /\ ClaimNothing(w)
    /\ UNCHANGED <<toolVars, rowVars, handlerVars>>

MutantReadRow(w) ==
    /\ step[w] = "claimed"
    /\ step' = [step EXCEPT ![w] = IF path[holds[w]] \/ file[holds[w]]
                                   THEN "extracting" ELSE "raised"]
    /\ UNCHANGED <<vars, toolVars, rowVars, giveUp>>

\* The handler wants a queued row with a staged file, or raises.
ReadRow(w) ==
    /\ step[w] = "claimed"
    /\ step' = [step EXCEPT ![w] =
                  IF row[holds[w]] = "queued" /\ path[holds[w]]
                  THEN "extracting" ELSE "raised"]
    /\ UNCHANGED <<vars, toolVars, rowVars, giveUp>>

\* extract_document read the file; the result is committed before the file goes.
KeepResult(w) ==
    /\ step[w] = "extracting"
    /\ file[holds[w]]
    /\ row' = [row EXCEPT ![holds[w]] = IF @ = "none" THEN @ ELSE "complete"]
    /\ path' = [path EXCEPT ![holds[w]] = FALSE]
    /\ step' = [step EXCEPT ![w] = "kept"]
    /\ UNCHANGED <<vars, toolVars, file, old, lost, giveUp>>

MutantDiscardBytes(w) ==
    /\ step[w] = "kept"
    /\ step' = [step EXCEPT ![w] = "returned"]
    /\ UNCHANGED <<vars, toolVars, rowVars, giveUp>>

\* The finally clause after the commit: the unlink may raise, or what comes after
\* it (the removal of the previews, finish_job).
DiscardBytes(w) ==
    /\ step[w] = "kept"
    /\ \/ /\ file' = [file EXCEPT ![holds[w]] = FALSE]
          /\ \E next \in {"returned", "raised"} : step' = [step EXCEPT ![w] = next]
          /\ UNCHANGED lost
       \/ /\ lost' = lost \cup {holds[w]}
          /\ step' = [step EXCEPT ![w] = "raised"]
          /\ UNCHANGED file
    /\ UNCHANGED <<vars, toolVars, row, path, old, giveUp>>

\* extract_document or the UPDATE raised; the finally clause removes the file all
\* the same, if it can.
ExtractionFails(w) ==
    /\ step[w] = "extracting"
    /\ file' \in {file, [file EXCEPT ![holds[w]] = FALSE]}
    /\ step' = [step EXCEPT ![w] = "raised"]
    /\ UNCHANGED <<vars, toolVars, row, path, old, lost, giveUp>>

Finish(w) ==
    /\ step[w] = "returned"
    /\ FinishJob(w)
    /\ step' = [step EXCEPT ![w] = "idle"]
    /\ UNCHANGED <<toolVars, rowVars, giveUp>>

MutantFail(w) ==
    /\ step[w] = "raised"
    /\ FailJob(w)
    /\ step' = [step EXCEPT ![w] = "failing"]
    /\ UNCHANGED <<toolVars, rowVars, giveUp>>

\* fail_job commits the job's row before it turns to the inspection's.
Fail(w) ==
    /\ step[w] = "raised"
    /\ FailJob(w)
    /\ IF RetryAllowed(w)
       THEN /\ step' = [step EXCEPT ![w] = "idle"]
            /\ UNCHANGED giveUp
       ELSE /\ step' = [step EXCEPT ![w] = "failing"]
            /\ giveUp' = [giveUp EXCEPT ![w] = holds[w]]
    /\ UNCHANGED <<toolVars, rowVars>>

\* The tail of fail_job removes the file and then the record of it; the UPDATE
\* does not ask for the row's state.
Emptied(i) == [file EXCEPT ![i] = @ /\ ~path[i]]

RecordFailure(w) ==
    /\ step[w] = "failing"
    /\ file' = Emptied(giveUp[w])
    /\ row' = [row EXCEPT ![giveUp[w]] = IF @ = "none" THEN @ ELSE "failed"]
    /\ path' = [path EXCEPT ![giveUp[w]] = FALSE]
    /\ step' = [step EXCEPT ![w] = "idle"]
    /\ giveUp' = [giveUp EXCEPT ![w] = NoJob]
    /\ UNCHANGED <<vars, toolVars, old, lost>>

\* The worker's process ends at any point: what fail_job has removed by then is
\* gone, what the handler was about to remove stays.
WorkerDies(w) ==
    /\ ~Idle(w)
    /\ IF step[w] = "failing"
       THEN /\ crashes < MaxCrashes
            /\ crashes' = crashes + 1
            /\ file' \in {file, Emptied(giveUp[w])}
            /\ UNCHANGED <<queueVars, clockVars, paused, workerVars, requests>>
       ELSE Crash(w) /\ UNCHANGED file
    /\ lost' = IF step[w] = "kept" THEN lost \cup {holds[w]} ELSE lost
    /\ step' = [step EXCEPT ![w] = "idle"]
    /\ giveUp' = [giveUp EXCEPT ![w] = NoJob]
    /\ UNCHANGED <<toolVars, row, path, old>>

MutantOutdated == {i \in Jobs : old[i] /\ row[i] \in {"complete", "failed"}}

\* cleanup_expired, which the worker calls when it finds nothing to claim.
Outdated == {i \in Jobs : old[i] /\ row[i] # "none"}

Cleanup(w) ==
    /\ Idle(w)
    /\ Claimable(w) = {}
    /\ Outdated # {}
    /\ file' = [i \in Jobs |-> file[i] /\ ~(i \in Outdated /\ path[i])]
    /\ row' = [i \in Jobs |-> IF i \in Outdated THEN "none" ELSE row[i]]
    /\ path' = [i \in Jobs |-> path[i] /\ i \notin Outdated]
    /\ UNCHANGED <<vars, toolVars, old, lost, handlerVars>>

\* It raises, or the process dies, when some of the files are gone: the rows are
\* rolled back.
CleanupFails(w) ==
    /\ Idle(w)
    /\ Claimable(w) = {}
    /\ \E some \in SUBSET {i \in Outdated : path[i]} \ {{}} :
          file' = [i \in Jobs |-> file[i] /\ i \notin some]
    /\ UNCHANGED <<vars, toolVars, row, path, old, lost, handlerVars>>

-----------------------------------------------------------------------------
\* expires_at passes.
Expire(i) ==
    /\ row[i] # "none" /\ ~old[i]
    /\ old' = [old EXCEPT ![i] = TRUE]
    /\ UNCHANGED <<vars, toolVars, row, path, file, lost, handlerVars>>

QueueTime ==
    /\ \E i \in Jobs : LeaseRunsOut(i) \/ BackoffEnds(i)
    /\ UNCHANGED <<toolVars, rowVars, handlerVars>>

VaultPaused ==
    /\ \E v \in Vaults : Pause(v)
    /\ UNCHANGED <<toolVars, rowVars, handlerVars>>

Handler(w) ==
    \/ Claim(w)
    \/ RequeueExpired(w)
    \/ ReadRow(w)
    \/ KeepResult(w)
    \/ DiscardBytes(w)
    \/ ExtractionFails(w)
    \/ Finish(w)
    \/ Fail(w)
    \/ RecordFailure(w)

INext ==
    \/ \E i \in Jobs : Download(i) \/ InsertRow(i) \/ AskForJob(i) \/ ToolFails(i) \/ Expire(i)
    \/ \E w \in Workers : Handler(w) \/ WorkerDies(w) \/ Cleanup(w) \/ CleanupFails(w)
    \/ QueueTime
    \/ VaultPaused

ISpec == IInit /\ [][INext]_inspectionVars

\* The worker's loop goes on, cleanup_expired has its turn every hour the worker is
\* idle and does not fail for ever, and time passes.
IFairness ==
    /\ \A w \in Workers : WF_inspectionVars(Handler(w)) /\ WF_inspectionVars(Cleanup(w))
    /\ \A i \in Jobs : WF_inspectionVars(Expire(i))
    /\ WF_inspectionVars(QueueTime)

FairISpec == ISpec /\ IFairness

-----------------------------------------------------------------------------
(* Properties                                                              *)

\* Every variable keeps to its type, and the handler's position to the queue's.
ITypeOK ==
    /\ TypeOK
    /\ call \in [Jobs -> {"none", "staged", "inserted", "answered", "failed"}]
    /\ row \in [Jobs -> {"none", "queued", "complete", "failed"}]
    /\ {path, file, old} \subseteq [Jobs -> BOOLEAN]
    /\ lost \subseteq Jobs
    /\ step \in [Workers -> {"idle", "claimed", "extracting", "kept", "returned",
                             "raised", "failing"}]
    /\ \A w \in Workers : holds[w] = NoJob <=> step[w] \in {"idle", "failing"}
    /\ \A w \in Workers : giveUp[w] # NoJob <=> step[w] = "failing"

\* Some record leads to the bytes of i: the row's staging_path, the handler that
\* is about to remove them, or the tool call that has just written them.
Tracked(i) ==
    \/ path[i]
    \/ call[i] = "staged"
    \/ \E w \in Workers : holds[w] = i /\ step[w] = "kept"

\* Staged bytes are on record, so that the handler, fail_job or cleanup_expired
\* removes them in the end (docs/RESTART.md: "Temporary source bytes remain bounded
\* by expiry cleanup"), with three exceptions: the call ended between the download
\* and the INSERT, or, after the result was committed, the process died before the
\* removal or the removal failed.  No other failure, death, retry or expiry strays
\* them.
StrayBytesHaveACause == \A i \in Jobs : file[i] => Tracked(i) \/ i \in lost

\* The text of an attachment is extracted only while its poll says "queued":
\* no retry, expiry or second claim works on a settled inspection.
ExtractsOnlyQueued ==
    \A w \in Workers : step[w] = "extracting" => row[holds[w]] = "queued" /\ path[holds[w]]

\* What the poll once reported as complete is never reported as failed
\* (app/mcp_server.py: "Poll ... until it is complete or failed").
CompleteStays ==
    [][\A i \in Jobs : row[i] = "complete" => row'[i] \in {"complete", "none"}]_inspectionVars

\* A poll ends: an inspection that reports "queued" is completed, failed or
\* expired, even if its job was never created or its worker died.
PollEnds == \A i \in Jobs : row[i] = "queued" ~> row[i] # "queued"
=============================================================================
