--------------------------- MODULE UploadLifecycle ---------------------------
(***************************************************************************)
(* One upload (a batch row) from acceptance to publication, cancellation   *)
(* or deletion: the worker threads that ingest and transform it, the       *)
(* request threads that poll, reprocess, cancel, delete, publish and       *)
(* re-evaluate it, and API restarts.                                       *)
(*                                                                         *)
(* A step is one store transaction (PostgreSQL store) or one access to the *)
(* in-process registries.  A thread keeps the records it read in loc and   *)
(* writes whole rows back from them, as save_batch and save_processing_run *)
(* do: the interleavings are those of the code's reads and writes.         *)
(***************************************************************************)
EXTENDS Naturals, Sequences, FiniteSets

CONSTANTS
    Workers,     \* threads of the upload pool (dfip_worker_concurrency)
    Handlers,    \* request threads
    Mixes,       \* sets of RequestKinds; the requests of a behaviour are of one of them
    MaxRuns,     \* bound on processing runs of the upload
    MaxJobs,     \* bound on the jobs queued at the upload pool
    MaxCrashes   \* bound on API restarts

RequestKinds == {"poll", "reprocess", "cancel", "delete", "publish", "evaluate"}

ASSUME UploadConstants ==
    /\ MaxRuns \in Nat /\ MaxJobs \in Nat /\ MaxCrashes \in Nat
    /\ Mixes \subseteq SUBSET RequestKinds
    /\ Workers \cap Handlers = {}

VARIABLES
    batch,      \* the batch row
    run,        \* the processing_run rows, in started_at order
    rows,       \* runs named by fact_campaign_day or its history
    published,  \* runs with a publication row
    inflight,   \* UploadService._in_flight holds the batch
    reproc,     \* UploadService._reprocess_in_flight, 0 when empty
    queue,      \* jobs waiting at the upload pool
    pc,         \* where each thread is
    loc,        \* what each thread has read and where it returns to
    crashes,    \* API restarts so far
    arriving    \* the requests that arrive in this behaviour

vars    == <<batch, run, rows, published, inflight, reproc, queue, pc, loc, crashes, arriving>>
store   == <<batch, run, rows, published>>
memory  == <<inflight, reproc, queue>>
outside == <<crashes, arriving>>

Boot    == "boot"        \* the thread of the lifespan hook
Threads == Workers \cup Handlers \cup {Boot}
Runs    == 1..MaxRuns
NoRun   == 0

\* The lifespan hook runs in neither pool.
ASSUME BootIsApart == Boot \notin Workers \cup Handlers

Absent == [status |-> "absent", reason |-> "none", verdict |-> "none"]
Blank  == [kind |-> "none", run |-> NoRun, b |-> [status |-> "none"], r |-> Absent,
           todo |-> {}, ret |-> "idle", why |-> "none", running |-> FALSE]

\* reason: "auto" is a text of AUTO_RESUME_REASONS, "other" any other text.
Active    == {r \in Runs : run[r].status \in {"pending", "running"}}
Created   == {r \in Runs : run[r].status \notin {"absent", "deleted"}}
Newest(S) == CHOOSE r \in S : \A q \in S : q <= r
Oldest(S) == CHOOSE r \in S : \A q \in S : r <= q
Gone      == batch.status \in {"none", "deleted"}
\* has_publication_for_runs of the runs the batch has.
HasPublication == published \cap Created # {}
Cancelled == batch.status = "cancelled" \/ batch.cancel

LocallyRunning == inflight \/ reproc \in Active

\* _batch_is_locally_running also drops a registry entry that is over.
PruneReprocess == reproc' = IF LocallyRunning THEN reproc ELSE NoRun

----------------------------------------------------------------------------
(* Whole-row writes and thread control. *)

\* save_batch: every column but cancel_requested and the progress columns.
SaveBatch(rec) ==
    batch' = IF Gone THEN batch ELSE [rec EXCEPT !.cancel = batch.cancel]

SaveRun(r, rec) ==
    run' = IF run[r].status = "deleted" THEN run ELSE [run EXCEPT ![r] = rec]

NextRun == Cardinality({r \in Runs : run[r].status # "absent"}) + 1

AddRun(r) ==
    /\ r = NextRun /\ r \in Runs
    /\ run' = [run EXCEPT ![r] = [Absent EXCEPT !.status = "pending"]]

\* Places where none of the records read earlier is used again.
Fresh == {"fin", "fin2", "forget", "fc_read", "fr_read", "fb_read", "find_run",
          "at_qa", "at_verdict", "fin_batch", "at_failed", "enqueue",
          "enqueue_staged", "archive_add", "staged_add", "staged_check",
          "delete_check"}

Go(t, label, local) ==
    /\ pc'  = [pc EXCEPT ![t] = label]
    /\ loc' = [loc EXCEPT ![t] =
                 IF label = "idle" THEN Blank
                 ELSE IF label \in Fresh
                 THEN [local EXCEPT !.b = Blank.b, !.r = Absent, !.todo = {}]
                 ELSE local]

Goto(t, label) == Go(t, label, loc[t])
Return(t)      == Goto(t, loc[t].ret)

\* The except clauses of the jobs: a ProcessingCancelled finalizes the
\* cancellation, another exception fails the upload or the reprocess run.
RaiseCancelled(t) == Goto(t, "fc_read")
RaiseError(t) ==
    Go(t, IF loc[t].kind = "staged" THEN "fr_read" ELSE "fb_read",
       [loc[t] EXCEPT !.why = "other"])

----------------------------------------------------------------------------
Init ==
    /\ batch = [status |-> "none", cancel |-> FALSE, staged |-> FALSE,
                reason |-> "none"]
    /\ run = [r \in Runs |-> Absent]
    /\ rows = {} /\ published = {}
    /\ inflight = FALSE /\ reproc = NoRun /\ queue = <<>>
    /\ pc  = [t \in Threads |-> "idle"]
    /\ loc = [t \in Threads |-> Blank]
    /\ crashes = 0 /\ arriving \in Mixes

Enqueue(kind, r) ==
    /\ Len(queue) < MaxJobs
    /\ queue' = Append(queue, [kind |-> kind, run |-> r])

\* accept: the batch row is created, then the job is registered and queued.
AcceptUpload(h) ==
    /\ pc[h] = "idle" /\ pc[Boot] = "idle"
    /\ batch.status = "none"
    /\ batch' = [batch EXCEPT !.status = "received"]
    /\ Go(h, "enqueue", [Blank EXCEPT !.kind = "upload"])
    /\ UNCHANGED <<run, rows, published, memory, outside>>

\* _start_archive_recovery and the end of accept.
EnqueueUpload(h) ==
    /\ pc[h] = "enqueue"
    /\ Enqueue(IF loc[h].kind = "upload" THEN "upload" ELSE "archive", NoRun)
    /\ inflight' = TRUE
    /\ reproc' = IF loc[h].run # NoRun THEN loc[h].run ELSE reproc
    /\ Goto(h, "idle")
    /\ UNCHANGED <<store, outside>>

Request(h, kind) ==
    /\ pc[h] = "idle" /\ pc[Boot] = "idle"
    /\ ~Gone
    /\ kind \in arriving
    /\ kind \in {"poll", "reprocess"} => NextRun \in Runs
    /\ Go(h, kind, [Blank EXCEPT !.kind = kind])
    /\ UNCHANGED <<store, memory, outside>>

----------------------------------------------------------------------------
(* cancel *)

CancelRead(h) ==
    /\ pc[h] = "cancel"
    /\ IF batch.status \in {"none", "deleted", "cancelled", "processed", "failed"}
          \/ HasPublication
       THEN Goto(h, "idle")
       ELSE Goto(h, "cancel_running")
    /\ UNCHANGED <<store, memory, outside>>

CancelRunning(h) ==
    /\ pc[h] = "cancel_running"
    /\ Go(h, "cancel_request", [loc[h] EXCEPT !.running = LocallyRunning])
    /\ PruneReprocess
    /\ UNCHANGED <<store, inflight, queue, outside>>

CancelRequest(h) ==
    /\ pc[h] = "cancel_request"
    /\ batch' = IF Gone THEN batch ELSE [batch EXCEPT !.cancel = TRUE]
    /\ Goto(h, IF loc[h].running THEN "idle" ELSE "fc_read")
    /\ UNCHANGED <<run, rows, published, memory, outside>>

(* _finalize_cancel_locked, by a worker or by the cancel request *)

\* Mutant: only the runs still active are reverted.
FinalizeActiveRuns(t) ==
    /\ pc[t] = "fc_read"
    /\ IF Gone \/ batch.status = "cancelled"
       THEN Return(t)
       ELSE Go(t, "fc_revert", [loc[t] EXCEPT !.todo = Active])
    /\ UNCHANGED <<store, memory, outside>>

FinalizeRead(t) ==
    /\ pc[t] = "fc_read"
    /\ IF Gone \/ batch.status = "cancelled"
       THEN Return(t)
       ELSE Go(t, "fc_revert", [loc[t] EXCEPT !.todo = Created])
    /\ UNCHANGED <<store, memory, outside>>

FinalizeRevert(t) ==
    /\ pc[t] = "fc_revert"
    /\ rows' = rows \ loc[t].todo
    /\ Goto(t, "fc_runs")
    /\ UNCHANGED <<batch, run, published, memory, outside>>

FinalizeRuns(t) ==
    /\ pc[t] = "fc_runs"
    /\ run' = [r \in Runs |->
                 IF r \in loc[t].todo \cap Created
                 THEN [run[r] EXCEPT !.status = "cancelled", !.reason = "other"]
                 ELSE run[r]]
    /\ Goto(t, "fc_batch")
    /\ UNCHANGED <<batch, rows, published, memory, outside>>

FinalizeBatch(t) ==
    /\ pc[t] = "fc_batch"
    /\ SaveBatch([batch EXCEPT !.status = "cancelled", !.staged = FALSE,
                               !.reason = "other"])
    /\ Return(t)
    /\ UNCHANGED <<run, rows, published, memory, outside>>

----------------------------------------------------------------------------
(* delete_batch *)

DeleteRead(h) ==
    /\ pc[h] = "delete"
    /\ Go(h, "delete_running", [loc[h] EXCEPT !.b = batch])
    /\ UNCHANGED <<store, memory, outside>>

DeleteRunning(h) ==
    /\ pc[h] = "delete_running"
    /\ IF \/ LocallyRunning
          \/ loc[h].b.cancel /\ loc[h].b.status \notin {"failed", "cancelled"}
       THEN Goto(h, "idle")
       ELSE Goto(h, "delete_check")
    /\ PruneReprocess
    /\ UNCHANGED <<store, inflight, queue, outside>>

DeleteCheck(h) ==
    /\ pc[h] = "delete_check"
    /\ IF Gone \/ HasPublication
       THEN Goto(h, "idle")
       ELSE Go(h, "delete_revert", [loc[h] EXCEPT !.todo = Created])
    /\ UNCHANGED <<store, memory, outside>>

DeleteRevert(h) ==
    /\ pc[h] = "delete_revert"
    /\ rows' = rows \ loc[h].todo
    /\ Goto(h, "delete_record")
    /\ UNCHANGED <<batch, run, published, memory, outside>>

\* Mutant: delete_batch_record trusts the check made before the reverts.
DeleteRecordUnchecked(h) ==
    /\ pc[h] = "delete_record"
    /\ batch' = IF Gone THEN batch ELSE [batch EXCEPT !.status = "deleted"]
    /\ run' = [r \in Runs |-> IF r \in Created
                              THEN [Absent EXCEPT !.status = "deleted"]
                              ELSE run[r]]
    /\ reproc' = NoRun
    /\ Goto(h, "idle")
    /\ UNCHANGED <<rows, published, inflight, queue, outside>>

\* delete_batch_record: the foreign keys of the fact and publication tables
\* refuse it while a row names one of the runs.
DeleteRecord(h) ==
    /\ pc[h] = "delete_record"
    /\ IF Gone \/ (rows \cup published) \cap Created # {}
       THEN UNCHANGED <<batch, run, reproc>>
       ELSE /\ batch' = [batch EXCEPT !.status = "deleted"]
            /\ run' = [r \in Runs |-> IF r \in Created
                                      THEN [Absent EXCEPT !.status = "deleted"]
                                      ELSE run[r]]
            /\ reproc' = NoRun
    /\ Goto(h, "idle")
    /\ UNCHANGED <<rows, published, inflight, queue, outside>>

----------------------------------------------------------------------------
(* Recovery: the status poll, the lifespan hook and reprocess. *)

\* _recovery_mode of a batch record.
Mode(b) ==
    IF b.cancel \/ b.status \in {"none", "cancelled", "deleted"} THEN "reject"
    ELSE IF b.staged THEN IF b.status = "received" THEN "archive" ELSE "staged"
    ELSE IF b.status = "processed" THEN "reject" ELSE "archive"

\* _maybe_resume_batch: only unfinished work and the failures that carry a
\* recovery reason, the batch's own or its first run's.
PollResumes ==
    /\ ~LocallyRunning
    /\ ~batch.cancel
    /\ \/ batch.status \in {"received", "staged"}
       \/ /\ batch.status = "failed"
          /\ \/ batch.reason = "auto"
             \/ Created # {} /\ run[Oldest(Created)].reason = "auto"

Poll(h) ==
    /\ pc[h] = "poll"
    /\ IF PollResumes
       THEN Go(h, "check", [loc[h] EXCEPT !.b = batch])
       ELSE Goto(h, "idle")
    /\ PruneReprocess
    /\ UNCHANGED <<store, inflight, queue, outside>>

\* Mutant: only what was marked failed is resumed.
BootResumesFailed ==
    ~Cancelled /\ batch.status = "failed" /\ batch.reason = "auto"

\* list_auto_resume_batches
BootResumes ==
    /\ ~Cancelled
    /\ \/ batch.status = "received"
       \/ batch.status = "staged" /\ batch.staged
       \/ batch.status = "failed" /\ (batch.reason = "auto"
                                      \/ \E r \in Created : run[r].reason = "auto")

Reprocess(h) ==
    /\ pc[h] = "reprocess"
    /\ IF Mode(batch) = "reject"
       THEN Goto(h, "idle")
       ELSE Go(h, "check", [loc[h] EXCEPT !.b = batch])
    /\ UNCHANGED <<store, memory, outside>>

\* What follows the search for an active run.  A reprocess from the archive
\* adds a run first, a resume does not.
AfterCheck(t) ==
    CASE pc[t] = "staged_check" -> "staged_add"
      [] Mode(loc[t].b) = "staged" -> "staged_check"
      [] loc[t].kind = "reprocess" -> "archive_add"
      [] OTHER -> "enqueue"

\* active_processing_run_for_batch, before a run is added.
FindActive(t) ==
    /\ pc[t] \in {"check", "staged_check"}
    /\ IF pc[t] = "staged_check" /\ reproc \in Active THEN Goto(t, "idle")
       ELSE IF Active = {} THEN Goto(t, AfterCheck(t))
       ELSE Go(t, "check_running", [loc[t] EXCEPT !.run = Newest(Active),
                                                  !.r = run[Newest(Active)],
                                                  !.ret = AfterCheck(t)])
    /\ UNCHANGED <<store, memory, outside>>

\* A live worker's run is left alone, any other is a zombie.
CheckRunning(t) ==
    /\ pc[t] = "check_running"
    /\ Goto(t, IF LocallyRunning THEN "idle" ELSE "zombie")
    /\ PruneReprocess
    /\ UNCHANGED <<store, inflight, queue, outside>>

FailZombie(t) ==
    /\ pc[t] = "zombie"
    /\ SaveRun(loc[t].run, [loc[t].r EXCEPT !.status = "failed", !.reason = "auto"])
    /\ Go(t, loc[t].ret, [loc[t] EXCEPT !.run = NoRun, !.ret = "idle"])
    /\ UNCHANGED <<batch, rows, published, memory, outside>>

\* add_processing_run, a KeyError once the batch row is gone.
AddRecoveryRun(t) ==
    /\ pc[t] \in {"archive_add", "staged_add"}
    /\ IF Gone
       THEN Goto(t, "idle") /\ UNCHANGED run
       ELSE /\ AddRun(NextRun)
            /\ Go(t, IF pc[t] = "staged_add" THEN "enqueue_staged" ELSE "enqueue",
                  [loc[t] EXCEPT !.run = NextRun])
    /\ UNCHANGED <<batch, rows, published, memory, outside>>

\* Mutant: the run is registered and its job is never submitted.
RegisterOnly(t) ==
    /\ pc[t] = "enqueue_staged"
    /\ reproc' = loc[t].run
    /\ Goto(t, "idle")
    /\ UNCHANGED <<store, queue, inflight, outside>>

EnqueueStaged(t) ==
    /\ pc[t] = "enqueue_staged"
    /\ Enqueue("staged", loc[t].run)
    /\ reproc' = loc[t].run
    /\ Goto(t, "idle")
    /\ UNCHANGED <<store, inflight, outside>>

----------------------------------------------------------------------------
(* publish and evaluate *)

Publish(h) ==
    /\ pc[h] = "publish"
    /\ ~Gone
    /\ \E r \in Created :
          /\ run[r].status = "succeeded" /\ run[r].verdict = "pass"
          /\ Go(h, "publish_create", [loc[h] EXCEPT !.run = r])
    /\ UNCHANGED <<store, memory, outside>>

PublishRefused(h) ==
    /\ pc[h] = "publish"
    /\ Gone \/ \A r \in Created : run[r].status # "succeeded" \/ run[r].verdict # "pass"
    /\ Goto(h, "idle")
    /\ UNCHANGED <<store, memory, outside>>

\* The transaction of PublicationStore.create; publication.processing_run_id
\* references the run row.
PublishCreate(h) ==
    /\ pc[h] = "publish_create"
    /\ published' = IF loc[h].run \in Created THEN published \cup {loc[h].run}
                    ELSE published
    /\ Goto(h, "idle")
    /\ UNCHANGED <<batch, run, rows, memory, outside>>

Evaluate(h) ==
    /\ pc[h] = "evaluate"
    /\ IF Created = {} THEN Goto(h, "idle")
       ELSE \E r \in Created : Go(h, "qa_read", [loc[h] EXCEPT !.run = r])
    /\ UNCHANGED <<store, memory, outside>>

\* _persist_verdict reads the run row and writes it back with the verdict,
\* unless the evaluation fails: its job then fails, whatever the run did.
ReadForVerdict(t) ==
    /\ pc[t] = "qa_read"
    /\ Go(t, "qa_save", [loc[t] EXCEPT !.r = run[loc[t].run]])
    /\ UNCHANGED <<store, memory, outside>>

SaveVerdict(t) ==
    /\ pc[t] = "qa_save"
    /\ \/ /\ \E verdict \in {"pass", "fail"} :
                SaveRun(loc[t].run, [loc[t].r EXCEPT !.verdict = verdict])
          /\ Goto(t, IF loc[t].kind = "evaluate" THEN "idle" ELSE "at_verdict")
       \/ /\ UNCHANGED run
          /\ IF loc[t].kind = "evaluate" THEN Goto(t, "idle") ELSE RaiseError(t)
    /\ UNCHANGED <<batch, rows, published, memory, outside>>

----------------------------------------------------------------------------
(* The jobs of the upload pool. *)

\* _run_job, _run_archive_job and _run_reprocess begin by reading their rows.
TakeJob(w) ==
    /\ pc[w] = "idle" /\ queue # <<>>
    /\ queue' = Tail(queue)
    /\ LET job == Head(queue)
           local == [Blank EXCEPT !.kind = job.kind, !.run = job.run, !.ret = "fin"]
       IN  Go(w, CASE Gone \/ (job.kind = "staged" /\ run[job.run].status = "deleted")
                        -> "fin"
                   [] job.kind = "upload"  -> "at_ingest"
                   [] job.kind = "archive" -> "reset"
                   [] job.kind = "staged"  -> "at_staged", local)
    /\ UNCHANGED <<store, inflight, reproc, outside>>

\* reset_staging_for_batch
ResetStaging(w) ==
    /\ pc[w] = "reset"
    /\ batch' = IF Gone THEN batch
                ELSE [batch EXCEPT !.status = "received", !.staged = FALSE,
                                   !.reason = "none"]
    /\ IF Gone THEN RaiseError(w) ELSE Goto(w, "at_ingest")
    /\ UNCHANGED <<run, rows, published, memory, outside>>

\* Progress writes: save_batch_progress raises ProcessingCancelled once a
\* cancellation was requested.
AfterCheckpoint ==
    [at_ingest |-> "ingest", at_rows |-> "stage", at_transform |-> "transform",
     at_chunk |-> "chunk", at_qa |-> "qa_read", at_verdict |-> "fin",
     at_staged |-> "transform", at_failed |-> "fin"]

Checkpoint(w) ==
    /\ pc[w] \in DOMAIN AfterCheckpoint
    /\ IF ~Gone /\ batch.cancel
       THEN RaiseCancelled(w)
       ELSE Goto(w, AfterCheckpoint[pc[w]])
    /\ UNCHANGED <<store, memory, outside>>

\* ingest_workbook reads the batch row, then writes it back with the
\* worksheet layout, and again with the outcome.
IngestRead(w) ==
    /\ pc[w] = "ingest"
    /\ \/ Go(w, "layout", [loc[w] EXCEPT !.b = batch])
       \/ RaiseError(w)
    /\ UNCHANGED <<store, memory, outside>>

IngestLayout(w) ==
    /\ pc[w] = "layout"
    /\ SaveBatch(loc[w].b)
    /\ Goto(w, "at_rows")
    /\ UNCHANGED <<run, rows, published, memory, outside>>

Stage(w) ==
    /\ pc[w] = "stage"
    /\ \/ /\ SaveBatch([loc[w].b EXCEPT !.status = "staged", !.staged = TRUE])
          /\ Goto(w, "find_run")
       \/ /\ \E staged \in BOOLEAN :
                SaveBatch([loc[w].b EXCEPT !.status = "failed", !.staged = staged,
                                           !.reason = "other"])
          /\ Goto(w, "at_failed")
    /\ UNCHANGED <<run, rows, published, memory, outside>>

\* create_processing_run: the newest active run, or else a new one.
FindRun(w) ==
    /\ pc[w] = "find_run"
    /\ IF Active = {} THEN Goto(w, "add_run")
       ELSE Go(w, "at_transform", [loc[w] EXCEPT !.run = Newest(Active)])
    /\ UNCHANGED <<store, memory, outside>>

AddJobRun(w) ==
    /\ pc[w] = "add_run"
    /\ IF Gone THEN RaiseError(w) /\ UNCHANGED run
       ELSE /\ AddRun(NextRun)
            /\ Go(w, "at_transform", [loc[w] EXCEPT !.run = NextRun])
    /\ UNCHANGED <<batch, rows, published, memory, outside>>

\* run_transformation: both rows are read here and written back at the end.
TransformRead(w) ==
    /\ pc[w] = "transform"
    /\ IF Gone \/ loc[w].run \notin Created THEN RaiseError(w)
       ELSE Go(w, "running", [loc[w] EXCEPT !.b = batch, !.r = run[loc[w].run]])
    /\ UNCHANGED <<store, memory, outside>>

TransformRunning(w) ==
    /\ pc[w] = "running"
    /\ SaveRun(loc[w].run, [loc[w].r EXCEPT !.status = "running"])
    /\ Goto(w, "at_chunk")
    /\ UNCHANGED <<batch, rows, published, memory, outside>>

\* upsert_many of one chunk, refused by the foreign key to a deleted run.
TransformChunk(w) ==
    /\ pc[w] = "chunk"
    /\ loc[w].run \in Created
    /\ rows' = rows \cup {loc[w].run}
    /\ Goto(w, "at_chunk")
    /\ UNCHANGED <<batch, run, published, memory, outside>>

\* Mutant: a run whose rows were all rejected marks its batch processed.
TransformEndAnyway(w) ==
    /\ pc[w] = "chunk"
    /\ \/ /\ \E outcome \in {"succeeded", "failed"} :
                SaveRun(loc[w].run, [loc[w].r EXCEPT !.status = outcome, !.reason = "none"])
          /\ Goto(w, "processed")
       \/ /\ SaveRun(loc[w].run, [loc[w].r EXCEPT !.status = "failed", !.reason = "other"])
          /\ RaiseError(w)
    /\ UNCHANGED <<batch, rows, published, memory, outside>>

\* The end of the run: succeeded, failed because every row was rejected, or
\* failed by an exception.
TransformEnd(w) ==
    /\ pc[w] = "chunk"
    /\ \/ /\ SaveRun(loc[w].run, [loc[w].r EXCEPT !.status = "succeeded", !.reason = "none"])
          /\ Goto(w, "processed")
       \/ /\ SaveRun(loc[w].run, [loc[w].r EXCEPT !.status = "failed", !.reason = "none"])
          /\ Goto(w, "at_qa")
       \/ /\ SaveRun(loc[w].run, [loc[w].r EXCEPT !.status = "failed", !.reason = "other"])
          /\ RaiseError(w)
    /\ UNCHANGED <<batch, rows, published, memory, outside>>

TransformProcessed(w) ==
    /\ pc[w] = "processed"
    /\ SaveBatch([loc[w].b EXCEPT !.status = "processed"])
    /\ Goto(w, "at_qa")
    /\ UNCHANGED <<run, rows, published, memory, outside>>

----------------------------------------------------------------------------
(* Failure and the end of a job. *)

\* _fail_batch
FailRead(w) ==
    /\ pc[w] = "fb_read"
    /\ IF Gone THEN Return(w)
       ELSE IF Cancelled THEN Goto(w, "fc_read")
       ELSE Go(w, "fb_save", [loc[w] EXCEPT !.b = batch])
    /\ UNCHANGED <<store, memory, outside>>

FailSave(w) ==
    /\ pc[w] = "fb_save"
    /\ SaveBatch([loc[w].b EXCEPT !.status = "failed", !.reason = loc[w].why])
    /\ Goto(w, "fb_stage")
    /\ UNCHANGED <<run, rows, published, memory, outside>>

\* The progress write may raise; the oldest run is failed if it is not over.
FailStage(w) ==
    /\ pc[w] = "fb_stage"
    /\ LET first == Oldest(Created)
       IN  IF batch.cancel \/ Created = {} \/ first \notin Active
           THEN Return(w)
           ELSE Go(w, "fail_run", [loc[w] EXCEPT !.run = first,
                       !.r = [run[first] EXCEPT !.status = "failed"]])
    /\ UNCHANGED <<store, memory, outside>>

\* _fail_reprocess_run
FailReprocess(w) ==
    /\ pc[w] = "fr_read"
    /\ LET r == loc[w].run
       IN  IF \/ r \in Active
              \/ run[r].status = "failed" /\ run[r].reason = "none"
           THEN Go(w, "fail_run", [loc[w] EXCEPT !.r =
                       [run[r] EXCEPT !.status = "failed", !.reason = loc[w].why]])
           ELSE Return(w)
    /\ UNCHANGED <<store, memory, outside>>

FailRunSave(w) ==
    /\ pc[w] = "fail_run"
    /\ SaveRun(loc[w].run, loc[w].r)
    /\ Return(w)
    /\ UNCHANGED <<batch, rows, published, memory, outside>>

\* The finally clause ("fin") and, once the registries have forgotten the
\* job, the done callback ("fin2") finish what was left incomplete.
\* _run_reprocess looks at its own run only; its callback does nothing more
\* when that run is over.
MustCancel(w) ==
    /\ ~Gone /\ batch.cancel /\ batch.status # "cancelled"
    /\ loc[w].kind = "staged" /\ pc[w] = "fin2" => loc[w].run \in Active

MustFail(w) ==
    /\ ~Gone /\ ~Cancelled
    /\ loc[w].kind = "staged" => loc[w].run \in Active

Finish(w) ==
    /\ pc[w] \in {"fin", "fin2"}
    /\ LET after == IF pc[w] = "fin" THEN "forget" ELSE "idle"
       IN  Go(w, CASE MustCancel(w) -> "fc_read"
                   [] MustFail(w) -> IF loc[w].kind = "staged" THEN "fr_read" ELSE "fin_run"
                   [] OTHER -> after,
              [loc[w] EXCEPT !.ret = after, !.why = "auto"])
    /\ UNCHANGED <<store, memory, outside>>

\* Mutant: the newest run is taken for the active one.
FinishNewestRun(w) ==
    /\ pc[w] = "fin_run"
    /\ IF Created = {} THEN Goto(w, "fin_batch")
       ELSE LET last == Newest(Created)
            IN  Go(w, "fin_save", [loc[w] EXCEPT !.run = last, !.r =
                       [run[last] EXCEPT !.status = "failed", !.reason = "auto"]])
    /\ UNCHANGED <<store, memory, outside>>

\* _finalize_incomplete_job: an active run, then a batch still "received".
FinishRun(w) ==
    /\ pc[w] = "fin_run"
    /\ IF Active = {} THEN Goto(w, "fin_batch")
       ELSE LET last == Newest(Active)
                why  == IF run[last].reason = "none" THEN "auto" ELSE run[last].reason
            IN  Go(w, "fin_save", [loc[w] EXCEPT !.run = last, !.r =
                       [run[last] EXCEPT !.status = "failed", !.reason = why]])
    /\ UNCHANGED <<store, memory, outside>>

FinishRunSave(w) ==
    /\ pc[w] = "fin_save"
    /\ SaveRun(loc[w].run, loc[w].r)
    /\ Goto(w, "fin_batch")
    /\ UNCHANGED <<batch, rows, published, memory, outside>>

FinishBatch(w) ==
    /\ pc[w] = "fin_batch"
    /\ IF batch.status = "received" THEN Goto(w, "fb_read") ELSE Return(w)
    /\ UNCHANGED <<store, memory, outside>>

Forget(w) ==
    /\ pc[w] = "forget"
    /\ inflight' = (inflight /\ loc[w].kind = "staged")
    /\ reproc' = IF \/ loc[w].kind = "archive"
                    \/ loc[w].kind = "staged" /\ reproc = loc[w].run
                 THEN NoRun ELSE reproc
    /\ Goto(w, "fin2")
    /\ UNCHANGED <<store, queue, outside>>

----------------------------------------------------------------------------
(* The API process restarts: fail_abandoned_processing_runs, then           *)
(* resume_orphaned_work before requests are served.                         *)

Restart ==
    /\ crashes < MaxCrashes
    /\ crashes' = crashes + 1
    /\ UNCHANGED <<batch, rows, published, arriving>>
    /\ run' = [r \in Runs |-> IF r \in Active
                              THEN [run[r] EXCEPT !.status = "failed", !.reason = "auto"]
                              ELSE run[r]]
    /\ inflight' = FALSE /\ reproc' = NoRun /\ queue' = <<>>
    /\ pc' = [t \in Threads |->
                IF t = Boot /\ BootResumes' /\ NextRun \in Runs THEN "check" ELSE "idle"]
    /\ loc' = [t \in Threads |-> IF pc'[t] = "check"
                                 THEN [Blank EXCEPT !.kind = "boot", !.b = batch]
                                 ELSE Blank]

----------------------------------------------------------------------------
Finalize(t) ==
    FinalizeRead(t) \/ FinalizeRevert(t) \/ FinalizeRuns(t) \/ FinalizeBatch(t)

Recover(t) ==
    \/ FindActive(t) \/ CheckRunning(t) \/ FailZombie(t) \/ AddRecoveryRun(t)
    \/ EnqueueStaged(t) \/ EnqueueUpload(t)

Verdict(t) == ReadForVerdict(t) \/ SaveVerdict(t)

Handle(h) ==
    \/ CancelRead(h) \/ CancelRunning(h) \/ CancelRequest(h) \/ Finalize(h)
    \/ DeleteRead(h) \/ DeleteRunning(h) \/ DeleteCheck(h) \/ DeleteRevert(h)
    \/ DeleteRecord(h)
    \/ Poll(h) \/ Reprocess(h) \/ Recover(h)
    \/ Publish(h) \/ PublishRefused(h) \/ PublishCreate(h)
    \/ Evaluate(h) \/ Verdict(h)

Work(w) ==
    \/ ResetStaging(w) \/ Checkpoint(w) \/ IngestRead(w) \/ IngestLayout(w)
    \/ Stage(w) \/ FindRun(w) \/ AddJobRun(w)
    \/ TransformRead(w) \/ TransformRunning(w) \/ TransformEnd(w)
    \/ TransformProcessed(w) \/ Verdict(w)
    \/ FailRead(w) \/ FailSave(w) \/ FailStage(w) \/ FailReprocess(w)
    \/ FailRunSave(w)
    \/ Finish(w) \/ FinishRun(w) \/ FinishRunSave(w) \/ FinishBatch(w) \/ Forget(w) \/ Finalize(w)

Next ==
    \/ Restart
    \/ Recover(Boot)
    \/ \E h \in Handlers : \/ AcceptUpload(h) \/ Handle(h)
                           \/ \E kind \in arriving : Request(h, kind)
    \/ \E w \in Workers : TakeJob(w) \/ TransformChunk(w) \/ Work(w)

Spec == Init /\ [][Next]_vars

\* A thread that has work goes on with it.  Nothing makes a request arrive or
\* the process restart, and a transformation has finitely many chunks.
Fairness ==
    /\ WF_vars(Recover(Boot))
    /\ \A h \in Handlers : WF_vars(Handle(h))
    /\ \A w \in Workers : /\ WF_vars(TakeJob(w)) /\ WF_vars(Work(w))
                         /\ SF_vars(TransformEnd(w))

FairSpec == Spec /\ Fairness

----------------------------------------------------------------------------
(* Properties. *)

Record == [status : {"absent", "pending", "running", "succeeded", "failed",
                     "cancelled", "deleted"},
           reason : {"none", "auto", "other"}, verdict : {"none", "pass", "fail"}]

\* Every row, registry and thread-local record has the shape the code gives it.
TypeOK ==
    /\ batch \in [status : {"none", "received", "staged", "processed", "failed",
                            "cancelled", "deleted"},
                  cancel : BOOLEAN, staged : BOOLEAN,
                  reason : {"none", "auto", "other"}]
    /\ run \in [Runs -> Record]
    /\ rows \subseteq Runs /\ published \subseteq Runs
    /\ inflight \in BOOLEAN /\ reproc \in Runs \cup {NoRun}
    /\ Len(queue) <= MaxJobs
    /\ \A t \in Threads : loc[t].run \in Runs \cup {NoRun} /\ loc[t].r \in Record

\* No thread is doing anything and no job waits.
Quiet == queue = <<>> /\ \A t \in Threads : pc[t] = "idle"

(* What holds. *)

\* Cancelling discards the work: once everything is quiet, no fact or history
\* row of a cancelled upload is left, whoever finalized the cancellation.
\* (With polls or a second request thread a late job can break this: README.)
CancelledHasNoRows == Quiet /\ batch.status = "cancelled" => rows = {}

\* Deleting is complete: a run saved, a chunk written or a publication created
\* by a thread that started before the delete leaves no row behind.
DeletedIsGone ==
    batch.status = "deleted" => rows = {} /\ published = {} /\ Created = {}

\* A processed upload has a succeeded run to publish, also when the process
\* restarts between the two writes that end a transformation.
ProcessedHasSucceededRun ==
    batch.status = "processed" /\ ~batch.cancel =>
        \E r \in Created : run[r].status = "succeeded"

\* Work is not lost: when everything is quiet no run is left pending or
\* running, be it the newest or an earlier one beside its successor, and the
\* upload is not left "received" (while the bound leaves a run to resume it
\* with), across restarts at any point, unless a cancellation was requested.
\* A re-evaluation may write the row of a run back that it read while the run
\* was pending, so the requests are without.
NotStuck ==
    Quiet /\ ~batch.cancel /\ "evaluate" \notin arriving =>
        /\ Active = {}
        /\ NextRun \in Runs => batch.status # "received"

\* An accepted upload does not stay "received" for ever.
EventuallyHandled == batch.status = "received" ~> batch.status # "received"

\* Every run ends, whatever failed or restarted while it was active.
RunsEnd == \A r \in Runs : r \in Active ~> r \notin Active

(* What the documents claim, or what holds for some requests only. *)

\* A run that succeeded is only ever cancelled or deleted: no restart fails it
\* with the active ones, no resumed job executes it again.  (With polls and
\* reprocess requests FailZombie's stale record can break this: README.)
SucceededStays ==
    [][\A r \in Runs : run[r].status = "succeeded" =>
          run'[r].status \in {"succeeded", "cancelled", "deleted"}]_vars

\* "Wait until cancellation finishes before deleting": a requested
\* cancellation does finish.
CancelFinishes ==
    Quiet /\ batch.cancel => batch.status \in {"cancelled", "deleted", "failed"}

\* "A published upload cannot be cancelled."
CancelledIsNotPublished == batch.status = "cancelled" => published = {}

\* "Does not retry genuine validation/transform failures": the poll and the
\* restart start nothing after a run that failed for its own reasons.
GenuineFailure ==
    /\ Created # {}
    /\ run[Newest(Created)].status = "failed"
    /\ run[Newest(Created)].reason # "auto"

NoRetryOfGenuineFailure ==
    \A t \in Threads :
        pc[t] \in {"enqueue", "staged_add"} /\ loc[t].kind \in {"poll", "boot"} =>
            ~GenuineFailure
=============================================================================
