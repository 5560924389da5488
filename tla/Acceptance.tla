------------------------------ MODULE Acceptance ------------------------------
(***************************************************************************)
(* Which uploads of a company become work: accept_parts takes the files of *)
(* one request in their sort order and looks each one up by its content    *)
(* (upload_service.py, ingest_store.py), and the upload pool works through *)
(* the jobs in the order they were queued.  upload_workbook is a coroutine *)
(* that calls accept_parts without awaiting, so requests do not overlap;   *)
(* the workers run between its transactions.                               *)
(*                                                                         *)
(* A file is its content, and the numbers are the order of                 *)
(* _upload_sort_key.  All files share one grain; fact is the batch whose   *)
(* row it holds.  What cancels, deletes, polls or restarts do to one batch *)
(* is UploadLifecycle's matter.                                            *)
(***************************************************************************)
EXTENDS Naturals, Sequences, FiniteSets

CONSTANTS
    Files,      \* contents of workbooks, in the order of their names
    Parts,      \* the requests that may arrive: files as sent, and force
    MaxUploads, \* bound on the requests
    Workers     \* threads of the pool (dfip_worker_concurrency, 1 by default)

ASSUME AcceptanceConstants ==
    /\ Files \subseteq Nat /\ IsFiniteSet(Files) /\ MaxUploads \in Nat
    /\ \A p \in Parts : p.files \in Seq(Files) \ {<<>>} /\ p.force \in BOOLEAN

VARIABLES
    source,     \* file -> "none", "registered" or "archived" (storage_uri set)
    batches,    \* the batches, in the order of created_at
    runs,       \* the processing runs: batch, and live while pending or running
    inflight,   \* _in_flight: file -> batch, 0 when there is none
    reproc,     \* _reprocess_in_flight: its <<batch, run>> pairs
    queue,      \* jobs waiting at the pool
    worker,     \* the job of each thread
    req,        \* accept_parts, between two transactions
    uploads,    \* requests so far
    answered,   \* what the last request was answered, file by file
    ended,      \* file -> attempts on it that are over, and whether the last restated the grain
    fact        \* batch of the shared grain

store    == <<source, batches, runs>>
pool     == <<inflight, reproc, queue, worker, ended, fact>>
counting == <<uploads, answered>>
acceptVars == <<store, pool, counting, req>>

NoBatch == 0
Free    == [stage |-> "free"]
NoReq   == [pc |-> "idle"]

BatchesOf(f, statuses) ==
    {b \in DOMAIN batches : batches[b].file = f /\ batches[b].status \in statuses}
Oldest(S) == CHOOSE b \in S : \A c \in S : b <= c
Newest(S) == CHOOSE b \in S : \A c \in S : c <= b
LiveRuns(b) == {r \in DOMAIN runs : runs[r].batch = b /\ runs[r].live}
\* active_processing_run_for_batch, ended by whoever finds it.
NewestEnded(b) ==
    IF LiveRuns(b) = {} THEN runs ELSE [runs EXCEPT ![Newest(LiveRuns(b))].live = FALSE]
\* _fail_batch: the first run of the batch (processing_run_for_batch), if it is live.
IsFirst(r, b) == runs[r].batch = b /\ \A s \in DOMAIN runs : runs[s].batch = b => r <= s
FirstEnded(b) ==
    [r \in DOMAIN runs |-> IF IsFirst(r, b) THEN [runs[r] EXCEPT !.live = FALSE] ELSE runs[r]]

AcceptInit ==
    /\ source = [f \in Files |-> "none"] /\ batches = <<>> /\ runs = <<>>
    /\ inflight = [f \in Files |-> NoBatch] /\ reproc = {}
    /\ queue = <<>> /\ worker = [w \in Workers |-> Free]
    /\ req = NoReq /\ uploads = 0 /\ answered = <<>>
    /\ ended = [f \in Files |-> [count |-> 0, ok |-> FALSE]] /\ fact = NoBatch

-----------------------------------------------------------------------------
(* accept_parts and accept *)

\* Mutant: the files are taken as they were sent.
PreparedAsSent(parts) == parts
\* Every part is checked first, then they are sorted by name and content, and
\* equal ones stay in their order.
Place(parts, k) ==
    Cardinality({j \in DOMAIN parts : parts[j] < parts[k] \/ (parts[j] = parts[k] /\ j <= k)})
Prepared(parts) ==
    [i \in DOMAIN parts |-> parts[CHOOSE k \in DOMAIN parts : Place(parts, k) = i]]

AcceptParts(p) ==
    /\ req.pc = "idle" /\ uploads < MaxUploads
    /\ req' = [pc |-> "next", todo |-> Prepared(p.files), force |-> p.force, file |-> Head(p.files),
               batch |-> NoBatch, found |-> NoBatch, code |-> 0, mode |-> "none", seen |-> ended]
    /\ uploads' = uploads + 1
    /\ answered' = <<>>
    /\ UNCHANGED <<store, pool>>

IsAt(pc) == req.pc = pc
Goto(pc) == req' = [req EXCEPT !.pc = pc]

\* get_source_file_by_sha256 of the next file; the answer goes out after the last.
NextFile ==
    /\ IsAt("next")
    /\ req' = IF req.todo = <<>> THEN NoReq
              ELSE LET f == Head(req.todo)
                   IN  [req EXCEPT !.todo = Tail(@), !.file = f, !.batch = NoBatch, !.found = NoBatch,
                            !.code = 0, !.mode = "none",
                            !.pc = IF source[f] # "none" /\ ~req.force THEN "processed" ELSE "register"]
    /\ UNCHANGED <<store, pool, counting>>

\* mine: this request put the batch to work.
Answer(code, b, mine) ==
    /\ answered' = Append(answered, [file |-> req.file, code |-> code, batch |-> b,
                                     mine |-> mine, seen |-> req.seen[req.file].count])
    /\ Goto("next")
    /\ UNCHANGED uploads

\* processed_batch_for_file: such a file is replayed.
FindProcessed ==
    /\ IsAt("processed")
    /\ LET done == BatchesOf(req.file, {"processed"})
       IN  req' = IF done = {} THEN [req EXCEPT !.pc = "inflight"]
                  ELSE [req EXCEPT !.pc = "archive", !.batch = Oldest(done), !.code = 200]
    /\ UNCHANGED <<store, pool, counting>>

\* _inflight_batch reads the registry ...
ReadInflight ==
    /\ IsAt("inflight")
    /\ req' = [req EXCEPT !.pc = "found", !.found = inflight[req.file]]
    /\ UNCHANGED <<store, pool, counting>>

\* Mutant: whatever the registry holds is in flight.
UnfinishedAny(b) == b # NoBatch
Unfinished(b) == b # NoBatch /\ batches[b].status \notin {"failed", "processed"}

\* ... then the batch.  accept asks first, _recover_batch once more.
ReadFound ==
    /\ IsAt("found")
    /\ IF ~Unfinished(req.found)
       THEN Goto(IF req.mode = "none" THEN "recoverable" ELSE "start") /\ UNCHANGED counting
       ELSE IF req.mode = "none"
       THEN /\ req' = [req EXCEPT !.pc = "archive", !.batch = req.found, !.code = 202]
            /\ UNCHANGED counting
       ELSE Answer(202, req.found, FALSE)
    /\ UNCHANGED <<store, pool>>

\* recoverable_batch_for_file, and _recovery_mode of that record.
FindRecoverable ==
    /\ IsAt("recoverable")
    /\ LET some == BatchesOf(req.file, {"received", "staged", "failed"})
       IN  req' = IF some = {} THEN [req EXCEPT !.pc = "register"]
                  ELSE LET b == Newest(some)
                       IN  [req EXCEPT !.pc = "archive", !.batch = b,
                                !.mode = IF batches[b].status # "received" /\ batches[b].staged
                                         THEN "staged" ELSE "archive"]
    /\ UNCHANGED <<store, pool, counting>>

\* register_source_file: ON CONFLICT DO NOTHING.
Register ==
    /\ IsAt("register")
    /\ source' = [source EXCEPT ![req.file] = IF @ = "none" THEN "registered" ELSE @]
    /\ Goto("archive")
    /\ UNCHANGED <<batches, runs, pool, counting>>

\* _persist_source_bytes: the file, then its uri; an error fails the request,
\* the files accepted before it are at work all the same.
ArchiveSource ==
    /\ IsAt("archive")
    /\ source' = [source EXCEPT ![req.file] = "archived"]
    /\ IF req.code # 0 THEN Answer(req.code, req.batch, FALSE)
       ELSE Goto(IF req.mode = "none" THEN "create" ELSE "inflight") /\ UNCHANGED counting
    /\ UNCHANGED <<batches, runs, pool>>

ArchiveFails ==
    /\ IsAt("archive")
    /\ req' = NoReq /\ answered' = <<>>
    /\ UNCHANGED <<store, pool, uploads>>

\* _read_archive_bytes: the file cannot be read back.
ArchiveUnreadable ==
    /\ IsAt("start") /\ req.mode = "archive"
    /\ req' = NoReq /\ answered' = <<>>
    /\ UNCHANGED <<store, pool, uploads>>

CreateBatch ==
    /\ IsAt("create")
    /\ batches' = Append(batches, [file |-> req.file, status |-> "received", staged |-> FALSE])
    /\ req' = [req EXCEPT !.pc = "submit", !.batch = Len(batches) + 1]
    /\ UNCHANGED <<source, runs, pool, counting>>

Enqueue(kind, b, r) == queue' = Append(queue, [stage |-> "taken", kind |-> kind, batch |-> b, run |-> r])

\* _remember_inflight and submit.
Submit ==
    /\ IsAt("submit")
    /\ inflight' = [inflight EXCEPT ![req.file] = req.batch]
    /\ Enqueue("upload", req.batch, 0)
    /\ Answer(202, req.batch, TRUE)
    /\ UNCHANGED <<store, reproc, worker, ended, fact>>

\* _start_archive_recovery
StartArchive ==
    /\ IsAt("start") /\ req.mode = "archive"
    /\ inflight' = [inflight EXCEPT ![req.file] = req.batch]
    /\ Enqueue("archive", req.batch, 0)
    /\ Answer(202, req.batch, TRUE)
    /\ UNCHANGED <<store, reproc, worker, ended, fact>>

\* _start_staged_run: a live run of a job in this process is left alone, any
\* other one is failed.  (UploadLifecycle takes its transactions apart.)
StartStaged ==
    /\ IsAt("start") /\ req.mode = "staged"
    /\ LET b       == req.batch
           local   == \/ \E f \in Files : inflight[f] = b
                      \/ \E p \in reproc : p[1] = b /\ runs[p[2]].live
           r       == Len(runs) + 1
       IN  IF LiveRuns(b) # {} /\ local
           THEN Answer(202, b, FALSE) /\ UNCHANGED <<store, pool>>
           ELSE /\ runs' = Append(NewestEnded(b), [batch |-> b, live |-> TRUE])
                /\ reproc' = {p \in reproc : p[1] # b} \cup {<<b, r>>}
                /\ Enqueue("staged", b, r)
                /\ Answer(202, b, TRUE)
                /\ UNCHANGED <<source, batches, inflight, worker, ended, fact>>

-----------------------------------------------------------------------------
(* The upload pool *)

Move(w, stage) == worker' = [worker EXCEPT ![w].stage = stage]
InStage(w, stage) == worker[w].stage = stage
JobBatch(w) == worker[w].batch

TakeJob(w) ==
    /\ InStage(w, "free") /\ queue # <<>>
    /\ worker' = [worker EXCEPT ![w] = Head(queue)]
    /\ queue' = Tail(queue)
    /\ UNCHANGED <<store, inflight, reproc, ended, fact, counting, req>>

\* reset_staging_for_batch of an archive job; a staged run has its rows, and is
\* set to running, whoever ended it while it waited.
BeginJob(w) ==
    /\ InStage(w, "taken")
    /\ Move(w, IF worker[w].kind = "staged" THEN "transform" ELSE "ingest")
    /\ batches' = IF worker[w].kind = "archive"
                  THEN [batches EXCEPT ![JobBatch(w)].status = "received", ![JobBatch(w)].staged = FALSE]
                  ELSE batches
    /\ runs' = [r \in DOMAIN runs |->
                  IF r = worker[w].run /\ runs[r].batch = JobBatch(w)
                  THEN [runs[r] EXCEPT !.live = TRUE] ELSE runs[r]]
    /\ UNCHANGED <<source, inflight, reproc, queue, ended, fact, counting, req>>

Over(w, ok) ==
    ended' = [ended EXCEPT ![batches[JobBatch(w)].file] = [count |-> @.count + 1, ok |-> ok]]

\* ingest_workbook stages the rows and creates a run ...
Ingest(w) ==
    /\ InStage(w, "ingest")
    /\ batches' = [batches EXCEPT ![JobBatch(w)].status = "staged", ![JobBatch(w)].staged = TRUE]
    /\ runs' = Append(runs, [batch |-> JobBatch(w), live |-> TRUE])
    /\ worker' = [worker EXCEPT ![w].stage = "transform", ![w].run = Len(runs) + 1]
    /\ UNCHANGED <<source, inflight, reproc, queue, ended, fact, counting, req>>

\* ... or the workbook cannot be read, has the wrong headers or only rejected
\* rows; or it has too many rows, and those before the limit stay staged.
IngestFails(w) ==
    /\ InStage(w, "ingest")
    /\ \E some \in BOOLEAN :
         batches' = [batches EXCEPT ![JobBatch(w)].status = "failed", ![JobBatch(w)].staged = some]
    /\ runs' = FirstEnded(JobBatch(w))
    /\ Over(w, FALSE) /\ Move(w, "end")
    /\ UNCHANGED <<source, inflight, reproc, queue, fact, counting, req>>

RunIsOver(w) == runs' = [runs EXCEPT ![worker[w].run].live = FALSE]

\* run_transformation restates the grain with the rows that are staged, and
\* saves its run as succeeded ...
Transform(w) ==
    /\ InStage(w, "transform")
    /\ fact' = IF batches[JobBatch(w)].staged THEN JobBatch(w) ELSE fact
    /\ RunIsOver(w) /\ Move(w, "succeeded")
    /\ UNCHANGED <<source, batches, inflight, reproc, queue, ended, counting, req>>

\* ... and then its batch as processed.
SaveProcessed(w) ==
    /\ InStage(w, "succeeded")
    /\ batches' = [batches EXCEPT ![JobBatch(w)].status = "processed"]
    /\ Over(w, batches[JobBatch(w)].staged) /\ Move(w, "qa")
    /\ UNCHANGED <<source, runs, inflight, reproc, queue, fact, counting, req>>

\* Every row is rejected: the run is failed, without an exception, and the
\* batch stays as it is.  The job goes on to the checks of that run.
AllRejected(w) ==
    /\ InStage(w, "transform") /\ batches[JobBatch(w)].staged
    /\ RunIsOver(w)
    /\ IF worker[w].kind = "staged" THEN Over(w, FALSE) /\ Move(w, "end")
       ELSE Move(w, "rejected") /\ UNCHANGED ended
    /\ UNCHANGED <<source, batches, inflight, reproc, queue, fact, counting, req>>

\* An exception, before or after the chunk of the grain, or as the batch is
\* saved, fails the run.  For a staged run that is all.
TransformRaises(w) ==
    /\ \/ InStage(w, "transform") /\ fact' \in {fact} \cup {b \in {JobBatch(w)} : batches[b].staged}
       \/ InStage(w, "succeeded") /\ UNCHANGED fact
    /\ RunIsOver(w)
    /\ IF worker[w].kind = "staged" THEN Over(w, FALSE) /\ Move(w, "end")
       ELSE Move(w, "failing") /\ UNCHANGED ended
    /\ UNCHANGED <<source, batches, inflight, reproc, queue, counting, req>>

\* _fail_batch, in the job's except clause; the checks may raise, too.
FailBatch(w) ==
    /\ InStage(w, "failing") \/ InStage(w, "rejected")
    /\ batches' = [batches EXCEPT ![JobBatch(w)].status = "failed"]
    /\ runs' = FirstEnded(JobBatch(w))
    /\ Over(w, FALSE) /\ Move(w, "end")
    /\ UNCHANGED <<source, inflight, reproc, queue, fact, counting, req>>

\* evaluate_and_persist_run after a processed batch, which an exception makes a
\* failed one, except in the job of a staged run.
CheckRun(w) ==
    /\ InStage(w, "qa") /\ Move(w, "end")
    /\ \/ UNCHANGED <<batches, runs>>
       \/ /\ worker[w].kind # "staged"
          /\ batches' = [batches EXCEPT ![JobBatch(w)].status = "failed"]
          /\ runs' = FirstEnded(JobBatch(w))
    /\ UNCHANGED <<source, inflight, reproc, queue, ended, fact, counting, req>>

\* The finally clauses: _finalize_incomplete_job, _forget_inflight and, after an
\* archive job, _forget_reprocess; a staged run forgets only itself.  Of a batch
\* whose rows were all rejected this is the end.
EndJob(w) ==
    /\ InStage(w, "end") \/ InStage(w, "rejected")
    /\ LET b == JobBatch(w)
       IN  IF worker[w].kind = "staged"
           THEN reproc' = reproc \ {<<b, worker[w].run>>} /\ UNCHANGED <<batches, runs, inflight>>
           ELSE /\ runs' = NewestEnded(b)
                /\ batches' = [batches EXCEPT ![b].status = IF @ = "received" THEN "failed" ELSE @]
                /\ inflight' = [f \in Files |-> IF inflight[f] = b THEN NoBatch ELSE inflight[f]]
                /\ reproc' = IF worker[w].kind = "archive" THEN {p \in reproc : p[1] # b} ELSE reproc
    /\ IF InStage(w, "rejected") THEN Over(w, FALSE) ELSE UNCHANGED ended
    /\ worker' = [worker EXCEPT ![w] = Free]
    /\ UNCHANGED <<source, queue, fact, counting, req>>

-----------------------------------------------------------------------------
AcceptNext ==
    \/ \E p \in Parts : AcceptParts(p)
    \/ NextFile \/ FindProcessed \/ ReadInflight \/ ReadFound \/ FindRecoverable
    \/ Register \/ ArchiveSource \/ ArchiveFails \/ ArchiveUnreadable \/ CreateBatch
    \/ Submit \/ StartArchive \/ StartStaged
    \/ \E w \in Workers :
         \/ TakeJob(w) \/ BeginJob(w) \/ Ingest(w) \/ IngestFails(w)
         \/ Transform(w) \/ SaveProcessed(w) \/ AllRejected(w) \/ TransformRaises(w)
         \/ FailBatch(w) \/ CheckRun(w) \/ EndJob(w)

AcceptSpec == AcceptInit /\ [][AcceptNext]_acceptVars

-----------------------------------------------------------------------------
(* Properties *)

Quiet == req = NoReq /\ queue = <<>> /\ \A w \in Workers : worker[w] = Free

\* A file that is not replayed is really tried: when everything is worked off,
\* an attempt has ended since its request arrived.  An attempt ends when its
\* batch is saved as processed or failed (of a staged run, when the run is
\* saved as failed): an upload repeated from then on is never taken for that
\* attempt, whatever its job still does (HTTP_WORKFLOW.md: "the same SHA retries
\* that batch").  Where every row is rejected the batch of an upload is saved
\* as neither, and the attempt ends as late as its job is forgotten ("In-process
\* in-flight SHA still returns 202"): an upload repeated while the checks of
\* the failed run go on is answered with that attempt.
EveryUploadIsTried ==
    Quiet => \A i \in DOMAIN answered :
        answered[i].code = 202 => ended[answered[i].file].count > answered[i].seen

\* "part order cannot change facts", "overlapping grains are restated by the
\* later file in that order": when the last request is worked off, the grain
\* has the row of the file with the highest name, if this request put that
\* file to work and the attempt restated the grain.  With one worker, that is.
LaterFileWins ==
    Quiet => \A i \in DOMAIN answered :
        LET a == answered[i]
        IN  a.mine /\ ended[a.file].ok
              /\ (\A k \in DOMAIN answered : answered[k].file <= a.file)
              => fact = a.batch

\* Not so of a file that was in flight already: it is not processed again, and
\* a file that goes before it restates its grains.
LaterFileAlwaysWins ==
    Quiet => \A i \in DOMAIN answered :
        LET a == answered[i]
        IN  a.code = 202 /\ ended[a.file].ok
              /\ (\A k \in DOMAIN answered : answered[k].file <= a.file)
              => fact = a.batch

\* "staged/received/failed work is recovered on the same batch": a job that
\* ends between the lookups of accept makes it create another batch.
OneBatchPerFile ==
    \A b, c \in DOMAIN batches : batches[b].file = batches[c].file => b = c
=============================================================================
