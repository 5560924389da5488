----------------------------- MODULE FactLedger -----------------------------
(***************************************************************************)
(* The fact working set: fact_campaign_day, one current row per grain, and *)
(* fact_campaign_day_history, the rows that were restated.  Processing     *)
(* runs upsert chunks of grains; cancelling or deleting an upload reverts  *)
(* its runs, newest first, one transaction per run.                        *)
(*                                                                         *)
(* A fact is represented by the run that wrote it: business_values()       *)
(* contains processing_run_id, so a row written by another run is always   *)
(* restated and a row written by the same run never is.  The PostgreSQL    *)
(* store is the one modelled; each of its methods is one transaction.      *)
(***************************************************************************)
EXTENDS Naturals, FiniteSets

CONSTANTS
    Grains,   \* (campaign, variation, day) keys of one client
    Batches,  \* uploads of that client
    MaxRuns,  \* bound on processing runs, run ids are 1..MaxRuns
    Workers   \* bound on runs transforming at the same time

ASSUME LedgerConstants == MaxRuns \in Nat /\ Workers \in Nat

NoRun   == 0
NoBatch == "no_batch"
Runs    == 1..MaxRuns

ASSUME NoBatchIsNoBatch == NoBatch \notin Batches

VARIABLES
    facts,     \* fact_campaign_day: the run owning each grain's current row
    history,   \* fact_campaign_day_history rows
    clock,     \* superseded_at of the next restatement, later ones are later
    nruns,     \* runs created so far, in started_at order
    owner,     \* the batch of each run
    status,    \* processing_run.status, "deleted" once its row is gone
    seen,      \* grains each run has written (engine.py's seen set)
    bstate,    \* "open", "cancelling", "cancelled" or "deleted" for each batch
    published, \* runs with a publication row
    drop,      \* cancel or delete in progress: its kind and runs to revert
    reverted   \* history variable: runs some committed revert_run named

vars == <<facts, history, clock, nruns, owner, status, seen, bstate,
          published, drop, reverted>>
ledger   == <<facts, history, clock, reverted>>
registry == <<nruns, owner, status, seen, published>>

Row == [grain : Grains, fact : Runs, by : Runs, at : Nat]
NoDrop == [kind |-> "none", todo |-> {}]

RunsOf(b)  == {r \in Runs : owner[r] = b}
Idle(b)    == \A r \in RunsOf(b) : status[r] # "running"
Deleted(r) == r # NoRun /\ status[r] = "deleted"

----------------------------------------------------------------------------
(* The two writes of the fact store. *)

\* Grains of the chunk whose current row belongs to another run: upsert
\* answers "restated" for them, "inserted" or "unchanged" for the others.
Restated(chunk, r) == {g \in chunk : facts[g] \notin {NoRun, r}}

\* Mutants: also rows that were not there; the row as it is after the update.
SupersededAlways(chunk, r) ==
    {[grain |-> g, fact |-> facts[g], by |-> r, at |-> clock] : g \in chunk}
SupersededAfterUpdate(chunk, r) ==
    {[grain |-> g, fact |-> r, by |-> r, at |-> clock] : g \in Restated(chunk, r)}

Superseded(chunk, r) ==
    {[grain |-> g, fact |-> facts[g], by |-> r, at |-> clock] :
        g \in Restated(chunk, r)}

UpsertMany(chunk, r) ==
    /\ history' = history \cup Superseded(chunk, r)
    /\ facts'   = [g \in Grains |-> IF g \in chunk THEN r ELSE facts[g]]
    /\ clock'   = IF Restated(chunk, r) = {} THEN clock ELSE clock + 1
    /\ UNCHANGED reverted

\* History rows a revert of r restores from, and the latest one of a grain.
RowsBy(r) == {h \in history : h.by = r}
IsLatest(h, r) == \A k \in RowsBy(r) : k.grain = h.grain => k.at <= h.at
Latest(g, r) == CHOOSE h \in RowsBy(r) : h.grain = g /\ IsLatest(h, r)

\* The UPDATE of revert_run rewrites rows that exist; it cannot insert one.
Restores(g, r) == facts[g] # NoRun /\ \E h \in RowsBy(r) : h.grain = g

RestoredFact(g, r) == IF Restores(g, r) THEN Latest(g, r).fact ELSE facts[g]

\* fact_campaign_day.processing_run_id REFERENCES processing_run: the UPDATE
\* fails when a row to restore belongs to a run that was deleted.
RevertAllowed(r) == \A g \in Grains : ~Deleted(RestoredFact(g, r))

\* Mutant: the rows restored from stay in history.
RevertRunKeepsHistory(r) ==
    /\ facts'   = [g \in Grains |->
                     IF RestoredFact(g, r) = r THEN NoRun ELSE RestoredFact(g, r)]
    /\ reverted' = reverted \cup {r}
    /\ UNCHANGED <<history, clock>>

RevertRun(r) ==
    /\ facts'   = [g \in Grains |->
                     IF RestoredFact(g, r) = r THEN NoRun ELSE RestoredFact(g, r)]
    /\ history' = history \ RowsBy(r)
    /\ reverted' = reverted \cup {r}
    /\ UNCHANGED clock

----------------------------------------------------------------------------
Init ==
    /\ facts     = [g \in Grains |-> NoRun]
    /\ history   = {}
    /\ clock     = 0
    /\ nruns     = 0
    /\ owner     = [r \in Runs |-> NoBatch]
    /\ status    = [r \in Runs |-> "absent"]
    /\ seen      = [r \in Runs |-> {}]
    /\ bstate    = [b \in Batches |-> "open"]
    /\ published = {}
    /\ drop      = [b \in Batches |-> NoDrop]
    /\ reverted  = {}

\* add_processing_run, then run_transformation marks it running.
StartRun(b) ==
    /\ nruns < MaxRuns
    /\ bstate[b] = "open"
    /\ drop[b] = NoDrop
    /\ Idle(b)
    /\ Cardinality({r \in Runs : status[r] = "running"}) < Workers
    /\ nruns'  = nruns + 1
    /\ owner'  = [owner  EXCEPT ![nruns'] = b]
    /\ status' = [status EXCEPT ![nruns'] = "running"]
    /\ UNCHANGED <<ledger, seen, bstate, published, drop>>

\* Mutant: no memory of the grains already produced.
UpsertChunkAgain(r, chunk) ==
    /\ status[r] = "running"
    /\ drop[owner[r]] = NoDrop
    /\ UpsertMany(chunk, r)
    /\ seen' = [seen EXCEPT ![r] = @ \cup chunk]
    /\ UNCHANGED <<nruns, owner, status, bstate, published, drop>>

\* flush_pending: one chunk of grains this run has not produced before.
UpsertChunk(r, chunk) ==
    /\ status[r] = "running"
    /\ drop[owner[r]] = NoDrop
    /\ chunk \cap seen[r] = {}
    /\ UpsertMany(chunk, r)
    /\ seen' = [seen EXCEPT ![r] = @ \cup chunk]
    /\ UNCHANGED <<nruns, owner, status, bstate, published, drop>>

\* run_transformation ends, or raises, or the process restarts: the facts
\* written so far stay.
EndRun(r) ==
    /\ status[r] = "running"
    /\ drop[owner[r]] = NoDrop
    /\ \E outcome \in {"succeeded", "failed"} :
          status' = [status EXCEPT ![r] = outcome]
    /\ UNCHANGED <<ledger, nruns, owner, seen, bstate, published, drop>>

\* Publication of a succeeded run.  Its snapshot is a copy and is not part
\* of the working set.
Publish(r) ==
    /\ status[r] = "succeeded"
    /\ published' = published \cup {r}
    /\ UNCHANGED <<ledger, nruns, owner, status, seen, bstate, drop>>

\* cancel: refused once published or processed.  A running worker stops at
\* its next progress write and finalizes the cancellation itself.  The
\* cancel_requested flag is never cleared: no run starts any more.
BeginCancel(b) ==
    /\ bstate[b] \in {"open", "cancelling"}
    /\ drop[b] = NoDrop
    /\ RunsOf(b) \cap published = {}
    /\ \A r \in RunsOf(b) : status[r] # "succeeded"
    /\ drop' = [drop EXCEPT ![b] = [kind |-> "cancel", todo |-> RunsOf(b)]]
    /\ bstate' = [bstate EXCEPT ![b] = "cancelling"]
    /\ UNCHANGED <<ledger, registry>>

\* delete_batch: refused while a worker runs, while a cancellation is not
\* finished and once a run is published.
BeginDelete(b) ==
    /\ bstate[b] \in {"open", "cancelled"}
    /\ drop[b] = NoDrop
    /\ Idle(b)
    /\ RunsOf(b) \cap published = {}
    /\ drop' = [drop EXCEPT ![b] = [kind |-> "delete", todo |-> RunsOf(b)]]
    /\ UNCHANGED <<ledger, registry, bstate>>

\* Mutant: oldest first.
OldestToRevert(todo, r) == r \in todo /\ \A q \in todo : r <= q

\* _revert_runs goes through list_processing_runs_for_batch, newest first.
NextToRevert(todo, r) == r \in todo /\ \A q \in todo : q <= r

RevertStep(b, r) ==
    /\ NextToRevert(drop[b].todo, r)
    /\ RevertAllowed(r)
    /\ RevertRun(r)
    /\ drop' = [drop EXCEPT ![b].todo = @ \ {r}]
    /\ UNCHANGED <<registry, bstate>>

\* The foreign key refuses the revert and the request ends with an error:
\* the reverts already committed stay committed.
RevertRefused(b, r) ==
    /\ NextToRevert(drop[b].todo, r)
    /\ ~RevertAllowed(r)
    /\ drop' = [drop EXCEPT ![b] = NoDrop]
    /\ status' = [q \in Runs |-> IF q \in RunsOf(b) /\ status[q] = "running"
                                 THEN "failed" ELSE status[q]]
    /\ UNCHANGED <<ledger, nruns, owner, seen, bstate, published>>

\* The request is lost between two reverts: a crash, or a database outage.
DropInterrupted(b) ==
    /\ drop[b] # NoDrop
    /\ drop' = [drop EXCEPT ![b] = NoDrop]
    /\ status' = [q \in Runs |-> IF q \in RunsOf(b) /\ status[q] = "running"
                                 THEN "failed" ELSE status[q]]
    /\ UNCHANGED <<ledger, nruns, owner, seen, bstate, published>>

FinishCancel(b) ==
    /\ drop[b].kind = "cancel"
    /\ drop[b].todo = {}
    /\ bstate' = [bstate EXCEPT ![b] = "cancelled"]
    /\ status' = [q \in Runs |-> IF q \in RunsOf(b) THEN "cancelled" ELSE status[q]]
    /\ drop'   = [drop EXCEPT ![b] = NoDrop]
    /\ UNCHANGED <<ledger, nruns, owner, seen, published>>

\* Mutant: no foreign keys.
RecordAlwaysDeletable(b) == b \in Batches

\* delete_batch_record removes the run rows; current facts, history rows and
\* publications reference them.
RecordDeletable(b) ==
    /\ \A g \in Grains : facts[g] \notin RunsOf(b)
    /\ \A h \in history : h.by \notin RunsOf(b)
    /\ RunsOf(b) \cap published = {}

FinishDelete(b) ==
    /\ drop[b].kind = "delete"
    /\ drop[b].todo = {}
    /\ RecordDeletable(b)
    /\ bstate' = [bstate EXCEPT ![b] = "deleted"]
    /\ status' = [q \in Runs |-> IF q \in RunsOf(b) THEN "deleted" ELSE status[q]]
    /\ drop'   = [drop EXCEPT ![b] = NoDrop]
    /\ UNCHANGED <<ledger, nruns, owner, seen, published>>

Next ==
    \/ \E b \in Batches : \/ StartRun(b) \/ BeginCancel(b) \/ BeginDelete(b)
                          \/ DropInterrupted(b)
                          \/ FinishCancel(b) \/ FinishDelete(b)
    \/ \E b \in Batches, r \in Runs : RevertStep(b, r) \/ RevertRefused(b, r)
    \/ \E r \in Runs : EndRun(r) \/ Publish(r)
    \/ \E r \in Runs, chunk \in SUBSET Grains \ {{}} : UpsertChunk(r, chunk)

Spec == Init /\ [][Next]_vars

----------------------------------------------------------------------------
(* Properties. *)

\* Every variable has the shape the code gives it.
TypeOK ==
    /\ facts     \in [Grains -> Runs \cup {NoRun}]
    /\ history   \subseteq Row
    /\ clock     \in Nat
    /\ nruns     \in 0..MaxRuns
    /\ owner     \in [Runs -> Batches \cup {NoBatch}]
    /\ status    \in [Runs -> {"absent", "running", "succeeded", "failed",
                               "cancelled", "deleted"}]
    /\ seen      \in [Runs -> SUBSET Grains]
    /\ bstate    \in [Batches -> {"open", "cancelling", "cancelled", "deleted"}]
    /\ published \subseteq Runs
    /\ drop      \in [Batches -> [kind : {"none", "cancel", "delete"},
                                  todo : SUBSET Runs]]
    /\ reverted  \subseteq Runs

\* A run supersedes at most one row per grain, however chunks of concurrent
\* runs interleave with reverts: DISTINCT ON (grain) ORDER BY superseded_at
\* in revert_run never has two rows to choose from.
OneSupersessionPerRun ==
    \A h, k \in history : h.grain = k.grain /\ h.by = k.by => h = k

\* No current row and no superseding stamp names a deleted run: the reverts
\* before delete_batch_record leave nothing behind that refers to it.
NoOrphanRows ==
    /\ \A g \in Grains : ~Deleted(facts[g])
    /\ \A h \in history : ~Deleted(h.by)

\* Grains that only runs of one upload ever wrote.
SoleWriter(b, g) == \A r \in Runs : g \in seen[r] => owner[r] = b

\* Cancelling or deleting an upload leaves no trace on the grains that only
\* this upload ever wrote, even when it was reprocessed, interrupted between
\* two reverts and retried.
CleanDrop ==
    \A b \in Batches, g \in Grains :
        bstate[b] \in {"cancelled", "deleted"} /\ SoleWriter(b, g) =>
            facts[g] = NoRun /\ \A h \in history : h.grain # g

\* Reprocessing an upload forgets nothing of what its own earlier runs wrote:
\* however its chunks, interrupted drops and retries interleave, a fact no
\* committed revert named is the current row or a history row.
OwnFactsSurvive ==
    \A r \in Runs \ reverted : \A g \in seen[r] :
        SoleWriter(owner[r], g) =>
            facts[g] = r \/ \E h \in history : h.grain = g /\ h.fact = r

\* The delete of an unpublished upload whose grains no other upload wrote is
\* refused by no foreign key, neither while its runs are reverted, newest
\* first, nor by delete_batch_record at the end.
SoleUploadIsDeletable ==
    \A b \in Batches :
        /\ drop[b].kind = "delete"
        /\ RunsOf(b) \cap published = {}
        /\ \A r \in RunsOf(b) : \A g \in seen[r] : SoleWriter(b, g)
        => /\ \A r \in Runs : NextToRevert(drop[b].todo, r) => RevertAllowed(r)
           /\ drop[b].todo = {} => RecordDeletable(b)

(* What the code's comments and messages say, and two overlapping uploads    *)
(* of one client refute.                                                     *)

\* "A prior fact is never overwritten in place: it is copied to history":
\* a fact some run wrote and nobody reverted is current or in history.
NothingForgotten ==
    \A r \in Runs \ reverted : \A g \in seen[r] :
        facts[g] = r \/ \E h \in history : h.grain = g /\ h.fact = r

\* "Delete it if it was never published": the revert of an unpublished
\* upload that is being deleted is never refused.
UnpublishedIsDeletable ==
    \A b \in Batches, r \in Runs :
        drop[b].kind = "delete" /\ NextToRevert(drop[b].todo, r) =>
            RevertAllowed(r)
=============================================================================
