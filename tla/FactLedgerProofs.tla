-------------------------- MODULE FactLedgerProofs --------------------------
(***************************************************************************)
(* What holds of the fact working set for any number of grains, uploads,   *)
(* runs and workers: typing, one superseding stamp per run and grain, no   *)
(* row left referring to a deleted run; and, on the grains that only one   *)
(* upload wrote, the stack of its facts, which a reprocess does not thin   *)
(* out, a drop clears and no foreign key protects.                         *)
(***************************************************************************)
EXTENDS FactLedger, TLAPS

(* The stamp of a history row is backed by the superseding run's own record *)
(* of the grains it wrote: this is what makes OneSupersessionPerRun         *)
(* inductive.                                                               *)
StampsAreSeen == \A h \in history : h.grain \in seen[h.by]

LedgerInv ==
    /\ TypeOK
    /\ StampsAreSeen
    /\ OneSupersessionPerRun
    /\ NoOrphanRows

(* Runs are numbered as they are created, and belong to an upload from then  *)
(* on.                                                                       *)
RunsAreNumbered ==
    \A r \in Runs : IF r <= nruns THEN owner[r] \in Batches
                    ELSE owner[r] = NoBatch /\ status[r] = "absent" /\ seen[r] = {}

(* A running run is the newest of its upload, and none runs once its upload  *)
(* is cancelled or deleted.                                                  *)
RunningIsNewest == \A r, q \in Runs : status[r] = "running" /\ owner[q] = owner[r] => q <= r
ClosedIsIdle    == \A b \in Batches : bstate[b] \in {"cancelled", "deleted"} => Idle(b)

(* A drop in progress reverts runs of its upload.                            *)
DropsOwnRuns ==
    \A b \in Batches : /\ drop[b].kind = "none" => drop[b] = NoDrop
                       /\ drop[b].todo \subseteq RunsOf(b)

(* The runs that still hold a fact of a grain, current or superseded.        *)
RowsFor(g) == {h \in history : h.grain = g}
Holding(g) == {r \in Runs : facts[g] = r \/ \E h \in RowsFor(g) : h.fact = r}

HoldersAreSeen == \A g \in Grains : \A r \in Holding(g) : g \in seen[r]

(* The facts one upload wrote for a grain are stacked: each but the oldest   *)
(* supersedes an older one, and they were superseded in the order of runs.   *)
Stacked(g) ==
    /\ \A h \in RowsFor(g) : h.fact < h.by /\ h.by \in Holding(g) /\ h.fact < facts[g]
    /\ \A h, k \in RowsFor(g) : h.by < k.by => h.by <= k.fact
    /\ \A n, m \in Holding(g) : n < m => \E h \in RowsFor(g) : h.by = m

(* Of the grains only one upload wrote.                                      *)
SoleGrain(b, g) ==
    /\ Stacked(g)
    /\ \A r \in Runs \ reverted : g \in seen[r] => r \in Holding(g)
    /\ drop[b] # NoDrop => Holding(g) \subseteq drop[b].todo
    /\ bstate[b] \in {"cancelled", "deleted"} => Holding(g) = {}

SoleGrains == \A b \in Batches, g \in Grains : SoleWriter(b, g) => SoleGrain(b, g)

StackInv ==
    /\ RunsAreNumbered /\ RunningIsNewest /\ ClosedIsIdle /\ DropsOwnRuns
    /\ HoldersAreSeen /\ SoleGrains

-----------------------------------------------------------------------------
(* Lemmas on the writes. *)

(* The run id 0 stands for "no row" and is not a run: engine.py's run ids   *)
(* never collide with the absence of a current row.                         *)
LEMMA NoRunIsNotARun == NoRun \notin Runs
BY LedgerConstants DEF NoRun, Runs

(* What upsert writes to history are rows of the table, stamped by the      *)
(* upserting run for grains of its chunk.                                   *)
LEMMA SupersededRows ==
    ASSUME TypeOK, NEW r \in Runs, NEW chunk \in SUBSET Grains,
           NEW h \in Superseded(chunk, r)
    PROVE  h \in Row /\ h.by = r /\ h.grain \in chunk /\ h.fact = facts[h.grain]
<1>1. PICK g \in Restated(chunk, r) :
          h = [grain |-> g, fact |-> facts[g], by |-> r, at |-> clock]
  BY DEF Superseded
<1>2. g \in chunk /\ g \in Grains /\ facts[g] # NoRun
  BY <1>1 DEF Restated
<1>3. facts[g] \in Runs
  BY <1>2 DEF TypeOK
<1> QED
  BY <1>1, <1>2, <1>3 DEF TypeOK, Row

(* Two superseded rows of one chunk that name the same grain are the same   *)
(* row: the chunk is a set of grains (engine.py's seen set).                *)
LEMMA SupersededUnique ==
    ASSUME TypeOK, NEW r \in Runs, NEW chunk \in SUBSET Grains,
           NEW h \in Superseded(chunk, r), NEW k \in Superseded(chunk, r),
           h.grain = k.grain
    PROVE  h = k
BY DEF Superseded, Restated

(* With one stamp per run and grain, the row a revert of r restores for g    *)
(* is the only candidate: DISTINCT ON ... ORDER BY superseded_at has no     *)
(* choice to make.                                                          *)
LEMMA LatestIsTheOnlyRow ==
    ASSUME OneSupersessionPerRun, NEW g \in Grains, NEW r \in Runs,
           TypeOK, Restores(g, r)
    PROVE  /\ Latest(g, r) \in history
           /\ Latest(g, r).by = r
           /\ Latest(g, r).grain = g
<1>1. PICK h \in RowsBy(r) : h.grain = g
  BY DEF Restores
<1>2. h \in history /\ h.by = r
  BY <1>1 DEF RowsBy
<1>3. ASSUME NEW k \in RowsBy(r), k.grain = h.grain
      PROVE  k.at <= h.at
  <2>1. k \in history /\ k.by = r
    BY <1>3 DEF RowsBy
  <2>2. k = h
    BY <1>2, <1>3, <2>1 DEF OneSupersessionPerRun
  <2>3. h.at \in Nat
    BY <1>2 DEF TypeOK, Row
  <2> QED
    BY <2>2, <2>3
<1>4. IsLatest(h, r)
  BY <1>3 DEF IsLatest
<1>5. Latest(g, r) \in RowsBy(r) /\ Latest(g, r).grain = g
  BY <1>1, <1>4 DEF Latest
<1> QED
  BY <1>5 DEF RowsBy

(* A revert leaves in each current row a run or nothing.                    *)
LEMMA RestoredFactType ==
    ASSUME TypeOK, OneSupersessionPerRun, NEW g \in Grains, NEW r \in Runs
    PROVE  RestoredFact(g, r) \in Runs \cup {NoRun}
<1>1. CASE Restores(g, r)
  <2>1. Latest(g, r) \in history
    BY <1>1, LatestIsTheOnlyRow
  <2>2. Latest(g, r).fact \in Runs
    BY <2>1 DEF TypeOK, Row
  <2> QED
    BY <1>1, <2>2 DEF RestoredFact
<1>2. CASE ~Restores(g, r)
  BY <1>2 DEF RestoredFact, TypeOK
<1> QED
  BY <1>1, <1>2

-----------------------------------------------------------------------------
(* Typing. *)

LEMMA InitInv == Init => LedgerInv
<1> SUFFICES ASSUME Init PROVE LedgerInv
  OBVIOUS
<1>1. TypeOK
  BY LedgerConstants DEF Init, TypeOK, NoDrop, Row
<1>2. StampsAreSeen /\ OneSupersessionPerRun
  BY DEF Init, StampsAreSeen, OneSupersessionPerRun
<1>3. NoOrphanRows
  BY DEF Init, NoOrphanRows, Deleted
<1> QED
  BY <1>1, <1>2, <1>3 DEF LedgerInv

LEMMA StepTypeOK ==
    ASSUME TypeOK, OneSupersessionPerRun, [Next]_vars
    PROVE  TypeOK'
<1> USE LedgerConstants DEF TypeOK
<1>1. ASSUME NEW b \in Batches, StartRun(b)
      PROVE  TypeOK'
  <2>1. nruns' \in Runs /\ nruns' \in 0..MaxRuns
    BY <1>1 DEF StartRun, Runs
  <2> QED
    BY <1>1, <2>1 DEF StartRun, ledger
<1>2. ASSUME NEW r \in Runs, NEW chunk \in SUBSET Grains, UpsertChunk(r, chunk)
      PROVE  TypeOK'
  <2>1. history' \subseteq Row
    BY <1>2, SupersededRows DEF UpsertChunk, UpsertMany
  <2>2. facts' \in [Grains -> Runs \cup {NoRun}]
    BY <1>2 DEF UpsertChunk, UpsertMany
  <2>3. clock' \in Nat /\ reverted' \subseteq Runs
    BY <1>2 DEF UpsertChunk, UpsertMany
  <2>4. seen' \in [Runs -> SUBSET Grains]
    BY <1>2 DEF UpsertChunk
  <2> QED
    BY <1>2, <2>1, <2>2, <2>3, <2>4 DEF UpsertChunk
<1>3. ASSUME NEW r \in Runs, EndRun(r)
      PROVE  TypeOK'
  BY <1>3 DEF EndRun, ledger
<1>4. ASSUME NEW r \in Runs, Publish(r)
      PROVE  TypeOK'
  BY <1>4 DEF Publish, ledger
<1>5. ASSUME NEW b \in Batches, BeginCancel(b)
      PROVE  TypeOK'
  BY <1>5 DEF BeginCancel, ledger, registry, RunsOf
<1>6. ASSUME NEW b \in Batches, BeginDelete(b)
      PROVE  TypeOK'
  BY <1>6 DEF BeginDelete, ledger, registry, RunsOf
<1>7. ASSUME NEW b \in Batches, NEW r \in Runs, RevertStep(b, r)
      PROVE  TypeOK'
  <2>1. facts' \in [Grains -> Runs \cup {NoRun}]
    BY <1>7, RestoredFactType DEF RevertStep, RevertRun
  <2>2. history' \subseteq Row /\ reverted' \subseteq Runs /\ clock' \in Nat
    BY <1>7 DEF RevertStep, RevertRun
  <2>3. drop' \in [Batches -> [kind : {"none", "cancel", "delete"},
                               todo : SUBSET Runs]]
    BY <1>7 DEF RevertStep
  <2> QED
    BY <1>7, <2>1, <2>2, <2>3 DEF RevertStep, registry
<1>8. ASSUME NEW b \in Batches, NEW r \in Runs, RevertRefused(b, r)
      PROVE  TypeOK'
  BY <1>8 DEF RevertRefused, ledger, NoDrop
<1>9. ASSUME NEW b \in Batches, DropInterrupted(b)
      PROVE  TypeOK'
  BY <1>9 DEF DropInterrupted, ledger, NoDrop
<1>10. ASSUME NEW b \in Batches, FinishCancel(b)
       PROVE  TypeOK'
  BY <1>10 DEF FinishCancel, ledger, NoDrop
<1>11. ASSUME NEW b \in Batches, FinishDelete(b)
       PROVE  TypeOK'
  BY <1>11 DEF FinishDelete, ledger, NoDrop
<1>12. CASE UNCHANGED vars
  BY <1>12 DEF vars
<1> QED
  BY <1>1, <1>2, <1>3, <1>4, <1>5, <1>6, <1>7, <1>8, <1>9, <1>10, <1>11, <1>12
  DEF Next

-----------------------------------------------------------------------------
(* The history rows and the current rows, step by step. *)

(* Only three kinds of step touch the fact tables.                          *)
LEMMA LedgerWriters ==
    ASSUME [Next]_vars
    PROVE  \/ UNCHANGED <<facts, history>>
           \/ \E r \in Runs, chunk \in SUBSET Grains : UpsertChunk(r, chunk)
           \/ \E b \in Batches, r \in Runs : RevertStep(b, r)
<1>1. CASE UNCHANGED vars
  BY <1>1 DEF vars
<1>2. CASE Next
  BY <1>2 DEF Next, StartRun, BeginCancel, BeginDelete, DropInterrupted,
      FinishCancel, FinishDelete, RevertRefused, EndRun, Publish, ledger
<1> QED
  BY <1>1, <1>2

(* A run's set of written grains only grows.                                *)
LEMMA SeenGrows ==
    ASSUME TypeOK, [Next]_vars, NEW r \in Runs
    PROVE  seen[r] \subseteq seen'[r]
<1>1. CASE UNCHANGED vars
  BY <1>1 DEF vars
<1>2. ASSUME NEW q \in Runs, NEW chunk \in SUBSET Grains, UpsertChunk(q, chunk)
      PROVE  seen[r] \subseteq seen'[r]
  BY <1>2 DEF UpsertChunk, TypeOK
<1>3. CASE UNCHANGED seen
  BY <1>3
<1> QED
  BY <1>1, <1>2, <1>3 DEF Next, StartRun, BeginCancel, BeginDelete,
     DropInterrupted, FinishCancel, FinishDelete, RevertStep, RevertRefused,
     EndRun, Publish, registry

LEMMA StepHistory ==
    ASSUME LedgerInv, [Next]_vars
    PROVE  StampsAreSeen' /\ OneSupersessionPerRun'
<1>1. CASE UNCHANGED <<facts, history>>
  <2>1. \A h \in history : h.by \in Runs
    BY DEF LedgerInv, TypeOK, Row
  <2> QED
    BY <1>1, <2>1, SeenGrows
    DEF LedgerInv, StampsAreSeen, OneSupersessionPerRun
<1>2. ASSUME NEW r \in Runs, NEW chunk \in SUBSET Grains, UpsertChunk(r, chunk)
      PROVE  StampsAreSeen' /\ OneSupersessionPerRun'
  <2>1. history' = history \cup Superseded(chunk, r)
    BY <1>2 DEF UpsertChunk, UpsertMany
  <2>2. chunk \cap seen[r] = {} /\ chunk \subseteq seen'[r]
    BY <1>2 DEF UpsertChunk, LedgerInv, TypeOK
  <2>3. \A h \in history : h.by \in Runs
    BY DEF LedgerInv, TypeOK, Row
  <2>4. \A h \in Superseded(chunk, r) : h.by = r /\ h.grain \in chunk
    BY SupersededRows DEF LedgerInv
  <2>5. StampsAreSeen'
    BY <2>1, <2>2, <2>3, <2>4, SeenGrows DEF StampsAreSeen, LedgerInv
  <2>6. ASSUME NEW h \in history', NEW k \in history',
               h.grain = k.grain, h.by = k.by
        PROVE  h = k
    <3>1. CASE h \in history /\ k \in history
      BY <2>6, <3>1 DEF LedgerInv, OneSupersessionPerRun
    <3>2. CASE h \in Superseded(chunk, r) /\ k \in Superseded(chunk, r)
      BY <2>6, <3>2, SupersededUnique DEF LedgerInv
    <3>3. CASE h \in history /\ k \in Superseded(chunk, r)
      BY <2>2, <2>4, <2>6, <3>3 DEF LedgerInv, StampsAreSeen
    <3>4. CASE h \in Superseded(chunk, r) /\ k \in history
      BY <2>2, <2>4, <2>6, <3>4 DEF LedgerInv, StampsAreSeen
    <3> QED
      BY <2>1, <3>1, <3>2, <3>3, <3>4
  <2> QED
    BY <2>5, <2>6 DEF OneSupersessionPerRun
<1>3. ASSUME NEW b \in Batches, NEW r \in Runs, RevertStep(b, r)
      PROVE  StampsAreSeen' /\ OneSupersessionPerRun'
  <2>1. history' \subseteq history /\ seen' = seen
    BY <1>3 DEF RevertStep, RevertRun, registry
  <2> QED
    BY <2>1 DEF LedgerInv, StampsAreSeen, OneSupersessionPerRun
<1> QED
  BY <1>1, <1>2, <1>3, LedgerWriters

(* A step that leaves both fact tables alone deletes no run they refer to:  *)
(* delete_batch_record checks it, and no other step deletes one.            *)
LEMMA StepDeletes ==
    ASSUME LedgerInv, [Next]_vars, UNCHANGED <<facts, history>>
    PROVE  NoOrphanRows'
<1> SUFFICES ASSUME NEW r \in Runs, Deleted(r)', ~Deleted(r)
             PROVE  /\ \A g \in Grains : facts[g] # r
                    /\ \A h \in history : h.by # r
  BY NoRunIsNotARun DEF LedgerInv, NoOrphanRows, TypeOK, Row, Deleted
<1>1. ASSUME NEW b \in Batches, FinishDelete(b)
      PROVE  /\ \A g \in Grains : facts[g] # r
             /\ \A h \in history : h.by # r
  BY <1>1 DEF FinishDelete, RecordDeletable, Deleted, LedgerInv, TypeOK
<1>2. ASSUME ~ \E b \in Batches : FinishDelete(b)
      PROVE  FALSE
  <2>1. status[r] # "deleted" /\ status'[r] = "deleted"
    BY NoRunIsNotARun DEF Deleted
  <2>2. CASE UNCHANGED vars
    BY <2>1, <2>2 DEF vars
  <2>3. CASE Next
    BY <1>2, <2>1, <2>3 DEF LedgerInv, TypeOK, Next, StartRun, BeginCancel,
       BeginDelete, DropInterrupted, FinishCancel, RevertStep, RevertRefused,
       EndRun, Publish, UpsertChunk, registry
  <2> QED
    BY <2>2, <2>3
<1> QED
  BY <1>1, <1>2

LEMMA StepNoOrphanRows ==
    ASSUME LedgerInv, [Next]_vars
    PROVE  NoOrphanRows'
<1>1. CASE UNCHANGED <<facts, history>>
  BY <1>1, StepDeletes
<1>2. ASSUME NEW r \in Runs, NEW chunk \in SUBSET Grains, UpsertChunk(r, chunk)
      PROVE  NoOrphanRows'
  <2>1. status' = status /\ ~Deleted(r)
    BY <1>2 DEF UpsertChunk, Deleted
  <2>2. \A q : Deleted(q)' <=> Deleted(q)
    BY <2>1 DEF Deleted
  <2>3. \A g \in Grains : facts'[g] = r \/ facts'[g] = facts[g]
    BY <1>2 DEF UpsertChunk, UpsertMany
  <2>4. \A h \in history' : h \in history \/ h.by = r
    BY <1>2, SupersededRows DEF UpsertChunk, UpsertMany, LedgerInv
  <2> QED
    BY <2>1, <2>2, <2>3, <2>4 DEF LedgerInv, NoOrphanRows
<1>3. ASSUME NEW b \in Batches, NEW r \in Runs, RevertStep(b, r)
      PROVE  NoOrphanRows'
  <2>1. \A q : Deleted(q)' <=> Deleted(q)
    BY <1>3 DEF RevertStep, registry, Deleted
  <2>2. \A g \in Grains : facts'[g] = NoRun \/ facts'[g] = RestoredFact(g, r)
    BY <1>3 DEF RevertStep, RevertRun
  <2>3. \A g \in Grains : ~Deleted(RestoredFact(g, r))
    BY <1>3 DEF RevertStep, RevertAllowed
  <2>4. history' \subseteq history
    BY <1>3 DEF RevertStep, RevertRun
  <2>5. ~Deleted(NoRun)
    BY DEF Deleted
  <2> QED
    BY <2>1, <2>2, <2>3, <2>4, <2>5 DEF LedgerInv, NoOrphanRows
<1> QED
  BY <1>1, <1>2, <1>3, LedgerWriters

-----------------------------------------------------------------------------
(* The inductive invariant and what follows from it. *)

(* Every reachable state of the fact tables satisfies the invariant.        *)
THEOREM LedgerInvariant == Spec => []LedgerInv
<1>1. Init => LedgerInv
  BY InitInv
<1>2. LedgerInv /\ [Next]_vars => LedgerInv'
  BY StepTypeOK, StepHistory, StepNoOrphanRows DEF LedgerInv
<1> QED
  BY <1>1, <1>2, PTL DEF Spec

(* The tables keep their shape: in particular the row a revert restores is  *)
(* always a row of a run.                                                   *)
THEOREM TypeCorrect == Spec => []TypeOK
BY LedgerInvariant, PTL DEF LedgerInv

(* However many runs transform overlapping grains at the same time, and     *)
(* whichever of them are reverted in between, no run stamps two history     *)
(* rows of one grain.                                                       *)
THEOREM OneStamp == Spec => []OneSupersessionPerRun
BY LedgerInvariant, PTL DEF LedgerInv

(* No current row and no stamp refers to a run that delete_batch_record     *)
(* removed.                                                                 *)
THEOREM NoOrphans == Spec => []NoOrphanRows
BY LedgerInvariant, PTL DEF LedgerInv
-----------------------------------------------------------------------------
(* The facts of one upload. *)

(* Runs and drops are numbered and owned as they begin.                     *)
LEMMA StackStart == Init => StackInv
<1> SUFFICES ASSUME Init PROVE StackInv
  OBVIOUS
<1>1. \A r \in Runs : r \in Nat /\ r > 0
  BY LedgerConstants DEF Runs
<1>2. RunsAreNumbered /\ RunningIsNewest /\ ClosedIsIdle
  BY <1>1 DEF Init, RunsAreNumbered, RunningIsNewest, ClosedIsIdle
<1>3. DropsOwnRuns
  BY DEF Init, DropsOwnRuns, NoDrop
<1>4. \A g \in Grains : Holding(g) = {} /\ RowsFor(g) = {}
  BY NoRunIsNotARun DEF Init, Holding, RowsFor
<1>5. HoldersAreSeen
  BY <1>4 DEF HoldersAreSeen
<1>6. SoleGrains
  BY <1>4 DEF Init, SoleGrains, SoleGrain, Stacked
<1> QED
  BY <1>2, <1>3, <1>5, <1>6 DEF StackInv

(* A run that exists keeps its owner.                                       *)
LEMMA OwnersLast ==
    ASSUME LedgerInv, StackInv, [Next]_vars
    PROVE  /\ \A r \in Runs : owner[r] # NoBatch => owner'[r] = owner[r]
           /\ \A b \in Batches : RunsOf(b) \subseteq RunsOf(b)'
<1>1. \A r \in Runs : owner[r] # NoBatch => owner'[r] = owner[r]
  <2>1. ASSUME NEW b \in Batches, StartRun(b), NEW r \in Runs, owner[r] # NoBatch
        PROVE  owner'[r] = owner[r]
    <3>1. r <= nruns /\ r \in Nat /\ nruns \in Nat
      BY <2>1, LedgerConstants DEF StackInv, RunsAreNumbered, Runs, LedgerInv, TypeOK
    <3> QED
      BY <2>1, <3>1 DEF StartRun, LedgerInv, TypeOK
  <2>2. CASE UNCHANGED owner
    BY <2>2
  <2> QED
    BY <2>1, <2>2 DEF Next, vars, BeginCancel, BeginDelete, DropInterrupted, FinishCancel,
       FinishDelete, RevertStep, RevertRefused, EndRun, Publish, UpsertChunk, registry
<1> QED
  BY <1>1, NoBatchIsNoBatch DEF RunsOf

(* Runs stay numbered, the running one the newest of its upload.            *)
LEMMA StepNumbered ==
    ASSUME LedgerInv, StackInv, [Next]_vars
    PROVE  RunsAreNumbered' /\ RunningIsNewest' /\ ClosedIsIdle'
<1> USE NoBatchIsNoBatch DEF StackInv
<1>1. CASE UNCHANGED <<nruns, owner, status, seen, bstate>>
  BY <1>1 DEF RunsAreNumbered, RunningIsNewest, ClosedIsIdle, Idle, RunsOf
<1>2. ASSUME NEW b \in Batches, StartRun(b)
      PROVE  RunsAreNumbered' /\ RunningIsNewest' /\ ClosedIsIdle'
  <2>1. PICK n \in Runs : n = nruns + 1 /\ nruns' = n /\ nruns \in Nat
    BY <1>2, LedgerConstants DEF StartRun, Runs, LedgerInv, TypeOK
  <2>2. /\ owner' = [owner EXCEPT ![n] = b] /\ status' = [status EXCEPT ![n] = "running"]
        /\ seen' = seen /\ bstate' = bstate /\ bstate[b] = "open" /\ Idle(b)
    BY <1>2, <2>1 DEF StartRun
  <2>3. \A r \in Runs : /\ r \in Nat
                        /\ owner'[r] = IF r = n THEN b ELSE owner[r]
                        /\ status'[r] = IF r = n THEN "running" ELSE status[r]
    BY <2>2, LedgerConstants DEF Runs, LedgerInv, TypeOK
  <2>4. \A r \in Runs : (r <= n <=> r <= nruns \/ r = n) /\ ~(n <= nruns)
    BY <2>1, <2>3
  <2>5. RunsAreNumbered'
    BY <2>1, <2>2, <2>3, <2>4 DEF RunsAreNumbered
  <2>6. RunningIsNewest'
    <3> SUFFICES ASSUME NEW r \in Runs, NEW q \in Runs, status'[r] = "running", owner'[q] = owner'[r]
                 PROVE  q <= r
      BY DEF RunningIsNewest
    <3>1. CASE r = n
      BY <2>1, <2>3, <2>4, <3>1 DEF RunsAreNumbered
    <3>2. CASE r # n /\ q # n
      BY <2>3, <3>2 DEF RunningIsNewest
    <3>3. CASE r # n /\ q = n
      BY <2>2, <2>3, <3>3 DEF Idle, RunsOf
    <3> QED
      BY <3>1, <3>2, <3>3
  <2>7. ClosedIsIdle'
    BY <2>2, <2>3 DEF ClosedIsIdle, Idle, RunsOf
  <2> QED
    BY <2>5, <2>6, <2>7
<1>3. ASSUME UNCHANGED <<nruns, owner, seen>>,
             \A r \in Runs : status'[r] = "running" => status[r] = "running",
             \A r \in Runs : status[r] = "absent" /\ owner[r] = NoBatch => status'[r] = "absent",
             \A b \in Batches : bstate'[b] \in {"cancelled", "deleted"} =>
                 bstate[b] \in {"cancelled", "deleted"} \/ \A r \in RunsOf(b) : status'[r] # "running"
      PROVE  RunsAreNumbered' /\ RunningIsNewest' /\ ClosedIsIdle'
  BY <1>3 DEF RunsAreNumbered, RunningIsNewest, ClosedIsIdle, Idle, RunsOf
<1>4. ASSUME NEW r \in Runs, NEW chunk \in SUBSET Grains, UpsertChunk(r, chunk)
      PROVE  RunsAreNumbered' /\ RunningIsNewest' /\ ClosedIsIdle'
  <2>1. UNCHANGED <<nruns, owner, status, bstate>> /\ status[r] = "running"
        /\ \A q \in Runs : q # r => seen'[q] = seen[q]
    BY <1>4 DEF UpsertChunk, LedgerInv, TypeOK
  <2>2. RunsAreNumbered'
    BY <2>1 DEF RunsAreNumbered
  <2> QED
    BY <2>1, <2>2 DEF RunningIsNewest, ClosedIsIdle, Idle, RunsOf
<1>5. ASSUME NEW r \in Runs, EndRun(r)
      PROVE  RunsAreNumbered' /\ RunningIsNewest' /\ ClosedIsIdle'
  BY <1>3, <1>5 DEF EndRun, LedgerInv, TypeOK
<1>6. ASSUME NEW b \in Batches, BeginCancel(b)
      PROVE  RunsAreNumbered' /\ RunningIsNewest' /\ ClosedIsIdle'
  BY <1>3, <1>6 DEF BeginCancel, LedgerInv, TypeOK, registry
<1>7. ASSUME NEW b \in Batches,
             DropInterrupted(b) \/ \E r \in Runs : RevertRefused(b, r)
      PROVE  RunsAreNumbered' /\ RunningIsNewest' /\ ClosedIsIdle'
  BY <1>3, <1>7 DEF DropInterrupted, RevertRefused, LedgerInv, TypeOK
<1>8. ASSUME NEW b \in Batches, FinishCancel(b) \/ FinishDelete(b)
      PROVE  RunsAreNumbered' /\ RunningIsNewest' /\ ClosedIsIdle'
  <2>1. /\ UNCHANGED <<nruns, owner, seen>>
        /\ \A r \in Runs : /\ r \in RunsOf(b) => status'[r] \in {"cancelled", "deleted"}
                           /\ r \notin RunsOf(b) => status'[r] = status[r]
        /\ \A c \in Batches : c # b => bstate'[c] = bstate[c]
    BY <1>8 DEF FinishCancel, FinishDelete, LedgerInv, TypeOK
  <2> QED
    BY <1>3, <2>1 DEF RunsOf
<1> QED
  BY <1>1, <1>2, <1>4, <1>5, <1>6, <1>7, <1>8
  DEF Next, vars, BeginDelete, RevertStep, Publish, registry

(* A drop only ever has runs of its upload to revert.                       *)
LEMMA StepDrops ==
    ASSUME LedgerInv, StackInv, [Next]_vars
    PROVE  DropsOwnRuns'
<1>1. \A b \in Batches : RunsOf(b) \subseteq RunsOf(b)'
  BY OwnersLast
<1>2. ASSUME NEW b \in Batches
      PROVE  \/ drop'[b] = drop[b]
             \/ drop'[b] = NoDrop
             \/ drop'[b].kind # "none" /\ drop'[b].todo \subseteq RunsOf(b)
  <2>1. drop[b].todo \subseteq RunsOf(b)
    BY DEF StackInv, DropsOwnRuns
  <2>2. ASSUME NEW c \in Batches, BeginCancel(c) \/ BeginDelete(c)
        PROVE  \/ drop'[b] = drop[b]
               \/ drop'[b].kind # "none" /\ drop'[b].todo \subseteq RunsOf(b)
    BY <2>2 DEF BeginCancel, BeginDelete, LedgerInv, TypeOK
  <2>3. ASSUME NEW c \in Batches, NEW r \in Runs, RevertStep(c, r)
        PROVE  \/ drop'[b] = drop[b]
               \/ drop'[b].kind # "none" /\ drop'[b].todo \subseteq RunsOf(b)
    <3>1. drop[c].kind # "none"
      BY <2>3 DEF RevertStep, NextToRevert, StackInv, DropsOwnRuns, NoDrop
    <3> QED
      BY <2>1, <2>3, <3>1 DEF RevertStep, LedgerInv, TypeOK
  <2>4. ASSUME NEW c \in Batches,
               \/ DropInterrupted(c) \/ FinishCancel(c) \/ FinishDelete(c)
               \/ \E r \in Runs : RevertRefused(c, r)
        PROVE  drop'[b] = drop[b] \/ drop'[b] = NoDrop
    BY <2>4 DEF DropInterrupted, FinishCancel, FinishDelete, RevertRefused, LedgerInv, TypeOK
  <2> QED
    BY <2>2, <2>3, <2>4 DEF Next, vars, StartRun, EndRun, Publish, UpsertChunk
<1>3. NoDrop.todo = {}
  BY DEF NoDrop
<1> QED
  BY <1>1, <1>2, <1>3 DEF StackInv, DropsOwnRuns

(* A grain only one upload wrote was written by no other before.            *)
LEMMA SoleBefore ==
    ASSUME LedgerInv, StackInv, [Next]_vars, NEW b \in Batches, NEW g \in Grains, SoleWriter(b, g)'
    PROVE  SoleWriter(b, g)
<1> SUFFICES ASSUME NEW r \in Runs, g \in seen[r]
             PROVE  owner[r] = b
  BY DEF SoleWriter
<1>1. g \in seen'[r]
  BY SeenGrows DEF LedgerInv
<1>2. owner[r] # NoBatch
  BY NoBatchIsNoBatch DEF StackInv, RunsAreNumbered
<1> QED
  BY <1>1, <1>2, OwnersLast DEF SoleWriter

(* The runs that hold a fact of such a grain are of the upload.             *)
LEMMA HoldersAreOwn ==
    ASSUME StackInv, NEW b \in Batches, NEW g \in Grains, SoleWriter(b, g)
    PROVE  Holding(g) \subseteq RunsOf(b)
BY DEF StackInv, HoldersAreSeen, SoleWriter, RunsOf, Holding

(* A step that writes no fact begins drops with all the runs of the upload, *)
(* and closes an upload only when its drop has nothing left.                *)
LEMMA QuietStep ==
    ASSUME LedgerInv, StackInv, [Next]_vars, UNCHANGED <<facts, history, seen, reverted>>,
           \A c \in Batches, r \in Runs : ~RevertStep(c, r)
    PROVE  HoldersAreSeen' /\ SoleGrains'
<1>1. \A g \in Grains : Holding(g)' = Holding(g) /\ RowsFor(g)' = RowsFor(g)
  BY DEF Holding, RowsFor
<1>2. HoldersAreSeen'
  BY <1>1 DEF StackInv, HoldersAreSeen
<1>3. ASSUME NEW b \in Batches
      PROVE  /\ \/ drop'[b] = drop[b] \/ drop'[b] = NoDrop \/ drop'[b].todo = RunsOf(b)
             /\ \/ bstate'[b] \notin {"cancelled", "deleted"} \/ bstate'[b] = bstate[b]
                \/ drop[b] # NoDrop /\ drop[b].todo = {}
  <2>1. ASSUME NEW c \in Batches, BeginCancel(c) \/ BeginDelete(c)
        PROVE  /\ drop'[b] = drop[b] \/ drop'[b].todo = RunsOf(b)
               /\ bstate'[b] = bstate[b] \/ bstate'[b] \notin {"cancelled", "deleted"}
    BY <2>1 DEF BeginCancel, BeginDelete, LedgerInv, TypeOK
  <2>2. ASSUME NEW c \in Batches, FinishCancel(c) \/ FinishDelete(c)
        PROVE  /\ drop'[b] = drop[b] \/ drop'[b] = NoDrop
               /\ \/ bstate'[b] = bstate[b]
                  \/ drop[b] # NoDrop /\ drop[b].todo = {}
    <3>1. drop[c].kind # "none" /\ drop[c].todo = {} /\ NoDrop.kind = "none"
      BY <2>2 DEF FinishCancel, FinishDelete, NoDrop
    <3>2. drop[c] # NoDrop
      BY <3>1
    <3>3. /\ drop' = [drop EXCEPT ![c] = NoDrop]
          /\ \A d \in Batches : d # c => bstate'[d] = bstate[d]
      BY <2>2 DEF FinishCancel, FinishDelete, LedgerInv, TypeOK
    <3>4. drop'[b] = drop[b] \/ drop'[b] = NoDrop
      BY <3>3 DEF LedgerInv, TypeOK
    <3> QED
      BY <3>1, <3>2, <3>3, <3>4
  <2>3. ASSUME NEW c \in Batches, DropInterrupted(c) \/ \E r \in Runs : RevertRefused(c, r)
        PROVE  /\ drop'[b] = drop[b] \/ drop'[b] = NoDrop
               /\ bstate'[b] = bstate[b]
    BY <2>3 DEF DropInterrupted, RevertRefused, LedgerInv, TypeOK
  <2> QED
    BY <2>1, <2>2, <2>3 DEF Next, vars, StartRun, EndRun, Publish, UpsertChunk
<1>4. ASSUME NEW b \in Batches, NEW g \in Grains, SoleWriter(b, g)'
      PROVE  SoleGrain(b, g)'
  <2>1. SoleWriter(b, g)
    BY <1>4, SoleBefore
  <2>2. SoleGrain(b, g) /\ Holding(g) \subseteq RunsOf(b)
    BY <2>1, HoldersAreOwn DEF StackInv, SoleGrains
  <2>3. Stacked(g)'
    BY <1>1, <2>2 DEF SoleGrain, Stacked
  <2>4. drop'[b] # NoDrop => Holding(g) \subseteq drop'[b].todo
    BY <1>3, <2>2 DEF SoleGrain
  <2>5. bstate'[b] \in {"cancelled", "deleted"} => Holding(g) = {}
    BY <1>3, <2>2 DEF SoleGrain
  <2> QED
    BY <1>1, <2>2, <2>3, <2>4, <2>5 DEF SoleGrain
<1> QED
  BY <1>2, <1>4 DEF SoleGrains

(* A chunk puts the facts of its run on top of those they supersede.        *)
LEMMA UpsertStacks ==
    ASSUME LedgerInv, StackInv, [Next]_vars,
           NEW r \in Runs, NEW chunk \in SUBSET Grains, UpsertChunk(r, chunk)
    PROVE  HoldersAreSeen' /\ SoleGrains'
<1>1. /\ history' = history \cup Superseded(chunk, r)
      /\ facts' = [g \in Grains |-> IF g \in chunk THEN r ELSE facts[g]]
      /\ seen' = [seen EXCEPT ![r] = @ \cup chunk] /\ chunk \cap seen[r] = {}
      /\ status[r] = "running" /\ drop[owner[r]] = NoDrop
      /\ UNCHANGED <<owner, bstate, drop, reverted>>
  BY DEF UpsertChunk, UpsertMany
<1>2. /\ facts \in [Grains -> Runs \cup {NoRun}] /\ seen \in [Runs -> SUBSET Grains] /\ history \subseteq Row
      /\ NoRun \notin Runs /\ \A q \in Runs : q \in Nat
  BY NoRunIsNotARun, LedgerConstants DEF LedgerInv, TypeOK, Runs
<1>3. ASSUME NEW g \in Grains, g \notin chunk
      PROVE  facts'[g] = facts[g] /\ RowsFor(g)' = RowsFor(g) /\ Holding(g)' = Holding(g)
  <2>1. facts'[g] = facts[g]
    BY <1>1, <1>3
  <2>2. RowsFor(g)' = RowsFor(g)
    BY <1>1, <1>3, SupersededRows DEF RowsFor, LedgerInv
  <2> QED
    BY <2>1, <2>2 DEF Holding
<1>4. ASSUME NEW g \in chunk, facts[g] \in {NoRun, r}
      PROVE  RowsFor(g)' = RowsFor(g) /\ facts'[g] = r /\ g \in Grains
  <2>1. \A h \in Superseded(chunk, r) : h.grain # g
    BY <1>4 DEF Superseded, Restated
  <2> QED
    BY <1>1, <2>1 DEF RowsFor
<1>5. ASSUME NEW g \in chunk, facts[g] \notin {NoRun, r}
      PROVE  \E h : /\ RowsFor(g)' = RowsFor(g) \cup {h} /\ facts'[g] = r /\ g \in Grains
                    /\ h.grain = g /\ h.fact = facts[g] /\ h.by = r
  <2>1. PICK h : h = [grain |-> g, fact |-> facts[g], by |-> r, at |-> clock]
    OBVIOUS
  <2>2. g \in Restated(chunk, r)
    BY <1>5 DEF Restated
  <2>3. \A k \in Superseded(chunk, r) : k.grain = g <=> k = h
    BY <2>1 DEF Superseded
  <2>4. h \in Superseded(chunk, r)
    BY <2>1, <2>2 DEF Superseded
  <2>5. RowsFor(g)' = RowsFor(g) \cup {h}
    BY <1>1, <2>1, <2>3, <2>4 DEF RowsFor
  <2>6. h.grain = g /\ h.fact = facts[g] /\ h.by = r /\ facts'[g] = r
    BY <1>1, <2>1
  <2> QED
    BY <2>5, <2>6
<1>6. ASSUME NEW g \in Grains
      PROVE  Holding(g)' \subseteq Holding(g) \cup {r}
  <2>1. CASE g \notin chunk
    BY <1>3, <2>1
  <2>2. CASE g \in chunk /\ facts[g] \in {NoRun, r}
    BY <1>4, <2>2 DEF Holding
  <2>3. CASE g \in chunk /\ facts[g] \notin {NoRun, r}
    BY <1>5, <2>3 DEF Holding
  <2> QED
    BY <2>1, <2>2, <2>3
<1>7. HoldersAreSeen'
  <2> SUFFICES ASSUME NEW g \in Grains, NEW q \in Holding(g)'
               PROVE  g \in seen'[q]
    BY DEF HoldersAreSeen
  <2>1. CASE g \notin chunk
    BY <1>1, <1>2, <1>3, <2>1 DEF StackInv, HoldersAreSeen, Holding
  <2>2. CASE g \in chunk
    BY <1>1, <1>2, <1>6, <2>2 DEF StackInv, HoldersAreSeen, Holding
  <2> QED
    BY <2>1, <2>2
<1>8. ASSUME NEW b \in Batches, NEW g \in Grains, SoleWriter(b, g)', g \notin chunk
      PROVE  SoleGrain(b, g)'
  <2>1. SoleGrain(b, g)
    BY <1>8, SoleBefore DEF StackInv, SoleGrains
  <2>2. \A q \in Runs : g \in seen'[q] => g \in seen[q]
    BY <1>1, <1>2, <1>8
  <2>3. Stacked(g)'
    BY <1>3, <1>8, <2>1 DEF SoleGrain, Stacked
  <2> QED
    BY <1>1, <1>3, <1>8, <2>1, <2>2, <2>3 DEF SoleGrain
<1>9. ASSUME NEW b \in Batches, NEW g \in chunk, SoleWriter(b, g)'
      PROVE  SoleGrain(b, g)'
  <2>1. g \in Grains /\ SoleWriter(b, g)
    BY <1>9, SoleBefore
  <2>2. SoleGrain(b, g) /\ Holding(g) \subseteq RunsOf(b)
    BY <2>1, HoldersAreOwn DEF StackInv, SoleGrains
  <2>3. owner[r] = b
    BY <1>1, <1>2, <1>9 DEF SoleWriter
  <2>4. \A q \in Holding(g) : q < r
    <3>1. r \notin Holding(g)
      BY <1>1, <1>9, <2>1 DEF StackInv, HoldersAreSeen
    <3>2. \A q \in RunsOf(b) : q <= r
      BY <1>1, <2>3 DEF StackInv, RunningIsNewest, RunsOf
    <3> QED
      BY <1>2, <2>2, <3>1, <3>2 DEF Holding
  <2>5. \A h \in RowsFor(g) : h.fact \in Runs /\ h.by \in Runs /\ h.fact \in Holding(g)
    BY <1>2 DEF RowsFor, Row, Holding
  <2>6. drop'[b] = NoDrop /\ bstate'[b] \notin {"cancelled", "deleted"}
    BY <1>1, <2>3 DEF StackInv, ClosedIsIdle, Idle, RunsOf
  <2>7. facts[g] # r
    BY <1>2, <2>4 DEF Holding
  <2>8. CASE facts[g] = NoRun
    <3>1. RowsFor(g) = {}
      BY <1>2, <2>2, <2>5, <2>8, LedgerConstants DEF SoleGrain, Stacked, NoRun, Runs
    <3>2. RowsFor(g)' = {} /\ facts'[g] = r
      BY <1>4, <2>8, <3>1
    <3>3. Holding(g)' = {r} /\ Holding(g) = {}
      BY <1>2, <2>8, <3>1, <3>2 DEF Holding
    <3>4. Stacked(g)'
      BY <1>2, <3>2, <3>3 DEF Stacked
    <3>5. \A q \in Runs \ reverted : g \in seen'[q] => q \in Holding(g)'
      BY <1>1, <1>2, <2>2, <3>3 DEF SoleGrain
    <3> QED
      BY <1>1, <2>6, <3>4, <3>5 DEF SoleGrain
  <2>9. CASE facts[g] # NoRun
    <3>1. PICK h : /\ RowsFor(g)' = RowsFor(g) \cup {h} /\ facts'[g] = r
                   /\ h.grain = g /\ h.fact = facts[g] /\ h.by = r
      BY <1>5, <2>7, <2>9
    <3>2. facts[g] \in Holding(g) /\ facts[g] \in Runs
      BY <1>2, <2>1, <2>9 DEF Holding
    <3>3. Holding(g)' = Holding(g) \cup {r}
      BY <3>1, <3>2 DEF Holding
    <3>4. \A q \in Holding(g) : q <= facts[g] /\ q < r
      BY <1>2, <2>2, <2>4, <2>5, <3>2 DEF SoleGrain, Stacked, Holding
    <3>5. Stacked(g)'
      <4>1. \A k \in RowsFor(g)' : k.fact < k.by /\ k.by \in Holding(g)' /\ k.fact < facts'[g]
        BY <2>2, <2>4, <2>5, <3>1, <3>2, <3>3 DEF SoleGrain, Stacked
      <4>2. \A k, l \in RowsFor(g)' : k.by < l.by => k.by <= l.fact
        <5> SUFFICES ASSUME NEW k \in RowsFor(g)', NEW l \in RowsFor(g)', k.by < l.by
                     PROVE  k.by <= l.fact
          OBVIOUS
        <5>1. CASE k \in RowsFor(g) /\ l \in RowsFor(g)
          BY <2>2, <5>1 DEF SoleGrain, Stacked
        <5>2. CASE k \in RowsFor(g) /\ l = h
          BY <2>2, <3>1, <3>4, <5>2 DEF SoleGrain, Stacked
        <5>3. CASE k = h
          <6>1. l.by <= r
            BY <1>2, <2>2, <2>4, <2>5, <3>1, <5>3 DEF SoleGrain, Stacked
          <6>2. l.by \in Nat /\ r \in Nat
            BY <1>2, <2>5, <3>1
          <6> QED
            BY <3>1, <5>3, <6>1, <6>2
        <5> QED
          BY <3>1, <5>1, <5>2, <5>3
      <4>3. \A n, m \in Holding(g)' : n < m => \E k \in RowsFor(g)' : k.by = m
        <5> SUFFICES ASSUME NEW n \in Holding(g)', NEW m \in Holding(g)', n < m
                     PROVE  \E k \in RowsFor(g)' : k.by = m
          OBVIOUS
        <5>1. CASE m = r
          BY <3>1, <5>1
        <5>2. CASE m # r /\ n # r
          BY <2>2, <3>1, <3>3, <5>2 DEF SoleGrain, Stacked
        <5>3. CASE m # r /\ n = r
          BY <1>2, <2>4, <3>3, <5>3 DEF Holding
        <5> QED
          BY <5>1, <5>2, <5>3
      <4> QED
        BY <4>1, <4>2, <4>3 DEF Stacked
    <3>6. \A q \in Runs \ reverted : g \in seen'[q] => q \in Holding(g)'
      BY <1>1, <1>2, <2>2, <3>3 DEF SoleGrain
    <3> QED
      BY <1>1, <2>6, <3>5, <3>6 DEF SoleGrain
  <2> QED
    BY <2>8, <2>9
<1> QED
  BY <1>7, <1>8, <1>9 DEF SoleGrains

(* A revert of the newest run left takes its fact off the top of a stack.   *)
LEMMA RevertOfTop ==
    ASSUME LedgerInv, NEW g \in Grains, NEW r \in Runs, Stacked(g), RevertRun(r),
           \A q \in Holding(g) : q <= r
    PROVE  Stacked(g)' /\ Holding(g)' = Holding(g) \ {r}
<1>1. /\ facts \in [Grains -> Runs \cup {NoRun}] /\ history \subseteq Row
      /\ NoRun \notin Runs /\ \A q \in Runs : q \in Nat
  BY NoRunIsNotARun, LedgerConstants DEF LedgerInv, TypeOK, Runs
<1>2. /\ facts'[g] = IF RestoredFact(g, r) = r THEN NoRun ELSE RestoredFact(g, r)
      /\ history' = history \ RowsBy(r)
  BY DEF RevertRun
<1>3. \A h \in RowsFor(g) : /\ h.fact \in Runs /\ h.by \in Runs /\ h.fact \in Holding(g)
                            /\ h \in history /\ h.grain = g
  BY <1>1 DEF RowsFor, Row, Holding
<1>4. RowsFor(g)' = {h \in RowsFor(g) : h.by # r}
  BY <1>2 DEF RowsFor, RowsBy
<1>5. \A q \in Holding(g) : q \in Runs /\ q \in Nat /\ q <= r
  BY <1>1 DEF Holding
<1>6. \A h \in RowsFor(g) : h.fact < r
  BY <1>1, <1>3, <1>5 DEF Stacked
<1>7. CASE r \notin Holding(g)
  <2>1. \A h \in RowsFor(g) : h.by # r
    BY <1>7 DEF Stacked
  <2>2. RestoredFact(g, r) = facts[g] /\ facts[g] # r
    BY <1>7, <2>1 DEF RestoredFact, Restores, RowsBy, RowsFor, Holding
  <2>3. facts'[g] = facts[g] /\ RowsFor(g)' = RowsFor(g)
    BY <1>2, <1>4, <2>1, <2>2
  <2>4. Holding(g)' = Holding(g)
    BY <2>3 DEF Holding
  <2> QED
    BY <1>7, <2>3, <2>4 DEF Stacked
<1>8. CASE r \in Holding(g)
  <2>1. facts[g] = r
    BY <1>6, <1>1, <1>3, <1>8 DEF Holding
  <2>2. CASE \E h \in RowsFor(g) : h.by = r
    <3>1. PICK h \in RowsFor(g) : h.by = r
      BY <2>2
    <3>2. Restores(g, r)
      BY <1>1, <2>1, <3>1 DEF Restores, RowsBy, RowsFor
    <3>3. Latest(g, r) = h
      BY <1>3, <3>1, <3>2, LatestIsTheOnlyRow DEF LedgerInv, OneSupersessionPerRun
    <3>4. facts'[g] = h.fact /\ h.fact < r /\ h.fact \in Runs
      BY <1>1, <1>2, <1>3, <1>6, <3>2, <3>3 DEF RestoredFact
    <3>5. \A k \in RowsFor(g) : k.by = r => k = h
      BY <1>3, <3>1 DEF LedgerInv, OneSupersessionPerRun
    <3>6. \A k \in RowsFor(g)' : /\ k \in RowsFor(g) /\ k # h /\ k.by < r /\ k.by <= h.fact
                                 /\ k.fact < h.fact
      <4> SUFFICES ASSUME NEW k \in RowsFor(g)'
                   PROVE  /\ k \in RowsFor(g) /\ k # h /\ k.by < r /\ k.by <= h.fact
                          /\ k.fact < h.fact
        OBVIOUS
      <4>1. k \in RowsFor(g) /\ k.by # r /\ k # h
        BY <1>4, <3>1
      <4>2. k.by \in Nat /\ k.by <= r /\ r \in Nat
        BY <1>1, <1>5, <4>1 DEF Stacked
      <4>3. k.by < h.by
        BY <3>1, <4>1, <4>2
      <4>4. k.by <= h.fact /\ k.fact < k.by
        BY <3>1, <4>1, <4>3 DEF Stacked
      <4>5. k.fact \in Nat /\ h.fact \in Nat
        BY <1>1, <1>3, <3>1, <4>1
      <4> QED
        BY <3>1, <4>1, <4>2, <4>3, <4>4, <4>5
    <3>7. Holding(g)' = Holding(g) \ {r}
      <4>1. \A q \in Runs : facts'[g] = q \/ (\E k \in RowsFor(g)' : k.fact = q)
                              => q \in Holding(g) /\ q # r
        BY <1>1, <1>3, <1>6, <3>1, <3>4, <3>6 DEF Holding
      <4>2. \A q \in Holding(g) \ {r} : facts'[g] = q \/ \E k \in RowsFor(g)' : k.fact = q
        BY <1>4, <2>1, <3>4, <3>5 DEF Holding
      <4> QED
        BY <4>1, <4>2 DEF Holding
    <3>8. Stacked(g)'
      <4>1. \A k \in RowsFor(g)' : k.fact < k.by /\ k.by \in Holding(g)' /\ k.fact < facts'[g]
        <5> SUFFICES ASSUME NEW k \in RowsFor(g)'
                     PROVE  k.fact < k.by /\ k.by \in Holding(g)' /\ k.fact < facts'[g]
          OBVIOUS
        <5>1. k \in RowsFor(g) /\ k.by # r
          BY <1>4
        <5> QED
          BY <3>4, <3>6, <3>7, <5>1 DEF Stacked
      <4>2. \A k, l \in RowsFor(g)' : k.by < l.by => k.by <= l.fact
        BY <3>6 DEF Stacked
      <4>3. \A n, m \in Holding(g)' : n < m => \E k \in RowsFor(g)' : k.by = m
        BY <1>4, <3>7 DEF Stacked
      <4> QED
        BY <4>1, <4>2, <4>3 DEF Stacked
    <3> QED
      BY <3>7, <3>8
  <2>3. CASE ~ \E h \in RowsFor(g) : h.by = r
    <3>1. RowsFor(g) = {}
      BY <1>3, <1>6, <1>8, <2>3 DEF Stacked
    <3>2. RestoredFact(g, r) = r
      BY <2>1, <2>3 DEF RestoredFact, Restores, RowsBy, RowsFor
    <3>3. facts'[g] = NoRun /\ RowsFor(g)' = {}
      BY <1>2, <1>4, <3>1, <3>2
    <3>4. Holding(g)' = {} /\ Holding(g) = {r}
      BY <1>1, <1>8, <2>1, <3>1, <3>3 DEF Holding
    <3> QED
      BY <3>3, <3>4 DEF Stacked
  <2> QED
    BY <2>2, <2>3
<1> QED
  BY <1>7, <1>8

(* A revert makes no run hold a grain that did not hold it.                 *)
LEMMA RevertHolds ==
    ASSUME LedgerInv, NEW r \in Runs, RevertRun(r), NEW g \in Grains
    PROVE  Holding(g)' \subseteq Holding(g)
<1>1. /\ facts'[g] \in {NoRun, RestoredFact(g, r)} /\ history' \subseteq history
  BY DEF RevertRun
<1>2. RestoredFact(g, r) = facts[g] \/ \E h \in RowsFor(g) : h.fact = RestoredFact(g, r)
  BY LatestIsTheOnlyRow DEF RestoredFact, RowsFor, LedgerInv
<1>3. RowsFor(g)' \subseteq RowsFor(g)
  BY <1>1 DEF RowsFor
<1> QED
  BY <1>1, <1>2, <1>3, NoRunIsNotARun DEF Holding

(* A drop takes the newest run it has left off every grain of its upload.   *)
LEMMA RevertUnstacks ==
    ASSUME LedgerInv, StackInv, [Next]_vars, NEW c \in Batches, NEW r \in Runs, RevertStep(c, r)
    PROVE  HoldersAreSeen' /\ SoleGrains'
<1>1. /\ RevertRun(r) /\ NextToRevert(drop[c].todo, r)
      /\ drop' = [drop EXCEPT ![c].todo = @ \ {r}] /\ reverted' = reverted \cup {r}
      /\ UNCHANGED <<nruns, owner, status, seen, published, bstate>>
  BY DEF RevertStep, RevertRun, registry
<1>2. HoldersAreSeen'
  BY <1>1, RevertHolds DEF StackInv, HoldersAreSeen
<1>3. /\ r \in drop[c].todo /\ drop[c].todo \subseteq RunsOf(c) /\ drop[c] # NoDrop
      /\ \A q \in drop[c].todo : q <= r
  BY <1>1 DEF NextToRevert, NoDrop, StackInv, DropsOwnRuns
<1>4. /\ drop'[c].todo = drop[c].todo \ {r}
      /\ \A b \in Batches : b # c => drop'[b] = drop[b]
  BY <1>1 DEF LedgerInv, TypeOK
<1>5. ASSUME NEW b \in Batches, NEW g \in Grains, SoleWriter(b, g)'
      PROVE  SoleGrain(b, g)'
  <2>1. SoleWriter(b, g)
    BY <1>5, SoleBefore
  <2>2. SoleGrain(b, g) /\ Holding(g) \subseteq RunsOf(b)
    BY <2>1, HoldersAreOwn DEF StackInv, SoleGrains
  <2>3. Stacked(g)' /\ Holding(g)' = Holding(g) \ {r}
    <3>1. CASE b = c
      BY <1>1, <1>3, <2>2, <3>1, RevertOfTop DEF SoleGrain
    <3>2. CASE b # c
      <4>1. r \notin Holding(g)
        BY <1>3, <2>2, <3>2 DEF RunsOf
      <4>2. facts'[g] = facts[g] /\ RowsFor(g)' = RowsFor(g)
        <5>1. \A h \in RowsFor(g) : h.by # r
          BY <2>2, <4>1 DEF SoleGrain, Stacked
        <5>2. RestoredFact(g, r) = facts[g] /\ facts[g] # r
          BY <4>1, <5>1 DEF RestoredFact, Restores, RowsBy, RowsFor, Holding
        <5> QED
          BY <1>1, <5>1, <5>2 DEF RevertRun, RowsFor, RowsBy
      <4>3. Holding(g)' = Holding(g)
        BY <4>2 DEF Holding
      <4> QED
        BY <2>2, <4>1, <4>2, <4>3 DEF SoleGrain, Stacked
    <3> QED
      BY <3>1, <3>2
  <2>4. \A q \in Runs \ reverted' : g \in seen'[q] => q \in Holding(g)'
    BY <1>1, <2>2, <2>3 DEF SoleGrain
  <2>5. drop'[b] # NoDrop => Holding(g)' \subseteq drop'[b].todo
    BY <1>3, <1>4, <2>2, <2>3 DEF SoleGrain
  <2>6. bstate'[b] \in {"cancelled", "deleted"} => Holding(g)' = {}
    BY <1>1, <2>2, <2>3 DEF SoleGrain
  <2> QED
    BY <2>3, <2>4, <2>5, <2>6 DEF SoleGrain
<1> QED
  BY <1>2, <1>5 DEF SoleGrains

(* Every step keeps the stacks.                                             *)
LEMMA StackStep ==
    ASSUME LedgerInv, StackInv, [Next]_vars
    PROVE  StackInv'
<1>1. HoldersAreSeen' /\ SoleGrains'
  <2>1. ASSUME NEW r \in Runs, NEW chunk \in SUBSET Grains, UpsertChunk(r, chunk)
        PROVE  HoldersAreSeen' /\ SoleGrains'
    BY <2>1, UpsertStacks
  <2>2. ASSUME NEW b \in Batches, NEW r \in Runs, RevertStep(b, r)
        PROVE  HoldersAreSeen' /\ SoleGrains'
    BY <2>2, RevertUnstacks
  <2>3. ASSUME ~ \E b \in Batches, r \in Runs : RevertStep(b, r),
               ~ \E r \in Runs, chunk \in SUBSET Grains : UpsertChunk(r, chunk)
        PROVE  HoldersAreSeen' /\ SoleGrains'
    <3>1. UNCHANGED <<facts, history, seen, reverted>>
      BY <2>3 DEF Next, vars, StartRun, BeginCancel, BeginDelete, DropInterrupted,
         FinishCancel, FinishDelete, RevertRefused, EndRun, Publish, ledger, registry
    <3> QED
      BY <2>3, <3>1, QuietStep
  <2> QED
    BY <2>1, <2>2, <2>3
<1> QED
  BY <1>1, StepNumbered, StepDrops DEF StackInv

(* Whatever runs at the same time, and however often an upload is           *)
(* reprocessed and its drop interrupted and retried, the facts of the       *)
(* grains only it wrote are stacked in the order of its runs.               *)
THEOREM FactsAreStacked == Spec => []StackInv
<1>1. LedgerInv /\ StackInv /\ [Next]_vars => StackInv'
  BY StackStep
<1> QED
  BY LedgerInvariant, StackStart, <1>1, PTL DEF Spec

(* Reprocessing an upload forgets nothing of what its own runs wrote.       *)
THEOREM ReprocessingForgetsNothing == Spec => []OwnFactsSurvive
<1>1. LedgerInv /\ StackInv => OwnFactsSurvive
  <2> SUFFICES ASSUME LedgerInv, StackInv, NEW r \in Runs \ reverted, NEW g \in seen[r],
                      SoleWriter(owner[r], g)
               PROVE  facts[g] = r \/ \E h \in history : h.grain = g /\ h.fact = r
    BY DEF OwnFactsSurvive
  <2>1. g \in Grains /\ owner[r] \in Batches
    BY DEF LedgerInv, TypeOK, StackInv, RunsAreNumbered
  <2>2. r \in Holding(g)
    BY <2>1 DEF StackInv, SoleGrains, SoleGrain
  <2> QED
    BY <2>2 DEF Holding, RowsFor
<1> QED
  BY LedgerInvariant, FactsAreStacked, <1>1, PTL

(* Cancelling or deleting an upload leaves no trace on the grains that only *)
(* this upload ever wrote.                                                  *)
THEOREM DropsAreClean == Spec => []CleanDrop
<1>1. LedgerInv /\ StackInv => CleanDrop
  <2> SUFFICES ASSUME LedgerInv, StackInv, NEW b \in Batches, NEW g \in Grains,
                      bstate[b] \in {"cancelled", "deleted"}, SoleWriter(b, g)
               PROVE  facts[g] = NoRun /\ \A h \in history : h.grain # g
    BY DEF CleanDrop
  <2>1. Holding(g) = {}
    BY DEF StackInv, SoleGrains, SoleGrain
  <2> QED
    BY <2>1 DEF Holding, RowsFor, LedgerInv, TypeOK, Row
<1> QED
  BY LedgerInvariant, FactsAreStacked, <1>1, PTL

(* The runs of a deleted upload, and no others, are deleted, and no drop of  *)
(* it is in progress.                                                        *)
DeletedTogether ==
    /\ \A r \in Runs : status[r] = "deleted" => \E b \in Batches : owner[r] = b /\ bstate[b] = "deleted"
    /\ \A b \in Batches : bstate[b] = "deleted" => drop[b] = NoDrop

(* An upload and its runs are deleted in one step.                          *)
LEMMA StepDeletedTogether ==
    ASSUME LedgerInv, StackInv, DeletedTogether, [Next]_vars
    PROVE  DeletedTogether'
<1>1. \A r \in Runs : owner[r] # NoBatch => owner'[r] = owner[r]
  BY OwnersLast
<1>2. ASSUME NEW b \in Batches, FinishDelete(b)
      PROVE  DeletedTogether'
  <2>1. /\ bstate' = [bstate EXCEPT ![b] = "deleted"] /\ drop' = [drop EXCEPT ![b] = NoDrop]
        /\ \A r \in Runs : /\ r \in RunsOf(b) => status'[r] = "deleted"
                           /\ r \notin RunsOf(b) => status'[r] = status[r]
        /\ owner' = owner
    BY <1>2 DEF FinishDelete
  <2>2. \A c \in Batches : /\ bstate'[c] = IF c = b THEN "deleted" ELSE bstate[c]
                           /\ drop'[c] = IF c = b THEN NoDrop ELSE drop[c]
    BY <2>1 DEF LedgerInv, TypeOK
  <2> QED
    BY <2>1, <2>2 DEF DeletedTogether, RunsOf
<1>3. ASSUME \A r \in Runs : status'[r] = "deleted" => status[r] = "deleted",
             \A b \in Batches : \/ bstate'[b] = bstate[b] /\ drop'[b] \in {drop[b], NoDrop}
                                \/ bstate[b] # "deleted" /\ bstate'[b] # "deleted"
      PROVE  DeletedTogether'
  <2>1. \A r \in Runs : status'[r] = "deleted" => \E b \in Batches : owner'[r] = b /\ bstate'[b] = "deleted"
    BY <1>1, <1>3, NoBatchIsNoBatch DEF DeletedTogether
  <2> QED
    BY <1>3, <2>1 DEF DeletedTogether
<1>4. ASSUME NEW b \in Batches, BeginCancel(b) \/ BeginDelete(b)
      PROVE  DeletedTogether'
  <2>1. \A c \in Batches : \/ bstate'[c] = bstate[c] /\ drop'[c] = drop[c]
                           \/ bstate[c] # "deleted" /\ bstate'[c] # "deleted"
    BY <1>4 DEF BeginCancel, BeginDelete, LedgerInv, TypeOK
  <2> QED
    BY <1>3, <1>4, <2>1 DEF BeginCancel, BeginDelete, registry
<1>5. ASSUME NEW b \in Batches, NEW r \in Runs, RevertStep(b, r)
      PROVE  DeletedTogether'
  <2>1. bstate[b] # "deleted" /\ UNCHANGED <<status, bstate>>
    BY <1>5 DEF RevertStep, NextToRevert, NoDrop, DeletedTogether, registry
  <2>2. \A c \in Batches : c # b => drop'[c] = drop[c]
    BY <1>5 DEF RevertStep, LedgerInv, TypeOK
  <2> QED
    BY <1>3, <2>1, <2>2
<1>6. ASSUME NEW b \in Batches, DropInterrupted(b) \/ \E r \in Runs : RevertRefused(b, r)
      PROVE  DeletedTogether'
  <2>1. /\ \A r \in Runs : status'[r] \in {status[r], "failed"}
        /\ drop' = [drop EXCEPT ![b] = NoDrop] /\ bstate' = bstate
    BY <1>6 DEF DropInterrupted, RevertRefused
  <2>2. \A c \in Batches : drop'[c] \in {drop[c], NoDrop}
    BY <2>1 DEF LedgerInv, TypeOK
  <2> QED
    BY <1>3, <2>1, <2>2
<1>7. ASSUME NEW b \in Batches, FinishCancel(b)
      PROVE  DeletedTogether'
  <2>1. drop[b] # NoDrop
    BY <1>7 DEF FinishCancel, NoDrop
  <2>2. /\ bstate' = [bstate EXCEPT ![b] = "cancelled"] /\ drop' = [drop EXCEPT ![b] = NoDrop]
        /\ \A r \in Runs : status'[r] \in {status[r], "cancelled"}
    BY <1>7 DEF FinishCancel
  <2>3. \A c \in Batches : \/ bstate'[c] = bstate[c] /\ drop'[c] = drop[c]
                           \/ bstate[c] # "deleted" /\ bstate'[c] # "deleted"
    BY <2>1, <2>2 DEF LedgerInv, TypeOK, DeletedTogether
  <2> QED
    BY <1>3, <2>2, <2>3
<1>8. ASSUME NEW b \in Batches, StartRun(b)
      PROVE  DeletedTogether'
  <2>1. \A r \in Runs : status'[r] \in {status[r], "running"}
    BY <1>8 DEF StartRun, LedgerInv, TypeOK
  <2> QED
    BY <1>3, <1>8, <2>1 DEF StartRun
<1>9. ASSUME NEW r \in Runs, EndRun(r)
      PROVE  DeletedTogether'
  <2>1. \A q \in Runs : status'[q] \in {status[q], "succeeded", "failed"}
    BY <1>9 DEF EndRun, LedgerInv, TypeOK
  <2> QED
    BY <1>3, <1>9, <2>1 DEF EndRun
<1>10. CASE UNCHANGED <<status, bstate, drop>>
  BY <1>3, <1>10
<1> QED
  BY <1>2, <1>4, <1>5, <1>6, <1>7, <1>8, <1>9, <1>10 DEF Next, vars, UpsertChunk, Publish

(* The delete of an unpublished upload whose grains no other upload wrote   *)
(* is refused by no foreign key, however it was reprocessed and             *)
(* interrupted before.                                                      *)
THEOREM SoleUploadsAreDeletable == Spec => []SoleUploadIsDeletable
<1>1. Init => DeletedTogether
  BY DEF Init, DeletedTogether
<1>2. LedgerInv /\ StackInv /\ DeletedTogether /\ [Next]_vars => DeletedTogether'
  BY StepDeletedTogether
<1>3. LedgerInv /\ StackInv /\ DeletedTogether => SoleUploadIsDeletable
  <2> SUFFICES ASSUME LedgerInv, StackInv, DeletedTogether, NEW b \in Batches,
                      drop[b].kind = "delete", RunsOf(b) \cap published = {},
                      \A r \in RunsOf(b) : \A g \in seen[r] : SoleWriter(b, g)
               PROVE  /\ \A r \in Runs : NextToRevert(drop[b].todo, r) => RevertAllowed(r)
                      /\ drop[b].todo = {} => RecordDeletable(b)
    BY DEF SoleUploadIsDeletable
  <2>1. drop[b] # NoDrop /\ bstate[b] # "deleted"
    BY DEF NoDrop, DeletedTogether
  <2>2. \A r \in RunsOf(b) : r \in Runs /\ ~Deleted(r)
    BY <2>1 DEF RunsOf, Deleted, DeletedTogether
  <2>3. ASSUME NEW g \in Grains, SoleWriter(b, g)
        PROVE  Stacked(g) /\ Holding(g) \subseteq RunsOf(b) /\ Holding(g) \subseteq drop[b].todo
    BY <2>1, <2>3, HoldersAreOwn DEF StackInv, SoleGrains, SoleGrain
  <2>4. \A g \in Grains, r \in RunsOf(b) : r \in Holding(g) => SoleWriter(b, g)
    BY DEF StackInv, HoldersAreSeen
  <2>5. \A h \in history : /\ h.grain \in Grains /\ h.fact \in Runs /\ h.by \in Runs
                           /\ h.fact \in Holding(h.grain)
                           /\ h.by \in RunsOf(b) => SoleWriter(b, h.grain)
    BY DEF LedgerInv, TypeOK, Row, StampsAreSeen, Holding, RowsFor
  <2>6. ASSUME NEW r \in Runs, NextToRevert(drop[b].todo, r), NEW g \in Grains
        PROVE  ~Deleted(RestoredFact(g, r))
    <3>1. r \in RunsOf(b)
      BY <2>6 DEF NextToRevert, StackInv, DropsOwnRuns
    <3>2. CASE Restores(g, r)
      <4>1. /\ Latest(g, r) \in history /\ Latest(g, r).by = r /\ Latest(g, r).grain = g
        BY <3>2, LatestIsTheOnlyRow DEF LedgerInv
      <4>2. Latest(g, r).fact \in RunsOf(b)
        BY <2>3, <2>5, <3>1, <4>1
      <4> QED
        BY <2>2, <3>2, <4>2 DEF RestoredFact
    <3>3. CASE ~Restores(g, r)
      BY <3>3 DEF RestoredFact, LedgerInv, NoOrphanRows
    <3> QED
      BY <3>2, <3>3
  <2>7. ASSUME drop[b].todo = {}
        PROVE  RecordDeletable(b)
    <3>1. \A g \in Grains : facts[g] \notin RunsOf(b)
      BY <2>3, <2>4, <2>7 DEF Holding, RunsOf
    <3>2. \A h \in history : h.by \notin RunsOf(b)
      BY <2>3, <2>5, <2>7
    <3> QED
      BY <3>1, <3>2 DEF RecordDeletable
  <2> QED
    BY <2>6, <2>7 DEF RevertAllowed
<1> QED
  BY LedgerInvariant, FactsAreStacked, <1>1, <1>2, <1>3, PTL DEF Spec
=============================================================================
