------------------------- MODULE UploadLifecycleProofs -------------------------
(***************************************************************************)
(* What holds of an upload for any number of workers, request threads,     *)
(* runs, jobs and restarts.                                                *)
(*                                                                         *)
(* Under any mix of requests: the shape of the state, and that a deletion  *)
(* is complete.  Threads write back whole rows they read long before, so   *)
(* the invariant has a part for every thread: what it may write to is a    *)
(* run that was created, what it would write does not undo the deletion,   *)
(* and only a row of a run that still is there can be written, which is    *)
(* why nothing comes after the deletion.                                   *)
(*                                                                         *)
(* Without polls and reprocess requests: one job at a time works on the    *)
(* upload, so a run that succeeded stays so, a processed upload has one,   *)
(* no active run is left behind and a cancelled upload keeps no rows.      *)
(***************************************************************************)
EXTENDS UploadLifecycle, FiniteSetTheorems, SequenceTheorems, WellFoundedInduction, TLAPS

(* The types of the rows and of what the threads keep.                      *)
Reasons  == {"none", "auto", "other"}
Batches  == [status : {"none", "received", "staged", "processed", "failed", "cancelled", "deleted"},
             cancel : BOOLEAN, staged : BOOLEAN, reason : Reasons]
Returns  == {"idle", "fin", "forget", "staged_add", "staged_check", "archive_add", "enqueue"}
Kinds    == RequestKinds \cup {"none", "upload", "archive", "staged", "boot"}
Jobs     == [kind : {"upload", "archive", "staged"}, run : Runs \cup {NoRun}]
Locals   == [kind : Kinds, run : Runs \cup {NoRun}, b : Batches \cup {Blank.b}, r : Record,
             todo : SUBSET Runs, ret : Returns, why : Reasons, running : BOOLEAN]

(* Where a thread is about to write a run row, and where a batch row.       *)
SavesRun == {"check_running", "zombie", "running", "at_chunk", "chunk", "processed", "at_qa",
             "qa_read", "qa_save", "fr_read", "fail_run", "fin_save", "enqueue_staged"}
SavesBatch == {"layout", "at_rows", "stage", "running", "at_chunk", "chunk", "processed", "fb_save"}

Named(r) == r \in Runs /\ run[r].status # "absent"

(* What a thread at p that keeps l may rely on.                             *)
Held(t, p, l) ==
    /\ l \in Locals
    /\ l.b.status = "deleted" => batch.status = "deleted"
    /\ l.kind = "staged" => t \in Workers /\ Named(l.run)
    /\ p \in SavesRun => Named(l.run)
    /\ p \in SavesBatch => l.b \in Batches
    /\ p \in {"fail_run", "fin_save"} => l.r.status = "failed"
    /\ p = "qa_save" => /\ l.r.status # "absent"
                        /\ l.r.status = "deleted" => run[l.run].status = "deleted"

(* A run that is deleted goes with its batch, and rows name no such run.    *)
StoreInv ==
    /\ batch \in Batches /\ run \in [Runs -> Record]
    /\ rows \subseteq Created /\ published \subseteq Created
    /\ batch.status = "deleted" => Created = {}
    /\ \A r \in Runs : run[r].status = "deleted" => batch.status = "deleted"

MemoryInv ==
    /\ inflight \in BOOLEAN /\ reproc \in Runs \cup {NoRun} /\ arriving \subseteq RequestKinds
    /\ queue \in Seq(Jobs) /\ Len(queue) <= MaxJobs
    /\ \A i \in 1..Len(queue) : queue[i].kind = "staged" => Named(queue[i].run)

ThreadsInv ==
    /\ pc = [t \in Threads |-> pc[t]]
    /\ loc \in [Threads -> Locals]
    /\ \A t \in Threads : Held(t, pc[t], loc[t])

UploadInv == StoreInv /\ MemoryInv /\ ThreadsInv

(* What is deleted stays deleted, and no run becomes absent again.          *)
Lasts ==
    /\ batch.status = "deleted" => batch'.status = "deleted"
    /\ \A r \in Runs : /\ run[r].status # "absent" => run'[r].status # "absent"
                       /\ run[r].status = "deleted" => run'[r].status = "deleted"

-----------------------------------------------------------------------------
(* The newest of some runs is one of them and none of them is newer.        *)
LEMMA NewestIsOne ==
    ASSUME NEW S, S \subseteq Runs, S # {}
    PROVE  Newest(S) \in S /\ \A q \in S : q <= Newest(S)
<1> DEFINE R == OpToRel(<, Nat)
           T == {MaxRuns - i : i \in S}
<1>1. IsWellFoundedOn(R, Nat)
  BY NatLessThanWellFounded
<1>2. T \subseteq Nat /\ T # {} /\ S \subseteq Nat /\ MaxRuns \in Nat
  <2>1. \A i \in S : MaxRuns - i \in Nat /\ i \in Nat
    BY UploadConstants DEF Runs
  <2> QED
    BY <2>1, UploadConstants
<1> HIDE DEF R, T
<1>3. PICK x \in T : \A y \in T : ~(<<y, x>> \in R)
  BY <1>1, <1>2, WFMin
<1>4. \A y \in T : ~(y < x)
  BY <1>2, <1>3 DEF R, OpToRel
<1>5. PICK i \in S : x = MaxRuns - i
  BY DEF T
<1>6. \A j \in S : MaxRuns - j \in T
  BY DEF T
<1>7. \A j \in S : ~(MaxRuns - j < MaxRuns - i)
  BY <1>4, <1>5, <1>6
<1>8. \A j \in S : j <= i
  BY <1>2, <1>5, <1>7
<1> QED
  BY <1>5, <1>8 DEF Newest

(* The oldest of some runs is one of them.                                  *)
LEMMA OldestIsOne ==
    ASSUME NEW S, S \subseteq Runs, S # {}
    PROVE  Oldest(S) \in S
<1> DEFINE R == OpToRel(<, Nat)
<1>1. IsWellFoundedOn(R, Nat)
  BY NatLessThanWellFounded
<1>2. S \subseteq Nat
  BY UploadConstants DEF Runs
<1> HIDE DEF R
<1>3. PICK x \in S : \A y \in S : ~(<<y, x>> \in R)
  BY <1>1, <1>2, WFMin
<1>4. \A y \in S : ~(y < x)
  BY <1>2, <1>3 DEF R, OpToRel
<1>5. \A y \in S : x <= y
  BY <1>2, <1>4
<1> QED
  BY <1>5 DEF Oldest

-----------------------------------------------------------------------------
(* The threads. *)

(* What a thread relies on outlasts every step of the others.               *)
LEMMA HeldLasts ==
    ASSUME Lasts, NEW t, NEW p, NEW l, Held(t, p, l)
    PROVE  Held(t, p, l)'
<1>1. l \in Locals /\ l.run \in Runs \cup {NoRun}
  BY DEF Held, Locals
<1>2. Named(l.run) => Named(l.run)'
  BY DEF Named, Lasts
<1>3. p \in SavesRun /\ l.run \in Runs /\ run[l.run].status = "deleted" => run'[l.run].status = "deleted"
  BY DEF Lasts
<1>4. p = "qa_save" => p \in SavesRun
  BY DEF SavesRun
<1>5. Named(l.run) => l.run \in Runs
  BY DEF Named
<1> QED
  BY <1>1, <1>2, <1>3, <1>4, <1>5 DEF Held, Lasts

(* A thread that keeps nothing and writes nothing relies on nothing.        *)
LEMMA PlainIsHeld ==
    ASSUME NEW t, NEW p, p \notin SavesRun \cup SavesBatch, NEW l \in Locals,
           l.b.status # "deleted", l.kind # "staged"
    PROVE  Held(t, p, l) /\ Held(t, p, l)'
<1>1. p \notin {"fail_run", "fin_save", "qa_save"}
  BY DEF SavesRun
<1> QED
  BY <1>1 DEF Held

(* The empty record of a thread.                                            *)
LEMMA BlankIsLocal ==
    ASSUME NEW kind \in Kinds
    PROVE  /\ Blank \in Locals /\ Blank.b.status = "none" /\ Blank.kind = "none"
           /\ [Blank EXCEPT !.kind = kind] \in Locals
           /\ [Blank EXCEPT !.kind = kind].b.status = "none"
           /\ [Blank EXCEPT !.kind = kind].kind = kind
BY DEF Blank, Locals, Absent, Record, Returns, Reasons, Kinds, NoRun

(* What a thread may rely on where it neither writes a run nor a batch.     *)
LEMMA MovesOn ==
    ASSUME NEW t, NEW p, NEW l, Held(t, p, l), NEW q, q \notin SavesRun \cup SavesBatch,
           NEW m \in Locals, m.b \in {l.b, batch, Blank.b}, m.kind = l.kind,
           m.run = l.run \/ Named(m.run)
    PROVE  Held(t, q, m)
<1>1. q \notin {"fail_run", "fin_save", "qa_save"}
  BY DEF SavesRun
<1>2. Blank.b.status # "deleted"
  BY DEF Blank
<1> QED
  BY <1>1, <1>2 DEF Held

(* A thread goes to another place, where it forgets what it read.           *)
LEMMA GoStep ==
    ASSUME ThreadsInv, Lasts, NEW t \in Threads, NEW label, NEW local,
           Go(t, label, local), label # "idle" => Held(t, label, local)'
    PROVE  ThreadsInv'
<1>1. PICK l2 : /\ l2 = IF label = "idle" THEN Blank
                        ELSE IF label \in Fresh
                        THEN [local EXCEPT !.b = Blank.b, !.r = Absent, !.todo = {}]
                        ELSE local
                /\ loc' = [loc EXCEPT ![t] = l2] /\ pc' = [pc EXCEPT ![t] = label]
  BY DEF Go
<1>2. Held(t, label, l2)'
  <2>1. CASE label = "idle"
    <3>1. "idle" \notin SavesRun \cup SavesBatch /\ "none" \in Kinds
      BY DEF SavesRun, SavesBatch, Kinds
    <3>2. l2 \in Locals /\ l2.b.status # "deleted" /\ l2.kind # "staged"
      BY <1>1, <2>1, <3>1, BlankIsLocal
    <3> QED
      BY <2>1, <3>1, <3>2, PlainIsHeld
  <2>2. CASE label # "idle" /\ label \in Fresh
    <3>1. local \in Locals
      BY <2>2 DEF Held
    <3>2. /\ l2 = [local EXCEPT !.b = Blank.b, !.r = Absent, !.todo = {}]
      BY <1>1, <2>2
    <3>3. l2 \in Locals /\ l2.b.status = "none" /\ l2.kind = local.kind /\ l2.run = local.run
      <4>1. Absent \in Record /\ Blank.b.status = "none"
        BY DEF Absent, Record, Blank
      <4>2. {} \in SUBSET Runs /\ Blank.b \in Batches \cup {Blank.b}
        OBVIOUS
      <4> QED
        BY <3>1, <3>2, <4>1, <4>2 DEF Locals
    <3>4. label \notin SavesBatch \cup {"fail_run", "fin_save", "qa_save"}
      BY <2>2 DEF Fresh, SavesBatch
    <3> QED
      BY <2>2, <3>3, <3>4 DEF Held
  <2>3. CASE label # "idle" /\ label \notin Fresh
    BY <1>1, <2>3
  <2> QED
    BY <2>1, <2>2, <2>3
<1>3. l2 \in Locals
  BY <1>2 DEF Held
<1>4. /\ pc' = [u \in Threads |-> pc'[u]] /\ loc' \in [Threads -> Locals]
      /\ pc'[t] = label /\ loc'[t] = l2
  BY <1>1, <1>3 DEF ThreadsInv
<1>5. ASSUME NEW u \in Threads PROVE Held(u, pc[u], loc[u])'
  <2>1. CASE u = t
    BY <1>2, <1>4, <2>1
  <2>2. CASE u # t
    <3>1. pc'[u] = pc[u] /\ loc'[u] = loc[u]
      BY <1>1, <2>2 DEF ThreadsInv
    <3>2. PICK p, l : p = pc[u] /\ l = loc[u]
      OBVIOUS
    <3>3. Held(u, p, l)'
      BY <3>2, HeldLasts DEF ThreadsInv
    <3> QED
      BY <3>1, <3>2, <3>3
  <2> QED
    BY <2>1, <2>2
<1> QED
  BY <1>4, <1>5 DEF ThreadsInv

(* The same when what it relies on held before the step.                    *)
LEMMA GoOn ==
    ASSUME ThreadsInv, Lasts, NEW t \in Threads, NEW label, NEW local,
           Go(t, label, local), label # "idle" => Held(t, label, local)
    PROVE  ThreadsInv'
BY GoStep, HeldLasts

-----------------------------------------------------------------------------
(* The rows. *)

(* A batch row written back does not undo the deletion of its batch.        *)
LEMMA BatchSaved ==
    ASSUME StoreInv, NEW rec \in Batches, SaveBatch(rec), UNCHANGED <<run, rows, published>>,
           rec.status = "deleted" => batch.status = "deleted"
    PROVE  StoreInv' /\ Lasts
<1>1. batch' \in Batches /\ (batch.status = "deleted" <=> batch'.status = "deleted")
  <2>1. CASE Gone
    BY <2>1 DEF SaveBatch, StoreInv
  <2>2. CASE ~Gone
    <3>1. PICK c \in BOOLEAN : c = batch.cancel
      BY DEF StoreInv, Batches
    <3>2. batch' = [rec EXCEPT !.cancel = c]
      BY <2>2, <3>1 DEF SaveBatch
    <3>3. batch' \in Batches /\ batch'.status = rec.status
      BY <3>2 DEF Batches
    <3> QED
      BY <2>2, <3>3 DEF Gone
  <2> QED
    BY <2>1, <2>2
<1> QED
  BY <1>1 DEF StoreInv, Lasts, Created

(* Neither does the row of a run that was created.                          *)
LEMMA RunSaved ==
    ASSUME StoreInv, NEW r, Named(r), NEW rec \in Record, SaveRun(r, rec),
           UNCHANGED <<batch, rows, published>>,
           rec.status # "absent", rec.status = "deleted" => run[r].status = "deleted"
    PROVE  StoreInv' /\ Lasts
<1>1. CASE run[r].status = "deleted"
  BY <1>1 DEF SaveRun, StoreInv, Lasts, Created
<1>2. CASE run[r].status # "deleted"
  <2>1. r \in Runs /\ r \in Created /\ run' = [run EXCEPT ![r] = rec] /\ run \in [Runs -> Record]
    BY <1>2 DEF Named, Created, SaveRun, StoreInv
  <2>2. run' \in [Runs -> Record] /\ \A q \in Runs : run'[q] = IF q = r THEN rec ELSE run[q]
    BY <2>1
  <2>3. Created' = Created
    BY <1>2, <2>1, <2>2 DEF Created
  <2> QED
    BY <1>2, <2>2, <2>3 DEF StoreInv, Lasts, Named
<1> QED
  BY <1>1, <1>2

(* A run is added while its batch is there.                                 *)
LEMMA RunAdded ==
    ASSUME StoreInv, ~Gone, AddRun(NextRun), UNCHANGED <<batch, rows, published>>
    PROVE  StoreInv' /\ Lasts /\ \A r : r = NextRun => Named(r)'
<1>1. PICK n, rec : n = NextRun /\ rec = [Absent EXCEPT !.status = "pending"]
  OBVIOUS
<1>2. rec \in Record /\ rec.status = "pending"
  BY <1>1 DEF Absent, Record
<1>3. n \in Runs /\ run' = [run EXCEPT ![n] = rec] /\ run \in [Runs -> Record]
  BY <1>1 DEF AddRun, StoreInv
<1>4. run' \in [Runs -> Record] /\ \A q \in Runs : run'[q] = IF q = n THEN rec ELSE run[q]
  BY <1>2, <1>3
<1>5. Created \subseteq Created'
  BY <1>2, <1>4 DEF Created
<1>6. batch.status # "deleted"
  BY DEF Gone
<1>7. StoreInv'
  BY <1>2, <1>4, <1>5, <1>6 DEF StoreInv
<1>8. Lasts
  BY <1>2, <1>4, <1>6 DEF StoreInv, Lasts
<1>9. Named(n)'
  BY <1>2, <1>3, <1>4 DEF Named
<1> QED
  BY <1>1, <1>7, <1>8, <1>9

(* Nothing is deleted by a step that leaves the rows of the store alone.    *)
LEMMA StoreKept ==
    ASSUME StoreInv, UNCHANGED <<batch, run>>, rows' \subseteq Created, published' \subseteq Created
    PROVE  StoreInv' /\ Lasts
BY DEF StoreInv, Lasts, Created

(* The registries and the queue hold what they held.                        *)
LEMMA MemoryKept ==
    ASSUME MemoryInv, Lasts, UNCHANGED <<inflight, queue, arriving>>, reproc' \in {reproc, NoRun}
    PROVE  MemoryInv'
<1>1. \A i \in 1..Len(queue) : Named(queue[i].run) => Named(queue[i].run)'
  BY DEF Named, Lasts
<1> QED
  BY <1>1 DEF MemoryInv

(* A step that only reads.                                                  *)
LEMMA ReadStep ==
    ASSUME UploadInv, UNCHANGED <<store, inflight, queue, arriving>>, reproc' \in {reproc, NoRun},
           NEW t \in Threads, NEW label, NEW local, Go(t, label, local),
           label # "idle" => Held(t, label, local)
    PROVE  UploadInv'
<1>1. StoreInv' /\ Lasts
  BY StoreKept DEF UploadInv, StoreInv, store
<1>2. MemoryInv'
  BY <1>1, MemoryKept DEF UploadInv
<1>3. ThreadsInv'
  BY <1>1, GoOn DEF UploadInv
<1> QED
  BY <1>1, <1>2, <1>3 DEF UploadInv

(* A step that writes a row and leaves the registries alone.                *)
LEMMA WriteStep ==
    ASSUME UploadInv, StoreInv', Lasts, UNCHANGED <<memory, outside>>,
           NEW t \in Threads, NEW label, NEW local, Go(t, label, local),
           label # "idle" => Held(t, label, local)
    PROVE  UploadInv'
<1>1. MemoryInv'
  BY MemoryKept DEF UploadInv, memory, outside
<1>2. ThreadsInv'
  BY GoOn DEF UploadInv
<1> QED
  BY <1>1, <1>2 DEF UploadInv

(* What is known of a thread.                                               *)
LEMMA ThreadFacts ==
    ASSUME UploadInv, NEW t \in Threads
    PROVE  /\ Held(t, pc[t], loc[t]) /\ loc[t] \in Locals
           /\ loc[t].kind \in Kinds /\ loc[t].run \in Runs \cup {NoRun} /\ loc[t].r \in Record
           /\ loc[t].b \in Batches \cup {Blank.b} /\ loc[t].todo \subseteq Runs
           /\ loc[t].ret \in Returns \ (SavesRun \cup SavesBatch)
           /\ loc[t].why \in Reasons
<1>1. Held(t, pc[t], loc[t])
  BY DEF UploadInv, ThreadsInv
<1>2. loc[t] \in Locals
  BY <1>1 DEF Held
<1>3. Returns \cap (SavesRun \cup SavesBatch) = {}
  BY DEF Returns, SavesRun, SavesBatch
<1> QED
  BY <1>1, <1>2, <1>3 DEF Locals

(* A thread that goes elsewhere with what it keeps.                         *)
LEMMA MovesAsItIs ==
    ASSUME UploadInv, NEW t \in Threads, NEW q, q \notin SavesRun \cup SavesBatch
    PROVE  Held(t, q, loc[t])
BY ThreadFacts, MovesOn

(* A thread that goes elsewhere to write nothing, reading the batch.        *)
LEMMA ReadsBatch ==
    ASSUME UploadInv, NEW t \in Threads, NEW m, m = [loc[t] EXCEPT !.b = batch]
    PROVE  /\ m \in Locals /\ m.b = batch /\ m.b \in Batches /\ m.kind = loc[t].kind
           /\ m.run = loc[t].run /\ m.r = loc[t].r
BY ThreadFacts DEF UploadInv, StoreInv, Locals

(* A step that only reads and takes a thread to where it writes nothing.    *)
LEMMA GotoStep ==
    ASSUME UploadInv, UNCHANGED <<store, inflight, queue, arriving>>, reproc' \in {reproc, NoRun},
           NEW t \in Threads, NEW label, label \notin SavesRun \cup SavesBatch, Goto(t, label)
    PROVE  UploadInv'
BY MovesAsItIs, ReadStep DEF Goto

(* The same when the thread keeps other records.                            *)
LEMMA GoStepReading ==
    ASSUME UploadInv, UNCHANGED <<store, inflight, queue, arriving>>, reproc' \in {reproc, NoRun},
           NEW t \in Threads, NEW label, label \notin SavesRun \cup SavesBatch,
           NEW m \in Locals, m.b \in {loc[t].b, batch, Blank.b}, m.kind = loc[t].kind,
           m.run = loc[t].run \/ Named(m.run), Go(t, label, m)
    PROVE  UploadInv'
BY ThreadFacts, MovesOn, ReadStep

(* An exception: the thread goes to the failure of its upload or its run.   *)
LEMMA Raised ==
    ASSUME UploadInv, NEW t \in Threads, RaiseError(t)
    PROVE  \E label, m : Go(t, label, m) /\ Held(t, label, m)
<1>1. PICK m : m = [loc[t] EXCEPT !.why = "other"]
  OBVIOUS
<1>2. m \in Locals /\ m.b = loc[t].b /\ m.kind = loc[t].kind /\ m.run = loc[t].run
  BY <1>1, ThreadFacts DEF Locals, Reasons
<1>3. PICK label : label = IF loc[t].kind = "staged" THEN "fr_read" ELSE "fb_read"
  OBVIOUS
<1>4. Held(t, label, m)
  <2>1. CASE loc[t].kind = "staged"
    <3>1. label \notin SavesBatch \cup {"fail_run", "fin_save", "qa_save"} /\ Named(m.run)
      BY <1>2, <1>3, <2>1, ThreadFacts DEF Held, SavesBatch
    <3> QED
      BY <1>2, <3>1, ThreadFacts DEF Held
  <2>2. CASE loc[t].kind # "staged"
    <3>1. label \notin SavesRun \cup SavesBatch
      BY <1>3, <2>2 DEF SavesRun, SavesBatch
    <3> QED
      BY <1>2, <3>1, ThreadFacts, MovesOn
  <2> QED
    BY <2>1, <2>2
<1> QED
  BY <1>1, <1>3, <1>4 DEF RaiseError

-----------------------------------------------------------------------------
(* The requests. *)

(* An upload is accepted.                                                   *)
LEMMA Accepting ==
    ASSUME UploadInv, NEW h \in Handlers, AcceptUpload(h)
    PROVE  UploadInv'
<1>1. h \in Threads
  BY DEF Threads
<1>2. StoreInv' /\ Lasts
  <2>1. batch' = [batch EXCEPT !.status = "received"] /\ batch.status = "none" /\ batch \in Batches
    BY DEF AcceptUpload, UploadInv, StoreInv
  <2>2. batch' \in Batches /\ batch'.status = "received"
    BY <2>1 DEF Batches
  <2> QED
    BY <2>1, <2>2 DEF AcceptUpload, UploadInv, StoreInv, Lasts, Created
<1>3. PICK m : m = [Blank EXCEPT !.kind = "upload"]
  OBVIOUS
<1>4. Held(h, "enqueue", m)
  <2>1. "upload" \in Kinds /\ "enqueue" \notin SavesRun \cup SavesBatch
    BY DEF Kinds, SavesRun, SavesBatch
  <2> QED
    BY <1>3, <2>1, BlankIsLocal, PlainIsHeld
<1>5. Go(h, "enqueue", m) /\ UNCHANGED <<memory, outside>>
  BY <1>3 DEF AcceptUpload
<1> QED
  BY <1>1, <1>2, <1>4, <1>5, WriteStep

(* A request arrives.                                                       *)
LEMMA Arriving ==
    ASSUME UploadInv, NEW h \in Handlers, NEW kind \in arriving, Request(h, kind)
    PROVE  UploadInv'
<1>1. h \in Threads /\ kind \in RequestKinds
  BY DEF Threads, UploadInv, MemoryInv
<1>2. PICK m : m = [Blank EXCEPT !.kind = kind]
  OBVIOUS
<1>3. Held(h, kind, m)
  <2>1. kind \in Kinds /\ kind \notin SavesRun \cup SavesBatch /\ kind # "staged"
    BY <1>1 DEF Kinds, RequestKinds, SavesRun, SavesBatch
  <2> QED
    BY <1>2, <2>1, BlankIsLocal, PlainIsHeld
<1>4. Go(h, kind, m) /\ UNCHANGED <<store, inflight, queue, arriving>> /\ reproc' \in {reproc, NoRun}
  BY <1>2 DEF Request, memory, outside
<1> QED
  BY <1>1, <1>3, <1>4, ReadStep

(* A cancellation is requested.                                             *)
LEMMA Cancelling ==
    ASSUME UploadInv, NEW t \in Threads, CancelRead(t) \/ CancelRunning(t) \/ CancelRequest(t)
    PROVE  UploadInv'
<1>1. {"idle", "cancel_running", "cancel_request", "fc_read"} \cap (SavesRun \cup SavesBatch) = {}
  BY DEF SavesRun, SavesBatch
<1>2. CASE CancelRead(t)
  <2>1. PICK label \in {"idle", "cancel_running"} : Goto(t, label)
    BY <1>2 DEF CancelRead
  <2>2. UNCHANGED <<store, inflight, queue, arriving>> /\ reproc' \in {reproc, NoRun}
    BY <1>2 DEF CancelRead, memory, outside
  <2> QED
    BY <1>1, <2>1, <2>2, GotoStep
<1>3. CASE CancelRunning(t)
  <2>1. LocallyRunning \in BOOLEAN
    BY DEF LocallyRunning, UploadInv, MemoryInv
  <2>2. PICK b \in BOOLEAN : b = LocallyRunning
    BY <2>1
  <2> DEFINE m == [loc[t] EXCEPT !.running = b]
  <2>3. Go(t, "cancel_request", m)
    BY <1>3, <2>2, Zenon DEF CancelRunning
  <2>4. m \in Locals /\ m.b = loc[t].b /\ m.kind = loc[t].kind /\ m.run = loc[t].run
    BY ThreadFacts DEF Locals
  <2>5. UNCHANGED <<store, inflight, queue, arriving>> /\ reproc' \in {reproc, NoRun}
    BY <1>3 DEF CancelRunning, PruneReprocess, outside
  <2> HIDE DEF m
  <2> QED
    BY <1>1, <2>3, <2>4, <2>5, GoStepReading
<1>4. CASE CancelRequest(t)
  <2>1. StoreInv' /\ Lasts
    <3>1. batch' \in Batches /\ batch'.status = batch.status
      BY <1>4 DEF CancelRequest, UploadInv, StoreInv, Batches
    <3> QED
      BY <1>4, <3>1 DEF CancelRequest, UploadInv, StoreInv, Lasts, Created
  <2>2. PICK label \in {"idle", "fc_read"} : Goto(t, label)
    BY <1>4 DEF CancelRequest
  <2>3. Held(t, label, loc[t])
    BY <1>1, <2>2, MovesAsItIs
  <2>4. Go(t, label, loc[t]) /\ UNCHANGED <<memory, outside>>
    BY <1>4, <2>2 DEF CancelRequest, Goto
  <2> QED
    BY <2>1, <2>3, <2>4, WriteStep
<1> QED
  BY <1>2, <1>3, <1>4

(* A cancellation is finalized, by a worker or by the request.              *)
LEMMA Finalizing ==
    ASSUME UploadInv, NEW t \in Threads, Finalize(t)
    PROVE  UploadInv'
<1>1. {"fc_revert", "fc_runs", "fc_batch"} \cap (SavesRun \cup SavesBatch) = {}
  BY DEF SavesRun, SavesBatch
<1>2. loc[t].ret \notin SavesRun \cup SavesBatch
  BY ThreadFacts
<1>3. CASE FinalizeRead(t)
  <2>1. UNCHANGED <<store, inflight, queue, arriving>> /\ reproc' \in {reproc, NoRun}
    BY <1>3 DEF FinalizeRead, memory, outside
  <2>2. CASE Goto(t, loc[t].ret)
    BY <1>2, <2>1, <2>2, GotoStep
  <2>3. CASE Go(t, "fc_revert", [loc[t] EXCEPT !.todo = Created])
    <3>1. PICK m : m = [loc[t] EXCEPT !.todo = Created]
      OBVIOUS
    <3>2. m \in Locals /\ m.b = loc[t].b /\ m.kind = loc[t].kind /\ m.run = loc[t].run
      BY <3>1, ThreadFacts DEF Locals, Created
    <3> QED
      BY <1>1, <2>1, <2>3, <3>1, <3>2, GoStepReading
  <2> QED
    BY <1>3, <2>2, <2>3 DEF FinalizeRead, Return
<1>4. CASE FinalizeRevert(t)
  <2>1. StoreInv' /\ Lasts
    <3>1. UNCHANGED <<batch, run>> /\ rows' \subseteq Created /\ published' \subseteq Created
      BY <1>4 DEF FinalizeRevert, UploadInv, StoreInv
    <3> QED
      BY <3>1, StoreKept DEF UploadInv
  <2>2. Held(t, "fc_runs", loc[t]) /\ Go(t, "fc_runs", loc[t]) /\ UNCHANGED <<memory, outside>>
    BY <1>1, <1>4, MovesAsItIs DEF FinalizeRevert, Goto
  <2> QED
    BY <2>1, <2>2, WriteStep
<1>5. CASE FinalizeRuns(t)
  <2>1. StoreInv' /\ Lasts
    <3>1. \A r \in Created : [run[r] EXCEPT !.status = "cancelled", !.reason = "other"] \in Record
      BY DEF UploadInv, StoreInv, Created, Record
    <3>2. \A r \in Created : [run[r] EXCEPT !.status = "cancelled", !.reason = "other"].status = "cancelled"
      BY DEF UploadInv, StoreInv, Created, Record
    <3>3. /\ run' \in [Runs -> Record]
          /\ \A r \in Runs : \/ run'[r] = run[r]
                             \/ r \in Created /\ run'[r].status = "cancelled"
      BY <1>5, <3>1, <3>2 DEF FinalizeRuns, UploadInv, StoreInv
    <3>4. Created' = Created
      BY <3>3 DEF Created
    <3> QED
      BY <1>5, <3>3, <3>4 DEF FinalizeRuns, UploadInv, StoreInv, Lasts, Created
  <2>2. Held(t, "fc_batch", loc[t]) /\ Go(t, "fc_batch", loc[t]) /\ UNCHANGED <<memory, outside>>
    BY <1>1, <1>5, MovesAsItIs DEF FinalizeRuns, Goto
  <2> QED
    BY <2>1, <2>2, WriteStep
<1>6. CASE FinalizeBatch(t)
  <2>1. StoreInv' /\ Lasts
    <3>1. PICK rec : rec = [batch EXCEPT !.status = "cancelled", !.staged = FALSE, !.reason = "other"]
      OBVIOUS
    <3>2. rec \in Batches /\ rec.status = "cancelled"
      BY <3>1 DEF UploadInv, StoreInv, Batches, Reasons
    <3>3. SaveBatch(rec) /\ UNCHANGED <<run, rows, published>>
      BY <1>6, <3>1 DEF FinalizeBatch
    <3> QED
      BY <3>2, <3>3, BatchSaved DEF UploadInv
  <2>2. Held(t, loc[t].ret, loc[t])
    BY <1>2, MovesAsItIs
  <2>3. Go(t, loc[t].ret, loc[t]) /\ UNCHANGED <<memory, outside>>
    BY <1>6 DEF FinalizeBatch, Return, Goto
  <2> QED
    BY <2>1, <2>2, <2>3, WriteStep
<1> QED
  BY <1>3, <1>4, <1>5, <1>6 DEF Finalize

(* A deletion reads the batch and looks for live jobs and publications.     *)
LEMMA DeletingReads ==
    ASSUME UploadInv, NEW t \in Threads, DeleteRead(t) \/ DeleteRunning(t) \/ DeleteCheck(t)
    PROVE  UploadInv'
<1>1. {"idle", "delete_running", "delete_check", "delete_revert"} \cap (SavesRun \cup SavesBatch) = {}
  BY DEF SavesRun, SavesBatch
<1>2. UNCHANGED <<store, inflight, queue, arriving>> /\ reproc' \in {reproc, NoRun}
  BY DEF DeleteRead, DeleteRunning, DeleteCheck, PruneReprocess, memory, outside
<1>3. CASE DeleteRead(t)
  <2>1. PICK m : m = [loc[t] EXCEPT !.b = batch]
    OBVIOUS
  <2>2. Go(t, "delete_running", m)
    BY <1>3, <2>1 DEF DeleteRead
  <2> QED
    BY <1>1, <1>2, <2>1, <2>2, ReadsBatch, GoStepReading
<1>4. CASE DeleteRunning(t)
  <2>1. PICK label \in {"idle", "delete_check"} : Goto(t, label)
    BY <1>4 DEF DeleteRunning
  <2> QED
    BY <1>1, <1>2, <2>1, GotoStep
<1>5. CASE DeleteCheck(t)
  <2>1. CASE Goto(t, "idle")
    BY <1>1, <1>2, <2>1, GotoStep
  <2>2. CASE Go(t, "delete_revert", [loc[t] EXCEPT !.todo = Created])
    <3>1. PICK m : m = [loc[t] EXCEPT !.todo = Created]
      OBVIOUS
    <3>2. m \in Locals /\ m.b = loc[t].b /\ m.kind = loc[t].kind /\ m.run = loc[t].run
      BY <3>1, ThreadFacts DEF Locals, Created
    <3> QED
      BY <1>1, <1>2, <2>2, <3>1, <3>2, GoStepReading
  <2> QED
    BY <1>5, <2>1, <2>2 DEF DeleteCheck
<1> QED
  BY <1>3, <1>4, <1>5

(* A deletion removes the rows of the runs, then the runs and the batch,    *)
(* which the foreign keys allow only when nothing names a run any more.     *)
LEMMA DeletingWrites ==
    ASSUME UploadInv, NEW t \in Threads, DeleteRevert(t) \/ DeleteRecord(t)
    PROVE  UploadInv'
<1>1. {"idle", "delete_record"} \cap (SavesRun \cup SavesBatch) = {}
  BY DEF SavesRun, SavesBatch
<1>2. CASE DeleteRevert(t)
  <2>1. StoreInv' /\ Lasts
    <3>1. UNCHANGED <<batch, run>> /\ rows' \subseteq Created /\ published' \subseteq Created
      BY <1>2 DEF DeleteRevert, UploadInv, StoreInv
    <3> QED
      BY <3>1, StoreKept DEF UploadInv
  <2>2. Held(t, "delete_record", loc[t]) /\ Go(t, "delete_record", loc[t]) /\ UNCHANGED <<memory, outside>>
    BY <1>1, <1>2, MovesAsItIs DEF DeleteRevert, Goto
  <2> QED
    BY <2>1, <2>2, WriteStep
<1>3. CASE DeleteRecord(t)
  <2>1. CASE Gone \/ (rows \cup published) \cap Created # {}
    <3>1. Goto(t, "idle") /\ UNCHANGED <<store, inflight, queue, arriving>> /\ reproc' \in {reproc, NoRun}
      BY <1>3, <2>1 DEF DeleteRecord, store, outside
    <3> QED
      BY <1>1, <3>1, GotoStep
  <2>2. CASE ~(Gone \/ (rows \cup published) \cap Created # {})
    <3>1. StoreInv' /\ Lasts
      <4>1. rows = {} /\ published = {} /\ UNCHANGED <<rows, published>>
        BY <1>3, <2>2 DEF DeleteRecord, UploadInv, StoreInv
      <4>2. batch' \in Batches /\ batch'.status = "deleted"
        BY <1>3, <2>2 DEF DeleteRecord, UploadInv, StoreInv, Batches
      <4>3. PICK rec : rec = [Absent EXCEPT !.status = "deleted"]
        OBVIOUS
      <4>4. rec \in Record /\ rec.status = "deleted"
        BY <4>3 DEF Absent, Record
      <4>5. run' = [r \in Runs |-> IF r \in Created THEN rec ELSE run[r]]
        BY <1>3, <2>2, <4>3 DEF DeleteRecord
      <4>6. /\ run' \in [Runs -> Record]
            /\ \A r \in Runs : /\ r \in Created => run'[r].status = "deleted"
                               /\ r \notin Created => run'[r] = run[r]
        BY <4>4, <4>5 DEF UploadInv, StoreInv
      <4>7. Created' = {}
        BY <4>6 DEF Created
      <4>8. StoreInv'
        BY <4>1, <4>2, <4>6, <4>7 DEF StoreInv
      <4>9. Lasts
        BY <4>2, <4>6 DEF Lasts, Created
      <4> QED
        BY <4>8, <4>9
    <3>2. MemoryInv'
      BY <1>3, <2>2, <3>1, MemoryKept DEF DeleteRecord, UploadInv, outside
    <3>3. ThreadsInv'
      BY <1>3, <3>1, GoOn DEF DeleteRecord, Goto, UploadInv
    <3> QED
      BY <3>1, <3>2, <3>3 DEF UploadInv
  <2> QED
    BY <2>1, <2>2
<1> QED
  BY <1>2, <1>3

-----------------------------------------------------------------------------
(* Recovery: a request thread or the lifespan hook. *)

(* A poll or a reprocess request reads the batch.                           *)
LEMMA Resuming ==
    ASSUME UploadInv, NEW t \in Threads, Poll(t) \/ Reprocess(t)
    PROVE  UploadInv'
<1>1. {"idle", "check"} \cap (SavesRun \cup SavesBatch) = {}
  BY DEF SavesRun, SavesBatch
<1>2. UNCHANGED <<store, inflight, queue, arriving>> /\ reproc' \in {reproc, NoRun}
  BY DEF Poll, Reprocess, PruneReprocess, memory, outside
<1>3. CASE Goto(t, "idle")
  BY <1>1, <1>2, <1>3, GotoStep
<1>4. CASE Go(t, "check", [loc[t] EXCEPT !.b = batch])
  <2>1. PICK m : m = [loc[t] EXCEPT !.b = batch]
    OBVIOUS
  <2> QED
    BY <1>1, <1>2, <1>4, <2>1, ReadsBatch, GoStepReading
<1> QED
  BY <1>3, <1>4 DEF Poll, Reprocess

(* The threads that recover take no job from the queue.                     *)
LEMMA RecoverersAreNotWorkers ==
    ASSUME UploadInv, NEW t \in Handlers \cup {Boot}
    PROVE  t \in Threads /\ loc[t].kind # "staged"
<1>1. t \in Threads /\ t \notin Workers
  BY UploadConstants, BootIsApart DEF Threads
<1> QED
  BY <1>1, ThreadFacts DEF Held

(* An active run is looked for, and whether anyone works on it.             *)
LEMMA LookingForRuns ==
    ASSUME UploadInv, NEW t \in Handlers \cup {Boot}, FindActive(t) \/ CheckRunning(t)
    PROVE  UploadInv'
<1>1. {"idle", "staged_add", "staged_check", "archive_add", "enqueue"}
        \cap (SavesRun \cup SavesBatch) = {}
  BY DEF SavesRun, SavesBatch
<1>2. UNCHANGED <<store, inflight, queue, arriving>> /\ reproc' \in {reproc, NoRun}
  BY DEF FindActive, CheckRunning, PruneReprocess, memory, outside
<1>3. t \in Threads /\ loc[t].kind # "staged"
  BY RecoverersAreNotWorkers
<1>4. AfterCheck(t) \in {"staged_add", "staged_check", "archive_add", "enqueue"}
  BY DEF AfterCheck
<1>5. CASE FindActive(t)
  <2>1. CASE Goto(t, "idle") \/ Goto(t, AfterCheck(t))
    BY <1>1, <1>2, <1>3, <1>4, <2>1, GotoStep
  <2>2. CASE /\ Active # {}
             /\ Go(t, "check_running", [loc[t] EXCEPT !.run = Newest(Active),
                                                      !.r = run[Newest(Active)],
                                                      !.ret = AfterCheck(t)])
    <3>1. PICK n, rec, after : n = Newest(Active) /\ rec = run[Newest(Active)] /\ after = AfterCheck(t)
      OBVIOUS
    <3>2. Active \subseteq Runs
      BY DEF Active
    <3>3. n \in Active
      BY <2>2, <3>1, <3>2, NewestIsOne
    <3>4. n \in Runs /\ Named(n) /\ rec \in Record /\ after \in Returns
      BY <1>4, <3>1, <3>3 DEF Named, Active, UploadInv, StoreInv, Returns
    <3>5. PICK m : m = [loc[t] EXCEPT !.run = n, !.r = rec, !.ret = after]
      OBVIOUS
    <3>6. m \in Locals /\ m.b = loc[t].b /\ m.kind = loc[t].kind /\ m.run = n
      BY <1>3, <3>4, <3>5, ThreadFacts DEF Locals
    <3>7. Held(t, "check_running", m)
      <4>1. "check_running" \notin SavesBatch \cup {"fail_run", "fin_save", "qa_save"}
        BY DEF SavesBatch
      <4> QED
        BY <1>3, <3>4, <3>6, <4>1, ThreadFacts DEF Held
    <3>8. Go(t, "check_running", m)
      BY <2>2, <3>1, <3>5
    <3> QED
      BY <1>2, <1>3, <3>7, <3>8, ReadStep
  <2> QED
    BY <1>5, <2>1, <2>2 DEF FindActive
<1>6. CASE CheckRunning(t)
  <2>1. PICK label \in {"idle", "zombie"} : Goto(t, label)
    BY <1>6 DEF CheckRunning
  <2>2. CASE label = "idle"
    BY <1>1, <1>2, <1>3, <2>1, <2>2, GotoStep
  <2>3. CASE label = "zombie"
    <3>1. "zombie" \notin SavesBatch \cup {"fail_run", "fin_save", "qa_save"}
      BY DEF SavesBatch
    <3>2. Named(loc[t].run)
      BY <1>3, <1>6, ThreadFacts DEF Held, CheckRunning, SavesRun
    <3>3. Held(t, "zombie", loc[t])
      BY <1>3, <3>1, <3>2, ThreadFacts DEF Held
    <3> QED
      BY <1>2, <1>3, <2>1, <2>3, <3>3, ReadStep DEF Goto
  <2> QED
    BY <2>1, <2>2, <2>3
<1> QED
  BY <1>5, <1>6

(* A run nobody works on is failed.                                         *)
LEMMA FailingZombies ==
    ASSUME UploadInv, NEW t \in Handlers \cup {Boot}, FailZombie(t)
    PROVE  UploadInv'
<1>1. t \in Threads /\ loc[t].kind # "staged"
  BY RecoverersAreNotWorkers
<1>2. StoreInv' /\ Lasts
  <2>1. Named(loc[t].run)
    BY <1>1, ThreadFacts DEF Held, FailZombie, SavesRun
  <2>2. PICK rec : rec = [loc[t].r EXCEPT !.status = "failed", !.reason = "auto"]
    OBVIOUS
  <2>3. rec \in Record /\ rec.status = "failed"
    BY <1>1, <2>2, ThreadFacts DEF Record
  <2>4. SaveRun(loc[t].run, rec) /\ UNCHANGED <<batch, rows, published>>
    BY <2>2 DEF FailZombie
  <2> QED
    BY <2>1, <2>3, <2>4, RunSaved DEF UploadInv
<1>3. PICK m : m = [loc[t] EXCEPT !.run = NoRun, !.ret = "idle"]
  OBVIOUS
<1>4. m \in Locals /\ m.b = loc[t].b /\ m.kind = loc[t].kind
  BY <1>1, <1>3, ThreadFacts DEF Locals, Returns
<1>5. Held(t, loc[t].ret, m)
  <2>1. loc[t].ret \notin SavesRun \cup SavesBatch \cup {"fail_run", "fin_save", "qa_save"}
    BY <1>1, ThreadFacts DEF SavesRun
  <2> QED
    BY <1>1, <1>4, <2>1, ThreadFacts DEF Held
<1>6. Go(t, loc[t].ret, m) /\ UNCHANGED <<memory, outside>>
  BY <1>3 DEF FailZombie
<1> QED
  BY <1>1, <1>2, <1>5, <1>6, WriteStep

(* A run is added while the batch is there, and the thread keeps its name.  *)
LEMMA AddingRun ==
    ASSUME UploadInv, NEW t \in Threads, ~Gone, AddRun(NextRun), UNCHANGED <<batch, rows, published>>,
           UNCHANGED <<memory, outside>>,
           NEW label, label \notin SavesBatch \cup {"fail_run", "fin_save", "qa_save"},
           Go(t, label, [loc[t] EXCEPT !.run = NextRun])
    PROVE  UploadInv'
<1>1. PICK n : n = NextRun
  OBVIOUS
<1>2. StoreInv' /\ Lasts /\ Named(n)'
  BY <1>1, RunAdded DEF UploadInv
<1>3. n \in Runs
  BY <1>2 DEF Named, Runs
<1>4. PICK m : m = [loc[t] EXCEPT !.run = n]
  OBVIOUS
<1>5. m \in Locals /\ m.b = loc[t].b /\ m.kind = loc[t].kind /\ m.run = n
  BY <1>3, <1>4, ThreadFacts DEF Locals
<1>6. Held(t, label, m)'
  BY <1>2, <1>5, ThreadFacts DEF Held, Lasts
<1>7. Go(t, label, m)
  BY <1>1, <1>4
<1>8. ThreadsInv'
  BY <1>2, <1>6, <1>7, GoStep DEF UploadInv
<1>9. MemoryInv'
  BY <1>2, MemoryKept DEF UploadInv, memory, outside
<1> QED
  BY <1>2, <1>8, <1>9 DEF UploadInv

(* A recovery adds a run, or gives up because the batch is gone.            *)
LEMMA AddingRecoveryRuns ==
    ASSUME UploadInv, NEW t \in Threads, AddRecoveryRun(t)
    PROVE  UploadInv'
<1>1. CASE Gone
  <2>1. "idle" \notin SavesRun \cup SavesBatch
    BY DEF SavesRun, SavesBatch
  <2>2. Goto(t, "idle") /\ UNCHANGED <<store, inflight, queue, arriving>> /\ reproc' \in {reproc, NoRun}
    BY <1>1 DEF AddRecoveryRun, store, memory, outside
  <2> QED
    BY <2>1, <2>2, GotoStep
<1>2. CASE ~Gone
  <2>1. PICK label \in {"enqueue_staged", "enqueue"} : Go(t, label, [loc[t] EXCEPT !.run = NextRun])
    BY <1>2 DEF AddRecoveryRun
  <2>2. label \notin SavesBatch \cup {"fail_run", "fin_save", "qa_save"}
    BY DEF SavesBatch
  <2>3. AddRun(NextRun) /\ UNCHANGED <<batch, rows, published>> /\ UNCHANGED <<memory, outside>>
    BY <1>2 DEF AddRecoveryRun
  <2> QED
    BY <1>2, <2>1, <2>2, <2>3, AddingRun
<1> QED
  BY <1>1, <1>2

(* A job is queued and registered; a job of a run names a run that exists.  *)
LEMMA Enqueueing ==
    ASSUME UploadInv, NEW t \in Threads, EnqueueStaged(t) \/ EnqueueUpload(t)
    PROVE  UploadInv'
<1>1. /\ UNCHANGED <<store, arriving>> /\ Goto(t, "idle") /\ inflight' \in BOOLEAN
      /\ reproc' \in Runs \cup {NoRun}
  BY ThreadFacts DEF EnqueueStaged, EnqueueUpload, outside, UploadInv, MemoryInv
<1>2. PICK kind, r : /\ Enqueue(kind, r)
                     /\ kind \in {"upload", "archive", "staged"} /\ r \in Runs \cup {NoRun}
                     /\ kind = "staged" => Named(r)
  <2>1. CASE EnqueueStaged(t)
    BY <2>1, ThreadFacts DEF EnqueueStaged, Held, SavesRun
  <2>2. CASE EnqueueUpload(t)
    BY <2>2 DEF EnqueueUpload
  <2> QED
    BY <2>1, <2>2
<1>3. StoreInv' /\ Lasts
  BY <1>1, StoreKept DEF UploadInv, StoreInv, store
<1>4. MemoryInv'
  <2>1. PICK job : job = [kind |-> kind, run |-> r]
    OBVIOUS
  <2>2. job \in Jobs /\ job.kind = kind /\ job.run = r
    BY <1>2, <2>1 DEF Jobs
  <2>3. queue' = Append(queue, job) /\ Len(queue) < MaxJobs /\ queue \in Seq(Jobs)
    BY <1>2, <2>1 DEF Enqueue, UploadInv, MemoryInv
  <2>4. queue' \in Seq(Jobs) /\ Len(queue') <= MaxJobs /\ Len(queue') = Len(queue) + 1
        /\ queue'[Len(queue) + 1] = job /\ \A i \in 1..Len(queue) : queue'[i] = queue[i]
    BY <2>2, <2>3, UploadConstants
  <2>5. \A i \in 1..Len(queue') : queue'[i].kind = "staged" => Named(queue'[i].run)
    BY <1>2, <2>2, <2>3, <2>4 DEF UploadInv, MemoryInv
  <2>6. \A q : Named(q) => Named(q)'
    BY <1>3 DEF Named, Lasts
  <2>7. \A i \in 1..Len(queue') : queue'[i].kind = "staged" => queue'[i].run \in Runs /\ run'[queue'[i].run].status # "absent"
    BY <1>1, <2>5 DEF Named, store
  <2> QED
    BY <1>1, <2>4, <2>7 DEF UploadInv, MemoryInv, Named
<1>5. ThreadsInv'
  BY <1>1, <1>3, GoOn DEF Goto, UploadInv
<1> QED
  BY <1>3, <1>4, <1>5 DEF UploadInv

-----------------------------------------------------------------------------
(* Publication and evaluation. *)

(* A publication names a run that still is there.                           *)
LEMMA Publishing ==
    ASSUME UploadInv, NEW t \in Threads, Publish(t) \/ PublishRefused(t) \/ PublishCreate(t)
    PROVE  UploadInv'
<1>1. {"idle", "publish_create"} \cap (SavesRun \cup SavesBatch) = {}
  BY DEF SavesRun, SavesBatch
<1>2. CASE Publish(t)
  <2>1. PICK r \in Created : Go(t, "publish_create", [loc[t] EXCEPT !.run = r])
    BY <1>2 DEF Publish
  <2>2. PICK m : m = [loc[t] EXCEPT !.run = r]
    OBVIOUS
  <2>3. m \in Locals /\ m.b = loc[t].b /\ m.kind = loc[t].kind /\ m.run = r /\ Named(r)
    BY <2>1, <2>2, ThreadFacts DEF Locals, Created, Named
  <2>4. UNCHANGED <<store, inflight, queue, arriving>> /\ reproc' \in {reproc, NoRun}
    BY <1>2 DEF Publish, memory, outside
  <2> QED
    BY <1>1, <2>1, <2>2, <2>3, <2>4, GoStepReading
<1>3. CASE PublishRefused(t)
  <2>1. Goto(t, "idle") /\ UNCHANGED <<store, inflight, queue, arriving>> /\ reproc' \in {reproc, NoRun}
    BY <1>3 DEF PublishRefused, memory, outside
  <2> QED
    BY <1>1, <2>1, GotoStep
<1>4. CASE PublishCreate(t)
  <2>1. UNCHANGED <<batch, run>> /\ rows' \subseteq Created /\ published' \subseteq Created
    BY <1>4 DEF PublishCreate, UploadInv, StoreInv
  <2>2. Held(t, "idle", loc[t]) /\ Go(t, "idle", loc[t]) /\ UNCHANGED <<memory, outside>>
    BY <1>1, <1>4, MovesAsItIs DEF PublishCreate, Goto
  <2> QED
    BY <2>1, <2>2, StoreKept, WriteStep DEF UploadInv
<1> QED
  BY <1>2, <1>3, <1>4

(* A run is chosen for evaluation, and read.                                *)
LEMMA Evaluating ==
    ASSUME UploadInv, NEW t \in Threads, Evaluate(t) \/ ReadForVerdict(t)
    PROVE  UploadInv'
<1>1. UNCHANGED <<store, inflight, queue, arriving>> /\ reproc' \in {reproc, NoRun}
  BY DEF Evaluate, ReadForVerdict, memory, outside
<1>2. CASE Evaluate(t)
  <2>1. CASE Goto(t, "idle")
    <3>1. "idle" \notin SavesRun \cup SavesBatch
      BY DEF SavesRun, SavesBatch
    <3> QED
      BY <1>1, <2>1, <3>1, GotoStep
  <2>2. CASE \E r \in Created : Go(t, "qa_read", [loc[t] EXCEPT !.run = r])
    <3>1. PICK r \in Created : Go(t, "qa_read", [loc[t] EXCEPT !.run = r])
      BY <2>2
    <3>2. PICK m : m = [loc[t] EXCEPT !.run = r]
      OBVIOUS
    <3>3. m \in Locals /\ m.b = loc[t].b /\ m.kind = loc[t].kind /\ m.run = r /\ Named(r)
      BY <3>1, <3>2, ThreadFacts DEF Locals, Created, Named
    <3>4. "qa_read" \notin SavesBatch \cup {"fail_run", "fin_save", "qa_save"}
      BY DEF SavesBatch
    <3>5. Held(t, "qa_read", m)
      BY <3>3, <3>4, ThreadFacts DEF Held
    <3> QED
      BY <1>1, <3>1, <3>2, <3>5, ReadStep
  <2> QED
    BY <1>2, <2>1, <2>2 DEF Evaluate
<1>3. CASE ReadForVerdict(t)
  <2>1. Named(loc[t].run)
    BY <1>3, ThreadFacts DEF Held, ReadForVerdict, SavesRun
  <2>2. PICK rec, m : rec = run[loc[t].run] /\ m = [loc[t] EXCEPT !.r = rec]
    OBVIOUS
  <2>3. rec \in Record /\ rec.status # "absent"
    BY <2>1, <2>2 DEF Named, UploadInv, StoreInv
  <2>4. m \in Locals /\ m.b = loc[t].b /\ m.kind = loc[t].kind /\ m.run = loc[t].run /\ m.r = rec
    BY <2>2, <2>3, ThreadFacts DEF Locals
  <2>5. "qa_save" \notin SavesBatch \cup {"fail_run", "fin_save"}
    BY DEF SavesBatch
  <2>6. Held(t, "qa_save", m)
    BY <2>1, <2>2, <2>3, <2>4, <2>5, ThreadFacts DEF Held
  <2>7. Go(t, "qa_save", m)
    BY <1>3, <2>2 DEF ReadForVerdict
  <2> QED
    BY <1>1, <2>6, <2>7, ReadStep
<1> QED
  BY <1>2, <1>3

(* The row read is written back with the verdict.                           *)
LEMMA SavingVerdicts ==
    ASSUME UploadInv, NEW t \in Threads, SaveVerdict(t)
    PROVE  UploadInv'
<1>1. {"idle", "at_verdict"} \cap (SavesRun \cup SavesBatch) = {}
  BY DEF SavesRun, SavesBatch
<1>2. UNCHANGED <<memory, outside>> /\ UNCHANGED <<batch, rows, published>>
  BY DEF SaveVerdict
<1>3. StoreInv' /\ Lasts
  <2>1. CASE UNCHANGED run
    BY <1>2, <2>1, StoreKept DEF UploadInv, StoreInv
  <2>2. CASE \E verdict \in {"pass", "fail"} : SaveRun(loc[t].run, [loc[t].r EXCEPT !.verdict = verdict])
    <3>1. PICK verdict \in {"pass", "fail"} : SaveRun(loc[t].run, [loc[t].r EXCEPT !.verdict = verdict])
      BY <2>2
    <3>2. PICK rec : rec = [loc[t].r EXCEPT !.verdict = verdict]
      OBVIOUS
    <3>3. rec \in Record /\ rec.status = loc[t].r.status
      BY <3>2, ThreadFacts DEF Record
    <3>4. /\ Named(loc[t].run) /\ loc[t].r.status # "absent"
          /\ loc[t].r.status = "deleted" => run[loc[t].run].status = "deleted"
      BY ThreadFacts DEF Held, SaveVerdict, SavesRun
    <3> QED
      BY <1>2, <3>1, <3>2, <3>3, <3>4, RunSaved DEF UploadInv
  <2> QED
    BY <2>1, <2>2 DEF SaveVerdict
<1>4. PICK label, m : Go(t, label, m) /\ Held(t, label, m)
  <2>1. CASE RaiseError(t)
    BY <2>1, Raised
  <2>2. CASE \E label \in {"idle", "at_verdict"} : Goto(t, label)
    BY <1>1, <2>2, MovesAsItIs DEF Goto
  <2> QED
    BY <2>1, <2>2 DEF SaveVerdict
<1> QED
  BY <1>2, <1>3, <1>4, WriteStep

-----------------------------------------------------------------------------
(* The jobs. *)

(* A worker takes the job at the head of the queue.                         *)
LEMMA TakingJobs ==
    ASSUME UploadInv, NEW w \in Workers, TakeJob(w)
    PROVE  UploadInv'
<1>1. w \in Threads
  BY DEF Threads
<1>2. StoreInv' /\ Lasts
  BY StoreKept DEF TakeJob, UploadInv, StoreInv, store
<1>3. PICK job : job = Head(queue)
  OBVIOUS
<1>4. queue # <<>> /\ queue \in Seq(Jobs) /\ queue' = Tail(queue)
  BY DEF TakeJob, UploadInv, MemoryInv
<1>5. Len(queue) \in Nat \ {0} /\ job = queue[1] /\ 1 \in 1..Len(queue) /\ job \in Jobs
  BY <1>3, <1>4, EmptySeq
<1>6. job.kind \in Kinds /\ job.run \in Runs \cup {NoRun} /\ (job.kind = "staged" => Named(job.run))
  BY <1>5 DEF Jobs, Kinds, UploadInv, MemoryInv
<1>7. MemoryInv'
  <2>1. queue' \in Seq(Jobs) /\ Len(queue') = Len(queue) - 1 /\ \A i \in 1..Len(queue') : queue'[i] = queue[i + 1]
    BY <1>4, <1>5
  <2>2. Len(queue') <= MaxJobs
    BY <1>5, <2>1, UploadConstants DEF UploadInv, MemoryInv
  <2>3. \A i \in 1..Len(queue') : queue'[i].kind = "staged" => Named(queue'[i].run)
    <3>1. ASSUME NEW i \in 1..Len(queue') PROVE i + 1 \in 1..Len(queue) /\ queue'[i] = queue[i + 1]
      BY <1>5, <2>1
    <3> QED
      BY <3>1 DEF UploadInv, MemoryInv
  <2>4. \A q : Named(q) => q \in Runs /\ run'[q].status # "absent"
    BY <1>2 DEF Named, Lasts
  <2>5. \A i \in 1..Len(queue') : queue'[i].kind = "staged" => queue'[i].run \in Runs /\ run'[queue'[i].run].status # "absent"
    BY <2>3, <2>4
  <2> QED
    BY <2>1, <2>2, <2>5 DEF TakeJob, UploadInv, MemoryInv, Named, outside
<1>8. PICK m : m = [Blank EXCEPT !.kind = job.kind, !.run = job.run, !.ret = "fin"]
  OBVIOUS
<1>9. m \in Locals /\ m.b.status = "none" /\ m.kind = job.kind /\ m.run = job.run
  BY <1>6, <1>8, BlankIsLocal DEF Locals, Returns
<1>10. PICK label : /\ label = CASE Gone \/ (job.kind = "staged" /\ run[job.run].status = "deleted")
                                      -> "fin"
                                 [] job.kind = "upload"  -> "at_ingest"
                                 [] job.kind = "archive" -> "reset"
                                 [] job.kind = "staged"  -> "at_staged"
                    /\ Go(w, label, m)
  BY <1>3, <1>8 DEF TakeJob
<1>11. label \in {"fin", "at_ingest", "reset", "at_staged"}
  BY <1>5, <1>10 DEF Jobs
<1>12. label \notin SavesRun \cup SavesBatch \cup {"fail_run", "fin_save", "qa_save"}
  BY <1>11 DEF SavesRun, SavesBatch
<1>13. Held(w, label, m)
  BY <1>6, <1>9, <1>12 DEF Held
<1>14. ThreadsInv'
  BY <1>1, <1>2, <1>10, <1>13, GoOn DEF UploadInv
<1> QED
  BY <1>2, <1>7, <1>14 DEF UploadInv

(* An archive job begins by resetting its batch.                            *)
LEMMA Resetting ==
    ASSUME UploadInv, NEW t \in Threads, ResetStaging(t)
    PROVE  UploadInv'
<1>1. StoreInv' /\ Lasts
  <2>1. batch' \in Batches /\ (batch.status = "deleted" <=> batch'.status = "deleted")
    BY DEF ResetStaging, UploadInv, StoreInv, Batches, Reasons, Gone
  <2> QED
    BY <2>1 DEF ResetStaging, UploadInv, StoreInv, Lasts, Created
<1>2. PICK label, m : Go(t, label, m) /\ Held(t, label, m)
  <2>1. CASE Gone
    BY <2>1, Raised DEF ResetStaging
  <2>2. CASE ~Gone
    <3>1. "at_ingest" \notin SavesRun \cup SavesBatch
      BY DEF SavesRun, SavesBatch
    <3> QED
      BY <2>2, <3>1, MovesAsItIs DEF ResetStaging, Goto
  <2> QED
    BY <2>1, <2>2
<1> QED
  BY <1>1, <1>2, WriteStep DEF ResetStaging

(* A progress write goes on, or begins the cancellation.                    *)
LEMMA Passing ==
    ASSUME UploadInv, NEW t \in Threads, Checkpoint(t)
    PROVE  UploadInv'
<1>1. UNCHANGED <<store, inflight, queue, arriving>> /\ reproc' \in {reproc, NoRun}
  BY DEF Checkpoint, memory, outside
<1>2. CASE RaiseCancelled(t)
  <2>1. "fc_read" \notin SavesRun \cup SavesBatch
    BY DEF SavesRun, SavesBatch
  <2> QED
    BY <1>1, <1>2, <2>1, GotoStep DEF RaiseCancelled
<1>3. CASE pc[t] \in DOMAIN AfterCheckpoint /\ Goto(t, AfterCheckpoint[pc[t]])
  <2>1. \/ pc[t] \in {"at_ingest", "at_transform", "at_verdict", "at_staged", "at_failed"}
        \/ pc[t] = "at_rows" \/ pc[t] = "at_chunk" \/ pc[t] = "at_qa"
    BY <1>3 DEF AfterCheckpoint
  <2>2. CASE pc[t] \in {"at_ingest", "at_transform", "at_verdict", "at_staged", "at_failed"}
    <3>1. PICK label \in {"ingest", "transform", "fin"} : Goto(t, label)
      BY <1>3, <2>2 DEF AfterCheckpoint
    <3>2. label \notin SavesRun \cup SavesBatch
      BY DEF SavesRun, SavesBatch
    <3> QED
      BY <1>1, <3>1, <3>2, GotoStep
  <2>3. CASE pc[t] = "at_rows"
    <3>1. Goto(t, "stage")
      BY <1>3, <2>3 DEF AfterCheckpoint
    <3>2. Held(t, "stage", loc[t])
      BY <2>3, ThreadFacts DEF Held, SavesRun, SavesBatch
    <3> QED
      BY <1>1, <3>1, <3>2, ReadStep DEF Goto
  <2>4. CASE pc[t] = "at_chunk"
    <3>1. Goto(t, "chunk")
      BY <1>3, <2>4 DEF AfterCheckpoint
    <3>2. Held(t, "chunk", loc[t])
      BY <2>4, ThreadFacts DEF Held, SavesRun, SavesBatch
    <3> QED
      BY <1>1, <3>1, <3>2, ReadStep DEF Goto
  <2>5. CASE pc[t] = "at_qa"
    <3>1. Goto(t, "qa_read")
      BY <1>3, <2>5 DEF AfterCheckpoint
    <3>2. Held(t, "qa_read", loc[t])
      BY <2>5, ThreadFacts DEF Held, SavesRun, SavesBatch
    <3> QED
      BY <1>1, <3>1, <3>2, ReadStep DEF Goto
  <2> QED
    BY <2>1, <2>2, <2>3, <2>4, <2>5
<1> QED
  BY <1>2, <1>3 DEF Checkpoint

(* The workbook is ingested: the batch row is read and written back.        *)
LEMMA Ingesting ==
    ASSUME UploadInv, NEW t \in Threads, IngestRead(t) \/ IngestLayout(t)
    PROVE  UploadInv'
<1>1. CASE IngestRead(t)
  <2>1. UNCHANGED <<store, inflight, queue, arriving>> /\ reproc' \in {reproc, NoRun}
    BY <1>1 DEF IngestRead, memory, outside
  <2>2. PICK label, m : Go(t, label, m) /\ Held(t, label, m)
    <3>1. CASE Go(t, "layout", [loc[t] EXCEPT !.b = batch])
      <4>1. PICK m : m = [loc[t] EXCEPT !.b = batch]
        OBVIOUS
      <4>2. "layout" \notin SavesRun \cup {"fail_run", "fin_save", "qa_save"}
        BY DEF SavesRun
      <4>3. Held(t, "layout", m)
        BY <4>1, <4>2, ReadsBatch, ThreadFacts DEF Held
      <4> QED
        BY <3>1, <4>1, <4>3
    <3>2. CASE RaiseError(t)
      BY <3>2, Raised
    <3> QED
      BY <1>1, <3>1, <3>2 DEF IngestRead
  <2> QED
    BY <2>1, <2>2, ReadStep
<1>2. CASE IngestLayout(t)
  <2>1. /\ loc[t].b \in Batches /\ SaveBatch(loc[t].b) /\ UNCHANGED <<run, rows, published>>
        /\ loc[t].b.status = "deleted" => batch.status = "deleted"
    BY <1>2, ThreadFacts DEF IngestLayout, Held, SavesBatch
  <2>2. StoreInv' /\ Lasts
    BY <2>1, BatchSaved DEF UploadInv
  <2>3. Held(t, "at_rows", loc[t])
    BY <1>2, ThreadFacts DEF IngestLayout, Held, SavesRun, SavesBatch
  <2> QED
    BY <1>2, <2>2, <2>3, WriteStep DEF IngestLayout, Goto
<1> QED
  BY <1>1, <1>2

(* The outcome of the ingest is written back.                               *)
LEMMA Staging ==
    ASSUME UploadInv, NEW t \in Threads, Stage(t)
    PROVE  UploadInv'
<1>1. {"find_run", "at_failed"} \cap (SavesRun \cup SavesBatch) = {}
  BY DEF SavesRun, SavesBatch
<1>2. loc[t].b \in Batches
  BY ThreadFacts DEF Stage, Held, SavesBatch
<1>3. \E rec \in Batches : rec.status # "deleted" /\ SaveBatch(rec)
  <2>1. CASE SaveBatch([loc[t].b EXCEPT !.status = "staged", !.staged = TRUE])
    <3>1. PICK rec : rec = [loc[t].b EXCEPT !.status = "staged", !.staged = TRUE]
      OBVIOUS
    <3>2. rec \in Batches /\ rec.status = "staged"
      BY <1>2, <3>1 DEF Batches
    <3> QED
      BY <2>1, <3>1, <3>2
  <2>2. CASE \E staged \in BOOLEAN :
                SaveBatch([loc[t].b EXCEPT !.status = "failed", !.staged = staged, !.reason = "other"])
    <3>1. PICK staged \in BOOLEAN :
                SaveBatch([loc[t].b EXCEPT !.status = "failed", !.staged = staged, !.reason = "other"])
      BY <2>2
    <3>2. PICK rec : rec = [loc[t].b EXCEPT !.status = "failed", !.staged = staged, !.reason = "other"]
      OBVIOUS
    <3>3. rec \in Batches /\ rec.status = "failed"
      BY <1>2, <3>2 DEF Batches, Reasons
    <3> QED
      BY <3>1, <3>2, <3>3
  <2> QED
    BY <2>1, <2>2 DEF Stage
<1>4. StoreInv' /\ Lasts
  BY <1>3, BatchSaved DEF Stage, UploadInv
<1>5. PICK label \in {"find_run", "at_failed"} : Goto(t, label)
  BY DEF Stage
<1>6. Held(t, label, loc[t])
  BY <1>1, <1>5, MovesAsItIs
<1> QED
  BY <1>4, <1>5, <1>6, WriteStep DEF Stage, Goto

(* The job finds its run, or adds it.                                       *)
LEMMA ChoosingRun ==
    ASSUME UploadInv, NEW t \in Threads, FindRun(t) \/ AddJobRun(t)
    PROVE  UploadInv'
<1>1. {"add_run", "at_transform"} \cap (SavesRun \cup SavesBatch \cup {"fail_run", "fin_save", "qa_save"}) = {}
  BY DEF SavesRun, SavesBatch
<1>2. CASE FindRun(t)
  <2>1. UNCHANGED <<store, inflight, queue, arriving>> /\ reproc' \in {reproc, NoRun}
    BY <1>2 DEF FindRun, memory, outside
  <2>2. CASE Goto(t, "add_run")
    BY <1>1, <2>1, <2>2, GotoStep
  <2>3. CASE Active # {} /\ Go(t, "at_transform", [loc[t] EXCEPT !.run = Newest(Active)])
    <3>1. PICK n, m : n = Newest(Active) /\ m = [loc[t] EXCEPT !.run = n]
      OBVIOUS
    <3>2. n \in Active
      BY <2>3, <3>1, NewestIsOne DEF Active
    <3>3. n \in Runs /\ Named(n)
      BY <3>2 DEF Named, Active
    <3>4. m \in Locals /\ m.b = loc[t].b /\ m.kind = loc[t].kind /\ m.run = n
      BY <3>1, <3>3, ThreadFacts DEF Locals
    <3> QED
      BY <1>1, <2>1, <2>3, <3>1, <3>3, <3>4, GoStepReading
  <2> QED
    BY <1>2, <2>2, <2>3 DEF FindRun
<1>3. CASE AddJobRun(t)
  <2>1. CASE Gone
    <3>1. PICK label, m : Go(t, label, m) /\ Held(t, label, m)
      BY <1>3, <2>1, Raised DEF AddJobRun
    <3>2. UNCHANGED <<store, inflight, queue, arriving>> /\ reproc' \in {reproc, NoRun}
      BY <1>3, <2>1 DEF AddJobRun, store, memory, outside
    <3> QED
      BY <3>1, <3>2, ReadStep
  <2>2. CASE ~Gone
    BY <1>1, <1>3, <2>2, AddingRun DEF AddJobRun
  <2> QED
    BY <2>1, <2>2
<1> QED
  BY <1>2, <1>3

(* A transformation reads both rows and writes the run as running.          *)
LEMMA StartingTransform ==
    ASSUME UploadInv, NEW t \in Threads, TransformRead(t) \/ TransformRunning(t)
    PROVE  UploadInv'
<1>1. CASE TransformRead(t)
  <2>1. UNCHANGED <<store, inflight, queue, arriving>> /\ reproc' \in {reproc, NoRun}
    BY <1>1 DEF TransformRead, memory, outside
  <2>2. CASE RaiseError(t)
    BY <2>1, <2>2, Raised, ReadStep
  <2>3. CASE /\ loc[t].run \in Created
             /\ Go(t, "running", [loc[t] EXCEPT !.b = batch, !.r = run[loc[t].run]])
    <3>1. PICK rec, m : rec = run[loc[t].run] /\ m = [loc[t] EXCEPT !.b = batch, !.r = rec]
      OBVIOUS
    <3>2. rec \in Record /\ Named(loc[t].run) /\ batch \in Batches
      BY <2>3, <3>1 DEF UploadInv, StoreInv, Created, Named
    <3>3. m \in Locals /\ m.b = batch /\ m.kind = loc[t].kind /\ m.run = loc[t].run
      BY <3>1, <3>2, ThreadFacts DEF Locals
    <3>4. "running" \notin {"fail_run", "fin_save", "qa_save"}
      OBVIOUS
    <3>5. Held(t, "running", m)
      BY <3>2, <3>3, <3>4, ThreadFacts DEF Held
    <3> QED
      BY <2>1, <2>3, <3>1, <3>5, ReadStep
  <2> QED
    BY <1>1, <2>2, <2>3 DEF TransformRead
<1>2. CASE TransformRunning(t)
  <2>1. PICK rec : rec = [loc[t].r EXCEPT !.status = "running"]
    OBVIOUS
  <2>2. rec \in Record /\ rec.status = "running"
    BY <2>1, ThreadFacts DEF Record
  <2>3. Named(loc[t].run) /\ Held(t, "at_chunk", loc[t])
    BY <1>2, ThreadFacts DEF TransformRunning, Held, SavesRun, SavesBatch
  <2>4. StoreInv' /\ Lasts
    BY <1>2, <2>1, <2>2, <2>3, RunSaved DEF TransformRunning, UploadInv
  <2> QED
    BY <1>2, <2>3, <2>4, WriteStep DEF TransformRunning, Goto
<1> QED
  BY <1>1, <1>2

(* A chunk of rows names a run that still is there.                         *)
LEMMA WritingChunks ==
    ASSUME UploadInv, NEW t \in Threads, TransformChunk(t)
    PROVE  UploadInv'
<1>1. StoreInv' /\ Lasts
  <2>1. UNCHANGED <<batch, run>> /\ rows' \subseteq Created /\ published' \subseteq Created
    BY DEF TransformChunk, UploadInv, StoreInv
  <2> QED
    BY <2>1, StoreKept DEF UploadInv
<1>2. Held(t, "at_chunk", loc[t])
  BY ThreadFacts DEF TransformChunk, Held, SavesRun, SavesBatch
<1> QED
  BY <1>1, <1>2, WriteStep DEF TransformChunk, Goto

(* The end of a transformation writes its run back.                         *)
LEMMA EndingTransform ==
    ASSUME UploadInv, NEW t \in Threads, TransformEnd(t)
    PROVE  UploadInv'
<1>1. \E rec \in Record : rec.status \in {"succeeded", "failed"} /\ SaveRun(loc[t].run, rec)
  <2>1. PICK status \in {"succeeded", "failed"}, reason \in Reasons :
           SaveRun(loc[t].run, [loc[t].r EXCEPT !.status = status, !.reason = reason])
    BY DEF TransformEnd, Reasons
  <2>2. PICK rec : rec = [loc[t].r EXCEPT !.status = status, !.reason = reason]
    OBVIOUS
  <2>3. rec \in Record /\ rec.status = status
    BY <2>2, ThreadFacts DEF Record, Reasons
  <2> QED
    BY <2>1, <2>2, <2>3
<1>2. Named(loc[t].run)
  BY ThreadFacts DEF TransformEnd, Held, SavesRun
<1>3. StoreInv' /\ Lasts
  BY <1>1, <1>2, RunSaved DEF TransformEnd, UploadInv
<1>4. PICK label, m : Go(t, label, m) /\ Held(t, label, m)
  <2>1. CASE Goto(t, "processed")
    <3>1. Held(t, "processed", loc[t])
      BY ThreadFacts DEF TransformEnd, Held, SavesRun, SavesBatch
    <3> QED
      BY <2>1, <3>1 DEF Goto
  <2>2. CASE Goto(t, "at_qa")
    <3>1. Held(t, "at_qa", loc[t])
      BY ThreadFacts DEF TransformEnd, Held, SavesRun, SavesBatch
    <3> QED
      BY <2>2, <3>1 DEF Goto
  <2>3. CASE RaiseError(t)
    BY <2>3, Raised
  <2> QED
    BY <2>1, <2>2, <2>3 DEF TransformEnd
<1> QED
  BY <1>3, <1>4, WriteStep DEF TransformEnd

(* The batch is written back as processed.                                  *)
LEMMA MarkingProcessed ==
    ASSUME UploadInv, NEW t \in Threads, TransformProcessed(t)
    PROVE  UploadInv'
<1>1. PICK rec : rec = [loc[t].b EXCEPT !.status = "processed"]
  OBVIOUS
<1>2. loc[t].b \in Batches /\ Held(t, "at_qa", loc[t])
  BY ThreadFacts DEF TransformProcessed, Held, SavesRun, SavesBatch
<1>3. rec \in Batches /\ rec.status = "processed"
  BY <1>1, <1>2 DEF Batches
<1>4. StoreInv' /\ Lasts
  BY <1>1, <1>3, BatchSaved DEF TransformProcessed, UploadInv
<1> QED
  BY <1>2, <1>4, WriteStep DEF TransformProcessed, Goto

-----------------------------------------------------------------------------
(* Failure and the end of a job. *)

(* An upload is failed.                                                     *)
LEMMA FailingUploads ==
    ASSUME UploadInv, NEW t \in Threads, FailRead(t) \/ FailSave(t)
    PROVE  UploadInv'
<1>1. {"fc_read", "fb_stage"} \cap (SavesRun \cup SavesBatch) = {}
  BY DEF SavesRun, SavesBatch
<1>2. CASE FailRead(t)
  <2>1. UNCHANGED <<store, inflight, queue, arriving>> /\ reproc' \in {reproc, NoRun}
    BY <1>2 DEF FailRead, memory, outside
  <2>2. CASE Goto(t, loc[t].ret) \/ Goto(t, "fc_read")
    BY <1>1, <2>1, <2>2, ThreadFacts, GotoStep
  <2>3. CASE Go(t, "fb_save", [loc[t] EXCEPT !.b = batch])
    <3>1. PICK m : m = [loc[t] EXCEPT !.b = batch]
      OBVIOUS
    <3>2. "fb_save" \notin SavesRun \cup {"fail_run", "fin_save", "qa_save"}
      BY DEF SavesRun
    <3>3. Held(t, "fb_save", m)
      BY <3>1, <3>2, ReadsBatch, ThreadFacts DEF Held
    <3> QED
      BY <2>1, <2>3, <3>1, <3>3, ReadStep
  <2> QED
    BY <1>2, <2>2, <2>3 DEF FailRead, Return
<1>3. CASE FailSave(t)
  <2>1. PICK rec : rec = [loc[t].b EXCEPT !.status = "failed", !.reason = loc[t].why]
    OBVIOUS
  <2>2. loc[t].b \in Batches
    BY <1>3, ThreadFacts DEF FailSave, Held, SavesBatch
  <2>3. rec \in Batches /\ rec.status = "failed"
    BY <2>1, <2>2, ThreadFacts DEF Batches
  <2>4. StoreInv' /\ Lasts
    BY <1>3, <2>1, <2>3, BatchSaved DEF FailSave, UploadInv
  <2>5. Held(t, "fb_stage", loc[t])
    BY <1>1, MovesAsItIs
  <2> QED
    BY <1>3, <2>4, <2>5, WriteStep DEF FailSave, Goto
<1> QED
  BY <1>2, <1>3

(* The run to fail is read: it exists, and is written back as failed.       *)
LEMMA FailingRuns ==
    ASSUME UploadInv, NEW t \in Threads, FailStage(t) \/ FailReprocess(t)
    PROVE  UploadInv'
<1>1. UNCHANGED <<store, inflight, queue, arriving>> /\ reproc' \in {reproc, NoRun}
  BY DEF FailStage, FailReprocess, memory, outside
<1>2. CASE Goto(t, loc[t].ret)
  BY <1>1, <1>2, ThreadFacts, GotoStep
<1>3. "fail_run" \notin SavesBatch \cup {"qa_save"}
  BY DEF SavesBatch
<1>4. CASE /\ Created # {}
           /\ Go(t, "fail_run", [loc[t] EXCEPT !.run = Oldest(Created),
                                   !.r = [run[Oldest(Created)] EXCEPT !.status = "failed"]])
  <2>1. PICK first : first = Oldest(Created)
    OBVIOUS
  <2>2. Created \subseteq Runs
    BY DEF Created
  <2>3. first \in Created
    BY <1>4, <2>1, <2>2, OldestIsOne
  <2>4. first \in Runs /\ Named(first)
    BY <2>3 DEF Created, Named
  <2>5. PICK rec : rec = [run[first] EXCEPT !.status = "failed"]
    OBVIOUS
  <2>6. rec \in Record /\ rec.status = "failed"
    BY <2>4, <2>5 DEF Record, UploadInv, StoreInv
  <2>7. PICK m : m = [loc[t] EXCEPT !.run = first, !.r = rec]
    OBVIOUS
  <2>8. m \in Locals /\ m.b = loc[t].b /\ m.kind = loc[t].kind /\ m.run = first /\ m.r = rec
    BY <2>4, <2>6, <2>7, ThreadFacts DEF Locals
  <2>9. Held(t, "fail_run", m)
    BY <1>3, <2>4, <2>6, <2>8, ThreadFacts DEF Held
  <2>10. Go(t, "fail_run", m)
    BY <1>4, <2>1, <2>5, <2>7
  <2> QED
    BY <1>1, <2>9, <2>10, ReadStep
<1>5. CASE /\ FailReprocess(t)
           /\ Go(t, "fail_run", [loc[t] EXCEPT !.r =
                       [run[loc[t].run] EXCEPT !.status = "failed", !.reason = loc[t].why]])
  <2>1. Named(loc[t].run)
    BY <1>5, ThreadFacts DEF FailReprocess, Held, SavesRun
  <2>2. PICK rec : rec = [run[loc[t].run] EXCEPT !.status = "failed", !.reason = loc[t].why]
    OBVIOUS
  <2>3. rec \in Record /\ rec.status = "failed"
    BY <2>1, <2>2, ThreadFacts DEF Record, Reasons, Named, UploadInv, StoreInv
  <2>4. PICK m : m = [loc[t] EXCEPT !.r = rec]
    OBVIOUS
  <2>5. m \in Locals /\ m.b = loc[t].b /\ m.kind = loc[t].kind /\ m.run = loc[t].run /\ m.r = rec
    BY <2>3, <2>4, ThreadFacts DEF Locals
  <2>6. Held(t, "fail_run", m)
    BY <1>3, <2>1, <2>3, <2>5, ThreadFacts DEF Held
  <2>7. Go(t, "fail_run", m)
    BY <1>5, <2>2, <2>4
  <2> QED
    BY <1>1, <2>6, <2>7, ReadStep
<1> QED
  BY <1>2, <1>4, <1>5 DEF FailStage, FailReprocess, Return

(* The row of the run to fail is written.                                   *)
LEMMA SavingFailures ==
    ASSUME UploadInv, NEW t \in Threads, FailRunSave(t) \/ FinishRunSave(t)
    PROVE  UploadInv'
<1>1. /\ Named(loc[t].run) /\ loc[t].r \in Record /\ loc[t].r.status = "failed"
      /\ SaveRun(loc[t].run, loc[t].r) /\ UNCHANGED <<batch, rows, published>>
      /\ UNCHANGED <<memory, outside>>
  BY ThreadFacts DEF FailRunSave, FinishRunSave, Held, SavesRun
<1>2. StoreInv' /\ Lasts
  BY <1>1, RunSaved DEF UploadInv
<1>3. PICK label \in {loc[t].ret, "fin_batch"} : Goto(t, label)
  BY DEF FailRunSave, FinishRunSave, Return
<1>4. label \notin SavesRun \cup SavesBatch
  <2>1. "fin_batch" \notin SavesRun \cup SavesBatch
    BY DEF SavesRun, SavesBatch
  <2> QED
    BY <1>3, <2>1, ThreadFacts
<1>5. Held(t, label, loc[t])
  BY <1>4, MovesAsItIs
<1> QED
  BY <1>1, <1>2, <1>3, <1>5, WriteStep DEF Goto

(* A job ends: what it left incomplete is looked for.                       *)
LEMMA EndingJobs ==
    ASSUME UploadInv, NEW t \in Threads, Finish(t)
    PROVE  UploadInv'
<1>1. UNCHANGED <<store, inflight, queue, arriving>> /\ reproc' \in {reproc, NoRun}
  BY DEF Finish, memory, outside
<1>2. PICK after : after = IF pc[t] = "fin" THEN "forget" ELSE "idle"
  OBVIOUS
<1>3. PICK m : m = [loc[t] EXCEPT !.ret = after, !.why = "auto"]
  OBVIOUS
<1>4. m \in Locals /\ m.b = loc[t].b /\ m.kind = loc[t].kind /\ m.run = loc[t].run
  <2>1. after \in Returns
    BY <1>2 DEF Returns
  <2> QED
    BY <1>3, <2>1, ThreadFacts DEF Locals, Reasons
<1>5. PICK label : /\ Go(t, label, m)
                   /\ \/ label \in {"fc_read", "fin_run", "forget", "idle"}
                      \/ label = "fr_read" /\ loc[t].kind = "staged"
  <2>1. PICK label : /\ label = CASE MustCancel(t) -> "fc_read"
                                  [] MustFail(t) -> IF loc[t].kind = "staged" THEN "fr_read" ELSE "fin_run"
                                  [] OTHER -> after
                     /\ Go(t, label, m)
    BY <1>2, <1>3 DEF Finish
  <2> QED
    BY <1>2, <2>1
<1>6. CASE label \in {"fc_read", "fin_run", "forget", "idle"}
  <2>1. label \notin SavesRun \cup SavesBatch
    BY <1>6 DEF SavesRun, SavesBatch
  <2> QED
    BY <1>1, <1>4, <1>5, <2>1, GoStepReading
<1>7. CASE label = "fr_read" /\ loc[t].kind = "staged"
  <2>1. label \notin SavesBatch \cup {"fail_run", "fin_save", "qa_save"}
    BY <1>7 DEF SavesBatch
  <2>2. Held(t, label, m)
    BY <1>4, <1>7, <2>1, ThreadFacts DEF Held
  <2> QED
    BY <1>1, <1>5, <2>2, ReadStep
<1> QED
  BY <1>5, <1>6, <1>7

(* An active run left behind is read to be failed, then the batch.          *)
LEMMA FinishingJobs ==
    ASSUME UploadInv, NEW t \in Threads, FinishRun(t) \/ FinishBatch(t)
    PROVE  UploadInv'
<1>1. UNCHANGED <<store, inflight, queue, arriving>> /\ reproc' \in {reproc, NoRun}
  BY DEF FinishRun, FinishBatch, memory, outside
<1>2. CASE Goto(t, "fin_batch") \/ Goto(t, "fb_read") \/ Goto(t, loc[t].ret)
  <2>1. {"fin_batch", "fb_read"} \cap (SavesRun \cup SavesBatch) = {}
    BY DEF SavesRun, SavesBatch
  <2> QED
    BY <1>1, <1>2, <2>1, ThreadFacts, GotoStep
<1>3. CASE FinishRun(t) /\ Active # {}
  <2>1. PICK last : last = Newest(Active)
    OBVIOUS
  <2>2. last \in Active
    BY <1>3, <2>1, NewestIsOne DEF Active
  <2>3. last \in Runs /\ Named(last)
    BY <2>2 DEF Active, Named
  <2>4. PICK why : why = IF run[last].reason = "none" THEN "auto" ELSE run[last].reason
    OBVIOUS
  <2>5. PICK rec : rec = [run[last] EXCEPT !.status = "failed", !.reason = why]
    OBVIOUS
  <2>6. rec \in Record /\ rec.status = "failed"
    <3>1. run[last] \in Record /\ why \in Reasons
      BY <2>3, <2>4 DEF Record, Reasons, UploadInv, StoreInv
    <3> QED
      BY <2>5, <3>1 DEF Record, Reasons
  <2>7. PICK m : m = [loc[t] EXCEPT !.run = last, !.r = rec]
    OBVIOUS
  <2>8. m \in Locals /\ m.b = loc[t].b /\ m.kind = loc[t].kind /\ m.run = last /\ m.r = rec
    BY <2>3, <2>6, <2>7, ThreadFacts DEF Locals
  <2>9. Held(t, "fin_save", m)
    <3>1. "fin_save" \notin SavesBatch \cup {"qa_save"}
      BY DEF SavesBatch
    <3> QED
      BY <2>3, <2>6, <2>8, <3>1, ThreadFacts DEF Held
  <2>10. Go(t, "fin_save", m)
    BY <1>3, <2>1, <2>4, <2>5, <2>7 DEF FinishRun
  <2> QED
    BY <1>1, <2>9, <2>10, ReadStep
<1> QED
  BY <1>2, <1>3 DEF FinishRun, FinishBatch, Return

(* The registries forget the job.                                           *)
LEMMA Forgetting ==
    ASSUME UploadInv, NEW t \in Threads, Forget(t)
    PROVE  UploadInv'
<1>1. StoreInv' /\ Lasts
  BY StoreKept DEF Forget, UploadInv, StoreInv, store
<1>2. MemoryInv'
  <2>1. inflight' \in BOOLEAN
    BY DEF Forget, UploadInv, MemoryInv
  <2>2. reproc' \in Runs \cup {NoRun} /\ UNCHANGED <<queue, arriving, run>>
    BY DEF Forget, UploadInv, MemoryInv, outside, store
  <2> QED
    BY <2>1, <2>2 DEF UploadInv, MemoryInv, Named
<1>3. Held(t, "fin2", loc[t])
  <2>1. "fin2" \notin SavesRun \cup SavesBatch
    BY DEF SavesRun, SavesBatch
  <2> QED
    BY <2>1, MovesAsItIs
<1>4. ThreadsInv'
  BY <1>1, <1>3, GoOn DEF Forget, Goto, UploadInv
<1> QED
  BY <1>1, <1>2, <1>4 DEF UploadInv

-----------------------------------------------------------------------------
(* The process restarts with empty registries and queue; only the lifespan  *)
(* hook runs, with the batch it read.                                       *)
LEMMA Restarting ==
    ASSUME UploadInv, Restart
    PROVE  UploadInv'
<1>1. StoreInv' /\ Lasts
  <2>1. \A r \in Active : /\ [run[r] EXCEPT !.status = "failed", !.reason = "auto"] \in Record
                          /\ [run[r] EXCEPT !.status = "failed", !.reason = "auto"].status = "failed"
    BY DEF UploadInv, StoreInv, Active, Record
  <2>2. /\ run' \in [Runs -> Record]
        /\ \A r \in Runs : \/ run'[r] = run[r]
                           \/ r \in Active /\ run'[r].status = "failed"
    BY <2>1 DEF Restart, UploadInv, StoreInv
  <2>3. Active \subseteq Created /\ Created' = Created
    BY <2>2 DEF Created, Active
  <2> QED
    BY <2>2, <2>3 DEF Restart, UploadInv, StoreInv, Lasts, Created
<1>2. MemoryInv'
  <2>1. <<>> \in Seq(Jobs) /\ Len(<<>>) = 0 /\ 1..0 = {}
    OBVIOUS
  <2>2. MaxJobs \in Nat /\ 0 <= MaxJobs
    BY UploadConstants
  <2>3. queue' = <<>> /\ inflight' = FALSE /\ reproc' = NoRun /\ arriving' = arriving
    BY DEF Restart
  <2>4. queue' \in Seq(Jobs) /\ Len(queue') <= MaxJobs /\ 1..Len(queue') = {}
    BY <2>1, <2>2, <2>3
  <2> QED
    BY <2>3, <2>4 DEF UploadInv, MemoryInv
<1>3. ThreadsInv'
  <2>1. PICK m : m = [Blank EXCEPT !.kind = "boot", !.b = batch]
    OBVIOUS
  <2>2. m \in Locals /\ m.b = batch /\ m.kind = "boot"
    BY <2>1, BlankIsLocal DEF Locals, Kinds, UploadInv, StoreInv
  <2>3. "none" \in Kinds /\ Blank \in Locals /\ Blank.b.status = "none" /\ Blank.kind = "none"
    BY BlankIsLocal DEF Kinds
  <2>4. pc' = [t \in Threads |-> IF t = Boot /\ BootResumes' /\ NextRun \in Runs THEN "check" ELSE "idle"]
    BY DEF Restart
  <2>5. \A t \in Threads : pc'[t] \in {"check", "idle"}
    BY <2>4
  <2>6. /\ loc' = [t \in Threads |-> IF pc'[t] = "check" THEN m ELSE Blank]
        /\ batch' = batch
    BY <2>1 DEF Restart
  <2>7. loc' \in [Threads -> Locals] /\ pc' = [t \in Threads |-> pc'[t]]
    BY <2>2, <2>3, <2>4, <2>6
  <2>8. ASSUME NEW t \in Threads PROVE Held(t, pc[t], loc[t])'
    <3>1. pc'[t] \notin SavesRun \cup SavesBatch \cup {"fail_run", "fin_save", "qa_save"}
      BY <2>5 DEF SavesRun, SavesBatch
    <3>2. loc'[t] \in {m, Blank}
      BY <2>6
    <3>3. loc'[t].b.status = "deleted" => batch'.status = "deleted"
      BY <2>2, <2>3, <2>6, <3>2
    <3> QED
      BY <2>2, <2>3, <3>1, <3>2, <3>3 DEF Held
  <2> QED
    BY <2>7, <2>8 DEF ThreadsInv
<1> QED
  BY <1>1, <1>2, <1>3 DEF UploadInv

(* Every step keeps the invariant.                                          *)
LEMMA UploadStep ==
    ASSUME UploadInv, [Next]_vars
    PROVE  UploadInv'
<1>1. CASE Restart
  BY <1>1, Restarting
<1>2. ASSUME NEW t \in Handlers \cup {Boot}, Recover(t) PROVE UploadInv'
  <2>1. t \in Threads
    BY DEF Threads
  <2>2. CASE FindActive(t) \/ CheckRunning(t)
    BY <2>2, LookingForRuns
  <2>3. CASE FailZombie(t)
    BY <2>3, FailingZombies
  <2>4. CASE AddRecoveryRun(t)
    BY <2>1, <2>4, AddingRecoveryRuns
  <2>5. CASE EnqueueStaged(t) \/ EnqueueUpload(t)
    BY <2>1, <2>5, Enqueueing
  <2> QED
    BY <1>2, <2>2, <2>3, <2>4, <2>5 DEF Recover
<1>3. ASSUME NEW t \in Threads, Verdict(t) PROVE UploadInv'
  BY <1>3, Evaluating, SavingVerdicts DEF Verdict
<1>4. ASSUME NEW h \in Handlers, Handle(h) PROVE UploadInv'
  <2>1. h \in Threads
    BY DEF Threads
  <2>2. CASE CancelRead(h) \/ CancelRunning(h) \/ CancelRequest(h)
    BY <2>1, <2>2, Cancelling
  <2>3. CASE Finalize(h)
    BY <2>1, <2>3, Finalizing
  <2>4. CASE DeleteRead(h) \/ DeleteRunning(h) \/ DeleteCheck(h)
    BY <2>1, <2>4, DeletingReads
  <2>5. CASE DeleteRevert(h) \/ DeleteRecord(h)
    BY <2>1, <2>5, DeletingWrites
  <2>6. CASE Poll(h) \/ Reprocess(h)
    BY <2>1, <2>6, Resuming
  <2>7. CASE Recover(h)
    BY <1>2, <2>7
  <2>8. CASE Publish(h) \/ PublishRefused(h) \/ PublishCreate(h)
    BY <2>1, <2>8, Publishing
  <2>9. CASE Evaluate(h)
    BY <2>1, <2>9, Evaluating
  <2>10. CASE Verdict(h)
    BY <1>3, <2>1, <2>10
  <2> QED
    BY <1>4, <2>2, <2>3, <2>4, <2>5, <2>6, <2>7, <2>8, <2>9, <2>10 DEF Handle
<1>5. ASSUME NEW w \in Workers, Work(w) PROVE UploadInv'
  <2>1. w \in Threads
    BY DEF Threads
  <2>2. CASE ResetStaging(w)
    BY <2>1, <2>2, Resetting
  <2>3. CASE Checkpoint(w)
    BY <2>1, <2>3, Passing
  <2>4. CASE IngestRead(w) \/ IngestLayout(w)
    BY <2>1, <2>4, Ingesting
  <2>5. CASE Stage(w)
    BY <2>1, <2>5, Staging
  <2>6. CASE FindRun(w) \/ AddJobRun(w)
    BY <2>1, <2>6, ChoosingRun
  <2>7. CASE TransformRead(w) \/ TransformRunning(w)
    BY <2>1, <2>7, StartingTransform
  <2>8. CASE TransformEnd(w)
    BY <2>1, <2>8, EndingTransform
  <2>9. CASE TransformProcessed(w)
    BY <2>1, <2>9, MarkingProcessed
  <2>10. CASE Verdict(w)
    BY <1>3, <2>1, <2>10
  <2>11. CASE FailRead(w) \/ FailSave(w)
    BY <2>1, <2>11, FailingUploads
  <2>12. CASE FailStage(w) \/ FailReprocess(w)
    BY <2>1, <2>12, FailingRuns
  <2>13. CASE FailRunSave(w) \/ FinishRunSave(w)
    BY <2>1, <2>13, SavingFailures
  <2>14. CASE Finish(w)
    BY <2>1, <2>14, EndingJobs
  <2>15. CASE FinishRun(w) \/ FinishBatch(w)
    BY <2>1, <2>15, FinishingJobs
  <2>16. CASE Forget(w)
    BY <2>1, <2>16, Forgetting
  <2>17. CASE Finalize(w)
    BY <2>1, <2>17, Finalizing
  <2> QED
    BY <1>5, <2>2, <2>3, <2>4, <2>5, <2>6, <2>7, <2>8, <2>9, <2>10, <2>11, <2>12, <2>13, <2>14,
       <2>15, <2>16, <2>17 DEF Work
<1>6. CASE UNCHANGED vars
  <2>1. /\ UNCHANGED <<batch, run, rows, published>> /\ UNCHANGED <<inflight, reproc, queue>>
        /\ pc' = pc /\ loc' = loc /\ arriving' = arriving
    BY <1>6 DEF vars
  <2>2. StoreInv' /\ Lasts
    BY <2>1, StoreKept DEF UploadInv, StoreInv
  <2>3. MemoryInv'
    BY <2>1, <2>2, MemoryKept DEF UploadInv
  <2>4. ThreadsInv'
    BY <2>1 DEF UploadInv, ThreadsInv, Held, Named
  <2> QED
    BY <2>2, <2>3, <2>4 DEF UploadInv
<1>7. ASSUME NEW h \in Handlers, AcceptUpload(h) \/ \E kind \in arriving : Request(h, kind)
      PROVE  UploadInv'
  BY <1>7, Accepting, Arriving
<1>8. ASSUME NEW w \in Workers, TakeJob(w) \/ TransformChunk(w)
      PROVE  UploadInv'
  BY <1>8, TakingJobs, WritingChunks DEF Threads
<1> QED
  BY <1>1, <1>2, <1>4, <1>5, <1>6, <1>7, <1>8 DEF Next

(* The invariant holds from the start.                                      *)
LEMMA UploadStart == Init => UploadInv
<1> SUFFICES ASSUME Init PROVE UploadInv
  OBVIOUS
<1>1. StoreInv
  <2>1. batch \in Batches /\ batch.status = "none"
    BY DEF Init, Batches, Reasons
  <2>2. Absent \in Record /\ Absent.status = "absent"
    BY DEF Absent, Record
  <2>3. run \in [Runs -> Record] /\ \A r \in Runs : run[r].status = "absent"
    BY <2>2 DEF Init
  <2> QED
    BY <2>1, <2>3 DEF Init, StoreInv, Created
<1>2. MemoryInv
  <2>1. arriving \subseteq RequestKinds
    BY UploadConstants DEF Init
  <2>2. <<>> \in Seq(Jobs) /\ Len(<<>>) = 0 /\ 1..0 = {}
    OBVIOUS
  <2>3. MaxJobs \in Nat /\ 0 <= MaxJobs
    BY UploadConstants
  <2>4. queue = <<>> /\ inflight = FALSE /\ reproc = NoRun
    BY DEF Init
  <2>5. queue \in Seq(Jobs) /\ Len(queue) <= MaxJobs /\ 1..Len(queue) = {}
    BY <2>2, <2>3, <2>4
  <2> QED
    BY <2>1, <2>4, <2>5 DEF MemoryInv
<1>3. ThreadsInv
  <2>1. "none" \in Kinds /\ Blank \in Locals /\ Blank.b.status = "none" /\ Blank.kind = "none"
    BY BlankIsLocal DEF Kinds
  <2>2. "idle" \notin SavesRun \cup SavesBatch
    BY DEF SavesRun, SavesBatch
  <2>3. \A t : Held(t, "idle", Blank)
    BY <2>1, <2>2, PlainIsHeld
  <2> QED
    BY <2>1, <2>3 DEF Init, ThreadsInv
<1> QED
  BY <1>1, <1>2, <1>3 DEF UploadInv

(* The invariant holds of every behaviour: what the threads rely on is so,  *)
(* whoever cancels, deletes, polls, evaluates or restarts meanwhile.        *)
THEOREM UploadIsSafe == Spec => []UploadInv
<1>1. UploadInv /\ [Next]_vars => UploadInv'
  BY UploadStep
<1> QED
  BY UploadStart, <1>1, PTL DEF Spec

(* Every row, registry and thread-local record has its shape.               *)
THEOREM RecordsKeepTheirShape == Spec => []TypeOK
<1>1. UploadInv => TypeOK
  <2> SUFFICES ASSUME UploadInv PROVE TypeOK
    OBVIOUS
  <2>1. \A t \in Threads : loc[t].run \in Runs \cup {NoRun} /\ loc[t].r \in Record
    BY ThreadFacts
  <2> QED
    BY <2>1 DEF UploadInv, StoreInv, MemoryInv, Created, Batches, Reasons, TypeOK
<1> QED
  BY UploadIsSafe, <1>1, PTL

(* Deleting is complete: whatever was running when an upload was deleted,   *)
(* no run, no fact or history row and no publication of it is left.         *)
THEOREM DeletionIsComplete == Spec => []DeletedIsGone
<1>1. UploadInv => DeletedIsGone
  BY DEF UploadInv, StoreInv, DeletedIsGone
<1> QED
  BY UploadIsSafe, <1>1, PTL

-----------------------------------------------------------------------------
(* One job at a time.  Without polls and reprocess requests an upload is    *)
(* worked on by the job its acceptance queued or, after a restart, by the   *)
(* lifespan hook and the job that queues: nothing else executes a run.      *)
Calls == {"cancel", "delete", "publish", "evaluate"}

(* The places of the threads of each kind. *)
HandlerPlaces == {"idle", "enqueue", "cancel_running", "cancel_request", "delete_running", "delete_check",
                  "delete_revert", "delete_record", "publish_create", "qa_read", "qa_save",
                  "fc_read", "fc_revert", "fc_runs", "fc_batch"} \cup Calls
BootPlaces    == {"idle", "check", "check_running", "zombie", "staged_check", "staged_add", "enqueue",
                  "enqueue_staged"}
IngestPlaces  == {"reset", "at_ingest", "ingest", "layout", "at_rows", "stage", "find_run", "add_run"}
RunPlaces     == {"at_transform", "at_staged", "transform", "running", "at_chunk", "chunk"}
FailPlaces    == {"fb_read", "fb_save", "fb_stage", "fin_run", "fin_save", "fin_batch", "at_failed"}
CancelPlaces  == {"fc_read", "fc_revert", "fc_runs", "fc_batch"}
WorkPlaces    == {"idle", "processed", "at_qa", "qa_read", "qa_save", "at_verdict", "fr_read", "fail_run",
                  "fin", "forget", "fin2"} \cup IngestPlaces \cup RunPlaces \cup FailPlaces \cup CancelPlaces

(* The places of a job that its finally clause still follows.              *)
Executing     == {"processed", "at_qa", "qa_read", "qa_save", "at_verdict", "at_failed"}
                   \cup IngestPlaces \cup RunPlaces

(* Where a thread can be, on whose behalf, and where it returns to.         *)
Placed(t, p, l) ==
    /\ t \in Handlers =>
         /\ p \in HandlerPlaces /\ l.ret = "idle"
         /\ p = "enqueue" => l.kind = "upload"
         /\ p \in {"evaluate", "qa_read", "qa_save"} => l.kind = "evaluate" /\ "evaluate" \in arriving
    /\ t = Boot =>
         /\ p \in BootPlaces /\ l.kind \in {"none", "boot"}
         /\ l.ret \in {"idle", "staged_check", "staged_add", "enqueue"}
    /\ t \in Workers =>
         /\ p \in WorkPlaces /\ l.ret \in {"idle", "fin", "forget"}
         /\ p # "idle" => l.kind \in {"upload", "archive", "staged"}
         /\ l.kind = "staged" => p \notin IngestPlaces \cup FailPlaces
         /\ p = "fr_read" => l.kind = "staged"
         /\ p \in Executing => l.ret = "fin"

PlacesInv == arriving \subseteq Calls /\ \A t \in Threads : Placed(t, pc[t], loc[t])

(* A thread at p has the job of the upload: it accepts, resumes or works.   *)
Carries(t, p) == IF t \in Handlers THEN p = "enqueue" ELSE p # "idle"
AtWork        == \E t \in Threads : Carries(t, pc[t])

JobInv ==
    /\ \A t, u \in Threads : Carries(t, pc[t]) /\ Carries(u, pc[u]) => t = u
    /\ queue # <<>> => Len(queue) = 1 /\ ~AtWork
    /\ batch.status = "none" => queue = <<>> /\ \A t \in Threads : pc[t] = "idle"
    /\ pc[Boot] # "idle" => \A h \in Handlers : pc[h] = "idle"
    /\ \A t \in Threads : pc[t] \in SavesBatch => loc[t].b.status # "none"

(* A record with the fields of loc[t].                                      *)
Shaped(m) == m = [kind |-> m.kind, run |-> m.run, b |-> m.b, r |-> m.r, todo |-> m.todo,
                  ret |-> m.ret, why |-> m.why, running |-> m.running]

(* What a thread keeps when it goes elsewhere, and that the others stay.    *)
LEMMA AfterGo ==
    ASSUME UploadInv, NEW t \in Threads, NEW q, NEW m, Go(t, q, m), Shaped(m)
    PROVE  /\ pc'[t] = q
           /\ \A u \in Threads : u # t => pc'[u] = pc[u] /\ loc'[u] = loc[u]
           /\ q = "idle" => loc'[t] = Blank
           /\ q # "idle" => /\ loc'[t].kind = m.kind /\ loc'[t].run = m.run /\ loc'[t].ret = m.ret
                            /\ loc'[t].running = m.running /\ loc'[t].why = m.why
           /\ q \in Fresh => loc'[t].b = Blank.b
           /\ q \notin Fresh /\ q # "idle" => loc'[t] = m
<1>1. pc = [u \in Threads |-> pc[u]] /\ loc = [u \in Threads |-> loc[u]]
  BY DEF UploadInv, ThreadsInv
<1>2. "idle" \notin Fresh
  BY DEF Fresh
<1>3. PICK n : n = IF q = "idle" THEN Blank
                   ELSE IF q \in Fresh THEN [m EXCEPT !.b = Blank.b, !.r = Absent, !.todo = {}]
                   ELSE m
  OBVIOUS
<1>4. pc'[t] = q /\ loc'[t] = n /\ \A u \in Threads : u # t => pc'[u] = pc[u] /\ loc'[u] = loc[u]
  BY <1>1, <1>3 DEF Go
<1>5. q \in Fresh => /\ n.kind = m.kind /\ n.run = m.run /\ n.ret = m.ret
                     /\ n.running = m.running /\ n.why = m.why /\ n.b = Blank.b
  BY <1>2, <1>3 DEF Shaped
<1> QED
  BY <1>2, <1>3, <1>4, <1>5

(* The kinds of threads.                                                    *)
LEMMA ThreadKinds ==
    /\ \A w \in Workers : w \in Threads /\ w \notin Handlers /\ w # Boot
    /\ \A h \in Handlers : h \in Threads /\ h \notin Workers /\ h # Boot
    /\ Boot \in Threads /\ Boot \notin Workers \cup Handlers
BY UploadConstants, BootIsApart DEF Threads

(* Where a step leaves its thread, and that the thread took no job.         *)
Leads(t, q, m) ==
    /\ Go(t, q, m) /\ Shaped(m) /\ Placed(t, q, m)
    /\ Carries(t, q) => Carries(t, pc[t])
    /\ q \in SavesBatch => m.b.status # "none"

(* A step of a job.                                                         *)
LEMMA WorkLeads ==
    ASSUME UploadInv, PlacesInv, JobInv, NEW w \in Workers, Work(w) \/ TransformChunk(w)
    PROVE  \E q, m : Leads(w, q, m)
<1>1. /\ w \in Threads /\ w \notin Handlers /\ w # Boot /\ loc[w] \in Locals /\ Placed(w, pc[w], loc[w])
      /\ pc[w] \in SavesBatch => loc[w].b.status # "none"
      /\ pc[w] # "idle" => batch.status # "none"
  BY ThreadKinds, ThreadFacts DEF PlacesInv, JobInv
<1>2. SavesBatch = {"layout", "at_rows", "stage", "running", "at_chunk", "chunk", "processed", "fb_save"}
  BY DEF SavesBatch
<1>9. CASE TransformRead(w)
  <2>1. PICK rec, m : rec = run[loc[w].run] /\ m = [loc[w] EXCEPT !.b = batch, !.r = rec]
    OBVIOUS
  <2>2. Shaped(m) /\ m.kind = loc[w].kind /\ m.ret = loc[w].ret /\ m.b = batch
    BY <1>1, <2>1 DEF Shaped, Locals
  <2>3. CASE RaiseError(w)
    BY <1>1, <1>2, <1>9, <2>3 DEF TransformRead, RaiseError, Leads, Carries, Placed, Locals, Shaped,
       IngestPlaces, RunPlaces, FailPlaces, CancelPlaces, WorkPlaces, Executing
  <2>4. CASE ~Gone /\ Go(w, "running", m)
    BY <1>1, <1>2, <1>9, <2>2, <2>4 DEF TransformRead, Leads, Carries, Placed, Gone,
       IngestPlaces, RunPlaces, FailPlaces, CancelPlaces, WorkPlaces, Executing
  <2> QED
    BY <1>9, <2>1, <2>3, <2>4 DEF TransformRead
<1>19. CASE Finish(w)
  <2>1. PICK after : after \in {"forget", "idle"} /\ after = IF pc[w] = "fin" THEN "forget" ELSE "idle"
    OBVIOUS
  <2>2. PICK q : q = CASE MustCancel(w) -> "fc_read"
                       [] MustFail(w) -> IF loc[w].kind = "staged" THEN "fr_read" ELSE "fin_run"
                       [] OTHER -> after
    OBVIOUS
  <2>3. \/ q \in {"fc_read", "forget", "idle"}
        \/ q = "fr_read" /\ loc[w].kind = "staged"
        \/ q = "fin_run" /\ loc[w].kind # "staged"
    BY <2>1, <2>2
  <2>4. pc[w] \in {"fin", "fin2"} /\ Go(w, q, [loc[w] EXCEPT !.ret = after, !.why = "auto"])
    BY <1>19, <2>1, <2>2 DEF Finish
  <2>5. PICK m : m = [loc[w] EXCEPT !.ret = after, !.why = "auto"]
    OBVIOUS
  <2>6. Shaped(m) /\ m.kind = loc[w].kind /\ m.ret = after
    BY <1>1, <2>5 DEF Shaped, Locals
  <2> QED
    BY <1>1, <1>2, <2>1, <2>3, <2>4, <2>5, <2>6 DEF Leads, Carries, Placed,
       IngestPlaces, RunPlaces, FailPlaces, CancelPlaces, WorkPlaces, Executing
<1> USE DEF Leads, Carries, Placed, Goto, Return, RaiseError, RaiseCancelled, Locals, Shaped, Gone,
        IngestPlaces, RunPlaces, FailPlaces, CancelPlaces, WorkPlaces, Executing
<1>3. CASE ResetStaging(w)
  BY <1>1, <1>2, <1>3 DEF ResetStaging
<1>4. CASE Checkpoint(w)
  BY <1>1, <1>2, <1>4 DEF Checkpoint, AfterCheckpoint
<1>5. CASE IngestRead(w)
  BY <1>1, <1>2, <1>5 DEF IngestRead
<1>6. CASE IngestLayout(w)
  BY <1>1, <1>2, <1>6 DEF IngestLayout
<1>7. CASE Stage(w)
  BY <1>1, <1>2, <1>7 DEF Stage
<1>8. CASE FindRun(w) \/ AddJobRun(w)
  <2>1. PICK last, n : last = Newest(Active) /\ n = NextRun
    OBVIOUS
  <2> QED
    BY <1>1, <1>2, <1>8, <2>1 DEF FindRun, AddJobRun
<1>10. CASE TransformRunning(w) \/ TransformChunk(w) \/ TransformProcessed(w)
  BY <1>1, <1>2, <1>10 DEF TransformRunning, TransformChunk, TransformProcessed
<1>11. CASE TransformEnd(w)
  BY <1>1, <1>2, <1>11 DEF TransformEnd
<1>12. CASE ReadForVerdict(w)
  BY <1>1, <1>2, <1>12 DEF ReadForVerdict
<1>13. CASE SaveVerdict(w)
  BY <1>1, <1>2, <1>13 DEF SaveVerdict
<1>14. CASE FailRead(w)
  BY <1>1, <1>2, <1>14 DEF FailRead
<1>15. CASE FailSave(w)
  BY <1>1, <1>2, <1>15 DEF FailSave
<1>16. CASE FailStage(w)
  <2>1. PICK first, rec : first = Oldest(Created) /\ rec = [run[first] EXCEPT !.status = "failed"]
    OBVIOUS
  <2>2. PICK m : m = [loc[w] EXCEPT !.run = first, !.r = rec]
    OBVIOUS
  <2>3. Shaped(m) /\ m.kind = loc[w].kind /\ m.ret = loc[w].ret
    BY <1>1, <2>2
  <2>4. Go(w, loc[w].ret, loc[w]) \/ Go(w, "fail_run", m)
    BY <1>16, <2>1, <2>2 DEF FailStage
  <2> QED
    BY <1>1, <1>2, <1>16, <2>3, <2>4 DEF FailStage
<1>17. CASE FailReprocess(w)
  BY <1>1, <1>2, <1>17 DEF FailReprocess
<1>18. CASE FailRunSave(w) \/ FinishRunSave(w) \/ FinishBatch(w) \/ Forget(w)
  BY <1>1, <1>2, <1>18 DEF FailRunSave, FinishRunSave, FinishBatch, Forget
<1>20. CASE FinishRun(w)
  <2>1. PICK last, why, rec : /\ last = Newest(Active)
                              /\ why = IF run[last].reason = "none" THEN "auto" ELSE run[last].reason
                              /\ rec = [run[last] EXCEPT !.status = "failed", !.reason = why]
    OBVIOUS
  <2>2. PICK m : m = [loc[w] EXCEPT !.run = last, !.r = rec]
    OBVIOUS
  <2>3. Shaped(m) /\ m.kind = loc[w].kind /\ m.ret = loc[w].ret
    BY <1>1, <2>2
  <2>4. Go(w, "fin_batch", loc[w]) \/ Go(w, "fin_save", m)
    BY <1>20, <2>1, <2>2 DEF FinishRun
  <2> QED
    BY <1>1, <1>2, <1>20, <2>3, <2>4 DEF FinishRun
<1>21. CASE Finalize(w)
  <2>1. CASE FinalizeRead(w)
    BY <1>1, <1>2, <2>1 DEF FinalizeRead
  <2>2. CASE FinalizeRevert(w)
    BY <1>1, <1>2, <2>2 DEF FinalizeRevert
  <2>4. CASE FinalizeRuns(w)
    <3>1. pc[w] = "fc_runs" /\ Go(w, "fc_batch", loc[w])
      BY <2>4 DEF FinalizeRuns
    <3> QED
      BY <1>1, <1>2, <3>1
  <2>3. CASE FinalizeBatch(w)
    BY <1>1, <1>2, <2>3 DEF FinalizeBatch
  <2> QED
    BY <1>21, <2>1, <2>2, <2>3, <2>4 DEF Finalize
<1> QED
  BY <1>3, <1>4, <1>5, <1>6, <1>7, <1>8, <1>9, <1>10, <1>11, <1>12, <1>13, <1>14, <1>15, <1>16, <1>17,
     <1>18, <1>19, <1>20, <1>21 DEF Work, Verdict

(* A step of a request, other than queueing the job of an accepted upload.  *)
LEMMA HandleLeads ==
    ASSUME UploadInv, PlacesInv, NEW h \in Handlers, Handle(h), ~EnqueueUpload(h)
    PROVE  \E q, m : Leads(h, q, m)
<1>1. /\ h \in Threads /\ h \notin Workers /\ h # Boot /\ loc[h] \in Locals /\ Placed(h, pc[h], loc[h])
      /\ arriving \subseteq Calls
  BY ThreadKinds, ThreadFacts DEF PlacesInv
<1>2. /\ pc[h] \in HandlerPlaces /\ loc[h].ret = "idle"
      /\ pc[h] \in {"evaluate", "qa_read", "qa_save"} => loc[h].kind = "evaluate" /\ "evaluate" \in arriving
  BY <1>1 DEF Placed
<1>3. SavesBatch = {"layout", "at_rows", "stage", "running", "at_chunk", "chunk", "processed", "fb_save"}
  BY DEF SavesBatch
<1>4. ASSUME NEW q \in HandlerPlaces \ {"enqueue"}, NEW m, Go(h, q, m), Shaped(m), m.ret = "idle",
             q \in {"evaluate", "qa_read", "qa_save"} => m.kind = "evaluate" /\ "evaluate" \in arriving
      PROVE  \E p, n : Leads(h, p, n)
  <2>1. q \notin SavesBatch /\ q # "enqueue"
    BY <1>3, <1>4 DEF HandlerPlaces, Calls
  <2>2. Leads(h, q, m)
    BY <1>1, <1>4, <2>1 DEF Leads, Placed, Carries
  <2> QED
    BY <2>2
<1>5. ASSUME NEW q \in HandlerPlaces \ {"enqueue", "evaluate", "qa_read", "qa_save"},
             \/ Go(h, q, loc[h])
             \/ \E x : \/ Go(h, q, [loc[h] EXCEPT !.b = x])
                       \/ Go(h, q, [loc[h] EXCEPT !.todo = x])
                       \/ Go(h, q, [loc[h] EXCEPT !.run = x])
                       \/ Go(h, q, [loc[h] EXCEPT !.running = x])
      PROVE  \E p, n : Leads(h, p, n)
  <2>1. PICK x, m : /\ Go(h, q, m)
                    /\ \/ m = loc[h] \/ m = [loc[h] EXCEPT !.b = x] \/ m = [loc[h] EXCEPT !.todo = x]
                       \/ m = [loc[h] EXCEPT !.run = x] \/ m = [loc[h] EXCEPT !.running = x]
    BY <1>5
  <2>2. Shaped(m) /\ m.ret = "idle"
    BY <1>1, <1>2, <2>1 DEF Shaped, Locals
  <2> QED
    BY <1>4, <1>5, <2>1, <2>2
<1>6. {"idle", "cancel_running", "cancel_request", "fc_read", "fc_revert", "fc_runs", "fc_batch",
       "delete_running", "delete_check", "delete_revert", "delete_record", "publish_create"}
        \subseteq HandlerPlaces \ {"enqueue", "evaluate", "qa_read", "qa_save"}
  BY DEF HandlerPlaces, Calls
<1>7. CASE CancelRead(h) \/ CancelRunning(h) \/ CancelRequest(h)
  BY <1>5, <1>6, <1>7 DEF CancelRead, CancelRunning, CancelRequest, Goto
<1>8. CASE Finalize(h)
  <2>1. CASE FinalizeRead(h)
    BY <1>2, <1>5, <1>6, <2>1 DEF FinalizeRead, Goto, Return
  <2>2. CASE FinalizeRevert(h)
    BY <1>5, <1>6, <2>2 DEF FinalizeRevert, Goto
  <2>3. CASE FinalizeRuns(h)
    BY <1>5, <1>6, <2>3 DEF FinalizeRuns, Goto
  <2>4. CASE FinalizeBatch(h)
    BY <1>2, <1>5, <1>6, <2>4 DEF FinalizeBatch, Goto, Return
  <2> QED
    BY <1>8, <2>1, <2>2, <2>3, <2>4 DEF Finalize
<1>9. CASE DeleteRead(h) \/ DeleteRunning(h) \/ DeleteCheck(h)
  BY <1>5, <1>6, <1>9 DEF DeleteRead, DeleteRunning, DeleteCheck, Goto
<1>10. CASE DeleteRevert(h) \/ DeleteRecord(h)
  BY <1>5, <1>6, <1>10 DEF DeleteRevert, DeleteRecord, Goto
<1>11. CASE Publish(h) \/ PublishRefused(h) \/ PublishCreate(h)
  BY <1>5, <1>6, <1>11 DEF Publish, PublishRefused, PublishCreate, Goto
<1>12. CASE Evaluate(h) \/ Verdict(h)
  <2>1. "qa_read" \in HandlerPlaces \ {"enqueue"} /\ "qa_save" \in HandlerPlaces \ {"enqueue"}
    BY DEF HandlerPlaces
  <2>2. loc[h].kind = "evaluate" /\ "evaluate" \in arriving
    BY <1>2, <1>12 DEF Evaluate, Verdict, ReadForVerdict, SaveVerdict
  <2>3. CASE Goto(h, "idle")
    BY <1>5, <1>6, <2>3 DEF Goto
  <2>4. CASE \E x : Go(h, "qa_read", [loc[h] EXCEPT !.run = x]) \/ Go(h, "qa_save", [loc[h] EXCEPT !.r = x])
    <3>1. PICK q, m : /\ q \in {"qa_read", "qa_save"} /\ Go(h, q, m) /\ Shaped(m)
                      /\ m.ret = "idle" /\ m.kind = "evaluate"
      BY <1>1, <1>2, <2>2, <2>4 DEF Shaped, Locals
    <3> QED
      BY <1>4, <2>1, <2>2, <3>1
  <2> QED
    BY <1>12, <2>2, <2>3, <2>4 DEF Evaluate, Verdict, ReadForVerdict, SaveVerdict
<1>13. ~Poll(h) /\ ~Reprocess(h) /\ ~Recover(h)
  BY <1>2 DEF HandlerPlaces, Calls, Poll, Reprocess, Recover, FindActive, CheckRunning, FailZombie,
     AddRecoveryRun, EnqueueStaged
<1> QED
  BY <1>7, <1>8, <1>9, <1>10, <1>11, <1>12, <1>13 DEF Handle

(* A step of the lifespan hook, other than queueing its job.                *)
LEMMA RecoverLeads ==
    ASSUME UploadInv, PlacesInv, Recover(Boot), ~EnqueueUpload(Boot), ~EnqueueStaged(Boot)
    PROVE  \E q, m : Leads(Boot, q, m)
<1>1. /\ Boot \in Threads /\ Boot \notin Workers \cup Handlers /\ loc[Boot] \in Locals
      /\ Placed(Boot, pc[Boot], loc[Boot])
  BY ThreadKinds, ThreadFacts DEF PlacesInv
<1>2. /\ pc[Boot] \in BootPlaces /\ loc[Boot].kind \in {"none", "boot"}
      /\ loc[Boot].ret \in {"idle", "staged_check", "staged_add", "enqueue"}
  BY <1>1 DEF Placed
<1>3. ASSUME NEW q \in BootPlaces, NEW m, Go(Boot, q, m), Shaped(m), pc[Boot] # "idle",
             m.kind = loc[Boot].kind, m.ret \in {"idle", "staged_check", "staged_add", "enqueue"}
      PROVE  \E p, n : Leads(Boot, p, n)
  <2>1. q \notin SavesBatch
    BY <1>3 DEF BootPlaces, SavesBatch
  <2>2. Leads(Boot, q, m)
    BY <1>1, <1>2, <1>3, <2>1 DEF Leads, Placed, Carries
  <2> QED
    BY <2>2
<1>4. AfterCheck(Boot) \in {"staged_check", "staged_add", "enqueue"}
  BY <1>2 DEF AfterCheck
<1>5. CASE FindActive(Boot)
  <2>1. pc[Boot] # "idle"
    BY <1>5 DEF FindActive
  <2>2. CASE Goto(Boot, "idle") \/ Goto(Boot, AfterCheck(Boot))
    <3>1. PICK q \in BootPlaces : Go(Boot, q, loc[Boot])
      BY <1>4, <2>2 DEF Goto, BootPlaces
    <3>2. Shaped(loc[Boot])
      BY <1>1 DEF Shaped, Locals
    <3> QED
      BY <1>2, <1>3, <2>1, <3>1, <3>2
  <2>3. CASE \E x, y, z : z = AfterCheck(Boot)
                         /\ Go(Boot, "check_running", [loc[Boot] EXCEPT !.run = x, !.r = y, !.ret = z])
    <3>1. PICK m, z : /\ m = [loc[Boot] EXCEPT !.run = m.run, !.r = m.r, !.ret = z]
                      /\ z = AfterCheck(Boot) /\ Go(Boot, "check_running", m)
      <4>1. PICK x, y, z : z = AfterCheck(Boot)
                         /\ Go(Boot, "check_running", [loc[Boot] EXCEPT !.run = x, !.r = y, !.ret = z])
        BY <2>3
      <4>2. PICK m : m = [loc[Boot] EXCEPT !.run = x, !.r = y, !.ret = z]
        OBVIOUS
      <4>3. m.run = x /\ m.r = y
        BY <1>1, <4>2 DEF Locals
      <4> QED
        BY <4>1, <4>2, <4>3
    <3>2. Shaped(m) /\ m.kind = loc[Boot].kind /\ m.ret = z
      BY <1>1, <3>1 DEF Shaped, Locals
    <3> QED
      BY <1>3, <1>4, <2>1, <3>1, <3>2 DEF BootPlaces
  <2> QED
    BY <1>5, <2>2, <2>3 DEF FindActive
<1>6. CASE CheckRunning(Boot)
  <2>1. PICK q \in {"idle", "zombie"} : Go(Boot, q, loc[Boot])
    BY <1>6 DEF CheckRunning, Goto
  <2>2. Shaped(loc[Boot])
    BY <1>1 DEF Shaped, Locals
  <2> QED
    BY <1>2, <1>3, <1>6, <2>1, <2>2 DEF CheckRunning, BootPlaces
<1>7. CASE FailZombie(Boot)
  <2>1. PICK m : m = [loc[Boot] EXCEPT !.run = NoRun, !.ret = "idle"]
    OBVIOUS
  <2>2. Shaped(m) /\ m.kind = loc[Boot].kind /\ m.ret = "idle"
    BY <1>1, <2>1 DEF Shaped, Locals
  <2>3. Go(Boot, loc[Boot].ret, m)
    BY <1>7, <2>1 DEF FailZombie
  <2> QED
    BY <1>2, <1>3, <1>7, <2>2, <2>3 DEF FailZombie, BootPlaces
<1>8. CASE AddRecoveryRun(Boot)
  <2>2. pc[Boot] = "staged_add"
    BY <1>2, <1>8 DEF AddRecoveryRun, BootPlaces
  <2>3. PICK q, n : /\ q \in {"idle", "enqueue_staged"} /\ Go(Boot, q, n)
                    /\ (n = loc[Boot] \/ n = [loc[Boot] EXCEPT !.run = NextRun])
    BY <1>8, <2>2 DEF AddRecoveryRun, Goto
  <2>4. Shaped(n) /\ n.kind = loc[Boot].kind /\ n.ret = loc[Boot].ret
    BY <1>1, <2>3 DEF Shaped, Locals
  <2> QED
    BY <1>2, <1>3, <2>2, <2>3, <2>4 DEF BootPlaces
<1> QED
  BY <1>5, <1>6, <1>7, <1>8 DEF Recover

(* The row of a batch that a thread writes back, and what becomes of it.    *)
LEMMA BatchesWritten ==
    ASSUME UploadInv, NEW t \in Threads
    PROVE  /\ IngestLayout(t) => batch'.status = IF Gone THEN batch.status ELSE loc[t].b.status
           /\ Stage(t) => batch'.status \in IF Gone THEN {batch.status} ELSE {"staged", "failed"}
           /\ TransformProcessed(t) => batch'.status = IF Gone THEN batch.status ELSE "processed"
           /\ FailSave(t) => batch'.status = IF Gone THEN batch.status ELSE "failed"
           /\ FinalizeBatch(t) => batch'.status = IF Gone THEN batch.status ELSE "cancelled"
           /\ IngestLayout(t) \/ Stage(t) \/ TransformProcessed(t) \/ FailSave(t) \/ FinalizeBatch(t)
                => batch'.cancel = batch.cancel
<1>1. batch \in Batches /\ loc[t].why \in Reasons /\ (pc[t] \in SavesBatch => loc[t].b \in Batches)
  BY ThreadFacts DEF UploadInv, StoreInv, Held
<1>2. ASSUME NEW rec \in Batches, SaveBatch(rec)
      PROVE  batch'.status = (IF Gone THEN batch.status ELSE rec.status) /\ batch'.cancel = batch.cancel
  <2>1. PICK c \in BOOLEAN : c = batch.cancel
    BY <1>1 DEF Batches
  <2>2. batch' = IF Gone THEN batch ELSE [rec EXCEPT !.cancel = c]
    BY <1>2, <2>1 DEF SaveBatch
  <2> QED
    BY <2>1, <2>2 DEF Batches
<1>3. ASSUME IngestLayout(t)
      PROVE  batch'.status = (IF Gone THEN batch.status ELSE loc[t].b.status) /\ batch'.cancel = batch.cancel
  BY <1>1, <1>2, <1>3 DEF IngestLayout, SavesBatch
<1>4. ASSUME Stage(t)
      PROVE  batch'.status \in (IF Gone THEN {batch.status} ELSE {"staged", "failed"}) /\ batch'.cancel = batch.cancel
  <2>1. loc[t].b \in Batches
    BY <1>1, <1>4 DEF Stage, SavesBatch
  <2>2. CASE SaveBatch([loc[t].b EXCEPT !.status = "staged", !.staged = TRUE])
    <3>1. PICK rec : rec = [loc[t].b EXCEPT !.status = "staged", !.staged = TRUE]
      OBVIOUS
    <3>2. rec \in Batches /\ rec.status = "staged"
      BY <2>1, <3>1 DEF Batches
    <3> QED
      BY <1>2, <2>2, <3>1, <3>2
  <2>3. CASE \E staged \in BOOLEAN :
                SaveBatch([loc[t].b EXCEPT !.status = "failed", !.staged = staged, !.reason = "other"])
    <3>1. PICK staged \in BOOLEAN :
                SaveBatch([loc[t].b EXCEPT !.status = "failed", !.staged = staged, !.reason = "other"])
      BY <2>3
    <3>2. PICK rec : rec = [loc[t].b EXCEPT !.status = "failed", !.staged = staged, !.reason = "other"]
      OBVIOUS
    <3>3. rec \in Batches /\ rec.status = "failed"
      BY <2>1, <3>2 DEF Batches, Reasons
    <3> QED
      BY <1>2, <3>1, <3>2, <3>3
  <2> QED
    BY <1>4, <2>2, <2>3 DEF Stage
<1>5. ASSUME TransformProcessed(t)
      PROVE  batch'.status = (IF Gone THEN batch.status ELSE "processed") /\ batch'.cancel = batch.cancel
  <2>1. PICK rec : rec = [loc[t].b EXCEPT !.status = "processed"]
    OBVIOUS
  <2>2. rec \in Batches /\ rec.status = "processed" /\ SaveBatch(rec)
    BY <1>1, <1>5, <2>1 DEF TransformProcessed, SavesBatch, Batches
  <2> QED
    BY <1>2, <2>2
<1>6. ASSUME FailSave(t)
      PROVE  batch'.status = (IF Gone THEN batch.status ELSE "failed") /\ batch'.cancel = batch.cancel
  <2>1. PICK rec : rec = [loc[t].b EXCEPT !.status = "failed", !.reason = loc[t].why]
    OBVIOUS
  <2>2. loc[t].b \in Batches /\ SaveBatch(rec)
    BY <1>1, <1>6, <2>1 DEF FailSave, SavesBatch
  <2>3. rec \in Batches /\ rec.status = "failed"
    BY <1>1, <2>1, <2>2 DEF Batches
  <2> QED
    BY <1>2, <2>2, <2>3
<1>7. ASSUME FinalizeBatch(t)
      PROVE  batch'.status = (IF Gone THEN batch.status ELSE "cancelled") /\ batch'.cancel = batch.cancel
  <2>1. PICK rec : rec = [batch EXCEPT !.status = "cancelled", !.staged = FALSE, !.reason = "other"]
    OBVIOUS
  <2>2. rec \in Batches /\ rec.status = "cancelled" /\ SaveBatch(rec)
    BY <1>1, <1>7, <2>1 DEF FinalizeBatch, Batches, Reasons
  <2> QED
    BY <1>2, <2>2
<1> QED
  BY <1>3, <1>4, <1>5, <1>6, <1>7

(* Such a step queues nothing and brings no upload into being.              *)
LEMMA StepsQueueNothing ==
    ASSUME UploadInv, PlacesInv, JobInv, NEW t \in Threads,
           \/ t \in Workers /\ (Work(t) \/ TransformChunk(t))
           \/ t \in Handlers /\ Handle(t) /\ ~EnqueueUpload(t)
           \/ t = Boot /\ Recover(t) /\ ~EnqueueUpload(t) /\ ~EnqueueStaged(t)
    PROVE  /\ \E q, m : Leads(t, q, m)
           /\ UNCHANGED <<queue, arriving>> /\ (batch'.status = "none" => batch.status = "none")
<1>1. \E q, m : Leads(t, q, m)
  BY WorkLeads, HandleLeads, RecoverLeads
<1>2. batch \in Batches /\ loc[t] \in Locals /\ Placed(t, pc[t], loc[t])
      /\ (pc[t] \in SavesBatch => loc[t].b \in Batches /\ loc[t].b.status # "none")
  BY ThreadFacts DEF UploadInv, StoreInv, PlacesInv, JobInv, Held
<1>3. CASE t \in Workers /\ (Work(t) \/ TransformChunk(t))
  <2> USE DEF outside, memory, store, Batches
  <2>1. CASE Stage(t) \/ IngestLayout(t) \/ TransformProcessed(t) \/ FailSave(t)
    <3>1. IngestLayout(t) => loc[t].b.status # "none"
      BY <1>2 DEF IngestLayout, SavesBatch
    <3>2. batch'.status = "none" => batch.status = "none"
      BY <2>1, <3>1, BatchesWritten DEF Gone
    <3> QED
      BY <1>1, <2>1, <3>2 DEF Stage, IngestLayout, TransformProcessed, FailSave
  <2>2. CASE ResetStaging(t) \/ FinalizeBatch(t)
    <3>1. batch'.status = "none" => batch.status = "none"
      BY <1>2, <2>2 DEF ResetStaging, FinalizeBatch, SaveBatch, Gone
    <3> QED
      BY <1>1, <2>2, <3>1 DEF ResetStaging, FinalizeBatch
  <2>3. CASE \/ Checkpoint(t) \/ IngestRead(t) \/ FindRun(t) \/ AddJobRun(t)
             \/ TransformRead(t) \/ TransformRunning(t) \/ TransformEnd(t) \/ TransformChunk(t) \/ Verdict(t)
    BY <1>1, <2>3 DEF Checkpoint, IngestRead, FindRun, AddJobRun, TransformRead, TransformRunning, TransformEnd,
       TransformChunk, Verdict, ReadForVerdict, SaveVerdict
  <2>4. CASE \/ FailRead(t) \/ FailStage(t) \/ FailReprocess(t) \/ FailRunSave(t)
             \/ Finish(t) \/ FinishRun(t) \/ FinishRunSave(t) \/ FinishBatch(t) \/ Forget(t)
             \/ FinalizeRead(t) \/ FinalizeRevert(t) \/ FinalizeRuns(t)
    BY <1>1, <2>4 DEF FailRead, FailStage, FailReprocess, FailRunSave,
       Finish, FinishRun, FinishRunSave, FinishBatch, Forget, FinalizeRead, FinalizeRevert, FinalizeRuns
  <2> QED
    BY <1>3, <2>1, <2>2, <2>3, <2>4 DEF Work, Finalize
<1>4. CASE t \in Handlers /\ Handle(t) /\ ~EnqueueUpload(t)
  <2>1. pc[t] \in HandlerPlaces
    BY <1>2, <1>4 DEF Placed
  <2>2. ~Poll(t) /\ ~Reprocess(t) /\ ~Recover(t)
    BY <1>4, <2>1 DEF HandlerPlaces, Calls, Poll, Reprocess, Recover, FindActive, CheckRunning, FailZombie,
       AddRecoveryRun, EnqueueStaged
  <2> USE DEF outside, memory, store, Batches
  <2>3. CASE \/ CancelRead(t) \/ CancelRunning(t) \/ FinalizeRead(t) \/ FinalizeRevert(t) \/ FinalizeRuns(t)
             \/ DeleteRead(t) \/ DeleteRunning(t) \/ DeleteCheck(t) \/ DeleteRevert(t)
             \/ Publish(t) \/ PublishRefused(t) \/ PublishCreate(t) \/ Evaluate(t) \/ Verdict(t)
    BY <1>1, <2>3 DEF CancelRead, CancelRunning, FinalizeRead, FinalizeRevert, FinalizeRuns, DeleteRead,
       DeleteRunning, DeleteCheck, DeleteRevert, Publish, PublishRefused, PublishCreate, Evaluate,
       Verdict, ReadForVerdict, SaveVerdict
  <2>4. CASE CancelRequest(t) \/ DeleteRecord(t) \/ FinalizeBatch(t)
    <3>1. batch'.status = "none" => batch.status = "none"
      BY <1>2, <2>4 DEF CancelRequest, DeleteRecord, FinalizeBatch, SaveBatch, Gone
    <3> QED
      BY <1>1, <2>4, <3>1 DEF CancelRequest, DeleteRecord, FinalizeBatch
  <2> QED
    BY <1>4, <2>2, <2>3, <2>4 DEF Handle, Finalize
<1>5. CASE t = Boot /\ Recover(t) /\ ~EnqueueUpload(t) /\ ~EnqueueStaged(t)
  BY <1>1, <1>5 DEF Recover, FindActive, CheckRunning, FailZombie, AddRecoveryRun, outside, memory, store
<1> QED
  BY <1>3, <1>4, <1>5

(* A thread that takes a step of its job or request is not idle.            *)
LEMMA StepsAreAwake ==
    ASSUME NEW t, Work(t) \/ TransformChunk(t) \/ Handle(t) \/ Recover(t)
    PROVE  pc[t] # "idle"
BY DEF Work, Handle, Recover, Finalize, Verdict, TransformChunk,
   ResetStaging, Checkpoint, AfterCheckpoint, IngestRead, IngestLayout, Stage, FindRun, AddJobRun,
   TransformRead, TransformRunning, TransformEnd, TransformProcessed, ReadForVerdict, SaveVerdict,
   FailRead, FailSave, FailStage, FailReprocess, FailRunSave, Finish, FinishRun, FinishRunSave,
   FinishBatch, Forget, FinalizeRead, FinalizeRevert, FinalizeRuns, FinalizeBatch,
   CancelRead, CancelRunning, CancelRequest, DeleteRead, DeleteRunning, DeleteCheck, DeleteRevert,
   DeleteRecord, Poll, Reprocess, FindActive, CheckRunning, FailZombie, AddRecoveryRun,
   EnqueueStaged, EnqueueUpload, Publish, PublishRefused, PublishCreate, Evaluate

(* A job is at work in one place only: the places and the job of a step.    *)
LEMMA JobKept ==
    ASSUME UploadInv, PlacesInv, JobInv, NEW t \in Threads, NEW q, NEW m, Leads(t, q, m),
           UNCHANGED <<queue, arriving>>, batch'.status = "none" => batch.status = "none",
           pc[t] # "idle"
    PROVE  PlacesInv' /\ JobInv'
<1>1. Go(t, q, m) /\ Shaped(m) /\ Placed(t, q, m) /\ (Carries(t, q) => Carries(t, pc[t]))
      /\ (q \in SavesBatch => m.b.status # "none")
  BY DEF Leads
<1>2. /\ pc'[t] = q /\ \A u \in Threads : u # t => pc'[u] = pc[u] /\ loc'[u] = loc[u]
      /\ q = "idle" => loc'[t] = Blank
      /\ q # "idle" => loc'[t].kind = m.kind /\ loc'[t].ret = m.ret
      /\ q \in Fresh => loc'[t].b = Blank.b
      /\ q \notin Fresh /\ q # "idle" => loc'[t] = m
  BY <1>1, AfterGo
<1>3. Placed(t, q, m)' /\ \A u \in Threads : Placed(u, pc[u], loc[u])
  BY <1>1 DEF Placed, PlacesInv
<1>4. PlacesInv'
  <2>1. Placed(t, pc[t], loc[t])'
    <3>1. CASE q = "idle"
      BY <1>2, <3>1, ThreadKinds DEF Placed, Blank, NoRun, HandlerPlaces, BootPlaces, WorkPlaces,
         Executing, IngestPlaces, RunPlaces, FailPlaces
    <3>2. CASE q # "idle"
      BY <1>2, <1>3, <3>2 DEF Placed
    <3> QED
      BY <3>1, <3>2
  <2>2. \A u \in Threads : u # t => Placed(u, pc[u], loc[u])'
    BY <1>2, <1>3 DEF Placed
  <2> QED
    BY <2>1, <2>2 DEF PlacesInv
<1>5. JobInv'
  <2>1. \A u \in Threads : Carries(u, pc'[u]) => Carries(u, pc[u])
    BY <1>1, <1>2
  <2>2. pc'[Boot] # "idle" => \A h \in Handlers : pc'[h] = "idle"
    <3>1. CASE t = Boot
      BY <1>2, <3>1, ThreadKinds DEF JobInv
    <3>2. CASE t # Boot
      <4>1. pc[Boot] = pc'[Boot]
        BY <1>2, <3>2, ThreadKinds
      <4>2. t \in Workers => \A h \in Handlers : pc'[h] = pc[h]
        BY <1>2, ThreadKinds
      <4> QED
        BY <1>2, <4>1, <4>2 DEF JobInv, Threads
    <3> QED
      BY <3>1, <3>2
  <2>3. \A u \in Threads : pc'[u] \in SavesBatch => loc'[u].b.status # "none"
    <3>1. q \in SavesBatch => q \notin Fresh /\ q # "idle"
      BY DEF SavesBatch, Fresh
    <3> QED
      BY <1>1, <1>2, <3>1 DEF JobInv
  <2>4. batch'.status # "none"
    BY DEF JobInv
  <2> QED
    BY <2>1, <2>2, <2>3, <2>4 DEF JobInv, AtWork
<1> QED
  BY <1>4, <1>5

(* The job is passed on: accepted, queued, taken, resumed after a restart.  *)
LEMMA JobAccepted ==
    ASSUME UploadInv, PlacesInv, JobInv, NEW h \in Handlers, AcceptUpload(h)
    PROVE  PlacesInv' /\ JobInv'
<1>1. PICK m : m = [Blank EXCEPT !.kind = "upload"]
  OBVIOUS
<1>2. Shaped(m) /\ m.kind = "upload" /\ m.ret = "idle"
  BY <1>1 DEF Shaped, Blank
<1>3. /\ Go(h, "enqueue", m) /\ batch.status = "none" /\ pc[h] = "idle" /\ pc[Boot] = "idle"
      /\ UNCHANGED <<queue, arriving>> /\ batch'.status = "received"
  BY <1>1 DEF AcceptUpload, memory, outside, UploadInv, StoreInv, Batches
<1>4. h \in Threads /\ h \notin Workers /\ h # Boot
  BY ThreadKinds
<1>5. /\ pc'[h] = "enqueue" /\ loc'[h].kind = "upload" /\ loc'[h].ret = "idle"
      /\ \A u \in Threads : u # h => pc'[u] = pc[u] /\ loc'[u] = loc[u]
  BY <1>2, <1>3, <1>4, AfterGo
<1>6. queue = <<>> /\ \A u \in Threads : pc[u] = "idle"
  BY <1>3 DEF JobInv
<1>7. PlacesInv'
  <2>1. Placed(h, pc[h], loc[h])'
    BY <1>4, <1>5 DEF Placed, HandlerPlaces
  <2>2. \A u \in Threads : u # h => Placed(u, pc[u], loc[u])'
    BY <1>3, <1>5 DEF Placed, PlacesInv
  <2> QED
    BY <1>3, <2>1, <2>2 DEF PlacesInv
<1>8. JobInv'
  <2>1. "enqueue" \notin SavesBatch /\ "idle" \notin SavesBatch
    BY DEF SavesBatch
  <2>2. \A u \in Threads : pc'[u] \notin SavesBatch /\ (u # h => pc'[u] = "idle")
    BY <1>5, <1>6, <2>1
  <2> QED
    BY <1>3, <1>4, <1>6, <2>2, ThreadKinds DEF JobInv, Carries
<1> QED
  BY <1>7, <1>8

(* A request arrives: it carries no job.                                    *)
LEMMA RequestArrives ==
    ASSUME UploadInv, PlacesInv, JobInv, NEW h \in Handlers, NEW kind \in arriving, Request(h, kind)
    PROVE  PlacesInv' /\ JobInv'
<1>1. PICK m : m = [Blank EXCEPT !.kind = kind]
  OBVIOUS
<1>2. Shaped(m) /\ m.kind = kind /\ m.ret = "idle"
  BY <1>1 DEF Shaped, Blank
<1>3. /\ Go(h, kind, m) /\ batch.status # "none" /\ pc[h] = "idle" /\ pc[Boot] = "idle"
      /\ UNCHANGED <<queue, arriving, batch>> /\ kind \in Calls
  BY <1>1 DEF Request, memory, outside, store, Gone, PlacesInv
<1>4. h \in Threads /\ h \notin Workers /\ h # Boot
  BY ThreadKinds
<1>5. /\ pc'[h] = kind /\ loc'[h].kind = kind /\ loc'[h].ret = "idle"
      /\ \A u \in Threads : u # h => pc'[u] = pc[u] /\ loc'[u] = loc[u]
  BY <1>2, <1>3, <1>4, AfterGo DEF Calls
<1>6. PlacesInv'
  <2>1. Placed(h, pc[h], loc[h])'
    BY <1>3, <1>4, <1>5 DEF Placed, HandlerPlaces, Calls
  <2>2. \A u \in Threads : u # h => Placed(u, pc[u], loc[u])'
    BY <1>3, <1>5 DEF Placed, PlacesInv
  <2> QED
    BY <1>3, <2>1, <2>2 DEF PlacesInv
<1>7. JobInv'
  <2>1. kind \notin SavesBatch /\ kind # "enqueue"
    BY <1>3 DEF SavesBatch, Calls
  <2>2. \A u \in Threads : Carries(u, pc'[u]) => Carries(u, pc[u])
    BY <1>4, <1>5, <2>1 DEF Carries
  <2>3. pc'[Boot] = "idle"
    BY <1>3, <1>4, <1>5, ThreadKinds
  <2>4. \A u \in Threads : pc'[u] \in SavesBatch => loc'[u].b.status # "none"
    BY <1>5, <2>1 DEF JobInv
  <2> QED
    BY <1>3, <2>2, <2>3, <2>4 DEF JobInv, AtWork
<1> QED
  BY <1>6, <1>7

(* The job is queued: nobody carries it until a worker takes it.            *)
LEMMA JobQueued ==
    ASSUME UploadInv, PlacesInv, JobInv, NEW t \in Handlers \cup {Boot},
           EnqueueUpload(t) \/ EnqueueStaged(t)
    PROVE  /\ PlacesInv' /\ JobInv' /\ queue = <<>> /\ Carries(t, pc[t])
           /\ \A u \in Threads : ~Carries(u, pc'[u])
<1>1. t \in Threads /\ t \notin Workers /\ (t \in Handlers <=> t # Boot) /\ Placed(t, pc[t], loc[t])
  BY ThreadKinds DEF PlacesInv
<1>2. /\ Go(t, "idle", loc[t]) /\ pc[t] \in {"enqueue", "enqueue_staged"}
      /\ UNCHANGED <<batch, arriving>> /\ \E job : queue' = Append(queue, job)
  BY DEF EnqueueUpload, EnqueueStaged, Enqueue, Goto, store, outside
<1>3. Carries(t, pc[t])
  BY <1>1, <1>2 DEF Carries, Placed, HandlerPlaces, Calls
<1>4. queue = <<>> /\ batch.status # "none" /\ \A u \in Threads : u # t => ~Carries(u, pc[u])
  BY <1>1, <1>2, <1>3 DEF JobInv, AtWork
<1>5. PICK job : queue' = <<job>> /\ queue' # <<>> /\ Len(queue') = 1
  BY <1>2, <1>4
<1>6. Shaped(loc[t])
  BY <1>1, ThreadFacts DEF Shaped, Locals
<1>7. /\ pc'[t] = "idle" /\ loc'[t] = Blank
      /\ \A u \in Threads : u # t => pc'[u] = pc[u] /\ loc'[u] = loc[u]
  BY <1>1, <1>2, <1>6, AfterGo
<1>8. PlacesInv'
  <2>1. Placed(t, pc[t], loc[t])'
    BY <1>1, <1>7 DEF Placed, HandlerPlaces, BootPlaces, Blank
  <2>2. \A u \in Threads : u # t => Placed(u, pc[u], loc[u])'
    BY <1>2, <1>7 DEF Placed, PlacesInv
  <2> QED
    BY <1>2, <2>1, <2>2 DEF PlacesInv
<1>9. \A u \in Threads : ~Carries(u, pc'[u])
  BY <1>1, <1>4, <1>7 DEF Carries
<1>10. JobInv'
  <2>1. "idle" \notin SavesBatch
    BY DEF SavesBatch
  <2>2. \A u \in Threads : pc'[u] \in SavesBatch => loc'[u].b.status # "none"
    BY <1>7, <2>1 DEF JobInv
  <2>3. pc'[Boot] = "idle"
    BY <1>9, ThreadKinds DEF Carries
  <2> QED
    BY <1>2, <1>4, <1>5, <1>9, <2>2, <2>3 DEF JobInv, AtWork
<1> QED
  BY <1>3, <1>4, <1>8, <1>9, <1>10

(* A worker takes the job, and goes where the job of its kind begins.       *)
LEMMA JobTaken ==
    ASSUME UploadInv, PlacesInv, JobInv, NEW w \in Workers, TakeJob(w)
    PROVE  /\ PlacesInv' /\ JobInv' /\ queue' = <<>> /\ ~Carries(w, pc[w]) /\ Carries(w, pc'[w])
           /\ \A u \in Threads : ~Carries(u, pc[u])
           /\ \E m : /\ Shaped(m) /\ m.kind = queue[1].kind /\ m.run = queue[1].run /\ m.ret = "fin"
                     /\ m.b = Blank.b
                     /\ \/ Go(w, "fin", m)
                        \/ Go(w, "at_ingest", m) /\ m.kind = "upload"
                        \/ Go(w, "reset", m) /\ m.kind = "archive"
                        \/ Go(w, "at_staged", m) /\ m.kind = "staged"
<1>1. w \in Threads /\ w \notin Handlers /\ w # Boot /\ pc[w] = "idle" /\ queue # <<>>
  BY ThreadKinds DEF TakeJob
<1>2. PICK job : job = Head(queue)
  OBVIOUS
<1>3. queue \in Seq(Jobs) /\ Len(queue) = 1 /\ queue' = Tail(queue) /\ ~AtWork
  BY <1>1 DEF TakeJob, UploadInv, MemoryInv, JobInv
<1>4. queue' = <<>> /\ job = queue[1] /\ job \in Jobs
  <2>1. queue[1] \in Jobs /\ job = queue[1]
    BY <1>2, <1>3
  <2>2. Tail(queue) \in Seq(Jobs) /\ Len(Tail(queue)) = 0
    BY <1>1, <1>3
  <2> QED
    BY <1>3, <2>1, <2>2, EmptySeq
<1>5. PICK m : m = [Blank EXCEPT !.kind = job.kind, !.run = job.run, !.ret = "fin"]
  OBVIOUS
<1>6. Shaped(m) /\ m.kind = job.kind /\ m.run = job.run /\ m.ret = "fin" /\ m.b = Blank.b
  BY <1>5 DEF Shaped, Blank
<1>7. PICK q : /\ Go(w, q, m)
               /\ \/ q = "fin"
                  \/ q = "at_ingest" /\ m.kind = "upload"
                  \/ q = "reset" /\ m.kind = "archive"
                  \/ q = "at_staged" /\ m.kind = "staged"
  <2>1. PICK q : /\ q = CASE Gone \/ (job.kind = "staged" /\ run[job.run].status = "deleted")
                                      -> "fin"
                                 [] job.kind = "upload"  -> "at_ingest"
                                 [] job.kind = "archive" -> "reset"
                                 [] job.kind = "staged"  -> "at_staged"
                 /\ Go(w, q, m)
    BY <1>2, <1>5 DEF TakeJob
  <2>2. job.kind \in {"upload", "archive", "staged"}
    BY <1>4 DEF Jobs
  <2>3. \/ q = "fin"
        \/ q = "at_ingest" /\ job.kind = "upload"
        \/ q = "reset" /\ job.kind = "archive"
        \/ q = "at_staged" /\ job.kind = "staged"
    BY <2>1, <2>2
  <2> QED
    BY <1>6, <2>1, <2>3
<1>8. /\ pc'[w] = q /\ loc'[w].kind = m.kind /\ loc'[w].ret = "fin"
      /\ \A u \in Threads : u # w => pc'[u] = pc[u] /\ loc'[u] = loc[u]
  BY <1>1, <1>6, <1>7, AfterGo
<1>9. PlacesInv'
  <2>1. Placed(w, pc[w], loc[w])'
    BY <1>1, <1>4, <1>6, <1>7, <1>8 DEF Placed, WorkPlaces, Executing, IngestPlaces, RunPlaces, FailPlaces, Jobs
  <2>2. \A u \in Threads : u # w => Placed(u, pc[u], loc[u])'
    BY <1>8 DEF Placed, PlacesInv, TakeJob, outside
  <2> QED
    BY <2>1, <2>2 DEF PlacesInv, TakeJob, outside
<1>10. \A u \in Threads : ~Carries(u, pc[u]) /\ (Carries(u, pc'[u]) => u = w)
  BY <1>1, <1>3, <1>8 DEF AtWork
<1>11. JobInv'
  <2>1. q \notin SavesBatch
    BY <1>7 DEF SavesBatch
  <2>2. \A u \in Threads : pc'[u] \in SavesBatch => loc'[u].b.status # "none"
    BY <1>8, <2>1 DEF JobInv
  <2>3. pc'[Boot] = "idle"
    BY <1>10, ThreadKinds, <1>1 DEF Carries
  <2>4. batch'.status # "none"
    BY <1>1 DEF TakeJob, store, JobInv
  <2> QED
    BY <1>4, <1>10, <2>2, <2>3, <2>4 DEF JobInv, AtWork
<1> QED
  BY <1>1, <1>4, <1>6, <1>7, <1>8, <1>9, <1>10, <1>11 DEF Carries

(* After a restart only the lifespan hook may be at work.                   *)
LEMMA JobResumed ==
    ASSUME UploadInv, PlacesInv, JobInv, Restart
    PROVE  /\ PlacesInv' /\ JobInv' /\ \A t \in Threads \ {Boot} : pc'[t] = "idle"
<1>1. PICK m : m = [Blank EXCEPT !.kind = "boot", !.b = batch]
  OBVIOUS
<1>2. m.kind = "boot" /\ m.ret = "idle" /\ Blank.kind = "none" /\ Blank.ret = "idle" /\ m.b = batch
  BY <1>1 DEF Blank
<1>3. /\ \A t \in Threads : /\ pc'[t] \in {"idle", "check"} /\ (pc'[t] = "check" => t = Boot /\ BootResumes')
                             /\ loc'[t] = IF pc'[t] = "check" THEN m ELSE Blank
      /\ UNCHANGED <<batch, arriving>> /\ queue' = <<>>
  BY <1>1 DEF Restart
<1>4. \A t \in Threads \ {Boot} : pc'[t] = "idle"
  BY <1>3
<1>5. PlacesInv'
  BY <1>2, <1>3, <1>4, ThreadKinds DEF PlacesInv, Placed, HandlerPlaces, BootPlaces, WorkPlaces,
     Executing, IngestPlaces, RunPlaces, FailPlaces
<1>6. JobInv'
  <2>1. "idle" \notin SavesBatch /\ "check" \notin SavesBatch
    BY DEF SavesBatch
  <2>2. batch'.status = "none" => ~BootResumes'
    BY DEF BootResumes
  <2> QED
    BY <1>3, <1>4, <2>1, <2>2, ThreadKinds DEF JobInv, Carries
<1> QED
  BY <1>4, <1>5, <1>6

(* Every step keeps the places of the threads and their one job.            *)
LEMMA JobStep ==
    ASSUME UploadInv, PlacesInv, JobInv, [Next]_vars
    PROVE  PlacesInv' /\ JobInv'
<1>1. CASE Restart
  BY <1>1, JobResumed
<1>2. ASSUME NEW h \in Handlers, AcceptUpload(h) \/ \E kind \in arriving : Request(h, kind)
      PROVE  PlacesInv' /\ JobInv'
  BY <1>2, JobAccepted, RequestArrives
<1>3. ASSUME NEW w \in Workers, TakeJob(w) PROVE PlacesInv' /\ JobInv'
  BY <1>3, JobTaken
<1>4. ASSUME NEW t \in Handlers \cup {Boot}, EnqueueUpload(t) \/ EnqueueStaged(t)
      PROVE  PlacesInv' /\ JobInv'
  BY <1>4, JobQueued
<1>5. ASSUME NEW t \in Threads,
             \/ t \in Workers /\ (Work(t) \/ TransformChunk(t))
             \/ t \in Handlers /\ Handle(t) /\ ~EnqueueUpload(t)
             \/ t = Boot /\ Recover(t) /\ ~EnqueueUpload(t) /\ ~EnqueueStaged(t)
      PROVE  PlacesInv' /\ JobInv'
  BY <1>5, StepsQueueNothing, StepsAreAwake, JobKept
<1>6. CASE UNCHANGED vars
  BY <1>6 DEF vars, PlacesInv, Placed, JobInv, AtWork
<1> QED
  BY <1>1, <1>2, <1>3, <1>4, <1>5, <1>6, ThreadKinds DEF Next

-----------------------------------------------------------------------------
(* What a step does to the rows.                                            *)
Steps(t) == \/ t \in Workers /\ (Work(t) \/ TransformChunk(t))
            \/ t \in Handlers /\ Handle(t)
            \/ t = Boot /\ Recover(t)

(* A step of thread t and the row of run r.                                 *)
RunEffect(t, r) ==
    \/ run'[r] = run[r]
    \/ pc[t] = "fc_runs" /\ r \in Created /\ run'[r].status = "cancelled"
    \/ pc[t] = "delete_record" /\ r \in Created /\ run'[r].status = "deleted" /\ batch'.status = "deleted"
    \/ pc[t] \in {"add_run", "staged_add", "archive_add"} /\ r = NextRun /\ run'[r].status = "pending"
    \/ /\ r = loc[t].run /\ Named(r)
       /\ \/ pc[t] = "running" /\ run'[r].status = "running"
          \/ pc[t] = "chunk" /\ run'[r].status \in {"succeeded", "failed"}
          \/ pc[t] \in {"fail_run", "fin_save", "zombie"} /\ run'[r].status = "failed"
          \/ pc[t] = "qa_save" /\ run'[r].status = loc[t].r.status

(* A step of thread t and the row of the batch.                             *)
BatchEffect(t) ==
    \/ batch' = batch
    \/ pc[t] = "cancel_request" /\ batch'.status = batch.status /\ batch'.cancel
    \/ /\ ~Gone /\ batch'.cancel = batch.cancel
       /\ \/ pc[t] = "delete_record" /\ batch'.status = "deleted"
          \/ pc[t] = "reset" /\ batch'.status = "received"
          \/ pc[t] = "layout" /\ batch'.status = loc[t].b.status
          \/ pc[t] = "stage" /\ batch'.status \in {"staged", "failed"}
          \/ pc[t] = "processed" /\ batch'.status = "processed"
          \/ pc[t] = "fb_save" /\ batch'.status = "failed"
          \/ pc[t] = "fc_batch" /\ batch'.status = "cancelled"

(* Every step of a thread has one of these effects on the batch.            *)
LEMMA BatchEffects ==
    ASSUME UploadInv, NEW t \in Threads, Steps(t)
    PROVE  BatchEffect(t)
<1>1. batch \in Batches
  BY DEF UploadInv, StoreInv
<1>2. CASE IngestLayout(t) \/ Stage(t) \/ TransformProcessed(t) \/ FailSave(t) \/ FinalizeBatch(t)
  <2>1. CASE Gone
    BY <1>2, <2>1 DEF IngestLayout, Stage, TransformProcessed, FailSave, FinalizeBatch, SaveBatch, BatchEffect
  <2>2. CASE ~Gone
    BY <1>2, <2>2, BatchesWritten DEF IngestLayout, Stage, TransformProcessed, FailSave, FinalizeBatch, BatchEffect
  <2> QED
    BY <2>1, <2>2
<1>3. CASE CancelRequest(t)
  BY <1>1, <1>3 DEF CancelRequest, BatchEffect, Batches
<1>4. CASE DeleteRecord(t)
  BY <1>1, <1>4 DEF DeleteRecord, BatchEffect, Batches
<1>5. CASE ResetStaging(t)
  BY <1>1, <1>5 DEF ResetStaging, BatchEffect, Batches
<1>6. CASE \/ Checkpoint(t) \/ IngestRead(t) \/ FindRun(t) \/ AddJobRun(t)
           \/ TransformRead(t) \/ TransformRunning(t) \/ TransformEnd(t) \/ TransformChunk(t) \/ Verdict(t)
           \/ FailRead(t) \/ FailStage(t) \/ FailReprocess(t) \/ FailRunSave(t)
           \/ Finish(t) \/ FinishRun(t) \/ FinishRunSave(t) \/ FinishBatch(t) \/ Forget(t)
           \/ FinalizeRead(t) \/ FinalizeRevert(t) \/ FinalizeRuns(t)
  BY <1>6 DEF Checkpoint, IngestRead, FindRun, AddJobRun, TransformRead, TransformRunning, TransformEnd,
     TransformChunk, Verdict, ReadForVerdict, SaveVerdict, FailRead, FailStage, FailReprocess, FailRunSave,
     Finish, FinishRun, FinishRunSave, FinishBatch, Forget, FinalizeRead, FinalizeRevert, FinalizeRuns,
     store, BatchEffect
<1>7. CASE \/ CancelRead(t) \/ CancelRunning(t) \/ DeleteRead(t) \/ DeleteRunning(t) \/ DeleteCheck(t)
           \/ DeleteRevert(t) \/ Publish(t) \/ PublishRefused(t) \/ PublishCreate(t) \/ Evaluate(t)
           \/ Poll(t) \/ Reprocess(t) \/ Recover(t)
  BY <1>7 DEF CancelRead, CancelRunning, DeleteRead, DeleteRunning, DeleteCheck, DeleteRevert, Publish,
     PublishRefused, PublishCreate, Evaluate, Poll, Reprocess, Recover, FindActive, CheckRunning, FailZombie,
     AddRecoveryRun, EnqueueStaged, EnqueueUpload, store, BatchEffect
<1> QED
  BY <1>2, <1>3, <1>4, <1>5, <1>6, <1>7 DEF Steps, Work, Handle, Finalize

(* Every step of a thread has one of these effects on a run.                *)
LEMMA RunEffects ==
    ASSUME UploadInv, NEW t \in Threads, Steps(t), NEW r \in Runs
    PROVE  RunEffect(t, r)
<1>1. run \in [Runs -> Record] /\ loc[t] \in Locals /\ (pc[t] \in SavesRun => Named(loc[t].run))
  BY ThreadFacts DEF UploadInv, StoreInv, Held
<1>2. ASSUME NEW rec \in Record, SaveRun(loc[t].run, rec), pc[t] \in SavesRun
      PROVE  run'[r] = run[r] \/ (r = loc[t].run /\ Named(r) /\ run'[r].status = rec.status)
  BY <1>1, <1>2 DEF SaveRun
<1>3. CASE TransformRunning(t)
  <2>1. PICK rec : rec = [loc[t].r EXCEPT !.status = "running"]
    OBVIOUS
  <2>2. rec \in Record /\ rec.status = "running" /\ SaveRun(loc[t].run, rec) /\ pc[t] = "running"
    BY <1>1, <1>3, <2>1 DEF TransformRunning, Record, Locals
  <2> QED
    BY <1>2, <2>2 DEF RunEffect, SavesRun
<1>4. CASE TransformEnd(t)
  <2>1. PICK status \in {"succeeded", "failed"}, reason \in Reasons :
           SaveRun(loc[t].run, [loc[t].r EXCEPT !.status = status, !.reason = reason])
    BY <1>4 DEF TransformEnd, Reasons
  <2>2. PICK rec : rec = [loc[t].r EXCEPT !.status = status, !.reason = reason]
    OBVIOUS
  <2>3. rec \in Record /\ rec.status = status /\ SaveRun(loc[t].run, rec) /\ pc[t] = "chunk"
    BY <1>1, <1>4, <2>1, <2>2 DEF TransformEnd, Record, Reasons, Locals
  <2> QED
    BY <1>2, <2>1, <2>3 DEF RunEffect, SavesRun
<1>5. CASE SaveVerdict(t)
  <2>1. CASE UNCHANGED run
    BY <2>1 DEF RunEffect
  <2>2. CASE \E verdict \in {"pass", "fail"} : SaveRun(loc[t].run, [loc[t].r EXCEPT !.verdict = verdict])
    <3>1. PICK verdict \in {"pass", "fail"} : SaveRun(loc[t].run, [loc[t].r EXCEPT !.verdict = verdict])
      BY <2>2
    <3>2. PICK rec : rec = [loc[t].r EXCEPT !.verdict = verdict]
      OBVIOUS
    <3>3. rec \in Record /\ rec.status = loc[t].r.status /\ SaveRun(loc[t].run, rec) /\ pc[t] = "qa_save"
      BY <1>1, <1>5, <3>1, <3>2 DEF SaveVerdict, Record, Locals
    <3> QED
      BY <1>2, <3>3 DEF RunEffect, SavesRun
  <2> QED
    BY <1>5, <2>1, <2>2 DEF SaveVerdict
<1>6. CASE FailRunSave(t) \/ FinishRunSave(t)
  <2>1. /\ loc[t].r \in Record /\ loc[t].r.status = "failed" /\ SaveRun(loc[t].run, loc[t].r)
        /\ pc[t] \in {"fail_run", "fin_save"}
    BY <1>6, ThreadFacts DEF FailRunSave, FinishRunSave, Held
  <2> QED
    BY <1>2, <2>1 DEF RunEffect, SavesRun
<1>7. CASE FailZombie(t)
  <2>1. PICK rec : rec = [loc[t].r EXCEPT !.status = "failed", !.reason = "auto"]
    OBVIOUS
  <2>2. rec \in Record /\ rec.status = "failed" /\ SaveRun(loc[t].run, rec) /\ pc[t] = "zombie"
    BY <1>1, <1>7, <2>1 DEF FailZombie, Record, Locals
  <2> QED
    BY <1>2, <2>2 DEF RunEffect, SavesRun
<1>8. CASE AddJobRun(t) \/ AddRecoveryRun(t)
  <2>1. pc[t] \in {"add_run", "staged_add", "archive_add"} /\ (UNCHANGED run \/ AddRun(NextRun))
    BY <1>8 DEF AddJobRun, AddRecoveryRun
  <2>2. PICK rec, n : rec = [Absent EXCEPT !.status = "pending"] /\ n = NextRun
    OBVIOUS
  <2>3. rec.status = "pending"
    BY <2>2 DEF Absent
  <2>4. UNCHANGED run \/ run' = [run EXCEPT ![n] = rec]
    BY <2>1, <2>2 DEF AddRun
  <2> QED
    BY <1>1, <2>1, <2>2, <2>3, <2>4 DEF RunEffect
<1>9. CASE FinalizeRuns(t)
  <2>1. PICK todo : todo = loc[t].todo
    OBVIOUS
  <2>2. /\ pc[t] = "fc_runs"
        /\ run' = [q \in Runs |-> IF q \in todo \cap Created
                                  THEN [run[q] EXCEPT !.status = "cancelled", !.reason = "other"] ELSE run[q]]
    BY <1>9, <2>1 DEF FinalizeRuns
  <2>3. PICK rec : rec = [run[r] EXCEPT !.status = "cancelled", !.reason = "other"]
    OBVIOUS
  <2>4. rec.status = "cancelled"
    BY <1>1, <2>3 DEF Record
  <2> QED
    BY <1>1, <2>2, <2>3, <2>4 DEF RunEffect
<1>10. CASE DeleteRecord(t)
  <2>1. CASE UNCHANGED run
    BY <2>1 DEF RunEffect
  <2>2. CASE ~(Gone \/ (rows \cup published) \cap Created # {})
    <3>1. PICK rec : rec = [Absent EXCEPT !.status = "deleted"]
      OBVIOUS
    <3>2. rec.status = "deleted"
      BY <3>1 DEF Absent
    <3>3. run' = [q \in Runs |-> IF q \in Created THEN rec ELSE run[q]] /\ pc[t] = "delete_record"
      BY <1>10, <2>2, <3>1 DEF DeleteRecord
    <3>4. batch'.status = "deleted"
      BY <1>10, <2>2 DEF DeleteRecord, UploadInv, StoreInv, Batches
    <3> QED
      BY <1>1, <3>2, <3>3, <3>4 DEF RunEffect
  <2> QED
    BY <1>10, <2>1, <2>2 DEF DeleteRecord
<1>11. CASE \/ Checkpoint(t) \/ IngestRead(t) \/ IngestLayout(t) \/ Stage(t) \/ FindRun(t) \/ ResetStaging(t)
            \/ TransformRead(t) \/ TransformChunk(t) \/ TransformProcessed(t) \/ ReadForVerdict(t)
            \/ FailRead(t) \/ FailSave(t) \/ FailStage(t) \/ FailReprocess(t)
            \/ Finish(t) \/ FinishRun(t) \/ FinishBatch(t) \/ Forget(t)
            \/ FinalizeRead(t) \/ FinalizeRevert(t) \/ FinalizeBatch(t)
  BY <1>11 DEF Checkpoint, IngestRead, IngestLayout, Stage, FindRun, ResetStaging, TransformRead, TransformChunk,
     TransformProcessed, ReadForVerdict, FailRead, FailSave, FailStage, FailReprocess,
     Finish, FinishRun, FinishBatch, Forget, FinalizeRead, FinalizeRevert, FinalizeBatch,
     store, RunEffect
<1>12. CASE \/ CancelRead(t) \/ CancelRunning(t) \/ CancelRequest(t) \/ DeleteRead(t) \/ DeleteRunning(t) \/ DeleteCheck(t)
            \/ DeleteRevert(t) \/ Publish(t) \/ PublishRefused(t) \/ PublishCreate(t) \/ Evaluate(t)
            \/ Poll(t) \/ Reprocess(t) \/ FindActive(t) \/ CheckRunning(t) \/ EnqueueStaged(t) \/ EnqueueUpload(t)
  BY <1>12 DEF CancelRead, CancelRunning, CancelRequest, DeleteRead, DeleteRunning, DeleteCheck, DeleteRevert, Publish,
     PublishRefused, PublishCreate, Evaluate, Poll, Reprocess, FindActive, CheckRunning,
     EnqueueStaged, EnqueueUpload, store, RunEffect
<1> QED
  BY <1>3, <1>4, <1>5, <1>6, <1>7, <1>8, <1>9, <1>10, <1>11, <1>12 DEF Steps, Work, Handle, Recover, Finalize, Verdict

-----------------------------------------------------------------------------
(* Runs are added in order, and a cancellation goes back to a request.      *)
InOrder == \A r, q \in Runs : q < r /\ Named(r) => Named(q)

CancelAsked == batch.cancel \/ batch.status = "deleted"

CancelInv ==
    /\ batch.status = "cancelled" => CancelAsked
    /\ \A t \in Threads : \/ CancelAsked
                          \/ pc[t] \notin CancelPlaces /\ loc[t].b.status # "cancelled"

(* When runs are named in order, the first that is not follows their number.*)
LEMMA FirstUnnamed ==
    ASSUME NEW rn, \A r, q \in Runs : q < r /\ rn[r].status # "absent" => rn[q].status # "absent",
           NEW n, n = Cardinality({r \in Runs : rn[r].status # "absent"}) + 1
    PROVE  n \in Nat \ {0} /\ \A r \in Runs : rn[r].status # "absent" <=> r < n
<1>1. PICK S : S = {r \in Runs : rn[r].status # "absent"}
  OBVIOUS
<1>2. PICK k \in Nat : S = 1..k
  <2>1. CASE S = {}
    BY <2>1
  <2>2. CASE S # {}
    <3>1. S \subseteq Runs
      BY <1>1
    <3>2. PICK k \in S : \A q \in S : q <= k
      BY <2>2, <3>1, NewestIsOne
    <3>3. k \in Runs /\ k \in Nat /\ \A q \in 1..k : q \in Runs
      BY <3>1, <3>2, UploadConstants DEF Runs
    <3>4. \A q \in 1..k : q \in S
      BY <1>1, <3>2, <3>3 DEF Runs
    <3>5. S \subseteq 1..k
      BY <3>1, <3>2, UploadConstants DEF Runs
    <3> QED
      BY <3>3, <3>4, <3>5
  <2> QED
    BY <2>1, <2>2
<1>3. Cardinality(S) = k
  BY <1>2, FS_Interval
<1>4. n = k + 1
  BY <1>1, <1>3
<1>5. \A r \in Runs : r \in Nat \ {0} /\ (r \in S <=> rn[r].status # "absent")
  BY <1>1, UploadConstants DEF Runs
<1>6. \A r \in Runs : r \in 1..k <=> r < k + 1
  BY <1>5
<1>7. n \in Nat \ {0}
  BY <1>4
<1>8. ASSUME NEW r \in Runs PROVE rn[r].status # "absent" <=> r < n
  BY <1>2, <1>4, <1>5, <1>6
<1> QED
  BY <1>7, <1>8

(* The next run is the first that no row names.                             *)
LEMMA NextRunIsNew ==
    ASSUME InOrder
    PROVE  NextRun \in Nat \ {0} /\ \A r \in Runs : Named(r) <=> r < NextRun
<1>1. \A r, q \in Runs : q < r /\ run[r].status # "absent" => run[q].status # "absent"
  BY DEF InOrder, Named
<1>2. PICK n : n = NextRun
  OBVIOUS
<1>3. n \in Nat \ {0} /\ \A r \in Runs : run[r].status # "absent" <=> r < n
  BY <1>1, <1>2, FirstUnnamed DEF NextRun
<1> QED
  BY <1>2, <1>3 DEF Named

(* What a step makes of the names.                                          *)
LEMMA NamesStep ==
    ASSUME UploadInv, InOrder, [Next]_vars
    PROVE  /\ InOrder' /\ \A r \in Runs : Named(r) => Named(r)'
           /\ NextRun' \in Runs => NextRun \in Runs
<1>1. \A r \in Runs : (Named(r) => Named(r)') /\ (Named(r)' => Named(r) \/ r = NextRun)
  <2>1. ASSUME NEW t \in Threads, Steps(t), NEW r \in Runs
        PROVE  (Named(r) => Named(r)') /\ (Named(r)' => Named(r) \/ r = NextRun)
    <3>1. pc[t] = "qa_save" => loc[t].r.status # "absent"
      BY ThreadFacts DEF Held
    <3>2. RunEffect(t, r)
      BY <2>1, RunEffects
    <3> QED
      BY <3>1, <3>2 DEF RunEffect, Named, Created
  <2>2. CASE Restart
    <3>1. ASSUME NEW r \in Runs PROVE run'[r].status = run[r].status \/ (r \in Active /\ run'[r].status = "failed")
      <4>1. PICK rec : rec = [run[r] EXCEPT !.status = "failed", !.reason = "auto"]
        OBVIOUS
      <4>2. rec.status = "failed"
        BY <4>1 DEF UploadInv, StoreInv, Record
      <4>3. run'[r] = IF r \in Active THEN rec ELSE run[r]
        BY <2>2, <4>1 DEF Restart
      <4> QED
        BY <4>2, <4>3
    <3> QED
      BY <3>1 DEF Named, Active
  <2>3. CASE UNCHANGED run
    BY <2>3 DEF Named
  <2> QED
    BY <2>1, <2>2, <2>3, ThreadKinds DEF Next, Steps, TakeJob, AcceptUpload, Request, vars, store
<1>2. \A r \in Runs : Named(r) <=> r < NextRun
  BY NextRunIsNew
<1>3. NextRun \in Nat /\ Runs \subseteq Nat
  BY NextRunIsNew, UploadConstants DEF Runs
<1>4. InOrder'
  <2> SUFFICES ASSUME NEW r \in Runs, NEW q \in Runs, q < r, Named(r)'
               PROVE  Named(q)'
    BY DEF InOrder
  <2>1. Named(q)
    BY <1>1, <1>2, <1>3 DEF InOrder
  <2> QED
    BY <1>1, <2>1
<1>5. PICK n, k : n = NextRun /\ k = NextRun'
  OBVIOUS
<1>6. n \in Nat \ {0} /\ \A r \in Runs : Named(r) <=> r < n
  BY <1>5, NextRunIsNew
<1>7. k \in Nat \ {0} /\ \A r \in Runs : Named(r)' <=> r < k
  <2>1. \A r, q \in Runs : q < r /\ run'[r].status # "absent" => run'[q].status # "absent"
    BY <1>4 DEF InOrder, Named
  <2>2. k = Cardinality({r \in Runs : run'[r].status # "absent"}) + 1
    BY <1>5 DEF NextRun
  <2>3. k \in Nat \ {0} /\ \A r \in Runs : run'[r].status # "absent" <=> r < k
    BY <2>1, <2>2, FirstUnnamed
  <2> QED
    BY <2>3 DEF Named
<1>8. k \in Runs => n \in Runs
  <2> SUFFICES ASSUME k \in Runs PROVE n \in Runs
    OBVIOUS
  <2>1. ~(k < n)
    BY <1>1, <1>6, <1>7
  <2> QED
    BY <1>6, <1>7, <2>1, UploadConstants DEF Runs
<1> QED
  BY <1>1, <1>4, <1>5, <1>8

(* Where a step leaves its thread: with a batch row read before or now, and *)
(* at the end of a cancellation only when one was requested.                *)
Reads(t, q, m) ==
    /\ Go(t, q, m) /\ Shaped(m) /\ m.b \in {loc[t].b, batch}
    /\ q \in CancelPlaces => \/ pc[t] \in CancelPlaces
                             \/ batch.cancel \/ batch'.cancel \/ batch.status \in {"cancelled", "deleted"}

(* Where any step of a thread leaves it, and what it then has read.         *)
LEMMA StepReads ==
    ASSUME UploadInv, PlacesInv, JobInv, NEW t \in Threads, Steps(t)
    PROVE  \E q, m : Reads(t, q, m)
<1>1. /\ loc[t] \in Locals /\ (batch.status = "none" => pc[t] = "idle")
      /\ loc[t].ret \notin CancelPlaces
  <2>1. loc[t].ret \notin CancelPlaces
    BY ThreadFacts DEF CancelPlaces, Returns
  <2> QED
    BY <2>1, ThreadFacts DEF JobInv
<1> USE DEF Reads, Goto, Return, RaiseError, RaiseCancelled, Locals, Shaped, Gone, CancelPlaces
<1>2. CASE ResetStaging(t) \/ IngestRead(t) \/ IngestLayout(t)
  BY <1>1, <1>2 DEF ResetStaging, IngestRead, IngestLayout
<1>25. CASE Stage(t)
  <2>1. Go(t, "find_run", loc[t]) \/ Go(t, "at_failed", loc[t])
    BY <1>25 DEF Stage
  <2> QED
    BY <1>1, <2>1
<1>3. CASE Checkpoint(t)
  BY <1>1, <1>3 DEF Checkpoint, AfterCheckpoint
<1>4. CASE FindRun(t) \/ AddJobRun(t)
  <2>1. PICK last, n : last = Newest(Active) /\ n = NextRun
    OBVIOUS
  <2> QED
    BY <1>1, <1>4, <2>1 DEF FindRun, AddJobRun
<1>5. CASE TransformRead(t)
  <2>1. PICK rec, m : rec = run[loc[t].run] /\ m = [loc[t] EXCEPT !.b = batch, !.r = rec]
    OBVIOUS
  <2>2. Shaped(m) /\ m.b = batch
    BY <1>1, <2>1
  <2>3. RaiseError(t) \/ Go(t, "running", m)
    BY <1>5, <2>1 DEF TransformRead
  <2> QED
    BY <1>1, <2>2, <2>3
<1>6. CASE TransformRunning(t) \/ TransformChunk(t) \/ TransformProcessed(t)
  BY <1>1, <1>6 DEF TransformRunning, TransformChunk, TransformProcessed
<1>7. CASE TransformEnd(t)
  BY <1>1, <1>7 DEF TransformEnd
<1>8. CASE ReadForVerdict(t) \/ SaveVerdict(t)
  BY <1>1, <1>8 DEF ReadForVerdict, SaveVerdict
<1>9. CASE FailRead(t)
  BY <1>1, <1>9, StepsAreAwake DEF FailRead, Cancelled
<1>10. CASE FailSave(t) \/ FailReprocess(t)
  BY <1>1, <1>10 DEF FailSave, FailReprocess
<1>11. CASE FailStage(t)
  <2>1. PICK first, rec : first = Oldest(Created) /\ rec = [run[first] EXCEPT !.status = "failed"]
    OBVIOUS
  <2>2. PICK m : m = [loc[t] EXCEPT !.run = first, !.r = rec]
    OBVIOUS
  <2>3. Shaped(m) /\ m.b = loc[t].b
    BY <1>1, <2>2
  <2>4. Go(t, loc[t].ret, loc[t]) \/ Go(t, "fail_run", m)
    BY <1>11, <2>1, <2>2 DEF FailStage
  <2> QED
    BY <1>1, <2>3, <2>4
<1>12. CASE FailRunSave(t) \/ FinishRunSave(t) \/ FinishBatch(t) \/ Forget(t)
  BY <1>1, <1>12 DEF FailRunSave, FinishRunSave, FinishBatch, Forget
<1>13. CASE Finish(t)
  <2>1. PICK q, after : /\ Go(t, q, [loc[t] EXCEPT !.ret = after, !.why = "auto"])
                        /\ q = CASE MustCancel(t) -> "fc_read"
                                 [] MustFail(t) -> IF loc[t].kind = "staged" THEN "fr_read" ELSE "fin_run"
                                 [] OTHER -> after
                        /\ after = IF pc[t] = "fin" THEN "forget" ELSE "idle"
    BY <1>13 DEF Finish
  <2>2. (q = "fc_read" /\ MustCancel(t)) \/ q \in {"fr_read", "fin_run", "forget", "idle"}
    BY <2>1
  <2>3. PICK m : m = [loc[t] EXCEPT !.ret = after, !.why = "auto"]
    OBVIOUS
  <2>4. Shaped(m) /\ m.b = loc[t].b
    BY <1>1, <2>3
  <2> QED
    BY <2>1, <2>2, <2>3, <2>4 DEF MustCancel
<1>14. CASE FinishRun(t)
  <2>1. PICK last, why, rec : /\ last = Newest(Active)
                              /\ why = IF run[last].reason = "none" THEN "auto" ELSE run[last].reason
                              /\ rec = [run[last] EXCEPT !.status = "failed", !.reason = why]
    OBVIOUS
  <2>2. PICK m : m = [loc[t] EXCEPT !.run = last, !.r = rec]
    OBVIOUS
  <2>3. Shaped(m) /\ m.b = loc[t].b
    BY <1>1, <2>2
  <2>4. Go(t, "fin_batch", loc[t]) \/ Go(t, "fin_save", m)
    BY <1>14, <2>1, <2>2 DEF FinishRun
  <2> QED
    BY <1>1, <2>3, <2>4
<1>15. CASE Finalize(t)
  <2>1. CASE FinalizeRead(t)
    BY <1>1, <2>1 DEF FinalizeRead
  <2>2. CASE FinalizeRevert(t) \/ FinalizeBatch(t)
    BY <1>1, <2>2 DEF FinalizeRevert, FinalizeBatch
  <2>3. CASE FinalizeRuns(t)
    <3>1. pc[t] = "fc_runs" /\ Go(t, "fc_batch", loc[t])
      BY <2>3 DEF FinalizeRuns
    <3> QED
      BY <1>1, <3>1
  <2> QED
    BY <1>15, <2>1, <2>2, <2>3 DEF Finalize
<1>16. CASE CancelRead(t) \/ CancelRunning(t)
  BY <1>1, <1>16 DEF CancelRead, CancelRunning
<1>17. CASE CancelRequest(t)
  <2>1. batch'.cancel \/ batch.status = "deleted"
    <3>1. batch \in Batches /\ batch.status # "none"
      BY <1>1, <1>17 DEF CancelRequest, UploadInv, StoreInv
    <3> QED
      BY <1>17, <3>1 DEF CancelRequest, Batches
  <2>2. Go(t, "idle", loc[t]) \/ Go(t, "fc_read", loc[t])
    BY <1>17 DEF CancelRequest
  <2> QED
    BY <1>1, <2>1, <2>2
<1>18. CASE DeleteRead(t) \/ DeleteRunning(t) \/ DeleteCheck(t) \/ DeleteRevert(t)
  BY <1>1, <1>18 DEF DeleteRead, DeleteRunning, DeleteCheck, DeleteRevert
<1>19. CASE DeleteRecord(t)
  <2>1. Go(t, "idle", loc[t])
    BY <1>19 DEF DeleteRecord
  <2> QED
    BY <1>1, <2>1
<1>20. CASE Publish(t) \/ PublishRefused(t) \/ PublishCreate(t)
  <2>1. PICK x : Go(t, "publish_create", [loc[t] EXCEPT !.run = x]) \/ Go(t, "idle", loc[t])
    BY <1>20 DEF Publish, PublishRefused, PublishCreate
  <2> QED
    BY <1>1, <2>1
<1>26. CASE Evaluate(t) \/ Poll(t) \/ Reprocess(t)
  <2>1. PICK x : \/ Go(t, "qa_read", [loc[t] EXCEPT !.run = x]) \/ Go(t, "idle", loc[t])
                 \/ Go(t, "check", [loc[t] EXCEPT !.b = batch])
    BY <1>26 DEF Evaluate, Poll, Reprocess
  <2> QED
    BY <1>1, <2>1
<1>21. CASE FindActive(t)
  <2>1. PICK x, y, z : \/ Go(t, "idle", loc[t])
                       \/ Go(t, z, loc[t]) /\ z = AfterCheck(t)
                       \/ Go(t, "check_running", [loc[t] EXCEPT !.run = x, !.r = y, !.ret = z])
    BY <1>21 DEF FindActive
  <2>2. AfterCheck(t) \in {"staged_add", "staged_check", "archive_add", "enqueue"}
    BY DEF AfterCheck
  <2>3. PICK m : m = [loc[t] EXCEPT !.run = x, !.r = y, !.ret = z]
    OBVIOUS
  <2>4. Shaped(m) /\ m.b = loc[t].b
    BY <1>1, <2>3
  <2> QED
    BY <1>1, <2>1, <2>2, <2>3, <2>4
<1>22. CASE CheckRunning(t) \/ EnqueueStaged(t) \/ EnqueueUpload(t)
  BY <1>1, <1>22 DEF CheckRunning, EnqueueStaged, EnqueueUpload
<1>23. CASE FailZombie(t)
  <2>1. PICK m : m = [loc[t] EXCEPT !.run = NoRun, !.ret = "idle"]
    OBVIOUS
  <2>2. Shaped(m) /\ m.b = loc[t].b /\ Go(t, loc[t].ret, m)
    BY <1>1, <1>23, <2>1 DEF FailZombie
  <2> QED
    BY <1>1, <2>2
<1>24. CASE AddRecoveryRun(t)
  <2>1. PICK n : n = NextRun
    OBVIOUS
  <2> QED
    BY <1>1, <1>24, <2>1 DEF AddRecoveryRun
<1> QED
  BY <1>2, <1>3, <1>4, <1>5, <1>6, <1>7, <1>8, <1>9, <1>10, <1>11, <1>12, <1>13, <1>14, <1>15, <1>16,
     <1>17, <1>18, <1>19, <1>20, <1>21, <1>22, <1>23, <1>24, <1>25, <1>26 DEF Steps, Work, Handle, Recover, Verdict

(* Every step keeps cancellations requested and their end to those asked for.*)
LEMMA CancelStep ==
    ASSUME UploadInv, PlacesInv, JobInv, CancelInv, [Next]_vars
    PROVE  CancelInv' /\ (CancelAsked => CancelAsked')
<1>1. batch \in Batches /\ Blank.b.status = "none" /\ Blank.kind = "none"
  BY DEF UploadInv, StoreInv, Blank
<1>2. "idle" \notin CancelPlaces /\ "enqueue" \notin CancelPlaces /\ "check" \notin CancelPlaces
      /\ RequestKinds \cap CancelPlaces = {} /\ "fin" \notin CancelPlaces /\ "at_ingest" \notin CancelPlaces
      /\ "reset" \notin CancelPlaces /\ "at_staged" \notin CancelPlaces
  BY DEF CancelPlaces, RequestKinds
<1>3. ASSUME NEW t \in Threads, NEW q, NEW m, Go(t, q, m), Shaped(m), m.b = Blank.b, q \notin CancelPlaces,
             batch'.cancel = batch.cancel, batch'.status = batch.status \/ batch.status = "none",
             batch'.status # "cancelled" \/ batch.status = "cancelled"
      PROVE  CancelInv' /\ (CancelAsked => CancelAsked')
  <2>1. /\ pc'[t] = q /\ \A u \in Threads : u # t => pc'[u] = pc[u] /\ loc'[u] = loc[u]
        /\ loc'[t].b = Blank.b
    BY <1>3, AfterGo
  <2>2. CancelAsked => CancelAsked'
    BY <1>3 DEF CancelAsked
  <2> QED
    BY <1>1, <1>3, <2>1, <2>2 DEF CancelInv
<1>4. CASE Restart
  <2>1. PICK m : m = [Blank EXCEPT !.kind = "boot", !.b = batch]
    OBVIOUS
  <2>2. m.b = batch
    BY <2>1 DEF Blank
  <2>3. /\ \A t \in Threads : pc'[t] \in {"idle", "check"} /\ loc'[t] \in {m, Blank}
        /\ UNCHANGED batch
    BY <1>4, <2>1 DEF Restart
  <2> QED
    BY <1>1, <1>2, <2>2, <2>3 DEF CancelInv, CancelAsked
<1>5. ASSUME NEW h \in Handlers, AcceptUpload(h) PROVE CancelInv' /\ (CancelAsked => CancelAsked')
  <2>1. PICK m : m = [Blank EXCEPT !.kind = "upload"]
    OBVIOUS
  <2>2. Shaped(m) /\ m.b = Blank.b
    BY <2>1 DEF Shaped, Blank
  <2>3. Go(h, "enqueue", m) /\ batch'.cancel = batch.cancel /\ batch.status = "none" /\ batch'.status = "received"
    BY <1>1, <1>5, <2>1 DEF AcceptUpload, Batches
  <2> QED
    BY <1>2, <1>3, <2>2, <2>3, ThreadKinds
<1>6. ASSUME NEW h \in Handlers, NEW kind \in arriving, Request(h, kind)
      PROVE  CancelInv' /\ (CancelAsked => CancelAsked')
  <2>1. PICK m : m = [Blank EXCEPT !.kind = kind]
    OBVIOUS
  <2>2. Shaped(m) /\ m.b = Blank.b
    BY <2>1 DEF Shaped, Blank
  <2>3. Go(h, kind, m) /\ UNCHANGED batch /\ kind \notin CancelPlaces
    BY <1>2, <1>6, <2>1 DEF Request, store, UploadInv, MemoryInv
  <2> QED
    BY <1>3, <2>2, <2>3, ThreadKinds
<1>7. ASSUME NEW w \in Workers, TakeJob(w) PROVE CancelInv' /\ (CancelAsked => CancelAsked')
  <2>1. PICK m, q : Shaped(m) /\ m.b = Blank.b /\ Go(w, q, m) /\ q \in {"fin", "at_ingest", "reset", "at_staged"}
    BY <1>7, JobTaken
  <2>2. UNCHANGED batch
    BY <1>7 DEF TakeJob, store
  <2> QED
    BY <1>2, <1>3, <2>1, <2>2, ThreadKinds
<1>8. ASSUME NEW t \in Threads, Steps(t) PROVE CancelInv' /\ (CancelAsked => CancelAsked')
  <2>1. CancelAsked => CancelAsked'
    BY <1>8, BatchEffects DEF BatchEffect, CancelAsked, Gone
  <2>2. PICK q, m : Reads(t, q, m)
    BY <1>8, StepReads
  <2>3. /\ pc'[t] = q /\ \A u \in Threads : u # t => pc'[u] = pc[u] /\ loc'[u] = loc[u]
        /\ loc'[t].b \in {loc[t].b, batch, Blank.b}
    BY <2>2, AfterGo DEF Reads
  <2>4. CancelAsked' \/ (q \notin CancelPlaces /\ loc'[t].b.status # "cancelled")
    BY <1>1, <2>1, <2>2, <2>3 DEF CancelInv, CancelAsked, Reads
  <2>5. batch'.status = "cancelled" => CancelAsked'
    <3>1. \/ pc[t] = "fc_batch" \/ batch'.status # "cancelled" \/ batch.status = "cancelled"
          \/ (pc[t] = "layout" /\ loc[t].b.status = "cancelled")
      BY <1>8, BatchEffects DEF BatchEffect
    <3> QED
      BY <2>1, <3>1 DEF CancelInv, CancelPlaces
  <2> QED
    BY <2>1, <2>3, <2>4, <2>5 DEF CancelInv
<1>9. CASE UNCHANGED vars
  BY <1>9 DEF vars, CancelInv, CancelAsked
<1> QED
  BY <1>4, <1>5, <1>6, <1>7, <1>8, <1>9, ThreadKinds DEF Next, Steps

-----------------------------------------------------------------------------
(* A job executes one run, and never one that succeeded.                    *)
OnRun == RunPlaces \cup {"enqueue_staged", "fail_run", "fin_save", "check_running", "zombie"}

Undone(r)    == ~(r \in Runs /\ run[r].status = "succeeded")
HasSucceeded == CancelAsked \/ \E r \in Runs : run[r].status = "succeeded"

Once(p, l) ==
    /\ p \in OnRun => Undone(l.run)
    /\ p = "qa_save" => Undone(l.run) \/ l.r.status = "succeeded"
    /\ p = "processed" => HasSucceeded

OnceInv ==
    /\ "evaluate" \notin arriving
    /\ queue # <<>> => Undone(queue[1].run)
    /\ batch.status = "processed" => HasSucceeded
    /\ \A t \in Threads : Once(pc[t], loc[t]) /\ (loc[t].b.status = "processed" => HasSucceeded)

(* Only the job can make a run succeed, and none is left but by a           *)
(* cancellation or the deletion.                                            *)
LEMMA OnceEffects ==
    ASSUME UploadInv, PlacesInv, JobInv, CancelInv, OnceInv, InOrder, NEW t \in Threads, Steps(t), NEW r \in Runs
    PROVE  /\ run[r].status = "succeeded" => run'[r].status \in {"succeeded", "cancelled", "deleted"}
           /\ run[r].status = "succeeded" => run'[r].status = "succeeded" \/ CancelAsked'
           /\ Undone(r) => Undone(r)' \/ (Carries(t, pc[t]) /\ pc[t] \in {"chunk", "qa_save"})
<1>1. RunEffect(t, r)
  BY RunEffects
<1>2. Once(pc[t], loc[t]) /\ (pc[t] = "fc_runs" => CancelAsked)
  BY DEF OnceInv, CancelInv, CancelPlaces
<1>3. CancelAsked => CancelAsked'
  BY CancelStep, ThreadKinds DEF Steps, Next
<1>4. run[r].status = "succeeded" => r # NextRun
  BY NextRunIsNew DEF Named
<1>5. run[r].status = "succeeded" => \/ run'[r].status = "succeeded"
                                     \/ run'[r].status = "cancelled" /\ CancelAsked
                                     \/ run'[r].status = "deleted" /\ batch'.status = "deleted"
  BY <1>1, <1>2, <1>4 DEF RunEffect, Once, Undone, OnRun, RunPlaces
<1>6. t \in Handlers => pc[t] \notin {"chunk", "qa_save"}
  BY DEF PlacesInv, Placed, OnceInv, HandlerPlaces, Calls
<1>7. Undone(r) => Undone(r)' \/ pc[t] \in {"chunk", "qa_save"}
  BY <1>1 DEF RunEffect, Undone
<1> QED
  BY <1>3, <1>5, <1>6, <1>7 DEF CancelAsked, Carries

(* Where a step leaves a thread with respect to the run it executes.        *)
LEMMA StepsOnce ==
    ASSUME UploadInv, PlacesInv, JobInv, CancelInv, OnceInv, InOrder, NEW t \in Threads, Steps(t)
    PROVE  \E q, m : Go(t, q, m) /\ Shaped(m) /\ Once(q, m)'
<1>1. /\ loc[t] \in Locals /\ run \in [Runs -> Record] /\ Once(pc[t], loc[t]) /\ NoRun \notin Runs
      /\ loc[t].ret \in Returns /\ (pc[t] \in SavesRun => Named(loc[t].run))
      /\ loc[t].r \in Record
  BY ThreadFacts DEF OnceInv, UploadInv, StoreInv, Held, NoRun, Runs
<1>2. ASSUME NEW q, q \notin OnRun \cup {"qa_save", "processed"}, NEW m, Go(t, q, m), Shaped(m)
      PROVE  \E p, n : Go(t, p, n) /\ Shaped(n) /\ Once(p, n)'
  BY <1>2 DEF Once
<1>3. ASSUME NEW q \in OnRun, NEW m, Go(t, q, m), Shaped(m), Undone(m.run), UNCHANGED run
      PROVE  \E p, n : Go(t, p, n) /\ Shaped(n) /\ Once(p, n)'
  BY <1>3 DEF Once, Undone, OnRun, RunPlaces
<1>4. Returns \cap (OnRun \cup {"qa_save", "processed"}) = {}
  BY DEF Returns, OnRun, RunPlaces
<1>5. Active # {} => Newest(Active) \in Active
  BY NewestIsOne DEF Active
<1>6. \A r \in Active : Undone(r)
  BY DEF Active, Undone
<1> USE DEF Shaped, Locals
<1>7. CASE t \in Handlers
  <2>1. CASE EnqueueUpload(t)
    BY <1>1, <1>2, <2>1 DEF EnqueueUpload, Goto, OnRun, RunPlaces
  <2>2. CASE ~EnqueueUpload(t)
    <3>1. PICK q, m : Leads(t, q, m)
      BY <1>7, <2>2, HandleLeads, ThreadKinds DEF Steps
    <3>2. q \notin OnRun \cup {"qa_save", "processed"}
      BY <1>7, <3>1 DEF Leads, Placed, HandlerPlaces, Calls, OnRun, RunPlaces, OnceInv
    <3> QED
      BY <1>2, <3>1, <3>2 DEF Leads
  <2> QED
    BY <2>1, <2>2
<1>8. CASE ResetStaging(t) \/ IngestRead(t) \/ IngestLayout(t)
  BY <1>1, <1>2, <1>8 DEF ResetStaging, IngestRead, IngestLayout, Goto, RaiseError, OnRun, RunPlaces
<1>9. CASE Stage(t)
  <2>1. Go(t, "find_run", loc[t]) \/ Go(t, "at_failed", loc[t])
    BY <1>9 DEF Stage, Goto
  <2> QED
    BY <1>1, <1>2, <2>1 DEF OnRun, RunPlaces
<1>10. CASE Checkpoint(t)
  <2>1. \/ Go(t, "fc_read", loc[t])
        \/ Go(t, AfterCheckpoint[pc[t]], loc[t])
    BY <1>10 DEF Checkpoint, RaiseCancelled, Goto
  <2>2. UNCHANGED run /\ pc[t] \in DOMAIN AfterCheckpoint
    BY <1>10 DEF Checkpoint, store
  <2>3. \/ AfterCheckpoint[pc[t]] \in {"ingest", "stage", "qa_read", "fin"}
        \/ AfterCheckpoint[pc[t]] \in {"transform", "chunk"} /\ pc[t] \in OnRun
    BY <2>2 DEF AfterCheckpoint, OnRun, RunPlaces
  <2>4. CASE \E q \in {"fc_read", "ingest", "stage", "qa_read", "fin"} : Go(t, q, loc[t])
    BY <1>1, <1>2, <2>4 DEF OnRun, RunPlaces
  <2>5. CASE pc[t] \in OnRun /\ \E q \in {"transform", "chunk"} : Go(t, q, loc[t])
    BY <1>1, <1>3, <2>2, <2>5 DEF OnRun, RunPlaces, Once
  <2> QED
    BY <2>1, <2>3, <2>4, <2>5
<1>11. CASE FindRun(t)
  <2>1. PICK last, m : last = Newest(Active) /\ m = [loc[t] EXCEPT !.run = last]
    OBVIOUS
  <2>2. Shaped(m) /\ m.run = last
    BY <1>1, <2>1
  <2>3. \/ Go(t, "add_run", loc[t])
        \/ Go(t, "at_transform", m) /\ Undone(last) /\ UNCHANGED run
    BY <1>5, <1>6, <1>11, <2>1 DEF FindRun, store, Goto
  <2> QED
    BY <1>1, <1>2, <1>3, <2>2, <2>3 DEF OnRun, RunPlaces
<1>12. CASE AddJobRun(t) \/ AddRecoveryRun(t)
  <2>1. PICK n, m, rec : n = NextRun /\ m = [loc[t] EXCEPT !.run = n] /\ rec = [Absent EXCEPT !.status = "pending"]
    OBVIOUS
  <2>2. Shaped(m) /\ m.run = n /\ rec.status = "pending"
    BY <1>1, <2>1 DEF Absent
  <2>3. PICK q : \/ q \in {"idle", "fr_read", "fb_read", "enqueue"} /\ \E l : Go(t, q, l) /\ Shaped(l)
                 \/ /\ q \in {"at_transform", "enqueue_staged"} /\ Go(t, q, m)
                    /\ n \in Runs /\ run' = [run EXCEPT ![n] = rec]
    <3>1. CASE AddJobRun(t)
      BY <1>1, <2>1, <2>2, <3>1 DEF AddJobRun, AddRun, Goto, RaiseError
    <3>2. CASE AddRecoveryRun(t)
      <4>1. \/ Go(t, "idle", loc[t])
            \/ /\ n \in Runs /\ run' = [run EXCEPT ![n] = rec]
               /\ Go(t, "enqueue_staged", m) \/ Go(t, "enqueue", m)
        BY <2>1, <3>2 DEF AddRecoveryRun, AddRun, Goto
      <4> QED
        BY <1>1, <2>2, <4>1
    <3> QED
      BY <1>12, <3>1, <3>2
  <2>4. CASE q \in {"idle", "fr_read", "fb_read", "enqueue"} /\ \E l : Go(t, q, l) /\ Shaped(l)
    BY <1>2, <2>4 DEF OnRun, RunPlaces
  <2>5. CASE /\ q \in {"at_transform", "enqueue_staged"} /\ Go(t, q, m)
             /\ n \in Runs /\ run' = [run EXCEPT ![n] = rec]
    <3>1. run'[m.run].status = "pending"
      BY <1>1, <2>2, <2>5
    <3>2. Once(q, m)'
      BY <2>5, <3>1 DEF Once, Undone
    <3> QED
      BY <2>2, <2>5, <3>2
  <2> QED
    BY <2>3, <2>4, <2>5
<1>13. CASE TransformRead(t)
  <2>1. PICK rec, m : rec = run[loc[t].run] /\ m = [loc[t] EXCEPT !.b = batch, !.r = rec]
    OBVIOUS
  <2>2. Shaped(m) /\ m.run = loc[t].run
    BY <1>1, <2>1
  <2>3. UNCHANGED run /\ pc[t] \in OnRun /\ (Go(t, "running", m) \/ RaiseError(t))
    BY <1>13, <2>1 DEF TransformRead, store, OnRun, RunPlaces
  <2>4. CASE RaiseError(t)
    BY <1>1, <1>2, <2>4 DEF RaiseError, OnRun, RunPlaces
  <2>5. CASE Go(t, "running", m)
    BY <1>1, <1>3, <2>2, <2>3, <2>5 DEF OnRun, RunPlaces, Once
  <2> QED
    BY <2>3, <2>4, <2>5
<1>14. CASE TransformRunning(t) \/ TransformChunk(t)
  <2>1. PICK m, r : m = loc[t] /\ r = m.run
    OBVIOUS
  <2>2. Go(t, "at_chunk", m) /\ pc[t] \in {"running", "chunk"} /\ Shaped(m)
    BY <1>1, <1>14, <2>1 DEF TransformRunning, TransformChunk, Goto
  <2>3. Undone(r)
    BY <1>1, <2>1, <2>2 DEF Once, OnRun, RunPlaces
  <2>4. UNCHANGED run \/ (pc[t] = "running" /\ r \in Runs)
    BY <1>1, <1>14, <2>1 DEF TransformRunning, TransformChunk, SavesRun, Named
  <2>5. pc[t] = "running" /\ r \in Runs => run'[r] = run[r] \/ run'[r].status = "running"
    BY <2>1, RunEffects DEF RunEffect
  <2>6. Undone(r)'
    BY <2>3, <2>4, <2>5 DEF Undone
  <2>7. Once("at_chunk", m)'
    BY <2>1, <2>6 DEF Once
  <2> QED
    BY <2>2, <2>7
<1>15. CASE TransformEnd(t)
  <2>1. CASE Goto(t, "at_qa") \/ RaiseError(t)
    BY <1>1, <1>2, <2>1 DEF Goto, RaiseError, OnRun, RunPlaces
  <2>2. CASE /\ SaveRun(loc[t].run, [loc[t].r EXCEPT !.status = "succeeded", !.reason = "none"])
             /\ Goto(t, "processed")
    <3>1. PICK r, rec : r = loc[t].run /\ rec = [loc[t].r EXCEPT !.status = "succeeded", !.reason = "none"]
      OBVIOUS
    <3>2. r \in Runs /\ rec.status = "succeeded" /\ SaveRun(r, rec)
      BY <1>1, <1>15, <2>2, <3>1 DEF TransformEnd, Record, SavesRun, Named
    <3>3. HasSucceeded'
      <4>1. CASE run[r].status = "deleted"
        <5>1. batch.status = "deleted" /\ UNCHANGED batch
          BY <1>15, <3>2, <4>1 DEF TransformEnd, UploadInv, StoreInv
        <5> QED
          BY <5>1 DEF HasSucceeded, CancelAsked
      <4>2. CASE run[r].status # "deleted"
        <5>1. run'[r].status = "succeeded"
          BY <1>1, <3>2, <4>2 DEF SaveRun
        <5> QED
          BY <3>2, <5>1 DEF HasSucceeded
      <4> QED
        BY <4>1, <4>2
    <3>4. PICK m : m = loc[t]
      OBVIOUS
    <3>5. Once("processed", m)'
      BY <3>3 DEF Once, OnRun, RunPlaces
    <3> QED
      BY <1>1, <2>2, <3>4, <3>5 DEF Goto
  <2> QED
    BY <1>15, <2>1, <2>2 DEF TransformEnd
<1>16. CASE TransformProcessed(t)
  BY <1>1, <1>2, <1>16 DEF TransformProcessed, Goto, OnRun, RunPlaces
<1>17. CASE ReadForVerdict(t)
  <2>1. PICK rec, m : rec = run[loc[t].run] /\ m = [loc[t] EXCEPT !.r = rec]
    OBVIOUS
  <2>2. Shaped(m) /\ m.run = loc[t].run /\ m.r = rec
    BY <1>1, <2>1
  <2>3. Go(t, "qa_save", m) /\ UNCHANGED run
    BY <1>17, <2>1 DEF ReadForVerdict, store
  <2>4. Once("qa_save", m)'
    BY <2>1, <2>2, <2>3 DEF Once, Undone, OnRun, RunPlaces
  <2> QED
    BY <2>2, <2>3, <2>4
<1>18. CASE SaveVerdict(t)
  <2>1. Goto(t, "idle") \/ Goto(t, "at_verdict") \/ RaiseError(t)
    BY <1>18 DEF SaveVerdict
  <2> QED
    BY <1>1, <1>2, <2>1 DEF Goto, RaiseError, OnRun, RunPlaces
<1>19. CASE FailRead(t) \/ FailSave(t) \/ FinishBatch(t) \/ Forget(t) \/ FailRunSave(t) \/ FinishRunSave(t)
  <2>1. PICK q, m : /\ q \in {"fc_read", "fb_save", "fb_stage", "fb_read", "fin2", "fin_batch", loc[t].ret}
                    /\ Go(t, q, m) /\ (m = loc[t] \/ m = [loc[t] EXCEPT !.b = batch])
    BY <1>19 DEF FailRead, FailSave, FinishBatch, Forget, FailRunSave, FinishRunSave, Goto, Return
  <2> QED
    BY <1>1, <1>2, <1>4, <2>1 DEF OnRun, RunPlaces
<1>20. CASE FailStage(t)
  <2>1. PICK first, rec : first = Oldest(Created) /\ rec = [run[first] EXCEPT !.status = "failed"]
    OBVIOUS
  <2>2. PICK m : m = [loc[t] EXCEPT !.run = first, !.r = rec]
    OBVIOUS
  <2>3. Shaped(m) /\ m.run = first
    BY <1>1, <2>2
  <2>4. Go(t, loc[t].ret, loc[t]) \/ (Go(t, "fail_run", m) /\ first \in Active /\ UNCHANGED run)
    BY <1>20, <2>1, <2>2 DEF FailStage, Return, Goto, store
  <2> QED
    BY <1>1, <1>2, <1>3, <1>4, <1>6, <2>3, <2>4 DEF OnRun
<1>21. CASE FailReprocess(t)
  <2>1. PICK r, rec : r = loc[t].run /\ rec = [run[r] EXCEPT !.status = "failed", !.reason = loc[t].why]
    OBVIOUS
  <2>2. PICK m : m = [loc[t] EXCEPT !.r = rec]
    OBVIOUS
  <2>3. Shaped(m) /\ m.run = r
    BY <1>1, <2>1, <2>2
  <2>4. \/ Go(t, loc[t].ret, loc[t])
        \/ Go(t, "fail_run", m) /\ UNCHANGED run /\ (r \in Active \/ run[r].status = "failed")
    BY <1>21, <2>1, <2>2 DEF FailReprocess, Return, Goto, store
  <2>5. r \in Active \/ run[r].status = "failed" => Undone(r)
    BY DEF Active, Undone
  <2> QED
    BY <1>1, <1>2, <1>3, <1>4, <2>3, <2>4, <2>5 DEF OnRun
<1>22. CASE Finish(t)
  <2>1. PICK q, after, m : /\ Go(t, q, m) /\ m = [loc[t] EXCEPT !.ret = after, !.why = "auto"]
                           /\ q = CASE MustCancel(t) -> "fc_read"
                                    [] MustFail(t) -> IF loc[t].kind = "staged" THEN "fr_read" ELSE "fin_run"
                                    [] OTHER -> after
                           /\ after = IF pc[t] = "fin" THEN "forget" ELSE "idle"
    BY <1>22 DEF Finish
  <2>2. q \in {"fc_read", "fr_read", "fin_run", "forget", "idle"}
    BY <2>1
  <2>3. Shaped(m)
    BY <1>1, <2>1
  <2> QED
    BY <1>2, <2>1, <2>2, <2>3 DEF OnRun, RunPlaces
<1>23. CASE FinishRun(t)
  <2>1. PICK last, why, rec : /\ last = Newest(Active)
                              /\ why = IF run[last].reason = "none" THEN "auto" ELSE run[last].reason
                              /\ rec = [run[last] EXCEPT !.status = "failed", !.reason = why]
    OBVIOUS
  <2>2. PICK m : m = [loc[t] EXCEPT !.run = last, !.r = rec]
    OBVIOUS
  <2>3. Shaped(m) /\ m.run = last
    BY <1>1, <2>2
  <2>4. Go(t, "fin_batch", loc[t]) \/ (Go(t, "fin_save", m) /\ Undone(last) /\ UNCHANGED run)
    BY <1>5, <1>6, <1>23, <2>1, <2>2 DEF FinishRun, Goto, store
  <2> QED
    BY <1>1, <1>2, <1>3, <2>3, <2>4 DEF OnRun, RunPlaces
<1>24. CASE Finalize(t)
  <2>1. PICK m : m = [loc[t] EXCEPT !.todo = Created]
    OBVIOUS
  <2>2. Shaped(m)
    BY <1>1, <2>1
  <2>3. PICK q : /\ q \in {"fc_revert", "fc_runs", "fc_batch", loc[t].ret}
                 /\ Go(t, q, loc[t]) \/ Go(t, q, m)
    <3>1. CASE FinalizeRuns(t)
      BY <3>1 DEF FinalizeRuns, Goto
    <3>2. CASE FinalizeRevert(t) \/ FinalizeBatch(t)
      BY <3>2 DEF FinalizeRevert, FinalizeBatch, Goto, Return
    <3>3. CASE FinalizeRead(t)
      BY <2>1, <3>3 DEF FinalizeRead, Goto, Return
    <3> QED
      BY <1>24, <3>1, <3>2, <3>3 DEF Finalize
  <2> QED
    BY <1>1, <1>2, <1>4, <2>2, <2>3 DEF OnRun, RunPlaces
<1>25. CASE FindActive(t)
  <2>1. PICK q, last, rec, m : q = AfterCheck(t) /\ last = Newest(Active) /\ rec = run[last]
                               /\ m = [loc[t] EXCEPT !.run = last, !.r = rec, !.ret = q]
    OBVIOUS
  <2>2. Shaped(m) /\ m.run = last
    BY <1>1, <2>1
  <2>3. q \in {"staged_add", "staged_check", "archive_add", "enqueue"}
    BY <2>1 DEF AfterCheck
  <2>4. \/ Go(t, "idle", loc[t]) \/ Go(t, q, loc[t])
        \/ Go(t, "check_running", m) /\ Undone(last) /\ UNCHANGED run
    BY <1>5, <1>6, <1>25, <2>1 DEF FindActive, Goto, store
  <2> QED
    BY <1>1, <1>2, <1>3, <2>2, <2>3, <2>4 DEF OnRun, RunPlaces
<1>26. CASE CheckRunning(t)
  <2>1. pc[t] = "check_running" /\ UNCHANGED run /\ (Go(t, "idle", loc[t]) \/ Go(t, "zombie", loc[t]))
    BY <1>26 DEF CheckRunning, Goto, store
  <2> QED
    BY <1>1, <1>2, <1>3, <2>1 DEF OnRun, RunPlaces, Once
<1>27. CASE FailZombie(t)
  <2>1. PICK m : m = [loc[t] EXCEPT !.run = NoRun, !.ret = "idle"]
    OBVIOUS
  <2>2. Shaped(m) /\ Go(t, loc[t].ret, m)
    BY <1>1, <1>27, <2>1 DEF FailZombie
  <2> QED
    BY <1>1, <1>2, <1>4, <2>2
<1>28. CASE EnqueueStaged(t) \/ EnqueueUpload(t)
  BY <1>1, <1>2, <1>28 DEF EnqueueStaged, EnqueueUpload, Goto, OnRun, RunPlaces
<1> QED
  BY <1>7, <1>8, <1>9, <1>10, <1>11, <1>12, <1>13, <1>14, <1>15, <1>16, <1>17, <1>18, <1>19, <1>20,
     <1>21, <1>22, <1>23, <1>24, <1>25, <1>26, <1>27, <1>28 DEF Steps, Work, Recover, Verdict

(* What holds of a place and of the records kept there carries over.        *)
LEMMA OnceLasts ==
    ASSUME NEW p, NEW l, Once(p, l),
           p \in OnRun \cup {"qa_save"} => (Undone(l.run) => Undone(l.run)'), HasSucceeded => HasSucceeded'
    PROVE  Once(p, l)'
BY DEF Once, OnRun, RunPlaces

(* Every step keeps that a run that succeeded is not executed again.        *)
LEMMA OnceStep ==
    ASSUME UploadInv, PlacesInv, JobInv, CancelInv, OnceInv, InOrder, [Next]_vars
    PROVE  OnceInv'
<1>1. /\ Blank.b.status = "none" /\ NoRun \notin Runs
      /\ \A p, l : p \notin OnRun \cup {"qa_save", "processed"} => Once(p, l) /\ Once(p, l)'
  BY DEF Blank, NoRun, Runs, Once
<1>2. {"idle", "check", "enqueue", "fin", "at_ingest", "reset"} \cap (OnRun \cup {"qa_save", "processed"}) = {}
      /\ RequestKinds \cap (OnRun \cup {"qa_save", "processed"}) = {}
  BY DEF OnRun, RunPlaces, RequestKinds
<1>3. CASE Restart
  <2>1. PICK m : m = [Blank EXCEPT !.kind = "boot", !.b = batch]
    OBVIOUS
  <2>2. m.b = batch
    BY <2>1 DEF Blank
  <2>3. /\ \A t \in Threads : pc'[t] \in {"idle", "check"} /\ loc'[t] \in {m, Blank}
        /\ UNCHANGED <<batch, arriving>> /\ queue' = <<>>
    BY <1>3, <2>1 DEF Restart
  <2>4. HasSucceeded => HasSucceeded'
    <3>1. \A r \in Runs : run[r].status = "succeeded" => run'[r] = run[r]
      BY <1>3 DEF Restart, Active
    <3> QED
      BY <2>3, <3>1 DEF HasSucceeded, CancelAsked
  <2>5. \A t \in Threads : Once(pc[t], loc[t])' /\ (loc'[t].b.status = "processed" => HasSucceeded')
    BY <1>1, <1>2, <2>2, <2>3, <2>4 DEF OnceInv
  <2> QED
    BY <2>3, <2>4, <2>5 DEF OnceInv
<1>4. ASSUME NEW t \in Threads, NEW q, NEW m, Go(t, q, m), Shaped(m), m.b = Blank.b,
             q \notin OnRun \cup {"qa_save", "processed"} \/ (q = "at_staged" /\ Undone(m.run)),
             UNCHANGED <<run, arriving>>, queue' = queue \/ queue' = <<>>,
             batch'.cancel = batch.cancel,
             batch'.status = batch.status \/ (batch'.status = "received" /\ batch.status = "none")
      PROVE  OnceInv'
  <2>1. /\ pc'[t] = q /\ \A u \in Threads : u # t => pc'[u] = pc[u] /\ loc'[u] = loc[u]
        /\ loc'[t].b = Blank.b /\ (q # "idle" => loc'[t].run = m.run)
    BY <1>4, AfterGo
  <2>2. HasSucceeded => HasSucceeded'
    BY <1>4 DEF HasSucceeded, CancelAsked
  <2>3. \A r : Undone(r) => Undone(r)'
    BY <1>4 DEF Undone
  <2>4. Once(pc[t], loc[t])'
    BY <1>1, <1>4, <2>1, <2>3 DEF Once
  <2>5. ASSUME NEW u \in Threads, u # t PROVE Once(pc[u], loc[u])'
    <3>1. PICK p, l : p = pc[u] /\ l = loc[u] /\ p = pc'[u] /\ l = loc'[u]
      BY <2>1, <2>5
    <3>2. Once(p, l)'
      BY <2>2, <2>3, <3>1, OnceLasts DEF OnceInv
    <3> QED
      BY <3>1, <3>2
  <2>6. queue' # <<>> => Undone(queue[1].run)'
    BY <1>4 DEF OnceInv, Undone
  <2>7. batch'.status = "processed" => HasSucceeded'
    BY <1>4, <2>2 DEF OnceInv
  <2>8. \A u \in Threads : loc'[u].b.status = "processed" => HasSucceeded'
    BY <1>1, <2>1, <2>2 DEF OnceInv
  <2> QED
    BY <1>4, <2>4, <2>5, <2>6, <2>7, <2>8 DEF OnceInv
<1>5. ASSUME NEW h \in Handlers, AcceptUpload(h) PROVE OnceInv'
  <2>1. PICK m : m = [Blank EXCEPT !.kind = "upload"]
    OBVIOUS
  <2>2. Shaped(m) /\ m.b = Blank.b
    BY <2>1 DEF Shaped, Blank
  <2>3. /\ Go(h, "enqueue", m) /\ batch'.cancel = batch.cancel /\ batch.status = "none" /\ batch'.status = "received"
        /\ UNCHANGED <<run, arriving, queue>>
    BY <1>5, <2>1 DEF AcceptUpload, Batches, UploadInv, StoreInv, memory, outside
  <2> QED
    BY <1>2, <1>4, <2>2, <2>3, ThreadKinds
<1>6. ASSUME NEW h \in Handlers, NEW kind \in arriving, Request(h, kind) PROVE OnceInv'
  <2>1. PICK m : m = [Blank EXCEPT !.kind = kind]
    OBVIOUS
  <2>2. Shaped(m) /\ m.b = Blank.b
    BY <2>1 DEF Shaped, Blank
  <2>3. Go(h, kind, m) /\ UNCHANGED <<batch, run, arriving, queue>> /\ kind \in RequestKinds
    BY <1>6, <2>1 DEF Request, store, memory, outside, UploadInv, MemoryInv
  <2> QED
    BY <1>2, <1>4, <2>2, <2>3, ThreadKinds
<1>7. ASSUME NEW w \in Workers, TakeJob(w) PROVE OnceInv'
  <2>1. PICK m, q : /\ Shaped(m) /\ m.b = Blank.b /\ m.run = queue[1].run /\ Go(w, q, m)
                    /\ q \in {"fin", "at_ingest", "reset", "at_staged"}
    BY <1>7, JobTaken
  <2>2. UNCHANGED <<batch, run, arriving>> /\ queue' = <<>> /\ queue # <<>>
    BY <1>7, JobTaken DEF TakeJob, store, outside
  <2> QED
    BY <1>2, <1>4, <2>1, <2>2, ThreadKinds DEF OnceInv
<1>8. ASSUME NEW t \in Threads, Steps(t) PROVE OnceInv'
  <2>1. HasSucceeded => HasSucceeded'
    BY <1>8, OnceEffects, CancelStep, ThreadKinds DEF HasSucceeded, Steps, Next
  <2>2. PICK q, m : Go(t, q, m) /\ Shaped(m) /\ Once(q, m)'
    BY <1>8, StepsOnce
  <2>3. PICK p, n : Reads(t, p, n)
    BY <1>8, StepReads
  <2>4. /\ pc'[t] = q /\ \A u \in Threads : u # t => pc'[u] = pc[u] /\ loc'[u] = loc[u]
        /\ q # "idle" => loc'[t].run = m.run
        /\ q \notin Fresh /\ q # "idle" => loc'[t] = m
    BY <2>2, AfterGo
  <2>5. loc'[t].b \in {loc[t].b, batch, Blank.b}
    BY <2>3, AfterGo DEF Reads
  <2>6. Once(pc[t], loc[t])'
    BY <1>2, <2>2, <2>4 DEF Once, Fresh
  <2>7. ~Carries(t, pc[t]) => \A r : Undone(r) => Undone(r)'
    <3>1. \A r \in Runs : ~Carries(t, pc[t]) /\ Undone(r) => Undone(r)'
      BY <1>8, OnceEffects
    <3> QED
      BY <3>1 DEF Undone
  <2>8. ASSUME NEW u \in Threads, u # t PROVE Once(pc[u], loc[u])'
    <3>1. PICK x, l : x = pc[u] /\ l = loc[u] /\ x = pc'[u] /\ l = loc'[u]
      BY <2>4, <2>8
    <3>2. x \in OnRun \cup {"qa_save"} => Carries(u, pc[u])
      BY <3>1 DEF PlacesInv, Placed, HandlerPlaces, Calls, OnRun, RunPlaces, Carries, OnceInv
    <3>3. x \in OnRun \cup {"qa_save"} => ~Carries(t, pc[t])
      BY <2>8, <3>2 DEF JobInv
    <3>4. Once(x, l)'
      BY <2>1, <2>7, <3>1, <3>3, OnceLasts DEF OnceInv
    <3> QED
      BY <3>1, <3>4
  <2>9. UNCHANGED arriving /\ (queue' # <<>> => Undone(queue[1].run)')
    <3>1. CASE EnqueueUpload(t) \/ EnqueueStaged(t)
      <4>6. t \in Handlers \cup {Boot}
        <5>1. pc[t] \in {"enqueue", "enqueue_staged"}
          BY <3>1 DEF EnqueueUpload, EnqueueStaged
        <5>2. t \notin Workers
          BY <5>1 DEF PlacesInv, Placed, WorkPlaces, IngestPlaces, RunPlaces, FailPlaces, CancelPlaces
        <5> QED
          BY <5>2 DEF Threads
      <4>1. queue = <<>> /\ Len(queue) = 0
        BY <3>1, <4>6, JobQueued
      <4>2. PICK job : /\ queue' = Append(queue, job)
                       /\ \/ job.run = NoRun
                          \/ job.run = loc[t].run /\ pc[t] = "enqueue_staged"
        BY <3>1 DEF EnqueueUpload, EnqueueStaged, Enqueue
      <4>3. queue'[1] = job
        BY <4>1, <4>2
      <4>4. UNCHANGED <<run, arriving>>
        BY <3>1 DEF EnqueueUpload, EnqueueStaged, store, outside
      <4>5. Undone(job.run)
        BY <1>1, <4>2 DEF OnceInv, Once, OnRun, Undone
      <4> QED
        BY <4>3, <4>4, <4>5 DEF Undone
    <3>2. CASE ~EnqueueUpload(t) /\ ~EnqueueStaged(t)
      <4>1. UNCHANGED <<queue, arriving>>
        BY <1>8, <3>2, StepsQueueNothing DEF Steps
      <4>2. queue # <<>> => ~Carries(t, pc[t])
        BY DEF JobInv, AtWork
      <4> QED
        BY <2>7, <4>1, <4>2 DEF OnceInv, Undone
    <3> QED
      BY <3>1, <3>2
  <2>10. batch'.status = "processed" => HasSucceeded'
    <3>1. \/ pc[t] = "processed" \/ batch'.status # "processed" \/ batch.status = "processed"
          \/ (pc[t] = "layout" /\ loc[t].b.status = "processed")
      BY <1>8, BatchEffects DEF BatchEffect
    <3> QED
      BY <2>1, <3>1 DEF OnceInv, Once
  <2>11. \A u \in Threads : loc'[u].b.status = "processed" => HasSucceeded'
    BY <1>1, <2>1, <2>4, <2>5 DEF OnceInv
  <2> QED
    BY <2>6, <2>8, <2>9, <2>10, <2>11 DEF OnceInv
<1>9. CASE UNCHANGED vars
  BY <1>9 DEF vars, OnceInv, Once, Undone, HasSucceeded, CancelAsked
<1> QED
  BY <1>3, <1>5, <1>6, <1>7, <1>8, <1>9, ThreadKinds DEF Next, Steps

(* Without evaluations, a job executes one run and never one that succeeded.*)
JobsInv == UploadInv /\ PlacesInv /\ JobInv /\ CancelInv /\ InOrder

(* At the start nothing is carried, queued, named or cancelled.             *)
LEMMA JobsStart ==
    ASSUME Init, Mixes \subseteq SUBSET Calls
    PROVE  JobsInv
<1>1. UploadInv
  BY UploadStart
<1>2. /\ queue = <<>> /\ batch.status = "none" /\ batch.status # "deleted" /\ arriving \subseteq Calls
      /\ \A t \in Threads : pc[t] = "idle" /\ loc[t] = Blank
      /\ \A r \in Runs : run[r].status = "absent"
  BY DEF Init, Absent
<1>3. Blank.b.status = "none" /\ Blank.ret = "idle" /\ Blank.kind = "none"
  BY DEF Blank
<1>4. PlacesInv
  BY <1>2, <1>3, ThreadKinds DEF PlacesInv, Placed, HandlerPlaces, BootPlaces, WorkPlaces, Executing,
     IngestPlaces, RunPlaces, FailPlaces
<1>5. JobInv
  BY <1>2, ThreadKinds DEF JobInv, Carries, SavesBatch
<1>6. CancelInv /\ InOrder
  BY <1>2, <1>3 DEF CancelInv, CancelPlaces, InOrder, Named
<1> QED
  BY <1>1, <1>4, <1>5, <1>6 DEF JobsInv

(* Every step keeps the invariant of the jobs.                              *)
LEMMA JobsStep ==
    ASSUME JobsInv, [Next]_vars
    PROVE  JobsInv'
BY UploadStep, JobStep, CancelStep, NamesStep DEF JobsInv

(* One job at a time works on an upload that is neither polled nor          *)
(* reprocessed, whatever is cancelled, deleted or restarted meanwhile.      *)
THEOREM OneJobAtATime ==
    ASSUME Mixes \subseteq SUBSET Calls
    PROVE  Spec => []JobsInv
<1>1. Init => JobsInv
  BY JobsStart
<1>2. JobsInv /\ [Next]_vars => JobsInv'
  BY JobsStep
<1> QED
  BY <1>1, <1>2, PTL DEF Spec

(* At the start no run is executed and nothing is evaluated.                *)
LEMMA OnceStart ==
    ASSUME Init, Mixes \subseteq SUBSET {"cancel", "delete", "publish"}
    PROVE  OnceInv
BY DEF Init, OnceInv, Once, OnRun, RunPlaces, Blank

(* Every step keeps the invariant of the executed runs.                     *)
LEMMA EachStepOnce ==
    ASSUME JobsInv, OnceInv, [Next]_vars
    PROVE  OnceInv'
BY OnceStep DEF JobsInv

(* A run that succeeded is not executed again.                              *)
LEMMA NothingIsUndone ==
    ASSUME JobsInv, OnceInv, [Next]_vars, NEW r \in Runs, run[r].status = "succeeded"
    PROVE  run'[r].status \in {"succeeded", "cancelled", "deleted"}
<1>1. CASE Restart
  BY <1>1 DEF Restart, Active
<1>2. ASSUME NEW t \in Threads, Steps(t) PROVE run'[r].status \in {"succeeded", "cancelled", "deleted"}
  BY <1>2, OnceEffects DEF JobsInv
<1>3. CASE UNCHANGED run
  BY <1>3
<1> QED
  BY <1>1, <1>2, <1>3, ThreadKinds DEF Next, Steps, TakeJob, AcceptUpload, Request, vars, store

(* A run that succeeded is only ever cancelled or deleted, when the upload  *)
(* is cancelled, deleted and published but not polled, reprocessed or       *)
(* evaluated: no restart and no resumed job executes it again.              *)
THEOREM SuccessStays ==
    ASSUME Mixes \subseteq SUBSET {"cancel", "delete", "publish"}
    PROVE  Spec => SucceededStays
<1>1. {"cancel", "delete", "publish"} \subseteq Calls
  BY DEF Calls
<1>2. Init => JobsInv /\ OnceInv
  BY <1>1, JobsStart, OnceStart
<1>3. JobsInv /\ OnceInv /\ [Next]_vars => JobsInv' /\ OnceInv'
  BY JobsStep, EachStepOnce
<1>4. JobsInv /\ OnceInv /\ [Next]_vars =>
        [\A r \in Runs : run[r].status = "succeeded" =>
            run'[r].status \in {"succeeded", "cancelled", "deleted"}]_vars
  BY NothingIsUndone
<1> QED
  BY <1>2, <1>3, <1>4, PTL DEF Spec, SucceededStays

(* A processed upload has a succeeded run to publish, under the same        *)
(* requests, also when the process restarts between the two last writes of  *)
(* a transformation.                                                        *)
THEOREM ProcessedMeansSucceeded ==
    ASSUME Mixes \subseteq SUBSET {"cancel", "delete", "publish"}
    PROVE  Spec => []ProcessedHasSucceededRun
<1>1. {"cancel", "delete", "publish"} \subseteq Calls
  BY DEF Calls
<1>2. Init => JobsInv /\ OnceInv
  BY <1>1, JobsStart, OnceStart
<1>3. JobsInv /\ OnceInv /\ [Next]_vars => JobsInv' /\ OnceInv'
  BY JobsStep, EachStepOnce
<1>4. OnceInv => ProcessedHasSucceededRun
  BY DEF OnceInv, HasSucceeded, CancelAsked, ProcessedHasSucceededRun, Created
<1> QED
  BY <1>2, <1>3, <1>4, PTL DEF Spec

-----------------------------------------------------------------------------
(* The active run is the one of the job, and the job does not end before it.*)
Live    == ~CancelAsked /\ "evaluate" \notin arriving
Settled == Active = {} /\ batch.status # "received"

Settles(t, p, l) ==
    /\ Active \subseteq {l.run}
    /\ p \in {"check", "staged_check", "staged_add", "enqueue", "add_run", "fin_batch"} => Active = {}
    /\ p \notin {"check_running", "zombie"}
    /\ l.kind = "staged" => batch.status # "received"
    /\ t = Boot => /\ p \in {"staged_check", "staged_add", "enqueue_staged"} => batch.status # "received"
                   /\ l.b.status \in {"none", batch.status}
    /\ l.ret = "idle" => /\ p \in {"fb_read", "fb_save", "fb_stage"} => Active = {}
                         /\ p = "fb_stage" => batch.status # "received"
                         /\ p = "fail_run" => l.kind = "staged"

SettleInv == Live =>
    /\ queue # <<>> => /\ Active \subseteq {queue[1].run}
                       /\ queue[1].kind = "staged" => batch.status # "received"
    /\ queue = <<>> /\ ~AtWork => Active = {} /\ (NextRun \in Runs => batch.status # "received")
    /\ \A t \in Threads : Carries(t, pc[t]) => Settles(t, pc[t], loc[t])

(* While nothing is cancelled or evaluated only the job writes the rows.    *)
LEMMA OnlyTheJobWrites ==
    ASSUME JobsInv, NEW t \in Threads, Steps(t), Live, Live'
    PROVE  /\ ~Carries(t, pc[t]) => Active' = Active /\ batch'.status = batch.status
           /\ pc[t] \in {"add_run", "staged_add", "archive_add"} => Active' \subseteq Active \cup {NextRun}
           /\ pc[t] \notin {"add_run", "staged_add", "archive_add"} => Active' \subseteq Active \cup {loc[t].run}
           /\ t \in Workers /\ loc[t].kind = "staged" /\ batch'.status = "received" => batch.status = "received"
           /\ pc[t] \notin CancelPlaces /\ (pc[t] # "idle" => ~Gone /\ ~Cancelled)
<1>1. /\ pc[t] \notin CancelPlaces /\ batch.status \notin {"deleted", "cancelled"} /\ ~batch.cancel
      /\ batch'.status # "deleted" /\ ~batch'.cancel
  BY DEF Live, CancelAsked, JobsInv, CancelInv
<1>2. \A r \in Runs : RunEffect(t, r)
  BY RunEffects DEF JobsInv
<1>3. BatchEffect(t)
  BY BatchEffects DEF JobsInv
<1>4. ~Carries(t, pc[t]) => t \in Handlers /\ pc[t] \in HandlerPlaces /\ pc[t] \notin {"enqueue", "qa_save"}
  <2>1. pc[t] # "idle"
    BY StepsAreAwake DEF Steps
  <2> QED
    BY <2>1, ThreadKinds DEF JobsInv, PlacesInv, Placed, Carries, Live
<1>5. ~Carries(t, pc[t]) => \A r \in Runs : run'[r] = run[r]
  BY <1>1, <1>2, <1>4 DEF RunEffect, HandlerPlaces, Calls, CancelPlaces
<1>6. ~Carries(t, pc[t]) => batch'.status = batch.status
  BY <1>1, <1>3, <1>4 DEF BatchEffect, HandlerPlaces, Calls, CancelPlaces
<1>7. \A r \in Active' : \/ r \in Active
                         \/ r = loc[t].run /\ pc[t] \notin {"add_run", "staged_add", "archive_add"}
                         \/ r = NextRun /\ pc[t] \in {"add_run", "staged_add", "archive_add"}
  BY <1>2 DEF RunEffect, Active
<1>8. t \in Workers /\ loc[t].kind = "staged" => pc[t] \notin IngestPlaces \cup FailPlaces
  BY DEF JobsInv, PlacesInv, Placed
<1>9. t \in Workers /\ loc[t].kind = "staged" /\ batch'.status = "received" => batch.status = "received"
  BY <1>1, <1>3, <1>8 DEF BatchEffect, IngestPlaces
<1>10. pc[t] # "idle" => ~Gone /\ ~Cancelled
  BY <1>1 DEF JobsInv, JobInv, Gone, Cancelled
<1>11. ~Carries(t, pc[t]) => Active' = Active
  BY <1>5 DEF Active
<1> QED
  BY <1>1, <1>6, <1>7, <1>9, <1>10, <1>11

(* Where a step of the job leaves its thread.                               *)
LeavesSettled(t, q, m) ==
    /\ Go(t, q, m) /\ Shaped(m)
    /\ IF Carries(t, q) THEN Settles(t, q, m)' ELSE Settled'

(* A step of the job leaves the active run to a later step of the job.      *)
LEMMA WorkSettles ==
    ASSUME JobsInv, NEW w \in Workers, Work(w) \/ TransformChunk(w), Live, Live', Settles(w, pc[w], loc[w])
    PROVE  \E q, m : LeavesSettled(w, q, m)
<1>1. /\ w \in Threads /\ w \notin Handlers /\ w # Boot /\ pc[w] # "idle" /\ loc[w] \in Locals
      /\ Placed(w, pc[w], loc[w]) /\ Steps(w) /\ UploadInv /\ run \in [Runs -> Record]
  BY ThreadKinds, ThreadFacts, StepsAreAwake DEF JobsInv, PlacesInv, Steps, UploadInv, StoreInv
<1>2. /\ Active \subseteq {loc[w].run} /\ (loc[w].kind = "staged" => batch'.status # "received")
      /\ pc[w] # "add_run" => Active' \subseteq {loc[w].run}
      /\ pc[w] \notin CancelPlaces /\ ~Gone /\ ~Cancelled
      /\ pc[w] \in {"add_run", "fin_batch"} => Active = {}
      /\ loc[w].ret = "idle" => /\ pc[w] \in {"fb_read", "fb_save", "fb_stage"} => Active = {}
                                /\ pc[w] = "fb_stage" => batch.status # "received"
                                /\ pc[w] = "fail_run" => loc[w].kind = "staged"
  <2>1. pc[w] \notin {"staged_add", "archive_add"}
    BY <1>1 DEF Placed, WorkPlaces, IngestPlaces, RunPlaces, FailPlaces, CancelPlaces
  <2> QED
    BY <1>1, <2>1, OnlyTheJobWrites DEF Settles
<1>3. ~batch.cancel
  BY <1>2 DEF Cancelled
<1>4. /\ loc[w].ret \in {"idle", "fin", "forget"} /\ (pc[w] \in Executing => loc[w].ret = "fin")
      /\ loc[w].kind = "staged" => pc[w] \notin IngestPlaces \cup FailPlaces
      /\ pc[w] = "fr_read" => loc[w].kind = "staged"
  BY <1>1 DEF Placed
<1>5. Active # {} => Newest(Active) \in Active
  BY NewestIsOne DEF Active
<1> DEFINE Plain == {"at_ingest", "ingest", "layout", "at_rows", "stage", "find_run", "at_transform", "transform",
                     "running", "at_chunk", "chunk", "processed", "at_qa", "qa_read", "qa_save", "at_verdict",
                     "at_failed", "fr_read", "fin_run", "fin_save", "fin", "forget", "fin2"}
<1> USE DEF Shaped
<1>6. ASSUME NEW q \in Plain, NEW m, Go(w, q, m), Shaped(m), m.kind = loc[w].kind, m.run = loc[w].run, pc[w] # "add_run"
      PROVE  \E p, n : LeavesSettled(w, p, n)
  <2>1. Settles(w, q, m)' /\ Carries(w, q)
    BY <1>1, <1>2, <1>6 DEF Settles, Carries
  <2> QED
    BY <1>6, <2>1 DEF LeavesSettled
<1>7. ASSUME RaiseError(w), pc[w] \in Executing \ {"add_run"}
      PROVE  \E p, n : LeavesSettled(w, p, n)
  <2>1. PICK m : m = [loc[w] EXCEPT !.why = "other"]
    OBVIOUS
  <2>2. Shaped(m) /\ m.kind = loc[w].kind /\ m.run = loc[w].run /\ m.ret = "fin"
    BY <1>1, <1>4, <1>7, <2>1 DEF Locals
  <2>3. PICK q \in {"fr_read", "fb_read"} : Go(w, q, m)
    BY <1>7, <2>1 DEF RaiseError
  <2>4. Settles(w, q, m)' /\ Carries(w, q)
    BY <1>1, <1>2, <1>7, <2>2, <2>3 DEF Settles, Carries
  <2> QED
    BY <2>2, <2>3, <2>4 DEF LeavesSettled
<1>8. ASSUME NEW q \in Plain, Goto(w, q), pc[w] # "add_run"
      PROVE  \E p, n : LeavesSettled(w, p, n)
  BY <1>1, <1>6, <1>8 DEF Goto, Locals
<1>9. ASSUME Return(w), loc[w].ret = "idle" => Settled', pc[w] # "add_run"
      PROVE  \E p, n : LeavesSettled(w, p, n)
  <2>1. CASE loc[w].ret = "idle"
    BY <1>1, <1>9, <2>1 DEF Return, Goto, LeavesSettled, Carries, Locals
  <2>2. CASE loc[w].ret \in {"fin", "forget"}
    BY <1>8, <1>9, <2>2 DEF Return
  <2> QED
    BY <1>4, <2>1, <2>2
<1>10. CASE ResetStaging(w)
  BY <1>2, <1>8, <1>10 DEF ResetStaging
<1>11. CASE Checkpoint(w)
  <2>1. Goto(w, AfterCheckpoint[pc[w]]) /\ pc[w] \in DOMAIN AfterCheckpoint
    BY <1>3, <1>11 DEF Checkpoint
  <2>2. AfterCheckpoint[pc[w]] \in {"ingest", "stage", "transform", "chunk", "qa_read", "fin"} /\ pc[w] # "add_run"
    BY <2>1 DEF AfterCheckpoint
  <2> QED
    BY <1>8, <2>1, <2>2
<1>12. CASE IngestRead(w)
  <2>1. PICK m : m = [loc[w] EXCEPT !.b = batch]
    OBVIOUS
  <2>2. Shaped(m) /\ m.kind = loc[w].kind /\ m.run = loc[w].run
    BY <1>1, <2>1 DEF Locals
  <2>3. pc[w] = "ingest" /\ (Go(w, "layout", m) \/ RaiseError(w))
    BY <1>12, <2>1 DEF IngestRead
  <2> QED
    BY <1>6, <1>7, <2>2, <2>3 DEF Executing, IngestPlaces
<1>13. CASE IngestLayout(w) \/ Stage(w)
  BY <1>8, <1>13 DEF IngestLayout, Stage
<1>14. CASE FindRun(w)
  <2>1. PICK last, m : last = Newest(Active) /\ m = [loc[w] EXCEPT !.run = last]
    OBVIOUS
  <2>2. Shaped(m) /\ m.kind = loc[w].kind /\ m.run = last
    BY <1>1, <2>1 DEF Locals
  <2>3. CASE Active = {} /\ Go(w, "add_run", loc[w])
    <3>1. PICK l : l = loc[w]
      OBVIOUS
    <3>2. Active' = {}
      BY <1>14, <2>3 DEF FindRun, store, Active
    <3>3. Settles(w, "add_run", l)' /\ Carries(w, "add_run")
      BY <1>1, <1>2, <3>1, <3>2 DEF Settles, Carries
    <3> QED
      BY <1>1, <2>3, <3>1, <3>3 DEF LeavesSettled, Locals
  <2>4. CASE Active # {} /\ Go(w, "at_transform", m)
    <3>1. last = loc[w].run
      BY <1>2, <1>5, <2>1, <2>4
    <3> QED
      BY <1>6, <1>14, <2>2, <2>4, <3>1 DEF FindRun
  <2> QED
    BY <1>14, <2>1, <2>3, <2>4 DEF FindRun, Goto
<1>15. CASE AddJobRun(w)
  <2>1. PICK n, m : n = NextRun /\ m = [loc[w] EXCEPT !.run = n]
    OBVIOUS
  <2>2. Shaped(m) /\ m.kind = loc[w].kind /\ m.run = n /\ m.ret = loc[w].ret
    BY <1>1, <2>1 DEF Locals
  <2>3. Go(w, "at_transform", m) /\ pc[w] = "add_run"
    BY <1>2, <1>15, <2>1 DEF AddJobRun
  <2>4. Active' \subseteq {m.run}
    BY <1>1, <1>2, <2>1, <2>2, <2>3, OnlyTheJobWrites
  <2>5. Settles(w, "at_transform", m)' /\ Carries(w, "at_transform")
    BY <1>1, <1>2, <2>2, <2>4 DEF Settles, Carries
  <2> QED
    BY <2>2, <2>3, <2>5 DEF LeavesSettled
<1>16. CASE TransformRead(w)
  <2>1. PICK rec, m : rec = run[loc[w].run] /\ m = [loc[w] EXCEPT !.b = batch, !.r = rec]
    OBVIOUS
  <2>2. Shaped(m) /\ m.run = loc[w].run /\ m.kind = loc[w].kind
    BY <1>1, <2>1 DEF Locals
  <2>3. pc[w] = "transform" /\ (Go(w, "running", m) \/ RaiseError(w))
    BY <1>16, <2>1 DEF TransformRead
  <2> QED
    BY <1>6, <1>7, <2>2, <2>3 DEF Executing, RunPlaces
<1>17. CASE TransformRunning(w) \/ TransformChunk(w) \/ TransformProcessed(w)
  BY <1>8, <1>17 DEF TransformRunning, TransformChunk, TransformProcessed
<1>18. CASE TransformEnd(w)
  BY <1>7, <1>8, <1>18 DEF TransformEnd, Executing, RunPlaces
<1>19. CASE ReadForVerdict(w)
  <2>1. PICK rec, m : rec = run[loc[w].run] /\ m = [loc[w] EXCEPT !.r = rec]
    OBVIOUS
  <2>2. Shaped(m) /\ m.run = loc[w].run /\ m.kind = loc[w].kind
    BY <1>1, <2>1 DEF Locals
  <2> QED
    BY <1>6, <1>19, <2>1, <2>2 DEF ReadForVerdict
<1>20. CASE SaveVerdict(w)
  <2>1. loc[w].kind # "evaluate"
    BY <1>1 DEF Placed
  <2> QED
    BY <1>7, <1>8, <1>20, <2>1 DEF SaveVerdict, Executing
<1>21. CASE FailRead(w)
  <2>1. PICK m : m = [loc[w] EXCEPT !.b = batch]
    OBVIOUS
  <2>2. Shaped(m) /\ m.kind = loc[w].kind /\ m.run = loc[w].run /\ m.ret = loc[w].ret
    BY <1>1, <2>1 DEF Locals
  <2>3. Go(w, "fb_save", m) /\ pc[w] = "fb_read" /\ UNCHANGED run
    BY <1>2, <1>21, <2>1 DEF FailRead, store
  <2>4. Settles(w, "fb_save", m)' /\ Carries(w, "fb_save")
    BY <1>1, <1>2, <2>2, <2>3 DEF Settles, Carries, Active
  <2> QED
    BY <2>2, <2>3, <2>4 DEF LeavesSettled
<1>22. CASE FailSave(w)
  <2>1. PICK m : m = loc[w]
    OBVIOUS
  <2>2. Go(w, "fb_stage", m) /\ pc[w] = "fb_save" /\ UNCHANGED run /\ batch'.status = "failed"
    BY <1>1, <1>2, <1>22, <2>1, BatchesWritten DEF FailSave, Goto
  <2>3. Settles(w, "fb_stage", m)' /\ Carries(w, "fb_stage")
    BY <1>1, <1>2, <2>1, <2>2 DEF Settles, Carries, Active
  <2> QED
    BY <1>1, <2>1, <2>2, <2>3 DEF LeavesSettled, Locals
<1>23. CASE FailStage(w)
  <2>1. PICK first, rec : first = Oldest(Created) /\ rec = [run[first] EXCEPT !.status = "failed"]
    OBVIOUS
  <2>2. PICK m : m = [loc[w] EXCEPT !.run = first, !.r = rec]
    OBVIOUS
  <2>3. Shaped(m) /\ m.kind = loc[w].kind /\ m.run = first /\ m.ret = loc[w].ret
    BY <1>1, <2>2 DEF Locals
  <2>4. Return(w) \/ (Go(w, "fail_run", m) /\ first \in Active)
    BY <1>23, <2>1, <2>2 DEF FailStage
  <2>5. pc[w] = "fb_stage" /\ UNCHANGED <<batch, run>>
    BY <1>23 DEF FailStage, store
  <2>6. CASE Return(w)
    <3>1. loc[w].ret = "idle" => Settled'
      BY <1>2, <2>5 DEF Settled, Active
    <3> QED
      BY <1>9, <2>5, <2>6, <3>1
  <2>7. CASE Go(w, "fail_run", m) /\ first \in Active
    <3>1. m.run = loc[w].run /\ m.ret # "idle"
      BY <1>2, <2>3, <2>5, <2>7
    <3>2. Settles(w, "fail_run", m)' /\ Carries(w, "fail_run")
      BY <1>1, <1>2, <2>3, <2>5, <3>1 DEF Settles, Carries
    <3> QED
      BY <2>3, <2>7, <3>2 DEF LeavesSettled
  <2> QED
    BY <2>4, <2>6, <2>7
<1>24. CASE FailReprocess(w)
  <2>1. PICK r, rec : r = loc[w].run /\ rec = [run[r] EXCEPT !.status = "failed", !.reason = loc[w].why]
    OBVIOUS
  <2>2. PICK m : m = [loc[w] EXCEPT !.r = rec]
    OBVIOUS
  <2>3. Shaped(m) /\ m.run = r /\ m.kind = loc[w].kind
    BY <1>1, <2>1, <2>2 DEF Locals
  <2>4. pc[w] = "fr_read" /\ UNCHANGED <<batch, run>> /\ (Go(w, "fail_run", m) \/ (Return(w) /\ r \notin Active))
    BY <1>24, <2>1, <2>2 DEF FailReprocess, store
  <2>5. CASE Return(w) /\ r \notin Active
    <3>1. Settled'
      BY <1>2, <1>4, <2>1, <2>4, <2>5 DEF Settled, Active
    <3> QED
      BY <1>9, <2>4, <2>5, <3>1
  <2>6. CASE Go(w, "fail_run", m)
    <3>2. Settles(w, "fail_run", m)' /\ Carries(w, "fail_run")
      BY <1>1, <1>2, <1>4, <2>1, <2>3, <2>4 DEF Settles, Carries
    <3> QED
      BY <2>3, <2>6, <3>2 DEF LeavesSettled
  <2> QED
    BY <2>4, <2>5, <2>6
<1>25. CASE FailRunSave(w) \/ FinishRunSave(w)
  <2>1. /\ pc[w] \in {"fail_run", "fin_save"} /\ SaveRun(loc[w].run, loc[w].r) /\ loc[w].r.status = "failed"
        /\ UNCHANGED batch
    BY <1>1, <1>25, ThreadFacts DEF FailRunSave, FinishRunSave, Held
  <2>2. Active' = {}
    <3>1. PICK r, rec : r = loc[w].run /\ rec = loc[w].r
      OBVIOUS
    <3>2. run'[r].status \in {"failed", "deleted"} \/ r \notin Runs
      BY <1>1, <2>1, <3>1 DEF SaveRun
    <3>3. Active' \subseteq {r}
      BY <1>2, <2>1, <3>1
    <3> QED
      BY <3>2, <3>3 DEF Active
  <2>3. CASE FailRunSave(w)
    <3>1. pc[w] = "fail_run" /\ Return(w)
      BY <2>3 DEF FailRunSave
    <3>2. loc[w].ret = "idle" => Settled'
      BY <1>2, <2>2, <3>1 DEF Settled
    <3> QED
      BY <1>9, <3>1, <3>2
  <2>4. CASE FinishRunSave(w)
    <3>1. PICK m : m = loc[w]
      OBVIOUS
    <3>2. Go(w, "fin_batch", m)
      BY <2>4, <3>1 DEF FinishRunSave, Goto
    <3>3. Settles(w, "fin_batch", m)' /\ Carries(w, "fin_batch")
      BY <1>1, <1>2, <2>2, <3>1 DEF Settles, Carries
    <3> QED
      BY <1>1, <3>1, <3>2, <3>3 DEF LeavesSettled, Locals
  <2> QED
    BY <1>25, <2>3, <2>4
<1>26. CASE Finish(w)
  <2>1. PICK q, after, m : /\ Go(w, q, m) /\ m = [loc[w] EXCEPT !.ret = after, !.why = "auto"]
                           /\ q = CASE MustCancel(w) -> "fc_read"
                                    [] MustFail(w) -> IF loc[w].kind = "staged" THEN "fr_read" ELSE "fin_run"
                                    [] OTHER -> after
                           /\ after = IF pc[w] = "fin" THEN "forget" ELSE "idle"
    BY <1>26 DEF Finish
  <2>2. Shaped(m) /\ m.run = loc[w].run /\ m.kind = loc[w].kind
    BY <1>1, <2>1 DEF Locals
  <2>3. ~MustCancel(w) /\ (MustFail(w) <=> (loc[w].kind = "staged" => loc[w].run \in Active))
    BY <1>2, <1>3 DEF MustCancel, MustFail
  <2>4. /\ q \in {"fr_read", "fin_run", "forget", "idle"} /\ pc[w] # "add_run" /\ UNCHANGED <<batch, run>>
        /\ q = "idle" => loc[w].kind = "staged" /\ loc[w].run \notin Active
    BY <1>26, <2>1, <2>3 DEF Finish, store
  <2>5. CASE q = "idle"
    <3>1. Settled' /\ ~Carries(w, q)
      BY <1>1, <1>2, <2>4, <2>5 DEF Settled, Active, Carries
    <3> QED
      BY <2>1, <2>2, <3>1 DEF LeavesSettled
  <2> QED
    BY <1>6, <2>1, <2>2, <2>4, <2>5
<1>27. CASE FinishRun(w)
  <2>1. PICK last, why, rec : /\ last = Newest(Active)
                              /\ why = IF run[last].reason = "none" THEN "auto" ELSE run[last].reason
                              /\ rec = [run[last] EXCEPT !.status = "failed", !.reason = why]
    OBVIOUS
  <2>2. PICK m : m = [loc[w] EXCEPT !.run = last, !.r = rec]
    OBVIOUS
  <2>3. Shaped(m) /\ m.run = last /\ m.kind = loc[w].kind
    BY <1>1, <2>2 DEF Locals
  <2>4. /\ pc[w] = "fin_run" /\ UNCHANGED run
        /\ (Active = {} /\ Go(w, "fin_batch", loc[w])) \/ (Go(w, "fin_save", m) /\ last \in Active)
    BY <1>5, <1>27, <2>1, <2>2 DEF FinishRun, Goto, store
  <2>5. CASE Active = {} /\ Go(w, "fin_batch", loc[w])
    <3>1. PICK l : l = loc[w]
      OBVIOUS
    <3>2. Settles(w, "fin_batch", l)' /\ Carries(w, "fin_batch")
      BY <1>1, <1>2, <2>4, <2>5, <3>1 DEF Settles, Carries, Active
    <3> QED
      BY <1>1, <2>5, <3>1, <3>2 DEF LeavesSettled, Locals
  <2>6. CASE Go(w, "fin_save", m) /\ last \in Active
    <3>1. m.run = loc[w].run
      BY <1>2, <2>3, <2>6
    <3> QED
      BY <1>6, <2>3, <2>4, <2>6, <3>1
  <2> QED
    BY <2>4, <2>5, <2>6
<1>28. CASE FinishBatch(w)
  <2>1. pc[w] = "fin_batch" /\ UNCHANGED <<batch, run>>
    BY <1>28 DEF FinishBatch, store
  <2>2. CASE batch.status = "received" /\ Goto(w, "fb_read")
    <3>1. PICK l : l = loc[w]
      OBVIOUS
    <3>2. Settles(w, "fb_read", l)' /\ Carries(w, "fb_read")
      BY <1>1, <1>2, <2>1, <3>1 DEF Settles, Carries, Active
    <3> QED
      BY <1>1, <2>2, <3>1, <3>2 DEF LeavesSettled, Locals, Goto
  <2>3. CASE batch.status # "received" /\ Return(w)
    <3>1. Settled'
      BY <1>2, <2>1, <2>3 DEF Settled, Active
    <3> QED
      BY <1>9, <2>1, <2>3, <3>1
  <2> QED
    BY <1>28, <2>2, <2>3 DEF FinishBatch
<1>29. CASE Forget(w)
  BY <1>8, <1>29 DEF Forget
<1>30. ~Finalize(w)
  BY <1>2 DEF Finalize, FinalizeRead, FinalizeRevert, FinalizeRuns, FinalizeBatch, CancelPlaces
<1> QED
  BY <1>10, <1>11, <1>12, <1>13, <1>14, <1>15, <1>16, <1>17, <1>18, <1>19, <1>20, <1>21, <1>22, <1>23,
     <1>24, <1>25, <1>26, <1>27, <1>28, <1>29, <1>30 DEF Work, Verdict

(* So does a step of the lifespan hook.                                     *)
LEMMA BootSettles ==
    ASSUME JobsInv, Recover(Boot), ~EnqueueUpload(Boot), ~EnqueueStaged(Boot), Live, Live',
           Settles(Boot, pc[Boot], loc[Boot])
    PROVE  \E q, m : LeavesSettled(Boot, q, m) /\ q # "idle"
<1>1. /\ Boot \in Threads /\ Boot \notin Workers \cup Handlers /\ loc[Boot] \in Locals /\ Steps(Boot)
      /\ Placed(Boot, pc[Boot], loc[Boot]) /\ pc[Boot] # "idle"
  BY ThreadKinds, ThreadFacts, StepsAreAwake DEF JobsInv, PlacesInv, Steps
<1>3. /\ Active \subseteq {loc[Boot].run}
      /\ pc[Boot] \in {"check", "staged_check", "staged_add", "enqueue"} => Active = {}
      /\ pc[Boot] \notin {"check_running", "zombie"}
      /\ pc[Boot] \in {"staged_check", "staged_add", "enqueue_staged"} => batch.status # "received"
      /\ loc[Boot].b.status \in {"none", batch.status} /\ ~Gone
  BY <1>1, OnlyTheJobWrites DEF Settles
<1> USE DEF Shaped
<1>4. CASE FindActive(Boot)
  <2>1. PICK q, m : q = AfterCheck(Boot) /\ m = loc[Boot] /\ Go(Boot, q, m)
    BY <1>3, <1>4 DEF FindActive, Goto
  <2>2. /\ pc[Boot] \in {"check", "staged_check"} /\ UNCHANGED <<batch, run>>
    BY <1>4 DEF FindActive, store
  <2>3. \/ q = "staged_add" /\ pc[Boot] = "staged_check"
        \/ q = "staged_check" /\ Mode(loc[Boot].b) = "staged"
        \/ q = "enqueue"
    BY <1>1, <2>1 DEF AfterCheck, Placed
  <2>4. Mode(loc[Boot].b) = "staged" => batch.status # "received"
    BY <1>3 DEF Mode
  <2>5. Settles(Boot, q, m)' /\ Carries(Boot, q)
    BY <1>1, <1>3, <2>1, <2>2, <2>3, <2>4 DEF Settles, Carries, Active, Placed
  <2> QED
    BY <1>1, <2>1, <2>3, <2>5 DEF LeavesSettled, Locals
<1>5. CASE AddRecoveryRun(Boot)
  <2>1. PICK n, m : n = NextRun /\ m = [loc[Boot] EXCEPT !.run = n]
    OBVIOUS
  <2>2. Shaped(m) /\ m.kind = loc[Boot].kind /\ m.run = n /\ m.ret = loc[Boot].ret /\ m.b = loc[Boot].b
    BY <1>1, <2>1 DEF Locals
  <2>3. pc[Boot] = "staged_add"
    BY <1>1, <1>5 DEF AddRecoveryRun, Placed, BootPlaces
  <2>4. Go(Boot, "enqueue_staged", m) /\ UNCHANGED batch
    BY <1>3, <1>5, <2>1, <2>3 DEF AddRecoveryRun
  <2>5. Active' \subseteq {m.run}
    BY <1>1, <1>3, <2>1, <2>2, <2>3, OnlyTheJobWrites
  <2>6. Settles(Boot, "enqueue_staged", m)' /\ Carries(Boot, "enqueue_staged")
    BY <1>1, <1>3, <2>2, <2>3, <2>4, <2>5 DEF Settles, Carries, Placed
  <2> QED
    BY <2>2, <2>4, <2>6 DEF LeavesSettled
<1>6. ~CheckRunning(Boot) /\ ~FailZombie(Boot)
  BY <1>3 DEF CheckRunning, FailZombie
<1> QED
  BY <1>4, <1>5, <1>6 DEF Recover

(* Every step keeps that an active run is the one of the job.               *)
LEMMA SettleStep ==
    ASSUME JobsInv, SettleInv, [Next]_vars
    PROVE  SettleInv'
<1> SUFFICES ASSUME Live' PROVE SettleInv'
  BY DEF SettleInv
<1>1. Live /\ JobsInv' /\ batch \in Batches /\ UploadInv
  <2>1. CancelAsked => CancelAsked'
    BY CancelStep DEF JobsInv
  <2>2. arriving' = arriving
    BY StepsQueueNothing, ThreadKinds DEF JobsInv, Next, Steps, vars, outside, Restart, TakeJob, AcceptUpload,
       Request, EnqueueUpload, EnqueueStaged
  <2> QED
    BY <2>1, <2>2, JobsStep DEF Live, JobsInv, UploadInv, StoreInv
<1>2. /\ queue # <<>> => /\ Active \subseteq {queue[1].run}
                         /\ queue[1].kind = "staged" => batch.status # "received"
      /\ queue = <<>> /\ ~AtWork => Active = {} /\ (NextRun \in Runs => batch.status # "received")
      /\ \A t \in Threads : Carries(t, pc[t]) => Settles(t, pc[t], loc[t])
  BY <1>1 DEF SettleInv
<1>3. NextRun' \in Runs => NextRun \in Runs
  BY NamesStep DEF JobsInv
<1>4. ASSUME NEW t \in Threads, Carries(t, pc[t]), queue' = <<>>, NEW q, NEW m, LeavesSettled(t, q, m)
      PROVE  SettleInv'
  <2>1. /\ pc'[t] = q /\ \A u \in Threads : u # t => pc'[u] = pc[u] /\ loc'[u] = loc[u]
        /\ q # "idle" => loc'[t].kind = m.kind /\ loc'[t].run = m.run /\ loc'[t].ret = m.ret
        /\ q \in Fresh => loc'[t].b = Blank.b
        /\ q \notin Fresh /\ q # "idle" => loc'[t] = m
    BY <1>1, <1>4, AfterGo DEF LeavesSettled
  <2>2. \A u \in Threads : u # t => ~Carries(u, pc'[u])
    BY <1>4, <2>1 DEF JobsInv, JobInv
  <2>3. CASE Carries(t, q)
    <3>1. Settles(t, pc[t], loc[t])'
      BY <1>4, <2>1, <2>3, ThreadKinds DEF LeavesSettled, Settles, Carries, Blank
    <3> QED
      BY <1>4, <2>1, <2>2, <2>3, <3>1 DEF SettleInv, AtWork
  <2>4. CASE ~Carries(t, q)
    <3>1. Settled'
      BY <1>4, <2>4 DEF LeavesSettled
    <3> QED
      BY <1>4, <2>1, <2>2, <2>4, <3>1 DEF SettleInv, AtWork, Settled
  <2> QED
    BY <2>3, <2>4
<1>5. ASSUME NEW t \in Threads, NEW q, NEW m, Go(t, q, m), Shaped(m), ~Carries(t, pc[t]), ~Carries(t, q),
             UNCHANGED queue, Active' = Active, batch'.status = batch.status
      PROVE  SettleInv'
  <2>1. pc'[t] = q /\ \A u \in Threads : u # t => pc'[u] = pc[u] /\ loc'[u] = loc[u]
    BY <1>1, <1>5, AfterGo
  <2>2. \A u \in Threads : Carries(u, pc'[u]) <=> Carries(u, pc[u])
    BY <1>5, <2>1
  <2>3. \A u \in Threads : Carries(u, pc[u])' => Settles(u, pc[u], loc[u])'
    BY <1>2, <1>5, <2>1, <2>2 DEF Settles, Carries
  <2> QED
    BY <1>2, <1>3, <1>5, <2>2, <2>3 DEF SettleInv, AtWork, Carries
<1>6. CASE Restart
  <2>1. PICK m : m = [Blank EXCEPT !.kind = "boot", !.b = batch]
    OBVIOUS
  <2>2. m.b = batch /\ m.kind = "boot" /\ m.ret = "idle" /\ m.run = NoRun
    BY <2>1 DEF Blank
  <2>3. /\ pc'[Boot] = IF BootResumes' /\ NextRun \in Runs THEN "check" ELSE "idle"
        /\ loc'[Boot] = IF pc'[Boot] = "check" THEN m ELSE Blank
        /\ \A t \in Threads \ {Boot} : pc'[t] = "idle"
        /\ UNCHANGED batch /\ queue' = <<>>
    BY <1>6, <2>1, ThreadKinds DEF Restart
  <2>4. Active' = {}
    <3>1. ASSUME NEW r \in Runs PROVE r \notin Active'
      <4>1. PICK rec : rec = [run[r] EXCEPT !.status = "failed", !.reason = "auto"]
        OBVIOUS
      <4>2. rec.status = "failed"
        BY <1>1, <4>1 DEF UploadInv, StoreInv, Record
      <4>3. run'[r] = IF r \in Active THEN rec ELSE run[r]
        BY <1>6, <4>1 DEF Restart
      <4> QED
        BY <4>2, <4>3 DEF Active
    <3> QED
      BY <3>1 DEF Active
  <2>5. batch.status = "received" /\ NextRun \in Runs => pc'[Boot] = "check"
    BY <1>1, <2>3 DEF BootResumes, Cancelled, Live, CancelAsked
  <2>6. \A t \in Threads : Carries(t, pc'[t]) => t = Boot /\ pc'[t] = "check"
    BY <2>3, ThreadKinds DEF Carries
  <2>7. pc'[Boot] = "check" => Settles(Boot, pc[Boot], loc[Boot])'
    BY <2>2, <2>3, <2>4, ThreadKinds DEF Settles
  <2>8. Carries(Boot, "check")
    BY ThreadKinds DEF Carries
  <2>9. ~AtWork' => pc'[Boot] # "check"
    BY <2>8, ThreadKinds DEF AtWork
  <2> QED
    BY <1>3, <2>3, <2>4, <2>5, <2>6, <2>7, <2>9 DEF SettleInv
<1>7. ASSUME NEW h \in Handlers, AcceptUpload(h) PROVE SettleInv'
  <2>1. PICK m : m = [Blank EXCEPT !.kind = "upload"]
    OBVIOUS
  <2>2. Shaped(m) /\ m.kind = "upload" /\ m.b = Blank.b
    BY <2>1 DEF Shaped, Blank
  <2>3. /\ Go(h, "enqueue", m) /\ batch.status = "none" /\ UNCHANGED <<run, queue>>
        /\ h \in Threads /\ h # Boot
    BY <1>7, <2>1, ThreadKinds DEF AcceptUpload, memory
  <2>4. queue = <<>> /\ ~AtWork
    BY <2>3 DEF JobsInv, JobInv, AtWork, Carries
  <2>5. Active' = {} /\ Active = {}
    BY <1>2, <2>3, <2>4 DEF Active
  <2>6. /\ pc'[h] = "enqueue" /\ loc'[h].kind = "upload"
        /\ \A u \in Threads : u # h => pc'[u] = pc[u]
    BY <1>1, <2>2, <2>3, AfterGo
  <2>7. \A u \in Threads : Carries(u, pc'[u]) => u = h
    BY <2>4, <2>6 DEF AtWork
  <2>8. Settles(h, pc[h], loc[h])' /\ AtWork'
    BY <2>3, <2>5, <2>6 DEF Settles, AtWork, Carries
  <2> QED
    BY <2>3, <2>4, <2>7, <2>8 DEF SettleInv
<1>8. ASSUME NEW h \in Handlers, NEW kind \in arriving, Request(h, kind) PROVE SettleInv'
  <2>1. PICK m : m = [Blank EXCEPT !.kind = kind]
    OBVIOUS
  <2>2. Shaped(m)
    BY <2>1 DEF Shaped, Blank
  <2>3. Go(h, kind, m) /\ UNCHANGED <<batch, run, queue>> /\ kind \in Calls /\ pc[h] = "idle"
    BY <1>8, <2>1 DEF Request, store, memory, JobsInv, PlacesInv
  <2>4. ~Carries(h, pc[h]) /\ ~Carries(h, kind) /\ h \in Threads /\ Active' = Active
    BY <2>3, ThreadKinds DEF Carries, Calls, Active
  <2> QED
    BY <1>5, <2>2, <2>3, <2>4
<1>9. ASSUME NEW w \in Workers, TakeJob(w) PROVE SettleInv'
  <2>1. PICK m, q : /\ Shaped(m) /\ m.kind = queue[1].kind /\ m.run = queue[1].run /\ m.ret = "fin" /\ m.b = Blank.b
                    /\ Go(w, q, m) /\ q \in {"fin", "at_ingest", "reset", "at_staged"}
    BY <1>9, JobTaken DEF JobsInv
  <2>2. /\ queue' = <<>> /\ queue # <<>> /\ UNCHANGED <<batch, run>> /\ w \in Threads /\ w # Boot /\ w \notin Handlers
        /\ \A u \in Threads : ~Carries(u, pc[u])
    BY <1>9, JobTaken, ThreadKinds DEF JobsInv, TakeJob, store
  <2>3. /\ pc'[w] = q /\ loc'[w].kind = m.kind /\ loc'[w].run = m.run /\ loc'[w].ret = "fin"
        /\ \A u \in Threads : u # w => pc'[u] = pc[u]
    BY <1>1, <2>1, <2>2, AfterGo
  <2>4. Settles(w, pc[w], loc[w])' /\ AtWork'
    BY <1>2, <2>1, <2>2, <2>3 DEF Settles, Active, AtWork, Carries
  <2> QED
    BY <2>2, <2>3, <2>4 DEF SettleInv
<1>10. ASSUME NEW t \in Handlers \cup {Boot}, EnqueueUpload(t) \/ EnqueueStaged(t) PROVE SettleInv'
  <2>1. queue = <<>> /\ Len(queue) = 0 /\ Carries(t, pc[t]) /\ \A u \in Threads : ~Carries(u, pc'[u])
    BY <1>10, JobQueued DEF JobsInv
  <2>2. UNCHANGED <<batch, run>> /\ t \in Threads
    BY <1>10, ThreadKinds DEF EnqueueUpload, EnqueueStaged, store
  <2>3. Settles(t, pc[t], loc[t])
    BY <1>2, <2>1, <2>2
  <2>4. PICK job : /\ queue' = Append(queue, job)
                   /\ \/ job.run = NoRun /\ job.kind # "staged" /\ pc[t] = "enqueue"
                      \/ job.run = loc[t].run /\ pc[t] = "enqueue_staged"
    BY <1>10 DEF EnqueueUpload, EnqueueStaged, Enqueue
  <2>5. queue'[1] = job /\ queue' # <<>>
    BY <2>1, <2>4
  <2>6. pc[t] = "enqueue_staged" => t = Boot
    BY <1>10, <2>2 DEF JobsInv, PlacesInv, Placed, HandlerPlaces, Calls
  <2>7. Active' \subseteq {job.run} /\ (job.kind = "staged" => batch'.status # "received")
    BY <2>2, <2>3, <2>4, <2>6 DEF Settles, Active
  <2> QED
    BY <2>1, <2>5, <2>7 DEF SettleInv
<1>11. ASSUME NEW t \in Threads,
             \/ t \in Workers /\ (Work(t) \/ TransformChunk(t))
             \/ t \in Handlers /\ Handle(t) /\ ~EnqueueUpload(t)
             \/ t = Boot /\ Recover(t) /\ ~EnqueueUpload(t) /\ ~EnqueueStaged(t)
       PROVE  SettleInv'
  <2>1. UNCHANGED queue /\ (\E q, m : Leads(t, q, m)) /\ Steps(t)
    BY <1>11, StepsQueueNothing DEF JobsInv, Steps
  <2>2. CASE ~Carries(t, pc[t])
    <3>1. Active' = Active /\ batch'.status = batch.status
      BY <1>1, <2>1, <2>2, OnlyTheJobWrites
    <3> QED
      BY <1>5, <2>1, <2>2, <3>1 DEF Leads
  <2>3. CASE Carries(t, pc[t])
    <3>1. Settles(t, pc[t], loc[t]) /\ queue = <<>>
      BY <1>2, <2>3 DEF JobsInv, JobInv, AtWork
    <3>2. ~(t \in Handlers /\ Handle(t) /\ ~EnqueueUpload(t))
      BY <2>3 DEF Handle, Carries, CancelRead, CancelRunning, CancelRequest, Finalize, FinalizeRead, FinalizeRevert,
         FinalizeRuns, FinalizeBatch, DeleteRead, DeleteRunning, DeleteCheck, DeleteRevert, DeleteRecord,
         Poll, Reprocess, Recover, FindActive, CheckRunning, FailZombie, AddRecoveryRun, EnqueueStaged,
         Publish, PublishRefused, PublishCreate, Evaluate, Verdict, ReadForVerdict, SaveVerdict
    <3>3. \E q, m : LeavesSettled(t, q, m)
      BY <1>1, <1>11, <3>1, <3>2, WorkSettles, BootSettles
    <3> QED
      BY <1>4, <2>1, <2>3, <3>1, <3>3
  <2> QED
    BY <2>2, <2>3
<1>12. CASE UNCHANGED vars
  BY <1>1, <1>2, <1>3, <1>12 DEF vars, SettleInv, AtWork, Carries, Settles, Active
<1> QED
  BY <1>6, <1>7, <1>8, <1>9, <1>10, <1>11, <1>12, ThreadKinds DEF Next

(* Work is not lost: when everything is quiet no run is left active and the *)
(* upload is not left "received" while a run is left to resume it with,     *)
(* across restarts, for every upload that is neither polled nor reprocessed. *)
THEOREM NothingIsStuck ==
    ASSUME Mixes \subseteq SUBSET Calls
    PROVE  Spec => []NotStuck
<1>1. Init => JobsInv /\ SettleInv
  <2> SUFFICES ASSUME Init PROVE JobsInv /\ SettleInv
    OBVIOUS
  <2>1. JobsInv
    BY JobsStart
  <2>2. Active = {} /\ queue = <<>> /\ batch.status = "none" /\ \A t \in Threads : pc[t] = "idle"
    BY DEF Init, Active, Absent
  <2> QED
    BY <2>1, <2>2 DEF SettleInv, Carries
<1>2. JobsInv /\ SettleInv /\ [Next]_vars => JobsInv' /\ SettleInv'
  BY JobsStep, SettleStep
<1>3. JobsInv /\ SettleInv => NotStuck
  <2> SUFFICES ASSUME JobsInv, SettleInv, Quiet, ~batch.cancel, "evaluate" \notin arriving
               PROVE  Active = {} /\ (NextRun \in Runs => batch.status # "received")
    BY DEF NotStuck
  <2>1. CASE batch.status = "deleted"
    BY <2>1 DEF JobsInv, UploadInv, StoreInv, Active, Created
  <2>2. CASE batch.status # "deleted"
    <3>1. Live
      BY <2>2 DEF Live, CancelAsked
    <3>2. queue = <<>> /\ ~AtWork
      BY DEF Quiet, AtWork, Carries
    <3> QED
      BY <3>1, <3>2 DEF SettleInv
  <2> QED
    BY <2>1, <2>2
<1> QED
  BY <1>1, <1>2, <1>3, PTL DEF Spec

-----------------------------------------------------------------------------
(* A cancellation is finalized when no job may write any more.              *)
Writes    == IngestPlaces \cup RunPlaces
Writing   == \/ queue # <<>>
             \/ \E t \in Threads : Carries(t, pc[t]) /\ (t \in Workers => pc[t] \in Writes)
StagedJob == \/ queue # <<>> /\ queue[1].kind = "staged"
             \/ \E w \in Workers : pc[w] \in RunPlaces /\ loc[w].kind = "staged"

(* The registry by which a cancellation sees that the job is running.       *)
Known(kind, r) == IF kind = "staged" THEN reproc = r /\ r \in Active ELSE inflight

Clean(t, p, l) ==
    /\ p = "fc_revert" => rows \subseteq l.todo
    /\ p \in {"fc_runs", "fc_batch"} => rows = {}
    /\ p = "layout" => l.b.status # "cancelled"
    /\ p = "enqueue_staged" => l.run \in Active
    /\ t \in Workers /\ p \in Writes => Known(l.kind, l.run)
    /\ t \in Handlers /\ p = "qa_save" /\ StagedJob /\ l.run = reproc => l.r.status \in {"pending", "running"}
    /\ Writing => p \notin CancelPlaces /\ (p = "cancel_request" => l.running)

CleanInv == batch.status # "deleted" =>
    /\ queue # <<>> => Known(queue[1].kind, queue[1].run)
    /\ Writing => batch.status # "cancelled"
    /\ batch.status = "cancelled" => rows = {}
    /\ \A t \in Threads : Clean(t, pc[t], loc[t])

(* What a step does to the rows and to the registries.                      *)
RowsEffect(t) == \/ rows' \subseteq rows
                 \/ pc[t] = "chunk" /\ t \in Workers
MemoryEffect(t) ==
    /\ UNCHANGED queue /\ reproc' \in {reproc, NoRun}
    /\ pc[t] # "forget" => /\ UNCHANGED inflight
                           /\ reproc' = reproc \/ ~LocallyRunning \/ batch'.status = "deleted"

(* Every step has these effects on the rows and on the registries.          *)
LEMMA RowsAndRegistries ==
    ASSUME JobsInv, NEW t \in Threads, Steps(t)
    PROVE  /\ RowsEffect(t)
           /\ ~EnqueueUpload(t) /\ ~EnqueueStaged(t) => MemoryEffect(t)
<1> USE DEF RowsEffect, MemoryEffect, memory, store
<1>1. CASE TransformChunk(t)
  <2>1. t \in Workers
    <3>1. pc[t] = "chunk"
      BY <1>1 DEF TransformChunk
    <3> QED
      BY <3>1 DEF JobsInv, PlacesInv, Placed, HandlerPlaces, BootPlaces, Calls, Threads
  <2> QED
    BY <1>1, <2>1 DEF TransformChunk
<1>2. CASE FinalizeRevert(t) \/ DeleteRevert(t)
  BY <1>2 DEF FinalizeRevert, DeleteRevert
<1>3. CASE Forget(t)
  BY <1>3 DEF Forget
<1>4. CASE CancelRunning(t) \/ DeleteRunning(t) \/ CheckRunning(t) \/ Poll(t)
  BY <1>4 DEF CancelRunning, DeleteRunning, CheckRunning, Poll, PruneReprocess
<1>5. CASE DeleteRecord(t)
  BY <1>5 DEF DeleteRecord, JobsInv, UploadInv, StoreInv, Batches
<1>6. CASE \/ Checkpoint(t) \/ IngestRead(t) \/ IngestLayout(t) \/ Stage(t) \/ FindRun(t) \/ ResetStaging(t) \/ AddJobRun(t)
           \/ TransformRead(t) \/ TransformRunning(t) \/ TransformEnd(t) \/ TransformProcessed(t)
           \/ ReadForVerdict(t) \/ SaveVerdict(t)
  BY <1>6 DEF Checkpoint, IngestRead, IngestLayout, Stage, FindRun, ResetStaging, AddJobRun, TransformRead,
     TransformRunning, TransformEnd, TransformProcessed, ReadForVerdict, SaveVerdict
<1>7. CASE \/ FailRead(t) \/ FailSave(t) \/ FailStage(t) \/ FailReprocess(t) \/ FailRunSave(t)
           \/ Finish(t) \/ FinishRun(t) \/ FinishBatch(t) \/ FinishRunSave(t)
           \/ FinalizeRead(t) \/ FinalizeRuns(t) \/ FinalizeBatch(t)
  BY <1>7 DEF FailRead, FailSave, FailStage, FailReprocess, FailRunSave, Finish, FinishRun, FinishBatch,
     FinishRunSave, FinalizeRead, FinalizeRuns, FinalizeBatch
<1>8. CASE \/ CancelRead(t) \/ CancelRequest(t) \/ DeleteRead(t) \/ DeleteCheck(t)
           \/ Publish(t) \/ PublishRefused(t) \/ PublishCreate(t) \/ Evaluate(t)
           \/ Reprocess(t) \/ FindActive(t) \/ FailZombie(t) \/ AddRecoveryRun(t)
  BY <1>8 DEF CancelRead, CancelRequest, DeleteRead, DeleteCheck, Publish, PublishRefused, PublishCreate, Evaluate,
     Reprocess, FindActive, FailZombie, AddRecoveryRun
<1>9. CASE EnqueueStaged(t) \/ EnqueueUpload(t)
  BY <1>9 DEF EnqueueStaged, EnqueueUpload
<1> QED
  BY <1>1, <1>2, <1>3, <1>4, <1>5, <1>6, <1>7, <1>8, <1>9 DEF Steps, Work, Handle, Recover, Finalize, Verdict

(* A thread goes to one place.                                              *)
LEMMA GoesTo ==
    ASSUME NEW t \in Threads, UploadInv, NEW q, NEW m, Go(t, q, m)
    PROVE  pc'[t] = q
BY DEF Go, UploadInv, ThreadsInv

(* A step of the job: it writes on only where it was writing.               *)
LEMMA WorkCleans ==
    ASSUME JobsInv, CleanInv, NEW w \in Workers, Work(w) \/ TransformChunk(w), ~Finalize(w),
           batch.status # "deleted"
    PROVE  \E q, m : /\ Go(w, q, m) /\ Shaped(m) /\ q \notin {"fc_revert", "fc_runs", "fc_batch"}
                     /\ q \in Writes => /\ pc[w] \in Writes /\ m.kind = loc[w].kind
                                        /\ Known(m.kind, m.run)'
                     /\ q = "layout" => m.b.status # "cancelled"
<1>1. /\ w \in Threads /\ w \notin Handlers /\ w # Boot /\ pc[w] # "idle" /\ loc[w] \in Locals
      /\ Placed(w, pc[w], loc[w]) /\ Steps(w) /\ UploadInv /\ run \in [Runs -> Record]
      /\ Clean(w, pc[w], loc[w])
  BY ThreadKinds, ThreadFacts, StepsAreAwake DEF JobsInv, PlacesInv, Steps, UploadInv, StoreInv, CleanInv
<1>2. pc[w] \in Writes => Known(loc[w].kind, loc[w].run) /\ batch.status # "cancelled"
  BY <1>1 DEF Clean, CleanInv, Writing, Carries
<1>3. loc[w].kind = "staged" => pc[w] \notin IngestPlaces
  BY <1>1 DEF Placed
<1>4. pc[w] # "forget" /\ Known(loc[w].kind, loc[w].run) =>
        UNCHANGED inflight /\ (loc[w].kind = "staged" => reproc' = loc[w].run)
  <2>1. MemoryEffect(w)
    <3>1. pc[w] \notin {"enqueue", "enqueue_staged"}
      BY <1>1 DEF Placed, WorkPlaces, IngestPlaces, RunPlaces, FailPlaces, CancelPlaces
    <3> QED
      BY <1>1, <3>1, RowsAndRegistries DEF EnqueueUpload, EnqueueStaged
  <2>2. batch'.status # "deleted"
    <3>1. pc[w] # "delete_record"
      BY <1>1 DEF Placed, WorkPlaces, IngestPlaces, RunPlaces, FailPlaces, CancelPlaces
    <3>2. loc[w].b.status # "deleted"
      BY <1>1, ThreadFacts DEF Held
    <3> QED
      BY <1>1, <3>1, <3>2, BatchEffects DEF BatchEffect
  <2> QED
    BY <2>1, <2>2 DEF MemoryEffect, Known, LocallyRunning
<1>5. PICK q, m : Reads(w, q, m)
  BY <1>1, StepReads DEF JobsInv
<1>6. pc'[w] = q
  BY <1>1, <1>5, GoesTo DEF Reads
<1> DEFINE Goal == \E p, n : /\ Go(w, p, n) /\ Shaped(n) /\ p \notin {"fc_revert", "fc_runs", "fc_batch"}
                             /\ p \in Writes => /\ pc[w] \in Writes /\ n.kind = loc[w].kind
                                                /\ Known(n.kind, n.run)'
                             /\ p = "layout" => n.b.status # "cancelled"
<1>7. ASSUME NEW x, NEW l, Go(w, x, l), x \notin Writes \cup {"fc_revert", "fc_runs", "fc_batch"}
      PROVE  Goal
  <2>1. q = x
    BY <1>1, <1>6, <1>7, GoesTo
  <2> QED
    BY <1>5, <1>7, <2>1 DEF Reads, Writes, IngestPlaces
<1>8. ASSUME NEW x \in Writes, NEW l, Go(w, x, l), Shaped(l), l.kind = loc[w].kind, pc[w] \in Writes,
             l.run = loc[w].run \/ loc[w].kind # "staged", x = "layout" => l.b.status # "cancelled",
             loc[w].kind = "staged" => loc[w].run \in Active'
      PROVE  Goal
  <2>1. pc[w] # "forget"
    BY <1>8 DEF Writes, IngestPlaces, RunPlaces
  <2>2. Known(l.kind, l.run)'
    BY <1>2, <1>4, <1>8, <2>1 DEF Known
  <2> QED
    BY <1>8, <2>2 DEF Writes, IngestPlaces, RunPlaces
<1>9. ASSUME NEW x \in Writes \ {"layout"}, Goto(w, x), pc[w] \in Writes, UNCHANGED run \/ loc[w].kind # "staged"
      PROVE  Goal
  BY <1>1, <1>2, <1>8, <1>9 DEF Goto, Shaped, Locals, Known, Active
<1> HIDE DEF Goal
<1>10. Goal
  <2>1. CASE ResetStaging(w)
    BY <1>3, <1>7, <1>9, <2>1 DEF ResetStaging, RaiseError, Writes, IngestPlaces, RunPlaces
  <2>2. CASE Checkpoint(w)
    <3>1. pc[w] \in DOMAIN AfterCheckpoint /\ (RaiseCancelled(w) \/ Goto(w, AfterCheckpoint[pc[w]])) /\ UNCHANGED run
      BY <2>2 DEF Checkpoint, store
    <3>2. \/ AfterCheckpoint[pc[w]] \in {"ingest", "stage", "transform", "chunk"} /\ pc[w] \in Writes
          \/ AfterCheckpoint[pc[w]] \in {"qa_read", "fin"}
      BY <3>1 DEF AfterCheckpoint, Writes, IngestPlaces, RunPlaces
    <3>3. {"ingest", "stage", "transform", "chunk"} \subseteq Writes \ {"layout"}
          /\ {"qa_read", "fin", "fc_read"} \cap (Writes \cup {"fc_revert", "fc_runs", "fc_batch"}) = {}
      BY DEF Writes, IngestPlaces, RunPlaces
    <3> QED
      BY <1>7, <1>9, <3>1, <3>2, <3>3 DEF RaiseCancelled, Goto
  <2>3. CASE IngestRead(w)
    <3>1. PICK n : n = [loc[w] EXCEPT !.b = batch]
      OBVIOUS
    <3>2. Shaped(n) /\ n.kind = loc[w].kind /\ n.run = loc[w].run /\ n.b = batch
      BY <1>1, <3>1 DEF Shaped, Locals
    <3>3. pc[w] = "ingest" /\ (Go(w, "layout", n) \/ RaiseError(w))
      BY <2>3, <3>1 DEF IngestRead
    <3>4. pc[w] \in Writes /\ loc[w].kind # "staged" /\ "layout" \in Writes
      BY <1>3, <3>3 DEF Writes, IngestPlaces
    <3> QED
      BY <1>2, <1>7, <1>8, <3>2, <3>3, <3>4 DEF RaiseError, Writes, IngestPlaces, RunPlaces
  <2>4. CASE IngestLayout(w) \/ Stage(w)
    BY <1>3, <1>7, <1>9, <2>4 DEF IngestLayout, Stage, Goto, Writes, IngestPlaces, RunPlaces
  <2>5. CASE FindRun(w) \/ AddJobRun(w)
    <3>1. PICK last, next : last = Newest(Active) /\ next = NextRun
      OBVIOUS
    <3>2. PICK r, n : /\ n = [loc[w] EXCEPT !.run = r]
                      /\ Goto(w, "add_run") \/ Go(w, "at_transform", n) \/ RaiseError(w)
      BY <2>5, <3>1 DEF FindRun, AddJobRun
    <3>3. Shaped(n) /\ n.kind = loc[w].kind
      BY <1>1, <3>2 DEF Shaped, Locals
    <3>4. pc[w] \in IngestPlaces
      BY <2>5 DEF FindRun, AddJobRun, IngestPlaces
    <3> QED
      BY <1>3, <1>7, <1>8, <1>9, <3>2, <3>3, <3>4 DEF RaiseError, Writes, IngestPlaces, RunPlaces
  <2>6. CASE TransformRead(w)
    <3>1. PICK rec, n : rec = run[loc[w].run] /\ n = [loc[w] EXCEPT !.b = batch, !.r = rec]
      OBVIOUS
    <3>2. Shaped(n) /\ n.run = loc[w].run /\ n.kind = loc[w].kind
      BY <1>1, <3>1 DEF Shaped, Locals
    <3>3. pc[w] = "transform" /\ (Go(w, "running", n) \/ RaiseError(w)) /\ UNCHANGED run
      BY <2>6, <3>1 DEF TransformRead, store
    <3>4. pc[w] \in Writes /\ "running" \in Writes /\ (loc[w].kind = "staged" => loc[w].run \in Active')
      BY <1>2, <3>3 DEF Writes, RunPlaces, Known, Active
    <3> QED
      BY <1>7, <1>8, <3>2, <3>3, <3>4 DEF RaiseError, Writes, IngestPlaces, RunPlaces
  <2>7. CASE TransformRunning(w)
    <3>1. PICK n, r : n = loc[w] /\ r = loc[w].run
      OBVIOUS
    <3>2. pc[w] = "running" /\ Go(w, "at_chunk", n) /\ pc[w] \in Writes /\ "at_chunk" \in Writes
      BY <2>7, <3>1 DEF TransformRunning, Goto, Writes, RunPlaces
    <3>3. r \in Active => r \in Active'
      BY <1>1, <3>1, <3>2, RunEffects DEF RunEffect, Active
    <3> QED
      BY <1>1, <1>2, <1>8, <3>1, <3>2, <3>3 DEF Known, Shaped, Locals
  <2>8. CASE TransformChunk(w)
    BY <1>9, <2>8 DEF TransformChunk, Writes, RunPlaces
  <2>9. CASE \/ TransformEnd(w) \/ TransformProcessed(w) \/ ReadForVerdict(w) \/ SaveVerdict(w)
             \/ FailSave(w) \/ FinishRunSave(w) \/ Forget(w) \/ FinishRun(w)
    <3>1. \E x, l : /\ x \in {"processed", "at_qa", "qa_save", "at_verdict", "fr_read", "fb_read",
                              "idle", "fb_stage", "fin_batch", "fin2", "fin_save"}
                    /\ Go(w, x, l)
      BY <2>9 DEF TransformEnd, TransformProcessed, ReadForVerdict, SaveVerdict, FailSave, FinishRunSave, Forget,
         FinishRun, Goto, RaiseError
    <3> QED
      BY <1>7, <3>1 DEF Writes, IngestPlaces, RunPlaces
  <2>10. CASE FailRead(w) \/ FailStage(w) \/ FailReprocess(w) \/ FailRunSave(w) \/ FinishBatch(w)
    <3>1. \E x, l : x \in {"fb_save", "fail_run", "fb_read", "fc_read", loc[w].ret} /\ Go(w, x, l)
      BY <2>10 DEF FailRead, FailStage, FailReprocess, FailRunSave, FinishBatch, Goto, Return
    <3>2. loc[w].ret \in {"idle", "fin", "forget"}
      BY <1>1 DEF Placed
    <3> QED
      BY <1>7, <3>1, <3>2 DEF Writes, IngestPlaces, RunPlaces
  <2>11. CASE Finish(w)
    <3>1. PICK x, after, l : /\ Go(w, x, l)
                             /\ x = CASE MustCancel(w) -> "fc_read"
                                      [] MustFail(w) -> IF loc[w].kind = "staged" THEN "fr_read" ELSE "fin_run"
                                      [] OTHER -> after
                             /\ after = IF pc[w] = "fin" THEN "forget" ELSE "idle"
      BY <2>11 DEF Finish
    <3>2. x \in {"fc_read", "fr_read", "fin_run", "forget", "idle"}
      BY <3>1
    <3> QED
      BY <1>7, <3>1, <3>2 DEF Writes, IngestPlaces, RunPlaces
  <2> QED
    BY <2>1, <2>2, <2>3, <2>4, <2>5, <2>6, <2>7, <2>8, <2>9, <2>10, <2>11 DEF Work, Verdict
<1> QED
  BY <1>10 DEF Goal

(* While the job writes, one of the registries knows it.                    *)
LEMMA WritingIsKnown ==
    ASSUME JobsInv, CleanInv, batch.status # "deleted"
    PROVE  /\ StagedJob => reproc \in Active
           /\ Writing /\ pc[Boot] = "idle" /\ (\A h \in Handlers : pc[h] # "enqueue") => LocallyRunning
<1>1. /\ queue # <<>> => Known(queue[1].kind, queue[1].run)
      /\ \A t \in Threads : Clean(t, pc[t], loc[t])
  BY DEF CleanInv
<1>2. \A w \in Workers : pc[w] \in Writes => Known(loc[w].kind, loc[w].run)
  BY <1>1, ThreadKinds DEF Clean
<1>3. StagedJob => reproc \in Active
  BY <1>1, <1>2 DEF StagedJob, Known, Writes
<1>4. \A k, r : Known(k, r) => LocallyRunning
  BY DEF Known, LocallyRunning
<1>5. Writing /\ pc[Boot] = "idle" /\ (\A h \in Handlers : pc[h] # "enqueue") => LocallyRunning
  BY <1>1, <1>2, <1>4 DEF Writing, Carries, Threads
<1> QED
  BY <1>3, <1>5

(* Such a step queues no job and starts no writing.                         *)
LEMMA WritingEnds ==
    ASSUME JobsInv, NEW t \in Threads, Steps(t), UNCHANGED queue, NEW q, NEW m, Go(t, q, m), Shaped(m),
           Carries(t, q) => Carries(t, pc[t]),
           t \in Workers /\ q \in Writes => pc[t] \in Writes /\ m.kind = loc[t].kind
    PROVE  /\ Writing' => Writing
           /\ StagedJob' => StagedJob
           /\ t \in Workers /\ q \notin Writes => ~Writing'
<1>1. /\ pc'[t] = q /\ \A u \in Threads : u # t => pc'[u] = pc[u] /\ loc'[u] = loc[u]
      /\ q # "idle" => loc'[t].kind = m.kind
      /\ pc[t] # "idle" /\ Placed(t, pc[t], loc[t])
  BY AfterGo, StepsAreAwake DEF JobsInv, Steps, PlacesInv
<1>2. \A w \in Workers : w \in Threads /\ w \notin Handlers
  BY ThreadKinds
<1>3. Writing' => Writing
  BY <1>1 DEF Writing
<1>4. StagedJob' => StagedJob
  <2>1. ASSUME NEW w \in Workers, pc'[w] \in RunPlaces, loc'[w].kind = "staged"
        PROVE  pc[w] \in RunPlaces /\ loc[w].kind = "staged"
    <3>1. CASE w = t
      <4>1. q \in Writes /\ q # "idle"
        BY <1>1, <2>1, <3>1 DEF Writes, RunPlaces
      <4>2. pc[t] \in Writes /\ loc[t].kind = "staged"
        BY <1>1, <2>1, <3>1, <4>1
      <4> QED
        BY <1>1, <3>1, <4>2 DEF Placed, Writes
    <3>2. CASE w # t
      BY <1>1, <1>2, <2>1, <3>2
    <3> QED
      BY <3>1, <3>2
  <2> QED
    BY <2>1 DEF StagedJob
<1>5. t \in Workers /\ q \notin Writes => ~Writing'
  <2> SUFFICES ASSUME t \in Workers, q \notin Writes PROVE ~Writing'
    OBVIOUS
  <2>1. Carries(t, pc[t])
    BY <1>1, <1>2 DEF Carries
  <2>2. queue = <<>> /\ \A u \in Threads : u # t => ~Carries(u, pc[u])
    BY <2>1 DEF JobsInv, JobInv, AtWork
  <2> QED
    BY <1>1, <2>2 DEF Writing
<1> QED
  BY <1>3, <1>4, <1>5

(* A request does not make the registries forget a job that writes.         *)
LEMMA RequestsForgetNothing ==
    ASSUME JobsInv, CleanInv, NEW h \in Handlers, Handle(h), ~EnqueueUpload(h), Writing,
           batch.status # "deleted", batch'.status # "deleted",
           NEW k, NEW r \in Runs \cup {NoRun}, Known(k, r), k = "staged" => StagedJob
    PROVE  Known(k, r)'
<1>1. /\ h \in Threads /\ Steps(h) /\ pc[h] \in HandlerPlaces /\ pc[h] \notin CancelPlaces
      /\ Clean(h, pc[h], loc[h])
  BY ThreadKinds DEF Steps, JobsInv, PlacesInv, Placed, CleanInv, Clean
<1>2. /\ pc[h] \notin {"forget", "add_run", "staged_add", "archive_add", "running", "chunk", "fail_run", "fin_save",
                       "zombie", "fc_runs", "enqueue_staged"}
  BY <1>1 DEF HandlerPlaces, Calls, CancelPlaces
<1>3. MemoryEffect(h)
  BY <1>1, <1>2, RowsAndRegistries DEF EnqueueStaged
<1>4. CASE k = "staged"
  <2>1. reproc = r /\ r \in Active /\ r \in Runs
    BY <1>4 DEF Known, Active
  <2>2. reproc' = r
    BY <1>2, <1>3, <2>1 DEF MemoryEffect, LocallyRunning
  <2>3. RunEffect(h, r)
    BY <1>1, <2>1, RunEffects DEF JobsInv
  <2>4. pc[h] = "qa_save" /\ r = loc[h].run => loc[h].r.status \in {"pending", "running"}
    BY <1>1, <1>4, <2>1, ThreadKinds DEF Clean
  <2>5. run'[r].status \in {"pending", "running"}
    BY <1>2, <2>1, <2>3, <2>4 DEF RunEffect, Active
  <2> QED
    BY <1>4, <2>1, <2>2, <2>5 DEF Known, Active
<1>5. CASE k # "staged"
  <2>1. inflight' = inflight
    BY <1>2, <1>3 DEF MemoryEffect
  <2> QED
    BY <1>5, <2>1, Zenon DEF Known
<1> QED
  BY <1>4, <1>5

(* The end of a cancellation leaves no rows.                                *)
LEMMA FinalizeCleans ==
    ASSUME JobsInv, CleanInv, NEW t \in Threads, Steps(t), Finalize(t), batch.status # "deleted"
    PROVE  \E q, m : /\ Go(t, q, m) /\ Shaped(m) /\ q \notin Writes /\ Clean(t, q, m)'
<1>1. /\ loc[t] \in Locals /\ Placed(t, pc[t], loc[t]) /\ Clean(t, pc[t], loc[t]) /\ rows \subseteq Created
  BY ThreadFacts DEF JobsInv, PlacesInv, CleanInv, UploadInv, StoreInv
<1>2. pc[t] \in CancelPlaces
  BY DEF Finalize, FinalizeRead, FinalizeRevert, FinalizeRuns, FinalizeBatch, CancelPlaces
<1>3. ~Writing /\ UNCHANGED queue
  BY <1>1, <1>2 DEF Clean, Finalize, FinalizeRead, FinalizeRevert, FinalizeRuns, FinalizeBatch, memory
<1>4. t # Boot /\ loc[t].ret \in {"idle", "fin", "forget"}
  <2>1. t # Boot
    BY <1>1, <1>2 DEF Placed, BootPlaces, CancelPlaces
  <2> QED
    BY <1>1, <2>1 DEF Placed, Threads
<1>5. {"idle", "fin", "forget", "fc_revert", "fc_runs", "fc_batch"} \cap Writes = {}
  BY DEF Writes, IngestPlaces, RunPlaces
<1>6. ASSUME NEW q \in {"idle", "fin", "forget", "fc_revert", "fc_runs", "fc_batch"}, NEW m, Go(t, q, m), Shaped(m),
             q = "fc_revert" => rows' \subseteq m.todo, q \in {"fc_runs", "fc_batch"} => rows' = {}
      PROVE  \E p, n : /\ Go(t, p, n) /\ Shaped(n) /\ p \notin Writes /\ Clean(t, p, n)'
  <2>1. q \notin Writes
    BY <1>5, <1>6
  <2>2. Carries(t, q) => Carries(t, pc[t])
    BY <1>2, <1>6 DEF Carries, CancelPlaces
  <2>3. ~Writing'
    BY <1>3, <1>6, <2>1, <2>2, WritingEnds
  <2>4. Clean(t, q, m)'
    BY <1>6, <2>1, <2>3 DEF Clean
  <2> QED
    BY <1>6, <2>1, <2>4
<1>7. Shaped(loc[t])
  BY <1>1 DEF Shaped, Locals
<1>8. CASE FinalizeRead(t)
  <2>1. PICK todo, m : todo = Created /\ m = [loc[t] EXCEPT !.todo = todo]
    OBVIOUS
  <2>2. Shaped(m) /\ m.todo = todo
    BY <1>1, <2>1 DEF Shaped, Locals
  <2>3. Go(t, loc[t].ret, loc[t]) \/ Go(t, "fc_revert", m)
    BY <1>8, <2>1 DEF FinalizeRead, Return, Goto
  <2>4. rows' \subseteq m.todo
    BY <1>1, <1>8, <2>1, <2>2 DEF FinalizeRead, store
  <2>5. CASE Go(t, loc[t].ret, loc[t])
    <3>1. PICK q, n : q = loc[t].ret /\ n = loc[t]
      OBVIOUS
    <3> QED
      BY <1>4, <1>6, <1>7, <2>5, <3>1
  <2> QED
    BY <1>6, <2>2, <2>3, <2>4, <2>5
<1>9. CASE FinalizeRevert(t)
  <2>1. rows' = {} /\ Go(t, "fc_runs", loc[t])
    BY <1>1, <1>9 DEF FinalizeRevert, Goto, Clean
  <2> QED
    BY <1>6, <1>7, <2>1
<1>10. CASE FinalizeRuns(t)
  <2>1. rows' = {} /\ Go(t, "fc_batch", loc[t])
    BY <1>1, <1>10 DEF FinalizeRuns, Goto, Clean
  <2> QED
    BY <1>6, <1>7, <2>1
<1>11. CASE FinalizeBatch(t)
  <2>1. Go(t, loc[t].ret, loc[t])
    BY <1>11 DEF FinalizeBatch, Return, Goto
  <2>2. PICK q, n : q = loc[t].ret /\ n = loc[t]
    OBVIOUS
  <2> QED
    BY <1>4, <1>6, <1>7, <2>1, <2>2
<1> QED
  BY <1>8, <1>9, <1>10, <1>11 DEF Finalize

(* A step of the job and where it leaves its worker.                        *)
LEMMA WorkIsClean ==
    ASSUME JobsInv, CleanInv, NEW w \in Workers, Work(w) \/ TransformChunk(w), ~Finalize(w), batch.status # "deleted"
    PROVE  \E q, m : /\ Go(w, q, m) /\ Shaped(m) /\ Clean(w, q, m)'
                     /\ q \in Writes => pc[w] \in Writes /\ m.kind = loc[w].kind
<1>1. w \in Threads /\ w \notin Handlers /\ w # Boot /\ Steps(w)
  BY ThreadKinds DEF Steps
<1>2. UNCHANGED queue /\ \E q, m : Leads(w, q, m)
  BY <1>1, StepsQueueNothing DEF JobsInv
<1>3. PICK q, m : /\ Go(w, q, m) /\ Shaped(m) /\ q \notin {"fc_revert", "fc_runs", "fc_batch"}
                  /\ q \in Writes => /\ pc[w] \in Writes /\ m.kind = loc[w].kind
                                     /\ Known(m.kind, m.run)'
                  /\ q = "layout" => m.b.status # "cancelled"
  BY WorkCleans
<1>4. PICK n : Leads(w, q, n)
  BY <1>1, <1>2, <1>3, GoesTo DEF Leads, JobsInv
<1>5. (Carries(w, q) => Carries(w, pc[w])) /\ q \notin {"cancel_request", "enqueue_staged"}
  BY <1>1, <1>4 DEF Leads, Placed, WorkPlaces, IngestPlaces, RunPlaces, FailPlaces, CancelPlaces
<1>6. q \notin Writes => ~Writing'
  BY <1>1, <1>2, <1>3, <1>5, WritingEnds
<1>7. CancelPlaces \cap Writes = {}
  BY DEF CancelPlaces, Writes, IngestPlaces, RunPlaces
<1>8. Clean(w, q, m)'
  BY <1>1, <1>3, <1>5, <1>6, <1>7 DEF Clean
<1> QED
  BY <1>3, <1>8

(* A step of a request and where it leaves its thread.  One request thread: *)
(* nobody is queueing the job between the check of the registries and the   *)
(* cancellation.                                                            *)
LEMMA HandleIsClean ==
    ASSUME JobsInv, CleanInv, NEW h \in Handlers, Handle(h), ~EnqueueUpload(h), ~Finalize(h),
           \A g \in Handlers : g = h, batch.status # "deleted"
    PROVE  \E q, m : Go(h, q, m) /\ Shaped(m) /\ Clean(h, q, m)'
<1>1. /\ h \in Threads /\ h \notin Workers /\ h # Boot /\ Steps(h) /\ loc[h] \in Locals
      /\ pc[h] \in HandlerPlaces /\ pc[h] # "idle" /\ loc[h].ret = "idle" /\ Clean(h, pc[h], loc[h])
      /\ pc[h] \in {"evaluate", "qa_read", "qa_save"} => loc[h].kind = "evaluate"
  BY ThreadKinds, ThreadFacts, StepsAreAwake DEF Steps, JobsInv, PlacesInv, Placed, CleanInv
<1>2. PICK q, m : Leads(h, q, m)
  BY <1>1, StepsQueueNothing DEF JobsInv
<1>3. UNCHANGED queue /\ Go(h, q, m) /\ Shaped(m) /\ Placed(h, q, m) /\ (Carries(h, q) => Carries(h, pc[h]))
  BY <1>1, <1>2, StepsQueueNothing DEF JobsInv, Leads
<1>4. (Writing' => Writing) /\ (StagedJob' => StagedJob)
  BY <1>1, <1>3, WritingEnds
<1>5. q \notin {"layout", "enqueue_staged"}
  BY <1>1, <1>3 DEF Placed, HandlerPlaces, Calls
<1>6. ASSUME NEW x, NEW l, Go(h, x, l), x \notin {"cancel_request", "qa_save"} \cup CancelPlaces
      PROVE  \E p, n : Go(h, p, n) /\ Shaped(n) /\ Clean(h, p, n)'
  <2>1. x = q
    BY <1>1, <1>3, <1>6, GoesTo DEF JobsInv
  <2>2. Clean(h, q, m)'
    BY <1>1, <1>5, <1>6, <2>1 DEF Clean, CancelPlaces
  <2> QED
    BY <1>3, <2>2
<1>7. CASE CancelRunning(h)
  <2>1. PICK b, n : b = LocallyRunning /\ n = [loc[h] EXCEPT !.running = b]
    OBVIOUS
  <2>2. Shaped(n) /\ n.running = b /\ Go(h, "cancel_request", n) /\ pc[h] = "cancel_running"
    BY <1>1, <1>7, <2>1 DEF CancelRunning, Shaped, Locals
  <2>3. pc[Boot] = "idle" /\ \A g \in Handlers : pc[g] # "enqueue"
    BY <1>1, <2>2 DEF JobsInv, JobInv
  <2>4. Writing => n.running
    BY <2>1, <2>2, <2>3, WritingIsKnown
  <2>5. Clean(h, "cancel_request", n)'
    BY <1>1, <1>4, <2>4 DEF Clean, CancelPlaces
  <2> QED
    BY <2>2, <2>5
<1>8. CASE CancelRequest(h)
  <2>1. CASE loc[h].running
    <3>1. Go(h, "idle", loc[h])
      BY <1>8, <2>1 DEF CancelRequest, Goto
    <3> QED
      BY <1>6, <3>1 DEF CancelPlaces
  <2>2. CASE ~loc[h].running
    <3>1. PICK l : l = loc[h]
      OBVIOUS
    <3>2. Go(h, "fc_read", l) /\ Shaped(l) /\ pc[h] = "cancel_request"
      BY <1>1, <1>8, <2>2, <3>1 DEF CancelRequest, Goto, Shaped, Locals
    <3>3. ~Writing
      BY <1>1, <2>2, <3>2 DEF Clean
    <3>4. Clean(h, "fc_read", l)'
      BY <1>1, <1>4, <3>3 DEF Clean
    <3> QED
      BY <3>2, <3>4
  <2> QED
    BY <2>1, <2>2
<1>9. CASE ReadForVerdict(h)
  <2>1. PICK rec, n : rec = run[loc[h].run] /\ n = [loc[h] EXCEPT !.r = rec]
    OBVIOUS
  <2>2. Shaped(n) /\ n.run = loc[h].run /\ n.r = rec
    BY <1>1, <2>1 DEF Shaped, Locals
  <2>3. Go(h, "qa_save", n) /\ UNCHANGED <<run, reproc>>
    BY <1>9, <2>1 DEF ReadForVerdict, store, memory
  <2>4. StagedJob => reproc \in Active
    BY WritingIsKnown
  <2>5. StagedJob' /\ n.run = reproc' => n.r.status \in {"pending", "running"}
    BY <1>4, <2>1, <2>2, <2>3, <2>4 DEF Active
  <2>6. Clean(h, "qa_save", n)'
    BY <1>1, <2>5 DEF Clean, CancelPlaces
  <2> QED
    BY <2>2, <2>3, <2>6
<1>10. CASE CancelRead(h) \/ DeleteRead(h) \/ DeleteRunning(h) \/ DeleteCheck(h)
  <2>1. \E x, l : x \in {"idle", "cancel_running", "delete_running", "delete_check", "delete_revert"} /\ Go(h, x, l)
    BY <1>10 DEF CancelRead, DeleteRead, DeleteRunning, DeleteCheck, Goto
  <2> QED
    BY <1>6, <2>1 DEF CancelPlaces
<1>11. CASE DeleteRevert(h) \/ DeleteRecord(h)
  <2>1. \E x, l : x \in {"idle", "delete_record"} /\ Go(h, x, l)
    BY <1>11 DEF DeleteRevert, DeleteRecord, Goto
  <2> QED
    BY <1>6, <2>1 DEF CancelPlaces
<1>12. CASE Publish(h) \/ PublishRefused(h) \/ PublishCreate(h) \/ Evaluate(h)
  <2>1. CASE Publish(h) \/ Evaluate(h)
    <3>1. PICK x, n : /\ \/ Go(h, "publish_create", n) \/ Go(h, "idle", n) \/ Go(h, "qa_read", n)
                      /\ n = loc[h] \/ n = [loc[h] EXCEPT !.run = x]
      BY <2>1 DEF Publish, Evaluate, Goto
    <3> QED
      BY <1>6, <3>1 DEF CancelPlaces
  <2>2. CASE PublishRefused(h) \/ PublishCreate(h)
    <3>1. Go(h, "idle", loc[h])
      BY <2>2 DEF PublishRefused, PublishCreate, Goto
    <3> QED
      BY <1>6, <3>1 DEF CancelPlaces
  <2> QED
    BY <1>12, <2>1, <2>2
<1>13. CASE SaveVerdict(h)
  <2>1. Go(h, "idle", loc[h])
    BY <1>1, <1>13 DEF SaveVerdict, Goto
  <2> QED
    BY <1>6, <2>1 DEF CancelPlaces
<1>14. ~Poll(h) /\ ~Reprocess(h) /\ ~Recover(h)
  BY <1>1 DEF HandlerPlaces, Calls, Poll, Reprocess, Recover, FindActive, CheckRunning, FailZombie,
     AddRecoveryRun, EnqueueStaged
<1> QED
  BY <1>7, <1>8, <1>9, <1>10, <1>11, <1>12, <1>13, <1>14 DEF Handle, Verdict

(* A step of the lifespan hook and where it leaves its thread.              *)
LEMMA RecoverIsClean ==
    ASSUME JobsInv, CleanInv, Recover(Boot), ~EnqueueUpload(Boot), ~EnqueueStaged(Boot)
    PROVE  \E q, m : Go(Boot, q, m) /\ Shaped(m) /\ Clean(Boot, q, m)'
<1>1. /\ Boot \in Threads /\ Boot \notin Workers \cup Handlers /\ loc[Boot] \in Locals /\ run \in [Runs -> Record]
      /\ Placed(Boot, pc[Boot], loc[Boot])
  BY ThreadKinds, ThreadFacts DEF JobsInv, PlacesInv, UploadInv, StoreInv
<1>2. PICK q, m : Leads(Boot, q, m)
  BY StepsQueueNothing, <1>1 DEF JobsInv
<1>3. Go(Boot, q, m) /\ Shaped(m) /\ q \in BootPlaces
  BY <1>1, <1>2 DEF Leads, Placed
<1>4. CASE q # "enqueue_staged"
  <2>1. Clean(Boot, q, m)'
    BY <1>1, <1>3, <1>4 DEF Clean, BootPlaces, CancelPlaces
  <2> QED
    BY <1>3, <2>1
<1>5. CASE q = "enqueue_staged"
  <2>1. AddRecoveryRun(Boot)
    <3>1. pc'[Boot] = "enqueue_staged"
      BY <1>1, <1>3, <1>5, GoesTo DEF JobsInv
    <3>2. ASSUME NEW x, NEW l, Go(Boot, x, l) PROVE x = "enqueue_staged"
      BY <1>1, <3>1, <3>2, GoesTo DEF JobsInv
    <3>3. ~FindActive(Boot)
      <4>1. "enqueue_staged" # AfterCheck(Boot)
        BY DEF AfterCheck
      <4> SUFFICES ASSUME FindActive(Boot) PROVE FALSE
        OBVIOUS
      <4>2. PICK x, l : Go(Boot, x, l) /\ x \in {"idle", AfterCheck(Boot), "check_running"}
        BY DEF FindActive, Goto
      <4> QED
        BY <3>2, <4>1, <4>2
    <3>4. ~CheckRunning(Boot)
      <4> SUFFICES ASSUME CheckRunning(Boot) PROVE FALSE
        OBVIOUS
      <4>1. PICK x, l : Go(Boot, x, l) /\ x \in {"idle", "zombie"}
        BY DEF CheckRunning, Goto
      <4> QED
        BY <3>2, <4>1
    <3>5. ~FailZombie(Boot)
      <4> SUFFICES ASSUME FailZombie(Boot) PROVE FALSE
        OBVIOUS
      <4>1. PICK x, l : Go(Boot, x, l) /\ x = loc[Boot].ret
        BY DEF FailZombie
      <4> QED
        BY <1>1, <3>2, <4>1 DEF Placed
    <3> QED
      BY <3>3, <3>4, <3>5 DEF Recover
  <2>2. PICK r, n : r = NextRun /\ n = [loc[Boot] EXCEPT !.run = r]
    OBVIOUS
  <2>3. Shaped(n) /\ n.run = r
    BY <1>1, <2>2 DEF Shaped, Locals
  <2>4. ~Gone
    <3>1. Gone => Go(Boot, "idle", loc[Boot])
      BY <2>1 DEF AddRecoveryRun, Goto
    <3>2. ~Go(Boot, "idle", loc[Boot])
      BY <1>1, <1>3, <1>5, GoesTo DEF JobsInv
    <3> QED
      BY <3>1, <3>2
  <2>5. AddRun(r) /\ pc[Boot] \in {"archive_add", "staged_add"}
    BY <2>1, <2>2, <2>4 DEF AddRecoveryRun
  <2>6. pc[Boot] = "staged_add"
    BY <1>1, <2>5 DEF Placed, BootPlaces
  <2>7. Go(Boot, "enqueue_staged", n)
    BY <2>1, <2>2, <2>4, <2>6 DEF AddRecoveryRun
  <2>8. r \in Active'
    <3>1. PICK rec : rec = [Absent EXCEPT !.status = "pending"]
      OBVIOUS
    <3>2. rec.status = "pending"
      BY <3>1 DEF Absent
    <3>3. run' = [run EXCEPT ![r] = rec] /\ r \in Runs
      BY <2>5, <3>1 DEF AddRun
    <3> QED
      BY <1>1, <3>2, <3>3 DEF Active
  <2>9. Clean(Boot, "enqueue_staged", n)'
    BY <1>1, <2>3, <2>8 DEF Clean, CancelPlaces
  <2> QED
    BY <2>3, <2>7, <2>9
<1> QED
  BY <1>4, <1>5

(* What holds of the other threads outlasts a step.                         *)
LEMMA OthersAreClean ==
    ASSUME JobsInv, CleanInv, NEW t \in Threads, Steps(t), ~EnqueueUpload(t), ~EnqueueStaged(t),
           batch.status # "deleted", batch'.status # "deleted", Writing' => Writing, StagedJob' => StagedJob,
           NEW u \in Threads, u # t
    PROVE  Clean(u, pc[u], loc[u])' \/ pc'[u] # pc[u] \/ loc'[u] # loc[u]
<1> SUFFICES ASSUME NEW p, NEW l, p = pc[u], l = loc[u] PROVE Clean(u, p, l)'
  <2>1. PICK p, l : p = pc[u] /\ l = loc[u]
    OBVIOUS
  <2> QED
    BY <2>1
<1>1. /\ Clean(u, p, l) /\ Placed(u, p, l) /\ pc[t] # "idle" /\ Placed(t, pc[t], loc[t])
      /\ RowsEffect(t) /\ MemoryEffect(t)
  BY StepsAreAwake, RowsAndRegistries DEF CleanInv, JobsInv, PlacesInv, Steps
<1>2. Boot # u \/ p = "idle"
  <2>1. CASE u = Boot /\ p # "idle"
    <3>1. Carries(u, pc[u]) /\ t \notin Handlers
      BY <1>1, <2>1, ThreadKinds DEF JobsInv, JobInv, Carries
    <3>2. Carries(t, pc[t])
      BY <1>1, <3>1 DEF Carries
    <3> QED
      BY <3>1, <3>2 DEF JobsInv, JobInv
  <2> QED
    BY <2>1
<1>3. pc[t] = "chunk" /\ t \in Workers => Writing
  BY ThreadKinds DEF Writing, Carries, Writes, RunPlaces
<1>4. p \in {"fc_revert", "fc_runs", "fc_batch"} => rows' \subseteq rows
  BY <1>1, <1>3 DEF RowsEffect, Clean, CancelPlaces
<1>5. p # "enqueue_staged"
  BY <1>1, <1>2 DEF Placed, Threads, HandlerPlaces, Calls, WorkPlaces, IngestPlaces, RunPlaces, FailPlaces, CancelPlaces
<1>6. u \in Workers /\ p \in Writes => Known(l.kind, l.run)'
  <2> SUFFICES ASSUME u \in Workers, p \in Writes PROVE Known(l.kind, l.run)'
    OBVIOUS
  <2>1. Writing /\ Carries(u, pc[u])
    BY ThreadKinds DEF Writing, Carries, Writes, IngestPlaces, RunPlaces
  <2>2. t \in Handlers /\ Handle(t)
    BY <1>1, <2>1, ThreadKinds DEF JobsInv, JobInv, Carries, Steps
  <2>3. l.kind = "staged" => StagedJob
    BY <1>1 DEF StagedJob, Placed, Writes
  <2>4. Known(l.kind, l.run) /\ l.run \in Runs \cup {NoRun}
    BY <1>1, ThreadFacts DEF Clean, JobsInv, Locals
  <2> QED
    BY <2>1, <2>2, <2>3, <2>4, RequestsForgetNothing
<1>7. p = "qa_save" => (l.run = reproc' => l.run = reproc)
  <2>1. p = "qa_save" => p \in SavesRun
    BY DEF SavesRun
  <2>2. p \in SavesRun => Named(l.run)
    BY ThreadFacts DEF JobsInv, Held
  <2>3. NoRun \notin Runs
    BY DEF NoRun, Runs
  <2> QED
    BY <1>1, <2>1, <2>2, <2>3 DEF MemoryEffect, Named
<1> QED
  BY <1>1, <1>4, <1>5, <1>6, <1>7 DEF Clean

(* A step of a thread that queues no job.                                   *)
LEMMA StepIsClean ==
    ASSUME JobsInv, CleanInv, \A g, h \in Handlers : g = h, NEW t \in Threads,
           \/ t \in Workers /\ (Work(t) \/ TransformChunk(t))
           \/ t \in Handlers /\ Handle(t) /\ ~EnqueueUpload(t)
           \/ t = Boot /\ Recover(t) /\ ~EnqueueUpload(t) /\ ~EnqueueStaged(t)
    PROVE  CleanInv'
<1> SUFFICES ASSUME batch'.status # "deleted" PROVE CleanInv'
  BY DEF CleanInv
<1>1. /\ Steps(t) /\ UNCHANGED queue /\ (\E q, m : Leads(t, q, m)) /\ ~EnqueueUpload(t) /\ ~EnqueueStaged(t)
      /\ BatchEffect(t) /\ RowsEffect(t) /\ pc[t] # "idle" /\ Placed(t, pc[t], loc[t])
  <2>1. Steps(t) /\ UNCHANGED queue /\ (\E q, m : Leads(t, q, m)) /\ Placed(t, pc[t], loc[t])
    BY StepsQueueNothing DEF Steps, JobsInv, PlacesInv
  <2>2. ~EnqueueStaged(t) /\ ~EnqueueUpload(t)
    BY <2>1, ThreadKinds DEF EnqueueStaged, EnqueueUpload, Placed, HandlerPlaces, Calls, WorkPlaces, IngestPlaces,
       RunPlaces, FailPlaces, CancelPlaces
  <2> QED
    BY <2>1, <2>2, BatchEffects, RowsAndRegistries, StepsAreAwake DEF JobsInv, Steps
<1>2. batch.status # "deleted"
  BY <1>1 DEF BatchEffect, Gone
<1>3. Clean(t, pc[t], loc[t])
  BY <1>2 DEF CleanInv
<1>4. PICK q, m : /\ Go(t, q, m) /\ Shaped(m) /\ Clean(t, q, m)'
                  /\ t \in Workers /\ q \in Writes => pc[t] \in Writes /\ m.kind = loc[t].kind
  <2>1. CASE Finalize(t)
    BY <1>1, <1>2, <2>1, FinalizeCleans
  <2>2. CASE ~Finalize(t)
    BY <1>1, <1>2, <2>2, WorkIsClean, HandleIsClean, RecoverIsClean, ThreadKinds
  <2> QED
    BY <2>1, <2>2
<1>5. Carries(t, q) => Carries(t, pc[t])
  BY <1>1, <1>4, GoesTo DEF Leads, JobsInv
<1>6. (Writing' => Writing) /\ (StagedJob' => StagedJob)
  BY <1>1, <1>4, <1>5, WritingEnds
<1>7. /\ pc'[t] = q /\ \A u \in Threads : u # t => pc'[u] = pc[u] /\ loc'[u] = loc[u]
      /\ q # "idle" => loc'[t].kind = m.kind /\ loc'[t].run = m.run /\ loc'[t].running = m.running
      /\ q \notin Fresh /\ q # "idle" => loc'[t] = m
  BY <1>4, AfterGo DEF JobsInv
<1>8. Clean(t, pc[t], loc[t])'
  <2>1. {"fc_revert", "layout", "qa_save"} \cap Fresh = {}
    BY DEF Fresh
  <2>2. "idle" \notin Writes \cup CancelPlaces
    BY DEF Writes, IngestPlaces, RunPlaces, CancelPlaces
  <2> QED
    BY <1>4, <1>7, <2>1, <2>2 DEF Clean
<1>9. \A u \in Threads : Clean(u, pc[u], loc[u])'
  BY <1>1, <1>2, <1>6, <1>7, <1>8, OthersAreClean
<1>10. queue' # <<>> => Known(queue[1].kind, queue[1].run)'
  <2> SUFFICES ASSUME queue # <<>> PROVE Known(queue[1].kind, queue[1].run)'
    BY <1>1
  <2>1. PICK job : job = queue[1] /\ job = queue'[1]
    BY <1>1
  <2>2. ~Carries(t, pc[t]) /\ Writing /\ Known(job.kind, job.run) /\ job \in Jobs
    <3>1. ~Carries(t, pc[t]) /\ Writing /\ Known(queue[1].kind, queue[1].run)
      BY <1>2 DEF JobsInv, JobInv, AtWork, CleanInv, Writing
    <3>2. queue \in Seq(Jobs) /\ Len(queue) = 1
      BY DEF JobsInv, JobInv, UploadInv, MemoryInv
    <3>3. queue[1] \in Jobs
      BY <3>2
    <3> QED
      BY <2>1, <3>1, <3>3
  <2>3. t \in Handlers /\ Handle(t) /\ (job.kind = "staged" => StagedJob)
    BY <1>1, <2>1, <2>2, ThreadKinds DEF Carries, Steps, StagedJob
  <2>4. Known(job.kind, job.run)'
    BY <1>1, <1>2, <2>2, <2>3, RequestsForgetNothing DEF Jobs
  <2> QED
    BY <2>1, <2>4
<1>11. pc[t] = "chunk" /\ t \in Workers => Writing
  BY ThreadKinds DEF Writing, Carries, Writes, RunPlaces
<1>12. Writing => batch'.status # "cancelled"
  BY <1>1, <1>2, <1>3 DEF BatchEffect, CleanInv, Clean, CancelPlaces
<1>13. batch'.status = "cancelled" => rows' = {}
  <2> SUFFICES ASSUME batch'.status = "cancelled" PROVE rows' = {}
    OBVIOUS
  <2>1. rows' \subseteq rows
    BY <1>1, <1>11, <1>12 DEF RowsEffect
  <2>2. rows = {}
    BY <1>1, <1>2, <1>3 DEF BatchEffect, CleanInv, Clean
  <2> QED
    BY <2>1, <2>2
<1> QED
  BY <1>6, <1>9, <1>10, <1>12, <1>13 DEF CleanInv

(* Cancelling leaves no row behind a writer: every step keeps that.         *)
LEMMA CleanStep ==
    ASSUME JobsInv, CleanInv, \A g, h \in Handlers : g = h, [Next]_vars
    PROVE  CleanInv'
<1>1. /\ JobsInv' /\ batch \in Batches /\ UploadInv
      /\ \A t \in Threads : batch.status # "deleted" => Clean(t, pc[t], loc[t])
  BY JobsStep DEF JobsInv, UploadInv, StoreInv, CleanInv
<1>2. {"idle", "check", "enqueue", "fin"} \cap (Writes \cup CancelPlaces) = {} /\ Calls \cap (Writes \cup CancelPlaces) = {}
      /\ {"idle", "enqueue", "check", "fin"} \cap RunPlaces = {}
  BY DEF Writes, CancelPlaces, Calls, IngestPlaces, RunPlaces
<1>3. CASE Restart
  <2>1. /\ \A t \in Threads : pc'[t] \in {"idle", "check"} /\ (pc'[t] = "check" => t = Boot /\ BootResumes')
        /\ UNCHANGED <<batch, rows>> /\ queue' = <<>>
    BY <1>3 DEF Restart
  <2>2. Writing' => batch'.status # "cancelled"
    BY <2>1 DEF Writing, Carries, BootResumes, Cancelled
  <2>3. \A t \in Threads : Clean(t, pc[t], loc[t])'
    BY <1>2, <2>1 DEF Clean
  <2> QED
    BY <2>1, <2>2, <2>3 DEF CleanInv
<1>4. ASSUME NEW h \in Handlers, AcceptUpload(h) PROVE CleanInv'
  <2>1. PICK m : m = [Blank EXCEPT !.kind = "upload"]
    OBVIOUS
  <2>2. Shaped(m)
    BY <2>1 DEF Shaped, Blank
  <2>3. Go(h, "enqueue", m) /\ batch.status = "none" /\ batch'.status = "received" /\ UNCHANGED queue
    BY <1>1, <1>4, <2>1 DEF AcceptUpload, memory, Batches
  <2>4. /\ pc'[h] = "enqueue" /\ \A u \in Threads : u # h => pc'[u] = pc[u]
        /\ queue = <<>> /\ (\A u \in Threads : pc[u] = "idle") /\ h \notin Workers
    BY <1>1, <2>2, <2>3, AfterGo, ThreadKinds DEF JobsInv, JobInv
  <2>5. \A t \in Threads : Clean(t, pc[t], loc[t])'
    BY <1>2, <2>4 DEF Clean
  <2> QED
    BY <2>3, <2>4, <2>5 DEF CleanInv
<1>5. ASSUME NEW h \in Handlers, NEW kind \in arriving, Request(h, kind) PROVE CleanInv'
  <2>1. PICK m : m = [Blank EXCEPT !.kind = kind]
    OBVIOUS
  <2>2. Shaped(m)
    BY <2>1 DEF Shaped, Blank
  <2>3. Go(h, kind, m) /\ UNCHANGED <<batch, run, rows, inflight, reproc, queue>> /\ kind \in Calls /\ pc[h] = "idle"
    BY <1>5, <2>1 DEF Request, store, memory, JobsInv, PlacesInv
  <2>4. /\ pc'[h] = kind /\ \A u \in Threads : u # h => pc'[u] = pc[u] /\ loc'[u] = loc[u]
        /\ h \in Threads /\ h \notin Workers /\ h # Boot
    BY <1>1, <2>2, <2>3, AfterGo, ThreadKinds
  <2>5. (Writing' => Writing) /\ (StagedJob' => StagedJob)
    BY <1>2, <2>3, <2>4, ThreadKinds DEF Writing, StagedJob, Carries, Calls
  <2>6. ASSUME batch.status # "deleted", NEW u \in Threads PROVE Clean(u, pc[u], loc[u])'
    <3>1. CASE u = h
      BY <1>2, <2>3, <2>4, <3>1 DEF Clean, Calls
    <3>2. CASE u # h
      BY <1>1, <2>3, <2>4, <2>5, <2>6, <3>2 DEF Clean, Known, Active
    <3> QED
      BY <3>1, <3>2
  <2> QED
    BY <2>3, <2>5, <2>6 DEF CleanInv, Known, Active
<1>6. ASSUME NEW w \in Workers, TakeJob(w) PROVE CleanInv'
  <2>1. PICK m, q : /\ Shaped(m) /\ m.kind = queue[1].kind /\ m.run = queue[1].run /\ Go(w, q, m)
                    /\ q \in {"fin", "at_ingest", "reset", "at_staged"} /\ (q # "at_staged" => q \notin RunPlaces)
    BY <1>6, JobTaken DEF JobsInv, RunPlaces
  <2>2. /\ queue' = <<>> /\ queue # <<>> /\ UNCHANGED <<batch, run, rows, inflight, reproc>>
        /\ w \in Threads /\ w # Boot /\ w \notin Handlers /\ \A u \in Threads : ~Carries(u, pc[u])
    BY <1>6, JobTaken, ThreadKinds DEF JobsInv, TakeJob, store
  <2>3. /\ pc'[w] = q /\ loc'[w].kind = m.kind /\ loc'[w].run = m.run
        /\ \A u \in Threads : u # w => pc'[u] = pc[u] /\ loc'[u] = loc[u]
    BY <1>1, <2>1, <2>2, AfterGo
  <2>4. Writing
    BY <2>2 DEF Writing
  <2>5. StagedJob' => StagedJob
    <3>1. \A v \in Workers : v # w => pc'[v] = "idle"
      BY <2>2, <2>3, ThreadKinds DEF Carries
    <3> QED
      BY <1>2, <2>1, <2>2, <2>3, <3>1 DEF StagedJob
  <2>6. ASSUME batch.status # "deleted", NEW u \in Threads PROVE Clean(u, pc[u], loc[u])'
    <3>1. CASE u = w
      <4>1. Known(m.kind, m.run)'
        BY <2>1, <2>2, <2>6 DEF CleanInv, Known, Active
      <4>2. q \notin CancelPlaces
        BY <2>1 DEF CancelPlaces
      <4> QED
        BY <2>1, <2>2, <2>3, <3>1, <4>1, <4>2 DEF Clean
    <3>2. CASE u # w
      <4>1. u \in Workers => pc[u] = "idle"
        BY <2>2, ThreadKinds DEF Carries
      <4> QED
        BY <1>1, <1>2, <2>2, <2>3, <2>4, <2>5, <2>6, <3>2, <4>1 DEF Clean, Active
    <3> QED
      BY <3>1, <3>2
  <2> QED
    BY <2>2, <2>4, <2>6 DEF CleanInv
<1>7. ASSUME NEW t \in Handlers \cup {Boot}, EnqueueUpload(t) \/ EnqueueStaged(t) PROVE CleanInv'
  <2>1. queue = <<>> /\ Len(queue) = 0 /\ Carries(t, pc[t]) /\ \A u \in Threads : ~Carries(u, pc'[u])
    BY <1>7, JobQueued DEF JobsInv
  <2>2. UNCHANGED <<batch, run, rows>> /\ t \in Threads /\ t \notin Workers /\ Go(t, "idle", loc[t]) /\ Shaped(loc[t])
    BY <1>7, ThreadKinds, ThreadFacts DEF EnqueueUpload, EnqueueStaged, store, Goto, JobsInv, Shaped, Locals
  <2>3. PICK job : /\ queue' = Append(queue, job)
                   /\ \/ job.run = NoRun /\ job.kind # "staged" /\ pc[t] = "enqueue" /\ inflight' = TRUE
                      \/ /\ job.run = loc[t].run /\ pc[t] = "enqueue_staged"
                         /\ job.kind = "staged" /\ reproc' = loc[t].run
    BY <1>7 DEF EnqueueUpload, EnqueueStaged, Enqueue
  <2>4. queue'[1] = job /\ queue' # <<>>
    BY <2>1, <2>3
  <2>5. /\ pc'[t] = "idle" /\ \A u \in Threads : u # t => pc'[u] = pc[u] /\ loc'[u] = loc[u]
    BY <1>1, <2>2, AfterGo
  <2>6. Writing
    BY <2>1, <2>2 DEF Writing
  <2>7. pc[t] = "enqueue_staged" => t = Boot /\ \A h \in Handlers : pc[h] = "idle"
    <3>1. pc[t] = "enqueue_staged" => t \notin Handlers
      BY DEF JobsInv, PlacesInv, Placed, HandlerPlaces, Calls, Threads
    <3> QED
      BY <3>1 DEF JobsInv, JobInv
  <2>8. StagedJob' => \A h \in Handlers : pc'[h] # "qa_save"
    <3>1. \A w \in Workers : pc'[w] = "idle"
      BY <2>1, ThreadKinds DEF Carries
    <3>2. StagedJob' => job.kind = "staged"
      BY <1>2, <2>4, <3>1 DEF StagedJob
    <3> QED
      BY <2>3, <2>5, <2>7, <3>2, ThreadKinds
  <2>9. ASSUME batch.status # "deleted", NEW u \in Threads PROVE Clean(u, pc[u], loc[u])'
    <3>1. CASE u = t
      BY <1>2, <2>2, <2>5, <3>1 DEF Clean
    <3>2. CASE u # t
      <4>1. (u \in Workers \cup {Boot} => pc[u] = "idle") /\ pc'[u] = pc[u] /\ loc'[u] = loc[u]
        BY <2>1, <2>5, <3>2, ThreadKinds DEF Carries
      <4> QED
        BY <1>1, <1>2, <2>2, <2>6, <2>8, <2>9, <4>1 DEF Clean, Active
    <3> QED
      BY <3>1, <3>2
  <2>10. batch.status # "deleted" => Known(job.kind, job.run)'
    <3>1. CASE job.kind = "staged"
      BY <1>1, <2>2, <2>3, <3>1 DEF Known, Active, Clean
    <3>2. CASE job.kind # "staged"
      <4>1. inflight'
        BY <2>3, <3>2
      <4> QED
        BY <3>2, <4>1 DEF Known
    <3> QED
      BY <3>1, <3>2
  <2> QED
    BY <2>2, <2>4, <2>6, <2>9, <2>10 DEF CleanInv
<1>8. ASSUME NEW t \in Threads,
             \/ t \in Workers /\ (Work(t) \/ TransformChunk(t))
             \/ t \in Handlers /\ Handle(t) /\ ~EnqueueUpload(t)
             \/ t = Boot /\ Recover(t) /\ ~EnqueueUpload(t) /\ ~EnqueueStaged(t)
      PROVE  CleanInv'
  BY <1>8, StepIsClean
<1>9. CASE UNCHANGED vars
  BY <1>9 DEF vars, CleanInv, Clean, Writing, StagedJob, Carries, Known, Active
<1> QED
  BY <1>3, <1>4, <1>5, <1>6, <1>7, <1>8, <1>9, ThreadKinds DEF Next

(* Cancelling discards the work, for one request thread and without polls   *)
(* and reprocess requests: whoever finalized the cancellation, no row of a  *)
(* run is left when everything is quiet, nor earlier.                       *)
THEOREM CancellingLeavesNoRows ==
    ASSUME Mixes \subseteq SUBSET Calls, \A g, h \in Handlers : g = h
    PROVE  Spec => []CancelledHasNoRows
<1>1. Init => JobsInv /\ CleanInv
  <2> SUFFICES ASSUME Init PROVE JobsInv /\ CleanInv
    OBVIOUS
  <2>1. JobsInv
    BY JobsStart
  <2>2. queue = <<>> /\ rows = {} /\ \A t \in Threads : pc[t] = "idle"
    BY DEF Init
  <2>3. "idle" \notin Writes \cup CancelPlaces
    BY DEF Writes, CancelPlaces, IngestPlaces, RunPlaces
  <2>4. ~Writing /\ \A t \in Threads : Clean(t, pc[t], loc[t])
    BY <2>2, <2>3 DEF Writing, Carries, Clean
  <2> QED
    BY <2>1, <2>2, <2>4 DEF CleanInv
<1>2. JobsInv /\ CleanInv /\ [Next]_vars => JobsInv' /\ CleanInv'
  BY JobsStep, CleanStep
<1>3. CleanInv => CancelledHasNoRows
  BY DEF CleanInv, CancelledHasNoRows
<1> QED
  BY <1>1, <1>2, <1>3, PTL DEF Spec
=============================================================================
