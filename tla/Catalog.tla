------------------------------- MODULE Catalog -------------------------------
(***************************************************************************)
(* The configuration catalog of one client and the runs that use it:       *)
(* publishers import, activate and deactivate Logic and Labels versions    *)
(* (catalog_service.py, catalog_store.py: READ COMMITTED transactions with *)
(* no lock of their own) while a run binds its versions, transforms its    *)
(* rows one by one and is given its verdict, and is run again              *)
(* (pipeline.py, engine.py, labels.py, qa_workflow.py, upload_service.py). *)
(***************************************************************************)
EXTENDS QaRules, Integers, Sequences, FiniteSets

CONSTANTS
    Publishers,
    Logic, Labels,   \* the uploads of each kind
    UploadedRows,    \* upload -> its rows
    Imported,        \* upload -> its status when the model starts
    Workbooks,       \* the sequences of staged rows to consider
    MaxRuns

Uploads == Logic \cup Labels

\* The id of an upload is a new uuid, no packaged one; windows are of packaged
\* versions; the measures of a staged row are cells.
ASSUME CatalogConstants ==
    /\ IsFiniteSet(Uploads) /\ NoId \notin Uploads /\ Uploads \cap Packaged = {}
    /\ \A v \in Uploads : Imported[v] \in {"absent", "draft", "active", "superseded"}
    /\ \A windows \in {CampaignWindows, TemplateWindows, RateWindows} :
          windows \in Seq(Packaged \X Int \X Int)
    /\ IsFiniteSet(Packaged) /\ NoId \notin Packaged /\ GroupVersion \in Packaged
    /\ \A card \in Packaged : \A rule \in DOMAIN RateRules(card) : NoId # <<card, rule>>
    /\ \A book \in Workbooks :
          /\ book \in Seq(ToSet(book))
          /\ \A row \in ToSet(book), f \in {"sent", "delivered", "conversions", "revenue"} :
                row[f] \in Cells /\ row.start \in StartCells

KindOf(v) == IF v \in Logic THEN Logic ELSE Labels

VARIABLES
    isOwner,   \* the client is the default client, owner of the packaged ids
    version,   \* upload -> [status, created]
    tx,        \* publisher -> its transaction
    staged,    \* the rows of the batch
    rejected,  \* persisted rejections, in order
    facts,     \* grain -> current fact, with its run
    run        \* the latest run

vars == <<isOwner, version, tx, staged, rejected, facts, run>>
catalogVars == <<version, tx>>

NoTx == [step |-> "none"]
NoIds == [campaign |-> NoId, template |-> NoId, rate |-> NoId, group |-> NoId]
NoRun == [no |-> 0, phase |-> "none", at |-> 0, logic |-> NoId, ids |-> NoIds,
          seen |-> {}, extra |-> <<>>, cards |-> {}, status |-> "none", verdict |-> "none"]

-----------------------------------------------------------------------------
(* The catalog *)

\* add_version: a validated file is a draft.
Import(v) ==
    /\ version[v].status = "absent"
    /\ version' = [version EXCEPT ![v] =
           [status |-> "draft",
            created |-> Cardinality({w \in Uploads : version[w].status # "absent"}) + 1]]
    /\ UNCHANGED <<isOwner, tx, staged, rejected, facts, run>>

\* Rows written by a transaction that has not committed are locked.
Locked(v) == \E q \in Publishers : tx[q].step = "set" /\ v \in tx[q].superseded

\* activate: reads the version, drafts only; the rows are never empty.
BeginActivate(p, v) ==
    /\ tx[p] = NoTx
    /\ version[v].status = "draft"
    /\ tx' = [tx EXCEPT ![p] = [step |-> "supersede", v |-> v]]
    /\ UNCHANGED <<isOwner, version, staged, rejected, facts, run>>

\* The UPDATE of the other active versions takes its snapshot.
ScanActive(p) ==
    /\ tx[p].step = "supersede"
    /\ tx' = [tx EXCEPT ![p] = [step |-> "lock", v |-> @.v, targets |->
                  {w \in KindOf(tx[p].v) \ {tx[p].v} : version[w].status = "active"}]]
    /\ UNCHANGED <<isOwner, version, staged, rejected, facts, run>>

\* It waits for locked rows and takes those that are still active.
Supersede(p) ==
    /\ tx[p].step = "lock"
    /\ \A w \in tx[p].targets : ~Locked(w)
    /\ tx' = [tx EXCEPT ![p] = [step |-> "set", v |-> @.v, superseded |->
                  {w \in @.targets : version[w].status = "active"}]]
    /\ UNCHANGED <<isOwner, version, staged, rejected, facts, run>>

\* The version is set active, whatever it has become, and all is committed.
CommitActivate(p) ==
    /\ tx[p].step = "set"
    /\ ~ \E q \in Publishers \ {p} : tx[q].step = "set" /\ tx[p].v \in tx[q].superseded
    /\ version' = [w \in Uploads |->
           IF w = tx[p].v THEN [version[w] EXCEPT !.status = "active"]
           ELSE IF w \in tx[p].superseded THEN [version[w] EXCEPT !.status = "superseded"]
           ELSE version[w]]
    /\ tx' = [tx EXCEPT ![p] = NoTx]
    /\ UNCHANGED <<isOwner, staged, rejected, facts, run>>

\* deactivate: reads the version, active only, then writes it.
BeginDeactivate(p, v) ==
    /\ tx[p] = NoTx
    /\ version[v].status = "active"
    /\ tx' = [tx EXCEPT ![p] = [step |-> "deactivate", v |-> v]]
    /\ UNCHANGED <<isOwner, version, staged, rejected, facts, run>>

CommitDeactivate(p) ==
    /\ tx[p].step = "deactivate"
    /\ ~Locked(tx[p].v)
    /\ version' = [version EXCEPT ![tx[p].v].status = "superseded"]
    /\ tx' = [tx EXCEPT ![p] = NoTx]
    /\ UNCHANGED <<isOwner, staged, rejected, facts, run>>

\* Mutant: the newest version of any status.
NewestFor(kind) ==
    LET some == {v \in kind : version[v].status # "absent"}
    IN  IF some = {} THEN NoId
        ELSE CHOOSE v \in some : \A w \in some : version[w].created <= version[v].created

\* active_for: the newest active version.  Its rows are read in a second
\* transaction, but they never change.
ActiveFor(kind) ==
    LET active == {v \in kind : version[v].status = "active"}
    IN  IF active = {} THEN NoId
        ELSE CHOOSE v \in active : \A w \in active : version[w].created <= version[v].created

-----------------------------------------------------------------------------
(* The runs of the batch *)

\* observed_day_min, over the plain dates of the staged rows.
ObservedDayMin ==
    LET days == {TypedDay(staged[i].day) : i \in DOMAIN staged} \ {NoDay}
    IN  IF days = {} THEN NoDay ELSE CHOOSE d \in days : \A e \in days : d <= e

\* bind_versions_for_day reads the active Logic version ...
BindLogic ==
    /\ run.phase \in {"none", "done"}
    /\ run.no < MaxRuns
    /\ run' = [NoRun EXCEPT !.no = run.no + 1, !.phase = "binding", !.logic = ActiveFor(Logic)]
    /\ UNCHANGED <<isOwner, catalogVars, staged, rejected, facts>>

\* ... then the active Labels version, and the run is created with the ids.
CreateRun ==
    /\ run.phase = "binding"
    /\ run' = [run EXCEPT !.phase = "transforming", !.at = 1,
           !.ids = BindVersions(isOwner, ObservedDayMin, run.logic, ActiveFor(Labels))]
    /\ UNCHANGED <<isOwner, catalogVars, staged, rejected, facts>>

Overlay == [v \in {w \in Uploads : version[w].status # "absent"} |-> UploadedRows[v]]

\* Mutant: binds what is active now.
BindActive(day) ==
    BindForRun(isOwner, BindVersions(isOwner, ObservedDayMin, ActiveFor(Logic), ActiveFor(Labels)),
               Overlay, day)

\* ConfigBinder.for_day.
BindRun(day) == BindForRun(isOwner, run.ids, Overlay, day)

\* iter_staged_for_batch: pages of rows after the number of the last one read.
NextRow == staged[run.at]

AddRejectedRow(rejection) == rejected' = Append(rejected, rejection)

\* _record_rejection of the row just read.
Reject(reason) ==
    LET rejection == [row |-> run.at, reason |-> reason] IN
    /\ IF run.no = 1  \* a reprocess does not persist its rejections
       THEN AddRejectedRow(rejection) /\ run' = [run EXCEPT !.at = @ + 1]
       ELSE run' = [run EXCEPT !.at = @ + 1, !.extra = Append(@, rejection)] /\ UNCHANGED rejected
    /\ UNCHANGED facts

\* transform_row and the loop of run_transformation, for the next row.
TransformRow ==
    /\ run.phase = "transforming"
    /\ run.at \in DOMAIN staged
    /\ LET row == NextRow
           reason == ExtractReason(row)
           bundle == BindRun(row.day.n)
           fact == FactOf(isOwner, row, bundle)
       IN  \/ reason # "none" /\ Reject(reason)
           \/ reason = "none" /\ ~Covered(row.day.n) /\ Reject("NO_CONFIG_VERSION")
           \/ /\ reason = "none" /\ Covered(row.day.n)
              /\ Grain(fact) \in run.seen
              /\ Reject("DUPLICATE_GRAIN_KEY")
           \/ /\ reason = "none" /\ Covered(row.day.n)
              /\ Grain(fact) \notin run.seen
              /\ facts' = [g \in DOMAIN facts \cup {Grain(fact)} |->
                    IF g = Grain(fact) THEN [fact |-> fact, run |-> run.no] ELSE facts[g]]
              /\ run' = [run EXCEPT !.at = @ + 1, !.seen = @ \cup {Grain(fact)},
                                    !.cards = @ \cup {bundle.card}]
              /\ UNCHANGED rejected
    /\ UNCHANGED <<isOwner, catalogVars, staged>>

\* The run fails only if every row was rejected.
EndRun ==
    /\ run.phase = "transforming"
    /\ run.at \notin DOMAIN staged
    /\ run' = [run EXCEPT !.phase = "validating", !.status =
           IF run.seen # {} \/ (rejected = <<>> /\ run.extra = <<>>) THEN "succeeded" ELSE "failed"]
    /\ UNCHANGED <<isOwner, catalogVars, staged, rejected, facts>>

\* for_run: the working set of a run, in one transaction.
FactsOf(no) == {facts[g].fact : g \in {h \in DOMAIN facts : facts[h].run = no}}

\* Mutant: the persisted rejections are not read back.
ExtraOnly(extra) == extra

\* rejected_for_batch, then what the transformation did not persist.
Evidence(extra) == rejected \o extra

VerdictNow(cards, extra) ==
    Verdict(Evidence(extra), FactsOf(run.no), run.status,
            Reconciled(FactsOf(run.no), RateCardLabel(cards, PackagedLabel(run.ids.rate),
                                                      FactsOf(run.no)), run.ids))

\* evaluate_and_persist_run at the end of the transformation ...
Evaluate ==
    /\ run.phase = "validating"
    /\ run' = [run EXCEPT !.phase = "done", !.verdict = VerdictNow(run.cards, run.extra)]
    /\ UNCHANGED <<isOwner, catalogVars, staged, rejected, facts>>

\* ... and again on request, without the rejections of a reprocess.  (Of the
\* latest run; of an earlier one it would change the verdict of that one only.)
Reevaluate ==
    /\ run.phase = "done"
    /\ run' = [run EXCEPT !.extra = <<>>, !.cards = {PackagedLabel(run.ids.rate)} \ {NoId},
                          !.verdict = VerdictNow({PackagedLabel(run.ids.rate)} \ {NoId}, <<>>)]
    /\ UNCHANGED <<isOwner, catalogVars, staged, rejected, facts>>

-----------------------------------------------------------------------------
Init ==
    /\ isOwner \in BOOLEAN
    /\ version = [v \in Uploads |->
           [status |-> Imported[v], created |-> IF Imported[v] = "absent" THEN 0 ELSE 1]]
    /\ tx = [p \in Publishers |-> NoTx]
    /\ staged \in Workbooks
    /\ rejected = <<>>
    /\ facts = <<>>
    /\ run = NoRun

Next ==
    \/ \E v \in Uploads : Import(v)
    \/ \E p \in Publishers, v \in Uploads : BeginActivate(p, v) \/ BeginDeactivate(p, v)
    \/ \E p \in Publishers : \/ ScanActive(p) \/ Supersede(p)
                             \/ CommitActivate(p) \/ CommitDeactivate(p)
    \/ BindLogic
    \/ CreateRun
    \/ TransformRow
    \/ EndRun
    \/ Evaluate
    \/ Reevaluate

Spec == Init /\ [][Next]_vars

-----------------------------------------------------------------------------
TxTypes ==
    {NoTx}
    \cup [step : {"supersede", "deactivate"}, v : Uploads]
    \cup [step : {"lock"}, v : Uploads, targets : SUBSET Uploads]
    \cup [step : {"set"}, v : Uploads, superseded : SUBSET Uploads]

\* Types; the row counter never passes the end of the batch.
TypeOK ==
    /\ isOwner \in BOOLEAN
    /\ version \in [Uploads -> [status : {"absent", "draft", "active", "superseded"},
                                created : 0..Cardinality(Uploads)]]
    /\ tx \in [Publishers -> TxTypes]
    /\ staged \in Workbooks
    /\ \A i \in DOMAIN rejected : rejected[i].row \in DOMAIN staged
    /\ \A g \in DOMAIN facts : facts[g].run \in 1..run.no
    /\ run.phase \in {"none", "binding", "transforming", "validating", "done"}
    /\ run.at \in 0..Len(staged) + 1

KeepsTheVersions(fact) ==
    \E i \in DOMAIN staged :
        /\ Grain(fact) = <<staged[i].campaign_id, VariationIdKey(staged[i].variation),
                           staged[i].day.n>>
        /\ run.ids.campaign \in Logic =>
              /\ fact.ids.campaign = run.ids.campaign
              /\ fact.label = ResolveCampaign(UploadedRows[run.ids.campaign], staged[i].name).label
        /\ run.ids.group \in Labels =>
              /\ fact.ids.group = run.ids.group
              /\ fact.group = ResolveGroup(UploadedRows[run.ids.group], fact.label)

\* Every fact of a run carries the labels and groups of the versions stored
\* on the run, whatever publishers activate while it runs (labels.py:187, "a
\* historical run keeps the Logic/Labels it originally used").
RunKeepsItsVersions == \A fact \in FactsOf(run.no) : KeepsTheVersions(fact)

\* No run is bound to a version nobody activated (pipeline.py, "draft
\* versions are never selected").
BoundWasActivated ==
    \A v \in {run.logic, run.ids.campaign, run.ids.group} \cap Uploads :
        version[v].status \in {"active", "superseded"}

Reconciliation ==
    Reconciled(FactsOf(run.no), RateCardLabel(run.cards, PackagedLabel(run.ids.rate),
                                              FactsOf(run.no)), run.ids)

\* The start date came with another offset than that of the sessions.
StartedElsewhere(fact) == fact.start.kind = "zoned" /\ fact.start.zone # SessionZone

\* The reconciliation recomputes what the engine computed: for any row, any
\* client and any versions, at the first evaluation or later, it fails for one
\* reason only, a start date that was written in another time zone than the
\* one it is read back in (reconcile.py, reconcile_fact and reconcile_run).
ReconcileAgrees ==
    run.phase = "done" /\ Reconciliation = "failed" =>
        \E fact \in FactsOf(run.no) : StartedElsewhere(fact)

\* reconcile.py: "These checks are assertions about the *engine*, not about a
\* particular workbook."  Not so: whatever the engine does, the hour of such a
\* start date is another one when the checks read it back.
ReconcileIsOfTheEngine == run.phase = "done" => Reconciliation # "failed"

\* A verdict that allows publication covers the whole run: no row was
\* rejected for an error of its data and no count or amount is negative,
\* also after a reprocess or a re-evaluation.
PublishableIsClean ==
    run.phase = "done" /\ run.verdict \in Publishable =>
        /\ run.status = "succeeded"
        /\ \A i \in DOMAIN staged : ExtractReason(staged[i]) = "none"
        /\ \A i, j \in DOMAIN staged :
              i # j /\ Covered(staged[i].day.n) =>
                  <<staged[i].campaign_id, staged[i].variation, staged[i].day.n>>
                     # <<staged[j].campaign_id, staged[j].variation, staged[j].day.n>>
        /\ \A i \in DOMAIN staged : Covered(staged[i].day.n) =>
              \A f \in {"sent", "delivered", "conversions", "revenue"} : staged[i][f].n >= 0

\* SCHEMA.md: versions are bound per row day, not per batch; a batch that
\* spans the boundary gets each day's rate card.
RatesFollowTheDay ==
    \A fact \in FactsOf(run.no) : fact.card = SelectVersion(RateWindows, fact.day)
=============================================================================
