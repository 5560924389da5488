# Specifications of DFIP

DFIP takes campaign workbooks of client companies, turns their rows into facts
(one row per campaign, variation and day), checks them, publishes slices of
them, and answers dashboards, questions and spreadsheets from what was
published. These modules specify the parts of it where several requests,
threads, transactions and restarts meet, and the algorithms whose results must
agree with one another. Paths are relative to the repository;
`upload_service.py` and the like are under `packages/api/dfip_api`, stores under
`packages/db/dfip_db`, `transform/`, `ingest/` and `reconcile/` under
`packages/core/dfip_core`, `documentation/` is the repository's.

## 1. Inventory

### 1.1 From a workbook to facts

**Upload lifecycle** (`upload_service.py`, `ingest_store.py`, `ingest/pipeline.py`,
`transform/engine.py`, `qa_workflow.py`, `recovery.py`).
*State*: the `batch` row (status, `cancel_requested`, staged rows, error), its
`processing_run` rows, source files; in the API process the pool's queue,
`_in_flight`, `_reprocess_in_flight`.
*Operations*: accept the files of a request, the pool's jobs (ingest, transform,
verdict, failure and clean-up paths), poll, reprocess, cancel, delete,
re-evaluate, and the start hook that fails abandoned runs and resumes work.
*Hard*: whole rows written from records read earlier; checks in one transaction
and effects in another; cooperative cancellation; a restart that loses the queue
and the registries; a file repeated while its job is at its end.
*Correct when*: nothing accepted is left behind, runs end, a delete is complete,
a cancelled upload leaves no facts, the later file wins.

**Workbook reading** (`ingest/headers.py`, `ingest/reader.py`,
`config/dfip_config/workbook.py`). Pure: where a sheet has its headers, which rows
are staged under which header. *Correct when* a workbook is read exactly if one
of its rows states the contract, and no value lands under another name.

**Configuration catalog, transformation, QA** (`catalog_service.py`,
`catalog_store.py`, `transform/labels.py`, `transform/cost.py`, `qa_workflow.py`,
`qa/`). *State*: label, group and rate versions with their dates and status, the
versions bound to a run, facts, rejected rows, findings. *Hard*: a version is
activated between binding and use; a reprocess or re-evaluation repeats a part
of what the first run did. *Correct when* a run keeps its versions, the
recomputation agrees with the computation, a verdict covers the whole run.

**Fact working set** (`fact_store.py`, contract in `transform/store.py`).
*State*: `fact_campaign_day`, one current row per grain, and its history, each
row stamped with the run that superseded it. *Operations*: `upsert_many` of a
chunk, `revert_run`. *Hard*: uploads overlap, two workers write at once, reverts
go one run per transaction. *Correct when* reverting restores what was there,
references never dangle, nothing is forgotten that was not reverted.

### 1.2 From facts to readers

**Publication** (`publication_service.py`, `publication_store.py`). *State*: the
frozen snapshots, the current pointer, the serving table. *Hard*: READ COMMITTED:
each statement sees what has been committed by then. *Correct when* publications
take effect one at a time and completely, and the serving table is the
newest-wins union of the snapshots.

**Consolidated workbook cache** (`publication_service.py` 562-817,
`packages/web/dfip_web/consolidated_cache.py`). *State*: files named by a
fingerprint of the published history, `_warming`. *Hard*: publications between
fingerprint and rendering; two stores at once; a failed job that blocks later
ones. *Correct when* a warmed workbook shows the present history, one file is
left, warming ends.

**Analytics** (`analytics_service.py`, `packages/analytics`,
`analytics_repository.py`). No state of its own; every answer takes several reads
of the published history. *Hard*: history is rewritten between the reads; rankings
are cut at a limit and the rest must be accounted for; calendar months, buckets
and ranges have to be compared with the right other period. *Correct when*
trends and drilldowns reconcile with the totals, a drilldown opened from a cell
is about that cell, and an insight names the largest movers.

**Ask** (`ask_service.py`, `ask_llm.py`, `packages/analytics/dfip_analytics/ask.py`).
Questions in words: intent (by rules, else by a model), an analytics answer as
evidence, wording by a model that may propose anything, validation of its
figures. *Correct when* no answer states a figure or a direction the facts do
not have, but for what the validation lets through by design: a number from 2020 to
2039 reads as a year (`ask.py:1522`).

**Report downloads, refreshable workbooks** (`publication_routes.py`,
`excel_grant.py`, `src/excel/PublishedFacts.m`). *State*: grants with an end, a
revocation and a use count, tokens. *Hard*: pages read across publications;
grants revoked, ended, lost by a restart and restored between refresh and data
requests. *Correct when* a report shows one publication, and a workbook is
served only while granted and refused only for a reason.

### 1.3 Accounts and companies

**Publisher session and sign-in** (`auth_routes.py`, `publisher_session.py`,
`limits.py`, `db/publisher_session.py`). *State*: a lease per account with an
expiry, attempt windows, token versions. *Hard*: takeover, heartbeat, expiry and
logout interleave. *Correct when* the newest session holds the account alone and a
replaced one never returns; attempts stay bounded.

**Company removal and backup** (`client_routes.py`, `company_delete.py`,
`purge.py`, `backup.py`). *State*: company status, rows per table, archived
files, the backup set. *Hard*: uploads and publications go on between check and
DELETE; the archive is changed after the commit; a dump and a copy of files are
taken at different times. *Correct when* the order of the deletes fits the
foreign keys, rows on record have their files, no account is stranded, what
`verify` accepts can be restored.

### 1.4 Interactions

Jobs write facts and findings; publication reads run status, verdict and facts;
cancel and delete revert facts; publications invalidate the cached workbook and
are what analytics, Ask, reports and refreshable workbooks read; the catalog
binds versions to runs at staging; a Publisher lease is required by every
Publisher request; a removal deletes the rows of all of them.

## 2. Modules and how they map to the code

| Module | Models |
|---|---|
| `FactLedger` | the two fact tables, runs, cancel and delete as sequences of reverts; one action per transaction |
| `UploadLifecycle` | one upload and every thread that touches it; one action per store transaction or registry access |
| `Acceptance` | requests of several files, replays, recovery by content, the queue of the pool |
| `WorkbookReading` | header location, layout, staged rows, files of the catalog (operators) |
| `RowTransform`, `QaRules` | labels, groups, rate rules, cost, ratios, reconciliation; the rules and the verdict (operators) |
| `Catalog` | versions and the uploads bound to them, row by row; extends the two above |
| `CatalogFiles` | composes `WorkbookReading` with `Catalog`: a workbook is read, or the catalog works on staged rows |
| `PublishedHistory` | what publication promises (abstract) |
| `Publication` | the publishing transaction, one action per statement; implements `PublishedHistory` |
| `ConsolidatedCache` | warm job, downloads, file store over `PublishedHistory` |
| `Calendar`, `Measures`, `HistoryReads`, `Periods` | days and buckets; sums and ratios; the store's reads; windows and comparisons (operators) |
| `Views`, `Insights`, `Anomalies` | trends, drilldown, explorer; drivers; baselines and medians (operators) |
| `AnalyticsService` | an answer as a sequence of reads, and the drilldown opened from it |
| `AskIntent`, `AskWording`, `AskService` | intent, wording and validation; a question from words to worded answer over `AnalyticsService` |
| `ReportDownload`, `WorkbookAccess` | downloads page by page; refreshable workbooks, grants and clocks |
| `PublishedReaders` | composes `AskService`, `ReportDownload`, `WorkbookAccess` over `PublishedHistory` |
| `SingleHolder` | newest wins, a replaced session never returns (abstract) |
| `PublisherSession` | sign-in, lease, limiter, logout; implements `SingleHolder` |
| `CompanyRemoval`, `Backup` | the end of a company; the operator's backup beside it (`Backup` extends `CompanyRemoval`) |
| `FactLedgerProofs`, `UploadLifecycleProofs`, `IntakeProofs` (`Acceptance` and `Catalog`), `PublicationProofs`, `ConsolidatedCacheProofs`, `PublishedReadersProofs` (`WorkbookAccess`, `ReportDownload`, and the readers' answers), `PublisherSessionProofs`, `CompanyRemovalProofs` (with `Backup`) | theorems, checked by TLAPS |
| `MC*` | instances for TLC: small sets, facts, requests, symmetry, a view; `ConsolidatedCache` and `Backup` need none |

**FactLedger.** A fact is represented by the run that wrote it: a row of another
run always differs (the comparison includes `processing_run_id`), one of the same
run never does. `RevertRun` is the three statements of `revert_run`.
`RevertAllowed` and `RecordDeletable` are the foreign keys. `drop[b]` is a cancel
or delete in progress, which `DropInterrupted` loses between two reverts.
`reverted` is a history variable and in no guard.

**UploadLifecycle.** `pc[t]` and `loc[t]` are a thread's place and the records it
holds, so a record that is written back is stale exactly when the code's may be.
`SaveBatch` leaves `cancel_requested` alone as the SQL does; `Checkpoint` is the
progress write that raises once a cancellation is requested; `reason = "auto"`
stands for `AUTO_RESUME_REASONS`. Facts are reduced to the set of runs that have
rows. `arriving`, chosen in `Init`, is the kind of requests of the behaviour.

**Acceptance.** `upload_workbook` is a coroutine that calls `accept_parts`
without awaiting, so requests do not overlap, but the worker runs between its
four lookups. The run of a job is saved before its batch (`Transform`, then
`SaveProcessed`, or `TransformRaises`, then `FailBatch`); a run whose every row is rejected
ends without an exception and leaves its batch staged (`AllRejected`). The `finally` of a
job (`_finalize_incomplete_job`, `_forget_inflight`) is a step of its own, `EndJob`.
`Prepared` is the stable sort of a request's files, by the place each one takes.

**Catalog.** An activation is a READ COMMITTED transaction in steps: it reads the
version (`BeginActivate`), its UPDATE finds the other active ones (`ScanActive`),
waits for locked rows (`Supersede`), and commits. `BindRun` reads the versions for
the first day of the batch; `TransformRow` turns each staged row into a fact or a
rejection with the operators of `RowTransform`; `Evaluate` and `Reevaluate` apply
`QaRules` to what is stored. `WorkbookReading` gives the rows of the uploaded
catalog files (`UploadedRowsAreParsed` in `MCCatalog`). A start date is a minute of the
day with the offset it was written in; the fact store gives it back in the offset of the
session (`SessionZone`), and the reconciliation recomputes month, variation key, hour and
ratios from what it gives back. `CatalogConstants` says that
the id of an upload is never a packaged one and that windows are of packaged versions.

**Publication, ConsolidatedCache.** `Begin` takes `published_at`, `Count` and
`Copy` are the two statements whose results are compared, `Point` the upsert that
locks the pointer row, `Rebuild` the rebuild of the serving table, then `Commit`
or `Rollback`; `Restate` lets ingestion change the working set between any two
statements. The fingerprint is read by two statements (`ReadCount`, `ReadRows`);
`Put` renames a file in place and `Prune` removes the others, or leaves one that cannot be
removed (`stuck`).

**Analytics and Ask.** Rows of the history are records of a campaign, a day and
measures; `NULL` is kept, because sums, ratios and the ranking treat it apart.
`Ask` resolves a request against the history, `ReadCurrent` and `ReadCompared` are
the service's reads, each of what is published at that moment; `OpenPoint`,
`OpenRow` and `OpenRanked` open a drilldown from a cell. In `AskService` the
model's part is an adversary: any intent and trend of the proposals, any wording
with figures of any role in the evidence or invented numbers (777, and the year 2030), or
no answer.

**WorkbookAccess.** A workbook is built (grant, token, stamp), copied, and each
copy refreshes (`refresh_access`, restoring a lost grant from the token) and then
asks for data in a later request; time, revocation, loss of the grants' rows,
removal of the membership and deactivation come between. `kept` holds the
reasons that have barred a copy since its request began, `met` whether it met one.

**PublisherSession.** A tab is a page making one request at a time. Registration
is the statements of one transaction: `AdvisoryLock`, revoke, `InsertCommit`.
`HolderOf`, the live session of an account, is the refinement mapping. The two
limiters are sets of stamps, a time and a number, as the code keeps a deque of times.

**CompanyRemoval, Backup.** `rows[table]` are the owners of rows; `Delete` goes
table by table in the order of the SQL function inside one transaction, whose
foreign keys see what has been committed by others. The backup dumps, lists,
copies, verifies; a restore may stop half-way.

## 3. What the runs check

### 3.1 Passing runs

| Run | Instance | Properties |
|---|---|---|
| `ledger_overlap` | 2 grains, 2 uploads, 3 runs, 2 workers | `TypeOK`, `OneSupersessionPerRun`, `NoOrphanRows`, `CleanDrop`, `OwnFactsSurvive` |
| `upload_requests` | 1 worker, 1 request thread, 3 runs, 1 restart; cancel, delete, publish, or these with evaluate, or poll, reprocess | `CancelledHasNoRows`, `NotStuck` |
| `upload_settles` | 1 worker, 2 request threads, 3 runs, 1 restart; delete, publish; fair | `DeletedIsGone`, `ProcessedHasSucceededRun`, `SucceededStays`, `EventuallyHandled`, `RunsEnd` |
| `acceptance` | 2 files that restate one another, 3 requests (single, both against their order, forced), 1 worker; jobs succeed, fail, or have every row rejected | `EveryUploadIsTried`, `LaterFileWins` |
| `catalog` | 2 publishers, 2 Logic uploads, 1 Labels upload, packaged versions before and after a boundary, days 9 to 13 with months of 2, 8 workbooks of 2 rows, start dates of three offsets, 2 runs; and some 3 000 workbooks around a contract of 2 headers, in sheets of up to 5 columns of which 4 are searched | `RunKeepsItsVersions`, `ReconcileAgrees`, `PublishableIsClean`, `StagedUnderItsHeaders` |
| `publication` | 2 grains, 2 runs, 2 publishers, 3 publications | `HistoryIsNewestWins`, `PublishesAtomically` |
| `consolidated_cache` | 1 grain, 2 contents, 2 publications, 1 publisher, 1 download, the warm job, 1 restart, 1 file that cannot be removed; fair | `WarmedIsCurrent`, `OneArtifact`, `WarmingEnds` |
| `analytics` | 11 grains in 5 months of 4 days (weeks of 3, never aligned), 3 publications in any order; 36 requests and the drilldowns from them; 19 questions; trends of at most 3 series rows; report pages of 3 of at most 7 rows; 1 workbook in 2 copies | `TrendsReconcile`, `DrillReconciles`, `DrillKeepsTheCell`, `DriversAreTheLargest`, `PastVerdictsStand`, `AnswersAreGrounded`, `ReportIsOnePublication`, `ServedWhileGranted`, `RefusedForAReason` |
| `publisher_access` | 1 account, 2 pages, 2 session ids, leases of 1, clock to 2; fair | `NoIndexConflict`, `BurstBounded`, `ReplacedNeverReturns`, `OpenEnds` |
| `company_removal` | 1 company with a row in every table, 2 writers of six kinds, a backup and its restore | `OrderRespectsForeignKeys`, `SourceFilesAreArchived`, `NoStrandedUser`, `BackupRestores` |

*What they show.*

- *Facts.* An upload alone on its grains can be cancelled, deleted, reprocessed and
  interrupted in any order and leaves no trace (`CleanDrop`), and loses nothing of
  its own meanwhile (`OwnFactsSurvive`); with overlap only the references are safe
  (`OneSupersessionPerRun`, `NoOrphanRows`).
- *Uploads.* No restart loses work; a cancelled upload keeps no rows, a deleted one
  leaves nothing, whatever the other threads were in the middle of. A file sent
  again once an attempt has failed is tried again, also while the job of that attempt is
  at its `finally`, and with one worker the file of the highest name has the grain. No run
  is left active when everything is quiet, be it the newest or one abandoned by a restart
  and beside its successor (`NotStuck`, in the mixes without re-evaluation).
- *Workbooks and configuration.* Whatever surrounds the source columns, a workbook
  is staged exactly if a searched row states them and nothing unknown in the searched
  columns, and each value under its own header. Facts carry the versions bound to their run although publishers activate
  others between any two rows; the reconciliation disagrees with the computation for one
  reason only, a start date written in another offset than the session's; a verdict that allows publication leaves no rejected or negative row
  of the run aside.
- *Publication.* Atomic, and the serving table is the newest-wins union. A warmed
  workbook is never older than its name; one file is left, and those no store could remove.
- *Readers.* Trends and drilldowns account for every fact once, "Other" included,
  although publications come between the reads. A drilldown opened from a cell
  breaks down the value clicked. Verdicts on a past month do not depend on later
  days. Whatever a model says, the figures of an answer are those of the facts, numbers
  from 2020 to 2039 in its prose excepted, which the code takes for years in every role
  (`ask.py:1522`; `D8_CONTEXTUAL_ASK.md:125` and `166`). A report
  is one publication; a workbook is not served to a barred request and not refused
  without a reason, lost grants included.
- *Accounts.* Registrations never fail on one another; the newest session holds the
  account and a replaced one never returns; the limiters can be passed by one
  request per page at most, because check and count are separate steps.
- *Companies.* The statements' order never meets a foreign key by itself; files are
  there as long as their rows are; no account is stranded; a backup made while
  requests go on restores, as long as no removal takes files away meanwhile.

### 3.2 Runs that find a statement of the repository violated

| Run | Statement | What the trace shows |
|---|---|---|
| `ledger_forgotten` (`NothingForgotten`) | "A prior fact is never overwritten in place: it is copied to history" (`transform/store.py:39`) | B restates A's row, A is reverted: the row A had superseded overwrites B's |
| `upload_cancel_lost` (`CancelFinishes`) | "Wait until cancellation finishes before deleting." (`upload_service.py:1255`) | cancel sees a worker that has passed its last checkpoint: nobody finalizes |

### 3.3 Bounds

The hazards need two of something: two uploads for overlap, two chunks (grains) per
run, two publishers, two pages, two copies, two writers. Three runs let one upload
be reprocessed while the other is there, or be run, resumed and resumed again. One
restart may happen at any step, the recovery of an earlier one excepted.
`MaxJobs = 1`: a second job can only be queued while the first is worked on, which
is the race. In `upload_requests` a behaviour has one kind of requests (`Mixes`):
the kinds together exceed what can be explored, and each race listed among the
hazards is between a request of one kind and the worker. `NotStuck` is silent where
re-evaluations arrive, hence the same requests come with and without them. The view of
`MCUploadLifecycle` leaves verdicts, rows and publications out of the states of the poll
and reprocess mix: only a publication, a cancellation or a deletion reads them, and that mix
has none, so that states which differ in them alone have the same steps and satisfy the same
invariants (`CancelledHasNoRows` says nothing where nothing is cancelled). Three requests in
`acceptance` are a first upload, one during its job, and one after both.

In `catalog`, two activations can overlap each other and a run; two rows let the
second be transformed after an activation, and span the month boundary of the
versions. Of the start dates one is without an offset, some have the session's, some another
that keeps the hour, and one an offset that changes it. The session's offset is one number
for the whole behaviour: a session whose zone has daylight saving time would add dates, not
reasons. The workbooks of `StagedUnderItsHeaders` have all header rows of up to four cells
(and some of five, one more than is searched) made of the two contract headers, an approved, an unknown, an empty and a
missing one, and of three below a title or a broken header row; three rows are
searched instead of ten, four columns instead of 120.

Three publications let one commit between two of another's statements and a third
see both; two change the history before and after any step of the cache. The
analytics instance is the smallest in which every month has a predecessor to
compare with, three earlier months give a baseline, weeks straddle months, one
channel is NULL, a group appears in one period only, and the limits (2 series, 2
drill rows, depth 3, 3 groups) cut something off. A clock of 3 lets a grant of life
2 and a token of life 1 end between any two requests of a refresh; a behaviour of
`PublishedReaders` has one kind of reader, as they share nothing but the history,
and workbooks meet the first publication only, as they read it in one statement.

Bounds named in the guards: `MaxRuns`, `MaxJobs`, `MaxCrashes`, `MaxPubs`,
`MaxUploads`, `MaxTime`, `MaxClock`, `MaxVersion`, `MaxStuck`. `MaxOpens`, `MaxFailures`,
`MaxSeries`, `MaxSeriesRows`, `MaxDrillRows`, `MaxCol`, `MaxReportRows` and the like are limits of the code,
made small. The proofs have no bounds. Symmetry is used for interchangeable actors
only (grains, uploads, runs, publishers, copies), where no liveness
is checked. Deadlock is not checked because every instance stops legitimately when
its requests or publications are used up; `NotStuck`, `RunsEnd`, `OpenEnds`,
`EveryUploadIsTried` and `WarmingEnds` say what stopping may not leave behind.

### 3.4 Fairness

`UploadLifecycle`: weak fairness of each thread that has a next step, because a pool
or request thread is scheduled until its job returns, and of taking a job, because
the pool runs what is queued; strong fairness of the end of a transformation, which
goes through finitely many chunks. Nothing makes a request arrive or the process
restart. `ConsolidatedCache`: weak fairness of the warm pool's thread; that
rendering ends is assumed (it is one step). `PublisherSession`: weak fairness of a
request that has begun, strong fairness of obtaining the advisory lock, because
PostgreSQL queues those who wait for it.

### 3.5 Mutants

Every property of a passing run has a mutant in its module, marked "Mutant" and
unused by the specification: a plausible slip in one operation (history rows kept
by a revert, a recovery that registers a run and never submits its job, a lock that
is skipped, a fingerprint of row counts alone, a driver list of the current period
only, a baseline that includes later months, a number allowed in any role, trailing
headers cut at the first gap...) under which TLC finds that property violated.

## 4. What is proved

For every value of the constants, from the assumptions named in the modules
(`LedgerConstants`, `NoBatchIsNoBatch`; `UploadConstants`, `BootIsApart`;
`AcceptanceConstants`; `CatalogConstants`, `LowerConstants`; `PublicationConstants`; `ReportConstants`,
`WorkbookConstants`; `CalendarAssumption`, `DaysHaveMonths`, `MeasuresAssumption`,
`HistoryReadsAssumption`, `FactsAreNumbers`, `NamesAreKnown`;
`SessionConstants`; `CacheConstants`; `SeedIsNoWriter`). They give the parameters their types, keep "nothing" apart from ids, make finite
what is counted, put every fact's day into the calendar, make its measures whole numbers or
absent (the nullable columns of `20260823000002_p1_tables.sql:277-295`, in their smallest unit),
number what it is grouped by, and have requests name only metrics, grains and dimensions that
the parsers of `trends.py`, `drill.py`, `explorer.py`, `insights.py` and `ask_service.py` let
through, with days that are dates or absent (`OptionalDate` of `analytics_routes.py`, the
`date | None` parameters of `filters.py:145-147` and `208-210`; `AsksForDays`).

| Theorem | Establishes |
|---|---|
| `TypeCorrect`, `OneStamp`, `NoOrphans` | `FactLedger!Spec` implies `[]TypeOK`, `[]OneSupersessionPerRun`, `[]NoOrphanRows` |
| `FactsAreStacked`; `ReprocessingForgetsNothing`, `DropsAreClean`, `SoleUploadsAreDeletable` | `FactLedger!Spec` implies `[]StackInv`; `[]OwnFactsSurvive`, `[]CleanDrop`, `[]SoleUploadIsDeletable` |
| `UploadIsSafe`; `RecordsKeepTheirShape`, `DeletionIsComplete` | `UploadLifecycle!Spec` implies `[]UploadInv`; `[]TypeOK`, `[]DeletedIsGone` |
| `OneJobAtATime`, `NothingIsStuck` | `UploadLifecycle!Spec` implies `[]JobsInv`, `[]NotStuck`, where requests neither poll nor reprocess |
| `SuccessStays`, `ProcessedMeansSucceeded` | ... implies `[]SucceededStays`, `[]ProcessedHasSucceededRun`, where they cancel, delete or publish |
| `CancellingLeavesNoRows` | ... implies `[]CancelledHasNoRows`, where they cancel, delete, publish or evaluate and one thread handles them |
| `UploadsAreTried` | `AcceptSpec => []EveryUploadIsTried`, any number of workers |
| `LaterFilesWin` | `AcceptSpec => []LaterFileWins` for one worker and requests that name a file once |
| `RunsKeepTheirVersions`, `RunsBindNoDraft` | `Catalog!Spec` implies `[]RunKeepsItsVersions`, `[]BoundWasActivated` |
| `RunsReconcile`, `PublishedRunsAreClean` | `Catalog!Spec` implies `[]ReconcileAgrees`, `[]PublishableIsClean` |
| `PublicationTypes`, `ServesNewest` | `Publication!Spec` implies `[]TypeOK`, `[]HistoryIsNewestWins` |
| `ImplementsPromise` | `Publication!Spec => PublishedHistory!Spec` under the identity on the committed variables |
| `WarmedTheorem`, `DirectoryIsTidy` | `CacheSpec` implies `[]WarmedIsCurrent`, `[]OneArtifact` |
| `AccessIsSafe`; `BarredSeesNothing`, `RefusalHasAReason` | `ReadersSpec` implies `[]AccessInv`; `[]ServedWhileGranted`, `[]RefusedForAReason` |
| `ReportsAreSafe`; `OnePublicationPerReport` | `ReadersSpec` implies `[]ReportInv`; `[]ReportIsOnePublication` |
| `AnswersAreOfTheirReads`, `ReadersReadFacts` | `ReadersSpec` implies `[]AskInv`, `[]SlicesInv` |
| `PastVerdictsHold`, `DriversLead` | `ReadersSpec` implies `[]PastVerdictsStand`, `[]DriversAreTheLargest` |
| `DrillsReconcile` | `ReadersSpec` implies `[]DrillReconciles`, where no fact carries the key of "Other" |
| `TrendsAddUp` | `ReadersSpec` implies `[]TrendsReconcile` |
| `NoConflict`, `BurstsAreBounded` | `PublisherSession!Spec` implies `[]NoIndexConflict`, `[]BurstBounded` |
| `NewestHolds` | `PublisherSession!Spec` implements `SingleHolder` under `HolderOf` |
| `RemovalIsSafe`; `TypeCorrect`, `OrderIsRight`, `FilesAreArchived`, `NobodyIsStranded`, `GoneIsGone` | `CompanyRemoval!Spec` implies `[]RemovalInv`; `[]TypeOK`, `[]OrderRespectsForeignKeys`, `[]SourceFilesAreArchived`, `[]NoStrandedUser`, `[]NothingNamesTheCompany` |
| `BackupOnlyReads`; `BackupsRestore` | `BackupSpec => Spec`, so all of the above holds beside backups; `BackupSpec => []BackupRestores` |

Every inductive invariant was first checked by TLC on the instance of the run, some on
larger ones as well. None of the properties is inductive as it stands; what had to be
added is the argument why the code is right.

*FactLedger.* `OneSupersessionPerRun` is not inductive: nothing in it keeps a run
from stamping a grain a second time. `engine.py` does, by the set of grains the run
has produced, so `LedgerInv` adds `StampsAreSeen`: a stamp's run has seen the
stamp's grain. A chunk is disjoint from what its run has seen, hence its stamps are
new ones, and reverts only remove stamps. `NoOrphanRows` needs the same invariant,
because what a revert restores is then the one row of the grain
(`LatestIsTheOnlyRow`) and the foreign key speaks of exactly that row; runs only
become deleted where no row names them (`StepDeletes`). Where one upload is alone on a
grain, more holds (`StackInv`): the rows are `Stacked`, each superseded by the next newer
run; a run that saw the grain and was not reverted is in the stack, whatever drops were
interrupted; a drop still has every run of the stack to revert, and the stack of a
closed upload is empty. It rests on who may write: a running run is the newest of its
upload (`RunningIsNewest`), none runs once the upload is closed (`ClosedIsIdle`), and a
drop has runs of its own upload only (`DropsOwnRuns`). A revert takes the top or a
middle row out of the stack and its neighbours close up.

*UploadLifecycle.* Threads write back whole rows that they read long before, so the
invariant has a part for each of them. `Held` says what a thread that is about to write
may rely on: the run it saves was created, the batch it saves, if it read it deleted, is
deleted still, a re-evaluation does not bring a deleted run back. These only speak of
facts that last (`Lasts`), so no step of another thread disturbs them (`HeldLasts`).
`StoreInv` has the rows and publications name created runs only and no created run left
under a deleted batch, which is `DeletedIsGone`; `MemoryInv` is about queue and
registries. A restart keeps the first and empties the others.

The next five theorems assume which kinds of requests there are, as a condition on the
constant `Mixes`, for any number of threads, runs, jobs and restarts: without it they
are false (section 5), and the runs check the kinds as far as they go. Polls and
reprocesses are left out because they fail and start runs beside a job. `JobsInv` then
shows that one thread at a time executes a job: `Placed` says what each thread's place
means, `JobInv` that the job's batch is registered and nothing of the kind is queued,
`InOrder` that runs are created in the order of their numbers, so that the newest is the
active one, and `CancelInv` what a requested cancellation still has ahead of it.
`OnceInv` adds who can make a run succeed: only the job that created or resumed it,
which a job finding it ended does not do again, hence a success lasts. `SettleInv` ties the
active run to the job at work, so that a batch whose job is over has no run left behind.
`CleanInv` follows the rows: whoever writes them is registered, and a cancellation is
finalized, its rows reverted, by a thread that knows nobody writes any more; a second
request thread could let a job in between the two, which is the hypothesis.

*Acceptance.* `Quiet` states are not where the argument is: what is promised with a 202
must be kept at every step. `Tried` says that an attempt at the file has ended since the
request began, or a job is still at work that will end one; the request holds the same
promise before it answers (`RequestFits`). The delicate steps are those at which a
request finds work of others: an unfinished batch is being worked on, or about to be
submitted by the request itself (`UnfinishedIsWorkedOn`), and a live run is that of a job
at work (`LiveIsWorkedOn`). A batch whose rows were all rejected stays staged while its job
checks the failed run: such an attempt ends when its job is forgotten, and not before, so that
a request answered 202 meanwhile has seen it go on. It holds for any number of workers, where the runs check one.
`LaterFilesWin` is about order: the places `Prepared` gives the files of a request are
those of their names, jobs enter and leave the queue in that order, and one worker ends a
job before it takes the next, so the last file to write a shared grain is the one named last.

*Catalog.* `RunKeepsItsVersions` needs that the facts of a run are all its own
(`FactsAreOfRuns`: before its versions are bound a run has none) and that what it bound
stays readable: `BoundActivated`, since `active_for` finds an active version (the newest,
`ActiveIsThere`) and no transaction makes a version a draft or absent again. Then
`BindForRun` finds the rows of the bound upload, and no packaged version stands in for it
(`BoundToUploads`, `WindowIsPackaged`). `RunInv` is about a run as a whole: each of its staged
rows is a fact, a rejection on record or still to come, and a fact is what the operators
of `RowTransform` compute from its row under the bound versions, which no later
transaction changes. The recomputation of the verdict therefore meets its own results, but
for the hour of a start date read back in another offset: one without an offset, or with the
session's, is read back as it was written (`StartIsReadBack`), and `RunsReconcile` has every
failure of a reconciliation due to another one. A verdict without an error has seen every rejected and every negative row.

*Publication.* `Commit` keeps `HistoryIsNewestWins` because the history rebuilt
earlier in the transaction is still due (`RebuiltIsDue`), which holds because only
the holder of the pointer's row lock is between `Point` and `Commit` (`LockIsHeld`)
and because ids belong to one transaction each (`IdsAreOwn`). The refinement
follows: every action but `Commit` stutters, and `Commit` is a `Publish` of its
slice. `NewestExists` shows that the CHOOSE of the newest holder is defined.

*ConsolidatedCache.* `WarmInv` joins `Shape`, `WarmerWarms` (only the thread of
the warm pool warms), `JobIsBehind` (the publications its fingerprint counts are at
most those of now, and if they are as many, the workbook it rendered is the present
history) and `FilesAreBehind` (the same of the files it stored). The fingerprint is
taken before the history is loaded and every publication raises the count, so a
publication in between makes the name one that is never looked up again.
`ConsolidatedCache` observes publications of the abstract `PublishedHistory`, so the
argument rests on the promise that `ImplementsPromise` proves. `DirectoryInv` counts: a
fingerprint has one file, a thread between `Put` and `Prune` accounts for one more, a
restart leaves as many behind as there are readers, and a removal that failed leaves one.

*Refreshable workbooks and reports.* `AccessInv` has two parts for each open copy.
`ReasonsAreMet`: whatever a later check would refuse it for has been noted in `met` when
it came about, a lost grant included. `BarsFallAway`: what has barred the request from its
beginning is a bar still, and each check it passed rules one out, so that nothing is left
of `kept` when rows are shown. `GrantsEnd` ties the end of a grant, restored or not, to
the stamp of its token. `ReportInv`: the rows read are a beginning of the rows of one
snapshot (`RowsReadIn`), which no later publication changes.

*Answers.* A request reads twice, in two transactions, and anything may be published in
between. `AskInv` says what is left of that: an answer is the function `AnswerOf` of the
two histories in `seen` and of the scope, which was resolved in some history
(`AnswerInv`), and whatever Ask DFIP made of the words, its decision is of the registry
and names a known signal (`TalkInv`, `QuestionIsKnown`). What is claimed of an answer
is then a fact about rows. For `PastVerdictsHold` it is that the rows up to a month's
end have the same months before it (`EarlyIsEnough`, from least and greatest elements
of the calendar), the same rows in each window that ends by then, and so the same sums,
groups and series (`SameReads`); the baseline months, the month compared with and the
verdict's window all do (`SameVerdict`). For `DriversLead` it is that the
groups of a read add up to the rows of their keys (`GroupsAre`, `MovedAre`), so that the
candidates are exactly the groups that moved with the metric; that rounding a quotient keeps
the order of what is divided (`RoundingKeepsOrder`, `PartsKeepOrder`), so that the first by
contribution are the first by movement (`FirstDriversMovedMost`); and
that among the dimensions asked for one has the largest share (`OneLeads`). It needs
`SlicesInv`: what was read is stored facts, so sums are numbers or absent. For
`DrillsReconcile` it is that the groups of a read are its rows by key (`GroupedBy`), that
the rows of the answer split the facts into parts (`FactsArePartsOf`) whose counts and sums
make up those of all (`RowsAddUp`, by a least subset that fails), that each share is within
half a unit of its part (`RoundingIsClose`), hence all of them within one per row
(`SharesAddUp`), and that fewer than `MaxDrillRows` groups precede each one kept
(`FirstAreFew`). Slices and parents only narrow the filters, by values that occur
(`ParentsLeaveFilters`). Its hypothesis `OtherIsReserved` is not the code's doing: a
workbook may hold the text `__other__`, and a drilldown has it under the key of "Other".
`TrendsAddUp` needs no such hypothesis, a trend gathers those rows into the same series. It
rests on the calendar: a bucket of a grain is the last one that starts by a day
(`BucketOfDay`) and the next one starts where it ends (`NextBucket`), so the walk of
`IterBuckets` lists the buckets of a window's days, each once and in order
(`BucketsAreListed`), and the index of a bucket is its position (`PlaceIsPosition`); the
windows of a resolved scope lie inside the calendar (`ScopesAreOfCalendar`). A cell of the
series holds the rows of its bucket and key, when it was not read too (`CellsAreFound`), and
the points of a bucket split its rows into parts (`PointsAddUp`).

*PublisherSession.* The inductive invariant `LeaseInv` joins `Shape` (the types it
needs), `LockIsHeld` (a page between revocation and insert holds the account's
advisory lock), `RevokesTheAccount` (what it has marked for revocation covers every
live session of the account) and `OneSession` (at most one is live). A session can
only become live by an insert; the lock keeps a second registration out between the
revocation and that insert, and a session that expired or was revoked meanwhile
only shrinks the set. Hence the insert meets no live session, the account has one
holder afterwards, and each step maps to an acquisition, a release or a stutter of
`SingleHolder`. For the limiters, `BurstInv` gives a page that has passed the check and is
not counted yet its place in the bound (`Within`): stamps and such pages together stay
below the cap plus the number of pages.

*CompanyRemoval, Backup.* `RemovalInv` follows the transaction: of the tables it has
passed, no row that was there first is left (`RemovalIsOrderly`), hence no such row blocks
a later table; late writers only insert through transactions that need the company's row
(`WorkFits`, `RowsAreInserted`); so when that row goes nothing names it
(`NothingNamesTheCompany`), only then are files removed (`ArchiveGoesLast`), and accounts
go with the last membership (`AccountsFollow`). `BackupRestores` uses that rows on record
have their files, and that a lossless backup lists files after it dumped rows.

*Only model-checked*:
- liveness (`EventuallyHandled`, `RunsEnd`, `WarmingEnds`, `OpenEnds`), which the prover
  does not handle;
- what folds and recursive functions compute (`StagedUnderItsHeaders`, `AnswersAreGrounded`): the induction theorems of the library take an
  operator, which the provers cannot instantiate. Induction over a set, by a least element of
  those that fail, is possible and is used where it suffices (`SumStep`, `NarrowingExists`);
- `DrillKeepsTheCell`, which is not proved: it needs an invariant that ties the value that was
  clicked to the answer it was read from, for each of the three views a drill opens from;
- `CancelledHasNoRows` and `NotStuck` beside polls and reprocesses, where `upload_requests`
  has one worker and one request thread.

## 5. Observations that no run states

Met while modelling, each visible in a module or a line of code. Those with a
definition in a module (named in parentheses) are violated there; no run repeats
them.

**Uploads**
- *Undeletable upload* (`UnpublishedIsDeletable`; `upload_service.py:1221` "Delete it
  if it was never published."): A is deleted after B restated it; the revert of B
  would restore a row of a deleted run and is refused for ever.
- *Retries* (`NoRetryOfGenuineFailure`; `upload_service.py:228`): all rows rejected,
  the run fails, the batch stays "staged", and the next poll starts over.
- *Cancelled and published* (`CancelledIsNotPublished`; `upload_service.py:1218`): the
  publication's checks precede the cancellation, its transaction follows it.
- *Cancelled is not terminal* (`20260906000024_batch_cancel_delete.sql:2` says it is):
  a job taken from the queue afterwards resets the batch's staging and goes on.
- *Two active runs*: `core/dfip_core/ingest/store.py:484` promises an atomic
  check-then-insert; `ingest_store.py:602` has them in two transactions.
- *A succeeded run can be failed again*: `_fail_zombie_run` writes back a record read
  before the run ended. `SucceededStays` is checked, and proved, without polls and reprocesses.
- *A re-evaluation* saves the whole run row it read while the run was active over the
  run's end; the run stays pending. `NotStuck` excepts this.
- *Late rows*: with polls, or two request threads, a job accepted between cancel's
  check and its finalization writes a chunk after the reverts. `CancelledHasNoRows`
  is checked, and proved, with one request at a time.
- *Lock order*: `_load_for_update` locks a chunk's rows in scan order; two workers of
  one company can deadlock in the database.

**Acceptance**
- *Another batch of the same file* (`OneBatchPerFile`; `V1_ARCHITECTURE.md:121`
  "Staged/received/failed work is recovered on the same batch"): a job that ends
  between the lookups of `accept` makes it create a second batch.
- *Rejected and in flight*: while the checks of a run whose every row was rejected go on, an
  upload of the same file is answered 202 with that attempt, which can no longer succeed
  (`upload_service.py:641`; `HTTP_WORKFLOW.md:108-111` has both "In-process in-flight SHA still
  returns 202" and "the same SHA retries that batch"). `EveryUploadIsTried` counts the attempt
  as ended when `_forget_inflight` has run.
- *Order of files in flight* (`LaterFileAlwaysWins`; `HTTP_WORKFLOW.md:125-128`): a
  file already in flight, or replayed, is not processed again, so an earlier-named
  file of the same request restates it. With more than one upload worker
  (`dfip_worker_concurrency`, up to 4) the order is not kept at all.
- A re-upload while a failed job is in its `finally` starts an archive recovery whose
  registry entry the old job's `_forget_inflight` removes (`upload_service.py:616`); a
  further upload then starts a second archive job, which resets a processed batch.
- `force` while the same content is in flight overwrites the registry entry;
  `_inflight_batch` answers 202 with a cancelled batch.
- A staged run queued behind an archive job that reset and failed transforms zero rows
  and succeeds. A workbook over the row limit (`ingest/pipeline.py:429`) keeps its
  staged count, so recovery transforms the part that was staged.

**Configuration and reading**
- *Rates by day* (`RatesFollowTheDay`; `SCHEMA.md:271-273` "bound per row day, not per
  batch"): labels and rates are bound by the first day of the batch; a `Day` with a
  time of day does not count for it.
- Concurrent activations leave two active versions (`catalog_store.py:225`;
  `HTTP_WORKFLOW.md:280-281`).
- A reprocess that rejects a row in the transformation repeats a finding's key, so the
  verdict is "unavailable" (`upload_service.py:1347`, `qa_workflow.py:103`). Runs of
  tenants without rate ids are re-evaluated without reconciliation
  (`qa_workflow.py:174`). `NO_CONFIG_VERSION` has no rule of severity error.
- *Start dates with an offset* (`ReconcileIsOfTheEngine`; `transform/reconcile.py:3-5` "These
  checks are assertions about the *engine*, not about a particular workbook."): an aware start
  date is stored as an instant, its hour as it was written, and read back in the zone of the
  session; the recomputed hour differs, the run fails `QA-RECONCILE-FAIL` and can never be
  published, at a reprocess neither.
- *Columns beyond 120* (`UnknownTrailingHeadersFail`; `V1_ARCHITECTURE.md:113` "Unknown trailing
  headers fail closed."): the header scan stops at `max_col=120` (`reader.py:241`); an unapproved
  header after that is not seen, and the workbook is staged without its column.
- A header row refused for an unknown, repeated or empty trailing header is skipped
  when a later one of the first ten rows matches (`match_header_rows`), where
  `V1_ARCHITECTURE.md:113` has unknown trailing headers fail closed.
- Rows of a Logic file without a campaign name are skipped as empty, so "Campaign Name
  is required." (`config/workbook.py`) cannot occur.

**Publication and its cache**
- *Cached and stale* (`CachedIsCurrent`; `publication_service.py:585` "reused until the
  eligible published history changes"): a download stores the workbook under a
  fingerprint taken after a later publication.
- `publication_current` follows the order of commits, the serving table that of
  `published_at`. A warm request during a warm job is dropped. A run whose grains a
  later upload took is published as what is left, under the verdict of the whole.

**Analytics**
- *Drivers of days and weeks* (`DriversOfBucketsAreTheirGroups`; `D6_INSIGHTS.md:102`
  "Groups present in only one window are treated as `0`"): the groups of
  each window are cut to the top 8 before they are compared; the same with a cap of 50
  in the granular anomalies.
- A range of days inside one month has the grain "month" where `D7_ANOMALY_DIAGNOSTIC.md:60`
  and `D2_GLOBAL_FILTERS.md:81` have `period_not_month`. Inverted ranges wholly
  outside history become one day. A filter of unknown values only selects everything.
- Drill rows and "Other" omit groups only the comparison period has, insights use both.
  Trends drop comparison buckets beyond the number of current ones.
- Several reads of one answer are separate transactions; the JSON history pages by
  offset and may repeat or miss grains across a publication. The in-memory store ranks
  NULL differently from SQL's NULLS LAST. Granular answers take the first `limit` items
  bucket by bucket.

**Ask**
- For explorer, drilldown, trend and anomaly evidence, `evidence["metric"]` is the value
  of the first row, the last point or the baseline's median, and
  `render_structured_ask_wording` (`ask.py:1137`) words it as the metric of the period.
- Structured wording without a current value returns the model's raw JSON
  (`ask.py:1180`); without a comparison value the direction is the model's own; prose that
  gives a direction without a percentage is not checked.
- `D8_CONTEXTUAL_ASK.md` has the model never name operations, no model call for unsupported
  intent and one completion per question; `_resolve_ask_intent` (`ask_service.py:496`) lets it
  choose among the registry's operations, and a trend it chose asks it twice.
- A comparison of 0 is worded as "No comparison value is available."; a metric named in the
  question is overridden by the focus; an insight that vanished becomes the first card; a
  trend with a breakdown is summarised by its alphabetically first series; an insight with
  the focus dimension "day" is refused though the registry allows it.

**Reports and refreshable workbooks**
- `restore_missing` (`excel_grant.py:322-366`) with a refreshed token after a loss can outlive
  the grant's original end or revive a revoked one. A refreshed token lives
  `dfip_auth_token_ttl`, not the Excel one. Nothing but the stores calls `revoke_for_user`.
- A download registers a grant before its 404 or 403. `facts.csv` is cut silently at its LIMIT
  (`publication_store.py:1074`) where the consolidated report fails; `list_published_facts`
  resolves the current publication anew for each page. The record of a deleted company passes
  `require_company_active`.

**Accounts and companies**
- `select_client` reads the account again, so a request in flight at logout mints a token valid
  after it, and an opening in flight inserts a lease after logout's release (`auth_routes.py:370`
  "no session can outlive it"). A heartbeat takes its time before the UPDATE and may renew an
  expired lease. `setup-publisher` checks, then inserts (`db/identity.py:223`).
- A removal, or `delete_batch` (`upload_service.py:1277`), between dump and copy makes a backup that
  `verify` accepts fail at restore, where `STATUS.md:379-382` and `V1_OPERATIONS_RUNBOOK.md:258-262`
  claim it cannot omit committed rows. A restore that stops half-way cannot be repeated: the target
  tree is checked after the database was restored (`backup.py:868`).
- The removal of archived files after the commit is never retried if it fails. A Publisher whose only
  company is deleted has session rows whose foreign key refuses the delete; so has `audit_log`. A run
  started, or a company reactivated, between the check and the DELETE goes under all the same. Two
  companies removed at once leave a shared user without one.

## 6. Abstractions, and what is left out

- *Data.* Names, texts, cells and payloads are model values or small numbers; money is in whole units,
  ratios are rounded to a rate, timestamps are order numbers or a small clock. Formatting, labels,
  ordering of equal items and layout are left out.
- *Reads.* The reads of one window of an answer are one step; those of different windows are separate
  steps. Severity, order and limit of anomalies, exports and a trend's secondary metric are left out.
- *Ask.* Reasons, caveats and dates of evidence are left out; a name precedes its number; ratios are
  spelled as percentages only; medians are rounded down. A deployment without a model is the behaviours
  in which it fails.
- *Uploads.* `UploadLifecycle` has one upload (uploads meet in `FactLedger` and `Acceptance`);
  `Acceptance` leaves cancels, deletes, polls and restarts to it. The idempotency key, the verification
  of archived bytes and the duration cut-off (off by default) are not modelled. A database outage is
  modelled where the code has a handler for it, not at every access.
- *Workbook reading.* The typing of a cell and the archive limits of a file are left out.
- *Time zones.* One fixed offset for all sessions; a start date is the minutes of its day, its date is not kept.
- *Cached workbooks.* Half-written `.part` files are left out: `Put` is the rename, and no reader looks at them.
- *Refreshable workbooks.* One company; platform administrators, `last_used_at`, `token_version` and
  outages are left out. Publications made before snapshots were kept are not modelled.
- *Companies and backup.* The dry run and command line, manifests, checksums and the retention of backups.
- *Components not modelled.* The in-memory stores of the demo mode (they differ in their locks; the modules
  follow PostgreSQL), rendering of reports and workbooks (`pivot_report.py`, `daily_report.py`), the web
  client, row-level security and migrations, saved analyses and exports, start and deployment: layout,
  wiring, or plain records of one user, which this kind of specification has nothing to say about.
- *Proof.* Liveness, and what operators over data compute, stay with TLC (section 4).

## 7. Plan

1. *Proofs*: `CancelledHasNoRows` and `NotStuck` for one request thread that polls and reprocesses;
   `OwnFactsSurvive` and `CleanDrop` under the weaker hypothesis that the uploads do not
   overlap on the grain any more; lemmas on `HistoryReads` that need no induction (what
   `Series` keeps and drops).
2. *Model*: a composition of two `UploadLifecycle`s with `FactLedger`, for the lock order of
   `upsert_many`; `create_processing_run` as two transactions with two callers; the in-memory stores as
   refinements of the same promises; retention of backups; the JSON paging of the history.
