--------------------------- MODULE CompanyRemoval ---------------------------
(***************************************************************************)
(* The end of one company: deactivation and reactivation                   *)
(* (client_routes.py), DELETE /clients/{id} (company_delete.py with the    *)
(* SQL function dfip_delete_company), the operator's purge (purge.py), and *)
(* the requests that go on writing its rows.  Rows are kept per table and  *)
(* per writer; foreign keys are those of the migrations, none cascades.    *)
(***************************************************************************)
EXTENDS Naturals, Sequences, FiniteSets

CONSTANTS
    Writers,   \* requests and jobs that write rows of the company
    Seed       \* stands for the rows the company has at the start

ASSUME SeedIsNoWriter == Seed \notin Writers

VARIABLES
    status,    \* client.lifecycle_status
    eligible,  \* is_purge_eligible: the retention period is over
    rows,      \* committed rows: the owners of rows of each table
    archive,   \* owners of source files in the object store
    removal,   \* the removal in progress: API delete or operator purge
    job        \* the writers

vars == <<status, eligible, rows, archive, removal, job>>

-----------------------------------------------------------------------------
Versions == {"campaign_label_version", "label_group_version",
             "template_label_version", "rate_card_version"}

\* The tables a row of each table refers to (REFERENCES of the migrations).
Refers(table) ==
    CASE table = "source_file"           -> {"client"}
      [] table = "batch"                 -> {"client", "source_file"}
      [] table \in {"campaign_label_version", "template_label_version"}
                                         -> {"client", "source_file"}
      [] table \in {"label_group_version", "rate_card_version", "audit_log",
                    "analytics_saved_analysis", "publication_history_grain"}
                                         -> {"client"}
      [] table = "campaign_label_row"    -> {"campaign_label_version"}
      [] table = "label_group_member"    -> {"label_group_version"}
      [] table = "template_label_row"    -> {"template_label_version"}
      [] table = "rate_card_rule"        -> {"rate_card_version"}
      [] table = "processing_run"        -> {"client", "batch"} \cup Versions
      [] table \in {"stg_source_row", "stg_rejected_row"} -> {"client", "batch"}
      [] table = "fact_campaign_day"     -> {"client", "batch", "processing_run",
                                             "rate_card_rule"} \cup Versions
      [] table = "fact_campaign_day_history" -> {"client", "processing_run"}
      [] table = "publication"           -> {"client", "processing_run"}
      [] table \in {"publication_fact", "publication_current"}
                                         -> {"client", "publication"}
      [] table = "qa_finding"            -> {"client", "processing_run", "batch"}
      [] table \in {"client_membership", "excel_workbook_grant"}
                                         -> {"client", "app_user"}
      [] table \in {"publisher_session", "other_membership"} -> {"app_user"}
      [] OTHER                           -> {}

\* _SQL_PURGE_STEPS with the orphan step; the SQL function has the same order.
PurgeSteps == <<
    "analytics_saved_analysis", "excel_workbook_grant", "publication_current",
    "publication_history_grain", "publication_fact", "publication",
    "qa_finding", "fact_campaign_day", "fact_campaign_day_history",
    "processing_run", "stg_source_row", "stg_rejected_row", "batch",
    "campaign_label_row", "label_group_member", "template_label_row",
    "rate_card_rule", "campaign_label_version", "label_group_version",
    "template_label_version", "rate_card_version", "source_file",
    "client_membership", "app_user", "audit_log", "client" >>

TenantTables == {PurgeSteps[i] : i \in DOMAIN PurgeSteps}

\* The transactions of each kind of writer, each with the tables it inserts.
\* "join" makes the company's only user a member of another company.
Kinds == {"upload", "publish", "configure", "refresh", "save", "join"}
Transactions(kind) ==
    CASE kind = "upload"    -> << {"source_file", "batch"},
                                  {"stg_source_row", "stg_rejected_row"},
                                  {"processing_run"},
                                  {"fact_campaign_day", "qa_finding"} >>
      [] kind = "publish"   -> << {"publication", "publication_fact",
                                   "publication_current", "publication_history_grain"} >>
      [] kind = "configure" -> << {"source_file", "campaign_label_version",
                                   "campaign_label_row"} >>
      [] kind = "refresh"   -> << {"excel_workbook_grant"} >>
      [] kind = "save"      -> << {"analytics_saved_analysis"} >>
      [] kind = "join"      -> << {"other_membership"} >>

Inserted(kind) == UNION {Transactions(kind)[i] : i \in DOMAIN Transactions(kind)}

AllTables == TenantTables \cup {"publisher_session", "other_membership"}
Children  == [t \in AllTables |-> {c \in AllTables : t \in Refers(c)}]
Parents   == [t \in AllTables |-> Refers(t)]
TablesOf  == [kind \in Kinds |-> Inserted(kind)]

\* A row refers to rows of its own writer where that writer makes them, and to
\* the seed's rows otherwise.
OwnerOf(table, w) ==
    IF w # Seed /\ job[w].kind # "none" /\ table \in TablesOf[job[w].kind]
    THEN w ELSE Seed

-----------------------------------------------------------------------------
Nothing   == [t \in AllTables |-> {}]
NoRemoval == [pc |-> "idle", by |-> "api", step |-> 1, gone |-> Nothing, orphan |-> FALSE]
Idle      == [pc |-> "idle", kind |-> "none", step |-> 1]
Exists    == Seed \in rows["client"]
Has(table, w) == w \in rows[table] \ removal.gone[table]

\* A company with rows everywhere; its one sole member may have had Publisher
\* sessions.
Init ==
    /\ status = "active" /\ eligible = FALSE
    /\ \E sessions \in {{}, {Seed}} :
         rows = [t \in AllTables |-> CASE t = "publisher_session" -> sessions
                                       [] t = "other_membership"  -> {}
                                       [] OTHER                   -> {Seed}]
    /\ archive = {Seed}
    /\ removal = NoRemoval
    /\ job = [w \in Writers |-> Idle]

\* deactivate_client, reactivate_client: nothing that runs is cancelled.
Deactivate ==
    /\ Exists /\ status = "active"
    /\ status' = "inactive"
    /\ UNCHANGED <<eligible, rows, archive, removal, job>>

\* Refused with 404 or 200 otherwise.  The UPDATE waits for a DELETE of the row.
Reactivate ==
    /\ Has("client", Seed) /\ status = "inactive"
    /\ status' = "active" /\ eligible' = FALSE
    /\ UNCHANGED <<rows, archive, removal, job>>

RetentionEnds ==
    /\ status = "inactive" /\ ~eligible /\ eligible' = TRUE
    /\ UNCHANGED <<status, rows, archive, removal, job>>

-----------------------------------------------------------------------------
\* require_company_active: an unknown company is left to the caller.
CompanyActive == Exists => status = "active"

\* A writer passes the check, is then registered as in flight, then commits
\* its transactions one by one.
WriterStart(w, kind) ==
    /\ job[w].pc = "idle" /\ CompanyActive /\ Exists
    /\ job' = [job EXCEPT ![w] = [pc |-> "checked", kind |-> kind, step |-> 1]]
    /\ UNCHANGED <<status, eligible, rows, archive, removal>>

\* An upload archives its file before it writes any row.
WriterRegister(w) ==
    /\ job[w].pc = "checked"
    /\ job' = [job EXCEPT ![w].pc = "running"]
    /\ archive' = IF job[w].kind = "upload" THEN archive \cup {w} ELSE archive
    /\ UNCHANGED <<status, eligible, rows, removal>>

NewTables(w) == Transactions(job[w].kind)[job[w].step]
Required(w)  == (UNION {Parents[t] : t \in NewTables(w)}) \ NewTables(w)

\* The insert waits while a row it refers to is deleted and not committed.
WriterCommit(w) ==
    /\ job[w].pc = "running" /\ \A p \in Required(w) : Has(p, OwnerOf(p, w))
    /\ rows' = [t \in AllTables |-> IF t \in NewTables(w) THEN rows[t] \cup {w} ELSE rows[t]]
    /\ job' = IF job[w].step = Len(Transactions(job[w].kind))
              THEN [job EXCEPT ![w].pc = "done"] ELSE [job EXCEPT ![w].step = @ + 1]
    /\ UNCHANGED <<status, eligible, archive, removal>>

WriterFails(w) ==
    /\ job[w].pc = "running" /\ \E p \in Required(w) : OwnerOf(p, w) \notin rows[p]
    /\ job' = [job EXCEPT ![w].pc = "done"]
    /\ UNCHANGED <<status, eligible, rows, archive, removal>>

-----------------------------------------------------------------------------
\* has_in_flight_for_client and has_in_flight_publish, of this process.
UploadInFlight  == \E w \in Writers : job[w].pc = "running" /\ job[w].kind = "upload"
PublishInFlight == \E w \in Writers : job[w].pc = "running" /\ job[w].kind = "publish"
InFlight == UploadInFlight \/ PublishInFlight
RunActive == \E w \in Writers : job[w].pc = "running" /\ w \in rows["processing_run"]

\* delete_company up to the transaction: gone already, active and busy
\* companies are answered at once.
DeleteRequested ==
    /\ removal.pc = "idle" /\ Exists /\ status = "inactive"
    /\ ~InFlight
    /\ removal' = [NoRemoval EXCEPT !.pc = "begin"]
    /\ UNCHANGED <<status, eligible, rows, archive, job>>

\* purge_company: eligibility is looked at once.
PurgeRequested ==
    /\ removal.pc = "idle" /\ Exists /\ status = "inactive" /\ eligible
    /\ removal' = [NoRemoval EXCEPT !.pc = "begin", !.by = "cli"]
    /\ UNCHANGED <<status, eligible, rows, archive, job>>

\* Users to delete: members of this company only (collect_inventory, and the
\* array orphan_ids of the function, which also looks at status and runs again).
Memberships == rows["client_membership"] \cup rows["other_membership"]
NoMember    == Memberships = {}   \* Mutant: counted as after the removal.
SoleMember  == Cardinality(Memberships) = 1

Begin ==
    /\ removal.pc = "begin"
    /\ removal' =
         IF removal.by = "api" /\ (status # "inactive" \/ RunActive) THEN NoRemoval
         ELSE [removal EXCEPT !.pc = "delete",
                              !.orphan = SoleMember]
    /\ UNCHANGED <<status, eligible, rows, archive, job>>

\* Mutant: the runs before the facts.
TableRunsFirst == [PurgeSteps EXCEPT ![8] = "processing_run",
                                     ![10] = "fact_campaign_day"][removal.step]
Table == PurgeSteps[removal.step]

Left(table) == rows[table] \ removal.gone[table]

\* What the statement of this step deletes: every committed row of the table;
\* for app_user only an orphan that still has no membership.
Victims ==
    IF Table # "app_user"
       \/ (removal.orphan /\ Left("client_membership") \cup Left("other_membership") = {})
    THEN Left(Table) ELSE {}

\* Rows of other tables that still refer to a victim.
Blocking == {r \in Children[Table] \X (Writers \cup {Seed}) :
                Has(r[1], r[2]) /\ OwnerOf(Table, r[2]) \in Victims}

DeleteStep ==
    /\ removal.pc = "delete" /\ Blocking = {}
    /\ removal' = [removal EXCEPT !.gone[Table] = @ \cup Victims,
                                  !.step = IF @ = Len(PurgeSteps) THEN @ ELSE @ + 1,
                                  !.pc = IF removal.step = Len(PurgeSteps)
                                         THEN "commit" ELSE "delete"]
    /\ UNCHANGED <<status, eligible, rows, archive, job>>

\* A foreign key refuses the statement, or the connection fails: rolled back.
DeleteFails ==
    /\ removal.pc \in {"delete", "commit"}
    /\ removal' = NoRemoval
    /\ UNCHANGED <<status, eligible, rows, archive, job>>

DeleteCommit ==
    /\ removal.pc = "commit"
    /\ rows' = [t \in AllTables |-> Left(t)]
    /\ removal' = [NoRemoval EXCEPT !.pc = "archive", !.by = removal.by]
    /\ UNCHANGED <<status, eligible, archive, job>>

\* _purge_store(source_store) and remove_tenant_archive: after the commit, and
\* never tried again when it fails, for the company is gone by then.
RemoveArchiveFirst ==   \* Mutant: before the transaction is committed.
    /\ removal.pc \in {"commit", "archive"}
    /\ archive' = {} /\ removal' = NoRemoval
    /\ UNCHANGED <<status, eligible, rows, job>>

RemoveArchive ==
    /\ removal.pc = "archive"
    /\ archive' = {} /\ removal' = NoRemoval
    /\ UNCHANGED <<status, eligible, rows, job>>

ArchiveRemovalFails ==
    /\ removal.pc = "archive" /\ removal' = NoRemoval
    /\ UNCHANGED <<status, eligible, rows, archive, job>>

-----------------------------------------------------------------------------
Next ==
    \/ Deactivate \/ Reactivate \/ RetentionEnds
    \/ \E w \in Writers : \/ \E kind \in Kinds : WriterStart(w, kind)
                          \/ WriterRegister(w) \/ WriterCommit(w) \/ WriterFails(w)
    \/ DeleteRequested \/ PurgeRequested \/ Begin \/ DeleteStep \/ DeleteFails
    \/ DeleteCommit \/ RemoveArchive \/ ArchiveRemovalFails

Spec == Init /\ [][Next]_vars

-----------------------------------------------------------------------------
TypeOK ==
    /\ status \in {"active", "inactive"} /\ eligible \in BOOLEAN
    /\ rows \in [AllTables -> SUBSET (Writers \cup {Seed})]
    /\ archive \subseteq Writers \cup {Seed}
    /\ removal \in [pc : {"idle", "begin", "delete", "commit", "archive"},
                    by : {"api", "cli"}, step : DOMAIN PurgeSteps,
                    gone : [AllTables -> SUBSET (Writers \cup {Seed})], orphan : BOOLEAN]
    /\ \A t \in AllTables : removal.gone[t] \subseteq rows[t]
    /\ job \in [Writers -> [pc : {"idle", "checked", "running", "done"},
                            kind : Kinds \cup {"none"}, step : 1..4]]

\* The order of the statements never runs into a foreign key by itself: a
\* statement is refused only for rows that came after the removal had passed
\* their table, or for Publisher sessions, which no statement removes.
OrderRespectsForeignKeys ==
    removal.pc = "delete" =>
      \A r \in Blocking : r[2] # Seed \/ r[1] = "publisher_session"

\* As long as a source file is on record its bytes are in the archive: uploads
\* archive first, removals delete the rows first.
SourceFilesAreArchived ==
    \A w \in rows["source_file"] :
      w = Seed \/ job[w].kind = "upload" => w \in archive

\* A removed company leaves no account without a company behind.
NoStrandedUser ==
    rows["app_user"] # {} => rows["client_membership"] \cup rows["other_membership"] # {}
=============================================================================
