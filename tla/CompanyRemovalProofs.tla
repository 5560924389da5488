------------------------ MODULE CompanyRemovalProofs ------------------------
(***************************************************************************)
(* What holds of the removal of a company beside any number of writers,    *)
(* and of a backup taken meanwhile.  The argument follows the transaction: *)
(* no statement meets a foreign key of the rows that were there first, the *)
(* company's own row goes last and only when nothing names it, writers     *)
(* need that row, and only then are the files removed.                     *)
(***************************************************************************)
EXTENDS Backup, FiniteSetTheorems, TLAPS

(* Writers and the rows there were at the start; the types of a writer's    *)
(* job and of a removal.                                                    *)
Owners == Writers \cup {Seed}

Works == [pc : {"idle", "checked", "running", "done"}, kind : Kinds \cup {"none"}, step : 1..4]

Removals == [pc : {"idle", "begin", "delete", "commit", "archive"}, by : {"api", "cli"},
             step : 1..26, gone : [AllTables -> SUBSET Owners], orphan : BOOLEAN]

(* A writer that has started is of a kind, and at one of its transactions.  *)
WorkFits ==
    \A w \in Writers : job[w].pc # "idle" =>
      job[w].kind \in Kinds /\ job[w].step <= Len(Transactions(job[w].kind))

(* Rows of a writer come from its transactions; nobody inserts a company,   *)
(* its members or their accounts, and no member at the start is elsewhere.  *)
RowsAreInserted ==
    /\ \A t \in AllTables, w \in Writers : w \in rows[t] => job[w].pc \in {"running", "done"}
    /\ \A t \in {"client", "client_membership", "app_user"} : rows[t] \subseteq {Seed}
    /\ Seed \notin rows["other_membership"]

(* The tables the removal has been through.                                 *)
Passed == {i \in 1..26 : i < removal.step \/ removal.pc = "commit"}

(* What the transaction of a removal has deleted so far.                    *)
RemovalIsOrderly ==
    /\ removal.pc \in {"begin", "delete", "commit"} => Exists
    /\ removal.pc \notin {"delete", "commit"} => removal.gone = Nothing /\ removal.step = 1
    /\ removal.gone["other_membership"] = {}
    /\ removal.pc = "delete" => removal.gone["client"] = {}
    /\ removal.pc \in {"delete", "commit"} =>
         \A i \in Passed : i # 24 => Seed \notin Left(PurgeSteps[i])

(* When the company's row goes, no row is left that names it, nor does a    *)
(* late writer add one.                                                     *)
NothingNamesTheCompany ==
    ~Exists => \A t \in Children["client"] : rows[t] = {}

(* While the company is there an upload that is about to record its file    *)
(* has the bytes stored; the archive goes after the company's row.          *)
ArchiveGoesLast ==
    /\ removal.pc = "commit" => \A t \in Children["client"] : Left(t) = {}
    /\ removal.pc = "archive" => ~Exists
    /\ \A w \in Writers :
         job[w].pc = "running" /\ job[w].kind = "upload" /\ job[w].step = 1 /\ Exists
           => w \in archive

(* Accounts go with the last membership.                                    *)
AccountsFollow ==
    /\ Exists => rows["client_membership"] = {Seed}
    /\ removal.pc = "delete" /\ ~removal.orphan => rows["other_membership"] # {}
    /\ removal.pc \in {"delete", "commit"} /\ 24 \in Passed =>
         (Left("app_user") # {} => rows["other_membership"] # {})

RemovalInv ==
    /\ TypeOK /\ WorkFits /\ RowsAreInserted /\ RemovalIsOrderly
    /\ NothingNamesTheCompany /\ ArchiveGoesLast /\ SourceFilesAreArchived
    /\ AccountsFollow /\ NoStrandedUser

-----------------------------------------------------------------------------
(* The purge has 26 steps; the tables the argument names and their places.  *)
LEMMA Steps ==
    /\ Len(PurgeSteps) = 26 /\ DOMAIN PurgeSteps = 1..26
    /\ PurgeSteps[22] = "source_file" /\ PurgeSteps[23] = "client_membership"
    /\ PurgeSteps[24] = "app_user" /\ PurgeSteps[26] = "client"
    /\ \A i \in 1..26 : /\ PurgeSteps[i] = "source_file" => i = 22
                        /\ PurgeSteps[i] = "client_membership" => i = 23
                        /\ PurgeSteps[i] = "app_user" => i = 24
                        /\ PurgeSteps[i] = "client" => i = 26
                        /\ PurgeSteps[i] # "other_membership"
BY DEF PurgeSteps

(* The tables the argument names are tables.                                *)
LEMMA Tables ==
    /\ \A i \in 1..26 : PurgeSteps[i] \in AllTables
    /\ "other_membership" \in AllTables /\ "client" \in AllTables
    /\ "source_file" \in AllTables /\ "client_membership" \in AllTables /\ "app_user" \in AllTables
    /\ Children["client"] \subseteq AllTables /\ "source_file" \in Children["client"]
BY Steps DEF AllTables, TenantTables, Children, Refers

(* The type invariant with the sets of this module.                         *)
LEMMA Typing ==
    TypeOK <=> /\ status \in {"active", "inactive"} /\ eligible \in BOOLEAN
               /\ rows \in [AllTables -> SUBSET Owners]
               /\ archive \subseteq Owners
               /\ removal \in Removals
               /\ \A t \in AllTables : removal.gone[t] \subseteq rows[t]
               /\ job \in [Writers -> Works]
BY Steps DEF TypeOK, Removals, Works, Owners

(* What a transaction inserts: never a company, a member or an account, and *)
(* a source file only in the first one.                                     *)
LEMMA Inserts ==
    ASSUME NEW kind \in Kinds
    PROVE  /\ Len(Transactions(kind)) \in 1..4
           /\ \A i \in 1..Len(Transactions(kind)) :
                /\ "client" \notin Transactions(kind)[i]
                /\ "app_user" \notin Transactions(kind)[i]
                /\ "client_membership" \notin Transactions(kind)[i]
                /\ "source_file" \in Transactions(kind)[i]
                     => i = 1 /\ kind \in {"upload", "configure"}
<1>1. CASE kind = "upload"
  <2>1. Transactions(kind) = << {"source_file", "batch"},
                                  {"stg_source_row", "stg_rejected_row"},
                                  {"processing_run"},
                                  {"fact_campaign_day", "qa_finding"} >>
    BY <1>1 DEF Transactions
  <2> QED
    BY <1>1, <2>1
<1>2. CASE kind # "upload"
  <2>1. \E S : Transactions(kind) = <<S>> /\ "client" \notin S /\ "app_user" \notin S
                /\ "client_membership" \notin S /\ ("source_file" \in S => kind = "configure")
    BY <1>2 DEF Transactions, Kinds
  <2> QED
    BY <2>1
<1> QED
  BY <1>1, <1>2

(* No writer makes a row of the company table.                              *)
LEMMA CompanyIsNotInserted ==
    \A kind \in Kinds : "client" \notin TablesOf[kind]
BY Inserts DEF TablesOf, Inserted

(* Every table that refers to a table is purged before it, but for the two  *)
(* that the purge leaves alone.                                             *)
LEMMA Order ==
    ASSUME NEW s \in 1..26, NEW c \in AllTables, PurgeSteps[s] \in Refers(c)
    PROVE  \/ c \in {"publisher_session", "other_membership"}
           \/ /\ c # "app_user"
              /\ \E i \in 1..26 : i < s /\ PurgeSteps[i] = c
<1>1. ASSUME NEW k \in 1..26, c = PurgeSteps[k]
      PROVE  c # "app_user" /\ k < s
  <2>1. CASE k \in 1..6
    BY <1>1, <2>1 DEF PurgeSteps, Refers
  <2>2. CASE k \in 7..10
    BY <1>1, <2>2 DEF PurgeSteps, Refers, Versions
  <2>3. CASE k \in 11..16
    BY <1>1, <2>3 DEF PurgeSteps, Refers
  <2>4. CASE k \in 17..21
    BY <1>1, <2>4 DEF PurgeSteps, Refers
  <2>5. CASE k \in 22..26
    BY <1>1, <2>5 DEF PurgeSteps, Refers
  <2> QED
    BY <2>1, <2>2, <2>3, <2>4, <2>5
<1>2. c \in {"publisher_session", "other_membership"} \/ \E k \in 1..26 : c = PurgeSteps[k]
  BY Steps DEF AllTables, TenantTables
<1> QED
  BY <1>1, <1>2

-----------------------------------------------------------------------------
(* The inductive invariant. *)

(* A company as it is at the start satisfies the invariant.                 *)
LEMMA RemovalInit == Init => RemovalInv
<1> SUFFICES ASSUME Init PROVE RemovalInv
  OBVIOUS
<1>1. PICK sessions \in {{}, {Seed}} :
        rows = [t \in AllTables |-> CASE t = "publisher_session" -> sessions
                                      [] t = "other_membership"  -> {}
                                      [] OTHER                   -> {Seed}]
  BY DEF Init
<1>2. /\ \A t \in AllTables : rows[t] \subseteq {Seed}
      /\ \A t \in {"client", "client_membership", "app_user", "source_file"} : rows[t] = {Seed}
      /\ rows["other_membership"] = {}
      /\ rows \in [AllTables -> SUBSET Owners]
  BY <1>1, Tables DEF Owners
<1>3. removal = NoRemoval /\ job = [w \in Writers |-> Idle] /\ archive = {Seed}
  BY DEF Init
<1>4. TypeOK
  <2>1. removal.gone = Nothing /\ Nothing \in [AllTables -> SUBSET Owners]
    BY <1>3 DEF NoRemoval, Nothing
  <2>2. removal \in Removals
    BY <1>3, <2>1 DEF NoRemoval, Removals
  <2>3. \A t \in AllTables : removal.gone[t] \subseteq rows[t]
    BY <2>1 DEF Nothing
  <2> QED
    <3>1. job \in [Writers -> Works]
      BY <1>3 DEF Idle, Works
    <3>2. status \in {"active", "inactive"} /\ eligible \in BOOLEAN /\ archive \subseteq Owners
      BY DEF Init, Owners
    <3> QED
      BY <1>2, <2>2, <2>3, <3>1, <3>2, Typing
<1>5. WorkFits /\ RowsAreInserted /\ SourceFilesAreArchived
  BY <1>2, <1>3, Tables, SeedIsNoWriter
     DEF Idle, WorkFits, RowsAreInserted, SourceFilesAreArchived
<1>6. /\ RemovalIsOrderly /\ ArchiveGoesLast /\ NothingNamesTheCompany /\ AccountsFollow
      /\ NoStrandedUser
  BY <1>2, <1>3, Tables
     DEF RemovalIsOrderly, ArchiveGoesLast, NothingNamesTheCompany, AccountsFollow,
         NoStrandedUser, NoRemoval, Nothing, Exists, Idle
<1> QED
  BY <1>4, <1>5, <1>6 DEF RemovalInv

(* The parts of the invariant that speak of rows and the removal only.      *)
LEMMA SameRemoval ==
    ASSUME RemovalInv, UNCHANGED <<rows, removal>>
    PROVE  RemovalIsOrderly' /\ NothingNamesTheCompany' /\ AccountsFollow' /\ NoStrandedUser'
BY DEF RemovalInv, RemovalIsOrderly, NothingNamesTheCompany, AccountsFollow, NoStrandedUser,
       Exists, Left, Passed

(* Deactivation and reactivation touch neither rows nor removal.            *)
LEMMA LifecycleStep ==
    ASSUME RemovalInv, Deactivate \/ Reactivate \/ RetentionEnds \/ UNCHANGED vars
    PROVE  RemovalInv'
<1>1. UNCHANGED <<rows, archive, removal, job>>
  BY DEF Deactivate, Reactivate, RetentionEnds, vars
<1>2. status' \in {"active", "inactive"} /\ eligible' \in BOOLEAN
  BY DEF Deactivate, Reactivate, RetentionEnds, vars, RemovalInv, TypeOK
<1>3. TypeOK'
  BY <1>1, <1>2 DEF RemovalInv, TypeOK
<1>4. WorkFits' /\ RowsAreInserted' /\ SourceFilesAreArchived' /\ ArchiveGoesLast'
  BY <1>1 DEF RemovalInv, WorkFits, RowsAreInserted, SourceFilesAreArchived, ArchiveGoesLast,
              Exists, Left
<1> QED
  BY <1>1, <1>3, <1>4, SameRemoval DEF RemovalInv

(* A request that starts has no row yet.                                    *)
LEMMA StartStep ==
    ASSUME RemovalInv, NEW w \in Writers, NEW kind \in Kinds, WriterStart(w, kind)
    PROVE  RemovalInv'
<1>1. /\ UNCHANGED <<status, eligible, rows, archive, removal>> /\ job[w].pc = "idle"
      /\ job' = [job EXCEPT ![w] = [pc |-> "checked", kind |-> kind, step |-> 1]]
  BY DEF WriterStart
<1>2. /\ job'[w] = [pc |-> "checked", kind |-> kind, step |-> 1]
      /\ \A v \in Writers \ {w} : job'[v] = job[v]
  BY <1>1 DEF RemovalInv, TypeOK
<1>3. TypeOK'
  <2>1. [pc |-> "checked", kind |-> kind, step |-> 1]
          \in [pc : {"idle", "checked", "running", "done"}, kind : Kinds \cup {"none"}, step : 1..4]
    OBVIOUS
  <2>2. job' \in [Writers -> [pc : {"idle", "checked", "running", "done"},
                             kind : Kinds \cup {"none"}, step : 1..4]]
    BY <1>1, <2>1 DEF RemovalInv, TypeOK
  <2> QED
    BY <1>1, <2>2 DEF RemovalInv, TypeOK
<1>4. \A t \in AllTables : w \notin rows[t]
  <2>1. \A t \in AllTables : w \in rows[t] => job[w].pc \in {"running", "done"}
    BY DEF RemovalInv, RowsAreInserted
  <2>2. job[w].pc \notin {"running", "done"}
    BY <1>1
  <2> QED
    BY <2>1, <2>2
<1>5. WorkFits'
  <2>1. job'[w].kind = kind /\ job'[w].step = 1
    BY <1>2
  <2>2. 1 <= Len(Transactions(kind))
    BY Inserts
  <2>3. \A v \in Writers \ {w} : job'[v].pc # "idle" =>
          job'[v].kind \in Kinds /\ job'[v].step <= Len(Transactions(job'[v].kind))
    BY <1>2 DEF RemovalInv, WorkFits
  <2> QED
    BY <2>1, <2>2, <2>3 DEF WorkFits
<1>6. RowsAreInserted' /\ SourceFilesAreArchived'
  BY <1>1, <1>2, <1>4, Tables, SeedIsNoWriter
     DEF RemovalInv, RowsAreInserted, SourceFilesAreArchived, TypeOK
<1>7. ArchiveGoesLast'
  BY <1>1, <1>2 DEF RemovalInv, ArchiveGoesLast, Exists, Left
<1> QED
  BY <1>1, <1>3, <1>5, <1>6, <1>7, SameRemoval DEF RemovalInv

(* An upload that is registered has archived its file.                      *)
LEMMA RegisterStep ==
    ASSUME RemovalInv, NEW w \in Writers, WriterRegister(w)
    PROVE  RemovalInv'
<1>1. /\ UNCHANGED <<status, eligible, rows, removal>> /\ job[w].pc = "checked"
      /\ job' = [job EXCEPT ![w].pc = "running"]
      /\ archive' = IF job[w].kind = "upload" THEN archive \cup {w} ELSE archive
  BY DEF WriterRegister
<1>2. /\ job'[w] = [job[w] EXCEPT !.pc = "running"]
      /\ \A v \in Writers \ {w} : job'[v] = job[v]
      /\ \A v \in Writers : job'[v].kind = job[v].kind /\ job'[v].step = job[v].step
  BY <1>1 DEF RemovalInv, TypeOK
<1>3. archive \subseteq archive' /\ archive' \subseteq Owners
  BY <1>1 DEF RemovalInv, TypeOK, Owners
<1>4. TypeOK'
  BY <1>1, <1>3 DEF RemovalInv, TypeOK, Owners
<1>5. WorkFits' /\ RowsAreInserted'
  BY <1>1, <1>2 DEF RemovalInv, WorkFits, RowsAreInserted, TypeOK
<1>6. SourceFilesAreArchived'
  BY <1>1, <1>2, <1>3, Tables DEF RemovalInv, SourceFilesAreArchived, TypeOK
<1>7. ArchiveGoesLast'
  BY <1>1, <1>2, <1>3 DEF RemovalInv, ArchiveGoesLast, Exists, Left
<1> QED
  BY <1>1, <1>4, <1>5, <1>6, <1>7, SameRemoval DEF RemovalInv

(* A writer that gives up changes no row.                                   *)
LEMMA FailStep ==
    ASSUME RemovalInv, NEW w \in Writers, WriterFails(w)
    PROVE  RemovalInv'
<1>1. /\ UNCHANGED <<status, eligible, rows, archive, removal>> /\ job[w].pc = "running"
      /\ job' = [job EXCEPT ![w].pc = "done"]
  BY DEF WriterFails
<1>2. /\ job'[w] = [job[w] EXCEPT !.pc = "done"]
      /\ \A v \in Writers \ {w} : job'[v] = job[v]
      /\ \A v \in Writers : job'[v].kind = job[v].kind /\ job'[v].step = job[v].step
  BY <1>1 DEF RemovalInv, TypeOK
<1>3. TypeOK'
  BY <1>1 DEF RemovalInv, TypeOK
<1>4. WorkFits' /\ RowsAreInserted'
  BY <1>1, <1>2 DEF RemovalInv, WorkFits, RowsAreInserted, TypeOK
<1>5. SourceFilesAreArchived'
  BY <1>1, <1>2, Tables DEF RemovalInv, SourceFilesAreArchived, TypeOK
<1>6. ArchiveGoesLast'
  BY <1>1, <1>2 DEF RemovalInv, ArchiveGoesLast, Exists, Left
<1> QED
  BY <1>1, <1>3, <1>4, <1>5, <1>6, SameRemoval DEF RemovalInv

(* A row that names the company is inserted only while its row is there.    *)
LEMMA RecordsNeedTheCompany ==
    ASSUME RemovalInv, NEW w \in Writers, WriterCommit(w)
    PROVE  /\ NewTables(w) \cap {"client", "client_membership", "app_user"} = {}
           /\ NewTables(w) \cap Children["client"] # {} => Has("client", Seed)
           /\ "source_file" \in NewTables(w) => job[w].step = 1
<1>1. /\ job[w].pc = "running" /\ job[w].kind \in Kinds
      /\ job[w].step \in 1..Len(Transactions(job[w].kind))
  BY Inserts DEF WriterCommit, RemovalInv, WorkFits, TypeOK
<1>2. NewTables(w) \cap {"client", "client_membership", "app_user"} = {}
  BY <1>1, Inserts DEF NewTables
<1>3. ASSUME NEW t \in NewTables(w) \cap Children["client"] PROVE Has("client", Seed)
  <2>1. "client" \in Parents[t] /\ Parents[t] \in {Parents[u] : u \in NewTables(w)}
    BY <1>3, Tables DEF Parents, Children
  <2>2. "client" \in Required(w)
    BY <1>2, <2>1 DEF Required
  <2>3. OwnerOf("client", w) = Seed
    BY <1>1, CompanyIsNotInserted DEF OwnerOf
  <2> QED
    BY <2>2, <2>3 DEF WriterCommit
<1> QED
  BY <1>1, <1>2, <1>3, Inserts DEF NewTables

(* A commit adds rows of the writer; none of them names a removed company.  *)
LEMMA CommitStep ==
    ASSUME RemovalInv, NEW w \in Writers, WriterCommit(w)
    PROVE  RemovalInv'
<1>1. /\ UNCHANGED <<status, eligible, archive, removal>> /\ job[w].pc = "running"
      /\ rows' = [t \in AllTables |-> IF t \in NewTables(w) THEN rows[t] \cup {w} ELSE rows[t]]
      /\ job' = IF job[w].step = Len(Transactions(job[w].kind))
                THEN [job EXCEPT ![w].pc = "done"] ELSE [job EXCEPT ![w].step = @ + 1]
  BY DEF WriterCommit
<1>2. /\ job[w].kind \in Kinds /\ Len(Transactions(job[w].kind)) \in 1..4
      /\ job[w].step \in 1..Len(Transactions(job[w].kind))
  BY <1>1, Inserts DEF RemovalInv, WorkFits, TypeOK
<1>3. job[w] \in Works /\ job \in [Writers -> Works]
  BY Typing DEF RemovalInv
<1>4. /\ job'[w].kind = job[w].kind /\ job'[w].pc \in {"running", "done"}
      /\ job'[w].pc = "running" => job'[w].step # 1
      /\ job'[w].step <= Len(Transactions(job[w].kind)) /\ job'[w].step \in 1..4
      /\ \A v \in Writers \ {w} : job'[v] = job[v]
      /\ job' \in [Writers -> Works]
  <2>1. CASE job[w].step = Len(Transactions(job[w].kind))
    <3>1. job' = [job EXCEPT ![w].pc = "done"]
      BY <1>1, <2>1
    <3> QED
      BY <1>2, <1>3, <2>1, <3>1 DEF Works
  <2>2. CASE job[w].step # Len(Transactions(job[w].kind))
    <3>1. job' = [job EXCEPT ![w].step = @ + 1]
      BY <1>1, <2>2
    <3>2. job[w].step + 1 \in 1..4 /\ job[w].step + 1 <= Len(Transactions(job[w].kind))
      <4>1. \A n \in 1..4 : \A i \in 1..n : i # n => i + 1 \in 1..4 /\ i + 1 <= n
        OBVIOUS
      <4> QED
        BY <1>2, <2>2, <4>1
    <3> QED
      BY <1>1, <1>3, <3>1, <3>2 DEF Works
  <2> QED
    BY <2>1, <2>2
<1>5. /\ rows' \in [AllTables -> SUBSET Owners]
      /\ \A t \in AllTables : rows[t] \subseteq rows'[t] /\ rows'[t] \subseteq rows[t] \cup {w}
      /\ \A t \in {"client", "client_membership", "app_user"} : rows'[t] = rows[t]
      /\ \A t \in AllTables : Seed \in rows'[t] => Seed \in rows[t]
  BY <1>1, RecordsNeedTheCompany, Tables, SeedIsNoWriter DEF RemovalInv, TypeOK, Owners
<1>6. /\ "source_file" \in NewTables(w) \/ rows'["source_file"] = rows["source_file"]
      /\ ~Has("client", Seed) => \A t \in Children["client"] : rows'[t] = rows[t]
  BY <1>1, RecordsNeedTheCompany, Tables
<1>7. /\ \A t \in AllTables : Seed \in Left(t)' => Seed \in Left(t)
      /\ Left("app_user")' = Left("app_user") /\ (Exists' <=> Exists) /\ Passed' = Passed
  BY <1>1, <1>5, Tables DEF Left, Exists, Passed
<1>8. TypeOK'
  <2>1. archive' = archive /\ removal' = removal /\ status' = status /\ eligible' = eligible
    BY <1>1
  <2> QED
    BY <1>4, <1>5, <2>1, Typing DEF RemovalInv, Works, Removals, Owners, TypeOK
<1>9. WorkFits' /\ RowsAreInserted'
  <2>1. WorkFits'
    BY <1>2, <1>3, <1>4 DEF RemovalInv, WorkFits
  <2>2. RowsAreInserted'
    BY <1>3, <1>4, <1>5, Tables DEF RemovalInv, RowsAreInserted
  <2> QED
    BY <2>1, <2>2
<1>10. RemovalIsOrderly'
  BY <1>1, <1>7, Tables DEF RemovalInv, RemovalIsOrderly, Passed
<1>11. NothingNamesTheCompany' /\ ArchiveGoesLast'
  <2>1. ~Exists => ~Has("client", Seed)
    BY DEF Has, Exists
  <2>2. removal.pc = "commit" => ~Has("client", Seed)
    BY Steps DEF RemovalInv, RemovalIsOrderly, Passed, Left, Has
  <2>3. NothingNamesTheCompany'
    BY <1>6, <1>7, <2>1 DEF RemovalInv, NothingNamesTheCompany
  <2> QED
    BY <1>1, <1>3, <1>4, <1>6, <1>7, <2>2, <2>3 DEF RemovalInv, ArchiveGoesLast, Left
<1>12. SourceFilesAreArchived'
  <2>1. "source_file" \in NewTables(w) /\ job[w].kind = "upload" => w \in archive
    BY <1>1, RecordsNeedTheCompany, Tables DEF RemovalInv, ArchiveGoesLast, Has, Exists
  <2> QED
    BY <1>1, <1>3, <1>4, <1>5, <1>6, <2>1, Tables DEF RemovalInv, SourceFilesAreArchived
<1>13. AccountsFollow' /\ NoStrandedUser'
  BY <1>1, <1>5, <1>7, Tables DEF RemovalInv, AccountsFollow, NoStrandedUser
<1> QED
  BY <1>8, <1>9, <1>10, <1>11, <1>12, <1>13 DEF RemovalInv

-----------------------------------------------------------------------------
(* The steps of a removal. *)

LEMMA RequestStep ==
    ASSUME RemovalInv, DeleteRequested \/ PurgeRequested
    PROVE  RemovalInv'
<1>1. /\ UNCHANGED <<status, eligible, rows, archive, job>> /\ Exists
      /\ removal' \in {[NoRemoval EXCEPT !.pc = "begin"],
                       [NoRemoval EXCEPT !.pc = "begin", !.by = "cli"]}
  BY DEF DeleteRequested, PurgeRequested
<1>2. /\ removal'.pc = "begin" /\ removal'.by \in {"api", "cli"} /\ removal'.step = 1
      /\ removal'.gone = Nothing /\ removal'.orphan = FALSE
  BY <1>1 DEF NoRemoval
<1>3. TypeOK' /\ RemovalIsOrderly'
  <2>1. Nothing \in [AllTables -> SUBSET Owners] /\ Nothing["other_membership"] = {}
    BY Tables DEF Nothing
  <2>2. removal' \in Removals
    <3>1. \E b \in {"api", "cli"} : removal' =
             [pc |-> "begin", by |-> b, step |-> 1, gone |-> Nothing, orphan |-> FALSE]
      BY <1>1 DEF NoRemoval
    <3> QED
      BY <2>1, <3>1 DEF Removals
  <2>3. \A t \in AllTables : removal'.gone[t] \subseteq rows'[t]
    BY <1>2 DEF Nothing
  <2> QED
    <3>1. TypeOK'
      BY <1>1, <2>2, <2>3, Typing, Steps DEF RemovalInv, TypeOK, Removals, Owners
    <3> QED
      BY <1>1, <1>2, <2>1, <3>1 DEF RemovalIsOrderly, Exists
<1>4. WorkFits' /\ RowsAreInserted' /\ ArchiveGoesLast' /\ SourceFilesAreArchived'
  BY <1>1, <1>2 DEF RemovalInv, WorkFits, RowsAreInserted, ArchiveGoesLast,
                    SourceFilesAreArchived, Exists
<1>5. NothingNamesTheCompany' /\ AccountsFollow' /\ NoStrandedUser'
  BY <1>1, <1>2 DEF RemovalInv, NothingNamesTheCompany, AccountsFollow, NoStrandedUser, Exists
<1> QED
  BY <1>3, <1>4, <1>5 DEF RemovalInv

(* A removal that ends without a commit leaves everything as it was.        *)
LEMMA AbandonStep ==
    ASSUME RemovalInv, UNCHANGED <<status, eligible, rows, archive, job>>, removal' = NoRemoval
    PROVE  RemovalInv'
<1>1. /\ NoRemoval \in Removals /\ NoRemoval.pc = "idle" /\ NoRemoval.gone = Nothing
      /\ NoRemoval.step = 1 /\ Nothing["other_membership"] = {}
  BY Tables DEF NoRemoval, Removals, Nothing
<1>2. TypeOK'
  BY <1>1, Typing, Steps DEF RemovalInv, TypeOK, Removals, Owners, Nothing
<1>3. WorkFits' /\ RowsAreInserted' /\ NothingNamesTheCompany' /\ SourceFilesAreArchived'
  BY DEF RemovalInv, WorkFits, RowsAreInserted, NothingNamesTheCompany, SourceFilesAreArchived,
         Exists
<1>4. RemovalIsOrderly' /\ ArchiveGoesLast' /\ AccountsFollow' /\ NoStrandedUser'
  BY <1>1 DEF RemovalInv, RemovalIsOrderly, ArchiveGoesLast, AccountsFollow, NoStrandedUser,
              Exists
<1> QED
  BY <1>2, <1>3, <1>4 DEF RemovalInv

(* The sole member's account is marked for deletion; any other company that *)
(* has a member by now is one more membership.                              *)
LEMMA BeginStep ==
    ASSUME RemovalInv, Begin
    PROVE  RemovalInv'
<1>1. /\ UNCHANGED <<status, eligible, rows, archive, job>> /\ removal.pc = "begin"
      /\ removal.gone = Nothing /\ removal.step = 1 /\ Exists /\ removal \in Removals
  BY Typing DEF Begin, RemovalInv, RemovalIsOrderly
<1>2. SoleMember \in BOOLEAN /\ (~SoleMember => rows["other_membership"] # {})
  <2>1. rows["other_membership"] = {} => Memberships = {Seed}
    BY <1>1 DEF RemovalInv, AccountsFollow, Memberships
  <2> QED
    BY <2>1, FS_Singleton DEF SoleMember
<1>3. CASE removal' = NoRemoval
  BY <1>1, <1>3, AbandonStep
<1>4. CASE removal' = [removal EXCEPT !.pc = "delete", !.orphan = SoleMember]
  <2>1. /\ removal' \in Removals /\ removal'.gone = Nothing /\ removal'.pc = "delete"
        /\ removal'.orphan = SoleMember /\ removal'.step = 1
    BY <1>1, <1>2, <1>4 DEF Removals
  <2>2. Passed' = {} /\ Nothing["client"] = {} /\ Nothing["other_membership"] = {}
    BY <2>1, Tables DEF Passed, Nothing
  <2>3. TypeOK'
    BY <1>1, <2>1, Typing, Steps DEF RemovalInv, TypeOK, Removals, Owners, Nothing
  <2>4. WorkFits' /\ RowsAreInserted' /\ NothingNamesTheCompany' /\ SourceFilesAreArchived'
    BY <1>1 DEF RemovalInv, WorkFits, RowsAreInserted, NothingNamesTheCompany,
              SourceFilesAreArchived, Exists
  <2>5. RemovalIsOrderly' /\ ArchiveGoesLast' /\ AccountsFollow' /\ NoStrandedUser'
    BY <1>1, <1>2, <2>1, <2>2
       DEF RemovalInv, RemovalIsOrderly, ArchiveGoesLast, AccountsFollow, NoStrandedUser, Exists
  <2> QED
    BY <2>3, <2>4, <2>5 DEF RemovalInv
<1> QED
  BY <1>3, <1>4 DEF Begin

(* The company's row goes last, and only when nothing refers to it.         *)
LEMMA CompanyGoesAlone ==
    ASSUME RemovalInv, DeleteStep, removal.step = 26, NEW t \in Children["client"]
    PROVE  Left(t) = {}
<1>1. /\ Table = "client" /\ Seed \in rows["client"] /\ removal.gone["client"] = {}
      /\ Blocking = {}
  BY Steps DEF Table, RemovalInv, RemovalIsOrderly, DeleteStep, Exists
<1>2. Victims = Left("client") /\ Seed \in Victims
  BY <1>1 DEF Victims, Left
<1>3. ASSUME NEW w \in Owners PROVE OwnerOf("client", w) = Seed
  <2>1. w \in Writers /\ job[w].kind # "none" => job[w].kind \in Kinds
    BY Typing DEF RemovalInv, Works
  <2> QED
    BY <1>3, <2>1, CompanyIsNotInserted DEF OwnerOf, Owners
<1>4. ASSUME NEW w \in Left(t) PROVE FALSE
  <2>1. w \in Owners /\ Has(t, w)
    BY Typing, Tables DEF RemovalInv, Left, Has
  <2>2. <<t, w>> \in Blocking
    BY <1>1, <1>2, <1>3, <2>1 DEF Blocking, Owners
  <2> QED
    BY <1>1, <2>2
<1> QED
  BY <1>4

(* A statement of the purge: one more table is passed.                      *)
LEMMA DeleteStepStep ==
    ASSUME RemovalInv, DeleteStep
    PROVE  RemovalInv'
<1>1. /\ UNCHANGED <<status, eligible, rows, archive, job>> /\ removal.pc = "delete"
      /\ removal \in Removals /\ removal.step \in 1..26 /\ Table \in AllTables /\ Exists
  BY Typing, Tables DEF DeleteStep, RemovalInv, RemovalIsOrderly, Removals, Table
<1> PICK s \in 1..26 : s = removal.step
  BY <1>1
<1> PICK table \in AllTables : table = Table
  BY <1>1
<1> PICK victims \in SUBSET Left(table) : victims = Victims
  BY DEF Victims
<1>2. table = PurgeSteps[s] /\ (s # 24 => victims = Left(table))
  BY <1>1, Steps DEF Victims, Table
<1>3. /\ removal'.gone = [removal.gone EXCEPT ![table] = @ \cup victims]
      /\ removal'.step = IF s = 26 THEN s ELSE s + 1
      /\ removal'.pc = IF s = 26 THEN "commit" ELSE "delete"
      /\ removal'.orphan = removal.orphan
      /\ removal' \in Removals
  <2>1. victims \subseteq Owners
    BY <1>1, Typing DEF RemovalInv, Left
  <2> DEFINE gone == [removal.gone EXCEPT ![table] = @ \cup victims]
             step == IF s = 26 THEN s ELSE s + 1
             place == IF s = 26 THEN "commit" ELSE "delete"
  <2>2. removal' = [removal EXCEPT !.gone = gone, !.step = step, !.pc = place]
    BY <1>1, Steps DEF DeleteStep, Removals
  <2>3. gone \in [AllTables -> SUBSET Owners]
    BY <1>1, <2>1 DEF Removals
  <2>4. step \in 1..26 /\ place \in {"commit", "delete"}
    OBVIOUS
  <2> HIDE DEF gone, step, place
  <2>5. removal' \in Removals /\ removal'.gone = gone /\ removal'.step = step
        /\ removal'.pc = place /\ removal'.orphan = removal.orphan
    BY <1>1, <2>2, <2>3, <2>4 DEF Removals
  <2> QED
    BY <2>5 DEF gone, step, place
<1>4. /\ Left(table)' = Left(table) \ victims
      /\ \A t \in AllTables \ {table} : Left(t)' = Left(t) /\ removal'.gone[t] = removal.gone[t]
      /\ \A t \in AllTables : Left(t)' \subseteq Left(t)
  BY <1>1, <1>3 DEF Left, Removals
<1>5. Passed' = Passed \cup {s} /\ s \notin Passed
  BY <1>1, <1>3 DEF Passed
<1>6. TypeOK'
  <2>1. \A t \in AllTables : removal'.gone[t] \subseteq rows[t]
    BY <1>1, <1>2, <1>3, Typing DEF RemovalInv, Left, Removals
  <2> QED
    BY <1>1, <1>3, <2>1, Typing, Steps DEF RemovalInv, TypeOK, Removals, Owners
<1>7. WorkFits' /\ RowsAreInserted' /\ NothingNamesTheCompany' /\ SourceFilesAreArchived'
  BY <1>1 DEF RemovalInv, WorkFits, RowsAreInserted, NothingNamesTheCompany,
              SourceFilesAreArchived, Exists
<1>8. RemovalIsOrderly'
  <2>1. removal'.gone["other_membership"] = {}
    BY <1>1, <1>2, <1>4, Steps, Tables DEF RemovalInv, RemovalIsOrderly
  <2>2. removal'.pc = "delete" => removal'.gone["client"] = {}
    BY <1>1, <1>2, <1>3, <1>4, Steps, Tables DEF RemovalInv, RemovalIsOrderly
  <2>3. ASSUME NEW i \in Passed', i # 24 PROVE Seed \notin Left(PurgeSteps[i])'
    <3>1. i \in 1..26 /\ PurgeSteps[i] \in AllTables
      BY <2>3, Tables DEF Passed
    <3>2. CASE i \in Passed
      BY <1>1, <1>4, <2>3, <3>1, <3>2 DEF RemovalInv, RemovalIsOrderly
    <3>3. CASE i = s
      BY <1>1, <1>2, <1>4, <2>3, <3>3
    <3> QED
      BY <1>5, <2>3, <3>2, <3>3
  <2> QED
    BY <1>1, <1>3, <2>1, <2>2, <2>3 DEF RemovalIsOrderly, Exists
<1>9. ArchiveGoesLast'
  <2>1. ASSUME removal'.pc = "commit", NEW t \in Children["client"] PROVE Left(t)' = {}
    BY <1>3, <1>4, <2>1, CompanyGoesAlone, Tables
  <2> QED
    BY <1>1, <1>3, <2>1 DEF RemovalInv, ArchiveGoesLast, Exists
<1>10. AccountsFollow' /\ NoStrandedUser'
  <2>1. removal'.pc = "delete" /\ ~removal'.orphan => rows["other_membership"] # {}
    BY <1>1, <1>3 DEF RemovalInv, AccountsFollow
  <2>2. CASE s = 24
    <3>1. /\ table = "app_user" /\ 23 \in Passed /\ PurgeSteps[23] = "client_membership"
          /\ Left("other_membership") = rows["other_membership"]
      BY <1>1, <1>2, <2>2, Steps DEF Passed, RemovalInv, RemovalIsOrderly, Left
    <3>2. Left("client_membership") = {}
      BY <1>1, <3>1 DEF RemovalInv, RemovalIsOrderly, RowsAreInserted, Left
    <3>3. rows["other_membership"] = {} => victims = Left("app_user")
      BY <1>1, <3>1, <3>2 DEF RemovalInv, AccountsFollow, Victims
    <3>4. Left("app_user")' # {} => rows["other_membership"] # {}
      BY <1>4, <3>1, <3>3
    <3> QED
      BY <1>1, <2>1, <3>4 DEF RemovalInv, AccountsFollow, NoStrandedUser, Exists
  <2>3. CASE s # 24
    <3>1. 24 \in Passed' => 24 \in Passed
      BY <1>5, <2>3
    <3>2. Left("app_user")' \subseteq Left("app_user")
      BY <1>4, Tables
    <3> QED
      BY <1>1, <2>1, <3>1, <3>2 DEF RemovalInv, AccountsFollow, NoStrandedUser, Exists
  <2> QED
    BY <2>2, <2>3
<1> QED
  BY <1>6, <1>7, <1>8, <1>9, <1>10 DEF RemovalInv

(* The commit: the company is gone with everything that named it.           *)
LEMMA DeleteCommitStep ==
    ASSUME RemovalInv, DeleteCommit
    PROVE  RemovalInv'
<1>1. /\ UNCHANGED <<status, eligible, archive, job>> /\ removal.pc = "commit"
      /\ rows' = [t \in AllTables |-> Left(t)] /\ removal \in Removals
      /\ removal' = [NoRemoval EXCEPT !.pc = "archive", !.by = removal.by]
  BY Typing DEF DeleteCommit, RemovalInv
<1>2. /\ removal'.pc = "archive" /\ removal'.gone = Nothing /\ removal'.step = 1
      /\ removal' \in Removals
  <2>1. removal' = [pc |-> "archive", by |-> removal.by, step |-> 1, gone |-> Nothing,
                    orphan |-> FALSE]
    BY <1>1 DEF NoRemoval
  <2>2. Nothing \in [AllTables -> SUBSET Owners]
    BY DEF Nothing
  <2>3. removal.by \in {"api", "cli"}
    BY <1>1 DEF Removals
  <2> QED
    BY <2>1, <2>2, <2>3 DEF Removals
<1>3. /\ rows' \in [AllTables -> SUBSET Owners]
      /\ \A t \in AllTables : rows'[t] = Left(t) /\ rows'[t] \subseteq rows[t]
  BY <1>1, Typing DEF RemovalInv, Left
<1>4. ~Exists'
  BY <1>1, <1>3, Steps, Tables DEF RemovalInv, RemovalIsOrderly, Passed, Exists
<1>5. /\ \A t \in Children["client"] : rows'[t] = {}
      /\ rows'["other_membership"] = rows["other_membership"]
      /\ rows'["app_user"] # {} => rows["other_membership"] # {}
  BY <1>1, <1>3, Tables DEF RemovalInv, RemovalIsOrderly, ArchiveGoesLast, AccountsFollow,
                            Passed, Left
<1>6. TypeOK'
  BY <1>1, <1>2, <1>3, Typing, Steps DEF RemovalInv, TypeOK, Removals, Owners, Nothing
<1>7. WorkFits' /\ RowsAreInserted'
  BY <1>1, <1>3, Tables DEF RemovalInv, WorkFits, RowsAreInserted
<1>8. RemovalIsOrderly'
  BY <1>2, Tables DEF RemovalIsOrderly, Nothing
<1>9. /\ NothingNamesTheCompany' /\ ArchiveGoesLast' /\ SourceFilesAreArchived'
      /\ AccountsFollow' /\ NoStrandedUser'
  BY <1>2, <1>4, <1>5, Tables
     DEF NothingNamesTheCompany, ArchiveGoesLast, SourceFilesAreArchived, AccountsFollow,
         NoStrandedUser
<1> QED
  BY <1>6, <1>7, <1>8, <1>9 DEF RemovalInv

(* The files go when no row names them and none can be recorded any more.   *)
LEMMA RemoveArchiveStep ==
    ASSUME RemovalInv, RemoveArchive
    PROVE  RemovalInv'
<1>1. /\ UNCHANGED <<status, eligible, rows, job>> /\ removal.pc = "archive"
      /\ archive' = {} /\ removal' = NoRemoval
      /\ ~Exists /\ rows["source_file"] = {}
  BY Tables DEF RemoveArchive, RemovalInv, ArchiveGoesLast, NothingNamesTheCompany
<1>2. /\ NoRemoval \in Removals /\ NoRemoval.pc = "idle" /\ NoRemoval.gone = Nothing
      /\ NoRemoval.step = 1 /\ Nothing["other_membership"] = {}
  BY Tables DEF NoRemoval, Removals, Nothing
<1>3. TypeOK'
  BY <1>1, <1>2, Typing, Steps DEF RemovalInv, TypeOK, Removals, Owners, Nothing
<1>4. WorkFits' /\ RowsAreInserted' /\ NothingNamesTheCompany' /\ SourceFilesAreArchived'
  BY <1>1 DEF RemovalInv, WorkFits, RowsAreInserted, NothingNamesTheCompany,
              SourceFilesAreArchived, Exists
<1>5. RemovalIsOrderly' /\ ArchiveGoesLast' /\ AccountsFollow' /\ NoStrandedUser'
  BY <1>1, <1>2 DEF RemovalInv, RemovalIsOrderly, ArchiveGoesLast, AccountsFollow,
                    NoStrandedUser, Exists
<1> QED
  BY <1>3, <1>4, <1>5 DEF RemovalInv

-----------------------------------------------------------------------------
(* The theorems. *)

(* Every step keeps the invariant.                                          *)
LEMMA RemovalIsInductive == RemovalInv /\ [Next]_vars => RemovalInv'
<1> SUFFICES ASSUME RemovalInv, [Next]_vars PROVE RemovalInv'
  OBVIOUS
<1>1. CASE Deactivate \/ Reactivate \/ RetentionEnds \/ UNCHANGED vars
  BY <1>1, LifecycleStep
<1>2. ASSUME NEW w \in Writers,
             (\E kind \in Kinds : WriterStart(w, kind)) \/ WriterRegister(w)
             \/ WriterCommit(w) \/ WriterFails(w)
      PROVE  RemovalInv'
  BY <1>2, StartStep, RegisterStep, CommitStep, FailStep
<1>3. CASE DeleteRequested \/ PurgeRequested
  BY <1>3, RequestStep
<1>4. CASE Begin
  BY <1>4, BeginStep
<1>5. CASE DeleteStep
  BY <1>5, DeleteStepStep
<1>6. CASE DeleteFails \/ ArchiveRemovalFails
  BY <1>6, AbandonStep DEF DeleteFails, ArchiveRemovalFails
<1>7. CASE DeleteCommit
  BY <1>7, DeleteCommitStep
<1>8. CASE RemoveArchive
  BY <1>8, RemoveArchiveStep
<1> QED
  BY <1>1, <1>2, <1>3, <1>4, <1>5, <1>6, <1>7, <1>8 DEF Next

(* The invariant holds of every behaviour of the removal and its writers.   *)
THEOREM RemovalIsSafe == Spec => []RemovalInv
BY RemovalInit, RemovalIsInductive, PTL DEF Spec

(* Every variable keeps its type, and the transaction deletes committed     *)
(* rows only.                                                               *)
THEOREM TypeCorrect == Spec => []TypeOK
<1>1. RemovalInv => TypeOK
  BY DEF RemovalInv
<1> QED
  BY <1>1, RemovalIsSafe, PTL

(* The order of the purge steps never runs into a foreign key by itself: a  *)
(* statement is refused for late rows or Publisher sessions only.           *)
THEOREM OrderIsRight == Spec => []OrderRespectsForeignKeys
<1>1. RemovalInv => OrderRespectsForeignKeys
  <2> SUFFICES ASSUME RemovalInv, removal.pc = "delete", NEW r \in Blocking, r[2] = Seed,
                      r[1] # "publisher_session"
               PROVE  FALSE
    BY DEF OrderRespectsForeignKeys
  <2>1. /\ removal.step \in 1..26 /\ Table = PurgeSteps[removal.step]
        /\ Table \in AllTables
    BY Typing, Tables DEF RemovalInv, Removals, Table
  <2>2. /\ r[1] \in AllTables /\ Table \in Refers(r[1]) /\ Seed \in Left(r[1])
    <3>1. r[1] \in Children[Table] /\ Has(r[1], r[2])
      BY DEF Blocking
    <3> QED
      BY <2>1, <3>1 DEF Children, Has, Left
  <2>3. r[1] # "other_membership"
    BY <2>2 DEF RemovalInv, RowsAreInserted, Left
  <2>4. PICK i \in 1..26 : i < removal.step /\ PurgeSteps[i] = r[1] /\ r[1] # "app_user"
    BY <2>1, <2>2, <2>3, Order
  <2>5. i \in Passed /\ i # 24
    BY <2>1, <2>4, Steps DEF Passed
  <2> QED
    BY <2>2, <2>4, <2>5 DEF RemovalInv, RemovalIsOrderly
<1> QED
  BY <1>1, RemovalIsSafe, PTL

(* A source file of an upload that is on record has its bytes stored.       *)
THEOREM FilesAreArchived == Spec => []SourceFilesAreArchived
<1>1. RemovalInv => SourceFilesAreArchived
  BY DEF RemovalInv
<1> QED
  BY <1>1, RemovalIsSafe, PTL

(* No account is left without a membership.                                 *)
THEOREM NobodyIsStranded == Spec => []NoStrandedUser
<1>1. RemovalInv => NoStrandedUser
  BY DEF RemovalInv
<1> QED
  BY <1>1, RemovalIsSafe, PTL

(* A company that is gone has no row left that names it, whatever writers   *)
(* were under way, and never gets one again.                                *)
THEOREM GoneIsGone == Spec => []NothingNamesTheCompany
<1>1. RemovalInv => NothingNamesTheCompany
  BY DEF RemovalInv
<1> QED
  BY <1>1, RemovalIsSafe, PTL

-----------------------------------------------------------------------------
(* The backup. *)

Backups == [pc : {"none", "copying", "listed", "copied", "verified", "failed"},
            dumped : SUBSET Owners, listed : SUBSET Owners, copied : SUBSET Owners,
            lossless : BOOLEAN]

(* While no file is removed, every dumped row has its file where the backup *)
(* will take it from next.                                                  *)
BackupInv ==
    /\ backup \in Backups
    /\ backup.lossless =>
         /\ backup.pc = "copying" => backup.dumped \subseteq archive
         /\ backup.pc = "listed" => backup.dumped \subseteq backup.listed
         /\ backup.pc \in {"copied", "verified"} => backup.dumped \subseteq backup.copied

(* The backup and the restore read the live system and change nothing in it.*)
THEOREM BackupOnlyReads == BackupSpec => Spec
<1>1. BackupInit => Init
  BY DEF BackupInit
<1>2. [BackupNext]_<<vars, bvars>> => [Next]_vars
  BY DEF BackupNext, SystemStep, Dump, ListTree, CopyTree, VerifyLive, Restore, bvars
<1> QED
  BY <1>1, <1>2, PTL DEF BackupSpec, Spec

(* Every step of the backup, the restore and the system keeps it.           *)
LEMMA BackupIsInductive ==
    RemovalInv /\ RemovalInv' /\ BackupInv /\ [BackupNext]_<<vars, bvars>> => BackupInv'
<1> SUFFICES ASSUME RemovalInv, RemovalInv', BackupInv, [BackupNext]_<<vars, bvars>>
             PROVE  BackupInv'
  OBVIOUS
<1>1. archive \subseteq Owners /\ Stored \subseteq archive
  <2>1. archive \subseteq Owners
    BY Typing DEF RemovalInv
  <2> QED
    BY <2>1 DEF RemovalInv, SourceFilesAreArchived, Stored
<1>2. CASE SystemStep
  <2>1. PICK kept \in BOOLEAN :
          backup' = [backup EXCEPT !.lossless =
                       @ /\ (backup.pc \in {"none", "verified", "failed"} \/ kept)]
          /\ (kept => archive \subseteq archive')
    BY <1>2 DEF SystemStep
  <2> QED
    BY <2>1 DEF BackupInv, Backups
<1>3. CASE Dump
  BY <1>1, <1>3 DEF Dump, BackupInv, Backups, vars
<1>4. CASE ListTree
  BY <1>1, <1>4 DEF ListTree, BackupInv, Backups, vars
<1>5. CASE CopyTree
  BY <1>5 DEF CopyTree, BackupInv, Backups, Abandoned, NoBackup, vars
<1>6. CASE VerifyLive
  BY <1>6 DEF VerifyLive, BackupInv, Backups, Abandoned, NoBackup, vars
<1>7. CASE Restore \/ UNCHANGED <<vars, bvars>>
  BY <1>7 DEF Restore, BackupInv, Backups, vars, bvars
<1> QED
  BY <1>2, <1>3, <1>4, <1>5, <1>6, <1>7 DEF BackupNext

(* A backup taken while requests and removals go on restores, unless a      *)
(* removal took files away while it was being taken.                        *)
THEOREM BackupsRestore == BackupSpec => []BackupRestores
<1>1. BackupInit => BackupInv
  BY DEF BackupInit, BackupInv, Backups, NoBackup
<1>2. BackupInv => BackupRestores
  BY DEF BackupInv, BackupRestores
<1>3. BackupSpec => []RemovalInv
  BY BackupOnlyReads, RemovalIsSafe, PTL
<1> QED
  BY <1>1, <1>2, <1>3, BackupIsInductive, PTL DEF BackupSpec
=============================================================================
