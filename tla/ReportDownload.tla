---------------------------- MODULE ReportDownload ----------------------------
(***************************************************************************)
(* The downloads that show one publication: the current facts as a file,   *)
(* the client report of the current publication and that of an earlier one *)
(* (publication_service.py).  Which publication it is, is read once; its   *)
(* snapshot is then read page by page, a transaction each, while others    *)
(* publish.  One download at a time is built (_REPORT_GENERATION).         *)
(***************************************************************************)
EXTENDS PublishedHistory, Sequences, FiniteSets, SequencesExt

CONSTANTS
    GrainOrder,     \* the grains by day, campaign and variation
    PageSize,       \* page_size
    MaxReportRows,  \* dfip_download_max_rows
    Nothing         \* no download

ASSUME ReportConstants ==
    /\ ToSet(GrainOrder) = Grains /\ Len(GrainOrder) = Cardinality(Grains)
    /\ IsFiniteSet(Grains) /\ PageSize \in Nat \ {0} /\ MaxReportRows \in Nat \ {0}

VARIABLE report   \* Nothing, or the stage, publication and rows of the download

ReportInit == report = Nothing

\* The rows of a snapshot in the order of list_snapshot: the k-th row is that
\* of the k-th grain held.
Place(g) == CHOOSE k \in DOMAIN GrainOrder : GrainOrder[k] = g
RowsOfSlice(slice) ==
    LET held    == {g \in Grains : slice[g] # NoFact}
        upTo(g) == {h \in held : Place(h) <= Place(g)}
        nth(k)  == CHOOSE g \in held : Cardinality(upTo(g)) = k
    IN  [k \in 1..Cardinality(held) |-> [grain |-> nth(k), fact |-> slice[nth(k)]]]
RowsOfSnapshot(i) == RowsOfSlice(snap[i])

Page(rows, limit, offset) ==
    SubSeq(rows, offset + 1, IF offset + limit < Len(rows) THEN offset + limit ELSE Len(rows))

\* Mutant: every page asks for the current publication.
FactsForCurrent(i, limit, offset) == Page(RowsOfSnapshot(current), limit, offset)
\* _facts_for_publication: the page; the count beside it is that of the snapshot.
FactsForPublication(i, limit, offset) == Page(RowsOfSnapshot(i), limit, offset)
SnapshotCount(i) == Len(RowsOfSnapshot(i))

Report(stage, i, rows) == [stage |-> stage, of |-> i, rows |-> rows]
Least(a, b) == IF a < b THEN a ELSE b

-----------------------------------------------------------------------------
\* download_published: without a publication the file has headers only.
DownloadPublished ==
    /\ report = Nothing
    /\ report' = IF current = NoPub THEN Report("done", NoPub, <<>>)
                 ELSE Report("first", current, <<>>)

\* download_client_report of the current publication: without one a 404.
DownloadClientReport ==
    /\ report = Nothing
    /\ report' = Report(IF current = NoPub THEN "refused" ELSE "first", current, <<>>)

\* The same of an earlier one, through _scoped_publication.
DownloadHistorical(i) ==
    /\ report = Nothing
    /\ report' = Report(IF i \in pubs THEN "first" ELSE "refused", i, <<>>)

\* _load_published_items: more rows than the limit are an error, never a cut.
FirstPage ==
    /\ report # Nothing /\ report.stage = "first"
    /\ report' = IF SnapshotCount(report.of) > MaxReportRows THEN [report EXCEPT !.stage = "refused"]
                 ELSE [report EXCEPT !.stage = "pages",
                          !.rows = FactsForPublication(report.of, Least(PageSize, MaxReportRows), 0)]

NextPage ==
    /\ report # Nothing /\ report.stage = "pages"
    /\ LET total == SnapshotCount(report.of)
           read  == Len(report.rows)
           chunk == FactsForPublication(report.of, Least(PageSize, total - read), read)
       IN  report' = IF read >= total \/ chunk = <<>> THEN [report EXCEPT !.stage = "done"]
                     ELSE [report EXCEPT !.rows = @ \o chunk]

Delivered ==
    /\ report # Nothing /\ report.stage \in {"done", "refused"}
    /\ report' = Nothing

ReportNext ==
    \/ DownloadPublished \/ DownloadClientReport \/ \E i \in Ids : DownloadHistorical(i)
    \/ FirstPage \/ NextPage \/ Delivered

-----------------------------------------------------------------------------
\* A report shows one publication: every row of its snapshot once and in
\* order, whatever is published while its pages are read.
ReportIsOnePublication ==
    report # Nothing /\ report.stage = "done" =>
        report.rows = IF report.of = NoPub THEN <<>> ELSE RowsOfSnapshot(report.of)
=============================================================================
