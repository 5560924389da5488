--------------------------- MODULE PublishedReaders ---------------------------
(***************************************************************************)
(* The readers of one client's published history, together with the        *)
(* publications they read: dashboards and questions (AskService), report   *)
(* downloads (ReportDownload) and refreshable workbooks (WorkbookAccess).  *)
(* They share nothing but the history, so a behaviour has one of them at a *)
(* time; and as a workbook reads the history in one statement, it is only  *)
(* combined with the first publication.                                    *)
(***************************************************************************)
EXTENDS AskService, ReportDownload, WorkbookAccess

readerVars == <<askVars, report, access>>

NoAnswer    == step = "idle" /\ talk = None
NoWorkbooks == clock = 0 /\ company = "active" /\ role = "client" /\ build = Absent
               /\ \A j \in Jtis : grants[j] = Absent /\ stamp[j] = Absent

ReadersInit == AskInit /\ ReportInit /\ AccessInit

ReadersNext ==
    \/ report = Nothing /\ NoWorkbooks /\ AskNext /\ UNCHANGED <<report, access>>
    \/ \E i \in Ids : /\ NoAnswer /\ (report # Nothing \/ i = 1)
                      /\ Publishes(i) /\ UNCHANGED <<talk, report, access>>
    \/ NoAnswer /\ NoWorkbooks /\ ReportNext /\ UNCHANGED <<askVars, access>>
    \/ NoAnswer /\ report = Nothing /\ pubs \subseteq {1} /\ AccessNext
       /\ UNCHANGED <<askVars, report>>

ReadersSpec == ReadersInit /\ [][ReadersNext]_readerVars
=============================================================================
