---------------------------- MODULE IntakeProofs ----------------------------
(***************************************************************************)
(* What the service does with a workbook it was sent: the uploads accepted *)
(* become work, of which the later file has the last word (Acceptance);    *)
(* their runs keep the versions of the catalog they were bound to, what a  *)
(* run computed reconciles with its recomputation, and a publishable run   *)
(* rejected nothing for its data (Catalog).                                *)
(***************************************************************************)
EXTENDS Catalog, Acceptance, FiniteSetTheorems, SequenceTheorems, WellFoundedInduction, TLAPS

-----------------------------------------------------------------------------
(* The catalog: every upload has a row of its shape.                        *)
CatalogRow == [status : {"absent", "draft", "active", "superseded"},
               created : 0..Cardinality(Uploads)]

WasActivated(v) == v \in Uploads => version[v].status \in {"active", "superseded"}

(* The versions a run binds had been activated, and never are absent again. *)
BoundActivated ==
    WasActivated(run.logic) /\ WasActivated(run.ids.campaign) /\ WasActivated(run.ids.group)

(* Facts are of the runs so far, and before a run binds it has none.        *)
FactsAreOfRuns ==
    \A g \in DOMAIN facts :
        facts[g].run \in 1..run.no /\ (run.phase = "binding" => facts[g].run # run.no)

(* A run that has begun has its number.                                     *)
RunIsNumbered ==
    /\ run.no \in Nat /\ DOMAIN run = DOMAIN NoRun
    /\ run.phase # "none" => run.no # 0

CatalogInv ==
    /\ isOwner \in BOOLEAN /\ version \in [Uploads -> CatalogRow]
    /\ RunIsNumbered /\ BoundActivated /\ FactsAreOfRuns /\ RunKeepsItsVersions

LEMMA ManyUploads == Cardinality(Uploads) \in Nat
BY CatalogConstants, FS_CardinalityType

(* active_for finds an upload that is active, or none.                      *)
LEMMA ActiveIsThere ==
    ASSUME CatalogInv, NEW kind, kind \subseteq Uploads
    PROVE  WasActivated(ActiveFor(kind)) /\ ActiveFor(kind) \in kind \cup {NoId}
<1> DEFINE active == {v \in kind : version[v].status = "active"}
           R == OpToRel(<, Nat)
<1>1. CASE active = {}
  BY <1>1, CatalogConstants DEF ActiveFor, WasActivated
<1>2. CASE active # {}
  <2>1. PICK n \in Nat : n = Cardinality(Uploads)
    BY ManyUploads
  <2> DEFINE S == {n - version[v].created : v \in active}
  <2>2. \A v \in active : version[v].created \in 0..n /\ v \in Uploads
    BY <2>1 DEF CatalogInv, CatalogRow
  <2>3. \A v \in active : n - version[v].created \in Nat
    BY <2>2
  <2>4. S \subseteq Nat /\ S # {}
    BY <1>2, <2>3
  <2>5. IsWellFoundedOn(R, Nat)
    BY NatLessThanWellFounded
  <2> HIDE DEF R, S
  <2>6. PICK x \in S : \A y \in S : ~(<<y, x>> \in R)
    BY <2>5, <2>4, WFMin
  <2>7. \A y \in S : ~(y < x)
    BY <2>6, <2>4 DEF R, OpToRel
  <2>8. PICK v \in active : x = n - version[v].created
    BY DEF S
  <2>9. \A w \in active : n - version[w].created \in S
    BY DEF S
  <2>10. \A w \in active : version[w].created <= version[v].created
    BY <2>2, <2>7, <2>8, <2>9
  <2>11. ActiveFor(kind) \in active
    BY <1>2, <2>10 DEF ActiveFor
  <2> QED
    BY <2>2, <2>11 DEF WasActivated
<1> QED
  BY <1>1, <1>2 DEF ActiveFor

(* Some positions of a sequence have a first one.                           *)
LEMMA LeastIsOne ==
    ASSUME NEW S, S \subseteq Nat, S # {}
    PROVE  Min(S) \in S /\ \A n \in S : Min(S) <= n
<1> DEFINE R == OpToRel(<, Nat)
<1>1. IsWellFoundedOn(R, Nat)
  BY NatLessThanWellFounded
<1> HIDE DEF R
<1>2. PICK x \in S : \A y \in S : ~(<<y, x>> \in R)
  BY <1>1, WFMin
<1>3. \A y \in S : ~(y < x)
  BY <1>2 DEF R, OpToRel
<1>4. \A y \in S : x <= y
  BY <1>3
<1> QED
  BY <1>4 DEF Min

(* A window that covers the day is one of the windows.                      *)
LEMMA WindowIsPackaged ==
    ASSUME NEW windows \in {CampaignWindows, TemplateWindows, RateWindows}, NEW day
    PROVE  SelectVersion(windows, day) \in {NoId} \cup Packaged
<1> DEFINE I == {i \in 1..Len(windows) : windows[i][2] <= day /\ day < windows[i][3]}
           at == SelectInSeq(windows, LAMBDA w : w[2] <= day /\ day < w[3])
<1>1. at = IF I # {} THEN Min(I) ELSE 0
  BY DEF SelectInSeq
<1>2. at # 0 => at \in I
  <2> HIDE DEF at
  <2>1. I \subseteq Nat
    OBVIOUS
  <2> HIDE DEF I
  <2> QED
    BY <1>1, <2>1, LeastIsOne
<1>3. SelectVersion(windows, day) = IF at = 0 THEN NoId ELSE windows[at][1]
  BY DEF SelectVersion
<1>4. windows \in Seq(Packaged \X Int \X Int)
  BY CatalogConstants
<1>5. \A i \in I : windows[i] \in Packaged \X Int \X Int
  BY <1>4, ElementOfSeq
<1> HIDE DEF at, I
<1>6. \A i \in I : windows[i][1] \in Packaged
  BY <1>5
<1> QED
  BY <1>2, <1>3, <1>6

(* A run stored with an uploaded version looks its rows up there, and says  *)
(* so on the fact.                                                          *)
LEMMA BoundToUploads ==
    ASSUME NEW ids, NEW overlay, NEW day, NEW owner \in BOOLEAN
    PROVE  LET bundle == BindForRun(owner, ids, overlay, day)
           IN  /\ ids.campaign \in Uploads \cap DOMAIN overlay =>
                    /\ bundle.campaignRows = overlay[ids.campaign]
                    /\ bundle.ids.campaign = ids.campaign
               /\ ids.group \in Uploads \cap DOMAIN overlay =>
                    /\ bundle.groupRows = overlay[ids.group]
                    /\ bundle.ids.group = ids.group
BY CatalogConstants DEF BindForRun, Persistable

(* A fact is of the grain of its row, ...                                   *)
LEMMA GrainOfFact ==
    ASSUME NEW owner, NEW row, NEW bundle, NEW made, made = FactOf(owner, row, bundle)
    PROVE  Grain(made) = <<row.campaign_id, VariationIdKey(row.variation), row.day.n>>
BY DEF FactOf, Grain

(* ... carries the ids of the versions it was looked up in, ...             *)
LEMMA VersionsOfFact ==
    ASSUME NEW owner, NEW row, NEW bundle, NEW made, made = FactOf(owner, row, bundle)
    PROVE  made.ids = bundle.ids
BY DEF FactOf

(* ... the label found there for the name of the campaign ...               *)
LEMMA LabelOfFact ==
    ASSUME NEW owner, NEW row, NEW bundle, NEW made, made = FactOf(owner, row, bundle)
    PROVE  made.label = ResolveCampaign(bundle.campaignRows, row.name).label
BY DEF FactOf

(* ... and the group found there for that label.                            *)
LEMMA GroupOfFact ==
    ASSUME NEW owner, NEW row, NEW bundle, NEW made, made = FactOf(owner, row, bundle)
    PROVE  made.group = ResolveGroup(bundle.groupRows, made.label)
BY DEF FactOf

(* While the facts of the latest run and its ids stay, they agree.          *)
LEMMA VersionsStayKept ==
    ASSUME RunKeepsItsVersions, UNCHANGED <<facts, staged>>, run'.no = run.no, run'.ids = run.ids
    PROVE  RunKeepsItsVersions'
<1>1. FactsOf(run.no)' = FactsOf(run.no)
  BY DEF FactsOf
<1>2. \A made : KeepsTheVersions(made) => KeepsTheVersions(made)'
  BY DEF KeepsTheVersions
<1> QED
  BY <1>1, <1>2 DEF RunKeepsItsVersions

(* No transaction of a publisher undoes the first activation of a version.  *)
LEMMA PublisherStep ==
    ASSUME CatalogInv, UNCHANGED <<isOwner, staged, facts, run>>,
           \/ \E v \in Uploads : Import(v)
           \/ \E p \in Publishers : CommitActivate(p) \/ CommitDeactivate(p)
           \/ UNCHANGED version
    PROVE  CatalogInv'
<1>1. version' \in [Uploads -> CatalogRow]
      /\ \A v \in Uploads : version[v].status \in {"active", "superseded"}
                                => version'[v].status \in {"active", "superseded"}
  <2>1. CASE \E v \in Uploads : Import(v)
    <3>1. PICK v \in Uploads : Import(v)
      BY <2>1
    <3> DEFINE there == {w \in Uploads : version[w].status # "absent"}
    <3>2. v \notin there /\ there \in SUBSET Uploads
      BY <3>1 DEF Import
    <3> HIDE DEF there
    <3>3. PICK n \in Nat : n = Cardinality(Uploads)
      BY ManyUploads
    <3>4. IsFiniteSet(Uploads)
      BY CatalogConstants
    <3>5. /\ IsFiniteSet(Uploads \ {v})
          /\ Cardinality(Uploads \ {v}) = n - 1
      BY <3>3, <3>4, FS_RemoveElement
    <3>6. there \in SUBSET (Uploads \ {v})
      BY <3>2
    <3>7. PICK m \in Nat : m = Cardinality(there) /\ m <= n - 1
      BY <3>5, <3>6, FS_Subset, FS_CardinalityType
    <3>8. PICK row : row = [status |-> "draft", created |-> m + 1]
      OBVIOUS
    <3>9. row \in CatalogRow
      BY <3>3, <3>7, <3>8 DEF CatalogRow
    <3>10. version' = [version EXCEPT ![v] = row]
      BY <3>1, <3>7, <3>8 DEF Import, there
    <3>11. \A w \in Uploads \ {v} : version'[w] = version[w]
      BY <3>10 DEF CatalogInv
    <3>12. version[v].status = "absent"
      BY <3>1 DEF Import
    <3> QED
      BY <3>9, <3>10, <3>11, <3>12 DEF CatalogInv
  <2>2. CASE \E p \in Publishers : CommitActivate(p)
    <3>1. PICK p \in Publishers : CommitActivate(p)
      BY <2>2
    <3> DEFINE row(w) == IF w = tx[p].v THEN [version[w] EXCEPT !.status = "active"]
                         ELSE IF w \in tx[p].superseded
                              THEN [version[w] EXCEPT !.status = "superseded"]
                         ELSE version[w]
    <3>2. version' = [w \in Uploads |-> row(w)]
      BY <3>1 DEF CommitActivate
    <3>3. \A w \in Uploads : row(w) \in CatalogRow
      BY DEF CatalogInv, CatalogRow
    <3>4. \A w \in Uploads : version[w].status \in {"active", "superseded"}
                                => row(w).status \in {"active", "superseded"}
      BY DEF CatalogInv, CatalogRow
    <3> HIDE DEF row
    <3>5. PICK next : next = version'
      OBVIOUS
    <3>6. next = [w \in Uploads |-> row(w)]
      BY <3>2, <3>5
    <3>7. next \in [Uploads -> CatalogRow]
      BY <3>3, <3>6
    <3>8. \A w \in Uploads : next[w] = row(w)
      BY <3>6
    <3> QED
      BY <3>4, <3>5, <3>7, <3>8
  <2>3. CASE \E p \in Publishers : CommitDeactivate(p)
    <3>1. PICK v : version' = [version EXCEPT ![v].status = "superseded"]
      BY <2>3 DEF CommitDeactivate
    <3> QED
      BY <3>1 DEF CatalogInv, CatalogRow
  <2>4. CASE UNCHANGED version
    BY <2>4 DEF CatalogInv
  <2> QED
    BY <2>1, <2>2, <2>3, <2>4
<1>2. \A v : WasActivated(v) => WasActivated(v)'
  BY <1>1 DEF WasActivated
<1>3. RunKeepsItsVersions'
  BY VersionsStayKept DEF CatalogInv
<1> QED
  BY <1>1, <1>2, <1>3 DEF CatalogInv, RunIsNumbered, BoundActivated, FactsAreOfRuns

(* A run binds active versions, while it has no fact.                       *)
LEMMA BindingStep ==
    ASSUME CatalogInv, BindLogic \/ CreateRun
    PROVE  CatalogInv'
<1>1. UNCHANGED <<isOwner, version, staged, facts>>
  BY DEF BindLogic, CreateRun, catalogVars
<1>2. Logic \subseteq Uploads /\ Labels \subseteq Uploads
  BY DEF Uploads
<1>3. WasActivated(NoId)
  BY CatalogConstants DEF WasActivated
<1>4. CASE BindLogic
  <2>1. WasActivated(ActiveFor(Logic))
    BY <1>2, ActiveIsThere
  <2>2. /\ run'.no = run.no + 1 /\ run'.logic = ActiveFor(Logic)
        /\ run'.ids.campaign = NoId /\ run'.ids.group = NoId /\ DOMAIN run' = DOMAIN NoRun
    BY <1>4 DEF BindLogic, NoRun, NoIds
  <2>3. RunIsNumbered'
    BY <2>2 DEF CatalogInv, RunIsNumbered
  <2>4. /\ WasActivated(run.logic)' /\ WasActivated(run.ids.campaign)' /\ WasActivated(run.ids.group)'
    <3>1. PICK logic : logic = ActiveFor(Logic)
      OBVIOUS
    <3> QED
      BY <1>1, <1>3, <2>1, <2>2, <3>1 DEF WasActivated
  <2>5. \A g \in DOMAIN facts : facts[g].run \in 1..run.no
    BY DEF CatalogInv, FactsAreOfRuns
  <2>6. \A g \in DOMAIN facts' : facts'[g].run \in 1..run'.no /\ facts'[g].run # run'.no
    BY <1>1, <2>2, <2>5 DEF CatalogInv, RunIsNumbered
  <2>7. FactsOf(run.no)' = {}
    BY <2>6 DEF FactsOf
  <2> QED
    BY <1>1, <2>2, <2>4, <2>6, <2>7, <2>3
    DEF CatalogInv, BoundActivated, FactsAreOfRuns, RunKeepsItsVersions
<1>5. CASE CreateRun
  <2>1. PICK labels : labels = ActiveFor(Labels) /\ WasActivated(labels)
    BY <1>2, ActiveIsThere
  <2>2. PICK ids : ids = BindVersions(isOwner, ObservedDayMin, run.logic, labels)
    OBVIOUS
  <2>3. run.phase = "binding" /\ run' = [run EXCEPT !.phase = "transforming", !.at = 1, !.ids = ids]
    BY <1>5, <2>1, <2>2 DEF CreateRun
  <2>4. /\ DOMAIN run' = DOMAIN run /\ run'.no = run.no /\ run'.logic = run.logic
        /\ run'.phase = "transforming" /\ run'.ids = ids
    BY <2>3 DEF CatalogInv, RunIsNumbered, NoRun
  <2>5. RunIsNumbered'
    BY <2>3, <2>4 DEF CatalogInv, RunIsNumbered
  <2>6. WasActivated(ids.campaign) /\ WasActivated(ids.group)
    BY <2>1, <2>2, WindowIsPackaged, CatalogConstants
    DEF BindVersions, Persistable, CatalogInv, BoundActivated, WasActivated
  <2>7. WasActivated(run.logic)' /\ WasActivated(run.ids.campaign)' /\ WasActivated(run.ids.group)'
    <3>1. PICK logic : logic = run.logic /\ WasActivated(logic)
      BY DEF CatalogInv, BoundActivated
    <3> QED
      BY <1>1, <2>4, <2>6, <3>1 DEF WasActivated
  <2>8. FactsOf(run.no)' = {}
    <3>1. \A g \in DOMAIN facts : facts[g].run # run.no
      BY <2>3 DEF CatalogInv, FactsAreOfRuns
    <3> QED
      BY <1>1, <2>4, <3>1 DEF FactsOf
  <2>9. FactsAreOfRuns'
    BY <1>1, <2>3, <2>4 DEF CatalogInv, FactsAreOfRuns
  <2> QED
    BY <1>1, <2>4, <2>7, <2>8, <2>9, <2>5 DEF CatalogInv, BoundActivated, RunKeepsItsVersions
<1> QED
  BY <1>4, <1>5

(* The next row of the workbook becomes a fact under the versions of the    *)
(* run, whatever is active by then, or is rejected.                         *)
LEMMA RowStep ==
    ASSUME CatalogInv, TransformRow
    PROVE  CatalogInv'
<1>1. /\ run.phase = "transforming" /\ run.at \in DOMAIN staged
      /\ UNCHANGED <<isOwner, version, staged>>
  BY DEF TransformRow, catalogVars
<1>2. /\ run'.no = run.no /\ run'.ids = run.ids /\ run'.logic = run.logic
      /\ run'.phase = "transforming" /\ DOMAIN run' = DOMAIN run
  BY <1>1 DEF TransformRow, Reject, CatalogInv, RunIsNumbered, NoRun
<1>3. WasActivated(run.logic)' /\ WasActivated(run.ids.campaign)' /\ WasActivated(run.ids.group)'
  BY <1>1, <1>2 DEF CatalogInv, BoundActivated, WasActivated
<1>4. RunIsNumbered'
  BY <1>1, <1>2 DEF CatalogInv, RunIsNumbered
<1>5. CASE UNCHANGED facts
  <2>1. RunKeepsItsVersions'
    BY <1>1, <1>2, <1>5, VersionsStayKept DEF CatalogInv
  <2> QED
    BY <1>1, <1>2, <1>3, <1>5, <1>4, <2>1 DEF CatalogInv, BoundActivated, FactsAreOfRuns
<1>6. CASE ~UNCHANGED facts
  <2>1. PICK owner, row, bundle, made :
          /\ owner = isOwner /\ owner \in BOOLEAN /\ row = staged[run.at]
          /\ bundle = BindForRun(owner, run.ids, Overlay, row.day.n)
          /\ made = FactOf(owner, row, bundle)
    BY DEF CatalogInv
  <2>2. facts' = [g \in DOMAIN facts \cup {Grain(made)} |->
                    IF g = Grain(made) THEN [fact |-> made, run |-> run.no] ELSE facts[g]]
    BY <1>6, <2>1 DEF TransformRow, Reject, BindRun, NextRow
  <2>3. KeepsTheVersions(made)
    <3>1. /\ run.ids.campaign \in Logic => run.ids.campaign \in Uploads \cap DOMAIN Overlay
          /\ run.ids.group \in Labels => run.ids.group \in Uploads \cap DOMAIN Overlay
          /\ \A v \in DOMAIN Overlay : Overlay[v] = UploadedRows[v]
      BY DEF CatalogInv, BoundActivated, WasActivated, Overlay, Uploads
    <3>2. /\ run.ids.campaign \in Logic => /\ bundle.campaignRows = UploadedRows[run.ids.campaign]
                                          /\ bundle.ids.campaign = run.ids.campaign
          /\ run.ids.group \in Labels => /\ bundle.groupRows = UploadedRows[run.ids.group]
                                        /\ bundle.ids.group = run.ids.group
      <4>1. PICK overlay, ids, day : overlay = Overlay /\ ids = run.ids /\ day = row.day.n
        OBVIOUS
      <4> QED
        BY <2>1, <3>1, <4>1, BoundToUploads
    <3>3. made = FactOf(owner, row, bundle)
      BY <2>1
    <3>4. Grain(made) = <<row.campaign_id, VariationIdKey(row.variation), row.day.n>>
      BY <3>3, GrainOfFact
    <3>5. made.ids = bundle.ids
      BY <3>3, VersionsOfFact
    <3>6. made.label = ResolveCampaign(bundle.campaignRows, row.name).label
      BY <3>3, LabelOfFact
    <3>7. made.group = ResolveGroup(bundle.groupRows, made.label)
      BY <3>3, GroupOfFact
    <3> QED
      BY <1>1, <2>1, <3>2, <3>4, <3>5, <3>6, <3>7 DEF KeepsTheVersions
  <2>4. \A g \in DOMAIN facts' :
          \/ g \in DOMAIN facts /\ facts'[g] = facts[g]
          \/ facts'[g] = [fact |-> made, run |-> run.no]
    BY <2>2
  <2>5. FactsOf(run.no)' \subseteq FactsOf(run.no) \cup {made}
    BY <1>2, <2>4 DEF FactsOf
  <2>6. \A other : KeepsTheVersions(other) => KeepsTheVersions(other)'
    BY <1>1, <1>2 DEF KeepsTheVersions
  <2>7. RunKeepsItsVersions'
    BY <2>3, <2>5, <2>6 DEF CatalogInv, RunKeepsItsVersions
  <2>8. FactsAreOfRuns'
    <3>1. run.no \in 1..run.no
      <4>1. run.no # 0
        BY <1>1 DEF CatalogInv, RunIsNumbered
      <4> QED
        BY <4>1 DEF CatalogInv, RunIsNumbered
    <3> QED
      BY <1>2, <2>4, <3>1 DEF CatalogInv, FactsAreOfRuns
  <2> QED
    BY <1>1, <1>2, <1>3, <1>4, <2>7, <2>8 DEF CatalogInv, BoundActivated
<1> QED
  BY <1>5, <1>6
(* The end of a run and its verdicts leave its facts and its versions.      *)
LEMMA VerdictStep ==
    ASSUME CatalogInv, EndRun \/ Evaluate \/ Reevaluate
    PROVE  CatalogInv'
<1>1. UNCHANGED <<isOwner, version, staged, facts>>
  BY DEF EndRun, Evaluate, Reevaluate, catalogVars
<1>2. /\ run'.no = run.no /\ run'.ids = run.ids /\ run'.logic = run.logic
      /\ run.phase # "none" /\ run'.phase # "binding" /\ DOMAIN run' = DOMAIN run
  BY DEF EndRun, Evaluate, Reevaluate, CatalogInv, RunIsNumbered, NoRun
<1>3. BoundActivated'
  BY <1>1, <1>2 DEF CatalogInv, BoundActivated, WasActivated
<1>4. RunKeepsItsVersions'
  BY <1>1, <1>2, VersionsStayKept DEF CatalogInv
<1> QED
  BY <1>1, <1>2, <1>3, <1>4 DEF CatalogInv, RunIsNumbered, FactsAreOfRuns

(* From the start, and after every step.                                    *)
LEMMA CatalogIsKept == Spec => []CatalogInv
<1>1. Init => CatalogInv
  <2> SUFFICES ASSUME Init PROVE CatalogInv
    OBVIOUS
  <2>1. version \in [Uploads -> CatalogRow]
    <3>1. \A v \in Uploads : (IF Imported[v] = "absent" THEN 0 ELSE 1) \in 0..Cardinality(Uploads)
      <4> SUFFICES ASSUME NEW v \in Uploads
                   PROVE  Cardinality(Uploads) \in Nat \ {0}
        OBVIOUS
      <4> QED
        BY ManyUploads, CatalogConstants, FS_EmptySet
    <3> QED
      BY <3>1, CatalogConstants DEF Init, CatalogRow
  <2>2. RunIsNumbered /\ BoundActivated
    BY CatalogConstants DEF Init, RunIsNumbered, BoundActivated, WasActivated, NoRun, NoIds
  <2>3. DOMAIN facts = {}
    BY DEF Init
  <2>4. FactsAreOfRuns /\ RunKeepsItsVersions
    BY <2>3 DEF FactsAreOfRuns, RunKeepsItsVersions, FactsOf
  <2> QED
    BY <2>1, <2>2, <2>4 DEF Init, CatalogInv
<1>2. CatalogInv /\ [Next]_vars => CatalogInv'
  <2> SUFFICES ASSUME CatalogInv, [Next]_vars PROVE CatalogInv'
    OBVIOUS
  <2>1. CASE \E v \in Uploads : Import(v)
    BY <2>1, PublisherStep DEF Import
  <2>2. CASE \E p \in Publishers, v \in Uploads : BeginActivate(p, v) \/ BeginDeactivate(p, v)
    BY <2>2, PublisherStep DEF BeginActivate, BeginDeactivate
  <2>3. CASE \E p \in Publishers : ScanActive(p) \/ Supersede(p)
    BY <2>3, PublisherStep DEF ScanActive, Supersede
  <2>4. CASE \E p \in Publishers : CommitActivate(p) \/ CommitDeactivate(p)
    BY <2>4, PublisherStep DEF CommitActivate, CommitDeactivate
  <2>5. CASE BindLogic \/ CreateRun
    BY <2>5, BindingStep
  <2>6. CASE TransformRow
    BY <2>6, RowStep
  <2>7. CASE EndRun \/ Evaluate \/ Reevaluate
    BY <2>7, VerdictStep
  <2>8. CASE UNCHANGED vars
    BY <2>8, PublisherStep DEF vars
  <2> QED
    BY <2>1, <2>2, <2>3, <2>4, <2>5, <2>6, <2>7, <2>8 DEF Next
<1> QED
  BY <1>1, <1>2, PTL DEF Spec

(* Every fact of a run carries the labels and groups of the versions the    *)
(* run was bound to (labels.py, ConfigBinder.for_day), however publishers   *)
(* activate, supersede and deactivate versions while it runs.               *)
THEOREM RunsKeepTheirVersions == Spec => []RunKeepsItsVersions
<1>1. CatalogInv => RunKeepsItsVersions
  BY DEF CatalogInv
<1> QED
  BY <1>1, CatalogIsKept, PTL

(* No run is bound to a draft (catalog_store.py, active_for), whatever      *)
(* becomes of the version afterwards.                                       *)
THEOREM RunsBindNoDraft == Spec => []BoundWasActivated
<1>1. CatalogInv => BoundWasActivated
  BY DEF CatalogInv, BoundActivated, WasActivated, BoundWasActivated
<1> QED
  BY <1>1, CatalogIsKept, PTL

-----------------------------------------------------------------------------
(* What the runs of one client remember of their rows, and that it agrees   *)
(* with their verdicts.                                                     *)

(* The cells a row of the workbook gives a fact, and its grain.             *)
RowGrain(row) ==
    <<row.campaign_id, VariationIdKey(row.variation), row.day.n>>

MadeFrom(made, row) ==
    /\ Grain(made) = RowGrain(row)
    /\ \A f \in {"sent", "delivered", "conversions"} : made[f] = ParseInteger(row[f])
    /\ made.revenue = ParseDecimal(row.revenue)

(* A row that has no error of its own and a configuration.                  *)
Sound(row) == ExtractReason(row) = "none" /\ Covered(row.day.n)

(* A rejection that becomes a finding of the verdict.                       *)
Recorded(i, notes) ==
    \E k \in DOMAIN notes : notes[k].row = i /\ RejectToRule(notes[k].reason) # "none"

(* The rows whose rejections were persisted: what the first run has read.   *)
LastPersisted == IF run.no = 1 THEN run.at - 1 ELSE IF run.no = 0 THEN 0 ELSE Len(staged)

RejectionsPersist ==
    \A i \in 1..LastPersisted :
        /\ ExtractReason(staged[i]) # "none" => Recorded(i, rejected)
        /\ Sound(staged[i]) =>
             \A j \in 1..i - 1 : Sound(staged[j]) /\ RowGrain(staged[j]) = RowGrain(staged[i])
                                    => Recorded(i, rejected)

(* The fact agrees with its own card, unless it started in another time     *)
(* zone, and with what the run was bound to.                                *)
Recomputes(made, owner, ids) ==
    /\ StartedElsewhere(made) \/ Reconciles(made, made.card)
    /\ made.card \in Packaged
    /\ PackagedLabel(ids.rate) \in {NoId, made.card}
    /\ made.ids.rate = Persistable(owner, made.card)
    /\ ids.campaign \in {NoId, made.ids.campaign}
    /\ ids.template \in {NoId, made.ids.template}

Began == run.phase \in {"transforming", "validating", "done"}

(* The facts of the run are those of the sound rows read so far, each of    *)
(* one of them, and their cards are remembered until a re-evaluation.       *)
SeenFits ==
    /\ run.seen \subseteq DOMAIN facts
    /\ \A g \in DOMAIN facts : facts[g].run = run.no <=> g \in run.seen
    /\ \A j \in 1..run.at - 1 : Sound(staged[j]) => RowGrain(staged[j]) \in run.seen
    /\ \A g \in run.seen :
          /\ Recomputes(facts[g].fact, isOwner, run.ids)
          /\ \E j \in 1..run.at - 1 : Sound(staged[j]) /\ MadeFrom(facts[g].fact, staged[j])
                                      /\ g = Grain(facts[g].fact)
    /\ IsFiniteSet(run.cards)
    /\ run.cards # {} \/ run.phase # "done" =>
          \A g \in run.seen : facts[g].fact.card \in run.cards

(* Only the owner of the packaged versions stores their ids.                *)
IdsFit ==
    /\ run.logic \in Uploads \cup {NoId}
    /\ run.ids.campaign \in Uploads \cup {NoId} \/ (isOwner /\ run.ids.campaign \in Packaged)
    /\ run.ids.template = NoId \/ (isOwner /\ run.ids.template \in Packaged)
    /\ run.ids.rate = NoId \/ (isOwner /\ run.ids.rate \in Packaged)

Reasons == {"MISSING_CAMPAIGN_ID", "MISSING_DAY", "INVALID_DAY", "INVALID_NUMERIC",
            "NO_CONFIG_VERSION", "DUPLICATE_GRAIN_KEY"}
Notes == [row : Nat, reason : Reasons]

(* Where a run is, and its last verdict, which still holds.                 *)
PhaseFits ==
    /\ run.phase \in {"none", "binding"} \/ Began
    /\ run.phase = "none" => run.no = 0
    /\ run.phase \in {"none", "binding"} =>
          run.at = 0 /\ run.seen = {} /\ run.cards = {} /\ run.extra = <<>>
    /\ Began => run.at \in 1..Len(staged) + 1
    /\ run.phase \in {"validating", "done"} =>
          run.at = Len(staged) + 1 /\ run.status \in {"succeeded", "failed"}
    /\ run.phase = "done" => run.verdict = VerdictNow(run.cards, run.extra)

RunInv ==
    /\ staged \in Workbooks /\ rejected \in Seq(Notes) /\ run.extra \in Seq(Notes)
    /\ PhaseFits /\ IdsFit /\ RejectionsPersist /\ (Began => SeenFits)

(* The five rules of a card: the template status first, then a channel each. *)
LEMMA RuleList ==
    ASSUME NEW card, NEW rules, rules = RateRules(card)
    PROVE  /\ Len(rules) = 5 /\ DOMAIN rules = 1..5
           /\ rules[1].field = "template_status" /\ rules[1].value = "Utility"
           /\ \A i \in 2..5 : rules[i].field = "channel"
           /\ rules[2].value = "SMS" /\ rules[3].value = "Email"
           /\ rules[4].value = "RCS" /\ rules[5].value = "WhatsApp"
           /\ \A i \in 1..5 : rules[i].rate \in Nat \ {0}
BY DEF RateRules

(* A rule that matches what the row has in its field.                       *)
RuleFits(rule, template_status, channel) ==
    LET candidate == IF rule.field = "channel" THEN channel ELSE template_status
    IN  candidate # NoText /\ Lower(candidate) = Lower(rule.value)

LEMMA FirstRule ==
    ASSUME NEW card, NEW template_status, NEW channel,
           NEW rule, rule = ResolveRateRule(card, template_status, channel)
    PROVE  \/ /\ rule = 0
              /\ \A i \in 1..5 : ~RuleFits(RateRules(card)[i], template_status, channel)
           \/ /\ rule \in 1..5 /\ RuleFits(RateRules(card)[rule], template_status, channel)
              /\ \A i \in 1..5 : RuleFits(RateRules(card)[i], template_status, channel) => rule <= i
<1> DEFINE I == {i \in 1..5 : RuleFits(RateRules(card)[i], template_status, channel)}
<1>1. Len(RateRules(card)) = 5
  BY RuleList
<1>2. rule = IF I # {} THEN Min(I) ELSE 0
  BY <1>1 DEF ResolveRateRule, SelectInSeq, RuleFits
<1>3. I \subseteq Nat
  OBVIOUS
<1>4. I # {} => rule \in I /\ \A i \in I : rule <= i
  <2> HIDE DEF I
  <2> QED
    BY <1>2, <1>3, LeastIsOne
<1> QED
  BY <1>2, <1>4

(* The rate expected of the field that decides is that of the first rule.   *)
LEMMA RatesAgree ==
    ASSUME NEW card, NEW template_status, template_status # NoText, NEW channel,
           NEW rule, rule = ResolveRateRule(card, template_status, channel)
    PROVE  /\ ExpectedRate(card, template_status, channel)
                = IF rule = 0 THEN 0 ELSE RateRules(card)[rule].rate
           /\ rule # 0 => rule \in 1..5 /\ RateRules(card)[rule].rate \in Nat \ {0}
<1> DEFINE field == IF Lower(template_status) = "utility" THEN "template_status" ELSE "channel"
           key == IF field = "channel" THEN channel ELSE template_status
           hits == {i \in 1..5 : /\ RateRules(card)[i].field = field
                                 /\ key # NoText
                                 /\ Lower(RateRules(card)[i].value) = Lower(key)}
<1>1. PICK rules : rules = RateRules(card)
  OBVIOUS
<1>2. /\ Len(rules) = 5 /\ DOMAIN rules = 1..5
      /\ rules[1].field = "template_status" /\ rules[1].value = "Utility"
      /\ \A i \in 2..5 : rules[i].field = "channel"
      /\ rules[2].value = "SMS" /\ rules[3].value = "Email"
      /\ rules[4].value = "RCS" /\ rules[5].value = "WhatsApp"
      /\ \A i \in 1..5 : rules[i].rate \in Nat \ {0}
  BY <1>1, RuleList
<1>3. ExpectedRate(card, template_status, channel)
        = IF hits = {} THEN 0 ELSE rules[CHOOSE i \in hits : TRUE].rate
  BY <1>1, <1>2 DEF ExpectedRate
<1>4. \/ rule = 0 /\ \A i \in 1..5 : ~RuleFits(rules[i], template_status, channel)
      \/ /\ rule \in 1..5 /\ RuleFits(rules[rule], template_status, channel)
         /\ \A i \in 1..5 : RuleFits(rules[i], template_status, channel) => rule <= i
  BY <1>1, FirstRule
<1>5. \A i, j \in 2..5 : Lower(rules[i].value) = Lower(rules[j].value) => i = j
  <2>1. \A i \in 2..5 : i = 2 \/ i = 3 \/ i = 4 \/ i = 5
    OBVIOUS
  <2>2. \A a, b \in {"SMS", "Email", "RCS", "WhatsApp"} : Lower(a) = Lower(b) => a = b
    BY LowerConstants
  <2>3. \A i \in 2..5 : rules[i].value \in {"SMS", "Email", "RCS", "WhatsApp"}
    BY <1>2, <2>1
  <2>4. \A i, j \in 2..5 : rules[i].value = rules[j].value => i = j
    BY <1>2, <2>1
  <2> QED
    BY <2>2, <2>3, <2>4
<1>6. CASE Lower(template_status) = "utility"
  <2>1. RuleFits(rules[1], template_status, channel)
    BY <1>2, <1>6, LowerConstants DEF RuleFits
  <2>2. rule = 1
    BY <1>4, <2>1
  <2>3. hits = {1}
    <3>1. \A i \in 1..5 : rules[i].field = "template_status" <=> i = 1
      BY <1>2
    <3>2. field = "template_status" /\ key = template_status
      BY <1>6
    <3>3. Lower(rules[1].value) = Lower(template_status)
      BY <1>2, <1>6, LowerConstants
    <3> QED
      BY <1>1, <3>1, <3>2, <3>3
  <2> QED
    BY <1>1, <1>2, <1>3, <2>2, <2>3
<1>7. CASE Lower(template_status) # "utility"
  <2>1. ~RuleFits(rules[1], template_status, channel)
    BY <1>2, <1>7, LowerConstants DEF RuleFits
  <2>2. \A i \in 2..5 : RuleFits(rules[i], template_status, channel)
                          <=> channel # NoText /\ Lower(channel) = Lower(rules[i].value)
    BY <1>2 DEF RuleFits
  <2>3. field = "channel" /\ key = channel
    BY <1>7
  <2>4. \A i \in 1..5 : i \in hits <=> i \in 2..5 /\ RuleFits(rules[i], template_status, channel)
    BY <1>1, <1>2, <2>2, <2>3
  <2>5. CASE rule = 0
    <3>1. hits = {}
      BY <1>4, <2>4, <2>5
    <3> QED
      BY <1>3, <2>5, <3>1
  <2>6. CASE rule # 0
    <3>1. rule \in 2..5 /\ rule \in hits
      BY <1>4, <2>1, <2>4, <2>6
    <3>2. \A i \in hits : i \in 2..5 /\ Lower(rules[i].value) = Lower(rules[rule].value)
      BY <2>2, <2>4, <3>1
    <3>3. \A i \in hits : i = rule
      BY <1>5, <3>1, <3>2
    <3>4. (CHOOSE i \in hits : TRUE) = rule
      BY <3>1, <3>3
    <3> QED
      BY <1>1, <1>2, <1>3, <2>6, <3>1, <3>4
  <2> QED
    BY <2>5, <2>6
<1> QED
  BY <1>6, <1>7

(* A miss of the template is the empty text.                                *)
LEMMA TemplateIsText ==
    ASSUME NEW rows, NEW name
    PROVE  ResolveTemplate(rows, name).template_status # NoText
BY LowerConstants DEF ResolveTemplate

(* A campaign without a match has no label.                                 *)
LEMMA LabelOfMatch ==
    ASSUME NEW rows, NEW name, ResolveCampaign(rows, name).status # "matched"
    PROVE  ResolveCampaign(rows, name).label = NoText
BY DEF ResolveCampaign

(* The cells of a row that was not rejected are numbers, or nothing.        *)
LEMMA ParsedCell ==
    ASSUME NEW cell \in Cells
    PROVE  /\ ParseInteger(cell).n \in Int /\ ParseDecimal(cell).n \in Int
           /\ ParseInteger(cell).kind \in {"none", "number", "invalid"}
           /\ ParseInteger(cell).kind = "none" <=> cell = Blank
           /\ ParseInteger(cell).kind = "none" => ParseInteger(cell).n = 0
           /\ ParseInteger(cell).kind = "number" => ParseInteger(cell).n = cell.n
           /\ ParseDecimal(cell).kind \in {"none", "number", "invalid"}
           /\ ParseDecimal(cell).kind = "none" <=> cell = Blank
           /\ ParseDecimal(cell).kind = "number" => ParseDecimal(cell).n = cell.n
BY DEF ParseInteger, ParseDecimal, Cells, Blank, None

(* A start date of the sessions' own zone, or of none, is read back as it   *)
(* was written.                                                             *)
LEMMA StartIsReadBack ==
    ASSUME NEW cell \in StartCells, NEW start, start = ParseStartDate(cell),
           start.kind # "zoned" \/ start.zone = SessionZone
    PROVE  Hhh(ReadBack(start)) = Hhh(start)
<1>1. CASE start.kind # "zoned"
  BY <1>1 DEF ReadBack
<1>2. CASE start.kind = "zoned"
  <2>1. start \in Starts /\ start.zone = SessionZone
    BY <1>2 DEF ParseStartDate, NoStart
  <2>2. PICK minute, zone : minute = start.minute /\ zone = start.zone
    OBVIOUS
  <2>3. minute - zone + SessionZone = minute /\ minute % 1440 = minute
    <3>1. zone = SessionZone /\ minute \in 0..1439
      BY <2>1, <2>2 DEF Starts
    <3>2. minute - zone + zone = minute
      BY <3>1, ZoneConstants
    <3>3. minute % 1440 = minute
      BY <3>1
    <3> QED
      BY <3>1, <3>2, <3>3
  <2>4. ReadBack(start).minute = (minute - zone + SessionZone) % 1440
    BY <1>2, <2>1, <2>2 DEF ReadBack, Starts
  <2> QED
    BY <2>2, <2>3, <2>4 DEF Hhh
<1> QED
  BY <1>1, <1>2

(* The reconciliation of a fact under the card it was computed with.        *)
LEMMA FactReconciles ==
    ASSUME NEW owner \in BOOLEAN, NEW row, NEW bundle, NEW made, made = FactOf(owner, row, bundle),
           row.delivered \in Cells, row.start \in StartCells, bundle.card \in Packaged,
           bundle.ids.rate = Persistable(owner, bundle.card)
    PROVE  StartedElsewhere(made) \/ Reconciles(made, made.card)
<1> SUFFICES ASSUME ~StartedElsewhere(made) PROVE Reconciles(made, made.card)
  OBVIOUS
<1>1. PICK template, campaign, rule, delivered, card :
        /\ template = ResolveTemplate(bundle.templateRows, row.template).template_status
        /\ campaign = ResolveCampaign(bundle.campaignRows, row.name)
        /\ card = bundle.card
        /\ rule = ResolveRateRule(card, template, row.channel)
        /\ delivered = ParseInteger(row.delivered)
  OBVIOUS
<1>2. /\ made.template_status = template /\ made.channel = row.channel /\ made.card = card
      /\ made.label = campaign.label /\ made.label_status = campaign.status
      /\ made.delivered = delivered /\ made.month = MonthStart(made.day)
      /\ made.cost = TotalCost(card, template, row.channel, delivered)
      /\ made.rule = IF rule = 0 \/ ~owner THEN NoId ELSE <<card, rule>>
      /\ made.ids = bundle.ids /\ made.month_label = MonthLabel(made.day)
      /\ made.start = ParseStartDate(row.start) /\ made.hhh = Hhh(made.start)
      /\ made.variation_id = row.variation /\ made.variation = VariationIdKey(row.variation)
  <2> HIDE DEF Persistable, MonthStart, MonthLabel, ParseStartDate, Hhh, VariationIdKey
  <2> QED
    BY <1>1 DEF FactOf
<1>3. template # NoText
  BY <1>1, TemplateIsText
<1>4. PICK rate :
        /\ rate = ExpectedRate(card, template, row.channel)
        /\ rate = IF rule = 0 THEN 0 ELSE RateRules(card)[rule].rate
        /\ rule # 0 => rule \in 1..5 /\ rate \in Nat \ {0}
  BY <1>1, <1>3, RatesAgree
<1>5. made.cost = rate * (IF delivered.kind = "none" THEN 0 ELSE delivered.n)
  <2>1. delivered.n \in Int
    BY <1>1, ParsedCell
  <2>2. made.cost = IF rule = 0 \/ delivered.kind = "none" THEN 0 ELSE delivered.n * rate
    BY <1>1, <1>2, <1>4 DEF TotalCost
  <2> QED
    BY <1>4, <2>1, <2>2
<1>6. rate # 0 /\ made.ids.rate # NoId => made.rule # NoId
  <2> SUFFICES ASSUME rate # 0, made.ids.rate # NoId PROVE made.rule # NoId
    OBVIOUS
  <2>1. rule # 0 /\ rule \in 1..5
    BY <1>4
  <2>2. owner
    BY <1>1, <1>2 DEF Persistable
  <2>3. DOMAIN RateRules(card) = 1..5
    BY RuleList
  <2>4. NoId # <<card, rule>>
    BY <1>1, <2>1, <2>3, CatalogConstants
  <2> QED
    BY <1>2, <2>1, <2>2, <2>4
<1>7. rate = 0 => made.rule = NoId
  BY <1>2, <1>4
<1>8. made.label_status # "matched" => made.label = NoText
  BY <1>1, <1>2, LabelOfMatch
<1>9. made.hhh = Hhh(ReadBack(made.start))
  BY <1>2, StartIsReadBack DEF StartedElsewhere
<1>10. made.variation_id \in {NoText, "", made.variation}
  BY <1>2 DEF VariationIdKey
<1> QED
  BY <1>1, <1>2, <1>3, <1>4, <1>5, <1>6, <1>7, <1>8, <1>9, <1>10 DEF Reconciles

(* What a row is looked up in agrees with what its run was stored with.     *)
LEMMA BundleFits ==
    ASSUME NEW owner \in BOOLEAN, NEW ids, NEW overlay, NEW day, Covered(day),
           NEW bundle, bundle = BindForRun(owner, ids, overlay, day),
           ids.campaign \in DOMAIN overlay \/ ids.campaign = NoId \/ (owner /\ ids.campaign \in Packaged),
           DOMAIN overlay \subseteq Uploads,
           ids.template = NoId \/ (owner /\ ids.template \in Packaged),
           ids.rate = NoId \/ (owner /\ ids.rate \in Packaged)
    PROVE  /\ bundle.card \in Packaged
           /\ PackagedLabel(ids.rate) \in {NoId, bundle.card}
           /\ bundle.ids.rate = Persistable(owner, bundle.card)
           /\ ids.campaign \in {NoId, bundle.ids.campaign}
           /\ ids.template \in {NoId, bundle.ids.template}
<1>1. PICK campaign, template, rate, group :
        /\ campaign = SelectVersion(CampaignWindows, day)
        /\ template = SelectVersion(TemplateWindows, day)
        /\ rate = SelectVersion(RateWindows, day)
        /\ group = IF (IF ids.group \in Packaged \cup DOMAIN overlay THEN ids.group ELSE NoId) = NoId
                   THEN GroupVersion
                   ELSE IF ids.group \in Packaged \cup DOMAIN overlay THEN ids.group ELSE NoId
  OBVIOUS
<1>2. rate \in Packaged /\ template \in Packaged /\ NoId \notin Packaged
  <2>1. rate # NoId /\ template # NoId
    BY <1>1 DEF Covered
  <2>2. rate \in {NoId} \cup Packaged /\ template \in {NoId} \cup Packaged
    BY <1>1, WindowIsPackaged
  <2> QED
    BY <2>1, <2>2, CatalogConstants
<1>3. bundle.card = IF PackagedLabel(ids.rate) = NoId THEN rate ELSE PackagedLabel(ids.rate)
  BY <1>1 DEF BindForRun
<1>4. bundle.ids.rate = Persistable(owner, bundle.card)
  BY DEF BindForRun
<1>5. bundle.ids.template
        = Persistable(owner, IF PackagedLabel(ids.template) = NoId THEN template
                             ELSE PackagedLabel(ids.template))
  BY <1>1 DEF BindForRun
<1>6. ids.campaign \in Packaged \cup DOMAIN overlay /\ ids.campaign # NoId =>
        bundle.ids.campaign = Persistable(owner, ids.campaign)
  BY DEF BindForRun
<1>7. Uploads \cap Packaged = {}
  BY CatalogConstants
<1>8. ids.campaign \in {NoId, bundle.ids.campaign}
  BY <1>6, <1>7 DEF Persistable
<1>9. ids.template \in {NoId, bundle.ids.template}
  BY <1>2, <1>5 DEF Persistable, PackagedLabel
<1>10. bundle.card \in Packaged /\ PackagedLabel(ids.rate) \in {NoId, bundle.card}
  BY <1>2, <1>3 DEF PackagedLabel
<1> QED
  BY <1>4, <1>8, <1>9, <1>10

(* The cells of a fact are those of its row.                                *)
LEMMA FactIsMade ==
    ASSUME NEW owner, NEW row, NEW bundle, NEW made, made = FactOf(owner, row, bundle)
    PROVE  MadeFrom(made, row) /\ made.card = bundle.card /\ made.ids = bundle.ids
<1>1. Grain(made) = RowGrain(row)
  BY GrainOfFact DEF RowGrain
<1>2. /\ made.sent = ParseInteger(row.sent) /\ made.delivered = ParseInteger(row.delivered)
      /\ made.conversions = ParseInteger(row.conversions) /\ made.revenue = ParseDecimal(row.revenue)
      /\ made.card = bundle.card /\ made.ids = bundle.ids
  BY DEF FactOf
<1> QED
  BY <1>1, <1>2 DEF MadeFrom

(* The fact of the next row agrees with its card and with its run.          *)
LEMMA NextFactRecomputes ==
    ASSUME CatalogInv, RunInv, run.at \in DOMAIN staged, Covered(NextRow.day.n),
           NEW made, made = FactOf(isOwner, NextRow, BindRun(NextRow.day.n))
    PROVE  Recomputes(made, isOwner, run.ids)
<1>1. PICK owner, row, bundle, ids, overlay, day :
        /\ owner = isOwner /\ row = NextRow /\ ids = run.ids /\ overlay = Overlay /\ day = row.day.n
        /\ bundle = BindForRun(owner, ids, overlay, day)
  OBVIOUS
<1>2. made = FactOf(owner, row, bundle)
  BY <1>1 DEF BindRun
<1>3. owner \in BOOLEAN /\ Covered(day)
  BY <1>1 DEF CatalogInv
<1>4. /\ ids.campaign \in Uploads => ids.campaign \in DOMAIN overlay
      /\ ids.campaign \in Uploads \cup {NoId} \/ (owner /\ ids.campaign \in Packaged)
      /\ ids.template = NoId \/ (owner /\ ids.template \in Packaged)
      /\ ids.rate = NoId \/ (owner /\ ids.rate \in Packaged)
      /\ DOMAIN overlay \subseteq Uploads
  BY <1>1 DEF CatalogInv, BoundActivated, WasActivated, Overlay, RunInv, IdsFit
<1>5. /\ bundle.card \in Packaged
      /\ PackagedLabel(ids.rate) \in {NoId, bundle.card}
      /\ bundle.ids.rate = Persistable(owner, bundle.card)
      /\ ids.campaign \in {NoId, bundle.ids.campaign}
      /\ ids.template \in {NoId, bundle.ids.template}
  BY <1>1, <1>3, <1>4, BundleFits
<1>6. row.delivered \in Cells /\ row.start \in StartCells
  <2>1. staged \in Workbooks
    BY DEF RunInv
  <2>2. staged[run.at] \in ToSet(staged)
    BY DEF ToSet
  <2> QED
    BY <1>1, <2>1, <2>2, CatalogConstants DEF NextRow
<1>7. StartedElsewhere(made) \/ Reconciles(made, made.card)
  BY <1>2, <1>3, <1>5, <1>6, FactReconciles
<1>8. made.card = bundle.card /\ made.ids = bundle.ids
  BY <1>2, FactIsMade
<1> QED
  BY <1>1, <1>5, <1>7, <1>8 DEF Recomputes

(* Publishers leave the run, its rows and its facts alone.                  *)
LEMMA RunIsUndisturbed ==
    ASSUME RunInv, UNCHANGED <<isOwner, staged, rejected, facts, run>>
    PROVE  RunInv'
<1>1. Began' = Began /\ LastPersisted' = LastPersisted
  BY DEF Began, LastPersisted
<1>2. \A cards, extra : VerdictNow(cards, extra)' = VerdictNow(cards, extra)
  BY DEF VerdictNow, FactsOf, Evidence
<1>3. PhaseFits' /\ IdsFit'
  BY <1>1, <1>2 DEF RunInv, PhaseFits, IdsFit, VerdictNow, Evidence, FactsOf
<1>4. SeenFits' = SeenFits
  BY DEF SeenFits
<1>5. RejectionsPersist'
  BY <1>1 DEF RunInv, RejectionsPersist
<1> QED
  BY <1>1, <1>3, <1>4, <1>5 DEF RunInv

(* A new run has seen nothing; what the first one rejected is on record.    *)
LEMMA NewRun ==
    ASSUME CatalogInv, RunInv, BindLogic
    PROVE  RunInv'
<1>1. /\ run.phase \in {"none", "done"}
      /\ UNCHANGED <<isOwner, staged, rejected, facts>>
      /\ run'.no = run.no + 1 /\ run'.phase = "binding" /\ run'.at = 0 /\ run'.ids = NoIds
      /\ run'.seen = {} /\ run'.cards = {} /\ run'.extra = <<>>
  BY DEF BindLogic, NoRun
<1>2. ~Began'
  BY <1>1 DEF Began
<1>3. PhaseFits'
  BY <1>1, <1>2 DEF PhaseFits, CatalogInv, RunIsNumbered, Began
<1>4. IdsFit'
  <2>1. run'.logic = ActiveFor(Logic)
    BY DEF BindLogic, NoRun
  <2>2. ActiveFor(Logic) \in Uploads \cup {NoId}
    BY ActiveIsThere DEF Uploads
  <2> QED
    BY <1>1, <2>1, <2>2 DEF IdsFit, NoIds
<1>5. run'.extra \in Seq(Notes)
  BY <1>1
<1>6. RejectionsPersist'
  <2>1. run.no \in Nat
    BY DEF CatalogInv, RunIsNumbered
  <2>2. Len(staged) \in Nat
    BY CatalogConstants DEF RunInv
  <2>3. CASE run.no = 0
    <3>1. LastPersisted' = -1
      BY <1>1, <2>3 DEF LastPersisted
    <3> QED
      BY <3>1 DEF RejectionsPersist
  <2>4. CASE run.no # 0
    <3>1. run.phase = "done" /\ run.at = Len(staged) + 1
      BY <1>1, <2>4 DEF RunInv, PhaseFits
    <3>2. LastPersisted = Len(staged) /\ LastPersisted' = Len(staged)
      BY <1>1, <2>1, <2>2, <2>4, <3>1 DEF LastPersisted
    <3> QED
      BY <1>1, <3>2 DEF RunInv, RejectionsPersist
  <2> QED
    BY <2>3, <2>4
<1> QED
  BY <1>1, <1>2, <1>3, <1>4, <1>5, <1>6 DEF RunInv

(* A run is created with ids its client may store, before its first row.    *)
LEMMA RunIsCreated ==
    ASSUME CatalogInv, RunInv, CreateRun
    PROVE  RunInv'
<1>1. PICK labels : labels = ActiveFor(Labels) /\ labels \in Uploads \cup {NoId}
  BY ActiveIsThere DEF Uploads
<1>2. PICK day, ids : day = ObservedDayMin /\ ids = BindVersions(isOwner, day, run.logic, labels)
  OBVIOUS
<1>3. run.phase = "binding" /\ run' = [run EXCEPT !.phase = "transforming", !.at = 1, !.ids = ids]
      /\ UNCHANGED <<isOwner, staged, rejected, facts>>
  BY <1>1, <1>2 DEF CreateRun
<1>4. /\ run'.phase = "transforming" /\ run'.at = 1 /\ run'.ids = ids /\ run'.no = run.no
      /\ run'.seen = {} /\ run'.cards = {} /\ run'.extra = <<>> /\ run'.logic = run.logic
  BY <1>3 DEF CatalogInv, RunIsNumbered, NoRun, RunInv, PhaseFits
<1>5. IdsFit'
  <2>1. PICK campaign, template, rate :
          /\ campaign = SelectVersion(CampaignWindows, day)
          /\ template = SelectVersion(TemplateWindows, day)
          /\ rate = SelectVersion(RateWindows, day)
    OBVIOUS
  <2>2. {campaign, template, rate} \subseteq {NoId} \cup Packaged
    BY <2>1, WindowIsPackaged
  <2>3. /\ ids.campaign \in {run.logic, NoId, Persistable(isOwner, campaign)}
        /\ ids.campaign = run.logic => run.logic \in Uploads \cup {NoId}
        /\ ids.template \in {NoId, Persistable(isOwner, template)}
        /\ ids.rate \in {NoId, Persistable(isOwner, rate)}
    BY <1>2, <2>1 DEF BindVersions, RunInv, IdsFit
  <2>4. \A id \in {NoId} \cup Packaged :
          Persistable(isOwner, id) = NoId \/ (isOwner /\ Persistable(isOwner, id) \in Packaged)
    BY DEF Persistable, CatalogInv
  <2>5. run.logic \in Uploads \cup {NoId}
    BY DEF RunInv, IdsFit
  <2> QED
    BY <1>3, <1>4, <2>2, <2>3, <2>4, <2>5 DEF IdsFit
<1>6. Len(staged) \in Nat
  BY CatalogConstants DEF RunInv
<1>7. PhaseFits'
  BY <1>3, <1>4, <1>6 DEF PhaseFits, Began
<1>8. RejectionsPersist'
  <2>1. run.no \in Nat /\ run.no # 0
    BY <1>3 DEF CatalogInv, RunIsNumbered
  <2>2. CASE run.no = 1
    <3>1. LastPersisted' = 0
      BY <1>3, <1>4, <2>2 DEF LastPersisted
    <3> QED
      BY <3>1 DEF RejectionsPersist
  <2>3. CASE run.no # 1
    <3>1. LastPersisted' = LastPersisted
      BY <1>3, <1>4, <2>1, <2>3 DEF LastPersisted
    <3> QED
      BY <1>3, <3>1 DEF RunInv, RejectionsPersist
  <2> QED
    BY <2>2, <2>3
<1>9. SeenFits'
  <2>1. \A g \in DOMAIN facts : facts[g].run # run.no
    BY <1>3 DEF CatalogInv, FactsAreOfRuns
  <2>2. IsFiniteSet({})
    BY FS_EmptySet
  <2> QED
    BY <1>3, <1>4, <2>1, <2>2 DEF SeenFits
<1> QED
  BY <1>3, <1>4, <1>5, <1>7, <1>8, <1>9 DEF RunInv

(* What was on record stays on record.                                      *)
LEMMA NotesGrow ==
    ASSUME NEW notes \in Seq(Notes), NEW note \in Notes, NEW i
    PROVE  /\ Append(notes, note) \in Seq(Notes)
           /\ Recorded(i, notes) => Recorded(i, Append(notes, note))
           /\ RejectToRule(note.reason) # "none" => Recorded(note.row, Append(notes, note))
<1>1. PICK more : more = Append(notes, note)
  OBVIOUS
<1>2. /\ more \in Seq(Notes) /\ DOMAIN notes \subseteq DOMAIN more
      /\ Len(notes) + 1 \in DOMAIN more /\ more[Len(notes) + 1] = note
      /\ \A k \in DOMAIN notes : more[k] = notes[k]
  BY <1>1, AppendProperties
<1>3. Recorded(i, notes) => Recorded(i, more)
  BY <1>2 DEF Recorded
<1>4. RejectToRule(note.reason) # "none" => Recorded(note.row, more)
  BY <1>2 DEF Recorded
<1> QED
  BY <1>1, <1>2, <1>3, <1>4

(* Every reason of a row's own has a rule.                                  *)
LEMMA ReasonsHaveRules ==
    ASSUME NEW row
    PROVE  /\ ExtractReason(row) \in Reasons \cup {"none"}
           /\ ExtractReason(row) # "none" => RejectToRule(ExtractReason(row)) # "none"
           /\ RejectToRule("DUPLICATE_GRAIN_KEY") # "none"
<1>1. ExtractReason(row) \in {"none", "MISSING_CAMPAIGN_ID", "MISSING_DAY", "INVALID_DAY", "INVALID_NUMERIC"}
  BY DEF ExtractReason
<1>2. \A reason \in {"MISSING_CAMPAIGN_ID", "MISSING_DAY", "INVALID_DAY", "INVALID_NUMERIC"} :
        RejectToRule(reason) # "none"
  <2>1. RejectToRule("MISSING_CAMPAIGN_ID") # "none" /\ RejectToRule("MISSING_DAY") # "none"
    BY DEF RejectToRule
  <2>2. RejectToRule("INVALID_DAY") # "none" /\ RejectToRule("INVALID_NUMERIC") # "none"
    BY DEF RejectToRule
  <2> QED
    BY <2>1, <2>2
<1>3. RejectToRule("DUPLICATE_GRAIN_KEY") # "none"
  BY DEF RejectToRule
<1> QED
  BY <1>1, <1>2, <1>3 DEF Reasons

(* A row that is rejected.                                                  *)
LEMMA RowIsRejected ==
    ASSUME CatalogInv, RunInv, run.phase = "transforming", run.at \in DOMAIN staged,
           UNCHANGED <<isOwner, staged>>, NEW reason \in Reasons, Reject(reason),
           ExtractReason(staged[run.at]) # "none" => reason = ExtractReason(staged[run.at]),
           Sound(staged[run.at]) => /\ reason = "DUPLICATE_GRAIN_KEY"
                                    /\ RowGrain(staged[run.at]) \in run.seen
    PROVE  RunInv'
<1>1. PICK note : note = [row |-> run.at, reason |-> reason]
  OBVIOUS
<1>2. Len(staged) \in Nat /\ run.at \in 1..Len(staged) /\ run.no \in Nat /\ run.no # 0
  BY CatalogConstants DEF RunInv, CatalogInv, RunIsNumbered
<1>3. note \in Notes
  BY <1>1, <1>2 DEF Notes
<1>4. /\ run'.at = run.at + 1 /\ run'.no = run.no /\ run'.phase = "transforming" /\ UNCHANGED facts
      /\ run'.ids = run.ids /\ run'.seen = run.seen /\ run'.cards = run.cards /\ run'.logic = run.logic
      /\ \/ run.no = 1 /\ rejected' = Append(rejected, note) /\ run'.extra = run.extra
         \/ run.no # 1 /\ rejected' = rejected /\ run'.extra = Append(run.extra, note)
  BY <1>1 DEF Reject, AddRejectedRow, CatalogInv, RunIsNumbered, NoRun
<1>5. rejected \in Seq(Notes) /\ run.extra \in Seq(Notes)
  BY DEF RunInv
<1>6. rejected' \in Seq(Notes) /\ run'.extra \in Seq(Notes)
  BY <1>3, <1>4, <1>5, NotesGrow
<1>7. PhaseFits'
  BY <1>2, <1>4 DEF PhaseFits, Began
<1>8. IdsFit'
  BY <1>4 DEF RunInv, IdsFit
<1>10. SeenFits /\ Began
  BY DEF RunInv, Began
<1>11. SeenFits'
  <2>1. \A j \in 1..run'.at - 1 : j \in 1..run.at - 1 \/ j = run.at
    BY <1>2, <1>4
  <2>2. \A j \in 1..run'.at - 1 : Sound(staged[j]) => RowGrain(staged[j]) \in run.seen
    BY <1>10, <2>1 DEF SeenFits
  <2>3. 1..run.at - 1 \subseteq 1..run'.at - 1
    BY <1>2, <1>4
  <2>4. run'.cards # {} \/ run'.phase # "done" => run.cards # {} \/ run.phase # "done"
    BY <1>4
  <2> QED
    BY <1>4, <1>10, <2>2, <2>3, <2>4 DEF SeenFits
<1>12. RejectionsPersist'
  <2>1. CASE run.no = 1
    <3>1. LastPersisted = run.at - 1 /\ LastPersisted' = run.at
      BY <1>2, <1>4, <2>1 DEF LastPersisted
    <3>2. \A i : Recorded(i, rejected) => Recorded(i, rejected')
      BY <1>3, <1>4, <1>5, <2>1, NotesGrow
    <3>3. ExtractReason(staged[run.at]) # "none" \/ Sound(staged[run.at]) => Recorded(run.at, rejected')
      <4>1. ExtractReason(staged[run.at]) # "none" \/ Sound(staged[run.at]) => RejectToRule(reason) # "none"
        BY ReasonsHaveRules
      <4>2. note.row = run.at /\ note.reason = reason
        BY <1>1
      <4> QED
        BY <1>3, <1>4, <1>5, <2>1, <4>1, <4>2, NotesGrow
    <3>4. \A i \in 1..run.at : i \in 1..run.at - 1 \/ i = run.at
      BY <1>2
    <3> QED
      BY <3>1, <3>2, <3>3, <3>4 DEF RunInv, RejectionsPersist
  <2>2. CASE run.no # 1
    <3>1. LastPersisted' = LastPersisted /\ rejected' = rejected
      BY <1>4, <2>2 DEF LastPersisted
    <3> QED
      BY <3>1 DEF RunInv, RejectionsPersist
  <2> QED
    BY <2>1, <2>2
<1> QED
  BY <1>6, <1>7, <1>8, <1>11, <1>12 DEF RunInv

(* A row that becomes the fact of its grain.                                *)
LEMMA RowIsTaken ==
    ASSUME CatalogInv, RunInv, run.phase = "transforming", run.at \in DOMAIN staged,
           UNCHANGED <<isOwner, staged, rejected>>,
           NEW bundle, bundle = BindRun(NextRow.day.n),
           NEW made, made = FactOf(isOwner, NextRow, bundle),
           Sound(NextRow), Grain(made) \notin run.seen,
           facts' = [g \in DOMAIN facts \cup {Grain(made)} |->
                        IF g = Grain(made) THEN [fact |-> made, run |-> run.no] ELSE facts[g]],
           run' = [run EXCEPT !.at = @ + 1, !.seen = @ \cup {Grain(made)}, !.cards = @ \cup {bundle.card}]
    PROVE  RunInv'
<1>1. PICK row, grain : row = staged[run.at] /\ grain = Grain(made)
  OBVIOUS
<1>2. Len(staged) \in Nat /\ run.at \in 1..Len(staged) /\ run.no \in Nat /\ run.no # 0
  BY CatalogConstants DEF RunInv, CatalogInv, RunIsNumbered
<1>3. /\ run'.at = run.at + 1 /\ run'.no = run.no /\ run'.phase = "transforming"
      /\ run'.ids = run.ids /\ run'.logic = run.logic /\ run'.extra = run.extra
      /\ run'.seen = run.seen \cup {grain} /\ run'.cards = run.cards \cup {bundle.card}
  BY <1>1 DEF CatalogInv, RunIsNumbered, NoRun
<1>4. MadeFrom(made, row) /\ made.card = bundle.card
  BY <1>1, FactIsMade DEF NextRow
<1>5. RowGrain(row) = grain
  BY <1>1, <1>4 DEF MadeFrom
<1>6. Recomputes(made, isOwner, run.ids)
  BY NextFactRecomputes DEF Sound
<1>8. SeenFits /\ Began
  BY DEF RunInv, Began
<1>9. /\ facts'[grain].fact = made /\ facts'[grain].run = run.no /\ grain \notin run.seen
      /\ DOMAIN facts' = DOMAIN facts \cup {grain}
      /\ \A g \in DOMAIN facts : g # grain => facts'[g] = facts[g]
  BY <1>1
<1>10. SeenFits'
  <2>1. \A j \in 1..run'.at - 1 : j \in 1..run.at - 1 \/ j = run.at
    BY <1>2, <1>3
  <2>2. \A j \in 1..run'.at - 1 : Sound(staged[j]) => RowGrain(staged[j]) \in run'.seen
    BY <1>1, <1>3, <1>5, <1>8, <2>1 DEF SeenFits
  <2>3. 1..run.at - 1 \subseteq 1..run'.at - 1 /\ run.at \in 1..run'.at - 1
    BY <1>2, <1>3
  <2>4. run'.seen \subseteq DOMAIN facts'
    BY <1>3, <1>8, <1>9 DEF SeenFits
  <2>5. \A g \in DOMAIN facts' : facts'[g].run = run'.no <=> g \in run'.seen
    BY <1>3, <1>8, <1>9 DEF SeenFits
  <2>6. \A g \in run.seen : facts'[g] = facts[g] /\ g # grain
    BY <1>8, <1>9 DEF SeenFits
  <2>7. \A g \in run'.seen : Recomputes(facts'[g].fact, isOwner', run'.ids)
    BY <1>3, <1>6, <1>8, <1>9, <2>6 DEF SeenFits
  <2>8. ASSUME NEW g \in run'.seen
        PROVE  \E j \in 1..run'.at - 1 :
                  Sound(staged[j]) /\ MadeFrom(facts'[g].fact, staged[j]) /\ g = Grain(facts'[g].fact)
    <3>1. CASE g = grain
      BY <1>1, <1>4, <1>9, <2>3, <3>1 DEF NextRow
    <3>2. CASE g \in run.seen
      BY <1>8, <2>3, <2>6, <3>2 DEF SeenFits
    <3> QED
      BY <1>3, <3>1, <3>2
  <2>9. IsFiniteSet(run'.cards)
    <3>1. IsFiniteSet(run.cards)
      BY <1>8 DEF SeenFits
    <3> QED
      BY <1>3, <3>1, FS_AddElement
  <2>10. \A g \in run'.seen : facts'[g].fact.card \in run'.cards
    <3>1. \A g \in run.seen : facts[g].fact.card \in run.cards
      BY <1>8 DEF SeenFits
    <3> QED
      BY <1>3, <1>4, <1>9, <2>6, <3>1
  <2> QED
    BY <2>2, <2>4, <2>5, <2>7, <2>8, <2>9, <2>10 DEF SeenFits
<1>11. RejectionsPersist'
  <2>1. CASE run.no = 1
    <3>1. LastPersisted = run.at - 1 /\ LastPersisted' = run.at
      BY <1>2, <1>3, <2>1 DEF LastPersisted
    <3>2. ExtractReason(staged[run.at]) = "none"
      BY DEF Sound, NextRow
    <3>3. \A j \in 1..run.at - 1 : Sound(staged[j]) => RowGrain(staged[j]) # RowGrain(staged[run.at])
      BY <1>1, <1>5, <1>8, <1>9 DEF SeenFits
    <3>4. \A i \in 1..run.at : i \in 1..run.at - 1 \/ i = run.at
      BY <1>2
    <3> QED
      BY <3>1, <3>2, <3>3, <3>4 DEF RunInv, RejectionsPersist
  <2>2. CASE run.no # 1
    <3>1. LastPersisted' = LastPersisted
      BY <1>3, <2>2 DEF LastPersisted
    <3> QED
      BY <3>1 DEF RunInv, RejectionsPersist
  <2> QED
    BY <2>1, <2>2
<1>12. PhaseFits' /\ IdsFit'
  BY <1>2, <1>3 DEF PhaseFits, Began, RunInv, IdsFit
<1> QED
  BY <1>3, <1>10, <1>11, <1>12 DEF RunInv

(* Every outcome of the row that is read.                                   *)
LEMMA RowIsRead ==
    ASSUME CatalogInv, RunInv, TransformRow
    PROVE  RunInv'
<1>1. PICK row, reason, bundle, made :
        /\ row = NextRow /\ reason = ExtractReason(row) /\ bundle = BindRun(row.day.n)
        /\ made = FactOf(isOwner, row, bundle)
  OBVIOUS
<1>2. /\ run.phase = "transforming" /\ run.at \in DOMAIN staged /\ UNCHANGED <<isOwner, staged>>
      /\ row = staged[run.at]
  BY <1>1 DEF TransformRow, NextRow
<1>3. \/ reason # "none" /\ Reject(reason)
      \/ reason = "none" /\ ~Covered(row.day.n) /\ Reject("NO_CONFIG_VERSION")
      \/ Sound(row) /\ Grain(made) \in run.seen /\ Reject("DUPLICATE_GRAIN_KEY")
      \/ /\ Sound(row) /\ Grain(made) \notin run.seen
         /\ facts' = [g \in DOMAIN facts \cup {Grain(made)} |->
                        IF g = Grain(made) THEN [fact |-> made, run |-> run.no] ELSE facts[g]]
         /\ run' = [run EXCEPT !.at = @ + 1, !.seen = @ \cup {Grain(made)},
                               !.cards = @ \cup {bundle.card}]
         /\ UNCHANGED rejected
  BY <1>1 DEF TransformRow, Sound
<1>4. CASE reason # "none" /\ Reject(reason)
  BY <1>1, <1>2, <1>4, RowIsRejected, ReasonsHaveRules DEF Sound
<1>5. CASE reason = "none" /\ ~Covered(row.day.n) /\ Reject("NO_CONFIG_VERSION")
  <2>1. ~Sound(staged[run.at]) /\ ExtractReason(staged[run.at]) = "none"
    BY <1>1, <1>2, <1>5 DEF Sound
  <2>2. "NO_CONFIG_VERSION" \in Reasons
    BY DEF Reasons
  <2> QED
    BY <1>2, <1>5, <2>1, <2>2, RowIsRejected
<1>6. CASE Sound(row) /\ Grain(made) \in run.seen /\ Reject("DUPLICATE_GRAIN_KEY")
  <2>1. Grain(made) = RowGrain(row)
    BY <1>1, FactIsMade DEF MadeFrom
  <2>2. ExtractReason(staged[run.at]) = "none" /\ RowGrain(staged[run.at]) \in run.seen
    BY <1>2, <1>6, <2>1 DEF Sound
  <2>3. "DUPLICATE_GRAIN_KEY" \in Reasons
    BY DEF Reasons
  <2> QED
    BY <1>2, <1>6, <2>2, <2>3, RowIsRejected
<1>7. CASE /\ Sound(row) /\ Grain(made) \notin run.seen
           /\ facts' = [g \in DOMAIN facts \cup {Grain(made)} |->
                          IF g = Grain(made) THEN [fact |-> made, run |-> run.no] ELSE facts[g]]
           /\ run' = [run EXCEPT !.at = @ + 1, !.seen = @ \cup {Grain(made)},
                                 !.cards = @ \cup {bundle.card}]
           /\ UNCHANGED rejected
  BY <1>1, <1>2, <1>7, RowIsTaken
<1> QED
  BY <1>3, <1>4, <1>5, <1>6, <1>7

(* A verdict that allows publication left no finding but warnings.          *)
LEMMA PublishableFindings ==
    ASSUME NEW evidence, NEW made, NEW status, NEW reconciled,
           Verdict(evidence, made, status, reconciled) \in Publishable
    PROVE  /\ status # "failed"
           /\ \A k \in DOMAIN evidence : RejectToRule(evidence[k].reason) = "none"
           /\ \A fct \in made : \A check \in FactChecks(fct) : check[3] => check[1] \in Warnings
<1>1. PICK fired : fired = RulesFired(evidence, made, status, reconciled)
  OBVIOUS
<1>2. fired \subseteq Warnings
  <2>1. PICK injective : injective = IsInjective(RejectFindings(evidence))
    OBVIOUS
  <2>2. PICK verdict : verdict = Verdict(evidence, made, status, reconciled)
    OBVIOUS
  <2>3. ~injective => verdict = "unavailable"
    BY <2>1, <2>2 DEF Verdict
  <2>4. injective /\ fired \ Warnings # {} => verdict = "fail"
    BY <1>1, <2>1, <2>2 DEF Verdict
  <2>5. verdict \in {"pass", "warn"}
    BY <2>2 DEF Publishable
  <2> QED
    BY <2>1, <2>3, <2>4, <2>5
<1>3. status # "failed"
  <2> SUFFICES ASSUME status = "failed" PROVE FALSE
    OBVIOUS
  <2>1. "QA-RUN-FAILED" \in RunFindings(evidence, status, reconciled)
    BY DEF RunFindings
  <2>2. RunFindings(evidence, status, reconciled) \subseteq fired
    BY <1>1, Zenon DEF RulesFired
  <2> QED
    BY <1>2, <2>1, <2>2 DEF Warnings
<1>4. ASSUME NEW k \in DOMAIN evidence
      PROVE  RejectToRule(evidence[k].reason) = "none"
  <2> SUFFICES ASSUME RejectToRule(evidence[k].reason) # "none" PROVE FALSE
    OBVIOUS
  <2>1. PICK found : found = RejectFindings(evidence)
    OBVIOUS
  <2>2. k \in DOMAIN found /\ found[k][1] = RejectToRule(evidence[k].reason)
    BY <2>1 DEF RejectFindings
  <2>3. RejectToRule(evidence[k].reason) \in fired
    BY <1>1, <2>1, <2>2 DEF RulesFired
  <2>4. PICK reason : reason = evidence[k].reason
    OBVIOUS
  <2>5. RejectToRule(reason) \in {"QA-MISSING-KEY", "QA-MISSING-DATE", "QA-MALFORMED-ID",
                                  "QA-INVALID-NUMERIC", "QA-DUPLICATE-GRAIN", "none"}
    BY DEF RejectToRule
  <2> QED
    BY <1>2, <2>3, <2>4, <2>5 DEF Warnings
<1>5. ASSUME NEW fct \in made, NEW check \in FactChecks(fct), check[3]
      PROVE  check[1] \in Warnings
  <2>1. <<check[1], <<Grain(fct), check[2]>> >> \in FactFindings(fct)
    BY <1>5 DEF FactFindings
  <2>2. check[1] \in {f[1] : f \in FactFindings(fct)}
    BY <2>1
  <2>3. check[1] \in fired
    BY <1>1, <2>2 DEF RulesFired
  <2> QED
    BY <1>2, <2>3
<1> QED
  BY <1>3, <1>4, <1>5

(* The end of the rows and the verdicts of a run.                           *)
LEMMA RunIsJudged ==
    ASSUME CatalogInv, RunInv, EndRun \/ Evaluate \/ Reevaluate
    PROVE  RunInv'
<1>1. /\ UNCHANGED <<isOwner, staged, rejected, facts>>
      /\ run'.no = run.no /\ run'.at = run.at /\ run'.ids = run.ids /\ run'.seen = run.seen
      /\ run'.logic = run.logic /\ run'.phase \in {"validating", "done"} /\ run'.extra \in Seq(Notes)
  <2>1. run.extra \in Seq(Notes) /\ <<>> \in Seq(Notes)
    BY DEF RunInv
  <2>2. CASE EndRun
    BY <2>1, <2>2 DEF EndRun, CatalogInv, RunIsNumbered, NoRun
  <2>3. CASE Evaluate
    BY <2>1, <2>3 DEF Evaluate, CatalogInv, RunIsNumbered, NoRun
  <2>4. CASE Reevaluate
    <3>1. run'.extra = <<>>
      BY <2>4 DEF Reevaluate, CatalogInv, RunIsNumbered, NoRun
    <3> QED
      BY <2>1, <2>4, <3>1 DEF Reevaluate, CatalogInv, RunIsNumbered, NoRun
  <2> QED
    BY <2>2, <2>3, <2>4
<1>2. run.phase \in {"transforming", "validating", "done"} /\ Began /\ Began'
  BY <1>1 DEF EndRun, Evaluate, Reevaluate, Began
<1>3. Len(staged) \in Nat /\ run.at \in 1..Len(staged) + 1 /\ SeenFits
  BY <1>2, CatalogConstants DEF RunInv, PhaseFits
<1>4. run'.at = Len(staged) + 1
  <2>1. CASE EndRun
    <3>1. staged \in Seq(ToSet(staged))
      BY CatalogConstants DEF RunInv
    <3> QED
      BY <1>1, <1>3, <2>1, <3>1 DEF EndRun
  <2>2. CASE Evaluate \/ Reevaluate
    BY <1>1, <2>2 DEF Evaluate, Reevaluate, RunInv, PhaseFits
  <2> QED
    BY <2>1, <2>2
<1>5. run'.status \in {"succeeded", "failed"}
  BY DEF EndRun, Evaluate, Reevaluate, CatalogInv, RunIsNumbered, NoRun, RunInv, PhaseFits
<1>6. PhaseFits'
  <2>1. CASE EndRun
    <3>1. run'.phase = "validating"
      BY <2>1 DEF EndRun, CatalogInv, RunIsNumbered, NoRun
    <3> QED
      BY <1>1, <1>2, <1>3, <1>4, <1>5, <3>1 DEF PhaseFits
  <2>2. CASE Evaluate \/ Reevaluate
    <3>1. run'.verdict = VerdictNow(run'.cards, run'.extra) /\ run'.status = run.status
      BY <2>2 DEF Evaluate, Reevaluate, CatalogInv, RunIsNumbered, NoRun
    <3>2. VerdictNow(run.cards, run.extra)' = VerdictNow(run'.cards, run'.extra)
      BY <1>1, <3>1 DEF VerdictNow, FactsOf, Evidence
    <3>3. run'.verdict = VerdictNow(run.cards, run.extra)'
      BY <3>1, <3>2
    <3> QED
      BY <1>1, <1>2, <1>3, <1>4, <1>5, <3>3 DEF PhaseFits
  <2> QED
    BY <2>1, <2>2
<1>7. IdsFit'
  BY <1>1 DEF RunInv, IdsFit
<1>8. RejectionsPersist'
  <2>1. LastPersisted' = LastPersisted
    BY <1>1 DEF LastPersisted
  <2> QED
    BY <1>1, <2>1 DEF RunInv, RejectionsPersist
<1>9. SeenFits'
  <2>1. CASE EndRun \/ Evaluate
    <3>1. run'.cards = run.cards
      BY <2>1 DEF EndRun, Evaluate, CatalogInv, RunIsNumbered, NoRun
    <3>2. \A g \in run.seen : facts[g].fact.card \in run.cards
      BY <1>3, <2>1 DEF SeenFits, EndRun, Evaluate
    <3> QED
      BY <1>1, <1>3, <3>1, <3>2 DEF SeenFits
  <2>2. CASE Reevaluate
    <3>1. run'.cards = {PackagedLabel(run.ids.rate)} \ {NoId}
      BY <2>2 DEF Reevaluate, CatalogInv, RunIsNumbered, NoRun
    <3>2. IsFiniteSet(run'.cards)
      BY <3>1, FS_Singleton, FS_Subset
    <3>3. run'.cards # {} \/ run'.phase # "done" => \A g \in run.seen : facts[g].fact.card \in run'.cards
      <4>1. run'.phase = "done"
        BY <2>2 DEF Reevaluate, CatalogInv, RunIsNumbered, NoRun
      <4>2. \A g \in run.seen : PackagedLabel(run.ids.rate) \in {NoId, facts[g].fact.card}
        BY <1>3 DEF SeenFits, Recomputes
      <4> QED
        BY <3>1, <4>1, <4>2
    <3> QED
      BY <1>1, <1>3, <3>2, <3>3 DEF SeenFits
  <2> QED
    BY <2>1, <2>2
<1> QED
  BY <1>1, <1>6, <1>7, <1>8, <1>9 DEF RunInv

(* What runs remember of their rows holds along every behaviour.            *)
LEMMA RunIsKept == Spec => [](CatalogInv /\ RunInv)
<1>1. Init => RunInv
  <2> SUFFICES ASSUME Init PROVE RunInv
    OBVIOUS
  <2>1. /\ run.no = 0 /\ run.phase = "none" /\ run.at = 0 /\ run.logic = NoId /\ run.ids = NoIds
        /\ run.seen = {} /\ run.cards = {} /\ run.extra = <<>> /\ rejected = <<>>
    BY DEF Init, NoRun
  <2>2. LastPersisted = 0 /\ ~Began
    BY <2>1 DEF LastPersisted, Began
  <2>3. PhaseFits /\ IdsFit
    BY <2>1, <2>2 DEF PhaseFits, IdsFit, NoIds, Began
  <2>4. RejectionsPersist
    BY <2>2 DEF RejectionsPersist
  <2> QED
    BY <2>1, <2>2, <2>3, <2>4 DEF RunInv, Init
<1>2. CatalogInv /\ RunInv /\ [Next]_vars => RunInv'
  <2> SUFFICES ASSUME CatalogInv, RunInv, [Next]_vars PROVE RunInv'
    OBVIOUS
  <2>1. CASE \E v \in Uploads : Import(v)
    BY <2>1, RunIsUndisturbed DEF Import
  <2>2. CASE \E p \in Publishers, v \in Uploads : BeginActivate(p, v) \/ BeginDeactivate(p, v)
    BY <2>2, RunIsUndisturbed DEF BeginActivate, BeginDeactivate
  <2>3. CASE \E p \in Publishers : ScanActive(p) \/ Supersede(p)
    BY <2>3, RunIsUndisturbed DEF ScanActive, Supersede
  <2>4. CASE \E p \in Publishers : CommitActivate(p) \/ CommitDeactivate(p)
    BY <2>4, RunIsUndisturbed DEF CommitActivate, CommitDeactivate
  <2>5. CASE BindLogic
    BY <2>5, NewRun
  <2>6. CASE CreateRun
    BY <2>6, RunIsCreated
  <2>7. CASE TransformRow
    BY <2>7, RowIsRead
  <2>8. CASE EndRun \/ Evaluate \/ Reevaluate
    BY <2>8, RunIsJudged
  <2>9. CASE UNCHANGED vars
    BY <2>9, RunIsUndisturbed DEF vars
  <2> QED
    BY <2>1, <2>2, <2>3, <2>4, <2>5, <2>6, <2>7, <2>8, <2>9 DEF Next
<1> QED
  BY <1>1, <1>2, CatalogIsKept, PTL DEF Spec

(* The facts of the run are those of the grains it has seen.                *)
LEMMA FactsSeen ==
    ASSUME SeenFits
    PROVE  FactsOf(run.no) = {facts[g].fact : g \in run.seen}
BY DEF SeenFits, FactsOf

(* The quality gate never finds a run that disagrees with itself: the       *)
(* reconciliation (reconcile.py, reconcile_run) recomputes every cost, rule *)
(* and label as the engine computed them, for any configuration, any rows,  *)
(* any client and any activations meanwhile, at the first evaluation, after *)
(* a reprocess or when it is asked again.  It fails for a start date of     *)
(* another time zone than that of the sessions, and for nothing else.       *)
THEOREM RunsReconcile == Spec => []ReconcileAgrees
<1>1. CatalogInv /\ RunInv => ReconcileAgrees
  <2> SUFFICES ASSUME CatalogInv, RunInv, run.phase = "done",
                      \A fct \in FactsOf(run.no) : ~StartedElsewhere(fct)
               PROVE  Reconciled(FactsOf(run.no),
                                 RateCardLabel(run.cards, PackagedLabel(run.ids.rate), FactsOf(run.no)),
                                 run.ids) # "failed"
    BY DEF ReconcileAgrees, Reconciliation
  <2>1. SeenFits
    BY DEF RunInv, Began
  <2>2. PICK made, card, runCard :
          /\ made = FactsOf(run.no) /\ runCard = PackagedLabel(run.ids.rate)
          /\ card = RateCardLabel(run.cards, runCard, made)
    OBVIOUS
  <2>3. made = {facts[g].fact : g \in run.seen}
    BY <2>1, <2>2, FactsSeen
  <2>4. \A fct \in made : Recomputes(fct, isOwner, run.ids)
    BY <2>1, <2>3 DEF SeenFits
  <2>5. IsFiniteSet(run.cards) /\ (run.cards # {} => \A fct \in made : fct.card \in run.cards)
    BY <2>1, <2>3 DEF SeenFits
  <2>6. ASSUME NEW fct \in made PROVE card \in {NoId, fct.card}
    <3> DEFINE carried == {other.ids.rate : other \in made} \ {NoId}
    <3>1. CASE Cardinality(run.cards) = 1
      <4>1. PICK only : run.cards = {only}
        BY <2>5, <3>1, FS_Singleton
      <4>2. card = CHOOSE c \in run.cards : TRUE
        BY <2>2, <3>1 DEF RateCardLabel
      <4> QED
        BY <2>5, <4>1, <4>2
    <3>2. CASE Cardinality(run.cards) # 1 /\ runCard # NoId
      <4>1. card = runCard
        BY <2>2, <3>2 DEF RateCardLabel
      <4> QED
        BY <2>2, <2>4, <4>1 DEF Recomputes
    <3>3. CASE Cardinality(run.cards) # 1 /\ runCard = NoId /\ Cardinality(carried) = 1
      <4>1. card = CHOOSE c \in carried : TRUE
        BY <2>2, <3>3 DEF RateCardLabel
      <4>2. carried \subseteq Packaged
        <5>1. \A other \in made : other.ids.rate \in {NoId, other.card} /\ other.card \in Packaged
          BY <2>4 DEF Recomputes, Persistable
        <5> QED
          BY <5>1
      <4>3. IsFiniteSet(carried)
        BY <4>2, CatalogConstants, FS_Subset
      <4>4. PICK only : carried = {only}
        <5> HIDE DEF carried
        <5> QED
          BY <3>3, <4>3, FS_Singleton
      <4>5. isOwner
        BY <2>4, <4>4 DEF Recomputes, Persistable
      <4>6. fct.ids.rate = fct.card /\ fct.card # NoId
        BY <2>4, <4>5, CatalogConstants DEF Recomputes, Persistable
      <4> QED
        BY <4>1, <4>4, <4>6
    <3>4. CASE ~(Cardinality(run.cards) = 1) /\ ~(runCard # NoId) /\ ~(Cardinality(carried) = 1)
      BY <2>2, <3>4 DEF RateCardLabel
    <3> QED
      BY <3>1, <3>2, <3>3, <3>4
  <2>7. CASE made = {} \/ card = NoId
    BY <2>2, <2>7 DEF Reconciled
  <2>8. CASE made # {} /\ card # NoId
    <3>1. \A fct \in made : /\ Reconciles(fct, card)
                            /\ run.ids.campaign \in {NoId, fct.ids.campaign}
                            /\ run.ids.template \in {NoId, fct.ids.template}
      BY <2>2, <2>4, <2>6, <2>8 DEF Recomputes
    <3>2. Reconciled(made, card, run.ids) = "passed"
      BY <2>8, <3>1 DEF Reconciled
    <3> QED
      BY <2>2, <3>2
  <2> QED
    BY <2>7, <2>8
<1> QED
  BY <1>1, RunIsKept, PTL

(* What a publisher may publish (publication_service.py, the pass and warn  *)
(* verdicts of qa_workflow.py) covers the whole batch: no row was turned    *)
(* away for its data, no two rows share a grain and nothing is negative,    *)
(* for every workbook and every configuration; and that stays so after a    *)
(* reprocess, whose rejections are not persisted, and a re-evaluation.      *)
THEOREM PublishedRunsAreClean == Spec => []PublishableIsClean
<1>1. CatalogInv /\ RunInv => PublishableIsClean
  <2> SUFFICES ASSUME CatalogInv, RunInv, run.phase = "done", run.verdict \in Publishable
               PROVE  /\ run.status = "succeeded"
                      /\ \A i \in DOMAIN staged : ExtractReason(staged[i]) = "none"
                      /\ \A i, j \in DOMAIN staged :
                            i # j /\ Covered(staged[i].day.n) =>
                                <<staged[i].campaign_id, staged[i].variation, staged[i].day.n>>
                                   # <<staged[j].campaign_id, staged[j].variation, staged[j].day.n>>
                      /\ \A i \in DOMAIN staged : Covered(staged[i].day.n) =>
                            \A f \in {"sent", "delivered", "conversions", "revenue"} : staged[i][f].n >= 0
    BY DEF PublishableIsClean
  <2>1. SeenFits /\ run.at = Len(staged) + 1 /\ run.status \in {"succeeded", "failed"}
        /\ run.verdict = VerdictNow(run.cards, run.extra)
    BY DEF RunInv, Began, PhaseFits
  <2>2. staged \in Seq(ToSet(staged)) /\ Len(staged) \in Nat /\ DOMAIN staged = 1..Len(staged)
    BY CatalogConstants DEF RunInv
  <2>3. PICK evidence, made, reconciled :
          /\ evidence = rejected \o run.extra /\ made = FactsOf(run.no)
          /\ run.verdict = Verdict(evidence, made, run.status, reconciled)
    BY <2>1 DEF VerdictNow, Evidence
  <2>4. /\ run.status # "failed"
        /\ \A k \in DOMAIN evidence : RejectToRule(evidence[k].reason) = "none"
        /\ \A fct \in made : \A check \in FactChecks(fct) : check[3] => check[1] \in Warnings
    BY <2>3, PublishableFindings
  <2>5. ASSUME NEW i PROVE ~Recorded(i, rejected)
    <3>1. rejected \in Seq(Notes) /\ run.extra \in Seq(Notes)
      BY DEF RunInv
    <3>2. \A k \in DOMAIN rejected : k \in DOMAIN evidence /\ evidence[k] = rejected[k]
      BY <2>3, <3>1, ConcatProperties
    <3> QED
      BY <2>4, <3>2 DEF Recorded
  <2>6. LastPersisted = Len(staged)
    <3>1. run.no \in Nat /\ run.no # 0
      BY DEF CatalogInv, RunIsNumbered
    <3> QED
      BY <2>1, <2>2, <3>1 DEF LastPersisted
  <2>7. \A i \in DOMAIN staged : ExtractReason(staged[i]) = "none"
    BY <2>2, <2>5, <2>6 DEF RunInv, RejectionsPersist
  <2>8. \A i, j \in DOMAIN staged :
            i # j /\ Covered(staged[i].day.n) /\ Covered(staged[j].day.n)
               => RowGrain(staged[i]) # RowGrain(staged[j])
    <3>1. \A i \in 1..Len(staged) : \A j \in 1..i - 1 :
              Sound(staged[i]) /\ Sound(staged[j]) => RowGrain(staged[j]) # RowGrain(staged[i])
      BY <2>5, <2>6 DEF RunInv, RejectionsPersist
    <3>2. \A i, j \in 1..Len(staged) : i # j => j \in 1..i - 1 \/ i \in 1..j - 1
      BY <2>2
    <3> QED
      BY <2>2, <2>7, <3>1, <3>2 DEF Sound
  <2>9. ASSUME NEW i \in DOMAIN staged, NEW j \in DOMAIN staged, i # j, Covered(staged[i].day.n)
        PROVE  <<staged[i].campaign_id, staged[i].variation, staged[i].day.n>>
                  # <<staged[j].campaign_id, staged[j].variation, staged[j].day.n>>
    <3> SUFFICES ASSUME /\ staged[i].campaign_id = staged[j].campaign_id
                        /\ staged[i].variation = staged[j].variation
                        /\ staged[i].day.n = staged[j].day.n
                 PROVE  FALSE
      OBVIOUS
    <3>1. RowGrain(staged[i]) = RowGrain(staged[j])
      BY DEF RowGrain
    <3> QED
      BY <2>8, <2>9, <3>1
  <2>10. ASSUME NEW i \in DOMAIN staged, Covered(staged[i].day.n),
                NEW f \in {"sent", "delivered", "conversions", "revenue"}
         PROVE  staged[i][f].n >= 0
    <3>1. Sound(staged[i]) /\ RowGrain(staged[i]) \in run.seen
      BY <2>1, <2>2, <2>7, <2>10 DEF Sound, SeenFits
    <3>2. PICK j \in DOMAIN staged :
            Sound(staged[j]) /\ MadeFrom(facts[RowGrain(staged[i])].fact, staged[j])
            /\ RowGrain(staged[i]) = Grain(facts[RowGrain(staged[i])].fact)
      BY <2>1, <2>2, <3>1 DEF SeenFits
    <3>3. PICK fct \in made : MadeFrom(fct, staged[j]) /\ RowGrain(staged[i]) = Grain(fct)
      BY <2>1, <2>3, <3>1, <3>2, FactsSeen
    <3>4. j = i
      <4>1. RowGrain(staged[j]) = RowGrain(staged[i])
        BY <3>3 DEF MadeFrom
      <4> QED
        BY <2>8, <3>1, <3>2, <4>1 DEF Sound
    <3>5. PICK cell : cell = staged[i][f] /\ cell \in Cells
      BY <2>2, CatalogConstants, ElementOfSeq DEF RunInv
    <3>6. /\ ParseInteger(cell).n \in Int /\ ParseDecimal(cell).n \in Int
          /\ ParseInteger(cell).kind \in {"none", "number", "invalid"}
          /\ ParseInteger(cell).kind = "none" <=> cell = Blank
          /\ ParseInteger(cell).kind = "number" => ParseInteger(cell).n = cell.n
          /\ ParseDecimal(cell).kind \in {"none", "number", "invalid"}
          /\ ParseDecimal(cell).kind = "none" <=> cell = Blank
          /\ ParseDecimal(cell).kind = "number" => ParseDecimal(cell).n = cell.n
      BY <3>5, ParsedCell
    <3>7. ~Negative(fct, f)
      <4>1. f # "revenue" => <<"QA-NEGATIVE-COUNT", f, Negative(fct, f)>> \in FactChecks(fct)
        BY DEF FactChecks
      <4>2. f = "revenue" => <<"QA-NEGATIVE-MONEY", f, Negative(fct, f)>> \in FactChecks(fct)
        BY DEF FactChecks
      <4>3. "QA-NEGATIVE-COUNT" \notin Warnings /\ "QA-NEGATIVE-MONEY" \notin Warnings
        BY DEF Warnings
      <4> QED
        BY <2>4, <4>1, <4>2, <4>3
    <3>8. CASE f # "revenue"
      <4>1. fct[f] = ParseInteger(cell)
        BY <3>3, <3>4, <3>5, <3>8 DEF MadeFrom
      <4>2. ParseInteger(cell).kind # "invalid"
        BY <3>1, <3>5, <3>8 DEF Sound, ExtractReason
      <4> QED
        BY <3>5, <3>6, <3>7, <4>1, <4>2 DEF Negative, Blank
    <3>9. CASE f = "revenue"
      <4>1. fct[f] = ParseDecimal(cell)
        BY <3>3, <3>4, <3>5, <3>9 DEF MadeFrom
      <4>2. ParseDecimal(cell).kind # "invalid"
        BY <3>1, <3>5, <3>9 DEF Sound, ExtractReason
      <4> QED
        BY <3>5, <3>6, <3>7, <4>1, <4>2 DEF Negative, Blank
    <3> QED
      BY <3>8, <3>9
  <2> QED
    BY <2>1, <2>4, <2>7, <2>9, <2>10
<1> QED
  BY <1>1, RunIsKept, PTL

-----------------------------------------------------------------------------
(* The order of the files of a request. *)

(* Places number the parts from one on: Prepared loses no file and makes    *)
(* none up.                                                                 *)
LEMMA EveryPlaceIsTaken ==
    ASSUME NEW parts \in Seq(Nat), NEW i \in DOMAIN parts
    PROVE  \E k \in DOMAIN parts : Place(parts, k) = i
<1> DEFINE D == DOMAIN parts
           Upto(k) == {j \in D : parts[j] < parts[k] \/ (parts[j] = parts[k] /\ j <= k)}
           place == [k \in D |-> Cardinality(Upto(k))]
<1>1. D = 1..Len(parts) /\ Len(parts) \in Nat /\ \A k \in D : parts[k] \in Nat /\ k \in Nat
  BY LenProperties
<1>2. IsFiniteSet(D) /\ Cardinality(D) = Len(parts)
  <2>1. PICK n \in Nat : n = Len(parts)
    BY <1>1
  <2>2. IsFiniteSet(1..n) /\ Cardinality(1..n) = IF 1 > n THEN 0 ELSE n - 1 + 1
    BY FS_Interval
  <2>3. Cardinality(1..n) = n
    BY <2>2
  <2> QED
    BY <1>1, <2>1, <2>2, <2>3
<1>3. \A k \in D : Upto(k) \in SUBSET D /\ k \in Upto(k)
  BY <1>1
<1>4. \A k \in D : IsFiniteSet(Upto(k)) /\ Cardinality(Upto(k)) \in D
  <2> SUFFICES ASSUME NEW k \in D PROVE IsFiniteSet(Upto(k)) /\ Cardinality(Upto(k)) \in D
    OBVIOUS
  <2>1. Upto(k) \in SUBSET D /\ Upto(k) # {}
    BY <1>3
  <2> HIDE DEF Upto, D
  <2>2. IsFiniteSet(Upto(k)) /\ Cardinality(Upto(k)) <= Cardinality(D)
    BY <1>2, <2>1, FS_Subset
  <2>3. Cardinality(Upto(k)) \in Nat /\ Cardinality(Upto(k)) # 0
    BY <2>1, <2>2, FS_CardinalityType, FS_EmptySet
  <2> QED
    BY <1>1, <1>2, <2>2, <2>3
<1>5. ASSUME NEW k \in D, NEW m \in D, Cardinality(Upto(k)) = Cardinality(Upto(m))
      PROVE  k = m
  <2>1. Upto(k) \subseteq Upto(m) \/ Upto(m) \subseteq Upto(k)
    <3>1. CASE parts[k] < parts[m] \/ (parts[k] = parts[m] /\ k <= m)
      <4>1. Upto(k) \subseteq Upto(m)
        BY <1>1, <3>1
      <4> QED
        BY <4>1
    <3>2. CASE parts[m] < parts[k] \/ (parts[m] = parts[k] /\ m <= k)
      <4>1. Upto(m) \subseteq Upto(k)
        BY <1>1, <3>2
      <4> QED
        BY <4>1
    <3>3. parts[k] \in Nat /\ parts[m] \in Nat /\ k \in Nat /\ m \in Nat
      BY <1>1
    <3> HIDE DEF Upto
    <3>4. \/ parts[k] < parts[m] \/ (parts[k] = parts[m] /\ k <= m)
          \/ parts[m] < parts[k] \/ (parts[m] = parts[k] /\ m <= k)
      BY <3>3
    <3> QED
      BY <3>1, <3>2, <3>4
  <2>2. IsFiniteSet(Upto(k)) /\ IsFiniteSet(Upto(m))
    BY <1>4
  <2>3. k \in Upto(k) /\ m \in Upto(m)
    BY <1>3
  <2>4. Upto(k) = Upto(m)
    <3> HIDE DEF Upto
    <3> QED
      BY <1>5, <2>1, <2>2, FS_Subset
  <2>5. k \in Upto(m) /\ m \in Upto(k)
    BY <2>3, <2>4
  <2> QED
    BY <1>1, <2>5
<1> HIDE DEF Upto
<1>6. place \in Injection(D, D)
  BY <1>4, <1>5 DEF Injection, IsInjective
<1>7. place \in Surjection(D, D)
  <2> HIDE DEF place, D
  <2> QED
    BY <1>2, <1>6, FS_Injection
<1>8. PICK k \in D : place[k] = i
  BY <1>7 DEF Surjection
<1>9. Place(parts, k) = i
  BY <1>8 DEF Place, Upto
<1> QED
  BY <1>9

LEMMA PreparedFiles ==
    ASSUME NEW parts \in Seq(Files)
    PROVE  Prepared(parts) \in Seq(Files)
<1>1. parts \in Seq(Nat)
  <2>1. PICK n \in Nat : parts \in [1..n -> Files]
    BY LenProperties
  <2>2. Files \subseteq Nat
    BY AcceptanceConstants
  <2>3. parts \in [1..n -> Nat]
    BY <2>1, <2>2
  <2> QED
    BY <2>3, LenProperties
<1>2. ASSUME NEW i \in DOMAIN parts
      PROVE  parts[CHOOSE k \in DOMAIN parts : Place(parts, k) = i] \in Files
  <2>1. \E k \in DOMAIN parts : Place(parts, k) = i
    BY <1>1, EveryPlaceIsTaken
  <2>2. (CHOOSE k \in DOMAIN parts : Place(parts, k) = i) \in DOMAIN parts
    BY <2>1
  <2> QED
    BY <2>2, ElementOfSeq, LenProperties
<1>3. PICK n \in Nat : DOMAIN parts = 1..n
  BY LenProperties
<1> DEFINE Part(i) == parts[CHOOSE k \in DOMAIN parts : Place(parts, k) = i]
<1>4. Prepared(parts) = [i \in 1..n |-> Part(i)]
  BY <1>3 DEF Prepared
<1>5. \A i \in 1..n : Part(i) \in Files
  BY <1>2, <1>3
<1> HIDE DEF Part
<1>6. Prepared(parts) \in [1..n -> Files]
  BY <1>4, <1>5
<1> QED
  BY <1>6, LenProperties

(* The oldest of some batches is one of them, and so is the newest.         *)
LEMMA OldestIsOne ==
    ASSUME NEW S, S \subseteq Nat, S # {}
    PROVE  Oldest(S) \in S
<1> DEFINE R == OpToRel(<, Nat)
<1>1. IsWellFoundedOn(R, Nat)
  BY NatLessThanWellFounded
<1> HIDE DEF R
<1>2. PICK x \in S : \A y \in S : ~(<<y, x>> \in R)
  BY <1>1, WFMin
<1>3. \A y \in S : ~(y < x)
  BY <1>2 DEF R, OpToRel
<1>4. \A y \in S : x <= y
  BY <1>3
<1> QED
  BY <1>4 DEF Oldest

LEMMA NewestIsOne ==
    ASSUME NEW n \in Nat, NEW S, S \subseteq 1..n, S # {}
    PROVE  Newest(S) \in S
<1> DEFINE R == OpToRel(<, Nat)
           T == {n - i : i \in S}
<1>1. IsWellFoundedOn(R, Nat)
  BY NatLessThanWellFounded
<1>2. T \subseteq Nat /\ T # {} /\ S \subseteq Nat
  <2>1. \A i \in S : i \in Nat /\ n - i \in Nat
    OBVIOUS
  <2> QED
    BY <2>1
<1> HIDE DEF R, T
<1>3. PICK x \in T : \A y \in T : ~(<<y, x>> \in R)
  BY <1>1, <1>2, WFMin
<1>4. \A y \in T : ~(y < x)
  BY <1>2, <1>3 DEF R, OpToRel
<1>5. PICK i \in S : x = n - i
  BY DEF T
<1>6. \A j \in S : n - j \in T
  BY DEF T
<1>7. \A j \in S : ~(n - j < n - i)
  BY <1>4, <1>5, <1>6
<1>8. \A j \in S : j <= i
  BY <1>2, <1>5, <1>7
<1> QED
  BY <1>5, <1>8 DEF Newest

-----------------------------------------------------------------------------
(* The invariant. *)

BatchRow == [file : Files, status : {"received", "staged", "failed", "processed"},
             staged : BOOLEAN]
Stages   == {"taken", "ingest", "transform", "succeeded", "failing", "rejected", "qa", "end"}
Job      == [stage : Stages, kind : {"upload", "archive", "staged"}, batch : Nat, run : Nat]
Attempts == [Files -> [count : Nat, ok : BOOLEAN]]
Places   == {"next", "processed", "inflight", "found", "recoverable", "register",
             "archive", "create", "submit", "start"}
Codes    == {0, 200, 202}
Modes    == {"none", "staged", "archive"}
Request  == [pc : Places, todo : Seq(Files), force : BOOLEAN, file : Files, batch : Nat,
             found : Nat, code : Codes, mode : Modes, seen : Attempts]
Reply    == [file : Files, code : {200, 202}, batch : Nat, mine : BOOLEAN, seen : Nat]

AcceptShape ==
    /\ batches \in Seq(BatchRow)
    /\ runs \in Seq([batch : Nat, live : BOOLEAN])
    /\ inflight \in [Files -> Nat]
    /\ queue \in Seq(Job) /\ worker \in [Workers -> Job \cup {Free}]
    /\ ended \in Attempts
    /\ req = NoReq \/ req \in Request
    /\ answered \in Seq(Reply)

OfFile(b, f) == b \in DOMAIN batches /\ batches[b].file = f

(* A job has its batch; it has a run once it has staged rows to transform.  *)
JobFits(job) ==
    /\ job.batch \in DOMAIN batches
    /\ job.stage = "ingest" => job.kind # "staged"
    /\ job.kind # "staged" /\ job.stage \in {"taken", "ingest"} => job.run = 0

PoolFits ==
    /\ \A i \in DOMAIN queue : JobFits(queue[i]) /\ queue[i].stage = "taken"
    /\ \A w \in Workers : worker[w] # Free => JobFits(worker[w])
    /\ \A f \in Files : inflight[f] # NoBatch => OfFile(inflight[f], f)

(* The jobs whose attempt is not over.                                      *)
Done == {"free", "qa", "end"}
Working ==
    {queue[i] : i \in DOMAIN queue}
      \cup {worker[w] : w \in {v \in Workers : worker[v].stage \notin Done}}

(* An attempt on the file has ended since there were n, or one will.        *)
Tried(f, n) ==
    /\ n <= ended[f].count
    /\ ended[f].count = n => \E job \in Working : batches[job.batch].file = f

(* A batch in flight that is neither failed nor processed is being worked on *)
(* by a job that will change that, or will forget it.                       *)
WorkedOn(b) == \E job \in Working : job.batch = b /\ job.kind # "staged"

UnfinishedIsWorkedOn ==
    \A f \in Files : Unfinished(inflight[f]) => WorkedOn(inflight[f])

(* A live run is the run of a job that will end it.                         *)
Running == {"taken", "ingest", "transform"}
LiveIsWorkedOn ==
    \A r \in DOMAIN runs : runs[r].live =>
        \E job \in Working : job.run = r /\ job.batch = runs[r].batch /\ job.stage \in Running

(* The batches of a request are of its file, and a 202 is never promised of *)
(* an attempt that is over: what was found in flight may be forgotten since, *)
(* but then its attempt has ended after the request arrived.                *)
RequestFits(q) ==
    q # NoReq =>
        /\ \A f \in Files : q.seen[f].count <= ended[f].count
        /\ q.batch # NoBatch => OfFile(q.batch, q.file)
        /\ q.found # NoBatch => OfFile(q.found, q.file)
        /\ q.pc = "submit" \/ q.mode # "none" \/ q.code # 0 => q.batch # NoBatch
        /\ q.code = 202 => Tried(q.file, q.seen[q.file].count)
        /\ q.pc = "found" /\ Unfinished(q.found) => Tried(q.file, q.seen[q.file].count)

AnswersAreTried(replies) ==
    \A i \in DOMAIN replies :
        replies[i].code = 202 => Tried(replies[i].file, replies[i].seen)

AcceptInv ==
    /\ AcceptShape /\ PoolFits /\ UnfinishedIsWorkedOn /\ LiveIsWorkedOn
    /\ RequestFits(req) /\ AnswersAreTried(answered)

-----------------------------------------------------------------------------
(* Lemmas on steps. *)

(* What is at work has its shape.                                           *)
LEMMA WorkingFits ==
    ASSUME AcceptInv
    PROVE  \A job \in Working : job \in Job /\ JobFits(job)
BY DEF AcceptInv, AcceptShape, PoolFits, Working, Done, Free

LEMMA FileOfBatch ==
    ASSUME AcceptInv, NEW b \in DOMAIN batches
    PROVE  b \in Nat \ {0} /\ batches[b] \in BatchRow
<1>1. batches \in Seq(BatchRow)
  BY DEF AcceptInv, AcceptShape
<1>2. DOMAIN batches = 1..Len(batches) /\ Len(batches) \in Nat
  BY <1>1, LenProperties
<1> QED
  BY <1>1, <1>2, ElementOfSeq

(* A job goes on as another: of the same batch and kind, and with the run it *)
(* had or its first one.                                                    *)
Continues(job, next) ==
    next.batch = job.batch /\ next.kind = job.kind /\ job.run \in {0, next.run}

(* With no job gone and no attempt over, what was tried stays so.           *)
LEMMA TriedLasts ==
    ASSUME AcceptInv, UNCHANGED ended,
           \A job \in Working : \E next \in Working' : Continues(job, next),
           \A b \in DOMAIN batches : batches'[b].file = batches[b].file,
           NEW f, NEW n, Tried(f, n)
    PROVE  Tried(f, n)'
BY WorkingFits DEF Tried, JobFits, Continues

(* What was promised stays true when what was tried stays so.               *)
LEMMA RepliesLast ==
    ASSUME NEW replies \in Seq(Reply), AnswersAreTried(replies),
           \A f \in Files, n \in Nat : Tried(f, n) => Tried(f, n)'
    PROVE  AnswersAreTried(replies)'
<1>1. \A f \in Files, n \in Nat : Tried(f, n) =>
        /\ n <= ended'[f].count
        /\ ended'[f].count = n => \E job \in Working' : batches'[job.batch].file = f
  BY DEF Tried
<1> SUFFICES ASSUME NEW i \in DOMAIN replies, replies[i].code = 202
             PROVE  /\ replies[i].seen <= ended'[replies[i].file].count
                    /\ ended'[replies[i].file].count = replies[i].seen =>
                         \E job \in Working' : batches'[job.batch].file = replies[i].file
  BY DEF AnswersAreTried, Tried
<1>2. replies[i] \in Reply
  BY ElementOfSeq, LenProperties
<1>3. replies[i].file \in Files /\ replies[i].seen \in Nat
  BY <1>2 DEF Reply
<1> QED
  BY <1>1, <1>3 DEF AnswersAreTried

(* What the request has found out stays true.                               *)
LEMMA RequestLasts ==
    ASSUME AcceptInv, NEW q \in Request \cup {NoReq}, req' = q, RequestFits(q),
           \A b \in DOMAIN batches : b \in DOMAIN batches' /\ batches'[b].file = batches[b].file,
           \A b \in DOMAIN batches : Unfinished(b)' => Unfinished(b) \/ WorkedOn(b)',
           \A f \in Files : ended[f].count \in Nat /\ ended'[f].count \in Nat
                              /\ ended[f].count <= ended'[f].count,
           \A f \in Files, n \in Nat : Tried(f, n) => Tried(f, n)'
    PROVE  RequestFits(req)'
<1>1. \A f \in Files, n \in Nat : Tried(f, n) =>
        /\ n <= ended'[f].count
        /\ ended'[f].count = n => \E job \in Working' : batches'[job.batch].file = f
  BY DEF Tried
<1> SUFFICES ASSUME q # NoReq
             PROVE  /\ \A f \in Files : q.seen[f].count <= ended'[f].count
                    /\ q.batch # NoBatch => OfFile(q.batch, q.file)'
                    /\ q.found # NoBatch => OfFile(q.found, q.file)'
                    /\ q.pc = "submit" \/ q.mode # "none" \/ q.code # 0 => q.batch # NoBatch
                    /\ q.code = 202 =>
                         /\ q.seen[q.file].count <= ended'[q.file].count
                         /\ ended'[q.file].count = q.seen[q.file].count =>
                              \E job \in Working' : batches'[job.batch].file = q.file
                    /\ q.pc = "found" /\ Unfinished(q.found)' =>
                         /\ q.seen[q.file].count <= ended'[q.file].count
                         /\ ended'[q.file].count = q.seen[q.file].count =>
                              \E job \in Working' : batches'[job.batch].file = q.file
  BY DEF RequestFits, OfFile, Tried, Unfinished
<1>2. /\ q.file \in Files /\ q.seen \in Attempts
      /\ \A f \in Files : q.seen[f].count \in Nat
  BY DEF Request, Attempts
<1>3. \A f \in Files : q.seen[f].count <= ended'[f].count
  BY <1>2 DEF RequestFits
<1>4. /\ q.batch # NoBatch => OfFile(q.batch, q.file)'
      /\ q.found # NoBatch => OfFile(q.found, q.file)'
      /\ q.pc = "submit" \/ q.mode # "none" \/ q.code # 0 => q.batch # NoBatch
  BY DEF RequestFits, OfFile
<1>5. /\ q.code = 202 => Tried(q.file, q.seen[q.file].count)
      /\ q.pc = "found" /\ Unfinished(q.found) => Tried(q.file, q.seen[q.file].count)
  BY DEF RequestFits
<1>6. ASSUME q.pc = "found", Unfinished(q.found)'
      PROVE  /\ q.seen[q.file].count <= ended'[q.file].count
             /\ ended'[q.file].count = q.seen[q.file].count =>
                  \E job \in Working' : batches'[job.batch].file = q.file
  <2>1. q.found \in DOMAIN batches /\ batches[q.found].file = q.file
    BY <1>6 DEF RequestFits, Unfinished, OfFile
  <2>2. CASE Unfinished(q.found)
    BY <1>1, <1>2, <1>5, <1>6, <2>2
  <2>3. CASE WorkedOn(q.found)'
    BY <1>2, <1>3, <2>1, <2>3 DEF WorkedOn
  <2> QED
    BY <1>6, <2>1, <2>2, <2>3
<1> QED
  BY <1>1, <1>2, <1>3, <1>4, <1>5, <1>6

(* A transaction of the request that only looks, or that archives a file.   *)
LEMMA RequestStep ==
    ASSUME AcceptInv, UNCHANGED <<batches, runs, pool>>,
           NEW q \in Request \cup {NoReq}, req' = q, RequestFits(q),
           NEW replies \in Seq(Reply), answered' = replies, AnswersAreTried(replies)
    PROVE  AcceptInv'
<1>0. UNCHANGED <<batches, runs, inflight, queue, worker, ended>>
  BY DEF pool
<1>1. Working' = Working
  BY <1>0 DEF Working
<1>2. \A f \in Files : ended[f].count \in Nat
  BY DEF AcceptInv, AcceptShape, Attempts
<1>3. \A f \in Files, n \in Nat : Tried(f, n) => Tried(f, n)'
  BY <1>0, <1>1 DEF Tried
<1>4. RequestFits(req)' /\ AnswersAreTried(answered)'
  <2>1. \A b : Unfinished(b)' => Unfinished(b)
    BY <1>0 DEF Unfinished
  <2> QED
    BY <1>0, <1>2, <1>3, <2>1, RequestLasts, RepliesLast
<1>5. AcceptShape'
  BY <1>0 DEF AcceptInv, AcceptShape
<1>6. PoolFits'
  BY <1>0 DEF AcceptInv, PoolFits, JobFits, OfFile
<1>7. UnfinishedIsWorkedOn' /\ LiveIsWorkedOn'
  BY <1>0, <1>1 DEF AcceptInv, UnfinishedIsWorkedOn, Unfinished, WorkedOn, LiveIsWorkedOn
<1> QED
  BY <1>4, <1>5, <1>6, <1>7 DEF AcceptInv

(* A step of the pool leaves the request alone.                             *)
LEMMA PoolStep ==
    ASSUME AcceptInv, UNCHANGED <<req, answered>>,
           AcceptShape', PoolFits', UnfinishedIsWorkedOn', LiveIsWorkedOn',
           \A b \in DOMAIN batches : b \in DOMAIN batches' /\ batches'[b].file = batches[b].file,
           \A b \in DOMAIN batches : Unfinished(b)' => Unfinished(b) \/ WorkedOn(b)',
           \A f \in Files : ended[f].count <= ended'[f].count,
           \A f \in Files, n \in Nat : Tried(f, n) => Tried(f, n)'
    PROVE  AcceptInv'
<1>1. \A f \in Files : ended[f].count \in Nat /\ ended'[f].count \in Nat
  BY DEF AcceptInv, AcceptShape, Attempts
<1>2. PICK q : q = req
  OBVIOUS
<1>3. PICK replies : replies = answered
  OBVIOUS
<1>4. /\ q \in Request \cup {NoReq} /\ req' = q /\ RequestFits(q)
      /\ replies \in Seq(Reply) /\ answered' = replies /\ AnswersAreTried(replies)
  BY <1>2, <1>3 DEF AcceptInv, AcceptShape
<1>5. RequestFits(req)' /\ AnswersAreTried(answered)'
  BY <1>1, <1>4, RequestLasts, RepliesLast
<1> QED
  BY <1>5 DEF AcceptInv

-----------------------------------------------------------------------------
(* The steps of a request. *)

LEMMA ValuesFit ==
    /\ {"next", "inflight", "found", "register", "archive", "submit"} \subseteq Places
    /\ {"recoverable", "processed", "start", "create"} \subseteq Places
    /\ 0 \in Codes /\ 200 \in Codes /\ 202 \in Codes
    /\ {"none", "staged", "archive"} \subseteq Modes
BY DEF Places, Codes, Modes

(* A request that only goes on keeps what it promises.                      *)
LEMMA GoesOn ==
    ASSUME NEW r \in Request, r # NoReq, RequestFits(r), NEW place \in Places,
           place \notin {"submit", "found"}, NEW q, q = [r EXCEPT !.pc = place]
    PROVE  q \in Request /\ RequestFits(q)
<1>1. q \in Request
  BY DEF Request
<1>2. /\ q.seen = r.seen /\ q.file = r.file /\ q.found = r.found /\ q.batch = r.batch
      /\ q.code = r.code /\ q.mode = r.mode /\ q.pc = place
  BY DEF Request
<1>3. RequestFits(q)
  BY <1>2 DEF RequestFits
<1> QED
  BY <1>1, <1>3

LEMMA AcceptStart ==
    ASSUME AcceptInv, NEW p \in Parts, AcceptParts(p)
    PROVE  AcceptInv'
<1>1. Prepared(p.files) \in Seq(Files) /\ Head(p.files) \in Files /\ p.force \in BOOLEAN
  BY AcceptanceConstants, PreparedFiles, HeadTailProperties
<1>2. ended \in Attempts /\ \A f \in Files : ended[f].count \in Nat
  BY DEF AcceptInv, AcceptShape, Attempts
<1>3. PICK q : q = [pc |-> "next", todo |-> Prepared(p.files), force |-> p.force,
                    file |-> Head(p.files), batch |-> NoBatch, found |-> NoBatch, code |-> 0,
                    mode |-> "none", seen |-> ended]
  OBVIOUS
<1>4. q \in Request
  <2>1. "next" \in Places /\ 0 \in Codes /\ "none" \in Modes
    BY ValuesFit
  <2> QED
    BY <1>1, <1>2, <1>3, <2>1 DEF Request, NoBatch
<1>5. RequestFits(q)
  BY <1>2, <1>3 DEF RequestFits
<1>6. <<>> \in Seq(Reply) /\ AnswersAreTried(<<>>)
  BY EmptySeq DEF AnswersAreTried
<1>7. req' = q /\ answered' = <<>> /\ req.pc # "submit" /\ UNCHANGED <<batches, runs, pool>>
  BY <1>3 DEF AcceptParts, store, pool
<1> QED
  BY <1>4, <1>5, <1>6, <1>7, RequestStep

(* Looking ahead: the request goes on with what it found.                   *)
LEMMA LookStep ==
    ASSUME AcceptInv,
           NextFile \/ FindProcessed \/ ReadInflight \/ FindRecoverable \/ Register
    PROVE  AcceptInv'
<1>1. req \in Request
  <2>1. req.pc # "idle"
    BY DEF NextFile, FindProcessed, ReadInflight, FindRecoverable, Register, IsAt
  <2> QED
    BY <2>1 DEF AcceptInv, AcceptShape, NoReq
<1>2. /\ RequestFits(req) /\ req # NoReq /\ answered \in Seq(Reply) /\ AnswersAreTried(answered)
      /\ inflight \in [Files -> Nat]
  <2>1. req # NoReq
    BY <1>1 DEF NextFile, FindProcessed, ReadInflight, FindRecoverable, Register, IsAt, NoReq
  <2> QED
    BY <2>1 DEF AcceptInv, AcceptShape
<1>3. /\ req.pc # "submit" /\ UNCHANGED <<batches, runs, pool, answered>>
  BY DEF NextFile, FindProcessed, ReadInflight, FindRecoverable, Register, IsAt, store, counting
<1>4. \E q \in Request \cup {NoReq} : req' = q /\ RequestFits(q)
  <2>1. CASE NextFile
    <3>1. CASE req.todo = <<>>
      BY <2>1, <3>1 DEF NextFile, RequestFits
    <3>2. CASE req.todo # <<>>
      <4>1. Head(req.todo) \in Files /\ Tail(req.todo) \in Seq(Files)
        BY <1>1, <3>2, HeadTailProperties DEF Request
      <4>2. PICK place \in {"processed", "register"} :
               req' = [req EXCEPT !.todo = Tail(@), !.file = Head(req.todo), !.batch = NoBatch,
                           !.found = NoBatch, !.code = 0, !.mode = "none", !.pc = place]
        BY <2>1, <3>2 DEF NextFile
      <4>3. PICK q : q = [req EXCEPT !.todo = Tail(@), !.file = Head(req.todo), !.batch = NoBatch,
                           !.found = NoBatch, !.code = 0, !.mode = "none", !.pc = place]
        OBVIOUS
      <4>4. q \in Request
        <5>1. place \in Places
          BY <4>1, ValuesFit
        <5> QED
          BY <1>1, <4>1, <4>3, <5>1, ValuesFit DEF Request, NoBatch
      <4>5. RequestFits(q)
        BY <1>1, <1>2, <4>3 DEF Request, RequestFits
      <4> QED
        BY <4>2, <4>3, <4>4, <4>5
    <3> QED
      BY <3>1, <3>2
  <2>2. CASE FindProcessed
    <3> DEFINE done == BatchesOf(req.file, {"processed"})
    <3>1. CASE done = {}
      <4>1. PICK q : q = [req EXCEPT !.pc = "inflight"]
        OBVIOUS
      <4>2. req' = q /\ q \in Request /\ RequestFits(q)
        <5>1. req' = q
          BY <2>2, <3>1, <4>1 DEF FindProcessed
        <5> QED
          BY <1>1, <1>2, <4>1, <5>1, GoesOn, ValuesFit
      <4> QED
        BY <4>2
    <3>2. CASE done # {}
      <4>1. PICK b : b = Oldest(done)
        OBVIOUS
      <4>2. b \in done
        <5>1. done \subseteq Nat
          BY FileOfBatch DEF BatchesOf
        <5> QED
          BY <3>2, <4>1, <5>1, OldestIsOne
      <4>3. OfFile(b, req.file) /\ b \in Nat \ {0}
        BY <4>2, FileOfBatch DEF BatchesOf, OfFile
      <4>4. PICK q : q = [req EXCEPT !.pc = "archive", !.batch = b, !.code = 200]
        OBVIOUS
      <4>5. req' = q
        BY <2>2, <3>2, <4>1, <4>4 DEF FindProcessed
      <4>6. q \in Request
        <5>1. b \in Nat /\ "archive" \in Places /\ 200 \in Codes
          BY <4>3, ValuesFit
        <5> QED
          BY <1>1, <4>4, <5>1 DEF Request
      <4>7. /\ q.seen = req.seen /\ q.file = req.file /\ q.found = req.found /\ q.batch = b
            /\ q.code = 200 /\ q.pc = "archive"
        BY <1>1, <4>4 DEF Request
      <4>8. RequestFits(q)
        BY <1>2, <4>3, <4>7 DEF RequestFits, NoBatch
      <4> QED
        BY <4>5, <4>6, <4>8
    <3> QED
      BY <3>1, <3>2
  <2>3. CASE ReadInflight
    <3>1. PICK b : b = inflight[req.file]
      OBVIOUS
    <3>2. b \in Nat /\ (b # NoBatch => OfFile(b, req.file))
      BY <1>1, <1>2, <3>1 DEF Request, AcceptInv, PoolFits
    <3>3. PICK q : q = [req EXCEPT !.pc = "found", !.found = b]
      OBVIOUS
    <3>4. req' = q /\ q \in Request
      <4>1. req' = q
        BY <2>3, <3>1, <3>3 DEF ReadInflight
      <4>2. "found" \in Places
        BY ValuesFit
      <4> QED
        BY <1>1, <3>2, <3>3, <4>1, <4>2 DEF Request
    <3>5. /\ q.seen = req.seen /\ q.file = req.file /\ q.found = b /\ q.batch = req.batch
          /\ q.code = req.code /\ q.mode = req.mode /\ q.pc = "found"
      BY <1>1, <3>3 DEF Request
    <3>6. Unfinished(b) => Tried(req.file, req.seen[req.file].count)
      <4>1. Unfinished(b) => \E job \in Working : job.batch = b
        BY <1>1, <3>1 DEF Request, AcceptInv, UnfinishedIsWorkedOn, WorkedOn
      <4>2. req.seen[req.file].count <= ended[req.file].count
        BY <1>1, <1>2 DEF Request, RequestFits
      <4> QED
        BY <3>2, <4>1, <4>2 DEF Tried, OfFile, Unfinished
    <3>7. RequestFits(q)
      BY <1>2, <3>2, <3>5, <3>6 DEF RequestFits
    <3> QED
      BY <3>4, <3>7
  <2>4. CASE FindRecoverable
    <3> DEFINE some == BatchesOf(req.file, {"received", "staged", "failed"})
    <3>1. CASE some = {}
      <4>1. PICK q : q = [req EXCEPT !.pc = "register"]
        OBVIOUS
      <4>2. req' = q
        BY <2>4, <3>1, <4>1 DEF FindRecoverable
      <4> QED
        BY <1>1, <1>2, <4>1, <4>2, GoesOn, ValuesFit
    <3>2. CASE some # {}
      <4>1. PICK b : b = Newest(some)
        OBVIOUS
      <4>2. b \in some
        <5>1. some \subseteq 1..Len(batches) /\ Len(batches) \in Nat
          BY LenProperties DEF BatchesOf, AcceptInv, AcceptShape
        <5> QED
          BY <3>2, <4>1, <5>1, NewestIsOne
      <4>3. OfFile(b, req.file) /\ b \in Nat \ {0}
        BY <4>2, FileOfBatch DEF BatchesOf, OfFile
      <4>4. PICK mode \in {"staged", "archive"} :
               req' = [req EXCEPT !.pc = "archive", !.batch = b, !.mode = mode]
        BY <2>4, <3>2, <4>1 DEF FindRecoverable
      <4>5. PICK q : q = [req EXCEPT !.pc = "archive", !.batch = b, !.mode = mode]
        OBVIOUS
      <4>6. q \in Request
        <5>1. "archive" \in Places /\ mode \in Modes
          BY ValuesFit
        <5> QED
          BY <1>1, <4>3, <4>5, <5>1 DEF Request
      <4>7. /\ q.seen = req.seen /\ q.file = req.file /\ q.found = req.found /\ q.batch = b
            /\ q.code = req.code /\ q.mode = mode /\ q.pc = "archive"
        BY <1>1, <4>5 DEF Request
      <4>8. RequestFits(q)
        BY <1>1, <1>2, <4>3, <4>7 DEF Request, RequestFits, NoBatch
      <4> QED
        BY <4>4, <4>5, <4>6, <4>8
    <3> QED
      BY <3>1, <3>2
  <2>5. CASE Register
    <3>1. PICK q : q = [req EXCEPT !.pc = "archive"]
      OBVIOUS
    <3>2. req' = q
      BY <2>5, <3>1 DEF Register, Goto
    <3>3. q \in Request /\ RequestFits(q)
      BY <1>1, <1>2, <3>1, GoesOn, ValuesFit
    <3> QED
      BY <3>2, <3>3
  <2> QED
    BY <2>1, <2>2, <2>3, <2>4, <2>5
<1>5. PICK q \in Request \cup {NoReq} : req' = q /\ RequestFits(q)
  BY <1>4
<1>6. PICK replies : replies = answered
  OBVIOUS
<1> QED
  BY <1>2, <1>3, <1>5, <1>6, RequestStep

(* A request that asks at all is one.                                       *)
LEMMA RequestIsOne ==
    ASSUME AcceptInv, req.pc # "idle"
    PROVE  /\ req \in Request /\ req # NoReq /\ RequestFits(req)
           /\ req.file \in Files /\ req.batch \in Nat /\ req.found \in Nat
           /\ req.code \in Codes /\ req.seen[req.file].count \in Nat
           /\ req.seen[req.file].count <= ended[req.file].count
           /\ answered \in Seq(Reply) /\ AnswersAreTried(answered)
<1>1. req \in Request /\ req # NoReq
  BY DEF AcceptInv, AcceptShape, NoReq
<1>2. req.file \in Files /\ req.seen \in Attempts /\ req.batch \in Nat /\ req.found \in Nat
      /\ req.code \in Codes
  BY <1>1 DEF Request
<1>3. RequestFits(req) /\ answered \in Seq(Reply) /\ AnswersAreTried(answered)
  BY DEF AcceptInv, AcceptShape
<1>4. req.seen[req.file].count \in Nat
  BY <1>2 DEF Attempts
<1>5. req.seen[req.file].count <= ended[req.file].count
  BY <1>1, <1>2, <1>3 DEF RequestFits
<1> QED
  BY <1>1, <1>2, <1>3, <1>4, <1>5

(* A file is answered with a 202 when its batch is not finished yet, or when *)
(* that was found out before.                                               *)
LEMMA AnswerStep ==
    ASSUME AcceptInv, req.pc \notin {"idle", "submit"},
           NEW r \in Reply, answered' = Append(answered, r), req' = [req EXCEPT !.pc = "next"],
           r.code = 202 => Tried(r.file, r.seen),
           UNCHANGED <<batches, runs, pool>>
    PROVE  AcceptInv'
<1>1. PICK replies : replies = Append(answered, r)
  OBVIOUS
<1>2. replies \in Seq(Reply) /\ AnswersAreTried(replies)
  <2>1. answered \in Seq(Reply) /\ AnswersAreTried(answered)
    BY RequestIsOne
  <2>2. /\ replies \in Seq(Reply) /\ DOMAIN replies = 1..(Len(answered) + 1)
        /\ \A i \in DOMAIN answered : replies[i] = answered[i]
        /\ replies[Len(answered) + 1] = r
        /\ DOMAIN answered = 1..Len(answered) /\ Len(answered) \in Nat
    BY <1>1, <2>1, AppendProperties, LenProperties
  <2> QED
    BY <2>1, <2>2 DEF AnswersAreTried
<1>3. PICK q : q = [req EXCEPT !.pc = "next"]
  OBVIOUS
<1>4. q \in Request /\ RequestFits(q)
  <2>1. req \in Request /\ req # NoReq /\ RequestFits(req)
    BY RequestIsOne
  <2> QED
    BY <1>3, <2>1, GoesOn, ValuesFit
<1> QED
  BY <1>1, <1>2, <1>3, <1>4, RequestStep

LEMMA ReadFoundStep ==
    ASSUME AcceptInv, ReadFound
    PROVE  AcceptInv'
<1>1. req.pc = "found" /\ UNCHANGED <<batches, runs, pool>>
  BY DEF ReadFound, IsAt, store
<1>2. Unfinished(req.found) =>
        /\ OfFile(req.found, req.file)
        /\ Tried(req.file, req.seen[req.file].count)
  <2> SUFFICES ASSUME Unfinished(req.found)
               PROVE  /\ OfFile(req.found, req.file)
                      /\ Tried(req.file, req.seen[req.file].count)
    OBVIOUS
  <2>1. OfFile(req.found, req.file)
    BY <1>1, RequestIsOne DEF RequestFits, Unfinished
  <2>2. Tried(req.file, req.seen[req.file].count)
    BY <1>1, RequestIsOne DEF RequestFits
  <2> QED
    BY <2>1, <2>2
<1>3. CASE Unfinished(req.found) /\ req.mode # "none"
  <2>1. PICK r : r = [file |-> req.file, code |-> 202, batch |-> req.found, mine |-> FALSE,
                      seen |-> req.seen[req.file].count]
    OBVIOUS
  <2>2. answered' = Append(answered, r) /\ req' = [req EXCEPT !.pc = "next"]
    BY <1>3, <2>1 DEF ReadFound, Answer, Goto
  <2>3. r \in Reply
    BY <1>1, <2>1, RequestIsOne DEF Reply
  <2>4. Tried(r.file, r.seen)
    BY <1>2, <1>3, <2>1
  <2> QED
    BY <1>1, <2>2, <2>3, <2>4, AnswerStep
<1>4. CASE Unfinished(req.found) /\ req.mode = "none"
  <2>1. PICK q : q = [req EXCEPT !.pc = "archive", !.batch = req.found, !.code = 202]
    OBVIOUS
  <2>2. req' = q /\ UNCHANGED answered
    BY <1>1, <1>4, <2>1 DEF ReadFound, counting
  <2>3. 202 \in Codes /\ "archive" \in Places
    BY ValuesFit
  <2>4. q \in Request
    <3>1. req \in Request
      BY <1>1, RequestIsOne
    <3>2. PICK b \in Nat : b = req.found
      BY <3>1 DEF Request
    <3>3. q = [req EXCEPT !.pc = "archive", !.batch = b, !.code = 202]
      BY <2>1, <3>2
    <3> QED
      BY <2>3, <3>1, <3>3 DEF Request
  <2>5. /\ q.seen = req.seen /\ q.file = req.file /\ q.found = req.found /\ q.batch = req.found
        /\ q.pc = "archive"
    BY <1>1, <2>1, RequestIsOne DEF Request
  <2>6. RequestFits(q)
    BY <1>1, <1>2, <1>4, <2>5, RequestIsOne DEF RequestFits, Unfinished
  <2>7. PICK replies : replies = answered
    OBVIOUS
  <2> QED
    BY <1>1, <2>2, <2>4, <2>6, <2>7, RequestIsOne, RequestStep
<1>5. CASE ~Unfinished(req.found)
  <2>1. PICK place \in {"recoverable", "start"} : req' = [req EXCEPT !.pc = place]
    BY <1>5 DEF ReadFound, Goto
  <2>2. PICK q : q = [req EXCEPT !.pc = place]
    OBVIOUS
  <2>3. q \in Request /\ RequestFits(q)
    BY <1>1, <2>2, RequestIsOne, GoesOn, ValuesFit
  <2>4. PICK replies : replies = answered
    OBVIOUS
  <2>5. UNCHANGED answered
    BY <1>5 DEF ReadFound, counting
  <2> QED
    BY <1>1, <2>1, <2>2, <2>3, <2>4, <2>5, RequestIsOne, RequestStep
<1> QED
  BY <1>3, <1>4, <1>5

LEMMA ArchiveStep ==
    ASSUME AcceptInv, ArchiveSource \/ ArchiveFails \/ ArchiveUnreadable
    PROVE  AcceptInv'
<1>1. req.pc \in {"archive", "start"} /\ UNCHANGED <<batches, runs, pool>>
  BY DEF ArchiveSource, ArchiveFails, ArchiveUnreadable, IsAt, store
<1>2. CASE ArchiveSource /\ req.code # 0
  <2>1. PICK r : r = [file |-> req.file, code |-> req.code, batch |-> req.batch,
                      mine |-> FALSE, seen |-> req.seen[req.file].count]
    OBVIOUS
  <2>2. req.code \in {200, 202} /\ req.batch \in Nat
    BY <1>1, <1>2, RequestIsOne DEF Codes
  <2>3. req.code = 202 => Tried(req.file, req.seen[req.file].count)
    BY <1>1, RequestIsOne DEF RequestFits
  <2>4. answered' = Append(answered, r) /\ req' = [req EXCEPT !.pc = "next"]
    BY <1>2, <2>1 DEF ArchiveSource, Answer, Goto
  <2>5. r \in Reply
    BY <1>1, <2>1, <2>2, RequestIsOne DEF Reply
  <2>6. r.code = 202 => Tried(r.file, r.seen)
    BY <2>1, <2>3
  <2> QED
    BY <1>1, <2>4, <2>5, <2>6, AnswerStep
<1>3. CASE ArchiveSource /\ req.code = 0
  <2>1. PICK place \in {"create", "inflight"} : req' = [req EXCEPT !.pc = place]
    BY <1>3 DEF ArchiveSource, Goto
  <2>2. PICK q : q = [req EXCEPT !.pc = place]
    OBVIOUS
  <2>3. q \in Request /\ RequestFits(q)
    BY <1>1, <2>2, RequestIsOne, GoesOn, ValuesFit
  <2>4. PICK replies : replies = answered
    OBVIOUS
  <2>5. UNCHANGED answered
    BY <1>3 DEF ArchiveSource, counting
  <2> QED
    BY <1>1, <2>1, <2>2, <2>3, <2>4, <2>5, RequestIsOne, RequestStep
<1>4. CASE ArchiveFails \/ ArchiveUnreadable
  <2>1. req' = NoReq /\ answered' = <<>>
    BY <1>4 DEF ArchiveFails, ArchiveUnreadable
  <2>2. <<>> \in Seq(Reply) /\ AnswersAreTried(<<>>) /\ RequestFits(NoReq)
    BY EmptySeq DEF AnswersAreTried, RequestFits
  <2> QED
    BY <1>1, <2>1, <2>2, RequestStep
<1> QED
  BY <1>2, <1>3, <1>4

(* Jobs keep fitting while batches are added and keep their file.           *)
LEMMA BatchesGrow ==
    ASSUME AcceptInv,
           \A b \in DOMAIN batches : b \in DOMAIN batches' /\ batches'[b].file = batches[b].file
    PROVE  /\ \A job : JobFits(job) => JobFits(job)'
           /\ \A b, f : OfFile(b, f) => OfFile(b, f)'
BY DEF JobFits, OfFile

LEMMA CreateStep ==
    ASSUME AcceptInv, CreateBatch
    PROVE  AcceptInv'
<1>1. req.pc = "create" /\ UNCHANGED <<runs, inflight, queue, worker, ended, answered>>
  BY DEF CreateBatch, IsAt, pool, counting
<1>2. PICK n \in Nat : n = Len(batches) /\ DOMAIN batches = 1..n /\ batches \in Seq(BatchRow)
  BY LenProperties DEF AcceptInv, AcceptShape
<1>3. PICK row : row = [file |-> req.file, status |-> "received", staged |-> FALSE]
  OBVIOUS
<1>4. row \in BatchRow /\ row.file = req.file
  BY <1>1, <1>3, RequestIsOne DEF BatchRow
<1>5. /\ batches' = Append(batches, row) /\ batches' \in Seq(BatchRow)
      /\ DOMAIN batches' = 1..(n + 1)
      /\ \A b \in DOMAIN batches : b \in DOMAIN batches' /\ batches'[b] = batches[b]
      /\ batches'[n + 1] = row
  BY <1>2, <1>3, <1>4, AppendProperties, LenProperties DEF CreateBatch
<1>6. Working' = Working
  BY <1>1 DEF Working
<1>7. \A f \in Files, k \in Nat : Tried(f, k) => Tried(f, k)'
  BY <1>1, <1>5, <1>6, TriedLasts DEF Continues
<1>8. PICK q : q = [req EXCEPT !.pc = "submit", !.batch = n + 1]
  OBVIOUS
<1>9. req' = q /\ q \in Request
  <2>1. n + 1 \in Nat /\ "submit" \in Places
    BY ValuesFit
  <2>2. req' = q
    BY <1>1, <1>2, <1>8 DEF CreateBatch
  <2> QED
    BY <1>1, <1>8, <2>1, <2>2, RequestIsOne DEF Request
<1>10. /\ q.pc = "submit" /\ q.batch = n + 1 /\ q.file = req.file /\ q.found = req.found
       /\ q.code = req.code /\ q.seen = req.seen
  BY <1>1, <1>8, RequestIsOne DEF Request
<1>11. RequestFits(req)' /\ AnswersAreTried(answered)'
  <2>1. /\ \A f \in Files : req.seen[f].count <= ended[f].count
        /\ req.found # NoBatch => OfFile(req.found, req.file)
        /\ req.code = 202 => Tried(req.file, req.seen[req.file].count)
    BY <1>1, RequestIsOne DEF RequestFits
  <2>2. PICK f, seen, k, found, code :
          /\ f \in Files /\ k \in Nat /\ f = req.file /\ seen = req.seen /\ k = seen[f].count /\ found = req.found /\ code = req.code
    BY <1>1, RequestIsOne
  <2>3. code = 202 => Tried(f, k)'
    BY <1>7, <2>1, <2>2
  <2>4. found # NoBatch => OfFile(found, f)'
    BY <1>5, <2>1, <2>2 DEF OfFile
  <2>5. OfFile(n + 1, f)' /\ n + 1 # NoBatch
    BY <1>4, <1>5, <2>2 DEF OfFile, NoBatch
  <2>6. \A g \in Files : seen[g].count <= ended'[g].count
    BY <1>1, <2>1, <2>2
  <2>7. RequestFits(req)'
    BY <1>9, <1>10, <2>2, <2>3, <2>4, <2>5, <2>6 DEF RequestFits
  <2>8. PICK replies : replies = answered
    OBVIOUS
  <2>9. AnswersAreTried(answered)'
    BY <1>1, <1>7, <2>8, RequestIsOne, RepliesLast
  <2> QED
    BY <2>7, <2>9
<1>12. AcceptShape'
  BY <1>1, <1>5, <1>9 DEF AcceptInv, AcceptShape
<1>13. PoolFits'
  BY <1>1, <1>5, BatchesGrow DEF AcceptInv, PoolFits
<1>14. UnfinishedIsWorkedOn'
  <2>1. \A f \in Files : inflight[f] # NoBatch => inflight[f] \in DOMAIN batches
    BY DEF AcceptInv, PoolFits, OfFile
  <2> QED
    BY <1>1, <1>5, <1>6, <2>1 DEF AcceptInv, UnfinishedIsWorkedOn, Unfinished, WorkedOn
<1>15. LiveIsWorkedOn'
  BY <1>1, <1>6 DEF AcceptInv, LiveIsWorkedOn
<1> QED
  BY <1>11, <1>12, <1>13, <1>14, <1>15 DEF AcceptInv

(* Ending a run touches no other, and no batch of any.                      *)
LEMMA EndingARun ==
    ASSUME NEW all \in Seq([batch : Nat, live : BOOLEAN]), NEW r
    PROVE  LET rest == [all EXCEPT ![r].live = FALSE]
           IN  /\ rest \in Seq([batch : Nat, live : BOOLEAN]) /\ DOMAIN rest = DOMAIN all
               /\ Len(rest) = Len(all)
               /\ \A i \in DOMAIN all : /\ rest[i].batch = all[i].batch
                                        /\ rest[i].live => all[i].live /\ i # r
<1> DEFINE Run == [batch : Nat, live : BOOLEAN]
           rest == [all EXCEPT ![r].live = FALSE]
<1>1. DOMAIN all = 1..Len(all) /\ Len(all) \in Nat /\ \A i \in DOMAIN all : all[i] \in Run
  BY LenProperties, ElementOfSeq
<1>2. PICK n \in Nat : n = Len(all) /\ DOMAIN all = 1..n
  BY <1>1
<1>3. all \in [1..n -> Run]
  BY <1>2, LenProperties
<1>4. \A i \in 1..n : rest[i] = IF i = r THEN [all[i] EXCEPT !.live = FALSE] ELSE all[i]
  BY <1>3
<1>5. \A i \in 1..n : /\ rest[i] \in Run /\ rest[i].batch = all[i].batch
                      /\ rest[i].live => all[i].live /\ i # r
  BY <1>1, <1>2, <1>4
<1>6. rest \in [1..n -> Run]
  BY <1>3, <1>5
<1>7. rest \in Seq(Run) /\ DOMAIN rest = 1..n /\ Len(rest) = n
  BY <1>6, LenProperties
<1> QED
  BY <1>2, <1>5, <1>7

LEMMA Entries ==
    ASSUME NEW Value, NEW n \in Nat, NEW all \in [1..n -> Value]
    PROVE  all \in Seq(Value) /\ DOMAIN all = 1..n
  BY LenProperties

(* So does ending the first run of a batch.                                 *)
LEMMA EndingTheFirst ==
    ASSUME AcceptInv, NEW b, runs' = FirstEnded(b)
    PROVE  /\ runs' \in Seq([batch : Nat, live : BOOLEAN]) /\ DOMAIN runs' = DOMAIN runs
           /\ \A i \in DOMAIN runs : runs'[i].batch = runs[i].batch
                                    /\ (runs'[i].live => runs[i].live)
<1>1. PICK n \in Nat : n = Len(runs) /\ DOMAIN runs = 1..n
                      /\ runs \in [1..n -> [batch : Nat, live : BOOLEAN]]
  BY LenProperties DEF AcceptInv, AcceptShape
<1>3. /\ DOMAIN runs' = 1..n
      /\ \A r \in 1..n : runs'[r] = IF IsFirst(r, b) THEN [runs[r] EXCEPT !.live = FALSE] ELSE runs[r]
  BY <1>1 DEF FirstEnded
<1>4. \A r \in 1..n : /\ runs'[r] \in [batch : Nat, live : BOOLEAN]
                      /\ runs'[r].batch = runs[r].batch /\ (runs'[r].live => runs[r].live)
  BY <1>1, <1>3
<1>5. runs' \in [1..n -> [batch : Nat, live : BOOLEAN]] /\ DOMAIN runs' = 1..n
  BY <1>3, <1>4 DEF FirstEnded
<1>6. PICK all : all = runs'
  OBVIOUS
<1>7. all \in Seq([batch : Nat, live : BOOLEAN])
  <2>1. all \in [1..n -> [batch : Nat, live : BOOLEAN]] /\ n \in Nat
    BY <1>1, <1>5, <1>6
  <2> QED
    BY <2>1, Entries
<1> QED
  BY <1>1, <1>4, <1>5, <1>6, <1>7

(* The batch of the request goes to the pool: a job of it waits there.      *)
LEMMA QueueStep ==
    ASSUME AcceptInv, req.pc \in {"submit", "start"}, req.batch # NoBatch,
           NEW job \in Job, job.stage = "taken", job.batch = req.batch, JobFits(job),
           queue' = Append(queue, job), UNCHANGED <<batches, worker, ended>>,
           NEW r \in Reply, r.file = req.file, r.seen = req.seen[req.file].count,
           answered' = Append(answered, r), req' = [req EXCEPT !.pc = "next"],
           inflight' \in [Files -> Nat],
           \A f \in Files : inflight'[f] # NoBatch => OfFile(inflight'[f], f),
           \A f \in Files : \/ inflight'[f] = inflight[f]
                            \/ inflight'[f] = job.batch /\ job.kind # "staged",
           runs' \in Seq([batch : Nat, live : BOOLEAN]),
           \A i \in DOMAIN runs' : runs'[i].live =>
             \/ i \in DOMAIN runs /\ runs[i].live /\ runs'[i].batch = runs[i].batch
             \/ job.run = i /\ job.batch = runs'[i].batch
    PROVE  AcceptInv'
<1>1. /\ req \in Request /\ RequestFits(req) /\ req # NoReq /\ answered \in Seq(Reply)
      /\ AnswersAreTried(answered) /\ req.file \in Files /\ r.seen \in Nat
      /\ r.seen <= ended[req.file].count
  BY RequestIsOne
<1>2. OfFile(req.batch, req.file)
  BY <1>1 DEF RequestFits
<1>3. /\ queue' \in Seq(Job) /\ DOMAIN queue' = 1..(Len(queue) + 1)
      /\ DOMAIN queue = 1..Len(queue) /\ Len(queue) \in Nat
      /\ \A i \in DOMAIN queue : i \in DOMAIN queue' /\ queue'[i] = queue[i]
      /\ queue'[Len(queue) + 1] = job /\ Len(queue) + 1 \in DOMAIN queue'
  BY AppendProperties, LenProperties DEF AcceptInv, AcceptShape
<1>4. Working \subseteq Working' /\ job \in Working'
  <2>1. job \in Working'
    BY <1>3 DEF Working
  <2>2. ASSUME NEW j \in Working PROVE j \in Working'
    <3>1. CASE \E i \in DOMAIN queue : j = queue[i]
      BY <1>3, <3>1 DEF Working
    <3>2. CASE \E w \in Workers : j = worker[w] /\ worker[w].stage \notin Done
      BY <3>2 DEF Working
    <3> QED
      BY <3>1, <3>2 DEF Working
  <2> QED
    BY <2>1, <2>2
<1>5. \A f \in Files, n \in Nat : Tried(f, n) => Tried(f, n)'
  BY <1>4, TriedLasts DEF Continues
<1>6. RequestFits(req)'
  <2>1. PICK q : q = [req EXCEPT !.pc = "next"]
    OBVIOUS
  <2>2. q \in Request /\ RequestFits(q)
    BY <1>1, <2>1, GoesOn, ValuesFit
  <2>3. \A f \in Files : ended[f].count \in Nat
    BY DEF AcceptInv, AcceptShape, Attempts
  <2>4. /\ req' = q /\ UNCHANGED <<batches, ended>>
        /\ \A b \in DOMAIN batches : b \in DOMAIN batches' /\ batches'[b].file = batches[b].file
        /\ \A f \in Files : ended[f].count \in Nat /\ ended'[f].count \in Nat
                           /\ ended[f].count <= ended'[f].count
        /\ \A b : Unfinished(b)' => Unfinished(b)
    BY <2>1, <2>3 DEF Unfinished
  <2> QED
    BY <1>5, <2>2, <2>4, RequestLasts
<1>7. AnswersAreTried(answered)'
  <2>1. PICK replies : replies = answered
    OBVIOUS
  <2>2. AnswersAreTried(replies)'
    BY <1>1, <1>5, <2>1, RepliesLast
  <2>3. PICK n \in Nat : n = Len(replies) /\ DOMAIN replies = 1..n
    BY <1>1, <2>1, LenProperties
  <2>4. /\ DOMAIN answered' = 1..(n + 1)
        /\ \A i \in 1..n : answered'[i] = replies[i]
        /\ answered'[n + 1] = r
    BY <1>1, <2>1, <2>3, AppendProperties, LenProperties
  <2>5. r.seen <= ended'[r.file].count /\ batches'[job.batch].file = r.file
    BY <1>1, <1>2 DEF OfFile
  <2>6. Tried(r.file, r.seen)'
    BY <1>4, <2>5 DEF Tried
  <2> QED
    BY <2>2, <2>3, <2>4, <2>6 DEF AnswersAreTried
<1>8. AcceptShape'
  <2>1. req' \in Request
    <3>1. "next" \in Places
      BY ValuesFit
    <3> QED
      BY <1>1, <3>1 DEF Request
  <2>2. answered' \in Seq(Reply)
    BY <1>1, AppendProperties
  <2> QED
    BY <1>3, <2>1, <2>2 DEF AcceptInv, AcceptShape
<1>9. PoolFits'
  <2>1. \A i \in DOMAIN queue' : JobFits(queue'[i]) /\ queue'[i].stage = "taken"
    BY <1>3 DEF AcceptInv, PoolFits
  <2> QED
    BY <2>1 DEF AcceptInv, PoolFits, JobFits, OfFile
<1>10. UnfinishedIsWorkedOn'
  <2>1. \A f \in Files : Unfinished(inflight[f]) => WorkedOn(inflight[f])'
    BY <1>4 DEF AcceptInv, UnfinishedIsWorkedOn, WorkedOn
  <2>2. job.kind # "staged" => WorkedOn(job.batch)'
    BY <1>4 DEF WorkedOn
  <2> QED
    BY <2>1, <2>2 DEF UnfinishedIsWorkedOn, Unfinished, WorkedOn
<1>11. LiveIsWorkedOn'
  <2> SUFFICES ASSUME NEW i \in DOMAIN runs', runs'[i].live
               PROVE  \E next \in Working' : /\ next.run = i /\ next.batch = runs'[i].batch
                                             /\ next.stage \in Running
    BY DEF LiveIsWorkedOn
  <2>1. CASE job.run = i /\ job.batch = runs'[i].batch
    BY <1>4, <2>1 DEF Running
  <2>2. CASE i \in DOMAIN runs /\ runs[i].live /\ runs'[i].batch = runs[i].batch
    BY <1>4, <2>2 DEF AcceptInv, LiveIsWorkedOn
  <2> QED
    BY <2>1, <2>2
<1> QED
  BY <1>6, <1>7, <1>8, <1>9, <1>10, <1>11 DEF AcceptInv

LEMMA SubmitStep ==
    ASSUME AcceptInv, Submit \/ StartArchive
    PROVE  AcceptInv'
<1>1. /\ req.pc \in {"submit", "start"} /\ UNCHANGED <<batches, runs, worker, ended>>
      /\ inflight' = [inflight EXCEPT ![req.file] = req.batch]
      /\ req.pc = "submit" \/ req.mode # "none"
  BY DEF Submit, StartArchive, IsAt, store
<1>2. PICK kind \in {"upload", "archive"} :
         queue' = Append(queue, [stage |-> "taken", kind |-> kind, batch |-> req.batch, run |-> 0])
  BY DEF Submit, StartArchive, Enqueue
<1>3. req.batch # NoBatch /\ OfFile(req.batch, req.file) /\ req.batch \in Nat
  BY <1>1, RequestIsOne DEF RequestFits
<1>4. PICK job : job = [stage |-> "taken", kind |-> kind, batch |-> req.batch, run |-> 0]
  OBVIOUS
<1>5. job \in Job /\ job.stage = "taken" /\ job.batch = req.batch /\ job.kind # "staged"
  BY <1>3, <1>4 DEF Job, Stages
<1>6. JobFits(job)
  BY <1>3, <1>4 DEF JobFits, OfFile
<1>7. PICK r : r = [file |-> req.file, code |-> 202, batch |-> req.batch, mine |-> TRUE,
                    seen |-> req.seen[req.file].count]
  OBVIOUS
<1>8. r \in Reply /\ r.file = req.file /\ r.seen = req.seen[req.file].count
  BY <1>1, <1>7, RequestIsOne DEF Reply
<1>9. answered' = Append(answered, r) /\ req' = [req EXCEPT !.pc = "next"]
  BY <1>7 DEF Submit, StartArchive, Answer, Goto
<1>10. /\ inflight' \in [Files -> Nat]
       /\ \A f \in Files : inflight'[f] # NoBatch => OfFile(inflight'[f], f)
       /\ \A f \in Files : inflight'[f] = inflight[f] \/ inflight'[f] = req.batch
  BY <1>1, <1>3 DEF AcceptInv, AcceptShape, PoolFits
<1>11. runs' \in Seq([batch : Nat, live : BOOLEAN]) /\ UNCHANGED runs
  BY <1>1 DEF AcceptInv, AcceptShape
<1> QED
  BY <1>1, <1>2, <1>3, <1>4, <1>5, <1>6, <1>8, <1>9, <1>10, <1>11, QueueStep

LEMMA StagedStep ==
    ASSUME AcceptInv, StartStaged
    PROVE  AcceptInv'
<1>1. req.pc = "start" /\ req.mode = "staged" /\ UNCHANGED <<batches, worker, ended, inflight>>
  BY DEF StartStaged, IsAt, store, pool, Enqueue
<1>2. /\ req.batch # NoBatch /\ OfFile(req.batch, req.file) /\ req.batch \in Nat
      /\ runs \in Seq([batch : Nat, live : BOOLEAN])
  BY <1>1, RequestIsOne DEF RequestFits, AcceptInv, AcceptShape
<1>3. PICK mine \in BOOLEAN : Answer(202, req.batch, mine)
  BY DEF StartStaged
<1>4. PICK r : r = [file |-> req.file, code |-> 202, batch |-> req.batch, mine |-> mine,
                    seen |-> req.seen[req.file].count]
  OBVIOUS
<1>5. r \in Reply /\ r.file = req.file /\ r.seen = req.seen[req.file].count
  BY <1>1, <1>4, RequestIsOne DEF Reply
<1>6. answered' = Append(answered, r) /\ req' = [req EXCEPT !.pc = "next"]
  BY <1>3, <1>4 DEF Answer, Goto
<1>7. CASE /\ LiveRuns(req.batch) # {}
           /\ UNCHANGED <<store, pool>>
  <2>1. PICK i \in DOMAIN runs : runs[i].batch = req.batch /\ runs[i].live
    BY <1>7 DEF LiveRuns
  <2>2. \E job \in Working : job.batch = req.batch
    BY <2>1 DEF AcceptInv, LiveIsWorkedOn
  <2>3. Tried(r.file, r.seen)
    BY <1>1, <1>2, <1>5, <2>2, RequestIsOne DEF Tried, OfFile
  <2>4. UNCHANGED <<batches, runs, pool>>
    BY <1>7 DEF store
  <2> QED
    BY <1>1, <1>5, <1>6, <2>3, <2>4, AnswerStep
<1>8. CASE /\ runs' = Append(NewestEnded(req.batch), [batch |-> req.batch, live |-> TRUE])
           /\ Enqueue("staged", req.batch, Len(runs) + 1)
  <2>1. PICK n \in Nat, b \in Nat :
          n = Len(runs) /\ DOMAIN runs = 1..n /\ b = req.batch
    BY <1>2, LenProperties
  <2>2. PICK rest : rest = NewestEnded(b)
    OBVIOUS
  <2>3. /\ rest \in Seq([batch : Nat, live : BOOLEAN]) /\ DOMAIN rest = 1..n /\ Len(rest) = n
        /\ \A i \in 1..n : rest[i].batch = runs[i].batch /\ (rest[i].live => runs[i].live)
    <3>1. CASE LiveRuns(b) = {}
      BY <1>2, <2>1, <2>2, <3>1 DEF NewestEnded
    <3>2. CASE LiveRuns(b) # {}
      <4>1. PICK last : last = Newest(LiveRuns(b))
        OBVIOUS
      <4>2. rest = [runs EXCEPT ![last].live = FALSE]
        BY <2>2, <3>2, <4>1 DEF NewestEnded
      <4> QED
        BY <1>2, <2>1, <4>2, EndingARun
    <3> QED
      BY <3>1, <3>2
  <2>4. PICK row : row = [batch |-> b, live |-> TRUE]
    OBVIOUS
  <2>5. row \in [batch : Nat, live : BOOLEAN] /\ row.batch = b
    BY <2>1, <2>4
  <2>6. /\ runs' \in Seq([batch : Nat, live : BOOLEAN]) /\ DOMAIN runs' = 1..(n + 1)
        /\ \A i \in 1..n : runs'[i] = rest[i]
        /\ runs'[n + 1] = row
    BY <1>8, <2>1, <2>2, <2>3, <2>4, <2>5, AppendProperties, LenProperties
  <2>7. PICK job : job = [stage |-> "taken", kind |-> "staged", batch |-> b, run |-> n + 1]
    OBVIOUS
  <2>8. job \in Job /\ job.stage = "taken" /\ job.batch = req.batch /\ job.run = n + 1
    BY <2>1, <2>7 DEF Job, Stages
  <2>9. JobFits(job)
    BY <1>2, <2>1, <2>7 DEF JobFits, OfFile
  <2>10. queue' = Append(queue, job)
    BY <1>8, <2>1, <2>7 DEF Enqueue
  <2>11. \A i \in DOMAIN runs' : runs'[i].live =>
             \/ i \in DOMAIN runs /\ runs[i].live /\ runs'[i].batch = runs[i].batch
             \/ job.run = i /\ job.batch = runs'[i].batch
    BY <2>1, <2>3, <2>5, <2>6, <2>8
  <2>12. /\ inflight' \in [Files -> Nat]
         /\ \A f \in Files : inflight'[f] # NoBatch => OfFile(inflight'[f], f)
         /\ \A f \in Files : inflight'[f] = inflight[f]
    BY <1>1, <1>8 DEF AcceptInv, AcceptShape, PoolFits
  <2>13. UNCHANGED <<batches, worker, ended>>
    BY <1>1
  <2> QED
    BY <1>1, <1>2, <1>5, <1>6, <2>6, <2>8, <2>9, <2>10, <2>11, <2>12, <2>13, QueueStep
<1> QED
  <2>1. PICK b : b = req.batch
    OBVIOUS
  <2> QED
    BY <1>7, <1>8, <2>1 DEF StartStaged

-----------------------------------------------------------------------------
(* The steps of the pool. *)

LEMMA TakeStep ==
    ASSUME AcceptInv, NEW w \in Workers, TakeJob(w)
    PROVE  AcceptInv'
<1>1. /\ worker[w].stage = "free" /\ queue # <<>> /\ worker' = [worker EXCEPT ![w] = Head(queue)]
      /\ queue' = Tail(queue) /\ UNCHANGED <<batches, runs, inflight, ended, req, answered>>
  BY DEF TakeJob, InStage, store, counting
<1>2. queue \in Seq(Job) /\ worker \in [Workers -> Job \cup {Free}]
  BY DEF AcceptInv, AcceptShape
<1>3. PICK n \in Nat : n = Len(queue) /\ DOMAIN queue = 1..n /\ n > 0
  BY <1>1, <1>2, LenProperties, EmptySeq
<1>4. /\ Head(queue) = queue[1] /\ 1 \in DOMAIN queue /\ queue' \in Seq(Job)
      /\ Len(queue') = n - 1 /\ DOMAIN queue' = 1..(n - 1)
      /\ \A i \in 1..(n - 1) : queue'[i] = queue[i + 1] /\ i + 1 \in DOMAIN queue
  <2>1. /\ Head(queue) = queue[1] /\ Tail(queue) \in Seq(Job) /\ Len(Tail(queue)) = n - 1
        /\ \A i \in 1..(n - 1) : Tail(queue)[i] = queue[i + 1]
    BY <1>1, <1>2, <1>3, HeadTailProperties
  <2> QED
    BY <1>1, <1>3, <2>1, LenProperties
<1>5. /\ queue[1] \in Job /\ queue[1].stage = "taken" /\ JobFits(queue[1])
      /\ worker'[w] = queue[1] /\ \A v \in Workers : v # w => worker'[v] = worker[v]
  BY <1>1, <1>2, <1>4, ElementOfSeq, LenProperties DEF AcceptInv, PoolFits
<1>6. ASSUME NEW job \in Working PROVE job \in Working'
  <2>1. CASE \E i \in DOMAIN queue : job = queue[i]
    <3>1. PICK i \in DOMAIN queue : job = queue[i]
      BY <2>1
    <3>2. CASE i = 1
      BY <1>5, <3>1, <3>2 DEF Working, Done
    <3>3. CASE i # 1
      <4>1. i - 1 \in 1..(n - 1) /\ i - 1 + 1 = i
        BY <1>3, <3>3
      <4>2. queue'[i - 1] = job /\ i - 1 \in DOMAIN queue'
        BY <1>4, <3>1, <4>1
      <4> QED
        BY <4>2 DEF Working
    <3> QED
      BY <3>2, <3>3
  <2>2. CASE \E v \in Workers : job = worker[v] /\ worker[v].stage \notin Done
    BY <1>1, <1>5, <2>2 DEF Working, Done
  <2> QED
    BY <2>1, <2>2 DEF Working
<1>7. \A f \in Files, k \in Nat : Tried(f, k) => Tried(f, k)'
  BY <1>1, <1>6, TriedLasts DEF Continues
<1>8. AcceptShape'
  BY <1>1, <1>2, <1>4, <1>5 DEF AcceptInv, AcceptShape
<1>9. PoolFits'
  <2>1. \A job : JobFits(job) => JobFits(job)'
    BY <1>1, BatchesGrow
  <2>2. \A i \in DOMAIN queue' : JobFits(queue[i])' /\ queue'[i].stage = "taken"
    BY <1>4, <2>1 DEF AcceptInv, PoolFits
  <2>3. \A v \in Workers : worker'[v] # Free => JobFits(worker[v])'
    BY <1>5, <2>1 DEF AcceptInv, PoolFits
  <2> QED
    BY <1>1, <2>2, <2>3 DEF AcceptInv, PoolFits, OfFile
<1>10. /\ UnfinishedIsWorkedOn' /\ LiveIsWorkedOn'
       /\ \A b : Unfinished(b)' => Unfinished(b)
  BY <1>1, <1>6
  DEF AcceptInv, UnfinishedIsWorkedOn, Unfinished, WorkedOn, LiveIsWorkedOn
<1>11. \A f \in Files : ended[f].count \in Nat
  BY DEF AcceptInv, AcceptShape, Attempts
<1> QED
  BY <1>1, <1>7, <1>8, <1>9, <1>10, <1>11, PoolStep

(* A thread goes on with its job, in another stage; past the last of those  *)
(* in which its run is live, it has ended it.                               *)
LEMMA JobGoesOn ==
    ASSUME AcceptInv, NEW w \in Workers, worker[w].stage \in Running \cup {"succeeded"},
           NEW next \in Job, worker' = [worker EXCEPT ![w] = next],
           Continues(worker[w], next), JobFits(next), next.stage \notin Done,
           UNCHANGED <<queue, inflight, ended, req, answered>>,
           batches' \in Seq(BatchRow), DOMAIN batches' = DOMAIN batches,
           \A b \in DOMAIN batches :
             /\ batches'[b].file = batches[b].file
             /\ batches'[b].status # batches[b].status => b = next.batch /\ next.kind # "staged",
           runs' \in Seq([batch : Nat, live : BOOLEAN]),
           \A i \in DOMAIN runs' : runs'[i].live =>
             \/ /\ i \in DOMAIN runs /\ runs[i].live /\ runs'[i].batch = runs[i].batch
                /\ next.run = i => next.stage \in Running
             \/ next.run = i /\ next.batch = runs'[i].batch /\ next.stage \in Running
    PROVE  AcceptInv'
<1>1. worker[w] \in Job /\ worker[w] # Free /\ worker \in [Workers -> Job \cup {Free}]
  BY DEF AcceptInv, AcceptShape, Free, Running
<1>2. worker'[w] = next /\ \A v \in Workers : v # w => worker'[v] = worker[v]
  BY <1>1
<1>3. next \in Working'
  BY <1>2 DEF Working, Done
<1>4. ASSUME NEW job \in Working PROVE job \in Working' \/ job = worker[w]
  BY <1>2 DEF Working
<1>5. \A job \in Working : \E after \in Working' : Continues(job, after)
  BY <1>3, <1>4 DEF Continues
<1>6. \A f \in Files, k \in Nat : Tried(f, k) => Tried(f, k)'
  BY <1>5, TriedLasts
<1>7. AcceptShape'
  BY <1>1, <1>2 DEF AcceptInv, AcceptShape
<1>8. PoolFits'
  <2>1. /\ \A job : JobFits(job) => JobFits(job)'
        /\ \A b, f : OfFile(b, f) => OfFile(b, f)'
    BY BatchesGrow
  <2> QED
    BY <1>2, <2>1 DEF AcceptInv, PoolFits
<1>9. \A b \in DOMAIN batches :
        /\ Unfinished(b)' => Unfinished(b) \/ WorkedOn(b)'
        /\ WorkedOn(b) => WorkedOn(b)'
  <2> SUFFICES ASSUME NEW b \in DOMAIN batches
               PROVE  /\ Unfinished(b)' => Unfinished(b) \/ WorkedOn(b)'
                      /\ WorkedOn(b) => WorkedOn(b)'
    OBVIOUS
  <2>1. b = next.batch /\ next.kind # "staged" => WorkedOn(b)'
    BY <1>3 DEF WorkedOn
  <2>2. WorkedOn(b) => WorkedOn(b)'
    BY <1>5 DEF WorkedOn, Continues
  <2> QED
    BY <2>1, <2>2 DEF Unfinished
<1>10. UnfinishedIsWorkedOn'
  <2>1. \A f \in Files : inflight[f] # NoBatch => inflight[f] \in DOMAIN batches
    BY DEF AcceptInv, PoolFits, OfFile
  <2> SUFFICES ASSUME NEW f \in Files, NEW b, b = inflight[f], Unfinished(b)'
               PROVE  WorkedOn(b)'
    BY DEF UnfinishedIsWorkedOn, Unfinished, WorkedOn
  <2>2. b \in DOMAIN batches
    BY <2>1 DEF Unfinished
  <2>3. Unfinished(b) => WorkedOn(b)
    BY DEF AcceptInv, UnfinishedIsWorkedOn
  <2> QED
    BY <1>9, <2>2, <2>3
<1>11. LiveIsWorkedOn'
  <2> SUFFICES ASSUME NEW i \in DOMAIN runs', runs'[i].live
               PROVE  \E job \in Working' : /\ job.run = i /\ job.batch = runs'[i].batch
                                            /\ job.stage \in Running
    BY DEF LiveIsWorkedOn
  <2>1. CASE next.run = i /\ next.batch = runs'[i].batch /\ next.stage \in Running
    BY <1>3, <2>1
  <2>2. CASE /\ i \in DOMAIN runs /\ runs[i].live /\ runs'[i].batch = runs[i].batch
             /\ next.run = i => next.stage \in Running
    <3>1. PICK job \in Working : job.run = i /\ job.batch = runs[i].batch /\ job.stage \in Running
      BY <2>2 DEF AcceptInv, LiveIsWorkedOn
    <3>2. CASE job = worker[w]
      <4>1. i # 0
        BY <2>2, LenProperties DEF AcceptInv, AcceptShape
      <4>2. next.run = i /\ next.batch = runs'[i].batch
        BY <2>2, <3>1, <3>2, <4>1 DEF Continues
      <4> QED
        BY <1>3, <2>2, <4>2
    <3>3. CASE job # worker[w]
      BY <1>4, <2>2, <3>1, <3>3
    <3> QED
      BY <3>2, <3>3
  <2> QED
    BY <2>1, <2>2
<1>12. \A f \in Files : ended[f].count \in Nat
  BY DEF AcceptInv, AcceptShape, Attempts
<1> QED
  BY <1>6, <1>7, <1>8, <1>9, <1>10, <1>11, <1>12, PoolStep

(* Two assignments to one batch.                                            *)
LEMMA BatchChanges ==
    ASSUME AcceptInv, NEW b \in DOMAIN batches,
           NEW status \in {"received", "staged", "failed", "processed"}, NEW kept \in BOOLEAN
    PROVE  LET all == [batches EXCEPT ![b].status = status, ![b].staged = kept]
           IN  /\ all \in Seq(BatchRow) /\ DOMAIN all = DOMAIN batches
               /\ \A c \in DOMAIN batches :
                    /\ all[c].file = batches[c].file
                    /\ all[c].status = IF c = b THEN status ELSE batches[c].status
<1> DEFINE all == [batches EXCEPT ![b].status = status, ![b].staged = kept]
<1>1. PICK n \in Nat : n = Len(batches) /\ DOMAIN batches = 1..n /\ batches \in [1..n -> BatchRow]
  BY LenProperties DEF AcceptInv, AcceptShape
<1>2. all = [c \in 1..n |->
               IF c = b THEN [[batches[c] EXCEPT !.status = status] EXCEPT !.staged = kept]
               ELSE batches[c]]
  BY <1>1
<1> HIDE DEF all
<1>3. \A c \in 1..n : /\ all[c] \in BatchRow /\ all[c].file = batches[c].file
                      /\ all[c].status = IF c = b THEN status ELSE batches[c].status
  BY <1>1, <1>2 DEF BatchRow
<1>4. all \in [1..n -> BatchRow] /\ DOMAIN all = 1..n
  BY <1>2, <1>3
<1>5. all \in Seq(BatchRow)
  BY <1>4, LenProperties
<1> QED
  BY <1>1, <1>3, <1>4, <1>5 DEF all

LEMMA BeginStep ==
    ASSUME AcceptInv, NEW w \in Workers, BeginJob(w)
    PROVE  AcceptInv'
<1>1. /\ worker[w].stage = "taken" /\ UNCHANGED <<queue, inflight, ended, req, answered>>
  BY DEF BeginJob, InStage, counting
<1>2. worker[w] \in Job /\ JobFits(worker[w]) /\ runs \in Seq([batch : Nat, live : BOOLEAN])
  BY <1>1 DEF AcceptInv, AcceptShape, PoolFits, Free
<1>3. PICK stage \in {"ingest", "transform"} :
        /\ stage = IF worker[w].kind = "staged" THEN "transform" ELSE "ingest"
        /\ worker' = [worker EXCEPT ![w].stage = stage]
  BY DEF BeginJob, Move
<1>4. PICK next : next = [worker[w] EXCEPT !.stage = stage]
  OBVIOUS
<1>5. /\ next \in Job /\ next.stage = stage /\ next.kind = worker[w].kind
      /\ next.batch = worker[w].batch /\ next.run = worker[w].run
  BY <1>2, <1>3, <1>4 DEF Job, Stages
<1>6. worker' = [worker EXCEPT ![w] = next]
  BY <1>3, <1>4 DEF AcceptInv, AcceptShape
<1>7. Continues(worker[w], next) /\ JobFits(next)
  BY <1>1, <1>2, <1>3, <1>5 DEF Continues, JobFits
<1>8. /\ batches' \in Seq(BatchRow) /\ DOMAIN batches' = DOMAIN batches
      /\ \A b \in DOMAIN batches :
           /\ batches'[b].file = batches[b].file
           /\ batches'[b].status # batches[b].status => b = next.batch /\ next.kind # "staged"
  <2>1. CASE worker[w].kind = "archive"
    <3>1. PICK b \in DOMAIN batches : b = worker[w].batch
      BY <1>2 DEF JobFits
    <3>2. batches' = [batches EXCEPT ![b].status = "received", ![b].staged = FALSE]
      BY <2>1, <3>1 DEF BeginJob, JobBatch
    <3> QED
      BY <1>5, <2>1, <3>1, <3>2, BatchChanges
  <2>2. CASE worker[w].kind # "archive"
    BY <2>2 DEF BeginJob, AcceptInv, AcceptShape
  <2> QED
    BY <2>1, <2>2
<1>9. /\ runs' \in Seq([batch : Nat, live : BOOLEAN])
      /\ \A i \in DOMAIN runs' : runs'[i].live =>
           \/ i \in DOMAIN runs /\ runs[i].live /\ runs'[i].batch = runs[i].batch
           \/ next.run = i /\ next.batch = runs'[i].batch
  <2>1. PICK n \in Nat : n = Len(runs) /\ DOMAIN runs = 1..n
                        /\ runs \in [1..n -> [batch : Nat, live : BOOLEAN]]
    BY <1>2, LenProperties
  <2>2. runs' = [i \in 1..n |->
                   IF i = worker[w].run /\ runs[i].batch = worker[w].batch
                   THEN [runs[i] EXCEPT !.live = TRUE] ELSE runs[i]]
    BY <2>1 DEF BeginJob, JobBatch
  <2>3. \A i \in 1..n :
          /\ runs'[i] \in [batch : Nat, live : BOOLEAN] /\ runs'[i].batch = runs[i].batch
          /\ runs'[i].live => runs[i].live \/ (i = worker[w].run /\ runs[i].batch = worker[w].batch)
    BY <2>1, <2>2
  <2>4. runs' \in [1..n -> [batch : Nat, live : BOOLEAN]] /\ DOMAIN runs' = 1..n
    BY <2>2, <2>3
  <2>5. PICK all : all = runs'
    OBVIOUS
  <2>6. all \in Seq([batch : Nat, live : BOOLEAN])
    <3>1. all \in [1..n -> [batch : Nat, live : BOOLEAN]] /\ n \in Nat
      BY <2>1, <2>4, <2>5
    <3> QED
      BY <3>1, Entries
  <2> QED
    BY <1>5, <2>1, <2>3, <2>4, <2>5, <2>6
<1> QED
  BY <1>1, <1>2, <1>3, <1>5, <1>6, <1>7, <1>8, <1>9, JobGoesOn DEF Running, Done

LEMMA IngestStep ==
    ASSUME AcceptInv, NEW w \in Workers, Ingest(w)
    PROVE  AcceptInv'
<1>1. /\ worker[w].stage = "ingest" /\ UNCHANGED <<queue, inflight, ended, req, answered>>
  BY DEF Ingest, InStage, counting
<1>2. /\ worker[w] \in Job /\ JobFits(worker[w]) /\ worker \in [Workers -> Job \cup {Free}]
      /\ runs \in Seq([batch : Nat, live : BOOLEAN])
  BY <1>1 DEF AcceptInv, AcceptShape, PoolFits, Free
<1>3. PICK n \in Nat, b \in DOMAIN batches :
         n = Len(runs) /\ DOMAIN runs = 1..n /\ b = worker[w].batch /\ b \in Nat
  BY <1>2, LenProperties, FileOfBatch DEF JobFits
<1>4. PICK next : next = [worker[w] EXCEPT !.stage = "transform", !.run = n + 1]
  OBVIOUS
<1>5. /\ next \in Job /\ next.stage = "transform" /\ next.kind = worker[w].kind
      /\ next.batch = b /\ next.run = n + 1
  <2>1. n + 1 \in Nat
    OBVIOUS
  <2> QED
    BY <1>2, <1>3, <1>4, <2>1 DEF Job, Stages
<1>6. worker' = [worker EXCEPT ![w] = next]
  BY <1>2, <1>3, <1>4 DEF Ingest
<1>7. Continues(worker[w], next) /\ JobFits(next) /\ next.kind # "staged"
  BY <1>1, <1>2, <1>3, <1>5 DEF Continues, JobFits
<1>8. batches' = [batches EXCEPT ![b].status = "staged", ![b].staged = TRUE]
  BY <1>3 DEF Ingest, JobBatch
<1>9. /\ batches' \in Seq(BatchRow) /\ DOMAIN batches' = DOMAIN batches
      /\ \A c \in DOMAIN batches :
           /\ batches'[c].file = batches[c].file
           /\ batches'[c].status # batches[c].status => c = next.batch /\ next.kind # "staged"
  BY <1>5, <1>7, <1>8, BatchChanges
<1>10. PICK row : row = [batch |-> b, live |-> TRUE]
  OBVIOUS
<1>11. row \in [batch : Nat, live : BOOLEAN] /\ row.batch = b
  BY <1>3, <1>10
<1>12. /\ runs' \in Seq([batch : Nat, live : BOOLEAN]) /\ DOMAIN runs' = 1..(n + 1)
       /\ \A i \in 1..n : runs'[i] = runs[i]
       /\ runs'[n + 1] = row
  BY <1>2, <1>3, <1>10, <1>11, AppendProperties, LenProperties DEF Ingest, JobBatch
<1>13. \A i \in DOMAIN runs' : runs'[i].live =>
          \/ i \in DOMAIN runs /\ runs[i].live /\ runs'[i].batch = runs[i].batch
          \/ next.run = i /\ next.batch = runs'[i].batch
  BY <1>3, <1>5, <1>11, <1>12
<1> QED
  BY <1>1, <1>5, <1>6, <1>7, <1>9, <1>12, <1>13, JobGoesOn DEF Running, Done

(* The attempt of a job is over: its batch is finished or forgotten, or was *)
(* not the job's to finish, and its run is over.                            *)
LEMMA JobIsOver ==
    ASSUME AcceptInv, NEW w \in Workers, worker[w].stage \notin Done \cup {"taken"},
           NEW next \in Job \cup {Free}, next.stage \in Done, next # Free => JobFits(next),
           worker' = [worker EXCEPT ![w] = next],
           UNCHANGED <<queue, req, answered>>,
           NEW ok \in BOOLEAN, Over(w, ok),
           NEW old, old = worker[w].batch,
           inflight' \in [Files -> Nat],
           \A f \in Files :
             /\ inflight'[f] \in {inflight[f], NoBatch}
             /\ inflight'[f] = old => worker[w].kind = "staged" \/ ~Unfinished(old)',
           batches' \in Seq(BatchRow), DOMAIN batches' = DOMAIN batches,
           \A b \in DOMAIN batches :
             /\ batches'[b].file = batches[b].file
             /\ \/ batches'[b].status = batches[b].status
                \/ batches'[b].status \in {"failed", "processed"},
           runs' \in Seq([batch : Nat, live : BOOLEAN]), DOMAIN runs' = DOMAIN runs,
           \A i \in DOMAIN runs :
             /\ runs'[i].batch = runs[i].batch
             /\ runs'[i].live => runs[i].live
             /\ runs'[i].live /\ worker[w].stage \in Running => i # worker[w].run
    PROVE  AcceptInv'
<1>1. /\ worker[w] \in Job /\ JobFits(worker[w]) /\ worker \in [Workers -> Job \cup {Free}]
      /\ worker[w] # Free
  BY DEF AcceptInv, AcceptShape, PoolFits, Free, Done
<1>2. PICK b \in DOMAIN batches, f \in Files :
        b = worker[w].batch /\ f = batches[b].file
  BY <1>1, FileOfBatch DEF JobFits, BatchRow
<1>3. /\ ended \in Attempts /\ ended' \in Attempts
      /\ \A g \in Files : ended[g].count \in Nat
      /\ ended'[f].count = ended[f].count + 1
      /\ \A g \in Files : g # f => ended'[g].count = ended[g].count
  <2>1. ended \in Attempts
    BY DEF AcceptInv, AcceptShape
  <2>2. ended' = [ended EXCEPT ![f] = [count |-> ended[f].count + 1, ok |-> ok]]
    BY <1>2, <2>1 DEF Over, JobBatch, Attempts
  <2>3. ended[f].count + 1 \in Nat /\ \A g \in Files : ended[g].count \in Nat
    BY <2>1 DEF Attempts
  <2> QED
    BY <2>1, <2>2, <2>3 DEF Attempts
<1>4. /\ worker'[w] = next /\ \A v \in Workers : v # w => worker'[v] = worker[v]
      /\ \A job \in Working : job \in Working' \/ job = worker[w]
  BY <1>1 DEF Working
<1>5. ASSUME NEW g \in Files, NEW k \in Nat, Tried(g, k) PROVE Tried(g, k)'
  <2>1. k <= ended[g].count
    BY <1>5 DEF Tried
  <2>2. CASE g = f
    <3>1. k < ended'[g].count
      BY <1>3, <2>1, <2>2
    <3> QED
      BY <1>3, <2>2, <3>1 DEF Tried
  <2>3. CASE g # f
    <3>1. ended'[g].count = k => \E job \in Working : batches[job.batch].file = g
      BY <1>3, <1>5, <2>3 DEF Tried
    <3>2. \A job \in Working : batches[job.batch].file = g =>
             job \in Working' /\ batches'[job.batch].file = g
      BY <1>2, <1>4, <2>3, WorkingFits DEF JobFits
    <3>3. k <= ended'[g].count
      BY <1>3, <2>1, <2>3
    <3> QED
      BY <3>1, <3>2, <3>3 DEF Tried
  <2> QED
    BY <2>2, <2>3
<1>6. AcceptShape'
  BY <1>1, <1>3 DEF AcceptInv, AcceptShape
<1>7. PoolFits'
  <2>1. /\ \A job : JobFits(job) => JobFits(job)'
        /\ \A c, g : OfFile(c, g) => OfFile(c, g)'
    BY BatchesGrow
  <2> QED
    BY <1>4, <2>1 DEF AcceptInv, PoolFits
<1>8. \A c : Unfinished(c)' => Unfinished(c) \/ c \notin DOMAIN batches
  BY DEF Unfinished
<1>9. UnfinishedIsWorkedOn'
  <2> SUFFICES ASSUME NEW g \in Files, NEW c, c = inflight'[g], Unfinished(c)'
               PROVE  WorkedOn(c)'
    BY DEF UnfinishedIsWorkedOn, Unfinished, WorkedOn
  <2>1. c = inflight[g] /\ c \in DOMAIN batches
    BY DEF Unfinished, NoBatch, AcceptInv, PoolFits, OfFile
  <2>2. PICK job \in Working : job.batch = c /\ job.kind # "staged"
    BY <1>8, <2>1 DEF AcceptInv, UnfinishedIsWorkedOn, WorkedOn
  <2>3. job # worker[w]
    BY <2>2
  <2> QED
    BY <1>4, <2>2, <2>3 DEF WorkedOn
<1>10. LiveIsWorkedOn'
  <2> SUFFICES ASSUME NEW i \in DOMAIN runs', runs'[i].live
               PROVE  \E job \in Working' : /\ job.run = i /\ job.batch = runs'[i].batch
                                            /\ job.stage \in Running
    BY DEF LiveIsWorkedOn
  <2>1. /\ i \in DOMAIN runs /\ runs[i].live /\ runs'[i].batch = runs[i].batch
        /\ worker[w].stage \in Running => i # worker[w].run
    OBVIOUS
  <2>2. PICK job \in Working : job.run = i /\ job.batch = runs[i].batch /\ job.stage \in Running
    BY <2>1 DEF AcceptInv, LiveIsWorkedOn
  <2>3. job # worker[w]
    BY <2>1, <2>2
  <2>4. job \in Working'
    BY <1>4, <2>3
  <2> QED
    BY <2>1, <2>2, <2>4
<1>11. \A g \in Files : ended[g].count <= ended'[g].count
  <2> SUFFICES ASSUME NEW g \in Files PROVE ended[g].count <= ended'[g].count
    OBVIOUS
  <2>1. ended[g].count \in Nat
    BY <1>3
  <2>2. ended'[g].count = ended[g].count \/ ended'[g].count = ended[g].count + 1
    BY <1>3
  <2> QED
    BY <2>1, <2>2
<1> QED
  BY <1>5, <1>6, <1>7, <1>8, <1>9, <1>10, <1>11, PoolStep

(* A job whose attempt was over goes on, or ends and forgets its batch.     *)
LEMMA JobWasOver ==
    ASSUME AcceptInv, NEW w \in Workers, worker[w].stage \in Done,
           NEW next \in Job \cup {Free}, next.stage \in Done, next # Free => JobFits(next),
           worker' = [worker EXCEPT ![w] = next],
           UNCHANGED <<queue, ended, req, answered>>,
           inflight' \in [Files -> Nat],
           \A f \in Files : inflight'[f] \in {inflight[f], NoBatch},
           batches' \in Seq(BatchRow), DOMAIN batches' = DOMAIN batches,
           \A b \in DOMAIN batches :
             /\ batches'[b].file = batches[b].file
             /\ \/ batches'[b].status = batches[b].status
                \/ batches'[b].status \in {"failed", "processed"},
           runs' \in Seq([batch : Nat, live : BOOLEAN]), DOMAIN runs' = DOMAIN runs,
           \A i \in DOMAIN runs : runs'[i].batch = runs[i].batch
                                  /\ (runs'[i].live => runs[i].live)
    PROVE  AcceptInv'
<1>1. worker \in [Workers -> Job \cup {Free}]
  BY DEF AcceptInv, AcceptShape
<1>2. Working \subseteq Working'
  BY <1>1 DEF Working
<1>3. \A f \in Files, k \in Nat : Tried(f, k) => Tried(f, k)'
  BY <1>2, TriedLasts DEF Continues
<1>4. AcceptShape'
  BY <1>1 DEF AcceptInv, AcceptShape
<1>5. PoolFits'
  <2>1. /\ \A job : JobFits(job) => JobFits(job)'
        /\ \A b, f : OfFile(b, f) => OfFile(b, f)'
    BY BatchesGrow
  <2>2. worker'[w] = next /\ \A v \in Workers : v # w => worker'[v] = worker[v]
    BY <1>1
  <2> QED
    BY <2>1, <2>2 DEF AcceptInv, PoolFits
<1>6. \A b \in DOMAIN batches : Unfinished(b)' => Unfinished(b)
  BY DEF Unfinished
<1>7. UnfinishedIsWorkedOn'
  <2> SUFFICES ASSUME NEW f \in Files, NEW b, b = inflight'[f], Unfinished(b)'
               PROVE  WorkedOn(b)'
    BY DEF UnfinishedIsWorkedOn, Unfinished, WorkedOn
  <2>1. b = inflight[f] /\ b \in DOMAIN batches
    BY DEF Unfinished, NoBatch, AcceptInv, PoolFits, OfFile
  <2>2. WorkedOn(b)
    BY <1>6, <2>1 DEF AcceptInv, UnfinishedIsWorkedOn
  <2> QED
    BY <1>2, <2>2 DEF WorkedOn
<1>8. LiveIsWorkedOn'
  BY <1>2 DEF AcceptInv, LiveIsWorkedOn
<1>9. \A f \in Files : ended[f].count \in Nat
  BY DEF AcceptInv, AcceptShape, Attempts
<1> QED
  BY <1>3, <1>4, <1>5, <1>6, <1>7, <1>8, <1>9, PoolStep

(* Another row for one batch.                                               *)
LEMMA RowChanges ==
    ASSUME AcceptInv, NEW b \in DOMAIN batches, NEW row \in BatchRow, row.file = batches[b].file
    PROVE  LET all == [batches EXCEPT ![b] = row]
           IN  /\ all \in Seq(BatchRow) /\ DOMAIN all = DOMAIN batches
               /\ \A c \in DOMAIN batches :
                    /\ all[c].file = batches[c].file
                    /\ all[c].status = IF c = b THEN row.status ELSE batches[c].status
<1>1. PICK n \in Nat : n = Len(batches) /\ DOMAIN batches = 1..n /\ batches \in [1..n -> BatchRow]
  BY LenProperties DEF AcceptInv, AcceptShape
<1>2. PICK all : all = [batches EXCEPT ![b] = row]
  OBVIOUS
<1>3. /\ all \in [1..n -> BatchRow] /\ DOMAIN all = 1..n
      /\ \A c \in 1..n : all[c] = IF c = b THEN row ELSE batches[c]
  BY <1>1, <1>2
<1>4. all \in Seq(BatchRow)
  BY <1>3, LenProperties
<1>5. \A c \in DOMAIN batches :
        /\ all[c].file = batches[c].file
        /\ all[c].status = IF c = b THEN row.status ELSE batches[c].status
  BY <1>1, <1>3
<1> QED
  BY <1>1, <1>2, <1>3, <1>4, <1>5

(* What is known of a job that a thread works on.                           *)
LEMMA JobAtWork ==
    ASSUME AcceptInv, NEW w \in Workers, worker[w].stage # "free"
    PROVE  /\ worker[w] \in Job /\ JobFits(worker[w]) /\ worker[w] # Free
           /\ worker \in [Workers -> Job \cup {Free}]
           /\ worker[w].batch \in DOMAIN batches /\ batches[worker[w].batch] \in BatchRow
           /\ runs \in Seq([batch : Nat, live : BOOLEAN]) /\ batches \in Seq(BatchRow)
           /\ inflight \in [Files -> Nat]
<1>1. worker[w] \in Job /\ JobFits(worker[w]) /\ worker[w] # Free
  BY DEF AcceptInv, AcceptShape, PoolFits, Free
<1> QED
  BY <1>1, FileOfBatch DEF AcceptInv, AcceptShape, JobFits

(* It moves to another stage.                                               *)
LEMMA JobMoves ==
    ASSUME AcceptInv, NEW w \in Workers, worker[w].stage # "free",
           NEW stage \in Stages \ {"taken", "ingest"}, Move(w, stage)
    PROVE  \E next \in Job : /\ worker' = [worker EXCEPT ![w] = next] /\ next.stage = stage
                             /\ Continues(worker[w], next) /\ JobFits(next)
                             /\ next # Free
                             /\ next.run = worker[w].run /\ next.batch = worker[w].batch
<1>1. PICK next : next = [worker[w] EXCEPT !.stage = stage]
  OBVIOUS
<1>2. /\ next \in Job /\ next.stage = stage /\ next.kind = worker[w].kind
      /\ next.batch = worker[w].batch /\ next.run = worker[w].run
  BY <1>1, JobAtWork DEF Job
<1>3. worker' = [worker EXCEPT ![w] = next]
  BY <1>1, JobAtWork DEF Move
<1>4. Continues(worker[w], next) /\ JobFits(next) /\ next # Free
  BY <1>2, JobAtWork DEF Continues, JobFits, Free, Stages
<1> QED
  BY <1>2, <1>3, <1>4

(* Saving the batch of a job as failed or processed.                        *)
LEMMA BatchIsSaved ==
    ASSUME AcceptInv, NEW w \in Workers, worker[w].stage # "free",
           NEW b, b = worker[w].batch, NEW status \in {"failed", "processed"},
           batches' = [batches EXCEPT ![JobBatch(w)].status = status]
    PROVE  /\ batches' \in Seq(BatchRow) /\ DOMAIN batches' = DOMAIN batches
           /\ ~Unfinished(b)'
           /\ \A c \in DOMAIN batches :
                /\ batches'[c].file = batches[c].file
                /\ \/ batches'[c].status = batches[c].status
                   \/ batches'[c].status \in {"failed", "processed"}
<1>1. b \in DOMAIN batches /\ batches[b] \in BatchRow
  BY JobAtWork
<1>2. PICK row : row = [batches[b] EXCEPT !.status = status]
  OBVIOUS
<1>3. row \in BatchRow /\ row.file = batches[b].file /\ row.status = status
  BY <1>1, <1>2 DEF BatchRow
<1>4. batches' = [batches EXCEPT ![b] = row]
  BY <1>1, <1>2 DEF JobBatch, AcceptInv, AcceptShape
<1>5. /\ batches' \in Seq(BatchRow) /\ DOMAIN batches' = DOMAIN batches
      /\ \A c \in DOMAIN batches :
           /\ batches'[c].file = batches[c].file
           /\ batches'[c].status = IF c = b THEN row.status ELSE batches[c].status
  <2>1. PICK all : all = [batches EXCEPT ![b] = row]
    OBVIOUS
  <2>2. /\ all \in Seq(BatchRow) /\ DOMAIN all = DOMAIN batches
        /\ \A c \in DOMAIN batches :
             /\ all[c].file = batches[c].file
             /\ all[c].status = IF c = b THEN row.status ELSE batches[c].status
    BY <1>1, <1>3, <2>1, RowChanges
  <2> QED
    BY <1>4, <2>1, <2>2
<1>6. ~Unfinished(b)'
  BY <1>1, <1>3, <1>5 DEF Unfinished
<1> QED
  BY <1>3, <1>5, <1>6

LEMMA IngestFailsStep ==
    ASSUME AcceptInv, NEW w \in Workers, IngestFails(w)
    PROVE  AcceptInv'
<1>1. /\ worker[w].stage = "ingest" /\ UNCHANGED <<queue, inflight, req, answered>>
      /\ Over(w, FALSE) /\ Move(w, "end") /\ runs' = FirstEnded(JobBatch(w))
  BY DEF IngestFails, InStage, counting
<1>2. PICK next \in Job : /\ worker' = [worker EXCEPT ![w] = next] /\ next.stage = "end"
                          /\ JobFits(next)
  BY <1>1, JobMoves DEF Stages
<1>3. PICK b \in DOMAIN batches : b = worker[w].batch
  BY <1>1, JobAtWork
<1>4. \/ batches' = [batches EXCEPT ![b].status = "failed", ![b].staged = TRUE]
      \/ batches' = [batches EXCEPT ![b].status = "failed", ![b].staged = FALSE]
  <2>1. \E some \in {TRUE, FALSE} :
          batches' = [batches EXCEPT ![b].status = "failed", ![b].staged = some]
    BY <1>3 DEF IngestFails, JobBatch
  <2> QED
    BY <2>1
<1>5. /\ batches' \in Seq(BatchRow) /\ DOMAIN batches' = DOMAIN batches
      /\ \A c \in DOMAIN batches :
           /\ batches'[c].file = batches[c].file
           /\ batches'[c].status = IF c = b THEN "failed" ELSE batches[c].status
  <2>1. CASE batches' = [batches EXCEPT ![b].status = "failed", ![b].staged = TRUE]
    BY <2>1, BatchChanges
  <2>2. CASE batches' = [batches EXCEPT ![b].status = "failed", ![b].staged = FALSE]
    BY <2>2, BatchChanges
  <2> QED
    BY <1>4, <2>1, <2>2
<1>6. ~Unfinished(b)'
  BY <1>3, <1>5 DEF Unfinished
<1>7. worker[w].run = 0 /\ \A i \in DOMAIN runs : i # 0
  BY <1>1, JobAtWork, LenProperties DEF JobFits
<1>8. /\ runs' \in Seq([batch : Nat, live : BOOLEAN]) /\ DOMAIN runs' = DOMAIN runs
      /\ \A i \in DOMAIN runs : runs'[i].batch = runs[i].batch /\ (runs'[i].live => runs[i].live)
  BY <1>1, EndingTheFirst
<1>9. /\ worker[w].stage \notin Done \cup {"taken"} /\ next.stage \in Done /\ FALSE \in BOOLEAN
      /\ inflight' \in [Files -> Nat] /\ \A f \in Files : inflight'[f] = inflight[f]
  BY <1>1, <1>2, JobAtWork DEF Done
<1>10. \A i \in DOMAIN runs : runs'[i].live => i # worker[w].run
  BY <1>7, <1>8
<1> QED
  BY <1>1, <1>2, <1>3, <1>5, <1>6, <1>8, <1>9, <1>10, JobIsOver

(* A run has ended: of a staged run that is the end of the attempt, unless  *)
(* its batch is still to be saved.                                          *)
LEMMA RunEndsStep ==
    ASSUME AcceptInv, NEW w \in Workers, Transform(w) \/ AllRejected(w) \/ TransformRaises(w)
    PROVE  AcceptInv'
<1>1. /\ worker[w].stage \in {"transform", "succeeded"}
      /\ UNCHANGED <<batches, queue, inflight, req, answered>>
      /\ RunIsOver(w)
      /\ \/ Over(w, FALSE) /\ Move(w, "end") /\ worker[w].kind = "staged"
         \/ UNCHANGED ended /\ \E stage \in {"succeeded", "rejected", "failing"} : Move(w, stage)
  BY DEF Transform, AllRejected, TransformRaises, InStage, counting
<1>2. /\ runs' \in Seq([batch : Nat, live : BOOLEAN]) /\ DOMAIN runs' = DOMAIN runs
      /\ \A i \in DOMAIN runs : /\ runs'[i].batch = runs[i].batch
                                /\ runs'[i].live => runs[i].live /\ i # worker[w].run
  <2>1. PICK r : r = worker[w].run
    OBVIOUS
  <2>2. runs' = [runs EXCEPT ![r].live = FALSE]
    BY <1>1, <2>1 DEF RunIsOver
  <2>3. /\ runs' \in Seq([batch : Nat, live : BOOLEAN]) /\ DOMAIN runs' = DOMAIN runs
        /\ \A i \in DOMAIN runs : /\ runs'[i].batch = runs[i].batch
                                  /\ runs'[i].live => runs[i].live /\ i # r
    BY <1>1, <2>2, JobAtWork, EndingARun
  <2> QED
    BY <2>1, <2>3
<1>3. batches' \in Seq(BatchRow) /\ DOMAIN batches' = DOMAIN batches /\ inflight' \in [Files -> Nat]
      /\ \A f \in Files : inflight'[f] = inflight[f]
  BY <1>1, JobAtWork
<1>4. CASE Over(w, FALSE) /\ Move(w, "end") /\ worker[w].kind = "staged"
  <2>1. PICK next \in Job : /\ worker' = [worker EXCEPT ![w] = next] /\ next.stage = "end"
                            /\ JobFits(next)
    BY <1>1, <1>4, JobMoves DEF Stages
  <2>2. /\ worker[w].stage \notin Done \cup {"taken"} /\ next.stage \in Done
    BY <1>1, <2>1 DEF Done
  <2>3. PICK old : old = worker[w].batch
    OBVIOUS
  <2>4. PICK ok \in BOOLEAN : Over(w, ok)
    BY <1>4
  <2>5. \A c \in DOMAIN batches : batches'[c] = batches[c]
    BY <1>1
  <2>6. UNCHANGED <<queue, req, answered>>
    BY <1>1
  <2> QED
    BY <1>2, <1>3, <1>4, <2>1, <2>2, <2>3, <2>4, <2>5, <2>6, JobIsOver
<1>5. CASE UNCHANGED ended /\ \E stage \in {"succeeded", "rejected", "failing"} : Move(w, stage)
  <2>1. PICK stage \in {"succeeded", "rejected", "failing"} : Move(w, stage)
    BY <1>5
  <2>2. PICK next \in Job : /\ worker' = [worker EXCEPT ![w] = next] /\ next.stage = stage
                            /\ Continues(worker[w], next) /\ JobFits(next)
                            /\ next.run = worker[w].run
    BY <1>1, <2>1, JobMoves DEF Stages
  <2>3. worker[w].stage \in Running \cup {"succeeded"} /\ next.stage \notin Done
    BY <1>1, <2>2 DEF Running, Done
  <2>4. \A i \in DOMAIN runs' : runs'[i].live =>
            /\ i \in DOMAIN runs /\ runs[i].live /\ runs'[i].batch = runs[i].batch
            /\ next.run # i
    BY <1>2, <2>2
  <2>5. \A c \in DOMAIN batches : batches'[c] = batches[c]
    BY <1>1
  <2>6. UNCHANGED <<queue, inflight, ended, req, answered>>
    BY <1>1, <1>5
  <2> QED
    BY <1>2, <1>3, <2>2, <2>3, <2>4, <2>5, <2>6, JobGoesOn
<1> QED
  BY <1>1, <1>4, <1>5

(* The batch is saved as processed or failed, and the attempt is over.      *)
LEMMA BatchIsDecidedStep ==
    ASSUME AcceptInv, NEW w \in Workers, SaveProcessed(w) \/ FailBatch(w)
    PROVE  AcceptInv'
<1>1. /\ worker[w].stage \in {"succeeded", "failing", "rejected"}
      /\ UNCHANGED <<queue, inflight, req, answered>>
      /\ runs' = runs \/ runs' = FirstEnded(JobBatch(w))
  BY DEF SaveProcessed, FailBatch, InStage, counting
<1>2. PICK stage \in {"qa", "end"}, status \in {"failed", "processed"}, ok \in BOOLEAN :
        /\ Move(w, stage) /\ Over(w, ok)
        /\ batches' = [batches EXCEPT ![JobBatch(w)].status = status]
  <2>1. CASE SaveProcessed(w)
    <3>1. batches[JobBatch(w)].staged \in BOOLEAN
      BY <1>1, JobAtWork DEF JobBatch, BatchRow
    <3> QED
      BY <2>1, <3>1 DEF SaveProcessed
  <2>2. CASE FailBatch(w)
    BY <2>2 DEF FailBatch
  <2> QED
    BY <2>1, <2>2
<1>3. PICK next \in Job : /\ worker' = [worker EXCEPT ![w] = next] /\ next.stage = stage
                          /\ JobFits(next)
  BY <1>1, <1>2, JobMoves DEF Stages
<1>4. PICK b : b = worker[w].batch
  OBVIOUS
<1>5. /\ batches' \in Seq(BatchRow) /\ DOMAIN batches' = DOMAIN batches
      /\ ~Unfinished(b)'
      /\ \A c \in DOMAIN batches :
           /\ batches'[c].file = batches[c].file
           /\ \/ batches'[c].status = batches[c].status
              \/ batches'[c].status \in {"failed", "processed"}
  BY <1>1, <1>2, <1>4, BatchIsSaved
<1>6. /\ runs' \in Seq([batch : Nat, live : BOOLEAN]) /\ DOMAIN runs' = DOMAIN runs
      /\ \A i \in DOMAIN runs : runs'[i].batch = runs[i].batch /\ (runs'[i].live => runs[i].live)
  BY <1>1, EndingTheFirst, JobAtWork
<1>7. /\ worker[w].stage \notin Done \cup {"taken"} /\ worker[w].stage \notin Running
      /\ next.stage \in Done
      /\ inflight' \in [Files -> Nat] /\ \A f \in Files : inflight'[f] = inflight[f]
  BY <1>1, <1>3, JobAtWork DEF Done, Running
<1> QED
  BY <1>1, <1>2, <1>3, <1>4, <1>5, <1>6, <1>7, JobIsOver

LEMMA CheckStep ==
    ASSUME AcceptInv, NEW w \in Workers, CheckRun(w)
    PROVE  AcceptInv'
<1>1. /\ worker[w].stage = "qa" /\ Move(w, "end")
      /\ UNCHANGED <<queue, inflight, ended, req, answered>>
  BY DEF CheckRun, InStage, counting
<1>2. PICK next \in Job : /\ worker' = [worker EXCEPT ![w] = next] /\ next.stage = "end"
                          /\ JobFits(next)
  BY <1>1, JobMoves DEF Stages
<1>3. /\ batches' \in Seq(BatchRow) /\ DOMAIN batches' = DOMAIN batches
      /\ \A c \in DOMAIN batches :
           /\ batches'[c].file = batches[c].file
           /\ \/ batches'[c].status = batches[c].status
              \/ batches'[c].status \in {"failed", "processed"}
  <2>1. CASE UNCHANGED batches
    BY <1>1, <2>1, JobAtWork
  <2>2. CASE batches' = [batches EXCEPT ![JobBatch(w)].status = "failed"]
    BY <1>1, <2>2, BatchIsSaved
  <2> QED
    BY <2>1, <2>2 DEF CheckRun
<1>4. /\ runs' \in Seq([batch : Nat, live : BOOLEAN]) /\ DOMAIN runs' = DOMAIN runs
      /\ \A i \in DOMAIN runs : runs'[i].batch = runs[i].batch /\ (runs'[i].live => runs[i].live)
  <2>1. runs' = runs \/ runs' = FirstEnded(JobBatch(w))
    BY DEF CheckRun
  <2> QED
    BY <1>1, <2>1, EndingTheFirst, JobAtWork
<1>5. /\ worker[w].stage \in Done /\ next.stage \in Done
      /\ inflight' \in [Files -> Nat] /\ \A f \in Files : inflight'[f] = inflight[f]
  BY <1>1, <1>2, JobAtWork DEF Done
<1> QED
  BY <1>1, <1>2, <1>3, <1>4, <1>5, JobWasOver

(* The finally clauses end what is left of the job and forget its batch.    *)
LEMMA EndStep ==
    ASSUME AcceptInv, NEW w \in Workers, EndJob(w)
    PROVE  AcceptInv'
<1>1. /\ worker[w].stage \in {"end", "rejected"} /\ worker' = [worker EXCEPT ![w] = Free]
      /\ UNCHANGED <<queue, req, answered>>
  BY DEF EndJob, InStage, counting
<1>2. PICK b \in DOMAIN batches : b = worker[w].batch
  BY <1>1, JobAtWork
<1>3. /\ runs' \in Seq([batch : Nat, live : BOOLEAN]) /\ DOMAIN runs' = DOMAIN runs
      /\ \A i \in DOMAIN runs : runs'[i].batch = runs[i].batch /\ (runs'[i].live => runs[i].live)
  <2>1. PICK r : r = Newest(LiveRuns(b))
    OBVIOUS
  <2>2. runs' = runs \/ runs' = [runs EXCEPT ![r].live = FALSE]
    BY <1>2, <2>1 DEF EndJob, NewestEnded, JobBatch
  <2>3. CASE runs' = runs
    BY <1>1, <2>3, JobAtWork
  <2>4. CASE runs' = [runs EXCEPT ![r].live = FALSE]
    BY <1>1, <2>4, EndingARun, JobAtWork
  <2> QED
    BY <2>2, <2>3, <2>4
<1>4. /\ inflight' \in [Files -> Nat]
      /\ \A f \in Files : /\ inflight'[f] \in {inflight[f], NoBatch}
                          /\ inflight'[f] = b => worker[w].kind = "staged"
  <2>1. CASE worker[w].kind = "staged"
    BY <1>1, <2>1, JobAtWork DEF EndJob
  <2>2. CASE worker[w].kind # "staged"
    <3>1. inflight' = [f \in Files |-> IF inflight[f] = b THEN NoBatch ELSE inflight[f]]
      BY <1>2, <2>2 DEF EndJob, JobBatch
    <3>2. b # NoBatch
      BY <1>2, FileOfBatch DEF NoBatch
    <3> QED
      BY <1>1, <3>1, <3>2, JobAtWork DEF NoBatch
  <2> QED
    BY <2>1, <2>2
<1>5. /\ batches' \in Seq(BatchRow) /\ DOMAIN batches' = DOMAIN batches
      /\ \A c \in DOMAIN batches :
           /\ batches'[c].file = batches[c].file
           /\ \/ batches'[c].status = batches[c].status
              \/ batches'[c].status \in {"failed", "processed"}
  <2>1. CASE UNCHANGED batches
    BY <1>1, <2>1, JobAtWork
  <2>2. CASE /\ worker[w].kind # "staged"
             /\ batches' = [batches EXCEPT ![b].status = IF @ = "received" THEN "failed" ELSE @]
    <3>1. PICK row : row = [batches[b] EXCEPT !.status = IF @ = "received" THEN "failed" ELSE @]
      OBVIOUS
    <3>2. /\ row \in BatchRow /\ row.file = batches[b].file
          /\ row.status = batches[b].status \/ row.status = "failed"
      BY <1>2, <3>1, FileOfBatch DEF BatchRow
    <3>3. batches' = [batches EXCEPT ![b] = row]
      BY <1>1, <1>2, <2>2, <3>1, JobAtWork
    <3> QED
      BY <1>2, <3>2, <3>3, RowChanges
  <2> QED
    BY <1>2, <2>1, <2>2 DEF EndJob, JobBatch
<1>6. Free.stage \in Done /\ Free \in Job \cup {Free}
  BY DEF Free, Done
<1>7. CASE worker[w].stage = "end"
  <2>1. UNCHANGED ended
    BY <1>7 DEF EndJob, InStage
  <2> QED
    BY <1>1, <1>3, <1>4, <1>5, <1>6, <1>7, <2>1, JobWasOver DEF Done
<1>8. CASE worker[w].stage = "rejected"
  <2>1. Over(w, FALSE)
    BY <1>8 DEF EndJob, InStage
  <2>2. worker[w].stage \notin Done \cup {"taken"} /\ worker[w].stage \notin Running
    BY <1>8 DEF Done, Running
  <2> QED
    BY <1>1, <1>2, <1>3, <1>4, <1>5, <1>6, <2>1, <2>2, JobIsOver
<1> QED
  BY <1>1, <1>7, <1>8

-----------------------------------------------------------------------------
LEMMA AcceptanceStarts == AcceptInit => AcceptInv
<1> SUFFICES ASSUME AcceptInit PROVE AcceptInv
  OBVIOUS
<1>1. AcceptShape
  BY EmptySeq DEF AcceptInit, AcceptShape, Attempts, NoBatch
<1>2. /\ DOMAIN batches = {} /\ DOMAIN runs = {} /\ DOMAIN queue = {} /\ DOMAIN answered = {}
      /\ req = NoReq /\ \A w \in Workers : worker[w] = Free
      /\ \A f \in Files : inflight[f] = NoBatch
  BY DEF AcceptInit
<1> QED
  BY <1>1, <1>2
  DEF AcceptInv, PoolFits, UnfinishedIsWorkedOn, Unfinished, LiveIsWorkedOn, RequestFits,
      AnswersAreTried

LEMMA AcceptanceGoesOn == AcceptInv /\ [AcceptNext]_acceptVars => AcceptInv'
<1> SUFFICES ASSUME AcceptInv, [AcceptNext]_acceptVars PROVE AcceptInv'
  OBVIOUS
<1>1. CASE \E p \in Parts : AcceptParts(p)
  BY <1>1, AcceptStart
<1>2. CASE NextFile \/ FindProcessed \/ ReadInflight \/ FindRecoverable \/ Register
  BY <1>2, LookStep
<1>3. CASE ReadFound
  BY <1>3, ReadFoundStep
<1>4. CASE ArchiveSource \/ ArchiveFails \/ ArchiveUnreadable
  BY <1>4, ArchiveStep
<1>5. CASE CreateBatch
  BY <1>5, CreateStep
<1>6. CASE Submit \/ StartArchive
  BY <1>6, SubmitStep
<1>7. CASE StartStaged
  BY <1>7, StagedStep
<1>8. ASSUME NEW w \in Workers,
             \/ TakeJob(w) \/ BeginJob(w) \/ Ingest(w) \/ IngestFails(w)
             \/ Transform(w) \/ SaveProcessed(w) \/ AllRejected(w) \/ TransformRaises(w)
             \/ FailBatch(w) \/ CheckRun(w) \/ EndJob(w)
      PROVE  AcceptInv'
  <2>1. CASE TakeJob(w)
    BY <2>1, TakeStep
  <2>2. CASE BeginJob(w)
    BY <2>2, BeginStep
  <2>3. CASE Ingest(w)
    BY <2>3, IngestStep
  <2>4. CASE IngestFails(w)
    BY <2>4, IngestFailsStep
  <2>5. CASE Transform(w) \/ AllRejected(w) \/ TransformRaises(w)
    BY <2>5, RunEndsStep
  <2>6. CASE SaveProcessed(w) \/ FailBatch(w)
    BY <2>6, BatchIsDecidedStep
  <2>7. CASE CheckRun(w)
    BY <2>7, CheckStep
  <2>8. CASE EndJob(w)
    BY <2>8, EndStep
  <2> QED
    BY <1>8, <2>1, <2>2, <2>3, <2>4, <2>5, <2>6, <2>7, <2>8
<1>9. CASE UNCHANGED acceptVars
  BY <1>9 DEF acceptVars, store, pool, counting, AcceptInv, AcceptShape, PoolFits, OfFile, JobFits,
     UnfinishedIsWorkedOn, Unfinished, WorkedOn, LiveIsWorkedOn, RequestFits, AnswersAreTried,
     Tried, Working
<1> QED
  BY <1>1, <1>2, <1>3, <1>4, <1>5, <1>6, <1>7, <1>8, <1>9 DEF AcceptNext

(* Whatever the pool does between the transactions of accept_parts, an      *)
(* attempt on a file that was answered 202 ends after its request arrived:  *)
(* the request never joins one whose batch is saved as processed or failed, *)
(* or whose job is forgotten.                                               *)
THEOREM UploadsAreTried == AcceptSpec => []EveryUploadIsTried
<1>1. AcceptInv => EveryUploadIsTried
  <2> SUFFICES ASSUME AcceptInv, Quiet, NEW i \in DOMAIN answered, answered[i].code = 202
               PROVE  ended[answered[i].file].count > answered[i].seen
    BY DEF EveryUploadIsTried
  <2>1. Working = {}
    BY DEF Quiet, Working, Free, Done
  <2>2. Tried(answered[i].file, answered[i].seen)
    BY DEF AcceptInv, AnswersAreTried
  <2>3. answered[i].seen <= ended[answered[i].file].count
        /\ ended[answered[i].file].count # answered[i].seen
    BY <2>1, <2>2 DEF Tried
  <2>4. answered[i] \in Reply /\ ended \in Attempts
    BY ElementOfSeq, LenProperties DEF AcceptInv, AcceptShape
  <2>5. answered[i].seen \in Nat /\ ended[answered[i].file].count \in Nat
    BY <2>4 DEF Reply, Attempts
  <2> QED
    BY <2>3, <2>5
<1> QED
  BY <1>1, AcceptanceStarts, AcceptanceGoesOn, PTL DEF AcceptSpec

-----------------------------------------------------------------------------
(* The later file wins: one thread, and requests that name a file once. *)

Rising(files) == \A i, j \in DOMAIN files : i < j => files[i] < files[j]

(* A request goes through its files in their order: those answered come     *)
(* before the one that is asked about, and that before those to come.       *)
InOrder(q, replies) ==
    /\ \A i, j \in DOMAIN replies : i < j => replies[i].file < replies[j].file
    /\ q # NoReq =>
          /\ Rising(q.todo)
          /\ \A i \in DOMAIN replies, j \in DOMAIN q.todo : replies[i].file < q.todo[j]
          /\ q.pc # "next" =>
                /\ \A i \in DOMAIN replies : replies[i].file < q.file
                /\ \A j \in DOMAIN q.todo : q.file < q.todo[j]

(* The batch is the last one the pool is to work on, or the pool has nothing *)
(* left and the grain has the row of the batch, if its file restated it: the *)
(* rows are there before the batch is saved.                                *)
Undecided == {"taken", "ingest", "transform", "failing", "rejected"}
IsLast(jobs, job, restated, kept, landed, b) ==
    \/ jobs # <<>> /\ jobs[Len(jobs)].batch = b
    \/ jobs = <<>> /\ job.stage \in Undecided /\ job.batch = b
    \/ jobs = <<>> /\ job.stage = "succeeded" /\ job.batch = b /\ (kept => landed = b)
    \/ jobs = <<>> /\ job.stage \in Done /\ (restated => landed = b)

LastAnswerIsLast(w) ==
    \A i \in DOMAIN answered :
        i = Len(answered) /\ answered[i].mine =>
            LET a == answered[i]
            IN  /\ a.batch \in DOMAIN batches /\ batches[a.batch].file = a.file
                /\ IsLast(queue, worker[w], ended[a.file].ok, batches[a.batch].staged, fact, a.batch)

(* Files that are named once are taken in the order of their names.         *)
LEMMA PreparedRises ==
    ASSUME NEW parts \in Seq(Files), IsInjective(parts)
    PROVE  Rising(Prepared(parts))
<1>1. PICK n \in Nat : n = Len(parts) /\ DOMAIN parts = 1..n /\ parts \in [1..n -> Files]
  BY LenProperties
<1>2. Files \subseteq Nat
  BY AcceptanceConstants
<1>3. \A k \in 1..n : parts[k] \in Nat
  BY <1>1, <1>2
<1>4. parts \in Seq(Nat)
  <2>1. parts \in [1..n -> Nat]
    BY <1>1, <1>3
  <2> QED
    BY <2>1, LenProperties
<1> DEFINE At(i) == CHOOSE k \in DOMAIN parts : Place(parts, k) = i
<1>5. \A i \in 1..n : At(i) \in 1..n /\ Place(parts, At(i)) = i
  BY <1>1, <1>4, EveryPlaceIsTaken
<1>6. DOMAIN Prepared(parts) = 1..n /\ \A i \in 1..n : Prepared(parts)[i] = parts[At(i)]
  BY <1>1 DEF Prepared
<1> HIDE DEF At
<1>7. ASSUME NEW k \in 1..n, NEW m \in 1..n, parts[m] < parts[k]
      PROVE  Place(parts, m) <= Place(parts, k)
  <2> DEFINE Upto(c) == {j \in DOMAIN parts : parts[j] < parts[c] \/ (parts[j] = parts[c] /\ j <= c)}
  <2>1. Upto(m) \subseteq Upto(k)
    BY <1>1, <1>3, <1>7
  <2>2. IsFiniteSet(Upto(k))
    <3>1. IsFiniteSet(1..n)
      BY FS_Interval
    <3>2. Upto(k) \subseteq 1..n
      BY <1>1
    <3> HIDE DEF Upto
    <3> QED
      BY <3>1, <3>2, FS_Subset
  <2>3. Cardinality(Upto(m)) <= Cardinality(Upto(k))
    <3> HIDE DEF Upto
    <3> QED
      BY <2>1, <2>2, FS_Subset
  <2> QED
    BY <2>3 DEF Place
<1> SUFFICES ASSUME NEW i \in 1..n, NEW j \in 1..n, i < j
             PROVE  parts[At(i)] < parts[At(j)]
  BY <1>6 DEF Rising
<1>8. ~(parts[At(j)] < parts[At(i)])
  BY <1>1, <1>5, <1>7
<1>9. parts[At(j)] # parts[At(i)]
  <2>1. At(i) # At(j)
    BY <1>5
  <2> QED
    BY <1>1, <1>5, <2>1 DEF IsInjective
<1> QED
  BY <1>3, <1>5, <1>8, <1>9

(* The same file with the same files to come.                               *)
LEMMA OrderStays ==
    ASSUME InOrder(req, answered), UNCHANGED answered, req # NoReq,
           req'.todo = req.todo, req'.file = req.file, req.pc # "next"
    PROVE  InOrder(req, answered)'
BY DEF InOrder, Rising

(* The file that was asked about is answered.                               *)
LEMMA OrderOfAnswer ==
    ASSUME AcceptInv, InOrder(req, answered), req.pc \notin {"idle", "next"},
           NEW r, r.file = req.file,
           answered' = Append(answered, r), req' = [req EXCEPT !.pc = "next"]
    PROVE  InOrder(req, answered)'
<1>1. req \in Request /\ req # NoReq /\ answered \in Seq(Reply)
  BY RequestIsOne
<1>2. PICK more, n :
        /\ n \in Nat /\ more = Append(answered, r) /\ n = Len(answered) /\ DOMAIN more = 1..n + 1
        /\ DOMAIN answered = 1..n /\ more[n + 1] = r /\ \A i \in 1..n : more[i] = answered[i]
  BY <1>1, AppendProperties, LenProperties
<1>3. PICK q : q = [req EXCEPT !.pc = "next"]
  OBVIOUS
<1>4. q.todo = req.todo /\ q.pc = "next"
  BY <1>1, <1>3 DEF Request
<1>5. /\ Rising(req.todo)
      /\ \A i, j \in 1..n : i < j => answered[i].file < answered[j].file
      /\ \A i \in 1..n, j \in DOMAIN req.todo : answered[i].file < req.todo[j]
      /\ \A i \in 1..n : answered[i].file < req.file
      /\ \A j \in DOMAIN req.todo : req.file < req.todo[j]
  BY <1>1, <1>2 DEF InOrder
<1>6. \A i \in 1..n + 1 : i \in 1..n \/ i = n + 1
  BY <1>2
<1>7. \A i, j \in 1..n + 1 : i < j => more[i].file < more[j].file
  <2>1. \A i, j \in 1..n + 1 : i < j => i \in 1..n /\ (j \in 1..n \/ j = n + 1)
    BY <1>2
  <2> QED
    BY <1>2, <1>5, <2>1
<1>8. \A i \in 1..n + 1, j \in DOMAIN req.todo : more[i].file < req.todo[j]
  BY <1>2, <1>5, <1>6
<1>9. InOrder(q, more)
  BY <1>2, <1>4, <1>5, <1>7, <1>8 DEF InOrder
<1> QED
  BY <1>2, <1>3, <1>9

(* Requests keep their order at every step.                                 *)
LEMMA OrderIsKept ==
    ASSUME AcceptInv, InOrder(req, answered), [AcceptNext]_acceptVars,
           \A p \in Parts : IsInjective(p.files)
    PROVE  InOrder(req, answered)'
<1>1. CASE \E p \in Parts : AcceptParts(p)
  <2>1. PICK p \in Parts : AcceptParts(p)
    BY <1>1
  <2>2. /\ req'.todo = Prepared(p.files) /\ req'.pc = "next" /\ answered' = <<>>
    BY <2>1 DEF AcceptParts
  <2>3. Rising(Prepared(p.files))
    BY PreparedRises, AcceptanceConstants
  <2> QED
    BY <2>2, <2>3 DEF InOrder, Rising
<1>2. CASE NextFile
  <2>1. req \in Request /\ req # NoReq /\ UNCHANGED answered
    BY <1>2, RequestIsOne DEF NextFile, IsAt, counting
  <2>2. CASE req.todo = <<>>
    BY <1>2, <2>1, <2>2 DEF NextFile, InOrder
  <2>3. CASE req.todo # <<>>
    <3>1. PICK todo, n :
            /\ todo = req.todo /\ n = Len(todo) /\ n \in Nat /\ DOMAIN todo = 1..n /\ n # 0
            /\ Head(todo) = todo[1] /\ Len(Tail(todo)) = n - 1 /\ DOMAIN Tail(todo) = 1..n - 1
            /\ \A j \in 1..n - 1 : Tail(todo)[j] = todo[j + 1]
      <4>1. req.todo \in Seq(Files)
        BY <2>1 DEF Request
      <4>2. Tail(req.todo) \in Seq(Files) /\ Len(Tail(req.todo)) = Len(req.todo) - 1
            /\ \A j \in 1..Len(Tail(req.todo)) : Tail(req.todo)[j] = req.todo[j + 1]
        BY <2>3, <4>1, HeadTailProperties
      <4> QED
        BY <2>3, <4>1, <4>2, LenProperties, EmptySeq
    <3>2. req'.todo = Tail(todo) /\ req'.file = todo[1]
      BY <1>2, <2>1, <2>3, <3>1 DEF NextFile, Request
    <3>3. /\ \A i, j \in 1..n : i < j => todo[i] < todo[j]
          /\ \A i, j \in DOMAIN answered : i < j => answered[i].file < answered[j].file
          /\ \A i \in DOMAIN answered, j \in 1..n : answered[i].file < todo[j]
      BY <2>1, <3>1 DEF InOrder, Rising
    <3>4. 1 \in 1..n /\ \A j \in 1..n - 1 : j + 1 \in 1..n /\ 1 < j + 1
      BY <3>1
    <3>5. \A i, j \in 1..n - 1 : i < j => Tail(todo)[i] < Tail(todo)[j]
      BY <3>1, <3>3, <3>4
    <3>6. \A j \in 1..n - 1 : todo[1] < Tail(todo)[j]
      BY <3>1, <3>3, <3>4
    <3>7. \A i \in DOMAIN answered, j \in 1..n - 1 : answered[i].file < Tail(todo)[j]
      BY <3>1, <3>3, <3>4
    <3> QED
      BY <2>1, <3>1, <3>2, <3>3, <3>4, <3>5, <3>6, <3>7 DEF InOrder, Rising
  <2> QED
    BY <2>2, <2>3
<1>3. CASE FindProcessed \/ ReadInflight \/ FindRecoverable \/ Register \/ CreateBatch
  <2>1. req.pc \notin {"idle", "next"} /\ UNCHANGED answered
    BY <1>3 DEF FindProcessed, ReadInflight, FindRecoverable, Register, CreateBatch, IsAt, counting
  <2>2. req \in Request /\ req # NoReq
    BY <2>1, RequestIsOne
  <2>3. req'.todo = req.todo /\ req'.file = req.file
    BY <1>3, <2>2
    DEF FindProcessed, ReadInflight, FindRecoverable, Register, CreateBatch, Goto, Request
  <2> QED
    BY <2>1, <2>2, <2>3, OrderStays
<1>4. CASE ReadFound \/ ArchiveSource
  <2>1. req.pc \in {"found", "archive"}
    BY <1>4 DEF ReadFound, ArchiveSource, IsAt
  <2>2. req \in Request /\ req # NoReq /\ req.pc \notin {"idle", "next"}
    BY <2>1, RequestIsOne
  <2>3. CASE \E r : r.file = req.file /\ answered' = Append(answered, r) /\ req' = [req EXCEPT !.pc = "next"]
    <3>1. PICK r : r.file = req.file /\ answered' = Append(answered, r) /\ req' = [req EXCEPT !.pc = "next"]
      BY <2>3
    <3> QED
      BY <2>2, <3>1, OrderOfAnswer
  <2>4. CASE UNCHANGED answered /\ req'.todo = req.todo /\ req'.file = req.file
    BY <2>2, <2>4, OrderStays
  <2>5. \A code, b, mine : Answer(code, b, mine) =>
          \E r : r.file = req.file /\ answered' = Append(answered, r) /\ req' = [req EXCEPT !.pc = "next"]
    BY DEF Answer, Goto
  <2> QED
    BY <1>4, <2>2, <2>3, <2>4, <2>5 DEF ReadFound, ArchiveSource, Goto, counting, Request
<1>5. CASE Submit \/ StartArchive \/ StartStaged
  <2>1. req.pc \in {"submit", "start"}
    BY <1>5 DEF Submit, StartArchive, StartStaged, IsAt
  <2>2. \E b, mine : Answer(202, b, mine)
    BY <1>5 DEF Submit, StartArchive, StartStaged
  <2> QED
    BY <2>1, <2>2, OrderOfAnswer DEF Answer, Goto
<1>6. CASE ArchiveFails \/ ArchiveUnreadable
  BY <1>6 DEF ArchiveFails, ArchiveUnreadable, InOrder
<1>7. CASE UNCHANGED <<req, answered>>
  BY <1>7 DEF InOrder, Rising
<1> QED
  BY <1>1, <1>2, <1>3, <1>4, <1>5, <1>6, <1>7
  DEF AcceptNext, acceptVars, counting, TakeJob, BeginJob, Ingest, IngestFails, Transform,
      SaveProcessed, AllRejected, TransformRaises, FailBatch, CheckRun, EndJob

(* What the pool does leaves the last batch the last, until it is over.     *)
LEMMA LastGoesOn ==
    ASSUME AcceptInv, NEW w \in Workers, NEW b \in DOMAIN batches, NEW f, f = batches[b].file,
           IsLast(queue, worker[w], ended[f].ok, batches[b].staged, fact, b),
           \/ TakeJob(w) \/ BeginJob(w) \/ Ingest(w) \/ IngestFails(w)
           \/ Transform(w) \/ SaveProcessed(w) \/ AllRejected(w) \/ TransformRaises(w)
           \/ FailBatch(w) \/ CheckRun(w) \/ EndJob(w)
    PROVE  /\ b \in DOMAIN batches' /\ batches'[b].file = f
           /\ IsLast(queue', worker'[w], ended'[f].ok, batches'[b].staged, fact', b)
<1>1. b \in DOMAIN batches' /\ batches'[b].file = f
  <2>1. DOMAIN batches = 1..Len(batches) /\ batches[b] \in BatchRow
    BY FileOfBatch, LenProperties DEF AcceptInv, AcceptShape
  <2>2. PICK row : row = batches[b] /\ row \in BatchRow /\ row.file = f
    BY <2>1
  <2>3. CASE UNCHANGED batches
    BY <2>3
  <2>4. CASE \E c, status, some :
                batches' = [batches EXCEPT ![c].status = status, ![c].staged = some]
    BY <2>2, <2>4 DEF BatchRow
  <2>5. CASE \E c, status : batches' = [batches EXCEPT ![c].status = status]
    BY <2>2, <2>5 DEF BatchRow
  <2>6. BeginJob(w) \/ Ingest(w) \/ IngestFails(w) =>
          \/ UNCHANGED batches
          \/ \E c, status, some :
                batches' = [batches EXCEPT ![c].status = status, ![c].staged = some]
    <3>1. CASE BeginJob(w)
      <4>1. UNCHANGED batches
            \/ batches' = [batches EXCEPT ![JobBatch(w)].status = "received", ![JobBatch(w)].staged = FALSE]
        BY <3>1 DEF BeginJob
      <4> QED
        BY <4>1
    <3>2. CASE Ingest(w)
      BY <3>2 DEF Ingest
    <3>3. CASE IngestFails(w)
      BY <3>3 DEF IngestFails
    <3> QED
      BY <3>1, <3>2, <3>3
  <2>7. ~(BeginJob(w) \/ Ingest(w) \/ IngestFails(w)) =>
          UNCHANGED batches \/ \E c, status : batches' = [batches EXCEPT ![c].status = status]
    <3>1. SaveProcessed(w) => batches' = [batches EXCEPT ![JobBatch(w)].status = "processed"]
      BY DEF SaveProcessed
    <3>2. FailBatch(w) => batches' = [batches EXCEPT ![JobBatch(w)].status = "failed"]
      BY DEF FailBatch
    <3>3. CheckRun(w) =>
            UNCHANGED batches \/ batches' = [batches EXCEPT ![JobBatch(w)].status = "failed"]
      BY DEF CheckRun
    <3>4. EndJob(w) => UNCHANGED batches \/ \E c, status : batches' = [batches EXCEPT ![c].status = status]
      <4>1. PICK status : status = IF batches[JobBatch(w)].status = "received" THEN "failed"
                                   ELSE batches[JobBatch(w)].status
        OBVIOUS
      <4>2. ASSUME EndJob(w), worker[w].kind # "staged"
            PROVE  batches' = [batches EXCEPT ![JobBatch(w)].status = status]
        <5>1. JobBatch(w) \in DOMAIN batches
          BY <4>2, JobAtWork DEF EndJob, InStage, JobBatch
        <5> QED
          BY <4>1, <4>2, <5>1 DEF EndJob
      <4> QED
        BY <4>2 DEF EndJob
    <3>5. TakeJob(w) \/ Transform(w) \/ AllRejected(w) \/ TransformRaises(w) => UNCHANGED batches
      BY DEF TakeJob, Transform, AllRejected, TransformRaises, store
    <3> QED
      BY <3>1, <3>2, <3>3, <3>4, <3>5
  <2> QED
    BY <2>3, <2>4, <2>5, <2>6, <2>7
<1> SUFFICES IsLast(queue', worker'[w], ended'[f].ok, batches'[b].staged, fact', b)
  BY <1>1
<1>2. /\ worker \in [Workers -> Job \cup {Free}] /\ queue \in Seq(Job) /\ ended \in Attempts
      /\ batches \in Seq(BatchRow) /\ batches[b] \in BatchRow
      /\ \A i \in DOMAIN queue : queue[i].stage = "taken"
      /\ worker[w] # Free => JobFits(worker[w])
  BY FileOfBatch DEF AcceptInv, AcceptShape, PoolFits
<1>3. worker[w].stage \in Stages \cup {"free"}
  BY <1>2 DEF Job, Free
<1>4. CASE TakeJob(w)
  <2>1. queue # <<>> /\ worker[w].stage = "free" /\ queue[Len(queue)].batch = b
    BY <1>4 DEF TakeJob, InStage, IsLast, Undecided, Done
  <2>2. PICK n, rest : /\ n = Len(queue) /\ n \in Nat /\ n # 0 /\ DOMAIN queue = 1..n
                       /\ rest = Tail(queue) /\ Head(queue) = queue[1] /\ Len(rest) = n - 1
                       /\ \A j \in 1..n - 1 : rest[j] = queue[j + 1]
                       /\ rest \in Seq(Job)
    <3>1. /\ Tail(queue) \in Seq(Job) /\ Head(queue) = queue[1] /\ Len(Tail(queue)) = Len(queue) - 1
          /\ \A j \in 1..Len(Tail(queue)) : Tail(queue)[j] = queue[j + 1]
      BY <1>2, <2>1, HeadTailProperties
    <3>2. Len(queue) \in Nat /\ DOMAIN queue = 1..Len(queue)
      BY <1>2, LenProperties
    <3>3. Len(queue) # 0
      BY <1>2, <2>1, EmptySeq
    <3>4. PICK n : n = Len(queue)
      OBVIOUS
    <3>5. DOMAIN Tail(queue) = 1..n - 1
      BY <3>1, <3>4, LenProperties
    <3> QED
      BY <3>1, <3>2, <3>3, <3>4
  <2>3. queue' = rest /\ worker'[w] = queue[1]
    BY <1>2, <1>4, <2>2 DEF TakeJob
  <2>4. CASE n = 1
    <3>1. rest = <<>>
      BY <2>2, <2>4, EmptySeq
    <3>2. worker'[w].stage = "taken" /\ worker'[w].batch = b
      BY <1>2, <2>1, <2>2, <2>3, <2>4
    <3> QED
      BY <2>3, <3>1, <3>2 DEF IsLast, Undecided
  <2>5. CASE n # 1
    <3>1. n - 1 \in 1..n - 1 /\ rest[n - 1] = queue[n]
      BY <2>2, <2>5
    <3>2. rest # <<>>
      <4>1. Len(rest) # 0
        BY <2>2, <2>5
      <4> QED
        BY <4>1
    <3> QED
      BY <2>1, <2>2, <2>3, <3>1, <3>2 DEF IsLast
  <2> QED
    BY <2>4, <2>5
<1>5. CASE ~TakeJob(w)
  <2>1. UNCHANGED queue
    BY <1>5 DEF BeginJob, Ingest, IngestFails, Transform, SaveProcessed, AllRejected, TransformRaises,
       FailBatch, CheckRun, EndJob
  <2>2. CASE queue # <<>>
    BY <2>1, <2>2 DEF IsLast
  <2>3. CASE queue = <<>> /\ (BeginJob(w) \/ Ingest(w))
    <3>1. worker[w].stage \in {"taken", "ingest"} /\ worker[w].batch = b
      BY <2>3 DEF BeginJob, Ingest, InStage, IsLast, Done
    <3>2. worker[w] \in Job
      BY <1>2, <3>1 DEF Free
    <3>3. worker'[w].stage \in {"ingest", "transform"} /\ worker'[w].batch = b
      BY <1>2, <2>3, <3>1, <3>2 DEF BeginJob, Ingest, Move, Job
    <3> QED
      BY <2>1, <2>3, <3>3 DEF IsLast, Undecided
  <2>4. ASSUME worker[w].stage \in Stages, worker[w].batch = b, NEW ok, Over(w, ok)
        PROVE  ended'[f].ok = ok
    <3>1. f \in Files /\ DOMAIN ended = Files
      BY <1>2 DEF BatchRow, Attempts
    <3> QED
      BY <2>4, <3>1 DEF Over, JobBatch
  <2>5. ASSUME NEW stage \in Stages, Move(w, stage), worker[w].stage \in Stages
        PROVE  worker'[w].stage = stage /\ worker'[w].batch = worker[w].batch
    <3>1. worker[w] \in Job
      BY <1>2, <2>5 DEF Free, Stages
    <3> QED
      BY <1>2, <2>5, <3>1 DEF Move, Job
  <2>6. CASE queue = <<>> /\ Transform(w)
    <3>1. worker[w].stage = "transform" /\ Move(w, "succeeded") /\ UNCHANGED batches
      BY <2>6 DEF Transform, InStage
    <3>2. worker[w].batch = b
      BY <2>6, <3>1 DEF IsLast, Done
    <3>3. batches[b].staged => fact' = b
      BY <2>6, <3>2 DEF Transform, JobBatch
    <3>4. worker'[w].stage = "succeeded" /\ worker'[w].batch = b
      BY <2>5, <3>1, <3>2 DEF Stages
    <3> QED
      BY <2>1, <2>6, <3>1, <3>3, <3>4 DEF IsLast
  <2>7. CASE queue = <<>> /\ SaveProcessed(w)
    <3>1. worker[w].stage = "succeeded" /\ Move(w, "qa") /\ UNCHANGED fact
      BY <2>7 DEF SaveProcessed, InStage
    <3>2. worker[w].batch = b /\ (batches[b].staged => fact = b)
      BY <2>7, <3>1 DEF IsLast, Undecided, Done
    <3>3. Over(w, batches[b].staged)
      BY <2>7, <3>2 DEF SaveProcessed, JobBatch
    <3>4. ended'[f].ok = batches[b].staged
      BY <2>4, <3>1, <3>2, <3>3 DEF Stages
    <3>5. worker'[w].stage = "qa"
      BY <2>5, <3>1 DEF Stages
    <3> QED
      BY <2>1, <2>7, <3>1, <3>2, <3>4, <3>5 DEF IsLast, Done
  <2>8. CASE /\ queue = <<>>
             /\ IngestFails(w) \/ AllRejected(w) \/ TransformRaises(w) \/ FailBatch(w)
    <3>1. worker[w].stage \in {"ingest", "transform", "succeeded", "failing", "rejected"}
      BY <2>8 DEF IngestFails, AllRejected, TransformRaises, FailBatch, InStage
    <3>2. worker[w].batch = b
      BY <2>8, <3>1 DEF IsLast, Done
    <3>3. \/ Over(w, FALSE) /\ Move(w, "end")
          \/ \E stage \in {"rejected", "failing"} : Move(w, stage)
      BY <2>8 DEF IngestFails, AllRejected, TransformRaises, FailBatch
    <3>4. CASE Over(w, FALSE) /\ Move(w, "end")
      <4>1. ended'[f].ok = FALSE /\ worker'[w].stage = "end"
        BY <2>4, <2>5, <3>1, <3>2, <3>4 DEF Stages
      <4> QED
        BY <2>1, <2>8, <4>1 DEF IsLast, Done
    <3>5. CASE \E stage \in {"rejected", "failing"} : Move(w, stage)
      <4>1. PICK stage \in {"rejected", "failing"} : Move(w, stage)
        BY <3>5
      <4>2. worker'[w].stage = stage /\ worker'[w].batch = b
        BY <2>5, <3>1, <3>2, <4>1 DEF Stages
      <4> QED
        BY <2>1, <2>8, <4>2 DEF IsLast, Undecided
    <3> QED
      BY <3>3, <3>4, <3>5
  <2>9. CASE queue = <<>> /\ CheckRun(w)
    <3>1. worker[w].stage = "qa" /\ Move(w, "end") /\ UNCHANGED <<ended, fact>>
      BY <2>9 DEF CheckRun, InStage
    <3>2. ended[f].ok => fact = b
      BY <2>9, <3>1 DEF IsLast, Undecided
    <3>3. worker'[w].stage = "end"
      BY <2>5, <3>1 DEF Stages
    <3> QED
      BY <2>1, <2>9, <3>1, <3>2, <3>3 DEF IsLast, Done
  <2>10. CASE queue = <<>> /\ EndJob(w)
    <3>1. worker[w].stage \in {"end", "rejected"} /\ worker'[w] = Free /\ UNCHANGED fact
      BY <1>2, <2>10 DEF EndJob, InStage
    <3>2. ended'[f].ok => fact = b
      <4>1. CASE worker[w].stage = "end"
        BY <2>10, <4>1 DEF IsLast, Undecided, EndJob, InStage
      <4>2. CASE worker[w].stage = "rejected"
        <5>1. worker[w].batch = b
          BY <2>10, <4>2 DEF IsLast, Done
        <5>2. Over(w, FALSE)
          BY <2>10, <4>2 DEF EndJob, InStage
        <5> QED
          BY <2>4, <4>2, <5>1, <5>2 DEF Stages
      <4> QED
        BY <3>1, <4>1, <4>2
    <3> QED
      BY <2>1, <2>10, <3>1, <3>2 DEF IsLast, Free, Done
  <2> QED
    BY <1>5, <2>2, <2>3, <2>6, <2>7, <2>8, <2>9, <2>10
<1> QED
  BY <1>4, <1>5

(* The last answer of a request is of the last job, if it made one.         *)
LEMMA LastIsKept ==
    ASSUME AcceptInv, NEW w, Workers = {w}, LastAnswerIsLast(w), [AcceptNext]_acceptVars
    PROVE  LastAnswerIsLast(w)'
<1>1. /\ batches \in Seq(BatchRow) /\ queue \in Seq(Job) /\ answered \in Seq(Reply)
      /\ DOMAIN answered = 1..Len(answered) /\ Len(answered) \in Nat
  BY LenProperties DEF AcceptInv, AcceptShape
<1>2. ASSUME NEW r, answered' = Append(answered, r),
             r.mine => /\ r.batch \in DOMAIN batches' /\ batches'[r.batch].file = r.file
                       /\ IsLast(queue', worker'[w], ended'[r.file].ok, batches'[r.batch].staged, fact', r.batch)
      PROVE  LastAnswerIsLast(w)'
  <2>1. PICK n \in Nat : n = Len(answered)
    BY <1>1
  <2>2. Len(answered') = n + 1 /\ answered'[n + 1] = r
    BY <1>1, <1>2, <2>1
  <2> QED
    BY <1>2, <2>2 DEF LastAnswerIsLast
<1>3. ASSUME UNCHANGED answered,
             \A b \in DOMAIN batches : \A f :
                f = batches[b].file /\ IsLast(queue, worker[w], ended[f].ok, batches[b].staged, fact, b) =>
                   /\ b \in DOMAIN batches' /\ batches'[b].file = f
                   /\ IsLast(queue', worker'[w], ended'[f].ok, batches'[b].staged, fact', b)
      PROVE  LastAnswerIsLast(w)'
  BY <1>3 DEF LastAnswerIsLast
<1>4. CASE (\E p \in Parts : AcceptParts(p)) \/ ArchiveFails \/ ArchiveUnreadable
  <2>1. answered' = <<>>
    BY <1>4 DEF AcceptParts, ArchiveFails, ArchiveUnreadable
  <2> QED
    BY <2>1 DEF LastAnswerIsLast
<1>5. ASSUME UNCHANGED <<answered, queue, worker, ended, fact>>,
             batches' = batches \/ \E row : batches' = Append(batches, row)
      PROVE  LastAnswerIsLast(w)'
  <2>1. \A b \in DOMAIN batches : b \in DOMAIN batches' /\ batches'[b] = batches[b]
    BY <1>1, <1>5, AppendProperties, LenProperties
  <2> QED
    BY <1>3, <1>5, <2>1
<1>6. CASE NextFile \/ FindProcessed \/ ReadInflight \/ FindRecoverable \/ Register \/ CreateBatch
           \/ UNCHANGED acceptVars
  <2>1. UNCHANGED <<answered, queue, worker, ended, fact>>
        /\ (batches' = batches \/ \E row : batches' = Append(batches, row))
    BY <1>6 DEF NextFile, FindProcessed, ReadInflight, FindRecoverable, Register, CreateBatch,
       acceptVars, store, pool, counting
  <2> QED
    BY <1>5, <2>1
<1>7. CASE ReadFound \/ ArchiveSource
  <2>1. UNCHANGED <<queue, worker, ended, fact, batches>>
    BY <1>7 DEF ReadFound, ArchiveSource, store, pool
  <2>2. CASE UNCHANGED answered
    BY <1>5, <2>1, <2>2
  <2>3. CASE \E code, b : Answer(code, b, FALSE)
    BY <1>2, <2>3 DEF Answer
  <2> QED
    BY <1>7, <2>2, <2>3 DEF ReadFound, ArchiveSource, counting
<1>8. CASE Submit \/ StartArchive \/ StartStaged
  <2>1. req.pc \in {"submit", "start"} /\ UNCHANGED batches
    BY <1>8 DEF Submit, StartArchive, StartStaged, IsAt, store
  <2>2. OfFile(req.batch, req.file)
    <3>1. req.pc = "start" => req.mode # "none"
      BY <1>8, <2>1 DEF Submit, StartArchive, StartStaged, IsAt
    <3> QED
      BY <2>1, <3>1, RequestIsOne DEF RequestFits
  <2>3. CASE \E job : Answer(202, req.batch, TRUE) /\ queue' = Append(queue, job) /\ job.batch = req.batch
    <3>1. PICK job : Answer(202, req.batch, TRUE) /\ queue' = Append(queue, job) /\ job.batch = req.batch
      BY <2>3
    <3>2. queue' # <<>> /\ queue'[Len(queue')] = job
      BY <1>1, <3>1, AppendProperties, EmptySeq
    <3>3. IsLast(queue', worker'[w], ended'[req.file].ok, batches'[req.batch].staged, fact',
                      req.batch)
      BY <3>1, <3>2 DEF IsLast
    <3> QED
      BY <1>2, <2>1, <2>2, <3>1, <3>3 DEF Answer, OfFile
  <2>4. CASE Answer(202, req.batch, FALSE)
    BY <1>2, <2>4 DEF Answer
  <2>5. ASSUME NEW kind, NEW r, Enqueue(kind, req.batch, r)
        PROVE  \E job : queue' = Append(queue, job) /\ job.batch = req.batch
    <3>1. PICK job : job = [stage |-> "taken", kind |-> kind, batch |-> req.batch, run |-> r]
      OBVIOUS
    <3> QED
      BY <2>5, <3>1 DEF Enqueue
  <2>6. CASE StartStaged
    <3>1. \/ Answer(202, req.batch, FALSE)
          \/ \E r : Enqueue("staged", req.batch, r) /\ Answer(202, req.batch, TRUE)
      BY <2>6 DEF StartStaged
    <3> QED
      BY <2>3, <2>4, <2>5, <3>1
  <2>7. CASE Submit \/ StartArchive
    <3>1. \E kind : Enqueue(kind, req.batch, 0) /\ Answer(202, req.batch, TRUE)
      BY <2>7 DEF Submit, StartArchive
    <3> QED
      BY <2>3, <2>5, <3>1
  <2> QED
    BY <1>8, <2>6, <2>7
<1>9. ASSUME \/ TakeJob(w) \/ BeginJob(w) \/ Ingest(w) \/ IngestFails(w)
             \/ Transform(w) \/ SaveProcessed(w) \/ AllRejected(w) \/ TransformRaises(w)
             \/ FailBatch(w) \/ CheckRun(w) \/ EndJob(w)
      PROVE  LastAnswerIsLast(w)'
  <2>1. UNCHANGED answered
    BY <1>9 DEF TakeJob, BeginJob, Ingest, IngestFails, Transform, SaveProcessed, AllRejected,
       TransformRaises, FailBatch, CheckRun, EndJob, counting
  <2> QED
    BY <1>3, <1>9, <2>1, LastGoesOn
<1> QED
  BY <1>4, <1>6, <1>7, <1>8, <1>9 DEF AcceptNext

(* With one thread, the default of the pool, and files that a request names *)
(* once, the file with the highest name has the last word on the grain      *)
(* (upload_service.py, accept_parts and _upload_sort_key), whatever order   *)
(* the files were sent in and whatever fails: its rows stand when the pool  *)
(* has worked off the request that put it to work.                          *)
THEOREM LaterFilesWin ==
    ASSUME NEW w, Workers = {w}, \A p \in Parts : IsInjective(p.files)
    PROVE  AcceptSpec => []LaterFileWins
<1> DEFINE Inv == AcceptInv /\ InOrder(req, answered) /\ LastAnswerIsLast(w)
<1>1. AcceptInit => Inv
  <2>1. AcceptInit => InOrder(req, answered) /\ LastAnswerIsLast(w)
    BY DEF AcceptInit, InOrder, LastAnswerIsLast
  <2> QED
    BY <2>1, AcceptanceStarts
<1>2. Inv /\ [AcceptNext]_acceptVars => Inv'
  BY AcceptanceGoesOn, OrderIsKept, LastIsKept
<1>3. Inv => LaterFileWins
  <2> SUFFICES ASSUME Inv, Quiet, NEW i \in DOMAIN answered,
                      answered[i].mine, ended[answered[i].file].ok,
                      \A k \in DOMAIN answered : answered[k].file <= answered[i].file
               PROVE  fact = answered[i].batch
    BY DEF LaterFileWins
  <2>1. PICK n \in Nat : n = Len(answered) /\ DOMAIN answered = 1..n /\ answered \in [1..n -> Reply]
    BY LenProperties DEF AcceptInv, AcceptShape
  <2>2. i = n
    <3>1. i \in 1..n /\ n \in 1..n /\ i \in Nat /\ n \in Nat /\ i <= n
      BY <2>1
    <3>2. answered[i].file \in Nat /\ answered[n].file \in Nat
      BY <2>1, <3>1, AcceptanceConstants DEF Reply
    <3>3. i < n => answered[i].file < answered[n].file
      BY <2>1, <3>1 DEF InOrder
    <3>4. answered[n].file <= answered[i].file
      BY <2>1, <3>1
    <3>5. ~(i < n)
      BY <3>2, <3>3, <3>4
    <3> QED
      BY <3>1, <3>5
  <2>3. IsLast(queue, worker[w], ended[answered[i].file].ok, batches[answered[i].batch].staged,
                  fact, answered[i].batch)
    BY <2>1, <2>2 DEF LastAnswerIsLast
  <2>4. queue = <<>> /\ worker[w].stage = "free"
    BY DEF Quiet, Free
  <2> QED
    BY <2>3, <2>4 DEF IsLast, Undecided
<1> QED
  BY <1>1, <1>2, <1>3, PTL DEF AcceptSpec

=============================================================================
