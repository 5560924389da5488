------------------------ MODULE PublishedReadersProofs ------------------------
(***************************************************************************)
(* What holds of the workbooks and the report downloads beside publications*)
(* and the other readers, for any number of grants, copies and grains, any *)
(* lifetimes of tokens and grants and any page size.  The argument for the *)
(* workbooks is one invariant per open copy: whatever has become a reason  *)
(* to refuse it is noted, and each check that its request for data passed  *)
(* took away one thing that may have barred it from the start.  For a      *)
(* report it is that the rows read are a beginning of one snapshot, which  *)
(* no later publication changes.  For the dashboards and Ask DFIP it is    *)
(* that an answer is what its question gives of the two histories it was   *)
(* read from, so what is claimed of an answer is a fact about rows; the    *)
(* sums of rows have lemmas of their own.                                  *)
(***************************************************************************)
EXTENDS PublishedReaders, FiniteSetTheorems, SequenceTheorems, WellFoundedInduction, TLAPS

(* What may bar a workbook, and the types of the state.                     *)
Barriers == {"member", "company", "revoked", "ended"}

Grants    == [expires : Int, revoked : BOOLEAN]
Stamps    == [since : Int, iat : Int, exp : Int]
Builds    == [stage : {"register", "confirm", "stamp"}, jti : Jtis, since : Int, iat : Int]
Refreshes == [pc : {"idle", "ask", "served", "refused"} \cup InRefresh \cup InData,
              jti : Jtis \cup {Absent}, exp : Int, minted : BOOLEAN, at : Int,
              met : BOOLEAN, kept : SUBSET Barriers, shown : BOOLEAN]

AccessShape ==
    /\ clock \in Nat /\ company \in {"active", "inactive", "deleted"}
    /\ role \in {"client", "publisher", "none"}
    /\ grants \in [Jtis -> Grants \cup {Absent}]
    /\ stamp \in [Jtis -> Stamps \cup {Absent}]
    /\ build \in Builds \cup {Absent}
    /\ copy \in [Copies -> Refreshes]

(* A grant ends GrantTtl after some moment between its registration and the *)
(* stamped token, restored or not.                                          *)
GrantsEnd ==
    /\ build # Absent =>
         /\ stamp[build.jti] = Absent
         /\ build.stage \in {"confirm", "stamp"} => build.since <= clock
         /\ build.stage = "stamp" => build.since <= build.iat
         /\ build.stage \in {"confirm", "stamp"} /\ grants[build.jti] # Absent =>
              grants[build.jti].expires = build.since + GrantTtl
    /\ \A j \in Jtis : stamp[j] # Absent =>
         /\ stamp[j].since <= stamp[j].iat
         /\ grants[j] # Absent =>
              /\ stamp[j].since + GrantTtl <= grants[j].expires
              /\ grants[j].expires <= stamp[j].iat + GrantTtl

(* An open copy is one of a delivered workbook, and looked at the clock.    *)
CopyIsOpen(c) ==
    copy[c].pc # "idle" =>
      copy[c].jti \in Jtis /\ stamp[copy[c].jti] # Absent /\ copy[c].at <= clock

(* Whatever makes a check refuse a copy has been noted as a reason.         *)
Reasons(r, j) ==
    /\ Bars(j) # {} \/ Over(j) => r.met
    /\ r.pc \in {"r_again", "r_company", "ask"} \cup InData /\ grants[j] = Absent => r.met
    /\ r.pc = "ask" /\ (r.minted => r.exp <= clock) => r.met
    /\ r.pc = "refused" => r.met

ReasonsAreMet(c, j) == copy[c].pc # "idle" /\ copy[c].jti = j => Reasons(copy[c], j)

(* What has barred a request for data from its start is barring it now, and *)
(* each check that it passed took one bar away.                             *)
Falls(r, j) ==
    /\ r.pc \in InData \cup {"served"} => r.kept \subseteq Bars(j)
    /\ r.pc \in {"d_grant", "d_company", "d_copy"} =>
         /\ "member" \notin r.kept
         /\ "ended" \in r.kept => stamp[j].iat + GrantTtl <= r.at
    /\ r.pc \in {"d_company", "d_copy"} => r.kept \subseteq {"company"}
    /\ r.pc = "d_copy" /\ "company" \in r.kept => company = "deleted"
    /\ r.pc = "served" /\ r.shown => r.kept = {}

BarsFallAway(c, j) == copy[c].jti = j => Falls(copy[c], j)

CopyInv(c) == CopyIsOpen(c) /\ \A j \in Jtis : ReasonsAreMet(c, j) /\ BarsFallAway(c, j)

AccessInv == AccessShape /\ GrantsEnd /\ \A c \in Copies : CopyInv(c)

-----------------------------------------------------------------------------
(* Lemmas. *)

(* What bars a workbook, bar by bar.                                        *)
LEMMA BarsAre ==
    ASSUME NEW j \in Jtis
    PROVE  /\ Bars(j) \subseteq Barriers
           /\ "member" \in Bars(j) <=> role = "none"
           /\ "company" \in Bars(j) <=> company # "active"
           /\ "revoked" \in Bars(j) <=> grants[j] # Absent /\ grants[j].revoked
           /\ "ended" \in Bars(j) <=> stamp[j] # Absent /\ stamp[j].iat + GrantTtl <= clock
BY DEF Bars, Barriers

(* Nothing about a workbook changes while the world stands still for it.    *)
LEMMA SameBars ==
    ASSUME NEW j \in Jtis, UNCHANGED <<clock, company, role>>,
           stamp'[j] = stamp[j], grants'[j] = grants[j]
    PROVE  Bars(j)' = Bars(j) /\ (Over(j)' <=> Over(j))
BY DEF Bars, Over

(* A grant that a check finds not active gives a reason, unless it is lost. *)
LEMMA InactiveIsMet ==
    ASSUME AccessShape, GrantsEnd, NEW j \in Jtis, stamp[j] # Absent, grants[j] # Absent,
           NEW at \in Int, at <= clock, ~ActiveAt(j, at)
    PROVE  Bars(j) # {} \/ Over(j)
<1>1. CASE grants[j].revoked
  BY <1>1, BarsAre
<1>2. CASE grants[j].expires <= at
  <2>1. /\ stamp[j].since + GrantTtl <= grants[j].expires
        /\ stamp[j].since \in Int /\ grants[j].expires \in Int /\ clock \in Int
        /\ GrantTtl \in Int
    BY WorkbookConstants DEF AccessShape, GrantsEnd, Stamps, Grants
  <2> QED
    BY <1>2, <2>1 DEF Over
<1> QED
  BY <1>1, <1>2 DEF ActiveAt, AccessShape, Grants

(* A step of one copy, the rest standing still.                             *)
LEMMA OneCopyMoves ==
    ASSUME AccessInv, NEW c \in Copies, UNCHANGED world,
           NEW r \in Refreshes, copy' = [copy EXCEPT ![c] = r], CopyInv(c)'
    PROVE  AccessInv'
<1>1. AccessShape'
  BY DEF AccessInv, AccessShape, world
<1>2. GrantsEnd'
  BY DEF AccessInv, GrantsEnd, world
<1>3. ASSUME NEW d \in Copies, d # c PROVE CopyInv(d)'
  <2>1. copy'[d] = copy[d]
    BY <1>3 DEF AccessInv, AccessShape
  <2>2. CopyInv(d)
    BY DEF AccessInv
  <2>3. \A j \in Jtis : Bars(j)' = Bars(j) /\ (Over(j)' <=> Over(j))
    BY SameBars DEF world
  <2> QED
    BY <2>1, <2>2, <2>3 DEF CopyInv, CopyIsOpen, ReasonsAreMet, Reasons, BarsFallAway, Falls, world
<1> QED
  BY <1>1, <1>2, <1>3 DEF AccessInv

-----------------------------------------------------------------------------
(* The inductive invariant. *)

(* At the start nobody has a workbook.                                      *)
LEMMA AccessStart == AccessInit => AccessInv
<1> SUFFICES ASSUME AccessInit PROVE AccessInv
  OBVIOUS
<1>1. Idle \in Refreshes /\ Idle.pc = "idle"
  BY DEF Idle, Refreshes, Barriers
<1>2. AccessShape
  BY <1>1 DEF AccessInit, AccessShape
<1>3. GrantsEnd
  BY DEF AccessInit, GrantsEnd
<1> QED
  BY <1>1, <1>2, <1>3
     DEF AccessInit, AccessInv, CopyInv, CopyIsOpen, ReasonsAreMet, Reasons, BarsFallAway, Falls, InData

(* What watching does to a copy.                                            *)
LEMMA WatchMoves ==
    ASSUME AccessShape, Watch, NEW c \in Copies
    PROVE  /\ copy'[c] \in Refreshes
           /\ copy[c].jti = Absent => copy'[c] = copy[c]
           /\ \A j \in Jtis : copy[c].jti = j /\ j # Absent =>
                /\ copy'[c].pc = copy[c].pc /\ copy'[c].jti = j /\ copy'[c].at = copy[c].at
                /\ copy'[c].minted = copy[c].minted /\ copy'[c].exp = copy[c].exp
                /\ copy'[c].shown = copy[c].shown
                /\ copy[c].met \/ Bars(j)' # {} \/ Over(j)'
                     \/ (copy[c].minted /\ copy[c].exp <= clock') => copy'[c].met
                /\ copy'[c].kept = copy[c].kept \cap Bars(j)'
<1>1. copy[c] \in Refreshes
  BY DEF AccessShape
<1>2. CASE copy[c].jti = Absent
  BY <1>1, <1>2 DEF Watch
<1>3. CASE copy[c].jti # Absent
  <2>1. PICK j \in Jtis : copy[c].jti = j
    BY <1>1, <1>3 DEF Refreshes
  <2>2. copy'[c] = [copy[c] EXCEPT
                      !.met = @ \/ Bars(j)' # {} \/ Over(j)'
                                \/ (copy[c].minted /\ copy[c].exp <= clock'),
                      !.kept = @ \cap Bars(j)']
    BY <1>3, <2>1 DEF Watch
  <2>3. PICK met \in BOOLEAN :
          met <=> (copy[c].met \/ Bars(j)' # {} \/ Over(j)'
                   \/ (copy[c].minted /\ copy[c].exp <= clock'))
    OBVIOUS
  <2>4. copy'[c] = [copy[c] EXCEPT !.met = met, !.kept = copy[c].kept \cap Bars(j)']
    BY <2>2, <2>3
  <2>5. copy[c].kept \cap Bars(j)' \subseteq Barriers
    BY <1>1 DEF Refreshes
  <2> QED
    BY <1>1, <1>3, <2>1, <2>3, <2>4, <2>5 DEF Refreshes
<1> QED
  BY <1>2, <1>3

(* The world changes and everybody watches: a reason that comes is noted,   *)
(* a bar that goes is struck off.                                           *)
LEMMA WatchedStep ==
    ASSUME AccessInv, Watch, UNCHANGED <<build, stamp>>, AccessShape', GrantsEnd',
           clock <= clock', company = "deleted" => company' = "deleted",
           \A j \in Jtis : grants[j] # Absent /\ grants'[j] = Absent => company' # "active"
    PROVE  AccessInv'
<1> SUFFICES ASSUME NEW c \in Copies PROVE CopyInv(c)'
  BY DEF AccessInv
<1>1. /\ CopyInv(c) /\ copy[c] \in Refreshes /\ clock \in Int /\ clock' \in Int /\ AccessShape
  BY DEF AccessInv, AccessShape
<1>2. CASE copy[c].jti = Absent
  <2>1. copy'[c] = copy[c] /\ copy[c].pc = "idle"
    BY <1>1, <1>2, WatchMoves, WorkbookConstants DEF CopyInv, CopyIsOpen
  <2> QED
    BY <2>1 DEF CopyInv, CopyIsOpen, ReasonsAreMet, Reasons, BarsFallAway, Falls, InData
<1>3. CASE copy[c].jti # Absent
  <2>1. PICK j \in Jtis : copy[c].jti = j
    BY <1>1, <1>3 DEF Refreshes
  <2>4. /\ copy'[c].pc = copy[c].pc /\ copy'[c].jti = j /\ copy'[c].at = copy[c].at
        /\ copy'[c].minted = copy[c].minted /\ copy'[c].exp = copy[c].exp
        /\ copy'[c].shown = copy[c].shown
        /\ copy[c].met \/ Bars(j)' # {} \/ Over(j)'
             \/ (copy[c].minted /\ copy[c].exp <= clock') => copy'[c].met
        /\ copy'[c].kept = copy[c].kept \cap Bars(j)'
        /\ copy[c].at \in Int
    BY <1>1, <1>3, <2>1, WatchMoves DEF Refreshes
  <2>5. CopyIsOpen(c)'
    BY <1>1, <2>1, <2>4 DEF CopyInv, CopyIsOpen
  <2>6. ReasonsAreMet(c, j)'
    <3>1. grants[j] # Absent /\ grants'[j] = Absent => Bars(j)' # {}
      <4>1. "company" \in Bars(j)' <=> company' # "active"
        BY DEF Bars
      <4> QED
        BY <4>1
    <3> QED
      BY <1>1, <2>1, <2>4, <3>1 DEF CopyInv, ReasonsAreMet, Reasons
  <2>7. BarsFallAway(c, j)'
    BY <1>1, <2>1, <2>4 DEF CopyInv, BarsFallAway, Falls
  <2> QED
    BY <2>4, <2>5, <2>6, <2>7 DEF CopyInv, ReasonsAreMet, Reasons, BarsFallAway, Falls
<1> QED
  BY <1>2, <1>3

(* Grant rows end or go: what is kept of GrantsEnd.                         *)
LEMMA WorldStep ==
    ASSUME AccessInv, Tick \/ CompanyChanges \/ MembershipChanges \/ Revoke
    PROVE  AccessInv'
<1>1. /\ Watch /\ UNCHANGED <<build, stamp>> /\ clock \in Nat
      /\ clock' \in Nat /\ clock <= clock'
      /\ company = "deleted" => company' = "deleted"
      /\ company' \in {"active", "inactive", "deleted"}
      /\ role' \in {"client", "publisher", "none"}
  BY DEF Tick, CompanyChanges, MembershipChanges, Revoke, AccessInv, AccessShape
<1>2. /\ grants' \in [Jtis -> Grants \cup {Absent}]
      /\ \A j \in Jtis : grants'[j] # Absent =>
           grants[j] # Absent /\ grants'[j].expires = grants[j].expires
      /\ \A j \in Jtis : grants[j] # Absent /\ grants'[j] = Absent => company' # "active"
  <2>1. CASE Tick \/ MembershipChanges
    BY <2>1 DEF Tick, MembershipChanges, AccessInv, AccessShape
  <2>2. CASE CompanyChanges
    BY <2>2 DEF CompanyChanges, AccessInv, AccessShape
  <2>3. CASE Revoke
    <3>1. ASSUME NEW j \in Jtis, grants[j] # Absent
          PROVE  /\ [grants[j] EXCEPT !.revoked = TRUE] \in Grants
                 /\ [grants[j] EXCEPT !.revoked = TRUE].expires = grants[j].expires
                 /\ [grants[j] EXCEPT !.revoked = TRUE] # Absent
      BY <3>1, WorkbookConstants DEF AccessInv, AccessShape, Grants
    <3> QED
      BY <2>3, <3>1 DEF Revoke, AccessInv, AccessShape
  <2> QED
    BY <2>1, <2>2, <2>3
<1>3. copy' \in [Copies -> Refreshes]
  <2>1. \A c \in Copies : copy'[c] \in Refreshes
    BY <1>1, WatchMoves DEF AccessInv
  <2>2. copy' = [c \in Copies |-> copy'[c]]
    BY <1>1 DEF Watch
  <2> QED
    BY <2>1, <2>2
<1>4. AccessShape'
  BY <1>1, <1>2, <1>3 DEF AccessInv, AccessShape
<1>5. GrantsEnd'
  BY <1>1, <1>2 DEF AccessInv, AccessShape, GrantsEnd, Builds
<1> QED
  BY <1>1, <1>2, <1>4, <1>5, WatchedStep

(* The rows are lost: every open copy has a reason, requests are over, and  *)
(* nothing is revoked any more.                                             *)
LEMMA LoseStep ==
    ASSUME AccessInv, Lose
    PROVE  AccessInv'
<1>1. /\ UNCHANGED <<clock, company, role, stamp>> /\ build' = Absent
      /\ grants' = [j \in Jtis |-> Absent]
      /\ copy' = [c \in Copies |-> IF copy[c].jti = Absent THEN copy[c] ELSE Interrupted(copy[c])]
  BY DEF Lose
<1>2. ASSUME NEW c \in Copies
      PROVE  copy'[c] \in Refreshes /\ CopyInv(c)'
  <2>1. copy[c] \in Refreshes /\ CopyInv(c)
    BY DEF AccessInv, AccessShape
  <2>2. CASE copy[c].jti = Absent
    <3>1. copy'[c] = copy[c] /\ copy[c].pc = "idle"
      BY <1>1, <2>1, <2>2, WorkbookConstants DEF CopyInv, CopyIsOpen
    <3> QED
      BY <2>1, <3>1 DEF CopyInv, CopyIsOpen, ReasonsAreMet, Reasons, BarsFallAway, Falls, InData
  <2>3. CASE copy[c].jti # Absent
    <3>1. PICK j \in Jtis : copy[c].jti = j
      BY <2>1, <2>3 DEF Refreshes
    <3>2. PICK pc : /\ pc = IF copy[c].pc \in InRefresh THEN "ask"
                            ELSE IF copy[c].pc \in InData THEN "refused" ELSE copy[c].pc
                    /\ copy'[c] = [copy[c] EXCEPT !.met = TRUE, !.pc = pc,
                                                  !.kept = @ \ {"revoked"}]
      BY <1>1, <2>3 DEF Interrupted
    <3>3. /\ pc \in {"idle", "ask", "served", "refused"}
          /\ pc = "served" <=> copy[c].pc = "served"
          /\ pc = "idle" <=> copy[c].pc = "idle"
      BY <2>1, <3>2 DEF Refreshes, InRefresh, InData
    <3>4. /\ copy'[c] \in Refreshes /\ copy'[c].met /\ copy'[c].pc = pc /\ copy'[c].jti = j
          /\ copy'[c].kept = copy[c].kept \ {"revoked"} /\ copy'[c].at = copy[c].at
          /\ copy'[c].shown = copy[c].shown
      <4>1. PICK kept \in SUBSET Barriers : kept = copy[c].kept \ {"revoked"}
        BY <2>1 DEF Refreshes
      <4>2. copy'[c] = [copy[c] EXCEPT !.met = TRUE, !.pc = pc, !.kept = kept]
        BY <3>2, <4>1
      <4> QED
        BY <2>1, <3>1, <3>3, <4>1, <4>2 DEF Refreshes
    <3>5. \A b \in Barriers \ {"revoked"} : b \in Bars(j) => b \in Bars(j)'
      BY <1>1 DEF Bars, Barriers
    <3>6. copy[c].pc = "served" => copy[c].kept \ {"revoked"} \subseteq Bars(j)'
      BY <2>1, <3>1, <3>5, BarsAre DEF CopyInv, BarsFallAway, Falls
    <3> QED
      BY <1>1, <2>1, <3>1, <3>3, <3>4, <3>6
         DEF CopyInv, CopyIsOpen, ReasonsAreMet, Reasons, BarsFallAway, Falls, InData
  <2> QED
    BY <2>2, <2>3
<1>3. AccessShape'
  BY <1>1, <1>2 DEF AccessInv, AccessShape
<1>4. GrantsEnd'
  BY <1>1 DEF AccessInv, GrantsEnd
<1> QED
  BY <1>2, <1>3, <1>4 DEF AccessInv

(* A download concerns a workbook nobody has yet.                           *)
LEMMA DownloadKeeps ==
    ASSUME AccessInv, UNCHANGED <<clock, company, role, copy>>, AccessShape', GrantsEnd',
           \A j \in Jtis : stamp[j] # Absent => stamp'[j] = stamp[j] /\ grants'[j] = grants[j]
    PROVE  AccessInv'
<1> SUFFICES ASSUME NEW c \in Copies PROVE CopyInv(c)'
  BY DEF AccessInv
<1>1. CopyInv(c)
  BY DEF AccessInv
<1>2. \A j \in Jtis : stamp[j] # Absent =>
        /\ Bars(j)' = Bars(j) /\ (Over(j)' <=> Over(j))
        /\ stamp'[j] = stamp[j] /\ grants'[j] = grants[j]
  BY SameBars
<1>3. CopyIsOpen(c)'
  BY <1>1, <1>2 DEF CopyInv, CopyIsOpen
<1>4. \A j \in Jtis : ReasonsAreMet(c, j)' /\ BarsFallAway(c, j)'
  BY <1>1, <1>2 DEF CopyInv, CopyIsOpen, ReasonsAreMet, Reasons, BarsFallAway, Falls, InData
<1> QED
  BY <1>3, <1>4 DEF CopyInv

(* A download begins.                                                       *)
LEMMA DownloadStep ==
    ASSUME AccessInv, NEW j \in Jtis, DownloadWorkbook(j)
    PROVE  AccessInv'
<1>1. /\ UNCHANGED <<clock, company, role, grants, stamp, copy>> /\ stamp[j] = Absent
      /\ build' = [stage |-> "register", jti |-> j, since |-> 0, iat |-> 0]
  BY DEF DownloadWorkbook
<1>2. AccessShape'
  BY <1>1 DEF AccessInv, AccessShape, Builds
<1>3. GrantsEnd'
  BY <1>1 DEF AccessInv, GrantsEnd
<1> QED
  BY <1>1, <1>2, <1>3, DownloadKeeps

(* A download that fails leaves no token.                                   *)
LEMMA BuildFailsStep ==
    ASSUME AccessInv, BuildFails
    PROVE  AccessInv'
<1>1. UNCHANGED <<clock, company, role, grants, stamp, copy>> /\ build' = Absent
  BY DEF BuildFails
<1>2. AccessShape' /\ GrantsEnd'
  BY <1>1 DEF AccessInv, AccessShape, GrantsEnd
<1> QED
  BY <1>1, <1>2, DownloadKeeps

(* The grant is registered: it ends GrantTtl from now.                      *)
LEMMA RegisterGrantStep ==
    ASSUME AccessInv, Register
    PROVE  AccessInv'
<1>1. CASE BuildFails
  BY <1>1, BuildFailsStep
<1>2. CASE ~BuildFails
  <2>1. build # Absent /\ build \in Builds
    BY DEF Register, AccessInv, AccessShape
  <2>2. PICK j \in Jtis : j = build.jti
    BY <2>1 DEF Builds
  <2>3. /\ UNCHANGED <<clock, company, role, stamp, copy>> /\ stamp[j] = Absent
        /\ grants' = [grants EXCEPT ![j] = [expires |-> clock + GrantTtl, revoked |-> FALSE]]
        /\ build' = [build EXCEPT !.stage = "confirm", !.since = clock]
    BY <1>2, <2>1, <2>2 DEF Register, AccessInv, GrantsEnd
  <2>4. clock \in Int /\ GrantTtl \in Int /\ grants \in [Jtis -> Grants \cup {Absent}]
    BY WorkbookConstants DEF AccessInv, AccessShape
  <2>5. /\ build' \in Builds /\ build'.jti = j /\ build'.stage = "confirm" /\ build'.since = clock
        /\ grants' \in [Jtis -> Grants \cup {Absent}]
        /\ grants'[j].expires = clock + GrantTtl
        /\ \A k \in Jtis \ {j} : grants'[k] = grants[k]
    <3>1. /\ build' \in Builds /\ build'.jti = j /\ build'.stage = "confirm"
          /\ build'.since = clock
      BY <2>1, <2>2, <2>3, <2>4 DEF Builds
    <3>2. [expires |-> clock + GrantTtl, revoked |-> FALSE] \in Grants
      BY <2>4 DEF Grants
    <3> QED
      BY <2>3, <2>4, <3>1, <3>2
  <2>6. AccessShape'
    BY <2>3, <2>5 DEF AccessInv, AccessShape
  <2>7. GrantsEnd'
    BY <2>3, <2>4, <2>5 DEF AccessInv, GrantsEnd
  <2> QED
    BY <2>3, <2>5, <2>6, <2>7, DownloadKeeps
<1> QED
  BY <1>1, <1>2

(* The grant is read back, and the token issued at this moment.             *)
LEMMA ConfirmStep ==
    ASSUME AccessInv, Confirm
    PROVE  AccessInv'
<1>1. CASE BuildFails
  BY <1>1, BuildFailsStep
<1>2. CASE ~BuildFails
  <2>1. /\ build # Absent /\ build \in Builds /\ build.stage = "confirm"
        /\ UNCHANGED <<clock, company, role, grants, stamp, copy>>
        /\ build' = [build EXCEPT !.stage = "stamp", !.iat = clock]
        /\ clock \in Int
    BY <1>2 DEF Confirm, AccessInv, AccessShape
  <2>2. /\ build' \in Builds /\ build'.stage = "stamp" /\ build'.iat = clock
        /\ build'.jti = build.jti /\ build'.since = build.since
    BY <2>1 DEF Builds
  <2>3. AccessShape' /\ GrantsEnd'
    BY <2>1, <2>2 DEF AccessInv, AccessShape, GrantsEnd
  <2> QED
    BY <2>1, <2>3, DownloadKeeps
<1> QED
  BY <1>1, <1>2

(* The file is delivered with its token.                                    *)
LEMMA DeliverStep ==
    ASSUME AccessInv, Deliver
    PROVE  AccessInv'
<1>1. CASE BuildFails
  BY <1>1, BuildFailsStep
<1>2. CASE ~BuildFails
  <2>1. build # Absent /\ build \in Builds /\ build.stage = "stamp"
    BY DEF Deliver, AccessInv, AccessShape
  <2>2. PICK j \in Jtis : j = build.jti
    BY <2>1 DEF Builds
  <2>3. /\ UNCHANGED <<clock, company, role, grants, copy>> /\ stamp[j] = Absent
        /\ stamp' = [stamp EXCEPT ![j] =
             [since |-> build.since, iat |-> build.iat, exp |-> build.iat + AccessTtl]]
        /\ build' = Absent
    BY <1>2, <2>1, <2>2 DEF Deliver, AccessInv, GrantsEnd
  <2>4. /\ build.since \in Int /\ build.iat \in Int /\ AccessTtl \in Int /\ GrantTtl \in Int
        /\ build.since <= build.iat
        /\ grants[j] # Absent => grants[j].expires = build.since + GrantTtl
    BY <2>1, <2>2, WorkbookConstants DEF AccessInv, GrantsEnd, Builds
  <2>5. /\ stamp' \in [Jtis -> Stamps \cup {Absent}]
        /\ stamp'[j].since = build.since /\ stamp'[j].iat = build.iat
        /\ \A k \in Jtis \ {j} : stamp'[k] = stamp[k]
    BY <2>3, <2>4 DEF AccessInv, AccessShape, Stamps
  <2>6. AccessShape'
    BY <2>3, <2>5 DEF AccessInv, AccessShape
  <2>7. GrantsEnd'
    BY <2>3, <2>4, <2>5 DEF AccessInv, GrantsEnd
  <2> QED
    BY <2>3, <2>5, <2>6, <2>7, DownloadKeeps
<1> QED
  BY <1>1, <1>2

-----------------------------------------------------------------------------
(* Refresh All, step by step. *)

(* A copy takes a step; what has to be shown is of the present world.       *)
LEMMA CopyStep ==
    ASSUME AccessInv, UNCHANGED world, NEW c \in Copies, NEW j \in Jtis, stamp[j] # Absent,
           NEW r \in Refreshes, copy' = [copy EXCEPT ![c] = r],
           r.jti = j, r.at <= clock, Reasons(r, j), Falls(r, j)
    PROVE  AccessInv'
<1>1. copy'[c] = r
  BY DEF AccessInv, AccessShape
<1>2. Bars(j)' = Bars(j) /\ (Over(j)' <=> Over(j))
  BY SameBars DEF world
<1>3. CopyIsOpen(c)'
  BY <1>1 DEF CopyIsOpen, world
<1>4. \A k \in Jtis : ReasonsAreMet(c, k)' /\ BarsFallAway(c, k)'
  BY <1>1, <1>2 DEF ReasonsAreMet, Reasons, BarsFallAway, Falls, world
<1>5. CopyInv(c)'
  BY <1>3, <1>4 DEF CopyInv
<1> QED
  BY <1>5, OneCopyMoves

(* The workbook an open copy belongs to, and what is known of it.           *)
LEMMA OpenedCopy ==
    ASSUME AccessInv, NEW c \in Copies, copy[c].pc # "idle"
    PROVE  /\ copy[c] \in Refreshes /\ clock \in Int
           /\ copy[c].at \in Int /\ copy[c].at <= clock /\ copy[c].jti \in Jtis
           /\ stamp[copy[c].jti] # Absent /\ stamp[copy[c].jti] \in Stamps
           /\ Reasons(copy[c], copy[c].jti) /\ Falls(copy[c], copy[c].jti)
BY DEF AccessInv, AccessShape, CopyInv, CopyIsOpen, ReasonsAreMet, BarsFallAway, Refreshes

(* Refresh All begins: what bars it already is noted.                       *)
LEMMA RefreshAllStep ==
    ASSUME AccessInv, NEW c \in Copies, NEW j \in Jtis, RefreshAll(c, j)
    PROVE  AccessInv'
<1>1. PICK met \in BOOLEAN : met <=> (Bars(j) # {} \/ Over(j))
  OBVIOUS
<1>2. PICK r : r = [Idle EXCEPT !.pc = "r_identity", !.jti = j, !.exp = stamp[j].exp,
                                !.met = met]
  OBVIOUS
<1>3. UNCHANGED world /\ copy' = [copy EXCEPT ![c] = r] /\ stamp[j] # Absent
  <2>1. /\ UNCHANGED world /\ stamp[j] # Absent
        /\ copy' = [copy EXCEPT ![c] = [Idle EXCEPT !.pc = "r_identity", !.jti = j,
                                                    !.exp = stamp[j].exp,
                                                    !.met = Bars(j) # {} \/ Over(j)]]
    BY DEF RefreshAll
  <2> QED
    BY <1>1, <1>2, <2>1
<1>4. stamp[j].exp \in Int /\ clock \in Nat
  BY <1>3 DEF AccessInv, AccessShape, Stamps
<1>5. r \in Refreshes /\ r.pc = "r_identity" /\ r.jti = j /\ r.at = 0 /\ (r.met <=> met)
  <2>1. Idle \in Refreshes /\ Idle.at = 0
    BY DEF Idle, Refreshes, Barriers
  <2> QED
    BY <1>2, <1>4, <2>1 DEF Refreshes, InRefresh
<1>6. Reasons(r, j) /\ Falls(r, j)
  BY <1>1, <1>5 DEF Reasons, Falls, InData
<1>7. r.at <= clock
  BY <1>4, <1>5
<1> QED
  BY <1>3, <1>5, <1>6, <1>7, CopyStep

(* A copy that goes on to another place of its program, and no more.        *)
LEMMA GotoStep ==
    ASSUME AccessInv, UNCHANGED world, NEW c \in Copies, copy[c].pc # "idle",
           NEW pc \in {"ask", "refused"} \cup InRefresh \cup InData, Goto(c, pc),
           Reasons([copy[c] EXCEPT !.pc = pc], copy[c].jti),
           Falls([copy[c] EXCEPT !.pc = pc], copy[c].jti)
    PROVE  AccessInv'
<1>1. [copy[c] EXCEPT !.pc = pc] \in Refreshes
  BY OpenedCopy DEF Refreshes
<1>2. [copy[c] EXCEPT !.pc = pc].jti = copy[c].jti /\ [copy[c] EXCEPT !.pc = pc].at = copy[c].at
  BY OpenedCopy DEF Refreshes
<1>3. copy' = [copy EXCEPT ![c] = [copy[c] EXCEPT !.pc = pc]]
  BY DEF Goto
<1> QED
  BY <1>1, <1>2, <1>3, OpenedCopy, CopyStep

(* A refresh without a membership goes on with the stamped token.           *)
LEMMA RefreshIdentityStep ==
    ASSUME AccessInv, NEW c \in Copies, RefreshIdentity(c)
    PROVE  AccessInv'
<1>1. PICK pc : pc = IF role = "none" THEN "ask" ELSE "r_grant"
  OBVIOUS
<1>2. PICK r : r = [copy[c] EXCEPT !.pc = pc, !.at = clock]
  OBVIOUS
<1>3. UNCHANGED world /\ copy[c].pc = "r_identity" /\ copy' = [copy EXCEPT ![c] = r]
  BY <1>1, <1>2 DEF RefreshIdentity, IsAt
<1>4. PICK j \in Jtis : copy[c].jti = j
  BY <1>3, OpenedCopy
<1>5. /\ r \in Refreshes /\ r.pc = pc /\ r.jti = j /\ r.at = clock /\ r.met = copy[c].met
  BY <1>1, <1>2, <1>3, <1>4, OpenedCopy DEF Refreshes, InRefresh
<1>6. Reasons(r, j) /\ Falls(r, j)
  <2>1. pc \in {"ask", "r_grant"} /\ (pc = "ask" => copy[c].met)
    BY <1>1, <1>3, <1>4, OpenedCopy, BarsAre DEF Reasons
  <2> QED
    BY <1>3, <1>4, <1>5, <2>1, OpenedCopy DEF Reasons, Falls, InData
<1>7. stamp[j] # Absent /\ r.at <= clock
  BY <1>3, <1>4, <1>5, OpenedCopy
<1> QED
  BY <1>3, <1>4, <1>5, <1>6, <1>7, CopyStep

(* A grant that is not there, and whose token is over, bars the workbook.   *)
LEMMA EndedIsMet ==
    ASSUME AccessInv, NEW c \in Copies, copy[c].pc # "idle", RestoredEnd(c) <= copy[c].at
    PROVE  copy[c].met
<1>1. stamp[copy[c].jti].iat + GrantTtl <= clock
  <2>1. stamp[copy[c].jti].iat \in Int /\ GrantTtl \in Int
    BY OpenedCopy, WorkbookConstants DEF Stamps
  <2> QED
    BY <2>1, OpenedCopy DEF RestoredEnd
<1> QED
  BY <1>1, OpenedCopy, BarsAre DEF Reasons

(* The grant is read: active, not active, or missing and to be restored.    *)
LEMMA RefreshGrantStep ==
    ASSUME AccessInv, NEW c \in Copies, RefreshGrant(c)
    PROVE  AccessInv'
<1>1. PICK j \in Jtis : copy[c].jti = j
  BY OpenedCopy DEF RefreshGrant, IsAt
<1>2. PICK pc : pc = IF grants[j] # Absent
                     THEN IF ActiveAt(j, copy[c].at) THEN "r_company" ELSE "ask"
                     ELSE IF RestoredEnd(c) > copy[c].at THEN "r_restore" ELSE "ask"
  OBVIOUS
<1>3. UNCHANGED world /\ copy[c].pc = "r_grant" /\ Goto(c, pc)
  BY <1>1, <1>2 DEF RefreshGrant, IsAt
<1>4. /\ pc \in {"r_company", "r_restore", "ask"}
      /\ pc = "r_company" => grants[j] # Absent
      /\ pc = "ask" => copy[c].met
  <2>1. grants[j] # Absent /\ ~ActiveAt(j, copy[c].at) => copy[c].met
    BY <1>1, <1>3, OpenedCopy, InactiveIsMet DEF AccessInv, Reasons
  <2>2. ~(RestoredEnd(c) > copy[c].at) => copy[c].met
    <3>1. RestoredEnd(c) \in Int
      BY <1>3, OpenedCopy, WorkbookConstants DEF RestoredEnd, Stamps
    <3> QED
      BY <1>3, <3>1, EndedIsMet, OpenedCopy
  <2> QED
    BY <1>2, <2>1, <2>2
<1>5. PICK r : r = [copy[c] EXCEPT !.pc = pc]
  OBVIOUS
<1>6. r.pc = pc /\ r.met = copy[c].met
  BY <1>3, <1>5, OpenedCopy DEF Refreshes
<1>7. Reasons(r, j) /\ Falls(r, j)
  BY <1>1, <1>3, <1>4, <1>6, OpenedCopy DEF Reasons, Falls, InData
<1> QED
  BY <1>1, <1>3, <1>4, <1>5, <1>7, GotoStep DEF InRefresh

(* A row that is restored ends where the token's own would.                 *)
LEMMA RestoredRow ==
    ASSUME AccessInv, NEW c \in Copies, NEW j \in Jtis, IsAt(c, "r_restore"), copy[c].jti = j,
           grants[j] = Absent, UNCHANGED <<clock, company, role, build, stamp>>,
           grants' = [grants EXCEPT ![j] = [expires |-> RestoredEnd(c), revoked |-> FALSE]],
           Goto(c, "r_company")
    PROVE  AccessInv'
<1>1. PICK r : r = [copy[c] EXCEPT !.pc = "r_company"]
  OBVIOUS
<1>2. /\ copy[c] \in Refreshes /\ stamp[j] # Absent /\ stamp[j] \in Stamps
      /\ stamp[j].iat \in Int /\ stamp[j].since \in Int /\ GrantTtl \in Int
      /\ stamp[j].since <= stamp[j].iat /\ RestoredEnd(c) = stamp[j].iat + GrantTtl
  <2>1. /\ copy[c] \in Refreshes /\ stamp[j] # Absent /\ stamp[j] \in Stamps
    BY OpenedCopy DEF IsAt
  <2> QED
    BY <2>1, WorkbookConstants DEF AccessInv, GrantsEnd, RestoredEnd, Stamps
<1>3. /\ r \in Refreshes /\ r.pc = "r_company" /\ r.jti = j /\ r.at = copy[c].at
      /\ r.met = copy[c].met /\ copy' = [copy EXCEPT ![c] = r]
  BY <1>1, <1>2 DEF Refreshes, InRefresh, Goto
<1>4. /\ grants' \in [Jtis -> Grants \cup {Absent}] /\ grants'[j] # Absent
      /\ grants'[j].expires = stamp[j].iat + GrantTtl /\ ~grants'[j].revoked
      /\ \A k \in Jtis \ {j} : grants'[k] = grants[k]
  <2>1. PICK g : g = [expires |-> RestoredEnd(c), revoked |-> FALSE]
    OBVIOUS
  <2>2. /\ g \in Grants /\ g # Absent /\ ~g.revoked /\ g.expires = stamp[j].iat + GrantTtl
    <3>1. RestoredEnd(c) \in Int
      BY <1>2
    <3>2. g \in Grants /\ ~g.revoked /\ g.expires = RestoredEnd(c)
      BY <2>1, <3>1 DEF Grants
    <3> QED
      BY <1>2, <3>2, WorkbookConstants DEF Grants
  <2>3. grants' = [grants EXCEPT ![j] = g] /\ grants \in [Jtis -> Grants \cup {Absent}]
    BY <2>1 DEF AccessInv, AccessShape
  <2> QED
    BY <2>2, <2>3
<1>5. AccessShape'
  BY <1>3, <1>4 DEF AccessInv, AccessShape
<1>6. GrantsEnd'
  BY <1>2, <1>4 DEF AccessInv, GrantsEnd
<1>7. \A k \in Jtis : Bars(k)' = Bars(k) /\ (Over(k)' <=> Over(k))
  <2>1. \A k \in Jtis \ {j} : Bars(k)' = Bars(k) /\ (Over(k)' <=> Over(k))
    BY <1>4, SameBars
  <2> QED
    BY <1>4, <2>1 DEF Bars, Over
<1>8. ASSUME NEW d \in Copies, d # c PROVE CopyInv(d)'
  <2>1. copy'[d] = copy[d] /\ CopyInv(d)
    BY <1>3, <1>8 DEF AccessInv, AccessShape
  <2>2. \A k \in Jtis : grants'[k] = Absent => grants[k] = Absent
    BY <1>4
  <2> QED
    BY <1>7, <2>1, <2>2 DEF CopyInv, CopyIsOpen, ReasonsAreMet, Reasons, BarsFallAway, Falls
<1>9. CopyInv(c)'
  <2>1. copy'[c] = r
    BY <1>3 DEF AccessInv, AccessShape
  <2>2. Reasons(copy[c], j) /\ copy[c].at <= clock
    BY OpenedCopy DEF IsAt
  <2>3. CopyIsOpen(c)'
    BY <1>2, <1>3, <2>1, <2>2 DEF CopyIsOpen
  <2>4. \A k \in Jtis : ReasonsAreMet(c, k)'
    BY <1>3, <1>4, <1>7, <2>1, <2>2 DEF ReasonsAreMet, Reasons, InData
  <2>5. \A k \in Jtis : BarsFallAway(c, k)'
    BY <1>3, <2>1 DEF BarsFallAway, Falls, InData
  <2> QED
    BY <2>3, <2>4, <2>5 DEF CopyInv
<1> QED
  BY <1>5, <1>6, <1>8, <1>9 DEF AccessInv

(* The row is restored, or another copy has been faster.                    *)
LEMMA RestoreGrantStep ==
    ASSUME AccessInv, NEW c \in Copies, RestoreGrant(c)
    PROVE  AccessInv'
<1>1. PICK j \in Jtis : copy[c].jti = j
  BY OpenedCopy DEF RestoreGrant, IsAt
<1>2. CASE grants[j] = Absent /\ company # "deleted"
  BY <1>1, <1>2, RestoredRow DEF RestoreGrant
<1>3. CASE ~(grants[j] = Absent /\ company # "deleted")
  <2>1. UNCHANGED world /\ copy[c].pc = "r_restore" /\ Goto(c, "r_again")
    BY <1>1, <1>3 DEF RestoreGrant, IsAt, world
  <2>2. PICK r : r = [copy[c] EXCEPT !.pc = "r_again"]
    OBVIOUS
  <2>3. r.pc = "r_again" /\ r.met = copy[c].met
    BY <2>1, <2>2, OpenedCopy DEF Refreshes
  <2>4. grants[j] = Absent => copy[c].met
    <3>1. company = "deleted" => "company" \in Bars(j)
      BY BarsAre
    <3> QED
      BY <1>1, <1>3, <2>1, <3>1, OpenedCopy DEF Reasons
  <2>5. Reasons(r, j) /\ Falls(r, j)
    BY <1>1, <2>1, <2>3, <2>4, OpenedCopy DEF Reasons, Falls, InData
  <2> QED
    BY <1>1, <2>1, <2>2, <2>5, GotoStep DEF InRefresh
<1> QED
  BY <1>2, <1>3

(* A grant found missing or not active where it was there a moment ago, or  *)
(* in a request for data, is a reason.                                      *)
LEMMA NotActiveIsMet ==
    ASSUME AccessInv, NEW c \in Copies, copy[c].pc \in {"r_again", "d_grant"},
           ~ActiveAt(copy[c].jti, copy[c].at)
    PROVE  copy[c].met
<1>1. PICK j \in Jtis : copy[c].jti = j
  BY OpenedCopy
<1>2. CASE grants[j] = Absent
  BY <1>1, <1>2, OpenedCopy DEF Reasons, InData
<1>3. CASE grants[j] # Absent
  <2>1. Bars(j) # {} \/ Over(j)
    BY <1>1, <1>3, OpenedCopy, InactiveIsMet DEF AccessInv
  <2> QED
    BY <1>1, <2>1, OpenedCopy DEF Reasons
<1> QED
  BY <1>2, <1>3

(* The row is read once more.                                               *)
LEMMA ReadAgainStep ==
    ASSUME AccessInv, NEW c \in Copies, ReadAgain(c)
    PROVE  AccessInv'
<1>1. PICK j \in Jtis : copy[c].jti = j
  BY OpenedCopy DEF ReadAgain, IsAt
<1>2. PICK pc : pc = IF ActiveAt(j, copy[c].at) THEN "r_company" ELSE "ask"
  OBVIOUS
<1>3. UNCHANGED world /\ copy[c].pc = "r_again" /\ Goto(c, pc)
  BY <1>1, <1>2 DEF ReadAgain, IsAt
<1>4. /\ pc \in {"r_company", "ask"}
      /\ pc = "r_company" => grants[j] # Absent
      /\ pc = "ask" => copy[c].met
  BY <1>1, <1>2, <1>3, NotActiveIsMet DEF ActiveAt
<1>5. PICK r : r = [copy[c] EXCEPT !.pc = pc]
  OBVIOUS
<1>6. r.pc = pc /\ r.met = copy[c].met
  BY <1>3, <1>5, OpenedCopy DEF Refreshes
<1>7. Reasons(r, j) /\ Falls(r, j)
  BY <1>1, <1>3, <1>4, <1>6, OpenedCopy DEF Reasons, Falls, InData
<1> QED
  BY <1>1, <1>3, <1>4, <1>5, <1>7, GotoStep DEF InRefresh

(* A new token, which lasts LoginTtl, unless the company is inactive.       *)
LEMMA MintTokenStep ==
    ASSUME AccessInv, NEW c \in Copies, MintToken(c)
    PROVE  AccessInv'
<1>1. /\ UNCHANGED world /\ copy[c].pc = "r_company"
      /\ copy' = [copy EXCEPT ![c].pc = "ask",
                              ![c].minted = company # "inactive",
                              ![c].exp = IF company # "inactive" THEN clock + LoginTtl
                                         ELSE copy[c].exp]
  BY DEF MintToken, IsAt
<1>2. PICK j \in Jtis : copy[c].jti = j
  BY <1>1, OpenedCopy
<1>3. PICK minted \in BOOLEAN : minted <=> company # "inactive"
  OBVIOUS
<1>4. PICK exp \in Int : exp = IF company # "inactive" THEN clock + LoginTtl ELSE copy[c].exp
  <2>1. clock \in Int /\ LoginTtl \in Int /\ copy[c].exp \in Int
    BY <1>1, OpenedCopy, WorkbookConstants DEF Refreshes
  <2> QED
    BY <2>1
<1>5. PICK r : r = [copy[c] EXCEPT !.pc = "ask", !.minted = minted, !.exp = exp]
  OBVIOUS
<1>6. copy' = [copy EXCEPT ![c] = r]
  BY <1>1, <1>3, <1>4, <1>5
<1>7. /\ r \in Refreshes /\ r.pc = "ask" /\ r.jti = j /\ r.at = copy[c].at
      /\ r.met = copy[c].met /\ (r.minted <=> minted) /\ r.exp = exp
  BY <1>1, <1>2, <1>5, OpenedCopy DEF Refreshes
<1>8. Reasons(r, j) /\ Falls(r, j)
  <2>1. company = "inactive" => "company" \in Bars(j)
    BY BarsAre
  <2>2. minted => ~(exp <= clock)
    <3>1. clock \in Int /\ LoginTtl \in Int /\ LoginTtl > 0
      BY <1>1, OpenedCopy, WorkbookConstants
    <3> QED
      BY <1>3, <1>4, <3>1
  <2>3. Reasons(copy[c], j)
    BY <1>1, <1>2, OpenedCopy
  <2> QED
    BY <1>1, <1>3, <1>7, <2>1, <2>2, <2>3 DEF Reasons, Falls, InData
<1>9. stamp[j] # Absent /\ r.at <= clock
  BY <1>1, <1>2, <1>7, OpenedCopy
<1> QED
  BY <1>1, <1>2, <1>6, <1>7, <1>8, <1>9, CopyStep

-----------------------------------------------------------------------------
(* The request for data, step by step. *)

(* The request for data begins: all that bars it is kept in view.           *)
LEMMA Ask0Step ==
    ASSUME AccessInv, NEW c \in Copies, Ask0(c)
    PROVE  AccessInv'
<1>1. PICK j \in Jtis : copy[c].jti = j
  BY OpenedCopy DEF Ask0, IsAt
<1>2. PICK pc : pc = IF copy[c].exp > clock THEN "d_identity" ELSE "refused"
  OBVIOUS
<1>3. PICK kept \in SUBSET Barriers : kept = Bars(j)
  BY BarsAre
<1>4. PICK minted \in BOOLEAN : ~minted
  OBVIOUS
<1>5. PICK exp \in Int : exp = 0
  OBVIOUS
<1>6. PICK r : r = [copy[c] EXCEPT !.pc = pc, !.kept = kept, !.minted = minted, !.exp = exp]
  OBVIOUS
<1>7. UNCHANGED world /\ copy[c].pc = "ask" /\ copy' = [copy EXCEPT ![c] = r]
  <2>1. /\ UNCHANGED world /\ copy[c].pc = "ask"
        /\ copy' = [copy EXCEPT ![c] = [copy[c] EXCEPT
             !.pc = IF copy[c].exp > clock THEN "d_identity" ELSE "refused",
             !.kept = Bars(j), !.minted = FALSE, !.exp = 0]]
    BY <1>1 DEF Ask0, IsAt
  <2> QED
    BY <1>2, <1>3, <1>4, <1>5, <1>6, <2>1
<1>8. /\ r \in Refreshes /\ r.pc = pc /\ r.jti = j /\ r.at = copy[c].at /\ r.met = copy[c].met
      /\ r.kept = kept /\ pc \in {"d_identity", "refused"}
  <2>1. copy[c] \in Refreshes /\ copy[c].jti = j
    BY <1>1, <1>7, OpenedCopy
  <2>2. pc \in {"d_identity", "refused"}
    BY <1>2
  <2> QED
    BY <1>7, <1>6, <2>1, <2>2, OpenedCopy DEF Refreshes, InData
<1>9. pc = "refused" => copy[c].met
  <2>1. copy[c].exp \in Int /\ clock \in Int
    BY <1>7, OpenedCopy DEF Refreshes
  <2> QED
    BY <1>1, <1>2, <1>7, <2>1, OpenedCopy DEF Reasons
<1>10. Reasons(r, j) /\ Falls(r, j)
  <2>1. Reasons(copy[c], j)
    BY <1>1, <1>7, OpenedCopy
  <2> QED
    BY <1>3, <1>7, <1>8, <1>9, <2>1 DEF Reasons, Falls, InData
<1>11. stamp[j] # Absent /\ r.at <= clock
  BY <1>1, <1>7, <1>8, OpenedCopy
<1> QED
  BY <1>1, <1>7, <1>8, <1>10, <1>11, CopyStep

(* A request that passes the identity check is not barred as a member.      *)
LEMMA DataIdentityStep ==
    ASSUME AccessInv, NEW c \in Copies, DataIdentity(c)
    PROVE  AccessInv'
<1>1. PICK j \in Jtis : copy[c].jti = j
  BY OpenedCopy DEF DataIdentity, IsAt
<1>2. PICK pc : pc = IF role = "none" THEN "refused" ELSE "d_grant"
  OBVIOUS
<1>3. PICK r : r = [copy[c] EXCEPT !.pc = pc, !.at = clock]
  OBVIOUS
<1>4. UNCHANGED world /\ copy[c].pc = "d_identity" /\ copy' = [copy EXCEPT ![c] = r]
  BY <1>2, <1>3 DEF DataIdentity, IsAt
<1>5. /\ r \in Refreshes /\ r.pc = pc /\ r.jti = j /\ r.at = clock /\ r.met = copy[c].met
      /\ r.kept = copy[c].kept /\ pc \in {"refused", "d_grant"}
  BY <1>1, <1>2, <1>3, <1>4, OpenedCopy DEF Refreshes, InData
<1>6. /\ Reasons(copy[c], j) /\ copy[c].kept \subseteq Bars(j) /\ stamp[j] # Absent
      /\ clock \in Int
  BY <1>1, <1>4, OpenedCopy DEF Falls, InData
<1>7. Reasons(r, j)
  <2>1. pc = "refused" => copy[c].met
    BY <1>2, <1>6, BarsAre DEF Reasons
  <2> QED
    BY <1>4, <1>5, <1>6, <2>1 DEF Reasons, InData
<1>8. Falls(r, j)
  <2>1. pc = "d_grant" => "member" \notin copy[c].kept
    BY <1>2, <1>6, BarsAre
  <2>2. "ended" \in copy[c].kept => stamp[j].iat + GrantTtl <= clock
    BY <1>6, BarsAre
  <2> QED
    BY <1>5, <1>6, <2>1, <2>2 DEF Falls, InData
<1>9. r.at <= clock
  BY <1>5, <1>6
<1> QED
  BY <1>4, <1>5, <1>6, <1>7, <1>8, <1>9, CopyStep

(* A request that passes the grant check is barred by the company at most.  *)
LEMMA DataGrantStep ==
    ASSUME AccessInv, NEW c \in Copies, DataGrant(c)
    PROVE  AccessInv'
<1>1. PICK j \in Jtis : copy[c].jti = j
  BY OpenedCopy DEF DataGrant, IsAt
<1>2. PICK pc : pc = IF ActiveAt(j, copy[c].at) THEN "d_company" ELSE "refused"
  OBVIOUS
<1>3. UNCHANGED world /\ copy[c].pc = "d_grant" /\ Goto(c, pc)
  BY <1>1, <1>2 DEF DataGrant, IsAt
<1>4. /\ pc \in {"d_company", "refused"}
      /\ pc = "d_company" => ActiveAt(j, copy[c].at)
      /\ pc = "refused" => copy[c].met
  BY <1>1, <1>2, <1>3, NotActiveIsMet
<1>5. PICK r : r = [copy[c] EXCEPT !.pc = pc]
  OBVIOUS
<1>6. /\ r.pc = pc /\ r.met = copy[c].met /\ r.kept = copy[c].kept /\ r.at = copy[c].at
      /\ r.kept \subseteq Barriers
  BY <1>3, <1>5, OpenedCopy DEF Refreshes
<1>7. /\ Reasons(copy[c], j) /\ Falls(copy[c], j) /\ stamp[j] # Absent
      /\ copy[c].at \in Int
  BY <1>1, <1>3, OpenedCopy
<1>8. Reasons(r, j)
  BY <1>3, <1>4, <1>6, <1>7 DEF Reasons, InData
<1>9. pc = "d_company" => copy[c].kept \subseteq {"company"}
  <2> SUFFICES ASSUME pc = "d_company" PROVE copy[c].kept \subseteq {"company"}
    OBVIOUS
  <2>1. /\ grants[j] # Absent /\ ~grants[j].revoked /\ grants[j].expires > copy[c].at
        /\ grants[j].expires <= stamp[j].iat + GrantTtl
    BY <1>4, <1>7 DEF ActiveAt, AccessInv, GrantsEnd
  <2>2. /\ grants[j].expires \in Int /\ stamp[j].iat \in Int /\ GrantTtl \in Int
    BY <1>7, <2>1, WorkbookConstants DEF AccessInv, AccessShape, Grants, Stamps
  <2>3. /\ copy[c].kept \subseteq Bars(j) /\ "member" \notin copy[c].kept
        /\ "ended" \in copy[c].kept => stamp[j].iat + GrantTtl <= copy[c].at
    BY <1>3, <1>7 DEF Falls, InData
  <2>4. "revoked" \notin copy[c].kept
    BY <2>1, <2>3, BarsAre
  <2>5. "ended" \notin copy[c].kept
    BY <1>7, <2>1, <2>2, <2>3
  <2> QED
    BY <1>6, <2>3, <2>4, <2>5 DEF Barriers
<1>10. Falls(r, j)
  BY <1>3, <1>4, <1>6, <1>7, <1>9 DEF Falls, InData
<1> QED
  BY <1>1, <1>3, <1>4, <1>5, <1>8, <1>10, GotoStep DEF InData

(* A request that passes the company check may be of a deleted company.     *)
LEMMA DataCompanyStep ==
    ASSUME AccessInv, NEW c \in Copies, DataCompany(c)
    PROVE  AccessInv'
<1>1. PICK j \in Jtis : copy[c].jti = j
  BY OpenedCopy DEF DataCompany, IsAt
<1>2. PICK pc : pc = IF company = "inactive" THEN "refused" ELSE "d_copy"
  OBVIOUS
<1>3. UNCHANGED world /\ copy[c].pc = "d_company" /\ Goto(c, pc)
  BY <1>2 DEF DataCompany, IsAt
<1>4. PICK r : r = [copy[c] EXCEPT !.pc = pc]
  OBVIOUS
<1>5. /\ r.pc = pc /\ r.met = copy[c].met /\ r.kept = copy[c].kept /\ r.at = copy[c].at
      /\ pc \in {"refused", "d_copy"}
  BY <1>2, <1>3, <1>4, OpenedCopy DEF Refreshes
<1>6. Reasons(copy[c], j) /\ Falls(copy[c], j)
  BY <1>1, <1>3, OpenedCopy
<1>7. company # "active" <=> "company" \in Bars(j)
  BY BarsAre
<1>8. Reasons(r, j)
  <2>1. pc = "refused" => copy[c].met
    BY <1>2, <1>6, <1>7 DEF Reasons
  <2> QED
    BY <1>3, <1>5, <1>6, <2>1 DEF Reasons, InData
<1>9. Falls(r, j)
  <2>1. /\ copy[c].kept \subseteq Bars(j) /\ "member" \notin copy[c].kept
        /\ "ended" \in copy[c].kept => stamp[j].iat + GrantTtl <= copy[c].at
        /\ copy[c].kept \subseteq {"company"}
    BY <1>3, <1>6 DEF Falls, InData
  <2>2. pc = "d_copy" /\ "company" \in copy[c].kept => company = "deleted"
    BY <1>2, <1>7, <2>1 DEF AccessInv, AccessShape
  <2> QED
    BY <1>5, <2>1, <2>2 DEF Falls, InData
<1> QED
  BY <1>1, <1>3, <1>4, <1>5, <1>8, <1>9, GotoStep DEF InData

(* Nothing is left to show of a deleted company.                            *)
LEMMA DataCopyStep ==
    ASSUME AccessInv, NEW c \in Copies, DataCopy(c)
    PROVE  AccessInv'
<1>1. PICK j \in Jtis : copy[c].jti = j
  BY OpenedCopy DEF DataCopy, IsAt
<1>2. PICK shown \in BOOLEAN : shown <=> (company # "deleted" /\ history # Empty)
  OBVIOUS
<1>3. PICK r : r = [copy[c] EXCEPT !.pc = "served", !.shown = shown]
  OBVIOUS
<1>4. UNCHANGED world /\ copy[c].pc = "d_copy" /\ copy' = [copy EXCEPT ![c] = r]
  BY <1>2, <1>3 DEF DataCopy, IsAt
<1>5. /\ r \in Refreshes /\ r.pc = "served" /\ r.jti = j /\ r.at = copy[c].at
      /\ r.met = copy[c].met /\ r.kept = copy[c].kept /\ (r.shown <=> shown)
  BY <1>1, <1>3, <1>4, OpenedCopy DEF Refreshes
<1>6. /\ Reasons(copy[c], j) /\ copy[c].kept \subseteq Bars(j) /\ stamp[j] # Absent
      /\ copy[c].kept \subseteq {"company"}
      /\ "company" \in copy[c].kept => company = "deleted"
      /\ copy[c].at <= clock
  BY <1>1, <1>4, OpenedCopy DEF Falls, InData
<1>7. Reasons(r, j)
  BY <1>4, <1>5, <1>6 DEF Reasons, InData
<1>8. Falls(r, j)
  BY <1>2, <1>5, <1>6 DEF Falls, InData
<1> QED
  BY <1>4, <1>5, <1>6, <1>7, <1>8, CopyStep

(* The workbook is done.                                                    *)
LEMMA FinishStep ==
    ASSUME AccessInv, NEW c \in Copies, Finish(c)
    PROVE  AccessInv'
<1>1. Idle \in Refreshes /\ Idle.pc = "idle" /\ Idle.jti = Absent
  BY DEF Idle, Refreshes, Barriers
<1>2. UNCHANGED world /\ copy' = [copy EXCEPT ![c] = Idle]
  BY DEF Finish
<1>3. copy'[c] = Idle
  BY <1>2 DEF AccessInv, AccessShape
<1>4. CopyInv(c)'
  BY <1>1, <1>3, WorkbookConstants
     DEF CopyInv, CopyIsOpen, ReasonsAreMet, Reasons, BarsFallAway, Falls, InData
<1> QED
  BY <1>1, <1>2, <1>4, OneCopyMoves

-----------------------------------------------------------------------------
(* Every step of the workbooks, and every step of the others. *)
LEMMA AccessIsInductive ==
    ASSUME AccessInv, AccessNext
    PROVE  AccessInv'
<1>1. CASE Tick \/ CompanyChanges \/ MembershipChanges \/ Revoke
  BY <1>1, WorldStep
<1>2. CASE Lose
  BY <1>2, LoseStep
<1>3. CASE \E j \in Jtis : DownloadWorkbook(j)
  BY <1>3, DownloadStep
<1>4. CASE Register \/ Confirm \/ Deliver
  BY <1>4, RegisterGrantStep, ConfirmStep, DeliverStep
<1>5. CASE \E c \in Copies, j \in Jtis : RefreshAll(c, j)
  BY <1>5, RefreshAllStep
<1>6. ASSUME NEW c \in Copies,
             RefreshIdentity(c) \/ RefreshGrant(c) \/ RestoreGrant(c) \/ ReadAgain(c)
      PROVE  AccessInv'
  BY <1>6, RefreshIdentityStep, RefreshGrantStep, RestoreGrantStep, ReadAgainStep
<1>7. ASSUME NEW c \in Copies,
             MintToken(c) \/ Ask0(c) \/ DataIdentity(c) \/ DataGrant(c)
      PROVE  AccessInv'
  BY <1>7, MintTokenStep, Ask0Step, DataIdentityStep, DataGrantStep
<1>8. ASSUME NEW c \in Copies, DataCompany(c) \/ DataCopy(c) \/ Finish(c)
      PROVE  AccessInv'
  BY <1>8, DataCompanyStep, DataCopyStep, FinishStep
<1> QED
  BY <1>1, <1>2, <1>3, <1>4, <1>5, <1>6, <1>7, <1>8 DEF AccessNext

(* The other readers and the publications leave the workbooks alone.        *)
LEMMA AccessStands ==
    ASSUME AccessInv, UNCHANGED access
    PROVE  AccessInv'
<1>1. AccessShape' /\ GrantsEnd'
  BY DEF AccessInv, AccessShape, GrantsEnd, access
<1>2. \A j \in Jtis : Bars(j)' = Bars(j) /\ (Over(j)' <=> Over(j))
  BY SameBars DEF access
<1>3. ASSUME NEW c \in Copies PROVE CopyInv(c)'
  <2>1. CopyInv(c) /\ copy'[c] = copy[c]
    BY DEF AccessInv, access
  <2> QED
    BY <1>2, <2>1 DEF CopyInv, CopyIsOpen, ReasonsAreMet, Reasons, BarsFallAway, Falls, access
<1> QED
  BY <1>1, <1>3 DEF AccessInv

(* The inductive invariant of the workbooks, whatever the other readers and *)
(* the publications do.                                                     *)
THEOREM AccessIsSafe == ReadersSpec => []AccessInv
<1>1. ReadersInit => AccessInv
  BY AccessStart DEF ReadersInit
<1>2. AccessInv /\ [ReadersNext]_readerVars => AccessInv'
  <2> SUFFICES ASSUME AccessInv, [ReadersNext]_readerVars PROVE AccessInv'
    OBVIOUS
  <2>1. CASE AccessNext
    BY <2>1, AccessIsInductive
  <2>2. CASE UNCHANGED access
    BY <2>2, AccessStands
  <2> QED
    BY <2>1, <2>2 DEF ReadersNext, readerVars
<1> QED
  BY <1>1, <1>2, PTL DEF ReadersSpec

(* excel_grant.py: no row of the history is shown to a request of a         *)
(* workbook that was barred from its first step to its last, by a revoked   *)
(* or ended grant, a lost membership or an inactive company, however many   *)
(* copies, refreshes and lost and restored grants interleave.               *)
THEOREM BarredSeesNothing == ReadersSpec => []ServedWhileGranted
<1>1. AccessInv => ServedWhileGranted
  <2> SUFFICES ASSUME AccessInv, NEW c \in Copies, copy[c].pc = "served", copy[c].shown
               PROVE  copy[c].kept = {}
    BY DEF ServedWhileGranted
  <2> QED
    BY OpenedCopy DEF Falls
<1> QED
  BY <1>1, AccessIsSafe, PTL

(* _resolve_excel_grant: a copy whose refresh is refused has met a reason   *)
(* since its refresh began; a grant row lost earlier is restored for it.    *)
THEOREM RefusalHasAReason == ReadersSpec => []RefusedForAReason
<1>1. AccessInv => RefusedForAReason
  <2> SUFFICES ASSUME AccessInv, NEW c \in Copies, copy[c].pc = "refused"
               PROVE  copy[c].met
    BY DEF RefusedForAReason
  <2> QED
    BY OpenedCopy DEF Reasons
<1> QED
  BY <1>1, AccessIsSafe, PTL

-----------------------------------------------------------------------------
(* The report downloads. *)

(* What a report has read is a beginning of the one publication it is of.   *)
RowsReadIn(rows, whole) ==
    \E n \in 0..Len(whole) : rows = SubSeq(whole, 1, n)

PublishedShape == pubs \subseteq Ids /\ current \in pubs \cup {NoPub} /\ snap = [i \in Ids |-> snap[i]]

ReportHolds(rep, of, slice) ==
    /\ rep = Report(rep.stage, of, rep.rows)
    /\ rep.stage \in {"first", "pages", "done", "refused"}
    /\ rep.stage \in {"first", "pages"} => of \in pubs
    /\ rep.stage = "pages" => RowsReadIn(rep.rows, RowsOfSlice(slice))
    /\ rep.stage = "done" =>
         \/ of = NoPub /\ rep.rows = <<>>
         \/ of \in pubs /\ rep.rows = RowsOfSlice(slice)

ReportInv ==
    /\ PublishedShape
    /\ report # Nothing => ReportHolds(report, report.of, snap[report.of])

(* The rows of a snapshot are a sequence: there is one for every grain held. *)
LEMMA RowsAreASequence ==
    ASSUME NEW slice
    PROVE  \E S : RowsOfSlice(slice) \in Seq(S)
<1> DEFINE held == {g \in Grains : slice[g] # NoFact}
           upTo(g) == {h \in held : Place(h) <= Place(g)}
           nth(k) == CHOOSE g \in held : Cardinality(upTo(g)) = k
           row(k) == [grain |-> nth(k), fact |-> slice[nth(k)]]
           n == Cardinality(held)
<1>1. IsFiniteSet(held)
  BY ReportConstants, FS_Subset
<1>2. n \in Nat
  BY <1>1, FS_CardinalityType
<1>3. RowsOfSlice(slice) = [k \in 1..n |-> row(k)]
  BY DEF RowsOfSlice
<1>4. PICK f : f = [k \in 1..n |-> row(k)]
  OBVIOUS
<1>5. PICK S : S = {f[k] : k \in 1..n}
  OBVIOUS
<1> HIDE DEF n, row
<1>6. f \in [1..n -> S]
  BY <1>4, <1>5
<1>7. f \in Seq(S)
  BY <1>2, <1>6
<1> QED
  BY <1>3, <1>4, <1>7

(* A page of a sequence is the part between two bounds within it.           *)
LEMMA PageIsAPart ==
    ASSUME NEW S, NEW rows \in Seq(S), NEW limit \in Nat, NEW offset \in 0..Len(rows)
    PROVE  \E m \in offset..Len(rows) :
             /\ Page(rows, limit, offset) = SubSeq(rows, offset + 1, m)
             /\ limit # 0 /\ offset < Len(rows) => offset < m
<1>1. Len(rows) \in Nat
  BY LenProperties
<1>2. PICK m : m = IF offset + limit < Len(rows) THEN offset + limit ELSE Len(rows)
  OBVIOUS
<1>3. m \in offset..Len(rows) /\ (limit # 0 /\ offset < Len(rows) => offset < m)
  BY <1>1, <1>2
<1>4. Page(rows, limit, offset) = SubSeq(rows, offset + 1, m)
  BY <1>2 DEF Page
<1> QED
  BY <1>3, <1>4

(* Another publication leaves the one that is reported, and its snapshot,   *)
(* as they are.                                                             *)
LEMMA PublishingKeepsReports ==
    ASSUME ReportInv, NEW i \in Ids, Publishes(i), UNCHANGED report
    PROVE  ReportInv'
<1>1. /\ i \notin pubs /\ pubs' = pubs \cup {i} /\ current' = i
      /\ snap' = [snap EXCEPT ![i] = SnapshotOf[i]]
  BY DEF Publishes, Publish
<1>2. NoPub \notin Ids
  BY DEF NoPub, Ids
<1>3. snap' = [j \in Ids |-> snap'[j]] /\ \A j \in pubs : snap'[j] = snap[j]
  BY <1>1 DEF ReportInv, PublishedShape
<1>4. PublishedShape'
  BY <1>1, <1>3 DEF ReportInv, PublishedShape
<1>5. ASSUME report # Nothing PROVE ReportHolds(report, report.of, snap[report.of])'
  <2>1. PICK rep, of, slice : rep = report /\ of = report.of /\ slice = snap[report.of]
    OBVIOUS
  <2>2. PICK slice2 : slice2 = snap'[of]
    OBVIOUS
  <2>3. ReportHolds(rep, of, slice)
    BY <1>5, <2>1 DEF ReportInv
  <2>4. of \in pubs => slice2 = slice
    BY <1>3, <2>1, <2>2
  <2>5. of \notin pubs => rep.stage = "refused" \/ (rep.stage = "done" /\ of = NoPub /\ rep.rows = <<>>)
    BY <2>3 DEF ReportHolds
  <2>6. ReportHolds(rep, of, slice2)'
    <3>1. CASE of \in pubs
      <4>1. ReportHolds(rep, of, slice2)
        BY <2>3, <2>4, <3>1
      <4> QED
        BY <1>1, <4>1 DEF ReportHolds
    <3>2. CASE of \notin pubs
      BY <2>3, <2>5, <3>2 DEF ReportHolds
    <3> QED
      BY <3>1, <3>2
  <2> QED
    BY <2>1, <2>2, <2>6
<1> QED
  BY <1>4, <1>5 DEF ReportInv

(* A report that has just been begun or ended.                              *)
LEMMA FreshReport ==
    ASSUME ReportInv, UNCHANGED published, NEW stage, NEW of, NEW rows,
           report' = Report(stage, of, rows),
           stage \in {"first", "pages", "done", "refused"},
           stage \in {"first", "pages"} => of \in pubs,
           stage = "pages" => RowsReadIn(rows, RowsOfSlice(snap[of])),
           stage = "done" => \/ of = NoPub /\ rows = <<>>
                             \/ of \in pubs /\ rows = RowsOfSlice(snap[of])
    PROVE  ReportInv'
<1>1. PICK rep, slice : rep = Report(stage, of, rows) /\ slice = snap[of]
  OBVIOUS
<1>2. rep.stage = stage /\ rep.of = of /\ rep.rows = rows
  BY <1>1 DEF Report
<1>3. ReportHolds(rep, of, slice)
  BY <1>1, <1>2 DEF ReportHolds
<1>4. ReportHolds(rep, of, slice)'
  BY <1>3 DEF ReportHolds, published
<1>5. report' = rep /\ snap'[of] = slice
  BY <1>1 DEF published
<1>6. PublishedShape'
  BY DEF ReportInv, PublishedShape, published
<1> QED
  BY <1>2, <1>4, <1>5, <1>6 DEF ReportInv

Stages == {"first", "pages", "done", "refused"}

(* What a page changes of a report.                                         *)
LEMMA StageOfReport ==
    ASSUME NEW stage \in Stages, NEW of, NEW rows, NEW stage2 \in Stages
    PROVE  [Report(stage, of, rows) EXCEPT !.stage = stage2] = Report(stage2, of, rows)
BY DEF Report, Stages

(* What a page adds to a report.                                            *)
LEMMA RowsOfReport ==
    ASSUME NEW stage, NEW of, NEW rows, NEW rows2
    PROVE  [Report(stage, of, rows) EXCEPT !.rows = rows2] = Report(stage, of, rows2)
BY DEF Report

(* The first page is a beginning of the snapshot.                           *)
LEMMA FirstPageStep ==
    ASSUME ReportInv, UNCHANGED published, FirstPage
    PROVE  ReportInv'
<1>1. PICK of, slice : of = report.of /\ slice = snap[report.of]
  OBVIOUS
<1>2. /\ report = Report("first", of, report.rows) /\ of \in pubs
  BY <1>1 DEF FirstPage, ReportInv, ReportHolds
<1>3. CASE SnapshotCount(of) > MaxReportRows
  <2>1. report' = [report EXCEPT !.stage = "refused"]
    BY <1>1, <1>3 DEF FirstPage
  <2>2. report' = Report("refused", of, report.rows)
    <3>1. PICK rows : rows = report.rows
      OBVIOUS
    <3>2. [Report("first", of, rows) EXCEPT !.stage = "refused"] = Report("refused", of, rows)
      BY StageOfReport DEF Stages
    <3> QED
      BY <1>2, <2>1, <3>1, <3>2
  <2> QED
    BY <2>2, FreshReport
<1>4. CASE ~(SnapshotCount(of) > MaxReportRows)
  <2>1. PICK rows : rows = FactsForPublication(of, Least(PageSize, MaxReportRows), 0)
    OBVIOUS
  <2>2. report' = [report EXCEPT !.stage = "pages", !.rows = rows]
    BY <1>1, <1>4, <2>1 DEF FirstPage
  <2>3. report' = Report("pages", of, rows)
    <3>1. PICK before : before = report.rows
      OBVIOUS
    <3>2. [Report("first", of, before) EXCEPT !.stage = "pages", !.rows = rows]
            = Report("pages", of, rows)
      <4>1. PICK r : r = [Report("first", of, before) EXCEPT !.stage = "pages"]
        OBVIOUS
      <4>2. r = Report("pages", of, before)
        BY <4>1, StageOfReport DEF Stages
      <4>3. [r EXCEPT !.rows = rows] = Report("pages", of, rows)
        BY <4>2, RowsOfReport
      <4>4. [Report("first", of, before) EXCEPT !.stage = "pages", !.rows = rows]
              = [r EXCEPT !.rows = rows]
        BY <4>1
      <4> QED
        BY <4>3, <4>4
    <3> QED
      BY <1>2, <2>2, <3>1, <3>2
  <2>4. RowsReadIn(rows, RowsOfSlice(slice))
    <3>1. PICK S : RowsOfSlice(slice) \in Seq(S)
      BY RowsAreASequence
    <3>2. PICK whole : whole = RowsOfSlice(slice)
      OBVIOUS
    <3>3. Least(PageSize, MaxReportRows) \in Nat
      BY ReportConstants DEF Least
    <3>4. Len(whole) \in Nat
      BY <3>1, <3>2, LenProperties
    <3>5. PICK m \in 0..Len(whole) :
            Page(whole, Least(PageSize, MaxReportRows), 0) = SubSeq(whole, 0 + 1, m)
      <4>1. 0 \in 0..Len(whole)
        BY <3>4
      <4> QED
        BY <3>1, <3>2, <3>3, <4>1, PageIsAPart
    <3>6. rows = SubSeq(whole, 1, m)
      BY <1>1, <2>1, <3>2, <3>5 DEF FactsForPublication, RowsOfSnapshot
    <3> QED
      BY <3>2, <3>5, <3>6 DEF RowsReadIn
  <2> QED
    BY <1>1, <1>2, <2>3, <2>4, FreshReport
<1> QED
  BY <1>3, <1>4

(* The next page goes on where the last one ended.                          *)
LEMMA NextPageStep ==
    ASSUME ReportInv, UNCHANGED published, NextPage
    PROVE  ReportInv'
<1>1. PICK of, rows, whole : of = report.of /\ rows = report.rows /\ whole = RowsOfSlice(snap[of])
  OBVIOUS
<1>2. report = Report("pages", of, rows) /\ of \in pubs /\ RowsReadIn(rows, whole)
  BY <1>1 DEF NextPage, ReportInv, ReportHolds
<1>3. PICK S : whole \in Seq(S)
  BY <1>1, RowsAreASequence
<1>4. Len(whole) \in Nat
  BY <1>3, LenProperties
<1>5. PICK n \in 0..Len(whole) : rows = SubSeq(whole, 1, n)
  BY <1>2 DEF RowsReadIn
<1>6. Len(rows) = n
  <2>1. \A k \in 1..n : whole[k] \in S
    BY <1>3, <1>4, <1>5, ElementOfSeq
  <2>2. Len(SubSeq(whole, 1, n)) = IF 1 <= n THEN n - 1 + 1 ELSE 0
    BY <1>4, <1>5, <2>1, SubSeqProperties
  <2> QED
    BY <1>4, <1>5, <2>2
<1>7. PICK chunk : chunk = FactsForPublication(of, Least(PageSize, SnapshotCount(of) - Len(rows)),
                                               Len(rows))
  OBVIOUS
<1>8. /\ SnapshotCount(of) = Len(whole)
      /\ report' = IF n >= Len(whole) \/ chunk = <<>> THEN [report EXCEPT !.stage = "done"]
                   ELSE [report EXCEPT !.rows = rows \o chunk]
  BY <1>1, <1>6, <1>7 DEF NextPage, SnapshotCount, RowsOfSnapshot
<1>9. PICK limit \in Nat : /\ limit = Least(PageSize, Len(whole) - n)
                           /\ n < Len(whole) => limit # 0
  <2>1. PICK limit : limit = Least(PageSize, Len(whole) - n)
    OBVIOUS
  <2>2. limit \in Nat /\ (n < Len(whole) => limit # 0)
    BY <1>4, <1>5, <2>1, ReportConstants DEF Least
  <2> QED
    BY <2>1, <2>2
<1>10. PICK m \in n..Len(whole) :
         chunk = SubSeq(whole, n + 1, m) /\ (n < Len(whole) => n < m)
  <2>1. chunk = Page(whole, limit, n)
    BY <1>1, <1>6, <1>7, <1>8, <1>9 DEF FactsForPublication, RowsOfSnapshot
  <2> QED
    BY <1>3, <1>5, <1>9, <2>1, PageIsAPart
<1>11. CASE n = Len(whole)
  <2>1. report' = Report("done", of, rows)
    <3>1. [Report("pages", of, rows) EXCEPT !.stage = "done"] = Report("done", of, rows)
      BY StageOfReport DEF Stages
    <3> QED
      BY <1>2, <1>4, <1>8, <1>11, <3>1
  <2>2. rows = whole
    BY <1>3, <1>5, <1>11, SubSeqFull
  <2> QED
    BY <1>1, <1>2, <2>1, <2>2, FreshReport
<1>12. CASE n < Len(whole)
  <2>1. chunk # <<>>
    <3>1. \A k \in n + 1..m : whole[k] \in S
      BY <1>3, <1>4, <1>5, <1>10, ElementOfSeq
    <3>2. Len(SubSeq(whole, n + 1, m)) = IF n + 1 <= m THEN m - (n + 1) + 1 ELSE 0
      BY <1>4, <1>5, <1>10, <3>1, SubSeqProperties
    <3>3. Len(chunk) # 0
      BY <1>4, <1>5, <1>10, <1>12, <3>2
    <3>4. Len(<<>>) = 0
      BY EmptySeq
    <3> QED
      BY <3>3, <3>4
  <2>2. report' = Report("pages", of, rows \o chunk)
    <3>1. report' = [report EXCEPT !.rows = rows \o chunk]
      BY <1>4, <1>5, <1>8, <1>12, <2>1
    <3>2. PICK more : more = rows \o chunk
      OBVIOUS
    <3>3. [Report("pages", of, rows) EXCEPT !.rows = more] = Report("pages", of, more)
      BY RowsOfReport
    <3> QED
      BY <1>2, <3>1, <3>2, <3>3
  <2>3. rows \o chunk = SubSeq(whole, 1, m)
    <3>1. SubSeq(whole, 1, n) \o SubSeq(whole, n + 1, m) = SubSeq(whole, 1, m)
      BY <1>3, <1>4, <1>5, <1>10, ConcatAdjacentSubSeq
    <3> QED
      BY <1>5, <1>10, <3>1
  <2>4. RowsReadIn(rows \o chunk, whole)
    <3>1. m \in 0..Len(whole)
      BY <1>4, <1>5, <1>10
    <3> QED
      BY <2>3, <3>1 DEF RowsReadIn
  <2> QED
    BY <1>1, <1>2, <2>2, <2>4, FreshReport
<1> QED
  BY <1>4, <1>5, <1>11, <1>12

(* Every step of the downloads keeps the invariant.                         *)
LEMMA ReportStep ==
    ASSUME ReportInv, UNCHANGED published, ReportNext
    PROVE  ReportInv'
<1>1. CASE DownloadPublished
  <2>1. report' = IF current = NoPub THEN Report("done", NoPub, <<>>)
                  ELSE Report("first", current, <<>>)
    BY <1>1 DEF DownloadPublished
  <2>2. current # NoPub => current \in pubs
    BY DEF ReportInv, PublishedShape
  <2>3. CASE current = NoPub
    BY <2>1, <2>3, FreshReport
  <2>4. CASE current # NoPub
    BY <2>1, <2>2, <2>4, FreshReport
  <2> QED
    BY <2>3, <2>4
<1>2. CASE DownloadClientReport
  <2>1. PICK stage : stage = IF current = NoPub THEN "refused" ELSE "first"
    OBVIOUS
  <2>2. report' = Report(stage, current, <<>>)
    BY <1>2, <2>1 DEF DownloadClientReport
  <2>3. current # NoPub => current \in pubs
    BY DEF ReportInv, PublishedShape
  <2> QED
    BY <2>1, <2>2, <2>3, FreshReport
<1>3. ASSUME NEW i \in Ids, DownloadHistorical(i) PROVE ReportInv'
  <2>1. PICK stage : stage = IF i \in pubs THEN "first" ELSE "refused"
    OBVIOUS
  <2>2. report' = Report(stage, i, <<>>)
    BY <1>3, <2>1 DEF DownloadHistorical
  <2> QED
    BY <2>1, <2>2, FreshReport
<1>4. CASE Delivered
  BY <1>4 DEF Delivered, ReportInv, PublishedShape, published
<1> QED
  BY <1>1, <1>2, <1>3, <1>4, FirstPageStep, NextPageStep DEF ReportNext

(* Whoever asks, reads or opens an answer publishes nothing.                *)
LEMMA AskingPublishesNothing ==
    ASSUME AskNext
    PROVE  UNCHANGED published \/ \E i \in Ids : Publishes(i)
<1>1. ASSUME NEW ask, Ask(ask) PROVE UNCHANGED published
  BY <1>1 DEF Ask, Scoped
<1>2. ASSUME Close \/ ReadCurrent \/ ReadCompared PROVE UNCHANGED published
  BY <1>2 DEF Close, ReadCurrent, ReadCompared, published
<1>3. ASSUME NEW point, OpenPoint(point) PROVE UNCHANGED published
  BY <1>3 DEF OpenPoint, Scoped
<1>4. ASSUME NEW row, NEW dimension, OpenRow(row, dimension) PROVE UNCHANGED published
  BY <1>4 DEF OpenRow, Scoped
<1>5. ASSUME NEW row, OpenRanked(row) PROVE UNCHANGED published
  BY <1>5 DEF OpenRanked, Scoped
<1>6. UNCHANGED vars => UNCHANGED published
  BY DEF vars, published
<1>7. ASSUME NEW a, NEW d, NEW called, Proceed(a, d, called) PROVE UNCHANGED published
  BY <1>6, <1>7 DEF Proceed, Scoped
<1>8. ASSUME NEW a, RefuseQuestion(a) \/ AskModel(a) \/ AskQuestion(a) PROVE UNCHANGED published
  BY <1>6, <1>7, <1>8 DEF RefuseQuestion, AskModel, AskQuestion
<1>9. ASSUME NEW raw, IntentReply(raw) \/ IntentFails \/ SelectionReply(raw)
      PROVE  UNCHANGED published
  BY <1>6, <1>7, <1>9 DEF IntentReply, IntentFails, SelectionReply, Scoped
<1>10. ASSUME ViewRefuses \/ TooLittle \/ TrendTooLittle \/ Collect \/ WordByTemplate \/ CloseTalk
       PROVE  UNCHANGED published
  <2>1. ViewRefuses \/ TooLittle \/ TrendTooLittle => UNCHANGED vars
    BY DEF ViewRefuses, TooLittle, TrendTooLittle, NotEnough
  <2>2. Collect => UNCHANGED vars
    BY DEF Collect
  <2>3. WordByTemplate => UNCHANGED vars
    BY DEF WordByTemplate, Say
  <2>4. CloseTalk => UNCHANGED vars \/ Close
    BY DEF CloseTalk
  <2> QED
    BY <1>2, <1>6, <1>10, <2>1, <2>2, <2>3, <2>4
<1>11. ASSUME NEW reply, WordStructured(reply) \/ WordProse(reply) PROVE UNCHANGED published
  BY <1>6, <1>11 DEF WordStructured, WordProse, Say
<1> QED
  BY <1>1, <1>2, <1>3, <1>4, <1>5, <1>8, <1>9, <1>10, <1>11 DEF AskNext

(* The readers that publish nothing leave the report alone.                 *)
LEMMA ReportStands ==
    ASSUME ReportInv, UNCHANGED published, UNCHANGED report
    PROVE  ReportInv'
BY DEF ReportInv, PublishedShape, ReportHolds, published

(* The inductive invariant of the downloads, whatever is published meanwhile. *)
THEOREM ReportsAreSafe == ReadersSpec => []ReportInv
<1>1. ReadersInit => ReportInv
  BY DEF ReadersInit, AskInit, AnalyticsInit, Init, ReportInit, ReportInv, PublishedShape
<1>2. ReportInv /\ [ReadersNext]_readerVars => ReportInv'
  <2> SUFFICES ASSUME ReportInv, [ReadersNext]_readerVars PROVE ReportInv'
    OBVIOUS
  <2>1. CASE UNCHANGED readerVars
    BY <2>1, ReportStands DEF readerVars, askVars, vars, published
  <2>2. CASE AskNext /\ UNCHANGED report
    BY <2>2, AskingPublishesNothing, PublishingKeepsReports, ReportStands
  <2>3. ASSUME NEW i \in Ids, Publishes(i), UNCHANGED report PROVE ReportInv'
    BY <2>3, PublishingKeepsReports
  <2>4. CASE ReportNext /\ UNCHANGED askVars
    BY <2>4, ReportStep DEF askVars, vars, published
  <2>5. CASE UNCHANGED <<askVars, report>>
    BY <2>5, ReportStands DEF askVars, vars, published
  <2> QED
    BY <2>1, <2>2, <2>3, <2>4, <2>5 DEF ReadersNext
<1> QED
  BY <1>1, <1>2, PTL DEF ReadersSpec

(* _facts_for_publication: a report that is done shows every row of the     *)
(* snapshot of one publication, once and in order, however large the page   *)
(* and whatever is published while its pages are read.                      *)
THEOREM OnePublicationPerReport == ReadersSpec => []ReportIsOnePublication
<1>1. ReportInv => ReportIsOnePublication
  <2> SUFFICES ASSUME ReportInv, report # Nothing, report.stage = "done"
               PROVE  report.rows = IF report.of = NoPub THEN <<>> ELSE RowsOfSnapshot(report.of)
    BY DEF ReportIsOnePublication
  <2>1. \/ report.of = NoPub /\ report.rows = <<>>
        \/ report.of \in pubs /\ report.rows = RowsOfSlice(snap[report.of])
    BY DEF ReportInv, ReportHolds
  <2>2. NoPub \notin pubs
    BY DEF ReportInv, PublishedShape, NoPub, Ids
  <2> QED
    BY <2>1, <2>2 DEF RowsOfSnapshot
<1> QED
  BY <1>1, ReportsAreSafe, PTL

-----------------------------------------------------------------------------
(* The sums of the parts of a finite set, one element at a time.            *)
Some(s) == CHOOSE x \in s : TRUE
(* A function that adds up f over every part of S, an element at a time; the *)
(* sum it gives of S, whichever such function is chosen.                    *)
Solves(it, f, S) ==
    it = [s \in SUBSET S |-> IF s = {} THEN 0 ELSE f[Some(s)] + it[s \ {Some(s)}]]
SumIn(f, S) == (CHOOSE it : Solves(it, f, S))[S]

(* SumOf is that sum over the function's whole domain.                      *)
LEMMA SumIs == \A f : SumOf(f) = SumIn(f, DOMAIN f)
  BY DEF SumOf, FoldFunction, FoldFunctionOnSet, MapThenFoldSet, Solves, SumIn, Some

(* Of some finite sets, one has no proper part among them.                  *)
LEMMA SmallestSet ==
    ASSUME NEW S, IsFiniteSet(S), NEW C, C \subseteq SUBSET S, C # {}
    PROVE  \E t \in C : \A u \in C : ~(u \subseteq t /\ u # t)
<1> DEFINE R == StrictSubsetOrdering(S)
           D == FiniteSubsetsOf(S)
<1>1. IsWellFoundedOn(R, D)
  BY FS_StrictSubsetOrderingWellFounded
<1>2. \A u \in C : u \in D
  BY FS_Subset DEF FiniteSubsetsOf
<1>3. PICK t \in C : \A u \in C : ~(<<u, t>> \in R)
  <2> HIDE DEF R, D
  <2> QED
    BY <1>1, <1>2, WFMin
<1>4. \A u \in C : u \subseteq t /\ u # t => <<u, t>> \in R
  BY DEF StrictSubsetOrdering
<1> HIDE DEF R
<1>5. \A u \in C : ~(u \subseteq t /\ u # t)
  BY <1>3, <1>4
<1> QED
  BY <1>5

(* CHOOSE picks an element.                                                 *)
LEMMA SomeIs == \A s : s # {} => Some(s) \in s
  BY DEF Some

(* The recursion, at one part.                                              *)
LEMMA SolvesStep ==
    ASSUME NEW it, NEW f, NEW S, Solves(it, f, S), NEW s, s \subseteq S
    PROVE  it[s] = IF s = {} THEN 0 ELSE f[Some(s)] + it[s \ {Some(s)}]
  BY DEF Solves

(* Two such functions agree wherever both are defined.                      *)
LEMMA OneSolution ==
    ASSUME NEW f, NEW S, NEW T, NEW it, NEW jt, Solves(it, f, S), Solves(jt, f, T),
           NEW U, U \subseteq S, U \subseteq T, IsFiniteSet(U)
    PROVE  it[U] = jt[U]
<1> DEFINE C == {s \in SUBSET U : it[s] # jt[s]}
<1> SUFFICES ASSUME C # {} PROVE FALSE
  OBVIOUS
<1>1. PICK t \in C : \A u \in C : ~(u \subseteq t /\ u # t)
  <2>1. C \subseteq SUBSET U
    OBVIOUS
  <2> HIDE DEF C
  <2> QED
    BY <2>1, SmallestSet
<1>2. t \subseteq S /\ t \subseteq T /\ t \subseteq U
  OBVIOUS
<1>3. /\ it[t] = IF t = {} THEN 0 ELSE f[Some(t)] + it[t \ {Some(t)}]
      /\ jt[t] = IF t = {} THEN 0 ELSE f[Some(t)] + jt[t \ {Some(t)}]
  <2> HIDE DEF C
  <2>1. it[t] = IF t = {} THEN 0 ELSE f[Some(t)] + it[t \ {Some(t)}]
    BY <1>2, SolvesStep
  <2>2. jt[t] = IF t = {} THEN 0 ELSE f[Some(t)] + jt[t \ {Some(t)}]
    BY <1>2, SolvesStep
  <2> QED
    BY <2>1, <2>2
<1>4. t # {}
  BY <1>3
<1>5. PICK u : u = t \ {Some(t)}
  OBVIOUS
<1>6. u \subseteq t /\ u # t
  BY <1>4, <1>5, SomeIs
<1>7. it[u] = jt[u]
  BY <1>1, <1>2, <1>6
<1> QED
  BY <1>3, <1>5, <1>7

(* There is such a function for every finite set.                           *)
LEMMA ASolution ==
    ASSUME NEW f, NEW S, IsFiniteSet(S)
    PROVE  \E it : Solves(it, f, S)
<1> DEFINE C == {s \in SUBSET S : ~\E it : Solves(it, f, s)}
<1> SUFFICES ASSUME C # {} PROVE FALSE
  OBVIOUS
<1>1. PICK t \in C : \A u \in C : ~(u \subseteq t /\ u # t)
  <2>1. C \subseteq SUBSET S
    OBVIOUS
  <2> HIDE DEF C
  <2> QED
    BY <2>1, SmallestSet
<1>2. \A u : u \subseteq t /\ u # t => \E it : Solves(it, f, u)
  BY <1>1
<1> DEFINE of(u) == CHOOSE it : Solves(it, f, u)
<1>3. \A u : u \subseteq t /\ u # t => Solves(of(u), f, u)
  BY <1>2
<1>4. \A u : u \subseteq t /\ u # t => IsFiniteSet(u)
  BY FS_Subset
<1> HIDE DEF of
<1>5. ASSUME NEW u, u \subseteq t, u # t, u # {}
      PROVE  of(u)[u] = f[Some(u)] + of(u \ {Some(u)})[u \ {Some(u)}]
  <2>1. PICK v : v = u \ {Some(u)}
    OBVIOUS
  <2>2. v \subseteq u /\ v \subseteq t /\ v # t
    BY <1>5, <2>1
  <2>3. of(u)[u] = f[Some(u)] + of(u)[v]
    BY <1>3, <1>5, <2>1, SolvesStep
  <2>4. of(u)[v] = of(v)[v]
    BY <1>3, <1>4, <1>5, <2>2, OneSolution
  <2> QED
    BY <2>1, <2>3, <2>4
<1>6. {} # t => of({})[{}] = 0
  BY <1>3, SolvesStep
<1> DEFINE g == [s \in SUBSET t |-> IF s = {} THEN 0
                                    ELSE f[Some(s)] + of(s \ {Some(s)})[s \ {Some(s)}]]
<1>7. ASSUME NEW s, s \subseteq t, s # {}
      PROVE  g[s \ {Some(s)}] = of(s \ {Some(s)})[s \ {Some(s)}]
  <2>1. PICK v : v = s \ {Some(s)}
    OBVIOUS
  <2>2. v \subseteq t /\ v # t
    BY <1>7, <2>1, SomeIs
  <2>3. CASE v = {}
    BY <1>6, <2>1, <2>2, <2>3
  <2>4. CASE v # {}
    BY <1>5, <2>1, <2>2, <2>4
  <2> QED
    BY <2>3, <2>4
<1>8. Solves(g, f, t)
  <2>1. \A s \in SUBSET t : g[s] = IF s = {} THEN 0 ELSE f[Some(s)] + g[s \ {Some(s)}]
    BY <1>7
  <2>2. g = [s \in SUBSET t |-> g[s]]
    OBVIOUS
  <2> HIDE DEF g
  <2> QED
    BY <2>1, <2>2 DEF Solves
<1> QED
  BY <1>1, <1>8

(* A sum over a finite set, element by element.                             *)
LEMMA SumStep ==
    ASSUME NEW f, NEW S, IsFiniteSet(S)
    PROVE  SumIn(f, S) = IF S = {} THEN 0 ELSE f[Some(S)] + SumIn(f, S \ {Some(S)})
<1>1. \A T : IsFiniteSet(T) => Solves(CHOOSE it : Solves(it, f, T), f, T)
  BY ASolution
<1>2. PICK it : it = CHOOSE jt : Solves(jt, f, S)
  OBVIOUS
<1>3. SumIn(f, S) = it[S] /\ Solves(it, f, S)
  BY <1>1, <1>2 DEF SumIn
<1>4. it[S] = IF S = {} THEN 0 ELSE f[Some(S)] + it[S \ {Some(S)}]
  BY <1>3, SolvesStep
<1>5. PICK T : T = S \ {Some(S)}
  OBVIOUS
<1>6. T \subseteq S /\ IsFiniteSet(T)
  BY <1>5, FS_Subset
<1>7. PICK jt : jt = CHOOSE lt : Solves(lt, f, T)
  OBVIOUS
<1>8. SumIn(f, T) = jt[T] /\ Solves(jt, f, T)
  BY <1>1, <1>6, <1>7 DEF SumIn
<1>9. it[T] = jt[T]
  BY <1>3, <1>6, <1>8, OneSolution
<1> QED
  BY <1>3, <1>4, <1>5, <1>8, <1>9

(* Nothing adds up to zero.                                                 *)
LEMMA SumOfNone == \A f : SumIn(f, {}) = 0
  BY SumStep, FS_EmptySet

(* Integers add up to an integer.                                           *)
LEMMA SumIsInt ==
    ASSUME NEW f, NEW S, IsFiniteSet(S), \A x \in S : f[x] \in Int
    PROVE  SumIn(f, S) \in Int
<1> DEFINE C == {s \in SUBSET S : SumIn(f, s) \notin Int}
<1> SUFFICES ASSUME C # {} PROVE FALSE
  OBVIOUS
<1>1. PICK t \in C : \A u \in C : ~(u \subseteq t /\ u # t)
  <2>1. C \subseteq SUBSET S
    OBVIOUS
  <2> HIDE DEF C
  <2> QED
    BY <2>1, SmallestSet
<1>2. t \subseteq S /\ IsFiniteSet(t) /\ SumIn(f, t) \notin Int
  BY FS_Subset
<1>3. SumIn(f, t) = IF t = {} THEN 0 ELSE f[Some(t)] + SumIn(f, t \ {Some(t)})
  BY <1>2, SumStep
<1>4. t # {}
  BY <1>2, <1>3
<1>5. PICK u : u = t \ {Some(t)}
  OBVIOUS
<1>6. u \subseteq t /\ u # t /\ Some(t) \in S
  BY <1>2, <1>4, <1>5, SomeIs
<1>7. SumIn(f, u) \in Int
  BY <1>1, <1>2, <1>6
<1> QED
  BY <1>2, <1>3, <1>4, <1>5, <1>6, <1>7

(* Any element may be added last.                                           *)
LEMMA SumTakes ==
    ASSUME NEW f, NEW S, IsFiniteSet(S), \A x \in S : f[x] \in Int, NEW e \in S
    PROVE  SumIn(f, S) = f[e] + SumIn(f, S \ {e})
<1> DEFINE C == {s \in SUBSET S : \E y \in s : SumIn(f, s) # f[y] + SumIn(f, s \ {y})}
<1> SUFFICES ASSUME C # {} PROVE FALSE
  OBVIOUS
<1>1. PICK t \in C : \A u \in C : ~(u \subseteq t /\ u # t)
  <2>1. C \subseteq SUBSET S
    OBVIOUS
  <2> HIDE DEF C
  <2> QED
    BY <2>1, SmallestSet
<1>2. PICK y \in t : t \subseteq S /\ SumIn(f, t) # f[y] + SumIn(f, t \ {y})
  OBVIOUS
<1>3. \A u : u \subseteq t /\ u # t => \A z \in u : SumIn(f, u) = f[z] + SumIn(f, u \ {z})
  BY <1>1, <1>2
<1> HIDE DEF C
<1>4. \A u : u \subseteq S => IsFiniteSet(u) /\ SumIn(f, u) \in Int
  BY FS_Subset, SumIsInt
<1>5. PICK x : x = Some(t)
  OBVIOUS
<1>6. x \in t /\ SumIn(f, t) = f[x] + SumIn(f, t \ {x})
  BY <1>2, <1>4, <1>5, SumStep, SomeIs
<1>7. x # y
  BY <1>2, <1>6
<1>8. SumIn(f, t \ {x}) = f[y] + SumIn(f, (t \ {x}) \ {y})
  BY <1>2, <1>3, <1>6, <1>7
<1>9. SumIn(f, t \ {y}) = f[x] + SumIn(f, (t \ {y}) \ {x})
  BY <1>2, <1>3, <1>6, <1>7
<1>10. PICK rest : rest = SumIn(f, (t \ {y}) \ {x})
  OBVIOUS
<1>11. (t \ {y}) \ {x} = (t \ {x}) \ {y}
  OBVIOUS
<1>12. rest \in Int /\ f[x] \in Int /\ f[y] \in Int
  BY <1>2, <1>4, <1>6, <1>10
<1>13. SumIn(f, t) = f[x] + (f[y] + rest) /\ f[y] + SumIn(f, t \ {y}) = f[y] + (f[x] + rest)
  BY <1>6, <1>8, <1>9, <1>10, <1>11
<1> QED
  BY <1>2, <1>12, <1>13

(* The sum of the elements of two sets that share none.                     *)
LEMMA SumJoins ==
    ASSUME NEW f, NEW A, NEW B, IsFiniteSet(A), IsFiniteSet(B), A \cap B = {},
           \A x \in A \cup B : f[x] \in Int
    PROVE  SumIn(f, A \cup B) = SumIn(f, A) + SumIn(f, B)
<1> DEFINE C == {s \in SUBSET B : SumIn(f, A \cup s) # SumIn(f, A) + SumIn(f, s)}
<1> SUFFICES ASSUME C # {} PROVE FALSE
  OBVIOUS
<1>1. PICK t \in C : \A u \in C : ~(u \subseteq t /\ u # t)
  <2>1. C \subseteq SUBSET B
    OBVIOUS
  <2> HIDE DEF C
  <2> QED
    BY <2>1, SmallestSet
<1>2. t \subseteq B /\ SumIn(f, A \cup t) # SumIn(f, A) + SumIn(f, t)
  OBVIOUS
<1>3. \A u : u \subseteq t /\ u # t => SumIn(f, A \cup u) = SumIn(f, A) + SumIn(f, u)
  BY <1>1, <1>2
<1> HIDE DEF C
<1>4. \A u : u \subseteq B => /\ IsFiniteSet(u) /\ SumIn(f, u) \in Int /\ IsFiniteSet(A \cup u)
                              /\ SumIn(f, A \cup u) \in Int
  BY FS_Subset, FS_Union, SumIsInt
<1>5. SumIn(f, A) \in Int
  BY SumIsInt
<1>6. t # {}
  <2>1. A \cup {} = A
    OBVIOUS
  <2>2. SumIn(f, {}) = 0
    BY SumOfNone
  <2>3. ASSUME t = {} PROVE FALSE
    <3>1. SumIn(f, A) # SumIn(f, A) + 0
      BY <1>2, <2>1, <2>2, <2>3
    <3> QED
      BY <1>5, <3>1
  <2> QED
    BY <2>3
<1>7. PICK y : y \in t
  BY <1>6
<1>8. PICK u : u = t \ {y}
  OBVIOUS
<1>9. u \subseteq t /\ u # t /\ u \subseteq B /\ A \cup u = (A \cup t) \ {y}
  BY <1>2, <1>7, <1>8
<1>10. SumIn(f, t) = f[y] + SumIn(f, u)
  BY <1>2, <1>4, <1>7, <1>8, SumTakes
<1>11. SumIn(f, A \cup t) = f[y] + SumIn(f, A \cup u)
  <2>1. \A x \in A \cup t : f[x] \in Int
    BY <1>2
  <2> QED
    BY <1>2, <1>4, <1>7, <1>9, <2>1, SumTakes
<1>12. SumIn(f, A \cup u) = SumIn(f, A) + SumIn(f, u)
  BY <1>3, <1>9
<1>13. f[y] \in Int /\ SumIn(f, u) \in Int
  BY <1>2, <1>4, <1>7, <1>9
<1> QED
  BY <1>2, <1>5, <1>10, <1>11, <1>12, <1>13

(* A sum is of what its function says of the elements.                      *)
LEMMA SumIsOfValues ==
    ASSUME NEW f, NEW g, NEW S, IsFiniteSet(S), \A x \in S : f[x] = g[x]
    PROVE  SumIn(f, S) = SumIn(g, S)
<1> DEFINE C == {s \in SUBSET S : SumIn(f, s) # SumIn(g, s)}
<1> SUFFICES ASSUME C # {} PROVE FALSE
  OBVIOUS
<1>1. PICK t \in C : \A u \in C : ~(u \subseteq t /\ u # t)
  <2>1. C \subseteq SUBSET S
    OBVIOUS
  <2> HIDE DEF C
  <2> QED
    BY <2>1, SmallestSet
<1>2. t \subseteq S /\ SumIn(f, t) # SumIn(g, t)
  OBVIOUS
<1>3. \A u : u \subseteq t /\ u # t => SumIn(f, u) = SumIn(g, u)
  BY <1>1, <1>2
<1> HIDE DEF C
<1>4. IsFiniteSet(t)
  BY <1>2, FS_Subset
<1>5. /\ SumIn(f, t) = IF t = {} THEN 0 ELSE f[Some(t)] + SumIn(f, t \ {Some(t)})
      /\ SumIn(g, t) = IF t = {} THEN 0 ELSE g[Some(t)] + SumIn(g, t \ {Some(t)})
  <2>1. SumIn(f, t) = IF t = {} THEN 0 ELSE f[Some(t)] + SumIn(f, t \ {Some(t)})
    BY <1>4, SumStep
  <2>2. SumIn(g, t) = IF t = {} THEN 0 ELSE g[Some(t)] + SumIn(g, t \ {Some(t)})
    BY <1>4, SumStep
  <2> QED
    BY <2>1, <2>2
<1>6. t # {}
  BY <1>2, <1>5
<1>7. PICK u : u = t \ {Some(t)}
  OBVIOUS
<1>8. u \subseteq t /\ u # t /\ Some(t) \in S
  BY <1>2, <1>6, <1>7, SomeIs
<1>9. SumIn(f, u) = SumIn(g, u) /\ f[Some(t)] = g[Some(t)]
  BY <1>3, <1>8
<1> QED
  BY <1>2, <1>5, <1>6, <1>7, <1>9

(* The sum of the sums of the groups of a key is the sum of all.            *)
LEMMA SumOfGroups ==
    ASSUME NEW f, NEW S, IsFiniteSet(S), \A x \in S : f[x] \in Int,
           NEW k, NEW K, IsFiniteSet(K), \A x \in S : k[x] \in K,
           NEW p, \A j \in K : p[j] = SumIn(f, {x \in S : k[x] = j})
    PROVE  SumIn(f, S) = SumIn(p, K)
<1> DEFINE Part(J) == {x \in S : k[x] \in J}
           C == {J \in SUBSET K : SumIn(f, Part(J)) # SumIn(p, J)}
<1>1. \A J : IsFiniteSet(Part(J)) /\ Part(J) \subseteq S
  BY FS_Subset
<1>2. \A j \in K : p[j] \in Int
  <2> SUFFICES ASSUME NEW j \in K PROVE p[j] \in Int
    OBVIOUS
  <2>1. PICK T : T = {x \in S : k[x] = j}
    OBVIOUS
  <2>2. IsFiniteSet(T) /\ T \subseteq S
    BY <2>1, FS_Subset
  <2>3. \A x \in T : f[x] \in Int
    BY <2>2
  <2>4. SumIn(f, T) \in Int
    BY <2>2, <2>3, SumIsInt
  <2> QED
    BY <2>1, <2>4
<1>3. C = {}
  <2> SUFFICES ASSUME C # {} PROVE FALSE
    OBVIOUS
  <2>1. PICK t \in C : \A u \in C : ~(u \subseteq t /\ u # t)
    <3>1. C \subseteq SUBSET K
      OBVIOUS
    <3> HIDE DEF C
    <3> QED
      BY <3>1, SmallestSet
  <2>2. t \subseteq K /\ SumIn(f, Part(t)) # SumIn(p, t)
    OBVIOUS
  <2>3. \A u : u \subseteq t /\ u # t => SumIn(f, Part(u)) = SumIn(p, u)
    BY <2>1, <2>2
  <2> HIDE DEF C
  <2>4. IsFiniteSet(t)
    BY <2>2, FS_Subset
  <2>5. t # {}
    <3>1. Part({}) = {}
      OBVIOUS
    <3> QED
      BY <2>2, <3>1, SumOfNone
  <2>6. PICK j : j \in t
    BY <2>5
  <2>7. PICK u : u = t \ {j}
    OBVIOUS
  <2>8. SumIn(p, t) = p[j] + SumIn(p, u)
    BY <1>2, <2>2, <2>4, <2>6, <2>7, SumTakes
  <2>9. PICK one : one = {x \in S : k[x] = j}
    OBVIOUS
  <2>10. Part(t) = Part(u) \cup one /\ Part(u) \cap one = {} /\ IsFiniteSet(one) /\ one \subseteq S
    <3>1. IsFiniteSet(one) /\ one \subseteq S
      BY <2>9, FS_Subset
    <3> QED
      BY <2>6, <2>7, <2>9, <3>1
  <2>11. SumIn(f, Part(t)) = SumIn(f, Part(u)) + SumIn(f, one)
    <3>1. \A x \in Part(u) \cup one : f[x] \in Int
      BY <1>1, <2>10
    <3> HIDE DEF Part
    <3> QED
      BY <1>1, <2>10, <3>1, SumJoins
  <2>12. SumIn(f, Part(u)) = SumIn(p, u)
    BY <2>3, <2>6, <2>7
  <2>13. p[j] = SumIn(f, one) /\ p[j] \in Int
    BY <1>2, <2>2, <2>6, <2>9
  <2>14. SumIn(p, u) \in Int
    BY <1>2, <2>2, <2>4, <2>7, FS_Subset, SumIsInt
  <2> QED
    BY <2>2, <2>8, <2>11, <2>12, <2>13, <2>14
<1>4. Part(K) = S
  OBVIOUS
<1>5. \A J : J \subseteq K => SumIn(f, Part(J)) = SumIn(p, J)
  BY <1>3
<1> HIDE DEF Part
<1> QED
  BY <1>4, <1>5

-----------------------------------------------------------------------------
(* What may be asked: a request of a page, of a question, or of a trend a   *)
(* question had chosen without a comparison.                                *)
Requests ==
    {ask.request : ask \in Asks} \cup {a.request : a \in Questions}
    \cup {WithoutComparison(a.request) : a \in Questions}

(* A decision is for an operation of the registry, or for none.             *)
InRegistry(d) ==
    d.operation # None => d.operation \in DOMAIN Operations /\ d.metric \in DOMAIN Metrics \cup {None}

(* A talk is a record of its fields, about one of the questions; until it has *)
(* been read, its decision is of the registry.                              *)
TalkInv ==
    talk # None =>
        /\ talk = [stage |-> talk.stage, ask |-> talk.ask, decision |-> talk.decision,
                   called |-> talk.called, evidence |-> talk.evidence, said |-> talk.said]
        /\ talk.ask \in Questions
        /\ talk.stage = "intent" => InRegistry(talk.decision)

(* What a question reads of a history, what it answers from one, and the scope *)
(* a request has in one.                                                    *)
ReadFor(q, sc, h) == ReadOf(q, sc, RowsOf(h))
AnswerFor(q, sc, now, h) == AnswerOf(q, sc, now, RowsOf(h))
ScopeFor(r, h) == ResolveScope(RowsOf(h), r)

(* An answer is what its question gives of the two histories it was read    *)
(* from.                                                                    *)
AnswerInv ==
    /\ step # "idle" =>
        /\ request \in Requests
        /\ \E h : scope = ScopeFor(request, h)
        /\ NamesTheKnown(question)
    /\ step \in {"scoped", "current", "answered"} => scope # Refused
    /\ seen = [current |-> seen.current, compared |-> seen.compared]
    /\ step = "current" =>
        /\ scope # NoScope /\ reads # Refused
        /\ reads = ReadFor(question, scope, seen.current)
    /\ step = "scoped" => scope # NoScope
    /\ step = "answered" /\ scope = NoScope => answer = {}
    /\ step = "answered" /\ scope # NoScope =>
        /\ reads # Refused
        /\ reads = ReadFor(question, scope, seen.current)
        /\ answer = AnswerFor(question, scope, reads, seen.compared)

AskInv == TalkInv /\ AnswerInv

-----------------------------------------------------------------------------

(* A request whose scope is resolved has no answer yet.                     *)
LEMMA ScopedFits ==
    ASSUME NEW r \in Requests, NEW q, NEW cell, NamesTheKnown(q), Scoped(r, q, cell)
    PROVE  AnswerInv'
<1>1. PICK s : s = ScopeFor(r, history)
  OBVIOUS
<1>2. /\ request' = r /\ question' = q /\ scope' = s
      /\ seen' = NoSeen
      /\ step' = IF s = Refused THEN "refused" ELSE IF s = NoScope THEN "answered" ELSE "scoped"
      /\ answer' = {}
  BY <1>1 DEF Scoped, ScopeFor
<1>3. \E h : s = ScopeFor(r, h)
  BY <1>1
<1>4. seen' = [current |-> seen'.current, compared |-> seen'.compared]
  BY <1>2 DEF NoSeen
<1>5. NamesTheKnown(question')
  BY <1>2
<1> QED
  BY <1>2, <1>3, <1>4, <1>5 DEF AnswerInv

(* A step that leaves the request alone leaves the answer right.            *)
LEMMA AnswerStands ==
    ASSUME AnswerInv, UNCHANGED <<step, request, question, scope, seen, reads, answer>>
    PROVE  AnswerInv'
BY DEF AnswerInv

(* Each of the two reads is of the history as it is then.                   *)
LEMMA ReadStep ==
    ASSUME AnswerInv, ReadCurrent \/ ReadCompared
    PROVE  AnswerInv'
<1>1. CASE ReadCurrent
  <2>1. PICK new : new = ReadFor(question, scope, history)
    OBVIOUS
  <2>2. /\ reads' = new /\ step = "scoped" /\ UNCHANGED <<request, question, scope>>
        /\ step' = IF new = Refused THEN "refused" ELSE "current"
        /\ seen' = [seen EXCEPT !.current = history]
    BY <1>1, <2>1 DEF ReadCurrent, ReadFor
  <2>3. PICK a, b : seen = [current |-> a, compared |-> b]
    BY DEF AnswerInv
  <2>4. seen' = [current |-> history, compared |-> b]
    BY <2>2, <2>3
  <2>5. seen'.current = history /\ seen' = [current |-> seen'.current, compared |-> seen'.compared]
    BY <2>4
  <2> QED
    BY <2>1, <2>2, <2>5 DEF AnswerInv
<1>2. CASE ReadCompared
  <2>1. PICK new : new = AnswerFor(question, scope, reads, history)
    OBVIOUS
  <2>2. /\ answer' = new /\ step = "current" /\ UNCHANGED <<request, question, scope, reads>>
        /\ step' = "answered"
        /\ seen' = [seen EXCEPT !.compared = history]
    BY <1>2, <2>1 DEF ReadCompared, AnswerFor
  <2>3. PICK a, b : seen = [current |-> a, compared |-> b]
    BY DEF AnswerInv
  <2>4. seen' = [current |-> a, compared |-> history]
    BY <2>2, <2>3
  <2>5. /\ seen'.current = seen.current /\ seen'.compared = history
        /\ seen' = [current |-> seen'.current, compared |-> seen'.compared]
    BY <2>3, <2>4
  <2> QED
    BY <2>1, <2>2, <2>5 DEF AnswerInv
<1> QED
  BY <1>1, <1>2

(* The parents of a path, and the path of a row, are lists.                 *)
LEMMA ListsAre ==
    /\ IsList(<<>>)
    /\ \A a : IsList(<<a>>)
    /\ \A a, b : IsList(<<a, b>>)
    /\ \A s, a : IsList(s) => IsList(s \o <<a>>)
<1>1. IsList(<<>>) /\ (\A a : IsList(<<a>>)) /\ (\A a, b : IsList(<<a, b>>))
  BY DEF IsList
<1>2. ASSUME NEW s, NEW a, IsList(s) PROVE IsList(s \o <<a>>)
  <2>1. PICK S : S = {s[i] : i \in DOMAIN s}
    OBVIOUS
  <2>2. s \in Seq(S) /\ <<a>> \in Seq({a})
    BY <1>2, <2>1 DEF IsList
  <2>3. PICK t : t = s \o <<a>>
    OBVIOUS
  <2>4. t \in Seq(S \cup {a})
    BY <2>2, <2>3
  <2>5. t \in Seq({t[i] : i \in DOMAIN t})
    BY <2>4
  <2> QED
    BY <2>3, <2>5 DEF IsList
<1> QED
  BY <1>1, <1>2

(* The rows of an explorer ranking lead to lists of parents.                *)
LEMMA PathsAreLists ==
    ASSUME NEW q, q.view = "explorer", NEW sc, NEW now, NEW h, NEW row \in AnswerFor(q, sc, now, h)
    PROVE  IsList(row.path)
<1>1. PICK built, total : row \in ExplorerRows(q, built, total)
  BY DEF AnswerFor, AnswerOf, ExplorerAnswer
<1>2. PICK r, rank : row = ExplorerRow(q, r, rank, total)
  BY <1>1 DEF ExplorerRows, Ranked
<1>3. row.path = DrillPath(q, r)
  BY <1>2 DEF ExplorerRow
<1>4. DrillPath(q, r) = <<>> \/ (\E a : DrillPath(q, r) = <<a>>) \/ (\E a, b : DrillPath(q, r) = <<a, b>>)
  BY DEF DrillPath
<1> QED
  BY <1>3, <1>4, ListsAre

(* Opening a cell of an answer starts a drilldown of a known metric.        *)
LEMMA OpenStep ==
    ASSUME AnswerInv, NEW cell \in answer,
           \/ OpenPoint(cell)
           \/ \E dimension \in DrillDimensions : OpenRow(cell, dimension)
           \/ OpenRanked(cell)
    PROVE  AnswerInv'
<1>1. step = "answered"
  BY DEF OpenPoint, OpenRow, OpenRanked
<1>2. request \in Requests /\ NamesTheKnown(question) /\ scope # NoScope
  BY <1>1 DEF AnswerInv
<1> DEFINE Opens(p) == \E dimension, slice, of : Scoped(request, Opened(question.metric, dimension, p, slice), of)
<1>3. \E p : Opens(p) /\ IsList(p) /\ question.metric \in DOMAIN Metrics
  <2>1. CASE OpenPoint(cell)
    <3>1. question.metric \in DOMAIN Metrics
      BY <1>2, <2>1 DEF OpenPoint, NamesTheKnown
    <3> QED
      BY <2>1, <3>1, ListsAre DEF OpenPoint
  <2>2. ASSUME NEW d, OpenRow(cell, d)
        PROVE  \E p : Opens(p) /\ IsList(p) /\ question.metric \in DOMAIN Metrics
    <3>1. question.metric \in DOMAIN Metrics /\ IsList(question.parents)
      BY <1>2, <2>2 DEF OpenRow, NamesTheKnown
    <3> QED
      BY <2>2, <3>1, ListsAre DEF OpenRow
  <2>3. CASE OpenRanked(cell)
    <3>1. question.metric \in DOMAIN Metrics
      BY <1>2, <2>3 DEF OpenRanked, NamesTheKnown
    <3>2. answer = AnswerFor(question, scope, reads, seen.compared)
      BY <1>1, <1>2 DEF AnswerInv
    <3>3. IsList(cell.path)
      BY <2>3, <3>2, PathsAreLists DEF OpenRanked
    <3> QED
      BY <2>3, <3>1, <3>3 DEF OpenRanked
  <2> QED
    BY <2>1, <2>2, <2>3
<1>4. PICK dimension, parents, slice, of :
        /\ Scoped(request, Opened(question.metric, dimension, parents, slice), of)
        /\ IsList(parents) /\ question.metric \in DOMAIN Metrics
  BY <1>3
<1>5. NamesTheKnown(Opened(question.metric, dimension, parents, slice))
  BY <1>4 DEF NamesTheKnown, Opened
<1> QED
  BY <1>2, <1>4, <1>5, ScopedFits

(* Closing a request leaves nothing of it.                                  *)
LEMMA CloseStep ==
    ASSUME AnswerInv, Close
    PROVE  AnswerInv'
BY DEF Close, AnswerInv, NoSeen

(* apply_operation_spec leaves no operation but those of the registry.      *)
LEMMA SpecIsApplied == \A d : InRegistry(ApplyOperationSpec(d))
<1> SUFFICES ASSUME NEW d PROVE InRegistry(ApplyOperationSpec(d))
  OBVIOUS
<1>1. \A reason : Unsupported(reason).operation = None
  BY DEF Unsupported, Run
<1>2. CASE d.operation = None \/ d.operation \notin DOMAIN Operations
  BY <1>1, <1>2 DEF ApplyOperationSpec, InRegistry
<1>3. CASE d.operation # None /\ d.operation \in DOMAIN Operations
  <2>1. PICK op, spec : op = d.operation /\ spec = Operations[op]
    OBVIOUS
  <2>2. PICK run : run = Run(op, d.metric, None, d.groups)
    OBVIOUS
  <2>5. run.operation = op /\ run.metric = d.metric
    BY <2>2 DEF Run
  <2>3. \/ \E reason : Allowed(d, spec) = Unsupported(reason)
        \/ /\ d.metric \in DOMAIN Metrics \cup {None}
           /\ Allowed(d, spec) = run \/ Allowed(d, spec) = d
    BY <2>1, <2>2 DEF Allowed
  <2>4. ApplyOperationSpec(d) = Allowed(d, spec)
    BY <1>3, <2>1 DEF ApplyOperationSpec
  <2> QED
    BY <1>1, <1>3, <2>1, <2>3, <2>4, <2>5 DEF InRegistry
<1> QED
  BY <1>2, <1>3

(* A question that is taken up asks for a view, about a dimension.          *)
LEMMA QuestionIsKnown ==
    ASSUME NEW a \in Questions, NEW d, d.operation \in DOMAIN Operations,
           d.metric \in DOMAIN Metrics \cup {None}, ~RefusedDimension(d, a.focus)
    PROVE  NamesTheKnown(QuestionOf(d, a.focus))
<1>1. PICK f : f = a.focus
  OBVIOUS
<1>2. f.dimension \in Dimensions \cup {None, "day"}
  BY <1>1, NamesAreKnown
<1>3. PICK view : view = Operations[d.operation].view
  OBVIOUS
<1>4. PICK q : q = QuestionOf(d, f)
  OBVIOUS
<1>5. view = "insights" => f.dimension \in Dimensions \cup {None}
  BY <1>1, <1>2, <1>3 DEF RefusedDimension
<1>6. CASE view = "insights"
  <2>1. PICK m : m = Or(d.metric, f.metric)
    OBVIOUS
  <2>2. q = SignalQuestion("insights", m, f.dimension)
    BY <1>3, <1>4, <1>6, <2>1 DEF QuestionOf
  <2>3. q.dimensions = DriverDimensions(f.dimension)
    BY <2>2 DEF SignalQuestion
  <2>4. q.dimensions \in Seq(Dimensions)
    <3>1. CASE f.dimension = None
      BY <2>3, <3>1 DEF DriverDimensions, Dimensions
    <3>2. CASE f.dimension \in Dimensions /\ f.dimension # None
      BY <2>3, <3>2 DEF DriverDimensions
    <3> QED
      BY <1>5, <1>6, <3>1, <3>2
  <2>6. q.view = "insights"
    BY <2>2 DEF SignalQuestion
  <2>5. q.metric \in DOMAIN Metrics \cup {None}
    <3>1. f.metric \in DOMAIN Metrics \cup {None}
      BY <1>1, NamesAreKnown
    <3>2. m \in DOMAIN Metrics \cup {None}
      BY <2>1, <3>1 DEF Or
    <3> QED
      BY <2>2, <3>2 DEF SignalQuestion
  <2> QED
    BY <1>1, <1>4, <2>4, <2>5, <2>6 DEF NamesTheKnown
<1>7. CASE view \in {"overview", "anomalies"}
  <2>1. q.view \in {"overview", "anomalies"}
    BY <1>3, <1>4, <1>7 DEF QuestionOf, SignalQuestion
  <2> QED
    BY <1>1, <1>4, <2>1 DEF NamesTheKnown
<1>9. CASE view \in {"explorer", "trends", "drilldown"}
  <2>1. PICK m : m = MetricOf(d, f)
    OBVIOUS
  <2>2. {f.metric, f.trend_metric, f.explorer_metric, f.drill_metric} \subseteq DOMAIN Metrics \cup {None}
    BY <1>1, NamesAreKnown
  <2>3. m \in DOMAIN Metrics
    <3>1. "total_cost" \in DOMAIN Metrics
      BY DEF Metrics
    <3> QED
      BY <2>1, <2>2, <3>1 DEF MetricOf, Or
  <2>4. CASE view = "explorer"
    <3>1. q.view = "explorer" /\ q.metric = m
      BY <1>3, <1>4, <2>1, <2>4 DEF QuestionOf, ExplorerQuestion
    <3> QED
      BY <1>1, <1>4, <2>3, <3>1 DEF NamesTheKnown
  <2>5. CASE view = "trends"
    <3>1. q = TrendQuestion(Or(f.trend_metric, m), f.trend_breakdown, Or(f.trend_grain, "day"))
      BY <1>3, <1>4, <2>1, <2>5 DEF QuestionOf
    <3>2. /\ q.view = "trends" /\ q.metric = Or(f.trend_metric, m) /\ q.dimension = f.trend_breakdown
          /\ q.grain = Or(f.trend_grain, "day")
      BY <3>1 DEF TrendQuestion
    <3>3. q.metric \in DOMAIN Metrics
      BY <2>2, <2>3, <3>2 DEF Or
    <3>4. q.grain \in {"day", "week", "month"} /\ q.dimension \in Dimensions \cup {None}
      BY <1>1, <3>2, NamesAreKnown DEF Or
    <3> QED
      BY <1>1, <1>4, <3>2, <3>3, <3>4 DEF NamesTheKnown
  <2>6. CASE view = "drilldown"
    <3>1. q.view = "drilldown" /\ q.metric = Or(f.drill_metric, m) /\ q.parents = f.drill_parents
      BY <1>3, <1>4, <2>1, <2>6 DEF QuestionOf
    <3>2. q.metric \in DOMAIN Metrics
      BY <2>2, <2>3, <3>1 DEF Or
    <3>3. IsList(q.parents)
      BY <1>1, <3>1, NamesAreKnown
    <3> QED
      BY <1>1, <1>4, <3>1, <3>2, <3>3 DEF NamesTheKnown
  <2> QED
    BY <1>9, <2>4, <2>5, <2>6
<1>8. view \in {"overview", "insights", "anomalies", "explorer", "trends", "drilldown"}
  BY <1>3 DEF Operations, Spec2
<1> QED
  BY <1>6, <1>7, <1>8, <1>9

-----------------------------------------------------------------------------
(* Steps *)

LEMMA TellKeeps ==
    ASSUME NEW a \in Questions, NEW status, status # "intent", talk' = Told(a, status)
    PROVE  TalkInv'
BY DEF Told, Talk, TalkInv

(* A decision that proceeds opens a request for a known signal, or ends.    *)
LEMMA ProceedStep ==
    ASSUME AskInv, NEW a \in Questions, NEW d, InRegistry(d), NEW called,
           Proceed(a, d, called)
    PROVE  AskInv'
<1>1. CASE UNCHANGED vars /\ talk' \in {Told(a, "unsupported"), Told(a, "failed"), Talk("selection", a, d, called)}
  <2>1. AnswerInv'
    BY <1>1, AnswerStands DEF AskInv, vars
  <2>2. TalkInv'
    BY <1>1, TellKeeps DEF Talk, TalkInv
  <2> QED
    BY <2>1, <2>2 DEF AskInv
<1>2. CASE /\ d.operation \notin {None, "generate_trend"} /\ ~RefusedDimension(d, a.focus)
           /\ talk' = Talk("reading", a, d, called)
           /\ Scoped(a.request, QuestionOf(d, a.focus), None)
  <2>1. TalkInv'
    BY <1>2 DEF Talk, TalkInv
  <2>2. NamesTheKnown(QuestionOf(d, a.focus))
    BY <1>2, QuestionIsKnown DEF InRegistry
  <2>3. a.request \in Requests
    BY DEF Requests
  <2>4. AnswerInv'
    BY <1>2, <2>2, <2>3, ScopedFits
  <2> QED
    BY <2>1, <2>4 DEF AskInv
<1> QED
  BY <1>1, <1>2 DEF Proceed

(* The selection model's reply only leads on to an operation of the registry. *)
LEMMA SelectionStep ==
    ASSUME AskInv, NEW raw, SelectionReply(raw)
    PROVE  AskInv'
<1>1. PICK s : s = Selection(raw, talk.ask.words)
  OBVIOUS
<1>2. talk.ask \in Questions
  BY DEF AskInv, TalkInv, SelectionReply, Stage
<1>3. CASE s = Refused
  <2>1. talk' = Told(talk.ask, "unsupported") /\ UNCHANGED vars
    BY <1>1, <1>3 DEF SelectionReply
  <2> QED
    BY <1>2, <2>1, TellKeeps, AnswerStands DEF AskInv, vars
<1>4. CASE s # Refused
  <2>1. PICK r : r = IF s.compare = "none" THEN WithoutComparison(talk.ask.request) ELSE talk.ask.request
    OBVIOUS
  <2>2. /\ talk' = [talk EXCEPT !.stage = "reading"]
        /\ Scoped(r, TrendQuestion(s.metric, s.breakdown, s.grain), None)
    BY <1>1, <1>4, <2>1 DEF SelectionReply
  <2>3. r \in Requests
    BY <1>2, <2>1 DEF Requests
  <2>4. NamesTheKnown(TrendQuestion(s.metric, s.breakdown, s.grain))
    <3>1. ValidSelection(s)
      BY <1>1, <1>4 DEF Selection, ParseTrendSelection, ParseTrendRequestText
    <3>2. /\ s.metric \in DOMAIN Metrics /\ s.grain \in {"day", "week", "month"}
          /\ s.breakdown \in Dimensions \cup {None}
      BY <3>1 DEF ValidSelection
    <3> QED
      BY <3>2 DEF NamesTheKnown, TrendQuestion
  <2>5. AnswerInv'
    BY <2>2, <2>3, <2>4, ScopedFits
  <2>6. TalkInv'
    BY <2>2 DEF AskInv, TalkInv, SelectionReply, Stage
  <2> QED
    BY <2>5, <2>6 DEF AskInv
<1> QED
  BY <1>3, <1>4

(* The steps that only move a talk along.                                   *)
LEMMA TalkStep ==
    ASSUME AskInv, UNCHANGED vars,
           \/ talk' = talk
           \/ \E a \in Questions, status \in {"refused", "unsupported", "failed"} : talk' = Told(a, status)
           \/ \E a \in Questions : talk' = Talk("intent", a, DecisionOf(a), FALSE)
           \/ talk # None /\ \E ev : talk' = [talk EXCEPT !.stage = "wording", !.evidence = ev]
           \/ talk # None /\ \E said : talk' = [talk EXCEPT !.stage = "answered", !.said = said]
           \/ talk' = None
    PROVE  AskInv'
<1>1. AnswerInv'
  BY AnswerStands DEF AskInv, vars
<1>2. CASE \E a \in Questions : talk' = Talk("intent", a, DecisionOf(a), FALSE)
  <2>1. PICK a \in Questions : talk' = Talk("intent", a, DecisionOf(a), FALSE)
    BY <1>2
  <2>2. InRegistry(DecisionOf(a))
    BY SpecIsApplied DEF DecisionOf, ClassifyIntent
  <2>3. TalkInv'
    BY <2>1, <2>2 DEF Talk, TalkInv
  <2> QED
    BY <1>1, <2>3 DEF AskInv
<1>3. CASE talk # None /\ \E ev : talk' = [talk EXCEPT !.stage = "wording", !.evidence = ev]
  BY <1>1, <1>3 DEF AskInv, TalkInv
<1>4. CASE talk # None /\ \E said : talk' = [talk EXCEPT !.stage = "answered", !.said = said]
  BY <1>1, <1>4 DEF AskInv, TalkInv
<1>5. CASE \E a \in Questions, status \in {"refused", "unsupported", "failed"} : talk' = Told(a, status)
  BY <1>1, <1>5, TellKeeps DEF AskInv
<1>6. CASE talk' = talk \/ talk' = None
  BY <1>1, <1>6 DEF AskInv, TalkInv
<1> QED
  BY <1>2, <1>3, <1>4, <1>5, <1>6

(* Every step of the dashboards and of Ask DFIP keeps the answers theirs.   *)
LEMMA AskStep ==
    ASSUME AskInv, AskNext
    PROVE  AskInv'
<1>1. ASSUME UNCHANGED talk, AnswerInv' PROVE AskInv'
  BY <1>1 DEF AskInv, TalkInv
<1>2. ASSUME NEW i \in Ids, Publishes(i), UNCHANGED talk PROVE AskInv'
  BY <1>1, <1>2, AnswerStands DEF AskInv, Publishes, reader
<1>3. ASSUME NEW ask \in Asks, Ask(ask), UNCHANGED talk PROVE AskInv'
  <2>1. ask.request \in Requests /\ NamesTheKnown(ask.question)
    BY NamesAreKnown DEF Requests
  <2> QED
    BY <1>1, <1>3, <2>1, ScopedFits DEF Ask
<1>4. ASSUME Close, talk' = None \/ talk' = talk PROVE AskInv'
  BY <1>4, CloseStep DEF AskInv, TalkInv
<1>5. ASSUME ReadCurrent \/ ReadCompared, UNCHANGED talk PROVE AskInv'
  BY <1>1, <1>5, ReadStep DEF AskInv
<1>6. ASSUME NEW cell \in answer, OpenPoint(cell) \/ (\E d \in DrillDimensions : OpenRow(cell, d)) \/ OpenRanked(cell),
             UNCHANGED talk
      PROVE  AskInv'
  BY <1>1, <1>6, OpenStep DEF AskInv
<1>7. ASSUME NEW a \in Questions, RefuseQuestion(a) \/ AskModel(a) PROVE AskInv'
  BY <1>7, TalkStep DEF RefuseQuestion, AskModel
<1>8. ASSUME NEW a \in Questions, AskQuestion(a) PROVE AskInv'
  BY <1>8, ProceedStep, SpecIsApplied DEF AskQuestion, DecisionOf, ClassifyIntent
<1>9. ASSUME NEW raw, IntentReply(raw) \/ IntentFails PROVE AskInv'
  <2>1. talk.ask \in Questions /\ InRegistry(talk.decision)
    BY <1>9 DEF AskInv, TalkInv, IntentReply, IntentFails, Stage
  <2>2. \E d : InRegistry(d) /\ Proceed(talk.ask, d, TRUE)
    BY <1>9, <2>1, SpecIsApplied DEF IntentReply, IntentFails
  <2> QED
    BY <2>1, <2>2, ProceedStep
<1>10. ASSUME NEW raw, SelectionReply(raw) PROVE AskInv'
  BY <1>10, SelectionStep
<1>11. ASSUME ViewRefuses \/ TooLittle \/ TrendTooLittle PROVE AskInv'
  <2>1. talk.ask \in Questions
    BY <1>11 DEF AskInv, TalkInv, ViewRefuses, TooLittle, TrendTooLittle, NotEnough, Stage
  <2>2. UNCHANGED vars /\ \E status \in {"unsupported", "failed"} : talk' = Told(talk.ask, status)
    BY <1>11 DEF ViewRefuses, TooLittle, TrendTooLittle, NotEnough
  <2> QED
    BY <2>1, <2>2, TalkStep
<1>12. ASSUME Collect PROVE AskInv'
  BY <1>12, TalkStep DEF Collect, Stage
<1>13. ASSUME NEW by, NEW text, talk # None, Say(by, text) PROVE AskInv'
  BY <1>13, TalkStep DEF Say
<1>14. ASSUME NEW reply, WordByTemplate \/ WordStructured(reply) \/ WordProse(reply) PROVE AskInv'
  BY <1>13, <1>14 DEF WordByTemplate, WordStructured, WordProse, Consulted, Stage
<1>15. ASSUME CloseTalk PROVE AskInv'
  BY <1>4, <1>15, TalkStep DEF CloseTalk
<1> QED
  BY <1>2, <1>3, <1>4, <1>5, <1>6, <1>7, <1>8, <1>9, <1>10, <1>11, <1>12, <1>14, <1>15 DEF AskNext

(* The inductive invariant of the answers, whatever is published or         *)
(* downloaded meanwhile.                                                    *)
THEOREM AnswersAreOfTheirReads == ReadersSpec => []AskInv
<1>1. ReadersInit => AskInv
  BY DEF ReadersInit, AskInit, AnalyticsInit, AskInv, TalkInv, AnswerInv, NoSeen
<1>2. AskInv /\ [ReadersNext]_readerVars => AskInv'
  <2> SUFFICES ASSUME AskInv, [ReadersNext]_readerVars PROVE AskInv'
    OBVIOUS
  <2>1. CASE UNCHANGED askVars
    BY <2>1, TalkStep DEF askVars
  <2>2. CASE AskNext
    BY <2>2, AskStep
  <2>3. ASSUME NEW i \in Ids, Publishes(i), UNCHANGED talk PROVE AskInv'
    BY <2>3, AnswerStands DEF AskInv, TalkInv, Publishes, reader
  <2> QED
    BY <2>1, <2>2, <2>3 DEF ReadersNext, readerVars
<1> QED
  BY <1>1, <1>2, PTL DEF ReadersSpec

-----------------------------------------------------------------------------
(* Equal rows in a window give equal sums, groups and series.               *)
LEMMA SameReads ==
    ASSUME NEW A, NEW B, NEW w, NEW f, In(A, w, f) = In(B, w, f)
    PROVE  /\ SumPublishedHistory(A, w, f) = SumPublishedHistory(B, w, f)
           /\ \A d : Groups(A, w, f, d) = Groups(B, w, f, d)
           /\ \A grain : TotalSeries(A, w, f, grain) = TotalSeries(B, w, f, grain)
           /\ \A grain, d, rank, cap :
                Series(A, w, f, grain, d, rank, cap) = Series(B, w, f, grain, d, rank, cap)
<1>1. SumPublishedHistory(A, w, f) = SumPublishedHistory(B, w, f)
  BY DEF SumPublishedHistory
<1>2. ASSUME NEW d PROVE Groups(A, w, f, d) = Groups(B, w, f, d)
  BY Zenon DEF Groups
<1>3. ASSUME NEW grain PROVE TotalSeries(A, w, f, grain) = TotalSeries(B, w, f, grain)
  BY Zenon DEF TotalSeries
<1>4. ASSUME NEW grain, NEW d, NEW rank, NEW cap
      PROVE  Series(A, w, f, grain, d, rank, cap) = Series(B, w, f, grain, d, rank, cap)
  <2> DEFINE Kept(rows) == TopKeys(Groups(rows, w, f, d), rank, cap)
             Rows(found, kept) ==
                LET SeriesOf(r) == IF KeyOf(r, d) \in kept THEN KeyOf(r, d) ELSE OtherKey
                    Of(k) == Totals({r \in found : <<BucketStart(r.day, grain), SeriesOf(r)>> = k})
                IN  {[bucket |-> k[1], key |-> k[2], measures |-> Of(k).measures, count |-> Of(k).count]
                        : k \in {<<BucketStart(r.day, grain), SeriesOf(r)>> : r \in found}}
  <2>1. /\ Series(A, w, f, grain, d, rank, cap) = Rows(In(A, w, f), Kept(A))
        /\ Series(B, w, f, grain, d, rank, cap) = Rows(In(B, w, f), Kept(B))
    BY Zenon DEF Series
  <2>2. Kept(A) = Kept(B)
    BY <1>2
  <2> HIDE DEF Kept, Rows
  <2> QED
    BY <2>1, <2>2
<1> QED
  BY <1>1, <1>2, <1>3, <1>4

(* A bounded set of numbers that is not empty has a smallest and a largest. *)
LEMMA LeastOfNumbers ==
    ASSUME NEW S, S \subseteq Nat, S # {}
    PROVE  \E x \in S : \A y \in S : x <= y
<1> DEFINE R == OpToRel(<, Nat)
<1>1. IsWellFoundedOn(R, Nat)
  BY NatLessThanWellFounded
<1> HIDE DEF R
<1>2. PICK x \in S : \A y \in S : ~(<<y, x>> \in R)
  BY <1>1, WFMin
<1>3. \A y \in S : ~(y < x)
  BY <1>2 DEF R, OpToRel
<1>4. \A y \in S : x <= y
  BY <1>3
<1> QED
  BY <1>4

(* Some integers that are bounded from below have a least one.              *)
LEMMA LeastIsOne ==
    ASSUME NEW S, \A x \in S : x \in Int, S # {}, NEW lo \in Int, \A x \in S : lo <= x
    PROVE  \E x \in S : \A y \in S : x <= y
<1> DEFINE T == {y - lo : y \in S}
<1>1. \A y \in S : y - lo \in Nat
  OBVIOUS
<1>2. T \subseteq Nat /\ T # {}
  BY <1>1
<1>3. \A y \in S : y - lo \in T
  OBVIOUS
<1>4. PICK z \in T : \A y \in T : z <= y
  <2> HIDE DEF T
  <2> QED
    BY <1>2, LeastOfNumbers
<1>5. PICK x \in S : z = x - lo
  BY <1>4
<1>6. \A y \in S : x - lo <= y - lo
  BY <1>3, <1>4, <1>5
<1>7. \A y \in S : x <= y
  BY <1>6
<1> QED
  BY <1>7

(* Some integers that are bounded from above have a greatest one.           *)
LEMMA GreatestIsOne ==
    ASSUME NEW S, \A x \in S : x \in Int, S # {}, NEW hi \in Int, \A x \in S : x <= hi
    PROVE  \E x \in S : \A y \in S : y <= x
<1> DEFINE T == {-y : y \in S}
<1>1. \A y \in S : -y \in T /\ -y \in Int /\ -hi <= -y
  OBVIOUS
<1>2. \A z \in T : z \in Int /\ -hi <= z
  BY <1>1
<1>3. T # {} /\ -hi \in Int
  OBVIOUS
<1> HIDE DEF T
<1>4. PICK z \in T : \A y \in T : z <= y
  BY <1>2, <1>3, LeastIsOne
<1>5. PICK x \in S : z = -x
  BY <1>4 DEF T
<1>6. \A y \in S : -x <= -y
  BY <1>1, <1>4, <1>5
<1>7. \A y \in S : y <= x
  BY <1>6
<1> QED
  BY <1>7

(* derive.month_start: the last month that begins by the day.               *)
LEMMA MonthOfDay ==
    ASSUME NEW d \in Int, \E m \in MonthFirsts : m <= d
    PROVE  /\ MonthOf(d) \in MonthFirsts /\ MonthOf(d) <= d
           /\ \A n \in MonthFirsts : n <= d => n <= MonthOf(d)
<1> DEFINE S == {m \in MonthFirsts : m <= d}
<1>1. (\A m \in S : m \in Int) /\ S # {} /\ \A m \in S : m <= d
  BY CalendarAssumption
<1>2. PICK m \in S : \A n \in S : n <= m
  <2> HIDE DEF S
  <2> QED
    BY <1>1, GreatestIsOne
<1>3. m \in MonthFirsts /\ m <= d /\ \A n \in MonthFirsts : n <= d => n <= m
  BY <1>2
<1> QED
  BY <1>3 DEF MonthOf

(* The next month begins with the first of the months after this one.       *)
LEMMA NextMonth ==
    ASSUME NEW m \in Int, \E n \in MonthFirsts : n > m
    PROVE  /\ AddCalendarMonth(m) \in MonthFirsts /\ AddCalendarMonth(m) > m
           /\ \A o \in MonthFirsts : o > m => AddCalendarMonth(m) <= o
<1> DEFINE S == {n \in MonthFirsts : n > m}
<1>1. (\A n \in S : n \in Int) /\ S # {} /\ \A n \in S : m <= n
  BY CalendarAssumption
<1>2. PICK n \in S : \A o \in S : n <= o
  <2> HIDE DEF S
  <2> QED
    BY <1>1, LeastIsOne
<1>3. n \in MonthFirsts /\ n > m /\ \A o \in MonthFirsts : o > m => n <= o
  BY <1>2
<1> QED
  BY <1>3 DEF AddCalendarMonth

(* A day is before the end of a month if it is of the month or an earlier.  *)
LEMMA MonthEnds ==
    ASSUME NEW d \in Int, \E m \in MonthFirsts : m <= d, NEW m \in MonthFirsts,
           \E n \in MonthFirsts : m < n
    PROVE  d < AddCalendarMonth(m) <=> MonthOf(d) <= m
<1>1. m \in Int /\ \A n \in MonthFirsts : n \in Int
  BY CalendarAssumption
<1>2. /\ MonthOf(d) \in MonthFirsts /\ MonthOf(d) <= d
      /\ \A n \in MonthFirsts : n <= d => n <= MonthOf(d)
  BY MonthOfDay
<1>3. /\ AddCalendarMonth(m) \in MonthFirsts /\ AddCalendarMonth(m) > m
      /\ \A o \in MonthFirsts : o > m => AddCalendarMonth(m) <= o
  BY <1>1, NextMonth
<1>4. PICK n, end : n = MonthOf(d) /\ end = AddCalendarMonth(m)
  OBVIOUS
<1>5. n \in Int /\ end \in Int
  BY <1>1, <1>2, <1>3, <1>4
<1>6. ASSUME d < end PROVE n <= m
  BY <1>1, <1>2, <1>3, <1>4, <1>5, <1>6
<1>7. ASSUME n <= m PROVE d < end
  BY <1>1, <1>2, <1>3, <1>4, <1>5, <1>7
<1> QED
  BY <1>4, <1>6, <1>7

(* A row has the day of its grain.                                          *)
LEMMA RowIsOfAGrain ==
    ASSUME NEW h, NEW r \in RowsOf(h)
    PROVE  \E g \in Grains : r.day = g.day
<1>1. PICK g \in Grains : r = [grain |-> g, day |-> g.day, campaign_id |-> g.campaign_id, channel |-> h[g].channel,
      filter_logic_1 |-> h[g].filter_logic_1, sent |-> h[g].sent, failed |-> h[g].failed,
      delivered |-> h[g].delivered, revenue_inr |-> h[g].revenue_inr,
      total_cost |-> h[g].total_cost]
  BY DEF RowsOf
<1> QED
  BY <1>1

(* The comparison of a month that is asked for by name.                     *)
MonthBefore(months, r, m) ==
    IF r.compare = "none" \/ LatestAndPrior(months, m) = None THEN None
    ELSE MonthWindow(LatestAndPrior(months, m))

(* _resolve_scope of a month that is asked for by name.                     *)
LEMMA ScopeOfAMonth ==
    ASSUME NEW rows, rows # {}, NEW r, OfAMonth(r), NEW months, months = ListPublishedMonthStarts(rows)
    PROVE  LET w == MonthWindow(r.month) IN
           ResolveScope(rows, r) =
             IF r.month \notin months \/ w = Refused THEN Refused
             ELSE ScopeOf(rows, r, months, w, MonthBefore(months, r, w.month))
<1>1. PICK bounds : bounds = PublishedDayBounds(rows)
  OBVIOUS
<1>2. PICK p, w : p = ResolvePeriod(months, bounds, r) /\ w = MonthWindow(r.month)
  OBVIOUS
<1>3. ResolveScope(rows, r) = ScopeIn(rows, r, months, bounds, p)
  BY <1>1, <1>2 DEF ResolveScope, ResolvedScope
<1>4. p = IF r.month \in months THEN w ELSE Refused
  BY <1>2 DEF ResolvePeriod, AsksForARange, OfAMonth
<1>5. CASE r.month \notin months \/ w = Refused
  BY <1>2, <1>3, <1>4, <1>5 DEF ScopeIn
<1>6. CASE r.month \in months /\ w # Refused
  <2>1. PICK c : c = ResolveComparison(months, bounds, w, r)
    OBVIOUS
  <2>2. ResolveScope(rows, r) = ScopeOf(rows, r, months, w, c)
    BY <1>3, <1>4, <1>6, <2>1 DEF ScopeIn
  <2>3. w.grain = "month"
    BY <1>2 DEF MonthWindow, Window
  <2>4. CASE r.compare = "none"
    BY <1>2, <1>6, <2>1, <2>2, <2>4 DEF ResolveComparison, MonthBefore
  <2>5. CASE r.compare # "none"
    <3>1. PICK prior : prior = LatestAndPrior(months, w.month)
      OBVIOUS
    <3>2. c = IF prior = None THEN None ELSE MonthWindow(prior)
      BY <2>1, <2>3, <2>5, <3>1 DEF ResolveComparison, OfAMonth
    <3> QED
      BY <1>2, <1>6, <2>2, <2>5, <3>1, <3>2 DEF MonthBefore
  <2> QED
    BY <2>4, <2>5
<1> QED
  BY <1>5, <1>6

(* The history as it is without the days after a month.                     *)
Early(rows, m) == {r \in rows : r.day < AddCalendarMonth(m)}

(* What the rows up to the end of a month say of the months before it, and  *)
(* of any window that ends with it.                                         *)
SayAsMuch(early, rows, m) ==
    /\ m \in MonthFirsts /\ MonthOf(m) = m /\ AddCalendarMonth(m) \in Int /\ m < AddCalendarMonth(m)
    /\ m \in ListPublishedMonthStarts(early)
    /\ {n \in ListPublishedMonthStarts(early) : n < m}
         = {n \in ListPublishedMonthStarts(rows) : n < m}
    /\ \A n \in ListPublishedMonthStarts(rows) : n < m =>
         /\ MonthWindow(n).to \in Int /\ MonthWindow(n).to <= AddCalendarMonth(m)
         /\ MonthOf(n) = n
    /\ \A w, f : w.to \in Int /\ w.to <= AddCalendarMonth(m) =>
         In(early, w, f) = In(rows, w, f)

(* What is published up to the end of a month says as much as all of it.    *)
LEMMA EarlyIsEnough ==
    ASSUME NEW h, NEW rows, rows = RowsOf(h), NEW m \in ListPublishedMonthStarts(rows)
    PROVE  SayAsMuch(Early(rows, m), rows, m)
<1>1. \A k \in MonthFirsts : k \in Int
  BY CalendarAssumption
<1>2. \A r \in rows : /\ r.day \in Int
                      /\ \E n \in MonthFirsts : n <= r.day
                      /\ \E n \in MonthFirsts : r.day < n
  BY RowIsOfAGrain, DaysHaveMonths
<1>3. ASSUME NEW n \in MonthFirsts PROVE MonthOf(n) = n
  <2>1. n \in Int /\ n <= n
    BY <1>1
  <2>2. PICK k : k = MonthOf(n)
    OBVIOUS
  <2>3. k \in MonthFirsts /\ k <= n /\ n <= k
    BY <2>1, <2>2, MonthOfDay
  <2>4. k \in Int
    BY <1>1, <2>3
  <2> QED
    BY <2>1, <2>2, <2>3, <2>4
<1>4. ASSUME NEW n \in ListPublishedMonthStarts(rows)
      PROVE  n \in MonthFirsts /\ \E o \in MonthFirsts : n < o
  <2>1. PICK r \in rows : n = MonthOf(r.day)
    BY DEF ListPublishedMonthStarts
  <2>2. /\ r.day \in Int /\ \E k \in MonthFirsts : k <= r.day
        /\ \E o \in MonthFirsts : r.day < o
    BY <1>2
  <2>3. PICK day, o : day = r.day /\ o \in MonthFirsts /\ day < o
    BY <2>2
  <2>4. n \in MonthFirsts /\ n <= day
    BY <2>1, <2>2, <2>3, MonthOfDay
  <2>5. n \in Int /\ o \in Int /\ day \in Int
    BY <1>1, <2>2, <2>3, <2>4
  <2>6. n < o
    BY <2>3, <2>4, <2>5
  <2> QED
    BY <2>3, <2>4, <2>6
<1>5. PICK end : end = AddCalendarMonth(m)
  OBVIOUS
<1>6. /\ end \in MonthFirsts /\ end > m
      /\ \A o \in MonthFirsts : o > m => end <= o
  BY <1>1, <1>4, <1>5, NextMonth
<1>7. \A r \in rows : r \in Early(rows, m) <=> MonthOf(r.day) <= m
  BY <1>2, <1>4, MonthEnds DEF Early
<1>8. \A r \in rows : MonthOf(r.day) \in Int
  BY <1>1, <1>2, MonthOfDay
<1>9. m \in ListPublishedMonthStarts(Early(rows, m))
  <2>1. PICK r \in rows : m = MonthOf(r.day)
    BY DEF ListPublishedMonthStarts
  <2>2. m \in Int /\ m <= m
    BY <1>1, <1>4
  <2>3. r \in Early(rows, m)
    BY <1>7, <2>1, <2>2
  <2> QED
    BY <2>1, <2>3 DEF ListPublishedMonthStarts
<1>10. ASSUME NEW n, n < m
       PROVE  n \in ListPublishedMonthStarts(Early(rows, m)) <=> n \in ListPublishedMonthStarts(rows)
  <2>1. CASE n \in ListPublishedMonthStarts(rows)
    <3>1. PICK r \in rows : n = MonthOf(r.day)
      BY <2>1 DEF ListPublishedMonthStarts
    <3>2. MonthOf(r.day) \in Int /\ m \in Int /\ MonthOf(r.day) < m
      BY <1>1, <1>4, <1>8, <1>10, <3>1
    <3>3. r \in Early(rows, m)
      BY <1>7, <3>2
    <3> QED
      BY <2>1, <3>1, <3>3 DEF ListPublishedMonthStarts
  <2>2. Early(rows, m) \subseteq rows
    BY DEF Early
  <2> QED
    BY <2>1, <2>2 DEF ListPublishedMonthStarts
<1>11. ASSUME NEW n \in ListPublishedMonthStarts(rows), n < m
       PROVE  MonthWindow(n).to \in Int /\ MonthWindow(n).to <= AddCalendarMonth(m) /\ MonthOf(n) = n
  <2>1. MonthWindow(n).to = AddCalendarMonth(n) /\ MonthOf(n) = n
    BY <1>3, <1>4 DEF MonthWindow, Window
  <2>2. n \in Int /\ m \in MonthFirsts
    BY <1>1, <1>4
  <2>3. /\ AddCalendarMonth(n) \in MonthFirsts
        /\ \A o \in MonthFirsts : o > n => AddCalendarMonth(n) <= o
    BY <1>4, <2>2, NextMonth
  <2>4. AddCalendarMonth(n) <= m
    BY <1>11, <2>2, <2>3
  <2>5. AddCalendarMonth(n) \in Int /\ m \in Int /\ end \in Int
    BY <1>1, <1>6, <2>2, <2>3
  <2> QED
    BY <1>5, <1>6, <2>1, <2>4, <2>5
<1>12. ASSUME NEW w, NEW f, w.to \in Int, w.to <= AddCalendarMonth(m)
       PROVE  In(Early(rows, m), w, f) = In(rows, w, f)
  <2>1. PICK from, to : from = w.from /\ to = w.to
    OBVIOUS
  <2>2. \A r \in rows : r.day < to => r \in Early(rows, m)
    BY <1>1, <1>2, <1>5, <1>6, <1>12, <2>1 DEF Early
  <2>3. Early(rows, m) \subseteq rows
    BY DEF Early
  <2>4. Selected(Early(rows, m), from, to, f) = Selected(rows, from, to, f)
    BY <2>2, <2>3 DEF Selected
  <2> QED
    BY <2>1, <2>4 DEF In
<1>13. {n \in ListPublishedMonthStarts(Early(rows, m)) : n < m}
         = {n \in ListPublishedMonthStarts(rows) : n < m}
  BY <1>10
<1> QED
  BY <1>1, <1>3, <1>4, <1>5, <1>6, <1>9, <1>11, <1>12, <1>13 DEF SayAsMuch

(* The verdicts on a month are the same without the days after it.          *)
LEMMA SameVerdict ==
    ASSUME NEW q, q.view \in {"overview", "insights", "anomalies"},
           NEW R, NEW E, NEW sc, NEW past, NEW m, NEW end \in Int, m # None,
           NEW w, NEW c, NEW f,
           sc.window = w, sc.compare = c, sc.filters = f,
           past.window = w, past.compare = c, past.filters = f,
           w.month = m, w.to = end, c # None => c.to \in Int /\ c.to <= end,
           AddCalendarMonth(m) = end,
           {n \in sc.months : n < m} = {n \in past.months : n < m},
           \A n \in sc.months : n < m => MonthWindow(n).to \in Int /\ MonthWindow(n).to <= end,
           \A x, y : x.to \in Int /\ x.to <= end => In(E, x, y) = In(R, x, y)
    PROVE  AnswerOf(q, past, ReadOf(q, past, E), E) = AnswerOf(q, sc, ReadOf(q, sc, R), R)
<1>1. ASSUME NEW x, x.to \in Int, x.to <= end
      PROVE  /\ SumPublishedHistory(E, x, f) = SumPublishedHistory(R, x, f)
             /\ PeriodReads(q, x, f, E) = PeriodReads(q, x, f, R)
             /\ \A cap : BucketReads(q, x, f, E, cap) = BucketReads(q, x, f, R, cap)
  <2>1. In(E, x, f) = In(R, x, f)
    BY <1>1
  <2>2. /\ SumPublishedHistory(E, x, f) = SumPublishedHistory(R, x, f)
        /\ \A d : Groups(E, x, f, d) = Groups(R, x, f, d)
        /\ \A grain : TotalSeries(E, x, f, grain) = TotalSeries(R, x, f, grain)
        /\ \A grain, d, rank, cap :
             Series(E, x, f, grain, d, rank, cap) = Series(R, x, f, grain, d, rank, cap)
    BY <2>1, SameReads
  <2>3. PeriodReads(q, x, f, E) = PeriodReads(q, x, f, R)
    BY <2>2 DEF PeriodReads
  <2>4. ASSUME NEW cap PROVE BucketReads(q, x, f, E, cap) = BucketReads(q, x, f, R, cap)
    BY <2>2 DEF BucketReads
  <2> QED
    BY <2>2, <2>3, <2>4
<1>2. PICK now : now = ReadOf(q, sc, R)
  OBVIOUS
<1>3. ReadOf(q, past, E) = now
  BY <1>1, <1>2 DEF ReadOf
<1>4. CASE q.view = "overview"
  <2>1. OverviewAnswer(past, now, E) = OverviewAnswer(sc, now, R)
    BY <1>1 DEF OverviewAnswer
  <2> QED
    BY <1>2, <1>3, <1>4, <2>1 DEF AnswerOf
<1>5. CASE q.view = "insights"
  <2>1. InsightAnswer(q, past, now, E) = InsightAnswer(q, sc, now, R)
    BY <1>1 DEF InsightAnswer
  <2> QED
    BY <1>2, <1>3, <1>5, <2>1 DEF AnswerOf
<1>6. CASE q.view = "anomalies"
  <2>1. PICK prior : prior = SelectBaselineMonths(sc.months, m)
    OBVIOUS
  <2>2. SelectBaselineMonths(past.months, m) = prior
    BY <2>1 DEF SelectBaselineMonths
  <2>3. \A n \in prior : n \in sc.months /\ n < m
    BY <2>1 DEF SelectBaselineMonths
  <2>4. [n \in prior |-> BucketReads(q, MonthWindow(n), f, E, GroupLimit)]
          = [n \in prior |-> BucketReads(q, MonthWindow(n), f, R, GroupLimit)]
    BY <1>1, <2>3
  <2>5. Lookback(prior, m).to = end
    BY DEF Lookback, Window
  <2>6. BucketReads(q, Lookback(prior, m), f, E, GroupLimit)
          = BucketReads(q, Lookback(prior, m), f, R, GroupLimit)
    BY <1>1, <2>5
  <2>7. AnomaliesOf(q, past, now, m, prior, E) = AnomaliesOf(q, sc, now, m, prior, R)
    BY <2>4, <2>6 DEF AnomaliesOf
  <2>8. AnomalyAnswer(q, past, now, E) = AnomalyAnswer(q, sc, now, R)
    BY <2>1, <2>2, <2>7 DEF AnomalyAnswer
  <2> QED
    BY <1>2, <1>3, <1>6, <2>8 DEF AnswerOf
<1> QED
  BY <1>4, <1>5, <1>6

(* A published month is an integer, its first day.                          *)
LEMMA MonthsAreInts ==
    ASSUME NEW h, NEW rows, rows = RowsOf(h), NEW m \in ListPublishedMonthStarts(rows)
    PROVE  m \in Int
<1>1. PICK r \in rows : m = MonthOf(r.day)
  BY DEF ListPublishedMonthStarts
<1>2. r.day \in Int /\ \E n \in MonthFirsts : n <= r.day
  BY RowIsOfAGrain, DaysHaveMonths
<1>3. m \in MonthFirsts
  BY <1>1, <1>2, MonthOfDay
<1> QED
  BY <1>3, CalendarAssumption

(* select_baseline_months, resolve_comparison: the verdicts on a month that *)
(* was asked for by name are those of the facts up to its end.              *)
LEMMA PastIsEnough ==
    ASSUME NEW r, OfAMonth(r), NEW h, NEW rows, rows = RowsOf(h),
           NEW q, q.view \in {"overview", "insights", "anomalies"},
           NEW sc, sc = ResolveScope(rows, r), sc # NoScope, sc # Refused,
           NEW early, early = {x \in rows : x.day < AddCalendarMonth(r.month)},
           NEW past, past = ResolveScope(early, r)
    PROVE  AnswerOf(q, past, ReadOf(q, past, early), early) = AnswerOf(q, sc, ReadOf(q, sc, rows), rows)
<1>1. rows # {}
  BY DEF ResolveScope
<1>2. PICK m, months, w : m = r.month /\ months = ListPublishedMonthStarts(rows) /\ w = MonthWindow(m)
  OBVIOUS
<1>3. /\ m \in months /\ w # Refused
      /\ sc = ScopeOf(rows, r, months, w, MonthBefore(months, r, w.month))
  BY <1>1, <1>2, ScopeOfAMonth
<1>4. early = Early(rows, m)
  BY <1>2 DEF Early
<1>20. m \in ListPublishedMonthStarts(rows)
  BY <1>2, <1>3
<1>21. SayAsMuch(early, rows, m)
  BY <1>4, <1>20, EarlyIsEnough
<1>5. /\ m \in MonthFirsts /\ MonthOf(m) = m /\ AddCalendarMonth(m) \in Int /\ m < AddCalendarMonth(m)
      /\ m \in ListPublishedMonthStarts(early)
      /\ {n \in ListPublishedMonthStarts(early) : n < m} = {n \in months : n < m}
      /\ \A n \in months : n < m =>
           /\ MonthWindow(n).to \in Int /\ MonthWindow(n).to <= AddCalendarMonth(m)
           /\ MonthOf(n) = n
      /\ \A x, f : x.to \in Int /\ x.to <= AddCalendarMonth(m) => In(early, x, f) = In(rows, x, f)
  BY <1>2, <1>21 DEF SayAsMuch
<1>6. PICK sooner, end : sooner = ListPublishedMonthStarts(early) /\ end = AddCalendarMonth(m)
  OBVIOUS
<1>7. early # {}
  BY <1>5 DEF ListPublishedMonthStarts
<1>8. past = ScopeOf(early, r, sooner, w, MonthBefore(sooner, r, w.month))
  BY <1>2, <1>3, <1>5, <1>6, <1>7, ScopeOfAMonth
<1>9. w.month = m /\ w.to = end /\ w.grain = "month"
  BY <1>2, <1>5, <1>6 DEF MonthWindow, Window
<1>10. LatestAndPrior(sooner, m) = LatestAndPrior(months, m)
  BY <1>3, <1>5, <1>6 DEF LatestAndPrior
<1>11. PICK c : c = MonthBefore(months, r, m)
  OBVIOUS
<1>12. MonthBefore(sooner, r, m) = c
  BY <1>10, <1>11 DEF MonthBefore
<1>13. c # None => c.to \in Int /\ c.to <= end
  <2> SUFFICES ASSUME c # None PROVE c.to \in Int /\ c.to <= end
    OBVIOUS
  <2>1. PICK n : n = LatestAndPrior(months, m)
    OBVIOUS
  <2>2. c = MonthWindow(n) /\ n # None
    BY <1>11, <2>1 DEF MonthBefore
  <2>3. n \in {k \in months : k < m}
    <3> DEFINE S == {k \in months : k < m}
    <3>1. S # {} /\ n = Max(S)
      BY <2>1, <2>2 DEF LatestAndPrior
    <3>2. S \subseteq Int /\ m \in Int /\ \A k \in S : k <= m
      <4>1. \A k \in months : k \in Int
        BY <1>2, MonthsAreInts
      <4> QED
        BY <1>3, <4>1
    <3>3. \E k \in S : \A j \in S : j <= k
      <4> HIDE DEF S
      <4> QED
        BY <3>1, <3>2, GreatestIsOne
    <3> HIDE DEF S
    <3>4. n \in S
      BY <3>1, <3>3, <3>2 DEF Max
    <3> QED
      BY <3>4 DEF S
  <2> QED
    BY <1>5, <1>6, <2>2, <2>3
<1>14. PICK f : f = KeptFilters(rows, w, r.filters)
  OBVIOUS
<1>15. KeptFilters(early, w, r.filters) = f
  <2>1. In(early, w, NoFilters) = In(rows, w, NoFilters)
    BY <1>5, <1>6, <1>9
  <2>2. \A d : FilterValues(early, w, d) = FilterValues(rows, w, d)
    BY <2>1 DEF FilterValues
  <2> QED
    BY <1>14, <2>2 DEF KeptFilters
<1>16. /\ sc.window = w /\ sc.compare = c /\ sc.filters = f /\ sc.months = months
  <2>1. c # Refused
    BY <1>3, <1>9, <1>11 DEF ScopeOf
  <2> QED
    BY <1>3, <1>9, <1>11, <1>14, <2>1 DEF ScopeOf
<1>17. /\ past.window = w /\ past.compare = c /\ past.filters = f /\ past.months = sooner
  <2>1. c # Refused
    BY <1>3, <1>9, <1>11 DEF ScopeOf
  <2> QED
    BY <1>8, <1>9, <1>12, <1>15, <2>1 DEF ScopeOf
<1>18. m # None
  BY <1>2 DEF OfAMonth
<1> QED
  BY <1>5, <1>6, <1>9, <1>13, <1>16, <1>17, <1>18, SameVerdict

(* A verdict on a past month stands: the answer on a month that was asked   *)
(* for by name is what the facts up to the end of that month give, whatever *)
(* is published for later days (select_baseline_months, resolve_comparison).*)
THEOREM PastVerdictsHold == ReadersSpec => []PastVerdictsStand
<1>1. AskInv => PastVerdictsStand
  <2> SUFFICES ASSUME AskInv, step = "answered", scope # NoScope,
                      question.view \in {"overview", "insights", "anomalies"},
                      OfAMonth(request),
                      seen.current = seen.compared,
                      scope = ResolveScope(RowsOf(seen.current), request)
               PROVE  LET early == {r \in RowsOf(seen.current) : r.day < AddCalendarMonth(request.month)}
                          past  == ResolveScope(early, request)
                      IN  answer = AnswerOf(question, past, ReadOf(question, past, early), early)
    BY DEF PastVerdictsStand
  <2>1. PICK h, rows, early, past :
           /\ h = seen.current /\ rows = RowsOf(h)
           /\ early = {r \in rows : r.day < AddCalendarMonth(request.month)}
           /\ past = ResolveScope(early, request)
    OBVIOUS
  <2>2. scope # Refused
    BY DEF AskInv, AnswerInv
  <2>4. reads = ReadOf(question, scope, rows) /\ answer = AnswerOf(question, scope, reads, rows)
    BY <2>1 DEF AskInv, AnswerInv, ReadFor, AnswerFor
  <2>5. scope = ResolveScope(rows, request)
    BY <2>1
  <2>6. AnswerOf(question, past, ReadOf(question, past, early), early)
          = AnswerOf(question, scope, ReadOf(question, scope, rows), rows)
    BY <2>1, <2>2, <2>5, PastIsEnough
  <2>7. answer = AnswerOf(question, past, ReadOf(question, past, early), early)
    BY <2>4, <2>6
  <2> QED
    BY <2>1, <2>7
<1> QED
  BY <1>1, AnswersAreOfTheirReads, PTL

-----------------------------------------------------------------------------
(* What the readers read are facts *)

(* The histories a request has seen, and the newest, hold contents of facts. *)
SlicesInv ==
    /\ pubs \subseteq Ids /\ snap \in [Ids -> Slices] /\ history \in Slices
    /\ seen.current \in Slices /\ seen.compared \in Slices

(* What a step does to the histories. *)
HistoryStep ==
    \/ UNCHANGED <<pubs, snap, history, seen>>
    \/ UNCHANGED <<pubs, snap, history>> /\ seen' = NoSeen
    \/ UNCHANGED <<pubs, snap, history>> /\ seen' = [seen EXCEPT !.current = history]
    \/ UNCHANGED <<pubs, snap, history>> /\ seen' = [seen EXCEPT !.compared = history]
    \/ \E i \in Ids : Publishes(i)

(* A step of the readers leaves the histories, forgets what was seen, takes *)
(* the newest for one of the two, or publishes.                             *)
LEMMA StepsOfHistories == AskNext => HistoryStep
<1>1. \A r, q, cell : Scoped(r, q, cell) => HistoryStep
  BY DEF Scoped, HistoryStep, published
<1>2. UNCHANGED vars => HistoryStep
  BY DEF vars, HistoryStep
<1>3. Close => HistoryStep
  BY DEF Close, HistoryStep, published
<1>4. ReadCurrent => HistoryStep
  BY DEF ReadCurrent, HistoryStep, published
<1>5. ReadCompared => HistoryStep
  BY DEF ReadCompared, HistoryStep, published
<1>6. \A ask : Ask(ask) => HistoryStep
  BY <1>1 DEF Ask
<1>7. \A cell : OpenPoint(cell) \/ (\E d \in DrillDimensions : OpenRow(cell, d)) \/ OpenRanked(cell)
        => HistoryStep
  BY <1>1 DEF OpenPoint, OpenRow, OpenRanked
<1>8. \A a : RefuseQuestion(a) \/ AskModel(a) => HistoryStep
  BY <1>2 DEF RefuseQuestion, AskModel
<1>9. \A a, d, called : Proceed(a, d, called) => HistoryStep
  BY <1>1, <1>2 DEF Proceed
<1>10. \A a : AskQuestion(a) => HistoryStep
  BY <1>9 DEF AskQuestion
<1>11. \A raw : IntentReply(raw) \/ IntentFails => HistoryStep
  BY <1>9 DEF IntentReply, IntentFails
<1>12. \A raw : SelectionReply(raw) => HistoryStep
  BY <1>1, <1>2 DEF SelectionReply
<1>13. ViewRefuses \/ TooLittle \/ TrendTooLittle \/ Collect => HistoryStep
  BY <1>2 DEF ViewRefuses, TooLittle, TrendTooLittle, NotEnough, Collect
<1>14. \A reply : WordByTemplate \/ WordStructured(reply) \/ WordProse(reply) => HistoryStep
  BY <1>2 DEF WordByTemplate, WordStructured, WordProse, Say
<1>15. CloseTalk => HistoryStep
  BY <1>2, <1>3 DEF CloseTalk
<1>16. \A i \in Ids : Publishes(i) => HistoryStep
  BY DEF HistoryStep
<1> QED
  BY <1>3, <1>4, <1>5, <1>6, <1>7, <1>8, <1>10, <1>11, <1>12, <1>13, <1>14, <1>15, <1>16
  DEF AskNext

(* The newest-wins union of snapshots is made of their contents. *)
LEMMA UnionOfSlices ==
    ASSUME NEW P, P \subseteq Ids, NEW s \in [Ids -> Slices]
    PROVE  NewestWins(P, s) \in Slices
<1> SUFFICES ASSUME NEW g \in Grains, Holders(g, P, s) # {}
             PROVE  s[Newest(Holders(g, P, s))][g] \in Facts \cup {NoFact}
  BY DEF NewestWins, Slices
<1>1. PICK H : H = Holders(g, P, s)
  OBVIOUS
<1>2. H \subseteq Ids /\ H # {}
  BY <1>1 DEF Holders
<1>3. MaxPubs \in Int /\ \A i \in H : i \in Int /\ i <= MaxPubs
  BY <1>2, PublishedConstants DEF Ids
<1>4. \E i \in H : \A j \in H : j <= i
  BY <1>2, <1>3, GreatestIsOne
<1>5. Newest(H) \in H
  BY <1>4 DEF Newest
<1> QED
  BY <1>1, <1>2, <1>5 DEF Slices

(* Whatever a step does to the histories, they hold contents of facts.      *)
LEMMA HistoriesHoldFacts ==
    ASSUME SlicesInv, seen = [current |-> seen.current, compared |-> seen.compared], HistoryStep
    PROVE  SlicesInv'
<1>1. Empty \in Slices
  BY DEF Empty, Slices
<1>2. CASE \E i \in Ids : Publishes(i)
  <2>1. PICK i \in Ids : Publishes(i)
    BY <1>2
  <2>2. PICK P, s : P = pubs \cup {i} /\ s = [snap EXCEPT ![i] = SnapshotOf[i]]
    OBVIOUS
  <2>3. P \subseteq Ids /\ s \in [Ids -> Slices]
    BY <2>2, AnalyticsAssumption DEF SlicesInv
  <2>4. NewestWins(P, s) \in Slices
    BY <2>3, UnionOfSlices
  <2>5. pubs' = P /\ snap' = s /\ history' = NewestWins(pubs', snap') /\ seen' = seen
    BY <2>1, <2>2 DEF Publishes, Publish, reader
  <2>6. history' = NewestWins(P, s)
    BY <2>5
  <2> QED
    BY <2>3, <2>4, <2>5, <2>6 DEF SlicesInv
<1>3. PICK a, b : seen = [current |-> a, compared |-> b]
  OBVIOUS
<1>4. CASE UNCHANGED <<pubs, snap, history>> /\ seen' = [seen EXCEPT !.current = history]
  <2>1. seen' = [current |-> history, compared |-> b]
    BY <1>3, <1>4
  <2> QED
    BY <1>3, <1>4, <2>1 DEF SlicesInv
<1>5. CASE UNCHANGED <<pubs, snap, history>> /\ seen' = [seen EXCEPT !.compared = history]
  <2>1. seen' = [current |-> a, compared |-> history]
    BY <1>3, <1>5
  <2> QED
    BY <1>3, <1>5, <2>1 DEF SlicesInv
<1>6. CASE UNCHANGED <<pubs, snap, history>> /\ seen' = NoSeen
  BY <1>1, <1>6 DEF SlicesInv, NoSeen
<1>7. CASE UNCHANGED <<pubs, snap, history, seen>>
  BY <1>7 DEF SlicesInv
<1> QED
  BY <1>2, <1>4, <1>5, <1>6, <1>7 DEF HistoryStep

(* Every publication, the newest history and the two a question was read    *)
(* from are contents of stored facts: a reader never computes on anything   *)
(* else (published_history_reader, analytics_service._load).                *)
THEOREM ReadersReadFacts == ReadersSpec => []SlicesInv
<1>1. ReadersInit => SlicesInv
  <2>1. Empty \in Slices
    BY DEF Empty, Slices
  <2>2. [i \in Ids |-> Empty] \in [Ids -> Slices]
    BY <2>1
  <2> QED
    BY <2>1, <2>2 DEF ReadersInit, AskInit, AnalyticsInit, Init, SlicesInv, NoSeen
<1>2. AskInv /\ SlicesInv /\ [ReadersNext]_readerVars => SlicesInv'
  <2> SUFFICES ASSUME AskInv, SlicesInv, [ReadersNext]_readerVars PROVE SlicesInv'
    OBVIOUS
  <2>1. seen = [current |-> seen.current, compared |-> seen.compared]
    BY DEF AskInv, AnswerInv
  <2>2. CASE UNCHANGED askVars
    BY <2>1, <2>2, HistoriesHoldFacts DEF askVars, vars, HistoryStep
  <2>3. CASE AskNext
    BY <2>1, <2>3, HistoriesHoldFacts, StepsOfHistories
  <2>4. ASSUME NEW i \in Ids, Publishes(i) PROVE SlicesInv'
    BY <2>1, <2>4, HistoriesHoldFacts DEF HistoryStep
  <2> QED
    BY <2>2, <2>3, <2>4 DEF ReadersNext, readerVars
<1> QED
  BY <1>1, <1>2, AnswersAreOfTheirReads, PTL DEF ReadersSpec

(* What can be reached from the elements of a finite set is finite. *)
LEMMA FiniteImage ==
    ASSUME NEW S, IsFiniteSet(S), NEW f, NEW T, \A y \in T : \E x \in S : y = f[x]
    PROVE  IsFiniteSet(T)
<1> DEFINE U == {f[x] : x \in S}
           g == [x \in S |-> f[x]]
<1>1. g \in Surjection(S, U)
  BY DEF Surjection
<1> HIDE DEF g
<1>2. IsFiniteSet(U)
  BY <1>1, FS_Surjection
<1>3. T \subseteq U
  OBVIOUS
<1> HIDE DEF U
<1> QED
  BY <1>2, <1>3, FS_Subset

(* Finitely many integers have a greatest one. *)
LEMMA GreatestOfFinite ==
    ASSUME NEW S, IsFiniteSet(S), S # {}, \A x \in S : x \in Int
    PROVE  \E x \in S : \A y \in S : y <= x
<1> DEFINE C == {s \in SUBSET S : s # {} /\ ~\E x \in s : \A y \in s : y <= x}
<1> SUFFICES ASSUME C # {} PROVE FALSE
  OBVIOUS
<1>1. PICK t \in C : \A u \in C : ~(u \subseteq t /\ u # t)
  <2>1. C \subseteq SUBSET S
    OBVIOUS
  <2> HIDE DEF C
  <2> QED
    BY <2>1, SmallestSet
<1>2. PICK e \in t : TRUE
  OBVIOUS
<1>3. PICK u : u = t \ {e}
  OBVIOUS
<1>4. u # {}
  BY <1>1, <1>2, <1>3
<1>5. u \notin C
  BY <1>1, <1>2, <1>3
<1>6. PICK x \in u : \A y \in u : y <= x
  BY <1>1, <1>3, <1>4, <1>5
<1>7. e \in Int /\ x \in Int /\ \A y \in t : y \in Int
  BY <1>1, <1>2, <1>3, <1>6
<1>8. CASE e <= x
  BY <1>1, <1>3, <1>6, <1>7, <1>8
<1>9. CASE x <= e
  <2>1. \A y \in t : y <= e
    BY <1>3, <1>6, <1>7, <1>9
  <2> QED
    BY <1>1, <1>2, <2>1
<1> QED
  BY <1>7, <1>8, <1>9

(* A history has finitely many rows, and their measures are numbers or absent. *)
LEMMA RowsAreNumbers ==
    ASSUME NEW h \in Slices
    PROVE  /\ IsFiniteSet(RowsOf(h))
           /\ \A r \in RowsOf(h), m \in AdditiveMeasures : r[m] \in Int \cup {NULL}
<1> DEFINE row == [g \in Grains |->
                     [grain |-> g, day |-> g.day, campaign_id |-> g.campaign_id, channel |-> h[g].channel,
                      filter_logic_1 |-> h[g].filter_logic_1, sent |-> h[g].sent, failed |-> h[g].failed,
                      delivered |-> h[g].delivered, revenue_inr |-> h[g].revenue_inr,
                      total_cost |-> h[g].total_cost]]
<1>1. \A r \in RowsOf(h) : \E g \in Grains : h[g] # NoFact /\ r = row[g]
  BY DEF RowsOf
<1>2. IsFiniteSet(RowsOf(h))
  <2> HIDE DEF row
  <2>1. \A r \in RowsOf(h) : \E g \in Grains : r = row[g]
    BY <1>1
  <2> QED
    BY <2>1, ReportConstants, FiniteImage
<1>3. ASSUME NEW r \in RowsOf(h), NEW m \in AdditiveMeasures PROVE r[m] \in Int \cup {NULL}
  <2>1. PICK g \in Grains : h[g] # NoFact /\ r = row[g]
    BY <1>1
  <2>2. h[g] \in Facts
    BY <2>1 DEF Slices
  <2>3. h[g][m] \in Int \cup {NULL}
    BY <2>2, FactsAreNumbers
  <2>4. r[m] = h[g][m]
    BY <2>1 DEF AdditiveMeasures
  <2> QED
    BY <2>3, <2>4
<1> QED
  BY <1>2, <1>3

(* A sum of a measure of some rows is a number, or absent. *)
LEMMA SumsAreNumbers ==
    ASSUME NEW h \in Slices, NEW rows, rows \subseteq RowsOf(h), NEW m \in AdditiveMeasures
    PROVE  SumMeasure(rows, m) \in Int \cup {NULL}
<1> DEFINE held == {r \in rows : r[m] # NULL}
           f == [r \in held |-> r[m]]
<1>1. IsFiniteSet(held)
  <2>1. held \subseteq RowsOf(h)
    OBVIOUS
  <2> QED
    BY <2>1, RowsAreNumbers, FS_Subset
<1>2. \A r \in held : f[r] \in Int
  BY RowsAreNumbers
<1>3. DOMAIN f = held
  OBVIOUS
<1>4. SumMeasure(rows, m) = IF held = {} THEN NULL ELSE SumOf(f)
  BY DEF SumMeasure
<1> HIDE DEF f, held
<1> QED
  BY <1>1, <1>2, <1>3, <1>4, SumIs, SumIsInt

(* The filters of a resolved scope select no absent value. *)
LEMMA ScopesFilter ==
    ASSUME NEW h, NEW r, NEW sc, sc = ScopeFor(r, h), sc # NoScope, sc # Refused
    PROVE  /\ \A d \in Dimensions : NULL \notin sc.filters[d]
           /\ sc.filters = [d \in Dimensions |-> sc.filters[d]]
<1>1. PICK rows, months, bounds : rows = RowsOf(h) /\ months = ListPublishedMonthStarts(rows)
                                  /\ bounds = PublishedDayBounds(rows)
  OBVIOUS
<1>2. PICK w : w = ResolvePeriod(months, bounds, r)
  OBVIOUS
<1>3. PICK c : c = ResolveComparison(months, bounds, w, r)
  OBVIOUS
<1>4. sc = [history |-> TRUE, months |-> months, window |-> w, compare |-> c,
            filters |-> KeptFilters(rows, w, r.filters)]
  BY <1>1, <1>2, <1>3 DEF ScopeFor, ResolveScope, ResolvedScope, ScopeIn, ScopeOf
<1>5. \A v : Coalesce(v) # NULL
  BY HistoryReadsAssumption, MeasuresAssumption DEF Coalesce
<1>6. \A d : NULL \notin FilterValues(rows, w, d)
  BY <1>5 DEF FilterValues
<1> QED
  BY <1>4, <1>6 DEF KeptFilters

(* What a read selects in a window is what the filters mean. *)
LEMMA ReadsSelect ==
    ASSUME NEW h, NEW w, NEW filters, \A d \in Dimensions : NULL \notin filters[d]
    PROVE  In(RowsOf(h), w, filters) = RowsIn(h, w.from, w.to, filters)
<1>1. ASSUME NEW d \in Dimensions, NEW v
      PROVE  TextPredicate(v, filters[d])
               <=> filters[d] = {} \/ v \in filters[d] \/ (v = NULL /\ Blank \in filters[d])
  BY DEF TextPredicate, Coalesce
<1> QED
  BY <1>1 DEF In, Selected, RowsIn

(* Division keeps the order. *)
LEMMA QuotientsKeepOrder ==
    ASSUME NEW x \in Nat, NEW y \in Nat, NEW z \in Nat \ {0}, y <= x
    PROVE  y \div z <= x \div z /\ x \div z \in Nat /\ y \div z \in Nat
<1>1. PICK p, q : p = x \div z /\ q = y \div z
  OBVIOUS
<1>2. p \in Int /\ q \in Int /\ x \in Int /\ y \in Int /\ z \in Int /\ z > 0
  BY <1>1
<1>3. z * p <= x /\ x < z * p + z
  BY <1>1, <1>2
<1>4. z * q <= y /\ y < z * q + z
  BY <1>1, <1>2
<1>5. z * q < z * p + z
  BY <1>2, <1>3, <1>4
<1>6. q < p + 1
  <2>1. z * p + z = z * (p + 1)
    BY <1>2
  <2>2. z * q < z * (p + 1) => q < p + 1
    BY <1>2
  <2> QED
    BY <1>5, <2>1, <2>2
<1>7. p >= 0 /\ q >= 0
  BY <1>1, <1>2
<1> QED
  BY <1>1, <1>2, <1>6, <1>7

(* Scaling by a natural number keeps the order. *)
LEMMA ProductsKeepOrder ==
    ASSUME NEW x \in Int, NEW y \in Int, NEW z \in Nat, y <= x
    PROVE  y * z <= x * z
OBVIOUS

(* |n|, and what multiplying does to it. *)
LEMMA SizesAreNumbers ==
    ASSUME NEW n \in Int, NEW s \in Nat
    PROVE  Abs(n) \in Nat /\ n * s \in Int /\ Abs(n * s) = Abs(n) * s
<1>1. CASE n >= 0
  <2>1. n * s >= 0
    BY <1>1
  <2> QED
    BY <1>1, <2>1 DEF Abs
<1>2. CASE n < 0
  <2>1. n * s <= 0 /\ (-n) * s = -(n * s)
    BY <1>2
  <2> QED
    BY <1>2, <2>1 DEF Abs
<1> QED
  BY <1>1, <1>2

(* Rounding keeps the order of sizes. *)
LEMMA RoundingKeepsOrder ==
    ASSUME NEW a \in Int, NEW b \in Int, NEW d \in Int, d # 0, Abs(b) <= Abs(a)
    PROVE  /\ RoundHalfUp(a, d) \in Int /\ RoundHalfUp(b, d) \in Int
           /\ Abs(RoundHalfUp(b, d)) <= Abs(RoundHalfUp(a, d))
<1>1. PICK x, y, z : x = 2 * Abs(a) + Abs(d) /\ y = 2 * Abs(b) + Abs(d) /\ z = 2 * Abs(d)
  OBVIOUS
<1>2. x \in Nat /\ y \in Nat /\ z \in Nat \ {0} /\ y <= x
  BY <1>1 DEF Abs
<1>3. PICK p, q : p = x \div z /\ q = y \div z
  OBVIOUS
<1>4. p \in Nat /\ q \in Nat /\ q <= p
  BY <1>2, <1>3, QuotientsKeepOrder
<1>5. RoundHalfUp(a, d) = p \/ RoundHalfUp(a, d) = -p
  BY <1>1, <1>3 DEF RoundHalfUp
<1>6. RoundHalfUp(b, d) = q \/ RoundHalfUp(b, d) = -q
  BY <1>1, <1>3 DEF RoundHalfUp
<1>7. \A n \in Nat : Abs(n) = n /\ Abs(-n) = n
  BY DEF Abs
<1> QED
  BY <1>4, <1>5, <1>6, <1>7

(* A larger movement has no smaller part of the whole. *)
LEMMA PartsKeepOrder ==
    ASSUME NEW a \in Int, NEW b \in Int, NEW d \in Int, d # 0, Abs(b) <= Abs(a)
    PROVE  /\ SafeDivide(a, d) \in Int /\ SafeDivide(b, d) \in Int
           /\ Abs(SafeDivide(b, d)) <= Abs(SafeDivide(a, d))
<1>1. RateScale \in Nat /\ NULL \notin Int
  BY MeasuresAssumption
<1>2. /\ Abs(a) \in Nat /\ a * RateScale \in Int /\ Abs(a * RateScale) = Abs(a) * RateScale
      /\ Abs(b) \in Nat /\ b * RateScale \in Int /\ Abs(b * RateScale) = Abs(b) * RateScale
  BY <1>1, SizesAreNumbers
<1>3. Abs(b * RateScale) <= Abs(a * RateScale)
  BY <1>1, <1>2, ProductsKeepOrder
<1>4. a # NULL /\ b # NULL /\ d # NULL
  BY <1>1
<1>5. SafeDivide(a, d) = RoundHalfUp(a * RateScale, d) /\ SafeDivide(b, d) = RoundHalfUp(b * RateScale, d)
  BY <1>4 DEF SafeDivide
<1> QED
  BY <1>2, <1>3, <1>5, RoundingKeepsOrder

(* The first drivers are those that moved most. *)
LEMMA FirstDriversMovedMost ==
    ASSUME NEW moved, IsFiniteSet(moved), NEW total \in Int, total # 0,
           \A r \in moved : r.delta \in Int /\ r.contribution = SafeDivide(r.delta, total),
           NEW n \in Int, NEW a \in moved, NEW b \in FirstDrivers(moved, n), Abs(b.delta) < Abs(a.delta)
    PROVE  a \in FirstDrivers(moved, n)
<1>1. b \in moved /\ DriverRank(b, moved) <= n
  BY DEF FirstDrivers
<1>2. \A r \in moved : r.delta \in Int /\ r.contribution \in Int /\ Abs(r.delta) \in Nat /\ Abs(r.contribution) \in Nat
  <2> TAKE r \in moved
  <2>1. r.contribution \in Int
    <3>1. r.delta \in Int /\ Abs(r.delta) <= Abs(r.delta)
      BY DEF Abs
    <3> QED
      BY <3>1, PartsKeepOrder
  <2> QED
    BY <2>1 DEF Abs
<1>3. Abs(b.contribution) <= Abs(a.contribution)
  BY <1>1, <1>2, PartsKeepOrder
<1>4. \A s \in moved : DriverBefore(s, a) => DriverBefore(s, b)
  <2> SUFFICES ASSUME NEW s \in moved, DriverBefore(s, a) PROVE DriverBefore(s, b)
    OBVIOUS
  <2>1. /\ Abs(s.delta) \in Nat /\ Abs(s.contribution) \in Nat
        /\ Abs(a.delta) \in Nat /\ Abs(a.contribution) \in Nat
        /\ Abs(b.delta) \in Nat /\ Abs(b.contribution) \in Nat
    BY <1>1, <1>2
  <2>2. \/ Abs(s.contribution) > Abs(a.contribution)
        \/ Abs(s.contribution) = Abs(a.contribution) /\ Abs(s.delta) >= Abs(a.delta)
    BY <2>1 DEF DriverBefore
  <2>3. \/ Abs(s.contribution) > Abs(b.contribution)
        \/ Abs(s.contribution) = Abs(b.contribution) /\ Abs(s.delta) > Abs(b.delta)
    BY <1>3, <2>1, <2>2
  <2> QED
    BY <2>3 DEF DriverBefore
<1>5. PICK A, B : A = {s \in moved : DriverBefore(s, a)} /\ B = {s \in moved : DriverBefore(s, b)}
  OBVIOUS
<1>6. A \subseteq B /\ B \subseteq moved
  BY <1>4, <1>5
<1>7. IsFiniteSet(B) /\ IsFiniteSet(A) /\ Cardinality(A) <= Cardinality(B)
  BY <1>6, FS_Subset
<1>8. Cardinality(A) \in Nat /\ Cardinality(B) \in Nat
  BY <1>7, FS_CardinalityType
<1>9. DriverRank(a, moved) = Cardinality(A) + 1 /\ DriverRank(b, moved) = Cardinality(B) + 1
  BY <1>5 DEF DriverRank
<1>10. DriverRank(a, moved) <= n
  BY <1>1, <1>7, <1>8, <1>9
<1> QED
  BY <1>10 DEF FirstDrivers

-----------------------------------------------------------------------------
(* The drivers of an insight *)

(* The rows of a group, what they add up to, and the movement of a group. *)
Own(rows, d, k) == {r \in rows : Coalesce(r[d]) = k}
Counted(rows, d, m, k) == Own(rows, d, k) = {} \/ SumMeasure(Own(rows, d, k), m) # NULL
Worth(rows, d, m, k) == Zero(SumMeasure(Own(rows, d, k), m))
MovedBy(now, past, d, m, k) == Worth(now, d, m, k) - Worth(past, d, m, k)
MovesAlong(now, past, d, m, total, k) ==
    /\ Counted(now, d, m, k) /\ Counted(past, d, m, k)
    /\ (MovedBy(now, past, d, m, k) > 0) = (total > 0)
    /\ MovedBy(now, past, d, m, k) # 0

(* What a set of candidate drivers is like: the groups that moved with the  *)
(* metric, if there are any, each with its movement.                        *)
AreDrivers(moved, total) ==
    /\ IsFiniteSet(moved)
    /\ \A r \in moved : r.delta \in Int /\ r.contribution = SafeDivide(r.delta, total)
CandidatesOf(moved, now, past, d, m, total) ==
    /\ AreDrivers(moved, total)
    /\ \A r \in moved : /\ r.delta = MovedBy(now, past, d, m, r.key)
                        /\ MovesAlong(now, past, d, m, total, r.key)
    /\ moved # {} => \A k \in {Coalesce(r[d]) : r \in now \cup past} :
         MovesAlong(now, past, d, m, total, k) => \E r \in moved : r.key = k
    /\ \A k : MovedBy(now, past, d, m, k) \in Int

(* A metric that adds up is the measure of its name. *)
LEMMA AdditiveMetrics ==
    ASSUME NEW m \in DOMAIN Metrics, Metrics[m].additive
    PROVE  m \in AdditiveMeasures /\ \A measures : Pick(m, measures) = measures[m]
<1>1. m \in {"total_cost", "delivered", "revenue_inr"}
  BY DEF Metrics
<1>2. Metrics[m].of = m
  BY <1>1 DEF Metrics
<1> QED
  BY <1>1, <1>2 DEF Pick, PickAs, AdditiveMeasures

(* The groups of a read: one for every value, the sums of its rows. *)
LEMMA GroupsAre ==
    ASSUME NEW rows, NEW w, NEW f, NEW d \in Dimensions, NEW found, found = In(rows, w, f),
           NEW G, G = Groups(rows, w, f, d)
    PROVE  /\ {g.key : g \in G} = {Coalesce(r[d]) : r \in found}
           /\ \A g \in G : g.measures = SumAdditiveMeasures(Own(found, d, g.key))
<1>1. \A r : KeyOf(r, d) = Coalesce(r[d])
  BY DEF KeyOf, Dimensions
<1>2. \A k : {r \in found : KeyOf(r, d) = k} = Own(found, d, k)
  BY <1>1 DEF Own
<1>3. {KeyOf(r, d) : r \in found} = {Coalesce(r[d]) : r \in found}
  BY <1>1
<1>4. ASSUME NEW x \in G
      PROVE  /\ x.key \in {Coalesce(r[d]) : r \in found}
             /\ x.measures = SumAdditiveMeasures(Own(found, d, x.key))
  <2> DEFINE SumsOf(k) == Totals({r \in found : KeyOf(r, d) = k})
  <2>1. \E k \in {KeyOf(r, d) : r \in found} :
          x = [key |-> k, measures |-> SumsOf(k).measures, count |-> SumsOf(k).count]
    BY Zenon DEF Groups
  <2>2. \A k : SumsOf(k).measures = SumAdditiveMeasures(Own(found, d, k))
    BY <1>2 DEF Totals
  <2> HIDE DEF SumsOf
  <2> QED
    BY <1>3, <2>1, <2>2
<1>5. ASSUME NEW k \in {Coalesce(r[d]) : r \in found} PROVE \E x \in G : x.key = k
  <2> DEFINE SumsOf(j) == Totals({r \in found : KeyOf(r, d) = j})
  <2>1. [key |-> k, measures |-> SumsOf(k).measures, count |-> SumsOf(k).count] \in G
    BY <1>3, Zenon DEF Groups
  <2> HIDE DEF SumsOf
  <2> QED
    BY <2>1
<1> HIDE DEF Own
<1>6. {x.key : x \in G} = {Coalesce(r[d]) : r \in found}
  <2>1. \A x \in G : x.key \in {Coalesce(r[d]) : r \in found}
    BY <1>4
  <2>2. {x.key : x \in G} \subseteq {Coalesce(r[d]) : r \in found}
    BY <2>1, Zenon
  <2>3. \A k \in {Coalesce(r[d]) : r \in found} : k \in {x.key : x \in G}
    BY <1>5
  <2> QED
    BY <2>2, <2>3, Zenon
<1> QED
  BY <1>4, <1>6, Zenon

(* The value of a group in a read. *)
LEMMA ValueOfGroup ==
    ASSUME NEW rows, NEW w, NEW f, NEW d \in Dimensions, NEW found, found = In(rows, w, f),
           NEW G, G = Groups(rows, w, f, d), NEW m \in DOMAIN Metrics, Metrics[m].additive, NEW k
    PROVE  ValueIn(m, G, k) = IF Counted(found, d, m, k) THEN Worth(found, d, m, k) ELSE NULL
<1>1. m \in AdditiveMeasures /\ \A measures : Pick(m, measures) = measures[m]
  BY AdditiveMetrics
<1>2. CASE \E g \in G : g.key = k
  <2>1. PICK g : g = CHOOSE y \in {x \in G : x.key = k} : TRUE
    OBVIOUS
  <2>2. g \in G /\ g.key = k
    BY <1>2, <2>1
  <2>3. MeasuresOf(G, k) = g.measures
    BY <1>2, <2>1 DEF MeasuresOf
  <2>4. g.measures = SumAdditiveMeasures(Own(found, d, k))
    BY <2>2, GroupsAre
  <2>5. ValueIn(m, G, k) = SumMeasure(Own(found, d, k), m)
    BY <1>1, <1>2, <2>3, <2>4 DEF ValueIn, SumAdditiveMeasures
  <2>6. Own(found, d, k) # {}
    <3>1. k \in {Coalesce(r[d]) : r \in found}
      BY <2>2, GroupsAre
    <3> QED
      BY <3>1 DEF Own
  <2> QED
    BY <2>5, <2>6 DEF Counted, Worth, Zero
<1>3. CASE ~\E g \in G : g.key = k
  <2>1. k \notin {Coalesce(r[d]) : r \in found}
    BY <1>3, GroupsAre
  <2>2. Own(found, d, k) = {}
    BY <2>1 DEF Own
  <2>3. SumMeasure({}, m) = NULL
    BY DEF SumMeasure
  <2> QED
    BY <1>3, <2>2, <2>3 DEF ValueIn, Counted, Worth, Zero
<1> QED
  BY <1>2, <1>3

(* The groups that moved with a metric. *)
LEMMA MovedAre ==
    ASSUME NEW h \in Slices, NEW e \in Slices, NEW w, NEW c, NEW f, NEW d \in Dimensions,
           NEW m \in DOMAIN Metrics, Metrics[m].additive,
           NEW move, move.delta \in Int, move.delta # 0,
           NEW now, now = In(RowsOf(h), w, f), NEW past, past = In(RowsOf(e), c, f),
           NEW moved, moved = MovedWith(m, move, Groups(RowsOf(h), w, f, d), Groups(RowsOf(e), c, f, d))
    PROVE  CandidatesOf(moved, now, past, d, m, move.delta)
<1> DEFINE keys == {Coalesce(r[d]) : r \in now \cup past}
<1>1. PICK N, P : N = Groups(RowsOf(h), w, f, d) /\ P = Groups(RowsOf(e), c, f, d)
  OBVIOUS
<1>2. m \in AdditiveMeasures
  BY AdditiveMetrics
<1>3. ASSUME NEW k PROVE Worth(now, d, m, k) \in Int /\ Worth(past, d, m, k) \in Int
  <2>1. Own(now, d, k) \subseteq RowsOf(h) /\ Own(past, d, k) \subseteq RowsOf(e)
    BY DEF Own, In, Selected
  <2> QED
    BY <1>2, <2>1, SumsAreNumbers DEF Worth, Zero
<1>4. \A k : MovedBy(now, past, d, m, k) \in Int
  BY <1>3 DEF MovedBy
<1>5. {x.key : x \in N \cup P} = keys
  <2>1. {x.key : x \in N} = {Coalesce(r[d]) : r \in now}
    BY <1>1, GroupsAre
  <2>2. {x.key : x \in P} = {Coalesce(r[d]) : r \in past}
    BY <1>1, GroupsAre
  <2> QED
    BY <2>1, <2>2
<1>6. ASSUME NEW k
      PROVE  LET row == DriverRow(k, ValueIn(m, N, k), ValueIn(m, P, k), move.delta) IN
             /\ row.key = k /\ row.contribution = SafeDivide(row.delta, move.delta)
             /\ row.delta = IF Counted(now, d, m, k) /\ Counted(past, d, m, k)
                            THEN MovedBy(now, past, d, m, k) ELSE NULL
  <2>1. ValueIn(m, N, k) = IF Counted(now, d, m, k) THEN Worth(now, d, m, k) ELSE NULL
    BY <1>1, ValueOfGroup
  <2>2. ValueIn(m, P, k) = IF Counted(past, d, m, k) THEN Worth(past, d, m, k) ELSE NULL
    BY <1>1, ValueOfGroup
  <2>3. NULL \notin Int
    BY MeasuresAssumption
  <2>4. Worth(now, d, m, k) # NULL /\ Worth(past, d, m, k) # NULL
    BY <1>3, <2>3
  <2> QED
    BY <2>1, <2>2, <2>4 DEF DriverRow, Delta, SafeSubtract, MovedBy
<1>7. PICK rows : rows = DriverRows(m, N, P, move.delta)
  OBVIOUS
<1>8. rows = {DriverRow(k, ValueIn(m, N, k), ValueIn(m, P, k), move.delta) : k \in keys}
  BY <1>5, <1>7 DEF DriverRows
<1>9. moved = {} \/ moved = {r \in rows : r.delta # NULL /\ r.delta # 0
                                          /\ ((r.delta > 0) = (move.delta > 0))}
  BY <1>1, <1>7 DEF MovedWith, SameSign
<1>10. IsFiniteSet(rows)
  <2>1. IsFiniteSet(now \cup past)
    <3>1. now \subseteq RowsOf(h) /\ past \subseteq RowsOf(e)
      BY DEF In, Selected
    <3>2. IsFiniteSet(now) /\ IsFiniteSet(past)
      BY <3>1, RowsAreNumbers, FS_Subset
    <3> QED
      BY <3>2, FS_Union
  <2>2. IsFiniteSet(keys)
    <3> DEFINE key == [r \in now \cup past |-> Coalesce(r[d])]
    <3>1. \A k \in keys : \E r \in now \cup past : k = key[r]
      OBVIOUS
    <3> HIDE DEF key, keys
    <3> QED
      BY <2>1, <3>1, FiniteImage
  <2> DEFINE row == [k \in keys |-> DriverRow(k, ValueIn(m, N, k), ValueIn(m, P, k), move.delta)]
  <2> HIDE DEF keys
  <2>3. \A r \in rows : \E k \in keys : r = row[k]
    BY <1>8
  <2> HIDE DEF row
  <2> QED
    BY <2>2, <2>3, FiniteImage
<1>11. IsFiniteSet(moved)
  <2>1. moved \subseteq rows
    BY <1>9
  <2> QED
    BY <1>10, <2>1, FS_Subset
<1>12. ASSUME NEW r \in moved
       PROVE  /\ r.delta \in Int /\ r.contribution = SafeDivide(r.delta, move.delta)
              /\ r.delta = MovedBy(now, past, d, m, r.key)
              /\ MovesAlong(now, past, d, m, move.delta, r.key)
  <2> HIDE DEF keys
  <2>1. r \in rows /\ r.delta # NULL /\ r.delta # 0 /\ ((r.delta > 0) = (move.delta > 0))
    BY <1>9
  <2>2. PICK k \in keys : r = DriverRow(k, ValueIn(m, N, k), ValueIn(m, P, k), move.delta)
    BY <1>8, <2>1
  <2>3. /\ r.key = k /\ r.contribution = SafeDivide(r.delta, move.delta)
        /\ r.delta = IF Counted(now, d, m, k) /\ Counted(past, d, m, k)
                     THEN MovedBy(now, past, d, m, k) ELSE NULL
    BY <1>6, <2>2
  <2>4. Counted(now, d, m, k) /\ Counted(past, d, m, k) /\ r.delta = MovedBy(now, past, d, m, k)
    BY <2>1, <2>3
  <2> QED
    BY <1>4, <2>1, <2>3, <2>4 DEF MovesAlong
<1>13. ASSUME moved # {}, NEW k \in keys, MovesAlong(now, past, d, m, move.delta, k)
       PROVE  \E r \in moved : r.key = k
  <2> HIDE DEF keys
  <2>1. PICK r : r = DriverRow(k, ValueIn(m, N, k), ValueIn(m, P, k), move.delta)
    OBVIOUS
  <2>2. r \in rows
    BY <1>8, <1>13, <2>1
  <2>3. r.key = k /\ r.delta = MovedBy(now, past, d, m, k)
    BY <1>6, <1>13, <2>1 DEF MovesAlong
  <2>4. r.delta # NULL
    BY <1>4, <2>3, MeasuresAssumption
  <2>5. r \in moved
    BY <1>9, <1>13, <2>2, <2>3, <2>4 DEF MovesAlong
  <2> QED
    BY <2>3, <2>5
<1>14. AreDrivers(moved, move.delta)
  BY <1>11, <1>12 DEF AreDrivers
<1> QED
  BY <1>4, <1>12, <1>13, <1>14 DEF CandidatesOf

(* Of finitely many shares there is a largest, the first of those that tie. *)
LEMMA OneLeads ==
    ASSUME NEW share, DOMAIN share \subseteq Nat, IsFiniteSet(DOMAIN share), DOMAIN share # {},
           \A i \in DOMAIN share : share[i] \in Int
    PROVE  Leading(share) \in DOMAIN share
<1> DEFINE V == {share[i] : i \in DOMAIN share}
<1>1. IsFiniteSet(V) /\ V # {} /\ \A v \in V : v \in Int
  <2>1. \A v \in V : \E i \in DOMAIN share : v = share[i]
    OBVIOUS
  <2>2. IsFiniteSet(V)
    <3> HIDE DEF V
    <3> QED
      BY <2>1, FiniteImage
  <2> QED
    BY <2>2
<1>2. PICK v \in V : \A u \in V : u <= v
  <2> HIDE DEF V
  <2> QED
    BY <1>1, GreatestOfFinite
<1>3. PICK I : I = {i \in DOMAIN share : share[i] = v}
  OBVIOUS
<1>4. I \subseteq Nat /\ I # {}
  BY <1>2, <1>3
<1>5. PICK i \in I : \A j \in I : i <= j
  BY <1>4, LeastOfNumbers
<1>6. \A j \in DOMAIN share : share[i] > share[j] \/ (share[i] = share[j] /\ i <= j)
  <2> TAKE j \in DOMAIN share
  <2>1. share[j] \in Int /\ v \in Int /\ share[j] <= v /\ share[i] = v
    BY <1>1, <1>2, <1>3, <1>5
  <2>2. CASE share[j] = v
    BY <1>3, <1>5, <2>1, <2>2
  <2>3. CASE share[j] # v
    BY <2>1, <2>3
  <2> QED
    BY <2>2, <2>3
<1>7. i \in DOMAIN share
  BY <1>3, <1>5
<1> QED
  BY <1>6, <1>7 DEF Leading

(* The largest part of the drivers is a number. *)
LEMMA TopShareIsInt ==
    ASSUME NEW rows, IsFiniteSet(rows), rows # {}, \A r \in rows : r.contribution \in Int
    PROVE  TopShare(rows) \in Int
<1> DEFINE V == {Abs(r.contribution) : r \in rows}
           size == [r \in rows |-> Abs(r.contribution)]
<1>1. \A v \in V : v \in Int
  BY DEF Abs
<1>2. V # {} /\ \A v \in V : \E r \in rows : v = size[r]
  OBVIOUS
<1>3. TopShare(rows) = CHOOSE x \in V : \A y \in V : x >= y
  BY DEF TopShare, Max
<1> HIDE DEF V, size
<1>4. IsFiniteSet(V)
  BY <1>2, FiniteImage
<1>5. \E x \in V : \A y \in V : y <= x
  BY <1>1, <1>2, <1>4, GreatestOfFinite
<1>6. \E x \in V : \A y \in V : x >= y
  BY <1>1, <1>5
<1> QED
  BY <1>1, <1>3, <1>6

(* The parts of the candidates of a movement are numbers. *)
LEMMA DriversAreNumbers ==
    ASSUME NEW moved, NEW total \in Int, total # 0, AreDrivers(moved, total), moved # {}
    PROVE  TopShare(moved) \in Int
<1>1. ASSUME NEW r \in moved PROVE r.contribution \in Int
  <2>1. r.delta \in Int /\ Abs(r.delta) <= Abs(r.delta)
    BY DEF AreDrivers, Abs
  <2> QED
    BY <2>1, PartsKeepOrder DEF AreDrivers
<1> QED
  BY <1>1, TopShareIsInt DEF AreDrivers

(* The driver insight of a metric is about one of the dimensions asked for. *)
LEMMA DriverDraftsAre ==
    ASSUME NEW m, NEW move, move.delta \in Int, move.delta # 0,
           NEW S, NEW asked \in Seq(S), NEW moved, \A i \in DOMAIN asked : AreDrivers(moved[i], move.delta),
           NEW insight \in DriverDrafts(m, move, asked, moved)
    PROVE  \E i \in DOMAIN asked :
             /\ insight.metric = m /\ insight.delta = move.delta /\ insight.dimension = asked[i]
             /\ moved[i] # {} /\ insight.drivers = FirstDrivers(moved[i], 3)
<1>1. PICK usable : usable = {i \in DOMAIN asked : moved[i] # {}}
  OBVIOUS
<1>2. insight \in LeadingDraft(m, move, asked, moved, usable)
  BY <1>1 DEF DriverDrafts
<1>3. usable # {}
  BY <1>2 DEF LeadingDraft
<1>4. PICK share : share = [j \in usable |-> TopShare(moved[j])]
  OBVIOUS
<1>5. PICK i : i = Leading(share)
  OBVIOUS
<1>6. insight \in DriverDraft(m, move, asked[i], moved[i])
  BY <1>2, <1>3, <1>4, <1>5 DEF LeadingDraft
<1>7. i \in usable
  <2>1. DOMAIN share = usable /\ \A j \in usable : share[j] = TopShare(moved[j])
    BY <1>4
  <2>2. usable \subseteq Nat /\ IsFiniteSet(usable)
    <3>1. DOMAIN asked = 1..Len(asked) /\ Len(asked) \in Nat
      OBVIOUS
    <3>2. usable \subseteq 1..Len(asked)
      BY <1>1, <3>1
    <3>3. IsFiniteSet(1..Len(asked))
      BY <3>1, FS_Interval
    <3>4. IsFiniteSet(usable)
      BY <3>2, <3>3, FS_Subset
    <3>5. usable \subseteq Nat
      BY <3>1, <3>2
    <3> QED
      BY <3>4, <3>5
  <2>3. ASSUME NEW j \in usable PROVE share[j] \in Int
    BY <1>1, <2>1, <2>3, DriversAreNumbers
  <2> QED
    BY <1>3, <1>5, <2>1, <2>2, <2>3, OneLeads
<1>8. insight = Draft("dominant_driver", m, move, TopShare(moved[i]), asked[i], FirstDrivers(moved[i], MaxDriversShown))
  BY <1>6 DEF DriverDraft
<1>9. /\ insight.metric = m /\ insight.delta = move.delta /\ insight.dimension = asked[i]
      /\ insight.drivers = FirstDrivers(moved[i], 3)
  BY <1>8 DEF Draft, MaxDriversShown
<1> QED
  BY <1>1, <1>7, <1>9

(* A driver insight comes from the drafts of drivers of its metric. *)
LEMMA DriversAreDrafted ==
    ASSUME NEW moves, NEW asked, NEW grouped, NEW insight \in Drafts(moves, asked, grouped),
           insight.category = "dominant_driver"
    PROVE  \E m \in DOMAIN moves :
             /\ IsMaterial(m, moves[m]) /\ Metrics[m].additive /\ moves[m].delta # 0
             /\ insight \in DriverDrafts(m, moves[m], asked,
                              [i \in DOMAIN asked |-> MovedWith(m, moves[m], grouped[asked[i]].current,
                                                                grouped[asked[i]].prior)])
<1>1. insight \notin RelationshipDrafts(moves)
  <2>1. \A p : RelationshipDraft(p[1], moves[p[1]], moves[p[2]]).category = "relationship"
    BY DEF RelationshipDraft, Draft
  <2> QED
    BY <2>1 DEF RelationshipDrafts
<1>2. PICK m \in DOMAIN moves : insight \in DraftsOf(m, moves[m], asked, grouped)
  BY <1>1 DEF Drafts
<1>3. PICK move : move = moves[m]
  OBVIOUS
<1>4. insight \notin {Draft(Category(m, move), m, move, 0, None, {})}
  <2>1. Category(m, move) # "dominant_driver"
    BY DEF Category
  <2>2. Draft(Category(m, move), m, move, 0, None, {}).category = Category(m, move)
    BY DEF Draft
  <2> QED
    BY <2>1, <2>2
<1> QED
  BY <1>2, <1>3, <1>4 DEF DraftsOf

(* The monthly insights of two histories: which drivers they name. *)
LEMMA DriversOfInsights ==
    ASSUME NEW h \in Slices, NEW e \in Slices, NEW q, q.view = "insights", Monthly(q), NamesTheKnown(q),
           NEW sc, NEW insight \in AnswerFor(q, sc, ReadFor(q, sc, h), e), insight.category = "dominant_driver",
           NEW now, now = In(RowsOf(h), sc.window, sc.filters),
           NEW past, past = In(RowsOf(e), sc.compare, sc.filters)
    PROVE  \E m \in DOMAIN Metrics, d \in Dimensions : \E moved :
             /\ insight.metric = m /\ insight.dimension = d
             /\ insight.delta \in Int /\ insight.delta # 0 /\ moved # {}
             /\ CandidatesOf(moved, now, past, d, m, insight.delta)
             /\ insight.drivers = FirstDrivers(moved, 3)
<1>1. PICK N, P : N = PeriodReads(q, sc.window, sc.filters, RowsOf(h))
                  /\ P = PeriodReads(q, sc.compare, sc.filters, RowsOf(e))
  OBVIOUS
<1>2. insight \in PeriodInsights(MetricsOf(q), q.dimensions, N, P, Limit)
  <2>1. ReadFor(q, sc, h) = N
    BY <1>1 DEF ReadFor, ReadOf
  <2>2. insight \in InsightAnswer(q, sc, N, RowsOf(e))
    BY <2>1 DEF AnswerFor, AnswerOf
  <2> QED
    BY <1>1, <2>2 DEF InsightAnswer
<1>3. PICK moves, grouped :
        /\ moves = [m \in MetricsOf(q) |-> Snapshot(m, N.total.measures, P.total.measures)]
        /\ grouped = [d \in {q.dimensions[i] : i \in DOMAIN q.dimensions} |->
                        [current |-> N.groups[d], prior |-> P.groups[d]]]
  OBVIOUS
<1>4. insight \in Drafts(moves, q.dimensions, grouped)
  BY <1>2, <1>3 DEF PeriodInsights, BuildInsights, Foremost
<1>5. PICK m \in DOMAIN moves :
        /\ IsMaterial(m, moves[m]) /\ Metrics[m].additive /\ moves[m].delta # 0
        /\ insight \in DriverDrafts(m, moves[m], q.dimensions,
             [i \in DOMAIN q.dimensions |-> MovedWith(m, moves[m], grouped[q.dimensions[i]].current,
                                                      grouped[q.dimensions[i]].prior)])
  BY <1>4, DriversAreDrafted
<1>6. PICK moved, move :
        /\ moved = [i \in DOMAIN q.dimensions |-> MovedWith(m, moves[m], grouped[q.dimensions[i]].current,
                                                           grouped[q.dimensions[i]].prior)]
        /\ move = moves[m] /\ IsMaterial(m, move) /\ Metrics[m].additive /\ move.delta # 0
        /\ insight \in DriverDrafts(m, move, q.dimensions, moved)
  BY <1>5
<1>7. m \in DOMAIN Metrics
  BY <1>3 DEF NamesTheKnown, MetricsOf
<1>8. q.dimensions \in Seq(Dimensions)
  BY DEF NamesTheKnown
<1>9. move.delta \in Int
  <2>1. m \in AdditiveMeasures /\ \A measures : Pick(m, measures) = measures[m]
    BY <1>6, <1>7, AdditiveMetrics
  <2>2. N.total.measures = SumAdditiveMeasures(now) /\ P.total.measures = SumAdditiveMeasures(past)
    BY <1>1 DEF PeriodReads, SumPublishedHistory
  <2>3. now \subseteq RowsOf(h) /\ past \subseteq RowsOf(e)
    BY DEF In, Selected
  <2>4. SumMeasure(now, m) \in Int \cup {NULL} /\ SumMeasure(past, m) \in Int \cup {NULL}
    BY <2>1, <2>3, SumsAreNumbers
  <2>5. Pick(m, N.total.measures) = SumMeasure(now, m) /\ Pick(m, P.total.measures) = SumMeasure(past, m)
    BY <2>1, <2>2 DEF SumAdditiveMeasures
  <2>6. move = Snapshot(m, N.total.measures, P.total.measures)
    BY <1>3, <1>6
  <2>7. move.delta = NULL \/ move.delta = Delta(SumMeasure(now, m), SumMeasure(past, m))
    BY <2>5, <2>6 DEF Snapshot, Movement
  <2>8. move.delta # NULL
    BY <1>6 DEF IsMaterial
  <2> QED
    BY <2>4, <2>7, <2>8 DEF Delta, SafeSubtract
<1>10. ASSUME NEW i \in DOMAIN q.dimensions
       PROVE  /\ q.dimensions[i] \in Dimensions
              /\ moved[i] = MovedWith(m, move,
                                 Groups(RowsOf(h), sc.window, sc.filters, q.dimensions[i]),
                                 Groups(RowsOf(e), sc.compare, sc.filters, q.dimensions[i]))
  <2>1. q.dimensions[i] \in Dimensions
    BY <1>8
  <2>2. PICK d : d = q.dimensions[i]
    OBVIOUS
  <2>3. d \in Asked(q)
    BY <2>2 DEF Asked
  <2>4. /\ N.groups[d] = Groups(RowsOf(h), sc.window, sc.filters, d)
        /\ P.groups[d] = Groups(RowsOf(e), sc.compare, sc.filters, d)
    BY <1>1, <2>3 DEF PeriodReads
  <2>5. grouped[d].current = N.groups[d] /\ grouped[d].prior = P.groups[d]
    BY <1>3, <2>3 DEF Asked
  <2>6. moved[i] = MovedWith(m, move, grouped[d].current, grouped[d].prior)
    BY <1>6, <2>2
  <2> QED
    BY <2>1, <2>2, <2>4, <2>5, <2>6
<1>11. ASSUME NEW i \in DOMAIN q.dimensions
       PROVE  CandidatesOf(moved[i], now, past, q.dimensions[i], m, move.delta)
  <2>1. PICK d, M : d = q.dimensions[i] /\ M = moved[i]
    OBVIOUS
  <2>2. d \in Dimensions
    BY <1>10, <2>1
  <2>3. M = MovedWith(m, move, Groups(RowsOf(h), sc.window, sc.filters, d),
                      Groups(RowsOf(e), sc.compare, sc.filters, d))
    BY <1>10, <2>1
  <2>4. CandidatesOf(M, now, past, d, m, move.delta)
    BY <1>6, <1>7, <1>9, <2>2, <2>3, MovedAre
  <2> QED
    BY <2>1, <2>4
<1>12. PICK i \in DOMAIN q.dimensions :
         /\ insight.metric = m /\ insight.delta = move.delta /\ insight.dimension = q.dimensions[i]
         /\ moved[i] # {} /\ insight.drivers = FirstDrivers(moved[i], 3)
  <2>1. \A i \in DOMAIN q.dimensions : AreDrivers(moved[i], move.delta)
    BY <1>11 DEF CandidatesOf
  <2>2. PICK asked : asked = q.dimensions /\ asked \in Seq(Dimensions)
    BY <1>8
  <2>3. insight \in DriverDrafts(m, move, asked, moved) /\ move.delta \in Int /\ move.delta # 0
    BY <1>6, <1>9, <2>2
  <2>4. \E i \in DOMAIN asked :
          /\ insight.metric = m /\ insight.delta = move.delta /\ insight.dimension = asked[i]
          /\ moved[i] # {} /\ insight.drivers = FirstDrivers(moved[i], 3)
    BY <2>1, <2>2, <2>3, DriverDraftsAre
  <2> QED
    BY <2>2, <2>4
<1>13. PICK d, M : d = q.dimensions[i] /\ M = moved[i]
  OBVIOUS
<1>14. /\ insight.metric = m /\ insight.dimension = d /\ insight.delta \in Int /\ insight.delta # 0
       /\ M # {} /\ CandidatesOf(M, now, past, d, m, insight.delta)
       /\ insight.drivers = FirstDrivers(M, 3) /\ d \in Dimensions
  BY <1>6, <1>9, <1>10, <1>11, <1>12, <1>13
<1> QED
  BY <1>7, <1>14

(* Some drivers are the ones that moved a metric most in its direction.      *)
LeadersOf(drivers, now, past, d, m, total) ==
    LET named == {r.key : r \in drivers}
    IN  /\ \A r \in drivers : /\ r.delta = MovedBy(now, past, d, m, r.key)
                              /\ MovesAlong(now, past, d, m, total, r.key)
        /\ \A k \in {Coalesce(r[d]) : r \in now \cup past} \ named, n \in named :
             MovesAlong(now, past, d, m, total, k) =>
               Abs(MovedBy(now, past, d, m, k)) <= Abs(MovedBy(now, past, d, m, n))

(* The first of the candidates are. *)
LEMMA FirstDriversLead ==
    ASSUME NEW moved, NEW now, NEW past, NEW d, NEW m, NEW total \in Int, total # 0, moved # {},
           CandidatesOf(moved, now, past, d, m, total)
    PROVE  LeadersOf(FirstDrivers(moved, 3), now, past, d, m, total)
<1>1. PICK drivers, named, keys :
        /\ drivers = FirstDrivers(moved, 3) /\ named = {r.key : r \in drivers}
        /\ keys = {Coalesce(r[d]) : r \in now \cup past}
  OBVIOUS
<1>2. drivers \subseteq moved
  BY <1>1 DEF FirstDrivers
<1>3. /\ AreDrivers(moved, total)
      /\ \A r \in moved : /\ r.delta = MovedBy(now, past, d, m, r.key)
                          /\ MovesAlong(now, past, d, m, total, r.key)
      /\ \A k \in keys : MovesAlong(now, past, d, m, total, k) => \E r \in moved : r.key = k
      /\ \A k : MovedBy(now, past, d, m, k) \in Int
  BY <1>1 DEF CandidatesOf
<1>4. ASSUME NEW k \in keys \ named, NEW b \in drivers, MovesAlong(now, past, d, m, total, k),
             ~(Abs(MovedBy(now, past, d, m, k)) <= Abs(MovedBy(now, past, d, m, b.key)))
      PROVE  FALSE
  <2>1. PICK a \in moved : a.key = k
    BY <1>3, <1>4
  <2>2. a.delta = MovedBy(now, past, d, m, k) /\ b.delta = MovedBy(now, past, d, m, b.key)
    BY <1>2, <1>3, <2>1
  <2>3. a.delta \in Int /\ b.delta \in Int
    BY <1>3, <2>2
  <2>4. Abs(b.delta) < Abs(a.delta)
    BY <1>4, <2>2, <2>3 DEF Abs
  <2>5. a \in drivers
    BY <1>1, <1>3, <2>1, <2>4, FirstDriversMovedMost DEF AreDrivers
  <2> QED
    BY <1>1, <1>4, <2>1, <2>5
<1>5. \A k \in keys \ named, n \in named :
        MovesAlong(now, past, d, m, total, k) =>
          Abs(MovedBy(now, past, d, m, k)) <= Abs(MovedBy(now, past, d, m, n))
  BY <1>1, <1>4
<1>6. \A r \in drivers : /\ r.delta = MovedBy(now, past, d, m, r.key)
                         /\ MovesAlong(now, past, d, m, total, r.key)
  BY <1>2, <1>3
<1> QED
  BY <1>1, <1>5, <1>6 DEF LeadersOf

(* driver_rows, _same_sign: for any facts, a monthly insight names as drivers *)
(* the groups that moved the metric most in its direction, whichever of the   *)
(* two months they occur in, and a driver's movement is that of its facts.    *)
THEOREM DriversLead == ReadersSpec => []DriversAreTheLargest
<1>1. AskInv /\ SlicesInv => DriversAreTheLargest
  <2> SUFFICES ASSUME AskInv, SlicesInv, Answered("insights"), Monthly(question),
                      NEW insight \in answer, insight.category = "dominant_driver"
               PROVE  LeadersOf(insight.drivers,
                        RowsIn(seen.current, scope.window.from, scope.window.to, scope.filters),
                        RowsIn(seen.compared, scope.compare.from, scope.compare.to, scope.filters),
                        insight.dimension, insight.metric, insight.delta)
    BY Zenon DEF DriversAreTheLargest, LeadersOf, MovesAlong, MovedBy, Worth, Counted, Own
  <2>1. /\ scope # Refused /\ scope # NoScope /\ NamesTheKnown(question) /\ question.view = "insights"
        /\ answer = AnswerFor(question, scope, ReadFor(question, scope, seen.current), seen.compared)
    BY DEF AskInv, AnswerInv, Answered
  <2>2. \A x \in Dimensions : NULL \notin scope.filters[x]
    <3>1. PICK h : scope = ScopeFor(request, h)
      BY DEF AskInv, AnswerInv, Answered
    <3> QED
      BY <2>1, <3>1, ScopesFilter
  <2>3. PICK h, e, now, past :
          /\ h = seen.current /\ e = seen.compared /\ h \in Slices /\ e \in Slices
          /\ now = RowsIn(h, scope.window.from, scope.window.to, scope.filters)
          /\ past = RowsIn(e, scope.compare.from, scope.compare.to, scope.filters)
    BY DEF SlicesInv
  <2>4. now = In(RowsOf(h), scope.window, scope.filters) /\ past = In(RowsOf(e), scope.compare, scope.filters)
    BY <2>2, <2>3, ReadsSelect
  <2>5. insight \in AnswerFor(question, scope, ReadFor(question, scope, h), e)
    BY <2>1, <2>3
  <2>6. PICK m \in DOMAIN Metrics, d \in Dimensions : \E moved :
          /\ insight.metric = m /\ insight.dimension = d
          /\ insight.delta \in Int /\ insight.delta # 0 /\ moved # {}
          /\ CandidatesOf(moved, now, past, d, m, insight.delta)
          /\ insight.drivers = FirstDrivers(moved, 3)
    BY <2>1, <2>3, <2>4, <2>5, DriversOfInsights
  <2>7. LeadersOf(insight.drivers, now, past, insight.dimension, insight.metric, insight.delta)
    BY <2>6, FirstDriversLead
  <2> QED
    BY <2>3, <2>7
<1> QED
  BY <1>1, AnswersAreOfTheirReads, ReadersReadFacts, PTL

-----------------------------------------------------------------------------
(* What a drilldown accounts for *)

(* Zeros add up to zero. *)
LEMMA SumOfZeros ==
    ASSUME NEW f, NEW S, IsFiniteSet(S), \A x \in S : f[x] = 0
    PROVE  SumIn(f, S) = 0
<1> DEFINE C == {s \in SUBSET S : SumIn(f, s) # 0}
<1> SUFFICES ASSUME C # {} PROVE FALSE
  OBVIOUS
<1>1. PICK t \in C : \A u \in C : ~(u \subseteq t /\ u # t)
  <2>1. C \subseteq SUBSET S
    OBVIOUS
  <2> HIDE DEF C
  <2> QED
    BY <2>1, SmallestSet
<1>2. t \subseteq S /\ SumIn(f, t) # 0
  OBVIOUS
<1>3. \A u : u \subseteq t /\ u # t => SumIn(f, u) = 0
  BY <1>1, <1>2
<1> HIDE DEF C
<1>4. IsFiniteSet(t)
  BY <1>2, FS_Subset
<1>5. SumIn(f, t) = IF t = {} THEN 0 ELSE f[Some(t)] + SumIn(f, t \ {Some(t)})
  BY <1>4, SumStep
<1>6. t # {}
  BY <1>2, <1>5
<1>7. PICK u : u = t \ {Some(t)}
  OBVIOUS
<1>8. SumIn(f, u) = 0 /\ f[Some(t)] = 0
  BY <1>2, <1>3, <1>6, <1>7, SomeIs
<1> QED
  BY <1>2, <1>5, <1>6, <1>7, <1>8

(* Counting is adding up ones. *)
LEMMA SumOfOnes ==
    ASSUME NEW f, NEW S, IsFiniteSet(S), \A x \in S : f[x] = 1
    PROVE  SumIn(f, S) = Cardinality(S)
<1> DEFINE C == {s \in SUBSET S : SumIn(f, s) # Cardinality(s)}
<1> SUFFICES ASSUME C # {} PROVE FALSE
  OBVIOUS
<1>1. PICK t \in C : \A u \in C : ~(u \subseteq t /\ u # t)
  <2>1. C \subseteq SUBSET S
    OBVIOUS
  <2> HIDE DEF C
  <2> QED
    BY <2>1, SmallestSet
<1>2. t \subseteq S /\ SumIn(f, t) # Cardinality(t)
  OBVIOUS
<1>3. \A u : u \subseteq t /\ u # t => SumIn(f, u) = Cardinality(u)
  BY <1>1, <1>2
<1> HIDE DEF C
<1>4. IsFiniteSet(t)
  BY <1>2, FS_Subset
<1>5. SumIn(f, t) = IF t = {} THEN 0 ELSE f[Some(t)] + SumIn(f, t \ {Some(t)})
  BY <1>4, SumStep
<1>6. t # {}
  BY <1>2, <1>5, FS_EmptySet
<1>7. PICK u, e : u = t \ {Some(t)} /\ e = Some(t)
  OBVIOUS
<1>8. SumIn(f, u) = Cardinality(u) /\ f[e] = 1 /\ e \in t /\ IsFiniteSet(u)
  BY <1>2, <1>3, <1>4, <1>6, <1>7, SomeIs, FS_Subset
<1>9. Cardinality(t) = Cardinality(u) + 1 /\ Cardinality(u) \in Nat
  <2>1. t = u \cup {e} /\ e \notin u
    BY <1>7, <1>8
  <2> QED
    BY <1>8, <2>1, FS_AddElement, FS_CardinalityType
<1> QED
  BY <1>2, <1>5, <1>6, <1>7, <1>8, <1>9

(* Parts of a set of rows: every row is in one of them. *)
ArePartsOf(part, K, S) ==
    /\ IsFiniteSet(K)
    /\ \A j \in K : part[j] \subseteq S
    /\ \A x \in S : \E j \in K : x \in part[j]
    /\ \A i, j \in K : part[i] \cap part[j] # {} => i = j

(* The sums of the parts add up to the sum of the whole. *)
LEMMA PartsAddUp ==
    ASSUME NEW S, IsFiniteSet(S), NEW f, \A x \in S : f[x] \in Int,
           NEW part, NEW K, ArePartsOf(part, K, S),
           NEW p, \A j \in K : p[j] = SumIn(f, part[j])
    PROVE  SumIn(f, S) = SumIn(p, K)
<1> DEFINE k == [x \in S |-> CHOOSE j \in K : x \in part[j]]
<1>1. \A x \in S : k[x] \in K /\ x \in part[k[x]]
  BY DEF ArePartsOf
<1>2. ASSUME NEW j \in K PROVE part[j] = {x \in S : k[x] = j}
  <2>1. \A x \in part[j] : x \in S /\ k[x] = j
    BY <1>1 DEF ArePartsOf
  <2>2. \A x \in S : k[x] = j => x \in part[j]
    BY <1>1
  <2> HIDE DEF k
  <2> QED
    BY <2>1, <2>2
<1> HIDE DEF k
<1>3. \A j \in K : p[j] = SumIn(f, {x \in S : k[x] = j})
  BY <1>2
<1>4. IsFiniteSet(K) /\ \A x \in S : k[x] \in K
  BY <1>1 DEF ArePartsOf
<1> QED
  BY <1>3, <1>4, SumOfGroups

(* What a measure of some rows adds up to, an absent value counted as 0. *)
LEMMA ZeroSum ==
    ASSUME NEW h \in Slices, NEW rows, rows \subseteq RowsOf(h), NEW m \in AdditiveMeasures,
           NEW f, \A r \in rows : f[r] = Zero(r[m])
    PROVE  Zero(SumMeasure(rows, m)) = SumIn(f, rows) /\ SumIn(f, rows) \in Int
<1> DEFINE held == {r \in rows : r[m] # NULL}
           none == {r \in rows : r[m] = NULL}
           g == [r \in held |-> r[m]]
<1>1. IsFiniteSet(rows) /\ IsFiniteSet(held) /\ IsFiniteSet(none)
  <2>1. IsFiniteSet(rows)
    BY RowsAreNumbers, FS_Subset
  <2> QED
    BY <2>1, FS_Subset
<1>2. \A r \in rows : r[m] \in Int \cup {NULL}
  BY RowsAreNumbers
<1>3. \A r \in rows : f[r] \in Int
  BY <1>2 DEF Zero
<1>4. \A r \in none : f[r] = 0
  BY DEF Zero
<1>5. \A r \in held : f[r] = g[r] /\ g[r] \in Int
  BY <1>2 DEF Zero
<1>6. rows = held \cup none /\ held \cap none = {}
  OBVIOUS
<1>7. SumMeasure(rows, m) = IF held = {} THEN NULL ELSE SumOf(g)
  BY DEF SumMeasure
<1>8. DOMAIN g = held
  OBVIOUS
<1> HIDE DEF held, none, g
<1>9. SumIn(f, rows) = SumIn(f, held) + SumIn(f, none)
  BY <1>1, <1>3, <1>6, SumJoins
<1>10. SumIn(f, none) = 0
  BY <1>1, <1>4, SumOfZeros
<1>11. SumIn(f, held) = SumIn(g, held) /\ SumIn(g, held) \in Int
  BY <1>1, <1>5, SumIsOfValues, SumIsInt
<1>12. SumIn(f, rows) = SumIn(g, held)
  BY <1>9, <1>10, <1>11
<1>13. CASE held = {}
  BY <1>7, <1>11, <1>12, <1>13, SumOfNone DEF Zero
<1>14. CASE held # {}
  <2>1. SumMeasure(rows, m) = SumIn(g, held)
    BY <1>7, <1>8, <1>14, SumIs
  <2> QED
    BY <1>11, <1>12, <2>1, MeasuresAssumption DEF Zero
<1> QED
  BY <1>13, <1>14

(* What the parts of some rows add up to: their count, and the sums of their *)
(* measures.                                                                 *)
MakeUp(part, K, rows) ==
    /\ \A c : (\A j \in K : c[j] = Cardinality(part[j])) => SumIn(c, K) = Cardinality(rows)
    /\ \A m \in AdditiveMeasures : \A v :
         (\A j \in K : v[j] = Zero(SumMeasure(part[j], m))) => SumIn(v, K) = Zero(SumMeasure(rows, m))

(* The parts of some rows make up the rows. *)
LEMMA RowsAddUp ==
    ASSUME NEW h \in Slices, NEW rows, rows \subseteq RowsOf(h), NEW part, NEW K, ArePartsOf(part, K, rows)
    PROVE  MakeUp(part, K, rows)
<1>1. IsFiniteSet(rows) /\ \A j \in K : IsFiniteSet(part[j]) /\ part[j] \subseteq rows
  <2>1. IsFiniteSet(rows)
    BY RowsAreNumbers, FS_Subset
  <2> QED
    BY <2>1, FS_Subset DEF ArePartsOf
<1>2. ASSUME NEW c, \A j \in K : c[j] = Cardinality(part[j]) PROVE SumIn(c, K) = Cardinality(rows)
  <2>1. PICK f : f = [r \in rows |-> 1]
    OBVIOUS
  <2>2. \A r \in rows : f[r] = 1
    BY <2>1
  <2>3. \A j \in K : c[j] = SumIn(f, part[j])
    <3> SUFFICES ASSUME NEW j \in K PROVE c[j] = SumIn(f, part[j])
      OBVIOUS
    <3>1. \A r \in part[j] : f[r] = 1
      BY <1>1, <2>2
    <3> QED
      BY <1>1, <1>2, <3>1, SumOfOnes
  <2>4. SumIn(f, rows) = Cardinality(rows)
    BY <1>1, <2>2, SumOfOnes
  <2> QED
    BY <1>1, <2>2, <2>3, <2>4, PartsAddUp
<1>3. ASSUME NEW m \in AdditiveMeasures, NEW v, \A j \in K : v[j] = Zero(SumMeasure(part[j], m))
      PROVE  SumIn(v, K) = Zero(SumMeasure(rows, m))
  <2>1. PICK f : f = [r \in rows |-> Zero(r[m])]
    OBVIOUS
  <2>2. \A r \in rows : f[r] = Zero(r[m])
    BY <2>1
  <2>3. \A r \in rows : f[r] \in Int
    <3>1. \A r \in rows : r[m] \in Int \cup {NULL}
      BY RowsAreNumbers
    <3> QED
      BY <2>2, <3>1 DEF Zero
  <2>4. \A j \in K : v[j] = SumIn(f, part[j])
    <3> SUFFICES ASSUME NEW j \in K PROVE v[j] = SumIn(f, part[j])
      OBVIOUS
    <3>1. part[j] \subseteq RowsOf(h) /\ \A r \in part[j] : f[r] = Zero(r[m])
      BY <1>1, <2>2
    <3> QED
      BY <1>3, <3>1, ZeroSum
  <2>5. SumIn(f, rows) = Zero(SumMeasure(rows, m))
    BY <2>2, ZeroSum
  <2> QED
    BY <1>1, <2>3, <2>4, <2>5, PartsAddUp
<1> QED
  BY <1>2, <1>3 DEF MakeUp

(* A strict order of all of a set. *)
Orders(R, S) ==
    /\ \A a \in S : <<a, a>> \notin R
    /\ \A a, b, c \in S : <<a, b>> \in R /\ <<b, c>> \in R => <<a, c>> \in R
    /\ \A a, b \in S : a # b => <<a, b>> \in R \/ <<b, a>> \in R

(* Finitely many ordered things have a last one. *)
LEMMA LastOfFinite ==
    ASSUME NEW S, IsFiniteSet(S), S # {}, NEW R, Orders(R, S)
    PROVE  \E x \in S : \A y \in S : y = x \/ <<y, x>> \in R
<1> DEFINE C == {s \in SUBSET S : s # {} /\ ~\E x \in s : \A y \in s : y = x \/ <<y, x>> \in R}
<1> SUFFICES ASSUME C # {} PROVE FALSE
  OBVIOUS
<1>1. PICK t \in C : \A u \in C : ~(u \subseteq t /\ u # t)
  <2>1. C \subseteq SUBSET S
    OBVIOUS
  <2> HIDE DEF C
  <2> QED
    BY <2>1, SmallestSet
<1>2. t \subseteq S /\ t # {} /\ ~\E x \in t : \A y \in t : y = x \/ <<y, x>> \in R
  OBVIOUS
<1>3. PICK e \in t : TRUE
  BY <1>2
<1>4. PICK u : u = t \ {e}
  OBVIOUS
<1>5. u # {}
  BY <1>2, <1>3, <1>4
<1>6. u \notin C
  BY <1>1, <1>3, <1>4
<1>7. PICK x \in u : \A y \in u : y = x \/ <<y, x>> \in R
  BY <1>2, <1>4, <1>5, <1>6
<1>8. x \in S /\ e \in S /\ x # e /\ x \in t
  BY <1>2, <1>3, <1>4, <1>7
<1>9. CASE <<e, x>> \in R
  BY <1>2, <1>4, <1>7, <1>8, <1>9
<1>10. CASE <<x, e>> \in R
  <2>1. \A y \in t : y = e \/ <<y, e>> \in R
    <3> SUFFICES ASSUME NEW y \in t, y # e PROVE <<y, e>> \in R
      OBVIOUS
    <3>1. y \in u /\ y \in S
      BY <1>2, <1>4
    <3> QED
      BY <1>7, <1>8, <1>10, <3>1 DEF Orders
  <2> QED
    BY <1>2, <1>3, <2>1
<1> QED
  BY <1>8, <1>9, <1>10 DEF Orders

(* Those with fewer than N before them are at most N. *)
LEMMA FirstAreFew ==
    ASSUME NEW S, IsFiniteSet(S), NEW R, Orders(R, S), NEW N \in Nat,
           NEW T, T \subseteq S, \A t \in T : Cardinality({s \in S : <<s, t>> \in R}) < N
    PROVE  Cardinality(T) <= N
<1>1. IsFiniteSet(T)
  BY FS_Subset
<1>2. CASE T = {}
  BY <1>2, FS_EmptySet
<1>3. CASE T # {}
  <2>1. Orders(R, T)
    BY DEF Orders
  <2>2. PICK x \in T : \A y \in T : y = x \/ <<y, x>> \in R
    BY <1>1, <1>3, <2>1, LastOfFinite
  <2>3. PICK before, rest : before = {s \in S : <<s, x>> \in R} /\ rest = T \ {x}
    OBVIOUS
  <2>4. rest \subseteq before /\ IsFiniteSet(before)
    BY <2>2, <2>3, FS_Subset
  <2>5. Cardinality(rest) <= Cardinality(before) /\ Cardinality(before) \in Nat
    BY <2>4, FS_Subset, FS_CardinalityType
  <2>6. Cardinality(rest) = Cardinality(T) - 1 /\ Cardinality(T) \in Nat
    BY <1>1, <2>2, <2>3, FS_RemoveElement, FS_CardinalityType
  <2>7. Cardinality(before) < N
    BY <2>2, <2>3
  <2> QED
    BY <2>5, <2>6, <2>7
<1> QED
  BY <1>2, <1>3

(* A rounded quotient is off by half at most. *)
LEMMA RoundingIsClose ==
    ASSUME NEW n \in Int, NEW d \in Nat \ {0}, NEW q, q = RoundHalfUp(n, d)
    PROVE  q \in Int /\ 2 * (q * d - n) <= d /\ 2 * (n - q * d) <= d
<1>1. PICK a, p : a = Abs(n) /\ p = (2 * a + d) \div (2 * d)
  OBVIOUS
<1>2. a \in Nat /\ p \in Int
  BY <1>1 DEF Abs
<1>3. Abs(d) = d
  BY DEF Abs
<1>4. q = IF n < 0 THEN -p ELSE p
  BY <1>1, <1>3 DEF RoundHalfUp
<1>5. (2 * d) * p <= 2 * a + d /\ 2 * a + d < (2 * d) * (p + 1)
  BY <1>1, <1>2
<1>6. PICK z : z = d * p
  OBVIOUS
<1>7. z \in Int /\ (2 * d) * p = 2 * z /\ (2 * d) * (p + 1) = 2 * z + 2 * d /\ p * d = z /\ (-p) * d = -z
  BY <1>2, <1>6
<1>8. 2 * z <= 2 * a + d /\ 2 * a < 2 * z + d
  BY <1>2, <1>5, <1>7
<1>9. a = IF n < 0 THEN -n ELSE n
  BY <1>1 DEF Abs
<1> QED
  BY <1>2, <1>4, <1>7, <1>8, <1>9

(* The shares of parts that make up a whole make up RateScale, but for half *)
(* a unit of each.                                                          *)
LEMMA SharesAddUp ==
    ASSUME NEW K, IsFiniteSet(K), NEW v, \A j \in K : v[j] \in Int,
           NEW V \in Nat \ {0}, V = SumIn(v, K),
           NEW s, \A j \in K : s[j] = SafeDivide(v[j], V)
    PROVE  Abs(SumIn(s, K) - RateScale) <= Cardinality(K)
<1>1. RateScale \in Nat \ {0} /\ NULL \notin Int
  BY MeasuresAssumption
<1>2. \A j \in K : s[j] = RoundHalfUp(v[j] * RateScale, V)
  BY <1>1 DEF SafeDivide
<1>3. ASSUME NEW j \in K
      PROVE  /\ s[j] \in Int /\ v[j] * RateScale \in Int
             /\ 2 * (s[j] * V - v[j] * RateScale) <= V /\ 2 * (v[j] * RateScale - s[j] * V) <= V
  <2>1. PICK n : n = v[j] * RateScale
    OBVIOUS
  <2>2. n \in Int
    BY <1>1, <2>1
  <2> QED
    BY <1>2, <2>1, <2>2, RoundingIsClose
<1> DEFINE Near(t) == LET c == Cardinality(t)
                          e == SumIn(s, t) * V - SumIn(v, t) * RateScale
                      IN  2 * e <= c * V /\ -(2 * e) <= c * V
<1>4. \A t : t \subseteq K => IsFiniteSet(t) /\ Cardinality(t) \in Nat /\ SumIn(s, t) \in Int /\ SumIn(v, t) \in Int
  BY <1>3, FS_Subset, FS_CardinalityType, SumIsInt
<1>5. Near(K)
  <2> DEFINE C == {t \in SUBSET K : ~Near(t)}
  <2> SUFFICES ASSUME C # {} PROVE FALSE
    OBVIOUS
  <2>1. PICK t \in C : \A u \in C : ~(u \subseteq t /\ u # t)
    <3>1. C \subseteq SUBSET K
      OBVIOUS
    <3> HIDE DEF C
    <3> QED
      BY <3>1, SmallestSet
  <2>2. t \subseteq K /\ ~Near(t)
    OBVIOUS
  <2>3. \A u : u \subseteq t /\ u # t => Near(u)
    BY <2>1, <2>2
  <2> HIDE DEF C
  <2>4. t # {}
    <3>1. SumIn(s, {}) = 0 /\ SumIn(v, {}) = 0 /\ Cardinality({}) = 0
      BY SumOfNone, FS_EmptySet
    <3>2. Near({})
      BY <1>1, <3>1
    <3> QED
      BY <2>2, <3>2
  <2>5. PICK j, u : j \in t /\ u = t \ {j}
    BY <2>4
  <2>6. u \subseteq K /\ Near(u) /\ j \in K
    BY <2>2, <2>3, <2>5
  <2>7. SumIn(s, t) = s[j] + SumIn(s, u)
    BY <1>3, <1>4, <2>2, <2>5, SumTakes
  <2>8. SumIn(v, t) = v[j] + SumIn(v, u)
    BY <1>4, <2>2, <2>5, SumTakes
  <2>9. Cardinality(t) = Cardinality(u) + 1
    <3>1. Cardinality(u) = Cardinality(t) - 1
      BY <1>4, <2>2, <2>5, FS_RemoveElement
    <3> QED
      BY <1>4, <2>2, <3>1
  <2>10. PICK a, b, x, y, c : a = SumIn(s, u) /\ b = SumIn(v, u) /\ x = s[j] /\ y = v[j] /\ c = Cardinality(u)
    OBVIOUS
  <2>11. a \in Int /\ b \in Int /\ x \in Int /\ y \in Int /\ c \in Nat
    BY <1>3, <1>4, <2>6, <2>10
  <2>12. /\ (x + a) * V = x * V + a * V /\ (y + b) * RateScale = y * RateScale + b * RateScale
         /\ (c + 1) * V = c * V + V
    BY <1>1, <2>11
  <2>13. PICK aV, bR, xV, yR, cV : aV = a * V /\ bR = b * RateScale /\ xV = x * V /\ yR = y * RateScale /\ cV = c * V
    OBVIOUS
  <2>14. aV \in Int /\ bR \in Int /\ xV \in Int /\ yR \in Int /\ cV \in Int
    BY <1>1, <2>11, <2>13
  <2>15. 2 * (aV - bR) <= cV /\ -(2 * (aV - bR)) <= cV
    BY <2>6, <2>10, <2>13
  <2>16. 2 * (xV - yR) <= V /\ 2 * (yR - xV) <= V
    BY <1>3, <2>6, <2>10, <2>13
  <2>17. 2 * ((xV + aV) - (yR + bR)) <= cV + V /\ -(2 * ((xV + aV) - (yR + bR))) <= cV + V
    BY <2>14, <2>15, <2>16
  <2>18. Near(t)
    BY <2>7, <2>8, <2>9, <2>10, <2>12, <2>13, <2>17
  <2> QED
    BY <2>2, <2>18
<1>6. PICK a, c : a = SumIn(s, K) /\ c = Cardinality(K)
  OBVIOUS
<1>7. a \in Int /\ c \in Nat
  BY <1>4, <1>6
<1>8. PICK z : z = a - RateScale
  OBVIOUS
<1>9. z \in Int /\ z * V = a * V - V * RateScale
  BY <1>1, <1>7, <1>8
<1>10. 2 * (z * V) <= c * V /\ -(2 * (z * V)) <= c * V
  BY <1>5, <1>6, <1>9
<1>11. z <= c
  <2> SUFFICES ASSUME c + 1 <= z PROVE FALSE
    BY <1>7, <1>9
  <2>1. (c + 1) * V <= z * V
    BY <1>7, <1>9, ProductsKeepOrder
  <2>2. PICK zV, cV : zV = z * V /\ cV = c * V
    OBVIOUS
  <2>3. zV \in Int /\ cV \in Nat /\ (c + 1) * V = cV + V
    BY <1>7, <1>9, <2>2
  <2> QED
    BY <1>10, <2>1, <2>2, <2>3
<1>12. -z <= c
  <2> SUFFICES ASSUME c + 1 <= -z PROVE FALSE
    BY <1>7, <1>9
  <2>1. (c + 1) * V <= (-z) * V
    BY <1>7, <1>9, ProductsKeepOrder
  <2>2. PICK zV, cV : zV = z * V /\ cV = c * V
    OBVIOUS
  <2>3. zV \in Int /\ cV \in Nat /\ (c + 1) * V = cV + V /\ (-z) * V = -zV
    BY <1>7, <1>9, <2>2
  <2> QED
    BY <1>10, <2>1, <2>2, <2>3
<1> QED
  BY <1>6, <1>7, <1>8, <1>9, <1>11, <1>12 DEF Abs

(* The rows of a key, and what the groups of some rows are: one for every   *)
(* key, with the sums and the count of its rows.                            *)
Keyed(rows, d, k) == {r \in rows : KeyOf(r, d) = k}
GroupedBy(G, rows, d) ==
    /\ {g.key : g \in G} = {KeyOf(r, d) : r \in rows}
    /\ \A g \in G : /\ g.measures = SumAdditiveMeasures(Keyed(rows, d, g.key))
                    /\ g.count = Cardinality(Keyed(rows, d, g.key))
    /\ \A g, x \in G : g.key = x.key => g = x

(* list_published_history_groups returns such groups. *)
LEMMA GroupsHoldRows ==
    ASSUME NEW rows, NEW w, NEW f, NEW d
    PROVE  GroupedBy(Groups(rows, w, f, d), In(rows, w, f), d)
<1>1. PICK found, G : found = In(rows, w, f) /\ G = Groups(rows, w, f, d)
  OBVIOUS
<1> DEFINE Of(k) == [key |-> k, measures |-> SumAdditiveMeasures(Keyed(found, d, k)),
                     count |-> Cardinality(Keyed(found, d, k))]
<1>2. G = {Of(k) : k \in {KeyOf(r, d) : r \in found}}
  BY <1>1, Zenon DEF Groups, Totals, Keyed
<1>3. \A k : /\ Of(k).key = k /\ Of(k).measures = SumAdditiveMeasures(Keyed(found, d, k))
             /\ Of(k).count = Cardinality(Keyed(found, d, k))
  OBVIOUS
<1> HIDE DEF Of
<1>4. \A g \in G : \E k \in {KeyOf(r, d) : r \in found} : g = Of(k)
  BY <1>2
<1>5. {g.key : g \in G} = {KeyOf(r, d) : r \in found}
  <2>1. \A k \in {KeyOf(r, d) : r \in found} : Of(k) \in G
    BY <1>2
  <2>2. \A g \in G : g.key \in {KeyOf(r, d) : r \in found}
    BY <1>3, <1>4
  <2>3. {g.key : g \in G} \subseteq {KeyOf(r, d) : r \in found}
    BY <2>2, Zenon
  <2>4. \A k \in {KeyOf(r, d) : r \in found} : k \in {g.key : g \in G}
    BY <1>3, <2>1
  <2> QED
    BY <2>3, <2>4, Zenon
<1>6. \A g \in G : /\ g.measures = SumAdditiveMeasures(Keyed(found, d, g.key))
                   /\ g.count = Cardinality(Keyed(found, d, g.key))
  BY <1>3, <1>4
<1>7. \A g, x \in G : g.key = x.key => g = x
  BY <1>3, <1>4
<1> QED
  BY <1>1, <1>5, <1>6, <1>7 DEF GroupedBy

(* No rows have no groups. *)
LEMMA NoGroups == \A d : GroupedBy({}, {}, d)
BY DEF GroupedBy

(* A row has a group, and a group has rows. *)
LEMMA EachRowHasAGroup ==
    ASSUME NEW G, NEW rows, NEW d, GroupedBy(G, rows, d)
    PROVE  /\ \A r \in rows : \E g \in G : g.key = KeyOf(r, d)
           /\ \A g \in G : \E r \in rows : KeyOf(r, d) = g.key
           /\ IsFiniteSet(rows) => IsFiniteSet(G)
<1>1. \A r \in rows : \E g \in G : g.key = KeyOf(r, d)
  <2> SUFFICES ASSUME NEW r \in rows PROVE \E g \in G : g.key = KeyOf(r, d)
    OBVIOUS
  <2>1. KeyOf(r, d) \in {g.key : g \in G}
    BY DEF GroupedBy
  <2> QED
    BY <2>1
<1>2. \A g \in G : \E r \in rows : KeyOf(r, d) = g.key
  <2> SUFFICES ASSUME NEW g \in G PROVE \E r \in rows : KeyOf(r, d) = g.key
    OBVIOUS
  <2>1. g.key \in {KeyOf(r, d) : r \in rows}
    BY DEF GroupedBy
  <2> QED
    BY <2>1
<1>3. ASSUME IsFiniteSet(rows) PROVE IsFiniteSet(G)
  <2>1. PICK f : f = [r \in rows |-> CHOOSE g \in G : g.key = KeyOf(r, d)]
    OBVIOUS
  <2>2. \A g \in G : \E r \in rows : g = f[r]
    <3> SUFFICES ASSUME NEW g \in G PROVE \E r \in rows : g = f[r]
      OBVIOUS
    <3>1. PICK r \in rows : KeyOf(r, d) = g.key
      BY <1>2
    <3>2. f[r] \in G /\ f[r].key = KeyOf(r, d)
      BY <2>1, <3>1
    <3> QED
      BY <3>1, <3>2 DEF GroupedBy
  <2> QED
    BY <1>3, <2>2, FiniteImage
<1> QED
  BY <1>1, <1>2, <1>3

(* Groups together are worth what the rows they stand for are. *)
Combines(L, rows) ==
    /\ \A m \in AdditiveMeasures : CombineMeasures(L)[m] = Zero(SumMeasure(rows, m))
    /\ SumOf([g \in L |-> g.count]) = Cardinality(rows)

(* _combine_measures: some groups together are worth what their rows are. *)
LEMMA CombinedAre ==
    ASSUME NEW h \in Slices, NEW found, found \subseteq RowsOf(h), NEW d, NEW G, GroupedBy(G, found, d),
           NEW L, L \subseteq G, NEW rows, rows = {r \in found : \E g \in L : g.key = KeyOf(r, d)}
    PROVE  Combines(L, rows)
<1>1. PICK part : part = [g \in L |-> Keyed(found, d, g.key)]
  OBVIOUS
<1>2. ArePartsOf(part, L, rows)
  <2>1. IsFiniteSet(L)
    <3>1. IsFiniteSet(found)
      BY RowsAreNumbers, FS_Subset
    <3> QED
      BY <3>1, EachRowHasAGroup, FS_Subset
  <2>2. \A g \in L : part[g] \subseteq rows
    BY <1>1 DEF Keyed
  <2>3. \A r \in rows : \E g \in L : r \in part[g]
    BY <1>1 DEF Keyed
  <2>4. \A g, x \in L : part[g] \cap part[x] # {} => g = x
    BY <1>1 DEF Keyed, GroupedBy
  <2> QED
    BY <2>1, <2>2, <2>3, <2>4 DEF ArePartsOf
<1>3. \A g \in L : /\ g.measures = SumAdditiveMeasures(part[g]) /\ g.count = Cardinality(part[g])
  BY <1>1 DEF GroupedBy
<1>4. rows \subseteq RowsOf(h)
  OBVIOUS
<1>5. /\ \A c : (\A j \in L : c[j] = Cardinality(part[j])) => SumIn(c, L) = Cardinality(rows)
      /\ \A m \in AdditiveMeasures : \A v :
           (\A j \in L : v[j] = Zero(SumMeasure(part[j], m))) => SumIn(v, L) = Zero(SumMeasure(rows, m))
  <2>1. MakeUp(part, L, rows)
    BY <1>2, <1>4, RowsAddUp
  <2> QED
    BY <2>1 DEF MakeUp
<1>6. SumOf([g \in L |-> g.count]) = Cardinality(rows)
  <2>1. PICK c : c = [g \in L |-> g.count]
    OBVIOUS
  <2>2. DOMAIN c = L /\ \A g \in L : c[g] = Cardinality(part[g])
    BY <1>3, <2>1
  <2> QED
    BY <1>5, <2>1, <2>2, SumIs
<1>7. ASSUME NEW m \in AdditiveMeasures PROVE CombineMeasures(L)[m] = Zero(SumMeasure(rows, m))
  <2>1. PICK v : v = [g \in L |-> Zero(g.measures[m])]
    OBVIOUS
  <2>2. DOMAIN v = L /\ \A g \in L : v[g] = Zero(SumMeasure(part[g], m))
    BY <1>3, <2>1 DEF SumAdditiveMeasures
  <2>3. CombineMeasures(L)[m] = SumOf(v)
    BY <2>1 DEF CombineMeasures
  <2> QED
    BY <1>5, <2>2, <2>3, SumIs
<1> QED
  BY <1>6, <1>7 DEF Combines

(* The measures of a key among the groups of some rows. *)
LEMMA MeasuresAre ==
    ASSUME NEW G, NEW rows, NEW d, GroupedBy(G, rows, d), NEW k
    PROVE  MeasuresOf(G, k) = SumAdditiveMeasures(Keyed(rows, d, k))
<1>1. CASE \E g \in G : g.key = k
  <2>1. PICK g : g = CHOOSE y \in {x \in G : x.key = k} : TRUE
    OBVIOUS
  <2>2. g \in G /\ g.key = k
    BY <1>1, <2>1
  <2>3. MeasuresOf(G, k) = g.measures
    BY <1>1, <2>1 DEF MeasuresOf
  <2> QED
    BY <2>2, <2>3 DEF GroupedBy
<1>2. CASE ~\E g \in G : g.key = k
  <2>1. Keyed(rows, d, k) = {}
    BY <1>2, EachRowHasAGroup DEF Keyed
  <2>2. MeasuresOf(G, k) = NoMeasures
    BY <1>2 DEF MeasuresOf
  <2>3. SumAdditiveMeasures({}) = NoMeasures
    BY DEF SumAdditiveMeasures, SumMeasure, NoMeasures
  <2> QED
    BY <2>1, <2>2, <2>3
<1> QED
  BY <1>1, <1>2

(* No fact carries the key that stands for the rest of a ranking.  *)
OtherIsReserved ==
    /\ \A g \in Grains : g.day # OtherKey /\ g.campaign_id # OtherKey
    /\ \A f \in Facts : f.channel # OtherKey /\ f.filter_logic_1 # OtherKey

(* The keys of rows are numbers. *)
LEMMA KeysAreNumbers ==
    ASSUME NEW h \in Slices, NEW r \in RowsOf(h), NEW d \in DrillDimensions
    PROVE  KeyOf(r, d) \in Int /\ (OtherIsReserved => KeyOf(r, d) # OtherKey)
<1>1. PICK g \in Grains : /\ h[g] # NoFact
        /\ r = [grain |-> g, day |-> g.day, campaign_id |-> g.campaign_id, channel |-> h[g].channel,
                filter_logic_1 |-> h[g].filter_logic_1, sent |-> h[g].sent, failed |-> h[g].failed,
                delivered |-> h[g].delivered, revenue_inr |-> h[g].revenue_inr,
                total_cost |-> h[g].total_cost]
  BY DEF RowsOf
<1>2. h[g] \in Facts
  BY <1>1 DEF Slices
<1>3. PICK f : f = h[g]
  OBVIOUS
<1>4. /\ f \in Facts /\ r.day = g.day /\ r.campaign_id = g.campaign_id /\ r.channel = f.channel
      /\ r.filter_logic_1 = f.filter_logic_1
  BY <1>1, <1>2, <1>3
<1>5. /\ r.day \in Int /\ r.campaign_id \in Int \cup {NULL} /\ r.channel \in Int \cup {NULL}
      /\ r.filter_logic_1 \in Int \cup {NULL}
  BY <1>4, DaysHaveMonths, FactsAreNumbers
<1>6. OtherIsReserved => /\ r.day # OtherKey /\ r.campaign_id # OtherKey /\ r.channel # OtherKey
                         /\ r.filter_logic_1 # OtherKey
  BY <1>4 DEF OtherIsReserved
<1>7. \A v \in Int \cup {NULL} : Coalesce(v) \in Int /\ (v # OtherKey => Coalesce(v) # OtherKey)
  BY HistoryReadsAssumption DEF Coalesce
<1>8. KeyOf(r, "day") = r.day /\ \A x : x # "day" => KeyOf(r, x) = Coalesce(r[x])
  BY DEF KeyOf
<1>9. d \in {"day", "campaign_id", "channel", "filter_logic_1"}
  BY DEF DrillDimensions, Dimensions
<1> QED
  BY <1>5, <1>6, <1>7, <1>8, <1>9

(* The volume that orders the groups is a sum of a measure. *)
LEMMA RanksAreMeasures ==
    ASSUME NEW m \in DOMAIN Metrics
    PROVE  RankMeasure(m) \in AdditiveMeasures
<1>1. m \in {"total_cost", "delivered", "revenue_inr", "delivery_rate", "overall_roas"}
  BY DEF Metrics
<1> QED
  BY <1>1 DEF RankMeasure, RankMeasureOf, Metrics, AdditiveMeasures

(* The largest groups of a ranking are as many as it shows, or fewer. *)
LEMMA FewAreKept ==
    ASSUME NEW h \in Slices, NEW rows, rows \subseteq RowsOf(h), NEW d \in DrillDimensions,
           NEW G, GroupedBy(G, rows, d), NEW m \in DOMAIN Metrics
    PROVE  IsFiniteSet(G) /\ Cardinality(LargestGroups(m, G)) <= MaxDrillRows
<1>1. IsFiniteSet(G)
  BY EachRowHasAGroup, RowsAreNumbers, FS_Subset
<1>2. \A g \in G : Volume(m, g.measures) \in Int /\ g.key \in Int
  <2> SUFFICES ASSUME NEW g \in G PROVE Volume(m, g.measures) \in Int /\ g.key \in Int
    OBVIOUS
  <2>1. PICK own : own = Keyed(rows, d, g.key)
    OBVIOUS
  <2>2. own \subseteq RowsOf(h) /\ g.measures = SumAdditiveMeasures(own)
    BY <2>1 DEF Keyed, GroupedBy
  <2>3. SumMeasure(own, RankMeasure(m)) \in Int \cup {NULL}
    BY <2>2, RanksAreMeasures, SumsAreNumbers
  <2>4. Volume(m, g.measures) = Zero(SumMeasure(own, RankMeasure(m)))
    BY <2>2, RanksAreMeasures DEF Volume, SumAdditiveMeasures
  <2>5. PICK r \in rows : KeyOf(r, d) = g.key
    BY EachRowHasAGroup
  <2>6. g.key \in Int
    BY <2>5, KeysAreNumbers
  <2> QED
    BY <2>3, <2>4, <2>6 DEF Zero
<1>3. PICK R : R = {p \in G \X G : VolumeBefore(m, p[1], p[2])}
  OBVIOUS
<1>4. \A a, b \in G : <<a, b>> \in R <=> VolumeBefore(m, a, b)
  BY <1>3
<1>5. Orders(R, G)
  <2>1. \A a \in G : ~VolumeBefore(m, a, a)
    BY <1>2 DEF VolumeBefore
  <2>2. \A a, b, c \in G : VolumeBefore(m, a, b) /\ VolumeBefore(m, b, c) => VolumeBefore(m, a, c)
    <3> SUFFICES ASSUME NEW a \in G, NEW b \in G, NEW c \in G, VolumeBefore(m, a, b), VolumeBefore(m, b, c)
                 PROVE  VolumeBefore(m, a, c)
      OBVIOUS
    <3>1. PICK x, y, z : x = Volume(m, a.measures) /\ y = Volume(m, b.measures) /\ z = Volume(m, c.measures)
      OBVIOUS
    <3>2. /\ x \in Int /\ y \in Int /\ z \in Int /\ a.key \in Int /\ b.key \in Int /\ c.key \in Int
          /\ x > y \/ (x = y /\ a.key < b.key)
          /\ y > z \/ (y = z /\ b.key < c.key)
      BY <1>2, <3>1 DEF VolumeBefore
    <3>3. x > z \/ (x = z /\ a.key < c.key)
      BY <3>2
    <3> QED
      BY <3>1, <3>3 DEF VolumeBefore
  <2>3. \A a, b \in G : a # b => VolumeBefore(m, a, b) \/ VolumeBefore(m, b, a)
    <3> SUFFICES ASSUME NEW a \in G, NEW b \in G, a # b PROVE VolumeBefore(m, a, b) \/ VolumeBefore(m, b, a)
      OBVIOUS
    <3>1. a.key # b.key
      BY DEF GroupedBy
    <3> QED
      BY <1>2, <3>1 DEF VolumeBefore
  <2> QED
    BY <1>4, <2>1, <2>2, <2>3 DEF Orders
<1>6. PICK T : T = LargestGroups(m, G)
  OBVIOUS
<1>7. T \subseteq G
  BY <1>6 DEF LargestGroups
<1>8. \A t \in T : Cardinality({s \in G : <<s, t>> \in R}) < MaxDrillRows
  <2> SUFFICES ASSUME NEW t \in T PROVE Cardinality({s \in G : <<s, t>> \in R}) < MaxDrillRows
    OBVIOUS
  <2>1. {s \in G : <<s, t>> \in R} = {x \in G : VolumeBefore(m, x, t)}
    BY <1>4, <1>7
  <2> QED
    BY <1>6, <2>1 DEF LargestGroups
<1> QED
  BY <1>1, <1>5, <1>6, <1>7, <1>8, ViewsAssumption, FirstAreFew

(* What the rows of a drilldown account for: the facts of a row, those of the *)
(* comparison, and their sums.                                                *)
FactsOf(facts, d, shown, k) ==
    {r \in facts : IF k = OtherKey THEN KeyOf(r, d) \notin shown ELSE KeyOf(r, d) = k}
PastOf(past, facts, d, shown, k) ==
    {r \in past : /\ IF k = OtherKey THEN KeyOf(r, d) \notin shown ELSE KeyOf(r, d) = k
                  /\ \E f \in facts : KeyOf(f, d) = KeyOf(r, d)}
SumsFor(rows, k) ==
    IF k = OtherKey /\ rows # {} THEN [m \in AdditiveMeasures |-> Zero(SumMeasure(rows, m))]
    ELSE SumAdditiveMeasures(rows)

(* A drilldown reconciles: its rows are worth their facts, then and before,   *)
(* and together they are all the facts (DrillReconciles).                     *)
RowsAreOf(A, facts, past, d, m, shown) ==
    \A row \in A :
        /\ row.count = Cardinality(FactsOf(facts, d, shown, row.key))
        /\ row.value = Pick(m, SumsFor(FactsOf(facts, d, shown, row.key), row.key))
        /\ row.prior = Pick(m, SumsFor(PastOf(past, facts, d, shown, row.key), row.key))
Reconciled(A, facts, past, d, m, shown) ==
    /\ RowsAreOf(A, facts, past, d, m, shown)
    /\ SumOf([row \in A |-> row.count]) = Cardinality(facts)
    /\ Cardinality(shown \ {OtherKey}) <= MaxDrillRows
    /\ Volume(m, SumAdditiveMeasures(facts)) > 0 =>
        Abs(SumOf([row \in A |-> row.share]) - RateScale) <= Cardinality(A)

(* The keys of rows or groups; those of the rows of the groups kept and of the *)
(* rest.                                                                      *)
KeysOf(S) == {x.key : x \in S}
ShownKeys(kept, left) == KeysOf(kept) \cup IF left = {} THEN {} ELSE {OtherKey}

(* A drilldown's rows: one for each group kept, and "Other" for the rest. *)
RankedOf(A, kept, left, P, m, total) ==
    /\ \A row \in A :
        \/ \E g \in kept : \E deep :
             row = DrillRow(m, g.key, g.measures, MeasuresOf(P, g.key), g.count, total, deep)
        \/ left # {} /\ row = OtherRow(m, left, {p \in P : \E g \in left : g.key = p.key}, total)
    /\ \A g \in kept : \E row \in A : row.key = g.key
    /\ left # {} => \E row \in A : row.key = OtherKey
    /\ \A x, y \in A : x.key = y.key => x = y

(* A ranking of groups none of which has the key of the rest.                 *)
IsRanking(A, G, kept, left, P, m, total, shown) ==
    /\ \A g \in G : g.key # OtherKey
    /\ kept \subseteq G /\ left = G \ kept
    /\ RankedOf(A, kept, left, P, m, total)
    /\ shown = KeysOf(A) /\ shown = ShownKeys(kept, left)

(* _ranked_rows gives them, when no group has the key of "Other". *)
LEMMA RankedRowsAre ==
    ASSUME NEW G, NEW d, NEW facts, GroupedBy(G, facts, d), NEW P, NEW m, NEW deeper,
           \A g \in G : g.key # OtherKey,
           NEW kept, kept = LargestGroups(m, G), NEW left, left = G \ kept,
           NEW total, total = SumOf([g \in G |-> Volume(m, g.measures)]),
           NEW A, A = RankedRows(m, G, P, deeper)
    PROVE  IsRanking(A, G, kept, left, P, m, total, KeysOf(A))
<1> DEFINE RowFor(g) == DrillRow(m, g.key, g.measures, MeasuresOf(P, g.key), g.count, total,
                                 deeper /\ g.key # OtherKey)
           rest == OtherRow(m, left, {p \in P : \E g \in left : g.key = p.key}, total)
<1>1. A = {RowFor(g) : g \in kept} \cup IF left = {} THEN {} ELSE {rest}
  BY Zenon DEF RankedRows, RankedWith, KeptRows, OtherRows
<1>2. \A g : RowFor(g).key = g.key
  BY DEF DrillRow
<1>3. rest.key = OtherKey
  BY DEF OtherRow, DrillRow
<1>4. \A row \in A : (\E g \in kept : row = RowFor(g)) \/ (left # {} /\ row = rest)
  <2> HIDE DEF RowFor, rest
  <2> QED
    BY <1>1
<1>5. \A g \in kept : RowFor(g) \in A
  <2> HIDE DEF RowFor, rest
  <2> QED
    BY <1>1
<1>6. left # {} => rest \in A
  <2> HIDE DEF RowFor, rest
  <2> QED
    BY <1>1
<1>7. kept \subseteq G
  BY DEF LargestGroups
<1>8. ASSUME NEW row \in A
      PROVE  \/ \E g \in kept : \E deep :
                  row = DrillRow(m, g.key, g.measures, MeasuresOf(P, g.key), g.count, total, deep)
             \/ left # {} /\ row = rest
  <2>1. CASE \E g \in kept : row = RowFor(g)
    <3>1. PICK g \in kept : row = RowFor(g)
      BY <2>1
    <3>2. PICK deep : deep = (deeper /\ g.key # OtherKey)
      OBVIOUS
    <3>3. row = DrillRow(m, g.key, g.measures, MeasuresOf(P, g.key), g.count, total, deep)
      BY <3>1, <3>2
    <3> QED
      BY <3>3, Zenon
  <2> HIDE DEF RowFor, rest
  <2> QED
    BY <1>4, <2>1
<1> HIDE DEF RowFor
<1>9. \A g \in kept : \E row \in A : row.key = g.key
  BY <1>2, <1>5
<1>10. left # {} => \E row \in A : row.key = OtherKey
  BY <1>3, <1>6
<1>11. \A x, y \in A : x.key = y.key => x = y
  <2> SUFFICES ASSUME NEW x \in A, NEW y \in A, x.key = y.key PROVE x = y
    OBVIOUS
  <2> HIDE DEF rest
  <2>1. CASE x = rest \/ y = rest
    BY <1>2, <1>3, <1>4, <1>7, <2>1
  <2>2. CASE x # rest /\ y # rest
    <3>1. PICK g \in kept, k \in kept : x = RowFor(g) /\ y = RowFor(k)
      BY <1>4, <2>2
    <3>2. g = k
      BY <1>2, <1>7, <3>1 DEF GroupedBy
    <3> QED
      BY <3>1, <3>2
  <2> QED
    BY <2>1, <2>2
<1>12. RankedOf(A, kept, left, P, m, total)
  BY <1>8, <1>9, <1>10, <1>11 DEF RankedOf
<1>13. {row.key : row \in A} = {g.key : g \in kept} \cup IF left = {} THEN {} ELSE {OtherKey}
  <2> HIDE DEF rest
  <2>1. \A row \in A : row.key \in {g.key : g \in kept} \cup IF left = {} THEN {} ELSE {OtherKey}
    BY <1>2, <1>3, <1>4
  <2>2. \A k \in {g.key : g \in kept} \cup IF left = {} THEN {} ELSE {OtherKey} : \E row \in A : row.key = k
    BY <1>9, <1>10
  <2>3. {row.key : row \in A} \subseteq {g.key : g \in kept} \cup IF left = {} THEN {} ELSE {OtherKey}
    BY <2>1, Zenon
  <2>4. \A k \in {g.key : g \in kept} \cup IF left = {} THEN {} ELSE {OtherKey} : k \in {row.key : row \in A}
    BY <2>2
  <2> QED
    BY <2>3, <2>4, Zenon
<1> QED
  BY <1>7, <1>12, <1>13 DEF IsRanking, KeysOf, ShownKeys

(* A row's share of the total volume. *)
SharesAre(A, facts, d, shown, m, total) ==
    \A row \in A :
        row.share = SafeDivide(Zero(SumMeasure(FactsOf(facts, d, shown, row.key), RankMeasure(m))), total)

(* Each row is the metric of its own facts. *)
LEMMA RowsAreTheirs ==
    ASSUME NEW h \in Slices, NEW facts, facts \subseteq RowsOf(h),
           NEW e \in Slices, NEW past, past \subseteq RowsOf(e), NEW d,
           NEW G, GroupedBy(G, facts, d), NEW P, GroupedBy(P, past, d), NEW m \in DOMAIN Metrics,
           NEW kept, NEW left, NEW total, NEW A, NEW shown, IsRanking(A, G, kept, left, P, m, total, shown)
    PROVE  RowsAreOf(A, facts, past, d, m, shown) /\ SharesAre(A, facts, d, shown, m, total)
<1> USE DEF KeysOf, ShownKeys
<1> SUFFICES ASSUME \A g \in G : g.key # OtherKey, kept \subseteq G, left = G \ kept,
                    shown = ShownKeys(kept, left), RankedOf(A, kept, left, P, m, total)
             PROVE  RowsAreOf(A, facts, past, d, m, shown) /\ SharesAre(A, facts, d, shown, m, total)
  BY DEF IsRanking
<1>1. ASSUME NEW row \in A, NEW g \in kept, NEW deep,
             row = DrillRow(m, g.key, g.measures, MeasuresOf(P, g.key), g.count, total, deep)
      PROVE  /\ row.count = Cardinality(FactsOf(facts, d, shown, row.key))
             /\ row.value = Pick(m, SumsFor(FactsOf(facts, d, shown, row.key), row.key))
             /\ row.prior = Pick(m, SumsFor(PastOf(past, facts, d, shown, row.key), row.key))
             /\ row.share = SafeDivide(Zero(SumMeasure(FactsOf(facts, d, shown, row.key), RankMeasure(m))), total)
  <2>1. PICK k : k = g.key
    OBVIOUS
  <2>2. k # OtherKey /\ g \in G
    BY <2>1
  <2>3. FactsOf(facts, d, shown, k) = Keyed(facts, d, k)
    BY <2>2 DEF FactsOf, Keyed
  <2>4. PastOf(past, facts, d, shown, k) = Keyed(past, d, k)
    <3>1. \E f \in facts : KeyOf(f, d) = k
      BY <2>1, <2>2, EachRowHasAGroup
    <3> QED
      BY <2>2, <3>1 DEF PastOf, Keyed
  <2>5. /\ row.key = k /\ row.count = g.count /\ row.value = Pick(m, g.measures)
        /\ row.prior = Pick(m, MeasuresOf(P, k)) /\ row.share = SafeDivide(Volume(m, g.measures), total)
    BY <1>1, <2>1 DEF DrillRow
  <2>6. g.measures = SumAdditiveMeasures(Keyed(facts, d, k)) /\ g.count = Cardinality(Keyed(facts, d, k))
    BY <2>1, <2>2 DEF GroupedBy
  <2>7. MeasuresOf(P, k) = SumAdditiveMeasures(Keyed(past, d, k))
    BY MeasuresAre
  <2>8. \A rows : SumsFor(rows, k) = SumAdditiveMeasures(rows)
    BY <2>2 DEF SumsFor
  <2>9. Volume(m, g.measures) = Zero(SumMeasure(Keyed(facts, d, k), RankMeasure(m)))
    BY <2>6, RanksAreMeasures DEF Volume, SumAdditiveMeasures
  <2> QED
    BY <2>3, <2>4, <2>5, <2>6, <2>7, <2>8, <2>9
<1>2. ASSUME NEW row \in A, left # {}, NEW before, before = {p \in P : \E g \in left : g.key = p.key},
             row = OtherRow(m, left, before, total)
      PROVE  /\ row.count = Cardinality(FactsOf(facts, d, shown, row.key))
             /\ row.value = Pick(m, SumsFor(FactsOf(facts, d, shown, row.key), row.key))
             /\ row.prior = Pick(m, SumsFor(PastOf(past, facts, d, shown, row.key), row.key))
             /\ row.share = SafeDivide(Zero(SumMeasure(FactsOf(facts, d, shown, row.key), RankMeasure(m))), total)
  <2>1. PICK own, own0 : /\ own = FactsOf(facts, d, shown, OtherKey)
                         /\ own0 = PastOf(past, facts, d, shown, OtherKey)
    OBVIOUS
  <2>2. \A r \in facts : KeyOf(r, d) \notin shown <=> \E g \in left : g.key = KeyOf(r, d)
    <3> SUFFICES ASSUME NEW r \in facts
                 PROVE  KeyOf(r, d) \notin shown <=> \E g \in left : g.key = KeyOf(r, d)
      OBVIOUS
    <3>1. PICK g \in G : g.key = KeyOf(r, d)
      BY EachRowHasAGroup
    <3>2. \A x \in G : x.key = KeyOf(r, d) => x = g
      BY <3>1 DEF GroupedBy
    <3>3. KeyOf(r, d) \in shown <=> g \in kept
      BY <3>1, <3>2
    <3> QED
      BY <3>1, <3>2, <3>3
  <2>3. own = {r \in facts : \E g \in left : g.key = KeyOf(r, d)}
    BY <2>1, <2>2 DEF FactsOf
  <2>4. own0 = {r \in past : \E p \in before : p.key = KeyOf(r, d)}
    <3>1. ASSUME NEW r \in own0 PROVE \E p \in before : p.key = KeyOf(r, d)
      <4>1. r \in past /\ KeyOf(r, d) \notin shown /\ \E f \in facts : KeyOf(f, d) = KeyOf(r, d)
        BY <2>1, <3>1 DEF PastOf
      <4>2. PICK g \in left : g.key = KeyOf(r, d)
        BY <2>2, <4>1
      <4>3. PICK p \in P : p.key = KeyOf(r, d)
        BY <4>1, EachRowHasAGroup
      <4> QED
        BY <1>2, <4>2, <4>3
    <3>2. ASSUME NEW r \in past, NEW p \in before, p.key = KeyOf(r, d) PROVE r \in own0
      <4>1. PICK g \in left : g.key = p.key
        BY <1>2
      <4>2. PICK f \in facts : KeyOf(f, d) = g.key
        BY <4>1, EachRowHasAGroup
      <4>3. KeyOf(f, d) \notin shown
        BY <2>2, <4>1, <4>2
      <4> QED
        BY <2>1, <3>2, <4>1, <4>2, <4>3 DEF PastOf
    <3>3. own0 \subseteq past
      BY <2>1 DEF PastOf
    <3> QED
      BY <3>1, <3>2, <3>3
  <2>5. own # {}
    BY <1>2, <2>3, EachRowHasAGroup
  <2>6. before = {} <=> own0 = {}
    BY <1>2, <2>4, EachRowHasAGroup
  <2>7. /\ row.key = OtherKey /\ row.count = SumOf([g \in left |-> g.count])
        /\ row.value = Pick(m, CombineMeasures(left))
        /\ row.prior = Pick(m, IF before = {} THEN NoMeasures ELSE CombineMeasures(before))
        /\ row.share = SafeDivide(Volume(m, CombineMeasures(left)), total)
    BY <1>2 DEF OtherRow, DrillRow
  <2>8. /\ \A x \in AdditiveMeasures : CombineMeasures(left)[x] = Zero(SumMeasure(own, x))
        /\ SumOf([g \in left |-> g.count]) = Cardinality(own)
    <3>1. left \subseteq G
      OBVIOUS
    <3>2. Combines(left, own)
      BY <2>3, <3>1, CombinedAre
    <3> QED
      BY <3>2 DEF Combines
  <2>9. \A x \in AdditiveMeasures : CombineMeasures(before)[x] = Zero(SumMeasure(own0, x))
    <3>1. before \subseteq P
      BY <1>2
    <3>2. Combines(before, own0)
      BY <2>4, <3>1, CombinedAre
    <3> QED
      BY <3>2 DEF Combines
  <2>10. CombineMeasures(left) = SumsFor(own, OtherKey)
    BY <2>5, <2>8 DEF SumsFor, CombineMeasures
  <2>11. (IF before = {} THEN NoMeasures ELSE CombineMeasures(before)) = SumsFor(own0, OtherKey)
    <3>1. CASE before = {}
      <4>1. SumAdditiveMeasures({}) = NoMeasures
        BY DEF SumAdditiveMeasures, SumMeasure, NoMeasures
      <4> QED
        BY <2>6, <3>1, <4>1 DEF SumsFor
    <3>2. CASE before # {}
      BY <2>6, <2>9, <3>2 DEF SumsFor, CombineMeasures
    <3> QED
      BY <3>1, <3>2
  <2>12. Volume(m, CombineMeasures(left)) = Zero(SumMeasure(own, RankMeasure(m)))
    <3>1. SumMeasure(own, RankMeasure(m)) \in Int \cup {NULL}
      <4>1. own \subseteq RowsOf(h)
        BY <2>3
      <4> QED
        BY <4>1, RanksAreMeasures, SumsAreNumbers
    <3>2. Volume(m, CombineMeasures(left)) = Zero(Zero(SumMeasure(own, RankMeasure(m))))
      BY <2>8, RanksAreMeasures DEF Volume
    <3> QED
      BY <3>1, <3>2, MeasuresAssumption DEF Zero
  <2> QED
    BY <2>1, <2>7, <2>8, <2>10, <2>11, <2>12
<1>3. PICK before : before = {p \in P : \E g \in left : g.key = p.key}
  OBVIOUS
<1>4. \A row \in A :
        \/ \E g \in kept : \E deep :
             row = DrillRow(m, g.key, g.measures, MeasuresOf(P, g.key), g.count, total, deep)
        \/ left # {} /\ row = OtherRow(m, left, before, total)
  BY <1>3 DEF RankedOf
<1> QED
  BY <1>1, <1>2, <1>3, <1>4 DEF RowsAreOf, SharesAre

(* The rows of a ranking are finitely many. *)
LEMMA RankedAreFinite ==
    ASSUME NEW G, IsFiniteSet(G), NEW kept, NEW left, NEW P, NEW m, NEW total, NEW A, NEW shown,
           IsRanking(A, G, kept, left, P, m, total, shown)
    PROVE  /\ IsFiniteSet(A) /\ IsFiniteSet(kept)
           /\ Cardinality(shown \ {OtherKey}) <= Cardinality(kept)
<1> USE DEF KeysOf, ShownKeys
<1> SUFFICES ASSUME kept \subseteq G, RankedOf(A, kept, left, P, m, total),
                    shown = KeysOf(A), shown = ShownKeys(kept, left)
             PROVE  /\ IsFiniteSet(A) /\ IsFiniteSet(kept)
                    /\ Cardinality(shown \ {OtherKey}) <= Cardinality(kept)
  BY DEF IsRanking
<1>1. IsFiniteSet(kept)
  BY FS_Subset
<1>2. PICK keys : keys = {g.key : g \in kept}
  OBVIOUS
<1>3. PICK f : f = [g \in kept |-> g.key]
  OBVIOUS
<1>4. f \in Surjection(kept, keys)
  BY <1>2, <1>3, Zenon DEF Surjection
<1>5. IsFiniteSet(keys) /\ Cardinality(keys) <= Cardinality(kept)
  BY <1>1, <1>4, FS_Surjection
<1>6. shown \ {OtherKey} \subseteq keys
  BY <1>2
<1>7. IsFiniteSet(shown \ {OtherKey}) /\ Cardinality(shown \ {OtherKey}) <= Cardinality(keys)
  BY <1>5, <1>6, FS_Subset
<1>8. /\ Cardinality(shown \ {OtherKey}) \in Nat /\ Cardinality(keys) \in Nat /\ Cardinality(kept) \in Nat
  BY <1>1, <1>5, <1>7, FS_CardinalityType
<1>9. IsFiniteSet(shown)
  <2>1. IsFiniteSet((shown \ {OtherKey}) \cup {OtherKey})
    BY <1>7, FS_AddElement
  <2> QED
    BY <2>1, FS_Subset
<1>10. IsFiniteSet(A)
  <2>1. PICK row : row = [k \in shown |-> CHOOSE x \in A : x.key = k]
    OBVIOUS
  <2>2. ASSUME NEW y \in A PROVE \E k \in shown : y = row[k]
    <3>1. y.key \in shown
      OBVIOUS
    <3>2. row[y.key] \in A /\ row[y.key].key = y.key
      BY <2>1, <3>1
    <3> QED
      BY <3>1, <3>2 DEF RankedOf
  <2> QED
    BY <1>9, <2>2, FiniteImage
<1> QED
  BY <1>1, <1>5, <1>7, <1>8, <1>10

(* The facts of each row. *)
PartsOf(A, facts, d, shown) == [row \in A |-> FactsOf(facts, d, shown, row.key)]

(* Every fact belongs to one row of a ranking. *)
LEMMA FactsArePartsOf ==
    ASSUME NEW facts, NEW d, NEW G, GroupedBy(G, facts, d), NEW kept, NEW left, NEW P, NEW m, NEW total,
           NEW A, IsFiniteSet(A), NEW shown, IsRanking(A, G, kept, left, P, m, total, shown)
    PROVE  ArePartsOf(PartsOf(A, facts, d, shown), A, facts)
<1> USE DEF KeysOf, ShownKeys
<1> SUFFICES ASSUME \A g \in G : g.key # OtherKey, kept \subseteq G, left = G \ kept,
                    RankedOf(A, kept, left, P, m, total), shown = KeysOf(A), shown = ShownKeys(kept, left)
             PROVE  ArePartsOf(PartsOf(A, facts, d, shown), A, facts)
  BY DEF IsRanking
<1> SUFFICES ASSUME NEW part, \A row \in A : part[row] = FactsOf(facts, d, shown, row.key)
             PROVE  ArePartsOf(part, A, facts)
  BY DEF PartsOf
<1>1. \A row \in A : part[row] \subseteq facts
  BY DEF FactsOf
<1>2. \A r \in facts : KeyOf(r, d) # OtherKey /\ (KeyOf(r, d) \notin shown => OtherKey \in shown)
  <2> SUFFICES ASSUME NEW r \in facts
               PROVE  KeyOf(r, d) # OtherKey /\ (KeyOf(r, d) \notin shown => OtherKey \in shown)
    OBVIOUS
  <2>1. PICK g \in G : g.key = KeyOf(r, d)
    BY EachRowHasAGroup
  <2>2. g \in kept => KeyOf(r, d) \in shown
    BY <2>1
  <2>3. g \notin kept => left # {}
    BY <2>1
  <2> QED
    BY <2>1, <2>2, <2>3
<1>3. ASSUME NEW r \in facts PROVE \E row \in A : r \in part[row]
  <2>1. PICK k : k = IF KeyOf(r, d) \in shown THEN KeyOf(r, d) ELSE OtherKey
    OBVIOUS
  <2>2. k \in shown
    BY <1>2, <2>1
  <2>3. PICK row \in A : row.key = k
    BY <2>2
  <2>4. r \in FactsOf(facts, d, shown, k)
    BY <1>2, <2>1 DEF FactsOf
  <2> QED
    BY <2>3, <2>4
<1>4. ASSUME NEW x \in A, NEW y \in A, part[x] \cap part[y] # {} PROVE x = y
  <2>1. PICK r : r \in part[x] /\ r \in part[y]
    BY <1>4
  <2>2. x.key \in shown /\ y.key \in shown
    OBVIOUS
  <2>3. /\ IF x.key = OtherKey THEN KeyOf(r, d) \notin shown ELSE KeyOf(r, d) = x.key
        /\ IF y.key = OtherKey THEN KeyOf(r, d) \notin shown ELSE KeyOf(r, d) = y.key
    BY <2>1 DEF FactsOf
  <2>4. x.key = y.key
    BY <2>2, <2>3
  <2> QED
    BY <2>4 DEF RankedOf
<1> QED
  BY <1>1, <1>3, <1>4 DEF ArePartsOf

(* The volume of all groups is that of all rows. *)
LEMMA TotalIsOfAll ==
    ASSUME NEW h \in Slices, NEW facts, facts \subseteq RowsOf(h), NEW d, NEW G, GroupedBy(G, facts, d),
           NEW m \in DOMAIN Metrics
    PROVE  SumOf([g \in G |-> Volume(m, g.measures)]) = Zero(SumMeasure(facts, RankMeasure(m)))
<1>1. facts = {r \in facts : \E g \in G : g.key = KeyOf(r, d)}
  BY EachRowHasAGroup
<1>2. Combines(G, facts)
  BY <1>1, CombinedAre
<1>3. CombineMeasures(G)[RankMeasure(m)] = SumOf([g \in G |-> Zero(g.measures[RankMeasure(m)])])
  BY RanksAreMeasures DEF CombineMeasures
<1>4. [g \in G |-> Zero(g.measures[RankMeasure(m)])] = [g \in G |-> Volume(m, g.measures)]
  BY DEF Volume
<1> QED
  BY <1>2, <1>3, <1>4, RanksAreMeasures DEF Combines

(* _ranked_rows: the rows account for every fact once, the shares make up   *)
(* the whole, and there are no more of them than a drilldown shows.         *)
LEMMA RankedRowsReconcile ==
    ASSUME NEW h \in Slices, NEW facts, facts \subseteq RowsOf(h),
           NEW e \in Slices, NEW past, past \subseteq RowsOf(e), NEW d \in DrillDimensions,
           NEW G, GroupedBy(G, facts, d), NEW P, GroupedBy(P, past, d), NEW m \in DOMAIN Metrics,
           \A g \in G : g.key # OtherKey, NEW deeper,
           NEW A, A = RankedRows(m, G, P, deeper), NEW shown, shown = KeysOf(A)
    PROVE  Reconciled(A, facts, past, d, m, shown)
<1>1. PICK kept, left, total : /\ kept = LargestGroups(m, G) /\ left = G \ kept
                               /\ total = SumOf([g \in G |-> Volume(m, g.measures)])
  OBVIOUS
<1>2. IsRanking(A, G, kept, left, P, m, total, shown)
  BY <1>1, RankedRowsAre
<1>4. IsFiniteSet(G) /\ Cardinality(kept) <= MaxDrillRows
  BY <1>1, FewAreKept
<1>5. IsFiniteSet(A) /\ IsFiniteSet(kept) /\ Cardinality(shown \ {OtherKey}) <= Cardinality(kept)
  BY <1>2, <1>4, RankedAreFinite
<1>6. RowsAreOf(A, facts, past, d, m, shown) /\ SharesAre(A, facts, d, shown, m, total)
  BY <1>2, RowsAreTheirs
<1>7. PICK part : part = PartsOf(A, facts, d, shown)
  OBVIOUS
<1>8. \A row \in A : part[row] = FactsOf(facts, d, shown, row.key)
  BY <1>7 DEF PartsOf
<1>9. ArePartsOf(part, A, facts)
  BY <1>2, <1>5, <1>7, FactsArePartsOf
<1>10. MakeUp(part, A, facts)
  BY <1>9, RowsAddUp
<1>11. SumOf([row \in A |-> row.count]) = Cardinality(facts)
  <2>1. PICK c : c = [row \in A |-> row.count]
    OBVIOUS
  <2>2. DOMAIN c = A /\ \A row \in A : c[row] = Cardinality(part[row])
    BY <1>6, <1>8, <2>1 DEF RowsAreOf
  <2>3. SumIn(c, A) = Cardinality(facts)
    BY <1>10, <2>2 DEF MakeUp
  <2> QED
    BY <2>1, <2>2, <2>3, SumIs
<1>12. Cardinality(shown \ {OtherKey}) <= MaxDrillRows
  <2>1. IsFiniteSet(shown \ {OtherKey})
    <3>1. PICK f, T : f = [row \in A |-> row.key] /\ T = shown \ {OtherKey}
      OBVIOUS
    <3>2. \A k \in T : \E row \in A : k = f[row]
      BY <3>1 DEF KeysOf
    <3> QED
      BY <1>5, <3>1, <3>2, FiniteImage
  <2>2. Cardinality(shown \ {OtherKey}) \in Nat /\ Cardinality(kept) \in Nat
    BY <1>5, <2>1, FS_CardinalityType
  <2> QED
    BY <1>4, <1>5, <2>2, ViewsAssumption
<1>13. total = Zero(SumMeasure(facts, RankMeasure(m))) /\ total \in Int
  <2>1. total = Zero(SumMeasure(facts, RankMeasure(m)))
    BY <1>1, TotalIsOfAll
  <2>2. SumMeasure(facts, RankMeasure(m)) \in Int \cup {NULL}
    BY RanksAreMeasures, SumsAreNumbers
  <2> QED
    BY <2>1, <2>2 DEF Zero
<1>14. Volume(m, SumAdditiveMeasures(facts)) = total
  BY <1>13, RanksAreMeasures DEF Volume, SumAdditiveMeasures
<1>15. ASSUME total > 0 PROVE Abs(SumOf([row \in A |-> row.share]) - RateScale) <= Cardinality(A)
  <2>1. PICK s, v : /\ s = [row \in A |-> row.share]
                    /\ v = [row \in A |-> Zero(SumMeasure(part[row], RankMeasure(m)))]
    OBVIOUS
  <2>2. /\ DOMAIN s = A
        /\ \A row \in A : s[row] = SafeDivide(v[row], total)
        /\ \A row \in A : v[row] = Zero(SumMeasure(part[row], RankMeasure(m)))
    BY <1>6, <1>8, <2>1 DEF SharesAre
  <2>3. SumIn(v, A) = total
    BY <1>10, <1>13, <2>2, RanksAreMeasures DEF MakeUp
  <2>4. \A row \in A : v[row] \in Int
    <3> SUFFICES ASSUME NEW row \in A PROVE v[row] \in Int
      OBVIOUS
    <3>1. part[row] \subseteq RowsOf(h)
      BY <1>9 DEF ArePartsOf
    <3>2. SumMeasure(part[row], RankMeasure(m)) \in Int \cup {NULL}
      BY <3>1, RanksAreMeasures, SumsAreNumbers
    <3> QED
      BY <2>2, <3>2 DEF Zero
  <2>5. total \in Nat \ {0}
    BY <1>13, <1>15
  <2>6. Abs(SumIn(s, A) - RateScale) <= Cardinality(A)
    BY <1>5, <2>2, <2>3, <2>4, <2>5, SharesAddUp
  <2> QED
    BY <2>1, <2>2, <2>6, SumIs
<1> QED
  BY <1>6, <1>11, <1>12, <1>14, <1>15 DEF Reconciled

(* Filters that select no absent value, or the refusal of a parent. *)
NoAbsent(filters) ==
    filters # Refused =>
        /\ \A d \in Dimensions : NULL \notin filters[d]
        /\ filters = [d \in Dimensions |-> filters[d]]

(* The filters under the first n parents. *)
NarrowsTo(narrow, rows, window, filters, parents, n) ==
    narrow = [i \in 0..n |-> IF i = 0 THEN filters
                             ELSE Narrowed(rows, window, narrow[i - 1], parents[i])]

(* There are such filters, for any number of parents. *)
LEMMA NarrowingExists ==
    ASSUME NEW rows, NEW window, NEW filters, NEW parents, NEW n \in Nat
    PROVE  \E narrow : NarrowsTo(narrow, rows, window, filters, parents, n)
<1> DEFINE C == {k \in Nat : ~\E f : NarrowsTo(f, rows, window, filters, parents, k)}
<1> SUFFICES ASSUME C # {} PROVE FALSE
  OBVIOUS
<1>1. PICK k \in C : \A j \in C : k <= j
  BY LeastOfNumbers
<1>2. k \in Nat /\ ~\E f : NarrowsTo(f, rows, window, filters, parents, k)
  OBVIOUS
<1>3. k # 0
  <2>1. PICK f : f = [i \in 0..0 |-> filters]
    OBVIOUS
  <2>2. f = [i \in 0..0 |-> IF i = 0 THEN filters ELSE Narrowed(rows, window, f[i - 1], parents[i])]
    BY <2>1
  <2>3. NarrowsTo(f, rows, window, filters, parents, 0)
    BY <2>2 DEF NarrowsTo
  <2> QED
    BY <1>2, <2>3
<1>4. k - 1 \in Nat /\ k - 1 \notin C
  BY <1>1, <1>2, <1>3
<1>5. PICK f : NarrowsTo(f, rows, window, filters, parents, k - 1)
  BY <1>4
<1> HIDE DEF C
<1>6. PICK g : g = [i \in 0..k |-> IF i = k THEN Narrowed(rows, window, f[k - 1], parents[k]) ELSE f[i]]
  OBVIOUS
<1>7. \A i \in 0..(k - 1) : f[i] = IF i = 0 THEN filters ELSE Narrowed(rows, window, f[i - 1], parents[i])
  BY <1>5 DEF NarrowsTo
<1>8. ASSUME NEW i \in 0..k
      PROVE  g[i] = IF i = 0 THEN filters ELSE Narrowed(rows, window, g[i - 1], parents[i])
  <2>1. CASE i = k
    <3>1. g[k - 1] = f[k - 1]
      BY <1>2, <1>3, <1>6
    <3> QED
      BY <1>2, <1>3, <1>6, <2>1, <3>1
  <2>2. CASE i # k
    <3>1. i \in 0..(k - 1) /\ g[i] = f[i]
      BY <1>2, <1>6, <2>2
    <3>2. i # 0 => g[i - 1] = f[i - 1]
      BY <1>2, <1>6, <2>2
    <3> QED
      BY <1>7, <3>1, <3>2
  <2> QED
    BY <2>1, <2>2
<1>9. g = [i \in 0..k |-> g[i]]
  BY <1>6
<1>10. NarrowsTo(g, rows, window, filters, parents, k)
  BY <1>8, <1>9 DEF NarrowsTo
<1> QED
  BY <1>2, <1>10

(* A parent selects a value that occurs, which is not absent. *)
LEMMA ParentsNarrow ==
    ASSUME NEW rows, NEW window, NEW filters, NoAbsent(filters), NEW parent, parent.dimension \in Dimensions
    PROVE  NoAbsent(Narrowed(rows, window, filters, parent))
<1>1. PICK new : new = Narrowed(rows, window, filters, parent)
  OBVIOUS
<1> SUFFICES ASSUME new # Refused
             PROVE  /\ \A d \in Dimensions : NULL \notin new[d]
                    /\ new = [d \in Dimensions |-> new[d]]
  BY <1>1 DEF NoAbsent
<1>2. /\ filters # Refused
      /\ parent.value \in {g.key : g \in Groups(rows, window, filters, parent.dimension)}
      /\ new = ApplyParent(filters, parent)
  BY <1>1 DEF Narrowed
<1>3. new = [filters EXCEPT ![parent.dimension] = {parent.value}]
  BY <1>2 DEF ApplyParent
<1>4. parent.value # NULL
  <2>1. PICK g \in Groups(rows, window, filters, parent.dimension) : g.key = parent.value
    BY <1>2
  <2>2. PICK r : g.key = KeyOf(r, parent.dimension)
    <3>1. GroupedBy(Groups(rows, window, filters, parent.dimension),
                    In(rows, window, filters), parent.dimension)
      BY GroupsHoldRows
    <3> QED
      BY <2>1, <3>1, EachRowHasAGroup
  <2>3. KeyOf(r, parent.dimension) = Coalesce(r[parent.dimension])
    BY DEF KeyOf, Dimensions
  <2>4. \A v : Coalesce(v) # NULL
    BY HistoryReadsAssumption, MeasuresAssumption DEF Coalesce
  <2> QED
    BY <2>1, <2>2, <2>3, <2>4
<1>5. /\ \A d \in Dimensions : NULL \notin filters[d]
      /\ filters = [d \in Dimensions |-> filters[d]]
  BY <1>2 DEF NoAbsent
<1>6. new = [d \in Dimensions |-> IF d = parent.dimension THEN {parent.value} ELSE filters[d]]
  BY <1>3, <1>5
<1> QED
  BY <1>4, <1>5, <1>6

(* The parents of a drilldown leave filters that select no absent value. *)
LEMMA ParentsLeaveFilters ==
    ASSUME NEW rows, NEW window, NEW filters, NoAbsent(filters),
           NEW parents, IsList(parents), \A i \in DOMAIN parents : parents[i].dimension \in Dimensions
    PROVE  NoAbsent(ValidateParents(rows, window, filters, parents))
<1>1. Len(parents) \in Nat /\ DOMAIN parents = 1..Len(parents)
  BY DEF IsList
<1>2. PICK n : n = Len(parents)
  OBVIOUS
<1>3. PICK f : f = CHOOSE g : NarrowsTo(g, rows, window, filters, parents, n)
  OBVIOUS
<1>4. NarrowsTo(f, rows, window, filters, parents, n)
  BY <1>1, <1>2, <1>3, NarrowingExists
<1>5. ValidateParents(rows, window, filters, parents) = f[n]
  BY <1>2, <1>3 DEF ValidateParents, NarrowsTo
<1>6. \A i \in 0..n : f[i] = IF i = 0 THEN filters ELSE Narrowed(rows, window, f[i - 1], parents[i])
  BY <1>4 DEF NarrowsTo
<1>7. \A i \in 0..n : NoAbsent(f[i])
  <2> DEFINE C == {k \in 0..n : ~NoAbsent(f[k])}
  <2> SUFFICES ASSUME C # {} PROVE FALSE
    OBVIOUS
  <2>1. PICK k \in C : \A j \in C : k <= j
    <3>1. C \subseteq Nat
      BY <1>1, <1>2
    <3> HIDE DEF C
    <3> QED
      BY <3>1, LeastOfNumbers
  <2>2. k \in 0..n /\ ~NoAbsent(f[k])
    OBVIOUS
  <2>3. k # 0
    BY <1>6, <2>2
  <2>4. k - 1 \in 0..n /\ k \in DOMAIN parents /\ NoAbsent(f[k - 1])
    BY <1>1, <1>2, <2>1, <2>2, <2>3
  <2>5. f[k] = Narrowed(rows, window, f[k - 1], parents[k])
    BY <1>6, <2>2, <2>3
  <2> QED
    BY <2>2, <2>4, <2>5, ParentsNarrow
<1> QED
  BY <1>1, <1>2, <1>5, <1>7

(* The scope of a drilldown, its slice and its parents applied, still filters. *)
LEMMA DrillsFilter ==
    ASSUME NEW q, IsList(q.parents), NEW sc, NoAbsent(sc.filters), NEW rows,
           NEW ds, ds = DrillScope(q, sc, rows), ds # Refused
    PROVE  q.dimension \in DrillDimensions /\ \A d \in Dimensions : NULL \notin ds.filters[d]
<1>1. /\ PathAllowed(q.parents, q.dimension)
      /\ ds = SlicedScope(q, SliceWindows(sc.window, sc.compare, q.slice), sc.filters, rows)
  BY DEF DrillScope
<1>2. q.dimension \in DrillDimensions /\ \A i \in DOMAIN q.parents : q.parents[i].dimension \in Dimensions
  BY <1>1 DEF PathAllowed
<1>3. PICK windows : windows = SliceWindows(sc.window, sc.compare, q.slice)
  OBVIOUS
<1>4. PICK left : left = ValidateParents(rows, windows[1], sc.filters, q.parents)
  OBVIOUS
<1>5. ds = NarrowedScope(windows[1], windows[2], left)
  BY <1>1, <1>3, <1>4 DEF SlicedScope
<1>6. left # Refused /\ ds.filters = left
  BY <1>5 DEF NarrowedScope
<1>7. NoAbsent(left)
  BY <1>2, <1>4, ParentsLeaveFilters
<1> QED
  BY <1>2, <1>6, <1>7 DEF NoAbsent

(* _ranked_rows: for any facts, every row of a drilldown is the metric of the *)
(* sums of its own facts and "Other" of all the others, no fact is left out   *)
(* or counted twice, the shares make up the whole, and the comparison is that *)
(* of the same groups -- as long as no fact carries the key of "Other", which *)
(* nothing in the code keeps a workbook from doing.                           *)
THEOREM DrillsReconcile == OtherIsReserved => (ReadersSpec => []DrillReconciles)
<1> SUFFICES ASSUME OtherIsReserved PROVE ReadersSpec => []DrillReconciles
  OBVIOUS
<1>1. AskInv /\ SlicesInv => DrillReconciles
  <2> DEFINE ds    == reads.scope
             facts == RowsIn(seen.current, ds.window.from, ds.window.to, ds.filters)
             past  == IF ds.compare = None THEN {}
                      ELSE RowsIn(seen.compared, ds.compare.from, ds.compare.to, ds.filters)
  <2> SUFFICES ASSUME AskInv, SlicesInv, Answered("drilldown")
               PROVE  Reconciled(answer, facts, past, question.dimension, question.metric, KeysOf(answer))
    BY Zenon DEF DrillReconciles, Reconciled, RowsAreOf, FactsOf, PastOf, SumsFor, KeysOf
  <2>1. /\ scope # Refused /\ scope # NoScope /\ NamesTheKnown(question) /\ question.view = "drilldown"
        /\ reads # Refused
        /\ reads = ReadFor(question, scope, seen.current)
        /\ answer = AnswerFor(question, scope, reads, seen.compared)
    BY DEF AskInv, AnswerInv, Answered
  <2>2. PICK h, e, q : /\ h = seen.current /\ e = seen.compared /\ q = question
                       /\ h \in Slices /\ e \in Slices
    BY DEF SlicesInv
  <2>3. IsList(q.parents) /\ q.metric \in DOMAIN Metrics
    BY <2>1, <2>2 DEF NamesTheKnown
  <2>4. NoAbsent(scope.filters)
    <3>1. PICK x : scope = ScopeFor(request, x)
      BY DEF AskInv, AnswerInv, Answered
    <3> QED
      BY <2>1, <3>1, ScopesFilter DEF NoAbsent
  <2>5. PICK sc : sc = DrillScope(q, scope, RowsOf(h))
    OBVIOUS
  <2>6. reads = DrillReads(sc, q.dimension, RowsOf(h))
    BY <2>1, <2>2, <2>5 DEF ReadFor, ReadOf
  <2>7. sc # Refused /\ reads.scope = sc
        /\ reads.groups = Groups(RowsOf(h), sc.window, sc.filters, q.dimension)
    BY <2>1, <2>6 DEF DrillReads
  <2>8. q.dimension \in DrillDimensions /\ \A d \in Dimensions : NULL \notin sc.filters[d]
    BY <2>3, <2>4, <2>5, <2>7, DrillsFilter
  <2>9. PICK P, deeper :
          /\ P = IF sc.compare = None THEN {} ELSE Groups(RowsOf(e), sc.compare, sc.filters, q.dimension)
          /\ deeper = (NextDimensions(q.parents, q.dimension) # {})
    OBVIOUS
  <2>10. answer = RankedRows(q.metric, reads.groups, P, deeper)
    BY <2>1, <2>2, <2>7, <2>9 DEF AnswerFor, AnswerOf, DrillAnswer
  <2>11. facts = In(RowsOf(h), sc.window, sc.filters)
    BY <2>2, <2>7, <2>8, ReadsSelect
  <2>12. facts \subseteq RowsOf(h) /\ past \subseteq RowsOf(e)
    BY <2>2 DEF RowsIn
  <2>13. GroupedBy(reads.groups, facts, q.dimension)
    BY <2>7, <2>11, GroupsHoldRows
  <2>14. GroupedBy(P, past, q.dimension)
    <3>1. CASE sc.compare = None
      BY <2>7, <2>9, <3>1, NoGroups
    <3>2. CASE sc.compare # None
      <4>1. past = In(RowsOf(e), sc.compare, sc.filters)
        BY <2>2, <2>7, <2>8, <3>2, ReadsSelect
      <4> QED
        BY <2>9, <3>2, <4>1, GroupsHoldRows
    <3> QED
      BY <3>1, <3>2
  <2>15. \A g \in reads.groups : g.key # OtherKey
    BY <2>2, <2>8, <2>12, <2>13, EachRowHasAGroup, KeysAreNumbers
  <2> QED
    BY <2>2, <2>3, <2>8, <2>10, <2>12, <2>13, <2>14, <2>15, RankedRowsReconcile
<1> QED
  BY <1>1, AnswersAreOfTheirReads, ReadersReadFacts, PTL

-----------------------------------------------------------------------------
(* What a trend accounts for *)

(* A day a grain has a bucket for: of months there is a horizon. *)
OnGrain(d, grain) ==
    /\ d \in Int
    /\ grain = "month" => (\E m \in MonthFirsts : m <= d) /\ (\E n \in MonthFirsts : d < n)

(* The first day of a bucket. *)
Starts(b, grain) == OnGrain(b, grain) /\ BucketStart(b, grain) = b

(* A product with a positive number keeps a strict order of integers. *)
LEMMA MultiplesKeepOrder ==
    ASSUME NEW j \in Int, NEW k \in Int, NEW w \in Nat \ {0}, w * j < w * (k + 1)
    PROVE  w * j <= w * k
<1>1. j <= k
  <2> SUFFICES ASSUME j > k PROVE FALSE
    OBVIOUS
  <2>1. PICK e \in Nat : j = k + 1 + e
    <3>1. j - k - 1 \in Nat /\ j = k + 1 + (j - k - 1)
      OBVIOUS
    <3> QED
      BY <3>1
  <2>2. w * j = w * (k + 1) + w * e /\ w * e >= 0
    BY <2>1
  <2> QED
    BY <2>2
<1>2. PICK e \in Nat : k = j + e
  <2>1. k - j \in Nat /\ k = j + (k - j)
    BY <1>1
  <2> QED
    BY <2>1
<1>3. w * k = w * j + w * e /\ w * e >= 0
  BY <1>2
<1> QED
  BY <1>3

(* IsoWeekStart: the last multiple of weeks from a Monday. *)
LEMMA WeekOfDay ==
    ASSUME NEW d \in Int
    PROVE  /\ IsoWeekStart(d) \in Int /\ IsoWeekStart(d) <= d /\ d < IsoWeekStart(d) + WeekDays
           /\ \E q \in Int : IsoWeekStart(d) = Monday + WeekDays * q
<1>1. WeekDays \in Nat \ {0} /\ Monday \in Int
  BY CalendarAssumption
<1>2. PICK x \in Int : x = d - Monday
  BY <1>1
<1>3. PICK q \in Int, r \in Int : q = x \div WeekDays /\ r = x % WeekDays
  BY <1>1, <1>2
<1>4. x = WeekDays * q + r /\ 0 <= r /\ r < WeekDays
  BY <1>1, <1>2, <1>3
<1>5. IsoWeekStart(d) = d - r
  BY <1>2, <1>3 DEF IsoWeekStart
<1>6. d - r = Monday + WeekDays * q
  BY <1>1, <1>2, <1>4
<1> QED
  BY <1>1, <1>4, <1>5, <1>6

(* A week is the last one that begins by the day, and a multiple of weeks is *)
(* the week of itself.                                                       *)
LEMMA WeeksAre ==
    ASSUME NEW b \in Int, NEW k \in Int, b = Monday + WeekDays * k
    PROVE  /\ IsoWeekStart(b) = b
           /\ \A d \in Int : b <= d => b <= IsoWeekStart(d)
<1>1. WeekDays \in Nat \ {0} /\ Monday \in Int
  BY CalendarAssumption
<1>2. ASSUME NEW d \in Int, b <= d PROVE b <= IsoWeekStart(d)
  <2>1. PICK q \in Int : IsoWeekStart(d) = Monday + WeekDays * q
    BY WeekOfDay
  <2>2. d < IsoWeekStart(d) + WeekDays /\ IsoWeekStart(d) \in Int
    BY WeekOfDay
  <2>3. WeekDays * (q + 1) = WeekDays * q + WeekDays
    BY <1>1
  <2>4. WeekDays * k \in Int /\ WeekDays * q \in Int
    BY <1>1
  <2>5. WeekDays * k < WeekDays * (q + 1)
    BY <1>1, <1>2, <2>1, <2>2, <2>3, <2>4
  <2>6. WeekDays * k <= WeekDays * q
    BY <1>1, <2>5, MultiplesKeepOrder
  <2> QED
    BY <1>1, <2>1, <2>4, <2>6
<1>3. IsoWeekStart(b) <= b /\ IsoWeekStart(b) \in Int
  BY WeekOfDay
<1>4. b <= IsoWeekStart(b)
  BY <1>2
<1> QED
  BY <1>2, <1>3, <1>4

(* The bucket of a day is the last that starts by it. *)
LEMMA BucketOfDay ==
    ASSUME NEW grain \in {"day", "week", "month"}, NEW d, OnGrain(d, grain)
    PROVE  /\ Starts(BucketStart(d, grain), grain) /\ BucketStart(d, grain) <= d
           /\ \A b : Starts(b, grain) /\ b <= d => b <= BucketStart(d, grain)
<1>1. CASE grain = "day"
  BY <1>1 DEF BucketStart, Starts, OnGrain
<1>2. CASE grain = "week"
  <2>1. PICK q \in Int : IsoWeekStart(d) = Monday + WeekDays * q
    BY WeekOfDay DEF OnGrain
  <2>2. IsoWeekStart(d) \in Int /\ IsoWeekStart(d) <= d
    BY WeekOfDay DEF OnGrain
  <2>3. IsoWeekStart(IsoWeekStart(d)) = IsoWeekStart(d)
    BY <2>1, <2>2, WeeksAre
  <2>4. ASSUME NEW b, Starts(b, grain), b <= d PROVE b <= IsoWeekStart(d)
    <3>1. b \in Int /\ IsoWeekStart(b) = b
      BY <1>2, <2>4 DEF Starts, OnGrain, BucketStart
    <3>2. PICK k \in Int : b = Monday + WeekDays * k
      BY <3>1, WeekOfDay
    <3> QED
      BY <2>4, <3>1, <3>2, WeeksAre DEF OnGrain
  <2>5. \A x : BucketStart(x, grain) = IsoWeekStart(x)
    BY <1>2 DEF BucketStart
  <2> QED
    BY <1>2, <2>2, <2>3, <2>4, <2>5 DEF Starts, OnGrain
<1>3. CASE grain = "month"
  <2>1. /\ MonthOf(d) \in MonthFirsts /\ MonthOf(d) <= d
        /\ \A n \in MonthFirsts : n <= d => n <= MonthOf(d)
    BY <1>3, MonthOfDay DEF OnGrain
  <2>2. PICK m : m = MonthOf(d)
    OBVIOUS
  <2>3. m \in MonthFirsts /\ m \in Int /\ m <= d /\ d \in Int
    <3>1. \A n \in MonthFirsts : n \in Int
      BY CalendarAssumption
    <3> QED
      BY <2>1, <2>2, <3>1 DEF OnGrain
  <2>4. \E n \in MonthFirsts : m < n
    <3>1. PICK n \in MonthFirsts : d < n
      BY <1>3 DEF OnGrain
    <3>2. n \in Int
      BY CalendarAssumption
    <3> QED
      BY <2>3, <3>1, <3>2
  <2>5. MonthOf(m) = m
    <3>1. m <= m
      BY <2>3
    <3>2. /\ MonthOf(m) \in MonthFirsts /\ MonthOf(m) <= m /\ m <= MonthOf(m)
      BY <2>3, <3>1, MonthOfDay
    <3>3. MonthOf(m) \in Int
      <4>1. \A n \in MonthFirsts : n \in Int
        BY CalendarAssumption
      <4> QED
        BY <3>2, <4>1
    <3> QED
      BY <2>3, <3>2, <3>3
  <2>6. OnGrain(m, grain)
    BY <2>3, <2>4 DEF OnGrain
  <2>7. ASSUME NEW b, Starts(b, grain), b <= d PROVE b <= m
    <3>1. b \in Int /\ MonthOf(b) = b /\ \E n \in MonthFirsts : n <= b
      BY <1>3, <2>7 DEF Starts, OnGrain, BucketStart
    <3>2. b \in MonthFirsts
      BY <3>1, MonthOfDay
    <3> QED
      BY <2>1, <2>2, <2>7, <3>2
  <2>8. \A x : BucketStart(x, grain) = MonthOf(x)
    BY <1>3 DEF BucketStart
  <2> QED
    BY <2>2, <2>3, <2>5, <2>6, <2>7, <2>8 DEF Starts
<1> QED
  BY <1>1, <1>2, <1>3

(* The bucket after one that is not the last. *)
LEMMA NextBucket ==
    ASSUME NEW grain \in {"day", "week", "month"}, NEW last, Starts(last, grain), NEW b \in Int, b < last
    PROVE  /\ BucketEndExclusive(b, grain) \in Int /\ b < BucketEndExclusive(b, grain)
           /\ Starts(b, grain) =>
                /\ Starts(BucketEndExclusive(b, grain), grain)
                /\ \A c : Starts(c, grain) /\ b < c => BucketEndExclusive(b, grain) <= c
<1>1. last \in Int
  BY DEF Starts, OnGrain
<1>2. CASE grain = "day"
  BY <1>1, <1>2 DEF BucketEndExclusive, BucketStart, Starts, OnGrain
<1>3. CASE grain = "week"
  <2>1. WeekDays \in Nat \ {0} /\ Monday \in Int
    BY CalendarAssumption
  <2>2. BucketEndExclusive(b, grain) = b + WeekDays
    BY <1>3 DEF BucketEndExclusive
  <2>3. ASSUME NEW c, Starts(c, grain) PROVE c \in Int /\ \E k \in Int : c = Monday + WeekDays * k
    <3>1. c \in Int /\ IsoWeekStart(c) = c
      BY <1>3, <2>3 DEF Starts, OnGrain, BucketStart
    <3> QED
      BY <3>1, WeekOfDay
  <2>4. ASSUME Starts(b, grain)
        PROVE  /\ Starts(b + WeekDays, grain)
               /\ \A c : Starts(c, grain) /\ b < c => b + WeekDays <= c
    <3>1. PICK k \in Int : b = Monday + WeekDays * k
      BY <2>3, <2>4
    <3>2. b + WeekDays = Monday + WeekDays * (k + 1) /\ b + WeekDays \in Int /\ k + 1 \in Int
      BY <2>1, <3>1
    <3>3. IsoWeekStart(b + WeekDays) = b + WeekDays
      BY <3>2, WeeksAre
    <3>4. Starts(b + WeekDays, grain)
      BY <1>3, <3>2, <3>3 DEF Starts, OnGrain, BucketStart
    <3>5. ASSUME NEW c, Starts(c, grain), b < c PROVE b + WeekDays <= c
      <4>1. PICK j \in Int : c = Monday + WeekDays * j
        BY <2>3, <3>5
      <4>2. c \in Int
        BY <2>3, <3>5
      <4> SUFFICES ASSUME c < b + WeekDays PROVE FALSE
        BY <2>1, <4>2
      <4>3. WeekDays * j \in Int /\ WeekDays * k \in Int /\ WeekDays * (k + 1) \in Int
        BY <2>1
      <4>4. WeekDays * j < WeekDays * (k + 1)
        BY <2>1, <3>2, <4>1, <4>3
      <4>5. WeekDays * j <= WeekDays * k
        BY <2>1, <4>4, MultiplesKeepOrder
      <4> QED
        BY <2>1, <3>1, <3>5, <4>1, <4>3, <4>5
    <3> QED
      BY <3>4, <3>5
  <2> QED
    BY <2>1, <2>2, <2>4
<1>4. CASE grain = "month"
  <2>1. \A m \in MonthFirsts : m \in Int
    BY CalendarAssumption
  <2>2. ASSUME NEW c, Starts(c, grain) PROVE c \in MonthFirsts
    <3>1. c \in Int /\ MonthOf(c) = c /\ \E n \in MonthFirsts : n <= c
      BY <1>4, <2>2 DEF Starts, OnGrain, BucketStart
    <3> QED
      BY <3>1, MonthOfDay
  <2>3. last \in MonthFirsts /\ \E n \in MonthFirsts : last < n
    BY <1>4, <2>2 DEF Starts, OnGrain
  <2>4. PICK e : e = AddCalendarMonth(b)
    OBVIOUS
  <2>5. /\ e \in MonthFirsts /\ e > b
        /\ \A o \in MonthFirsts : o > b => e <= o
    BY <2>1, <2>3, <2>4, NextMonth
  <2>6. e \in Int /\ e <= last
    BY <1>1, <2>1, <2>3, <2>5
  <2>7. OnGrain(e, grain)
    <3>1. PICK n \in MonthFirsts : last < n
      BY <2>3
    <3>2. e < n /\ e <= e
      BY <1>1, <2>1, <2>6, <3>1
    <3> QED
      BY <2>5, <2>6, <3>2 DEF OnGrain
  <2>8. MonthOf(e) = e
    <3>1. e <= e
      BY <2>6
    <3>2. /\ MonthOf(e) \in MonthFirsts /\ MonthOf(e) <= e /\ e <= MonthOf(e)
      BY <2>5, <2>6, <3>1, MonthOfDay
    <3> QED
      BY <2>1, <2>6, <3>2
  <2>9. Starts(e, grain)
    BY <1>4, <2>7, <2>8 DEF Starts, BucketStart
  <2>10. \A c : Starts(c, grain) /\ b < c => e <= c
    BY <2>1, <2>2, <2>5
  <2>11. BucketEndExclusive(b, grain) = e
    BY <1>4, <2>4 DEF BucketEndExclusive
  <2> QED
    BY <2>5, <2>6, <2>9, <2>10, <2>11
<1> QED
  BY <1>2, <1>3, <1>4

(* The walk of IterBuckets, from the days that are at most k before the last *)
(* bucket, and from any day.                                                 *)
WalksFrom(w, grain, last, k) ==
    \A b \in Int : last - k <= b =>
        w[b] = IF b < last THEN <<b>> \o w[BucketEndExclusive(b, grain)] ELSE <<b>>
Walks(w, grain, last) ==
    w = [b \in Int |-> IF b < last THEN <<b>> \o w[BucketEndExclusive(b, grain)] ELSE <<b>>]

(* The days of a grain have a next bucket after them, up to the last. *)
Advances(grain, last) ==
    last \in Int /\ \A b \in Int : b < last =>
        BucketEndExclusive(b, grain) \in Int /\ b < BucketEndExclusive(b, grain)

(* Two walks agree wherever both are defined. *)
LEMMA OneWalk ==
    ASSUME NEW grain, NEW last, Advances(grain, last), NEW j \in Nat, NEW k \in Nat,
           NEW w, WalksFrom(w, grain, last, j), NEW v, WalksFrom(v, grain, last, k),
           NEW b \in Int, last - j <= b, last - k <= b
    PROVE  w[b] = v[b]
<1>1. last \in Int
  BY DEF Advances
<1>2. \A x \in Int : last - j <= x /\ x >= last => w[x] = <<x>>
  <2> SUFFICES ASSUME NEW x \in Int, last - j <= x, x >= last PROVE w[x] = <<x>>
    OBVIOUS
  <2>1. ~(x < last)
    BY <1>1
  <2> QED
    BY <2>1 DEF WalksFrom
<1>3. \A x \in Int : last - k <= x /\ x >= last => v[x] = <<x>>
  <2> SUFFICES ASSUME NEW x \in Int, last - k <= x, x >= last PROVE v[x] = <<x>>
    OBVIOUS
  <2>1. ~(x < last)
    BY <1>1
  <2> QED
    BY <2>1 DEF WalksFrom
<1> DEFINE C == {n \in Nat : \E x \in Int : /\ last - j <= x /\ last - k <= x
                                            /\ n = last - x /\ w[x] # v[x]}
<1>4. CASE C = {}
  <2>1. CASE b >= last
    BY <1>2, <1>3, <2>1
  <2>2. CASE b < last
    <3>1. last - b \in Nat
      BY <1>1, <2>2
    <3> QED
      BY <1>4, <3>1
  <2> QED
    BY <1>1, <2>1, <2>2
<1>5. CASE C # {}
  <2>1. PICK n \in C : \A m \in C : n <= m
    <3>1. C \subseteq Nat
      OBVIOUS
    <3> HIDE DEF C
    <3> QED
      BY <1>5, <3>1, LeastOfNumbers
  <2>2. PICK x \in Int : last - j <= x /\ last - k <= x /\ n = last - x /\ w[x] # v[x]
    OBVIOUS
  <2>3. x < last
    BY <1>1, <1>2, <1>3, <2>2
  <2>4. PICK y : y = BucketEndExclusive(x, grain)
    OBVIOUS
  <2>5. y \in Int /\ x < y
    BY <2>2, <2>3, <2>4 DEF Advances
  <2>6. w[x] = <<x>> \o w[y]
    BY <1>1, <2>2, <2>3, <2>4 DEF WalksFrom
  <2>7. v[x] = <<x>> \o v[y]
    BY <1>1, <2>2, <2>3, <2>4 DEF WalksFrom
  <2>8. last - j <= y /\ last - k <= y
    BY <1>1, <2>2, <2>5
  <2>9. w[y] = v[y]
    <3>1. CASE y >= last
      BY <1>2, <1>3, <2>5, <2>8, <3>1
    <3>2. CASE y < last
      <4>1. last - y \in Nat /\ ~(n <= last - y)
        BY <1>1, <2>2, <2>5, <3>2
      <4>2. last - y \notin C
        BY <2>1, <4>1
      <4> QED
        BY <2>5, <2>8, <4>1, <4>2
    <3> QED
      BY <1>1, <2>5, <3>1, <3>2
  <2> QED
    BY <2>2, <2>6, <2>7, <2>9
<1> QED
  BY <1>4, <1>5

(* There is a walk from any number of days before the last bucket. *)
LEMMA AWalk ==
    ASSUME NEW grain, NEW last, Advances(grain, last), NEW n \in Nat
    PROVE  \E w : WalksFrom(w, grain, last, n)
<1> DEFINE C == {k \in Nat : ~\E w : WalksFrom(w, grain, last, k)}
<1> SUFFICES ASSUME C # {} PROVE FALSE
  OBVIOUS
<1>1. PICK k \in C : \A j \in C : k <= j
  <2>1. C \subseteq Nat
    OBVIOUS
  <2> HIDE DEF C
  <2> QED
    BY <2>1, LeastOfNumbers
<1>2. k \in Nat /\ (~\E w : WalksFrom(w, grain, last, k)) /\ last \in Int
  BY DEF Advances
<1>3. k # 0
  <2>1. PICK w : w = [b \in {x \in Int : last - 0 <= x} |-> <<b>>]
    OBVIOUS
  <2>2. \A b \in Int : last - 0 <= b => b \in {x \in Int : last - 0 <= x} /\ ~(b < last)
    BY <1>2
  <2>3. \A b \in Int : last - 0 <= b => w[b] = <<b>>
    BY <2>1, <2>2
  <2>4. WalksFrom(w, grain, last, 0)
    BY <2>2, <2>3 DEF WalksFrom
  <2> QED
    BY <1>2, <2>4
<1>4. k - 1 \in Nat /\ k - 1 \notin C
  BY <1>1, <1>2, <1>3
<1>5. PICK w : WalksFrom(w, grain, last, k - 1)
  BY <1>4
<1> HIDE DEF C
<1>6. PICK a, y : a \in Int /\ a = last - k /\ y = BucketEndExclusive(a, grain)
  BY <1>2
<1>7. a < last /\ y \in Int /\ a < y
  BY <1>2, <1>3, <1>6 DEF Advances
<1> DEFINE D == {x \in Int : last - k <= x}
<1>8. PICK g : g = [b \in D |-> IF b = a THEN <<a>> \o w[y] ELSE w[b]]
  OBVIOUS
<1>9. ASSUME NEW b \in D
      PROVE  g[b] = IF b < last THEN <<b>> \o g[BucketEndExclusive(b, grain)] ELSE <<b>>
  <2>1. CASE b = a
    <3>1. y \in D /\ y # a
      BY <1>2, <1>6, <1>7
    <3> QED
      BY <1>6, <1>7, <1>8, <2>1, <3>1
  <2>2. CASE b # a
    <3>1. b \in Int /\ last - (k - 1) <= b
      BY <1>2, <1>6, <2>2
    <3>2. w[b] = IF b < last THEN <<b>> \o w[BucketEndExclusive(b, grain)] ELSE <<b>>
      BY <1>2, <1>4, <1>5, <3>1 DEF WalksFrom
    <3>3. b < last => g[BucketEndExclusive(b, grain)] = w[BucketEndExclusive(b, grain)]
      <4> SUFFICES ASSUME b < last, NEW z, z = BucketEndExclusive(b, grain) PROVE g[z] = w[z]
        OBVIOUS
      <4>1. z \in Int /\ b < z
        BY <3>1 DEF Advances
      <4>2. z \in D /\ z # a
        BY <1>2, <1>6, <3>1, <4>1
      <4> QED
        BY <1>8, <4>2
    <3> QED
      BY <1>8, <2>2, <3>2, <3>3
  <2> QED
    BY <2>1, <2>2
<1>10. \A b \in Int : last - k <= b => b \in D
  OBVIOUS
<1> HIDE DEF D
<1>11. WalksFrom(g, grain, last, k)
  BY <1>9, <1>10 DEF WalksFrom
<1> QED
  BY <1>2, <1>11

(* Hence there is one from any day. *)
LEMMA TheWalk ==
    ASSUME NEW grain, NEW last, Advances(grain, last)
    PROVE  \E w : Walks(w, grain, last)
<1> DEFINE of(k) == CHOOSE w : WalksFrom(w, grain, last, k)
<1>1. \A k \in Nat : WalksFrom(of(k), grain, last, k)
  BY AWalk
<1> HIDE DEF of
<1>2. last \in Int
  BY DEF Advances
<1>3. PICK g : g = [b \in Int |-> IF b >= last THEN <<b>> ELSE of(last - b)[b]]
  OBVIOUS
<1>4. ASSUME NEW b \in Int
      PROVE  g[b] = IF b < last THEN <<b>> \o g[BucketEndExclusive(b, grain)] ELSE <<b>>
  <2>1. CASE b >= last
    BY <1>2, <1>3, <2>1
  <2>2. CASE b < last
    <3>1. PICK k, w, y : k \in Nat /\ k = last - b /\ w = of(k) /\ y = BucketEndExclusive(b, grain)
      BY <1>2, <2>2
    <3>2. WalksFrom(w, grain, last, k) /\ y \in Int /\ b < y /\ last - k = b
      BY <1>1, <1>2, <2>2, <3>1 DEF Advances
    <3>3. g[b] = w[b]
      BY <1>2, <1>3, <2>2, <3>1
    <3>4. w[b] = <<b>> \o w[y]
      <4>1. last - k <= b
        BY <1>2, <3>1, <3>2
      <4>2. w[b] = IF b < last THEN <<b>> \o w[BucketEndExclusive(b, grain)] ELSE <<b>>
        BY <3>2, <4>1 DEF WalksFrom
      <4> QED
        BY <2>2, <3>1, <4>2
    <3>5. g[y] = w[y]
      <4>1. CASE y >= last
        <5>1. last - k <= y
          BY <1>2, <3>1, <3>2
        <5>2. ~(y < last)
          BY <1>2, <3>2, <4>1
        <5>3. w[y] = IF y < last THEN <<y>> \o w[BucketEndExclusive(y, grain)] ELSE <<y>>
          BY <3>2, <5>1 DEF WalksFrom
        <5> QED
          BY <1>3, <3>2, <4>1, <5>2, <5>3
      <4>2. CASE y < last
        <5>1. PICK j, v : j \in Nat /\ j = last - y /\ v = of(j)
          BY <1>2, <3>2, <4>2
        <5>2. WalksFrom(v, grain, last, j) /\ last - j <= y /\ last - k <= y
          BY <1>1, <1>2, <3>2, <5>1
        <5>3. w[y] = v[y]
          BY <3>1, <3>2, <5>1, <5>2, OneWalk
        <5> QED
          BY <1>2, <1>3, <3>2, <4>2, <5>1, <5>3
      <4> QED
        BY <1>2, <3>2, <4>1, <4>2
    <3> QED
      BY <2>2, <3>1, <3>3, <3>4, <3>5
  <2> QED
    BY <1>2, <2>1, <2>2
<1>5. g = [b \in Int |-> g[b]]
  BY <1>3
<1>6. Walks(g, grain, last)
  BY <1>4, <1>5 DEF Walks
<1> QED
  BY <1>6

(* A list of the buckets from one to another, each once, in their order. *)
ListsBuckets(s, from, last, grain) ==
    /\ s \in Seq(Int) /\ s # <<>>
    /\ \A i \in DOMAIN s : Starts(s[i], grain) /\ from <= s[i] /\ s[i] <= last
    /\ \A c : Starts(c, grain) /\ from <= c /\ c <= last => \E i \in DOMAIN s : s[i] = c
    /\ \A i, j \in DOMAIN s : i < j => s[i] < s[j]

(* A bucket before such a list makes one. *)
LEMMA ListGrows ==
    ASSUME NEW grain, NEW b \in Int, Starts(b, grain), NEW next \in Int, b < next,
           NEW last \in Int, next <= last,
           \A c : Starts(c, grain) /\ b < c => next <= c,
           NEW s, ListsBuckets(s, next, last, grain)
    PROVE  ListsBuckets(<<b>> \o s, b, last, grain)
<1>1. PICK t, n : t = <<b>> \o s /\ n = Len(s)
  OBVIOUS
<1>2. s \in Seq(Int) /\ n \in Nat /\ DOMAIN s = 1..n
  BY <1>1 DEF ListsBuckets
<1>3. /\ t \in Seq(Int) /\ Len(t) = n + 1 /\ DOMAIN t = 1..(n + 1) /\ t # <<>>
      /\ t[1] = b /\ \A i \in 2..(n + 1) : t[i] = s[i - 1]
  BY <1>1, <1>2
<1>4. \A i \in 1..n : s[i] \in Int /\ Starts(s[i], grain) /\ next <= s[i] /\ s[i] <= last
  <2> SUFFICES ASSUME NEW i \in 1..n
               PROVE  s[i] \in Int /\ Starts(s[i], grain) /\ next <= s[i] /\ s[i] <= last
    OBVIOUS
  <2>1. i \in DOMAIN s
    BY <1>2
  <2>2. Starts(s[i], grain) /\ next <= s[i] /\ s[i] <= last
    BY <2>1 DEF ListsBuckets
  <2> QED
    BY <2>2 DEF Starts, OnGrain
<1>5. \A i \in 2..(n + 1) : i - 1 \in 1..n
  BY <1>2
<1>6. \A i \in 1..(n + 1) : i = 1 \/ i \in 2..(n + 1)
  BY <1>2
<1>7. ASSUME NEW i \in DOMAIN t PROVE Starts(t[i], grain) /\ b <= t[i] /\ t[i] <= last
  <2>1. CASE i = 1
    BY <1>3, <2>1
  <2>2. CASE i \in 2..(n + 1)
    <3>1. t[i] = s[i - 1] /\ i - 1 \in 1..n
      BY <1>3, <1>5, <2>2
    <3> QED
      BY <1>4, <3>1
  <2> QED
    BY <1>3, <1>6, <2>1, <2>2
<1>8. ASSUME NEW c, Starts(c, grain), b <= c, c <= last PROVE \E i \in DOMAIN t : t[i] = c
  <2>1. CASE c = b
    BY <1>2, <1>3, <2>1
  <2>2. CASE c # b
    <3>1. c \in Int /\ next <= c
      BY <1>8, <2>2 DEF Starts, OnGrain
    <3>2. PICK i \in 1..n : s[i] = c
      BY <1>2, <1>8, <3>1 DEF ListsBuckets
    <3>3. i + 1 \in 2..(n + 1) /\ i + 1 \in DOMAIN t /\ (i + 1) - 1 = i
      BY <1>2, <1>3, <3>2
    <3> QED
      BY <1>3, <3>2, <3>3
  <2> QED
    BY <2>1, <2>2
<1>9. ASSUME NEW i \in DOMAIN t, NEW j \in DOMAIN t, i < j PROVE t[i] < t[j]
  <2>1. j \in 2..(n + 1) /\ t[j] = s[j - 1] /\ j - 1 \in 1..n
    BY <1>2, <1>3, <1>5, <1>9
  <2>2. CASE i = 1
    BY <1>3, <1>4, <2>1, <2>2
  <2>3. CASE i \in 2..(n + 1)
    <3>1. t[i] = s[i - 1]
      BY <1>3, <2>3
    <3>2. i - 1 \in 1..n /\ i - 1 < j - 1
      <4>1. i \in Int /\ j \in Int /\ i < j
        BY <1>2, <1>9, <2>1, <2>3
      <4> QED
        BY <1>5, <2>3, <4>1
    <3> QED
      BY <1>2, <2>1, <3>1, <3>2 DEF ListsBuckets
  <2> QED
    BY <1>3, <1>6, <2>2, <2>3
<1> QED
  BY <1>1, <1>3, <1>7, <1>8, <1>9 DEF ListsBuckets

(* A walk from a bucket to the last one lists the buckets between. *)
LEMMA WalkLists ==
    ASSUME NEW grain \in {"day", "week", "month"}, NEW last, Starts(last, grain),
           NEW w, Walks(w, grain, last), NEW b, Starts(b, grain), b <= last
    PROVE  ListsBuckets(w[b], b, last, grain)
<1> DEFINE C == {n \in Nat : \E x \in Int : /\ Starts(x, grain) /\ x <= last /\ n = last - x
                                            /\ ~ListsBuckets(w[x], x, last, grain)}
<1>1. last \in Int /\ b \in Int /\ last - b \in Nat
  BY DEF Starts, OnGrain
<1> SUFFICES ASSUME C # {} PROVE FALSE
  BY <1>1
<1>2. PICK n \in C : \A m \in C : n <= m
  <2>1. C \subseteq Nat
    OBVIOUS
  <2> HIDE DEF C
  <2> QED
    BY <2>1, LeastOfNumbers
<1>3. PICK x \in Int : /\ Starts(x, grain) /\ x <= last /\ n = last - x
                       /\ ~ListsBuckets(w[x], x, last, grain)
  OBVIOUS
<1>4. w[x] = IF x < last THEN <<x>> \o w[BucketEndExclusive(x, grain)] ELSE <<x>>
  BY <1>3 DEF Walks
<1>5. x < last
  <2> SUFFICES ASSUME x = last PROVE FALSE
    BY <1>1, <1>3
  <2>1. w[x] = <<x>>
    BY <1>1, <1>4
  <2>2. PICK s : s = <<x>>
    OBVIOUS
  <2>3. s \in Seq(Int) /\ s # <<>> /\ DOMAIN s = {1} /\ s[1] = x
    BY <2>2
  <2>4. \A c : Starts(c, grain) /\ x <= c /\ c <= last => c = x
    BY <1>1 DEF Starts, OnGrain
  <2>5. ListsBuckets(s, x, last, grain)
    BY <1>1, <1>3, <2>3, <2>4 DEF ListsBuckets
  <2> QED
    BY <1>3, <2>1, <2>2, <2>5
<1>6. PICK y : y = BucketEndExclusive(x, grain)
  OBVIOUS
<1>7. /\ y \in Int /\ x < y /\ Starts(y, grain)
      /\ \A c : Starts(c, grain) /\ x < c => y <= c
  BY <1>3, <1>5, <1>6, NextBucket
<1>8. y <= last
  BY <1>5, <1>7
<1>9. last - y \in Nat /\ ~(n <= last - y)
  BY <1>1, <1>3, <1>7, <1>8
<1>10. last - y \notin C
  BY <1>2, <1>9
<1>11. ListsBuckets(w[y], y, last, grain)
  BY <1>7, <1>8, <1>9, <1>10
<1>12. ListsBuckets(<<x>> \o w[y], x, last, grain)
  BY <1>1, <1>3, <1>7, <1>8, <1>11, ListGrows
<1> QED
  BY <1>3, <1>4, <1>5, <1>6, <1>12

(* A window whose days have buckets. *)
InHorizon(w, grain) ==
    w.from \in Int /\ w.to \in Int /\ w.from < w.to /\ \A d \in w.from..(w.to - 1) : OnGrain(d, grain)

(* The buckets of the days of a window. *)
BucketsOf(w, grain) == {BucketStart(d, grain) : d \in w.from..(w.to - 1)}

(* What iter_buckets lists of a window: the buckets of its days, in order. *)
InOrder(s, w, grain) ==
    /\ s \in Seq(Int)
    /\ \A i \in DOMAIN s : s[i] \in BucketsOf(w, grain)
    /\ \A b \in BucketsOf(w, grain) : \E i \in DOMAIN s : s[i] = b
    /\ \A i, j \in DOMAIN s : i < j => s[i] < s[j]

(* iter_buckets lists the buckets of the days of a window, in order. *)
LEMMA BucketsAreListed ==
    ASSUME NEW grain \in {"day", "week", "month"}, NEW w, InHorizon(w, grain)
    PROVE  InOrder(IterBuckets(w.from, w.to, grain), w, grain)
<1>1. PICK from, to, first, last :
        /\ from = w.from /\ to = w.to /\ first = BucketStart(from, grain) /\ last = BucketStart(to - 1, grain)
  OBVIOUS
<1>2. from \in Int /\ to \in Int /\ from < to /\ \A d \in from..(to - 1) : OnGrain(d, grain)
  BY <1>1 DEF InHorizon
<1>3. OnGrain(from, grain) /\ OnGrain(to - 1, grain)
  BY <1>2
<1>4. /\ Starts(first, grain) /\ first <= from
      /\ \A b : Starts(b, grain) /\ b <= from => b <= first
  BY <1>1, <1>3, BucketOfDay
<1>5. /\ Starts(last, grain) /\ last <= to - 1
      /\ \A b : Starts(b, grain) /\ b <= to - 1 => b <= last
  BY <1>1, <1>3, BucketOfDay
<1>6. first \in Int /\ last \in Int
  BY <1>4, <1>5 DEF Starts, OnGrain
<1>7. first <= last
  BY <1>2, <1>4, <1>5, <1>6
<1>8. Advances(grain, last)
  <2>1. \A b \in Int : b < last => BucketEndExclusive(b, grain) \in Int /\ b < BucketEndExclusive(b, grain)
    BY <1>5, NextBucket
  <2> QED
    BY <1>6, <2>1 DEF Advances
<1>9. PICK walk : walk = CHOOSE v : Walks(v, grain, last)
  OBVIOUS
<1>10. Walks(walk, grain, last)
  BY <1>8, <1>9, TheWalk
<1>11. IterBuckets(from, to, grain) = walk[first]
  BY <1>1, <1>2, <1>9 DEF IterBuckets, Walks
<1>12. PICK s : s = walk[first]
  OBVIOUS
<1>13. ListsBuckets(s, first, last, grain)
  BY <1>4, <1>5, <1>7, <1>10, <1>12, WalkLists
<1>14. ASSUME NEW i \in DOMAIN s PROVE s[i] \in BucketsOf(w, grain)
  <2>1. PICK c : c = s[i]
    OBVIOUS
  <2>2. Starts(c, grain) /\ first <= c /\ c <= last /\ c \in Int
    BY <1>13, <2>1 DEF ListsBuckets, Starts, OnGrain
  <2>3. CASE c = first
    BY <1>1, <1>2, <2>1, <2>3 DEF BucketsOf
  <2>4. CASE c # first
    <3>1. from <= c
      BY <1>2, <1>4, <1>6, <2>2, <2>4
    <3>2. c \in from..(to - 1) /\ BucketStart(c, grain) = c
      BY <1>2, <1>5, <1>6, <2>2, <3>1 DEF Starts
    <3> QED
      BY <1>1, <2>1, <3>2 DEF BucketsOf
  <2> QED
    BY <2>3, <2>4
<1>15. ASSUME NEW b \in BucketsOf(w, grain) PROVE \E i \in DOMAIN s : s[i] = b
  <2>1. PICK d \in from..(to - 1) : b = BucketStart(d, grain)
    BY <1>1 DEF BucketsOf
  <2>2. d \in Int /\ from <= d /\ d <= to - 1 /\ OnGrain(d, grain)
    BY <1>2
  <2>3. /\ Starts(b, grain) /\ b <= d
        /\ \A c : Starts(c, grain) /\ c <= d => c <= b
    BY <2>1, <2>2, BucketOfDay
  <2>4. b \in Int
    BY <2>3 DEF Starts, OnGrain
  <2>5. first <= b
    BY <1>2, <1>4, <1>6, <2>2, <2>3
  <2>6. b <= last
    BY <1>2, <1>5, <2>2, <2>3, <2>4
  <2> QED
    BY <1>13, <2>3, <2>5, <2>6 DEF ListsBuckets
<1> QED
  BY <1>1, <1>11, <1>12, <1>13, <1>14, <1>15 DEF InOrder, ListsBuckets

(* The place of a bucket in that list is its position in the window. *)
LEMMA PlaceIsPosition ==
    ASSUME NEW grain, NEW w, NEW s, InOrder(s, w, grain), NEW i \in DOMAIN s
    PROVE  Position(w, grain, s[i]) = i
<1>1. s \in Seq(Int) /\ DOMAIN s = 1..Len(s) /\ Len(s) \in Nat /\ i \in Nat /\ i >= 1
  BY DEF InOrder
<1>2. \A j \in DOMAIN s : s[j] \in Int
  BY <1>1
<1>3. PICK below : below = {c \in BucketsOf(w, grain) : c <= s[i]}
  OBVIOUS
<1>4. PICK f : f = [j \in 1..i |-> s[j]]
  OBVIOUS
<1>5. \A j \in 1..i : j \in DOMAIN s /\ f[j] = s[j]
  BY <1>1, <1>4
<1>6. \A j \in 1..i : f[j] \in below
  <2> SUFFICES ASSUME NEW j \in 1..i PROVE s[j] \in below
    BY <1>5
  <2>1. j \in DOMAIN s /\ (j < i \/ j = i)
    BY <1>1, <1>5
  <2>2. s[j] <= s[i]
    BY <1>2, <2>1 DEF InOrder
  <2>3. s[j] \in BucketsOf(w, grain)
    BY <2>1 DEF InOrder
  <2> QED
    BY <1>3, <2>2, <2>3
<1>7. \A c \in below : \E j \in 1..i : f[j] = c
  <2> SUFFICES ASSUME NEW c \in below PROVE \E j \in 1..i : f[j] = c
    OBVIOUS
  <2>1. c \in BucketsOf(w, grain) /\ c <= s[i]
    BY <1>3
  <2>2. PICK j \in DOMAIN s : s[j] = c
    BY <2>1 DEF InOrder
  <2>3. ~(i < j)
    <3> SUFFICES ASSUME i < j PROVE FALSE
      OBVIOUS
    <3>1. s[i] < s[j]
      BY <2>2 DEF InOrder
    <3> QED
      BY <1>2, <2>1, <2>2, <3>1
  <2>4. j \in 1..i
    BY <1>1, <2>2, <2>3
  <2> QED
    BY <1>5, <2>2, <2>4
<1>8. \A j, k \in 1..i : f[j] = f[k] => j = k
  <2> SUFFICES ASSUME NEW j \in 1..i, NEW k \in 1..i, f[j] = f[k], j # k PROVE FALSE
    OBVIOUS
  <2>1. j \in DOMAIN s /\ k \in DOMAIN s /\ s[j] = s[k] /\ s[j] \in Int /\ (j < k \/ k < j)
    BY <1>1, <1>2, <1>5
  <2>2. s[j] < s[k] \/ s[k] < s[j]
    BY <2>1 DEF InOrder
  <2> QED
    BY <2>1, <2>2
<1>9. f \in Surjection(1..i, below) /\ f \in Injection(1..i, below)
  <2>1. f \in [1..i -> below]
    BY <1>4, <1>6
  <2> QED
    BY <1>7, <1>8, <2>1 DEF Surjection, Injection, IsInjective
<1>10. IsFiniteSet(1..i) /\ Cardinality(1..i) = i
  BY <1>1, FS_Interval
<1>11. Cardinality(below) = i
  BY <1>9, <1>10, FS_Surjection
<1>12. Position(w, grain, s[i]) = Cardinality(below)
  BY <1>3, Zenon DEF Position, BucketsOf
<1> QED
  BY <1>11, <1>12

(* A day the calendar has: of a month, and before a later one. *)
InCalendar(d) == d \in Int /\ (\E m \in MonthFirsts : m <= d) /\ (\E n \in MonthFirsts : d < n)

(* A window of such days. *)
OfCalendar(w) ==
    w.from \in Int /\ w.to \in Int /\ w.from < w.to /\ \A d \in w.from..(w.to - 1) : InCalendar(d)

(* Its days have buckets of every grain. *)
LEMMA CalendarHasGrains ==
    ASSUME NEW w, OfCalendar(w), NEW grain
    PROVE  InHorizon(w, grain)
BY DEF OfCalendar, InCalendar, InHorizon, OnGrain

(* The days between two days of the calendar are of it. *)
LEMMA DaysBetween ==
    ASSUME NEW a, InCalendar(a), NEW b, InCalendar(b), NEW d \in Int, a <= d, d <= b
    PROVE  InCalendar(d)
<1>1. \A m \in MonthFirsts : m \in Int
  BY CalendarAssumption
<1>2. a \in Int /\ b \in Int
  BY DEF InCalendar
<1>3. \E m \in MonthFirsts : m <= d
  BY <1>1, <1>2 DEF InCalendar
<1>4. \E n \in MonthFirsts : d < n
  BY <1>1, <1>2 DEF InCalendar
<1> QED
  BY <1>3, <1>4 DEF InCalendar

(* The first month of the calendar is not before day 0. *)
LEMMA DaysAreNumbers ==
    ASSUME NEW d, InCalendar(d)
    PROVE  d \in Nat
<1>1. PICK m \in MonthFirsts : m <= d
  BY DEF InCalendar
<1>2. m \in Nat
  BY CalendarAssumption
<1> QED
  BY <1>1, <1>2 DEF InCalendar

(* The days of a history are finitely many days of the calendar. *)
LEMMA DaysOfRows ==
    ASSUME NEW h, NEW D, D = {r.day : r \in RowsOf(h)}
    PROVE  IsFiniteSet(D) /\ \A d \in D : InCalendar(d)
<1>1. \A d \in D : \E g \in Grains : d = g.day
  BY RowIsOfAGrain
<1>2. PICK f : f = [g \in Grains |-> g.day]
  OBVIOUS
<1>3. \A d \in D : \E g \in Grains : d = f[g]
  BY <1>1, <1>2
<1>4. IsFiniteSet(D)
  <2>1. IsFiniteSet(Grains)
    BY ReportConstants
  <2> QED
    BY <1>3, <2>1, FiniteImage
<1>5. \A d \in D : InCalendar(d)
  BY <1>1, DaysHaveMonths DEF InCalendar
<1> QED
  BY <1>4, <1>5

(* published_day_bounds: the first and the last of them. *)
LEMMA BoundsAre ==
    ASSUME NEW h, RowsOf(h) # {}, NEW bounds, bounds = PublishedDayBounds(RowsOf(h))
    PROVE  InCalendar(bounds.min) /\ InCalendar(bounds.max) /\ bounds.min <= bounds.max
<1>1. PICK D : D = {r.day : r \in RowsOf(h)}
  OBVIOUS
<1>2. IsFiniteSet(D) /\ D # {} /\ \A d \in D : InCalendar(d) /\ d \in Nat /\ d \in Int
  BY <1>1, DaysOfRows, DaysAreNumbers
<1>3. \E x \in D : \A y \in D : x <= y
  <2>1. D \subseteq Nat
    BY <1>2
  <2> QED
    BY <1>2, <2>1, LeastOfNumbers
<1>4. \E x \in D : \A y \in D : x >= y
  <2>1. PICK x \in D : \A y \in D : y <= x
    BY <1>2, GreatestOfFinite
  <2>2. \A y \in D : x >= y
    BY <1>2, <2>1
  <2> QED
    BY <2>2
<1>5. Min(D) \in D /\ \A y \in D : Min(D) <= y
  BY <1>3 DEF Min
<1>6. Max(D) \in D
  BY <1>4 DEF Max
<1>7. bounds.min = Min(D) /\ bounds.max = Max(D)
  BY <1>1 DEF PublishedDayBounds
<1> QED
  BY <1>2, <1>5, <1>6, <1>7

(* The published months. *)
LEMMA MonthsAre ==
    ASSUME NEW h, NEW months, months = ListPublishedMonthStarts(RowsOf(h))
    PROVE  /\ IsFiniteSet(months) /\ (RowsOf(h) # {} => months # {})
           /\ \A m \in months : m \in MonthFirsts /\ InCalendar(m)
<1>1. PICK D : D = {r.day : r \in RowsOf(h)}
  OBVIOUS
<1>2. IsFiniteSet(D) /\ \A d \in D : InCalendar(d)
  BY <1>1, DaysOfRows
<1>3. \A m \in months : \E d \in D : m = MonthOf(d)
  BY <1>1 DEF ListPublishedMonthStarts
<1>4. IsFiniteSet(months)
  <2>1. PICK f : f = [d \in D |-> MonthOf(d)]
    OBVIOUS
  <2>2. \A m \in months : \E d \in D : m = f[d]
    BY <1>3, <2>1
  <2> QED
    BY <1>2, <2>2, FiniteImage
<1>5. ASSUME NEW m \in months PROVE m \in MonthFirsts /\ InCalendar(m)
  <2>1. PICK d \in D : m = MonthOf(d)
    BY <1>3
  <2>2. d \in Int /\ (\E n \in MonthFirsts : n <= d) /\ \E n \in MonthFirsts : d < n
    BY <1>2, <2>1 DEF InCalendar
  <2>3. m \in MonthFirsts /\ m <= d
    BY <2>1, <2>2, MonthOfDay
  <2>4. \A n \in MonthFirsts : n \in Int
    BY CalendarAssumption
  <2>5. m <= m /\ m \in Int
    BY <2>3, <2>4
  <2>6. \E n \in MonthFirsts : m < n
    BY <2>2, <2>3, <2>4
  <2> QED
    BY <2>3, <2>5, <2>6 DEF InCalendar
<1>6. RowsOf(h) # {} => months # {}
  BY DEF ListPublishedMonthStarts
<1> QED
  BY <1>4, <1>5, <1>6

(* A month that is not the last is a window of the calendar. *)
LEMMA MonthsAreOfCalendar ==
    ASSUME NEW m \in MonthFirsts, InCalendar(m)
    PROVE  OfCalendar(MonthWindow(m))
<1>1. \A n \in MonthFirsts : n \in Int
  BY CalendarAssumption
<1>2. m \in Int /\ m <= m /\ \E n \in MonthFirsts : n > m
  <2>1. m \in Int
    BY DEF InCalendar
  <2>2. PICK n \in MonthFirsts : m < n
    BY DEF InCalendar
  <2>3. n > m
    BY <1>1, <2>1, <2>2
  <2> QED
    BY <2>1, <2>3
<1>3. MonthOf(m) = m
  <2>1. /\ MonthOf(m) \in MonthFirsts /\ MonthOf(m) <= m /\ m <= MonthOf(m)
    BY <1>2, MonthOfDay
  <2>2. MonthOf(m) \in Int
    BY <1>1, <2>1
  <2> QED
    BY <1>2, <2>1, <2>2
<1>4. PICK e : e = AddCalendarMonth(m)
  OBVIOUS
<1>5. e \in MonthFirsts /\ e > m
  BY <1>2, <1>4, NextMonth
<1>6. e \in Int /\ m < e
  BY <1>1, <1>2, <1>5
<1>7. ASSUME NEW d \in m..(e - 1) PROVE InCalendar(d)
  <2>1. d \in Int /\ m <= d /\ d < e
    BY <1>2, <1>6
  <2> QED
    BY <1>5, <2>1 DEF InCalendar
<1>8. MonthWindow(m).from = m /\ MonthWindow(m).to = e
  BY <1>3, <1>4 DEF MonthWindow, Window
<1> QED
  BY <1>2, <1>6, <1>7, <1>8 DEF OfCalendar

(* The bounds of a history. *)
AreBounds(b) == InCalendar(b.min) /\ InCalendar(b.max) /\ b.min <= b.max

(* A range is clipped to them, or refused. *)
LEMMA RangesAreOfCalendar ==
    ASSUME NEW bounds, AreBounds(bounds), NEW from \in Int, NEW to \in Int,
           NEW w, w = ClippedRange(from, to, bounds), w # Refused
    PROVE  OfCalendar(w) /\ OfCalendar([w EXCEPT !.grain = "range"])
<1>1. PICK lo, hi, start, last :
        /\ lo = bounds.min /\ hi = bounds.max
        /\ start = Clip(from, lo, hi) /\ last = Clip(to, lo, hi)
  OBVIOUS
<1>2. InCalendar(lo) /\ InCalendar(hi) /\ lo \in Int /\ hi \in Int /\ lo <= hi
  BY <1>1 DEF AreBounds, InCalendar
<1>3. start \in Int /\ lo <= start /\ start <= hi /\ last \in Int /\ lo <= last /\ last <= hi
  BY <1>1, <1>2 DEF Clip
<1>4. ~(last < start) /\ w = RangeWindow(start, last)
  BY <1>1 DEF ClippedRange
<1>5. \E grain, month : w = [grain |-> grain, from |-> start, to |-> last + 1, month |-> month]
  BY <1>4 DEF RangeWindow, Window
<1>6. ASSUME NEW d \in start..((last + 1) - 1) PROVE InCalendar(d)
  <2>1. d \in Int /\ lo <= d /\ d <= hi
    BY <1>2, <1>3
  <2> QED
    BY <1>2, <2>1, DaysBetween
<1>7. w.from = start /\ w.to = last + 1
  BY <1>5
<1>8. [w EXCEPT !.grain = "range"].from = start /\ [w EXCEPT !.grain = "range"].to = last + 1
  BY <1>5
<1> QED
  BY <1>3, <1>4, <1>6, <1>7, <1>8 DEF OfCalendar

(* resolve_period: a window of the calendar, or a refusal. *)
LEMMA PeriodsAreOfCalendar ==
    ASSUME NEW h, RowsOf(h) # {}, NEW r, AsksForDays(r),
           NEW months, months = ListPublishedMonthStarts(RowsOf(h)),
           NEW bounds, bounds = PublishedDayBounds(RowsOf(h)),
           NEW w, w = ResolvePeriod(months, bounds, r), w # Refused
    PROVE  OfCalendar(w)
<1>1. AreBounds(bounds)
  BY BoundsAre DEF AreBounds
<1>2. /\ IsFiniteSet(months) /\ months # {}
      /\ \A m \in months : m \in MonthFirsts /\ InCalendar(m) /\ m \in Int
  BY MonthsAre DEF InCalendar
<1>3. \A m \in months : OfCalendar(MonthWindow(m))
  BY <1>2, MonthsAreOfCalendar
<1>4. CASE r.period = "all_history"
  <2>1. PICK lo, hi : lo = bounds.min /\ hi = bounds.max
    OBVIOUS
  <2>2. InCalendar(lo) /\ InCalendar(hi) /\ lo \in Int /\ hi \in Int /\ lo <= hi
    BY <1>1, <2>1 DEF AreBounds, InCalendar
  <2>3. ASSUME NEW d \in lo..((hi + 1) - 1) PROVE InCalendar(d)
    <3>1. d \in Int /\ lo <= d /\ d <= hi
      BY <2>2
    <3> QED
      BY <2>2, <3>1, DaysBetween
  <2>4. w = Window("all_history", lo, hi + 1, None)
    <3>1. w = Window("all_history", bounds.min, bounds.max + 1, None)
      BY <1>4 DEF ResolvePeriod
    <3> QED
      BY <2>1, <3>1
  <2>5. w.from = lo /\ w.to = hi + 1
    BY <2>4 DEF Window
  <2> QED
    BY <2>2, <2>3, <2>5 DEF OfCalendar
<1>5. CASE /\ r.period # "all_history"
           /\ AsksForARange(r)
  <2>1. w = IF r.from = None \/ r.to = None THEN Refused
            ELSE IF r.period = "range" THEN AsRange(ClippedRange(r.from, r.to, bounds))
            ELSE ClippedRange(r.from, r.to, bounds)
    BY <1>5 DEF ResolvePeriod
  <2>2. r.from \in Int /\ r.to \in Int
    BY <2>1 DEF AsksForDays
  <2>3. PICK v : v = ClippedRange(r.from, r.to, bounds)
    OBVIOUS
  <2>4. v # Refused
    BY <2>1, <2>3 DEF AsRange
  <2>5. OfCalendar(v) /\ OfCalendar([v EXCEPT !.grain = "range"])
    BY <1>1, <2>2, <2>3, <2>4, RangesAreOfCalendar
  <2>6. w = v \/ w = [v EXCEPT !.grain = "range"]
    BY <2>1, <2>3 DEF AsRange
  <2> QED
    BY <2>5, <2>6
<1>6. CASE /\ r.period # "all_history"
           /\ ~AsksForARange(r)
           /\ r.month # None
  <2>1. w = IF r.month \in months THEN MonthWindow(r.month) ELSE Refused
    BY <1>6 DEF ResolvePeriod
  <2> QED
    BY <1>3, <2>1
<1>7. CASE /\ r.period # "all_history"
           /\ ~AsksForARange(r)
           /\ r.month = None
  <2>1. w = MonthWindow(Max(months))
    BY <1>7 DEF ResolvePeriod
  <2>2. PICK x \in months : \A y \in months : y <= x
    BY <1>2, GreatestOfFinite
  <2>3. \A y \in months : x >= y
    BY <1>2, <2>2
  <2>4. Max(months) \in months
    BY <2>3 DEF Max
  <2> QED
    BY <1>3, <2>1, <2>4
<1> QED
  BY <1>4, <1>5, <1>6, <1>7

(* _latest_and_prior: a published month, or none. *)
LEMMA PriorIsPublished ==
    ASSUME NEW months, IsFiniteSet(months), \A m \in months : m \in Int, NEW m
    PROVE  LatestAndPrior(months, m) = None \/ LatestAndPrior(months, m) \in months
<1>1. PICK earlier : earlier = {n \in months : n < m}
  OBVIOUS
<1>2. CASE m \notin months \/ earlier = {}
  BY <1>1, <1>2 DEF LatestAndPrior
<1>3. CASE ~(m \notin months \/ earlier = {})
  <2>1. IsFiniteSet(earlier) /\ earlier \subseteq months /\ \A x \in earlier : x \in Int
    BY <1>1, FS_Subset
  <2>2. PICK x \in earlier : \A y \in earlier : y <= x
    BY <1>3, <2>1, GreatestOfFinite
  <2>3. \A y \in earlier : x >= y
    BY <2>1, <2>2
  <2>4. Max(earlier) \in earlier
    BY <2>3 DEF Max
  <2> QED
    BY <1>1, <1>3, <2>1, <2>4 DEF LatestAndPrior
<1> QED
  BY <1>2, <1>3

(* resolve_comparison: a window of the calendar, a refusal, or nothing. *)
LEMMA ComparisonsAreOfCalendar ==
    ASSUME NEW h, RowsOf(h) # {}, NEW r, AsksForDays(r),
           NEW months, months = ListPublishedMonthStarts(RowsOf(h)),
           NEW bounds, bounds = PublishedDayBounds(RowsOf(h)), NEW w,
           NEW c, c = ResolveComparison(months, bounds, w, r), c # Refused, c # None
    PROVE  OfCalendar(c)
<1>1. AreBounds(bounds)
  BY BoundsAre DEF AreBounds
<1>2. /\ IsFiniteSet(months)
      /\ \A m \in months : m \in MonthFirsts /\ InCalendar(m) /\ m \in Int
  BY MonthsAre DEF InCalendar
<1>3. \A m \in months : OfCalendar(MonthWindow(m))
  BY <1>2, MonthsAreOfCalendar
<1>4. \A v : Differs(v, w) # Refused => Differs(v, w) = v /\ v # Refused
  BY DEF Differs
<1>5. CASE r.compare = "none"
  BY <1>5 DEF ResolveComparison
<1>6. CASE r.compare # "none" /\ r.compare_month # None
  <2>1. c = IF r.compare_month \in months THEN Differs(MonthWindow(r.compare_month), w) ELSE Refused
    BY <1>6 DEF ResolveComparison
  <2> QED
    BY <1>3, <1>4, <2>1
<1>7. CASE r.compare # "none" /\ r.compare_month = None /\ (r.compare_from # None \/ r.compare_to # None)
  <2>1. c = IF r.compare_from = None \/ r.compare_to = None THEN Refused
            ELSE Differs(AsRange(ClippedRange(r.compare_from, r.compare_to, bounds)), w)
    BY <1>7 DEF ResolveComparison
  <2>2. r.compare_from \in Int /\ r.compare_to \in Int
    BY <2>1 DEF AsksForDays
  <2>3. PICK v : v = ClippedRange(r.compare_from, r.compare_to, bounds)
    OBVIOUS
  <2>4. c = AsRange(v) /\ c # Refused
    BY <1>4, <2>1, <2>3
  <2>5. v # Refused /\ c = [v EXCEPT !.grain = "range"]
    BY <2>4 DEF AsRange
  <2> QED
    BY <1>1, <2>2, <2>3, <2>5, RangesAreOfCalendar
<1>8. CASE r.compare # "none" /\ r.compare_month = None /\ r.compare_from = None /\ r.compare_to = None
  <2>1. PICK prior : prior = LatestAndPrior(months, w.month)
    OBVIOUS
  <2>2. c = IF w.grain # "month" \/ prior = None THEN None ELSE MonthWindow(prior)
    BY <1>8, <2>1 DEF ResolveComparison
  <2>3. prior = None \/ prior \in months
    BY <1>2, <2>1, PriorIsPublished
  <2> QED
    BY <1>3, <2>2, <2>3
<1> QED
  BY <1>5, <1>6, <1>7, <1>8

(* What may be asked asks for days. *)
LEMMA RequestsAskForDays == \A r \in Requests : AsksForDays(r)
<1>1. \A ask \in Asks : AsksForDays(ask.request)
  BY NamesAreKnown
<1>2. \A a \in Questions : AsksForDays(a.request)
  BY NamesAreKnown
<1>3. ASSUME NEW r, AsksForDays(r) PROVE AsksForDays(WithoutComparison(r))
  <2>1. PICK w : w = WithoutComparison(r)
    OBVIOUS
  <2>2. {"from", "to", "compare_from", "compare_to"} \subseteq DOMAIN r
    BY <1>3 DEF AsksForDays
  <2>3. DOMAIN w = DOMAIN r
    BY <2>1 DEF WithoutComparison
  <2>4. w.from = r.from /\ w.to = r.to /\ w.compare_from = None /\ w.compare_to = None
    BY <2>1, <2>2 DEF WithoutComparison
  <2>5. {w.from, w.to, w.compare_from, w.compare_to} \subseteq Int \cup {None}
    BY <1>3, <2>4 DEF AsksForDays
  <2> QED
    BY <2>1, <2>2, <2>3, <2>5 DEF AsksForDays
<1> QED
  BY <1>1, <1>2, <1>3 DEF Requests

(* The windows of a resolved scope are of the calendar. *)
LEMMA ScopesAreOfCalendar ==
    ASSUME NEW h, NEW r \in Requests, NEW sc, sc = ScopeFor(r, h), sc # NoScope, sc # Refused
    PROVE  OfCalendar(sc.window) /\ (sc.compare # None => OfCalendar(sc.compare))
<1>1. PICK rows, months, bounds : rows = RowsOf(h) /\ months = ListPublishedMonthStarts(rows)
                                  /\ bounds = PublishedDayBounds(rows)
  OBVIOUS
<1>2. PICK w : w = ResolvePeriod(months, bounds, r)
  OBVIOUS
<1>3. PICK c : c = ResolveComparison(months, bounds, w, r)
  OBVIOUS
<1>4. rows # {} /\ w # Refused /\ c # Refused
  BY <1>1, <1>2, <1>3 DEF ScopeFor, ResolveScope, ResolvedScope, ScopeIn, ScopeOf
<1>5. sc.window = w /\ sc.compare = c
  BY <1>1, <1>2, <1>3, <1>4 DEF ScopeFor, ResolveScope, ResolvedScope, ScopeIn, ScopeOf
<1>6. AsksForDays(r)
  BY RequestsAskForDays
<1>7. OfCalendar(w)
  BY <1>1, <1>2, <1>4, <1>6, PeriodsAreOfCalendar
<1>8. c # None => OfCalendar(c)
  BY <1>1, <1>3, <1>4, <1>6, ComparisonsAreOfCalendar
<1> QED
  BY <1>5, <1>7, <1>8

(* The rows of a bucket, and of a bucket and a series. *)
Bucketed(rows, grain, b) == {r \in rows : BucketStart(r.day, grain) = b}
CellOf(rows, grain, kf, b, k) == {r \in rows : BucketStart(r.day, grain) = b /\ kf[r] = k}

(* What list_published_history_series returns of some rows: a row for every *)
(* bucket and series that has rows, with their sums and their count.        *)
HoldsCells(S, rows, grain, kf) ==
    /\ \A x \in S : /\ x.measures = SumAdditiveMeasures(CellOf(rows, grain, kf, x.bucket, x.key))
                    /\ x.count = Cardinality(CellOf(rows, grain, kf, x.bucket, x.key))
    /\ \A x \in S : \E r \in rows : x.bucket = BucketStart(r.day, grain) /\ x.key = kf[r]
    /\ \A r \in rows : \E x \in S : x.bucket = BucketStart(r.day, grain) /\ x.key = kf[r]

(* Without a breakdown, of one series. *)
LEMMA TotalsHoldCells ==
    ASSUME NEW rows, NEW w, NEW f, NEW grain, NEW kf, \A r \in In(rows, w, f) : kf[r] = None
    PROVE  HoldsCells(TotalSeries(rows, w, f, grain), In(rows, w, f), grain, kf)
<1>1. PICK found, S : found = In(rows, w, f) /\ S = TotalSeries(rows, w, f, grain)
  OBVIOUS
<1> DEFINE Of(b) == [bucket |-> b, key |-> None, measures |-> SumAdditiveMeasures(Bucketed(found, grain, b)),
                     count |-> Cardinality(Bucketed(found, grain, b))]
<1>2. S = {Of(b) : b \in {BucketStart(r.day, grain) : r \in found}}
  BY <1>1, Zenon DEF TotalSeries, Totals, Bucketed
<1>3. \A b : /\ Of(b).bucket = b /\ Of(b).key = None
             /\ Of(b).measures = SumAdditiveMeasures(Bucketed(found, grain, b))
             /\ Of(b).count = Cardinality(Bucketed(found, grain, b))
  OBVIOUS
<1> HIDE DEF Of
<1>4. \A x \in S : \E r \in found : x = Of(BucketStart(r.day, grain))
  BY <1>2
<1>5. \A r \in found : Of(BucketStart(r.day, grain)) \in S
  BY <1>2
<1>6. \A b : CellOf(found, grain, kf, b, None) = Bucketed(found, grain, b)
  BY <1>1 DEF CellOf, Bucketed
<1>7. ASSUME NEW x \in S
      PROVE  /\ x.measures = SumAdditiveMeasures(CellOf(found, grain, kf, x.bucket, x.key))
             /\ x.count = Cardinality(CellOf(found, grain, kf, x.bucket, x.key))
             /\ \E r \in found : x.bucket = BucketStart(r.day, grain) /\ x.key = kf[r]
  <2>1. PICK r \in found : x = Of(BucketStart(r.day, grain))
    BY <1>4
  <2>2. PICK b : b = BucketStart(r.day, grain)
    OBVIOUS
  <2>3. x.bucket = b /\ x.key = None /\ kf[r] = None
    BY <1>1, <1>3, <2>1, <2>2
  <2>4. CellOf(found, grain, kf, x.bucket, x.key) = Bucketed(found, grain, b)
    BY <1>6, <2>3
  <2> QED
    BY <1>3, <2>1, <2>2, <2>3, <2>4
<1>8. ASSUME NEW r \in found PROVE \E x \in S : x.bucket = BucketStart(r.day, grain) /\ x.key = kf[r]
  BY <1>1, <1>3, <1>5
<1> QED
  BY <1>1, <1>7, <1>8 DEF HoldsCells

(* With a breakdown, of the series it gathers. *)
LEMMA SeriesHoldCells ==
    ASSUME NEW rows, NEW w, NEW f, NEW grain, NEW d, NEW rank, NEW cap
    PROVE  \E kf : HoldsCells(Series(rows, w, f, grain, d, rank, cap), In(rows, w, f), grain, kf)
<1>1. PICK found, S, kept : /\ found = In(rows, w, f) /\ S = Series(rows, w, f, grain, d, rank, cap)
                            /\ kept = TopKeys(Groups(rows, w, f, d), rank, cap)
  OBVIOUS
<1> DEFINE SeriesOf(r) == IF KeyOf(r, d) \in kept THEN KeyOf(r, d) ELSE OtherKey
           Part(k) == {r \in found : <<BucketStart(r.day, grain), SeriesOf(r)>> = k}
           Of(k) == [bucket |-> k[1], key |-> k[2], measures |-> SumAdditiveMeasures(Part(k)),
                     count |-> Cardinality(Part(k))]
<1>2. S = {Of(k) : k \in {<<BucketStart(r.day, grain), SeriesOf(r)>> : r \in found}}
  BY <1>1, Zenon DEF Series, Totals
<1>3. PICK kf : kf = [r \in found |-> SeriesOf(r)]
  OBVIOUS
<1>4. \A r \in found : kf[r] = SeriesOf(r)
  BY <1>3
<1>5. ASSUME NEW b, NEW s PROVE Part(<<b, s>>) = CellOf(found, grain, kf, b, s)
  <2>1. \A r \in found : <<BucketStart(r.day, grain), SeriesOf(r)>> = <<b, s>>
                           <=> BucketStart(r.day, grain) = b /\ kf[r] = s
    BY <1>4
  <2> HIDE DEF SeriesOf
  <2> QED
    BY <2>1 DEF CellOf
<1>6. \A k : /\ Of(k).bucket = k[1] /\ Of(k).key = k[2] /\ Of(k).measures = SumAdditiveMeasures(Part(k))
             /\ Of(k).count = Cardinality(Part(k))
  OBVIOUS
<1> HIDE DEF Part, Of
<1>7. \A x \in S : \E r \in found : x = Of(<<BucketStart(r.day, grain), SeriesOf(r)>>)
  BY <1>2
<1>8. \A r \in found : Of(<<BucketStart(r.day, grain), SeriesOf(r)>>) \in S
  BY <1>2
<1> HIDE DEF SeriesOf
<1>9. ASSUME NEW x \in S
      PROVE  /\ x.measures = SumAdditiveMeasures(CellOf(found, grain, kf, x.bucket, x.key))
             /\ x.count = Cardinality(CellOf(found, grain, kf, x.bucket, x.key))
             /\ \E r \in found : x.bucket = BucketStart(r.day, grain) /\ x.key = kf[r]
  <2>1. PICK r \in found : x = Of(<<BucketStart(r.day, grain), SeriesOf(r)>>)
    BY <1>7
  <2>2. PICK b, s, k : b = BucketStart(r.day, grain) /\ s = SeriesOf(r) /\ k = <<b, s>>
    OBVIOUS
  <2>3. x = Of(k) /\ k[1] = b /\ k[2] = s
    BY <2>1, <2>2
  <2>4. x.bucket = b /\ x.key = s /\ x.measures = SumAdditiveMeasures(Part(k)) /\ x.count = Cardinality(Part(k))
    BY <1>6, <2>3
  <2>5. Part(k) = CellOf(found, grain, kf, b, s)
    BY <1>5, <2>2
  <2>6. kf[r] = s
    BY <1>4, <2>2
  <2> QED
    BY <2>2, <2>4, <2>5, <2>6
<1>10. ASSUME NEW r \in found PROVE \E x \in S : x.bucket = BucketStart(r.day, grain) /\ x.key = kf[r]
  <2>1. PICK k : k = <<BucketStart(r.day, grain), SeriesOf(r)>>
    OBVIOUS
  <2>2. Of(k) \in S /\ Of(k).bucket = BucketStart(r.day, grain) /\ Of(k).key = SeriesOf(r)
    BY <1>6, <1>8, <2>1
  <2> QED
    BY <1>4, <2>2
<1>11. HoldsCells(S, found, grain, kf)
  BY <1>9, <1>10 DEF HoldsCells
<1> QED
  BY <1>1, <1>11

(* The sums of no rows are absent. *)
LEMMA SumsOfNone == SumAdditiveMeasures({}) = NoMeasures /\ Cardinality({}) = 0
<1>1. \A m : SumMeasure({}, m) = NULL
  BY DEF SumMeasure
<1> QED
  BY <1>1, FS_EmptySet DEF SumAdditiveMeasures, NoMeasures

(* What a trend finds at a bucket of a series is what its rows add up to, when *)
(* it has none too.                                                            *)
LEMMA CellsAreFound ==
    ASSUME NEW S, NEW rows, NEW grain, NEW kf, HoldsCells(S, rows, grain, kf), NEW b, NEW k
    PROVE  /\ At(S, k, b).measures = SumAdditiveMeasures(CellOf(rows, grain, kf, b, k))
           /\ At(S, k, b).count = Cardinality(CellOf(rows, grain, kf, b, k))
<1>1. PICK found, cell, own : /\ found = {r \in S : r.key = k /\ r.bucket = b} /\ cell = At(S, k, b)
                              /\ own = CellOf(rows, grain, kf, b, k)
  OBVIOUS
<1>2. CASE found = {}
  <2>1. cell = [measures |-> NoMeasures, count |-> 0]
    BY <1>1, <1>2 DEF At
  <2>2. own = {}
    <3> SUFFICES ASSUME NEW r \in own PROVE FALSE
      OBVIOUS
    <3>1. r \in rows /\ BucketStart(r.day, grain) = b /\ kf[r] = k
      BY <1>1 DEF CellOf
    <3>2. PICK x \in S : x.bucket = b /\ x.key = k
      BY <3>1 DEF HoldsCells
    <3> QED
      BY <1>1, <1>2, <3>2
  <2>3. cell.measures = NoMeasures /\ cell.count = 0
    BY <2>1
  <2> QED
    BY <1>1, <2>2, <2>3, SumsOfNone
<1>3. CASE found # {}
  <2>1. cell = CHOOSE r \in found : TRUE
    BY <1>1, <1>3 DEF At
  <2>2. cell \in S /\ cell.key = k /\ cell.bucket = b
    BY <1>1, <1>3, <2>1
  <2> QED
    BY <1>1, <2>2 DEF HoldsCells
<1> QED
  BY <1>2, <1>3

(* The read behind a trend, with the series of each row it found. *)
LEMMA TrendsHoldCells ==
    ASSUME NEW rows, NEW w, NEW f, NEW grain, NEW d, NEW metric
    PROVE  \E kf : /\ HoldsCells(TrendSeries(rows, w, f, grain, d, metric), In(rows, w, f), grain, kf)
                   /\ d = None => \A r \in In(rows, w, f) : kf[r] = None
<1>1. CASE d = None
  <2>1. PICK kf : kf = [r \in In(rows, w, f) |-> None]
    OBVIOUS
  <2>2. \A r \in In(rows, w, f) : kf[r] = None
    BY <2>1
  <2>3. HoldsCells(TotalSeries(rows, w, f, grain), In(rows, w, f), grain, kf)
    BY <2>2, TotalsHoldCells
  <2> QED
    BY <1>1, <2>2, <2>3 DEF TrendSeries
<1>2. CASE d # None
  BY <1>2, SeriesHoldCells DEF TrendSeries
<1> QED
  BY <1>1, <1>2

(* The series of a trend: one without a key when nothing was read. *)
SeriesKeys(S) == IF S = {} THEN {None} ELSE {x.key : x \in S}

PointsOf(A, b) == {p \in A : p.bucket = b}

(* The points of a trend: one for every series and bucket of a list, with what *)
(* was found there.                                                            *)
ArePoints(A, S, metric, bs) ==
    /\ IsFiniteSet(A)
    /\ \A p \in A : /\ p.key \in SeriesKeys(S) /\ \E i \in DOMAIN bs : p.bucket = bs[i]
                    /\ p.value = Pick(metric, At(S, p.key, p.bucket).measures)
                    /\ p.count = At(S, p.key, p.bucket).count
    /\ \A k \in SeriesKeys(S), i \in DOMAIN bs : \E p \in A : p.key = k /\ p.bucket = bs[i]
    /\ \A p, x \in A : p.key = x.key /\ p.bucket = x.bucket => p = x

(* Beside what was found at the same place of another list. *)
PriorsAre(A, metric, bs, compared, before) ==
    \A p \in A, i \in DOMAIN bs : p.bucket = bs[i] =>
        p.prior = IF i \in DOMAIN before THEN Pick(metric, At(compared, None, before[i]).measures) ELSE NULL

(* The points a trend is given are such points, beside such priors. *)
LEMMA TrendPointsAre ==
    ASSUME NEW metric, NEW S, IsFiniteSet(SeriesKeys(S)), NEW compared, NEW w, NEW c, NEW grain,
           NEW bs, bs = IterBuckets(w.from, w.to, grain), InOrder(bs, w, grain),
           NEW before, before = IF c = None THEN <<>> ELSE IterBuckets(c.from, c.to, grain),
           NEW A, A = TrendPoints(metric, S, compared, w, c, grain)
    PROVE  ArePoints(A, S, metric, bs) /\ PriorsAre(A, metric, bs, compared, before)
<1> DEFINE Prior(i) == IF i \in DOMAIN before THEN Pick(metric, At(compared, None, before[i]).measures) ELSE NULL
           Point(k, i) == [key |-> k, bucket |-> bs[i], value |-> Pick(metric, At(S, k, bs[i]).measures),
                           prior |-> Prior(i), count |-> At(S, k, bs[i]).count]
<1>1. PICK keys : keys = SeriesKeys(S)
  OBVIOUS
<1>2. A = {Point(k, i) : k \in keys, i \in DOMAIN bs}
  <2> DEFINE list  == IterBuckets(w.from, w.to, grain)
             other == IF c = None THEN <<>> ELSE IterBuckets(c.from, c.to, grain)
             ks    == IF S = {} THEN {None} ELSE {r.key : r \in S}
             Was(i) == IF i \in DOMAIN other THEN Pick(metric, At(compared, None, other[i]).measures) ELSE NULL
  <2>1. A = {[key |-> k, bucket |-> list[i], value |-> Pick(metric, At(S, k, list[i]).measures),
              prior |-> Was(i), count |-> At(S, k, list[i]).count] : k \in ks, i \in DOMAIN list}
    BY DEF TrendPoints
  <2>2. list = bs /\ other = before /\ ks = keys
    BY <1>1 DEF SeriesKeys
  <2>3. \A i : Was(i) = Prior(i)
    BY <2>2
  <2> HIDE DEF list, other, ks, Was
  <2>4. A = {[key |-> k, bucket |-> bs[i], value |-> Pick(metric, At(S, k, bs[i]).measures),
              prior |-> Was(i), count |-> At(S, k, bs[i]).count] : k \in keys, i \in DOMAIN bs}
    BY <2>1, <2>2
  <2> HIDE DEF Prior
  <2> QED
    BY <2>3, <2>4
<1>3. \A k, i : /\ Point(k, i).key = k /\ Point(k, i).bucket = bs[i]
                /\ Point(k, i).value = Pick(metric, At(S, k, bs[i]).measures)
                /\ Point(k, i).prior = Prior(i) /\ Point(k, i).count = At(S, k, bs[i]).count
  OBVIOUS
<1> HIDE DEF Point
<1>4. \A p \in A : \E k \in keys : \E i \in DOMAIN bs : p = Point(k, i)
  BY <1>2
<1>5. \A k \in keys, i \in DOMAIN bs : Point(k, i) \in A
  BY <1>2
<1> HIDE DEF Prior
<1>6. \A i, j \in DOMAIN bs : bs[i] = bs[j] => i = j
  <2>1. DOMAIN bs = 1..Len(bs) /\ Len(bs) \in Nat /\ \A i \in DOMAIN bs : bs[i] \in Int
    BY DEF InOrder
  <2> SUFFICES ASSUME NEW i \in DOMAIN bs, NEW j \in DOMAIN bs, bs[i] = bs[j], i # j PROVE FALSE
    OBVIOUS
  <2>2. i \in Int /\ j \in Int /\ (i < j \/ j < i)
    BY <2>1
  <2>3. bs[i] < bs[j] \/ bs[j] < bs[i]
    BY <2>2 DEF InOrder
  <2> QED
    BY <2>1, <2>3
<1>7. IsFiniteSet(A)
  <2>1. IsFiniteSet(DOMAIN bs)
    <3>1. DOMAIN bs = 1..Len(bs) /\ Len(bs) \in Nat
      BY DEF InOrder
    <3> QED
      BY <3>1, FS_Interval
  <2>2. IsFiniteSet(keys \X DOMAIN bs)
    BY <1>1, <2>1, FS_Product
  <2>3. PICK f : f = [z \in keys \X DOMAIN bs |-> Point(z[1], z[2])]
    OBVIOUS
  <2>4. \A p \in A : \E z \in keys \X DOMAIN bs : p = f[z]
    <3> SUFFICES ASSUME NEW p \in A PROVE \E z \in keys \X DOMAIN bs : p = f[z]
      OBVIOUS
    <3>1. PICK k \in keys : \E i \in DOMAIN bs : p = Point(k, i)
      BY <1>4
    <3>2. PICK i \in DOMAIN bs : p = Point(k, i)
      BY <3>1
    <3>3. PICK z : z = <<k, i>>
      OBVIOUS
    <3>4. z \in keys \X DOMAIN bs /\ z[1] = k /\ z[2] = i
      BY <3>3
    <3> QED
      BY <2>3, <3>2, <3>4
  <2> QED
    BY <2>2, <2>4, FiniteImage
<1>8. ASSUME NEW p \in A
      PROVE  /\ p.key \in keys /\ \E i \in DOMAIN bs : p.bucket = bs[i]
             /\ p.value = Pick(metric, At(S, p.key, p.bucket).measures)
             /\ p.count = At(S, p.key, p.bucket).count
             /\ \A i \in DOMAIN bs : p.bucket = bs[i] => p = Point(p.key, i)
  <2>1. PICK k \in keys : \E i \in DOMAIN bs : p = Point(k, i)
    BY <1>4
  <2>2. PICK i \in DOMAIN bs : p = Point(k, i)
    BY <2>1
  <2>3. PICK b : b = bs[i]
    OBVIOUS
  <2>4. /\ p.key = k /\ p.bucket = b /\ p.value = Pick(metric, At(S, k, b).measures)
        /\ p.count = At(S, k, b).count
    BY <1>3, <2>2, <2>3
  <2>5. \A j \in DOMAIN bs : b = bs[j] => j = i
    BY <1>6, <2>3
  <2> QED
    BY <2>2, <2>3, <2>4, <2>5
<1>9. \A k \in keys, i \in DOMAIN bs : \E p \in A : p.key = k /\ p.bucket = bs[i]
  BY <1>3, <1>5
<1>10. \A p, x \in A : p.key = x.key /\ p.bucket = x.bucket => p = x
  BY <1>8
<1>11. PriorsAre(A, metric, bs, compared, before)
  <2> SUFFICES ASSUME NEW p \in A, NEW i \in DOMAIN bs, p.bucket = bs[i] PROVE p.prior = Prior(i)
    BY DEF PriorsAre, Prior
  <2>1. p = Point(p.key, i)
    BY <1>8
  <2> QED
    BY <1>3, <2>1
<1> QED
  BY <1>1, <1>7, <1>8, <1>9, <1>10, <1>11 DEF ArePoints

(* The points of a bucket add up to its rows. *)
AddsUpAt(K, rows, metric) ==
    /\ SumOf([p \in K |-> p.count]) = Cardinality(rows)
    /\ Metrics[metric].additive =>
        /\ SumOf([p \in K |-> Zero(p.value)]) = Zero(SumMeasure(rows, metric))
        /\ \A p \in K : p.value \in Int \cup {NULL}

(* What the points of a bucket count and add up to, for any facts. *)
LEMMA PointsAddUp ==
    ASSUME NEW h \in Slices, NEW rows, rows \subseteq RowsOf(h), NEW S, NEW grain, NEW kf,
           HoldsCells(S, rows, grain, kf), NEW metric \in DOMAIN Metrics, NEW A, NEW bs,
           ArePoints(A, S, metric, bs), NEW b, b \in {bs[i] : i \in DOMAIN bs}
    PROVE  AddsUpAt(PointsOf(A, b), Bucketed(rows, grain, b), metric)
<1>1. PICK K, own : K = PointsOf(A, b) /\ own = Bucketed(rows, grain, b)
  OBVIOUS
<1>2. PICK part : part = [p \in K |-> CellOf(rows, grain, kf, b, p.key)]
  OBVIOUS
<1>3. \A p \in K : part[p] = CellOf(rows, grain, kf, b, p.key)
  BY <1>2
<1>4. IsFiniteSet(K) /\ K \subseteq A /\ \A p \in K : p.bucket = b
  <2>1. K \subseteq A /\ \A p \in K : p.bucket = b
    BY <1>1 DEF PointsOf
  <2> QED
    BY <2>1, FS_Subset DEF ArePoints
<1>5. \A p \in K : part[p] \subseteq own
  BY <1>1, <1>3 DEF CellOf, Bucketed
<1>6. ASSUME NEW r \in own PROVE \E p \in K : r \in part[p]
  <2>1. r \in rows /\ BucketStart(r.day, grain) = b
    BY <1>1 DEF Bucketed
  <2>2. PICK x \in S : x.key = kf[r]
    BY <2>1 DEF HoldsCells
  <2>3. kf[r] \in SeriesKeys(S)
    BY <2>2 DEF SeriesKeys
  <2>4. PICK i \in DOMAIN bs : b = bs[i]
    OBVIOUS
  <2>5. PICK p \in A : p.key = kf[r] /\ p.bucket = bs[i]
    BY <2>3 DEF ArePoints
  <2>6. p \in K
    BY <1>1, <2>4, <2>5 DEF PointsOf
  <2>7. r \in CellOf(rows, grain, kf, b, p.key)
    BY <2>1, <2>5 DEF CellOf
  <2> QED
    BY <1>3, <2>6, <2>7
<1>7. ASSUME NEW p \in K, NEW x \in K, part[p] \cap part[x] # {} PROVE p = x
  <2>1. PICK r : r \in part[p] /\ r \in part[x]
    BY <1>7
  <2>2. kf[r] = p.key /\ kf[r] = x.key
    BY <1>3, <2>1 DEF CellOf
  <2>3. p \in A /\ x \in A /\ p.bucket = x.bucket /\ p.key = x.key
    BY <1>4, <2>2
  <2>4. \A y, z \in A : y.key = z.key /\ y.bucket = z.bucket => y = z
    BY DEF ArePoints
  <2> QED
    BY <2>3, <2>4
<1>8. ArePartsOf(part, K, own)
  BY <1>4, <1>5, <1>6, <1>7 DEF ArePartsOf
<1>9. own \subseteq RowsOf(h)
  BY <1>1 DEF Bucketed
<1>10. MakeUp(part, K, own)
  BY <1>8, <1>9, RowsAddUp
<1>11. ASSUME NEW p \in K
       PROVE  p.count = Cardinality(part[p]) /\ p.value = Pick(metric, SumAdditiveMeasures(part[p]))
  <2>1. p \in A /\ p.bucket = b
    BY <1>4
  <2>2. p.count = At(S, p.key, b).count /\ p.value = Pick(metric, At(S, p.key, b).measures)
    BY <2>1 DEF ArePoints
  <2> QED
    BY <1>3, <2>2, CellsAreFound
<1>12. SumOf([p \in K |-> p.count]) = Cardinality(own)
  <2>1. PICK c : c = [p \in K |-> p.count]
    OBVIOUS
  <2>2. DOMAIN c = K /\ \A p \in K : c[p] = Cardinality(part[p])
    BY <1>11, <2>1
  <2>3. SumIn(c, K) = Cardinality(own)
    BY <1>10, <2>2 DEF MakeUp
  <2> QED
    BY <2>1, <2>2, <2>3, SumIs
<1>13. ASSUME Metrics[metric].additive
       PROVE  /\ SumOf([p \in K |-> Zero(p.value)]) = Zero(SumMeasure(own, metric))
              /\ \A p \in K : p.value \in Int \cup {NULL}
  <2>1. metric \in AdditiveMeasures /\ \A measures : Pick(metric, measures) = measures[metric]
    BY <1>13, AdditiveMetrics
  <2>2. \A p \in K : p.value = SumMeasure(part[p], metric)
    BY <1>11, <2>1 DEF SumAdditiveMeasures
  <2>3. \A p \in K : p.value \in Int \cup {NULL}
    <3> SUFFICES ASSUME NEW p \in K PROVE p.value \in Int \cup {NULL}
      OBVIOUS
    <3>1. part[p] \subseteq RowsOf(h)
      BY <1>5, <1>9
    <3> QED
      BY <2>1, <2>2, <3>1, SumsAreNumbers
  <2>4. PICK v : v = [p \in K |-> Zero(p.value)]
    OBVIOUS
  <2>5. DOMAIN v = K /\ \A p \in K : v[p] = Zero(SumMeasure(part[p], metric))
    BY <2>2, <2>4
  <2>6. SumIn(v, K) = Zero(SumMeasure(own, metric))
    BY <1>10, <2>1, <2>5 DEF MakeUp
  <2> QED
    BY <2>3, <2>4, <2>5, <2>6, SumIs
<1> QED
  BY <1>1, <1>12, <1>13 DEF AddsUpAt

(* Negated values add up to the negated sum. *)
LEMMA SumNegated ==
    ASSUME NEW f, NEW g, NEW S, IsFiniteSet(S), \A x \in S : f[x] \in Int /\ g[x] = -f[x]
    PROVE  SumIn(g, S) = -SumIn(f, S)
<1> DEFINE C == {s \in SUBSET S : SumIn(g, s) # -SumIn(f, s)}
<1> SUFFICES ASSUME C # {} PROVE FALSE
  OBVIOUS
<1>1. PICK t \in C : \A u \in C : ~(u \subseteq t /\ u # t)
  <2>1. C \subseteq SUBSET S
    OBVIOUS
  <2> HIDE DEF C
  <2> QED
    BY <2>1, SmallestSet
<1>2. t \subseteq S /\ SumIn(g, t) # -SumIn(f, t)
  OBVIOUS
<1>3. \A u : u \subseteq t /\ u # t => SumIn(g, u) = -SumIn(f, u)
  BY <1>1, <1>2
<1> HIDE DEF C
<1>4. IsFiniteSet(t)
  BY <1>2, FS_Subset
<1>5. SumIn(f, t) = IF t = {} THEN 0 ELSE f[Some(t)] + SumIn(f, t \ {Some(t)})
  BY <1>4, SumStep
<1>6. SumIn(g, t) = IF t = {} THEN 0 ELSE g[Some(t)] + SumIn(g, t \ {Some(t)})
  BY <1>4, SumStep
<1>7. t # {}
  BY <1>2, <1>5, <1>6
<1>8. PICK u, e : u = t \ {Some(t)} /\ e = Some(t)
  OBVIOUS
<1>9. SumIn(g, u) = -SumIn(f, u) /\ g[e] = -f[e] /\ f[e] \in Int
  BY <1>2, <1>3, <1>7, <1>8, SomeIs
<1>10. SumIn(f, u) \in Int
  <2>1. IsFiniteSet(u) /\ \A x \in u : f[x] \in Int
    BY <1>2, <1>4, <1>8, FS_Subset
  <2> QED
    BY <2>1, SumIsInt
<1> QED
  BY <1>2, <1>5, <1>6, <1>7, <1>8, <1>9, <1>10

(* A quotient is that of the negated numbers. *)
LEMMA RoundingNegated ==
    ASSUME NEW n \in Int, NEW d \in Nat \ {0}
    PROVE  RoundHalfUp(n, -d) = RoundHalfUp(-n, d)
<1>1. PICK a, q : a = Abs(n) /\ q = (2 * a + d) \div (2 * d)
  OBVIOUS
<1>2. a \in Nat /\ Abs(-n) = a /\ Abs(d) = d /\ Abs(-d) = d
  BY <1>1 DEF Abs
<1>3. RoundHalfUp(n, -d) = IF (n < 0) = (-d < 0) THEN q ELSE -q
  BY <1>1, <1>2 DEF RoundHalfUp
<1>4. RoundHalfUp(-n, d) = IF (-n < 0) = (d < 0) THEN q ELSE -q
  BY <1>1, <1>2 DEF RoundHalfUp
<1>5. CASE n = 0
  <2>1. a = 0
    BY <1>1, <1>5 DEF Abs
  <2>2. q \in Int
    BY <1>1, <1>2
  <2>3. (2 * d) * q <= d /\ d < (2 * d) * (q + 1)
    BY <1>1, <1>2, <2>1
  <2>4. PICK z : z = d * q
    OBVIOUS
  <2>5. z \in Int /\ (2 * d) * q = 2 * z /\ (2 * d) * (q + 1) = 2 * z + 2 * d
    BY <2>2, <2>4
  <2>6. 2 * z <= d /\ d < 2 * z + 2 * d
    BY <2>3, <2>5
  <2>7. ~(1 <= q)
    <3> SUFFICES ASSUME 1 <= q PROVE FALSE
      OBVIOUS
    <3>1. 1 * d <= q * d
      BY <2>2, ProductsKeepOrder
    <3>2. d <= z
      BY <2>2, <2>4, <3>1
    <3> QED
      BY <2>5, <2>6, <3>2
  <2>8. ~(q <= -1)
    <3> SUFFICES ASSUME q <= -1 PROVE FALSE
      OBVIOUS
    <3>1. q * d <= (-1) * d
      BY <2>2, ProductsKeepOrder
    <3>2. z <= -d
      BY <2>2, <2>4, <3>1
    <3> QED
      BY <2>5, <2>6, <3>2
  <2>9. q = 0
    BY <2>2, <2>7, <2>8
  <2> QED
    BY <1>3, <1>4, <2>9
<1>6. CASE n # 0
  <2>1. (n < 0) = (-d < 0) <=> (-n < 0) = (d < 0)
    BY <1>6
  <2> QED
    BY <1>3, <1>4, <2>1
<1> QED
  BY <1>5, <1>6

(* The shares of a whole below zero make up RateScale as well. *)
LEMMA SharesOfAny ==
    ASSUME NEW K, IsFiniteSet(K), NEW v, \A j \in K : v[j] \in Int,
           NEW V \in Int \ {0}, V = SumIn(v, K),
           NEW s, \A j \in K : s[j] = SafeDivide(v[j], V)
    PROVE  Abs(SumIn(s, K) - RateScale) <= Cardinality(K)
<1>1. CASE V > 0
  <2>1. V \in Nat \ {0}
    BY <1>1
  <2> QED
    BY <2>1, SharesAddUp
<1>2. CASE V < 0
  <2>1. PICK g, W : g = [j \in K |-> -v[j]] /\ W = -V
    OBVIOUS
  <2>2. W \in Nat \ {0} /\ V = -W
    BY <1>2, <2>1
  <2>3. \A j \in K : g[j] = -v[j] /\ g[j] \in Int
    BY <2>1
  <2>4. W = SumIn(g, K)
    <3>1. SumIn(g, K) = -SumIn(v, K)
      BY <2>3, SumNegated
    <3> QED
      BY <2>1, <3>1
  <2>5. ASSUME NEW j \in K PROVE s[j] = SafeDivide(g[j], W)
    <3>1. RateScale \in Nat \ {0} /\ NULL \notin Int
      BY MeasuresAssumption
    <3>2. PICK n : n = v[j] * RateScale
      OBVIOUS
    <3>3. v[j] \in Int /\ n \in Int /\ g[j] * RateScale = -n
      BY <2>3, <3>1, <3>2
    <3>4. s[j] = RoundHalfUp(n, V)
      BY <3>1, <3>2, <3>3 DEF SafeDivide
    <3>5. SafeDivide(g[j], W) = RoundHalfUp(-n, W)
      <4>1. g[j] # NULL /\ W # NULL /\ W # 0
        BY <2>2, <2>3, <3>1
      <4> QED
        BY <3>3, <4>1 DEF SafeDivide
    <3>6. RoundHalfUp(n, -W) = RoundHalfUp(-n, W)
      BY <2>2, <3>3, RoundingNegated
    <3> QED
      BY <2>2, <3>4, <3>5, <3>6
  <2> QED
    BY <2>2, <2>3, <2>4, <2>5, SharesAddUp
<1> QED
  BY <1>1, <1>2

(* The points that have a value, and what they add up to: what all of them do. *)
WithValue(K) == {p \in K : p.value # NULL}

(* The values of the points that have one add up to what all of them do. *)
LEMMA ValuedAddUp ==
    ASSUME NEW K, IsFiniteSet(K), \A p \in K : p.value \in Int \cup {NULL}
    PROVE  /\ SumOf([p \in WithValue(K) |-> p.value]) = SumOf([p \in K |-> Zero(p.value)])
           /\ SumOf([p \in K |-> Zero(p.value)]) \in Int
<1>1. PICK some, none : some = WithValue(K) /\ none = {p \in K : p.value = NULL}
  OBVIOUS
<1>2. PICK f, g : f = [p \in K |-> Zero(p.value)] /\ g = [p \in some |-> p.value]
  OBVIOUS
<1>3. DOMAIN f = K /\ DOMAIN g = some
  BY <1>2
<1>4. K = some \cup none /\ some \cap none = {} /\ IsFiniteSet(some) /\ IsFiniteSet(none)
  BY <1>1, FS_Subset DEF WithValue
<1>5. \A p \in K : f[p] \in Int
  BY <1>2 DEF Zero
<1>6. \A p \in none : f[p] = 0
  BY <1>1, <1>2 DEF Zero
<1>7. \A p \in some : f[p] = g[p]
  BY <1>1, <1>2 DEF Zero, WithValue
<1>8. SumIn(f, K) = SumIn(f, some) + SumIn(f, none)
  BY <1>4, <1>5, SumJoins
<1>9. SumIn(f, none) = 0
  BY <1>4, <1>6, SumOfZeros
<1>10. SumIn(f, some) = SumIn(g, some) /\ SumIn(f, some) \in Int
  BY <1>4, <1>5, <1>7, SumIsOfValues, SumIsInt
<1>11. SumIn(f, K) = SumIn(g, some) /\ SumIn(f, K) \in Int
  BY <1>8, <1>9, <1>10
<1> QED
  BY <1>1, <1>2, <1>3, <1>11, SumIs

(* The shares of the points of a bucket make up the whole. *)
LEMMA SharesOfBucket ==
    ASSUME NEW K, IsFiniteSet(K), \A p \in K : p.value \in Int \cup {NULL},
           NEW V, V = SumOf([p \in K |-> Zero(p.value)]), V # 0,
           \A p \in K : p.share = SafeDivide(p.value, V)
    PROVE  Abs(SumOf([p \in K |-> Zero(p.share)]) - RateScale) <= Cardinality(K)
<1>1. PICK some, none : some = WithValue(K) /\ none = {p \in K : p.value = NULL}
  OBVIOUS
<1>2. PICK f, v : f = [p \in K |-> Zero(p.share)] /\ v = [p \in some |-> p.value]
  OBVIOUS
<1>3. DOMAIN f = K /\ DOMAIN v = some /\ \A p \in K : f[p] = Zero(p.share)
  BY <1>2
<1>4. /\ K = some \cup none /\ some \cap none = {} /\ IsFiniteSet(some) /\ IsFiniteSet(none)
      /\ some \subseteq K
  BY <1>1, FS_Subset DEF WithValue
<1>5. \A p \in some : v[p] \in Int /\ v[p] = p.value
  BY <1>1, <1>2, <1>4 DEF WithValue
<1>6. V \in Int \ {0} /\ V = SumIn(v, some)
  BY <1>1, <1>2, <1>3, ValuedAddUp, SumIs
<1>7. RateScale \in Nat \ {0} /\ NULL \notin Int
  BY MeasuresAssumption
<1>8. ASSUME NEW p \in some PROVE f[p] = SafeDivide(v[p], V) /\ f[p] \in Int
  <2>1. p.share = SafeDivide(v[p], V)
    BY <1>4, <1>5
  <2>2. PICK n : n = v[p] * RateScale
    OBVIOUS
  <2>3. n \in Int /\ SafeDivide(v[p], V) = RoundHalfUp(n, V)
    BY <1>5, <1>6, <1>7, <2>2 DEF SafeDivide
  <2>4. RoundHalfUp(n, V) \in Int
    BY <1>6, <2>3 DEF RoundHalfUp, Abs
  <2> QED
    BY <1>3, <1>4, <1>7, <2>1, <2>3, <2>4 DEF Zero
<1>9. \A p \in none : f[p] = 0
  BY <1>1, <1>3 DEF SafeDivide, Zero
<1>10. SumIn(f, K) = SumIn(f, some) + SumIn(f, none)
  <2>1. \A p \in some \cup none : f[p] \in Int
    BY <1>8, <1>9
  <2> QED
    BY <1>4, <2>1, SumJoins
<1>11. SumIn(f, none) = 0
  BY <1>4, <1>9, SumOfZeros
<1>12. SumIn(f, some) \in Int
  BY <1>4, <1>8, SumIsInt
<1>13. Abs(SumIn(f, some) - RateScale) <= Cardinality(some)
  BY <1>4, <1>5, <1>6, <1>8, SharesOfAny
<1>14. Cardinality(some) <= Cardinality(K) /\ Cardinality(some) \in Nat /\ Cardinality(K) \in Nat
  BY <1>4, FS_Subset, FS_CardinalityType
<1>15. SumIn(f, K) = SumIn(f, some)
  BY <1>10, <1>11, <1>12
<1>16. Abs(SumIn(f, K) - RateScale) <= Cardinality(K)
  <2>1. PICK x : x = Abs(SumIn(f, some) - RateScale)
    OBVIOUS
  <2>2. x \in Int
    BY <1>7, <1>12, <2>1 DEF Abs
  <2> QED
    BY <1>13, <1>14, <1>15, <2>1, <2>2
<1>17. SumOf(f) = SumIn(f, K)
  BY <1>3, SumIs
<1> QED
  BY <1>2, <1>16, <1>17

(* _fill_trend_bucket_shares leaves the points, each with its part of the *)
(* values of its bucket.                                                  *)
LEMMA SharedPointsAre ==
    ASSUME NEW P, NEW S, NEW metric, NEW bs, ArePoints(P, S, metric, bs), NEW A, A = WithShares(P)
    PROVE  ArePoints(A, S, metric, bs)
<1> DEFINE With(p) == [key |-> p.key, bucket |-> p.bucket, value |-> p.value, prior |-> p.prior,
                       count |-> p.count, share |-> BucketShare(p, P)]
<1>1. A = {With(p) : p \in P}
  BY DEF WithShares
<1>2. \A p : /\ With(p).key = p.key /\ With(p).bucket = p.bucket /\ With(p).value = p.value
             /\ With(p).count = p.count /\ With(p).share = BucketShare(p, P)
  OBVIOUS
<1> HIDE DEF With
<1>3. \A a \in A : \E p \in P : a = With(p)
  BY <1>1
<1>4. \A p \in P : With(p) \in A
  BY <1>1
<1>5. IsFiniteSet(A)
  <2>1. PICK f : f = [p \in P |-> With(p)]
    OBVIOUS
  <2>2. \A a \in A : \E p \in P : a = f[p]
    BY <1>3, <2>1
  <2> QED
    BY <2>2, FiniteImage DEF ArePoints
<1>6. ASSUME NEW a \in A
      PROVE  /\ a.key \in SeriesKeys(S) /\ \E i \in DOMAIN bs : a.bucket = bs[i]
             /\ a.value = Pick(metric, At(S, a.key, a.bucket).measures)
             /\ a.count = At(S, a.key, a.bucket).count
  <2>1. PICK p \in P : a = With(p)
    BY <1>3
  <2>2. a.key = p.key /\ a.bucket = p.bucket /\ a.value = p.value /\ a.count = p.count
    BY <1>2, <2>1
  <2> QED
    BY <2>2 DEF ArePoints
<1>7. ASSUME NEW k \in SeriesKeys(S), NEW i \in DOMAIN bs PROVE \E a \in A : a.key = k /\ a.bucket = bs[i]
  <2>1. PICK p \in P : p.key = k /\ p.bucket = bs[i]
    BY DEF ArePoints
  <2> QED
    BY <1>2, <1>4, <2>1
<1>8. ASSUME NEW a \in A, NEW x \in A, a.key = x.key, a.bucket = x.bucket PROVE a = x
  <2>1. PICK p \in P, y \in P : a = With(p) /\ x = With(y)
    BY <1>3
  <2>2. p.key = y.key /\ p.bucket = y.bucket
    BY <1>2, <1>8, <2>1
  <2>3. \A u, z \in P : u.key = z.key /\ u.bucket = z.bucket => u = z
    BY DEF ArePoints
  <2> QED
    BY <2>1, <2>2, <2>3
<1> QED
  BY <1>5, <1>6, <1>7, <1>8 DEF ArePoints

(* A point with its share is a point with its part of the bucket. *)
LEMMA PointsAreShared ==
    ASSUME NEW P, NEW a \in WithShares(P)
    PROVE  \E p \in P : a.bucket = p.bucket /\ a.value = p.value /\ a.share = BucketShare(p, P)
BY DEF WithShares

(* The part of a point of a bucket whose values add up to something. *)
LEMMA ShareOfPoint ==
    ASSUME NEW P, NEW p \in P, NEW b, p.bucket = b, NEW V, V # 0,
           V = SumOf([x \in WithValue(PointsOf(P, b)) |-> x.value])
    PROVE  BucketShare(p, P) = SafeDivide(p.value, V)
<1>1. PICK present : present = WithValue(PointsOf(P, b))
  OBVIOUS
<1>2. present = {x \in P : x.bucket = p.bucket /\ x.value # NULL}
  BY <1>1 DEF WithValue, PointsOf
<1>3. V = SumOf([x \in present |-> x.value])
  BY <1>1
<1>4. present # {}
  <2> SUFFICES ASSUME present = {} PROVE FALSE
    OBVIOUS
  <2>1. PICK f : f = [x \in present |-> x.value]
    OBVIOUS
  <2>2. DOMAIN f = {}
    BY <2>1
  <2>3. SumOf(f) = 0
    BY <2>2, SumIs, SumOfNone
  <2> QED
    BY <1>3, <2>1, <2>3
<1> QED
  BY <1>2, <1>3, <1>4 DEF BucketShare

(* What a trend accounts for, bucket by bucket. *)
AccountsFor(A, rows, grain, metric, shared) ==
    /\ {BucketStart(r.day, grain) : r \in rows} \subseteq {p.bucket : p \in A}
    /\ \A b \in {p.bucket : p \in A} :
        /\ AddsUpAt(PointsOf(A, b), Bucketed(rows, grain, b), metric)
        /\ shared /\ SumOf([p \in PointsOf(A, b) |-> Zero(p.value)]) # 0 /\ Metrics[metric].additive =>
             Abs(SumOf([p \in PointsOf(A, b) |-> Zero(p.share)]) - RateScale) <= Cardinality(A)

(* The points of a trend account for the rows that were read. *)
LEMMA TrendAccounts ==
    ASSUME NEW h \in Slices, NEW rows, rows \subseteq RowsOf(h), NEW S, NEW grain, NEW kf,
           HoldsCells(S, rows, grain, kf), NEW metric \in DOMAIN Metrics, NEW P, NEW bs,
           ArePoints(P, S, metric, bs), \A r \in rows : BucketStart(r.day, grain) \in {bs[i] : i \in DOMAIN bs},
           NEW shared, NEW A, A = IF shared /\ Metrics[metric].additive THEN WithShares(P) ELSE P
    PROVE  AccountsFor(A, rows, grain, metric, shared)
<1>1. ArePoints(A, S, metric, bs)
  BY SharedPointsAre
<1>2. \A a \in A : a.bucket \in {bs[i] : i \in DOMAIN bs}
  BY <1>1 DEF ArePoints
<1>3. ASSUME NEW r \in rows PROVE BucketStart(r.day, grain) \in {p.bucket : p \in A}
  <2>1. PICK i \in DOMAIN bs : BucketStart(r.day, grain) = bs[i]
    OBVIOUS
  <2>2. PICK x \in S : x.key = kf[r]
    BY DEF HoldsCells
  <2>3. kf[r] \in SeriesKeys(S)
    BY <2>2 DEF SeriesKeys
  <2>4. PICK p \in A : p.bucket = bs[i]
    BY <1>1, <2>3 DEF ArePoints
  <2> QED
    BY <2>1, <2>4
<1>4. ASSUME NEW b \in {p.bucket : p \in A}
      PROVE  /\ AddsUpAt(PointsOf(A, b), Bucketed(rows, grain, b), metric)
             /\ AddsUpAt(PointsOf(P, b), Bucketed(rows, grain, b), metric)
  <2>1. b \in {bs[i] : i \in DOMAIN bs}
    BY <1>2
  <2> QED
    BY <1>1, <2>1, PointsAddUp
<1>5. ASSUME NEW b \in {p.bucket : p \in A}, shared, Metrics[metric].additive,
             SumOf([p \in PointsOf(A, b) |-> Zero(p.value)]) # 0
      PROVE  Abs(SumOf([p \in PointsOf(A, b) |-> Zero(p.share)]) - RateScale) <= Cardinality(A)
  <2>1. PICK K, L, V : /\ K = PointsOf(A, b) /\ L = PointsOf(P, b)
                       /\ V = SumOf([p \in K |-> Zero(p.value)])
    OBVIOUS
  <2>2. V = SumOf([p \in L |-> Zero(p.value)]) /\ \A p \in K \cup L : p.value \in Int \cup {NULL}
    BY <1>4, <1>5, <2>1 DEF AddsUpAt
  <2>3. IsFiniteSet(K) /\ IsFiniteSet(L) /\ IsFiniteSet(A) /\ K \subseteq A
    <3>1. K \subseteq A /\ L \subseteq P
      BY <2>1 DEF PointsOf
    <3>2. IsFiniteSet(A) /\ IsFiniteSet(P)
      BY <1>1 DEF ArePoints
    <3> QED
      BY <3>1, <3>2, FS_Subset
  <2>4. V = SumOf([x \in WithValue(L) |-> x.value])
    BY <2>2, <2>3, ValuedAddUp
  <2>5. ASSUME NEW a \in K PROVE a.share = SafeDivide(a.value, V)
    <3>1. a \in A /\ a.bucket = b
      BY <2>1 DEF PointsOf
    <3>2. A = WithShares(P)
      BY <1>5
    <3>3. PICK p \in P : a.bucket = p.bucket /\ a.value = p.value /\ a.share = BucketShare(p, P)
      <4>1. a \in WithShares(P)
        BY <3>1, <3>2
      <4> QED
        BY <4>1, PointsAreShared
    <3>4. p.bucket = b /\ V # 0 /\ V = SumOf([x \in WithValue(PointsOf(P, b)) |-> x.value])
      BY <1>5, <2>1, <2>4, <3>1, <3>3
    <3>5. BucketShare(p, P) = SafeDivide(p.value, V)
      BY <3>4, ShareOfPoint
    <3> QED
      BY <3>3, <3>5
  <2>6. V # 0
    BY <1>5, <2>1
  <2>7. Abs(SumOf([p \in K |-> Zero(p.share)]) - RateScale) <= Cardinality(K)
    BY <2>1, <2>2, <2>3, <2>5, <2>6, SharesOfBucket
  <2>8. SumOf([p \in K |-> Zero(p.share)]) \in Int
    <3>1. PICK f : f = [p \in K |-> Zero(p.share)]
      OBVIOUS
    <3>2. ASSUME NEW p \in K PROVE f[p] \in Int
      <4>1. f[p] = Zero(SafeDivide(p.value, V))
        BY <2>5, <3>1
      <4>2. V \in Int
        BY <2>1, <2>2, <2>3, ValuedAddUp
      <4>3. SafeDivide(p.value, V) \in Int \cup {NULL}
        <5>1. CASE p.value = NULL
          BY <5>1 DEF SafeDivide
        <5>2. CASE p.value # NULL
          <6>1. PICK n : n = p.value * RateScale
            OBVIOUS
          <6>2. n \in Int
            BY <2>2, <5>2, <6>1, MeasuresAssumption
          <6>3. SafeDivide(p.value, V) \in {NULL, RoundHalfUp(n, V)}
            BY <6>1 DEF SafeDivide
          <6>4. RoundHalfUp(n, V) \in Int
            BY <2>6, <4>2, <6>2 DEF RoundHalfUp, Abs
          <6> QED
            BY <6>3, <6>4
        <5> QED
          BY <5>1, <5>2
      <4> QED
        BY <4>1, <4>3 DEF Zero
    <3>3. SumIn(f, K) \in Int
      BY <2>3, <3>2, SumIsInt
    <3>4. DOMAIN f = K
      BY <3>1
    <3> QED
      BY <3>1, <3>3, <3>4, SumIs
  <2>9. Cardinality(K) \in Nat /\ Cardinality(A) \in Nat /\ Cardinality(K) <= Cardinality(A)
    BY <2>3, FS_Subset, FS_CardinalityType
  <2>10. PICK x : x = Abs(SumOf([p \in K |-> Zero(p.share)]) - RateScale)
    OBVIOUS
  <2>11. x \in Int
    BY <2>8, <2>10, MeasuresAssumption DEF Abs
  <2>12. x <= Cardinality(A)
    BY <2>7, <2>9, <2>10, <2>11
  <2> QED
    BY <2>1, <2>10, <2>12
<1> QED
  BY <1>3, <1>4, <1>5 DEF AccountsFor

(* The rows of the bucket of another window that has the position of a bucket. *)
PairedWith(rows, c, w, grain, b) ==
    {r \in rows : Position(c, grain, BucketStart(r.day, grain)) = Position(w, grain, b)}

(* What was found at the place of a bucket is what those rows add up to. *)
LEMMA PairedAreFound ==
    ASSUME NEW grain, NEW w, NEW c, NEW bs, InOrder(bs, w, grain), NEW before, InOrder(before, c, grain),
           NEW S, NEW rows, NEW kf, HoldsCells(S, rows, grain, kf), \A r \in rows : kf[r] = None,
           \A r \in rows : BucketStart(r.day, grain) \in BucketsOf(c, grain),
           NEW metric \in DOMAIN Metrics, NEW i \in DOMAIN bs
    PROVE  (IF i \in DOMAIN before THEN Pick(metric, At(S, None, before[i]).measures) ELSE NULL)
             = Pick(metric, SumAdditiveMeasures(PairedWith(rows, c, w, grain, bs[i])))
<1>1. PICK paired : paired = PairedWith(rows, c, w, grain, bs[i])
  OBVIOUS
<1>2. Position(w, grain, bs[i]) = i
  BY PlaceIsPosition
<1>3. \A j \in DOMAIN before : Position(c, grain, before[j]) = j
  BY PlaceIsPosition
<1>4. \A r \in rows : \E j \in DOMAIN before : before[j] = BucketStart(r.day, grain)
  BY DEF InOrder
<1>5. \A r : r \in paired <=> r \in rows /\ Position(c, grain, BucketStart(r.day, grain)) = i
  BY <1>1, <1>2 DEF PairedWith
<1>6. CASE i \in DOMAIN before
  <2>1. PICK b, own : b = before[i] /\ own = CellOf(rows, grain, kf, b, None)
    OBVIOUS
  <2>2. ASSUME NEW r \in rows
        PROVE  Position(c, grain, BucketStart(r.day, grain)) = i <=> BucketStart(r.day, grain) = b /\ kf[r] = None
    <3>1. PICK j \in DOMAIN before : before[j] = BucketStart(r.day, grain)
      BY <1>4
    <3>2. Position(c, grain, BucketStart(r.day, grain)) = j
      BY <1>3, <3>1
    <3>3. BucketStart(r.day, grain) = b => Position(c, grain, BucketStart(r.day, grain)) = i
      BY <1>3, <1>6, <2>1
    <3> QED
      BY <2>1, <3>1, <3>2, <3>3
  <2>3. paired = own
    BY <1>5, <2>1, <2>2 DEF CellOf
  <2>4. At(S, None, b).measures = SumAdditiveMeasures(own)
    BY <2>1, CellsAreFound
  <2> QED
    BY <1>1, <1>6, <2>1, <2>3, <2>4
<1>7. CASE i \notin DOMAIN before
  <2>1. paired = {}
    <3> SUFFICES ASSUME NEW r \in paired PROVE FALSE
      OBVIOUS
    <3>1. r \in rows /\ Position(c, grain, BucketStart(r.day, grain)) = i
      BY <1>5
    <3>2. PICK j \in DOMAIN before : before[j] = BucketStart(r.day, grain)
      BY <1>4, <3>1
    <3> QED
      BY <1>3, <1>7, <3>1, <3>2
  <2>2. SumAdditiveMeasures(paired) = NoMeasures
    BY <2>1, SumsOfNone
  <2>3. Pick(metric, NoMeasures) = NULL
    <3>1. \A m \in AdditiveMeasures : NoMeasures[m] = NULL
      BY DEF NoMeasures
    <3>2. metric \in {"total_cost", "delivered", "revenue_inr", "delivery_rate", "overall_roas"}
      BY DEF Metrics
    <3>3. CASE Metrics[metric].additive
      BY <3>1, <3>3, AdditiveMetrics
    <3>4. CASE metric = "delivery_rate"
      <4>1. Metrics[metric].additive = FALSE /\ Metrics[metric].of = "delivery_rate"
        BY <3>4 DEF Metrics
      <4>2. KpiSpecs["delivery_rate"] = [num |-> "delivered", den |-> "sent", op |-> "divide"]
        BY DEF KpiSpecs
      <4>3. NoMeasures["delivered"] = NULL
        BY <3>1 DEF AdditiveMeasures
      <4> QED
        BY <4>1, <4>2, <4>3 DEF Pick, PickAs, ComputeKpi, SafeDivide
    <3>5. CASE metric = "overall_roas"
      <4>1. Metrics[metric].additive = FALSE /\ Metrics[metric].of = "overall_roas"
        BY <3>5 DEF Metrics
      <4>2. KpiSpecs["overall_roas"] = [num |-> "revenue_inr", den |-> "total_cost", op |-> "divide"]
        BY DEF KpiSpecs
      <4>3. NoMeasures["revenue_inr"] = NULL
        BY <3>1 DEF AdditiveMeasures
      <4> QED
        BY <4>1, <4>2, <4>3 DEF Pick, PickAs, ComputeKpi, SafeDivide
    <3>6. metric \in {"total_cost", "delivered", "revenue_inr"} => Metrics[metric].additive
      BY DEF Metrics
    <3> QED
      BY <3>2, <3>3, <3>4, <3>5, <3>6
  <2> QED
    BY <1>1, <1>7, <2>2, <2>3
<1> QED
  BY <1>6, <1>7

(* A read of a window gives rows of its days, each in a bucket of the window. *)
LEMMA RowsHaveBuckets ==
    ASSUME NEW h, NEW w, OfCalendar(w), NEW filters, NEW rows, rows = In(RowsOf(h), w, filters), NEW grain
    PROVE  rows \subseteq RowsOf(h) /\ \A r \in rows : BucketStart(r.day, grain) \in BucketsOf(w, grain)
<1>1. rows \subseteq RowsOf(h) /\ \A r \in rows : w.from <= r.day /\ r.day < w.to
  BY DEF In, Selected
<1>2. w.from \in Int /\ w.to \in Int
  BY DEF OfCalendar
<1>3. ASSUME NEW r \in rows PROVE BucketStart(r.day, grain) \in BucketsOf(w, grain)
  <2>1. PICK g \in Grains : r.day = g.day
    BY <1>1, RowIsOfAGrain
  <2>2. r.day \in Int
    BY <2>1, DaysHaveMonths
  <2>3. r.day \in w.from..(w.to - 1)
    BY <1>1, <1>2, <2>2
  <2> QED
    BY <2>3 DEF BucketsOf
<1> QED
  BY <1>1, <1>3

(* What the points of a trend show of the comparison. *)
PriorsFit(A, rows, c, w, grain, metric) ==
    \A p \in A : p.prior = Pick(metric, SumAdditiveMeasures(PairedWith(rows, c, w, grain, p.bucket)))

(* The answer to a trend reconciles with the rows of its windows. *)
LEMMA TrendAnswers ==
    ASSUME NEW h \in Slices, NEW e, NEW q, NamesTheKnown(q), q.view = "trends",
           NEW sc, OfCalendar(sc.window), sc.compare # None => OfCalendar(sc.compare),
           ReadFor(q, sc, h) # Refused,
           NEW A, A = TrendAnswer(q, sc, ReadFor(q, sc, h), RowsOf(e))
    PROVE  /\ AccountsFor(A, In(RowsOf(h), sc.window, sc.filters), q.grain, q.metric, q.dimension # None)
           /\ sc.compare # None /\ q.dimension = None =>
                PriorsFit(A, In(RowsOf(e), sc.compare, sc.filters), sc.compare, sc.window, q.grain, q.metric)
<1>1. PICK w, c, filters, grain, metric, d :
        /\ w = sc.window /\ c = sc.compare /\ filters = sc.filters
        /\ grain = q.grain /\ metric = q.metric /\ d = q.dimension
  OBVIOUS
<1>2. grain \in {"day", "week", "month"} /\ metric \in DOMAIN Metrics
  BY <1>1 DEF NamesTheKnown
<1>3. PICK rows, S : rows = In(RowsOf(h), w, filters) /\ S = TrendSeries(RowsOf(h), w, filters, grain, d, metric)
  OBVIOUS
<1>4. ReadFor(q, sc, h) = S
  <2>1. ReadFor(q, sc, h) = TrendReads(S)
    BY <1>1, <1>3 DEF ReadFor, ReadOf
  <2> QED
    BY <2>1 DEF TrendReads
<1>5. PICK bs : bs = IterBuckets(w.from, w.to, grain)
  OBVIOUS
<1>6. OfCalendar(w) /\ InOrder(bs, w, grain)
  <2>1. OfCalendar(w)
    BY <1>1
  <2>2. InHorizon(w, grain)
    BY <2>1, CalendarHasGrains
  <2> QED
    BY <1>2, <1>5, <2>1, <2>2, BucketsAreListed
<1>7. rows \subseteq RowsOf(h) /\ \A r \in rows : BucketStart(r.day, grain) \in {bs[i] : i \in DOMAIN bs}
  <2>1. rows \subseteq RowsOf(h) /\ \A r \in rows : BucketStart(r.day, grain) \in BucketsOf(w, grain)
    BY <1>3, <1>6, RowsHaveBuckets
  <2>2. \A b \in BucketsOf(w, grain) : \E i \in DOMAIN bs : bs[i] = b
    BY <1>6 DEF InOrder
  <2> QED
    BY <2>1, <2>2
<1>8. PICK kf : HoldsCells(S, rows, grain, kf)
  BY <1>3, TrendsHoldCells
<1>9. IsFiniteSet(SeriesKeys(S))
  <2>1. CASE S = {}
    BY <2>1, FS_Singleton DEF SeriesKeys
  <2>2. CASE S # {}
    <3>1. IsFiniteSet(rows)
      <4>1. IsFiniteSet(RowsOf(h))
        BY RowsAreNumbers
      <4> QED
        BY <1>7, <4>1, FS_Subset
    <3>2. \A k \in SeriesKeys(S) : \E r \in rows : k = kf[r]
      BY <1>8, <2>2 DEF HoldsCells, SeriesKeys
    <3> QED
      BY <3>1, <3>2, FiniteImage
  <2> QED
    BY <2>1, <2>2
<1>10. PICK shown : shown = (c # None /\ d = None)
  OBVIOUS
<1>11. PICK T, o, before, P :
        /\ T = IF shown THEN TrendSeries(RowsOf(e), c, filters, grain, None, metric) ELSE {}
        /\ o = IF shown THEN c ELSE None
        /\ before = IF o = None THEN <<>> ELSE IterBuckets(o.from, o.to, grain)
        /\ P = TrendPoints(metric, S, T, w, o, grain)
  OBVIOUS
<1>12. A = IF d # None /\ Metrics[metric].additive THEN WithShares(P) ELSE P
  BY <1>1, <1>4, <1>10, <1>11 DEF TrendAnswer
<1>13. ArePoints(P, S, metric, bs) /\ PriorsAre(P, metric, bs, T, before)
  BY <1>5, <1>6, <1>9, <1>11, TrendPointsAre
<1>14. AccountsFor(A, rows, grain, metric, d # None)
  <2>1. PICK shared : shared = (d # None)
    OBVIOUS
  <2>2. A = IF shared /\ Metrics[metric].additive THEN WithShares(P) ELSE P
    BY <1>12, <2>1
  <2>3. AccountsFor(A, rows, grain, metric, shared)
    BY <1>2, <1>7, <1>8, <1>13, <2>2, TrendAccounts
  <2> QED
    BY <2>1, <2>3
<1>15. ASSUME c # None, d = None PROVE PriorsFit(A, In(RowsOf(e), c, filters), c, w, grain, metric)
  <2>1. A = P /\ o = c /\ T = TrendSeries(RowsOf(e), c, filters, grain, None, metric)
        /\ before = IterBuckets(c.from, c.to, grain)
    BY <1>10, <1>11, <1>12, <1>15
  <2>2. PICK earlier : earlier = In(RowsOf(e), c, filters)
    OBVIOUS
  <2>3. OfCalendar(c) /\ InOrder(before, c, grain)
    <3>1. OfCalendar(c)
      BY <1>1, <1>15
    <3>2. InHorizon(c, grain)
      BY <3>1, CalendarHasGrains
    <3> QED
      BY <1>2, <2>1, <3>1, <3>2, BucketsAreListed
  <2>4. PICK g : HoldsCells(T, earlier, grain, g) /\ \A r \in earlier : g[r] = None
    BY <2>1, <2>2, TrendsHoldCells
  <2>5. \A r \in earlier : BucketStart(r.day, grain) \in BucketsOf(c, grain)
    BY <2>2, <2>3, RowsHaveBuckets
  <2>6. ASSUME NEW p \in A
        PROVE  p.prior = Pick(metric, SumAdditiveMeasures(PairedWith(earlier, c, w, grain, p.bucket)))
    <3>1. PICK i \in DOMAIN bs : p.bucket = bs[i]
      BY <1>13, <2>1 DEF ArePoints
    <3>2. p.prior = IF i \in DOMAIN before THEN Pick(metric, At(T, None, before[i]).measures) ELSE NULL
      BY <1>13, <2>1, <3>1 DEF PriorsAre
    <3>3. (IF i \in DOMAIN before THEN Pick(metric, At(T, None, before[i]).measures) ELSE NULL)
            = Pick(metric, SumAdditiveMeasures(PairedWith(earlier, c, w, grain, bs[i])))
      BY <1>2, <1>6, <2>3, <2>4, <2>5, PairedAreFound
    <3> QED
      BY <3>1, <3>2, <3>3
  <2> QED
    BY <2>2, <2>6 DEF PriorsFit
<1> QED
  BY <1>1, <1>3, <1>14, <1>15

(* _trends: for any facts and publications, the points of a trend account for *)
(* every row of the period once, bucket by bucket they add up to the total of *)
(* the bucket's rows, the shares of a bucket make up the whole, and the       *)
(* comparison beside a point is the total of the bucket of the same position. *)
THEOREM TrendsAddUp == ReadersSpec => []TrendsReconcile
<1>1. AskInv /\ SlicesInv => TrendsReconcile
  <2> DEFINE rows    == RowsIn(seen.current, scope.window.from, scope.window.to, scope.filters)
             earlier == RowsIn(seen.compared, scope.compare.from, scope.compare.to, scope.filters)
  <2> SUFFICES ASSUME AskInv, SlicesInv, Answered("trends")
               PROVE  /\ AccountsFor(answer, rows, question.grain, question.metric, question.dimension # None)
                      /\ scope.compare # None /\ question.dimension = None =>
                           PriorsFit(answer, earlier, scope.compare, scope.window,
                                     question.grain, question.metric)
    BY Zenon DEF TrendsReconcile, AccountsFor, AddsUpAt, PointsOf, Bucketed, PriorsFit, PairedWith
  <2>1. /\ scope # Refused /\ scope # NoScope /\ NamesTheKnown(question) /\ question.view = "trends"
        /\ request \in Requests
        /\ reads # Refused /\ reads = ReadFor(question, scope, seen.current)
        /\ answer = AnswerFor(question, scope, reads, seen.compared)
    BY DEF AskInv, AnswerInv, Answered
  <2>2. PICK h, e, q : /\ h = seen.current /\ e = seen.compared /\ q = question
                       /\ h \in Slices /\ e \in Slices
    BY DEF SlicesInv
  <2>3. PICK x : scope = ScopeFor(request, x)
    BY DEF AskInv, AnswerInv, Answered
  <2>4. \A d \in Dimensions : NULL \notin scope.filters[d]
    BY <2>1, <2>3, ScopesFilter
  <2>5. OfCalendar(scope.window) /\ (scope.compare # None => OfCalendar(scope.compare))
    BY <2>1, <2>3, ScopesAreOfCalendar
  <2>6. answer = TrendAnswer(q, scope, ReadFor(q, scope, h), RowsOf(e))
    BY <2>1, <2>2 DEF AnswerFor, AnswerOf
  <2>7. rows = In(RowsOf(h), scope.window, scope.filters) /\ earlier = In(RowsOf(e), scope.compare, scope.filters)
    BY <2>2, <2>4, ReadsSelect
  <2>8. ReadFor(q, scope, h) # Refused
    BY <2>1, <2>2
  <2> QED
    BY <2>1, <2>2, <2>5, <2>6, <2>7, <2>8, TrendAnswers
<1> QED
  BY <1>1, AnswersAreOfTheirReads, ReadersReadFacts, PTL
=============================================================================
