---------------------------- MODULE WorkbookAccess ----------------------------
(***************************************************************************)
(* The refreshable workbook of one company: the download that registers a  *)
(* grant and stamps a token into the file (publication_routes.py,          *)
(* excel_grant.py), and Refresh All (excel/PublishedFacts.m), which trades *)
(* the stamped token for a new one at POST /auth/refresh and then reads    *)
(* the published history as CSV.  A step is one transaction of the stores. *)
(* Meanwhile the clock runs, memberships and the company change, grants    *)
(* are revoked, and the grant rows may be lost: the in-memory store loses  *)
(* them with the process, a database restored from an older backup has     *)
(* none of the later ones.                                                 *)
(*                                                                         *)
(* Tokens are known by their iat and exp; signatures, the website's        *)
(* token_version (which a workbook ignores) and last_used_at are left out. *)
(***************************************************************************)
EXTENDS PublishedHistory, Integers, FiniteSets

CONSTANTS
    Jtis,        \* ids of grants, one per download
    Copies,      \* open copies of the workbooks
    AccessTtl,   \* dfip_excel_access_ttl_seconds
    LoginTtl,    \* dfip_auth_token_ttl_seconds, of refreshed tokens
    GrantTtl,    \* dfip_excel_grant_ttl_seconds
    MaxClock,    \* bound on the clock
    Absent       \* no row, no token, no build

ASSUME WorkbookConstants ==
    /\ {AccessTtl, LoginTtl, GrantTtl} \subseteq Nat \ {0}
    /\ AccessTtl <= GrantTtl /\ MaxClock \in Nat
    /\ Absent \notin Jtis \cup [expires : Int, revoked : BOOLEAN]

VARIABLES
    clock,
    company,  \* "active", "inactive" or "deleted"
    role,     \* the account's membership: "client", "publisher" or "none"
    grants,   \* excel_workbook_grant
    build,    \* the download under way: _REPORT_GENERATION admits one
    stamp,    \* BearerToken of each delivered workbook, and its registration
    copy      \* Refresh All of each open copy

access == <<clock, company, role, grants, build, stamp, copy>>

Idle == [pc |-> "idle", jti |-> Absent, exp |-> 0, minted |-> FALSE, at |-> 0,
         met |-> FALSE, kept |-> {}, shown |-> FALSE]

AccessInit ==
    /\ clock = 0 /\ company = "active" /\ role \in {"client", "publisher"}
    /\ grants = [j \in Jtis |-> Absent] /\ stamp = [j \in Jtis |-> Absent]
    /\ build = Absent
    /\ copy = [c \in Copies |-> Idle]

-----------------------------------------------------------------------------
\* What bars a workbook from data, for the properties.  A grant ends GrantTtl
\* after its registration (over), a restored one after the token's iat (ended).
Bars(j) ==
    {b \in {"member", "company", "revoked", "ended"} :
        CASE b = "member"  -> role = "none"
          [] b = "company" -> company # "active"
          [] b = "revoked" -> grants[j] # Absent /\ grants[j].revoked
          [] b = "ended"   -> stamp[j] # Absent /\ stamp[j].iat + GrantTtl <= clock}
Over(j) == stamp[j] # Absent /\ stamp[j].since + GrantTtl <= clock

\* The world changed: a copy may have met a reason to be refused (met), and
\* some of what barred its request from the start may be gone (kept).
Watch ==
    LET bars == [j \in Jtis |-> Bars(j)']
        over == [j \in Jtis |-> Over(j)']
        late(c) == c.minted /\ c.exp <= clock'
    IN  copy' = [c \in Copies |->
            IF copy[c].jti = Absent THEN copy[c]
            ELSE [copy[c] EXCEPT !.met = @ \/ bars[copy[c].jti] # {} \/ over[copy[c].jti]
                                           \/ late(copy[c]),
                                 !.kept = @ \cap bars[copy[c].jti]]]

Tick ==
    /\ clock < MaxClock /\ clock' = clock + 1
    /\ UNCHANGED <<company, role, grants, build, stamp>> /\ Watch

\* client lifecycle: only an inactive company is deleted, and its grants and
\* memberships go with it.
CompanyChanges ==
    /\ \/ /\ company = "active" /\ company' = "inactive" /\ UNCHANGED <<role, grants>>
       \/ /\ company = "inactive" /\ company' = "active" /\ UNCHANGED <<role, grants>>
       \/ /\ company = "inactive" /\ company' = "deleted"
          /\ role' = "none" /\ grants' = [j \in Jtis |-> Absent]
    /\ UNCHANGED <<clock, build, stamp>> /\ Watch

MembershipChanges ==
    /\ company # "deleted"
    /\ role' = IF role = "none" THEN "client" ELSE "none"
    /\ UNCHANGED <<clock, company, grants, build, stamp>> /\ Watch

\* revoke_grants_for_user: every grant of the account.
Revoke ==
    /\ \E j \in Jtis : grants[j] # Absent /\ ~grants[j].revoked
    /\ grants' = [j \in Jtis |-> IF grants[j] = Absent THEN Absent
                                 ELSE [grants[j] EXCEPT !.revoked = TRUE]]
    /\ UNCHANGED <<clock, company, role, build, stamp>> /\ Watch

\* The rows are lost; requests under way fail.  A workbook whose refresh
\* failed goes on with the stamped token.
InData == {"d_identity", "d_grant", "d_company", "d_copy"}
InRefresh == {"r_identity", "r_grant", "r_restore", "r_again", "r_company"}
Interrupted(c) ==
    [c EXCEPT !.met = TRUE,
              !.pc = IF @ \in InRefresh THEN "ask" ELSE IF @ \in InData THEN "refused" ELSE @,
              !.kept = @ \ {"revoked"}]
Lose ==
    /\ \E j \in Jtis : grants[j] # Absent
    /\ grants' = [j \in Jtis |-> Absent]
    /\ build' = Absent
    /\ copy' = [c \in Copies |-> IF copy[c].jti = Absent THEN copy[c] ELSE Interrupted(copy[c])]
    /\ UNCHANGED <<clock, company, role, stamp>>

-----------------------------------------------------------------------------
(* The download *)

\* get_principal, _resolve_client_id and _authorize_excel_grant_client; a
\* client of an inactive company is refused, a publisher only later.
DownloadWorkbook(j) ==
    /\ build = Absent /\ grants[j] = Absent /\ stamp[j] = Absent
    /\ role # "none" /\ (role = "client" => company = "active")
    /\ build' = [stage |-> "register", jti |-> j, since |-> 0, iat |-> 0]
    /\ UNCHANGED <<clock, company, role, grants, stamp, copy>>

BuildFails == build' = Absent /\ UNCHANGED <<clock, company, role, grants, stamp, copy>>

\* store.register: the INSERT meets the foreign key of a deleted company.
Register ==
    /\ build # Absent /\ build.stage = "register"
    /\ IF company = "deleted" THEN BuildFails
       ELSE /\ grants' = [grants EXCEPT ![build.jti] =
                            [expires |-> clock + GrantTtl, revoked |-> FALSE]]
            /\ build' = [build EXCEPT !.stage = "confirm", !.since = clock]
            /\ UNCHANGED <<clock, company, role, stamp, copy>>

ActiveAt(j, now) == grants[j] # Absent /\ ~grants[j].revoked /\ grants[j].expires > now

\* store.get_active, then issue_access_token.
Confirm ==
    /\ build # Absent /\ build.stage = "confirm"
    /\ IF ~ActiveAt(build.jti, clock) THEN BuildFails
       ELSE /\ build' = [build EXCEPT !.stage = "stamp", !.iat = clock]
            /\ UNCHANGED <<clock, company, role, grants, stamp, copy>>

\* download_client_report: an inactive company or nothing published leaves the
\* grant without a workbook.
Deliver ==
    /\ build # Absent /\ build.stage = "stamp"
    /\ IF company # "active" \/ current = NoPub THEN BuildFails
       ELSE /\ stamp' = [stamp EXCEPT ![build.jti] =
                            [since |-> build.since, iat |-> build.iat, exp |-> build.iat + AccessTtl]]
            /\ build' = Absent
            /\ UNCHANGED <<clock, company, role, grants, copy>>

-----------------------------------------------------------------------------
(* Refresh All *)

world == <<clock, company, role, grants, build, stamp>>
Goto(c, pc) == copy' = [copy EXCEPT ![c].pc = pc]
IsAt(c, pc) == copy[c].pc = pc

RefreshAll(c, j) ==
    /\ IsAt(c, "idle") /\ stamp[j] # Absent
    /\ copy' = [copy EXCEPT ![c] = [Idle EXCEPT !.pc = "r_identity", !.jti = j,
                                                !.exp = stamp[j].exp, 
                                                !.met = Bars(j) # {} \/ Over(j)]]
    /\ UNCHANGED world

\* get_by_subject and apply_identity; what /auth/refresh refuses, the query
\* answers by using the stamped token.
RefreshIdentity(c) ==
    /\ IsAt(c, "r_identity")
    /\ copy' = [copy EXCEPT ![c].pc = IF role = "none" THEN "ask" ELSE "r_grant", ![c].at = clock]
    /\ UNCHANGED world

\* Mutant: the restored grant starts anew.
RestoredEndFromNow(c) == copy[c].at + GrantTtl
\* _claim_issued_at: a restored grant ends where the token's own would.
RestoredEnd(c) == stamp[copy[c].jti].iat + GrantTtl

\* _resolve_excel_grant with restore_missing: get; the moment is taken before.
RefreshGrant(c) ==
    /\ IsAt(c, "r_grant")
    /\ LET j == copy[c].jti
       IN  Goto(c, IF grants[j] # Absent
                   THEN IF ActiveAt(j, copy[c].at) THEN "r_company" ELSE "ask"
                   ELSE IF RestoredEnd(c) > copy[c].at THEN "r_restore" ELSE "ask")
    /\ UNCHANGED world

\* Mutant: a register that fails refuses the refresh.
RestoreGrantOnce(c) ==
    /\ IsAt(c, "r_restore")
    /\ LET j == copy[c].jti
       IN  IF grants[j] = Absent /\ company # "deleted"
           THEN /\ grants' = [grants EXCEPT ![j] = [expires |-> RestoredEnd(c), revoked |-> FALSE]]
                /\ Goto(c, "r_company")
           ELSE Goto(c, "ask") /\ UNCHANGED grants
    /\ UNCHANGED <<clock, company, role, build, stamp>>

\* register again: another copy may have restored the row, or the company is
\* gone; either way the INSERT fails and the row is read once more.
RestoreGrant(c) ==
    /\ IsAt(c, "r_restore")
    /\ LET j == copy[c].jti
       IN  IF grants[j] = Absent /\ company # "deleted"
           THEN /\ grants' = [grants EXCEPT ![j] = [expires |-> RestoredEnd(c), revoked |-> FALSE]]
                /\ Goto(c, "r_company")
           ELSE Goto(c, "r_again") /\ UNCHANGED grants
    /\ UNCHANGED <<clock, company, role, build, stamp>>

ReadAgain(c) ==
    /\ IsAt(c, "r_again")
    /\ Goto(c, IF ActiveAt(copy[c].jti, copy[c].at) THEN "r_company" ELSE "ask")
    /\ UNCHANGED world

\* require_company_active, which lets an unknown company pass, and the token
\* of _excel_refresh_response.
MintToken(c) ==
    /\ IsAt(c, "r_company")
    /\ copy' = [copy EXCEPT ![c].pc = "ask",
                            ![c].minted = company # "inactive",
                            ![c].exp = IF company # "inactive" THEN clock + LoginTtl ELSE @]
    /\ UNCHANGED world

\* GET facts.csv begins: decode_jwt_claims with verify_exp.
Ask0(c) ==
    /\ IsAt(c, "ask")
    /\ copy' = [copy EXCEPT ![c].pc = IF copy[c].exp > clock THEN "d_identity" ELSE "refused",
                            ![c].kept = Bars(copy[c].jti),
                            ![c].minted = FALSE, ![c].exp = 0]
    /\ UNCHANGED world

DataIdentity(c) ==
    /\ IsAt(c, "d_identity")
    /\ copy' = [copy EXCEPT ![c].pc = IF role = "none" THEN "refused" ELSE "d_grant", ![c].at = clock]
    /\ UNCHANGED world

\* The data routes restore nothing.
DataGrant(c) ==
    /\ IsAt(c, "d_grant")
    /\ Goto(c, IF ActiveAt(copy[c].jti, copy[c].at) THEN "d_company" ELSE "refused")
    /\ UNCHANGED world

DataCompany(c) ==
    /\ IsAt(c, "d_company")
    /\ Goto(c, IF company = "inactive" THEN "refused" ELSE "d_copy")
    /\ UNCHANGED world

\* copy_published_history_csv; nothing is left of a deleted company.
DataCopy(c) ==
    /\ IsAt(c, "d_copy")
    /\ copy' = [copy EXCEPT ![c].pc = "served",
                            ![c].shown = company # "deleted" /\ history # Empty]
    /\ UNCHANGED world

Finish(c) ==
    /\ copy[c].pc \in {"served", "refused"}
    /\ copy' = [copy EXCEPT ![c] = Idle]
    /\ UNCHANGED world

-----------------------------------------------------------------------------
AccessNext ==
    \/ Tick \/ CompanyChanges \/ MembershipChanges \/ Revoke \/ Lose
    \/ \E j \in Jtis : DownloadWorkbook(j)
    \/ Register \/ Confirm \/ Deliver
    \/ \E c \in Copies, j \in Jtis : RefreshAll(c, j)
    \/ \E c \in Copies :
         \/ RefreshIdentity(c) \/ RefreshGrant(c) \/ RestoreGrant(c) \/ ReadAgain(c)
         \/ MintToken(c) \/ Ask0(c) \/ DataIdentity(c) \/ DataGrant(c)
         \/ DataCompany(c) \/ DataCopy(c) \/ Finish(c)

-----------------------------------------------------------------------------
(* Properties *)

\* excel_grant.py: "grant expires_at and revoked_at are the kill switches".  No
\* row is shown to a request that was barred from its beginning to its end: by
\* a revoked or ended grant, a lost membership or an inactive company, however
\* refreshes, lost and restored grants and other copies interleave.
ServedWhileGranted ==
    \A c \in Copies : copy[c].pc = "served" /\ copy[c].shown => copy[c].kept = {}

\* A workbook that is told its session expired has met a reason since its
\* refresh began: its grant was over, revoked or just lost, the account or the
\* company barred it, or it was too slow with the new token.  In particular
\* grants lost earlier are restored, by several copies at once too.
RefusedForAReason ==
    \A c \in Copies : copy[c].pc = "refused" => copy[c].met
=============================================================================
