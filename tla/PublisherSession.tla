-------------------------- MODULE PublisherSession --------------------------
(***************************************************************************)
(* Sign-in, logout and the Publisher lease: auth_routes.py,                *)
(* publisher_session.py, limits.py and the transactions of                 *)
(* db/publisher_session.py.  A tab is a page of the website that makes one *)
(* request at a time; a step is one transaction, one statement of the      *)
(* registration, or one access to a limiter.                               *)
(***************************************************************************)
EXTENDS Integers, FiniteSets

CONSTANTS
    Users, Tabs, Owner,          \* accounts, pages, the account of each page
    Sids, NoSid,                 \* session ids; no id held
    NoUser, NoTab,
    LeaseSeconds,                \* dfip_publisher_session_lease_seconds
    MaxOpens, MaxFailures,       \* caps of the two limiters
    Window,                      \* their window
    MaxTime, MaxVersion          \* bounds on the clock and on logouts

ASSUME SessionConstants ==
    /\ IsFiniteSet(Tabs) /\ Owner \in [Tabs -> Users]
    /\ NoSid \notin Sids /\ NoTab \notin Tabs /\ NoUser \notin Users
    /\ {LeaseSeconds, MaxOpens, MaxFailures, Window} \subseteq Nat \ {0}
    /\ {MaxTime, MaxVersion} \subseteq Nat

VARIABLES
    now,
    version,   \* app_user.token_version
    session,   \* publisher_session, and the ids not handed out yet
    advisory,  \* holder of the user's advisory lock
    opens,     \* RateWindowLimiter: stamps of each user's openings
    failures,  \* AttemptLimiter: stamps of each user's failed sign-ins
    tab

vars == <<now, version, session, advisory, opens, failures, tab>>

Unused   == [state |-> "unused", user |-> NoUser, expires |-> 0]
FreshTab == [pc |-> "idle", token |-> 0, page |-> NoSid, at |-> 0, seen |-> 0,
             revoking |-> {}]

Init ==
    /\ now = 0
    /\ version  = [u \in Users |-> 1]
    /\ session  = [s \in Sids |-> Unused]
    /\ advisory = [u \in Users |-> NoTab]
    /\ opens    = [u \in Users |-> {}]
    /\ failures = [u \in Users |-> {}]
    /\ tab      = [t \in Tabs |-> FreshTab]

-----------------------------------------------------------------------------
\* _prune_unlocked: a stamp counts while it is younger than the window.
\* Only their number matters: stamps of the same moment are told apart by nth.
Recent(stamps) == {stamp \in stamps : stamp.at > now - Window}
ThrottledLate(stamps, cap) == Cardinality(Recent(stamps)) > cap   \* Mutant: one too many.
Throttled(stamps, cap) == Cardinality(Recent(stamps)) >= cap
Record(stamps) ==
    LET sameMoment == {stamp \in stamps : stamp.at = now}
    IN  Recent(stamps) \cup {[at |-> now, nth |-> Cardinality(sameMoment) + 1]}

Live(u)      == {s \in Sids : session[s].state = "live" /\ session[s].user = u}
ActiveAt(s, moment) ==
    s \in Sids /\ session[s].state = "live" /\ session[s].expires > moment

\* The account's row, as fetch_credential and fetch_identity read it.
TokenVersion(u) == version[u]

\* enrich_principal: the claim "ver" against the account's row.
Authentic(t) == tab[t].token = TokenVersion(Owner[t])

\* Rows a registration has updated and not committed.
RowLocked(s) == \E t \in Tabs : tab[t].pc = "insert" /\ s \in tab[t].revoking

\* A request that is answered leaves nothing behind but the token and the id.
Goto(t, pc) == tab' = [tab EXCEPT ![t].pc = pc]
Ends(t, token, page) ==
    tab' = [tab EXCEPT ![t] = [FreshTab EXCEPT !.token = token, !.page = page]]
EndsAsItWas(t) == Ends(t, tab[t].token, tab[t].page)
At(t, pc)   == tab[t].pc = pc

-----------------------------------------------------------------------------
Tick == /\ now < MaxTime
        /\ now' = now + 1
        /\ UNCHANGED <<version, session, advisory, opens, failures, tab>>

\* A page keeps its session id in memory only: loading it again forgets the id.
LoadPage(t) ==
    /\ At(t, "idle")
    /\ tab' = [tab EXCEPT ![t].page = NoSid]
    /\ UNCHANGED <<now, version, session, advisory, opens, failures>>

\* login: the limiter, then the credential record is read; the password is
\* verified against it, and the token carries the version read then.
LoginRead(t) ==
    /\ At(t, "idle") /\ ~Throttled(failures[Owner[t]], MaxFailures)
    /\ tab' = [tab EXCEPT ![t].pc = "login", ![t].seen = TokenVersion(Owner[t])]
    /\ UNCHANGED <<now, version, session, advisory, opens, failures>>

LoginRefused(t) ==
    /\ At(t, "login") /\ EndsAsItWas(t)
    /\ failures' = [failures EXCEPT ![Owner[t]] = Record(@)]
    /\ UNCHANGED <<now, version, session, advisory, opens>>

LoginAccepted(t) ==
    /\ At(t, "login")
    /\ Ends(t, tab[t].seen, tab[t].page)
    /\ failures' = [failures EXCEPT ![Owner[t]] = {}]
    /\ UNCHANGED <<now, version, session, advisory, opens>>

\* increment_token_version, one UPDATE.
Incremented(u) == [version EXCEPT ![u] = @ + 1]

\* logout: two transactions; the second may fail and is then forgotten.
LogoutBump(t) ==
    /\ At(t, "idle") /\ Authentic(t) /\ version[Owner[t]] < MaxVersion
    /\ version' = Incremented(Owner[t])
    /\ Goto(t, "release")
    /\ UNCHANGED <<now, session, advisory, opens, failures>>

Revoked(S) == [s \in Sids |-> IF s \in S THEN [session[s] EXCEPT !.state = "revoked"]
                              ELSE session[s]]

LogoutRelease(t) ==
    /\ At(t, "release") /\ EndsAsItWas(t)
    /\ \A s \in Live(Owner[t]) : ~RowLocked(s)
    /\ session' = Revoked(Live(Owner[t]))
    /\ UNCHANGED <<now, version, advisory, opens, failures>>

LogoutForgotten(t) ==
    /\ At(t, "release") /\ EndsAsItWas(t)
    /\ UNCHANGED <<now, version, session, advisory, opens, failures>>

-----------------------------------------------------------------------------
Opening(t) == tab[t].pc \in {"record", "lock", "revoke", "insert"}

\* open_publisher_session: is_blocked, record, then the lease.  The last
\* conjunct is the bound on session ids.
OpenCheck(t) ==
    /\ At(t, "idle") /\ Authentic(t) /\ ~Throttled(opens[Owner[t]], MaxOpens)
    /\ Goto(t, "record")
    /\ Cardinality({s \in Sids : session[s] = Unused})
         > Cardinality({x \in Tabs : Opening(x)})
    /\ UNCHANGED <<now, version, session, advisory, opens, failures>>

OpenRecord(t) ==
    /\ At(t, "record")
    /\ opens' = [opens EXCEPT ![Owner[t]] = Record(@)]
    /\ tab' = [tab EXCEPT ![t].pc = IF tab[t].page = NoSid THEN "lock" ELSE "present",
                          ![t].at = now]
    /\ UNCHANGED <<now, version, session, advisory, failures>>

\* register_publisher_session with an id: get_active in one transaction, renew
\* in the next.  A page whose id is not active is told it was replaced.
Present(t) ==
    /\ At(t, "present")
    /\ LET s == tab[t].page
           continues == ActiveAt(s, now) /\ session[s].user = Owner[t]
       IN  IF continues THEN tab' = [tab EXCEPT ![t].pc = "renew", ![t].at = now]
           ELSE EndsAsItWas(t)
    /\ UNCHANGED <<now, version, session, advisory, opens, failures>>

Heartbeat(t) ==
    /\ At(t, "idle") /\ Authentic(t) /\ tab[t].page # NoSid
    /\ tab' = [tab EXCEPT ![t].pc = "renew", ![t].at = now]
    /\ UNCHANGED <<now, version, session, advisory, opens, failures>>

\* renew_session: one UPDATE, with the moment taken before it.
Renew(t) ==
    /\ At(t, "renew") /\ ~RowLocked(tab[t].page) /\ EndsAsItWas(t)
    /\ LET s == tab[t].page
       IN  session' = IF ActiveAt(s, tab[t].at) /\ session[s].user = Owner[t]
                      THEN [session EXCEPT ![s].expires = tab[t].at + LeaseSeconds]
                      ELSE session
    /\ UNCHANGED <<now, version, advisory, opens, failures>>

\* Mutant: no lock is taken.
AdvisoryLockSkipped(t) ==
    /\ At(t, "lock") /\ Goto(t, "revoke")
    /\ UNCHANGED <<now, version, session, advisory, opens, failures>>

\* register_session: the advisory lock, the UPDATE that revokes, the INSERT
\* that the unique index publisher_session_one_active may refuse, COMMIT.
AdvisoryLock(t) ==
    /\ At(t, "lock") /\ advisory[Owner[t]] = NoTab /\ Goto(t, "revoke")
    /\ advisory' = [advisory EXCEPT ![Owner[t]] = t]
    /\ UNCHANGED <<now, version, session, opens, failures>>

Revoke(t) ==
    /\ At(t, "revoke") /\ \A s \in Live(Owner[t]) : ~RowLocked(s)
    /\ tab' = [tab EXCEPT ![t].pc = "insert", ![t].revoking = Live(Owner[t])]
    /\ UNCHANGED <<now, version, session, advisory, opens, failures>>

UnlockNothing(t) == advisory   \* Mutant: the lock outlives its transaction.
Unlock(t) == [u \in Users |-> IF advisory[u] = t THEN NoTab ELSE advisory[u]]
EndsRegistration(t, page) ==
    /\ Ends(t, tab[t].token, page)
    /\ advisory' = Unlock(t)
    /\ UNCHANGED <<now, version, opens, failures>>

IndexConflict(t) == Live(Owner[t]) \ tab[t].revoking # {}

\* Mutant: an id may be handed out again.
InsertCommitReused(t, s) ==
    /\ At(t, "insert") /\ ~IndexConflict(t) /\ session[s].state # "live"
    /\ session' = [Revoked(tab[t].revoking) EXCEPT ![s] =
                     [state |-> "live", user |-> Owner[t],
                      expires |-> tab[t].at + LeaseSeconds]]
    /\ EndsRegistration(t, s)

InsertCommit(t, s) ==
    /\ At(t, "insert") /\ ~IndexConflict(t) /\ session[s] = Unused
    /\ session' = [Revoked(tab[t].revoking) EXCEPT ![s] =
                     [state |-> "live", user |-> Owner[t],
                      expires |-> tab[t].at + LeaseSeconds]]
    /\ EndsRegistration(t, s)

\* The connection fails, or the index refuses: rolled back, answered 503.
RegistrationFails(t) ==
    /\ At(t, "revoke") \/ At(t, "insert")
    /\ EndsRegistration(t, tab[t].page)
    /\ UNCHANGED session

-----------------------------------------------------------------------------
\* select_client, the gated route that issues a token: get_principal checks
\* the token and the session, the handler reads the account again.
SelectGate(t) ==
    /\ At(t, "idle") /\ Authentic(t)
    /\ ActiveAt(tab[t].page, now) /\ session[tab[t].page].user = Owner[t]
    /\ Goto(t, "select")
    /\ UNCHANGED <<now, version, session, advisory, opens, failures>>

SelectIssue(t) ==
    /\ At(t, "select")
    /\ Ends(t, version[Owner[t]], tab[t].page)
    /\ UNCHANGED <<now, version, session, advisory, opens, failures>>

-----------------------------------------------------------------------------
Answer(t) == \/ LoginRefused(t) \/ LoginAccepted(t) \/ LogoutRelease(t)
             \/ LogoutForgotten(t) \/ OpenRecord(t) \/ Present(t) \/ Renew(t)
             \/ Revoke(t) \/ RegistrationFails(t) \/ SelectIssue(t)
             \/ \E s \in Sids : InsertCommit(t, s)

Next == \/ Tick
        \/ \E t \in Tabs :
             \/ LoadPage(t) \/ LoginRead(t) \/ LogoutBump(t) \/ OpenCheck(t)
             \/ Heartbeat(t) \/ SelectGate(t) \/ AdvisoryLock(t) \/ Answer(t)

\* A request's thread runs on; PostgreSQL queues the waiters of an advisory
\* lock, so a waiter is not overtaken for ever.
Fairness == \A t \in Tabs : WF_vars(Answer(t)) /\ SF_vars(AdvisoryLock(t))

Spec     == Init /\ [][Next]_vars
FairSpec == Spec /\ Fairness

-----------------------------------------------------------------------------
Places == {"idle", "login", "release", "record", "present", "renew", "lock",
           "revoke", "insert", "select"}

Stamps == [at : 0..MaxTime, nth : Nat \ {0}]

TypeOK ==
    /\ now \in 0..MaxTime
    /\ version \in [Users -> 1..(MaxVersion + 1)]
    /\ session \in [Sids -> [state : {"unused", "live", "revoked"},
                             user : Users \cup {NoUser}, expires : Nat]]
    /\ \A s \in Sids : session[s].state # "unused" => session[s].user \in Users
    /\ advisory \in [Users -> Tabs \cup {NoTab}]
    /\ opens \in [Users -> SUBSET Stamps] /\ failures \in [Users -> SUBSET Stamps]
    /\ tab \in [Tabs -> [pc : Places, token : 0..(MaxVersion + 1),
                         page : Sids \cup {NoSid}, at : 0..MaxTime,
                         seen : 0..(MaxVersion + 1), revoking : SUBSET Sids]]

\* Registration never fails because of another one: with the advisory lock
\* every live session of the account is among those the transaction revokes.
NoIndexConflict == \A t \in Tabs : At(t, "insert") => ~IndexConflict(t)

\* The limiters are read in one step and counted in a later one.  However the
\* requests interleave, a window sees at most one opening, and one guess, per
\* page more than the cap allows.
TabsOf(u) == {t \in Tabs : Owner[t] = u}
BurstBounded ==
    \A u \in Users :
      /\ Cardinality(Recent(opens[u])) < MaxOpens + Cardinality(TabsOf(u))
      /\ Cardinality(Recent(failures[u])) < MaxFailures + Cardinality(TabsOf(u))

\* The session that holds each account: newest wins, replaced never returns.
HolderOf == [u \in Users |-> IF Live(u) = {} THEN NoSid
                             ELSE CHOOSE s \in Live(u) : TRUE]
Holder == INSTANCE SingleHolder WITH
            Sessions <- Sids, Nobody <- NoSid, holder <- HolderOf,
            spent <- {s \in Sids : session[s].state # "unused"}
ReplacedNeverReturns == Holder!Spec

\* A page that waits to register is answered: nobody keeps the account's lock.
OpenEnds == \A t \in Tabs : At(t, "lock") ~> At(t, "idle")
=============================================================================
