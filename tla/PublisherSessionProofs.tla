----------------------- MODULE PublisherSessionProofs -----------------------
(***************************************************************************)
(* What holds of the Publisher lease for any number of accounts, pages and *)
(* sessions, however long it runs: registrations of one account never meet *)
(* in the unique index, and the newest session holds the account, while a  *)
(* replaced one never comes back.  The limiters play no part in either;    *)
(* what a burst of requests gets past them is bounded by itself.           *)
(***************************************************************************)
EXTENDS PublisherSession, FiniteSetTheorems, TLAPS

SessionRow == [state : {"unused", "live", "revoked"}, user : Users \cup {NoUser}, expires : Nat]
TabRow     == [pc : Places, token : Nat, page : Sids \cup {NoSid}, at : Nat, seen : Nat,
               revoking : SUBSET Sids]

Shape ==
    /\ now \in Nat
    /\ version \in [Users -> Nat]
    /\ session \in [Sids -> SessionRow]
    /\ \A s \in Sids : session[s].state = "unused" <=> session[s].user = NoUser
    /\ advisory \in [Users -> Tabs \cup {NoTab}]
    /\ tab \in [Tabs -> TabRow]

InTransaction(t) == tab[t].pc \in {"revoke", "insert"}

(* A registration past its first statement has the account's advisory lock. *)
LockIsHeld == \A t \in Tabs : InTransaction(t) => advisory[Owner[t]] = t

(* What a registration has revoked, and not committed, is every live        *)
(* session of the account and of no other one: none can be added before it  *)
(* commits, as that takes the lock.                                         *)
RevokesTheAccount ==
    \A t \in Tabs : tab[t].pc = "insert" =>
        /\ Live(Owner[t]) \subseteq tab[t].revoking
        /\ \A s \in tab[t].revoking : session[s].user = Owner[t]

OneSession == \A u \in Users : \A r, s \in Live(u) : r = s

LeaseInv == Shape /\ LockIsHeld /\ RevokesTheAccount /\ OneSession

-----------------------------------------------------------------------------
(* Lemmas on steps. *)

(* A step of one page that leaves the transaction, or does not enter it,    *)
(* and adds no live session, keeps the three parts that matter.             *)
LEMMA OutsideTransactions ==
    ASSUME LeaseInv, NEW t \in Tabs,
           \A x \in Tabs \ {t} : tab'[x] = tab[x],
           ~InTransaction(t)',
           \A x \in Tabs \ {t} : InTransaction(x) => advisory'[Owner[x]] = advisory[Owner[x]],
           \A s \in Sids : /\ session'[s].user = session[s].user
                           /\ session'[s].state = "live" => session[s].state = "live"
    PROVE  LockIsHeld' /\ RevokesTheAccount' /\ OneSession'
<1>1. LockIsHeld'
  BY DEF LeaseInv, LockIsHeld, InTransaction
<1>2. \A u \in Users : Live(u)' \subseteq Live(u)
  BY DEF Live
<1>3. OneSession'
  BY <1>2 DEF LeaseInv, OneSession
<1>4. ASSUME NEW x \in Tabs, tab'[x].pc = "insert"
      PROVE  /\ Live(Owner[x])' \subseteq tab'[x].revoking
             /\ \A s \in tab'[x].revoking : session'[s].user = Owner[x]
  <2>1. x # t /\ tab'[x] = tab[x]
    BY <1>4 DEF InTransaction
  <2>2. Owner[x] \in Users
    BY SessionConstants
  <2>3. tab[x].revoking \subseteq Sids
    BY DEF LeaseInv, Shape, TabRow
  <2> QED
    BY <1>2, <1>4, <2>1, <2>2, <2>3 DEF LeaseInv, RevokesTheAccount
<1> QED
  BY <1>1, <1>3, <1>4 DEF RevokesTheAccount

(* The same of a step that changes no session and no lock.                  *)
LEMMA OutsideStep ==
    ASSUME LeaseInv, NEW t \in Tabs,
           \A x \in Tabs \ {t} : tab'[x] = tab[x],
           ~InTransaction(t)', UNCHANGED <<session, advisory>>
    PROVE  LockIsHeld' /\ RevokesTheAccount' /\ OneSession'
BY OutsideTransactions

-----------------------------------------------------------------------------
(* The inductive invariant. *)

LEMMA LeaseInit == Init => LeaseInv
<1> SUFFICES ASSUME Init PROVE LeaseInv
  OBVIOUS
<1>1. Shape
  BY DEF Init, Shape, Unused, FreshTab, SessionRow, TabRow, Places
<1>2. \A t \in Tabs : tab[t].pc = "idle"
  BY DEF Init, FreshTab
<1>3. \A u \in Users : Live(u) = {}
  BY DEF Init, Live, Unused
<1> QED
  BY <1>1, <1>2, <1>3 DEF LeaseInv, LockIsHeld, InTransaction, RevokesTheAccount, OneSession

(* Every row of a page that is answered has its shape.                      *)
LEMMA EndsHasShape ==
    ASSUME Shape, NEW t \in Tabs, NEW token \in Nat, NEW page \in Sids \cup {NoSid},
           Ends(t, token, page)
    PROVE  /\ tab' \in [Tabs -> TabRow]
           /\ \A x \in Tabs \ {t} : tab'[x] = tab[x]
           /\ tab'[t].pc = "idle"
BY DEF Shape, Ends, FreshTab, TabRow, Places

LEMMA EndsAsItWasHasShape ==
    ASSUME Shape, NEW t \in Tabs, EndsAsItWas(t)
    PROVE  /\ tab' \in [Tabs -> TabRow]
           /\ \A x \in Tabs \ {t} : tab'[x] = tab[x]
           /\ tab'[t].pc = "idle"
<1>1. tab[t].token \in Nat /\ tab[t].page \in Sids \cup {NoSid}
  BY DEF Shape, TabRow
<1> QED
  BY <1>1, EndsHasShape DEF EndsAsItWas

(* Sessions that are revoked, together.                                     *)
LEMMA RevokedSessions ==
    ASSUME Shape, NEW S \in SUBSET Sids
    PROVE  /\ Revoked(S) \in [Sids -> SessionRow]
           /\ \A s \in Sids : /\ Revoked(S)[s].user = session[s].user
                              /\ Revoked(S)[s].state = IF s \in S THEN "revoked" ELSE session[s].state
BY DEF Shape, SessionRow, Revoked

LEMMA PlainSteps ==
    ASSUME LeaseInv, NEW t \in Tabs,
           \/ LoadPage(t) \/ LoginRead(t) \/ LoginRefused(t) \/ LoginAccepted(t)
           \/ LogoutBump(t) \/ LogoutForgotten(t) \/ OpenCheck(t) \/ OpenRecord(t)
           \/ Present(t) \/ Heartbeat(t) \/ SelectGate(t) \/ SelectIssue(t)
    PROVE  LeaseInv'
<1> USE DEF LeaseInv
<1>0. Owner[t] \in Users
  BY SessionConstants
<1>1. UNCHANGED <<now, session, advisory>>
  BY DEF LoadPage, LoginRead, LoginRefused, LoginAccepted, LogoutBump, LogoutForgotten,
         OpenCheck, OpenRecord, Present, Heartbeat, SelectGate, SelectIssue
<1>2. version' \in [Users -> Nat]
  BY <1>0 DEF Shape, Incremented, LoadPage, LoginRead, LoginRefused, LoginAccepted, LogoutBump,
         LogoutForgotten, OpenCheck, OpenRecord, Present, Heartbeat, SelectGate, SelectIssue
<1>3. /\ tab' \in [Tabs -> TabRow]
      /\ \A x \in Tabs \ {t} : tab'[x] = tab[x]
      /\ ~InTransaction(t)'
  <2>1. CASE LoadPage(t) \/ LoginRead(t) \/ LogoutBump(t) \/ OpenCheck(t) \/ OpenRecord(t)
             \/ Heartbeat(t) \/ SelectGate(t)
    BY <1>0, <2>1 DEF LoadPage, LoginRead, LogoutBump, OpenCheck, OpenRecord, Heartbeat, SelectGate,
           Goto, At, Shape, TabRow, Places, InTransaction, TokenVersion
  <2>2. CASE LoginRefused(t) \/ LogoutForgotten(t)
    BY <2>2, EndsAsItWasHasShape DEF LoginRefused, LogoutForgotten, InTransaction
  <2>3. CASE LoginAccepted(t)
    <3>1. tab[t].seen \in Nat /\ tab[t].page \in Sids \cup {NoSid}
      BY DEF Shape, TabRow
    <3> QED
      BY <2>3, <3>1, EndsHasShape DEF LoginAccepted, InTransaction
  <2>4. CASE SelectIssue(t)
    <3>1. version[Owner[t]] \in Nat /\ tab[t].page \in Sids \cup {NoSid}
      BY <1>0 DEF Shape, TabRow
    <3> QED
      BY <2>4, <3>1, EndsHasShape DEF SelectIssue, InTransaction
  <2>5. CASE Present(t)
    <3>1. CASE EndsAsItWas(t)
      BY <3>1, EndsAsItWasHasShape DEF InTransaction
    <3>2. CASE tab' = [tab EXCEPT ![t].pc = "renew", ![t].at = now]
      <4>1. tab \in [Tabs -> TabRow] /\ now \in Nat
        BY DEF Shape
      <4>2. tab' \in [Tabs -> TabRow]
        BY <3>2, <4>1 DEF TabRow, Places
      <4>3. tab'[t].pc = "renew" /\ \A x \in Tabs \ {t} : tab'[x] = tab[x]
        BY <3>2, <4>1 DEF TabRow
      <4> QED
        BY <4>2, <4>3 DEF InTransaction
    <3> QED
      BY <2>5, <3>1, <3>2 DEF Present
  <2> QED
    BY <2>1, <2>2, <2>3, <2>4, <2>5
<1>4. Shape'
  BY <1>1, <1>2, <1>3 DEF Shape
<1> QED
  BY <1>1, <1>3, <1>4, OutsideStep

(* Steps that change sessions and add none.                                 *)
LEMMA EndingSteps ==
    ASSUME LeaseInv, NEW t \in Tabs, LogoutRelease(t) \/ Renew(t) \/ RegistrationFails(t)
    PROVE  LeaseInv'
<1> USE DEF LeaseInv
<1>0. Owner[t] \in Users /\ tab[t].at \in Nat
  BY SessionConstants DEF Shape, TabRow
<1>1. CASE LogoutRelease(t)
  <2>1. Live(Owner[t]) \in SUBSET Sids
    BY DEF Live
  <2>2. /\ UNCHANGED <<now, version, advisory>> /\ EndsAsItWas(t)
        /\ session' = Revoked(Live(Owner[t]))
    BY <1>1 DEF LogoutRelease
  <2>3. /\ session' \in [Sids -> SessionRow]
        /\ \A s \in Sids : /\ session'[s].user = session[s].user
                           /\ session'[s].state = IF s \in Live(Owner[t]) THEN "revoked"
                                                  ELSE session[s].state
    BY <2>1, <2>2, RevokedSessions
  <2>4. \A s \in Sids : session'[s].state = "unused" <=> session'[s].user = NoUser
    BY <2>3 DEF Live, Shape
  <2>5. Shape'
    BY <2>2, <2>3, <2>4, EndsAsItWasHasShape DEF Shape
  <2>6. \A s \in Sids : session'[s].state = "live" => session[s].state = "live"
    BY <2>3
  <2> QED
    BY <2>2, <2>3, <2>5, <2>6, EndsAsItWasHasShape, OutsideTransactions DEF InTransaction
<1>2. CASE Renew(t)
  <2>1. /\ session' \in [Sids -> SessionRow]
        /\ \A s \in Sids : session'[s].user = session[s].user /\ session'[s].state = session[s].state
    BY <1>0, <1>2, SessionConstants DEF Renew, ActiveAt, Shape, SessionRow
  <2>2. Shape' /\ UNCHANGED advisory
    BY <1>2, <2>1, EndsAsItWasHasShape DEF Renew, Shape
  <2> QED
    BY <1>2, <2>1, <2>2, EndsAsItWasHasShape, OutsideTransactions DEF Renew, InTransaction
<1>3. CASE RegistrationFails(t)
  <2>1. tab[t].token \in Nat /\ tab[t].page \in Sids \cup {NoSid}
    BY DEF Shape, TabRow
  <2>2. /\ Ends(t, tab[t].token, tab[t].page) /\ UNCHANGED <<now, version, session>>
        /\ advisory' = [u \in Users |-> IF advisory[u] = t THEN NoTab ELSE advisory[u]]
    BY <1>3 DEF RegistrationFails, EndsRegistration, Unlock
  <2>3. Shape'
    BY <2>1, <2>2, EndsHasShape DEF Shape
  <2>4. \A x \in Tabs \ {t} : InTransaction(x) => advisory'[Owner[x]] = advisory[Owner[x]]
    BY <2>2, SessionConstants DEF LockIsHeld
  <2> QED
    BY <2>1, <2>2, <2>3, <2>4, EndsHasShape, OutsideTransactions DEF InTransaction
<1> QED
  BY <1>1, <1>2, <1>3

(* The lock is taken, and the account's sessions are marked.                *)
LEMMA EnteringSteps ==
    ASSUME LeaseInv, NEW t \in Tabs, AdvisoryLock(t) \/ Revoke(t)
    PROVE  LeaseInv'
<1> USE DEF LeaseInv
<1>0. Owner[t] \in Users /\ Owner \in [Tabs -> Users] /\ NoTab \notin Tabs
  BY SessionConstants
<1>1. CASE AdvisoryLock(t)
  <2>1. Shape'
    <3>1. /\ UNCHANGED <<now, version, session>> /\ tab' = [tab EXCEPT ![t].pc = "revoke"]
          /\ advisory' = [advisory EXCEPT ![Owner[t]] = t]
      BY <1>1 DEF AdvisoryLock, Goto
    <3>2. tab' \in [Tabs -> TabRow]
      BY <3>1 DEF Shape, TabRow, Places
    <3>3. advisory' \in [Users -> Tabs \cup {NoTab}]
      BY <1>0, <3>1 DEF Shape
    <3> QED
      BY <3>1, <3>2, <3>3 DEF Shape
  <2>2. /\ UNCHANGED session
        /\ advisory[Owner[t]] = NoTab /\ advisory' = [advisory EXCEPT ![Owner[t]] = t]
        /\ tab'[t].pc = "revoke" /\ \A x \in Tabs \ {t} : tab'[x] = tab[x]
    BY <1>1 DEF AdvisoryLock, Goto, Shape, TabRow
  <2>3. LockIsHeld'
    BY <1>0, <2>2 DEF LockIsHeld, InTransaction, Shape
  <2>4. \A u \in Users : Live(u)' = Live(u)
    BY <2>2 DEF Live
  <2>5. RevokesTheAccount'
    BY <1>0, <2>2, <2>4 DEF RevokesTheAccount
  <2> QED
    BY <2>1, <2>3, <2>4, <2>5 DEF OneSession
<1>2. CASE Revoke(t)
  <2>1. Live(Owner[t]) \in SUBSET Sids
    BY DEF Live
  <2> DEFINE L == Live(Owner[t])
  <2>2. /\ UNCHANGED <<now, version, session, advisory>> /\ tab[t].pc = "revoke"
        /\ tab' = [tab EXCEPT ![t].pc = "insert", ![t].revoking = L]
    BY <1>2 DEF Revoke, At
  <2>3. L \in SUBSET Sids
    BY <2>1
  <2> HIDE DEF L
  <2>4. tab \in [Tabs -> TabRow]
    BY DEF Shape
  <2>5. /\ tab' \in [Tabs -> TabRow]
        /\ tab'[t].pc = "insert" /\ tab'[t].revoking = L
        /\ \A x \in Tabs \ {t} : tab'[x] = tab[x]
    BY <2>2, <2>3, <2>4 DEF TabRow, Places
  <2>6. /\ UNCHANGED <<now, version, session, advisory>> /\ tab[t].pc = "revoke"
        /\ tab' \in [Tabs -> TabRow]
        /\ tab'[t].pc = "insert" /\ tab'[t].revoking = Live(Owner[t])
        /\ \A x \in Tabs \ {t} : tab'[x] = tab[x]
    BY <2>2, <2>5 DEF L
  <2>7. Shape'
    BY <2>6 DEF Shape
  <2>8. LockIsHeld'
    BY <2>6 DEF LockIsHeld, InTransaction
  <2>9. \A u \in Users : Live(u)' = Live(u)
    BY <2>6 DEF Live
  <2>10. RevokesTheAccount'
    BY <1>0, <2>6, <2>9 DEF RevokesTheAccount, Live
  <2> QED
    BY <2>7, <2>8, <2>9, <2>10 DEF OneSession
<1> QED
  BY <1>1, <1>2

(* What a committed registration leaves: its own session, and the live      *)
(* sessions of the other accounts.                                          *)
LEMMA Committed ==
    ASSUME LeaseInv, NEW t \in Tabs, NEW s \in Sids, InsertCommit(t, s)
    PROVE  /\ session' \in [Sids -> SessionRow]
           /\ session[s].state = "unused" /\ session[s].user = NoUser
           /\ \A r \in Sids \ {s} : /\ session'[r].user = session[r].user
                                    /\ session'[r].state = IF r \in tab[t].revoking THEN "revoked"
                                                           ELSE session[r].state
           /\ session'[s].state = "live" /\ session'[s].user = Owner[t]
           /\ Live(Owner[t])' = {s}
           /\ \A u \in Users \ {Owner[t]} : Live(u)' = Live(u)
<1> USE DEF LeaseInv
<1>0. Owner[t] \in Users /\ NoUser \notin Users /\ tab[t].at + LeaseSeconds \in Nat
  BY SessionConstants DEF Shape, TabRow
<1>1. /\ tab[t].pc = "insert" /\ session[s] = Unused /\ tab[t].revoking \in SUBSET Sids
      /\ session' = [Revoked(tab[t].revoking) EXCEPT ![s] =
                        [state |-> "live", user |-> Owner[t], expires |-> tab[t].at + LeaseSeconds]]
  BY DEF InsertCommit, At, Shape, TabRow
<1>2. session' \in [Sids -> SessionRow]
  BY <1>0, <1>1, RevokedSessions DEF SessionRow
<1>3. session[s].state = "unused" /\ session[s].user = NoUser
  BY <1>1 DEF Unused
<1>4. \A r \in Sids \ {s} : /\ session'[r].user = session[r].user
                            /\ session'[r].state = IF r \in tab[t].revoking THEN "revoked"
                                                   ELSE session[r].state
  BY <1>1, RevokedSessions
<1>5. session'[s].state = "live" /\ session'[s].user = Owner[t]
  BY <1>1, RevokedSessions
<1>6. Live(Owner[t])' = {s}
  <2>1. ASSUME NEW r \in Sids \ {s}
        PROVE  ~(session'[r].state = "live" /\ session'[r].user = Owner[t])
    BY <1>1, <1>4, <2>1 DEF RevokesTheAccount, Live
  <2> QED
    BY <1>5, <2>1 DEF Live
<1>7. ASSUME NEW u \in Users \ {Owner[t]}
      PROVE  Live(u)' = Live(u)
  <2>1. s \notin Live(u) /\ s \notin Live(u)'
    BY <1>0, <1>3, <1>5, <1>7 DEF Live
  <2>2. ASSUME NEW r \in Sids \ {s}
        PROVE  r \in Live(u)' <=> r \in Live(u)
    BY <1>1, <1>4, <1>7, <2>2 DEF RevokesTheAccount, Live
  <2> QED
    BY <2>1, <2>2 DEF Live
<1> QED
  BY <1>2, <1>3, <1>4, <1>5, <1>6, <1>7

LEMMA CommitStep ==
    ASSUME LeaseInv, NEW t \in Tabs, NEW s \in Sids, InsertCommit(t, s)
    PROVE  LeaseInv'
<1> USE DEF LeaseInv
<1>0. Owner \in [Tabs -> Users] /\ NoUser \notin Users /\ Owner[t] \in Users /\ tab[t].token \in Nat
  BY SessionConstants DEF Shape, TabRow
<1>1. /\ UNCHANGED <<now, version>> /\ Ends(t, tab[t].token, s)
      /\ advisory' = [u \in Users |-> IF advisory[u] = t THEN NoTab ELSE advisory[u]]
      /\ tab[t].pc = "insert"
  BY DEF InsertCommit, EndsRegistration, Unlock, At
<1>2. /\ tab' \in [Tabs -> TabRow] /\ tab'[t].pc = "idle"
      /\ \A x \in Tabs \ {t} : tab'[x] = tab[x]
  BY <1>0, <1>1, EndsHasShape
<1>3. /\ session' \in [Sids -> SessionRow]
      /\ session[s].state = "unused" /\ session[s].user = NoUser
      /\ session'[s].state = "live" /\ session'[s].user = Owner[t]
      /\ \A r \in Sids \ {s} : /\ session'[r].user = session[r].user
                               /\ session'[r].state = IF r \in tab[t].revoking THEN "revoked"
                                                      ELSE session[r].state
      /\ Live(Owner[t])' = {s}
      /\ \A u \in Users \ {Owner[t]} : Live(u)' = Live(u)
  BY Committed
<1>4. \A r \in tab[t].revoking : session[r].user # NoUser
  BY <1>0, <1>1 DEF RevokesTheAccount
<1>5. \A r \in Sids : session'[r].state = "unused" <=> session'[r].user = NoUser
  BY <1>0, <1>3, <1>4 DEF Shape
<1>6. Shape'
  BY <1>1, <1>2, <1>5, <1>3 DEF Shape
<1>7. LockIsHeld'
  BY <1>0, <1>1, <1>2 DEF LockIsHeld, InTransaction
<1>8. ASSUME NEW x \in Tabs, tab'[x].pc = "insert"
      PROVE  /\ Live(Owner[x])' \subseteq tab'[x].revoking
             /\ \A r \in tab'[x].revoking : session'[r].user = Owner[x]
  <2>1. x # t /\ tab'[x] = tab[x] /\ tab[x].revoking \subseteq Sids
    BY <1>2, <1>8 DEF Shape, TabRow
  <2>2. Owner[x] \in Users \ {Owner[t]}
    BY <1>0, <1>1, <1>8, <2>1 DEF LockIsHeld, InTransaction
  <2>3. Live(Owner[x])' \subseteq tab[x].revoking
    BY <1>8, <2>1, <2>2, <1>3 DEF RevokesTheAccount
  <2>4. s \notin tab[x].revoking
    BY <1>0, <1>8, <2>1, <2>2, <1>3 DEF RevokesTheAccount
  <2> QED
    BY <1>8, <1>3, <2>1, <2>3, <2>4 DEF RevokesTheAccount
<1>9. OneSession'
  <2>1. ASSUME NEW u \in Users, NEW r \in Live(u)', NEW q \in Live(u)'
        PROVE  r = q
    <3>1. CASE u = Owner[t]
      BY <1>3, <2>1, <3>1
    <3>2. CASE u # Owner[t]
      BY <1>3, <2>1, <3>2 DEF OneSession
    <3> QED
      BY <3>1, <3>2
  <2> QED
    BY <2>1 DEF OneSession
<1> QED
  BY <1>6, <1>7, <1>8, <1>9 DEF RevokesTheAccount

LEMMA LeaseStep == LeaseInv /\ [Next]_vars => LeaseInv'
<1> SUFFICES ASSUME LeaseInv, [Next]_vars PROVE LeaseInv'
  OBVIOUS
<1>1. CASE Tick
  BY <1>1 DEF Tick, LeaseInv, Shape, LockIsHeld, InTransaction, RevokesTheAccount, OneSession, Live
<1>2. CASE UNCHANGED vars
  BY <1>2 DEF vars, LeaseInv, Shape, LockIsHeld, InTransaction, RevokesTheAccount, OneSession, Live
<1>3. ASSUME NEW t \in Tabs,
             \/ LoadPage(t) \/ LoginRead(t) \/ LogoutBump(t) \/ OpenCheck(t)
             \/ Heartbeat(t) \/ SelectGate(t) \/ AdvisoryLock(t) \/ Answer(t)
      PROVE  LeaseInv'
  BY <1>3, PlainSteps, EndingSteps, EnteringSteps, CommitStep DEF Answer
<1> QED
  BY <1>1, <1>2, <1>3 DEF Next

(* However registrations, renewals, logouts and expiries interleave, the    *)
(* INSERT of register_session never meets another live session of the       *)
(* account in the unique index publisher_session_one_active.                *)
THEOREM NoConflict == Spec => []NoIndexConflict
<1>1. LeaseInv => NoIndexConflict
  BY DEF LeaseInv, NoIndexConflict, RevokesTheAccount, IndexConflict, At
<1> QED
  BY <1>1, LeaseInit, LeaseStep, PTL DEF Spec

-----------------------------------------------------------------------------
(* The promise of the lease. *)

LEMMA HolderIsLive ==
    ASSUME LeaseInv, NEW u \in Users
    PROVE  /\ Live(u) = {} => HolderOf[u] = NoSid
           /\ \A s \in Live(u) : HolderOf[u] = s
<1>1. Live(u) = {} => HolderOf[u] = NoSid
  BY DEF HolderOf
<1>2. ASSUME NEW s \in Live(u) PROVE HolderOf[u] = s
  <2>1. (CHOOSE r \in Live(u) : TRUE) \in Live(u)
    BY <1>2
  <2>2. HolderOf[u] = CHOOSE r \in Live(u) : TRUE
    BY <1>2 DEF HolderOf
  <2> QED
    BY <1>2, <2>1, <2>2 DEF LeaseInv, OneSession
<1> QED
  BY <1>1, <1>2

LEMMA HolderIsLiveNext ==
    ASSUME LeaseInv', NEW u \in Users
    PROVE  /\ Live(u)' = {} => HolderOf'[u] = NoSid
           /\ \A s \in Live(u)' : HolderOf'[u] = s
<1>1. Live(u)' = {} => HolderOf'[u] = NoSid
  BY DEF HolderOf
<1>2. ASSUME NEW s \in Live(u)' PROVE HolderOf'[u] = s
  <2>1. (CHOOSE r \in Live(u)' : TRUE) \in Live(u)'
    BY <1>2
  <2>2. HolderOf'[u] = CHOOSE r \in Live(u)' : TRUE
    BY <1>2 DEF HolderOf
  <2> QED
    BY <1>2, <2>1, <2>2 DEF LeaseInv, OneSession
<1> QED
  BY <1>1, <1>2

(* An account whose live sessions stay keeps its holder.                    *)
LEMMA HolderStays ==
    ASSUME LeaseInv, LeaseInv', NEW u \in Users, Live(u)' = Live(u)
    PROVE  HolderOf'[u] = HolderOf[u]
BY HolderIsLive, HolderIsLiveNext

Spent == {s \in Sids : session[s].state # "unused"}

LEMMA StepOfTheHolder ==
    ASSUME LeaseInv, LeaseInv', Next
    PROVE  \/ UNCHANGED <<HolderOf, Spent>>
           \/ \E u \in Users :
                \/ HolderOf' = [HolderOf EXCEPT ![u] = NoSid] /\ UNCHANGED Spent
                \/ \E s \in Sids : /\ s \notin Spent
                                   /\ HolderOf' = [HolderOf EXCEPT ![u] = s]
                                   /\ Spent' = Spent \cup {s}
<1>0. Owner \in [Tabs -> Users]
  BY SessionConstants
<1>1. /\ HolderOf = [u \in Users |-> HolderOf[u]]
      /\ HolderOf' = [u \in Users |-> HolderOf'[u]]
  BY DEF HolderOf
<1>2. ASSUME \A u \in Users : Live(u)' = Live(u) PROVE UNCHANGED HolderOf
  BY <1>1, <1>2, HolderStays
<1>3. ASSUME UNCHANGED session PROVE UNCHANGED <<HolderOf, Spent>>
  <2>1. \A u \in Users : Live(u)' = Live(u)
    BY <1>3 DEF Live
  <2> QED
    BY <1>2, <1>3, <2>1 DEF Spent
<1>4. ASSUME NEW t \in Tabs, Renew(t) PROVE UNCHANGED <<HolderOf, Spent>>
  <2>1. \A s \in Sids : session'[s].user = session[s].user /\ session'[s].state = session[s].state
    BY <1>4 DEF Renew, LeaseInv, Shape, SessionRow, ActiveAt
  <2>2. \A u \in Users : Live(u)' = Live(u)
    BY <2>1 DEF Live
  <2> QED
    BY <1>2, <2>1, <2>2 DEF Spent
<1>5. ASSUME NEW t \in Tabs, LogoutRelease(t)
      PROVE  HolderOf' = [HolderOf EXCEPT ![Owner[t]] = NoSid] /\ UNCHANGED Spent
  <2>1. Live(Owner[t]) \in SUBSET Sids /\ Owner[t] \in Users
    BY <1>0 DEF Live
  <2>2. \A s \in Sids : /\ session'[s].user = session[s].user
                        /\ session'[s].state = IF s \in Live(Owner[t]) THEN "revoked"
                                               ELSE session[s].state
    BY <1>5, <2>1, RevokedSessions DEF LogoutRelease, LeaseInv
  <2>3. Live(Owner[t])' = {}
    BY <2>2 DEF Live
  <2>4. \A u \in Users \ {Owner[t]} : Live(u)' = Live(u)
    BY <2>2 DEF Live
  <2>5. HolderOf'[Owner[t]] = NoSid
    BY <2>1, <2>3, HolderIsLiveNext
  <2>6. \A u \in Users \ {Owner[t]} : HolderOf'[u] = HolderOf[u]
    BY <2>4, HolderStays
  <2>7. UNCHANGED Spent
    BY <2>2 DEF Spent, Live
  <2> QED
    BY <1>1, <2>1, <2>5, <2>6, <2>7
<1>6. ASSUME NEW t \in Tabs, NEW s \in Sids, InsertCommit(t, s)
      PROVE  /\ s \notin Spent /\ HolderOf' = [HolderOf EXCEPT ![Owner[t]] = s]
             /\ Spent' = Spent \cup {s}
  <2>0. Owner[t] \in Users
    BY <1>0
  <2>1. HolderOf'[Owner[t]] = s
    BY <1>6, <2>0, Committed, HolderIsLiveNext
  <2>2. \A u \in Users \ {Owner[t]} : HolderOf'[u] = HolderOf[u]
    BY <1>6, Committed, HolderStays
  <2>3. s \notin Spent
    BY <1>6, Committed DEF Spent
  <2>4. session'[s].state = "live"
    BY <1>6, Committed DEF Live
  <2>5. \A r \in tab[t].revoking : r \in Sids => session[r].state # "unused"
    <3>1. tab[t].pc = "insert"
      BY <1>6 DEF InsertCommit, At
    <3>2. Owner[t] # NoUser
      BY <2>0, SessionConstants
    <3> QED
      BY <3>1, <3>2 DEF LeaseInv, RevokesTheAccount, Shape
  <2>6. Spent' = Spent \cup {s}
    BY <1>6, <2>4, <2>5, Committed DEF Spent
  <2> QED
    BY <1>1, <2>0, <2>1, <2>2, <2>3, <2>6
<1>7. CASE Tick
  BY <1>3, <1>7 DEF Tick
<1>8. ASSUME NEW t \in Tabs,
             \/ LoadPage(t) \/ LoginRead(t) \/ LogoutBump(t) \/ OpenCheck(t) \/ Heartbeat(t)
             \/ SelectGate(t) \/ AdvisoryLock(t) \/ LoginRefused(t) \/ LoginAccepted(t)
             \/ LogoutForgotten(t) \/ OpenRecord(t) \/ Present(t) \/ Revoke(t)
             \/ RegistrationFails(t) \/ SelectIssue(t)
      PROVE  UNCHANGED session
  BY <1>8 DEF LoadPage, LoginRead, LogoutBump, OpenCheck, Heartbeat, SelectGate, AdvisoryLock,
         LoginRefused, LoginAccepted, LogoutForgotten, OpenRecord, Present, Revoke,
         RegistrationFails, SelectIssue
<1> QED
  BY <1>0, <1>3, <1>4, <1>5, <1>6, <1>7, <1>8 DEF Next, Answer

(* Registrations, statement by statement, implement a lease that is taken   *)
(* over at once: the newest session holds its account, and a session that   *)
(* was replaced, or released at logout, never holds it again.               *)
THEOREM NewestHolds == Spec => ReplacedNeverReturns
<1>1. Init => Holder!Init
  <2> SUFFICES ASSUME Init PROVE Holder!Init
    OBVIOUS
  <2>1. \A u \in Users : Live(u) = {}
    BY DEF Init, Live, Unused
  <2>2. HolderOf = [u \in Users |-> NoSid]
    BY <2>1 DEF HolderOf
  <2>3. {s \in Sids : session[s].state # "unused"} = {}
    BY DEF Init, Unused
  <2> QED
    BY <2>2, <2>3 DEF Holder!Init
<1>2. LeaseInv /\ LeaseInv' /\ [Next]_vars => [Holder!Next]_(Holder!vars)
  <2> SUFFICES ASSUME LeaseInv, LeaseInv', [Next]_vars PROVE [Holder!Next]_(Holder!vars)
    OBVIOUS
  <2>1. CASE UNCHANGED vars
    <3>1. \A u \in Users : Live(u)' = Live(u)
      BY <2>1 DEF vars, Live
    <3>2. UNCHANGED HolderOf
      BY <3>1, HolderStays DEF HolderOf
    <3> QED
      BY <2>1, <3>2 DEF vars, Holder!vars
  <2>2. CASE Next
    BY <2>2, StepOfTheHolder DEF Spent, Holder!Next, Holder!TakeOver, Holder!Release, Holder!vars
  <2> QED
    BY <2>1, <2>2
<1> QED
  BY <1>1, <1>2, LeaseInit, LeaseStep, PTL DEF Spec, ReplacedNeverReturns, Holder!Spec
-----------------------------------------------------------------------------
(* What gets past a limiter. *)

Marks == [at : Nat, nth : Nat]

Waiting(u, pc) == {t \in TabsOf(u) : tab[t].pc = pc}

(* A page that has passed the limiter and is not counted yet has its place  *)
(* in the bound: with as many of them as there are pages, the cap itself is *)
(* out of reach.                                                            *)
Within(stamps, cap, u, pc) ==
    Cardinality(Recent(stamps)) + Cardinality(Waiting(u, pc)) < cap + Cardinality(TabsOf(u))

BurstInv ==
    /\ opens \in [Users -> SUBSET Marks] /\ failures \in [Users -> SUBSET Marks]
    /\ \A u \in Users : /\ IsFiniteSet(opens[u]) /\ IsFiniteSet(failures[u])
                        /\ Within(opens[u], MaxOpens, u, "record")
                        /\ Within(failures[u], MaxFailures, u, "login")

(* The arithmetic of a step: stamps run out, a request passes a limiter     *)
(* that is not full, one that passed is counted, or the limiter is reset.   *)
LEMMA PassingIsCounted ==
    ASSUME NEW all, IsFiniteSet(all), NEW cap \in Nat \ {0},
           NEW waiting \in SUBSET all, NEW waiting2 \in SUBSET all,
           NEW recent, NEW recent2, IsFiniteSet(recent),
           Cardinality(recent) + Cardinality(waiting) < cap + Cardinality(all),
           \/ recent2 \subseteq recent /\ waiting2 \subseteq waiting
           \/ recent2 = recent /\ Cardinality(recent) < cap
           \/ \E stamp, t : /\ recent2 \subseteq recent \cup {stamp}
                            /\ t \in waiting /\ waiting2 = waiting \ {t}
           \/ recent2 = {}
    PROVE  Cardinality(recent2) + Cardinality(waiting2) < cap + Cardinality(all)
<1>1. IsFiniteSet(waiting) /\ IsFiniteSet(waiting2)
  BY FS_Subset
<1>2. /\ Cardinality(all) \in Nat /\ Cardinality(recent) \in Nat
      /\ Cardinality(waiting) \in Nat /\ Cardinality(waiting2) \in Nat
      /\ Cardinality(waiting2) <= Cardinality(all)
  BY <1>1, FS_CardinalityType, FS_Subset
<1>3. CASE recent2 \subseteq recent /\ waiting2 \subseteq waiting
  <2>1. Cardinality(recent2) <= Cardinality(recent) /\ Cardinality(waiting2) <= Cardinality(waiting)
    BY <1>1, <1>3, FS_Subset
  <2>2. Cardinality(recent2) \in Nat
    BY <1>3, FS_Subset, FS_CardinalityType
  <2> QED
    BY <1>2, <2>1, <2>2
<1>4. CASE recent2 = recent /\ Cardinality(recent) < cap
  BY <1>2, <1>4
<1>5. ASSUME NEW stamp, NEW t, recent2 \subseteq recent \cup {stamp}, t \in waiting,
             waiting2 = waiting \ {t}
      PROVE  Cardinality(recent2) + Cardinality(waiting2) < cap + Cardinality(all)
  <2>1. Cardinality(waiting2) = Cardinality(waiting) - 1
    BY <1>1, <1>5, FS_RemoveElement
  <2>2. /\ IsFiniteSet(recent \cup {stamp})
        /\ Cardinality(recent \cup {stamp}) <= Cardinality(recent) + 1
    <3>1. /\ IsFiniteSet(recent \cup {stamp})
          /\ \/ Cardinality(recent \cup {stamp}) = Cardinality(recent)
             \/ Cardinality(recent \cup {stamp}) = Cardinality(recent) + 1
      BY FS_AddElement
    <3> QED
      BY <1>2, <3>1
  <2>3. Cardinality(recent2) <= Cardinality(recent \cup {stamp})
    BY <1>5, <2>2, FS_Subset
  <2>4. Cardinality(recent2) \in Nat /\ Cardinality(recent \cup {stamp}) \in Nat
    BY <1>5, <2>2, FS_Subset, FS_CardinalityType
  <2> QED
    BY <1>2, <2>1, <2>2, <2>3, <2>4
<1>6. CASE recent2 = {}
  <2>1. Cardinality(recent2) = 0
    BY <1>6, FS_EmptySet
  <2> QED
    BY <1>2, <2>1
<1> QED
  BY <1>3, <1>4, <1>5, <1>6

(* Recording a request adds one stamp to those that count.                  *)
LEMMA RecordAddsOne ==
    ASSUME now \in Nat, NEW stamps \in SUBSET Marks, IsFiniteSet(stamps)
    PROVE  /\ Record(stamps) \in SUBSET Marks /\ IsFiniteSet(Record(stamps))
           /\ \E stamp : Recent(Record(stamps)) \subseteq Recent(stamps) \cup {stamp}
<1> DEFINE same == {stamp \in stamps : stamp.at = now}
           new  == [at |-> now, nth |-> Cardinality(same) + 1]
<1>1. IsFiniteSet(same) /\ IsFiniteSet(Recent(stamps))
  BY FS_Subset DEF Recent
<1>2. Cardinality(same) \in Nat
  BY <1>1, FS_CardinalityType
<1>3. Record(stamps) = Recent(stamps) \cup {new}
  BY DEF Record
<1>4. new \in Marks
  BY <1>2 DEF Marks
<1> HIDE DEF same, new
<1>5. Record(stamps) \in SUBSET Marks
  BY <1>3, <1>4 DEF Recent
<1>6. IsFiniteSet(Record(stamps))
  BY <1>1, <1>3, FS_AddElement
<1>7. Recent(Record(stamps)) \subseteq Recent(stamps) \cup {new}
  BY <1>3 DEF Recent
<1> QED
  BY <1>5, <1>6, <1>7

(* A step of one page, as one limiter sees it.                              *)
LEMMA LimiterStep ==
    ASSUME now \in Nat, NEW t \in Tabs, NEW pc, NEW cap \in Nat \ {0},
           \A x \in Tabs \ {t} : tab'[x] = tab[x],
           NEW before \in [Users -> SUBSET Marks], NEW after,
           \A u \in Users : IsFiniteSet(before[u]) /\ Within(before[u], cap, u, pc),
           \/ after = before /\ (tab'[t].pc # pc \/ ~Throttled(before[Owner[t]], cap))
           \/ /\ after = [before EXCEPT ![Owner[t]] = Record(@)]
              /\ tab[t].pc = pc /\ tab'[t].pc # pc
           \/ after = [before EXCEPT ![Owner[t]] = {}] /\ tab'[t].pc # pc
    PROVE  /\ after \in [Users -> SUBSET Marks]
           /\ \A u \in Users :
                /\ IsFiniteSet(after[u])
                /\ Cardinality(Recent(after[u]))
                     + Cardinality({x \in TabsOf(u) : tab'[x].pc = pc})
                   < cap + Cardinality(TabsOf(u))
<1> DEFINE own == Owner[t]
<1>0. own \in Users /\ IsFiniteSet(Tabs)
  BY SessionConstants
<1>1. after \in [Users -> SUBSET Marks] /\ \A u \in Users : IsFiniteSet(after[u])
  BY <1>0, RecordAddsOne, FS_EmptySet
<1>2. ASSUME NEW u \in Users
      PROVE  Cardinality(Recent(after[u])) + Cardinality({x \in TabsOf(u) : tab'[x].pc = pc})
               < cap + Cardinality(TabsOf(u))
  <2> DEFINE waiting2 == {x \in TabsOf(u) : tab'[x].pc = pc}
  <2>1. IsFiniteSet(TabsOf(u)) /\ IsFiniteSet(Recent(before[u]))
    BY <1>0, FS_Subset DEF TabsOf, Recent
  <2>2. Waiting(u, pc) \in SUBSET TabsOf(u) /\ waiting2 \in SUBSET TabsOf(u)
    BY DEF Waiting
  <2>3. Cardinality(Recent(before[u])) + Cardinality(Waiting(u, pc)) < cap + Cardinality(TabsOf(u))
    BY DEF Within
  <2>4. \/ Recent(after[u]) \subseteq Recent(before[u]) /\ waiting2 \subseteq Waiting(u, pc)
        \/ Recent(after[u]) = Recent(before[u]) /\ Cardinality(Recent(before[u])) < cap
        \/ \E stamp, x : /\ Recent(after[u]) \subseteq Recent(before[u]) \cup {stamp}
                         /\ x \in Waiting(u, pc) /\ waiting2 = Waiting(u, pc) \ {x}
        \/ Recent(after[u]) = {}
    <3>1. CASE u # own
      BY <1>0, <3>1 DEF Waiting, TabsOf
    <3>2. CASE u = own /\ after = before /\ tab'[t].pc # pc
      BY <3>2 DEF Waiting, TabsOf
    <3>3. CASE u = own /\ after = before /\ ~Throttled(before[Owner[t]], cap)
      <4>1. Cardinality(Recent(before[u])) \in Nat
        BY <2>1, FS_CardinalityType
      <4> QED
        BY <3>3, <4>1 DEF Throttled
    <3>4. CASE /\ u = own /\ after = [before EXCEPT ![Owner[t]] = Record(@)]
               /\ tab[t].pc = pc /\ tab'[t].pc # pc
      <4>1. after[u] = Record(before[u])
        BY <1>0, <3>4
      <4>2. \E stamp : Recent(after[u]) \subseteq Recent(before[u]) \cup {stamp}
        BY <4>1, RecordAddsOne
      <4>3. t \in Waiting(u, pc) /\ waiting2 = Waiting(u, pc) \ {t}
        BY <3>4 DEF Waiting, TabsOf
      <4> QED
        BY <4>2, <4>3
    <3>5. CASE u = own /\ after = [before EXCEPT ![Owner[t]] = {}]
      BY <1>0, <3>5 DEF Recent
    <3> QED
      BY <3>1, <3>2, <3>3, <3>4, <3>5
  <2> QED
    BY <2>1, <2>2, <2>3, <2>4, PassingIsCounted
<1> QED
  BY <1>1, <1>2

LEMMA BurstInit == Init => BurstInv
<1> SUFFICES ASSUME Init PROVE BurstInv
  OBVIOUS
<1>1. \A u \in Users : opens[u] = {} /\ failures[u] = {}
  BY DEF Init
<1>2. opens \in [Users -> SUBSET Marks] /\ failures \in [Users -> SUBSET Marks]
  BY DEF Init
<1>3. ASSUME NEW u \in Users, NEW cap \in Nat \ {0}, NEW pc \in {"record", "login"}
      PROVE  Within({}, cap, u, pc)
  <2>1. Recent({}) = {} /\ Waiting(u, pc) = {}
    BY <1>3 DEF Init, FreshTab, Recent, Waiting, TabsOf
  <2>2. IsFiniteSet(TabsOf(u))
    BY SessionConstants, FS_Subset DEF TabsOf
  <2>3. Cardinality(Recent({})) = 0 /\ Cardinality(Waiting(u, pc)) = 0
    BY <2>1, FS_EmptySet
  <2>4. Cardinality(TabsOf(u)) \in Nat
    BY <2>2, FS_CardinalityType
  <2> QED
    BY <2>3, <2>4 DEF Within
<1>4. MaxOpens \in Nat \ {0} /\ MaxFailures \in Nat \ {0}
  BY SessionConstants
<1> QED
  BY <1>1, <1>2, <1>3, <1>4, FS_EmptySet DEF BurstInv

(* The clock only takes stamps out of the windows.                          *)
LEMMA BurstTick ==
    ASSUME LeaseInv, BurstInv, Tick \/ UNCHANGED vars
    PROVE  BurstInv'
<1>0. /\ UNCHANGED <<opens, failures, tab>> /\ now \in Nat /\ now' \in Nat /\ now' >= now
      /\ Window \in Nat
  BY SessionConstants DEF LeaseInv, Shape, Tick, vars
<1>1. ASSUME NEW u \in Users, NEW stamps \in SUBSET Marks, IsFiniteSet(stamps),
             NEW cap \in Nat \ {0}, NEW pc, Within(stamps, cap, u, pc)
      PROVE  Within(stamps, cap, u, pc)'
  <2> DEFINE recent2 == {stamp \in stamps : stamp.at > now' - Window}
             waiting2 == {x \in TabsOf(u) : tab'[x].pc = pc}
  <2>1. recent2 \subseteq Recent(stamps) /\ waiting2 = Waiting(u, pc)
    BY <1>0 DEF Marks, Recent, Waiting
  <2>2. IsFiniteSet(TabsOf(u)) /\ IsFiniteSet(Recent(stamps))
    BY <1>1, SessionConstants, FS_Subset DEF TabsOf, Recent
  <2>3. Waiting(u, pc) \in SUBSET TabsOf(u) /\ waiting2 \in SUBSET TabsOf(u)
    BY DEF Waiting
  <2>4. Cardinality(Recent(stamps)) + Cardinality(Waiting(u, pc)) < cap + Cardinality(TabsOf(u))
    BY <1>1 DEF Within
  <2>5. Cardinality(recent2) + Cardinality(waiting2) < cap + Cardinality(TabsOf(u))
    BY <2>1, <2>2, <2>3, <2>4, PassingIsCounted
  <2> QED
    BY <2>5 DEF Within, Recent, Waiting, TabsOf
<1>2. MaxOpens \in Nat \ {0} /\ MaxFailures \in Nat \ {0}
  BY SessionConstants
<1>3. ASSUME NEW u \in Users
      PROVE  Within(opens[u], MaxOpens, u, "record")' /\ Within(failures[u], MaxFailures, u, "login")'
  <2>1. PICK o \in SUBSET Marks : o = opens[u]
    BY DEF BurstInv
  <2>2. PICK f \in SUBSET Marks : f = failures[u]
    BY DEF BurstInv
  <2>3. Within(o, MaxOpens, u, "record")' /\ Within(f, MaxFailures, u, "login")'
    BY <1>1, <1>2, <2>1, <2>2 DEF BurstInv
  <2> QED
    BY <1>0, <2>1, <2>2, <2>3 DEF Within, Recent
<1> QED
  BY <1>0, <1>3 DEF BurstInv

(* What a step of a page does to the limiters: only a step that passes one  *)
(* brings a page to the place where it waits to be counted.                 *)
LEMMA LimiterCases ==
    ASSUME LeaseInv, NEW t \in Tabs,
           \/ LoadPage(t) \/ LoginRead(t) \/ LogoutBump(t) \/ OpenCheck(t)
           \/ Heartbeat(t) \/ SelectGate(t) \/ AdvisoryLock(t) \/ Answer(t)
    PROVE  /\ now' = now /\ \A x \in Tabs \ {t} : tab'[x] = tab[x]
           /\ \/ opens' = opens /\ (tab'[t].pc # "record" \/ ~Throttled(opens[Owner[t]], MaxOpens))
              \/ /\ opens' = [opens EXCEPT ![Owner[t]] = Record(@)]
                 /\ tab[t].pc = "record" /\ tab'[t].pc # "record"
           /\ \/ failures' = failures /\ (tab'[t].pc # "login" \/ ~Throttled(failures[Owner[t]], MaxFailures))
              \/ /\ failures' = [failures EXCEPT ![Owner[t]] = Record(@)]
                 /\ tab[t].pc = "login" /\ tab'[t].pc # "login"
              \/ failures' = [failures EXCEPT ![Owner[t]] = {}] /\ tab'[t].pc # "login"
<1> USE DEF At
<1>0. tab \in [Tabs -> TabRow] /\ Shape
  BY DEF LeaseInv, Shape
<1>1. \A x \in Tabs : \A pc : Goto(x, pc) => /\ tab'[x].pc = pc
                                             /\ \A y \in Tabs \ {x} : tab'[y] = tab[y]
  BY <1>0 DEF Goto, TabRow
<1>2. \A token, page : Ends(t, token, page) => /\ tab'[t].pc = "idle"
                                               /\ \A y \in Tabs \ {t} : tab'[y] = tab[y]
  BY <1>0 DEF Ends, FreshTab
<1>3. EndsAsItWas(t) => tab'[t].pc = "idle" /\ \A y \in Tabs \ {t} : tab'[y] = tab[y]
  BY <1>2 DEF EndsAsItWas
<1>4. CASE LoadPage(t)
  BY <1>0, <1>4 DEF LoadPage, TabRow
<1>5. CASE LoginRead(t)
  BY <1>0, <1>5 DEF LoginRead, TabRow
<1>6. CASE OpenCheck(t)
  BY <1>1, <1>6 DEF OpenCheck
<1>7. CASE LogoutBump(t) \/ SelectGate(t) \/ AdvisoryLock(t)
  BY <1>1, <1>7 DEF LogoutBump, SelectGate, AdvisoryLock
<1>8. CASE Heartbeat(t)
  BY <1>0, <1>8 DEF Heartbeat, TabRow
<1>9. CASE LoginRefused(t)
  BY <1>3, <1>9 DEF LoginRefused
<1>10. CASE LoginAccepted(t)
  BY <1>2, <1>10 DEF LoginAccepted
<1>11. CASE LogoutRelease(t) \/ LogoutForgotten(t) \/ Renew(t)
  BY <1>3, <1>11 DEF LogoutRelease, LogoutForgotten, Renew
<1>12. CASE OpenRecord(t)
  BY <1>0, <1>12 DEF OpenRecord, TabRow
<1>13. CASE Present(t)
  <2>1. now' = now /\ opens' = opens /\ failures' = failures
    BY <1>13 DEF Present
  <2>2. CASE EndsAsItWas(t)
    BY <1>3, <2>1, <2>2
  <2>3. CASE tab' = [tab EXCEPT ![t].pc = "renew", ![t].at = now]
    BY <1>0, <2>1, <2>3 DEF TabRow
  <2> QED
    BY <1>13, <2>2, <2>3 DEF Present
<1>14. CASE Revoke(t)
  <2>1. PICK marked : tab' = [tab EXCEPT ![t].pc = "insert", ![t].revoking = marked]
    BY <1>14 DEF Revoke
  <2> QED
    BY <1>0, <1>14, <2>1 DEF Revoke, TabRow
<1>15. CASE RegistrationFails(t) \/ \E s \in Sids : InsertCommit(t, s)
  BY <1>2, <1>15 DEF RegistrationFails, InsertCommit, EndsRegistration
<1>16. CASE SelectIssue(t)
  BY <1>2, <1>16 DEF SelectIssue
<1> QED
  BY <1>4, <1>5, <1>6, <1>7, <1>8, <1>9, <1>10, <1>11, <1>12, <1>13, <1>14, <1>15, <1>16 DEF Answer

LEMMA BurstStep == LeaseInv /\ BurstInv /\ [Next]_vars => BurstInv'
<1> SUFFICES ASSUME LeaseInv, BurstInv, [Next]_vars PROVE BurstInv'
  OBVIOUS
<1>1. CASE Tick \/ UNCHANGED vars
  BY <1>1, BurstTick
<1>2. ASSUME NEW t \in Tabs,
             \/ LoadPage(t) \/ LoginRead(t) \/ LogoutBump(t) \/ OpenCheck(t)
             \/ Heartbeat(t) \/ SelectGate(t) \/ AdvisoryLock(t) \/ Answer(t)
      PROVE  BurstInv'
  <2>0. now \in Nat /\ MaxOpens \in Nat \ {0} /\ MaxFailures \in Nat \ {0}
    BY SessionConstants DEF LeaseInv, Shape
  <2>1. now' = now /\ \A x \in Tabs \ {t} : tab'[x] = tab[x]
    BY <1>2, LimiterCases
  <2>2. /\ opens' \in [Users -> SUBSET Marks]
        /\ \A u \in Users : /\ IsFiniteSet(opens'[u])
                            /\ Cardinality(Recent(opens'[u]))
                                 + Cardinality({x \in TabsOf(u) : tab'[x].pc = "record"})
                               < MaxOpens + Cardinality(TabsOf(u))
    <3>1. \A u \in Users : IsFiniteSet(opens[u]) /\ Within(opens[u], MaxOpens, u, "record")
      BY DEF BurstInv
    <3>2. \/ opens' = opens /\ (tab'[t].pc # "record" \/ ~Throttled(opens[Owner[t]], MaxOpens))
          \/ /\ opens' = [opens EXCEPT ![Owner[t]] = Record(@)]
             /\ tab[t].pc = "record" /\ tab'[t].pc # "record"
      BY <1>2, LimiterCases
    <3>3. opens \in [Users -> SUBSET Marks]
      BY DEF BurstInv
    <3> QED
      BY <2>0, <2>1, <3>1, <3>2, <3>3, LimiterStep
  <2>3. /\ failures' \in [Users -> SUBSET Marks]
        /\ \A u \in Users : /\ IsFiniteSet(failures'[u])
                            /\ Cardinality(Recent(failures'[u]))
                                 + Cardinality({x \in TabsOf(u) : tab'[x].pc = "login"})
                               < MaxFailures + Cardinality(TabsOf(u))
    <3>1. \A u \in Users : IsFiniteSet(failures[u]) /\ Within(failures[u], MaxFailures, u, "login")
      BY DEF BurstInv
    <3>2. \/ failures' = failures /\ (tab'[t].pc # "login" \/ ~Throttled(failures[Owner[t]], MaxFailures))
          \/ /\ failures' = [failures EXCEPT ![Owner[t]] = Record(@)]
             /\ tab[t].pc = "login" /\ tab'[t].pc # "login"
          \/ failures' = [failures EXCEPT ![Owner[t]] = {}] /\ tab'[t].pc # "login"
      BY <1>2, LimiterCases
    <3>3. failures \in [Users -> SUBSET Marks]
      BY DEF BurstInv
    <3>4. CASE failures' = [failures EXCEPT ![Owner[t]] = {}] /\ tab'[t].pc # "login"
      BY <2>0, <2>1, <3>1, <3>3, <3>4, LimiterStep
    <3>5. CASE ~(failures' = [failures EXCEPT ![Owner[t]] = {}] /\ tab'[t].pc # "login")
      BY <2>0, <2>1, <3>1, <3>2, <3>3, <3>5, LimiterStep
    <3> QED
      BY <3>4, <3>5
  <2> QED
    BY <2>1, <2>2, <2>3 DEF BurstInv, Within, Recent, Waiting
<1> QED
  BY <1>1, <1>2 DEF Next

(* The limiters are read in one step and counted in a later one, and the    *)
(* bound holds whatever runs in between: a window sees fewer openings, and  *)
(* fewer guesses, of an account than the cap and its pages together.        *)
THEOREM BurstsAreBounded == Spec => []BurstBounded
<1>1. BurstInv => BurstBounded
  <2> SUFFICES ASSUME BurstInv, NEW u \in Users
               PROVE  /\ Cardinality(Recent(opens[u])) < MaxOpens + Cardinality(TabsOf(u))
                      /\ Cardinality(Recent(failures[u])) < MaxFailures + Cardinality(TabsOf(u))
    BY DEF BurstBounded
  <2>1. /\ IsFiniteSet(TabsOf(u)) /\ IsFiniteSet(Waiting(u, "record"))
        /\ IsFiniteSet(Waiting(u, "login"))
        /\ IsFiniteSet(Recent(opens[u])) /\ IsFiniteSet(Recent(failures[u]))
    BY SessionConstants, FS_Subset DEF BurstInv, TabsOf, Waiting, Recent
  <2>2. /\ Cardinality(TabsOf(u)) \in Nat /\ Cardinality(Waiting(u, "record")) \in Nat
        /\ Cardinality(Waiting(u, "login")) \in Nat
        /\ Cardinality(Recent(opens[u])) \in Nat /\ Cardinality(Recent(failures[u])) \in Nat
    BY <2>1, FS_CardinalityType
  <2>3. MaxOpens \in Nat /\ MaxFailures \in Nat
    BY SessionConstants
  <2> QED
    BY <2>2, <2>3 DEF BurstInv, Within
<1> QED
  BY <1>1, LeaseInit, LeaseStep, BurstInit, BurstStep, PTL DEF Spec
=============================================================================
