---------------------------- MODULE Publication ----------------------------
(***************************************************************************)
(* PublicationService.create and PostgresPublicationStore.create: several  *)
(* publishers publish slices of one client's working set while ingestion   *)
(* goes on restating it.  A step is one SQL statement of a READ COMMITTED  *)
(* transaction: it sees what was committed when the statement began.       *)
(***************************************************************************)
EXTENDS Naturals, FiniteSets

CONSTANTS
    Grains,      \* (campaign, variation, day) keys of the client
    Runs,        \* processing runs; a fact row is known by the run it names
    NoRun,       \* no row for a grain
    Publishers,  \* request threads that publish
    NoOne,       \* nobody holds the pointer's row lock
    MaxPubs      \* bound on publications, committed or not

ASSUME PublicationConstants ==
    /\ MaxPubs \in Nat /\ NoRun \notin Runs /\ NoOne \notin Publishers
    /\ IsFiniteSet(Grains)

VARIABLES
    pubs, snap, current, history,  \* committed, see PublishedHistory
    facts,   \* fact_campaign_day: the run of each grain's row
    next,    \* published_at of the next request
    tx,      \* the transaction of each publisher
    lock     \* who has updated publication_current and not committed

Promise == INSTANCE PublishedHistory WITH Facts <- Runs, NoFact <- NoRun

Ids       == Promise!Ids
Slices    == Promise!Slices
NewestWins(S, s) == Promise!NewestWins(S, s)

vars      == <<pubs, snap, current, history, facts, next, tx, lock>>
committed == <<pubs, snap, current, history>>

Scopes == {"processing_run", "client_current"}
Idle   == [at |-> "idle", id |-> Promise!NoPub, run |-> NoRun, scope |-> "processing_run",
           expected |-> 0, slice |-> Promise!Empty, history |-> Promise!Empty]

\* _live_fact_filter, without the period bounds.
Slice(run, scope) ==
    [g \in Grains |-> IF scope = "client_current" \/ facts[g] = run THEN facts[g]
                      ELSE NoRun]

Rows(slice) == Cardinality({g \in Grains : slice[g] # NoRun})

Init ==
    /\ Promise!Init
    /\ facts = [g \in Grains |-> NoRun]
    /\ next  = 1
    /\ tx    = [p \in Publishers |-> Idle]
    /\ lock  = NoOne

\* Ingestion, cancellation and deletion go on changing the working set.
Restate(g, f) ==
    /\ facts' = [facts EXCEPT ![g] = f]
    /\ UNCHANGED <<committed, next, tx, lock>>

\* The request was let through; published_at is taken before the transaction.
Begin(p, run, scope) ==
    /\ tx[p].at = "idle"
    /\ next <= MaxPubs
    /\ next' = next + 1
    /\ tx'   = [tx EXCEPT ![p] = [Idle EXCEPT !.at = "count", !.id = next,
                                              !.run = run, !.scope = scope]]
    /\ UNCHANGED <<committed, facts, lock>>

\* _count_live_facts
Count(p) ==
    /\ tx[p].at = "count"
    /\ tx' = [tx EXCEPT ![p].at = "copy",
                        ![p].expected = Rows(Slice(tx[p].run, tx[p].scope))]
    /\ UNCHANGED <<committed, facts, next, lock>>

\* _copy_live_facts; a slice that changed since it was counted is refused.
Copy(p) ==
    /\ tx[p].at = "copy"
    /\ LET slice == Slice(tx[p].run, tx[p].scope)
       IN  tx' = [tx EXCEPT ![p] = IF Rows(slice) # @.expected THEN Idle
                                   ELSE [@ EXCEPT !.at = "point", !.slice = slice]]
    /\ UNCHANGED <<committed, facts, next, lock>>

\* Mutants: no row lock; a pointer that is committed on its own.
PointUnlocked(p) ==
    /\ tx[p].at = "point"
    /\ lock' = p
    /\ tx'   = [tx EXCEPT ![p].at = "rebuild"]
    /\ UNCHANGED <<committed, facts, next>>

PointAutocommit(p) ==
    /\ tx[p].at = "point"
    /\ lock = NoOne
    /\ lock' = p
    /\ tx'   = [tx EXCEPT ![p].at = "rebuild"]
    /\ current' = tx[p].id
    /\ UNCHANGED <<pubs, snap, history, facts, next>>

\* The upsert of publication_current locks the client's pointer row until the
\* transaction ends.
Point(p) ==
    /\ tx[p].at = "point"
    /\ lock = NoOne
    /\ lock' = p
    /\ tx'   = [tx EXCEPT ![p].at = "rebuild"]
    /\ UNCHANGED <<committed, facts, next>>

\* _rebuild_published_history_grains sees every committed publication and its
\* own.
Rebuild(p) ==
    /\ tx[p].at = "rebuild"
    /\ tx' = [tx EXCEPT ![p].at = "commit",
                        ![p].history = NewestWins(pubs \cup {tx[p].id},
                                         [snap EXCEPT ![tx[p].id] = tx[p].slice])]
    /\ UNCHANGED <<committed, facts, next, lock>>

Unlock(p) == lock' = IF lock = p THEN NoOne ELSE lock

Commit(p) ==
    /\ tx[p].at = "commit"
    /\ pubs'    = pubs \cup {tx[p].id}
    /\ snap'    = [snap EXCEPT ![tx[p].id] = tx[p].slice]
    /\ current' = tx[p].id
    /\ history' = tx[p].history
    /\ tx'      = [tx EXCEPT ![p] = Idle]
    /\ Unlock(p)
    /\ UNCHANGED <<facts, next>>

\* A statement fails, the connection is lost or the API restarts.
Rollback(p) ==
    /\ tx[p].at # "idle"
    /\ tx' = [tx EXCEPT ![p] = Idle]
    /\ Unlock(p)
    /\ UNCHANGED <<committed, facts, next>>

Next ==
    \/ \E g \in Grains, f \in Runs \cup {NoRun} : Restate(g, f)
    \/ \E p \in Publishers, run \in Runs, scope \in Scopes : Begin(p, run, scope)
    \/ \E p \in Publishers : \/ Count(p) \/ Copy(p) \/ Point(p) \/ Rebuild(p)
                             \/ Commit(p) \/ Rollback(p)

Spec == Init /\ [][Next]_vars

----------------------------------------------------------------------------
(* Properties. *)

Stages == {"idle", "count", "copy", "point", "rebuild", "commit"}

\* Committed rows and transactions have the shape the code gives them.
TypeOK ==
    /\ pubs \subseteq Ids
    /\ snap \in [Ids -> Slices]
    /\ current \in Ids \cup {Promise!NoPub}
    /\ history \in Slices
    /\ facts \in Slices
    /\ next \in 1..(MaxPubs + 1)
    /\ lock \in Publishers \cup {NoOne}
    /\ tx \in [Publishers -> [at : Stages, id : Nat, run : Runs \cup {NoRun},
                              scope : Scopes, expected : Nat,
                              slice : Slices, history : Slices]]

\* The serving table is always the newest-wins union of the complete
\* snapshots, whatever order overlapping publications commit or fail in.
HistoryIsNewestWins == history = NewestWins(pubs, snap)

\* The table's statements implement publications that take effect one at a
\* time: no reader sees a pointer, a snapshot and a history of different
\* publications, and none is lost.
PublishesAtomically == Promise!Spec
=============================================================================
