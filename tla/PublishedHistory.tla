-------------------------- MODULE PublishedHistory --------------------------
(***************************************************************************)
(* What one client's published history promises its readers: publications  *)
(* take effect one at a time and completely.  A publication freezes a      *)
(* snapshot, moves publication_current, and the serving table              *)
(* publication_history_grain is the newest-wins union of all complete      *)
(* snapshots.  Publication.tla implements this with the statements of the  *)
(* code's transaction; ConsolidatedCache.tla builds on it.                 *)
(***************************************************************************)
EXTENDS Naturals

CONSTANTS
    Grains,   \* (campaign, variation, day) keys of one client
    Facts,    \* contents a fact row can have
    NoFact,   \* no row for a grain
    MaxPubs   \* bound on publications

ASSUME PublishedConstants == MaxPubs \in Nat /\ NoFact \notin Facts

Ids   == 1..MaxPubs   \* publications in the order of published_at
NoPub == 0

Slices == [Grains -> Facts \cup {NoFact}]
Empty  == [g \in Grains |-> NoFact]

VARIABLES
    pubs,      \* committed publications
    snap,      \* publication_fact: the snapshot of each publication
    current,   \* publication_current.publication_id
    history    \* publication_history_grain

published == <<pubs, snap, current, history>>

\* DISTINCT ON (grain) ... ORDER BY published_at DESC
Holders(g, S, s) == {i \in S : s[i][g] # NoFact}
Newest(S) == CHOOSE i \in S : \A j \in S : j <= i

NewestWins(S, s) ==
    [g \in Grains |-> IF Holders(g, S, s) = {} THEN NoFact
                      ELSE s[Newest(Holders(g, S, s))][g]]

Init ==
    /\ pubs    = {}
    /\ snap    = [i \in Ids |-> Empty]
    /\ current = NoPub
    /\ history = Empty

\* Overlapping publications may take effect out of published_at order.
Publish(i, slice) ==
    /\ i \notin pubs
    /\ pubs'    = pubs \cup {i}
    /\ snap'    = [snap EXCEPT ![i] = slice]
    /\ current' = i
    /\ history' = NewestWins(pubs', snap')

Next == \E i \in Ids, slice \in Slices : Publish(i, slice)

Spec == Init /\ [][Next]_published
=============================================================================
