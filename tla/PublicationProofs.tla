-------------------------- MODULE PublicationProofs --------------------------
(***************************************************************************)
(* What holds of publications for any number of grains, runs, publishers   *)
(* and publications: the serving table is the newest-wins union of the     *)
(* complete snapshots, and the statements of the code's transaction        *)
(* implement publications that take effect one at a time.                  *)
(***************************************************************************)
EXTENDS Publication, FiniteSetTheorems, WellFoundedInduction, TLAPS

(* The pointer's row lock is held exactly between the pointer upsert and    *)
(* the end of the transaction.                                              *)
LockIsHeld ==
    \A p \in Publishers : tx[p].at \in {"rebuild", "commit"} <=> lock = p

(* A request's published_at is its own: no other request and no committed   *)
(* publication has it.                                                      *)
IdsAreOwn ==
    /\ \A i \in pubs : i < next
    /\ \A p \in Publishers : tx[p].at # "idle" =>
          /\ tx[p].id \in Ids
          /\ tx[p].id < next
          /\ tx[p].id \notin pubs
          /\ \A q \in Publishers \ {p} :
                tx[q].at # "idle" => tx[q].id # tx[p].id

(* A rebuilt history stays the one to commit, because no other transaction  *)
(* can pass the pointer's lock before this one ends: this is what makes     *)
(* HistoryIsNewestWins inductive.                                           *)
RebuiltIsDue ==
    \A p \in Publishers : tx[p].at = "commit" =>
        tx[p].history = NewestWins(pubs \cup {tx[p].id},
                                   [snap EXCEPT ![tx[p].id] = tx[p].slice])

PublicationInv ==
    /\ TypeOK
    /\ LockIsHeld
    /\ IdsAreOwn
    /\ RebuiltIsDue
    /\ HistoryIsNewestWins

-----------------------------------------------------------------------------
(* Lemmas on the serving table. *)

(* A non-empty set of publications has a newest one, so DISTINCT ON has a   *)
(* row to pick.                                                             *)
LEMMA NewestExists ==
    ASSUME NEW n \in Nat, NEW S \in SUBSET (1..n), S # {}
    PROVE  \E i \in S : \A j \in S : j <= i
<1> DEFINE R == OpToRel(<, Nat)
           T == {n - i : i \in S}
<1>1. IsWellFoundedOn(R, Nat)
  BY NatLessThanWellFounded
<1>2. T \subseteq Nat /\ T # {}
  <2>1. \A i \in S : n - i \in Nat
    OBVIOUS
  <2> QED
    BY <2>1
<1> HIDE DEF R, T
<1>3. PICK x \in T : \A y \in T : ~(<<y, x>> \in R)
  BY <1>1, <1>2, WFMin
<1>4. \A y \in T : ~(y < x)
  BY <1>2, <1>3 DEF R, OpToRel
<1>5. PICK i \in S : x = n - i
  BY DEF T
<1>6. \A j \in S : n - j \in T
  BY DEF T
<1>7. \A j \in S : ~(n - j < n - i)
  BY <1>4, <1>5, <1>6
<1> QED
  BY <1>7

(* The newest-wins union of snapshots is a slice.                           *)
LEMMA NewestWinsIsASlice ==
    ASSUME NEW S \in SUBSET Ids, NEW s \in [Ids -> Slices]
    PROVE  NewestWins(S, s) \in Slices
<1>1. ASSUME NEW g \in Grains, Promise!Holders(g, S, s) # {}
      PROVE  Promise!Newest(Promise!Holders(g, S, s)) \in Ids
  <2> DEFINE H == Promise!Holders(g, S, s)
  <2>1. H \in SUBSET (1..MaxPubs)
    BY DEF Promise!Holders, Ids, Promise!Ids
  <2>2. \E i \in H : \A j \in H : j <= i
    BY <1>1, <2>1, NewestExists, PublicationConstants
  <2>3. Promise!Newest(H) \in H
    BY <2>2 DEF Promise!Newest
  <2> QED
    BY <2>1, <2>3 DEF Ids, Promise!Ids
<1>2. ASSUME NEW g \in Grains, NEW i \in Ids
      PROVE  s[i][g] \in Runs \cup {NoRun}
  BY DEF Slices, Promise!Slices
<1> QED
  BY <1>1, <1>2 DEF NewestWins, Promise!NewestWins, Slices, Promise!Slices

(* The rows a publication would copy are a slice, and can be counted.       *)
LEMMA SliceIsASlice ==
    ASSUME TypeOK, NEW r, NEW scope
    PROVE  Slice(r, scope) \in Slices
BY DEF TypeOK, Slice, Slices, Promise!Slices

LEMMA RowsAreCounted ==
    ASSUME NEW slice
    PROVE  Rows(slice) \in Nat
<1>1. {g \in Grains : slice[g] # NoRun} \subseteq Grains
  OBVIOUS
<1>2. IsFiniteSet({g \in Grains : slice[g] # NoRun})
  BY <1>1, FS_Subset, PublicationConstants
<1> QED
  BY <1>2, FS_CardinalityType DEF Rows

LEMMA EmptyIsASlice == Promise!Empty \in Slices
BY DEF Promise!Empty, Slices, Promise!Slices

(* A transaction record, and the one a thread has between requests.         *)
Transaction == [at : Stages, id : Nat, run : Runs \cup {NoRun},
                scope : Scopes, expected : Nat, slice : Slices, history : Slices]

LEMMA IdleIsATransaction == Idle \in Transaction /\ Idle.at = "idle"
BY EmptyIsASlice DEF Idle, Transaction, Stages, Scopes, Promise!NoPub

-----------------------------------------------------------------------------
(* The inductive invariant. *)

LEMMA PublicationInit == Init => PublicationInv
<1> SUFFICES ASSUME Init PROVE PublicationInv
  OBVIOUS
<1>1. \A p \in Publishers : tx[p] = Idle
  BY DEF Init
<1>2. TypeOK
  <2>1. tx \in [Publishers -> Transaction]
    BY IdleIsATransaction DEF Init
  <2>2. facts \in Slices
    BY DEF Init, Slices, Promise!Slices
  <2>3. snap \in [Ids -> Slices] /\ history \in Slices
    BY EmptyIsASlice DEF Init, Promise!Init, Ids, Promise!Ids
  <2>4. next \in 1..(MaxPubs + 1)
    BY PublicationConstants DEF Init
  <2> QED
    BY <2>1, <2>2, <2>3, <2>4 DEF TypeOK, Transaction, Init, Promise!Init, Promise!NoPub
<1>3. LockIsHeld
  BY <1>1, IdleIsATransaction, PublicationConstants DEF LockIsHeld, Init
<1>4. IdsAreOwn /\ RebuiltIsDue
  BY <1>1, IdleIsATransaction DEF IdsAreOwn, RebuiltIsDue, Init, Promise!Init
<1>5. HistoryIsNewestWins
  BY DEF HistoryIsNewestWins, NewestWins, Promise!NewestWins, Promise!Holders,
         Init, Promise!Init, Promise!Empty
<1> QED
  BY <1>2, <1>3, <1>4, <1>5 DEF PublicationInv

(* A step that leaves the committed rows alone and takes one transaction to *)
(* its next record t keeps the invariant, if t keeps its id, or takes the   *)
(* next one, holds the lock where it must and was rebuilt from what is      *)
(* committed now.                                                           *)
LEMMA OneTransactionMoves ==
    ASSUME PublicationInv, NEW p \in Publishers, NEW t \in Transaction,
           tx' = [tx EXCEPT ![p] = t],
           UNCHANGED <<pubs, snap, current, history, facts>>,
           next' \in 1..(MaxPubs + 1),
           \/ next' = next /\ (t.at # "idle" => t.id = tx[p].id /\ tx[p].at # "idle")
           \/ next' = next + 1 /\ t.id = next /\ next \in Ids,
           lock' \in Publishers \cup {NoOne},
           lock' = p <=> t.at \in {"rebuild", "commit"},
           \A q \in Publishers \ {p} : lock' = q <=> lock = q,
           t.at = "commit" =>
               t.history = NewestWins(pubs \cup {t.id}, [snap EXCEPT ![t.id] = t.slice])
    PROVE  PublicationInv'
<1> USE DEF PublicationInv
<1>1. tx \in [Publishers -> Transaction] /\ tx' \in [Publishers -> Transaction]
  BY DEF TypeOK, Transaction
<1>2. tx'[p] = t /\ \A q \in Publishers \ {p} : tx'[q] = tx[q]
  BY <1>1
<1>3. next \in Nat /\ next' \in Nat /\ next <= next' /\ Ids \subseteq Nat
      /\ pubs \subseteq Ids /\ pubs' = pubs
  BY PublicationConstants DEF TypeOK, Ids, Promise!Ids
<1>4. TypeOK'
  BY <1>1 DEF TypeOK, Transaction
<1>5. LockIsHeld'
  BY <1>2 DEF LockIsHeld
<1>6. IdsAreOwn'
  <2>1. \A i \in pubs : i < next'
    BY <1>3 DEF IdsAreOwn
  <2>2. ASSUME NEW q \in Publishers, tx'[q].at # "idle"
        PROVE  tx'[q].id \in Ids /\ tx'[q].id < next' /\ tx'[q].id \notin pubs
    <3>1. CASE q = p
      BY <3>1, <2>2, <1>2, <1>3 DEF IdsAreOwn
    <3>2. CASE q # p
      <4>1. tx[q].id \in Ids /\ tx[q].id < next /\ tx[q].id \notin pubs /\ tx'[q] = tx[q]
        BY <3>2, <2>2, <1>2 DEF IdsAreOwn
      <4>2. \A i \in Ids : i < next => i < next'
        BY <1>3
      <4> QED
        BY <4>1, <4>2
    <3> QED
      BY <3>1, <3>2
  <2>3. ASSUME NEW q \in Publishers \ {p}, tx'[q].at # "idle", tx'[p].at # "idle"
        PROVE  tx'[q].id # tx'[p].id
    BY <2>3, <1>2, <1>3 DEF IdsAreOwn
  <2>4. ASSUME NEW q \in Publishers, NEW r \in Publishers \ {q},
               tx'[q].at # "idle", tx'[r].at # "idle"
        PROVE  tx'[r].id # tx'[q].id
    <3>1. CASE q # p /\ r # p
      BY <3>1, <2>4, <1>2 DEF IdsAreOwn
    <3>2. CASE q = p \/ r = p
      BY <3>2, <2>3, <2>4
    <3> QED
      BY <3>1, <3>2
  <2> QED
    BY <2>1, <2>2, <2>4, <1>3 DEF IdsAreOwn
<1>7. RebuiltIsDue'
  <2> SUFFICES ASSUME NEW q \in Publishers, tx'[q].at = "commit"
               PROVE  tx'[q].history = NewestWins(pubs \cup {tx'[q].id},
                                            [snap EXCEPT ![tx'[q].id] = tx'[q].slice])
    BY DEF RebuiltIsDue
  <2>1. CASE q = p
    BY <2>1, <1>2
  <2>2. CASE q # p
    BY <2>2, <1>2 DEF RebuiltIsDue
  <2> QED
    BY <2>1, <2>2
<1>8. HistoryIsNewestWins'
  BY DEF HistoryIsNewestWins, NewestWins, Promise!NewestWins, Promise!Holders, Promise!Newest
<1> QED
  BY <1>4, <1>5, <1>6, <1>7, <1>8

(* The working set is no part of what a publication has frozen.             *)
LEMMA OnlyFactsMove ==
    ASSUME PublicationInv, facts' \in Slices,
           UNCHANGED <<pubs, snap, current, history, next, tx, lock>>
    PROVE  PublicationInv'
<1> USE DEF PublicationInv
<1>1. TypeOK' /\ LockIsHeld' /\ IdsAreOwn'
  BY DEF TypeOK, LockIsHeld, IdsAreOwn
<1>2. RebuiltIsDue'
  BY DEF RebuiltIsDue
<1>3. HistoryIsNewestWins'
  BY DEF HistoryIsNewestWins
<1> QED
  BY <1>1, <1>2, <1>3

(* Every step keeps the invariant.  Commit is the one that changes what is  *)
(* committed: the lock it holds leaves no other rebuilt history behind.     *)
LEMMA PublicationStep == PublicationInv /\ [Next]_vars => PublicationInv'
<1> SUFFICES ASSUME PublicationInv, [Next]_vars PROVE PublicationInv'
  OBVIOUS
<1> USE DEF PublicationInv
<1>t. \A p \in Publishers : tx[p] \in Transaction
  BY DEF TypeOK, Transaction
<1>n. next \in 1..(MaxPubs + 1) /\ lock \in Publishers \cup {NoOne}
  BY DEF TypeOK
<1>1. ASSUME NEW g \in Grains, NEW f \in Runs \cup {NoRun}, Restate(g, f)
      PROVE  PublicationInv'
  <2>1. facts' \in Slices
    BY <1>1 DEF Restate, TypeOK, Slices, Promise!Slices
  <2>2. UNCHANGED <<pubs, snap, current, history, next, tx, lock>>
    BY <1>1 DEF Restate, committed
  <2> QED
    BY <2>1, <2>2, OnlyFactsMove
<1>2. ASSUME NEW p \in Publishers, NEW run \in Runs, NEW scope \in Scopes,
             Begin(p, run, scope)
      PROVE  PublicationInv'
  <2> DEFINE t == [Idle EXCEPT !.at = "count", !.id = next, !.run = run, !.scope = scope]
  <2>0. next \in Nat
    BY <1>n, PublicationConstants
  <2>1. t \in Transaction /\ t.at = "count" /\ t.id = next
    BY <2>0, IdleIsATransaction DEF Transaction, Stages
  <2>2. next' = next + 1 /\ next' \in 1..(MaxPubs + 1) /\ next \in Ids
    BY <1>2, <1>n, PublicationConstants DEF Begin, Ids, Promise!Ids
  <2>3. lock' = lock /\ lock # p
    BY <1>2 DEF Begin, LockIsHeld
  <2>4. tx' = [tx EXCEPT ![p] = t] /\ UNCHANGED <<pubs, snap, current, history, facts>>
    BY <1>2 DEF Begin, committed
  <2> HIDE DEF t
  <2> QED
    BY <2>1, <2>2, <2>3, <2>4, <1>n, OneTransactionMoves
<1>3. ASSUME NEW p \in Publishers, Count(p)
      PROVE  PublicationInv'
  <2> DEFINE t == [tx[p] EXCEPT !.at = "copy",
                                !.expected = Rows(Slice(tx[p].run, tx[p].scope))]
  <2>1. t \in Transaction /\ t.at = "copy" /\ t.id = tx[p].id
    BY <1>t, RowsAreCounted DEF Transaction, Stages
  <2>2. tx[p].at = "count" /\ lock' = lock /\ lock # p /\ next' = next
    BY <1>3 DEF Count, LockIsHeld
  <2>3. tx' = [tx EXCEPT ![p] = t] /\ UNCHANGED <<pubs, snap, current, history, facts>>
    BY <1>3 DEF Count, committed
  <2> HIDE DEF t
  <2> QED
    BY <2>1, <2>2, <2>3, <1>n, OneTransactionMoves
<1>4. ASSUME NEW p \in Publishers, Copy(p)
      PROVE  PublicationInv'
  <2> DEFINE slice == Slice(tx[p].run, tx[p].scope)
             t == IF Rows(slice) # tx[p].expected THEN Idle
                  ELSE [tx[p] EXCEPT !.at = "point", !.slice = slice]
  <2>1. t \in Transaction /\ t.at \in {"idle", "point"}
        /\ (t.at # "idle" => t.id = tx[p].id)
    BY <1>t, SliceIsASlice, IdleIsATransaction DEF Transaction, Stages
  <2>2. tx[p].at = "copy" /\ lock' = lock /\ lock # p /\ next' = next
    BY <1>4 DEF Copy, LockIsHeld
  <2>3. tx' = [tx EXCEPT ![p] = t] /\ UNCHANGED <<pubs, snap, current, history, facts>>
    BY <1>4 DEF Copy, committed
  <2> HIDE DEF t
  <2> QED
    BY <2>1, <2>2, <2>3, <1>n, OneTransactionMoves
<1>5. ASSUME NEW p \in Publishers, Point(p)
      PROVE  PublicationInv'
  <2> DEFINE t == [tx[p] EXCEPT !.at = "rebuild"]
  <2>1. t \in Transaction /\ t.at = "rebuild" /\ t.id = tx[p].id
    BY <1>t DEF Transaction, Stages
  <2>2. tx[p].at = "point" /\ lock' = p /\ next' = next
        /\ \A q \in Publishers \ {p} : lock # q /\ lock' # q
    BY <1>5, PublicationConstants DEF Point
  <2>3. tx' = [tx EXCEPT ![p] = t] /\ UNCHANGED <<pubs, snap, current, history, facts>>
    BY <1>5 DEF Point, committed
  <2> HIDE DEF t
  <2> QED
    BY <2>1, <2>2, <2>3, <1>n, OneTransactionMoves
<1>6. ASSUME NEW p \in Publishers, Rebuild(p)
      PROVE  PublicationInv'
  <2> DEFINE h == NewestWins(pubs \cup {tx[p].id}, [snap EXCEPT ![tx[p].id] = tx[p].slice])
             t == [tx[p] EXCEPT !.at = "commit", !.history = h]
  <2>1. tx[p].at = "rebuild" /\ lock' = lock /\ lock = p /\ next' = next
    BY <1>6 DEF Rebuild, LockIsHeld
  <2>2. h \in Slices
    BY <2>1, <1>t, NewestWinsIsASlice DEF TypeOK, IdsAreOwn, Transaction
  <2> HIDE DEF h
  <2>3. t \in Transaction /\ t.at = "commit" /\ t.id = tx[p].id
        /\ t.slice = tx[p].slice /\ t.history = h
    BY <2>2, <1>t DEF Transaction, Stages
  <2>4. tx' = [tx EXCEPT ![p] = t] /\ UNCHANGED <<pubs, snap, current, history, facts>>
    BY <1>6 DEF Rebuild, committed, h
  <2> HIDE DEF t
  <2>5. t.history = NewestWins(pubs \cup {t.id}, [snap EXCEPT ![t.id] = t.slice])
    BY <2>3 DEF h
  <2> QED
    BY <2>1, <2>3, <2>4, <2>5, <1>n, OneTransactionMoves
<1>7. ASSUME NEW p \in Publishers, Commit(p)
      PROVE  PublicationInv'
  <2> DEFINE i == tx[p].id
  <2>1. /\ tx[p].at = "commit" /\ lock = p
        /\ i \in Ids /\ i < next /\ tx[p].slice \in Slices /\ tx[p].history \in Slices
        /\ i \notin pubs
    BY <1>7, <1>t DEF Commit, LockIsHeld, IdsAreOwn, Transaction
  <2>2. /\ pubs' = pubs \cup {i} /\ snap' = [snap EXCEPT ![i] = tx[p].slice]
        /\ current' = i /\ history' = tx[p].history /\ lock' = NoOne
        /\ tx' = [tx EXCEPT ![p] = Idle] /\ UNCHANGED <<facts, next>>
    BY <1>7, <2>1 DEF Commit, Unlock
  <2>3. tx' \in [Publishers -> Transaction] /\ tx'[p].at = "idle"
        /\ \A q \in Publishers \ {p} : tx'[q] = tx[q]
    BY <2>2, IdleIsATransaction DEF TypeOK, Transaction
  <2>4. TypeOK'
    BY <2>1, <2>2, <2>3 DEF TypeOK, Transaction
  <2>5. LockIsHeld'
    BY <2>1, <2>2, <2>3, PublicationConstants DEF LockIsHeld
  <2>6. IdsAreOwn'
    BY <2>1, <2>2, <2>3 DEF IdsAreOwn
  <2>7. RebuiltIsDue'
    <3>1. \A q \in Publishers : tx'[q].at # "commit"
      BY <2>1, <2>3 DEF LockIsHeld
    <3> QED
      BY <3>1 DEF RebuiltIsDue
  <2>8. HistoryIsNewestWins'
    BY <2>1, <2>2 DEF RebuiltIsDue, HistoryIsNewestWins
  <2> QED
    BY <2>4, <2>5, <2>6, <2>7, <2>8
<1>8. ASSUME NEW p \in Publishers, Rollback(p)
      PROVE  PublicationInv'
  <2>1. next' = next /\ lock' \in Publishers \cup {NoOne}
        /\ lock' # p /\ \A q \in Publishers \ {p} : lock' = q <=> lock = q
    BY <1>8, <1>n, PublicationConstants DEF Rollback, Unlock
  <2>2. tx' = [tx EXCEPT ![p] = Idle] /\ UNCHANGED <<pubs, snap, current, history, facts>>
    BY <1>8 DEF Rollback, committed
  <2> QED
    BY <2>1, <2>2, <1>n, IdleIsATransaction, OneTransactionMoves
<1>9. CASE UNCHANGED vars
  <2>1. facts' \in Slices
    BY <1>9 DEF vars, TypeOK
  <2> QED
    BY <1>9, <2>1, OnlyFactsMove DEF vars
<1> QED
  BY <1>1, <1>2, <1>3, <1>4, <1>5, <1>6, <1>7, <1>8, <1>9 DEF Next
-----------------------------------------------------------------------------
(* The theorems. *)

LEMMA PublicationInvariant == Spec => []PublicationInv
<1> QED
  BY PublicationInit, PublicationStep, PTL DEF Spec

(* Committed rows and transactions keep their shape.                        *)
THEOREM PublicationTypes == Spec => []TypeOK
<1>1. PublicationInv => TypeOK
  BY DEF PublicationInv
<1> QED
  BY <1>1, PublicationInvariant, PTL

(* The serving table is always the newest-wins union of the complete        *)
(* snapshots, for any number of overlapping publishers: the rebuild of      *)
(* _rebuild_published_history_grains never misses a committed publication.  *)
THEOREM ServesNewest == Spec => []HistoryIsNewestWins
<1>1. PublicationInv => HistoryIsNewestWins
  BY DEF PublicationInv
<1> QED
  BY <1>1, PublicationInvariant, PTL

(* The statements of the code's transaction implement publications that     *)
(* take effect one at a time: only Commit changes what readers see, and it  *)
(* is a Publish of the abstract specification.                              *)
THEOREM ImplementsPromise == Spec => PublishesAtomically
<1>1. Init => Promise!Init
  BY DEF Init
<1>2. PublicationInv /\ [Next]_vars => [Promise!Next]_(Promise!published)
  <2> SUFFICES ASSUME PublicationInv, [Next]_vars
               PROVE  Promise!Next \/ UNCHANGED Promise!published
    OBVIOUS
  <2>1. ASSUME NEW p \in Publishers, Commit(p)
        PROVE  Promise!Next
    <3>1. /\ tx[p].at = "commit" /\ tx[p].id \in Ids /\ tx[p].id \notin pubs
          /\ tx[p].slice \in Slices
          /\ tx[p].history = NewestWins(pubs \cup {tx[p].id},
                                        [snap EXCEPT ![tx[p].id] = tx[p].slice])
      BY <2>1 DEF Commit, PublicationInv, TypeOK, IdsAreOwn, RebuiltIsDue
    <3>2. history' = Promise!NewestWins(pubs', snap')
      BY <2>1, <3>1 DEF Commit, NewestWins
    <3>3. Promise!Publish(tx[p].id, tx[p].slice)
      BY <2>1, <3>1, <3>2 DEF Commit, Promise!Publish
    <3> QED
      BY <3>1, <3>3 DEF Promise!Next, Ids, Slices
  <2>2. ASSUME ~\E p \in Publishers : Commit(p)
        PROVE  UNCHANGED Promise!published
    BY <2>2 DEF Next, vars, Promise!published, committed, Restate, Begin, Count, Copy,
                Point, Rebuild, Rollback
  <2> QED
    BY <2>1, <2>2
<1> QED
  BY <1>1, <1>2, PublicationInvariant, PTL DEF Spec, PublishesAtomically, Promise!Spec
=============================================================================
