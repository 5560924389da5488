-------------------------- MODULE ConsolidatedCache --------------------------
(***************************************************************************)
(* The on-disk cache of one client's consolidated workbook: the warm job   *)
(* that a publication or a download queues, the downloads that use the     *)
(* cache or render the workbook themselves, and publications that change   *)
(* the history between any two of their reads.  Publications are those of  *)
(* PublishedHistory, which Publication implements.                         *)
(*                                                                         *)
(* A workbook is known by the history it was rendered from.                *)
(***************************************************************************)
EXTENDS PublishedHistory, FiniteSets

CONSTANTS
    Publishers,  \* request threads that publish
    Clients,     \* request threads that download
    MaxCrashes,  \* bound on API restarts
    MaxStuck     \* bound on files that could not be removed

Warmer  == "warmer"   \* the one thread of the warm pool

ASSUME CacheConstants ==
    /\ {MaxCrashes, MaxStuck} \subseteq Nat /\ IsFiniteSet(Grains) /\ IsFiniteSet(Clients)
    /\ Publishers \cap Clients = {} /\ Warmer \notin Publishers \cup Clients

Readers == Clients \cup {Warmer}
Threads == Readers \cup Publishers

VARIABLES
    artifacts,  \* files of the client's cache directory
    warming,    \* PublicationService._warming holds the client
    pc,         \* where each thread is
    loc,        \* fingerprint and workbook of each reader
    crashes,    \* API restarts so far
    stuck       \* times a file could not be removed

vars == <<published, artifacts, warming, pc, loc, crashes, stuck>>

\* consolidated_history_fingerprint: two statements of one READ COMMITTED
\* transaction.  Publications are never removed, so their count stands for
\* max(id) and max(published_at) too.
NoPrint == <<0, 0>>
NotCounted == 0   \* Mutant: a fingerprint of the serving table alone.
CountOfPubs == Cardinality(pubs)
CountOfRows == Cardinality({g \in Grains : history[g] # NoFact})
Fingerprint == <<CountOfPubs, CountOfRows>>
Usable(print) == print[2] # 0

Hit(print) == \E a \in artifacts : a.print = print
Fresh == [use |-> "none", print |-> NoPrint, body |-> Empty]

Goto(t, label) == pc' = [pc EXCEPT ![t] = label]
TakePrint(t, use) ==
    /\ Goto(t, "print")
    /\ loc' = [loc EXCEPT ![t].use = use, ![t].print = NoPrint]
Done(t) == Goto(t, "idle") /\ loc' = [loc EXCEPT ![t] = Fresh]

\* Out of the rendering: a download is over, the warm job has its finally left.
Leave(t) == IF t = Warmer THEN Goto(t, "warm_end") /\ UNCHANGED loc ELSE Done(t)

faults == <<crashes, stuck>>
disk   == <<artifacts, faults>>

----------------------------------------------------------------------------
CacheInit ==
    /\ Init
    /\ artifacts = {}
    /\ warming = FALSE
    /\ pc  = [t \in Threads |-> "idle"]
    /\ loc = [t \in Readers |-> Fresh]
    /\ crashes = 0 /\ stuck = 0

PublishSlice(p, i, slice) ==
    /\ pc[p] = "idle"
    /\ Publish(i, slice)
    /\ Goto(p, "request_warm")
    /\ UNCHANGED <<disk, warming, loc>>

\* request_consolidated_warm, after the commit: dropped when one is in flight.
RequestWarm(p) ==
    /\ pc[p] = "request_warm"
    /\ warming' = TRUE
    /\ Goto(p, "idle")
    /\ UNCHANGED <<published, disk, loc>>

\* _warm_consolidated_cache begins with the fingerprint.
StartWarm ==
    /\ warming /\ pc[Warmer] = "idle"
    /\ TakePrint(Warmer, "warm")
    /\ UNCHANGED <<published, disk, warming>>

\* The route asks consolidated_download_state first.
Download(c) ==
    /\ pc[c] = "idle"
    /\ TakePrint(c, "state")
    /\ UNCHANGED <<published, disk, warming>>

ReadCount(t) ==
    /\ pc[t] = "print"
    /\ loc' = [loc EXCEPT ![t].print[1] = CountOfPubs]
    /\ Goto(t, "rows")
    /\ UNCHANGED <<published, disk, warming>>

\* Mutant: the warm job goes on without a fingerprint.
WithoutPrintWarm(t) ==
    CASE loc[t].use = "state"  -> TakePrint(t, "lookup")
      [] loc[t].use \in {"lookup", "warm"} -> Goto(t, "render") /\ UNCHANGED loc
      [] loc[t].use = "store"  -> Done(t)

\* What a fingerprint that cannot be computed means to each of its users.
WithoutPrint(t) ==
    CASE loc[t].use = "state"  -> TakePrint(t, "lookup")
      [] loc[t].use = "lookup" -> Goto(t, "render") /\ UNCHANGED loc
      [] loc[t].use = "store"  -> Done(t)
      [] loc[t].use = "warm"   -> Goto(t, "warm_end") /\ UNCHANGED loc

\* Either statement may fail; to the users that is the same as no rows.
ReadRows(t) ==
    /\ pc[t] = "rows"
    /\ \/ WithoutPrint(t)
       \/ /\ CountOfRows # 0
          /\ loc' = [loc EXCEPT ![t].print[2] = CountOfRows]
          /\ Goto(t, IF loc[t].use = "store" THEN "put" ELSE "load")
    /\ UNCHANGED <<published, disk, warming>>

\* consolidated_cache.load, by the download, its state check and the warm job.
\* A state check that misses asks for a warm job and looks once more.
Load(t) ==
    /\ pc[t] \in {"load", "load_again"}
    /\ LET hit == Hit(loc[t].print)
       IN  CASE loc[t].use = "warm" ->
                    /\ Goto(t, IF hit THEN "warm_end" ELSE "render")
                    /\ UNCHANGED <<loc, warming>>
             [] loc[t].use = "lookup" /\ hit -> Done(t) /\ UNCHANGED warming
             [] loc[t].use = "lookup" /\ ~hit ->
                    Goto(t, "render") /\ UNCHANGED <<loc, warming>>
             [] loc[t].use = "state" /\ hit -> TakePrint(t, "lookup") /\ UNCHANGED warming
             [] loc[t].use = "state" /\ ~hit ->
                    IF pc[t] = "load_again" THEN Done(t) /\ UNCHANGED warming
                    ELSE /\ warming' = TRUE
                         /\ Goto(t, "load_again")
                         /\ UNCHANGED loc
    /\ UNCHANGED <<published, disk>>

\* The whole history, at one moment: it is one page, or an error.
CumulativeItems == history

\* _render_consolidated reads the history; only a download takes another
\* fingerprint, to store what it rendered.  No history is a 404, and the
\* history may have too many rows or fail to render.
Render(t) ==
    /\ pc[t] = "render"
    /\ \/ Leave(t)
       \/ /\ CumulativeItems # Empty
          /\ Goto(t, IF t = Warmer THEN "put" ELSE "print")
          /\ loc' = [loc EXCEPT ![t].body = CumulativeItems,
                        ![t].use = IF t = Warmer THEN @ ELSE "store",
                        ![t].print = IF t = Warmer THEN @ ELSE NoPrint]
    /\ UNCHANGED <<published, disk, warming>>

\* consolidated_cache.store renames the new file into place, then drops the
\* others.  Any disk error leaves things as they are (a .part file that a
\* restart leaves behind is never read, and left out).
Put(t) ==
    /\ pc[t] = "put"
    /\ \/ /\ artifacts' = {a \in artifacts : a.print # loc[t].print} \cup
                          {[print |-> loc[t].print, body |-> loc[t].body, by |-> loc[t].use]}
          /\ Goto(t, "prune") /\ UNCHANGED loc
       \/ Leave(t) /\ UNCHANGED artifacts
    /\ UNCHANGED <<published, warming, faults>>

\* Mutant: the other files are left.
PruneNothing(t) ==
    /\ pc[t] = "prune"
    /\ Leave(t)
    /\ UNCHANGED <<published, artifacts, warming, faults>>

\* A file that cannot be removed is left for the next store.
Stale(t) == {a \in artifacts : a.print # loc[t].print}

Prune(t) ==
    /\ pc[t] = "prune"
    /\ \E left \in SUBSET Stale(t) :
        /\ artifacts' = {a \in artifacts : a.print = loc[t].print} \cup left
        /\ stuck' = stuck + Cardinality(left)
        /\ stuck' <= MaxStuck
    /\ Leave(t)
    /\ UNCHANGED <<published, warming, crashes>>

\* Mutant: the client is never discarded from _warming.
EndWarmStillWarming ==
    /\ pc[Warmer] = "warm_end"
    /\ Done(Warmer)
    /\ UNCHANGED <<published, disk, warming>>

\* The finally clause of the warm job.
EndWarm ==
    /\ pc[Warmer] = "warm_end"
    /\ warming' = FALSE
    /\ Done(Warmer)
    /\ UNCHANGED <<published, disk>>

Restart ==
    /\ crashes < MaxCrashes
    /\ crashes' = crashes + 1
    /\ warming' = FALSE
    /\ pc'  = [t \in Threads |-> "idle"]
    /\ loc' = [t \in Readers |-> Fresh]
    /\ UNCHANGED <<published, artifacts, stuck>>

Read(t) ==
    ReadCount(t) \/ ReadRows(t) \/ Load(t) \/ Render(t) \/ Put(t) \/ Prune(t)

CacheNext ==
    \/ \E p \in Publishers, i \in Ids, slice \in Slices : PublishSlice(p, i, slice)
    \/ \E p \in Publishers : RequestWarm(p)
    \/ StartWarm \/ EndWarm
    \/ \E c \in Clients : Download(c)
    \/ \E t \in Readers : Read(t)
    \/ Restart

CacheSpec == CacheInit /\ [][CacheNext]_vars

\* The warm pool's thread runs its job to the end.
FairCache == CacheSpec /\ WF_vars(StartWarm \/ EndWarm \/ Read(Warmer))

----------------------------------------------------------------------------
(* Properties. *)

\* Registries, files and readers have the shape the code gives them.
TypeOK ==
    /\ pubs \subseteq Ids /\ current \in Ids \cup {NoPub} /\ history \in Slices
    /\ \A a \in artifacts : a.body \in Slices /\ Usable(a.print)
    /\ warming \in BOOLEAN
    /\ \A t \in Readers : loc[t].body \in Slices

\* A warm job never leaves a workbook under a fingerprint that is newer than
\* the workbook: whatever was published while it rendered, what it stored
\* under the present fingerprint is the present history.
WarmedIsCurrent ==
    \A a \in artifacts : a.by = "warm" /\ a.print = Fingerprint => a.body = history

\* "One artifact per company": once nobody is storing, the directory holds
\* one file at most, and one more for each store that a restart cut short
\* between its two steps and each file that could not be removed:
\* overlapping stores clean up after each other.
Storing(t) == pc[t] = "prune"
OneArtifact ==
    (\A t \in Readers : ~Storing(t)) =>
        Cardinality(artifacts) <= 1 + crashes * Cardinality(Readers) + stuck

\* The client does not stay in _warming, where it would block every later
\* warm job, whatever the job ran into.
WarmingEnds == warming ~> ~warming

\* "Reused until the eligible published history changes": a workbook found
\* under the present fingerprint shows the present history.
CachedIsCurrent ==
    \A a \in artifacts : a.print = Fingerprint => a.body = history
=============================================================================
