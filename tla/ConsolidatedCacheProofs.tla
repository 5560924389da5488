----------------------- MODULE ConsolidatedCacheProofs -----------------------
(***************************************************************************)
(* What holds of the consolidated workbook's cache for any number of       *)
(* publishers, downloads, publications and restarts: a workbook that the   *)
(* warm job left under the present fingerprint shows the present history.  *)
(* The job takes its fingerprint before it renders, so the fingerprint is  *)
(* never the newer of the two; downloads, which take it afterwards, have   *)
(* no such guarantee, and the invariant is silent about what they store.   *)
(* The directory itself stays as small as restarts allow.                  *)
(***************************************************************************)
EXTENDS ConsolidatedCache, FiniteSetTheorems, TLAPS

Places == {"idle", "request_warm", "print", "rows", "load", "load_again", "render", "put",
           "prune", "warm_end"}
Uses   == {"none", "warm", "state", "lookup", "store"}

Locals(B) == [Readers -> [use : Uses, print : Nat \X Nat, body : B]]

Shape ==
    /\ pubs \subseteq Ids
    /\ pc \in [Threads -> Places]
    /\ \E B : loc \in Locals(B)

(* Nobody but the thread of the warm pool warms, and whoever takes or uses  *)
(* a fingerprint has a use for it.                                          *)
UseFits(place, use) ==
    /\ use # "warm"
    /\ place \in {"print", "rows"} => use \in {"state", "lookup", "store"}
    /\ place \in {"load", "load_again"} => use \in {"state", "lookup"}

WarmerWarms ==
    /\ \A t \in Clients : UseFits(pc[t], loc[t].use)
    /\ pc[Warmer] \notin {"idle", "warm_end"} => loc[Warmer].use = "warm"
    /\ pc[Warmer] \notin {"request_warm", "load_again"}

(* A number of publications that is at most the present one, and a workbook *)
(* that is the present one if the numbers are equal.                        *)
Behind(count, body) ==
    count \in Nat /\ count <= CountOfPubs /\ (count = CountOfPubs => body = history)

JobIsBehind ==
    /\ pc[Warmer] \in {"rows", "load", "render"} => loc[Warmer].print[1] <= CountOfPubs
    /\ pc[Warmer] = "put" => Behind(loc[Warmer].print[1], loc[Warmer].body)

FilesAreBehind == \A a \in artifacts : a.by = "warm" => Behind(a.print[1], a.body)

WarmInv == Shape /\ WarmerWarms /\ JobIsBehind /\ FilesAreBehind

-----------------------------------------------------------------------------
(* Lemmas. *)

LEMMA Counted == ASSUME Shape PROVE IsFiniteSet(pubs) /\ CountOfPubs \in Nat
<1>1. IsFiniteSet(Ids)
  BY FS_Interval, PublishedConstants DEF Ids
<1>2. IsFiniteSet(pubs)
  BY <1>1, FS_Subset DEF Shape
<1> QED
  BY <1>2, FS_CardinalityType DEF CountOfPubs

(* A publication makes every workbook one that is behind, and no more.      *)
LEMMA PublicationCounts ==
    ASSUME Shape, NEW i \in Ids, NEW slice, Publish(i, slice)
    PROVE  /\ pubs' \subseteq Ids /\ CountOfPubs' = CountOfPubs + 1
           /\ \A count \in Nat : count <= CountOfPubs =>
                count <= CountOfPubs' /\ count # CountOfPubs'
<1>1. pubs' = pubs \cup {i} /\ i \notin pubs
  BY DEF Publish
<1>2. Cardinality(pubs \cup {i}) = Cardinality(pubs) + 1
  BY <1>1, Counted, FS_AddElement
<1>3. CountOfPubs' = CountOfPubs + 1
  BY <1>1, <1>2 DEF CountOfPubs
<1> QED
  BY <1>1, <1>3, Counted DEF Shape

(* Steps without a publication leave the comparison as it is.               *)
LEMMA SamePublished ==
    ASSUME UNCHANGED published
    PROVE  /\ CountOfPubs' = CountOfPubs /\ UNCHANGED <<pubs, history>>
           /\ \A count, body : Behind(count, body)' <=> Behind(count, body)
BY DEF published, CountOfPubs, Behind

-----------------------------------------------------------------------------
(* The inductive invariant. *)

LEMMA WarmInit == CacheInit => WarmInv
<1> SUFFICES ASSUME CacheInit PROVE WarmInv
  OBVIOUS
<1>1. loc \in Locals({Empty})
  BY DEF CacheInit, Fresh, NoPrint, Locals, Uses
<1>2. Shape
  BY <1>1 DEF CacheInit, Init, Shape, Threads, Places
<1>3. Warmer \in Threads /\ Warmer \in Readers /\ Clients \subseteq Readers \cap Threads
  BY DEF Threads, Readers
<1>4. /\ \A t \in Threads : pc[t] = "idle"
      /\ \A t \in Readers : loc[t] = Fresh /\ loc[t].use = "none"
      /\ artifacts = {}
  BY DEF CacheInit, Fresh
<1>5. \A t \in Clients : UseFits(pc[t], loc[t].use)
  BY <1>3, <1>4 DEF UseFits
<1> QED
  BY <1>2, <1>3, <1>4, <1>5 DEF WarmInv, WarmerWarms, JobIsBehind, FilesAreBehind

LEMMA PublishStep ==
    ASSUME WarmInv, NEW p \in Publishers, NEW i \in Ids, NEW slice, PublishSlice(p, i, slice)
    PROVE  WarmInv'
<1>1. p # Warmer /\ p \in Threads /\ Warmer \in Threads /\ Warmer \in Readers
  BY CacheConstants DEF Threads, Readers
<1>2. /\ UNCHANGED <<artifacts, loc>> /\ pc' = [pc EXCEPT ![p] = "request_warm"]
      /\ Publish(i, slice)
  BY DEF PublishSlice, Goto, disk, faults
<1>3. pc' \in [Threads -> Places] /\ pc'[Warmer] = pc[Warmer]
  BY <1>1, <1>2 DEF WarmInv, Shape, Places
<1>4. \A count \in Nat : count <= CountOfPubs => count <= CountOfPubs' /\ count # CountOfPubs'
  BY <1>2, PublicationCounts DEF WarmInv
<1>5. Shape'
  BY <1>2, <1>3, PublicationCounts DEF WarmInv, Shape
<1>6. loc[Warmer].print[1] \in Nat
  BY <1>1 DEF WarmInv, Shape, Locals
<1>7. \A c \in Clients : pc'[c] = pc[c]
  BY <1>1, <1>2, CacheConstants DEF WarmInv, Shape, Threads, Readers
<1>8. WarmerWarms'
  BY <1>2, <1>3, <1>7 DEF WarmInv, WarmerWarms, UseFits
<1>9. JobIsBehind'
  BY <1>2, <1>3, <1>4, <1>6 DEF WarmInv, JobIsBehind, Behind
<1>10. FilesAreBehind'
  BY <1>2, <1>4 DEF WarmInv, FilesAreBehind, Behind
<1> QED
  BY <1>5, <1>8, <1>9, <1>10 DEF WarmInv

(* What one thread that does not warm may do.                               *)
LEMMA OtherThread ==
    ASSUME WarmInv, NEW t \in Clients \cup Publishers, UNCHANGED published,
           NEW place \in Places, pc' = [pc EXCEPT ![t] = place],
           NEW B, loc' \in Locals(B), loc'[Warmer] = loc[Warmer],
           \A c \in Clients : UseFits(pc'[c], loc'[c].use),
           \A a \in artifacts' : a.by = "warm" => a \in artifacts
    PROVE  WarmInv'
<1>1. t # Warmer /\ t \in Threads
  BY CacheConstants DEF Threads, Readers
<1>2. pc' \in [Threads -> Places] /\ pc'[Warmer] = pc[Warmer]
  BY <1>1 DEF WarmInv, Shape, Threads, Readers
<1>3. Shape'
  BY <1>2, SamePublished DEF WarmInv, Shape
<1>4. WarmerWarms'
  BY <1>2 DEF WarmInv, WarmerWarms
<1>5. JobIsBehind'
  BY <1>2, SamePublished DEF WarmInv, JobIsBehind
<1>6. FilesAreBehind'
  BY SamePublished DEF WarmInv, FilesAreBehind
<1> QED
  BY <1>3, <1>4, <1>5, <1>6 DEF WarmInv

(* What the thread of the warm pool may do: its record fits its place.      *)
JobFits(place, r) ==
    /\ place \notin {"idle", "warm_end"} => r.use = "warm"
    /\ place \in {"rows", "load", "render"} => r.print[1] <= CountOfPubs
    /\ place = "put" => Behind(r.print[1], r.body)

LEMMA WarmerThread ==
    ASSUME WarmInv, UNCHANGED published,
           NEW place \in Places \ {"request_warm", "load_again"},
           pc' = [pc EXCEPT ![Warmer] = place],
           NEW B, loc' \in Locals(B), \A c \in Clients : loc'[c] = loc[c],
           JobFits(place, loc'[Warmer]),
           \A a \in artifacts' : a.by = "warm" => a \in artifacts \/ Behind(a.print[1], a.body)
    PROVE  WarmInv'
<1>1. pc' \in [Threads -> Places] /\ pc'[Warmer] = place
  BY DEF WarmInv, Shape, Threads, Readers
<1>2. Shape'
  BY <1>1, SamePublished DEF WarmInv, Shape
<1>3. \A c \in Clients : pc'[c] = pc[c]
  BY CacheConstants DEF WarmInv, Shape, Threads, Readers
<1>4. WarmerWarms'
  BY <1>1, <1>3 DEF WarmInv, WarmerWarms, JobFits
<1>5. JobIsBehind'
  BY <1>1, SamePublished DEF JobIsBehind, JobFits
<1>6. FilesAreBehind'
  BY SamePublished DEF WarmInv, FilesAreBehind
<1> QED
  BY <1>2, <1>4, <1>5, <1>6 DEF WarmInv

(* One reader's record changes, and only its own.                           *)
OnlyRecord(t, B) ==
    loc' \in Locals(B) /\ \A x \in Readers : x # t => loc'[x] = loc[x]

LEMMA TakingPrint ==
    ASSUME NEW t \in Readers, NEW B, loc \in Locals(B), NEW use \in Uses, TakePrint(t, use)
    PROVE  OnlyRecord(t, B) /\ loc'[t].use = use /\ pc' = [pc EXCEPT ![t] = "print"]
BY DEF Locals, TakePrint, NoPrint, Goto, OnlyRecord

LEMMA BeingDone ==
    ASSUME NEW t \in Readers, NEW B, loc \in Locals(B), Done(t)
    PROVE  /\ OnlyRecord(t, B \cup {Empty}) /\ loc'[t].use = "none"
           /\ pc' = [pc EXCEPT ![t] = "idle"]
<1>1. Fresh \in [use : Uses, print : Nat \X Nat, body : B \cup {Empty}] /\ Fresh.use = "none"
  BY DEF Fresh, Uses, NoPrint
<1>2. loc' = [loc EXCEPT ![t] = Fresh] /\ pc' = [pc EXCEPT ![t] = "idle"]
  BY DEF Done, Goto
<1> QED
  BY <1>1, <1>2 DEF Locals, OnlyRecord

(* Another publication number, row count or workbook in a record.           *)
LEMMA Counting ==
    ASSUME NEW t \in Readers, NEW B, loc \in Locals(B), NEW n \in Nat,
           NEW k \in {1, 2}, loc' = [loc EXCEPT ![t].print[k] = n]
    PROVE  /\ OnlyRecord(t, B) /\ loc'[t].use = loc[t].use /\ loc'[t].print[k] = n
           /\ k = 2 => loc'[t].print[1] = loc[t].print[1]
BY DEF Locals, OnlyRecord

LEMMA Rendering ==
    ASSUME NEW t \in Readers, NEW B, loc \in Locals(B), NEW body, NEW use \in Uses,
           NEW print \in Nat \X Nat,
           loc' = [loc EXCEPT ![t].body = body, ![t].use = use, ![t].print = print]
    PROVE  /\ OnlyRecord(t, B \cup {body}) /\ loc'[t].use = use
           /\ loc'[t].print = print /\ loc'[t].body = body
BY DEF Locals, OnlyRecord

-----------------------------------------------------------------------------
(* The steps of a download. *)

LEMMA ReadersAreThreads ==
    /\ Warmer \in Readers /\ Readers \subseteq Threads /\ Clients \subseteq Readers
    /\ Warmer \notin Clients
BY CacheConstants DEF Threads, Readers

(* A client's step that leaves the files of the warm job as they are.       *)
LEMMA ClientStep ==
    ASSUME WarmInv, NEW c \in Clients, UNCHANGED published,
           NEW place \in Places, pc' = [pc EXCEPT ![c] = place],
           NEW B, OnlyRecord(c, B), UseFits(place, loc'[c].use),
           \A a \in artifacts' : a.by = "warm" => a \in artifacts
    PROVE  WarmInv'
<1>1. loc' \in Locals(B) /\ loc'[Warmer] = loc[Warmer]
  BY ReadersAreThreads DEF OnlyRecord
<1>2. \A x \in Clients : UseFits(pc'[x], loc'[x].use)
  BY ReadersAreThreads DEF OnlyRecord, WarmInv, WarmerWarms, Shape
<1> QED
  BY <1>1, <1>2, OtherThread

(* A client's thread takes another fingerprint, is done, or goes on.        *)
LEMMA ClientPrints ==
    ASSUME WarmInv, NEW c \in Clients, UNCHANGED published, artifacts' = artifacts,
           NEW use \in {"state", "lookup"}, TakePrint(c, use)
    PROVE  WarmInv'
<1>1. PICK B : loc \in Locals(B)
  BY DEF WarmInv, Shape
<1>2. OnlyRecord(c, B) /\ loc'[c].use = use /\ pc' = [pc EXCEPT ![c] = "print"]
  BY <1>1, ReadersAreThreads, TakingPrint DEF Uses
<1> QED
  BY <1>2, ClientStep DEF Places, UseFits

LEMMA ClientDone ==
    ASSUME WarmInv, NEW c \in Clients, UNCHANGED published, Done(c),
           \A a \in artifacts' : a.by = "warm" => a \in artifacts
    PROVE  WarmInv'
<1>1. PICK B : loc \in Locals(B)
  BY DEF WarmInv, Shape
<1>2. /\ OnlyRecord(c, B \cup {Empty}) /\ loc'[c].use = "none"
      /\ pc' = [pc EXCEPT ![c] = "idle"]
  BY <1>1, ReadersAreThreads, BeingDone
<1> QED
  BY <1>2, ClientStep DEF Places, UseFits

LEMMA ClientGoes ==
    ASSUME WarmInv, NEW c \in Clients, UNCHANGED published, UNCHANGED loc,
           NEW place \in Places, Goto(c, place), UseFits(place, loc[c].use),
           \A a \in artifacts' : a.by = "warm" => a \in artifacts
    PROVE  WarmInv'
<1>1. PICK B : loc \in Locals(B)
  BY DEF WarmInv, Shape
<1>2. OnlyRecord(c, B)
  BY <1>1 DEF OnlyRecord
<1>3. pc' = [pc EXCEPT ![c] = place]
  BY DEF Goto
<1> QED
  BY <1>2, <1>3, ClientStep

LEMMA RowsCounted == CountOfRows \in Nat
<1>1. IsFiniteSet({g \in Grains : history[g] # NoFact})
  BY CacheConstants, FS_Subset
<1> QED
  BY <1>1, FS_CardinalityType DEF CountOfRows

LEMMA ClientReads ==
    ASSUME WarmInv, NEW c \in Clients, Read(c)
    PROVE  WarmInv'
<1>1. c \in Readers /\ c # Warmer /\ UseFits(pc[c], loc[c].use)
  BY ReadersAreThreads DEF WarmInv, WarmerWarms
<1>2. PICK B : loc \in Locals(B)
  BY DEF WarmInv, Shape
<1>3. UNCHANGED published
  BY DEF Read, ReadCount, ReadRows, Load, Render, Put, Prune
<1>4. CASE ReadCount(c)
  <2>1. loc' = [loc EXCEPT ![c].print[1] = CountOfPubs] /\ artifacts' = artifacts
        /\ pc' = [pc EXCEPT ![c] = "rows"] /\ pc[c] = "print"
    BY <1>4 DEF ReadCount, Goto, disk, faults
  <2>2. CountOfPubs \in Nat
    BY Counted DEF WarmInv
  <2>3. OnlyRecord(c, B) /\ loc'[c].use = loc[c].use
    BY <1>1, <1>2, <2>1, <2>2, Counting
  <2> QED
    BY <1>1, <1>3, <2>1, <2>3, ClientStep DEF Places, UseFits
<1>5. CASE ReadRows(c)
  <2>1. artifacts' = artifacts /\ loc[c].use \in {"state", "lookup", "store"}
    BY <1>1, <1>5 DEF ReadRows, disk, faults, UseFits
  <2>2. CASE WithoutPrint(c)
    <3>1. \/ TakePrint(c, "lookup")
          \/ Goto(c, "render") /\ UNCHANGED loc
          \/ Done(c)
      BY <2>1, <2>2 DEF WithoutPrint
    <3>2. UseFits("render", loc[c].use)
      BY <2>1 DEF UseFits
    <3> QED
      BY <3>1, <3>2, <2>1, <1>3, ClientPrints, ClientGoes, ClientDone DEF Places
  <2>3. CASE /\ loc' = [loc EXCEPT ![c].print[2] = CountOfRows]
             /\ Goto(c, IF loc[c].use = "store" THEN "put" ELSE "load")
    <3>1. OnlyRecord(c, B) /\ loc'[c].use = loc[c].use
      BY <1>1, <1>2, <2>3, RowsCounted, Counting
    <3>2. CASE loc[c].use = "store"
      BY <1>3, <2>1, <2>3, <3>1, <3>2, ClientStep DEF Places, UseFits, Goto
    <3>3. CASE loc[c].use # "store"
      BY <1>3, <2>1, <2>3, <3>1, <3>3, ClientStep DEF Places, UseFits, Goto
    <3> QED
      BY <3>2, <3>3
  <2> QED
    BY <2>2, <2>3, <1>5 DEF ReadRows
<1>6. CASE Load(c)
  <2>1. artifacts' = artifacts /\ loc[c].use \in {"state", "lookup"}
    BY <1>1, <1>6 DEF Load, disk, faults, UseFits
  <2>2. \/ Done(c)
        \/ Goto(c, "render") /\ UNCHANGED loc
        \/ TakePrint(c, "lookup")
        \/ Goto(c, "load_again") /\ UNCHANGED loc
    BY <1>6, <2>1 DEF Load
  <2>3. UseFits("render", loc[c].use) /\ UseFits("load_again", loc[c].use)
    BY <2>1 DEF UseFits
  <2> QED
    BY <1>3, <2>1, <2>2, <2>3, ClientPrints, ClientGoes, ClientDone DEF Places
<1>7. CASE Render(c)
  <2>1. artifacts' = artifacts
    BY <1>7 DEF Render, disk, faults
  <2>2. CASE Leave(c)
    BY <1>1, <1>3, <2>1, <2>2, ClientDone DEF Leave
  <2>3. CASE /\ Goto(c, "print")
             /\ loc' = [loc EXCEPT ![c].body = CumulativeItems, ![c].use = "store",
                                   ![c].print = NoPrint]
    <3>1. NoPrint \in Nat \X Nat /\ "store" \in Uses
      BY DEF NoPrint, Uses
    <3>2. OnlyRecord(c, B \cup {CumulativeItems}) /\ loc'[c].use = "store"
      BY <1>1, <1>2, <2>3, <3>1 DEF Locals, OnlyRecord
    <3> QED
      BY <1>3, <2>1, <2>3, <3>2, ClientStep DEF Places, UseFits, Goto
  <2> QED
    <3>2. ~(c = Warmer)
      BY <1>1
    <3> QED
      BY <3>2, <1>7, <2>2, <2>3 DEF Render
<1>8. CASE Put(c)
  <2>1. \A a \in artifacts' : a.by = "warm" => a \in artifacts
    BY <1>1, <1>8 DEF Put, UseFits
  <2>2. (Goto(c, "prune") /\ UNCHANGED loc) \/ Done(c)
    BY <1>1, <1>8 DEF Put, Leave
  <2>3. UseFits("prune", loc[c].use)
    BY <1>1 DEF UseFits
  <2> QED
    BY <1>3, <2>1, <2>2, <2>3, ClientGoes, ClientDone DEF Places
<1>9. CASE Prune(c)
  BY <1>1, <1>3, <1>9, ClientDone DEF Prune, Stale, Leave
<1> QED
  BY <1>4, <1>5, <1>6, <1>7, <1>8, <1>9 DEF Read

-----------------------------------------------------------------------------
(* The steps of the warm job. *)

LEMMA WarmerLocals ==
    ASSUME NEW B, OnlyRecord(Warmer, B)
    PROVE  loc' \in Locals(B) /\ \A c \in Clients : loc'[c] = loc[c]
BY ReadersAreThreads DEF OnlyRecord

LEMMA WarmerStarts ==
    ASSUME WarmInv, StartWarm
    PROVE  WarmInv'
<1>1. PICK B : loc \in Locals(B)
  BY DEF WarmInv, Shape
<1>2. UNCHANGED published /\ artifacts' = artifacts /\ TakePrint(Warmer, "warm")
  BY DEF StartWarm, disk, faults
<1>3. /\ OnlyRecord(Warmer, B) /\ loc'[Warmer].use = "warm"
      /\ pc' = [pc EXCEPT ![Warmer] = "print"]
  BY <1>1, <1>2, ReadersAreThreads, TakingPrint DEF Uses
<1>4. JobFits("print", loc'[Warmer])
  BY <1>3 DEF JobFits
<1> QED
  BY <1>2, <1>3, <1>4, WarmerLocals, WarmerThread DEF Places

(* The job ends with nothing more to store, or goes to its finally clause.  *)
LEMMA WarmerLeaves ==
    ASSUME WarmInv, UNCHANGED <<published, loc>>, Goto(Warmer, "warm_end"),
           \A a \in artifacts' : a.by = "warm" => a \in artifacts
    PROVE  WarmInv'
<1>1. PICK B : loc \in Locals(B)
  BY DEF WarmInv, Shape
<1>2. loc' \in Locals(B) /\ \A c \in Clients : loc'[c] = loc[c]
  BY <1>1
<1>3. pc' = [pc EXCEPT ![Warmer] = "warm_end"]
  BY DEF Goto
<1>4. JobFits("warm_end", loc'[Warmer])
  BY DEF JobFits
<1> QED
  BY <1>2, <1>3, <1>4, WarmerThread DEF Places

LEMMA WarmerEnds ==
    ASSUME WarmInv, EndWarm
    PROVE  WarmInv'
<1>1. PICK B : loc \in Locals(B)
  BY DEF WarmInv, Shape
<1>2. UNCHANGED published /\ artifacts' = artifacts /\ Done(Warmer)
  BY DEF EndWarm, disk, faults
<1>3. OnlyRecord(Warmer, B \cup {Empty}) /\ pc' = [pc EXCEPT ![Warmer] = "idle"]
  BY <1>1, <1>2, ReadersAreThreads, BeingDone
<1>4. JobFits("idle", loc'[Warmer])
  BY DEF JobFits
<1> QED
  BY <1>2, <1>3, <1>4, WarmerLocals, WarmerThread DEF Places

LEMMA WarmerReads ==
    ASSUME WarmInv, Read(Warmer)
    PROVE  WarmInv'
<1> DEFINE w == loc[Warmer]
<1>1. Warmer \in Readers /\ Warmer \in Threads
  BY ReadersAreThreads
<1>2. PICK B : loc \in Locals(B)
  BY DEF WarmInv, Shape
<1>3. UNCHANGED published
  BY DEF Read, ReadCount, ReadRows, Load, Render, Put, Prune
<1>4. /\ w.use = "warm" /\ pc[Warmer] # "load_again"
      /\ w.print \in Nat \X Nat /\ w.print[1] \in Nat
  BY <1>1, <1>2 DEF Read, ReadCount, ReadRows, Load, Render, Put, Prune, WarmInv, WarmerWarms,
                    Locals
<1>5. CountOfPubs \in Nat
  BY Counted DEF WarmInv
<1>6. CASE ReadCount(Warmer)
  <2>1. loc' = [loc EXCEPT ![Warmer].print[1] = CountOfPubs] /\ artifacts' = artifacts
        /\ pc' = [pc EXCEPT ![Warmer] = "rows"]
    BY <1>6 DEF ReadCount, Goto, disk, faults
  <2>2. OnlyRecord(Warmer, B) /\ loc'[Warmer].use = "warm" /\ loc'[Warmer].print[1] = CountOfPubs
    BY <1>1, <1>2, <1>4, <1>5, <2>1, Counting
  <2>3. JobFits("rows", loc'[Warmer])
    BY <1>5, <2>2 DEF JobFits
  <2> QED
    BY <1>3, <2>1, <2>2, <2>3, WarmerLocals, WarmerThread DEF Places
<1>7. CASE ReadRows(Warmer)
  <2>1. artifacts' = artifacts /\ w.print[1] <= CountOfPubs
    BY <1>7 DEF ReadRows, disk, faults, WarmInv, JobIsBehind
  <2>2. CASE WithoutPrint(Warmer)
    <3>1. Goto(Warmer, "warm_end") /\ UNCHANGED loc
      BY <1>4, <2>2 DEF WithoutPrint
    <3> QED
      BY <3>1, <2>1, <1>3, WarmerLeaves
  <2>3. CASE /\ loc' = [loc EXCEPT ![Warmer].print[2] = CountOfRows]
             /\ Goto(Warmer, IF w.use = "store" THEN "put" ELSE "load")
    <3>1. /\ OnlyRecord(Warmer, B) /\ loc'[Warmer].use = "warm"
          /\ loc'[Warmer].print[1] = w.print[1]
      BY <1>1, <1>2, <1>4, <2>3, RowsCounted, Counting
    <3>2. pc' = [pc EXCEPT ![Warmer] = "load"]
      BY <1>4, <2>3 DEF Goto
    <3>3. JobFits("load", loc'[Warmer])
      BY <2>1, <3>1 DEF JobFits
    <3> QED
      BY <1>3, <2>1, <3>1, <3>2, <3>3, WarmerLocals, WarmerThread DEF Places
  <2> QED
    BY <2>2, <2>3, <1>7 DEF ReadRows
<1>8. CASE Load(Warmer)
  <2>1. /\ artifacts' = artifacts /\ UNCHANGED loc /\ w.print[1] <= CountOfPubs
        /\ Goto(Warmer, "warm_end") \/ Goto(Warmer, "render")
    BY <1>4, <1>8 DEF Load, disk, faults, WarmInv, JobIsBehind
  <2>2. CASE Goto(Warmer, "warm_end")
    BY <1>3, <2>1, <2>2, WarmerLeaves
  <2>3. CASE Goto(Warmer, "render")
    <3>1. loc' \in Locals(B) /\ \A c \in Clients : loc'[c] = loc[c]
      BY <1>2, <2>1
    <3>2. pc' = [pc EXCEPT ![Warmer] = "render"]
      BY <2>3 DEF Goto
    <3>3. JobFits("render", loc'[Warmer])
      BY <1>4, <2>1 DEF JobFits
    <3> QED
      BY <1>3, <2>1, <3>1, <3>2, <3>3, WarmerThread DEF Places
  <2> QED
    BY <2>1, <2>2, <2>3
<1>9. CASE Render(Warmer)
  <2>1. artifacts' = artifacts /\ w.print[1] <= CountOfPubs
    BY <1>9 DEF Render, disk, faults, WarmInv, JobIsBehind
  <2>2. CASE Leave(Warmer)
    BY <1>3, <2>1, <2>2, WarmerLeaves DEF Leave
  <2>3. CASE /\ Goto(Warmer, "put")
             /\ loc' = [loc EXCEPT ![Warmer].body = CumulativeItems,
                                   ![Warmer].use = loc[Warmer].use,
                                   ![Warmer].print = loc[Warmer].print]
    <3>1. /\ OnlyRecord(Warmer, B \cup {CumulativeItems}) /\ loc'[Warmer].use = "warm"
          /\ loc'[Warmer].print = w.print /\ loc'[Warmer].body = CumulativeItems
      BY <1>1, <1>2, <1>4, <2>3 DEF Uses, Locals, OnlyRecord
    <3>2. pc' = [pc EXCEPT ![Warmer] = "put"]
      BY <2>3 DEF Goto
    <3>3. Behind(w.print[1], CumulativeItems)
      BY <1>4, <2>1 DEF Behind, CumulativeItems
    <3>4. JobFits("put", loc'[Warmer])
      BY <3>1, <3>3 DEF JobFits
    <3> QED
      BY <1>3, <2>1, <3>1, <3>2, <3>4, WarmerLocals, WarmerThread DEF Places
  <2> QED
    BY <1>1, <1>9, <2>2, <2>3 DEF Render
<1>10. CASE Put(Warmer)
  <2>1. Behind(w.print[1], w.body)
    BY <1>10 DEF Put, WarmInv, JobIsBehind
  <2>2. CASE Leave(Warmer) /\ UNCHANGED artifacts
    BY <1>3, <2>2, WarmerLeaves DEF Leave
  <2>3. CASE /\ artifacts' = {a \in artifacts : a.print # w.print} \cup
                            {[print |-> w.print, body |-> w.body, by |-> w.use]}
             /\ Goto(Warmer, "prune") /\ UNCHANGED loc
    <3>1. \A a \in artifacts' : a \in artifacts \/ Behind(a.print[1], a.body)
      BY <2>1, <2>3
    <3>2. loc' \in Locals(B) /\ \A c \in Clients : loc'[c] = loc[c]
      BY <1>2, <2>3
    <3>3. pc' = [pc EXCEPT ![Warmer] = "prune"]
      BY <2>3 DEF Goto
    <3>4. JobFits("prune", loc'[Warmer])
      BY <1>4, <2>3 DEF JobFits
    <3> QED
      BY <1>3, <3>1, <3>2, <3>3, <3>4, WarmerThread DEF Places
  <2> QED
    BY <1>10, <2>2, <2>3 DEF Put
<1>11. CASE Prune(Warmer)
  BY <1>3, <1>11, WarmerLeaves DEF Prune, Stale, Leave
<1> QED
  BY <1>6, <1>7, <1>8, <1>9, <1>10, <1>11 DEF Read

-----------------------------------------------------------------------------
(* The whole specification. *)

LEMMA AfterRestart ==
    ASSUME WarmInv, Restart
    PROVE  WarmInv'
<1>1. /\ UNCHANGED <<published, artifacts>>
      /\ pc' = [t \in Threads |-> "idle"] /\ loc' = [t \in Readers |-> Fresh]
  BY DEF Restart
<1>2. loc' \in Locals({Empty})
  BY <1>1 DEF Fresh, NoPrint, Locals, Uses
<1>3. Shape'
  BY <1>1, <1>2, SamePublished DEF WarmInv, Shape, Places
<1>4. \A t \in Readers : pc'[t] = "idle" /\ loc'[t].use = "none"
  BY <1>1, ReadersAreThreads DEF Fresh
<1>5. WarmerWarms' /\ JobIsBehind'
  BY <1>4, ReadersAreThreads DEF WarmerWarms, UseFits, JobIsBehind
<1>6. FilesAreBehind'
  BY <1>1, SamePublished DEF WarmInv, FilesAreBehind
<1> QED
  BY <1>3, <1>5, <1>6 DEF WarmInv

LEMMA WarmRequested ==
    ASSUME WarmInv, NEW p \in Publishers, RequestWarm(p)
    PROVE  WarmInv'
<1>1. PICK B : loc \in Locals(B)
  BY DEF WarmInv, Shape
<1>2. /\ UNCHANGED <<published, artifacts, loc>> /\ pc' = [pc EXCEPT ![p] = "idle"]
  BY DEF RequestWarm, Goto, disk, faults
<1>3. \A c \in Clients : pc'[c] = pc[c]
  BY <1>2, CacheConstants DEF WarmInv, Shape, Threads, Readers
<1>4. \A c \in Clients : UseFits(pc'[c], loc'[c].use)
  BY <1>2, <1>3 DEF WarmInv, WarmerWarms
<1> QED
  BY <1>1, <1>2, <1>4, OtherThread DEF Places

LEMMA WarmStep == WarmInv /\ [CacheNext]_vars => WarmInv'
<1> SUFFICES ASSUME WarmInv, [CacheNext]_vars PROVE WarmInv'
  OBVIOUS
<1>1. CASE \E p \in Publishers, i \in Ids, slice \in Slices : PublishSlice(p, i, slice)
  BY <1>1, PublishStep
<1>2. CASE \E p \in Publishers : RequestWarm(p)
  BY <1>2, WarmRequested
<1>3. CASE StartWarm \/ EndWarm
  BY <1>3, WarmerStarts, WarmerEnds
<1>4. CASE \E c \in Clients : Download(c)
  <2>1. PICK c \in Clients : TakePrint(c, "state") /\ UNCHANGED <<published, artifacts>>
    BY <1>4 DEF Download, disk, faults
  <2> QED
    BY <2>1, ClientPrints
<1>5. CASE \E t \in Readers : Read(t)
  BY <1>5, ClientReads, WarmerReads DEF Readers
<1>6. CASE Restart
  BY <1>6, AfterRestart
<1>7. CASE UNCHANGED vars
  BY <1>7, SamePublished DEF vars, WarmInv, Shape, WarmerWarms, JobIsBehind, FilesAreBehind
<1> QED
  BY <1>1, <1>2, <1>3, <1>4, <1>5, <1>6, <1>7 DEF CacheNext

(* What a warm job left under the present fingerprint is the present        *)
(* history, however publications fall between its reads and its store: its  *)
(* fingerprint counts the publications it began after (_warm_consolidated_  *)
(* cache takes it before it renders), and every later one raises the count. *)
THEOREM WarmedTheorem == CacheSpec => []WarmedIsCurrent
<1>1. WarmInv => WarmedIsCurrent
  BY DEF WarmInv, FilesAreBehind, Behind, WarmedIsCurrent, Fingerprint
<1> QED
  BY <1>1, WarmInit, WarmStep, PTL DEF CacheSpec
-----------------------------------------------------------------------------
(* The directory. *)

Storers == {t \in Readers : Storing(t)}

(* A store leaves one file of its fingerprint, and counts as one more until *)
(* it has dropped the others; a restart lets go of as many as were storing, *)
(* and every file that cannot be removed counts as one more.                *)
DirectoryInv ==
    /\ crashes \in Nat /\ stuck \in Nat /\ IsFiniteSet(artifacts)
    /\ \A a, b \in artifacts : a.print = b.print => a = b
    /\ Cardinality(artifacts) <= 1 + crashes * Cardinality(Readers) + stuck + Cardinality(Storers)

LEMMA ReadersAreFinite == IsFiniteSet(Readers) /\ Cardinality(Readers) \in Nat
<1>1. IsFiniteSet(Clients \cup {Warmer})
  BY CacheConstants, FS_AddElement
<1> QED
  BY <1>1, FS_CardinalityType DEF Readers

LEMMA StorersAreFinite ==
    /\ IsFiniteSet(Storers) /\ Cardinality(Storers) \in Nat
    /\ Cardinality(Storers) <= Cardinality(Readers)
<1>1. Storers \in SUBSET Readers
  BY DEF Storers
<1> QED
  BY <1>1, ReadersAreFinite, FS_Subset, FS_CardinalityType

(* Nothing is below none: the room that restarts left is a number.          *)
LEMMA RoomIsANumber ==
    ASSUME NEW k \in Nat, NEW n \in Nat
    PROVE  k * n \in Nat /\ (k + 1) * n = k * n + n
OBVIOUS

(* Nobody stops storing in a step that leaves the directory alone.          *)
LEMMA DirectoryStays ==
    ASSUME WarmInv, DirectoryInv, UNCHANGED disk,
           \A t \in Readers : pc[t] = "prune" => pc'[t] = "prune"
    PROVE  DirectoryInv'
<1> USE DEF disk, faults
<1> DEFINE storers2 == {t \in Readers : pc'[t] = "prune"}
<1>1. storers2 \in SUBSET Readers /\ Storers \in SUBSET storers2
  BY DEF Storers, Storing
<1>2. IsFiniteSet(storers2)
  BY <1>1, ReadersAreFinite, FS_Subset
<1>3. Cardinality(Storers) <= Cardinality(storers2) /\ Cardinality(storers2) \in Nat
  BY <1>1, <1>2, FS_Subset, FS_CardinalityType
<1>4. Storers' = storers2
  BY DEF Storers, Storing
<1>5. /\ crashes * Cardinality(Readers) \in Nat /\ Cardinality(artifacts) \in Nat
      /\ Cardinality(Storers) \in Nat
  BY ReadersAreFinite, StorersAreFinite, RoomIsANumber, FS_CardinalityType DEF DirectoryInv
<1>6. Cardinality(artifacts) <= 1 + crashes * Cardinality(Readers) + stuck + Cardinality(storers2)
  BY <1>3, <1>5 DEF DirectoryInv
<1> QED
  BY <1>4, <1>6 DEF DirectoryInv

(* A thread that is not storing goes somewhere.                             *)
LEMMA ThreadMoves ==
    ASSUME WarmInv, NEW t \in Threads, NEW place, Goto(t, place), pc[t] # "prune"
    PROVE  \A x \in Readers : pc[x] = "prune" => pc'[x] = "prune"
BY ReadersAreThreads DEF WarmInv, Shape, Goto

LEMMA EveryReadMoves ==
    ASSUME WarmInv, NEW t \in Readers, Read(t)
    PROVE  \E place : Goto(t, place)
<1>1. Leave(t) => \E place : Goto(t, place)
  BY DEF Leave, Done
<1>2. CASE ReadRows(t)
  <2>1. pc[t] = "rows" => loc[t].use \in {"state", "lookup", "store", "warm"}
    BY DEF Readers, WarmInv, WarmerWarms, UseFits
  <2>2. WithoutPrint(t) => \E place : Goto(t, place)
    BY <1>2, <2>1 DEF ReadRows, WithoutPrint, TakePrint, Done
  <2> QED
    BY <1>2, <2>2 DEF ReadRows
<1>3. CASE Load(t)
  <2>1. loc[t].use \in {"state", "lookup", "warm"}
    BY <1>3 DEF Load, Readers, WarmInv, WarmerWarms, UseFits
  <2> QED
    BY <1>3, <2>1 DEF Load, TakePrint, Done
<1>4. CASE ReadCount(t)
  BY <1>4 DEF ReadCount
<1>5. CASE Render(t) \/ Put(t) \/ Prune(t)
  BY <1>1, <1>5 DEF Render, Put, Prune
<1> QED
  BY <1>2, <1>3, <1>4, <1>5 DEF Read

LEMMA DirectoryStep == WarmInv /\ DirectoryInv /\ [CacheNext]_vars => DirectoryInv'
<1> SUFFICES ASSUME WarmInv, DirectoryInv, [CacheNext]_vars PROVE DirectoryInv'
  OBVIOUS
<1> USE DEF disk, faults
<1>1. ASSUME NEW p \in Publishers, NEW i \in Ids, NEW slice, PublishSlice(p, i, slice)
      PROVE  DirectoryInv'
  BY <1>1, ThreadMoves, DirectoryStays DEF PublishSlice, Threads
<1>2. ASSUME NEW p \in Publishers, RequestWarm(p) PROVE DirectoryInv'
  BY <1>2, ThreadMoves, DirectoryStays DEF RequestWarm, Threads
<1>3. CASE StartWarm \/ EndWarm
  BY <1>3, ReadersAreThreads, ThreadMoves, DirectoryStays DEF StartWarm, EndWarm, TakePrint, Done
<1>4. ASSUME NEW c \in Clients, Download(c) PROVE DirectoryInv'
  BY <1>4, ReadersAreThreads, ThreadMoves, DirectoryStays DEF Download, TakePrint
<1>5. ASSUME NEW t \in Readers, Read(t), UNCHANGED artifacts, ~Prune(t) PROVE DirectoryInv'
  <2>1. t \in Threads /\ \E place : Goto(t, place)
    BY <1>5, EveryReadMoves, ReadersAreThreads
  <2>2. pc[t] # "prune" /\ UNCHANGED faults
    BY <1>5 DEF Read, ReadCount, ReadRows, Load, Render, Put
  <2> QED
    BY <1>5, <2>1, <2>2, ThreadMoves, DirectoryStays
<1>6. ASSUME NEW t \in Readers, Put(t), ~UNCHANGED artifacts PROVE DirectoryInv'
  <2> DEFINE file  == [print |-> loc[t].print, body |-> loc[t].body, by |-> loc[t].use]
             kept  == {a \in artifacts : a.print # loc[t].print}
  <2>1. /\ artifacts' = kept \cup {file} /\ pc[t] = "put" /\ UNCHANGED faults
        /\ pc' = [pc EXCEPT ![t] = "prune"]
    BY <1>6 DEF Put, Goto
  <2>2. /\ IsFiniteSet(artifacts') /\ Cardinality(artifacts') <= Cardinality(artifacts) + 1
        /\ Cardinality(artifacts') \in Nat /\ Cardinality(artifacts) \in Nat
    <3>1. kept \in SUBSET artifacts /\ IsFiniteSet(artifacts)
      BY DEF DirectoryInv
    <3>2. /\ IsFiniteSet(kept) /\ Cardinality(kept) <= Cardinality(artifacts)
          /\ Cardinality(kept) \in Nat /\ Cardinality(artifacts) \in Nat
      BY <3>1, FS_Subset, FS_CardinalityType
    <3>3. /\ IsFiniteSet(kept \cup {file})
          /\ \/ Cardinality(kept \cup {file}) = Cardinality(kept)
             \/ Cardinality(kept \cup {file}) = Cardinality(kept) + 1
      BY <3>2, FS_AddElement
    <3> QED
      BY <2>1, <3>2, <3>3
  <2>3. \A a, b \in artifacts' : a.print = b.print => a = b
    BY <2>1 DEF DirectoryInv
  <2>4. Storers' = Storers \cup {t} /\ t \notin Storers
    BY <2>1, ReadersAreThreads DEF WarmInv, Shape, Storers, Storing
  <2>5. Cardinality(Storers \cup {t}) = Cardinality(Storers) + 1
    BY <2>4, StorersAreFinite, FS_AddElement
  <2>6. crashes * Cardinality(Readers) \in Nat /\ Cardinality(Storers) \in Nat
    BY ReadersAreFinite, StorersAreFinite, RoomIsANumber DEF DirectoryInv
  <2>7. Cardinality(artifacts') <= 1 + crashes * Cardinality(Readers) + stuck + Cardinality(Storers \cup {t})
    BY <2>2, <2>5, <2>6 DEF DirectoryInv
  <2> QED
    BY <2>1, <2>2, <2>3, <2>4, <2>7 DEF DirectoryInv
<1>7. ASSUME NEW t \in Readers, Prune(t) PROVE DirectoryInv'
  <2> DEFINE own == {a \in artifacts : a.print = loc[t].print}
  <2>1. PICK left \in SUBSET Stale(t) :
            artifacts' = own \cup left /\ stuck' = stuck + Cardinality(left) /\ UNCHANGED crashes
    BY <1>7 DEF Prune
  <2>2. \A a, b \in artifacts' : a.print = b.print => a = b
    BY <2>1 DEF DirectoryInv, Stale
  <2>3. \A a, b \in own : a = b
    BY DEF DirectoryInv
  <2>4. own \in SUBSET artifacts /\ left \in SUBSET artifacts /\ IsFiniteSet(artifacts)
    BY <2>1 DEF DirectoryInv, Stale
  <2>5. /\ IsFiniteSet(own) /\ IsFiniteSet(left)
        /\ Cardinality(own) \in Nat /\ Cardinality(left) \in Nat
    BY <2>4, FS_Subset, FS_CardinalityType
  <2>6. Cardinality(own) <= 1
    <3>1. CASE own = {}
      BY <3>1, FS_EmptySet
    <3>2. CASE own # {}
      <4>1. PICK a : own = {a}
        BY <2>3, <3>2
      <4>2. Cardinality({a}) = 1
        BY FS_Singleton
      <4> QED
        BY <4>1, <4>2
    <3> QED
      BY <3>1, <3>2
  <2> HIDE DEF own
  <2>7. /\ IsFiniteSet(own \cup left) /\ Cardinality(own \cup left) \in Nat
        /\ Cardinality(own \cup left) <= 1 + Cardinality(left)
    <3>1. /\ IsFiniteSet(own \cup left) /\ IsFiniteSet(own \cap left)
          /\ Cardinality(own \cup left)
               = Cardinality(own) + Cardinality(left) - Cardinality(own \cap left)
      BY <2>5, FS_Union, FS_Intersection
    <3>2. Cardinality(own \cap left) \in Nat /\ Cardinality(own \cup left) \in Nat
      BY <3>1, FS_CardinalityType
    <3> QED
      BY <2>5, <2>6, <3>1, <3>2
  <2>8. Cardinality(Storers') \in Nat
    <3>1. Storers' \in SUBSET Readers
      BY DEF Storers
    <3> QED
      BY <3>1, ReadersAreFinite, FS_Subset, FS_CardinalityType
  <2>9. crashes * Cardinality(Readers) \in Nat /\ stuck \in Nat /\ stuck' \in Nat
    BY <2>1, <2>5, ReadersAreFinite, RoomIsANumber DEF DirectoryInv
  <2>10. Cardinality(artifacts') <= 1 + crashes * Cardinality(Readers) + stuck' + Cardinality(Storers')
    BY <2>1, <2>5, <2>7, <2>8, <2>9
  <2> QED
    BY <2>1, <2>2, <2>7, <2>9, <2>10 DEF DirectoryInv
<1>8. CASE Restart
  <2>1. UNCHANGED <<artifacts, stuck>> /\ crashes' = crashes + 1 /\ pc' = [t \in Threads |-> "idle"]
    BY <1>8 DEF Restart
  <2>2. Storers' = {}
    BY <2>1, ReadersAreThreads DEF Storers, Storing
  <2>3. Cardinality(Storers') = 0
    BY <2>2, FS_EmptySet
  <2>4. (crashes + 1) * Cardinality(Readers) = crashes * Cardinality(Readers) + Cardinality(Readers)
    BY ReadersAreFinite, RoomIsANumber DEF DirectoryInv
  <2>5. crashes * Cardinality(Readers) \in Nat /\ Cardinality(artifacts) \in Nat
    BY ReadersAreFinite, RoomIsANumber, FS_CardinalityType DEF DirectoryInv
  <2>6. Cardinality(artifacts) <= 1 + (crashes + 1) * Cardinality(Readers) + stuck
    <3> DEFINE room  == crashes * Cardinality(Readers)
               room2 == (crashes + 1) * Cardinality(Readers)
    <3>1. /\ room \in Nat /\ room2 = room + Cardinality(Readers)
          /\ stuck \in Nat /\ Cardinality(artifacts) <= 1 + room + stuck + Cardinality(Storers)
      BY <2>4, <2>5 DEF DirectoryInv
    <3> HIDE DEF room, room2
    <3>2. Cardinality(artifacts) <= 1 + room2 + stuck
      BY <2>5, <3>1, StorersAreFinite, ReadersAreFinite
    <3> QED
      BY <3>2 DEF room2
  <2>7. (crashes + 1) * Cardinality(Readers) \in Nat
    BY ReadersAreFinite, RoomIsANumber DEF DirectoryInv
  <2> QED
    BY <2>1, <2>3, <2>6, <2>7 DEF DirectoryInv
<1>9. CASE UNCHANGED vars
  BY <1>9, DirectoryStays DEF vars
<1> QED
  BY <1>1, <1>2, <1>3, <1>4, <1>5, <1>6, <1>7, <1>8, <1>9
  DEF CacheNext, Read, ReadCount, ReadRows, Load, Render, Put

(* However many stores overlap and are cut short, once nobody is storing    *)
(* the client's directory holds one workbook at most, and one more for each *)
(* store that a restart cut off before it dropped the others and each file  *)
(* that could not be removed.                                               *)
THEOREM DirectoryIsTidy == CacheSpec => []OneArtifact
<1>1. CacheInit => DirectoryInv
  <2> SUFFICES ASSUME CacheInit PROVE DirectoryInv
    OBVIOUS
  <2>1. artifacts = {} /\ crashes = 0 /\ stuck = 0
    BY DEF CacheInit
  <2>2. Cardinality(artifacts) = 0
    BY <2>1, FS_EmptySet
  <2>3. 0 * Cardinality(Readers) = 0
    BY ReadersAreFinite
  <2> QED
    BY <2>1, <2>2, <2>3, FS_EmptySet, StorersAreFinite DEF DirectoryInv
<1>2. DirectoryInv => OneArtifact
  <2> SUFFICES ASSUME DirectoryInv, \A t \in Readers : ~Storing(t)
               PROVE  Cardinality(artifacts) <= 1 + crashes * Cardinality(Readers) + stuck
    BY DEF OneArtifact
  <2>1. Storers = {}
    BY DEF Storers
  <2>2. Cardinality(Storers) = 0
    BY <2>1, FS_EmptySet
  <2>3. crashes * Cardinality(Readers) \in Nat
    BY ReadersAreFinite, RoomIsANumber DEF DirectoryInv
  <2> QED
    BY <2>2, <2>3 DEF DirectoryInv
<1> QED
  BY <1>1, <1>2, WarmInit, WarmStep, DirectoryStep, PTL DEF CacheSpec
=============================================================================
