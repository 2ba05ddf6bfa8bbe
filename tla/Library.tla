------------------------------ MODULE Library ------------------------------
(***************************************************************************)
(* The gear library of one account: gear and categories as the server      *)
(* keeps them, the three caches a page draws them from (the gear, the      *)
(* categories, and one list that embeds the gear it carries), and the      *)
(* writes of the page, single and in bulk.                                 *)
(*                                                                         *)
(* A write shows its effect in every cache that has the rows, keeps what   *)
(* was there to put it back, and asks for the rows again when it settles.  *)
(* Its commit, its answer and the answers of the reads come in any order,  *)
(* or get lost.  The user goes from page to page meanwhile: what is asked  *)
(* again is read at once only where a page on the screen uses it, and a    *)
(* read under way goes on when its page is left.                           *)
(*                                                                         *)
(* Left out: every field of a gear item but its category, names, and the   *)
(* order of rows.  A new row has its server id from the start; in the code *)
(* it has a temporary one until the rows are read again.                   *)
(***************************************************************************)
EXTENDS Integers, FiniteSets

CONSTANTS
  Gear,      \* ids of gear items
  Cat,       \* ids of categories
  NoCat,     \* the categoryId null
  Listed,    \* the gear that the open list carries, where it exists
  GearCap,   \* GEAR_ITEM_CAP
  LibWrites  \* bound: writes of the page and of other devices

ASSUME LibAssumption ==
  /\ IsFiniteSet(Gear) /\ Gear \cap Cat = {} /\ NoCat \notin Cat /\ Listed \subseteq Gear
  /\ GearCap \in Nat /\ LibWrites \in Nat

VARIABLES
  gear,      \* gear_items: id to category
  cats,      \* categories
  minted,    \* ids that have been handed out: none is handed out twice
  held,      \* the caches that hold rows
  reads,     \* the read in flight of each cache
  mounted,   \* the caches that the page on the screen uses
  marked,    \* caches that are invalidated: asked for again and not read since
  libJobs,   \* writes in flight
  ticked,    \* selectedIds
  selecting, \* selectMode
  libClock,  \* the bound, and the names of writes
  missed     \* caches not read since another device wrote, since the user was told
             \* to refresh, or since a write settled and left a read that had been
             \* answered before to land: properties only

libVars == <<gear, cats, minted, held, reads, mounted, marked, libJobs, ticked, selecting,
             libClock, missed>>
libServer == <<gear, cats>>
libPage == <<held, reads, marked>>
libMode == <<mounted, ticked, selecting>>

Keys == {"gear", "cats", "list"}

\* The gear page, the list's page, and the pages that use none of the three.
GearPage == {"gear", "cats"}
ListPage == Keys
Pages == {GearPage, ListPage, {}}

\* What the server answers for each cache.
RowsOf(k) ==
  CASE k = "gear" -> gear
    [] k = "cats" -> cats
    [] k = "list" -> [g \in DOMAIN gear \cap Listed |-> gear[g]]

-----------------------------------------------------------------------------
(* The repositories: every write is one transaction.                       *)

\* Fault: the category is not looked up again in the transaction.
AnyCategory(c) == TRUE

OwnsCategory(c) == c = NoCat \/ c \in cats

\* Fault: ids that are gone are skipped.
SkipGone(ids) == TRUE

OwnsAllGearIds(ids) == ids \subseteq DOMAIN gear

\* The rows with a write applied: in the table and in a cache alike.
After(j, r) ==
  CASE j.op = "move"   -> [g \in DOMAIN r |-> IF g \in j.ids THEN j.to ELSE r[g]]
    [] j.op = "delete" -> [g \in DOMAIN r \ j.ids |-> r[g]]
    [] j.op = "add"    -> [g \in DOMAIN r \cup j.ids |-> IF g \in j.ids THEN j.to ELSE r[g]]

\* update, bulkMove.
MoveGear(j) ==
  /\ OwnsCategory(j.to) /\ OwnsAllGearIds(j.ids)
  /\ gear' = After(j, gear) /\ cats' = cats

\* remove, bulkDelete.
DeleteGear(j) ==
  /\ OwnsAllGearIds(j.ids)
  /\ gear' = After(j, gear) /\ cats' = cats

\* The trigger that counts gear per account, inside the transaction of the insert.
UnderGearCap(ids) == Cardinality(DOMAIN gear \cup ids) <= GearCap

CreateGear(j) ==
  /\ OwnsCategory(j.to) /\ UnderGearCap(j.ids)
  /\ gear' = After(j, gear) /\ cats' = cats

\* Fault: the categories of an import are written before the transaction.
ImportInTwo(j) ==
  /\ cats' = cats \cup {j.to}
  /\ gear' = IF UnderGearCap(j.ids)
               THEN [g \in DOMAIN gear \cup j.ids |-> IF g \in j.ids THEN j.to ELSE gear[g]]
               ELSE gear

\* importBatch: a new category and the gear in it, or neither.
ImportBatch(j) ==
  /\ UnderGearCap(j.ids)
  /\ cats' = cats \cup {j.to}
  /\ gear' = [g \in DOMAIN gear \cup j.ids |-> IF g \in j.ids THEN j.to ELSE gear[g]]

CreateCategory(j) == cats' = cats \cup {j.to} /\ gear' = gear

\* Fault: the gear of the category is left to the database.
Uncategorized(c) == gear

\* The gear of a category that goes is uncategorized in the same transaction.
Uncategorize(c) == [g \in DOMAIN gear |-> IF gear[g] = c THEN NoCat ELSE gear[g]]

RemoveCategory(j) == j.to \in cats /\ cats' = cats \ {j.to} /\ gear' = Uncategorize(j.to)

Serve(j) ==
  \/ j.op = "move"   /\ MoveGear(j)
  \/ j.op = "delete" /\ DeleteGear(j)
  \/ j.op = "add"    /\ CreateGear(j)
  \/ j.op = "import" /\ ImportBatch(j)
  \/ j.op = "newCat" /\ CreateCategory(j)
  \/ j.op = "delCat" /\ RemoveCategory(j)

-----------------------------------------------------------------------------
(* The caches.                                                             *)

NoRead == [at |-> "none"]

\* cancelQueries: the reads of these caches are dropped, whatever they would have said.
Cancelled(ks) == [k \in Keys |-> IF k \in ks THEN NoRead ELSE reads[k]]

\* invalidateQueries: what a page uses is read anew, and a read under way is dropped
\* for it, unless it is the first one.  What no page uses keeps the read it has.
Restarted(ks) == {k \in ks \cap mounted : k \in DOMAIN held \/ reads[k] = NoRead}

Invalidated(ks) == [k \in Keys |-> IF k \in Restarted(ks) THEN [at |-> "asked"] ELSE reads[k]]

\* The reads that an invalidation leaves to land though they were answered before it.
LeftToLand(ks) == {k \in ks \ Restarted(ks) : reads[k].at = "answered"}

\* The user goes to a page.  It asks for what is not there, is invalidated or has aged,
\* and joins a read under way; the gear page that is left forgets its selection, and
\* what its bulk write was to do to it.
Visit(ks) ==
  /\ ks # mounted /\ mounted' = ks
  /\ \E aged \in SUBSET ks :
       reads' = [k \in Keys |->
                   IF k \in ks /\ reads[k] = NoRead
                        /\ (k \in DOMAIN held => k \in marked \cup aged)
                     THEN [at |-> "asked"] ELSE reads[k]]
  /\ selecting' = FALSE /\ ticked' = {}
  /\ libJobs' = {[j EXCEPT !.bulk = FALSE] : j \in libJobs}
  /\ UNCHANGED <<libServer, held, marked, minted, libClock, missed>>

AnswerRows(k) ==
  /\ reads[k].at = "asked"
  /\ reads' = [reads EXCEPT ![k] = [at |-> "answered", rows |-> RowsOf(k)]]
  /\ missed' = missed \ {k}
  /\ UNCHANGED <<libServer, held, marked, minted, libJobs, libMode, libClock>>

\* Rows that land count as read now, and clear the mark.
LandRows(k) ==
  /\ reads[k].at = "answered"
  /\ held' = [x \in DOMAIN held \cup {k} |-> IF x = k THEN reads[k].rows ELSE held[x]]
  /\ reads' = [reads EXCEPT ![k] = NoRead]
  /\ marked' = marked \ {k}
  /\ UNCHANGED <<libServer, minted, libJobs, libMode, libClock, missed>>

\* A failed refetch keeps the rows and the mark; a failed first read leaves no list.
FailRows(k) ==
  /\ reads[k].at = "asked"
  /\ reads' = [reads EXCEPT ![k] = NoRead]
  /\ UNCHANGED <<libServer, held, marked, minted, libJobs, libMode, libClock, missed>>

-----------------------------------------------------------------------------
(* The page.                                                               *)

\* The caches a gear change is shown in: the library, and a list that has the gear.
FanOut(ids) ==
  {"gear"} \cup {k \in DOMAIN held \cap {"list"} : DOMAIN held[k] \cap ids # {}}

\* A write begins: reads of the caches it shows in are dropped, and the rows kept.  What
\* it puts there counts as read now.
Begin(job, shown) ==
  /\ libClock < LibWrites /\ libClock' = libClock + 1
  /\ minted' = minted \cup IF job.op = "add" THEN job.ids
                                 ELSE IF job.op \in {"newCat", "import"} THEN job.ids \cup {job.to}
                                 ELSE {}
  /\ libJobs' = libJobs \cup {[n |-> libClock, done |-> FALSE, op |-> job.op, ids |-> job.ids,
                               to |-> job.to, bulk |-> job.bulk,
                               snap |-> [k \in DOMAIN shown |-> held[k]]]}
  /\ held' = [k \in DOMAIN held |-> IF k \in DOMAIN shown THEN shown[k] ELSE held[k]]
  /\ reads' = Cancelled(DOMAIN shown) /\ marked' = marked \ DOMAIN shown
  /\ UNCHANGED <<libServer, libMode, missed>>

ChangeGear(job) == Begin(job, [k \in FanOut(job.ids) |-> After(job, held[k])])

Job(op, ids, to, bulk) == [op |-> op, ids |-> ids, to |-> to, bulk |-> bulk]

\* The gear that the page on the screen lets edit: of a list, the gear it shows.
Editable ==
  CASE mounted = GearPage -> DOMAIN held["gear"]
    [] mounted = ListPage /\ "list" \in DOMAIN held -> DOMAIN held["gear"] \cap DOMAIN held["list"]
    [] OTHER -> {}

\* A row's own edit and delete: not in select mode.
EditGear(g, c) ==
  /\ ~ selecting /\ g \in Editable /\ c \in held["cats"] \cup {NoCat}
  /\ held["gear"][g] # c
  /\ ChangeGear(Job("move", {g}, c, FALSE))

RemoveGear(g) ==
  /\ ~ selecting /\ g \in Editable
  /\ ChangeGear(Job("delete", {g}, NoCat, FALSE))

\* A new item is in no list yet, so only the library shows it.
Unused == Gear \ (minted \cup Listed)

AddGear(g, c) ==
  /\ mounted = GearPage /\ g \in Unused /\ c \in held["cats"] \cup {NoCat}
  /\ LET job == Job("add", {g}, c, FALSE)
     IN  Begin(job, [k \in {"gear"} |-> After(job, held[k])])

UnusedCat == Cat \ minted

\* Made on the gear page, or in a form of the list's.
AddCategory(c) ==
  /\ mounted # {} /\ c \in UnusedCat
  /\ Begin(Job("newCat", {}, c, FALSE), [k \in {"cats"} |-> held[k] \cup {c}])

DeleteCategory(c) ==
  /\ mounted = GearPage /\ c \in held["cats"]
  /\ Begin(Job("delCat", {}, c, FALSE), [k \in {"cats"} |-> held[k] \ {c}])

\* An import shows nothing before it is confirmed.
Import(ids, c) ==
  /\ mounted = GearPage /\ ids # {} /\ ids \subseteq Unused /\ c \in UnusedCat
  /\ Begin(Job("import", ids, c, FALSE), [k \in {} |-> {}])

SelectMode ==
  /\ mounted = GearPage /\ ~ selecting /\ selecting' = TRUE
  /\ UNCHANGED <<libServer, libPage, mounted, minted, libJobs, ticked, libClock, missed>>

ExitSelectMode ==
  /\ selecting /\ selecting' = FALSE /\ ticked' = {}
  /\ UNCHANGED <<libServer, libPage, mounted, minted, libJobs, libClock, missed>>

\* A tick stays on a row that has left the page since.
Tick(g) ==
  /\ selecting /\ g \in DOMAIN held["gear"]
  /\ ticked' = IF g \in ticked THEN ticked \ {g} ELSE ticked \cup {g}
  /\ UNCHANGED <<libServer, libPage, mounted, minted, libJobs, selecting, libClock, missed>>

\* A bulk write is in flight: the toolbar starts no other.
BulkBusy == \E j \in libJobs : j.bulk

BulkMove(c) ==
  /\ selecting /\ ticked # {} /\ ~ BulkBusy /\ c \in held["cats"] \cup {NoCat}
  /\ ChangeGear(Job("move", ticked, c, TRUE))

BulkDelete ==
  /\ selecting /\ ticked # {} /\ ~ BulkBusy
  /\ ChangeGear(Job("delete", ticked, NoCat, TRUE))

LibCommit(j) ==
  /\ ~ j.done /\ Serve(j)
  /\ libJobs' = (libJobs \ {j}) \cup {[j EXCEPT !.done = TRUE]}
  /\ UNCHANGED <<libPage, minted, libMode, libClock, missed>>

\* Fault: only the caches the write was shown in are read again.
OnlySnapped(j) == DOMAIN j.snap

\* What a settled write asks for again: the list also where it was not shown there.
SettledKeys(j) ==
  CASE j.op \in {"move", "delete"} -> {"gear", "list"}
    [] j.op = "add"    -> {"gear"}
    [] j.op = "newCat" -> {"cats"}
    [] j.op = "delCat" -> Keys
    [] j.op = "import" -> {"gear", "cats"}

\* What settles is invalidated.
Settle(j) ==
  /\ libJobs' = libJobs \ {j}
  /\ reads' = Invalidated(SettledKeys(j)) /\ marked' = marked \cup SettledKeys(j)
  /\ missed' = missed \cup LeftToLand(SettledKeys(j))

\* Confirmed: a bulk write leaves select mode, whatever has been ticked since.
LibConfirmed(j) ==
  /\ j.done /\ Settle(j)
  /\ selecting' = (selecting /\ ~ j.bulk)
  /\ ticked' = IF j.bulk THEN {} ELSE ticked
  /\ UNCHANGED <<libServer, held, mounted, minted, libClock>>

\* An import asks the user to refresh instead of reading again.
AskToRefresh(j) ==
  /\ libJobs' = libJobs \ {j}
  /\ missed' = missed \cup SettledKeys(j) /\ UNCHANGED <<reads, marked>>

\* Refused, unreachable, or the answer lost: the kept rows go back.
LibFailed(j) ==
  /\ held' = [k \in DOMAIN held |-> IF k \in DOMAIN j.snap THEN j.snap[k] ELSE held[k]]
  /\ IF j.op = "import" THEN AskToRefresh(j) ELSE Settle(j)
  /\ UNCHANGED <<libServer, minted, libMode, libClock>>

\* Another device of the account deletes gear or a category.
OtherDevice ==
  /\ libClock < LibWrites /\ libClock' = libClock + 1
  /\ \/ \E g \in DOMAIN gear : DeleteGear(Job("delete", {g}, NoCat, FALSE))
     \/ \E c \in cats : RemoveCategory(Job("delCat", {}, c, FALSE))
  /\ missed' = Keys
  /\ UNCHANGED <<libPage, minted, libJobs, libMode>>

-----------------------------------------------------------------------------
LibInit ==
  /\ \E D \in SUBSET Gear, C \in SUBSET Cat :
       Cardinality(D) <= GearCap /\ cats = C /\ gear \in [D -> C \cup {NoCat}] /\ minted = D \cup C
  /\ held = [k \in {"gear", "cats"} |-> RowsOf(k)]
  /\ reads = [k \in Keys |-> NoRead] /\ marked = {} /\ libJobs = {} /\ mounted = GearPage
  /\ ticked = {} /\ selecting = FALSE /\ libClock = 0 /\ missed = {}

LibNext ==
  \/ \E ks \in Pages : Visit(ks)
  \/ \E k \in Keys : AnswerRows(k) \/ LandRows(k) \/ FailRows(k)
  \/ \E g \in Gear : RemoveGear(g) \/ Tick(g)
  \/ \E g \in Gear, c \in Cat \cup {NoCat} : EditGear(g, c) \/ AddGear(g, c)
  \/ \E c \in Cat : AddCategory(c) \/ DeleteCategory(c) \/ (\E ids \in SUBSET Gear : Import(ids, c))
  \/ SelectMode \/ ExitSelectMode \/ BulkDelete \/ (\E c \in Cat \cup {NoCat} : BulkMove(c))
  \/ \E j \in libJobs : LibCommit(j) \/ LibConfirmed(j) \/ LibFailed(j)
  \/ OtherDevice

LibSpec == LibInit /\ [][LibNext]_libVars

-----------------------------------------------------------------------------
(* Properties                                                              *)

\* No gear is in a category that is gone, though the page may still offer it: a
\* delete takes its gear along and no write files gear under it afterwards.  The
\* foreign key is left out, so the transactions alone see to it.
CategoriesExist == \A g \in DOMAIN gear : gear[g] \in cats \cup {NoCat}

\* A cache at rest is right: with no write under way, a cache that is not being read and
\* does not count as out of date shows what the server has, the list included.  Left out
\* is what no step of the page can know: another device's writes, an import that got no
\* answer, and a read that a write left to land when it settled, answered before it, as
\* no page used the cache then or it was the cache's first.  Such rows count as fresh.
CachesAgree ==
  libJobs = {} =>
    \A k \in DOMAIN held \ (marked \cup missed) : reads[k] = NoRead => held[k] = RowsOf(k)

\* A request does all it names or nothing: no part of a selection goes or moves
\* without the rest, and no category comes without the gear it was imported for.
AllOrNothing ==
  [][\A j \in libJobs :
       (libServer' # libServer /\ LibCommit(j)) =>
         CASE j.op = "delete" -> DOMAIN gear' = DOMAIN gear \ j.ids /\ j.ids \subseteq DOMAIN gear
           [] j.op = "move"   -> j.ids \subseteq DOMAIN gear' /\ \A g \in j.ids : gear'[g] = j.to
           [] j.op = "import" -> j.ids \subseteq DOMAIN gear' /\ j.to \in cats'
           [] OTHER -> TRUE]_libVars
=============================================================================
