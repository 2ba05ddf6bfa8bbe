--------------------------- MODULE Library_proof ---------------------------
(***************************************************************************)
(* Proofs about what works on the gear and the lists of an account, for    *)
(* any gear, categories, lists, files and number of writes.                *)
(*                                                                         *)
(* Of Library: what the transactions see to without the foreign key, that  *)
(* a request is carried out whole, and that the caches of a page at rest,  *)
(* and what is drawn from them, agree with the server and with the share   *)
(* page.  Of ListWeights: what a page at rest adds up.  The sums are folds *)
(* over a CHOSEN order, so that they add up in any order is proved first.  *)
(* Of GearDialogs: one surface at a time.  Of CsvImport: what is sent is   *)
(* well formed, and an import makes what is missing and nothing twice.     *)
(***************************************************************************)
EXTENDS ListWeights, GearDialogs, CsvImport, Sorting_proof

-----------------------------------------------------------------------------
(* Gear in a category that is gone                                         *)

\* A write that puts rows under a category keeps the others where they are.
LEMMA AfterKeeps ==
  ASSUME CategoriesExist, NEW j, j.to \in cats \cup {NoCat}, cats' = cats,
         j.op \in {"move", "delete", "add"}, gear' = After(j, gear)
  PROVE  CategoriesExist'
<1> SUFFICES ASSUME NEW g \in DOMAIN gear' PROVE gear'[g] \in cats' \cup {NoCat}
  BY DEF CategoriesExist
<1>1. CASE j.op = "move"
  BY <1>1 DEF After, CategoriesExist
<1>2. CASE j.op = "delete"
  BY <1>2 DEF After, CategoriesExist
<1>3. CASE j.op = "add"
  BY <1>3 DEF After, CategoriesExist
<1> QED BY <1>1, <1>2, <1>3

\* A delete leaves fewer rows, each where it was.
LEMMA DeleteKeeps ==
  ASSUME CategoriesExist, NEW j, j.op = "delete", DeleteGear(j)
  PROVE  CategoriesExist'
BY DEF CategoriesExist, DeleteGear, After

\* A category goes, and with it every row's reference to it.
LEMMA RemoveKeeps ==
  ASSUME CategoriesExist, NEW j, RemoveCategory(j)
  PROVE  CategoriesExist'
<1> SUFFICES ASSUME NEW g \in DOMAIN gear' PROVE gear'[g] \in cats' \cup {NoCat}
  BY DEF CategoriesExist
<1>1. g \in DOMAIN gear /\ gear'[g] = IF gear[g] = j.to THEN NoCat ELSE gear[g]
  BY DEF RemoveCategory, Uncategorize
<1>2. gear[g] \in cats \cup {NoCat} /\ cats' = cats \ {j.to}
  BY <1>1 DEF CategoriesExist, RemoveCategory
<1> QED BY <1>1, <1>2

\* Every transaction keeps it.
LEMMA ServeKeeps ==
  ASSUME CategoriesExist, NEW j, Serve(j)
  PROVE  CategoriesExist'
<1>1. CASE j.op = "move" /\ MoveGear(j)
  BY <1>1, AfterKeeps DEF MoveGear, OwnsCategory
<1>2. CASE j.op = "delete" /\ DeleteGear(j)
  BY <1>2, DeleteKeeps
<1>3. CASE j.op = "add" /\ CreateGear(j)
  BY <1>3, AfterKeeps DEF CreateGear, OwnsCategory
<1>4. CASE j.op = "import" /\ ImportBatch(j)
  BY <1>4 DEF ImportBatch, CategoriesExist
<1>5. CASE j.op = "newCat" /\ CreateCategory(j)
  BY <1>5 DEF CreateCategory, CategoriesExist
<1>6. CASE j.op = "delCat" /\ RemoveCategory(j)
  BY <1>6, RemoveKeeps
<1> QED BY <1>1, <1>2, <1>3, <1>4, <1>5, <1>6 DEF Serve

\* Of the page's steps and another device's, only commits touch the tables.
LEMMA LibStepKeeps ==
  ASSUME CategoriesExist, [LibNext]_libVars
  PROVE  CategoriesExist'
<1>1. CASE UNCHANGED <<gear, cats>>
  BY <1>1 DEF CategoriesExist
<1>2. CASE \E j \in libJobs : LibCommit(j)
  BY <1>2, ServeKeeps DEF LibCommit
<1>3. CASE OtherDevice
  <2>1. CASE \E g \in DOMAIN gear : DeleteGear(Job("delete", {g}, NoCat, FALSE))
    <3>1. PICK g \in DOMAIN gear : DeleteGear(Job("delete", {g}, NoCat, FALSE))
      BY <2>1
    <3>2. Job("delete", {g}, NoCat, FALSE).op = "delete"
      BY DEF Job
    <3> QED BY <3>1, <3>2, DeleteKeeps
  <2>2. CASE \E c \in cats : RemoveCategory(Job("delCat", {}, c, FALSE))
    BY <2>2, RemoveKeeps
  <2> QED BY <1>3, <2>1, <2>2 DEF OtherDevice
<1>4. CASE UNCHANGED libVars
  BY <1>4, <1>1 DEF libVars
<1>5. CASE \E ks \in Pages : Visit(ks)
  BY <1>5, <1>1 DEF Visit, libServer
<1>6. CASE \E k \in Keys : AnswerRows(k) \/ LandRows(k) \/ FailRows(k)
  BY <1>6, <1>1 DEF AnswerRows, LandRows, FailRows, libServer
<1>7. ASSUME NEW job, NEW shown, Begin(job, shown)
      PROVE  UNCHANGED <<gear, cats>>
  BY <1>7 DEF Begin, libServer
<1>8. CASE \E g \in Gear : RemoveGear(g) \/ Tick(g)
  BY <1>8, <1>7, <1>1 DEF RemoveGear, Tick, ChangeGear, libServer
<1>9. CASE \E g \in Gear, c \in Cat \cup {NoCat} : EditGear(g, c) \/ AddGear(g, c)
  BY <1>9, <1>7, <1>1 DEF EditGear, AddGear, ChangeGear
<1>10. CASE \E c \in Cat : AddCategory(c) \/ DeleteCategory(c) \/ (\E ids \in SUBSET Gear : Import(ids, c))
  BY <1>10, <1>7, <1>1 DEF AddCategory, DeleteCategory, Import
<1>11. CASE SelectMode \/ ExitSelectMode
  BY <1>11, <1>1 DEF SelectMode, ExitSelectMode, libServer
<1>12. CASE BulkDelete \/ (\E c \in Cat \cup {NoCat} : BulkMove(c))
  BY <1>12, <1>7, <1>1 DEF BulkDelete, BulkMove, ChangeGear
<1>13. CASE \E j \in libJobs : LibConfirmed(j) \/ LibFailed(j)
  BY <1>13, <1>1 DEF LibConfirmed, LibFailed, libServer
<1> QED BY <1>2, <1>3, <1>4, <1>5, <1>6, <1>8, <1>9, <1>10, <1>11, <1>12, <1>13 DEF LibNext

\* No gear is ever in a category that is gone, whatever pages and devices send and
\* in whatever order: a category's delete and the filing of gear under it, each one
\* transaction (server/repos/categories.ts, gear-items.ts), see to it without the
\* foreign key.
THEOREM CategoriesThere == LibSpec => []CategoriesExist
<1>1. LibInit => CategoriesExist
  BY DEF LibInit, CategoriesExist
<1> QED BY <1>1, LibStepKeeps, PTL DEF LibSpec

-----------------------------------------------------------------------------
(* All or nothing                                                          *)

\* A request names rows that are all there when it is carried out, and then none of
\* them is left out: no bulk delete, bulk move or import is ever done in part.
THEOREM RequestsWhole == LibSpec => AllOrNothing
<1>1. ASSUME NEW j \in libJobs, LibCommit(j)
      PROVE  CASE j.op = "delete" -> DOMAIN gear' = DOMAIN gear \ j.ids /\ j.ids \subseteq DOMAIN gear
               [] j.op = "move"   -> j.ids \subseteq DOMAIN gear' /\ \A g \in j.ids : gear'[g] = j.to
               [] j.op = "import" -> j.ids \subseteq DOMAIN gear' /\ j.to \in cats'
               [] OTHER -> TRUE
  <2>1. Serve(j)
    BY <1>1 DEF LibCommit
  <2>2. CASE j.op = "delete"
    BY <2>1, <2>2 DEF Serve, DeleteGear, After, OwnsAllGearIds
  <2>3. CASE j.op = "move"
    BY <2>1, <2>3 DEF Serve, MoveGear, After, OwnsAllGearIds
  <2>4. CASE j.op = "import"
    BY <2>1, <2>4 DEF Serve, ImportBatch
  <2>5. CASE j.op \notin {"delete", "move", "import"}
    BY <2>5
  <2> QED BY <2>2, <2>3, <2>4, <2>5
<1>2. [LibNext]_libVars =>
        [\A j \in libJobs :
           (libServer' # libServer /\ LibCommit(j)) =>
             CASE j.op = "delete" -> DOMAIN gear' = DOMAIN gear \ j.ids /\ j.ids \subseteq DOMAIN gear
               [] j.op = "move"   -> j.ids \subseteq DOMAIN gear' /\ \A g \in j.ids : gear'[g] = j.to
               [] j.op = "import" -> j.ids \subseteq DOMAIN gear' /\ j.to \in cats'
               [] OTHER -> TRUE]_libVars
  BY <1>1
<1> QED BY <1>2, PTL DEF LibSpec, AllOrNothing
-----------------------------------------------------------------------------
(* Caches that come to rest                                                *)

\* A write under way will ask for the rows of a cache again when it settles.
Owed(k) == \E j \in libJobs : k \in SettledKeys(j)

\* An answer on its way is what the server has; where there is none, the rows are, a
\* read that is asked for being one that may fail and leave them.
Told(k) ==
  /\ reads[k].at = "answered" => reads[k].rows = RowsOf(k)
  /\ (k \in DOMAIN held \ marked /\ reads[k].at # "answered") => held[k] = RowsOf(k)

\* A cache was told of whatever it is not owed and did not miss; a new item is on no
\* list.
PageInv ==
  /\ reads = [k \in Keys |-> reads[k]] /\ DOMAIN held \subseteq Keys
  /\ \A j \in libJobs :
       /\ j.op \in {"move", "delete", "add", "newCat", "delCat", "import"}
       /\ DOMAIN j.snap \subseteq SettledKeys(j)
       /\ j.op \in {"add", "import"} => j.ids \cap Listed = {}
  /\ \A k \in Keys \ missed : ~ Owed(k) => Told(k)

\* A commit changes no rows but those its write will ask for again.
LEMMA ServeSettled ==
  ASSUME NEW j, Serve(j), NEW k \in Keys \ SettledKeys(j),
         j.op \in {"add", "import"} => j.ids \cap Listed = {}
  PROVE  RowsOf(k)' = RowsOf(k)
<1>1. CASE j.op \in {"move", "delete", "import"}
  <2>1. CASE j.op = "import"
    <3>1. k = "list"
      BY <2>1 DEF SettledKeys, Keys
    <3>2. gear' = [g \in DOMAIN gear \cup j.ids |-> IF g \in j.ids THEN j.to ELSE gear[g]]
      BY <2>1 DEF Serve, ImportBatch
    <3> QED BY <2>1, <3>1, <3>2 DEF RowsOf
  <2>2. CASE j.op # "import"
    <3>1. k = "cats" /\ cats' = cats
      BY <1>1, <2>2 DEF SettledKeys, Keys, Serve, MoveGear, DeleteGear
    <3> QED BY <3>1 DEF RowsOf
  <2> QED BY <2>1, <2>2
<1>2. CASE j.op = "add"
  <2>1. /\ k \in {"cats", "list"} /\ cats' = cats
        /\ gear' = [g \in DOMAIN gear \cup j.ids |-> IF g \in j.ids THEN j.to ELSE gear[g]]
    BY <1>2 DEF SettledKeys, Keys, Serve, CreateGear, After
  <2> QED BY <1>2, <2>1 DEF RowsOf
<1>3. CASE j.op = "newCat"
  <2>1. k \in {"gear", "list"} /\ gear' = gear
    BY <1>3 DEF SettledKeys, Keys, Serve, CreateCategory
  <2> QED BY <2>1 DEF RowsOf
<1>4. CASE j.op = "delCat"
  BY <1>4 DEF SettledKeys
<1> QED BY <1>1, <1>2, <1>3, <1>4 DEF Serve

\* A write begins: it shows in caches it will ask for again, and drops their reads.
LEMMA BeginTold ==
  ASSUME PageInv, NEW job, NEW shown, Begin(job, shown), DOMAIN shown \subseteq SettledKeys(job),
         job.op \in {"move", "delete", "add", "newCat", "delCat", "import"},
         job.op \in {"add", "import"} => job.ids \cap Listed = {}
  PROVE  PageInv'
<1> DEFINE new == [n |-> libClock, done |-> FALSE, op |-> job.op, ids |-> job.ids,
                   to |-> job.to, bulk |-> job.bulk,
                   snap |-> [k \in DOMAIN shown |-> held[k]]]
<1>1. /\ libJobs' = libJobs \cup {new}
      /\ held' = [k \in DOMAIN held |-> IF k \in DOMAIN shown THEN shown[k] ELSE held[k]]
      /\ reads' = [k \in Keys |-> IF k \in DOMAIN shown THEN NoRead ELSE reads[k]]
      /\ gear' = gear /\ cats' = cats /\ marked' = marked \ DOMAIN shown /\ missed' = missed
  BY DEF Begin, Cancelled, libServer
<1>2. new.op = job.op /\ new.ids = job.ids /\ DOMAIN new.snap = DOMAIN shown
  OBVIOUS
<1> HIDE DEF new
<1>3. SettledKeys(new) = SettledKeys(job)
  BY <1>2 DEF SettledKeys
<1>4. \A k \in Keys : (~ Owed(k))' => ~ Owed(k) /\ k \notin DOMAIN shown
  BY <1>1, <1>3 DEF Owed, SettledKeys
<1>5. \A k \in Keys : RowsOf(k)' = RowsOf(k)
  BY <1>1 DEF RowsOf
<1>6. \A j \in libJobs' :
        /\ j.op \in {"move", "delete", "add", "newCat", "delCat", "import"}
        /\ DOMAIN j.snap \subseteq SettledKeys(j)
        /\ j.op \in {"add", "import"} => j.ids \cap Listed = {}
  BY <1>1, <1>2, <1>3 DEF PageInv, Told
<1>7. \A k \in Keys \ missed' : (~ Owed(k))' => Told(k)'
  BY <1>1, <1>4, <1>5 DEF PageInv, Told
<1> QED BY <1>1, <1>6, <1>7 DEF PageInv, Told, SettledKeys

\* A gear write is shown in the library and in the list: the caches it asks for.
LEMMA ChangeTold ==
  ASSUME PageInv, NEW ids, NEW op \in {"move", "delete"}, NEW to, NEW bulk,
         ChangeGear(Job(op, ids, to, bulk))
  PROVE  PageInv'
<1> DEFINE job == Job(op, ids, to, bulk)
           shown == [k \in FanOut(ids) |-> After(job, held[k])]
<1>1. Begin(job, shown) /\ job.op = op
  BY DEF ChangeGear, Job
<1>2. DOMAIN shown \subseteq {"gear", "list"}
  BY DEF FanOut
<1> HIDE DEF job, shown
<1>3. DOMAIN shown \subseteq SettledKeys(job)
  BY <1>1, <1>2 DEF SettledKeys
<1> QED BY <1>1, <1>3, BeginTold

\* A settled write asks for all it may have changed; a failed one puts back the rows
\* of the same caches.
LEMMA SettleTold ==
  ASSUME PageInv, NEW j \in libJobs, LibConfirmed(j) \/ LibFailed(j)
  PROVE  PageInv'
<1>1. /\ libJobs' = libJobs \ {j} /\ gear' = gear /\ cats' = cats
      /\ DOMAIN j.snap \subseteq SettledKeys(j)
  BY DEF PageInv, LibConfirmed, LibFailed, Settle, AskToRefresh, libServer
<1>2. /\ DOMAIN held' = DOMAIN held
      /\ \A k \in DOMAIN held : k \notin SettledKeys(j) => held'[k] = held[k]
  BY <1>1 DEF LibConfirmed, LibFailed
<1>3. \/ /\ reads' = Invalidated(SettledKeys(j)) /\ marked' = marked \cup SettledKeys(j)
         /\ missed' = missed \cup LeftToLand(SettledKeys(j))
      \/ /\ reads' = reads /\ marked' = marked
         /\ missed' = missed \cup SettledKeys(j)
  BY DEF LibConfirmed, LibFailed, Settle, AskToRefresh
<1>4. \A k \in Keys : (~ Owed(k))' => ~ Owed(k) \/ k \in SettledKeys(j)
  BY <1>1 DEF Owed, SettledKeys
<1>5. \A k \in Keys : RowsOf(k)' = RowsOf(k)
  BY <1>1 DEF RowsOf
<1>6. reads' = [k \in Keys |-> reads'[k]]
  BY <1>3 DEF PageInv, Invalidated
<1>7. ASSUME NEW k \in Keys \ missed', (~ Owed(k))'
      PROVE  Told(k)'
  <2>1. CASE k \in SettledKeys(j)
    <3>1. k \in marked' /\ reads'[k] = Invalidated(SettledKeys(j))[k]
          /\ k \notin LeftToLand(SettledKeys(j))
      BY <1>3, <1>7, <2>1
    <3>2. reads'[k].at # "answered"
      BY <2>1, <3>1 DEF Invalidated, LeftToLand
    <3> QED BY <3>1, <3>2 DEF Told
  <2>2. CASE k \notin SettledKeys(j)
    <3>1. reads'[k] = reads[k] /\ (k \in marked' <=> k \in marked) /\ k \notin missed
      BY <1>3, <1>7, <2>2 DEF Invalidated, Restarted
    <3>2. Told(k)
      BY <1>4, <1>7, <2>2, <3>1 DEF PageInv
    <3> QED BY <1>1, <1>2, <1>5, <2>2, <3>1, <3>2 DEF Told
  <2> QED BY <2>1, <2>2
<1>8. ASSUME NEW i \in libJobs'
      PROVE  /\ i.op \in {"move", "delete", "add", "newCat", "delCat", "import"}
             /\ DOMAIN i.snap \subseteq SettledKeys(i)
             /\ i.op \in {"add", "import"} => i.ids \cap Listed = {}
  BY <1>1, <1>8 DEF PageInv
<1> QED BY <1>1, <1>2, <1>6, <1>7, <1>8 DEF PageInv, SettledKeys

\* An answer is the server's rows when it is given, and lands or is dropped.
LEMMA ReadTold ==
  ASSUME PageInv, NEW k \in Keys, AnswerRows(k) \/ LandRows(k) \/ FailRows(k)
  PROVE  PageInv'
<1>1. /\ libJobs' = libJobs /\ gear' = gear /\ cats' = cats
      /\ DOMAIN held' \subseteq Keys
      /\ reads' = [x \in Keys |-> reads'[x]]
      /\ \A x \in Keys : x # k => reads'[x] = reads[x]
      /\ \A x \in DOMAIN held : x # k => held'[x] = held[x]
      /\ \A x : x # k => (x \in DOMAIN held' <=> x \in DOMAIN held)
      /\ \A x : x # k => (x \in marked' <=> x \in marked) /\ (x \in missed' <=> x \in missed)
  BY DEF PageInv, Told, AnswerRows, LandRows, FailRows, libServer
<1>2. \A x \in Keys : RowsOf(x)' = RowsOf(x)
  BY <1>1 DEF RowsOf
<1>3. \A x \in Keys : (~ Owed(x))' <=> ~ Owed(x)
  BY <1>1 DEF Owed, SettledKeys
<1>4. ASSUME k \notin missed', ~ Owed(k)
      PROVE  Told(k)'
  <2>1. CASE AnswerRows(k)
    BY <1>2, <2>1 DEF PageInv, AnswerRows, Told, NoRead
  <2>2. CASE LandRows(k)
    <3>1. reads[k].rows = RowsOf(k)
      BY <1>4, <2>2 DEF PageInv, Told, LandRows
    <3>2. held'[k] = reads[k].rows /\ reads'[k] = NoRead
      BY <2>2 DEF PageInv, Told, LandRows
    <3> QED BY <1>2, <3>1, <3>2 DEF Told, NoRead
  <2>3. CASE FailRows(k)
    <3>1. reads[k].at = "asked" /\ Told(k) /\ held' = held /\ marked' = marked
      BY <1>4, <2>3 DEF PageInv, FailRows
    <3>2. reads'[k] = NoRead
      BY <2>3 DEF PageInv, FailRows
    <3> QED BY <1>2, <3>1, <3>2 DEF Told, NoRead
  <2> QED BY <2>1, <2>2, <2>3
<1>5. ASSUME NEW x \in Keys \ missed', (~ Owed(x))', x # k
      PROVE  Told(x)'
  <2>1. Told(x)
    BY <1>1, <1>3, <1>5 DEF PageInv, Told
  <2> QED BY <1>1, <1>2, <1>5, <2>1 DEF Told
<1> QED BY <1>1, <1>3, <1>4, <1>5 DEF PageInv, Told, SettledKeys

\* Going to a page asks for rows, and changes none.
LEMMA VisitTold ==
  ASSUME PageInv, NEW ks, Visit(ks)
  PROVE  PageInv'
<1>1. /\ libJobs' = {[j EXCEPT !.bulk = FALSE] : j \in libJobs}
      /\ gear' = gear /\ cats' = cats /\ held' = held /\ marked' = marked /\ missed' = missed
  BY DEF Visit, libServer
<1>2. reads' = [k \in Keys |-> reads'[k]]
  BY DEF Visit
<1>3. \A k \in Keys : reads'[k] = reads[k] \/ (reads[k] = NoRead /\ reads'[k] = [at |-> "asked"])
  BY DEF Visit
<1>4. ASSUME NEW j \in libJobs, NEW i, i = [j EXCEPT !.bulk = FALSE]
      PROVE  /\ i.op = j.op /\ i.ids = j.ids /\ i.snap = j.snap
             /\ SettledKeys(i) = SettledKeys(j)
  <2>1. i.op = j.op /\ i.ids = j.ids /\ i.snap = j.snap
    BY <1>4
  <2> QED BY <2>1 DEF SettledKeys
<1>5. \A k \in Keys : (~ Owed(k))' => ~ Owed(k)
  <2> SUFFICES ASSUME NEW k \in Keys, NEW j \in libJobs, k \in SettledKeys(j)
               PROVE  \E i \in libJobs' : k \in SettledKeys(i)
    BY DEF Owed, SettledKeys
  <2>1. PICK i : i = [j EXCEPT !.bulk = FALSE]
    OBVIOUS
  <2> QED BY <1>1, <1>4, <2>1
<1>6. ASSUME NEW i \in libJobs'
      PROVE  /\ i.op \in {"move", "delete", "add", "newCat", "delCat", "import"}
             /\ DOMAIN i.snap \subseteq SettledKeys(i)
             /\ i.op \in {"add", "import"} => i.ids \cap Listed = {}
  <2>1. PICK j \in libJobs : i = [j EXCEPT !.bulk = FALSE]
    BY <1>1, <1>6
  <2> QED BY <1>4, <2>1 DEF PageInv
<1>7. \A k \in Keys : RowsOf(k)' = RowsOf(k)
  BY <1>1 DEF RowsOf
<1>8. ASSUME NEW k \in Keys \ missed', (~ Owed(k))'
      PROVE  Told(k)'
  <2>1. Told(k)
    BY <1>1, <1>5, <1>8 DEF PageInv
  <2> QED BY <1>1, <1>3, <1>7, <1>8, <2>1 DEF Told, NoRead
<1> QED BY <1>1, <1>2, <1>6, <1>8 DEF PageInv, SettledKeys

\* Every step keeps what the page was told.
LEMMA PageStep ==
  ASSUME PageInv, [LibNext]_libVars
  PROVE  PageInv'
<1>1. CASE UNCHANGED <<gear, cats, held, reads, marked, libJobs, missed>>
  BY <1>1 DEF PageInv, Told, Owed, SettledKeys, RowsOf
<1>2. CASE \E ks \in Pages : Visit(ks)
  BY <1>2, VisitTold
<1>3. CASE \E k \in Keys : AnswerRows(k) \/ LandRows(k) \/ FailRows(k)
  BY <1>3, ReadTold
<1>4. CASE \E g \in Gear : RemoveGear(g) \/ Tick(g)
  BY <1>1, <1>4, ChangeTold DEF RemoveGear, Tick, libServer, libPage
<1>5. CASE \E g \in Gear, c \in Cat \cup {NoCat} : EditGear(g, c) \/ AddGear(g, c)
  <2>1. ASSUME NEW g, NEW c, EditGear(g, c)
        PROVE  PageInv'
    BY <2>1, ChangeTold DEF EditGear
  <2>2. ASSUME NEW g, NEW c, AddGear(g, c)
        PROVE  PageInv'
    <3> DEFINE job == Job("add", {g}, c, FALSE)
               shown == [k \in {"gear"} |-> After(job, held[k])]
    <3>1. Begin(job, shown) /\ g \notin Listed
      BY <2>2 DEF AddGear, Unused
    <3>2. job.op = "add" /\ job.ids = {g} /\ DOMAIN shown = {"gear"}
      BY DEF Job
    <3> HIDE DEF job, shown
    <3>3. DOMAIN shown \subseteq SettledKeys(job)
      BY <3>2 DEF SettledKeys
    <3> QED BY <3>1, <3>2, <3>3, BeginTold
  <2> QED BY <1>5, <2>1, <2>2
<1>6. CASE \E c \in Cat : AddCategory(c) \/ DeleteCategory(c) \/ (\E ids \in SUBSET Gear : Import(ids, c))
  <2>1. PICK c \in Cat : AddCategory(c) \/ DeleteCategory(c) \/ (\E ids \in SUBSET Gear : Import(ids, c))
    BY <1>6
  <2>2. CASE AddCategory(c)
    <3> DEFINE job == Job("newCat", {}, c, FALSE)
               shown == [k \in {"cats"} |-> held[k] \cup {c}]
    <3>1. Begin(job, shown) /\ job.op = "newCat" /\ DOMAIN shown = {"cats"}
      BY <2>2 DEF AddCategory, Job
    <3> HIDE DEF job, shown
    <3>2. DOMAIN shown \subseteq SettledKeys(job)
      BY <3>1 DEF SettledKeys
    <3> QED BY <3>1, <3>2, BeginTold
  <2>3. CASE DeleteCategory(c)
    <3> DEFINE job == Job("delCat", {}, c, FALSE)
               shown == [k \in {"cats"} |-> held[k] \ {c}]
    <3>1. Begin(job, shown) /\ job.op = "delCat" /\ DOMAIN shown = {"cats"}
      BY <2>3 DEF DeleteCategory, Job
    <3> HIDE DEF job, shown
    <3>2. DOMAIN shown \subseteq SettledKeys(job)
      BY <3>1 DEF SettledKeys, Keys
    <3> QED BY <3>1, <3>2, BeginTold
  <2>4. CASE \E ids \in SUBSET Gear : Import(ids, c)
    <3>1. PICK ids \in SUBSET Gear : Import(ids, c)
      BY <2>4
    <3> DEFINE job == Job("import", ids, c, FALSE)
               shown == [k \in {} |-> {}]
    <3>2. Begin(job, shown) /\ job.op = "import" /\ job.ids = ids /\ DOMAIN shown = {}
      BY <3>1 DEF Import, Job
    <3>3. ids \cap Listed = {}
      BY <3>1 DEF Import, Unused
    <3> HIDE DEF job, shown
    <3> QED BY <3>2, <3>3, BeginTold
  <2> QED BY <2>1, <2>2, <2>3, <2>4
<1>7. CASE SelectMode \/ ExitSelectMode
  BY <1>1, <1>7 DEF SelectMode, ExitSelectMode, libServer, libPage
<1>8. CASE BulkDelete \/ (\E c \in Cat \cup {NoCat} : BulkMove(c))
  BY <1>8, ChangeTold DEF BulkDelete, BulkMove
<1>9. CASE \E j \in libJobs : LibCommit(j)
  <2>1. PICK j \in libJobs : LibCommit(j)
    BY <1>9
  <2> DEFINE new == [j EXCEPT !.done = TRUE]
  <2>2. /\ Serve(j) /\ libJobs' = (libJobs \ {j}) \cup {new}
        /\ UNCHANGED <<held, reads, marked, missed>>
    BY <2>1 DEF LibCommit, libPage
  <2>3. new.op = j.op /\ new.ids = j.ids /\ new.snap = j.snap
    OBVIOUS
  <2> HIDE DEF new
  <2>4. SettledKeys(new) = SettledKeys(j)
    BY <2>3 DEF SettledKeys
  <2>5. \A k \in Keys : (~ Owed(k))' => ~ Owed(k) /\ k \notin SettledKeys(j)
    BY <2>2, <2>4 DEF Owed, SettledKeys
  <2>6. \A k \in Keys : (~ Owed(k))' => RowsOf(k)' = RowsOf(k)
    BY <2>2, <2>5, ServeSettled DEF PageInv, Told
  <2>7. \A k \in Keys \ missed' : (~ Owed(k))' => Told(k)'
    BY <2>2, <2>5, <2>6 DEF PageInv, Told
  <2>8. \A i \in libJobs' :
        /\ i.op \in {"move", "delete", "add", "newCat", "delCat", "import"}
        /\ DOMAIN i.snap \subseteq SettledKeys(i)
        /\ i.op \in {"add", "import"} => i.ids \cap Listed = {}
    BY <2>2, <2>3, <2>4 DEF PageInv, Told
  <2> QED BY <2>2, <2>7, <2>8 DEF PageInv, Told, SettledKeys
<1>10. CASE \E j \in libJobs : LibConfirmed(j) \/ LibFailed(j)
  BY <1>10, SettleTold
<1>11. CASE OtherDevice
  BY <1>11 DEF OtherDevice, PageInv, Told, SettledKeys, libPage
<1>12. CASE UNCHANGED libVars
  BY <1>1, <1>12 DEF libVars
<1> QED BY <1>2, <1>3, <1>4, <1>5, <1>6, <1>7, <1>8, <1>9, <1>10, <1>11, <1>12 DEF LibNext

\* At first the page has read everything.
LEMMA PageBegin == LibInit => PageInv
BY DEF LibInit, PageInv, Told, Keys, RowsOf, NoRead, Owed
-----------------------------------------------------------------------------
(* Caches at rest: the page, its share and the server agree                *)

\* Which categories a row's section and footer come from: of those the categories
\* have, only the ones that the rows are in matter.
LEMMA KnownTwice ==
  ASSUME CategoriesExist, NEW g \in DOMAIN SharedRows
  PROVE  /\ KnownCategory(SharedRows[g], cats) = SharedRows[g]
         /\ KnownCategory(SharedRows[g], SharedCategories) = SharedRows[g]
         /\ SharedRows[g] \in SharedCategories \cup {NoCat}
<1>1. SharedRows[g] \in cats \cup {NoCat}
  BY DEF CategoriesExist, SharedRows, RowsOf
<1> QED BY <1>1 DEF KnownCategory, SharedCategories

\* The categories some rows are filed under, and the rows of one of them.
FilesOf(its, cs) == {KnownCategory(SharedRows[g], cs) : g \in its} \cap (cs \cup {NoCat})
Filed(its, c, cs) == {g \in its : KnownCategory(SharedRows[g], cs) = c}

\* The two copies of the categories file the rows of a list alike.
LEMMA FilesTwice ==
  ASSUME CategoriesExist, NEW its \in SUBSET DOMAIN SharedRows
  PROVE  /\ FilesOf(its, cats) = FilesOf(its, SharedCategories)
         /\ \A c : Filed(its, c, cats) = Filed(its, c, SharedCategories)
<1> DEFINE files == {SharedRows[g] : g \in its}
<1>1. {KnownCategory(SharedRows[g], cats) : g \in its} = files
  BY KnownTwice
<1>2. {KnownCategory(SharedRows[g], SharedCategories) : g \in its} = files
  BY KnownTwice
<1>3. files \subseteq SharedCategories \cup {NoCat}
  BY KnownTwice
<1>4. SharedCategories \subseteq cats
  BY DEF SharedCategories
<1>5. \A c : Filed(its, c, cats) = Filed(its, c, SharedCategories)
  BY KnownTwice DEF Filed
<1> HIDE DEF files
<1>6. files \cap (cats \cup {NoCat}) = files \cap (SharedCategories \cup {NoCat})
  BY <1>3, <1>4
<1> QED BY <1>1, <1>2, <1>5, <1>6 DEF FilesOf

\* So a table of one has the rows of the other,
LEMMA RowsTwice ==
  ASSUME CategoriesExist, NEW bucket
  PROVE  CategoryRows(bucket, SharedRows, cats) = CategoryRows(bucket, SharedRows, SharedCategories)
<1> DEFINE its == {g \in DOMAIN SharedRows : BucketOf(g) = bucket}
<1>1. \A cs : CategoryRows(bucket, SharedRows, cs)
                = [c \in FilesOf(its, cs) |-> GramsOfAll(Filed(its, c, cs))]
  BY DEF CategoryRows, FilesOf, Filed
<1>2. its \in SUBSET DOMAIN SharedRows
  OBVIOUS
<1> HIDE DEF its
<1>3. [c \in FilesOf(its, cats) |-> GramsOfAll(Filed(its, c, cats))]
        = [c \in FilesOf(its, SharedCategories) |-> GramsOfAll(Filed(its, c, SharedCategories))]
  BY <1>2, FilesTwice
<1> QED BY <1>1, <1>3

\* the sections of one are those of the other,
LEMMA SectionsTwice ==
  ASSUME CategoriesExist
  PROVE  ListSections(SharedRows, cats) = ListSections(SharedRows, SharedCategories)
<1> DEFINE all == DOMAIN SharedRows
           in(cs) == {c \in cs \cup {NoCat} : Filed(all, c, cs) # {}}
<1>1. \A c : Filed(all, c, cats) = Filed(all, c, SharedCategories)
  BY FilesTwice
<1>2. \A c : Filed(all, c, SharedCategories) # {} => c \in SharedCategories \cup {NoCat}
  BY KnownTwice DEF Filed
<1>3. SharedCategories \subseteq cats
  BY DEF SharedCategories
<1>4. in(cats) = in(SharedCategories)
  BY <1>1, <1>2, <1>3
<1>5. \A cs : ListSections(SharedRows, cs) = [c \in in(cs) |-> Filed(all, c, cs)]
  BY DEF ListSections, Filed
<1> HIDE DEF in, all
<1> QED BY <1>1, <1>4, <1>5

\* and so is all that is drawn.
LEMMA DrawnTwice ==
  ASSUME CategoriesExist
  PROVE  Drawn(SharedRows, cats, FoodGrams) = Drawn(SharedRows, SharedCategories, FoodGrams)
<1>1. [b \in Buckets |-> CategoryRows(b, SharedRows, cats)]
        = [b \in Buckets |-> CategoryRows(b, SharedRows, SharedCategories)]
  BY RowsTwice
<1>2. GearBreakdown(SharedRows, cats) = GearBreakdown(SharedRows, SharedCategories)
  BY <1>1 DEF GearBreakdown
<1> QED BY <1>2, SectionsTwice DEF Drawn, ListBreakdown

\* Once nothing is under way or was missed, every cache has the server's rows, all
\* gear is in sight and the page weighs what its share does; and no gear is ever in a
\* category that is gone (lib/queries/gear.ts, lib/weight-breakdown.ts,
\* server/repos/public-shares.ts): for any gear, categories and number of writes.
THEOREM LibraryHolding == LibSpec => []LibraryHolds
<1>1. LibSpec => []PageInv
  BY PageBegin, PageStep, PTL DEF LibSpec
<1>2. PageInv => CachesAgree
  <2> SUFFICES ASSUME PageInv, libJobs = {}, NEW k \in DOMAIN held \ (marked \cup missed), reads[k] = NoRead
               PROVE  held[k] = RowsOf(k)
    BY DEF CachesAgree
  <2>1. Told(k)
    BY DEF PageInv, Owed
  <2> QED BY <2>1 DEF Told, NoRead
<1>3. ASSUME CachesAgree, CategoriesExist, AtRest({"list", "cats"})
      PROVE  DrawnPage = DrawnShare
  <2>1. held["list"] = SharedRows /\ held["cats"] = cats
    BY <1>3 DEF AtRest, CachesAgree, SharedRows, RowsOf
  <2> QED BY <1>3, <2>1, DrawnTwice DEF DrawnPage, DrawnShare
<1>4. CachesAgree /\ CategoriesExist => GearInSight
  <2> SUFFICES ASSUME CachesAgree, CategoriesExist, AtRest({"gear", "cats"})
               PROVE  LET sections == GearSections(held["gear"], held["cats"])
                      IN  UNION {sections[c] : c \in DOMAIN sections} = DOMAIN gear
    BY DEF GearInSight
  <2>1. held["gear"] = gear /\ held["cats"] = cats
    BY DEF AtRest, CachesAgree, RowsOf
  <2> DEFINE sections == GearSections(gear, cats)
             of(c) == {g \in DOMAIN gear : gear[g] = c}
  <2>2. /\ DOMAIN sections = cats \cup {c \in {NoCat} : of(c) # {}}
        /\ \A c \in DOMAIN sections : sections[c] = of(c)
    BY DEF GearSections
  <2> HIDE DEF sections
  <2>3. \A g \in DOMAIN gear : gear[g] \in DOMAIN sections /\ g \in sections[gear[g]]
    BY <2>2 DEF CategoriesExist
  <2>4. UNION {sections[c] : c \in DOMAIN sections} = DOMAIN gear
    BY <2>2, <2>3
  <2> QED BY <2>1, <2>4 DEF sections
<1>5. PageInv /\ CategoriesExist => LibraryHolds
  BY <1>2, <1>3, <1>4 DEF LibraryHolds, ShareAgrees
<1> QED BY <1>1, <1>5, CategoriesThere, PTL

-----------------------------------------------------------------------------
(* A list's page adds up                                                   *)

\* The rows of a bucket, and those of a section.
Bucket(rows, b) == {g \in DOMAIN rows : BucketOf(g) = b}
SectionOf(rows, cs, c) == {g \in DOMAIN rows : KnownCategory(rows[g], cs) = c}

\* Every row has a section.
LEMMA Known == \A c, cs : KnownCategory(c, cs) \in cs \cup {NoCat}
BY DEF KnownCategory

\* How the property adds up footers, which is a sum as above.
FootersOf(F, b, S) == MapThenSumSet(LAMBDA c : F[c][b], S)

\* It comes to what the footers say.
LEMMA FootersTotal ==
  ASSUME NEW F, NEW b, NEW S, IsFiniteSet(S), NEW w, \A c \in S : w[c] = F[c][b]
  PROVE  FootersOf(F, b, S) = Total(w, S)
<1> DEFINE Is(h) == h = [s \in SUBSET S |-> IF s = {} THEN 0 ELSE F[Some(s)][b] + h[s \ {Some(s)}]]
<1>1. FootersOf(F, b, S) = (CHOOSE h : Is(h))[S]
  BY DEF FootersOf, MapThenSumSet, MapThenFoldSet, Some
<1>2. ASSUME NEW h PROVE Is(h) <=> AddsBy(h, w, SUBSET S)
  <2>1. \A s \in SUBSET S : s # {} => Some(s) \in S
    BY DEF Some
  <2>2. \A s \in SUBSET S : s # {} => w[Some(s)] = F[Some(s)][b]
    BY <2>1
  <2> QED BY <2>2 DEF AddsBy
<1>3. PICK h : h = CHOOSE k : Is(k)
  OBVIOUS
<1>4. Is(h)
  <2>1. \E k : Is(k)
    BY <1>2, AddingUp
  <2> QED BY <1>3, <2>1
<1>5. AddsBy(h, w, SUBSET S)
  BY <1>2, <1>4
<1>6. h[S] = Total(w, S)
  BY <1>5, TotalComes
<1> QED BY <1>1, <1>3, <1>6

\* A bucket's table comes to the grams of its rows.
LEMMA TableAddsUp ==
  ASSUME WeightsAssumption, NEW rows, IsFiniteSet(DOMAIN rows), DOMAIN rows \subseteq Gear, NEW cs, NEW b
  PROVE  /\ IsFiniteSet(DOMAIN CategoryRows(b, rows, cs))
         /\ \A c \in DOMAIN CategoryRows(b, rows, cs) :
              CategoryRows(b, rows, cs)[c] \in Nat /\ SectionOf(rows, cs, c) # {} /\ c \in cs \cup {NoCat}
         /\ GramsOfAll(Bucket(rows, b)) = Total(CategoryRows(b, rows, cs), DOMAIN CategoryRows(b, rows, cs))
<1>1. PICK its : its = Bucket(rows, b)
  OBVIOUS
<1>2. IsFiniteSet(its) /\ its \subseteq DOMAIN rows
  BY <1>1, FS_Subset DEF Bucket
<1>3. PICK of : of = [g \in its |-> KnownCategory(rows[g], cs)]
  OBVIOUS
<1>4. PICK K : K = {of[g] : g \in its}
  OBVIOUS
<1>5. PICK t : t = CategoryRows(b, rows, cs)
  OBVIOUS
<1>6. IsFiniteSet(K)
  <2>1. of \in Surjection(its, K)
    BY <1>3, <1>4 DEF Surjection
  <2> QED BY <1>2, <2>1, FS_Surjection
<1>7. DOMAIN t = K /\ \A c \in K : t[c] = Total(GramsOf, {g \in its : of[g] = c})
  <2>1. \A g \in its : of[g] = KnownCategory(rows[g], cs) /\ of[g] \in cs \cup {NoCat}
    BY <1>3, Known
  <2>2. K = {KnownCategory(rows[g], cs) : g \in its} \cap (cs \cup {NoCat})
    BY <1>4, <2>1
  <2>3. t = [c \in {KnownCategory(rows[g], cs) : g \in its} \cap (cs \cup {NoCat}) |->
               GramsOfAll({g \in its : KnownCategory(rows[g], cs) = c})]
    BY <1>1, <1>5 DEF CategoryRows, Bucket
  <2>4. ASSUME NEW c \in K PROVE t[c] = Total(GramsOf, {g \in its : of[g] = c})
    <3>1. {g \in its : KnownCategory(rows[g], cs) = c} = {g \in its : of[g] = c}
      BY <2>1
    <3>2. t[c] = GramsOfAll({g \in its : of[g] = c})
      BY <2>2, <2>3, <2>4, <3>1
    <3> QED BY <3>2 DEF GramsOfAll, Total
  <2> QED BY <2>2, <2>3, <2>4
<1>8. \A g \in its : GramsOf[g] \in Nat /\ of[g] \in K
  BY <1>2, <1>4 DEF WeightsAssumption
<1>9. Total(GramsOf, its) = Total(t, K)
  <2>1. ByGroup(t, GramsOf, of, its, K)
    BY <1>7 DEF ByGroup
  <2> QED BY <1>2, <1>6, <1>8, <2>1, TotalByGroup
<1>10. ASSUME NEW c \in K PROVE t[c] \in Nat /\ SectionOf(rows, cs, c) # {} /\ c \in cs \cup {NoCat}
  <2>1. PICK S : S = {g \in its : of[g] = c}
    OBVIOUS
  <2>2. IsFiniteSet(S) /\ \A g \in S : GramsOf[g] \in Nat
    BY <1>2, <1>8, <2>1, FS_Subset
  <2>3. t[c] \in Nat
    BY <1>7, <1>10, <2>1, <2>2, TotalWhole
  <2>4. PICK g \in its : c = of[g]
    BY <1>4, <1>10
  <2> QED BY <1>2, <1>3, <2>3, <2>4, Known DEF SectionOf
<1>11. GramsOfAll(its) = Total(GramsOf, its)
  BY DEF GramsOfAll, Total
<1> QED BY <1>1, <1>5, <1>6, <1>7, <1>9, <1>10, <1>11

\* The footers of the sections C are read off the bucket's table.
ReadOff(F, b, C, table) ==
  \A c \in C : /\ b \in DOMAIN F[c] <=> c \in DOMAIN table /\ table[c] > 0
               /\ b \in DOMAIN F[c] => F[c][b] = table[c]

\* What the breakdown says of a bucket is what the footers of all sections say of it.
LEMMA BucketAddsUp ==
  ASSUME WeightsAssumption, NEW rows, IsFiniteSet(DOMAIN rows), DOMAIN rows \subseteq Gear, NEW cs,
         NEW b \in Buckets, NEW F,
         NEW C, C = {c \in cs \cup {NoCat} : SectionOf(rows, cs, c) # {}}, DOMAIN F = C,
         NEW table, table = CategoryRows(b, rows, cs), ReadOff(F, b, C, table)
  PROVE  /\ FootersOf(F, b, {c \in DOMAIN F : b \in DOMAIN F[c]}) = GramsOfAll(Bucket(rows, b))
         /\ TotalOf(table) = GramsOfAll(Bucket(rows, b))
<1>1. PICK K : K = DOMAIN table
  OBVIOUS
<1>2. /\ IsFiniteSet(K) /\ K \subseteq C /\ \A c \in K : table[c] \in Nat
      /\ GramsOfAll(Bucket(rows, b)) = Total(table, K)
  BY <1>1, TableAddsUp
<1>3. PICK S : S = {c \in DOMAIN F : b \in DOMAIN F[c]}
  OBVIOUS
<1>4. S \subseteq K /\ \A c \in K \ S : table[c] = 0
  BY <1>1, <1>2, <1>3 DEF ReadOff
<1>5. IsFiniteSet(S) /\ \A c \in S : table[c] = F[c][b]
  BY <1>1, <1>2, <1>3, <1>4, FS_Subset DEF ReadOff
<1>6. FootersOf(F, b, S) = Total(table, S)
  BY <1>5, FootersTotal
<1>7. Total(table, K) = Total(table, S)
  BY <1>2, <1>4, TotalDrops
<1>8. TotalOf(table) = Total(table, K)
  BY <1>1 DEF TotalOf, Total
<1> QED BY <1>2, <1>3, <1>6, <1>7, <1>8

\* What is drawn of any rows adds up, whichever categories they are drawn with.
LEMMA DrawnAddsUp ==
  ASSUME WeightsAssumption, NEW rows, IsFiniteSet(DOMAIN rows), DOMAIN rows \subseteq Gear, NEW cs
  PROVE  AddsUp(Drawn(rows, cs, FoodGrams), rows)
<1> DEFINE C == {c \in cs \cup {NoCat} : SectionOf(rows, cs, c) # {}}
           table(b) == CategoryRows(b, rows, cs)
           gearOnly == GearBreakdown(rows, cs)
           breakdown == ListBreakdown(rows, cs, FoodGrams)
           view == Drawn(rows, cs, FoodGrams)
<1>1. PICK sections : sections = [c \in C |-> SectionOf(rows, cs, c)]
  OBVIOUS
<1>2. ListSections(rows, cs) = sections
  BY <1>1 DEF ListSections, SectionOf
<1>3. /\ breakdown.rows = [b \in Buckets |-> table(b)]
      /\ breakdown.base = TotalOf(table("base"))
      /\ breakdown.consumable = GramsOfAll(Bucket(rows, "consumable")) + FoodGrams
      /\ breakdown.worn = GramsOfAll(Bucket(rows, "worn"))
      /\ breakdown.total = TotalOf(table("base")) + GramsOfAll(Bucket(rows, "consumable")) + FoodGrams
  <2>1. /\ gearOnly.rows = [b \in Buckets |-> table(b)]
        /\ gearOnly.base = TotalOf(table("base"))
        /\ gearOnly.consumable = GramsOfAll(Bucket(rows, "consumable"))
        /\ gearOnly.worn = GramsOfAll(Bucket(rows, "worn"))
        /\ gearOnly.total = TotalOf(table("base")) + GramsOfAll(Bucket(rows, "consumable"))
    BY DEF GearBreakdown, Bucket, Buckets
  <2> QED BY <2>1 DEF ListBreakdown, WithFood, GearBreakdown
<1>4. /\ view.sections = sections /\ view.food = FoodGrams
      /\ view.footers = [c \in C |-> FooterOf(breakdown, c)]
      /\ view.summary = SummaryOf(rows, breakdown)
  BY <1>1, <1>2 DEF Drawn
<1>5. PICK F : F = view.footers
  OBVIOUS
<1>6. ASSUME NEW b \in Buckets, NEW c \in C
      PROVE  /\ b \in DOMAIN F[c] <=> c \in DOMAIN table(b) /\ table(b)[c] > 0
             /\ b \in DOMAIN F[c] => F[c][b] = table(b)[c]
  <2>1. breakdown.rows[b] = table(b)
    BY <1>3
  <2> HIDE DEF breakdown, table, view, C
  <2>2. F[c] = FooterOf(breakdown, c)
    BY <1>4, <1>5
  <2>3. GramsForCategory(breakdown, b, c) = IF c \in DOMAIN table(b) THEN table(b)[c] ELSE 0
    BY <2>1 DEF GramsForCategory
  <2> QED BY <2>2, <2>3 DEF FooterOf
<1>7. DOMAIN F = C
  BY <1>4, <1>5
<1>8. ASSUME NEW b \in Buckets
      PROVE  /\ FootersOf(F, b, {c \in DOMAIN F : b \in DOMAIN F[c]}) = GramsOfAll(Bucket(rows, b))
             /\ TotalOf(table(b)) = GramsOfAll(Bucket(rows, b))
  <2>1. PICK t : t = table(b)
    OBVIOUS
  <2>2. PICK D : D = C
    OBVIOUS
  <2>3. ReadOff(F, b, D, t)
    BY <1>6, <2>1, <2>2 DEF ReadOff
  <2>4. D = {c \in cs \cup {NoCat} : SectionOf(rows, cs, c) # {}} /\ DOMAIN F = D /\ t = CategoryRows(b, rows, cs)
    BY <1>7, <2>1, <2>2
  <2> HIDE DEF C, table, breakdown, view, gearOnly
  <2>5. TotalOf(t) = GramsOfAll(Bucket(rows, b)) /\ FootersOf(F, b, {c \in DOMAIN F : b \in DOMAIN F[c]}) = GramsOfAll(Bucket(rows, b))
    BY <2>3, <2>4, BucketAddsUp
  <2> QED BY <2>1, <2>5
<1>9. ASSUME NEW g \in DOMAIN rows
      PROVE  Cardinality({c \in DOMAIN sections : g \in sections[c]}) = 1
  <2>1. {c \in DOMAIN sections : g \in sections[c]} = {KnownCategory(rows[g], cs)}
    BY <1>1, Known DEF SectionOf
  <2> QED BY <2>1, FS_Singleton
<1>10. ASSUME ~ view.summary.hidden
       PROVE  /\ view.summary.base = FootersOf(F, "base", {c \in DOMAIN F : "base" \in DOMAIN F[c]})
              /\ view.summary.consumable =
                   FootersOf(F, "consumable", {c \in DOMAIN F : "consumable" \in DOMAIN F[c]}) + view.food
              /\ view.summary.worn = FootersOf(F, "worn", {c \in DOMAIN F : "worn" \in DOMAIN F[c]})
              /\ view.summary.total = view.summary.base + view.summary.consumable
  <2>1. PICK summary : summary = SummaryOf(rows, breakdown)
    OBVIOUS
  <2>2. view.summary = summary /\ view.food = FoodGrams
    BY <1>4, <2>1
  <2>3. /\ summary.base = breakdown.base /\ summary.total = breakdown.total
        /\ summary.consumable = breakdown.consumable /\ summary.worn = breakdown.worn
    <3>1. ~ summary.hidden
      BY <1>10, <2>2
    <3> HIDE DEF breakdown, view
    <3> QED BY <2>1, <3>1 DEF SummaryOf
  <2>4. "base" \in Buckets /\ "consumable" \in Buckets /\ "worn" \in Buckets
    BY DEF Buckets
  <2>5. PICK base, consumable : base = GramsOfAll(Bucket(rows, "base"))
                                /\ consumable = GramsOfAll(Bucket(rows, "consumable"))
    OBVIOUS
  <2>6. base \in Nat /\ consumable \in Nat /\ FoodGrams \in Nat
    <3>1. ASSUME NEW b PROVE GramsOfAll(Bucket(rows, b)) \in Nat
      <4>1. PICK its : its = Bucket(rows, b)
        OBVIOUS
      <4>2. IsFiniteSet(its) /\ \A g \in its : GramsOf[g] \in Nat
        BY <4>1, FS_Subset DEF Bucket, WeightsAssumption
      <4>3. GramsOfAll(its) = Total(GramsOf, its)
        BY DEF GramsOfAll, Total
      <4> QED BY <4>1, <4>2, <4>3, TotalWhole
    <3> QED BY <2>5, <3>1 DEF WeightsAssumption
  <2> HIDE DEF breakdown, view, table
  <2>7. summary.total = base + consumable + FoodGrams /\ summary.base = base
        /\ summary.consumable = consumable + FoodGrams
    BY <1>3, <1>8, <2>3, <2>4, <2>5
  <2>8. summary.total = summary.base + summary.consumable
    BY <2>6, <2>7
  <2> QED BY <1>3, <1>8, <2>2, <2>3, <2>4, <2>8
<1> HIDE DEF view
<1>11. AddsUp(view, rows)
  BY <1>4, <1>5, <1>9, <1>10 DEF AddsUp, FootersOf
<1> QED BY <1>11 DEF view

\* Whatever copy of the list's rows there is, it has gear of the list only.
ListInv ==
  /\ "list" \in DOMAIN held => DOMAIN held["list"] \subseteq Listed
  /\ reads["list"].at = "answered" => DOMAIN reads["list"].rows \subseteq Listed
  /\ \A j \in libJobs : "list" \in DOMAIN j.snap => DOMAIN j.snap["list"] \subseteq Listed

\* A write that is shown in the list brings no row into it.
LEMMA BeginLists ==
  ASSUME PageInv, ListInv, NEW job, NEW shown, Begin(job, shown),
         "list" \in DOMAIN shown =>
           "list" \in DOMAIN held /\ DOMAIN shown["list"] \subseteq DOMAIN held["list"]
  PROVE  ListInv'
<1>1. PICK new : new = [n |-> libClock, done |-> FALSE, op |-> job.op, ids |-> job.ids,
                        to |-> job.to, bulk |-> job.bulk, snap |-> [k \in DOMAIN shown |-> held[k]]]
  OBVIOUS
<1>2. libJobs' = libJobs \cup {new}
  BY <1>1 DEF Begin
<1>3. "list" \in DOMAIN new.snap => DOMAIN new.snap["list"] \subseteq Listed
  BY <1>1 DEF ListInv
<1>4. "list" \in DOMAIN held' => DOMAIN held'["list"] \subseteq Listed
  BY DEF Begin, ListInv
<1>5. reads'["list"].at = "answered" => reads'["list"] = reads["list"]
  BY DEF Begin, Cancelled, NoRead, Keys
<1> QED BY <1>2, <1>3, <1>4, <1>5 DEF ListInv

\* Moves and deletes are such writes.
LEMMA ChangeLists ==
  ASSUME PageInv, ListInv, NEW job, job.op \in {"move", "delete"}, ChangeGear(job)
  PROVE  ListInv'
<1> DEFINE shown == [k \in FanOut(job.ids) |-> After(job, held[k])]
<1>1. "list" \in DOMAIN shown => "list" \in DOMAIN held /\ shown["list"] = After(job, held["list"])
  BY DEF FanOut
<1>2. DOMAIN After(job, held["list"]) \subseteq DOMAIN held["list"]
  BY DEF After
<1>3. Begin(job, shown)
  BY DEF ChangeGear
<1> HIDE DEF shown
<1> QED BY <1>1, <1>2, <1>3, BeginLists

\* Every step keeps it: an answer is made of the gear that the list carries.
LEMMA ListStep ==
  ASSUME LibAssumption, PageInv, ListInv, [LibNext]_libVars
  PROVE  ListInv'
<1>1. CASE UNCHANGED <<held, reads, libJobs>>
  BY <1>1 DEF ListInv
<1>2. CASE \E ks \in Pages : Visit(ks)
  <2>1. PICK ks : Visit(ks)
    BY <1>2
  <2>2. reads'["list"].at = "answered" => reads'["list"] = reads["list"]
    BY <2>1 DEF Visit, Keys
  <2>3. ASSUME NEW i \in libJobs' PROVE \E j \in libJobs : i.snap = j.snap
    <3>1. PICK j \in libJobs : i = [j EXCEPT !.bulk = FALSE]
      BY <2>1, <2>3 DEF Visit
    <3>2. i.snap = j.snap
      BY <3>1
    <3> QED BY <3>2
  <2> QED BY <2>1, <2>2, <2>3 DEF Visit, ListInv
<1>3. CASE \E k \in Keys : AnswerRows(k) \/ LandRows(k) \/ FailRows(k)
  <2>1. PICK k \in Keys : AnswerRows(k) \/ LandRows(k) \/ FailRows(k)
    BY <1>3
  <2>2. CASE AnswerRows(k)
    <3>1. reads'["list"].at = "answered" => reads'["list"] = reads["list"] \/ reads'["list"].rows = RowsOf("list")
      BY <2>2 DEF AnswerRows, PageInv, Keys
    <3>2. DOMAIN RowsOf("list") \subseteq Listed
      BY DEF RowsOf
    <3> QED BY <2>2, <3>1, <3>2 DEF AnswerRows, ListInv
  <2>3. CASE LandRows(k)
    <3>1. "list" \in DOMAIN held' =>
            held'["list"] = IF k = "list" THEN reads["list"].rows ELSE held["list"]
      BY <2>3 DEF LandRows
    <3>2. "list" \in DOMAIN held' /\ k # "list" => "list" \in DOMAIN held
      BY <2>3 DEF LandRows
    <3>3. "list" \in DOMAIN held' => DOMAIN held'["list"] \subseteq Listed
      BY <2>3, <3>1, <3>2 DEF LandRows, ListInv
    <3>4. reads'["list"].at = "answered" => reads'["list"] = reads["list"]
      BY <2>3 DEF LandRows, PageInv, NoRead, Keys
    <3> QED BY <2>3, <3>3, <3>4 DEF LandRows, ListInv
  <2>4. CASE FailRows(k)
    <3>1. reads'["list"].at = "answered" => reads'["list"] = reads["list"]
      BY <2>4 DEF FailRows, PageInv, NoRead, Keys
    <3> QED BY <2>4, <3>1 DEF FailRows, ListInv
  <2> QED BY <2>1, <2>2, <2>3, <2>4
<1>4. CASE \E g \in Gear : RemoveGear(g) \/ Tick(g)
  <2>1. PICK g \in Gear : RemoveGear(g) \/ Tick(g)
    BY <1>4
  <2>2. CASE RemoveGear(g)
    <3>1. PICK job : job = Job("delete", {g}, NoCat, FALSE)
      OBVIOUS
    <3>2. ChangeGear(job)
      BY <2>2, <3>1 DEF RemoveGear
    <3>3. job.op \in {"move", "delete"}
      BY <3>1 DEF Job
    <3> QED BY <3>2, <3>3, ChangeLists
  <2>3. CASE Tick(g)
    BY <1>1, <2>3 DEF Tick, libServer, libPage
  <2> QED BY <2>1, <2>2, <2>3
<1>5. CASE \E g \in Gear, c \in Cat \cup {NoCat} : EditGear(g, c) \/ AddGear(g, c)
  <2>1. PICK g \in Gear, c \in Cat \cup {NoCat} : EditGear(g, c) \/ AddGear(g, c)
    BY <1>5
  <2>2. CASE EditGear(g, c)
    <3>1. PICK job : job = Job("move", {g}, c, FALSE)
      OBVIOUS
    <3>2. ChangeGear(job)
      BY <2>2, <3>1 DEF EditGear
    <3>3. job.op \in {"move", "delete"}
      BY <3>1 DEF Job
    <3> QED BY <3>2, <3>3, ChangeLists
  <2>3. CASE AddGear(g, c)
    <3> DEFINE job == Job("add", {g}, c, FALSE)
               shown == [k \in {"gear"} |-> After(job, held[k])]
    <3>1. Begin(job, shown) /\ "list" \notin DOMAIN shown
      BY <2>3 DEF AddGear
    <3> HIDE DEF job, shown
    <3>2. PICK j, s : Begin(j, s) /\ "list" \notin DOMAIN s
      BY <3>1
    <3> QED BY <3>2, BeginLists
  <2> QED BY <2>1, <2>2, <2>3
<1>6. CASE \E c \in Cat : AddCategory(c) \/ DeleteCategory(c) \/ (\E ids \in SUBSET Gear : Import(ids, c))
  <2>1. PICK c \in Cat : AddCategory(c) \/ DeleteCategory(c) \/ (\E ids \in SUBSET Gear : Import(ids, c))
    BY <1>6
  <2>2. \E job, shown : Begin(job, shown) /\ "list" \notin DOMAIN shown
    <3> DEFINE more == [k \in {"cats"} |-> held[k] \cup {c}]
               less == [k \in {"cats"} |-> held[k] \ {c}]
               same == [k \in {} |-> {}]
    <3>1. "list" \notin DOMAIN more /\ "list" \notin DOMAIN less /\ "list" \notin DOMAIN same
      OBVIOUS
    <3>2. AddCategory(c) => Begin(Job("newCat", {}, c, FALSE), more)
      BY DEF AddCategory
    <3>3. DeleteCategory(c) => Begin(Job("delCat", {}, c, FALSE), less)
      BY DEF DeleteCategory
    <3>4. \A ids : Import(ids, c) => Begin(Job("import", ids, c, FALSE), same)
      BY DEF Import
    <3> HIDE DEF more, less, same
    <3> QED BY <2>1, <3>1, <3>2, <3>3, <3>4
  <2>3. PICK job, shown : Begin(job, shown) /\ "list" \notin DOMAIN shown
    BY <2>2
  <2> QED BY <2>3, BeginLists
<1>7. CASE SelectMode \/ ExitSelectMode
  BY <1>1, <1>7 DEF SelectMode, ExitSelectMode, libServer, libPage
<1>8. CASE BulkDelete \/ (\E c \in Cat \cup {NoCat} : BulkMove(c))
  <2>1. ASSUME NEW ids, NEW c PROVE /\ Job("move", ids, c, TRUE).op \in {"move", "delete"}
                                    /\ Job("delete", ids, c, TRUE).op \in {"move", "delete"}
    BY DEF Job
  <2>2. \E job : ChangeGear(job) /\ job.op \in {"move", "delete"}
    BY <1>8, <2>1 DEF BulkDelete, BulkMove
  <2> QED BY <2>2, ChangeLists
<1>9. CASE \E j \in libJobs : LibCommit(j)
  <2>1. PICK j \in libJobs : LibCommit(j)
    BY <1>9
  <2>2. PICK new : new = [j EXCEPT !.done = TRUE]
    OBVIOUS
  <2>3. new.snap = j.snap
    BY <2>2
  <2>4. libJobs' = (libJobs \ {j}) \cup {new} /\ held' = held /\ reads' = reads
    BY <2>1, <2>2 DEF LibCommit, libPage
  <2> QED BY <2>3, <2>4 DEF ListInv
<1>10. CASE \E j \in libJobs : LibConfirmed(j) \/ LibFailed(j)
  <2>1. PICK j \in libJobs : LibConfirmed(j) \/ LibFailed(j)
    BY <1>10
  <2>2. \A ks : Invalidated(ks)["list"].at = "answered" => Invalidated(ks)["list"] = reads["list"]
    BY DEF Invalidated, Keys
  <2>3. reads'["list"].at = "answered" => reads'["list"] = reads["list"]
    BY <2>1, <2>2 DEF LibConfirmed, LibFailed, Settle, AskToRefresh
  <2>4. "list" \in DOMAIN held' => DOMAIN held'["list"] \subseteq Listed
    BY <2>1 DEF LibConfirmed, LibFailed, ListInv
  <2>5. libJobs' \subseteq libJobs
    BY <2>1 DEF LibConfirmed, LibFailed, Settle, AskToRefresh
  <2> QED BY <2>3, <2>4, <2>5 DEF ListInv
<1>11. CASE OtherDevice
  BY <1>1, <1>11 DEF OtherDevice, libPage
<1>12. CASE UNCHANGED libVars
  BY <1>1, <1>12 DEF libVars
<1> QED BY <1>2, <1>3, <1>4, <1>5, <1>6, <1>7, <1>8, <1>9, <1>10, <1>11, <1>12 DEF LibNext

\* The page of a list adds up: every row is in one section, and the footers come to the
\* summary, food included, whatever the list's cache and the categories' hold, for any
\* gear, weights, flags and categories (lib/weight-breakdown.ts, lib/grouping.ts,
\* lists/CategoryTable.tsx).
THEOREM PageAdding == LibSpec => []PageAddsUp
<1>1. LibInit => ListInv
  BY DEF LibInit, ListInv, NoRead, Keys
<1>2. ListInv => PageAddsUp
  <2> SUFFICES ASSUME ListInv, "list" \in DOMAIN held PROVE AddsUp(DrawnPage, held["list"])
    BY DEF PageAddsUp
  <2>1. DOMAIN held["list"] \subseteq Gear /\ IsFiniteSet(DOMAIN held["list"])
    BY LibAssumption, FS_Subset DEF ListInv
  <2> QED BY <2>1, WeightsAssumption, DrawnAddsUp DEF DrawnPage
<1> QED BY <1>1, <1>2, LibAssumption, PageBegin, PageStep, ListStep, PTL DEF LibSpec

-----------------------------------------------------------------------------
(* The dialogs of the gear page                                            *)

\* The identity 0 stands for nothing: no save is out for it.
DialogsInv == OneSurface /\ 0 \notin gearSaves

\* A fresh identity is one of those there are.
LEMMA FreshIdentity == HasFresh => Fresh \in SurfaceId /\ Fresh # 0
BY DialogsAssumption DEF HasFresh, Fresh

\* What the page opens, it opens beside no dialog of the import flow.
LEMMA PageClicks ==
  ASSUME DialogsInv,
         \/ \E k \in Forms \cup Confirms : OpenDialog(k)
         \/ OpenNewCategory \/ ToDelete \/ Dismiss \/ Confirm \/ OpenInline \/ CancelInline
         \/ SubmitCategory \/ SaveGear \/ SubmitList
  PROVE  DialogsInv'
<1>1. CASE \/ \E k \in Forms \cup Confirms : OpenDialog(k)
           \/ OpenNewCategory
  BY <1>1 DEF DialogsInv, OneSurface, OpenDialog, OpenNewCategory, OnPage, requests
<1>2. CASE ToDelete \/ Dismiss \/ Confirm
  <2>1. flow' = flow /\ gearSaves' = gearSaves
    BY <1>2 DEF ToDelete, Dismiss, Confirm, requests
  <2>2. flow = NoDialog
    BY <1>2 DEF ToDelete, Dismiss, Confirm, Confirms, DialogsInv, OneSurface, NoDialog,
       DialogClosed
  <2> QED
    BY <2>1, <2>2 DEF DialogsInv, OneSurface
<1>3. CASE OpenInline \/ CancelInline \/ SubmitCategory
  BY <1>3 DEF DialogsInv, OneSurface, OpenInline, CancelInline, SubmitCategory, requests
<1>4. CASE SaveGear \/ SubmitList
  <2>1. flow' = flow /\ 0 \notin gearSaves'
    BY <1>4, FreshIdentity DEF SaveGear, SubmitList, DialogsInv
  <2>2. flow = NoDialog
    BY <1>4 DEF SaveGear, SubmitList, GearForms, DialogsInv, OneSurface, NoDialog, DialogClosed
  <2> QED
    BY <2>1, <2>2 DEF DialogsInv, OneSurface
<1> QED
  BY <1>1, <1>2, <1>3, <1>4

\* What the import flow opens, it opens once the page has closed its own.
LEMMA FlowSteps ==
  ASSUME DialogsInv,
         \/ OpenExplainer \/ PickFile \/ SendImport \/ CloseFlow \/ ListCreated \/ ImportAnswered
         \/ \E k \in {"preview", "error"} : FileRead(k)
  PROVE  DialogsInv'
BY DEF DialogsInv, OneSurface, OpenExplainer, PickFile, SendImport, CloseFlow, ListCreated,
   ImportAnswered, FileRead, ClosedBeforeOpen, Show, requests

\* An answer opens nothing where nothing is open.
LEMMA AnswersOpenNothing ==
  ASSUME DialogsInv,
         \/ \E s \in gearSaves : SaveAnswered(s)
         \/ \E e \in catPosts : CategoryCreated(e) \/ CategoryFailed(e)
         \/ ListFailed
  PROVE  DialogsInv'
<1>1. CASE \E s \in gearSaves : SaveAnswered(s)
  <2>1. PICK s \in gearSaves : SaveAnswered(s)
    BY <1>1
  <2>2. dialog = NoDialog => dialog' = NoDialog
    BY <2>1 DEF SaveAnswered, Settles, NoDialog, DialogClosed, DialogsInv
  <2> QED
    BY <2>1, <2>2 DEF SaveAnswered, DialogsInv, OneSurface
<1>2. CASE \E e \in catPosts : CategoryCreated(e) \/ CategoryFailed(e)
  BY <1>2 DEF CategoryCreated, CategoryFailed, DialogsInv, OneSurface
<1>3. CASE ListFailed
  <2>1. dialog = NoDialog => dialog' = NoDialog
    BY <1>3 DEF ListFailed, Settles, NoDialog, DialogClosed
  <2> QED
    BY <1>3, <2>1 DEF ListFailed, DialogsInv, OneSurface
<1> QED
  BY <1>1, <1>2, <1>3

\* Every step keeps the invariant.
LEMMA DialogsNextKeeps == DialogsInv /\ [DialogsNext]_dialogVars => DialogsInv'
<1> SUFFICES ASSUME DialogsInv, [DialogsNext]_dialogVars PROVE DialogsInv'
  OBVIOUS
<1>1. CASE UNCHANGED dialogVars
  BY <1>1 DEF dialogVars, DialogsInv, OneSurface
<1>2. CASE LibraryLoads \/ (\E on \in BOOLEAN : SetSelect(on)) \/ Draw
  BY <1>2 DEF LibraryLoads, SetSelect, Draw, DialogsInv, OneSurface, requests
<1> QED
  BY <1>1, <1>2, PageClicks, FlowSteps, AnswersOpenNothing DEF DialogsNext

\* The step of LateCreatesInert.
CreatesStep ==
  \A e \in catPosts \ catPosts' :
    (e # inline /\ listPost' = listPost) => UNCHANGED <<dialog, inline, filed>>

\* The step of FormsKept.
FormsStep ==
  (queued' /\ dialog.kind \in Forms /\ dialog' # dialog)
    => \/ dialog.id \in gearSaves \ gearSaves'
       \/ dialog.id = listPost /\ listPost' = 0
       \/ flow' # NoDialog

\* Only a create that is answered is out no more.
LEMMA CreatesStand == DialogsNext => CreatesStep
<1>1. ASSUME NEW e \in catPosts, CategoryCreated(e) \/ CategoryFailed(e) PROVE CreatesStep
  BY <1>1 DEF CreatesStep, CategoryCreated, CategoryFailed, Inert
<1>2. ASSUME DialogsNext, \A e \in catPosts : ~ CategoryCreated(e) /\ ~ CategoryFailed(e)
      PROVE  catPosts \subseteq catPosts'
  BY <1>2 DEF DialogsNext, LibraryLoads, OpenDialog, OpenNewCategory, ToDelete, Dismiss, Confirm,
     SetSelect, OpenInline, CancelInline, SubmitCategory, SaveGear, SubmitList, OpenExplainer,
     PickFile, SendImport, CloseFlow, SaveAnswered, ListCreated, ListFailed, FileRead,
     ImportAnswered, Draw, requests
<1> QED
  BY <1>1, <1>2 DEF CreatesStep

\* What is queued is an answer's update, and an answer changes its own form or makes
\* room for the import flow.
LEMMA FormsStand == DialogsNext => FormsStep
<1> SUFFICES ASSUME DialogsNext, queued', dialog.kind \in Forms, dialog' # dialog
             PROVE  \/ dialog.id \in gearSaves \ gearSaves'
                    \/ dialog.id = listPost /\ listPost' = 0
                    \/ flow' # NoDialog
  BY DEF FormsStep
<1>1. CASE \E s \in gearSaves : SaveAnswered(s)
  BY <1>1 DEF SaveAnswered, Settles
<1>2. CASE \E e \in catPosts : CategoryCreated(e) \/ CategoryFailed(e)
  BY <1>2 DEF CategoryCreated, CategoryFailed, SessionOpen, Forms, GearForms
<1>3. CASE ListFailed
  BY <1>3 DEF ListFailed, Settles
<1>4. CASE \/ \E k \in {"preview", "error"} : FileRead(k)
           \/ ImportAnswered
  BY <1>4 DEF FileRead, ImportAnswered, NoDialog, DialogClosed
<1> QED
  BY <1>1, <1>2, <1>3, <1>4 DEF DialogsNext, LibraryLoads, OpenDialog, OpenNewCategory, ToDelete,
     Dismiss, Confirm, SetSelect, OpenInline, CancelInline, SubmitCategory, SaveGear, SubmitList,
     OpenExplainer, PickFile, SendImport, CloseFlow, ListCreated, Draw, OnPage

\* One surface at a time holds the gear page, which only its own answer closes, however
\* late the answers come: the two unions of GearLibraryPage.tsx and the import flow.
THEOREM DialogsStay == DialogsSpec => DialogsKept
<1>1. DialogsInit => DialogsInv
  BY DEF DialogsInit, DialogsInv, OneSurface
<1>2. DialogsInv => OneSurface
  BY DEF DialogsInv
<1>3. [DialogsNext]_dialogVars => [CreatesStep]_dialogVars /\ [FormsStep]_dialogVars
  BY CreatesStand, FormsStand
<1> QED
  BY <1>1, <1>2, <1>3, DialogsNextKeeps, PTL
  DEF DialogsSpec, DialogsKept, LateCreatesInert, FormsKept, CreatesStep, FormsStep

-----------------------------------------------------------------------------
(* Imports                                                                 *)

Names == Text \ {NoText}

\* Rows of a library, with ids below n.
LibOk(lib, n) ==
  /\ lib = [cats |-> lib.cats, gear |-> lib.gear]
  /\ IsFiniteSet(DOMAIN lib.cats) /\ DOMAIN lib.cats \subseteq 1 .. n - 1
  /\ \A c \in DOMAIN lib.cats : lib.cats[c] \in Names
  /\ IsFiniteSet(lib.gear)
  /\ lib.gear \subseteq [id : 1 .. n - 1, name : Names, weight : 0 .. GramsCap, cost : Cost,
                         cat : 0 .. n - 1]
  /\ \A g, h \in lib.gear : g.id = h.id => g = h

\* A file that can be read.
FileOk(f) ==
  /\ f = [cols |-> f.cols, rows |-> f.rows, holds |-> f.holds]
  /\ f.cols \subseteq {"cost", "price"}
  /\ IsFiniteSet(DOMAIN f.rows) /\ DOMAIN f.rows \subseteq Nat \ {0}
  /\ \A n \in DOMAIN f.rows : f.rows[n] \in Cells

\* What is read of one: rows with a name, and nothing out of range.
ReadRow == [name : Names, cat : Text, weight : 0 .. GramsCap, cost : Cost,
            flags : {x \in [worn : BOOLEAN, consumable : BOOLEAN] : ~ (x.worn /\ x.consumable)}]

RowsOk(rows) ==
  /\ IsFiniteSet(DOMAIN rows) /\ DOMAIN rows \subseteq Nat \ {0}
  /\ \A i \in DOMAIN rows : rows[i] \in ReadRow

LEMMA CapsAreNumbers ==
  /\ GramsCap \in Nat /\ MaxCost \in Nat /\ Unknown = -1 /\ Cost = {-1} \cup 0 .. MaxCost
BY ImportAssumption DEF Unknown, Cost

LEMMA RowRead ==
  ASSUME NEW row \in Cells, row.name # NoText, NEW cols, cols \subseteq {"cost", "price"}
  PROVE  ParsedRow(row, cols) \in ReadRow
<1>0. /\ row.name \in Names /\ row.cat \in Text /\ row.weight \in Int /\ row.cost \in Int
      /\ row.price \in Int /\ row.worn \in BOOLEAN /\ row.consumable \in BOOLEAN
  BY DEF Cells, Names
<1>1. ToGrams(row.weight, row.unit) \in 0 .. GramsCap
  <2>1. PICK grams \in Int : grams = IF row.unit = "oz" THEN row.weight * 28 ELSE row.weight
    BY <1>0
  <2>2. row.weight >= 0 => grams >= 0
    BY <1>0, <2>1
  <2> QED
    BY <1>0, <2>1, <2>2, CapsAreNumbers DEF ToGrams
<1>2. \A c \in Int : ParseCost(c) \in Cost
  BY CapsAreNumbers DEF ParseCost
<1>3. CostOf(row, cols) \in Cost
  <2>1. CASE cols = {}
    BY <2>1, CapsAreNumbers DEF CostOf
  <2>2. CASE cols # {}
    <3>1. row[CostKind(cols)] \in Int
      BY <1>0 DEF CostKind, Cells
    <3>2. ParseCostFromColumn(row[CostKind(cols)], CostKind(cols)) \in Cost
      BY <1>2, <3>1, CapsAreNumbers DEF ParseCostFromColumn
    <3> QED
      BY <2>2, <3>2 DEF CostOf
  <2> QED
    BY <2>1, <2>2
<1>4. Flags(row) \in {x \in [worn : BOOLEAN, consumable : BOOLEAN] : ~ (x.worn /\ x.consumable)}
  BY <1>0 DEF Flags
<1> QED
  BY <1>0, <1>1, <1>3, <1>4 DEF ParsedRow, ReadRow

LEMMA FileParsed ==
  ASSUME NEW f, FileOk(f)
  PROVE  /\ RowsOk(Parsed(f))
         /\ DOMAIN Parsed(f) = {m \in DOMAIN f.rows : f.rows[m].name # NoText}
         /\ \A i \in DOMAIN Parsed(f) : Parsed(f)[i] = ParsedRow(f.rows[i], f.cols)
<1> DEFINE D == {m \in DOMAIN f.rows : f.rows[m].name # NoText}
<1>1. IsFiniteSet(D) /\ D \subseteq Nat \ {0}
  BY FS_Subset DEF FileOk
<1>2. DOMAIN Parsed(f) = D /\ \A i \in D : Parsed(f)[i] = ParsedRow(f.rows[i], f.cols)
  BY DEF Parsed
<1>3. \A i \in D : ParsedRow(f.rows[i], f.cols) \in ReadRow
  BY RowRead DEF FileOk
<1> HIDE DEF D
<1>4. RowsOk(Parsed(f))
  BY <1>1, <1>2, <1>3 DEF RowsOk
<1> QED
  BY <1>2, <1>4 DEF D

\* A set of numbers that is not empty has a least one.
LEMMA FirstOf ==
  ASSUME NEW S, S \subseteq Nat, S # {}
  PROVE  \E x \in S : \A y \in S : x <= y
<1> DEFINE R == OpToRel(<, Nat)
<1>1. IsWellFoundedOn(R, Nat)
  BY NatLessThanWellFounded
<1>2. \A x, y \in Nat : <<y, x>> \in R <=> y < x
  BY DEF OpToRel
<1> HIDE DEF R
<1>3. PICK x \in S : \A y \in S : ~ (<<y, x>> \in R)
  BY <1>1, WFMin
<1>4. \A y \in S : x \in Nat /\ y \in Nat /\ ~ (y < x)
  BY <1>2, <1>3
<1>5. \A y \in S : x <= y
  BY <1>4
<1> QED
  BY <1>5

\* Every category of the file that the library lacks is brought by one row, the first.
LEMMA NewRefFacts ==
  ASSUME NEW rows, RowsOk(rows), NEW names
  PROVE  /\ NewRefs(rows, names) \subseteq DOMAIN rows
         /\ \A j \in NewRefs(rows, names) :
              /\ rows[j].cat # NoText
              /\ \A c \in DOMAIN names : Lower[names[c]] # Lower[rows[j].cat]
         /\ \A j, k \in NewRefs(rows, names) : Lower[rows[j].cat] = Lower[rows[k].cat] => j = k
         /\ \A i \in DOMAIN rows :
              rows[i].cat # NoText /\ (\A c \in DOMAIN names : Lower[names[c]] # Lower[rows[i].cat])
                => \E j \in NewRefs(rows, names) : Lower[rows[j].cat] = Lower[rows[i].cat]
<1>1. \A j, k \in NewRefs(rows, names) : Lower[rows[j].cat] = Lower[rows[k].cat] => j = k
  BY DEF NewRefs, RowsOk
<1>2. ASSUME NEW i \in DOMAIN rows, rows[i].cat # NoText,
             \A c \in DOMAIN names : Lower[names[c]] # Lower[rows[i].cat]
      PROVE  \E j \in NewRefs(rows, names) : Lower[rows[j].cat] = Lower[rows[i].cat]
  <2> DEFINE S == {j \in DOMAIN rows : Lower[rows[j].cat] = Lower[rows[i].cat]}
  <2>1. S \subseteq Nat /\ i \in S
    BY DEF RowsOk
  <2>2. PICK j \in S : \A k \in S : j <= k
    <3> HIDE DEF S
    <3> QED
      BY <2>1, FirstOf
  <2>3. j \in DOMAIN rows /\ Lower[rows[j].cat] = Lower[rows[i].cat]
    BY <2>2
  <2>4. \A k \in DOMAIN rows : k < j => Lower[rows[k].cat] # Lower[rows[j].cat]
    <3> SUFFICES ASSUME NEW k \in DOMAIN rows, k < j, Lower[rows[k].cat] = Lower[rows[j].cat]
                 PROVE  FALSE
      OBVIOUS
    <3>1. k \in S /\ k \in Nat /\ j \in Nat
      BY <2>1, <2>3
    <3> QED
      BY <2>2, <3>1
  <2>5. rows[j].cat # NoText
    <3>1. rows[i].cat \in Text /\ rows[j].cat \in Text
      BY <2>3 DEF RowsOk, ReadRow
    <3> QED
      BY <1>2, <2>3, <3>1, ImportAssumption
  <2>6. j \in NewRefs(rows, names)
    BY <1>2, <2>3, <2>4, <2>5 DEF NewRefs
  <2> QED
    BY <2>3, <2>6
<1> QED
  BY <1>1, <1>2 DEF NewRefs

\* The category a row is filed under: none, one of the library, or the one a row brings.
Refers(rows, names, i, ref) ==
  \/ rows[i].cat = NoText /\ ref = [kind |-> "none", id |-> NullId]
  \/ /\ ref = [kind |-> "existing", id |-> ref.id] /\ rows[i].cat # NoText
     /\ ref.id \in DOMAIN names /\ Lower[names[ref.id]] = Lower[rows[i].cat]
  \/ /\ \E j \in NewRefs(rows, names) :
          /\ ref = [kind |-> "new", id |-> -j] /\ Lower[rows[j].cat] = Lower[rows[i].cat]
          /\ i \in NewRefs(rows, names) => i = j
     /\ rows[i].cat # NoText

LEMMA RefFacts ==
  ASSUME NEW rows, RowsOk(rows), NEW lib, NEW n \in Nat, LibOk(lib, n), NEW i \in DOMAIN rows
  PROVE  /\ Refers(rows, lib.cats, i, CategoryRef(rows, lib.cats, i))
         /\ i \in NewRefs(rows, lib.cats) =>
              CategoryRef(rows, lib.cats, i) = [kind |-> "new", id |-> -i]
<1> DEFINE ref == CategoryRef(rows, lib.cats, i)
           same == {c \in DOMAIN lib.cats : Lower[lib.cats[c]] = Lower[rows[i].cat]}
<1>1. CASE rows[i].cat = NoText
  <2>1. ref = [kind |-> "none", id |-> NullId] /\ i \notin NewRefs(rows, lib.cats)
    BY <1>1 DEF CategoryRef, NewRefs
  <2> QED
    BY <1>1, <2>1 DEF Refers
<1>2. CASE rows[i].cat # NoText /\ same # {}
  <2>1. ref = [kind |-> "existing", id |-> Max(same)]
    BY <1>2 DEF CategoryRef
  <2>2. same \subseteq Nat /\ IsFiniteSet(same)
    BY FS_Subset DEF LibOk
  <2>3. Max(same) \in same
    BY <1>2, <2>2, LastPlace
  <2>4. i \notin NewRefs(rows, lib.cats)
    BY <1>2 DEF NewRefs
  <2> HIDE DEF ref
  <2>5. ref = [kind |-> "existing", id |-> ref.id] /\ ref.id \in same
    BY <2>1, <2>3
  <2>6. Refers(rows, lib.cats, i, ref)
    BY <1>2, <2>5 DEF Refers
  <2> QED
    BY <2>4, <2>6 DEF ref
<1>3. CASE rows[i].cat # NoText /\ same = {}
  <2> DEFINE Is(j) == j \in NewRefs(rows, lib.cats) /\ Lower[rows[j].cat] = Lower[rows[i].cat]
             first == CHOOSE j \in NewRefs(rows, lib.cats) : Lower[rows[j].cat] = Lower[rows[i].cat]
  <2>1. ref = [kind |-> "new", id |-> - first]
    BY <1>3 DEF CategoryRef
  <2>2. \A c \in DOMAIN lib.cats : Lower[lib.cats[c]] # Lower[rows[i].cat]
    BY <1>3
  <2>3. \E j \in NewRefs(rows, lib.cats) : Lower[rows[j].cat] = Lower[rows[i].cat]
    BY <1>3, <2>2, NewRefFacts
  <2>4. first \in NewRefs(rows, lib.cats) /\ Lower[rows[first].cat] = Lower[rows[i].cat]
    BY <2>3
  <2> HIDE DEF first, ref, same
  <2>5. i \in NewRefs(rows, lib.cats) => i = first
    BY <2>4, NewRefFacts
  <2>6. Refers(rows, lib.cats, i, ref)
    BY <1>3, <2>1, <2>4, <2>5 DEF Refers
  <2> QED
    BY <2>1, <2>5, <2>6 DEF ref
<1> QED
  BY <1>1, <1>2, <1>3

-----------------------------------------------------------------------------
(* The plan                                                                *)

\* The wrote that a row brings, and the category.
GearOf(rows, lib, i) ==
  [tempId |-> -(100 + i), name |-> rows[i].name, weight |-> rows[i].weight,
   cost |-> rows[i].cost, category |-> CategoryRef(rows, lib.cats, i)]

BroughtBy(rows, j) == [tempId |-> -j, name |-> rows[j].cat]

LEMMA PlannedFacts ==
  ASSUME NEW rows, NEW lib
  PROVE  /\ \A g : g \in PlannedGear(rows, lib) <=> \E i \in NewRows(rows, lib) : g = GearOf(rows, lib, i)
         /\ \A c : c \in PlanNewCategories(rows, lib.cats)
                     <=> \E j \in NewRefs(rows, lib.cats) : c = BroughtBy(rows, j)
BY DEF PlannedGear, GearOf, PlanNewCategories, BroughtBy

\* A row that brings a category brings wrote: no wrote of the library is in it.
LEMMA BringerIsNew ==
  ASSUME NEW rows, RowsOk(rows), NEW lib, NEW n \in Nat, LibOk(lib, n)
  PROVE  NewRefs(rows, lib.cats) \subseteq NewRows(rows, lib)
<1> SUFFICES ASSUME NEW j \in NewRefs(rows, lib.cats), NEW g \in lib.gear,
                    GearKey(g.cat, g.name, g.weight)
                      = GearKey(CategoryRefId(CategoryRef(rows, lib.cats, j)), rows[j].name, rows[j].weight)
             PROVE  FALSE
  BY NewRefFacts DEF NewRows, Matches
<1>1. j \in DOMAIN rows /\ j \in Nat /\ j > 0
  BY NewRefFacts DEF RowsOk
<1>2. CategoryRefId(CategoryRef(rows, lib.cats, j)) = -j
  <2>1. CategoryRef(rows, lib.cats, j) = [kind |-> "new", id |-> -j]
    BY <1>1, RefFacts
  <2> QED
    BY <2>1 DEF CategoryRefId
<1>3. g.cat \in Nat
  BY DEF LibOk
<1>4. g.cat = -j
  BY <1>2 DEF GearKey
<1> QED
  BY <1>1, <1>3, <1>4

LEMMA CategoriesRelated ==
  ASSUME NEW rows, RowsOk(rows), NEW lib, NEW n \in Nat, LibOk(lib, n)
  PROVE  Related(PlanNewCategories(rows, lib.cats), {g.category : g \in PlannedGear(rows, lib)})
<1> DEFINE cs == PlanNewCategories(rows, lib.cats)
           refs == {g.category : g \in PlannedGear(rows, lib)}
<1>1. NewRefs(rows, lib.cats) \subseteq Nat
  BY NewRefFacts DEF RowsOk
<1>2. \A d, e \in cs : d.tempId = e.tempId => d = e
  <2> SUFFICES ASSUME NEW d \in cs, NEW e \in cs, d.tempId = e.tempId PROVE d = e
    OBVIOUS
  <2>1. PICK j \in NewRefs(rows, lib.cats) : d = BroughtBy(rows, j)
    BY DEF PlanNewCategories, BroughtBy
  <2>2. PICK k \in NewRefs(rows, lib.cats) : e = BroughtBy(rows, k)
    BY DEF PlanNewCategories, BroughtBy
  <2>3. -j = -k /\ j \in Nat /\ k \in Nat
    BY <1>1, <2>1, <2>2 DEF BroughtBy
  <2>4. j = k
    BY <2>3
  <2> QED
    BY <2>1, <2>2, <2>4
<1>3. ASSUME NEW j \in NewRefs(rows, lib.cats)
      PROVE  \E r \in refs : r.kind = "new" /\ r.id = -j
  <2>1. GearOf(rows, lib, j) \in PlannedGear(rows, lib)
    BY BringerIsNew, PlannedFacts
  <2>2. GearOf(rows, lib, j).category = [kind |-> "new", id |-> -j]
    BY RefFacts, NewRefFacts DEF GearOf
  <2> QED
    BY <2>1, <2>2
<1>4. ASSUME NEW r \in refs, r.kind = "new"
      PROVE  \E j \in NewRefs(rows, lib.cats) : r.id = -j
  <2>1. PICK g \in PlannedGear(rows, lib) : r = g.category
    OBVIOUS
  <2>2. PICK i \in NewRows(rows, lib) : g = GearOf(rows, lib, i)
    BY PlannedFacts
  <2>3. i \in DOMAIN rows /\ r = CategoryRef(rows, lib.cats, i)
    BY <2>1, <2>2 DEF GearOf, NewRows
  <2>4. Refers(rows, lib.cats, i, r)
    BY <2>3, RefFacts
  <2> QED
    BY <1>4, <2>4 DEF Refers
<1>5. {d.tempId : d \in cs} = {-j : j \in NewRefs(rows, lib.cats)}
  <2>1. \A d \in cs : \E j \in NewRefs(rows, lib.cats) : d.tempId = -j
    BY DEF PlanNewCategories
  <2>2. ASSUME NEW j \in NewRefs(rows, lib.cats) PROVE \E d \in cs : d.tempId = -j
    <3>1. BroughtBy(rows, j) \in cs /\ BroughtBy(rows, j).tempId = -j
      BY DEF PlanNewCategories, BroughtBy
    <3> QED
      BY <3>1
  <2> HIDE DEF cs
  <2> QED
    BY <2>1, <2>2
<1> HIDE DEF cs, refs
<1>6. {r.id : r \in {s \in refs : s.kind = "new"}} = {-j : j \in NewRefs(rows, lib.cats)}
  BY <1>3, <1>4
<1>7. Related(cs, refs)
  BY <1>2, <1>5, <1>6 DEF Related
<1> QED
  BY <1>7 DEF cs, refs

\* How many rows come before one is a number of its own.
LEMMA RowPlaces ==
  ASSUME NEW S, IsFiniteSet(S), S \subseteq Nat, NEW i \in S, NEW k \in S,
         Cardinality({j \in S : j < i}) = Cardinality({j \in S : j < k})
  PROVE  i = k
<1> DEFINE Below(x) == {j \in S : j < x}
<1>1. ASSUME NEW x \in S, NEW y \in S, x < y PROVE Cardinality(Below(x)) < Cardinality(Below(y))
  <2>1. IsFiniteSet(Below(y))
    BY FS_Subset
  <2>2. x \in Nat /\ y \in Nat /\ S \subseteq Nat
    OBVIOUS
  <2>3. x \in Below(y) /\ x \notin Below(x)
    BY <1>1, <2>2
  <2>4. ASSUME NEW z \in Below(x) PROVE z \in Below(y)
    <3>1. z \in S /\ z \in Nat /\ z < x
      BY <2>2
    <3>2. z < y
      BY <1>1, <2>2, <3>1
    <3> QED
      BY <3>1, <3>2
  <2> HIDE DEF Below
  <2>5. Below(x) \subseteq Below(y) /\ Below(x) # Below(y)
    BY <2>3, <2>4
  <2>6. /\ Cardinality(Below(x)) \in Nat /\ Cardinality(Below(y)) \in Nat
        /\ Cardinality(Below(x)) <= Cardinality(Below(y))
        /\ Cardinality(Below(x)) # Cardinality(Below(y))
    BY <2>1, <2>5, FS_Subset, FS_CardinalityType
  <2> QED
    BY <2>6
<1>2. Cardinality(Below(i)) \in Nat /\ Cardinality(Below(k)) \in Nat
  BY FS_Subset, FS_CardinalityType
<1> HIDE DEF Below
<1>3. ~ (i < k) /\ ~ (k < i)
  BY <1>1, <1>2 DEF Below
<1> QED
  BY <1>3

\* The item of a row: the wrote that matches, or the wrote that the row brings.
LEMMA ItemsRelated ==
  ASSUME NEW rows, RowsOk(rows), NEW lib, NEW n \in Nat, LibOk(lib, n)
  PROVE  ItemsAccepted(PlanListImport(rows, lib))
<1> DEFINE items == PlanListImport(rows, lib).items
           gs == PlannedGear(rows, lib)
           refs == {items[i].gear : i \in DOMAIN items}
<1>1. DOMAIN items = DOMAIN rows /\ DOMAIN rows \subseteq Nat
  BY DEF PlanListImport, RowsOk
<1>2. \A i \in DOMAIN rows :
        /\ items[i].gear = IF i \in NewRows(rows, lib) THEN [kind |-> "new", id |-> -(100 + i)]
                           ELSE [kind |-> "existing", id |-> (CHOOSE g \in Matches(rows, lib, i) : TRUE).id]
        /\ items[i].flags = rows[i].flags
        /\ items[i].sortOrder = Cardinality({j \in DOMAIN rows : j < i})
  BY DEF PlanListImport
<1>3. PlanListImport(rows, lib).gear = gs
  BY DEF PlanListImport
<1> HIDE DEF items, gs
<1>4. \A i \in DOMAIN items : ~ (items[i].flags.worn /\ items[i].flags.consumable)
  BY <1>1, <1>2 DEF RowsOk, ReadRow
<1>5. \A i, j \in DOMAIN items : items[i].sortOrder = items[j].sortOrder => i = j
  <2> SUFFICES ASSUME NEW i \in DOMAIN rows, NEW j \in DOMAIN rows,
                      items[i].sortOrder = items[j].sortOrder
               PROVE  i = j
    BY <1>1
  <2>1. Cardinality({k \in DOMAIN rows : k < i}) = Cardinality({k \in DOMAIN rows : k < j})
    BY <1>2
  <2>2. IsFiniteSet(DOMAIN rows)
    BY DEF RowsOk
  <2> QED
    BY <1>1, <2>1, <2>2, RowPlaces
<1>6. Related(gs, refs)
  <2>1. NewRows(rows, lib) \subseteq DOMAIN rows
    BY DEF NewRows
  <2>2. \A d \in gs : \E i \in NewRows(rows, lib) : d = GearOf(rows, lib, i) /\ d.tempId = -(100 + i)
    BY PlannedFacts DEF gs, GearOf
  <2>3. ASSUME NEW i \in NewRows(rows, lib) PROVE \E d \in gs : d.tempId = -(100 + i)
    <3>1. GearOf(rows, lib, i) \in gs /\ GearOf(rows, lib, i).tempId = -(100 + i)
      BY PlannedFacts DEF gs, GearOf
    <3> QED
      BY <3>1
  <2>4. \A d, e \in gs : d.tempId = e.tempId => d = e
    <3> SUFFICES ASSUME NEW d \in gs, NEW e \in gs, d.tempId = e.tempId PROVE d = e
      OBVIOUS
    <3>1. PICK i \in NewRows(rows, lib) : d = GearOf(rows, lib, i) /\ d.tempId = -(100 + i)
      BY <2>2
    <3>2. PICK k \in NewRows(rows, lib) : e = GearOf(rows, lib, k) /\ e.tempId = -(100 + k)
      BY <2>2
    <3>3. i \in Nat /\ k \in Nat
      BY <1>1, <2>1
    <3>4. i = k
      BY <3>1, <3>2, <3>3
    <3> QED
      BY <3>1, <3>2, <3>4
  <2>5. ASSUME NEW r \in refs, r.kind = "new" PROVE \E d \in gs : d.tempId = r.id
    <3>1. PICK i \in DOMAIN rows : r = items[i].gear
      BY <1>1
    <3>2. i \in NewRows(rows, lib)
      <4>1. SUFFICES ASSUME i \notin NewRows(rows, lib) PROVE FALSE
        OBVIOUS
      <4>2. PICK x : r = [kind |-> "existing", id |-> x]
        BY <1>2, <3>1, <4>1
      <4> QED
        BY <2>5, <4>2
    <3>3. r = [kind |-> "new", id |-> -(100 + i)]
      BY <1>2, <3>1, <3>2
    <3>4. r.id = -(100 + i)
      BY <3>3
    <3> QED
      BY <2>3, <3>2, <3>4
  <2>6. ASSUME NEW d \in gs PROVE \E r \in refs : r.kind = "new" /\ r.id = d.tempId
    <3>1. PICK i \in NewRows(rows, lib) : d.tempId = -(100 + i)
      BY <2>2
    <3>2. items[i].gear \in refs /\ items[i].gear = [kind |-> "new", id |-> -(100 + i)]
      BY <1>1, <1>2, <2>1
    <3> QED
      BY <3>1, <3>2
  <2> HIDE DEF refs
  <2>7. {d.tempId : d \in gs} = {r.id : r \in {s \in refs : s.kind = "new"}}
    BY <2>5, <2>6
  <2> QED
    BY <2>4, <2>7 DEF Related
<1> QED
  BY <1>3, <1>4, <1>5, <1>6 DEF ItemsAccepted, items

\* What is planned is well formed, unless a category has too long a name.
LEMMA PlanAccepted ==
  ASSUME TooLong = {}, NEW f, FileOk(f), NEW lib, NEW n \in Nat, LibOk(lib, n), NEW of \in {"gear", "list"}
  PROVE  Accepted(of, PlanFor(of, f, lib))
<1> DEFINE rows == Parsed(f)
           plan == PlanFor(of, f, lib)
<1>1. RowsOk(rows)
  BY FileParsed
<1> HIDE DEF rows
<1>2. plan.cats = PlanNewCategories(rows, lib.cats) /\ plan.gear = PlannedGear(rows, lib)
  BY DEF PlanFor, PlanGearImport, PlanListImport, rows
<1>3. of = "list" => plan = PlanListImport(rows, lib)
  BY DEF PlanFor, rows
<1> HIDE DEF plan
<1>4. \A g \in plan.gear : g.weight \in 0 .. GramsCap /\ g.cost \in {Unknown} \cup 0 .. MaxCost
  <2> SUFFICES ASSUME NEW g \in plan.gear
               PROVE  g.weight \in 0 .. GramsCap /\ g.cost \in {Unknown} \cup 0 .. MaxCost
    OBVIOUS
  <2>1. PICK i \in NewRows(rows, lib) : g = GearOf(rows, lib, i)
    BY <1>2, PlannedFacts
  <2>2. rows[i] \in ReadRow
    BY <1>1 DEF NewRows, RowsOk
  <2>3. g.weight = rows[i].weight /\ g.cost = rows[i].cost
    BY <2>1 DEF GearOf
  <2> QED
    BY <2>2, <2>3 DEF ReadRow, Cost
<1>5. Related(plan.cats, {g.category : g \in plan.gear})
  BY <1>1, <1>2, CategoriesRelated
<1>6. of = "list" => ItemsAccepted(plan)
  BY <1>1, <1>3, ItemsRelated
<1>7. Accepted(of, plan)
  BY <1>4, <1>5, <1>6 DEF Accepted
<1> QED
  BY <1>7 DEF plan

-----------------------------------------------------------------------------
(* The flow                                                                *)

IdsOf(lib) == {g.id : g \in lib.gear}

\* An id names one category for good.
SameNames(lib) == \A c \in DOMAIN lib.cats \cap DOMAIN shelf.cats : lib.cats[c] = shelf.cats[c]

\* The wrote that the page was told it had imported is among these rows, if it still is there.
HasConfirmed(lib) == importsConfirmed \cap IdsOf(shelf) \subseteq IdsOf(lib)

\* What an export says of each of its rows, and of nothing else.
ExportOk(f) ==
  /\ \A n \in DOMAIN f.rows :
       /\ "cost" \in f.cols /\ f.rows[n].unit = "gram" /\ f.rows[n].weight \in 0 .. GramsCap
       /\ f.rows[n].cost \in Cost /\ f.rows[n].name # NoText
       /\ [name |-> Fold[f.rows[n].name], weight |-> f.rows[n].weight, cost |-> f.rows[n].cost,
           cat |-> Lower[f.rows[n].cat]] \in f.holds
  /\ \A x \in f.holds : \E n \in DOMAIN f.rows :
       x = [name |-> Fold[f.rows[n].name], weight |-> f.rows[n].weight, cost |-> f.rows[n].cost,
            cat |-> Lower[f.rows[n].cat]]

LibsInv ==
  /\ nextId \in Nat \ {0}
  /\ LibOk(shelf, nextId) /\ LibOk(pageSeen, nextId) /\ LibOk(request.from, nextId)
  /\ SameNames(pageSeen) /\ SameNames(request.from)
  /\ importsConfirmed \subseteq 1 .. nextId - 1 /\ request.made \subseteq 1 .. nextId - 1

FilesInv ==
  /\ FileOk(parsing) /\ FileOk(surface.file) /\ FileOk(request.file) /\ FileOk(saved)
  /\ ExportOk(saved)

FlowInv ==
  /\ importing \in {"gear", "list"}
  /\ request = [stage |-> request.stage, file |-> request.file, made |-> request.made,
                from |-> request.from, plan |-> request.plan]
  /\ request.stage = "sent" => request.plan = PlanFor(importing, request.file, request.from)
  /\ "gear" \in warm => HasConfirmed(pageSeen)
  /\ importing = "list" /\ request.stage = "sent" => HasConfirmed(request.from)
  /\ SureMeansNothing /\ OneImportSurface

CsvInv == LibsInv /\ FilesInv /\ FlowInv

\* The steps that leave the rows and the request alone, and open at most a file that can
\* be read.
RowsStand == UNCHANGED <<importing, shelf, nextId, pageSeen, request, importsConfirmed>>

LEMMA RowsStandKeeps ==
  ASSUME CsvInv, RowsStand, warm' \subseteq warm, FilesInv', SureMeansNothing', OneImportSurface'
  PROVE  CsvInv'
<1>1. LibsInv'
  BY DEF CsvInv, LibsInv, RowsStand, SameNames
<1>2. FlowInv'
  BY DEF CsvInv, FlowInv, RowsStand, HasConfirmed
<1> QED
  BY <1>1, <1>2 DEF CsvInv

LEMMA NoFileOk == FileOk(NoFile) /\ ExportOk(NoFile)
<1>1. DOMAIN NoFile.rows = {} /\ NoFile.cols = {} /\ NoFile.holds = {}
  BY DEF NoFile
<1>2. NoFile = [cols |-> NoFile.cols, rows |-> NoFile.rows, holds |-> NoFile.holds]
  BY DEF NoFile
<1> QED
  BY <1>1, <1>2, FS_EmptySet DEF FileOk, ExportOk

LEMMA SurfaceFiles ==
  /\ SurfaceClosed.file = NoFile /\ SurfaceClosed.at = "none" /\ SurfaceClosed.sure
  /\ Explainer.file = NoFile /\ Explainer.at = "explainer"
  /\ \A f : Preview(f).file = f /\ Preview(f).at = "preview"
  /\ \A a, b : /\ ImportError(a, b).file = NoFile /\ ImportError(a, b).at = "error"
               /\ ImportError(a, b).sure = a /\ ImportError(a, b).landed = b
BY DEF SurfaceClosed, Explainer, Preview, ImportError

\* An export holds what its rows say.
LEMMA ExportRead ==
  ASSUME NEW lib, NEW n \in Nat, LibOk(lib, n), NEW older \in BOOLEAN
  PROVE  FileOk(GearItemsToCsv(lib, older)) /\ ExportOk(GearItemsToCsv(lib, older))
<1> DEFINE f == GearItemsToCsv(lib, older)
           RowFor(g) == [name |-> EscapeCell(g.name), cat |-> EscapeCell(CatName(lib.cats, g.cat)),
                      weight |-> g.weight, unit |-> "gram", cost |-> g.cost, price |-> 0,
                      worn |-> FALSE, consumable |-> FALSE]
           Holds(g) == [name |-> Fold[EscapeCell(g.name)], weight |-> g.weight, cost |-> g.cost,
                        cat |-> Lower[EscapeCell(CatName(lib.cats, g.cat))]]
<1>1. /\ f = [cols |-> f.cols, rows |-> f.rows, holds |-> f.holds]
      /\ f.cols \in {{"cost"}, {"cost", "price"}}
      /\ DOMAIN f.rows = IdsOf(lib)
      /\ \A m \in IdsOf(lib) : f.rows[m] = RowFor(CHOOSE g \in lib.gear : g.id = m)
      /\ f.holds = {Holds(g) : g \in lib.gear}
  BY DEF GearItemsToCsv, IdsOf
<1> HIDE DEF f
<1>2. \A g \in lib.gear : g.id \in IdsOf(lib) /\ f.rows[g.id] = RowFor(g)
  <2> SUFFICES ASSUME NEW g \in lib.gear PROVE g.id \in IdsOf(lib) /\ f.rows[g.id] = RowFor(g)
    OBVIOUS
  <2>1. g.id \in IdsOf(lib)
    BY DEF IdsOf
  <2>2. (CHOOSE h \in lib.gear : h.id = g.id) = g
    BY DEF LibOk
  <2> QED
    BY <1>1, <2>1, <2>2
<1>3. \A m \in IdsOf(lib) : \E g \in lib.gear : m = g.id
  BY DEF IdsOf
<1>4. IsFiniteSet(IdsOf(lib)) /\ IdsOf(lib) \subseteq Nat \ {0}
  <2>1. IsFiniteSet(IdsOf(lib))
    <3>1. \E h : h \in [lib.gear -> IdsOf(lib)] /\ h = [g \in lib.gear |-> g.id]
      BY DEF IdsOf
    <3>2. PICK h : h \in [lib.gear -> IdsOf(lib)] /\ h = [g \in lib.gear |-> g.id]
      BY <3>1
    <3>3. h \in Surjection(lib.gear, IdsOf(lib))
      BY <3>2 DEF Surjection, IdsOf
    <3> QED
      BY <3>3, FS_Surjection DEF LibOk
  <2> QED
    BY <2>1 DEF IdsOf, LibOk
<1>5. ASSUME NEW g \in lib.gear
      PROVE  /\ RowFor(g) \in Cells /\ RowFor(g).unit = "gram" /\ RowFor(g).weight \in 0 .. GramsCap
             /\ RowFor(g).cost \in Cost /\ RowFor(g).name # NoText
             /\ Holds(g) = [name |-> Fold[RowFor(g).name], weight |-> RowFor(g).weight,
                            cost |-> RowFor(g).cost, cat |-> Lower[RowFor(g).cat]]
  <2>1. g.name \in Names /\ g.weight \in 0 .. GramsCap /\ g.cost \in Cost
    BY DEF LibOk
  <2>2. CatName(lib.cats, g.cat) \in Text
    BY ImportAssumption DEF CatName, LibOk, Names
  <2>3. EscapeCell(g.name) \in Text \ {NoText} /\ EscapeCell(CatName(lib.cats, g.cat)) \in Text
    BY <2>1, <2>2, ImportAssumption DEF EscapeCell, Names
  <2>4. g.weight \in Int /\ g.cost \in Int
    BY <2>1, CapsAreNumbers
  <2>5. RowFor(g) \in Cells
    BY <2>3, <2>4 DEF Cells
  <2> QED
    BY <2>1, <2>3, <2>5
<1> HIDE DEF RowFor, Holds
<1>6. FileOk(f)
  BY <1>1, <1>2, <1>3, <1>4, <1>5 DEF FileOk
<1>7. ExportOk(f)
  <2>1. ASSUME NEW m \in DOMAIN f.rows
        PROVE  /\ "cost" \in f.cols /\ f.rows[m].unit = "gram" /\ f.rows[m].weight \in 0 .. GramsCap
               /\ f.rows[m].cost \in Cost /\ f.rows[m].name # NoText
               /\ [name |-> Fold[f.rows[m].name], weight |-> f.rows[m].weight,
                    cost |-> f.rows[m].cost, cat |-> Lower[f.rows[m].cat]] \in f.holds
    <3>1. PICK g \in lib.gear : m = g.id /\ f.rows[m] = RowFor(g)
      BY <1>1, <1>2, <1>3
    <3>2. Holds(g) \in f.holds
      BY <1>1
    <3> QED
      BY <1>1, <1>5, <3>1, <3>2
  <2>2. ASSUME NEW x \in f.holds
        PROVE  \E m \in DOMAIN f.rows :
                 x = [name |-> Fold[f.rows[m].name], weight |-> f.rows[m].weight,
                      cost |-> f.rows[m].cost, cat |-> Lower[f.rows[m].cat]]
    <3>1. PICK g \in lib.gear : x = Holds(g)
      BY <1>1
    <3>2. g.id \in DOMAIN f.rows /\ f.rows[g.id] = RowFor(g)
      BY <1>1, <1>2
    <3>3. x = [name |-> Fold[f.rows[g.id].name], weight |-> f.rows[g.id].weight,
               cost |-> f.rows[g.id].cost, cat |-> Lower[f.rows[g.id].cat]]
      BY <1>5, <3>1, <3>2
    <3> QED
      BY <3>2, <3>3
  <2> QED
    BY <2>1, <2>2 DEF ExportOk
<1> QED
  BY <1>6, <1>7 DEF f

\* Clicks, files and what the page opens.
LEMMA ClicksKeep ==
  ASSUME CsvInv, CsvOpenExplainer \/ CsvClose \/ CsvContinue \/ CsvRead \/ CsvPageOpens \/ CsvDownload
  PROVE  CsvInv'
<1>1. CASE CsvOpenExplainer
  BY <1>1, RowsStandKeeps, SurfaceFiles, NoFileOk
  DEF CsvOpenExplainer, LeavesPageFirst, RowsStand, CsvInv, FilesInv, FlowInv, SureMeansNothing,
      OneImportSurface
<1>2. CASE CsvClose
  BY <1>2, RowsStandKeeps, SurfaceFiles, NoFileOk
  DEF CsvClose, RowsStand, CsvInv, FilesInv, FlowInv, SureMeansNothing, OneImportSurface
<1>3. CASE CsvContinue
  <2>1. PICK f \in Files \cup {saved} :
          /\ surface' = SurfaceClosed /\ parsing' = f
          /\ UNCHANGED <<importing, shelf, nextId, pageSeen, warm, page, request, saved,
                         importsConfirmed, tries, others>>
    BY <1>3 DEF CsvContinue
  <2>2. FileOk(f)
    <3>1. f \in Files => FileOk(f)
      BY ImportAssumption DEF FileOk
    <3> QED
      BY <3>1 DEF CsvInv, FilesInv
  <2> QED
    BY <2>1, <2>2, RowsStandKeeps, SurfaceFiles, NoFileOk
    DEF RowsStand, CsvInv, FilesInv, SureMeansNothing, OneImportSurface
<1>4. CASE CsvRead
  <2>1. /\ page' = FALSE /\ parsing' = NoFile
        /\ surface' \in {Preview(parsing), ImportError(TRUE, FALSE)}
        /\ UNCHANGED <<importing, shelf, nextId, pageSeen, warm, request, saved, importsConfirmed,
                       tries, others>>
    BY <1>4 DEF CsvRead, LeavesPageFirst
  <2>2. FileOk(surface'.file) /\ SureMeansNothing'
    <3>1. CASE surface' = Preview(parsing)
      BY <3>1, SurfaceFiles DEF CsvInv, FilesInv, SureMeansNothing
    <3>2. CASE surface' = ImportError(TRUE, FALSE)
      <4>1. surface'.file = NoFile /\ surface'.landed = FALSE
        BY <3>2 DEF ImportError, SurfaceClosed
      <4> QED
        BY <4>1, NoFileOk DEF SureMeansNothing
    <3> QED
      BY <2>1, <3>1, <3>2
  <2> QED
    BY <2>1, <2>2, RowsStandKeeps, NoFileOk DEF RowsStand, CsvInv, FilesInv, OneImportSurface
<1>5. CASE CsvPageOpens
  BY <1>5, RowsStandKeeps DEF CsvPageOpens, RowsStand, CsvInv, FilesInv, FlowInv,
                              SureMeansNothing, OneImportSurface
<1>6. CASE CsvDownload
  <2>1. PICK older \in BOOLEAN :
          /\ saved' = GearItemsToCsv(pageSeen, older)
          /\ UNCHANGED <<importing, shelf, nextId, pageSeen, warm, surface, page, parsing, request,
                         importsConfirmed, tries, others>>
    BY <1>6 DEF CsvDownload
  <2>2. FileOk(saved') /\ ExportOk(saved')
    BY <2>1, ExportRead DEF CsvInv, LibsInv
  <2> QED
    BY <2>1, <2>2, RowsStandKeeps DEF RowsStand, CsvInv, FilesInv, FlowInv,
                                      SureMeansNothing, OneImportSurface
<1> QED
  BY <1>1, <1>2, <1>3, <1>4, <1>5, <1>6

\* Rows below one bound are below a greater one.
LEMMA LibGrows ==
  ASSUME NEW lib, NEW n \in Nat, NEW m \in Nat, n <= m, LibOk(lib, n)
  PROVE  LibOk(lib, m)
<1>1. 1 .. n - 1 \subseteq 1 .. m - 1 /\ 0 .. n - 1 \subseteq 0 .. m - 1
  OBVIOUS
<1>2. \A g \in lib.gear : g \in [id : 1 .. m - 1, name : Names, weight : 0 .. GramsCap, cost : Cost,
                                 cat : 0 .. m - 1]
  BY <1>1 DEF LibOk
<1> QED
  BY <1>1, <1>2 DEF LibOk

LEMMA NoLibOk ==
  /\ Idle = [stage |-> "idle", file |-> NoFile, made |-> {}, from |-> Idle.from, plan |-> Idle.plan]
  /\ \A n \in Nat : LibOk(Idle.from, n)
  /\ DOMAIN Idle.from.cats = {}
<1>1. Idle.from = [cats |-> NoNames, gear |-> {}] /\ DOMAIN NoNames = {}
  BY DEF Idle, NoNames
<1>2. Idle = [stage |-> "idle", file |-> NoFile, made |-> {}, from |-> Idle.from, plan |-> Idle.plan]
  BY DEF Idle
<1> QED
  BY <1>1, <1>2, FS_EmptySet DEF LibOk

\* The request is over, or not sent yet.
LEMMA NoRequestKeeps ==
  ASSUME CsvInv, UNCHANGED <<importing, shelf, nextId, pageSeen, parsing, saved>>,
         NEW stage \in {"idle", "resolving"}, NEW f, FileOk(f),
         request' = [stage |-> stage, file |-> f, made |-> {}, from |-> Idle.from, plan |-> Idle.plan],
         importsConfirmed' \subseteq 1 .. nextId - 1, "gear" \in warm' => HasConfirmed(pageSeen)',
         FileOk(surface'.file), SureMeansNothing', OneImportSurface'
  PROVE  CsvInv'
<1>1. LibsInv'
  BY NoLibOk DEF CsvInv, LibsInv, SameNames
<1>2. FilesInv'
  BY DEF CsvInv, FilesInv
<1>3. FlowInv'
  BY DEF CsvInv, FlowInv
<1> QED
  BY <1>1, <1>2, <1>3 DEF CsvInv

\* A failure is reported as what it was.
LEMMA FailsKeeps ==
  ASSUME CsvInv, NEW outcome, NEW landed, Fails(outcome, landed),
         landed => ~ SureOf(outcome),
         UNCHANGED <<importing, shelf, nextId, pageSeen, parsing, saved, importsConfirmed>>,
         warm' \subseteq warm
  PROVE  CsvInv'
<1>1. /\ page' = FALSE /\ surface' = ImportError(SureOf(outcome), landed)
      /\ request' = [stage |-> "idle", file |-> NoFile, made |-> {}, from |-> Idle.from, plan |-> Idle.plan]
  BY NoLibOk DEF Fails, LeavesPageFirst
<1>2. FileOk(surface'.file) /\ SureMeansNothing'
  <2>1. surface'.file = NoFile /\ (surface'.sure <=> SureOf(outcome)) /\ (surface'.landed <=> landed)
    BY <1>1, SurfaceFiles
  <2> QED
    BY <2>1, NoFileOk DEF SureMeansNothing
<1>3. OneImportSurface'
  BY <1>1 DEF OneImportSurface
<1>4. "gear" \in warm' => HasConfirmed(pageSeen)'
  BY DEF CsvInv, FlowInv, HasConfirmed
<1> QED
  BY <1>1, <1>2, <1>3, <1>4, NoRequestKeeps, NoFileOk DEF CsvInv, LibsInv

LEMMA PlannedKeeps ==
  ASSUME CsvInv, NEW file, FileOk(file), Planned(file),
         UNCHANGED <<importing, shelf, nextId, pageSeen, parsing, saved, importsConfirmed>>,
         importing = "gear" \/ "gear" \in warm
  PROVE  CsvInv'
<1>1. PICK plan : plan = PlanFor(importing, file, pageSeen)
  OBVIOUS
<1>2. \/ surface' = SurfaceClosed /\ request' = Idle /\ warm' = {} /\ UNCHANGED page
      \/ Fails("cap", FALSE) /\ UNCHANGED warm
      \/ /\ request' = [Idle EXCEPT !.stage = "sent", !.file = file, !.from = pageSeen, !.plan = plan]
         /\ UNCHANGED <<surface, page, warm>>
  BY <1>1 DEF Planned
<1>3. CASE surface' = SurfaceClosed /\ request' = Idle /\ warm' = {} /\ UNCHANGED page
  <2>1. FileOk(surface'.file) /\ SureMeansNothing' /\ OneImportSurface'
    BY <1>3, SurfaceFiles, NoFileOk DEF SureMeansNothing, OneImportSurface
  <2> QED
    BY <1>3, <2>1, NoRequestKeeps, NoFileOk, NoLibOk DEF CsvInv, LibsInv
<1>4. CASE Fails("cap", FALSE) /\ UNCHANGED warm
  <2> DEFINE no == FALSE
  <2>1. PICK landed : landed = FALSE /\ Fails("cap", landed)
    BY <1>4
  <2> QED
    BY <1>4, <2>1, FailsKeeps
<1>5. CASE /\ request' = [Idle EXCEPT !.stage = "sent", !.file = file, !.from = pageSeen, !.plan = plan]
           /\ UNCHANGED <<surface, page, warm>>
  <2>1. request' = [stage |-> "sent", file |-> file, made |-> {}, from |-> pageSeen, plan |-> plan]
    BY <1>5 DEF Idle
  <2>2. LibsInv'
    BY <2>1 DEF CsvInv, LibsInv, SameNames
  <2>3. FilesInv'
    BY <1>5, <2>1 DEF CsvInv, FilesInv
  <2>4. HasConfirmed(pageSeen)' <=> HasConfirmed(pageSeen)
    BY DEF HasConfirmed
  <2>5. importing = "list" => HasConfirmed(pageSeen)
    BY DEF CsvInv, FlowInv
  <2>6. SureMeansNothing' /\ OneImportSurface'
    BY <1>5 DEF CsvInv, FlowInv, SureMeansNothing, OneImportSurface
  <2>7. HasConfirmed(request.from)' <=> HasConfirmed(pageSeen)
    BY <2>1 DEF HasConfirmed
  <2>8. FlowInv'
    BY <1>1, <1>5, <2>1, <2>4, <2>5, <2>6, <2>7 DEF CsvInv, FlowInv
  <2> QED
    BY <2>2, <2>3, <2>8 DEF CsvInv
<1> QED
  BY <1>2, <1>3, <1>4, <1>5

\* The request, from the button to the answer.
LEMMA RequestsKeep ==
  ASSUME CsvInv, CsvConfirm \/ CsvResolved \/ CsvDone \/ CsvRefused \/ CsvLost
  PROVE  CsvInv'
<1>1. CASE CsvConfirm
  <2>1. CASE (importing = "gear" \/ warm = {"gear", "cats"}) /\ Planned(surface.file)
    <3>1. FileOk(surface.file) /\ (importing = "gear" \/ "gear" \in warm)
      BY <2>1 DEF CsvInv, FilesInv
    <3> QED
      BY <1>1, <2>1, <3>1, PlannedKeeps DEF CsvConfirm
  <2>2. CASE /\ request' = [Idle EXCEPT !.stage = "resolving", !.file = surface.file]
             /\ UNCHANGED <<surface, page, warm>>
    <3>1. request' = [stage |-> "resolving", file |-> surface.file, made |-> {}, from |-> Idle.from,
                      plan |-> Idle.plan]
      BY <2>2 DEF Idle
    <3>2. FileOk(surface.file) /\ FileOk(surface'.file)
      BY <2>2 DEF CsvInv, FilesInv
    <3>3. /\ "gear" \in warm' => HasConfirmed(pageSeen)'
          /\ SureMeansNothing' /\ OneImportSurface' /\ importsConfirmed' \subseteq 1 .. nextId - 1
      BY <1>1, <2>2 DEF CsvInv, FlowInv, LibsInv, SureMeansNothing, OneImportSurface, HasConfirmed, CsvConfirm
    <3> QED
      BY <1>1, <3>1, <3>2, <3>3, NoRequestKeeps DEF CsvConfirm
  <2> QED
    BY <1>1, <2>1, <2>2 DEF CsvConfirm
<1>2. CASE CsvResolved
  <2>1. FileOk(request.file) /\ "gear" \in warm
    BY <1>2 DEF CsvInv, FilesInv, CsvResolved
  <2> QED
    BY <1>2, <2>1, PlannedKeeps DEF CsvResolved
<1>3. CASE CsvDone
  <2>1. /\ surface' = SurfaceClosed /\ request' = Idle /\ warm' = {} \cup (warm \ {"gear", "cats"})
        /\ importsConfirmed' = importsConfirmed \cup request.made
        /\ UNCHANGED <<importing, shelf, nextId, pageSeen, parsing, saved>>
    BY <1>3 DEF CsvDone, ReadAgain
  <2>2. FileOk(surface'.file) /\ SureMeansNothing' /\ OneImportSurface'
    BY <2>1, SurfaceFiles, NoFileOk DEF SureMeansNothing, OneImportSurface
  <2>3. "gear" \notin warm' /\ importsConfirmed' \subseteq 1 .. nextId - 1
    BY <2>1 DEF CsvInv, LibsInv
  <2> QED
    BY <2>1, <2>2, <2>3, NoRequestKeeps, NoFileOk, NoLibOk
<1>4. CASE CsvRefused
  <2>1. PICK landed : landed = FALSE /\ Fails("refused", landed)
    BY <1>4 DEF CsvRefused
  <2> QED
    BY <1>4, <2>1, FailsKeeps DEF CsvRefused
<1>5. CASE CsvLost
  <2>1. PICK landed : Fails("lost", landed)
    BY <1>5 DEF CsvLost
  <2>2. ~ SureOf("lost")
    BY DEF SureOf
  <2> QED
    BY <1>5, <2>1, <2>2, FailsKeeps DEF CsvLost
<1> QED
  BY <1>1, <1>2, <1>3, <1>4, <1>5

\* What other tabs do to the rows, and reads.
LEMMA OthersKeep ==
  ASSUME CsvInv, CsvReread \/ CsvGearDeleted \/ CsvCatDeleted \/ CsvCatAdded
  PROVE  CsvInv'
<1>0. nextId \in Nat /\ nextId # 0 /\ LibOk(shelf, nextId)
  BY DEF CsvInv, LibsInv
<1>1. CASE CsvReread
  <2>1. PICK k \in {"gear", "cats"} :
          /\ pageSeen' = [pageSeen EXCEPT ![k] = shelf[k]] /\ warm' = warm \cup {k}
          /\ UNCHANGED <<importing, shelf, nextId, surface, page, parsing, request, saved,
                         importsConfirmed, tries, others>>
    BY <1>1 DEF CsvReread
  <2>2. /\ pageSeen = [cats |-> pageSeen.cats, gear |-> pageSeen.gear]
        /\ shelf = [cats |-> shelf.cats, gear |-> shelf.gear]
    BY DEF CsvInv, LibsInv, LibOk
  <2>3. \/ /\ k = "gear" /\ pageSeen' = [cats |-> pageSeen.cats, gear |-> shelf.gear]
        \/ /\ k = "cats" /\ pageSeen' = [cats |-> shelf.cats, gear |-> pageSeen.gear]
    BY <2>1, <2>2
  <2>4. LibOk(pageSeen', nextId) /\ SameNames(pageSeen)'
    <3>1. CASE k = "gear"
      BY <2>1, <2>3, <3>1 DEF CsvInv, LibsInv, LibOk, SameNames
    <3>2. CASE k = "cats"
      BY <2>1, <2>3, <3>2 DEF CsvInv, LibsInv, LibOk, SameNames
    <3> QED
      BY <3>1, <3>2
  <2>5. LibsInv'
    BY <2>1, <2>4 DEF CsvInv, LibsInv, SameNames
  <2>6. FilesInv'
    BY <2>1 DEF CsvInv, FilesInv
  <2>7. "gear" \in warm' => HasConfirmed(pageSeen)'
    BY <2>1, <2>3 DEF CsvInv, FlowInv, HasConfirmed, IdsOf
  <2>8. FlowInv'
    BY <2>1, <2>7 DEF CsvInv, FlowInv, HasConfirmed, SureMeansNothing, OneImportSurface
  <2> QED
    BY <2>5, <2>6, <2>8 DEF CsvInv
<1>2. ASSUME NEW lib, NEW n \in Nat, nextId <= n, OtherDocument(lib, n), LibOk(lib, n),
             IdsOf(lib) \subseteq IdsOf(shelf),
             \A c \in DOMAIN lib.cats : c >= nextId \/ (c \in DOMAIN shelf.cats /\ lib.cats[c] = shelf.cats[c])
      PROVE  CsvInv'
  <2>1. /\ shelf' = lib /\ nextId' = n
        /\ UNCHANGED <<importing, pageSeen, warm, surface, page, parsing, request, saved,
                       importsConfirmed, tries>>
    BY <1>2 DEF OtherDocument
  <2>2. \A x : LibOk(x, nextId) => LibOk(x, n)
    BY <1>0, <1>2, LibGrows
  <2>3. \A x : LibOk(x, nextId) /\ SameNames(x) =>
                 \A c \in DOMAIN x.cats \cap DOMAIN lib.cats : x.cats[c] = lib.cats[c]
    <3> SUFFICES ASSUME NEW x, LibOk(x, nextId), SameNames(x), NEW c \in DOMAIN x.cats \cap DOMAIN lib.cats
                 PROVE  x.cats[c] = lib.cats[c]
      OBVIOUS
    <3>1. c \in 1 .. nextId - 1
      BY DEF LibOk
    <3>2. c \in DOMAIN shelf.cats /\ lib.cats[c] = shelf.cats[c]
      BY <1>0, <1>2, <3>1
    <3> QED
      BY <3>2 DEF SameNames
  <2>4. 1 .. nextId - 1 \subseteq 1 .. n - 1
    BY <1>0, <1>2
  <2>5. LibsInv'
    BY <1>0, <1>2, <2>1, <2>2, <2>3, <2>4 DEF CsvInv, LibsInv, SameNames
  <2>6. FilesInv'
    BY <2>1 DEF CsvInv, FilesInv
  <2>7. FlowInv'
    BY <1>2, <2>1 DEF CsvInv, FlowInv, HasConfirmed, SureMeansNothing, OneImportSurface
  <2> QED
    BY <2>5, <2>6, <2>7 DEF CsvInv
<1>3. CASE CsvGearDeleted
  <2>1. PICK g \in shelf.gear : OtherDocument([cats |-> shelf.cats, gear |-> shelf.gear \ {g}], nextId)
    BY <1>3 DEF CsvGearDeleted
  <2>2. PICK lib : lib = [cats |-> shelf.cats, gear |-> shelf.gear \ {g}]
    OBVIOUS
  <2>3. LibOk(lib, nextId)
    BY <1>0, <2>2, FS_Subset DEF LibOk
  <2>4. IdsOf(lib) \subseteq IdsOf(shelf) /\ lib.cats = shelf.cats
    BY <2>2 DEF IdsOf
  <2> QED
    BY <1>0, <1>2, <2>1, <2>2, <2>3, <2>4
<1>4. CASE CsvCatDeleted
  <2> DEFINE Kept(c, g) == IF g.cat = c THEN [g EXCEPT !.cat = NullId] ELSE g
  <2>1. PICK c \in DOMAIN shelf.cats :
          \E lib : /\ OtherDocument(lib, nextId)
                   /\ lib = [cats |-> [d \in DOMAIN shelf.cats \ {c} |-> shelf.cats[d]],
                             gear |-> {Kept(c, g) : g \in shelf.gear}]
    BY <1>4 DEF CsvCatDeleted
  <2>2. PICK lib : /\ OtherDocument(lib, nextId)
                   /\ lib = [cats |-> [d \in DOMAIN shelf.cats \ {c} |-> shelf.cats[d]],
                             gear |-> {Kept(c, g) : g \in shelf.gear}]
    BY <2>1
  <2>3. \A g \in shelf.gear :
          /\ Kept(c, g) \in [id : 1 .. nextId - 1, name : Names, weight : 0 .. GramsCap, cost : Cost,
                             cat : 0 .. nextId - 1]
          /\ Kept(c, g).id = g.id
    <3> SUFFICES ASSUME NEW g \in shelf.gear
                 PROVE  /\ Kept(c, g) \in [id : 1 .. nextId - 1, name : Names, weight : 0 .. GramsCap,
                                           cost : Cost, cat : 0 .. nextId - 1]
                        /\ Kept(c, g).id = g.id
      OBVIOUS
    <3>1. g \in [id : 1 .. nextId - 1, name : Names, weight : 0 .. GramsCap, cost : Cost,
                  cat : 0 .. nextId - 1]
      BY <1>0 DEF LibOk
    <3>2. NullId \in 0 .. nextId - 1
      BY <1>0 DEF NullId
    <3> QED
      BY <3>1, <3>2
  <2>4. IsFiniteSet(lib.gear)
    <3>1. PICK h : h = [g \in shelf.gear |-> Kept(c, g)]
      OBVIOUS
    <3>2. h \in Surjection(shelf.gear, lib.gear)
      BY <2>2, <3>1 DEF Surjection
    <3> QED
      BY <1>0, <3>2, FS_Surjection DEF LibOk
  <2> HIDE DEF Kept
  <2>5. \A x \in lib.gear : \E g \in shelf.gear : x = Kept(c, g)
    BY <2>2
  <2>6. DOMAIN lib.cats = DOMAIN shelf.cats \ {c} /\ \A d \in DOMAIN lib.cats : lib.cats[d] = shelf.cats[d]
    BY <2>2
  <2>7. lib = [cats |-> lib.cats, gear |-> lib.gear]
    BY <2>2
  <2>8. lib.gear \subseteq [id : 1 .. nextId - 1, name : Names, weight : 0 .. GramsCap, cost : Cost,
                            cat : 0 .. nextId - 1]
    BY <2>3, <2>5
  <2>9. \A x, y \in lib.gear : x.id = y.id => x = y
    <3> SUFFICES ASSUME NEW x \in lib.gear, NEW y \in lib.gear, x.id = y.id PROVE x = y
      OBVIOUS
    <3>1. PICK g \in shelf.gear : x = Kept(c, g)
      BY <2>5
    <3>2. PICK h \in shelf.gear : y = Kept(c, h)
      BY <2>5
    <3>3. g = h
      BY <1>0, <2>3, <3>1, <3>2 DEF LibOk
    <3> QED
      BY <3>1, <3>2, <3>3
  <2>10. LibOk(lib, nextId)
    BY <1>0, <2>4, <2>6, <2>7, <2>8, <2>9, FS_Subset DEF LibOk
  <2>11. IdsOf(lib) \subseteq IdsOf(shelf)
    BY <2>3, <2>5 DEF IdsOf
  <2>12. \A d \in DOMAIN lib.cats : d >= nextId \/ (d \in DOMAIN shelf.cats /\ lib.cats[d] = shelf.cats[d])
    BY <2>6
  <2>13. OtherDocument(lib, nextId) /\ nextId <= nextId
    BY <1>0, <2>2
  <2> HIDE DEF Kept
  <2> QED
    BY <1>0, <1>2, <2>10, <2>11, <2>12, <2>13
<1>5. CASE CsvCatAdded
  <2>1. PICK lib : /\ OtherDocument(lib, nextId + 1)
                   /\ lib = [cats |-> WithNames(shelf.cats, [c \in {nextId} |-> NewCat]),
                             gear |-> shelf.gear]
    BY <1>5 DEF CsvCatAdded
  <2>2. /\ lib = [cats |-> lib.cats, gear |-> shelf.gear]
        /\ DOMAIN lib.cats = DOMAIN shelf.cats \cup {nextId}
        /\ \A c \in DOMAIN lib.cats :
             lib.cats[c] = IF c \in DOMAIN shelf.cats THEN shelf.cats[c] ELSE NewCat
    BY <2>1 DEF WithNames
  <2>3. LibOk(shelf, nextId + 1)
    BY <1>0, LibGrows
  <2>4. IsFiniteSet(DOMAIN lib.cats) /\ DOMAIN lib.cats \subseteq 1 .. nextId + 1 - 1
    BY <1>0, <2>2, FS_AddElement DEF LibOk
  <2>5. \A c \in DOMAIN lib.cats : lib.cats[c] \in Names
    BY <1>0, <2>2, ImportAssumption DEF LibOk, Names
  <2>6. LibOk(lib, nextId + 1)
    BY <2>2, <2>3, <2>4, <2>5 DEF LibOk
  <2>7. \A c \in DOMAIN lib.cats : c >= nextId \/ (c \in DOMAIN shelf.cats /\ lib.cats[c] = shelf.cats[c])
    BY <1>0, <2>2
  <2>8. IdsOf(lib) \subseteq IdsOf(shelf)
    BY <2>2 DEF IdsOf
  <2> QED
    BY <1>0, <1>2, <2>1, <2>6, <2>7, <2>8
<1> QED
  BY <1>1, <1>2, <1>3, <1>4, <1>5

-----------------------------------------------------------------------------
(* The transaction                                                         *)

\* A plan that can be carried out: finite, ids of its own, and nothing out of range.
PlanOk(plan, names) ==
  /\ IsFiniteSet(plan.cats) /\ IsFiniteSet(plan.gear)
  /\ \A c \in plan.cats : c.tempId \in Int /\ c.name \in Names
  /\ \A c, d \in plan.cats : c.tempId = d.tempId => c = d
  /\ \A g \in plan.gear : /\ g.tempId \in Int /\ g.name \in Names /\ g.weight \in 0 .. GramsCap
                          /\ g.cost \in Cost
  /\ \A g, h \in plan.gear : g.tempId = h.tempId => g = h
  /\ \A g \in plan.gear :
       \/ g.category.kind = "none" /\ g.category.id = NullId
       \/ g.category.kind = "existing" /\ g.category.id \in DOMAIN names
       \/ g.category.kind = "new" /\ \E c \in plan.cats : c.tempId = g.category.id

LEMMA PlanShape ==
  ASSUME NEW rows, RowsOk(rows), NEW lib, NEW n \in Nat, LibOk(lib, n), NEW plan,
         plan.cats = PlanNewCategories(rows, lib.cats), plan.gear = PlannedGear(rows, lib)
  PROVE  PlanOk(plan, lib.cats)
<1>1. /\ NewRows(rows, lib) \subseteq DOMAIN rows /\ NewRefs(rows, lib.cats) \subseteq DOMAIN rows
      /\ DOMAIN rows \subseteq Nat /\ IsFiniteSet(NewRows(rows, lib)) /\ IsFiniteSet(NewRefs(rows, lib.cats))
  BY FS_Subset, NewRefFacts DEF NewRows, RowsOk
<1>2. /\ \A c \in plan.cats : \E j \in NewRefs(rows, lib.cats) : c = BroughtBy(rows, j)
      /\ \A j \in NewRefs(rows, lib.cats) : BroughtBy(rows, j) \in plan.cats
      /\ \A g \in plan.gear : \E i \in NewRows(rows, lib) : g = GearOf(rows, lib, i)
      /\ \A i \in NewRows(rows, lib) : GearOf(rows, lib, i) \in plan.gear
  BY DEF PlannedGear, GearOf, PlanNewCategories, BroughtBy
<1>3. IsFiniteSet(plan.cats)
  <2>1. PICK h : h = [j \in NewRefs(rows, lib.cats) |-> BroughtBy(rows, j)]
    OBVIOUS
  <2>2. h \in Surjection(NewRefs(rows, lib.cats), plan.cats)
    BY <1>2, <2>1 DEF Surjection
  <2> QED
    BY <1>1, <2>2, FS_Surjection
<1>4. IsFiniteSet(plan.gear)
  <2>1. PICK h : h = [i \in NewRows(rows, lib) |-> GearOf(rows, lib, i)]
    OBVIOUS
  <2>2. h \in Surjection(NewRows(rows, lib), plan.gear)
    BY <1>2, <2>1 DEF Surjection
  <2> QED
    BY <1>1, <2>2, FS_Surjection
<1>5. \A j \in NewRefs(rows, lib.cats) :
        BroughtBy(rows, j).tempId = -j /\ BroughtBy(rows, j).name \in Names
  <2> SUFFICES ASSUME NEW j \in NewRefs(rows, lib.cats)
               PROVE  BroughtBy(rows, j).tempId = -j /\ BroughtBy(rows, j).name \in Names
    OBVIOUS
  <2>1. rows[j].cat \in Text /\ rows[j].cat # NoText
    BY <1>1, NewRefFacts DEF RowsOk, ReadRow
  <2> QED
    BY <2>1 DEF BroughtBy, Names
<1>6. \A i \in NewRows(rows, lib) :
        /\ GearOf(rows, lib, i).tempId = -(100 + i) /\ GearOf(rows, lib, i).name \in Names
        /\ GearOf(rows, lib, i).weight \in 0 .. GramsCap /\ GearOf(rows, lib, i).cost \in Cost
        /\ Refers(rows, lib.cats, i, GearOf(rows, lib, i).category)
  <2> SUFFICES ASSUME NEW i \in NewRows(rows, lib)
               PROVE  /\ GearOf(rows, lib, i).tempId = -(100 + i) /\ GearOf(rows, lib, i).name \in Names
                      /\ GearOf(rows, lib, i).weight \in 0 .. GramsCap
                      /\ GearOf(rows, lib, i).cost \in Cost
                      /\ Refers(rows, lib.cats, i, GearOf(rows, lib, i).category)
    OBVIOUS
  <2>1. rows[i] \in ReadRow /\ i \in DOMAIN rows
    BY <1>1 DEF RowsOk
  <2>2. Refers(rows, lib.cats, i, GearOf(rows, lib, i).category)
    BY <2>1, RefFacts DEF GearOf
  <2> QED
    BY <2>1, <2>2 DEF GearOf, ReadRow
<1>7. \A c, d \in plan.cats : c.tempId = d.tempId => c = d
  <2> SUFFICES ASSUME NEW c \in plan.cats, NEW d \in plan.cats, c.tempId = d.tempId PROVE c = d
    OBVIOUS
  <2>1. PICK j \in NewRefs(rows, lib.cats) : c = BroughtBy(rows, j)
    BY <1>2
  <2>2. PICK k \in NewRefs(rows, lib.cats) : d = BroughtBy(rows, k)
    BY <1>2
  <2>3. -j = -k /\ j \in Nat /\ k \in Nat
    BY <1>1, <1>5, <2>1, <2>2
  <2>4. j = k
    BY <2>3
  <2> QED
    BY <2>1, <2>2, <2>4
<1>8. \A g, h \in plan.gear : g.tempId = h.tempId => g = h
  <2> SUFFICES ASSUME NEW g \in plan.gear, NEW h \in plan.gear, g.tempId = h.tempId PROVE g = h
    OBVIOUS
  <2>1. PICK i \in NewRows(rows, lib) : g = GearOf(rows, lib, i)
    BY <1>2
  <2>2. PICK k \in NewRows(rows, lib) : h = GearOf(rows, lib, k)
    BY <1>2
  <2>3. -(100 + i) = -(100 + k) /\ i \in Nat /\ k \in Nat
    BY <1>1, <1>6, <2>1, <2>2
  <2>4. i = k
    BY <2>3
  <2> QED
    BY <2>1, <2>2, <2>4
<1>9. ASSUME NEW g \in plan.gear
      PROVE  \/ g.category.kind = "none" /\ g.category.id = NullId
             \/ g.category.kind = "existing" /\ g.category.id \in DOMAIN lib.cats
             \/ g.category.kind = "new" /\ \E c \in plan.cats : c.tempId = g.category.id
  <2>1. PICK i \in NewRows(rows, lib) : g = GearOf(rows, lib, i)
    BY <1>2
  <2>2. PICK ref : ref = g.category /\ Refers(rows, lib.cats, i, ref)
    BY <1>6, <2>1
  <2>3. CASE \E j \in NewRefs(rows, lib.cats) : ref = [kind |-> "new", id |-> -j]
    <3>1. PICK j \in NewRefs(rows, lib.cats) : ref = [kind |-> "new", id |-> -j]
      BY <2>3
    <3>2. BroughtBy(rows, j) \in plan.cats /\ BroughtBy(rows, j).tempId = ref.id
      BY <1>2, <1>5, <3>1
    <3> QED
      BY <2>2, <3>1, <3>2
  <2>4. CASE ref = [kind |-> "none", id |-> NullId]
    BY <2>2, <2>4
  <2>5. CASE ref = [kind |-> "existing", id |-> ref.id] /\ ref.id \in DOMAIN lib.cats
    <3>1. ref.kind = "existing"
      BY <2>5
    <3> QED
      BY <2>2, <2>5, <3>1
  <2> QED
    BY <2>2, <2>3, <2>4, <2>5 DEF Refers
<1>10. \A c \in plan.cats : c.tempId \in Int /\ c.name \in Names
  <2> SUFFICES ASSUME NEW c \in plan.cats PROVE c.tempId \in Int /\ c.name \in Names
    OBVIOUS
  <2>1. PICK j \in NewRefs(rows, lib.cats) : c = BroughtBy(rows, j)
    BY <1>2
  <2> QED
    BY <1>1, <1>5, <2>1
<1>11. \A g \in plan.gear : /\ g.tempId \in Int /\ g.name \in Names /\ g.weight \in 0 .. GramsCap
                            /\ g.cost \in Cost
  <2> SUFFICES ASSUME NEW g \in plan.gear
               PROVE  g.tempId \in Int /\ g.name \in Names /\ g.weight \in 0 .. GramsCap /\ g.cost \in Cost
    OBVIOUS
  <2>1. PICK i \in NewRows(rows, lib) : g = GearOf(rows, lib, i)
    BY <1>2
  <2>2. -(100 + i) \in Int
    BY <1>1
  <2> QED
    BY <1>6, <2>1, <2>2
<1> QED
  BY <1>3, <1>4, <1>7, <1>8, <1>9, <1>10, <1>11 DEF PlanOk

\* The places of rows with temporary ids of their own are numbers of their own.
LEMMA RankFacts ==
  ASSUME NEW S, IsFiniteSet(S), \A x \in S : x.tempId \in Int,
         \A x, y \in S : x.tempId = y.tempId => x = y
  PROVE  /\ Cardinality(S) \in Nat
         /\ \A x \in S : Rank(S, x) \in 0 .. Cardinality(S) - 1
         /\ \A x, y \in S : Rank(S, x) = Rank(S, y) => x = y
<1> DEFINE Above(x) == {y \in S : y.tempId > x.tempId}
<1>0. Cardinality(S) \in Nat
  BY FS_CardinalityType
<1>1. \A x \in S : /\ Rank(S, x) = Cardinality(Above(x)) /\ IsFiniteSet(Above(x))
                   /\ Above(x) \subseteq S /\ x \notin Above(x)
                   /\ \A y \in S : y \in Above(x) <=> y.tempId > x.tempId
  BY FS_Subset DEF Rank
<1> HIDE DEF Above
<1>2. ASSUME NEW x \in S PROVE Rank(S, x) \in 0 .. Cardinality(S) - 1
  <2>1. Above(x) \subseteq S /\ Above(x) # S /\ Cardinality(Above(x)) \in Nat
    BY <1>1, <1>2, FS_CardinalityType
  <2>2. Cardinality(Above(x)) <= Cardinality(S) /\ Cardinality(Above(x)) # Cardinality(S)
    BY <2>1, FS_Subset
  <2> QED
    BY <1>0, <1>1, <1>2, <2>1, <2>2
<1>3. ASSUME NEW x \in S, NEW y \in S, x.tempId < y.tempId PROVE Rank(S, y) < Rank(S, x)
  <2>1. ASSUME NEW z \in Above(y) PROVE z \in Above(x)
    <3>1. z \in S /\ z.tempId > y.tempId
      BY <1>1, <1>3, <2>1
    <3>2. z.tempId > x.tempId
      BY <1>3, <3>1
    <3> QED
      BY <1>1, <1>3, <3>1, <3>2
  <2>2. y \in Above(x) /\ y \notin Above(y)
    BY <1>1, <1>3
  <2>3. Above(y) \subseteq Above(x) /\ Above(y) # Above(x) /\ IsFiniteSet(Above(x))
    BY <1>1, <1>3, <2>1, <2>2
  <2>4. /\ Cardinality(Above(y)) <= Cardinality(Above(x)) /\ Cardinality(Above(y)) # Cardinality(Above(x))
        /\ Cardinality(Above(x)) \in Nat /\ Cardinality(Above(y)) \in Nat
    BY <2>3, FS_Subset, FS_CardinalityType
  <2> QED
    BY <1>1, <1>3, <2>4
<1>4. ASSUME NEW x \in S, NEW y \in S, Rank(S, x) = Rank(S, y) PROVE x = y
  <2>1. Rank(S, x) \in Int /\ Rank(S, y) \in Int /\ x.tempId \in Int /\ y.tempId \in Int
    BY <1>0, <1>2, <1>4
  <2>2. ~ (x.tempId < y.tempId) /\ ~ (y.tempId < x.tempId)
    BY <1>3, <1>4, <2>1
  <2>3. x.tempId = y.tempId
    BY <2>1, <2>2
  <2> QED
    BY <1>4, <2>3
<1> QED
  BY <1>0, <1>2, <1>4

\* The row the server writes for wrote of the plan.
Imported(plan, g) ==
  [id |-> nextId + Cardinality(plan.cats) + Rank(plan.gear, g),
   name |-> g.name, weight |-> g.weight, cost |-> g.cost,
   cat |-> IF g.category.kind = "new" THEN NewIdOf(plan, g.category.id) ELSE g.category.id]

\* What is written: the names of the new categories by id, and the new wrote, ids from nextId on.
LEMMA WrittenFacts ==
  ASSUME nextId \in Nat, NEW plan, NEW names, PlanOk(plan, names)
  PROVE  /\ Cardinality(plan.cats) \in Nat /\ Cardinality(plan.gear) \in Nat
         /\ DOMAIN ImportedCats(plan) \subseteq nextId .. nextId + Cardinality(plan.cats) - 1
         /\ IsFiniteSet(DOMAIN ImportedCats(plan))
         /\ \A c \in plan.cats : /\ NewIdOf(plan, c.tempId) \in DOMAIN ImportedCats(plan)
                                 /\ ImportedCats(plan)[NewIdOf(plan, c.tempId)] = c.name
         /\ \A n \in DOMAIN ImportedCats(plan) :
              \E c \in plan.cats : n = NewIdOf(plan, c.tempId) /\ ImportedCats(plan)[n] = c.name
         /\ IsFiniteSet(ImportedGear(plan))
         /\ \A x : x \in ImportedGear(plan) <=> \E g \in plan.gear : x = Imported(plan, g)
         /\ \A g \in plan.gear :
              Imported(plan, g).id \in nextId + Cardinality(plan.cats)
                                       .. nextId + Cardinality(plan.cats) + Cardinality(plan.gear) - 1
         /\ \A x, y \in ImportedGear(plan) : x.id = y.id => x = y
<1> DEFINE cs == plan.cats
           gs == plan.gear
           k == Cardinality(cs)
           m == Cardinality(gs)
           Id(c) == NewIdOf(plan, c.tempId)
           ids == {Id(c) : c \in cs}
<1>1. /\ k \in Nat /\ \A x \in cs : Rank(cs, x) \in 0 .. k - 1
      /\ \A x, y \in cs : Rank(cs, x) = Rank(cs, y) => x = y
  <2>1. IsFiniteSet(cs) /\ (\A x \in cs : x.tempId \in Int) /\ \A x, y \in cs : x.tempId = y.tempId => x = y
    BY DEF PlanOk
  <2> QED
    BY <2>1, RankFacts
<1>2. /\ m \in Nat /\ \A x \in gs : Rank(gs, x) \in 0 .. m - 1
      /\ \A x, y \in gs : Rank(gs, x) = Rank(gs, y) => x = y
  <2>1. IsFiniteSet(gs) /\ (\A x \in gs : x.tempId \in Int) /\ \A x, y \in gs : x.tempId = y.tempId => x = y
    BY DEF PlanOk
  <2> QED
    BY <2>1, RankFacts
<1>3. ASSUME NEW c \in cs PROVE Id(c) = nextId + Rank(cs, c)
  <2>1. (CHOOSE d \in plan.cats : d.tempId = c.tempId) = c
    BY DEF PlanOk
  <2> QED
    BY <2>1 DEF NewIdOf
<1>4. \A c \in cs : Id(c) \in nextId .. nextId + k - 1
  BY <1>1, <1>3
<1>5. \A c, d \in cs : Id(c) = Id(d) => c = d
  <2> SUFFICES ASSUME NEW c \in cs, NEW d \in cs, Id(c) = Id(d) PROVE c = d
    OBVIOUS
  <2>1. Rank(cs, c) = Rank(cs, d)
    BY <1>1, <1>3
  <2> QED
    BY <1>1, <2>1
<1>6. DOMAIN ImportedCats(plan) = ids
  BY DEF ImportedCats
<1>7. ASSUME NEW c \in cs PROVE ImportedCats(plan)[Id(c)] = c.name
  <2>1. (CHOOSE d \in plan.cats : NewIdOf(plan, d.tempId) = Id(c)) = c
    BY <1>5
  <2> QED
    BY <2>1 DEF ImportedCats
<1>8. ids \subseteq nextId .. nextId + k - 1 /\ IsFiniteSet(ids)
  <2>1. IsFiniteSet(nextId .. nextId + k - 1)
    BY <1>1, FS_Interval
  <2>2. ids \subseteq nextId .. nextId + k - 1
    BY <1>4
  <2> QED
    BY <2>1, <2>2, FS_Subset
<1>9. \A x : x \in ImportedGear(plan) <=> \E g \in gs : x = Imported(plan, g)
  BY DEF ImportedGear, Imported
<1>10. \A g \in gs : Imported(plan, g).id = nextId + k + Rank(gs, g)
  BY DEF Imported
<1>11. IsFiniteSet(ImportedGear(plan))
  <2>1. PICK h : h = [g \in gs |-> Imported(plan, g)]
    OBVIOUS
  <2>2. h \in Surjection(gs, ImportedGear(plan))
    BY <1>9, <2>1 DEF Surjection
  <2> QED
    BY <2>2, FS_Surjection DEF PlanOk
<1>12. \A x, y \in ImportedGear(plan) : x.id = y.id => x = y
  <2> SUFFICES ASSUME NEW x \in ImportedGear(plan), NEW y \in ImportedGear(plan), x.id = y.id PROVE x = y
    OBVIOUS
  <2>1. PICK g \in gs : x = Imported(plan, g)
    BY <1>9
  <2>2. PICK h \in gs : y = Imported(plan, h)
    BY <1>9
  <2>3. Rank(gs, g) = Rank(gs, h)
    BY <1>1, <1>2, <1>10, <2>1, <2>2
  <2>4. g = h
    BY <1>2, <2>3
  <2> QED
    BY <2>1, <2>2, <2>4
<1>13. \A g \in gs : Imported(plan, g).id \in nextId + k .. nextId + k + m - 1
  BY <1>1, <1>2, <1>10
<1> HIDE DEF Id
<1> QED
  BY <1>1, <1>2, <1>6, <1>7, <1>8, <1>9, <1>11, <1>12, <1>13 DEF Id

\* The rows as the transaction leaves them.
Landed(plan) ==
  /\ shelf' = [cats |-> WithNames(shelf.cats, ImportedCats(plan)),
               gear |-> shelf.gear \cup ImportedGear(plan)]
  /\ nextId' = nextId + Cardinality(plan.cats) + Cardinality(plan.gear)
  /\ request' = [request EXCEPT !.stage = "landed", !.made = {g.id : g \in ImportedGear(plan)}]

LEMMA LandedRows ==
  ASSUME nextId \in Nat \ {0}, LibOk(shelf, nextId), NEW plan, NEW names, PlanOk(plan, names),
         DOMAIN names \subseteq 0 .. nextId - 1, NEW new, NEW n,
         new = [cats |-> WithNames(shelf.cats, ImportedCats(plan)), gear |-> shelf.gear \cup ImportedGear(plan)],
         n = nextId + Cardinality(plan.cats) + Cardinality(plan.gear)
  PROVE  /\ n \in Nat /\ nextId <= n /\ LibOk(new, n)
         /\ \A x \in ImportedGear(plan) : x.id \in nextId .. n - 1
         /\ DOMAIN new.cats = DOMAIN shelf.cats \cup DOMAIN ImportedCats(plan)
         /\ \A c \in DOMAIN ImportedCats(plan) : c >= nextId
         /\ \A c \in DOMAIN shelf.cats : new.cats[c] = shelf.cats[c]
         /\ \A c \in DOMAIN ImportedCats(plan) : new.cats[c] = ImportedCats(plan)[c]
<1> DEFINE k == Cardinality(plan.cats)
           m == Cardinality(plan.gear)
           made == ImportedCats(plan)
           wrote == ImportedGear(plan)
           Row == [id : 1 .. n - 1, name : Names, weight : 0 .. GramsCap, cost : Cost, cat : 0 .. n - 1]
<1>1. /\ k \in Nat /\ m \in Nat
      /\ DOMAIN made \subseteq nextId .. nextId + k - 1 /\ IsFiniteSet(DOMAIN made)
      /\ \A c \in plan.cats : NewIdOf(plan, c.tempId) \in DOMAIN made /\ made[NewIdOf(plan, c.tempId)] = c.name
      /\ \A i \in DOMAIN made : \E c \in plan.cats : i = NewIdOf(plan, c.tempId) /\ made[i] = c.name
      /\ IsFiniteSet(wrote)
      /\ \A x : x \in wrote <=> \E g \in plan.gear : x = Imported(plan, g)
      /\ \A g \in plan.gear : Imported(plan, g).id \in nextId + k .. nextId + k + m - 1
      /\ \A x, y \in wrote : x.id = y.id => x = y
  BY WrittenFacts
<1>2. /\ new = [cats |-> new.cats, gear |-> new.gear] /\ new.gear = shelf.gear \cup wrote
      /\ new.cats = WithNames(shelf.cats, made)
  OBVIOUS
<1> HIDE DEF made, wrote, k, m
<1>3. n = nextId + k + m /\ n \in Nat /\ nextId <= n /\ LibOk(shelf, n)
  <2>1. n = nextId + k + m
    BY DEF k, m
  <2>2. n \in Nat /\ nextId <= n
    BY <1>1, <2>1
  <2> QED
    BY <2>1, <2>2, LibGrows
<1>4. /\ DOMAIN new.cats = DOMAIN shelf.cats \cup DOMAIN made
      /\ \A c \in DOMAIN new.cats : new.cats[c] = IF c \in DOMAIN shelf.cats THEN shelf.cats[c] ELSE made[c]
  BY <1>2 DEF WithNames
<1>5. /\ \A c \in DOMAIN made : c >= nextId /\ c \in 1 .. n - 1
      /\ \A c \in DOMAIN shelf.cats : c \in 1 .. n - 1 /\ ~ (c >= nextId)
  <2>1. \A c \in DOMAIN made : c \in Int /\ c >= nextId /\ c <= nextId + k - 1
    BY <1>1
  <2>2. \A c \in DOMAIN made : c >= nextId /\ c \in 1 .. n - 1
    BY <1>1, <1>3, <2>1
  <2>3. DOMAIN shelf.cats \subseteq 1 .. nextId - 1
    BY DEF LibOk
  <2> QED
    BY <1>3, <2>2, <2>3
<1>6. \A x \in wrote : x.id \in nextId .. n - 1
  <2> SUFFICES ASSUME NEW x \in wrote PROVE x.id \in nextId .. n - 1
    OBVIOUS
  <2>1. PICK g \in plan.gear : x = Imported(plan, g)
    BY <1>1
  <2> QED
    BY <1>1, <1>3, <2>1
<1>7. ASSUME NEW x \in wrote PROVE x \in Row
  <2>1. PICK g \in plan.gear : x = Imported(plan, g)
    BY <1>1
  <2>2. g.name \in Names /\ g.weight \in 0 .. GramsCap /\ g.cost \in Cost
    BY DEF PlanOk
  <2>3. (IF g.category.kind = "new" THEN NewIdOf(plan, g.category.id) ELSE g.category.id) \in 0 .. n - 1
    <3>1. CASE g.category.kind = "none" /\ g.category.id = NullId
      BY <1>3, <3>1 DEF NullId
    <3>2. CASE g.category.kind = "existing" /\ g.category.id \in DOMAIN names
      BY <1>3, <3>2
    <3>3. CASE g.category.kind = "new" /\ \E c \in plan.cats : c.tempId = g.category.id
      <4>1. NewIdOf(plan, g.category.id) \in DOMAIN made
        BY <1>1, <3>3
      <4> QED
        BY <1>5, <3>3, <4>1
    <3> QED
      BY <3>1, <3>2, <3>3 DEF PlanOk
  <2>4. x.id \in 1 .. n - 1
    BY <1>3, <1>6
  <2> QED
    BY <2>1, <2>2, <2>3, <2>4 DEF Imported
<1>8. \A c \in DOMAIN new.cats : new.cats[c] \in Names
  <2>1. \A c \in DOMAIN shelf.cats : shelf.cats[c] \in Names
    BY DEF LibOk
  <2>2. \A c \in DOMAIN made : made[c] \in Names
    BY <1>1 DEF PlanOk
  <2> QED
    BY <1>4, <2>1, <2>2
<1>9. \A x, y \in new.gear : x.id = y.id => x = y
  <2>1. \A x \in shelf.gear : x.id \in 1 .. nextId - 1
    BY DEF LibOk
  <2>2. \A x, y \in shelf.gear : x.id = y.id => x = y
    BY DEF LibOk
  <2> QED
    BY <1>1, <1>2, <1>6, <2>1, <2>2
<1>10. LibOk(new, n)
  <2>1. IsFiniteSet(DOMAIN new.cats)
    <3>1. IsFiniteSet(DOMAIN shelf.cats) /\ IsFiniteSet(DOMAIN made)
      BY <1>1 DEF LibOk
    <3>2. PICK old, more : old = DOMAIN shelf.cats /\ more = DOMAIN made
      OBVIOUS
    <3>3. IsFiniteSet(old \cup more)
      BY <3>1, <3>2, FS_Union
    <3> QED
      BY <1>4, <3>2, <3>3
  <2>2. IsFiniteSet(new.gear)
    BY <1>1, <1>2, FS_Union DEF LibOk
  <2>3. new.gear \subseteq Row
    BY <1>2, <1>3, <1>7 DEF LibOk
  <2> QED
    BY <1>2, <1>4, <1>5, <1>8, <1>9, <2>1, <2>2, <2>3 DEF LibOk
<1> QED
  BY <1>3, <1>4, <1>5, <1>6, <1>10 DEF made, wrote

\* The plan of a request that is out can be carried out.
LEMMA RequestPlan ==
  ASSUME CsvInv, request.stage = "sent"
  PROVE  /\ PlanOk(request.plan, request.from.cats) /\ DOMAIN request.from.cats \subseteq 0 .. nextId - 1
         /\ request.plan.cats = PlanNewCategories(Parsed(request.file), request.from.cats)
         /\ request.plan.gear = PlannedGear(Parsed(request.file), request.from)
         /\ RowsOk(Parsed(request.file))
<1> DEFINE rows == Parsed(request.file)
           plan == request.plan
<1>1. /\ plan.cats = PlanNewCategories(rows, request.from.cats)
      /\ plan.gear = PlannedGear(rows, request.from)
  <2>1. plan = PlanFor(importing, request.file, request.from)
    BY DEF CsvInv, FlowInv
  <2> QED
    BY <2>1 DEF PlanFor, PlanGearImport, PlanListImport
<1>2. RowsOk(rows)
  BY FileParsed DEF CsvInv, FilesInv
<1>3. LibOk(request.from, nextId) /\ nextId \in Nat
  BY DEF CsvInv, LibsInv
<1>4. DOMAIN request.from.cats \subseteq 0 .. nextId - 1
  BY <1>3 DEF LibOk
<1> HIDE DEF rows, plan
<1>5. PlanOk(plan, request.from.cats)
  BY <1>1, <1>2, <1>3, PlanShape
<1> QED
  BY <1>1, <1>2, <1>4, <1>5 DEF rows, plan

\* The request lands, or is refused.
LEMMA LandKeeps ==
  ASSUME CsvInv, CsvLand
  PROVE  CsvInv'
<1>1. /\ request.stage = "sent"
      /\ \/ Landed(request.plan)
         \/ request' = [request EXCEPT !.stage = "refused"] /\ UNCHANGED <<shelf, nextId>>
      /\ UNCHANGED <<importing, pageSeen, warm, surface, page, parsing, saved, importsConfirmed, tries, others>>
  BY DEF CsvLand, Landed
<1>2. request = [stage |-> request.stage, file |-> request.file, made |-> request.made,
                 from |-> request.from, plan |-> request.plan]
  BY DEF CsvInv, FlowInv
<1>3. SureMeansNothing' /\ OneImportSurface'
  BY <1>1 DEF CsvInv, FlowInv, SureMeansNothing, OneImportSurface
<1>4. CASE request' = [request EXCEPT !.stage = "refused"] /\ UNCHANGED <<shelf, nextId>>
  <2>1. request' = [stage |-> "refused", file |-> request.file, made |-> request.made,
                    from |-> request.from, plan |-> request.plan]
    BY <1>2, <1>4
  <2>2. LibsInv'
    BY <1>1, <1>4, <2>1 DEF CsvInv, LibsInv, SameNames
  <2>3. FilesInv'
    BY <1>1, <2>1 DEF CsvInv, FilesInv
  <2>4. FlowInv'
    BY <1>1, <1>3, <1>4, <2>1 DEF CsvInv, FlowInv, HasConfirmed, IdsOf
  <2> QED
    BY <2>2, <2>3, <2>4 DEF CsvInv
<1>5. CASE Landed(request.plan)
  <2> DEFINE plan == request.plan
  <2>1. PlanOk(plan, request.from.cats) /\ DOMAIN request.from.cats \subseteq 0 .. nextId - 1
    BY <1>1, RequestPlan
  <2>2. PICK new, n : /\ new = [cats |-> WithNames(shelf.cats, ImportedCats(plan)),
                                gear |-> shelf.gear \cup ImportedGear(plan)]
                      /\ n = nextId + Cardinality(plan.cats) + Cardinality(plan.gear)
                      /\ shelf' = new /\ nextId' = n
    BY <1>5 DEF Landed
  <2>3. PICK made : /\ made = {g.id : g \in ImportedGear(plan)}
                    /\ request' = [stage |-> "landed", file |-> request.file, made |-> made,
                                   from |-> request.from, plan |-> request.plan]
    BY <1>2, <1>5 DEF Landed
  <2>4. nextId \in Nat \ {0} /\ LibOk(shelf, nextId)
    BY DEF CsvInv, LibsInv
  <2>5. /\ n \in Nat /\ nextId <= n /\ LibOk(new, n)
        /\ \A x \in ImportedGear(plan) : x.id \in nextId .. n - 1
        /\ DOMAIN new.cats = DOMAIN shelf.cats \cup DOMAIN ImportedCats(plan)
        /\ \A c \in DOMAIN ImportedCats(plan) : c >= nextId
        /\ \A c \in DOMAIN shelf.cats : new.cats[c] = shelf.cats[c]
    BY <2>1, <2>2, <2>4, LandedRows
  <2>6. new.gear = shelf.gear \cup ImportedGear(plan)
    BY <2>2
  <2> HIDE DEF plan
  <2>7. \A x : LibOk(x, nextId) => LibOk(x, n)
    BY <2>4, <2>5, LibGrows
  <2>8. \A x : LibOk(x, nextId) /\ SameNames(x) =>
                 \A c \in DOMAIN x.cats \cap DOMAIN new.cats : x.cats[c] = new.cats[c]
    <3> SUFFICES ASSUME NEW x, LibOk(x, nextId), SameNames(x), NEW c \in DOMAIN x.cats \cap DOMAIN new.cats
                 PROVE  x.cats[c] = new.cats[c]
      OBVIOUS
    <3>1. c \in 1 .. nextId - 1
      BY DEF LibOk
    <3>2. c \in DOMAIN shelf.cats /\ new.cats[c] = shelf.cats[c]
      BY <2>4, <2>5, <3>1
    <3> QED
      BY <3>2 DEF SameNames
  <2>9. made \subseteq nextId .. n - 1 /\ made \subseteq 1 .. n - 1 /\ 1 .. nextId - 1 \subseteq 1 .. n - 1
    BY <2>3, <2>4, <2>5
  <2>10. LibsInv'
    BY <2>2, <2>3, <2>4, <2>5, <2>7, <2>8, <2>9, <1>1 DEF CsvInv, LibsInv, SameNames
  <2>11. FilesInv'
    BY <1>1, <2>3 DEF CsvInv, FilesInv
  <2>12. importsConfirmed \cap IdsOf(new) \subseteq IdsOf(shelf)
    <3>1. importsConfirmed \subseteq 1 .. nextId - 1
      BY DEF CsvInv, LibsInv
    <3>2. \A x \in ImportedGear(plan) : x.id \notin importsConfirmed
      BY <2>4, <2>5, <3>1
    <3> QED
      BY <2>6, <3>2 DEF IdsOf
  <2>13. \A x : HasConfirmed(x) => importsConfirmed \cap IdsOf(new) \subseteq IdsOf(x)
    BY <2>12 DEF HasConfirmed
  <2>14. FlowInv'
    BY <1>1, <1>3, <2>2, <2>3, <2>13 DEF CsvInv, FlowInv, HasConfirmed
  <2> QED
    BY <2>10, <2>11, <2>14 DEF CsvInv
<1> QED
  BY <1>1, <1>4, <1>5

LEMMA CsvInvStarts ==
  ASSUME CsvInit
  PROVE  CsvInv
<1>1. FirstId \in Nat \ {0} /\ LibOk(OwnGear, FirstId)
  <2>1. FirstId \in Nat \ {0}
    <3>1. Cardinality(OwnGear.gear) \in Nat /\ Cardinality(DOMAIN OwnGear.cats) \in Nat
      BY ImportAssumption, FS_CardinalityType
    <3> QED
      BY <3>1 DEF FirstId
  <2>2. {NullId} \cup DOMAIN OwnGear.cats \subseteq 0 .. FirstId - 1
    BY <2>1, ImportAssumption DEF NullId
  <2>3. \A g \in OwnGear.gear :
          g \in [id : 1 .. FirstId - 1, name : Names, weight : 0 .. GramsCap, cost : Cost, cat : 0 .. FirstId - 1]
    BY <2>2, ImportAssumption DEF Names
  <2>4. \A c \in DOMAIN OwnGear.cats : OwnGear.cats[c] \in Names
    BY ImportAssumption DEF Names
  <2> QED
    BY <2>1, <2>3, <2>4, ImportAssumption DEF LibOk
<1>2. LibsInv
  BY <1>1, NoLibOk DEF CsvInit, LibsInv, SameNames
<1>3. FilesInv
  BY NoFileOk, NoLibOk, SurfaceFiles DEF CsvInit, FilesInv
<1>4. FlowInv
  BY NoLibOk, SurfaceFiles DEF CsvInit, FlowInv, HasConfirmed, SureMeansNothing, OneImportSurface
<1> QED
  BY <1>2, <1>3, <1>4 DEF CsvInv

LEMMA CsvInvKept ==
  ASSUME CsvInv, [CsvNext]_csvVars
  PROVE  CsvInv'
<1>1. CASE CsvNext
  BY <1>1, ClicksKeep, RequestsKeep, OthersKeep, LandKeeps DEF CsvNext
<1>2. CASE UNCHANGED csvVars
  <2>1. LibsInv'
    BY <1>2 DEF csvVars, CsvInv, LibsInv, SameNames
  <2>2. FilesInv'
    BY <1>2 DEF csvVars, CsvInv, FilesInv
  <2>3. FlowInv'
    BY <1>2 DEF csvVars, CsvInv, FlowInv, HasConfirmed, SureMeansNothing, OneImportSurface
  <2> QED
    BY <2>1, <2>2, <2>3 DEF CsvInv
<1> QED
  BY <1>1, <1>2

\* What is sent is well formed, what is said of an import is true, a list is planned on all
\* the wrote the page was told of, and no dialog opens over another.  No text of a file is
\* longer than the server takes: nothing in the planner looks at that.
THEOREM ImportsTold ==
  ASSUME TooLong = {}
  PROVE  CsvSpec => []ImportTold
<1>1. CsvInit => CsvInv
  BY CsvInvStarts
<1>2. CsvInv /\ [CsvNext]_csvVars => CsvInv'
  BY CsvInvKept
<1>3. CsvInv => ImportTold
  <2> SUFFICES ASSUME CsvInv PROVE ImportTold
    OBVIOUS
  <2>1. SentIsWellFormed
    <3> SUFFICES ASSUME request.stage = "sent" PROVE Accepted(importing, request.plan)
      BY DEF SentIsWellFormed
    <3>1. /\ request.plan = PlanFor(importing, request.file, request.from)
          /\ FileOk(request.file) /\ LibOk(request.from, nextId) /\ nextId \in Nat
          /\ importing \in {"gear", "list"}
      BY DEF CsvInv, FlowInv, FilesInv, LibsInv
    <3> QED
      BY <3>1, PlanAccepted
  <2>2. ConfirmedIsSeen
    BY DEF CsvInv, FlowInv, HasConfirmed, IdsOf, ConfirmedIsSeen
  <2> QED
    BY <2>1, <2>2 DEF CsvInv, FlowInv, ImportTold
<1> QED
  BY <1>1, <1>2, <1>3, PTL DEF CsvSpec

-----------------------------------------------------------------------------
(* What an import makes                                                    *)

\* A row of the library is filed under what a row of the file says.
FiledAs(names, g, row) == Lower[CatName(names, g.cat)] = Lower[row.cat]

\* An import that lands: each row it writes is one the file has and the library lacked, under
\* the category of that row, and the rows that were there keep their categories' names.
LEMMA LandedFacts ==
  ASSUME CsvInv, CsvLand
  PROVE  \/ UNCHANGED shelf /\ request'.stage = "refused"
         \/ /\ shelf.gear \subseteq shelf'.gear
            /\ \A g \in shelf'.gear \ shelf.gear :
                 \E i \in NewRows(Parsed(request.file), request.from) :
                   /\ g.name = Parsed(request.file)[i].name
                   /\ g.weight = Parsed(request.file)[i].weight
                   /\ g.cost = Parsed(request.file)[i].cost
                   /\ FiledAs(shelf'.cats, g, Parsed(request.file)[i])
            /\ \A i \in NewRows(Parsed(request.file), request.from) :
                 \E g \in shelf'.gear :
                   /\ g.name = Parsed(request.file)[i].name
                   /\ g.weight = Parsed(request.file)[i].weight
                   /\ FiledAs(shelf'.cats, g, Parsed(request.file)[i])
            /\ \A c \in DOMAIN shelf.cats : c \in DOMAIN shelf'.cats /\ shelf'.cats[c] = shelf.cats[c]
            /\ NullId \notin DOMAIN shelf'.cats
<1> DEFINE rows == Parsed(request.file)
           from == request.from
           plan == request.plan
<1>1. /\ request.stage = "sent"
      /\ \/ Landed(plan) /\ Owned(importing, plan)
         \/ request' = [request EXCEPT !.stage = "refused"] /\ UNCHANGED <<shelf, nextId>>
  BY DEF CsvLand, Landed
<1>2. request = [stage |-> request.stage, file |-> request.file, made |-> request.made,
                 from |-> request.from, plan |-> request.plan]
  BY DEF CsvInv, FlowInv
<1>3. CASE request' = [request EXCEPT !.stage = "refused"] /\ UNCHANGED <<shelf, nextId>>
  <2>1. request'.stage = "refused"
    BY <1>2, <1>3
  <2> QED
    BY <1>3, <2>1
<1>4. CASE Landed(plan) /\ Owned(importing, plan)
  <2>1. /\ PlanOk(plan, from.cats) /\ DOMAIN from.cats \subseteq 0 .. nextId - 1
        /\ plan.cats = PlanNewCategories(rows, from.cats) /\ plan.gear = PlannedGear(rows, from)
        /\ RowsOk(rows)
    BY <1>1, RequestPlan
  <2>2. PICK new : /\ new = [cats |-> WithNames(shelf.cats, ImportedCats(plan)),
                             gear |-> shelf.gear \cup ImportedGear(plan)]
                   /\ shelf' = new
    BY <1>4 DEF Landed
  <2>3. PICK n : n = nextId + Cardinality(plan.cats) + Cardinality(plan.gear)
    OBVIOUS
  <2>4. /\ nextId \in Nat \ {0} /\ LibOk(shelf, nextId) /\ LibOk(from, nextId)
        /\ \A c \in DOMAIN from.cats \cap DOMAIN shelf.cats : from.cats[c] = shelf.cats[c]
    BY DEF CsvInv, LibsInv, SameNames
  <2>5. /\ n \in Nat /\ nextId <= n /\ LibOk(new, n)
        /\ DOMAIN new.cats = DOMAIN shelf.cats \cup DOMAIN ImportedCats(plan)
        /\ \A c \in DOMAIN shelf.cats : new.cats[c] = shelf.cats[c]
        /\ \A c \in DOMAIN ImportedCats(plan) : new.cats[c] = ImportedCats(plan)[c]
    <3>1. PlanOk(plan, from.cats) /\ DOMAIN from.cats \subseteq 0 .. nextId - 1
      BY <2>1
    <3>2. /\ nextId \in Nat \ {0} /\ LibOk(shelf, nextId)
          /\ new = [cats |-> WithNames(shelf.cats, ImportedCats(plan)),
                    gear |-> shelf.gear \cup ImportedGear(plan)]
      BY <2>2, <2>4
    <3> HIDE DEF from, plan
    <3> QED
      BY <2>3, <3>1, <3>2, LandedRows
  <2>6. new.gear = shelf.gear \cup ImportedGear(plan)
    BY <2>2
  <2>7. /\ \A c \in plan.cats : /\ NewIdOf(plan, c.tempId) \in DOMAIN ImportedCats(plan)
                                /\ ImportedCats(plan)[NewIdOf(plan, c.tempId)] = c.name
        /\ \A x : x \in ImportedGear(plan) <=> \E g \in plan.gear : x = Imported(plan, g)
    BY <2>1, <2>4, WrittenFacts
  <2>8. \A g \in plan.gear : g.category.kind = "existing" => g.category.id \in DOMAIN shelf.cats
    BY <1>4 DEF Owned
  <2>9. NullId \notin DOMAIN new.cats
    BY <2>5 DEF LibOk, NullId
  <2> HIDE DEF rows, from, plan
  <2>10. /\ \A g \in plan.gear : \E i \in NewRows(rows, from) : g = GearOf(rows, from, i)
         /\ \A i \in NewRows(rows, from) : GearOf(rows, from, i) \in plan.gear
    BY <2>1 DEF PlannedGear, GearOf
  <2>11. ASSUME NEW i \in NewRows(rows, from)
         PROVE  /\ Imported(plan, GearOf(rows, from, i)).name = rows[i].name
                /\ Imported(plan, GearOf(rows, from, i)).weight = rows[i].weight
                /\ Imported(plan, GearOf(rows, from, i)).cost = rows[i].cost
                /\ FiledAs(new.cats, Imported(plan, GearOf(rows, from, i)), rows[i])
    <3> DEFINE g == GearOf(rows, from, i)
               x == Imported(plan, g)
    <3>1. i \in DOMAIN rows
      BY DEF NewRows
    <3>2. PICK ref : ref = g.category /\ Refers(rows, from.cats, i, ref)
      BY <2>1, <2>4, <3>1, RefFacts DEF GearOf
    <3>3. g \in plan.gear /\ g.name = rows[i].name /\ g.weight = rows[i].weight /\ g.cost = rows[i].cost
      BY <2>10 DEF GearOf
    <3> HIDE DEF g
    <3>4. /\ x.name = g.name /\ x.weight = g.weight /\ x.cost = g.cost
          /\ x.cat = IF ref.kind = "new" THEN NewIdOf(plan, ref.id) ELSE ref.id
      BY <3>2 DEF Imported
    <3> HIDE DEF x
    <3>5. CASE rows[i].cat = NoText /\ ref = [kind |-> "none", id |-> NullId]
      <4>1. x.cat = NullId
        BY <3>4, <3>5
      <4>2. CatName(new.cats, x.cat) = NoText
        BY <2>9, <4>1 DEF CatName
      <4> QED
        BY <3>3, <3>4, <3>5, <4>2 DEF FiledAs, g, x
    <3>6. CASE /\ ref = [kind |-> "existing", id |-> ref.id]
               /\ ref.id \in DOMAIN from.cats /\ Lower[from.cats[ref.id]] = Lower[rows[i].cat]
      <4>1. ref.kind = "existing"
        BY <3>6
      <4>2. x.cat = ref.id /\ ref.id \in DOMAIN shelf.cats
        BY <2>8, <3>2, <3>3, <3>4, <4>1
      <4>3. CatName(new.cats, x.cat) = from.cats[ref.id]
        BY <2>4, <2>5, <3>6, <4>2 DEF CatName
      <4> QED
        BY <3>3, <3>4, <3>6, <4>3 DEF FiledAs, g, x
    <3>7. CASE \E j \in NewRefs(rows, from.cats) :
                 ref = [kind |-> "new", id |-> -j] /\ Lower[rows[j].cat] = Lower[rows[i].cat]
      <4>1. PICK j \in NewRefs(rows, from.cats) :
              ref = [kind |-> "new", id |-> -j] /\ Lower[rows[j].cat] = Lower[rows[i].cat]
        BY <3>7
      <4>2. /\ BroughtBy(rows, j) \in plan.cats /\ BroughtBy(rows, j).tempId = -j
            /\ BroughtBy(rows, j).name = rows[j].cat
        BY <2>1 DEF BroughtBy, PlanNewCategories
      <4>3. x.cat = NewIdOf(plan, -j)
        BY <3>4, <4>1
      <4>4. x.cat \in DOMAIN new.cats /\ new.cats[x.cat] = rows[j].cat
        BY <2>5, <2>7, <4>2, <4>3
      <4>5. CatName(new.cats, x.cat) = rows[j].cat
        BY <4>4 DEF CatName
      <4> QED
        BY <3>3, <3>4, <4>1, <4>5 DEF FiledAs, g, x
    <3> QED
      BY <3>2, <3>5, <3>6, <3>7 DEF Refers
  <2>12. \A g \in new.gear \ shelf.gear : \E i \in NewRows(rows, from) :
           g.name = rows[i].name /\ g.weight = rows[i].weight /\ g.cost = rows[i].cost
             /\ FiledAs(new.cats, g, rows[i])
    <3> SUFFICES ASSUME NEW x \in new.gear \ shelf.gear
                 PROVE  \E i \in NewRows(rows, from) :
                          x.name = rows[i].name /\ x.weight = rows[i].weight /\ x.cost = rows[i].cost
                            /\ FiledAs(new.cats, x, rows[i])
      OBVIOUS
    <3>1. PICK g \in plan.gear : x = Imported(plan, g)
      BY <2>6, <2>7
    <3>2. PICK i \in NewRows(rows, from) : g = GearOf(rows, from, i)
      BY <2>10
    <3> QED
      BY <2>11, <3>1, <3>2
  <2>13. \A i \in NewRows(rows, from) : \E g \in new.gear :
           g.name = rows[i].name /\ g.weight = rows[i].weight /\ FiledAs(new.cats, g, rows[i])
    <3> SUFFICES ASSUME NEW i \in NewRows(rows, from)
                 PROVE  \E g \in new.gear :
                          g.name = rows[i].name /\ g.weight = rows[i].weight /\ FiledAs(new.cats, g, rows[i])
      OBVIOUS
    <3>1. Imported(plan, GearOf(rows, from, i)) \in new.gear
      BY <2>6, <2>7, <2>10
    <3> QED
      BY <2>11, <3>1
  <2>14. shelf.gear \subseteq new.gear /\ DOMAIN shelf.cats \subseteq DOMAIN new.cats
    BY <2>5, <2>6
  <2> QED
    BY <2>2, <2>5, <2>9, <2>12, <2>13, <2>14 DEF rows, from
<1> QED
  BY <1>1, <1>3, <1>4

\* No row the import writes is one the page had in its plan.
LEMMA NoSecondCopyStep ==
  ASSUME CsvInv, CsvLand, NEW g \in shelf'.gear \ shelf.gear, NEW h \in request.from.gear,
         KnownCat(request.from, h), ~ Twins(request.from.cats), SameThing(shelf', g, request.from, h)
  PROVE  FALSE
<1> DEFINE rows == Parsed(request.file)
           from == request.from
<1>1. PICK i \in NewRows(rows, from) : /\ g.name = rows[i].name /\ g.weight = rows[i].weight
                                       /\ FiledAs(shelf'.cats, g, rows[i])
  BY LandedFacts
<1>2. /\ LibOk(from, nextId) /\ nextId \in Nat /\ RowsOk(rows)
  BY FileParsed DEF CsvInv, LibsInv, FilesInv
<1> HIDE DEF rows
<1>3. i \in DOMAIN rows /\ rows[i].cat \in Text /\ Matches(rows, from, i) = {}
  BY <1>2 DEF NewRows, RowsOk, ReadRow
<1>4. /\ Fold[rows[i].name] = Fold[h.name] /\ rows[i].weight = h.weight
      /\ Lower[CatName(from.cats, h.cat)] = Lower[rows[i].cat]
  BY <1>1 DEF SameThing, FiledAs
<1>5. PICK ref : ref = CategoryRef(rows, from.cats, i) /\ Refers(rows, from.cats, i, ref)
  BY <1>2, <1>3, RefFacts
<1>6. h.cat = ref.id
  <2>1. CASE h.cat \in DOMAIN from.cats
    <3>1. /\ Lower[from.cats[h.cat]] = Lower[rows[i].cat] /\ from.cats[h.cat] \in Names
      BY <1>2, <1>4, <2>1 DEF CatName, LibOk
    <3>2. rows[i].cat # NoText
      BY <1>3, <3>1, ImportAssumption DEF Names
    <3>3. ~ \E j \in NewRefs(rows, from.cats) : Lower[rows[j].cat] = Lower[rows[i].cat]
      BY <1>2, <2>1, <3>1, NewRefFacts
    <3>4. ref.id \in DOMAIN from.cats /\ Lower[from.cats[ref.id]] = Lower[rows[i].cat]
      BY <1>5, <3>2, <3>3 DEF Refers
    <3> QED
      BY <2>1, <3>1, <3>4 DEF Twins
  <2>2. CASE h.cat = NullId /\ h.cat \notin DOMAIN from.cats
    <3>1. rows[i].cat = NoText
      BY <1>3, <1>4, <2>2, ImportAssumption DEF CatName
    <3>2. ref = [kind |-> "none", id |-> NullId]
      BY <1>5, <3>1 DEF Refers
    <3> QED
      BY <2>2, <3>2
  <2> QED
    BY <2>1, <2>2 DEF KnownCat
<1>7. h \in Matches(rows, from, i)
  BY <1>4, <1>5, <1>6 DEF Matches, GearKey, CategoryRefId
<1> QED
  BY <1>3, <1>7

\* Reading a row of an export gives back what was written.
LEMMA ExportRowRead ==
  ASSUME NEW f, FileOk(f), ExportOk(f), NEW i \in DOMAIN f.rows
  PROVE  /\ i \in DOMAIN Parsed(f) /\ Parsed(f)[i].name = f.rows[i].name
         /\ Parsed(f)[i].weight = f.rows[i].weight /\ Parsed(f)[i].cost = f.rows[i].cost
         /\ Parsed(f)[i].cat = f.rows[i].cat
<1>1. /\ "cost" \in f.cols /\ f.rows[i].unit = "gram" /\ f.rows[i].weight \in 0 .. GramsCap
      /\ f.rows[i].cost \in Cost /\ f.rows[i].name # NoText
  BY DEF ExportOk
<1>2. i \in DOMAIN Parsed(f) /\ Parsed(f)[i] = ParsedRow(f.rows[i], f.cols)
  BY <1>1, FileParsed
<1>3. ToGrams(f.rows[i].weight, f.rows[i].unit) = f.rows[i].weight
  BY <1>1, CapsAreNumbers DEF ToGrams
<1>4. CostOf(f.rows[i], f.cols) = f.rows[i].cost
  <2>1. f.rows[i]["cost"] = f.rows[i].cost /\ CostKind(f.cols) = "cost" /\ f.cols # {}
    BY <1>1 DEF CostKind
  <2>2. ParseCostFromColumn(f.rows[i].cost, "cost") = f.rows[i].cost
    BY <1>1, CapsAreNumbers DEF ParseCostFromColumn, ParseCost
  <2> QED
    BY <2>1, <2>2 DEF CostOf
<1> QED
  BY <1>2, <1>3, <1>4 DEF ParsedRow

\* What importing one's own export does.
Restored ==
  /\ \A g \in shelf'.gear \ shelf.gear :
       \E x \in saved.holds :
         /\ Fold[g.name] = x.name /\ g.weight = x.weight /\ g.cost = x.cost
         /\ Lower[CatName(shelf'.cats, g.cat)] = x.cat
  /\ request.from = shelf =>
       \A x \in saved.holds : \E g \in shelf'.gear :
         /\ Fold[g.name] = x.name /\ g.weight = x.weight /\ Lower[CatName(shelf'.cats, g.cat)] = x.cat

LEMMA RestoresStep ==
  ASSUME CsvInv, CsvLand, request'.stage = "landed", request.file = saved
  PROVE  Restored
<1> DEFINE rows == Parsed(saved)
           from == request.from
<1>1. /\ shelf.gear \subseteq shelf'.gear
      /\ \A g \in shelf'.gear \ shelf.gear :
           \E i \in NewRows(rows, from) :
             /\ g.name = rows[i].name /\ g.weight = rows[i].weight /\ g.cost = rows[i].cost
             /\ FiledAs(shelf'.cats, g, rows[i])
      /\ \A i \in NewRows(rows, from) : \E g \in shelf'.gear :
           g.name = rows[i].name /\ g.weight = rows[i].weight /\ FiledAs(shelf'.cats, g, rows[i])
      /\ \A c \in DOMAIN shelf.cats : c \in DOMAIN shelf'.cats /\ shelf'.cats[c] = shelf.cats[c]
      /\ NullId \notin DOMAIN shelf'.cats
  BY LandedFacts
<1>2. /\ FileOk(saved) /\ ExportOk(saved) /\ LibOk(from, nextId) /\ nextId \in Nat
  BY DEF CsvInv, LibsInv, FilesInv
<1>3. RowsOk(rows) /\ DOMAIN rows \subseteq DOMAIN saved.rows
  BY <1>2, FileParsed
<1>4. \A i \in DOMAIN saved.rows :
        /\ i \in DOMAIN rows /\ rows[i].name = saved.rows[i].name
        /\ rows[i].weight = saved.rows[i].weight /\ rows[i].cost = saved.rows[i].cost
        /\ rows[i].cat = saved.rows[i].cat
  BY <1>2, ExportRowRead
<1> HIDE DEF rows
<1>5. ASSUME NEW g \in shelf'.gear \ shelf.gear
      PROVE  \E x \in saved.holds :
               /\ Fold[g.name] = x.name /\ g.weight = x.weight /\ g.cost = x.cost
               /\ Lower[CatName(shelf'.cats, g.cat)] = x.cat
  <2>1. PICK i \in NewRows(rows, from) :
          /\ g.name = rows[i].name /\ g.weight = rows[i].weight /\ g.cost = rows[i].cost
          /\ FiledAs(shelf'.cats, g, rows[i])
    BY <1>1
  <2>2. i \in DOMAIN saved.rows
    BY <1>3 DEF NewRows
  <2>3. PICK x : /\ x = [name |-> Fold[saved.rows[i].name], weight |-> saved.rows[i].weight,
                         cost |-> saved.rows[i].cost, cat |-> Lower[saved.rows[i].cat]]
                 /\ x \in saved.holds
    BY <1>2, <2>2 DEF ExportOk
  <2>4. /\ x.name = Fold[rows[i].name] /\ x.weight = rows[i].weight /\ x.cost = rows[i].cost
        /\ x.cat = Lower[rows[i].cat]
    BY <1>4, <2>2, <2>3
  <2> QED
    BY <2>1, <2>3, <2>4 DEF FiledAs
<1>6. ASSUME from = shelf, NEW x \in saved.holds
      PROVE  \E g \in shelf'.gear :
               /\ Fold[g.name] = x.name /\ g.weight = x.weight /\ Lower[CatName(shelf'.cats, g.cat)] = x.cat
  <2>1. PICK i \in DOMAIN saved.rows :
          x = [name |-> Fold[saved.rows[i].name], weight |-> saved.rows[i].weight,
               cost |-> saved.rows[i].cost, cat |-> Lower[saved.rows[i].cat]]
    BY <1>2 DEF ExportOk
  <2>2. /\ x.name = Fold[rows[i].name] /\ x.weight = rows[i].weight
        /\ x.cat = Lower[rows[i].cat] /\ i \in DOMAIN rows
    BY <1>4, <2>1
  <2>3. CASE i \in NewRows(rows, from)
    <3>1. PICK g \in shelf'.gear :
            g.name = rows[i].name /\ g.weight = rows[i].weight /\ FiledAs(shelf'.cats, g, rows[i])
      BY <1>1, <2>3
    <3> QED
      BY <2>2, <3>1 DEF FiledAs
  <2>4. CASE i \notin NewRows(rows, from)
    <3>1. PICK ref : ref = CategoryRef(rows, from.cats, i) /\ Refers(rows, from.cats, i, ref)
      BY <1>2, <1>3, <2>2, RefFacts
    <3>2. PICK m \in from.gear : <<m.cat, Fold[m.name], m.weight>> = <<ref.id, Fold[rows[i].name], rows[i].weight>>
      BY <2>2, <2>4, <3>1 DEF NewRows, Matches, GearKey, CategoryRefId
    <3>3. m.cat = ref.id /\ Fold[m.name] = x.name /\ m.weight = x.weight /\ m \in shelf'.gear
      BY <1>1, <1>6, <2>2, <3>2
    <3>4. CASE rows[i].cat = NoText /\ ref = [kind |-> "none", id |-> NullId]
      <4>1. CatName(shelf'.cats, m.cat) = NoText
        BY <1>1, <3>3, <3>4 DEF CatName
      <4> QED
        BY <2>2, <3>3, <3>4, <4>1
    <3>5. CASE ref.id \in DOMAIN from.cats /\ Lower[from.cats[ref.id]] = Lower[rows[i].cat]
      <4>1. CatName(shelf'.cats, m.cat) = from.cats[ref.id]
        BY <1>1, <1>6, <3>3, <3>5 DEF CatName
      <4> QED
        BY <2>2, <3>3, <3>5, <4>1
    <3>6. CASE \E j \in NewRefs(rows, from.cats) : ref = [kind |-> "new", id |-> -j]
      <4>1. PICK j \in NewRefs(rows, from.cats) : ref = [kind |-> "new", id |-> -j]
        BY <3>6
      <4>2. j \in Nat \ {0} /\ m.cat \in Nat
        BY <1>2, <1>3, NewRefFacts DEF RowsOk, LibOk
      <4>3. m.cat = -j
        BY <3>3, <4>1
      <4> QED
        BY <4>2, <4>3
    <3> QED
      BY <3>1, <3>4, <3>5, <3>6 DEF Refers
  <2> QED
    BY <2>3, <2>4
<1> QED
  BY <1>5, <1>6 DEF Restored

\* An import makes what is missing and nothing twice, whatever the file; and an export brings
\* back what it held.
THEOREM ImportsOnceOnly ==
  CsvSpec => ImportsOnce
<1> DEFINE NoCopy == CsvLand => \A g \in shelf'.gear \ shelf.gear : \A h \in request.from.gear :
                       KnownCat(request.from, h) /\ ~ Twins(request.from.cats)
                         => ~ SameThing(shelf', g, request.from, h)
           About(g) == [name |-> Fold[g.name], weight |-> g.weight,
                        cat |-> Lower[CatName(shelf'.cats, g.cat)]]
           Of(x) == [name |-> x.name, weight |-> x.weight, cat |-> x.cat]
           Restores == CsvLand /\ request'.stage = "landed" /\ request.file = saved
                         => /\ \A g \in shelf'.gear \ shelf.gear :
                                 \E x \in saved.holds : About(g) = Of(x) /\ g.cost = x.cost
                            /\ request.from = shelf =>
                                 \A x \in saved.holds : \E g \in shelf'.gear : About(g) = Of(x)
<1>1. CsvInit => CsvInv
  BY CsvInvStarts
<1>2. CsvInv /\ [CsvNext]_csvVars => CsvInv'
  BY CsvInvKept
<1>3. CsvInv => NoCopy
  BY NoSecondCopyStep
<1>4. CsvInv => Restores
  <2> SUFFICES ASSUME CsvInv, CsvLand, request'.stage = "landed", request.file = saved
               PROVE  /\ \A g \in shelf'.gear \ shelf.gear :
                           \E x \in saved.holds : About(g) = Of(x) /\ g.cost = x.cost
                      /\ request.from = shelf =>
                           \A x \in saved.holds : \E g \in shelf'.gear : About(g) = Of(x)
    OBVIOUS
  <2>1. Restored
    BY RestoresStep
  <2>2. \A g, x : /\ Fold[g.name] = x.name /\ g.weight = x.weight
                  /\ Lower[CatName(shelf'.cats, g.cat)] = x.cat
                  => About(g) = Of(x)
    OBVIOUS
  <2> HIDE DEF About, Of
  <2> QED
    BY <2>1, <2>2 DEF Restored
<1>5. CsvInv /\ [CsvNext]_csvVars => [NoCopy]_csvVars /\ [Restores]_csvVars
  BY <1>3, <1>4
<1>6. CsvSpec => [][NoCopy]_csvVars /\ [][Restores]_csvVars
  <2> HIDE DEF NoCopy, Restores
  <2> QED
    BY <1>1, <1>2, <1>5, PTL DEF CsvSpec
<1> QED
  BY <1>6 DEF ImportsOnce, NoSecondCopy, RestoresExport
=============================================================================
