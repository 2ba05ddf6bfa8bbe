------------------------------ MODULE MCLibrary ------------------------------
(* Instances of what works on an account's gear and on its lists as a       *)
(* whole: the gear library, the dialogs over it, CSV import, the index of   *)
(* lists, and the packs of two lists as they are made, copied and deleted.  *)
(* These share no state, so one instance checks them side by side: in a     *)
(* behaviour one part moves, and the others stay as they start.             *)
EXTENDS ListWeights, GearDialogs, CsvImport, ListsIndex

VARIABLES
  part,                                                      \* the part that moves
  lists, rows, locs, loc, rank, worn, container, doomed      \* of PackCohorts

-----------------------------------------------------------------------------
(* ListWeights                                                              *)

MCGramsOf == [g1 |-> 1, g2 |-> 2, g3 |-> 4]

-----------------------------------------------------------------------------
(* CsvImport                                                                *)

Texts == {"", "a", "A", "f", "'f", "b", "k", "K", "m", "M", "x"}

MCFold == [t \in Texts |->
  CASE t = "A" -> "a" [] t = "K" -> "k" [] t = "M" -> "m" [] OTHER -> t]

\* "f" stands for a name a spreadsheet would take for a formula.
MCEscaped == [t \in Texts |-> IF t = "f" THEN "'f" ELSE t]

MCOwnGear ==
  [cats |-> [c \in {1} |-> "k"],
   gear |-> {[id |-> 2, name |-> "a", weight |-> 10, cost |-> 0, cat |-> 1],
             [id |-> 3, name |-> "f", weight |-> 28, cost |-> 5, cat |-> 0]}]

FileRow(name, cat, weight, unit, price, flagged) ==
  [name |-> name, cat |-> cat, weight |-> weight, unit |-> unit, cost |-> -1,
   price |-> price, worn |-> flagged, consumable |-> flagged]

\* A file of another program: names and categories that differ only in case from
\* each other and from the library's, a price too high, a row without a name.
MCFiles ==
  {[cols |-> {"price"}, holds |-> {},
    rows |-> <<FileRow("A", "K", 10, "g", 7, FALSE), FileRow("b", "m", 1, "oz", 12, TRUE),
               FileRow("b", "M", 1, "oz", 0, FALSE), FileRow("", "x", 5, "g", 0, FALSE)>>]}

-----------------------------------------------------------------------------
(* ListsIndex                                                               *)

\* There was a fourth list, at the place left free.
MCStartLists ==
  [l \in 1 .. 3 |-> [order |-> IF l = 3 THEN 3 ELSE l - 1, name |-> "p"]]

-----------------------------------------------------------------------------
(* PackCohorts: two lists with two items and one location each; the items   *)
(* with one number are the same gear.                                       *)

Packs == INSTANCE PackCohorts
  WITH List <- {1, 2}, Item <- {101, 102, 201, 202}, Food <- {}, Loc <- {121, 221},
       Gear <- {1, 2}, ListOf <- [x \in {101, 102, 121, 201, 202, 221} |-> x \div 100],
       GearOf <- [i \in {101, 102, 201, 202} |-> i % 100],
       RankMax <- 1, ItemCap <- 2, FoodCap <- 0, LocCap <- 1

packVars == <<lists, rows, locs, loc, rank, worn, container, doomed>>

PackInv == Packs!PackInv

-----------------------------------------------------------------------------
(* Side by side                                                             *)

MCInit ==
  /\ part \in {"gear", "dialogs", "import", "index", "packs"}
  /\ LibInit /\ DialogsInit /\ CsvInit /\ IndexInit /\ Packs!Init
  /\ cats = {"c1"} /\ gear = [g1 |-> "c1", g2 |-> "none"]
  /\ part # "import" => importing = "gear"

\* Of the reads, the list's may fail; no rows are asked for again because they have aged.
\* The user goes to and from the gear page while no read of its rows is in flight, to a list
\* that is held when it is marked, enters select mode while no write is in flight, and ticks
\* nothing for a write that the bound would not let begin.  A bulk move is to a category.
GearMove ==
  /\ part = "gear" /\ LibNext
  /\ \A k \in GearPage :
       /\ ~ FailRows(k)
       /\ mounted' # mounted /\ reads'[k] # reads[k] => k \in marked
  /\ mounted' # mounted => GearPage \in {mounted, mounted'} /\ \A k \in GearPage : reads[k] = NoRead
  /\ mounted' = ListPage /\ mounted # ListPage => "list" \in marked \/ "list" \notin DOMAIN held
  /\ \A j \in libJobs' : j.op = "move" /\ j.bulk => j.to # NoCat
  /\ selecting' /\ ~ selecting => libJobs = {}
  /\ libClock = LibWrites => ticked' \subseteq ticked /\ (selecting' => selecting)

DialogsMove == part = "dialogs" /\ DialogsNext
\* Two imports, or one and another device's write.
ImportMove  == part = "import"  /\ CsvNext /\ tries' + others' > 0
\* The first list is the one that is renamed or copied.
IndexMove ==
  part = "index" /\ IndexNext /\ \A j \in jobs' : j.kind \in {"rename", "duplicate"} => j.id = 1
\* Worn is, if any, the gear that both lists have as their first item.
PacksMove   == part = "packs"   /\ Packs!Next /\ worn' \subseteq {101, 201}

MCNext ==
  \/ GearMove /\ UNCHANGED <<part, dialogVars, csvVars, indexVars, packVars>>
  \/ DialogsMove /\ UNCHANGED <<part, libVars, csvVars, indexVars, packVars>>
  \/ ImportMove /\ UNCHANGED <<part, libVars, dialogVars, indexVars, packVars>>
  \/ IndexMove /\ UNCHANGED <<part, libVars, dialogVars, csvVars, packVars>>
  \/ PacksMove /\ UNCHANGED <<part, libVars, dialogVars, csvVars, indexVars>>

MCSpec == MCInit /\ [][MCNext]_<<part, libVars, dialogVars, csvVars, indexVars, packVars>>
=============================================================================
