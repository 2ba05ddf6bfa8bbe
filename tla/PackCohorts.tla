----------------------------- MODULE PackCohorts -----------------------------
(***************************************************************************)
(* The packing half of a list: which bag every list item and food item is  *)
(* in, and the rank it has there.                                          *)
(*                                                                         *)
(* A COHORT is the union of the list_items and list_food_items rows that   *)
(* share a list and a packing location; the NULL location is the           *)
(* Unassigned cohort.  Each table has its own unique index over (list,     *)
(* location, pack_sort_order), and every writer computes the ranks it      *)
(* writes itself, so the module asks whether those computations can ever   *)
(* run into the indexes, leave the rank space, lose a row's bag, or put a  *)
(* bag inside itself.                                                      *)
(*                                                                         *)
(* The server has one SQLite connection and every repository method is one *)
(* synchronous immediate transaction, so a method is one step.  The        *)
(* exception is a statement that deletes list items: SQLite deletes the    *)
(* rows one by one and runs the delete triggers of the bags they back in   *)
(* between, and each of those row deletions is a step here (doomed).       *)
(*                                                                         *)
(* Refused calls change nothing, so a refusal is an action that is not     *)
(* enabled.  The unique indexes are NOT guards of this model: their never  *)
(* being hit is what CohortRanksUnique states.                             *)
(***************************************************************************)
EXTENDS Integers, FiniteSets

CONSTANTS
  List,      \* list ids
  Item,      \* list_items ids (a piece of gear on a list)
  Food,      \* list_food_items ids
  Loc,       \* packing_locations ids, in rowid (creation) order
  Gear,      \* gear library ids
  ListOf,    \* the list each item, food and location id belongs to
  GearOf,    \* the gear row each list item refers to
  RankMax,   \* PACK_RANK_MAX, the largest committed rank
  ItemCap,   \* LIST_ITEM_CAP, list items per list
  FoodCap,   \* FOOD_ITEM_CAP, food items per list
  LocCap     \* PACKING_LOCATION_CAP, locations per list

Row == Item \cup Food

\* SQL NULL: no location (Unassigned) and no container item.
NULL == 0

\* Ids are numbers because the display order breaks its last tie by id.
ASSUME IdsAssumption ==
  /\ IsFiniteSet(Item) /\ IsFiniteSet(Food) /\ IsFiniteSet(Loc)
  /\ Item \cup Food \cup Loc \subseteq Nat \ {0}
  /\ Item \cap Food = {}
  /\ Item \cap Loc = {}
  /\ Food \cap Loc = {}

ASSUME OwnersAssumption ==
  /\ ListOf \in [Item \cup Food \cup Loc -> List]
  /\ GearOf \in [Item -> Gear]

\* The caps leave room for every row of a list in one cohort: 300 + 200
\* rows against a rank space of a billion.
ASSUME CapsAssumption ==
  /\ RankMax \in Nat /\ ItemCap \in Nat /\ FoodCap \in Nat /\ LocCap \in Nat
  /\ ItemCap + FoodCap <= RankMax + 1

VARIABLES
  lists,      \* lists that exist
  rows,       \* list items and food items that exist
  locs,       \* packing locations that exist
  loc,        \* packing_location_id of each row
  rank,       \* pack_sort_order of each row
  worn,       \* list items with is_worn set
  container,  \* container_list_item_id of each location
  doomed      \* list items the running DELETE statement has yet to delete

vars == <<lists, rows, locs, loc, rank, worn, container, doomed>>

-----------------------------------------------------------------------------
(* Cohorts and the display order                                           *)

SameTable(r, s) == (r \in Item) = (s \in Item)

SameCohort(r, s) == ListOf[r] = ListOf[s] /\ loc[r] = loc[s]

\* The two cohort scans of a bag, or of Unassigned: gear and food together.
Cohort(l, p) == {r \in rows : ListOf[r] = l /\ loc[r] = p}

\* unionOrder: rank, then gear before food, then id.
Before(r, s) ==
  \/ rank[r] < rank[s]
  \/ rank[r] = rank[s] /\ r \in Item /\ s \in Food
  \/ rank[r] = rank[s] /\ SameTable(r, s) /\ r < s

\* Fault: rows numbered by id instead of in display order.
PlaceById(r, S) == Cardinality({s \in S : s < r})

\* The place of r in S, counted from 0.  SQL's row_number() - 1.
RowNumber(r, S) == Cardinality({s \in S : Before(s, r)})

\* n is coalesce(max(pack_sort_order) + 1, 0) over the rows of S.
IsNextRank(n, S) ==
  /\ \A r \in S : rank[r] < n
  /\ n = 0 \/ \E r \in S : rank[r] = n - 1

\* Fault: worn rows, which the packing view does not show, left out of the scan.
SkipWornRank(n, l, p) ==
  n \in 0 .. RankMax /\ IsNextRank(n, Cohort(l, p) \ worn)

\* Fault: only the gear half of the cohort scanned.
GearOnlyRank(n, l, p) ==
  n \in 0 .. RankMax /\ IsNextRank(n, Cohort(l, p) \cap Item)

\* The rank an arrival takes in a cohort: one past the union's maximum, worn
\* rows counted.  No such n up to RankMax is the pack_rank_exhausted answer.
IsNextUnionPackRank(n, l, p) == n \in 0 .. RankMax /\ IsNextRank(n, Cohort(l, p))

RowsOf(l) == {r \in rows : ListOf[r] = l}
LocsOf(l) == {p \in locs : ListOf[p] = l}

\* No statement that deletes list items is half way through.
Idle == doomed = {}

-----------------------------------------------------------------------------
(* Nesting: a location may be backed by a list item (a bag), which may     *)
(* itself lie in a location.                                               *)

\* A holds, with every item, the item whose bag that item lies in.
ClosedUnderParent(A) ==
  \A a \in A : loc[a] # NULL /\ container[loc[a]] # NULL
                 => container[loc[a]] \in A

\* The recursive container_ancestors query: the least set of items that holds
\* p's own container item and is closed under parent.
ContainerAncestors(p) ==
  {a \in Item : \A A \in SUBSET Item :
     (ClosedUnderParent(A) /\ (container[p] # NULL => container[p] \in A))
       => a \in A}

-----------------------------------------------------------------------------
(* Adding rows                                                             *)

AddRow(r) ==
  /\ Idle
  /\ ListOf[r] \in lists
  /\ r \notin rows
  /\ \E n \in 0 .. RankMax :
       /\ IsNextUnionPackRank(n, ListOf[r], NULL)
       /\ rank' = [rank EXCEPT ![r] = n]
  /\ rows' = rows \cup {r}
  /\ loc' = [loc EXCEPT ![r] = NULL]
  /\ UNCHANGED <<lists, locs, container, doomed>>

\* addExisting and quickAdd; only a quick-added item can arrive worn.
AddItem(i) ==
  /\ Cardinality(RowsOf(ListOf[i]) \cap Item) < ItemCap
  /\ AddRow(i)
  /\ worn' \in {worn, worn \cup {i}}

AddFood(f) ==
  /\ Cardinality(RowsOf(ListOf[f]) \cap Food) < FoodCap
  /\ AddRow(f)
  /\ UNCHANGED worn

-----------------------------------------------------------------------------
(* Moving and patching rows                                                *)

\* A patch to location p, or one that does not name a location (p is then
\* the row's own): the rank is kept in place and rebased on a move.
Assign(r, p) ==
  /\ Idle
  /\ r \in rows
  /\ \/ p = loc[r] /\ UNCHANGED rank
     \/ /\ p # loc[r]
        /\ \E n \in 0 .. RankMax :
             /\ IsNextUnionPackRank(n, ListOf[r], p)
             /\ rank' = [rank EXCEPT ![r] = n]
  /\ loc' = [loc EXCEPT ![r] = p]
  /\ UNCHANGED <<lists, rows, locs, container, doomed>>

\* Fault: only the bag's own item is refused, not the items that one lies in.
DirectContainerOnly(i, p) ==
  p # NULL => /\ p \in locs
              /\ ListOf[p] = ListOf[i]
              /\ container[p] # i

\* The packing location gate of a list item's update.
ItemMayEnter(i, p) ==
  p # NULL => /\ p \in locs
              /\ ListOf[p] = ListOf[i]
              /\ i \notin ContainerAncestors(p)

UpdateItem(i, p, nowWorn) ==
  /\ ItemMayEnter(i, p)
  /\ Assign(i, p)
  /\ worn' = IF nowWorn THEN worn \cup {i} ELSE worn \ {i}

\* Food cannot hold anything, so its location check is same-list only.
UpdateFood(f, p) ==
  /\ p # NULL => p \in locs /\ ListOf[p] = ListOf[f]
  /\ Assign(f, p)
  /\ UNCHANGED worn

-----------------------------------------------------------------------------
(* Reordering a cohort                                                     *)

\* validateHalf: within a table the payload's ranks are distinct and none is
\* the rank of a row of the cohort that the payload leaves alone.
IndexSafe(to) ==
  \A r \in DOMAIN to, s \in rows :
    s # r /\ SameTable(r, s) /\ SameCohort(r, s)
      => to[r] # IF s \in DOMAIN to THEN to[s] ELSE rank[s]

\* Fault: the check that a named row is not worn dropped.
ReorderWornToo(T) ==
  /\ Idle
  /\ T # {} /\ T \subseteq rows
  /\ \A r, s \in T : SameCohort(r, s)
  /\ \E to \in [T -> 0 .. RankMax] :
       /\ IndexSafe(to)
       /\ rank' = [r \in Row |-> IF r \in T THEN to[r] ELSE rank[r]]
  /\ UNCHANGED <<lists, rows, locs, loc, worn, container, doomed>>

\* The payload names the rows T and, in to, the rank it wants for each.
ReorderPack(T) ==
  /\ Idle
  /\ T # {}
  /\ T \subseteq rows
  /\ T \cap worn = {}
  /\ \A r, s \in T : SameCohort(r, s)
  /\ \E to \in [T -> 0 .. RankMax] :
       /\ IndexSafe(to)
       /\ rank' = [r \in Row |-> IF r \in T THEN to[r] ELSE rank[r]]
  /\ UNCHANGED <<lists, rows, locs, loc, worn, container, doomed>>

-----------------------------------------------------------------------------
(* Locations                                                               *)

\* c is the item that backs the location, NULL for a named one.  rowids grow,
\* so a location comes after every location its list has.
CreateLocation(p, c) ==
  /\ Idle
  /\ ListOf[p] \in lists
  /\ p \notin locs
  /\ \A q \in LocsOf(ListOf[p]) : q < p
  /\ Cardinality(LocsOf(ListOf[p])) < LocCap
  /\ c # NULL => /\ c \in rows \cap Item
                 /\ ListOf[c] = ListOf[p]
                 /\ \A q \in locs : container[q] # c
  /\ locs' = locs \cup {p}
  /\ container' = [container EXCEPT ![p] = c]
  /\ UNCHANGED <<lists, rows, loc, rank, worn, doomed>>

\* Fault: room tested for the first arrival only.
RoomForOne(r, U, S, base) ==
  IF S = {} \/ base <= RankMax
    THEN IF r \in S THEN base + RowNumber(r, S) ELSE rank[r]
    ELSE CASE r \in U -> RowNumber(r, U)
           [] r \in S -> Cardinality(U) + RowNumber(r, S)
           [] OTHER   -> rank[r]

\* Fault: the gear of the bag appended before its food, not merged with it.
HalvesNotMerged(r, U, S, base) ==
  IF r \notin S THEN rank[r]
  ELSE IF r \in Item THEN base + RowNumber(r, S \cap Item)
  ELSE base + Cardinality(S \cap Item) + RowNumber(r, S \cap Food)

\* The rank removeInTransaction gives row r, when bag S is emptied into
\* Unassigned U: S is appended at base in display order, or, when that would
\* leave the rank space, U and then S are numbered densely from 0.
AppendOrDense(r, U, S, base) ==
  IF S = {} \/ base + Cardinality(S) - 1 <= RankMax
    THEN IF r \in S THEN base + RowNumber(r, S) ELSE rank[r]
    ELSE CASE r \in U -> RowNumber(r, U)
           [] r \in S -> Cardinality(U) + RowNumber(r, S)
           [] OTHER   -> rank[r]

RemoveLocation(p) ==
  LET U == Cohort(ListOf[p], NULL)
      S == Cohort(ListOf[p], p)
  IN  /\ Idle
      /\ p \in locs
      /\ \E base \in 0 .. RankMax + 1 :
           /\ IsNextRank(base, U)
           /\ rank' = [r \in Row |-> AppendOrDense(r, U, S, base)]
      /\ loc' = [r \in Row |-> IF r \in S THEN NULL ELSE loc[r]]
      /\ locs' = locs \ {p}
      /\ container' = [container EXCEPT ![p] = NULL]
      /\ UNCHANGED <<lists, rows, worn, doomed>>

-----------------------------------------------------------------------------
(* Deleting rows                                                           *)

DeleteFood(f) ==
  /\ Idle
  /\ f \in rows
  /\ rows' = rows \ {f}
  /\ loc' = [loc EXCEPT ![f] = NULL]
  /\ rank' = [rank EXCEPT ![f] = 0]
  /\ UNCHANGED <<lists, locs, worn, container, doomed>>

\* One DELETE statement starts on the rows D: a list item, or every list item
\* of some gear rows (gear remove and bulkDelete).
StartDelete(D) ==
  /\ Idle
  /\ D # {}
  /\ doomed' = D
  /\ UNCHANGED <<lists, rows, locs, loc, rank, worn, container>>

DeleteItem(i) == i \in rows /\ StartDelete({i})
DeleteGear(G) == StartDelete({i \in rows \cap Item : GearOf[i] \in G})

\* The rank the packing_locations_rerank triggers give row r of a table, when
\* the location of rows S goes away and U are the table's Unassigned rows: S
\* keeps its own ranks shifted by base, or the half is numbered densely.
Rerank(r, U, S, base) ==
  IF \A s \in S : base + rank[s] <= RankMax
    THEN IF r \in S THEN base + rank[r] ELSE rank[r]
    ELSE CASE r \in U -> RowNumber(r, U)
           [] r \in S -> Cardinality(U) + RowNumber(r, S)
           [] OTHER   -> rank[r]

\* SQLite deletes list item i: the row goes, then by foreign key the location
\* it backs, whose BEFORE DELETE triggers first empty it into Unassigned, one
\* table at a time.
CascadeItem(i) ==
  LET left == rows \ {i}
      P    == {p \in locs : container[p] = i}
      U(T) == {r \in left \cap T : ListOf[r] = ListOf[i] /\ loc[r] = NULL}
      S(T) == {r \in left \cap T : loc[r] \in P}
  IN  /\ i \in doomed
      /\ doomed' = doomed \ {i}
      /\ rows' = left
      /\ worn' = worn \ {i}
      /\ \E g, f \in 0 .. RankMax + 1 :
           /\ IsNextRank(g, U(Item))
           /\ IsNextRank(f, U(Food))
           /\ rank' = [r \in Row |->
                CASE r = i      -> 0
                  [] r \in Food -> Rerank(r, U(Food), S(Food), f)
                  [] OTHER      -> Rerank(r, U(Item), S(Item), g)]
      /\ loc' = [r \in Row |->
                   IF r = i \/ r \in S(Item) \cup S(Food) THEN NULL ELSE loc[r]]
      /\ locs' = locs \ P
      /\ container' = [p \in Loc |-> IF p \in P THEN NULL ELSE container[p]]
      /\ UNCHANGED lists

-----------------------------------------------------------------------------
(* Lists                                                                   *)

\* A new list whose items, the rows of ord, are all Unassigned with dense
\* ranks, those of W worn.
NewList(l, ord, W) ==
  /\ Idle
  /\ l \notin lists
  /\ lists' = lists \cup {l}
  /\ rows' = rows \cup DOMAIN ord
  /\ rank' = [r \in Row |-> IF r \in DOMAIN ord THEN ord[r] ELSE rank[r]]
  /\ loc' = [r \in Row |-> IF r \in DOMAIN ord THEN NULL ELSE loc[r]]
  /\ worn' = worn \cup W
  /\ UNCHANGED <<locs, container, doomed>>

\* The numberings 0, 1, 2 ... of a set of items of list l.
DenseOrders(l) ==
  UNION {{ord \in [T -> 0 .. Cardinality(T) - 1] :
            \A r, s \in T : ord[r] = ord[s] => r = s} :
         T \in {T \in SUBSET Item : /\ \A i \in T : ListOf[i] = l
                                    /\ Cardinality(T) <= ItemCap}}

CreateList(l)               == NewList(l, [r \in {} |-> 0], {})
CreateFromSelection(l, ord) == NewList(l, ord, {})
ImportFromCsv(l, ord, W)    == NewList(l, ord, W)

\* The copies of list l's rows and locations: each new id of list m is given
\* the id it copies, table by table.
Copies(l, m) ==
  UNION {{orig \in [T -> RowsOf(l) \cup LocsOf(l)] :
            /\ \A x \in RowsOf(l) \cup LocsOf(l) : \E y \in T : orig[y] = x
            /\ \A x, y \in T : orig[x] = orig[y] => x = y
            /\ \A y \in T : /\ y \in Item <=> orig[y] \in Item
                            /\ y \in Food <=> orig[y] \in Food} :
         T \in SUBSET {y \in Row \cup Loc : ListOf[y] = m}}

\* Fault: the source list's location kept.
NotRepointed(x, orig) == x

\* remapPackingLocationId, and the same look-up for container items.
CopyOf(x, orig) ==
  IF x = NULL THEN NULL ELSE CHOOSE y \in DOMAIN orig : orig[y] = x

\* Ranks are copied verbatim, locations and containers re-pointed.
Duplicate(l, m, orig) ==
  LET T == DOMAIN orig
  IN  /\ Idle
      /\ l \in lists
      /\ m \notin lists
      /\ lists' = lists \cup {m}
      /\ rows' = rows \cup (T \cap Row)
      /\ locs' = locs \cup (T \cap Loc)
      /\ rank' = [r \in Row |-> IF r \in T THEN rank[orig[r]] ELSE rank[r]]
      /\ loc' = [r \in Row |-> IF r \in T THEN CopyOf(loc[orig[r]], orig) ELSE loc[r]]
      /\ worn' = worn \cup {i \in T \cap Item : orig[i] \in worn}
      /\ container' = [p \in Loc |-> IF p \in T THEN CopyOf(container[orig[p]], orig)
                                         ELSE container[p]]
      /\ UNCHANGED doomed

\* Deleting list l makes SQLite delete its locations first, in rowid order,
\* with the list's items still there.  A location's gear trigger deletes the
\* items in it, and with each the location that item backs; the trigger does
\* not run again for such a nested location, whose items therefore stay and
\* have their location set to NULL, ranks kept.
Emptied(l) ==
  LET byTrigger[p \in Loc] ==
        ~ \E q \in LocsOf(l) : /\ q < p
                               /\ container[p] # NULL
                               /\ loc[container[p]] = q
                               /\ byTrigger[q]
  IN  {p \in LocsOf(l) : byTrigger[p]}

\* The delete fails when two list items that are in Unassigned together on the
\* way hold the same rank.
CascadeCollides(l) ==
  LET adrift == {r \in RowsOf(l) \cap Item : loc[r] \notin Emptied(l)}
  IN  \E r, s \in adrift : r # s /\ rank[r] = rank[s]

RemoveList(l) ==
  /\ Idle
  /\ l \in lists
  /\ ~ CascadeCollides(l)
  /\ lists' = lists \ {l}
  /\ rows' = rows \ RowsOf(l)
  /\ locs' = locs \ LocsOf(l)
  /\ loc' = [r \in Row |-> IF r \in RowsOf(l) THEN NULL ELSE loc[r]]
  /\ rank' = [r \in Row |-> IF r \in RowsOf(l) THEN 0 ELSE rank[r]]
  /\ worn' = worn \ RowsOf(l)
  /\ container' = [p \in Loc |-> IF p \in LocsOf(l) THEN NULL ELSE container[p]]
  /\ UNCHANGED doomed

-----------------------------------------------------------------------------

Init ==
  /\ lists = {} /\ rows = {} /\ locs = {} /\ worn = {} /\ doomed = {}
  /\ loc = [r \in Row |-> NULL]
  /\ rank = [r \in Row |-> 0]
  /\ container = [p \in Loc |-> NULL]

Next ==
  \/ \E i \in Item : AddItem(i) \/ DeleteItem(i) \/ CascadeItem(i)
  \/ \E f \in Food : AddFood(f) \/ DeleteFood(f)
  \/ \E i \in Item, p \in Loc \cup {NULL}, w \in BOOLEAN : UpdateItem(i, p, w)
  \/ \E f \in Food, p \in Loc \cup {NULL} : UpdateFood(f, p)
  \/ \E T \in SUBSET rows : ReorderPack(T)
  \/ \E p \in Loc, c \in Item \cup {NULL} : CreateLocation(p, c)
  \/ \E p \in Loc : RemoveLocation(p)
  \/ \E G \in SUBSET Gear : DeleteGear(G)
  \/ \E l \in List : CreateList(l) \/ RemoveList(l)
  \/ \E l \in List \ lists : \E ord \in DenseOrders(l) :
       \/ CreateFromSelection(l, ord)
       \/ \E W \in SUBSET DOMAIN ord : ImportFromCsv(l, ord, W)
  \/ \E l \in lists, m \in List \ lists : \E orig \in Copies(l, m) : Duplicate(l, m, orig)

Spec == Init /\ [][Next]_vars

-----------------------------------------------------------------------------
(* Properties                                                              *)

TypeOK ==
  /\ lists \subseteq List
  /\ rows \subseteq Row
  /\ locs \subseteq Loc
  /\ loc \in [Row -> Loc \cup {NULL}]
  /\ rank \in [Row -> Int]
  /\ worn \subseteq rows \cap Item
  /\ container \in [Loc -> Item \cup {NULL}]
  /\ doomed \subseteq rows \cap Item

\* The unique cohort indexes of both tables (list_items_pack_cohort_uq,
\* list_items_pack_unassigned_uq and the two food ones) are never hit: no
\* writer leaves two rows of a table on one rank of one cohort.
CohortRanksUnique ==
  \A r, s \in rows :
    r # s /\ SameTable(r, s) /\ SameCohort(r, s) => rank[r] # rank[s]

\* Committed ranks are always in 0..PACK_RANK_MAX, location deletes and delete
\* triggers included: neither can trip the rank range triggers.
RanksInRange == \A r \in rows : rank[r] \in 0 .. RankMax

\* A row's location and a location's container item exist and are on the same
\* list; no item backs two locations; rows and locations have their list.
ReferencesHold ==
  /\ \A x \in rows \cup locs : ListOf[x] \in lists
  /\ \A r \in rows : loc[r] # NULL => loc[r] \in locs /\ ListOf[loc[r]] = ListOf[r]
  /\ \A p \in locs : container[p] # NULL =>
       container[p] \in rows \cap Item /\ ListOf[container[p]] = ListOf[p]
  /\ \A p, q \in locs : container[p] = container[q] /\ container[p] # NULL => p = q

\* No bag is inside itself, at any depth: every set of items has one that does
\* not lie in a bag of the set.
NestingAcyclic ==
  \A A \in SUBSET (rows \cap Item) : A # {} =>
    \E a \in A : loc[a] = NULL \/ container[loc[a]] \notin A

\* No list holds more rows than the cap triggers allow, however they came.
RowCaps ==
  \A l \in List : /\ Cardinality(RowsOf(l) \cap Item) <= ItemCap
                  /\ Cardinality(RowsOf(l) \cap Food) <= FoodCap

\* The inductive invariant: a rank is safe only while the references hold, the
\* ranks are in range and the cohorts fit the rank space.
PackInv ==
  /\ TypeOK
  /\ ReferencesHold
  /\ CohortRanksUnique
  /\ RowCaps
  /\ RanksInRange
  /\ NestingAcyclic

\* Every list its owner can see can be deleted.
ListsDeletable == Idle => \A l \in lists : ~ CascadeCollides(l)

Reordering == UNCHANGED <<lists, rows, locs, loc, worn, container, doomed>>

\* Only a pack reorder changes the order in which two rows of one table are
\* shown while they stay together, in their bag or moved out of it with it.
TableOrderKept ==
  [][Reordering \/
     \A r, s \in rows \cap rows' :
       SameTable(r, s) /\ SameCohort(r, s) /\ SameCohort(r, s)' /\ Before(r, s)
         => Before(r, s)']_vars

\* Deleting a location keeps the whole display order, gear and food merged, of
\* its contents and of Unassigned; so does every other call but a reorder.
UnionOrderKept ==
  [][Reordering \/ ~ Idle \/
     \A r, s \in rows \cap rows' :
       SameCohort(r, s) /\ SameCohort(r, s)' /\ Before(r, s) => Before(r, s)']_vars

\* A row that comes into a cohort is shown after the rows that were there: all
\* of them, or those of its table when a delete trigger brings it.
ArrivalsLast ==
  [][\A r \in rows', s \in rows \cap rows' :
       (r \notin rows \/ loc'[r] # loc[r]) /\ loc'[s] = loc[s]
         => (SameCohort(r, s)' /\ (Idle \/ SameTable(r, s)) => Before(s, r)')]_vars

\* A worn row's slot stays reserved: its rank changes only when it is moved or
\* when a location delete numbers Unassigned afresh.
WornSlotReserved ==
  [][\A i \in worn \cap worn' :
       rank'[i] # rank[i] => loc'[i] # loc[i] \/ (loc[i] = NULL /\ locs' # locs)]_vars

\* What the user arranged stays arranged: no call but a reorder changes the order
\* in which the rows of a bag are shown, and what comes into it comes last.
PackOrderKept == UnionOrderKept /\ ArrivalsLast
=============================================================================
