------------------------------ MODULE PackDrag ------------------------------
(***************************************************************************)
(* Arranging a list by hand: the drags and the move menus of the list page *)
(* (use-list-dnd.ts) and the pure planners behind them (packing-dnd.ts,    *)
(* list-reorder-plan.ts, pack-rows.ts, packing-tree.ts), the optimistic    *)
(* writes they start and the server's answers.                             *)
(*                                                                         *)
(* A drop is planned from what the page shows, which is not always what    *)
(* the server holds: filters and worn gear hide rows whose ranks stay      *)
(* taken, a bag that is being deleted is gone from the page before its     *)
(* rows have moved, and until the locations have loaded the page does not  *)
(* know the bags at all.  The module asks whether the writes planned there *)
(* are ones the server takes, whether the page ends up showing what was    *)
(* dropped, and what a refused write leaves behind.                        *)
(*                                                                         *)
(* A read takes the server's state when it lands; reads that overtake      *)
(* writes are the subject of ListCache.  What the server does with a       *)
(* write is the part of PackCohorts a page can see.                        *)
(***************************************************************************)
EXTENDS Sorting

CONSTANTS
  DragGear,  \* list items (numbers: the display order breaks ties by id)
  DragFood,  \* food items
  DragBag,   \* packing locations
  Backs,     \* the list item a location is backed by, or Nowhere
  WornGear,  \* list items marked worn
  CatOf,     \* the category of each list item's gear
  DragStart, \* what the server may hold when the page opens
  RankCap,   \* PACK_RANK_MAX, the largest rank
  TickRow,   \* bound: rows whose checkbox is used
  DragWrites \* bound: writes started

Nowhere == 0   \* Unassigned, and "no backing item"

DragRow == DragGear \cup DragFood

\* Where the rows are, where each stands in its bag and in the document, the
\* rows ticked off, and the locations there are.
Placement ==
  [loc : [DragRow -> DragBag \cup {Nowhere}],
   rank : [DragRow -> Nat], order : [DragGear -> Nat],
   packed : SUBSET DragRow, bags : SUBSET DragBag]

\* The table a row is of.
Half(r) == IF r \in DragGear THEN "gear" ELSE "food"

\* The foreign key of pack_location_id: a row is in a bag of the list, or in none.
Rooted(s) == \A r \in DragRow : s.loc[r] \in s.bags \cup {Nowhere}

\* The unique index of each table: no two of its rows have one rank in one bag.
RanksApart(s) ==
  \A r, q \in DragRow : r # q /\ Half(r) = Half(q) /\ s.loc[r] = s.loc[q] => s.rank[r] # s.rank[q]

ASSUME DragAssumption ==
  /\ IsFiniteSet(DragRow) /\ DragRow \subseteq Nat \ {Nowhere} /\ IsFiniteSet(DragBag)
  /\ DragGear \cap DragFood = {}
  /\ Nowhere \notin DragBag
  /\ Backs \in [DragBag -> DragGear \cup {Nowhere}]
  /\ \A b, c \in DragBag : Backs[b] = Backs[c] /\ b # c => Backs[b] = Nowhere
  /\ WornGear \subseteq DragGear
  /\ DOMAIN CatOf = DragGear
  /\ DragStart \subseteq Placement /\ \A s \in DragStart : Rooted(s) /\ RanksApart(s)
  /\ RankCap \in Nat /\ DragWrites \in Nat /\ TickRow \subseteq DragRow

VARIABLES
  kept,       \* what the server holds: loc, rank, order, packed, bags
  seen,       \* what the page's caches hold, the same fields
  bagsKnown,  \* the locations query has answered
  viewing,    \* "edit", "pack", or "unpacked": the Pack view with its filter on
  reorder,    \* the reorder write under way, or None
  moving,     \* the move under way of each row, or None
  lastMoved,  \* the list item of the latest move call, while it is under way
  removing,   \* the deletion of a location under way, or None
  ticking,    \* the Packed checkbox write under way, or None
  due,        \* reads under way: "gear", "food", "bags"
  dragsLeft   \* writes the bound leaves

dragVars == <<kept, seen, bagsKnown, viewing, reorder, moving,
              lastMoved, removing, ticking, due, dragsLeft>>

None == [is |-> "none"]

-----------------------------------------------------------------------------
(* What the page shows                                                     *)

\* The locations the page can render; none until the query has answered.
PageBags == IF bagsKnown THEN seen.bags ELSE {}

\* A row in a bag that is not rendered shows under Unassigned.
Normalize(r) == IF seen.loc[r] \in PageBags THEN seen.loc[r] ELSE Nowhere

\* deriveContainerItemIds: a bag's own item is its section's header.
Headers == {Backs[b] : b \in PageBags} \ {Nowhere}

PackFiltered == IF viewing = "unpacked" THEN seen.packed ELSE {}

InPack == viewing \in {"pack", "unpacked"}

\* Rows the packing planner must not count: headers, worn gear, and what the
\* filter hides.
ReorderExclusions == Headers \cup WornGear \cup PackFiltered

\* comparePackRows: rank, then gear before food, then id.
ShownBefore(s, r, q) ==
  \/ s.rank[r] < s.rank[q]
  \/ s.rank[r] = s.rank[q] /\ r \in DragGear /\ q \in DragFood
  \/ s.rank[r] = s.rank[q] /\ (r \in DragGear <=> q \in DragGear) /\ r < q

\* The rows of S as one sequence in display order.
InRankOrder(s, S) == InOrder(S, {p \in S \X S : ShownBefore(s, p[1], p[2])})

\* unionPackRows
UnionPackRows(S) == InRankOrder(seen, S)

\* Rows in the order the document lists them.
DocumentRows(S) ==
  InOrder(S, {p \in S \X S : \/ seen.order[p[1]] < seen.order[p[2]]
                             \/ seen.order[p[1]] = seen.order[p[2]] /\ p[1] < p[2]})

\* buildPackingTree cuts the tree at a worn bag, whose item it leaves out.
LiesIn(s, inner, outer, cut) ==
  /\ Backs[inner] # Nowhere /\ Backs[inner] \notin cut
  /\ s.loc[Backs[inner]] = outer

\* The locations of B below and including b.
Subtree(s, B, b, cut) ==
  {c \in B : \A A \in SUBSET B :
     (b \in A /\ \A x \in A, y \in B : LiesIn(s, y, x, cut) => y \in A)
       => c \in A}

\* Fault: only the bag itself, not the bags that lie in it.
OwnBagOnly(r) == {b \in PageBags : Backs[b] = r}

\* containerItemIdByLocation and buildContainerMoveExclusions: where a bag's
\* item may not go.
ContainerMoveExclusions(r) ==
  UNION {Subtree(seen, PageBags, b, WornGear) : b \in OwnBagOnly(r)}

-----------------------------------------------------------------------------
(* Planning                                                                *)

\* The values of some rows put in place of what f has for them.
Patched(f, values) == [r \in DOMAIN f |-> IF r \in DOMAIN values THEN values[r] ELSE f[r]]

Ranks(S) == {seen.rank[r] : r \in S}

\* The i-th number that is not in avoid.
DenseSlot(i, avoid) ==
  CHOOSE n \in 0 .. i + Cardinality(avoid) :
    n \notin avoid /\ Cardinality((0 .. n - 1) \ avoid) = i - 1

\* Fault: a tie is permuted like any other cohort.
PermuteAnyway(rows, avoid) == [i \in 1 .. Len(rows) |-> seen.rank[rows[i]]]

\* assignUnionPackRankSlots: the cohort's own ranks in ascending order, or,
\* when two rows tie or a hidden row holds one of them, dense numbers around
\* the hidden rows'.  rows is in display order, which is rank order.
RankSlots(rows, avoid) ==
  IF Cardinality(Ranks(Range(rows))) < Len(rows) \/ Ranks(Range(rows)) \cap avoid # {}
  THEN [i \in 1 .. Len(rows) |-> DenseSlot(i, avoid)]
  ELSE [i \in 1 .. Len(rows) |-> seen.rank[rows[i]]]

\* The value each row gets when the slots are handed out along moved.
HandOut(moved, slots) ==
  [r \in Range(moved) |-> slots[CHOOSE i \in 1 .. Len(moved) : moved[i] = r]]

\* Fault: the ranks of hidden rows are free to take.
AvoidNothing(p, excluded) == {}

\* The ranks the cohort's hidden rows keep.
AvoidRanks(p, excluded) == Ranks({r \in excluded : Normalize(r) = p})

\* The visible rows of the cohort that r is shown in.
VisibleCohort(r, excluded) ==
  {q \in DragRow \ excluded : Normalize(q) = Normalize(r)}

CanReorder(r, o, excluded) ==
  r # o /\ r \notin excluded /\ o \in VisibleCohort(r, excluded)

IndexIn(s, r) == CHOOSE i \in 1 .. Len(s) : s[i] = r

\* The sequence a drop of r over o asks for.
Dropped(s, r, o) == ArrayMove(s, IndexIn(s, r), IndexIn(s, o))

\* planUnionReorder: gear and food of one bag, as one sequence.
PlanUnionReorder(r, o, excluded) ==
  LET rows == UnionPackRows(VisibleCohort(r, excluded))
  IN  HandOut(Dropped(rows, r, o), RankSlots(rows, AvoidRanks(Normalize(r), excluded)))

\* The rows of one category that its section shows in this view.
CategoryRows(r) ==
  {g \in DragGear : /\ CatOf[g] = CatOf[r]
                    /\ g \notin PackFiltered
                    /\ InPack => g \notin WornGear}

\* planListItemReorder, category grouping: within one category, in the order
\* of the view, and the values of that order permuted.
PlanPackCategory(r, o) ==
  LET rows == UnionPackRows(CategoryRows(r))
  IN  HandOut(Dropped(rows, r, o), [i \in 1 .. Len(rows) |-> seen.rank[rows[i]]])

PlanDocument(r, o) ==
  LET rows == DocumentRows(CategoryRows(r))
  IN  HandOut(Dropped(rows, r, o), [i \in 1 .. Len(rows) |-> seen.order[rows[i]]])

\* One past the greatest of a set of ranks.
OnePast(ranks) ==
  IF ranks = {} THEN 0 ELSE 1 + CHOOSE m \in ranks : \A n \in ranks : n <= m

RanksAt(s, p, S) == {s.rank[r] : r \in {q \in S : s.loc[q] = p}}

\* nextUnionPackRank, in SQL: the rank the server gives an arrival.
NextUnionPackRank(p) == OnePast(RanksAt(kept, p, DragRow))

\* Fault: the gear half alone is scanned.
NextGearRankFor(p) == OnePast(RanksAt(seen, p, DragGear))

\* nextUnionPackRankFor: the page's copy of that rule, over the cached rows.
NextUnionPackRankFor(p) == OnePast(RanksAt(seen, p, DragRow))

-----------------------------------------------------------------------------
(* Gates                                                                   *)

Moves == {r \in DragRow : moving[r] # None}

\* moveItem.isPending tells of the latest call; moveFood has its own.
MovePending ==
  \/ lastMoved \in Moves
  \/ \E f \in DragFood : moving[f] # None

\* anyItemReorderPending: what disables the grips of rows.
AnyItemReorderPending == reorder # None

\* itemDragPending: what disables the menus and the nest handles.
ItemDragPending == AnyItemReorderPending \/ MovePending \/ removing # None

\* Fault: a drop is planned before the locations have loaded.
PlanOnGuess == TRUE

\* handleDragEnd refuses to plan a pack drop before then.
PackingResolved == InPack => bagsKnown

ByLocation == InPack /\ PageBags # {}

-----------------------------------------------------------------------------
(* Starting a write                                                        *)

\* The page agrees with the server on everything a plan is made from, and no
\* write is under way that could change it first.
InAgreement ==
  /\ seen.loc = kept.loc /\ seen.rank = kept.rank /\ seen.order = kept.order
  /\ seen.bags = kept.bags
  /\ Moves = {} /\ removing = None

\* One of the writes the bound allows.
SpendWrite == dragsLeft > 0 /\ dragsLeft' = dragsLeft - 1

\* A write that overlaps with another can be overtaken by it, and a read that
\* lands while it is under way shows rows without it.
Overlapped(w) == IF w = None THEN None ELSE [w EXCEPT !.clean = FALSE]

\* mutate: the rows are renumbered on the page at once, the request is sent and
\* the caches of before are remembered.
SendReorder(is, asked, values) ==
  /\ SpendWrite
  /\ reorder' = [is |-> is, asked |-> asked, values |-> values, before |-> seen,
                 stage |-> "sent", clean |-> InAgreement]
  /\ moving' = [r \in DragRow |-> Overlapped(moving[r])]
  /\ UNCHANGED <<kept, bagsKnown, viewing, lastMoved, removing, ticking>>

\* The first gear that is asked for, or else the first food.
FirstAsked(asked) ==
  LET gear == {i \in DOMAIN asked : asked[i] \in DragGear}
      from == IF gear = {} THEN DOMAIN asked ELSE gear
  IN  asked[CHOOSE i \in from : \A j \in from : i <= j]

\* validateUnionPackReorderPayload: no rank twice in a table half, none that an
\* untouched row of the first row's cohort holds.
PayloadSafe(asked, values) ==
  LET cohort   == seen.loc[FirstAsked(asked)]
      After(q) == IF q \in DOMAIN values THEN values[q] ELSE seen.rank[q]
  IN  \A r \in DOMAIN values, q \in DragRow :
        (Half(r) = Half(q) /\ r # q
           /\ (q \in DOMAIN values \/ seen.loc[q] = cohort)) => values[r] # After(q)

\* reorderPackItemsMut.mutate, or its validation's abort, which only rereads.
StartPackReorder(asked, values) ==
  \/ /\ PayloadSafe(asked, values)
     /\ SendReorder("pack", asked, values)
     /\ seen' = [seen EXCEPT !.rank = Patched(@, values)]
     /\ due' = due \ {"gear", "food"}
  \/ /\ ~PayloadSafe(asked, values)
     /\ due' = due \cup {"gear", "food"}
     /\ UNCHANGED <<kept, seen, bagsKnown, viewing, reorder, moving,
                    lastMoved, removing, ticking, dragsLeft>>

\* reorderItemsMut.mutate.
StartDocumentReorder(asked, values) ==
  /\ SendReorder("list", asked, values)
  /\ seen' = [seen EXCEPT !.order = Patched(@, values)]
  /\ due' = due \ {"gear"}

\* Row r in bag p of s, with rank n there.
PutIn(s, r, p, n) == [s EXCEPT !.loc = [s.loc EXCEPT ![r] = p], !.rank = [s.rank EXCEPT ![r] = n]]

\* requestMoveRow: the row goes to the end of the cohort on the page at once.
RequestMove(r, p) ==
  /\ SpendWrite /\ moving[r] = None
  /\ seen' = PutIn(seen, r, p, NextUnionPackRankFor(p))
  /\ moving' = [[q \in DragRow |-> Overlapped(moving[q])] EXCEPT ![r] =
                  [is |-> "move", to |-> p, loc |-> seen.loc[r], rank |-> seen.rank[r],
                   stage |-> "sent", clean |-> InAgreement]]
  /\ lastMoved' = IF r \in DragGear THEN r ELSE lastMoved
  /\ due' = due \ {Half(r)}
  /\ UNCHANGED <<kept, bagsKnown, viewing, reorder, removing, ticking>>

-----------------------------------------------------------------------------
(* Drops and menus                                                         *)

\* planUnionDrop's conditions on a destination.
MayDropIn(r, p) ==
  /\ p # Normalize(r)
  /\ p \in PageBags \cup {Nowhere}
  /\ r \in DragGear => p \notin ContainerMoveExclusions(r)

\* A row with a grip, dropped over another row or a section.
DropRowOver(r, o) ==
  /\ ByLocation /\ PackingResolved /\ ~AnyItemReorderPending
  /\ {r, o} \cap ReorderExclusions = {}
  /\ \/ /\ CanReorder(r, o, ReorderExclusions)
        /\ StartPackReorder(
             Dropped(UnionPackRows(VisibleCohort(r, ReorderExclusions)), r, o),
             PlanUnionReorder(r, o, ReorderExclusions))
     \/ /\ ~CanReorder(r, o, ReorderExclusions)
        /\ MayDropIn(r, Normalize(o))
        /\ RequestMove(r, Normalize(o))

DropRowInto(r, p) ==
  /\ ByLocation /\ PackingResolved /\ ~AnyItemReorderPending
  /\ r \notin ReorderExclusions
  /\ MayDropIn(r, p)
  /\ RequestMove(r, p)

\* A bag's nest handle drags the item that backs it.
NestInto(r, p) ==
  /\ ByLocation /\ PackingResolved /\ ~ItemDragPending
  /\ r \in Headers \ WornGear
  /\ MayDropIn(r, p)
  /\ RequestMove(r, p)

\* MoveToLocationMenu; it knows the row's cached bag, rendered or not.
MenuMove(r, p) ==
  /\ InPack /\ bagsKnown /\ ~ItemDragPending
  /\ r \notin (WornGear \cup PackFiltered) \ (Headers \ WornGear)
  /\ p \in PageBags \cup {Nowhere}
  /\ p # seen.loc[r]
  /\ r \in DragGear => p \notin ContainerMoveExclusions(r)
  /\ RequestMove(r, p)

\* Pack before its first location: gear by category, food by itself.
DropInCategory(r, o) ==
  /\ InPack /\ PageBags = {} /\ PackingResolved /\ ~AnyItemReorderPending
  /\ r # o /\ {r, o} \subseteq CategoryRows(r)
  /\ StartPackReorder(Dropped(UnionPackRows(CategoryRows(r)), r, o), PlanPackCategory(r, o))

DropAmongFood(r, o) ==
  /\ InPack /\ PageBags = {} /\ PackingResolved /\ ~AnyItemReorderPending
  /\ LET excluded == ReorderExclusions \cup DragGear
     IN  /\ CanReorder(r, o, excluded)
         /\ StartPackReorder(Dropped(UnionPackRows(VisibleCohort(r, excluded)), r, o),
                             PlanUnionReorder(r, o, excluded))

\* The List view: document order only.
DropInDocument(r, o) ==
  /\ viewing = "edit" /\ ~AnyItemReorderPending
  /\ r # o /\ {r, o} \subseteq CategoryRows(r)
  /\ StartDocumentReorder(Dropped(DocumentRows(CategoryRows(r)), r, o), PlanDocument(r, o))

-----------------------------------------------------------------------------
(* The other writes and the view                                           *)

\* Delete location, or stop using as container: gone from the page at once.
\* Its menu waits for no other write.
StartRemoveBag(b) ==
  /\ InPack /\ removing = None /\ b \in PageBags
  /\ SpendWrite
  /\ removing' = [is |-> "remove", bag |-> b, before |-> seen.bags, stage |-> "sent"]
  /\ seen' = [seen EXCEPT !.bags = @ \ {b}]
  /\ due' = due \ {"bags"}
  /\ reorder' = Overlapped(reorder)
  /\ moving' = [r \in DragRow |-> Overlapped(moving[r])]
  /\ UNCHANGED <<kept, bagsKnown, viewing, lastMoved, ticking>>

Toggled(S, r) == (S \ {r}) \cup ({r} \ S)

\* A Packed checkbox; one write at a time here.
StartTick(r) ==
  /\ InPack /\ ticking = None /\ r \notin PackFiltered
  /\ r \in TickRow /\ SpendWrite
  /\ ticking' = [is |-> "tick", row |-> r, stage |-> "sent"]
  /\ seen' = [seen EXCEPT !.packed = Toggled(@, r)]
  /\ due' = due \ {Half(r)}
  /\ UNCHANGED <<kept, bagsKnown, viewing, reorder, moving, lastMoved, removing>>

\* The view, or the Pack view's filter.
SwitchView ==
  /\ viewing' \in {"edit", "pack", "unpacked"} \ {viewing}
  /\ UNCHANGED <<kept, seen, bagsKnown, reorder, moving, lastMoved, removing,
                 ticking, due, dragsLeft>>

-----------------------------------------------------------------------------
(* The server                                                              *)

\* reorderInTransaction: nothing worn, one cohort, index-safe per table half.
TakesReorder(values) ==
  LET After(q) == IF q \in DOMAIN values THEN values[q] ELSE kept.rank[q]
  IN  /\ DOMAIN values \cap WornGear = {}
      /\ \A r \in DOMAIN values, q \in DragRow :
           /\ q \in DOMAIN values => kept.loc[q] = kept.loc[r]
           /\ (kept.loc[q] = kept.loc[r] /\ Half(r) = Half(q) /\ r # q)
                => values[r] # After(q)

ServeReorder ==
  /\ reorder # None /\ reorder.stage = "sent"
  /\ \/ /\ reorder.is = "list"
        /\ kept' = [kept EXCEPT !.order = Patched(@, reorder.values)]
        /\ reorder' = [reorder EXCEPT !.stage = "done"]
     \/ /\ reorder.is = "pack" /\ TakesReorder(reorder.values)
        /\ kept' = [kept EXCEPT !.rank = Patched(@, reorder.values)]
        /\ reorder' = [reorder EXCEPT !.stage = "done"]
     \/ /\ reorder.is = "pack" /\ ~TakesReorder(reorder.values)
        /\ reorder' = [reorder EXCEPT !.stage = "refused"]
        /\ UNCHANGED kept
  /\ UNCHANGED <<seen, bagsKnown, viewing, moving, lastMoved, removing, ticking, due, dragsLeft>>

\* The packing location gate of an update, and the rank space's end.
TakesMove(r, p) ==
  /\ p # Nowhere => p \in kept.bags
  /\ \A b \in kept.bags : Backs[b] = r => p \notin Subtree(kept, kept.bags, b, {})
  /\ p # kept.loc[r] => NextUnionPackRank(p) <= RankCap

ServeMove(r) ==
  /\ moving[r] # None /\ moving[r].stage = "sent"
  /\ LET p == moving[r].to
     IN  \/ /\ TakesMove(r, p)
            /\ kept' = IF p = kept.loc[r] THEN kept
                       ELSE PutIn(kept, r, p, NextUnionPackRank(p))
            /\ moving' = [moving EXCEPT ![r].stage = "done"]
         \/ /\ ~TakesMove(r, p)
            /\ moving' = [moving EXCEPT ![r].stage = "refused"]
            /\ UNCHANGED kept
  /\ UNCHANGED <<seen, bagsKnown, viewing, reorder, lastMoved, removing, ticking, due, dragsLeft>>

\* packing-locations remove: the rows go to the end of Unassigned in their
\* order, or the whole of Unassigned is renumbered when they would not fit.
Spilled(b) ==
  LET out   == InRankOrder(kept, {r \in DragRow : kept.loc[r] = b})
      home  == InRankOrder(kept, {r \in DragRow : kept.loc[r] = Nowhere})
      first == NextUnionPackRank(Nowhere)
      all   == home \o out
  IN  IF first + Len(out) - 1 <= RankCap
      THEN [r \in Range(out) |-> first + IndexIn(out, r) - 1]
      ELSE [r \in Range(all) |-> IndexIn(all, r) - 1]

ServeRemove ==
  /\ removing # None /\ removing.stage = "sent"
  /\ removing' = [removing EXCEPT !.stage = "done"]
  /\ kept' = [kept EXCEPT !.bags = @ \ {removing.bag},
                          !.rank = Patched(@, Spilled(removing.bag)),
                          !.loc  = [r \in DragRow |-> IF @[r] = removing.bag
                                                      THEN Nowhere ELSE @[r]]]
  /\ UNCHANGED <<seen, bagsKnown, viewing, reorder, moving, lastMoved, ticking, due, dragsLeft>>

ServeTick ==
  /\ ticking # None /\ ticking.stage = "sent"
  /\ ticking' = [ticking EXCEPT !.stage = "done"]
  /\ kept' = [kept EXCEPT !.packed = Toggled(@, ticking.row)]
  /\ UNCHANGED <<seen, bagsKnown, viewing, reorder, moving, lastMoved, removing, due, dragsLeft>>

-----------------------------------------------------------------------------
(* Answers                                                                 *)

\* Fault: the whole of both caches as they were before the drop.
RestoreSnapshot(w) == [w.before EXCEPT !.bags = seen.bags]

\* onError of the union reorder: the touched rows' ranks, and nothing else.
RestoreRanks(w) ==
  [seen EXCEPT !.rank = Patched(@, [r \in DOMAIN w.values |-> w.before.rank[r]])]

\* onError of the document reorder: the whole list-items array.
RestoreItems(w) ==
  [seen EXCEPT !.loc   = Patched(@, [g \in DragGear |-> w.before.loc[g]]),
               !.rank  = Patched(@, [g \in DragGear |-> w.before.rank[g]]),
               !.order = w.before.order,
               !.packed = (@ \cap DragFood) \cup (w.before.packed \cap DragGear)]

\* Fault: the food half is not read again.
RereadGear(w) == {"gear"}

\* onSettled: the caches a reorder can have touched.
RereadAfter(w) == IF w.is = "list" THEN {"gear"} ELSE {"gear", "food"}

SettleReorder ==
  /\ reorder' = None
  /\ due' = due \cup RereadAfter(reorder)
  /\ UNCHANGED <<kept, bagsKnown, viewing, moving, lastMoved, removing, ticking, dragsLeft>>

ReorderSaved ==
  /\ reorder # None /\ reorder.stage = "done"
  /\ SettleReorder
  /\ UNCHANGED seen

\* Refused, or the request or its answer was lost.
ReorderFailed ==
  /\ reorder # None
  /\ seen' = IF reorder.is = "list" THEN RestoreItems(reorder) ELSE RestoreRanks(reorder)
  /\ SettleReorder

SettleMove(r) ==
  /\ moving' = [moving EXCEPT ![r] = None]
  /\ lastMoved' = IF lastMoved = r THEN Nowhere ELSE lastMoved
  /\ due' = due \cup {Half(r)}
  /\ UNCHANGED <<kept, bagsKnown, viewing, reorder, removing, ticking, dragsLeft>>

MoveSaved(r) ==
  /\ moving[r] # None /\ moving[r].stage = "done"
  /\ SettleMove(r)
  /\ UNCHANGED seen

MoveFailed(r) ==
  /\ moving[r] # None
  /\ seen' = PutIn(seen, r, moving[r].loc, moving[r].rank)
  /\ SettleMove(r)

\* makeOptimisticDelete: the rollback is the whole array of locations.
BagRemoved(saved) ==
  /\ removing # None
  /\ saved => removing.stage = "done"
  /\ seen' = IF saved THEN seen ELSE [seen EXCEPT !.bags = removing.before]
  /\ removing' = None
  /\ due' = due \cup {"bags", "gear", "food"}
  /\ UNCHANGED <<kept, bagsKnown, viewing, reorder, moving, lastMoved, ticking, dragsLeft>>

\* patchRow and restoreRow: the one field of the one row.
TickAnswered(saved) ==
  /\ ticking # None
  /\ saved => ticking.stage = "done"
  /\ seen' = IF saved THEN seen ELSE [seen EXCEPT !.packed = Toggled(@, ticking.row)]
  /\ ticking' = None
  /\ due' = due \cup {Half(ticking.row)}
  /\ UNCHANGED <<kept, bagsKnown, viewing, reorder, moving, lastMoved, removing, dragsLeft>>

\* A read lands: the half of the page it is for is the server's.
Land(h) ==
  /\ h \in due
  /\ due' = due \ {h}
  /\ LET rows == {r \in DragRow : Half(r) = h}
     IN  seen' = IF h = "bags" THEN [seen EXCEPT !.bags = kept.bags]
                 ELSE [seen EXCEPT
                   !.loc    = Patched(@, [r \in rows |-> kept.loc[r]]),
                   !.rank   = Patched(@, [r \in rows |-> kept.rank[r]]),
                   !.order  = IF h = "gear" THEN kept.order ELSE @,
                   !.packed = (@ \ rows) \cup (kept.packed \cap rows)]
  /\ bagsKnown' = (bagsKnown \/ h = "bags")
  /\ reorder' = Overlapped(reorder)
  /\ moving' = [r \in DragRow |-> Overlapped(moving[r])]
  /\ UNCHANGED <<kept, viewing, lastMoved, removing, ticking, dragsLeft>>

-----------------------------------------------------------------------------
DragInit ==
  /\ kept \in DragStart
  /\ seen = kept
  /\ bagsKnown = FALSE /\ due = {"bags"}
  /\ viewing = "pack"
  /\ reorder = None /\ moving = [r \in DragRow |-> None] /\ lastMoved = Nowhere
  /\ removing = None /\ ticking = None
  /\ dragsLeft = DragWrites

Drops ==
  \/ \E r, o \in DragRow : DropRowOver(r, o)
  \/ \E r \in DragRow, p \in DragBag \cup {Nowhere} :
       DropRowInto(r, p) \/ NestInto(r, p) \/ MenuMove(r, p)
  \/ \E r, o \in DragGear : DropInCategory(r, o) \/ DropInDocument(r, o)
  \/ \E r, o \in DragFood : DropAmongFood(r, o)

Serves ==
  \/ ServeReorder \/ ServeRemove \/ ServeTick
  \/ \E r \in DragRow : ServeMove(r)

Answers ==
  \/ ReorderSaved \/ ReorderFailed
  \/ \E r \in DragRow : MoveSaved(r) \/ MoveFailed(r)
  \/ \E saved \in BOOLEAN : BagRemoved(saved) \/ TickAnswered(saved)
  \/ \E h \in {"gear", "food", "bags"} : Land(h)

DragNext ==
  \/ Drops \/ Serves \/ Answers
  \/ \E b \in DragBag : StartRemoveBag(b)
  \/ \E r \in DragRow : StartTick(r)
  \/ SwitchView

DragSpec == DragInit /\ [][DragNext]_dragVars

-----------------------------------------------------------------------------
(* Properties                                                              *)

AtRest ==
  reorder = None /\ Moves = {} /\ removing = None /\ ticking = None /\ due = {}

\* Whatever was refused, lost, rolled back or overtaken, once nothing is under
\* way the page shows what the server holds: every write that touches a cache,
\* the food and bag caches of another query included, has it read again.
QuietAgrees == AtRest => seen = kept

\* A drop is what the page then shows: the dropped rows stand in the order the
\* drop asked for, also when ranks were tied or held by rows the drop cannot
\* see; those rows keep their ranks, and a drop in the Pack view leaves the
\* document's order alone.
DropStands ==
  [][(reorder = None /\ reorder' # None) =>
       LET asked == reorder'.asked
       IN  /\ InPack =>
                /\ \A i \in 1 .. Len(asked) - 1 :
                     ShownBefore(seen', asked[i], asked[i + 1])
                /\ seen'.order = seen.order
                /\ \A r \in DragRow \ Range(asked) : seen'.rank[r] = seen.rank[r]
           /\ viewing = "edit" =>
                /\ \A i \in 1 .. Len(asked) - 1 :
                     seen'.order[asked[i]] < seen'.order[asked[i + 1]]
                /\ seen'.rank = seen.rank]_dragVars

\* The page's own check of a planned payload failed: all it does is reread.
DropAborted ==
  /\ due \subseteq due' /\ due # due'
  /\ UNCHANGED <<seen, reorder, moving, removing, ticking>>

\* A drop or a move planned on a page that agrees with the server, and not
\* overlapped by another write, is refused neither by the page's own check nor
\* by the server, unless the ranks of a bag have come to their end: what the
\* planners exclude and avoid is all that the checks look at, and nothing is
\* planned before the page knows the bags.
DropsAccepted ==
  [][/\ ~(DropAborted /\ InAgreement)
     /\ (reorder # None /\ reorder' # None /\ reorder'.stage = "refused") => ~reorder'.clean
     /\ \A r \in DragRow :
          (ServeMove(r) /\ moving'[r].stage = "refused" /\ moving'[r].clean)
             => NextUnionPackRank(moving[r].to) > RankCap]_dragVars

\* When such a write is confirmed, the rows it touched are already where the
\* server has put them: the page computed the server's ranks.
AnswersConfirm ==
  [][/\ (reorder # None /\ ReorderSaved /\ reorder.clean ) =>
          \A r \in Range(reorder.asked) :
            IF reorder.is = "list" THEN seen.order[r] = kept.order[r]
                                   ELSE seen.rank[r] = kept.rank[r]
     /\ \A r \in DragRow :
          (moving[r] # None /\ MoveSaved(r) /\ moving[r].clean ) =>
            seen.loc[r] = kept.loc[r] /\ seen.rank[r] = kept.rank[r]]_dragVars

\* A pack drop or a move that fails takes back its own rows' placement and
\* nothing else: checkboxes ticked meanwhile stay ticked, rows moved meanwhile
\* stay moved, the document keeps its order.
RollbackLocal ==
  [][(Cardinality(Moves') < Cardinality(Moves)
        \/ (reorder # None /\ reorder.is = "pack" /\ reorder' = None)) =>
       /\ seen'.packed = seen.packed /\ seen'.order = seen.order /\ seen'.bags = seen.bags
       /\ \A r \in DragRow :
            \/ seen'.loc[r] = seen.loc[r] /\ seen'.rank[r] = seen.rank[r]
            \/ moving[r] # None /\ moving'[r] = None
            \/ reorder # None /\ r \in Range(reorder.asked)]_dragVars

\* buildContainerMoveExclusions "exists to stop a container being dropped into
\* its own subtree": unless another write overlaps, no bag's item is on its way
\* into a bag that, by the rows the page holds, lies in that bag.
NoBagInItself ==
  \A r \in DragGear : (moving[r] # None /\ moving[r].clean) =>
    \A b \in PageBags : Backs[b] = r => moving[r].to \notin Subtree(seen, PageBags, b, {})

\* A drop is shown as dropped, accepted by the server and confirmed where it stands.
DropsLand == DropStands /\ DropsAccepted /\ AnswersConfirm
=============================================================================
