------------------------------ MODULE PackView ------------------------------
(***************************************************************************)
(* What the Pack view draws (PackDocument.tsx) from the caches of PackDrag,*)
(* in every state that drags, moves, ticks and deletions of bags leave     *)
(* them in: the tree of bags (packing-tree.ts), the rows of its sections,  *)
(* the Worn section, and the counts in the headers (PackSection.tsx).      *)
(*                                                                         *)
(* The rows come from three queries, so a row may name a bag that is not   *)
(* there, and a half finished move may put two bags into each other.  The  *)
(* Ready checks are drawn and counted as the Packed ones are; the model    *)
(* has the Packed ones.                                                    *)
(***************************************************************************)
EXTENDS PackDrag

\* A bag whose item is worn has no header item: includeItem leaves it out.
ContainerItem(b) == IF Backs[b] \in WornGear THEN Nowhere ELSE Backs[b]

\* proposedParents: the bag that the bag's own item is packed in.
ProposedParent(b) ==
  LET p == IF ContainerItem(b) = Nowhere THEN Nowhere ELSE seen.loc[ContainerItem(b)]
  IN  IF p \in PageBags \ {b} THEN p ELSE Nowhere

\* The n-th bag above b, where there is one.
Above(b, up) ==
  LET above[n \in 0 .. Cardinality(PageBags)] ==
        IF n = 0 THEN b ELSE IF above[n - 1] = Nowhere THEN Nowhere ELSE up[above[n - 1]]
  IN  above

CycleMembers ==
  LET up == [b \in PageBags |-> ProposedParent(b)]
  IN  {b \in PageBags : \E n \in 1 .. Cardinality(PageBags) : Above(b, up)[n] = b}

\* The bag a bag's section is drawn in; the members of a cycle stay at the root.
TreeParent(b) == IF b \in CycleMembers THEN Nowhere ELSE ProposedParent(b)

\* The sections drawn below b, and its own.
SubtreeOf(b) ==
  LET up == [c \in PageBags |-> TreeParent(c)]
  IN  {c \in PageBags : \E n \in 0 .. Cardinality(PageBags) : Above(c, up)[n] = b}

\* renderedLocationIds: what the walk from the roots reaches.
DrawnBags == UNION {SubtreeOf(b) : b \in {r \in PageBags : TreeParent(r) = Nowhere}}

\* Fault: only a row without a bag is unassigned.
UnassignedByNull(r) == seen.loc[r]

\* A row whose bag is not drawn falls back to Unassigned.
SectionOf(r) ==
  LET p == seen.loc[r]
  IN  IF p \in (IF r \in DragGear THEN PageBags ELSE DrawnBags) THEN p ELSE Nowhere

\* The gear and the food of one section.  Headers and worn gear are no rows.
ItemsIn(p) == {g \in DragGear \ (Headers \cup WornGear) : SectionOf(g) = p}
FoodIn(p) == {f \in DragFood : SectionOf(f) = p}

\* passesPackFilters
Passing(S) == S \ PackFiltered

\* The rows a section lists; the item of a bag is drawn in its header, filter or no.
RowsIn(p) == UnionPackRows(Passing(ItemsIn(p) \cup FoodIn(p)))

\* Before its first location: one section for each category, and one for the food.
CategorySection(c) ==
  UnionPackRows(Passing({g \in DragGear \ WornGear : CatOf[g] = c}))
FoodSection == UnionPackRows(Passing(DragFood))

\* wornItemsInDocumentOrder
WornSection == DocumentRows(Passing(WornGear))

\* The sections on the screen: where each is, its header's item, and its rows.
Sections ==
  {[at |-> <<"worn">>, header |-> Nowhere, rows |-> WornSection]} \cup
  IF ByLocation
  THEN {[at |-> <<"bag", p>>, header |-> IF p = Nowhere THEN Nowhere ELSE ContainerItem(p),
         rows |-> RowsIn(p)] : p \in DrawnBags \cup {Nowhere}}
  ELSE {[at |-> <<"cat", CatOf[g]>>, header |-> Nowhere, rows |-> CategorySection(CatOf[g])] :
          g \in DragGear}
       \cup {[at |-> <<"food">>, header |-> Nowhere, rows |-> FoodSection]}

\* packProgressItems: the gear of the whole subtree.
PackProgressItems(b) ==
  UNION {ItemsIn(c) \cup ({ContainerItem(c)} \ {Nowhere}) : c \in SubtreeOf(b)}

\* The rows a bag's header counts: its subtree's gear and its own food.
Counted(b) == PackProgressItems(b) \cup FoodIn(b)

\* The check mark in the header.
Complete(b) == Counted(b) # {} /\ Counted(b) \subseteq seen.packed

-----------------------------------------------------------------------------
(* Properties                                                              *)

\* "A row must never vanish because its bag did": whatever the three caches hold,
\* every gear item and every food item of the list is drawn in one place, unless
\* the filter hides it: as the row of one section or as the header of one.
DrawnOnce ==
  InPack =>
    LET all     == Sections
        headers == {s.header : s \in all} \ {Nowhere}
        rows    == UNION {Range(s.rows) : s \in all}
    IN  /\ rows \cap headers = {}
        /\ rows \cup headers = DragRow \ (PackFiltered \ headers)
        /\ \A s, t \in all : s # t =>
             /\ Range(s.rows) \cap Range(t.rows) = {}
             /\ s.header # t.header \/ s.header = Nowhere

\* "Renderer and reorder planner MUST agree": the rows of a section on the screen,
\* in their order, are the rows that a drop into it is planned over.
DrawnAsPlanned ==
  ByLocation => \A p \in DrawnBags \cup {Nowhere} :
    LET rows == RowsIn(p)
    IN  \A r \in Range(rows) : UnionPackRows(VisibleCohort(r, ReorderExclusions)) = rows

\* The Pack view draws the whole list, once, and as drops see it.
PackDrawn == DrawnOnce /\ DrawnAsPlanned

\* "Every checklist row rendered in this location's subtree": a header with a
\* check mark has nothing left to pack below it.
CompleteIsPacked ==
  ByLocation => \A b \in DrawnBags :
    Complete(b) =>
      \A c \in SubtreeOf(b) : ItemsIn(c) \cup FoodIn(c) \subseteq seen.packed
=============================================================================
