--------------------------- MODULE PackDrag_proof ---------------------------
(***************************************************************************)
(* Proofs about the pack of a list, as it is dragged (PackDrag) and drawn  *)
(* (PackView), for any rows, bags and starting placements.                 *)
(*                                                                         *)
(* The page keeps a copy of what the server holds.  The invariant names,   *)
(* for every row that the page shows otherwise than the server holds it,   *)
(* the write or the read under way that will settle it.  The last part     *)
(* shows that a drop which nothing overlaps lands: what it plans rises     *)
(* along the rows it asks for, so both checks accept it, and what the      *)
(* server stores is what the drop showed.                                  *)
(***************************************************************************)
EXTENDS PackView, Sorting_proof, SequenceTheorems

-----------------------------------------------------------------------------
(* Drags: the invariant                                                    *)

\* A placement, of rows and bags there are.
Laid(s) ==
  /\ s = [loc |-> s.loc, rank |-> s.rank, order |-> s.order, packed |-> s.packed, bags |-> s.bags]
  /\ s.loc = [r \in DragRow |-> s.loc[r]] /\ s.rank = [r \in DragRow |-> s.rank[r]]
  /\ s.order = [g \in DragGear |-> s.order[g]]
  /\ s.packed \subseteq DragRow /\ s.bags \subseteq DragBag

\* The writes under way, by what they carry.
ReorderOk ==
  \/ reorder = None
  \/ /\ reorder = [is |-> reorder.is, asked |-> reorder.asked, values |-> reorder.values,
                   before |-> reorder.before, stage |-> reorder.stage, clean |-> reorder.clean]
     /\ reorder.is \in {"pack", "list"} /\ DOMAIN reorder.values = Range(reorder.asked)
     /\ Laid(reorder.before)

MoveOk(m) ==
  \/ m = None
  \/ /\ m = [is |-> "move", to |-> m.to, loc |-> m.loc, rank |-> m.rank, stage |-> m.stage,
             clean |-> m.clean]
     /\ m.clean \in BOOLEAN

MovingOk == moving = [r \in DragRow |-> moving[r]] /\ \A r \in DragRow : MoveOk(moving[r])

RemovingOk ==
  \/ removing = None
  \/ /\ removing = [is |-> "remove", bag |-> removing.bag, before |-> removing.before,
                    stage |-> removing.stage]
     /\ removing.before \subseteq DragBag

TickingOk ==
  \/ ticking = None
  \/ /\ ticking = [is |-> "tick", row |-> ticking.row, stage |-> ticking.stage]
     /\ ticking.row \in DragRow

WritesInv == Laid(kept) /\ Laid(seen) /\ ReorderOk /\ MovingOk /\ RemovingOk /\ TickingOk

\* Something is under way that ends in a read of this half.
Owing(h) ==
  \/ h \in due
  \/ reorder # None /\ h \in RereadAfter(reorder)
  \/ \E r \in DragRow : moving[r] # None /\ Half(r) = h
  \/ removing # None
  \/ ticking # None /\ Half(ticking.row) = h

SameRow(r) ==
  /\ seen.loc[r] = kept.loc[r] /\ seen.rank[r] = kept.rank[r]
  /\ r \in seen.packed <=> r \in kept.packed

\* What the page shows otherwise than the server holds it is owed a read.
RowsOwed == \A r \in DragRow : SameRow(r) \/ Owing(Half(r))
OrderOwed == seen.order = kept.order \/ Owing("gear")
BagsOwed == seen.bags = kept.bags \/ "bags" \in due \/ removing # None

\* The invariant.
DragInv == WritesInv /\ RowsOwed /\ OrderOwed /\ BagsOwed

-----------------------------------------------------------------------------
(* What the page and the server make of a placement                        *)

\* What an overlap does to a reorder and to a move.
LEMMA Overlap ==
  ASSUME WritesInv
  PROVE  /\ reorder = None => Overlapped(reorder) = None
         /\ reorder # None =>
              /\ Overlapped(reorder) = [is |-> reorder.is, asked |-> reorder.asked,
                   values |-> reorder.values, before |-> reorder.before,
                   stage |-> reorder.stage, clean |-> FALSE]
         /\ \A r \in DragRow :
              /\ MoveOk(Overlapped(moving[r]))
              /\ Overlapped(moving[r]) = None <=> moving[r] = None
              /\ moving[r] # None => Overlapped(moving[r]).clean = FALSE
<1>1. reorder = None => Overlapped(reorder) = None
  BY DEF Overlapped
<1>2. reorder # None =>
         Overlapped(reorder) = [is |-> reorder.is, asked |-> reorder.asked,
            values |-> reorder.values, before |-> reorder.before,
            stage |-> reorder.stage, clean |-> FALSE]
  BY DEF WritesInv, ReorderOk, Overlapped
<1>3. ASSUME NEW r \in DragRow
      PROVE  /\ MoveOk(Overlapped(moving[r]))
             /\ Overlapped(moving[r]) = None <=> moving[r] = None
             /\ moving[r] # None => Overlapped(moving[r]).clean = FALSE
  <2>1. MoveOk(moving[r])
    BY DEF WritesInv, MovingOk
  <2>2. CASE moving[r] = None
    BY <2>2 DEF Overlapped, MoveOk
  <2>3. CASE moving[r] # None
    <3>a. PICK m : m = moving[r]
      OBVIOUS
    <3>0. /\ m = [is |-> m.is, to |-> m.to, loc |-> m.loc, rank |-> m.rank, stage |-> m.stage,
                  clean |-> m.clean]
          /\ m.is = "move"
      BY <3>a, <2>1, <2>3 DEF MoveOk
    <3>b. Overlapped(m) = [m EXCEPT !.clean = FALSE]
      BY <3>a, <2>3 DEF Overlapped
    <3>1. Overlapped(m) = [is |-> m.is, to |-> m.to, loc |-> m.loc, rank |-> m.rank,
                           stage |-> m.stage, clean |-> FALSE]
      BY <3>0, <3>b
    <3>2. Overlapped(m).is # None.is
      BY <3>0, <3>1 DEF None
    <3> QED BY <3>a, <3>0, <3>1, <3>2, <2>3 DEF MoveOk
  <2> QED BY <2>2, <2>3
<1> QED BY <1>1, <1>2, <1>3

\* What patching some ranks makes of a placement.
LEMMA PatchRanks ==
  ASSUME NEW s, Laid(s), NEW v
  PROVE  /\ Laid([s EXCEPT !.rank = Patched(@, v)])
         /\ [s EXCEPT !.rank = Patched(@, v)].loc = s.loc
         /\ [s EXCEPT !.rank = Patched(@, v)].order = s.order
         /\ [s EXCEPT !.rank = Patched(@, v)].packed = s.packed
         /\ [s EXCEPT !.rank = Patched(@, v)].bags = s.bags
         /\ \A r \in DragRow \ DOMAIN v : [s EXCEPT !.rank = Patched(@, v)].rank[r] = s.rank[r]
<1> DEFINE t == [s EXCEPT !.rank = Patched(@, v)]
<1>1. t = [loc |-> s.loc, rank |-> Patched(s.rank, v), order |-> s.order, packed |-> s.packed,
           bags |-> s.bags]
  BY DEF Laid
<1>2. Patched(s.rank, v) = [r \in DragRow |-> IF r \in DOMAIN v THEN v[r] ELSE s.rank[r]]
  BY DEF Laid, Patched
<1> HIDE DEF t
<1>3. Laid(t)
  BY <1>1, <1>2 DEF Laid
<1>4. /\ t.loc = s.loc /\ t.order = s.order /\ t.packed = s.packed /\ t.bags = s.bags
      /\ \A r \in DragRow \ DOMAIN v : t.rank[r] = s.rank[r]
  BY <1>1, <1>2
<1> QED BY <1>3, <1>4 DEF t

\* What patching the document order makes of it.
LEMMA PatchOrder ==
  ASSUME NEW s, Laid(s), NEW v
  PROVE  /\ Laid([s EXCEPT !.order = Patched(@, v)])
         /\ [s EXCEPT !.order = Patched(@, v)].loc = s.loc
         /\ [s EXCEPT !.order = Patched(@, v)].rank = s.rank
         /\ [s EXCEPT !.order = Patched(@, v)].packed = s.packed
         /\ [s EXCEPT !.order = Patched(@, v)].bags = s.bags
<1> DEFINE t == [s EXCEPT !.order = Patched(@, v)]
<1>1. t = [loc |-> s.loc, rank |-> s.rank, order |-> Patched(s.order, v), packed |-> s.packed,
           bags |-> s.bags]
  BY DEF Laid
<1>2. Patched(s.order, v) = [r \in DragGear |-> IF r \in DOMAIN v THEN v[r] ELSE s.order[r]]
  BY DEF Laid, Patched
<1> HIDE DEF t
<1>3. Laid(t)
  BY <1>1, <1>2 DEF Laid
<1>4. /\ t.loc = s.loc /\ t.rank = s.rank /\ t.packed = s.packed /\ t.bags = s.bags
  BY <1>1
<1> QED BY <1>3, <1>4 DEF t

\* Row r set down elsewhere makes t of s.
RowPut(s, t, r) ==
  /\ Laid(t) /\ t.order = s.order /\ t.packed = s.packed /\ t.bags = s.bags
  /\ \A q \in DragRow \ {r} : t.loc[q] = s.loc[q] /\ t.rank[q] = s.rank[q]

\* PutIn sets down that one row.
LEMMA PutRow ==
  ASSUME NEW s, Laid(s), NEW r \in DragRow, NEW p, NEW n
  PROVE  /\ RowPut(s, PutIn(s, r, p, n), r)
         /\ PutIn(s, r, p, n).loc = [s.loc EXCEPT ![r] = p]
<1> DEFINE t == PutIn(s, r, p, n)
           loc == [s.loc EXCEPT ![r] = p]
           rank == [s.rank EXCEPT ![r] = n]
<1>1. t = [s EXCEPT !.loc = loc, !.rank = rank]
  BY DEF PutIn
<1>2. loc = [s.loc EXCEPT ![r] = p] /\ rank = [s.rank EXCEPT ![r] = n]
  OBVIOUS
<1> HIDE DEF loc, rank, t
<1>3. t = [loc |-> loc, rank |-> rank, order |-> s.order, packed |-> s.packed, bags |-> s.bags]
  BY <1>1 DEF Laid
<1>4. Laid(t)
  BY <1>2, <1>3 DEF Laid
<1>5. \A q \in DragRow \ {r} : t.loc[q] = s.loc[q] /\ t.rank[q] = s.rank[q]
  BY <1>2, <1>3 DEF Laid
<1>6. /\ t.loc = [s.loc EXCEPT ![r] = p]
      /\ t.order = s.order /\ t.packed = s.packed /\ t.bags = s.bags
  BY <1>2, <1>3
<1>7. RowPut(s, t, r)
  BY <1>4, <1>5, <1>6 DEF RowPut
<1> QED BY <1>6, <1>7 DEF t

\* A row is gear or food.
LEMMA Halves == \A r \in DragRow : Half(r) \in {"gear", "food"}
  BY DEF Half

\* An overlap forgets no write.
LEMMA OverlapAll ==
  ASSUME WritesInv, moving' = [r \in DragRow |-> Overlapped(moving[r])]
  PROVE  /\ MovingOk'
         /\ \A r \in DragRow : moving'[r] = None <=> moving[r] = None
         /\ \A r \in DragRow : moving'[r] # None => moving'[r].clean = FALSE
BY Overlap DEF MovingOk

\* Nor does it forget the reorder, or what is read after it.
LEMMA OverlapReorder ==
  ASSUME WritesInv, reorder' = Overlapped(reorder)
  PROVE  /\ ReorderOk'
         /\ reorder' = None <=> reorder = None
         /\ reorder # None => RereadAfter(reorder') = RereadAfter(reorder)
<1>1. CASE reorder = None
  BY <1>1, Overlap DEF ReorderOk
<1>2. CASE reorder # None
  <2>1. reorder' = [is |-> reorder.is, asked |-> reorder.asked, values |-> reorder.values,
                    before |-> reorder.before, stage |-> reorder.stage, clean |-> FALSE]
    BY <1>2, Overlap
  <2>2. reorder'.is = reorder.is /\ reorder.is \in {"pack", "list"}
    BY <1>2, <2>1 DEF WritesInv, ReorderOk
  <2>3. reorder' # None
    BY <2>2 DEF None
  <2>4. ReorderOk'
    BY <1>2, <2>1, <2>2 DEF WritesInv, ReorderOk
  <2> QED BY <1>2, <2>2, <2>3, <2>4 DEF RereadAfter
<1> QED BY <1>1, <1>2

\* What sending a reorder puts under way.
LEMMA ReorderSent ==
  ASSUME WritesInv, NEW is \in {"pack", "list"}, NEW asked, NEW values,
         DOMAIN values = Range(asked), SendReorder(is, asked, values)
  PROVE  /\ ReorderOk' /\ MovingOk' /\ reorder' # None /\ reorder'.is = is
         /\ reorder'.asked = asked /\ reorder'.values = values
         /\ \A r \in DragRow : moving'[r] = None <=> moving[r] = None
         /\ \A r \in DragRow : moving'[r] # None => moving'[r].clean = FALSE
         /\ UNCHANGED <<kept, bagsKnown, removing, ticking>>
<1>1. /\ reorder' = [is |-> is, asked |-> asked, values |-> values, before |-> seen,
                     stage |-> "sent", clean |-> InAgreement]
      /\ moving' = [r \in DragRow |-> Overlapped(moving[r])]
      /\ UNCHANGED <<kept, bagsKnown, removing, ticking>>
  BY DEF SendReorder
<1>2. reorder'.is = is /\ reorder'.asked = asked /\ reorder'.values = values
      /\ reorder'.before = seen /\ reorder'.stage = "sent" /\ reorder'.clean = InAgreement
  BY <1>1
<1>3. reorder' # None
  BY <1>2 DEF None
<1>4. ReorderOk'
  BY <1>1, <1>2 DEF ReorderOk, WritesInv
<1> QED BY <1>1, <1>2, <1>3, <1>4, OverlapAll

\* A drop in the pack: both halves of the rows are owed.
LEMMA PackReorderStep ==
  ASSUME DragInv, NEW asked, NEW values, DOMAIN values = Range(asked), reorder = None,
         StartPackReorder(asked, values)
  PROVE  DragInv'
<1>1. CASE PayloadSafe(asked, values)
  <2>1. /\ SendReorder("pack", asked, values)
        /\ seen' = [seen EXCEPT !.rank = Patched(@, values)]
        /\ due' = due \ {"gear", "food"}
    BY <1>1 DEF StartPackReorder
  <2>2. /\ ReorderOk' /\ MovingOk' /\ reorder' # None /\ reorder'.is = "pack"
        /\ UNCHANGED <<kept, removing, ticking>>
    BY <2>1, ReorderSent DEF DragInv
  <2>3. Laid(seen') /\ seen'.bags = seen.bags
    BY <2>1, PatchRanks DEF DragInv, WritesInv
  <2>4. WritesInv'
    BY <2>2, <2>3 DEF DragInv, WritesInv, Laid, RemovingOk, TickingOk
  <2>5. \A h \in {"gear", "food"} : Owing(h)'
    BY <2>2 DEF Owing, RereadAfter
  <2>6. RowsOwed' /\ OrderOwed'
    BY <2>5, Halves DEF RowsOwed, OrderOwed
  <2>7. BagsOwed'
    BY <2>1, <2>2, <2>3 DEF DragInv, BagsOwed
  <2> QED BY <2>4, <2>6, <2>7 DEF DragInv
<1>2. CASE ~ PayloadSafe(asked, values)
  <2>1. /\ due \subseteq due' /\ UNCHANGED <<kept, seen, reorder, moving, removing, ticking>>
    BY <1>2 DEF StartPackReorder
  <2>2. WritesInv'
    BY <2>1 DEF DragInv, WritesInv, Laid, ReorderOk, MovingOk, MoveOk, RemovingOk, TickingOk
  <2>3. \A h : Owing(h) => Owing(h)'
    BY <2>1 DEF Owing
  <2> QED BY <2>1, <2>2, <2>3 DEF DragInv, RowsOwed, SameRow, OrderOwed, BagsOwed
<1> QED BY <1>1, <1>2

\* A drop in the document: the gear is owed.
LEMMA DocumentReorderStep ==
  ASSUME DragInv, NEW asked, NEW values, DOMAIN values = Range(asked), reorder = None,
         StartDocumentReorder(asked, values)
  PROVE  DragInv'
<1>1. /\ SendReorder("list", asked, values)
      /\ seen' = [seen EXCEPT !.order = Patched(@, values)]
      /\ due' = due \ {"gear"}
  BY DEF StartDocumentReorder
<1>2. /\ ReorderOk' /\ MovingOk' /\ reorder' # None /\ reorder'.is = "list"
      /\ \A r \in DragRow : moving'[r] = None <=> moving[r] = None
      /\ UNCHANGED <<kept, removing, ticking>>
  BY <1>1, ReorderSent DEF DragInv
<1>3. /\ Laid(seen') /\ seen'.bags = seen.bags
      /\ seen'.loc = seen.loc /\ seen'.rank = seen.rank /\ seen'.packed = seen.packed
  BY <1>1, PatchOrder DEF DragInv, WritesInv
<1>4. WritesInv'
  BY <1>2, <1>3 DEF DragInv, WritesInv, Laid, RemovingOk, TickingOk
<1>5. Owing("gear")' /\ (Owing("food") => Owing("food")')
  BY <1>1, <1>2 DEF DragInv, Owing, RereadAfter
<1>6. RowsOwed'
  BY <1>2, <1>3, <1>5, Halves DEF DragInv, RowsOwed, SameRow
<1>7. OrderOwed' /\ BagsOwed'
  BY <1>1, <1>2, <1>3, <1>5 DEF DragInv, OrderOwed, BagsOwed
<1> QED BY <1>4, <1>6, <1>7 DEF DragInv

\* A move under way, and how it ends.
LEMMA MoveSent ==
  ASSUME WritesInv, NEW r \in DragRow, NEW p, RequestMove(r, p)
  PROVE  /\ MovingOk' /\ moving'[r] # None /\ moving'[r].to = p
         /\ moving'[r].clean = InAgreement
         /\ \A q \in DragRow \ {r} : moving'[q] = Overlapped(moving[q])
<1>1. moving' = [[q \in DragRow |-> Overlapped(moving[q])] EXCEPT ![r] =
                   [is |-> "move", to |-> p, loc |-> seen.loc[r], rank |-> seen.rank[r],
                    stage |-> "sent", clean |-> InAgreement]]
  BY DEF RequestMove
<1>2. /\ moving'[r] = [is |-> "move", to |-> p, loc |-> seen.loc[r], rank |-> seen.rank[r],
                       stage |-> "sent", clean |-> InAgreement]
      /\ \A q \in DragRow \ {r} : moving'[q] = Overlapped(moving[q])
      /\ moving' = [q \in DragRow |-> moving'[q]]
  BY <1>1
<1>3. MoveOk(moving'[r]) /\ moving'[r] # None
  <2>1. InAgreement \in BOOLEAN
    BY DEF InAgreement
  <2> QED BY <1>2, <2>1 DEF MoveOk, None
<1>4. MovingOk'
  BY <1>2, <1>3, Overlap DEF MovingOk
<1> QED BY <1>2, <1>3, <1>4

\* A move at the server stays under way, for its answer.
LEMMA MoveServed ==
  ASSUME WritesInv, NEW r \in DragRow, ServeMove(r)
  PROVE  /\ MovingOk' /\ moving[r] # None /\ moving'[r] # None
         /\ moving'[r].to = moving[r].to /\ moving'[r].clean = moving[r].clean
         /\ \A q \in DragRow \ {r} : moving'[q] = moving[q]
<1>1. /\ moving[r] # None
      /\ moving' \in {[moving EXCEPT ![r].stage = "done"], [moving EXCEPT ![r].stage = "refused"]}
  BY DEF ServeMove
<1>2. PICK m : m = moving[r]
  OBVIOUS
<1>3. /\ m = [is |-> m.is, to |-> m.to, loc |-> m.loc, rank |-> m.rank, stage |-> m.stage,
              clean |-> m.clean]
      /\ m.is = "move" /\ m.clean \in BOOLEAN
  BY <1>1, <1>2 DEF WritesInv, MovingOk, MoveOk
<1>4. PICK st : moving' = [moving EXCEPT ![r] = [m EXCEPT !.stage = st]]
  BY <1>1, <1>2
<1>5. [m EXCEPT !.stage = st] = [is |-> m.is, to |-> m.to, loc |-> m.loc, rank |-> m.rank,
                                 stage |-> st, clean |-> m.clean]
  BY <1>3
<1>6. /\ moving'[r] = [m EXCEPT !.stage = st]
      /\ \A q \in DragRow \ {r} : moving'[q] = moving[q]
      /\ moving' = [q \in DragRow |-> moving'[q]]
  BY <1>4 DEF WritesInv, MovingOk
<1>7. /\ moving'[r].is = "move" /\ MoveOk(moving'[r])
      /\ moving'[r].to = m.to /\ moving'[r].clean = m.clean
  BY <1>3, <1>5, <1>6 DEF MoveOk
<1>8. MovingOk' /\ moving'[r] # None
  BY <1>6, <1>7 DEF WritesInv, MovingOk, None
<1> QED BY <1>1, <1>2, <1>6, <1>7, <1>8

\* The moved row is owed as long as its move is under way.
LEMMA RequestMoveStep ==
  ASSUME DragInv, NEW r \in DragRow, NEW p, RequestMove(r, p)
  PROVE  DragInv'
<1>1. /\ seen' = PutIn(seen, r, p, NextUnionPackRankFor(p))
      /\ due' = due \ {Half(r)}
      /\ UNCHANGED <<kept, reorder, removing, ticking>>
  BY DEF RequestMove
<1>2. /\ MovingOk' /\ moving'[r] # None
      /\ \A q \in DragRow \ {r} : moving'[q] = Overlapped(moving[q])
  BY MoveSent DEF DragInv
<1>3. /\ Laid(seen') /\ seen'.bags = seen.bags /\ seen'.order = seen.order
      /\ seen'.packed = seen.packed
      /\ \A q \in DragRow \ {r} : seen'.loc[q] = seen.loc[q] /\ seen'.rank[q] = seen.rank[q]
  <2> DEFINE n == NextUnionPackRankFor(p)
  <2> HIDE DEF n
  <2>1. seen' = PutIn(seen, r, p, n)
    BY <1>1 DEF n
  <2>2. Laid(seen)
    BY DEF DragInv, WritesInv
  <2>3. RowPut(seen, PutIn(seen, r, p, n), r)
    BY <2>2, PutRow
  <2>4. RowPut(seen, seen', r)
    BY <2>1, <2>2, <2>3 DEF RowPut
  <2> QED BY <2>4 DEF RowPut
<1>4. WritesInv'
  BY <1>1, <1>2, <1>3 DEF DragInv, WritesInv, ReorderOk, Laid, RemovingOk, TickingOk
<1>5. \A q \in DragRow : moving[q] # None => moving'[q] # None
  BY <1>2, Overlap DEF DragInv
<1>6. Owing(Half(r))' /\ \A h : Owing(h) => Owing(h)'
  BY <1>1, <1>2, <1>5 DEF Owing
<1>7. RowsOwed'
  BY <1>1, <1>3, <1>6 DEF DragInv, RowsOwed, SameRow
<1>8. OrderOwed' /\ BagsOwed'
  BY <1>1, <1>3, <1>6, Halves DEF DragInv, OrderOwed, BagsOwed
<1> QED BY <1>4, <1>7, <1>8 DEF DragInv

\* The server may put it elsewhere than the page did.
LEMMA ServeMoveStep ==
  ASSUME DragInv, NEW r \in DragRow, ServeMove(r)
  PROVE  DragInv'
<1>1. /\ moving[r] # None
      /\ UNCHANGED <<seen, reorder, removing, ticking, due>>
  BY DEF ServeMove
<1>2. /\ Laid(kept') /\ kept'.order = kept.order /\ kept'.packed = kept.packed
      /\ kept'.bags = kept.bags
      /\ \A q \in DragRow \ {r} : kept'.loc[q] = kept.loc[q] /\ kept'.rank[q] = kept.rank[q]
  <2> DEFINE p == moving[r].to
             n == NextUnionPackRank(p)
  <2>1. kept' = kept \/ kept' = PutIn(kept, r, p, n)
    BY DEF ServeMove
  <2> HIDE DEF p, n
  <2>2. Laid(kept)
    BY DEF DragInv, WritesInv
  <2>3. RowPut(kept, PutIn(kept, r, p, n), r)
    BY <2>2, PutRow
  <2>4. RowPut(kept, kept', r)
    BY <2>1, <2>2, <2>3 DEF RowPut
  <2> QED BY <2>4 DEF RowPut
<1>3. MovingOk' /\ moving'[r] # None /\ \A q \in DragRow \ {r} : moving'[q] = moving[q]
  BY MoveServed DEF DragInv
<1>4. WritesInv'
  BY <1>1, <1>2, <1>3 DEF DragInv, WritesInv, ReorderOk, Laid, RemovingOk, TickingOk
<1>5. Owing(Half(r))' /\ \A h : Owing(h) => Owing(h)'
  BY <1>1, <1>3 DEF Owing
<1> QED BY <1>1, <1>2, <1>4, <1>5 DEF DragInv, RowsOwed, SameRow, OrderOwed, BagsOwed

\* The answer of a move, or its failure, has its half read again.
LEMMA SettleMoveStep ==
  ASSUME DragInv, NEW r \in DragRow, MoveSaved(r) \/ MoveFailed(r)
  PROVE  DragInv'
<1>1. /\ moving' = [moving EXCEPT ![r] = None] /\ due' = due \cup {Half(r)}
      /\ UNCHANGED <<kept, reorder, removing, ticking>>
  BY DEF MoveSaved, MoveFailed, SettleMove
<1>2. /\ Laid(seen') /\ seen'.order = seen.order /\ seen'.packed = seen.packed
      /\ seen'.bags = seen.bags
      /\ \A q \in DragRow \ {r} : seen'.loc[q] = seen.loc[q] /\ seen'.rank[q] = seen.rank[q]
  <2> DEFINE p == moving[r].loc
             n == moving[r].rank
  <2>1. seen' = seen \/ seen' = PutIn(seen, r, p, n)
    BY DEF MoveSaved, MoveFailed
  <2> HIDE DEF p, n
  <2>2. Laid(seen)
    BY DEF DragInv, WritesInv
  <2>3. RowPut(seen, PutIn(seen, r, p, n), r)
    BY <2>2, PutRow
  <2>4. RowPut(seen, seen', r)
    BY <2>1, <2>2, <2>3 DEF RowPut
  <2> QED BY <2>4 DEF RowPut
<1>3. MovingOk' /\ \A q \in DragRow \ {r} : moving'[q] = moving[q]
  BY <1>1 DEF DragInv, WritesInv, MovingOk, MoveOk
<1>4. WritesInv'
  BY <1>1, <1>2, <1>3 DEF DragInv, WritesInv, ReorderOk, Laid, RemovingOk, TickingOk
<1>5. Owing(Half(r))' /\ \A h : Owing(h) => Owing(h)'
  BY <1>1, <1>3 DEF Owing
<1> QED BY <1>1, <1>2, <1>4, <1>5 DEF DragInv, RowsOwed, SameRow, OrderOwed, BagsOwed

\* The deletion of a bag, which every half is read after.
LEMMA StartRemoveStep ==
  ASSUME DragInv, NEW b \in DragBag, StartRemoveBag(b)
  PROVE  DragInv'
<1>1. /\ removing' = [is |-> "remove", bag |-> b, before |-> seen.bags, stage |-> "sent"]
      /\ seen' = [seen EXCEPT !.bags = @ \ {b}]
      /\ reorder' = Overlapped(reorder)
      /\ moving' = [r \in DragRow |-> Overlapped(moving[r])]
      /\ UNCHANGED <<kept, ticking>>
  BY DEF StartRemoveBag
<1>2. Laid(seen') /\ RemovingOk' /\ removing' # None
  BY <1>1 DEF DragInv, WritesInv, Laid, RemovingOk, None
<1>3. WritesInv'
  BY <1>1, <1>2, OverlapAll, OverlapReorder DEF DragInv, WritesInv, Laid, TickingOk
<1> QED BY <1>2, <1>3 DEF DragInv, RowsOwed, OrderOwed, BagsOwed, Owing

\* Rows that fall out of a deleted bag move at the server alone.
LEMMA ServeRemoveStep ==
  ASSUME DragInv, ServeRemove
  PROVE  DragInv'
<1> DEFINE loc == [r \in DragRow |-> IF kept.loc[r] = removing.bag THEN Nowhere ELSE kept.loc[r]]
           rank == Patched(kept.rank, Spilled(removing.bag))
           bags == kept.bags \ {removing.bag}
<1>1. /\ removing # None /\ removing' = [removing EXCEPT !.stage = "done"]
      /\ kept' = [kept EXCEPT !.bags = bags, !.rank = rank, !.loc = loc]
      /\ UNCHANGED <<seen, reorder, moving, ticking>>
  BY DEF ServeRemove
<1>2. /\ loc = [r \in DragRow |-> loc[r]] /\ rank = [r \in DragRow |-> rank[r]]
      /\ bags \subseteq DragBag
  BY DEF Patched, DragInv, WritesInv, Laid
<1> HIDE DEF loc, rank, bags
<1>3. kept' = [loc |-> loc, rank |-> rank, order |-> kept.order, packed |-> kept.packed,
               bags |-> bags]
  BY <1>1 DEF DragInv, WritesInv, Laid
<1>4. Laid(kept')
  BY <1>2, <1>3 DEF DragInv, WritesInv, Laid
<1>5. /\ removing' = [is |-> "remove", bag |-> removing.bag, before |-> removing.before,
                      stage |-> "done"]
      /\ removing.before \subseteq DragBag
  BY <1>1 DEF DragInv, WritesInv, RemovingOk
<1>6. removing'.is = "remove" /\ RemovingOk'
  BY <1>5 DEF RemovingOk
<1>7. WritesInv'
  BY <1>1, <1>4, <1>6 DEF DragInv, WritesInv, Laid, ReorderOk, MovingOk, MoveOk, TickingOk
<1> QED BY <1>6, <1>7 DEF DragInv, RowsOwed, OrderOwed, BagsOwed, Owing, None

\* The answer of a deletion, or its failure, has everything read again.
LEMMA BagRemovedStep ==
  ASSUME DragInv, NEW saved \in BOOLEAN, BagRemoved(saved)
  PROVE  DragInv'
<1>1. /\ seen' = seen \/ seen' = [seen EXCEPT !.bags = removing.before]
      /\ removing # None /\ removing' = None /\ due' = due \cup {"bags", "gear", "food"}
      /\ UNCHANGED <<kept, reorder, moving, ticking>>
  BY DEF BagRemoved
<1>2. Laid(seen')
  <2>1. Laid(seen) /\ removing.before \subseteq DragBag
    BY <1>1 DEF DragInv, WritesInv, RemovingOk
  <2> QED BY <1>1, <2>1 DEF Laid
<1>3. WritesInv'
  BY <1>1, <1>2 DEF DragInv, WritesInv, Laid, ReorderOk, MovingOk, MoveOk, RemovingOk, TickingOk
<1> QED BY <1>1, <1>3, Halves DEF DragInv, RowsOwed, OrderOwed, BagsOwed, Owing

\* A checkbox.
LEMMA StartTickStep ==
  ASSUME DragInv, NEW r \in DragRow, StartTick(r)
  PROVE  DragInv'
<1>1. /\ ticking' = [is |-> "tick", row |-> r, stage |-> "sent"]
      /\ seen' = [seen EXCEPT !.packed = Toggled(@, r)]
      /\ due' = due \ {Half(r)} /\ ticking = None
      /\ UNCHANGED <<kept, reorder, moving, removing>>
  BY DEF StartTick
<1>2. /\ Laid(seen') /\ seen'.loc = seen.loc /\ seen'.rank = seen.rank
      /\ seen'.order = seen.order /\ seen'.bags = seen.bags
      /\ seen'.packed = Toggled(seen.packed, r)
  BY <1>1 DEF DragInv, WritesInv, Laid, Toggled
<1>3. TickingOk' /\ ticking' # None /\ ticking'.row = r
  BY <1>1 DEF TickingOk, None
<1>4. WritesInv'
  BY <1>1, <1>2, <1>3 DEF DragInv, WritesInv, Laid, ReorderOk, MovingOk, MoveOk, RemovingOk
<1>5. Owing(Half(r))' /\ \A h : Owing(h) => Owing(h)'
  BY <1>1, <1>3 DEF Owing
<1>6. \A q \in DragRow \ {r} : q \in seen'.packed <=> q \in seen.packed
  BY <1>2 DEF Toggled
<1>7. RowsOwed'
  BY <1>1, <1>2, <1>5, <1>6 DEF DragInv, RowsOwed, SameRow
<1>8. OrderOwed' /\ BagsOwed'
  BY <1>1, <1>2, <1>5, Halves DEF DragInv, OrderOwed, BagsOwed
<1> QED BY <1>4, <1>7, <1>8 DEF DragInv

\* The checkbox at the server.
LEMMA ServeTickStep ==
  ASSUME DragInv, ServeTick
  PROVE  DragInv'
<1>a. PICK r : r = ticking.row
  OBVIOUS
<1>1. /\ ticking # None /\ ticking' = [ticking EXCEPT !.stage = "done"]
      /\ kept' = [kept EXCEPT !.packed = Toggled(@, r)]
      /\ UNCHANGED <<seen, reorder, moving, removing, due>>
  BY <1>a DEF ServeTick
<1>2. r \in DragRow /\ ticking' = [is |-> "tick", row |-> r, stage |-> "done"]
  BY <1>a, <1>1 DEF DragInv, WritesInv, TickingOk
<1>3. ticking'.is = "tick" /\ ticking'.row = r /\ TickingOk'
  BY <1>2 DEF TickingOk
<1>4. /\ Laid(kept') /\ kept'.loc = kept.loc /\ kept'.rank = kept.rank
      /\ kept'.order = kept.order /\ kept'.bags = kept.bags
      /\ kept'.packed = Toggled(kept.packed, r)
  BY <1>1, <1>2 DEF DragInv, WritesInv, Laid, Toggled
<1>5. WritesInv'
  BY <1>1, <1>3, <1>4 DEF DragInv, WritesInv, Laid, ReorderOk, MovingOk, MoveOk, RemovingOk
<1>6. Owing(Half(r))' /\ \A h : Owing(h) => Owing(h)'
  BY <1>a, <1>1, <1>3 DEF Owing, None
<1>7. \A q \in DragRow \ {r} : q \in kept'.packed <=> q \in kept.packed
  BY <1>4 DEF Toggled
<1>8. ASSUME NEW q \in DragRow PROVE SameRow(q)' \/ Owing(Half(q))'
  <2>1. CASE q = r
    BY <2>1, <1>6
  <2>2. CASE q # r
    <3>1. SameRow(q) => SameRow(q)'
      BY <2>2, <1>1, <1>4, <1>7 DEF SameRow
    <3> QED BY <3>1, <1>6 DEF DragInv, RowsOwed
  <2> QED BY <2>1, <2>2
<1>9. OrderOwed' /\ BagsOwed'
  BY <1>1, <1>4, <1>6 DEF DragInv, OrderOwed, BagsOwed
<1> QED BY <1>5, <1>8, <1>9 DEF DragInv, RowsOwed

\* Its answer, or its failure.
LEMMA TickAnsweredStep ==
  ASSUME DragInv, NEW saved \in BOOLEAN, TickAnswered(saved)
  PROVE  DragInv'
<1>a. PICK r : r = ticking.row
  OBVIOUS
<1>1. /\ ticking # None /\ ticking' = None
      /\ seen' = seen \/ seen' = [seen EXCEPT !.packed = Toggled(@, r)]
      /\ due' = due \cup {Half(r)}
      /\ UNCHANGED <<kept, reorder, moving, removing>>
  BY <1>a DEF TickAnswered
<1>2. r \in DragRow
  BY <1>a, <1>1 DEF DragInv, WritesInv, TickingOk
<1>3. /\ Laid(seen') /\ seen'.loc = seen.loc /\ seen'.rank = seen.rank
      /\ seen'.order = seen.order /\ seen'.bags = seen.bags
      /\ seen'.packed \in {seen.packed, Toggled(seen.packed, r)}
  <2>1. Laid(seen)
    BY DEF DragInv, WritesInv
  <2> QED BY <1>1, <1>2, <2>1 DEF Laid, Toggled
<1>4. WritesInv'
  BY <1>1, <1>3 DEF DragInv, WritesInv, Laid, ReorderOk, MovingOk, MoveOk, RemovingOk, TickingOk
<1>5. Owing(Half(r))' /\ \A h : Owing(h) => Owing(h)'
  <2>1. Half(r) \in due'
    BY <1>1
  <2>2. Owing(Half(r))'
    BY <2>1 DEF Owing
  <2>3. ASSUME NEW h, Owing(h) PROVE Owing(h)'
    <3>1. CASE h = Half(r)
      BY <3>1, <2>2
    <3>2. CASE h # Half(r)
      BY <3>2, <2>3, <1>a, <1>1 DEF Owing
    <3> QED BY <3>1, <3>2
  <2> QED BY <2>2, <2>3
<1>6. \A q \in DragRow \ {r} : q \in seen'.packed <=> q \in seen.packed
  BY <1>3 DEF Toggled
<1>7. ASSUME NEW q \in DragRow PROVE SameRow(q)' \/ Owing(Half(q))'
  <2>1. CASE q = r
    BY <2>1, <1>5
  <2>2. CASE q # r
    <3>1. SameRow(q) => SameRow(q)'
      BY <2>2, <1>1, <1>3, <1>6 DEF SameRow
    <3> QED BY <3>1, <1>5 DEF DragInv, RowsOwed
  <2> QED BY <2>1, <2>2
<1>8. OrderOwed' /\ BagsOwed'
  BY <1>1, <1>3, <1>5 DEF DragInv, OrderOwed, BagsOwed
<1> QED BY <1>4, <1>7, <1>8 DEF DragInv, RowsOwed

\* The reorder at the server.
LEMMA ServeReorderStep ==
  ASSUME DragInv, ServeReorder
  PROVE  DragInv'
<1>a. PICK w : w = reorder
  OBVIOUS
<1>1. /\ w # None
      /\ w = [is |-> w.is, asked |-> w.asked, values |-> w.values, before |-> w.before,
              stage |-> w.stage, clean |-> w.clean]
      /\ w.is \in {"pack", "list"} /\ DOMAIN w.values = Range(w.asked) /\ Laid(w.before)
  BY <1>a DEF ServeReorder, DragInv, WritesInv, ReorderOk
<1>2. PICK st : reorder' = [w EXCEPT !.stage = st]
  BY <1>a DEF ServeReorder
<1>3. reorder' = [is |-> w.is, asked |-> w.asked, values |-> w.values, before |-> w.before,
                  stage |-> st, clean |-> w.clean]
  BY <1>1, <1>2
<1>4. ReorderOk' /\ reorder' # None /\ reorder'.is = w.is
  <2>1. reorder'.is = w.is /\ reorder'.asked = w.asked /\ reorder'.values = w.values
        /\ reorder'.before = w.before /\ reorder'.stage = st /\ reorder'.clean = w.clean
    BY <1>3
  <2> QED BY <1>1, <1>3, <2>1 DEF ReorderOk, Laid, None
<1>5. UNCHANGED <<seen, moving, removing, ticking, due>>
  BY DEF ServeReorder
<1>6. \A h : Owing(h) => Owing(h)'
  BY <1>a, <1>4, <1>5 DEF Owing, RereadAfter
<1>7. Laid(kept)
  BY DEF DragInv, WritesInv
<1>8. CASE w.is = "pack"
  <2>1. kept' = kept \/ kept' = [kept EXCEPT !.rank = Patched(@, w.values)]
    BY <1>8, <1>a DEF ServeReorder
  <2>2. /\ Laid(kept') /\ kept'.order = kept.order /\ kept'.packed = kept.packed
        /\ kept'.bags = kept.bags
    <3>1. CASE kept' = kept
      BY <3>1, <1>7 DEF Laid
    <3>2. CASE kept' = [kept EXCEPT !.rank = Patched(@, w.values)]
      BY <3>2, <1>7, PatchRanks
    <3> QED BY <2>1, <3>1, <3>2
  <2>3. WritesInv'
    BY <1>4, <1>5, <2>2 DEF DragInv, WritesInv, Laid, MovingOk, MoveOk, RemovingOk, TickingOk
  <2>4. \A h \in {"gear", "food"} : Owing(h)'
    BY <1>4, <1>8 DEF Owing, RereadAfter
  <2> QED BY <1>5, <2>2, <2>3, <2>4, Halves DEF DragInv, RowsOwed, OrderOwed, BagsOwed
<1>9. CASE w.is = "list"
  <2>1. kept' = [kept EXCEPT !.order = Patched(@, w.values)]
    BY <1>9, <1>a DEF ServeReorder
  <2>2. /\ Laid(kept') /\ kept'.loc = kept.loc /\ kept'.rank = kept.rank
        /\ kept'.packed = kept.packed /\ kept'.bags = kept.bags
    BY <1>7, <2>1, PatchOrder
  <2>3. WritesInv'
    BY <1>4, <1>5, <2>2 DEF DragInv, WritesInv, Laid, MovingOk, MoveOk, RemovingOk, TickingOk
  <2>4. Owing("gear")'
    BY <1>4, <1>9 DEF Owing, RereadAfter
  <2>5. RowsOwed'
    BY <1>5, <1>6, <2>2 DEF DragInv, RowsOwed, SameRow
  <2> QED BY <1>5, <2>2, <2>3, <2>4, <2>5 DEF DragInv, OrderOwed, BagsOwed
<1> QED BY <1>1, <1>8, <1>9

\* What restoring the items of before a drop makes of the page.
LEMMA ItemsBack ==
  ASSUME WritesInv, reorder # None
  PROVE  /\ Laid(RestoreItems(reorder)) /\ RestoreItems(reorder).bags = seen.bags
         /\ \A r \in DragRow : Half(r) = "food" =>
              /\ RestoreItems(reorder).loc[r] = seen.loc[r]
              /\ RestoreItems(reorder).rank[r] = seen.rank[r]
              /\ r \in RestoreItems(reorder).packed <=> r \in seen.packed
<1> DEFINE w == reorder
           loc == Patched(seen.loc, [g \in DragGear |-> w.before.loc[g]])
           rank == Patched(seen.rank, [g \in DragGear |-> w.before.rank[g]])
           packed == (seen.packed \cap DragFood) \cup (w.before.packed \cap DragGear)
           t == RestoreItems(w)
<1>1. t = [seen EXCEPT !.loc = loc, !.rank = rank, !.order = w.before.order, !.packed = packed]
  BY DEF RestoreItems
<1>2. /\ loc = [r \in DragRow |-> IF r \in DragGear THEN w.before.loc[r] ELSE seen.loc[r]]
      /\ rank = [r \in DragRow |-> IF r \in DragGear THEN w.before.rank[r] ELSE seen.rank[r]]
  BY DEF Patched, WritesInv, Laid
<1>3. packed \subseteq DragRow /\ \A r \in DragRow : Half(r) = "food" =>
         r \notin DragGear /\ (r \in packed <=> r \in seen.packed)
  BY DEF WritesInv, Laid, Half, DragRow
<1>4. w.before.order = [g \in DragGear |-> w.before.order[g]] /\ seen.bags \subseteq DragBag
  BY DEF WritesInv, ReorderOk, Laid
<1> HIDE DEF w, loc, rank, packed, t
<1>5. t = [loc |-> loc, rank |-> rank, order |-> w.before.order, packed |-> packed,
           bags |-> seen.bags]
  BY <1>1 DEF WritesInv, Laid
<1>6. Laid(t) /\ t.bags = seen.bags
  BY <1>2, <1>3, <1>4, <1>5 DEF Laid
<1>7. \A r \in DragRow : Half(r) = "food" =>
         t.loc[r] = seen.loc[r] /\ t.rank[r] = seen.rank[r] /\ (r \in t.packed <=> r \in seen.packed)
  BY <1>2, <1>3, <1>5
<1> QED BY <1>6, <1>7 DEF t, w

\* The answer of a reorder, or its failure, has what it touched read again.
LEMMA SettleReorderStep ==
  ASSUME DragInv, ReorderSaved \/ ReorderFailed
  PROVE  DragInv'
<1>1. /\ reorder # None /\ reorder' = None /\ due' = due \cup RereadAfter(reorder)
      /\ UNCHANGED <<kept, moving, removing, ticking>>
  BY DEF ReorderSaved, ReorderFailed, SettleReorder
<1>2. reorder.is \in {"pack", "list"} /\ WritesInv /\ Laid(seen)
  BY <1>1 DEF DragInv, WritesInv, ReorderOk
<1>3. /\ Laid(seen') /\ seen'.bags = seen.bags
      /\ reorder.is = "list" => \A r \in DragRow : Half(r) = "food" =>
           /\ seen'.loc[r] = seen.loc[r] /\ seen'.rank[r] = seen.rank[r]
           /\ r \in seen'.packed <=> r \in seen.packed
  <2>1. CASE seen' = seen
    BY <2>1, <1>2 DEF Laid
  <2>2. CASE seen' = RestoreItems(reorder)
    BY <2>2, <1>1, <1>2, ItemsBack DEF Laid
  <2>3. CASE reorder.is = "pack" /\ seen' = RestoreRanks(reorder)
    <3> DEFINE v == [r \in DOMAIN reorder.values |-> reorder.before.rank[r]]
    <3>1. seen' = [seen EXCEPT !.rank = Patched(@, v)]
      BY <2>3 DEF RestoreRanks
    <3> HIDE DEF v
    <3> QED BY <2>3, <3>1, <1>2, PatchRanks
  <2> QED BY <1>2, <2>1, <2>2, <2>3 DEF ReorderSaved, ReorderFailed
<1>4. WritesInv'
  BY <1>1, <1>2, <1>3 DEF WritesInv, Laid, ReorderOk, MovingOk, MoveOk, RemovingOk, TickingOk
<1>5. \A h : Owing(h) => Owing(h)'
  BY <1>1 DEF Owing
<1>6. Owing("gear")' /\ (reorder.is = "pack" => Owing("food")')
  BY <1>1, <1>2 DEF Owing, RereadAfter
<1>7. ASSUME NEW r \in DragRow PROVE SameRow(r)' \/ Owing(Half(r))'
  <2>1. CASE reorder.is = "list" /\ Half(r) = "food"
    BY <2>1, <1>1, <1>3, <1>5 DEF DragInv, RowsOwed, SameRow
  <2>2. CASE ~ (reorder.is = "list" /\ Half(r) = "food")
    BY <2>2, <1>2, <1>6, Halves
  <2> QED BY <2>1, <2>2
<1>8. BagsOwed'
  BY <1>1, <1>3 DEF DragInv, BagsOwed
<1> QED BY <1>4, <1>6, <1>7, <1>8 DEF DragInv, RowsOwed, OrderOwed

\* A read, after which its half of the page is the server's.
LEMMA LandStep ==
  ASSUME DragInv, NEW h \in {"gear", "food", "bags"}, Land(h)
  PROVE  DragInv'
<1> DEFINE half == {r \in DragRow : Half(r) = h}
           loc == Patched(seen.loc, [r \in half |-> kept.loc[r]])
           rank == Patched(seen.rank, [r \in half |-> kept.rank[r]])
           order == IF h = "gear" THEN kept.order ELSE seen.order
           packed == (seen.packed \ half) \cup (kept.packed \cap half)
<1>1. /\ due' = due \ {h} /\ reorder' = Overlapped(reorder)
      /\ moving' = [r \in DragRow |-> Overlapped(moving[r])]
      /\ UNCHANGED <<kept, removing, ticking>>
  BY DEF Land
<1>2. Laid(seen) /\ Laid(kept) /\ WritesInv
  BY DEF DragInv, WritesInv
<1>3. /\ loc = [r \in DragRow |-> IF r \in half THEN kept.loc[r] ELSE seen.loc[r]]
      /\ rank = [r \in DragRow |-> IF r \in half THEN kept.rank[r] ELSE seen.rank[r]]
      /\ packed \subseteq DragRow
      /\ order = [g \in DragGear |-> order[g]]
      /\ \A r \in DragRow : r \in packed <=> IF r \in half THEN r \in kept.packed ELSE r \in seen.packed
  BY <1>2 DEF Patched, Laid
<1>4. \A k : k # h /\ Owing(k) => Owing(k)'
  BY <1>1, <1>2, OverlapAll, OverlapReorder DEF Owing
<1>5. CASE h = "bags"
  <2>1. seen' = [seen EXCEPT !.bags = kept.bags]
    BY <1>5 DEF Land
  <2>2. /\ Laid(seen') /\ seen'.loc = seen.loc /\ seen'.rank = seen.rank
        /\ seen'.order = seen.order /\ seen'.packed = seen.packed /\ seen'.bags = kept.bags
    BY <2>1, <1>2 DEF Laid
  <2>3. WritesInv'
    BY <1>1, <1>2, <2>2, OverlapAll, OverlapReorder DEF WritesInv, Laid, RemovingOk, TickingOk
  <2>4. RowsOwed' /\ OrderOwed'
    BY <1>1, <1>4, <1>5, <2>2, Halves DEF DragInv, RowsOwed, SameRow, OrderOwed
  <2> QED BY <1>1, <2>2, <2>3, <2>4 DEF DragInv, BagsOwed
<1>6. CASE h # "bags"
  <2>1. seen' = [seen EXCEPT !.loc = loc, !.rank = rank, !.order = order, !.packed = packed]
    BY <1>6 DEF Land
  <2> HIDE DEF loc, rank, order, packed
  <2>2. seen' = [loc |-> loc, rank |-> rank, order |-> order, packed |-> packed, bags |-> seen.bags]
    BY <2>1, <1>2 DEF Laid
  <2>3. /\ seen'.loc = loc /\ seen'.rank = rank /\ seen'.order = order
        /\ seen'.packed = packed /\ seen'.bags = seen.bags
    BY <2>2
  <2>4. Laid(seen')
    BY <1>2, <1>3, <2>2 DEF Laid
  <2>5. WritesInv'
    BY <1>1, <1>2, <2>4, OverlapAll, OverlapReorder DEF WritesInv, Laid, RemovingOk, TickingOk
  <2>6. ASSUME NEW r \in DragRow PROVE SameRow(r)' \/ Owing(Half(r))'
    <3>1. CASE r \in half
      BY <3>1, <1>1, <1>3, <2>3 DEF SameRow
    <3>2. CASE r \notin half
      <4>1. SameRow(r) => SameRow(r)'
        BY <3>2, <1>1, <1>3, <2>3 DEF SameRow
      <4> QED BY <3>2, <4>1, <1>4 DEF DragInv, RowsOwed
    <3> QED BY <3>1, <3>2
  <2>7. OrderOwed'
    BY <1>1, <1>4, <2>3 DEF DragInv, OrderOwed, order
  <2>8. BagsOwed'
    BY <1>1, <1>6, <2>3 DEF DragInv, BagsOwed
  <2> QED BY <2>5, <2>6, <2>7, <2>8 DEF DragInv, RowsOwed
<1> QED BY <1>5, <1>6

-----------------------------------------------------------------------------
(* The invariant                                                           *)

\* A drop hands its values to the half it asks for.
LEMMA Handed ==
  ASSUME NEW moved, NEW slots
  PROVE  DOMAIN HandOut(moved, slots) = Range(moved)
BY DEF HandOut

\* Every drop starts one of these writes, for the rows it asks for.
LEMMA DropsStep ==
  ASSUME DragInv, Drops
  PROVE  DragInv'
<1>1. ASSUME NEW r \in DragRow, NEW o \in DragRow, DropRowOver(r, o) PROVE DragInv'
  <2> DEFINE asked == Dropped(UnionPackRows(VisibleCohort(r, ReorderExclusions)), r, o)
             values == PlanUnionReorder(r, o, ReorderExclusions)
  <2>1. DOMAIN values = Range(asked)
    BY Handed DEF PlanUnionReorder
  <2>2. \/ StartPackReorder(asked, values) /\ reorder = None
        \/ RequestMove(r, Normalize(o))
    BY <1>1 DEF DropRowOver, AnyItemReorderPending
  <2> HIDE DEF asked, values
  <2> QED BY <2>1, <2>2, PackReorderStep, RequestMoveStep
<1>2. ASSUME NEW r \in DragRow, NEW p, DropRowInto(r, p) \/ NestInto(r, p) \/ MenuMove(r, p)
      PROVE  DragInv'
  BY <1>2, RequestMoveStep DEF DropRowInto, NestInto, MenuMove
<1>3. ASSUME NEW r \in DragGear, NEW o \in DragGear, DropInCategory(r, o) PROVE DragInv'
  <2> DEFINE asked == Dropped(UnionPackRows(CategoryRows(r)), r, o)
             values == PlanPackCategory(r, o)
  <2>1. DOMAIN values = Range(asked)
    BY Handed DEF PlanPackCategory
  <2>2. StartPackReorder(asked, values) /\ reorder = None
    BY <1>3 DEF DropInCategory, AnyItemReorderPending
  <2> HIDE DEF asked, values
  <2> QED BY <2>1, <2>2, PackReorderStep
<1>4. ASSUME NEW r \in DragFood, NEW o \in DragFood, DropAmongFood(r, o) PROVE DragInv'
  <2> DEFINE excluded == ReorderExclusions \cup DragGear
             asked == Dropped(UnionPackRows(VisibleCohort(r, excluded)), r, o)
             values == PlanUnionReorder(r, o, excluded)
  <2>1. DOMAIN values = Range(asked)
    BY Handed DEF PlanUnionReorder
  <2>2. StartPackReorder(asked, values) /\ reorder = None
    BY <1>4 DEF DropAmongFood, AnyItemReorderPending
  <2> HIDE DEF asked, values
  <2> QED BY <2>1, <2>2, PackReorderStep
<1>5. ASSUME NEW r \in DragGear, NEW o \in DragGear, DropInDocument(r, o) PROVE DragInv'
  <2> DEFINE asked == Dropped(DocumentRows(CategoryRows(r)), r, o)
             values == PlanDocument(r, o)
  <2>1. DOMAIN values = Range(asked)
    BY Handed DEF PlanDocument
  <2>2. StartDocumentReorder(asked, values) /\ reorder = None
    BY <1>5 DEF DropInDocument, AnyItemReorderPending
  <2> HIDE DEF asked, values
  <2> QED BY <2>1, <2>2, DocumentReorderStep
<1> QED BY <1>1, <1>2, <1>3, <1>4, <1>5 DEF Drops

\* What the steps keep, together.
LEMMA DragStep == DragInv /\ [DragNext]_dragVars => DragInv'
<1> SUFFICES ASSUME DragInv, [DragNext]_dragVars PROVE DragInv'
  OBVIOUS
<1>1. CASE Drops
  BY <1>1, DropsStep
<1>2. CASE Serves
  BY <1>2, ServeReorderStep, ServeRemoveStep, ServeTickStep, ServeMoveStep DEF Serves
<1>3. CASE Answers
  BY <1>3, SettleReorderStep, SettleMoveStep, BagRemovedStep, TickAnsweredStep,
     LandStep DEF Answers
<1>4. CASE (\E b \in DragBag : StartRemoveBag(b)) \/ (\E r \in DragRow : StartTick(r))
  BY <1>4, StartRemoveStep, StartTickStep
<1>5. CASE UNCHANGED <<kept, seen, reorder, moving, removing, ticking, due>>
  BY <1>5 DEF DragInv, WritesInv, Laid, ReorderOk, MovingOk, MoveOk, RemovingOk, TickingOk,
              RowsOwed, SameRow, OrderOwed, BagsOwed, Owing
<1> QED BY <1>1, <1>2, <1>3, <1>4, <1>5 DEF DragNext, SwitchView, dragVars

\* The page opens on what the server holds.
LEMMA DragBegin == DragInit => DragInv
<1> SUFFICES ASSUME DragInit PROVE DragInv
  OBVIOUS
<1>1. kept \in Placement /\ seen = kept
  BY DragAssumption DEF DragInit
<1>2. Laid(kept)
  BY <1>1 DEF Placement, Laid
<1>3. WritesInv
  BY <1>1, <1>2 DEF DragInit, WritesInv, Laid, ReorderOk, MovingOk, MoveOk, RemovingOk,
     TickingOk
<1> QED BY <1>1, <1>3 DEF DragInv, RowsOwed, SameRow, OrderOwed, BagsOwed

\* Whatever is dropped, moved, deleted, ticked, refused or read, in any order

\* (lists/use-list-dnd.ts, lists/use-list-item-actions.ts, lib/queries/optimistic.ts), a row
\* that the page shows otherwise than the server holds it is owed a read.
THEOREM DragInvariant == DragSpec => []DragInv
BY DragBegin, DragStep, PTL DEF DragSpec

\* Once nothing is under way the page shows what the server holds.
THEOREM QuietPages == DragSpec => []QuietAgrees
<1>1. ASSUME DragInv, AtRest PROVE seen = kept
  <2>1. \A h : ~ Owing(h)
    BY <1>1 DEF AtRest, Owing, Moves
  <2>2. Laid(seen) /\ Laid(kept)
    BY <1>1 DEF DragInv, WritesInv
  <2>3. \A r \in DragRow : SameRow(r)
    BY <1>1, <2>1 DEF DragInv, RowsOwed
  <2>4. seen.loc = kept.loc /\ seen.rank = kept.rank /\ seen.packed = kept.packed
    BY <2>2, <2>3 DEF Laid, SameRow
  <2>5. seen.order = kept.order /\ seen.bags = kept.bags
    BY <1>1, <2>1 DEF DragInv, OrderOwed, BagsOwed, AtRest
  <2> QED BY <2>2, <2>4, <2>5 DEF Laid
<1>2. DragInv => QuietAgrees
  BY <1>1 DEF QuietAgrees
<1> QED BY <1>2, DragInvariant, PTL
-----------------------------------------------------------------------------
(* What ends a write                                                       *)

\* Only its answer or its failure ends a move.
LEMMA EndOfMove ==
  ASSUME DragInv, [DragNext]_dragVars, NEW r \in DragRow, moving[r] # None, moving'[r] = None
  PROVE  MoveSaved(r) \/ MoveFailed(r)
<1>1. ASSUME NEW is \in {"pack", "list"}, NEW asked, NEW values, SendReorder(is, asked, values)
      PROVE  FALSE
  <2>1. moving' = [q \in DragRow |-> Overlapped(moving[q])]
    BY <1>1 DEF SendReorder
  <2> QED BY <2>1, OverlapAll DEF DragInv
<1>2. ASSUME NEW asked, NEW values, StartPackReorder(asked, values) \/ StartDocumentReorder(asked, values)
      PROVE  FALSE
  BY <1>1, <1>2 DEF StartPackReorder, StartDocumentReorder
<1>3. ASSUME NEW q \in DragRow, NEW p, RequestMove(q, p) PROVE FALSE
  BY <1>3, MoveSent, Overlap DEF DragInv
<1>4. ~ Drops
  BY <1>2, <1>3 DEF Drops, DropRowOver, DropRowInto, NestInto, MenuMove, DropInCategory,
                    DropAmongFood, DropInDocument
<1>5. ~ Serves
  BY MoveServed DEF DragInv, Serves, ServeReorder, ServeRemove, ServeTick
<1>6. ASSUME moving' = [q \in DragRow |-> Overlapped(moving[q])] PROVE FALSE
  BY <1>6, OverlapAll DEF DragInv
<1>7. CASE Answers
  <2>1. ASSUME NEW q \in DragRow, MoveSaved(q) \/ MoveFailed(q) PROVE q = r
    BY <2>1 DEF MoveSaved, MoveFailed, SettleMove, DragInv, WritesInv, MovingOk
  <2>2. UNCHANGED moving => FALSE
    OBVIOUS
  <2>3. ReorderSaved \/ ReorderFailed => UNCHANGED moving
    BY DEF ReorderSaved, ReorderFailed, SettleReorder
  <2>4. \A saved \in BOOLEAN : BagRemoved(saved) \/ TickAnswered(saved) => UNCHANGED moving
    BY DEF BagRemoved, TickAnswered
  <2>5. \A h : ~ Land(h)
    BY <1>6 DEF Land
  <2> QED BY <1>7, <2>1, <2>2, <2>3, <2>4, <2>5 DEF Answers
<1>8. \A b \in DragBag : ~ StartRemoveBag(b)
  BY <1>6 DEF StartRemoveBag
<1> QED BY <1>4, <1>5, <1>7, <1>8 DEF DragNext, StartTick, SwitchView, dragVars

\* And only its own ends a reorder.
LEMMA EndOfReorder ==
  ASSUME DragInv, [DragNext]_dragVars, reorder # None, reorder' = None
  PROVE  ReorderSaved \/ ReorderFailed
<1>1. ~ (reorder' = Overlapped(reorder)) /\ ~ UNCHANGED reorder
  BY OverlapReorder DEF DragInv
<1>2. ASSUME NEW is \in {"pack", "list"}, NEW asked, NEW values, SendReorder(is, asked, values)
      PROVE  FALSE
  <2>1. reorder'.is = is
    BY <1>2 DEF SendReorder
  <2> QED BY <2>1 DEF None
<1>3. ASSUME NEW asked, NEW values, StartPackReorder(asked, values) \/ StartDocumentReorder(asked, values)
      PROVE  FALSE
  BY <1>1, <1>2, <1>3 DEF StartPackReorder, StartDocumentReorder
<1>4. ~ Drops
  BY <1>1, <1>3 DEF Drops, DropRowOver, DropRowInto, NestInto, MenuMove, DropInCategory,
                    DropAmongFood, DropInDocument, RequestMove
<1>5. ~ ServeReorder
  <2> SUFFICES ASSUME ServeReorder PROVE FALSE
    OBVIOUS
  <2>1. PICK w : w = reorder
    OBVIOUS
  <2>2. /\ w = [is |-> w.is, asked |-> w.asked, values |-> w.values, before |-> w.before,
                stage |-> w.stage, clean |-> w.clean]
        /\ w.is \in {"pack", "list"}
    BY <2>1 DEF DragInv, WritesInv, ReorderOk
  <2>3. PICK st : reorder' = [w EXCEPT !.stage = st]
    BY <2>1 DEF ServeReorder
  <2>4. reorder'.is = w.is
    BY <2>2, <2>3
  <2> QED BY <2>2, <2>4 DEF None
<1>6. ~ Serves
  BY <1>1, <1>5 DEF Serves, ServeMove, ServeRemove, ServeTick
<1>7. Answers => ReorderSaved \/ ReorderFailed
  BY <1>1 DEF Answers, MoveSaved, MoveFailed, SettleMove, BagRemoved, TickAnswered, Land
<1> QED BY <1>1, <1>4, <1>6, <1>7 DEF DragNext, StartRemoveBag, StartTick, SwitchView, dragVars

-----------------------------------------------------------------------------
(* Rollbacks                                                               *)

\* The conclusion of RollbackLocal: nothing but what the settled write touched is
\* put back.
OnlyItsOwn ==
  /\ seen'.packed = seen.packed /\ seen'.order = seen.order /\ seen'.bags = seen.bags
  /\ \A r \in DragRow :
       \/ seen'.loc[r] = seen.loc[r] /\ seen'.rank[r] = seen.rank[r]
       \/ moving[r] # None /\ moving'[r] = None
       \/ reorder # None /\ r \in Range(reorder.asked)

\* The end of a move touches its row.
LEMMA MoveBack ==
  ASSUME DragInv, NEW r \in DragRow, MoveSaved(r) \/ MoveFailed(r)
  PROVE  OnlyItsOwn
<1>1. moving[r] # None /\ moving'[r] = None
  BY DEF MoveSaved, MoveFailed, SettleMove, DragInv, WritesInv, MovingOk
<1>2. CASE seen' = seen
  BY <1>2 DEF OnlyItsOwn
<1>3. CASE seen' = PutIn(seen, r, moving[r].loc, moving[r].rank)
  <2> DEFINE p == moving[r].loc
             n == moving[r].rank
  <2>1. seen' = PutIn(seen, r, p, n)
    BY <1>3
  <2> HIDE DEF p, n
  <2>2. Laid(seen)
    BY DEF DragInv, WritesInv
  <2>3. RowPut(seen, PutIn(seen, r, p, n), r)
    BY <2>2, PutRow
  <2> QED BY <1>1, <2>1, <2>3 DEF RowPut, OnlyItsOwn
<1> QED BY <1>2, <1>3 DEF MoveSaved, MoveFailed

\* The end of a drop in the pack touches the rows it asked for.
LEMMA ReorderBack ==
  ASSUME DragInv, reorder.is = "pack", ReorderSaved \/ ReorderFailed
  PROVE  OnlyItsOwn
<1>1. /\ reorder # None /\ Laid(seen) /\ DOMAIN reorder.values = Range(reorder.asked)
  BY DEF ReorderSaved, ReorderFailed, DragInv, WritesInv, ReorderOk
<1>2. CASE seen' = seen
  BY <1>2 DEF OnlyItsOwn
<1>3. CASE seen' = RestoreRanks(reorder)
  <2> DEFINE v == [r \in DOMAIN reorder.values |-> reorder.before.rank[r]]
  <2>1. seen' = [seen EXCEPT !.rank = Patched(@, v)] /\ DOMAIN v = Range(reorder.asked)
    BY <1>1, <1>3 DEF RestoreRanks
  <2> HIDE DEF v
  <2>2. /\ seen'.loc = seen.loc /\ seen'.order = seen.order /\ seen'.packed = seen.packed
        /\ seen'.bags = seen.bags
        /\ \A r \in DragRow \ DOMAIN v : seen'.rank[r] = seen.rank[r]
    BY <1>1, <2>1, PatchRanks
  <2> QED BY <1>1, <2>1, <2>2 DEF OnlyItsOwn
<1> QED BY <1>2, <1>3 DEF ReorderSaved, ReorderFailed

\* A pack drop or a move that fails takes back the placement of its own rows alone

\* (onError of the reorders and of moves, lib/queries/optimistic.ts).
THEOREM RollbacksLocal == DragSpec => RollbackLocal
<1>1. ASSUME DragInv, [DragNext]_dragVars, Cardinality(Moves') < Cardinality(Moves)
      PROVE  OnlyItsOwn
  <2>1. ~ (Moves \subseteq Moves')
    <3>1. IsFiniteSet(Moves')
      BY DragAssumption, FS_Subset DEF Moves
    <3>2. Moves \subseteq Moves' => Cardinality(Moves) <= Cardinality(Moves')
      BY <3>1, FS_Subset
    <3>3. Cardinality(Moves) \in Nat /\ Cardinality(Moves') \in Nat
      BY DragAssumption, FS_Subset, FS_CardinalityType DEF Moves
    <3> QED BY <1>1, <3>2, <3>3
  <2>2. PICK r \in DragRow : moving[r] # None /\ moving'[r] = None
    BY <2>1 DEF Moves
  <2> QED BY <1>1, <2>2, EndOfMove, MoveBack
<1>2. ASSUME DragInv, [DragNext]_dragVars, reorder # None, reorder.is = "pack", reorder' = None
      PROVE  OnlyItsOwn
  BY <1>2, EndOfReorder, ReorderBack
<1>3. DragInv /\ [DragNext]_dragVars =>
        [(Cardinality(Moves') < Cardinality(Moves)
            \/ (reorder # None /\ reorder.is = "pack" /\ reorder' = None)) => OnlyItsOwn]_dragVars
  BY <1>1, <1>2
<1> QED BY <1>3, DragInvariant, PTL DEF DragSpec, RollbackLocal, OnlyItsOwn

-----------------------------------------------------------------------------
(* Nesting                                                                 *)

\* No bag of the list is worn.
NoWornBag == \A b \in DragBag : Backs[b] \notin WornGear

\* The bags below b, cut or not.
LEMMA CutNothing ==
  ASSUME NoWornBag, NEW s, NEW B \in SUBSET DragBag, NEW b
  PROVE  Subtree(s, B, b, WornGear) = Subtree(s, B, b, {})
<1>1. \A y \in B : \A x : LiesIn(s, y, x, WornGear) <=> LiesIn(s, y, x, {})
  BY DEF NoWornBag, LiesIn
<1> QED BY <1>1 DEF Subtree

\* Where a bag's own item goes has no bearing on what lies below the bag.
LEMMA BelowStays ==
  ASSUME NEW s, NEW t, NEW r \in DragRow, NEW p, NEW B, NEW b,
         p \notin Subtree(s, B, b, {}), b \in B, Backs \in [DragBag -> DragGear \cup {Nowhere}],
         B \subseteq DragBag,
         s.loc = [q \in DragRow |-> s.loc[q]], t.loc = [s.loc EXCEPT ![r] = p]
  PROVE  p \notin Subtree(t, B, b, {})
<1> SUFFICES ASSUME p \in B
             PROVE  p \notin Subtree(t, B, b, {})
  BY DEF Subtree
<1>1. PICK A \in SUBSET B :
        /\ b \in A /\ p \notin A
        /\ \A x \in A, y \in B : LiesIn(s, y, x, {}) => y \in A
  BY DEF Subtree
<1>2. ASSUME NEW x \in A, NEW y \in B, LiesIn(t, y, x, {}) PROVE y \in A
  <2>1. Backs[y] \in DragRow
    BY <1>2 DEF LiesIn, DragRow, Nowhere
  <2>2. Backs[y] # r
    BY <1>1, <1>2, <2>1 DEF LiesIn
  <2>3. t.loc[Backs[y]] = s.loc[Backs[y]]
    BY <2>1, <2>2
  <2>4. LiesIn(s, y, x, {})
    BY <1>2, <2>3 DEF LiesIn
  <2> QED BY <1>1, <2>4
<1> QED BY <1>1, <1>2 DEF Subtree
\* Nothing is under way but the move of r.
Alone(r) == reorder = None /\ removing = None /\ \A q \in DragRow : moving[q] # None => q = r

\* The bag r backs does not hold the one r is on its way to.
Outside(r) ==
  r \in DragGear =>
    \A b \in PageBags : Backs[b] = r => moving[r].to \notin Subtree(seen, PageBags, b, {})

\* A move that no other write overlaps is the only write of placements there is.
AloneInv == \A r \in DragRow : (moving[r] # None /\ moving[r].clean) => Alone(r) /\ Outside(r)

\* How a clean move comes to be, or stays so.
CleanStart(r) ==
  \E p : /\ RequestMove(r, p) /\ reorder = None
         /\ r \in DragGear => p \notin ContainerMoveExclusions(r)

CleanKept(r) ==
  /\ moving[r] # None /\ moving[r].clean /\ moving'[r].to = moving[r].to
  /\ \A q \in DragRow : moving'[q] # None => moving[q] # None
  /\ reorder = None => reorder' = None
  /\ removing = None => removing' = None
  /\ removing = None => /\ seen'.loc = seen.loc /\ seen'.bags = seen.bags
                        /\ bagsKnown' = bagsKnown

\* A clean move was just started, or is as it was, and so is the page.
LEMMA CleanMoves ==
  ASSUME DragInv, AloneInv, [DragNext]_dragVars, NEW r \in DragRow, moving'[r] # None,
         moving'[r].clean
  PROVE  CleanStart(r) \/ CleanKept(r)
<1>1. WritesInv /\ Laid(seen)
  BY DEF DragInv, WritesInv
<1>2. ASSUME moving' = [q \in DragRow |-> Overlapped(moving[q])] PROVE FALSE
  BY <1>1, <1>2, OverlapAll
<1>3. ASSUME NEW is, NEW asked, NEW values, SendReorder(is, asked, values) PROVE FALSE
  BY <1>2, <1>3 DEF SendReorder
<1>4. ASSUME NEW q \in DragRow, NEW p, RequestMove(q, p) PROVE q = r
  BY <1>1, <1>4, MoveSent, Overlap
<1>5. ASSUME moving' = moving, reorder' = reorder, removing' = removing, bagsKnown' = bagsKnown,
             seen'.loc = seen.loc, seen'.bags = seen.bags
      PROVE  CleanKept(r)
  BY <1>5 DEF CleanKept
<1>6. ASSUME NEW q \in DragRow, ServeMove(q) PROVE CleanKept(r)
  <2>1. UNCHANGED <<seen, bagsKnown, reorder, removing>>
    BY <1>6 DEF ServeMove
  <2>2. moving[r] # None /\ moving[r].clean /\ moving'[r].to = moving[r].to
    BY <1>6, <1>1, MoveServed
  <2>3. \A x \in DragRow : moving'[x] # None => moving[x] # None
    BY <1>6, <1>1, MoveServed
  <2> QED BY <2>1, <2>2, <2>3 DEF CleanKept
<1>7. ASSUME NEW asked, NEW values, StartPackReorder(asked, values) \/ StartDocumentReorder(asked, values)
      PROVE  CleanKept(r)
  <2>1. \/ SendReorder("pack", asked, values) \/ SendReorder("list", asked, values)
        \/ UNCHANGED <<seen, bagsKnown, reorder, moving, removing>>
    BY <1>7 DEF StartPackReorder, StartDocumentReorder
  <2> QED BY <2>1, <1>3, <1>5
<1>8. CASE Drops
  <2>1. ASSUME NEW q \in DragRow, NEW p, RequestMove(q, p), reorder = None,
               q \in DragGear => p \notin ContainerMoveExclusions(q)
        PROVE  CleanStart(r)
    BY <2>1, <1>4 DEF CleanStart
  <2> QED BY <1>8, <1>7, <2>1 DEF Drops, DropRowOver, DropRowInto, NestInto, MenuMove,
     MayDropIn,
             DropInCategory, DropAmongFood, DropInDocument, AnyItemReorderPending,
             ItemDragPending
<1>9. ASSUME moving'[r] = moving[r] PROVE Alone(r)
  BY <1>9 DEF AloneInv
<1>10. CASE Serves
  <2>1. ~ ServeReorder /\ ~ ServeRemove
    BY <1>9 DEF ServeReorder, ServeRemove, Alone
  <2>2. ServeTick => CleanKept(r)
    BY <1>5 DEF ServeTick
  <2> QED BY <1>10, <1>6, <2>1, <2>2 DEF Serves
<1>11. CASE Answers
  <2>1. ASSUME NEW q \in DragRow, MoveSaved(q) \/ MoveFailed(q) PROVE FALSE
    <3>1. moving' = [moving EXCEPT ![q] = None] /\ moving[q] # None
      BY <2>1 DEF MoveSaved, MoveFailed, SettleMove
    <3>2. q # r /\ moving'[r] = moving[r]
      BY <3>1 DEF DragInv, WritesInv, MovingOk
    <3> QED BY <3>1, <3>2, <1>9 DEF Alone
  <2>2. ~ ReorderSaved /\ ~ ReorderFailed
    BY <1>9 DEF ReorderSaved, ReorderFailed, SettleReorder, Alone
  <2>3. \A saved \in BOOLEAN : ~ BagRemoved(saved)
    BY <1>9 DEF BagRemoved, Alone
  <2>4. ASSUME NEW saved \in BOOLEAN, TickAnswered(saved) PROVE CleanKept(r)
    <3>1. PICK S : seen' = seen \/ seen' = [seen EXCEPT !.packed = S]
      BY <2>4 DEF TickAnswered
    <3>2. seen'.loc = seen.loc /\ seen'.bags = seen.bags
      BY <1>1, <3>1 DEF Laid
    <3> QED BY <2>4, <3>2, <1>5 DEF TickAnswered
  <2>5. \A h : ~ Land(h)
    BY <1>2 DEF Land
  <2> QED BY <1>11, <2>1, <2>2, <2>3, <2>4, <2>5 DEF Answers
<1>12. \A b \in DragBag : ~ StartRemoveBag(b)
  BY <1>2 DEF StartRemoveBag
<1>13. ASSUME NEW q \in DragRow, StartTick(q) PROVE CleanKept(r)
  <2>1. PICK S : seen' = [seen EXCEPT !.packed = S]
    BY <1>13 DEF StartTick
  <2>2. seen'.loc = seen.loc /\ seen'.bags = seen.bags
    BY <1>1, <2>1 DEF Laid
  <2> QED BY <1>13, <2>2, <1>5 DEF StartTick
<1>14. CASE SwitchView \/ UNCHANGED dragVars
  BY <1>14, <1>5 DEF SwitchView, dragVars
<1> QED BY <1>8, <1>10, <1>11, <1>12, <1>13, <1>14 DEF DragNext

\* Where no bag is worn, the exclusions of a drop are the whole of the subtree.
LEMMA AloneStep ==
  ASSUME NoWornBag, DragInv, AloneInv, [DragNext]_dragVars
  PROVE  AloneInv'
<1> SUFFICES ASSUME NEW r \in DragRow, moving'[r] # None, moving'[r].clean
             PROVE  Alone(r)' /\ Outside(r)'
  BY DEF AloneInv
<1>1. CASE CleanKept(r)
  <2>1. Alone(r) /\ Outside(r)
    BY <1>1 DEF CleanKept, AloneInv
  <2>2. Alone(r)'
    BY <1>1, <2>1 DEF CleanKept, Alone
  <2>3. /\ PageBags' = PageBags /\ moving'[r].to = moving[r].to
        /\ seen'.loc = seen.loc
    BY <1>1, <2>1 DEF CleanKept, Alone, PageBags
  <2>4. \A B, b : Subtree(seen', B, b, {}) = Subtree(seen, B, b, {})
    BY <2>3 DEF Subtree, LiesIn
  <2>5. Outside(r)'
    BY <2>1, <2>3, <2>4 DEF Outside
  <2> QED BY <2>2, <2>5
<1>2. CASE CleanStart(r)
  <2>1. PICK p : /\ RequestMove(r, p) /\ reorder = None
                 /\ r \in DragGear => p \notin ContainerMoveExclusions(r)
    BY <1>2 DEF CleanStart
  <2>2. /\ moving'[r].to = p /\ moving'[r].clean = InAgreement
        /\ \A q \in DragRow \ {r} : moving'[q] = Overlapped(moving[q])
    BY <2>1, MoveSent DEF DragInv
  <2>3. removing = None /\ Moves = {}
    BY <2>2 DEF InAgreement
  <2>4. Alone(r)'
    BY <2>1, <2>2, <2>3, Overlap DEF Alone, RequestMove, Moves, DragInv
  <2>5. Laid(seen) /\ PageBags \subseteq DragBag
    BY DEF DragInv, WritesInv, Laid, PageBags
  <2>6. /\ seen'.loc = [seen.loc EXCEPT ![r] = p] /\ seen'.bags = seen.bags
        /\ bagsKnown' = bagsKnown
    <3> DEFINE n == NextUnionPackRankFor(p)
    <3>1. seen' = PutIn(seen, r, p, n) /\ bagsKnown' = bagsKnown
      BY <2>1 DEF RequestMove
    <3> HIDE DEF n
    <3>2. RowPut(seen, PutIn(seen, r, p, n), r) /\ PutIn(seen, r, p, n).loc = [seen.loc EXCEPT ![r] = p]
      BY <2>5, PutRow
    <3> QED BY <3>1, <3>2 DEF RowPut
  <2>7. PageBags' = PageBags
    BY <2>6 DEF PageBags
  <2>8. ASSUME r \in DragGear, NEW b \in PageBags, Backs[b] = r
        PROVE  p \notin Subtree(seen', PageBags, b, {})
    <3>1. p \notin Subtree(seen, PageBags, b, WornGear)
      BY <2>1, <2>8 DEF ContainerMoveExclusions, OwnBagOnly
    <3>2. p \notin Subtree(seen, PageBags, b, {})
      BY <3>1, <2>5, CutNothing
    <3>3. seen.loc = [q \in DragRow |-> seen.loc[q]]
      BY <2>5 DEF Laid
    <3> QED BY <2>5, <2>6, <3>2, <3>3, BelowStays, DragAssumption
  <2>9. Outside(r)'
    BY <2>2, <2>7, <2>8 DEF Outside
  <2> QED BY <2>4, <2>9
<1> QED BY <1>1, <1>2, CleanMoves

\* Where no bag is worn, buildContainerMoveExclusions (lists/packing-tree.ts) keeps every
\* bag out of its own subtree: the worn bag of the run drag_worn_bag is the only way in.
THEOREM BagsApart == ASSUME NoWornBag PROVE DragSpec => []NoBagInItself
<1>1. DragInit => AloneInv
  BY DEF DragInit, AloneInv
<1>2. DragInv /\ AloneInv /\ [DragNext]_dragVars => AloneInv'
  BY AloneStep
<1>3. AloneInv => NoBagInItself
  BY DEF AloneInv, Outside, NoBagInItself, DragRow
<1> QED BY <1>1, <1>2, <1>3, DragInvariant, PTL DEF DragSpec

-----------------------------------------------------------------------------
(* Ranks and places: rows in their order                                   *)

\* Ranks and places in the document are natural numbers.
Ranked(s) == (\A r \in DragRow : s.rank[r] \in Nat) /\ (\A g \in DragGear : s.order[g] \in Nat)

\* So are the values that a write hands out.
Numbered(v) == \A r \in DOMAIN v : v[r] \in Nat

\* The rows of S in a row, by whichever of the two.
InRow(line, S) ==
  /\ Cardinality(S) \in Nat /\ line \in Seq(S) /\ Len(line) = Cardinality(S)
  /\ line \in [1 .. Cardinality(S) -> S]
  /\ \A r \in S : \E i \in 1 .. Cardinality(S) : line[i] = r

\* What a sorted set of rows is: each of them once, in the order.
LEMMA Sorted ==
  ASSUME NEW S, IsFiniteSet(S), NEW before, Orders(before, S)
  PROVE  /\ InRow(InOrder(S, before), S)
         /\ \A i, j \in 1 .. Cardinality(S) :
              <<InOrder(S, before)[i], InOrder(S, before)[j]>> \in before <=> i < j
<1>1. PICK n, line : n = Cardinality(S) /\ line = InOrder(S, before)
  OBVIOUS
<1>2. /\ n \in Nat /\ line \in [1 .. n -> S]
      /\ \A x \in S : \E i \in 1 .. n : line[i] = x
      /\ \A i, j \in 1 .. n : <<line[i], line[j]>> \in before <=> i < j
  BY <1>1, InOrderIs
<1>3. line \in Seq(S) /\ Len(line) = n
  BY <1>2
<1> QED BY <1>1, <1>2, <1>3 DEF InRow

\* Rank, then gear before food, then id: an order of any rows.
LEMMA RanksOrder ==
  ASSUME NEW s, Ranked(s), NEW S, S \subseteq DragRow
  PROVE  Orders({p \in S \X S : ShownBefore(s, p[1], p[2])}, S)
<1> DEFINE before == {p \in S \X S : ShownBefore(s, p[1], p[2])}
<1>1. \A x, y \in S : <<x, y>> \in before <=> ShownBefore(s, x, y)
  OBVIOUS
<1>2. \A x \in S : x \in Nat /\ s.rank[x] \in Nat /\ (x \in DragGear <=> x \notin DragFood)
  BY DragAssumption DEF Ranked, DragRow
<1> HIDE DEF before
<1>3. \A x \in S : ~ ShownBefore(s, x, x)
  BY <1>2 DEF ShownBefore
<1>4. \A x, y \in S : x # y => ShownBefore(s, x, y) \/ ShownBefore(s, y, x)
  BY <1>2 DEF ShownBefore
<1>5. \A x, y, z \in S : ShownBefore(s, x, y) /\ ShownBefore(s, y, z) => ShownBefore(s, x, z)
  BY <1>2 DEF ShownBefore
<1>6. Orders(before, S)
  BY <1>1, <1>3, <1>4, <1>5 DEF Orders
<1> QED BY <1>6 DEF before

\* So are the places in the document.
LEMMA PlacesOrder ==
  ASSUME NEW s, Ranked(s), NEW S, S \subseteq DragGear
  PROVE  Orders({p \in S \X S : \/ s.order[p[1]] < s.order[p[2]]
                                \/ s.order[p[1]] = s.order[p[2]] /\ p[1] < p[2]}, S)
<1> DEFINE Comes(x, y) == s.order[x] < s.order[y] \/ (s.order[x] = s.order[y] /\ x < y)
           before == {p \in S \X S : \/ s.order[p[1]] < s.order[p[2]]
                                     \/ s.order[p[1]] = s.order[p[2]] /\ p[1] < p[2]}
<1>1. \A x, y \in S : <<x, y>> \in before <=> Comes(x, y)
  OBVIOUS
<1>2. \A x \in S : x \in Nat /\ s.order[x] \in Nat
  BY DragAssumption DEF Ranked, DragRow
<1> HIDE DEF before
<1>3. Orders(before, S)
  BY <1>1, <1>2 DEF Orders
<1> QED BY <1>3 DEF before

\* The rows of a placement, and of the document, are finitely many.
LEMMA RowsFinite == \A S : S \subseteq DragRow => IsFiniteSet(S)
BY DragAssumption, FS_Subset

\* unionPackRows shows each row once.
LEMMA UnionRows ==
  ASSUME NEW s, Ranked(s), NEW S, S \subseteq DragRow
  PROVE  InRow(InRankOrder(s, S), S)
<1>1. PICK before : before = {p \in S \X S : ShownBefore(s, p[1], p[2])}
  OBVIOUS
<1>2. IsFiniteSet(S) /\ Orders(before, S)
  BY <1>1, RanksOrder, RowsFinite
<1>3. InRow(InOrder(S, before), S)
  BY <1>2, Sorted
<1> QED BY <1>1, <1>3 DEF InRankOrder

\* So does the document.
LEMMA ListedRows ==
  ASSUME Ranked(seen), NEW S, S \subseteq DragGear
  PROVE  InRow(DocumentRows(S), S)
<1>1. PICK before : before = {p \in S \X S : \/ seen.order[p[1]] < seen.order[p[2]]
                                             \/ seen.order[p[1]] = seen.order[p[2]] /\ p[1] < p[2]}
  OBVIOUS
<1>2. IsFiniteSet(S) /\ Orders(before, S)
  BY <1>1, PlacesOrder, RowsFinite DEF DragRow
<1>3. InRow(InOrder(S, before), S)
  BY <1>2, Sorted
<1> QED BY <1>1, <1>3 DEF DocumentRows

-----------------------------------------------------------------------------
(* Numbers that are handed out                                             *)

\* How many of the first n numbers are not in avoid.
Free(n, avoid) == Cardinality((0 .. n - 1) \ avoid)

\* One number more is one more that is free, or none.
LEMMA FreeNext ==
  ASSUME NEW avoid, NEW n \in Nat
  PROVE  /\ Free(n, avoid) \in Nat /\ Free(0, avoid) = 0
         /\ Free(n + 1, avoid) = IF n \in avoid THEN Free(n, avoid) ELSE Free(n, avoid) + 1
<1>1. PICK S, T : S = (0 .. n - 1) \ avoid /\ T = (0 .. n) \ avoid
  OBVIOUS
<1>2. IsFiniteSet(S) /\ Cardinality(S) \in Nat
  <2>1. IsFiniteSet(0 .. n - 1) /\ S \subseteq 0 .. n - 1
    BY <1>1, FS_Interval
  <2> QED BY <2>1, FS_Subset, FS_CardinalityType
<1>3. Free(n, avoid) = Cardinality(S) /\ Free(n + 1, avoid) = Cardinality(T)
  BY <1>1 DEF Free
<1>4. Free(0, avoid) = 0
  <2>1. (0 .. 0 - 1) \ avoid = {}
    OBVIOUS
  <2> QED BY <2>1, FS_EmptySet DEF Free
<1>5. CASE n \in avoid
  <2>1. T = S
    BY <1>1, <1>5
  <2> QED BY <1>2, <1>3, <1>4, <1>5, <2>1
<1>6. CASE n \notin avoid
  <2>1. T = S \cup {n} /\ n \notin S
    BY <1>1, <1>6
  <2>2. Cardinality(T) = Cardinality(S) + 1
    BY <1>2, <2>1, FS_AddElement
  <2> QED BY <1>2, <1>3, <1>4, <1>6, <2>2
<1> QED BY <1>5, <1>6

\* At most |avoid| of them are not.
LEMMA FreeEnough ==
  ASSUME NEW avoid, IsFiniteSet(avoid), NEW n \in Nat
  PROVE  Cardinality(avoid) \in Nat /\ Free(n, avoid) >= n - Cardinality(avoid)
<1>1. PICK N : N = 0 .. n - 1
  OBVIOUS
<1>2. IsFiniteSet(N) /\ Cardinality(N) = n
  BY <1>1, FS_Interval
<1>3. IsFiniteSet(N \ avoid) /\ IsFiniteSet(N \cap avoid) /\ Cardinality(N \cap avoid) <= Cardinality(avoid)
  <2>1. N \cap avoid \subseteq avoid /\ N \ avoid \subseteq N
    OBVIOUS
  <2> QED BY <1>2, <2>1, FS_Subset
<1>4. Cardinality(N \ avoid) = Cardinality(N) - Cardinality(N \cap avoid)
  BY <1>2, FS_Difference
<1>5. Cardinality(avoid) \in Nat /\ Cardinality(N \cap avoid) \in Nat /\ Cardinality(N \ avoid) \in Nat
  BY <1>3, FS_CardinalityType
<1> QED BY <1>1, <1>2, <1>3, <1>4, <1>5 DEF Free

\* The i-th number that is free is one (assignUnionPackRankSlots).
LEMMA DenseSlotIs ==
  ASSUME NEW avoid, IsFiniteSet(avoid), NEW i \in Nat, i >= 1
  PROVE  /\ DenseSlot(i, avoid) \in Nat /\ DenseSlot(i, avoid) \notin avoid
         /\ Free(DenseSlot(i, avoid), avoid) = i - 1
<1> DEFINE Past == {n \in Nat : Free(n, avoid) >= i}
<1>1. Cardinality(avoid) \in Nat /\ i + Cardinality(avoid) \in Nat
  BY FS_CardinalityType
<1>2. i + Cardinality(avoid) \in Past
  <2>1. PICK k \in Nat : k = i + Cardinality(avoid)
    BY <1>1
  <2>2. Free(k, avoid) >= k - Cardinality(avoid)
    BY <2>1, FreeEnough
  <2> QED BY <1>1, <2>1, <2>2
<1>3. PICK m \in Past : \A k \in Past : m <= k
  <2>1. Past \subseteq Nat
    OBVIOUS
  <2> HIDE DEF Past
  <2> QED BY <1>2, <2>1, Leads
<1>4. m \in Nat /\ Free(m, avoid) >= i /\ m <= i + Cardinality(avoid)
  BY <1>2, <1>3
<1>5. m # 0
  <2>1. Free(0, avoid) = 0
    BY FreeNext
  <2> QED BY <1>4, <2>1
<1>6. PICK n \in Nat : m = n + 1
  BY <1>4, <1>5
<1>7. ~ (Free(n, avoid) >= i)
  BY <1>3, <1>6
<1>8. /\ Free(n, avoid) \in Nat
      /\ Free(n + 1, avoid) = IF n \in avoid THEN Free(n, avoid) ELSE Free(n, avoid) + 1
  BY FreeNext
<1>9. n \notin avoid /\ Free(n, avoid) = i - 1 /\ n \in 0 .. i + Cardinality(avoid)
  BY <1>1, <1>4, <1>6, <1>7, <1>8
<1>10. \E k \in 0 .. i + Cardinality(avoid) : k \notin avoid /\ Cardinality((0 .. k - 1) \ avoid) = i - 1
  BY <1>9 DEF Free
<1>11. PICK d : d = DenseSlot(i, avoid)
  OBVIOUS
<1>12. d \in 0 .. i + Cardinality(avoid) /\ d \notin avoid /\ Cardinality((0 .. d - 1) \ avoid) = i - 1
  BY <1>10, <1>11 DEF DenseSlot
<1> QED BY <1>1, <1>11, <1>12 DEF Free

\* The ranks of some rows are finitely many numbers.
LEMMA RanksAre ==
  ASSUME NEW s, Ranked(s), NEW S, S \subseteq DragRow,
         NEW ranks, ranks = {s.rank[r] : r \in S}
  PROVE  ranks \subseteq Nat /\ IsFiniteSet(ranks) /\ Cardinality(ranks) <= Cardinality(S)
<1>1. PICK f : f = [r \in S |-> s.rank[r]]
  OBVIOUS
<1>2. f \in Surjection(S, ranks)
  BY <1>1 DEF Surjection
<1>3. IsFiniteSet(S)
  BY RowsFinite
<1> QED BY <1>2, <1>3, FS_Surjection DEF Ranked

\* One past the greatest of finitely many numbers is a number that is greater than any.
LEMMA OnePastIs ==
  ASSUME NEW ranks, ranks \subseteq Nat, IsFiniteSet(ranks)
  PROVE  OnePast(ranks) \in Nat /\ \A n \in ranks : n < OnePast(ranks)
<1>1. CASE ranks = {}
  BY <1>1 DEF OnePast
<1>2. CASE ranks # {}
  <2>1. \E m \in ranks : \A n \in ranks : n <= m
    <3>1. Max(ranks) \in ranks /\ \A y \in ranks : Max(ranks) >= y
      BY <1>2, LastPlace
    <3> QED BY <3>1
  <2>2. PICK m : m = CHOOSE k \in ranks : \A n \in ranks : n <= k
    OBVIOUS
  <2>3. m \in ranks /\ \A n \in ranks : n <= m
    BY <2>1, <2>2
  <2>4. OnePast(ranks) = 1 + m
    BY <1>2, <2>2 DEF OnePast
  <2> QED BY <2>3, <2>4
<1> QED BY <1>1, <1>2

\* Where a row stands.
LEMMA IndexIs ==
  ASSUME NEW S, NEW line, InRow(line, S), NEW r \in S
  PROVE  IndexIn(line, r) \in 1 .. Cardinality(S) /\ line[IndexIn(line, r)] = r
<1>1. Len(line) = Cardinality(S) /\ \E i \in 1 .. Cardinality(S) : line[i] = r
  BY DEF InRow
<1>2. \E i \in 1 .. Len(line) : line[i] = r
  BY <1>1
<1>3. IndexIn(line, r) \in 1 .. Len(line) /\ line[IndexIn(line, r)] = r
  BY <1>2 DEF IndexIn
<1> QED BY <1>1, <1>3

\* The sequence a drop asks for has the same rows.
LEMMA DroppedIs ==
  ASSUME NEW S, NEW line, InRow(line, S), NEW r \in S, NEW o \in S
  PROVE  InRow(Dropped(line, r, o), S)
<1>1. PICK n, from, to, moved : /\ n = Cardinality(S) /\ from = IndexIn(line, r) /\ to = IndexIn(line, o)
                                /\ moved = ArrayMove(line, from, to)
  OBVIOUS
<1>2. from \in 1 .. n /\ to \in 1 .. n
  BY <1>1, IndexIs
<1>3. /\ n \in Nat /\ line \in Seq(S) /\ Len(line) = n /\ DOMAIN line = 1 .. n
      /\ line \in [1 .. n -> S] /\ \A q \in S : \E i \in 1 .. n : line[i] = q
  BY <1>1 DEF InRow
<1>4. Moved(moved, line, from, to, n)
  BY <1>1, <1>2, <1>3, ArrayMoveIs
<1>5. PICK p : Carries(p, n, from, to) /\ moved = [i \in 1 .. n |-> line[p[i]]]
  BY <1>4 DEF Moved
<1>6. p \in [1 .. n -> 1 .. n] /\ \A k \in 1 .. n : \E i \in 1 .. n : p[i] = k
  BY <1>5 DEF Carries
<1>7. moved \in [1 .. n -> S]
  BY <1>3, <1>5, <1>6
<1>8. moved \in Seq(S) /\ Len(moved) = n
  BY <1>3, <1>7
<1>9. ASSUME NEW q \in S PROVE \E i \in 1 .. n : moved[i] = q
  <2>1. PICK k \in 1 .. n : line[k] = q
    BY <1>3
  <2>2. PICK i \in 1 .. n : p[i] = k
    BY <1>6
  <2> QED BY <1>5, <2>1, <2>2
<1>10. InRow(moved, S)
  BY <1>1, <1>3, <1>7, <1>8, <1>9 DEF InRow
<1> QED BY <1>1, <1>10 DEF Dropped

\* Handing numbers out hands each row a number.
LEMMA HandedNumbers ==
  ASSUME NEW S, NEW moved, InRow(moved, S),
         NEW slots, \A i \in 1 .. Cardinality(S) : slots[i] \in Nat
  PROVE  Numbered(HandOut(moved, slots)) /\ DOMAIN HandOut(moved, slots) = S
<1>1. Range(moved) = S
  BY DEF InRow, Range
<1>2. HandOut(moved, slots) = [r \in S |-> slots[IndexIn(moved, r)]]
  BY <1>1 DEF HandOut, IndexIn
<1>3. \A r \in S : IndexIn(moved, r) \in 1 .. Cardinality(S)
  BY IndexIs
<1>4. \A r \in S : slots[IndexIn(moved, r)] \in Nat
  BY <1>3
<1> QED BY <1>2, <1>4 DEF Numbered

\* The slots of a cohort are numbers (assignUnionPackRankSlots).
LEMMA SlotNumbers ==
  ASSUME Ranked(seen), NEW S, S \subseteq DragRow, NEW line, InRow(line, S),
         NEW avoid, IsFiniteSet(avoid)
  PROVE  \A i \in 1 .. Cardinality(S) : RankSlots(line, avoid)[i] \in Nat
<1>1. PICK n : n = Cardinality(S)
  OBVIOUS
<1>2. n \in Nat /\ Len(line) = n /\ line \in [1 .. n -> S]
  BY <1>1 DEF InRow
<1>3. \A i \in 1 .. n : DenseSlot(i, avoid) \in Nat
  <2> SUFFICES ASSUME NEW i \in 1 .. n PROVE DenseSlot(i, avoid) \in Nat
    OBVIOUS
  <2> QED BY <1>2, DenseSlotIs
<1>4. \A i \in 1 .. n : seen.rank[line[i]] \in Nat
  BY <1>2 DEF Ranked
<1>5. \/ RankSlots(line, avoid) = [i \in 1 .. n |-> DenseSlot(i, avoid)]
      \/ RankSlots(line, avoid) = [i \in 1 .. n |-> seen.rank[line[i]]]
  BY <1>2 DEF RankSlots
<1> QED BY <1>1, <1>3, <1>4, <1>5

\* What a drop over a row of S hands out.
LEMMA DropNumbers ==
  ASSUME Ranked(seen), NEW S, S \subseteq DragRow, NEW r \in S, NEW o \in S,
         NEW line, InRow(line, S), NEW slots, \A i \in 1 .. Cardinality(S) : slots[i] \in Nat
  PROVE  /\ Numbered(HandOut(Dropped(line, r, o), slots))
         /\ DOMAIN HandOut(Dropped(line, r, o), slots) = S
BY DroppedIs, HandedNumbers

\* What a drop must not count are rows.
LEMMA ExcludedRows ==
  ASSUME WritesInv
  PROVE  ReorderExclusions \subseteq DragRow /\ PageBags \subseteq DragBag
<1>1. PageBags \subseteq DragBag /\ PackFiltered \subseteq DragRow
  BY DEF WritesInv, Laid, PageBags, PackFiltered
<1>2. Headers \subseteq DragGear
  BY <1>1, DragAssumption DEF Headers
<1> QED BY <1>1, <1>2, DragAssumption DEF ReorderExclusions, DragRow

\* planUnionReorder hands out ranks,
LEMMA UnionPlanNumbers ==
  ASSUME Ranked(seen), NEW r \in DragRow, NEW o, NEW excluded, excluded \subseteq DragRow,
         CanReorder(r, o, excluded)
  PROVE  Numbered(PlanUnionReorder(r, o, excluded))
<1>1. PICK S, line, avoid, slots :
        /\ S = VisibleCohort(r, excluded) /\ line = UnionPackRows(S)
        /\ avoid = AvoidRanks(Normalize(r), excluded) /\ slots = RankSlots(line, avoid)
  OBVIOUS
<1>2. r \in S /\ o \in S /\ S \subseteq DragRow
  BY <1>1 DEF CanReorder, VisibleCohort
<1>3. InRow(line, S)
  BY <1>1, <1>2, UnionRows DEF UnionPackRows
<1>4. IsFiniteSet(avoid)
  <2>1. PICK H : H = {q \in excluded : Normalize(q) = Normalize(r)}
    OBVIOUS
  <2>2. avoid = {seen.rank[q] : q \in H} /\ H \subseteq DragRow
    BY <1>1, <2>1 DEF AvoidRanks, Ranks
  <2> QED BY <2>2, RanksAre
<1>5. \A i \in 1 .. Cardinality(S) : slots[i] \in Nat
  BY <1>1, <1>2, <1>3, <1>4, SlotNumbers
<1>6. Numbered(HandOut(Dropped(line, r, o), slots))
  BY <1>2, <1>3, <1>5, DropNumbers
<1> QED BY <1>1, <1>6 DEF PlanUnionReorder

\* What a category's section lists is gear.
LEMMA CategoryGear == \A r : CategoryRows(r) \subseteq DragGear /\ CategoryRows(r) \subseteq DragRow
BY DEF CategoryRows, DragRow

\* so does planListItemReorder for a category,
LEMMA CategoryPlanNumbers ==
  ASSUME Ranked(seen), NEW r \in DragGear, NEW o, {r, o} \subseteq CategoryRows(r)
  PROVE  Numbered(PlanPackCategory(r, o))
<1>1. PICK S, line, slots :
        /\ S = CategoryRows(r) /\ line = UnionPackRows(S)
        /\ slots = [i \in 1 .. Len(line) |-> seen.rank[line[i]]]
  OBVIOUS
<1>2. r \in S /\ o \in S /\ S \subseteq DragRow
  BY <1>1, CategoryGear
<1>3. InRow(line, S)
  BY <1>1, <1>2, UnionRows DEF UnionPackRows
<1>4. \A i \in 1 .. Cardinality(S) : slots[i] \in Nat
  <2>1. Len(line) = Cardinality(S) /\ line \in [1 .. Cardinality(S) -> S]
    BY <1>3 DEF InRow
  <2> QED BY <1>1, <1>2, <2>1 DEF Ranked
<1>5. Numbered(HandOut(Dropped(line, r, o), slots))
  BY <1>2, <1>3, <1>4, DropNumbers
<1> QED BY <1>1, <1>5 DEF PlanPackCategory

\* and for the document places in it.
LEMMA DocumentPlanNumbers ==
  ASSUME Ranked(seen), NEW r \in DragGear, NEW o, {r, o} \subseteq CategoryRows(r)
  PROVE  Numbered(PlanDocument(r, o)) /\ DOMAIN PlanDocument(r, o) \subseteq DragGear
<1>1. PICK S, line, slots :
        /\ S = CategoryRows(r) /\ line = DocumentRows(S)
        /\ slots = [i \in 1 .. Len(line) |-> seen.order[line[i]]]
  OBVIOUS
<1>2. r \in S /\ o \in S /\ S \subseteq DragRow /\ S \subseteq DragGear
  BY <1>1, CategoryGear
<1>3. InRow(line, S)
  BY <1>1, <1>2, ListedRows
<1>4. \A i \in 1 .. Cardinality(S) : slots[i] \in Nat
  <2>1. Len(line) = Cardinality(S) /\ line \in [1 .. Cardinality(S) -> S]
    BY <1>3 DEF InRow
  <2> QED BY <1>1, <1>2, <2>1 DEF Ranked
<1>5. /\ Numbered(HandOut(Dropped(line, r, o), slots))
      /\ DOMAIN HandOut(Dropped(line, r, o), slots) = S
  BY <1>2, <1>3, <1>4, DropNumbers
<1> QED BY <1>1, <1>2, <1>5 DEF PlanDocument

\* The rank an arrival is given is one, on the server and on the page.
LEMMA ArrivalNumber ==
  ASSUME NEW s, Ranked(s), NEW p
  PROVE  OnePast(RanksAt(s, p, DragRow)) \in Nat
<1>1. PICK S : S = {q \in DragRow : s.loc[q] = p}
  OBVIOUS
<1>2. PICK ranks : ranks = {s.rank[r] : r \in S}
  OBVIOUS
<1>3. ranks = RanksAt(s, p, DragRow) /\ S \subseteq DragRow
  BY <1>1, <1>2 DEF RanksAt
<1>4. ranks \subseteq Nat /\ IsFiniteSet(ranks)
  BY <1>2, <1>3, RanksAre
<1>5. OnePast(ranks) \in Nat
  BY <1>4, OnePastIs
<1> QED BY <1>3, <1>5

\* So are the ranks the rows of a deleted bag are given.
LEMMA SpilledNumbers ==
  ASSUME Ranked(kept), NEW b
  PROVE  Numbered(Spilled(b))
<1>1. PICK O, H, out, home, first, all :
        /\ O = {r \in DragRow : kept.loc[r] = b} /\ H = {r \in DragRow : kept.loc[r] = Nowhere}
        /\ out = InRankOrder(kept, O) /\ home = InRankOrder(kept, H)
        /\ first = NextUnionPackRank(Nowhere) /\ all = home \o out
  OBVIOUS
<1>2. InRow(out, O) /\ InRow(home, H) /\ first \in Nat
  BY <1>1, UnionRows, ArrivalNumber DEF NextUnionPackRank
<1>3. ASSUME NEW line, NEW S, line \in Seq(S), NEW r \in Range(line)
      PROVE  IndexIn(line, r) \in Nat /\ IndexIn(line, r) >= 1
  <2>1. \E i \in 1 .. Len(line) : line[i] = r
    BY <1>3 DEF Range
  <2>2. IndexIn(line, r) \in 1 .. Len(line)
    BY <2>1 DEF IndexIn
  <2> QED BY <1>3, <2>2
<1>4. out \in Seq(O) /\ home \in Seq(H)
  BY <1>2 DEF InRow
<1>5. out \in Seq(DragRow) /\ home \in Seq(DragRow)
  BY <1>1, <1>4
<1>6. all \in Seq(DragRow)
  BY <1>1, <1>5
<1>7. \A r \in Range(out) : first + IndexIn(out, r) - 1 \in Nat
  BY <1>2, <1>3, <1>5
<1>8. \A r \in Range(all) : IndexIn(all, r) - 1 \in Nat
  BY <1>3, <1>6
<1>9. \/ Spilled(b) = [r \in Range(out) |-> first + IndexIn(out, r) - 1]
      \/ Spilled(b) = [r \in Range(all) |-> IndexIn(all, r) - 1]
  BY <1>1 DEF Spilled
<1> QED BY <1>7, <1>8, <1>9 DEF Numbered

-----------------------------------------------------------------------------
(* Every rank is a number                                                  *)

\* Ranks and places are numbers in the reorder under way, sent or to be put back,
ReorderRanked == reorder # None => Ranked(reorder.before) /\ Numbered(reorder.values)
\* The moves under way,
MovesRanked == \A r \in DragRow : moving[r] # None => moving[r].rank \in Nat

\* and all of them.
RanksInv == Ranked(kept) /\ Ranked(seen) /\ ReorderRanked /\ MovesRanked

\* An overlap leaves the numbers of a write alone.
LEMMA OverlapRanks ==
  ASSUME WritesInv, MovesRanked
  PROVE  \A r \in DragRow : Overlapped(moving[r]) # None => Overlapped(moving[r]).rank \in Nat
<1> SUFFICES ASSUME NEW r \in DragRow, Overlapped(moving[r]) # None
             PROVE  Overlapped(moving[r]).rank \in Nat
  OBVIOUS
<1>1. PICK m : m = moving[r]
  OBVIOUS
<1>2. m # None /\ MoveOk(m) /\ m.rank \in Nat
  BY <1>1 DEF WritesInv, MovingOk, MovesRanked, Overlapped
<1>3. m = [is |-> "move", to |-> m.to, loc |-> m.loc, rank |-> m.rank, stage |-> m.stage,
           clean |-> m.clean]
  BY <1>2 DEF MoveOk
<1>4. [m EXCEPT !.clean = FALSE].rank = m.rank
  BY <1>3
<1>5. Overlapped(m) = [m EXCEPT !.clean = FALSE]
  BY <1>2 DEF Overlapped
<1> QED BY <1>1, <1>2, <1>4, <1>5

\* It leaves the ranks of the moves,
LEMMA OverlapMoves ==
  ASSUME WritesInv, MovesRanked, moving' = [r \in DragRow |-> Overlapped(moving[r])]
  PROVE  MovesRanked'
<1>1. \A r \in DragRow : moving'[r] = Overlapped(moving[r])
  OBVIOUS
<1> QED BY <1>1, OverlapRanks DEF MovesRanked

\* and the numbers of the reorder.
LEMMA OverlapNumbers ==
  ASSUME WritesInv, ReorderRanked, reorder' = Overlapped(reorder)
  PROVE  ReorderRanked'
<1>1. CASE reorder = None
  BY <1>1, Overlap DEF ReorderRanked
<1>2. CASE reorder # None
  <2>1. reorder' = [is |-> reorder.is, asked |-> reorder.asked, values |-> reorder.values,
                    before |-> reorder.before, stage |-> reorder.stage, clean |-> FALSE]
    BY <1>2, Overlap
  <2>2. reorder'.values = reorder.values /\ reorder'.before = reorder.before
    BY <2>1
  <2> QED BY <1>2, <2>2 DEF ReorderRanked, Ranked, Numbered
<1> QED BY <1>1, <1>2

\* Patching numbers with numbers,
LEMMA PatchedRanks ==
  ASSUME NEW s, Laid(s), Ranked(s), NEW v, Numbered(v)
  PROVE  Ranked([s EXCEPT !.rank = Patched(@, v)])
<1>1. PICK t : t = [s EXCEPT !.rank = Patched(@, v)]
  OBVIOUS
<1>2. t.rank = Patched(s.rank, v) /\ t.order = s.order
  BY <1>1 DEF Laid
<1>3. Patched(s.rank, v) = [r \in DragRow |-> IF r \in DOMAIN v THEN v[r] ELSE s.rank[r]]
  BY DEF Laid, Patched
<1> QED BY <1>1, <1>2, <1>3 DEF Ranked, Numbered

\* places likewise,
LEMMA PatchedPlaces ==
  ASSUME NEW s, Laid(s), Ranked(s), NEW v, Numbered(v)
  PROVE  Ranked([s EXCEPT !.order = Patched(@, v)])
<1>1. PICK t : t = [s EXCEPT !.order = Patched(@, v)]
  OBVIOUS
<1>2. t.order = Patched(s.order, v) /\ t.rank = s.rank
  BY <1>1 DEF Laid
<1>3. Patched(s.order, v) = [r \in DragGear |-> IF r \in DOMAIN v THEN v[r] ELSE s.order[r]]
  BY DEF Laid, Patched
<1> QED BY <1>1, <1>2, <1>3 DEF Ranked, Numbered

\* and setting a row down with one.
LEMMA PutRanked ==
  ASSUME NEW s, Laid(s), Ranked(s), NEW r \in DragRow, NEW p, NEW n \in Nat
  PROVE  Ranked(PutIn(s, r, p, n))
<1> DEFINE loc == [s.loc EXCEPT ![r] = p]
           rank == [s.rank EXCEPT ![r] = n]
<1>1. PICK t : t = PutIn(s, r, p, n)
  OBVIOUS
<1>2. t = [s EXCEPT !.loc = loc, !.rank = rank]
  BY <1>1 DEF PutIn
<1>3. \A q \in DragRow : rank[q] = IF q = r THEN n ELSE s.rank[q]
  BY DEF Laid
<1> HIDE DEF loc, rank
<1>4. t.rank = rank /\ t.order = s.order
  BY <1>2 DEF Laid
<1> QED BY <1>1, <1>3, <1>4 DEF Ranked

\* The invariant holds as long as the numbers are those that were there.
LEMMA RankedAs ==
  ASSUME NEW s, NEW t, Ranked(s), t.rank = s.rank, t.order = s.order
  PROVE  Ranked(t)
BY DEF Ranked

\* A reorder sends numbers, and remembers those of before.
LEMMA SentRanked ==
  ASSUME WritesInv, RanksInv, NEW is, NEW asked, NEW values, Numbered(values),
         SendReorder(is, asked, values)
  PROVE  ReorderRanked' /\ MovesRanked' /\ Ranked(kept')
<1>1. /\ reorder' = [is |-> is, asked |-> asked, values |-> values, before |-> seen,
                     stage |-> "sent", clean |-> InAgreement]
      /\ moving' = [r \in DragRow |-> Overlapped(moving[r])] /\ kept' = kept
  BY DEF SendReorder
<1>2. reorder'.before = seen /\ reorder'.values = values
  BY <1>1
<1>3. ReorderRanked'
  BY <1>2 DEF ReorderRanked, RanksInv, Ranked, Numbered
<1>4. MovesRanked'
  BY <1>1, OverlapMoves DEF RanksInv
<1> QED BY <1>1, <1>3, <1>4 DEF RanksInv

\* A drop in the pack.
LEMMA PackReorderRanks ==
  ASSUME WritesInv, RanksInv, NEW asked, NEW values, Numbered(values),
         StartPackReorder(asked, values)
  PROVE  RanksInv'
<1>1. CASE PayloadSafe(asked, values)
  <2>1. SendReorder("pack", asked, values) /\ seen' = [seen EXCEPT !.rank = Patched(@, values)]
    BY <1>1 DEF StartPackReorder
  <2>2. Ranked(seen')
    BY <2>1, PatchedRanks DEF WritesInv, RanksInv
  <2> QED BY <2>1, <2>2, SentRanked DEF RanksInv, Ranked
<1>2. CASE ~ PayloadSafe(asked, values)
  <2>1. UNCHANGED <<kept, seen, reorder, moving>>
    BY <1>2 DEF StartPackReorder
  <2> QED BY <2>1 DEF RanksInv, Ranked, ReorderRanked, Numbered, MovesRanked
<1> QED BY <1>1, <1>2

\* A drop in the document.
LEMMA DocumentReorderRanks ==
  ASSUME WritesInv, RanksInv, NEW asked, NEW values, Numbered(values),
         StartDocumentReorder(asked, values)
  PROVE  RanksInv'
<1>1. SendReorder("list", asked, values) /\ seen' = [seen EXCEPT !.order = Patched(@, values)]
  BY DEF StartDocumentReorder
<1>2. Ranked(seen')
  BY <1>1, PatchedPlaces DEF WritesInv, RanksInv
<1> QED BY <1>1, <1>2, SentRanked DEF RanksInv, Ranked

\* A move.
LEMMA MoveRanks ==
  ASSUME WritesInv, RanksInv, NEW r \in DragRow, NEW p, RequestMove(r, p)
  PROVE  RanksInv'
<1>1. /\ seen' = PutIn(seen, r, p, NextUnionPackRankFor(p))
      /\ moving' = [[q \in DragRow |-> Overlapped(moving[q])] EXCEPT ![r] =
                      [is |-> "move", to |-> p, loc |-> seen.loc[r], rank |-> seen.rank[r],
                       stage |-> "sent", clean |-> InAgreement]]
      /\ UNCHANGED <<kept, reorder>>
  BY DEF RequestMove
<1>2. NextUnionPackRankFor(p) \in Nat
  BY ArrivalNumber DEF NextUnionPackRankFor, RanksInv
<1>3. Ranked(seen')
  BY <1>1, <1>2, PutRanked DEF WritesInv, RanksInv
<1>4. MovesRanked'
  <2>1. moving'[r].rank = seen.rank[r] /\ seen.rank[r] \in Nat
    BY <1>1 DEF RanksInv, Ranked
  <2>2. \A q \in DragRow \ {r} : moving'[q] = Overlapped(moving[q])
    BY <1>1
  <2> QED BY <2>1, <2>2, OverlapRanks DEF RanksInv, MovesRanked
<1> QED BY <1>1, <1>3, <1>4 DEF RanksInv, Ranked, ReorderRanked, Numbered

\* A move at the server.
LEMMA ServeMoveRanks ==
  ASSUME WritesInv, RanksInv, NEW r \in DragRow, ServeMove(r)
  PROVE  RanksInv'
<1>1. /\ moving[r] # None /\ UNCHANGED <<seen, reorder>>
      /\ moving' \in {[moving EXCEPT ![r].stage = "done"], [moving EXCEPT ![r].stage = "refused"]}
      /\ kept' \in {kept, PutIn(kept, r, moving[r].to, NextUnionPackRank(moving[r].to))}
  BY DEF ServeMove
<1>2. Ranked(kept')
  <2>1. PICK p, n : p = moving[r].to /\ n = NextUnionPackRank(moving[r].to)
    OBVIOUS
  <2>2. n \in Nat
    BY <2>1, ArrivalNumber DEF NextUnionPackRank, RanksInv
  <2>3. Ranked(PutIn(kept, r, p, n)) /\ Ranked(kept)
    BY <2>2, PutRanked DEF WritesInv, RanksInv
  <2>4. kept' = kept \/ kept' = PutIn(kept, r, p, n)
    BY <1>1, <2>1
  <2> QED BY <2>3, <2>4
<1>3. MovesRanked'
  <2>1. PICK m : m = moving[r]
    OBVIOUS
  <2>2. m = [is |-> "move", to |-> m.to, loc |-> m.loc, rank |-> m.rank, stage |-> m.stage,
             clean |-> m.clean] /\ m.rank \in Nat
    BY <1>1, <2>1 DEF WritesInv, MovingOk, MoveOk, RanksInv, MovesRanked
  <2>3. PICK st : moving' = [moving EXCEPT ![r] = [m EXCEPT !.stage = st]]
    BY <1>1, <2>1
  <2>4. [m EXCEPT !.stage = st].rank = m.rank
    BY <2>2
  <2>5. moving'[r] = [m EXCEPT !.stage = st] /\ \A q \in DragRow \ {r} : moving'[q] = moving[q]
    BY <2>3 DEF WritesInv, MovingOk
  <2> QED BY <2>2, <2>4, <2>5 DEF RanksInv, MovesRanked
<1> QED BY <1>1, <1>2, <1>3 DEF RanksInv, Ranked, ReorderRanked, Numbered

\* Its answer, or its failure.
LEMMA SettleMoveRanks ==
  ASSUME WritesInv, RanksInv, NEW r \in DragRow, MoveSaved(r) \/ MoveFailed(r)
  PROVE  RanksInv'
<1>1. /\ moving[r] # None /\ moving' = [moving EXCEPT ![r] = None] /\ UNCHANGED <<kept, reorder>>
      /\ seen' \in {seen, PutIn(seen, r, moving[r].loc, moving[r].rank)}
  BY DEF MoveSaved, MoveFailed, SettleMove
<1>2. moving[r].rank \in Nat
  BY <1>1 DEF RanksInv, MovesRanked
<1>3. Ranked(seen')
  <2>1. PICK p, n : p = moving[r].loc /\ n = moving[r].rank
    OBVIOUS
  <2>2. Ranked(PutIn(seen, r, p, n)) /\ Ranked(seen)
    BY <1>2, <2>1, PutRanked DEF WritesInv, RanksInv
  <2>3. seen' = seen \/ seen' = PutIn(seen, r, p, n)
    BY <1>1, <2>1
  <2> QED BY <2>2, <2>3
<1>4. MovesRanked'
  BY <1>1 DEF WritesInv, MovingOk, RanksInv, MovesRanked
<1> QED BY <1>1, <1>3, <1>4 DEF RanksInv, Ranked, ReorderRanked, Numbered

\* What neither ranks, places nor writes change in: bags, checkboxes and the view.
LEMMA SameRanks ==
  ASSUME RanksInv, kept'.rank = kept.rank, kept'.order = kept.order,
         seen'.rank = seen.rank, seen'.order = seen.order, ReorderRanked', MovesRanked'
  PROVE  RanksInv'
<1>1. Ranked(kept') /\ Ranked(seen')
  BY DEF RanksInv, Ranked
<1> QED BY <1>1 DEF RanksInv, Ranked

\* Writes that stay as they are keep their numbers.
LEMMA QuietWrites ==
  ASSUME RanksInv, UNCHANGED <<reorder, moving>>
  PROVE  ReorderRanked' /\ MovesRanked'
BY DEF RanksInv, ReorderRanked, MovesRanked, Ranked, Numbered

\* Bags that come and go on the page, and checkboxes.
LEMMA BagsRanks ==
  ASSUME WritesInv, RanksInv,
         \/ \E b \in DragBag : StartRemoveBag(b)
         \/ \E r \in DragRow : StartTick(r)
         \/ \E saved \in BOOLEAN : BagRemoved(saved) \/ TickAnswered(saved)
         \/ ServeTick
  PROVE  RanksInv'
<1>1. Laid(seen) /\ Laid(kept)
  BY DEF WritesInv
<1>2. ASSUME NEW b \in DragBag, StartRemoveBag(b) PROVE RanksInv'
  <2>1. /\ seen' = [seen EXCEPT !.bags = @ \ {b}] /\ kept' = kept
        /\ reorder' = Overlapped(reorder)
        /\ moving' = [r \in DragRow |-> Overlapped(moving[r])]
    BY <1>2 DEF StartRemoveBag
  <2>2. seen'.rank = seen.rank /\ seen'.order = seen.order
    BY <1>1, <2>1 DEF Laid
  <2>3. ReorderRanked' /\ MovesRanked'
    BY <2>1, OverlapMoves, OverlapNumbers DEF RanksInv
  <2> QED BY <2>1, <2>2, <2>3, SameRanks
<1>3. ASSUME NEW r \in DragRow, StartTick(r) PROVE RanksInv'
  <2>1. seen' = [seen EXCEPT !.packed = Toggled(@, r)] /\ UNCHANGED <<kept, reorder, moving>>
    BY <1>3 DEF StartTick
  <2>2. seen'.rank = seen.rank /\ seen'.order = seen.order
    BY <1>1, <2>1 DEF Laid
  <2> QED BY <2>1, <2>2, SameRanks, QuietWrites
<1>4. ASSUME NEW saved \in BOOLEAN, BagRemoved(saved) PROVE RanksInv'
  <2>1. /\ seen' = seen \/ seen' = [seen EXCEPT !.bags = removing.before]
        /\ UNCHANGED <<kept, reorder, moving>>
    BY <1>4 DEF BagRemoved
  <2>2. seen'.rank = seen.rank /\ seen'.order = seen.order
    BY <1>1, <2>1 DEF Laid
  <2> QED BY <2>1, <2>2, SameRanks, QuietWrites
<1>5. ASSUME NEW saved \in BOOLEAN, TickAnswered(saved) PROVE RanksInv'
  <2>1. /\ seen' = seen \/ seen' = [seen EXCEPT !.packed = Toggled(@, ticking.row)]
        /\ UNCHANGED <<kept, reorder, moving>>
    BY <1>5 DEF TickAnswered
  <2>2. seen'.rank = seen.rank /\ seen'.order = seen.order
    BY <1>1, <2>1 DEF Laid
  <2> QED BY <2>1, <2>2, SameRanks, QuietWrites
<1>6. CASE ServeTick
  <2>1. /\ kept' = [kept EXCEPT !.packed = Toggled(@, ticking.row)]
        /\ UNCHANGED <<seen, reorder, moving>>
    BY <1>6 DEF ServeTick
  <2>2. kept'.rank = kept.rank /\ kept'.order = kept.order
    BY <1>1, <2>1 DEF Laid
  <2> QED BY <2>1, <2>2, SameRanks, QuietWrites
<1> QED BY <1>2, <1>3, <1>4, <1>5, <1>6

\* A deleted bag's rows are renumbered at the server.
LEMMA ServeRemoveRanks ==
  ASSUME WritesInv, RanksInv, ServeRemove
  PROVE  RanksInv'
<1>1. PICK loc, bags, v :
        /\ kept' = [kept EXCEPT !.bags = bags, !.rank = Patched(@, v), !.loc = loc]
        /\ v = Spilled(removing.bag)
  BY DEF ServeRemove
<1>2. UNCHANGED <<seen, reorder, moving>>
  BY DEF ServeRemove
<1>3. Numbered(v)
  BY <1>1, SpilledNumbers DEF RanksInv
<1>4. PICK rank : rank = Patched(kept.rank, v)
  OBVIOUS
<1>5. Laid(kept) /\ Ranked(kept)
  BY DEF WritesInv, RanksInv
<1>6. kept'.rank = rank /\ kept'.order = kept.order
  BY <1>1, <1>4, <1>5 DEF Laid
<1>7. rank = [r \in DragRow |-> IF r \in DOMAIN v THEN v[r] ELSE kept.rank[r]]
  BY <1>4, <1>5 DEF Laid, Patched
<1>8. Ranked(kept')
  BY <1>3, <1>5, <1>6, <1>7 DEF Ranked, Numbered
<1> QED BY <1>2, <1>8, QuietWrites DEF RanksInv, Ranked

\* A reorder at the server.
LEMMA ServeReorderRanks ==
  ASSUME WritesInv, RanksInv, ServeReorder
  PROVE  RanksInv'
<1>1. PICK w : w = reorder
  OBVIOUS
<1>2. /\ w # None
      /\ w = [is |-> w.is, asked |-> w.asked, values |-> w.values, before |-> w.before,
              stage |-> w.stage, clean |-> w.clean]
      /\ Ranked(w.before) /\ Numbered(w.values)
  BY <1>1 DEF ServeReorder, WritesInv, ReorderOk, RanksInv, ReorderRanked
<1>3. PICK st : reorder' = [w EXCEPT !.stage = st]
  BY <1>1 DEF ServeReorder
<1>4. reorder'.values = w.values /\ reorder'.before = w.before
  BY <1>2, <1>3
<1>5. ReorderRanked'
  BY <1>2, <1>4 DEF ReorderRanked, Ranked, Numbered
<1>6. UNCHANGED <<seen, moving>>
  BY DEF ServeReorder
<1>7. \/ kept' = kept
      \/ kept' = [kept EXCEPT !.order = Patched(@, w.values)]
      \/ kept' = [kept EXCEPT !.rank = Patched(@, w.values)]
  BY <1>1 DEF ServeReorder
<1>8. Laid(kept) /\ Ranked(kept)
  BY DEF WritesInv, RanksInv
<1>9. Ranked(kept')
  <2>1. CASE kept' = kept
    BY <1>8, <2>1
  <2>2. CASE kept' = [kept EXCEPT !.order = Patched(@, w.values)]
    BY <1>2, <1>8, <2>2, PatchedPlaces
  <2>3. CASE kept' = [kept EXCEPT !.rank = Patched(@, w.values)]
    BY <1>2, <1>8, <2>3, PatchedRanks
  <2> QED BY <1>7, <2>1, <2>2, <2>3
<1> QED BY <1>5, <1>6, <1>9 DEF RanksInv, Ranked, MovesRanked

\* Its answer, or its failure.
LEMMA SettleReorderRanks ==
  ASSUME WritesInv, RanksInv, ReorderSaved \/ ReorderFailed
  PROVE  RanksInv'
<1>1. PICK w : w = reorder
  OBVIOUS
<1>2. /\ w # None /\ reorder' = None /\ UNCHANGED <<kept, moving>>
      /\ seen' = seen \/ seen' = RestoreItems(w) \/ seen' = RestoreRanks(w)
  BY <1>1 DEF ReorderSaved, ReorderFailed, SettleReorder
<1>3. /\ DOMAIN w.values = Range(w.asked) /\ Laid(w.before) /\ Ranked(w.before)
      /\ Laid(seen) /\ Ranked(seen)
  BY <1>1, <1>2 DEF WritesInv, ReorderOk, RanksInv, ReorderRanked
<1>4. CASE seen' = RestoreItems(w)
  <2>1. PICK loc, rank, order, packed :
          /\ seen' = [seen EXCEPT !.loc = loc, !.rank = rank, !.order = order, !.packed = packed]
          /\ rank = Patched(seen.rank, [g \in DragGear |-> w.before.rank[g]])
          /\ order = w.before.order
    BY <1>4 DEF RestoreItems
  <2>2. rank = [r \in DragRow |-> IF r \in DragGear THEN w.before.rank[r] ELSE seen.rank[r]]
    BY <1>3, <2>1 DEF Laid, Patched
  <2>3. seen'.rank = rank /\ seen'.order = w.before.order
    BY <1>3, <2>1 DEF Laid
  <2>4. Ranked(seen')
    BY <1>3, <2>2, <2>3 DEF Ranked
  <2> QED BY <1>2, <2>4 DEF RanksInv, Ranked, ReorderRanked, MovesRanked
<1>5. CASE seen' = RestoreRanks(w)
  <2>1. PICK rank : rank = Patched(seen.rank, [r \in DOMAIN w.values |-> w.before.rank[r]])
    OBVIOUS
  <2>2. seen' = [seen EXCEPT !.rank = rank]
    BY <1>5, <2>1 DEF RestoreRanks
  <2>3. rank = [r \in DragRow |-> IF r \in DOMAIN w.values THEN w.before.rank[r] ELSE seen.rank[r]]
    BY <1>3, <2>1 DEF Laid, Patched
  <2>4. seen'.rank = rank /\ seen'.order = seen.order
    BY <1>3, <2>2 DEF Laid
  <2>5. Ranked(seen')
    BY <1>3, <2>3, <2>4 DEF Ranked
  <2> QED BY <1>2, <2>5 DEF RanksInv, Ranked, ReorderRanked, MovesRanked
<1>6. CASE seen' = seen
  BY <1>2, <1>6 DEF RanksInv, Ranked, ReorderRanked, MovesRanked
<1> QED BY <1>2, <1>4, <1>5, <1>6

\* A read.
LEMMA LandRanks ==
  ASSUME WritesInv, RanksInv, NEW h, Land(h)
  PROVE  RanksInv'
<1>1. /\ reorder' = Overlapped(reorder) /\ kept' = kept
      /\ moving' = [r \in DragRow |-> Overlapped(moving[r])]
  BY DEF Land
<1>2. ReorderRanked' /\ MovesRanked'
  BY <1>1, OverlapMoves, OverlapNumbers DEF RanksInv
<1>3. Laid(seen) /\ Laid(kept) /\ Ranked(seen) /\ Ranked(kept)
  BY DEF WritesInv, RanksInv
<1>4. Ranked(seen')
  <2>1. CASE h = "bags"
    <3>1. seen' = [seen EXCEPT !.bags = kept.bags]
      BY <2>1 DEF Land
    <3>2. seen'.rank = seen.rank /\ seen'.order = seen.order
      BY <1>3, <3>1 DEF Laid
    <3> QED BY <1>3, <3>2, RankedAs
  <2>2. CASE h # "bags"
    <3>1. PICK half, loc, rank, order, packed :
            /\ seen' = [seen EXCEPT !.loc = loc, !.rank = rank, !.order = order, !.packed = packed]
            /\ rank = Patched(seen.rank, [r \in half |-> kept.rank[r]])
            /\ half = {r \in DragRow : Half(r) = h}
            /\ order = kept.order \/ order = seen.order
      BY <2>2 DEF Land
    <3>2. rank = [r \in DragRow |-> IF r \in half THEN kept.rank[r] ELSE seen.rank[r]]
      BY <1>3, <3>1 DEF Laid, Patched
    <3>3. seen'.rank = rank /\ seen'.order = order
      BY <1>3, <3>1 DEF Laid
    <3> QED BY <1>3, <3>1, <3>2, <3>3 DEF Ranked
  <2> QED BY <2>1, <2>2
<1> QED BY <1>1, <1>2, <1>3, <1>4 DEF RanksInv, Ranked

\* Every drop hands out numbers.
LEMMA DropsRanks ==
  ASSUME WritesInv, RanksInv, Drops
  PROVE  RanksInv'
<1>0. Ranked(seen) /\ ReorderExclusions \subseteq DragRow
  BY ExcludedRows DEF RanksInv
<1>1. ASSUME NEW r \in DragRow, NEW o \in DragRow, DropRowOver(r, o) PROVE RanksInv'
  <2>1. CASE CanReorder(r, o, ReorderExclusions)
    <3>1. PICK asked, values : /\ StartPackReorder(asked, values)
                               /\ values = PlanUnionReorder(r, o, ReorderExclusions)
      BY <1>1, <2>1 DEF DropRowOver
    <3>2. Numbered(values)
      BY <1>0, <2>1, <3>1, UnionPlanNumbers
    <3> QED BY <3>1, <3>2, PackReorderRanks
  <2>2. CASE ~ CanReorder(r, o, ReorderExclusions)
    BY <1>1, <2>2, MoveRanks DEF DropRowOver
  <2> QED BY <2>1, <2>2
<1>2. ASSUME NEW r \in DragRow, NEW p, DropRowInto(r, p) \/ NestInto(r, p) \/ MenuMove(r, p)
      PROVE  RanksInv'
  BY <1>2, MoveRanks DEF DropRowInto, NestInto, MenuMove
<1>3. ASSUME NEW r \in DragGear, NEW o \in DragGear, DropInCategory(r, o) PROVE RanksInv'
  <2>1. PICK asked, values : /\ StartPackReorder(asked, values) /\ values = PlanPackCategory(r, o)
                             /\ {r, o} \subseteq CategoryRows(r)
    BY <1>3 DEF DropInCategory
  <2>2. Numbered(values)
    BY <1>0, <2>1, CategoryPlanNumbers
  <2> QED BY <2>1, <2>2, PackReorderRanks
<1>4. ASSUME NEW r \in DragFood, NEW o \in DragFood, DropAmongFood(r, o) PROVE RanksInv'
  <2>1. PICK excluded : excluded = ReorderExclusions \cup DragGear
    OBVIOUS
  <2>2. PICK asked, values : /\ StartPackReorder(asked, values)
                             /\ values = PlanUnionReorder(r, o, excluded)
                             /\ CanReorder(r, o, excluded)
    BY <1>4, <2>1 DEF DropAmongFood
  <2>3. excluded \subseteq DragRow /\ r \in DragRow
    BY <1>0, <2>1 DEF DragRow
  <2>4. Numbered(values)
    BY <1>0, <2>2, <2>3, UnionPlanNumbers
  <2> QED BY <2>2, <2>4, PackReorderRanks
<1>5. ASSUME NEW r \in DragGear, NEW o \in DragGear, DropInDocument(r, o) PROVE RanksInv'
  <2>1. PICK asked, values : /\ StartDocumentReorder(asked, values) /\ values = PlanDocument(r, o)
                             /\ {r, o} \subseteq CategoryRows(r)
    BY <1>5 DEF DropInDocument
  <2>2. Numbered(values)
    BY <1>0, <2>1, DocumentPlanNumbers
  <2> QED BY <2>1, <2>2, DocumentReorderRanks
<1> QED BY <1>1, <1>2, <1>3, <1>4, <1>5 DEF Drops

\* What the steps keep.
LEMMA RanksStep == DragInv /\ RanksInv /\ [DragNext]_dragVars => RanksInv'
<1> SUFFICES ASSUME DragInv, RanksInv, [DragNext]_dragVars PROVE RanksInv'
  OBVIOUS
<1>0. WritesInv
  BY DEF DragInv
<1>1. CASE Drops
  BY <1>0, <1>1, DropsRanks
<1>2. CASE Serves
  BY <1>0, <1>2, ServeReorderRanks, ServeRemoveRanks, BagsRanks, ServeMoveRanks DEF Serves
<1>3. CASE Answers
  BY <1>0, <1>3, SettleReorderRanks, SettleMoveRanks, BagsRanks, LandRanks DEF Answers
<1>4. CASE (\E b \in DragBag : StartRemoveBag(b)) \/ (\E r \in DragRow : StartTick(r))
  BY <1>0, <1>4, BagsRanks
<1>5. CASE UNCHANGED <<kept, seen, reorder, moving>>
  BY <1>5, QuietWrites DEF RanksInv, Ranked
<1> QED BY <1>1, <1>2, <1>3, <1>4, <1>5 DEF DragNext, SwitchView, dragVars

\* The rows start with numbers.
LEMMA RanksBegin == DragInit => RanksInv
<1> SUFFICES ASSUME DragInit PROVE RanksInv
  OBVIOUS
<1>1. kept \in Placement /\ seen = kept
  BY DragAssumption DEF DragInit
<1>2. Ranked(kept)
  BY <1>1 DEF Placement, Ranked
<1> QED BY <1>1, <1>2 DEF DragInit, RanksInv, ReorderRanked, MovesRanked

\* Every rank and every place is a number.
THEOREM RanksInvariant == DragSpec => [](DragInv /\ RanksInv)
BY DragBegin, DragStep, RanksBegin, RanksStep, PTL DEF DragSpec

-----------------------------------------------------------------------------
(* The tree of bags                                                        *)

\* f climbs from b: at 0 it is b, and at each next place what up says, as far as there is one.
Climbs(f, b, up, n) ==
  f = [k \in 0 .. n |-> IF k = 0 THEN b ELSE IF f[k - 1] = Nowhere THEN Nowhere ELSE up[f[k - 1]]]

\* There is such an f.
LEMMA ClimbThere ==
  ASSUME NEW b, NEW up, NEW n \in Nat
  PROVE  \E f : Climbs(f, b, up, n)
<1> DEFINE Bad == {k \in Nat : ~ \E f : Climbs(f, b, up, k)}
<1>1. ASSUME NEW k \in Bad, \A m \in Bad : k <= m PROVE FALSE
  <2>1. CASE k = 0
    <3>1. PICK f : f = [m \in 0 .. 0 |-> b]
      OBVIOUS
    <3>2. Climbs(f, b, up, 0)
      BY <3>1 DEF Climbs
    <3> QED BY <2>1, <3>2
  <2>2. CASE k # 0
    <3>1. PICK m \in Nat : k = m + 1
      BY <2>2
    <3>2. m \notin Bad
      BY <1>1, <3>1
    <3>3. PICK f : Climbs(f, b, up, m)
      BY <3>2
    <3>4. PICK g : g = [i \in 0 .. m + 1 |-> IF i <= m THEN f[i]
                                            ELSE IF f[m] = Nowhere THEN Nowhere ELSE up[f[m]]]
      OBVIOUS
    <3>5. /\ f[0] = b
          /\ \A i \in 1 .. m : f[i] = IF f[i - 1] = Nowhere THEN Nowhere ELSE up[f[i - 1]]
      BY <3>3 DEF Climbs
    <3>6. /\ g[0] = b
          /\ \A i \in 1 .. m + 1 : g[i] = IF g[i - 1] = Nowhere THEN Nowhere ELSE up[g[i - 1]]
      <4>1. g[0] = b
        BY <3>4, <3>5
      <4>2. ASSUME NEW i \in 1 .. m + 1
            PROVE  g[i] = IF g[i - 1] = Nowhere THEN Nowhere ELSE up[g[i - 1]]
        <5>1. CASE i = m + 1
          BY <3>4, <5>1
        <5>2. CASE i # m + 1
          <6>1. i \in 1 .. m /\ g[i] = f[i] /\ g[i - 1] = f[i - 1]
            BY <3>4, <5>2
          <6> QED BY <3>5, <6>1
        <5> QED BY <5>1, <5>2
      <4> QED BY <4>1, <4>2
    <3>7. g = [i \in 0 .. m + 1 |-> IF i = 0 THEN b
                                     ELSE IF g[i - 1] = Nowhere THEN Nowhere ELSE up[g[i - 1]]]
      <4>1. PICK h : h = [i \in 0 .. m + 1 |-> IF i = 0 THEN b
                             ELSE IF g[i - 1] = Nowhere THEN Nowhere ELSE up[g[i - 1]]]
        OBVIOUS
      <4>2. \A i \in 0 .. m + 1 : h[i] = g[i]
        BY <3>6, <4>1
      <4>3. h = g
        BY <3>4, <4>1, <4>2
      <4> QED BY <4>1, <4>3
    <3>8. Climbs(g, b, up, k)
      BY <3>1, <3>7 DEF Climbs
    <3> QED BY <3>8
  <2> QED BY <2>1, <2>2
<1>2. \A k \in Bad : FALSE
  <2>1. Bad \subseteq Nat
    OBVIOUS
  <2> HIDE DEF Bad
  <2> QED BY <1>1, <2>1, Leads
<1> QED BY <1>2

\* The bags above a bag (proposedParents followed up) are such a climb.
LEMMA AboveIs ==
  ASSUME NEW b, NEW up, NEW n \in Nat, n = Cardinality(PageBags)
  PROVE  /\ Above(b, up)[0] = b
         /\ \A k \in 1 .. n :
              Above(b, up)[k] = IF Above(b, up)[k - 1] = Nowhere THEN Nowhere
                                ELSE up[Above(b, up)[k - 1]]
<1>1. PICK f : f = Above(b, up)
  OBVIOUS
<1>2. f = CHOOSE g : Climbs(g, b, up, n)
  BY <1>1 DEF Above, Climbs
<1>3. Climbs(f, b, up, n)
  BY <1>2, ClimbThere
<1>4. /\ f[0] = b
      /\ \A k \in 1 .. n : f[k] = IF f[k - 1] = Nowhere THEN Nowhere ELSE up[f[k - 1]]
  BY <1>3 DEF Climbs
<1> QED BY <1>1, <1>4

\* What a function climbs from b in n steps, said step by step.
Goes(f, b, up, n) ==
  /\ f[0] = b
  /\ \A k \in 1 .. n : f[k] = IF f[k - 1] = Nowhere THEN Nowhere ELSE up[f[k - 1]]

\* The bags above a bag are climbed so.
LEMMA AboveGoes ==
  ASSUME NEW b, NEW up, NEW n \in Nat, n = Cardinality(PageBags)
  PROVE  Goes(Above(b, up), b, up, n)
BY AboveIs DEF Goes

\* The page's bags are finitely many, and none of them is Nowhere.
LEMMA PageBagsAre ==
  ASSUME WritesInv
  PROVE  /\ PageBags \subseteq DragBag /\ IsFiniteSet(PageBags) /\ Cardinality(PageBags) \in Nat
         /\ Nowhere \notin PageBags
<1>1. PageBags \subseteq DragBag
  BY ExcludedRows
<1> QED BY <1>1, DragAssumption, FS_Subset, FS_CardinalityType

\* A bag that is climbed to again, in at most as many steps as there are bags, is on a
\* cycle.
LEMMA ComesRound ==
  ASSUME WritesInv, NEW n \in Nat, n = Cardinality(PageBags), NEW m \in 1 .. n,
         NEW g, g[0] \in PageBags, g[m] = g[0],
         \A k \in 1 .. m : g[k - 1] # Nowhere /\ g[k - 1] \in PageBags /\ g[k] = ProposedParent(g[k - 1])
  PROVE  g[0] \in CycleMembers
<1>1. PICK up, x : up = [b \in PageBags |-> ProposedParent(b)] /\ x = g[0]
  OBVIOUS
<1>2. PICK f : f = Above(x, up)
  OBVIOUS
<1>3. Goes(f, x, up, n)
  BY <1>2, AboveGoes
<1> DEFINE Bad == {k \in Nat : k <= m /\ f[k] # g[k]}
<1>4. ASSUME NEW k \in Bad, \A j \in Bad : k <= j PROVE FALSE
  <2>1. k # 0
    BY <1>1, <1>3 DEF Goes
  <2>2. k \in 1 .. m /\ k - 1 \in Nat /\ k - 1 <= m /\ k \in 1 .. n
    BY <2>1
  <2>3. f[k - 1] = g[k - 1]
    BY <1>4, <2>2
  <2>4. g[k - 1] \in PageBags /\ g[k - 1] # Nowhere /\ g[k] = ProposedParent(g[k - 1])
    BY <2>2
  <2>5. f[k] = up[f[k - 1]]
    BY <1>3, <2>2, <2>3, <2>4 DEF Goes
  <2> QED BY <1>1, <2>3, <2>4, <2>5
<1>5. \A k \in Bad : FALSE
  <2>1. Bad \subseteq Nat
    OBVIOUS
  <2> HIDE DEF Bad
  <2> QED BY <1>4, <2>1, Leads
<1>6. f[m] = x
  BY <1>1, <1>5
<1>7. x \in PageBags /\ \E k \in 1 .. n : Above(x, up)[k] = x
  BY <1>1, <1>2, <1>6
<1> QED BY <1>1, <1>7 DEF CycleMembers

\* "A row must never vanish because its bag did": every bag there is is drawn, for a
\* climb along the tree ends at a root (packing-tree.ts).
LEMMA AllDrawn ==
  ASSUME WritesInv
  PROVE  DrawnBags = PageBags
<1>1. PICK n, T, up : /\ n = Cardinality(PageBags) /\ T = PageBags
                      /\ up = [c \in PageBags |-> TreeParent(c)]
  OBVIOUS
<1>2. n \in Nat /\ IsFiniteSet(T) /\ Nowhere \notin T /\ n = Cardinality(T)
  BY <1>1, PageBagsAre
<1>3. \A b \in T : up[b] = TreeParent(b) /\ up[b] \in T \cup {Nowhere}
  BY <1>1 DEF TreeParent, ProposedParent
<1>4. \A b : SubtreeOf(b) = {c \in T : \E k \in 0 .. n : Above(c, up)[k] = b}
  BY <1>1 DEF SubtreeOf
<1>5. DrawnBags \subseteq T
  BY <1>4 DEF DrawnBags
<1>6. ASSUME NEW c \in T PROVE \E r \in T : TreeParent(r) = Nowhere /\ c \in SubtreeOf(r)
  <2>1. PICK f : f = Above(c, up)
    OBVIOUS
  <2>2. Goes(f, c, up, n)
    BY <1>1, <1>2, <2>1, AboveGoes
  <2> SUFFICES ASSUME ~ \E k \in 0 .. n : f[k] \in T /\ TreeParent(f[k]) = Nowhere
               PROVE  FALSE
    BY <1>4, <2>1
  <2> DEFINE Bad == {k \in Nat : k <= n /\ f[k] \notin T}
  <2>3. ASSUME NEW k \in Bad, \A j \in Bad : k <= j PROVE FALSE
    <3>1. k # 0
      BY <2>2 DEF Goes
    <3>2. k \in 1 .. n /\ k - 1 \in Nat /\ k - 1 <= n /\ k - 1 \in 0 .. n
      BY <3>1, <1>2
    <3>3. f[k - 1] \in T
      BY <2>3, <3>2
    <3>4. f[k] = up[f[k - 1]]
      BY <1>2, <2>2, <3>2, <3>3 DEF Goes
    <3>5. up[f[k - 1]] # Nowhere
      BY <1>3, <3>2, <3>3
    <3> QED BY <1>3, <3>3, <3>4, <3>5
  <2>4. \A k \in Bad : FALSE
    <3>1. Bad \subseteq Nat
      OBVIOUS
    <3> HIDE DEF Bad
    <3> QED BY <2>3, <3>1, Leads
  <2>5. \A k \in 0 .. n : f[k] \in T
    BY <2>4
  <2>6. \A k \in 1 .. n : f[k] = TreeParent(f[k - 1]) /\ f[k - 1] \in T
    <3> SUFFICES ASSUME NEW k \in 1 .. n PROVE f[k] = TreeParent(f[k - 1]) /\ f[k - 1] \in T
      OBVIOUS
    <3>1. k - 1 \in 0 .. n
      BY <1>2
    <3> QED BY <1>2, <1>3, <2>2, <2>5, <3>1 DEF Goes
  <2>7. PICK S, h : S = 0 .. n /\ h = [k \in S |-> f[k]]
    OBVIOUS
  <2>8. IsFiniteSet(S) /\ Cardinality(S) = n + 1 /\ h \in [S -> T] /\ Cardinality(T) < Cardinality(S)
    <3>1. IsFiniteSet(0 .. n) /\ Cardinality(0 .. n) = n + 1
      BY <1>2, FS_Interval
    <3>2. h \in [S -> T]
      BY <2>5, <2>7
    <3> QED BY <1>2, <2>7, <3>1, <3>2
  <2>9. \E x, y \in S : x # y /\ h[x] = h[y]
    BY <1>2, <2>8, FS_PigeonHole
  <2>10. PICK i, j \in 0 .. n : i < j /\ f[i] = f[j]
    BY <2>7, <2>9
  <2>11. PICK m \in 1 .. n : j = i + m
    <3>1. j - i \in 1 .. n /\ j = i + (j - i)
      BY <1>2, <2>10
    <3> QED BY <3>1
  <2>12. PICK g : g = [k \in 0 .. m |-> f[i + k]]
    OBVIOUS
  <2>13. g[0] = f[i] /\ g[m] = f[j] /\ g[0] \in T /\ i + 1 \in 1 .. n /\ i \in 0 .. n
    BY <1>2, <2>5, <2>10, <2>11, <2>12
  <2>14. ASSUME NEW k \in 1 .. m
         PROVE  /\ g[k - 1] # Nowhere /\ g[k - 1] \in PageBags
                /\ g[k] = ProposedParent(g[k - 1]) /\ g[k] = TreeParent(g[k - 1])
    <3>1. PICK l : l = i + k
      OBVIOUS
    <3>2. l \in 1 .. n /\ l - 1 \in 0 .. n /\ g[k] = f[l] /\ g[k - 1] = f[l - 1] /\ l \in 0 .. n
      BY <1>2, <2>10, <2>11, <2>12, <3>1
    <3>3. f[l] = TreeParent(f[l - 1]) /\ f[l - 1] \in T /\ f[l] \in T
      BY <2>5, <2>6, <3>2
    <3>4. f[l] = ProposedParent(f[l - 1])
      BY <1>2, <3>3 DEF TreeParent
    <3> QED BY <1>1, <1>2, <3>2, <3>3, <3>4
  <2>15. g[0] \in CycleMembers
    <3>1. g[0] \in PageBags /\ g[m] = g[0]
      BY <1>1, <2>10, <2>13
    <3>2. \A k \in 1 .. m : g[k - 1] # Nowhere /\ g[k - 1] \in PageBags /\ g[k] = ProposedParent(g[k - 1])
      BY <2>14
    <3> QED BY <1>1, <1>2, <3>1, <3>2, ComesRound
  <2>16. TreeParent(f[i]) = Nowhere
    BY <2>13, <2>15 DEF TreeParent
  <2> QED BY <2>13, <2>16
<1>7. \A c \in T : c \in DrawnBags
  <2> SUFFICES ASSUME NEW c \in T PROVE c \in DrawnBags
    OBVIOUS
  <2>1. PICK r \in T : TreeParent(r) = Nowhere /\ c \in SubtreeOf(r)
    BY <1>6
  <2>2. r \in PageBags /\ TreeParent(r) = Nowhere
    BY <1>1, <2>1
  <2> QED BY <2>1, <2>2 DEF DrawnBags
<1> QED BY <1>1, <1>5, <1>7

-----------------------------------------------------------------------------
(* What is drawn of a list                                                 *)

\* What a section in its order holds.
LEMMA Holds ==
  ASSUME Ranked(seen), NEW S, S \subseteq DragRow
  PROVE  /\ Range(UnionPackRows(S)) = S
         /\ S \subseteq DragGear => Range(DocumentRows(S)) = S
<1>1. ASSUME NEW line, InRow(line, S) PROVE Range(line) = S
  BY <1>1 DEF InRow, Range
<1>2. InRow(UnionPackRows(S), S)
  BY UnionRows DEF UnionPackRows
<1>3. S \subseteq DragGear => InRow(DocumentRows(S), S)
  BY ListedRows
<1> QED BY <1>1, <1>2, <1>3

\* The rows of a section, on the screen and for the planner.
LEMMA SectionHolds ==
  ASSUME WritesInv
  PROVE  /\ \A r \in DragRow : SectionOf(r) = Normalize(r)
         /\ \A p : Passing(ItemsIn(p) \cup FoodIn(p)) =
                     {q \in DragRow \ ReorderExclusions : Normalize(q) = p}
<1>1. \A r \in DragRow : SectionOf(r) = Normalize(r)
  BY AllDrawn DEF SectionOf, Normalize
<1>2. Headers \cup WornGear \subseteq DragGear
  <2>1. Headers \subseteq DragGear
    BY PageBagsAre, DragAssumption DEF Headers
  <2> QED BY <2>1, DragAssumption
<1>3. DragGear \cap DragFood = {} /\ DragRow = DragGear \cup DragFood
  BY DragAssumption DEF DragRow
<1>4. ASSUME NEW p
      PROVE Passing(ItemsIn(p) \cup FoodIn(p)) = {q \in DragRow \ ReorderExclusions : Normalize(q) = p}
  <2>1. ASSUME NEW q
        PROVE q \in ItemsIn(p) \cup FoodIn(p) <=>
                q \in DragRow \ (Headers \cup WornGear) /\ Normalize(q) = p
    BY <1>1, <1>2, <1>3 DEF ItemsIn, FoodIn
  <2> QED BY <2>1 DEF Passing, ReorderExclusions
<1> QED BY <1>1, <1>4

\* "Renderer and reorder planner MUST agree" (lists/pack-rows.ts, packing-dnd.ts).
LEMMA PlannedAsDrawn ==
  ASSUME WritesInv, Ranked(seen)
  PROVE  DrawnAsPlanned
<1> SUFFICES ASSUME NEW p \in DrawnBags \cup {Nowhere}, NEW r \in Range(RowsIn(p))
             PROVE  UnionPackRows(VisibleCohort(r, ReorderExclusions)) = RowsIn(p)
  BY DEF DrawnAsPlanned
<1>1. PICK S : S = Passing(ItemsIn(p) \cup FoodIn(p))
  OBVIOUS
<1>2. S = {q \in DragRow \ ReorderExclusions : Normalize(q) = p} /\ S \subseteq DragRow
  BY <1>1, SectionHolds
<1>3. Range(RowsIn(p)) = S
  BY <1>1, <1>2, Holds DEF RowsIn
<1>4. VisibleCohort(r, ReorderExclusions) = S
  BY <1>2, <1>3 DEF VisibleCohort
<1> QED BY <1>1, <1>4 DEF RowsIn

\* The headers on the screen.
LEMMA HeadersDrawn ==
  ASSUME WritesInv
  PROVE  /\ \A b \in PageBags : /\ ContainerItem(b) \in (Headers \ WornGear) \cup {Nowhere}
                                /\ \A c \in PageBags : ContainerItem(b) = ContainerItem(c) /\ b # c
                                     => ContainerItem(b) = Nowhere
         /\ \A g \in Headers \ WornGear : \E b \in PageBags : ContainerItem(b) = g
         /\ Headers \subseteq DragGear /\ Nowhere \notin Headers /\ Nowhere \notin DragRow
<1>1. PageBags \subseteq DragBag
  BY PageBagsAre
<1>2. \A b \in PageBags : ContainerItem(b) = IF Backs[b] \in WornGear THEN Nowhere ELSE Backs[b]
  BY DEF ContainerItem
<1>3. \A b, c \in PageBags : Backs[b] = Backs[c] /\ b # c => Backs[b] = Nowhere
  BY <1>1, DragAssumption
<1>4. \A b \in PageBags : Backs[b] \in DragGear \cup {Nowhere}
  BY <1>1, DragAssumption
<1>5. Nowhere \notin DragRow
  BY DragAssumption
<1>6. Headers \subseteq DragGear /\ Nowhere \notin Headers
  BY <1>4 DEF Headers
<1>7. \A b \in PageBags : Backs[b] \in Headers \cup {Nowhere}
  BY DEF Headers
<1>8. \A g \in Headers : g # Nowhere /\ \E b \in PageBags : Backs[b] = g
  BY DEF Headers
<1>9. \A b \in PageBags : /\ ContainerItem(b) \in (Headers \ WornGear) \cup {Nowhere}
                          /\ \A c \in PageBags : ContainerItem(b) = ContainerItem(c) /\ b # c
                               => ContainerItem(b) = Nowhere
  BY <1>2, <1>3, <1>7
<1>10. \A g \in Headers \ WornGear : \E b \in PageBags : ContainerItem(b) = g
  BY <1>2, <1>8
<1> QED BY <1>5, <1>6, <1>9, <1>10

\* All rows but those that the filter hides are in one of these sections, and in one only.
Once(all) ==
  LET headers == {s.header : s \in all} \ {Nowhere}
      line    == UNION {Range(s.rows) : s \in all}
  IN  /\ line \cap headers = {}
      /\ line \cup headers = DragRow \ (PackFiltered \ headers)
      /\ \A s, t \in all : s # t =>
           /\ Range(s.rows) \cap Range(t.rows) = {}
           /\ s.header # t.header \/ s.header = Nowhere

\* Sections named by P beside the one of what is worn, when they part the rows that are not
\* worn and not hidden, each in the section that in names, and the headers.
Divides(all, W, B, P, H, in) ==
  LET rest == DragRow \ (H \cup WornGear \cup PackFiltered)
  IN  /\ all = {W} \cup {B[p] : p \in P}
      /\ W.header = Nowhere /\ Range(W.rows) = WornGear \ PackFiltered
      /\ H = Headers \ WornGear
      /\ \A q \in rest : in[q] \in P
      /\ \A p \in P : Range(B[p].rows) = {q \in rest : in[q] = p}
      /\ \A p \in P : B[p].header \in H \cup {Nowhere}
      /\ \A g \in H : \E p \in P : B[p].header = g
      /\ \A p, q \in P : p # q /\ B[p].header = B[q].header => B[p].header = Nowhere

\* Such sections hold every row once.
LEMMA OnceWhen ==
  ASSUME WritesInv, NEW all, NEW W, NEW B, NEW P, NEW H, NEW in, Divides(all, W, B, P, H, in)
  PROVE  Once(all)
<1>p. /\ all = {W} \cup {B[p] : p \in P}
      /\ W.header = Nowhere /\ Range(W.rows) = WornGear \ PackFiltered
      /\ H = Headers \ WornGear
      /\ \A q \in DragRow \ (H \cup WornGear \cup PackFiltered) : in[q] \in P
      /\ \A p \in P : Range(B[p].rows) = {q \in DragRow \ (H \cup WornGear \cup PackFiltered) : in[q] = p}
      /\ \A p \in P : B[p].header \in H \cup {Nowhere}
      /\ \A g \in H : \E p \in P : B[p].header = g
      /\ \A p, q \in P : p # q /\ B[p].header = B[q].header => B[p].header = Nowhere
  BY DEF Divides
<1>1. PICK R, headers, line :
        /\ R = DragRow \ (H \cup WornGear \cup PackFiltered)
        /\ headers = {s.header : s \in all} \ {Nowhere}
        /\ line = UNION {Range(s.rows) : s \in all}
  OBVIOUS
<1>2. \A s : s \in all <=> s = W \/ \E p \in P : s = B[p]
  BY <1>p
<1>3. H \subseteq DragGear /\ H \cap WornGear = {} /\ Nowhere \notin H /\ WornGear \subseteq DragRow
      /\ H \subseteq DragRow
  BY <1>p, HeadersDrawn, DragAssumption DEF DragRow
<1>4. headers = H
  <2>1. \A g \in headers : g \in H
    BY <1>1, <1>2, <1>p
  <2>2. ASSUME NEW g \in H PROVE g \in headers
    <3>1. PICK p \in P : B[p].header = g
      BY <1>p
    <3>2. B[p] \in all
      BY <1>2
    <3>3. g \in {s.header : s \in all}
      BY <3>1, <3>2
    <3> QED BY <1>1, <1>3, <3>3
  <2> QED BY <2>1, <2>2
<1>5. line = (WornGear \ PackFiltered) \cup R
  <2>1. ASSUME NEW q \in line PROVE q \in (WornGear \ PackFiltered) \cup R
    <3>1. PICK s \in all : q \in Range(s.rows)
      BY <1>1
    <3> QED BY <1>1, <1>2, <1>p, <3>1
  <2>2. ASSUME NEW q \in WornGear \ PackFiltered PROVE q \in line
    <3>1. W \in all /\ q \in Range(W.rows)
      BY <1>2, <1>p
    <3> QED BY <1>1, <3>1
  <2>3. ASSUME NEW q \in R PROVE q \in line
    <3>1. PICK p : p \in P /\ p = in[q]
      BY <1>1, <1>p
    <3>2. B[p] \in all /\ q \in Range(B[p].rows)
      BY <1>1, <1>2, <1>p, <3>1
    <3> QED BY <1>1, <3>2
  <2> QED BY <2>1, <2>2, <2>3
<1>6. line \cap headers = {}
  BY <1>1, <1>3, <1>4, <1>5
<1>7. line \cup headers = DragRow \ (PackFiltered \ headers)
  BY <1>1, <1>3, <1>4, <1>5
<1>8. ASSUME NEW s \in all, NEW t \in all, s # t
      PROVE  /\ Range(s.rows) \cap Range(t.rows) = {}
             /\ s.header # t.header \/ s.header = Nowhere
  <2>1. CASE s = W \/ t = W
    <3>1. \A p \in P : Range(B[p].rows) \cap Range(W.rows) = {}
      BY <1>p
    <3>2. PICK p \in P : (s = W /\ t = B[p]) \/ (t = W /\ s = B[p])
      BY <1>2, <1>8, <2>1
    <3>3. CASE s = W /\ t = B[p]
      BY <1>p, <3>1, <3>3
    <3>4. CASE t = W /\ s = B[p]
      BY <1>p, <3>1, <3>4
    <3> QED BY <3>2, <3>3, <3>4
  <2>2. CASE s # W /\ t # W
    <3>1. PICK p \in P, q \in P : s = B[p] /\ t = B[q] /\ p # q
      BY <1>2, <1>8, <2>2
    <3> QED BY <1>p, <3>1
  <2> QED BY <2>1, <2>2
<1> QED BY <1>1, <1>6, <1>7, <1>8 DEF Once

\* By location: the sections of the bags, and the one of no bag.
LEMMA OnceByBag ==
  ASSUME WritesInv, Ranked(seen), ByLocation
  PROVE  Once(Sections)
<1>1. PICK P, B, W, H, in :
        /\ P = PageBags \cup {Nowhere}
        /\ B = [p \in P |-> [at |-> <<"bag", p>>,
                             header |-> IF p = Nowhere THEN Nowhere ELSE ContainerItem(p),
                             rows |-> RowsIn(p)]]
        /\ W = [at |-> <<"worn">>, header |-> Nowhere, rows |-> WornSection]
        /\ H = Headers \ WornGear
        /\ in = [q \in DragRow |-> Normalize(q)]
  OBVIOUS
<1>2. DrawnBags = PageBags /\ Nowhere \notin PageBags
  BY AllDrawn, PageBagsAre
<1>3. PICK all : all = {W} \cup {B[p] : p \in P}
  OBVIOUS
<1>4. Sections = all
  <2>1. Sections = {W} \cup {[at |-> <<"bag", p>>,
                             header |-> IF p = Nowhere THEN Nowhere ELSE ContainerItem(p),
                             rows |-> RowsIn(p)] : p \in P}
    BY <1>1, <1>2 DEF Sections
  <2> QED BY <1>1, <1>3, <2>1
<1>5. W.header = Nowhere /\ Range(W.rows) = WornGear \ PackFiltered
  <2>1. WornGear \ PackFiltered \subseteq DragGear /\ WornGear \ PackFiltered \subseteq DragRow
    BY DragAssumption DEF DragRow
  <2>2. Range(WornSection) = WornGear \ PackFiltered
    BY <2>1, Holds DEF WornSection, Passing
  <2> QED BY <1>1, <2>2
<1>6. \A q \in DragRow : in[q] = Normalize(q) /\ in[q] \in P
  BY <1>1 DEF Normalize
<1>7. \A p \in P : /\ B[p].header = IF p = Nowhere THEN Nowhere ELSE ContainerItem(p)
                   /\ B[p].rows = RowsIn(p)
  BY <1>1
<1>8. ASSUME NEW p \in P
      PROVE  Range(B[p].rows) = {q \in DragRow \ (H \cup WornGear \cup PackFiltered) : in[q] = p}
  <2>1. PICK S : S = Passing(ItemsIn(p) \cup FoodIn(p))
    OBVIOUS
  <2>2. S = {q \in DragRow \ ReorderExclusions : Normalize(q) = p} /\ S \subseteq DragRow
    BY <2>1, SectionHolds
  <2>3. Range(RowsIn(p)) = S
    BY <2>1, <2>2, Holds DEF RowsIn
  <2>4. ReorderExclusions = H \cup WornGear \cup PackFiltered
    BY <1>1 DEF ReorderExclusions
  <2> QED BY <1>6, <1>7, <2>2, <2>3, <2>4
<1>9. \A p \in P : B[p].header \in H \cup {Nowhere}
  BY <1>1, <1>7, HeadersDrawn
<1>10. \A g \in H : \E p \in P : B[p].header = g
  <2> SUFFICES ASSUME NEW g \in H PROVE \E p \in P : B[p].header = g
    OBVIOUS
  <2>1. PICK b \in PageBags : ContainerItem(b) = g
    BY <1>1, HeadersDrawn
  <2>2. b \in P /\ B[b].header = g
    BY <1>1, <1>2, <1>7, <2>1
  <2> QED BY <2>2
<1>11. ASSUME NEW p \in P, NEW q \in P, p # q, B[p].header = B[q].header
       PROVE  B[p].header = Nowhere
  <2>1. CASE p = Nowhere \/ q = Nowhere
    BY <1>7, <1>11, <2>1
  <2>2. CASE p # Nowhere /\ q # Nowhere
    <3>1. p \in PageBags /\ q \in PageBags
      BY <1>1, <2>2
    <3> QED BY <1>7, <1>11, <2>2, <3>1, HeadersDrawn
  <2> QED BY <2>1, <2>2
<1>12. Divides(all, W, B, P, H, in)
  <2>1. H = Headers \ WornGear
    BY <1>1
  <2> QED BY <1>3, <1>5, <1>6, <1>8, <1>9, <1>10, <1>11, <2>1 DEF Divides
<1>13. Once(all)
  BY <1>12, OnceWhen
<1> QED BY <1>4, <1>13

\* Before its first location: the sections of the categories, and the one of the food.
LEMMA OnceByCategory ==
  ASSUME WritesInv, Ranked(seen), InPack, ~ByLocation
  PROVE  Once(Sections)
<1>1. PICK C, F, P, B, W, H, in :
        /\ C = {<<"cat", CatOf[g]>> : g \in DragGear} /\ F = <<"food">>
        /\ P = C \cup {F}
        /\ B = [p \in P |-> [at |-> p, header |-> Nowhere,
                             rows |-> IF p = F THEN FoodSection ELSE CategorySection(p[2])]]
        /\ W = [at |-> <<"worn">>, header |-> Nowhere, rows |-> WornSection]
        /\ H = {}
        /\ in = [q \in DragRow |-> IF q \in DragFood THEN F ELSE <<"cat", CatOf[q]>>]
  OBVIOUS
<1>2. Headers = {} /\ H = Headers \ WornGear
  BY <1>1 DEF ByLocation, Headers
<1>3. DragRow = DragGear \cup DragFood /\ DragGear \cap DragFood = {} /\ WornGear \subseteq DragGear
  BY DragAssumption DEF DragRow
<1>4. PICK all : all = {W} \cup {B[p] : p \in P}
  OBVIOUS
<1>5. /\ \A g \in DragGear : <<"cat", CatOf[g]>> \in C /\ <<"cat", CatOf[g]>> # F
      /\ \A p \in C : \E g \in DragGear : p = <<"cat", CatOf[g]>>
  BY <1>1
<1>6. /\ \A g \in DragGear : B[<<"cat", CatOf[g]>>] =
             [at |-> <<"cat", CatOf[g]>>, header |-> Nowhere, rows |-> CategorySection(CatOf[g])]
      /\ B[F] = [at |-> F, header |-> Nowhere, rows |-> FoodSection]
  BY <1>1, <1>5
<1>7. Sections = all
  <2>1. PICK A : A = {[at |-> <<"cat", CatOf[g]>>, header |-> Nowhere, rows |-> CategorySection(CatOf[g])] :
                        g \in DragGear}
    OBVIOUS
  <2>2. Sections = {W} \cup (A \cup {[at |-> F, header |-> Nowhere, rows |-> FoodSection]})
    BY <1>1, <2>1 DEF Sections
  <2>3. A = {B[p] : p \in C}
    <3>1. ASSUME NEW s \in A PROVE \E p \in C : s = B[p]
      BY <1>5, <1>6, <2>1
    <3>2. ASSUME NEW p \in C PROVE B[p] \in A
      <4>1. PICK g \in DragGear : p = <<"cat", CatOf[g]>>
        BY <1>5, <3>2
      <4>2. PICK q, s : q = <<"cat", CatOf[g]>> /\ s = CategorySection(CatOf[g])
        OBVIOUS
      <4>3. B[q] = [at |-> q, header |-> Nowhere, rows |-> s]
        BY <1>6, <4>2
      <4>4. [at |-> q, header |-> Nowhere, rows |-> s] \in A
        BY <2>1, <4>2
      <4> QED BY <4>1, <4>2, <4>3, <4>4
    <3> QED BY <3>1, <3>2
  <2>4. {B[p] : p \in P} = {B[p] : p \in C} \cup {B[F]}
    BY <1>1
  <2> QED BY <1>4, <1>6, <2>2, <2>3, <2>4
<1>8. W.header = Nowhere /\ Range(W.rows) = WornGear \ PackFiltered
  <2>1. WornGear \ PackFiltered \subseteq DragGear /\ WornGear \ PackFiltered \subseteq DragRow
    BY <1>3
  <2>2. Range(WornSection) = WornGear \ PackFiltered
    BY <2>1, Holds DEF WornSection, Passing
  <2> QED BY <1>1, <2>2
<1>9. PICK rest : rest = DragRow \ (H \cup WornGear \cup PackFiltered)
  OBVIOUS
<1>10. /\ \A q \in DragFood : in[q] = F
       /\ \A q \in DragGear : in[q] = <<"cat", CatOf[q]>>
  BY <1>1, <1>3
<1>11. \A q \in rest : in[q] \in P
  BY <1>1, <1>3, <1>5, <1>9, <1>10
<1>12. ASSUME NEW p \in P PROVE Range(B[p].rows) = {q \in rest : in[q] = p}
  <2>1. CASE p = F
    <3>1. PICK S : S = Passing(DragFood)
      OBVIOUS
    <3>2. S \subseteq DragRow /\ \A q : q \in S <=> q \in rest /\ q \in DragFood
      BY <1>1, <1>3, <1>9, <3>1 DEF Passing
    <3>3. Range(FoodSection) = S
      BY <3>1, <3>2, Holds DEF FoodSection
    <3>4. \A q \in rest : in[q] = p <=> q \in DragFood
      BY <1>3, <1>5, <1>9, <1>10, <2>1
    <3> QED BY <1>6, <2>1, <3>2, <3>3, <3>4
  <2>2. CASE p # F
    <3>1. PICK g \in DragGear : p = <<"cat", CatOf[g]>>
      BY <1>1, <1>5, <2>2
    <3>2. PICK S : S = Passing({h \in DragGear \ WornGear : CatOf[h] = CatOf[g]})
      OBVIOUS
    <3>3. S \subseteq DragRow /\ \A q : q \in S <=> q \in rest /\ q \in DragGear /\ CatOf[q] = CatOf[g]
      BY <1>1, <1>3, <1>9, <3>2 DEF Passing
    <3>4. Range(CategorySection(CatOf[g])) = S
      BY <3>2, <3>3, Holds DEF CategorySection
    <3>5. \A q \in rest : in[q] = p <=> q \in DragGear /\ CatOf[q] = CatOf[g]
      <4>1. \A q \in DragGear : in[q] = p <=> CatOf[q] = CatOf[g]
        BY <1>10, <3>1
      <4>2. \A q \in DragFood : in[q] # p
        BY <1>10, <2>2
      <4> QED BY <1>3, <1>9, <4>1, <4>2
    <3>6. B[p].rows = CategorySection(CatOf[g])
      <4>1. PICK q, s : q = <<"cat", CatOf[g]>> /\ s = CategorySection(CatOf[g])
        OBVIOUS
      <4>2. B[q] = [at |-> q, header |-> Nowhere, rows |-> s]
        BY <1>6, <4>1
      <4> QED BY <3>1, <4>1, <4>2
    <3> QED BY <3>3, <3>4, <3>5, <3>6
  <2> QED BY <2>1, <2>2
<1>13. \A p \in P : B[p].header = Nowhere
  BY <1>1
<1>14. Divides(all, W, B, P, H, in)
  <2>1. \A p \in P : Range(B[p].rows) = {q \in rest : in[q] = p}
    BY <1>12
  <2>2. \A p \in P : Range(B[p].rows) = {q \in DragRow \ (H \cup WornGear \cup PackFiltered) : in[q] = p}
    BY <1>9, <2>1
  <2>3. \A g \in H : \E p \in P : B[p].header = g
    BY <1>1
  <2> QED BY <1>2, <1>4, <1>8, <1>9, <1>11, <1>13, <2>2, <2>3 DEF Divides
<1> QED BY <1>7, <1>14, OnceWhen

\* The Pack view draws every row once, and each section as a drop into it is planned.
LEMMA PackDrawing ==
  ASSUME WritesInv, Ranked(seen)
  PROVE  PackDrawn
<1>1. DrawnAsPlanned
  BY PlannedAsDrawn
<1>2. ASSUME InPack PROVE Once(Sections)
  BY <1>2, OnceByBag, OnceByCategory
<1>3. DrawnOnce
  BY <1>2 DEF DrawnOnce, Once
<1> QED BY <1>1, <1>3 DEF PackDrawn

-----------------------------------------------------------------------------
(* What a drop plans: values that rise along the sequence it asks for      *)

\* The numbers at the places up to n rise,
Rise(slots, n) == \A i, j \in 1 .. n : i < j => slots[i] < slots[j]

\* or do not fall.
Stay(slots, n) == \A i, j \in 1 .. n : i < j => slots[i] <= slots[j]

\* A row of rows has each once.
LEMMA RowOnce ==
  ASSUME NEW S, NEW line, InRow(line, S)
  PROVE  /\ IsFiniteSet(S)
         /\ \A i, j \in 1 .. Cardinality(S) : line[i] = line[j] => i = j
<1>1. PICK n \in Nat : n = Cardinality(S)
  BY DEF InRow
<1>2. line \in Surjection(1 .. n, S)
  BY <1>1 DEF InRow, Surjection
<1>3. IsFiniteSet(1 .. n) /\ Cardinality(1 .. n) = n
  BY FS_Interval
<1>4. IsFiniteSet(S) /\ line \in Injection(1 .. n, S)
  BY <1>1, <1>2, <1>3, FS_Surjection
<1> QED BY <1>1, <1>4 DEF Injection, IsInjective

\* More numbers are free among more.
LEMMA FreeGrows ==
  ASSUME NEW avoid, NEW m \in Nat, NEW n \in Nat, m <= n
  PROVE  Free(m, avoid) <= Free(n, avoid)
<1>1. PICK S, T : S = (0 .. m - 1) \ avoid /\ T = (0 .. n - 1) \ avoid
  OBVIOUS
<1>2. IsFiniteSet(T)
  <2>1. IsFiniteSet(0 .. n - 1) /\ T \subseteq 0 .. n - 1
    BY <1>1, FS_Interval
  <2> QED BY <2>1, FS_Subset
<1>3. S \subseteq T
  BY <1>1
<1>4. Cardinality(S) <= Cardinality(T)
  BY <1>2, <1>3, FS_Subset
<1> QED BY <1>1, <1>4 DEF Free

\* So the numbers around the hidden rows' rise.
LEMMA DenseRises ==
  ASSUME NEW avoid, IsFiniteSet(avoid), NEW i \in Nat, NEW j \in Nat, 1 <= i, i < j
  PROVE  DenseSlot(i, avoid) < DenseSlot(j, avoid)
<1>1. PICK m, n : m = DenseSlot(i, avoid) /\ n = DenseSlot(j, avoid)
  OBVIOUS
<1>2. m \in Nat /\ n \in Nat /\ Free(m, avoid) = i - 1 /\ Free(n, avoid) = j - 1
  BY <1>1, DenseSlotIs
<1>3. ~ (n <= m)
  BY <1>2, FreeGrows
<1> QED BY <1>1, <1>2, <1>3

\* Rows in the order of their ranks.
LEMMA RanksStay ==
  ASSUME NEW s, Ranked(s), NEW S, S \subseteq DragRow, NEW slots,
         slots = [i \in 1 .. Cardinality(S) |-> s.rank[InRankOrder(s, S)[i]]]
  PROVE  Stay(slots, Cardinality(S))
<1>1. PICK before : before = {p \in S \X S : ShownBefore(s, p[1], p[2])}
  OBVIOUS
<1>2. IsFiniteSet(S) /\ Orders(before, S)
  BY <1>1, RanksOrder, RowsFinite
<1>3. PICK n, line : n = Cardinality(S) /\ line = InOrder(S, before)
  OBVIOUS
<1>4. /\ line \in [1 .. n -> S]
      /\ \A i, j \in 1 .. n : <<line[i], line[j]>> \in before <=> i < j
  BY <1>2, <1>3, Sorted DEF InRow
<1>5. slots = [i \in 1 .. n |-> s.rank[line[i]]]
  BY <1>1, <1>3 DEF InRankOrder
<1>6. \A x, y \in S : <<x, y>> \in before => s.rank[x] <= s.rank[y]
  <2>1. \A x \in S : s.rank[x] \in Nat
    BY DEF Ranked
  <2> QED BY <1>1, <2>1 DEF ShownBefore
<1>7. ASSUME NEW i \in 1 .. n, NEW j \in 1 .. n, i < j PROVE slots[i] <= slots[j]
  <2>1. PICK x \in S, y \in S : x = line[i] /\ y = line[j]
    BY <1>4
  <2>2. s.rank[x] <= s.rank[y]
    BY <1>4, <1>6, <1>7, <2>1
  <2> QED BY <1>5, <2>1, <2>2
<1> QED BY <1>3, <1>7 DEF Stay

\* Gear in the order of its places in the document.
LEMMA PlacesStay ==
  ASSUME Ranked(seen), NEW S, S \subseteq DragGear, NEW slots,
         slots = [i \in 1 .. Cardinality(S) |-> seen.order[DocumentRows(S)[i]]]
  PROVE  Stay(slots, Cardinality(S))
<1>1. PICK before : before = {p \in S \X S : \/ seen.order[p[1]] < seen.order[p[2]]
                                             \/ seen.order[p[1]] = seen.order[p[2]] /\ p[1] < p[2]}
  OBVIOUS
<1>2. IsFiniteSet(S) /\ Orders(before, S)
  BY <1>1, PlacesOrder, RowsFinite DEF DragRow
<1>3. PICK n, line : n = Cardinality(S) /\ line = InOrder(S, before)
  OBVIOUS
<1>4. /\ line \in [1 .. n -> S]
      /\ \A i, j \in 1 .. n : <<line[i], line[j]>> \in before <=> i < j
  BY <1>2, <1>3, Sorted DEF InRow
<1>5. slots = [i \in 1 .. n |-> seen.order[line[i]]]
  BY <1>1, <1>3 DEF DocumentRows
<1>6. \A x, y \in S : <<x, y>> \in before => seen.order[x] <= seen.order[y]
  <2>1. \A x \in S : seen.order[x] \in Nat
    BY DEF Ranked
  <2> QED BY <1>1, <2>1
<1>7. ASSUME NEW i \in 1 .. n, NEW j \in 1 .. n, i < j PROVE slots[i] <= slots[j]
  <2>1. PICK x \in S, y \in S : x = line[i] /\ y = line[j]
    BY <1>4
  <2>2. seen.order[x] <= seen.order[y]
    BY <1>4, <1>6, <1>7, <2>1
  <2> QED BY <1>5, <2>1, <2>2
<1> QED BY <1>3, <1>7 DEF Stay

\* Numbers that do not fall, of rows that have each their own, rise.
LEMMA ApartRise ==
  ASSUME NEW n \in Nat, NEW slots, \A i \in 1 .. n : slots[i] \in Nat, Stay(slots, n),
         \A i, j \in 1 .. n : slots[i] = slots[j] => i = j
  PROVE  Rise(slots, n)
<1> SUFFICES ASSUME NEW i \in 1 .. n, NEW j \in 1 .. n, i < j PROVE slots[i] < slots[j]
  BY DEF Rise
<1>1. slots[i] <= slots[j] /\ slots[i] # slots[j] /\ slots[i] \in Nat /\ slots[j] \in Nat
  BY DEF Stay
<1> QED BY <1>1

\* Slots handed out along a drop: each row that is asked for has its number, and they do
\* not fall along the sequence that the drop asks for.
Plans(S, asked, values) ==
  /\ InRow(asked, S) /\ DOMAIN values = S /\ Numbered(values)
  /\ \A i, j \in 1 .. Cardinality(S) : i < j => values[asked[i]] <= values[asked[j]]

\* Every number is one of the slots.
From(values, slots, n) == \A q \in DOMAIN values : \E i \in 1 .. n : values[q] = slots[i]

\* Handing out slots that do not fall is such a plan.
LEMMA PlanIs ==
  ASSUME NEW S, NEW r \in S, NEW o \in S, NEW line, InRow(line, S), NEW slots,
         NEW n, n = Cardinality(S), \A i \in 1 .. n : slots[i] \in Nat, Stay(slots, n),
         NEW asked, asked = Dropped(line, r, o), NEW values, values = HandOut(asked, slots)
  PROVE  /\ Plans(S, asked, values) /\ From(values, slots, n)
         /\ Rise(slots, n) => Apart(values, S)
<1>1. InRow(asked, S)
  BY DroppedIs
<1>2. Numbered(values) /\ DOMAIN values = S
  BY <1>1, HandedNumbers
<1>3. values = [q \in S |-> slots[IndexIn(asked, q)]]
  BY <1>1, <1>2 DEF HandOut, IndexIn
<1>4. \A q \in S : IndexIn(asked, q) \in 1 .. n /\ asked[IndexIn(asked, q)] = q
  BY <1>1, IndexIs
<1>5. n \in Nat /\ asked \in [1 .. n -> S]
  BY <1>1 DEF InRow
<1>6. \A i, j \in 1 .. n : asked[i] = asked[j] => i = j
  BY <1>1, RowOnce
<1>7. \A i \in 1 .. n : values[asked[i]] = slots[i]
  BY <1>3, <1>4, <1>5, <1>6
<1>8. \A i, j \in 1 .. n : i < j => values[asked[i]] <= values[asked[j]]
  BY <1>7 DEF Stay
<1>9. From(values, slots, n)
  BY <1>2, <1>3, <1>4 DEF From
<1>10. ASSUME Rise(slots, n) PROVE Apart(values, S)
  <2> SUFFICES ASSUME NEW x \in S, NEW y \in S, values[x] = values[y] PROVE x = y
    BY DEF Apart
  <2>1. PICK i \in 1 .. n, j \in 1 .. n : i = IndexIn(asked, x) /\ j = IndexIn(asked, y)
    BY <1>4
  <2>2. slots[i] = slots[j] /\ slots[i] \in Nat /\ slots[j] \in Nat
    BY <1>3, <2>1
  <2>3. ~ (i < j) /\ ~ (j < i)
    BY <1>10, <2>2 DEF Rise
  <2>4. i = j
    BY <1>5, <2>3
  <2> QED BY <1>4, <2>1, <2>4
<1> QED BY <1>1, <1>2, <1>8, <1>9, <1>10 DEF Plans

\* What rises does not fall.
LEMMA RiseStays ==
  ASSUME NEW n \in Nat, NEW slots, \A i \in 1 .. n : slots[i] \in Nat, Rise(slots, n)
  PROVE  Stay(slots, n)
<1> SUFFICES ASSUME NEW i \in 1 .. n, NEW j \in 1 .. n, i < j PROVE slots[i] <= slots[j]
  BY DEF Stay
<1>1. slots[i] < slots[j] /\ slots[i] \in Nat /\ slots[j] \in Nat
  BY DEF Rise
<1> QED BY <1>1

\* As many ranks as rows: each row has its own.
LEMMA OwnRanks ==
  ASSUME Ranked(seen), NEW S, S \subseteq DragRow, ~ (Cardinality(Ranks(S)) < Cardinality(S))
  PROVE  \A x, y \in S : seen.rank[x] = seen.rank[y] => x = y
<1>1. PICK ranks : ranks = {seen.rank[r] : r \in S}
  OBVIOUS
<1>2. PICK f : f = [r \in S |-> seen.rank[r]]
  OBVIOUS
<1>3. f \in Surjection(S, ranks)
  BY <1>1, <1>2 DEF Surjection
<1>4. IsFiniteSet(S) /\ IsFiniteSet(ranks) /\ Cardinality(ranks) <= Cardinality(S)
  BY <1>1, RowsFinite, RanksAre
<1>5. Cardinality(ranks) = Cardinality(S)
  BY <1>1, <1>4, FS_CardinalityType DEF Ranks
<1>6. f \in Injection(S, ranks)
  BY <1>3, <1>4, <1>5, FS_Surjection
<1> QED BY <1>2, <1>6 DEF Injection, IsInjective

\* The slots of a cohort rise, and no hidden row has one (assignUnionPackRankSlots).
LEMMA SlotsRise ==
  ASSUME Ranked(seen), NEW S, S \subseteq DragRow, NEW line, line = UnionPackRows(S),
         NEW avoid, IsFiniteSet(avoid), NEW n, n = Cardinality(S),
         NEW slots, slots = RankSlots(line, avoid)
  PROVE  Rise(slots, n) /\ \A i \in 1 .. n : slots[i] \in Nat /\ slots[i] \notin avoid
<1>1. InRow(line, S)
  BY UnionRows DEF UnionPackRows
<1>2. n \in Nat /\ Len(line) = n /\ line \in [1 .. n -> S] /\ Range(line) = S
  BY <1>1 DEF InRow, Range
<1>3. \A i \in 1 .. n : slots[i] \in Nat
  BY <1>1, SlotNumbers
<1>4. CASE Cardinality(Ranks(S)) < n \/ Ranks(S) \cap avoid # {}
  <2>1. slots = [i \in 1 .. n |-> DenseSlot(i, avoid)]
    BY <1>2, <1>4 DEF RankSlots
  <2>2. ASSUME NEW i \in 1 .. n PROVE DenseSlot(i, avoid) \notin avoid
    BY <1>2, DenseSlotIs
  <2>3. ASSUME NEW i \in 1 .. n, NEW j \in 1 .. n, i < j
        PROVE  DenseSlot(i, avoid) < DenseSlot(j, avoid)
    BY <1>2, <2>3, DenseRises
  <2> QED BY <1>3, <2>1, <2>2, <2>3 DEF Rise
<1>5. CASE ~ (Cardinality(Ranks(S)) < n) /\ Ranks(S) \cap avoid = {}
  <2>1. slots = [i \in 1 .. n |-> seen.rank[line[i]]]
    BY <1>2, <1>5 DEF RankSlots
  <2>2. \A x, y \in S : seen.rank[x] = seen.rank[y] => x = y
    BY <1>5, OwnRanks
  <2>3. \A i, j \in 1 .. n : line[i] = line[j] => i = j
    BY <1>1, RowOnce
  <2>4. \A i, j \in 1 .. n : slots[i] = slots[j] => i = j
    BY <1>2, <2>1, <2>2, <2>3
  <2>5. Stay(slots, n)
    BY <2>1, RanksStay DEF UnionPackRows
  <2>6. Rise(slots, n)
    BY <1>2, <1>3, <2>4, <2>5, ApartRise
  <2>7. \A i \in 1 .. n : slots[i] \notin avoid
    BY <1>2, <1>5, <2>1 DEF Ranks
  <2> QED BY <1>3, <2>6, <2>7
<1> QED BY <1>4, <1>5

\* A drop by location, or among the food: the hidden rows keep their ranks to themselves
\* (planUnionReorder).
LEMMA UnionPlan ==
  ASSUME Ranked(seen), NEW r \in DragRow, NEW o, NEW excluded, excluded \subseteq DragRow,
         CanReorder(r, o, excluded), NEW S, S = VisibleCohort(r, excluded),
         NEW asked, asked = Dropped(UnionPackRows(S), r, o),
         NEW values, values = PlanUnionReorder(r, o, excluded)
  PROVE  /\ Plans(S, asked, values) /\ Apart(values, S)
         /\ \A q \in S : values[q] \notin AvoidRanks(Normalize(r), excluded)
<1>1. PICK n, line, avoid, slots :
        /\ n = Cardinality(S) /\ line = UnionPackRows(S)
        /\ avoid = AvoidRanks(Normalize(r), excluded) /\ slots = RankSlots(line, avoid)
  OBVIOUS
<1>2. r \in S /\ o \in S /\ S \subseteq DragRow
  BY DEF CanReorder, VisibleCohort
<1>3. InRow(line, S)
  BY <1>1, <1>2, UnionRows DEF UnionPackRows
<1>4. IsFiniteSet(avoid)
  <2>1. PICK H : H = {q \in excluded : Normalize(q) = Normalize(r)}
    OBVIOUS
  <2>2. avoid = {seen.rank[q] : q \in H} /\ H \subseteq DragRow
    BY <1>1, <2>1 DEF AvoidRanks, Ranks
  <2> QED BY <2>2, RanksAre
<1>5. Rise(slots, n) /\ \A i \in 1 .. n : slots[i] \in Nat /\ slots[i] \notin avoid
  BY <1>1, <1>2, <1>4, SlotsRise
<1>6. Stay(slots, n)
  BY <1>1, <1>3, <1>5, RiseStays DEF InRow
<1>7. asked = Dropped(line, r, o) /\ values = HandOut(asked, slots)
  BY <1>1 DEF PlanUnionReorder
<1>8. Plans(S, asked, values) /\ From(values, slots, n) /\ Apart(values, S)
  BY <1>1, <1>2, <1>3, <1>5, <1>6, <1>7, PlanIs
<1> QED BY <1>1, <1>5, <1>8 DEF From, Plans

\* Each row of S takes a number that one of them has,
Reuses(S, values) == \A q \in S : \E p \in S : values[q] = seen.rank[p]

\* and no two of them have the same one.
Singles(S) == \A x, y \in S : seen.rank[x] = seen.rank[y] => x = y

\* A drop in a category: its own ranks among its rows (planListItemReorder).
LEMMA CategoryPlan ==
  ASSUME Ranked(seen), NEW r \in DragGear, NEW o, NEW S, S = CategoryRows(r), {r, o} \subseteq S,
         NEW asked, asked = Dropped(UnionPackRows(S), r, o),
         NEW values, values = PlanPackCategory(r, o)
  PROVE  Plans(S, asked, values) /\ Reuses(S, values) /\ (Singles(S) => Apart(values, S))
<1>1. PICK n, line, slots :
        /\ n = Cardinality(S) /\ line = UnionPackRows(S)
        /\ slots = [i \in 1 .. Len(line) |-> seen.rank[line[i]]]
  OBVIOUS
<1>2. r \in S /\ o \in S /\ S \subseteq DragRow
  BY CategoryGear
<1>3. InRow(line, S)
  BY <1>1, <1>2, UnionRows DEF UnionPackRows
<1>4. n \in Nat /\ Len(line) = n /\ line \in [1 .. n -> S]
  BY <1>1, <1>3 DEF InRow
<1>5. \A i \in 1 .. n : slots[i] \in Nat /\ slots[i] = seen.rank[line[i]]
  BY <1>1, <1>2, <1>4 DEF Ranked
<1>6. Stay(slots, n)
  BY <1>1, <1>2, <1>4, RanksStay DEF UnionPackRows
<1>7. asked = Dropped(line, r, o) /\ values = HandOut(asked, slots)
  BY <1>1 DEF PlanPackCategory
<1>8. /\ Plans(S, asked, values) /\ From(values, slots, n)
      /\ Rise(slots, n) => Apart(values, S)
  BY <1>1, <1>2, <1>3, <1>5, <1>6, <1>7, PlanIs
<1>9. ASSUME NEW q \in S PROVE \E p \in S : values[q] = seen.rank[p]
  <2>1. PICK i \in 1 .. n : values[q] = slots[i]
    BY <1>8 DEF From, Plans
  <2>2. line[i] \in S /\ values[q] = seen.rank[line[i]]
    BY <1>4, <1>5, <2>1
  <2> QED BY <2>2
<1>10. ASSUME Singles(S) PROVE Apart(values, S)
  <2>1. \A i, j \in 1 .. n : line[i] = line[j] => i = j
    BY <1>1, <1>3, RowOnce
  <2>2. \A i, j \in 1 .. n : slots[i] = slots[j] => i = j
    BY <1>4, <1>5, <1>10, <2>1 DEF Singles
  <2>3. Rise(slots, n)
    BY <1>4, <1>5, <1>6, <2>2, ApartRise
  <2> QED BY <1>8, <2>3
<1> QED BY <1>8, <1>9, <1>10 DEF Reuses

\* A drop in the document: the category's own places among its rows.
LEMMA DocumentPlan ==
  ASSUME Ranked(seen), NEW r \in DragGear, NEW o, NEW S, S = CategoryRows(r), {r, o} \subseteq S,
         NEW asked, asked = Dropped(DocumentRows(S), r, o),
         NEW values, values = PlanDocument(r, o)
  PROVE  /\ Plans(S, asked, values)
         /\ (\A x, y \in S : seen.order[x] = seen.order[y] => x = y) => Apart(values, S)
<1>1. PICK n, line, slots :
        /\ n = Cardinality(S) /\ line = DocumentRows(S)
        /\ slots = [i \in 1 .. Len(line) |-> seen.order[line[i]]]
  OBVIOUS
<1>2. r \in S /\ o \in S /\ S \subseteq DragGear
  BY CategoryGear
<1>3. InRow(line, S)
  BY <1>1, <1>2, ListedRows
<1>4. n \in Nat /\ Len(line) = n /\ line \in [1 .. n -> S]
  BY <1>1, <1>3 DEF InRow
<1>5. \A i \in 1 .. n : slots[i] \in Nat /\ slots[i] = seen.order[line[i]]
  BY <1>1, <1>2, <1>4 DEF Ranked
<1>6. Stay(slots, n)
  BY <1>1, <1>2, <1>4, PlacesStay
<1>7. asked = Dropped(line, r, o) /\ values = HandOut(asked, slots)
  BY <1>1 DEF PlanDocument
<1>8. Plans(S, asked, values) /\ (Rise(slots, n) => Apart(values, S))
  <2>1. \A i \in 1 .. n : slots[i] \in Nat
    BY <1>5
  <2> QED BY <1>1, <1>2, <1>3, <1>6, <1>7, <2>1, PlanIs
<1>9. ASSUME \A x, y \in S : seen.order[x] = seen.order[y] => x = y PROVE Apart(values, S)
  <2>1. \A i, j \in 1 .. n : line[i] = line[j] => i = j
    BY <1>1, <1>3, RowOnce
  <2>2. \A i, j \in 1 .. n : slots[i] = slots[j] => i = j
    BY <1>4, <1>5, <1>9, <2>1
  <2>3. Rise(slots, n)
    BY <1>4, <1>5, <1>6, <2>2, ApartRise
  <2> QED BY <1>8, <2>3
<1> QED BY <1>8, <1>9

-----------------------------------------------------------------------------
(* What both checks look at                                                *)

\* The values v of the rows S, all in bag p of s, are of rows that are not worn, and no
\* row that stays in p has one of them in its table.
Fits(S, v, s, p) ==
  /\ S \cap WornGear = {} /\ \A r \in S : s.loc[r] = p
  /\ \A r \in S, q \in DragRow \ S :
       Half(r) = Half(q) /\ s.loc[q] = p => v[r] # s.rank[q]

\* The row whose bag the page's check looks at is one that is asked for.
LEMMA FirstIsAsked ==
  ASSUME NEW S, NEW asked, InRow(asked, S), NEW x \in S
  PROVE  FirstAsked(asked) \in S
<1>1. PICK n \in Nat : n = Cardinality(S)
  BY DEF InRow
<1>2. asked \in [1 .. n -> S] /\ \E i \in 1 .. n : asked[i] = x
  BY <1>1 DEF InRow
<1>3. PICK gear, from : /\ gear = {i \in 1 .. n : asked[i] \in DragGear}
                        /\ from = IF gear = {} THEN 1 .. n ELSE gear
  OBVIOUS
<1>4. from \subseteq 1 .. n /\ from # {}
  BY <1>2, <1>3
<1>5. PICK k \in from : \A j \in from : k <= j
  <2>1. from \subseteq Nat
    BY <1>4
  <2>2. PICK y : y \in from
    BY <1>4
  <2> QED BY <2>1, <2>2, Leads
<1>6. PICK i : i = CHOOSE k1 \in from : \A j \in from : k1 <= j
  OBVIOUS
<1>7. i \in from
  BY <1>5, <1>6
<1>8. DOMAIN asked = 1 .. n
  BY <1>2
<1>9. FirstAsked(asked) = asked[i]
  BY <1>3, <1>6, <1>8 DEF FirstAsked
<1> QED BY <1>2, <1>4, <1>7, <1>9

\* Such values pass the page's check,
LEMMA FitsPage ==
  ASSUME NEW S, S \subseteq DragRow, NEW x \in S, NEW asked, NEW values, Plans(S, asked, values),
         Apart(values, S), NEW p, Fits(S, values, seen, p)
  PROVE  PayloadSafe(asked, values)
<1>1. FirstAsked(asked) \in S
  BY FirstIsAsked DEF Plans
<1>2. seen.loc[FirstAsked(asked)] = p /\ DOMAIN values = S
  BY <1>1 DEF Fits, Plans
<1> QED BY <1>2 DEF PayloadSafe, Fits, Apart

\* and the server's.
LEMMA FitsServer ==
  ASSUME NEW S, S \subseteq DragRow, NEW values, DOMAIN values = S,
         Apart(values, S), NEW p, Fits(S, values, kept, p)
  PROVE  TakesReorder(values)
<1>1. S \cap WornGear = {} /\ \A r \in S : kept.loc[r] = p
  BY DEF Fits
<1>2. ASSUME NEW r \in S, NEW q \in DragRow, kept.loc[q] = kept.loc[r], Half(r) = Half(q), r # q
      PROVE  values[r] # IF q \in S THEN values[q] ELSE kept.rank[q]
  BY <1>1, <1>2 DEF Fits, Apart
<1> QED BY <1>1, <1>2 DEF TakesReorder

-----------------------------------------------------------------------------
(* What a drop starts                                                      *)

\* No two rows of a category stand in one place of the document.
Untied(s) ==
  \A g, h \in DragGear : CatOf[g] = CatOf[h] /\ s.order[g] = s.order[h] => g = h

\* The rows of one category, all of them.
Whole(S) == S \subseteq DragGear /\ \A g \in S, h \in DragGear : h \in S <=> CatOf[h] = CatOf[g]

\* A drop in the pack, over rows that both checks pass where the page agrees with a server
\* whose tables are in order.
PackStart(S, asked, values) ==
  /\ InPack /\ bagsKnown /\ reorder = None
  /\ S \subseteq DragRow /\ S # {} /\ Plans(S, asked, values)
  /\ S \subseteq DragGear \/ Apart(values, S)
  /\ Rooted(seen) /\ RanksApart(seen) => Apart(values, S) /\ \E p : Fits(S, values, seen, p)
  /\ StartPackReorder(asked, values)

\* A drop in the document, over the rows of a category.
ListStart(S, asked, values) ==
  /\ viewing = "edit" /\ reorder = None
  /\ Whole(S) /\ Plans(S, asked, values)
  /\ Untied(seen) => Apart(values, S)
  /\ StartDocumentReorder(asked, values)

\* A row on its way to another bag of the page.
MoveStart(r, p) ==
  /\ bagsKnown /\ reorder = None
  /\ p \in PageBags \cup {Nowhere} /\ (Rooted(seen) => p # seen.loc[r])
  /\ r \in DragGear => p \notin ContainerMoveExclusions(r)
  /\ RequestMove(r, p)

\* Where the page's rows are in its bags, they are shown there.
LEMMA ShownThere ==
  ASSUME bagsKnown, Rooted(seen), NEW r \in DragRow, seen.bags \subseteq DragBag
  PROVE  Normalize(r) = seen.loc[r]
BY DragAssumption DEF Normalize, PageBags, Rooted

\* A drop over another row of what is shown in a bag, or of its food.
LEMMA UnionStart ==
  ASSUME WritesInv, Ranked(seen), InPack, bagsKnown, reorder = None, NEW r \in DragRow, NEW o,
         NEW excluded, excluded \subseteq DragRow, WornGear \subseteq excluded,
         CanReorder(r, o, excluded), NEW S, S = VisibleCohort(r, excluded),
         NEW asked, asked = Dropped(UnionPackRows(S), r, o),
         NEW values, values = PlanUnionReorder(r, o, excluded), StartPackReorder(asked, values)
  PROVE  PackStart(S, asked, values)
<1>1. /\ Plans(S, asked, values) /\ Apart(values, S)
      /\ \A q \in S : values[q] \notin AvoidRanks(Normalize(r), excluded)
  BY UnionPlan
<1>2. r \in S /\ S \subseteq DragRow /\ S \cap WornGear = {}
  BY DEF CanReorder, VisibleCohort
<1>3. ASSUME Rooted(seen) PROVE Fits(S, values, seen, Normalize(r))
  <2>1. \A q \in DragRow : Normalize(q) = seen.loc[q]
    BY <1>3, ShownThere DEF WritesInv, Laid
  <2>2. \A q \in S : seen.loc[q] = Normalize(r)
    BY <1>2, <2>1 DEF VisibleCohort
  <2>3. ASSUME NEW x \in S, NEW q \in DragRow \ S, seen.loc[q] = Normalize(r)
        PROVE  values[x] # seen.rank[q]
    <3>1. q \in excluded /\ Normalize(q) = Normalize(r)
      BY <2>1, <2>3 DEF VisibleCohort
    <3>2. seen.rank[q] \in AvoidRanks(Normalize(r), excluded)
      BY <3>1 DEF AvoidRanks, Ranks
    <3> QED BY <1>1, <3>2
  <2> QED BY <1>2, <2>2, <2>3 DEF Fits
<1> QED BY <1>1, <1>2, <1>3 DEF PackStart

\* A drop over another row of a category, in a pack that has no bags.
LEMMA CategoryStart ==
  ASSUME WritesInv, Ranked(seen), InPack, bagsKnown, PageBags = {}, reorder = None,
         NEW r \in DragGear, NEW o, NEW S, S = CategoryRows(r), {r, o} \subseteq S,
         NEW asked, asked = Dropped(UnionPackRows(S), r, o),
         NEW values, values = PlanPackCategory(r, o), StartPackReorder(asked, values)
  PROVE  PackStart(S, asked, values)
<1>0. r \in DragGear /\ S = CategoryRows(r) /\ {r, o} \subseteq S /\ Ranked(seen)
      /\ asked = Dropped(UnionPackRows(S), r, o) /\ values = PlanPackCategory(r, o)
  OBVIOUS
<1>1. Plans(S, asked, values) /\ Reuses(S, values) /\ (Singles(S) => Apart(values, S))
  BY <1>0, CategoryPlan
<1>2. r \in S /\ S \subseteq DragRow /\ S \subseteq DragGear /\ S \cap WornGear = {}
  BY CategoryGear DEF CategoryRows
<1>3. ASSUME Rooted(seen), RanksApart(seen) PROVE Apart(values, S) /\ Fits(S, values, seen, Nowhere)
  <2>1. \A q \in DragRow : seen.loc[q] = Nowhere
    BY <1>3 DEF Rooted, PageBags
  <2>2. \A x, y \in DragGear : seen.rank[x] = seen.rank[y] => x = y
    BY <1>3, <2>1 DEF RanksApart, Half, DragRow
  <2>3. ASSUME NEW x \in S, NEW q \in DragRow \ S, Half(x) = Half(q) PROVE values[x] # seen.rank[q]
    <3>1. q \in DragGear
      BY <1>2, <2>3 DEF Half
    <3>2. PICK y \in S : values[x] = seen.rank[y]
      BY <1>1, <2>3 DEF Reuses
    <3> QED BY <1>2, <2>2, <2>3, <3>1, <3>2
  <2>4. Fits(S, values, seen, Nowhere)
    BY <1>2, <2>1, <2>3 DEF Fits
  <2>5. Singles(S)
    BY <1>2, <2>2 DEF Singles
  <2> QED BY <1>1, <2>4, <2>5
<1> QED BY <1>1, <1>2, <1>3 DEF PackStart

\* A drop in the document.
LEMMA DocumentStart ==
  ASSUME Ranked(seen), viewing = "edit", reorder = None,
         NEW r \in DragGear, NEW o, NEW S, S = CategoryRows(r), {r, o} \subseteq S,
         NEW asked, asked = Dropped(DocumentRows(S), r, o),
         NEW values, values = PlanDocument(r, o), StartDocumentReorder(asked, values)
  PROVE  \E T : ListStart(T, asked, values)
<1>1. S = {g \in DragGear : CatOf[g] = CatOf[r]}
  BY DEF CategoryRows, PackFiltered, InPack
<1>2. Whole(S)
  BY <1>1 DEF Whole
<1>3. /\ Plans(S, asked, values)
      /\ (\A x, y \in S : seen.order[x] = seen.order[y] => x = y) => Apart(values, S)
  BY DocumentPlan, Zenon
<1>4. Untied(seen) => \A x, y \in S : seen.order[x] = seen.order[y] => x = y
  BY <1>1 DEF Untied
<1> QED BY <1>2, <1>3, <1>4 DEF ListStart

\* Every drop and every menu is one of the three.
LEMMA DropsAre ==
  ASSUME WritesInv, Ranked(seen), Drops
  PROVE  \/ \E S, asked, values : PackStart(S, asked, values) \/ ListStart(S, asked, values)
         \/ \E r \in DragRow : \E p : MoveStart(r, p)
<1> DEFINE Started == \/ \E S, asked, values : PackStart(S, asked, values) \/ ListStart(S, asked, values)
                      \/ \E r \in DragRow : \E p : MoveStart(r, p)
<1>0. ReorderExclusions \subseteq DragRow /\ WornGear \subseteq ReorderExclusions
  BY ExcludedRows DEF ReorderExclusions
<1>1. ASSUME ByLocation PROVE InPack /\ bagsKnown
  BY <1>1 DEF ByLocation, PageBags
<1>2. ASSUME NEW r \in DragRow, Rooted(seen), bagsKnown PROVE Normalize(r) = seen.loc[r]
  BY <1>2, ShownThere DEF WritesInv, Laid
<1>3. ASSUME NEW r \in DragRow, NEW p, bagsKnown, reorder = None, MayDropIn(r, p), RequestMove(r, p)
      PROVE  MoveStart(r, p)
  BY <1>2, <1>3 DEF MayDropIn, MoveStart
<1>4. ASSUME NEW r \in DragRow, NEW o \in DragRow, DropRowOver(r, o) PROVE Started
  <2>1. InPack /\ bagsKnown /\ reorder = None
    BY <1>1, <1>4 DEF DropRowOver, AnyItemReorderPending
  <2>2. CASE CanReorder(r, o, ReorderExclusions)
    <3>1. PICK S, asked, values :
            /\ S = VisibleCohort(r, ReorderExclusions) /\ asked = Dropped(UnionPackRows(S), r, o)
            /\ values = PlanUnionReorder(r, o, ReorderExclusions)
            /\ StartPackReorder(asked, values)
      BY <1>4, <2>2 DEF DropRowOver
    <3>2. PackStart(S, asked, values)
      BY <1>0, <2>1, <2>2, <3>1, UnionStart
    <3> QED BY <3>2
  <2>3. CASE ~ CanReorder(r, o, ReorderExclusions)
    <3>1. MayDropIn(r, Normalize(o)) /\ RequestMove(r, Normalize(o))
      BY <1>4, <2>3 DEF DropRowOver
    <3>2. MoveStart(r, Normalize(o))
      BY <1>3, <2>1, <3>1
    <3> QED BY <3>2
  <2> QED BY <2>2, <2>3
<1>5. ASSUME NEW r \in DragRow, NEW p, DropRowInto(r, p) \/ NestInto(r, p) PROVE MoveStart(r, p)
  <2>1. ByLocation /\ reorder = None /\ MayDropIn(r, p) /\ RequestMove(r, p)
    BY <1>5 DEF DropRowInto, NestInto, AnyItemReorderPending, ItemDragPending
  <2> QED BY <1>1, <1>3, <2>1
<1>6. ASSUME NEW r \in DragRow, NEW p, MenuMove(r, p) PROVE MoveStart(r, p)
  BY <1>6 DEF MenuMove, MoveStart, ItemDragPending, AnyItemReorderPending
<1>7. ASSUME NEW r \in DragGear, NEW o \in DragGear, DropInCategory(r, o) PROVE Started
  <2>1. InPack /\ bagsKnown /\ PageBags = {} /\ reorder = None
    BY <1>7 DEF DropInCategory, PackingResolved, AnyItemReorderPending
  <2>2. PICK S, asked, values :
          /\ S = CategoryRows(r) /\ {r, o} \subseteq S /\ asked = Dropped(UnionPackRows(S), r, o)
          /\ values = PlanPackCategory(r, o) /\ StartPackReorder(asked, values)
    BY <1>7 DEF DropInCategory
  <2>3. PackStart(S, asked, values)
    BY <2>1, <2>2, CategoryStart
  <2> QED BY <2>3
<1>8. ASSUME NEW r \in DragFood, NEW o \in DragFood, DropAmongFood(r, o) PROVE Started
  <2>1. InPack /\ bagsKnown /\ reorder = None
    BY <1>8 DEF DropAmongFood, PackingResolved, AnyItemReorderPending
  <2>2. PICK excluded : excluded = ReorderExclusions \cup DragGear
    OBVIOUS
  <2>3. PICK S, asked, values :
          /\ S = VisibleCohort(r, excluded) /\ asked = Dropped(UnionPackRows(S), r, o)
          /\ values = PlanUnionReorder(r, o, excluded)
          /\ StartPackReorder(asked, values)
    BY <1>8, <2>2 DEF DropAmongFood
  <2>4. excluded \subseteq DragRow /\ WornGear \subseteq excluded /\ r \in DragRow
    BY <1>0, <2>2 DEF DragRow
  <2>5. CanReorder(r, o, excluded)
    BY <1>8, <2>2 DEF DropAmongFood
  <2>6. PackStart(S, asked, values)
    BY <2>1, <2>3, <2>4, <2>5, UnionStart
  <2> QED BY <2>6
<1>9. ASSUME NEW r \in DragGear, NEW o \in DragGear, DropInDocument(r, o) PROVE Started
  <2>1. viewing = "edit" /\ reorder = None
    BY <1>9 DEF DropInDocument, AnyItemReorderPending
  <2>2. PICK S, asked, values :
          /\ S = CategoryRows(r) /\ {r, o} \subseteq S /\ asked = Dropped(DocumentRows(S), r, o)
          /\ values = PlanDocument(r, o) /\ StartDocumentReorder(asked, values)
    BY <1>9 DEF DropInDocument
  <2>3. \E T : ListStart(T, asked, values)
    BY <2>1, <2>2, DocumentStart
  <2> QED BY <2>3
<1> HIDE DEF Started
<1>10. Started
  <2>1. ASSUME NEW r \in DragRow, NEW p, MoveStart(r, p) PROVE Started
    BY <2>1 DEF Started
  <2> QED BY <1>4, <1>5, <1>6, <1>7, <1>8, <1>9, <2>1 DEF Drops
<1> QED BY <1>10 DEF Started

-----------------------------------------------------------------------------
(* A drop stands as it was dropped                                         *)

\* What the patched ranks and the patched places are.
LEMMA PatchIs ==
  ASSUME NEW s, Laid(s), NEW v
  PROVE  /\ [s EXCEPT !.rank = Patched(@, v)].rank = Patched(s.rank, v)
         /\ [s EXCEPT !.order = Patched(@, v)].order = Patched(s.order, v)
<1>1. PICK loc, rank, order, packed, bags :
        s = [loc |-> loc, rank |-> rank, order |-> order, packed |-> packed, bags |-> bags]
  BY DEF Laid
<1> QED BY <1>1

\* The values of a patch, and what it leaves.
LEMMA PatchedAt ==
  ASSUME NEW f, NEW v, NEW r \in DOMAIN f
  PROVE  /\ r \in DOMAIN v => Patched(f, v)[r] = v[r]
         /\ r \notin DOMAIN v => Patched(f, v)[r] = f[r]
         /\ DOMAIN Patched(f, v) = DOMAIN f
BY DEF Patched

\* Rows that have each their own number stand in the order of the drop.
LEMMA InTurn ==
  ASSUME NEW S, NEW asked, NEW values, Plans(S, asked, values), Apart(values, S)
  PROVE  \A i \in 1 .. Len(asked) - 1 :
           /\ asked[i] \in S /\ asked[i + 1] \in S
           /\ values[asked[i]] < values[asked[i + 1]]
<1>1. PICK n \in Nat : n = Cardinality(S)
  BY DEF Plans, InRow
<1>2. Len(asked) = n /\ asked \in [1 .. n -> S]
  BY <1>1 DEF Plans, InRow
<1> SUFFICES ASSUME NEW i \in 1 .. n - 1
             PROVE  /\ asked[i] \in S /\ asked[i + 1] \in S
                    /\ values[asked[i]] < values[asked[i + 1]]
  BY <1>2
<1>3. i \in 1 .. n /\ i + 1 \in 1 .. n /\ i < i + 1
  OBVIOUS
<1>4. PICK x \in S, y \in S : x = asked[i] /\ y = asked[i + 1]
  BY <1>2, <1>3
<1>5. x # y
  <2>1. \A k, m \in 1 .. n : asked[k] = asked[m] => k = m
    BY <1>1, RowOnce DEF Plans
  <2> QED BY <1>3, <1>4, <2>1
<1>6. values[x] <= values[y] /\ values[x] \in Nat /\ values[y] \in Nat
  BY <1>1, <1>3, <1>4 DEF Plans, Numbered
<1>7. values[x] # values[y]
  BY <1>5 DEF Apart
<1> QED BY <1>4, <1>6, <1>7

\* A drop in the pack stands as dropped: nothing else changes its rank, and the document
\* none of its places.
LEMMA PackStands ==
  ASSUME WritesInv, NEW S, NEW asked, NEW values, PackStart(S, asked, values), reorder' # None
  PROVE  /\ viewing # "edit" /\ reorder'.asked = asked
         /\ \A i \in 1 .. Len(asked) - 1 : ShownBefore(seen', asked[i], asked[i + 1])
         /\ seen'.order = seen.order
         /\ \A r \in DragRow \ Range(asked) : seen'.rank[r] = seen.rank[r]
<1>1. /\ InPack /\ reorder = None /\ S \subseteq DragRow /\ Plans(S, asked, values)
      /\ S \subseteq DragGear \/ Apart(values, S)
      /\ StartPackReorder(asked, values)
  BY DEF PackStart
<1>2. /\ PayloadSafe(asked, values) /\ SendReorder("pack", asked, values)
      /\ seen' = [seen EXCEPT !.rank = Patched(@, values)]
  BY <1>1 DEF StartPackReorder
<1>3. DOMAIN values = S /\ Range(asked) = S /\ Laid(seen) /\ DOMAIN seen.rank = DragRow
  BY <1>1 DEF Plans, InRow, Range, WritesInv, Laid
<1>4. reorder'.asked = asked
  <2>1. reorder' = [is |-> "pack", asked |-> asked, values |-> values, before |-> seen,
                    stage |-> "sent", clean |-> InAgreement]
    BY <1>2 DEF SendReorder
  <2> QED BY <2>1
<1>5. Apart(values, S)
  <2>1. CASE S \subseteq DragGear
    BY <1>1, <1>2, <1>3, <2>1 DEF PayloadSafe, Half, Apart
  <2> QED BY <1>1, <2>1
<1>6. seen'.rank = Patched(seen.rank, values) /\ seen'.order = seen.order
  BY <1>2, <1>3, PatchIs, PatchRanks
<1>7. ASSUME NEW i \in 1 .. Len(asked) - 1 PROVE ShownBefore(seen', asked[i], asked[i + 1])
  <2>1. PICK x, y : /\ x = asked[i] /\ y = asked[i + 1] /\ x \in S /\ y \in S
                    /\ values[x] < values[y]
    BY <1>1, <1>5, InTurn
  <2>2. seen'.rank[x] = values[x] /\ seen'.rank[y] = values[y]
    BY <1>1, <1>3, <1>6, <2>1, PatchedAt
  <2> QED BY <2>1, <2>2 DEF ShownBefore
<1>8. \A r \in DragRow \ Range(asked) : seen'.rank[r] = seen.rank[r]
  BY <1>3, <1>6, PatchedAt
<1> QED BY <1>1, <1>4, <1>6, <1>7, <1>8 DEF InPack

\* A drop in the document stands as dropped, and leaves the ranks of the pack alone.
LEMMA ListStands ==
  ASSUME WritesInv, Untied(seen), NEW S, NEW asked, NEW values, ListStart(S, asked, values)
  PROVE  /\ ~ InPack /\ reorder'.asked = asked
         /\ \A i \in 1 .. Len(asked) - 1 : seen'.order[asked[i]] < seen'.order[asked[i + 1]]
         /\ seen'.rank = seen.rank
<1>1. /\ viewing = "edit" /\ reorder = None /\ S \subseteq DragGear /\ Plans(S, asked, values)
      /\ Apart(values, S) /\ SendReorder("list", asked, values)
      /\ seen' = [seen EXCEPT !.order = Patched(@, values)]
  BY DEF ListStart, Whole, StartDocumentReorder
<1>2. DOMAIN values = S /\ Range(asked) = S /\ Laid(seen) /\ DOMAIN seen.order = DragGear
  BY <1>1 DEF Plans, InRow, Range, WritesInv, Laid
<1>3. reorder'.asked = asked
  BY <1>1, <1>2, ReorderSent
<1>4. seen'.order = Patched(seen.order, values) /\ seen'.rank = seen.rank
  BY <1>1, <1>2, PatchIs, PatchOrder
<1>5. ASSUME NEW i \in 1 .. Len(asked) - 1 PROVE seen'.order[asked[i]] < seen'.order[asked[i + 1]]
  <2>1. PICK x, y : /\ x = asked[i] /\ y = asked[i + 1] /\ x \in S /\ y \in S
                    /\ values[x] < values[y]
    BY <1>1, InTurn
  <2>2. seen'.order[x] = values[x] /\ seen'.order[y] = values[y]
    BY <1>1, <1>2, <1>4, <2>1, PatchedAt
  <2> QED BY <2>1, <2>2
<1> QED BY <1>1, <1>3, <1>4, <1>5 DEF InPack

\* No row, bag or write changes: checkboxes and views do.
Resting ==
  /\ UNCHANGED <<moving, reorder, removing, bagsKnown>>
  /\ kept'.loc = kept.loc /\ kept'.rank = kept.rank /\ kept'.order = kept.order
  /\ kept'.bags = kept.bags
  /\ seen'.loc = seen.loc /\ seen'.rank = seen.rank /\ seen'.order = seen.order
  /\ seen'.bags = seen.bags

\* A checkbox, and the view, leave them at rest.
LEMMA TicksRest ==
  ASSUME WritesInv,
         \/ \E r \in DragRow : StartTick(r)
         \/ \E saved \in BOOLEAN : TickAnswered(saved)
         \/ ServeTick \/ SwitchView \/ UNCHANGED dragVars
  PROVE  Resting
<1>1. \A S : /\ [seen EXCEPT !.packed = S].loc = seen.loc
             /\ [seen EXCEPT !.packed = S].rank = seen.rank
             /\ [seen EXCEPT !.packed = S].order = seen.order
             /\ [seen EXCEPT !.packed = S].bags = seen.bags
             /\ [kept EXCEPT !.packed = S].loc = kept.loc
             /\ [kept EXCEPT !.packed = S].rank = kept.rank
             /\ [kept EXCEPT !.packed = S].order = kept.order
             /\ [kept EXCEPT !.packed = S].bags = kept.bags
  BY DEF WritesInv, Laid
<1>2. ASSUME NEW r \in DragRow, StartTick(r) PROVE Resting
  <2>1. PICK S : seen' = [seen EXCEPT !.packed = S]
    BY <1>2 DEF StartTick
  <2> QED BY <1>1, <1>2, <2>1 DEF StartTick, Resting
<1>3. ASSUME NEW saved \in BOOLEAN, TickAnswered(saved) PROVE Resting
  <2>1. PICK S : seen' = seen \/ seen' = [seen EXCEPT !.packed = S]
    BY <1>3 DEF TickAnswered
  <2> QED BY <1>1, <1>3, <2>1 DEF TickAnswered, Resting
<1>4. CASE ServeTick
  <2>1. PICK S : kept' = [kept EXCEPT !.packed = S]
    BY <1>4 DEF ServeTick
  <2> QED BY <1>1, <1>4, <2>1 DEF ServeTick, Resting
<1>5. CASE SwitchView \/ UNCHANGED dragVars
  BY <1>5 DEF SwitchView, dragVars, Resting
<1> QED BY <1>2, <1>3, <1>4, <1>5

\* Every step is the start of a write, a write at the server, its answer, a read, or none
\* of what follows turns on it.
LEMMA StepIs ==
  ASSUME WritesInv, Ranked(seen), [DragNext]_dragVars
  PROVE  \/ \E S, asked, values : PackStart(S, asked, values) \/ ListStart(S, asked, values)
         \/ \E r \in DragRow : \E p : MoveStart(r, p)
         \/ \E b \in DragBag : StartRemoveBag(b)
         \/ ServeReorder \/ ServeRemove \/ \E r \in DragRow : ServeMove(r)
         \/ ReorderSaved \/ ReorderFailed
         \/ \E r \in DragRow : MoveSaved(r) \/ MoveFailed(r)
         \/ \E saved \in BOOLEAN : BagRemoved(saved)
         \/ \E h \in {"gear", "food", "bags"} : Land(h)
         \/ Resting
<1>1. CASE Drops
  BY <1>1, DropsAre, Zenon
<1>2. CASE Serves
  BY <1>2, TicksRest DEF Serves
<1>3. CASE Answers
  BY <1>3, TicksRest DEF Answers
<1>4. CASE \E r \in DragRow : StartTick(r)
  BY <1>4, TicksRest
<1>5. CASE SwitchView \/ UNCHANGED dragVars
  BY <1>5, TicksRest
<1> QED BY <1>1, <1>2, <1>3, <1>4, <1>5 DEF DragNext

-----------------------------------------------------------------------------
(* What the server's tables keep to                                        *)

\* Rows are in bags of the list, and no rank of a table comes twice in one.
Stored(s) == Rooted(s) /\ RanksApart(s)

\* The arrival's rank comes after all that are there.
LEMMA ArrivalLast ==
  ASSUME NEW s, Ranked(s), NEW p, NEW q \in DragRow, s.loc[q] = p
  PROVE  s.rank[q] < OnePast(RanksAt(s, p, DragRow))
<1>1. PICK S : S = {x \in DragRow : s.loc[x] = p}
  OBVIOUS
<1>2. PICK ranks : ranks = {s.rank[r] : r \in S}
  OBVIOUS
<1>3. ranks = RanksAt(s, p, DragRow) /\ S \subseteq DragRow /\ q \in S
  BY <1>1, <1>2 DEF RanksAt
<1>4. ranks \subseteq Nat /\ IsFiniteSet(ranks)
  BY <1>2, <1>3, RanksAre
<1>5. s.rank[q] \in ranks
  BY <1>2, <1>3
<1>6. s.rank[q] < OnePast(ranks)
  BY <1>4, <1>5, OnePastIs
<1> QED BY <1>3, <1>6

\* Where a row that is set down is, and what its rank is.
LEMMA PutAt ==
  ASSUME NEW s, Laid(s), NEW r \in DragRow, NEW p, NEW n
  PROVE  PutIn(s, r, p, n).loc[r] = p /\ PutIn(s, r, p, n).rank[r] = n
<1> DEFINE t == PutIn(s, r, p, n)
           loc == [s.loc EXCEPT ![r] = p]
           rank == [s.rank EXCEPT ![r] = n]
<1>1. t = [s EXCEPT !.loc = loc, !.rank = rank]
  BY DEF PutIn
<1>2. loc[r] = p /\ rank[r] = n
  BY DEF Laid
<1> HIDE DEF loc, rank, t
<1>3. t.loc = loc /\ t.rank = rank
  BY <1>1 DEF Laid
<1>4. t.loc[r] = p /\ t.rank[r] = n
  BY <1>2, <1>3
<1> QED BY <1>4 DEF t

\* An arrival keeps the tables in order.
LEMMA PutStored ==
  ASSUME NEW s, NEW r \in DragRow, NEW p \in s.bags \cup {Nowhere}, Laid(s), Ranked(s), Stored(s)
  PROVE  Stored(PutIn(s, r, p, OnePast(RanksAt(s, p, DragRow))))
<1>1. PICK n, t : n = OnePast(RanksAt(s, p, DragRow)) /\ t = PutIn(s, r, p, n)
  OBVIOUS
<1>2. /\ t.bags = s.bags /\ t.loc[r] = p /\ t.rank[r] = n
      /\ \A q \in DragRow \ {r} : t.loc[q] = s.loc[q] /\ t.rank[q] = s.rank[q]
  <2>1. RowPut(s, t, r)
    BY <1>1, PutRow
  <2>2. t.loc[r] = p /\ t.rank[r] = n
    BY <1>1, PutAt
  <2> QED BY <2>1, <2>2 DEF RowPut
<1>3. Rooted(t)
  BY <1>2 DEF Rooted, Stored
<1>4. \A q \in DragRow \ {r} : s.loc[q] = p => s.rank[q] < n
  BY <1>1, ArrivalLast
<1>5. \A q \in DragRow \ {r} : s.loc[q] = p => s.rank[q] # n
  <2>1. \A q \in DragRow : s.rank[q] \in Nat
    BY DEF Ranked
  <2>2. n \in Nat
    BY <1>1, ArrivalNumber
  <2> QED BY <1>4, <2>1, <2>2
<1>6. ASSUME NEW x \in DragRow, NEW y \in DragRow, x # y, Half(x) = Half(y), t.loc[x] = t.loc[y]
      PROVE  t.rank[x] # t.rank[y]
  <2>1. CASE x = r
    BY <1>2, <1>5, <1>6, <2>1
  <2>2. CASE y = r
    BY <1>2, <1>5, <1>6, <2>2
  <2>3. CASE x # r /\ y # r
    BY <1>2, <1>6, <2>3 DEF Stored, RanksApart
  <2> QED BY <2>1, <2>2, <2>3
<1> QED BY <1>1, <1>3, <1>6 DEF Stored, RanksApart

\* So does a reorder that the server takes.
LEMMA ReorderStored ==
  ASSUME Laid(kept), Stored(kept), NEW v, TakesReorder(v)
  PROVE  Stored([kept EXCEPT !.rank = Patched(@, v)])
<1>1. PICK t : t = [kept EXCEPT !.rank = Patched(@, v)]
  OBVIOUS
<1>2. t.loc = kept.loc /\ t.bags = kept.bags /\ t.rank = Patched(kept.rank, v)
  BY <1>1, PatchRanks, PatchIs
<1>3. DOMAIN kept.rank = DragRow
  BY DEF Laid
<1>4. \A q \in DragRow : t.rank[q] = IF q \in DOMAIN v THEN v[q] ELSE kept.rank[q]
  BY <1>2, <1>3 DEF Patched
<1>5. ASSUME NEW x \in DragRow, NEW y \in DragRow, x # y, Half(x) = Half(y), kept.loc[x] = kept.loc[y]
      PROVE  t.rank[x] # t.rank[y]
  <2>1. CASE x \in DOMAIN v
    BY <1>4, <1>5, <2>1 DEF TakesReorder
  <2>2. CASE y \in DOMAIN v
    BY <1>4, <1>5, <2>2 DEF TakesReorder
  <2>3. CASE x \notin DOMAIN v /\ y \notin DOMAIN v
    BY <1>4, <1>5, <2>3 DEF Stored, RanksApart
  <2> QED BY <2>1, <2>2, <2>3
<1>6. Rooted(t)
  BY <1>2 DEF Stored, Rooted
<1> QED BY <1>1, <1>2, <1>5, <1>6 DEF Stored, RanksApart

\* Where the rows of a deleted bag go: behind those of Unassigned, or all of them anew.
SpillsTo(v, O, H, first) ==
  /\ Apart(v, DOMAIN v)
  /\ \/ DOMAIN v = O /\ \A r \in O : v[r] \in Nat /\ first <= v[r]
     \/ DOMAIN v = O \cup H

\* What a row's place in a line is.
LEMMA IndexAt ==
  ASSUME NEW X, NEW line \in Seq(X), NEW r \in Range(line)
  PROVE  IndexIn(line, r) \in 1 .. Len(line) /\ line[IndexIn(line, r)] = r
<1>1. \E i \in 1 .. Len(line) : line[i] = r
  BY DEF Range
<1> QED BY <1>1 DEF IndexIn

\* A row of rows has all of them.
LEMMA RowOfAll ==
  ASSUME NEW S, NEW line, InRow(line, S)
  PROVE  line \in Seq(S) /\ Range(line) = S
<1>1. PICK n : n = Cardinality(S)
  OBVIOUS
<1>2. line \in Seq(S) /\ line \in [1 .. n -> S] /\ \A r \in S : \E i \in 1 .. n : line[i] = r
  BY <1>1 DEF InRow
<1>3. Range(line) = {line[i] : i \in 1 .. n}
  BY <1>2 DEF Range
<1>4. Range(line) = S
  BY <1>2, <1>3
<1> QED BY <1>2, <1>4

\* The rows of a deleted bag go there.
LEMMA SpilledIs ==
  ASSUME Ranked(kept), NEW b, NEW O, O = {r \in DragRow : kept.loc[r] = b},
         NEW H, H = {r \in DragRow : kept.loc[r] = Nowhere}
  PROVE  SpillsTo(Spilled(b), O, H, NextUnionPackRank(Nowhere))
<1>1. PICK out, home, first, all, v :
        /\ out = InRankOrder(kept, O) /\ home = InRankOrder(kept, H)
        /\ first = NextUnionPackRank(Nowhere) /\ all = home \o out /\ v = Spilled(b)
  OBVIOUS
<1>2. InRow(out, O) /\ InRow(home, H) /\ first \in Nat
  BY <1>1, UnionRows, ArrivalNumber DEF NextUnionPackRank
<1>3. out \in Seq(O) /\ home \in Seq(H) /\ Range(out) = O /\ Range(home) = H
  BY <1>2, RowOfAll
<1>4. out \in Seq(DragRow) /\ home \in Seq(DragRow)
  BY <1>3
<1>5. all \in Seq(DragRow) /\ Range(all) = O \cup H
  <2>1. PICK m, n : m = Len(home) /\ n = Len(out)
    OBVIOUS
  <2>2. /\ all \in Seq(DragRow) /\ Len(all) = m + n /\ m \in Nat /\ n \in Nat
        /\ \A k \in 1 .. m + n : all[k] = IF k <= m THEN home[k] ELSE out[k - m]
    BY <1>1, <1>4, <2>1, Joined
  <2>3. Range(all) = {all[k] : k \in 1 .. m + n}
    <3>1. DOMAIN all = 1 .. m + n
      BY <2>2
    <3> QED BY <3>1 DEF Range
  <2>4. Range(home) = {home[k] : k \in 1 .. m} /\ Range(out) = {out[k] : k \in 1 .. n}
    BY <1>4, <2>1 DEF Range
  <2>5. ASSUME NEW x \in Range(all) PROVE x \in Range(home) \cup Range(out)
    <3>1. PICK k \in 1 .. m + n : x = all[k]
      BY <2>3
    <3>2. CASE k <= m
      BY <2>2, <2>4, <3>1, <3>2
    <3>3. CASE k > m
      <4>1. k - m \in 1 .. n /\ x = out[k - m]
        BY <2>2, <3>1, <3>3
      <4> QED BY <2>4, <4>1
    <3> QED BY <2>2, <3>2, <3>3
  <2>6. ASSUME NEW x \in Range(home) PROVE x \in Range(all)
    <3>1. PICK k \in 1 .. m : x = home[k]
      BY <2>4
    <3>2. k \in 1 .. m + n /\ all[k] = x
      BY <2>2, <3>1
    <3> QED BY <2>3, <3>2
  <2>7. ASSUME NEW x \in Range(out) PROVE x \in Range(all)
    <3>1. PICK k \in 1 .. n : x = out[k]
      BY <2>4
    <3>2. m + k \in 1 .. m + n /\ all[m + k] = x
      BY <2>2, <3>1
    <3> QED BY <2>3, <3>2
  <2> QED BY <1>3, <2>2, <2>5, <2>6, <2>7
<1>6. CASE v = [r \in O |-> first + IndexIn(out, r) - 1]
  <2>1. \A r \in O : IndexIn(out, r) \in 1 .. Len(out) /\ out[IndexIn(out, r)] = r
    BY <1>3, <1>4, IndexAt
  <2>2. \A r \in O : v[r] \in Nat /\ first <= v[r]
    BY <1>2, <1>4, <1>6, <2>1
  <2>3. ASSUME NEW x \in O, NEW y \in O, v[x] = v[y] PROVE x = y
    <3>1. PICK i \in Nat, j \in Nat : i = IndexIn(out, x) /\ j = IndexIn(out, y)
      BY <1>4, <2>1
    <3>2. first + i - 1 = first + j - 1
      BY <1>6, <2>3, <3>1
    <3>3. i = j
      BY <1>2, <3>2
    <3> QED BY <2>1, <3>1, <3>3
  <2> QED BY <1>1, <1>6, <2>2, <2>3 DEF SpillsTo, Apart
<1>7. CASE v = [r \in O \cup H |-> IndexIn(all, r) - 1]
  <2>1. \A r \in O \cup H : IndexIn(all, r) \in 1 .. Len(all) /\ all[IndexIn(all, r)] = r
    BY <1>5, IndexAt
  <2>2. ASSUME NEW x \in O \cup H, NEW y \in O \cup H, v[x] = v[y] PROVE x = y
    <3>1. PICK i \in Nat, j \in Nat : i = IndexIn(all, x) /\ j = IndexIn(all, y)
      BY <1>5, <2>1
    <3>2. i = j
      BY <1>7, <2>2, <3>1
    <3> QED BY <2>1, <3>1, <3>2
  <2> QED BY <1>1, <1>7, <2>2 DEF SpillsTo, Apart
<1>8. \/ v = [r \in Range(out) |-> first + IndexIn(out, r) - 1]
      \/ v = [r \in Range(all) |-> IndexIn(all, r) - 1]
  BY <1>1 DEF Spilled
<1> QED BY <1>3, <1>5, <1>6, <1>7, <1>8

\* Deleting a bag keeps the tables in order.
LEMMA RemoveStored ==
  ASSUME Laid(kept), Ranked(kept), Stored(kept), ServeRemove
  PROVE  Stored(kept')
<1>1. PICK b, v, O, H, first :
        /\ b = removing.bag /\ v = Spilled(b) /\ first = NextUnionPackRank(Nowhere)
        /\ O = {r \in DragRow : kept.loc[r] = b} /\ H = {r \in DragRow : kept.loc[r] = Nowhere}
  OBVIOUS
<1>2. PICK loc, rank, bags :
        /\ loc = [r \in DragRow |-> IF kept.loc[r] = b THEN Nowhere ELSE kept.loc[r]]
        /\ rank = Patched(kept.rank, v) /\ bags = kept.bags \ {b}
  OBVIOUS
<1>3. kept' = [kept EXCEPT !.bags = bags, !.rank = rank, !.loc = loc]
  BY <1>1, <1>2 DEF ServeRemove
<1>4. kept'.loc = loc /\ kept'.rank = rank /\ kept'.bags = bags
  BY <1>3 DEF Laid
<1>5. Rooted(kept')
  BY <1>2, <1>4 DEF Rooted, Stored
<1>6. \A r \in DragRow : rank[r] = IF r \in DOMAIN v THEN v[r] ELSE kept.rank[r]
  BY <1>2 DEF Patched, Laid
<1>7. SpillsTo(v, O, H, first)
  BY <1>1, SpilledIs
<1>8. \A r \in H : kept.rank[r] < first
  BY <1>1, ArrivalLast DEF NextUnionPackRank
<1>9. ASSUME NEW x \in DragRow, NEW y \in DragRow, x # y, Half(x) = Half(y), loc[x] = loc[y],
             x \notin DOMAIN v, y \notin DOMAIN v
      PROVE  rank[x] # rank[y]
  <2>1. x \notin O /\ y \notin O
    BY <1>7, <1>9 DEF SpillsTo
  <2>2. kept.loc[x] = kept.loc[y]
    BY <1>1, <1>2, <1>9, <2>1
  <2> QED BY <1>6, <1>9, <2>2 DEF Stored, RanksApart
<1>10. ASSUME NEW x \in DOMAIN v, NEW y \in DragRow \ DOMAIN v, x \in DragRow, loc[x] = loc[y]
       PROVE  rank[x] # rank[y]
  <2>1. x \in O \cup H /\ y \notin O
    BY <1>7, <1>10 DEF SpillsTo
  <2>2. loc[x] = Nowhere
    BY <1>1, <1>2, <2>1
  <2>3. y \in H
    BY <1>1, <1>2, <1>10, <2>1, <2>2
  <2>4. v[x] \in Nat /\ first <= v[x]
    BY <1>7, <1>10, <2>3 DEF SpillsTo
  <2>5. kept.rank[y] \in Nat /\ kept.rank[y] < first /\ first \in Nat
    BY <1>1, <1>8, <2>3, ArrivalNumber DEF Ranked, NextUnionPackRank
  <2> QED BY <1>6, <1>10, <2>4, <2>5
<1>11. ASSUME NEW x \in DragRow, NEW y \in DragRow, x # y, Half(x) = Half(y), loc[x] = loc[y]
       PROVE  rank[x] # rank[y]
  <2>1. CASE x \in DOMAIN v /\ y \in DOMAIN v
    BY <1>6, <1>7, <1>11, <2>1 DEF SpillsTo, Apart
  <2>2. CASE x \in DOMAIN v /\ y \notin DOMAIN v
    BY <1>10, <1>11, <2>2
  <2>3. CASE x \notin DOMAIN v /\ y \in DOMAIN v
    BY <1>10, <1>11, <2>3
  <2>4. CASE x \notin DOMAIN v /\ y \notin DOMAIN v
    BY <1>9, <1>11, <2>4
  <2> QED BY <2>1, <2>2, <2>3, <2>4
<1> QED BY <1>4, <1>5, <1>11 DEF Stored, RanksApart

\* A move that the server takes.
LEMMA MoveStored ==
  ASSUME Laid(kept), Ranked(kept), Stored(kept), NEW r \in DragRow, ServeMove(r)
  PROVE  Stored(kept')
<1>1. PICK p : p = moving[r].to
  OBVIOUS
<1>2. \/ kept' = kept
      \/ p \in kept.bags \cup {Nowhere} /\ kept' = PutIn(kept, r, p, NextUnionPackRank(p))
  BY <1>1 DEF ServeMove, TakesMove
<1>3. CASE kept' = kept
  BY <1>3 DEF Stored, Rooted, RanksApart
<1>4. CASE p \in kept.bags \cup {Nowhere} /\ kept' = PutIn(kept, r, p, NextUnionPackRank(p))
  <2>1. Stored(PutIn(kept, r, p, NextUnionPackRank(p)))
    BY <1>4, PutStored DEF NextUnionPackRank
  <2> QED BY <1>4, <2>1
<1> QED BY <1>2, <1>3, <1>4

\* The server's tables stay in order (server/lib/pack-rank.ts, the routes of list items, list
\* food items and packing locations).
LEMMA StoredStep ==
  ASSUME DragInv, RanksInv, Stored(kept), [DragNext]_dragVars
  PROVE  Stored(kept')
<1>0. WritesInv /\ Laid(kept) /\ Ranked(kept) /\ Ranked(seen)
  BY DEF DragInv, WritesInv, RanksInv
<1>1. ASSUME kept'.loc = kept.loc, kept'.rank = kept.rank, kept'.bags = kept.bags
      PROVE  Stored(kept')
  BY <1>1 DEF Stored, Rooted, RanksApart
<1>2. ASSUME NEW S, NEW asked, NEW values, PackStart(S, asked, values) \/ ListStart(S, asked, values)
      PROVE  Stored(kept')
  BY <1>1, <1>2 DEF PackStart, ListStart, StartPackReorder, StartDocumentReorder, SendReorder
<1>3. ASSUME NEW r, NEW p, MoveStart(r, p) PROVE Stored(kept')
  BY <1>1, <1>3 DEF MoveStart, RequestMove
<1>4. CASE ServeReorder
  <2>1. CASE kept' = [kept EXCEPT !.order = Patched(@, reorder.values)]
    <3>1. kept'.loc = kept.loc /\ kept'.rank = kept.rank /\ kept'.bags = kept.bags
      BY <1>0, <2>1, PatchOrder
    <3> QED BY <1>1, <3>1
  <2>2. CASE TakesReorder(reorder.values) /\ kept' = [kept EXCEPT !.rank = Patched(@, reorder.values)]
    BY <1>0, <2>2, ReorderStored
  <2>3. CASE UNCHANGED kept
    BY <1>1, <2>3
  <2> QED BY <1>4, <2>1, <2>2, <2>3 DEF ServeReorder
<1>5. CASE (\E b \in DragBag : StartRemoveBag(b)) \/ (\E h \in {"gear", "food", "bags"} : Land(h))
  BY <1>1, <1>5 DEF StartRemoveBag, Land
<1>6. CASE \/ ReorderSaved \/ ReorderFailed \/ \E r \in DragRow : MoveSaved(r) \/ MoveFailed(r)
           \/ \E saved \in BOOLEAN : BagRemoved(saved)
  BY <1>1, <1>6 DEF ReorderSaved, ReorderFailed, SettleReorder, MoveSaved, MoveFailed, SettleMove,
                    BagRemoved
<1>7. CASE Resting
  BY <1>1, <1>7 DEF Resting
<1> QED BY <1>0, <1>2, <1>3, <1>4, <1>5, <1>6, <1>7, RemoveStored, MoveStored, StepIs

-----------------------------------------------------------------------------
(* No ties in the document                                                 *)

\* A reorder of the document permutes one category, and remembers an order without ties.
ReorderUntied ==
  reorder # None /\ reorder.is = "list" =>
    /\ Untied(reorder.before) /\ Whole(DOMAIN reorder.values)
    /\ Apart(reorder.values, DOMAIN reorder.values)

\* Nor does either side have any.
TiesInv == Untied(kept) /\ Untied(seen) /\ ReorderUntied

\* Giving a whole category places of its own ties nothing.
LEMMA PatchUntied ==
  ASSUME NEW s, Laid(s), Untied(s), NEW v, Whole(DOMAIN v), Apart(v, DOMAIN v)
  PROVE  Untied([s EXCEPT !.order = Patched(@, v)])
<1>1. PICK t : t = [s EXCEPT !.order = Patched(@, v)]
  OBVIOUS
<1>2. t.order = Patched(s.order, v) /\ DOMAIN s.order = DragGear
  BY <1>1, PatchIs DEF Laid
<1>3. \A g \in DragGear : t.order[g] = IF g \in DOMAIN v THEN v[g] ELSE s.order[g]
  BY <1>2 DEF Patched
<1>4. ASSUME NEW g \in DragGear, NEW h \in DragGear, CatOf[g] = CatOf[h], t.order[g] = t.order[h]
      PROVE  g = h
  <2>1. g \in DOMAIN v <=> h \in DOMAIN v
    BY <1>4 DEF Whole
  <2>2. CASE g \in DOMAIN v
    BY <1>3, <1>4, <2>1, <2>2 DEF Apart
  <2>3. CASE g \notin DOMAIN v
    BY <1>3, <1>4, <2>1, <2>3 DEF Untied
  <2> QED BY <2>2, <2>3
<1> QED BY <1>1, <1>4 DEF Untied

\* Ties come of the places alone.
LEMMA SamePlaces ==
  ASSUME NEW s, NEW t, Untied(s), t.order = s.order
  PROVE  Untied(t)
BY DEF Untied

\* What a reorder carries stays with it, or goes with it.
Carried ==
  \/ reorder' = None
  \/ /\ reorder # None /\ reorder'.is = reorder.is /\ reorder'.asked = reorder.asked
     /\ reorder'.values = reorder.values /\ reorder'.before = reorder.before

\* Starts apart, no step changes what a reorder carries.
LEMMA StaysCarried ==
  ASSUME WritesInv,
         \/ reorder' = None \/ reorder' = reorder \/ reorder' = Overlapped(reorder)
         \/ \E stage : reorder' = [reorder EXCEPT !.stage = stage] /\ reorder # None
  PROVE  Carried
<1>1. CASE reorder = None
  <2>1. Overlapped(reorder) = None
    BY <1>1, Overlap
  <2> QED BY <1>1, <2>1 DEF Carried
<1>2. CASE reorder # None
  <2>1. PICK w : w = reorder
    OBVIOUS
  <2>2. w = [is |-> w.is, asked |-> w.asked, values |-> w.values, before |-> w.before,
             stage |-> w.stage, clean |-> w.clean]
    BY <1>2, <2>1 DEF WritesInv, ReorderOk
  <2>3. CASE reorder' = Overlapped(reorder)
    <3>1. reorder' = [is |-> w.is, asked |-> w.asked, values |-> w.values, before |-> w.before,
                      stage |-> w.stage, clean |-> FALSE]
      BY <1>2, <2>1, <2>3, Overlap
    <3>2. reorder'.is = w.is /\ reorder'.asked = w.asked /\ reorder'.values = w.values
          /\ reorder'.before = w.before
      BY <3>1
    <3> QED BY <1>2, <2>1, <3>2 DEF Carried
  <2>4. ASSUME NEW stage, reorder' = [reorder EXCEPT !.stage = stage] PROVE Carried
    <3>1. reorder' = [is |-> w.is, asked |-> w.asked, values |-> w.values, before |-> w.before,
                      stage |-> stage, clean |-> w.clean]
      BY <2>1, <2>2, <2>4
    <3>2. reorder'.is = w.is /\ reorder'.asked = w.asked /\ reorder'.values = w.values
          /\ reorder'.before = w.before
      BY <3>1
    <3> QED BY <1>2, <2>1, <3>2 DEF Carried
  <2>5. CASE reorder' = None \/ reorder' = reorder
    BY <1>2, <2>5 DEF Carried
  <2> QED BY <2>3, <2>4, <2>5
<1> QED BY <1>1, <1>2

\* The invariant holds of places and reorders that stay.
LEMMA TiesStay ==
  ASSUME TiesInv, Carried, Untied(kept'), Untied(seen')
  PROVE  TiesInv'
BY DEF TiesInv, ReorderUntied, Carried

\* A drop in the document permutes a category.
LEMMA ListTies ==
  ASSUME WritesInv, TiesInv, NEW S, NEW asked, NEW values, ListStart(S, asked, values)
  PROVE  TiesInv'
<1>1. /\ Whole(S) /\ Plans(S, asked, values) /\ Apart(values, S)
      /\ SendReorder("list", asked, values)
      /\ seen' = [seen EXCEPT !.order = Patched(@, values)]
  BY DEF ListStart, StartDocumentReorder, TiesInv
<1>2. DOMAIN values = S
  BY <1>1 DEF Plans
<1>3. Untied(seen')
  BY <1>1, <1>2, PatchUntied DEF WritesInv, TiesInv
<1>4. reorder' = [is |-> "list", asked |-> asked, values |-> values, before |-> seen,
                  stage |-> "sent", clean |-> InAgreement]
  BY <1>1 DEF SendReorder
<1>5. reorder'.before = seen /\ reorder'.values = values
  BY <1>4
<1>6. ReorderUntied'
  BY <1>1, <1>2, <1>5 DEF ReorderUntied, TiesInv
<1>7. kept' = kept
  BY <1>1 DEF SendReorder
<1> QED BY <1>3, <1>6, <1>7, SamePlaces DEF TiesInv

\* A drop in the pack leaves the document alone.
LEMMA PackTies ==
  ASSUME WritesInv, TiesInv, NEW S, NEW asked, NEW values, PackStart(S, asked, values)
  PROVE  TiesInv'
<1>1. reorder = None /\ StartPackReorder(asked, values)
  BY DEF PackStart
<1>2. CASE SendReorder("pack", asked, values) /\ seen' = [seen EXCEPT !.rank = Patched(@, values)]
  <2>1. reorder' = [is |-> "pack", asked |-> asked, values |-> values, before |-> seen,
                    stage |-> "sent", clean |-> InAgreement]
    BY <1>2 DEF SendReorder
  <2>2. reorder'.is = "pack" /\ kept' = kept
    BY <1>2, <2>1 DEF SendReorder
  <2>3. seen'.order = seen.order
    BY <1>2, PatchRanks DEF WritesInv
  <2>4. Untied(seen') /\ Untied(kept')
    BY <2>2, <2>3, SamePlaces DEF TiesInv
  <2> QED BY <2>2, <2>4 DEF TiesInv, ReorderUntied
<1>3. CASE UNCHANGED <<kept, seen, reorder>>
  BY <1>3, StaysCarried, TiesStay, SamePlaces DEF TiesInv
<1> QED BY <1>1, <1>2, <1>3 DEF StartPackReorder

\* Moves and bags have no bearing on places.
LEMMA PlacesStayed ==
  ASSUME NEW s, Laid(s)
  PROVE  /\ \A r \in DragRow : \A p, n : PutIn(s, r, p, n).order = s.order
         /\ \A B : [s EXCEPT !.bags = B].order = s.order
         /\ \A B, R, L : [s EXCEPT !.bags = B, !.rank = R, !.loc = L].order = s.order
<1>1. ASSUME NEW r \in DragRow, NEW p, NEW n PROVE PutIn(s, r, p, n).order = s.order
  <2>1. RowPut(s, PutIn(s, r, p, n), r)
    BY PutRow
  <2> QED BY <2>1 DEF RowPut
<1>2. \A B : [s EXCEPT !.bags = B].order = s.order
  BY DEF Laid
<1>3. \A B, R, L : [s EXCEPT !.bags = B, !.rank = R, !.loc = L].order = s.order
  BY DEF Laid
<1> QED BY <1>1, <1>2, <1>3

\* A step that leaves both sides' places alone, and the reorder or ends it.
LEMMA TiesKept ==
  ASSUME WritesInv, TiesInv, kept'.order = kept.order, seen'.order = seen.order,
         \/ reorder' = None \/ reorder' = reorder \/ reorder' = Overlapped(reorder)
  PROVE  TiesInv'
BY StaysCarried, TiesStay, SamePlaces DEF TiesInv

\* A reorder at the server.
LEMMA ServeTies ==
  ASSUME WritesInv, TiesInv, ServeReorder
  PROVE  TiesInv'
<1>0. Laid(kept) /\ reorder # None /\ seen' = seen
  BY DEF WritesInv, ServeReorder
<1>1. PICK stage : reorder' = [reorder EXCEPT !.stage = stage]
  BY DEF ServeReorder
<1>2. Carried
  BY <1>0, <1>1, StaysCarried
<1>3. CASE reorder.is = "list" /\ kept' = [kept EXCEPT !.order = Patched(@, reorder.values)]
  BY <1>0, <1>2, <1>3, PatchUntied, TiesStay, SamePlaces DEF TiesInv, ReorderUntied
<1>4. CASE kept' = [kept EXCEPT !.rank = Patched(@, reorder.values)]
  <2>1. kept'.order = kept.order
    BY <1>0, <1>4, PatchRanks
  <2> QED BY <1>0, <1>2, <2>1, TiesStay, SamePlaces DEF TiesInv
<1>5. CASE UNCHANGED kept
  BY <1>0, <1>2, <1>5, TiesStay, SamePlaces DEF TiesInv
<1> QED BY <1>3, <1>4, <1>5 DEF ServeReorder

\* Its failure, which puts back what was remembered.
LEMMA FailedTies ==
  ASSUME WritesInv, TiesInv, ReorderFailed
  PROVE  TiesInv'
<1>0. reorder # None /\ reorder' = None /\ kept' = kept /\ Laid(seen)
  BY DEF WritesInv, ReorderFailed, SettleReorder
<1>1. CASE reorder.is = "list"
  <2>1. PICK loc, rank, packed :
          seen' = [seen EXCEPT !.loc = loc, !.rank = rank, !.order = reorder.before.order,
                               !.packed = packed]
    BY <1>1 DEF ReorderFailed, RestoreItems
  <2>2. seen'.order = reorder.before.order
    BY <1>0, <2>1 DEF Laid
  <2>3. Untied(seen')
    BY <1>0, <1>1, <2>2, SamePlaces DEF TiesInv, ReorderUntied
  <2> QED BY <1>0, <2>3, StaysCarried, TiesStay, SamePlaces DEF TiesInv
<1>2. CASE reorder.is # "list"
  <2>1. seen' = RestoreRanks(reorder)
    BY <1>2 DEF ReorderFailed
  <2>2. PICK rank : seen' = [seen EXCEPT !.rank = rank]
    BY <2>1 DEF RestoreRanks
  <2>3. seen'.order = seen.order
    BY <1>0, <2>2 DEF Laid
  <2> QED BY <1>0, <2>3, TiesKept
<1> QED BY <1>1, <1>2

\* A read.
LEMMA LandTies ==
  ASSUME WritesInv, TiesInv, NEW h, Land(h)
  PROVE  TiesInv'
<1>0. kept' = kept /\ reorder' = Overlapped(reorder) /\ Laid(seen)
  BY DEF WritesInv, Land
<1>1. seen'.order = seen.order \/ seen'.order = kept.order
  <2>1. CASE h = "bags"
    BY <1>0, <2>1, PlacesStayed DEF Land
  <2>2. CASE h # "bags"
    <3>1. PICK loc, rank, order, packed :
            /\ seen' = [seen EXCEPT !.loc = loc, !.rank = rank, !.order = order, !.packed = packed]
            /\ order = IF h = "gear" THEN kept.order ELSE seen.order
      BY <2>2 DEF Land
    <3>2. seen'.order = order
      BY <1>0, <3>1 DEF Laid
    <3> QED BY <3>1, <3>2
  <2> QED BY <2>1, <2>2
<1>2. Untied(seen') /\ Untied(kept')
  BY <1>0, <1>1, SamePlaces DEF TiesInv
<1> QED BY <1>0, <1>2, StaysCarried, TiesStay

\* The document keeps free of ties.
LEMMA TiesStep ==
  ASSUME DragInv, RanksInv, TiesInv, [DragNext]_dragVars
  PROVE  TiesInv'
<1>0. WritesInv /\ Laid(kept) /\ Laid(seen) /\ Ranked(seen)
  BY DEF DragInv, WritesInv, RanksInv
<1>1. ASSUME NEW r \in DragRow, NEW p, MoveStart(r, p) PROVE TiesInv'
  <2>1. kept' = kept /\ reorder' = reorder /\ seen'.order = seen.order
    BY <1>0, <1>1, PlacesStayed DEF MoveStart, RequestMove
  <2> QED BY <1>0, <2>1, TiesKept
<1>2. ASSUME NEW b \in DragBag, StartRemoveBag(b) PROVE TiesInv'
  <2>1. kept' = kept /\ reorder' = Overlapped(reorder) /\ seen'.order = seen.order
    BY <1>0, <1>2, PlacesStayed DEF StartRemoveBag
  <2> QED BY <1>0, <2>1, TiesKept
<1>3. CASE ServeRemove
  <2>1. PICK B, R, L : kept' = [kept EXCEPT !.bags = B, !.rank = R, !.loc = L]
    BY <1>3 DEF ServeRemove
  <2>2. seen' = seen /\ reorder' = reorder /\ kept'.order = kept.order
    BY <1>0, <1>3, <2>1, PlacesStayed DEF ServeRemove
  <2> QED BY <1>0, <2>2, TiesKept
<1>4. ASSUME NEW r \in DragRow, ServeMove(r) PROVE TiesInv'
  <2>1. seen' = seen /\ reorder' = reorder /\ kept'.order = kept.order
    BY <1>0, <1>4, PlacesStayed DEF ServeMove
  <2> QED BY <1>0, <2>1, TiesKept
<1>5. ASSUME NEW r \in DragRow, MoveSaved(r) \/ MoveFailed(r) PROVE TiesInv'
  <2>1. kept' = kept /\ reorder' = reorder /\ seen'.order = seen.order
    BY <1>0, <1>5, PlacesStayed DEF MoveSaved, MoveFailed, SettleMove
  <2> QED BY <1>0, <2>1, TiesKept
<1>6. CASE ReorderSaved
  <2>1. kept' = kept /\ reorder' = None /\ seen' = seen
    BY <1>6 DEF ReorderSaved, SettleReorder
  <2> QED BY <1>0, <2>1, TiesKept
<1>7. ASSUME NEW saved \in BOOLEAN, BagRemoved(saved) PROVE TiesInv'
  <2>1. kept' = kept /\ reorder' = reorder /\ seen'.order = seen.order
    BY <1>0, <1>7, PlacesStayed DEF BagRemoved
  <2> QED BY <1>0, <2>1, TiesKept
<1>8. CASE Resting
  BY <1>0, <1>8, TiesKept DEF Resting
<1> QED BY <1>0, <1>1, <1>2, <1>3, <1>4, <1>5, <1>6, <1>7, <1>8, StepIs, PackTies, ListTies,
           ServeTies, FailedTies, LandTies

-----------------------------------------------------------------------------
(* A drop that nothing overlaps                                            *)

\* What is known of a reorder w that no other write overlaps: the server takes it, and then
\* holds what the page shows.
Agreed(w) ==
  \/ /\ w.is = "pack" /\ w.stage = "sent"
     /\ TakesReorder(w.values) /\ seen.rank = Patched(kept.rank, w.values)
  \/ w.is = "pack" /\ w.stage = "done" /\ seen.rank = kept.rank
  \/ w.is = "list" /\ w.stage = "sent" /\ seen.order = Patched(kept.order, w.values)
  \/ w.is = "list" /\ w.stage = "done" /\ seen.order = kept.order

\* What a reorder that nothing overlaps finds when it comes to the server.
ReorderClean ==
  reorder # None /\ reorder.clean => Moves = {} /\ removing = None /\ Agreed(reorder)

\* It says nothing of checkboxes and views.
LEMMA AgreedRests ==
  ASSUME NEW w, Agreed(w), kept'.loc = kept.loc, kept'.rank = kept.rank, kept'.order = kept.order,
         seen'.rank = seen.rank, seen'.order = seen.order
  PROVE  Agreed(w)'
<1>1. TakesReorder(w.values) => TakesReorder(w.values)'
  BY DEF TakesReorder
<1> QED BY <1>1 DEF Agreed

\* The server's tables are what the page shows, when they agree.
LEMMA AgreeStored ==
  ASSUME InAgreement, Stored(kept)
  PROVE  Rooted(seen) /\ RanksApart(seen)
BY DEF InAgreement, Stored, Rooted, RanksApart

\* Where they agree, a drop in the pack passes both checks.
LEMMA PackPasses ==
  ASSUME InAgreement, Stored(kept), NEW S, NEW asked, NEW values, PackStart(S, asked, values)
  PROVE  PayloadSafe(asked, values) /\ TakesReorder(values)
<1>1. Rooted(seen) /\ RanksApart(seen)
  BY AgreeStored
<1>2. S \subseteq DragRow /\ S # {} /\ Plans(S, asked, values)
  BY DEF PackStart
<1>3. PICK p : Apart(values, S) /\ Fits(S, values, seen, p)
  BY <1>1 DEF PackStart
<1>4. Fits(S, values, kept, p)
  BY <1>3 DEF Fits, InAgreement
<1>5. PICK x : x \in S
  BY <1>2
<1>6. DOMAIN values = S
  BY <1>2 DEF Plans
<1> QED BY <1>2, <1>3, <1>4, <1>5, <1>6, FitsPage, FitsServer

\* An agreement has nothing under way, and an overlap adds nothing.
LEMMA NothingMoves ==
  ASSUME WritesInv, Moves = {}, moving' = [r \in DragRow |-> Overlapped(moving[r])]
  PROVE  Moves' = {}
BY OverlapAll DEF Moves

\* A drop in the pack starts agreed.
LEMMA PackAgrees ==
  ASSUME WritesInv, Stored(kept), NEW S, NEW asked, NEW values, PackStart(S, asked, values),
         reorder' # None, reorder'.clean
  PROVE  Moves' = {} /\ removing' = None /\ Agreed(reorder)'
<1>1. reorder = None /\ StartPackReorder(asked, values)
  BY DEF PackStart
<1>2. /\ SendReorder("pack", asked, values)
      /\ seen' = [seen EXCEPT !.rank = Patched(@, values)]
  BY <1>1 DEF StartPackReorder
<1>3. PICK agreed : agreed = InAgreement
  OBVIOUS
<1>4. reorder' = [is |-> "pack", asked |-> asked, values |-> values, before |-> seen,
                  stage |-> "sent", clean |-> agreed]
  BY <1>2, <1>3 DEF SendReorder
<1>5. reorder'.is = "pack" /\ reorder'.stage = "sent" /\ reorder'.values = values
      /\ reorder'.clean = agreed
  BY <1>4
<1>6. InAgreement
  BY <1>3, <1>5
<1>7. seen.rank = kept.rank /\ Moves = {} /\ removing = None
  BY <1>6 DEF InAgreement
<1>8. kept' = kept /\ removing' = removing /\ moving' = [r \in DragRow |-> Overlapped(moving[r])]
  BY <1>2 DEF SendReorder
<1>9. seen'.rank = Patched(kept.rank, values)
  BY <1>2, <1>7, PatchIs DEF WritesInv
<1>10. TakesReorder(values)
  BY <1>6, PackPasses
<1>11. TakesReorder(values)'
  BY <1>8, <1>10 DEF TakesReorder
<1>12. TakesReorder(reorder.values)'
  BY <1>5, <1>11 DEF TakesReorder
<1>13. Agreed(reorder)'
  BY <1>5, <1>8, <1>9, <1>12 DEF Agreed
<1> QED BY <1>7, <1>8, <1>13, NothingMoves

\* So does one in the document.
LEMMA ListAgrees ==
  ASSUME WritesInv, NEW S, NEW asked, NEW values, ListStart(S, asked, values),
         reorder' # None, reorder'.clean
  PROVE  Moves' = {} /\ removing' = None /\ Agreed(reorder)'
<1>1. /\ SendReorder("list", asked, values)
      /\ seen' = [seen EXCEPT !.order = Patched(@, values)]
  BY DEF ListStart, StartDocumentReorder
<1>2. PICK agreed : agreed = InAgreement
  OBVIOUS
<1>3. reorder' = [is |-> "list", asked |-> asked, values |-> values, before |-> seen,
                  stage |-> "sent", clean |-> agreed]
  BY <1>1, <1>2 DEF SendReorder
<1>4. reorder'.is = "list" /\ reorder'.stage = "sent" /\ reorder'.values = values
      /\ reorder'.clean = agreed
  BY <1>3
<1>5. seen.order = kept.order /\ Moves = {} /\ removing = None
  BY <1>2, <1>4 DEF InAgreement
<1>6. kept' = kept /\ removing' = removing /\ moving' = [r \in DragRow |-> Overlapped(moving[r])]
  BY <1>1 DEF SendReorder
<1>7. seen'.order = Patched(kept.order, values)
  BY <1>1, <1>5, PatchIs DEF WritesInv
<1>8. Agreed(reorder)'
  BY <1>4, <1>6, <1>7 DEF Agreed
<1> QED BY <1>5, <1>6, <1>8, NothingMoves

\* The server takes it, and has what the page shows.
LEMMA ServeAgrees ==
  ASSUME WritesInv, ReorderClean, ServeReorder, reorder'.clean
  PROVE  Moves' = {} /\ removing' = None /\ Agreed(reorder)'
<1>1. PICK w, stage : w = reorder /\ reorder' = [reorder EXCEPT !.stage = stage]
  BY DEF ServeReorder
<1>2. reorder # None /\ reorder.stage = "sent" /\ UNCHANGED <<seen, moving, removing>>
  BY DEF ServeReorder
<1>3. w = [is |-> w.is, asked |-> w.asked, values |-> w.values, before |-> w.before,
           stage |-> w.stage, clean |-> w.clean]
  BY <1>1, <1>2 DEF WritesInv, ReorderOk
<1>4. reorder' = [is |-> w.is, asked |-> w.asked, values |-> w.values, before |-> w.before,
                  stage |-> stage, clean |-> w.clean]
  BY <1>1, <1>3
<1>5. reorder'.is = w.is /\ reorder'.stage = stage /\ reorder'.values = w.values /\ w.clean
  BY <1>4
<1>6. Moves = {} /\ removing = None /\ Agreed(w)
  BY <1>1, <1>2, <1>5 DEF ReorderClean
<1>7. Laid(kept)
  BY DEF WritesInv
<1>8. CASE w.is = "pack"
  <2>1. TakesReorder(w.values) /\ seen.rank = Patched(kept.rank, w.values)
    BY <1>1, <1>2, <1>6, <1>8 DEF Agreed
  <2>2. kept' = [kept EXCEPT !.rank = Patched(@, w.values)] /\ reorder' = [reorder EXCEPT !.stage = "done"]
    BY <1>1, <1>8, <2>1 DEF ServeReorder
  <2>3. reorder'.stage = "done"
    BY <1>1, <1>3, <2>2
  <2>4. kept'.rank = seen'.rank
    BY <1>2, <1>7, <2>1, <2>2, PatchIs
  <2>5. Agreed(reorder)'
    BY <1>5, <1>8, <2>3, <2>4 DEF Agreed
  <2> QED BY <1>2, <1>6, <2>5 DEF Moves
<1>9. CASE w.is = "list"
  <2>1. seen.order = Patched(kept.order, w.values)
    BY <1>1, <1>2, <1>6, <1>9 DEF Agreed
  <2>2. kept' = [kept EXCEPT !.order = Patched(@, w.values)] /\ reorder' = [reorder EXCEPT !.stage = "done"]
    BY <1>1, <1>9 DEF ServeReorder
  <2>3. reorder'.stage = "done"
    BY <1>1, <1>3, <2>2
  <2>4. kept'.order = seen'.order
    BY <1>2, <1>7, <2>1, <2>2, PatchIs
  <2>5. Agreed(reorder)'
    BY <1>5, <1>9, <2>3, <2>4 DEF Agreed
  <2> QED BY <1>2, <1>6, <2>5 DEF Moves
<1> QED BY <1>1, <1>2, <1>8, <1>9 DEF WritesInv, ReorderOk

\* A drop that nothing overlaps is taken and confirmed as it stands.
LEMMA ReorderCleanStep ==
  ASSUME DragInv, RanksInv, Stored(kept), ReorderClean, [DragNext]_dragVars
  PROVE  ReorderClean'
<1> SUFFICES ASSUME reorder' # None, reorder'.clean
             PROVE  Moves' = {} /\ removing' = None /\ Agreed(reorder)'
  BY DEF ReorderClean
<1>0. WritesInv /\ Ranked(seen)
  BY DEF DragInv, RanksInv
<1>1. ASSUME reorder' = reorder PROVE Moves = {} /\ removing = None /\ Agreed(reorder)
  BY <1>1 DEF ReorderClean
<1>2. reorder' # Overlapped(reorder)
  <2>1. CASE reorder = None
    BY <1>0, <2>1, Overlap
  <2>2. CASE reorder # None
    <3>1. PICK w : Overlapped(reorder) = [is |-> w.is, asked |-> w.asked, values |-> w.values,
                                          before |-> w.before, stage |-> w.stage, clean |-> FALSE]
      BY <1>0, <2>2, Overlap
    <3>2. Overlapped(reorder).clean = FALSE
      BY <3>1
    <3> QED BY <3>2
  <2> QED BY <2>1, <2>2
<1>3. ASSUME NEW r, NEW p, MoveStart(r, p) PROVE FALSE
  BY <1>3 DEF MoveStart, RequestMove
<1>4. (\A b \in DragBag : ~ StartRemoveBag(b)) /\ (\A h : ~ Land(h))
  BY <1>2 DEF StartRemoveBag, Land
<1>5. ~ ServeRemove /\ (\A saved \in BOOLEAN : ~ BagRemoved(saved))
  BY <1>1 DEF ServeRemove, BagRemoved
<1>6. \A r \in DragRow : ~ ServeMove(r) /\ ~ MoveSaved(r) /\ ~ MoveFailed(r)
  BY <1>1 DEF ServeMove, MoveSaved, MoveFailed, SettleMove, Moves
<1>7. ~ ReorderSaved /\ ~ ReorderFailed
  BY DEF ReorderSaved, ReorderFailed, SettleReorder
<1>8. CASE Resting
  <2>1. /\ reorder' = reorder /\ moving' = moving /\ removing' = removing
        /\ kept'.loc = kept.loc /\ kept'.rank = kept.rank /\ kept'.order = kept.order
        /\ seen'.rank = seen.rank /\ seen'.order = seen.order
    BY <1>8 DEF Resting
  <2>2. Moves = {} /\ removing = None /\ Agreed(reorder)
    BY <1>1, <2>1
  <2>3. PICK w : w = reorder
    OBVIOUS
  <2>4. Agreed(w)'
    BY <2>1, <2>2, <2>3, AgreedRests
  <2>5. Agreed(reorder)'
    BY <2>1, <2>3, <2>4 DEF Agreed, TakesReorder
  <2> QED BY <2>1, <2>2, <2>5 DEF Moves
<1>9. ASSUME NEW S, NEW asked, NEW values, PackStart(S, asked, values) \/ ListStart(S, asked, values)
      PROVE  Moves' = {} /\ removing' = None /\ Agreed(reorder)'
  BY <1>0, <1>9, PackAgrees, ListAgrees
<1>10. CASE ServeReorder
  BY <1>0, <1>10, ServeAgrees
<1> QED BY <1>0, <1>3, <1>4, <1>5, <1>6, <1>7, <1>8, <1>9, <1>10, StepIs

-----------------------------------------------------------------------------
(* A move that nothing overlaps                                            *)

\* What is known of a move of r to p that no other write overlaps: the row is elsewhere at
\* the server, where it may go to p, for the rank that the page shows; or it is there.
MoveAgreed(r, p, stage) ==
  \/ /\ stage = "sent"
     /\ kept.loc[r] # p /\ seen.loc[r] = p /\ seen.rank[r] = NextUnionPackRank(p)
     /\ p # Nowhere => p \in kept.bags
     /\ \A b \in kept.bags : Backs[b] = r => p \notin Subtree(kept, kept.bags, b, {})
  \/ stage = "done" /\ seen.loc[r] = kept.loc[r] /\ seen.rank[r] = kept.rank[r]
  \/ stage = "refused"

\* So it is with every move that nothing overlaps.
MovesClean ==
  \A r \in DragRow :
    moving[r] # None /\ moving[r].clean => MoveAgreed(r, moving[r].to, moving[r].stage)

\* Again it says nothing of checkboxes and views.
LEMMA MoveRests ==
  ASSUME NEW r, NEW p, NEW stage, MoveAgreed(r, p, stage),
         kept'.loc = kept.loc, kept'.rank = kept.rank, kept'.bags = kept.bags,
         seen'.loc = seen.loc, seen'.rank = seen.rank
  PROVE  MoveAgreed(r, p, stage)'
<1>1. NextUnionPackRank(p)' = NextUnionPackRank(p)
  BY DEF NextUnionPackRank, RanksAt
<1>2. \A B, b : Subtree(kept', B, b, {}) = Subtree(kept, B, b, {})
  BY DEF Subtree, LiesIn
<1> QED BY <1>1, <1>2 DEF MoveAgreed

\* Where both agree, a move starts agreed.
LEMMA StartAgrees ==
  ASSUME NoWornBag, WritesInv, Stored(kept), InAgreement, NEW r \in DragRow, NEW p, MoveStart(r, p)
  PROVE  MoveAgreed(r, p, "sent")'
<1>1. /\ bagsKnown /\ p \in PageBags \cup {Nowhere} /\ (Rooted(seen) => p # seen.loc[r])
      /\ r \in DragGear => p \notin ContainerMoveExclusions(r)
      /\ RequestMove(r, p)
  BY DEF MoveStart
<1>2. seen.loc = kept.loc /\ seen.rank = kept.rank /\ PageBags = kept.bags
  BY <1>1 DEF InAgreement, PageBags
<1>3. Rooted(seen) /\ Laid(seen) /\ PageBags \subseteq DragBag
  BY AgreeStored DEF WritesInv, Laid, PageBags
<1>4. PICK n : n = NextUnionPackRank(p)
  OBVIOUS
<1>5. NextUnionPackRankFor(p) = n
  BY <1>2, <1>4 DEF NextUnionPackRankFor, NextUnionPackRank, RanksAt
<1>6. seen' = PutIn(seen, r, p, n) /\ kept' = kept
  BY <1>1, <1>5 DEF RequestMove
<1>7. seen'.loc[r] = p /\ seen'.rank[r] = n
  BY <1>3, <1>6, PutAt
<1>8. NextUnionPackRank(p)' = n
  BY <1>4, <1>6 DEF NextUnionPackRank, RanksAt
<1>9. kept.loc[r] # p
  BY <1>1, <1>2, <1>3
<1>10. ASSUME NEW b \in PageBags, Backs[b] = r PROVE p \notin Subtree(kept, PageBags, b, {})
  <2>1. r \in DragGear
    BY <1>3, <1>10, DragAssumption
  <2>2. b \in OwnBagOnly(r)
    BY <1>10 DEF OwnBagOnly
  <2>3. p \notin Subtree(seen, PageBags, b, WornGear)
    BY <1>1, <2>1, <2>2 DEF ContainerMoveExclusions
  <2>4. p \notin Subtree(seen, PageBags, b, {})
    BY <1>3, <2>3, CutNothing
  <2> QED BY <1>2, <2>4 DEF Subtree, LiesIn
<1>11. \A b \in kept.bags : Backs[b] = r => p \notin Subtree(kept', kept.bags, b, {})
  BY <1>2, <1>6, <1>10
<1>12. p # Nowhere => p \in kept.bags
  BY <1>1, <1>2
<1> QED BY <1>6, <1>7, <1>8, <1>9, <1>11, <1>12 DEF MoveAgreed

\* The server takes it, unless the ranks have come to their end.
LEMMA ServeTakes ==
  ASSUME NEW r \in DragRow, NEW p, MoveAgreed(r, p, "sent"), ~ TakesMove(r, p), Ranked(kept)
  PROVE  NextUnionPackRank(p) > RankCap
<1>1. ~ (NextUnionPackRank(p) <= RankCap)
  BY DEF MoveAgreed, TakesMove
<1>2. NextUnionPackRank(p) \in Nat /\ RankCap \in Nat
  BY ArrivalNumber, DragAssumption DEF NextUnionPackRank
<1> QED BY <1>1, <1>2

\* It then holds what the page shows.
LEMMA ServeMoveAgrees ==
  ASSUME WritesInv, NEW r \in DragRow, NEW p, NEW stage, MoveAgreed(r, p, stage), ServeMove(r),
         p = moving[r].to, stage = moving[r].stage, NEW next, next = moving'[r].stage
  PROVE  MoveAgreed(r, p, next)'
<1>1. /\ stage = "sent" /\ seen' = seen /\ moving[r] # None
      /\ \/ /\ TakesMove(r, p)
            /\ kept' = IF p = kept.loc[r] THEN kept ELSE PutIn(kept, r, p, NextUnionPackRank(p))
            /\ moving' = [moving EXCEPT ![r].stage = "done"]
         \/ moving' = [moving EXCEPT ![r].stage = "refused"]
  BY DEF ServeMove
<1>2. PICK w : w = moving[r]
  OBVIOUS
<1>3. w = [is |-> "move", to |-> w.to, loc |-> w.loc, rank |-> w.rank, stage |-> w.stage,
           clean |-> w.clean] /\ DOMAIN moving = DragRow
  BY <1>1, <1>2 DEF WritesInv, MovingOk, MoveOk
<1>4. ASSUME NEW s, moving' = [moving EXCEPT ![r].stage = s] PROVE moving'[r].stage = s
  <2>1. moving'[r] = [w EXCEPT !.stage = s]
    BY <1>2, <1>3, <1>4
  <2>2. moving'[r] = [is |-> "move", to |-> w.to, loc |-> w.loc, rank |-> w.rank, stage |-> s,
                      clean |-> w.clean]
    BY <1>3, <2>1
  <2> QED BY <2>2
<1>5. CASE moving' = [moving EXCEPT ![r].stage = "refused"]
  BY <1>4, <1>5 DEF MoveAgreed
<1>6. CASE /\ kept' = IF p = kept.loc[r] THEN kept ELSE PutIn(kept, r, p, NextUnionPackRank(p))
           /\ moving' = [moving EXCEPT ![r].stage = "done"]
  <2>1. /\ kept.loc[r] # p /\ seen.loc[r] = p /\ seen.rank[r] = NextUnionPackRank(p)
    BY <1>1 DEF MoveAgreed
  <2>2. PICK n : n = NextUnionPackRank(p)
    OBVIOUS
  <2>3. kept' = PutIn(kept, r, p, n)
    BY <1>6, <2>1, <2>2
  <2>4. kept'.loc[r] = p /\ kept'.rank[r] = n
    BY <2>3, PutAt DEF WritesInv
  <2>5. moving'[r].stage = "done"
    BY <1>4, <1>6
  <2> QED BY <1>1, <2>1, <2>2, <2>4, <2>5 DEF MoveAgreed
<1> QED BY <1>1, <1>5, <1>6

\* A move that nothing overlaps is taken, up to the last rank, and confirmed as it stands.
LEMMA MovesCleanStep ==
  ASSUME NoWornBag, DragInv, RanksInv, AloneInv, Stored(kept), MovesClean, [DragNext]_dragVars
  PROVE  MovesClean'
<1> SUFFICES ASSUME NEW r \in DragRow, moving'[r] # None, moving'[r].clean
             PROVE  MoveAgreed(r, moving[r].to, moving[r].stage)'
  BY DEF MovesClean
<1>0. WritesInv /\ Ranked(seen)
  BY DEF DragInv, RanksInv
<1>1. ASSUME moving' = [q \in DragRow |-> Overlapped(moving[q])] PROVE FALSE
  BY <1>0, <1>1, OverlapAll
<1>2. ASSUME moving'[r] = moving[r]
      PROVE  MoveAgreed(r, moving[r].to, moving[r].stage) /\ Alone(r)
  BY <1>2 DEF MovesClean, AloneInv
<1>3. ASSUME moving' = moving, kept'.loc = kept.loc, kept'.rank = kept.rank, kept'.bags = kept.bags,
             seen'.loc = seen.loc, seen'.rank = seen.rank
      PROVE  MoveAgreed(r, moving[r].to, moving[r].stage)'
  <2>1. PICK p, stage : p = moving[r].to /\ stage = moving[r].stage
    OBVIOUS
  <2>2. MoveAgreed(r, p, stage)
    BY <1>2, <1>3, <2>1
  <2>3. MoveAgreed(r, p, stage)'
    BY <1>3, <2>2, MoveRests
  <2>4. moving'[r].to = p /\ moving'[r].stage = stage
    BY <1>3, <2>1
  <2> QED BY <2>3, <2>4
<1>4. ASSUME NEW S, NEW asked, NEW values, PackStart(S, asked, values) \/ ListStart(S, asked, values)
      PROVE  MoveAgreed(r, moving[r].to, moving[r].stage)'
  <2>1. \/ SendReorder("pack", asked, values) \/ SendReorder("list", asked, values)
        \/ UNCHANGED <<kept, seen, moving>>
    BY <1>4 DEF PackStart, ListStart, StartPackReorder, StartDocumentReorder
  <2> QED BY <2>1, <1>1, <1>3 DEF SendReorder
<1>5. ASSUME NEW q \in DragRow, NEW p, MoveStart(q, p)
      PROVE  MoveAgreed(r, moving[r].to, moving[r].stage)'
  <2>1. RequestMove(q, p)
    BY <1>5 DEF MoveStart
  <2>2. q = r
    BY <1>0, <2>1, MoveSent, Overlap
  <2>3. moving'[r].to = p /\ moving'[r].clean = InAgreement
    BY <1>0, <2>1, <2>2, MoveSent
  <2>4. moving'[r].stage = "sent"
    <3>1. moving' = [[x \in DragRow |-> Overlapped(moving[x])] EXCEPT ![r] =
                       [is |-> "move", to |-> p, loc |-> seen.loc[r], rank |-> seen.rank[r],
                        stage |-> "sent", clean |-> InAgreement]]
      BY <2>1, <2>2 DEF RequestMove
    <3>2. moving'[r] = [is |-> "move", to |-> p, loc |-> seen.loc[r], rank |-> seen.rank[r],
                        stage |-> "sent", clean |-> InAgreement]
      BY <3>1
    <3> QED BY <3>2
  <2>5. MoveAgreed(r, p, "sent")'
    BY <1>0, <1>5, <2>2, <2>3, StartAgrees
  <2> QED BY <2>3, <2>4, <2>5
<1>6. ASSUME NEW q \in DragRow, ServeMove(q)
      PROVE  MoveAgreed(r, moving[r].to, moving[r].stage)'
  <2>1. /\ moving[q] # None /\ moving'[q].to = moving[q].to /\ moving'[q].clean = moving[q].clean
        /\ \A x \in DragRow \ {q} : moving'[x] = moving[x]
    BY <1>0, <1>6, MoveServed
  <2>2. q = r
    BY <1>2, <2>1 DEF Alone
  <2>3. PICK p, stage, next : p = moving[r].to /\ stage = moving[r].stage /\ next = moving'[r].stage
    OBVIOUS
  <2>4. MoveAgreed(r, p, stage)
    BY <2>1, <2>2, <2>3 DEF MovesClean
  <2>5. MoveAgreed(r, p, next)'
    BY <1>0, <1>6, <2>2, <2>3, <2>4, ServeMoveAgrees
  <2> QED BY <2>1, <2>2, <2>3, <2>5
<1>7. ASSUME NEW q \in DragRow, MoveSaved(q) \/ MoveFailed(q) PROVE FALSE
  <2>1. moving' = [moving EXCEPT ![q] = None] /\ moving[q] # None
    BY <1>7 DEF MoveSaved, MoveFailed, SettleMove
  <2>2. q # r /\ moving'[r] = moving[r]
    BY <2>1 DEF DragInv, WritesInv, MovingOk
  <2> QED BY <2>1, <2>2, <1>2 DEF Alone
<1>8. ~ ServeReorder /\ ~ ServeRemove /\ ~ ReorderSaved /\ ~ ReorderFailed
  BY <1>2 DEF ServeReorder, ServeRemove, ReorderSaved, ReorderFailed, SettleReorder, Alone
<1>9. \A saved \in BOOLEAN : ~ BagRemoved(saved)
  BY <1>2 DEF BagRemoved, Alone
<1>10. (\A b \in DragBag : ~ StartRemoveBag(b)) /\ (\A h : ~ Land(h))
  BY <1>1 DEF StartRemoveBag, Land
<1>11. CASE Resting
  BY <1>3, <1>11 DEF Resting
<1> QED BY <1>0, <1>4, <1>5, <1>6, <1>7, <1>8, <1>9, <1>10, <1>11, StepIs

-----------------------------------------------------------------------------
(* Drops land                                                              *)

\* Only a drop whose payload the page refuses rereads and does nothing else.
LEMMA AbortIs ==
  ASSUME WritesInv, Ranked(seen), [DragNext]_dragVars, DropAborted
  PROVE  \E S, asked, values : PackStart(S, asked, values) /\ ~ PayloadSafe(asked, values)
<1>1. /\ due \subseteq due' /\ due # due'
      /\ seen' = seen /\ reorder' = reorder /\ moving' = moving /\ removing' = removing
      /\ ticking' = ticking
  BY DEF DropAborted
<1>2. ASSUME NEW is, NEW asked, NEW values, SendReorder(is, asked, values) PROVE reorder' # None
  <2>1. PICK agreed : reorder' = [is |-> is, asked |-> asked, values |-> values, before |-> seen,
                                  stage |-> "sent", clean |-> agreed]
    BY <1>2 DEF SendReorder
  <2>2. reorder'.stage = "sent" /\ reorder'.asked = asked
    BY <2>1
  <2> QED BY <2>1 DEF None
<1>3. ASSUME NEW S, NEW asked, NEW values, ListStart(S, asked, values) PROVE FALSE
  BY <1>1, <1>2, <1>3 DEF ListStart, StartDocumentReorder
<1>4. ASSUME NEW S, NEW asked, NEW values, PackStart(S, asked, values) PROVE ~ PayloadSafe(asked, values)
  <2>1. reorder = None /\ StartPackReorder(asked, values)
    BY <1>4 DEF PackStart
  <2> QED BY <1>1, <1>2, <2>1 DEF StartPackReorder
<1>5. ASSUME NEW r \in DragRow, NEW p, MoveStart(r, p) PROVE FALSE
  <2>1. RequestMove(r, p) /\ moving[r] = None
    BY <1>5 DEF MoveStart, RequestMove
  <2> QED BY <1>1, <2>1, MoveSent
<1>6. ASSUME NEW r \in DragRow, MoveSaved(r) \/ MoveFailed(r) PROVE FALSE
  <2>1. moving' = [moving EXCEPT ![r] = None] /\ moving[r] # None
    BY <1>6 DEF MoveSaved, MoveFailed, SettleMove
  <2> QED BY <1>1, <2>1 DEF WritesInv, MovingOk
<1>7. ~ ReorderSaved /\ ~ ReorderFailed
  BY <1>1 DEF ReorderSaved, ReorderFailed, SettleReorder
<1>8. \A saved \in BOOLEAN : ~ BagRemoved(saved) /\ ~ TickAnswered(saved)
  BY <1>1 DEF BagRemoved, TickAnswered
<1>9. \A h : ~ Land(h)
  BY <1>1 DEF Land
<1>10. ~ ServeReorder /\ ~ ServeRemove /\ ~ ServeTick /\ (\A r \in DragRow : ~ ServeMove(r))
  BY <1>1 DEF ServeReorder, ServeRemove, ServeTick, ServeMove
<1>11. (\A b \in DragBag : ~ StartRemoveBag(b)) /\ (\A r \in DragRow : ~ StartTick(r))
  BY <1>1 DEF StartRemoveBag, StartTick
<1>12. ~ SwitchView /\ ~ UNCHANGED dragVars
  BY <1>1 DEF SwitchView, dragVars
<1>13. Drops
  BY <1>6, <1>7, <1>8, <1>9, <1>10, <1>11, <1>12 DEF DragNext, Serves, Answers
<1> QED BY <1>3, <1>4, <1>5, <1>13, DropsAre

\* A reorder comes of a drop.
LEMMA ReorderStarts ==
  ASSUME WritesInv, Ranked(seen), [DragNext]_dragVars, reorder = None, reorder' # None
  PROVE  \E S, asked, values : PackStart(S, asked, values) \/ ListStart(S, asked, values)
<1>1. reorder' # Overlapped(reorder) /\ reorder' # reorder
  BY Overlap
<1>2. ASSUME NEW r, NEW p, MoveStart(r, p) PROVE FALSE
  BY <1>1, <1>2 DEF MoveStart, RequestMove
<1>3. (\A b \in DragBag : ~ StartRemoveBag(b)) /\ (\A h : ~ Land(h))
  BY <1>1 DEF StartRemoveBag, Land
<1>4. ~ ServeReorder /\ ~ ServeRemove /\ ~ ReorderSaved /\ ~ ReorderFailed
  BY <1>1 DEF ServeReorder, ServeRemove, ReorderSaved, ReorderFailed, SettleReorder
<1>5. \A r \in DragRow : ~ ServeMove(r) /\ ~ MoveSaved(r) /\ ~ MoveFailed(r)
  BY <1>1 DEF ServeMove, MoveSaved, MoveFailed, SettleMove
<1>6. (\A saved \in BOOLEAN : ~ BagRemoved(saved)) /\ ~ Resting
  BY <1>1 DEF BagRemoved, Resting
<1> QED BY <1>2, <1>3, <1>4, <1>5, <1>6, StepIs

\* No row starts in a tie for its place in its category.
UntiedStarts == \A s \in DragStart : Untied(s)

\* What standing rests on,
StandsInv == DragInv /\ RanksInv /\ TiesInv

\* and what being accepted does.
LandsInv ==
  DragInv /\ RanksInv /\ AloneInv /\ Stored(kept) /\ ReorderClean /\ MovesClean

\* The page opens on both.
LEMMA LandsBegin ==
  ASSUME DragInit
  PROVE  LandsInv /\ (UntiedStarts => StandsInv)
<1>1. kept \in DragStart /\ seen = kept /\ reorder = None /\ moving = [r \in DragRow |-> None]
  BY DEF DragInit
<1>2. DragInv /\ RanksInv
  BY DragBegin, RanksBegin
<1>3. Stored(kept)
  BY <1>1, DragAssumption DEF Stored
<1>4. UntiedStarts => TiesInv
  BY <1>1 DEF UntiedStarts, TiesInv, ReorderUntied
<1>5. AloneInv /\ ReorderClean /\ MovesClean
  BY <1>1 DEF AloneInv, ReorderClean, MovesClean
<1> QED BY <1>2, <1>3, <1>4, <1>5 DEF LandsInv, StandsInv

\* Drops stand.
LEMMA Standing ==
  ASSUME StandsInv, [DragNext]_dragVars
  PROVE  (reorder = None /\ reorder' # None) =>
           LET asked == reorder'.asked
           IN  /\ InPack =>
                    /\ \A i \in 1 .. Len(asked) - 1 :
                         ShownBefore(seen', asked[i], asked[i + 1])
                    /\ seen'.order = seen.order
                    /\ \A r \in DragRow \ Range(asked) : seen'.rank[r] = seen.rank[r]
               /\ viewing = "edit" =>
                    /\ \A i \in 1 .. Len(asked) - 1 :
                         seen'.order[asked[i]] < seen'.order[asked[i + 1]]
                    /\ seen'.rank = seen.rank
<1> SUFFICES ASSUME reorder = None, reorder' # None
             PROVE  /\ InPack =>
                         /\ \A i \in 1 .. Len(reorder'.asked) - 1 :
                              ShownBefore(seen', reorder'.asked[i], reorder'.asked[i + 1])
                         /\ seen'.order = seen.order
                         /\ \A r \in DragRow \ Range(reorder'.asked) : seen'.rank[r] = seen.rank[r]
                    /\ viewing = "edit" =>
                         /\ \A i \in 1 .. Len(reorder'.asked) - 1 :
                              seen'.order[reorder'.asked[i]] < seen'.order[reorder'.asked[i + 1]]
                         /\ seen'.rank = seen.rank
  OBVIOUS
<1>1. WritesInv /\ Ranked(seen) /\ Untied(seen)
  BY DEF StandsInv, DragInv, RanksInv, TiesInv
<1>2. PICK S, asked, values : PackStart(S, asked, values) \/ ListStart(S, asked, values)
  BY <1>1, ReorderStarts
<1>3. CASE PackStart(S, asked, values)
  <2>1. /\ viewing # "edit" /\ reorder'.asked = asked
        /\ \A i \in 1 .. Len(asked) - 1 : ShownBefore(seen', asked[i], asked[i + 1])
        /\ seen'.order = seen.order
        /\ \A r \in DragRow \ Range(asked) : seen'.rank[r] = seen.rank[r]
    BY <1>1, <1>3, PackStands
  <2> QED BY <2>1
<1>4. CASE ListStart(S, asked, values)
  <2>1. /\ ~ InPack /\ reorder'.asked = asked
        /\ \A i \in 1 .. Len(asked) - 1 : seen'.order[asked[i]] < seen'.order[asked[i + 1]]
        /\ seen'.rank = seen.rank
    BY <1>1, <1>4, ListStands
  <2> QED BY <2>1
<1> QED BY <1>2, <1>3, <1>4

\* Drops and moves are accepted.
LEMMA DropFits ==
  ASSUME LandsInv, LandsInv', [DragNext]_dragVars
  PROVE  /\ ~(DropAborted /\ InAgreement)
         /\ (reorder # None /\ reorder' # None /\ reorder'.stage = "refused") => ~reorder'.clean
         /\ \A r \in DragRow :
              (ServeMove(r) /\ moving'[r].stage = "refused" /\ moving'[r].clean)
                 => NextUnionPackRank(moving[r].to) > RankCap
<1>1. ASSUME DropAborted, InAgreement PROVE FALSE
  <2>1. PICK S, asked, values : PackStart(S, asked, values) /\ ~ PayloadSafe(asked, values)
    BY <1>1, AbortIs DEF LandsInv, DragInv, RanksInv
  <2> QED BY <1>1, <2>1, PackPasses DEF LandsInv
<1>2. ASSUME reorder' # None, reorder'.stage = "refused", reorder'.clean PROVE FALSE
  BY <1>2 DEF LandsInv, ReorderClean, Agreed
<1>3. ASSUME NEW r \in DragRow, ServeMove(r), moving'[r].stage = "refused", moving'[r].clean
      PROVE  NextUnionPackRank(moving[r].to) > RankCap
  <2>1. moving[r] # None /\ moving[r].clean /\ moving[r].stage = "sent"
    BY <1>3, MoveServed DEF ServeMove, LandsInv, DragInv
  <2>2. MoveAgreed(r, moving[r].to, "sent")
    BY <2>1 DEF LandsInv, MovesClean
  <2>3. ~ TakesMove(r, moving[r].to)
    <3>1. PICK w : w = moving[r]
      OBVIOUS
    <3>2. w = [is |-> "move", to |-> w.to, loc |-> w.loc, rank |-> w.rank, stage |-> w.stage,
               clean |-> w.clean] /\ DOMAIN moving = DragRow
      BY <2>1, <3>1 DEF LandsInv, DragInv, WritesInv, MovingOk, MoveOk
    <3>3. ASSUME moving' = [moving EXCEPT ![r].stage = "done"] PROVE FALSE
      <4>1. moving'[r] = [w EXCEPT !.stage = "done"]
        BY <3>1, <3>2, <3>3
      <4>2. moving'[r] = [is |-> "move", to |-> w.to, loc |-> w.loc, rank |-> w.rank,
                          stage |-> "done", clean |-> w.clean]
        BY <3>2, <4>1
      <4>3. moving'[r].stage = "done"
        BY <4>2
      <4> QED BY <1>3, <4>3
    <3> QED BY <1>3, <3>3 DEF ServeMove
  <2> QED BY <2>2, <2>3, ServeTakes DEF LandsInv, RanksInv
<1> QED BY <1>1, <1>2, <1>3

\* Their answers confirm what the page shows.
LEMMA DropConfirmed ==
  ASSUME LandsInv, [DragNext]_dragVars
  PROVE  /\ (reorder # None /\ ReorderSaved /\ reorder.clean) =>
              \A r \in Range(reorder.asked) :
                IF reorder.is = "list" THEN seen.order[r] = kept.order[r]
                                       ELSE seen.rank[r] = kept.rank[r]
         /\ \A r \in DragRow :
              (moving[r] # None /\ MoveSaved(r) /\ moving[r].clean) =>
                seen.loc[r] = kept.loc[r] /\ seen.rank[r] = kept.rank[r]
<1>1. ASSUME reorder # None, ReorderSaved, reorder.clean
      PROVE  IF reorder.is = "list" THEN seen.order = kept.order ELSE seen.rank = kept.rank
  <2>1. reorder.stage = "done" /\ Agreed(reorder)
    BY <1>1 DEF ReorderSaved, LandsInv, ReorderClean
  <2> QED BY <2>1 DEF Agreed
<1>2. ASSUME NEW r \in DragRow, moving[r] # None, MoveSaved(r), moving[r].clean
      PROVE  seen.loc[r] = kept.loc[r] /\ seen.rank[r] = kept.rank[r]
  <2>1. moving[r].stage = "done" /\ MoveAgreed(r, moving[r].to, moving[r].stage)
    BY <1>2 DEF MoveSaved, LandsInv, MovesClean
  <2> QED BY <2>1 DEF MoveAgreed
<1> QED BY <1>1, <1>2

\* The server's tables stay in order: every row is in a bag of the list or in none, and no
\* rank of a table comes twice in one (server/lib/pack-rank.ts and the routes of list items,
\* list food items and packing locations), whatever is dropped, moved and deleted.
THEOREM StoredInvariant == DragSpec => []Stored(kept)
<1>1. DragInit => Stored(kept)
  BY LandsBegin DEF LandsInv
<1>2. DragInv /\ RanksInv /\ Stored(kept) /\ [DragNext]_dragVars => Stored(kept)'
  BY StoredStep
<1> QED BY <1>1, <1>2, RanksInvariant, PTL DEF DragSpec

\* Where no row starts in a tie, a drop is shown as dropped (lists/packing-dnd.ts,
\* lists/list-reorder-plan.ts): the rows it asks for stand in the order it asks for, and it
\* touches no others.
THEOREM DropsStanding ==
  ASSUME UntiedStarts
  PROVE  DragSpec => DropStands
<1>1. DragInit => StandsInv
  BY LandsBegin
<1>2. StandsInv /\ [DragNext]_dragVars => StandsInv'
  BY DragStep, RanksStep, TiesStep DEF StandsInv
<1>3. StandsInv /\ [DragNext]_dragVars =>
        ((reorder = None /\ reorder' # None) =>
          LET asked == reorder'.asked
          IN  /\ InPack =>
                   /\ \A i \in 1 .. Len(asked) - 1 :
                        ShownBefore(seen', asked[i], asked[i + 1])
                   /\ seen'.order = seen.order
                   /\ \A r \in DragRow \ Range(asked) : seen'.rank[r] = seen.rank[r]
              /\ viewing = "edit" =>
                   /\ \A i \in 1 .. Len(asked) - 1 :
                        seen'.order[asked[i]] < seen'.order[asked[i + 1]]
                   /\ seen'.rank = seen.rank)
  BY Standing
<1> QED BY <1>1, <1>2, <1>3, PTL DEF DragSpec, DropStands

\* Where no bag is worn, a drop or a move that nothing overlaps passes the page's check and
\* the server's, and is confirmed where it stands (lists/use-list-dnd.ts,
\* lib/queries/optimistic.ts, server/lib/pack-rank.ts).
THEOREM DropsAccepting ==
  ASSUME NoWornBag
  PROVE  DragSpec => DropsAccepted /\ AnswersConfirm
<1>1. DragInit => LandsInv
  BY LandsBegin
<1>2. LandsInv /\ [DragNext]_dragVars => LandsInv'
  BY DragStep, RanksStep, AloneStep, StoredStep, ReorderCleanStep, MovesCleanStep
     DEF LandsInv
<1>3. DragSpec => []LandsInv
  BY <1>1, <1>2, PTL DEF DragSpec
<1>4. DragSpec => DropsAccepted
  <2>1. LandsInv /\ LandsInv' /\ [DragNext]_dragVars =>
          (/\ ~(DropAborted /\ InAgreement)
           /\ (reorder # None /\ reorder' # None /\ reorder'.stage = "refused") => ~reorder'.clean
           /\ \A r \in DragRow :
                (ServeMove(r) /\ moving'[r].stage = "refused" /\ moving'[r].clean)
                   => NextUnionPackRank(moving[r].to) > RankCap)
    BY DropFits
  <2> QED BY <1>3, <2>1, PTL DEF DragSpec, DropsAccepted
<1>5. DragSpec => AnswersConfirm
  <2>1. LandsInv /\ [DragNext]_dragVars =>
          (/\ (reorder # None /\ ReorderSaved /\ reorder.clean) =>
                \A r \in Range(reorder.asked) :
                  IF reorder.is = "list" THEN seen.order[r] = kept.order[r]
                                         ELSE seen.rank[r] = kept.rank[r]
           /\ \A r \in DragRow :
                (moving[r] # None /\ MoveSaved(r) /\ moving[r].clean) =>
                  seen.loc[r] = kept.loc[r] /\ seen.rank[r] = kept.rank[r])
    BY DropConfirmed
  <2> QED BY <1>3, <2>1, PTL DEF DragSpec, AnswersConfirm
<1> QED BY <1>4, <1>5

\* Under both conditions a drop lands.
THEOREM DropsLanding ==
  ASSUME NoWornBag, UntiedStarts
  PROVE  DragSpec => DropsLand
BY DropsStanding, DropsAccepting DEF DropsLand

=============================================================================
