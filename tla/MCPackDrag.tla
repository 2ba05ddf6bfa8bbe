----------------------------- MODULE MCPackDrag -----------------------------
(* Instances of PackDrag and PackView for TLC, of one bag inside another.   *)
EXTENDS PackView

\* Bag 9 is item 1, bag 8 is item 2.
MCBacks == [b \in DragBag |-> IF b = 9 THEN 1 ELSE 2]
MCCatOf == [g \in DragGear |-> "a"]

\* Bag 9 lies in bag 8, and holds item 3 and food 4.
MCDragStart ==
  {[loc |-> <<8, 0, 9, 9>>, rank |-> <<0, 1, 0, 0>>, order |-> [g \in DragGear |-> g],
    packed |-> {}, bags |-> {8, 9}]}
=============================================================================
