----------------------------- MODULE MCListPage -----------------------------
(* Instances of what works on one list: the food plan, drags in the pack,   *)
(* the dialogs and inputs that edit rows, and the list's share link.  These *)
(* share no state, so one instance checks them side by side: in a behaviour *)
(* one part moves, and the others stay as they start.                       *)
EXTENDS ListDrawn, ListEditors, InlineInputs, Shares

VARIABLE part \* the part that moves

-----------------------------------------------------------------------------
(* PackDrag: items 1 to 3, the third one worn, and food 4; bags 8 and 9 are *)
(* items 2 and 1.                                                           *)

MCBacks == [b \in DragBag |-> IF b = 9 THEN 1 ELSE 2]
MCCatOf == [g \in DragGear |-> IF g < 3 THEN "a" ELSE "b"]

Starting(places, ranks, bags) ==
  [loc |-> places, rank |-> ranks, order |-> [g \in DragGear |-> g], packed |-> {},
   bags |-> bags]

\* No bag; one, empty or filled; and one inside the other.
MCDragStart ==
  {Starting(<<0, 0, 0, 0>>, <<0, 1, 2, 1>>, {}),
   Starting(<<0, 0, 0, 0>>, <<0, 1, 2, 2>>, {9}),
   Starting(<<0, 9, 9, 9>>, <<0, 0, 1, 0>>, {9}),
   Starting(<<0, 9, 8, 9>>, <<0, 1, 0, 0>>, {8, 9})}

-----------------------------------------------------------------------------
(* Side by side                                                             *)

listVars == <<editorVars, fieldVars, weightVars>>

MCInit ==
  /\ part \in {"food", "drags", "editors", "removals", "field", "weight", "link"}
  /\ FoodInit /\ DragInit /\ EditorsInit /\ FieldInit /\ WeightInit /\ SharesInit
  /\ part # "drags"  => kept.bags = {}
  /\ part # "field"  => kind = "text" /\ stored = "a"
  /\ part # "weight" => ~ counts /\ rowValue = 0
  /\ part # "link"   => ~ shareRows[Panel].isShared

\* One row in editors, removed or its container undone, one write of these out at a time;
\* none is made or renamed, and there is no other device.
EditorsMove ==
  /\ part = "editors" /\ EditorsNext
  /\ foreign' = {} /\ panel'.row \notin Row \ Backing
  /\ Cardinality(writes') <= 1
  /\ \A w \in writes' : w.kind \in {"remove", "demote"} /\ w.row \in Backing
  /\ \A c \in checks' : c.row \in Backing

\* Two rows and another device, without the editors; undone is only the first container,
\* and only the other row is made one, here or elsewhere; while a removal is out no other
\* begins, but two may begin at once.
RemovalsMove ==
  /\ part = "removals" /\ EditorsNext
  /\ saves' = {} /\ typed' = "nothing"
  /\ panel'.kind \in {"none", "remove-container-item", "delete-location"}
  /\ foreign' \subseteq Row \ Backing
  /\ Out("remove") # {} => Cardinality(Out("remove")') <= Cardinality(Out("remove"))
  /\ \A w \in writes' : /\ w.kind = "demote" => w.row \in Backing
                        /\ w.kind = "promote" => w.row \notin Backing

\* The new-list form and the reset's confirmation are open one at a time, and are opened
\* only for a write that the bound would let begin.
LinkMove ==
  /\ part = "link" /\ SharesNext
  /\ form' /\ ~ form => ~ confirm /\ clock < ShareWrites
  /\ confirm' /\ ~ confirm => ~ form /\ clock < ShareWrites

MCNext ==
  \/ part = "food" /\ FoodNext
       /\ UNCHANGED <<part, dragVars, listVars, shareVars>>
  \/ part = "drags" /\ DragNext
       /\ UNCHANGED <<part, foodVars, listVars, shareVars>>
  \/ (EditorsMove \/ RemovalsMove)
       /\ UNCHANGED <<part, foodVars, dragVars, fieldVars, weightVars, shareVars>>
  \/ part = "field" /\ FieldNext
       /\ UNCHANGED <<part, foodVars, dragVars, editorVars, weightVars, shareVars>>
  \/ part = "weight" /\ WeightNext
       /\ UNCHANGED <<part, foodVars, dragVars, editorVars, fieldVars, shareVars>>
  \/ LinkMove
       /\ UNCHANGED <<part, foodVars, dragVars, listVars>>

MCSpec == MCInit /\ [][MCNext]_<<part, foodVars, dragVars, listVars, shareVars>>
=============================================================================
