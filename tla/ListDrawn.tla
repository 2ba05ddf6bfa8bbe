------------------------------ MODULE ListDrawn ------------------------------
(* What the page draws of one list, in the Pack view and in the Food view.  *)
EXTENDS FoodTables, PackView

\* What is drawn of a list is the whole of it: the rows of the pack, each once, and
\* what the tables of the food plan weigh.
DrawnAddsUp == PackDrawn /\ DaysAddUp
=============================================================================
