---------------------------- MODULE MCPackCohorts ----------------------------
(* Instances of PackCohorts for TLC: NumLists lists, of which the first     *)
(* Filled have NumItems item ids, NumFood food ids and NumLocs location ids *)
(* of their own, and the others stay empty.                                 *)
EXTENDS PackCohorts

CONSTANTS NumLists, Filled, NumItems, NumFood, NumLocs

MCList == 1 .. NumLists
MCItem == {100 * l + k : l \in 1 .. Filled, k \in 1 .. NumItems}
MCFood == {100 * l + 10 + k : l \in 1 .. Filled, k \in 1 .. NumFood}
MCLoc  == {100 * l + 20 + k : l \in 1 .. Filled, k \in 1 .. NumLocs}
MCListOf == [x \in MCItem \cup MCFood \cup MCLoc |-> x \div 100]

\* Two gear rows: items 1 and 3 of a list are the same one, as are the items
\* with one number on different lists.
MCGear == {0, 1}
MCGearOf == [i \in MCItem |-> (i % 100) % 2]
=============================================================================
