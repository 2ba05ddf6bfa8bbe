----------------------------- MODULE FoodTables -----------------------------
(***************************************************************************)
(* What the Food view draws of its copy of the plan: a table for each day  *)
(* with its total, the table of what is not scheduled, and the weight of   *)
(* all the food (FoodView.tsx, FoodDaySection.tsx, weight-breakdown.ts).   *)
(*                                                                         *)
(* An item is carried once for each meal it is in, or it is one container  *)
(* that its meals share.  A share is a fraction of the container: weights  *)
(* are counted in Parts of a gram, so that every share is a whole number.  *)
(***************************************************************************)
EXTENDS FoodPlan, FiniteSetsExt

CONSTANTS
  Shared,  \* the items that are one container: is_per_meal is false
  Parts    \* parts of a gram

ASSUME TablesAssumption ==
  /\ Shared \subseteq FoodItem
  /\ Amount \subseteq Nat
  /\ Parts \in Nat /\ \A n \in 1 .. DayCap * Cardinality(Meal) : Parts % n = 0

\* Fault: a container is carried once for each meal, as other food is.
ScheduleMultiplies(p, i) == Max({Cardinality(p.items[i].at), 1})

\* foodUnitCount, in multiples of the quantity; on no meal, it is carried all the same.
FoodUnitCount(p, i) ==
  IF i \in Shared THEN 1 ELSE Max({Cardinality(p.items[i].at), 1})

\* What the values of a function come to.
SumOver(w) == MapThenSumSet(LAMBDA x : w[x], DOMAIN w)

\* foodGramsFor: the weight of all that is carried, and what the page shows as such.
FoodGramsFor(p) ==
  SumOver([i \in Rows(p) |-> Parts * p.items[i].amount * FoodUnitCount(p, i)])

\* foodGramsAtMeal: the whole of it, or its share of the container.
FoodGramsAtMeal(p, i) ==
  LET whole == Parts * p.items[i].amount
  IN  IF i \in Shared THEN whole \div Max({Cardinality(p.items[i].at), 1}) ELSE whole

\* The rows of one meal's table.
ItemsBySlot(p, s) == {i \in Rows(p) : s \in p.items[i].at}

\* slotsForDay: one slot for each meal.
SlotsForDay(p, day) ==
  {CHOOSE s \in p.slots : s.day = day /\ s.meal = meal :
     meal \in {o.meal : o \in {o \in p.slots : o.day = day}}}

\* The total under a day.
DayGrams(p, day) ==
  LET MealGrams(s) == SumOver([i \in ItemsBySlot(p, s) |-> FoodGramsAtMeal(p, i)])
  IN  SumOver([s \in SlotsForDay(p, day) |-> MealGrams(s)])

\* The table below the days.
Unscheduled(p) == {i \in Rows(p) : p.items[i].at = {}}

-----------------------------------------------------------------------------
(* Properties                                                              *)

\* "The days plus the Not-scheduled table add up to foodGramsFor": whatever plan the
\* page holds, nothing that is carried is missing from the tables, and no container
\* weighs more for being eaten at several meals.
DaysAddUp ==
  LET days        == SumOver([d \in 1 .. DayCount(foodPage) |-> DayGrams(foodPage, d)])
      unscheduled == SumOver([i \in Unscheduled(foodPage) |-> FoodGramsAtMeal(foodPage, i)])
  IN  days + unscheduled = FoodGramsFor(foodPage)
=============================================================================
