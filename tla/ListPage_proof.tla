--------------------------- MODULE ListPage_proof ---------------------------
(***************************************************************************)
(* Proofs about the parts of a list's page that share no state with the    *)
(* pack, for which see PackDrag_proof: the food plan (FoodPlan) and its    *)
(* tables (FoodTables), the dialogs and removals (ListEditors) and the     *)
(* inputs in place (InlineInputs), for any foods, meals and trip lengths.  *)
(*                                                                         *)
(* The first keeps copies of what the server holds: the invariant says of  *)
(* each that it was the plan once and is no older than what the page was   *)
(* told.  The other two say which dialog a save belongs to, and what a     *)
(* text being typed came from.                                             *)
(***************************************************************************)
EXTENDS ListDrawn, ListEditors, InlineInputs, PackDrag_proof

-----------------------------------------------------------------------------
(* The food plan: its invariant                                            *)

Slot == [day : 1 .. DayCap, meal : Meal, born : Nat]
Amounts == Amount \cup {BlankAmount}
Food == [amount : Amounts, at : SUBSET Slot]

\* A plan is a whole grid of typed rows, finitely many.
PlanOk(p) ==
  /\ p = [ver |-> p.ver, slots |-> p.slots, gone |-> p.gone, items |-> p.items]
  /\ p.ver \in Nat /\ p.slots \subseteq Slot /\ p.items \in [Rows(p) -> Food]
  /\ IsFiniteSet(Rows(p))
  /\ WholeGrid(p)

\* Every copy of the plan was the plan once.
PlansInv ==
  /\ PlanOk(plan) /\ PlanOk(foodPage)
  /\ foodRead.at = "answered" => PlanOk(foodRead.plan)
  /\ daysBox.at = "answered" => PlanOk(daysBox.plan)
  /\ daysBox.at = "deciding" => PlanOk(daysBox.current)

\* The dialog, and the request made of it, which names no field but a touched one.
Fields == {"amount", "at"}

EditorInv ==
  \/ editor = Closed
  \/ editor \in [kind : {"create"}, item : FoodItem, draft : Food]
  \/ editor \in [kind : {"update"}, item : FoodItem, base : Food, draft : Food]

SavingInv ==
  /\ saving.kind \in {"none", "create", "update", "delete"}
  /\ saving.kind = "create" => saving.row \in Food
  /\ saving.kind = "update" =>
       /\ DOMAIN saving.patch \subseteq saving.touched \cap Fields
       /\ "amount" \in DOMAIN saving.patch => saving.patch["amount"] \in Amounts

\* No copy that may still reach the page is older than what the page was told.
VersionsInv ==
  /\ lengthSet \in 0 .. plan.ver /\ confirmed \in 0 .. plan.ver
  /\ foodPage.ver >= lengthSet
  /\ foodRead.at = "answered" => foodRead.plan.ver >= lengthSet /\ foodRead.plan.ver >= confirmed
  /\ (foodRead.at = "none" /\ ~ foodStale) => foodPage.ver >= confirmed
  /\ daysBox.at = "answered" => daysBox.plan.ver <= plan.ver

\* What the box will trim unasked, it saw to be empty.
BoxInv ==
  /\ daysBox.at \in {"reading", "deciding", "sent"} => daysBox.days \in 0 .. DayCap
  /\ daysBox.at = "deciding" => planned = Placements(daysBox.current)
  /\ (daysBox.at = "sent" /\ ~ daysBox.asked) => \A pl \in planned : pl[2].day <= daysBox.days

FoodInv == PlansInv /\ EditorInv /\ SavingInv /\ VersionsInv /\ BoxInv

-----------------------------------------------------------------------------
(* What the repository makes of a plan                                     *)

\* A set of days has a last one.
LEMMA LastDay ==
  ASSUME NEW days, days \subseteq 1 .. DayCap, days # {}
  PROVE  \E d \in days : \A e \in days : e <= d
<1> DEFINE R == OpToRel(<, Nat)
           T == {DayCap - d : d \in days}
<1>1. IsWellFoundedOn(R, Nat)
  BY NatLessThanWellFounded
<1>2. \A x, y \in Nat : <<y, x>> \in R <=> y < x
  BY DEF OpToRel
<1>3. T \subseteq Nat /\ T # {}
  <2>1. PICK e \in days : TRUE
    OBVIOUS
  <2>2. DayCap - e \in T
    OBVIOUS
  <2> QED BY <2>2, FoodAssumption
<1> HIDE DEF R
<1>4. PICK x \in T : \A y \in T : ~ (<<y, x>> \in R)
  <2> HIDE DEF T
  <2> QED BY <1>1, <1>3, WFMin
<1>5. PICK d \in days : x = DayCap - d
  BY <1>4
<1>6. \A e \in days : ~ (DayCap - e < DayCap - d)
  BY <1>2, <1>3, <1>4, <1>5
<1> QED BY <1>5, <1>6, FoodAssumption

\* dayCount is the last day of the rows.
LEMMA CountBounds ==
  ASSUME NEW p, p.slots \subseteq Slot
  PROVE  DayCount(p) \in Nat /\ \A s \in p.slots : s.day <= DayCount(p)
<1>1. CASE p.slots = {}
  BY <1>1 DEF DayCount
<1>2. CASE p.slots # {}
  <2> DEFINE days == {s.day : s \in p.slots}
             Final(d) == (\E s \in p.slots : s.day = d) /\ (\A s \in p.slots : s.day <= d)
  <2>1. days \subseteq 1 .. DayCap /\ days # {}
    BY <1>2 DEF Slot
  <2>2. PICK d \in days : \A e \in days : e <= d
    <3> HIDE DEF days
    <3> QED BY <2>1, LastDay
  <2>3. d \in 1 .. DayCap /\ Final(d)
    BY <2>1, <2>2
  <2> DEFINE last == CHOOSE x \in 1 .. DayCap : Final(x)
  <2>4. last \in 1 .. DayCap /\ Final(last)
    <3> HIDE DEF Final
    <3> QED BY <2>3
  <2>5. DayCount(p) = last
    BY <1>2 DEF DayCount
  <2> HIDE DEF last
  <2> QED BY <2>4, <2>5, FoodAssumption
<1> QED BY <1>1, <1>2

\* A new trip length makes a whole grid: holes are filled once, and food on the days
\* that go is off them.
LEMMA SetDaysOk ==
  ASSUME NEW p, PlanOk(p), NEW days \in 0 .. DayCap
  PROVE  /\ PlanOk(SetDayCount(p, days)) /\ SetDayCount(p, days).ver >= p.ver
         /\ \A pl \in Placements(p) \ Placements(SetDayCount(p, days)) : ~ (pl[2].day <= days)
<1> DEFINE present == {<<s.day, s.meal>> : s \in p.slots}
           missing == {s \in UNION {SlotsOf(d, p.ver + 1) : d \in 1 .. days} :
                         <<s.day, s.meal>> \notin present}
           staying == {s \in p.slots : s.day <= days}
           items   == [i \in Rows(p) |-> [p.items[i] EXCEPT !.at = @ \cap staying]]
           q       == SetDayCount(p, days)
<1>1. CASE missing = {} /\ staying = p.slots
  <2>1. q = p
    BY <1>1 DEF SetDayCount
  <2> QED BY <2>1 DEF PlanOk
<1>2. CASE ~ (missing = {} /\ staying = p.slots)
  <2>1. q = [ver |-> p.ver + 1, slots |-> staying \cup missing, gone |-> p.gone, items |-> items]
    BY <1>2 DEF SetDayCount
  <2>2. /\ q.ver = p.ver + 1 /\ q.slots = staying \cup missing /\ q.gone = p.gone /\ q.items = items
        /\ q = [ver |-> q.ver, slots |-> q.slots, gone |-> q.gone, items |-> q.items]
    BY <2>1
  <2>3. \A s \in missing : /\ s \in Slot /\ s.day \in 1 .. days /\ s.born = p.ver + 1
                           /\ \A o \in p.slots : <<o.day, o.meal>> # <<s.day, s.meal>>
    <3> SUFFICES ASSUME NEW s \in missing
                 PROVE  /\ s \in Slot /\ s.day \in 1 .. days /\ s.born = p.ver + 1
                        /\ \A o \in p.slots : <<o.day, o.meal>> # <<s.day, s.meal>>
      OBVIOUS
    <3>1. PICK d \in 1 .. days : s \in SlotsOf(d, p.ver + 1)
      OBVIOUS
    <3>2. <<s.day, s.meal>> \notin present
      OBVIOUS
    <3> QED BY <3>1, <3>2, FoodAssumption DEF SlotsOf, Slot, PlanOk
  <2>4. \A d \in 1 .. days, m \in Meal : \E o \in staying \cup missing : o.day = d /\ o.meal = m
    <3> SUFFICES ASSUME NEW d \in 1 .. days, NEW m \in Meal
                 PROVE  \E o \in staying \cup missing : o.day = d /\ o.meal = m
      OBVIOUS
    <3>1. CASE <<d, m>> \in present
      <4>1. PICK o \in p.slots : o.day = d /\ o.meal = m
        BY <3>1
      <4> QED BY <4>1
    <3>2. CASE <<d, m>> \notin present
      <4> DEFINE s == [day |-> d, meal |-> m, born |-> p.ver + 1]
      <4>1. s \in SlotsOf(d, p.ver + 1)
        BY DEF SlotsOf
      <4>2. s \in missing /\ s.day = d /\ s.meal = m
        BY <3>2, <4>1
      <4> QED BY <4>2
    <3> QED BY <3>1, <3>2
  <2>5. \A s \in staying \cup missing : s \in Slot /\ s.day <= days /\ s.day \in Nat
    BY <2>3, FoodAssumption DEF PlanOk, Slot
  <2>6. \A s, o \in missing : <<s.day, s.meal>> = <<o.day, o.meal>> => s = o
    BY <2>3 DEF Slot
  <2>7. \A i \in Rows(p) : /\ items[i] \in Food /\ items[i].at \subseteq staying
                           /\ items[i].at = p.items[i].at \cap staying
    BY DEF PlanOk, Food
  <2>8. DOMAIN items = Rows(p)
    OBVIOUS
  <2>9. \A pl \in Placements(p) : pl[2].day <= days => pl \in Placements(q)
    <3> SUFFICES ASSUME NEW pl \in Placements(p), pl[2].day <= days
                 PROVE  pl \in Placements(q)
      OBVIOUS
    <3>1. pl \in Rows(p) \X p.slots /\ pl[2] \in p.items[pl[1]].at
      BY DEF Placements
    <3>2. pl[2] \in staying /\ pl[1] \in Rows(p)
      BY <3>1
    <3>3. pl[2] \in items[pl[1]].at
      BY <2>7, <3>1, <3>2
    <3> HIDE DEF staying, missing, items, q
    <3> QED BY <2>2, <2>8, <3>1, <3>2, <3>3 DEF Placements, Rows
  <2> HIDE DEF missing, items, q, present
  <2>10. WholeGrid(q)
    <3>1. \A s \in q.slots, m \in Meal : \A d \in 1 .. s.day :
            \E o \in q.slots : o.day = d /\ o.meal = m
      <4> HIDE DEF staying
      <4> QED BY <2>2, <2>4, <2>5
    <3>2. \A s, o \in q.slots : <<s.day, s.meal>> = <<o.day, o.meal>> => s = o
      BY <2>2, <2>3, <2>6 DEF PlanOk, WholeGrid
    <3>3. \A i \in Rows(q) : q.items[i].at \subseteq q.slots
      BY <2>2, <2>7, <2>8 DEF Rows
    <3> QED BY <3>1, <3>2, <3>3 DEF WholeGrid
  <2>11. PlanOk(q) /\ q.ver >= p.ver
    <3>1. q.items \in [Rows(q) -> Food] /\ Rows(q) = Rows(p)
      BY <2>2, <2>7, <2>8 DEF Rows, items
    <3> QED BY <2>2, <2>5, <2>10, <3>1 DEF PlanOk
  <2> QED BY <2>9, <2>11 DEF q
<1> QED BY <1>1, <1>2

\* The plan with one row written over, on meals that are there.
Edited(p, i, row) ==
  [ver |-> p.ver + 1, slots |-> p.slots, gone |-> p.gone, items |-> WithFood(p.items, i, row)]

\* A row written over keeps a plan a plan.
LEMMA EditedOk ==
  ASSUME NEW p, PlanOk(p), NEW i, NEW row \in Food, row.at \subseteq p.slots
  PROVE  /\ PlanOk(Edited(p, i, row)) /\ Edited(p, i, row).ver >= p.ver
         /\ Edited(p, i, row).items[i] = row
<1> DEFINE q == Edited(p, i, row)
<1>1. /\ q.ver = p.ver + 1 /\ q.slots = p.slots /\ q.gone = p.gone
      /\ q.items = WithFood(p.items, i, row)
      /\ q = [ver |-> q.ver, slots |-> q.slots, gone |-> q.gone, items |-> q.items]
  BY DEF Edited
<1> HIDE DEF q
<1>2. Rows(q) = Rows(p) \cup {i}
  BY <1>1 DEF WithFood, Rows
<1>3. \A j \in Rows(q) : q.items[j] = IF j = i THEN row ELSE p.items[j]
  BY <1>1 DEF WithFood, Rows
<1>4. q.items \in [Rows(q) -> Food]
  BY <1>1, <1>2, <1>3 DEF PlanOk, WithFood, Rows
<1>5. WholeGrid(q)
  BY <1>1, <1>2, <1>3 DEF PlanOk, WholeGrid
<1>6. IsFiniteSet(Rows(q))
  BY <1>2, FS_AddElement DEF PlanOk
<1>7. PlanOk(q) /\ q.ver >= p.ver /\ q.items[i] = row
  BY <1>1, <1>2, <1>3, <1>4, <1>5, <1>6 DEF PlanOk
<1> QED BY <1>7 DEF q

\* A new row is of a plan the repository holds (createItem).
LEMMA CreateOk ==
  ASSUME NEW p, PlanOk(p), NEW i, NEW row \in Food
  PROVE  PlanOk(CreateItem(p, i, row)) /\ CreateItem(p, i, row).ver >= p.ver
<1> DEFINE q == CreateItem(p, i, row)
<1>1. CASE i \notin Rows(p) \cup p.gone /\ OwnsAllSlots(p, row.at)
  <2>1. q = Edited(p, i, row)
    BY <1>1 DEF CreateItem, PlanOk, Edited
  <2> QED BY <1>1, <2>1, EditedOk DEF OwnsAllSlots
<1>2. CASE ~ (i \notin Rows(p) \cup p.gone /\ OwnsAllSlots(p, row.at))
  BY <1>2 DEF CreateItem, PlanOk
<1> QED BY <1>1, <1>2

\* A patch changes the fields it names.
LEMMA UpdateOk ==
  ASSUME NEW p, PlanOk(p), NEW i, NEW patch,
         "amount" \in DOMAIN patch => patch["amount"] \in Amounts
  PROVE  /\ PlanOk(UpdateFood(p, i, patch)) /\ UpdateFood(p, i, patch).ver >= p.ver
         /\ UpdateFood(p, i, patch) # p =>
              /\ "amount" \notin DOMAIN patch =>
                   UpdateFood(p, i, patch).items[i].amount = p.items[i].amount
              /\ "at" \notin DOMAIN patch => UpdateFood(p, i, patch).items[i].at = p.items[i].at
<1> DEFINE q == UpdateFood(p, i, patch)
           row == [amount |-> IF "amount" \in DOMAIN patch THEN patch["amount"] ELSE p.items[i].amount,
                   at     |-> IF "at" \in DOMAIN patch THEN patch["at"] ELSE p.items[i].at]
<1>1. CASE i \in Rows(p) /\ ("at" \in DOMAIN patch => OwnsAllSlots(p, patch["at"]))
  <2>1. q = Edited(p, i, row)
    BY <1>1 DEF UpdateFood, PlanOk, Edited
  <2>2. p.items[i] \in Food /\ p.items[i].at \subseteq p.slots /\ p.slots \subseteq Slot
    BY <1>1 DEF PlanOk, WholeGrid
  <2>3. row \in Food /\ row.at \subseteq p.slots
    BY <1>1, <2>2 DEF Food, OwnsAllSlots
  <2>4. /\ "amount" \notin DOMAIN patch => row.amount = p.items[i].amount
        /\ "at" \notin DOMAIN patch => row.at = p.items[i].at
    OBVIOUS
  <2> HIDE DEF q, row
  <2>5. PlanOk(q) /\ q.ver >= p.ver /\ q.items[i] = row
    BY <2>1, <2>3, EditedOk
  <2> QED BY <2>4, <2>5 DEF q
<1>2. CASE ~ (i \in Rows(p) /\ ("at" \in DOMAIN patch => OwnsAllSlots(p, patch["at"])))
  <2>1. q = p
    BY <1>2 DEF UpdateFood
  <2> QED BY <2>1 DEF PlanOk
<1> QED BY <1>1, <1>2

\* A deleted row leaves a plan behind (deleteItem).
LEMMA DeleteOk ==
  ASSUME NEW p, PlanOk(p), NEW i
  PROVE  PlanOk(DeleteFood(p, i)) /\ DeleteFood(p, i).ver >= p.ver
<1> DEFINE q == DeleteFood(p, i)
<1>1. CASE i \in Rows(p)
  <2>1. q = [ver |-> p.ver + 1, slots |-> p.slots, gone |-> p.gone \cup {i},
             items |-> [j \in Rows(p) \ {i} |-> p.items[j]]]
    BY <1>1 DEF DeleteFood, PlanOk
  <2>2. /\ q.ver = p.ver + 1 /\ q.slots = p.slots /\ q.gone = p.gone \cup {i}
        /\ q.items = [j \in Rows(p) \ {i} |-> p.items[j]]
        /\ q = [ver |-> q.ver, slots |-> q.slots, gone |-> q.gone, items |-> q.items]
    BY <2>1
  <2> HIDE DEF q
  <2>3. q.items \in [Rows(q) -> Food] /\ Rows(q) = Rows(p) \ {i}
    BY <2>2 DEF PlanOk, Rows
  <2>4. WholeGrid(q)
    BY <2>2, <2>3 DEF PlanOk, WholeGrid
  <2>5. IsFiniteSet(Rows(q))
    BY <2>3, FS_RemoveElement DEF PlanOk
  <2>6. PlanOk(q) /\ q.ver >= p.ver
    BY <2>2, <2>3, <2>4, <2>5 DEF PlanOk
  <2> QED BY <2>6 DEF q
<1>2. CASE i \notin Rows(p)
  BY <1>2 DEF DeleteFood, PlanOk
<1> QED BY <1>1, <1>2

-----------------------------------------------------------------------------
(* The steps                                                               *)

\* Every write of the plan, from here or elsewhere, makes a whole grid of it.
LEMMA WritesOk ==
  ASSUME FoodInv, PutDays \/ CommitSave \/ OtherClients
  PROVE  PlanOk(plan') /\ plan'.ver >= plan.ver
<1>1. PlanOk(plan)
  BY DEF FoodInv, PlansInv
<1>2. CASE PutDays
  <2>1. plan' = SetDayCount(plan, daysBox.days) /\ daysBox.days \in 0 .. DayCap
    BY <1>2 DEF PutDays, FoodInv, BoxInv
  <2> QED BY <1>1, <2>1, SetDaysOk
<1>3. CASE CommitSave
  <2>1. plan' = Served(plan, saving) /\ saving.kind \in {"create", "update", "delete"}
    BY <1>3 DEF CommitSave, FoodInv, SavingInv
  <2>2. CASE saving.kind = "create"
    BY <1>1, <2>1, <2>2, CreateOk DEF Served, FoodInv, SavingInv
  <2>3. CASE saving.kind = "update"
    BY <1>1, <2>1, <2>3, UpdateOk DEF Served, FoodInv, SavingInv
  <2>4. CASE saving.kind = "delete"
    BY <1>1, <2>1, <2>4, DeleteOk DEF Served
  <2> QED BY <2>1, <2>2, <2>3, <2>4
<1>4. CASE OtherClients
  <2>1. CASE \E days \in Length : plan' = SetDayCount(plan, days)
    BY <1>1, <2>1, SetDaysOk, FoodAssumption
  <2>2. ASSUME NEW i, plan' = CreateItem(plan, i, [amount |-> BlankAmount, at |-> plan.slots])
        PROVE  PlanOk(plan') /\ plan'.ver >= plan.ver
    <3>1. [amount |-> BlankAmount, at |-> plan.slots] \in Food
      BY <1>1 DEF Food, Amounts, PlanOk
    <3> QED BY <1>1, <2>2, <3>1, CreateOk
  <2>3. ASSUME NEW i, NEW a \in Amount, plan' = UpdateFood(plan, i, [amount |-> a])
        PROVE  PlanOk(plan') /\ plan'.ver >= plan.ver
    <3> DEFINE patch == [amount |-> a]
    <3>1. patch["amount"] \in Amounts
      BY DEF Amounts
    <3>2. plan' = UpdateFood(plan, i, patch)
      BY <2>3
    <3> HIDE DEF patch
    <3> QED BY <1>1, <3>1, <3>2, UpdateOk
  <2>4. ASSUME NEW i, NEW at, plan' = UpdateFood(plan, i, [at |-> at])
        PROVE  PlanOk(plan') /\ plan'.ver >= plan.ver
    <3> DEFINE patch == [at |-> at]
    <3>1. "amount" \notin DOMAIN patch
      OBVIOUS
    <3>2. plan' = UpdateFood(plan, i, patch)
      BY <2>4
    <3> HIDE DEF patch
    <3> QED BY <1>1, <3>1, <3>2, UpdateOk
  <2>5. CASE \E i \in FoodItem : plan' = DeleteFood(plan, i)
    BY <1>1, <2>5, DeleteOk
  <2> QED BY <1>4, <2>1, <2>2, <2>3, <2>4, <2>5 DEF OtherClients
<1> QED BY <1>2, <1>3, <1>4

\* The other steps leave the plan as it is.
LEMMA QuietOk ==
  ASSUME FoodInv, [FoodNext]_foodVars, ~ (PutDays \/ CommitSave \/ OtherClients)
  PROVE  plan' = plan
BY DEF FoodNext, foodVars, Focus, AnswerRead, LandRead, FailRead, LeaveView, ReturnToView,
   TypeDays,
       ReadPlan, ReadPlanFails, DecideDays, DaysSaved, DaysFailed, OpenAdd, OpenEdit, EditDraft,
       CloseEditor, Submit, RemoveFood, SaveConfirmed, SaveUnconfirmed

\* A plan is never replaced by an older one.
LEMMA PlanGrows ==
  ASSUME FoodInv, [FoodNext]_foodVars
  PROVE  PlanOk(plan') /\ plan'.ver >= plan.ver
BY WritesOk, QuietOk DEF FoodInv, PlansInv, PlanOk

\* Only these steps put something else on the page, into the read or into the box.
LEMMA CopiesMoved ==
  ASSUME [FoodNext]_foodVars
  PROVE  /\ foodPage' = foodPage \/ LandRead \/ DaysSaved
         /\ foodRead' = foodRead \/ foodRead'.at \in {"none", "asked"} \/ AnswerRead
         /\ daysBox' = daysBox \/ daysBox'.at \in {"idle", "reading", "sent"} \/ ReadPlan \/ PutDays
<1>1. foodPage' = foodPage \/ LandRead \/ DaysSaved
  BY DEF FoodNext, foodVars, Focus, AnswerRead, FailRead, LeaveView, ReturnToView, TypeDays,
         ReadPlan, ReadPlanFails, DecideDays, PutDays, DaysFailed, OpenAdd, OpenEdit, EditDraft,
         CloseEditor, Submit, RemoveFood, CommitSave, SaveConfirmed, SaveUnconfirmed,
         OtherClients
<1>2. foodRead' = foodRead \/ foodRead'.at \in {"none", "asked"} \/ AnswerRead
  BY DEF FoodNext, foodVars, Focus, LandRead, FailRead, LeaveView, ReturnToView, TypeDays,
         ReadPlan, ReadPlanFails, DecideDays, PutDays, DaysSaved, DaysFailed, OpenAdd, OpenEdit,
         EditDraft, CloseEditor, Submit, RemoveFood, CommitSave, SaveConfirmed, SaveUnconfirmed,
         OtherClients, InvalidatePlan, CancelAndInvalidate, NoRead
<1>3. daysBox' = daysBox \/ daysBox'.at \in {"idle", "reading", "sent"} \/ ReadPlan \/ PutDays
  BY DEF FoodNext, foodVars, Focus, AnswerRead, LandRead, FailRead, LeaveView, ReturnToView,
         TypeDays, ReadPlanFails, DecideDays, DaysSaved, DaysFailed, OpenAdd, OpenEdit,
         EditDraft,
         CloseEditor, Submit, RemoveFood, CommitSave, SaveConfirmed, SaveUnconfirmed,
         OtherClients,
         BoxIdle
<1> QED BY <1>1, <1>2, <1>3

\* Every copy of the plan stays one of a plan that was.
LEMMA PlansStep ==
  ASSUME FoodInv, [FoodNext]_foodVars
  PROVE  PlansInv'
<1>1. PlanOk(plan')
  BY PlanGrows
<1>2. PlanOk(foodPage')
  BY CopiesMoved DEF LandRead, DaysSaved, FoodInv, PlansInv
<1>3. foodRead'.at = "answered" => PlanOk(foodRead'.plan)
  BY CopiesMoved DEF AnswerRead, FoodInv, PlansInv
<1>4. (daysBox'.at = "answered" => PlanOk(daysBox'.plan))
        /\ (daysBox'.at = "deciding" => PlanOk(daysBox'.current))
  BY <1>1, CopiesMoved DEF ReadPlan, PutDays, Looked, FoodInv, PlansInv
<1> QED BY <1>1, <1>2, <1>3, <1>4 DEF PlansInv, PlanOk, WholeGrid, Rows

\* The dialog holds a draft of typed rows.
LEMMA EditorStep ==
  ASSUME FoodInv, [FoodNext]_foodVars
  PROVE  EditorInv'
<1>1. CASE editor' \in {editor, Closed}
  BY <1>1 DEF EditorInv, FoodInv
<1>2. CASE OpenAdd
  <2>1. PICK i \in FoodItem, at \in {{}} \cup {{s} : s \in foodPage.slots}
                              \cup {{s \in foodPage.slots : s.day = d} : d \in 1 .. DayCap} :
          editor' = [kind |-> "create", item |-> i, draft |-> [amount |-> BlankAmount, at |-> at]]
    BY <1>2 DEF OpenAdd
  <2>2. at \subseteq Slot
    BY DEF FoodInv, PlansInv, PlanOk
  <2> QED BY <2>1, <2>2 DEF EditorInv, Food, Amounts
<1>3. CASE \E i \in FoodItem : OpenEdit(i)
  BY <1>3 DEF OpenEdit, EditorInv, FoodInv, PlansInv, PlanOk, Rows
<1>4. CASE EditDraft
  <2>1. editor.kind # "none" /\ editor # Closed
    BY <1>4 DEF EditDraft, Closed
  <2>2. editor.draft \in Food /\ foodPage.slots \subseteq Slot
    BY <2>1 DEF FoodInv, EditorInv, PlansInv, PlanOk
  <2>3. \E d \in Food : editor' = [editor EXCEPT !.draft = d]
    <3>1. CASE \E a \in Amount \ {editor.draft.amount} : editor' = [editor EXCEPT !.draft.amount = a]
      <4>1. PICK a \in Amount : editor' = [editor EXCEPT !.draft = [@ EXCEPT !.amount = a]]
        BY <3>1
      <4>2. [editor.draft EXCEPT !.amount = a] \in Food
        BY <2>2 DEF Food, Amounts
      <4> QED BY <4>1, <4>2
    <3>2. CASE \E s \in foodPage.slots :
                 editor' = [editor EXCEPT !.draft.at =
                              IF s \in @ THEN Live(@) \ {s} ELSE Live(@) \cup {s}]
      <4>1. PICK s \in foodPage.slots :
              editor' = [editor EXCEPT !.draft.at =
                           IF s \in @ THEN Live(@) \ {s} ELSE Live(@) \cup {s}]
        BY <3>2
      <4> DEFINE at == IF s \in editor.draft.at THEN Live(editor.draft.at) \ {s}
                                                ELSE Live(editor.draft.at) \cup {s}
      <4>2. at \subseteq Slot
        BY <2>2 DEF Live
      <4>3. editor' = [editor EXCEPT !.draft = [@ EXCEPT !.at = at]]
        BY <4>1
      <4> HIDE DEF at
      <4>4. [editor.draft EXCEPT !.at = at] \in Food
        BY <2>2, <4>2 DEF Food
      <4> QED BY <4>3, <4>4
    <3> QED BY <1>4, <3>1, <3>2 DEF EditDraft
  <2>4. PICK d \in Food : editor' = [editor EXCEPT !.draft = d]
    BY <2>3
  <2>5. CASE editor \in [kind : {"create"}, item : FoodItem, draft : Food]
    BY <2>4, <2>5 DEF EditorInv
  <2>6. CASE editor \in [kind : {"update"}, item : FoodItem, base : Food, draft : Food]
    BY <2>4, <2>6 DEF EditorInv
  <2> QED BY <2>1, <2>5, <2>6 DEF FoodInv, EditorInv
<1>5. editor' \in {editor, Closed} \/ OpenAdd \/ (\E i \in FoodItem : OpenEdit(i)) \/ EditDraft
  BY DEF FoodNext, foodVars, Focus, AnswerRead, LandRead, FailRead, LeaveView, ReturnToView,
     TypeDays,
         ReadPlan, ReadPlanFails, DecideDays, PutDays, DaysSaved, DaysFailed, CloseEditor,
         Submit,
         RemoveFood, CommitSave, SaveConfirmed, SaveUnconfirmed, OtherClients, ClosedIfGone
<1> QED BY <1>1, <1>2, <1>3, <1>4, <1>5

\* A save names only fields that its user touched.
LEMMA SavingStep ==
  ASSUME FoodInv, [FoodNext]_foodVars
  PROVE  SavingInv'
<1>1. CASE saving' \in {saving, Closed}
  BY <1>1 DEF SavingInv, FoodInv, Closed
<1>2. CASE RemoveFood
  BY <1>2 DEF RemoveFood, SavingInv
<1>3. CASE Submit /\ saving' # saving
  <2>1. editor.kind # "none" /\ editor # Closed
    BY <1>3 DEF Submit, Closed
  <2>2. CASE editor.kind = "create"
    <3>1. editor.draft \in Food
      BY <2>1, <2>2 DEF FoodInv, EditorInv
    <3>2. saving' = [kind |-> "create", item |-> editor.item, done |-> FALSE,
                     row |-> [editor.draft EXCEPT !.at = Live(@)]]
      BY <1>3, <2>2 DEF Submit
    <3>3. [editor.draft EXCEPT !.at = Live(@)] \in Food
      BY <3>1 DEF Food, Live
    <3> QED BY <3>2, <3>3 DEF SavingInv
  <2>3. CASE editor.kind = "update"
    <3>1. editor.draft \in Food /\ editor.base \in Food
      BY <2>1, <2>3 DEF FoodInv, EditorInv
    <3> DEFINE patch == [f \in FoodItemPatch(editor) |->
                           IF f = "at" THEN Live(editor.draft.at) ELSE editor.draft[f]]
    <3>2. saving' = [kind |-> "update", item |-> editor.item, done |-> FALSE,
                     patch |-> patch, touched |-> Touched(editor)]
      BY <1>3, <2>3 DEF Submit
    <3>3. DOMAIN patch \subseteq Touched(editor) \cap Fields
      BY <3>1 DEF FoodItemPatch, Touched, Fields, Live, Food
    <3>4. "amount" \in DOMAIN patch => patch["amount"] \in Amounts
      BY <3>1 DEF Food
    <3> HIDE DEF patch
    <3> QED BY <3>2, <3>3, <3>4 DEF SavingInv
  <2> QED BY <2>1, <2>2, <2>3 DEF FoodInv, EditorInv
<1>4. CASE CommitSave
  <2>1. saving' = [saving EXCEPT !.done = TRUE]
    BY <1>4 DEF CommitSave
  <2>2. /\ saving'.kind = saving.kind /\ saving'.row = saving.row /\ saving'.patch = saving.patch
        /\ saving'.touched = saving.touched
    BY <2>1
  <2> QED BY <2>2 DEF FoodInv, SavingInv
<1>5. saving' \in {saving, Closed} \/ RemoveFood \/ Submit \/ CommitSave
  BY DEF FoodNext, foodVars, Focus, AnswerRead, LandRead, FailRead, LeaveView, ReturnToView,
     TypeDays,
         ReadPlan, ReadPlanFails, DecideDays, PutDays, DaysSaved, DaysFailed, OpenAdd, OpenEdit,
         EditDraft, CloseEditor, SaveConfirmed, SaveUnconfirmed, OtherClients
<1> QED BY <1>1, <1>2, <1>3, <1>4, <1>5

\* What the page was told stays below what may still reach it: the answer of the days
\* box drops older reads, and a save asks for a new one.
LEMMA VersionsStep ==
  ASSUME FoodInv, [FoodNext]_foodVars
  PROVE  VersionsInv'
<1>1. /\ plan.ver \in Nat /\ plan'.ver \in Nat /\ plan'.ver >= plan.ver /\ foodPage.ver \in Nat
      /\ foodRead.at = "answered" => foodRead.plan.ver \in Nat
      /\ daysBox.at = "answered" => daysBox.plan.ver \in Nat
  BY PlanGrows DEF FoodInv, PlansInv, PlanOk
<1>2. VersionsInv
  BY DEF FoodInv
<1>3. CASE AnswerRead
  BY <1>1, <1>2, <1>3 DEF AnswerRead, VersionsInv
<1>4. CASE LandRead
  BY <1>1, <1>2, <1>4 DEF LandRead, VersionsInv, NoRead
<1>5. CASE DaysSaved
  BY <1>1, <1>2, <1>5 DEF DaysSaved, VersionsInv, NoRead, BoxIdle, CancelAndInvalidate
<1>6. CASE SaveConfirmed
  BY <1>1, <1>2, <1>6 DEF SaveConfirmed, VersionsInv, InvalidatePlan
<1>7. CASE PutDays
  BY <1>1, <1>2, <1>7 DEF PutDays, VersionsInv
<1>8. CASE DecideDays \/ DaysFailed
  <2>1. \/ foodRead' = foodRead /\ foodStale' = foodStale
        \/ foodRead'.at = "asked"
        \/ foodRead' = foodRead /\ foodStale' = TRUE
    BY <1>8 DEF DecideDays, DaysFailed, InvalidatePlan
  <2>2. UNCHANGED <<plan, foodPage, lengthSet, confirmed>> /\ daysBox'.at # "answered"
    BY <1>8 DEF DecideDays, DaysFailed, BoxIdle
  <2> QED BY <1>1, <1>2, <2>1, <2>2 DEF VersionsInv
<1>9. CASE Focus \/ FailRead \/ ReturnToView
  BY <1>1, <1>2, <1>9 DEF Focus, FailRead, ReturnToView, VersionsInv, NoRead
<1>10. CASE TypeDays(daysBox'.days) \/ ReadPlan \/ ReadPlanFails
  BY <1>1, <1>2, <1>10 DEF TypeDays, ReadPlan, ReadPlanFails, VersionsInv, BoxIdle
<1>11. CASE UNCHANGED <<foodPage, foodRead, foodStale, daysBox, lengthSet, confirmed>>
  BY <1>1, <1>2, <1>11 DEF VersionsInv
<1>12. \A days \in Length : TypeDays(days) => TypeDays(daysBox'.days)
  BY DEF TypeDays
<1>13. (LeaveView \/ OpenAdd \/ (\E i \in FoodItem : OpenEdit(i)) \/ EditDraft \/ CloseEditor
          \/ Submit \/ RemoveFood \/ CommitSave \/ SaveUnconfirmed \/ OtherClients
          \/ UNCHANGED foodVars)
         => UNCHANGED <<foodPage, foodRead, foodStale, daysBox, lengthSet, confirmed>>
  BY DEF LeaveView, OpenAdd, OpenEdit, EditDraft, CloseEditor, Submit, RemoveFood, CommitSave,
         SaveUnconfirmed, OtherClients, foodVars
<1> QED BY <1>3, <1>4, <1>5, <1>6, <1>7, <1>8, <1>9, <1>10, <1>11, <1>12, <1>13 DEF FoodNext

\* The box sends unasked only what loses nothing that it saw.
LEMMA BoxStep ==
  ASSUME FoodInv, [FoodNext]_foodVars
  PROVE  BoxInv'
<1>1. BoxInv
  BY DEF FoodInv
<1>2. CASE UNCHANGED <<daysBox, planned>>
  BY <1>1, <1>2 DEF BoxInv, Placements, Rows
<1>3. CASE \E days \in Length : TypeDays(days)
  BY <1>3, FoodAssumption DEF TypeDays, BoxInv
<1>4. CASE ReadPlan
  BY <1>1, <1>4 DEF ReadPlan, Looked, BoxInv, Placements, Rows
<1>5. CASE ReadPlanFails \/ DaysSaved \/ DaysFailed \/ PutDays
  BY <1>5 DEF ReadPlanFails, DaysSaved, DaysFailed, PutDays, BoxIdle, BoxInv
<1>6. CASE DecideDays
  <2>1. CASE daysBox' = BoxIdle
    BY <2>1 DEF BoxIdle, BoxInv
  <2> DEFINE asks == daysBox.days < DayCount(daysBox.current)
                       /\ LosesWorkBelow(daysBox.current, daysBox.days)
  <2>2. CASE daysBox' = [at |-> "sent", days |-> daysBox.days, asked |-> asks]
             /\ planned' = planned
    <3>1. /\ daysBox.days \in 0 .. DayCap /\ planned = Placements(daysBox.current)
          /\ daysBox.current.slots \subseteq Slot
      BY <1>1, <1>6 DEF DecideDays, BoxInv, FoodInv, PlansInv, PlanOk
    <3>2. /\ DayCount(daysBox.current) \in Nat
          /\ \A s \in daysBox.current.slots : s.day <= DayCount(daysBox.current)
      BY <3>1, CountBounds
    <3>3. \A pl \in planned : pl[2] \in daysBox.current.slots /\ pl[2].day \in Nat
      BY <3>1 DEF Placements, Slot
    <3>4. ASSUME ~ asks, NEW pl \in planned
          PROVE  pl[2].day <= daysBox.days
      BY <3>1, <3>2, <3>3, <3>4 DEF LosesWorkBelow
    <3> HIDE DEF asks
    <3> QED BY <2>2, <3>1, <3>4 DEF BoxInv
  <2> QED BY <1>6, <2>1, <2>2 DEF DecideDays
<1>7. (Focus \/ AnswerRead \/ LandRead \/ FailRead \/ LeaveView \/ ReturnToView \/ OpenAdd
         \/ (\E i \in FoodItem : OpenEdit(i)) \/ EditDraft \/ CloseEditor \/ Submit \/ RemoveFood
         \/ CommitSave \/ SaveConfirmed \/ SaveUnconfirmed \/ OtherClients \/ UNCHANGED foodVars)
        => UNCHANGED <<daysBox, planned>>
  BY DEF Focus, AnswerRead, LandRead, FailRead, LeaveView, ReturnToView, OpenAdd, OpenEdit,
         EditDraft, CloseEditor, Submit, RemoveFood, CommitSave, SaveConfirmed, SaveUnconfirmed,
         OtherClients, foodVars
<1> QED BY <1>2, <1>3, <1>4, <1>5, <1>6, <1>7 DEF FoodNext

\* The page opens on the plan there is.
LEMMA FoodBegin == FoodInit => FoodInv
<1> SUFFICES ASSUME FoodInit PROVE FoodInv
  OBVIOUS
<1> DEFINE grid == UNION {SlotsOf(d, 0) : d \in 1 .. DayCap}
           items == [i \in OnList |-> [amount |-> BlankAmount, at |-> {s \in grid : s.day = 1}]]
<1>1. plan = [ver |-> 0, slots |-> grid, gone |-> {}, items |-> items]
  BY DEF FoodInit
<1>2. \A s : s \in grid <=> \E d \in 1 .. DayCap : s \in [day : {d}, meal : Meal, born : {0}]
  BY DEF SlotsOf
<1>3. \A d \in 1 .. DayCap, m \in Meal : [day |-> d, meal |-> m, born |-> 0] \in grid
  BY <1>2
<1>4. \A s \in grid : s \in Slot /\ s = [day |-> s.day, meal |-> s.meal, born |-> 0]
  BY <1>2 DEF Slot
<1>5. items \in [OnList -> Food]
  BY <1>4 DEF Food, Amounts
<1> HIDE DEF grid
<1>6. /\ plan.ver = 0 /\ plan.slots = grid /\ plan.gone = {} /\ plan.items = items
      /\ plan = [ver |-> plan.ver, slots |-> plan.slots, gone |-> plan.gone, items |-> plan.items]
      /\ Rows(plan) = OnList
  BY <1>1 DEF Rows
<1>7. \A i \in OnList : items[i].at \subseteq grid
  OBVIOUS
<1>8. WholeGrid(plan)
  <2>1. \A s \in grid, m \in Meal : \A d \in 1 .. s.day : \E o \in grid : o.day = d /\ o.meal = m
    <3> SUFFICES ASSUME NEW s \in grid, NEW m \in Meal, NEW d \in 1 .. s.day
                 PROVE  \E o \in grid : o.day = d /\ o.meal = m
      OBVIOUS
    <3>1. d \in 1 .. DayCap
      BY <1>4, FoodAssumption DEF Slot
    <3> QED BY <1>3, <3>1
  <2>2. \A s, o \in grid : <<s.day, s.meal>> = <<o.day, o.meal>> => s = o
    BY <1>4
  <2> QED BY <1>6, <1>7, <2>1, <2>2 DEF WholeGrid
<1>9. PlanOk(plan)
  <2>1. IsFiniteSet(Rows(plan))
    BY <1>6, FoodAssumption, FS_Subset
  <2> QED BY <1>4, <1>5, <1>6, <1>8, <2>1 DEF PlanOk
<1>10. PlansInv
  BY <1>9 DEF FoodInit, PlansInv, NoRead, BoxIdle
<1>11. EditorInv /\ SavingInv /\ BoxInv
  BY DEF FoodInit, EditorInv, SavingInv, BoxInv, Closed, BoxIdle
<1>12. VersionsInv
  BY <1>6 DEF FoodInit, VersionsInv, NoRead, BoxIdle
<1> QED BY <1>10, <1>11, <1>12 DEF FoodInv

\* What the steps keep, together.
LEMMA FoodStep == FoodInv /\ [FoodNext]_foodVars => FoodInv'
BY PlansStep, EditorStep, SavingStep, VersionsStep, BoxStep DEF FoodInv

\* Whatever the page, its box and its dialog do, and whatever other clients write

\* (server/repos/food.ts, lib/queries/food.ts), every copy of the plan is a whole plan,
\* no older than what the page was told.
THEOREM FoodInvariant == FoodSpec => []FoodInv
BY FoodBegin, FoodStep, PTL DEF FoodSpec

\* A confirmed trip length or food stays on the page, through every read that was under
\* way (lib/queries/food.ts), and the days and meals of a plan are a whole grid
\* (server/repos/food.ts setDayCount).
THEOREM PlanHolding == FoodSpec => []PlanHolds
<1>1. FoodInv => PlanHolds
  BY DEF FoodInv, PlansInv, PlanOk, VersionsInv, PlanHolds, ConfirmedShown, LengthKept,
     GridWhole
<1> QED BY <1>1, FoodInvariant, PTL

\* The day box trims only what its user was asked about (lists/FoodView.tsx), and a save
\* of the dialog writes no field its user left alone (lists/FoodItemDialog.tsx).
THEOREM EditsMeant == FoodSpec => EditsAsMeant
<1>1. ASSUME FoodInv, [FoodNext]_foodVars, plan' # plan, daysBox.at = "sent",
             daysBox'.at = "answered", ~ daysBox.asked
      PROVE  (Placements(plan) \ Placements(plan')) \cap planned = {}
  <2>1. PutDays
    <3>1. daysBox' # daysBox
      BY <1>1
    <3> QED BY <1>1, <3>1, CopiesMoved DEF ReadPlan
  <2>2. plan' = SetDayCount(plan, daysBox.days) /\ daysBox.days \in 0 .. DayCap /\ PlanOk(plan)
    BY <1>1, <2>1 DEF PutDays, FoodInv, BoxInv, PlansInv
  <2>3. \A pl \in Placements(plan) \ Placements(plan') : ~ (pl[2].day <= daysBox.days)
    BY <2>2, SetDaysOk
  <2>4. \A pl \in planned : pl[2].day <= daysBox.days
    BY <1>1 DEF FoodInv, BoxInv
  <2> QED BY <2>3, <2>4
<1>2. ASSUME FoodInv, CommitSave, saving.kind = "update", NEW f \in {"amount", "at"} \ saving.touched
      PROVE  plan'.items[saving.item][f] = plan.items[saving.item][f]
  <2>1. /\ plan' = UpdateFood(plan, saving.item, saving.patch) /\ plan' # plan
        /\ f \notin DOMAIN saving.patch
        /\ "amount" \in DOMAIN saving.patch => saving.patch["amount"] \in Amounts
        /\ PlanOk(plan)
    BY <1>2 DEF CommitSave, Served, FoodInv, SavingInv, PlansInv
  <2>2. /\ "amount" \notin DOMAIN saving.patch =>
             plan'.items[saving.item].amount = plan.items[saving.item].amount
        /\ "at" \notin DOMAIN saving.patch => plan'.items[saving.item].at = plan.items[saving.item].at
    BY <2>1, UpdateOk
  <2>3. f = "amount" \/ f = "at"
    OBVIOUS
  <2> QED BY <2>1, <2>2, <2>3
<1>3. FoodInv /\ [FoodNext]_foodVars =>
        [plan' # plan /\ daysBox.at = "sent" /\ daysBox'.at = "answered" /\ ~ daysBox.asked
           => (Placements(plan) \ Placements(plan')) \cap planned = {}]_foodVars
  BY <1>1
<1>4. FoodInv /\ [FoodNext]_foodVars =>
        [(CommitSave /\ saving.kind = "update") =>
           \A f \in {"amount", "at"} \ saving.touched :
             plan'.items[saving.item][f] = plan.items[saving.item][f]]_foodVars
  BY <1>2
<1> QED BY <1>3, <1>4, FoodInvariant, PTL DEF FoodSpec, EditsAsMeant, TrimAsked, UntouchedKept

-----------------------------------------------------------------------------
(* What the tables of the Food view come to                                *)

\* A sum of the tables is one of those.
LEMMA SumOverIs ==
  ASSUME NEW w
  PROVE  SumOver(w) = Total(w, DOMAIN w)
BY DEF SumOver, Total

\* A plan has at most one slot for each day and meal there can be.
LEMMA SlotsCounted ==
  ASSUME NEW p, PlanOk(p)
  PROVE  /\ IsFiniteSet(p.slots)
         /\ Cardinality(p.slots) \in Nat /\ Cardinality(p.slots) <= DayCap * Cardinality(Meal)
<1>1. PICK S, D : S = p.slots /\ D = 1 .. DayCap
  OBVIOUS
<1>2. DayCap \in Nat /\ IsFiniteSet(Meal)
  BY FoodAssumption
<1>3. IsFiniteSet(D) /\ Cardinality(D) = DayCap
  BY <1>1, <1>2, FS_Interval
<1>4. IsFiniteSet(D \X Meal) /\ Cardinality(D \X Meal) = DayCap * Cardinality(Meal)
  BY <1>2, <1>3, FS_Product
<1>5. PICK f : f = [s \in S |-> <<s.day, s.meal>>]
  OBVIOUS
<1>6. \A s \in S : s.day \in D /\ s.meal \in Meal
  BY <1>1 DEF PlanOk, Slot
<1>7. f \in [S -> D \X Meal]
  BY <1>5, <1>6
<1>8. \A s, o \in S : f[s] = f[o] => s = o
  BY <1>1, <1>5 DEF PlanOk, WholeGrid
<1>9. f \in Injection(S, D \X Meal)
  BY <1>7, <1>8 DEF Injection, IsInjective
<1>10. IsFiniteSet(S) /\ Cardinality(S) <= Cardinality(D \X Meal)
  BY <1>4, <1>9, FS_Injection
<1> QED BY <1>1, <1>4, <1>10, FS_CardinalityType

\* Max({c, 1}) of a count.
LEMMA AtLeastOne ==
  ASSUME NEW c \in Nat
  PROVE  Max({c, 1}) = IF c = 0 THEN 1 ELSE c
<1>1. PICK m : m = Max({c, 1})
  OBVIOUS
<1>2. \E x \in {c, 1} : \A y \in {c, 1} : x >= y
  <2>1. CASE c >= 1
    BY <2>1
  <2>2. CASE c < 1
    BY <2>2
  <2> QED BY <2>1, <2>2
<1>3. m \in {c, 1} /\ \A y \in {c, 1} : m >= y
  BY <1>1, <1>2 DEF Max
<1> QED BY <1>1, <1>3

\* What an item weighs at its meals: it is carried whole, or once for each of them.
LEMMA SharesWhole ==
  ASSUME TablesAssumption, NEW p, PlanOk(p), NEW i \in Rows(p),
         NEW at, at = p.items[i].at, NEW g, g = FoodGramsAtMeal(p, i),
         NEW w, w = Parts * p.items[i].amount * FoodUnitCount(p, i)
  PROVE  /\ g \in Nat /\ w \in Nat /\ IsFiniteSet(at) /\ at \subseteq p.slots /\ Cardinality(at) \in Nat
         /\ w = IF at = {} THEN g ELSE Cardinality(at) * g
<1>1. PICK n : n = Cardinality(at)
  OBVIOUS
<1>2. p.items[i] \in Food /\ at \subseteq p.slots
  BY DEF PlanOk, WholeGrid
<1>3. /\ IsFiniteSet(at) /\ n \in Nat /\ n <= Cardinality(p.slots) /\ (n = 0 <=> at = {})
      /\ Cardinality(p.slots) \in Nat /\ Cardinality(p.slots) <= DayCap * Cardinality(Meal)
  BY <1>1, <1>2, SlotsCounted, FS_Subset, FS_CardinalityType, FS_EmptySet
<1>4. DayCap * Cardinality(Meal) \in Nat
  BY FS_CardinalityType, FoodAssumption
<1>5. PICK a \in Nat : a = p.items[i].amount
  <2>1. p.items[i].amount \in Amount
    BY <1>2, FoodAssumption DEF Food, Amounts, BlankAmount
  <2> QED BY <2>1 DEF TablesAssumption
<1>6. PICK c : c = IF n = 0 THEN 1 ELSE n
  OBVIOUS
<1>7. c \in Nat /\ c > 0 /\ Max({Cardinality(p.items[i].at), 1}) = c
  BY <1>1, <1>3, <1>6, AtLeastOne
<1>8. PICK h : h = Parts * a
  OBVIOUS
<1>9. Parts \in Nat /\ h \in Nat
  BY <1>8 DEF TablesAssumption
<1>10. FoodUnitCount(p, i) = IF i \in Shared THEN 1 ELSE c
  BY <1>7 DEF FoodUnitCount
<1>11. g = IF i \in Shared THEN h \div c ELSE h
  BY <1>5, <1>7, <1>8 DEF FoodGramsAtMeal
<1>12. w = h * FoodUnitCount(p, i)
  BY <1>5, <1>8
<1>13. CASE i \notin Shared
  <2>1. g = h /\ w = h * c
    BY <1>10, <1>11, <1>12, <1>13
  <2> QED BY <1>1, <1>2, <1>3, <1>6, <1>7, <1>9, <2>1
<1>14. CASE i \in Shared
  <2>1. g = h \div c /\ w = h * 1
    BY <1>10, <1>11, <1>12, <1>14
  <2>2. CASE n = 0
    <3>1. g = h \div 1
      BY <1>6, <2>1, <2>2
    <3> QED BY <1>1, <1>2, <1>3, <1>9, <2>1, <2>2, <3>1
  <2>3. CASE n > 0
    <3>1. c = n /\ c \in 1 .. DayCap * Cardinality(Meal)
      BY <1>3, <1>4, <1>6, <2>3
    <3>2. Parts % c = 0
      BY <3>1 DEF TablesAssumption
    <3>3. PICK k : k = Parts \div c
      OBVIOUS
    <3>4. k \in Nat /\ Parts = c * k
      BY <1>7, <1>9, <3>2, <3>3
    <3>5. h = c * (k * a)
      BY <1>5, <1>7, <1>8, <3>4
    <3>6. k * a \in Nat
      BY <1>5, <3>4
    <3>7. PICK q \in Nat : q = k * a
      BY <3>6
    <3>8. h = c * q
      BY <3>5, <3>7
    <3>9. (c * q) \div c = q
      BY <1>7, <3>7
    <3>10. g = q
      BY <2>1, <3>8, <3>9
    <3> QED BY <1>1, <1>2, <1>3, <1>9, <2>1, <2>3, <3>1, <3>8, <3>10
  <2> QED BY <1>3, <2>2, <2>3
<1> QED BY <1>13, <1>14

\* The slots of a day are those on that day: there is one for each meal.
LEMMA DaySlots ==
  ASSUME NEW p, PlanOk(p), NEW d
  PROVE  SlotsForDay(p, d) = {s \in p.slots : s.day = d}
<1> DEFINE On == {o \in p.slots : o.day = d}
           Meals == {o.meal : o \in On}
           At(m) == CHOOSE s \in p.slots : s.day = d /\ s.meal = m
<1>1. ASSUME NEW o \in On PROVE At(o.meal) = o
  <2>1. PICK m : m = o.meal
    OBVIOUS
  <2>2. o \in p.slots /\ o.day = d /\ o.meal = m
    BY <2>1
  <2>3. At(m) \in p.slots /\ At(m).day = d /\ At(m).meal = m
    BY <2>2
  <2>4. At(m) = o
    BY <2>2, <2>3 DEF PlanOk, WholeGrid
  <2> QED BY <2>1, <2>4
<1>2. SlotsForDay(p, d) = {At(m) : m \in Meals}
  BY DEF SlotsForDay
<1>3. \A m \in Meals : \E o \in On : m = o.meal
  OBVIOUS
<1>4. \A o \in On : o.meal \in Meals
  OBVIOUS
<1> HIDE DEF On, Meals, At
<1>5. {At(m) : m \in Meals} = On
  BY <1>1, <1>3, <1>4
<1> QED BY <1>2, <1>5 DEF On

\* The total under a day: what its meals come to.
LEMMA DayTotal ==
  ASSUME TablesAssumption, NEW p, PlanOk(p), IsFiniteSet(Rows(p)), NEW d,
         NEW g, g = [i \in Rows(p) |-> FoodGramsAtMeal(p, i)],
         NEW t, t = [s \in p.slots |-> Total(g, {i \in Rows(p) : s \in p.items[i].at})]
  PROVE  DayGrams(p, d) = Total(t, {s \in p.slots : s.day = d})
<1>1. PICK D : D = {s \in p.slots : s.day = d}
  OBVIOUS
<1>2. D = SlotsForDay(p, d) /\ IsFiniteSet(D) /\ D \subseteq p.slots
  BY <1>1, DaySlots, SlotsCounted, FS_Subset
<1>3. PICK v : v = [s \in D |-> SumOver([i \in ItemsBySlot(p, s) |-> FoodGramsAtMeal(p, i)])]
  OBVIOUS
<1>4. DayGrams(p, d) = SumOver(v)
  BY <1>2, <1>3 DEF DayGrams
<1>5. SumOver(v) = Total(v, D)
  BY <1>3, SumOverIs
<1>6. ASSUME NEW s \in D PROVE v[s] = t[s]
  <2>1. PICK J, h : J = ItemsBySlot(p, s) /\ h = [i \in J |-> FoodGramsAtMeal(p, i)]
    OBVIOUS
  <2>2. v[s] = SumOver(h)
    BY <1>3, <2>1
  <2>3. J = {i \in Rows(p) : s \in p.items[i].at} /\ IsFiniteSet(J)
    BY <2>1, FS_Subset DEF ItemsBySlot
  <2>4. SumOver(h) = Total(h, J)
    BY <2>1, SumOverIs
  <2>5. \A i \in J : h[i] = g[i]
    BY <2>1, <2>3
  <2>6. Total(h, J) = Total(g, J)
    BY <2>3, <2>5, TotalSame
  <2>7. t[s] = Total(g, J)
    BY <1>2, <2>3
  <2> QED BY <2>2, <2>4, <2>6, <2>7
<1>7. Total(v, D) = Total(t, D)
  BY <1>2, <1>6, TotalSame
<1> QED BY <1>1, <1>4, <1>5, <1>7

\* The tables of a plan come to all that is carried: what is at some meal is in the
\* table of each, whole or in shares, and the rest is in the table below the days.
LEMMA TablesAddUp ==
  ASSUME TablesAssumption, NEW p, PlanOk(p), IsFiniteSet(Rows(p))
  PROVE  SumOver([d \in 1 .. DayCount(p) |-> DayGrams(p, d)])
           + SumOver([i \in Unscheduled(p) |-> FoodGramsAtMeal(p, i)]) = FoodGramsFor(p)
<1>1. PICK I, S, n, U : I = Rows(p) /\ S = p.slots /\ n = DayCount(p) /\ U = Unscheduled(p)
  OBVIOUS
<1>2. PICK g, at, w : /\ g = [i \in I |-> FoodGramsAtMeal(p, i)]
                      /\ at = [i \in I |-> p.items[i].at]
                      /\ w = [i \in I |-> Parts * p.items[i].amount * FoodUnitCount(p, i)]
  OBVIOUS
<1>3. PICK u, t : /\ u = [i \in I |-> Cardinality(at[i]) * g[i]]
                  /\ t = [s \in S |-> Total(g, {i \in I : s \in at[i]})]
  OBVIOUS
<1>4. ASSUME NEW i \in I
      PROVE  /\ g[i] \in Nat /\ w[i] \in Nat /\ IsFiniteSet(at[i]) /\ at[i] \subseteq S
             /\ Cardinality(at[i]) \in Nat
             /\ w[i] = IF at[i] = {} THEN g[i] ELSE Cardinality(at[i]) * g[i]
  <2>1. PICK a, h, k : /\ a = p.items[i].at /\ h = FoodGramsAtMeal(p, i)
                       /\ k = Parts * p.items[i].amount * FoodUnitCount(p, i)
    OBVIOUS
  <2>2. i \in Rows(p)
    BY <1>1
  <2>3. /\ h \in Nat /\ k \in Nat /\ IsFiniteSet(a) /\ a \subseteq p.slots /\ Cardinality(a) \in Nat
        /\ k = IF a = {} THEN h ELSE Cardinality(a) * h
    BY <2>1, <2>2, SharesWhole
  <2>4. g[i] = h /\ at[i] = a /\ w[i] = k
    BY <1>2, <2>1
  <2> QED BY <1>1, <2>3, <2>4
<1>5. IsFiniteSet(I) /\ IsFiniteSet(S) /\ U \subseteq I /\ IsFiniteSet(U) /\ IsFiniteSet(I \ U)
  BY <1>1, SlotsCounted, FS_Subset DEF Unscheduled
<1>6. \A i \in I : i \in U <=> at[i] = {}
  BY <1>1, <1>2 DEF Unscheduled
<1>7. Total(t, S) = Total(u, I)
  <2>1. /\ \A i \in I : at[i] \subseteq S
        /\ \A i \in I : g[i] \in Nat
        /\ ByPlace(t, g, at, I, S) /\ ByThing(u, g, at, I)
    BY <1>3, <1>4 DEF ByPlace, ByThing
  <2> QED BY <1>5, <2>1, TotalExchanged
<1>8. n \in Nat /\ \A s \in S : s.day \in 1 .. n
  <2>1. S \subseteq Slot
    BY <1>1 DEF PlanOk
  <2>2. \A s \in S : s.day \in 1 .. DayCap
    BY <2>1 DEF Slot
  <2>3. n \in Nat /\ \A s \in S : s.day <= n
    BY <1>1, <2>1, CountBounds
  <2> QED BY <2>2, <2>3, FoodAssumption
<1>9. PICK D, e : D = 1 .. n /\ e = [d \in D |-> DayGrams(p, d)]
  OBVIOUS
<1>10. IsFiniteSet(D)
  BY <1>8, <1>9, FS_Interval
<1>11. Total(t, S) = Total(e, D)
  <2>1. PICK of : of = [s \in S |-> s.day]
    OBVIOUS
  <2>2. t = [s \in p.slots |-> Total(g, {i \in Rows(p) : s \in p.items[i].at})]
    <3>1. ASSUME NEW s \in S
          PROVE {i \in I : s \in at[i]} = {i \in Rows(p) : s \in p.items[i].at}
      BY <1>1, <1>2
    <3> QED BY <1>1, <1>3, <3>1
  <2>3. ASSUME NEW d \in D PROVE e[d] = Total(t, {s \in S : of[s] = d})
    <3>1. DayGrams(p, d) = Total(t, {s \in p.slots : s.day = d})
      BY <1>1, <1>2, <2>2, DayTotal
    <3>2. {s \in p.slots : s.day = d} = {s \in S : of[s] = d}
      BY <1>1, <2>1
    <3> QED BY <1>9, <3>1, <3>2
  <2>4. \A s \in S : t[s] \in Nat
    <3> SUFFICES ASSUME NEW s \in S PROVE t[s] \in Nat
      OBVIOUS
    <3>1. PICK J : J = {i \in I : s \in at[i]}
      OBVIOUS
    <3>2. IsFiniteSet(J) /\ \A i \in J : g[i] \in Nat
      BY <1>4, <1>5, <3>1, FS_Subset
    <3> QED BY <1>3, <3>1, <3>2, TotalWhole
  <2>5. \A s \in S : of[s] \in D
    BY <1>8, <1>9, <2>1
  <2>6. ByGroup(e, t, of, S, D)
    BY <2>3 DEF ByGroup
  <2> QED BY <1>5, <1>10, <2>4, <2>5, <2>6, TotalByGroup
<1>12. SumOver([d \in 1 .. DayCount(p) |-> DayGrams(p, d)]) = Total(e, D)
  BY <1>1, <1>9, SumOverIs
<1>13. SumOver([i \in Unscheduled(p) |-> FoodGramsAtMeal(p, i)]) = Total(w, U)
  <2>1. PICK h : h = [i \in U |-> FoodGramsAtMeal(p, i)]
    OBVIOUS
  <2>2. SumOver(h) = Total(h, U)
    BY <2>1, SumOverIs
  <2>3. \A i \in U : h[i] = w[i]
    BY <1>2, <1>4, <1>5, <1>6, <2>1
  <2>4. Total(h, U) = Total(w, U)
    BY <1>5, <2>3, TotalSame
  <2> QED BY <1>1, <2>1, <2>2, <2>4
<1>14. FoodGramsFor(p) = Total(w, I)
  BY <1>1, <1>2, SumOverIs DEF FoodGramsFor
<1>15. Total(u, I) = Total(w, I \ U)
  <2>1. \A i \in I : u[i] \in Nat /\ (i \in U => u[i] = 0) /\ (i \notin U => u[i] = w[i])
    <3> SUFFICES ASSUME NEW i \in I
                 PROVE u[i] \in Nat /\ (i \in U => u[i] = 0) /\ (i \notin U => u[i] = w[i])
      OBVIOUS
    <3>1. PICK c, h : c = Cardinality(at[i]) /\ h = g[i]
      OBVIOUS
    <3>2. c \in Nat /\ h \in Nat /\ u[i] = c * h /\ c * h \in Nat
      BY <1>3, <1>4, <3>1
    <3>3. CASE i \in U
      <4>1. c = 0
        BY <1>6, <3>1, <3>3, FS_EmptySet
      <4> QED BY <3>2, <3>3, <4>1
    <3>4. CASE i \notin U
      BY <1>4, <1>6, <3>1, <3>2, <3>4
    <3> QED BY <3>3, <3>4
  <2>2. Total(u, I) = Total(u, I \ U)
    <3>1. \A x \in I : u[x] \in Nat
      BY <2>1
    <3>2. I \ U \subseteq I /\ \A x \in I \ (I \ U) : u[x] = 0
      BY <2>1
    <3> QED BY <1>5, <3>1, <3>2, TotalDrops
  <2>3. Total(u, I \ U) = Total(w, I \ U)
    <3>1. \A x \in I \ U : u[x] = w[x]
      BY <2>1
    <3> QED BY <1>5, <3>1, TotalSame
  <2> QED BY <2>2, <2>3
<1>16. Total(w, I) = Total(w, I \ U) + Total(w, U)
  <2>1. PICK K : K = I \ U
    OBVIOUS
  <2>2. IsFiniteSet(K) /\ K \cap U = {} /\ I = K \cup U /\ \A x \in K \cup U : w[x] \in Nat
    BY <1>4, <1>5, <2>1
  <2>3. Total(w, K \cup U) = Total(w, K) + Total(w, U)
    BY <1>5, <2>2, TotalJoins
  <2> QED BY <2>1, <2>2, <2>3
<1> QED BY <1>7, <1>11, <1>12, <1>13, <1>14, <1>15, <1>16

\* "The days plus the Not-scheduled table add up to foodGramsFor" (lists/FoodView.tsx,
\* lib/weight-breakdown.ts), whatever plan the page holds.
LEMMA DaysAdding == FoodInv => DaysAddUp
<1> SUFFICES ASSUME FoodInv PROVE DaysAddUp
  OBVIOUS
<1>1. PlanOk(foodPage) /\ IsFiniteSet(Rows(foodPage))
  BY DEF FoodInv, PlansInv, PlanOk
<1> QED BY <1>1, TablesAssumption, TablesAddUp DEF DaysAddUp

-----------------------------------------------------------------------------
(* What is drawn of a list                                                 *)

\* "A row must never vanish because its bag did", "Renderer and reorder planner MUST agree"
\* (packing-tree.ts, PackDocument.tsx, packing-dnd.ts) and "The days plus the Not-scheduled
\* table add up to foodGramsFor" (FoodView.tsx): after any drags, moves, deletions and
\* reads, failed or not, the page draws the whole list, once.
THEOREM ListDrawing == FoodSpec /\ DragSpec => []DrawnAddsUp
<1>1. FoodInv /\ DragInv /\ RanksInv => DrawnAddsUp
  BY DaysAdding, PackDrawing DEF DrawnAddsUp, DragInv, RanksInv
<1> QED BY <1>1, FoodInvariant, RanksInvariant, PTL

-----------------------------------------------------------------------------
(* Editors and removals                                                    *)

SavedAt == {s.at : s \in saves}

\* A dialog that has a save out is the frozen editor that it was submitted from;
\* and what a confirm would restore has none.
SavesInv ==
  /\ SavedAt \subseteq PanelId
  /\ \A s, u \in saves : s.at = u.at => s = u
  /\ savingId # 0 => savingId \in SavedAt
  /\ panel.id \in SavedAt => panel.kind \in Editors /\ savingId = panel.id
  /\ panel.kind \in Editors => panel.id # 0
  /\ panel.back \notin SavedAt
  /\ \A c \in checks : c.back \notin SavedAt

\* The containers this page is making.
Making == {w.row : w \in Out("promote")}

\* The locations cache knows every container but those this page asked to make or to
\* undo and those another device made; a read that has been answered misses none but
\* those being made and those another device made.
KnownInv ==
  /\ rows \subseteq Row /\ holds \subseteq Row
  /\ believed = Unread \/ believed \subseteq Row
  /\ holds \subseteq believed \cup asked \cup foreign
  /\ lookup.stage = "read" =>
       lookup.seen \subseteq Row /\ holds \subseteq lookup.seen \cup foreign \cup Making
  /\ AskedFirst

\* What a write of the cache would put back knows as much as the cache; and while one
\* is out the cache has been read.
OutInv ==
  \A w \in OnCache :
    /\ w.was \subseteq Row /\ holds \subseteq w.was \cup asked \cup foreign
    /\ w.kind = "promote" => w.row \in asked
    /\ believed \subseteq Row

EditorsInv == SavesInv /\ KnownInv /\ OutInv

\* A fresh identity is of no dialog that anything refers to.
LEMMA FreshPanelId ==
  ASSUME CanOpen
  PROVE  /\ FreshId \in PanelId /\ FreshId # 0 /\ FreshId # panel.id /\ FreshId # savingId
         /\ FreshId # panel.back /\ FreshId \notin SavedAt
         /\ \A c \in checks : FreshId # c.back
<1>1. FreshId \in PanelId /\ FreshId \notin Referred
  BY DEF CanOpen, FreshId
<1> QED
  BY <1>1, EditorsAssumption DEF Referred, SavedAt

\* A dialog that opens has no save out, and neither has what it would restore.
LEMMA PanelOpens ==
  ASSUME SavesInv, CanOpen, NEW k, NEW r, NEW b, b \notin SavedAt, panel' = NewPanel(k, r, b),
         UNCHANGED <<savingId, saves>>, checks' \subseteq checks
  PROVE  SavesInv'
<1>1. panel'.id = FreshId /\ panel'.kind = k /\ panel'.back = b
  BY DEF NewPanel
<1>2. FreshId # 0 /\ FreshId \notin SavedAt
  BY FreshPanelId
<1>3. saves' = saves /\ savingId' = savingId /\ SavedAt' = SavedAt
  BY DEF SavedAt
<1> QED
  BY <1>1, <1>2, <1>3 DEF SavesInv

\* No save is out for a dialog that is closed, or that is restored.
LEMMA PanelCloses ==
  ASSUME SavesInv, panel' \in {panel, NoPanel, Restored(panel)},
         UNCHANGED <<savingId, saves>>,
         \A c \in checks' : c.back \notin SavedAt
  PROVE  SavesInv'
<1>1. saves' = saves /\ savingId' = savingId /\ SavedAt' = SavedAt
  BY DEF SavedAt
<1>2. 0 \notin SavedAt
  BY EditorsAssumption DEF SavesInv
<1>3. CASE panel' = panel
  BY <1>1, <1>3 DEF SavesInv
<1>4. CASE panel' = NoPanel
  BY <1>1, <1>2, <1>4 DEF SavesInv, NoPanel, Editors
<1>5. CASE panel' = Restored(panel) /\ panel' # NoPanel
  <2>1. /\ panel'.id = panel.back /\ panel'.kind = "edit-gear" /\ panel'.back = 0
        /\ panel.back # 0
    BY <1>5 DEF Restored
  <2> QED
    BY <1>1, <1>2, <2>1 DEF SavesInv
<1> QED
  BY <1>3, <1>4, <1>5

\* The save that goes out freezes the form it carries.
LEMMA SaveEditorStep == EditorsInv /\ SaveEditor => SavesInv'
<1> SUFFICES ASSUME SavesInv, SaveEditor PROVE SavesInv'
  BY DEF EditorsInv
<1>1. PICK a, s : /\ a = [panel EXCEPT !.id = FreshId, !.told = ""]
                  /\ s = [at |-> a.id, row |-> panel.row, stage |-> "gear"]
  OBVIOUS
<1>2. /\ panel' = a /\ savingId' = a.id /\ saves' = saves \cup {s} /\ checks' = checks
      /\ panel.kind \in Editors
  BY <1>1 DEF SaveEditor, removalVars
<1>3. a.id = FreshId /\ a.kind = panel.kind /\ a.back = panel.back /\ s.at = FreshId
  BY <1>1
<1>4. FreshId \in PanelId /\ FreshId # 0 /\ FreshId \notin SavedAt /\ FreshId # panel.back
      /\ \A c \in checks : FreshId # c.back
  BY FreshPanelId DEF SaveEditor
<1>5. SavedAt' = SavedAt \cup {FreshId}
  BY <1>2, <1>3 DEF SavedAt
<1>6. \A t, u \in saves' : t.at = u.at => t = u
  BY <1>2, <1>3, <1>4 DEF SavesInv, SavedAt
<1>7. panel'.id = FreshId /\ panel'.kind \in Editors /\ panel'.back = panel.back
      /\ savingId' = FreshId
  BY <1>2, <1>3
<1> QED
  BY <1>2, <1>4, <1>5, <1>6, <1>7 DEF SavesInv

\* The first of two writes is answered: its save is still out.
LEMMA GearSavedStep == \A s \in saves : EditorsInv /\ GearSaved(s) => SavesInv'
<1> SUFFICES ASSUME NEW s \in saves, SavesInv, GearSaved(s) PROVE SavesInv'
  BY DEF EditorsInv
<1>1. PICK n : n = [s EXCEPT !.stage = "list"]
  OBVIOUS
<1>2. /\ saves' = (saves \ {s}) \cup {n} /\ n.at = s.at
      /\ UNCHANGED <<panel, savingId, checks>>
  BY <1>1 DEF GearSaved, removalVars
<1>3. SavedAt' = SavedAt
  BY <1>2 DEF SavedAt
<1>4. \A t, u \in saves' : t.at = u.at => t = u
  BY <1>2 DEF SavesInv
<1> QED
  BY <1>2, <1>3, <1>4 DEF SavesInv

\* An answer thaws the form that was submitted and no other, and what it opens has
\* no save out.
LEMMA SaveAnsweredStep ==
  \A s \in saves : EditorsInv /\ (FormSaved(s) \/ SaveFailed(s)) => SavesInv'
<1> SUFFICES ASSUME NEW s \in saves, SavesInv, FormSaved(s) \/ SaveFailed(s) PROVE SavesInv'
  BY DEF EditorsInv
<1>1. saves' = saves \ {s} /\ checks' = checks
  BY DEF FormSaved, SaveFailed, removalVars
<1>2. SavedAt' = SavedAt \ {s.at} /\ s.at \in SavedAt /\ s.at # 0
  BY <1>1, EditorsAssumption DEF SavedAt, SavesInv
<1>3. savingId' = IF savingId = s.at THEN 0 ELSE savingId
  BY DEF FormSaved, SaveFailed, Thawed
<1>4. \A t, u \in saves' : t.at = u.at => t = u
  BY <1>1 DEF SavesInv
<1>5. savingId' # 0 => savingId' \in SavedAt'
  BY <1>2, <1>3 DEF SavesInv
<1>6. CASE panel.id # s.at
  <2>1. panel' = panel
    BY <1>6 DEF FormSaved, SaveFailed, SettleSave
  <2> QED
    BY <1>1, <1>2, <1>3, <1>4, <1>5, <1>6, <2>1 DEF SavesInv
<1>7. CASE panel.id = s.at /\ FormSaved(s)
  <2>1. panel' = NoPanel
    BY <1>7 DEF FormSaved, SettleSave
  <2>2. panel'.id = 0 /\ panel'.back = 0 /\ panel'.kind \notin Editors
    BY <2>1 DEF NoPanel, Editors
  <2>3. 0 \notin SavedAt
    BY EditorsAssumption DEF SavesInv
  <2> QED
    BY <1>1, <1>2, <1>4, <1>5, <2>2, <2>3 DEF SavesInv
<1>8. CASE panel.id = s.at /\ SaveFailed(s)
  <2>1. PICK e : e = [panel EXCEPT !.id = FreshId, !.told = s.stage]
    OBVIOUS
  <2>2. panel' = e
    BY <1>8, <2>1 DEF SaveFailed, SettleSave
  <2>3. panel'.id = FreshId /\ panel'.kind = panel.kind /\ panel'.back = panel.back
    BY <2>1, <2>2
  <2>4. FreshId # 0 /\ FreshId \notin SavedAt
    BY <1>8, FreshPanelId DEF SaveFailed
  <2> QED
    BY <1>1, <1>2, <1>4, <1>5, <2>3, <2>4 DEF SavesInv
<1> QED
  BY <1>6, <1>7, <1>8

\* What is decided of the removals that wait opens a confirm, or leaves the page be.
LEMMA DecidedPanel ==
  ASSUME SavesInv, CanOpen, NEW waiting, NEW plain, NEW page \in {panel, NoPanel}, NEW others,
         Decide(waiting, plain, page, others),
         \A c \in waiting : c.back \notin SavedAt,
         UNCHANGED <<savingId, saves>>, checks' \subseteq checks
  PROVE  SavesInv'
<1>1. \/ panel' = page
      \/ \E c \in waiting : panel' = NewPanel("remove-container-item", c.row, c.back)
  BY DEF Decide
<1>2. \A c \in checks' : c.back \notin SavedAt
  BY DEF SavesInv
<1>3. CASE panel' = page
  BY <1>2, <1>3, PanelCloses
<1>4. ASSUME NEW c \in waiting, panel' = NewPanel("remove-container-item", c.row, c.back)
      PROVE  SavesInv'
  BY <1>4, PanelOpens
<1> QED
  BY <1>1, <1>3, <1>4

\* A removal is asked for from a row, or from an editor with no save out.
LEMMA RequestPanel ==
  ASSUME EditorsInv, NEW r, Request(r), panel.id \notin SavedAt
  PROVE  SavesInv'
<1>1. /\ SavesInv /\ CanOpen /\ UNCHANGED <<savingId, saves>>
  BY DEF EditorsInv, Request
<1>2. PICK c : c = [row |-> r, back |-> panel.id]
  OBVIOUS
<1>3. SavedAt' = SavedAt /\ c.back \notin SavedAt
  BY <1>1, <1>2 DEF SavedAt
<1>4. CASE checks' = checks /\ panel' = NoPanel
  BY <1>1, <1>4, PanelCloses DEF SavesInv
<1>5. CASE NotChecking(r) /\ fresh
  <2>1. Decide({c}, Row \ believed, NoPanel, {}) /\ checks' = checks
    BY <1>2, <1>5 DEF Request, Preflight
  <2> QED
    BY <1>1, <1>3, <2>1, DecidedPanel
<1>6. CASE NotChecking(r) /\ ~ fresh
  <2>1. panel' = NoPanel /\ checks' = checks \cup {c}
    BY <1>2, <1>6 DEF Request, Preflight
  <2>2. \A d \in checks' : d.back \notin SavedAt
    BY <1>1, <1>3, <2>1 DEF SavesInv
  <2> QED
    BY <1>1, <2>1, <2>2, PanelCloses
<1> QED
  BY <1>4, <1>5, <1>6 DEF Request

\* Every step keeps what is known of saves.
LEMMA SavesKeep == EditorsInv /\ [EditorsNext]_editorVars => SavesInv'
<1> SUFFICES ASSUME EditorsInv, SavesInv, [EditorsNext]_editorVars PROVE SavesInv'
  BY DEF EditorsInv
<1>1. 0 \notin SavedAt
  BY EditorsAssumption DEF SavesInv
<1>2. ~ Saving /\ panel.kind \in Editors => panel.id \notin SavedAt
  BY DEF Saving, SavesInv
<1>3. CASE \/ \E r \in Row, k \in Editors : OpenEditor(r, k)
           \/ MoreDetails \/ ToDeleteGear
           \/ \E r \in Row : AskDemote(r)
  <2>1. PICK k, r, b : /\ panel' = NewPanel(k, r, b) /\ (b = 0 \/ (b = panel.id /\ ~ Saving))
                       /\ CanOpen /\ (b = 0 \/ panel.kind \in Editors)
    <3>1. CASE \E r \in Row, k \in Editors : OpenEditor(r, k)
      BY <3>1 DEF OpenEditor
    <3>2. CASE MoreDetails
      BY <3>2 DEF MoreDetails
    <3>3. CASE ToDeleteGear
      BY <3>3 DEF ToDeleteGear, Editors
    <3>4. CASE \E r \in Row : AskDemote(r)
      BY <3>4 DEF AskDemote
    <3> QED
      BY <1>3, <3>1, <3>2, <3>3, <3>4
  <2>2. b \notin SavedAt
    BY <1>1, <1>2, <2>1
  <2>3. UNCHANGED <<savingId, saves, checks>>
    BY <1>3 DEF OpenEditor, MoreDetails, ToDeleteGear, AskDemote, removalVars
  <2> QED
    BY <2>1, <2>2, <2>3, PanelOpens
<1>4. CASE \/ TypeField \/ ClosePanel \/ ConfirmRemove \/ ConfirmDeleteGear \/ CancelConfirm
           \/ LookupRead \/ GoStale \/ UNCHANGED editorVars
           \/ \E w \in writes : \/ ServeRowRemove(w) \/ SettleRemove(w)
                                \/ ServeOnCache(w) \/ SettleOnCache(w)
           \/ \E r \in Row : MadeElsewhere(r)
  <2>1. UNCHANGED <<savingId, saves, checks>>
    BY <1>4 DEF TypeField, ClosePanel, ConfirmRemove, ConfirmDeleteGear, CancelConfirm, LookupRead,
       GoStale, ServeRowRemove, SettleRemove, ServeOnCache, SettleOnCache, MadeElsewhere,
       editorVars, removalVars, panelVars
  <2>2. panel' \in {panel, NoPanel, Restored(panel)}
    BY <1>4 DEF TypeField, ClosePanel, ConfirmRemove, ConfirmDeleteGear, CancelConfirm, LookupRead,
       GoStale, ServeRowRemove, SettleRemove, ServeOnCache, SettleOnCache, MadeElsewhere,
       editorVars, removalVars, panelVars
  <2> QED
    BY <2>1, <2>2, PanelCloses DEF SavesInv
<1>5. CASE \E r \in Row : RequestFromRow(r)
  <2>1. PICK r \in Row : Request(r) /\ panel = NoPanel
    BY <1>5 DEF RequestFromRow
  <2> QED
    BY <1>1, <2>1, RequestPanel DEF NoPanel
<1>6. CASE RequestFromEditor
  <2>1. Request(panel.row) /\ ~ Saving /\ panel.kind \in Editors
    BY <1>6 DEF RequestFromEditor, Editors
  <2> QED
    BY <1>2, <2>1, RequestPanel
<1>7. CASE LookupDone \/ LookupFailed
  <2>1. CanOpen /\ UNCHANGED <<savingId, saves>> /\ checks' = {}
    BY <1>7 DEF LookupDone, LookupFailed
  <2>2. PICK plain : Decide(checks, plain, panel, {})
    BY <1>7 DEF LookupDone, LookupFailed
  <2> QED
    BY <2>1, <2>2, DecidedPanel DEF SavesInv
<1>8. CASE (\E r \in Row : Promote(r)) \/ ConfirmDemote \/ RenameLocation
  <2>1. PICK page \in {panel, NoPanel} : \E k, r : LocalWrite(k, r, page)
    <3>1. CASE \E r \in Row : Promote(r)
      BY <3>1 DEF Promote
    <3>2. CASE ConfirmDemote
      BY <3>2 DEF ConfirmDemote
    <3>3. CASE RenameLocation
      BY <3>3 DEF RenameLocation
    <3> QED
      BY <1>8, <3>1, <3>2, <3>3
  <2>2. CanOpen /\ UNCHANGED <<savingId, saves>> /\ checks' = {}
    BY <2>1 DEF LocalWrite
  <2>3. PICK plain, others : Decide(checks, plain, page, others)
    BY <2>1 DEF LocalWrite
  <2> QED
    BY <2>2, <2>3, DecidedPanel DEF SavesInv
<1>9. CASE SaveEditor \/ \E s \in saves : GearSaved(s) \/ FormSaved(s) \/ SaveFailed(s)
  BY <1>9, SaveEditorStep, GearSavedStep, SaveAnsweredStep
<1> QED
  BY <1>3, <1>4, <1>5, <1>6, <1>7, <1>8, <1>9 DEF EditorsNext

\* A removal that goes out leaves the writes of the cache as they are.
LEMMA RemovedWrites ==
  ASSUME NEW rs, NEW others, RemoveRows(rs, others),
         \A w \in others : w.kind \in {"promote", "demote", "rename"}
  PROVE  OnCache' = OnCache \cup others /\ Making \subseteq Making'
<1>1. \A w \in writes' : w \in writes \/ w \in others \/ w.kind = "remove"
  BY DEF RemoveRows
<1>2. writes \subseteq writes' /\ others \subseteq writes'
  BY DEF RemoveRows
<1> QED
  BY <1>1, <1>2 DEF OnCache, Structural, Out, Making

\* So does whatever is decided of the removals that wait.
LEMMA DecidedWrites ==
  ASSUME NEW waiting, NEW plain, NEW page, NEW others, Decide(waiting, plain, page, others),
         \A w \in others : w.kind \in {"promote", "demote", "rename"}
  PROVE  OnCache' = OnCache \cup others /\ Making \subseteq Making'
<1>1. PICK rs : RemoveRows(rs, others)
  BY DEF Decide
<1> QED
  BY <1>1, RemovedWrites

\* A step that sends no write of the cache, and changes nothing in it, leaves what its
\* writes would put back.
LEMMA OutStays ==
  ASSUME OutInv, OnCache' \subseteq OnCache, believed' = believed,
         holds' \subseteq holds, asked \subseteq asked', foreign \subseteq foreign'
  PROVE  OutInv'
<1> SUFFICES ASSUME NEW w \in OnCache'
             PROVE  /\ w.was \subseteq Row /\ holds' \subseteq w.was \cup asked' \cup foreign'
                    /\ w.kind = "promote" => w.row \in asked'
                    /\ believed' \subseteq Row
  BY DEF OutInv
<1>1. w \in OnCache
  OBVIOUS
<1> QED
  BY <1>1 DEF OutInv

\* What is decided by what knows every container but the excused takes none unasked.
LEMMA NothingBlind ==
  ASSUME NEW told, NEW excused, holds \subseteq told \cup excused, NEW waiting
  PROVE  Surprised(waiting, Row \ told, excused) = {}
BY DEF Surprised

\* A removal that is decided, or that waits.
LEMMA RequestKnown ==
  ASSUME EditorsInv, NEW r, Request(r)
  PROVE  KnownInv' /\ OutInv'
<1>1. KnownInv /\ OutInv /\ UNCHANGED <<rows, holds, believed, asked, foreign>>
  BY DEF EditorsInv, Request, unshown
<1>2. PICK c : c = [row |-> r, back |-> panel.id]
  OBVIOUS
<1>3. CASE ~ NotChecking(r)
  <2>1. lookup' = lookup /\ writes' = writes /\ blind' = blind
    BY <1>3 DEF Request
  <2>2. OnCache' = OnCache /\ Making' = Making
    BY <2>1 DEF OnCache, Structural, Out, Making
  <2> QED
    BY <1>1, <2>1, <2>2, OutStays DEF KnownInv, AskedFirst, Unread
<1>4. CASE NotChecking(r) /\ fresh
  <2>1. /\ Decide({c}, Row \ believed, NoPanel, {}) /\ lookup' = lookup
        /\ blind' = blind \cup Surprised({c}, Row \ believed, asked \cup foreign)
    BY <1>2, <1>4 DEF Request, Preflight
  <2>2. Surprised({c}, Row \ believed, asked \cup foreign) = {}
    BY <1>1, NothingBlind DEF KnownInv
  <2>3. OnCache' = OnCache /\ Making \subseteq Making'
    <3>1. PICK rs : RemoveRows(rs, {})
      BY <2>1 DEF Decide
    <3> QED
      BY <3>1, RemovedWrites
  <2> QED
    BY <1>1, <2>1, <2>2, <2>3, OutStays DEF KnownInv, AskedFirst, Unread
<1>5. CASE NotChecking(r) /\ ~ fresh
  <2>1. /\ writes' = writes /\ blind' = blind
        /\ lookup' = IF lookup = NoLookup THEN LookupAsked ELSE lookup
    BY <1>2, <1>5 DEF Request, Preflight
  <2>2. OnCache' = OnCache /\ Making' = Making
    BY <2>1 DEF OnCache, Structural, Out, Making
  <2> QED
    BY <1>1, <2>1, <2>2, OutStays DEF KnownInv, AskedFirst, LookupAsked, Unread
<1> QED
  BY <1>3, <1>4, <1>5

\* Every read of the locations that begins, ends or fails.
LEMMA LookupKnown ==
  ASSUME EditorsInv, LookupRead \/ LookupDone \/ LookupFailed
  PROVE  KnownInv' /\ OutInv'
<1>1. KnownInv /\ OutInv
  BY DEF EditorsInv
<1>2. CASE LookupRead
  <2>1. /\ lookup' = [stage |-> "read", seen |-> holds]
        /\ UNCHANGED <<rows, holds, believed, asked, foreign, blind, writes>>
    BY <1>2 DEF LookupRead, unshown
  <2>2. OnCache' = OnCache
    BY <2>1 DEF OnCache, Structural, Out
  <2>3. KnownInv'
    BY <1>1, <2>1 DEF KnownInv, AskedFirst, Unread
  <2> QED
    BY <1>1, <2>1, <2>2, <2>3, OutStays
<1>3. CASE LookupDone
  <2>1. /\ Decide(checks, Row \ lookup.seen, panel, {}) /\ lookup' = NoLookup
        /\ blind' = blind \cup Surprised(checks, Row \ lookup.seen, asked \cup (foreign \ lookup.seen))
        /\ believed' = lookup.seen /\ UNCHANGED <<rows, holds>> /\ lookup.stage = "read"
    BY <1>3 DEF LookupDone
  <2>2. IF OnCache = {} THEN asked' = {} /\ foreign' = foreign \ lookup.seen
        ELSE asked' = asked /\ foreign' = foreign
    BY <1>3 DEF LookupDone, unshown
  <2>3. OnCache' = OnCache
    BY <2>1, DecidedWrites
  <2>4. Making \subseteq asked /\ (OnCache = {} => Making = {})
    <3>1. \A w \in Out("promote") : w \in OnCache /\ w.kind = "promote"
      BY DEF OnCache, Structural, Out
    <3>2. \A w \in Out("promote") : w.row \in asked
      BY <1>1, <3>1 DEF OutInv
    <3> QED
      BY <3>1, <3>2 DEF Making
  <2>5. lookup.seen \subseteq Row /\ holds \subseteq lookup.seen \cup foreign \cup Making
    BY <1>1, <2>1 DEF KnownInv
  <2>6. holds \subseteq lookup.seen \cup (asked \cup (foreign \ lookup.seen))
    BY <2>4, <2>5
  <2>7. Surprised(checks, Row \ lookup.seen, asked \cup (foreign \ lookup.seen)) = {}
    BY <2>6, NothingBlind
  <2>8. holds' \subseteq believed' \cup asked' \cup foreign'
    BY <2>1, <2>2, <2>4, <2>5, <2>6
  <2>9. KnownInv'
    BY <1>1, <2>1, <2>5, <2>7, <2>8 DEF KnownInv, AskedFirst, NoLookup
  <2>10. ASSUME NEW w \in OnCache'
         PROVE  /\ w.was \subseteq Row /\ holds' \subseteq w.was \cup asked' \cup foreign'
                /\ w.kind = "promote" => w.row \in asked'
                /\ believed' \subseteq Row
    BY <1>1, <2>1, <2>2, <2>3, <2>5, <2>10 DEF OutInv
  <2> QED
    BY <2>9, <2>10 DEF OutInv
<1>4. CASE LookupFailed
  <2>1. /\ Decide(checks, {}, panel, {}) /\ lookup' = NoLookup
        /\ UNCHANGED <<rows, holds, believed, asked, foreign, blind>>
    BY <1>4 DEF LookupFailed, unshown
  <2>2. OnCache' = OnCache
    BY <2>1, DecidedWrites
  <2> QED
    BY <1>1, <2>1, <2>2, OutStays DEF KnownInv, AskedFirst, NoLookup, Unread
<1> QED
  BY <1>2, <1>3, <1>4

\* A write of the cache, which decides the removals that wait by what it found.
LEMMA LocalKnown ==
  ASSUME EditorsInv, NEW k \in {"promote", "demote", "rename"}, NEW r, NEW page,
         k = "promote" => r \in Row, LocalWrite(k, r, page)
  PROVE  KnownInv' /\ OutInv'
<1>1. KnownInv /\ OutInv
  BY DEF EditorsInv
<1>2. PICK n : n = [kind |-> k, row |-> r, done |-> FALSE, was |-> believed]
  OBVIOUS
<1>3. n.kind = k /\ n.row = r /\ n.was = believed
  BY <1>2
<1>4. /\ Decide(checks, Row \ believed, page, {n}) /\ lookup' = NoLookup
      /\ blind' = blind \cup Surprised(checks, Row \ believed, asked \cup foreign)
      /\ UNCHANGED <<rows, holds, foreign>> /\ believed # Unread
  BY <1>2 DEF LocalWrite
<1>5. /\ asked' = IF k = "rename" THEN asked ELSE asked \cup {r}
      /\ believed' = CASE k = "promote" -> believed \cup {r}
                       [] k = "demote"  -> believed \ {r}
                       [] k = "rename"  -> believed
  BY DEF LocalWrite
<1>6. believed \subseteq Row /\ believed' \subseteq Row /\ asked \subseteq asked'
      /\ (k = "promote" => r \in asked') /\ believed \subseteq believed' \cup asked'
  BY <1>1, <1>4, <1>5 DEF KnownInv
<1>7. holds \subseteq believed \cup asked \cup foreign
  BY <1>1 DEF KnownInv
<1>8. Surprised(checks, Row \ believed, asked \cup foreign) = {}
  BY <1>7, NothingBlind
<1>9. OnCache' = OnCache \cup {n}
  BY <1>3, <1>4, DecidedWrites
<1>10. KnownInv'
  <2>1. holds' \subseteq believed' \cup asked' \cup foreign'
    BY <1>4, <1>6, <1>7
  <2> QED
    BY <1>1, <1>4, <1>6, <1>8, <2>1 DEF KnownInv, AskedFirst, NoLookup
<1>11. ASSUME NEW w \in OnCache'
       PROVE  /\ w.was \subseteq Row /\ holds' \subseteq w.was \cup asked' \cup foreign'
              /\ w.kind = "promote" => w.row \in asked'
              /\ believed' \subseteq Row
  <2>1. CASE w = n
    BY <1>3, <1>4, <1>6, <1>7, <2>1
  <2>2. CASE w \in OnCache
    BY <1>1, <1>4, <1>6, <2>2 DEF OutInv
  <2> QED
    BY <1>9, <2>1, <2>2
<1> QED
  BY <1>10, <1>11 DEF OutInv

\* A write of the cache that is served or settles.
LEMMA CacheWriteKnown ==
  ASSUME EditorsInv, NEW w \in OnCache, ServeOnCache(w) \/ SettleOnCache(w)
  PROVE  KnownInv' /\ OutInv'
<1>1. KnownInv /\ OutInv
  BY DEF EditorsInv
<1>2. /\ w.was \subseteq Row /\ holds \subseteq w.was \cup asked \cup foreign
      /\ w.kind = "promote" => w.row \in asked
      /\ believed \subseteq Row
  BY <1>1 DEF OutInv
<1>3. CASE ServeOnCache(w)
  <2>1. PICK n : n = [w EXCEPT !.done = TRUE]
    OBVIOUS
  <2>2. n.kind = w.kind /\ n.row = w.row /\ n.was = w.was
    BY <2>1
  <2>3. /\ writes' = (writes \ {w}) \cup {n}
        /\ UNCHANGED <<rows, believed, lookup, asked, foreign, blind>>
        /\ holds' \subseteq holds \cup (Making' \cap rows \cap asked)
    <3>1. n \in writes' /\ (w.kind = "promote" => w.row \in rows)
      BY <1>3, <2>1 DEF ServeOnCache
    <3>2. w.kind = "promote" => w.row \in Making'
      BY <2>2, <3>1 DEF Making, Out
    <3>3. holds' \subseteq holds \cup (IF w.kind = "promote" THEN {w.row} ELSE {})
      BY <1>3 DEF ServeOnCache, OnCache, Structural, Out
    <3> QED
      BY <1>2, <1>3, <2>1, <3>1, <3>2, <3>3 DEF ServeOnCache, unshown
  <2>4. Making' = Making
    BY <2>2, <2>3 DEF Making, Out, ServeOnCache, OnCache, Structural
  <2>5. KnownInv'
    BY <1>1, <2>3, <2>4 DEF KnownInv, AskedFirst, Unread
  <2>6. ASSUME NEW u \in OnCache'
        PROVE  /\ u.was \subseteq Row /\ holds' \subseteq u.was \cup asked' \cup foreign'
               /\ u.kind = "promote" => u.row \in asked'
               /\ believed' \subseteq Row
    <3>1. u = n \/ u \in OnCache
      BY <2>3, <2>6 DEF OnCache, Structural, Out
    <3>2. CASE u = n
      BY <1>2, <2>2, <2>3, <3>2
    <3>3. CASE u \in OnCache
      BY <1>1, <2>3, <3>3 DEF OutInv
    <3> QED
      BY <3>1, <3>2, <3>3
  <2> QED
    BY <2>5, <2>6 DEF OutInv
<1>4. CASE SettleOnCache(w)
  <2>1. /\ writes' = writes \ {w} /\ believed' \in {believed, w.was} /\ Refetch
        /\ UNCHANGED <<rows, holds, asked, foreign, blind>>
    BY <1>4 DEF SettleOnCache, unshown
  <2>2. believed # Unread
    BY <1>2, EditorsAssumption DEF Unread
  <2>3. lookup' = LookupAsked
    BY <2>1, <2>2 DEF Refetch
  <2>4. believed' \subseteq Row /\ holds' \subseteq believed' \cup asked' \cup foreign'
    BY <1>1, <1>2, <2>1 DEF KnownInv
  <2>5. KnownInv'
    BY <1>1, <2>1, <2>3, <2>4 DEF KnownInv, AskedFirst, LookupAsked
  <2>6. ASSUME NEW u \in OnCache'
        PROVE  /\ u.was \subseteq Row /\ holds' \subseteq u.was \cup asked' \cup foreign'
               /\ u.kind = "promote" => u.row \in asked'
               /\ believed' \subseteq Row
    <3>1. u \in OnCache
      BY <2>1, <2>6 DEF OnCache, Structural, Out
    <3> QED
      BY <1>1, <2>1, <2>4, <3>1 DEF OutInv
  <2> QED
    BY <2>5, <2>6 DEF OutInv
<1> QED
  BY <1>3, <1>4

\* Every step keeps what is known of containers.
LEMMA KnownKeeps == EditorsInv /\ [EditorsNext]_editorVars => KnownInv' /\ OutInv'
<1> SUFFICES ASSUME EditorsInv, KnownInv, OutInv, [EditorsNext]_editorVars
             PROVE  KnownInv' /\ OutInv'
  BY DEF EditorsInv
<1> USE DEF AskedFirst
<1>1. CASE \/ \E r \in Row, k \in Editors : OpenEditor(r, k)
           \/ TypeField \/ ClosePanel \/ MoreDetails \/ SaveEditor \/ ToDeleteGear \/ CancelConfirm
           \/ \E s \in saves : GearSaved(s) \/ FormSaved(s) \/ SaveFailed(s)
           \/ GoStale
           \/ \E r \in Row : AskDemote(r)
           \/ UNCHANGED editorVars
  <2>1. UNCHANGED <<rows, holds, believed, asked, foreign, lookup, blind, writes>>
    BY <1>1 DEF OpenEditor, TypeField, ClosePanel, MoreDetails, SaveEditor, ToDeleteGear,
       CancelConfirm, GearSaved, FormSaved, SaveFailed, GoStale, AskDemote, editorVars,
       removalVars, unshown
  <2>2. OnCache' = OnCache /\ Making' = Making
    BY <2>1 DEF OnCache, Structural, Out, Making
  <2> QED
    BY <2>1, <2>2, OutStays DEF KnownInv, Unread
<1>2. CASE \/ \E r \in Row : RequestFromRow(r)
           \/ RequestFromEditor
  BY <1>2, RequestKnown DEF RequestFromRow, RequestFromEditor
<1>3. CASE ConfirmRemove \/ ConfirmDeleteGear
  <2>1. /\ UNCHANGED <<rows, holds, believed, asked, foreign, lookup, blind>>
        /\ RemoveRows({panel.row}, {})
    BY <1>3 DEF ConfirmRemove, ConfirmDeleteGear, unshown
  <2>2. OnCache' = OnCache /\ Making \subseteq Making'
    BY <2>1, RemovedWrites
  <2> QED
    BY <2>1, <2>2, OutStays DEF KnownInv, Unread
<1>4. CASE \E w \in writes : ServeRowRemove(w)
  <2>1. PICK w \in writes : ServeRowRemove(w)
    BY <1>4
  <2>2. PICK n : n = [w EXCEPT !.done = TRUE]
    OBVIOUS
  <2>3. /\ writes' = (writes \ {w}) \cup {n} /\ w.kind = "remove" /\ n.kind = w.kind
        /\ holds' \subseteq holds /\ rows' \subseteq rows
        /\ UNCHANGED <<believed, asked, foreign, lookup, blind>>
    BY <2>1, <2>2 DEF ServeRowRemove, Out, unshown
  <2>4. OnCache' = OnCache /\ Making' = Making
    BY <2>3 DEF OnCache, Structural, Out, Making
  <2> QED
    BY <2>3, <2>4, OutStays DEF KnownInv, Unread
<1>5. CASE \E w \in writes : SettleRemove(w)
  <2>1. PICK w \in writes : SettleRemove(w)
    BY <1>5
  <2>2. /\ writes' = writes \ {w} /\ w.kind = "remove" /\ lookup' \in {lookup, LookupAsked}
        /\ UNCHANGED <<rows, holds, believed, asked, foreign, blind>>
    BY <2>1 DEF SettleRemove, Refetch, Out, unshown
  <2>3. OnCache' = OnCache /\ Making' = Making
    BY <2>2 DEF OnCache, Structural, Out, Making
  <2> QED
    BY <2>2, <2>3, OutStays DEF KnownInv, LookupAsked, Unread
<1>6. CASE \E w \in writes : ServeOnCache(w) \/ SettleOnCache(w)
  BY <1>6, CacheWriteKnown DEF ServeOnCache, SettleOnCache
<1>7. CASE LookupRead \/ LookupDone \/ LookupFailed
  BY <1>7, LookupKnown
<1>8. CASE (\E r \in Row : Promote(r)) \/ ConfirmDemote \/ RenameLocation
  <2>1. PICK k, r, page : /\ k \in {"promote", "demote", "rename"} /\ (k = "promote" => r \in Row)
                          /\ LocalWrite(k, r, page)
    BY <1>8 DEF Promote, ConfirmDemote, RenameLocation
  <2> QED
    BY <2>1, LocalKnown
<1>9. CASE \E r \in Row : MadeElsewhere(r)
  <2>1. PICK r \in Row : MadeElsewhere(r)
    BY <1>9
  <2>2. /\ holds' = holds \cup {r} /\ foreign' = foreign \cup {r}
        /\ UNCHANGED <<rows, believed, asked, lookup, blind, writes>>
    BY <2>1 DEF MadeElsewhere
  <2>3. OnCache' = OnCache /\ Making' = Making
    BY <2>2 DEF OnCache, Structural, Out, Making
  <2>4. KnownInv'
    BY <2>2, <2>3 DEF KnownInv, Unread
  <2>5. ASSUME NEW w \in OnCache'
        PROVE  /\ w.was \subseteq Row /\ holds' \subseteq w.was \cup asked' \cup foreign'
               /\ w.kind = "promote" => w.row \in asked'
               /\ believed' \subseteq Row
    BY <2>2, <2>3, <2>5 DEF OutInv
  <2> QED
    BY <2>4, <2>5 DEF OutInv
<1> QED
  BY <1>1, <1>2, <1>3, <1>4, <1>5, <1>6, <1>7, <1>8, <1>9 DEF EditorsNext

\* The step of LateAnswersInert.
AnswersStep == \A s \in saves \ saves' : s.at # panel.id => panel' = panel

\* A save that is out no more was answered, and moves its own dialog only.
LEMMA AnswersStand == EditorsNext => AnswersStep
<1>1. CASE \E s \in saves : GearSaved(s) \/ FormSaved(s) \/ SaveFailed(s)
  BY <1>1 DEF AnswersStep, GearSaved, FormSaved, SaveFailed, SettleSave
<1>2. ASSUME EditorsNext, ~ \E s \in saves : GearSaved(s) \/ FormSaved(s) \/ SaveFailed(s)
      PROVE  saves \subseteq saves'
  <2>1. CASE \/ LookupDone \/ LookupFailed \/ (\E r \in Row : Promote(r)) \/ ConfirmDemote
             \/ RenameLocation
    BY <2>1 DEF LookupDone, LookupFailed, Promote, ConfirmDemote, RenameLocation, LocalWrite
  <2>2. CASE (\E r \in Row : RequestFromRow(r)) \/ RequestFromEditor
    BY <2>2 DEF RequestFromRow, RequestFromEditor, Request
  <2> QED
    BY <1>2, <2>1, <2>2 DEF EditorsNext, OpenEditor, TypeField, ClosePanel, MoreDetails, SaveEditor,
       ToDeleteGear, CancelConfirm, ConfirmRemove, ConfirmDeleteGear, ServeRowRemove, SettleRemove,
       LookupRead, GoStale, AskDemote, ServeOnCache, SettleOnCache, MadeElsewhere, panelVars
<1> QED
  BY <1>1, <1>2 DEF AnswersStep

\* An editor is frozen by its own save only, and no container goes unasked: the guard of
\* guarded-save.ts and the preflight of a removal in ListDetailPage.tsx.
THEOREM EditorsStaySafe == EditorsSpec => EditorsSafe
<1>1. EditorsInit => EditorsInv
  <2> SUFFICES ASSUME EditorsInit PROVE SavesInv /\ KnownInv /\ OutInv
    BY DEF EditorsInv
  <2>1. SavedAt = {} /\ panel.kind \notin Editors
    BY DEF EditorsInit, SavedAt, NoPanel, Editors
  <2>2. SavesInv
    BY <2>1 DEF EditorsInit, SavesInv
  <2>3. KnownInv
    BY EditorsAssumption DEF EditorsInit, KnownInv, AskedFirst, LookupAsked, Unread
  <2>4. OutInv
    BY DEF EditorsInit, OutInv, OnCache, Structural, Out
  <2> QED
    BY <2>2, <2>3, <2>4
<1>2. EditorsInv /\ [EditorsNext]_editorVars => EditorsInv'
  BY SavesKeep, KnownKeeps DEF EditorsInv
<1>3. EditorsInv => AskedFirst /\ FrozenWhileSaving
  <2> SUFFICES ASSUME EditorsInv, panel.kind \in Editors
               PROVE  Saving <=> \E s \in saves : s.at = panel.id
    BY DEF EditorsInv, KnownInv, FrozenWhileSaving
  <2> QED
    BY DEF EditorsInv, SavesInv, SavedAt, Saving
<1>4. [EditorsNext]_editorVars => [AnswersStep]_editorVars
  BY AnswersStand
<1> QED
  BY <1>1, <1>2, <1>3, <1>4, PTL DEF EditorsSpec, EditorsSafe, LateAnswersInert, AnswersStep

-----------------------------------------------------------------------------
(* Values edited in place                                                  *)

\* What an input may hold, and what a render has of the editor.
Draft == Name \cup {BlankText}
FieldState == [open : BOOLEAN, draft : Draft, seen : Draft, error : BOOLEAN, busy : BOOLEAN]

\* Types; a notes editor and an edit in place differ in what they write, not in these.
FieldTypes ==
  /\ shownField \in FieldState /\ next \in FieldState /\ stored \in Draft
  /\ session \in [no : Nat, typed : BOOLEAN, sent : Nat]
  /\ consumed \in BOOLEAN /\ canceled \in BOOLEAN /\ badInput \in BOOLEAN
  /\ answers \in Seq([value : Draft, before : Draft, session : Nat])

\* An arbiter that is used up has let an edit be closed; an edit that is written or
\* canceled is closed in the next render, and its arbiter is used up until then.
ArbiterInv ==
  /\ consumed => shownField.open /\ ~ next.open
  /\ kind # "notes" => session.sent <= 1 /\ (canceled => session.sent = 0)
  /\ kind # "notes" /\ (session.sent > 0 \/ canceled) =>
       ~ next.open /\ (shownField.open => consumed)

\* The draft of an inline text that was not typed in is the value it shows, and one
\* that is closed with another value has written that.
TextInv ==
  kind = "text" =>
    /\ next.seen = shownField.seen /\ next.draft \in {shownField.draft, next.seen}
    /\ session.sent > 0 => session.typed
    /\ ~ session.typed \/ ~ shownField.open =>
         shownField.draft \in {shownField.seen, BlankText}
    /\ ~ next.open /\ next.draft \notin {next.seen, BlankText} =>
         answers # <<>> /\ stored # next.seen

FieldInv == FieldTypes /\ ArbiterInv /\ TextInv /\ NotesKept

\* What a step leaves for the next render, and for the coming events.
LEMMA FieldKeeps ==
  ASSUME FieldTypes', ArbiterInv', TextInv', NotesKept'
  PROVE  FieldInv'
BY DEF FieldInv

\* A render that changes what is seen takes the value of the parent for the draft.
LEMMA SyncedDraft ==
  ASSUME FieldTypes, NEW s \in FieldState
  PROVE  /\ Synced(s) \in FieldState /\ Synced(s).open = s.open /\ Synced(s).seen = stored
         /\ Synced(s).draft = IF kind = "text" /\ s.seen # stored THEN stored ELSE s.draft
<1>1. PICK v : v = DraftOf(s) /\ v \in Draft
  BY DEF DraftOf, FieldTypes, FieldState
<1> QED
  BY <1>1 DEF Synced, DraftOf, FieldState, FieldTypes

\* A render shows what was queued and lets the next handler through.
LEMMA RenderStep == FieldInv /\ Render => FieldInv'
<1> SUFFICES ASSUME FieldInv, Render PROVE FieldInv'
  OBVIOUS
<1>1. PICK s : s = Synced(next)
  OBVIOUS
<1>2. /\ shownField' = s /\ next' = s /\ consumed' = FALSE
      /\ UNCHANGED <<kind, stored, badInput, answers, session, keptText, canceled>>
  BY <1>1 DEF Render
<1>3. /\ s \in FieldState /\ s.open = next.open /\ s.seen = stored
      /\ s.draft = IF kind = "text" /\ next.seen # stored THEN stored ELSE next.draft
  BY <1>1, SyncedDraft DEF FieldInv, FieldTypes
<1>4. FieldTypes'
  BY <1>2, <1>3 DEF FieldInv, FieldTypes
<1>5. ArbiterInv'
  BY <1>2, <1>3 DEF FieldInv, ArbiterInv
<1>6. TextInv'
  BY <1>2, <1>3 DEF FieldInv, TextInv
<1>7. NotesKept'
  BY <1>2, <1>3 DEF FieldInv, NotesKept
<1> QED
  BY <1>4, <1>5, <1>6, <1>7, FieldKeeps

\* What a painted field shows is what comes next.
LEMMA PaintedFacts ==
  ASSUME FieldInv, Painted
  PROVE  next = shownField /\ shownField.seen = stored /\ ~ consumed
<1>1. Synced(next).seen = stored
  BY SyncedDraft DEF FieldInv, FieldTypes
<1> QED
  BY <1>1 DEF Painted, FieldInv, ArbiterInv

\* An opening starts a session that has sent nothing.
LEMMA OpenStep == FieldInv /\ Open => FieldInv'
<1> SUFFICES ASSUME FieldInv, Open PROVE FieldInv'
  OBVIOUS
<1>1. ~ shownField.open /\ next = shownField
  BY PaintedFacts DEF Open
<1>2. PICK v : v = CASE kind = "text" -> shownField.draft
                     [] kind = "add"  -> BlankText
                     [] OTHER         -> shownField.seen
  OBVIOUS
<1>3. v \in Draft /\ (kind = "text" => v = shownField.draft)
  BY <1>2 DEF FieldInv, FieldTypes, FieldState, Draft
<1>4. PICK s : s = [shownField EXCEPT !.open = TRUE, !.error = FALSE, !.busy = FALSE, !.draft = v]
  OBVIOUS
<1>5. shownField' = s /\ next' = s /\ consumed' = FALSE
  BY <1>2, <1>4 DEF Open, Shows
<1>6. /\ session' = [no |-> session.no + 1, typed |-> FALSE, sent |-> 0] /\ canceled' = FALSE
      /\ badInput' = FALSE /\ UNCHANGED <<kind, stored, answers>>
  BY DEF Open, NewSession
<1>7. s \in FieldState /\ s.open /\ s.seen = shownField.seen /\ s.draft = v
  BY <1>3, <1>4 DEF FieldInv, FieldTypes, FieldState
<1>8. FieldTypes'
  <2>1. session' \in [no : Nat, typed : BOOLEAN, sent : Nat]
    BY <1>6 DEF FieldInv, FieldTypes
  <2>2. /\ shownField' \in FieldState /\ next' \in FieldState /\ stored' \in Draft
        /\ consumed' \in BOOLEAN /\ canceled' \in BOOLEAN /\ badInput' \in BOOLEAN
        /\ answers' \in Seq([value : Draft, before : Draft, session : Nat])
    BY <1>5, <1>6, <1>7 DEF FieldInv, FieldTypes
  <2> QED
    BY <2>1, <2>2 DEF FieldTypes
<1>9. ArbiterInv'
  BY <1>5, <1>6, <1>7 DEF ArbiterInv
<1>10. TextInv'
  BY <1>1, <1>3, <1>5, <1>6, <1>7 DEF FieldInv, TextInv
<1>11. NotesKept'
  BY <1>5, <1>7 DEF NotesKept
<1> QED
  BY <1>8, <1>9, <1>10, <1>11, FieldKeeps

\* A keystroke makes a draft that was typed.
LEMMA TypeDraftStep == \A v \in Draft : FieldInv /\ TypeDraft(v) => FieldInv'
<1> SUFFICES ASSUME NEW v \in Draft, FieldInv, TypeDraft(v) PROVE FieldInv'
  OBVIOUS
<1>1. shownField.open /\ next = shownField /\ ~ consumed
  BY PaintedFacts DEF TypeDraft
<1>2. PICK s : s = [shownField EXCEPT !.draft = v, !.error = FALSE]
  OBVIOUS
<1>3. /\ shownField' = s /\ next' = s /\ consumed' = FALSE
      /\ session' = [session EXCEPT !.typed = TRUE]
      /\ UNCHANGED <<kind, stored, badInput, answers, canceled>>
  BY <1>2 DEF TypeDraft, Shows
<1>4. s \in FieldState /\ s.open /\ s.seen = shownField.seen /\ s.draft = v
  BY <1>1, <1>2 DEF FieldInv, FieldTypes, FieldState
<1>5. session' \in [no : Nat, typed : BOOLEAN, sent : Nat] /\ session'.typed
      /\ session'.sent = session.sent
  BY <1>3 DEF FieldInv, FieldTypes
<1>6. FieldTypes'
  BY <1>3, <1>4, <1>5 DEF FieldInv, FieldTypes
<1>7. ArbiterInv'
  BY <1>1, <1>3, <1>4, <1>5 DEF FieldInv, ArbiterInv
<1>8. TextInv'
  BY <1>3, <1>4, <1>5 DEF TextInv
<1>9. NotesKept'
  BY <1>3, <1>4 DEF NotesKept
<1> QED
  BY <1>6, <1>7, <1>8, <1>9, FieldKeeps

\* A number of the add row touches neither the draft nor the session.
LEMMA TypeNumberStep == FieldInv /\ TypeNumber => FieldInv'
<1> SUFFICES ASSUME FieldInv, TypeNumber PROVE FieldInv'
  OBVIOUS
<1>1. next = shownField /\ ~ consumed
  BY PaintedFacts DEF TypeNumber
<1>2. /\ UNCHANGED <<shownField, next, kind, stored, answers, session, keptText, canceled>>
      /\ consumed' = FALSE /\ badInput' = ~ badInput
  BY <1>1 DEF TypeNumber, Shows
<1> QED
  BY <1>1, <1>2 DEF FieldInv, FieldTypes, ArbiterInv, TextInv, NotesKept

\* A write goes out with the value, which the row shows at once but for a new row.
LEMMA SendFacts ==
  ASSUME FieldTypes, NEW v \in Draft, Send(v)
  PROVE  /\ answers' \in Seq([value : Draft, before : Draft, session : Nat]) /\ answers' # <<>>
         /\ session' \in [no : Nat, typed : BOOLEAN, sent : Nat]
         /\ session'.sent = session.sent + 1 /\ session'.typed = session.typed
         /\ stored' \in Draft /\ (kind = "text" => stored' = v)
<1>1. PICK a : a = [value |-> v, before |-> stored, session |-> session.no]
  OBVIOUS
<1>2. answers' = Append(answers, a) /\ a \in [value : Draft, before : Draft, session : Nat]
  BY <1>1 DEF Send, FieldTypes
<1>3. answers' \in Seq([value : Draft, before : Draft, session : Nat]) /\ answers' # <<>>
  BY <1>2 DEF FieldTypes
<1>4. session' = [session EXCEPT !.sent = session.sent + 1]
  BY DEF Send
<1>5. session' \in [no : Nat, typed : BOOLEAN, sent : Nat]
      /\ session'.sent = session.sent + 1 /\ session'.typed = session.typed
  BY <1>4 DEF FieldTypes
<1>6. stored' \in Draft /\ (kind = "text" => stored' = v)
  BY DEF Send, FieldTypes
<1> QED
  BY <1>3, <1>5, <1>6

\* An edit ends in a write, once, or in none; what an inline text writes was typed.
LEMMA EditEnds ==
  ASSUME FieldInv, kind # "notes", shownField.open, ~ consumed, consumed' = TRUE,
         UNCHANGED <<kind, shownField, badInput, canceled>>, Close,
         Send(shownField.draft) \/ UNCHANGED <<stored, answers, session>>,
         kind = "text" =>
           IF IsNew(shownField.draft) THEN Send(shownField.draft)
           ELSE UNCHANGED <<stored, answers, session>>
  PROVE  FieldInv'
<1>1. PICK n : n = [next EXCEPT !.open = FALSE, !.error = FALSE]
  OBVIOUS
<1>2. next' = n
  BY <1>1 DEF Close
<1>3. n \in FieldState /\ ~ n.open /\ n.seen = next.seen /\ n.draft = next.draft
  BY <1>1 DEF FieldInv, FieldTypes, FieldState
<1>4. FieldTypes /\ session.sent = 0 /\ ~ canceled /\ shownField.draft \in Draft
  BY DEF FieldInv, FieldTypes, ArbiterInv, FieldState
<1>5. /\ answers' \in Seq([value : Draft, before : Draft, session : Nat])
      /\ session' \in [no : Nat, typed : BOOLEAN, sent : Nat] /\ stored' \in Draft
      /\ session'.sent \in {0, 1} /\ session'.typed = session.typed
  <2>1. CASE Send(shownField.draft)
    <3>1. /\ answers' \in Seq([value : Draft, before : Draft, session : Nat])
          /\ session' \in [no : Nat, typed : BOOLEAN, sent : Nat] /\ stored' \in Draft
          /\ session'.sent = session.sent + 1 /\ session'.typed = session.typed
      BY <1>4, <2>1, SendFacts
    <3> QED
      BY <1>4, <3>1
  <2>2. CASE UNCHANGED <<stored, answers, session>>
    <3>1. session' = session /\ answers' = answers /\ stored' = stored
      BY <2>2
    <3> QED
      BY <1>4, <3>1 DEF FieldTypes
  <2> QED
    BY <2>1, <2>2
<1>6. FieldTypes'
  BY <1>2, <1>3, <1>4, <1>5 DEF FieldTypes
<1>7. ArbiterInv'
  BY <1>2, <1>3, <1>4, <1>5 DEF ArbiterInv
<1>8. TextInv'
  <2> SUFFICES ASSUME kind = "text" PROVE TextInv'
    BY DEF TextInv
  <2>1. CASE IsNew(shownField.draft)
    <3>1. answers' # <<>> /\ stored' = shownField.draft
      BY <1>4, <2>1, SendFacts
    <3>2. shownField.draft \notin {shownField.seen, BlankText}
      BY <2>1 DEF IsNew
    <3> QED
      BY <1>2, <1>3, <1>5, <3>1, <3>2 DEF FieldInv, TextInv
  <2>2. CASE ~ IsNew(shownField.draft)
    <3>1. shownField.draft \in {shownField.seen, BlankText}
      BY <2>2 DEF IsNew
    <3>2. UNCHANGED <<stored, answers, session>>
      BY <2>2
    <3> QED
      BY <1>2, <1>3, <1>4, <3>1, <3>2 DEF FieldInv, TextInv
  <2> QED
    BY <2>1, <2>2
<1>9. NotesKept'
  BY DEF NotesKept
<1> QED
  BY <1>6, <1>7, <1>8, <1>9, FieldKeeps

\* An edit that is canceled writes nothing.
LEMMA EditCanceled ==
  ASSUME FieldInv, kind # "notes", shownField.open, ~ consumed, CancelEdit,
         canceled' \in BOOLEAN, UNCHANGED <<kind, badInput>>,
         \/ consumed' = TRUE /\ shownField' = shownField
         \/ consumed' = FALSE /\ shownField' = next' /\ kind # "text"
  PROVE  FieldInv'
<1>1. PICK d : d = IF kind \in {"text", "title"} THEN shownField.seen ELSE next.draft
  OBVIOUS
<1>2. d \in Draft
  BY <1>1 DEF FieldInv, FieldTypes, FieldState
<1>3. PICK n : n = [next EXCEPT !.open = FALSE, !.error = FALSE, !.draft = d]
  OBVIOUS
<1>4. next' = n /\ UNCHANGED <<stored, answers, session>>
  BY <1>1, <1>3 DEF CancelEdit
<1>5. n \in FieldState /\ ~ n.open /\ n.seen = next.seen /\ n.draft = d
  BY <1>2, <1>3 DEF FieldInv, FieldTypes, FieldState
<1>6. FieldTypes'
  BY <1>4, <1>5 DEF FieldInv, FieldTypes
<1>7. ArbiterInv'
  BY <1>4, <1>5 DEF FieldInv, FieldTypes, ArbiterInv
<1>8. TextInv'
  BY <1>1, <1>4, <1>5 DEF FieldInv, TextInv
<1>9. NotesKept'
  BY DEF NotesKept
<1> QED
  BY <1>6, <1>7, <1>8, <1>9, FieldKeeps

\* Enter on what cannot be written changes the next render's error at most.
LEMMA EnterRefusedStep ==
  ASSUME FieldInv, EnterRefused, kind # "notes", kind # "text",
         UNCHANGED <<kind, shownField, badInput, canceled>>
  PROVE  FieldInv'
<1>1. PICK n : n = [next EXCEPT !.error = (kind = "title")]
  OBVIOUS
<1>2. next' = n /\ UNCHANGED <<stored, answers, session, consumed>>
  BY <1>1 DEF EnterRefused, EnterConsumes, NoWrite
<1>3. n \in FieldState /\ n.open = next.open
  BY <1>1 DEF FieldInv, FieldTypes, FieldState
<1>4. FieldTypes'
  BY <1>2, <1>3 DEF FieldInv, FieldTypes
<1>5. ArbiterInv'
  BY <1>2, <1>3 DEF FieldInv, ArbiterInv
<1> QED
  BY <1>4, <1>5, FieldKeeps DEF TextInv, NotesKept

\* Enter.
LEMMA EnterStep == FieldInv /\ Enter => FieldInv'
<1> SUFFICES ASSUME FieldInv, Enter PROVE FieldInv'
  OBVIOUS
<1>1. UNCHANGED <<kind, shownField, badInput, canceled>>
  BY DEF Enter
<1>2. CASE EnterRefused /\ kind \in {"title", "add"}
  BY <1>1, <1>2, EnterRefusedStep
<1>3. CASE kind \in {"text", "rename"} /\ Arbitrated /\ SaveText
  BY <1>1, <1>3, EditEnds DEF Arbitrated, Admitted, SaveText, Written
<1>4. CASE kind = "title" /\ Arbitrated /\ CommitTitle
  BY <1>1, <1>4, EditEnds DEF Arbitrated, Admitted, CommitTitle, Written
<1>5. CASE kind = "add" /\ Arbitrated /\ CommitAdd
  BY <1>1, <1>5, EditEnds DEF Arbitrated, Admitted, CommitAdd, Written
<1> QED
  BY <1>2, <1>3, <1>4, <1>5 DEF Enter, EnterInput, EnterTitle, EnterAdd

\* The focus leaves.
LEMMA BlurStep == FieldInv /\ Blur => FieldInv'
<1> SUFFICES ASSUME FieldInv, Blur PROVE FieldInv'
  OBVIOUS
<1>1. UNCHANGED <<kind, shownField, badInput, canceled>> /\ canceled \in BOOLEAN
  BY DEF Blur, FieldInv, FieldTypes
<1>2. CASE kind \in {"text", "rename"} /\ Arbitrated /\ SaveText
  BY <1>1, <1>2, EditEnds DEF Arbitrated, Admitted, SaveText, Written
<1>3. CASE kind = "title" /\ Arbitrated /\ CommitTitle
  BY <1>1, <1>3, EditEnds DEF Arbitrated, Admitted, CommitTitle, Written
<1>4. CASE kind = "add" /\ Arbitrated /\ CommitAdd
  BY <1>1, <1>4, EditEnds DEF Arbitrated, Admitted, CommitAdd, Written
<1>5. CASE kind \in {"title", "add"} /\ Arbitrated /\ CancelEdit
  BY <1>1, <1>5, EditCanceled DEF Arbitrated, Admitted
<1>6. CASE RefuseOutOfLimits
  BY <1>1, <1>6 DEF RefuseOutOfLimits, NoWrite, FieldInv, FieldTypes, ArbiterInv, TextInv, NotesKept
<1> QED
  BY <1>2, <1>3, <1>4, <1>5, <1>6 DEF Blur, BlurInput, BlurTitle, BlurAdd

\* Escape, and the cancel button, whose press does not take the focus.
LEMMA CancelSteps == FieldInv /\ (Escape \/ ClickCancel) => FieldInv'
<1>1. ASSUME FieldInv, Escape PROVE FieldInv'
  BY <1>1, EditCanceled DEF Escape, Arbitrated, Admitted
<1>2. ASSUME FieldInv, ClickCancel PROVE FieldInv'
  <2>1. ~ consumed
    BY <1>2, PaintedFacts DEF ClickCancel
  <2>2. /\ kind = "rename" /\ shownField.open /\ CancelEdit /\ canceled' = TRUE
        /\ shownField' = next' /\ consumed' = FALSE /\ UNCHANGED <<kind, badInput>>
    BY <1>2 DEF ClickCancel, PressCommits
  <2> QED
    BY <1>2, <2>1, <2>2, EditCanceled
<1> QED
  BY <1>1, <1>2

\* The notes are saved, or given up; they are closed once their text is.
LEMMA NotesSteps == FieldInv /\ (SaveNotes \/ CancelNotes) => FieldInv'
<1> SUFFICES ASSUME FieldInv, SaveNotes \/ CancelNotes PROVE FieldInv'
  OBVIOUS
<1>1. /\ kind = "notes" /\ ~ consumed /\ next = shownField /\ shownField.open
      /\ UNCHANGED <<kind, shownField, consumed, badInput>>
  BY PaintedFacts DEF SaveNotes, CancelNotes
<1>2. FieldTypes /\ shownField.draft \in Draft
  BY DEF FieldInv, FieldTypes, FieldState
<1>3. /\ answers' \in Seq([value : Draft, before : Draft, session : Nat])
      /\ session' \in [no : Nat, typed : BOOLEAN, sent : Nat] /\ stored' \in Draft
      /\ canceled' \in BOOLEAN
  <2>1. CASE UNCHANGED <<stored, answers, session>>
    BY <1>2, <2>1 DEF FieldTypes, SaveNotes, CancelNotes
  <2>2. CASE SaveNotes /\ Send(shownField.draft)
    BY <1>2, <2>2, SendFacts DEF FieldTypes, SaveNotes
  <2> QED
    BY <2>1, <2>2 DEF SaveNotes, CancelNotes, CancelEdit
<1>4. next' \in FieldState /\ (~ next'.open => keptText' = NoText)
  <2>1. CASE Close /\ keptText' = NoText
    BY <1>2, <2>1 DEF Close, FieldTypes, FieldState
  <2>2. CASE SaveNotes /\ Send(shownField.draft)
             /\ next' = [next EXCEPT !.busy = TRUE, !.error = FALSE]
    BY <1>1, <1>2, <2>2 DEF FieldTypes, FieldState
  <2>3. CASE CancelEdit
    BY <1>1, <1>2, <2>3 DEF CancelEdit, FieldTypes, FieldState
  <2> QED
    BY <2>1, <2>2, <2>3 DEF SaveNotes, CancelNotes
<1>5. FieldTypes'
  BY <1>1, <1>2, <1>3, <1>4 DEF FieldTypes
<1>6. ArbiterInv' /\ TextInv' /\ NotesKept'
  BY <1>1, <1>4 DEF ArbiterInv, TextInv, NotesKept
<1> QED
  BY <1>5, <1>6, FieldKeeps

\* What is answered is the write that went out first.
LEMMA AnswerFacts ==
  ASSUME FieldTypes, answers # <<>>, answers' = Rest
  PROVE  /\ Head(answers) \in [value : Draft, before : Draft, session : Nat]
         /\ answers' \in Seq([value : Draft, before : Draft, session : Nat])
<1>1. PICK T : T = [value : Draft, before : Draft, session : Nat]
  OBVIOUS
<1>2. answers \in Seq(T) /\ Len(answers) \in Nat /\ Len(answers) # 0
  BY <1>1 DEF FieldTypes
<1>3. Head(answers) \in T
  BY <1>2
<1>4. Rest \in Seq(T)
  <2>1. PICK n \in Nat : n = Len(answers) - 1
    BY <1>2
  <2>2. \A i \in 1 .. n : answers[i + 1] \in T
    BY <1>2, <2>1
  <2>3. [i \in 1 .. n |-> answers[i + 1]] \in [1 .. n -> T]
    BY <2>2
  <2>4. Rest \in [1 .. n -> T]
    BY <2>1, <2>3 DEF Rest
  <2> QED
    BY <2>1, <2>4, SeqDef
<1> QED
  BY <1>1, <1>3, <1>4

\* Answers come to a painted field: an arbiter is never used up then, and a text is
\* what it shows.
LEMMA AnswerSteps == FieldInv /\ (Confirmed \/ Refused) => FieldInv'
<1> SUFFICES ASSUME FieldInv, Confirmed \/ Refused PROVE FieldInv'
  OBVIOUS
<1>1. /\ next = shownField /\ shownField.seen = stored /\ ~ consumed
      /\ UNCHANGED <<kind, shownField, consumed, badInput, session, canceled>>
  BY PaintedFacts DEF Confirmed, Refused
<1>2. PICK a : a = Head(answers) /\ a \in [value : Draft, before : Draft, session : Nat]
  BY AnswerFacts DEF Confirmed, Refused, FieldInv
<1>3. answers' \in Seq([value : Draft, before : Draft, session : Nat])
  BY AnswerFacts DEF Confirmed, Refused, FieldInv
<1>4. stored' \in {a.value, a.before, stored} /\ stored' \in Draft
  BY <1>2 DEF Confirmed, Refused, FieldInv, FieldTypes
<1>5. /\ next' \in FieldState /\ (kind # "notes" => next' = next)
      /\ (kind = "notes" /\ ~ next'.open => keptText' = NoText)
  <2>1. CASE kind # "notes"
    BY <2>1 DEF Confirmed, Refused, FieldInv, FieldTypes
  <2>2. CASE kind = "notes" /\ Confirmed /\ ClosesOwn(a)
    <3>1. Close /\ keptText' = NoText
      BY <1>2, <2>2 DEF Confirmed, ClosesOwn
    <3> QED
      BY <2>2, <3>1 DEF Close, FieldInv, FieldTypes, FieldState
  <2>3. CASE kind = "notes" /\ Confirmed /\ ~ ClosesOwn(a)
    <3>1. /\ keptText' = keptText
          /\ next' \in {next, [next EXCEPT !.busy = FALSE]}
      BY <1>2, <2>3 DEF Confirmed
    <3>2. next' \in FieldState /\ next'.open = next.open
      BY <3>1 DEF FieldInv, FieldTypes, FieldState
    <3> QED
      BY <2>3, <3>1, <3>2 DEF FieldInv, NotesKept
  <2>4. CASE kind = "notes" /\ Refused
    <3>1. /\ keptText' = keptText
          /\ next' \in {next, [next EXCEPT !.busy = FALSE, !.error = TRUE]}
      BY <1>2, <2>4 DEF Refused
    <3>2. next' \in FieldState /\ next'.open = next.open
      BY <3>1 DEF FieldInv, FieldTypes, FieldState
    <3> QED
      BY <2>4, <3>1, <3>2 DEF FieldInv, NotesKept
  <2> QED
    BY <2>1, <2>2, <2>3, <2>4
<1>6. FieldTypes'
  BY <1>1, <1>3, <1>4, <1>5 DEF FieldInv, FieldTypes
<1>7. ArbiterInv'
  BY <1>1, <1>5 DEF FieldInv, ArbiterInv
<1>8. TextInv'
  BY <1>1, <1>5 DEF FieldInv, TextInv
<1>9. NotesKept'
  BY <1>1, <1>5 DEF NotesKept
<1> QED
  BY <1>6, <1>7, <1>8, <1>9, FieldKeeps

\* The value changes behind the field only with no write out.
LEMMA ChangedStep == \A v \in Name : FieldInv /\ ChangedElsewhere(v) => FieldInv'
BY DEF ChangedElsewhere, FieldInv, FieldTypes, Draft, ArbiterInv, TextInv, NotesKept

\* Every step keeps the invariant.
LEMMA FieldNextKeeps == FieldInv /\ [FieldNext]_fieldVars => FieldInv'
<1> SUFFICES ASSUME FieldInv, [FieldNext]_fieldVars PROVE FieldInv'
  OBVIOUS
<1>1. CASE UNCHANGED fieldVars
  BY <1>1 DEF fieldVars, FieldInv, FieldTypes, ArbiterInv, TextInv, NotesKept
<1> QED
  BY <1>1, RenderStep, OpenStep, TypeNumberStep, TypeDraftStep, EnterStep, BlurStep, CancelSteps,
     NotesSteps, AnswerSteps, ChangedStep DEF FieldNext, Draft

\* At first nothing is open, typed or on the wire.
LEMMA FieldStarts == FieldInit => FieldInv
<1> SUFFICES ASSUME FieldInit PROVE FieldInv
  OBVIOUS
<1>1. PICK v \in Name : stored = v /\ shownField = FieldClosed(v) /\ next = FieldClosed(v)
  BY DEF FieldInit
<1>2. FieldTypes
  <2>1. FieldClosed(v) \in FieldState
    BY DEF FieldClosed, FieldState, Draft
  <2>2. session \in [no : Nat, typed : BOOLEAN, sent : Nat]
    BY DEF FieldInit, NewSession
  <2>3. answers \in Seq([value : Draft, before : Draft, session : Nat])
    BY DEF FieldInit
  <2> QED
    BY <1>1, <2>1, <2>2, <2>3 DEF FieldInit, FieldTypes, Draft
<1> QED
  BY <1>1, <1>2 DEF FieldInit, FieldInv, ArbiterInv, TextInv, NotesKept, FieldClosed, NewSession

\* An inline edit writes what was typed in it, once, and only if it was not canceled:
\* the arbiter of use-commit-once.ts under the five kinds of editors.
THEOREM FieldInvariant == FieldSpec => [](FieldInv /\ FieldKept)
<1>1. FieldInv => FieldKept
  <2> SUFFICES ASSUME FieldInv PROVE FieldKept
    OBVIOUS
  <2>1. OneWritePerEdit /\ CanceledSendsNothing /\ OnlyTypedIsWritten /\ NotesKept
    BY DEF FieldInv, ArbiterInv, TextInv, OneWritePerEdit, CanceledSendsNothing, OnlyTypedIsWritten
  <2>2. GuardReopens
    BY PaintedFacts DEF GuardReopens
  <2> QED
    BY <2>1, <2>2 DEF FieldKept
<1> QED
  BY <1>1, FieldStarts, FieldNextKeeps, PTL DEF FieldSpec

-----------------------------------------------------------------------------
(* Weights and counts edited in place                                      *)

\* What an input may hold.
InputText == [is : {"number", "blank", "bad"}, n : Int]

\* Types; what was typed was one of the texts there are to type.
WeightTypes ==
  /\ counts \in BOOLEAN /\ editing \in BOOLEAN
  /\ rowValue \in Values /\ draftValue \in Nat
  /\ field \in [unit : Unit, text : InputText] /\ emitted \in Nat
  /\ entered \in [unit : Unit \cup {"none"}, text : InputText]
  /\ entered # NothingTyped => entered.unit \in Unit /\ entered.text \in Texts
  /\ sentValue \in Int

\* While nothing has been typed the draft is the value of the row, and the field of a
\* count shows it.
UntouchedInv ==
  /\ ~ editing \/ counts \/ entered = NothingTyped => draftValue = rowValue
  /\ editing /\ counts /\ entered = NothingTyped => field.text = Num(rowValue)
  /\ editing => sentValue = NotSent

\* The draft of a weight is what was typed meant; and where the field shows another text,
\* a toggle has found the typed one within its limits, or neither is a number.
TypedInv ==
  editing /\ entered # NothingTyped =>
    IF counts THEN field.text = entered.text
    ELSE /\ draftValue = Emission(entered) /\ emitted = draftValue
         /\ \/ field.text = entered.text /\ field.unit = entered.unit
            \/ field.text = BadText /\ entered.text = BadText
            \/ ~ OutOfLimits(entered)

WeightInv == WeightTypes /\ UntouchedInv /\ TypedInv /\ SavesWhatWasTyped

\* The limits of the units are one weight.
LEMMA WeightLimits ==
  /\ MaxGrams \in Nat /\ MaxOunces <= MaxGrams
  /\ \A n \in 0 .. MaxOunces : n * OzGrams \in 0 .. MaxGrams
<1>1. /\ OzGrams \in Nat /\ OzGrams > 1 /\ MaxOunces \in Nat /\ MaxOunces > 0
  BY WeightAssumption
<1>2. MaxGrams \in Nat
  BY <1>1 DEF MaxGrams
<1>3. ASSUME NEW n \in 0 .. MaxOunces PROVE n * OzGrams \in 0 .. MaxGrams
  <2>1. n * OzGrams <= MaxOunces * OzGrams /\ 0 <= n * OzGrams
    BY <1>1
  <2> QED
    BY <1>1, <2>1 DEF MaxGrams
<1>4. MaxOunces <= MaxGrams
  BY <1>1 DEF MaxGrams
<1> QED
  BY <1>2, <1>3, <1>4

\* Every weight and every count is a number that can be told from one not sent.
LEMMA ValuesThere == Values \subseteq Nat
BY WeightLimits, WeightAssumption DEF Values

\* The texts there are to type are inputs' texts.
LEMMA TextsThere == Texts \subseteq InputText
BY WeightLimits DEF Texts, InputText, Num, NoNumber, BadText

\* What is shown of a weight is a text.
LEMMA Formatted ==
  ASSUME NEW g \in Nat, NEW u \in Unit
  PROVE  FormatDraft(g, u) \in InputText
<1>1. OuncesOf(g) \in Int
  BY WeightAssumption DEF OuncesOf
<1> QED
  BY <1>1 DEF FormatDraft, InputText, NoNumber, Num

\* What a text emits is a weight, and depends on the text and the unit alone.
LEMMA Emitted ==
  ASSUME NEW f, f.text \in InputText, f.unit \in Unit
  PROVE  /\ Emission(f) \in 0 .. MaxGrams
         /\ \A e : e.text = f.text /\ e.unit = f.unit => Emission(e) = Emission(f)
<1>1. f.text.n \in Int /\ OzGrams \in Nat /\ MaxGrams \in Nat
  BY WeightAssumption, WeightLimits DEF InputText
<1>2. f.text.n >= 0 => f.text.n * OzGrams \in Nat
  BY <1>1
<1>3. f.text.n >= 0 => GramsOf(f.text.n, f.unit) \in Nat
  BY <1>1, <1>2 DEF GramsOf
<1>4. Emission(f) \in 0 .. MaxGrams
  BY <1>1, <1>3 DEF Emission, Least
<1> QED
  BY <1>4 DEF Emission

\* What is typed within the limits is what it emits.
LEMMA MeantWeight ==
  ASSUME WeightTypes, ~ counts, entered # NothingTyped, ~ OutOfLimits(entered)
  PROVE  Emission(entered) = Meant
<1>1. entered.unit \in Unit /\ entered.text \in Texts /\ entered.text # BadText
  BY DEF WeightTypes, OutOfLimits
<1>2. CASE entered.text = NoNumber
  BY <1>2 DEF Emission, Meant, NoNumber
<1>3. CASE \E n \in -1 .. MaxGrams + 1 : entered.text = Num(n)
  <2>1. PICK n \in -1 .. MaxGrams + 1 : entered.text = Num(n)
    BY <1>3
  <2>2. /\ entered.text.is = "number" /\ entered.text.n = n /\ entered.text # NoNumber
        /\ n \in Int
    BY <2>1, WeightLimits DEF Num, NoNumber
  <2>3. n >= 0 /\ n <= MaxForUnit(entered.unit)
    BY <2>2, WeightLimits, WeightAssumption DEF OutOfLimits, MaxForUnit
  <2>4. GramsOf(n, entered.unit) \in 0 .. MaxGrams
    <3>1. CASE entered.unit = "g"
      BY <2>2, <2>3, <3>1, WeightLimits DEF GramsOf, MaxForUnit
    <3>2. CASE entered.unit = "oz"
      <4>1. n \in 0 .. MaxOunces
        BY <2>2, <2>3, <3>2, WeightAssumption DEF MaxForUnit
      <4> QED
        BY <3>2, <4>1, WeightLimits DEF GramsOf
    <3> QED
      BY <1>1, <3>1, <3>2 DEF Unit
  <2>5. Emission(entered) = GramsOf(n, entered.unit)
    BY <2>2, <2>3, <2>4, WeightLimits DEF Emission, Least
  <2> QED
    BY <2>2, <2>5 DEF Meant
<1> QED
  BY <1>1, <1>2, <1>3 DEF Texts

\* What a step leaves.
LEMMA WeightKeeps ==
  ASSUME WeightTypes', UntouchedInv', TypedInv', SavesWhatWasTyped'
  PROVE  WeightInv'
BY DEF WeightInv

\* What the field shows when it opens is the value of the row.
LEMMA OpenValueStep == \A u \in Unit : WeightInv /\ OpenValue(u) => WeightInv'
<1> SUFFICES ASSUME NEW u \in Unit, WeightInv, OpenValue(u) PROVE WeightInv'
  OBVIOUS
<1>1. /\ ~ editing /\ editing' = TRUE /\ entered' = NothingTyped /\ sentValue' = NotSent
      /\ emitted' = draftValue /\ UNCHANGED <<counts, rowValue, draftValue>>
      /\ draftValue = rowValue /\ draftValue \in Nat
  BY DEF OpenValue, WeightInv, UntouchedInv, WeightTypes
<1>2. PICK x \in InputText, v \in Unit :
        field' = [unit |-> v, text |-> x] /\ (counts => x = Num(draftValue))
  <2>1. CASE counts
    <3>1. Num(draftValue) \in InputText
      BY <1>1 DEF Num, InputText
    <3> QED
      BY <2>1, <3>1 DEF OpenValue, Unit
  <2>2. CASE ~ counts
    BY <1>1, <2>2, Formatted DEF OpenValue
  <2> QED
    BY <2>1, <2>2
<1>3. NothingTyped \in [unit : Unit \cup {"none"}, text : InputText]
  BY DEF NothingTyped, InputText, NoNumber
<1>4. WeightTypes'
  BY <1>1, <1>2, <1>3 DEF WeightInv, WeightTypes, NotSent, Values
<1>5. UntouchedInv'
  BY <1>1, <1>2 DEF UntouchedInv
<1>6. TypedInv' /\ SavesWhatWasTyped'
  BY <1>1 DEF TypedInv, SavesWhatWasTyped
<1> QED
  BY <1>4, <1>5, <1>6, WeightKeeps

\* A keystroke in a weight is emitted, and its own emission leaves the text alone.
LEMMA TypeWeightFacts ==
  ASSUME WeightTypes, NEW text \in Texts, TypeWeight(text)
  PROVE  /\ field' = [field EXCEPT !.text = text] /\ field'.text = text
         /\ field'.unit = field.unit /\ entered' = [text |-> text, unit |-> field.unit]
         /\ draftValue' = Emission(entered') /\ emitted' = draftValue'
         /\ draftValue' \in 0 .. MaxGrams
<1>1. PICK t : t = [field EXCEPT !.text = text]
  OBVIOUS
<1>2. t.text = text /\ t.unit = field.unit /\ t.text \in InputText /\ t.unit \in Unit
  BY <1>1, TextsThere DEF WeightTypes
<1>3. /\ draftValue' = Emission(t) /\ field' = t /\ emitted' = draftValue'
      /\ entered' = [text |-> text, unit |-> field.unit]
  BY <1>1 DEF TypeWeight, Received, NotesEmission
<1>4. entered'.text = t.text /\ entered'.unit = t.unit
  BY <1>2, <1>3
<1> QED
  BY <1>1, <1>2, <1>3, <1>4, Emitted

\* What is typed is passed up, and does not come back to change the text.
LEMMA TypeWeightStep == \A text \in Texts : WeightInv /\ TypeWeight(text) => WeightInv'
<1> SUFFICES ASSUME NEW text \in Texts, WeightInv, TypeWeight(text) PROVE WeightInv'
  OBVIOUS
<1>1. /\ field' = [field EXCEPT !.text = text] /\ field'.text = text
      /\ field'.unit = field.unit /\ entered' = [text |-> text, unit |-> field.unit]
      /\ draftValue' = Emission(entered') /\ emitted' = draftValue'
      /\ draftValue' \in 0 .. MaxGrams
  BY TypeWeightFacts DEF WeightInv
<1>2. /\ ~ counts /\ editing /\ UNCHANGED <<counts, rowValue, editing, sentValue>>
      /\ sentValue = NotSent /\ text \in InputText /\ MaxGrams \in Nat
      /\ field \in [unit : Unit, text : InputText] /\ field.unit # "none"
  BY TextsThere, WeightLimits DEF TypeWeight, WeightInv, UntouchedInv, WeightTypes, Unit
<1>3. entered' # NothingTyped /\ entered'.text = text /\ entered'.unit = field.unit
  BY <1>1, <1>2 DEF NothingTyped
<1>4. draftValue' \in Nat
  BY <1>1, <1>2
<1>5. WeightTypes'
  BY <1>1, <1>2, <1>3, <1>4 DEF WeightInv, WeightTypes, Values
<1>6. UntouchedInv'
  BY <1>2, <1>3 DEF UntouchedInv
<1>7. TypedInv'
  BY <1>1, <1>2, <1>3 DEF TypedInv
<1>8. SavesWhatWasTyped'
  BY <1>2 DEF SavesWhatWasTyped
<1> QED
  BY <1>5, <1>6, <1>7, <1>8, WeightKeeps

\* A count is not passed up before it is committed.
LEMMA TypeQuantityStep == \A text \in Texts : WeightInv /\ TypeQuantity(text) => WeightInv'
<1> SUFFICES ASSUME NEW text \in Texts, WeightInv, TypeQuantity(text) PROVE WeightInv'
  OBVIOUS
<1>1. /\ counts /\ editing /\ field' = [field EXCEPT !.text = text]
      /\ entered' = [text |-> text, unit |-> "g"]
      /\ UNCHANGED <<counts, rowValue, editing, draftValue, emitted, sentValue>>
      /\ sentValue = NotSent /\ text \in InputText
  BY TextsThere DEF TypeQuantity, WeightInv, UntouchedInv
<1>2. entered' # NothingTyped /\ entered'.text = text /\ entered'.unit = "g"
  BY <1>1 DEF NothingTyped
<1>3. field' \in [unit : Unit, text : InputText] /\ field'.text = text
  BY <1>1 DEF WeightInv, WeightTypes
<1>4. WeightTypes'
  BY <1>1, <1>2, <1>3 DEF WeightInv, WeightTypes, Values, Unit
<1>5. UntouchedInv'
  BY <1>1, <1>2 DEF WeightInv, UntouchedInv
<1>6. TypedInv' /\ SavesWhatWasTyped'
  BY <1>1, <1>2, <1>3 DEF TypedInv, SavesWhatWasTyped
<1> QED
  BY <1>4, <1>5, <1>6, WeightKeeps

\* The toggle keeps the grams; from a number past its limits it does not go.
LEMMA ToggleStep == WeightInv /\ ToggleUnit => WeightInv'
<1> SUFFICES ASSUME WeightInv, ToggleUnit PROVE WeightInv'
  OBVIOUS
<1>1. /\ ~ counts /\ editing /\ TogglesFrom /\ draftValue' = draftValue
      /\ emitted' = draftValue /\ UNCHANGED <<counts, rowValue, editing, entered, sentValue>>
      /\ sentValue = NotSent
  BY DEF ToggleUnit, GramsAfterToggle, WeightInv, UntouchedInv
<1>2. PICK u \in Unit :
        field' = [unit |-> u, text |-> IF field.text = BadText THEN BadText
                                       ELSE FormatDraft(emitted, u)]
  BY DEF ToggleUnit
<1>3. /\ field' \in [unit : Unit, text : InputText]
      /\ field.text = BadText => field'.text = BadText
  BY <1>2, Formatted DEF WeightInv, WeightTypes, BadText, InputText
<1>4. WeightTypes'
  BY <1>1, <1>3 DEF WeightInv, WeightTypes, Values
<1>5. UntouchedInv' /\ SavesWhatWasTyped'
  BY <1>1 DEF WeightInv, UntouchedInv, SavesWhatWasTyped
<1>6. TypedInv'
  <2> SUFFICES ASSUME entered # NothingTyped
               PROVE  /\ draftValue = Emission(entered)
                      /\ \/ field'.text = BadText /\ entered.text = BadText
                         \/ ~ OutOfLimits(entered)
    BY <1>1 DEF TypedInv, OutOfLimits, MaxForUnit
  <2>1. /\ draftValue = Emission(entered)
        /\ \/ field.text = entered.text /\ field.unit = entered.unit
           \/ field.text = BadText /\ entered.text = BadText
           \/ ~ OutOfLimits(entered)
    BY <1>1 DEF WeightInv, TypedInv
  <2>2. CASE field.text = BadText /\ entered.text = BadText
    BY <1>3, <2>1, <2>2
  <2>3. CASE field.text = entered.text /\ field.unit = entered.unit /\ field.text # BadText
    BY <1>1, <2>1, <2>3 DEF TogglesFrom, OutOfLimits
  <2> QED
    BY <2>1, <2>2, <2>3
<1> QED
  BY <1>4, <1>5, <1>6, WeightKeeps

\* What a commit sends was typed, within the limits.
LEMMA CommitFacts ==
  ASSUME WeightInv, editing, ~ Refuses
  PROVE  /\ ClampedDraft \in Values
         /\ entered = NothingTyped => ClampedDraft = rowValue
         /\ entered # NothingTyped => ~ OutOfLimits(entered) /\ ClampedDraft = Meant
<1>1. /\ rowValue \in Values /\ Values \subseteq Nat /\ draftValue \in Nat /\ MaxGrams \in Nat
      /\ MaxCount \in Nat /\ MaxCount > 0 /\ field.text \in InputText
      /\ counts \in BOOLEAN
  BY ValuesThere, WeightLimits, WeightAssumption DEF WeightInv, WeightTypes
<1>2. CASE counts
  <2>1. ClampedDraft \in Values
    BY <1>1, <1>2 DEF ClampedDraft, ClampQuantity, Least, Most, Values, InputText
  <2>2. entered = NothingTyped => ClampedDraft = rowValue
    <3> SUFFICES ASSUME entered = NothingTyped PROVE ClampedDraft = rowValue
      OBVIOUS
    <3>1. field.text = Num(rowValue) /\ rowValue \in 1 .. MaxCount
      BY <1>1, <1>2 DEF WeightInv, UntouchedInv, Values
    <3>2. field.text.is = "number" /\ field.text.n = rowValue
      BY <3>1 DEF Num
    <3> QED
      BY <1>1, <1>2, <3>1, <3>2 DEF ClampedDraft, ClampQuantity, Least, Most
  <2>3. entered # NothingTyped => ~ OutOfLimits(entered) /\ ClampedDraft = Meant
    <3> SUFFICES ASSUME entered # NothingTyped
                 PROVE  ~ OutOfLimits(entered) /\ ClampedDraft = Meant
      OBVIOUS
    <3>1. field.text = entered.text
      BY <1>2 DEF WeightInv, TypedInv
    <3> QED
      BY <1>2, <3>1 DEF ClampedDraft, Meant, Refuses, OutOfLimits
  <2> QED
    BY <2>1, <2>2, <2>3
<1>3. CASE ~ counts
  <2>1. ClampedDraft \in Values
    BY <1>1, <1>3 DEF ClampedDraft, ClampWeightGrams, Least, Most, Values
  <2>2. entered = NothingTyped => ClampedDraft = rowValue
    BY <1>1, <1>3 DEF WeightInv, UntouchedInv, ClampedDraft, ClampWeightGrams, Least, Most, Values
  <2>3. entered # NothingTyped => ~ OutOfLimits(entered) /\ ClampedDraft = Meant
    <3> SUFFICES ASSUME entered # NothingTyped
                 PROVE  ~ OutOfLimits(entered) /\ ClampedDraft = Meant
      OBVIOUS
    <3>1. /\ draftValue = Emission(entered)
          /\ \/ field.text = entered.text /\ field.unit = entered.unit
             \/ field.text = BadText /\ entered.text = BadText
             \/ ~ OutOfLimits(entered)
      BY <1>3 DEF WeightInv, TypedInv
    <3>2. ~ OutOfLimits(entered)
      <4>1. CASE field.text = entered.text /\ field.unit = entered.unit
        BY <4>1 DEF Refuses, OutOfLimits
      <4>2. CASE field.text = BadText
        BY <4>2 DEF Refuses, OutOfLimits
      <4> QED
        BY <3>1, <4>1, <4>2
    <3>3. entered.text \in InputText /\ entered.unit \in Unit
      BY DEF WeightInv, WeightTypes
    <3>4. draftValue = Meant /\ draftValue \in 0 .. MaxGrams
      BY <1>3, <3>1, <3>2, <3>3, MeantWeight, Emitted DEF WeightInv
    <3> QED
      BY <1>1, <1>3, <3>2, <3>4 DEF ClampedDraft, ClampWeightGrams, Least, Most
  <2> QED
    BY <2>1, <2>2, <2>3
<1> QED
  BY <1>1, <1>2, <1>3

\* A commit saves what was typed, or nothing.
LEMMA CommitStep == WeightInv /\ CommitValue => WeightInv'
<1> SUFFICES ASSUME WeightInv, CommitValue PROVE WeightInv'
  OBVIOUS
<1>1. /\ editing /\ editing' = FALSE /\ sentValue = NotSent
      /\ UNCHANGED <<counts, field, emitted, entered>>
  BY DEF CommitValue, WeightInv, UntouchedInv
<1>2. TypedInv'
  BY <1>1 DEF TypedInv
<1>3. CASE draftValue' = rowValue /\ UNCHANGED <<rowValue, sentValue>>
  <2>1. WeightTypes'
    BY <1>1, <1>3, ValuesThere DEF WeightInv, WeightTypes, Values
  <2> QED
    BY <1>1, <1>2, <1>3, <2>1, WeightKeeps DEF UntouchedInv, SavesWhatWasTyped
<1>4. CASE /\ ~ Refuses /\ ClampedDraft # rowValue
           /\ rowValue' = ClampedDraft /\ draftValue' = ClampedDraft /\ sentValue' = ClampedDraft
  <2>1. PICK v : /\ v = ClampedDraft /\ v \in Values /\ v \in Nat /\ entered # NothingTyped
                 /\ ~ OutOfLimits(entered) /\ v = Meant
    BY <1>1, <1>4, CommitFacts, ValuesThere
  <2>2. WeightTypes'
    <3>1. draftValue' = v /\ rowValue' = v /\ sentValue' = v /\ v \in Values'
      BY <1>1, <1>4, <2>1 DEF Values
    <3>2. /\ counts \in BOOLEAN /\ emitted \in Nat
          /\ field \in [unit : Unit, text : InputText]
          /\ entered \in [unit : Unit \cup {"none"}, text : InputText]
          /\ entered # NothingTyped => entered.unit \in Unit /\ entered.text \in Texts
      BY DEF WeightInv, WeightTypes
    <3>3. /\ counts' \in BOOLEAN /\ emitted' \in Nat /\ editing' \in BOOLEAN
          /\ field' \in [unit : Unit, text : InputText]
          /\ entered' \in [unit : Unit \cup {"none"}, text : InputText]
      BY <1>1, <3>2
    <3>4. entered' # NothingTyped => entered'.unit \in Unit /\ entered'.text \in Texts
      BY <1>1, <3>2
    <3>5. draftValue' \in Nat /\ rowValue' \in Values' /\ sentValue' \in Int
      BY <2>1, <3>1
    <3> QED
      BY <3>3, <3>4, <3>5 DEF WeightTypes
  <2>3. UntouchedInv'
    BY <1>1, <1>4 DEF UntouchedInv
  <2>4. SavesWhatWasTyped'
    BY <1>1, <1>4, <2>1 DEF SavesWhatWasTyped, OutOfLimits, MaxForUnit, Meant
  <2> QED
    BY <1>2, <2>2, <2>3, <2>4, WeightKeeps
<1> QED
  BY <1>3, <1>4 DEF CommitValue

\* A cancel takes the value of the row again and saves nothing.
LEMMA CancelValueStep == WeightInv /\ CancelValue => WeightInv'
<1> SUFFICES ASSUME WeightInv, CancelValue PROVE WeightInv'
  OBVIOUS
<1>1. /\ editing /\ editing' = FALSE /\ draftValue' = rowValue /\ sentValue = NotSent
      /\ UNCHANGED <<counts, rowValue, field, emitted, entered, sentValue>>
  BY DEF CancelValue, WeightInv, UntouchedInv
<1>2. PICK v : v = rowValue /\ v \in Nat /\ v \in Values
  BY ValuesThere DEF WeightInv, WeightTypes
<1>3. draftValue' \in Nat /\ rowValue' \in Values'
  BY <1>1, <1>2 DEF Values
<1>4. /\ counts \in BOOLEAN /\ emitted \in Nat /\ sentValue \in Int
      /\ field \in [unit : Unit, text : InputText]
      /\ entered \in [unit : Unit \cup {"none"}, text : InputText]
      /\ entered # NothingTyped => entered.unit \in Unit /\ entered.text \in Texts
  BY DEF WeightInv, WeightTypes
<1>5. /\ counts' \in BOOLEAN /\ emitted' \in Nat /\ sentValue' \in Int /\ editing' \in BOOLEAN
      /\ field' \in [unit : Unit, text : InputText]
      /\ entered' \in [unit : Unit \cup {"none"}, text : InputText]
  BY <1>1, <1>4
<1>6. entered' # NothingTyped => entered'.unit \in Unit /\ entered'.text \in Texts
  BY <1>1, <1>4
<1>7. WeightTypes'
  BY <1>3, <1>5, <1>6 DEF WeightTypes
<1> QED
  BY <1>1, <1>7, WeightKeeps DEF UntouchedInv, TypedInv, SavesWhatWasTyped

\* A value from elsewhere is the draft, and nothing that was typed before it counts.
LEMMA ElsewhereStep == \A v \in Values : WeightInv /\ ValueElsewhere(v) => WeightInv'
<1> SUFFICES ASSUME NEW v \in Values, WeightInv, ValueElsewhere(v) PROVE WeightInv'
  OBVIOUS
<1>1. /\ rowValue' = v /\ draftValue' = v /\ entered' = NothingTyped
      /\ UNCHANGED <<counts, editing, sentValue>> /\ v \in Nat
      /\ field \in [unit : Unit, text : InputText]
  BY ValuesThere DEF ValueElsewhere, WeightInv, WeightTypes
<1>2. /\ field' \in [unit : Unit, text : InputText] /\ emitted' \in Nat
      /\ counts => field'.text = Num(v)
  <2>1. CASE counts
    <3>1. Num(v) \in InputText
      BY <1>1 DEF Num, InputText
    <3>2. field' = [field EXCEPT !.text = Num(v)] /\ emitted' = emitted
      BY <2>1 DEF ValueElsewhere
    <3> QED
      BY <1>1, <3>1, <3>2 DEF WeightInv, WeightTypes
  <2>2. CASE ~ counts
    <3>1. FormatDraft(v, field.unit) \in InputText
      BY <1>1, Formatted
    <3>2. field' \in {field, [field EXCEPT !.text = FormatDraft(v, field.unit)]} /\ emitted' = v
      BY <2>2 DEF ValueElsewhere, Received
    <3> QED
      BY <1>1, <2>2, <3>1, <3>2
  <2> QED
    BY <2>1, <2>2
<1>3. NothingTyped \in [unit : Unit \cup {"none"}, text : InputText]
  BY DEF NothingTyped, InputText, NoNumber
<1>4. WeightTypes'
  BY <1>1, <1>2, <1>3 DEF WeightInv, WeightTypes, Values
<1> QED
  BY <1>1, <1>2, <1>4, WeightKeeps DEF WeightInv, UntouchedInv, TypedInv, SavesWhatWasTyped

\* Every step keeps the invariant.
LEMMA WeightNextKeeps == WeightInv /\ [WeightNext]_weightVars => WeightInv'
<1> SUFFICES ASSUME WeightInv, [WeightNext]_weightVars PROVE WeightInv'
  OBVIOUS
<1>1. CASE UNCHANGED weightVars
  BY <1>1 DEF weightVars, WeightInv, WeightTypes, UntouchedInv, TypedInv, SavesWhatWasTyped,
     OutOfLimits, MaxForUnit, Meant, Values
<1> QED
  BY <1>1, OpenValueStep, TypeWeightStep, TypeQuantityStep, ToggleStep, CommitStep,
     CancelValueStep, ElsewhereStep DEF WeightNext

\* At first nothing is typed and nothing is sent.
LEMMA WeightStarts == WeightInit => WeightInv
<1> SUFFICES ASSUME WeightInit PROVE WeightInv
  OBVIOUS
<1>1. NothingTyped \in [unit : Unit \cup {"none"}, text : InputText]
  BY DEF NothingTyped, InputText, NoNumber
<1>2. [unit |-> "g", text |-> NoNumber] \in [unit : Unit, text : InputText]
  BY DEF Unit, InputText, NoNumber
<1>3. PICK v : v = rowValue /\ v \in Nat /\ v \in Values
  BY ValuesThere DEF WeightInit
<1>4. /\ counts \in BOOLEAN /\ editing = FALSE /\ draftValue = rowValue /\ emitted = rowValue
      /\ field = [unit |-> "g", text |-> NoNumber] /\ sentValue = -1 /\ entered = NothingTyped
  BY DEF WeightInit, NotSent
<1>5. /\ counts \in BOOLEAN /\ editing \in BOOLEAN
      /\ field \in [unit : Unit, text : InputText]
      /\ entered \in [unit : Unit \cup {"none"}, text : InputText]
  BY <1>1, <1>2, <1>4
<1>6. rowValue \in Values /\ draftValue \in Nat /\ emitted \in Nat /\ sentValue \in Int
  BY <1>3, <1>4
<1>7. entered # NothingTyped => entered.unit \in Unit /\ entered.text \in Texts
  BY <1>4
<1>8. WeightTypes
  BY <1>5, <1>6, <1>7 DEF WeightTypes
<1> QED
  BY <1>8 DEF WeightInit, WeightInv, UntouchedInv, TypedInv, SavesWhatWasTyped

\* The steps of UntouchedNotSaved and of TextStays.
UntouchedStep == sentValue' # sentValue /\ sentValue' # NotSent => entered # NothingTyped
TextStep == entered' # entered /\ entered' # NothingTyped => field'.text = entered'.text

\* A value is sent by a commit alone, and only once something was typed; only a keystroke
\* is what is typed, and leaves its text.
LEMMA WeightSteps == WeightInv /\ WeightNext => UntouchedStep /\ TextStep
<1> SUFFICES ASSUME WeightInv, WeightNext PROVE UntouchedStep /\ TextStep
  OBVIOUS
<1>1. ASSUME NEW u \in Unit, OpenValue(u) PROVE UntouchedStep /\ TextStep
  BY <1>1 DEF OpenValue, UntouchedStep, TextStep
<1>2. ASSUME NEW text \in Texts, TypeWeight(text) PROVE UntouchedStep /\ TextStep
  <2>1. field'.text = text /\ entered' = [text |-> text, unit |-> field.unit]
    BY <1>2, TypeWeightFacts DEF WeightInv
  <2>2. sentValue' = sentValue
    BY <1>2 DEF TypeWeight
  <2> QED
    BY <2>1, <2>2 DEF UntouchedStep, TextStep
<1>3. ASSUME NEW text \in Texts, TypeQuantity(text) PROVE UntouchedStep /\ TextStep
  BY <1>3 DEF TypeQuantity, UntouchedStep, TextStep, WeightInv, WeightTypes
<1>4. CASE ToggleUnit \/ CancelValue
  BY <1>4 DEF ToggleUnit, CancelValue, UntouchedStep, TextStep
<1>5. CASE CommitValue
  <2>1. entered' = entered /\ editing
    BY <1>5 DEF CommitValue
  <2>2. sentValue' # sentValue => ~ Refuses /\ ClampedDraft # rowValue
    BY <1>5 DEF CommitValue
  <2> QED
    BY <2>1, <2>2, CommitFacts DEF UntouchedStep, TextStep
<1>6. ASSUME NEW v \in Values, ValueElsewhere(v) PROVE UntouchedStep /\ TextStep
  BY <1>6 DEF ValueElsewhere, UntouchedStep, TextStep
<1> QED
  BY <1>1, <1>2, <1>3, <1>4, <1>5, <1>6 DEF WeightNext

\* A weight or a count is saved as it was typed and where it was typed, or not at all:
\* the limits of the inputs, the clamp of the emission and the toggle of the units.
THEOREM WeightInvariant ==
  WeightSpec => [](WeightInv /\ SavesWhatWasTyped) /\ UntouchedNotSaved /\ TextStays
<1>1. WeightInv => SavesWhatWasTyped
  BY DEF WeightInv
<1>2. WeightInv /\ [WeightNext]_weightVars => [UntouchedStep]_weightVars /\ [TextStep]_weightVars
  BY WeightSteps
<1> QED
  BY <1>1, <1>2, WeightStarts, WeightNextKeeps, PTL
  DEF WeightSpec, UntouchedNotSaved, TextStays, UntouchedStep, TextStep

-----------------------------------------------------------------------------
(* The inputs side by side                                                 *)

\* The inputs that edit a value in place, of text or of a number, send each edit
\* once and as it was typed, or not at all.
THEOREM InputsStay == FieldSpec /\ WeightSpec => InputsKept
BY FieldInvariant, WeightInvariant, PTL DEF InputsKept
==============================================================================
