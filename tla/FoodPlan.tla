------------------------------ MODULE FoodPlan ------------------------------
(***************************************************************************)
(* The food plan of one list: the day-by-meal grid and the food placed on  *)
(* it, in the database and in the Food view of one tab, while other tabs   *)
(* and devices write the same plan.                                        *)
(*                                                                         *)
(* A request and its answer are separate steps, and the answer may be lost *)
(* after the write committed.  The view keeps a cached copy (foodPage), one*)
(* read of the query in flight at most (foodRead), the days box, the       *)
(* editor dialog, and the editor's write in flight.  A repository method   *)
(* is one immediate transaction, hence one step.                           *)
(*                                                                         *)
(* Of an item's columns the model keeps its meals (at) and one column that *)
(* stands for the others (amount): all are patched and compared alike.     *)
(***************************************************************************)
EXTENDS Integers, FiniteSets

CONSTANTS
  FoodItem,    \* list_food_items ids
  OnList,      \* those the list starts with
  Meal,        \* MEALS
  DayCap,      \* FOOD_DAY_CAP
  Length,      \* trip lengths that somebody enters
  Amount,      \* values of the columns other than the meals
  PlanWrites   \* bound: writes that change the plan

ASSUME FoodAssumption ==
  /\ DayCap \in Nat /\ PlanWrites \in Nat /\ Length \subseteq 0 .. DayCap
  /\ OnList \subseteq FoodItem /\ IsFiniteSet(FoodItem) /\ IsFiniteSet(Meal) /\ Amount # {}

VARIABLES
  plan,      \* the rows of the database
  foodPage,  \* what the query cache holds
  foodRead,  \* the read of the query in flight
  foodStale, \* the query is invalidated and nothing refetches it
  daysBox,   \* the trip length being changed
  editor,    \* FoodItemDialog
  saving,    \* the editor's write in flight
  onView,    \* the Food view is mounted
  planned,   \* the placements on record when the days box looked: properties only
  lengthSet, \* the version of the newest trip length answered: likewise
  confirmed  \* the newest own write confirmed to the mounted view: likewise

foodVars == <<plan, foodPage, foodRead, foodStale, daysBox, editor, saving, onView,
              planned, lengthSet, confirmed>>

\* No read, no dialog, no write.
NoRead == [at |-> "none"]
Closed == [kind |-> "none"]

\* A slot row: its day, its meal, and the write that generated it (its identity).
SlotsOf(day, born) == [day : {day}, meal : Meal, born : {born}]

\* The items on the list; an id that went (p.gone) is not handed out again.
Rows(p) == DOMAIN p.items

\* The rows of list_food_item_slots: which item is eaten when.
Placements(p) == {pl \in Rows(p) \X p.slots : pl[2] \in p.items[pl[1]].at}

-----------------------------------------------------------------------------
(* The repository.                                                         *)

\* dayCount: derived from the rows, never stored.
DayCount(p) ==
  IF p.slots = {} THEN 0 ELSE CHOOSE d \in 1 .. DayCap :
    (\E s \in p.slots : s.day = d) /\ (\A s \in p.slots : s.day <= d)

\* Fault: the placements on the days that go are left to nobody.
TrimSlotsOnly(p, days) ==
  LET kept == {s \in p.slots : s.day <= days}
      new  == {s \in UNION {SlotsOf(d, p.ver + 1) : d \in 1 .. days} :
                 \A o \in p.slots : <<o.day, o.meal>> # <<s.day, s.meal>>}
  IN  [ver   |-> p.ver + 1,
       slots |-> kept \cup new,
       gone  |-> p.gone,
       items |-> p.items]

\* setDayCount: holes are filled, later days go and take their placements.
SetDayCount(p, days) ==
  LET present == {<<s.day, s.meal>> : s \in p.slots}
      missing == {s \in UNION {SlotsOf(d, p.ver + 1) : d \in 1 .. days} :
                    <<s.day, s.meal>> \notin present}
      kept    == {s \in p.slots : s.day <= days}
  IN  IF missing = {} /\ kept = p.slots THEN p
      ELSE [ver   |-> p.ver + 1,
            slots |-> kept \cup missing,
            gone  |-> p.gone,
            items |-> [i \in Rows(p) |-> [p.items[i] EXCEPT !.at = @ \cap kept]]]

OwnsAllSlots(p, ids) == ids \subseteq p.slots

\* The items with row as item i.
WithFood(items, i, row) == [j \in DOMAIN items \cup {i} |-> IF j = i THEN row ELSE items[j]]

CreateItem(p, i, row) ==
  IF i \notin Rows(p) \cup p.gone /\ OwnsAllSlots(p, row.at)
    THEN [p EXCEPT !.ver = @ + 1, !.items = WithFood(@, i, row)] ELSE p

\* updateItem: omitted fields are left alone; submitted meals replace the old ones.
UpdateFood(p, i, patch) ==
  IF i \in Rows(p) /\ ("at" \in DOMAIN patch => OwnsAllSlots(p, patch["at"]))
    THEN [p EXCEPT !.ver = @ + 1, !.items = WithFood(@, i,
            [amount |-> IF "amount" \in DOMAIN patch THEN patch["amount"] ELSE @[i].amount,
             at     |-> IF "at" \in DOMAIN patch THEN patch["at"] ELSE @[i].at])]
    ELSE p

DeleteFood(p, i) ==
  IF i \notin Rows(p) THEN p
  ELSE [p EXCEPT !.ver = @ + 1, !.gone = @ \cup {i},
                 !.items = [j \in Rows(p) \ {i} |-> @[j]]]

\* What a write makes of the plan: the plan itself where it is refused.
Served(p, w) ==
  CASE w.kind = "create" -> CreateItem(p, w.item, w.row)
    [] w.kind = "update" -> UpdateFood(p, w.item, w.patch)
    [] w.kind = "delete" -> DeleteFood(p, w.item)

-----------------------------------------------------------------------------
(* The query of the view.                                                  *)

\* Invalidation: a mounted query drops the read in flight and asks again; an
\* unmounted one is only marked.
InvalidatePlan ==
  IF onView THEN foodRead' = [at |-> "asked"] /\ foodStale' = FALSE
            ELSE foodStale' = TRUE /\ UNCHANGED foodRead

\* refetchOnWindowFocus, which joins a read that is in flight.
Focus ==
  /\ onView /\ foodRead.at = "none"
  /\ foodRead' = [at |-> "asked"]
  /\ UNCHANGED <<plan, foodPage, foodStale, daysBox, editor, saving, onView, planned, lengthSet, confirmed>>

\* forList answers from one transaction.
AnswerRead ==
  /\ foodRead.at = "asked"
  /\ foodRead' = [at |-> "answered", plan |-> plan]
  /\ UNCHANGED <<plan, foodPage, foodStale, daysBox, editor, saving, onView, planned, lengthSet, confirmed>>

\* The editor closes when its item is gone from a resolved plan.
ClosedIfGone(p) ==
  IF editor.kind = "update" /\ editor.item \notin Rows(p)
    THEN Closed ELSE editor

LandRead ==
  /\ foodRead.at = "answered"
  /\ foodPage' = foodRead.plan /\ foodRead' = NoRead /\ foodStale' = FALSE
  /\ editor' = ClosedIfGone(foodRead.plan)
  /\ UNCHANGED <<plan, daysBox, saving, onView, planned, lengthSet, confirmed>>

\* A read that failed leaves the cached plan and the mark.
FailRead ==
  /\ foodRead.at # "none"
  /\ foodRead' = NoRead /\ foodStale' = TRUE
  /\ UNCHANGED <<plan, foodPage, daysBox, editor, saving, onView, planned, lengthSet, confirmed>>

FoodBusy == daysBox.at # "idle" \/ saving.kind # "none"

\* Leaving and coming back to an idle view is no more than a refetch (Focus).
LeaveView ==
  /\ onView /\ FoodBusy
  /\ onView' = FALSE /\ editor' = Closed
  /\ UNCHANGED <<plan, foodPage, foodRead, foodStale, daysBox, saving, planned, lengthSet, confirmed>>

\* Mounting refetches a query that is marked or too old, or joins a read in flight.
\* Bound: nobody comes back before the writes of the last visit have settled.
ReturnToView ==
  /\ ~ onView
  /\ daysBox.at = "idle" /\ saving.kind = "none"
  /\ onView' = TRUE
  /\ \/ foodRead.at = "none" /\ foodRead' = [at |-> "asked"] /\ foodStale' = FALSE
     \/ (foodRead.at # "none" \/ ~ foodStale) /\ UNCHANGED <<foodRead, foodStale>>
  /\ UNCHANGED <<plan, foodPage, daysBox, editor, saving, planned, lengthSet, confirmed>>

-----------------------------------------------------------------------------
(* The days box.                                                           *)

BoxIdle == [at |-> "idle"]

\* Losing focus with a new number in range reads the plan, past the cache.
TypeDays(days) ==
  /\ onView /\ ~ FoodBusy /\ editor.kind = "none"
  /\ days # DayCount(foodPage)
  /\ daysBox' = [at |-> "reading", days |-> days]
  /\ UNCHANGED <<plan, foodPage, foodRead, foodStale, editor, saving, onView, planned, lengthSet, confirmed>>

\* Fault: the question is answered from the tab's own copy.
LookInCache == foodPage

\* The plan that decides whether to ask.
Looked == plan

ReadPlan ==
  /\ daysBox.at = "reading"
  /\ daysBox' = [at |-> "deciding", days |-> daysBox.days, current |-> Looked]
  /\ planned' = Placements(plan)
  /\ UNCHANGED <<plan, foodPage, foodRead, foodStale, editor, saving, onView, lengthSet, confirmed>>

\* The read failed: a toast, and nothing is written.
ReadPlanFails ==
  /\ daysBox.at = "reading"
  /\ daysBox' = BoxIdle
  /\ UNCHANGED <<plan, foodPage, foodRead, foodStale, editor, saving, onView, planned, lengthSet, confirmed>>

LosesWorkBelow(p, days) == \E pl \in Placements(p) : pl[2].day > days

\* The view decides, asking where planned meals would go; the user may decline.
DecideDays ==
  /\ daysBox.at = "deciding"
  /\ LET asks == daysBox.days < DayCount(daysBox.current)
                   /\ LosesWorkBelow(daysBox.current, daysBox.days)
     IN  \/ /\ daysBox.days # DayCount(daysBox.current)
            /\ daysBox' = [at |-> "sent", days |-> daysBox.days, asked |-> asks]
            /\ UNCHANGED <<foodRead, foodStale, planned>>
         \/ /\ daysBox.days = DayCount(daysBox.current) \/ asks
            /\ daysBox' = BoxIdle /\ planned' = {}
            /\ InvalidatePlan
  /\ UNCHANGED <<plan, foodPage, editor, saving, onView, lengthSet, confirmed>>

\* PUT /food/days commits and answers with the plan it made.
PutDays ==
  /\ daysBox.at = "sent" /\ plan.ver < PlanWrites
  /\ plan' = SetDayCount(plan, daysBox.days)
  /\ daysBox' = [at |-> "answered", plan |-> plan']
  /\ UNCHANGED <<foodPage, foodRead, foodStale, editor, saving, onView, planned, lengthSet, confirmed>>

\* Fault: a read that is under way is left to land.
MarkOnly == InvalidatePlan

\* cancelQueries, then the invalidation that follows the write to the cache.
CancelAndInvalidate ==
  IF onView THEN foodRead' = [at |-> "asked"] /\ foodStale' = FALSE
            ELSE foodRead' = NoRead /\ foodStale' = TRUE

\* The answer goes into the cache; reads that began before it are cancelled first.
DaysSaved ==
  /\ daysBox.at = "answered"
  /\ foodPage' = daysBox.plan
  /\ daysBox' = BoxIdle
  /\ CancelAndInvalidate
  /\ editor' = ClosedIfGone(daysBox.plan)
  /\ confirmed' = IF onView THEN daysBox.plan.ver ELSE confirmed
  /\ lengthSet' = daysBox.plan.ver
  /\ planned' = {}
  /\ UNCHANGED <<plan, saving, onView>>

\* Refused or unreachable, or the answer is lost: a toast and a refetch.
DaysFailed ==
  /\ daysBox.at \in {"sent", "answered"}
  /\ daysBox' = BoxIdle /\ planned' = {}
  /\ InvalidatePlan
  /\ UNCHANGED <<plan, foodPage, editor, saving, onView, lengthSet, confirmed>>
-----------------------------------------------------------------------------
(* The editor dialog and its write.                                        *)

\* What the fields of an empty form hold.
BlankAmount == CHOOSE a \in Amount : TRUE

\* Adding starts from nothing, from one meal, or from a whole day without any.
OpenAdd ==
  /\ onView /\ ~ FoodBusy /\ editor.kind = "none"
  /\ \E i \in FoodItem, at \in {{}} \cup {{s} : s \in foodPage.slots}
                              \cup {{s \in foodPage.slots : s.day = d} : d \in 1 .. DayCap} :
       /\ i \notin Rows(plan) \cup plan.gone
       /\ editor' = [kind |-> "create", item |-> i,
                      draft |-> [amount |-> BlankAmount, at |-> at]]
  /\ UNCHANGED <<plan, foodPage, foodRead, foodStale, daysBox, saving, onView, planned, lengthSet, confirmed>>

\* The item as the dialog opened is the baseline of the save.
OpenEdit(i) ==
  /\ onView /\ ~ FoodBusy /\ editor.kind = "none"
  /\ i \in Rows(foodPage)
  /\ editor' = [kind |-> "update", item |-> i,
                 base |-> foodPage.items[i], draft |-> foodPage.items[i]]
  /\ UNCHANGED <<plan, foodPage, foodRead, foodStale, daysBox, saving, onView, planned, lengthSet, confirmed>>

\* The selection that renders and submits: ids of slots that still exist.
Live(ids) == ids \cap foodPage.slots

EditDraft ==
  /\ editor.kind # "none" /\ saving.kind = "none"
  /\ \/ \E a \in Amount \ {editor.draft.amount} :
          editor' = [editor EXCEPT !.draft.amount = a]
     \/ \E s \in foodPage.slots :
          editor' = [editor EXCEPT !.draft.at =
                       IF s \in @ THEN Live(@) \ {s} ELSE Live(@) \cup {s}]
  /\ UNCHANGED <<plan, foodPage, foodRead, foodStale, daysBox, saving, onView, planned, lengthSet, confirmed>>

CloseEditor ==
  /\ editor.kind # "none"
  /\ editor' = Closed
  /\ UNCHANGED <<plan, foodPage, foodRead, foodStale, daysBox, saving, onView, planned, lengthSet, confirmed>>

\* Fault: the draft is compared with the item as the cache has it now.
DiffWithCache(e) ==
  LET row == foodPage.items[e.item]
  IN  {f \in {"amount", "at"} : IF f = "at" THEN Live(row.at) # Live(e.draft.at)
                                           ELSE row[f] # e.draft[f]}

\* foodItemPatch: the fields that differ from the baseline, both seen alive.
FoodItemPatch(e) ==
  {f \in {"amount", "at"} : IF f = "at" THEN Live(e.base.at) # Live(e.draft.at)
                                       ELSE e.base[f] # e.draft[f]}

\* What the user changed in the dialog, whatever has become of the meals since.
Touched(e) == {f \in {"amount", "at"} : e.base[f] # e.draft[f]}

Submit ==
  /\ editor.kind # "none" /\ saving.kind = "none"
  /\ \/ /\ editor.kind = "create"
        /\ saving' = [kind |-> "create", item |-> editor.item, done |-> FALSE,
                       row |-> [editor.draft EXCEPT !.at = Live(@)]]
        /\ UNCHANGED editor
     \/ /\ editor.kind = "update" /\ FoodItemPatch(editor) # {}
        /\ saving' = [kind |-> "update", item |-> editor.item, done |-> FALSE,
                       patch |-> [f \in FoodItemPatch(editor) |->
                                    IF f = "at" THEN Live(editor.draft.at) ELSE editor.draft[f]],
                       touched |-> Touched(editor)]
        /\ UNCHANGED editor
     \/ /\ editor.kind = "update" /\ FoodItemPatch(editor) = {}
        /\ editor' = Closed
        /\ UNCHANGED saving
  /\ UNCHANGED <<plan, foodPage, foodRead, foodStale, daysBox, onView, planned, lengthSet, confirmed>>

RemoveFood ==
  /\ editor.kind = "update" /\ saving.kind = "none"
  /\ saving' = [kind |-> "delete", item |-> editor.item, done |-> FALSE]
  /\ UNCHANGED <<plan, foodPage, foodRead, foodStale, daysBox, editor, onView, planned, lengthSet, confirmed>>

CommitSave ==
  /\ saving.kind # "none" /\ ~ saving.done /\ plan.ver < PlanWrites
  /\ plan' = Served(plan, saving) /\ plan' # plan
  /\ saving' = [saving EXCEPT !.done = TRUE]
  /\ UNCHANGED <<foodPage, foodRead, foodStale, daysBox, editor, onView, planned, lengthSet, confirmed>>

\* Fault: the dialog closes and the plan is not read again.
ConfirmedQuietly ==
  /\ saving.kind # "none" /\ saving.done
  /\ saving' = Closed /\ editor' = Closed
  /\ confirmed' = IF onView THEN plan.ver ELSE confirmed
  /\ UNCHANGED <<plan, foodPage, foodRead, foodStale, daysBox, onView, planned, lengthSet>>

SaveConfirmed ==
  /\ saving.kind # "none" /\ saving.done
  /\ saving' = Closed /\ editor' = Closed
  /\ InvalidatePlan
  /\ confirmed' = IF onView THEN plan.ver ELSE confirmed
  /\ UNCHANGED <<plan, foodPage, daysBox, onView, planned, lengthSet>>

\* Refused, unreachable, or the answer is lost: the dialog says it could not
\* confirm the change, and nothing is read again.
SaveUnconfirmed ==
  /\ saving.kind # "none"
  /\ saving' = Closed
  /\ UNCHANGED <<plan, foodPage, foodRead, foodStale, daysBox, editor, onView, planned, lengthSet, confirmed>>

\* Another tab or device writes the plan.  Bound: all the meals or none.
OtherClients ==
  /\ plan.ver < PlanWrites
  /\ \/ \E days \in Length : plan' = SetDayCount(plan, days)
     \/ \E i \in FoodItem :
          \/ plan' = CreateItem(plan, i, [amount |-> BlankAmount, at |-> plan.slots])
          \/ \E a \in Amount : plan' = UpdateFood(plan, i, [amount |-> a])
          \/ \E at \in {{}, plan.slots} : plan' = UpdateFood(plan, i, [at |-> at])
          \/ plan' = DeleteFood(plan, i)
  /\ plan' # plan
  /\ UNCHANGED <<foodPage, foodRead, foodStale, daysBox, editor, saving, onView, planned, lengthSet, confirmed>>

-----------------------------------------------------------------------------
FoodInit ==
  /\ LET grid == UNION {SlotsOf(d, 0) : d \in 1 .. DayCap}
     IN  plan = [ver |-> 0, slots |-> grid,
                 gone |-> {},
                 items |-> [i \in OnList |-> [amount |-> BlankAmount,
                                             at |-> {s \in grid : s.day = 1}]]]
  /\ foodPage = plan /\ foodRead = NoRead /\ foodStale = FALSE
  /\ daysBox = BoxIdle /\ editor = Closed /\ saving = Closed
  /\ onView = TRUE /\ planned = {} /\ lengthSet = 0 /\ confirmed = 0

FoodNext ==
  \/ Focus \/ AnswerRead \/ LandRead \/ FailRead \/ LeaveView \/ ReturnToView
  \/ (\E days \in Length : TypeDays(days))
  \/ ReadPlan \/ ReadPlanFails \/ DecideDays \/ PutDays \/ DaysSaved \/ DaysFailed
  \/ OpenAdd \/ (\E i \in FoodItem : OpenEdit(i)) \/ EditDraft \/ CloseEditor
  \/ Submit \/ RemoveFood \/ CommitSave \/ SaveConfirmed \/ SaveUnconfirmed
  \/ OtherClients

FoodSpec == FoodInit /\ [][FoodNext]_foodVars

-----------------------------------------------------------------------------
(* Properties                                                              *)

\* One slot for every day and meal up to the last day, and food on those only.
WholeGrid(p) ==
  /\ \A s \in p.slots, m \in Meal : \A d \in 1 .. s.day :
       \E o \in p.slots : o.day = d /\ o.meal = m
  /\ \A s, o \in p.slots : <<s.day, s.meal>> = <<o.day, o.meal>> => s = o
  /\ \A i \in Rows(p) : p.items[i].at \subseteq p.slots

\* The plan on record and the plan on the page are whole grids: trimming, extending
\* and the writes of the editor in any order never leave a hole, a second slot for
\* a meal, or a placement on a day that went.
GridWhole == WholeGrid(plan) /\ WholeGrid(foodPage)

\* Meals planned on the days that go are never deleted behind the user's back:
\* this tab's trip length deletes a placement only if the user was asked, or it
\* was made after the tab looked at the plan.
TrimAsked ==
  [][plan' # plan /\ daysBox.at = "sent" /\ daysBox'.at = "answered" /\ ~ daysBox.asked
       => (Placements(plan) \ Placements(plan')) \cap planned = {}]_foodVars

\* Saving the editor never overwrites a field its user left alone, whatever other
\* clients and background reads did to the item or the grid while it was open.
UntouchedKept ==
  [][(CommitSave /\ saving.kind = "update") =>
       \A f \in {"amount", "at"} \ saving.touched :
         plan'.items[saving.item][f] = plan.items[saving.item][f]]_foodVars

\* The page never falls back behind the trip length it was told is saved: no read
\* that began earlier undoes the answer, whether or not the view is still up.
LengthKept == foodPage.ver >= lengthSet

\* Once nothing is in flight and no read has failed, the page shows every write of
\* its own that the server confirmed.
ConfirmedShown ==
  (foodRead.at = "none" /\ ~ foodStale) => foodPage.ver >= confirmed

\* A confirmed change of the plan stays on the page, and every copy of the plan is a
\* whole grid.
PlanHolds == ConfirmedShown /\ LengthKept /\ GridWhole

\* Trimming and saving take from the plan only what the user gave up.
EditsAsMeant == TrimAsked /\ UntouchedKept
=============================================================================
