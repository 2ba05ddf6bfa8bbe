---------------------------- MODULE ListWeights ----------------------------
(***************************************************************************)
(* What a list weighs, as its page draws it from two caches that may be of *)
(* different times (the list, and the categories), and as its share link   *)
(* draws it from what the server has: the sections a list falls into, the  *)
(* footer of each, and the summary over them.  No section adds up its own  *)
(* rows; the footers and the summary are both read from one breakdown.     *)
(*                                                                         *)
(* Left out: rounding, units, the order of sections and of rows.  A row's  *)
(* grams are its weight times its quantity.                                *)
(***************************************************************************)
EXTENDS Library, FiniteSetsExt

CONSTANTS
  GramsOf,     \* of gear: its grams on the list
  Worn,        \* rows with the worn flag
  Consumable,  \* rows with the consumable flag: a check of the table admits one of the two
  FoodGrams    \* of the list's food

ASSUME WeightsAssumption ==
  /\ GramsOf \in [Gear -> Nat] /\ FoodGrams \in Nat
  /\ Worn \subseteq Gear /\ Consumable \subseteq Gear /\ Worn \cap Consumable = {}

Buckets == {"base", "consumable", "worn"}

BucketOf(g) ==
  CASE g \in Consumable -> "consumable"
    [] g \in Worn -> "worn"
    [] OTHER -> "base"

\* Fault: a category is taken as it is, whether it is known or not.
AsItIs(c, cs) == c

\* A category that the categories do not have counts as none.
KnownCategory(c, cs) == IF c \in cs THEN c ELSE NoCat

-----------------------------------------------------------------------------
(* The breakdown                                                           *)

\* The sum over items that every one of its totals is.
GramsOfAll(items) == MapThenSumSet(LAMBDA g : GramsOf[g], items)

\* catRows, consumableCatRows, wornCatRows: the categories that have rows of a
\* bucket, each with its grams.
CategoryRows(bucket, rows, cs) ==
  LET its == {g \in DOMAIN rows : BucketOf(g) = bucket}
  IN  [c \in {KnownCategory(rows[g], cs) : g \in its} \cap (cs \cup {NoCat}) |->
         GramsOfAll({g \in its : KnownCategory(rows[g], cs) = c})]

TotalOf(catRows) == MapThenSumSet(LAMBDA c : catRows[c], DOMAIN catRows)

\* Base is the sum of its rows; the other two are added up on their own.
GearBreakdown(rows, cs) ==
  LET added(bucket) == GramsOfAll({g \in DOMAIN rows : BucketOf(g) = bucket})
      per  == [b \in Buckets |-> CategoryRows(b, rows, cs)]
      base == TotalOf(per["base"])
  IN  [rows |-> per, base |-> base, consumable |-> added("consumable"), worn |-> added("worn"),
       total |-> base + added("consumable")]

\* Fault: food is left to the caller, and the caller forgets it.
WithoutFood(gearOnly, food) == gearOnly

\* Food is consumable, and in no category.
WithFood(gearOnly, food) ==
  [gearOnly EXCEPT !.consumable = @ + food, !.total = @ + food]

ListBreakdown(rows, cs, food) == WithFood(GearBreakdown(rows, cs), food)

\* A category without a row weighs nothing.
GramsForCategory(breakdown, bucket, c) ==
  IF c \in DOMAIN breakdown.rows[bucket] THEN breakdown.rows[bucket][c] ELSE 0

-----------------------------------------------------------------------------
(* What is drawn                                                           *)

\* Fault: on a list as in the library, a row of an unknown category is not drawn.
OrphansDropped(rows, cs) ==
  LET of(c) == {g \in DOMAIN rows : rows[g] = c}
  IN  [c \in {c \in cs \cup {NoCat} : of(c) # {}} |-> of(c)]

\* groupListItemsByCategory: no empty section, unknown categories under none.
ListSections(rows, cs) ==
  LET of(c) == {g \in DOMAIN rows : KnownCategory(rows[g], cs) = c}
  IN  [c \in {c \in cs \cup {NoCat} : of(c) # {}} |-> of(c)]

\* groupGearItemsByCategory: empty sections stay, unknown categories are dropped.
GearSections(rows, cs) ==
  LET of(c) == {g \in DOMAIN rows : rows[g] = c}
  IN  [c \in cs \cup {c \in {NoCat} : of(c) # {}} |-> of(c)]

\* A footer names the buckets that weigh something.
FooterOf(breakdown, c) ==
  LET grams(b) == GramsForCategory(breakdown, b, c)
  IN  [b \in {b \in Buckets : grams(b) > 0} |-> grams(b)]

\* The summary, or nothing for a list that is empty and weighs nothing.
SummaryOf(rows, breakdown) ==
  IF DOMAIN rows = {} /\ breakdown.total = 0 THEN [hidden |-> TRUE]
  ELSE [hidden |-> FALSE, base |-> breakdown.base, total |-> breakdown.total,
        consumable |-> breakdown.consumable, worn |-> breakdown.worn,
        categories |-> breakdown.rows["base"]]

\* The sections with their footers, the food's own, and the summary.
Drawn(rows, cs, food) ==
  LET breakdown == ListBreakdown(rows, cs, food)
      sections  == ListSections(rows, cs)
  IN  [sections |-> sections, footers |-> [c \in DOMAIN sections |-> FooterOf(breakdown, c)],
       food |-> food, summary |-> SummaryOf(rows, breakdown)]

\* The list's page, once its list is read.
DrawnPage == Drawn(held["list"], held["cats"], FoodGrams)

\* getBySlug: the list's rows, and of the categories those that its gear is in.
SharedRows == RowsOf("list")
SharedCategories == {SharedRows[g] : g \in DOMAIN SharedRows} \cap cats

\* The share page: one read of both, drawn with the same functions.
DrawnShare == Drawn(SharedRows, SharedCategories, FoodGrams)

-----------------------------------------------------------------------------
(* Properties                                                              *)

\* What is drawn adds up: every row is in one section, and the footers of a bucket
\* come to that bucket of the summary, the food's own footer with the consumables.
AddsUp(drawn, rows) ==
  LET footers(b) ==
        MapThenSumSet(LAMBDA c : drawn.footers[c][b],
                      {c \in DOMAIN drawn.footers : b \in DOMAIN drawn.footers[c]})
  IN  /\ \A g \in DOMAIN rows :
           Cardinality({c \in DOMAIN drawn.sections : g \in drawn.sections[c]}) = 1
      /\ ~ drawn.summary.hidden =>
           /\ drawn.summary.base = footers("base")
           /\ drawn.summary.consumable = footers("consumable") + drawn.food
           /\ drawn.summary.worn = footers("worn")
           /\ drawn.summary.total = drawn.summary.base + drawn.summary.consumable

\* A list's page adds up whatever its two caches hold: a category made or deleted,
\* or gear filed elsewhere, reaches them at different times.
PageAddsUp == "list" \in DOMAIN held => AddsUp(DrawnPage, held["list"])

\* These caches are at rest: nothing under way, marked or missed (see CachesAgree).
AtRest(ks) ==
  /\ libJobs = {} /\ ks \subseteq DOMAIN held \ (marked \cup missed)
  /\ \A k \in ks : reads[k] = NoRead

\* The owner and a visitor see one pack: a page at rest has the sections, the
\* footers and the summary of its share, though the share is told only of the
\* categories its gear is in.
ShareAgrees == AtRest({"list", "cats"}) => DrawnPage = DrawnShare

\* Nothing is out of sight in a library at rest: gear whose category the page does
\* not know is drawn nowhere, so the two caches must come to agree.
GearInSight ==
  AtRest({"gear", "cats"}) =>
    LET sections == GearSections(held["gear"], held["cats"])
    IN  UNION {sections[c] : c \in DOMAIN sections} = DOMAIN gear

\* The rows refer to rows that are there, every cache comes to rest on them, and
\* what is drawn from caches at rest is what the server has.
LibraryHolds == CategoriesExist /\ CachesAgree /\ ShareAgrees /\ GearInSight
=============================================================================
