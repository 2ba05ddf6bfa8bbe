----------------------------- MODULE CsvImport -----------------------------
(***************************************************************************)
(* Importing a CSV file: reading it, planning it against the library the   *)
(* page has read, one request, and what the page makes of the answer.  The *)
(* gear page and the lists pages have the same flow; `importing` says      *)
(* which one this is.                                                      *)
(*                                                                         *)
(* The plan is made in the browser, from rows read some time ago, and      *)
(* carried out by the server in one transaction, against the rows it has   *)
(* by then.  The answer may be lost on the way.                            *)
(*                                                                         *)
(* Left out: descriptions, dates and quantities, the lists themselves (an  *)
(* import always makes a new one), and leaving the page half way.          *)
(***************************************************************************)
EXTENDS Integers, FiniteSets, FiniteSetsExt

CONSTANTS
  Files,       \* the files at hand: columns, rows by line, what an export holds
  Fold,        \* a text in Unicode normal form and lower case
  Lower,       \* a text in lower case
  Escaped,     \* a text as escapeCell writes it: text a spreadsheet would run
               \* gets an apostrophe
  NoText,       \* the empty text
  OwnGear,     \* [cats, gear]: what the account starts with, names by id and rows
  NewCat,      \* a category another tab may add
  ItemCap,     \* GEAR_ITEM_CAP
  CatCap,      \* CATEGORY_CAP
  RowCap,      \* LIST_ITEM_CAP
  GramsCap,    \* MAX_ITEM_WEIGHT_GRAMS
  MaxCost,     \* MAX_COST
  TooLong,     \* texts longer than MAX_CATEGORY_NAME
  ImportTries, \* bound: imports confirmed
  OtherWrites  \* bound: writes of another tab

Text == DOMAIN Lower
Unknown == -1      \* a cost of null; 0 is free
NullId == 0        \* the category of uncategorized gear
Cost == {Unknown} \cup 0 .. MaxCost
FirstId == 1 + Cardinality(OwnGear.gear) + Cardinality(DOMAIN OwnGear.cats)

\* The cells of a row of a file, and the columns of what it costs that a file has.
Cells == [name : Text, cat : Text, weight : Int, unit : {"g", "gram", "oz"}, cost : Int, price : Int,
          worn : BOOLEAN, consumable : BOOLEAN]

\* What the schemas of the server let in: no row without a name, no number out of range.
ASSUME ImportAssumption ==
  /\ NoText \in Text /\ NewCat \in Text \ {NoText}
  /\ \A t \in Text : Lower[t] = Lower[NoText] => t = NoText
  /\ \A t \in Text : Escaped[t] \in Text /\ (Escaped[t] = NoText <=> t = NoText)
  /\ {ItemCap, CatCap, RowCap, GramsCap, MaxCost, ImportTries, OtherWrites} \subseteq Nat
  /\ \A f \in Files :
       /\ f = [cols |-> f.cols, rows |-> f.rows, holds |-> f.holds]
       /\ f.cols \subseteq {"cost", "price"}
       /\ IsFiniteSet(DOMAIN f.rows) /\ DOMAIN f.rows \subseteq Nat \ {0}
       /\ \A n \in DOMAIN f.rows : f.rows[n] \in Cells
  /\ OwnGear = [cats |-> OwnGear.cats, gear |-> OwnGear.gear]
  /\ IsFiniteSet(DOMAIN OwnGear.cats) /\ DOMAIN OwnGear.cats \subseteq 1 .. FirstId - 1
  /\ \A c \in DOMAIN OwnGear.cats : OwnGear.cats[c] \in Text \ {NoText}
  /\ IsFiniteSet(OwnGear.gear)
  /\ OwnGear.gear \subseteq [id : 1 .. FirstId - 1, name : Text \ {NoText}, weight : 0 .. GramsCap,
                             cost : Cost, cat : {NullId} \cup DOMAIN OwnGear.cats]
  /\ \A g, h \in OwnGear.gear : g.id = h.id => g = h

VARIABLES
  importing,   \* "gear" or "list"
  shelf,       \* server: [cats: names by id, later ones last; gear: a set]
  nextId,      \* server: the next id handed out
  pageSeen,        \* the page's rows, as last read
  warm,        \* which of them a fetchQuery takes as they are
  surface,     \* the flow's dialog
  page,        \* whether the page has a dialog or an editor of its own open
  parsing,     \* the file being read, or nothing
  request,     \* the mutation
  saved,       \* an export the user has kept: properties know what it holds
  importsConfirmed,   \* ids of gear whose import was answered: properties only
  tries, others

csvVars == <<importing, shelf, nextId, pageSeen, warm, surface, page, parsing, request,
             saved, importsConfirmed, tries, others>>
csvPage == <<surface, page, parsing>>

NoFile == [cols |-> {}, rows |-> <<>>, holds |-> {}]

-----------------------------------------------------------------------------
(* Reading a file.  A row is a record of cells.  A weight that is not a    *)
(* number reads as one below 0, and so does a cost.                        *)

ToGrams(w, unit) ==
  LET grams == IF unit = "oz" THEN w * 28 ELSE w
  IN IF w < 0 THEN 0 ELSE IF grams > GramsCap THEN GramsCap ELSE grams

\* A cost that cannot be read, or that the server would not take, is not known.
Saturated(cents) == IF cents < 0 THEN Unknown ELSE cents
ParseCost(cents) == IF cents \in 0..MaxCost THEN cents ELSE Unknown

\* A price of 0 is how Lighterpack, and our older exports, say nothing.
ParseCostFromColumn(cents, kind) ==
  IF kind = "price" /\ cents = 0 THEN Unknown ELSE ParseCost(cents)

\* Our own column wins: older exports have a price of 0 beside it on every row.
PriceFirst(cols) == IF "price" \in cols THEN "price" ELSE "cost"
CostKind(cols) == IF "cost" \in cols THEN "cost" ELSE "price"

CostOf(row, cols) ==
  IF cols = {} THEN Unknown ELSE ParseCostFromColumn(row[CostKind(cols)], CostKind(cols))

\* An item cannot be worn and consumable: a row that says both gets neither.
BothFlags(row) == [worn |-> row.worn, consumable |-> row.consumable]
Flags(row) ==
  IF row.worn /\ row.consumable THEN [worn |-> FALSE, consumable |-> FALSE]
  ELSE [worn |-> row.worn, consumable |-> row.consumable]

ParsedRow(row, cols) ==
  [name |-> row.name, cat |-> row.cat, weight |-> ToGrams(row.weight, row.unit),
   cost |-> CostOf(row, cols), flags |-> Flags(row)]

\* Rows without a name are dropped.
Parsed(file) ==
  [n \in {m \in DOMAIN file.rows : file.rows[m].name # NoText} |->
     ParsedRow(file.rows[n], file.cols)]

-----------------------------------------------------------------------------
(* Writing a file.  The gear export; `older` is one kept since the time    *)
(* exports had a price column too, with 0 in every row.                    *)

\* Text that a spreadsheet would run gets an apostrophe; reading it back keeps that.
EscapeCell(text) == Escaped[text]

CatName(cats, id) ==
  IF id \in DOMAIN cats THEN cats[id] ELSE NoText

GearItemsToCsv(lib, older) ==
  LET Row(g) == [name |-> EscapeCell(g.name), cat |-> EscapeCell(CatName(lib.cats, g.cat)),
                 weight |-> g.weight, unit |-> "gram", cost |-> g.cost, price |-> 0,
                 worn |-> FALSE, consumable |-> FALSE]
  IN [cols |-> IF older THEN {"cost", "price"} ELSE {"cost"},
      rows |-> [n \in {g.id : g \in lib.gear} |-> Row(CHOOSE g \in lib.gear : g.id = n)],
      holds |-> {[name |-> Fold[EscapeCell(g.name)], weight |-> g.weight, cost |-> g.cost,
                  cat |-> Lower[EscapeCell(CatName(lib.cats, g.cat))]] : g \in lib.gear}]

-----------------------------------------------------------------------------
(* The plan.  Temporary ids are below 0: one for the row that brings a new *)
(* category, another for the row that brings new gear.                     *)

NewRefs(rows, cats) ==
  {i \in DOMAIN rows :
     /\ rows[i].cat # NoText
     /\ \A c \in DOMAIN cats : Lower[cats[c]] # Lower[rows[i].cat]
     /\ \A j \in DOMAIN rows : j < i => Lower[rows[j].cat] # Lower[rows[i].cat]}

PlanNewCategories(rows, cats) == {[tempId |-> -i, name |-> rows[i].cat] : i \in NewRefs(rows, cats)}

\* refByLowerName: of categories that differ in case only, the last one.
CategoryRef(rows, cats, i) ==
  LET same == {c \in DOMAIN cats : Lower[cats[c]] = Lower[rows[i].cat]}
  IN IF rows[i].cat = NoText THEN [kind |-> "none", id |-> NullId]
     ELSE IF same # {} THEN [kind |-> "existing", id |-> Max(same)]
     ELSE [kind |-> "new",
           id |-> -(CHOOSE j \in NewRefs(rows, cats) : Lower[rows[j].cat] = Lower[rows[i].cat])]

NullWhenNew(ref) == IF ref.kind = "existing" THEN ref.id ELSE NullId
CategoryRefId(ref) == ref.id

ExactKey(cat, name, weight) == <<cat, name, weight>>
GearKey(cat, name, weight) == <<cat, Fold[name], weight>>

Matches(rows, lib, i) ==
  {g \in lib.gear :
     GearKey(g.cat, g.name, g.weight)
       = GearKey(CategoryRefId(CategoryRef(rows, lib.cats, i)), rows[i].name, rows[i].weight)}

\* What both imports ask for: the new gear, and for a list an item for every row.
NewRows(rows, lib) == {i \in DOMAIN rows : Matches(rows, lib, i) = {}}
PlannedGear(rows, lib) ==
  {[tempId |-> -(100 + i), name |-> rows[i].name, weight |-> rows[i].weight,
    cost |-> rows[i].cost, category |-> CategoryRef(rows, lib.cats, i)] : i \in NewRows(rows, lib)}

NoItems == [i \in {} |-> 0]

PlanGearImport(rows, lib) ==
  [cats |-> PlanNewCategories(rows, lib.cats), gear |-> PlannedGear(rows, lib), items |-> NoItems]

PlanListImport(rows, lib) ==
  [cats |-> PlanNewCategories(rows, lib.cats), gear |-> PlannedGear(rows, lib),
   items |-> [i \in DOMAIN rows |->
     [gear |-> IF i \in NewRows(rows, lib) THEN [kind |-> "new", id |-> -(100 + i)]
               ELSE [kind |-> "existing", id |-> (CHOOSE g \in Matches(rows, lib, i) : TRUE).id],
      flags |-> rows[i].flags, sortOrder |-> Cardinality({j \in DOMAIN rows : j < i})]]]

WithinCaps(plan, lib) ==
  /\ Cardinality(DOMAIN plan.items) <= RowCap
  /\ Cardinality(lib.gear) + Cardinality(plan.gear) <= ItemCap
  /\ Cardinality(DOMAIN lib.cats) + Cardinality(plan.cats) <= CatCap

-----------------------------------------------------------------------------
(* The server: what the schemas accept, and one transaction.               *)

\* refineTempIdRelations: every temporary id declared once, and each of them used.
Related(declared, refs) ==
  /\ \A d, e \in declared : d.tempId = e.tempId => d = e
  /\ {d.tempId : d \in declared} = {r.id : r \in {s \in refs : s.kind = "new"}}

ItemsAccepted(plan) ==
  /\ Related(plan.gear, {plan.items[i].gear : i \in DOMAIN plan.items})
  /\ \A i, j \in DOMAIN plan.items : plan.items[i].sortOrder = plan.items[j].sortOrder => i = j
  /\ \A i \in DOMAIN plan.items : ~(plan.items[i].flags.worn /\ plan.items[i].flags.consumable)

Accepted(kind, plan) ==
  /\ \A c \in plan.cats : c.name \notin TooLong
  /\ \A g \in plan.gear : g.weight \in 0..GramsCap /\ g.cost \in {Unknown} \cup 0..MaxCost
  /\ Related(plan.cats, {g.category : g \in plan.gear})
  /\ kind = "list" => ItemsAccepted(plan)

Present(kind, plan) == IF kind = "list" THEN DOMAIN plan.items # {} ELSE plan.gear # {}

\* Ids that are there: categories and, for a list, gear.
Owned(kind, plan) ==
  /\ \A g \in plan.gear : g.category.kind = "existing"
       => g.category.id \in DOMAIN shelf.cats
  /\ kind = "list" => \A i \in DOMAIN plan.items : plan.items[i].gear.kind = "existing"
       => \E g \in shelf.gear : g.id = plan.items[i].gear.id

\* Categories are listed in the order of their ids.
WithNames(names, new) ==
  [c \in DOMAIN names \cup DOMAIN new |-> IF c \in DOMAIN names THEN names[c] ELSE new[c]]

\* New ids, from nextId on: the categories first, then the gear, each in the plan's order.
Rank(S, x) == Cardinality({y \in S : y.tempId > x.tempId})
NewIdOf(plan, tempId) ==
  nextId + Rank(plan.cats, CHOOSE c \in plan.cats : c.tempId = tempId)
ImportedCats(plan) ==
  [n \in {NewIdOf(plan, c.tempId) : c \in plan.cats} |->
     (CHOOSE c \in plan.cats : NewIdOf(plan, c.tempId) = n).name]
ImportedGear(plan) ==
  {[id |-> nextId + Cardinality(plan.cats) + Rank(plan.gear, g),
    name |-> g.name, weight |-> g.weight, cost |-> g.cost,
    cat |-> IF g.category.kind = "new" THEN NewIdOf(plan, g.category.id) ELSE g.category.id]
   : g \in plan.gear}

-----------------------------------------------------------------------------
(* The flow's dialogs.                                                     *)

SurfaceClosed == [at |-> "none", file |-> NoFile, sure |-> TRUE, landed |-> FALSE]
Explainer == [SurfaceClosed EXCEPT !.at = "explainer"]
Preview(file) == [SurfaceClosed EXCEPT !.at = "preview", !.file = file]

\* landed: what the server did by then, for the properties.
ImportError(sure, landed) == [SurfaceClosed EXCEPT !.at = "error", !.sure = sure, !.landed = landed]

\* onBeforeOpen: the page closes what it has open.
StaysOpen == page' = page
LeavesPageFirst == page' = FALSE

CsvOpenExplainer ==
  /\ LeavesPageFirst
  /\ surface' = Explainer
  /\ UNCHANGED <<importing, shelf, nextId, pageSeen, warm, parsing, request, saved, importsConfirmed, tries, others>>

CsvClose ==
  /\ surface.at # "none"
  /\ surface' = SurfaceClosed
  /\ UNCHANGED <<importing, shelf, nextId, pageSeen, warm, page, parsing, request, saved, importsConfirmed, tries, others>>

\* Continue, and a file chosen in the picker.
CsvContinue ==
  \E f \in Files \cup {saved} :
    /\ surface.at = "explainer" /\ parsing = NoFile /\ f # NoFile
    /\ surface' = SurfaceClosed /\ parsing' = f
    /\ UNCHANGED <<importing, shelf, nextId, pageSeen, warm, page, request, saved, importsConfirmed, tries, others>>

\* The file has been read, or could not be.
CsvRead ==
  /\ parsing # NoFile
  /\ LeavesPageFirst
  /\ surface' \in {Preview(parsing), ImportError(TRUE, FALSE)}
  /\ parsing' = NoFile
  /\ UNCHANGED <<importing, shelf, nextId, pageSeen, warm, request, saved, importsConfirmed, tries, others>>

\* The page opens something of its own: the flow's dialogs are modal.
CsvPageOpens ==
  /\ surface.at = "none" /\ ~page
  /\ page' = TRUE
  /\ UNCHANGED <<importing, shelf, nextId, pageSeen, warm, surface, parsing, request, saved, importsConfirmed, tries, others>>

\* The user downloads the gear export, or finds an old one.
CsvDownload ==
  \E older \in BOOLEAN :
    /\ saved = NoFile
    /\ saved' = GearItemsToCsv(pageSeen, older)
    /\ UNCHANGED <<importing, shelf, nextId, pageSeen, warm, surface, page, parsing, request, importsConfirmed, tries, others>>

-----------------------------------------------------------------------------
(* The mutation.                                                           *)

NoNames == [c \in {} |-> NoText]

\* made: the ids it was given, for the properties.
Idle == [stage |-> "idle", file |-> NoFile, made |-> {},
         from |-> [cats |-> NoNames, gear |-> {}],
         plan |-> [cats |-> {}, gear |-> {}, items |-> NoItems]]

PlanFor(kind, file, lib) ==
  IF kind = "list" THEN PlanListImport(Parsed(file), lib) ELSE PlanGearImport(Parsed(file), lib)

\* importErrorMessage: only a cap found here and a refusal say for certain that nothing
\* was imported.
AnyAnswer(outcome) == outcome # "nothing"
SureOf(outcome) == outcome \in {"cap", "refused"}

Fails(outcome, landed) ==
  /\ LeavesPageFirst
  /\ surface' = ImportError(SureOf(outcome), landed)
  /\ request' = Idle

\* The mutation function from the plan on: what it is planned against is the page's rows
\* for gear, and what fetchQuery resolved for a list.
Planned(file) ==
  LET plan == PlanFor(importing, file, pageSeen)
  IN IF importing = "gear" /\ plan.gear = {}
       THEN surface' = SurfaceClosed /\ request' = Idle /\ warm' = {} /\ UNCHANGED page
     ELSE IF ~WithinCaps(plan, pageSeen) THEN Fails("cap", FALSE) /\ UNCHANGED warm
     ELSE /\ request' = [Idle EXCEPT !.stage = "sent", !.file = file, !.from = pageSeen, !.plan = plan]
          /\ UNCHANGED <<surface, page, warm>>

\* "Import N items": disabled while an import is out.
CsvConfirm ==
  /\ surface.at = "preview" /\ request = Idle /\ tries > 0
  /\ tries' = tries - 1
  /\ IF importing = "gear" \/ warm = {"gear", "cats"} THEN Planned(surface.file)
     ELSE /\ request' = [Idle EXCEPT !.stage = "resolving", !.file = surface.file]
          /\ UNCHANGED <<surface, page, warm>>
  /\ UNCHANGED <<importing, shelf, nextId, pageSeen, parsing, saved, importsConfirmed, others>>

CsvResolved ==
  /\ request.stage = "resolving" /\ warm = {"gear", "cats"}
  /\ Planned(request.file)
  /\ UNCHANGED <<importing, shelf, nextId, pageSeen, parsing, saved, importsConfirmed, tries, others>>

\* The request reaches the server.
CsvLand ==
  LET plan == request.plan
      fits == /\ Cardinality(shelf.gear) + Cardinality(plan.gear) <= ItemCap
              /\ Cardinality(DOMAIN shelf.cats) + Cardinality(plan.cats) <= CatCap
  IN /\ request.stage = "sent"
     /\ IF Accepted(importing, plan) /\ Present(importing, plan) /\ Owned(importing, plan) /\ fits
          THEN /\ shelf' = [cats |-> WithNames(shelf.cats, ImportedCats(plan)),
                            gear |-> shelf.gear \cup ImportedGear(plan)]
               /\ nextId' = nextId + Cardinality(plan.cats) + Cardinality(plan.gear)
               /\ request' = [request EXCEPT !.stage = "landed",
                                               !.made = {g.id : g \in ImportedGear(plan)}]
          ELSE request' = [request EXCEPT !.stage = "refused"] /\ UNCHANGED <<shelf, nextId>>
     /\ UNCHANGED <<importing, pageSeen, warm, surface, page, parsing, saved, importsConfirmed, tries, others>>

\* onSuccess: the rows are read again; a list import goes to its list.
ListsOnly == {}

ReadAgain == {"gear", "cats"}

CsvDone ==
  /\ request.stage = "landed"
  /\ surface' = SurfaceClosed /\ request' = Idle
  /\ page' = (page /\ importing = "gear")
  /\ warm' = warm \ ReadAgain
  /\ importsConfirmed' = importsConfirmed \cup request.made
  /\ UNCHANGED <<importing, shelf, nextId, pageSeen, parsing, saved, tries, others>>

CsvRefused ==
  /\ request.stage = "refused"
  /\ Fails("refused", FALSE)
  /\ UNCHANGED <<importing, shelf, nextId, pageSeen, warm, parsing, saved, importsConfirmed, tries, others>>

\* No answer, a broken one, or a server error, before or after the rows were written.
CsvLost ==
  /\ request.stage \in {"resolving", "sent", "landed"}
  /\ Fails("lost", request.stage = "landed")
  /\ UNCHANGED <<importing, shelf, nextId, pageSeen, warm, parsing, saved, importsConfirmed, tries, others>>

-----------------------------------------------------------------------------
(* The rest of the world.                                                  *)

\* One of the two caches is read again: fetchQuery's own read, one after an
\* invalidation, or one of a page that is opened.
CsvReread ==
  \E k \in {"gear", "cats"} :
    /\ pageSeen' = [pageSeen EXCEPT ![k] = shelf[k]]
    /\ warm' = warm \cup {k}
    /\ UNCHANGED <<importing, shelf, nextId, surface, page, parsing, request, saved, importsConfirmed, tries, others>>

\* Another tab deletes gear, deletes a category (its gear becomes uncategorized), or adds
\* one.
OtherDocument(lib, n) ==
  /\ others > 0
  /\ others' = others - 1
  /\ shelf' = lib /\ nextId' = n
  /\ UNCHANGED <<importing, pageSeen, warm, surface, page, parsing, request, saved, importsConfirmed, tries>>

CsvGearDeleted ==
  \E g \in shelf.gear : OtherDocument([cats |-> shelf.cats, gear |-> shelf.gear \ {g}], nextId)

CsvCatDeleted ==
  \E c \in DOMAIN shelf.cats :
    OtherDocument([cats |-> [d \in DOMAIN shelf.cats \ {c} |-> shelf.cats[d]],
                   gear |-> {IF g.cat = c THEN [g EXCEPT !.cat = NullId] ELSE g : g \in shelf.gear}],
                  nextId)

CsvCatAdded ==
  /\ Cardinality(DOMAIN shelf.cats) < CatCap
  /\ OtherDocument([cats |-> WithNames(shelf.cats, [c \in {nextId} |-> NewCat]),
                    gear |-> shelf.gear], nextId + 1)

-----------------------------------------------------------------------------
CsvInit ==
  /\ importing \in {"gear", "list"}
  /\ shelf = OwnGear /\ pageSeen = OwnGear /\ warm = {"gear", "cats"}
  /\ nextId = FirstId
  /\ surface = SurfaceClosed /\ page = FALSE /\ parsing = NoFile /\ request = Idle
  /\ saved = NoFile /\ importsConfirmed = {}
  /\ tries = ImportTries /\ others = OtherWrites

CsvNext ==
  \/ CsvOpenExplainer \/ CsvClose \/ CsvContinue \/ CsvRead \/ CsvPageOpens \/ CsvDownload
  \/ CsvConfirm \/ CsvResolved \/ CsvLand \/ CsvDone \/ CsvRefused \/ CsvLost
  \/ CsvReread \/ CsvGearDeleted \/ CsvCatDeleted \/ CsvCatAdded

CsvSpec == CsvInit /\ [][CsvNext]_csvVars

-----------------------------------------------------------------------------
(* Properties.                                                             *)

\* What the page sends, the server takes as well formed: no new category without gear in
\* it, no temporary id unknown or twice, no item both worn and consumable, no number out of
\* range.  The whole file would be refused over one row.  What no plan looks at is whether a
\* list file has a named row at all, and how long a category's name is.
SentIsWellFormed == request.stage = "sent" => Accepted(importing, request.plan)

\* "Nothing was imported" is said only when nothing was.
SureMeansNothing == surface.at = "error" /\ surface.sure => ~surface.landed

\* A list import is planned against rows that hold all the gear this page was told it had
\* imported before: a file imported twice in a row finds its own gear.
ConfirmedIsSeen ==
  importing = "list" /\ request.stage = "sent"
    => importsConfirmed \cap {g.id : g \in shelf.gear} \subseteq {g.id : g \in request.from.gear}

\* The flow and the page never both have a dialog open.
OneImportSurface == ~(page /\ surface.at # "none")

KnownCat(lib, g) == g.cat \in {NullId} \cup DOMAIN lib.cats
Twins(cats) == \E c, d \in DOMAIN cats : c # d /\ Lower[cats[c]] = Lower[cats[d]]
SameThing(lib, g, other, h) ==
  /\ Fold[g.name] = Fold[h.name] /\ g.weight = h.weight
  /\ Lower[CatName(lib.cats, g.cat)] = Lower[CatName(other.cats, h.cat)]

\* An import makes no second copy of gear the page knew of when it planned it, however the
\* file spells it.  Two categories whose names differ only in case are beyond the planner.
NoSecondCopy ==
  [][CsvLand => \A g \in shelf'.gear \ shelf.gear : \A h \in request.from.gear :
       KnownCat(request.from, h) /\ ~Twins(request.from.cats)
         => ~SameThing(shelf', g, request.from, h)]_csvVars

\* Importing one's own export brings back what is gone and nothing else: what it makes was
\* in the export, at the price it had there, and everything in the export is there again.
RestoresExport ==
  [][CsvLand /\ request'.stage = "landed" /\ request.file = saved
       => LET About(g) == [name |-> Fold[g.name], weight |-> g.weight,
                           cat |-> Lower[CatName(shelf'.cats, g.cat)]]
              Of(x) == [name |-> x.name, weight |-> x.weight, cat |-> x.cat]
          IN /\ \A g \in shelf'.gear \ shelf.gear :
                  \E x \in saved.holds : About(g) = Of(x) /\ g.cost = x.cost
             /\ request.from = shelf =>
                  \A x \in saved.holds : \E g \in shelf'.gear : About(g) = Of(x)]_csvVars

\* An import is planned on all the page was told of, sent well formed, reported as
\* what it did, and never over another dialog.
ImportTold == SentIsWellFormed /\ SureMeansNothing /\ ConfirmedIsSeen /\ OneImportSurface

\* Importing makes what is missing and nothing twice, from a file of another program
\* or from one's own export.
ImportsOnce == NoSecondCopy /\ RestoresExport
=============================================================================
