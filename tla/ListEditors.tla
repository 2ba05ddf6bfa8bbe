---------------------------- MODULE ListEditors ----------------------------
(***************************************************************************)
(* The dialogs of the list page (ListDialogs.tsx and the handlers of        *)
(* ListDetailPage.tsx that open them) and the two asynchronous protocols    *)
(* behind them: a guarded save, whose answer is applied only to the dialog  *)
(* object it was submitted from, and a removal, which may have to look up    *)
(* whether the row is being used as a packing container before it decides    *)
(* to ask.  A dialog is a React state object; `id` stands for its identity,  *)
(* and an identity nothing refers to any more is used again.                 *)
(***************************************************************************)
EXTENDS Naturals, FiniteSets

CONSTANTS
  Row,        \* the rows of the list
  Backing,    \* the rows that back a container at the start
  PanelId,    \* identities of dialog objects
  SaveCap,    \* bound on editor saves out at once
  ListWrites  \* bound on removals and container writes out at once

ASSUME EditorsAssumption ==
  /\ Backing \subseteq Row /\ "unread" \notin Row
  /\ 0 \notin PanelId

VARIABLES
  panel,      \* the open dialog
  typed,      \* what the form holds that no save has carried
  savingId,   \* savingAttempt: the dialog object whose save is out, or 0
  saves,      \* the saves that are out
  listed,     \* the rows the page shows
  rows,       \* the rows the server has
  holds,      \* the rows that back a container at the server
  believed,   \* the rows that back one in the locations cache
  fresh,      \* whether that cache is within its stale time
  lookup,     \* the locations fetch: its stage and what it read
  checks,     \* removalPreflightRef: removals waiting for that fetch
  writes,     \* removals and container writes that are out
  asked,      \* containers this page asked to make or to undo, and
  foreign,    \* those another device made, that no read has shown since: properties only
  blind       \* containers that went with a row though nobody was asked about it

editorVars == <<panel, typed, savingId, saves, listed, rows, holds, believed,
                fresh, lookup, checks, writes, asked, foreign, blind>>

panelVars == <<panel, typed, savingId, saves>>
unshown == <<asked, foreign>>
removalVars == <<listed, rows, holds, believed, fresh, lookup, checks, writes,
                 asked, foreign, blind>>

NoPanel == [kind |-> "none", row |-> "none", id |-> 0, told |-> "", back |-> 0]

Editors == {"edit-gear", "quick-edit-item"}

NoLookup == [stage |-> "none", seen |-> {}]
LookupAsked    == [stage |-> "asked", seen |-> {}]

(* The locations cache before its first answer.                              *)
Unread == Row \cup {"unread"}

(* The identities something on the page still refers to. *)
Referred == {panel.id, panel.back, savingId} \cup {s.at : s \in saves}
              \cup {c.back : c \in checks}

FreshId == CHOOSE i \in PanelId : i \notin Referred

CanOpen == PanelId \ Referred # {}

Saving == panel.kind \in Editors /\ savingId = panel.id

NewPanel(kind, row, back) ==
  [kind |-> kind, row |-> row, id |-> FreshId, told |-> "", back |-> back]

(* The editor a confirm was launched from, restored by Cancel: the same      *)
(* object, remounted over the snapshot it was opened with.                   *)
Restored(p) ==
  IF p.back = 0 THEN NoPanel
  ELSE [kind |-> "edit-gear", row |-> p.row, id |-> p.back, told |-> "", back |-> 0]

EditorsInit ==
  /\ panel = NoPanel
  /\ typed = "nothing"
  /\ savingId = 0
  /\ saves = {}
  /\ listed = Row
  /\ rows = Row
  /\ holds = Backing
  /\ believed = Unread
  /\ fresh = FALSE
  /\ lookup = LookupAsked
  /\ checks = {}
  /\ writes = {}
  /\ asked = {} /\ foreign = {}
  /\ blind = {}

-----------------------------------------------------------------------------
(* Opening, typing into and closing an editor.                              *)

OpenEditor(r, kind) ==
  /\ panel = NoPanel
  /\ r \in listed
  /\ CanOpen
  /\ panel' = NewPanel(kind, r, 0)
  /\ typed' = "nothing"
  /\ UNCHANGED <<savingId, saves, removalVars>>

(* The full form is a fieldset disabled while saving.  The quick editor       *)
(* disables its fields one by one, and its weight field has no such prop.     *)
PanelLive == Saving => panel.kind = "quick-edit-item"

TypeField ==
  /\ panel.kind \in Editors
  /\ PanelLive
  /\ typed' = IF Saving THEN "late" ELSE "draft"
  /\ UNCHANGED <<panel, savingId, saves, removalVars>>

(* The quick editor cannot be dismissed while its save is out.               *)
Dismissable == panel.kind = "quick-edit-item" => ~Saving

ClosePanel ==
  /\ panel.kind \in Editors
  /\ Dismissable
  /\ panel' = NoPanel
  /\ typed' = "nothing"
  /\ UNCHANGED <<savingId, saves, removalVars>>

MoreDetails ==
  /\ panel.kind = "quick-edit-item"
  /\ ~Saving
  /\ CanOpen
  /\ panel' = NewPanel("edit-gear", panel.row, 0)
  /\ UNCHANGED <<typed, savingId, saves, removalVars>>

(* Save installs a copy of the dialog as the attempt.                        *)
SaveEditor ==
  /\ panel.kind \in Editors
  /\ ~Saving
  /\ CanOpen
  /\ Cardinality(saves) < SaveCap
  /\ LET attempt == [panel EXCEPT !.id = FreshId, !.told = ""]
     IN /\ panel' = attempt
        /\ savingId' = attempt.id
        /\ saves' = saves \cup {[at |-> attempt.id, row |-> panel.row, stage |-> "gear"]}
  /\ typed' = "nothing"
  /\ UNCHANGED removalVars

(* Fault: the answer is applied to whatever is open.                         *)
SettleAny(s, next) == next

(* settle: a functional update that runs only while the attempt is still the *)
(* open dialog.                                                              *)
SettleSave(s, next) == IF panel.id = s.at THEN next ELSE panel

(* Fault: the finally clause thaws whatever form is open.                    *)
ThawAny(s) == 0

(* The finally clause: thaw the form only if this attempt froze it.          *)
Thawed(s) == IF savingId = s.at THEN 0 ELSE savingId

GearSaved(s) ==
  /\ s \in saves
  /\ s.stage = "gear"
  /\ saves' = (saves \ {s}) \cup {[s EXCEPT !.stage = "list"]}
  /\ UNCHANGED <<panel, typed, savingId, removalVars>>

(* The last stage answered; a form with no list item has only the first.     *)
FormSaved(s) ==
  /\ s \in saves
  /\ saves' = saves \ {s}
  /\ panel' = SettleSave(s, NoPanel)
  /\ typed' = IF panel' = panel THEN typed ELSE "nothing"
  /\ savingId' = Thawed(s)
  /\ UNCHANGED removalVars

(* Either stage failed or its answer was lost; a failed gear write skips the *)
(* list one.  The error is a new dialog object.                              *)
SaveFailed(s) ==
  /\ s \in saves
  /\ CanOpen
  /\ saves' = saves \ {s}
  /\ panel' = SettleSave(s, [panel EXCEPT !.id = FreshId, !.told = s.stage])
  /\ typed' = IF panel' = panel THEN typed ELSE "draft"
  /\ savingId' = Thawed(s)
  /\ UNCHANGED removalVars

-----------------------------------------------------------------------------
(* Removing a row from the list.                                            *)

Out(kind) == {w \in writes : w.kind = kind}

(* The optimistic delete: the row leaves the page with the request.          *)
RemoveRows(rs, others) ==
  /\ writes' = writes \cup others
                \cup {[kind |-> "remove", row |-> r, done |-> FALSE] : r \in rs}
  /\ listed' = listed \ rs

Structural == Out("promote") \cup Out("demote")

(* The optimistic writes of the locations cache.                             *)
OnCache == Structural \cup Out("rename")

(* The containers that removals decided without asking would take, but for   *)
(* those the decision is excused for: see AskedFirst.                        *)
Surprised(waiting, plain, excused) ==
  ({c.row : c \in waiting} \cap plain \cap holds) \ excused

(* resolveRemovalPlan: each waiting row is removed at once when it is in      *)
(* `plain`, and asked about otherwise; of several confirms the last one       *)
(* stays open, in place of whatever dialog `page` was.                        *)
Decide(waiting, plain, page, others) ==
  LET ask == {c \in waiting : c.row \notin plain}
  IN /\ RemoveRows({c.row : c \in waiting \ ask}, others)
     /\ IF ask = {} THEN panel' = page
        ELSE \E c \in ask : panel' = NewPanel("remove-container-item", c.row, c.back)
     /\ typed' = IF panel' = panel THEN typed ELSE "nothing"

(* Fault: the rendered array decides (nothing yet reads as no container).     *)
PreflightRendered(c) ==
  /\ LET plain == IF believed = Unread THEN Row ELSE Row \ believed
     IN /\ Decide({c}, plain, NoPanel, {})
        /\ blind' = blind \cup Surprised({c}, plain, asked \cup IF fresh THEN foreign ELSE {})
  /\ UNCHANGED <<lookup, checks>>

(* fetchQuery: a fresh cache answers at once; anything else waits for a       *)
(* fetch, its own or the one already out.                                     *)
Preflight(c) ==
  IF fresh
  THEN /\ Decide({c}, Row \ believed, NoPanel, {})
       /\ blind' = blind \cup Surprised({c}, Row \ believed, asked \cup foreign)
       /\ UNCHANGED <<lookup, checks>>
  ELSE /\ checks' = checks \cup {c}
       /\ lookup' = IF lookup = NoLookup THEN LookupAsked ELSE lookup
       /\ panel' = NoPanel
       /\ typed' = "nothing"
       /\ UNCHANGED <<writes, listed, blind>>

NotChecking(r) == \A c \in checks : c.row # r

Request(r) ==
  /\ CanOpen
  /\ Cardinality(writes) < ListWrites
  /\ IF NotChecking(r) THEN Preflight([row |-> r, back |-> panel.id])
     ELSE panel' = NoPanel /\ typed' = "nothing"
          /\ UNCHANGED <<lookup, checks, writes, listed, blind>>
  /\ UNCHANGED <<savingId, saves, rows, holds, believed, fresh, unshown>>

(* The row menu, the swipe, the picker's unpick.                             *)
RequestFromRow(r) == panel = NoPanel /\ r \in listed /\ Request(r)

(* RemoveRows from list inside the editor, which closes first and comes back if  *)
(* a confirm is cancelled.                                                   *)
RequestFromEditor == panel.kind = "edit-gear" /\ ~Saving /\ Request(panel.row)

ConfirmRemove ==
  /\ panel.kind = "remove-container-item"
  /\ panel' = NoPanel
  /\ RemoveRows({panel.row}, {})
  /\ UNCHANGED <<typed, savingId, saves, rows, holds, believed, fresh, lookup,
                 checks, unshown, blind>>

ToDeleteGear ==
  /\ panel.kind = "edit-gear"
  /\ ~Saving
  /\ CanOpen
  /\ panel' = NewPanel("delete-gear", panel.row, panel.id)
  /\ typed' = "nothing"
  /\ UNCHANGED <<savingId, saves, removalVars>>

ConfirmDeleteGear ==
  /\ panel.kind = "delete-gear"
  /\ Cardinality(writes) < ListWrites
  /\ panel' = NoPanel
  /\ RemoveRows({panel.row}, {})
  /\ UNCHANGED <<typed, savingId, saves, rows, holds, believed, fresh, lookup,
                 checks, unshown, blind>>

CancelConfirm ==
  /\ panel.kind \in {"remove-container-item", "delete-gear", "delete-location"}
  /\ panel' = Restored(panel)
  /\ UNCHANGED <<typed, savingId, saves, removalVars>>

ServeRowRemove(w) ==
  /\ w \in Out("remove")
  /\ ~w.done
  /\ rows' = rows \ {w.row}
  /\ holds' = holds \ {w.row}
  /\ writes' = (writes \ {w}) \cup {[w EXCEPT !.done = TRUE]}
  /\ UNCHANGED <<panelVars, listed, believed, fresh, lookup, checks, unshown, blind>>

(* Both caches the removal touches are read again.  A read of the locations  *)
(* under way is dropped for the new one, unless it is the first.             *)
Refetch ==
  /\ fresh' = FALSE
  /\ lookup' = IF believed = Unread /\ lookup # NoLookup THEN lookup ELSE LookupAsked

(* Answered, refused or lost: the rows are read again either way.            *)
SettleRemove(w) ==
  /\ w \in Out("remove")
  /\ writes' = writes \ {w}
  /\ listed' = rows
  /\ Refetch
  /\ UNCHANGED <<panelVars, rows, holds, believed, checks, unshown, blind>>

-----------------------------------------------------------------------------
(* The locations query.                                                     *)

LookupRead ==
  /\ lookup.stage = "asked"
  /\ lookup' = [stage |-> "read", seen |-> holds]
  /\ UNCHANGED <<panelVars, listed, rows, holds, believed, fresh, checks, writes,
                 unshown, blind>>

(* While a write of the cache is out its rollback may still hide what the    *)
(* read shows.                                                               *)
LookupDone ==
  /\ lookup.stage = "read"
  /\ CanOpen
  /\ believed' = lookup.seen
  /\ fresh' = TRUE
  /\ lookup' = NoLookup
  /\ checks' = {}
  /\ Decide(checks, Row \ lookup.seen, panel, {})
  /\ blind' = blind \cup Surprised(checks, Row \ lookup.seen, asked \cup (foreign \ lookup.seen))
  /\ IF OnCache = {} THEN asked' = {} /\ foreign' = foreign \ lookup.seen
     ELSE UNCHANGED unshown
  /\ UNCHANGED <<savingId, saves, rows, holds>>

(* The fetch failed: ask, without naming a container.                        *)
LookupFailed ==
  /\ lookup # NoLookup
  /\ CanOpen
  /\ lookup' = NoLookup
  /\ checks' = {}
  /\ Decide(checks, {}, panel, {})
  /\ UNCHANGED <<savingId, saves, rows, holds, believed, fresh, unshown, blind>>

(* The stale time passes.                                                    *)
GoStale ==
  /\ fresh
  /\ fresh' = FALSE
  /\ UNCHANGED <<panelVars, listed, rows, holds, believed, lookup, checks, writes, unshown, blind>>

-----------------------------------------------------------------------------
(* Making a row a container, and undoing it.                                *)

(* An optimistic write counts as a read of the cache, and its cancelQueries  *)
(* ends the fetch that removals wait for: they are answered with what the    *)
(* cache held before, which the write keeps to put it back.                  *)
LocalWrite(kind, r, page) ==
  /\ believed # Unread
  /\ CanOpen
  /\ Cardinality(writes) < ListWrites
  /\ believed' = CASE kind = "promote" -> believed \cup {r}
                   [] kind = "demote"  -> believed \ {r}
                   [] kind = "rename"  -> believed
  /\ fresh' = TRUE
  /\ lookup' = NoLookup
  /\ checks' = {}
  /\ Decide(checks, Row \ believed, page,
            {[kind |-> kind, row |-> r, done |-> FALSE, was |-> believed]})
  /\ blind' = blind \cup Surprised(checks, Row \ believed, asked \cup foreign)
  /\ asked' = IF kind = "rename" THEN asked ELSE asked \cup {r}
  /\ UNCHANGED <<savingId, saves, rows, holds, foreign>>

Promote(r) ==
  /\ panel = NoPanel
  /\ Structural = {}
  /\ r \in listed \ believed
  /\ LocalWrite("promote", r, panel)

AskDemote(r) ==
  /\ panel = NoPanel
  /\ believed # Unread
  /\ r \in listed \cap believed
  /\ Structural = {}
  /\ CanOpen
  /\ panel' = NewPanel("delete-location", r, 0)
  /\ UNCHANGED <<typed, savingId, saves, removalVars>>

ConfirmDemote ==
  /\ panel.kind = "delete-location"
  /\ Structural = {}
  /\ LocalWrite("demote", panel.row, NoPanel)

(* A location gets another name or place, or one is made that no row backs:  *)
(* one at a time.                                                            *)
RenameLocation ==
  /\ panel = NoPanel
  /\ Out("rename") = {}
  /\ LocalWrite("rename", "none", panel)

(* A row backs one container at most.                                        *)
ServeOnCache(w) ==
  /\ w \in OnCache
  /\ ~w.done
  /\ w.kind = "promote" => w.row \in rows \ holds
  /\ holds' = CASE w.kind = "promote" -> holds \cup {w.row}
                [] w.kind = "demote"  -> holds \ {w.row}
                [] w.kind = "rename"  -> holds
  /\ writes' = (writes \ {w}) \cup {[w EXCEPT !.done = TRUE]}
  /\ UNCHANGED <<panelVars, listed, rows, believed, fresh, lookup, checks,
                 unshown, blind>>

(* A failure puts the old array back; either way the query is read again.    *)
SettleOnCache(w) ==
  /\ w \in OnCache
  /\ writes' = writes \ {w}
  /\ \/ w.done /\ UNCHANGED believed
     \/ believed' = w.was
  /\ listed' = IF w.kind = "demote" THEN rows ELSE listed
  /\ Refetch
  /\ UNCHANGED <<panelVars, rows, holds, checks, unshown, blind>>

(* Another device makes a row a container.                                   *)
MadeElsewhere(r) ==
  /\ r \in rows \ holds
  /\ holds' = holds \cup {r}
  /\ foreign' = foreign \cup {r}
  /\ UNCHANGED <<panelVars, listed, rows, believed, fresh, lookup, checks, writes,
                 asked, blind>>

EditorsNext ==
  \/ \E r \in Row, k \in Editors : OpenEditor(r, k)
  \/ TypeField
  \/ ClosePanel
  \/ MoreDetails
  \/ SaveEditor
  \/ \E s \in saves : GearSaved(s) \/ FormSaved(s) \/ SaveFailed(s)
  \/ \E r \in Row : RequestFromRow(r)
  \/ RequestFromEditor
  \/ ConfirmRemove
  \/ ToDeleteGear
  \/ ConfirmDeleteGear
  \/ CancelConfirm
  \/ \E w \in writes : ServeRowRemove(w) \/ SettleRemove(w)
  \/ LookupRead
  \/ LookupDone
  \/ LookupFailed
  \/ GoStale
  \/ \E r \in Row : Promote(r) \/ AskDemote(r) \/ MadeElsewhere(r)
  \/ ConfirmDemote
  \/ RenameLocation
  \/ \E w \in writes : ServeOnCache(w) \/ SettleOnCache(w)

EditorsSpec == EditorsInit /\ [][EditorsNext]_editorVars

-----------------------------------------------------------------------------
(* A removal takes no container without asking, though the locations cache   *)
(* may be cold, stale, rolled back or being read again when the row is       *)
(* removed (ListDetailPage.tsx, "The decision resolves the locations query   *)
(* rather than reading the render's array").  A container may go unasked in  *)
(* two cases only.  This page itself asked to make it, or to undo it, and no *)
(* read that landed with no write of the cache out has come since.  Or       *)
(* another device made it, and no such read has shown it, and the removal    *)
(* was decided on a cache that counts as fresh, on a read answered before,   *)
(* or on the rows that an optimistic write found: such a write counts as a   *)
(* read, and ends the read that a removal waits for.                         *)
AskedFirst == blind = {}

(* The form is frozen exactly while the save submitted from it is out: a      *)
(* late answer for an earlier form neither thaws this one nor leaves it       *)
(* frozen for good (guarded-save.ts).                                        *)
FrozenWhileSaving ==
  panel.kind \in Editors => (Saving <=> \E s \in saves : s.at = panel.id)

(* An answer to a save moves the dialog only when the dialog open is the one  *)
(* the save was submitted from.                                              *)
LateAnswersInert ==
  [][ \A s \in saves \ saves' : s.at # panel.id => panel' = panel ]_editorVars

(* A save that succeeds closes the dialog over nothing the request did not    *)
(* carry (GearItemDialog.tsx: "a success closes the dialog and discards it,   *)
(* silently").                                                               *)
TypedIsSent ==
  [][ (\E s \in saves \ saves' : s.at = panel.id /\ panel' = NoPanel)
        => typed # "late" ]_editorVars

\* An editor belongs to its own save: frozen while that is out, closed by no other
\* answer; and a container goes with its item only after the user was asked.
EditorsSafe == [](AskedFirst /\ FrozenWhileSaving) /\ LateAnswersInert
=============================================================================
