----------------------------- MODULE GearDialogs -----------------------------
(***************************************************************************)
(* The surfaces of the gear page (GearLibraryPage.tsx): one union for the     *)
(* page's own dialogs, a second one inside the CSV import flow, and the       *)
(* inline category editor, which lives in the toolbar or inside the gear      *)
(* form.  Requests that any of them sent answer later, when something else    *)
(* may be open.  A click is drawn before the next event; an update made by    *)
(* an answer may still be queued when the next answer arrives.                *)
(***************************************************************************)
EXTENDS Naturals, FiniteSets

CONSTANTS
  SurfaceId,   \* identities of dialog objects and editor instances
  PostCap      \* bound on the requests of one kind that are out

ASSUME DialogsAssumption == 0 \notin SurfaceId /\ PostCap \in Nat

VARIABLES
  ready,       \* libraryReady: both halves of the library have loaded
  dialog,      \* the page's dialog union
  flow,        \* the import flow's dialog union
  inline,      \* the mounted category editor: its identity, 0 for none
  filed,       \* the editor whose category the open gear form has taken up
  gearSaving,      \* savingAttempt
  gearSaves,   \* gear form saves that are out, by dialog object
  catPosts,    \* category creates that are out, by editor instance
  listPost,    \* the create of a list from the selection, by dialog object
  reading,     \* CSV files being read
  posting,     \* whether an import is being sent
  selectOn,    \* selectMode
  queued       \* whether an answer's updates are not drawn yet

dialogVars == <<ready, dialog, flow, inline, filed, gearSaving, gearSaves, catPosts,
                listPost, reading, posting, selectOn, queued>>

requests == <<gearSaves, catPosts, listPost, reading, posting>>

DialogClosed(kind) == [kind |-> kind, id |-> 0, back |-> 0]
NoDialog == DialogClosed("none")

GearForms == {"create-item", "edit-item"}
Forms == GearForms \cup {"create-list-from-selection"}
Confirms == {"delete-category", "bulk-move", "bulk-delete"}

InUse == {0, dialog.id, dialog.back, inline, filed, gearSaving, listPost, flow.id}
           \cup gearSaves \cup catPosts

Fresh == CHOOSE i \in SurfaceId : i \notin InUse
HasFresh == SurfaceId \ InUse # {}

DialogsInit ==
  /\ ready = FALSE
  /\ dialog = NoDialog
  /\ flow = NoDialog
  /\ inline = 0 /\ filed = 0
  /\ gearSaving = 0
  /\ gearSaves = {} /\ catPosts = {}
  /\ listPost = 0
  /\ reading = 0
  /\ posting = FALSE
  /\ selectOn = FALSE
  /\ queued = FALSE

LibraryLoads ==
  /\ ~ready
  /\ ready' = TRUE
  /\ UNCHANGED <<dialog, flow, inline, filed, gearSaving, requests, selectOn, queued>>

-----------------------------------------------------------------------------
(* Clicks.  A surface that is not the inline editor is modal.                *)

OnPage == ~queued /\ flow = NoDialog /\ dialog.kind \in {"none", "add-category"}

(* A click puts d in the page's union; whatever hosted the inline editor is   *)
(* unmounted with it.                                                        *)
Show(d) ==
  /\ dialog' = d
  /\ inline' = 0
  /\ filed' = 0

OpenDialog(kind) ==
  /\ OnPage
  /\ ready
  /\ HasFresh
  /\ kind \in {"create-list-from-selection", "bulk-move", "bulk-delete"} => selectOn
  /\ Show([kind |-> kind, id |-> Fresh, back |-> 0])
  /\ UNCHANGED <<ready, flow, gearSaving, requests, selectOn, queued>>

(* Reopening the editor over itself mounts a new one: the session is its key. *)
OpenNewCategory ==
  /\ OnPage
  /\ ready
  /\ HasFresh
  /\ dialog' = [kind |-> "add-category", id |-> Fresh, back |-> 0]
  /\ inline' = Fresh
  /\ filed' = 0
  /\ UNCHANGED <<ready, flow, gearSaving, requests, selectOn, queued>>

Saving == gearSaving = dialog.id

(* Delete from inventory inside the edit form.                               *)
ToDelete ==
  /\ ~queued
  /\ dialog.kind = "edit-item"
  /\ ~Saving
  /\ HasFresh
  /\ Show([kind |-> "delete-item", id |-> Fresh, back |-> dialog.id])
  /\ UNCHANGED <<ready, flow, gearSaving, requests, selectOn, queued>>

(* Cancel, X, Escape; a confirm gives the form it came from back.            *)
Dismiss ==
  /\ ~queued
  /\ dialog # NoDialog
  /\ flow = NoDialog
  /\ Show(IF dialog.back = 0 THEN NoDialog
          ELSE [kind |-> "edit-item", id |-> dialog.back, back |-> 0])
  /\ UNCHANGED <<ready, flow, gearSaving, requests, selectOn, queued>>

(* The confirms close before they write.                                     *)
Confirm ==
  /\ ~queued
  /\ dialog.kind \in Confirms \cup {"delete-item"}
  /\ Show(NoDialog)
  /\ UNCHANGED <<ready, flow, gearSaving, requests, selectOn, queued>>

(* A bulk write that succeeds leaves select mode, however late.              *)
SetSelect(on) ==
  /\ on => OnPage /\ ready
  /\ selectOn' = on
  /\ UNCHANGED <<ready, dialog, flow, inline, filed, gearSaving, requests, queued>>

OpenInline ==
  /\ ~queued
  /\ dialog.kind \in GearForms
  /\ ~Saving
  /\ inline = 0
  /\ HasFresh
  /\ inline' = Fresh
  /\ UNCHANGED <<ready, dialog, flow, filed, gearSaving, requests, selectOn, queued>>

CancelInline ==
  /\ ~queued
  /\ dialog.kind \in GearForms
  /\ ~Saving
  /\ inline # 0
  /\ inline' = 0
  /\ UNCHANGED <<ready, dialog, flow, filed, gearSaving, requests, selectOn, queued>>

SubmitCategory ==
  /\ ~queued
  /\ inline # 0
  /\ dialog.kind \in GearForms => ~Saving
  /\ inline \notin catPosts
  /\ Cardinality(catPosts) < PostCap
  /\ catPosts' = catPosts \cup {inline}
  /\ UNCHANGED <<ready, dialog, flow, inline, filed, gearSaving, gearSaves, listPost,
                 reading, posting, selectOn, queued>>

SaveGear ==
  /\ ~queued
  /\ dialog.kind \in GearForms
  /\ ~Saving
  /\ HasFresh
  /\ Cardinality(gearSaves) < PostCap
  /\ dialog' = [dialog EXCEPT !.id = Fresh]
  /\ gearSaving' = Fresh
  /\ gearSaves' = gearSaves \cup {Fresh}
  /\ UNCHANGED <<ready, flow, inline, filed, catPosts, listPost, reading, posting,
                 selectOn, queued>>

SubmitList ==
  /\ ~queued
  /\ dialog.kind = "create-list-from-selection"
  /\ listPost = 0
  /\ HasFresh
  /\ dialog' = [dialog EXCEPT !.id = Fresh]
  /\ listPost' = Fresh
  /\ UNCHANGED <<ready, flow, inline, filed, gearSaving, gearSaves, catPosts, reading,
                 posting, selectOn, queued>>

(* The import flow's own clicks: onBeforeOpen clears the page's union.       *)
OpenExplainer ==
  /\ OnPage
  /\ ready
  /\ Show(NoDialog)
  /\ flow' = DialogClosed("explainer")
  /\ UNCHANGED <<ready, gearSaving, requests, selectOn, queued>>

PickFile ==
  /\ ~queued
  /\ flow.kind = "explainer"
  /\ flow' = NoDialog
  /\ reading' = IF reading < PostCap THEN reading + 1 ELSE reading
  /\ UNCHANGED <<ready, dialog, inline, filed, gearSaving, gearSaves, catPosts,
                 listPost, posting, selectOn, queued>>

SendImport ==
  /\ ~queued
  /\ flow.kind = "preview"
  /\ ~posting
  /\ posting' = TRUE
  /\ UNCHANGED <<ready, dialog, flow, inline, filed, gearSaving, gearSaves, catPosts,
                 listPost, reading, selectOn, queued>>

CloseFlow ==
  /\ ~queued
  /\ flow # NoDialog
  /\ flow' = NoDialog
  /\ UNCHANGED <<ready, dialog, inline, filed, gearSaving, requests, selectOn, queued>>

-----------------------------------------------------------------------------
(* Answers.  Each is a functional update against what is open by then, drawn  *)
(* or not; the editors unmount only when it is drawn.                        *)

(* Fault: the answer is applied to whatever is open.                         *)
SettlesAny(s, next) == IF dialog = NoDialog THEN dialog ELSE next

Settles(s, next) == IF dialog.id = s THEN next ELSE dialog

SaveAnswered(s) ==
  /\ s \in gearSaves
  /\ gearSaves' = gearSaves \ {s}
  /\ \/ dialog' = Settles(s, NoDialog)
     \/ HasFresh /\ dialog' = Settles(s, [dialog EXCEPT !.id = Fresh])
  /\ gearSaving' = IF gearSaving = s THEN 0 ELSE gearSaving
  /\ queued' = TRUE
  /\ UNCHANGED <<ready, flow, inline, filed, catPosts, listPost, reading, posting,
                 selectOn>>

(* Fault: the answer of an abandoned create still reaches the page.          *)
NeverInert(e) == FALSE

(* The `mounted` ref, and closeCategorySession's look at the queue.          *)
Inert(e) == inline # e

SessionOpen(e) == dialog.kind = "add-category" /\ dialog.id = e

CategoryCreated(e) ==
  /\ e \in catPosts
  /\ catPosts' = catPosts \ {e}
  /\ IF Inert(e) THEN UNCHANGED <<dialog, inline, filed, queued>>
     ELSE /\ dialog' = IF SessionOpen(e) THEN NoDialog ELSE dialog
          /\ filed' = IF dialog.kind \in GearForms THEN e ELSE filed
          /\ inline' = IF dialog.kind \in GearForms THEN 0 ELSE inline
          /\ queued' = TRUE
  /\ UNCHANGED <<ready, flow, gearSaving, gearSaves, listPost, reading, posting, selectOn>>

CategoryFailed(e) ==
  /\ e \in catPosts
  /\ catPosts' = catPosts \ {e}
  /\ UNCHANGED <<ready, dialog, flow, inline, filed, gearSaving, gearSaves, listPost,
                 reading, posting, selectOn, queued>>

(* The mutation's own success handler leaves for the new list, and the page   *)
(* with all it shows is gone; the user may come back to it.                  *)
ListCreated ==
  /\ listPost # 0
  /\ listPost' = 0
  /\ Show(NoDialog)
  /\ flow' = NoDialog
  /\ gearSaving' = 0
  /\ reading' = 0
  /\ posting' = FALSE
  /\ selectOn' = FALSE
  /\ queued' = FALSE
  /\ UNCHANGED <<ready, gearSaves, catPosts>>

ListFailed ==
  /\ listPost # 0
  /\ HasFresh
  /\ dialog' = Settles(listPost, [dialog EXCEPT !.id = Fresh])
  /\ listPost' = 0
  /\ queued' = TRUE
  /\ UNCHANGED <<ready, flow, inline, filed, gearSaving, gearSaves, catPosts, reading,
                 posting, selectOn>>

(* Fault: the flow opens over the page's dialog.                             *)
BesideIt == dialog' = dialog

(* onBeforeOpen, from outside an event.                                      *)
ClosedBeforeOpen == dialog' = NoDialog

(* The file was read: a preview, or what is wrong with it.                   *)
FileRead(kind) ==
  /\ reading > 0
  /\ reading' = reading - 1
  /\ ClosedBeforeOpen
  /\ flow' = DialogClosed(kind)
  /\ queued' = TRUE
  /\ UNCHANGED <<ready, inline, filed, gearSaving, gearSaves, catPosts, listPost,
                 posting, selectOn>>

ImportAnswered ==
  /\ posting
  /\ posting' = FALSE
  /\ \/ flow' = NoDialog /\ UNCHANGED dialog
     \/ ClosedBeforeOpen /\ flow' = DialogClosed("error")
  /\ queued' = TRUE
  /\ UNCHANGED <<ready, inline, filed, gearSaving, gearSaves, catPosts, listPost,
                 reading, selectOn>>

(* React draws the queued updates: editors whose host is gone unmount.       *)
Draw ==
  /\ queued
  /\ queued' = FALSE
  /\ inline' = IF dialog.kind \in GearForms \/ SessionOpen(inline) THEN inline ELSE 0
  /\ filed' = IF dialog.kind \in GearForms THEN filed ELSE 0
  /\ UNCHANGED <<ready, dialog, flow, gearSaving, requests, selectOn>>

DialogsNext ==
  \/ LibraryLoads
  \/ \E k \in Forms \cup Confirms : OpenDialog(k)
  \/ OpenNewCategory
  \/ ToDelete
  \/ Dismiss
  \/ Confirm
  \/ \E on \in BOOLEAN : SetSelect(on)
  \/ OpenInline
  \/ CancelInline
  \/ SubmitCategory
  \/ SaveGear
  \/ SubmitList
  \/ OpenExplainer
  \/ PickFile
  \/ SendImport
  \/ CloseFlow
  \/ \E s \in gearSaves : SaveAnswered(s)
  \/ \E e \in catPosts : CategoryCreated(e) \/ CategoryFailed(e)
  \/ ListCreated
  \/ ListFailed
  \/ \E k \in {"preview", "error"} : FileRead(k)
  \/ ImportAnswered
  \/ Draw

DialogsSpec == DialogsInit /\ [][DialogsNext]_dialogVars

-----------------------------------------------------------------------------
(* The page's dialogs and the import flow's never both hold a surface, though *)
(* a file may be read, or an import refused, after the user has opened         *)
(* something else (use-gear-import-flow.tsx).                                 *)
OneSurface == flow = NoDialog \/ dialog = NoDialog

(* The answer of a category create touches the page only while the editor it  *)
(* was typed into is still mounted: it files no gear form under a category    *)
(* asked for elsewhere, and closes nothing opened since                       *)
(* (InlineCreateCategory.tsx, "A LATE ANSWER MUST BE FULLY INERT").           *)
LateCreatesInert ==
  [][ \A e \in catPosts \ catPosts' :
        (e # inline /\ listPost' = listPost) => UNCHANGED <<dialog, inline, filed>>
    ]_dialogVars

(* An answer closes or replaces the form the user is in only if it answers     *)
(* that form, if it leaves the page, or if the import flow takes the screen.   *)
FormsKept ==
  [][ (queued' /\ dialog.kind \in Forms /\ dialog' # dialog)
        => \/ dialog.id \in gearSaves \ gearSaves'
           \/ dialog.id = listPost /\ listPost' = 0
           \/ flow' # NoDialog
    ]_dialogVars

\* What the user has open is what they opened: one surface at a time, which only its
\* own answer closes.
DialogsKept == []OneSurface /\ LateCreatesInert /\ FormsKept
=============================================================================
