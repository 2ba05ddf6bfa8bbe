----------------------------- MODULE InlineEdit -----------------------------
(***************************************************************************)
(* One value edited in place: InlineText, InlineRenameInput under its two   *)
(* parents, InlineTitle, the add row and the notes editor, and the arbiter  *)
(* that the first four share (use-commit-once.ts).                          *)
(*                                                                          *)
(* React runs a handler with the state of the last render and queues what   *)
(* it sets: shown is that state and next the state the coming render will   *)
(* show.  Enter, Escape and blur may be delivered before it comes.  A write *)
(* patches the cached value at once (optimistic.ts) and takes the patch     *)
(* back when it fails; an added row is no value of this editor.             *)
(***************************************************************************)
EXTENDS Integers, Sequences

CONSTANTS
  Name,      \* the values, without the blank
  FieldKind, \* the editors: "text", "rename", "title", "add", "notes"
  FieldKeys  \* bound: keystrokes, openings, saves of the notes, changes from elsewhere

BlankText == "blank"

ASSUME FieldAssumption ==
  /\ BlankText \notin Name /\ FieldKeys \in Nat
  /\ FieldKind \subseteq {"text", "rename", "title", "add", "notes"}

VARIABLES
  kind,     \* which editor this is
  stored,   \* the value the parent passes, as cached
  shownField,    \* the state of the last render: [open, draft, seen, error, busy]
  next,     \* the state of the next render
  consumed, \* the arbiter has let a handler through
  badInput, \* an input of the add row holds a number past its limits
  answers,  \* writes on the wire: [value, before, session]
  session,  \* this opening: [no, typed, sent]
  canceled, \* the user gave this opening up
  keptText,     \* the last text typed that was neither written nor given up
  keysLeft

fieldVars == <<kind, stored, shownField, next, consumed, badInput, answers, session, canceled, keptText, keysLeft>>

FieldClosed(v) == [open |-> FALSE, draft |-> v, seen |-> v, error |-> FALSE, busy |-> FALSE]
NewSession(n) == [no |-> n, typed |-> FALSE, sent |-> 0]
NoText == "no-text"

KeyPress == keysLeft > 0 /\ keysLeft' = keysLeft - 1

-----------------------------------------------------------------------------
(* The arbiter                                                             *)

\* Fault: every delivery goes through.
Always == TRUE

\* commitOnce admits one call for a committed render.
Admitted == ~consumed

-----------------------------------------------------------------------------
(* Rendering                                                               *)

\* Fault: the draft is seeded when the editor mounts and never again.
MountedDraft(s) == s.draft

\* The store-previous-prop pattern of InlineText; the others seed on opening.
DraftOf(s) == IF kind = "text" /\ s.seen # stored THEN stored ELSE s.draft

\* A render sees the value its parent passes.
Synced(s) == [s EXCEPT !.draft = DraftOf(s), !.seen = stored]

\* A render shows what was queued; its effects arm the arbiter again.  A
\* setState of what is already there queues nothing.
Render ==
  /\ Synced(next) # shownField
  /\ shownField' = Synced(next) /\ next' = Synced(next)
  /\ consumed' = FALSE
  /\ UNCHANGED <<kind, stored, badInput, answers, session, keptText, keysLeft, canceled>>

Painted == shownField = next /\ Synced(next) = next

\* A click or a keystroke is rendered before the event that follows it.
Shows(s) == shownField' = s /\ next' = s /\ consumed' = FALSE

-----------------------------------------------------------------------------
(* Keystrokes                                                              *)

\* The trigger: a click on the value, the pencil, Rename, "Add new item".
Open ==
  /\ ~shownField.open /\ Painted /\ KeyPress
  /\ Shows([shownField EXCEPT !.open = TRUE, !.error = FALSE, !.busy = FALSE,
                         !.draft = CASE kind = "text" -> @
                                     [] kind = "add"  -> BlankText
                                     [] OTHER         -> shownField.seen])
  /\ session' = NewSession(session.no + 1) /\ canceled' = FALSE
  /\ keptText' = NoText /\ badInput' = FALSE
  /\ UNCHANGED <<kind, stored, answers>>

TypeDraft(v) ==
  /\ shownField.open /\ Painted /\ v # shownField.draft /\ KeyPress
  /\ Shows([shownField EXCEPT !.draft = v, !.error = FALSE])
  /\ session' = [session EXCEPT !.typed = TRUE] /\ keptText' = v
  /\ UNCHANGED <<kind, stored, badInput, answers, canceled>>

\* A number past its limits in the add row, or put right again.
TypeNumber ==
  /\ kind = "add" /\ shownField.open /\ Painted /\ KeyPress
  /\ badInput' = ~badInput /\ Shows(shownField)
  /\ UNCHANGED <<kind, stored, answers, session, keptText, canceled>>

-----------------------------------------------------------------------------
(* Ending an edit                                                          *)

Send(v) ==
  /\ answers' = Append(answers, [value |-> v, before |-> stored, session |-> session.no])
  /\ session' = [session EXCEPT !.sent = @ + 1]
  /\ stored' = IF kind = "add" THEN stored ELSE v

Written(v, condition) ==
  IF condition THEN Send(v) ELSE UNCHANGED <<stored, answers, session>>

Close == next' = [next EXCEPT !.open = FALSE, !.error = FALSE]

\* Nothing blank and nothing unchanged is written.
IsNew(v) == v # BlankText /\ v # shownField.seen

\* save of InlineText, commitRename of the parents of InlineRenameInput.
SaveText == Close /\ keptText' = NoText /\ Written(shownField.draft, IsNew(shownField.draft))

\* commit of the list title; the caller has dealt with a blank one.
CommitTitle == Close /\ keptText' = NoText /\ Written(shownField.draft, IsNew(shownField.draft))

\* commit of the add row and its parent's onSubmit: add the item, close the row.
CommitAdd == Close /\ keptText' = NoText /\ Written(shownField.draft, shownField.draft # BlankText)

\* Escape, the cancel button, a blank title or add row that loses the focus.
CancelEdit ==
  /\ next' = [next EXCEPT !.open = FALSE, !.error = FALSE,
                          !.draft = IF kind \in {"text", "title"} THEN shownField.seen ELSE @]
  /\ keptText' = NoText
  /\ UNCHANGED <<stored, answers, session>>

\* An event of the open input that the arbiter lets through.
Arbitrated == shownField.open /\ Admitted /\ consumed' = TRUE

NoWrite == UNCHANGED <<stored, answers, session, keptText>>

\* A number past its limits raises a toast and leaves the row as it is.
RefuseOutOfLimits == badInput /\ UNCHANGED <<next, consumed>> /\ NoWrite

\* Fault: Enter uses the arbiter up whatever it goes on to do.
AnyEnter == TRUE

\* Enter on a blank title or add row, or on a bad number, passes the arbiter by.
EnterConsumes == shownField.draft # BlankText /\ ~badInput

\* Such an Enter renders nothing new, except a title's first error.
EnterRefused ==
  /\ shownField.open /\ ~(shownField.draft # BlankText /\ ~badInput)
  /\ IF EnterConsumes THEN Admitted /\ consumed' = TRUE ELSE consumed' = consumed
  /\ next' = [next EXCEPT !.error = (kind = "title")]
  /\ NoWrite

EnterInput == kind \in {"text", "rename"} /\ Arbitrated /\ SaveText
EnterTitle == kind = "title" /\ (EnterRefused \/ (shownField.draft # BlankText /\ Arbitrated /\ CommitTitle))
EnterAdd ==
  /\ kind = "add"
  /\ EnterRefused \/ (shownField.draft # BlankText /\ ~badInput /\ Arbitrated /\ CommitAdd)

Enter ==
  /\ EnterInput \/ EnterTitle \/ EnterAdd
  /\ UNCHANGED <<kind, shownField, badInput, keysLeft, canceled>>

Escape ==
  /\ kind # "notes" /\ Arbitrated /\ CancelEdit
  /\ canceled' = TRUE
  /\ UNCHANGED <<kind, shownField, badInput, keysLeft>>

BlurInput == kind \in {"text", "rename"} /\ Arbitrated /\ SaveText
BlurTitle ==
  kind = "title" /\ Arbitrated /\ (IF shownField.draft = BlankText THEN CancelEdit ELSE CommitTitle)

\* The focus leaves the whole row.
BlurAdd ==
  /\ kind = "add" /\ shownField.open
  /\ \/ shownField.draft # BlankText /\ RefuseOutOfLimits
     \/ shownField.draft # BlankText /\ ~badInput /\ Arbitrated /\ CommitAdd
     \/ shownField.draft = BlankText /\ Arbitrated /\ CancelEdit

Blur ==
  /\ BlurInput \/ BlurTitle \/ BlurAdd
  /\ UNCHANGED <<kind, shownField, badInput, keysLeft, canceled>>

\* Fault: pressing a button takes the focus out of the input.
PressBlurs == shownField.draft # BlankText

\* The press is prevented from moving the focus: nothing is committed by it.
PressCommits == FALSE

\* The cancel button beside a rename; a click is rendered before what follows it.
ClickCancel ==
  /\ kind = "rename" /\ shownField.open /\ Painted
  /\ IF PressCommits THEN SaveText ELSE CancelEdit
  /\ canceled' = TRUE
  /\ shownField' = next' /\ consumed' = FALSE
  /\ UNCHANGED <<kind, badInput, keysLeft>>

-----------------------------------------------------------------------------
(* The notes                                                               *)

SaveNotes ==
  /\ kind = "notes" /\ shownField.open /\ Painted /\ ~shownField.busy /\ KeyPress
  /\ IF shownField.draft = shownField.seen
     THEN Close /\ keptText' = NoText /\ UNCHANGED <<stored, answers, session>>
     ELSE Send(shownField.draft) /\ next' = [next EXCEPT !.busy = TRUE, !.error = FALSE] /\ keptText' = keptText
  /\ UNCHANGED <<kind, shownField, consumed, badInput, canceled>>

CancelNotes ==
  /\ kind = "notes" /\ shownField.open /\ Painted
  /\ CancelEdit
  /\ canceled' = TRUE
  /\ UNCHANGED <<kind, shownField, consumed, badInput, keysLeft>>

\* Fault: a save that settles closes the editor, whichever is open.
ClosesAny(a) == TRUE

\* onSuccess: its own editor is still there, and nothing was typed since.
ClosesOwn(a) == shownField.open /\ session.no = a.session /\ next.draft = a.value

Rest == [i \in 1 .. Len(answers) - 1 |-> answers[i + 1]]

\* A write is confirmed; no answer overtakes the render of what was pressed.
Confirmed ==
  /\ answers # <<>> /\ Painted /\ answers' = Rest
  /\ LET a == Head(answers)
     IN  /\ stored' = a.value
         /\ \/ /\ kind = "notes" /\ ClosesOwn(a)
               /\ Close
               /\ keptText' = IF next.draft = a.value THEN NoText ELSE keptText
            \/ /\ ~(kind = "notes" /\ ClosesOwn(a))
               /\ next' = IF kind = "notes" /\ shownField.open /\ session.no = a.session
                          THEN [next EXCEPT !.busy = FALSE] ELSE next
               /\ keptText' = keptText
  /\ UNCHANGED <<kind, shownField, consumed, badInput, session, keysLeft, canceled>>

\* A write is refused: the patch is taken back, the notes report beside their text.
Refused ==
  /\ answers # <<>> /\ Painted /\ answers' = Rest
  /\ LET a == Head(answers)
     IN  /\ stored' = IF kind = "add" THEN stored ELSE a.before
         /\ next' = IF kind = "notes" /\ shownField.open /\ session.no = a.session
                    THEN [next EXCEPT !.busy = FALSE, !.error = TRUE] ELSE next
  /\ UNCHANGED <<kind, shownField, consumed, badInput, session, keptText, keysLeft, canceled>>

\* A refetch, or another tab's edit.
ChangedElsewhere(v) ==
  /\ kind # "add" /\ answers = <<>> /\ v # stored /\ KeyPress
  /\ stored' = v
  /\ UNCHANGED <<kind, shownField, next, consumed, badInput, answers, session, keptText, canceled>>

-----------------------------------------------------------------------------
FieldInit ==
  /\ kind \in FieldKind
  /\ \E v \in Name : stored = v /\ shownField = FieldClosed(v) /\ next = FieldClosed(v)
  /\ consumed = FALSE /\ badInput = FALSE /\ answers = <<>>
  /\ session = NewSession(0) /\ canceled = FALSE /\ keptText = NoText /\ keysLeft = FieldKeys

FieldNext ==
  \/ Render \/ Open \/ TypeNumber
  \/ Enter \/ Escape \/ Blur \/ ClickCancel
  \/ SaveNotes \/ CancelNotes \/ Confirmed \/ Refused
  \/ \E v \in Name : ChangedElsewhere(v)
  \/ \E v \in Name \cup {BlankText} : TypeDraft(v)

FieldSpec == FieldInit /\ [][FieldNext]_fieldVars

-----------------------------------------------------------------------------
(* Properties                                                              *)

\* Enter and blur, or two Enters, delivered for one render write once: not a
\* second PATCH and not a second row.  The notes stay open and may write again.
OneWritePerEdit == kind # "notes" => session.sent <= 1

\* An edit that the user canceled has written nothing, whatever blur follows
\* Escape or a press on the cancel button.
CanceledSendsNothing == kind # "notes" /\ canceled => session.sent = 0

\* A used-up arbiter has a render coming that arms it: no Escape, Enter or blur
\* after what the user sees is swallowed.
GuardReopens == consumed => ~Painted

\* What an inline text writes the user typed in it: opened and left, it never
\* puts an older value back over a newer one.
OnlyTypedIsWritten == kind = "text" /\ session.sent > 0 => session.typed

\* The text typed into the notes is written or given up, never lost with an
\* editor that an older save closes.
NotesKept == kind = "notes" /\ ~next.open => keptText = NoText

\* An inline edit writes what was typed in it, once, and only if it was not canceled;
\* its guard is armed again for the next one, and notes are never lost with an editor.
FieldKept ==
  /\ OneWritePerEdit /\ CanceledSendsNothing /\ GuardReopens
  /\ OnlyTypedIsWritten /\ NotesKept
=============================================================================
