----------------------------- MODULE WeightEdit -----------------------------
(***************************************************************************)
(* A weight or a quantity edited in place: InlineWeight around WeightInput,  *)
(* and InlineQuantity.                                                      *)
(*                                                                          *)
(* The field holds text in the unit on screen; the row holds grams.  Each    *)
(* keystroke emits the grams the text means, a change that did not come from *)
(* the field formats it again, and the g/oz toggle formats the grams in the  *)
(* other unit, with a loss.  Numbers are scaled down: an ounce is OzGrams    *)
(* grams, shown to the nearest whole ounce.                                  *)
(***************************************************************************)
EXTENDS Integers

CONSTANTS
  OzGrams,    \* grams in an ounce
  MaxOunces,  \* the weight limit, in ounces
  MaxCount,   \* the quantity limit
  WeightKeys  \* bound: keystrokes, toggles, openings, changes from elsewhere

MaxGrams == MaxOunces * OzGrams  \* the limits of the two units are one weight

ASSUME WeightAssumption ==
  OzGrams \in Nat \ {0, 1} /\ MaxOunces \in Nat \ {0} /\ MaxCount \in Nat \ {0} /\ WeightKeys \in Nat

\* The text of an input: a number, nothing, or what the browser calls bad input.
Num(n) == [is |-> "number", n |-> n]
NoNumber == [is |-> "blank", n |-> 0]
BadText == [is |-> "bad", n |-> 0]
NotSent == -1

VARIABLES
  counts,    \* this is a quantity, not a weight
  rowValue,  \* the value the row passes, as cached
  editing,
  draftValue, \* draftGrams: what the field's emissions mean
  field,     \* [unit, text]: what the input shows
  emitted,   \* lastEmitted
  entered,   \* the last keystroke's text and unit, NothingTyped before the first
  sentValue, \* the value the last commit sent, NotSent when it sent nothing
  weightKeys

weightVars == <<counts, rowValue, editing, draftValue, field, emitted, entered, sentValue, weightKeys>>

Unit == {"g", "oz"}
Texts == {Num(n) : n \in -1 .. MaxGrams + 1} \cup {NoNumber, BadText}
NothingTyped == [text |-> NoNumber, unit |-> "none"]

WeightKey == weightKeys > 0 /\ weightKeys' = weightKeys - 1

Least(a, b) == IF a < b THEN a ELSE b
Most(a, b) == IF a < b THEN b ELSE a

-----------------------------------------------------------------------------
(* Conversions                                                             *)

\* gramsToOz to the precision on screen; ozToGrams.
OuncesOf(g) == (2 * g + OzGrams) \div (2 * OzGrams)
GramsOf(n, unit) == IF unit = "g" THEN n ELSE n * OzGrams

\* A zero weight shows as an empty field.
FormatDraft(g, unit) == IF g = 0 THEN NoNumber ELSE Num(IF unit = "g" THEN g ELSE OuncesOf(g))

MaxForUnit(unit) == IF unit = "g" THEN MaxGrams ELSE MaxOunces

\* The browser's verdict on the input: its min, its max, its text.
OutOfLimits(f) ==
  \/ f.text = BadText
  \/ /\ f.text.is = "number"
     /\ \/ f.text.n < (IF counts THEN 1 ELSE 0)
        \/ f.text.n > (IF counts THEN MaxCount ELSE MaxForUnit(f.unit))

ClampWeightGrams(g) == Most(0, Least(g, MaxGrams))

\* A blank quantity reads as Number('') and is raised to 1.
ClampQuantity(text) == IF text.is = "number" THEN Least(MaxCount, Most(1, text.n)) ELSE 1

\* emitFromDraft: no number, or a negative one, means no weight.
Emission(f) ==
  IF f.text.is = "number" /\ f.text.n >= 0 THEN Least(GramsOf(f.text.n, f.unit), MaxGrams) ELSE 0

-----------------------------------------------------------------------------
(* The field                                                               *)

\* Fault: the field forgets that the value it receives is its own.
ForgetsEmission(g) == emitted

\* emitFromDraft notes what it passes up.
NotesEmission(g) == g

\* The effect: a value that is not the field's own formats the text again.
Received(g, f, own) == IF g # own THEN [f EXCEPT !.text = FormatDraft(g, f.unit)] ELSE f

\* A click on the value mounts the field in the unit of the preference.
OpenValue(unit) ==
  /\ ~editing /\ WeightKey
  /\ editing' = TRUE /\ entered' = NothingTyped /\ sentValue' = NotSent
  /\ field' = IF counts THEN [unit |-> "g", text |-> Num(draftValue)]
              ELSE [unit |-> unit, text |-> FormatDraft(draftValue, unit)]
  /\ emitted' = draftValue
  /\ UNCHANGED <<counts, rowValue, draftValue>>

\* handleChange, and the render of the parent that takes the emission.
TypeWeight(text) ==
  /\ ~counts /\ editing /\ text # field.text /\ WeightKey
  /\ LET typed == [field EXCEPT !.text = text]
         g == Emission(typed)
     IN  /\ draftValue' = g
         /\ field' = Received(g, typed, NotesEmission(g))
  /\ emitted' = draftValue'
  /\ entered' = [text |-> text, unit |-> field.unit]
  /\ UNCHANGED <<counts, rowValue, editing, sentValue>>

TypeQuantity(text) ==
  /\ counts /\ editing /\ text # field.text /\ WeightKey
  /\ field' = [field EXCEPT !.text = text]
  /\ entered' = [text |-> text, unit |-> "g"]
  /\ UNCHANGED <<counts, rowValue, editing, draftValue, emitted, sentValue>>

\* Fault: the toggle converts whatever the field holds.
AnyText == TRUE

\* A number past the limits holds the toggle still.
TogglesFrom ==
  ~(field.text.is = "number" /\ (field.text.n < 0 \/ field.text.n > MaxForUnit(field.unit)))

\* Fault: the converted text is passed up as if it had been typed.
PassedUp(f) == Emission(f)

\* The grams stay what they were.
GramsAfterToggle(f) == draftValue

ToggleUnit ==
  /\ ~counts /\ editing /\ TogglesFrom /\ WeightKey
  /\ \E unit \in Unit \ {field.unit} :
       field' = [unit |-> unit,
                  text |-> IF field.text = BadText THEN BadText ELSE FormatDraft(emitted, unit)]
  /\ draftValue' = GramsAfterToggle(field')
  /\ emitted' = draftValue'
  /\ UNCHANGED <<counts, rowValue, editing, entered, sentValue>>

-----------------------------------------------------------------------------
(* The row                                                                 *)

\* Fault: a number past the limits is brought inside them and saved.
CapsIt == FALSE

\* Refused, not capped.
Refuses == OutOfLimits(field)

ClampedDraft == IF counts THEN ClampQuantity(field.text) ELSE ClampWeightGrams(draftValue)

\* commit, by Enter or blur: the editor closes whatever comes of it.
CommitValue ==
  /\ editing /\ editing' = FALSE
  /\ IF Refuses
     THEN draftValue' = rowValue /\ UNCHANGED <<rowValue, sentValue>>
     ELSE LET v == ClampedDraft
          IN  IF v # rowValue
              THEN rowValue' = v /\ draftValue' = v /\ sentValue' = v
              ELSE draftValue' = v /\ UNCHANGED <<rowValue, sentValue>>
  /\ UNCHANGED <<counts, field, emitted, entered, weightKeys>>

\* cancel, by Escape.
CancelValue ==
  /\ editing /\ editing' = FALSE
  /\ draftValue' = rowValue
  /\ UNCHANGED <<counts, rowValue, field, emitted, entered, sentValue, weightKeys>>

\* A refetch or a rollback brings another value: the draft follows it, in the
\* field too when that is open.
ValueElsewhere(v) ==
  /\ v # rowValue /\ WeightKey
  /\ rowValue' = v /\ draftValue' = v /\ entered' = NothingTyped
  /\ IF counts THEN field' = [field EXCEPT !.text = Num(v)] /\ UNCHANGED emitted
     ELSE field' = Received(v, field, emitted) /\ emitted' = v
  /\ UNCHANGED <<counts, editing, sentValue>>

-----------------------------------------------------------------------------
Values == IF counts THEN 1 .. MaxCount ELSE 0 .. MaxGrams

WeightInit ==
  /\ counts \in BOOLEAN
  /\ rowValue \in Values
  /\ editing = FALSE /\ draftValue = rowValue
  /\ field = [unit |-> "g", text |-> NoNumber] /\ emitted = rowValue
  /\ entered = NothingTyped /\ sentValue = NotSent /\ weightKeys = WeightKeys

WeightNext ==
  \/ \E unit \in Unit : OpenValue(unit)
  \/ \E text \in Texts : TypeWeight(text) \/ TypeQuantity(text)
  \/ ToggleUnit \/ CommitValue \/ CancelValue
  \/ \E v \in Values : ValueElsewhere(v)

WeightSpec == WeightInit /\ [][WeightNext]_weightVars

-----------------------------------------------------------------------------
(* Properties                                                              *)

\* What the last keystroke asked for: grams, or a whole quantity.
Meant ==
  IF counts THEN ClampQuantity(entered.text)
  ELSE IF entered.text = NoNumber THEN 0 ELSE GramsOf(entered.text.n, entered.unit)

\* What is saved is the number that was typed, in the unit it was typed in: one
\* past its limits is refused, never brought inside them (by the clamp of the
\* emission or the rounding of the toggle) and saved.
SavesWhatWasTyped ==
  sentValue # NotSent /\ entered # NothingTyped =>
    ~OutOfLimits(entered) /\ sentValue = Meant

\* Opened, toggled between the units and left, a weight is not rewritten with
\* the rounding of the conversion.
UntouchedNotSaved ==
  [][sentValue' # sentValue /\ sentValue' # NotSent => entered # NothingTyped]_weightVars

\* The field's own emission never comes back to rewrite the text being typed.
TextStays ==
  [][entered' # entered /\ entered' # NothingTyped => field'.text = entered'.text]_weightVars
=============================================================================
