----------------------------- MODULE InlineInputs ----------------------------
(* The inputs that edit a value of a row where it stands: texts and notes   *)
(* (InlineEdit), weights and quantities (WeightEdit).  They share no state.  *)
EXTENDS InlineEdit, WeightEdit

\* The inputs that edit a value in place send each edit once and as it was typed,
\* or not at all: InlineEdit's promise and WeightEdit's.
InputsKept == [](FieldKept /\ SavesWhatWasTyped) /\ UntouchedNotSaved /\ TextStays
=============================================================================
