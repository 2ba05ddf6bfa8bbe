------------------------------ MODULE Sorting -------------------------------
(***************************************************************************)
(* A set put in order.  What stands in a place is said by counting what    *)
(* comes before it, so that the result can be reasoned about without       *)
(* recursion over the set.                                                 *)
(***************************************************************************)
EXTENDS Integers, FiniteSets, Sequences, SequencesExt

\* The elements of S in the order of before, pairs of which the first comes first.
InOrder(S, before) ==
  LET Nth(i) == CHOOSE x \in S : Cardinality({y \in S : <<y, x>> \in before}) = i - 1
  IN  [i \in 1 .. Cardinality(S) |-> Nth(i)]

\* The places K of a sequence, as a sequence of their own.
PickFrom(s, K) ==
  LET at == InOrder(K, {p \in K \X K : p[1] < p[2]})
  IN  [n \in DOMAIN at |-> s[at[n]]]

\* A sequence in the order of the keys of its places; what has one key stays in order.
SortBy(s, key) ==
  LET at == InOrder(DOMAIN s, {p \in (DOMAIN s) \X (DOMAIN s) :
                                 key[p[1]] < key[p[2]] \/ (key[p[1]] = key[p[2]] /\ p[1] < p[2])})
  IN  [n \in DOMAIN at |-> s[at[n]]]

\* arrayMove: the element at one place, taken out and put back at another.
ArrayMove(s, from, to) == InsertAt(RemoveAt(s, from), to, s[from])
=============================================================================
