------------------------------ MODULE RateLimit ------------------------------
(***************************************************************************)
(* The fixed-window counters behind every budget of the auth endpoints:    *)
(* one row of rate_limits per bucket (a scope and the key charged: an      *)
(* address, a host, or everyone), with the count of the charges made since *)
(* the window began.                                                       *)
(*                                                                         *)
(* A charge is one upsert and, when it began a window, a sweep of the dead *)
(* rows; the connection is synchronous, so both are one step.  A caller    *)
(* reads the clock in the turn in which it charges, and the clock is taken *)
(* not to be set back.                                                     *)
(***************************************************************************)
EXTENDS Integers, FiniteSets

CONSTANTS
  Request,    \* requests that may arrive
  Bucket,     \* buckets: a scope with a key
  Limit,      \* rule.limit of each bucket
  Window,     \* rule.windowMs of each bucket
  MaxWindow,  \* MAX_WINDOW_MS, no window is longer
  Horizon     \* the last instant of the instance

ASSUME RateAssumption ==
  /\ IsFiniteSet(Request)
  /\ Limit \in [Bucket -> Nat \ {0}]
  /\ Window \in [Bucket -> Nat \ {0}]
  /\ MaxWindow \in Nat
  /\ \A b \in Bucket : Window[b] <= MaxWindow
  /\ Horizon \in Nat

VARIABLES
  now,  \* Date.now()
  row,  \* the row of each bucket, or NoRow
  log   \* the charges made: no code reads it, the properties do

limits == <<now, row, log>>

NoRow == [count |-> 0, start |-> 0]
Row   == {NoRow} \cup [count : Nat \ {0}, start : Nat]

\* What a charge answers: the window it counted in and whether it was in budget.
Charged == [by : Request, on : Bucket, at : Nat, start : Nat, ok : BOOLEAN]

\* The row after one more charge: an expired window is replaced.
Upserted(b) ==
  IF row[b] = NoRow \/ row[b].start <= now - Window[b]
    THEN [count |-> 1, start |-> now]
    ELSE [count |-> row[b].count + 1, start |-> row[b].start]

\* Fault: the windows that are over for this bucket's rule are taken for dead.
DeadForThis(b, rows) == {c \in Bucket : rows[c].start < now - Window[b]}

\* The rows that a charge of b which began a window deletes.
Dead(b, rows) == {c \in Bucket : rows[c].start < now - MaxWindow}

\* Fault: one more than the limit.
OneMore(b) == Upserted(b).count <= Limit[b] + 1

\* Fault: the last slot is never given out.
OneLess(b) == Upserted(b).count < Limit[b]

InBudget(b) == Upserted(b).count <= Limit[b]

Charge(r, b) ==
  LET rows == [row EXCEPT ![b] = Upserted(b)]
  IN  /\ ~ \E e \in log : e.by = r /\ e.on = b
      /\ row' = IF rows[b].count = 1
                  THEN [c \in Bucket |-> IF c \in Dead(b, rows) THEN NoRow ELSE rows[c]]
                  ELSE rows
      /\ log' = log \cup {[by |-> r, on |-> b, at |-> now,
                           start |-> rows[b].start, ok |-> InBudget(b)]}
      /\ UNCHANGED now

\* Fault: the bucket is called spent one charge late.
SpentLate(b) ==
  /\ row[b] # NoRow
  /\ row[b].start > now - Window[b]
  /\ row[b].count > Limit[b]

\* peek: whether the next charge would be refused.
Spent(b) ==
  /\ row[b] # NoRow
  /\ row[b].start > now - Window[b]
  /\ row[b].count >= Limit[b]

Tick ==
  /\ now < Horizon
  /\ now' = now + 1
  /\ UNCHANGED <<row, log>>

Init ==
  /\ now = 0
  /\ row = [b \in Bucket |-> NoRow]
  /\ log = {}

Next == Tick \/ \E r \in Request, b \in Bucket : Charge(r, b)

Spec == Init /\ [][Next]_limits

-----------------------------------------------------------------------------
(* Properties                                                              *)

TypeOK ==
  /\ now \in 0 .. Horizon
  /\ row \in [Bucket -> Row]
  /\ log \subseteq Charged

Passed(b) == {e \in log : e.on = b /\ e.ok}

PassedIn(b, first, end) == {e \in Passed(b) : first <= e.at /\ e.at < end}

\* No span of one window's length, wherever it starts, lets through more than
\* one short of two limits ("~59 accepted close together" for a limit of 30),
\* and no window more than its limit, whatever other buckets sweep meanwhile.
BurstBound ==
  \A b \in Bucket :
    /\ \A first \in 0 .. now :
         Cardinality(PassedIn(b, first, first + Window[b])) <= 2 * Limit[b] - 1
    /\ \A e \in Passed(b) :
         Cardinality({f \in Passed(b) : f.start = e.start}) <= Limit[b]

CountedIn(b, start) == {e \in log : e.on = b /\ e.ok /\ e.start = start}

\* The windows of a bucket lie apart, each begins with a charge that passed, and
\* a row that is gone counted nothing that could still matter.
WindowsApart ==
  /\ IsFiniteSet(log)
  /\ \A e \in log : e.start <= e.at /\ e.at < e.start + Window[e.on] /\ e.at <= now
  /\ \A e, f \in log : e.on = f.on /\ e.start < f.start => e.start + Window[e.on] <= f.start
  /\ \A e \in log : \E f \in Passed(e.on) : f.start = e.start /\ f.at = e.start
  /\ \A e \in log : IF row[e.on] = NoRow THEN e.start + Window[e.on] <= now
                                         ELSE e.start <= row[e.on].start

\* The count of a row is what its window let through, as far as the limit.
CountsHold ==
  /\ \A b \in Bucket, s \in 0 .. Horizon : Cardinality(CountedIn(b, s)) <= Limit[b]
  /\ \A b \in Bucket : row[b] # NoRow =>
       /\ row[b].start <= now
       /\ \E e \in log : e.on = b /\ e.start = row[b].start
       /\ Cardinality(CountedIn(b, row[b].start)) =
            IF row[b].count < Limit[b] THEN row[b].count ELSE Limit[b]

\* The inductive invariant.
RateInv == TypeOK /\ WindowsApart /\ CountsHold

\* Nobody is refused who was quiet: a refusal has a full limit of passed charges
\* less than a window old, so a flood of refused ones never prolongs itself.
RefusalsEarned ==
  [][\A e \in log' \ log : ~ e.ok =>
       Cardinality(PassedIn(e.on, now - Window[e.on] + 1, now + 1)) >= Limit[e.on]]_limits

\* The inductive invariant and the bound it is for: bursts of any bucket stay under
\* two limits less one, whatever the other buckets' charges sweep.
LimitsHold == RateInv /\ BurstBound
=============================================================================
