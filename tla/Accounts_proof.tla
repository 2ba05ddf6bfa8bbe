--------------------------- MODULE Accounts_proof ---------------------------
(***************************************************************************)
(* Proofs about the modules on signing in and on who a signed-in page      *)
(* belongs to, RateLimit, MagicLink, AccountDeletion, SessionCheck and     *)
(* BrowserTabs, and about the host all of it runs on, Deploy.              *)
(*                                                                         *)
(* Budgets, for any buckets, limits, windows and charges, and requests for *)
(* a link, which charge them, for any requests, hosts, addresses and       *)
(* budgets.  That windows lie apart is seen from the charges, not from the *)
(* row: a row is replaced when its window is over and deleted some time    *)
(* later, so the invariant relates every charge ever made to the row that  *)
(* counted it, or to the clock once that row is gone.  Every step of       *)
(* MagicLink charges one bucket or none, so all that is proved of          *)
(* RateLimit holds there; its own invariant adds what a request has behind *)
(* it at each wait.                                                        *)
(*                                                                         *)
(* Deletions, for any number of links, spellings, addresses and accounts:  *)
(* the account that was confirmed goes, and no link that its last purge    *)
(* saw brings it back.  Ids are never handed out twice, so one address's   *)
(* account stays the one that the deletion names.                          *)
(*                                                                         *)
(* Session checks, for any number of 401s and focus events.  That what is  *)
(* owed is asked, and that the page learns, is liveness and is             *)
(* model-checked only.                                                     *)
(*                                                                         *)
(* Tabs, for any number of tabs, accounts and clicks: a document shows the *)
(* rows of the account that it is signed in as, sends the delete that was  *)
(* confirmed, and leaves the pointer to another account's list alone.      *)
(*                                                                         *)
(* Deploy, for any images, journals and numbers of commands, restarts and  *)
(* writes.  What a host can be trusted with depends on where its script    *)
(* stands.  The invariant says so step by step: what holds from the stop   *)
(* of a script to its start, what a rollback has put where, and which      *)
(* images the database still serves.                                       *)
(***************************************************************************)
EXTENDS MagicLink, AccountDeletion, SessionCheck, BrowserTabs, Deploy, FiniteSetTheorems, TLAPS

-----------------------------------------------------------------------------
(* One charge                                                              *)

Entry(r, b) == [by |-> r, on |-> b, at |-> now, start |-> Upserted(b).start,
                ok |-> InBudget(b)]

\* What a charge does to the rows: its own is the upserted one, and of the others
\* only those are deleted that began more than the longest window ago.
LEMMA ChargeRows ==
  ASSUME RateInv, NEW r \in Request, NEW b \in Bucket, Charge(r, b)
  PROVE  /\ now' = now
         /\ log' = log \cup {Entry(r, b)}
         /\ Entry(r, b) \notin log
         /\ Entry(r, b) \in Charged
         /\ row' \in [Bucket -> Row]
         /\ Upserted(b) \in Row \ {NoRow}
         /\ row'[b] = Upserted(b)
         /\ \A c \in Bucket \ {b} :
              row'[c] = row[c] \/ (row'[c] = NoRow /\ row[c].start + Window[c] <= now)
<1>1. /\ now \in Nat /\ row \in [Bucket -> Row] /\ Window[b] \in Nat \ {0}
      /\ MaxWindow \in Nat /\ Limit[b] \in Nat \ {0}
  BY RateAssumption DEF RateInv, TypeOK
<1>2. row[b] \in Row
  BY <1>1
<1>3. /\ Upserted(b) \in [count : Nat \ {0}, start : Nat]
      /\ Upserted(b).count = 1 => Upserted(b).start = now
  <2>1. CASE row[b] = NoRow \/ row[b].start <= now - Window[b]
    BY <1>1, <2>1 DEF Upserted
  <2>2. CASE ~ (row[b] = NoRow \/ row[b].start <= now - Window[b])
    <3>1. row[b] \in [count : Nat \ {0}, start : Nat]
      BY <1>2, <2>2 DEF Row
    <3>2. Upserted(b) = [count |-> row[b].count + 1, start |-> row[b].start]
      BY <2>2 DEF Upserted
    <3> QED BY <3>1, <3>2
  <2> QED BY <2>1, <2>2
<1>4. Upserted(b) \in Row \ {NoRow}
  BY <1>3 DEF Row, NoRow
<1>5. InBudget(b) \in BOOLEAN
  BY DEF InBudget
<1>6. Entry(r, b) \in Charged
  BY <1>1, <1>3, <1>5 DEF Entry, Charged
<1>7. now' = now /\ log' = log \cup {Entry(r, b)} /\ Entry(r, b) \notin log
  <2>1. [row EXCEPT ![b] = Upserted(b)][b] = Upserted(b)
    BY <1>1
  <2> QED BY <2>1 DEF Charge, Entry
<1> DEFINE rows == [row EXCEPT ![b] = Upserted(b)]
<1>8. /\ rows \in [Bucket -> Row] /\ rows[b] = Upserted(b)
      /\ \A c \in Bucket \ {b} : rows[c] = row[c]
  BY <1>1, <1>4
<1>9. row' = IF rows[b].count = 1
               THEN [c \in Bucket |-> IF c \in Dead(b, rows) THEN NoRow ELSE rows[c]]
               ELSE rows
  BY DEF Charge
<1>10. NoRow \in Row
  BY DEF Row
<1> HIDE DEF rows
<1>11. CASE rows[b].count = 1
  <2>1. row' = [c \in Bucket |-> IF c \in Dead(b, rows) THEN NoRow ELSE rows[c]]
    BY <1>9, <1>11
  <2>2. row' \in [Bucket -> Row]
    BY <2>1, <1>8, <1>10
  <2>3. b \notin Dead(b, rows)
    BY <1>1, <1>3, <1>8, <1>11 DEF Dead
  <2>4. row'[b] = Upserted(b)
    BY <2>1, <2>3, <1>8
  <2>5. ASSUME NEW c \in Bucket \ {b}
        PROVE  row'[c] = row[c] \/ (row'[c] = NoRow /\ row[c].start + Window[c] <= now)
    <3>1. CASE c \in Dead(b, rows)
      <4>1. row[c].start < now - MaxWindow
        BY <3>1, <1>8 DEF Dead
      <4>2. Window[c] \in Nat /\ Window[c] <= MaxWindow
        BY RateAssumption
      <4>3. row[c] \in Row
        BY <1>1
      <4>4. row[c].start \in Nat
        BY <4>3 DEF Row, NoRow
      <4> QED BY <3>1, <2>1, <4>1, <4>2, <4>4, <1>1
    <3>2. CASE c \notin Dead(b, rows)
      BY <3>2, <2>1, <1>8
    <3> QED BY <3>1, <3>2
  <2> QED BY <2>2, <2>4, <2>5, <1>4, <1>6, <1>7
<1>12. CASE rows[b].count # 1
  <2>1. row' = rows
    BY <1>9, <1>12
  <2> QED BY <2>1, <1>4, <1>6, <1>7, <1>8
<1> QED BY <1>11, <1>12

\* Where the charge counts: in a window of its own, when every earlier window of
\* the bucket is over, or in the latest one, which is not.
LEMMA ChargeWindow ==
  ASSUME RateInv, NEW b \in Bucket
  PROVE  /\ Upserted(b).start \in 0 .. now
         /\ now < Upserted(b).start + Window[b]
         /\ \/ /\ Upserted(b) = [count |-> 1, start |-> now]
               /\ \A e \in log : e.on = b => e.start + Window[b] <= now
            \/ /\ row[b] # NoRow
               /\ Upserted(b) = [count |-> row[b].count + 1, start |-> row[b].start]
               /\ row[b].count \in Nat \ {0}
               /\ \A e \in log : e.on = b =>
                    e.start = row[b].start \/ e.start + Window[b] <= row[b].start
<1>1. /\ now \in Nat /\ row[b] \in Row /\ Window[b] \in Nat \ {0} /\ log \subseteq Charged
  BY RateAssumption DEF RateInv, TypeOK
<1>2. \A e \in log : e.start \in Nat /\ e.on \in Bucket
  BY <1>1 DEF Charged
<1>3. \A e \in log : IF row[e.on] = NoRow THEN e.start + Window[e.on] <= now
                                        ELSE e.start <= row[e.on].start
  BY DEF RateInv, WindowsApart
<1>4. row[b] # NoRow => row[b].start <= now
  BY DEF RateInv, CountsHold
<1>5. CASE row[b] = NoRow \/ row[b].start <= now - Window[b]
  <2>1. Upserted(b) = [count |-> 1, start |-> now]
    BY <1>5 DEF Upserted
  <2>2. ASSUME NEW e \in log, e.on = b  PROVE e.start + Window[b] <= now
    <3>1. CASE row[b] = NoRow
      BY <3>1, <2>2, <1>3
    <3>2. CASE row[b] # NoRow
      <4>1. e.start <= row[b].start
        BY <3>2, <2>2, <1>3
      <4>2. row[b] \in [count : Nat \ {0}, start : Nat]
        BY <1>1, <3>2 DEF Row
      <4> QED BY <4>1, <4>2, <3>2, <1>1, <1>2, <1>5
    <3> QED BY <3>1, <3>2
  <2> QED BY <2>1, <2>2, <1>1
<1>6. CASE ~ (row[b] = NoRow \/ row[b].start <= now - Window[b])
  <2>1. Upserted(b) = [count |-> row[b].count + 1, start |-> row[b].start]
    BY <1>6 DEF Upserted
  <2>2. row[b] \in [count : Nat \ {0}, start : Nat]
    BY <1>1, <1>6 DEF Row
  <2>3. PICK w \in log : w.on = b /\ w.start = row[b].start
    BY <1>6 DEF RateInv, CountsHold
  <2>4. ASSUME NEW e \in log, e.on = b
        PROVE  e.start = row[b].start \/ e.start + Window[b] <= row[b].start
    <3>1. e.start <= row[b].start
      BY <2>4, <1>3, <1>6
    <3>2. e.start < w.start => e.start + Window[b] <= w.start
      BY <2>3, <2>4 DEF RateInv, WindowsApart
    <3> QED BY <3>1, <3>2, <2>3, <2>2, <1>2
  <2> QED BY <2>1, <2>2, <2>4, <1>1, <1>4, <1>6
<1> QED BY <1>5, <1>6

-----------------------------------------------------------------------------
(* The invariant                                                           *)

LEMMA InitHolds == Init => RateInv
<1> SUFFICES ASSUME Init PROVE RateInv
  OBVIOUS
<1>1. TypeOK
  BY RateAssumption DEF Init, TypeOK, Row
<1>2. IsFiniteSet(log) /\ log = {}
  BY FS_EmptySet DEF Init
<1>3. \A b \in Bucket, s \in 0 .. Horizon : Cardinality(CountedIn(b, s)) <= Limit[b]
  <2> SUFFICES ASSUME NEW b \in Bucket, NEW s \in 0 .. Horizon
               PROVE  Cardinality(CountedIn(b, s)) <= Limit[b]
    OBVIOUS
  <2>1. CountedIn(b, s) = {}
    BY <1>2 DEF CountedIn
  <2>2. Cardinality({}) = 0
    BY FS_EmptySet
  <2> QED BY <2>1, <2>2, RateAssumption
<1>4. \A b \in Bucket : row[b] = NoRow
  BY DEF Init
<1> QED BY <1>1, <1>2, <1>3, <1>4 DEF RateInv, WindowsApart, CountsHold

\* The clock makes no window younger.
LEMMA TickHolds == ASSUME RateInv, Tick PROVE RateInv'
<1>1. now' = now + 1 /\ now' \in 0 .. Horizon /\ row' = row /\ log' = log /\ now \in Nat
  BY RateAssumption DEF Tick, RateInv, TypeOK
<1>2. TypeOK'
  BY <1>1 DEF RateInv, TypeOK
<1>3. \A e \in log : e.start \in Nat /\ e.at \in Nat /\ e.on \in Bucket
  BY DEF RateInv, TypeOK, Charged
<1>4. \A b \in Bucket : Window[b] \in Nat
  BY RateAssumption
<1>5. WindowsApart'
  <2>1. \A e \in log : e.start <= e.at /\ e.at < e.start + Window[e.on] /\ e.at <= now'
    BY <1>1, <1>3 DEF RateInv, WindowsApart
  <2>2. \A e \in log : IF row[e.on] = NoRow THEN e.start + Window[e.on] <= now'
                                          ELSE e.start <= row[e.on].start
    BY <1>1, <1>3, <1>4 DEF RateInv, WindowsApart
  <2>3. \A e \in log : \E f \in Passed(e.on)' : f.start = e.start /\ f.at = e.start
    BY <1>1 DEF RateInv, WindowsApart, Passed
  <2> QED BY <1>1, <2>1, <2>2, <2>3 DEF RateInv, WindowsApart
<1>6. CountsHold'
  <2>1. \A b, s : CountedIn(b, s)' = CountedIn(b, s)
    BY <1>1 DEF CountedIn
  <2>2. \A b \in Bucket : row[b] # NoRow => row[b].start <= now'
    <3> SUFFICES ASSUME NEW b \in Bucket, row[b] # NoRow PROVE row[b].start <= now'
      OBVIOUS
    <3>1. row[b] \in Row
      BY DEF RateInv, TypeOK
    <3>2. row[b].start \in Nat
      BY <3>1 DEF Row, NoRow
    <3> QED BY <1>1, <3>2 DEF RateInv, CountsHold
  <2> QED BY <1>1, <2>1, <2>2 DEF RateInv, CountsHold
<1> QED BY <1>2, <1>5, <1>6 DEF RateInv

LEMMA ChargeKeepsWindows ==
  ASSUME RateInv, NEW r \in Request, NEW b \in Bucket, Charge(r, b)
  PROVE  WindowsApart'
<1>a. PICK E : E = Entry(r, b)
  OBVIOUS
<1>b. PICK U : U = Upserted(b)
  OBVIOUS
<1>1. /\ now' = now /\ log' = log \cup {E} /\ E \in Charged
      /\ row'[b] = U /\ U # NoRow
      /\ \A c \in Bucket \ {b} :
           row'[c] = row[c] \/ (row'[c] = NoRow /\ row[c].start + Window[c] <= now)
  BY <1>a, <1>b, ChargeRows
<1>2. E.on = b /\ E.at = now /\ E.start = U.start /\ (E.ok <=> U.count <= Limit[b])
  BY <1>a, <1>b DEF Entry, InBudget
<1>3. /\ U.start \in 0 .. now /\ now < U.start + Window[b]
      /\ \/ /\ U = [count |-> 1, start |-> now]
            /\ \A e \in log : e.on = b => e.start + Window[b] <= now
         \/ /\ row[b] # NoRow
            /\ U = [count |-> row[b].count + 1, start |-> row[b].start]
            /\ row[b].count \in Nat \ {0}
            /\ \A e \in log : e.on = b =>
                 e.start = row[b].start \/ e.start + Window[b] <= row[b].start
  BY <1>b, ChargeWindow
<1>4. /\ now \in Nat /\ \A c \in Bucket : Window[c] \in Nat \ {0} /\ Limit[c] \in Nat \ {0}
      /\ \A e \in log : e.start \in Nat /\ e.at \in Nat /\ e.on \in Bucket
  BY RateAssumption DEF RateInv, TypeOK, Charged
<1>5. \A e \in log : e.on = b => e.start = U.start \/ e.start + Window[b] <= U.start
  BY <1>3, <1>4
<1>6. IsFiniteSet(log)'
  <2>1. IsFiniteSet(log)
    BY DEF RateInv, WindowsApart
  <2>2. IsFiniteSet(log \cup {E})
    BY <2>1, FS_AddElement
  <2> QED BY <2>2, <1>1
<1>7. (\A e \in log : e.start <= e.at /\ e.at < e.start + Window[e.on] /\ e.at <= now)'
  <2>1. Window[E.on] = Window[b]
    BY <1>2
  <2>2. E.start <= E.at /\ E.at < E.start + Window[E.on] /\ E.at <= now
    BY <2>1, <1>2, <1>3, <1>4
  <2>3. \A e \in log : e.start <= e.at /\ e.at < e.start + Window[e.on] /\ e.at <= now
    BY DEF RateInv, WindowsApart
  <2> QED BY <2>2, <2>3, <1>1
<1>8. (\A e, f \in log : e.on = f.on /\ e.start < f.start => e.start + Window[e.on] <= f.start)'
  <2> SUFFICES ASSUME NEW e \in log', NEW f \in log', e.on = f.on, e.start < f.start
               PROVE  e.start + Window[e.on] <= f.start
    OBVIOUS
  <2>1. CASE e \in log /\ f \in log
    BY <2>1 DEF RateInv, WindowsApart
  <2>2. CASE e \in log /\ f = E
    BY <2>2, <1>2, <1>3, <1>4, <1>5
  <2>3. CASE e = E /\ f \in log
    <3>1. f.start = U.start \/ f.start + Window[b] <= U.start
      BY <2>3, <1>2, <1>5
    <3> QED BY <2>3, <3>1, <1>2, <1>3, <1>4
  <2>4. CASE e = E /\ f = E
    BY <2>4, <1>2, <1>3, <1>4
  <2> QED BY <2>1, <2>2, <2>3, <2>4, <1>1
<1>9. (\A e \in log : \E f \in Passed(e.on) : f.start = e.start /\ f.at = e.start)'
  <2>1. \A c : Passed(c) \subseteq Passed(c)'
    BY <1>1 DEF Passed
  <2>2. \A e \in log : \E f \in Passed(e.on)' : f.start = e.start /\ f.at = e.start
    BY <2>1 DEF RateInv, WindowsApart
  <2>3. \E f \in Passed(E.on)' : f.start = E.start /\ f.at = E.start
    <3>1. CASE U = [count |-> 1, start |-> now]
      <4>1. E \in Passed(b)'
        BY <3>1, <1>1, <1>2, <1>4 DEF Passed
      <4> QED BY <4>1, <3>1, <1>2
    <3>2. CASE row[b] # NoRow /\ U.start = row[b].start
      <4>1. PICK w \in log : w.on = b /\ w.start = row[b].start
        BY <3>2 DEF RateInv, CountsHold
      <4> QED BY <4>1, <2>2, <3>2, <1>2
    <3> QED BY <3>1, <3>2, <1>3
  <2> QED BY <2>2, <2>3, <1>1
<1>10. (\A e \in log : IF row[e.on] = NoRow THEN e.start + Window[e.on] <= now
                                          ELSE e.start <= row[e.on].start)'
  <2>1. ASSUME NEW e \in log', e.on = b  PROVE e.start <= U.start
    BY <2>1, <1>1, <1>2, <1>3, <1>4, <1>5
  <2>2. ASSUME NEW e \in log', e.on # b
        PROVE  IF row'[e.on] = NoRow THEN e.start + Window[e.on] <= now
                                     ELSE e.start <= row'[e.on].start
    <3>1. e \in log /\ e.on \in Bucket \ {b}
      BY <2>2, <1>1, <1>2, <1>4
    <3>2. IF row[e.on] = NoRow THEN e.start + Window[e.on] <= now
                               ELSE e.start <= row[e.on].start
      BY <3>1 DEF RateInv, WindowsApart
    <3>3. CASE row'[e.on] = row[e.on]
      BY <3>2, <3>3
    <3>4. CASE row'[e.on] = NoRow /\ row[e.on].start + Window[e.on] <= now
      <4>1. row[e.on] \in Row
        BY <3>1 DEF RateInv, TypeOK
      <4>2. row[e.on].start \in Nat
        BY <4>1 DEF Row, NoRow
      <4> QED BY <3>1, <3>2, <3>4, <4>2, <1>4
    <3> QED BY <3>1, <3>3, <3>4, <1>1
  <2>3. ASSUME NEW e \in log'
        PROVE  IF row'[e.on] = NoRow THEN e.start + Window[e.on] <= now
                                     ELSE e.start <= row'[e.on].start
    <3>1. CASE e.on = b
      BY <3>1, <2>1, <1>1
    <3>2. CASE e.on # b
      BY <3>2, <2>2
    <3> QED BY <3>1, <3>2
  <2> QED BY <2>3, <1>1
<1> QED BY <1>6, <1>7, <1>8, <1>9, <1>10 DEF WindowsApart

\* The charges counted in a window once the step is taken.
After(c, s) == {e \in log' : e.on = c /\ e.ok /\ e.start = s}

LEMMA ChargeKeepsCounts ==
  ASSUME RateInv, NEW r \in Request, NEW b \in Bucket, Charge(r, b)
  PROVE  CountsHold'
<1>a. PICK E : E = Entry(r, b)
  OBVIOUS
<1>b. PICK U : U = Upserted(b)
  OBVIOUS
<1>1. /\ now' = now /\ log' = log \cup {E} /\ E \notin log
      /\ row'[b] = U
      /\ \A c \in Bucket \ {b} : row'[c] = row[c] \/ row'[c] = NoRow
  BY <1>a, <1>b, ChargeRows
<1>2. E.on = b /\ E.start = U.start /\ (E.ok <=> U.count <= Limit[b])
  BY <1>a, <1>b DEF Entry, InBudget
<1>3. /\ U.start \in 0 .. now
      /\ \/ /\ U = [count |-> 1, start |-> now]
            /\ \A e \in log : e.on = b => e.start + Window[b] <= now
         \/ /\ row[b] # NoRow
            /\ U = [count |-> row[b].count + 1, start |-> row[b].start]
            /\ row[b].count \in Nat \ {0}
  BY <1>b, ChargeWindow
<1>4. /\ now \in Nat /\ now <= Horizon /\ Horizon \in Nat
      /\ Limit[b] \in Nat \ {0} /\ Window[b] \in Nat \ {0}
  BY RateAssumption DEF RateInv, TypeOK
<1>5. \A c, s : (c # b \/ s # U.start \/ U.count > Limit[b] \/ ~ (U.count <= Limit[b]))
                  => After(c, s) = CountedIn(c, s)
  <2>1. U.count > Limit[b] => ~ (U.count <= Limit[b])
    BY <1>3, <1>4
  <2> QED BY <2>1, <1>1, <1>2 DEF CountedIn, After
<1>6. U.count <= Limit[b] =>
        /\ After(b, U.start) = CountedIn(b, U.start) \cup {E}
        /\ E \notin CountedIn(b, U.start)
  BY <1>1, <1>2 DEF CountedIn, After
<1>7. IsFiniteSet(CountedIn(b, U.start))
  <2>1. CountedIn(b, U.start) \subseteq log
    BY DEF CountedIn
  <2> QED BY <2>1, FS_Subset DEF RateInv, WindowsApart
<1>8. U.count <= Limit[b] =>
        Cardinality(After(b, U.start)) = Cardinality(CountedIn(b, U.start)) + 1
  <2>1. U.count <= Limit[b] =>
          Cardinality(CountedIn(b, U.start) \cup {E}) = Cardinality(CountedIn(b, U.start)) + 1
    BY <1>6, <1>7, FS_AddElement
  <2> QED BY <2>1, <1>6
<1>9. Cardinality(After(b, U.start)) =
        IF U.count < Limit[b] THEN U.count ELSE Limit[b]
  <2>1. CASE /\ U = [count |-> 1, start |-> now]
             /\ \A e \in log : e.on = b => e.start + Window[b] <= now
    <3>1. CountedIn(b, U.start) = {}
      BY <2>1, <1>4 DEF CountedIn, RateInv, TypeOK, Charged
    <3>2. Cardinality(CountedIn(b, U.start)) = 0
      BY <3>1, FS_EmptySet
    <3> QED BY <2>1, <3>2, <1>4, <1>8
  <2>2. CASE /\ row[b] # NoRow
             /\ U = [count |-> row[b].count + 1, start |-> row[b].start]
             /\ row[b].count \in Nat \ {0}
    <3>1. Cardinality(CountedIn(b, U.start)) =
            IF row[b].count < Limit[b] THEN row[b].count ELSE Limit[b]
      BY <2>2 DEF RateInv, CountsHold
    <3>2. U.count = row[b].count + 1
      BY <2>2
    <3>3. CASE U.count <= Limit[b]
      BY <3>1, <3>2, <3>3, <1>4, <1>8, <2>2
    <3>4. CASE ~ (U.count <= Limit[b])
      BY <3>1, <3>2, <3>4, <1>4, <1>5, <2>2
    <3> QED BY <3>3, <3>4
  <2> QED BY <2>1, <2>2, <1>3
<1>10. (\A c \in Bucket, s \in 0 .. Horizon : Cardinality(CountedIn(c, s)) <= Limit[c])'
  <2> SUFFICES ASSUME NEW c \in Bucket, NEW s \in 0 .. Horizon
               PROVE  Cardinality(After(c, s)) <= Limit[c]
    BY DEF CountedIn, After
  <2>1. CASE c = b /\ s = U.start
    <3>1. U.count \in Nat
      BY <1>3
    <3> QED BY <2>1, <3>1, <1>4, <1>9
  <2>2. CASE c # b \/ s # U.start
    <3>1. After(c, s) = CountedIn(c, s)
      BY <2>2, <1>5
    <3> QED BY <3>1 DEF RateInv, CountsHold
  <2> QED BY <2>1, <2>2
<1>11. ASSUME NEW c \in Bucket, row'[c] # NoRow
       PROVE  /\ row'[c].start <= now'
              /\ \E e \in log' : e.on = c /\ e.start = row'[c].start
              /\ Cardinality(After(c, row'[c].start)) =
                   IF row'[c].count < Limit[c] THEN row'[c].count ELSE Limit[c]
  <2>1. CASE c = b
    BY <2>1, <1>1, <1>2, <1>3, <1>4, <1>9
  <2>2. CASE c # b
    <3>1. row'[c] = row[c] /\ row[c] # NoRow
      BY <2>2, <1>1, <1>11
    <3>2. After(c, row'[c].start) = CountedIn(c, row[c].start)
      BY <3>1, <2>2, <1>5
    <3> QED BY <3>1, <3>2, <1>1 DEF RateInv, CountsHold
  <2> QED BY <2>1, <2>2
<1>12. (\A c \in Bucket : row[c] # NoRow =>
          /\ row[c].start <= now
          /\ \E e \in log : e.on = c /\ e.start = row[c].start
          /\ Cardinality(CountedIn(c, row[c].start)) =
               IF row[c].count < Limit[c] THEN row[c].count ELSE Limit[c])'
  BY <1>11 DEF CountedIn, After
<1> QED BY <1>10, <1>12 DEF CountsHold

LEMMA ChargeHolds ==
  ASSUME RateInv, NEW r \in Request, NEW b \in Bucket, Charge(r, b)
  PROVE  RateInv'
<1>1. TypeOK'
  <2>1. /\ now' = now /\ log' = log \cup {Entry(r, b)} /\ Entry(r, b) \in Charged
        /\ row' \in [Bucket -> Row]
    BY ChargeRows
  <2> QED BY <2>1 DEF RateInv, TypeOK
<1> QED BY <1>1, ChargeKeepsWindows, ChargeKeepsCounts DEF RateInv

\* The inductive invariant of the counters: windows of a bucket never overlap, and
\* a row's count is what its window let through, up to the limit.
THEOREM RateInvariant == Spec => []RateInv
<1>1. Init => RateInv
  BY InitHolds
<1>2. RateInv /\ [Next]_limits => RateInv'
  <2> SUFFICES ASSUME RateInv, [Next]_limits PROVE RateInv'
    OBVIOUS
  <2>1. CASE Next
    BY <2>1, TickHolds, ChargeHolds DEF Next
  <2>2. CASE UNCHANGED limits
    BY <2>2 DEF limits, RateInv, TypeOK, WindowsApart, CountsHold, CountedIn, Passed
  <2> QED BY <2>1, <2>2
<1> QED BY <1>1, <1>2, PTL DEF Spec

-----------------------------------------------------------------------------
(* What the invariant gives                                                *)

LEMMA WindowCount ==
  ASSUME RateInv, NEW b \in Bucket, NEW e \in Passed(b)
  PROVE  /\ IsFiniteSet(CountedIn(b, e.start))
         /\ Cardinality(CountedIn(b, e.start)) \in 0 .. Limit[b]
<1>1. /\ now \in 0 .. Horizon /\ Horizon \in Nat /\ e \in log
      /\ e.start \in Nat /\ e.at \in Nat /\ Limit[b] \in Nat
  BY RateAssumption DEF RateInv, TypeOK, Passed, Charged
<1>2. e.start <= e.at /\ e.at <= now
  BY <1>1 DEF RateInv, WindowsApart
<1>3. e.start \in 0 .. Horizon
  BY <1>1, <1>2
<1>4. IsFiniteSet(CountedIn(b, e.start))
  <2>1. CountedIn(b, e.start) \subseteq log
    BY DEF CountedIn
  <2> QED BY <2>1, FS_Subset DEF RateInv, WindowsApart
<1>5. Cardinality(CountedIn(b, e.start)) \in Nat
  BY <1>4, FS_CardinalityType
<1>6. Cardinality(CountedIn(b, e.start)) <= Limit[b]
  BY <1>3 DEF RateInv, CountsHold
<1> QED BY <1>1, <1>4, <1>5, <1>6

\* A span of one window's length meets two windows at most, and if it meets two,
\* then not the charge that began the earlier one.
LEMMA SpanBound ==
  ASSUME RateInv, NEW b \in Bucket, NEW first \in 0 .. now
  PROVE  Cardinality(PassedIn(b, first, first + Window[b])) <= 2 * Limit[b] - 1
<1> DEFINE W == Window[b]  L == Limit[b]  P == PassedIn(b, first, first + W)
<1>1. W \in Nat \ {0} /\ L \in Nat \ {0} /\ first \in Nat
  BY RateAssumption DEF RateInv, TypeOK
<1>2. \A e \in Passed(b) : /\ e \in log /\ e.on = b /\ e.ok
                           /\ e.start \in Nat /\ e.at \in Nat
                           /\ e.start <= e.at /\ e.at < e.start + W
  BY DEF Passed, RateInv, TypeOK, Charged, WindowsApart
<1>3. \A e \in P : e \in Passed(b) /\ first <= e.at /\ e.at < first + W
  BY DEF PassedIn
<1>4. \A e, f \in Passed(b) : e.start < f.start => e.start + W <= f.start
  BY <1>2 DEF RateInv, WindowsApart
<1>5. \A e \in Passed(b) : e \in CountedIn(b, e.start)
  BY <1>2 DEF CountedIn
<1> HIDE DEF W, L, P
<1>6. CASE \A e, f \in P : e.start = f.start
  <2>1. CASE P = {}
    <3>1. Cardinality(P) = 0
      BY <2>1, FS_EmptySet
    <3> QED BY <3>1, <1>1 DEF P, W, L
  <2>2. CASE P # {}
    <3>1. PICK e \in P : TRUE
      BY <2>2
    <3>2. IsFiniteSet(CountedIn(b, e.start)) /\ Cardinality(CountedIn(b, e.start)) \in 0 .. L
      BY <3>1, <1>3, WindowCount DEF L
    <3>3. P \subseteq CountedIn(b, e.start)
      <4> SUFFICES ASSUME NEW f \in P PROVE f \in CountedIn(b, e.start)
        OBVIOUS
      <4>1. f.start = e.start /\ f \in CountedIn(b, f.start)
        BY <3>1, <1>3, <1>5, <1>6
      <4> QED BY <4>1
    <3>4. Cardinality(P) <= Cardinality(CountedIn(b, e.start)) /\ Cardinality(P) \in Nat
      BY <3>2, <3>3, FS_Subset, FS_CardinalityType
    <3> QED BY <3>2, <3>4, <1>1 DEF P, W, L
  <2> QED BY <2>1, <2>2
<1>7. CASE ~ \A e, f \in P : e.start = f.start
  <2>1. PICK e \in P, f \in P : e.start < f.start
    <3>1. PICK x \in P, y \in P : x.start # y.start
      BY <1>7
    <3>2. x.start < y.start \/ y.start < x.start
      BY <3>1, <1>2, <1>3
    <3> QED BY <3>2
  <2>2. e.start + W <= f.start
    BY <2>1, <1>3, <1>4
  <2>3. PICK o \in Passed(b) : o.start = e.start /\ o.at = e.start
    BY <2>1, <1>2, <1>3 DEF RateInv, WindowsApart
  <2> DEFINE A == CountedIn(b, e.start)  B == CountedIn(b, f.start)
  <2>4. /\ IsFiniteSet(A) /\ Cardinality(A) \in 0 .. L
        /\ IsFiniteSet(B) /\ Cardinality(B) \in 0 .. L
    BY <2>1, <1>3, WindowCount DEF L
  <2>5. o \in A
    BY <2>3, <1>5
  <2>6. P \subseteq (A \ {o}) \cup B
    <3> SUFFICES ASSUME NEW g \in P PROVE g \in (A \ {o}) \cup B
      OBVIOUS
    <3>1. g.start = e.start \/ g.start = f.start
      <4>1. g.start < e.start => g.start + W <= e.start
        BY <2>1, <1>3, <1>4
      <4>2. e.start < g.start => e.start + W <= g.start
        BY <2>1, <1>3, <1>4
      <4>3. g.start < f.start => g.start + W <= f.start
        BY <2>1, <1>3, <1>4
      <4>4. f.start < g.start => f.start + W <= g.start
        BY <2>1, <1>3, <1>4
      <4> QED BY <4>1, <4>2, <4>3, <4>4, <2>1, <2>2, <1>1, <1>2, <1>3
    <3>2. g \in CountedIn(b, g.start)
      BY <1>3, <1>5
    <3>3. g # o
      BY <2>1, <2>2, <2>3, <1>1, <1>2, <1>3
    <3> QED BY <3>1, <3>2, <3>3
  <2> HIDE DEF A, B
  <2>7. IsFiniteSet(A \ {o}) /\ Cardinality(A \ {o}) = Cardinality(A) - 1
    BY <2>4, <2>5, FS_RemoveElement
  <2>8. /\ IsFiniteSet((A \ {o}) \cup B)
        /\ Cardinality((A \ {o}) \cup B) =
             Cardinality(A \ {o}) + Cardinality(B) - Cardinality((A \ {o}) \cap B)
    BY <2>4, <2>7, FS_Union
  <2>9. Cardinality((A \ {o}) \cap B) \in Nat
    <3>1. IsFiniteSet((A \ {o}) \cap B)
      BY <2>4, FS_Intersection, <2>7
    <3> QED BY <3>1, FS_CardinalityType
  <2>10. Cardinality(P) <= Cardinality((A \ {o}) \cup B) /\ Cardinality(P) \in Nat
    BY <2>6, <2>8, FS_Subset, FS_CardinalityType
  <2> QED BY <2>4, <2>7, <2>8, <2>9, <2>10, <1>1 DEF P, W, L
<1> QED BY <1>6, <1>7

\* For any limit, window and traffic, a window lets through its limit at most, and
\* any span as long as a window one short of two limits.
THEOREM BurstsBounded == Spec => []BurstBound
<1>1. RateInv => BurstBound
  <2> SUFFICES ASSUME RateInv PROVE BurstBound
    OBVIOUS
  <2>1. ASSUME NEW b \in Bucket, NEW e \in Passed(b)
        PROVE  Cardinality({f \in Passed(b) : f.start = e.start}) <= Limit[b]
    <3>1. {f \in Passed(b) : f.start = e.start} = CountedIn(b, e.start)
      BY DEF Passed, CountedIn
    <3> QED BY <3>1, WindowCount, RateAssumption
  <2> QED BY <2>1, SpanBound DEF BurstBound
<1> QED BY <1>1, RateInvariant, PTL

\* A refusal is earned by a limit of charges that passed within the last window.
LEMMA ChargeEarns ==
  ASSUME RateInv, NEW r \in Request, NEW b \in Bucket, Charge(r, b), ~ InBudget(b)
  PROVE  Cardinality(PassedIn(b, now - Window[b] + 1, now + 1)) >= Limit[b]
<1> DEFINE P == PassedIn(b, now - Window[b] + 1, now + 1)
<1>1. /\ now \in Nat /\ Limit[b] \in Nat \ {0} /\ Window[b] \in Nat \ {0}
      /\ \A e \in log : e.start \in Nat /\ e.at \in Nat
  BY RateAssumption DEF RateInv, TypeOK, Charged
<1>2. /\ row[b] # NoRow
      /\ Upserted(b) = [count |-> row[b].count + 1, start |-> row[b].start]
      /\ row[b].count \in Nat \ {0}
  BY ChargeWindow, <1>1 DEF InBudget
<1>3. now < row[b].start + Window[b] /\ row[b].start \in Nat
  BY <1>2, ChargeWindow
<1>4. Cardinality(CountedIn(b, row[b].start)) = Limit[b]
  <2>1. ~ (row[b].count + 1 <= Limit[b])
    BY <1>2 DEF InBudget
  <2>2. ~ (row[b].count < Limit[b])
    BY <2>1, <1>1, <1>2
  <2> QED BY <2>2, <1>2 DEF RateInv, CountsHold
<1>5. CountedIn(b, row[b].start) \subseteq P
  <2> SUFFICES ASSUME NEW e \in CountedIn(b, row[b].start) PROVE e \in P
    OBVIOUS
  <2>1. e \in log /\ e.on = b /\ e.ok /\ e.start = row[b].start
    BY DEF CountedIn
  <2>2. e.start <= e.at /\ e.at <= now
    BY <2>1 DEF RateInv, WindowsApart
  <2>3. now - Window[b] + 1 <= e.at /\ e.at < now + 1
    BY <2>1, <2>2, <1>1, <1>3
  <2> QED BY <2>1, <2>3 DEF PassedIn, Passed
<1>6. IsFiniteSet(P)
  <2>1. P \subseteq log
    BY DEF PassedIn, Passed
  <2> QED BY <2>1, FS_Subset DEF RateInv, WindowsApart
<1> HIDE DEF P
<1>7. Cardinality(CountedIn(b, row[b].start)) <= Cardinality(P)
  BY <1>5, <1>6, FS_Subset
<1>8. Cardinality(P) \in Nat
  BY <1>6, FS_CardinalityType
<1> QED BY <1>1, <1>4, <1>7, <1>8 DEF P

\* No flood of refused requests keeps a bucket shut: whoever is refused finds a
\* full limit of passed charges in the window just behind.
THEOREM RefusedWithCause == Spec => RefusalsEarned
<1>1. RateInv /\ [Next]_limits =>
        [\A e \in log' \ log : ~ e.ok =>
           Cardinality(PassedIn(e.on, now - Window[e.on] + 1, now + 1)) >= Limit[e.on]]_limits
  <2> SUFFICES ASSUME RateInv, Next, NEW e \in log' \ log, ~ e.ok
               PROVE  Cardinality(PassedIn(e.on, now - Window[e.on] + 1, now + 1)) >= Limit[e.on]
    BY DEF limits
  <2>1. CASE Tick
    BY <2>1 DEF Tick
  <2>2. ASSUME NEW r \in Request, NEW b \in Bucket, Charge(r, b)
        PROVE  Cardinality(PassedIn(e.on, now - Window[e.on] + 1, now + 1)) >= Limit[e.on]
    <3>1. e = Entry(r, b)
      BY <2>2, ChargeRows
    <3>2. e.on = b /\ ~ InBudget(b)
      BY <3>1 DEF Entry
    <3> QED BY <2>2, <3>2, ChargeEarns
  <2> QED BY <2>1, <2>2 DEF Next
<1> QED BY <1>1, RateInvariant, PTL DEF Spec, RefusalsEarned

\* The counters keep their invariant and bursts their bound, for any number of
\* buckets, requests and instants.
THEOREM LimitsHolding == Spec => []LimitsHold
BY RateInvariant, BurstsBounded, PTL DEF LimitsHold

-----------------------------------------------------------------------------
(* MagicLink: its steps are charges                                        *)

LEMMA Keys ==
  /\ Global \in Bucket
  /\ \A r \in Request : /\ ByHost(r) \in Bucket /\ ByAddress(r) \in Bucket
                        /\ ByHost(r) # ByAddress(r)
                        /\ ByHost(r) # Global /\ ByAddress(r) # Global
  BY MagicLinkAssumption DEF Global, HostKey, MailKey, ByHost, ByAddress

LEMMA LinkStepIsRateStep == [LinkNext]_sends => [Next]_limits
<1> SUFFICES ASSUME [LinkNext]_sends PROVE [Next]_limits
  OBVIOUS
<1>1. CASE Tick
  BY <1>1 DEF Next
<1>2. ASSUME NEW r \in Request, Arrive(r) PROVE Next
  BY <1>2, Keys DEF Arrive, Next
<1>3. ASSUME NEW r \in Request, CheckAddress(r) PROVE Next
  BY <1>3, Keys DEF CheckAddress, Next
<1>4. ASSUME NEW r \in Request, SendMagicLink(r) PROVE Next
  BY <1>4, Keys DEF SendMagicLink, Next
<1>5. ASSUME NEW r \in Request, Validate(r) PROVE UNCHANGED limits
  BY <1>5 DEF Validate, limits
<1>6. CASE UNCHANGED sends
  BY <1>6 DEF sends, limits
<1> QED BY <1>1, <1>2, <1>3, <1>4, <1>5, <1>6 DEF LinkNext

\* The requests for links are charges of the counters and nothing else: the limiter
\* the middleware and the callback share is the one RateLimit describes.
THEOREM LinksAreCharges == LinkSpec => Spec
<1>1. LinkInit => Init
  BY DEF LinkInit
<1> QED BY <1>1, LinkStepIsRateStep, PTL DEF LinkSpec, Spec

\* So no host, address or quota sees a burst longer than two limits less one.
THEOREM LinkBursts == LinkSpec => []BurstBound
  BY LinksAreCharges, BurstsBounded, PTL

\* And the counters keep their invariant under requests that wait between charges.
THEOREM LinkLimits == LinkSpec => []LimitsHold
  BY LinksAreCharges, LimitsHolding, PTL

-----------------------------------------------------------------------------
(* What a request has behind it                                            *)

\* A charge by r of b changes nothing that is known of the other charges.
LEMMA ChargeMarks ==
  ASSUME RateInv, NEW r \in Request, NEW b \in Bucket, Charge(r, b)
  PROVE  /\ \A q, c : PaidBy(q, c) => PaidBy(q, c)'
         /\ \A q, c : (q # r \/ c # b) => (Untouched(q, c)' <=> Untouched(q, c))
         /\ \A q, c : (q # r \/ c # b) => (PaidBy(q, c)' <=> PaidBy(q, c))
         /\ PaidBy(r, b)' <=> InBudget(b)
         /\ log \subseteq log' /\ \A e \in log' \ log : e.by = r /\ e.on = b
<1>1. log' = log \cup {Entry(r, b)}
  BY ChargeRows
<1>2. PICK E : E = Entry(r, b)
  OBVIOUS
<1>3. E.by = r /\ E.on = b /\ (E.ok <=> InBudget(b))
  BY <1>2 DEF Entry
<1>4. \A e \in log : ~ (e.by = r /\ e.on = b)
  BY DEF Charge
<1>5. log' = log \cup {E}
  BY <1>1, <1>2
<1> QED BY <1>3, <1>4, <1>5 DEF PaidBy, Untouched

LEMMA Told ==
  ASSUME RateInv, NEW r \in Request, NEW b \in Bucket, NEW c \in Bucket, Charge(r, c),
         NEW t \in Nat
  PROVE  RetryAfter(b, row'[b].start, t) \in Nat
<1>1. row'[b] \in Row
  BY ChargeRows
<1>2. row'[b].start \in Nat
  BY <1>1 DEF Row, NoRow
<1> QED BY <1>2, RateAssumption DEF RetryAfter

LEMMA LinkInitHolds == LinkInit => LinkInv
<1> SUFFICES ASSUME LinkInit PROVE LinkInv
  OBVIOUS
<1>1. TypeOK
  BY InitHolds DEF LinkInit, RateInv
<1>2. log = {} /\ \A r \in Request : stage[r] = "new"
  BY DEF LinkInit, Init
<1>3. LinkTypeOK
  BY <1>1 DEF LinkInit, LinkTypeOK, Stage
<1>4. StagesHold /\ QuotaEarned
  BY <1>2 DEF StagesHold, QuotaEarned, PaidBy, Untouched, Stored
<1> QED BY <1>3, <1>4 DEF LinkInv

LEMMA ArriveHolds ==
  ASSUME LinkInv, RateInv, RateInv', NEW r \in Request, Arrive(r)
  PROVE  LinkInv'
<1>1. PICK k \in Bucket : k = ByHost(r) /\ k # ByAddress(r) /\ k # Global
  BY Keys
<1>2. Charge(r, k) /\ stage[r] = "new" /\ came' = [came EXCEPT ![r] = now] /\ seen' = seen
  BY <1>1 DEF Arrive
<1>3. \/ /\ InBudget(k) /\ stage' = [stage EXCEPT ![r] = "reading"] /\ told' = told
      \/ /\ ~ InBudget(k) /\ stage' = [stage EXCEPT ![r] = "refused"]
         /\ told' = [told EXCEPT ![r] = RetryAfter(k, row'[k].start, now)]
  BY <1>1 DEF Arrive, Proceeds, Refused
<1>4. now \in Nat
  BY RateAssumption DEF RateInv, TypeOK
<1>5. LinkTypeOK'
  BY <1>2, <1>3, <1>4, Told DEF LinkInv, LinkTypeOK, RateInv, Stage
<1>6. stage \in [Request -> Stage]
  BY DEF LinkInv, LinkTypeOK
<1>7. \A q \in Request : q # r => stage'[q] = stage[q]
  BY <1>3, <1>6
<1>8. stage'[r] \in {"reading", "refused"} /\ (stage'[r] = "reading" => InBudget(k))
  BY <1>3, <1>6
<1>9. /\ \A q, c : PaidBy(q, c) => PaidBy(q, c)'
      /\ \A q, c : (q # r \/ c # k) => (Untouched(q, c)' <=> Untouched(q, c))
      /\ \A q, c : (q # r \/ c # k) => (PaidBy(q, c)' <=> PaidBy(q, c))
      /\ PaidBy(r, k)' <=> InBudget(k)
      /\ log \subseteq log' /\ \A e \in log' \ log : e.by = r /\ e.on = k
  BY <1>2, ChargeMarks
<1>10. StagesHold'
  BY <1>1, <1>2, <1>7, <1>8, <1>9, Keys DEF LinkInv, StagesHold, ByHost, ByAddress
<1>11. QuotaEarned'
  <2>1. Stored' = Stored
    BY <1>2, <1>7, <1>8 DEF Stored
  <2> QED BY <2>1, <1>1, <1>2, <1>7, <1>8, <1>9, Keys DEF LinkInv, QuotaEarned, ByHost, ByAddress
<1> QED BY <1>5, <1>10, <1>11 DEF LinkInv

LEMMA CheckHolds ==
  ASSUME LinkInv, RateInv, RateInv', NEW r \in Request, CheckAddress(r)
  PROVE  LinkInv'
<1>1. PICK k \in Bucket : k = ByAddress(r) /\ k # ByHost(r) /\ k # Global
  BY Keys
<1>2. Charge(r, k) /\ stage[r] = "reading" /\ came' = [came EXCEPT ![r] = 0]
      /\ seen' = [seen EXCEPT ![r] = Passed(Global)]
  BY <1>1 DEF CheckAddress
<1>3. \/ /\ InBudget(k) /\ stage' = [stage EXCEPT ![r] = "checked"] /\ told' = told
      \/ /\ stage' = [stage EXCEPT ![r] = "refused"]
         /\ \E b \in Bucket : told' = [told EXCEPT ![r] = RetryAfter(b, row'[b].start, now)]
  BY <1>1, Keys DEF CheckAddress, Proceeds, Refused, SendNow
<1>4. now \in Nat /\ Passed(Global) \subseteq Charged
  BY RateAssumption DEF RateInv, TypeOK, Passed
<1>5. LinkTypeOK'
  <2>1. stage' \in [Request -> Stage]
    BY <1>3 DEF LinkInv, LinkTypeOK, Stage
  <2>2. told' \in [Request -> Nat]
    BY <1>2, <1>3, <1>4, Told DEF LinkInv, LinkTypeOK
  <2>3. came' \in [Request -> Nat] /\ seen' \in [Request -> SUBSET Charged]
    BY <1>2, <1>4 DEF LinkInv, LinkTypeOK
  <2> QED BY <2>1, <2>2, <2>3 DEF LinkTypeOK, RateInv
<1>6. stage \in [Request -> Stage]
  BY DEF LinkInv, LinkTypeOK
<1>7. \A q \in Request : q # r => stage'[q] = stage[q]
  BY <1>3, <1>6
<1>8. stage'[r] \in {"checked", "refused"} /\ (stage'[r] = "checked" => InBudget(k))
  BY <1>3, <1>6
<1>9. /\ \A q, c : PaidBy(q, c) => PaidBy(q, c)'
      /\ \A q, c : (q # r \/ c # k) => (Untouched(q, c)' <=> Untouched(q, c))
      /\ \A q, c : (q # r \/ c # k) => (PaidBy(q, c)' <=> PaidBy(q, c))
      /\ PaidBy(r, k)' <=> InBudget(k)
      /\ log \subseteq log' /\ \A e \in log' \ log : e.by = r /\ e.on = k
  BY <1>2, ChargeMarks
<1>10. StagesHold'
  BY <1>1, <1>2, <1>7, <1>8, <1>9, Keys DEF LinkInv, StagesHold, ByHost, ByAddress
<1>11. QuotaEarned'
  <2>1. Stored' = Stored
    BY <1>2, <1>7, <1>8 DEF Stored
  <2> QED BY <2>1, <1>1, <1>2, <1>7, <1>8, <1>9, Keys DEF LinkInv, QuotaEarned, ByHost, ByAddress
<1> QED BY <1>5, <1>10, <1>11 DEF LinkInv

LEMMA ValidateHolds ==
  ASSUME LinkInv, RateInv, NEW r \in Request, Validate(r)
  PROVE  LinkInv'
<1>1. stage[r] = "checked" /\ UNCHANGED <<now, row, log, came, seen, told>>
  BY DEF Validate, Validated, Proceeds
<1>2. \/ AddressOf[r] \in Deliverable /\ stage' = [stage EXCEPT ![r] = "stored"]
      \/ stage' = [stage EXCEPT ![r] = "invalid"]
  BY DEF Validate, Validated, Proceeds
<1>3. LinkTypeOK'
  BY <1>1, <1>2 DEF LinkInv, LinkTypeOK, TypeOK, Stage
<1>4. stage \in [Request -> Stage]
  BY DEF LinkInv, LinkTypeOK
<1>5. /\ \A q \in Request : q # r => stage'[q] = stage[q]
      /\ stage'[r] \in {"stored", "invalid"}
      /\ stage'[r] = "stored" => AddressOf[r] \in Deliverable
  BY <1>2, <1>4
<1>6. \A q, c : (PaidBy(q, c)' <=> PaidBy(q, c)) /\ (Untouched(q, c)' <=> Untouched(q, c))
  BY <1>1 DEF PaidBy, Untouched
<1>7. PaidBy(r, ByHost(r)) /\ PaidBy(r, ByAddress(r)) /\ r \notin Stored
  BY <1>1 DEF LinkInv, StagesHold, Stored
<1>8. Untouched(r, Global)
  BY <1>7 DEF LinkInv, QuotaEarned, Untouched
<1>9. StagesHold'
  BY <1>5, <1>6, <1>8 DEF LinkInv, StagesHold, ByHost, ByAddress
<1>10. Stored \subseteq Stored' /\ Stored' \subseteq Stored \cup {r}
  BY <1>1, <1>5 DEF Stored
<1>11. ~ PaidBy(r, Global)
  BY <1>8 DEF PaidBy, Untouched
<1>12. QuotaEarned'
  BY <1>1, <1>5, <1>6, <1>7, <1>10, <1>11 DEF LinkInv, QuotaEarned, ByHost, ByAddress
<1> QED BY <1>3, <1>9, <1>12 DEF LinkInv

LEMMA SendHolds ==
  ASSUME LinkInv, RateInv, RateInv', NEW r \in Request, SendMagicLink(r)
  PROVE  LinkInv'
<1>1. PICK k \in Bucket : k = Global
  BY Keys
<1>2. Charge(r, k) /\ stage[r] = "stored" /\ came' = came /\ seen' = seen
  BY <1>1 DEF SendMagicLink
<1>3. \/ /\ InBudget(k) /\ told' = told
         /\ \/ stage' = [stage EXCEPT ![r] = "mailed"]
            \/ stage' = [stage EXCEPT ![r] = "failed"]
      \/ /\ ~ InBudget(k) /\ stage' = [stage EXCEPT ![r] = "orphaned"]
         /\ told' = [told EXCEPT ![r] = RetryAfter(k, row'[k].start, now)]
  BY <1>1 DEF SendMagicLink, Proceeds
<1>4. now \in Nat
  BY RateAssumption DEF RateInv, TypeOK
<1>5. LinkTypeOK'
  <2>1. stage' \in [Request -> Stage]
    BY <1>3 DEF LinkInv, LinkTypeOK, Stage
  <2>2. told' \in [Request -> Nat]
    BY <1>2, <1>3, <1>4, Told DEF LinkInv, LinkTypeOK
  <2> QED BY <1>2, <2>1, <2>2 DEF LinkInv, LinkTypeOK, RateInv
<1>6. stage \in [Request -> Stage]
  BY DEF LinkInv, LinkTypeOK
<1>7. \A q \in Request : q # r => stage'[q] = stage[q]
  BY <1>3, <1>6
<1>8. /\ stage'[r] \in {"mailed", "failed", "orphaned"}
      /\ stage'[r] # "orphaned" <=> InBudget(k)
  BY <1>3, <1>6
<1>9. /\ \A q, c : PaidBy(q, c) => PaidBy(q, c)'
      /\ \A q, c : (q # r \/ c # k) => (Untouched(q, c)' <=> Untouched(q, c))
      /\ \A q, c : (q # r \/ c # k) => (PaidBy(q, c)' <=> PaidBy(q, c))
      /\ PaidBy(r, k)' <=> InBudget(k)
      /\ log \subseteq log' /\ \A e \in log' \ log : e.by = r /\ e.on = k
  BY <1>2, ChargeMarks
<1>10. AddressOf[r] \in Deliverable /\ r \in Stored
  BY <1>2 DEF LinkInv, StagesHold, Stored
<1>11. Stored' = Stored
  BY <1>2, <1>7, <1>8 DEF Stored
<1>12. StagesHold'
  BY <1>1, <1>2, <1>7, <1>8, <1>9, Keys DEF LinkInv, StagesHold, ByHost, ByAddress
<1>13. QuotaEarned'
  <2>1. (\A q \in Stored : PaidBy(q, ByHost(q)) /\ PaidBy(q, ByAddress(q)))'
    BY <1>9, <1>11 DEF LinkInv, QuotaEarned, ByHost, ByAddress
  <2>2. (\A e \in log : e.on = Global => e.by \in Stored /\ AddressOf[e.by] \in Deliverable)'
    BY <1>9, <1>10, <1>11 DEF LinkInv, QuotaEarned, Global
  <2>3. (\A q \in Request : stage[q] \in {"mailed", "failed"} <=> PaidBy(q, Global))'
    BY <1>1, <1>7, <1>8, <1>9 DEF LinkInv, QuotaEarned, Global
  <2> QED BY <2>1, <2>2, <2>3 DEF QuotaEarned
<1> QED BY <1>5, <1>12, <1>13 DEF LinkInv

\* The inductive invariant: whoever has a token stored, or touches the quota all
\* share, was let through by host and by address and can be mailed.
THEOREM LinkInvariant == LinkSpec => []LinkInv
<1>1. LinkInit => LinkInv
  BY LinkInitHolds
<1>2. LinkInv /\ RateInv /\ RateInv' /\ [LinkNext]_sends => LinkInv'
  <2> SUFFICES ASSUME LinkInv, RateInv, RateInv', [LinkNext]_sends PROVE LinkInv'
    OBVIOUS
  <2>1. CASE Tick /\ UNCHANGED <<stage, came, told, seen>>
    BY <2>1 DEF Tick, RateInv, LinkInv, LinkTypeOK, StagesHold, QuotaEarned, PaidBy,
                Untouched, Stored, ByHost, ByAddress
  <2>2. CASE UNCHANGED sends
    BY <2>2 DEF sends, RateInv, LinkInv, LinkTypeOK, StagesHold, QuotaEarned, PaidBy,
                Untouched, Stored, ByHost, ByAddress
  <2> QED BY <2>1, <2>2, ArriveHolds, CheckHolds, ValidateHolds, SendHolds DEF LinkNext
<1>3. LinkSpec => []RateInv
  BY LinksAreCharges, RateInvariant, PTL
<1> QED BY <1>1, <1>2, <1>3, PTL DEF LinkSpec

-----------------------------------------------------------------------------
(* What a limit does to the request it meets                               *)

\* Between its look at the shared quota and its charge, a request remembers a free slot:
\* a live window that has let nobody through since then has one left.
SlotSeen ==
  \A r \in Request : stage[r] \in {"checked", "stored"} =>
    /\ seen[r] \subseteq Passed(Global)
    /\ \A s \in 0 .. Horizon :
         CountedIn(Global, s) \subseteq seen[r] /\ now < s + Window[Global] =>
           Cardinality(CountedIn(Global, s)) < Limit[Global]

\* A charge that was refused ended its request, which was told when its window ends.
WaitTold ==
  \A e \in log : ~ e.ok =>
    /\ stage[e.by] \in {"refused", "orphaned"}
    /\ told[e.by] = RetryAfter(e.on, e.start, e.at)

EdgeInv == SlotSeen /\ WaitTold /\ OrphansRaced

\* What a charge writes down.
LEMMA ChargeEntry ==
  ASSUME RateInv, NEW r \in Request, NEW b \in Bucket, Charge(r, b)
  PROVE  \E E \in Charged :
           /\ log' = log \cup {E} /\ E \notin log /\ now' = now
           /\ E.by = r /\ E.on = b /\ E.at = now /\ E.start = row'[b].start
           /\ (E.ok <=> InBudget(b))
<1>1. /\ now' = now /\ log' = log \cup {Entry(r, b)} /\ Entry(r, b) \notin log
      /\ Entry(r, b) \in Charged /\ row'[b] = Upserted(b)
  BY ChargeRows
<1>2. /\ Entry(r, b).by = r /\ Entry(r, b).on = b /\ Entry(r, b).at = now
      /\ Entry(r, b).start = Upserted(b).start /\ (Entry(r, b).ok <=> InBudget(b))
  BY DEF Entry
<1> QED BY <1>1, <1>2

\* No charge takes a slot that a waiting request has seen without being noticed.
LEMMA SlotKept ==
  ASSUME RateInv, NEW q \in Request, NEW b \in Bucket, Charge(q, b), NEW S,
         S \subseteq Passed(Global), NEW s \in 0 .. Horizon,
         CountedIn(Global, s)' \subseteq S, (now < s + Window[Global])',
         CountedIn(Global, s) \subseteq S /\ now < s + Window[Global] =>
           Cardinality(CountedIn(Global, s)) < Limit[Global]
  PROVE  (Cardinality(CountedIn(Global, s)) < Limit[Global])'
<1>1. PICK E \in Charged : log' = log \cup {E} /\ E \notin log /\ now' = now
  BY ChargeEntry
<1>2. E \notin S
  BY <1>1 DEF Passed
<1>3. CountedIn(Global, s)' = CountedIn(Global, s)
  BY <1>1, <1>2 DEF CountedIn
<1> QED BY <1>1, <1>3

\* A quota that is not spent has a slot in each window that is not over.
LEMMA NotSpentHasSlot ==
  ASSUME RateInv, ~ Spent(Global), NEW s \in 0 .. Horizon, now < s + Window[Global]
  PROVE  Cardinality(CountedIn(Global, s)) < Limit[Global]
<1> DEFINE g == Global
<1>1. /\ g \in Bucket /\ Limit[g] \in Nat \ {0} /\ Window[g] \in Nat \ {0} /\ now \in Nat
      /\ row[g] \in Row
  BY Keys, RateAssumption DEF RateInv, TypeOK
<1>2. Cardinality({}) = 0
  BY FS_EmptySet
<1>3. \A e \in log : e.start \in Nat /\ e.at \in Nat
  BY DEF RateInv, TypeOK, Charged
<1>4. CASE row[g] = NoRow
  <2>1. CountedIn(g, s) = {}
    BY <1>1, <1>3, <1>4 DEF RateInv, WindowsApart, CountedIn
  <2> QED BY <1>1, <1>2, <2>1
<1>5. CASE row[g] # NoRow
  <2>1. row[g].start \in Nat /\ row[g].count \in Nat
    BY <1>1, <1>5 DEF Row
  <2>2. \A e \in log : e.on = g => e.start <= row[g].start
    BY <1>5 DEF RateInv, WindowsApart
  <2>3. CASE row[g].start <= now - Window[g]
    <3>1. CountedIn(g, s) = {}
      BY <1>1, <1>3, <2>1, <2>2, <2>3 DEF CountedIn
    <3> QED BY <1>1, <1>2, <3>1
  <2>4. CASE row[g].count < Limit[g] /\ s = row[g].start
    <3>1. Cardinality(CountedIn(g, row[g].start)) = row[g].count
      BY <1>1, <1>5, <2>4 DEF RateInv, CountsHold
    <3> QED BY <2>1, <2>4, <3>1
  <2>5. CASE ~ (row[g].start <= now - Window[g]) /\ s # row[g].start
    <3>1. PICK f \in log : f.on = g /\ f.start = row[g].start
      BY <1>1, <1>5 DEF RateInv, CountsHold
    <3>2. ASSUME NEW e \in CountedIn(g, s) PROVE FALSE
      <4>1. e \in log /\ e.on = g /\ e.start = s /\ e.start < f.start
        BY <1>3, <2>1, <2>2, <2>5, <3>1 DEF CountedIn
      <4>2. s + Window[g] <= f.start
        BY <3>1, <4>1 DEF RateInv, WindowsApart
      <4>3. row[g].start <= now
        BY <1>1, <1>5 DEF RateInv, CountsHold
      <4> QED BY <1>1, <2>1, <3>1, <4>2, <4>3
    <3>3. CountedIn(g, s) = {}
      BY <3>2
    <3> QED BY <1>1, <1>2, <3>3
  <2> QED BY <1>1, <1>5, <2>1, <2>3, <2>4, <2>5 DEF Spent
<1> QED BY <1>4, <1>5

\* A refused charge finds its window full.
LEMMA RefusedIsFull ==
  ASSUME RateInv, NEW r \in Request, NEW b \in Bucket, Charge(r, b), ~ InBudget(b)
  PROVE  /\ row'[b].start \in 0 .. Horizon /\ now < row'[b].start + Window[b]
         /\ Cardinality(CountedIn(b, row'[b].start)) = Limit[b]
<1>1. /\ Limit[b] \in Nat \ {0} /\ now \in 0 .. Horizon /\ Horizon \in Nat
  BY RateAssumption DEF RateInv, TypeOK
<1>2. row'[b] = Upserted(b)
  BY ChargeRows
<1>3. Upserted(b).start \in 0 .. now /\ now < Upserted(b).start + Window[b]
  BY ChargeWindow
<1>4. row[b] # NoRow /\ Upserted(b) = [count |-> row[b].count + 1, start |-> row[b].start]
      /\ row[b].count \in Nat \ {0}
  <2>1. Upserted(b) # [count |-> 1, start |-> now]
    BY <1>1 DEF InBudget
  <2> QED BY <2>1, ChargeWindow
<1>5. row[b].count >= Limit[b] /\ Upserted(b).start = row[b].start
  BY <1>1, <1>4 DEF InBudget
<1>6. Cardinality(CountedIn(b, row[b].start)) = Limit[b]
  BY <1>1, <1>4, <1>5 DEF RateInv, CountsHold
<1> QED BY <1>1, <1>2, <1>3, <1>5, <1>6

\* The same of the state a step leads to.
LEMMA NotSpentHasSlotNext ==
  (RateInv /\ ~ Spent(Global))' =>
    (\A s \in 0 .. Horizon : now < s + Window[Global] =>
       Cardinality(CountedIn(Global, s)) < Limit[Global])'
<1>1. RateInv /\ ~ Spent(Global) =>
        \A s \in 0 .. Horizon : now < s + Window[Global] =>
          Cardinality(CountedIn(Global, s)) < Limit[Global]
  BY NotSpentHasSlot
<1> QED BY <1>1, PTL

\* A charge leaves alone the requests that it is not of.
LEMMA OthersEdge ==
  ASSUME LinkInv, RateInv, EdgeInv, NEW r \in Request, NEW b \in Bucket, Charge(r, b),
         \A q \in Request \ {r} : /\ stage'[q] = stage[q] /\ told'[q] = told[q]
                                  /\ seen'[q] = seen[q]
  PROVE  /\ \A q \in Request \ {r} : stage'[q] \in {"checked", "stored"} =>
              /\ seen'[q] \subseteq Passed(Global)'
              /\ \A s \in 0 .. Horizon :
                   (CountedIn(Global, s) \subseteq seen[q] /\ now < s + Window[Global] =>
                      Cardinality(CountedIn(Global, s)) < Limit[Global])'
         /\ \A e \in log : e.by # r /\ ~ e.ok =>
              /\ stage'[e.by] \in {"refused", "orphaned"}
              /\ told'[e.by] = RetryAfter(e.on, e.start, e.at)
         /\ \A q \in Request \ {r} : stage'[q] = "orphaned" =>
              \E e \in Passed(Global)' \ seen'[q], f \in log' :
                f.by = q /\ f.on = Global /\ f.start = e.start
<1>1. PICK E \in Charged : log' = log \cup {E}
  BY ChargeEntry
<1>2. Passed(Global) \subseteq Passed(Global)'
  BY <1>1 DEF Passed
<1>3. ASSUME NEW q \in Request \ {r}, stage'[q] \in {"checked", "stored"}, NEW s \in 0 .. Horizon,
             CountedIn(Global, s)' \subseteq seen'[q], (now < s + Window[Global])'
      PROVE  (Cardinality(CountedIn(Global, s)) < Limit[Global])'
  <2>1. /\ seen'[q] = seen[q] /\ seen[q] \subseteq Passed(Global)
        /\ CountedIn(Global, s) \subseteq seen[q] /\ now < s + Window[Global] =>
             Cardinality(CountedIn(Global, s)) < Limit[Global]
    BY <1>3 DEF EdgeInv, SlotSeen
  <2> QED BY <1>3, <2>1, SlotKept
<1>4. \A q \in Request \ {r} : stage'[q] \in {"checked", "stored"} =>
        seen'[q] \subseteq Passed(Global)'
  BY <1>2 DEF EdgeInv, SlotSeen
<1>5. \A e \in log : e.by # r /\ ~ e.ok =>
        /\ stage'[e.by] \in {"refused", "orphaned"}
        /\ told'[e.by] = RetryAfter(e.on, e.start, e.at)
  BY DEF EdgeInv, WaitTold, RateInv, TypeOK, Charged
<1>6. ASSUME NEW q \in Request \ {r}, stage'[q] = "orphaned"
      PROVE  \E e \in Passed(Global)' \ seen'[q], f \in log' :
               f.by = q /\ f.on = Global /\ f.start = e.start
  <2>1. PICK e \in Passed(Global) \ seen[q], f \in log :
          f.by = q /\ f.on = Global /\ f.start = e.start
    BY <1>6 DEF EdgeInv, OrphansRaced
  <2> QED BY <1>1, <1>2, <2>1
<1> QED BY <1>3, <1>4, <1>5, <1>6

\* What is left to show of a request that charges: its own slot, wait and token.
LEMMA ChargeEdge ==
  ASSUME LinkInv, RateInv, EdgeInv, NEW r \in Request, NEW b \in Bucket, Charge(r, b),
         \A q \in Request \ {r} : /\ stage'[q] = stage[q] /\ told'[q] = told[q]
                                  /\ seen'[q] = seen[q],
         stage[r] \notin {"refused", "orphaned"},
         ~ InBudget(b) => /\ stage'[r] \in {"refused", "orphaned"}
                          /\ told'[r] = RetryAfter(b, row'[b].start, now),
         stage'[r] # "stored",
         stage'[r] = "checked" =>
           /\ seen'[r] = Passed(Global)' /\ RateInv'
           /\ ~ Spent(Global)',
         stage'[r] = "orphaned" =>
           \E e \in Passed(Global)' \ seen'[r], f \in log' :
             f.by = r /\ f.on = Global /\ f.start = e.start
  PROVE  EdgeInv'
<1>1. PICK E \in Charged :
        /\ log' = log \cup {E} /\ E \notin log
        /\ E.by = r /\ E.on = b /\ E.at = now /\ E.start = row'[b].start
        /\ (E.ok <=> InBudget(b))
  BY ChargeEntry
<1>2. \A e \in log : e.by = r => e.ok
  BY DEF EdgeInv, WaitTold
<1>3. WaitTold'
  <2> SUFFICES ASSUME NEW e \in log', ~ e.ok
               PROVE  /\ stage'[e.by] \in {"refused", "orphaned"}
                      /\ told'[e.by] = RetryAfter(e.on, e.start, e.at)
    BY DEF WaitTold, RetryAfter
  <2>1. CASE e = E
    BY <1>1, <2>1
  <2>2. CASE e \in log
    BY <1>2, <2>2, OthersEdge
  <2> QED BY <1>1, <2>1, <2>2
<1>4. OrphansRaced'
  <2> SUFFICES ASSUME NEW q \in Request, stage'[q] = "orphaned"
               PROVE  \E e \in Passed(Global)' \ seen'[q], f \in log' :
                        f.by = q /\ f.on = Global /\ f.start = e.start
    BY DEF OrphansRaced
  <2>1. CASE q = r
    BY <2>1
  <2>2. CASE q # r
    BY <2>2, OthersEdge
  <2> QED BY <2>1, <2>2
<1>5. SlotSeen'
  <2> SUFFICES ASSUME NEW q \in Request, stage'[q] \in {"checked", "stored"}
               PROVE  /\ seen'[q] \subseteq Passed(Global)'
                      /\ \A s \in 0 .. Horizon :
                           (CountedIn(Global, s) \subseteq seen[q] /\ now < s + Window[Global] =>
                              Cardinality(CountedIn(Global, s)) < Limit[Global])'
    BY DEF SlotSeen
  <2>1. CASE q = r
    <3>1. seen'[r] = Passed(Global)' /\ RateInv' /\ ~ Spent(Global)'
      BY <2>1
    <3>2. ASSUME NEW s \in 0 .. Horizon, (now < s + Window[Global])'
          PROVE  (Cardinality(CountedIn(Global, s)) < Limit[Global])'
      BY <3>1, <3>2, NotSpentHasSlotNext
    <3> QED BY <2>1, <3>1, <3>2
  <2>2. CASE q # r
    BY <2>2, OthersEdge
  <2> QED BY <2>1, <2>2
<1> QED BY <1>3, <1>4, <1>5 DEF EdgeInv

\* Each step of a request keeps what is known at the edge of the quota.
LEMMA EdgeSteps ==
  ASSUME LinkInv, RateInv, RateInv', EdgeInv, NEW r \in Request,
         Arrive(r) \/ CheckAddress(r) \/ Validate(r) \/ SendMagicLink(r)
  PROVE  EdgeInv'
<1>1. /\ stage \in [Request -> Stage] /\ told \in [Request -> Nat]
      /\ seen \in [Request -> SUBSET Charged]
  BY DEF LinkInv, LinkTypeOK
<1>2. PICK h \in Bucket, a \in Bucket, g \in Bucket :
        h = ByHost(r) /\ a = ByAddress(r) /\ g = Global /\ a # g
  BY Keys
<1>3. CASE Arrive(r)
  <2>1. /\ stage[r] = "new" /\ Charge(r, h) /\ seen' = seen
        /\ \/ /\ InBudget(h) /\ stage' = [stage EXCEPT ![r] = "reading"] /\ told' = told
           \/ /\ ~ InBudget(h) /\ stage' = [stage EXCEPT ![r] = "refused"]
              /\ told' = [told EXCEPT ![r] = RetryAfter(h, row'[h].start, now)]
    BY <1>2, <1>3 DEF Arrive, Proceeds, Refused
  <2>2. /\ \A q \in Request \ {r} : /\ stage'[q] = stage[q] /\ told'[q] = told[q]
                                    /\ seen'[q] = seen[q]
        /\ stage'[r] \in {"reading", "refused"}
        /\ ~ InBudget(h) => stage'[r] = "refused" /\ told'[r] = RetryAfter(h, row'[h].start, now)
    BY <1>1, <2>1
  <2> QED BY <2>1, <2>2, ChargeEdge
<1>4. CASE CheckAddress(r)
  <2>1. /\ stage[r] = "reading" /\ Charge(r, a)
        /\ seen' = [seen EXCEPT ![r] = Passed(Global)]
        /\ \/ /\ ~ InBudget(a) /\ stage' = [stage EXCEPT ![r] = "refused"]
              /\ told' = [told EXCEPT ![r] = RetryAfter(a, row'[a].start, now)]
           \/ /\ InBudget(a) /\ stage' = [stage EXCEPT ![r] = "refused"]
              /\ told' = [told EXCEPT ![r] = RetryAfter(g, row'[g].start, now)]
           \/ /\ InBudget(a) /\ ~ Spent(Global)'
              /\ stage' = [stage EXCEPT ![r] = "checked"] /\ told' = told
    BY <1>2, <1>4 DEF CheckAddress, Proceeds, Refused, SendNow
  <2>2. /\ \A q \in Request \ {r} : /\ stage'[q] = stage[q] /\ told'[q] = told[q]
                                    /\ seen'[q] = seen[q]
        /\ stage'[r] \in {"checked", "refused"} /\ seen'[r] = Passed(Global)
        /\ stage'[r] = "checked" => ~ Spent(Global)'
        /\ ~ InBudget(a) => stage'[r] = "refused" /\ told'[r] = RetryAfter(a, row'[a].start, now)
    BY <1>1, <2>1
  <2>3. PICK E \in Charged : log' = log \cup {E} /\ E.on = a
    BY <2>1, ChargeEntry
  <2>4. Passed(Global)' = Passed(Global)
    BY <1>2, <2>3 DEF Passed
  <2> QED BY <2>1, <2>2, <2>4, ChargeEdge
<1>5. CASE SendMagicLink(r)
  <2>1. /\ stage[r] = "stored" /\ Charge(r, g) /\ seen' = seen
        /\ \/ /\ InBudget(g) /\ told' = told
              /\ \/ stage' = [stage EXCEPT ![r] = "mailed"]
                 \/ stage' = [stage EXCEPT ![r] = "failed"]
           \/ /\ ~ InBudget(g) /\ stage' = [stage EXCEPT ![r] = "orphaned"]
              /\ told' = [told EXCEPT ![r] = RetryAfter(g, row'[g].start, now)]
    BY <1>2, <1>5 DEF SendMagicLink, Proceeds
  <2>2. /\ \A q \in Request \ {r} : /\ stage'[q] = stage[q] /\ told'[q] = told[q]
                                    /\ seen'[q] = seen[q]
        /\ stage'[r] \in {"mailed", "failed", "orphaned"}
        /\ stage'[r] = "orphaned" <=> ~ InBudget(g)
        /\ ~ InBudget(g) => told'[r] = RetryAfter(g, row'[g].start, now)
        /\ seen'[r] = seen[r]
    BY <1>1, <2>1
  <2>3. ASSUME stage'[r] = "orphaned"
        PROVE  \E e \in Passed(Global)' \ seen'[r], f \in log' :
                 f.by = r /\ f.on = Global /\ f.start = e.start
    <3>1. PICK E \in Charged :
            log' = log \cup {E} /\ E.by = r /\ E.on = g /\ E.start = row'[g].start
      BY <2>1, ChargeEntry
    <3> DEFINE s == row'[g].start
    <3>2. /\ s \in 0 .. Horizon /\ now < s + Window[g]
          /\ Cardinality(CountedIn(g, s)) = Limit[g]
      BY <2>1, <2>2, <2>3, RefusedIsFull
    <3>3. ~ (Cardinality(CountedIn(g, s)) < Limit[g])
      BY <1>2, <3>2, RateAssumption
    <3> HIDE DEF s
    <3>4. ~ (CountedIn(g, s) \subseteq seen[r])
      BY <1>2, <2>1, <3>2, <3>3 DEF EdgeInv, SlotSeen
    <3>5. PICK e \in CountedIn(g, s) : e \notin seen[r]
      BY <3>4
    <3>6. e \in Passed(Global)' /\ e.start = s
      BY <1>2, <3>1, <3>5 DEF CountedIn, Passed
    <3> QED BY <1>2, <2>2, <3>1, <3>5, <3>6 DEF s
  <2> QED BY <2>1, <2>2, <2>3, ChargeEdge
<1>6. CASE Validate(r)
  <2>1. /\ stage[r] = "checked" /\ UNCHANGED <<now, row, log, came, seen, told>>
        /\ \/ stage' = [stage EXCEPT ![r] = "stored"]
           \/ stage' = [stage EXCEPT ![r] = "invalid"]
    BY <1>6 DEF Validate, Validated, Proceeds
  <2>2. /\ \A q \in Request \ {r} : stage'[q] = stage[q]
        /\ stage'[r] \in {"stored", "invalid"}
    BY <1>1, <2>1
  <2>3. WaitTold' /\ OrphansRaced'
    <3>1. \A e \in log : e.by \in Request
      BY DEF RateInv, TypeOK, Charged
    <3>2. WaitTold'
      BY <2>1, <2>2, <3>1 DEF EdgeInv, WaitTold, RetryAfter
    <3>3. OrphansRaced'
      BY <2>1, <2>2 DEF EdgeInv, OrphansRaced, Passed
    <3> QED BY <3>2, <3>3
  <2>4. SlotSeen'
    BY <2>1, <2>2 DEF EdgeInv, SlotSeen, CountedIn, Passed
  <2> QED BY <2>3, <2>4 DEF EdgeInv
<1> QED BY <1>3, <1>4, <1>5, <1>6

\* A token that nobody is sent was raced for: the request had seen a free slot and others
\* took the last one since.  And the wait that a refusal names is never longer than the
\* window, and long enough.
THEOREM EdgeOfQuota == LinkSpec => []QuotaEdge
<1>1. LinkInit => EdgeInv
  BY DEF LinkInit, Init, EdgeInv, SlotSeen, WaitTold, OrphansRaced
<1>2. LinkInv /\ RateInv /\ RateInv' /\ EdgeInv /\ [LinkNext]_sends => EdgeInv'
  <2> SUFFICES ASSUME LinkInv, RateInv, RateInv', EdgeInv, [LinkNext]_sends PROVE EdgeInv'
    OBVIOUS
  <2>1. CASE Tick /\ UNCHANGED <<stage, came, told, seen>>
    <3>1. now' = now + 1 /\ UNCHANGED <<row, log, stage, came, told, seen>>
      BY <2>1 DEF Tick
    <3>2. now \in Nat /\ Global \in Bucket /\ Window[Global] \in Nat
      BY Keys, RateAssumption DEF RateInv, TypeOK
    <3>3. WaitTold' /\ OrphansRaced'
      BY <3>1 DEF EdgeInv, WaitTold, OrphansRaced, RetryAfter, Passed
    <3>4. \A s \in 0 .. Horizon : (now < s + Window[Global])' => now < s + Window[Global]
      BY <3>1, <3>2
    <3>5. SlotSeen'
      BY <3>1, <3>4 DEF EdgeInv, SlotSeen, CountedIn, Passed
    <3> QED BY <3>3, <3>5 DEF EdgeInv
  <2>2. CASE UNCHANGED sends
    BY <2>2 DEF sends, EdgeInv, SlotSeen, WaitTold, OrphansRaced, CountedIn, Passed, RetryAfter
  <2> QED BY <2>1, <2>2, EdgeSteps DEF LinkNext
<1>3. RateInv /\ EdgeInv => QuotaEdge
  <2> SUFFICES ASSUME RateInv, EdgeInv PROVE RetryKept
    BY DEF EdgeInv, QuotaEdge
  <2> SUFFICES ASSUME NEW e \in log, ~ e.ok
               PROVE  /\ told[e.by] <= Window[e.on]
                      /\ \A f \in log : f.on = e.on /\ f.at >= e.at + told[e.by] => f.start > e.start
    BY DEF RetryKept
  <2>1. /\ e.start \in Nat /\ e.at \in Nat /\ Window[e.on] \in Nat
        /\ e.start <= e.at /\ e.at < e.start + Window[e.on]
    BY RateAssumption DEF RateInv, TypeOK, Charged, WindowsApart
  <2>2. told[e.by] = e.start + Window[e.on] - e.at
    BY <2>1 DEF EdgeInv, WaitTold, RetryAfter
  <2>3. ASSUME NEW f \in log, f.on = e.on, f.at >= e.at + told[e.by]
        PROVE  f.start > e.start
    <3>1. f.start \in Nat /\ f.at \in Nat /\ f.at < f.start + Window[e.on]
      BY <2>3 DEF RateInv, TypeOK, Charged, WindowsApart
    <3> QED BY <2>1, <2>2, <2>3, <3>1
  <2> QED BY <2>1, <2>2, <2>3
<1>4. LinkSpec => []RateInv
  BY LinksAreCharges, RateInvariant, PTL
<1> QED BY <1>1, <1>2, <1>3, <1>4, LinkInvariant, PTL DEF LinkSpec

-----------------------------------------------------------------------------
(* AccountDeletion                                                         *)

\* What is stored was stored by now, and what outlived a purge of its address was
\* missed by the last one.
LinksAged ==
  \A k \in Link :
    /\ stored[k] <= clock
    /\ old[k] # 0 => link[k] \in {"stored", "taken", "done"}
    /\ link[k] = "stored" /\ old[k] # 0 => missed[MailAddressOf(k)] /\ stored[k] < old[k]

\* The inductive invariant.
DeletionIInv ==
  /\ DeletionInv
  /\ \A a \in MailAddress : user[a] <= created
  /\ LinksAged

\* Cleaning a spelling leads to an address.
LEMMA AddressesHold == \A k \in Link : MailAddressOf(k) \in MailAddress
BY DeletionAssumption DEF MailAddressOf

\* Nothing is stored, nothing deleted.
LEMMA DeletionStarts == DeletionInit => DeletionIInv
<1> SUFFICES ASSUME DeletionInit PROVE DeletionIInv
  OBVIOUS
<1> USE DeletionAssumption DEF DeletionInit
<1>1. DeletionTypeOK
  BY DEF DeletionTypeOK, NoUser
<1>2. DeletionInv
  BY <1>1 DEF DeletionInv, NoUser, NoDeletion
<1> QED BY <1>2 DEF DeletionIInv, LinksAged, NoUser

\* The steps of links: ids are fresh, and a link is stored before it grows old.
LEMMA LinksKeep ==
  ASSUME DeletionIInv, NEW k \in Link,
         AskForLink(k) \/ StoreLink(k) \/ ConsumeLink(k) \/ Redeem(k)
  PROVE  DeletionIInv'
<1> USE DeletionAssumption, AddressesHold DEF DeletionIInv, DeletionInv, DeletionTypeOK
<1>1. CASE AskForLink(k)
  BY <1>1 DEF AskForLink, LinksAged
<1>2. CASE StoreLink(k)
  BY <1>2 DEF StoreLink, LinksAged
<1>3. CASE ConsumeLink(k)
  BY <1>3 DEF ConsumeLink, LinksAged
<1>4. CASE Redeem(k)
  <2> DEFINE a == MailAddressOf(k)
  <2>1. a \in MailAddress /\ LinksAged'
    BY <1>4 DEF Redeem, LinksAged
  <2>2. CASE user[a] # NoUser
    BY <1>4, <2>1, <2>2 DEF Redeem, NoUser
  <2>3. CASE user[a] = NoUser
    <3>1. /\ created' = created + 1 /\ created < Accounts /\ signedIn' = created + 1
          /\ user' = [user EXCEPT ![a] = created + 1]
          /\ UNCHANGED <<clock, stored, deletion, old, missed>>
          /\ link' = [link EXCEPT ![k] = "done"]
      BY <1>4, <2>3 DEF Redeem
    <3>2. DeletionTypeOK'
      BY <2>1, <3>1
    <3>3. user'[a] = created + 1 /\ \A b \in MailAddress \ {a} : user'[b] = user[b]
      BY <2>1, <3>1
    <3>4. \A b, c \in MailAddress : user'[b] = user'[c] /\ user'[b] # NoUser => b = c
      BY <3>1, <3>3
    <3>5. deletion.at \in {"asked", "purged"} => deletion.address # a
      BY <2>3 DEF NoUser, NoDeletion
    <3>6. deletion.at \in {"asked", "purged"} => deletion.address \in MailAddress
      BY DEF NoDeletion
    <3>7. \A b \in MailAddress : user'[b] <= created'
      BY <3>1, <3>3
    <3> QED BY <2>1, <3>1, <3>2, <3>3, <3>4, <3>5, <3>6, <3>7
  <2> QED BY <2>2, <2>3
<1> QED BY <1>1, <1>2, <1>3, <1>4

\* The steps of the deletion: the account named is the one that goes, and a purge
\* that ran leaves no link of its address.
LEMMA DeletionsKeep ==
  ASSUME DeletionIInv,
         \/ \E a \in MailAddress, named \in 1 .. created : AskToDelete(named, a)
         \/ BeforeDelete \/ DeleteUser \/ AfterDelete
  PROVE  DeletionIInv'
<1> USE DeletionAssumption, AddressesHold DEF DeletionIInv, DeletionInv, DeletionTypeOK
<1>1. ASSUME NEW a \in MailAddress, NEW named \in 1 .. created, AskToDelete(named, a)
      PROVE  DeletionIInv'
  <2>1. /\ deletion' = [at |-> "asked", of |-> signedIn, address |-> a, named |-> named]
        /\ signedIn # NoUser /\ user[a] = signedIn
        /\ UNCHANGED <<clock, user, created, signedIn, link, stored, old, missed>>
    BY <1>1 DEF AskToDelete
  <2>2. signedIn \in 1 .. Accounts /\ named \in 1 .. Accounts
    BY <2>1 DEF NoUser
  <2> QED BY <2>1, <2>2 DEF LinksAged
<1>2. CASE BeforeDelete
  <2>1. deletion \in [at : {"asked", "purged", "gone"}, of : 1 .. Accounts,
                      address : MailAddress, named : 1 .. Accounts]
    BY <1>2 DEF BeforeDelete, NoDeletion
  <2>2. link' \in [Link -> {"new", "hashing", "stored", "taken", "done"}]
    BY <1>2 DEF BeforeDelete, Purge
  <2>3. \A k \in Link : link'[k] = link[k] \/ (link[k] = "stored" /\ link'[k] = "done")
    BY <1>2 DEF BeforeDelete, Purge
  <2>4. LinksAged'
    BY <1>2, <2>3 DEF BeforeDelete, LinksAged
  <2> QED BY <1>2, <2>1, <2>2, <2>4 DEF BeforeDelete, NamesThisAccount, NoDeletion
<1>3. CASE DeleteUser
  <2>1. deletion \in [at : {"asked", "purged", "gone"}, of : 1 .. Accounts,
                      address : MailAddress, named : 1 .. Accounts]
    BY <1>3 DEF DeleteUser, NoDeletion
  <2>2. /\ user' = [user EXCEPT ![deletion.address] = NoUser]
        /\ signedIn' = IF signedIn = deletion.of THEN NoUser ELSE signedIn
        /\ deletion' = [deletion EXCEPT !.at = "gone"]
        /\ UNCHANGED <<clock, created, link, stored, old, missed>>
        /\ user[deletion.address] = deletion.of
    BY <1>3 DEF DeleteUser
  <2>3. DeletionTypeOK' /\ LinksAged'
    BY <2>1, <2>2 DEF NoUser, LinksAged
  <2>4. \A b \in MailAddress : b # deletion.address => user'[b] = user[b]
    BY <2>2
  <2> QED BY <1>3, <2>1, <2>2, <2>3, <2>4 DEF NoUser, DeleteUser
<1>4. CASE AfterDelete
  <2>1. PICK a : a = deletion.address
    OBVIOUS
  <2>2. a \in MailAddress
    BY <1>4, <2>1 DEF AfterDelete, NoDeletion
  <2>3. /\ old' = [k \in Link |-> IF k \in Over(a) THEN clock + 1 ELSE old[k]]
        /\ deletion' = NoDeletion
        /\ UNCHANGED <<clock, user, created, signedIn, stored>>
        /\ \/ PurgeAgain(a) /\ missed' = [missed EXCEPT ![a] = FALSE]
           \/ UNCHANGED link /\ missed' = [missed EXCEPT ![a] = TRUE]
    BY <1>4, <2>1 DEF AfterDelete
  <2>4. link' \in [Link -> {"new", "hashing", "stored", "taken", "done"}]
    BY <2>3 DEF PurgeAgain, Purge
  <2>7. old' \in [Link -> 0 .. LastInstant + 1]
    <3>1. clock + 1 \in 0 .. LastInstant + 1
      OBVIOUS
    <3> QED BY <2>3, <3>1
  <2>8. missed' \in [MailAddress -> BOOLEAN]
    <3>1. CASE missed' = [missed EXCEPT ![a] = FALSE]
      BY <3>1
    <3>2. CASE missed' = [missed EXCEPT ![a] = TRUE]
      BY <3>2
    <3> QED BY <2>3, <3>1, <3>2
  <2>5. DeletionTypeOK'
    BY <2>3, <2>4, <2>7, <2>8
  <2>6. LinksAged'
    <3> SUFFICES ASSUME NEW k \in Link
                 PROVE  /\ stored'[k] <= clock'
                        /\ old'[k] # 0 => link'[k] \in {"stored", "taken", "done"}
                        /\ link'[k] = "stored" /\ old'[k] # 0
                             => missed'[MailAddressOf(k)] /\ stored'[k] < old'[k]
      BY DEF LinksAged
    <3>1. link'[k] = link[k] \/ (link[k] = "stored" /\ link'[k] = "done")
      BY <2>3 DEF PurgeAgain, Purge
    <3>2. CASE k \in Over(a)
      <4>1. link[k] = "stored" /\ MailAddressOf(k) = a /\ old'[k] = clock + 1
        BY <2>3, <3>2 DEF Over
      <4>2. CASE PurgeAgain(a)
        <5>1. IsOf(k, a)
          BY <2>2, <4>1 DEF IsOf, MailAddressOf
        <5>2. link'[k] = "done"
          BY <4>1, <4>2, <5>1 DEF PurgeAgain, Purge
        <5> QED BY <2>3, <5>2 DEF LinksAged
      <4>3. CASE UNCHANGED link /\ missed' = [missed EXCEPT ![a] = TRUE]
        BY <2>2, <2>3, <4>1, <4>3 DEF LinksAged
      <4> QED BY <2>3, <4>2, <4>3
    <3>3. CASE k \notin Over(a)
      <4>1. old'[k] = old[k] /\ (link'[k] = "stored" => MailAddressOf(k) # a)
        BY <2>3, <3>1, <3>3 DEF Over
      <4>2. MailAddressOf(k) \in MailAddress
        OBVIOUS
      <4>3. MailAddressOf(k) # a => missed'[MailAddressOf(k)] = missed[MailAddressOf(k)]
        BY <2>2, <2>3, <4>2
      <4> QED BY <2>3, <3>1, <4>1, <4>3 DEF LinksAged
    <3> QED BY <3>2, <3>3
  <2> QED BY <2>3, <2>5, <2>6 DEF NoDeletion
<1> QED BY <1>1, <1>2, <1>3, <1>4

\* Every step keeps the invariant.
LEMMA DeletionStepKeeps == DeletionIInv /\ [DeletionNext]_deletionVars => DeletionIInv'
<1> SUFFICES ASSUME DeletionIInv, [DeletionNext]_deletionVars PROVE DeletionIInv'
  OBVIOUS
<1>1. CASE Advance
  BY <1>1, DeletionAssumption
  DEF Advance, DeletionIInv, DeletionInv, DeletionTypeOK, LinksAged
<1>2. CASE UNCHANGED deletionVars
  BY <1>2
  DEF deletionVars, DeletionIInv, DeletionInv, DeletionTypeOK, LinksAged
<1> QED BY <1>1, <1>2, LinksKeep, DeletionsKeep DEF DeletionNext

\* One account an address, and the deletion under way stays of the account it was
\* asked for, whatever signs in, signs up or asks for links meanwhile.
THEOREM DeletionInvariant == DeletionSpec => []DeletionInv
<1>1. DeletionIInv => DeletionInv
  BY DEF DeletionIInv
<1> QED BY <1>1, DeletionStarts, DeletionStepKeeps, PTL DEF DeletionSpec

\* Only the account that was confirmed is deleted, and it stays deleted: no link
\* that was stored when its last purge ran is redeemed later, however many links
\* were asked for and however they were typed.
THEOREM DeletionsKept == DeletionSpec => DeletionKept
<1>1. DeletionIInv /\ [DeletionNext]_deletionVars =>
        [\A a \in MailAddress : user[a] # NoUser /\ user'[a] # user[a] =>
           user'[a] = NoUser /\ deletion.named = user[a]]_deletionVars
  <2> SUFFICES ASSUME DeletionIInv, DeletionNext, NEW a \in MailAddress,
                      user[a] # NoUser, user'[a] # user[a]
               PROVE  user'[a] = NoUser /\ deletion.named = user[a]
    OBVIOUS
  <2>1. CASE DeleteUser
    BY <2>1 DEF DeleteUser, DeletionIInv, DeletionInv, DeletionTypeOK, NoUser
  <2>2. ASSUME NEW k \in Link, Redeem(k) PROVE FALSE
    BY <2>2, AddressesHold DEF Redeem, DeletionIInv, DeletionInv, DeletionTypeOK
  <2>3. user' = user \/ DeleteUser \/ \E k \in Link : Redeem(k)
    BY DEF DeletionNext, AskForLink, StoreLink, ConsumeLink, AskToDelete, BeforeDelete,
           AfterDelete, Advance
  <2> QED BY <2>1, <2>2, <2>3
<1>2. DeletionIInv /\ [DeletionNext]_deletionVars =>
        [\A k \in Link : link[k] = "stored" /\ link'[k] = "taken" /\ old[k] # 0 =>
           missed[MailAddressOf(k)] /\ clock < old[k] - 1 + LinkLife]_deletionVars
  <2> SUFFICES ASSUME DeletionIInv, DeletionNext, NEW k \in Link,
                      link[k] = "stored", link'[k] = "taken", old[k] # 0
               PROVE  missed[MailAddressOf(k)] /\ clock < old[k] - 1 + LinkLife
    OBVIOUS
  <2>1. link \in [Link -> {"new", "hashing", "stored", "taken", "done"}]
    BY DEF DeletionIInv, DeletionInv, DeletionTypeOK
  <2>2. ConsumeLink(k)
    <3>1. ASSUME NEW q \in Link, AskForLink(q) \/ StoreLink(q) \/ Redeem(q) PROVE FALSE
      BY <2>1, <3>1 DEF AskForLink, StoreLink, Redeem
    <3>2. ASSUME NEW q \in Link, ConsumeLink(q) PROVE q = k
      BY <2>1, <3>2 DEF ConsumeLink
    <3>3. ASSUME BeforeDelete \/ AfterDelete PROVE FALSE
      BY <3>3 DEF BeforeDelete, AfterDelete, PurgeAgain, Purge
    <3>4. ASSUME \/ \E a \in MailAddress, named \in 1 .. created : AskToDelete(named, a)
                 \/ DeleteUser \/ Advance
          PROVE FALSE
      BY <3>4 DEF AskToDelete, DeleteUser, Advance
    <3> QED BY <3>1, <3>2, <3>3, <3>4 DEF DeletionNext
  <2>3. clock < stored[k] + LinkLife
    BY <2>1, <2>2 DEF ConsumeLink, Lives
  <2>4. stored[k] < old[k] /\ missed[MailAddressOf(k)]
    BY DEF DeletionIInv, LinksAged
  <2>5. stored[k] \in Nat /\ old[k] \in Nat /\ clock \in Nat /\ LinkLife \in Nat
    BY DeletionAssumption DEF DeletionIInv, DeletionInv, DeletionTypeOK
  <2> QED BY <2>3, <2>4, <2>5
<1> QED BY <1>1, <1>2, DeletionStarts, DeletionStepKeeps, PTL
    DEF DeletionSpec, DeletionKept, RightAccount, DeletedStaysDeleted

-----------------------------------------------------------------------------
(* SessionCheck                                                            *)

\* No 401 of a dead session is forgotten and nothing but the server's word signs
\* a page out, however often it is denied or focused.
THEOREM CheckInvariant == CheckSpec => []CheckInv
<1>1. CheckInit => CheckInv
  <2> SUFFICES ASSUME CheckInit PROVE CheckInv
    OBVIOUS
  <2>1. denied \in 0 .. MaxDenied /\ focused \in 0 .. MaxFocus
    BY CheckAssumption DEF CheckInit
  <2>2. /\ sound \in BOOLEAN /\ alive = TRUE /\ session = TRUE /\ trailing = FALSE /\ heard = FALSE
        /\ check = "none" /\ inFlight = "none"
    BY DEF CheckInit
  <2> QED BY <2>1, <2>2 DEF CheckInv, CheckTypeOK, NeverForgotten, NoFalseSignOut, Answers
<1>2. CheckInv /\ [CheckNext]_checkVars => CheckInv'
  <2> SUFFICES ASSUME CheckInv, [CheckNext]_checkVars PROVE CheckInv'
    OBVIOUS
  <2> USE CheckAssumption DEF CheckInv, CheckTypeOK, NeverForgotten, NoFalseSignOut, Answers
  <2>1. CASE Unauthorized
    <3>1. denied' \in 0 .. MaxDenied /\ focused' \in 0 .. MaxFocus
      BY <2>1 DEF Unauthorized
    <3>2. session /\ sound' = sound /\ alive' = alive /\ session' = session /\ heard' = (heard \/ ~ alive)
      BY <2>1 DEF Unauthorized
    <3>3. CASE Coalesce
      BY <3>1, <3>2, <3>3 DEF Coalesce
    <3>4. CASE inFlight = "none" /\ Run
      BY <3>1, <3>2, <3>4 DEF Run, Refetch
    <3> QED BY <2>1, <3>3, <3>4 DEF Unauthorized
  <2>2. CASE StopWaiting
    BY <2>2 DEF StopWaiting, TimedOut
  <2>3. CASE Continue
    BY <2>3 DEF Continue, Resume, Run, Refetch
  <2>4. CASE Revoke
    BY <2>4 DEF Revoke
  <2>5. CASE Serve
    BY <2>5 DEF Serve
  <2>6. CASE Deliver
    BY <2>6 DEF Deliver, Publish, Settled
  <2>7. CASE Focus
    BY <2>7 DEF Focus, Refetch, Settled
  <2>8. CASE UNCHANGED checkVars
    BY <2>8 DEF checkVars
  <2> QED BY <2>1, <2>2, <2>3, <2>4, <2>5, <2>6, <2>7, <2>8 DEF CheckNext
<1> QED BY <1>1, <1>2, PTL DEF CheckSpec

-----------------------------------------------------------------------------
(* BrowserTabs                                                             *)

\* An account, or none.
Who == User \cup {Nobody}
\* The deletes that may be out.
DeleteCalls == {Deleting(u) : u \in User}

\* The documents a tab can show.
Docs == [route : {"root", "list", "lists", "sign-in", "magic", "none"}, at : Who,
         atom : Who, asked : BOOLEAN, lists : SUBSET User, from : Who,
         fetching : BOOLEAN, failed : BOOLEAN, held : SUBSET Who, tearing : BOOLEAN,
         leaving : {"stay", "root", "sign-in", "verify"}, busy : BOOLEAN, parked : Who,
         linkSent : BOOLEAN, submitting : BOOLEAN, calls : SUBSET (DeleteCalls \cup {Proof})]

\* The delete of a document, asked or parked, is of one account, which confirmed it,
\* and which the document is signed in as for as long as it stands.
CallsOk(d) ==
  /\ \A b, c \in d.calls : b = c
  /\ ~ d.submitting => d.calls = {}
  /\ \A u \in User : Deleting(u) \in d.calls =>
       u \in typed /\ d.parked \in {Nobody, u} /\ (~ d.tearing => u = d.atom)
  /\ Proof \in d.calls => d.parked # Nobody
  /\ d.parked # Nobody => d.parked \in typed
  /\ ~ d.tearing => d.parked \in {Nobody, d.atom}

\* The rows of a document that stands are its account's, and what it knows of lists
\* is what the account that was asked about had.
RowsOk(d) ==
  /\ ~ d.tearing => /\ d.held \subseteq {d.atom} /\ Nobody \notin d.held
                    /\ d.fetching => d.atom # Nobody
  /\ d.from # Nobody /\ d.from \in existing => d.from \in d.lists

\* A document that stays is not torn down, and not of an account the tab has left.
StayOk(d, gone) ==
  d.leaving = "stay" => ~ d.tearing /\ (d.atom # Nobody => d.atom \notin gone)

\* What is true of every document, shown or kept for Back.
DocOk(d) == d \in Docs /\ CallsOk(d) /\ RowsOk(d)

\* The inductive invariant.
TabsInv ==
  /\ cookie \in [user : Who, fresh : BOOLEAN]
  /\ pointer \in [list : Who, owner : Who]
  /\ accounts \subseteq User /\ existing \subseteq User /\ typed \subseteq User
  /\ left \in [Tab -> SUBSET Who]
  /\ docs \in [Tab -> Docs] /\ frozen \in [Tab -> Docs]
  /\ \A t \in Tab : DocOk(docs[t]) /\ StayOk(docs[t], left[t])
  /\ \A t \in Tab : DocOk(frozen[t]) /\ frozen[t].calls = {}
  /\ ConfirmedOnly

\* The step of ParkedKept.
ParkedStep ==
  \A t \in Tab : docs[t].parked # Nobody =>
    \/ docs'[t].parked = docs[t].parked
    \/ Deleting(docs[t].parked) \in docs'[t].calls
    \/ docs'[t].asked = FALSE \/ frozen'[t] # frozen[t]

\* The step of PointerKept.
PointerStep ==
  (/\ pointer # NoPointer /\ pointer' = NoPointer
   /\ pointer.owner = cookie.user /\ pointer.list = pointer.owner
   /\ pointer.list \in existing'
   /\ \A t \in Tab : docs[t].from \in {Nobody, docs[t].atom})
    => \E t \in Tab : docs'[t] # docs[t] /\ docs'[t].leaving # "stay"

\* What is shown for every step of every tab.
TabsHold == TabsInv' /\ ParkedStep /\ PointerStep

\* Whatever one document has confirmed and others' lists go, a document stays well
\* formed.
LEMMA DocsLast ==
  ASSUME NEW d, DocOk(d), typed \subseteq typed', existing' \subseteq existing
  PROVE  DocOk(d)'
BY DEF DocOk, CallsOk, RowsOk

\* What a document that loads starts with.
LEMMA LoadsOk ==
  ASSUME NEW r \in {"root", "list", "lists", "sign-in", "magic", "none"}
  PROVE  /\ Loaded(r) \in Docs /\ DocOk(Loaded(r)) /\ Loaded(r).calls = {}
         /\ \A gone : StayOk(Loaded(r), gone)
         /\ Loaded(r).asked = FALSE /\ Loaded(r).parked = Nobody
<1>1. Loaded(r) \in Docs
  BY DEF Loaded, Docs, Who
<1>2. CallsOk(Loaded(r))
  BY DEF Loaded, CallsOk
<1>3. RowsOk(Loaded(r))
  BY DEF Loaded, RowsOk
<1> QED
  BY <1>1, <1>2, <1>3 DEF DocOk, StayOk, Loaded

\* A step of one tab: its new document, the one it keeps for Back, and what it left.
LEMMA OneTab ==
  ASSUME TabsInv, NEW t \in Tab, NEW e, NEW f, NEW x,
         docs' = [docs EXCEPT ![t] = e],
         frozen' = [frozen EXCEPT ![t] = f],
         left' = [left EXCEPT ![t] = x],
         DocOk(e)', StayOk(e, x), DocOk(f)', f.calls = {}, x \in SUBSET Who,
         cookie' \in [user : Who, fresh : BOOLEAN],
         pointer' \in [list : Who, owner : Who],
         accounts' \subseteq User, existing' \subseteq existing,
         typed \subseteq typed', typed' \subseteq User,
         User \ accounts' \subseteq typed',
         docs[t].parked # Nobody =>
           \/ e.parked = docs[t].parked
           \/ Deleting(docs[t].parked) \in e.calls
           \/ e.asked = FALSE \/ f # frozen[t],
         PointerStep
  PROVE  TabsHold
<1>1. e \in Docs /\ f \in Docs
  BY DEF DocOk, Docs, Who, DeleteCalls
<1>2. /\ docs' \in [Tab -> Docs] /\ frozen' \in [Tab -> Docs] /\ left' \in [Tab -> SUBSET Who]
      /\ existing' \subseteq User
  BY <1>1 DEF TabsInv
<1>3. \A s \in Tab : DocOk(docs[s])' /\ StayOk(docs[s], left[s])'
  <2> SUFFICES ASSUME NEW s \in Tab PROVE DocOk(docs[s])' /\ StayOk(docs[s], left[s])'
    OBVIOUS
  <2>1. CASE s = t
    <3>1. docs'[s] = e /\ left'[s] = x
      BY <2>1 DEF TabsInv
    <3> QED
      BY <3>1 DEF DocOk, CallsOk, RowsOk, StayOk
  <2>2. CASE s # t
    <3>1. docs'[s] = docs[s] /\ left'[s] = left[s] /\ DocOk(docs[s]) /\ StayOk(docs[s], left[s])
      BY <2>2 DEF TabsInv
    <3>2. PICK d : d = docs[s] /\ d = docs'[s]
      BY <3>1
    <3>3. DocOk(d)'
      BY <3>1, <3>2, DocsLast
    <3> QED
      BY <3>1, <3>2, <3>3 DEF DocOk, CallsOk, RowsOk, StayOk
  <2> QED
    BY <2>1, <2>2
<1>4. \A s \in Tab : DocOk(frozen[s])' /\ (frozen[s].calls = {})'
  <2> SUFFICES ASSUME NEW s \in Tab PROVE DocOk(frozen[s])' /\ (frozen[s].calls = {})'
    OBVIOUS
  <2>1. CASE s = t
    <3>1. frozen'[s] = f
      BY <2>1 DEF TabsInv
    <3> QED
      BY <3>1 DEF DocOk, CallsOk, RowsOk
  <2>2. CASE s # t
    <3>1. frozen'[s] = frozen[s] /\ DocOk(frozen[s]) /\ frozen[s].calls = {}
      BY <2>2 DEF TabsInv
    <3>2. PICK d : d = frozen[s] /\ d = frozen'[s]
      BY <3>1
    <3>3. DocOk(d)'
      BY <3>1, <3>2, DocsLast
    <3> QED
      BY <3>1, <3>2, <3>3 DEF DocOk, CallsOk, RowsOk
  <2> QED
    BY <2>1, <2>2
<1>5. ParkedStep
  <2> SUFFICES ASSUME NEW s \in Tab, docs[s].parked # Nobody
               PROVE  \/ docs'[s].parked = docs[s].parked
                      \/ Deleting(docs[s].parked) \in docs'[s].calls
                      \/ docs'[s].asked = FALSE \/ frozen'[s] # frozen[s]
    BY DEF ParkedStep
  <2>1. CASE s = t
    <3>1. docs'[s] = e /\ frozen'[s] = f
      BY <2>1 DEF TabsInv
    <3> QED
      BY <2>1, <3>1
  <2>2. CASE s # t
    BY <2>2 DEF TabsInv
  <2> QED
    BY <2>1, <2>2
<1>6. TabsInv'
  BY <1>2, <1>3, <1>4 DEF TabsInv, ConfirmedOnly, Docs, Who, DeleteCalls
<1> QED
  BY <1>5, <1>6 DEF TabsHold

\* A step of one tab that keeps no new document for Back.
LEMMA OneDoc ==
  ASSUME TabsInv, NEW t \in Tab, NEW e, NEW x,
         docs' = [docs EXCEPT ![t] = e], frozen' = frozen,
         left' = [left EXCEPT ![t] = x],
         DocOk(e)', StayOk(e, x), x \in SUBSET Who,
         cookie' \in [user : Who, fresh : BOOLEAN],
         pointer' \in [list : Who, owner : Who],
         accounts' \subseteq User, existing' \subseteq existing,
         typed \subseteq typed', typed' \subseteq User,
         User \ accounts' \subseteq typed',
         docs[t].parked # Nobody =>
           \/ e.parked = docs[t].parked
           \/ Deleting(docs[t].parked) \in e.calls
           \/ e.asked = FALSE,
         PointerStep
  PROVE  TabsHold
<1>1. PICK f : f = frozen[t]
  OBVIOUS
<1>2. frozen' = [frozen EXCEPT ![t] = f] /\ DocOk(f) /\ f.calls = {}
  BY <1>1 DEF TabsInv
<1>3. DocOk(f)'
  BY <1>2, DocsLast
<1> QED
  BY <1>2, <1>3, OneTab

\* The effects of a list page lose no pointer that leads to its owner's list: the
\* rows that say the list is missing are its owner's.
LEMMA PointerCommits ==
  ASSUME TabsInv, NEW t \in Tab, NEW e \in Docs,
         docs' = [docs EXCEPT ![t] = e],
         pointer' = PointerAfter(docs[t], e),
         RowsOk(e)',
         docs[t].from \in {Nobody, docs[t].atom} =>
           e.from \in {Nobody, e.atom, cookie.user}
  PROVE  PointerStep /\ pointer' \in [list : Who, owner : Who]
<1>1. /\ pointer \in [list : Who, owner : Who]
      /\ e.at \in Who /\ e.atom \in Who /\ e.lists \subseteq User
  BY DEF TabsInv, Docs
<1>2. Nobody \notin User
  BY BrowserAssumption
<1>3. CASE pointer' = pointer
  BY <1>1, <1>3 DEF PointerStep
<1>4. CASE Resolved(e) /\ pointer' = [list |-> e.at, owner |-> e.atom]
  <2>1. pointer' # NoPointer
    BY <1>1, <1>2, <1>4 DEF Resolved, NoPointer
  <2> QED
    BY <1>1, <1>4, <2>1 DEF PointerStep
<1>5. CASE /\ ListMissing(e) /\ pointer = [list |-> e.at, owner |-> e.atom]
           /\ pointer' = NoPointer
  <2> SUFFICES ASSUME pointer.owner = cookie.user, pointer.list = pointer.owner,
                      pointer.list \in existing',
                      docs[t].from \in {Nobody, docs[t].atom}
               PROVE  FALSE
    BY <1>5 DEF PointerStep, NoPointer, Who
  <2>1. e.at = cookie.user /\ e.atom = cookie.user /\ e.at \in existing'
    BY <1>5
  <2>2. e.from = e.at /\ e.from # Nobody /\ e.at \notin e.lists
    BY <1>5, <2>1 DEF ListMissing
  <2> QED
    BY <2>1, <2>2 DEF RowsOk
<1> QED
  BY <1>3, <1>4, <1>5 DEF PointerAfter

\* A pointer that is dropped with the leaving of its account is dropped rightly.
LEMMA PointerGoes ==
  ASSUME TabsInv, NEW t \in Tab, NEW e, docs' = [docs EXCEPT ![t] = e],
         pointer' \in {pointer, NoPointer},
         pointer' # pointer => e # docs[t] /\ e.leaving # "stay"
  PROVE  PointerStep /\ pointer' \in [list : Who, owner : Who]
<1>1. docs'[t] = e /\ pointer \in [list : Who, owner : Who]
  BY DEF TabsInv
<1> QED
  BY <1>1 DEF PointerStep, NoPointer, Who

\* The parts of a document that its rows, its calls and its staying depend on.
SameRows(d, e) ==
  /\ e.atom = d.atom /\ e.tearing = d.tearing /\ e.lists = d.lists /\ e.from = d.from
  /\ e.held = d.held /\ (e.fetching => d.fetching)
SameCalls(d, e) ==
  /\ e.atom = d.atom /\ e.tearing = d.tearing /\ e.parked = d.parked
  /\ e.submitting = d.submitting /\ e.calls = d.calls

\* A document whose rows and calls are as they were is as well formed.
LEMMA SameDocs ==
  ASSUME TabsInv, NEW d, NEW e \in Docs, DocOk(d), typed' = typed, existing' = existing
  PROVE  /\ SameRows(d, e) => RowsOk(e)'
         /\ SameCalls(d, e) => CallsOk(e)'
BY DEF DocOk, RowsOk, CallsOk, SameRows, SameCalls

\* What the steps below know of a tab.
LEMMA TabFacts ==
  ASSUME TabsInv, NEW t \in Tab
  PROVE  /\ docs[t] \in Docs /\ DocOk(docs[t]) /\ CallsOk(docs[t]) /\ RowsOk(docs[t])
         /\ StayOk(docs[t], left[t])
         /\ frozen[t] \in Docs /\ DocOk(frozen[t]) /\ frozen[t].calls = {}
         /\ left[t] \in SUBSET Who /\ left = [left EXCEPT ![t] = left[t]]
         /\ docs = [docs EXCEPT ![t] = docs[t]]
         /\ cookie \in [user : Who, fresh : BOOLEAN] /\ cookie.user \in Who
         /\ pointer \in [list : Who, owner : Who]
         /\ accounts \subseteq User /\ existing \subseteq User /\ typed \subseteq User
         /\ User \ accounts \subseteq typed
BY DEF TabsInv, DocOk, ConfirmedOnly

\* A session that changes tears an established document down with everything of it.
LEMMA ReadSessionStep ==
  ASSUME TabsInv, NEW t \in Tab, ReadSession(t)
  PROVE  TabsHold
<1>1. PICK d, e, u : d = docs[t] /\ u = cookie.user /\ e = Observed(d, u)
  OBVIOUS
<1>2. /\ e # d /\ docs' = [docs EXCEPT ![t] = e]
      /\ pointer' = IF e.tearing THEN NoPointer ELSE PointerAfter(d, e)
      /\ left' = [left EXCEPT ![t] = (left[t] \ {u}) \cup (IF e.tearing THEN {d.atom} ELSE {})]
      /\ UNCHANGED <<cookie, accounts, existing, frozen, clicksLeft, typed>>
  BY <1>1 DEF ReadSession
<1>3. d \in Docs /\ u \in Who /\ DocOk(d) /\ CallsOk(d) /\ RowsOk(d) /\ StayOk(d, left[t])
  BY <1>1, TabFacts
<1>4. /\ e \in Docs /\ e.atom = u /\ e.tearing = (d.tearing \/ d.atom \notin {Nobody, u})
      /\ e.lists = d.lists /\ e.from = d.from /\ e.held = d.held /\ e.fetching = d.fetching
      /\ e.parked = d.parked /\ e.submitting = d.submitting /\ e.calls = d.calls
      /\ e.leaving = IF d.atom \notin {Nobody, u} THEN "root" ELSE d.leaving
  <2>1. CASE d.atom \notin {Nobody, u}
    <3>1. e = [d EXCEPT !.atom = u, !.asked = TRUE, !.tearing = TRUE, !.leaving = "root"]
      BY <1>1, <2>1 DEF Observed
    <3> QED
      BY <1>3, <2>1, <3>1 DEF Docs
  <2>2. CASE d.atom \in {Nobody, u}
    <3>1. PICK r \in {"root", "list", "lists", "sign-in", "magic", "none"} :
            e = [d EXCEPT !.atom = u, !.asked = TRUE, !.route = r]
      BY <1>1, <1>3, <2>2 DEF Observed, Docs
    <3> QED
      BY <1>3, <2>2, <3>1 DEF Docs
  <2> QED
    BY <2>1, <2>2
<1>5. CallsOk(e)'
  BY <1>2, <1>3, <1>4, BrowserAssumption DEF CallsOk, Docs
<1>6. RowsOk(e)'
  BY <1>2, <1>3, <1>4 DEF RowsOk
<1>7. PICK x : x = (left[t] \ {u}) \cup (IF e.tearing THEN {d.atom} ELSE {})
  OBVIOUS
<1>8. StayOk(e, x) /\ x \in SUBSET Who
  BY <1>3, <1>4, <1>7, TabFacts DEF StayOk, Docs
<1>9. PointerStep /\ pointer' \in [list : Who, owner : Who]
  <2>1. CASE e.tearing
    <3>1. e.leaving # "stay"
      BY <1>3, <1>4, <2>1 DEF StayOk
    <3> QED
      BY <1>1, <1>2, <2>1, <3>1, PointerGoes
  <2>2. CASE ~ e.tearing
    <3>1. d.from \in {Nobody, d.atom} => e.from \in {Nobody, e.atom}
      BY <1>4, <2>2
    <3> QED
      BY <1>1, <1>2, <1>4, <1>6, <2>2, <3>1, PointerCommits
  <2> QED
    BY <2>1, <2>2
<1>10. docs' = [docs EXCEPT ![t] = e] /\ left' = [left EXCEPT ![t] = x] /\ DocOk(e)'
  BY <1>2, <1>4, <1>5, <1>6, <1>7 DEF DocOk, Docs, Who, DeleteCalls
<1> QED
  BY <1>1, <1>2, <1>4, <1>8, <1>9, <1>10, TabFacts, OneDoc

\* Signing in changes the browser's session, and moves a page that knows it.
LEMMA SignInStep ==
  ASSUME TabsInv, NEW t \in Tab, NEW u \in User, SignIn(t, u)
  PROVE  TabsHold
<1>1. PICK d, r, e : /\ d = docs[t] /\ r = IF docs[t].atom = Nobody THEN "sign-in" ELSE "root"
                     /\ e = [d EXCEPT !.route = r]
  OBVIOUS
<1>2. /\ docs' = [docs EXCEPT ![t] = e] /\ pointer' = PointerAfter(docs[t], e)
      /\ cookie' = [user |-> u, fresh |-> TRUE]
      /\ UNCHANGED <<accounts, existing, frozen, left, typed>>
  BY <1>1 DEF SignIn, Commit
<1>3. /\ d \in Docs /\ e \in Docs /\ SameRows(d, e) /\ SameCalls(d, e) /\ e.leaving = d.leaving
  BY <1>1, TabFacts DEF Docs, SameRows, SameCalls
<1>4. CallsOk(e)' /\ RowsOk(e)' /\ DocOk(e)'
  BY <1>1, <1>2, <1>3, TabFacts, SameDocs DEF DocOk, Docs, Who, DeleteCalls
<1>5. PointerStep /\ pointer' \in [list : Who, owner : Who]
  BY <1>1, <1>2, <1>3, <1>4, PointerCommits DEF SameRows
<1>6. StayOk(e, left[t]) /\ cookie' \in [user : Who, fresh : BOOLEAN]
  BY <1>1, <1>2, <1>3, TabFacts DEF StayOk, SameRows, Who
<1>7. /\ e.parked = docs[t].parked /\ User \ accounts' \subseteq typed'
      /\ accounts' \subseteq User /\ typed' \subseteq User
      /\ existing' \subseteq existing /\ typed \subseteq typed' /\ frozen' = frozen
      /\ left' = [left EXCEPT ![t] = left[t]] /\ left[t] \in SUBSET Who
  BY <1>1, <1>2, <1>3, TabFacts DEF SameCalls
<1> QED
  BY <1>2, <1>4, <1>5, <1>6, <1>7, OneDoc

\* A page that signs out is on its way out, and its account is one it has left.
LEMMA SignOutStep ==
  ASSUME TabsInv, NEW t \in Tab, NEW ended \in BOOLEAN, SignOut(t, ended)
  PROVE  TabsHold
<1>1. PICK d, e, x : /\ d = docs[t] /\ x = left[t] \cup {docs[t].atom}
                     /\ e = [d EXCEPT !.busy = TRUE, !.leaving = "sign-in"]
  OBVIOUS
<1>2. /\ docs' = [docs EXCEPT ![t] = e] /\ pointer' = NoPointer /\ ~ d.busy
      /\ cookie' = IF ended THEN NoSession ELSE cookie
      /\ left' = [left EXCEPT ![t] = x]
      /\ UNCHANGED <<accounts, existing, frozen, typed>>
  BY <1>1, TabFacts DEF SignOut
<1>3. /\ d \in Docs /\ e \in Docs /\ SameRows(d, e) /\ SameCalls(d, e)
      /\ e.leaving = "sign-in" /\ e.busy
  <2>1. d \in Docs
    BY <1>1, TabFacts
  <2> QED
    BY <1>1, <2>1 DEF Docs, SameRows, SameCalls
<1>4. CallsOk(e)' /\ RowsOk(e)' /\ DocOk(e)'
  BY <1>1, <1>2, <1>3, TabFacts, SameDocs DEF DocOk, Docs, Who, DeleteCalls
<1>5. PointerStep /\ pointer' \in [list : Who, owner : Who]
  BY <1>1, <1>2, <1>3, PointerGoes
<1>6. StayOk(e, x) /\ cookie' \in [user : Who, fresh : BOOLEAN] /\ x \in SUBSET Who
  BY <1>1, <1>2, <1>3, TabFacts DEF StayOk, NoSession, Who, Docs
<1>7. /\ e.parked = docs[t].parked /\ User \ accounts' \subseteq typed'
      /\ accounts' \subseteq User /\ typed' \subseteq User
      /\ existing' \subseteq existing /\ typed \subseteq typed' /\ frozen' = frozen
  BY <1>1, <1>2, <1>3, TabFacts DEF SameCalls
<1>8. left' = [left EXCEPT ![t] = x]
  BY <1>2
<1> QED
  BY <1>2, <1>4, <1>5, <1>6, <1>7, <1>8, OneDoc

\* A document kept for Back waits for nothing.
LEMMA KeptOk ==
  ASSUME NEW d, DocOk(d)
  PROVE  DocOk(Kept(d)) /\ Kept(d).calls = {}
<1>1. d \in Docs /\ CallsOk(d) /\ RowsOk(d)
  BY DEF DocOk
<1>2. PICK e : e = [d EXCEPT !.leaving = "stay", !.calls = {}, !.fetching = FALSE]
  OBVIOUS
<1>3. /\ e \in Docs /\ e.calls = {} /\ e.parked = d.parked /\ e.tearing = d.tearing
      /\ e.atom = d.atom /\ SameRows(d, e)
  BY <1>1, <1>2 DEF Docs, SameRows
<1>4. CallsOk(e) /\ RowsOk(e)
  BY <1>1, <1>3 DEF CallsOk, RowsOk, SameRows
<1> QED
  BY <1>2, <1>3, <1>4 DEF DocOk, Kept

\* A document that gives way to one that loads.
LEMMA LoadStep ==
  ASSUME TabsInv, NEW t \in Tab,
         NEW r \in {"root", "list", "lists", "sign-in", "magic", "none"},
         docs' = [docs EXCEPT ![t] = Loaded(r)],
         frozen' = [frozen EXCEPT ![t] = Kept(docs[t])],
         cookie' \in [user : Who, fresh : BOOLEAN],
         accounts \subseteq accounts', accounts' \subseteq User,
         UNCHANGED <<existing, pointer, left, typed>>
  PROVE  TabsHold
<1>1. PICK e, f : e = Loaded(r) /\ f = Kept(docs[t])
  OBVIOUS
<1>2. /\ DocOk(e) /\ DocOk(f) /\ f.calls = {} /\ e.asked = FALSE
      /\ \A gone : StayOk(e, gone)
  BY <1>1, LoadsOk, KeptOk, TabFacts
<1>3. DocOk(e)' /\ DocOk(f)'
  BY <1>2, DocsLast
<1>4. PointerStep
  BY DEF PointerStep
<1> QED
  BY <1>1, <1>2, <1>3, <1>4, TabFacts, OneTab

\* A link that is opened loads a document, and keeps the one before as it was.
LEMMA OpenLinkStep ==
  ASSUME TabsInv, NEW t \in Tab, OpenLink(t)
  PROVE  TabsHold
BY TabFacts, LoadStep DEF OpenLink

\* What a navigation loads starts from nothing, and verifying adds an account at most.
LEMMA UnloadStep ==
  ASSUME TabsInv, NEW t \in Tab, Unload(t)
  PROVE  TabsHold
<1>1. /\ frozen' = [frozen EXCEPT ![t] = Kept(docs[t])]
      /\ UNCHANGED <<existing, pointer, left, typed>>
  BY DEF Unload
<1>2. PICK r \in {"root", "list", "lists", "sign-in", "magic", "none"} :
        docs' = [docs EXCEPT ![t] = Loaded(r)]
  BY TabFacts DEF Unload
<1>3. /\ cookie' \in [user : Who, fresh : BOOLEAN]
      /\ accounts \subseteq accounts' /\ accounts' \subseteq User
  <2>1. CASE UNCHANGED <<cookie, accounts>>
    BY <2>1, TabFacts
  <2>2. CASE \E u \in User : /\ cookie' = [user |-> u, fresh |-> TRUE]
                            /\ accounts' = accounts \cup {u}
    BY <2>2, TabFacts DEF Who
  <2> QED
    BY <2>1, <2>2 DEF Unload
<1> QED
  BY <1>1, <1>2, <1>3, LoadStep

\* What Back shows is a document that loads, or one that was never signed in.
LEMMA BackStep ==
  ASSUME TabsInv, NEW t \in Tab, Back(t)
  PROVE  TabsHold
<1>1. PICK g, b, e, f : /\ g = frozen[t] /\ b = Restored(g) /\ f = NoDoc
                        /\ e = [b EXCEPT !.at = g.at]
  OBVIOUS
<1>2. /\ docs' = [docs EXCEPT ![t] = e] /\ frozen' = [frozen EXCEPT ![t] = f] /\ g # f
      /\ UNCHANGED <<cookie, accounts, existing, pointer, left, typed>>
  BY <1>1 DEF Back
<1>3. /\ g \in Docs /\ DocOk(g)
      /\ g.route \in {"root", "list", "lists", "sign-in", "magic", "none"} /\ g.at \in Who
  BY <1>1, TabFacts DEF Docs
<1>4. DocOk(b) /\ b.atom = Nobody /\ b.tearing = FALSE
  <2>1. CASE WasAuthenticated(g)
    BY <1>1, <1>3, <2>1, LoadsOk DEF Restored, Loaded
  <2>2. CASE ~ WasAuthenticated(g)
    BY <1>1, <1>3, <2>2 DEF Restored, WasAuthenticated, Docs
  <2> QED
    BY <2>1, <2>2
<1>5. /\ e \in Docs /\ SameRows(b, e) /\ SameCalls(b, e)
  BY <1>1, <1>3, <1>4 DEF DocOk, Docs, SameRows, SameCalls
<1>6. DocOk(e)' /\ StayOk(e, left[t])
  BY <1>2, <1>4, <1>5, SameDocs DEF DocOk, StayOk, SameRows, Docs, Who, DeleteCalls
<1>7. DocOk(f)' /\ f.calls = {}
  <2>1. PICK n : n = Loaded("none")
    OBVIOUS
  <2>2. n \in Docs /\ DocOk(n) /\ n.calls = {} /\ f = [n EXCEPT !.asked = TRUE]
    BY <1>1, <2>1, LoadsOk DEF NoDoc
  <2>3. f \in Docs /\ SameRows(n, f) /\ SameCalls(n, f)
    BY <2>2 DEF Docs, SameRows, SameCalls
  <2> QED
    BY <1>2, <2>2, <2>3, SameDocs DEF DocOk, SameCalls, Docs, Who, DeleteCalls
<1>8. PointerStep
  BY <1>2 DEF PointerStep
<1> QED
  BY <1>1, <1>2, <1>6, <1>7, <1>8, TabFacts, OneTab

\* A step of a page that changes neither its account nor its calls, and shows its
\* rows or loses them.
LEMMA PageStep ==
  ASSUME TabsInv, NEW t \in Tab, NEW e \in Docs,
         docs' = [docs EXCEPT ![t] = e], pointer' = PointerAfter(docs[t], e),
         SameCalls(docs[t], e), RowsOk(e)', e.leaving = docs[t].leaving,
         e.from \in {docs[t].from, cookie.user},
         UNCHANGED <<cookie, accounts, existing, frozen, left, typed>>
  PROVE  TabsHold
<1>1. CallsOk(e)' /\ DocOk(e)'
  BY TabFacts, SameDocs DEF DocOk, Docs, Who, DeleteCalls
<1>2. PointerStep /\ pointer' \in [list : Who, owner : Who]
  BY PointerCommits DEF SameCalls
<1>3. StayOk(e, left[t])
  BY TabFacts DEF StayOk, SameCalls
<1> QED
  BY <1>1, <1>2, <1>3, TabFacts, OneDoc DEF SameCalls

\* A read of the lists starts only where an account is shown.
LEMMA FetchListsStep ==
  ASSUME TabsInv, NEW t \in Tab, FetchLists(t)
  PROVE  TabsHold
<1>1. PICK d, e : d = docs[t] /\ d \in Docs /\ e = [d EXCEPT !.fetching = TRUE]
  BY TabFacts
<1>2. /\ docs' = [docs EXCEPT ![t] = e] /\ pointer' = PointerAfter(docs[t], e)
      /\ d.atom # Nobody
      /\ UNCHANGED <<cookie, accounts, existing, frozen, left, typed>>
  BY <1>1 DEF FetchLists, Commit, Rendering
<1>3. /\ e \in Docs /\ SameCalls(d, e) /\ e.leaving = d.leaving /\ e.from = d.from
      /\ e.tearing = d.tearing /\ e.held = d.held /\ e.atom = d.atom /\ e.lists = d.lists
  BY <1>1 DEF Docs, SameCalls
<1>4. RowsOk(e)'
  BY <1>1, <1>2, <1>3, TabFacts DEF RowsOk
<1> QED
  BY <1>1, <1>2, <1>3, <1>4, PageStep

\* Rows that arrive are those of the session of the moment, read under the page's account.
LEMMA ListsAnsweredStep ==
  ASSUME TabsInv, NEW t \in Tab, ListsAnswered(t)
  PROVE  TabsHold
<1>1. PICK d, e : /\ d = docs[t]
                  /\ e = IF cookie.user = Nobody
                         THEN [d EXCEPT !.fetching = FALSE, !.failed = TRUE]
                         ELSE [d EXCEPT !.fetching = FALSE, !.failed = FALSE,
                                        !.from = cookie.user,
                                        !.lists = existing \cap {cookie.user},
                                        !.held = d.held \cup {d.atom}]
  OBVIOUS
<1>2. /\ docs' = [docs EXCEPT ![t] = e] /\ pointer' = PointerAfter(docs[t], e)
      /\ d.fetching
      /\ UNCHANGED <<cookie, accounts, existing, frozen, left, typed>>
  BY <1>1 DEF ListsAnswered, Commit
<1>3. d \in Docs /\ RowsOk(d) /\ cookie.user \in Who /\ existing \subseteq User
  BY <1>1, TabFacts
<1>4. CASE cookie.user = Nobody
  <2>1. e = [d EXCEPT !.fetching = FALSE, !.failed = TRUE]
    BY <1>1, <1>4
  <2>2. /\ e \in Docs /\ SameCalls(d, e) /\ e.leaving = d.leaving /\ e.from = d.from
        /\ SameRows(d, e)
    BY <1>3, <2>1 DEF Docs, SameCalls, SameRows
  <2>3. RowsOk(e)'
    BY <1>1, <1>2, <2>2, TabFacts, SameDocs
  <2> QED
    BY <1>1, <1>2, <2>2, <2>3, PageStep
<1>5. CASE cookie.user # Nobody
  <2>1. PICK u \in Who, ls \in SUBSET User, h \in SUBSET Who :
          /\ u = cookie.user /\ ls = existing \cap {u} /\ h = d.held \cup {d.atom}
    BY <1>3 DEF Docs
  <2>2. e = [d EXCEPT !.fetching = FALSE, !.failed = FALSE, !.from = u, !.lists = ls,
                      !.held = h]
    BY <1>1, <1>5, <2>1
  <2>3. /\ e \in Docs /\ SameCalls(d, e) /\ e.leaving = d.leaving /\ e.from = u
        /\ e.lists = ls /\ e.held = h /\ e.atom = d.atom /\ e.tearing = d.tearing
        /\ ~ e.fetching
    BY <1>3, <2>2 DEF Docs, SameCalls
  <2>4. RowsOk(e)'
    BY <1>2, <1>3, <2>1, <2>3 DEF RowsOk
  <2> QED
    BY <1>1, <1>2, <2>1, <2>3, <2>4, PageStep
<1> QED
  BY <1>4, <1>5

\* A read that fails leaves the rows that were cached.
LEMMA ListsFailedStep ==
  ASSUME TabsInv, NEW t \in Tab, ListsFailed(t)
  PROVE  TabsHold
<1>1. PICK d, e : d = docs[t] /\ d \in Docs /\ e = [d EXCEPT !.fetching = FALSE, !.failed = TRUE]
  BY TabFacts
<1>2. /\ docs' = [docs EXCEPT ![t] = e] /\ pointer' = PointerAfter(docs[t], e)
      /\ UNCHANGED <<cookie, accounts, existing, frozen, left, typed>>
  BY <1>1 DEF ListsFailed, Commit
<1>3. /\ e \in Docs /\ SameCalls(d, e) /\ e.leaving = d.leaving /\ e.from = d.from
      /\ SameRows(d, e)
  BY <1>1 DEF Docs, SameCalls, SameRows
<1>4. RowsOk(e)'
  BY <1>1, <1>2, <1>3, TabFacts, SameDocs
<1> QED
  BY <1>1, <1>2, <1>3, <1>4, PageStep

\* A page that goes elsewhere in its own document.
LEMMA RouteStep ==
  ASSUME TabsInv, NEW t \in Tab,
         NEW r \in {"root", "list", "lists", "sign-in", "magic", "none"}, NEW l \in Who,
         Commit(t, [docs[t] EXCEPT !.route = r, !.at = l]),
         UNCHANGED <<cookie, accounts, existing, frozen, left, typed>>
  PROVE  TabsHold
<1>1. PICK d, e : d = docs[t] /\ d \in Docs /\ e = [d EXCEPT !.route = r, !.at = l]
  BY TabFacts
<1>2. docs' = [docs EXCEPT ![t] = e] /\ pointer' = PointerAfter(docs[t], e)
  BY <1>1 DEF Commit
<1>3. /\ e \in Docs /\ SameCalls(d, e) /\ e.leaving = d.leaving /\ e.from = d.from
      /\ SameRows(d, e)
  BY <1>1 DEF Docs, SameCalls, SameRows
<1>4. RowsOk(e)'
  BY <1>1, <1>3, TabFacts, SameDocs
<1> QED
  BY <1>1, <1>2, <1>3, <1>4, PageStep

\* The redirect moves the route and nothing else.
LEMMA RootRedirectStep ==
  ASSUME TabsInv, NEW t \in Tab, RootRedirect(t)
  PROVE  TabsHold
<1>1. PICK d : d = docs[t] /\ d \in Docs /\ d.lists \subseteq User
  BY TabFacts DEF Docs
<1>2. PICK l : l = LastListPath(d) /\ l \in Who
  BY TabFacts DEF LastListPath, Who
<1>3. UNCHANGED <<cookie, accounts, existing, frozen, left, typed>>
  BY DEF RootRedirect
<1>4. CASE l # Nobody
  <2>1. Commit(t, [docs[t] EXCEPT !.route = "list", !.at = l])
    BY <1>1, <1>2, <1>4 DEF RootRedirect
  <2> QED
    BY <1>2, <1>3, <2>1, RouteStep
<1>5. CASE l = Nobody
  <2>1. PICK r \in {"list", "lists"}, k \in Who :
          /\ r = IF d.lists = {} THEN "lists" ELSE "list"
          /\ k = IF d.lists = {} THEN Nobody ELSE CHOOSE x \in d.lists : TRUE
    BY <1>1 DEF Who
  <2>2. Commit(t, [docs[t] EXCEPT !.route = r, !.at = k])
    BY <1>1, <1>2, <1>5, <2>1 DEF RootRedirect
  <2> QED
    BY <1>3, <2>1, <2>2, RouteStep
<1> QED
  BY <1>4, <1>5

\* Opening a list moves the route and nothing else.
LEMMA OpenListStep ==
  ASSUME TabsInv, NEW t \in Tab, NEW u \in User, OpenList(t, u)
  PROVE  TabsHold
BY RouteStep DEF OpenList, Who

\* A step that neither reads rows nor changes the account of a page.
LEMMA CallsStep ==
  ASSUME TabsInv, NEW t \in Tab, NEW e \in Docs, docs' = [docs EXCEPT ![t] = e],
         SameRows(docs[t], e), CallsOk(e)', e.leaving = docs[t].leaving,
         docs[t].parked # Nobody =>
           \/ e.parked = docs[t].parked
           \/ Deleting(docs[t].parked) \in e.calls,
         cookie' \in [user : Who, fresh : BOOLEAN],
         typed \subseteq typed', typed' \subseteq User,
         UNCHANGED <<accounts, existing, pointer, frozen, left>>
  PROVE  TabsHold
<1>1. RowsOk(e)' /\ DocOk(e)'
  BY TabFacts DEF DocOk, RowsOk, SameRows, Docs, Who, DeleteCalls
<1>2. PointerStep
  BY DEF PointerStep
<1>3. StayOk(e, left[t])
  BY TabFacts DEF StayOk, SameRows
<1>4. /\ User \ accounts' \subseteq typed' /\ accounts' \subseteq User
      /\ existing' \subseteq existing /\ pointer' \in [list : Who, owner : Who]
      /\ left' = [left EXCEPT ![t] = left[t]] /\ left[t] \in SUBSET Who
  BY TabFacts
<1> QED
  BY <1>1, <1>2, <1>3, <1>4, OneDoc

\* The click on a link's page starts a navigation.
LEMMA VerifyLinkStep ==
  ASSUME TabsInv, NEW t \in Tab, VerifyLink(t)
  PROVE  TabsHold
<1>1. PICK d, e : d = docs[t] /\ d \in Docs /\ e = [d EXCEPT !.busy = TRUE, !.leaving = "verify"]
  BY TabFacts
<1>2. /\ docs' = [docs EXCEPT ![t] = e]
      /\ UNCHANGED <<cookie, accounts, existing, pointer, frozen, left, typed>>
  BY <1>1 DEF VerifyLink
<1>3. /\ e \in Docs /\ SameCalls(d, e) /\ e.leaving = "verify" /\ SameRows(d, e)
  BY <1>1 DEF Docs, SameCalls, SameRows
<1>4. DocOk(e)'
  BY <1>1, <1>2, <1>3, TabFacts, SameDocs DEF DocOk, Docs, Who, DeleteCalls
<1>5. PointerStep /\ StayOk(e, left[t])
  BY <1>2, <1>3 DEF PointerStep, StayOk
<1>6. /\ User \ accounts' \subseteq typed' /\ accounts' \subseteq User
      /\ existing' \subseteq existing /\ pointer' \in [list : Who, owner : Who]
      /\ left' = [left EXCEPT ![t] = left[t]] /\ left[t] \in SUBSET Who
      /\ e.parked = docs[t].parked /\ cookie' \in [user : Who, fresh : BOOLEAN]
      /\ typed \subseteq typed' /\ typed' \subseteq User /\ frozen' = frozen
  BY <1>1, <1>2, <1>3, TabFacts DEF SameCalls
<1> QED
  BY <1>2, <1>4, <1>5, <1>6, OneDoc

\* The open list goes with the pointer to it, and the pointer to another stays.
LEMMA DeleteListStep ==
  ASSUME TabsInv, NEW t \in Tab, DeleteList(t)
  PROVE  TabsHold
<1>1. PICK d, ls, e : /\ d = docs[t] /\ d \in Docs /\ ls = d.lists \ {d.at}
                      /\ e = [d EXCEPT !.route = "lists", !.at = Nobody, !.lists = ls]
  BY TabFacts
<1>2. /\ docs' = [docs EXCEPT ![t] = e] /\ existing' = existing \ {d.at}
      /\ pointer' = IF pointer.list = d.at THEN NoPointer ELSE pointer
      /\ UNCHANGED <<cookie, accounts, frozen, left, typed>>
  BY <1>1, TabFacts DEF DeleteList
<1>3. ls \in SUBSET User
  BY <1>1 DEF Docs
<1>4. /\ e \in Docs /\ SameCalls(d, e) /\ e.leaving = d.leaving /\ e.lists = ls
      /\ e.from = d.from /\ e.held = d.held /\ e.fetching = d.fetching
      /\ e.atom = d.atom /\ e.tearing = d.tearing
  BY <1>1, <1>3 DEF Docs, SameCalls, Who
<1>5. RowsOk(e)'
  BY <1>1, <1>2, <1>4, TabFacts DEF RowsOk
<1>6. CallsOk(e)' /\ DocOk(e)' /\ StayOk(e, left[t])
  BY <1>1, <1>2, <1>4, <1>5, TabFacts DEF DocOk, CallsOk, SameCalls, StayOk, Docs, Who, DeleteCalls
<1>7. PointerStep
  BY <1>2 DEF PointerStep
<1>8. /\ User \ accounts' \subseteq typed' /\ accounts' \subseteq User
      /\ existing' \subseteq existing /\ pointer' \in [list : Who, owner : Who]
      /\ left' = [left EXCEPT ![t] = left[t]] /\ left[t] \in SUBSET Who
      /\ e.parked = docs[t].parked /\ cookie' \in [user : Who, fresh : BOOLEAN]
      /\ typed \subseteq typed' /\ typed' \subseteq User /\ frozen' = frozen
  BY <1>1, <1>2, <1>4, TabFacts DEF SameCalls, NoPointer, Who
<1> QED
  BY <1>2, <1>6, <1>7, <1>8, OneDoc

\* What is confirmed is of the account that is signed in, and nothing else is out.
LEMMA ConfirmDeleteStep ==
  ASSUME TabsInv, NEW t \in Tab, ConfirmDelete(t)
  PROVE  TabsHold
<1>1. PICK d, cs, e : /\ d = docs[t] /\ d \in Docs /\ cs = d.calls \cup {Deleting(d.atom)}
                      /\ e = [d EXCEPT !.submitting = TRUE, !.calls = cs]
  BY TabFacts
<1>2. /\ docs' = [docs EXCEPT ![t] = e] /\ typed' = typed \cup {d.atom}
      /\ d.atom # Nobody /\ ~ d.tearing /\ ~ d.submitting
      /\ UNCHANGED <<cookie, accounts, existing, pointer, frozen, left>>
  BY <1>1, TabFacts DEF ConfirmDelete, Rendering, Suppressed, NotSubmitting
<1>3. CallsOk(d) /\ d.atom \in User /\ d.calls = {} /\ cs = {Deleting(d.atom)}
  BY <1>1, <1>2, TabFacts DEF CallsOk, Docs, Who
<1>4. cs \in SUBSET (DeleteCalls \cup {Proof})
  BY <1>3 DEF DeleteCalls
<1>5. /\ e \in Docs /\ SameRows(d, e) /\ e.leaving = d.leaving /\ e.parked = d.parked
      /\ e.calls = cs /\ e.submitting /\ e.atom = d.atom /\ e.tearing = d.tearing
  BY <1>1, <1>4 DEF Docs, SameRows
<1>6. CallsOk(e)'
  <2>1. Proof \notin cs /\ \A u \in User : Deleting(u) \in cs => u = d.atom
    BY <1>3 DEF Proof, Deleting
  <2> QED
    BY <1>2, <1>3, <1>5, <2>1 DEF CallsOk
<1>7. typed \subseteq typed' /\ typed' \subseteq User /\ cookie' \in [user : Who, fresh : BOOLEAN]
  BY <1>2, <1>3, TabFacts
<1> QED
  BY <1>1, <1>2, <1>5, <1>6, <1>7, CallsStep

\* A proof is asked for only while nothing else is out.
LEMMA StartProofStep ==
  ASSUME TabsInv, NEW t \in Tab, StartProof(t)
  PROVE  TabsHold
<1>1. PICK d, cs, e : /\ d = docs[t] /\ d \in Docs /\ cs = d.calls \cup {Proof}
                      /\ e = [d EXCEPT !.submitting = TRUE, !.calls = cs]
  BY TabFacts
<1>2. /\ docs' = [docs EXCEPT ![t] = e]
      /\ d.parked # Nobody /\ ~ d.submitting
      /\ UNCHANGED <<cookie, accounts, existing, pointer, frozen, left, typed>>
  BY <1>1, TabFacts DEF StartProof
<1>3. CallsOk(d) /\ d.calls = {} /\ cs = {Proof}
  BY <1>1, <1>2, TabFacts DEF CallsOk
<1>4. /\ e \in Docs /\ SameRows(d, e) /\ e.leaving = d.leaving /\ e.parked = d.parked
      /\ e.calls = cs /\ e.submitting /\ e.atom = d.atom /\ e.tearing = d.tearing
  BY <1>1, <1>3 DEF Docs, SameRows
<1>5. CallsOk(e)'
  <2>1. \A u \in User : Deleting(u) \notin cs
    BY <1>3 DEF Proof, Deleting
  <2> QED
    BY <1>2, <1>3, <1>4, <2>1 DEF CallsOk
<1> QED
  BY <1>1, <1>2, <1>4, <1>5, TabFacts, CallsStep

\* A proof that failed leaves the write parked.
LEMMA ProofFailedStep ==
  ASSUME TabsInv, NEW t \in Tab, ProofFailed(t)
  PROVE  TabsHold
<1>1. PICK d, cs, p, e : /\ d = docs[t] /\ d \in Docs /\ cs = d.calls \ {Proof}
                         /\ p = ParkedAfterFailure(d)
                         /\ e = [d EXCEPT !.calls = cs, !.submitting = FALSE, !.parked = p]
  BY TabFacts
<1>2. /\ docs' = [docs EXCEPT ![t] = e] /\ Proof \in d.calls
      /\ UNCHANGED <<cookie, accounts, existing, pointer, frozen, left, typed>>
  BY <1>1, TabFacts DEF ProofFailed
<1>3. CallsOk(d) /\ cs = {} /\ p = d.parked /\ p \in Who
  BY <1>1, <1>2, TabFacts DEF CallsOk, ParkedAfterFailure, Docs
<1>4. /\ e \in Docs /\ SameRows(d, e) /\ e.leaving = d.leaving /\ e.parked = d.parked
      /\ e.calls = {} /\ e.atom = d.atom /\ e.tearing = d.tearing
  BY <1>1, <1>3 DEF Docs, SameRows
<1>5. CallsOk(e)'
  BY <1>2, <1>3, <1>4 DEF CallsOk
<1> QED
  BY <1>1, <1>2, <1>4, <1>5, TabFacts, CallsStep

\* A proof, of whatever account, replays the delete that was parked.
LEMMA ProvedStep ==
  ASSUME TabsInv, NEW t \in Tab, NEW u \in User, Proved(t, u)
  PROVE  TabsHold
<1>1. PICK d, cs, e : /\ d = docs[t] /\ d \in Docs
                      /\ cs = (d.calls \ {Proof}) \cup {Replay(d)}
                      /\ e = [d EXCEPT !.calls = cs, !.parked = Nobody]
  BY TabFacts
<1>2. /\ docs' = [docs EXCEPT ![t] = e] /\ Proof \in d.calls
      /\ cookie' = [user |-> u, fresh |-> TRUE]
      /\ UNCHANGED <<accounts, existing, pointer, frozen, left, typed>>
  BY <1>1, TabFacts DEF Proved
<1>3. /\ CallsOk(d) /\ cs = {Deleting(d.parked)} /\ d.parked \in User /\ d.parked \in typed
      /\ d.submitting /\ (~ d.tearing => d.parked = d.atom)
  BY <1>1, <1>2, TabFacts DEF CallsOk, Replay, Docs, Who
<1>4. cs \in SUBSET (DeleteCalls \cup {Proof})
  BY <1>3 DEF DeleteCalls
<1>5. /\ e \in Docs /\ SameRows(d, e) /\ e.leaving = d.leaving /\ e.parked = Nobody
      /\ e.calls = cs /\ e.submitting = d.submitting /\ e.atom = d.atom
      /\ e.tearing = d.tearing
  BY <1>1, <1>4 DEF Docs, SameRows, Who
<1>6. CallsOk(e)'
  <2>1. Proof \notin cs /\ \A v \in User : Deleting(v) \in cs => v = d.parked
    BY <1>3 DEF Proof, Deleting
  <2> QED
    BY <1>2, <1>3, <1>5, <2>1 DEF CallsOk
<1>7. cookie' \in [user : Who, fresh : BOOLEAN] /\ Deleting(d.parked) \in e.calls
  BY <1>2, <1>3, <1>5 DEF Who
<1> QED
  BY <1>1, <1>2, <1>5, <1>6, <1>7, TabFacts, CallsStep

\* A link that is sent replays nothing.
LEMMA SendProofLinkStep ==
  ASSUME TabsInv, NEW t \in Tab, SendProofLink(t)
  PROVE  TabsHold
<1>1. PICK d, e : d = docs[t] /\ d \in Docs /\ e = [d EXCEPT !.linkSent = TRUE]
  BY TabFacts
<1>2. /\ docs' = [docs EXCEPT ![t] = e]
      /\ UNCHANGED <<cookie, accounts, existing, pointer, frozen, left, typed>>
  BY <1>1 DEF SendProofLink
<1>3. /\ e \in Docs /\ SameCalls(d, e) /\ SameRows(d, e) /\ e.leaving = d.leaving
  BY <1>1 DEF Docs, SameCalls, SameRows
<1>4. CallsOk(e)'
  <2>1. DocOk(d) /\ typed' = typed /\ existing' = existing /\ e \in Docs
    BY <1>1, <1>2, <1>3, TabFacts
  <2> QED
    BY <1>3, <2>1, SameDocs
<1>5. e.parked = d.parked
  BY <1>3 DEF SameCalls
<1> QED
  BY <1>1, <1>2, <1>3, <1>4, <1>5, TabFacts, CallsStep

\* The call that is answered was the only one, and of an account that confirmed it.
LEMMA AnsweredCall ==
  ASSUME TabsInv, NEW t \in Tab, NEW c \in docs[t].calls, c.is = "delete"
  PROVE  \E u \in User : /\ c = Deleting(u) /\ c.user = u /\ u \in typed
                         /\ docs[t].calls \ {c} = {}
                         /\ docs[t].parked \in {Nobody, u}
                         /\ (~ docs[t].tearing => u = docs[t].atom)
<1>1. PICK d : d = docs[t] /\ d \in Docs /\ CallsOk(d)
  BY TabFacts
<1>2. c \in DeleteCalls
  BY <1>1 DEF Docs, Proof
<1>3. PICK u \in User : c = Deleting(u)
  BY <1>2 DEF DeleteCalls
<1>4. c.user = u
  BY <1>3 DEF Deleting
<1> QED
  BY <1>1, <1>3, <1>4 DEF CallsOk

\* Only the account that was confirmed goes, and its document with it.
LEMMA DeleteAnsweredStep ==
  ASSUME TabsInv, NEW t \in Tab, DeleteAnswered(t)
  PROVE  TabsHold
<1>1. PICK c \in docs[t].calls :
        LET a == [docs[t] EXCEPT !.calls = @ \ {c}, !.submitting = FALSE]
        IN  /\ c.is = "delete"
            /\ \/ /\ docs' = [docs EXCEPT ![t] = a]
                  /\ UNCHANGED <<cookie, accounts, existing, pointer, left, typed>>
               \/ /\ docs' = [docs EXCEPT ![t] = [a EXCEPT !.parked = c.user]]
                  /\ UNCHANGED <<cookie, accounts, existing, pointer, left, typed>>
               \/ /\ accounts' = accounts \ {c.user} /\ existing' = existing \ {c.user}
                  /\ cookie' = NoSession /\ pointer' = NoPointer
                  /\ docs' = [docs EXCEPT ![t] = [a EXCEPT !.leaving = "sign-in"]]
                  /\ left' = [left EXCEPT ![t] = @ \cup {c.user}]
            /\ UNCHANGED <<frozen, typed>>
  BY DEF DeleteAnswered
<1>2. c.is = "delete" /\ UNCHANGED <<frozen, typed>>
  BY <1>1
<1>3. PICK d, u, cs : /\ d = docs[t] /\ d \in Docs /\ u \in User /\ u \in typed /\ c.user = u
                      /\ c = Deleting(u) /\ cs = d.calls \ {c} /\ cs = {}
                      /\ d.parked \in {Nobody, u} /\ (~ d.tearing => u = d.atom)
  <2>1. PICK u \in User : /\ c = Deleting(u) /\ c.user = u /\ u \in typed
                         /\ docs[t].calls \ {c} = {}
                         /\ docs[t].parked \in {Nobody, u}
                         /\ (~ docs[t].tearing => u = docs[t].atom)
    BY <1>2, AnsweredCall
  <2>2. PICK d : d = docs[t] /\ d \in Docs
    BY TabFacts
  <2> QED
    BY <2>1, <2>2
<1>4. PICK a : /\ a = [d EXCEPT !.calls = cs, !.submitting = FALSE]
               /\ \/ /\ docs' = [docs EXCEPT ![t] = a]
                     /\ UNCHANGED <<cookie, accounts, existing, pointer, left, typed>>
                  \/ /\ docs' = [docs EXCEPT ![t] = [a EXCEPT !.parked = u]]
                     /\ UNCHANGED <<cookie, accounts, existing, pointer, left, typed>>
                  \/ /\ accounts' = accounts \ {u} /\ existing' = existing \ {u}
                     /\ cookie' = NoSession /\ pointer' = NoPointer
                     /\ docs' = [docs EXCEPT ![t] = [a EXCEPT !.leaving = "sign-in"]]
                     /\ left' = [left EXCEPT ![t] = left[t] \cup {u}]
  BY <1>1, <1>3
<1>5. /\ a \in Docs /\ SameRows(d, a) /\ a.leaving = d.leaving /\ a.parked = d.parked
      /\ a.calls = {} /\ a.atom = d.atom /\ a.tearing = d.tearing
  BY <1>3, <1>4 DEF Docs, SameRows
<1>6. CallsOk(d) /\ RowsOk(d)
  BY <1>3, TabFacts
<1>7. CASE /\ docs' = [docs EXCEPT ![t] = a]
           /\ UNCHANGED <<cookie, accounts, existing, pointer, left, typed>>
  <2>1. CallsOk(a)'
    BY <1>5, <1>6, <1>7 DEF CallsOk
  <2> QED
    BY <1>2, <1>3, <1>5, <1>7, <2>1, TabFacts, CallsStep
<1>8. CASE /\ docs' = [docs EXCEPT ![t] = [a EXCEPT !.parked = u]]
           /\ UNCHANGED <<cookie, accounts, existing, pointer, left, typed>>
  <2>1. PICK e : e = [a EXCEPT !.parked = u]
    OBVIOUS
  <2>2. /\ e \in Docs /\ SameRows(d, e) /\ e.leaving = d.leaving /\ e.parked = u
        /\ e.calls = {} /\ e.atom = d.atom /\ e.tearing = d.tearing
    BY <1>3, <1>5, <2>1 DEF Docs, SameRows, Who
  <2>3. CallsOk(e)'
    BY <1>3, <1>6, <1>8, <2>2 DEF CallsOk
  <2>4. d.parked # Nobody => e.parked = d.parked
    BY <1>3, <2>2
  <2> QED
    BY <1>2, <1>3, <1>8, <2>1, <2>2, <2>3, <2>4, TabFacts, CallsStep
<1>9. CASE /\ accounts' = accounts \ {u} /\ existing' = existing \ {u}
           /\ cookie' = NoSession /\ pointer' = NoPointer
           /\ docs' = [docs EXCEPT ![t] = [a EXCEPT !.leaving = "sign-in"]]
           /\ left' = [left EXCEPT ![t] = left[t] \cup {u}]
  <2>1. PICK e, x : e = [a EXCEPT !.leaving = "sign-in"] /\ x = left[t] \cup {u}
    OBVIOUS
  <2>2. /\ e \in Docs /\ SameRows(d, e) /\ e.leaving = "sign-in" /\ e.parked = d.parked
        /\ e.calls = {} /\ e.atom = d.atom /\ e.tearing = d.tearing
    BY <1>3, <1>5, <2>1 DEF Docs, SameRows
  <2>3. CallsOk(e)' /\ RowsOk(e)' /\ DocOk(e)'
    BY <1>2, <1>6, <1>9, <2>2 DEF CallsOk, RowsOk, SameRows, DocOk, Docs, Who, DeleteCalls
  <2>4. StayOk(e, x) /\ x \in SUBSET Who /\ e # d
    BY <1>3, <2>1, <2>2, TabFacts DEF StayOk, Who
  <2>5. docs' = [docs EXCEPT ![t] = e] /\ left' = [left EXCEPT ![t] = x]
    BY <1>9, <2>1
  <2>6. PointerStep /\ pointer' \in [list : Who, owner : Who]
    BY <1>3, <1>9, <2>2, <2>4, <2>5, PointerGoes
  <2>7. /\ User \ accounts' \subseteq typed' /\ accounts' \subseteq User
        /\ existing' \subseteq existing /\ cookie' \in [user : Who, fresh : BOOLEAN]
        /\ typed \subseteq typed' /\ typed' \subseteq User
    BY <1>2, <1>3, <1>9, TabFacts DEF NoSession, Who
  <2> QED
    BY <1>2, <1>3, <2>2, <2>3, <2>4, <2>5, <2>6, <2>7, OneDoc
<1> QED
  BY <1>4, <1>7, <1>8, <1>9

\* A delete without an answer takes the document with it.
LEMMA DeleteUnansweredStep ==
  ASSUME TabsInv, NEW t \in Tab, DeleteUnanswered(t)
  PROVE  TabsHold
<1>1. PICK c \in docs[t].calls :
        /\ c.is = "delete"
        /\ docs' = [docs EXCEPT ![t].calls = @ \ {c}, ![t].submitting = FALSE,
                                ![t].leaving = "sign-in"]
        /\ pointer' = NoPointer
        /\ left' = [left EXCEPT ![t] = @ \cup {docs[t].atom}]
        /\ UNCHANGED <<cookie, accounts, existing, frozen, typed>>
  BY DEF DeleteUnanswered
<1>2. PICK d, u, cs, e, x :
        /\ d = docs[t] /\ d \in Docs /\ u \in User /\ c = Deleting(u)
        /\ cs = d.calls \ {c} /\ cs = {} /\ x = left[t] \cup {d.atom}
        /\ e = [d EXCEPT !.calls = cs, !.submitting = FALSE, !.leaving = "sign-in"]
  <2>1. PICK u \in User : c = Deleting(u) /\ docs[t].calls \ {c} = {}
    BY <1>1, AnsweredCall
  <2>2. PICK d, cs : d = docs[t] /\ d \in Docs /\ cs = d.calls \ {c}
    BY TabFacts
  <2>3. PICK e, x : /\ e = [d EXCEPT !.calls = cs, !.submitting = FALSE, !.leaving = "sign-in"]
                    /\ x = left[t] \cup {d.atom}
    OBVIOUS
  <2>4. cs = {}
    BY <2>1, <2>2
  <2> QED
    BY <2>1, <2>2, <2>3, <2>4
<1>3. /\ docs' = [docs EXCEPT ![t] = e] /\ left' = [left EXCEPT ![t] = x]
      /\ pointer' = NoPointer
      /\ UNCHANGED <<cookie, accounts, existing, frozen, typed>>
  BY <1>1, <1>2, TabFacts
<1>4. /\ e \in Docs /\ SameRows(d, e) /\ e.leaving = "sign-in" /\ e.parked = d.parked
      /\ e.calls = {} /\ e.atom = d.atom /\ e.tearing = d.tearing
  BY <1>2 DEF Docs, SameRows
<1>5. CallsOk(e)' /\ RowsOk(e)' /\ DocOk(e)'
  BY <1>2, <1>3, <1>4, TabFacts DEF CallsOk, RowsOk, SameRows, DocOk, Docs, Who, DeleteCalls
<1>6. StayOk(e, x) /\ x \in SUBSET Who /\ e # d
  <2>1. c \in d.calls /\ d.atom \in Who
    BY <1>2 DEF Docs
  <2> QED
    BY <1>2, <1>4, <2>1, TabFacts DEF StayOk
<1>7. PointerStep /\ pointer' \in [list : Who, owner : Who]
  BY <1>2, <1>3, <1>4, <1>6, PointerGoes
<1>8. /\ User \ accounts' \subseteq typed' /\ accounts' \subseteq User
      /\ existing' \subseteq existing /\ cookie' \in [user : Who, fresh : BOOLEAN]
      /\ typed \subseteq typed' /\ typed' \subseteq User
  BY <1>3, TabFacts
<1> QED
  BY <1>2, <1>3, <1>4, <1>5, <1>6, <1>7, <1>8, OneDoc

\* The session may end or age behind every tab.
LEMMA CookieStep ==
  ASSUME TabsInv, cookie' \in [user : Who, fresh : BOOLEAN],
         UNCHANGED <<accounts, existing, pointer, docs, frozen, left, typed>>
  PROVE  TabsHold
<1>1. \A t \in Tab : DocOk(docs[t])' /\ StayOk(docs[t], left[t])'
                     /\ DocOk(frozen[t])' /\ (frozen[t].calls = {})'
  BY DEF TabsInv, DocOk, CallsOk, RowsOk, StayOk, Docs, Who, DeleteCalls
<1>2. TabsInv'
  BY <1>1 DEF TabsInv, ConfirmedOnly, Docs, Who, DeleteCalls
<1> QED
  BY <1>2 DEF TabsHold, ParkedStep, PointerStep

\* Every step keeps the invariant, parked writes and pointers.
LEMMA TabsNextStep ==
  ASSUME TabsInv, [TabsNext]_tabVars
  PROVE  TabsHold
<1>1. ASSUME SessionEnds \/ Ages \/ UNCHANGED tabVars PROVE TabsHold
  <2>1. cookie \in [user : Who, fresh : BOOLEAN]
    BY DEF TabsInv
  <2>2. UNCHANGED <<accounts, existing, pointer, docs, frozen, left, typed>>
    BY <1>1 DEF SessionEnds, Ages, tabVars
  <2>3. cookie' \in [user : Who, fresh : BOOLEAN]
    <3>1. CASE SessionEnds
      BY <3>1 DEF SessionEnds, NoSession, Who
    <3>2. CASE Ages
      BY <2>1, <3>2 DEF Ages
    <3>3. CASE UNCHANGED tabVars
      BY <2>1, <3>3 DEF tabVars
    <3> QED
      BY <1>1, <3>1, <3>2, <3>3
  <2> QED
    BY <2>2, <2>3, CookieStep
<1>2. ASSUME NEW t \in Tab, TabStep(t) PROVE TabsHold
  BY <1>2, ReadSessionStep, OpenLinkStep, VerifyLinkStep, UnloadStep, BackStep,
     FetchListsStep, ListsAnsweredStep, ListsFailedStep, RootRedirectStep, DeleteListStep,
     ConfirmDeleteStep, DeleteAnsweredStep, DeleteUnansweredStep, StartProofStep,
     ProofFailedStep, SendProofLinkStep, SignOutStep, SignInStep, OpenListStep, ProvedStep
  DEF TabStep
<1> QED
  BY <1>1, <1>2 DEF TabsNext

\* The first documents load with nothing in them.
LEMMA TabsStart == TabsInit => TabsInv
<1> SUFFICES ASSUME TabsInit PROVE TabsInv
  OBVIOUS
<1>1. PICK e : e = Loaded("root") /\ e \in Docs /\ DocOk(e) /\ e.calls = {}
                 /\ \A gone : StayOk(e, gone)
  BY LoadsOk
<1>2. PICK f : f = NoDoc /\ f \in Docs /\ DocOk(f) /\ f.calls = {}
  <2>1. PICK n : n = Loaded("none") /\ n \in Docs /\ DocOk(n) /\ n.calls = {}
    BY LoadsOk
  <2>2. PICK f : f = [n EXCEPT !.asked = TRUE]
    OBVIOUS
  <2>3. f \in Docs /\ SameRows(n, f) /\ SameCalls(n, f)
    BY <2>1, <2>2 DEF Docs, SameRows, SameCalls
  <2>4. CallsOk(f) /\ RowsOk(f)
    BY <2>1, <2>3 DEF DocOk, CallsOk, RowsOk, SameRows, SameCalls
  <2> QED
    BY <2>1, <2>2, <2>3, <2>4 DEF NoDoc, DocOk, SameCalls
<1>3. cookie \in [user : Who, fresh : BOOLEAN] /\ pointer \in [list : Who, owner : Who]
  BY DEF TabsInit, NoSession, Who
<1>4. \A t \in Tab : docs[t] = e /\ frozen[t] = f /\ left[t] = {}
  BY <1>1, <1>2 DEF TabsInit
<1>5. /\ docs \in [Tab -> Docs] /\ frozen \in [Tab -> Docs] /\ left \in [Tab -> SUBSET Who]
      /\ accounts = User /\ existing = User /\ typed = {}
  BY <1>1, <1>2 DEF TabsInit
<1> QED
  BY <1>1, <1>2, <1>3, <1>4, <1>5 DEF TabsInv, ConfirmedOnly

\* Whatever is clicked in however many tabs, a document shows the rows of the
\* account it is signed in as, and asks for at most one delete, of that account.
THEOREM TabsInvariant == TabsSpec => []TabsInv
<1>1. TabsInv /\ [TabsNext]_tabVars => TabsInv'
  BY TabsNextStep DEF TabsHold
<1> QED
  BY <1>1, TabsStart, PTL DEF TabsSpec

\* Leaving an account takes its rows from every tab, and loses the pointer to no
\* other account's list: the guard in session-cache-guard.tsx and the effects on
\* the last-list path.
THEOREM AccountsLeft == TabsSpec => LeavesRight
<1>1. TabsInv => NothingHeldOver /\ LeftStaysLeft
  <2> SUFFICES ASSUME TabsInv, NEW t \in Tab, Rendering(docs[t])
               PROVE  /\ docs[t].held \subseteq {docs[t].atom}
                      /\ docs[t].leaving = "stay" => docs[t].held \cap left[t] = {}
    BY DEF NothingHeldOver, LeftStaysLeft
  <2>1. RowsOk(docs[t]) /\ StayOk(docs[t], left[t])
    BY TabFacts
  <2> QED
    BY <2>1 DEF RowsOk, StayOk, Rendering, Suppressed
<1>2. TabsInv /\ [TabsNext]_tabVars => PointerStep
  BY TabsNextStep DEF TabsHold
<1> QED
  BY <1>1, <1>2, TabsInvariant, PTL
  DEF TabsSpec, LeavesRight, PointerKept, PointerStep

\* The delete that was confirmed is the one that is sent, once, and no proof that
\* fails loses it: the guard and the parked action of use-reauth.tsx.
THEOREM DeletesConfirmed == TabsSpec => DeleteAsConfirmed
<1>1. TabsInv => OneDeleteOut /\ ConfirmedOnly
  <2> SUFFICES ASSUME TabsInv, NEW t \in Tab PROVE Cardinality(docs[t].calls) <= 1
    BY DEF OneDeleteOut, TabsInv
  <2>1. \A b, c \in docs[t].calls : b = c
    BY TabFacts DEF CallsOk
  <2>2. CASE docs[t].calls = {}
    BY <2>2, FS_EmptySet
  <2>3. CASE docs[t].calls # {}
    <3>1. PICK c : docs[t].calls = {c}
      BY <2>1, <2>3
    <3> QED
      BY <3>1, FS_Singleton
  <2> QED
    BY <2>2, <2>3
<1>2. TabsInv /\ [TabsNext]_tabVars => ParkedStep
  BY TabsNextStep DEF TabsHold
<1> QED
  BY <1>1, <1>2, TabsInvariant, PTL
  DEF TabsSpec, DeleteAsConfirmed, ParkedKept, ParkedStep

-----------------------------------------------------------------------------
(* Deploy: the invariant                                                   *)

AnyImage == Image \cup {NoImage}
Command == {"none", "deploy", "rollback", "on", "off"}
Copy == [ledger : Seq(Migration), writes : SUBSET Nat, whole : BOOLEAN, image : AnyImage]

DeployTypeOK ==
  /\ maintenance \in BOOLEAN /\ torn \in BOOLEAN
  /\ container \in [image : AnyImage, wanted : BOOLEAN, up : BOOLEAN]
  /\ appImage \in AnyImage
  /\ data \in [there : BOOLEAN, whole : BOOLEAN, ledger : Seq(Migration), writes : SUBSET Nat]
  /\ DOMAIN rollback \subseteq Nat
  /\ \A time \in DOMAIN rollback : rollback[time] \in Copy
  /\ failedData \subseteq SUBSET Nat
  /\ scripts \in [Operator -> [command : Command, at : Nat, image : AnyImage, time : Nat]]
  /\ admitted \subseteq Nat /\ committed \subseteq Nat /\ sinceOpen \subseteq Nat
  /\ commandsLeft \in Nat /\ outagesLeft \in Nat /\ writesLeft \in Nat

\* A script of this command stands before a step of these.
Runs(o, command, steps) == scripts[o].command = command /\ scripts[o].at \in steps

\* One command at a time, each at a step it has.
OneCommand ==
  /\ \A o, p \in Operator : scripts[o] # Idle /\ scripts[p] # Idle => o = p
  /\ \A o \in Operator :
       IF scripts[o].command = "none" THEN scripts[o] = Idle
       ELSE scripts[o].at \in 1 .. Len(Steps(scripts[o].command))

\* From its stop to its start a script has the app to itself, and a deploy the site.
Stopped ==
  \A o \in Operator :
    /\ Runs(o, "deploy", 3 .. 7) \/ Runs(o, "rollback", 2 .. 6) =>
         ~container.wanted /\ ~container.up /\ admitted = {}
    /\ Runs(o, "deploy", 2 .. 8) => maintenance

\* Every command has a time of its own, and so has every rollback directory.
OwnTimes ==
  /\ \A time \in DOMAIN rollback : time > commandsLeft
  /\ \A o \in Operator : Runs(o, "deploy", 1 .. 4) =>
       scripts[o].time = commandsLeft + 1 /\ scripts[o].time \notin DOMAIN rollback

\* What a rollback goes back to, and what it has put in place.
GoesBack ==
  \A o \in Operator : scripts[o].command = "rollback" =>
    LET kept == rollback[scripts[o].time]
    IN /\ scripts[o].time \in DOMAIN rollback
       /\ scripts[o].image = kept.image /\ kept.image # NoImage
       /\ scripts[o].at \in 3 .. 4 => sinceOpen = {}
       /\ scripts[o].at = 3 => data = NoData
       /\ scripts[o].at \in 4 .. 6 => data.writes = kept.writes /\ data.ledger = kept.ledger
       /\ ~torn /\ scripts[o].at \in 5 .. 6 => data.there /\ data.whole

\* An image that is set, or that the script is about to set, can serve the database.
Fits(image) == image # NoImage => Serves(image, data.ledger)

ImageSet ==
  \A o \in Operator :
    /\ scripts[o].command = "deploy" => scripts[o].image \in Image
    /\ Runs(o, "deploy", 6 .. 7) => Serves(scripts[o].image, data.ledger)
    /\ Runs(o, "deploy", {7}) \/ Runs(o, "rollback", {6}) => appImage = scripts[o].image

\* Outside a rollback the database is whole, and the server that was there before a script
\* could be started again.
WasThere ==
  ~torn /\ ~(\E o \in Operator : Runs(o, "rollback", 3 .. 6)) =>
    data.there /\ data.whole /\ Fits(appImage) /\ Fits(container.image)

\* Nothing writes between a copy and the site's opening.
ClosedSince ==
  /\ sinceOpen \subseteq DOMAIN rollback
  /\ sinceOpen # {} => maintenance /\ admitted = {}

DeployInv ==
  /\ DeployTypeOK /\ OneCommand /\ Stopped /\ OwnTimes /\ GoesBack /\ ImageSet /\ WasThere
  /\ ClosedSince /\ ServesItsSchema /\ NoWriteLost

-----------------------------------------------------------------------------
(* Deploy: journals and ledgers                                            *)

\* A migration that is not refused leaves a database that the image serves, and that every
\* image which served it before still serves: the ledger only grows, by rows that agree.
LEMMA MigrationFits ==
  ASSUME NEW image \in Image, NEW ledger \in Seq(Migration), Agrees(image, ledger)
  PROVE  /\ Migrated(image, ledger) \in Seq(Migration)
         /\ Serves(image, Migrated(image, ledger))
         /\ \A former \in Image : Serves(former, ledger) => Serves(former, Migrated(image, ledger))
<1> DEFINE J == Journal[image]
<1>1. J \in Seq(Migration) /\ Len(J) \in Nat /\ Len(ledger) \in Nat
      /\ DOMAIN J = 1 .. Len(J) /\ DOMAIN ledger = 1 .. Len(ledger)
  BY DeployAssumption
<1>2. CASE Len(ledger) < Len(J)
  <2>1. Migrated(image, ledger) = J
    BY <1>1, <1>2 DEF Migrated, PendingMigrationCount
  <2>2. Serves(image, J)
    BY <1>1 DEF Serves, Agrees, PendingMigrationCount
  <2>3. ASSUME NEW former \in Image, Serves(former, ledger)
        PROVE  Serves(former, J)
    <3> DEFINE K == Journal[former]
    <3>1. K \in Seq(Migration) /\ Len(K) \in Nat /\ DOMAIN K = 1 .. Len(K)
      BY DeployAssumption
    <3>2. Len(K) <= Len(ledger)
      BY <1>1, <2>3, <3>1 DEF Serves, PendingMigrationCount
    <3>3. \A i \in DOMAIN K : K[i] = ledger[i]
      BY <1>1, <2>3, <3>1, <3>2 DEF Serves, Agrees
    <3>4. \A i \in DOMAIN ledger : J[i] = ledger[i]
      BY <1>1, <1>2 DEF Agrees
    <3>5. \A i \in DOMAIN K : K[i] = J[i]
      BY <1>1, <3>1, <3>2, <3>3, <3>4
    <3> QED BY <1>1, <1>2, <3>1, <3>2, <3>5 DEF Serves, Agrees, PendingMigrationCount
  <2> QED BY <1>1, <2>1, <2>2, <2>3
<1>3. CASE ~ (Len(ledger) < Len(J))
  <2>1. Migrated(image, ledger) = ledger
    BY <1>1, <1>3 DEF Migrated, PendingMigrationCount
  <2> QED BY <1>1, <1>3, <2>1 DEF Serves, PendingMigrationCount
<1> QED BY <1>2, <1>3

-----------------------------------------------------------------------------
(* Deploy: scripts                                                         *)

\* Which command stands before which step.
LEMMA Position ==
  ASSUME DeployInv, NEW o \in Operator
  PROVE  /\ At(o, "close") => Runs(o, "deploy", {1}) \/ Runs(o, "on", {1})
         /\ At(o, "open") => Runs(o, "deploy", {8}) \/ Runs(o, "off", {1})
         /\ At(o, "stop") => Runs(o, "deploy", {2}) \/ Runs(o, "rollback", {1})
         /\ At(o, "copy") => Runs(o, "deploy", {3})
         /\ At(o, "keep") => Runs(o, "deploy", {4})
         /\ At(o, "migrate") => Runs(o, "deploy", {5})
         /\ At(o, "set image") => Runs(o, "deploy", {6}) \/ Runs(o, "rollback", {5})
         /\ At(o, "start") => Runs(o, "deploy", {7}) \/ Runs(o, "rollback", {6})
         /\ At(o, "move") => Runs(o, "rollback", {2})
         /\ At(o, "restore") => Runs(o, "rollback", {3})
         /\ At(o, "restored") => Runs(o, "rollback", {4})
         /\ Runs(o, "rollback", 3 .. 6) => Cut(o)
<1>1. scripts[o].command \in Command /\ scripts[o].at \in Nat
  BY DEF DeployInv, DeployTypeOK
<1>2. CASE scripts[o].command = "none"
  BY <1>2 DEF DeployInv, OneCommand, At, Runs
<1>3. CASE scripts[o].command = "deploy"
  <2>1. scripts[o].at \in 1 .. 8 /\ Steps(scripts[o].command) = DeploySteps
    BY <1>3 DEF DeployInv, OneCommand, Steps, DeploySteps
  <2>2. /\ DeploySteps[1] = "close" /\ DeploySteps[2] = "stop" /\ DeploySteps[3] = "copy"
        /\ DeploySteps[4] = "keep" /\ DeploySteps[5] = "migrate"
        /\ DeploySteps[6] = "set image" /\ DeploySteps[7] = "start" /\ DeploySteps[8] = "open"
    BY DEF DeploySteps
  <2> DEFINE s == DeploySteps[scripts[o].at]
  <2>3. /\ s = "close" => scripts[o].at = 1
        /\ s = "stop" => scripts[o].at = 2
        /\ s = "copy" => scripts[o].at = 3
        /\ s = "keep" => scripts[o].at = 4
        /\ s = "migrate" => scripts[o].at = 5
        /\ s = "set image" => scripts[o].at = 6
        /\ s = "start" => scripts[o].at = 7
        /\ s = "open" => scripts[o].at = 8
        /\ s \notin {"move", "restore", "restored"}
    <3>1. \E n \in {1, 2, 3, 4, 5, 6, 7, 8} : scripts[o].at = n
      BY <2>1
    <3> QED BY <2>2, <3>1
  <2> QED BY <1>3, <2>1, <2>3 DEF Runs, At
<1>4. CASE scripts[o].command = "rollback"
  <2>1. scripts[o].at \in 1 .. 6 /\ Steps(scripts[o].command) = RollbackSteps
    BY <1>4 DEF DeployInv, OneCommand, Steps, RollbackSteps
  <2>2. /\ RollbackSteps[1] = "stop" /\ RollbackSteps[2] = "move" /\ RollbackSteps[3] = "restore"
        /\ RollbackSteps[4] = "restored" /\ RollbackSteps[5] = "set image"
        /\ RollbackSteps[6] = "start"
    BY DEF RollbackSteps
  <2> DEFINE s == RollbackSteps[scripts[o].at]
  <2>3. /\ s = "stop" => scripts[o].at = 1
        /\ s = "move" => scripts[o].at = 2
        /\ s = "restore" <=> scripts[o].at = 3
        /\ s = "restored" <=> scripts[o].at = 4
        /\ s = "set image" <=> scripts[o].at = 5
        /\ s = "start" <=> scripts[o].at = 6
        /\ s \notin {"close", "open", "copy", "keep", "migrate"}
    <3>1. \E n \in {1, 2, 3, 4, 5, 6} : scripts[o].at = n
      BY <2>1
    <3> QED BY <2>2, <3>1
  <2>4. scripts[o] # Idle
    BY <1>4 DEF Idle, Script
  <2>5. scripts[o].at \in 3 .. 6 => Cut(o)
    <3>1. scripts[o].at \in 3 .. 6 => s \in {"restore", "restored", "set image", "start"}
      <4>1. scripts[o].at \in 3 .. 6 => \E n \in {3, 4, 5, 6} : scripts[o].at = n
        BY <2>1
      <4> QED BY <2>3, <4>1
    <3> QED BY <1>4, <2>1, <2>4, <3>1 DEF Cut, At
  <2> QED BY <1>4, <2>1, <2>3, <2>5 DEF Runs, At
<1>5. CASE scripts[o].command \in {"on", "off"}
  <2>1. /\ scripts[o].at = 1
        /\ Steps(scripts[o].command)[1] = IF scripts[o].command = "on" THEN "close" ELSE "open"
    BY <1>5 DEF DeployInv, OneCommand, Steps
  <2>2. \A step : At(o, step) => Steps(scripts[o].command)[1] = step
    BY <2>1 DEF At
  <2> QED BY <1>5, <2>1, <2>2 DEF Runs
<1> QED BY <1>1, <1>2, <1>3, <1>4, <1>5 DEF Command

Scripts == [Operator -> [command : Command, at : Nat, image : AnyImage, time : Nat]]

\* A step done, the script has ended or stands before its next one.
Advanced(o) ==
  IF Runs(o, "deploy", {8}) \/ Runs(o, "rollback", {6}) \/ scripts[o].command \in {"on", "off"}
  THEN scripts'[o].command = "none"
  ELSE /\ scripts'[o].command = scripts[o].command /\ scripts'[o].at = scripts[o].at + 1
       /\ scripts'[o].image = scripts[o].image /\ scripts'[o].time = scripts[o].time

\* What the end of a step does to the scripts.
LEMMA Advances ==
  ASSUME DeployInv, NEW o \in Operator, NEW step, At(o, step), Onward(o)
  PROVE  /\ scripts' \in Scripts /\ OneCommand' /\ Advanced(o)
         /\ \A p \in Operator \ {o} : scripts[p].command = "none" /\ scripts'[p].command = "none"
         /\ scripts[o].at \in Nat
<1>1. scripts \in Scripts /\ scripts[o] # Idle /\ scripts[o].at \in Nat
  BY DEF DeployInv, DeployTypeOK, Scripts, At
<1>2. \A p \in Operator \ {o} : scripts[p] = Idle
  BY <1>1 DEF DeployInv, OneCommand
<1>3. /\ Idle \in [command : Command, at : Nat, image : AnyImage, time : Nat]
      /\ Idle.command = "none"
  BY DEF Idle, Script, Command, AnyImage
<1>4. scripts[o].command # "none" /\ scripts[o].at \in 1 .. Len(Steps(scripts[o].command))
  BY <1>1 DEF DeployInv, OneCommand
<1>5. Len(Steps(scripts[o].command)) =
        IF scripts[o].command = "deploy" THEN 8
        ELSE IF scripts[o].command = "rollback" THEN 6 ELSE 1
  BY <1>1, <1>4 DEF Scripts, Command, Steps, DeploySteps, RollbackSteps
<1> DEFINE next == [scripts[o] EXCEPT !.at = @ + 1]
           last == scripts[o].at = Len(Steps(scripts[o].command))
<1>6. scripts' = [scripts EXCEPT ![o] = IF last THEN Idle ELSE next]
  BY DEF Onward
<1>7. /\ next \in [command : Command, at : Nat, image : AnyImage, time : Nat]
      /\ next.command = scripts[o].command /\ next.at = scripts[o].at + 1
      /\ next.image = scripts[o].image /\ next.time = scripts[o].time
  BY <1>1 DEF Scripts
<1> HIDE DEF next
<1>8. /\ scripts' \in Scripts
      /\ scripts'[o] = IF last THEN Idle ELSE next
      /\ \A p \in Operator \ {o} : scripts'[p] = Idle
  BY <1>1, <1>2, <1>3, <1>6, <1>7 DEF Scripts
<1>9. Advanced(o)
  BY <1>1, <1>3, <1>4, <1>5, <1>7, <1>8 DEF Advanced, Runs, Scripts, Command
<1>10. OneCommand'
  <2>1. \A p, q \in Operator : scripts'[p] # Idle /\ scripts'[q] # Idle => p = q
    BY <1>8
  <2>2. ASSUME NEW p \in Operator
        PROVE  IF scripts'[p].command = "none" THEN scripts'[p] = Idle
               ELSE scripts'[p].at \in 1 .. Len(Steps(scripts'[p].command))
    <3>1. CASE p = o
      BY <1>3, <1>4, <1>5, <1>7, <1>8, <3>1
    <3>2. CASE p # o
      BY <1>3, <1>8, <3>2
    <3> QED BY <3>1, <3>2
  <2> QED BY <2>1, <2>2 DEF OneCommand
<1> QED BY <1>1, <1>2, <1>3, <1>8, <1>9, <1>10

-----------------------------------------------------------------------------
(* Deploy: the steps of a script                                           *)

\* The site closes: nothing it holds changes.
LEMMA CloseKeeps ==
  ASSUME DeployInv, NEW o \in Operator, CloseSite(o)
  PROVE  DeployInv'
<1>1. /\ Runs(o, "deploy", {1}) \/ Runs(o, "on", {1})
      /\ scripts' \in Scripts /\ OneCommand' /\ Advanced(o) /\ scripts[o].at \in Nat
      /\ \A p \in Operator \ {o} : scripts[p].command = "none" /\ scripts'[p].command = "none"
  BY Position, Advances DEF CloseSite, Step
<1>2. /\ maintenance' = TRUE
      /\ UNCHANGED <<container, appImage, data, rollback, failedData, admitted, sinceOpen>>
      /\ UNCHANGED <<committed, commandsLeft, outagesLeft, writesLeft, torn>>
  BY DEF CloseSite, Step
<1>3. /\ scripts'[o].command \in {"deploy", "none"}
      /\ scripts'[o].command = "deploy" =>
           /\ scripts[o].command = "deploy" /\ scripts[o].at = 1 /\ scripts'[o].at = 2
           /\ scripts'[o].image = scripts[o].image /\ scripts'[o].time = scripts[o].time
  BY <1>1 DEF Runs, Advanced
<1>4. DeployTypeOK'
  BY <1>1, <1>2, <1>3 DEF DeployInv, DeployTypeOK, Scripts
<1>5. Stopped'
  BY <1>1, <1>2, <1>3 DEF DeployInv, Stopped, Runs
<1>6. OwnTimes'
  BY <1>1, <1>2, <1>3 DEF DeployInv, OwnTimes, Runs
<1>7. GoesBack'
  BY <1>1, <1>2, <1>3 DEF DeployInv, GoesBack, Runs
<1>8. ImageSet'
  BY <1>1, <1>2, <1>3 DEF DeployInv, ImageSet, Runs
<1>9. WasThere'
  BY <1>1, <1>2, <1>3 DEF DeployInv, WasThere, Runs, Fits
<1>10. ClosedSince'
  BY <1>1, <1>2, <1>3 DEF DeployInv, ClosedSince
<1>11. ServesItsSchema'
  BY <1>1, <1>2, <1>3 DEF DeployInv, ServesItsSchema
<1>12. WayBackWorks'
  BY <1>1, <1>2, <1>3 DEF DeployInv, NoWriteLost, WayBackWorks
<1>13. NothingSinceTheCopy'
  BY <1>1, <1>2, <1>3 DEF DeployInv, NoWriteLost, NothingSinceTheCopy, ClosedSince
<1>14. EveryWriteSomewhere'
  BY <1>1, <1>2, <1>3 DEF DeployInv, NoWriteLost, EveryWriteSomewhere
<1> QED BY <1>1, <1>4, <1>5, <1>6, <1>7, <1>8, <1>9, <1>10, <1>11, <1>12, <1>13,
   <1>14 DEF DeployInv, NoWriteLost

\* The site opens, and the copies made until then no longer bind it.
LEMMA OpenKeeps ==
  ASSUME DeployInv, NEW o \in Operator, OpenSite(o)
  PROVE  DeployInv'
<1>1. /\ Runs(o, "deploy", {8}) \/ Runs(o, "off", {1})
      /\ scripts' \in Scripts /\ OneCommand' /\ Advanced(o) /\ scripts[o].at \in Nat
      /\ \A p \in Operator \ {o} : scripts[p].command = "none" /\ scripts'[p].command = "none"
  BY Position, Advances DEF OpenSite, Step
<1>2. /\ maintenance' = FALSE /\ sinceOpen' = {}
      /\ UNCHANGED <<container, appImage, data, rollback, failedData, admitted>>
      /\ UNCHANGED <<committed, commandsLeft, outagesLeft, writesLeft, torn>>
  BY DEF OpenSite, Step
<1>3. scripts'[o].command = "none" /\ scripts[o].command \in {"deploy", "off"}
  BY <1>1 DEF Runs, Advanced
<1>4. DeployTypeOK'
  BY <1>1, <1>2, <1>3 DEF DeployInv, DeployTypeOK, Scripts
<1>5. Stopped'
  BY <1>1, <1>2, <1>3 DEF DeployInv, Stopped, Runs
<1>6. OwnTimes'
  BY <1>1, <1>2, <1>3 DEF DeployInv, OwnTimes, Runs
<1>7. GoesBack'
  BY <1>1, <1>2, <1>3 DEF DeployInv, GoesBack, Runs
<1>8. ImageSet'
  BY <1>1, <1>2, <1>3 DEF DeployInv, ImageSet, Runs
<1>9. WasThere'
  BY <1>1, <1>2, <1>3 DEF DeployInv, WasThere, Runs, Fits
<1>10. ClosedSince'
  BY <1>1, <1>2, <1>3 DEF DeployInv, ClosedSince
<1>11. ServesItsSchema'
  BY <1>1, <1>2, <1>3 DEF DeployInv, ServesItsSchema
<1>12. WayBackWorks'
  BY <1>1, <1>2, <1>3 DEF DeployInv, NoWriteLost, WayBackWorks
<1>13. NothingSinceTheCopy'
  BY <1>1, <1>2, <1>3 DEF DeployInv, NoWriteLost, NothingSinceTheCopy, ClosedSince
<1>14. EveryWriteSomewhere'
  BY <1>1, <1>2, <1>3 DEF DeployInv, NoWriteLost, EveryWriteSomewhere
<1> QED BY <1>1, <1>4, <1>5, <1>6, <1>7, <1>8, <1>9, <1>10, <1>11, <1>12, <1>13,
   <1>14 DEF DeployInv, NoWriteLost

\* The app stops: from here to its start nothing writes.
LEMMA StopKeeps ==
  ASSUME DeployInv, NEW o \in Operator, StopApp(o)
  PROVE  DeployInv'
<1>1. /\ Runs(o, "deploy", {2}) \/ Runs(o, "rollback", {1})
      /\ scripts' \in Scripts /\ OneCommand' /\ Advanced(o) /\ scripts[o].at \in Nat
      /\ \A p \in Operator \ {o} : scripts[p].command = "none" /\ scripts'[p].command = "none"
  BY Position, Advances DEF StopApp, Step
<1>2. /\ container' = [container EXCEPT !.wanted = FALSE, !.up = FALSE] /\ admitted' = {}
      /\ UNCHANGED <<maintenance, appImage, data, rollback, failedData, sinceOpen>>
      /\ UNCHANGED <<committed, commandsLeft, outagesLeft, writesLeft, torn>>
  BY DEF StopApp, Step
<1>3. /\ scripts'[o].command = scripts[o].command /\ scripts'[o].at = scripts[o].at + 1
      /\ scripts'[o].image = scripts[o].image /\ scripts'[o].time = scripts[o].time
      /\ scripts[o].command = "deploy" => scripts[o].at = 2
      /\ scripts[o].command # "deploy" => scripts[o].command = "rollback" /\ scripts[o].at = 1
  BY <1>1 DEF Runs, Advanced
<1>4. /\ container' \in [image : AnyImage, wanted : BOOLEAN, up : BOOLEAN]
      /\ container'.image = container.image /\ ~container'.wanted /\ ~container'.up
  BY <1>2 DEF DeployInv, DeployTypeOK
<1>5. DeployTypeOK'
  BY <1>1, <1>2, <1>3, <1>4 DEF DeployInv, DeployTypeOK, Scripts
<1>6. Stopped'
  BY <1>1, <1>2, <1>3, <1>4 DEF DeployInv, Stopped, Runs
<1>7. OwnTimes'
  BY <1>1, <1>2, <1>3 DEF DeployInv, OwnTimes, Runs
<1>8. GoesBack'
  BY <1>1, <1>2, <1>3 DEF DeployInv, GoesBack, Runs
<1>9. ImageSet'
  BY <1>1, <1>2, <1>3 DEF DeployInv, ImageSet, Runs
<1>10. WasThere'
  BY <1>1, <1>2, <1>3, <1>4 DEF DeployInv, WasThere, Runs, Fits
<1>11. ClosedSince'
  BY <1>1, <1>2, <1>3 DEF DeployInv, ClosedSince
<1>12. ServesItsSchema'
  BY <1>1, <1>2, <1>3, <1>4 DEF DeployInv, ServesItsSchema
<1>13. WayBackWorks'
  BY <1>1, <1>2, <1>3 DEF DeployInv, NoWriteLost, WayBackWorks
<1>14. NothingSinceTheCopy'
  BY <1>1, <1>2, <1>3 DEF DeployInv, NoWriteLost, NothingSinceTheCopy, ClosedSince
<1>15. EveryWriteSomewhere'
  BY <1>1, <1>2, <1>3 DEF DeployInv, NoWriteLost, EveryWriteSomewhere
<1> QED BY <1>1, <1>5, <1>6, <1>7, <1>8, <1>9, <1>10, <1>11, <1>12, <1>13, <1>14,
   <1>15 DEF DeployInv, NoWriteLost

\* A copy begun under another name is no rollback directory.
LEMMA BeginCopyKeeps ==
  ASSUME DeployInv, NEW o \in Operator, BeginCopy(o)
  PROVE  DeployInv'
<1>1. /\ Runs(o, "deploy", {3})
      /\ scripts' \in Scripts /\ OneCommand' /\ Advanced(o) /\ scripts[o].at \in Nat
      /\ \A p \in Operator \ {o} : scripts[p].command = "none" /\ scripts'[p].command = "none"
  BY Position, Advances DEF BeginCopy, Step
<1>2. /\ rollback' = rollback
      /\ UNCHANGED <<maintenance, container, appImage, data, failedData, admitted, sinceOpen>>
      /\ UNCHANGED <<committed, commandsLeft, outagesLeft, writesLeft, torn>>
  BY DEF BeginCopy, Step, UnderAnotherName
<1>3. /\ scripts[o].command = "deploy" /\ scripts[o].at = 3
      /\ scripts'[o].command = "deploy" /\ scripts'[o].at = 4
      /\ scripts'[o].image = scripts[o].image /\ scripts'[o].time = scripts[o].time
  BY <1>1 DEF Runs, Advanced
<1>4. DeployTypeOK'
  BY <1>1, <1>2, <1>3 DEF DeployInv, DeployTypeOK, Scripts
<1>5. Stopped'
  BY <1>1, <1>2, <1>3 DEF DeployInv, Stopped, Runs
<1>6. OwnTimes'
  BY <1>1, <1>2, <1>3 DEF DeployInv, OwnTimes, Runs
<1>7. GoesBack'
  BY <1>1, <1>2, <1>3 DEF DeployInv, GoesBack, Runs
<1>8. ImageSet'
  BY <1>1, <1>2, <1>3 DEF DeployInv, ImageSet, Runs
<1>9. WasThere'
  BY <1>1, <1>2, <1>3 DEF DeployInv, WasThere, Runs, Fits
<1>10. ClosedSince'
  BY <1>1, <1>2, <1>3 DEF DeployInv, ClosedSince
<1>11. ServesItsSchema'
  BY <1>1, <1>2, <1>3 DEF DeployInv, ServesItsSchema
<1>12. WayBackWorks'
  BY <1>1, <1>2, <1>3 DEF DeployInv, NoWriteLost, WayBackWorks
<1>13. NothingSinceTheCopy'
  BY <1>1, <1>2, <1>3 DEF DeployInv, NoWriteLost, NothingSinceTheCopy, ClosedSince
<1>14. EveryWriteSomewhere'
  BY <1>1, <1>2, <1>3 DEF DeployInv, NoWriteLost, EveryWriteSomewhere
<1> QED BY <1>1, <1>4, <1>5, <1>6, <1>7, <1>8, <1>9, <1>10, <1>11, <1>12, <1>13,
   <1>14 DEF DeployInv, NoWriteLost

\* A copy is kept: it is whole, its time is new, and its image serves it, because the
\* database it was taken from was whole and served by that image.
LEMMA KeepCopyKeeps ==
  ASSUME DeployInv, NEW o \in Operator, KeepCopy(o)
  PROVE  DeployInv'
<1>1. /\ Runs(o, "deploy", {4})
      /\ scripts' \in Scripts /\ OneCommand' /\ Advanced(o) /\ scripts[o].at \in Nat
      /\ \A p \in Operator \ {o} : scripts[p].command = "none" /\ scripts'[p].command = "none"
  BY Position, Advances DEF KeepCopy, Step
<1>2. /\ rollback' = WithCopy(o, data.whole)
      /\ sinceOpen' = IF maintenance THEN sinceOpen \cup {scripts[o].time} ELSE sinceOpen
      /\ UNCHANGED <<maintenance, container, appImage, data, failedData, admitted>>
      /\ UNCHANGED <<committed, commandsLeft, outagesLeft, writesLeft, torn>>
  BY DEF KeepCopy, Step
<1>3. /\ scripts[o].command = "deploy" /\ scripts[o].at = 4
      /\ scripts'[o].command = "deploy" /\ scripts'[o].at = 5
      /\ scripts'[o].image = scripts[o].image /\ scripts'[o].time = scripts[o].time
  BY <1>1 DEF Runs, Advanced
<1> DEFINE t == scripts[o].time
           copy == [ledger |-> data.ledger, writes |-> data.writes,
                    whole |-> data.whole, image |-> container.image]
<1>4. t = commandsLeft + 1 /\ commandsLeft \in Nat /\ t \in Nat /\ t \notin DOMAIN rollback
  BY <1>1, <1>3 DEF DeployInv, DeployTypeOK, OwnTimes, Runs, Scripts
<1>5. /\ DOMAIN rollback' = DOMAIN rollback \cup {t}
      /\ rollback'[t] = copy
      /\ \A u \in DOMAIN rollback : rollback'[u] = rollback[u]
  BY <1>2, <1>4 DEF WithCopy
<1>6. /\ copy \in Copy
      /\ copy.ledger = data.ledger /\ copy.writes = data.writes /\ copy.whole = data.whole
      /\ copy.image = container.image
      /\ maintenance /\ admitted = {} /\ maintenance' /\ sinceOpen' = sinceOpen \cup {t}
  BY <1>1, <1>2, <1>3 DEF DeployInv, DeployTypeOK, Copy, Stopped, Runs
<1> HIDE DEF copy
<1>7. DeployTypeOK'
  BY <1>1, <1>2, <1>3, <1>4, <1>5, <1>6 DEF DeployInv, DeployTypeOK, Scripts
<1>8. Stopped'
  BY <1>1, <1>2, <1>3 DEF DeployInv, Stopped, Runs
<1>9. OwnTimes'
  BY <1>1, <1>2, <1>3, <1>4, <1>5, <1>6 DEF DeployInv, OwnTimes, Runs
<1>10. GoesBack'
  BY <1>1, <1>2, <1>3, <1>4, <1>5, <1>6 DEF DeployInv, GoesBack, Runs
<1>11. ImageSet'
  BY <1>1, <1>2, <1>3 DEF DeployInv, ImageSet, Runs
<1>12. WasThere'
  BY <1>1, <1>2, <1>3 DEF DeployInv, WasThere, Runs, Fits
<1>13. ClosedSince'
  BY <1>1, <1>2, <1>3, <1>4, <1>5, <1>6 DEF DeployInv, ClosedSince
<1>14. ServesItsSchema'
  BY <1>1, <1>2, <1>3 DEF DeployInv, ServesItsSchema
<1>15. WayBackWorks'
  BY <1>1, <1>2, <1>3, <1>4, <1>5, <1>6 DEF DeployInv, NoWriteLost, WayBackWorks, WasThere,
     Runs, Fits, Serves
<1>16. NothingSinceTheCopy'
  BY <1>1, <1>2, <1>3, <1>4, <1>5, <1>6 DEF DeployInv, NoWriteLost, NothingSinceTheCopy,
     ClosedSince
<1>17. EveryWriteSomewhere'
  BY <1>1, <1>2, <1>3, <1>4, <1>5, <1>6 DEF DeployInv, NoWriteLost, EveryWriteSomewhere
<1> QED BY <1>1, <1>7, <1>8, <1>9, <1>10, <1>11, <1>12, <1>13, <1>14, <1>15, <1>16,
   <1>17 DEF DeployInv, NoWriteLost

\* The database is migrated for the image to come, and the one before still serves it.
LEMMA MigrateKeeps ==
  ASSUME DeployInv, NEW o \in Operator, Migrate(o)
  PROVE  DeployInv'
<1>1. /\ Runs(o, "deploy", {5})
      /\ scripts' \in Scripts /\ OneCommand' /\ Advanced(o) /\ scripts[o].at \in Nat
      /\ \A p \in Operator \ {o} : scripts[p].command = "none" /\ scripts'[p].command = "none"
  BY Position, Advances DEF Migrate, Step
<1>2. /\ data.whole /\ Agrees(scripts[o].image, data.ledger)
      /\ data' = [data EXCEPT !.ledger = Migrated(scripts[o].image, @)]
      /\ UNCHANGED <<maintenance, container, appImage, rollback, failedData, admitted, sinceOpen>>
      /\ UNCHANGED <<committed, commandsLeft, outagesLeft, writesLeft, torn>>
  BY DEF Migrate, Step
<1>3. /\ scripts[o].command = "deploy" /\ scripts[o].at = 5
      /\ scripts'[o].command = "deploy" /\ scripts'[o].at = 6
      /\ scripts'[o].image = scripts[o].image /\ scripts'[o].time = scripts[o].time
  BY <1>1 DEF Runs, Advanced
<1>4. /\ data' \in [there : BOOLEAN, whole : BOOLEAN, ledger : Seq(Migration),
                   writes : SUBSET Nat]
      /\ data'.ledger = Migrated(scripts[o].image, data.ledger)
      /\ data'.there = data.there /\ data'.whole = data.whole /\ data'.writes = data.writes
  <2>1. scripts[o].image \in Image /\ data.ledger \in Seq(Migration)
    BY <1>1, <1>3 DEF DeployInv, DeployTypeOK, Runs, ImageSet
  <2>2. Migrated(scripts[o].image, data.ledger) \in Seq(Migration)
    BY <1>2, <2>1, MigrationFits
  <2> QED BY <1>2, <2>2 DEF DeployInv, DeployTypeOK
<1>5. /\ Serves(scripts[o].image, data'.ledger)
      /\ \A former \in Image : Serves(former, data.ledger) => Serves(former, data'.ledger)
  <2>1. scripts[o].image \in Image /\ data.ledger \in Seq(Migration)
    BY <1>1, <1>3 DEF DeployInv, DeployTypeOK, Runs, ImageSet
  <2> QED BY <1>2, <1>4, <2>1, MigrationFits
<1>6. DeployTypeOK'
  BY <1>1, <1>2, <1>3, <1>4, <1>5 DEF DeployInv, DeployTypeOK, Scripts
<1>7. Stopped'
  BY <1>1, <1>2, <1>3 DEF DeployInv, Stopped, Runs
<1>8. OwnTimes'
  BY <1>1, <1>2, <1>3 DEF DeployInv, OwnTimes, Runs
<1>9. GoesBack'
  BY <1>1, <1>2, <1>3, <1>4, <1>5 DEF DeployInv, GoesBack, Runs
<1>10. ImageSet'
  BY <1>1, <1>2, <1>3, <1>4, <1>5 DEF DeployInv, ImageSet, Runs
<1>11. WasThere'
  BY <1>1, <1>2, <1>3, <1>4, <1>5 DEF DeployInv, WasThere, Runs, Fits, DeployTypeOK, AnyImage
<1>12. ClosedSince'
  BY <1>1, <1>2, <1>3 DEF DeployInv, ClosedSince
<1>13. ServesItsSchema'
  BY <1>1, <1>2, <1>3, <1>4, <1>5 DEF DeployInv, ServesItsSchema, Stopped, Runs
<1>14. WayBackWorks'
  BY <1>1, <1>2, <1>3 DEF DeployInv, NoWriteLost, WayBackWorks
<1>15. NothingSinceTheCopy'
  BY <1>1, <1>2, <1>3, <1>4, <1>5 DEF DeployInv, NoWriteLost, NothingSinceTheCopy, ClosedSince
<1>16. EveryWriteSomewhere'
  BY <1>1, <1>2, <1>3, <1>4, <1>5 DEF DeployInv, NoWriteLost, EveryWriteSomewhere
<1> QED BY <1>1, <1>6, <1>7, <1>8, <1>9, <1>10, <1>11, <1>12, <1>13, <1>14, <1>15,
   <1>16 DEF DeployInv, NoWriteLost

\* The image that is set serves the database that is there.
LEMMA SetImageKeeps ==
  ASSUME DeployInv, NEW o \in Operator, SetAppImage(o)
  PROVE  DeployInv'
<1>1. /\ Runs(o, "deploy", {6}) \/ Runs(o, "rollback", {5})
      /\ scripts' \in Scripts /\ OneCommand' /\ Advanced(o) /\ scripts[o].at \in Nat
      /\ \A p \in Operator \ {o} : scripts[p].command = "none" /\ scripts'[p].command = "none"
  BY Position, Advances DEF SetAppImage, Step
<1>2. /\ appImage' = scripts[o].image
      /\ UNCHANGED <<maintenance, container, data, rollback, failedData, admitted, sinceOpen>>
      /\ UNCHANGED <<committed, commandsLeft, outagesLeft, writesLeft, torn>>
  BY DEF SetAppImage, Step
<1>3. /\ scripts'[o].command = scripts[o].command /\ scripts'[o].at = scripts[o].at + 1
      /\ scripts'[o].image = scripts[o].image /\ scripts'[o].time = scripts[o].time
      /\ scripts[o].command = "deploy" => scripts[o].at = 6
      /\ scripts[o].command # "deploy" => scripts[o].command = "rollback" /\ scripts[o].at = 5
  BY <1>1 DEF Runs, Advanced
<1>4. DeployTypeOK'
  BY <1>1, <1>2, <1>3 DEF DeployInv, DeployTypeOK, Scripts
<1>5. Stopped'
  BY <1>1, <1>2, <1>3 DEF DeployInv, Stopped, Runs
<1>6. OwnTimes'
  BY <1>1, <1>2, <1>3 DEF DeployInv, OwnTimes, Runs
<1>7. GoesBack'
  BY <1>1, <1>2, <1>3 DEF DeployInv, GoesBack, Runs
<1>8. ImageSet'
  BY <1>1, <1>2, <1>3 DEF DeployInv, ImageSet, Runs
<1>9. WasThere'
  BY <1>1, <1>2, <1>3 DEF DeployInv, WasThere, Runs, Fits, ImageSet
<1>10. ClosedSince'
  BY <1>1, <1>2, <1>3 DEF DeployInv, ClosedSince
<1>11. ServesItsSchema'
  BY <1>1, <1>2, <1>3 DEF DeployInv, ServesItsSchema
<1>12. WayBackWorks'
  BY <1>1, <1>2, <1>3 DEF DeployInv, NoWriteLost, WayBackWorks
<1>13. NothingSinceTheCopy'
  BY <1>1, <1>2, <1>3 DEF DeployInv, NoWriteLost, NothingSinceTheCopy, ClosedSince
<1>14. EveryWriteSomewhere'
  BY <1>1, <1>2, <1>3 DEF DeployInv, NoWriteLost, EveryWriteSomewhere
<1> QED BY <1>1, <1>4, <1>5, <1>6, <1>7, <1>8, <1>9, <1>10, <1>11, <1>12, <1>13,
   <1>14 DEF DeployInv, NoWriteLost

\* The data moves aside, and every answered write with it.
LEMMA MoveKeeps ==
  ASSUME DeployInv, NEW o \in Operator, MoveData(o)
  PROVE  DeployInv'
<1>1. /\ Runs(o, "rollback", {2})
      /\ scripts' \in Scripts /\ OneCommand' /\ Advanced(o) /\ scripts[o].at \in Nat
      /\ \A p \in Operator \ {o} : scripts[p].command = "none" /\ scripts'[p].command = "none"
  BY Position, Advances DEF MoveData, Step, Aside
<1>2. /\ failedData' = failedData \cup {data.writes} /\ data' = NoData /\ sinceOpen' = {}
      /\ UNCHANGED <<maintenance, container, appImage, rollback, admitted>>
      /\ UNCHANGED <<committed, commandsLeft, outagesLeft, writesLeft, torn>>
  BY DEF MoveData, Step, Aside
<1>3. /\ scripts[o].command = "rollback" /\ scripts[o].at = 2
      /\ scripts'[o].command = "rollback" /\ scripts'[o].at = 3
      /\ scripts'[o].image = scripts[o].image /\ scripts'[o].time = scripts[o].time
  BY <1>1 DEF Runs, Advanced
<1>4. /\ data' \in [there : BOOLEAN, whole : BOOLEAN, ledger : Seq(Migration),
                   writes : SUBSET Nat]
      /\ data.writes \in SUBSET Nat
  BY <1>2 DEF NoData, DeployInv, DeployTypeOK
<1>5. DeployTypeOK'
  BY <1>1, <1>2, <1>3, <1>4 DEF DeployInv, DeployTypeOK, Scripts
<1>6. Stopped'
  BY <1>1, <1>2, <1>3 DEF DeployInv, Stopped, Runs
<1>7. OwnTimes'
  BY <1>1, <1>2, <1>3 DEF DeployInv, OwnTimes, Runs
<1>8. GoesBack'
  BY <1>1, <1>2, <1>3 DEF DeployInv, GoesBack, Runs
<1>9. ImageSet'
  BY <1>1, <1>2, <1>3 DEF DeployInv, ImageSet, Runs
<1>10. WasThere'
  BY <1>1, <1>2, <1>3 DEF DeployInv, WasThere, Runs, Fits
<1>11. ClosedSince'
  BY <1>1, <1>2, <1>3 DEF DeployInv, ClosedSince
<1>12. ServesItsSchema'
  BY <1>1, <1>2, <1>3 DEF DeployInv, ServesItsSchema, Stopped, Runs
<1>13. WayBackWorks'
  BY <1>1, <1>2, <1>3 DEF DeployInv, NoWriteLost, WayBackWorks
<1>14. NothingSinceTheCopy'
  BY <1>1, <1>2, <1>3 DEF DeployInv, NoWriteLost, NothingSinceTheCopy, ClosedSince
<1>15. EveryWriteSomewhere'
  BY <1>1, <1>2, <1>3, <1>4 DEF DeployInv, NoWriteLost, EveryWriteSomewhere
<1> QED BY <1>1, <1>5, <1>6, <1>7, <1>8, <1>9, <1>10, <1>11, <1>12, <1>13, <1>14,
   <1>15 DEF DeployInv, NoWriteLost

\* A restored database is not whole until it is all there.
LEMMA BeginRestoreKeeps ==
  ASSUME DeployInv, NEW o \in Operator, BeginRestore(o)
  PROVE  DeployInv'
<1>1. /\ Runs(o, "rollback", {3})
      /\ scripts' \in Scripts /\ OneCommand' /\ Advanced(o) /\ scripts[o].at \in Nat
      /\ \A p \in Operator \ {o} : scripts[p].command = "none" /\ scripts'[p].command = "none"
  BY Position, Advances DEF BeginRestore, Step
<1>2. /\ data'.there = TRUE
      /\ UNCHANGED <<maintenance, container, appImage, rollback, failedData, admitted, sinceOpen>>
      /\ UNCHANGED <<committed, commandsLeft, outagesLeft, writesLeft, torn>>
  BY DEF BeginRestore, Step, RestoredData
<1>3. /\ scripts[o].command = "rollback" /\ scripts[o].at = 3
      /\ scripts'[o].command = "rollback" /\ scripts'[o].at = 4
      /\ scripts'[o].image = scripts[o].image /\ scripts'[o].time = scripts[o].time
  BY <1>1 DEF Runs, Advanced
<1> DEFINE kept == rollback[scripts[o].time]
<1>4. /\ kept \in Copy /\ scripts[o].time \in DOMAIN rollback
      /\ data' \in [there : BOOLEAN, whole : BOOLEAN, ledger : Seq(Migration),
                   writes : SUBSET Nat]
      /\ ~data'.whole
      /\ data'.ledger = kept.ledger /\ data'.writes = kept.writes
  <2>1. scripts[o].time \in DOMAIN rollback /\ kept \in Copy
    BY <1>3 DEF DeployInv, DeployTypeOK, GoesBack
  <2>2. data' = [there |-> TRUE, whole |-> FALSE /\ kept.whole, ledger |-> kept.ledger,
                 writes |-> kept.writes]
    BY DEF BeginRestore, RestoredData
  <2> QED BY <2>1, <2>2 DEF Copy
<1>5. DeployTypeOK'
  BY <1>1, <1>2, <1>3, <1>4 DEF DeployInv, DeployTypeOK, Scripts
<1>6. Stopped'
  BY <1>1, <1>2, <1>3 DEF DeployInv, Stopped, Runs
<1>7. OwnTimes'
  BY <1>1, <1>2, <1>3 DEF DeployInv, OwnTimes, Runs
<1>8. GoesBack'
  BY <1>1, <1>2, <1>3, <1>4 DEF DeployInv, GoesBack, Runs
<1>9. ImageSet'
  BY <1>1, <1>2, <1>3 DEF DeployInv, ImageSet, Runs
<1>10. WasThere'
  BY <1>1, <1>2, <1>3, <1>4 DEF DeployInv, WasThere, Runs, Fits
<1>11. ClosedSince'
  BY <1>1, <1>2, <1>3 DEF DeployInv, ClosedSince
<1>12. ServesItsSchema'
  BY <1>1, <1>2, <1>3 DEF DeployInv, ServesItsSchema, Stopped, Runs
<1>13. WayBackWorks'
  BY <1>1, <1>2, <1>3 DEF DeployInv, NoWriteLost, WayBackWorks
<1>14. NothingSinceTheCopy'
  BY <1>1, <1>2, <1>3 DEF DeployInv, NoWriteLost, NothingSinceTheCopy, ClosedSince, GoesBack,
     Runs
<1>15. EveryWriteSomewhere'
  BY <1>1, <1>2, <1>3, <1>4 DEF DeployInv, NoWriteLost, EveryWriteSomewhere, GoesBack, NoData
<1> QED BY <1>1, <1>5, <1>6, <1>7, <1>8, <1>9, <1>10, <1>11, <1>12, <1>13, <1>14,
   <1>15 DEF DeployInv, NoWriteLost

\* The restored database is the copy, and so the image of the copy serves it.
LEMMA EndRestoreKeeps ==
  ASSUME DeployInv, NEW o \in Operator, EndRestore(o)
  PROVE  DeployInv'
<1>1. /\ Runs(o, "rollback", {4})
      /\ scripts' \in Scripts /\ OneCommand' /\ Advanced(o) /\ scripts[o].at \in Nat
      /\ \A p \in Operator \ {o} : scripts[p].command = "none" /\ scripts'[p].command = "none"
  BY Position, Advances DEF EndRestore, Step
<1>2. /\ data'.there = TRUE
      /\ UNCHANGED <<maintenance, container, appImage, rollback, failedData, admitted, sinceOpen>>
      /\ UNCHANGED <<committed, commandsLeft, outagesLeft, writesLeft, torn>>
  BY DEF EndRestore, Step, RestoredData
<1>3. /\ scripts[o].command = "rollback" /\ scripts[o].at = 4
      /\ scripts'[o].command = "rollback" /\ scripts'[o].at = 5
      /\ scripts'[o].image = scripts[o].image /\ scripts'[o].time = scripts[o].time
  BY <1>1 DEF Runs, Advanced
<1> DEFINE kept == rollback[scripts[o].time]
<1>4. /\ kept \in Copy /\ scripts[o].time \in DOMAIN rollback
      /\ data' \in [there : BOOLEAN, whole : BOOLEAN, ledger : Seq(Migration),
                   writes : SUBSET Nat]
      /\ data'.whole = kept.whole
      /\ data'.ledger = kept.ledger /\ data'.writes = kept.writes
  <2>1. scripts[o].time \in DOMAIN rollback /\ kept \in Copy
    BY <1>3 DEF DeployInv, DeployTypeOK, GoesBack
  <2>2. data' = [there |-> TRUE, whole |-> TRUE /\ kept.whole, ledger |-> kept.ledger,
                 writes |-> kept.writes]
    BY DEF EndRestore, RestoredData
  <2> QED BY <2>1, <2>2 DEF Copy
<1>5. DeployTypeOK'
  BY <1>1, <1>2, <1>3, <1>4 DEF DeployInv, DeployTypeOK, Scripts
<1>6. Stopped'
  BY <1>1, <1>2, <1>3 DEF DeployInv, Stopped, Runs
<1>7. OwnTimes'
  BY <1>1, <1>2, <1>3 DEF DeployInv, OwnTimes, Runs
<1>8. GoesBack'
  BY <1>1, <1>2, <1>3, <1>4 DEF DeployInv, GoesBack, Runs, NoWriteLost, WayBackWorks
<1>9. ImageSet'
  BY <1>1, <1>2, <1>3 DEF DeployInv, ImageSet, Runs
<1>10. WasThere'
  BY <1>1, <1>2, <1>3, <1>4 DEF DeployInv, WasThere, Runs, Fits
<1>11. ClosedSince'
  BY <1>1, <1>2, <1>3 DEF DeployInv, ClosedSince
<1>12. ServesItsSchema'
  BY <1>1, <1>2, <1>3 DEF DeployInv, ServesItsSchema, Stopped, Runs
<1>13. WayBackWorks'
  BY <1>1, <1>2, <1>3 DEF DeployInv, NoWriteLost, WayBackWorks
<1>14. NothingSinceTheCopy'
  BY <1>1, <1>2, <1>3 DEF DeployInv, NoWriteLost, NothingSinceTheCopy, ClosedSince, GoesBack,
     Runs
<1>15. EveryWriteSomewhere'
  BY <1>1, <1>2, <1>3, <1>4 DEF DeployInv, NoWriteLost, EveryWriteSomewhere, GoesBack, NoData
<1> QED BY <1>1, <1>5, <1>6, <1>7, <1>8, <1>9, <1>10, <1>11, <1>12, <1>13, <1>14,
   <1>15 DEF DeployInv, NoWriteLost

\* The app starts on the image that was set, or stays down when that cannot serve.
LEMMA StartKeeps ==
  ASSUME DeployInv, NEW o \in Operator, StartApp(o)
  PROVE  DeployInv'
<1>1. /\ Runs(o, "deploy", {7}) \/ Runs(o, "rollback", {6})
      /\ scripts \in Scripts /\ scripts[o].at \in Nat
      /\ \A p \in Operator \ {o} : scripts[p].command = "none"
  <2>1. At(o, "start") /\ scripts \in Scripts /\ scripts[o] # Idle
    BY DEF StartApp, At, DeployInv, DeployTypeOK, Scripts
  <2>2. \A p \in Operator \ {o} : scripts[p] = Idle
    BY <2>1 DEF DeployInv, OneCommand
  <2>3. Runs(o, "deploy", {7}) \/ Runs(o, "rollback", {6})
    BY <2>1, Position
  <2> QED BY <2>1, <2>2, <2>3 DEF Scripts, Idle, Script
<1>2. /\ container' \in [image : AnyImage, wanted : BOOLEAN, up : BOOLEAN]
      /\ container'.image = appImage /\ container'.wanted
      /\ container'.up => data.there /\ Serves(appImage, data.ledger)
      /\ admitted' = {}
      /\ UNCHANGED <<maintenance, appImage, data, rollback, failedData, sinceOpen>>
      /\ UNCHANGED <<committed, commandsLeft, outagesLeft, writesLeft, torn>>
  <2>1. (data.there /\ Serves(appImage, data.ledger)) \in BOOLEAN
    BY DEF DeployInv, DeployTypeOK
  <2> QED BY <2>1 DEF StartApp, Recreated, DeployInv, DeployTypeOK
<1>3. /\ scripts' \in Scripts /\ OneCommand'
      /\ \A p \in Operator : scripts'[p].command # "none" =>
           /\ p = o /\ scripts[o].command = "deploy" /\ scripts[o].at = 7
           /\ scripts'[o].command = "deploy" /\ scripts'[o].at = 8
           /\ scripts'[o].image = scripts[o].image
  <2>1. CASE Onward(o)
    <3>1. /\ scripts' \in Scripts /\ OneCommand' /\ Advanced(o)
          /\ \A p \in Operator \ {o} : scripts'[p].command = "none"
      BY <2>1, Advances DEF StartApp
    <3> QED BY <1>1, <3>1 DEF Runs, Advanced
  <2>2. CASE scripts' = [scripts EXCEPT ![o] = Idle]
    BY <1>1, <2>2 DEF Scripts, OneCommand, Idle, Script, Command, AnyImage, DeployInv
  <2> QED BY <2>1, <2>2 DEF StartApp
<1>4. ~torn => data.there /\ data.whole /\ Fits(appImage)
  <2>1. CASE Runs(o, "deploy", {7})
    BY <1>1, <2>1 DEF DeployInv, WasThere, Runs
  <2>2. CASE Runs(o, "rollback", {6})
    BY <1>1, <2>2 DEF DeployInv, GoesBack, ImageSet, NoWriteLost, WayBackWorks, Runs, Fits
  <2> QED BY <1>1, <2>1, <2>2
<1>5. DeployTypeOK'
  BY <1>2, <1>3 DEF DeployInv, DeployTypeOK, Scripts
<1>6. Stopped'
  BY <1>2, <1>3 DEF DeployInv, Stopped, Runs
<1>7. OwnTimes'
  BY <1>2, <1>3 DEF DeployInv, OwnTimes, Runs
<1>8. GoesBack'
  BY <1>2, <1>3 DEF DeployInv, GoesBack, Runs
<1>9. ImageSet'
  BY <1>2, <1>3 DEF DeployInv, ImageSet, Runs
<1>10. WasThere'
  BY <1>2, <1>3, <1>4 DEF DeployInv, WasThere, Runs, Fits
<1>11. ClosedSince'
  BY <1>2, <1>3 DEF DeployInv, ClosedSince
<1>12. ServesItsSchema'
  BY <1>2, <1>3, <1>4 DEF DeployInv, ServesItsSchema, Serves
<1>13. WayBackWorks'
  BY <1>2, <1>3 DEF DeployInv, NoWriteLost, WayBackWorks
<1>14. NothingSinceTheCopy'
  BY <1>2, <1>3 DEF DeployInv, NoWriteLost, NothingSinceTheCopy, ClosedSince
<1>15. EveryWriteSomewhere'
  BY <1>2, <1>3 DEF DeployInv, NoWriteLost, EveryWriteSomewhere
<1> QED BY <1>3, <1>5, <1>6, <1>7, <1>8, <1>9, <1>10, <1>11, <1>12, <1>13, <1>14,
   <1>15 DEF DeployInv, NoWriteLost

-----------------------------------------------------------------------------
(* Deploy: the commands                                                    *)

\* A command starts when none runs.
LEMMA Issues ==
  ASSUME DeployInv, NEW o \in Operator,
         NEW script \in [command : Command \ {"none"}, at : Nat, image : AnyImage, time : Nat],
         Issued(o, script), script.at = 1
  PROVE  /\ scripts' \in Scripts /\ OneCommand' /\ scripts'[o] = script
         /\ \A p \in Operator : scripts[p].command = "none"
         /\ \A p \in Operator \ {o} : scripts'[p].command = "none"
         /\ commandsLeft \in Nat /\ commandsLeft' \in Nat /\ commandsLeft = commandsLeft' + 1
         /\ UNCHANGED <<siteVars, admitted, committed, outagesLeft, writesLeft, sinceOpen, torn>>
<1>1. \A p \in Operator : scripts[p] = Idle
  BY DEF Issued, LockFree
<1>2. scripts \in Scripts /\ commandsLeft \in Nat
  BY DEF DeployInv, DeployTypeOK, Scripts
<1>3. scripts' = [scripts EXCEPT ![o] = script]
  BY DEF Issued
<1>4. Len(Steps(script.command)) \in Nat \ {0}
  BY DEF Steps, DeploySteps, RollbackSteps, Command
<1>5. OneCommand'
  BY <1>1, <1>2, <1>3, <1>4 DEF Scripts, OneCommand, Idle, Script
<1> QED BY <1>1, <1>2, <1>3, <1>5 DEF Scripts, Issued, Idle, Script

\* A command begins; a deploy takes a time that no rollback directory has.
LEMMA BeginKeeps ==
  ASSUME DeployInv, BeginDeploy \/ BeginRollback \/ BeginMaintenance
  PROVE  DeployInv'
<1>1. PICK o \in Operator,
           script \in [command : Command \ {"none"}, at : Nat, image : AnyImage, time : Nat] :
        /\ Issued(o, script) /\ script.at = 1
        /\ script.command = "deploy" => script.time = commandsLeft /\ script.image \in Image
        /\ script.command = "rollback" =>
             /\ script.time \in DOMAIN rollback /\ script.image = rollback[script.time].image
             /\ script.image # NoImage
  <2>1. commandsLeft \in Nat
    BY DEF DeployInv, DeployTypeOK
  <2>2. CASE BeginDeploy
    <3>1. PICK o \in Operator, image \in Image : Issued(o, Script("deploy", image, commandsLeft))
      BY <2>2 DEF BeginDeploy
    <3> DEFINE script == [command |-> "deploy", at |-> 1, image |-> image, time |-> commandsLeft]
    <3>2. Issued(o, script)
      BY <3>1 DEF Script
    <3>3. /\ script \in [command : Command \ {"none"}, at : Nat, image : AnyImage, time : Nat]
          /\ script.at = 1 /\ script.command = "deploy" /\ script.time = commandsLeft
          /\ script.image \in Image
      BY <2>1 DEF Command, AnyImage
    <3> QED BY <3>2, <3>3
  <2>3. CASE BeginRollback
    <3>1. PICK time \in DOMAIN rollback :
            /\ rollback[time].image # NoImage
            /\ Issued("person", Script("rollback", rollback[time].image, time))
      BY <2>3 DEF BeginRollback
    <3> DEFINE script == [command |-> "rollback", at |-> 1, image |-> rollback[time].image,
                          time |-> time]
    <3>2. Issued("person", script)
      BY <3>1 DEF Script
    <3>3. /\ script \in [command : Command \ {"none"}, at : Nat, image : AnyImage, time : Nat]
          /\ script.at = 1 /\ script.command = "rollback" /\ script.time = time
          /\ script.image = rollback[time].image
      BY DEF DeployInv, DeployTypeOK, Copy, Command, AnyImage
    <3> QED BY <3>1, <3>2, <3>3 DEF Operator
  <2>4. CASE BeginMaintenance
    <3>1. PICK command \in {"on", "off"} : Issued("person", Script(command, NoImage, 0))
      BY <2>4 DEF BeginMaintenance
    <3> DEFINE script == [command |-> command, at |-> 1, image |-> NoImage, time |-> 0]
    <3>2. Issued("person", script)
      BY <3>1 DEF Script
    <3>3. /\ script \in [command : Command \ {"none"}, at : Nat, image : AnyImage, time : Nat]
          /\ script.at = 1 /\ script.command \in {"on", "off"}
      BY DEF Command, AnyImage
    <3> QED BY <3>2, <3>3 DEF Operator
  <2> QED BY <2>2, <2>3, <2>4
<1>2. /\ scripts' \in Scripts /\ OneCommand' /\ scripts'[o] = script
      /\ \A p \in Operator : scripts[p].command = "none"
      /\ \A p \in Operator \ {o} : scripts'[p].command = "none"
      /\ commandsLeft \in Nat /\ commandsLeft' \in Nat /\ commandsLeft = commandsLeft' + 1
      /\ UNCHANGED <<siteVars, admitted, committed, outagesLeft, writesLeft, sinceOpen, torn>>
  BY <1>1, Issues
<1>3. UNCHANGED <<maintenance, container, appImage, data, rollback, failedData>>
  BY <1>2 DEF siteVars
<1>4. DeployTypeOK'
  BY <1>1, <1>2, <1>3 DEF DeployInv, DeployTypeOK, Scripts
<1>5. Stopped'
  BY <1>1, <1>2, <1>3 DEF DeployInv, Stopped, Runs
<1>6. OwnTimes'
  BY <1>1, <1>2, <1>3 DEF DeployInv, OwnTimes, Runs, DeployTypeOK
<1>7. GoesBack'
  BY <1>1, <1>2, <1>3 DEF DeployInv, GoesBack, Runs
<1>8. ImageSet'
  BY <1>1, <1>2, <1>3 DEF DeployInv, ImageSet, Runs
<1>9. WasThere'
  BY <1>1, <1>2, <1>3 DEF DeployInv, WasThere, Runs, Fits
<1>10. ClosedSince'
  BY <1>1, <1>2, <1>3 DEF DeployInv, ClosedSince
<1>11. ServesItsSchema'
  BY <1>1, <1>2, <1>3 DEF DeployInv, ServesItsSchema
<1>12. WayBackWorks'
  BY <1>1, <1>2, <1>3 DEF DeployInv, NoWriteLost, WayBackWorks
<1>13. NothingSinceTheCopy'
  BY <1>1, <1>2, <1>3 DEF DeployInv, NoWriteLost, NothingSinceTheCopy, ClosedSince
<1>14. EveryWriteSomewhere'
  BY <1>1, <1>2, <1>3 DEF DeployInv, NoWriteLost, EveryWriteSomewhere
<1> QED BY <1>2, <1>4, <1>5, <1>6, <1>7, <1>8, <1>9, <1>10, <1>11, <1>12, <1>13,
   <1>14 DEF DeployInv, NoWriteLost

-----------------------------------------------------------------------------
(* Deploy: what cuts a script short, the app and the host                  *)

\* Whatever ends the scripts: a rollback that had moved the data is remembered as torn.
LEMMA EndKeeps ==
  ASSUME DeployInv, scripts' \in Scripts, \A o \in Operator : scripts'[o] = Idle,
         torn' \in BOOLEAN, torn => torn',
         \A o \in Operator : Runs(o, "rollback", 3 .. 6) => torn',
         container' \in [image : AnyImage, wanted : BOOLEAN, up : BOOLEAN],
         container'.image = container.image, container'.up => container.up,
         admitted' \subseteq admitted, outagesLeft' \in Nat,
         UNCHANGED <<maintenance, appImage, data, rollback, failedData, committed>>,
         UNCHANGED <<commandsLeft, writesLeft, sinceOpen>>
  PROVE  DeployInv'
<1>1. OneCommand' /\ \A o \in Operator : scripts'[o].command = "none"
  BY DEF OneCommand, Idle, Script
<1>2. DeployTypeOK'
  BY DEF DeployInv, DeployTypeOK, Scripts
<1>3. Stopped'
  BY <1>1 DEF DeployInv, Stopped, Runs
<1>4. OwnTimes'
  BY <1>1 DEF DeployInv, OwnTimes, Runs
<1>5. GoesBack'
  BY <1>1 DEF DeployInv, GoesBack, Runs
<1>6. ImageSet'
  BY <1>1 DEF DeployInv, ImageSet, Runs
<1>7. WasThere'
  BY <1>1 DEF DeployInv, WasThere, Runs, Fits
<1>8. ClosedSince'
  BY <1>1 DEF DeployInv, ClosedSince
<1>9. ServesItsSchema'
  BY <1>1 DEF DeployInv, ServesItsSchema, DeployTypeOK
<1>10. WayBackWorks'
  BY <1>1 DEF DeployInv, NoWriteLost, WayBackWorks
<1>11. NothingSinceTheCopy'
  BY <1>1 DEF DeployInv, NoWriteLost, NothingSinceTheCopy, ClosedSince
<1>12. EveryWriteSomewhere'
  BY <1>1 DEF DeployInv, NoWriteLost, EveryWriteSomewhere
<1> QED BY <1>1, <1>2, <1>3, <1>4, <1>5, <1>6, <1>7, <1>8, <1>9, <1>10, <1>11,
   <1>12 DEF DeployInv, NoWriteLost

\* A script that dies, or the host that goes down under it.
LEMMA CutShortKeeps ==
  ASSUME DeployInv, ScriptDies \/ Outage
  PROVE  DeployInv'
<1>1. /\ scripts \in Scripts /\ torn \in BOOLEAN /\ outagesLeft \in Nat
      /\ container \in [image : AnyImage, wanted : BOOLEAN, up : BOOLEAN]
  BY DEF DeployInv, DeployTypeOK, Scripts
<1>2. \A o \in Operator : Runs(o, "rollback", 3 .. 6) => Cut(o)
  BY Position
<1>3. CASE ScriptDies
  <2>1. PICK o \in Operator :
          /\ scripts[o] # Idle
          /\ scripts' = [scripts EXCEPT ![o] = Idle]
          /\ torn' = (torn \/ Cut(o))
          /\ UNCHANGED <<siteVars, admitted, committed, outagesLeft, writesLeft, sinceOpen, commandsLeft>>
    BY <1>3 DEF ScriptDies
  <2>2. \A p \in Operator \ {o} : scripts[p] = Idle
    BY <2>1 DEF DeployInv, OneCommand
  <2>3. Idle \in [command : Command, at : Nat, image : AnyImage, time : Nat]
    BY DEF Idle, Script, Command, AnyImage
  <2>4. scripts' \in Scripts /\ \A p \in Operator : scripts'[p] = Idle
    BY <1>1, <2>1, <2>2, <2>3 DEF Scripts
  <2>5. \A p \in Operator : Runs(p, "rollback", 3 .. 6) => p = o
    BY <2>2 DEF Runs, Idle, Script
  <2>6. torn' \in BOOLEAN /\ (torn => torn') /\ (Cut(o) => torn')
    BY <2>1 DEF Cut
  <2>7. \A p \in Operator : Runs(p, "rollback", 3 .. 6) => torn'
    BY <1>2, <2>5, <2>6
  <2> QED BY <1>1, <2>1, <2>4, <2>6, <2>7, EndKeeps DEF siteVars
<1>4. CASE Outage
  <2>1. /\ outagesLeft' = outagesLeft - 1 /\ outagesLeft > 0
        /\ container' = [container EXCEPT !.up = FALSE]
        /\ scripts' = [o \in Operator |-> Idle]
        /\ admitted' = {}
        /\ torn' = (torn \/ \E o \in Operator : Cut(o))
        /\ UNCHANGED <<maintenance, appImage, data, rollback, failedData, committed, commandsLeft,
                       writesLeft, sinceOpen>>
    BY <1>4 DEF Outage
  <2>2. Idle \in [command : Command, at : Nat, image : AnyImage, time : Nat]
    BY DEF Idle, Script, Command, AnyImage
  <2>3. scripts' \in Scripts /\ \A p \in Operator : scripts'[p] = Idle
    BY <2>1, <2>2 DEF Scripts
  <2>4. torn' \in BOOLEAN /\ (torn => torn') /\ \A p \in Operator : Cut(p) => torn'
    BY <2>1
  <2>5. \A p \in Operator : Runs(p, "rollback", 3 .. 6) => torn'
    BY <1>2, <2>4
  <2>6. /\ container' \in [image : AnyImage, wanted : BOOLEAN, up : BOOLEAN]
        /\ container'.image = container.image /\ ~container'.up
    BY <1>1, <2>1
  <2>7. admitted' \subseteq admitted /\ outagesLeft' \in Nat
    BY <1>1, <2>1
  <2> QED BY <2>1, <2>3, <2>4, <2>5, <2>6, <2>7, EndKeeps
<1> QED BY <1>3, <1>4

\* The app is started again, by the host or by hand, once no script has it stopped.
LEMMA AppKeeps ==
  ASSUME DeployInv, AppRestarts \/ PersonStarts
  PROVE  DeployInv'
<1>1. /\ container' \in [image : AnyImage, wanted : BOOLEAN, up : BOOLEAN]
      /\ container'.image \in {container.image, appImage}
      /\ container'.up => data.there /\ Serves(container'.image, data.ledger)
      /\ UNCHANGED <<maintenance, appImage, data, rollback, failedData, scripts, committed>>
      /\ UNCHANGED <<commandsLeft, writesLeft, sinceOpen, admitted, outagesLeft, torn>>
      /\ \A o \in Operator : ~Runs(o, "deploy", 3 .. 7) /\ ~Runs(o, "rollback", 2 .. 6)
  <2>1. CASE AppRestarts
    <3>1. /\ container' = [container EXCEPT !.up = TRUE]
          /\ container.wanted /\ data.there /\ Serves(container.image, data.ledger)
          /\ UNCHANGED <<maintenance, appImage, data, rollback, failedData, scripts, committed>>
          /\ UNCHANGED <<commandsLeft, writesLeft, sinceOpen, admitted, outagesLeft, torn>>
      BY <2>1 DEF AppRestarts, AppStep
    <3> QED BY <3>1 DEF DeployInv, DeployTypeOK, Stopped
  <2>2. CASE PersonStarts
    <3>1. /\ container' = Recreated
          /\ UNCHANGED <<maintenance, appImage, data, rollback, failedData, scripts, committed>>
          /\ UNCHANGED <<commandsLeft, writesLeft, sinceOpen, admitted, outagesLeft, torn>>
      BY <2>2 DEF PersonStarts, AppStep
    <3>2. (data.there /\ Serves(appImage, data.ledger)) \in BOOLEAN
      BY DEF DeployInv, DeployTypeOK
    <3>3. /\ container' \in [image : AnyImage, wanted : BOOLEAN, up : BOOLEAN]
          /\ container'.image = appImage
          /\ container'.up => data.there /\ Serves(appImage, data.ledger)
      BY <3>1, <3>2 DEF Recreated, DeployInv, DeployTypeOK
    <3>4. \A o \in Operator : scripts[o].command = "none"
      BY <2>2 DEF PersonStarts, LockFree, Idle, Script
    <3> QED BY <3>1, <3>3, <3>4 DEF Runs
  <2> QED BY <2>1, <2>2
<1>2. OneCommand'
  BY <1>1 DEF DeployInv, OneCommand
<1>3. DeployTypeOK'
  BY <1>1 DEF DeployInv, DeployTypeOK, Scripts
<1>4. Stopped'
  BY <1>1 DEF DeployInv, Stopped, Runs
<1>5. OwnTimes'
  BY <1>1 DEF DeployInv, OwnTimes, Runs
<1>6. GoesBack'
  BY <1>1 DEF DeployInv, GoesBack, Runs
<1>7. ImageSet'
  BY <1>1 DEF DeployInv, ImageSet, Runs
<1>8. WasThere'
  BY <1>1 DEF DeployInv, WasThere, Runs, Fits, DeployTypeOK
<1>9. ClosedSince'
  BY <1>1 DEF DeployInv, ClosedSince
<1>10. ServesItsSchema'
  BY <1>1 DEF DeployInv, ServesItsSchema, Serves, WasThere, Runs
<1>11. WayBackWorks'
  BY <1>1 DEF DeployInv, NoWriteLost, WayBackWorks
<1>12. NothingSinceTheCopy'
  BY <1>1 DEF DeployInv, NoWriteLost, NothingSinceTheCopy, ClosedSince
<1>13. EveryWriteSomewhere'
  BY <1>1 DEF DeployInv, NoWriteLost, EveryWriteSomewhere
<1> QED BY <1>2, <1>3, <1>4, <1>5, <1>6, <1>7, <1>8, <1>9, <1>10, <1>11, <1>12,
   <1>13 DEF DeployInv, NoWriteLost

\* The app takes a request while the site is open.
LEMMA AdmitKeeps ==
  ASSUME DeployInv, Admit
  PROVE  DeployInv'
<1>1. /\ ~maintenance /\ container.up
      /\ writesLeft > 0 /\ writesLeft' = writesLeft - 1
      /\ admitted' = admitted \cup {writesLeft}
      /\ UNCHANGED <<maintenance, container, appImage, data, rollback, failedData>>
      /\ UNCHANGED <<scripts, committed, commandsLeft, outagesLeft, sinceOpen, torn>>
  BY DEF Admit, siteVars
<1>2. OneCommand'
  BY <1>1 DEF DeployInv, OneCommand
<1>3. DeployTypeOK'
  BY <1>1 DEF DeployInv, DeployTypeOK, Scripts
<1>4. Stopped'
  BY <1>1 DEF DeployInv, Stopped, Runs
<1>5. OwnTimes'
  BY <1>1 DEF DeployInv, OwnTimes, Runs
<1>6. GoesBack'
  BY <1>1 DEF DeployInv, GoesBack, Runs
<1>7. ImageSet'
  BY <1>1 DEF DeployInv, ImageSet, Runs
<1>8. WasThere'
  BY <1>1 DEF DeployInv, WasThere, Runs, Fits
<1>9. ClosedSince'
  BY <1>1 DEF DeployInv, ClosedSince
<1>10. ServesItsSchema'
  BY <1>1 DEF DeployInv, ServesItsSchema
<1>11. WayBackWorks'
  BY <1>1 DEF DeployInv, NoWriteLost, WayBackWorks
<1>12. NothingSinceTheCopy'
  BY <1>1 DEF DeployInv, NoWriteLost, NothingSinceTheCopy, ClosedSince
<1>13. EveryWriteSomewhere'
  BY <1>1 DEF DeployInv, NoWriteLost, EveryWriteSomewhere
<1> QED BY <1>2, <1>3, <1>4, <1>5, <1>6, <1>7, <1>8, <1>9, <1>10, <1>11, <1>12,
   <1>13 DEF DeployInv, NoWriteLost

\* An answered write: the site was not closed with a copy made, or none was admitted.
LEMMA CommitKeeps ==
  ASSUME DeployInv, CommitWrite
  PROVE  DeployInv'
<1>1. PICK w \in admitted :
        /\ data' = [data EXCEPT !.writes = @ \cup {w}]
        /\ committed' = committed \cup {w}
        /\ admitted' = admitted \ {w}
  BY DEF CommitWrite
<1>2. /\ container.up /\ w \in Nat
      /\ UNCHANGED <<maintenance, container, appImage, rollback, failedData, scripts>>
      /\ UNCHANGED <<commandsLeft, outagesLeft, writesLeft, sinceOpen, torn>>
  BY DEF CommitWrite, DeployInv, DeployTypeOK
<1>3. /\ data' \in [there : BOOLEAN, whole : BOOLEAN, ledger : Seq(Migration),
                   writes : SUBSET Nat]
      /\ data'.ledger = data.ledger /\ data'.there = data.there /\ data'.whole = data.whole
      /\ data'.writes = data.writes \cup {w}
  BY <1>1, <1>2 DEF DeployInv, DeployTypeOK
<1>4. sinceOpen = {}
  BY <1>1 DEF DeployInv, ClosedSince
<1>5. OneCommand'
  BY <1>2 DEF DeployInv, OneCommand
<1>6. DeployTypeOK'
  BY <1>1, <1>2, <1>3, <1>4 DEF DeployInv, DeployTypeOK, Scripts
<1>7. Stopped'
  BY <1>1, <1>2, <1>3, <1>4 DEF DeployInv, Stopped, Runs
<1>8. OwnTimes'
  BY <1>1, <1>2, <1>3, <1>4 DEF DeployInv, OwnTimes, Runs
<1>9. GoesBack'
  BY <1>1, <1>2, <1>3, <1>4 DEF DeployInv, GoesBack, Runs, Stopped, Runs
<1>10. ImageSet'
  BY <1>1, <1>2, <1>3, <1>4 DEF DeployInv, ImageSet, Runs
<1>11. WasThere'
  BY <1>1, <1>2, <1>3, <1>4 DEF DeployInv, WasThere, Runs, Fits
<1>12. ClosedSince'
  BY <1>1, <1>2, <1>3, <1>4 DEF DeployInv, ClosedSince
<1>13. ServesItsSchema'
  BY <1>1, <1>2, <1>3, <1>4 DEF DeployInv, ServesItsSchema
<1>14. WayBackWorks'
  BY <1>1, <1>2, <1>3, <1>4 DEF DeployInv, NoWriteLost, WayBackWorks
<1>15. NothingSinceTheCopy'
  BY <1>1, <1>2, <1>3, <1>4 DEF DeployInv, NoWriteLost, NothingSinceTheCopy, ClosedSince
<1>16. EveryWriteSomewhere'
  BY <1>1, <1>2, <1>3, <1>4 DEF DeployInv, NoWriteLost, EveryWriteSomewhere
<1> QED BY <1>5, <1>6, <1>7, <1>8, <1>9, <1>10, <1>11, <1>12, <1>13, <1>14, <1>15,
   <1>16 DEF DeployInv, NoWriteLost

-----------------------------------------------------------------------------
(* Deploy: the theorems                                                    *)

\* The host as it is first seen: set up and serving, or new and closed.
LEMMA DeployInitial == DeployInit => DeployInv
<1> SUFFICES ASSUME DeployInit PROVE DeployInv
  OBVIOUS
<1>1. /\ appImage \in {FirstImage, NoImage}
      /\ maintenance = (appImage = NoImage)
      /\ container = [image |-> appImage, wanted |-> ~maintenance, up |-> ~maintenance]
      /\ rollback = [time \in {} |-> 0] /\ failedData = {}
      /\ scripts = [o \in Operator |-> Idle]
      /\ admitted = {} /\ committed = {} /\ sinceOpen = {} /\ torn = FALSE
      /\ commandsLeft \in Nat /\ outagesLeft \in Nat /\ writesLeft \in Nat
  BY DeployAssumption DEF DeployInit
<1>2. /\ data.there /\ data.whole /\ data.writes = {}
      /\ data.ledger = IF maintenance THEN <<>> ELSE Journal[appImage]
      /\ data \in [there : BOOLEAN, whole : BOOLEAN, ledger : Seq(Migration), writes : SUBSET Nat]
  <2> DEFINE ledger == IF maintenance THEN <<>> ELSE Journal[appImage]
  <2>1. ledger \in Seq(Migration)
    <3>1. CASE maintenance
      BY <3>1
    <3>2. CASE ~maintenance
      BY <1>1, <3>2, DeployAssumption
    <3> QED BY <3>1, <3>2
  <2>2. data = [there |-> TRUE, whole |-> TRUE, writes |-> {}, ledger |-> ledger]
    BY DEF DeployInit
  <2> HIDE DEF ledger
  <2>3. /\ data.there /\ data.whole /\ data.writes = {} /\ data.ledger = ledger
        /\ data \in [there : BOOLEAN, whole : BOOLEAN, ledger : Seq(Migration),
                    writes : SUBSET Nat]
    BY <2>1, <2>2
  <2> QED BY <2>3 DEF ledger
<1>3. DOMAIN rollback = {}
  BY <1>1
<1>4. /\ scripts \in Scripts
      /\ \A o \in Operator : scripts[o] = Idle /\ scripts[o].command = "none"
  BY <1>1 DEF Scripts, Idle, Script, Command, AnyImage
<1>5. container \in [image : AnyImage, wanted : BOOLEAN, up : BOOLEAN] /\ appImage \in AnyImage
  BY <1>1, DeployAssumption DEF AnyImage
<1>6. Fits(appImage) /\ container.image = appImage /\ (container.up => appImage = FirstImage)
  <2>1. CASE appImage = NoImage
    BY <1>1, <2>1 DEF Fits
  <2>2. CASE appImage = FirstImage
    <3>1. data.ledger = Journal[FirstImage] /\ Journal[FirstImage] \in Seq(Migration)
      BY <1>1, <1>2, <2>2, DeployAssumption
    <3>2. Serves(FirstImage, data.ledger)
      BY <3>1 DEF Serves, Agrees, PendingMigrationCount
    <3> QED BY <1>1, <2>2, <3>2 DEF Fits
  <2> QED BY <1>1, <2>1, <2>2
<1>7. DeployTypeOK
  BY <1>1, <1>2, <1>3, <1>4, <1>5 DEF DeployTypeOK, Scripts
<1>8. OneCommand /\ Stopped /\ OwnTimes /\ GoesBack /\ ImageSet
  BY <1>3, <1>4 DEF OneCommand, Stopped, OwnTimes, GoesBack, ImageSet, Runs
<1>9. WasThere /\ ClosedSince
  BY <1>1, <1>2, <1>6 DEF WasThere, ClosedSince
<1>10. ServesItsSchema
  BY <1>2, <1>6, DeployAssumption DEF ServesItsSchema, Fits, Serves
<1>11. NoWriteLost
  BY <1>1, <1>3 DEF NoWriteLost, WayBackWorks, NothingSinceTheCopy, EveryWriteSomewhere
<1> QED BY <1>7, <1>8, <1>9, <1>10, <1>11 DEF DeployInv

\* The invariant of the host holds whatever step a script, or the host, stops at and
\* whatever is run next, for any images and any number of commands.
THEOREM DeployInvariant == DeploySpec => []DeployInv
<1>1. DeployInv /\ [DeployNext]_deployVars => DeployInv'
  <2> SUFFICES ASSUME DeployInv, [DeployNext]_deployVars PROVE DeployInv'
    OBVIOUS
  <2>1. CASE ScriptStep
    BY <2>1, CloseKeeps, OpenKeeps, StopKeeps, BeginCopyKeeps, KeepCopyKeeps, MigrateKeeps,
       SetImageKeeps, StartKeeps, MoveKeeps, BeginRestoreKeeps, EndRestoreKeeps DEF ScriptStep
  <2>2. CASE UNCHANGED deployVars
    BY <2>2 DEF deployVars, siteVars, DeployInv, DeployTypeOK, OneCommand, Stopped, OwnTimes,
       GoesBack, ImageSet, WasThere, Fits, Runs, ClosedSince, ServesItsSchema, NoWriteLost,
       WayBackWorks, NothingSinceTheCopy, EveryWriteSomewhere
  <2> QED BY <2>1, <2>2, BeginKeeps, CutShortKeeps, AppKeeps, AdmitKeeps,
     CommitKeeps DEF DeployNext
<1> QED BY <1>1, DeployInitial, PTL DEF DeploySpec

\* No server ever serves a database older than its code or built from other files, nor,
\* unless a rollback was cut short, half a database.
THEOREM SchemaServed == DeploySpec => []ServesItsSchema
<1>1. DeployInv => ServesItsSchema
  BY DEF DeployInv
<1> QED BY <1>1, DeployInvariant, PTL

\* No stop of a script, no restart and no rollback loses a write for good: the way back
\* works, what was copied while the site was closed is all there was, and what a rollback
\* gives up is set aside.
THEOREM WritesKept == DeploySpec => []NoWriteLost
<1>1. DeployInv => NoWriteLost
  BY DEF DeployInv
<1> QED BY <1>1, DeployInvariant, PTL
=============================================================================
