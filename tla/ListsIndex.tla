----------------------------- MODULE ListsIndex -----------------------------
(***************************************************************************)
(* The index of a user's lists: the rows the server keeps, the cache a     *)
(* page draws them from, and the writes of the page: create, rename,       *)
(* duplicate, delete, and a drag that changes the order.                   *)
(*                                                                         *)
(* Every write but duplicate shows its effect at once, in the whole cached *)
(* array, and puts the whole array back when it fails.  Each one reads the *)
(* rows again when it settles, whatever else is still out.                 *)
(*                                                                         *)
(* Left out: every field of a list but its name and place, where the page  *)
(* goes after a create or a delete, and the await before an optimistic     *)
(* write, which nothing here can come between.                             *)
(***************************************************************************)
EXTENDS Sorting

CONSTANTS
  IndexedList,     \* ids of lists, from 1; a placeholder's id is below 0
  Named,      \* names
  StartLists, \* the lists at the start: id to [order, name]
  ListCap,    \* LIST_CAP
  IndexJobs   \* bound: writes, of the page and of another device

ASSUME IndexAssumption ==
  /\ IndexedList \subseteq Nat \ {0}
  /\ DOMAIN StartLists \subseteq IndexedList /\ IsFiniteSet(DOMAIN StartLists)
  /\ StartLists \in [DOMAIN StartLists -> [order : Nat, name : Named]]
  /\ \A k, l \in DOMAIN StartLists : StartLists[k].order = StartLists[l].order => k = l
  /\ {ListCap, IndexJobs} \subseteq Nat

VARIABLES
  indexed,    \* server: lists, id to [order, name]
  issued,     \* server: ids handed out, none twice
  cached,     \* the cache: a sequence of [id, order, name]
  drawn,      \* what the page shows: the cache as last rendered
  reread,     \* the read in flight: none, asked, or answered with rows
  stale,      \* the last read failed
  jobs,       \* the page's writes in flight
  jobsLeft,
  changedElsewhere,  \* another device wrote since the last read: properties only
  crossed     \* a reorder was planned, or overtaken, on other places: properties only

indexVars == <<indexed, issued, cached, drawn, reread, stale, jobs, jobsLeft,
               changedElsewhere, crossed>>
indexServer == <<indexed, issued>>

NewIds == IndexedList \ issued
Places(rows) == {rows[l].order : l \in DOMAIN rows}

-----------------------------------------------------------------------------
(* The server: each write is one transaction.                              *)

\* asc(sortOrder); lists that share a place, which go by name, go by id here.
ListRows(rows) ==
  LET Row(l) == [id |-> l, order |-> rows[l].order, name |-> rows[l].name]
      Before(k, l) == rows[k].order < rows[l].order \/ (rows[k].order = rows[l].order /\ k < l)
      at == InOrder(DOMAIN rows, {p \in (DOMAIN rows) \X (DOMAIN rows) : Before(p[1], p[2])})
  IN  [i \in DOMAIN at |-> Row(at[i])]

OnePastRows(S) == IF S = {} THEN 0 ELSE Max(S) + 1
HowMany(rows) == Cardinality(DOMAIN rows)
AppendSortOrder(rows) == OnePastRows(Places(rows))

WithList(l, name) ==
  [k \in DOMAIN indexed \cup {l} |->
     IF k = l THEN [order |-> AppendSortOrder(indexed), name |-> name] ELSE indexed[k]]

\* reorderOwnedSet: every row named is there, or nothing is written.
ReorderOwnedSet(updates) ==
  IF DOMAIN updates \subseteq DOMAIN indexed
    THEN [l \in DOMAIN indexed |->
            IF l \in DOMAIN updates THEN [indexed[l] EXCEPT !.order = updates[l]] ELSE indexed[l]]
    ELSE indexed

-----------------------------------------------------------------------------
(* Planning a drag.                                                        *)

Swapped(s, from, to) == [s EXCEPT ![from] = s[to], ![to] = s[from]]
MoveRow(s, from, to) == ArrayMove(s, from, to)

\* The places the rows hold are handed out in the new order: they have gaps.
Renumbered(rows) == [i \in DOMAIN rows |-> i - 1]
AssignSortOrderSlots(rows) ==
  LET orders == [i \in DOMAIN rows |-> rows[i].order] IN SortBy(orders, orders)

UpdatesOf(rows) ==
  LET slots == AssignSortOrderSlots(rows)
  IN [l \in {rows[i].id : i \in DOMAIN rows} |->
        slots[CHOOSE i \in DOMAIN rows : rows[i].id = l]]

\* validateReorderPayload: the rows are cached, and the places are theirs.
PayloadFits(updates) ==
  LET touched == {i \in DOMAIN cached : cached[i].id \in DOMAIN updates}
  IN /\ DOMAIN updates = {cached[i].id : i \in touched}
     /\ \A place \in {updates[l] : l \in DOMAIN updates} :
          Cardinality({l \in DOMAIN updates : updates[l] = place})
            = Cardinality({i \in touched : cached[i].order = place})

\* The places the payload was checked against are the server's for those lists, or one of
\* these is a placeholder or no more, and the payload is refused.
PlacesServed(updates) ==
  LET touched == {i \in DOMAIN cached : cached[i].id \in DOMAIN updates}
  IN \/ \E l \in DOMAIN updates : l \notin DOMAIN indexed \cup NewIds
     \/ /\ DOMAIN updates \subseteq DOMAIN indexed
        /\ \A i, k \in touched : cached[i].order = cached[k].order => i = k
        /\ {cached[i].order : i \in touched} = {indexed[l].order : l \in DOMAIN updates}

Reordered(updates) ==
  LET moved == [i \in DOMAIN cached |->
        IF cached[i].id \in DOMAIN updates
          THEN [cached[i] EXCEPT !.order = updates[cached[i].id]] ELSE cached[i]]
  IN  SortBy(moved, [i \in DOMAIN moved |-> moved[i].order])

-----------------------------------------------------------------------------
(* The cache.                                                              *)

NoIndexRead == [at |-> "none", rows |-> <<>>]
IndexAsked == [at |-> "asked", rows |-> <<>>]

\* invalidateQueries: a read in flight is dropped, and another one starts.
MarkIndexOnly == UNCHANGED <<reread, stale>>
ReadIndexAgain == reread' = IndexAsked /\ stale' = FALSE

IndexJob(kind, id) ==
  [n |-> jobsLeft, kind |-> kind, id |-> id, name |-> CHOOSE x \in Named : TRUE,
   updates |-> [l \in {} |-> 0], stage |-> "sent", before |-> cached, view |-> <<>>]

\* onMutate: the read in flight is cancelled, and the array as it is kept.
Starts(job, rows) ==
  /\ jobsLeft > 0 /\ jobsLeft' = jobsLeft - 1
  /\ jobs' = jobs \cup {job}
  /\ cached' = rows /\ reread' = NoIndexRead
  /\ UNCHANGED <<indexed, issued, drawn, stale, changedElsewhere>>

IndexCreate ==
  \E name \in Named :
    LET places == {cached[i].order : i \in DOMAIN cached}
        placeholder == [id |-> -jobsLeft, order |-> OnePastRows(places), name |-> name]
    IN /\ \A j \in jobs : j.kind # "create"      \* isMutating
       /\ Starts([IndexJob("create", 0) EXCEPT !.name = name], Append(cached, placeholder))
       /\ UNCHANGED crossed

IndexRename ==
  \E i \in DOMAIN drawn : \E name \in Named \ {drawn[i].name} :
    /\ Starts([IndexJob("rename", drawn[i].id) EXCEPT !.name = name],
              [k \in DOMAIN cached |->
                 IF cached[k].id = drawn[i].id THEN [cached[k] EXCEPT !.name = name] ELSE cached[k]])
    /\ UNCHANGED crossed

IndexDelete ==
  \E i \in DOMAIN drawn :
    /\ Starts(IndexJob("delete", drawn[i].id),
              PickFrom(cached, {k \in DOMAIN cached : cached[k].id # drawn[i].id}))
    /\ UNCHANGED crossed

\* Not optimistic: no read is cancelled.
IndexDuplicate ==
  \E i \in DOMAIN drawn :
    /\ jobsLeft > 0 /\ jobsLeft' = jobsLeft - 1
    /\ jobs' = jobs \cup {IndexJob("duplicate", drawn[i].id)}
    /\ UNCHANGED <<indexed, issued, cached, drawn, reread, stale, changedElsewhere, crossed>>

\* A drop: planned on the rows shown, while no reorder is out.  A payload that does not
\* fit the cache is given up, and the rows are read again.
IndexDrop ==
  \E from, to \in DOMAIN drawn :
    LET updates == UpdatesOf(MoveRow(drawn, from, to))
    IN /\ from # to
       /\ \A j \in jobs : j.kind # "reorder"
       /\ IF PayloadFits(updates)
            THEN Starts([IndexJob("reorder", drawn[from].id) EXCEPT !.updates = updates,
                                                               !.view = drawn],
                        Reordered(updates))
                 /\ crossed' = (crossed \/ ~PlacesServed(updates))
            ELSE /\ jobsLeft > 0 /\ jobsLeft' = jobsLeft - 1
                 /\ reread' = IndexAsked /\ stale' = FALSE
                 /\ UNCHANGED <<indexed, issued, cached, drawn, jobs, changedElsewhere, crossed>>

IndexRendered ==
  /\ drawn # cached
  /\ drawn' = cached
  /\ UNCHANGED <<indexServer, cached, reread, stale, jobs, jobsLeft, changedElsewhere, crossed>>

-----------------------------------------------------------------------------
(* A write at the server, and its answer.                                  *)

\* The rows after the write; as they are when it is refused.
Made(j) ==
  IF HowMany(indexed) >= ListCap \/ NewIds = {} THEN indexed
  ELSE WithList(Min(NewIds), IF j.kind = "create" THEN j.name ELSE indexed[j.id].name)

IndexAfter(j) ==
  CASE j.kind = "create" -> Made(j)
    [] j.kind = "duplicate" -> IF j.id \in DOMAIN indexed THEN Made(j) ELSE indexed
    [] j.kind = "rename" -> IF j.id \in DOMAIN indexed
                              THEN [indexed EXCEPT ![j.id].name = j.name] ELSE indexed
    [] j.kind = "delete" -> [l \in DOMAIN indexed \ {j.id} |-> indexed[l]]
    [] j.kind = "reorder" -> ReorderOwnedSet(j.updates)

IndexRefuses(j) ==
  CASE j.kind = "create" -> Made(j) = indexed
    [] j.kind = "duplicate" -> j.id \notin DOMAIN indexed \/ Made(j) = indexed
    [] j.kind \in {"rename", "delete"} -> j.id \notin DOMAIN indexed
    [] j.kind = "reorder" -> ~(DOMAIN j.updates \subseteq DOMAIN indexed)

IndexLand ==
  \E j \in jobs :
    /\ j.stage = "sent"
    /\ indexed' = IndexAfter(j)
    /\ issued' = issued \cup DOMAIN indexed'
    /\ jobs' = (jobs \ {j}) \cup {[j EXCEPT !.stage = IF IndexRefuses(j) THEN "refused" ELSE "done"]}
    /\ UNCHANGED <<cached, drawn, reread, stale, jobsLeft, changedElsewhere, crossed>>

IndexDone ==
  \E j \in jobs :
    /\ j.stage = "done"
    /\ jobs' = jobs \ {j}
    /\ ReadIndexAgain
    /\ UNCHANGED <<indexServer, cached, drawn, jobsLeft, changedElsewhere, crossed>>

\* Refused, or no answer, before or after the write: the whole array goes back.
IndexFailed ==
  \E j \in jobs :
    /\ jobs' = jobs \ {j}
    /\ cached' = IF j.kind = "duplicate" THEN cached ELSE j.before
    /\ ReadIndexAgain
    /\ UNCHANGED <<indexServer, drawn, jobsLeft, changedElsewhere, crossed>>

-----------------------------------------------------------------------------
(* Reads, and another device.                                              *)

IndexRead ==
  /\ reread.at = "asked"
  /\ reread' = [at |-> "answered", rows |-> ListRows(indexed)]
  /\ changedElsewhere' = FALSE
  /\ UNCHANGED <<indexServer, cached, drawn, stale, jobs, jobsLeft, crossed>>

IndexReadBack ==
  /\ reread.at = "answered"
  /\ cached' = reread.rows /\ reread' = NoIndexRead
  /\ UNCHANGED <<indexServer, drawn, stale, jobs, jobsLeft, changedElsewhere, crossed>>

IndexReadFailed ==
  /\ reread.at # "none"
  /\ reread' = NoIndexRead /\ stale' = TRUE
  /\ UNCHANGED <<indexServer, cached, drawn, jobs, jobsLeft, changedElsewhere, crossed>>

\* A page is opened, or the button that tries again is pressed.
IndexVisit ==
  /\ reread = NoIndexRead
  /\ ReadIndexAgain
  /\ UNCHANGED <<indexServer, cached, drawn, jobs, jobsLeft, changedElsewhere, crossed>>

AnotherDevice(rows) ==
  /\ jobsLeft > 0 /\ jobsLeft' = jobsLeft - 1
  /\ indexed' = rows /\ issued' = issued \cup DOMAIN rows
  /\ changedElsewhere' = TRUE
  /\ UNCHANGED <<cached, drawn, reread, stale, jobs>>

\* A drag there moves one list past another.
PlacesSwapped(k, l) ==
  [indexed EXCEPT ![k].order = indexed[l].order, ![l].order = indexed[k].order]

IndexOther ==
  \/ /\ \/ \E l \in DOMAIN indexed : AnotherDevice([k \in DOMAIN indexed \ {l} |-> indexed[k]])
        \/ \E l \in NewIds, name \in Named : l = Min(NewIds) /\ AnotherDevice(WithList(l, name))
     /\ UNCHANGED crossed
  \/ /\ \E k, l \in DOMAIN indexed : k < l /\ AnotherDevice(PlacesSwapped(k, l))
     /\ crossed' = (crossed \/ \E j \in jobs : j.kind = "reorder" /\ j.stage = "sent")

-----------------------------------------------------------------------------
IndexInit ==
  /\ indexed = StartLists
  /\ issued = DOMAIN indexed
  /\ cached = ListRows(indexed) /\ drawn = cached
  /\ reread = NoIndexRead /\ stale = FALSE /\ jobs = {}
  /\ jobsLeft = IndexJobs
  /\ changedElsewhere = FALSE /\ crossed = FALSE

IndexNext ==
  \/ IndexCreate \/ IndexRename \/ IndexDelete \/ IndexDuplicate \/ IndexDrop \/ IndexRendered
  \/ IndexLand \/ IndexDone \/ IndexFailed
  \/ IndexRead \/ IndexReadBack \/ IndexReadFailed \/ IndexVisit \/ IndexOther

IndexSpec == IndexInit /\ [][IndexNext]_indexVars

-----------------------------------------------------------------------------
(* Properties.                                                             *)

\* Two lists never get the same place, which nothing in the database forbids, and which the
\* server would order by name: not from what fails, not from another device, and not from
\* a reorder unless the places in the cache it was checked against were no longer the
\* server's (an older read, an array put back), or another reorder overtook it.
NoTies == ~crossed => \A k, l \in DOMAIN indexed : indexed[k].order = indexed[l].order => k = l

\* When nothing is out and the last read succeeded, the page has the rows of the server.
IndexAgrees ==
  jobs = {} /\ reread = NoIndexRead /\ ~stale /\ ~changedElsewhere => cached = ListRows(indexed)

Untied(rows) == \A i, j \in DOMAIN rows : rows[i].order = rows[j].order => i = j

Ids(rows) == [i \in DOMAIN rows |-> rows[i].id]

\* A drop on rows drawn as they are cached stays where it was dropped, until an answer or a
\* failure changes the rows: it is never given up without a word.  Two rows with one place
\* are the exception, and no drop takes them apart.
DropHolds ==
  [][jobsLeft' < jobsLeft /\ drawn = cached /\ Untied(drawn) /\ IndexDrop
       => \E j \in jobs' : j.kind = "reorder" /\ Ids(cached') # Ids(drawn)]_indexVars

\* A reorder carried out on the order it was planned from moves one list: none comes or
\* goes, and any two others stand as they stood.
OthersKeepOrder ==
  [][\A j \in jobs : j.kind = "reorder" /\ j.stage = "sent" /\ j \notin jobs' /\ IndexLand
       /\ Untied(j.view)
       /\ Ids(j.view) = Ids(ListRows(indexed))
       => LET was == Ids(j.view)
              is  == Ids(ListRows(indexed'))
          IN  /\ DOMAIN is = DOMAIN was
              /\ \A a \in DOMAIN was : \E c \in DOMAIN is : is[c] = was[a]
              /\ \A a, b \in DOMAIN was, c, d \in DOMAIN is :
                   was[a] = is[c] /\ was[b] = is[d] /\ j.id \notin {was[a], was[b]} =>
                     (a < b <=> c < d)]_indexVars

\* The order of the lists is the one the user made: places stay apart, a drop holds
\* and moves one list, and the page comes to rest on the server's rows.
IndexRight == [](NoTies /\ IndexAgrees) /\ DropHolds /\ OthersKeepOrder
=============================================================================
