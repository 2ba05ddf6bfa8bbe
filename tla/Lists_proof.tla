---------------------------- MODULE Lists_proof ----------------------------
(***************************************************************************)
(* Proofs about the lists of a user: their index and its order             *)
(* (ListsIndex), and their share links (Shares), which share no state; for *)
(* any lists, names, slugs, visitors and number of writes.                 *)
(*                                                                         *)
(* The index: places are apart, a page at rest has the rows of the server, *)
(* a drop that changes the order is sent, and a reorder that lands moves   *)
(* its one list and leaves the others in their order.  An order of lists   *)
(* is a sorted sequence, see Sorting_proof: from there what one drag       *)
(* plans, and then the plan is followed from the drop, through its job, to *)
(* the server.                                                             *)
(*                                                                         *)
(* The links: Shares keeps what share links promise, its rows implement    *)
(* PublicLinks.  The invariant says that slugs are apart, that no browser  *)
(* keeps an answer, and that the id of a list under way belongs to no row  *)
(* and to no other request.  And the owner is obeyed: what the page asks   *)
(* for holds once it was answered, and is asked for once.  That takes what *)
(* requests under way may still do, and what the next read will bring.     *)
(***************************************************************************)
EXTENDS ListsIndex, Shares, Sorting_proof


-----------------------------------------------------------------------------
(* The index of lists                                                      *)

\* What the page comes to rest on: a read that nothing can have overtaken is the
\* server's rows, and so is the cache once it is in.
RestInv ==
  jobs = {} /\ ~ changedElsewhere =>
    /\ reread.at = "answered" => reread.rows = ListRows(indexed)
    /\ reread = NoIndexRead /\ ~ stale => cached = ListRows(indexed)

\* The writes of the page.
JobOk(j) ==
  /\ j.kind \in {"create", "duplicate", "rename", "delete", "reorder"}
  /\ j = [n |-> j.n, kind |-> j.kind, id |-> j.id, name |-> j.name, updates |-> j.updates,
          stage |-> j.stage, before |-> j.before, view |-> j.view]

\* The reorders on their way.
SentReorders == {j \in jobs : j.kind = "reorder" /\ j.stage = "sent"}

\* A reorder on its way hands out the places of its lists, each once, or names a list
\* that is no more and is refused.
Rearranges(updates) ==
  \/ \E l \in DOMAIN updates : l \notin DOMAIN indexed \cup NewIds
  \/ /\ DOMAIN updates \subseteq DOMAIN indexed
     /\ \A k, l \in DOMAIN updates : updates[k] = updates[l] => k = l
     /\ \A k \in DOMAIN updates : \E l \in DOMAIN updates : updates[k] = indexed[l].order

\* Rows of the server, each in its own place.
Untangled ==
  /\ indexed = [l \in DOMAIN indexed |-> [order |-> indexed[l].order, name |-> indexed[l].name]]
  /\ \A l \in DOMAIN indexed : indexed[l].order \in Nat
  /\ \A k, l \in DOMAIN indexed : indexed[k].order = indexed[l].order => k = l

\* The rows of the server, and the one reorder that is out.
PlacesInv ==
  /\ IsFiniteSet(DOMAIN indexed) /\ DOMAIN indexed \subseteq IndexedList \cap issued
  /\ Untangled
  /\ \A j \in jobs : JobOk(j)
  /\ \A j, k \in jobs : j.kind = "reorder" /\ k.kind = "reorder" => j = k
  /\ \A j \in SentReorders : Rearranges(j.updates)

\* The invariant of the index, until another client's swap crosses a reorder.
IndexInv == RestInv /\ (~ crossed => PlacesInv)

\* A list that is made has a place of its own.
LEMMA NewPlace ==
  ASSUME PlacesInv
  PROVE  /\ AppendSortOrder(indexed) \in Nat
         /\ \A l \in DOMAIN indexed : indexed[l].order < AppendSortOrder(indexed)
<1> DEFINE P == Places(indexed)
<1>1. IsFiniteSet(P) /\ P \subseteq Nat
  <2> DEFINE f == [l \in DOMAIN indexed |-> indexed[l].order]
  <2>1. f \in Surjection(DOMAIN indexed, P)
    BY DEF Places, Surjection
  <2>2. IsFiniteSet(P)
    <3> HIDE DEF f, P
    <3> QED
      BY <2>1, FS_Surjection DEF PlacesInv
  <2> QED
    BY <2>2 DEF PlacesInv, Untangled, Places
<1>2. \A l \in DOMAIN indexed : indexed[l].order \in P
  BY DEF Places
<1>3. CASE P = {}
  <2>1. AppendSortOrder(indexed) = 0 /\ DOMAIN indexed = {}
    BY <1>2, <1>3 DEF AppendSortOrder, OnePastRows
  <2> QED
    BY <2>1
<1>4. CASE P # {}
  <2>1. AppendSortOrder(indexed) = Max(P) + 1
    BY <1>4 DEF AppendSortOrder, OnePastRows
  <2> HIDE DEF P
  <2>2. PICK m : m = Max(P) /\ m \in P /\ \A y \in P : m >= y
    BY <1>1, <1>4, LastPlace
  <2>3. m \in Nat /\ AppendSortOrder(indexed) = m + 1
    BY <1>1, <2>1, <2>2
  <2>4. \A l \in DOMAIN indexed : indexed[l].order \in Nat /\ m >= indexed[l].order
    BY <1>1, <1>2, <2>2
  <2> QED
    BY <2>3, <2>4
<1> QED
  BY <1>3, <1>4

\* What the server does to its rows while the reorder on its way is not landing.
RowsMoved ==
  /\ IsFiniteSet(DOMAIN indexed')
  /\ DOMAIN indexed' \subseteq DOMAIN indexed \cup NewIds
  /\ issued' = issued \cup DOMAIN indexed'
  /\ \A l \in DOMAIN indexed \cap DOMAIN indexed' : indexed'[l].order = indexed[l].order
  /\ Untangled'

\* Nothing but a reorder makes a reorder wrong.
LEMMA ReorderStands ==
  ASSUME PlacesInv, RowsMoved, NEW u, Rearranges(u)
  PROVE  Rearranges(u)'
<1>1. DOMAIN indexed' \cup NewIds' \subseteq DOMAIN indexed \cup NewIds
  BY DEF RowsMoved, NewIds
<1>2. DOMAIN indexed \cap NewIds' = {}
  BY DEF RowsMoved, NewIds, PlacesInv
<1>3. CASE \E l \in DOMAIN u : l \notin DOMAIN indexed \cup NewIds
  BY <1>1, <1>3 DEF Rearranges
<1>4. CASE /\ DOMAIN u \subseteq DOMAIN indexed
           /\ \A k, l \in DOMAIN u : u[k] = u[l] => k = l
           /\ \A k \in DOMAIN u : \E l \in DOMAIN u : u[k] = indexed[l].order
  <2>1. CASE DOMAIN u \subseteq DOMAIN indexed'
    <3>1. \A l \in DOMAIN u : indexed'[l].order = indexed[l].order
      BY <1>4, <2>1 DEF RowsMoved
    <3> QED
      BY <1>4, <2>1, <3>1 DEF Rearranges
  <2>2. CASE ~ DOMAIN u \subseteq DOMAIN indexed'
    <3>1. PICK l \in DOMAIN u : l \notin DOMAIN indexed'
      BY <2>2
    <3>2. l \notin NewIds'
      BY <1>2, <1>4, <3>1
    <3> QED
      BY <3>1, <3>2 DEF Rearranges
  <2> QED
    BY <2>1, <2>2
<1> QED
  BY <1>3, <1>4 DEF Rearranges

\* A step that lands no reorder keeps the places.
LEMMA PlacesStay ==
  ASSUME PlacesInv, RowsMoved,
         \A j, k \in jobs' : j.kind = "reorder" /\ k.kind = "reorder" => j = k,
         \A j \in SentReorders' : j \in SentReorders \/ Rearranges(j.updates),
         \A j \in jobs' : JobOk(j)
  PROVE  PlacesInv'
<1>1. DOMAIN indexed' \subseteq IndexedList \cap issued'
  BY DEF PlacesInv, RowsMoved, NewIds
<1>2. ASSUME NEW j \in SentReorders' PROVE Rearranges(j.updates)'
  <2>1. PICK u : u = j.updates /\ Rearranges(u)
    BY <1>2 DEF PlacesInv
  <2> QED
    BY <2>1, ReorderStands
<1> QED
  BY <1>1, <1>2 DEF PlacesInv, RowsMoved

\* Rows that stay.
LEMMA RowsKept ==
  ASSUME PlacesInv, indexed' = indexed, issued' \in {issued, issued \cup DOMAIN indexed}
  PROVE  RowsMoved
BY DEF RowsMoved, PlacesInv, Untangled

\* A list that is made comes after the others.
LEMMA RowsMade ==
  ASSUME PlacesInv, NEW l \in NewIds, NEW name, indexed' = WithList(l, name),
         issued' = issued \cup DOMAIN indexed'
  PROVE  RowsMoved
<1>1. PICK o : /\ o = AppendSortOrder(indexed) /\ o \in Nat
               /\ \A k \in DOMAIN indexed : indexed[k].order < o
  BY NewPlace
<1>2. indexed' = [k \in DOMAIN indexed \cup {l} |->
                    IF k = l THEN [order |-> o, name |-> name] ELSE indexed[k]]
  BY <1>1 DEF WithList
<1>3. l \notin DOMAIN indexed
  BY DEF NewIds, PlacesInv
<1>4. DOMAIN indexed' = DOMAIN indexed \cup {l} /\ IsFiniteSet(DOMAIN indexed \cup {l})
  BY <1>2, FS_AddElement DEF PlacesInv
<1>5. /\ indexed'[l] = [order |-> o, name |-> name]
      /\ \A k \in DOMAIN indexed : indexed'[k] = indexed[k]
  BY <1>2, <1>3
<1>6. \A k \in DOMAIN indexed : indexed[k] = [order |-> indexed[k].order, name |-> indexed[k].name]
  BY DEF PlacesInv, Untangled
<1>7. \A k \in DOMAIN indexed' : indexed'[k] = [order |-> indexed'[k].order, name |-> indexed'[k].name]
  BY <1>4, <1>5, <1>6
<1>8. indexed' = [k \in DOMAIN indexed' |-> indexed'[k]]
  BY <1>2
<1>9. \A k \in DOMAIN indexed' : indexed'[k].order \in Nat
  BY <1>1, <1>4, <1>5 DEF PlacesInv, Untangled
<1>10. \A k, m \in DOMAIN indexed' : indexed'[k].order = indexed'[m].order => k = m
  BY <1>1, <1>4, <1>5 DEF PlacesInv, Untangled
<1>11. Untangled'
  BY <1>7, <1>8, <1>9, <1>10 DEF Untangled
<1> QED
  BY <1>4, <1>5, <1>11 DEF RowsMoved

\* One that is deleted leaves the others where they are.
LEMMA RowsGone ==
  ASSUME PlacesInv, NEW l, indexed' = [k \in DOMAIN indexed \ {l} |-> indexed[k]],
         issued' = issued \cup DOMAIN indexed'
  PROVE  RowsMoved
<1>1. DOMAIN indexed' = DOMAIN indexed \ {l} /\ IsFiniteSet(DOMAIN indexed \ {l})
  BY FS_RemoveElement DEF PlacesInv
<1>2. \A k \in DOMAIN indexed' : indexed'[k] = indexed[k]
  BY <1>1
<1>3. \A k \in DOMAIN indexed : indexed[k] = [order |-> indexed[k].order, name |-> indexed[k].name]
  BY DEF PlacesInv, Untangled
<1>4. indexed' = [k \in DOMAIN indexed' |->
                    [order |-> indexed'[k].order, name |-> indexed'[k].name]]
  BY <1>1, <1>2, <1>3
<1>5. Untangled'
  BY <1>1, <1>2, <1>4 DEF Untangled, PlacesInv
<1> QED
  BY <1>1, <1>2, <1>5 DEF RowsMoved

\* One that is renamed keeps its place.
LEMMA RowRenamed ==
  ASSUME PlacesInv, NEW l \in DOMAIN indexed, NEW name,
         indexed' = [indexed EXCEPT ![l].name = name],
         issued' = issued \cup DOMAIN indexed'
  PROVE  RowsMoved
<1>1. indexed[l] = [order |-> indexed[l].order, name |-> indexed[l].name]
  BY DEF PlacesInv, Untangled
<1>2. PICK r : r = [indexed[l] EXCEPT !.name = name]
  OBVIOUS
<1>3. r = [order |-> indexed[l].order, name |-> name]
  BY <1>1, <1>2
<1>4. indexed' = [indexed EXCEPT ![l] = r]
  BY <1>2
<1>5. /\ DOMAIN indexed' = DOMAIN indexed /\ indexed'[l] = r
      /\ \A k \in DOMAIN indexed \ {l} : indexed'[k] = indexed[k]
  BY <1>4
<1>6. \A k \in DOMAIN indexed' : indexed'[k].order = indexed[k].order
  BY <1>3, <1>5
<1>7. \A k \in DOMAIN indexed : indexed[k] = [order |-> indexed[k].order, name |-> indexed[k].name]
  BY DEF PlacesInv, Untangled
<1>8. indexed' = [k \in DOMAIN indexed' |->
                    [order |-> indexed'[k].order, name |-> indexed'[k].name]]
  BY <1>3, <1>4, <1>5, <1>7
<1>9. Untangled'
  BY <1>5, <1>6, <1>8 DEF Untangled, PlacesInv
<1> QED
  BY <1>5, <1>6, <1>9 DEF RowsMoved, PlacesInv

\* A reorder that is carried out hands out the places its lists had.
LEMMA ReorderLands ==
  ASSUME PlacesInv, NEW u, Rearranges(u), indexed' = ReorderOwnedSet(u)
  PROVE  DOMAIN indexed' = DOMAIN indexed /\ Untangled'
<1>1. CASE ~ DOMAIN u \subseteq DOMAIN indexed
  BY <1>1 DEF ReorderOwnedSet, PlacesInv, Untangled
<1>2. CASE DOMAIN u \subseteq DOMAIN indexed
  <2>1. /\ \A k, l \in DOMAIN u : u[k] = u[l] => k = l
        /\ \A k \in DOMAIN u : \E l \in DOMAIN u : u[k] = indexed[l].order
    BY <1>2 DEF Rearranges
  <2>2. indexed' = [l \in DOMAIN indexed |->
            IF l \in DOMAIN u THEN [indexed[l] EXCEPT !.order = u[l]] ELSE indexed[l]]
    BY <1>2 DEF ReorderOwnedSet
  <2>3. \A l \in DOMAIN indexed : indexed[l] = [order |-> indexed[l].order, name |-> indexed[l].name]
    BY DEF PlacesInv, Untangled
  <2>4. ASSUME NEW l \in DOMAIN indexed
        PROVE  indexed'[l] = [order |-> IF l \in DOMAIN u THEN u[l] ELSE indexed[l].order,
                              name |-> indexed[l].name]
    <3>1. PICK o, n : indexed[l] = [order |-> o, name |-> n]
      BY <2>3
    <3> QED
      BY <2>2, <3>1
  <2>5. DOMAIN indexed' = DOMAIN indexed
    BY <2>2
  <2>6. \A l \in DOMAIN indexed :
          indexed'[l].order = IF l \in DOMAIN u THEN u[l] ELSE indexed[l].order
    <3> TAKE l \in DOMAIN indexed
    <3>1. PICK o, n : o = (IF l \in DOMAIN u THEN u[l] ELSE indexed[l].order) /\ n = indexed[l].name
      OBVIOUS
    <3>2. indexed'[l] = [order |-> o, name |-> n]
      BY <2>4, <3>1
    <3> QED
      BY <3>1, <3>2
  <2>7. indexed' = [l \in DOMAIN indexed' |->
                      [order |-> indexed'[l].order, name |-> indexed'[l].name]]
    <3>1. \A l \in DOMAIN indexed' : indexed'[l] = [order |-> indexed'[l].order, name |-> indexed'[l].name]
      BY <2>4, <2>5
    <3>2. indexed' = [l \in DOMAIN indexed' |-> indexed'[l]]
      BY <2>2
    <3> QED
      BY <3>1, <3>2
  <2>8. \A l \in DOMAIN indexed' : indexed'[l].order \in Nat
    BY <1>2, <2>1, <2>5, <2>6 DEF PlacesInv, Untangled
  <2>9. ASSUME NEW k \in DOMAIN indexed, NEW l \in DOMAIN indexed,
               indexed'[k].order = indexed'[l].order
        PROVE  k = l
    <3>1. CASE k \in DOMAIN u /\ l \in DOMAIN u
      BY <2>1, <2>6, <2>9, <3>1
    <3>2. CASE k \notin DOMAIN u /\ l \notin DOMAIN u
      BY <2>6, <2>9, <3>2 DEF PlacesInv, Untangled
    <3>3. CASE k \in DOMAIN u /\ l \notin DOMAIN u
      <4>1. PICK m \in DOMAIN u : u[k] = indexed[m].order
        BY <2>1, <3>3
      <4>2. indexed[m].order = indexed[l].order
        BY <2>6, <2>9, <3>3, <4>1
      <4> QED
        BY <1>2, <3>3, <4>1, <4>2 DEF PlacesInv, Untangled
    <3>4. CASE k \notin DOMAIN u /\ l \in DOMAIN u
      <4>1. PICK m \in DOMAIN u : u[l] = indexed[m].order
        BY <2>1, <3>4
      <4>2. indexed[m].order = indexed[k].order
        BY <2>6, <2>9, <3>4, <4>1
      <4> QED
        BY <1>2, <3>4, <4>1, <4>2 DEF PlacesInv, Untangled
    <3> QED
      BY <3>1, <3>2, <3>3, <3>4
  <2> QED
    BY <2>5, <2>7, <2>8, <2>9 DEF Untangled
<1> QED
  BY <1>1, <1>2

\* What the check of a payload leaves of it: where the places in the cache are the
\* server's, those of a payload that fits are too, each once.
LEMMA PayloadRearranges ==
  ASSUME PlacesInv, NEW u, PayloadFits(u), PlacesServed(u)
  PROVE  Rearranges(u)
<1> DEFINE T == {i \in DOMAIN cached : cached[i].id \in DOMAIN u}
<1>1. CASE \E l \in DOMAIN u : l \notin DOMAIN indexed \cup NewIds
  BY <1>1 DEF Rearranges
<1>2. CASE ~ \E l \in DOMAIN u : l \notin DOMAIN indexed \cup NewIds
  <2>1. /\ DOMAIN u \subseteq DOMAIN indexed
        /\ \A i, k \in T : cached[i].order = cached[k].order => i = k
        /\ {cached[i].order : i \in T} = {indexed[l].order : l \in DOMAIN u}
    BY <1>2 DEF PlacesServed
  <2>2. \A p \in {u[l] : l \in DOMAIN u} :
          Cardinality({l \in DOMAIN u : u[l] = p}) = Cardinality({i \in T : cached[i].order = p})
    BY DEF PayloadFits
  <2>3. IsFiniteSet(DOMAIN u)
    BY <2>1, FS_Subset DEF PlacesInv
  <2> HIDE DEF T
  <2>4. ASSUME NEW k \in DOMAIN u
        PROVE  /\ \E l \in DOMAIN u : u[k] = indexed[l].order
               /\ \A l \in DOMAIN u : u[k] = u[l] => k = l
    <3> DEFINE A == {l \in DOMAIN u : u[l] = u[k]}
               B == {i \in T : cached[i].order = u[k]}
    <3>1. Cardinality(A) = Cardinality(B) /\ k \in A /\ IsFiniteSet(A)
      BY <2>2, <2>3, FS_Subset
    <3>2. Cardinality(A) # 0
      BY <3>1, FS_EmptySet
    <3>3. B # {}
      BY <3>1, <3>2, FS_EmptySet
    <3>4. PICK i \in T : B = {i} /\ cached[i].order = u[k]
      BY <2>1, <3>3
    <3>5. Cardinality(A) = 1
      BY <3>1, <3>4, FS_Singleton
    <3>6. \E x : A = {x}
      <4> HIDE DEF A
      <4> QED
        BY <3>1, <3>5, FS_Singleton
    <3>7. \A l \in DOMAIN u : u[k] = u[l] => k = l
      BY <3>6
    <3>8. u[k] \in {indexed[l].order : l \in DOMAIN u}
      BY <2>1, <3>4
    <3> QED
      BY <3>7, <3>8
  <2> QED
    BY <2>1, <2>4 DEF Rearranges
<1> QED
  BY <1>1, <1>2

\* The id of a new list.
LEMMA LeastId ==
  ASSUME NewIds # {}
  PROVE  Min(NewIds) \in NewIds
<1> DEFINE R == OpToRel(<, Nat)
<1>1. IsWellFoundedOn(R, Nat)
  BY NatLessThanWellFounded
<1>2. \A x, y \in Nat : <<y, x>> \in R <=> y < x
  BY DEF OpToRel
<1>3. NewIds \subseteq Nat
  BY IndexAssumption DEF NewIds
<1> HIDE DEF R
<1>4. PICK x \in NewIds : \A y \in NewIds : ~ (<<y, x>> \in R)
  BY <1>1, <1>3, WFMin
<1>5. ASSUME NEW y \in NewIds PROVE x =< y
  <2>1. x \in Nat /\ y \in Nat
    BY <1>3, <1>4
  <2>2. ~ (y < x)
    BY <1>2, <1>4, <2>1
  <2> QED
    BY <2>1, <2>2
<1> QED
  BY <1>4, <1>5 DEF Min

\* Two lists that change places.
LEMMA Swap ==
  ASSUME PlacesInv, NEW k \in DOMAIN indexed, NEW l \in DOMAIN indexed, k # l,
         indexed' = PlacesSwapped(k, l)
  PROVE  DOMAIN indexed' = DOMAIN indexed /\ Untangled'
<1>1. PICK ok, nk, ol, nl : /\ indexed[k] = [order |-> ok, name |-> nk]
                            /\ indexed[l] = [order |-> ol, name |-> nl]
                            /\ ok \in Nat /\ ol \in Nat
  BY DEF PlacesInv, Untangled
<1>2. PICK a : a = [indexed[k] EXCEPT !.order = indexed[l].order]
  OBVIOUS
<1>3. PICK b : b = [indexed[l] EXCEPT !.order = indexed[k].order]
  OBVIOUS
<1>4. a = [order |-> ol, name |-> nk] /\ b = [order |-> ok, name |-> nl]
  BY <1>1, <1>2, <1>3
<1>5. indexed' = [indexed EXCEPT ![k] = a, ![l] = b]
  BY <1>2, <1>3 DEF PlacesSwapped
<1>6. /\ DOMAIN indexed' = DOMAIN indexed /\ indexed'[k] = a /\ indexed'[l] = b
      /\ \A m \in DOMAIN indexed \ {k, l} : indexed'[m] = indexed[m]
      /\ indexed' = [m \in DOMAIN indexed |-> indexed'[m]]
  BY <1>5
<1>7. \A m \in DOMAIN indexed : indexed[m] = [order |-> indexed[m].order, name |-> indexed[m].name]
  BY DEF PlacesInv, Untangled
<1>8. \A m \in DOMAIN indexed' : indexed'[m] = [order |-> indexed'[m].order, name |-> indexed'[m].name]
  BY <1>4, <1>6, <1>7
<1>9. \A m \in DOMAIN indexed' : indexed'[m].order \in Nat
  BY <1>1, <1>4, <1>6 DEF PlacesInv, Untangled
<1>10. \A m, n \in DOMAIN indexed' : indexed'[m].order = indexed'[n].order => m = n
  BY <1>1, <1>4, <1>6 DEF PlacesInv, Untangled
<1> QED
  BY <1>6, <1>8, <1>9, <1>10 DEF Untangled

\* A write that starts, and is no reorder.
LEMMA WriteStarts ==
  ASSUME PlacesInv, NEW n, JobOk(n), n.kind # "reorder", jobs' = jobs \cup {n},
         indexed' = indexed, issued' = issued
  PROVE  PlacesInv'
<1>1. RowsMoved
  BY RowsKept
<1>2. \A j, k \in jobs' : j.kind = "reorder" /\ k.kind = "reorder" => j = k
  BY DEF PlacesInv
<1>3. \A j \in SentReorders' : j \in SentReorders
  BY DEF SentReorders
<1>4. \A j \in jobs' : JobOk(j)
  BY DEF PlacesInv
<1> QED
  BY <1>1, <1>2, <1>3, <1>4, PlacesStay

\* Writes that end.
LEMMA WritesEnd ==
  ASSUME PlacesInv, jobs' \subseteq jobs, indexed' = indexed, issued' = issued
  PROVE  PlacesInv'
<1>1. RowsMoved
  BY RowsKept
<1>2. /\ \A j, k \in jobs' : j.kind = "reorder" /\ k.kind = "reorder" => j = k
      /\ \A j \in jobs' : JobOk(j)
  BY DEF PlacesInv
<1>3. \A j \in SentReorders' : j \in SentReorders
  BY DEF SentReorders
<1> QED
  BY <1>1, <1>2, <1>3, PlacesStay

\* A click that writes.
LEMMA ClicksStart ==
  ASSUME PlacesInv, IndexCreate \/ IndexRename \/ IndexDelete \/ IndexDuplicate
  PROVE  PlacesInv'
<1>1. ASSUME NEW kind \in {"create", "duplicate", "rename", "delete"}, NEW id
      PROVE  JobOk(IndexJob(kind, id)) /\ IndexJob(kind, id).kind = kind
  BY DEF JobOk, IndexJob
<1>2. ASSUME NEW kind \in {"create", "duplicate", "rename", "delete"}, NEW id, NEW name
      PROVE  /\ JobOk([IndexJob(kind, id) EXCEPT !.name = name])
             /\ [IndexJob(kind, id) EXCEPT !.name = name].kind = kind
  <2>1. PICK a, x, u, v, b :
          IndexJob(kind, id) = [n |-> a, kind |-> kind, id |-> id, name |-> x, updates |-> u,
                                stage |-> "sent", before |-> b, view |-> v]
    BY DEF IndexJob
  <2>2. PICK m : m = [n |-> a, kind |-> kind, id |-> id, name |-> name, updates |-> u,
                      stage |-> "sent", before |-> b, view |-> v]
    OBVIOUS
  <2>3. [IndexJob(kind, id) EXCEPT !.name = name] = m
    BY <2>1, <2>2
  <2>4. JobOk(m) /\ m.kind = kind
    BY <2>2 DEF JobOk
  <2> QED
    BY <2>3, <2>4
<1>3. CASE IndexCreate
  <2>1. PICK name, rows : Starts([IndexJob("create", 0) EXCEPT !.name = name], rows)
    BY <1>3 DEF IndexCreate
  <2>2. PICK n : n = [IndexJob("create", 0) EXCEPT !.name = name]
    OBVIOUS
  <2>3. JobOk(n) /\ n.kind = "create"
    BY <1>2, <2>2
  <2> QED
    BY <2>1, <2>2, <2>3, WriteStarts DEF Starts
<1>4. CASE IndexRename
  <2>1. PICK id, name, rows : Starts([IndexJob("rename", id) EXCEPT !.name = name], rows)
    BY <1>4 DEF IndexRename
  <2>2. PICK n : n = [IndexJob("rename", id) EXCEPT !.name = name]
    OBVIOUS
  <2>3. JobOk(n) /\ n.kind = "rename"
    BY <1>2, <2>2
  <2> QED
    BY <2>1, <2>2, <2>3, WriteStarts DEF Starts
<1>5. CASE IndexDelete
  <2>1. PICK id, rows : Starts(IndexJob("delete", id), rows)
    BY <1>5 DEF IndexDelete
  <2>2. PICK n : n = IndexJob("delete", id)
    OBVIOUS
  <2>3. JobOk(n) /\ n.kind = "delete"
    BY <1>1, <2>2
  <2> QED
    BY <2>1, <2>2, <2>3, WriteStarts DEF Starts
<1>6. CASE IndexDuplicate
  <2>1. PICK id : /\ jobs' = jobs \cup {IndexJob("duplicate", id)}
                  /\ indexed' = indexed /\ issued' = issued
    BY <1>6 DEF IndexDuplicate
  <2>2. PICK n : n = IndexJob("duplicate", id)
    OBVIOUS
  <2>3. JobOk(n) /\ n.kind = "duplicate"
    BY <1>1, <2>2
  <2> QED
    BY <2>1, <2>2, <2>3, WriteStarts
<1> QED
  BY <1>3, <1>4, <1>5, <1>6

\* A drop sends a reorder of places that are the server's.
LEMMA DropStarts ==
  ASSUME PlacesInv, IndexDrop, ~ crossed'
  PROVE  PlacesInv'
<1>1. PICK from, to \in DOMAIN drawn :
        LET updates == UpdatesOf(MoveRow(drawn, from, to))
        IN /\ \A j \in jobs : j.kind # "reorder"
           /\ IF PayloadFits(updates)
              THEN /\ Starts([IndexJob("reorder", drawn[from].id) EXCEPT !.updates = updates,
                                                                  !.view = drawn],
                             Reordered(updates))
                   /\ crossed' = (crossed \/ ~PlacesServed(updates))
              ELSE UNCHANGED <<indexed, issued, jobs>>
  BY DEF IndexDrop
<1>2. PICK u : u = UpdatesOf(MoveRow(drawn, from, to))
  OBVIOUS
<1>3. CASE ~ PayloadFits(u)
  BY <1>1, <1>2, <1>3, WritesEnd
<1>4. CASE PayloadFits(u)
  <2>1. PICK n : n = [IndexJob("reorder", drawn[from].id) EXCEPT !.updates = u, !.view = drawn]
    OBVIOUS
  <2>2. JobOk(n) /\ n.kind = "reorder" /\ n.updates = u
    BY <2>1 DEF JobOk, IndexJob
  <2>3. /\ jobs' = jobs \cup {n} /\ indexed' = indexed /\ issued' = issued
        /\ \A j \in jobs : j.kind # "reorder"
        /\ PlacesServed(u)
    BY <1>1, <1>2, <1>4, <2>1 DEF Starts
  <2>4. Rearranges(u)
    BY <1>4, <2>3, PayloadRearranges
  <2>5. RowsMoved
    BY <2>3, RowsKept
  <2>6. /\ \A j, k \in jobs' : j.kind = "reorder" /\ k.kind = "reorder" => j = k
        /\ \A j \in jobs' : JobOk(j)
    BY <2>2, <2>3 DEF PlacesInv
  <2>7. \A j \in SentReorders' : j \in SentReorders \/ Rearranges(j.updates)
    BY <2>2, <2>3, <2>4 DEF SentReorders
  <2> QED
    BY <2>5, <2>6, <2>7, PlacesStay
<1> QED
  BY <1>3, <1>4

\* A write that is carried out, or refused.
LEMMA WriteLands ==
  ASSUME PlacesInv, IndexLand
  PROVE  PlacesInv'
<1>1. PICK j \in jobs :
        /\ j.stage = "sent" /\ indexed' = IndexAfter(j) /\ issued' = issued \cup DOMAIN indexed'
        /\ jobs' = (jobs \ {j}) \cup {[j EXCEPT !.stage = IF IndexRefuses(j) THEN "refused" ELSE "done"]}
  BY DEF IndexLand
<1>2. PICK s : s \in {"refused", "done"} /\ s = IF IndexRefuses(j) THEN "refused" ELSE "done"
  OBVIOUS
<1>3. PICK n : n = [j EXCEPT !.stage = s]
  OBVIOUS
<1>4. JobOk(j)
  BY DEF PlacesInv
<1>5. JobOk(n) /\ n.kind = j.kind /\ n.stage = s
  <2>1. PICK a, k, i, x, u, b, v :
          j = [n |-> a, kind |-> k, id |-> i, name |-> x, updates |-> u,
               stage |-> "sent", before |-> b, view |-> v]
    BY <1>1, <1>4 DEF JobOk
  <2>2. n = [n |-> a, kind |-> k, id |-> i, name |-> x, updates |-> u,
             stage |-> s, before |-> b, view |-> v]
    BY <1>3, <2>1
  <2> QED
    BY <1>4, <2>1, <2>2 DEF JobOk
<1>6. jobs' = (jobs \ {j}) \cup {n}
  BY <1>1, <1>2, <1>3
<1>7. /\ \A i, k \in jobs' : i.kind = "reorder" /\ k.kind = "reorder" => i = k
      /\ \A i \in jobs' : JobOk(i)
  BY <1>5, <1>6 DEF PlacesInv
<1>8. \A i \in SentReorders' : i \in SentReorders /\ i # j
  BY <1>2, <1>5, <1>6 DEF SentReorders
<1>9. CASE j.kind = "reorder"
  <2>1. j \in SentReorders /\ Rearranges(j.updates)
    BY <1>1, <1>9 DEF SentReorders, PlacesInv
  <2>2. indexed' = ReorderOwnedSet(j.updates)
    BY <1>1, <1>9 DEF IndexAfter
  <2>3. DOMAIN indexed' = DOMAIN indexed /\ Untangled'
    BY <2>1, <2>2, ReorderLands
  <2>4. SentReorders' = {}
    BY <1>8, <1>9, <2>1 DEF SentReorders, PlacesInv
  <2>5. IsFiniteSet(DOMAIN indexed') /\ DOMAIN indexed' \subseteq IndexedList \cap issued'
    BY <1>1, <2>3 DEF PlacesInv
  <2> QED
    BY <1>7, <2>3, <2>4, <2>5 DEF PlacesInv
<1>10. CASE j.kind # "reorder"
  <2>1. ASSUME indexed' = Made(j) PROVE RowsMoved
    <3>1. CASE indexed' = indexed
      BY <1>1, <3>1, RowsKept
    <3>2. CASE /\ NewIds # {}
               /\ \E name : indexed' = WithList(Min(NewIds), name)
      <4>1. Min(NewIds) \in NewIds
        BY <3>2, LeastId
      <4> QED
        BY <1>1, <3>2, <4>1, RowsMade
    <3> QED
      BY <2>1, <3>1, <3>2 DEF Made
  <2>2. RowsMoved
    <3>1. CASE indexed' = indexed
      BY <1>1, <3>1, RowsKept
    <3>2. CASE j.kind = "create"
      BY <1>1, <2>1, <3>2 DEF IndexAfter
    <3>3. CASE j.kind = "duplicate"
      BY <1>1, <2>1, <3>1, <3>3 DEF IndexAfter
    <3>4. CASE j.kind = "rename"
      BY <1>1, <3>1, <3>4, RowRenamed DEF IndexAfter
    <3>5. CASE j.kind = "delete"
      BY <1>1, <3>5, RowsGone DEF IndexAfter
    <3> QED
      BY <1>4, <1>10, <3>2, <3>3, <3>4, <3>5 DEF JobOk
  <2> QED
    BY <1>7, <1>8, <2>2, PlacesStay
<1> QED
  BY <1>9, <1>10

\* Another device makes a list, deletes one or moves one.
LEMMA OthersMove ==
  ASSUME PlacesInv, IndexOther, ~ crossed'
  PROVE  PlacesInv'
<1>1. jobs' = jobs /\ issued' = issued \cup DOMAIN indexed'
  BY DEF IndexOther, AnotherDevice
<1>2. /\ \A i, k \in jobs' : i.kind = "reorder" /\ k.kind = "reorder" => i = k
      /\ \A i \in jobs' : JobOk(i)
      /\ SentReorders' = SentReorders
  BY <1>1 DEF PlacesInv, SentReorders
<1>3. CASE \E l \in DOMAIN indexed : indexed' = [k \in DOMAIN indexed \ {l} |-> indexed[k]]
  BY <1>1, <1>2, <1>3, RowsGone, PlacesStay
<1>4. CASE \E l \in NewIds : \E name : indexed' = WithList(l, name)
  BY <1>1, <1>2, <1>4, RowsMade, PlacesStay
<1>5. CASE /\ \E k, l \in DOMAIN indexed : k < l /\ indexed' = PlacesSwapped(k, l)
           /\ crossed' = (crossed \/ \E j \in jobs : j.kind = "reorder" /\ j.stage = "sent")
  <2>1. PICK k, l \in DOMAIN indexed : k < l /\ indexed' = PlacesSwapped(k, l)
    BY <1>5
  <2>2. SentReorders' = {}
    BY <1>1, <1>5 DEF SentReorders
  <2>3. DOMAIN indexed' = DOMAIN indexed
    BY <2>1 DEF PlacesSwapped
  <2>4. k # l
    BY <2>1, IndexAssumption DEF PlacesInv
  <2>5. Untangled'
    BY <2>1, <2>4, Swap
  <2> QED
    BY <1>1, <1>2, <2>2, <2>3, <2>5 DEF PlacesInv
<1> QED
  BY <1>3, <1>4, <1>5 DEF IndexOther, AnotherDevice

\* Every step keeps the places apart until a reorder crosses another change of them.
LEMMA PlacesStep ==
  ASSUME PlacesInv, [IndexNext]_indexVars, ~ crossed'
  PROVE  PlacesInv'
<1>1. CASE IndexCreate \/ IndexRename \/ IndexDelete \/ IndexDuplicate
  BY <1>1, ClicksStart
<1>2. CASE IndexDrop
  BY <1>2, DropStarts
<1>3. CASE \/ IndexRendered \/ IndexDone \/ IndexFailed \/ IndexRead \/ IndexReadBack
           \/ IndexReadFailed \/ IndexVisit \/ UNCHANGED indexVars
  BY <1>3, WritesEnd DEF IndexRendered, IndexDone, IndexFailed, IndexRead, IndexReadBack,
     IndexReadFailed, IndexVisit, indexServer, indexVars
<1>4. CASE IndexLand
  BY <1>4, WriteLands
<1>5. CASE IndexOther
  BY <1>5, OthersMove
<1> QED
  BY <1>1, <1>2, <1>3, <1>4, <1>5 DEF IndexNext

\* A reorder that has crossed a change of places has done so for good.
LEMMA CrossedStays == [IndexNext]_indexVars /\ crossed => crossed'
BY DEF IndexNext, IndexCreate, IndexRename, IndexDelete, IndexDuplicate, IndexDrop, IndexRendered,
   IndexLand, IndexDone, IndexFailed, IndexRead, IndexReadBack, IndexReadFailed, IndexVisit,
   IndexOther, indexVars

\* What starts, starts no rest, and what ends is followed by a read.
LEMMA RestStep ==
  ASSUME RestInv, [IndexNext]_indexVars
  PROVE  RestInv'
<1>1. CASE IndexCreate \/ IndexRename \/ IndexDelete \/ IndexDuplicate
  <2>1. jobs' # {}
    BY <1>1 DEF IndexCreate, IndexRename, IndexDelete, IndexDuplicate, Starts
  <2> QED
    BY <2>1 DEF RestInv
<1>2. CASE IndexDrop
  <2>1. jobs' # {} \/ reread' = IndexAsked
    BY <1>2 DEF IndexDrop, Starts
  <2> QED
    BY <2>1 DEF RestInv, IndexAsked, NoIndexRead
<1>3. CASE IndexDone \/ IndexFailed \/ IndexVisit
  BY <1>3 DEF IndexDone, IndexFailed, IndexVisit, ReadIndexAgain, RestInv, IndexAsked, NoIndexRead
<1>4. CASE IndexLand
  <2>1. jobs' # {}
    BY <1>4 DEF IndexLand
  <2> QED
    BY <2>1 DEF RestInv
<1>5. CASE IndexOther
  BY <1>5 DEF IndexOther, AnotherDevice, RestInv
<1>6. CASE IndexRead \/ IndexReadBack \/ IndexReadFailed
  BY <1>6 DEF IndexRead, IndexReadBack, IndexReadFailed, RestInv, NoIndexRead, indexServer
<1>7. CASE IndexRendered \/ UNCHANGED indexVars
  BY <1>7 DEF IndexRendered, RestInv, indexVars, indexServer
<1> QED
  BY <1>1, <1>2, <1>3, <1>4, <1>5, <1>6, <1>7 DEF IndexNext

\* Two lists get one place only by a reorder that crossed another change of places, and a
\* page at rest has the rows of the server.
THEOREM IndexAtRest == IndexSpec => [](NoTies /\ IndexAgrees)
<1>1. IndexInit => IndexInv
  <2> SUFFICES ASSUME IndexInit PROVE IndexInv
    OBVIOUS
  <2>1. RestInv
    BY DEF IndexInit, RestInv, NoIndexRead
  <2>2. Untangled
    BY IndexAssumption DEF IndexInit, Untangled
  <2>3. PlacesInv
    BY <2>2, IndexAssumption DEF IndexInit, PlacesInv, SentReorders
  <2> QED
    BY <2>1, <2>3 DEF IndexInv
<1>2. IndexInv /\ [IndexNext]_indexVars => IndexInv'
  BY RestStep, PlacesStep, CrossedStays DEF IndexInv
<1>3. IndexInv => NoTies /\ IndexAgrees
  BY DEF IndexInv, RestInv, PlacesInv, Untangled, NoTies, IndexAgrees
<1> QED
  BY <1>1, <1>2, <1>3, PTL DEF IndexSpec

-----------------------------------------------------------------------------
(* A drag of the index                                                     *)

\* Places that are apart, in order.
Slots(slots, order, n) ==
  /\ \A i \in 1 .. n : slots[i] \in Nat /\ \E k \in 1 .. n : slots[i] = order[k]
  /\ \A i, j \in 1 .. n : i < j => slots[i] < slots[j]

\* The places to hand out (assignSortOrderSlots) are the ones the rows had, apart and
\* rising.
LEMMA SlotsAre ==
  ASSUME NEW n \in Nat, NEW order \in [1 .. n -> Nat],
         Apart(order, 1 .. n)
  PROVE  Slots(SortBy(order, order), order, n)
<1>0. PICK slots : slots = SortBy(order, order)
  OBVIOUS
<1>1. DOMAIN order = 1 .. n /\ order \in [1 .. n -> Int]
  OBVIOUS
<1>2. PICK at : /\ Picks(at, 1 .. n, n)
                /\ \A i, j \in 1 .. n : i < j => order[at[i]] <= order[at[j]]
                /\ slots = [i \in 1 .. n |-> order[at[i]]]
  <2>1. Sorts(slots, order, order, n)
    BY <1>0, <1>1, SortByIs
  <2> QED BY <2>1 DEF Sorts
<1>3. \A i \in 1 .. n : at[i] \in 1 .. n /\ slots[i] = order[at[i]]
  BY <1>2 DEF Picks
<1>4. \A i, j \in 1 .. n : i < j => slots[i] < slots[j]
  <2> TAKE i, j \in 1 .. n
  <2> HAVE i < j
  <2>1. PICK k \in 1 .. n, l \in 1 .. n : k = at[i] /\ l = at[j]
    BY <1>3
  <2>2. k # l
    BY <1>2, <2>1 DEF Picks
  <2>3. order[k] # order[l] /\ order[k] \in Nat /\ order[l] \in Nat
    BY <2>2 DEF Apart
  <2>4. order[k] <= order[l]
    BY <1>2, <2>1
  <2>5. slots[i] = order[k] /\ slots[j] = order[l]
    BY <1>3, <2>1
  <2> QED BY <2>3, <2>4, <2>5
<1> QED BY <1>0, <1>2, <1>3, <1>4 DEF Slots

\* The ids and the places of a list's rows.
HasRows(rows, id, order, n) ==
  DOMAIN rows = 1 .. n /\ \A i \in 1 .. n : rows[i].id = id[i] /\ rows[i].order = order[i]

\* u hands out the places of the rows, to the first row the first place.
HandsOut(u, id, order, n) ==
  /\ DOMAIN u = {id[i] : i \in 1 .. n}
  /\ \A i \in 1 .. n : u[id[i]] \in Nat /\ \E k \in 1 .. n : u[id[i]] = order[k]
  /\ \A i, j \in 1 .. n : i < j => u[id[i]] < u[id[j]]

\* The places rows have, handed out in their order: each list gets one of them, and a row
\* that comes first gets the earlier one.
LEMMA UpdatesAre ==
  ASSUME NEW n \in Nat, NEW id, NEW order \in [1 .. n -> Nat],
         NEW rows, HasRows(rows, id, order, n),
         Apart(id, 1 .. n), Apart(order, 1 .. n)
  PROVE  HandsOut(UpdatesOf(rows), id, order, n)
<1>u. PICK u : u = UpdatesOf(rows)
  OBVIOUS
<1>0. DOMAIN rows = 1 .. n /\ \A i \in 1 .. n : rows[i].id = id[i] /\ rows[i].order = order[i]
  BY DEF HasRows
<1>1. PICK slots : slots = AssignSortOrderSlots(rows)
  OBVIOUS
<1>2. slots = SortBy(order, order)
  <2>1. [i \in DOMAIN rows |-> rows[i].order] = order
    BY <1>0
  <2> QED BY <1>1, <2>1 DEF AssignSortOrderSlots
<1>3. /\ \A i \in 1 .. n : slots[i] \in Nat /\ \E k \in 1 .. n : slots[i] = order[k]
      /\ \A i, j \in 1 .. n : i < j => slots[i] < slots[j]
  BY <1>2, SlotsAre DEF Slots
<1>4. PICK which : which = [l \in {id[i] : i \in 1 .. n} |-> CHOOSE i \in 1 .. n : rows[i].id = l]
  OBVIOUS
<1>5. \A i \in 1 .. n : which[id[i]] = i
  <2> TAKE i \in 1 .. n
  <2>1. which[id[i]] = CHOOSE k \in 1 .. n : rows[k].id = id[i]
    BY <1>4
  <2>2. which[id[i]] \in 1 .. n /\ rows[which[id[i]]].id = id[i]
    BY <1>0, <2>1
  <2> QED BY <1>0, <2>2 DEF Apart
<1>6. /\ DOMAIN u = {id[i] : i \in 1 .. n}
      /\ \A l \in {id[i] : i \in 1 .. n} : u[l] = slots[which[l]]
  <2>1. PICK I : I = {id[i] : i \in 1 .. n}
    OBVIOUS
  <2>2. {rows[i].id : i \in DOMAIN rows} = I
    BY <1>0, <2>1
  <2>3. u = [l \in {rows[i].id : i \in DOMAIN rows} |-> slots[CHOOSE i \in DOMAIN rows : rows[i].id = l]]
    BY <1>1, <1>u DEF UpdatesOf
  <2>4. u = [l \in I |-> slots[CHOOSE i \in 1 .. n : rows[i].id = l]]
    BY <1>0, <2>2, <2>3
  <2>5. ASSUME NEW l \in I PROVE u[l] = slots[which[l]]
    <3>1. PICK k : k = CHOOSE i \in 1 .. n : rows[i].id = l
      OBVIOUS
    <3>2. u[l] = slots[CHOOSE i \in 1 .. n : rows[i].id = l]
      BY <2>4
    <3>3. which[l] = CHOOSE i \in 1 .. n : rows[i].id = l
      BY <1>4, <2>1
    <3>4. u[l] = slots[k] /\ which[l] = k
      BY <3>1, <3>2, <3>3, Zenon
    <3> QED BY <3>4
  <2>6. DOMAIN u = I /\ \A l \in I : u[l] = slots[which[l]]
    BY <2>4, <2>5
  <2> QED BY <2>1, <2>6
<1>7. \A i \in 1 .. n : u[id[i]] = slots[i]
  BY <1>5, <1>6
<1>8. DOMAIN u = {id[i] : i \in 1 .. n}
  BY <1>6
<1>9. \A i \in 1 .. n : u[id[i]] \in Nat /\ \E k \in 1 .. n : u[id[i]] = order[k]
  <2> TAKE i \in 1 .. n
  <2>1. u[id[i]] = slots[i]
    BY <1>7
  <2> QED BY <1>3, <2>1
<1>10. \A i, j \in 1 .. n : i < j => u[id[i]] < u[id[j]]
  <2> TAKE i, j \in 1 .. n
  <2>1. u[id[i]] = slots[i] /\ u[id[j]] = slots[j]
    BY <1>7
  <2> QED BY <1>3, <2>1
<1> QED BY <1>u, <1>8, <1>9, <1>10 DEF HandsOut

\* read is the rows of S, each once, in the order of their places.
ReadAs(read, rows, S, order) ==
  \E at, n : /\ n = Cardinality(S) /\ Picks(at, S, n)
             /\ read = [i \in 1 .. n |-> [id |-> at[i], order |-> rows[at[i]].order,
                                         name |-> rows[at[i]].name]]
             /\ \A i, j \in 1 .. n : order[at[i]] < order[at[j]] => i < j

\* The rows of the server, as they are read: each once, in the order of their places.
LEMMA ListRowsAre ==
  ASSUME NEW rows, NEW S, S = DOMAIN rows, IsFiniteSet(S), S \subseteq Int,
         NEW order \in [S -> Int], \A l \in S : rows[l].order = order[l]
  PROVE  ReadAs(ListRows(rows), rows, S, order)
<1>1. PICK before : before = {p \in S \X S : order[p[1]] < order[p[2]] \/ (order[p[1]] = order[p[2]] /\ p[1] < p[2])}
  OBVIOUS
<1>2. PICK at : at = InOrder(S, before)
  OBVIOUS
<1>3. PICK n : n = Cardinality(S) /\ n \in Nat
  BY FS_CardinalityType
<1>4. \A i, j \in S : <<i, j>> \in before <=> order[i] < order[j] \/ (order[i] = order[j] /\ i < j)
  BY <1>1
<1>5. Orders(before, S)
  <2>2. ASSUME NEW x \in S PROVE <<x, x>> \notin before
    <3>1. PICK a \in Int : order[x] = a
      OBVIOUS
    <3> QED BY <1>4, <3>1
  <2>3. ASSUME NEW x \in S, NEW y \in S, x # y PROVE <<x, y>> \in before \/ <<y, x>> \in before
    <3>1. PICK a \in Int, b \in Int : order[x] = a /\ order[y] = b
      OBVIOUS
    <3>2. x \in Int /\ y \in Int
      OBVIOUS
    <3> QED BY <1>4, <2>3, <3>1, <3>2
  <2>4. ASSUME NEW x \in S, NEW y \in S, NEW z \in S, <<x, y>> \in before, <<y, z>> \in before
        PROVE  <<x, z>> \in before
    <3>1. PICK a \in Int, b \in Int, c \in Int : order[x] = a /\ order[y] = b /\ order[z] = c
      OBVIOUS
    <3>2. (a < b \/ (a = b /\ x < y)) /\ (b < c \/ (b = c /\ y < z))
      BY <1>4, <2>4, <3>1
    <3>3. x \in Int /\ y \in Int /\ z \in Int
      OBVIOUS
    <3>4. a < c \/ (a = c /\ x < z)
      BY <3>2, <3>3
    <3> QED BY <1>4, <3>1, <3>4
  <2> QED BY <2>2, <2>3, <2>4 DEF Orders
<1>6. /\ at \in [1 .. n -> S]
      /\ \A k \in S : \E i \in 1 .. n : at[i] = k
      /\ \A i, j \in 1 .. n : <<at[i], at[j]>> \in before <=> i < j
  <2>1. IsFiniteSet(S)
    OBVIOUS
  <2>2. /\ InOrder(S, before) \in [1 .. Cardinality(S) -> S]
        /\ \A x \in S : \E i \in 1 .. Cardinality(S) : InOrder(S, before)[i] = x
        /\ \A i, j \in 1 .. Cardinality(S) :
             <<InOrder(S, before)[i], InOrder(S, before)[j]>> \in before <=> i < j
    BY ONLY <1>5, <2>1, InOrderIs
  <2> QED BY <1>2, <1>3, <2>2, Zenon
<1>7. \A i, j \in 1 .. n : order[at[i]] < order[at[j]] => i < j
  BY <1>4, <1>6
<1>8. \A i, j \in 1 .. n : at[i] = at[j] => i = j
  <2> SUFFICES ASSUME NEW i \in 1 .. n, NEW j \in 1 .. n, at[i] = at[j] PROVE i = j
    OBVIOUS
  <2>1. <<at[i], at[j]>> \notin before /\ <<at[j], at[i]>> \notin before
    BY <1>5, <1>6 DEF Orders
  <2> QED BY <1>3, <1>6, <2>1
<1>9. Picks(at, S, n)
  BY <1>3, <1>6, <1>8 DEF Picks
<1>10. ListRows(rows) = [i \in 1 .. n |-> [id |-> at[i], order |-> rows[at[i]].order, name |-> rows[at[i]].name]]
  <2>1. before = {p \in (DOMAIN rows) \X (DOMAIN rows) :
                    rows[p[1]].order < rows[p[2]].order
                      \/ (rows[p[1]].order = rows[p[2]].order /\ p[1] < p[2])}
    BY <1>1
  <2>2. at = InOrder(DOMAIN rows, before) /\ DOMAIN at = 1 .. n
    BY <1>2, <1>6
  <2> QED BY <2>1, <2>2 DEF ListRows
<1> QED BY <1>3, <1>7, <1>9, <1>10 DEF ReadAs

\* A row of a copy of the index; a list not yet created has an id below zero.
IndexRow == [id : Int, order : Nat, name : Named]

\* A copy of the rows: no list is in it twice.
Copy(rows) == rows \in Seq(IndexRow) /\ Apart(Ids(rows), DOMAIN rows)

\* What a drag hands out: row i of the rows it was planned on gets the place w[i], one of
\* those they have, and p is where the rows now stand.
DragPlan(u, rows, from, to, n, p, w) ==
  /\ n \in Nat /\ Carries(p, n, from, to) /\ w \in [1 .. n -> Nat]
  /\ DOMAIN u = {rows[i].id : i \in 1 .. n}
  /\ \A i \in 1 .. n : u[rows[i].id] = w[i] /\ \E k \in 1 .. n : w[i] = rows[k].order
  /\ \A i, j \in 1 .. n : i < j => w[p[i]] < w[p[j]]

\* What a drag of rows in distinct places plans.
LEMMA PlanMade ==
  ASSUME NEW rows, Copy(rows), Untied(rows), NEW from \in DOMAIN rows, NEW to \in DOMAIN rows
  PROVE  \E p, w : DragPlan(UpdatesOf(MoveRow(rows, from, to)), rows, from, to, Len(rows), p, w)
<1>1. rows \in Seq(IndexRow)
  BY DEF Copy
<1>2. PICK n : n \in Nat /\ n = Len(rows) /\ DOMAIN rows = 1 .. n
  BY <1>1
<1>3. \A i \in 1 .. n : rows[i] \in IndexRow
  BY <1>1, <1>2
<1>4. \A i \in 1 .. n : rows[i].id \in Int /\ rows[i].order \in Nat
  BY <1>3 DEF IndexRow
<1>5. PICK p : Carries(p, n, from, to) /\ MoveRow(rows, from, to) = [i \in 1 .. n |-> rows[p[i]]]
  <2>1. Moved(MoveRow(rows, from, to), rows, from, to, n)
    BY <1>1, <1>2, ArrayMoveIs DEF MoveRow
  <2> QED BY <2>1 DEF Moved
<1>6. PICK moved : moved = MoveRow(rows, from, to)
  OBVIOUS
<1>7. /\ \A i \in 1 .. n : p[i] \in 1 .. n
      /\ \A i, j \in 1 .. n : p[i] = p[j] => i = j
      /\ \A k \in 1 .. n : \E i \in 1 .. n : p[i] = k
  BY <1>5 DEF Carries
<1>8. DOMAIN moved = 1 .. n /\ \A i \in 1 .. n : moved[i] = rows[p[i]]
  BY <1>5, <1>6
<1>9. PICK id : id = [i \in 1 .. n |-> rows[p[i]].id]
  OBVIOUS
<1>10. PICK order : order = [i \in 1 .. n |-> rows[p[i]].order]
  OBVIOUS
<1>11. order \in [1 .. n -> Nat] /\ \A i \in 1 .. n : moved[i].id = id[i] /\ moved[i].order = order[i]
  BY <1>4, <1>7, <1>8, <1>9, <1>10
<1>12. Apart(id, 1 .. n)
  <2>1. \A i, j \in 1 .. n : rows[i].id = rows[j].id => i = j
    BY <1>2 DEF Copy, Apart, Ids
  <2>2. ASSUME NEW i \in 1 .. n, NEW j \in 1 .. n, id[i] = id[j] PROVE i = j
    <3>1. PICK k \in 1 .. n, l \in 1 .. n : k = p[i] /\ l = p[j]
      BY <1>7
    <3>2. rows[k].id = rows[l].id
      BY <1>9, <2>2, <3>1
    <3> QED BY <1>7, <2>1, <3>1, <3>2
  <2> QED BY <2>2 DEF Apart
<1>13. Apart(order, 1 .. n)
  <2>1. \A i, j \in 1 .. n : rows[i].order = rows[j].order => i = j
    BY <1>2 DEF Untied
  <2>2. ASSUME NEW i \in 1 .. n, NEW j \in 1 .. n, order[i] = order[j] PROVE i = j
    <3>1. PICK k \in 1 .. n, l \in 1 .. n : k = p[i] /\ l = p[j]
      BY <1>7
    <3>2. rows[k].order = rows[l].order
      BY <1>10, <2>2, <3>1
    <3> QED BY <1>7, <2>1, <3>1, <3>2
  <2> QED BY <2>2 DEF Apart
<1>14. PICK u : u = UpdatesOf(moved)
  OBVIOUS
<1>15. /\ DOMAIN u = {id[i] : i \in 1 .. n}
       /\ \A i \in 1 .. n : u[id[i]] \in Nat /\ \E k \in 1 .. n : u[id[i]] = order[k]
       /\ \A i, j \in 1 .. n : i < j => u[id[i]] < u[id[j]]
  <2>1. HasRows(moved, id, order, n)
    BY <1>8, <1>11 DEF HasRows
  <2>2. order \in [1 .. n -> Nat]
    BY <1>11
  <2>3. HandsOut(u, id, order, n)
    BY <1>2, <1>12, <1>13, <1>14, <2>1, <2>2, UpdatesAre
  <2> QED BY <2>3 DEF HandsOut
<1>16. PICK w : w = [i \in 1 .. n |-> u[rows[i].id]]
  OBVIOUS
<1>17. \A i \in 1 .. n : w[p[i]] = u[id[i]]
  BY <1>7, <1>9, <1>16
<1>18. \A i, j \in 1 .. n : i < j => w[p[i]] < w[p[j]]
  BY <1>15, <1>17
<1>19. ASSUME NEW k \in 1 .. n
       PROVE  w[k] \in Nat /\ u[rows[k].id] = w[k] /\ \E m \in 1 .. n : w[k] = rows[m].order
  <2>1. PICK i \in 1 .. n : p[i] = k
    BY <1>7
  <2>2. w[k] = u[id[i]]
    BY <1>17, <2>1
  <2>3. PICK j \in 1 .. n : u[id[i]] = order[j]
    BY <1>15
  <2>4. p[j] \in 1 .. n /\ order[j] = rows[p[j]].order
    BY <1>7, <1>10
  <2>5. u[rows[k].id] = w[k]
    BY <1>16
  <2> QED BY <1>15, <2>2, <2>3, <2>4, <2>5
<1>20. w \in [1 .. n -> Nat]
  BY <1>16, <1>19
<1>21. DOMAIN u = {rows[i].id : i \in 1 .. n}
  <2>1. {id[i] : i \in 1 .. n} = {rows[i].id : i \in 1 .. n}
    BY <1>7, <1>9
  <2> QED BY <1>15, <2>1
<1>22. DragPlan(u, rows, from, to, n, p, w)
  BY <1>2, <1>5, <1>18, <1>19, <1>20, <1>21 DEF DragPlan
<1> QED BY <1>2, <1>6, <1>14, <1>22

\* A drop on the rows as they are cached is taken, and shows.
LEMMA DropShows ==
  ASSUME NEW rows, rows = cached, Copy(rows), Untied(rows),
         NEW from \in DOMAIN rows, NEW to \in DOMAIN rows, from # to,
         NEW u, u = UpdatesOf(MoveRow(rows, from, to))
  PROVE  PayloadFits(u) /\ Ids(Reordered(u)) # Ids(rows)
<1>1. PICK n, p, w : n = Len(rows) /\ DragPlan(u, rows, from, to, n, p, w)
  BY PlanMade
<1>2. rows \in Seq(IndexRow) /\ n \in Nat /\ DOMAIN rows = 1 .. n
  BY <1>1 DEF Copy
<1>3. \A i \in 1 .. n : rows[i] \in IndexRow
  BY <1>1, <1>2
<1>4. \A i \in 1 .. n : rows[i].id \in Int /\ rows[i].order \in Nat
  BY <1>3 DEF IndexRow
<1>5. /\ \A i, j \in 1 .. n : rows[i].id = rows[j].id => i = j
      /\ \A i, j \in 1 .. n : rows[i].order = rows[j].order => i = j
  BY <1>2 DEF Copy, Apart, Ids, Untied
<1>6. /\ Carries(p, n, from, to) /\ w \in [1 .. n -> Nat]
      /\ DOMAIN u = {rows[i].id : i \in 1 .. n}
      /\ \A i \in 1 .. n : u[rows[i].id] = w[i] /\ \E k \in 1 .. n : w[i] = rows[k].order
      /\ \A i, j \in 1 .. n : i < j => w[p[i]] < w[p[j]]
  BY <1>1 DEF DragPlan
<1>7. \A i, j \in 1 .. n : w[i] = w[j] => i = j
  <2> TAKE k, l \in 1 .. n
  <2> HAVE w[k] = w[l]
  <2>1. PICK i \in 1 .. n : p[i] = k
    BY <1>6 DEF Carries
  <2>2. PICK j \in 1 .. n : p[j] = l
    BY <1>6 DEF Carries
  <2>3. w[p[i]] = w[p[j]] /\ w[p[i]] \in Nat
    BY <1>6, <2>1, <2>2
  <2>4. ~ (i < j) /\ ~ (j < i)
    <3>1. PICK a \in Nat : a = w[p[i]] /\ a = w[p[j]]
      BY <2>3
    <3>2. (i < j => a < a) /\ (j < i => a < a)
      BY <1>6, <3>1
    <3> QED BY <3>2
  <2> QED BY <1>2, <2>1, <2>2, <2>4
<1>8. {i \in DOMAIN cached : cached[i].id \in DOMAIN u} = 1 .. n
  BY <1>2, <1>6
<1>9. PayloadFits(u)
  <2>1. DOMAIN u = {cached[i].id : i \in 1 .. n}
    BY <1>6
  <2>2. ASSUME NEW l \in DOMAIN u
        PROVE  Cardinality({k \in DOMAIN u : u[k] = u[l]})
                 = Cardinality({k \in 1 .. n : cached[k].order = u[l]})
    <3>1. PICK i \in 1 .. n : rows[i].id = l
      BY <1>6
    <3>2. PICK k \in 1 .. n : w[i] = rows[k].order
      BY <1>6
    <3>3. u[l] = w[i]
      BY <1>6, <3>1
    <3>4. {m \in DOMAIN u : u[m] = u[l]} = {l}
      <4>1. ASSUME NEW m \in DOMAIN u, u[m] = u[l] PROVE m = l
        <5>1. PICK j \in 1 .. n : rows[j].id = m
          BY <1>6
        <5>2. w[j] = w[i]
          BY <1>6, <3>3, <4>1, <5>1
        <5> QED BY <1>7, <3>1, <5>1, <5>2
      <4> QED BY <4>1
    <3>5. {m \in 1 .. n : cached[m].order = u[l]} = {k}
      BY <1>5, <3>2, <3>3
    <3> QED BY <3>4, <3>5, FS_Singleton
  <2>3. \A place \in {u[l] : l \in DOMAIN u} :
          Cardinality({l \in DOMAIN u : u[l] = place})
            = Cardinality({i \in 1 .. n : cached[i].order = place})
    BY <2>2
  <2> QED BY <1>8, <2>1, <2>3 DEF PayloadFits
<1>10. PICK moved : moved = [i \in DOMAIN cached |->
          IF cached[i].id \in DOMAIN u
            THEN [cached[i] EXCEPT !.order = u[cached[i].id]] ELSE cached[i]]
  OBVIOUS
<1>11. DOMAIN moved = 1 .. n
  BY <1>2, <1>10
<1>12. ASSUME NEW i \in 1 .. n PROVE moved[i].id = rows[i].id /\ moved[i].order = w[i]
  <2>1. PICK a, b, c : rows[i] = [id |-> a, order |-> b, name |-> c]
    BY <1>3 DEF IndexRow
  <2>2. rows[i].id \in DOMAIN u /\ u[rows[i].id] = w[i]
    BY <1>6
  <2>3. moved[i] = [rows[i] EXCEPT !.order = w[i]]
    BY <1>2, <1>10, <2>2
  <2>4. moved[i] = [id |-> a, order |-> w[i], name |-> c]
    BY <2>1, <2>3
  <2> QED BY <2>1, <2>4
<1>13. [i \in DOMAIN moved |-> moved[i].order] = w
  <2>1. PICK f : f = [i \in DOMAIN moved |-> moved[i].order]
    OBVIOUS
  <2>2. DOMAIN f = 1 .. n /\ \A i \in 1 .. n : f[i] = w[i]
    BY <1>11, <1>12, <2>1
  <2>3. f = w
    BY <1>6, <2>1, <2>2
  <2> QED BY <2>1, <2>3
<1>14. PICK listed : listed = Reordered(u)
  OBVIOUS
<1>15. listed = SortBy(moved, w)
  BY <1>10, <1>13, <1>14 DEF Reordered
<1>16. Sorts(listed, moved, w, n)
  <2>1. w \in [1 .. n -> Int]
    BY <1>6
  <2> QED BY <1>2, <1>11, <1>15, <2>1, SortByIs
<1>17. PICK at : /\ Picks(at, 1 .. n, n)
                 /\ \A i, j \in 1 .. n : i < j => w[at[i]] <= w[at[j]]
                 /\ listed = [i \in 1 .. n |-> moved[at[i]]]
  BY <1>16 DEF Sorts
<1>18. ASSUME Ids(listed) = Ids(rows) PROVE FALSE
  <2>1. \A i \in 1 .. n : listed[i].id = rows[i].id
    <3>1. DOMAIN listed = 1 .. n
      BY <1>17
    <3> QED BY <1>2, <1>18, <3>1 DEF Ids
  <2>2. \A i \in 1 .. n : at[i] = i
    <3> TAKE i \in 1 .. n
    <3>1. at[i] \in 1 .. n /\ listed[i] = moved[at[i]]
      BY <1>17 DEF Picks
    <3>2. rows[at[i]].id = rows[i].id
      BY <1>12, <2>1, <3>1
    <3> QED BY <1>5, <3>1, <3>2
  <2>3. \A i, j \in 1 .. n : i < j => w[i] <= w[j]
    BY <1>17, <2>2
  <2>4. from \in 1 .. n /\ to \in 1 .. n /\ from # to
    BY <1>2
  <2>5. PICK q \in (1 .. n) \ {to} : p[q] = to /\ (from < to <=> q < to)
    BY <1>6, <2>4 DEF Carries
  <2>6. p[to] = from
    BY <1>6 DEF Carries
  <2>7. w[from] \in Nat /\ w[to] \in Nat
    BY <1>6, <2>4
  <2>8. CASE from < to
    <3>1. w[from] <= w[to]
      BY <2>3, <2>4, <2>8
    <3>2. w[p[q]] < w[p[to]]
      BY <1>6, <2>4, <2>5, <2>8
    <3> QED BY <2>5, <2>6, <2>7, <3>1, <3>2
  <2>9. CASE to < from
    <3>1. w[to] <= w[from]
      BY <2>3, <2>4, <2>9
    <3>2. to < q
      BY <2>4, <2>5, <2>9
    <3>3. w[p[to]] < w[p[q]]
      BY <1>6, <2>4, <2>5, <3>2
    <3> QED BY <2>5, <2>6, <2>7, <3>1, <3>3
  <2> QED BY <2>4, <2>8, <2>9
<1> QED BY <1>9, <1>14, <1>18

\* Rows of the server: ids and places are numbers.
Rows(rows) == IsFiniteSet(DOMAIN rows) /\ rows \in [DOMAIN rows -> [order : Nat, name : Named]]
                /\ DOMAIN rows \subseteq Nat \ {0}

\* ids in the order of their places.
IdsInOrder(ids, rows) ==
  /\ ids \in [1 .. Cardinality(DOMAIN rows) -> DOMAIN rows]
  /\ \A l \in DOMAIN rows : \E i \in DOMAIN ids : ids[i] = l
  /\ \A i, j \in DOMAIN ids : ids[i] = ids[j] => i = j
  /\ \A i, j \in DOMAIN ids : rows[ids[i]].order < rows[ids[j]].order => i < j

\* What the server answers to a read of the index: a copy, with the ids in their places.
LEMMA ReadInOrder ==
  ASSUME NEW rows, Rows(rows)
  PROVE  Cardinality(DOMAIN rows) \in Nat /\ Copy(ListRows(rows)) /\ IdsInOrder(Ids(ListRows(rows)), rows)
         /\ \A i \in DOMAIN ListRows(rows) : ListRows(rows)[i].id > 0
<1>1. PICK S : S = DOMAIN rows
  OBVIOUS
<1>2. /\ IsFiniteSet(S) /\ S \subseteq Nat \ {0} /\ S \subseteq Int
      /\ rows \in [S -> [order : Nat, name : Named]]
  BY <1>1 DEF Rows
<1>3. PICK order : order = [l \in S |-> rows[l].order]
  OBVIOUS
<1>4. \A l \in S : rows[l] \in [order : Nat, name : Named]
  BY <1>2
<1>5. order \in [S -> Int] /\ \A l \in S : rows[l].order = order[l]
  <2>1. \A l \in S : rows[l].order \in Int
    BY <1>4
  <2> QED BY <1>3, <2>1
<1>6. PICK at, n : /\ n = Cardinality(S) /\ Picks(at, S, n)
                   /\ ListRows(rows) = [i \in 1 .. n |-> [id |-> at[i], order |-> rows[at[i]].order,
                                                          name |-> rows[at[i]].name]]
                   /\ \A i, j \in 1 .. n : order[at[i]] < order[at[j]] => i < j
  <2>1. S \subseteq Int /\ order \in [S -> Int] /\ \A l \in S : rows[l].order = order[l]
    BY <1>2, <1>5
  <2>2. ReadAs(ListRows(rows), rows, S, order)
    BY <1>1, <1>2, <2>1, ListRowsAre
  <2> QED BY <2>2 DEF ReadAs
<1>7. PICK read : read = ListRows(rows)
  OBVIOUS
<1>8. /\ n \in Nat /\ at \in [1 .. n -> S]
      /\ \A k \in S : \E i \in 1 .. n : at[i] = k
      /\ \A i, j \in 1 .. n : at[i] = at[j] => i = j
  BY <1>6 DEF Picks
<1>9. \A i \in 1 .. n : read[i] = [id |-> at[i], order |-> rows[at[i]].order, name |-> rows[at[i]].name]
  BY <1>6, <1>7
<1>10. ASSUME NEW i \in 1 .. n PROVE read[i].id = at[i] /\ read[i] \in IndexRow
  <2>1. PICK l \in S : l = at[i]
    BY <1>8
  <2>2. PICK o \in Nat, m \in Named : rows[l] = [order |-> o, name |-> m]
    BY <1>4
  <2>3. read[i] = [id |-> l, order |-> o, name |-> m] /\ l \in Int
    BY <1>2, <1>9, <2>1, <2>2
  <2> QED BY <2>1, <2>3 DEF IndexRow
<1>11. DOMAIN read = 1 .. n /\ read = [i \in 1 .. n |-> read[i]]
  BY <1>6, <1>7
<1>12. read \in Seq(IndexRow)
  BY <1>8, <1>10, <1>11
<1>13. Ids(read) = at
  <2>1. PICK f : f = Ids(read)
    OBVIOUS
  <2>2. DOMAIN f = 1 .. n /\ \A i \in 1 .. n : f[i] = at[i]
    BY <1>10, <1>11, <2>1 DEF Ids
  <2>3. f = [i \in 1 .. n |-> f[i]]
    BY <1>11, <2>1 DEF Ids
  <2>4. f = at
    BY <1>8, <2>2, <2>3
  <2> QED BY <2>1, <2>4
<1>14. Copy(read)
  BY <1>8, <1>11, <1>12, <1>13 DEF Copy, Apart
<1>15. IdsInOrder(at, rows)
  <2>1. DOMAIN at = 1 .. n
    BY <1>8
  <2>2. ASSUME NEW i \in 1 .. n, NEW j \in 1 .. n, rows[at[i]].order < rows[at[j]].order PROVE i < j
    <3>1. order[at[i]] = rows[at[i]].order /\ order[at[j]] = rows[at[j]].order
      BY <1>5, <1>8
    <3> QED BY <1>6, <2>2, <3>1
  <2> QED BY <1>1, <1>6, <1>8, <2>1, <2>2 DEF IdsInOrder
<1>16. \A i \in 1 .. n : read[i].id > 0
  <2> TAKE i \in 1 .. n
  <2>1. at[i] \in Nat \ {0}
    BY <1>2, <1>8
  <2> QED BY <1>10, <2>1
<1> QED BY <1>1, <1>6, <1>7, <1>8, <1>11, <1>13, <1>14, <1>15, <1>16

\* A reorder that lands where it was planned leaves the lists it did not move in order.
LEMMA OthersStay ==
  ASSUME Rows(indexed), NEW view, Copy(view), Untied(view), Ids(view) = Ids(ListRows(indexed)),
         NEW from \in DOMAIN view, NEW to \in DOMAIN view,
         NEW u, u = UpdatesOf(MoveRow(view, from, to)),
         NEW after, after = ReorderOwnedSet(u), Rows(after)
  PROVE  LET was == Ids(view)
             is  == Ids(ListRows(after))
         IN  /\ DOMAIN is = DOMAIN was
             /\ \A a \in DOMAIN was : \E c \in DOMAIN is : is[c] = was[a]
             /\ \A a, b \in DOMAIN was, c, d \in DOMAIN is :
                  was[a] = is[c] /\ was[b] = is[d] /\ view[from].id \notin {was[a], was[b]} =>
                    (a < b <=> c < d)
<1>1. PICK n, p, w : n = Len(view) /\ DragPlan(u, view, from, to, n, p, w)
  BY PlanMade
<1>2. view \in Seq(IndexRow) /\ n \in Nat /\ DOMAIN view = 1 .. n
  BY <1>1 DEF Copy
<1>3. PICK was : was = Ids(view) /\ DOMAIN was = 1 .. n /\ \A i \in 1 .. n : was[i] = view[i].id
  BY <1>2 DEF Ids
<1>4. /\ Carries(p, n, from, to) /\ w \in [1 .. n -> Nat]
      /\ DOMAIN u = {view[i].id : i \in 1 .. n}
      /\ \A i \in 1 .. n : u[view[i].id] = w[i]
      /\ \A i, j \in 1 .. n : i < j => w[p[i]] < w[p[j]]
  BY <1>1 DEF DragPlan
<1>5. PICK S : S = DOMAIN indexed
  OBVIOUS
<1>6. Cardinality(S) \in Nat /\ IdsInOrder(was, indexed)
  BY <1>3, <1>5, ReadInOrder
<1>7. /\ was \in [1 .. Cardinality(S) -> S]
      /\ \A l \in S : \E i \in 1 .. n : was[i] = l
      /\ \A i, j \in 1 .. n : was[i] = was[j] => i = j
  BY <1>3, <1>5, <1>6 DEF IdsInOrder
<1>8. Cardinality(S) = n
  BY <1>2, <1>3, <1>6, <1>7
<1>9. DOMAIN u = S
  BY <1>3, <1>4, <1>7, <1>8
<1>10. after = [l \in S |-> [indexed[l] EXCEPT !.order = u[l]]]
  BY <1>5, <1>9 DEF ReorderOwnedSet
<1>11. ASSUME NEW i \in 1 .. n PROVE was[i] \in S /\ after[was[i]].order = w[i]
  <2>1. PICK l \in S : l = was[i]
    BY <1>7, <1>8
  <2>2. indexed[l] \in [order : Nat, name : Named]
    BY <1>5 DEF Rows
  <2>3. PICK o, m : indexed[l] = [order |-> o, name |-> m]
    BY <2>2
  <2>4. after[l] = [indexed[l] EXCEPT !.order = u[l]]
    BY <1>10
  <2>5. after[l] = [order |-> u[l], name |-> m]
    BY <2>3, <2>4
  <2>6. u[l] = w[i]
    BY <1>3, <1>4, <2>1
  <2> QED BY <2>1, <2>5, <2>6
<1>12. DOMAIN after = S
  BY <1>10
<1>13. PICK is : is = Ids(ListRows(after))
  OBVIOUS
<1>14. /\ DOMAIN is = 1 .. n
       /\ \A a \in 1 .. n : \E c \in 1 .. n : is[c] = was[a]
       /\ \A i, j \in 1 .. n : is[i] = is[j] => i = j
       /\ \A i, j \in 1 .. n : after[is[i]].order < after[is[j]].order => i < j
  <2>1. IdsInOrder(is, after)
    BY <1>13, ReadInOrder
  <2>2. \A a \in 1 .. n : was[a] \in S
    BY <1>7, <1>8
  <2> QED BY <1>8, <1>12, <2>1, <2>2 DEF IdsInOrder
<1>15. ASSUME NEW a \in 1 .. n, NEW b \in 1 .. n, was[a] # view[from].id, was[b] # view[from].id, a < b
       PROVE  w[a] < w[b]
  <2>1. PICK i \in 1 .. n : p[i] = a
    BY <1>4 DEF Carries
  <2>2. PICK j \in 1 .. n : p[j] = b
    BY <1>4 DEF Carries
  <2>3. p[to] = from
    BY <1>4 DEF Carries
  <2>4. a # from /\ b # from
    BY <1>3, <1>15
  <2>5. i \in (1 .. n) \ {to} /\ j \in (1 .. n) \ {to}
    BY <2>1, <2>2, <2>3, <2>4
  <2>6. i < j
    BY <1>4, <1>15, <2>1, <2>2, <2>5 DEF Carries
  <2> QED BY <1>4, <2>1, <2>2, <2>6
<1>16. ASSUME NEW a \in 1 .. n, NEW b \in 1 .. n, NEW c \in 1 .. n, NEW d \in 1 .. n,
              was[a] = is[c], was[b] = is[d], was[a] # view[from].id, was[b] # view[from].id
       PROVE  a < b <=> c < d
  <2>1. after[is[c]].order = w[a] /\ after[is[d]].order = w[b]
    BY <1>11, <1>16
  <2>2. a < b => c < d
    BY <1>14, <1>15, <1>16, <2>1
  <2>3. b < a => d < c
    BY <1>14, <1>15, <1>16, <2>1
  <2>4. a = b => c = d
    BY <1>14, <1>16
  <2> QED BY <1>2, <2>2, <2>3, <2>4
<1> QED BY <1>3, <1>13, <1>14, <1>16

\* A copy the page may hold: the ids that no placeholder has had yet are in none.
Held(rows, left) ==
  Copy(rows) /\ \A i \in DOMAIN rows : rows[i].id > 0 \/ rows[i].id < - left

\* The rows of a copy one by one.
LEMMA CopyRows ==
  ASSUME NEW rows, Copy(rows)
  PROVE  /\ rows \in Seq(IndexRow) /\ Len(rows) \in Nat /\ DOMAIN rows = 1 .. Len(rows)
         /\ \A i \in DOMAIN rows : /\ rows[i] \in IndexRow /\ rows[i].id \in Int /\ rows[i].order \in Nat
                                   /\ rows[i].name \in Named
         /\ \A i, j \in DOMAIN rows : rows[i].id = rows[j].id => i = j
<1>1. rows \in Seq(IndexRow)
  BY DEF Copy
<1>2. Len(rows) \in Nat /\ DOMAIN rows = 1 .. Len(rows) /\ \A i \in DOMAIN rows : rows[i] \in IndexRow
  BY <1>1
<1>3. \A i \in DOMAIN rows : rows[i].id \in Int /\ rows[i].order \in Nat /\ rows[i].name \in Named
  BY <1>2 DEF IndexRow
<1>4. \A i, j \in DOMAIN rows : rows[i].id = rows[j].id => i = j
  BY DEF Copy, Apart, Ids
<1> QED BY <1>1, <1>2, <1>3, <1>4

\* What makes a copy.
LEMMA MakesCopy ==
  ASSUME NEW n \in Nat, NEW rows, rows = [i \in 1 .. n |-> rows[i]],
         \A i \in 1 .. n : rows[i] \in IndexRow,
         \A i, j \in 1 .. n : rows[i].id = rows[j].id => i = j
  PROVE  Copy(rows)
<1>1. rows \in Seq(IndexRow) /\ DOMAIN rows = 1 .. n
  OBVIOUS
<1> QED BY <1>1 DEF Copy, Apart, Ids

\* What could be held before a click can be held after it.
LEMMA HeldOn ==
  ASSUME NEW rows, NEW left \in Nat, Held(rows, left)
  PROVE  Held(rows, left - 1)
<1>1. \A i \in DOMAIN rows : rows[i].id \in Int
  BY CopyRows DEF Held
<1> QED BY <1>1 DEF Held

\* A page with no rows yet.
LEMMA EmptyHeld == ASSUME NEW left PROVE Held(<<>>, left)
<1>1. PICK e : e = <<>>
  OBVIOUS
<1>2. e = [i \in 1 .. 0 |-> e[i]] /\ DOMAIN e = 1 .. 0
  BY <1>1
<1>3. e \in Seq(IndexRow)
  BY <1>1
<1>4. Copy(e)
  BY <1>2, <1>3 DEF Copy, Apart
<1> QED BY <1>1, <1>2, <1>4 DEF Held

\* Rows left out of a copy.
LEMMA PickedHeld ==
  ASSUME NEW rows, NEW left, Held(rows, left), NEW K \in SUBSET (DOMAIN rows)
  PROVE  Held(PickFrom(rows, K), left)
<1>1. PICK n : n \in Nat /\ n = Len(rows) /\ DOMAIN rows = 1 .. n
  BY CopyRows DEF Held
<1>2. PICK picked : picked = PickFrom(rows, K)
  OBVIOUS
<1>3. Keeps(picked, rows, K, n)
  BY <1>1, <1>2, PickFromIs
<1>4. PICK at, m : Picks(at, K, m) /\ picked = [i \in 1 .. m |-> rows[at[i]]]
  BY <1>3 DEF Keeps
<1>5. m \in Nat /\ at \in [1 .. m -> K] /\ \A i, j \in 1 .. m : at[i] = at[j] => i = j
  BY <1>4 DEF Picks
<1>6. \A i \in 1 .. m : at[i] \in DOMAIN rows /\ picked[i] = rows[at[i]]
  BY <1>4, <1>5
<1>7. \A i, j \in 1 .. m : picked[i].id = picked[j].id => i = j
  <2> TAKE i, j \in 1 .. m
  <2> HAVE picked[i].id = picked[j].id
  <2>1. PICK k \in DOMAIN rows, l \in DOMAIN rows : k = at[i] /\ l = at[j]
    BY <1>6
  <2>2. rows[k].id = rows[l].id
    BY <1>6, <2>1
  <2>3. k = l
    BY <2>2, CopyRows DEF Held
  <2> QED BY <1>5, <2>1, <2>3
<1>8. \A i \in 1 .. m : picked[i] \in IndexRow
  BY <1>6, CopyRows DEF Held
<1>9. picked = [i \in 1 .. m |-> picked[i]] /\ DOMAIN picked = 1 .. m
  BY <1>4
<1>10. Copy(picked)
  BY <1>5, <1>7, <1>8, <1>9, MakesCopy
<1>11. \A i \in 1 .. m : picked[i].id > 0 \/ picked[i].id < - left
  BY <1>6 DEF Held
<1> QED BY <1>2, <1>9, <1>10, <1>11 DEF Held

\* One row more, under an id that none has.
LEMMA AppendedHeld ==
  ASSUME NEW rows, NEW left \in Nat, Held(rows, left), left > 0,
         NEW o \in Nat, NEW name \in Named
  PROVE  Held(Append(rows, [id |-> -left, order |-> o, name |-> name]), left - 1)
<1>1. PICK n : n \in Nat /\ n = Len(rows) /\ DOMAIN rows = 1 .. n
  BY CopyRows DEF Held
<1>2. PICK r : r = [id |-> -left, order |-> o, name |-> name]
  OBVIOUS
<1>3. r \in IndexRow /\ r.id = -left
  BY <1>2 DEF IndexRow
<1>4. PICK more : more = Append(rows, r)
  OBVIOUS
<1>5. rows \in Seq(IndexRow)
  BY CopyRows DEF Held
<1>6. /\ more \in Seq(IndexRow) /\ Len(more) = n + 1
      /\ \A i \in 1 .. n : more[i] = rows[i]
      /\ more[n + 1] = r
  BY <1>1, <1>3, <1>4, <1>5
<1>7. \A i \in 1 .. n : rows[i].id \in Int /\ (rows[i].id > 0 \/ rows[i].id < - left)
  BY <1>1, CopyRows DEF Held
<1>8. DOMAIN more = 1 .. n + 1 /\ \A i \in 1 .. n + 1 : i \in 1 .. n \/ i = n + 1
  BY <1>1, <1>6
<1>9. \A i \in 1 .. n : more[i].id # more[n + 1].id
  BY <1>3, <1>6, <1>7
<1>10. \A i, j \in 1 .. n : more[i].id = more[j].id => i = j
  <2>1. \A i, j \in 1 .. n : rows[i].id = rows[j].id => i = j
    BY <1>1, CopyRows DEF Held
  <2> QED BY <1>6, <2>1
<1>11. \A i, j \in 1 .. n + 1 : more[i].id = more[j].id => i = j
  BY <1>8, <1>9, <1>10
<1>12. Copy(more)
  BY <1>6, <1>8, <1>11 DEF Copy, Apart, Ids
<1>13. \A i \in 1 .. n + 1 : more[i].id > 0 \/ more[i].id < - (left - 1)
  BY <1>3, <1>6, <1>7, <1>8
<1> QED BY <1>2, <1>4, <1>8, <1>12, <1>13 DEF Held

\* Rows of which a name or a place has changed.
LEMMA ChangedHeld ==
  ASSUME NEW rows, NEW left, Held(rows, left),
         NEW changed, changed = [i \in DOMAIN rows |-> changed[i]],
         \A i \in DOMAIN rows : changed[i] \in IndexRow /\ changed[i].id = rows[i].id
  PROVE  Held(changed, left)
<1>1. PICK n : n \in Nat /\ DOMAIN rows = 1 .. n
  BY CopyRows DEF Held
<1>2. \A i, j \in 1 .. n : changed[i].id = changed[j].id => i = j
  BY <1>1, CopyRows DEF Held
<1>3. Copy(changed)
  BY <1>1, <1>2, MakesCopy
<1>4. DOMAIN changed = DOMAIN rows
  OBVIOUS
<1> QED BY <1>3, <1>4 DEF Held

\* The places a drag hands out are numbers, whether or not two rows share one.
LEMMA PlannedNumbers ==
  ASSUME NEW rows, Copy(rows), NEW from \in DOMAIN rows, NEW to \in DOMAIN rows,
         NEW u, u = UpdatesOf(MoveRow(rows, from, to))
  PROVE  \A l \in DOMAIN u : u[l] \in Nat
<1>1. PICK n : n \in Nat /\ n = Len(rows) /\ DOMAIN rows = 1 .. n
  BY CopyRows
<1>2. rows \in Seq(IndexRow)
  BY CopyRows
<1>3. PICK moved : moved = MoveRow(rows, from, to)
  OBVIOUS
<1>4. Moved(moved, rows, from, to, n)
  BY <1>1, <1>2, <1>3, ArrayMoveIs DEF MoveRow
<1>5. PICK p : Carries(p, n, from, to) /\ moved = [i \in 1 .. n |-> rows[p[i]]]
  BY <1>4 DEF Moved
<1>6. \A i \in 1 .. n : p[i] \in 1 .. n
  BY <1>5 DEF Carries
<1>7. DOMAIN moved = 1 .. n /\ \A i \in 1 .. n : moved[i].order \in Nat
  <2>1. \A i \in 1 .. n : rows[p[i]].order \in Nat
    BY <1>1, <1>6, CopyRows
  <2> QED BY <1>5, <2>1
<1>8. PICK orders : orders = [i \in DOMAIN moved |-> moved[i].order]
  OBVIOUS
<1>9. orders \in [1 .. n -> Nat] /\ orders \in [1 .. n -> Int] /\ DOMAIN orders = 1 .. n
  BY <1>7, <1>8
<1>10. PICK slots : slots = AssignSortOrderSlots(moved)
  OBVIOUS
<1>11. slots = SortBy(orders, orders)
  BY <1>8, <1>10 DEF AssignSortOrderSlots
<1>12. Sorts(slots, orders, orders, n)
  BY <1>1, <1>9, <1>11, SortByIs
<1>13. PICK at : Picks(at, 1 .. n, n) /\ slots = [i \in 1 .. n |-> orders[at[i]]]
  BY <1>12 DEF Sorts
<1>14. \A i \in 1 .. n : slots[i] \in Nat
  BY <1>9, <1>13 DEF Picks
<1>15. u = [l \in {moved[i].id : i \in DOMAIN moved} |-> slots[CHOOSE i \in DOMAIN moved : moved[i].id = l]]
  BY <1>3, <1>10 DEF UpdatesOf
<1>16. ASSUME NEW l \in DOMAIN u PROVE u[l] \in Nat
  <2>1. PICK i \in DOMAIN moved : moved[i].id = l
    BY <1>15
  <2>2. PICK k : k = CHOOSE m \in DOMAIN moved : moved[m].id = l
    OBVIOUS
  <2>3. k \in DOMAIN moved
    BY <2>1, <2>2
  <2>4. u[l] = slots[CHOOSE m \in DOMAIN moved : moved[m].id = l]
    BY <1>15
  <2>5. u[l] = slots[k]
    BY <2>2, <2>4, Zenon
  <2> QED BY <1>7, <1>14, <2>3, <2>5
<1> QED BY <1>16

\* The cache with the places handed out.
LEMMA ReorderedHeld ==
  ASSUME NEW left, Held(cached, left), NEW u, \A l \in DOMAIN u : u[l] \in Nat
  PROVE  Held(Reordered(u), left)
<1>1. PICK n : n \in Nat /\ DOMAIN cached = 1 .. n
  BY CopyRows DEF Held
<1>2. PICK moved : moved = [i \in DOMAIN cached |->
          IF cached[i].id \in DOMAIN u
            THEN [cached[i] EXCEPT !.order = u[cached[i].id]] ELSE cached[i]]
  OBVIOUS
<1>3. ASSUME NEW i \in DOMAIN cached PROVE moved[i] \in IndexRow /\ moved[i].id = cached[i].id
  <2>1. PICK a \in Int, b \in Nat, c \in Named : cached[i] = [id |-> a, order |-> b, name |-> c]
    <3>1. cached[i] \in IndexRow
      BY CopyRows DEF Held
    <3> QED BY <3>1 DEF IndexRow
  <2>2. CASE cached[i].id \in DOMAIN u
    <3>1. PICK o \in Nat : o = u[cached[i].id]
      BY <2>2
    <3>2. moved[i] = [cached[i] EXCEPT !.order = o]
      BY <1>2, <2>2, <3>1
    <3>3. moved[i] = [id |-> a, order |-> o, name |-> c]
      BY <2>1, <3>2
    <3> QED BY <2>1, <3>3 DEF IndexRow
  <2>3. CASE cached[i].id \notin DOMAIN u
    <3>1. moved[i] = cached[i]
      BY <1>2, <2>3
    <3> QED BY <2>1, <3>1 DEF IndexRow
  <2> QED BY <2>2, <2>3
<1>4. moved = [i \in DOMAIN cached |-> moved[i]] /\ DOMAIN moved = 1 .. n
  BY <1>1, <1>2
<1>5. Held(moved, left)
  BY <1>3, <1>4, ChangedHeld
<1>6. PICK keys : keys = [i \in DOMAIN moved |-> moved[i].order]
  OBVIOUS
<1>7. keys \in [1 .. n -> Int]
  <2>1. \A i \in 1 .. n : moved[i].order \in Nat
    BY <1>4, <1>5, CopyRows DEF Held
  <2> QED BY <1>4, <1>6, <2>1
<1>8. PICK listed : listed = SortBy(moved, keys)
  OBVIOUS
<1>9. Sorts(listed, moved, keys, n)
  BY <1>1, <1>4, <1>7, <1>8, SortByIs
<1>10. PICK at : Picks(at, 1 .. n, n) /\ listed = [i \in 1 .. n |-> moved[at[i]]]
  BY <1>9 DEF Sorts
<1>11. at \in [1 .. n -> 1 .. n] /\ \A i, j \in 1 .. n : at[i] = at[j] => i = j
  BY <1>10 DEF Picks
<1>12. \A i \in 1 .. n : at[i] \in 1 .. n /\ listed[i] = moved[at[i]]
  BY <1>10, <1>11
<1>13. \A i, j \in 1 .. n : listed[i].id = listed[j].id => i = j
  <2> TAKE i, j \in 1 .. n
  <2> HAVE listed[i].id = listed[j].id
  <2>1. PICK k \in 1 .. n, l \in 1 .. n : k = at[i] /\ l = at[j]
    BY <1>12
  <2>2. moved[k].id = moved[l].id
    BY <1>12, <2>1
  <2>3. k = l
    BY <1>4, <1>5, <2>2, CopyRows DEF Held
  <2> QED BY <1>11, <2>1, <2>3
<1>14. \A i \in 1 .. n : listed[i] \in IndexRow /\ (listed[i].id > 0 \/ listed[i].id < - left)
  <2>1. \A i \in 1 .. n : moved[i] \in IndexRow /\ (moved[i].id > 0 \/ moved[i].id < - left)
    BY <1>4, <1>5, CopyRows DEF Held
  <2> QED BY <1>12, <2>1
<1>15. listed = [i \in 1 .. n |-> listed[i]] /\ DOMAIN listed = 1 .. n
  BY <1>10
<1>16. Copy(listed)
  BY <1>1, <1>13, <1>14, <1>15, MakesCopy
<1>17. Reordered(u) = listed
  BY <1>2, <1>6, <1>8 DEF Reordered
<1> QED BY <1>14, <1>15, <1>16, <1>17 DEF Held

\* A reorder as it was planned.
WasPlanned(j) ==
  /\ Copy(j.view) /\ \A l \in DOMAIN j.updates : j.updates[l] \in Nat
  /\ \E from, to \in DOMAIN j.view :
       j.id = j.view[from].id /\ j.updates = UpdatesOf(MoveRow(j.view, from, to))

\* What the server and the page hold, whoever has crossed whom.
JobHeld(j, left) ==
  /\ JobOk(j) /\ Held(j.before, left)
  /\ j.kind \in {"create", "rename"} => j.name \in Named
  /\ j.kind = "reorder" => WasPlanned(j)

\* The rows of the server are stored rows, and what the page holds of them are copies.
IndexHeld ==
  /\ jobsLeft \in Nat /\ Rows(indexed)
  /\ Held(cached, jobsLeft) /\ Held(drawn, jobsLeft) /\ Held(reread.rows, jobsLeft)
  /\ \A j \in jobs : JobHeld(j, jobsLeft)

\* The place past the rows is a number (1 + MAX(sort_order)).
LEMMA FirstFree ==
  ASSUME NEW S, S \subseteq Nat, IsFiniteSet(S)
  PROVE  OnePastRows(S) \in Nat
<1>1. CASE S = {}
  BY <1>1 DEF OnePastRows
<1>2. CASE S # {}
  <2>1. Max(S) \in Nat
    BY <1>2, LastPlace
  <2> QED BY <1>2, <2>1 DEF OnePastRows
<1> QED BY <1>1, <1>2

\* What a function takes finitely many values to is finite.
LEMMA ImageOf ==
  ASSUME NEW D, IsFiniteSet(D), NEW f, DOMAIN f = D
  PROVE  IsFiniteSet({f[d] : d \in D})
<1>1. PICK R : R = {f[d] : d \in D}
  OBVIOUS
<1>2. PICK g : g = [d \in D |-> f[d]]
  OBVIOUS
<1>3. g \in Surjection(D, R)
  BY <1>1, <1>2 DEF Surjection
<1> QED BY <1>1, <1>3, FS_Surjection

\* The place of a new list of the server.
LEMMA FreePlace ==
  ASSUME Rows(indexed)
  PROVE  AppendSortOrder(indexed) \in Nat
<1>1. PICK f : f = [l \in DOMAIN indexed |-> indexed[l].order]
  OBVIOUS
<1>2. Places(indexed) = {f[l] : l \in DOMAIN indexed}
  BY <1>1 DEF Places
<1>3. IsFiniteSet(Places(indexed))
  BY <1>1, <1>2, ImageOf DEF Rows
<1>4. Places(indexed) \subseteq Nat
  <2>1. \A l \in DOMAIN indexed : indexed[l] \in [order : Nat, name : Named]
    BY DEF Rows
  <2> QED BY <2>1 DEF Places
<1> QED BY <1>3, <1>4, FirstFree DEF AppendSortOrder

\* The place of a new list of the cache.
LEMMA FreeCached ==
  ASSUME Copy(cached)
  PROVE  OnePastRows({cached[i].order : i \in DOMAIN cached}) \in Nat
<1>1. PICK f : f = [i \in DOMAIN cached |-> cached[i].order]
  OBVIOUS
<1>2. PICK S : S = {cached[i].order : i \in DOMAIN cached}
  OBVIOUS
<1>3. S = {f[i] : i \in DOMAIN cached}
  BY <1>1, <1>2
<1>4. IsFiniteSet(DOMAIN cached)
  BY CopyRows, FS_Interval
<1>5. IsFiniteSet(S)
  BY <1>1, <1>3, <1>4, ImageOf
<1>6. S \subseteq Nat
  BY <1>2, CopyRows
<1> QED BY <1>2, <1>5, <1>6, FirstFree

\* The rows with a list created.
LEMMA RowsWith ==
  ASSUME Rows(indexed), NEW l \in IndexedList, NEW name \in Named
  PROVE  Rows(WithList(l, name))
<1>1. PICK rows : rows = WithList(l, name)
  OBVIOUS
<1>2. PICK o \in Nat : o = AppendSortOrder(indexed)
  BY FreePlace
<1>3. rows = [k \in DOMAIN indexed \cup {l} |->
               IF k = l THEN [order |-> o, name |-> name] ELSE indexed[k]]
  BY <1>1, <1>2 DEF WithList
<1>4. DOMAIN rows = DOMAIN indexed \cup {l}
  BY <1>3
<1>5. IsFiniteSet(DOMAIN indexed \cup {l}) /\ DOMAIN indexed \cup {l} \subseteq Nat \ {0}
  BY FS_AddElement, IndexAssumption DEF Rows
<1>6. \A k \in DOMAIN rows : rows[k] \in [order : Nat, name : Named]
  BY <1>3, <1>4 DEF Rows
<1>7. rows \in [DOMAIN rows -> [order : Nat, name : Named]]
  BY <1>3, <1>4, <1>6
<1> QED BY <1>1, <1>4, <1>5, <1>7 DEF Rows

\* The rows with a list deleted.
LEMMA RowsLess ==
  ASSUME Rows(indexed), NEW l
  PROVE  Rows([k \in DOMAIN indexed \ {l} |-> indexed[k]])
<1>1. PICK rows : rows = [k \in DOMAIN indexed \ {l} |-> indexed[k]]
  OBVIOUS
<1>2. DOMAIN rows = DOMAIN indexed \ {l} /\ IsFiniteSet(DOMAIN indexed \ {l})
  BY <1>1, FS_RemoveElement DEF Rows
<1>3. rows \in [DOMAIN rows -> [order : Nat, name : Named]]
  BY <1>1, <1>2 DEF Rows
<1> QED BY <1>1, <1>2, <1>3 DEF Rows

\* Rows of which names or places have changed.
LEMMA RowsChanged ==
  ASSUME Rows(indexed), NEW rows, rows = [l \in DOMAIN indexed |-> rows[l]],
         \A l \in DOMAIN indexed : rows[l] \in [order : Nat, name : Named]
  PROVE  Rows(rows)
<1>1. DOMAIN rows = DOMAIN indexed
  OBVIOUS
<1> QED BY <1>1 DEF Rows

\* The rows with a list renamed.
LEMMA RowsNamed ==
  ASSUME Rows(indexed), NEW l \in DOMAIN indexed, NEW name \in Named
  PROVE  Rows([indexed EXCEPT ![l].name = name])
<1>1. PICK rows : rows = [indexed EXCEPT ![l].name = name]
  OBVIOUS
<1>2. PICK o \in Nat, m \in Named : indexed[l] = [order |-> o, name |-> m]
  BY DEF Rows
<1>3. PICK r : r = [indexed[l] EXCEPT !.name = name]
  OBVIOUS
<1>4. r = [order |-> o, name |-> name]
  BY <1>2, <1>3
<1>5. rows = [indexed EXCEPT ![l] = r]
  BY <1>1, <1>3
<1>6. \A k \in DOMAIN indexed : rows[k] = IF k = l THEN r ELSE indexed[k]
  BY <1>5
<1>7. \A k \in DOMAIN indexed : rows[k] \in [order : Nat, name : Named]
  BY <1>4, <1>6 DEF Rows
<1>8. rows = [k \in DOMAIN indexed |-> rows[k]]
  BY <1>5
<1> QED BY <1>1, <1>7, <1>8, RowsChanged

\* The rows with places handed out, unless a list of them is gone.
LEMMA RowsReordered ==
  ASSUME Rows(indexed), NEW u, \A l \in DOMAIN u : u[l] \in Nat
  PROVE  Rows(ReorderOwnedSet(u))
<1>1. CASE ~ DOMAIN u \subseteq DOMAIN indexed
  BY <1>1 DEF ReorderOwnedSet
<1>2. CASE DOMAIN u \subseteq DOMAIN indexed
  <2>1. PICK rows : rows = ReorderOwnedSet(u)
    OBVIOUS
  <2>2. rows = [l \in DOMAIN indexed |->
                  IF l \in DOMAIN u THEN [indexed[l] EXCEPT !.order = u[l]] ELSE indexed[l]]
    BY <1>2, <2>1 DEF ReorderOwnedSet
  <2>3. ASSUME NEW l \in DOMAIN indexed PROVE rows[l] \in [order : Nat, name : Named]
    <3>1. PICK o \in Nat, m \in Named : indexed[l] = [order |-> o, name |-> m]
      BY DEF Rows
    <3>2. CASE l \in DOMAIN u
      <4>1. PICK x \in Nat : x = u[l]
        BY <3>2
      <4>2. rows[l] = [indexed[l] EXCEPT !.order = x]
        BY <2>2, <3>2, <4>1
      <4>3. rows[l] = [order |-> x, name |-> m]
        BY <3>1, <4>2
      <4> QED BY <4>3
    <3>3. CASE l \notin DOMAIN u
      <4>1. rows[l] = indexed[l]
        BY <2>2, <3>3
      <4> QED BY <3>1, <4>1
    <3> QED BY <3>2, <3>3
  <2>4. rows = [l \in DOMAIN indexed |-> rows[l]]
    BY <2>2
  <2> QED BY <2>1, <2>3, <2>4, RowsChanged
<1> QED BY <1>1, <1>2

\* The rows with two lists swapped by another client.
LEMMA RowsSwapped ==
  ASSUME Rows(indexed), NEW k \in DOMAIN indexed, NEW l \in DOMAIN indexed, k # l
  PROVE  Rows(PlacesSwapped(k, l))
<1>1. PICK ok \in Nat, nk \in Named : indexed[k] = [order |-> ok, name |-> nk]
  BY DEF Rows
<1>2. PICK ol \in Nat, nl \in Named : indexed[l] = [order |-> ol, name |-> nl]
  BY DEF Rows
<1>3. PICK a : a = [indexed[k] EXCEPT !.order = indexed[l].order]
  OBVIOUS
<1>4. PICK b : b = [indexed[l] EXCEPT !.order = indexed[k].order]
  OBVIOUS
<1>5. a = [order |-> ol, name |-> nk] /\ b = [order |-> ok, name |-> nl]
  BY <1>1, <1>2, <1>3, <1>4
<1>6. PICK rows : rows = PlacesSwapped(k, l)
  OBVIOUS
<1>7. rows = [indexed EXCEPT ![k] = a, ![l] = b]
  BY <1>3, <1>4, <1>6 DEF PlacesSwapped
<1>8. \A m \in DOMAIN indexed : rows[m] = IF m = l THEN b ELSE IF m = k THEN a ELSE indexed[m]
  BY <1>7
<1>9. \A m \in DOMAIN indexed : rows[m] \in [order : Nat, name : Named]
  BY <1>5, <1>8 DEF Rows
<1>10. rows = [m \in DOMAIN indexed |-> rows[m]]
  BY <1>7
<1> QED BY <1>6, <1>9, <1>10, RowsChanged

\* Everything held is held while a write less is left.
LEMMA LeftLess ==
  ASSUME IndexHeld, jobsLeft > 0
  PROVE  /\ jobsLeft - 1 \in Nat
         /\ Held(cached, jobsLeft - 1) /\ Held(drawn, jobsLeft - 1) /\ Held(reread.rows, jobsLeft - 1)
         /\ \A j \in jobs : JobHeld(j, jobsLeft - 1)
<1>1. \A j \in jobs : Held(j.before, jobsLeft - 1)
  BY HeldOn DEF IndexHeld, JobHeld
<1> QED BY <1>1, HeldOn DEF IndexHeld, JobHeld

\* A write that starts.
LEMMA StartHeld ==
  ASSUME IndexHeld, NEW job, NEW rows, Starts(job, rows),
         JobHeld(job, jobsLeft), Held(rows, jobsLeft - 1)
  PROVE  IndexHeld'
<1>1. /\ jobsLeft > 0 /\ jobsLeft' = jobsLeft - 1 /\ jobs' = jobs \cup {job}
      /\ cached' = rows /\ reread' = NoIndexRead
      /\ indexed' = indexed /\ drawn' = drawn
  BY DEF Starts
<1>2. PICK left : left = jobsLeft - 1
  OBVIOUS
<1>3. /\ left \in Nat /\ Held(drawn, left) /\ \A j \in jobs : JobHeld(j, left)
  BY <1>1, <1>2, LeftLess
<1>4. Held(job.before, left)
  BY <1>2, HeldOn DEF JobHeld, IndexHeld
<1>5. JobHeld(job, left)
  BY <1>4 DEF JobHeld
<1>6. Held(NoIndexRead.rows, left)
  BY EmptyHeld DEF NoIndexRead
<1>7. /\ left \in Nat /\ Rows(indexed) /\ Held(rows, left) /\ Held(drawn, left)
      /\ Held(NoIndexRead.rows, left) /\ \A j \in jobs' : JobHeld(j, left)
  BY <1>1, <1>2, <1>3, <1>5, <1>6 DEF IndexHeld
<1>8. jobsLeft' = left
  BY <1>1, <1>2
<1>9. /\ jobsLeft' \in Nat /\ Rows(indexed') /\ Held(cached', jobsLeft') /\ Held(drawn', jobsLeft')
      /\ Held(reread'.rows, jobsLeft') /\ \A j \in jobs' : JobHeld(j, jobsLeft')
  BY <1>1, <1>7, <1>8
<1> QED BY <1>9 DEF IndexHeld

\* A delete or a duplicate is a write that the page can hold.
LEMMA NewJob ==
  ASSUME IndexHeld, NEW kind \in {"delete", "duplicate"}, NEW id
  PROVE  JobHeld(IndexJob(kind, id), jobsLeft)
<1>1. PICK job : job = IndexJob(kind, id)
  OBVIOUS
<1>2. PICK name : name = CHOOSE x \in Named : TRUE
  OBVIOUS
<1>3. PICK u, v : u = [l \in {} |-> 0] /\ v = <<>>
  OBVIOUS
<1>4. job = [n |-> jobsLeft, kind |-> kind, id |-> id, name |-> name,
             updates |-> u, stage |-> "sent", before |-> cached, view |-> v]
  BY <1>1, <1>2, <1>3 DEF IndexJob
<1>5. JobOk(job) /\ job.before = cached /\ job.kind = kind
  BY <1>4 DEF JobOk
<1> QED BY <1>1, <1>5 DEF JobHeld, IndexHeld

\* So is a create or a rename.
LEMMA NamedJob ==
  ASSUME IndexHeld, NEW kind \in {"create", "rename"}, NEW id, NEW name \in Named
  PROVE  JobHeld([IndexJob(kind, id) EXCEPT !.name = name], jobsLeft)
<1>1. PICK job : job = [IndexJob(kind, id) EXCEPT !.name = name]
  OBVIOUS
<1>2. PICK m : m = CHOOSE x \in Named : TRUE
  OBVIOUS
<1>3. PICK u, v : u = [l \in {} |-> 0] /\ v = <<>>
  OBVIOUS
<1>4. IndexJob(kind, id) = [n |-> jobsLeft, kind |-> kind, id |-> id, name |-> m,
             updates |-> u, stage |-> "sent", before |-> cached, view |-> v]
  BY <1>2, <1>3 DEF IndexJob
<1>5. job = [n |-> jobsLeft, kind |-> kind, id |-> id, name |-> name,
             updates |-> u, stage |-> "sent", before |-> cached, view |-> v]
  BY <1>1, <1>4
<1>6. JobOk(job) /\ job.before = cached /\ job.kind = kind /\ job.name = name
  BY <1>5 DEF JobOk
<1> QED BY <1>1, <1>6 DEF JobHeld, IndexHeld

\* The fields of a reorder.
LEMMA ReorderRecord ==
  ASSUME NEW k, NEW id, NEW m, NEW u, NEW c, NEW d, NEW job,
         job = [n |-> k, kind |-> "reorder", id |-> id, name |-> m,
                updates |-> u, stage |-> "sent", before |-> c, view |-> d]
  PROVE  /\ JobOk(job) /\ job.before = c /\ job.kind = "reorder" /\ job.updates = u
         /\ job.view = d /\ job.id = id
BY DEF JobOk

\* So is the reorder of a drag.
LEMMA ReorderJob ==
  ASSUME IndexHeld, NEW from \in DOMAIN drawn, NEW to \in DOMAIN drawn,
         NEW u, u = UpdatesOf(MoveRow(drawn, from, to))
  PROVE  /\ JobHeld([IndexJob("reorder", drawn[from].id) EXCEPT !.updates = u, !.view = drawn], jobsLeft)
         /\ [IndexJob("reorder", drawn[from].id) EXCEPT !.updates = u, !.view = drawn].kind = "reorder"
         /\ \A l \in DOMAIN u : u[l] \in Nat
<1>j. PICK job : job = [IndexJob("reorder", drawn[from].id) EXCEPT !.updates = u, !.view = drawn]
  OBVIOUS
<1>1. PICK m, e, v, id : /\ m = (CHOOSE x \in Named : TRUE) /\ e = [l \in {} |-> 0] /\ v = <<>>
                         /\ id = drawn[from].id
  OBVIOUS
<1>2. IndexJob("reorder", id) = [n |-> jobsLeft, kind |-> "reorder", id |-> id, name |-> m,
             updates |-> e, stage |-> "sent", before |-> cached, view |-> v]
  BY <1>1 DEF IndexJob
<1>3. job = [n |-> jobsLeft, kind |-> "reorder", id |-> id, name |-> m,
             updates |-> u, stage |-> "sent", before |-> cached, view |-> drawn]
  <2>1. PICK c, d, k, s, t : c = cached /\ d = drawn /\ k = jobsLeft /\ s = "sent" /\ t = "reorder"
    OBVIOUS
  <2>2. PICK sent : sent = IndexJob("reorder", id)
    OBVIOUS
  <2>3. sent = [n |-> k, kind |-> t, id |-> id, name |-> m,
                updates |-> e, stage |-> s, before |-> c, view |-> v]
    BY <1>2, <2>1, <2>2
  <2>4. job = [sent EXCEPT !.updates = u, !.view = d]
    BY <1>1, <1>j, <2>1, <2>2
  <2>5. job = [n |-> k, kind |-> t, id |-> id, name |-> m,
               updates |-> u, stage |-> s, before |-> c, view |-> d]
    BY <2>3, <2>4
  <2> QED BY <2>1, <2>5
<1>4. /\ JobOk(job) /\ job.before = cached /\ job.kind = "reorder" /\ job.updates = u
      /\ job.view = drawn /\ job.id = drawn[from].id
  <2>1. PICK c, d, k : c = cached /\ d = drawn /\ k = jobsLeft
    OBVIOUS
  <2>2. job = [n |-> k, kind |-> "reorder", id |-> id, name |-> m,
               updates |-> u, stage |-> "sent", before |-> c, view |-> d]
    BY <1>3, <2>1
  <2>3. /\ JobOk(job) /\ job.before = c /\ job.kind = "reorder" /\ job.updates = u
        /\ job.view = d /\ job.id = id
    BY <2>2, ReorderRecord
  <2> QED BY <1>1, <2>1, <2>3
<1>5. Copy(drawn)
  BY DEF IndexHeld, Held
<1>6. \A l \in DOMAIN u : u[l] \in Nat
  BY <1>5, PlannedNumbers
<1>7. WasPlanned(job)
  BY <1>4, <1>5, <1>6 DEF WasPlanned
<1>8. JobHeld(job, jobsLeft)
  BY <1>4, <1>7 DEF JobHeld, IndexHeld
<1> QED BY <1>j, <1>4, <1>6, <1>8

\* The clicks keep what the page holds copies.
LEMMA ClicksHeld ==
  ASSUME IndexHeld, IndexCreate \/ IndexRename \/ IndexDelete \/ IndexDuplicate
  PROVE  IndexHeld'
<1>1. CASE IndexCreate
  <2>1. PICK name \in Named :
          LET places == {cached[i].order : i \in DOMAIN cached}
              placeholder == [id |-> -jobsLeft, order |-> OnePastRows(places), name |-> name]
          IN  Starts([IndexJob("create", 0) EXCEPT !.name = name], Append(cached, placeholder))
    BY <1>1 DEF IndexCreate
  <2>2. PICK o \in Nat : o = OnePastRows({cached[i].order : i \in DOMAIN cached})
    BY FreeCached DEF IndexHeld, Held
  <2>3. PICK job, rows : /\ job = [IndexJob("create", 0) EXCEPT !.name = name]
                         /\ rows = Append(cached, [id |-> -jobsLeft, order |-> o, name |-> name])
    OBVIOUS
  <2>4. Starts(job, rows)
    BY <2>1, <2>2, <2>3
  <2>5. jobsLeft > 0
    BY <2>4 DEF Starts
  <2>6. JobHeld(job, jobsLeft)
    BY <2>3, NamedJob
  <2>7. Held(rows, jobsLeft - 1)
    BY <2>2, <2>3, <2>5, AppendedHeld DEF IndexHeld
  <2> QED BY <2>4, <2>6, <2>7, StartHeld
<1>2. CASE IndexRename
  <2>1. PICK i \in DOMAIN drawn, name \in Named :
          Starts([IndexJob("rename", drawn[i].id) EXCEPT !.name = name],
                 [k \in DOMAIN cached |->
                    IF cached[k].id = drawn[i].id THEN [cached[k] EXCEPT !.name = name] ELSE cached[k]])
    BY <1>2 DEF IndexRename
  <2>2. PICK id : id = drawn[i].id
    OBVIOUS
  <2>3. PICK job : job = [IndexJob("rename", id) EXCEPT !.name = name]
    OBVIOUS
  <2>4. PICK rows : rows = [k \in DOMAIN cached |->
                    IF cached[k].id = id THEN [cached[k] EXCEPT !.name = name] ELSE cached[k]]
    OBVIOUS
  <2>5. Starts(job, rows)
    BY <2>1, <2>2, <2>3, <2>4
  <2>6. JobHeld(job, jobsLeft)
    BY <2>3, NamedJob
  <2>7. ASSUME NEW k \in DOMAIN cached PROVE rows[k] \in IndexRow /\ rows[k].id = cached[k].id
    <3>1. PICK a \in Int, b \in Nat, c \in Named : cached[k] = [id |-> a, order |-> b, name |-> c]
      <4>1. cached[k] \in IndexRow
        BY CopyRows DEF IndexHeld, Held
      <4> QED BY <4>1 DEF IndexRow
    <3>2. rows[k] = [id |-> a, order |-> b, name |-> c] \/ rows[k] = [id |-> a, order |-> b, name |-> name]
      BY <2>4, <3>1
    <3> QED BY <3>1, <3>2 DEF IndexRow
  <2>8. rows = [k \in DOMAIN cached |-> rows[k]]
    BY <2>4
  <2>9. Held(rows, jobsLeft)
    BY <2>7, <2>8, ChangedHeld DEF IndexHeld
  <2>10. Held(rows, jobsLeft - 1)
    BY <2>9, HeldOn DEF IndexHeld
  <2> QED BY <2>5, <2>6, <2>10, StartHeld
<1>3. CASE IndexDelete
  <2>1. PICK i \in DOMAIN drawn :
          Starts(IndexJob("delete", drawn[i].id),
                 PickFrom(cached, {k \in DOMAIN cached : cached[k].id # drawn[i].id}))
    BY <1>3 DEF IndexDelete
  <2>2. PICK job, K : /\ job = IndexJob("delete", drawn[i].id)
                      /\ K = {k \in DOMAIN cached : cached[k].id # drawn[i].id}
    OBVIOUS
  <2>3. PICK rows : rows = PickFrom(cached, K)
    OBVIOUS
  <2>4. Starts(job, rows)
    BY <2>1, <2>2, <2>3
  <2>5. JobHeld(job, jobsLeft)
    BY <2>2, NewJob
  <2>6. K \in SUBSET (DOMAIN cached)
    BY <2>2
  <2>7. Held(rows, jobsLeft)
    BY <2>3, <2>6, PickedHeld DEF IndexHeld
  <2>8. Held(rows, jobsLeft - 1)
    BY <2>7, HeldOn DEF IndexHeld
  <2> QED BY <2>4, <2>5, <2>8, StartHeld
<1>4. CASE IndexDuplicate
  <2>1. PICK i \in DOMAIN drawn :
          /\ jobsLeft > 0 /\ jobsLeft' = jobsLeft - 1
          /\ jobs' = jobs \cup {IndexJob("duplicate", drawn[i].id)}
          /\ UNCHANGED <<indexed, cached, drawn, reread>>
    BY <1>4 DEF IndexDuplicate
  <2>2. PICK job, left : job = IndexJob("duplicate", drawn[i].id) /\ left = jobsLeft - 1
    OBVIOUS
  <2>3. JobHeld(job, jobsLeft)
    BY <2>2, NewJob
  <2>4. Held(job.before, left)
    BY <2>2, <2>3, HeldOn DEF JobHeld, IndexHeld
  <2>5. JobHeld(job, left)
    BY <2>3, <2>4 DEF JobHeld
  <2>6. /\ left \in Nat /\ Held(cached, left) /\ Held(drawn, left) /\ Held(reread.rows, left)
        /\ \A j \in jobs : JobHeld(j, left)
    BY <2>1, <2>2, LeftLess
  <2>7. \A j \in jobs' : JobHeld(j, left)
    BY <2>1, <2>2, <2>5, <2>6
  <2>8. jobsLeft' = left
    BY <2>1, <2>2
  <2>9. /\ jobsLeft' \in Nat /\ Rows(indexed') /\ Held(cached', jobsLeft') /\ Held(drawn', jobsLeft')
        /\ Held(reread'.rows, jobsLeft') /\ \A j \in jobs' : JobHeld(j, jobsLeft')
    BY <2>1, <2>6, <2>7, <2>8 DEF IndexHeld
  <2> QED BY <2>9 DEF IndexHeld
<1> QED BY <1>1, <1>2, <1>3, <1>4

\* So does a drop.
LEMMA DropHeld ==
  ASSUME IndexHeld, IndexDrop
  PROVE  IndexHeld'
<1>1. PICK from, to \in DOMAIN drawn :
        LET updates == UpdatesOf(MoveRow(drawn, from, to))
        IN  IF PayloadFits(updates)
            THEN Starts([IndexJob("reorder", drawn[from].id) EXCEPT !.updates = updates,
                                                               !.view = drawn],
                        Reordered(updates))
            ELSE /\ jobsLeft > 0 /\ jobsLeft' = jobsLeft - 1 /\ reread' = IndexAsked
                 /\ UNCHANGED <<indexed, cached, drawn, jobs>>
  BY DEF IndexDrop
<1>2. PICK u : u = UpdatesOf(MoveRow(drawn, from, to))
  OBVIOUS
<1>3. CASE PayloadFits(u)
  <2>1. PICK job : job = [IndexJob("reorder", drawn[from].id) EXCEPT !.updates = u, !.view = drawn]
    OBVIOUS
  <2>2. JobHeld(job, jobsLeft) /\ \A l \in DOMAIN u : u[l] \in Nat
    BY <1>2, <2>1, ReorderJob
  <2>3. PICK rows : rows = Reordered(u)
    OBVIOUS
  <2>4. Starts(job, rows)
    BY <1>1, <1>2, <1>3, <2>1, <2>3
  <2>5. Held(rows, jobsLeft)
    BY <2>2, <2>3, ReorderedHeld DEF IndexHeld
  <2>6. Held(rows, jobsLeft - 1)
    BY <2>5, HeldOn DEF IndexHeld
  <2> QED BY <2>2, <2>4, <2>6, StartHeld
<1>4. CASE ~ PayloadFits(u)
  <2>1. /\ jobsLeft > 0 /\ jobsLeft' = jobsLeft - 1 /\ reread' = IndexAsked
        /\ UNCHANGED <<indexed, cached, drawn, jobs>>
    BY <1>1, <1>2, <1>4
  <2>2. PICK left : left = jobsLeft - 1
    OBVIOUS
  <2>3. /\ left \in Nat /\ Held(cached, left) /\ Held(drawn, left) /\ \A j \in jobs : JobHeld(j, left)
    BY <2>1, <2>2, LeftLess
  <2>4. Held(IndexAsked.rows, left)
    BY EmptyHeld DEF IndexAsked
  <2>5. jobsLeft' = left
    BY <2>1, <2>2
  <2>6. /\ jobsLeft' \in Nat /\ Rows(indexed') /\ Held(cached', jobsLeft') /\ Held(drawn', jobsLeft')
        /\ Held(reread'.rows, jobsLeft') /\ \A j \in jobs' : JobHeld(j, jobsLeft')
    BY <2>1, <2>3, <2>4, <2>5 DEF IndexHeld
  <2> QED BY <2>6 DEF IndexHeld
<1> QED BY <1>3, <1>4

\* The rows of the server after a write.
LEMMA RowsAfter ==
  ASSUME IndexHeld, NEW j \in jobs
  PROVE  Rows(IndexAfter(j))
<1>1. JobOk(j) /\ Rows(indexed)
  BY DEF IndexHeld, JobHeld
<1>2. ASSUME j.kind = "create" \/ (j.kind = "duplicate" /\ j.id \in DOMAIN indexed)
      PROVE  Rows(Made(j))
  <2>1. CASE HowMany(indexed) >= ListCap \/ NewIds = {}
    BY <1>1, <2>1 DEF Made
  <2>2. CASE ~ (HowMany(indexed) >= ListCap \/ NewIds = {})
    <3>1. PICK l \in IndexedList : l = Min(NewIds)
      BY <2>2, LeastId DEF NewIds
    <3>2. CASE j.kind = "create"
      <4>1. PICK name \in Named : name = j.name
        BY <3>2 DEF IndexHeld, JobHeld
      <4>2. Made(j) = WithList(l, name)
        BY <2>2, <3>1, <3>2, <4>1 DEF Made
      <4> QED BY <1>1, <4>2, RowsWith
    <3>3. CASE j.kind = "duplicate" /\ j.id \in DOMAIN indexed
      <4>1. PICK name \in Named : name = indexed[j.id].name
        <5>1. indexed[j.id] \in [order : Nat, name : Named]
          BY <1>1, <3>3 DEF Rows
        <5> QED BY <5>1
      <4>2. Made(j) = WithList(l, name)
        BY <2>2, <3>1, <3>3, <4>1 DEF Made
      <4> QED BY <1>1, <4>2, RowsWith
    <3> QED BY <1>2, <3>2, <3>3
  <2> QED BY <2>1, <2>2
<1>3. CASE j.kind = "create"
  BY <1>2, <1>3 DEF IndexAfter
<1>4. CASE j.kind = "duplicate"
  BY <1>1, <1>2, <1>4 DEF IndexAfter
<1>5. CASE j.kind = "rename"
  <2>1. PICK name \in Named : name = j.name
    BY <1>5 DEF IndexHeld, JobHeld
  <2>2. IndexAfter(j) = IF j.id \in DOMAIN indexed THEN [indexed EXCEPT ![j.id].name = name] ELSE indexed
    BY <1>5, <2>1 DEF IndexAfter
  <2> QED BY <1>1, <2>2, RowsNamed
<1>6. CASE j.kind = "delete"
  <2>1. IndexAfter(j) = [l \in DOMAIN indexed \ {j.id} |-> indexed[l]]
    BY <1>6 DEF IndexAfter
  <2> QED BY <1>1, <2>1, RowsLess
<1>7. CASE j.kind = "reorder"
  <2>1. PICK u : u = j.updates /\ \A l \in DOMAIN u : u[l] \in Nat
    BY <1>7 DEF IndexHeld, JobHeld, WasPlanned
  <2>2. IndexAfter(j) = ReorderOwnedSet(u)
    BY <1>7, <2>1 DEF IndexAfter
  <2> QED BY <1>1, <2>1, <2>2, RowsReordered
<1> QED BY <1>1, <1>3, <1>4, <1>5, <1>6, <1>7 DEF JobOk

\* The server keeps its rows when a write lands.
LEMMA LandHeld ==
  ASSUME IndexHeld, IndexLand
  PROVE  IndexHeld'
<1>1. PICK j \in jobs :
        /\ indexed' = IndexAfter(j)
        /\ jobs' = (jobs \ {j}) \cup {[j EXCEPT !.stage = IF IndexRefuses(j) THEN "refused" ELSE "done"]}
        /\ UNCHANGED <<cached, drawn, reread, jobsLeft>>
  BY DEF IndexLand
<1>2. PICK rows : rows = IndexAfter(j) /\ Rows(rows)
  BY RowsAfter
<1>3. PICK s : s = IF IndexRefuses(j) THEN "refused" ELSE "done"
  OBVIOUS
<1>4. PICK n : n = [j EXCEPT !.stage = s]
  OBVIOUS
<1>5. JobHeld(j, jobsLeft)
  BY DEF IndexHeld
<1>6. JobHeld(n, jobsLeft)
  <2>1. PICK a, k, i, x, u, g, b, v :
          j = [n |-> a, kind |-> k, id |-> i, name |-> x, updates |-> u,
               stage |-> g, before |-> b, view |-> v]
    BY <1>5 DEF JobHeld, JobOk
  <2>2. n = [n |-> a, kind |-> k, id |-> i, name |-> x, updates |-> u,
             stage |-> s, before |-> b, view |-> v]
    BY <1>4, <2>1
  <2>3. /\ n.kind = j.kind /\ n.id = j.id /\ n.name = j.name /\ n.updates = j.updates
        /\ n.before = j.before /\ n.view = j.view
    BY <2>1, <2>2
  <2>4. JobOk(n)
    BY <1>5, <2>1, <2>2 DEF JobHeld, JobOk
  <2>5. WasPlanned(j) => WasPlanned(n)
    BY <2>3 DEF WasPlanned
  <2> QED BY <1>5, <2>3, <2>4, <2>5 DEF JobHeld
<1>7. \A i \in jobs' : JobHeld(i, jobsLeft)
  BY <1>1, <1>3, <1>4, <1>6 DEF IndexHeld
<1>8. /\ jobsLeft' \in Nat /\ Rows(indexed') /\ Held(cached', jobsLeft') /\ Held(drawn', jobsLeft')
      /\ Held(reread'.rows, jobsLeft') /\ \A i \in jobs' : JobHeld(i, jobsLeft')
  BY <1>1, <1>2, <1>7 DEF IndexHeld
<1> QED BY <1>8 DEF IndexHeld

\* So does what another client does.
LEMMA OtherHeld ==
  ASSUME IndexHeld, IndexOther
  PROVE  IndexHeld'
<1>1. PICK rows : AnotherDevice(rows) /\ Rows(rows)
  <2>0. Rows(indexed)
    BY DEF IndexHeld
  <2>1. CASE \E l \in DOMAIN indexed : AnotherDevice([k \in DOMAIN indexed \ {l} |-> indexed[k]])
    <3>1. PICK l \in DOMAIN indexed : AnotherDevice([k \in DOMAIN indexed \ {l} |-> indexed[k]])
      BY <2>1
    <3>2. PICK r : r = [k \in DOMAIN indexed \ {l} |-> indexed[k]]
      OBVIOUS
    <3>3. Rows(r) /\ AnotherDevice(r)
      BY <2>0, <3>1, <3>2, RowsLess
    <3> QED BY <3>3
  <2>2. CASE \E l \in NewIds, name \in Named : l = Min(NewIds) /\ AnotherDevice(WithList(l, name))
    <3>1. PICK l \in NewIds, name \in Named : AnotherDevice(WithList(l, name))
      BY <2>2
    <3>2. Rows(WithList(l, name))
      BY <2>0, RowsWith DEF NewIds
    <3> QED BY <3>1, <3>2
  <2>3. CASE \E k, l \in DOMAIN indexed : k < l /\ AnotherDevice(PlacesSwapped(k, l))
    <3>1. PICK k, l \in DOMAIN indexed : k < l /\ AnotherDevice(PlacesSwapped(k, l))
      BY <2>3
    <3>2. k # l
      BY <2>0, <3>1 DEF Rows
    <3>3. Rows(PlacesSwapped(k, l))
      BY <2>0, <3>2, RowsSwapped
    <3> QED BY <3>1, <3>3
  <2> QED BY <2>1, <2>2, <2>3 DEF IndexOther
<1>2. /\ jobsLeft > 0 /\ jobsLeft' = jobsLeft - 1 /\ indexed' = rows
      /\ UNCHANGED <<cached, drawn, reread, jobs>>
  BY <1>1 DEF AnotherDevice
<1>3. PICK left : left = jobsLeft - 1
  OBVIOUS
<1>4. /\ left \in Nat /\ Held(cached, left) /\ Held(drawn, left) /\ Held(reread.rows, left)
      /\ \A j \in jobs : JobHeld(j, left)
  BY <1>2, <1>3, LeftLess
<1>5. jobsLeft' = left
  BY <1>2, <1>3
<1>6. /\ jobsLeft' \in Nat /\ Rows(indexed') /\ Held(cached', jobsLeft') /\ Held(drawn', jobsLeft')
      /\ Held(reread'.rows, jobsLeft') /\ \A j \in jobs' : JobHeld(j, jobsLeft')
  BY <1>1, <1>2, <1>4, <1>5
<1> QED BY <1>6 DEF IndexHeld

\* Answers, failures and reads put back copies that were taken before.
LEMMA AnswersHeld ==
  ASSUME IndexHeld, \/ IndexRendered \/ IndexDone \/ IndexFailed \/ IndexRead \/ IndexReadBack
                    \/ IndexReadFailed \/ IndexVisit \/ UNCHANGED indexVars
  PROVE  IndexHeld'
<1>1. jobsLeft' = jobsLeft /\ indexed' = indexed /\ jobs' \subseteq jobs
  BY DEF IndexRendered, IndexDone, IndexFailed, IndexRead, IndexReadBack, IndexReadFailed,
     IndexVisit, indexVars, indexServer
<1>2. Held(cached', jobsLeft)
  <2>1. CASE IndexFailed
    BY <2>1 DEF IndexFailed, IndexHeld, JobHeld
  <2>2. CASE IndexReadBack
    BY <2>2 DEF IndexReadBack, IndexHeld
  <2>3. CASE cached' = cached
    BY <2>3 DEF IndexHeld
  <2> QED BY <2>1, <2>2, <2>3 DEF IndexRendered, IndexDone, IndexRead, IndexReadFailed,
     IndexVisit, indexVars, indexServer
<1>3. Held(drawn', jobsLeft)
  BY DEF IndexRendered, IndexDone, IndexFailed, IndexRead, IndexReadBack, IndexReadFailed,
     IndexVisit, indexVars, indexServer, IndexHeld
<1>4. Held(reread'.rows, jobsLeft)
  <2>1. CASE IndexRead
    <3>1. PICK read : read = ListRows(indexed)
      OBVIOUS
    <3>2. Copy(read) /\ \A i \in DOMAIN read : read[i].id > 0
      BY <3>1, ReadInOrder DEF IndexHeld
    <3>3. Held(read, jobsLeft)
      BY <3>2 DEF Held
    <3>4. reread'.rows = read
      BY <2>1, <3>1 DEF IndexRead
    <3> QED BY <3>3, <3>4
  <2>2. CASE reread' = NoIndexRead \/ reread' = IndexAsked
    <3>1. reread'.rows = <<>>
      BY <2>2 DEF NoIndexRead, IndexAsked
    <3>2. Held(<<>>, jobsLeft)
      BY EmptyHeld
    <3> QED BY <3>1, <3>2
  <2>3. CASE reread' = reread
    BY <2>3 DEF IndexHeld
  <2> QED BY <2>1, <2>2, <2>3 DEF IndexRendered, IndexDone, IndexFailed, IndexReadBack,
     IndexReadFailed, IndexVisit, ReadIndexAgain, indexVars, indexServer
<1>5. /\ jobsLeft' \in Nat /\ Rows(indexed') /\ Held(cached', jobsLeft') /\ Held(drawn', jobsLeft')
      /\ Held(reread'.rows, jobsLeft') /\ \A j \in jobs' : JobHeld(j, jobsLeft')
  BY <1>1, <1>2, <1>3, <1>4 DEF IndexHeld
<1> QED BY <1>5 DEF IndexHeld

\* Every step does.
LEMMA HeldStep == IndexHeld /\ [IndexNext]_indexVars => IndexHeld'
BY ClicksHeld, DropHeld, LandHeld, OtherHeld, AnswersHeld DEF IndexNext

\* The page starts so.
LEMMA HeldInit == IndexInit => IndexHeld
<1> SUFFICES ASSUME IndexInit PROVE IndexHeld
  OBVIOUS
<1>1. Rows(indexed)
  BY IndexAssumption DEF IndexInit, Rows
<1>2. PICK read : read = ListRows(indexed)
  OBVIOUS
<1>3. Copy(read) /\ \A i \in DOMAIN read : read[i].id > 0
  BY <1>1, <1>2, ReadInOrder
<1>4. Held(read, jobsLeft)
  BY <1>3 DEF Held
<1>5. reread.rows = <<>> /\ Held(<<>>, jobsLeft)
  BY EmptyHeld DEF IndexInit, NoIndexRead
<1>6. jobsLeft \in Nat /\ jobs = {}
  BY IndexAssumption DEF IndexInit
<1> QED BY <1>1, <1>2, <1>4, <1>5, <1>6 DEF IndexInit, IndexHeld

\* A drop on the rows as they are cached is not given up, and shows.
LEMMA DropTaken ==
  ASSUME IndexHeld, jobsLeft' < jobsLeft, drawn = cached, Untied(drawn), IndexDrop
  PROVE  \E j \in jobs' : j.kind = "reorder" /\ Ids(cached') # Ids(drawn)
<1>1. PICK from, to \in DOMAIN drawn :
        LET updates == UpdatesOf(MoveRow(drawn, from, to))
        IN  /\ from # to
            /\ PayloadFits(updates) =>
                 Starts([IndexJob("reorder", drawn[from].id) EXCEPT !.updates = updates,
                                                               !.view = drawn],
                        Reordered(updates))
  BY DEF IndexDrop
<1>2. PICK u : u = UpdatesOf(MoveRow(drawn, from, to))
  OBVIOUS
<1>3. PICK rows : rows = drawn /\ rows = cached
  OBVIOUS
<1>4. Copy(rows) /\ Untied(rows)
  BY <1>3 DEF IndexHeld, Held
<1>5. PayloadFits(u) /\ Ids(Reordered(u)) # Ids(rows)
  BY <1>1, <1>2, <1>3, <1>4, DropShows
<1>6. PICK job : job = [IndexJob("reorder", drawn[from].id) EXCEPT !.updates = u, !.view = drawn]
  OBVIOUS
<1>7. job.kind = "reorder"
  <2>1. [IndexJob("reorder", drawn[from].id) EXCEPT !.updates = u, !.view = drawn].kind = "reorder"
    BY DEF IndexJob
  <2> QED BY <1>6, <2>1, Zenon
<1>8. Starts(job, Reordered(u))
  BY <1>1, <1>2, <1>5, <1>6
<1>9. job \in jobs' /\ cached' = Reordered(u)
  BY <1>8 DEF Starts
<1> QED BY <1>3, <1>5, <1>7, <1>9

\* A reorder carried out on the order it was planned from.
LEMMA LandsInOrder ==
  ASSUME IndexHeld, IndexHeld', NEW j \in jobs, j.kind = "reorder", j.stage = "sent", j \notin jobs',
         IndexLand, Untied(j.view), Ids(j.view) = Ids(ListRows(indexed))
  PROVE  LET was == Ids(j.view)
             is  == Ids(ListRows(indexed'))
         IN  /\ DOMAIN is = DOMAIN was
             /\ \A a \in DOMAIN was : \E c \in DOMAIN is : is[c] = was[a]
             /\ \A a, b \in DOMAIN was, c, d \in DOMAIN is :
                  was[a] = is[c] /\ was[b] = is[d] /\ j.id \notin {was[a], was[b]} =>
                    (a < b <=> c < d)
<1>1. indexed' = IndexAfter(j)
  BY DEF IndexLand
<1>2. PICK view, u : view = j.view /\ u = j.updates
  OBVIOUS
<1>3. WasPlanned(j)
  BY DEF IndexHeld, JobHeld
<1>4. PICK from, to \in DOMAIN view : j.id = view[from].id /\ u = UpdatesOf(MoveRow(view, from, to))
  BY <1>2, <1>3 DEF WasPlanned
<1>5. Copy(view) /\ Untied(view) /\ Ids(view) = Ids(ListRows(indexed))
  BY <1>2, <1>3 DEF WasPlanned
<1>6. PICK after : after = indexed'
  OBVIOUS
<1>7. Rows(indexed) /\ Rows(after) /\ after = ReorderOwnedSet(u)
  BY <1>1, <1>2, <1>6 DEF IndexHeld, IndexAfter
<1>8. LET was == Ids(view)
          is  == Ids(ListRows(after))
      IN  /\ DOMAIN is = DOMAIN was
          /\ \A a \in DOMAIN was : \E c \in DOMAIN is : is[c] = was[a]
          /\ \A a, b \in DOMAIN was, c, d \in DOMAIN is :
               was[a] = is[c] /\ was[b] = is[d] /\ view[from].id \notin {was[a], was[b]} =>
                 (a < b <=> c < d)
  BY <1>4, <1>5, <1>7, OthersStay
<1> QED BY <1>2, <1>4, <1>6, <1>8

\* Places stay apart, a page at rest has the server's rows, a drop holds, and a reorder
\* moves one list.
THEOREM IndexStands == IndexSpec => IndexRight
<1>1. IndexHeld /\ IndexHeld' /\ [IndexNext]_indexVars =>
        [jobsLeft' < jobsLeft /\ drawn = cached /\ Untied(drawn) /\ IndexDrop
           => \E j \in jobs' : j.kind = "reorder" /\ Ids(cached') # Ids(drawn)]_indexVars
  BY DropTaken
<1>2. IndexHeld /\ IndexHeld' /\ [IndexNext]_indexVars =>
        [\A j \in jobs : j.kind = "reorder" /\ j.stage = "sent" /\ j \notin jobs' /\ IndexLand
           /\ Untied(j.view)
           /\ Ids(j.view) = Ids(ListRows(indexed))
           => LET was == Ids(j.view)
                  is  == Ids(ListRows(indexed'))
              IN  /\ DOMAIN is = DOMAIN was
                  /\ \A a \in DOMAIN was : \E c \in DOMAIN is : is[c] = was[a]
                  /\ \A a, b \in DOMAIN was, c, d \in DOMAIN is :
                       was[a] = is[c] /\ was[b] = is[d] /\ j.id \notin {was[a], was[b]} =>
                         (a < b <=> c < d)]_indexVars
  BY LandsInOrder
<1>3. IndexSpec => DropHolds
  BY <1>1, HeldInit, HeldStep, PTL DEF IndexSpec, DropHolds
<1>4. IndexSpec => OthersKeepOrder
  BY <1>2, HeldInit, HeldStep, PTL DEF IndexSpec, OthersKeepOrder
<1> QED
  BY <1>3, <1>4, IndexAtRest DEF IndexRight

-----------------------------------------------------------------------------
(* Share links: the rows                                                   *)


\* The rows as PublicLinks sees them: one slug each, and no two lists the same.
Row == [slug : Slug, isShared : BOOLEAN, isDraft : BOOLEAN]

RowsInv ==
  /\ DOMAIN shareRows \subseteq ListId
  /\ shareRows \in [DOMAIN shareRows -> Row]
  /\ \A l, m \in DOMAIN shareRows : shareRows[l].slug = shareRows[m].slug => l = m

\* Requests: a new list has the number of its write, and is not there before that.
Names(j) == j.control \in {"create", "duplicate"}
Control == Flag \cup {"reset", "create", "duplicate", "delete"}

JobsInv ==
  /\ clock \in 0 .. ShareWrites
  /\ \A l \in DOMAIN shareRows : l <= clock
  /\ \A j \in shareJobs :
       /\ j.n \in 0 .. clock - 1
       /\ j.control \in Control /\ j.list \in ListId /\ j.value \in BOOLEAN
       /\ Names(j) => j.list = j.n + 1 /\ (~ j.done => j.list \notin DOMAIN shareRows)
  /\ \A i, j \in shareJobs : i.n = j.n => i = j

\* no-store: what a visitor was shown, no browser keeps.
StoreInv ==
  /\ store \in [Visitor -> {[s \in {} |-> {}]}]
  /\ opened = [v \in Visitor |-> opened[v]]

SharesInv == RowsInv /\ JobsInv /\ StoreInv

\* A step of PublicLinks, or one that it does not see.
Kept == [Promise!Next]_(Promise!promise)

-----------------------------------------------------------------------------
(* What the repository does to the rows of lists                           *)

LEMMA FreshIsFree ==
  ASSUME NEW draws \in [1 .. Tries -> Slug], NEW s \in WithFreshSlug(shareRows, draws)
  PROVE  s \in Slug /\ s \notin Taken(shareRows)
BY DEF WithFreshSlug

LEMMA RotateKeeps ==
  ASSUME RowsInv, NEW l \in ListId, NEW s \in Slug, s \notin Taken(shareRows),
         shareRows' = RotateShareLink(shareRows, l, s), opened' = opened
  PROVE  RowsInv' /\ Kept /\ DOMAIN shareRows' = DOMAIN shareRows
<1>1. CASE l \notin DOMAIN shareRows
  BY <1>1 DEF RotateShareLink, RowsInv, Kept, Promise!promise
<1>2. CASE l \in DOMAIN shareRows
  <2>1. /\ shareRows' = [shareRows EXCEPT ![l].slug = s]
        /\ DOMAIN shareRows' = DOMAIN shareRows
    BY <1>2 DEF RotateShareLink
  <2>2. \A x \in DOMAIN shareRows : shareRows[x] \in Row
    BY DEF RowsInv
  <2>3. \A x \in DOMAIN shareRows :
          /\ shareRows'[x] \in Row
          /\ shareRows'[x].slug = IF x = l THEN s ELSE shareRows[x].slug
          /\ shareRows'[x].isShared = shareRows[x].isShared
    BY <2>1, <2>2 DEF Row
  <2>4. shareRows' \in [DOMAIN shareRows' -> Row]
    BY <2>1, <2>3
  <2>5. RowsInv'
    BY <2>1, <2>3, <2>4 DEF RowsInv, Taken
  <2>6. Promise!Relink(l, s)
    BY <1>2, <2>1, <2>3 DEF Promise!Relink, Promise!Free, Taken
  <2>7. Kept
    BY <2>6 DEF Kept, Promise!Next
  <2> QED BY <2>1, <2>5, <2>7
<1> QED BY <1>1, <1>2

LEMMA UpdateKeeps ==
  ASSUME RowsInv, NEW l \in ListId, NEW flag \in Flag, NEW value \in BOOLEAN,
         shareRows' = UpdateList(shareRows, l, flag, value), opened' = opened
  PROVE  RowsInv' /\ Kept /\ DOMAIN shareRows' = DOMAIN shareRows
<1>1. CASE l \notin DOMAIN shareRows
  BY <1>1 DEF UpdateList, RowsInv, Kept, Promise!promise
<1>2. CASE l \in DOMAIN shareRows
  <2>1. /\ shareRows' = [shareRows EXCEPT ![l][flag] = value]
        /\ DOMAIN shareRows' = DOMAIN shareRows
    BY <1>2 DEF UpdateList
  <2>2. \A x \in DOMAIN shareRows : shareRows[x] \in Row
    BY DEF RowsInv
  <2>3. \A x \in DOMAIN shareRows :
          /\ shareRows'[x] \in Row
          /\ shareRows'[x].slug = shareRows[x].slug
          /\ x # l => shareRows'[x].isShared = shareRows[x].isShared
    <3>1. CASE flag = "isShared"
      BY <2>1, <2>2, <3>1 DEF Row
    <3>2. CASE flag = "isDraft"
      BY <2>1, <2>2, <3>2 DEF Row
    <3> QED BY <3>1, <3>2 DEF Flag
  <2>4. shareRows' \in [DOMAIN shareRows' -> Row]
    BY <2>1, <2>3
  <2>5. RowsInv'
    BY <2>1, <2>3, <2>4 DEF RowsInv
  <2>6. CASE shareRows'[l].isShared = shareRows[l].isShared
    <3>1. \A x \in DOMAIN shareRows :
            shareRows'[x].isShared = shareRows[x].isShared /\ shareRows'[x].slug = shareRows[x].slug
      BY <2>3, <2>6
    <3>2. UNCHANGED Promise!promise
      BY <2>1, <3>1 DEF Promise!promise
    <3> QED BY <2>1, <2>5, <3>2 DEF Kept
  <2>7. CASE shareRows'[l].isShared # shareRows[l].isShared
    <3>1. shareRows'[l].isShared = ~ shareRows[l].isShared
      BY <1>2, <2>2, <2>3, <2>7 DEF Row
    <3>2. Promise!Flip(l)
      BY <1>2, <2>1, <2>3, <3>1 DEF Promise!Flip
    <3> QED BY <2>1, <2>5, <3>2 DEF Kept, Promise!Next
  <2> QED BY <2>1, <2>5, <2>6, <2>7
<1> QED BY <1>1, <1>2

LEMMA RemoveKeeps ==
  ASSUME RowsInv, NEW l \in DOMAIN shareRows,
         shareRows' = RemoveShareRow(shareRows, l), opened' = opened
  PROVE  RowsInv' /\ Kept /\ DOMAIN shareRows' \subseteq DOMAIN shareRows
<1>1. DOMAIN shareRows' = DOMAIN shareRows \ {l}
  BY DEF RemoveShareRow
<1>2. \A x \in DOMAIN shareRows' : shareRows'[x] = shareRows[x]
  BY <1>1 DEF RemoveShareRow
<1>3. shareRows' \in [DOMAIN shareRows' -> Row]
  BY <1>1, <1>2 DEF RemoveShareRow, RowsInv
<1>4. RowsInv'
  BY <1>1, <1>2, <1>3 DEF RowsInv
<1>5. Promise!Gone(l)
  BY <1>1, <1>2 DEF Promise!Gone
<1> QED BY <1>1, <1>4, <1>5 DEF Kept, Promise!Next, RowsInv

LEMMA BornKeeps ==
  ASSUME RowsInv, NEW l \in ListId, l \notin DOMAIN shareRows,
         NEW s \in Slug, s \notin Taken(shareRows),
         shareRows' = Born(shareRows, l, s), opened' = opened
  PROVE  RowsInv' /\ Kept /\ DOMAIN shareRows' = DOMAIN shareRows \cup {l}
<1>1. DOMAIN shareRows' = DOMAIN shareRows \cup {l}
  BY DEF Born
<1>2. \A x \in DOMAIN shareRows' :
        shareRows'[x] = IF x = l THEN [slug |-> s, isShared |-> FALSE, isDraft |-> TRUE]
                                 ELSE shareRows[x]
  BY <1>1 DEF Born
<1>3. shareRows' \in [DOMAIN shareRows' -> Row]
  BY <1>1, <1>2 DEF Born, RowsInv, Row
<1>4. RowsInv'
  BY <1>1, <1>2, <1>3 DEF RowsInv, Taken
<1>5. Promise!Born(l, s)
  BY <1>1, <1>2 DEF Promise!Born, Promise!Free, Taken
<1> QED BY <1>1, <1>4, <1>5 DEF Kept, Promise!Next

-----------------------------------------------------------------------------
(* The steps                                                               *)

\* A step that leaves the rows and the visitors alone, and the requests at most
\* fewer, is one PublicLinks does not see.
LEMMA QuietKeeps ==
  ASSUME SharesInv, UNCHANGED serverVars, clock' = clock, shareJobs' \subseteq shareJobs
  PROVE  SharesInv' /\ Kept
BY DEF SharesInv, RowsInv, JobsInv, StoreInv, Names, serverVars, Kept, Promise!promise

\* A request starts: its number is new, and so is the id of the list it makes.
LEMMA StartKeeps ==
  ASSUME SharesInv, UNCHANGED serverVars,
         NEW control \in Control, NEW l \in ListId, NEW value \in BOOLEAN, NEW snap,
         Started(control, l, value, snap),
         control \in {"create", "duplicate"} => l = NewId
  PROVE  SharesInv' /\ Kept
<1> DEFINE job == [n |-> clock, done |-> FALSE, control |-> control, list |-> l,
                   value |-> value, snap |-> snap]
<1>1. /\ clock \in 0 .. ShareWrites /\ clock < ShareWrites /\ clock' = clock + 1
      /\ shareJobs' = shareJobs \cup {job} /\ clock \in Nat /\ clock' \in 0 .. ShareWrites
  BY SharesAssumption DEF SharesInv, JobsInv, Started
<1>2. /\ job.n = clock /\ job.list = l /\ job.control = control /\ job.value = value
      /\ job.done = FALSE
  OBVIOUS
<1> HIDE DEF job
<1>3. \A x \in DOMAIN shareRows : x <= clock /\ x \in Nat
  BY DEF SharesInv, JobsInv, RowsInv, ListId
<1>4. \A j \in shareJobs : j.n \in 0 .. clock - 1
  BY DEF SharesInv, JobsInv
<1>5. shareRows' = shareRows /\ store' = store /\ opened' = opened
  BY DEF serverVars
<1>6. \A x \in DOMAIN shareRows' : x <= clock'
  BY <1>1, <1>3, <1>5
<1>7. \A j \in shareJobs : j.n \in 0 .. clock' - 1 /\ j.n # clock
  BY <1>1, <1>4
<1>8. Names(job) => job.list = job.n + 1 /\ job.list \notin DOMAIN shareRows'
  BY <1>1, <1>2, <1>3, <1>5 DEF Names, NewId
<1>9. job.n \in 0 .. clock' - 1
  BY <1>1, <1>2
<1>10. \A j \in shareJobs' :
         /\ j.n \in 0 .. clock' - 1
         /\ j.control \in Control /\ j.list \in ListId /\ j.value \in BOOLEAN
         /\ Names(j) => j.list = j.n + 1 /\ (~ j.done => j.list \notin DOMAIN shareRows')
  <2> SUFFICES ASSUME NEW j \in shareJobs'
               PROVE  /\ j.n \in 0 .. clock' - 1
                      /\ j.control \in Control /\ j.list \in ListId /\ j.value \in BOOLEAN
                      /\ Names(j) => j.list = j.n + 1 /\ (~ j.done => j.list \notin DOMAIN shareRows')
    OBVIOUS
  <2>1. CASE j = job
    BY <2>1, <1>2, <1>8, <1>9
  <2>2. CASE j \in shareJobs
    BY <2>2, <1>5, <1>7 DEF SharesInv, JobsInv
  <2> QED BY <2>1, <2>2, <1>1
<1>11. \A i, j \in shareJobs' : i.n = j.n => i = j
  BY <1>1, <1>2, <1>7 DEF SharesInv, JobsInv
<1>12. JobsInv'
  BY <1>1, <1>6, <1>10, <1>11 DEF JobsInv, Names, ListId
<1>13. RowsInv' /\ StoreInv' /\ Kept
  BY <1>5 DEF SharesInv, RowsInv, StoreInv, Kept, Promise!promise
<1> QED BY <1>12, <1>13 DEF SharesInv

\* A visitor is shown the list that has the link and is public now, as no browser
\* has kept an older answer.
LEMMA VisitKeeps ==
  ASSUME SharesInv, NEW v \in Visitor, NEW s \in Slug, Visit(v, s)
  PROVE  SharesInv' /\ Kept
<1>1. store[v] = [x \in {} |-> {}]
  BY DEF SharesInv, StoreInv
<1>2. s \notin DOMAIN store[v]
  BY <1>1
<1>3. opened' = [opened EXCEPT ![v] = GetBySlug(s)]
  BY <1>2 DEF Visit
<1>4. store' = store
  BY <1>1 DEF Visit, Cache, SharesInv, StoreInv
<1>5. shareRows' = shareRows /\ shareJobs' = shareJobs /\ clock' = clock
  BY DEF Visit
<1>6. SharesInv'
  BY <1>3, <1>4, <1>5 DEF SharesInv, RowsInv, JobsInv, StoreInv, Names
<1>7. GetBySlug(s) =
        {l \in {l \in DOMAIN shareRows : shareRows[l].isShared} :
           [m \in DOMAIN shareRows |-> shareRows[m].slug][l] = s}
  BY DEF GetBySlug
<1>8. Promise!Open(v, s)
  BY <1>3, <1>5, <1>7 DEF Promise!Open
<1> QED BY <1>6, <1>8 DEF Kept, Promise!Next, Promise!promise

\* A write commits: its outcome is a step of one list, or none.
LEMMA OutcomeKeeps ==
  ASSUME SharesInv, NEW j \in shareJobs, ~ j.done,
         NEW draws \in [1 .. Tries -> Slug], shareRows' \in Outcome(j, draws), opened' = opened
  PROVE  /\ RowsInv' /\ Kept
         /\ DOMAIN shareRows' \subseteq DOMAIN shareRows \cup (IF Names(j) THEN {j.list} ELSE {})
<1>1. j.list \in ListId /\ j.value \in BOOLEAN /\ RowsInv
  BY DEF SharesInv, JobsInv
<1>2. Names(j) => j.list \notin DOMAIN shareRows
  BY DEF SharesInv, JobsInv
<1>3. CASE j.control \in Flag
  <2>1. shareRows' = UpdateList(shareRows, j.list, j.control, j.value)
    BY <1>3 DEF Outcome, Flag
  <2> QED BY <1>1, <1>3, <2>1, UpdateKeeps
<1>4. CASE j.control = "reset"
  <2>1. PICK s \in WithFreshSlug(shareRows, draws) : shareRows' = RotateShareLink(shareRows, j.list, s)
    BY <1>4 DEF Outcome, Flag
  <2> QED BY <1>1, <2>1, FreshIsFree, RotateKeeps
<1>5. CASE Names(j)
  <2>1. PICK s \in WithFreshSlug(shareRows, draws) : shareRows' = Born(shareRows, j.list, s)
    BY <1>5 DEF Outcome, Flag, Names, Duplicate
  <2> QED BY <1>1, <1>2, <1>5, <2>1, FreshIsFree, BornKeeps
<1>6. CASE j.control = "delete"
  <2>1. j.list \in DOMAIN shareRows /\ shareRows' = RemoveShareRow(shareRows, j.list)
    BY <1>6 DEF Outcome, Flag
  <2> QED BY <1>1, <2>1, RemoveKeeps
<1>7. j.control \in Control
  BY DEF SharesInv, JobsInv
<1> QED BY <1>3, <1>4, <1>5, <1>6, <1>7 DEF Names, Control

LEMMA CommitKeeps ==
  ASSUME SharesInv, NEW j \in shareJobs, Commit(j)
  PROVE  SharesInv' /\ Kept
<1> DEFINE k == [j EXCEPT !.done = TRUE]
<1>1. PICK draws \in [1 .. Tries -> Slug] : shareRows' \in Outcome(j, draws)
  BY DEF Commit
<1>2. /\ ~ j.done /\ store' = store /\ opened' = opened /\ clock' = clock
      /\ shareJobs' = (shareJobs \ {j}) \cup {k}
  BY DEF Commit
<1>3. /\ RowsInv' /\ Kept
      /\ DOMAIN shareRows' \subseteq DOMAIN shareRows \cup (IF Names(j) THEN {j.list} ELSE {})
  BY <1>1, <1>2, OutcomeKeeps
<1>4. StoreInv'
  BY <1>2 DEF SharesInv, StoreInv
<1>5. /\ k.n = j.n /\ k.control = j.control /\ k.list = j.list /\ k.value = j.value /\ k.done
  BY DEF SharesInv, JobsInv
<1> HIDE DEF k
<1>6. \A i \in shareJobs : i.n = j.n => i = j
  BY DEF SharesInv, JobsInv
<1>7. \A l \in DOMAIN shareRows' : l <= clock'
  BY <1>2, <1>3 DEF SharesInv, JobsInv, ListId
<1>8. ASSUME NEW i \in shareJobs' 
      PROVE  /\ i.n \in 0 .. clock' - 1
             /\ i.control \in Control /\ i.list \in ListId /\ i.value \in BOOLEAN
             /\ Names(i) => i.list = i.n + 1 /\ (~ i.done => i.list \notin DOMAIN shareRows')
  BY <1>2, <1>3, <1>5, <1>6 DEF SharesInv, JobsInv, Names
<1>9. \A i, m \in shareJobs' : i.n = m.n => i = m
  BY <1>2, <1>5, <1>6 DEF SharesInv, JobsInv
<1>10. JobsInv'
  BY <1>2, <1>7, <1>8, <1>9 DEF SharesInv, JobsInv, Names, ListId, Control
<1> QED BY <1>3, <1>4, <1>10 DEF SharesInv

\* Another tab of the owner: its writes are named like the page's, and make no list.
LEMMA OtherTabKeeps ==
  ASSUME SharesInv, OtherTab
  PROVE  SharesInv' /\ Kept
<1>1. /\ store' = store /\ opened' = opened /\ clock' = clock + 1 /\ shareJobs' = shareJobs
      /\ clock \in 0 .. ShareWrites /\ clock' \in 0 .. ShareWrites
  BY SharesAssumption DEF OtherTab, SharesInv, JobsInv
<1>2. RowsInv
  BY DEF SharesInv
<1>3. RowsInv' /\ Kept /\ DOMAIN shareRows' \subseteq DOMAIN shareRows
  <2>1. CASE \E l \in DOMAIN shareRows, flag \in Flag :
               shareRows' = UpdateList(shareRows, l, flag, ~ shareRows[l][flag])
    <3>1. PICK l \in DOMAIN shareRows, flag \in Flag :
                 shareRows' = UpdateList(shareRows, l, flag, ~ shareRows[l][flag])
      BY <2>1
    <3>2. l \in ListId /\ (~ shareRows[l][flag]) \in BOOLEAN
      BY <1>2 DEF RowsInv
    <3> QED BY <1>1, <1>2, <3>1, <3>2, UpdateKeeps
  <2>2. CASE \E l \in DOMAIN shareRows, draws \in [1 .. Tries -> Slug] :
               \E s \in WithFreshSlug(shareRows, draws) :
                 shareRows' = RotateShareLink(shareRows, l, s)
    <3>1. PICK l \in DOMAIN shareRows, draws \in [1 .. Tries -> Slug] :
               \E s \in WithFreshSlug(shareRows, draws) :
                 shareRows' = RotateShareLink(shareRows, l, s)
      BY <2>2
    <3>2. PICK s \in WithFreshSlug(shareRows, draws) : shareRows' = RotateShareLink(shareRows, l, s)
      BY <3>1
    <3>3. l \in ListId
      BY <1>2 DEF RowsInv
    <3> QED BY <1>1, <1>2, <3>2, <3>3, FreshIsFree, RotateKeeps
  <2>3. CASE \E l \in DOMAIN shareRows : shareRows' = RemoveShareRow(shareRows, l)
    BY <1>1, <1>2, <2>3, RemoveKeeps
  <2> QED BY <2>1, <2>2, <2>3 DEF OtherTab
<1>4. \A l \in DOMAIN shareRows' : l <= clock'
  BY <1>1, <1>3 DEF SharesInv, JobsInv, RowsInv, ListId
<1>5. \A j \in shareJobs' :
        /\ j.n \in 0 .. clock' - 1
        /\ j.control \in Control /\ j.list \in ListId /\ j.value \in BOOLEAN
        /\ Names(j) => j.list = j.n + 1 /\ (~ j.done => j.list \notin DOMAIN shareRows')
  BY <1>1, <1>3 DEF SharesInv, JobsInv, Names
<1>6. \A i, j \in shareJobs' : i.n = j.n => i = j
  BY <1>1 DEF SharesInv, JobsInv
<1>7. JobsInv'
  BY <1>1, <1>4, <1>5, <1>6 DEF JobsInv, Names, ListId, Control
<1>8. StoreInv'
  BY <1>1 DEF SharesInv, StoreInv
<1> QED BY <1>3, <1>7, <1>8 DEF SharesInv

\* One step of the account, whoever takes it.
LEMMA SharesStep ==
  ASSUME SharesInv, [SharesNext]_shareVars
  PROVE  SharesInv' /\ Kept
<1>1. CASE UNCHANGED shareVars
  BY <1>1, QuietKeeps DEF shareVars, serverVars
<1>2. CASE \E v \in Visitor, s \in Slug : Visit(v, s)
  BY <1>2, VisitKeeps
<1>3. CASE AnswerLists \/ LandLists \/ FailLists \/ Paint
  BY <1>3, QuietKeeps DEF AnswerLists, LandLists, FailLists, Paint
<1>4. CASE AskReset \/ CancelReset \/ OpenForm \/ CloseForm
  BY <1>4, QuietKeeps DEF AskReset, CancelReset, OpenForm, CloseForm
<1>5. CASE \E flag \in Flag : Toggle(flag)
  <2>1. PICK flag \in Flag : Toggle(flag)
    BY <1>5
  <2>2. Started(flag, Panel, ~ shown[Panel][flag], {shown}) /\ UNCHANGED serverVars
    BY <2>1 DEF Toggle
  <2>3. Panel \in ListId /\ (~ shown[Panel][flag]) \in BOOLEAN
    BY SharesAssumption DEF Panel, ListId
  <2>4. flag \in Control /\ flag \notin {"create", "duplicate"}
    BY DEF Flag, Control
  <2> QED BY <2>2, <2>3, <2>4, StartKeeps
<1>6. CASE ResetLink
  <2>1. Panel \in ListId
    BY SharesAssumption DEF Panel, ListId
  <2> QED BY <1>6, <2>1, StartKeeps DEF ResetLink, Control
<1>7. CASE SubmitCreate \/ DuplicateList
  <2>1. NewId \in ListId
    BY <1>7, SharesAssumption DEF NewId, ListId, SubmitCreate, DuplicateList, Started,
       SharesInv, JobsInv
  <2>2. CASE SubmitCreate
    BY <2>1, <2>2, StartKeeps DEF SubmitCreate, Control
  <2>3. CASE DuplicateList
    BY <2>1, <2>3, StartKeeps DEF DuplicateList, Control
  <2> QED BY <1>7, <2>2, <2>3
<1>8. CASE \E l \in ListId : DeleteList(l)
  BY <1>8, StartKeeps DEF DeleteList, Control
<1>9. CASE \E j \in shareJobs : Commit(j)
  BY <1>9, CommitKeeps
<1>10. CASE \E j \in shareJobs : Settled(j) \/ Failed(j)
  BY <1>10, QuietKeeps DEF Settled, Failed
<1>11. CASE OtherTab
  BY <1>11, OtherTabKeeps
<1> QED BY <1>1, <1>2, <1>3, <1>4, <1>5, <1>6, <1>7, <1>8, <1>9, <1>10, <1>11 DEF SharesNext

LEMMA SharesBegin ==
  ASSUME SharesInit
  PROVE  SharesInv /\ Promise!Init
<1>1. PICK shared \in BOOLEAN :
        shareRows = [l \in {Panel} |-> [slug |-> CHOOSE s \in Slug : TRUE,
                                        isShared |-> shared, isDraft |-> TRUE]]
  BY DEF SharesInit
<1>2. (CHOOSE s \in Slug : TRUE) \in Slug
  BY SharesAssumption
<1>3. Panel = 0 /\ Panel \in ListId
  BY SharesAssumption DEF Panel, ListId
<1>4. DOMAIN shareRows = {Panel} /\ shareRows[Panel] \in Row
  BY <1>1, <1>2 DEF Row
<1>5. shareRows \in [DOMAIN shareRows -> Row]
  BY <1>1, <1>4
<1>6. RowsInv
  BY <1>3, <1>4, <1>5 DEF RowsInv
<1>7. JobsInv
  BY <1>3, <1>4, SharesAssumption DEF SharesInit, JobsInv
<1>8. StoreInv
  BY DEF SharesInit, StoreInv
<1>9. [l \in DOMAIN shareRows |-> shareRows[l].slug] \in [{Panel} -> Slug]
  BY <1>4 DEF Row
<1>10. Promise!Init
  <2>1. {Panel} \in SUBSET ListId
    BY <1>3
  <2>2. [l \in DOMAIN shareRows |-> shareRows[l].slug] \in UNION {[D -> Slug] : D \in SUBSET ListId}
    BY <1>9, <2>1
  <2>3. {l \in DOMAIN shareRows : shareRows[l].isShared}
          \subseteq DOMAIN [l \in DOMAIN shareRows |-> shareRows[l].slug]
    OBVIOUS
  <2>4. \A l, m \in DOMAIN [x \in DOMAIN shareRows |-> shareRows[x].slug] : l = m
    BY <1>4
  <2>5. opened = [v \in Visitor |-> {}]
    BY DEF SharesInit
  <2> QED BY <2>2, <2>3, <2>4, <2>5 DEF Promise!Init
<1> QED BY <1>6, <1>7, <1>8, <1>10 DEF SharesInv

\* Whatever the owner, the other tabs and the visitors do, and in whatever order
\* requests commit and answers get lost, a link opens the list that has it and is
\* public at that moment, every list is born private, and no two lists ever have one
\* link (server/repos/lists.ts, server/repos/share.ts): the rows implement PublicLinks.
THEOREM LinksKeepPromise == SharesSpec => LinkPromise
<1>1. SharesSpec => []SharesInv
  BY SharesBegin, SharesStep, PTL DEF SharesSpec
<1>2. SharesInv /\ [SharesNext]_shareVars => [Promise!Next]_(Promise!promise)
  BY SharesStep DEF Kept
<1>3. SharesInit => Promise!Init
  BY SharesBegin
<1> QED BY <1>1, <1>2, <1>3, PTL DEF SharesSpec, LinkPromise, Promise!Spec
-----------------------------------------------------------------------------
(* What the owner asked for                                                *)

\* The controls that stay disabled while their own request is under way.
Sole == Flag \cup {"reset", "create"}

\* One request of each such control at a time; a flag's request carries what the
\* owner last asked; with none that may still commit, the row agrees.
IntentInv ==
  /\ meant \in [Flag -> SUBSET BOOLEAN]
  /\ \A i, j \in shareJobs : i.control = j.control /\ i.control \in Sole => i = j
  /\ \A j \in shareJobs : j.control \in Flag => j.list = Panel /\ meant[j.control] \subseteq {j.value}
  /\ \A flag \in Flag :
       (/\ meant[flag] # {} /\ Panel \in DOMAIN shareRows
        /\ \A j \in shareJobs : j.control = flag => j.done)
         => shareRows[Panel][flag] \in meant[flag]

\* With no request under way, a read that was answered, and the cache unless a read
\* is to come, are the rows.
HeldInv ==
  (shareJobs = {} /\ ~ outdated) =>
     /\ listRead.at = "answered" => listRead.shareRows = shareRows
     /\ (listRead.at = "none" /\ ~ listStale) => shown = shareRows

\* What may still be counted for an intent of the owner was not counted yet.
CountInv ==
  /\ tally \in [resets : {0, 1}, made : {0, 1}]
  /\ \A j \in shareJobs : j.control = "reset" /\ ~ j.done => tally.resets = 0
  /\ (confirm /\ "reset" \notin BusyFlags) => tally.resets = 0
  /\ \A j \in shareJobs : j.control = "create" /\ ~ j.done => tally.made = 0
  /\ (form /\ "create" \notin BusyFlags) => tally.made = 0

\* The steps that change no request and no row, and none of the owner's intents.
Still == UNCHANGED <<shareRows, shareJobs, meant>>

LEMMA StillSteps ==
  ASSUME \/ \E v \in Visitor, s \in Slug : Visit(v, s)
         \/ AnswerLists \/ LandLists \/ FailLists \/ Paint
         \/ AskReset \/ CancelReset \/ OpenForm \/ CloseForm \/ UNCHANGED shareVars
  PROVE  Still
BY DEF Still, Visit, AnswerLists, LandLists, FailLists, Paint, AskReset, CancelReset, OpenForm,
       CloseForm, shareVars, serverVars, noteVars

\* The steps that start a request of something else than a flag.
Other(control) ==
  /\ \E l, snap : Started(control, l, FALSE, snap)
  /\ control \in Sole => control \notin BusyFlags
  /\ (control = "reset" => confirm) /\ (control = "create" => form)
  /\ UNCHANGED <<shareRows, meant, tally, confirm, form, outdated>>

LEMMA StartSteps ==
  ASSUME ResetLink \/ SubmitCreate \/ DuplicateList \/ (\E l \in ListId : DeleteList(l))
  PROVE  \E control \in Control \ Flag : Other(control)
<1>1. CASE ResetLink
  <2>1. Other("reset")
    BY <1>1 DEF Other, ResetLink, NotResetting, NotPending, serverVars, noteVars, pageVars
  <2> QED BY <2>1 DEF Control, Flag
<1>2. CASE SubmitCreate
  <2>1. Other("create")
    BY <1>2 DEF Other, SubmitCreate, NoCreatePending, NotPending, serverVars, noteVars,
       pageVars
  <2> QED BY <2>1 DEF Control, Flag
<1>3. CASE DuplicateList
  <2>1. Other("duplicate")
    BY <1>3 DEF Other, DuplicateList, Sole, Flag, serverVars, noteVars, pageVars
  <2> QED BY <2>1 DEF Control, Flag
<1>4. CASE \E l \in ListId : DeleteList(l)
  <2>1. Other("delete")
    BY <1>4 DEF Other, DeleteList, Sole, Flag, serverVars, noteVars, pageVars
  <2> QED BY <2>1 DEF Control, Flag
<1> QED BY <1>1, <1>2, <1>3, <1>4

\* A commit changes at most the flag of the panel's list that it is a request of.
LEMMA CommitFlags ==
  ASSUME SharesInv, NEW j \in shareJobs, Commit(j), Panel \in DOMAIN shareRows', NEW flag \in Flag
  PROVE  /\ Panel \in DOMAIN shareRows
         /\ j.control # flag => shareRows'[Panel][flag] = shareRows[Panel][flag]
         /\ (j.control = flag /\ j.list = Panel) => shareRows'[Panel][flag] = j.value
<1>1. PICK draws \in [1 .. Tries -> Slug] : shareRows' \in Outcome(j, draws)
  BY DEF Commit
<1>2. j.control \in Control /\ (Names(j) => j.list = j.n + 1) /\ j.n \in Nat
  BY DEF SharesInv, JobsInv
<1>3. \A x \in DOMAIN shareRows : shareRows[x] \in Row
  BY DEF SharesInv, RowsInv
<1>4. CASE j.control \in Flag
  <2>1. shareRows' = UpdateList(shareRows, j.list, j.control, j.value)
    BY <1>1, <1>4 DEF Outcome, Flag
  <2>2. CASE j.control = "isShared"
    BY <1>3, <2>1, <2>2 DEF UpdateList, Row, Flag
  <2>3. CASE j.control = "isDraft"
    BY <1>3, <2>1, <2>3 DEF UpdateList, Row, Flag
  <2> QED BY <1>4, <2>2, <2>3 DEF Flag
<1>5. CASE j.control = "reset"
  <2>1. PICK s \in WithFreshSlug(shareRows, draws) : shareRows' = RotateShareLink(shareRows, j.list, s)
    BY <1>1, <1>5 DEF Outcome, Flag
  <2> QED BY <1>3, <1>5, <2>1 DEF RotateShareLink, Row, Flag
<1>6. CASE Names(j)
  <2>1. PICK s \in WithFreshSlug(shareRows, draws) : shareRows' = Born(shareRows, j.list, s)
    BY <1>1, <1>6 DEF Outcome, Flag, Names, Duplicate
  <2>2. j.list # Panel
    BY <1>2, <1>6 DEF Panel
  <2> QED BY <1>6, <2>1, <2>2 DEF Born, Names, Flag
<1>7. CASE j.control = "delete"
  <2>1. shareRows' = RemoveShareRow(shareRows, j.list)
    BY <1>1, <1>7 DEF Outcome, Flag
  <2> QED BY <1>7, <2>1 DEF RemoveShareRow, Flag
<1> QED BY <1>2, <1>4, <1>5, <1>6, <1>7 DEF Names, Control

\* Another tab that touches a flag makes the owner's intent unknown; one that does
\* not leaves the panel's flags.
LEMMA OtherTabFlags ==
  ASSUME SharesInv, OtherTab, meant \in [Flag -> SUBSET BOOLEAN]
  PROVE  /\ meant' \in [Flag -> SUBSET BOOLEAN]
         /\ \A flag \in Flag : meant'[flag] \subseteq meant[flag]
         /\ \A flag \in Flag : (meant'[flag] # {} /\ Panel \in DOMAIN shareRows')
              => Panel \in DOMAIN shareRows /\ shareRows'[Panel][flag] = shareRows[Panel][flag]
<1>1. \A x \in DOMAIN shareRows : shareRows[x] \in Row
  BY DEF SharesInv, RowsInv
<1>2. CASE \E l \in DOMAIN shareRows, flag \in Flag :
             /\ shareRows' = UpdateList(shareRows, l, flag, ~ shareRows[l][flag])
             /\ meant' = [meant EXCEPT ![flag] = {}]
  <2>1. PICK l \in DOMAIN shareRows, flag \in Flag :
             /\ shareRows' = UpdateList(shareRows, l, flag, ~ shareRows[l][flag])
             /\ meant' = [meant EXCEPT ![flag] = {}]
    BY <1>2
  <2>2. CASE flag = "isShared"
    BY <1>1, <2>1, <2>2 DEF UpdateList, Row, Flag
  <2>3. CASE flag = "isDraft"
    BY <1>1, <2>1, <2>3 DEF UpdateList, Row, Flag
  <2> QED BY <2>2, <2>3 DEF Flag
<1>3. CASE \E l \in DOMAIN shareRows, draws \in [1 .. Tries -> Slug] :
             \E s \in WithFreshSlug(shareRows, draws) :
               shareRows' = RotateShareLink(shareRows, l, s) /\ UNCHANGED meant
  <2>1. PICK l \in DOMAIN shareRows :
          \E s : shareRows' = RotateShareLink(shareRows, l, s) /\ UNCHANGED meant
    BY <1>3
  <2>2. PICK s : shareRows' = RotateShareLink(shareRows, l, s) /\ UNCHANGED meant
    BY <2>1
  <2> QED BY <1>1, <2>2 DEF RotateShareLink, Row, Flag
<1>4. CASE \E l \in DOMAIN shareRows :
             shareRows' = RemoveShareRow(shareRows, l) /\ meant' = [flag \in Flag |-> {}]
  BY <1>4 DEF RemoveShareRow
<1> QED BY <1>2, <1>3, <1>4 DEF OtherTab

LEMMA IntentStep ==
  ASSUME SharesInv, IntentInv, [SharesNext]_shareVars
  PROVE  IntentInv'
<1>1. CASE Still
  BY <1>1 DEF Still, IntentInv
<1>2. CASE \E flag \in Flag : Toggle(flag)
  <2>1. PICK flag \in Flag : Toggle(flag)
    BY <1>2
  <2> DEFINE value == ~ shown[Panel][flag]
             job == [n |-> clock, done |-> FALSE, control |-> flag, list |-> Panel,
                     value |-> value, snap |-> {shown}]
  <2>2. /\ shareJobs' = shareJobs \cup {job} /\ shareRows' = shareRows
        /\ meant' = [meant EXCEPT ![flag] = {value}] /\ flag \notin BusyFlags
    BY <2>1 DEF Toggle, Started, NotPending, serverVars
  <2>3. job.control = flag /\ job.list = Panel /\ job.value = value /\ ~ job.done /\ value \in BOOLEAN
    OBVIOUS
  <2> HIDE DEF job, value
  <2>4. \A j \in shareJobs : j.control # flag
    BY <2>2 DEF BusyFlags
  <2>5. /\ meant' \in [Flag -> SUBSET BOOLEAN] /\ meant'[flag] = {value}
        /\ \A g \in Flag : g # flag => meant'[g] = meant[g]
    BY <2>2, <2>3 DEF IntentInv
  <2>6. \A i, j \in shareJobs' : i.control = j.control /\ i.control \in Sole => i = j
    BY <2>2, <2>3, <2>4 DEF IntentInv
  <2>7. \A j \in shareJobs' : j.control \in Flag => j.list = Panel /\ meant'[j.control] \subseteq {j.value}
    BY <2>2, <2>3, <2>4, <2>5 DEF IntentInv
  <2>8. ASSUME NEW g \in Flag, meant'[g] # {}, Panel \in DOMAIN shareRows',
               \A j \in shareJobs' : j.control = g => j.done
        PROVE  shareRows'[Panel][g] \in meant'[g]
    BY <2>2, <2>3, <2>5, <2>8 DEF IntentInv
  <2> QED BY <2>5, <2>6, <2>7, <2>8 DEF IntentInv
<1>3. CASE \E control \in Control \ Flag : Other(control)
  <2>1. PICK control \in Control \ Flag : Other(control)
    BY <1>3
  <2>2. PICK l, snap : Started(control, l, FALSE, snap)
    BY <2>1 DEF Other
  <2> DEFINE job == [n |-> clock, done |-> FALSE, control |-> control, list |-> l,
                     value |-> FALSE, snap |-> snap]
  <2>3. /\ shareJobs' = shareJobs \cup {job} /\ shareRows' = shareRows /\ meant' = meant
        /\ control \in Sole => \A j \in shareJobs : j.control # control
    BY <2>1, <2>2 DEF Other, Started, BusyFlags
  <2>4. job.control = control /\ control \notin Flag
    OBVIOUS
  <2> HIDE DEF job
  <2>5. \A i, j \in shareJobs' : i.control = j.control /\ i.control \in Sole => i = j
    BY <2>3, <2>4 DEF IntentInv
  <2> QED BY <2>3, <2>4, <2>5 DEF IntentInv
<1>4. CASE \E j \in shareJobs : Commit(j)
  <2>1. PICK j \in shareJobs : Commit(j)
    BY <1>4
  <2> DEFINE k == [j EXCEPT !.done = TRUE]
  <2>2. shareJobs' = (shareJobs \ {j}) \cup {k} /\ meant' = meant /\ ~ j.done
    BY <2>1 DEF Commit
  <2>3. k.control = j.control /\ k.list = j.list /\ k.value = j.value
    OBVIOUS
  <2> HIDE DEF k
  <2>4. \A i, m \in shareJobs' : i.control = m.control /\ i.control \in Sole => i = m
    BY <2>2, <2>3 DEF IntentInv
  <2>5. \A i \in shareJobs' : i.control \in Flag => i.list = Panel /\ meant'[i.control] \subseteq {i.value}
    BY <2>2, <2>3 DEF IntentInv
  <2>6. ASSUME NEW flag \in Flag, meant'[flag] # {}, Panel \in DOMAIN shareRows',
               \A i \in shareJobs' : i.control = flag => i.done
        PROVE  shareRows'[Panel][flag] \in meant'[flag]
    <3>1. CASE j.control = flag
      <4>1. shareRows'[Panel][flag] = j.value /\ meant[flag] \subseteq {j.value}
        BY <2>1, <2>6, <3>1, CommitFlags DEF IntentInv
      <4> QED BY <2>2, <2>6, <4>1
    <3>2. CASE j.control # flag
      <4>1. \A i \in shareJobs : i.control = flag => i.done
        BY <2>2, <2>6, <3>2
      <4>2. Panel \in DOMAIN shareRows /\ shareRows'[Panel][flag] = shareRows[Panel][flag]
        BY <2>1, <2>6, <3>2, CommitFlags
      <4> QED BY <2>2, <2>6, <4>1, <4>2 DEF IntentInv
    <3> QED BY <3>1, <3>2
  <2> QED BY <2>2, <2>4, <2>5, <2>6 DEF IntentInv
<1>5. CASE \E j \in shareJobs : Settled(j)
  <2>1. PICK j \in shareJobs : Settled(j)
    BY <1>5
  <2>2. shareJobs' = shareJobs \ {j} /\ meant' = meant /\ shareRows' = shareRows /\ j.done
    BY <2>1 DEF Settled, noteVars, serverVars
  <2> QED BY <2>2 DEF IntentInv
<1>6. CASE \E j \in shareJobs : Failed(j)
  <2>1. PICK j \in shareJobs : Failed(j)
    BY <1>6
  <2>2. /\ shareJobs' = shareJobs \ {j} /\ shareRows' = shareRows
        /\ meant' = IF j.control \in Flag THEN [meant EXCEPT ![j.control] = {}] ELSE meant
    BY <2>1 DEF Failed, serverVars
  <2>3. /\ meant' \in [Flag -> SUBSET BOOLEAN]
        /\ \A flag \in Flag : meant'[flag] = IF j.control = flag THEN {} ELSE meant[flag]
    BY <2>2 DEF IntentInv
  <2> QED BY <2>2, <2>3 DEF IntentInv
<1>7. CASE OtherTab
  <2>1. shareJobs' = shareJobs
    BY <1>7 DEF OtherTab
  <2>2. /\ meant' \in [Flag -> SUBSET BOOLEAN]
        /\ \A flag \in Flag : meant'[flag] \subseteq meant[flag]
        /\ \A flag \in Flag : (meant'[flag] # {} /\ Panel \in DOMAIN shareRows')
             => Panel \in DOMAIN shareRows /\ shareRows'[Panel][flag] = shareRows[Panel][flag]
    BY <1>7, OtherTabFlags DEF IntentInv
  <2>3. \A flag \in Flag : meant'[flag] # {} => meant'[flag] = meant[flag]
    BY <1>7 DEF OtherTab, IntentInv
  <2> QED BY <2>1, <2>2, <2>3 DEF IntentInv
<1> QED BY <1>1, <1>2, <1>3, <1>4, <1>5, <1>6, <1>7, StillSteps, StartSteps DEF SharesNext

\* Every write is followed by a read, and what a read brings is what holds unless a
\* request is under way or another tab wrote.
LEMMA WishStep ==
  ASSUME HeldInv, [SharesNext]_shareVars
  PROVE  HeldInv'
<1>1. CASE AnswerLists
  BY <1>1 DEF AnswerLists, HeldInv, serverVars
<1>2. CASE LandLists
  BY <1>2 DEF LandLists, HeldInv, NoListRead, serverVars, noteVars
<1>3. CASE FailLists
  BY <1>3 DEF FailLists, HeldInv, NoListRead, serverVars, noteVars
<1>4. CASE UNCHANGED <<shareRows, shareJobs, outdated, cacheVars>>
  BY <1>4 DEF HeldInv, cacheVars
<1>5. CASE shareJobs' # {}
  BY <1>5 DEF HeldInv
<1>6. CASE \E j \in shareJobs : Settled(j) \/ Failed(j)
  <2>1. listRead' = [at |-> "asked"]
    BY <1>6 DEF Settled, Failed, OnSettled
  <2> QED BY <2>1 DEF HeldInv
<1>7. CASE outdated' = TRUE
  BY <1>7 DEF HeldInv
<1>8. (\E control, l, value, snap : Started(control, l, value, snap)) => shareJobs' # {}
  BY DEF Started
<1>9. (\E flag \in Flag : Toggle(flag)) \/ ResetLink \/ SubmitCreate \/ DuplicateList
        \/ (\E l \in ListId : DeleteList(l)) => shareJobs' # {}
  BY <1>8 DEF Toggle, ResetLink, SubmitCreate, DuplicateList, DeleteList
<1>10. (\E j \in shareJobs : Commit(j)) => shareJobs' # {}
  BY DEF Commit
<1>11. (\E v \in Visitor, s \in Slug : Visit(v, s)) \/ Paint \/ AskReset \/ CancelReset
         \/ OpenForm \/ CloseForm \/ UNCHANGED shareVars
           => UNCHANGED <<shareRows, shareJobs, outdated, cacheVars>>
  BY DEF Visit, Paint, AskReset, CancelReset, OpenForm, CloseForm, shareVars, serverVars,
         cacheVars, noteVars
<1>12. OtherTab => outdated' = TRUE
  BY DEF OtherTab
<1> QED BY <1>1, <1>2, <1>3, <1>4, <1>5, <1>6, <1>7, <1>9, <1>10, <1>11, <1>12 DEF SharesNext

\* A commit is counted once for the intent behind it: the request of a control is the
\* only one, and what opens the next intent starts the count anew.
LEMMA CountStep ==
  ASSUME IntentInv, CountInv, [SharesNext]_shareVars
  PROVE  CountInv'
<1>1. CASE UNCHANGED <<shareJobs, confirm, form, tally>>
  BY <1>1 DEF CountInv, BusyFlags
<1>2. CASE AskReset \/ CancelReset \/ OpenForm \/ CloseForm
  <2>1. shareJobs' = shareJobs
    BY <1>2 DEF AskReset, CancelReset, OpenForm, CloseForm
  <2>2. CASE AskReset
    BY <2>1, <2>2 DEF AskReset, CountInv, BusyFlags
  <2>3. CASE OpenForm
    BY <2>1, <2>3 DEF OpenForm, CountInv, BusyFlags
  <2>4. CASE CancelReset \/ CloseForm
    BY <2>1, <2>4 DEF CancelReset, CloseForm, CountInv, BusyFlags, noteVars
  <2> QED BY <1>2, <2>2, <2>3, <2>4
<1>3. CASE \E control \in Control \ Flag : Other(control)
  <2>1. PICK control \in Control \ Flag : Other(control)
    BY <1>3
  <2>2. PICK l, snap : Started(control, l, FALSE, snap)
    BY <2>1 DEF Other
  <2> DEFINE job == [n |-> clock, done |-> FALSE, control |-> control, list |-> l,
                     value |-> FALSE, snap |-> snap]
  <2>3. shareJobs' = shareJobs \cup {job} /\ tally' = tally /\ confirm' = confirm /\ form' = form
    BY <2>1, <2>2 DEF Started, Other
  <2>4. job.control = control
    OBVIOUS
  <2> HIDE DEF job
  <2>5. BusyFlags' = BusyFlags \cup {control}
    BY <2>3, <2>4 DEF BusyFlags
  <2>6. /\ control = "reset" => tally.resets = 0
        /\ control = "create" => tally.made = 0
    BY <2>1 DEF Other, Sole, CountInv
  <2> QED BY <2>3, <2>4, <2>5, <2>6 DEF CountInv
<1>4. CASE \E flag \in Flag : Toggle(flag)
  <2>1. PICK flag \in Flag : Toggle(flag)
    BY <1>4
  <2> DEFINE job == [n |-> clock, done |-> FALSE, control |-> flag, list |-> Panel,
                     value |-> ~ shown[Panel][flag], snap |-> {shown}]
  <2>2. shareJobs' = shareJobs \cup {job} /\ job.control = flag
    BY <2>1 DEF Toggle, Started
  <2> HIDE DEF job
  <2>3. tally' = tally /\ confirm' = confirm /\ form' = form
    BY <2>1 DEF Toggle, pageVars
  <2>4. BusyFlags' = BusyFlags \cup {flag} /\ flag \notin {"reset", "create"}
    BY <2>2 DEF BusyFlags, Flag
  <2> QED BY <2>2, <2>3, <2>4 DEF CountInv
<1>5. CASE \E j \in shareJobs : Commit(j)
  <2>1. PICK j \in shareJobs : Commit(j)
    BY <1>5
  <2> DEFINE k == [j EXCEPT !.done = TRUE]
  <2>2. /\ shareJobs' = (shareJobs \ {j}) \cup {k} /\ ~ j.done /\ confirm' = confirm /\ form' = form
        /\ tally' = [tally EXCEPT !.resets = IF j.control = "reset" THEN @ + 1 ELSE @,
                                  !.made   = IF j.control = "create" THEN @ + 1 ELSE @]
    BY <2>1 DEF Commit, pageVars
  <2>3. k.control = j.control
    OBVIOUS
  <2>4. \A i \in shareJobs' : i.control = j.control /\ j.control \in Sole => i = k
    BY <2>2, <2>3 DEF IntentInv
  <2>5. k.done = TRUE
    BY <2>2
  <2> HIDE DEF k
  <2>6. BusyFlags' = BusyFlags
    BY <2>2, <2>3 DEF BusyFlags
  <2>7. /\ tally' \in [resets : {0, 1}, made : {0, 1}]
        /\ j.control # "reset" => tally'.resets = tally.resets
        /\ j.control # "create" => tally'.made = tally.made
    <3>1. j.control = "reset" => tally.resets = 0
      BY <2>2 DEF CountInv
    <3>2. j.control = "create" => tally.made = 0
      BY <2>2 DEF CountInv
    <3>3. tally \in [resets : {0, 1}, made : {0, 1}]
      BY DEF CountInv
    <3> DEFINE r == IF j.control = "reset" THEN tally.resets + 1 ELSE tally.resets
               m == IF j.control = "create" THEN tally.made + 1 ELSE tally.made
    <3>4. /\ r \in {0, 1} /\ (j.control # "reset" => r = tally.resets)
          /\ m \in {0, 1} /\ (j.control # "create" => m = tally.made)
      BY <3>1, <3>2, <3>3
    <3>5. tally' = [tally EXCEPT !.resets = r, !.made = m]
      BY <2>2
    <3> HIDE DEF r, m
    <3> QED BY <3>3, <3>4, <3>5
  <2>8. "reset" \in Sole /\ "create" \in Sole
    BY DEF Sole
  <2>9. j.control \in BusyFlags
    BY DEF BusyFlags
  <2> QED BY <2>2, <2>4, <2>5, <2>6, <2>7, <2>8, <2>9 DEF CountInv
<1>6. CASE \E j \in shareJobs : Settled(j) \/ Failed(j)
  <2>1. PICK j \in shareJobs : Settled(j) \/ Failed(j)
    BY <1>6
  <2>2. /\ shareJobs' = shareJobs \ {j}
        /\ confirm' = (confirm /\ j.control # "reset")
        /\ \/ form' = (form /\ j.control # "create") /\ tally' = tally
           \/ /\ form' = form
              /\ tally' = IF j.control = "create" THEN [tally EXCEPT !.made = 0] ELSE tally
    BY <2>1 DEF Settled, Failed, noteVars
  <2>3. \A c \in BusyFlags : c # j.control => c \in BusyFlags'
    BY <2>2 DEF BusyFlags
  <2>4. /\ tally' \in [resets : {0, 1}, made : {0, 1}]
        /\ tally'.resets = tally.resets
        /\ tally'.made \in {tally.made, 0}
        /\ (form' /\ j.control = "create") => tally'.made = 0
    BY <2>2 DEF CountInv
  <2>5. /\ \A i \in shareJobs' : i.control = "reset" /\ ~ i.done => tally'.resets = 0
        /\ \A i \in shareJobs' : i.control = "create" /\ ~ i.done => tally'.made = 0
    BY <2>2, <2>4 DEF CountInv
  <2>6. (confirm' /\ "reset" \notin BusyFlags') => tally'.resets = 0
    BY <2>2, <2>3, <2>4 DEF CountInv
  <2>7. (form' /\ "create" \notin BusyFlags') => tally'.made = 0
    BY <2>2, <2>3, <2>4 DEF CountInv
  <2> QED BY <2>4, <2>5, <2>6, <2>7 DEF CountInv
<1>7. CASE OtherTab
  BY <1>1, <1>7 DEF OtherTab, pageVars
<1>8. (\E v \in Visitor, s \in Slug : Visit(v, s)) \/ AnswerLists \/ LandLists \/ FailLists
        \/ Paint \/ UNCHANGED shareVars => UNCHANGED <<shareJobs, confirm, form, tally>>
  BY DEF Visit, AnswerLists, LandLists, FailLists, Paint, shareVars, pageVars, noteVars
<1> QED BY <1>1, <1>2, <1>3, <1>4, <1>5, <1>6, <1>7, <1>8, StartSteps DEF SharesNext

LEMMA OwnerBegin ==
  ASSUME SharesInit
  PROVE  IntentInv /\ HeldInv /\ CountInv
<1>1. shareJobs = {} /\ meant = [flag \in Flag |-> {}]
  BY DEF SharesInit
<1>2. IntentInv
  BY <1>1 DEF IntentInv
<1>3. HeldInv
  BY DEF SharesInit, HeldInv, NoListRead
<1>4. CountInv
  BY DEF SharesInit, CountInv
<1> QED BY <1>2, <1>3, <1>4

\* However clicks, requests, lost answers, reads and the other tabs fall between each
\* other: once a request is answered the flag is as the owner last asked, a page at
\* rest shows the rows, one confirmation burns one link and one form makes one list
\* (lists/use-list-flag-toggle.ts, lists/PrivacyPanel.tsx, lists/use-current-list-actions.ts).
THEOREM OwnerIsObeyed == SharesSpec => []OwnerObeyed
<1>1. SharesInit => SharesInv /\ IntentInv /\ HeldInv /\ CountInv
  BY SharesBegin, OwnerBegin
<1>2. SharesInv /\ IntentInv /\ HeldInv /\ CountInv /\ [SharesNext]_shareVars
        => (SharesInv /\ IntentInv /\ HeldInv /\ CountInv)'
  BY SharesStep, IntentStep, WishStep, CountStep
<1>3. IntentInv /\ HeldInv /\ CountInv => OwnerObeyed
  BY DEF IntentInv, HeldInv, CountInv, OwnerObeyed, IntentKept, ShownIsHeld, OneResetPerConfirm,
         OneListPerForm, BusyFlags
<1> QED BY <1>1, <1>2, <1>3, PTL DEF SharesSpec
=============================================================================
