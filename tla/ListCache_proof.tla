--------------------------- MODULE ListCache_proof ---------------------------
(***************************************************************************)
(* Proofs about ListCache, for any rows, fields, kinds of write and any    *)
(* finite number of writes under way together.                             *)
(***************************************************************************)
EXTENDS ListCache, FiniteSetTheorems, TLAPS

(* What the operators on documents return.                                 *)

LEMMA DocumentFacts ==
  ASSUME NEW d
  PROVE  d \in Document <=> /\ DOMAIN d \subseteq Key
                            /\ d \in [DOMAIN d -> [Field -> BOOLEAN]]
<1>1. ASSUME d \in Document
      PROVE  DOMAIN d \subseteq Key /\ d \in [DOMAIN d -> [Field -> BOOLEAN]]
  <2>1. PICK S \in SUBSET Key : d \in [S -> [Field -> BOOLEAN]]
    BY <1>1 DEF Document
  <2> QED
    BY <2>1
<1>2. ASSUME DOMAIN d \subseteq Key, d \in [DOMAIN d -> [Field -> BOOLEAN]]
      PROVE  d \in Document
  BY <1>2 DEF Document
<1> QED
  BY <1>1, <1>2

LEMMA PatchFacts ==
  ASSUME NEW p
  PROVE  p \in Patch <=> DOMAIN p \subseteq Cell /\ p \in [DOMAIN p -> BOOLEAN]
<1>1. ASSUME p \in Patch PROVE DOMAIN p \subseteq Cell /\ p \in [DOMAIN p -> BOOLEAN]
  <2>1. PICK C \in SUBSET Cell : p \in [C -> BOOLEAN]
    BY <1>1 DEF Patch
  <2> QED
    BY <2>1
<1>2. ASSUME DOMAIN p \subseteq Cell, p \in [DOMAIN p -> BOOLEAN] PROVE p \in Patch
  BY <1>2 DEF Patch
<1> QED
  BY <1>1, <1>2

\* A patch changes the cells it sets, and no row comes or goes.
LEMMA PatchedFacts ==
  ASSUME NEW d \in Document, NEW p \in Patch
  PROVE  /\ Patched(d, p) \in Document
         /\ DOMAIN Patched(d, p) = DOMAIN d
         /\ \A r \in DOMAIN d, f \in Field :
              <<r, f>> \notin DOMAIN p => Patched(d, p)[r][f] = d[r][f]
<1>1. DOMAIN d \subseteq Key /\ d \in [DOMAIN d -> [Field -> BOOLEAN]]
  BY DocumentFacts
<1>2. DOMAIN p \subseteq Cell /\ p \in [DOMAIN p -> BOOLEAN]
  BY PatchFacts
<1>3. DOMAIN Patched(d, p) = DOMAIN d
  BY DEF Patched
<1>4. Patched(d, p) \in [DOMAIN d -> [Field -> BOOLEAN]]
  BY <1>1, <1>2 DEF Patched
<1>5. \A r \in DOMAIN d, f \in Field :
        <<r, f>> \notin DOMAIN p => Patched(d, p)[r][f] = d[r][f]
  BY <1>1 DEF Patched
<1> QED
  BY <1>1, <1>3, <1>4, <1>5, DocumentFacts

LEMMA WithoutFacts ==
  ASSUME NEW d \in Document, NEW r
  PROVE  Without(d, r) \in Document
<1>1. DOMAIN d \subseteq Key /\ d \in [DOMAIN d -> [Field -> BOOLEAN]]
  BY DocumentFacts
<1>2. /\ DOMAIN Without(d, r) = DOMAIN d \ {r}
      /\ Without(d, r) \in [DOMAIN d \ {r} -> [Field -> BOOLEAN]]
  BY <1>1 DEF Without, Restrict
<1> QED
  BY <1>1, <1>2, DocumentFacts

LEMMA WithFacts ==
  ASSUME NEW d \in Document, NEW r \in Key
  PROVE  With(d, r) \in Document
<1>1. DOMAIN d \subseteq Key /\ d \in [DOMAIN d -> [Field -> BOOLEAN]]
  BY DocumentFacts
<1>2. NoRow \in [Field -> BOOLEAN]
  BY DEF NoRow
<1>3. /\ DOMAIN With(d, r) = DOMAIN d \cup {r}
      /\ With(d, r) \in [DOMAIN d \cup {r} -> [Field -> BOOLEAN]]
  BY <1>1, <1>2 DEF With
<1> QED
  BY <1>1, <1>3, DocumentFacts

LEMMA SnapshotFacts ==
  ASSUME NEW d \in Document, NEW p \in Patch
  PROVE  Snapshot(d, p) \in Patch /\ DOMAIN Snapshot(d, p) \subseteq DOMAIN p
<1>1. DOMAIN d \subseteq Key /\ d \in [DOMAIN d -> [Field -> BOOLEAN]]
  BY DocumentFacts
<1>2. DOMAIN p \subseteq Cell
  BY PatchFacts
<1>3. DOMAIN Snapshot(d, p) \subseteq DOMAIN p
  BY DEF Snapshot
<1>4. \A c \in DOMAIN Snapshot(d, p) : c[1] \in DOMAIN d /\ c[2] \in Field
  BY <1>2 DEF Snapshot, Cell
<1>5. Snapshot(d, p) \in [DOMAIN Snapshot(d, p) -> BOOLEAN]
  BY <1>1, <1>4 DEF Snapshot
<1> QED
  BY <1>2, <1>3, <1>5, PatchFacts

(* Siblings: who is left when an update settles.                           *)

LEMMA PendingAlone ==
  ASSUME NEW w \in Write, phase[w] # "free",
         \A v \in Write \ {w} : phase[v] = "free"
  PROVE  MayInvalidate(w)
<1> SUFFICES ASSUME job[w].kind = "update" PROVE Cardinality(Pending(w)) <= 1
  BY DEF MayInvalidate
<1>1. Pending(w) = {w}
  BY DEF Pending
<1>2. Cardinality({w}) = 1
  BY FS_Singleton
<1> QED
  BY <1>1, <1>2

LEMMA PendingSibling ==
  ASSUME NEW w \in Write, NEW v \in Write, v # w,
         phase[w] # "free", job[w].kind = "update",
         phase[v] # "free", job[v].kind = "update"
  PROVE  ~ MayInvalidate(w)
<1>1. IsFiniteSet(Pending(w))
  BY CacheAssumption, FS_Subset DEF Pending
<1>2. {v, w} \subseteq Pending(w)
  BY DEF Pending
<1>3. Cardinality({v, w}) = 2
  <2>1. Cardinality({w}) = 1 /\ IsFiniteSet({w})
    BY FS_Singleton
  <2>2. Cardinality({w} \cup {v}) = Cardinality({w}) + 1
    BY <2>1, FS_AddElement, v \notin {w}
  <2>3. {v, w} = {w} \cup {v}
    OBVIOUS
  <2> QED
    BY <2>1, <2>2, <2>3
<1>4. Cardinality({v, w}) <= Cardinality(Pending(w)) /\ Cardinality(Pending(w)) \in Nat
  BY <1>1, <1>2, FS_Subset, FS_CardinalityType
<1> QED
  BY <1>3, <1>4 DEF MayInvalidate

-----------------------------------------------------------------------------
(* The inductive invariant.                                                *)

LEMMA InitHolds == Init => CacheInv
<1> SUFFICES ASSUME Init PROVE CacheInv
  OBVIOUS
<1>1. NoPatch \in Patch
  BY PatchFacts DEF NoPatch
<1>2. server \in Document
  BY DEF Init, Document, Key
<1>3. TypeOK
  BY <1>1, <1>2 DEF Init, TypeOK
<1>4. JobsHold /\ ReadsCurrent /\ NoLateRead
  BY DEF Init, JobsHold, ReadsCurrent, NoLateRead, Busy, Idle
<1> QED
  BY <1>3, <1>4 DEF CacheInv

\* Every write begins alike: a read under way is dropped, and what the write
\* shows and what it would put back are of the right shape.
LEMMA BeginStep ==
  ASSUME CacheInv, NEW w \in Write, NEW k \in Kind, Begin(w, k),
         NEW d \in Document, Show(d),
         NEW r \in Key, NEW p \in Patch, NEW old,
         job' = [job EXCEPT ![w] = [kind |-> k, row |-> r, sets |-> p]],
         prev' = [prev EXCEPT ![w] = old],
         IF k \in ByCell THEN old \in Patch /\ DOMAIN old \subseteq DOMAIN p
                         ELSE old \in Document
  PROVE  CacheInv'
<1>1. TypeOK'
  BY DEF CacheInv, TypeOK, Begin, Show
<1>2. JobsHold'
  <2>1. [kind |-> k, row |-> r, sets |-> p] # NoJob
    BY DEF NoJob, Kind, ByCell, ByWhole
  <2> QED
    BY <2>1 DEF CacheInv, TypeOK, JobsHold, Begin
<1>3. phase'[w] = "sent" /\ Busy'
  BY DEF CacheInv, TypeOK, Begin, Busy
<1>4. ReadsCurrent'
  BY <1>3 DEF ReadsCurrent
<1>5. NoLateRead'
  BY DEF CacheInv, TypeOK, NoLateRead, Begin, Show
<1> QED
  BY <1>1, <1>2, <1>4, <1>5 DEF CacheInv

LEMMA PatchingStep ==
  ASSUME CacheInv, NEW w \in Write, NEW k \in Kind, NEW p \in Patch,
         Patching(w, k, p)
  PROVE  CacheInv'
<1>1. cache \in Document
  BY DEF CacheInv, TypeOK
<1>2. Patched(cache, p) \in Document
  BY <1>1, PatchedFacts
<1>3. Snapshot(cache, p) \in Patch /\ DOMAIN Snapshot(cache, p) \subseteq DOMAIN p
  BY <1>1, SnapshotFacts
<1>4. w \in Key
  BY DEF Key
<1>5. CASE k \in ByCell
  BY <1>2, <1>3, <1>4, <1>5, BeginStep DEF Patching
<1>6. CASE k \notin ByCell
  BY <1>1, <1>2, <1>4, <1>6, BeginStep DEF Patching
<1> QED
  BY <1>5, <1>6

LEMMA ResetStep ==
  ASSUME CacheInv, NEW w \in Write, NEW f \in Tick, ResetFlag(w, f)
  PROVE  CacheInv'
<1> DEFINE wasSet == {r \in DOMAIN cache : cache[r][f]}
           p   == [c \in wasSet \X {f} |-> FALSE]
           all == [c \in Key \X {f} |-> FALSE]
<1>1. cache \in Document
  BY DEF CacheInv, TypeOK
<1>2. DOMAIN cache \subseteq Key
  BY <1>1, DocumentFacts
<1>3. all \in Patch
  BY PatchFacts DEF Cell, Field
<1>4. p \in Patch /\ DOMAIN p \subseteq DOMAIN all
  BY <1>2, PatchFacts DEF Cell, Field
<1>5. Snapshot(cache, p) \in Patch /\ DOMAIN Snapshot(cache, p) \subseteq DOMAIN all
  BY <1>1, <1>4, SnapshotFacts
<1>6. Patched(cache, p) \in Document
  BY <1>1, <1>4, PatchedFacts
<1>7. w \in Key /\ "reset" \in Kind /\ "reset" \in ByCell
  BY DEF Key, Kind, ByCell
<1>8. /\ Begin(w, "reset")
      /\ job' = [job EXCEPT ![w] = [kind |-> "reset", row |-> w, sets |-> all]]
      /\ prev' = [prev EXCEPT ![w] = Snapshot(cache, p)]
      /\ Show(Patched(cache, p))
  BY DEF ResetFlag
<1> HIDE DEF p, all, wasSet
<1> QED
  BY <1>3, <1>5, <1>6, <1>7, <1>8, BeginStep

LEMMA RowStep ==
  ASSUME CacheInv, NEW w \in Write,
         AddItem(w) \/ \E r \in DOMAIN cache : DeleteItem(w, r)
  PROVE  CacheInv'
<1>1. cache \in Document /\ DOMAIN cache \subseteq Key
  BY DocumentFacts DEF CacheInv, TypeOK
<1>2. NoPatch \in Patch
  BY PatchFacts DEF NoPatch
<1>3. w \in Key /\ {"insert", "delete"} \subseteq Kind \ ByCell
  BY DEF Key, Kind, ByCell, ByWhole
<1>4. CASE AddItem(w)
  <2>1. With(cache, w) \in Document
    BY <1>1, <1>3, WithFacts
  <2> QED
    BY <1>1, <1>2, <1>3, <1>4, <2>1, BeginStep DEF AddItem
<1>5. ASSUME NEW r \in DOMAIN cache, DeleteItem(w, r) PROVE CacheInv'
  <2>1. Without(cache, r) \in Document
    BY <1>1, WithoutFacts
  <2> QED
    BY <1>1, <1>2, <1>3, <1>5, <2>1, BeginStep DEF DeleteItem
<1> QED
  BY <1>4, <1>5

-----------------------------------------------------------------------------
(* The server's steps.                                                     *)

LEMMA ServerStep ==
  ASSUME CacheInv, NEW w \in Write,
         Refuse(w) \/ Serve(w) \/ \E c \in Cell : Elsewhere(c)
  PROVE  CacheInv'
<1>1. Busy /\ Busy'
  BY DEF CacheInv, TypeOK, Busy, Refuse, Serve, Elsewhere
<1>2. server' \in Document
  <2>1. server \in Document
    BY DEF CacheInv, TypeOK
  <2>2. CASE Refuse(w)
    BY <2>1, <2>2 DEF Refuse
  <2>3. CASE Serve(w)
    <3>1. job[w] # NoJob /\ job[w] \in {NoJob} \cup [kind : Kind, row : Key, sets : Patch]
      BY <2>3 DEF CacheInv, TypeOK, JobsHold, Serve
    <3>2. job[w].sets \in Patch
      BY <3>1
    <3>3. Patched(server, job[w].sets) \in Document
      BY <2>1, <3>2, PatchedFacts
    <3>4. Without(server, job[w].row) \in Document
      BY <2>1, WithoutFacts
    <3>5. \A r \in Id : With(server, r) \in Document
      BY <2>1, WithFacts DEF Key
    <3> QED
      BY <2>3, <3>3, <3>4, <3>5 DEF Serve
  <2>4. ASSUME NEW c \in Cell, Elsewhere(c) PROVE server' \in Document
    <3>1. DOMAIN server \subseteq Key /\ server \in [DOMAIN server -> [Field -> BOOLEAN]]
      BY <2>1, DocumentFacts
    <3>2. c[1] \in DOMAIN server /\ c[2] \in Field
      BY <2>4 DEF Elsewhere, Cell
    <3>3. server' = [server EXCEPT ![c[1]] = [server[c[1]] EXCEPT ![c[2]] = ~ server[c[1]][c[2]]]]
      BY <2>4, <3>1, <3>2 DEF Elsewhere
    <3>4. [server[c[1]] EXCEPT ![c[2]] = ~ server[c[1]][c[2]]] \in [Field -> BOOLEAN]
      BY <3>1, <3>2
    <3>5. DOMAIN server' = DOMAIN server /\ server' \in [DOMAIN server -> [Field -> BOOLEAN]]
      BY <3>1, <3>2, <3>3, <3>4
    <3> QED
      BY <3>1, <3>5, DocumentFacts
  <2> QED
    BY <2>2, <2>3, <2>4
<1>3. TypeOK'
  <2>1. NoPatch \in Patch
    BY PatchFacts DEF NoPatch, Cell
  <2>2. prev' \in [Write -> Patch \cup Document]
    BY <2>1 DEF CacheInv, TypeOK, Refuse, Serve, Elsewhere
  <2> QED
    BY <1>2, <2>2 DEF CacheInv, TypeOK, Refuse, Serve, Elsewhere
<1>4. JobsHold'
  BY DEF CacheInv, TypeOK, JobsHold, Refuse, Serve, Elsewhere
<1>5. ReadsCurrent'
  BY <1>1 DEF ReadsCurrent
<1>6. NoLateRead'
  <2>1. fetch' = fetch /\ stale' = stale /\ page' = page /\ job' = job
    BY DEF Refuse, Serve, Elsewhere
  <2>2. \A v \in Write : phase'[v] # "free" => phase[v] # "free"
    BY DEF CacheInv, TypeOK, Refuse, Serve, Elsewhere
  <2> QED
    BY <1>1, <2>1, <2>2 DEF CacheInv, NoLateRead
<1> QED
  BY <1>3, <1>4, <1>5, <1>6 DEF CacheInv
-----------------------------------------------------------------------------
(* Settling and reading.                                                   *)

LEMMA SettleStep ==
  ASSUME CacheInv, "leaves" \notin Habits,
         NEW w \in Write, Settle(w)
  PROVE  CacheInv'
<1>1. cache \in Document /\ (phase[w] # "saved" => RolledBack(w) \in Document)
  <2>1. cache \in Document
    BY DEF CacheInv, TypeOK
  <2>2. CASE job[w].kind \in ByCell /\ phase[w] # "saved"
    <3>1. prev[w] \in Patch
      BY <2>2 DEF CacheInv, JobsHold, Settle
    <3> QED
      BY <2>1, <2>2, <3>1, PatchedFacts DEF RolledBack
  <2>3. CASE job[w].kind \notin ByCell /\ phase[w] # "saved"
    BY <2>1, <2>3 DEF CacheInv, JobsHold, Settle, RolledBack
  <2> QED
    BY <2>1, <2>2, <2>3
<1>2. TypeOK'
  <2>1. cache' \in Document
    BY <1>1 DEF Settle
  <2>2. NoPatch \in Patch
    BY PatchFacts DEF NoPatch
  <2> QED
    BY <2>1, <2>2 DEF CacheInv, TypeOK, Settle, Invalidate
<1>3. JobsHold'
  BY DEF CacheInv, TypeOK, JobsHold, Settle
<1>4. \A v \in Write \ {w} : phase'[v] = phase[v]
  BY DEF CacheInv, TypeOK, Settle
<1>5. ReadsCurrent'
  <2> SUFFICES ASSUME ~ Busy'
               PROVE  /\ fetch'.at = "answered" => fetch'.doc = server'
                      /\ fetch' # Idle => stale'
                      /\ fetch' = Idle /\ ~ stale' => cache' = server'
    BY DEF ReadsCurrent
  <2>1. \A v \in Write \ {w} : phase[v] = "free"
    BY <1>4 DEF Busy
  <2>2. MayInvalidate(w)
    BY <2>1, PendingAlone DEF Settle
  <2>3. stale' /\ (page.open => fetch' = Asked) /\ (~ page.open => fetch' = fetch)
    BY <2>2 DEF Settle, Invalidate, CacheInv, TypeOK
  <2>4. page.open \/ fetch = Idle
    <3>1. page.user = "stays" \/ page.user = "ticks"
      BY CacheAssumption DEF CacheInv, TypeOK, Habit
    <3> QED
      BY <3>1 DEF CacheInv, NoLateRead, Busy, Settle
  <2> QED
    BY <2>3, <2>4 DEF Asked, Idle
<1>6. NoLateRead'
  <2>1. page'.user = "stays" => page'.open
    BY DEF CacheInv, NoLateRead, Settle
  <2>2. ASSUME page'.user = "ticks"
        PROVE  /\ Busy' => fetch' = Idle /\ ~ stale'
               /\ \A v \in Write : phase'[v] # "free" => job'[v].kind = "update"
    <3>0. page.user = "ticks"
      BY <2>2 DEF Settle
    <3>1. \A v \in Write : phase[v] # "free" => job[v].kind = "update"
      BY <3>0 DEF CacheInv, NoLateRead
    <3>2. fetch = Idle /\ ~ stale
      BY <3>0 DEF CacheInv, NoLateRead, Busy, Settle
    <3>3. \A v \in Write \ {w} : job'[v] = job[v]
      BY DEF CacheInv, TypeOK, Settle
    <3>4. phase'[w] = "free"
      BY DEF CacheInv, TypeOK, Settle
    <3>5. ASSUME Busy' PROVE fetch' = Idle /\ ~ stale'
      <4>1. PICK v \in Write : phase'[v] # "free"
        BY <3>5 DEF Busy
      <4>2. v # w /\ phase[v] # "free"
        BY <1>4, <3>4, <4>1
      <4>3. ~ MayInvalidate(w)
        BY <3>1, <4>2, PendingSibling DEF Settle
      <4> QED
        BY <3>2, <4>3 DEF Settle
    <3> QED
      BY <1>4, <3>1, <3>3, <3>4, <3>5
  <2> QED
    BY <2>1, <2>2 DEF NoLateRead
<1> QED
  BY <1>2, <1>3, <1>5, <1>6 DEF CacheInv

LEMMA ReadStep ==
  ASSUME CacheInv, Read \/ Receive \/ ReadFails \/ Leave \/ Return
  PROVE  CacheInv'
<1>1. TypeOK'
  <2>1. fetch.at = "answered" => fetch.doc \in Document
    BY DEF CacheInv, TypeOK, Idle, Asked, Answered
  <2> QED
    BY <2>1 DEF CacheInv, TypeOK, Read, Receive, ReadFails, Leave, Return
<1>2. JobsHold'
  BY DEF CacheInv, JobsHold, Read, Receive, ReadFails, Leave, Return
<1>3. Busy' <=> Busy
  BY DEF Busy, Read, Receive, ReadFails, Leave, Return
<1>4. ReadsCurrent'
  <2>1. CASE Read
    BY <1>3, <2>1 DEF CacheInv, ReadsCurrent, Read, Asked, Idle, Answered
  <2>2. CASE Receive
    BY <1>3, <2>2 DEF CacheInv, ReadsCurrent, Receive, Idle
  <2>3. CASE ReadFails
    BY <1>3, <2>3 DEF CacheInv, ReadsCurrent, ReadFails, Idle
  <2>4. CASE Leave
    BY <1>3, <2>4 DEF CacheInv, ReadsCurrent, Leave
  <2>5. CASE Return
    BY <1>3, <2>5 DEF CacheInv, ReadsCurrent, Return, Asked, Idle
  <2> QED
    BY <2>1, <2>2, <2>3, <2>4, <2>5
<1>5. NoLateRead'
  <2>0. page'.user = page.user
    BY DEF CacheInv, TypeOK, Read, Receive, ReadFails, Leave, Return
  <2>1. ASSUME page.user = "ticks", Busy PROVE fetch' = Idle /\ ~ stale'
    <3>1. fetch = Idle /\ ~ stale
      BY <2>1 DEF CacheInv, NoLateRead
    <3> QED
      BY <3>1 DEF Read, Receive, ReadFails, Leave, Return, Idle, Asked
  <2>2. page'.user = "stays" => page'.open
    <3>1. page'.open = page.open \/ page.user # "stays" \/ page'.open
      BY DEF CacheInv, TypeOK, Read, Receive, ReadFails, Leave, Return
    <3> QED
      BY <2>0, <3>1 DEF CacheInv, NoLateRead
  <2>3. phase' = phase /\ job' = job
    BY DEF Read, Receive, ReadFails, Leave, Return
  <2>4. page.user = "ticks" =>
          \A w \in Write : phase[w] # "free" => job[w].kind = "update"
    BY DEF CacheInv, NoLateRead
  <2>5. page.user = "ticks" =>
          \A w \in Write : phase'[w] # "free" => job'[w].kind = "update"
    BY <2>3, <2>4
  <2>6. page.user = "ticks" => (Busy' => fetch' = Idle /\ ~ stale')
    BY <1>3, <2>1
  <2> QED
    BY <2>0, <2>2, <2>5, <2>6 DEF NoLateRead
<1> QED
  BY <1>1, <1>2, <1>4, <1>5 DEF CacheInv
-----------------------------------------------------------------------------

LEMMA PatchesOfFacts ==
  ASSUME NEW r \in Key, NEW All, All \subseteq Field, NEW p \in PatchesOf(r, All)
  PROVE  p \in Patch
<1>1. PICK F \in SUBSET All \ {{}} : p \in [{r} \X F -> BOOLEAN]
  BY DEF PatchesOf
<1>2. {r} \X F \subseteq Cell
  BY DEF Cell
<1> QED
  BY <1>1, <1>2, PatchFacts

LEMMA SwapFacts ==
  ASSUME CacheInv, NEW r \in DOMAIN cache, NEW s \in DOMAIN cache, NEW f \in Place
  PROVE  Swap(r, s, f) \in Patch
<1>1. DOMAIN cache \subseteq Key /\ cache \in [DOMAIN cache -> [Field -> BOOLEAN]]
  BY DocumentFacts DEF CacheInv, TypeOK
<1>2. f \in Field
  BY DEF Field
<1>3. DOMAIN Swap(r, s, f) = {r, s} \X {f} /\ {r, s} \X {f} \subseteq Cell
  BY <1>1, <1>2 DEF Swap, Cell
<1>4. Swap(r, s, f) \in [{r, s} \X {f} -> BOOLEAN]
  BY <1>1, <1>2 DEF Swap
<1> QED
  BY <1>3, <1>4, PatchFacts

LEMMA NextStep ==
  ASSUME CacheInv, "leaves" \notin Habits, [Next]_vars
  PROVE  CacheInv'
<1>1. DOMAIN cache \subseteq Key
  BY DocumentFacts DEF CacheInv, TypeOK
<1>2. Tick \subseteq Field /\ Place \subseteq Field
  BY DEF Field
<1>3. {"update", "place", "rewrite"} \subseteq Kind /\ Write \subseteq Key
  BY DEF Kind, ByCell, ByWhole, Key
<1>4. ASSUME NEW w \in Write, NEW r \in DOMAIN cache, NEW p \in PatchesOf(r, Tick),
             UpdateItem(w, p)
      PROVE  CacheInv'
  BY <1>1, <1>2, <1>3, <1>4, PatchesOfFacts, PatchingStep DEF UpdateItem
<1>5. ASSUME NEW w \in Write, NEW r \in DOMAIN cache, NEW p \in PatchesOf(r, Place),
             MoveItem(w, p) \/ UpdateGear(w, p)
      PROVE  CacheInv'
  BY <1>1, <1>2, <1>3, <1>5, PatchesOfFacts, PatchingStep DEF MoveItem, UpdateGear
<1>6. ASSUME NEW w \in Write, NEW r \in DOMAIN cache, NEW s \in DOMAIN cache, NEW f \in Place,
             ReorderItems(w, r, s, f) \/ ReorderPackItems(w, r, s, f)
      PROVE  CacheInv'
  BY <1>3, <1>6, SwapFacts, PatchingStep DEF ReorderItems, ReorderPackItems
<1>7. ASSUME NEW w \in Write, Refuse(w) \/ Serve(w) PROVE CacheInv'
  BY <1>7, ServerStep
<1>8. ASSUME NEW c \in Cell, Elsewhere(c) PROVE CacheInv'
  BY <1>8, ServerStep DEF Elsewhere
<1>9. CASE UNCHANGED vars
  <2>1. TypeOK' /\ JobsHold'
    BY <1>9 DEF CacheInv, TypeOK, JobsHold, vars
  <2>2. ReadsCurrent' /\ NoLateRead'
    BY <1>9 DEF CacheInv, ReadsCurrent, NoLateRead, Busy, vars
  <2> QED
    BY <2>1, <2>2 DEF CacheInv
<1> QED
  BY <1>4, <1>5, <1>6, <1>7, <1>8, <1>9, ResetStep, RowStep, SettleStep, ReadStep DEF Next

\* With no user who leaves, and does more than tick, the invariant holds.
THEOREM CacheInvariant ==
  ASSUME "leaves" \notin Habits
  PROVE  Spec => []CacheInv
<1>1. Init => CacheInv
  BY InitHolds
<1>2. CacheInv /\ [Next]_vars => CacheInv'
  BY NextStep
<1> QED
  BY <1>1, <1>2, PTL DEF Spec

\* Such a page converges: once nothing is under way and the cache holds itself
\* fresh, it shows what the server has, whatever failed on the way.
THEOREM Convergence ==
  ASSUME "leaves" \notin Habits
  PROVE  Spec => []Converges
<1>1. CacheInv => Converges
  BY DEF CacheInv, ReadsCurrent, Busy, Converges, Quiet
<1> QED
  BY <1>1, CacheInvariant, PTL

-----------------------------------------------------------------------------
(* Ticks compose.                                                          *)

\* A step of a page that only ticks changes a cell of a pending tick only by
\* another write of that cell.
LEMMA TickStep ==
  ASSUME CacheInv, page.user = "ticks", [Next]_vars,
         NEW w \in Write, phase[w] # "free", phase'[w] # "free",
         NEW c \in DOMAIN job[w].sets, c[1] \in DOMAIN cache
  PROVE  /\ c[1] \in DOMAIN cache'
         /\ \/ cache'[c[1]][c[2]] = cache[c[1]][c[2]]
            \/ \E v \in Write : /\ phase'[v] # phase[v]
                                /\ \/ phase[v] # "free" /\ c \in DOMAIN job[v].sets
                                   \/ phase'[v] # "free" /\ c \in DOMAIN job'[v].sets
<1>1. cache \in Document
  BY DEF CacheInv, TypeOK
<1>2. fetch = Idle /\ job[w].kind = "update"
  BY DEF CacheInv, NoLateRead, Busy
<1>3. c = <<c[1], c[2]>> /\ c[2] \in Field
  <2>1. job[w] # NoJob /\ job[w] \in {NoJob} \cup [kind : Kind, row : Key, sets : Patch]
    BY DEF CacheInv, TypeOK, JobsHold
  <2>2. DOMAIN job[w].sets \subseteq Cell
    BY <2>1, PatchFacts
  <2> QED
    BY <2>2 DEF Cell
<1>4. ASSUME NEW v \in Write, NEW r \in DOMAIN cache, NEW p \in PatchesOf(r, Tick),
             UpdateItem(v, p)
      PROVE  /\ DOMAIN cache' = DOMAIN cache
             /\ \/ cache'[c[1]][c[2]] = cache[c[1]][c[2]]
                \/ phase'[v] # phase[v] /\ phase'[v] # "free" /\ c \in DOMAIN job'[v].sets
  <2>1. DOMAIN cache \subseteq Key /\ Tick \subseteq Field
    BY <1>1, DocumentFacts DEF Field
  <2>2. p \in Patch
    BY <2>1, PatchesOfFacts
  <2>3. cache' = Patched(cache, p) /\ phase'[v] = "sent" /\ phase[v] = "free" /\ job'[v].sets = p
    BY <1>4 DEF UpdateItem, Patching, Begin, Show, CacheInv, TypeOK
  <2> QED
    BY <1>1, <1>3, <2>2, <2>3, PatchedFacts
<1>5. ASSUME NEW v \in Write, Settle(v)
      PROVE  /\ DOMAIN cache' = DOMAIN cache
             /\ \/ cache'[c[1]][c[2]] = cache[c[1]][c[2]]
                \/ phase'[v] # phase[v] /\ phase[v] # "free" /\ c \in DOMAIN job[v].sets
  <2>1. phase[v] # "free" /\ phase'[v] # phase[v]
    BY <1>5 DEF Settle, CacheInv, TypeOK
  <2>2. job[v].kind \in ByCell
    BY <2>1 DEF CacheInv, NoLateRead, ByCell
  <2>3. CASE phase[v] = "saved"
    BY <1>5, <2>3 DEF Settle
  <2>4. CASE phase[v] # "saved"
    <3>1. prev[v] \in Patch /\ DOMAIN prev[v] \subseteq DOMAIN job[v].sets
      BY <2>1, <2>2, <2>4 DEF CacheInv, JobsHold
    <3>2. cache' = Patched(cache, prev[v])
      BY <1>5, <2>2, <2>4 DEF Settle, RolledBack
    <3> QED
      BY <1>1, <1>3, <2>1, <3>1, <3>2, PatchedFacts
  <2> QED
    BY <2>3, <2>4
<1>6. ASSUME NEW v \in Write,
             \/ AddItem(v)
             \/ \E r \in DOMAIN cache : DeleteItem(v, r)
             \/ \E f \in Tick : ResetFlag(v, f)
             \/ \E r \in DOMAIN cache : \E p \in PatchesOf(r, Place) :
                  MoveItem(v, p) \/ UpdateGear(v, p)
             \/ \E r, s \in DOMAIN cache, f \in Place :
                  ReorderItems(v, r, s, f) \/ ReorderPackItems(v, r, s, f)
      PROVE  FALSE
  BY <1>6 DEF AddItem, DeleteItem, ResetFlag, MoveItem, UpdateGear, ReorderItems,
              ReorderPackItems, Patching, Begin
<1>7. ASSUME \/ \E v \in Write : Refuse(v) \/ Serve(v)
             \/ \E x \in Cell : Elsewhere(x)
             \/ Read \/ ReadFails \/ Leave \/ Return
             \/ UNCHANGED vars
      PROVE  cache' = cache
  BY <1>7 DEF Refuse, Serve, Elsewhere, Read, ReadFails, Leave, Return, vars
<1>8. ~ Receive
  BY <1>2 DEF Receive, Idle
<1> QED
  BY <1>4, <1>5, <1>6, <1>7, <1>8 DEF Next

\* However many ticks of a page that only ticks are under way, none is taken off the screen by another.
THEOREM TicksCompose ==
  ASSUME "leaves" \notin Habits
  PROVE  Spec => SiblingsCompose
<1>1. CacheInv /\ [Next]_vars =>
        [\A w \in Write : page.user = "ticks" /\ phase[w] # "free" /\ phase'[w] # "free" =>
           \A c \in DOMAIN job[w].sets : c[1] \in DOMAIN cache =>
             /\ c[1] \in DOMAIN cache'
             /\ \/ cache'[c[1]][c[2]] = cache[c[1]][c[2]]
                \/ \E v \in Write : /\ phase'[v] # phase[v]
                                    /\ \/ phase[v] # "free" /\ c \in DOMAIN job[v].sets
                                       \/ phase'[v] # "free" /\ c \in DOMAIN job'[v].sets]_vars
  BY TickStep
<1> QED
  BY <1>1, CacheInvariant, PTL DEF Spec, SiblingsCompose
=============================================================================
