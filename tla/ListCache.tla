------------------------------ MODULE ListCache ------------------------------
(***************************************************************************)
(* The client's cache of one list's items, and the writes a page makes     *)
(* against it: each shows its effect in the cache at once, sends a request,*)
(* and, when the request has settled, takes the effect back if it failed   *)
(* and asks for the rows again.                                            *)
(*                                                                         *)
(* A document is a function from row ids to the fields of a row.  The ids  *)
(* of rows the server has are in Id; the row an insert shows before the    *)
(* server has answered has the insert itself for its (temporary) id.       *)
(*                                                                         *)
(* A handler runs to its next wait without interruption, so a step is what *)
(* the client does in one turn, one transaction of the server, or the      *)
(* arrival of an answer.  Any writes may overlap: the page disables a drag *)
(* while another is pending, but forgets what is pending when it is left   *)
(* and opened again.  The query library's part (the actions on fetch       *)
(* and stale) is external and modelled from the way the code relies on it. *)
(***************************************************************************)
EXTENDS FiniteSets, Functions

CONSTANTS
  Id,        \* list item ids
  Write,     \* writes that may be under way together
  Tick,      \* the fields updateItem patches (isPacked, isReady, ...)
  Place,     \* the fields moveItem patches (packingLocationId)
  Offered,   \* the kinds of write this instance makes
  Habits     \* what users of the page do, of Habit

Field == Tick \cup Place

\* The kinds of write, by what a failure rolls back: the cells written, or the
\* document as it was before the write.  Moves and pack reorders place rows;
\* reorders and gear edits rewrite them.
ByCell  == {"update", "place", "reset"}
ByWhole == {"insert", "delete", "rewrite"}
Kind    == ByCell \cup ByWhole

\* A user stays on the page whatever is written; only ticks, but leaves the page
\* and returns as it pleases; or writes anything and leaves.
Habit == {"stays", "ticks", "leaves"}

ASSUME CacheAssumption ==
  /\ IsFiniteSet(Write)
  /\ Id \cap Write = {}
  /\ Offered \subseteq Kind
  /\ Habits \subseteq Habit

Key  == Id \cup Write
Cell == Key \X Field

\* Fields are Boolean: a value the user chose, or the other one.
Document == UNION {[S -> [Field -> BOOLEAN]] : S \in SUBSET Key}
Patch    == UNION {[C -> BOOLEAN] : C \in SUBSET Cell}

VARIABLES
  server,   \* the rows as the server has them
  cache,    \* the rows as the page shows them
  stale,    \* the cache is marked invalid
  fetch,    \* the read under way: Idle, Asked, or Answered with a document
  page,     \* whether the list's page is mounted, and its user's habit
  phase,    \* of each write: free, sent, saved or failed
  job,      \* of each write: its kind, the row it deletes and the cells it sets
  prev      \* of each write: the snapshot to roll back to

vars == <<server, cache, stale, fetch, page, phase, job, prev>>

Idle  == [at |-> "idle"]
Asked == [at |-> "asked"]
Answered(d) == [at |-> "answered", doc |-> d]

NoPatch == [c \in {} |-> FALSE]
NoJob == [kind |-> "none"]
NoRow == [f \in Field |-> FALSE]

\* Writes of cells of rows the document does not have are dropped (mapRows).
Patched(d, p) ==
  [r \in DOMAIN d |->
     [f \in Field |-> IF <<r, f>> \in DOMAIN p THEN p[<<r, f>>] ELSE d[r][f]]]

Without(d, r) == Restrict(d, DOMAIN d \ {r})
With(d, r)    == [x \in DOMAIN d \cup {r} |-> IF x = r THEN NoRow ELSE d[x]]

\* The cells that p sets, as d has them.
Snapshot(d, p) == [c \in {c \in DOMAIN p : c[1] \in DOMAIN d} |-> d[c[1]][c[2]]]

-----------------------------------------------------------------------------
(* The query library                                                       *)

\* A query read from a mounted page starts again when it is invalidated; any
\* other keeps the read that is under way, and only the mark is left.
Invalidate ==
  IF page.open THEN stale' = TRUE /\ fetch' = Asked
          ELSE stale' = TRUE /\ UNCHANGED fetch

\* Fault: the read under way is not dropped.
KeepReading(d) ==
  /\ cache' = d
  /\ stale' = FALSE
  /\ UNCHANGED fetch

\* setQueryData after cancelQueries: the read under way is dropped, and data
\* written by hand counts as fresh.
Show(d) ==
  /\ cache' = d
  /\ fetch' = Idle
  /\ stale' = FALSE

-----------------------------------------------------------------------------
(* A write begins: onMutate                                                *)

Begin(w, k) ==
  /\ page.open
  /\ k \in Offered
  /\ page.user = "ticks" => k = "update"
  /\ phase[w] = "free"
  /\ phase' = [phase EXCEPT ![w] = "sent"]
  /\ UNCHANGED <<server, page>>

\* The write w is of kind k and asks for the cells of p; the page shows them.
Patching(w, k, p) ==
  /\ Begin(w, k)
  /\ \A c \in DOMAIN p : c[1] \in DOMAIN cache
  /\ job' = [job EXCEPT ![w] = [kind |-> k, row |-> w, sets |-> p]]
  /\ prev' = [prev EXCEPT ![w] = IF k \in ByCell THEN Snapshot(cache, p) ELSE cache]
  /\ Show(Patched(cache, p))

\* patchRow: some fields of one row.
UpdateItem(w, p) == Patching(w, "update", p)
MoveItem(w, p)   == Patching(w, "place", p)

\* A gear edit, as it shows in the one row of the list that embeds the gear.
UpdateGear(w, p) == Patching(w, "rewrite", p)

\* The two rows r and s trade their ranks f.
Swap(r, s, f) == [c \in {r, s} \X {f} |-> cache[IF c[1] = r THEN s ELSE r][f]]
ReorderItems(w, r, s, f)     == Patching(w, "rewrite", Swap(r, s, f))
ReorderPackItems(w, r, s, f) == Patching(w, "place", Swap(r, s, f))

\* resetFlag: the snapshot is the rows whose flag was set.
ResetFlag(w, f) ==
  /\ Begin(w, "reset")
  /\ job' = [job EXCEPT ![w] = [kind |-> "reset", row |-> w,
                                sets |-> [c \in Key \X {f} |-> FALSE]]]
  /\ LET wasSet == {r \in DOMAIN cache : cache[r][f]}
         p == [c \in wasSet \X {f} |-> FALSE]
     IN  /\ prev' = [prev EXCEPT ![w] = Snapshot(cache, p)]
         /\ Show(Patched(cache, p))

AddItem(w) ==
  /\ Begin(w, "insert")
  /\ job' = [job EXCEPT ![w] = [kind |-> "insert", row |-> w, sets |-> NoPatch]]
  /\ prev' = [prev EXCEPT ![w] = cache]
  /\ Show(With(cache, w))

DeleteItem(w, r) ==
  /\ Begin(w, "delete")
  /\ r \in DOMAIN cache
  /\ job' = [job EXCEPT ![w] = [kind |-> "delete", row |-> r, sets |-> NoPatch]]
  /\ prev' = [prev EXCEPT ![w] = cache]
  /\ Show(Without(cache, r))

-----------------------------------------------------------------------------
(* The server                                                              *)

\* The request is refused, or never arrives: the page cannot tell it from one
\* whose answer is lost.
Refuse(w) ==
  /\ phase[w] = "sent"
  /\ phase' = [phase EXCEPT ![w] = "failed"]
  /\ UNCHANGED <<server, cache, stale, fetch, page, job, prev>>

\* The request is carried out, and its answer arrives (the snapshot is then of no
\* more use) or is lost.
Serve(w) ==
  LET j == job[w]
  IN  /\ phase[w] = "sent"
      /\ \/ phase' = [phase EXCEPT ![w] = "saved"] /\ prev' = [prev EXCEPT ![w] = NoPatch]
         \/ phase' = [phase EXCEPT ![w] = "failed"] /\ UNCHANGED prev
      /\ \/ /\ j.kind \notin {"reset", "insert", "delete"}
            /\ \A c \in DOMAIN j.sets : c[1] \in DOMAIN server
            /\ server' = Patched(server, j.sets)
         \/ j.kind = "reset" /\ server' = Patched(server, j.sets)
         \/ j.kind = "insert" /\ \E r \in Id \ DOMAIN server : server' = With(server, r)
         \/ /\ j.kind = "delete" /\ j.row \in DOMAIN server
            /\ server' = Without(server, j.row)
      /\ UNCHANGED <<cache, stale, fetch, page, job>>

\* Another tab writes while a write of this one is under way.
Elsewhere(c) ==
  /\ \E w \in Write : phase[w] # "free"
  /\ c[1] \in DOMAIN server
  /\ server' = [server EXCEPT ![c[1]][c[2]] = ~ @]
  /\ UNCHANGED <<cache, stale, fetch, page, phase, job, prev>>

-----------------------------------------------------------------------------
(* A write settles: onError, then onSettled                                *)

\* The cells the write touched go back, onto the current rows, or else the
\* whole document does.
RolledBack(w) == IF job[w].kind \in ByCell THEN Patched(cache, prev[w]) ELSE prev[w]

\* The writes an update waits for: the updates still pending, itself counted.
Pending(w) == {v \in Write : phase[v] # "free" /\ job[v].kind = "update"}

\* Fault: the settling write does not count itself.
NoneLeft(w) == job[w].kind = "update" => Cardinality(Pending(w)) < 1

\* Fault: every update invalidates as it settles.
EveryOne(w) == TRUE

\* Fault: only a write that succeeded invalidates.
OnSuccess(w) == phase[w] = "saved"

\* The last update to settle invalidates, every other kind of write does.
MayInvalidate(w) == job[w].kind = "update" => Cardinality(Pending(w)) <= 1

Settle(w) ==
  /\ phase[w] \in {"saved", "failed"}
  /\ phase' = [phase EXCEPT ![w] = "free"]
  /\ job' = [job EXCEPT ![w] = NoJob]
  /\ prev' = [prev EXCEPT ![w] = NoPatch]
  /\ cache' = IF phase[w] = "saved" THEN cache ELSE RolledBack(w)
  /\ IF MayInvalidate(w) THEN Invalidate
     ELSE /\ stale' = (stale /\ phase[w] = "saved")
          /\ UNCHANGED fetch
  /\ UNCHANGED <<server, page>>

-----------------------------------------------------------------------------
(* Reading the rows                                                        *)

\* fetchListItems reads the server,
Read ==
  /\ fetch = Asked
  /\ fetch' = Answered(server)
  /\ UNCHANGED <<server, cache, stale, page, phase, job, prev>>

\* and its answer, when it gets here, replaces the cache;
Receive ==
  /\ fetch.at = "answered"
  /\ cache' = fetch.doc
  /\ fetch' = Idle
  /\ stale' = FALSE
  /\ UNCHANGED <<server, page, phase, job, prev>>

\* or the read fails for good.
ReadFails ==
  /\ fetch # Idle
  /\ fetch' = Idle
  /\ UNCHANGED <<server, cache, stale, page, phase, job, prev>>

\* The page goes away: a read under way is neither dropped nor waited for.
Leave ==
  /\ page.user # "stays"
  /\ page.open
  /\ page' = [page EXCEPT !.open = FALSE]
  /\ UNCHANGED <<server, cache, stale, fetch, phase, job, prev>>

\* The page is back: it reads again if the rows are marked.
Return ==
  /\ ~ page.open
  /\ page' = [page EXCEPT !.open = TRUE]
  /\ fetch' = IF stale /\ fetch = Idle THEN Asked ELSE fetch
  /\ UNCHANGED <<server, cache, stale, phase, job, prev>>

-----------------------------------------------------------------------------

Init ==
  /\ server \in UNION {[S -> [Field -> BOOLEAN]] : S \in SUBSET Id}
  /\ cache = server
  /\ stale = FALSE
  /\ fetch = Idle
  /\ page \in [open : {TRUE}, user : Habits]
  /\ phase = [w \in Write |-> "free"]
  /\ job = [w \in Write |-> NoJob]
  /\ prev = [w \in Write |-> NoPatch]

\* What one patch of row r may set, of the fields of All.
PatchesOf(r, All) == UNION {[{r} \X F -> BOOLEAN] : F \in SUBSET All \ {{}}}

Next ==
  \/ \E w \in Write :
       \/ \E r \in DOMAIN cache : DeleteItem(w, r)
       \/ \E r \in DOMAIN cache : \E p \in PatchesOf(r, Tick) : UpdateItem(w, p)
       \/ \E r \in DOMAIN cache : \E p \in PatchesOf(r, Place) :
            MoveItem(w, p) \/ UpdateGear(w, p)
       \/ \E r, s \in DOMAIN cache, f \in Place :
            r # s /\ (ReorderItems(w, r, s, f) \/ ReorderPackItems(w, r, s, f))
       \/ \E f \in Tick : ResetFlag(w, f)
       \/ AddItem(w)
       \/ Refuse(w) \/ Serve(w) \/ Settle(w)
  \/ \E c \in Cell : Elsewhere(c)
  \/ Read \/ Receive \/ ReadFails \/ Leave \/ Return

Spec == Init /\ [][Next]_vars

-----------------------------------------------------------------------------
(* Properties                                                              *)

TypeOK ==
  /\ server \in Document /\ cache \in Document
  /\ stale \in BOOLEAN /\ page \in [open : BOOLEAN, user : Habits]
  /\ fetch \in {Idle, Asked} \cup {Answered(d) : d \in Document}
  /\ phase \in [Write -> {"free", "sent", "saved", "failed"}]
  /\ job \in [Write -> {NoJob} \cup [kind : Kind, row : Key, sets : Patch]]
  /\ prev \in [Write -> Patch \cup Document]

\* A write has the job and the snapshot that its kind settles with.
JobsHold ==
  \A w \in Write : phase[w] # "free" =>
    /\ job[w] # NoJob
    /\ phase[w] # "saved" => IF job[w].kind \in ByCell
         THEN prev[w] \in Patch /\ DOMAIN prev[w] \subseteq DOMAIN job[w].sets
         ELSE prev[w] \in Document

Busy == \E w \in Write : phase[w] # "free"

\* What convergence rests on: with no write under way, a read that has been
\* answered carries the rows as they are, and the mark outlives the read.
ReadsCurrent ==
  ~ Busy => /\ fetch.at = "answered" => fetch.doc = server
            /\ fetch # Idle => stale
            /\ fetch = Idle /\ ~ stale => cache = server

\* Either the page is there to read again, or no read overlaps a write.
NoLateRead ==
  /\ page.user = "stays" => page.open
  /\ page.user = "ticks" =>
       /\ Busy => fetch = Idle /\ ~ stale
       /\ \A w \in Write : phase[w] # "free" => job[w].kind = "update"

\* The inductive invariant where no user both leaves and does more than tick.
CacheInv == TypeOK /\ JobsHold /\ ReadsCurrent /\ NoLateRead

\* No write is under way and no read is coming or known to be needed.
Quiet == (\A w \in Write : phase[w] = "free") /\ fetch = Idle /\ ~ stale

\* Once every write has settled and the cache holds itself fresh, the page
\* shows what the server has: no rollback, lost answer, refused write, dropped
\* read or late answer leaves another value, a temporary row or a ghost behind.
Converges == Quiet => cache = server

\* A value the user has set stays on the screen until its write settles, when
\* the user only ticks: no sibling's settling and no read brings the old one
\* back; only another write of the same cell, beginning or settling, does.
SiblingsCompose ==
  [][\A w \in Write : page.user = "ticks" /\ phase[w] # "free" /\ phase'[w] # "free" =>
       \A c \in DOMAIN job[w].sets : c[1] \in DOMAIN cache =>
         /\ c[1] \in DOMAIN cache'
         /\ \/ cache'[c[1]][c[2]] = cache[c[1]][c[2]]
            \/ \E v \in Write : /\ phase'[v] # phase[v]
                                /\ \/ phase[v] # "free" /\ c \in DOMAIN job[v].sets
                                   \/ phase'[v] # "free" /\ c \in DOMAIN job'[v].sets]_vars
=============================================================================
