------------------------------- MODULE Shares -------------------------------
(***************************************************************************)
(* The lists of one account with their share links: the rows, the page of  *)
(* their owner (the lists cache, the share panel and the new-list form),   *)
(* the other tabs of the owner, and the visitors of the links.             *)
(*                                                                         *)
(* A click, the request it sends, the commit of that request and the       *)
(* landing of its answer are separate steps; requests overtake each other  *)
(* and answers get lost.  painted is what the page last drew: a control    *)
(* may be clicked again before the page has drawn it disabled.             *)
(*                                                                         *)
(* Left out: names, descriptions and the contents of lists, the list cap   *)
(* (a refusal like any other), and a broken connection whose request is    *)
(* served after the browser gave it up.                                    *)
(***************************************************************************)
EXTENDS Integers, FiniteSets

CONSTANTS
  Slug,         \* slugs generateSlug may draw
  Tries,        \* SLUG_ATTEMPTS
  Visitor,      \* browsers that open share links
  ShareWrites   \* bound: writes that the page and the other tabs start

ASSUME SharesAssumption ==
  Tries \in Nat \ {0} /\ ShareWrites \in Nat /\ Slug # {}

VARIABLES
  shareRows,      \* the lists table: id to slug, isShared and isDraft
  store,     \* what each visitor's browser has kept: slug to answer
  opened,    \* what each visitor was shown last
  shown,     \* the lists cache of the owner's page
  listRead,  \* the read of that cache in flight
  listStale, \* invalidated, and the refetch failed
  shareJobs,      \* writes of the page in flight
  painted,   \* the controls the page last drew as busy
  confirm,   \* the reset of the link is being confirmed
  form,      \* the new-list form is open
  clock,     \* writes started: names them, and the bound
  meant,     \* what the owner last asked of each flag, if that is known
  outdated,  \* another tab wrote since the last read: properties only
  tally      \* writes that one intent of the owner made: properties only

shareVars == <<shareRows, store, opened, shown, listRead, listStale, shareJobs, painted,
               confirm, form, clock, meant, outdated, tally>>

serverVars == <<shareRows, store, opened>>
cacheVars  == <<shown, listRead, listStale>>
pageVars   == <<painted, confirm, form>>
noteVars   == <<meant, outdated, tally>>

Flag == {"isShared", "isDraft"}

\* The list that exists at first, whose panel is open on the page.
Panel == 0

\* A list has the number of the write that makes it: an id is never handed out twice.
NewId == clock + 1
ListId == 0 .. ShareWrites

-----------------------------------------------------------------------------
(* The repository.                                                         *)

Taken(r) == {r[l].slug : l \in DOMAIN r}

\* Fault: the first draw is written, and nothing keeps slugs apart.
FirstDraw(r, draws) == {draws[1]}

\* withFreshSlug: the first draw the unique index accepts, of Tries at most.
WithFreshSlug(r, draws) ==
  LET ok == {k \in 1 .. Tries : draws[k] \notin Taken(r)}
  IN  {draws[k] : k \in {k \in ok : \A j \in ok : k <= j}}

\* A new list is private and a draft, a copy of a public list included.
Born(r, l, s) ==
  [x \in DOMAIN r \cup {l} |->
     IF x = l THEN [slug |-> s, isShared |-> FALSE, isDraft |-> TRUE] ELSE r[x]]

\* Fault: a copy is as public as its source.
CopyFlags(r, l, s, from) ==
  [x \in DOMAIN r \cup {l} |-> IF x = l THEN [r[from] EXCEPT !.slug = s] ELSE r[x]]

Duplicate(r, l, s, from) == Born(r, l, s)

\* update: one flag of the patch, whatever the others are.
UpdateList(r, l, flag, value) ==
  IF l \in DOMAIN r THEN [r EXCEPT ![l][flag] = value] ELSE r

RemoveShareRow(r, l) == [x \in DOMAIN r \ {l} |-> r[x]]

\* rotateShareLink: another slug, and sharing as it was.
RotateShareLink(r, l, s) == IF l \in DOMAIN r THEN [r EXCEPT ![l].slug = s] ELSE r

\* getBySlug: one read transaction behind one gate.
GetBySlug(s) == {l \in DOMAIN shareRows : shareRows[l].slug = s /\ shareRows[l].isShared}

\* Fault: the browser may keep what it was shown.
KeepAnswer(kept, s, answer) == [x \in DOMAIN kept \cup {s} |-> IF x = s THEN answer ELSE kept[x]]

\* no-store, on a list and on a 404 alike.
Cache(kept, s, answer) == kept

\* A visitor opens a link: the browser's own copy if it has one, else the server's.
Visit(v, s) ==
  LET answer == IF s \in DOMAIN store[v] THEN store[v][s] ELSE GetBySlug(s)
  IN  /\ opened' = [opened EXCEPT ![v] = answer]
      /\ store' = [store EXCEPT ![v] = Cache(@, s, answer)]
  /\ UNCHANGED <<shareRows, cacheVars, shareJobs, pageVars, clock, noteVars>>

-----------------------------------------------------------------------------
(* The lists cache of the page.                                            *)

NoListRead == [at |-> "none"]

AnswerLists ==
  /\ listRead.at = "asked"
  /\ listRead' = [at |-> "answered", shareRows |-> shareRows]
  /\ outdated' = FALSE
  /\ UNCHANGED <<serverVars, shown, listStale, shareJobs, pageVars, clock, meant, tally>>

LandLists ==
  /\ listRead.at = "answered"
  /\ shown' = listRead.shareRows /\ listRead' = NoListRead /\ listStale' = FALSE
  /\ UNCHANGED <<serverVars, shareJobs, pageVars, clock, noteVars>>

\* The cached rows stay up when a refetch fails.
FailLists ==
  /\ listRead.at = "asked"
  /\ listRead' = NoListRead /\ listStale' = TRUE
  /\ UNCHANGED <<serverVars, shown, shareJobs, pageVars, clock, noteVars>>

-----------------------------------------------------------------------------
(* The controls of the page.                                               *)

BusyFlags == {j.control : j \in shareJobs}

\* The page draws its controls as they are now.
Paint ==
  /\ painted # BusyFlags
  /\ painted' = BusyFlags
  /\ UNCHANGED <<serverVars, cacheVars, shareJobs, confirm, form, clock, noteVars>>

\* A request and the rows it keeps to put back: one set of rows, or none.
Started(control, l, value, snap) ==
  /\ clock < ShareWrites
  /\ clock' = clock + 1
  /\ shareJobs' = shareJobs \cup {[n |-> clock, done |-> FALSE, control |-> control, list |-> l,
                                   value |-> value, snap |-> snap]}

\* Fault: only what was drawn disables the control.
NotDrawnBusy(control) == control \notin painted

\* isMutating for this list and flag: current at once, unlike the drawing.
NotPending(control) == control \notin BusyFlags

\* useListFlagToggle: the target is read off the live row and travels with the write.
Toggle(flag) ==
  /\ flag \notin painted /\ NotPending(flag)
  /\ Panel \in DOMAIN shown
  /\ LET value == ~ shown[Panel][flag]
     IN  /\ Started(flag, Panel, value, {shown})
         /\ shown' = [shown EXCEPT ![Panel][flag] = value]
         /\ meant' = [meant EXCEPT ![flag] = {value}]
  /\ listRead' = NoListRead
  /\ UNCHANGED <<serverVars, listStale, pageVars, outdated, tally>>

\* Resetting the link opens a confirmation of its own.
AskReset ==
  /\ ~ confirm /\ "reset" \notin painted
  /\ Panel \in DOMAIN shown /\ shown[Panel].isShared
  /\ confirm' = TRUE
  /\ tally' = [tally EXCEPT !.resets = 0]
  /\ UNCHANGED <<serverVars, cacheVars, shareJobs, painted, form, clock, meant, outdated>>

CancelReset ==
  /\ confirm /\ confirm' = FALSE
  /\ UNCHANGED <<serverVars, cacheVars, shareJobs, painted, form, clock, noteVars>>

\* Fault: the button is disabled by the drawing alone.
ResetIfDrawn == NotDrawnBusy("reset")

\* The ref of the panel that is set in the click itself.
NotResetting == NotPending("reset")

ResetLink ==
  /\ confirm /\ "reset" \notin painted /\ NotResetting
  /\ Panel \in DOMAIN shown /\ shown[Panel].isShared
  /\ Started("reset", Panel, FALSE, {})
  /\ UNCHANGED <<serverVars, cacheVars, pageVars, noteVars>>

OpenForm ==
  /\ ~ form /\ form' = TRUE
  /\ tally' = [tally EXCEPT !.made = 0]
  /\ UNCHANGED <<serverVars, cacheVars, shareJobs, painted, confirm, clock, meant, outdated>>

CloseForm ==
  /\ form /\ form' = FALSE
  /\ UNCHANGED <<serverVars, cacheVars, shareJobs, painted, confirm, clock, noteVars>>

\* Fault: a repeated submit goes through until the field is drawn disabled.
CreateIfDrawn == NotDrawnBusy("create")

\* isMutating(createList) = 0.
NoCreatePending == NotPending("create")

\* Enter, or the blur that disabling the field fires: placeholder and all.
SubmitCreate ==
  /\ form /\ NoCreatePending
  /\ Started("create", NewId, FALSE, {shown})
  /\ shown' = Born(shown, NewId, CHOOSE s \in Slug : TRUE)
  /\ listRead' = NoListRead
  /\ UNCHANGED <<serverVars, listStale, pageVars, noteVars>>

\* The list is taken off the page at once; the panel keeps its own.
DeleteList(l) ==
  /\ l \in DOMAIN shown \ {Panel} /\ l \in DOMAIN shareRows
  /\ Started("delete", l, FALSE, {shown})
  /\ shown' = RemoveShareRow(shown, l)
  /\ listRead' = NoListRead
  /\ UNCHANGED <<serverVars, listStale, pageVars, noteVars>>

\* The copy is made by the server, and the page asks for it afterwards.
DuplicateList ==
  /\ Panel \in DOMAIN shown
  /\ Started("duplicate", NewId, FALSE, {})
  /\ UNCHANGED <<serverVars, cacheVars, pageVars, noteVars>>

-----------------------------------------------------------------------------
(* The writes.                                                             *)

\* What a write makes of the rows; no more than they are where it is refused.
Outcome(j, draws) ==
  LET s == WithFreshSlug(shareRows, draws)
  IN  CASE j.control \in Flag     -> {UpdateList(shareRows, j.list, j.control, j.value)}
        [] j.control = "reset"     -> {RotateShareLink(shareRows, j.list, x) : x \in s}
        [] j.control = "create"    -> {Born(shareRows, j.list, x) : x \in s}
        [] j.control = "duplicate" -> IF Panel \in DOMAIN shareRows
                                        THEN {Duplicate(shareRows, j.list, x, Panel) : x \in s}
                                        ELSE {}
        [] j.control = "delete"    -> IF j.list \in DOMAIN shareRows THEN {RemoveShareRow(shareRows, j.list)} ELSE {}

Commit(j) ==
  /\ ~ j.done
  /\ \E draws \in [1 .. Tries -> Slug] : shareRows' \in Outcome(j, draws)
  /\ shareJobs' = (shareJobs \ {j}) \cup {[j EXCEPT !.done = TRUE]}
  /\ tally' = [tally EXCEPT !.resets = IF j.control = "reset" THEN @ + 1 ELSE @,
                            !.made   = IF j.control = "create" THEN @ + 1 ELSE @]
  /\ UNCHANGED <<store, opened, cacheVars, pageVars, clock, meant, outdated>>

\* Fault: only a confirmed write is followed by a read.
OnSuccessOnly(failed) ==
  IF failed THEN UNCHANGED <<listRead, listStale>>
            ELSE listRead' = [at |-> "asked"] /\ listStale' = FALSE

\* onSettled: the rows are asked for again, whatever became of the write.
OnSettled(failed) == listRead' = [at |-> "asked"] /\ listStale' = FALSE

Settled(j) ==
  /\ j.done
  /\ shareJobs' = shareJobs \ {j}
  /\ form' = (form /\ j.control # "create")
  /\ confirm' = (confirm /\ j.control # "reset")
  /\ OnSettled(FALSE)
  /\ UNCHANGED <<serverVars, shown, painted, clock, noteVars>>

\* Refused, unreachable or the answer lost: the cache goes back to what it was
\* when the write began, whole, and the owner is told to look.
Failed(j) ==
  /\ shareJobs' = shareJobs \ {j}
  /\ shown' \in IF j.snap = {} THEN {shown} ELSE j.snap
  /\ confirm' = (confirm /\ j.control # "reset")
  /\ meant' = IF j.control \in Flag THEN [meant EXCEPT ![j.control] = {}] ELSE meant
  /\ tally' = IF j.control = "create" THEN [tally EXCEPT !.made = 0] ELSE tally
  /\ OnSettled(TRUE)
  /\ UNCHANGED <<serverVars, painted, form, clock, outdated>>

\* Another tab of the owner flips a flag, resets the link or deletes a list.
OtherTab ==
  /\ clock < ShareWrites /\ clock' = clock + 1
  /\ \E l \in DOMAIN shareRows :
       \/ \E flag \in Flag : /\ shareRows' = UpdateList(shareRows, l, flag, ~ shareRows[l][flag])
                              /\ meant' = [meant EXCEPT ![flag] = {}]
       \/ \E draws \in [1 .. Tries -> Slug] :
            \E s \in WithFreshSlug(shareRows, draws) :
              shareRows' = RotateShareLink(shareRows, l, s) /\ UNCHANGED meant
       \/ shareRows' = RemoveShareRow(shareRows, l) /\ meant' = [flag \in Flag |-> {}]
  /\ outdated' = TRUE
  /\ UNCHANGED <<store, opened, cacheVars, shareJobs, pageVars, tally>>

-----------------------------------------------------------------------------
SharesInit ==
  /\ \E shared \in BOOLEAN :
       shareRows = [l \in {Panel} |-> [slug |-> CHOOSE s \in Slug : TRUE,
                                  isShared |-> shared, isDraft |-> TRUE]]
  /\ store = [v \in Visitor |-> [s \in {} |-> {}]]
  /\ opened = [v \in Visitor |-> {}]
  /\ shown = shareRows /\ listRead = NoListRead /\ listStale = FALSE
  /\ shareJobs = {} /\ painted = {} /\ confirm = FALSE /\ form = FALSE /\ clock = 0
  /\ meant = [flag \in Flag |-> {}] /\ outdated = FALSE
  /\ tally = [resets |-> 0, made |-> 0]

SharesNext ==
  \/ \E v \in Visitor, s \in Slug : Visit(v, s)
  \/ AnswerLists \/ LandLists \/ FailLists \/ Paint
  \/ (\E flag \in Flag : Toggle(flag)) \/ AskReset \/ CancelReset \/ ResetLink
  \/ OpenForm \/ CloseForm \/ SubmitCreate \/ (\E l \in ListId : DeleteList(l)) \/ DuplicateList
  \/ (\E j \in shareJobs : Commit(j) \/ Settled(j) \/ Failed(j))
  \/ OtherTab

SharesSpec == SharesInit /\ [][SharesNext]_shareVars

-----------------------------------------------------------------------------
(* Properties                                                              *)

\* The rows, the retries for a free slug, the copies and the caching of answers
\* together keep what share links promise: PublicLinks.
Promise ==
  INSTANCE PublicLinks WITH
    link   <- [l \in DOMAIN shareRows |-> shareRows[l].slug],
    public <- {l \in DOMAIN shareRows : shareRows[l].isShared}

LinkPromise == Promise!Spec

\* A list is as public, and as much of a draft, as its owner last asked, once that
\* request is answered: no pair of clicks leaves it the other way round.
IntentKept ==
  \A flag \in Flag :
    (meant[flag] # {} /\ flag \notin BusyFlags /\ Panel \in DOMAIN shareRows)
       => shareRows[Panel][flag] \in meant[flag]

\* A page at rest that says private is right: with no write and no read under way,
\* none failed and no other tab at work, the cache is what the rows are.
ShownIsHeld ==
  (shareJobs = {} /\ listRead.at = "none" /\ ~ listStale /\ ~ outdated) => shown = shareRows

\* One confirmation burns one link at most, however often Reset is clicked.
OneResetPerConfirm == tally.resets <= 1

\* A form makes one list, and another one only after the owner was told of a failure.
OneListPerForm == tally.made <= 1

\* What the owner asked for is what holds, once, and what a page at rest says of it.
OwnerObeyed == IntentKept /\ ShownIsHeld /\ OneResetPerConfirm /\ OneListPerForm
=============================================================================
