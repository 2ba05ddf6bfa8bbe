---------------------------- MODULE BrowserTabs ----------------------------
(***************************************************************************)
(* The tabs of one browser and the account signed in there: what a tab may *)
(* still show when another tab, a link or an expiry changes the session    *)
(* (session-cache-guard.tsx), where the last-list pointer leads            *)
(* (last-list-path.ts, RootRedirect.tsx, ListDetailPage.tsx), and the      *)
(* writes that need a fresh proof (use-reauth.tsx with its two sections).  *)
(*                                                                         *)
(* The cookie and the pointer belong to the browser; the session atom, the *)
(* query cache and all page state belong to a document and go with it,     *)
(* unless the browser keeps the document for Back.  An account has one     *)
(* list, named like the account.                                           *)
(***************************************************************************)
EXTENDS Integers, FiniteSets

CONSTANTS
  Tab, User,
  Nobody,     \* no account
  TabClicks   \* bound: what users and expiry do, answers and effects aside

ASSUME BrowserAssumption ==
  IsFiniteSet(Tab) /\ IsFiniteSet(User) /\ Nobody \notin User /\ TabClicks \in Nat

VARIABLES
  cookie,   \* [user, fresh]: the session cookie every tab sends
  accounts, \* the accounts that exist
  existing, \* the lists that exist
  pointer,  \* the stored last-list path: [list, owner]
  docs,     \* the document each tab shows
  frozen,   \* the document each tab keeps for Back
  left,     \* accounts a tab has left since it last loaded as them
  typed,    \* accounts whose own page was told, in words, to delete them
  clicksLeft

tabVars == <<cookie, accounts, existing, pointer, docs, frozen, left, typed, clicksLeft>>

NoSession == [user |-> Nobody, fresh |-> FALSE]
NoPointer == [list |-> Nobody, owner |-> Nobody]

\* A document as it loads.  atom is the account its session atom names and
\* asked whether the atom has been answered; held are the accounts the atom
\* named when rows were read into the query cache, and from the account whose
\* session the server answered last, Nobody before the lists are known.
Loaded(route) ==
  [route |-> route, at |-> Nobody, atom |-> Nobody, asked |-> FALSE,
   lists |-> {}, from |-> Nobody, fetching |-> FALSE, failed |-> FALSE, held |-> {},
   tearing |-> FALSE, leaving |-> "stay", busy |-> FALSE,
   parked |-> Nobody, linkSent |-> FALSE, submitting |-> FALSE, calls |-> {}]

NoDoc == [Loaded("none") EXCEPT !.asked = TRUE]

-----------------------------------------------------------------------------
(* The guard                                                               *)

\* Fault: the navigation is started and the tree stays until it happens.
StayUntilUnload(d) == FALSE

\* SessionCacheGuard renders nothing from the render that saw the change on.
Suppressed(d) == d.tearing

Gated(d) == d.route \in {"root", "list", "lists"}

\* The signed-in area is on screen.
Rendering(d) == Gated(d) /\ d.atom # Nobody /\ ~Suppressed(d)

WasAuthenticated(d) == d.atom # Nobody \/ d.tearing

\* The render in which the atom names u: an established account that changes
\* tears the document down; RequireSession and RedirectIfSession route.
Observed(d, u) ==
  IF d.atom \notin {Nobody, u}
  THEN [d EXCEPT !.atom = u, !.asked = TRUE, !.tearing = TRUE, !.leaving = "root"]
  ELSE [d EXCEPT !.atom = u, !.asked = TRUE,
                 !.route = CASE u = Nobody /\ Gated(d)      -> "sign-in"
                             [] u # Nobody /\ @ = "sign-in" -> "root"
                             [] OTHER                       -> @]

-----------------------------------------------------------------------------
(* The pointer                                                             *)

\* Fault: an answer that has not come, or an error, counts as absence.
AlsoUnsettled(d) == d.route = "list" /\ d.at \notin d.lists

\* The server settled and said the list is not there.
ListMissing(d) ==
  /\ d.route = "list" /\ d.at \notin d.lists
  /\ d.from # Nobody /\ ~d.fetching /\ ~d.failed

Resolved(d) == d.route = "list" /\ d.at \in d.lists

\* The two effects of ListDetailPage after a document went from d to e: store
\* a list that resolved, forget one that is missing.
PointerAfter(d, e) ==
  CASE Suppressed(e) -> pointer
    [] Resolved(e) /\ (~Resolved(d) \/ <<d.at, d.atom>> # <<e.at, e.atom>>) ->
         [list |-> e.at, owner |-> e.atom]
    [] ListMissing(e) /\ pointer = [list |-> e.at, owner |-> e.atom] -> NoPointer
    [] OTHER -> pointer

\* The document of t becomes e; e's effects have run.
Commit(t, e) ==
  /\ docs' = [docs EXCEPT ![t] = e]
  /\ pointer' = PointerAfter(docs[t], e)

\* readLastListPath, for the account that is signed in.
LastListPath(d) == IF pointer.owner = d.atom THEN pointer.list ELSE Nobody

-----------------------------------------------------------------------------
(* Session changes                                                         *)

Click == clicksLeft > 0 /\ clicksLeft' = clicksLeft - 1

\* The session expires, or is ended elsewhere.
SessionEnds ==
  /\ cookie # NoSession /\ Click
  /\ cookie' = NoSession
  /\ UNCHANGED <<accounts, existing, pointer, docs, frozen, left, typed>>

\* The session gets older than the freshness the gates ask for.
Ages ==
  /\ cookie.fresh
  /\ cookie' = [cookie EXCEPT !.fresh = FALSE]
  /\ UNCHANGED <<accounts, existing, pointer, docs, frozen, left, clicksLeft, typed>>

\* The atom of a tab is answered: on load, on focus, after an auth call, or
\* because another tab said that it signed out.
ReadSession(t) ==
  LET d == docs[t]
      e == Observed(d, cookie.user)
  IN  /\ d.route # "none" /\ e # d
      /\ docs' = [docs EXCEPT ![t] = e]
      /\ pointer' = IF e.tearing THEN NoPointer ELSE PointerAfter(d, e)
      /\ left' = [left EXCEPT ![t] = (@ \ {cookie.user}) \cup
                    (IF e.tearing THEN {d.atom} ELSE {})]
      /\ UNCHANGED <<cookie, accounts, existing, frozen, clicksLeft, typed>>

\* The sign-in page with a passkey of u; navigate('/') keeps the document.
SignIn(t, u) ==
  /\ docs[t].route = "sign-in" /\ u \in accounts /\ Click
  /\ cookie' = [user |-> u, fresh |-> TRUE]
  /\ Commit(t, [docs[t] EXCEPT !.route = IF docs[t].atom = Nobody THEN "sign-in" ELSE "root"])
  /\ UNCHANGED <<accounts, existing, frozen, left, typed>>

\* useSignOut, when the call has been answered or has failed.
SignOut(t, ended) ==
  LET d == docs[t]
  IN  /\ Rendering(d) /\ ~d.busy /\ Click
      /\ cookie' = IF ended THEN NoSession ELSE cookie
      /\ docs' = [docs EXCEPT ![t].busy = TRUE, ![t].leaving = "sign-in"]
      /\ pointer' = NoPointer
      /\ left' = [left EXCEPT ![t] = @ \cup {d.atom}]
      /\ UNCHANGED <<accounts, existing, frozen, typed>>

\* A document replaced is kept for Back as it was; what it waited for is lost.
Kept(d) == [d EXCEPT !.leaving = "stay", !.calls = {}, !.fetching = FALSE]

\* A magic link is opened in the tab: a full load of its page.
OpenLink(t) ==
  /\ docs[t].route \notin {"none", "magic"} /\ Click
  /\ frozen' = [frozen EXCEPT ![t] = Kept(docs[t])]
  /\ docs' = [docs EXCEPT ![t] = Loaded("magic")]
  /\ UNCHANGED <<cookie, accounts, existing, pointer, left, typed>>

\* handleVerify: a navigation to the verify endpoint, on a click.
VerifyLink(t) ==
  /\ docs[t].route = "magic" /\ ~docs[t].busy
  /\ docs' = [docs EXCEPT ![t].busy = TRUE, ![t].leaving = "verify"]
  /\ UNCHANGED <<cookie, accounts, existing, pointer, frozen, left, clicksLeft, typed>>

\* A navigation started by location.assign replaces the document.
Unload(t) ==
  LET d == docs[t]
  IN  /\ d.leaving # "stay"
      /\ frozen' = [frozen EXCEPT ![t] = Kept(d)]
      /\ \/ /\ d.leaving \in {"root", "sign-in"}
            /\ docs' = [docs EXCEPT ![t] = Loaded(d.leaving)]
            /\ UNCHANGED <<cookie, accounts, clicksLeft>>
         \/ /\ d.leaving = "verify" /\ Click
            /\ \E u \in User :
                 /\ cookie' = [user |-> u, fresh |-> TRUE]
                 /\ accounts' = accounts \cup {u}
            /\ docs' = [docs EXCEPT ![t] = Loaded("root")]
         \/ /\ d.leaving = "verify"
            /\ docs' = [docs EXCEPT ![t] = Loaded("sign-in")]
            /\ UNCHANGED <<cookie, accounts, clicksLeft>>
      /\ UNCHANGED <<existing, pointer, left, typed>>

\* Fault: a restored page is left as it was.
AsItWas(d) == d

\* onPageShow: a document that was ever signed in is loaded again.
Restored(d) == IF WasAuthenticated(d) THEN Loaded(d.route) ELSE d

Back(t) ==
  /\ frozen[t] # NoDoc
  /\ docs' = [docs EXCEPT ![t] = [Restored(frozen[t]) EXCEPT !.at = frozen[t].at]]
  /\ frozen' = [frozen EXCEPT ![t] = NoDoc]
  /\ UNCHANGED <<cookie, accounts, existing, pointer, left, clicksLeft, typed>>

-----------------------------------------------------------------------------
(* Lists                                                                   *)

\* A read of the lists starts: a mount, a refetch, Retry.
FetchLists(t) ==
  /\ Rendering(docs[t]) /\ ~docs[t].fetching /\ Click
  /\ Commit(t, [docs[t] EXCEPT !.fetching = TRUE])
  /\ UNCHANGED <<cookie, accounts, existing, frozen, left, typed>>

\* The server answers for the cookie it got; a failure keeps what was cached.
ListsAnswered(t) ==
  LET d == docs[t]
  IN  /\ d.fetching
      /\ Commit(t, IF cookie.user = Nobody
                   THEN [d EXCEPT !.fetching = FALSE, !.failed = TRUE]
                   ELSE [d EXCEPT !.fetching = FALSE, !.failed = FALSE, !.from = cookie.user,
                                  !.lists = existing \cap {cookie.user},
                                  !.held = @ \cup {d.atom}])
      /\ UNCHANGED <<cookie, accounts, existing, frozen, left, clicksLeft, typed>>

ListsFailed(t) ==
  /\ docs[t].fetching
  /\ Commit(t, [docs[t] EXCEPT !.fetching = FALSE, !.failed = TRUE])
  /\ UNCHANGED <<cookie, accounts, existing, frozen, left, clicksLeft, typed>>

\* RootRedirect: the stored path of this account, or the newest list, or /lists.
RootRedirect(t) ==
  LET d == docs[t]
  IN  /\ Rendering(d) /\ d.route = "root"
      /\ Commit(t,
           IF LastListPath(d) # Nobody
           THEN [d EXCEPT !.route = "list", !.at = LastListPath(d)]
           ELSE [d EXCEPT !.route = IF d.lists = {} THEN "lists" ELSE "list",
                          !.at = IF d.lists = {} THEN Nobody ELSE CHOOSE l \in d.lists : TRUE])
      /\ LastListPath(d) # Nobody \/ d.from # Nobody \/ d.failed
      /\ UNCHANGED <<cookie, accounts, existing, frozen, left, clicksLeft, typed>>

\* The user opens a list, from the page or by its address.
OpenList(t, l) ==
  /\ Rendering(docs[t]) /\ docs[t].at # l /\ Click
  /\ Commit(t, [docs[t] EXCEPT !.route = "list", !.at = l])
  /\ UNCHANGED <<cookie, accounts, existing, frozen, left, typed>>

\* The open list is deleted; its pointer is forgotten once that succeeded.
DeleteList(t) ==
  LET d == docs[t]
  IN  /\ Rendering(d) /\ Resolved(d) /\ d.at = cookie.user /\ Click
      /\ existing' = existing \ {d.at}
      /\ docs' = [docs EXCEPT ![t].route = "lists", ![t].at = Nobody, ![t].lists = @ \ {d.at}]
      /\ pointer' = IF pointer.list = d.at THEN NoPointer ELSE pointer
      /\ UNCHANGED <<cookie, accounts, frozen, left, typed>>

-----------------------------------------------------------------------------
(* Writes behind a fresh session                                           *)

Deleting(u) == [is |-> "delete", user |-> u]
Proof == [is |-> "proof", user |-> Nobody]

\* Fault: the form and the prompt each have a guard of their own.
UnsharedGuard(d) == Deleting(d.atom) \notin d.calls

\* The in-flight guard that the form and the prompt share.
NotSubmitting(d) == ~d.submitting

\* submit: the account confirmed is the one signed in at that moment.  Enter
\* submits the form also while its button is disabled.
ConfirmDelete(t) ==
  LET d == docs[t]
  IN  /\ Rendering(d) /\ NotSubmitting(d) /\ Click
      /\ docs' = [docs EXCEPT ![t].submitting = TRUE, ![t].calls = @ \cup {Deleting(d.atom)}]
      /\ typed' = typed \cup {d.atom}
      /\ UNCHANGED <<cookie, accounts, existing, pointer, frozen, left>>

\* Fault: the replay names the account that is signed in by then.
WhoeverIsIn(d) == Deleting(cookie'.user)

\* The parked action, replayed as it was confirmed.
Replay(d) == Deleting(d.parked)

\* The server's answer to a delete: refused for another account's session,
\* parked for a stale one, and otherwise the account is gone.
DeleteAnswered(t) ==
  \E c \in docs[t].calls :
    LET d == [docs[t] EXCEPT !.calls = @ \ {c}, !.submitting = FALSE]
    IN  /\ c.is = "delete"
        /\ \/ /\ cookie.user # c.user
              /\ docs' = [docs EXCEPT ![t] = d]
              /\ UNCHANGED <<cookie, accounts, existing, pointer, left, typed>>
           \/ /\ cookie = [user |-> c.user, fresh |-> FALSE]
              /\ docs' = [docs EXCEPT ![t] = [d EXCEPT !.parked = c.user]]
              /\ UNCHANGED <<cookie, accounts, existing, pointer, left, typed>>
           \/ /\ cookie = [user |-> c.user, fresh |-> TRUE]
              /\ accounts' = accounts \ {c.user} /\ existing' = existing \ {c.user}
              /\ cookie' = NoSession /\ pointer' = NoPointer
              /\ docs' = [docs EXCEPT ![t] = [d EXCEPT !.leaving = "sign-in"]]
              /\ left' = [left EXCEPT ![t] = @ \cup {c.user}]
        /\ UNCHANGED <<frozen, clicksLeft, typed>>

\* No answer: the account may be gone, so the document goes.
DeleteUnanswered(t) ==
  \E c \in docs[t].calls :
    /\ c.is = "delete"
    /\ docs' = [docs EXCEPT ![t].calls = @ \ {c}, ![t].submitting = FALSE,
                            ![t].leaving = "sign-in"]
    /\ pointer' = NoPointer
    /\ left' = [left EXCEPT ![t] = @ \cup {docs[t].atom}]
    /\ UNCHANGED <<cookie, accounts, existing, frozen, clicksLeft, typed>>

\* reauthWithPasskey: the browser asks for a passkey, of whatever account.
StartProof(t) ==
  LET d == docs[t]
  IN  /\ Rendering(d) /\ d.parked # Nobody /\ ~d.linkSent /\ ~d.submitting /\ Click
      /\ docs' = [docs EXCEPT ![t].submitting = TRUE, ![t].calls = @ \cup {Proof}]
      /\ UNCHANGED <<cookie, accounts, existing, pointer, frozen, left, typed>>

\* Fault: the prompt is emptied whatever came of the proof.
EmptiedFirst(d) == Nobody

\* A proof that failed or was canceled leaves the action parked.
ParkedAfterFailure(d) == d.parked

ProofFailed(t) ==
  /\ Proof \in docs[t].calls
  /\ docs' = [docs EXCEPT ![t].calls = @ \ {Proof}, ![t].submitting = FALSE,
                          ![t].parked = ParkedAfterFailure(docs[t])]
  /\ UNCHANGED <<cookie, accounts, existing, pointer, frozen, left, clicksLeft, typed>>

Proved(t, u) ==
  LET d == docs[t]
  IN  /\ Proof \in d.calls /\ u \in accounts /\ Click
      /\ cookie' = [user |-> u, fresh |-> TRUE]
      /\ docs' = [docs EXCEPT ![t].calls = (@ \ {Proof}) \cup {Replay(d)},
                              ![t].parked = Nobody]
      /\ UNCHANGED <<accounts, existing, pointer, frozen, left, typed>>

\* reauthWithEmail: a link is sent and nothing is replayed.
SendProofLink(t) ==
  LET d == docs[t]
  IN  /\ Rendering(d) /\ d.parked # Nobody /\ ~d.linkSent /\ ~d.submitting /\ Click
      /\ docs' = [docs EXCEPT ![t].linkSent = TRUE]
      /\ UNCHANGED <<cookie, accounts, existing, pointer, frozen, left, typed>>

-----------------------------------------------------------------------------
TabsInit ==
  /\ \E u \in User \cup {Nobody}, f \in BOOLEAN :
       cookie = IF u = Nobody THEN NoSession ELSE [user |-> u, fresh |-> f]
  /\ accounts = User /\ existing = User
  /\ \E u \in User \cup {Nobody} : pointer = [list |-> u, owner |-> u]
  /\ docs = [t \in Tab |-> Loaded("root")]
  /\ frozen = [t \in Tab |-> NoDoc]
  /\ left = [t \in Tab |-> {}] /\ typed = {}
  /\ clicksLeft = TabClicks

TabStep(t) ==
  \/ ReadSession(t) \/ OpenLink(t) \/ VerifyLink(t) \/ Unload(t) \/ Back(t)
  \/ FetchLists(t) \/ ListsAnswered(t) \/ ListsFailed(t)
  \/ RootRedirect(t) \/ DeleteList(t)
  \/ ConfirmDelete(t) \/ DeleteAnswered(t) \/ DeleteUnanswered(t)
  \/ StartProof(t) \/ ProofFailed(t) \/ SendProofLink(t)
  \/ \E ended \in BOOLEAN : SignOut(t, ended)
  \/ \E u \in User : SignIn(t, u) \/ OpenList(t, u) \/ Proved(t, u)

TabsNext == SessionEnds \/ Ages \/ \E t \in Tab : TabStep(t)

TabsSpec == TabsInit /\ [][TabsNext]_tabVars

-----------------------------------------------------------------------------
(* Properties                                                              *)

\* "The app may not render one account's data to another": rows that were read
\* while the tab took itself to be one account are never on screen once it
\* knows of another session or of none, not for one frame.
NothingHeldOver == \A t \in Tab : Rendering(docs[t]) => docs[t].held \subseteq {docs[t].atom}

\* What a tab has signed out of, or been torn down from, it does not show
\* again, Back included, before it has loaded as that account again.
LeftStaysLeft ==
  \A t \in Tab : Rendering(docs[t]) /\ docs[t].leaving = "stay"
                  => docs[t].held \cap left[t] = {}

\* Only an account whose own user typed the confirmation while signed in as it
\* is deleted, whichever account the proof in between signed in.
ConfirmedOnly == User \ accounts \subseteq typed

\* One delete at a time leaves a document, and none while a proof is asked for.
OneDeleteOut == \A t \in Tab : Cardinality(docs[t].calls) <= 1

\* A write that was parked for a proof stays parked until a proof replays it
\* or its document goes.
ParkedKept ==
  [][\A t \in Tab : docs[t].parked # Nobody =>
       \/ docs'[t].parked = docs[t].parked
       \/ Deleting(docs[t].parked) \in docs'[t].calls
       \/ docs'[t].asked = FALSE \/ frozen'[t] # frozen[t]]_tabVars

\* The pointer to an account's own list that is there is lost only with an account's
\* leaving; no failed or unfinished read of the lists loses it, unless a tab was
\* given the rows of a session it has not heard of yet.
PointerKept ==
  [][(/\ pointer # NoPointer /\ pointer' = NoPointer
      /\ pointer.owner = cookie.user /\ pointer.list = pointer.owner
      /\ pointer.list \in existing'
      /\ \A t \in Tab : docs[t].from \in {Nobody, docs[t].atom})
       => \E t \in Tab : docs'[t] # docs[t] /\ docs'[t].leaving # "stay"]_tabVars

\* Leaving an account takes exactly what is its: its rows, which no document shows
\* under another account or after Back, and its pointer, which nothing else takes.
LeavesRight == [](NothingHeldOver /\ LeftStaysLeft) /\ PointerKept

\* The delete that a user confirmed is sent once, of that account, and a proof that
\* is asked for in between, canceled or failed does not lose it.
DeleteAsConfirmed == [](OneDeleteOut /\ ConfirmedOnly) /\ ParkedKept
=============================================================================
