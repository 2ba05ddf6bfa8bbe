----------------------------- MODULE MCAccounts -----------------------------
(* Instances of what keeps accounts and the site itself: the rate limits    *)
(* and the sign-in links they guard, account deletion, the page's session   *)
(* checks, the tabs of a browser, and the deploy script.  These share no    *)
(* state, so one instance checks them side by side: in a behaviour one part *)
(* moves, and the others stay as they start.                                *)
EXTENDS MagicLink, AccountDeletion, SessionCheck, BrowserTabs, Deploy, TLC

CONSTANTS r1, r2, r3, k1, k2, k3, t1, t2

VARIABLE part \* the part that moves

-----------------------------------------------------------------------------
(* MagicLink                                                                *)

MCBucket == {Global} \cup {HostKey(h) : h \in Host} \cup {MailKey(a) : a \in Address}

\* One slot each.  The shared window outlives several of the others.
MCLimit  == [b \in MCBucket |-> 1]
MCWindow == [b \in MCBucket |-> IF b = Global THEN 3 ELSE 1]

\* r1 and r2 name one address from two hosts; r3 comes from r2's, with an address
\* that nothing can be sent to.
MCHostOf    == (r1 :> "h1") @@ (r2 :> "h2") @@ (r3 :> "h2")
MCAddressOf == (r1 :> "a") @@ (r2 :> "a") @@ (r3 :> "junk")

-----------------------------------------------------------------------------
(* AccountDeletion                                                          *)

\* Alice types her address in two ways, and Bob uses the same browser.
MCSpellingOf == (k1 :> "alice") @@ (k2 :> "Alice") @@ (k3 :> "bob")

MClower(s) == IF s = "Alice" THEN "alice" ELSE s

-----------------------------------------------------------------------------
(* Deploy                                                                   *)

\* The second image adds a migration; the third is built from other files.
MCJournal == [i \in Image |->
  CASE i = 1 -> <<"a">> [] i = 2 -> <<"a", "b">> [] i = 3 -> <<"c", "b">>]

-----------------------------------------------------------------------------
(* Side by side                                                             *)

AccountsInit ==
  /\ part \in {"links", "deletion", "session", "tab", "tabs", "deploy"}
  /\ LinkInit /\ DeletionInit /\ CheckInit /\ TabsInit /\ DeployInit
  /\ part # "session" => sound
  /\ IF part \in {"tab", "tabs"} THEN cookie.user # "ub" \* who starts as ub mirrors ua
     ELSE cookie = NoSession /\ pointer = NoPointer
  /\ part # "deploy" => appImage = FirstImage

LinksMove    == part = "links"    /\ LinkNext
DeletionMove == part = "deletion" /\ DeletionNext
SessionMove  == part = "session"  /\ CheckNext
DeployMove   == part = "deploy"   /\ DeployNext

\* One tab for as long as the bound lasts, or two tabs for two clicks.
TabsMove ==
  /\ TabsNext
  /\ \/ part = "tab" /\ docs'[t2] = docs[t2]
     \/ part = "tabs" /\ clicksLeft' >= TabClicks - 2

AccountsNext ==
  \/ LinksMove /\ UNCHANGED <<part, deletionVars, checkVars, tabVars, deployVars>>
  \/ DeletionMove /\ UNCHANGED <<part, sends, checkVars, tabVars, deployVars>>
  \/ SessionMove /\ UNCHANGED <<part, sends, deletionVars, tabVars, deployVars>>
  \/ TabsMove /\ UNCHANGED <<part, sends, deletionVars, checkVars, deployVars>>
  \/ DeployMove /\ UNCHANGED <<part, sends, deletionVars, checkVars, tabVars>>

accountsVars == <<part, sends, deletionVars, checkVars, tabVars, deployVars>>

\* A step of the session's part, and nothing else.
Checks(A) ==
  part = "session" /\ A /\ UNCHANGED <<part, sends, deletionVars, tabVars, deployVars>>

\* The fairness is SessionCheck's.
AccountsSpec ==
  /\ AccountsInit /\ [][AccountsNext]_accountsVars
  /\ WF_accountsVars(Checks(StopWaiting)) /\ WF_accountsVars(Checks(Continue))
  /\ WF_accountsVars(Checks(sound /\ Serve)) /\ WF_accountsVars(Checks(sound /\ Deliver))
=============================================================================
