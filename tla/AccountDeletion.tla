--------------------------- MODULE AccountDeletion ---------------------------
(***************************************************************************)
(* Deleting an account while sign-in links for it are asked for and used.  *)
(* An account is born by redeeming a link for an address that has none, so *)
(* a link that outlives its account's deletion would bring the account     *)
(* back.  The deletion purges the stored links before the user row goes    *)
(* and once more after it.                                                 *)
(*                                                                         *)
(* better-auth's own steps (storing and consuming a token, finding or      *)
(* creating the user, deleting the row) are external and modelled from     *)
(* the way the code relies on them: each is a turn of its own, so that     *)
(* other requests run in between, and a token is consumed by one request.  *)
(* One browser, and one deletion at a time.                                *)
(***************************************************************************)
EXTENDS Naturals

CONSTANTS
  Link,       \* requests for a link
  Spelling,   \* addresses as they are typed
  MailAddress,    \* addresses in lower case, as accounts hold them
  lower(_),   \* the address a spelling is folded to
  SpellingOf, \* the spelling each request names
  LinkLife,   \* expiresIn: how long a stored link can be redeemed
  Accounts,   \* bound on the accounts ever created
  LastInstant     \* the last instant of the instance

MailAddressOf(k) == lower(SpellingOf[k])

ASSUME DeletionAssumption ==
  /\ SpellingOf \in [Link -> Spelling]
  /\ \A s \in Spelling : lower(s) \in MailAddress
  /\ \A a \in MailAddress : lower(a) = a
  /\ LinkLife \in Nat /\ Accounts \in Nat /\ LastInstant \in Nat

\* Ids are given out in order of creation; there is no account 0.
NoUser == 0

VARIABLES
  clock,      \* the clock
  user,     \* the account of each address, or NoUser
  created,  \* accounts created so far
  signedIn,   \* the account the browser's session is of
  link,     \* each request: new, hashing, stored, taken or done
  stored,   \* when its link was stored
  deletion, \* the deletion under way, if any: where it is, of whom, for whom
  old,      \* links whose request was over when their account's last purge ran,
            \* and when that was: no code reads it
  missed    \* that purge failed: no code reads it

deletionVars == <<clock, user, created, signedIn, link, stored, deletion, old, missed>>

NoDeletion == [at |-> "none"]

Lives(k) == clock < stored[k] + LinkLife

-----------------------------------------------------------------------------
(* Asking for a link and redeeming it                                      *)

\* The request has passed the limiter; its token is being hashed.
AskForLink(k) ==
  /\ link[k] = "new"
  /\ link' = [link EXCEPT ![k] = "hashing"]
  /\ UNCHANGED <<clock, user, created, signedIn, stored, deletion, old, missed>>

\* The verification row is written; it holds the address as it was typed.
StoreLink(k) ==
  /\ link[k] = "hashing"
  /\ link' = [link EXCEPT ![k] = "stored"]
  /\ stored' = [stored EXCEPT ![k] = clock]
  /\ UNCHANGED <<clock, user, created, signedIn, deletion, old, missed>>

\* magic-link/verify consumes the token, if it is still there and lives,
ConsumeLink(k) ==
  /\ link[k] = "stored"
  /\ link' = [link EXCEPT ![k] = IF Lives(k) THEN "taken" ELSE "done"]
  /\ UNCHANGED <<clock, user, created, signedIn, stored, deletion, old, missed>>

\* and signs in the account of the address, or creates one.
Redeem(k) ==
  /\ link[k] = "taken"
  /\ link' = [link EXCEPT ![k] = "done"]
  /\ LET a == MailAddressOf(k)
     IN  IF user[a] # NoUser
           THEN signedIn' = user[a] /\ UNCHANGED <<user, created>>
           ELSE /\ created < Accounts
                /\ created' = created + 1
                /\ user' = [user EXCEPT ![a] = created + 1]
                /\ signedIn' = created + 1
  /\ UNCHANGED <<clock, stored, deletion, old, missed>>

-----------------------------------------------------------------------------
(* Deleting the account                                                    *)

\* Fault: the purge compares addresses as they were typed.
SameSpelling(k, a) == SpellingOf[k] = a

\* The rows that purgeVerificationArtifacts finds: both sides are folded.
IsOf(k, a) == lower(SpellingOf[k]) = lower(a)

\* purgeVerificationArtifacts: the stored links of the address go.
Purge(a) ==
  link' = [k \in Link |-> IF link[k] = "stored" /\ IsOf(k, a) THEN "done" ELSE link[k]]

\* Fault: the session's account is deleted, whoever was meant.
WhoeverIsSignedIn(d) == TRUE

\* The header names the account that the user confirmed.
NamesThisAccount(d) == d.named = d.of

\* The delete-user route with a fresh session: the user confirmed the account
\* named, and the session may have become another's since.
AskToDelete(named, a) ==
  /\ deletion = NoDeletion
  /\ signedIn # NoUser
  /\ user[a] = signedIn
  /\ deletion' = [at |-> "asked", of |-> signedIn, address |-> a, named |-> named]
  /\ UNCHANGED <<clock, user, created, signedIn, link, stored, old, missed>>

\* beforeDelete: refuse unless the account is the one named, then purge; if the
\* purge fails, nothing is deleted.
BeforeDelete ==
  /\ deletion.at = "asked"
  /\ \/ /\ NamesThisAccount(deletion)
        /\ Purge(deletion.address)
        /\ deletion' = [deletion EXCEPT !.at = "purged"]
     \/ deletion' = NoDeletion /\ UNCHANGED link
  /\ UNCHANGED <<clock, user, created, signedIn, stored, old, missed>>

\* The user row goes, and with it everything that hangs on it and its sessions.
DeleteUser ==
  /\ deletion.at = "purged"
  /\ user' = [user EXCEPT ![deletion.address] =
                IF @ = deletion.of THEN NoUser ELSE @]
  /\ signedIn' = IF signedIn = deletion.of THEN NoUser ELSE signedIn
  /\ deletion' = [deletion EXCEPT !.at = "gone"]
  /\ UNCHANGED <<clock, created, link, stored, old, missed>>

\* Fault: one purge is thought to be enough.
NotAgain(a) == UNCHANGED link

PurgeAgain(a) == Purge(a)

\* The links of a whose requests were over: a link still being hashed, or a
\* redemption under way, is out of the purge's reach.
Over(a) == {k \in Link : link[k] = "stored" /\ MailAddressOf(k) = a}

\* afterDelete: purge again; a failure is logged and the deletion reported done.
AfterDelete ==
  /\ deletion.at = "gone"
  /\ LET a == deletion.address
     IN  /\ \/ PurgeAgain(a) /\ missed' = [missed EXCEPT ![a] = FALSE]
            \/ UNCHANGED link /\ missed' = [missed EXCEPT ![a] = TRUE]
         /\ old' = [k \in Link |-> IF k \in Over(a) THEN clock + 1 ELSE old[k]]
  /\ deletion' = NoDeletion
  /\ UNCHANGED <<clock, user, created, signedIn, stored>>

-----------------------------------------------------------------------------

Advance ==
  /\ clock < LastInstant
  /\ clock' = clock + 1
  /\ UNCHANGED <<user, created, signedIn, link, stored, deletion, old, missed>>

DeletionInit ==
  /\ clock = 0
  /\ user = [a \in MailAddress |-> NoUser]
  /\ created = 0
  /\ signedIn = NoUser
  /\ link = [k \in Link |-> "new"]
  /\ stored = [k \in Link |-> 0]
  /\ deletion = NoDeletion
  /\ old = [k \in Link |-> 0]
  /\ missed = [a \in MailAddress |-> FALSE]

DeletionNext ==
  \/ \E k \in Link : AskForLink(k) \/ StoreLink(k) \/ ConsumeLink(k) \/ Redeem(k)
  \/ \E a \in MailAddress, named \in 1 .. created : AskToDelete(named, a)
  \/ BeforeDelete \/ DeleteUser \/ AfterDelete
  \/ Advance

DeletionSpec == DeletionInit /\ [][DeletionNext]_deletionVars

-----------------------------------------------------------------------------
(* Properties                                                              *)

DeletionTypeOK ==
  /\ clock \in 0 .. LastInstant
  /\ user \in [MailAddress -> 0 .. Accounts]
  /\ created \in 0 .. Accounts /\ signedIn \in 0 .. Accounts
  /\ link \in [Link -> {"new", "hashing", "stored", "taken", "done"}]
  /\ stored \in [Link -> 0 .. LastInstant]
  /\ deletion \in {NoDeletion} \cup
       [at : {"asked", "purged", "gone"}, of : 1 .. Accounts, address : MailAddress,
        named : 1 .. Accounts]
  /\ old \in [Link -> 0 .. LastInstant + 1]
  /\ missed \in [MailAddress -> BOOLEAN]

\* No two addresses share an account, the deletion under way is still of the
\* account it was asked for, and past the first purge that is the one confirmed.
DeletionInv ==
  /\ DeletionTypeOK
  /\ \A a, b \in MailAddress : user[a] = user[b] /\ user[a] # NoUser => a = b
  /\ signedIn # NoUser => \E a \in MailAddress : user[a] = signedIn
  /\ deletion.at \in {"asked", "purged"} => user[deletion.address] = deletion.of
  /\ deletion.at \in {"purged", "gone"} => deletion.named = deletion.of

\* A deleted account does not come back: no link that was stored when its
\* account's last purge ran is redeemed after it, however it was typed and
\* whenever it was stored; if that purge failed, none outlives its five minutes.
DeletedStaysDeleted ==
  [][\A k \in Link : link[k] = "stored" /\ link'[k] = "taken" /\ old[k] # 0 =>
       missed[MailAddressOf(k)] /\ clock < old[k] - 1 + LinkLife]_deletionVars

\* Only the account that the user confirmed is deleted, whoever signs in with the
\* same browser between the confirmation and the deletion.
RightAccount ==
  [][\A a \in MailAddress : user[a] # NoUser /\ user'[a] # user[a] =>
       user'[a] = NoUser /\ deletion.named = user[a]]_deletionVars

\* A deletion takes the account that was confirmed, and takes it for good.
DeletionKept == RightAccount /\ DeletedStaysDeleted
=============================================================================
