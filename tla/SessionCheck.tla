----------------------------- MODULE SessionCheck -----------------------------
(***************************************************************************)
(* How a signed-in page learns that its session is gone.  A 401 from an    *)
(* app route asks for a check; checks are coalesced, so that one may be    *)
(* awaited and one more owed.  better-auth's session atom makes the check: *)
(* each one it starts aborts the one before, it keeps the session on any   *)
(* failure that is not a 401, and it starts checks of its own when the     *)
(* page is focused.                                                        *)
(*                                                                         *)
(* The atom (the variables session and check) is external and modelled     *)
(* from the way the coalescer relies on it.                                *)
(***************************************************************************)
EXTENDS Naturals

CONSTANTS
  MaxDenied,  \* bound on the 401s that arrive
  MaxFocus    \* bound on the times the page is focused

ASSUME CheckAssumption == MaxDenied \in Nat /\ MaxFocus \in Nat

VARIABLES
  sound,     \* the server answers every check and none fails: settled at the start
  alive,     \* the server has the session
  session,   \* the atom holds it, so the page is shown
  check,     \* the atom's request: none, asked, or what the server said
  inFlight,  \* what the coalescer waits for: none, its check, or only its turn
  trailing,  \* another check is owed
  denied,    \* 401s so far
  focused,   \* focus events so far
  heard       \* a 401 of the dead session has arrived: no code reads it

checkVars == <<sound, alive, session, check, inFlight, trailing, denied, focused, heard>>

Answers == {"alive", "gone", "failed"}

\* The atom's refetch; a check that was under way is aborted.
Refetch == check' = "asked"

\* Fault: a check under way is taken to answer this 401 as well.
Drop ==
  /\ inFlight # "none"
  /\ UNCHANGED <<check, inFlight, trailing>>

\* A check is awaited: it may have been made too early, so one more is owed.
Coalesce ==
  /\ inFlight # "none"
  /\ trailing' = TRUE
  /\ UNCHANGED <<check, inFlight>>

\* run: start a check and wait for it.
Run ==
  /\ trailing' = FALSE
  /\ Refetch
  /\ inFlight' = "check"

\* revalidateSessionAfterUnauthorized; a proxy may answer 401 for a live session.
Unauthorized ==
  /\ session
  /\ denied < MaxDenied
  /\ denied' = denied + 1
  /\ heard' = (heard \/ ~ alive)
  /\ Coalesce \/ (inFlight = "none" /\ Run)
  /\ UNCHANGED <<sound, alive, session, focused>>

\* Fault: a check that does not come back is waited for.
Never == FALSE

\* SESSION_CHECK_TIMEOUT_MS have passed.  The check itself goes on.
TimedOut == inFlight = "check"

StopWaiting ==
  /\ TimedOut
  /\ inFlight' = "turn"
  /\ UNCHANGED <<sound, alive, session, check, trailing, denied, focused, heard>>

\* Fault: what is owed is not looked at again.
Finish ==
  /\ inFlight' = "none"
  /\ UNCHANGED <<check, trailing>>

\* The wait is over: make the check that is owed.
Resume ==
  IF trailing THEN Run ELSE inFlight' = "none" /\ UNCHANGED <<check, trailing>>

Continue ==
  /\ inFlight = "turn"
  /\ Resume
  /\ UNCHANGED <<sound, alive, session, denied, focused, heard>>

-----------------------------------------------------------------------------
(* The session, the atom and the server                                    *)

\* The session expires or is revoked elsewhere.
Revoke ==
  /\ alive
  /\ alive' = FALSE
  /\ UNCHANGED <<sound, session, check, inFlight, trailing, denied, focused, heard>>

Serve ==
  /\ check = "asked"
  /\ \/ check' = IF alive THEN "alive" ELSE "gone"
     \/ ~ sound /\ check' = "failed"
  /\ UNCHANGED <<sound, alive, session, inFlight, trailing, denied, focused, heard>>

\* The coalescer's own check came to an end, by an answer or by an abort.
Settled == IF inFlight = "check" THEN "turn" ELSE inFlight

\* Fault: any failed check means that nobody is signed in.
KeepIfAlive == session' = (session /\ check = "alive")

\* Only the server's 401 takes the session away.
Publish == session' = (session /\ check # "gone")

Deliver ==
  /\ check \in Answers
  /\ Publish
  /\ check' = "none"
  /\ inFlight' = Settled
  /\ UNCHANGED <<sound, alive, trailing, denied, focused, heard>>

Focus ==
  /\ session
  /\ focused < MaxFocus
  /\ focused' = focused + 1
  /\ Refetch
  /\ inFlight' = Settled
  /\ UNCHANGED <<sound, alive, session, trailing, denied, heard>>

CheckInit ==
  /\ sound \in BOOLEAN
  /\ alive = TRUE
  /\ session = TRUE
  /\ check = "none"
  /\ inFlight = "none"
  /\ trailing = FALSE
  /\ denied = 0
  /\ focused = 0
  /\ heard = FALSE

CheckNext ==
  \/ Unauthorized \/ StopWaiting \/ Continue
  \/ Revoke \/ Serve \/ Deliver \/ Focus

\* The timer fires and the turns of the page come; only of a sound server is it
\* said that it answers, and that its answers arrive.
CheckSpec ==
  /\ CheckInit /\ [][CheckNext]_checkVars
  /\ WF_checkVars(StopWaiting) /\ WF_checkVars(Continue)
  /\ WF_checkVars(sound /\ Serve) /\ WF_checkVars(sound /\ Deliver)

-----------------------------------------------------------------------------
(* Properties                                                              *)

CheckTypeOK ==
  /\ sound \in BOOLEAN /\ alive \in BOOLEAN /\ session \in BOOLEAN /\ trailing \in BOOLEAN /\ heard \in BOOLEAN
  /\ check \in {"none", "asked"} \cup Answers
  /\ inFlight \in {"none", "check", "turn"}
  /\ denied \in 0 .. MaxDenied /\ focused \in 0 .. MaxFocus

\* No 401 of a dead session is lost: until the page knows, a check that will say
\* so is under way or owed, whatever is aborted, answered early or timed out.
\* Only a check that failed by itself may leave the page as it is.
NeverForgotten ==
  /\ heard => ~ alive
  /\ heard /\ session /\ sound => trailing \/ check \in {"asked", "gone"}
  /\ trailing => inFlight # "none"

\* The page gives its session up only when the server has: a proxy's 401, an
\* outage or a stale answer signs nobody out.
NoFalseSignOut == ~ session => ~ alive

\* What NeverForgotten and NoFalseSignOut rest on.
CheckInv ==
  /\ CheckTypeOK
  /\ NeverForgotten
  /\ NoFalseSignOut
  /\ check = "gone" => ~ alive

\* A check that never comes back does not wedge the page: what is owed is asked.
NeverWedged == trailing ~> ~ trailing

\* When the server answers, a page that got a 401 of a dead session learns of it.
LearnsOfIt == sound /\ heard ~> ~ session

\* Every check that is owed is made, and with a server that answers the page learns.
ChecksEnd == NeverWedged /\ LearnsOfIt
=============================================================================
