------------------------------ MODULE MagicLink ------------------------------
(***************************************************************************)
(* Asking for a sign-in link.  A request is metered three times: the rate  *)
(* limit middleware charges the host it comes from, waits for its body,    *)
(* charges the address it names and looks at the quota everyone shares;    *)
(* better-auth then validates the address and stores the token, and only   *)
(* its sendMagicLink callback charges the shared quota and sends the mail. *)
(* A request may wait between any two of these steps.                      *)
(*                                                                         *)
(* What better-auth does between the middleware and the callback (Validate)*)
(* is external and modelled from the way the code relies on it.            *)
(***************************************************************************)
EXTENDS RateLimit

CONSTANTS
  Host,        \* keys that rateLimitIpKey makes of the callers' addresses
  Address,     \* keys that emailBucketKey makes of the addresses named
  Deliverable, \* addresses that better-auth accepts
  HostOf,      \* the host each request comes from
  AddressOf    \* the address it names; an unreadable body names one of its own

Global     == <<"magic-send-global", "all">>
HostKey(h) == <<"magic-send-ip", h>>
MailKey(a) == <<"magic-send-email", a>>

ASSUME MagicLinkAssumption ==
  /\ Bucket = {Global} \cup {HostKey(h) : h \in Host} \cup {MailKey(a) : a \in Address}
  /\ HostOf \in [Request -> Host]
  /\ AddressOf \in [Request -> Address]
  /\ Deliverable \subseteq Address

ByHost(r)    == HostKey(HostOf[r])
ByAddress(r) == MailKey(AddressOf[r])

VARIABLES
  stage,  \* how far each request has come
  came,   \* when it came, while its body is being read
  told,   \* the Retry-After of its refusal
  seen    \* what its look at the shared quota saw: the charges passed until then

sends == <<now, row, log, stage, came, told, seen>>

\* A request ends refused (429), invalid (400), mailed, failed (the provider took
\* nothing) or orphaned (429, with a token stored that nobody is sent).
Stage == {"new", "reading", "checked", "stored",
          "refused", "invalid", "orphaned", "mailed", "failed"}

\* The rows of verification: the requests whose token is stored.
Stored == {r \in Request : stage[r] \in {"stored", "orphaned", "mailed", "failed"}}

\* How long a caller refused at t by the window that began at start must wait.
RetryAfter(b, start, t) ==
  LET left == start + Window[b] - t IN IF left < 1 THEN 1 ELSE left

Refused(r, after) ==
  /\ stage' = [stage EXCEPT ![r] = "refused"]
  /\ told' = [told EXCEPT ![r] = after]

Proceeds(r, to) ==
  /\ stage' = [stage EXCEPT ![r] = to]
  /\ UNCHANGED told

\* The middleware meets the request.
Arrive(r) ==
  /\ stage[r] = "new"
  /\ Charge(r, ByHost(r))
  /\ IF InBudget(ByHost(r)) THEN Proceeds(r, "reading")
     ELSE Refused(r, RetryAfter(ByHost(r), row'[ByHost(r)].start, now))
  /\ came' = [came EXCEPT ![r] = now]
  /\ UNCHANGED seen

\* Fault: the clock is not read again after the wait.
ClockOnArrival(r) == came[r]

\* The clock a request is charged by once its body has been read.
SendNow(r) == now

\* Fault: the quota everyone shares is charged where it should be looked at.
ChargeShared(r) ==
  /\ stage[r] = "reading"
  /\ Charge(r, Global)
  /\ IF InBudget(Global) THEN Proceeds(r, "checked")
     ELSE Refused(r, RetryAfter(Global, row'[Global].start, SendNow(r)))
  /\ UNCHANGED <<came, seen>>

\* The body has been read: charge the address, look at the shared quota.
CheckAddress(r) ==
  /\ stage[r] = "reading"
  /\ Charge(r, ByAddress(r))
  /\ \/ /\ ~ InBudget(ByAddress(r))
        /\ Refused(r, RetryAfter(ByAddress(r), row'[ByAddress(r)].start, SendNow(r)))
     \/ /\ InBudget(ByAddress(r)) /\ Spent(Global)'
        /\ Refused(r, RetryAfter(Global, row'[Global].start, SendNow(r)))
     \/ InBudget(ByAddress(r)) /\ ~ Spent(Global)' /\ Proceeds(r, "checked")
  /\ came' = [came EXCEPT ![r] = 0]
  /\ seen' = [seen EXCEPT ![r] = Passed(Global)]

\* Fault: an address that nothing can be sent to is stored like any other.
StoreAny(r) == Proceeds(r, "stored")

\* better-auth refuses what it cannot send to and stores a token for the rest.
Validated(r) ==
  IF AddressOf[r] \in Deliverable THEN Proceeds(r, "stored") ELSE Proceeds(r, "invalid")

Validate(r) ==
  /\ stage[r] = "checked"
  /\ Validated(r)
  /\ UNCHANGED <<now, row, log, came, seen>>

\* sendMagicLink charges the shared quota, then hands the mail to the provider.
SendMagicLink(r) ==
  /\ stage[r] = "stored"
  /\ Charge(r, Global)
  /\ IF InBudget(Global)
       THEN Proceeds(r, "mailed") \/ Proceeds(r, "failed")
       ELSE /\ stage' = [stage EXCEPT ![r] = "orphaned"]
            /\ told' = [told EXCEPT ![r] = RetryAfter(Global, row'[Global].start, now)]
  /\ UNCHANGED <<came, seen>>

LinkInit ==
  /\ Init
  /\ stage = [r \in Request |-> "new"]
  /\ came = [r \in Request |-> 0]
  /\ told = [r \in Request |-> 0]
  /\ seen = [r \in Request |-> {}]

LinkNext ==
  \/ Tick /\ UNCHANGED <<stage, came, told, seen>>
  \/ \E r \in Request : Arrive(r) \/ CheckAddress(r) \/ Validate(r) \/ SendMagicLink(r)

LinkSpec == LinkInit /\ [][LinkNext]_sends

-----------------------------------------------------------------------------
(* Properties                                                              *)

LinkTypeOK ==
  /\ TypeOK
  /\ stage \in [Request -> Stage]
  /\ came \in [Request -> Nat]
  /\ told \in [Request -> Nat]
  /\ seen \in [Request -> SUBSET Charged]

PaidBy(r, b) == \E e \in log : e.by = r /\ e.on = b /\ e.ok

\* Only a request that both narrower budgets let through, and whose address a mail
\* can reach, stores a token or touches the quota everyone shares, and no more
\* mails leave for one address, or from one host, than its budgets let through.
QuotaEarned ==
  /\ \A r \in Stored : PaidBy(r, ByHost(r)) /\ PaidBy(r, ByAddress(r))
  /\ \A e \in log : e.on = Global => e.by \in Stored /\ AddressOf[e.by] \in Deliverable
  /\ \A r \in Request : stage[r] \in {"mailed", "failed"} <=> PaidBy(r, Global)

Untouched(r, b) == ~ \E e \in log : e.by = r /\ e.on = b

\* What a request has behind it at each wait.
StagesHold ==
  \A r \in Request :
    /\ stage[r] = "new" => Untouched(r, ByHost(r))
    /\ stage[r] \in {"new", "reading"} => Untouched(r, ByAddress(r))
    /\ stage[r] \in {"reading", "checked"} => PaidBy(r, ByHost(r))
    /\ stage[r] = "checked" => PaidBy(r, ByAddress(r))
    /\ stage[r] = "stored" => AddressOf[r] \in Deliverable /\ Untouched(r, Global)

LinkInv == LinkTypeOK /\ StagesHold /\ QuotaEarned

\* A token is orphaned only at the edge of the quota: when the request looked
\* there was a slot, and others took the last one since.  A spent quota does not
\* fill the verification table.
OrphansRaced ==
  \A r \in Request : stage[r] = "orphaned" =>
    \E e \in Passed(Global) \ seen[r], f \in log :
      f.by = r /\ f.on = Global /\ f.start = e.start

\* Retry-After is kept: it is never longer than the window, and whoever comes
\* back after it meets a window that began after the one that turned it away.
RetryKept ==
  \A e \in log : ~ e.ok =>
    /\ told[e.by] <= Window[e.on]
    /\ \A f \in log : f.on = e.on /\ f.at >= e.at + told[e.by] => f.start > e.start

\* What a limit does to the request it meets: a token nobody is sent was raced for
\* at the edge of the quota, and the wait that a refusal names is enough.
QuotaEdge == OrphansRaced /\ RetryKept
=============================================================================
