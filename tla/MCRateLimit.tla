----------------------------- MODULE MCRateLimit -----------------------------
(* Instances of RateLimit for TLC.  Requests are interchangeable: no        *)
(* definition orders or chooses among them.                                 *)
EXTENDS RateLimit, TLC

\* The mail quota: a limit under the provider's, over a window as long as its day.
QuotaLimit    == [b \in Bucket |-> 3]
QuotaWindow   == [b \in Bucket |-> 2]
ProviderQuota == 4

\* The shared bucket guards the provider's quota (100 mails a day against a limit
\* of 90): no day of the provider's sees more sends than the quota allows.
WithinProviderDay ==
  \A day \in 0 .. Horizon, b \in Bucket :
    Cardinality(PassedIn(b, day * Window[b], (day + 1) * Window[b])) <= ProviderQuota

Interchangeable == Permutations(Request)
=============================================================================
