----------------------------- MODULE PublicLinks -----------------------------
(***************************************************************************)
(* What share links promise.  Every list has one link, no two lists the    *)
(* same one.  Whoever opens a link gets the list that has it and is public *)
(* at that moment, and nothing otherwise.  A list is born private, and its *)
(* link and its publicity change in separate steps, one list at a time.    *)
(***************************************************************************)
EXTENDS FiniteSets

CONSTANTS ListId, Slug, Visitor

VARIABLES
  link,    \* the link of every list
  public,  \* the lists that are shared
  opened   \* what every visitor was shown last: a set with the list, or none

promise == <<link, public, opened>>

Free == Slug \ {link[l] : l \in DOMAIN link}

Born(l, s) ==
  /\ l \in ListId \ DOMAIN link /\ s \in Free
  /\ link' = [x \in DOMAIN link \cup {l} |-> IF x = l THEN s ELSE link[x]]
  /\ UNCHANGED <<public, opened>>

Gone(l) ==
  /\ l \in DOMAIN link
  /\ link' = [x \in DOMAIN link \ {l} |-> link[x]]
  /\ public' = public \ {l}
  /\ UNCHANGED opened

Flip(l) ==
  /\ l \in DOMAIN link
  /\ public' = IF l \in public THEN public \ {l} ELSE public \cup {l}
  /\ UNCHANGED <<link, opened>>

Relink(l, s) ==
  /\ l \in DOMAIN link /\ s \in Free
  /\ link' = [link EXCEPT ![l] = s]
  /\ UNCHANGED <<public, opened>>

Open(v, s) ==
  /\ opened' = [opened EXCEPT ![v] = {l \in public : link[l] = s}]
  /\ UNCHANGED <<link, public>>

Init ==
  /\ link \in UNION {[D -> Slug] : D \in SUBSET ListId}
  /\ \A l, m \in DOMAIN link : link[l] = link[m] => l = m
  /\ public \subseteq DOMAIN link
  /\ opened = [v \in Visitor |-> {}]

\* What leaves every link, flag and view alone is no step of this.
Next ==
  /\ promise' # promise
  /\ \/ \E l \in ListId : Gone(l) \/ Flip(l) \/ (\E s \in Slug : Born(l, s) \/ Relink(l, s))
     \/ \E v \in Visitor, s \in Slug : Open(v, s)

Spec == Init /\ [][Next]_promise
=============================================================================
