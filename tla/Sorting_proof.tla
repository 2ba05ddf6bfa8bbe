--------------------------- MODULE Sorting_proof ---------------------------
(***************************************************************************)
(* What the models sort, move and add up with.                             *)
(*                                                                         *)
(* Sorting CHOOSEs by counting, so a sorted sequence is known by what it   *)
(* does: every element once, in the order of the keys.  Sums are folds     *)
(* over a CHOSEN order; that the order does not matter is proved by a set  *)
(* of the least size for which it would.                                   *)
(***************************************************************************)
EXTENDS Sorting, FiniteSetsExt, FiniteSetTheorems, WellFoundedInduction, TLAPS


\* Some numbers have a least one.
LEMMA Leads ==
  ASSUME NEW Q, Q \subseteq Nat, NEW n \in Q
  PROVE  \E m \in Q : \A k \in Q : m <= k
<1> DEFINE R == OpToRel(<, Nat)
<1>1. IsWellFoundedOn(R, Nat)
  BY NatLessThanWellFounded
<1>2. \A x, y \in Nat : <<y, x>> \in R <=> y < x
  BY DEF OpToRel
<1> HIDE DEF R
<1>3. PICK x \in Q : \A y \in Q : ~ (<<y, x>> \in R)
  BY <1>1, WFMin
<1>4. \A y \in Q : x \in Nat /\ y \in Nat /\ ~ (y < x)
  BY <1>2, <1>3
<1> QED BY <1>4

\* Some places have a last one.
LEMMA LastPlace ==
  ASSUME NEW S, S \subseteq Nat, S # {}, IsFiniteSet(S)
  PROVE  Max(S) \in S /\ \A y \in S : Max(S) >= y
<1> DEFINE HasLast(U) == \E x \in U : \A y \in U : x >= y
           Without == {U \in SUBSET S : U # {} /\ ~ HasLast(U)}
           C == {Cardinality(U) : U \in Without}
           R == OpToRel(<, Nat)
<1>1. IsWellFoundedOn(R, Nat)
  BY NatLessThanWellFounded
<1>2. \A x, y \in Nat : <<y, x>> \in R <=> y < x
  BY DEF OpToRel
<1>3. \A U \in SUBSET S : IsFiniteSet(U) /\ Cardinality(U) \in Nat
  BY FS_Subset, FS_CardinalityType
<1>4. C \subseteq Nat
  BY <1>3
<1>5. ASSUME C # {} PROVE FALSE
  <2>1. PICK n \in C : \A m \in C : ~ (<<m, n>> \in R)
    <3> HIDE DEF C, R
    <3> QED
      BY <1>1, <1>4, <1>5, WFMin
  <2>2. PICK U \in Without : n = Cardinality(U)
    BY <2>1
  <2>3. PICK x \in U : TRUE
    BY <2>2
  <2>4. Cardinality(U \ {x}) = Cardinality(U) - 1
    BY <1>3, <2>2, <2>3, FS_RemoveElement
  <2>5. U \ {x} \notin Without
    <3>1. SUFFICES ASSUME U \ {x} \in Without PROVE FALSE
      OBVIOUS
    <3>2. PICK m : m = Cardinality(U \ {x}) /\ m \in C
      BY <3>1
    <3>3. n \in Nat /\ m \in Nat /\ m = n - 1
      BY <1>4, <2>1, <2>2, <2>4, <3>2
    <3>4. <<m, n>> \in R
      <4> HIDE DEF R, C
      <4> QED
        BY <1>2, <3>3
    <3> QED
      BY <2>1, <3>2, <3>4
  <2>6. CASE U \ {x} = {}
    <3>1. U = {x} /\ x \in Nat
      BY <2>2, <2>3, <2>6
    <3>2. \A y \in U : x >= y
      BY <3>1
    <3> QED
      BY <2>2, <2>3, <3>2
  <2>7. CASE HasLast(U \ {x})
    <3>1. PICK z \in U \ {x} : \A y \in U \ {x} : z >= y
      BY <2>7
    <3>2. x \in Nat /\ z \in Nat /\ U \subseteq Nat
      BY <2>2, <2>3, <3>1
    <3>3. CASE z >= x
      <4>1. \A y \in U : z >= y
        BY <3>1, <3>3
      <4> QED
        BY <2>2, <3>1, <4>1
    <3>4. CASE x >= z
      <4>1. \A y \in U : x >= y
        BY <3>1, <3>2, <3>4
      <4> QED
        BY <2>2, <2>3, <4>1
    <3> QED
      BY <3>2, <3>3, <3>4
  <2> QED
    BY <2>2, <2>5, <2>6, <2>7
<1>6. HasLast(S)
  BY <1>5
<1> HIDE DEF C, Without, R
<1> QED
  BY <1>6 DEF Max

-----------------------------------------------------------------------------
(* Things in order                                                         *)

\* An order in which no two elements are alike.
Orders(before, S) ==
  /\ \A x \in S : <<x, x>> \notin before
  /\ \A x, y \in S : x # y => <<x, y>> \in before \/ <<y, x>> \in before
  /\ \A x, y, z \in S : <<x, y>> \in before /\ <<y, z>> \in before => <<x, z>> \in before

\* What comes before x.
Before(S, before, x) == {y \in S : <<y, x>> \in before}

\* In such an order, what comes before an element numbers it: fewer than there are
\* elements, and fewer for an earlier one.
LEMMA Numbers ==
  ASSUME NEW S, IsFiniteSet(S), NEW before, Orders(before, S)
  PROVE  /\ \A x \in S : Cardinality(Before(S, before, x)) \in 0 .. Cardinality(S) - 1
         /\ \A x, y \in S : <<x, y>> \in before =>
              Cardinality(Before(S, before, x)) < Cardinality(Before(S, before, y))
<1>0. Cardinality(S) \in Nat
  BY FS_CardinalityType
<1>1. ASSUME NEW x \in S
      PROVE  /\ IsFiniteSet(Before(S, before, x)) /\ Cardinality(Before(S, before, x)) \in Nat
             /\ Cardinality(Before(S, before, x)) <= Cardinality(S) - 1
  <2>1. PICK B : B = Before(S, before, x)
    OBVIOUS
  <2>2. B \in SUBSET (S \ {x})
    BY <2>1 DEF Before, Orders
  <2>3. IsFiniteSet(S \ {x}) /\ Cardinality(S \ {x}) = Cardinality(S) - 1
    BY <1>1, FS_RemoveElement
  <2>4. IsFiniteSet(B) /\ Cardinality(B) <= Cardinality(S \ {x})
    BY <2>2, <2>3, FS_Subset
  <2>5. Cardinality(B) \in Nat
    BY <2>4, FS_CardinalityType
  <2> QED BY <1>0, <2>1, <2>3, <2>4, <2>5
<1>2. ASSUME NEW x \in S, NEW y \in S, <<x, y>> \in before
      PROVE  Cardinality(Before(S, before, x)) < Cardinality(Before(S, before, y))
  <2>1. PICK A, B : A = Before(S, before, x) /\ B = Before(S, before, y)
    OBVIOUS
  <2>2. A \in SUBSET B /\ x \in B /\ x \notin A
    BY <1>2, <2>1 DEF Before, Orders
  <2>3. IsFiniteSet(A) /\ IsFiniteSet(B) /\ Cardinality(A) \in Nat /\ Cardinality(B) \in Nat
    BY <1>1, <2>1
  <2>4. Cardinality(A) <= Cardinality(B) /\ Cardinality(A) # Cardinality(B)
    BY <2>2, <2>3, FS_Subset
  <2> QED BY <2>1, <2>3, <2>4
<1> QED BY <1>0, <1>1, <1>2

\* A finite set in order: each element once, and those before it in earlier places.
LEMMA InOrderIs ==
  ASSUME NEW S, IsFiniteSet(S), NEW before, Orders(before, S)
  PROVE  /\ Cardinality(S) \in Nat
         /\ InOrder(S, before) \in [1 .. Cardinality(S) -> S]
         /\ \A x \in S : \E i \in 1 .. Cardinality(S) : InOrder(S, before)[i] = x
         /\ \A i, j \in 1 .. Cardinality(S) :
              <<InOrder(S, before)[i], InOrder(S, before)[j]>> \in before <=> i < j
<1> DEFINE n == Cardinality(S)
           place == [x \in S |-> Cardinality(Before(S, before, x)) + 1]
           s == InOrder(S, before)
<1>0. n \in Nat
  BY FS_CardinalityType
<1>1. place \in [S -> 1 .. n]
  BY <1>0, Numbers
<1>2. ASSUME NEW x \in S, NEW y \in S, x # y
      PROVE  place[x] # place[y]
  <2>1. <<x, y>> \in before \/ <<y, x>> \in before
    BY <1>2 DEF Orders
  <2>2. place[x] < place[y] \/ place[y] < place[x]
    BY <1>0, <1>1, <2>1, Numbers
  <2> HIDE DEF place
  <2> QED BY <1>1, <2>2
<1>3. \A i \in 1 .. n : \E x \in S : place[x] = i
  <2>1. place \in Injection(S, 1 .. n)
    BY <1>1, <1>2 DEF Injection, IsInjective
  <2>2. IsFiniteSet(1 .. n) /\ Cardinality(1 .. n) = n
    BY <1>0, FS_Interval
  <2>3. place \in Surjection(S, 1 .. n)
    BY <2>1, <2>2, FS_Injection
  <2> QED BY <2>3 DEF Surjection
<1>4. s = [i \in 1 .. n |-> CHOOSE x \in S : Cardinality(Before(S, before, x)) = i - 1]
  BY DEF InOrder, Before
<1>5. ASSUME NEW i \in 1 .. n
      PROVE  s[i] \in S /\ place[s[i]] = i
  <2>1. \E x \in S : Cardinality(Before(S, before, x)) = i - 1
    BY <1>0, <1>1, <1>3, Numbers
  <2>2. s[i] \in S /\ Cardinality(Before(S, before, s[i])) = i - 1
    BY <1>4, <2>1
  <2> QED BY <1>0, <2>2
<1>6. s \in [1 .. n -> S]
  BY <1>4, <1>5
<1>7. \A x \in S : place[x] \in 1 .. n /\ s[place[x]] = x
  BY <1>1, <1>2, <1>5
<1>8. ASSUME NEW i \in 1 .. n, NEW j \in 1 .. n
      PROVE  <<s[i], s[j]>> \in before <=> i < j
  <2>1. PICK x, y : x = s[i] /\ y = s[j] /\ x \in S /\ y \in S /\ place[x] = i /\ place[y] = j
    BY <1>5
  <2>2. /\ <<x, y>> \in before => place[x] < place[y]
        /\ <<y, x>> \in before => place[y] < place[x]
    BY <1>0, <2>1, Numbers
  <2>3. x # y => <<x, y>> \in before \/ <<y, x>> \in before
    BY <2>1 DEF Orders
  <2>4. <<x, x>> \notin before
    BY <2>1 DEF Orders
  <2> HIDE DEF place, s
  <2>5. i \in Int /\ j \in Int
    BY <1>0
  <2> QED BY <2>1, <2>2, <2>3, <2>4, <2>5
<1> QED BY <1>0, <1>6, <1>7, <1>8

\* No value comes twice.
Apart(f, S) == \A i, j \in S : f[i] = f[j] => i = j

\* The places of a sequence, picked or sorted: a sequence of them, each once.
Picks(at, K, m) ==
  /\ m \in Nat /\ at \in [1 .. m -> K]
  /\ \A k \in K : \E i \in 1 .. m : at[i] = k
  /\ \A i, j \in 1 .. m : at[i] = at[j] => i = j

\* Some of s, in the order they are in.
Keeps(picked, s, K, n) ==
  \E at, m : /\ Picks(at, K, m) /\ m <= n
             /\ \A i, j \in 1 .. m : at[i] < at[j] <=> i < j
             /\ picked = [i \in 1 .. m |-> s[at[i]]]

\* The rows picked from a list (Array.prototype.filter) are rows of it in its order,
\* each once.
LEMMA PickFromIs ==
  ASSUME NEW s, NEW n \in Nat, NEW K \in SUBSET (1 .. n)
  PROVE  Keeps(PickFrom(s, K), s, K, n)
<1>1. PICK before : before = {p \in K \X K : p[1] < p[2]}
  OBVIOUS
<1>2. PICK at, m : at = InOrder(K, before) /\ m = Cardinality(K)
  OBVIOUS
<1>3. IsFiniteSet(K) /\ m \in Nat /\ m <= n
  <2>1. IsFiniteSet(1 .. n) /\ Cardinality(1 .. n) = n
    BY FS_Interval
  <2>2. IsFiniteSet(K) /\ Cardinality(K) <= n
    BY <2>1, FS_Subset
  <2> QED BY <1>2, <2>2, FS_CardinalityType
<1>4. \A i, j \in K : <<i, j>> \in before <=> i < j
  BY <1>1
<1>5. Orders(before, K)
  BY <1>4 DEF Orders
<1>6. /\ at \in [1 .. m -> K]
      /\ \A k \in K : \E i \in 1 .. m : at[i] = k
      /\ \A i, j \in 1 .. m : <<at[i], at[j]>> \in before <=> i < j
  BY <1>2, <1>3, <1>5, InOrderIs
<1>7. \A i, j \in 1 .. m : at[i] < at[j] <=> i < j
  BY <1>4, <1>6
<1>8. \A i, j \in 1 .. m : at[i] = at[j] => i = j
  <2> SUFFICES ASSUME NEW i \in 1 .. m, NEW j \in 1 .. m, at[i] = at[j] PROVE i = j
    OBVIOUS
  <2>1. at[i] \in 1 .. n /\ at[j] \in 1 .. n
    BY <1>6
  <2>2. ~ (i < j) /\ ~ (j < i)
    BY <1>7, <2>1
  <2> QED BY <1>3, <2>2
<1>9. PickFrom(s, K) = [i \in 1 .. m |-> s[at[i]]]
  BY <1>1, <1>2, <1>6 DEF PickFrom
<1>10. Picks(at, K, m)
  BY <1>3, <1>6, <1>8 DEF Picks
<1> QED BY <1>3, <1>7, <1>9, <1>10 DEF Keeps

\* s in the order of its keys.
Sorts(sorted, s, key, n) ==
  \E at : /\ Picks(at, 1 .. n, n)
          /\ \A i, j \in 1 .. n : i < j => key[at[i]] <= key[at[j]]
          /\ sorted = [i \in 1 .. n |-> s[at[i]]]

\* Sorting by a key (Array.prototype.sort) keeps each row once, puts smaller keys first,
\* and leaves equal ones in their order.
LEMMA SortByIs ==
  ASSUME NEW n \in Nat, NEW s, DOMAIN s = 1 .. n, NEW key \in [1 .. n -> Int]
  PROVE  Sorts(SortBy(s, key), s, key, n)
<1> DEFINE K == 1 .. n
<1>1. PICK before : before = {p \in K \X K : key[p[1]] < key[p[2]] \/ (key[p[1]] = key[p[2]] /\ p[1] < p[2])}
  OBVIOUS
<1>2. PICK at : at = InOrder(K, before)
  OBVIOUS
<1>3. IsFiniteSet(K) /\ Cardinality(K) = n
  BY FS_Interval
<1>4. \A i, j \in K : <<i, j>> \in before <=> key[i] < key[j] \/ (key[i] = key[j] /\ i < j)
  BY <1>1
<1>5. Orders(before, K)
  <2>1. \A i \in K : key[i] \in Int /\ i \in Int
    OBVIOUS
  <2> HIDE DEF K
  <2>2. ASSUME NEW x \in K PROVE <<x, x>> \notin before
    <3>1. PICK a \in Int : key[x] = a
      BY <2>1
    <3> QED BY <1>4, <2>1, <3>1
  <2>3. ASSUME NEW x \in K, NEW y \in K, x # y PROVE <<x, y>> \in before \/ <<y, x>> \in before
    <3>1. PICK a \in Int, b \in Int : key[x] = a /\ key[y] = b
      BY <2>1
    <3> QED BY <1>4, <2>1, <2>3, <3>1
  <2>4. ASSUME NEW x \in K, NEW y \in K, NEW z \in K, <<x, y>> \in before, <<y, z>> \in before
        PROVE  <<x, z>> \in before
    <3>1. PICK a \in Int, b \in Int, c \in Int : key[x] = a /\ key[y] = b /\ key[z] = c
      BY <2>1
    <3>2. (a < b \/ (a = b /\ x < y)) /\ (b < c \/ (b = c /\ y < z))
      BY <1>4, <2>4, <3>1
    <3>3. a < c \/ (a = c /\ x < z)
      BY <2>1, <3>2
    <3> QED BY <1>4, <3>1, <3>3
  <2> QED BY <2>2, <2>3, <2>4 DEF Orders
<1>6. /\ at \in [1 .. n -> K]
      /\ \A k \in K : \E i \in 1 .. n : at[i] = k
      /\ \A i, j \in 1 .. n : <<at[i], at[j]>> \in before <=> i < j
  <2>1. Cardinality(K) = n
    BY <1>3
  <2> HIDE DEF K
  <2>2. /\ InOrder(K, before) \in [1 .. Cardinality(K) -> K]
        /\ \A x \in K : \E i \in 1 .. Cardinality(K) : InOrder(K, before)[i] = x
        /\ \A i, j \in 1 .. Cardinality(K) :
              <<InOrder(K, before)[i], InOrder(K, before)[j]>> \in before <=> i < j
    BY <1>3, <1>5, InOrderIs
  <2> QED BY <1>2, <2>1, <2>2
<1>7. ASSUME NEW i \in 1 .. n, NEW j \in 1 .. n, i < j PROVE key[at[i]] <= key[at[j]]
  <2>1. PICK x \in K, y \in K : x = at[i] /\ y = at[j]
    BY <1>6
  <2>2. key[x] < key[y] \/ (key[x] = key[y] /\ x < y)
    BY <1>4, <1>6, <1>7, <2>1
  <2>3. key[x] \in Int /\ key[y] \in Int
    OBVIOUS
  <2> QED BY <2>1, <2>2, <2>3
<1>8. \A i, j \in 1 .. n : at[i] = at[j] => i = j
  <2> SUFFICES ASSUME NEW i \in 1 .. n, NEW j \in 1 .. n, at[i] = at[j] PROVE i = j
    OBVIOUS
  <2>1. <<at[i], at[j]>> \notin before /\ <<at[j], at[i]>> \notin before
    <3>1. at[i] \in K
      BY <1>6
    <3> HIDE DEF K
    <3> QED BY <1>5, <3>1 DEF Orders
  <2> QED BY <1>6, <2>1
<1>9. SortBy(s, key) = [i \in 1 .. n |-> s[at[i]]]
  BY <1>1, <1>2, <1>6 DEF SortBy
<1>10. Picks(at, 1 .. n, n)
  BY <1>6, <1>8 DEF Picks
<1> QED BY <1>7, <1>9, <1>10 DEF Sorts

-----------------------------------------------------------------------------
(* Moving one                                                              *)

\* One row taken to another place: the others keep their order.
Carries(p, n, from, to) ==
  /\ p \in [1 .. n -> 1 .. n] /\ p[to] = from
  /\ \A i, j \in 1 .. n : p[i] = p[j] => i = j
  /\ \A k \in 1 .. n : \E i \in 1 .. n : p[i] = k
  /\ \A i, j \in (1 .. n) \ {to} : i < j <=> p[i] < p[j]
  /\ from # to => \E q \in (1 .. n) \ {to} : p[q] = to /\ (from < to <=> q < to)

\* Taking a row out and putting it back elsewhere is such a move.
LEMMA MovesOne ==
  ASSUME NEW n \in Nat, NEW from \in 1 .. n, NEW to \in 1 .. n,
         NEW p, p = [i \in 1 .. n |-> IF i = to THEN from
                                      ELSE LET k == IF i < to THEN i ELSE i - 1
                                           IN  IF k < from THEN k ELSE k + 1]
  PROVE  Carries(p, n, from, to)
<1>1. p \in [1 .. n -> 1 .. n] /\ p[to] = from
  OBVIOUS
<1>2. \A i \in 1 .. n : i # to =>
        p[i] = IF i < to THEN (IF i < from THEN i ELSE i + 1) ELSE (IF i <= from THEN i - 1 ELSE i)
  OBVIOUS
<1>3. \A i, j \in 1 .. n : p[i] = p[j] => i = j
  BY <1>1, <1>2
<1>4. \A i, j \in (1 .. n) \ {to} : i < j <=> p[i] < p[j]
  BY <1>1, <1>2
<1>5. ASSUME NEW k \in 1 .. n PROVE \E i \in 1 .. n : p[i] = k
  <2>1. CASE k = from
    <3>1. to \in 1 .. n /\ p[to] = k
      BY <1>1, <2>1
    <3> QED BY <3>1
  <2>2. CASE k < from
    <3>1. CASE k < to
      <4>1. p[k] = k
        BY <1>2, <2>2, <3>1
      <4> QED BY <4>1
    <3>2. CASE k >= to
      <4>1. PICK i : i = k + 1
        OBVIOUS
      <4>2. i \in 1 .. n /\ i # to /\ ~ (i < to) /\ i <= from /\ i - 1 = k
        BY <2>2, <3>2, <4>1
      <4>3. p[i] = k
        BY <1>2, <4>2
      <4> QED BY <4>2, <4>3
    <3> QED BY <3>1, <3>2
  <2>3. CASE k > from
    <3>1. CASE k > to
      <4>1. p[k] = k
        BY <1>2, <2>3, <3>1
      <4> QED BY <4>1
    <3>2. CASE k <= to
      <4>1. PICK i : i = k - 1
        OBVIOUS
      <4>2. i \in 1 .. n /\ i < to /\ ~ (i < from) /\ i + 1 = k
        BY <2>3, <3>2, <4>1
      <4>3. p[i] = k
        BY <1>2, <4>2
      <4> QED BY <4>2, <4>3
    <3> QED BY <3>1, <3>2
  <2> QED BY <2>1, <2>2, <2>3
<1>6. ASSUME from # to
      PROVE  \E q \in (1 .. n) \ {to} : p[q] = to /\ (from < to <=> q < to)
  <2>1. CASE from < to
    <3>1. to - 1 \in (1 .. n) \ {to} /\ p[to - 1] = to
      BY <1>2, <2>1
    <3> QED BY <2>1, <3>1
  <2>2. CASE to < from
    <3>1. to + 1 \in (1 .. n) \ {to} /\ p[to + 1] = to
      BY <1>2, <2>2
    <3> QED BY <2>2, <3>1
  <2> QED BY <1>6, <2>1, <2>2
<1> QED BY <1>1, <1>3, <1>4, <1>5, <1>6 DEF Carries

\* What is in a sequence joined from two.
LEMMA Joined ==
  ASSUME NEW X, NEW a \in Seq(X), NEW b \in Seq(X), NEW r, r = a \o b,
         NEW p, p = Len(a), NEW q, q = Len(b)
  PROVE  /\ r \in Seq(X) /\ Len(r) = p + q
         /\ \A k \in 1 .. p + q : r[k] = IF k <= p THEN a[k] ELSE b[k - p]
OBVIOUS

\* What is in a part of a sequence.
LEMMA Cut ==
  ASSUME NEW X, NEW s \in Seq(X), NEW l \in 1 .. Len(s) + 1, NEW k \in (l - 1) .. Len(s)
  PROVE  /\ SubSeq(s, l, k) \in Seq(X) /\ Len(SubSeq(s, l, k)) = k - l + 1
         /\ \A i \in 1 .. k - l + 1 : SubSeq(s, l, k)[i] = s[l + i - 1]
OBVIOUS

\* m is s with the row at one place moved to another.
Moved(m, s, from, to, n) ==
  \E p : Carries(p, n, from, to) /\ m = [i \in 1 .. n |-> s[p[i]]]

\* What moveRow returns (arrayMove): the rows with one moved.
LEMMA ArrayMoveIs ==
  ASSUME NEW X, NEW s \in Seq(X), NEW from \in DOMAIN s, NEW to \in DOMAIN s
  PROVE  Moved(ArrayMove(s, from, to), s, from, to, Len(s))
<1>0. PICK n : n = Len(s) /\ n \in Nat /\ DOMAIN s = 1 .. n /\ \A i \in 1 .. n : s[i] \in X
  OBVIOUS
<1>1. PICK a : a = SubSeq(s, 1, from - 1)
  OBVIOUS
<1>b. PICK b : b = SubSeq(s, from + 1, n)
  OBVIOUS
<1>r. PICK r : r = a \o b
  OBVIOUS
<1>2. /\ a \in Seq(X) /\ Len(a) = from - 1
      /\ \A i \in 1 .. from - 1 : a[i] = s[i]
  <2>1. 1 \in 1 .. Len(s) + 1 /\ from - 1 \in (1 - 1) .. Len(s)
    BY <1>0
  <2>2. (from - 1) - 1 + 1 = from - 1 /\ \A i \in 1 .. from - 1 : 1 + i - 1 = i
    BY <1>0
  <2> QED BY <1>1, <2>1, <2>2, Cut
<1>3. /\ b \in Seq(X) /\ Len(b) = n - from
      /\ \A i \in 1 .. n - from : b[i] = s[from + i]
  <2>1. from + 1 \in 1 .. Len(s) + 1 /\ n \in ((from + 1) - 1) .. Len(s)
    BY <1>0
  <2>2. n - (from + 1) + 1 = n - from /\ \A i \in 1 .. n - from : (from + 1) + i - 1 = from + i
    BY <1>0
  <2>3. /\ b \in Seq(X) /\ Len(b) = n - (from + 1) + 1
        /\ \A i \in 1 .. n - (from + 1) + 1 : b[i] = s[(from + 1) + i - 1]
    BY <1>b, <2>1, Cut
  <2> QED BY <2>2, <2>3
<1>4. /\ r \in Seq(X) /\ Len(r) = n - 1
      /\ \A k \in 1 .. n - 1 : r[k] = s[IF k < from THEN k ELSE k + 1]
  <2>1. /\ r \in Seq(X) /\ Len(r) = (from - 1) + (n - from)
        /\ \A k \in 1 .. (from - 1) + (n - from) :
              r[k] = IF k <= from - 1 THEN a[k] ELSE b[k - (from - 1)]
    BY <1>r, <1>2, <1>3, Joined
  <2>2. (from - 1) + (n - from) = n - 1
    BY <1>0
  <2>3. \A k \in 1 .. n - 1 : r[k] = IF k <= from - 1 THEN a[k] ELSE b[k - (from - 1)]
    BY <2>1, <2>2
  <2>4. ASSUME NEW k \in 1 .. n - 1 PROVE r[k] = s[IF k < from THEN k ELSE k + 1]
    <3>1. CASE k < from
      <4>1. k \in 1 .. from - 1 /\ k <= from - 1
        BY <1>0, <3>1
      <4> QED BY <1>2, <2>3, <3>1, <4>1
    <3>2. CASE ~ (k < from)
      <4>1. k - (from - 1) \in 1 .. n - from /\ from + (k - (from - 1)) = k + 1 /\ ~ (k <= from - 1)
        BY <1>0, <3>2
      <4>2. r[k] = b[k - (from - 1)]
        BY <2>3, <4>1
      <4>3. b[k - (from - 1)] = s[from + (k - (from - 1))]
        BY <1>3, <4>1
      <4> QED BY <3>2, <4>1, <4>2, <4>3
    <3> QED BY <3>1, <3>2
  <2> QED BY <2>1, <2>2, <2>4
<1>5. PICK e : e = s[from]
  OBVIOUS
<1>c. PICK c : c = SubSeq(r, 1, to - 1)
  OBVIOUS
<1>d. PICK d : d = SubSeq(r, to, n - 1)
  OBVIOUS
<1>9. PICK f : f = c \o <<e>>
  OBVIOUS
<1>m. PICK m : m = f \o d
  OBVIOUS
<1>6. ArrayMove(s, from, to) = m
  <2>1. r = RemoveAt(s, from)
    BY <1>0, <1>1, <1>b, <1>r DEF RemoveAt
  <2>2. ArrayMove(s, from, to) = InsertAt(r, to, e)
    BY <1>5, <2>1 DEF ArrayMove
  <2>3. InsertAt(r, to, e) = SubSeq(r, 1, to-1) \o <<e>> \o SubSeq(r, to, Len(r))
    BY DEF InsertAt
  <2> QED BY <1>4, <1>c, <1>d, <1>m, <1>9, <2>2, <2>3
<1>7. /\ c \in Seq(X) /\ Len(c) = to - 1
      /\ \A i \in 1 .. to - 1 : c[i] = r[i]
  <2>1. 1 \in 1 .. Len(r) + 1 /\ to - 1 \in (1 - 1) .. Len(r)
    BY <1>0, <1>4
  <2>2. (to - 1) - 1 + 1 = to - 1 /\ \A i \in 1 .. to - 1 : 1 + i - 1 = i
    BY <1>0
  <2> QED BY <1>4, <1>c, <2>1, <2>2, Cut
<1>8. /\ d \in Seq(X) /\ Len(d) = n - to
      /\ \A i \in 1 .. n - to : d[i] = r[to + i - 1]
  <2>1. to \in 1 .. Len(r) + 1 /\ n - 1 \in (to - 1) .. Len(r)
    BY <1>0, <1>4
  <2>2. (n - 1) - to + 1 = n - to
    BY <1>0
  <2>3. /\ d \in Seq(X) /\ Len(d) = (n - 1) - to + 1
        /\ \A i \in 1 .. (n - 1) - to + 1 : d[i] = r[to + i - 1]
    BY <1>4, <1>d, <2>1, Cut
  <2> QED BY <2>2, <2>3
<1>10. /\ f \in Seq(X) /\ Len(f) = to
       /\ \A i \in 1 .. to - 1 : f[i] = r[i]
       /\ f[to] = e
  <2>1. e \in X /\ <<e>> \in Seq(X) /\ Len(<<e>>) = 1 /\ <<e>>[1] = e
    BY <1>0, <1>5
  <2>0. PICK g : g = <<e>>
    OBVIOUS
  <2>b. PICK p, q : p = to - 1 /\ q = 1
    OBVIOUS
  <2>a. g \in Seq(X) /\ q = Len(g) /\ f = c \o g /\ c \in Seq(X) /\ p = Len(c)
    BY <1>7, <1>9, <2>0, <2>1, <2>b
  <2>c. /\ f \in Seq(X) /\ Len(f) = p + q
        /\ \A k \in 1 .. p + q : f[k] = IF k <= p THEN c[k] ELSE g[k - p]
    BY <2>a, Joined
  <2>2. /\ f \in Seq(X) /\ Len(f) = (to - 1) + 1
        /\ \A k \in 1 .. (to - 1) + 1 : f[k] = IF k <= to - 1 THEN c[k] ELSE g[k - (to - 1)]
    BY <2>b, <2>c
  <2>3. (to - 1) + 1 = to /\ to - (to - 1) = 1 /\ to \in 1 .. to /\ ~ (to <= to - 1)
    BY <1>0
  <2>5. f[to] = e
    BY <2>0, <2>1, <2>2, <2>3
  <2>6. ASSUME NEW i \in 1 .. to - 1 PROVE f[i] = r[i]
    <3>1. i \in 1 .. (to - 1) + 1 /\ i <= to - 1
      BY <1>0
    <3> QED BY <1>7, <2>2, <3>1
  <2> QED BY <2>2, <2>3, <2>5, <2>6
<1>11. /\ m \in Seq(X) /\ Len(m) = n
       /\ \A i \in 1 .. n : m[i] = IF i = to THEN s[from] ELSE r[IF i < to THEN i ELSE i - 1]
  <2>0. PICK q : q = n - to
    OBVIOUS
  <2>a. d \in Seq(X) /\ q = Len(d) /\ f \in Seq(X) /\ to = Len(f)
    BY <1>8, <1>10, <2>0
  <2>1. /\ m \in Seq(X) /\ Len(m) = to + q
        /\ \A k \in 1 .. to + q : m[k] = IF k <= to THEN f[k] ELSE d[k - to]
    BY <1>m, <2>a, Joined
  <2>2. to + q = n
    BY <1>0, <2>0
  <2>3. \A k \in 1 .. n : m[k] = IF k <= to THEN f[k] ELSE d[k - to]
    BY <2>1, <2>2
  <2>4. ASSUME NEW i \in 1 .. n PROVE m[i] = IF i = to THEN s[from] ELSE r[IF i < to THEN i ELSE i - 1]
    <3>1. CASE i < to
      <4>1. i \in 1 .. to - 1 /\ i <= to
        BY <1>0, <3>1
      <4> QED BY <1>10, <2>3, <3>1, <4>1
    <3>2. CASE i = to
      BY <1>0, <1>5, <1>10, <2>3, <3>2
    <3>3. CASE i > to
      <4>1. i - to \in 1 .. n - to /\ to + (i - to) - 1 = i - 1 /\ ~ (i <= to)
        BY <1>0, <3>3
      <4>2. m[i] = d[i - to] /\ d[i - to] = r[to + (i - to) - 1]
        BY <1>8, <2>3, <4>1
      <4> QED BY <1>0, <3>3, <4>1, <4>2
    <3> QED BY <1>0, <3>1, <3>2, <3>3
  <2> QED BY <2>1, <2>2, <2>4
<1>12. PICK p : p = [i \in 1 .. n |-> IF i = to THEN from
                                      ELSE LET k == IF i < to THEN i ELSE i - 1
                                           IN  IF k < from THEN k ELSE k + 1]
  OBVIOUS
<1>13. Carries(p, n, from, to)
  BY <1>0, <1>12, MovesOne
<1>14. ASSUME NEW i \in 1 .. n PROVE m[i] = s[p[i]]
  <2>1. CASE i = to
    BY <1>11, <1>12, <2>1
  <2>2. CASE i # to
    <3>1. PICK k : k = (IF i < to THEN i ELSE i - 1)
      OBVIOUS
    <3>2. k \in 1 .. n - 1
      BY <1>0, <2>2, <3>1
    <3>3. m[i] = r[k]
      BY <1>11, <2>2, <3>1
    <3>4. p[i] = IF k < from THEN k ELSE k + 1
      BY <1>12, <2>2, <3>1
    <3> QED BY <1>4, <3>2, <3>3, <3>4
  <2> QED BY <2>1, <2>2
<1>15. m = [i \in 1 .. n |-> s[p[i]]]
  <2>1. DOMAIN m = 1 .. n /\ m = [i \in DOMAIN m |-> m[i]]
    BY <1>11
  <2> QED BY <1>14, <2>1
<1> QED BY <1>0, <1>6, <1>13, <1>15 DEF Moved

-----------------------------------------------------------------------------
(* Sums                                                                    *)

\* An element of a set, always the same.
Some(s) == CHOOSE x \in s : TRUE

\* f adds weights up, over the sets among P, one element at a time.
AddsBy(f, w, P) ==
  f = [s \in P |-> IF s = {} THEN 0 ELSE w[Some(s)] + f[s \ {Some(s)}]]

\* What the elements of S come to under w.
Total(w, S) == MapThenSumSet(LAMBDA x : w[x], S)

\* What a sum of the model is.
LEMMA TotalIs ==
  ASSUME NEW S, NEW w
  PROVE  Total(w, S) = (CHOOSE f : AddsBy(f, w, SUBSET S))[S]
BY DEF Total, MapThenSumSet, MapThenFoldSet, AddsBy, Some

\* The sets of at most n elements.
UpTo(S, n) == {s \in SUBSET S : Cardinality(s) <= n}

\* There is a way to add up the subsets of a finite set: the larger ones from the smaller.
LEMMA AddingUp ==
  ASSUME NEW S, IsFiniteSet(S), NEW w
  PROVE  \E f : AddsBy(f, w, SUBSET S)
<1> DEFINE Bad == {n \in Nat : ~ \E f : AddsBy(f, w, UpTo(S, n))}
<1>0. \A s \in SUBSET S : IsFiniteSet(s) /\ Cardinality(s) \in Nat /\ Cardinality(s) <= Cardinality(S)
  BY FS_Subset, FS_CardinalityType
<1>1. Bad = {}
  <2> SUFFICES ASSUME NEW b \in Bad PROVE FALSE
    OBVIOUS
  <2>1. PICK n \in Bad : \A k \in Bad : n <= k
    <3>1. Bad \subseteq Nat
      OBVIOUS
    <3> HIDE DEF Bad
    <3> QED BY <3>1, Leads
  <2>2. CASE n = 0
    <3>1. UpTo(S, 0) = {{}}
      BY <1>0, FS_EmptySet DEF UpTo
    <3>2. AddsBy([s \in UpTo(S, 0) |-> 0], w, UpTo(S, 0))
      BY <3>1 DEF AddsBy
    <3> QED BY <2>1, <2>2, <3>2
  <2>3. CASE n > 0
    <3>1. n - 1 \in Nat /\ n - 1 \notin Bad
      BY <2>1, <2>3
    <3>2. PICK f : AddsBy(f, w, UpTo(S, n - 1))
      BY <3>1
    <3> DEFINE g == [s \in UpTo(S, n) |->
                       IF s = {} THEN 0 ELSE w[Some(s)] + f[s \ {Some(s)}]]
    <3>3. \A s \in UpTo(S, n) : s # {} => s \ {Some(s)} \in UpTo(S, n - 1)
      <4> SUFFICES ASSUME NEW s \in UpTo(S, n), s # {} PROVE s \ {Some(s)} \in UpTo(S, n - 1)
        OBVIOUS
      <4>1. Some(s) \in s
        BY DEF Some
      <4>2. s \in SUBSET S /\ s \ {Some(s)} \in SUBSET S /\ IsFiniteSet(s)
        BY <1>0 DEF UpTo
      <4>3. Cardinality(s \ {Some(s)}) = Cardinality(s) - 1
        BY <4>1, <4>2, FS_RemoveElement
      <4> QED BY <1>0, <4>2, <4>3 DEF UpTo
    <3>4. \A s \in UpTo(S, n - 1) : s \in UpTo(S, n)
      BY <1>0 DEF UpTo
    <3>5. \A s \in UpTo(S, n - 1) : g[s] = f[s]
      BY <3>2, <3>4 DEF AddsBy
    <3>6. g = [s \in UpTo(S, n) |-> IF s = {} THEN 0 ELSE w[Some(s)] + g[s \ {Some(s)}]]
      <4>1. \A s \in UpTo(S, n) : s # {} => g[s \ {Some(s)}] = f[s \ {Some(s)}]
        BY <3>3, <3>5
      <4> QED BY <4>1
    <3>7. AddsBy(g, w, UpTo(S, n))
      BY <3>6 DEF AddsBy
    <3> QED BY <2>1, <3>7
  <2> QED BY <2>1, <2>2, <2>3
<1>2. UpTo(S, Cardinality(S)) = SUBSET S /\ Cardinality(S) \in Nat
  BY <1>0, FS_CardinalityType DEF UpTo
<1>3. \A n \in Nat : \E f : AddsBy(f, w, UpTo(S, n))
  BY <1>1
<1>4. PICK f : AddsBy(f, w, UpTo(S, Cardinality(S)))
  BY <1>2, <1>3
<1> QED BY <1>2, <1>4

\* Two weights are the same on a set.
AlikeOn(S, v, w) == \A x \in S : v[x] = w[x]

\* A finite set comes to the same however it is added up, and as part of whatever larger set.
LEMMA AddsAlike ==
  ASSUME NEW S, IsFiniteSet(S), NEW v, NEW w, AlikeOn(S, v, w),
         NEW P, NEW f, AddsBy(f, v, P), SUBSET S \subseteq P,
         NEW g, AddsBy(g, w, SUBSET S)
  PROVE  f[S] = g[S]
<1> DEFINE Bad == {n \in Nat : \E s \in SUBSET S : Cardinality(s) = n /\ f[s] # g[s]}
<1>0. \A s \in SUBSET S : IsFiniteSet(s) /\ Cardinality(s) \in Nat
  BY FS_Subset, FS_CardinalityType
<1>1. SUFFICES Bad = {}
  BY <1>0
<1> SUFFICES ASSUME NEW b \in Bad PROVE FALSE
  OBVIOUS
<1>2. PICK n \in Bad : \A k \in Bad : n <= k
  <2>1. Bad \subseteq Nat
    OBVIOUS
  <2> HIDE DEF Bad
  <2> QED BY <2>1, Leads
<1>3. PICK s \in SUBSET S : Cardinality(s) = n /\ f[s] # g[s]
  BY <1>2
<1>4. /\ f[s] = IF s = {} THEN 0 ELSE v[Some(s)] + f[s \ {Some(s)}]
      /\ g[s] = IF s = {} THEN 0 ELSE w[Some(s)] + g[s \ {Some(s)}]
  <2>1. s \in P /\ s \in SUBSET S
    OBVIOUS
  <2> QED BY <2>1 DEF AddsBy
<1>5. s # {}
  BY <1>3, <1>4
<1>6. Some(s) \in s
  BY <1>5 DEF Some
<1>7. PICK r : r = s \ {Some(s)}
  OBVIOUS
<1>8. r \in SUBSET S /\ Cardinality(r) = n - 1 /\ n - 1 \in Nat
  <2>1. IsFiniteSet(s) /\ Cardinality(s) = n
    BY <1>0, <1>3
  <2>2. r \in SUBSET S /\ Cardinality(r) = n - 1
    BY <1>6, <1>7, <2>1, FS_RemoveElement
  <2>3. Cardinality(r) \in Nat
    BY <1>0, <2>2
  <2> QED BY <2>2, <2>3
<1>9. f[r] = g[r]
  <2>1. n - 1 \notin Bad
    BY <1>2, <1>8
  <2> QED BY <1>8, <2>1
<1>10. v[Some(s)] = w[Some(s)]
  BY <1>6 DEF AlikeOn
<1> QED BY <1>3, <1>4, <1>5, <1>7, <1>9, <1>10

\* So whatever adds up has found the sum,
LEMMA TotalComes ==
  ASSUME NEW S, IsFiniteSet(S), NEW T, S \subseteq T, NEW v, NEW w, \A x \in S : v[x] = w[x],
         NEW f, AddsBy(f, v, SUBSET T)
  PROVE  f[S] = Total(w, S)
<1>1. PICK g : g = CHOOSE h : AddsBy(h, w, SUBSET S)
  OBVIOUS
<1>2. AddsBy(g, w, SUBSET S)
  <2>1. \E h : AddsBy(h, w, SUBSET S)
    BY AddingUp
  <2> QED BY <1>1, <2>1
<1>3. Total(w, S) = g[S]
  BY <1>1, TotalIs
<1>4. f[S] = g[S]
  <2>1. AlikeOn(S, v, w)
    BY DEF AlikeOn
  <2>2. PICK P : P = SUBSET T
    OBVIOUS
  <2>3. AddsBy(f, v, P) /\ SUBSET S \subseteq P
    BY <2>2
  <2> QED BY <1>2, <2>1, <2>3, AddsAlike
<1> QED BY <1>3, <1>4

\* weights that are the same come to the same,
LEMMA TotalSame ==
  ASSUME NEW S, IsFiniteSet(S), NEW v, NEW w, \A x \in S : v[x] = w[x]
  PROVE  Total(v, S) = Total(w, S)
<1>1. PICK g : AddsBy(g, v, SUBSET S)
  BY AddingUp
<1> QED BY <1>1, TotalComes

\* nothing comes to nothing,
LEMMA TotalNone ==
  ASSUME NEW w
  PROVE  Total(w, {}) = 0
<1>1. PICK g : AddsBy(g, w, SUBSET {})
  BY AddingUp, FS_EmptySet
<1>2. g[{}] = Total(w, {})
  BY <1>1, TotalComes, FS_EmptySet
<1>3. g[{}] = 0
  BY <1>1 DEF AddsBy
<1> QED BY <1>2, <1>3

\* a set comes to what one element and the rest of it do,
LEMMA TotalFirst ==
  ASSUME NEW S, IsFiniteSet(S), S # {}, NEW w
  PROVE  Some(S) \in S /\ Total(w, S) = w[Some(S)] + Total(w, S \ {Some(S)})
<1>0. Some(S) \in S
  BY DEF Some
<1>1. PICK g : AddsBy(g, w, SUBSET S)
  BY AddingUp
<1>2. PICK r : r = S \ {Some(S)}
  OBVIOUS
<1>3. r \subseteq S /\ IsFiniteSet(r)
  BY <1>2, FS_Subset
<1>4. g[S] = Total(w, S) /\ g[r] = Total(w, r)
  BY <1>1, <1>3, TotalComes
<1>5. g[S] = w[Some(S)] + g[r]
  BY <1>1, <1>2 DEF AddsBy
<1> QED BY <1>0, <1>2, <1>4, <1>5

\* and natural numbers to a natural number.
LEMMA TotalWhole ==
  ASSUME NEW S, IsFiniteSet(S), NEW w, \A x \in S : w[x] \in Nat
  PROVE  Total(w, S) \in Nat
<1> DEFINE Bad == {n \in Nat : \E s \in SUBSET S : Cardinality(s) = n /\ Total(w, s) \notin Nat}
<1>0. \A s \in SUBSET S : IsFiniteSet(s) /\ Cardinality(s) \in Nat
  BY FS_Subset, FS_CardinalityType
<1>1. SUFFICES Bad = {}
  BY <1>0
<1> SUFFICES ASSUME NEW b \in Bad PROVE FALSE
  OBVIOUS
<1>2. PICK n \in Bad : \A k \in Bad : n <= k
  <2>1. Bad \subseteq Nat
    OBVIOUS
  <2> HIDE DEF Bad
  <2> QED BY <2>1, Leads
<1>3. PICK s \in SUBSET S : Cardinality(s) = n /\ Total(w, s) \notin Nat
  BY <1>2
<1>4. s # {}
  BY <1>3, TotalNone
<1>5. PICK r : r = s \ {Some(s)}
  OBVIOUS
<1>6. Some(s) \in s /\ Total(w, s) = w[Some(s)] + Total(w, r)
  BY <1>0, <1>4, <1>5, TotalFirst
<1>7. r \in SUBSET S /\ Cardinality(r) = n - 1 /\ n - 1 \in Nat
  <2>1. r \in SUBSET S /\ Cardinality(r) = n - 1
    BY <1>0, <1>3, <1>5, <1>6, FS_RemoveElement
  <2> QED BY <1>0, <2>1
<1>8. Total(w, r) \in Nat
  <2>1. n - 1 \notin Bad
    BY <1>2, <1>7
  <2> QED BY <1>7, <2>1
<1> QED BY <1>3, <1>6, <1>8

\* It does not matter which element comes first.
LEMMA TotalTakes ==
  ASSUME NEW S, IsFiniteSet(S), NEW w, \A x \in S : w[x] \in Nat, NEW e \in S
  PROVE  Total(w, S) = w[e] + Total(w, S \ {e})
<1> DEFINE Bad == {n \in Nat : \E s \in SUBSET S : \E x \in s :
                      Cardinality(s) = n /\ Total(w, s) # w[x] + Total(w, s \ {x})}
<1>0. \A s \in SUBSET S : IsFiniteSet(s) /\ Cardinality(s) \in Nat /\ Total(w, s) \in Nat
  BY FS_Subset, FS_CardinalityType, TotalWhole
<1>1. SUFFICES Bad = {}
  BY <1>0
<1> SUFFICES ASSUME NEW b \in Bad PROVE FALSE
  OBVIOUS
<1>2. PICK n \in Bad : \A k \in Bad : n <= k
  <2>1. Bad \subseteq Nat
    OBVIOUS
  <2> HIDE DEF Bad
  <2> QED BY <2>1, Leads
<1>3. PICK s \in SUBSET S : \E x \in s : Cardinality(s) = n /\ Total(w, s) # w[x] + Total(w, s \ {x})
  BY <1>2
<1>33. PICK x \in s : Cardinality(s) = n /\ Total(w, s) # w[x] + Total(w, s \ {x})
  BY <1>3
<1>4. PICK y : y = Some(s)
  OBVIOUS
<1>5. PICK r : r = s \ {y}
  OBVIOUS
<1>6. y \in s /\ Total(w, s) = w[y] + Total(w, r)
  BY <1>0, <1>33, <1>4, <1>5, TotalFirst
<1>7. x # y
  BY <1>33, <1>5, <1>6
<1>8. PICK q : q = s \ {x}
  OBVIOUS
<1>9. /\ r \in SUBSET S /\ Cardinality(r) = n - 1 /\ n - 1 \in Nat /\ x \in r
      /\ q \in SUBSET S /\ Cardinality(q) = n - 1 /\ y \in q
  <2>1. Cardinality(r) = n - 1 /\ Cardinality(q) = n - 1
    BY <1>0, <1>33, <1>5, <1>6, <1>8, FS_RemoveElement
  <2>2. r \in SUBSET S /\ q \in SUBSET S
    BY <1>5, <1>8
  <2>3. Cardinality(r) \in Nat
    BY <1>0, <2>2
  <2> QED BY <1>33, <1>5, <1>6, <1>7, <1>8, <2>1, <2>2, <2>3
<1>10. PICK p : p = s \ {x, y}
  OBVIOUS
<1>11. r \ {x} = p /\ q \ {y} = p /\ p \in SUBSET S
  BY <1>5, <1>8, <1>10
<1>12. Total(w, r) = w[x] + Total(w, p) /\ Total(w, q) = w[y] + Total(w, p)
  <2>1. n - 1 \notin Bad
    <3>1. n \in Nat /\ ~ (n <= n - 1)
      BY <1>2
    <3> HIDE DEF Bad
    <3> QED BY <1>2, <3>1
  <2>2. \A z \in SUBSET S : \A e1 \in z : Cardinality(z) = n - 1 => Total(w, z) = w[e1] + Total(w, z \ {e1})
    BY <1>9, <2>1
  <2> HIDE DEF Bad
  <2>3. Total(w, r) = w[x] + Total(w, r \ {x}) /\ Total(w, q) = w[y] + Total(w, q \ {y})
    BY <1>9, <2>2
  <2> QED BY <1>11, <2>3
<1>13. w[x] \in Nat /\ w[y] \in Nat /\ Total(w, p) \in Nat
  BY <1>0, <1>33, <1>6, <1>11
<1> HIDE DEF Bad
<1> QED BY <1>33, <1>6, <1>8, <1>12, <1>13

\* Sets apart add up.
LEMMA TotalJoins ==
  ASSUME NEW S, IsFiniteSet(S), NEW T, IsFiniteSet(T), S \cap T = {}, NEW w,
         \A x \in S \cup T : w[x] \in Nat
  PROVE  Total(w, S \cup T) = Total(w, S) + Total(w, T)
<1> DEFINE Bad == {n \in Nat : \E t \in SUBSET T :
                      Cardinality(t) = n /\ Total(w, S \cup t) # Total(w, S) + Total(w, t)}
<1>0. \A t \in SUBSET T : /\ IsFiniteSet(t) /\ Cardinality(t) \in Nat /\ Total(w, t) \in Nat
                          /\ IsFiniteSet(S \cup t) /\ Total(w, S \cup t) \in Nat
  <2> SUFFICES ASSUME NEW t \in SUBSET T
               PROVE  /\ IsFiniteSet(t) /\ Cardinality(t) \in Nat /\ Total(w, t) \in Nat
                      /\ IsFiniteSet(S \cup t) /\ Total(w, S \cup t) \in Nat
    OBVIOUS
  <2>1. IsFiniteSet(t) /\ Cardinality(t) \in Nat
    BY FS_Subset, FS_CardinalityType
  <2>2. IsFiniteSet(S \cup t)
    BY <2>1, FS_Union
  <2> QED BY <2>1, <2>2, TotalWhole
<1>1. SUFFICES Bad = {}
  BY <1>0
<1> SUFFICES ASSUME NEW b \in Bad PROVE FALSE
  OBVIOUS
<1>2. PICK n \in Bad : \A k \in Bad : n <= k
  <2>1. Bad \subseteq Nat
    OBVIOUS
  <2> HIDE DEF Bad
  <2> QED BY <2>1, Leads
<1>3. PICK t \in SUBSET T : Cardinality(t) = n /\ Total(w, S \cup t) # Total(w, S) + Total(w, t)
  BY <1>2
<1>4. Total(w, S) \in Nat
  BY TotalWhole
<1>5. t # {}
  <2>1. S \cup {} = S
    OBVIOUS
  <2> QED BY <1>3, <1>4, <2>1, TotalNone
<1>6. PICK x \in t : TRUE
  BY <1>5
<1>7. PICK r : r = t \ {x}
  OBVIOUS
<1>8. r \in SUBSET T /\ Cardinality(r) = n - 1 /\ n - 1 \in Nat
  <2>1. r \in SUBSET T /\ Cardinality(r) = n - 1
    BY <1>0, <1>3, <1>6, <1>7, FS_RemoveElement
  <2> QED BY <1>0, <2>1
<1>9. Total(w, S \cup r) = Total(w, S) + Total(w, r)
  <2>1. n - 1 \notin Bad
    BY <1>2, <1>8
  <2> QED BY <1>8, <2>1
<1>10. Total(w, t) = w[x] + Total(w, r)
  BY <1>0, <1>6, <1>7, TotalTakes
<1>11. Total(w, S \cup t) = w[x] + Total(w, S \cup r)
  <2>1. (S \cup t) \ {x} = S \cup r /\ x \in S \cup t /\ IsFiniteSet(S \cup t)
    BY <1>0, <1>6, <1>7
  <2>2. \A y \in S \cup t : w[y] \in Nat
    OBVIOUS
  <2>3. PICK u : u = S \cup t
    OBVIOUS
  <2> QED BY <2>1, <2>2, <2>3, TotalTakes
<1>12. w[x] \in Nat /\ Total(w, r) \in Nat
  BY <1>0, <1>6, <1>8
<1> HIDE DEF Bad
<1> QED BY <1>3, <1>4, <1>9, <1>10, <1>11, <1>12

\* What weighs nothing may be left out.
LEMMA TotalDrops ==
  ASSUME NEW S, IsFiniteSet(S), NEW w, \A x \in S : w[x] \in Nat, NEW T, T \subseteq S,
         \A x \in S \ T : w[x] = 0
  PROVE  Total(w, S) = Total(w, T)
<1>0. \A s \in SUBSET S : IsFiniteSet(s) /\ Cardinality(s) \in Nat
  BY FS_Subset, FS_CardinalityType
<1> DEFINE Bad == {n \in Nat : \E s \in SUBSET (S \ T) : Cardinality(s) = n /\ Total(w, s) # 0}
<1>1. Bad = {}
  <2> SUFFICES ASSUME NEW b \in Bad PROVE FALSE
    OBVIOUS
  <2>1. PICK n \in Bad : \A k \in Bad : n <= k
    <3>1. Bad \subseteq Nat
      OBVIOUS
    <3> HIDE DEF Bad
    <3> QED BY <3>1, Leads
  <2>2. PICK s \in SUBSET (S \ T) : Cardinality(s) = n /\ Total(w, s) # 0
    BY <2>1
  <2>3. s # {} /\ IsFiniteSet(s)
    BY <1>0, <2>2, TotalNone
  <2>4. PICK r : r = s \ {Some(s)}
    OBVIOUS
  <2>5. Some(s) \in s /\ Total(w, s) = w[Some(s)] + Total(w, r)
    BY <2>3, <2>4, TotalFirst
  <2>6. r \in SUBSET (S \ T) /\ Cardinality(r) = n - 1 /\ Cardinality(r) \in Nat
    BY <1>0, <2>2, <2>3, <2>4, <2>5, FS_RemoveElement
  <2>7. Total(w, r) = 0
    <3>1. n - 1 \notin Bad
      BY <2>1, <2>6
    <3> QED BY <2>6, <3>1
  <2> QED BY <2>2, <2>5, <2>7
<1>2. Total(w, S \ T) = 0
  <2>1. Cardinality(S \ T) \in Nat
    BY <1>0
  <2> QED BY <1>1, <2>1
<1> HIDE DEF Bad
<1>3. Total(w, T) \in Nat /\ IsFiniteSet(T) /\ IsFiniteSet(S \ T)
  BY <1>0, TotalWhole
<1>4. Total(w, T \cup (S \ T)) = Total(w, T) + Total(w, S \ T)
  <2>1. PICK U : U = S \ T
    OBVIOUS
  <2>2. IsFiniteSet(U) /\ T \cap U = {} /\ \A x \in T \cup U : w[x] \in Nat
    BY <1>3, <2>1
  <2>3. Total(w, T \cup U) = Total(w, T) + Total(w, U)
    BY <1>3, <2>2, TotalJoins
  <2> QED BY <2>1, <2>3
<1>5. T \cup (S \ T) = S
  OBVIOUS
<1>6. Total(w, S) = Total(w, T) + Total(w, S \ T)
  BY <1>4, <1>5
<1> QED BY <1>2, <1>3, <1>6

\* What the groups of S come to: K names them, and of says which one an element is in.
ByGroup(t, w, of, S, K) == \A k \in K : t[k] = Total(w, {x \in S : of[x] = k})

\* Adding up by groups is adding up.
LEMMA TotalByGroup ==
  ASSUME NEW S, IsFiniteSet(S), NEW w, \A x \in S : w[x] \in Nat,
         NEW of, NEW K, IsFiniteSet(K), \A x \in S : of[x] \in K,
         NEW t, ByGroup(t, w, of, S, K)
  PROVE  Total(w, S) = Total(t, K)
<1> DEFINE In(k) == {x \in S : of[x] = k}
           Of(J) == {x \in S : of[x] \in J}
           Bad == {n \in Nat : \E J \in SUBSET K : Cardinality(J) = n /\ Total(w, Of(J)) # Total(t, J)}
<1>0. /\ \A J \in SUBSET K : IsFiniteSet(J) /\ Cardinality(J) \in Nat
      /\ \A s \in SUBSET S : IsFiniteSet(s) /\ Total(w, s) \in Nat
  BY FS_Subset, FS_CardinalityType, TotalWhole
<1>1. \A k \in K : t[k] \in Nat /\ t[k] = Total(w, In(k))
  BY <1>0 DEF ByGroup
<1>2. Bad = {}
  <2> SUFFICES ASSUME NEW b \in Bad PROVE FALSE
    OBVIOUS
  <2>1. PICK n \in Bad : \A k \in Bad : n <= k
    <3>1. Bad \subseteq Nat
      OBVIOUS
    <3> HIDE DEF Bad
    <3> QED BY <3>1, Leads
  <2>2. PICK J \in SUBSET K : Cardinality(J) = n /\ Total(w, Of(J)) # Total(t, J)
    BY <2>1
  <2>3. J # {}
    <3>1. Of({}) = {}
      OBVIOUS
    <3> QED BY <2>2, <3>1, TotalNone
  <2>4. PICK k \in J : TRUE
    BY <2>3
  <2>5. PICK I : I = J \ {k}
    OBVIOUS
  <2>6. I \in SUBSET K /\ Cardinality(I) = n - 1 /\ Cardinality(I) \in Nat
    BY <1>0, <2>2, <2>4, <2>5, FS_RemoveElement
  <2>7. Total(w, Of(I)) = Total(t, I)
    <3>1. n - 1 \notin Bad
      BY <2>1, <2>6
    <3> QED BY <2>6, <3>1
  <2>8. Total(t, J) = t[k] + Total(t, I)
    <3>1. IsFiniteSet(J) /\ k \in J /\ \A x \in J : t[x] \in Nat
      BY <1>0, <1>1, <2>4
    <3> HIDE DEF Bad, Of, In
    <3> QED BY <2>5, <3>1, TotalTakes
  <2>9. Total(w, Of(J)) = Total(w, In(k)) + Total(w, Of(I))
    <3>1. PICK A, B : A = In(k) /\ B = Of(I)
      OBVIOUS
    <3>2. A \cup B = Of(J) /\ A \cap B = {} /\ A \in SUBSET S /\ B \in SUBSET S
      BY <2>4, <2>5, <3>1
    <3>3. Total(w, A \cup B) = Total(w, A) + Total(w, B)
      BY <1>0, <3>2, TotalJoins
    <3> QED BY <3>1, <3>2, <3>3
  <2> QED BY <1>1, <2>2, <2>4, <2>7, <2>8, <2>9
<1>3. Of(K) = S /\ Cardinality(K) \in Nat
  BY <1>0
<1>4. \A n \in Nat : \A J \in SUBSET K : Cardinality(J) = n => Total(w, Of(J)) = Total(t, J)
  BY <1>2
<1> HIDE DEF Of, Bad
<1> QED BY <1>3, <1>4

\* The sum over one element.
LEMMA TotalOne ==
  ASSUME NEW x, NEW w, w[x] \in Nat
  PROVE  Total(w, {x}) = w[x]
<1>1. PICK S : S = {x}
  OBVIOUS
<1>2. IsFiniteSet(S) /\ x \in S /\ S \ {x} = {} /\ \A y \in S : w[y] \in Nat
  BY <1>1, FS_Singleton
<1>3. Total(w, S) = w[x] + Total(w, S \ {x})
  BY <1>2, TotalTakes
<1> QED BY <1>1, <1>2, <1>3, TotalNone

\* The sum of equal numbers.
LEMMA TotalOfEqual ==
  ASSUME NEW S, IsFiniteSet(S), NEW c \in Nat, NEW w, \A x \in S : w[x] = c
  PROVE  Cardinality(S) \in Nat /\ Total(w, S) = Cardinality(S) * c
<1> DEFINE Bad == {n \in Nat : \E s \in SUBSET S : Cardinality(s) = n /\ Total(w, s) # n * c}
<1>1. \A s \in SUBSET S : IsFiniteSet(s) /\ Cardinality(s) \in Nat
  BY FS_Subset, FS_CardinalityType
<1>2. ASSUME NEW n \in Bad, \A m \in Bad : n <= m PROVE FALSE
  <2>1. PICK s \in SUBSET S : Cardinality(s) = n /\ Total(w, s) # n * c
    OBVIOUS
  <2>2. IsFiniteSet(s)
    BY <1>1
  <2>3. CASE s = {}
    <3>1. n = 0
      BY <2>1, <2>3, FS_EmptySet
    <3>2. Total(w, s) = 0
      BY <2>3, TotalNone
    <3> QED BY <2>1, <3>1, <3>2
  <2>4. CASE s # {}
    <3>1. PICK e : e \in s
      BY <2>4
    <3>2. PICK r : r = s \ {e}
      OBVIOUS
    <3>3. IsFiniteSet(r) /\ Cardinality(r) = n - 1 /\ n - 1 \in Nat /\ r \in SUBSET S
      BY <1>1, <2>1, <2>2, <3>1, <3>2, FS_RemoveElement
    <3>4. n - 1 \notin Bad
      BY <1>2
    <3>5. Total(w, r) = (n - 1) * c
      BY <3>3, <3>4
    <3>6. w[e] = c /\ \A x \in s : w[x] \in Nat
      BY <3>1
    <3>7. Total(w, s) = w[e] + Total(w, r)
      BY <2>2, <3>1, <3>2, <3>6, TotalTakes
    <3>8. c + (n - 1) * c = n * c
      OBVIOUS
    <3> QED BY <2>1, <3>5, <3>6, <3>7, <3>8
  <2> QED BY <2>3, <2>4
<1>3. \A n \in Bad : FALSE
  <2>1. Bad \subseteq Nat
    OBVIOUS
  <2> HIDE DEF Bad
  <2> QED BY <1>2, <2>1, Leads
<1> QED BY <1>1, <1>3

\* A sum may be taken over other names for what it is over.
LEMMA TotalRenamed ==
  ASSUME NEW S, IsFiniteSet(S), NEW w, \A x \in S : w[x] \in Nat,
         NEW of, NEW K, IsFiniteSet(K), \A x \in S : of[x] \in K,
         \A x, y \in S : of[x] = of[y] => x = y,
         NEW v, \A k \in K : \E x \in S : of[x] = k /\ v[k] = w[x]
  PROVE  Total(w, S) = Total(v, K)
<1>1. ASSUME NEW k \in K PROVE v[k] = Total(w, {x \in S : of[x] = k})
  <2>1. PICK x \in S : of[x] = k /\ v[k] = w[x]
    OBVIOUS
  <2>2. {y \in S : of[y] = k} = {x}
    BY <2>1
  <2>3. Total(w, {x}) = w[x]
    BY TotalOne
  <2> QED BY <2>1, <2>2, <2>3
<1>2. ByGroup(v, w, of, S, K)
  BY <1>1 DEF ByGroup
<1> QED BY <1>2, TotalByGroup

\* What the things there come to, place by place; and what a thing comes to at its places.
ByPlace(t, g, at, I, S) == \A s \in S : t[s] = Total(g, {i \in I : s \in at[i]})
ByThing(u, g, at, I) == \A i \in I : u[i] = Cardinality(at[i]) * g[i]

\* What is at several places is summed up place by place or thing by thing.
LEMMA TotalExchanged ==
  ASSUME NEW I, IsFiniteSet(I), NEW S, IsFiniteSet(S),
         NEW at, \A i \in I : at[i] \subseteq S,
         NEW g, \A i \in I : g[i] \in Nat,
         NEW t, ByPlace(t, g, at, I, S), NEW u, ByThing(u, g, at, I)
  PROVE  Total(t, S) = Total(u, I)
<1> DEFINE X == {x \in I \X S : x[2] \in at[x[1]]}
           w == [x \in X |-> g[x[1]]]
           one == [x \in X |-> x[1]]
           two == [x \in X |-> x[2]]
<1>1. IsFiniteSet(I \X S)
  BY FS_Product
<1>2. IsFiniteSet(X)
  BY <1>1, FS_Subset
<1>3. \A x \in X : x = <<one[x], two[x]>> /\ one[x] \in I /\ two[x] \in S /\ two[x] \in at[one[x]]
  OBVIOUS
<1>4. \A i \in I, s \in S : s \in at[i] => <<i, s>> \in X /\ one[<<i, s>>] = i /\ two[<<i, s>>] = s
  OBVIOUS
<1>5. \A x \in X : w[x] = g[one[x]] /\ w[x] \in Nat
  OBVIOUS
<1> HIDE DEF X, w, one, two
<1>6. ASSUME NEW s \in S PROVE t[s] = Total(w, {x \in X : two[x] = s})
  <2>1. PICK Y, J : Y = {x \in X : two[x] = s} /\ J = {i \in I : s \in at[i]}
    OBVIOUS
  <2>2. IsFiniteSet(Y) /\ IsFiniteSet(J) /\ \A x \in Y : w[x] \in Nat
    BY <1>2, <1>5, <2>1, FS_Subset
  <2>3. \A x \in Y : one[x] \in J
    BY <1>3, <2>1
  <2>4. \A x, y \in Y : one[x] = one[y] => x = y
    BY <1>3, <2>1
  <2>5. \A i \in J : \E x \in Y : one[x] = i /\ g[i] = w[x]
    <3> SUFFICES ASSUME NEW i \in J PROVE \E x \in Y : one[x] = i /\ g[i] = w[x]
      OBVIOUS
    <3>1. PICK x : x = <<i, s>>
      OBVIOUS
    <3>2. x \in X /\ one[x] = i /\ two[x] = s
      BY <1>4, <2>1, <3>1
    <3> QED BY <1>5, <2>1, <3>2
  <2>6. Total(w, Y) = Total(g, J)
    BY <2>2, <2>3, <2>4, <2>5, TotalRenamed
  <2> QED BY <2>1, <2>6 DEF ByPlace
<1>7. Total(w, X) = Total(t, S)
  <2>1. \A x \in X : w[x] \in Nat /\ two[x] \in S
    BY <1>3, <1>5
  <2>2. ByGroup(t, w, two, X, S)
    BY <1>6 DEF ByGroup
  <2> QED BY <1>2, <2>1, <2>2, TotalByGroup
<1>8. ASSUME NEW i \in I PROVE u[i] = Total(w, {x \in X : one[x] = i})
  <2>1. PICK Z, A, v : Z = {x \in X : one[x] = i} /\ A = at[i] /\ v = [s \in A |-> g[i]]
    OBVIOUS
  <2>2. A \subseteq S /\ IsFiniteSet(Z) /\ IsFiniteSet(A) /\ \A x \in Z : w[x] \in Nat
    BY <1>2, <1>5, <2>1, FS_Subset
  <2>3. \A x \in Z : two[x] \in A
    BY <1>3, <2>1
  <2>4. \A x, y \in Z : two[x] = two[y] => x = y
    BY <1>3, <2>1
  <2>5. \A s \in A : \E x \in Z : two[x] = s /\ v[s] = w[x]
    <3> SUFFICES ASSUME NEW s \in A PROVE \E x \in Z : two[x] = s /\ v[s] = w[x]
      OBVIOUS
    <3>1. PICK x : x = <<i, s>>
      OBVIOUS
    <3>2. x \in X /\ one[x] = i /\ two[x] = s
      BY <1>4, <2>1, <2>2, <3>1
    <3> QED BY <1>5, <2>1, <3>2
  <2>6. Total(w, Z) = Total(v, A)
    BY <2>2, <2>3, <2>4, <2>5, TotalRenamed
  <2>7. g[i] \in Nat /\ \A s \in A : v[s] = g[i]
    BY <2>1
  <2>8. PICK c : c = g[i]
    OBVIOUS
  <2>9. Total(v, A) = Cardinality(A) * c
    BY <2>2, <2>7, <2>8, TotalOfEqual
  <2> QED BY <2>1, <2>6, <2>8, <2>9 DEF ByThing
<1>9. Total(w, X) = Total(u, I)
  <2>1. \A x \in X : w[x] \in Nat /\ one[x] \in I
    BY <1>3, <1>5
  <2>2. ByGroup(u, w, one, X, I)
    BY <1>8 DEF ByGroup
  <2> QED BY <1>2, <2>1, <2>2, TotalByGroup
<1> QED BY <1>7, <1>9
=============================================================================
