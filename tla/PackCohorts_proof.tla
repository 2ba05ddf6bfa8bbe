-------------------------- MODULE PackCohorts_proof --------------------------
(***************************************************************************)
(* Proofs about PackCohorts for every set of lists, rows and locations and *)
(* every cap and rank bound that satisfy the module's assumptions.         *)
(***************************************************************************)
EXTENDS PackCohorts, FiniteSetTheorems, TLAPS

-----------------------------------------------------------------------------
(* The display order and the places it gives                               *)

\* Ids are positive numbers and each belongs to one kind.
LEMMA IdFacts ==
  /\ Row \subseteq Nat \ {0} /\ Item \subseteq Row /\ Food \subseteq Row
  /\ Loc \subseteq Nat \ {0}
  /\ NULL \notin Row /\ NULL \notin Item /\ NULL \notin Loc /\ NULL \in Nat
  /\ IsFiniteSet(Row)
BY IdsAssumption, FS_Union DEF Row, NULL

\* The display order is a strict total order on rows.
LEMMA BeforeOrder ==
  ASSUME rank \in [Row -> Int], NEW r \in Row, NEW s \in Row, NEW t \in Row
  PROVE  /\ ~ Before(r, r)
         /\ r # s => Before(r, s) \/ Before(s, r)
         /\ Before(r, s) /\ Before(s, t) => Before(r, t)
<1>1. r \in Nat /\ s \in Nat /\ t \in Nat
  BY IdFacts
<1>2. rank[r] \in Int /\ rank[s] \in Int /\ rank[t] \in Int
  OBVIOUS
<1>3. (r \in Item <=> r \notin Food) /\ (s \in Item <=> s \notin Food)
        /\ (t \in Item <=> t \notin Food)
  BY IdsAssumption DEF Row
<1> QED
  BY <1>1, <1>2, <1>3 DEF Before, SameTable

\* The places of S are numbers below its size, in display order.
LEMMA PlaceFacts ==
  ASSUME rank \in [Row -> Int], NEW S \in SUBSET Row, NEW r \in S, NEW s \in S
  PROVE  /\ IsFiniteSet(S) /\ Cardinality(S) \in Nat
         /\ RowNumber(r, S) \in 0 .. Cardinality(S) - 1
         /\ Before(r, s) => RowNumber(r, S) < RowNumber(s, S)
         /\ r # s => RowNumber(r, S) # RowNumber(s, S)
<1> DEFINE Ahead(x) == {y \in S : Before(y, x)}
<1>1. IsFiniteSet(S) /\ Cardinality(S) \in Nat
  BY IdFacts, FS_Subset, FS_CardinalityType
<1>2. \A x \in S : /\ Cardinality(Ahead(x)) \in Nat
                   /\ Cardinality(Ahead(x)) < Cardinality(S)
  <2> TAKE x \in S
  <2>1. Ahead(x) \in SUBSET S /\ x \notin Ahead(x)
    BY BeforeOrder
  <2>2. Ahead(x) # S
    BY <2>1
  <2>3. IsFiniteSet(Ahead(x)) /\ Cardinality(Ahead(x)) <= Cardinality(S)
          /\ Cardinality(Ahead(x)) # Cardinality(S)
    BY <1>1, <2>1, <2>2, FS_Subset
  <2>4. Cardinality(Ahead(x)) \in Nat
    BY <2>3, FS_CardinalityType
  <2> QED
    BY <1>1, <2>3, <2>4
<1>3. \A x, y \in S : Before(x, y) => Cardinality(Ahead(x)) < Cardinality(Ahead(y))
  <2> TAKE x, y \in S
  <2> HAVE Before(x, y)
  <2>1. Ahead(x) \in SUBSET Ahead(y) /\ x \in Ahead(y) /\ x \notin Ahead(x)
    BY BeforeOrder
  <2>2. Ahead(x) # Ahead(y)
    BY <2>1
  <2>3. IsFiniteSet(Ahead(y))
    BY <1>1, FS_Subset
  <2>4. Cardinality(Ahead(x)) <= Cardinality(Ahead(y))
          /\ Cardinality(Ahead(x)) # Cardinality(Ahead(y))
    BY <2>1, <2>2, <2>3, FS_Subset
  <2> QED
    BY <1>2, <2>4
<1>4. RowNumber(r, S) = Cardinality(Ahead(r)) /\ RowNumber(s, S) = Cardinality(Ahead(s))
  BY DEF RowNumber
<1> HIDE DEF Ahead
<1>5. Before(r, s) \/ Before(s, r) \/ r = s
  BY BeforeOrder
<1> QED
  BY <1>1, <1>2, <1>3, <1>4, <1>5

\* Disjoint sets have the sum of their sizes.
LEMMA DisjointSizes ==
  ASSUME NEW S, NEW T, IsFiniteSet(S), IsFiniteSet(T), S \cap T = {}
  PROVE  Cardinality(S \cup T) = Cardinality(S) + Cardinality(T)
<1>1. Cardinality(S \cup T)
        = Cardinality(S) + Cardinality(T) - Cardinality(S \cap T)
  BY FS_Union
<1>2. Cardinality(S \cap T) = 0
  BY FS_EmptySet
<1>3. Cardinality(S) \in Nat /\ Cardinality(T) \in Nat
  BY FS_CardinalityType
<1> QED
  BY <1>1, <1>2, <1>3

\* Two disjoint sets of rows of one list fit the rank space together.
LEMMA Fits ==
  ASSUME rows \subseteq Row, RowCaps, NEW l \in List,
         NEW U \in SUBSET RowsOf(l), NEW S \in SUBSET RowsOf(l), U \cap S = {}
  PROVE  /\ Cardinality(U) \in Nat /\ Cardinality(S) \in Nat
         /\ Cardinality(U) + Cardinality(S) <= RankMax + 1
<1> DEFINE G == RowsOf(l) \cap Item
           F == RowsOf(l) \cap Food
<1>1. /\ IsFiniteSet(U) /\ IsFiniteSet(S) /\ IsFiniteSet(G) /\ IsFiniteSet(F)
      /\ Cardinality(U) \in Nat /\ Cardinality(S) \in Nat
      /\ Cardinality(G) \in Nat /\ Cardinality(F) \in Nat
  BY IdFacts, FS_Subset, FS_CardinalityType DEF RowsOf
<1>2. Cardinality(U \cup S) = Cardinality(U) + Cardinality(S)
  BY <1>1, DisjointSizes
<1>3. Cardinality(G \cup F) = Cardinality(G) + Cardinality(F) /\ IsFiniteSet(G \cup F)
  <2>1. G \cap F = {}
    BY IdsAssumption
  <2> QED
    BY <1>1, <2>1, DisjointSizes, FS_Union
<1>4. U \cup S \subseteq G \cup F
  BY DEF RowsOf, Row
<1>5. Cardinality(U \cup S) <= Cardinality(G \cup F)
  BY <1>3, <1>4, FS_Subset
<1>6. Cardinality(G) <= ItemCap /\ Cardinality(F) <= FoodCap
  BY DEF RowCaps
<1> HIDE DEF G, F
<1> QED
  BY <1>1, <1>2, <1>3, <1>5, <1>6, CapsAssumption

\* What both re-rankings of an emptied location rest on: rows U of a list stay
\* in Unassigned, rows S of it join them.
Emptying(l, U, S, base) ==
  /\ U \subseteq RowsOf(l) /\ S \subseteq RowsOf(l) /\ U \cap S = {}
  /\ base \in 0 .. RankMax + 1
  /\ IsNextRank(base, U)
  /\ \A r, s \in U : r # s /\ SameTable(r, s) => rank[r] # rank[s]

\* The ranks of a location delete are in range, leave every other row alone
\* and are distinct within a table.
LEMMA AppendOrDenseFacts ==
  ASSUME TypeOK, RowCaps, RanksInRange, NEW l \in List, NEW U, NEW S, NEW base,
         Emptying(l, U, S, base)
  PROVE  /\ \A r \in Row : AppendOrDense(r, U, S, base) \in Int
         /\ \A r \in rows : AppendOrDense(r, U, S, base) \in 0 .. RankMax
         /\ \A r \in Row \ (U \cup S) : AppendOrDense(r, U, S, base) = rank[r]
         /\ \A r, s \in U \cup S : r # s /\ SameTable(r, s) =>
              AppendOrDense(r, U, S, base) # AppendOrDense(s, U, S, base)
<1>1. /\ rank \in [Row -> Int] /\ rows \subseteq Row /\ RankMax \in Nat
      /\ U \in SUBSET rows /\ S \in SUBSET rows /\ U \cap S = {}
      /\ U \in SUBSET RowsOf(l) /\ S \in SUBSET RowsOf(l)
      /\ base \in Nat /\ base <= RankMax + 1
      /\ \A r \in U : rank[r] < base
  BY CapsAssumption DEF TypeOK, Emptying, RowsOf, IsNextRank
<1>2. /\ Cardinality(U) \in Nat /\ Cardinality(S) \in Nat
      /\ Cardinality(U) + Cardinality(S) <= RankMax + 1
  BY <1>1, Fits
<1>3. \A r, s \in S : /\ RowNumber(r, S) \in 0 .. Cardinality(S) - 1
                      /\ r # s => RowNumber(r, S) # RowNumber(s, S)
  BY <1>1, PlaceFacts
<1>4. \A r, s \in U : /\ RowNumber(r, U) \in 0 .. Cardinality(U) - 1
                      /\ r # s => RowNumber(r, U) # RowNumber(s, U)
  BY <1>1, PlaceFacts
<1>5. \A r \in rows : rank[r] \in 0 .. RankMax
  BY DEF RanksInRange
<1>6. \A r, s \in U : r # s /\ SameTable(r, s) => rank[r] # rank[s]
  BY DEF Emptying
<1>7. CASE S = {} \/ base + Cardinality(S) - 1 <= RankMax
  <2>1. \A r \in Row : AppendOrDense(r, U, S, base) =
                         IF r \in S THEN base + RowNumber(r, S) ELSE rank[r]
    BY <1>7 DEF AppendOrDense
  <2> QED
    BY <1>1, <1>2, <1>3, <1>5, <1>6, <1>7, <2>1
<1>8. CASE ~ (S = {} \/ base + Cardinality(S) - 1 <= RankMax)
  <2>1. \A r \in Row : AppendOrDense(r, U, S, base) =
                         IF r \in U THEN RowNumber(r, U)
                         ELSE IF r \in S THEN Cardinality(U) + RowNumber(r, S) ELSE rank[r]
    BY <1>1, <1>8 DEF AppendOrDense
  <2> QED
    BY <1>1, <1>2, <1>3, <1>4, <1>5, <2>1
<1> QED
  BY <1>7, <1>8

\* The same of the delete triggers' ranks.
LEMMA RerankFacts ==
  ASSUME TypeOK, RowCaps, RanksInRange, NEW l \in List, NEW U, NEW S, NEW base,
         Emptying(l, U, S, base),
         \A r, s \in S : r # s /\ SameTable(r, s) => rank[r] # rank[s]
  PROVE  /\ \A r \in Row : Rerank(r, U, S, base) \in Int
         /\ \A r \in rows : Rerank(r, U, S, base) \in 0 .. RankMax
         /\ \A r \in Row \ (U \cup S) : Rerank(r, U, S, base) = rank[r]
         /\ \A r, s \in U \cup S : r # s /\ SameTable(r, s) =>
              Rerank(r, U, S, base) # Rerank(s, U, S, base)
<1>1. /\ rank \in [Row -> Int] /\ rows \subseteq Row /\ RankMax \in Nat
      /\ U \in SUBSET rows /\ S \in SUBSET rows /\ U \cap S = {}
      /\ U \in SUBSET RowsOf(l) /\ S \in SUBSET RowsOf(l)
      /\ base \in Nat /\ base <= RankMax + 1
      /\ \A r \in U : rank[r] < base
  BY CapsAssumption DEF TypeOK, Emptying, RowsOf, IsNextRank
<1>2. /\ Cardinality(U) \in Nat /\ Cardinality(S) \in Nat
      /\ Cardinality(U) + Cardinality(S) <= RankMax + 1
  BY <1>1, Fits
<1>3. \A r, s \in S : /\ RowNumber(r, S) \in 0 .. Cardinality(S) - 1
                      /\ r # s => RowNumber(r, S) # RowNumber(s, S)
  BY <1>1, PlaceFacts
<1>4. \A r, s \in U : /\ RowNumber(r, U) \in 0 .. Cardinality(U) - 1
                      /\ r # s => RowNumber(r, U) # RowNumber(s, U)
  BY <1>1, PlaceFacts
<1>5. \A r \in rows : rank[r] \in 0 .. RankMax
  BY DEF RanksInRange
<1>6. \A r, s \in U : r # s /\ SameTable(r, s) => rank[r] # rank[s]
  BY DEF Emptying
<1>7. CASE \A s \in S : base + rank[s] <= RankMax
  <2>1. \A r \in Row : Rerank(r, U, S, base) =
                         IF r \in S THEN base + rank[r] ELSE rank[r]
    BY <1>7 DEF Rerank
  <2> QED
    BY <1>1, <1>5, <1>6, <1>7, <2>1
<1>8. CASE ~ \A s \in S : base + rank[s] <= RankMax
  <2>1. \A r \in Row : Rerank(r, U, S, base) =
                         IF r \in U THEN RowNumber(r, U)
                         ELSE IF r \in S THEN Cardinality(U) + RowNumber(r, S) ELSE rank[r]
    BY <1>1, <1>8 DEF Rerank
  <2> QED
    BY <1>1, <1>2, <1>3, <1>4, <1>5, <2>1
<1> QED
  BY <1>7, <1>8

-----------------------------------------------------------------------------
(* The parts of the invariant that most steps keep for the same reason      *)

\* A step that adds no rows keeps the caps.
LEMMA CapsKept ==
  ASSUME TypeOK, RowCaps, rows' \subseteq rows
  PROVE  RowCaps'
<1> SUFFICES ASSUME NEW l \in List, NEW T, NEW cap \in Nat,
                    Cardinality(RowsOf(l) \cap T) <= cap
             PROVE  Cardinality(RowsOf(l)' \cap T) <= cap
  BY CapsAssumption DEF RowCaps
<1>1. IsFiniteSet(RowsOf(l) \cap T)
  BY IdFacts, FS_Subset DEF RowsOf, TypeOK
<1>2. RowsOf(l)' \cap T \in SUBSET (RowsOf(l) \cap T)
  BY DEF RowsOf
<1>3. /\ Cardinality(RowsOf(l)' \cap T) <= Cardinality(RowsOf(l) \cap T)
      /\ IsFiniteSet(RowsOf(l)' \cap T)
  BY <1>1, <1>2, FS_Subset
<1>4. Cardinality(RowsOf(l)' \cap T) \in Nat /\ Cardinality(RowsOf(l) \cap T) \in Nat
  BY <1>1, <1>3, FS_CardinalityType
<1> QED
  BY <1>3, <1>4

\* A step that leaves no item in a bag it was not in keeps nesting acyclic.
LEMMA NestingKept ==
  ASSUME NestingAcyclic,
         \A a \in rows' \cap Item :
           \/ loc'[a] = NULL
           \/ container'[loc'[a]] \notin rows' \cap Item
           \/ /\ a \in rows
              /\ loc[a] # NULL
              /\ container'[loc'[a]] = container[loc[a]]
  PROVE  NestingAcyclic'
<1> SUFFICES ASSUME NEW A \in SUBSET (rows' \cap Item), A # {},
                    \A a \in A : loc'[a] # NULL /\ container'[loc'[a]] \in A
             PROVE  FALSE
  BY DEF NestingAcyclic
<1>1. A \in SUBSET (rows \cap Item)
  OBVIOUS
<1>2. PICK a \in A : loc[a] = NULL \/ container[loc[a]] \notin A
  BY <1>1 DEF NestingAcyclic
<1> QED
  BY <1>2

-----------------------------------------------------------------------------
(* One lemma per action                                                    *)

LEMMA InitHolds == Init => PackInv
<1> SUFFICES ASSUME Init PROVE PackInv
  OBVIOUS
<1>1. TypeOK
  BY DEF Init, TypeOK
<1>2. RowCaps
  <2>1. \A l \in List : \A T : RowsOf(l) \cap T = {}
    BY DEF Init, RowsOf
  <2> QED
    BY <2>1, FS_EmptySet, CapsAssumption DEF RowCaps
<1> QED
  BY <1>1, <1>2
  DEF Init, PackInv, ReferencesHold, CohortRanksUnique, RanksInRange, NestingAcyclic

LEMMA AddRowStep ==
  ASSUME PackInv, NEW r \in Row, AddRow(r),
         worn' \in {worn, worn \cup ({r} \cap Item)},
         \/ r \in Item /\ Cardinality(RowsOf(ListOf[r]) \cap Item) < ItemCap
         \/ r \in Food /\ Cardinality(RowsOf(ListOf[r]) \cap Food) < FoodCap
  PROVE  PackInv'
<1> USE DEF PackInv
<1>1. PICK n \in 0 .. RankMax : /\ IsNextUnionPackRank(n, ListOf[r], NULL)
                                /\ rank' = [rank EXCEPT ![r] = n]
  BY DEF AddRow
<1>2. /\ r \notin rows /\ rows' = rows \cup {r}
      /\ loc' = [loc EXCEPT ![r] = NULL]
      /\ ListOf[r] \in lists /\ doomed = {}
      /\ UNCHANGED <<lists, locs, container, doomed>>
  BY DEF AddRow, Idle
<1>3. TypeOK'
  BY <1>1, <1>2, CapsAssumption DEF TypeOK
<1>4. ReferencesHold'
  BY <1>2 DEF ReferencesHold, TypeOK
<1>5. CohortRanksUnique'
  <2> SUFFICES ASSUME NEW s \in rows', NEW t \in rows', s # t,
                      SameTable(s, t), SameCohort(s, t)'
               PROVE  rank'[s] # rank'[t]
    BY DEF CohortRanksUnique, SameTable
  <2>1. \A q \in rows : ListOf[q] = ListOf[r] /\ loc[q] = NULL => rank[q] < n
    BY <1>1 DEF IsNextUnionPackRank, IsNextRank, Cohort
  <2>2. CASE s \in rows /\ t \in rows
    BY <1>1, <1>2, <2>2 DEF CohortRanksUnique, SameCohort, TypeOK
  <2>3. CASE s = r \/ t = r
    BY <1>1, <1>2, <2>1, <2>3, CapsAssumption DEF SameCohort, TypeOK
  <2> QED
    BY <1>2, <2>2, <2>3
<1>6. RanksInRange'
  BY <1>1, <1>2 DEF RanksInRange, TypeOK
<1>7. NestingAcyclic'
  <2>1. \A a \in rows' \cap Item :
           \/ loc'[a] = NULL
           \/ a \in rows /\ loc[a] # NULL /\ container'[loc'[a]] = container[loc[a]]
    BY <1>2 DEF TypeOK
  <2> QED
    BY <2>1, NestingKept
<1>8. RowCaps'
  <2> SUFFICES ASSUME NEW l \in List
               PROVE  /\ Cardinality(RowsOf(l)' \cap Item) <= ItemCap
                      /\ Cardinality(RowsOf(l)' \cap Food) <= FoodCap
    BY DEF RowCaps
  <2>1. /\ Cardinality(RowsOf(l) \cap Item) <= ItemCap
        /\ Cardinality(RowsOf(l) \cap Food) <= FoodCap
    BY DEF RowCaps
  <2>2. ASSUME NEW T, NEW cap \in Nat, Cardinality(RowsOf(l) \cap T) <= cap,
               r \in T /\ ListOf[r] = l => Cardinality(RowsOf(l) \cap T) < cap
        PROVE  Cardinality(RowsOf(l)' \cap T) <= cap
    <3>1. IsFiniteSet(RowsOf(l) \cap T) /\ Cardinality(RowsOf(l) \cap T) \in Nat
      BY IdFacts, FS_Subset, FS_CardinalityType DEF RowsOf, TypeOK
    <3>2. CASE r \in T /\ ListOf[r] = l
      <4>1. /\ RowsOf(l)' \cap T = (RowsOf(l) \cap T) \cup {r}
            /\ r \notin RowsOf(l) \cap T
        BY <1>2, <3>2 DEF RowsOf
      <4>2. Cardinality(RowsOf(l)' \cap T) = Cardinality(RowsOf(l) \cap T) + 1
        BY <3>1, <4>1, FS_AddElement
      <4> QED
        BY <2>2, <3>1, <3>2, <4>2
    <3>3. CASE ~ (r \in T /\ ListOf[r] = l)
      <4>1. RowsOf(l)' \cap T = RowsOf(l) \cap T
        BY <1>2, <3>3 DEF RowsOf
      <4> QED
        BY <2>2, <4>1
    <3> QED
      BY <3>2, <3>3
  <2>3. r \in Item <=> r \notin Food
    BY IdsAssumption DEF Row
  <2>4. Cardinality(RowsOf(l)' \cap Item) <= ItemCap
    BY <2>1, <2>2, <2>3, CapsAssumption
  <2>5. Cardinality(RowsOf(l)' \cap Food) <= FoodCap
    BY <2>1, <2>2, <2>3, CapsAssumption
  <2> QED
    BY <2>4, <2>5
<1> QED
  BY <1>3, <1>4, <1>5, <1>6, <1>7, <1>8

\* What every move keeps but acyclic nesting, which the caller shows.
LEMMA AssignStep ==
  ASSUME PackInv, NEW r \in Row, NEW p \in Loc \cup {NULL}, Assign(r, p),
         p # NULL => p \in locs /\ ListOf[p] = ListOf[r],
         worn' \subseteq rows \cap Item,
         NestingAcyclic'
  PROVE  PackInv'
<1> USE DEF PackInv
<1>1. /\ r \in rows /\ loc' = [loc EXCEPT ![r] = p]
      /\ UNCHANGED <<lists, rows, locs, container, doomed>>
  BY DEF Assign
<1>2. CASE p = loc[r] /\ UNCHANGED rank
  <2>1. loc' = loc
    BY <1>1, <1>2 DEF TypeOK
  <2>2. TypeOK' /\ CohortRanksUnique' /\ RanksInRange' /\ ReferencesHold'
    BY <1>1, <1>2, <2>1
    DEF TypeOK, CohortRanksUnique, RanksInRange, ReferencesHold, SameCohort, SameTable
  <2> QED
    BY <1>1, <2>2, CapsKept
<1>3. CASE p # loc[r]
  <2>1. PICK n \in 0 .. RankMax : /\ IsNextUnionPackRank(n, ListOf[r], p)
                                  /\ rank' = [rank EXCEPT ![r] = n]
    BY <1>3 DEF Assign
  <2>2. TypeOK' /\ RanksInRange' /\ ReferencesHold'
    BY <1>1, <2>1, CapsAssumption DEF TypeOK, RanksInRange, ReferencesHold
  <2>3. CohortRanksUnique'
    <3> SUFFICES ASSUME NEW s \in rows, NEW t \in rows, s # t,
                        SameTable(s, t), SameCohort(s, t)'
                 PROVE  rank'[s] # rank'[t]
      BY <1>1 DEF CohortRanksUnique, SameTable
    <3>1. \A q \in rows : ListOf[q] = ListOf[r] /\ loc[q] = p => rank[q] < n
      BY <2>1 DEF IsNextUnionPackRank, IsNextRank, Cohort
    <3>2. CASE s # r /\ t # r
      BY <1>1, <2>1, <3>2 DEF CohortRanksUnique, SameCohort, TypeOK
    <3>3. CASE s = r \/ t = r
      BY <1>1, <2>1, <3>1, <3>3, CapsAssumption DEF SameCohort, TypeOK
    <3> QED
      BY <3>2, <3>3
  <2> QED
    BY <1>1, <2>2, <2>3, CapsKept
<1> QED
  BY <1>2, <1>3 DEF Assign

\* The location gate is what keeps nesting acyclic.  Were item i in a cycle A
\* after the move, the items of A among the ancestors of its new bag would
\* have been a cycle before it: i itself is not one of those ancestors.
LEMMA UpdateItemStep ==
  ASSUME PackInv, NEW i \in Item, NEW p \in Loc \cup {NULL}, NEW w \in BOOLEAN,
         UpdateItem(i, p, w)
  PROVE  PackInv'
<1> USE DEF PackInv
<1>1. /\ i \in rows /\ loc' = [loc EXCEPT ![i] = p]
      /\ rows' = rows /\ container' = container /\ locs' = locs
  BY DEF UpdateItem, Assign
<1>2. NestingAcyclic'
  <2> SUFFICES ASSUME NEW A \in SUBSET (rows \cap Item), A # {},
                      \A a \in A : loc'[a] # NULL /\ container[loc'[a]] \in A
               PROVE  FALSE
    BY <1>1 DEF NestingAcyclic
  <2>1. \A a \in A : a # i => loc[a] # NULL /\ container[loc[a]] \in A
    BY <1>1 DEF TypeOK
  <2>2. i \in A
    BY <2>1 DEF NestingAcyclic
  <2>3. p # NULL /\ container[p] \in A /\ container[p] # NULL
    BY <1>1, <2>2, IdFacts DEF TypeOK
  <2>4. PICK Anc \in SUBSET Item : /\ ClosedUnderParent(Anc)
                                   /\ container[p] \in Anc
                                   /\ i \notin Anc
    BY <2>3 DEF UpdateItem, ItemMayEnter, ContainerAncestors
  <2>5. \A a \in A \cap Anc : loc[a] # NULL /\ container[loc[a]] \in A \cap Anc
    BY <2>1, <2>4, IdFacts DEF ClosedUnderParent
  <2>6. A \cap Anc \in SUBSET (rows \cap Item) /\ A \cap Anc # {}
    BY <2>3, <2>4
  <2> QED
    BY <2>5, <2>6 DEF NestingAcyclic
<1>3. worn' \subseteq rows \cap Item
  BY <1>1 DEF UpdateItem, TypeOK
<1> QED
  BY <1>2, <1>3, AssignStep, IdFacts DEF UpdateItem, ItemMayEnter

LEMMA UpdateFoodStep ==
  ASSUME PackInv, NEW f \in Food, NEW p \in Loc \cup {NULL}, UpdateFood(f, p)
  PROVE  PackInv'
<1> USE DEF PackInv
<1>1. /\ f \in Row /\ f \notin Item /\ Assign(f, p)
      /\ loc' = [loc EXCEPT ![f] = p] /\ worn' = worn
      /\ rows' = rows /\ container' = container
  BY IdsAssumption, IdFacts DEF UpdateFood, Assign
<1>2. \A a \in rows' \cap Item :
           \/ loc'[a] = NULL
           \/ a \in rows /\ loc[a] # NULL /\ container'[loc'[a]] = container[loc[a]]
  BY <1>1 DEF TypeOK
<1>3. NestingAcyclic'
  BY <1>2, NestingKept
<1>4. worn' \subseteq rows \cap Item
  BY <1>1 DEF TypeOK
<1> QED
  BY <1>1, <1>3, <1>4, AssignStep DEF UpdateFood

\* The payload check is all that a reorder needs.
LEMMA ReorderPackStep ==
  ASSUME PackInv, NEW T \in SUBSET rows, ReorderPack(T)
  PROVE  PackInv'
<1> USE DEF PackInv
<1>1. PICK to \in [T -> 0 .. RankMax] :
        /\ IndexSafe(to)
        /\ rank' = [r \in Row |-> IF r \in T THEN to[r] ELSE rank[r]]
  BY DEF ReorderPack
<1>2. /\ UNCHANGED <<lists, rows, locs, loc, worn, container, doomed>>
      /\ \A r, s \in T : SameCohort(r, s)
  BY DEF ReorderPack
<1>3. TypeOK' /\ RanksInRange' /\ ReferencesHold'
  BY <1>1, <1>2, CapsAssumption DEF TypeOK, RanksInRange, ReferencesHold
<1>4. CohortRanksUnique'
  <2> SUFFICES ASSUME NEW r \in rows, NEW s \in rows, r # s,
                      SameTable(r, s), SameCohort(r, s)
               PROVE  rank'[r] # rank'[s]
    BY <1>2 DEF CohortRanksUnique, SameTable, SameCohort
  <2>1. DOMAIN to = T /\ r \in Row /\ s \in Row
    BY DEF TypeOK
  <2>2. SameTable(s, r) /\ SameCohort(s, r)
    BY DEF SameTable, SameCohort
  <2>3. CASE r \in T
    BY <1>1, <2>1, <2>3 DEF IndexSafe
  <2>4. CASE s \in T
    BY <1>1, <2>1, <2>2, <2>4 DEF IndexSafe
  <2>5. CASE r \notin T /\ s \notin T
    BY <1>1, <2>1, <2>5 DEF CohortRanksUnique
  <2> QED
    BY <2>3, <2>4, <2>5
<1>5. NestingAcyclic'
  BY <1>2 DEF NestingAcyclic
<1> QED
  BY <1>2, <1>3, <1>4, <1>5, CapsKept

\* No row lies in a location that does not exist yet.
LEMMA CreateLocationStep ==
  ASSUME PackInv, NEW p \in Loc, NEW c \in Item \cup {NULL}, CreateLocation(p, c)
  PROVE  PackInv'
<1> USE DEF PackInv
<1>1. /\ p \notin locs /\ locs' = locs \cup {p} /\ ListOf[p] \in lists
      /\ container' = [container EXCEPT ![p] = c]
      /\ UNCHANGED <<lists, rows, loc, rank, worn, doomed>>
      /\ c # NULL => /\ c \in rows \cap Item /\ ListOf[c] = ListOf[p]
                     /\ \A q \in locs : container[q] # c
  BY DEF CreateLocation
<1>2. TypeOK' /\ RanksInRange' /\ CohortRanksUnique'
  BY <1>1 DEF TypeOK, RanksInRange, CohortRanksUnique, SameCohort, SameTable
<1>3. ReferencesHold'
  BY <1>1 DEF ReferencesHold, TypeOK
<1>4. \A a \in rows' \cap Item :
           \/ loc'[a] = NULL
           \/ a \in rows /\ loc[a] # NULL /\ container'[loc'[a]] = container[loc[a]]
  BY <1>1 DEF ReferencesHold, TypeOK
<1> QED
  BY <1>1, <1>2, <1>3, <1>4, CapsKept, NestingKept

LEMMA RemoveLocationStep ==
  ASSUME PackInv, NEW p \in Loc, RemoveLocation(p)
  PROVE  PackInv'
<1> USE DEF PackInv
<1> DEFINE l == ListOf[p]
           U == Cohort(l, NULL)
           S == Cohort(l, p)
<1>1. PICK base \in 0 .. RankMax + 1 :
        /\ IsNextRank(base, U)
        /\ rank' = [r \in Row |-> AppendOrDense(r, U, S, base)]
  BY DEF RemoveLocation
<1>2. /\ p \in locs /\ l \in List
      /\ loc' = [r \in Row |-> IF r \in S THEN NULL ELSE loc[r]]
      /\ locs' = locs \ {p}
      /\ container' = [container EXCEPT ![p] = NULL]
      /\ UNCHANGED <<lists, rows, worn, doomed>>
  BY OwnersAssumption DEF RemoveLocation
<1>3. \A r \in Row : /\ r \in U <=> r \in rows /\ ListOf[r] = l /\ loc[r] = NULL
                     /\ r \in S <=> r \in rows /\ ListOf[r] = l /\ loc[r] = p
  BY DEF Cohort
<1>4. Emptying(l, U, S, base)
  <2>1. U \cap S = {}
    BY IdFacts DEF Cohort
  <2>2. \A r, s \in U : r # s /\ SameTable(r, s) => rank[r] # rank[s]
    BY DEF Cohort, CohortRanksUnique, SameCohort
  <2> QED
    BY <1>1, <2>1, <2>2 DEF Emptying, Cohort, RowsOf
<1>5. /\ \A r \in Row : rank'[r] \in Int
      /\ \A r \in rows : rank'[r] \in 0 .. RankMax
      /\ \A r \in Row \ (U \cup S) : rank'[r] = rank[r]
      /\ \A r, s \in U \cup S : r # s /\ SameTable(r, s) => rank'[r] # rank'[s]
  <2>1. /\ \A r \in Row : AppendOrDense(r, U, S, base) \in Int
        /\ \A r \in rows : AppendOrDense(r, U, S, base) \in 0 .. RankMax
        /\ \A r \in Row \ (U \cup S) : AppendOrDense(r, U, S, base) = rank[r]
        /\ \A r, s \in U \cup S : r # s /\ SameTable(r, s) =>
              AppendOrDense(r, U, S, base) # AppendOrDense(s, U, S, base)
    BY <1>2, <1>4, AppendOrDenseFacts
  <2>2. rows \subseteq Row /\ U \cup S \subseteq Row
    BY DEF TypeOK, Cohort
  <2> QED
    BY <1>1, <2>1, <2>2
<1> HIDE DEF U, S
<1>6. TypeOK' /\ RanksInRange'
  <2>1. rank' \in [Row -> Int]
    BY <1>1, <1>5
  <2>2. loc' \in [Row -> Loc \cup {NULL}] /\ container' \in [Loc -> Item \cup {NULL}]
    BY <1>2 DEF TypeOK
  <2> QED
    BY <1>2, <1>5, <2>1, <2>2 DEF TypeOK, RanksInRange
<1>7. ReferencesHold'
  BY <1>2, <1>3 DEF ReferencesHold, TypeOK
<1>8. CohortRanksUnique'
  <2> SUFFICES ASSUME NEW r \in rows, NEW s \in rows, r # s,
                      SameTable(r, s), SameCohort(r, s)'
               PROVE  rank'[r] # rank'[s]
    BY <1>2 DEF CohortRanksUnique, SameTable
  <2>1. r \in Row /\ s \in Row
    BY DEF TypeOK
  <2>2. CASE r \in U \cup S \/ s \in U \cup S
    BY <1>2, <1>3, <1>5, <2>1, <2>2 DEF SameCohort
  <2>3. CASE r \notin U \cup S /\ s \notin U \cup S
    BY <1>2, <1>5, <2>1, <2>3 DEF SameCohort, CohortRanksUnique
  <2> QED
    BY <2>2, <2>3
<1>9. \A a \in rows' \cap Item :
           \/ loc'[a] = NULL
           \/ a \in rows /\ loc[a] # NULL /\ container'[loc'[a]] = container[loc[a]]
  BY <1>2, <1>3 DEF TypeOK, ReferencesHold
<1> QED
  BY <1>2, <1>6, <1>7, <1>8, <1>9, CapsKept, NestingKept

LEMMA DeleteFoodStep ==
  ASSUME PackInv, NEW f \in Food, DeleteFood(f)
  PROVE  PackInv'
<1> USE DEF PackInv
<1>1. /\ f \in Row /\ f \notin Item /\ rows' = rows \ {f} /\ doomed = {}
      /\ loc' = [loc EXCEPT ![f] = NULL]
      /\ rank' = [rank EXCEPT ![f] = 0]
      /\ UNCHANGED <<lists, locs, worn, container, doomed>>
  BY IdsAssumption, IdFacts DEF DeleteFood, Idle
<1>2. TypeOK'
  BY <1>1 DEF TypeOK
<1>3. RanksInRange' /\ ReferencesHold'
  BY <1>1 DEF TypeOK, RanksInRange, ReferencesHold
<1>4. CohortRanksUnique'
  BY <1>1 DEF TypeOK, CohortRanksUnique, SameCohort, SameTable
<1>5. \A a \in rows' \cap Item :
           \/ loc'[a] = NULL
           \/ a \in rows /\ loc[a] # NULL /\ container'[loc'[a]] = container[loc[a]]
  BY <1>1 DEF TypeOK
<1> QED
  BY <1>1, <1>2, <1>3, <1>4, <1>5, CapsKept, NestingKept

LEMMA StartDeleteStep ==
  ASSUME PackInv, NEW D \in SUBSET (rows \cap Item), StartDelete(D)
  PROVE  PackInv'
<1>1. doomed' = D /\ UNCHANGED <<lists, rows, locs, loc, rank, worn, container>>
  BY DEF StartDelete
<1>2. TypeOK' /\ RanksInRange' /\ ReferencesHold' /\ CohortRanksUnique'
  BY <1>1 DEF PackInv, TypeOK, RanksInRange, ReferencesHold, CohortRanksUnique,
              SameCohort, SameTable
<1>3. NestingAcyclic'
  BY <1>1 DEF PackInv, NestingAcyclic
<1> QED
  BY <1>1, <1>2, <1>3, CapsKept DEF PackInv

\* The rows a cascade empties out of a location lay in one cohort, that of the
\* one location the deleted item backs.
LEMMA CascadeItemStep ==
  ASSUME PackInv, NEW i \in Item, CascadeItem(i)
  PROVE  PackInv'
<1> USE DEF PackInv
<1> DEFINE l    == ListOf[i]
           left == rows \ {i}
           P    == {p \in locs : container[p] = i}
           U(T) == {r \in left \cap T : ListOf[r] = l /\ loc[r] = NULL}
           S(T) == {r \in left \cap T : loc[r] \in P}
<1>1. PICK g \in 0 .. RankMax + 1, f \in 0 .. RankMax + 1 :
        /\ IsNextRank(g, U(Item))
        /\ IsNextRank(f, U(Food))
        /\ rank' = [r \in Row |->
             CASE r = i      -> 0
               [] r \in Food -> Rerank(r, U(Food), S(Food), f)
               [] OTHER      -> Rerank(r, U(Item), S(Item), g)]
  BY DEF CascadeItem
<1>2. /\ doomed' = doomed \ {i} /\ rows' = left /\ worn' = worn \ {i}
      /\ loc' = [r \in Row |->
                   IF r = i \/ r \in S(Item) \cup S(Food) THEN NULL ELSE loc[r]]
      /\ locs' = locs \ P
      /\ container' = [p \in Loc |-> IF p \in P THEN NULL ELSE container[p]]
      /\ UNCHANGED lists
  BY DEF CascadeItem
<1>3. i \in rows /\ i \in Row /\ l \in List
  BY OwnersAssumption, IdFacts DEF CascadeItem, TypeOK
<1>4. \A r \in rows : loc[r] \in P => ListOf[r] = l /\ loc[r] # NULL
  <2>1. i # NULL /\ NULL \notin locs
    BY IdFacts DEF TypeOK
  <2>2. \A p \in P : ListOf[p] = l
    BY <2>1 DEF ReferencesHold
  <2> QED
    BY <2>1, <2>2 DEF ReferencesHold
<1>5. \A p, q \in P : p = q
  BY IdFacts DEF ReferencesHold
<1>6. ASSUME NEW T \in {Item, Food}, NEW base \in 0 .. RankMax + 1,
             IsNextRank(base, U(T))
      PROVE  /\ \A r \in Row : Rerank(r, U(T), S(T), base) \in Int
             /\ \A r \in rows : Rerank(r, U(T), S(T), base) \in 0 .. RankMax
             /\ \A r \in Row \ (U(T) \cup S(T)) : Rerank(r, U(T), S(T), base) = rank[r]
             /\ \A r, s \in U(T) \cup S(T) : r # s /\ SameTable(r, s) =>
                  Rerank(r, U(T), S(T), base) # Rerank(s, U(T), S(T), base)
  <2>1. Emptying(l, U(T), S(T), base)
    <3>1. U(T) \subseteq RowsOf(l) /\ S(T) \subseteq RowsOf(l) /\ U(T) \cap S(T) = {}
      BY <1>4 DEF RowsOf
    <3>2. \A r, s \in U(T) : r # s /\ SameTable(r, s) => rank[r] # rank[s]
      BY DEF CohortRanksUnique, SameCohort
    <3> QED
      BY <1>6, <3>1, <3>2 DEF Emptying
  <2>2. \A r, s \in S(T) : r # s /\ SameTable(r, s) => rank[r] # rank[s]
    BY <1>4, <1>5 DEF CohortRanksUnique, SameCohort
  <2> HIDE DEF U, S
  <2> QED
    BY <1>3, <2>1, <2>2, RerankFacts
<1>7. \A r \in Row :
        /\ r \in U(Item) <=> r \in left /\ r \in Item /\ ListOf[r] = l /\ loc[r] = NULL
        /\ r \in U(Food) <=> r \in left /\ r \in Food /\ ListOf[r] = l /\ loc[r] = NULL
        /\ r \in S(Item) <=> r \in left /\ r \in Item /\ loc[r] \in P
        /\ r \in S(Food) <=> r \in left /\ r \in Food /\ loc[r] \in P
  OBVIOUS
<1>8. left \subseteq Row /\ \A r \in Row : r \in Item <=> r \notin Food
  BY IdsAssumption DEF TypeOK, Row
<1> HIDE DEF U, S
<1>9. /\ \A r \in Row : rank'[r] \in Int
      /\ \A r \in left : rank'[r] \in 0 .. RankMax
      /\ \A r \in left : r \notin U(Item) \cup S(Item) \cup U(Food) \cup S(Food)
            => rank'[r] = rank[r]
      /\ \A r, s \in left :
           /\ r \in U(Item) \cup S(Item) \/ r \in U(Food) \cup S(Food)
           /\ s \in U(Item) \cup S(Item) \/ s \in U(Food) \cup S(Food)
           /\ r # s /\ SameTable(r, s)
           => rank'[r] # rank'[s]
  <2>1. \A r \in Row : rank'[r] = IF r = i THEN 0
                                  ELSE IF r \in Food THEN Rerank(r, U(Food), S(Food), f)
                                  ELSE Rerank(r, U(Item), S(Item), g)
    <3>1. i \notin Food
      BY IdsAssumption
    <3> QED
      BY <1>1, <3>1
  <2>2. /\ \A r \in Row : Rerank(r, U(Item), S(Item), g) \in Int
        /\ \A r \in rows : Rerank(r, U(Item), S(Item), g) \in 0 .. RankMax
        /\ \A r \in Row \ (U(Item) \cup S(Item)) : Rerank(r, U(Item), S(Item), g) = rank[r]
        /\ \A r, s \in U(Item) \cup S(Item) : r # s /\ SameTable(r, s) =>
             Rerank(r, U(Item), S(Item), g) # Rerank(s, U(Item), S(Item), g)
    BY <1>1, <1>6
  <2>3. /\ \A r \in Row : Rerank(r, U(Food), S(Food), f) \in Int
        /\ \A r \in rows : Rerank(r, U(Food), S(Food), f) \in 0 .. RankMax
        /\ \A r \in Row \ (U(Food) \cup S(Food)) : Rerank(r, U(Food), S(Food), f) = rank[r]
        /\ \A r, s \in U(Food) \cup S(Food) : r # s /\ SameTable(r, s) =>
             Rerank(r, U(Food), S(Food), f) # Rerank(s, U(Food), S(Food), f)
    BY <1>1, <1>6
  <2>4. \A r, s \in left : SameTable(r, s) => (r \in Food <=> s \in Food)
    BY <1>8 DEF SameTable
  <2> QED
    BY <1>7, <1>8, <2>1, <2>2, <2>3, <2>4
<1>10. TypeOK'
  <2>1. rank' \in [Row -> Int]
    BY <1>1, <1>9
  <2>2. loc' \in [Row -> Loc \cup {NULL}] /\ container' \in [Loc -> Item \cup {NULL}]
    BY <1>2 DEF TypeOK
  <2> QED
    BY <1>2, <2>1, <2>2 DEF TypeOK
<1>11. RanksInRange'
  BY <1>2, <1>9 DEF RanksInRange
<1>12. \A r \in left : loc'[r] = IF loc[r] \in P THEN NULL ELSE loc[r]
  BY <1>2, <1>7, <1>8
<1>13. ReferencesHold'
  <2>1. \A p \in locs \ P : container'[p] = container[p] /\ container[p] # i
    BY <1>2 DEF TypeOK
  <2> QED
    BY <1>2, <1>12, <2>1 DEF ReferencesHold
<1>14. CohortRanksUnique'
  <2> SUFFICES ASSUME NEW r \in left, NEW s \in left, r # s,
                      SameTable(r, s), SameCohort(r, s)'
               PROVE  rank'[r] # rank'[s]
    BY <1>2 DEF CohortRanksUnique, SameTable
  <2> DEFINE In(x) == \/ x \in U(Item) \cup S(Item)
                      \/ x \in U(Food) \cup S(Food)
  <2>1. ListOf[r] = ListOf[s] /\ loc'[r] = loc'[s]
    BY DEF SameCohort
  <2>2. \A x \in left : In(x) <=> loc'[x] = NULL /\ ListOf[x] = l
    BY <1>4, <1>7, <1>8, <1>12
  <2>3. CASE In(r) \/ In(s)
    BY <1>9, <2>1, <2>2, <2>3
  <2>4. CASE ~ In(r) /\ ~ In(s)
    <3>1. rank'[r] = rank[r] /\ rank'[s] = rank[s]
      BY <1>9, <2>4
    <3>2. loc'[r] = loc[r] /\ loc'[s] = loc[s]
      BY <1>4, <1>7, <1>8, <1>12, <2>4
    <3> QED
      BY <2>1, <3>1, <3>2 DEF CohortRanksUnique, SameCohort
  <2> QED
    BY <2>3, <2>4
<1>15. \A a \in rows' \cap Item :
           \/ loc'[a] = NULL
           \/ a \in rows /\ loc[a] # NULL /\ container'[loc'[a]] = container[loc[a]]
  BY <1>2, <1>12 DEF TypeOK
<1> QED
  BY <1>2, <1>10, <1>11, <1>13, <1>14, <1>15, CapsKept, NestingKept

\* Rows outside a deleted list neither lie in its locations nor back them.
LEMMA RemoveListStep ==
  ASSUME PackInv, NEW l \in List, RemoveList(l)
  PROVE  PackInv'
<1> USE DEF PackInv
<1>1. /\ lists' = lists \ {l}
      /\ rows' = rows \ RowsOf(l)
      /\ locs' = locs \ LocsOf(l)
      /\ loc' = [r \in Row |-> IF r \in RowsOf(l) THEN NULL ELSE loc[r]]
      /\ rank' = [r \in Row |-> IF r \in RowsOf(l) THEN 0 ELSE rank[r]]
      /\ worn' = worn \ RowsOf(l)
      /\ container' = [p \in Loc |-> IF p \in LocsOf(l) THEN NULL ELSE container[p]]
      /\ doomed = {} /\ doomed' = doomed
  BY DEF RemoveList, Idle
<1>2. /\ \A r : r \in RowsOf(l) <=> r \in rows /\ ListOf[r] = l
      /\ \A p : p \in LocsOf(l) <=> p \in locs /\ ListOf[p] = l
  BY DEF RowsOf, LocsOf
<1>3. TypeOK'
  BY <1>1 DEF TypeOK
<1>4. \A r \in rows' : loc'[r] = loc[r] /\ rank'[r] = rank[r]
  BY <1>1 DEF TypeOK
<1>5. RanksInRange' /\ CohortRanksUnique'
  BY <1>1, <1>4 DEF RanksInRange, CohortRanksUnique, SameCohort, SameTable
<1>6. ReferencesHold'
  BY <1>1, <1>2, <1>4 DEF ReferencesHold, TypeOK
<1>7. \A a \in rows' \cap Item :
           \/ loc'[a] = NULL
           \/ a \in rows /\ loc[a] # NULL /\ container'[loc'[a]] = container[loc[a]]
  BY <1>1, <1>2, <1>4 DEF ReferencesHold, TypeOK
<1> QED
  BY <1>1, <1>3, <1>5, <1>6, <1>7, CapsKept, NestingKept

\* A new list starts with as many ranks as rows.
LEMMA NewListStep ==
  ASSUME PackInv, NEW l \in List, NEW ord \in DenseOrders(l),
         NEW W \in SUBSET DOMAIN ord, NewList(l, ord, W)
  PROVE  PackInv'
<1> USE DEF PackInv
<1> DEFINE T == DOMAIN ord
<1>1. /\ T \in SUBSET Item /\ \A i \in T : ListOf[i] = l
      /\ Cardinality(T) <= ItemCap
      /\ ord \in [T -> 0 .. Cardinality(T) - 1]
      /\ \A r, s \in T : ord[r] = ord[s] => r = s
  BY DEF DenseOrders
<1>2. /\ l \notin lists /\ lists' = lists \cup {l}
      /\ rows' = rows \cup T
      /\ rank' = [r \in Row |-> IF r \in T THEN ord[r] ELSE rank[r]]
      /\ loc' = [r \in Row |-> IF r \in T THEN NULL ELSE loc[r]]
      /\ worn' = worn \cup W
      /\ UNCHANGED <<locs, container, doomed>>
  BY DEF NewList
<1> HIDE DEF T
<1>3. /\ IsFiniteSet(T) /\ Cardinality(T) \in Nat
      /\ \A r \in T : ord[r] \in 0 .. RankMax
  <2>1. IsFiniteSet(T) /\ Cardinality(T) \in Nat
    BY <1>1, IdsAssumption, FS_Subset, FS_CardinalityType
  <2> QED
    BY <1>1, <2>1, CapsAssumption
<1>4. T \cap rows = {} /\ T \subseteq Row
  <2>1. \A x \in rows : ListOf[x] # l
    BY <1>2 DEF ReferencesHold
  <2> QED
    BY <1>1, <2>1, IdFacts
<1>5. /\ \A r \in T : rank'[r] = ord[r] /\ loc'[r] = NULL
      /\ \A r \in rows : rank'[r] = rank[r] /\ loc'[r] = loc[r]
  BY <1>2, <1>4 DEF TypeOK
<1>6. TypeOK'
  <2>1. rank' \in [Row -> Int]
    BY <1>2, <1>3 DEF TypeOK
  <2> QED
    BY <1>1, <1>2, <1>4, <2>1 DEF TypeOK, T
<1>7. RanksInRange'
  BY <1>2, <1>3, <1>5 DEF RanksInRange
<1>8. ReferencesHold'
  BY <1>1, <1>2, <1>5 DEF ReferencesHold
<1>9. CohortRanksUnique'
  <2>1. \A r \in rows : ListOf[r] # l
    BY <1>2 DEF ReferencesHold
  <2> QED
    BY <1>1, <1>2, <1>5, <2>1 DEF CohortRanksUnique, SameCohort, SameTable
<1>10. \A a \in rows' \cap Item :
           \/ loc'[a] = NULL
           \/ a \in rows /\ loc[a] # NULL /\ container'[loc'[a]] = container[loc[a]]
  BY <1>2, <1>5
<1>11. RowCaps'
  <2> SUFFICES ASSUME NEW k \in List
               PROVE  /\ Cardinality(RowsOf(k)' \cap Item) <= ItemCap
                      /\ Cardinality(RowsOf(k)' \cap Food) <= FoodCap
    BY DEF RowCaps
  <2>1. CASE k = l
    <3>1. RowsOf(k)' \cap Item = T /\ RowsOf(k)' \cap Food = {}
      BY <1>1, <1>2, <2>1, IdsAssumption DEF RowsOf, ReferencesHold
    <3>2. Cardinality({}) = 0 /\ Cardinality(T) <= ItemCap /\ 0 <= FoodCap
      BY <1>1, FS_EmptySet, CapsAssumption
    <3>3. /\ Cardinality(RowsOf(k)' \cap Item) = Cardinality(T)
          /\ Cardinality(RowsOf(k)' \cap Food) = 0
      BY <3>1, <3>2
    <3> QED
      BY <3>2, <3>3
  <2>2. CASE k # l
    <3>1. RowsOf(k)' = RowsOf(k)
      BY <1>1, <1>2, <2>2 DEF RowsOf
    <3> QED
      BY <3>1 DEF RowCaps
  <2> QED
    BY <2>1, <2>2
<1> QED
  BY <1>6, <1>7, <1>8, <1>9, <1>10, <1>11, NestingKept

\* No list item at all is a numbering too.
LEMMA NoItemsOrder == \A l \in List : [r \in {} |-> 0] \in DenseOrders(l)
<1> TAKE l \in List
<1>1. Cardinality({}) = 0
  BY FS_EmptySet
<1>2. {} \in {T \in SUBSET Item : /\ \A i \in T : ListOf[i] = l
                                  /\ Cardinality(T) <= ItemCap}
  BY <1>1, CapsAssumption
<1>3. [r \in {} |-> 0] \in {ord \in [{} -> 0 .. Cardinality({}) - 1] :
                              \A r, s \in {} : ord[r] = ord[s] => r = s}
  OBVIOUS
<1> QED
  BY <1>2, <1>3 DEF DenseOrders

\* The copies of a list are as many as its rows, and the re-pointed bags of the
\* copies nest as the original ones do.
LEMMA DuplicateStep ==
  ASSUME PackInv, NEW l \in lists, NEW m \in List \ lists, NEW orig \in Copies(l, m),
         Duplicate(l, m, orig)
  PROVE  PackInv'
<1> USE DEF PackInv
<1> DEFINE T == DOMAIN orig
           Of == RowsOf(l) \cup LocsOf(l)
<1>1. /\ T \in SUBSET {y \in Row \cup Loc : ListOf[y] = m}
      /\ orig \in [T -> Of]
      /\ \A x \in Of : \E y \in T : orig[y] = x
      /\ \A x, y \in T : orig[x] = orig[y] => x = y
      /\ \A y \in T : /\ y \in Item <=> orig[y] \in Item
                      /\ y \in Food <=> orig[y] \in Food
  BY DEF Copies
<1>2. /\ lists' = lists \cup {m}
      /\ rows' = rows \cup (T \cap Row)
      /\ locs' = locs \cup (T \cap Loc)
      /\ rank' = [r \in Row |-> IF r \in T THEN rank[orig[r]] ELSE rank[r]]
      /\ loc' = [r \in Row |-> IF r \in T THEN CopyOf(loc[orig[r]], orig) ELSE loc[r]]
      /\ worn' = worn \cup {i \in T \cap Item : orig[i] \in worn}
      /\ container' = [p \in Loc |-> IF p \in T THEN CopyOf(container[orig[p]], orig)
                                         ELSE container[p]]
      /\ UNCHANGED doomed
  BY DEF Duplicate
<1>3. /\ \A x \in Of : CopyOf(x, orig) \in T /\ orig[CopyOf(x, orig)] = x
      /\ CopyOf(NULL, orig) = NULL
  <2>1. \A x \in Of : x # NULL
    BY IdFacts DEF RowsOf, LocsOf, TypeOK
  <2> QED
    BY <1>1, <2>1 DEF CopyOf
<1> HIDE DEF T
<1>4. /\ \A x : x \in Of <=> x \in rows \cup locs /\ ListOf[x] = l
      /\ \A x \in Of : x \in Row \cup Loc
      /\ Row \cap Loc = {}
      /\ \A x \in Row : x \in Item <=> x \notin Food
  BY IdsAssumption DEF RowsOf, LocsOf, TypeOK, Row
<1> HIDE DEF Of
<1>5. \A y \in T : /\ y \in Row => orig[y] \in rows /\ ListOf[orig[y]] = l
                   /\ y \in Loc => orig[y] \in locs /\ ListOf[orig[y]] = l
                   /\ ListOf[y] = m /\ y \notin rows /\ y \notin locs
                   /\ y \in Item => orig[y] \in rows \cap Item
  <2>1. rows \subseteq Row /\ locs \subseteq Loc /\ Row = Item \cup Food
    BY DEF TypeOK, Row
  <2>2. \A x \in rows \cup locs : ListOf[x] # m
    BY DEF ReferencesHold
  <2> QED
    BY <1>1, <1>4, <2>1, <2>2
<1>6. \A r \in T \cap Row :
        /\ loc[orig[r]] = NULL => loc'[r] = NULL
        /\ loc[orig[r]] # NULL =>
             loc'[r] \in T \cap Loc /\ orig[loc'[r]] = loc[orig[r]]
  <2> SUFFICES ASSUME NEW r \in T \cap Row, loc[orig[r]] # NULL
               PROVE  loc'[r] \in T \cap Loc /\ orig[loc'[r]] = loc[orig[r]]
    BY <1>2, <1>3
  <2>1. loc[orig[r]] \in Of /\ loc[orig[r]] \in Loc
    BY <1>4, <1>5 DEF ReferencesHold, TypeOK
  <2>2. loc'[r] \in T /\ orig[loc'[r]] = loc[orig[r]]
    BY <1>2, <1>3, <2>1
  <2>3. loc'[r] \in Row \cup Loc /\ loc'[r] \notin Row
    BY <1>1, <1>4, <1>5, <2>1, <2>2 DEF TypeOK
  <2> QED
    BY <2>2, <2>3
<1>7. \A p \in T \cap Loc :
        /\ container[orig[p]] = NULL => container'[p] = NULL
        /\ container[orig[p]] # NULL =>
             container'[p] \in T \cap Item /\ orig[container'[p]] = container[orig[p]]
  <2> SUFFICES ASSUME NEW p \in T \cap Loc, container[orig[p]] # NULL
               PROVE  /\ container'[p] \in T \cap Item
                      /\ orig[container'[p]] = container[orig[p]]
    BY <1>2, <1>3
  <2>1. container[orig[p]] \in Of /\ container[orig[p]] \in Item
    BY <1>4, <1>5 DEF ReferencesHold
  <2> QED
    BY <1>1, <1>2, <1>3, <2>1
<1>8. /\ \A r \in rows : rank'[r] = rank[r] /\ loc'[r] = loc[r]
      /\ \A r \in T \cap Row : rank'[r] = rank[orig[r]]
      /\ \A p \in locs : container'[p] = container[p]
      /\ \A p \in T \cap Loc : p \in Loc
  BY <1>2, <1>5 DEF TypeOK
<1>9. TypeOK'
  <2>1. rank' \in [Row -> Int]
    BY <1>2, <1>5 DEF TypeOK
  <2>2. loc' \in [Row -> Loc \cup {NULL}]
    BY <1>2, <1>6 DEF TypeOK
  <2>3. container' \in [Loc -> Item \cup {NULL}]
    BY <1>2, <1>7 DEF TypeOK
  <2>4. worn' \subseteq rows' \cap Item
    BY <1>2, IdFacts DEF TypeOK
  <2> QED
    BY <1>2, <2>1, <2>2, <2>3, <2>4 DEF TypeOK
<1>10. RanksInRange'
  BY <1>2, <1>5, <1>8 DEF RanksInRange
<1>11. ReferencesHold'
  <2>1. \A x \in rows' \cup locs' : ListOf[x] \in lists'
    BY <1>2, <1>5 DEF ReferencesHold
  <2>2. \A r \in rows' : loc'[r] # NULL => loc'[r] \in locs' /\ ListOf[loc'[r]] = ListOf[r]
    BY <1>2, <1>5, <1>6, <1>8 DEF ReferencesHold
  <2>3. \A p \in locs' : container'[p] # NULL =>
          container'[p] \in rows' \cap Item /\ ListOf[container'[p]] = ListOf[p]
    <3>1. \A p \in locs : container'[p] # NULL =>
            container'[p] \in rows \cap Item /\ ListOf[container'[p]] = ListOf[p]
      BY <1>8 DEF ReferencesHold
    <3>2. \A p \in T \cap Loc : container'[p] # NULL =>
            container'[p] \in T \cap Item /\ ListOf[container'[p]] = ListOf[p]
      BY <1>5, <1>7
    <3>3. locs' = locs \cup (T \cap Loc) /\ rows' = rows \cup (T \cap Row)
      BY <1>2
    <3>4. T \cap Item \subseteq T \cap Row
      BY IdFacts
    <3> QED
      BY <3>1, <3>2, <3>3, <3>4
  <2>4. \A p, q \in locs' : container'[p] = container'[q] /\ container'[p] # NULL => p = q
    <3>1. \A p \in locs : container'[p] # NULL => container'[p] \in rows
      BY <1>8 DEF ReferencesHold
    <3>2. \A p \in T \cap Loc : container'[p] # NULL =>
            container'[p] \in T /\ container[orig[p]] = orig[container'[p]]
                                /\ container[orig[p]] # NULL
      BY <1>7
    <3> QED
      BY <1>1, <1>2, <1>5, <1>8, <3>1, <3>2 DEF ReferencesHold
  <2> QED
    BY <2>1, <2>2, <2>3, <2>4 DEF ReferencesHold
<1>12. CohortRanksUnique'
  <2> SUFFICES ASSUME NEW r \in rows', NEW s \in rows', r # s,
                      SameTable(r, s), SameCohort(r, s)'
               PROVE  rank'[r] # rank'[s]
    BY DEF CohortRanksUnique, SameTable
  <2>1. CASE r \in rows /\ s \in rows
    BY <1>8, <2>1 DEF CohortRanksUnique, SameCohort
  <2>2. CASE r \in T /\ s \in T
    <3>1. r \in T \cap Row /\ s \in T \cap Row
      BY <1>2, <2>2 DEF TypeOK
    <3>2. /\ orig[r] \in rows /\ orig[s] \in rows /\ orig[r] # orig[s]
          /\ SameTable(orig[r], orig[s])
      BY <1>1, <1>5, <3>1 DEF SameTable
    <3>3. SameCohort(orig[r], orig[s])
      BY <1>5, <1>6, <3>1, IdFacts DEF SameCohort
    <3> QED
      BY <1>8, <3>1, <3>2, <3>3 DEF CohortRanksUnique
  <2>3. (r \in rows => ListOf[r] # m) /\ (s \in rows => ListOf[s] # m)
    BY DEF ReferencesHold
  <2> QED
    BY <1>2, <1>5, <2>1, <2>2, <2>3 DEF SameCohort
<1>13. RowCaps'
  <2>1. \A k \in List \ {m}, X \in {Item, Food} : RowsOf(k)' \cap X = RowsOf(k) \cap X
    BY <1>2, <1>5 DEF RowsOf
  <2>2. ASSUME NEW X \in {Item, Food}
        PROVE  /\ Cardinality(RowsOf(m)' \cap X) \in Nat
               /\ Cardinality(RowsOf(l) \cap X) \in Nat
               /\ Cardinality(RowsOf(m)' \cap X) <= Cardinality(RowsOf(l) \cap X)
    <3>1. RowsOf(m)' \cap X = T \cap X
      <4>1. \A x \in rows : ListOf[x] # m
        BY DEF ReferencesHold
      <4>2. X \subseteq Row
        BY IdFacts
      <4> QED
        BY <1>2, <1>5, <4>1, <4>2 DEF RowsOf
    <3>2. \A y \in T \cap X : orig[y] \in RowsOf(l) \cap X
      BY <1>1, <1>5, IdFacts DEF RowsOf
    <3>3. [y \in T \cap X |-> orig[y]] \in Injection(T \cap X, RowsOf(l) \cap X)
      BY <1>1, <3>2 DEF Injection, IsInjective
    <3>4. IsFiniteSet(RowsOf(l) \cap X)
      BY IdFacts, FS_Subset DEF RowsOf, TypeOK
    <3> QED
      BY <3>1, <3>3, <3>4, FS_Injection, FS_CardinalityType
  <2>3. \A k \in List : /\ Cardinality(RowsOf(k) \cap Item) <= ItemCap
                        /\ Cardinality(RowsOf(k) \cap Food) <= FoodCap
    BY DEF RowCaps
  <2>4. l \in List
    BY DEF TypeOK
  <2> SUFFICES ASSUME NEW k \in List
               PROVE  /\ Cardinality(RowsOf(k)' \cap Item) <= ItemCap
                      /\ Cardinality(RowsOf(k)' \cap Food) <= FoodCap
    BY DEF RowCaps
  <2>5. CASE k = m
    BY <2>2, <2>3, <2>4, <2>5, CapsAssumption
  <2>6. CASE k # m
    BY <2>1, <2>3, <2>6
  <2> QED
    BY <2>5, <2>6
<1>14. NestingAcyclic'
  <2> SUFFICES ASSUME NEW A \in SUBSET (rows' \cap Item), A # {},
                      \A a \in A : loc'[a] # NULL /\ container'[loc'[a]] \in A
               PROVE  FALSE
    BY DEF NestingAcyclic
  <2>1. \A a \in A \cap T : /\ loc[orig[a]] # NULL
                            /\ container[loc[orig[a]]] # NULL
                            /\ container'[loc'[a]] \in A \cap T
                            /\ orig[container'[loc'[a]]] = container[loc[orig[a]]]
    <3> TAKE a \in A \cap T
    <3>1. a \in T \cap Row /\ loc'[a] # NULL /\ container'[loc'[a]] \in A
      BY IdFacts
    <3>2. /\ loc[orig[a]] # NULL /\ loc'[a] \in T \cap Loc
          /\ orig[loc'[a]] = loc[orig[a]]
      BY <1>6, <3>1
    <3>3. container'[loc'[a]] # NULL
      BY <3>1, IdFacts
    <3> QED
      BY <1>7, <3>1, <3>2, <3>3
  <2>2. CASE A \cap T = {}
    <3>1. A \in SUBSET (rows \cap Item)
      BY <1>2, <2>2
    <3>2. \A a \in A : loc[a] # NULL /\ container[loc[a]] \in A
      BY <1>8, <3>1 DEF ReferencesHold
    <3> QED
      BY <3>1, <3>2 DEF NestingAcyclic
  <2>3. CASE A \cap T # {}
    <3> DEFINE B == {orig[a] : a \in A \cap T}
    <3>1. B \in SUBSET (rows \cap Item) /\ B # {}
      BY <1>5, <2>3
    <3>2. \A b \in B : loc[b] # NULL /\ container[loc[b]] \in B
      BY <2>1
    <3> QED
      BY <3>1, <3>2 DEF NestingAcyclic
  <2> QED
    BY <2>2, <2>3
<1> QED
  BY <1>9, <1>10, <1>11, <1>12, <1>13, <1>14

-----------------------------------------------------------------------------
(* The invariant and what follows from it                                  *)

\* Every action of the packing half keeps the invariant.
LEMMA NextStep == PackInv /\ [Next]_vars => PackInv'
<1> SUFFICES ASSUME PackInv, [Next]_vars PROVE PackInv'
  OBVIOUS
<1>1. CASE UNCHANGED vars
  <2>1. TypeOK' /\ RanksInRange' /\ ReferencesHold' /\ CohortRanksUnique'
    BY <1>1 DEF vars, PackInv, TypeOK, RanksInRange, ReferencesHold,
                CohortRanksUnique, SameCohort, SameTable
  <2>2. RowCaps' /\ NestingAcyclic'
    BY <1>1 DEF vars, PackInv, RowCaps, RowsOf, NestingAcyclic
  <2> QED
    BY <2>1, <2>2 DEF PackInv
<1>2. ASSUME NEW i \in Item, AddItem(i) PROVE PackInv'
  BY <1>2, IdFacts, AddRowStep DEF AddItem
<1>3. ASSUME NEW f \in Food, AddFood(f) PROVE PackInv'
  BY <1>3, IdFacts, AddRowStep DEF AddFood
<1>4. ASSUME NEW i \in Item, DeleteItem(i) PROVE PackInv'
  BY <1>4, StartDeleteStep DEF DeleteItem
<1>5. ASSUME NEW G \in SUBSET Gear, DeleteGear(G) PROVE PackInv'
  BY <1>5, StartDeleteStep DEF DeleteGear
<1>6. ASSUME NEW l \in List, CreateList(l) PROVE PackInv'
  BY <1>6, NoItemsOrder, NewListStep DEF CreateList
<1>7. ASSUME NEW l \in List, NEW ord \in DenseOrders(l), CreateFromSelection(l, ord)
      PROVE  PackInv'
  BY <1>7, NewListStep DEF CreateFromSelection
<1>8. ASSUME NEW l \in List, NEW ord \in DenseOrders(l), NEW W \in SUBSET DOMAIN ord,
             ImportFromCsv(l, ord, W)
      PROVE  PackInv'
  BY <1>8, NewListStep DEF ImportFromCsv
<1> QED
  BY <1>1, <1>2, <1>3, <1>4, <1>5, <1>6, <1>7, <1>8, CascadeItemStep, DeleteFoodStep,
     UpdateItemStep, UpdateFoodStep, ReorderPackStep, CreateLocationStep,
     RemoveLocationStep, RemoveListStep, DuplicateStep
  DEF Next

\* Whatever calls are made in whatever order, the packing half of every list
\* stays well formed.
THEOREM PackInvariant == Spec => []PackInv
  BY InitHolds, NextStep, PTL DEF Spec

\* No writer ever runs into the unique cohort indexes.
THEOREM CohortsUnique == Spec => []CohortRanksUnique
<1>1. PackInv => CohortRanksUnique
  BY DEF PackInv
<1> QED
  BY <1>1, PackInvariant, PTL

\* No writer ever leaves the rank space.
THEOREM RanksBounded == Spec => []RanksInRange
<1>1. PackInv => RanksInRange
  BY DEF PackInv
<1> QED
  BY <1>1, PackInvariant, PTL

\* No sequence of moves and deletes puts a bag inside itself.
THEOREM NestingSound == Spec => []NestingAcyclic
<1>1. PackInv => NestingAcyclic
  BY DEF PackInv
<1> QED
  BY <1>1, PackInvariant, PTL

-----------------------------------------------------------------------------
(* The order in which the rows of a bag are shown                          *)

\* What a step may do to the order: the four action properties of it, one step
\* at a time.
TableStep ==
  Reordering \/ \A r, s \in rows \cap rows' :
    SameTable(r, s) /\ SameCohort(r, s) /\ SameCohort(r, s)' /\ Before(r, s)
      => Before(r, s)'

UnionStep ==
  Reordering \/ ~ Idle \/ \A r, s \in rows \cap rows' :
    SameCohort(r, s) /\ SameCohort(r, s)' /\ Before(r, s) => Before(r, s)'

ArrivalStep ==
  \A r \in rows', s \in rows \cap rows' :
    (r \notin rows \/ loc'[r] # loc[r]) /\ loc'[s] = loc[s]
      => (SameCohort(r, s)' /\ (Idle \/ SameTable(r, s)) => Before(s, r)')

WornStep ==
  \A i \in worn \cap worn' :
    rank'[i] # rank[i] => loc'[i] # loc[i] \/ (loc[i] = NULL /\ locs' # locs)

OrderStep == TableStep /\ UnionStep /\ ArrivalStep /\ WornStep

\* Rows that stay as they are keep their order, and rows of a new list arrive
\* in no cohort that is there.
LEMMA OthersStay ==
  ASSUME TypeOK, TypeOK',
         \A r \in rows \cap rows' : rank'[r] = rank[r] /\ loc'[r] = loc[r],
         \A r \in rows' \ rows, s \in rows : ListOf[r] # ListOf[s]
  PROVE  OrderStep
<1>1. \A r, s \in rows \cap rows' : Before(r, s) => Before(r, s)'
  BY DEF Before, SameTable
<1>2. TableStep /\ UnionStep
  BY <1>1 DEF TableStep, UnionStep
<1>3. ArrivalStep
  BY DEF ArrivalStep, SameCohort
<1>4. WornStep
  BY DEF WornStep, TypeOK
<1> QED
  BY <1>2, <1>3, <1>4 DEF OrderStep

\* One row that comes into a cohort past its maximum is shown last there, and no
\* other row changes.
LEMMA OneArrives ==
  ASSUME TypeOK, TypeOK', NEW r \in Row, NEW p \in Loc \cup {NULL},
         NEW n \in Int,
         rows' \subseteq rows \cup {r},
         r \notin rows \/ loc[r] # p,
         loc'[r] = p, rank'[r] = n,
         IsNextRank(n, Cohort(ListOf[r], p)),
         \A s \in rows : s # r => rank'[s] = rank[s] /\ loc'[s] = loc[s]
  PROVE  OrderStep
<1>1. \A s \in rows : ListOf[s] = ListOf[r] /\ loc[s] = p => rank[s] < n
  BY DEF IsNextRank, Cohort
<1>2. ASSUME NEW x \in rows \cap rows', NEW y \in rows \cap rows',
             SameCohort(x, y), SameCohort(x, y)', Before(x, y)
      PROVE  Before(x, y)'
  <2>1. (x # r /\ y # r) \/ x = y
    BY <1>2 DEF SameCohort
  <2>2. x # y
    BY <1>2, BeforeOrder DEF TypeOK
  <2> QED
    BY <1>2, <2>1, <2>2 DEF Before, SameTable
<1>3. TableStep /\ UnionStep
  BY <1>2 DEF TableStep, UnionStep
<1>4. ArrivalStep
  <2> SUFFICES ASSUME NEW x \in rows', NEW y \in rows \cap rows',
                      x \notin rows \/ loc'[x] # loc[x], loc'[y] = loc[y],
                      SameCohort(x, y)'
               PROVE  Before(y, x)'
    BY DEF ArrivalStep
  <2>1. x = r
    OBVIOUS
  <2>2. y # r
    BY <2>1
  <2>3. rank'[y] < rank'[x]
    BY <1>1, <2>1, <2>2 DEF SameCohort
  <2> QED
    BY <2>3 DEF Before
<1>5. WornStep
  BY DEF WornStep, TypeOK
<1> QED
  BY <1>3, <1>4, <1>5 DEF OrderStep

\* A row that is added comes last in Unassigned.
LEMMA AddRowOrder ==
  ASSUME PackInv, PackInv', NEW r \in Row, AddRow(r)
  PROVE  OrderStep
<1>1. PICK n \in 0 .. RankMax : /\ IsNextUnionPackRank(n, ListOf[r], NULL)
                                /\ rank' = [rank EXCEPT ![r] = n]
  BY DEF AddRow
<1>2. /\ r \notin rows /\ rows' = rows \cup {r}
      /\ loc' = [loc EXCEPT ![r] = NULL]
  BY DEF AddRow
<1>3. /\ n \in Int /\ NULL \in Loc \cup {NULL} /\ TypeOK /\ TypeOK'
      /\ IsNextRank(n, Cohort(ListOf[r], NULL))
  BY <1>1, CapsAssumption DEF PackInv, IsNextUnionPackRank
<1>4. /\ loc'[r] = NULL /\ rank'[r] = n
      /\ \A s \in rows : s # r => rank'[s] = rank[s] /\ loc'[s] = loc[s]
  BY <1>1, <1>2, <1>3 DEF TypeOK
<1> QED
  BY <1>2, <1>3, <1>4, OneArrives

\* A patch or a move brings one row to the end of a cohort, or none.
LEMMA AssignOrder ==
  ASSUME PackInv, PackInv', NEW r \in Row, NEW p \in Loc \cup {NULL}, Assign(r, p)
  PROVE  OrderStep
<1>1. /\ r \in rows /\ rows' = rows /\ loc' = [loc EXCEPT ![r] = p]
      /\ TypeOK /\ TypeOK'
  BY DEF Assign, PackInv
<1>2. CASE p = loc[r] /\ UNCHANGED rank
  <2>1. \A s \in rows \cap rows' : rank'[s] = rank[s] /\ loc'[s] = loc[s]
    BY <1>1, <1>2 DEF TypeOK
  <2> QED
    BY <1>1, <2>1, OthersStay
<1>3. CASE p # loc[r]
  <2>1. PICK n \in 0 .. RankMax : /\ IsNextUnionPackRank(n, ListOf[r], p)
                                  /\ rank' = [rank EXCEPT ![r] = n]
    BY <1>3 DEF Assign
  <2>2. n \in Int /\ IsNextRank(n, Cohort(ListOf[r], p))
    BY <2>1, CapsAssumption DEF IsNextUnionPackRank
  <2>3. /\ loc'[r] = p /\ rank'[r] = n
        /\ \A s \in rows : s # r => rank'[s] = rank[s] /\ loc'[s] = loc[s]
    BY <1>1, <2>1 DEF TypeOK
  <2> QED
    BY <1>1, <1>3, <2>2, <2>3, OneArrives
<1> QED
  BY <1>2, <1>3 DEF Assign

\* A reorder moves no row and leaves the worn rows alone.
LEMMA ReorderOrder ==
  ASSUME PackInv, NEW T \in SUBSET rows, ReorderPack(T)
  PROVE  OrderStep
<1>1. /\ UNCHANGED <<lists, rows, locs, loc, worn, container, doomed>>
      /\ T \cap worn = {}
      /\ \E to \in [T -> 0 .. RankMax] :
           rank' = [r \in Row |-> IF r \in T THEN to[r] ELSE rank[r]]
  BY DEF ReorderPack
<1>2. TableStep /\ UnionStep
  BY <1>1 DEF TableStep, UnionStep, Reordering
<1>3. ArrivalStep
  BY <1>1 DEF ArrivalStep
<1>4. WornStep
  <2>1. \A i \in worn : i \in Row /\ i \notin T
    BY <1>1, IdFacts DEF PackInv, TypeOK
  <2> QED
    BY <1>1, <2>1 DEF WornStep
<1> QED
  BY <1>2, <1>3, <1>4 DEF OrderStep

\* A location delete numbers the rows that join Unassigned in the order they were
\* shown in, after those that were there.
LEMMA RemoveLocationOrder ==
  ASSUME PackInv, PackInv', NEW p \in Loc, RemoveLocation(p)
  PROVE  OrderStep
<1> DEFINE l == ListOf[p]
           U == Cohort(l, NULL)
           S == Cohort(l, p)
<1>1. PICK base \in 0 .. RankMax + 1 :
        /\ IsNextRank(base, U)
        /\ rank' = [r \in Row |-> AppendOrDense(r, U, S, base)]
  BY DEF RemoveLocation
<1>2. /\ p \in locs /\ p # NULL /\ rows' = rows /\ worn' = worn
      /\ loc' = [r \in Row |-> IF r \in S THEN NULL ELSE loc[r]]
      /\ locs' = locs \ {p}
  BY IdFacts DEF RemoveLocation
<1>3. /\ rank \in [Row -> Int] /\ rows \subseteq Row /\ RankMax \in Nat
      /\ base \in Int /\ worn \subseteq rows
      /\ U \in SUBSET Row /\ S \in SUBSET Row
  BY <1>1, CapsAssumption DEF PackInv, TypeOK, Cohort
<1>4. \A r \in rows : /\ r \in U <=> ListOf[r] = l /\ loc[r] = NULL
                      /\ r \in S <=> ListOf[r] = l /\ loc[r] = p
  BY DEF Cohort
<1>5. U \subseteq rows /\ S \subseteq rows /\ \A r \in U : rank[r] < base
  BY <1>1 DEF Cohort, IsNextRank
<1> HIDE DEF U, S
<1>6. /\ Cardinality(U) \in Int
      /\ \A r, s \in U : /\ RowNumber(r, U) \in 0 .. Cardinality(U) - 1
                         /\ Before(r, s) => RowNumber(r, U) < RowNumber(s, U)
      /\ \A r, s \in S : /\ RowNumber(r, S) \in 0 .. Cardinality(S) - 1
                         /\ Before(r, s) => RowNumber(r, S) < RowNumber(s, S)
  <2>1. IsFiniteSet(U) /\ Cardinality(U) \in Int
    <3>1. IsFiniteSet(U)
      BY <1>3, IdFacts, FS_Subset
    <3> QED
      BY <3>1, FS_CardinalityType
  <2>2. \A r, s \in U : /\ RowNumber(r, U) \in 0 .. Cardinality(U) - 1
                        /\ Before(r, s) => RowNumber(r, U) < RowNumber(s, U)
    BY <1>3, PlaceFacts
  <2>3. \A r, s \in S : /\ RowNumber(r, S) \in 0 .. Cardinality(S) - 1
                        /\ Before(r, s) => RowNumber(r, S) < RowNumber(s, S)
    BY <1>3, PlaceFacts
  <2> QED
    BY <2>1, <2>2, <2>3
<1>7. /\ \A r \in rows : r \notin U \cup S => rank'[r] = rank[r]
      /\ \A r, s \in U : Before(r, s) => Before(r, s)'
      /\ \A r, s \in S : Before(r, s) => Before(r, s)'
      /\ \A r \in U, s \in S : Before(r, s)'
  <2>1. CASE S = {} \/ base + Cardinality(S) - 1 <= RankMax
    <3>1. \A r \in Row : rank'[r] = IF r \in S THEN base + RowNumber(r, S) ELSE rank[r]
      BY <1>1, <2>1 DEF AppendOrDense
    <3>2. U \cap S = {}
      BY <1>2, <1>4, <1>5
    <3>3. \A r, s \in U : Before(r, s) => Before(r, s)'
      BY <1>3, <3>1, <3>2 DEF Before, SameTable
    <3>4. \A r, s \in S : Before(r, s) => rank'[r] < rank'[s]
      BY <1>3, <1>6, <3>1
    <3>5. \A r \in U, s \in S : rank'[r] < rank'[s]
      BY <1>3, <1>5, <1>6, <3>1, <3>2
    <3> QED
      BY <1>3, <3>1, <3>3, <3>4, <3>5 DEF Before
  <2>2. CASE ~ (S = {} \/ base + Cardinality(S) - 1 <= RankMax)
    <3>1. \A r \in Row : rank'[r] = IF r \in U THEN RowNumber(r, U)
                         ELSE IF r \in S THEN Cardinality(U) + RowNumber(r, S) ELSE rank[r]
      <4>1. U \cap S = {}
        BY <1>2, <1>4, <1>5
      <4> QED
        BY <1>1, <2>2, <4>1 DEF AppendOrDense
    <3>2. U \cap S = {}
      BY <1>2, <1>4, <1>5
    <3>3. \A r, s \in U : Before(r, s) => rank'[r] < rank'[s]
      BY <1>3, <1>6, <3>1
    <3>4. \A r, s \in S : Before(r, s) => rank'[r] < rank'[s]
      BY <1>3, <1>6, <3>1, <3>2
    <3>5. \A r \in U, s \in S : rank'[r] < rank'[s]
      BY <1>3, <1>6, <3>1, <3>2
    <3> QED
      BY <1>3, <3>1, <3>3, <3>4, <3>5 DEF Before
  <2> QED
    BY <2>1, <2>2
<1>8. \A r \in rows : loc'[r] = IF r \in S THEN NULL ELSE loc[r]
  BY <1>2, <1>3
<1>9. \A r, s \in rows : SameCohort(r, s) /\ SameCohort(r, s)' /\ Before(r, s)
                           => Before(r, s)'
  <2> SUFFICES ASSUME NEW r \in rows, NEW s \in rows,
                      SameCohort(r, s), SameCohort(r, s)', Before(r, s)
               PROVE  Before(r, s)'
    OBVIOUS
  <2>1. \/ r \in U /\ s \in U
        \/ r \in S /\ s \in S
        \/ r \notin U \cup S /\ s \notin U \cup S
    BY <1>4 DEF SameCohort
  <2>2. CASE r \notin U \cup S /\ s \notin U \cup S
    BY <1>7, <2>2 DEF Before, SameTable
  <2> QED
    BY <1>7, <2>1, <2>2
<1>10. TableStep /\ UnionStep
  BY <1>2, <1>9 DEF TableStep, UnionStep
<1>11. ArrivalStep
  <2> SUFFICES ASSUME NEW r \in rows, NEW s \in rows, loc'[r] # loc[r],
                      loc'[s] = loc[s], SameCohort(r, s)'
               PROVE  Before(s, r)'
    BY <1>2 DEF ArrivalStep
  <2>1. r \in S /\ loc'[s] = NULL /\ ListOf[s] = l
    BY <1>4, <1>8 DEF SameCohort
  <2>2. s \in U
    BY <1>4, <2>1
  <2> QED
    BY <1>7, <2>1, <2>2
<1>12. WornStep
  <2>1. locs' # locs
    BY <1>2
  <2>2. \A r \in rows : rank'[r] # rank[r] => r \in U \/ r \in S
    BY <1>7
  <2> QED
    BY <1>2, <1>3, <1>4, <1>8, <2>1, <2>2 DEF WornStep
<1> QED
  BY <1>10, <1>11, <1>12 DEF OrderStep

\* The ranks the delete triggers give keep the order of the rows that stay and of
\* those that come, and put these after the others.
LEMMA RerankOrder ==
  ASSUME PackInv, NEW U \in SUBSET rows, NEW S \in SUBSET rows, U \cap S = {},
         NEW base \in 0 .. RankMax + 1, IsNextRank(base, U),
         \A r, s \in U : Before(r, s) => rank[r] < rank[s],
         \A r, s \in S : Before(r, s) => rank[r] < rank[s]
  PROVE  /\ \A r \in Row \ (U \cup S) : Rerank(r, U, S, base) = rank[r]
         /\ \A r \in U : Rerank(r, U, S, base) # rank[r] => S # {}
         /\ \A r, s \in U : Before(r, s) =>
              Rerank(r, U, S, base) < Rerank(s, U, S, base)
         /\ \A r, s \in S : Before(r, s) =>
              Rerank(r, U, S, base) < Rerank(s, U, S, base)
         /\ \A r \in U, s \in S : Rerank(r, U, S, base) < Rerank(s, U, S, base)
<1>1. /\ rank \in [Row -> Int] /\ rows \subseteq Row /\ RankMax \in Nat /\ base \in Int
      /\ U \in SUBSET Row /\ S \in SUBSET Row
      /\ \A r \in U : rank[r] < base
      /\ \A r \in rows : rank[r] \in 0 .. RankMax
  BY CapsAssumption DEF PackInv, TypeOK, RanksInRange, IsNextRank
<1>2. /\ Cardinality(U) \in Int
      /\ \A r, s \in U : /\ RowNumber(r, U) \in 0 .. Cardinality(U) - 1
                         /\ Before(r, s) => RowNumber(r, U) < RowNumber(s, U)
      /\ \A r, s \in S : /\ RowNumber(r, S) \in 0 .. Cardinality(S) - 1
                         /\ Before(r, s) => RowNumber(r, S) < RowNumber(s, S)
  <2>1. IsFiniteSet(U) /\ Cardinality(U) \in Int
    <3>1. IsFiniteSet(U)
      BY <1>1, IdFacts, FS_Subset
    <3> QED
      BY <3>1, FS_CardinalityType
  <2>2. \A r, s \in U : /\ RowNumber(r, U) \in 0 .. Cardinality(U) - 1
                        /\ Before(r, s) => RowNumber(r, U) < RowNumber(s, U)
    BY <1>1, PlaceFacts
  <2>3. \A r, s \in S : /\ RowNumber(r, S) \in 0 .. Cardinality(S) - 1
                        /\ Before(r, s) => RowNumber(r, S) < RowNumber(s, S)
    BY <1>1, PlaceFacts
  <2> QED
    BY <2>1, <2>2, <2>3
<1>3. CASE \A s \in S : base + rank[s] <= RankMax
  <2>1. \A r \in Row : Rerank(r, U, S, base) =
                         IF r \in S THEN base + rank[r] ELSE rank[r]
    BY <1>3 DEF Rerank
  <2>2. \A r, s \in U : Before(r, s) => Rerank(r, U, S, base) < Rerank(s, U, S, base)
    BY <1>1, <2>1
  <2>3. \A r, s \in S : Before(r, s) => Rerank(r, U, S, base) < Rerank(s, U, S, base)
    BY <1>1, <2>1
  <2>4. \A r \in U, s \in S : Rerank(r, U, S, base) < Rerank(s, U, S, base)
    BY <1>1, <2>1
  <2> QED
    BY <1>1, <2>1, <2>2, <2>3, <2>4
<1>4. CASE ~ \A s \in S : base + rank[s] <= RankMax
  <2>1. \A r \in Row : Rerank(r, U, S, base) =
                         IF r \in U THEN RowNumber(r, U)
                         ELSE IF r \in S THEN Cardinality(U) + RowNumber(r, S) ELSE rank[r]
    BY <1>4 DEF Rerank
  <2>2. \A r, s \in U : Before(r, s) => Rerank(r, U, S, base) < Rerank(s, U, S, base)
    BY <1>1, <1>2, <2>1
  <2>3. \A r, s \in S : Before(r, s) => Rerank(r, U, S, base) < Rerank(s, U, S, base)
    BY <1>1, <1>2, <2>1
  <2>4. \A r \in U, s \in S : Rerank(r, U, S, base) < Rerank(s, U, S, base)
    BY <1>1, <1>2, <2>1
  <2> QED
    BY <1>1, <1>4, <2>1, <2>2, <2>3, <2>4
<1> QED
  BY <1>3, <1>4

\* In a cohort, rows of one table that differ in order differ in rank.
LEMMA OrderIsRank ==
  ASSUME PackInv, NEW r \in rows, NEW s \in rows, SameTable(r, s), SameCohort(r, s),
         Before(r, s)
  PROVE  rank[r] < rank[s]
<1>1. r # s /\ r \in Row /\ s \in Row /\ (r \in Item => s \notin Food)
  BY BeforeOrder, IdsAssumption DEF PackInv, TypeOK, SameTable
<1> QED
  BY <1>1 DEF PackInv, TypeOK, CohortRanksUnique, Before

\* A cascade brings rows to Unassigned one table at a time.
LEMMA CascadeOrder ==
  ASSUME PackInv, PackInv', NEW i \in Item, CascadeItem(i)
  PROVE  OrderStep
<1> DEFINE l    == ListOf[i]
           left == rows \ {i}
           P    == {p \in locs : container[p] = i}
           U(T) == {r \in left \cap T : ListOf[r] = l /\ loc[r] = NULL}
           S(T) == {r \in left \cap T : loc[r] \in P}
<1>1. PICK g \in 0 .. RankMax + 1, f \in 0 .. RankMax + 1 :
        /\ IsNextRank(g, U(Item))
        /\ IsNextRank(f, U(Food))
        /\ rank' = [r \in Row |->
             CASE r = i      -> 0
               [] r \in Food -> Rerank(r, U(Food), S(Food), f)
               [] OTHER      -> Rerank(r, U(Item), S(Item), g)]
  BY DEF CascadeItem
<1>2. /\ i \in doomed /\ rows' = left /\ worn' = worn \ {i}
      /\ loc' = [r \in Row |->
                   IF r = i \/ r \in S(Item) \cup S(Food) THEN NULL ELSE loc[r]]
      /\ locs' = locs \ P
  BY DEF CascadeItem
<1>3. /\ rank \in [Row -> Int] /\ rows \subseteq Row /\ worn \subseteq rows \cap Item
      /\ \A r \in Row : r \in Item <=> r \notin Food
      /\ left \subseteq rows
  BY IdsAssumption DEF PackInv, TypeOK, Row
<1>4. /\ \A r \in rows : loc[r] \in P => ListOf[r] = l /\ loc[r] # NULL
      /\ \A p, q \in P : p = q
  <2>1. i # NULL /\ NULL \notin locs
    BY IdFacts DEF PackInv, TypeOK
  <2>2. \A p \in P : ListOf[p] = l
    BY <2>1 DEF PackInv, ReferencesHold
  <2>3. \A p, q \in P : p = q
    BY <2>1 DEF PackInv, ReferencesHold
  <2> QED
    BY <2>1, <2>2, <2>3 DEF PackInv, ReferencesHold
<1>5. ASSUME NEW T \in {Item, Food}, NEW base \in 0 .. RankMax + 1,
             IsNextRank(base, U(T))
      PROVE  /\ \A r \in Row \ (U(T) \cup S(T)) : Rerank(r, U(T), S(T), base) = rank[r]
             /\ \A r \in U(T) : Rerank(r, U(T), S(T), base) # rank[r] => S(T) # {}
             /\ \A r, s \in U(T) : Before(r, s) =>
                  Rerank(r, U(T), S(T), base) < Rerank(s, U(T), S(T), base)
             /\ \A r, s \in S(T) : Before(r, s) =>
                  Rerank(r, U(T), S(T), base) < Rerank(s, U(T), S(T), base)
             /\ \A r \in U(T), s \in S(T) :
                  Rerank(r, U(T), S(T), base) < Rerank(s, U(T), S(T), base)
  <2>1. U(T) \in SUBSET rows /\ S(T) \in SUBSET rows /\ U(T) \cap S(T) = {}
    BY <1>4
  <2>2. \A r, s \in U(T) : SameTable(r, s) /\ SameCohort(r, s)
    BY IdsAssumption DEF SameTable, SameCohort
  <2>3. \A r, s \in S(T) : SameTable(r, s) /\ SameCohort(r, s)
    BY <1>4, IdsAssumption DEF SameTable, SameCohort
  <2> HIDE DEF U, S
  <2>4. /\ \A r, s \in U(T) : Before(r, s) => rank[r] < rank[s]
        /\ \A r, s \in S(T) : Before(r, s) => rank[r] < rank[s]
    BY <2>1, <2>2, <2>3, OrderIsRank
  <2> QED
    BY <1>5, <2>1, <2>4, RerankOrder
<1>6. \A r \in left :
        /\ r \in U(Item) <=> r \in Item /\ ListOf[r] = l /\ loc[r] = NULL
        /\ r \in U(Food) <=> r \in Food /\ ListOf[r] = l /\ loc[r] = NULL
        /\ r \in S(Item) <=> r \in Item /\ loc[r] \in P
        /\ r \in S(Food) <=> r \in Food /\ loc[r] \in P
  OBVIOUS
<1>7. U(Item) \cup U(Food) \cup S(Item) \cup S(Food) \subseteq left
  OBVIOUS
<1>8. \A r \in left : loc'[r] = IF loc[r] \in P THEN NULL ELSE loc[r]
  BY <1>2, <1>3
<1>9. S(Item) # {} \/ S(Food) # {} => P # {}
  OBVIOUS
<1> HIDE DEF U, S, P
<1>10. \A r \in left : rank'[r] = IF r \in Food THEN Rerank(r, U(Food), S(Food), f)
                                  ELSE Rerank(r, U(Item), S(Item), g)
  BY <1>1, <1>3
<1>11. ASSUME NEW r \in left, NEW s \in left, SameTable(r, s), Before(r, s),
              \/ r \in U(Item) \cup U(Food) /\ s \in U(Item) \cup U(Food)
              \/ r \in S(Item) \cup S(Food) /\ s \in S(Item) \cup S(Food)
       PROVE  rank'[r] < rank'[s]
  <2>1. CASE r \in Item
    <3>1. s \in Item /\ r \notin Food /\ s \notin Food
      BY <1>3, <1>11, <2>1 DEF SameTable
    <3>2. \/ r \in U(Item) /\ s \in U(Item)
          \/ r \in S(Item) /\ s \in S(Item)
      BY <1>6, <1>11, <3>1
    <3> QED
      BY <1>1, <1>5, <1>10, <1>11, <3>1, <3>2
  <2>2. CASE r \in Food
    <3>1. s \in Food /\ r \notin Item /\ s \notin Item
      BY <1>3, <1>11, <2>2 DEF SameTable
    <3>2. \/ r \in U(Food) /\ s \in U(Food)
          \/ r \in S(Food) /\ s \in S(Food)
      BY <1>6, <1>11, <3>1
    <3>3. /\ \A x, y \in U(Food) : Before(x, y) =>
               Rerank(x, U(Food), S(Food), f) < Rerank(y, U(Food), S(Food), f)
          /\ \A x, y \in S(Food) : Before(x, y) =>
               Rerank(x, U(Food), S(Food), f) < Rerank(y, U(Food), S(Food), f)
      BY <1>1, <1>5
    <3> QED
      BY <1>10, <1>11, <2>2, <3>1, <3>2, <3>3
  <2> QED
    BY <1>3, <2>1, <2>2
<1>12. ASSUME NEW r \in left, NEW s \in left, SameTable(r, s),
              r \in U(Item) \cup U(Food), s \in S(Item) \cup S(Food)
       PROVE  rank'[r] < rank'[s]
  <2>1. CASE r \in Item
    <3>1. s \in Item /\ r \notin Food /\ s \notin Food
      BY <1>3, <1>12, <2>1 DEF SameTable
    <3>2. r \in U(Item) /\ s \in S(Item)
      BY <1>6, <1>12, <3>1
    <3> QED
      BY <1>1, <1>5, <1>10, <3>1, <3>2
  <2>2. CASE r \in Food
    <3>1. s \in Food /\ r \notin Item /\ s \notin Item
      BY <1>3, <1>12, <2>2 DEF SameTable
    <3>2. r \in U(Food) /\ s \in S(Food)
      BY <1>6, <1>12, <3>1
    <3>3. \A x \in U(Food), y \in S(Food) :
            Rerank(x, U(Food), S(Food), f) < Rerank(y, U(Food), S(Food), f)
      BY <1>1, <1>5
    <3> QED
      BY <1>10, <2>2, <3>1, <3>2, <3>3
  <2> QED
    BY <1>3, <2>1, <2>2
<1>13. \A r \in left : r \notin U(Item) \cup U(Food) \cup S(Item) \cup S(Food)
                         => rank'[r] = rank[r]
  <2>1. /\ \A r \in Row \ (U(Item) \cup S(Item)) : Rerank(r, U(Item), S(Item), g) = rank[r]
        /\ \A r \in Row \ (U(Food) \cup S(Food)) : Rerank(r, U(Food), S(Food), f) = rank[r]
    BY <1>1, <1>5
  <2> QED
    BY <1>3, <1>10, <2>1
<1>14. TableStep
  <2> SUFFICES ASSUME NEW r \in left, NEW s \in left, SameTable(r, s),
                      SameCohort(r, s), SameCohort(r, s)', Before(r, s)
               PROVE  Before(r, s)'
    BY <1>2 DEF TableStep
  <2>1. \/ r \in U(Item) \cup U(Food) /\ s \in U(Item) \cup U(Food)
        \/ r \in S(Item) \cup S(Food) /\ s \in S(Item) \cup S(Food)
        \/ /\ r \notin U(Item) \cup U(Food) \cup S(Item) \cup S(Food)
           /\ s \notin U(Item) \cup U(Food) \cup S(Item) \cup S(Food)
    BY <1>3, <1>4, <1>6 DEF SameCohort
  <2>2. CASE /\ r \notin U(Item) \cup U(Food) \cup S(Item) \cup S(Food)
             /\ s \notin U(Item) \cup U(Food) \cup S(Item) \cup S(Food)
    BY <1>13, <2>2 DEF Before, SameTable
  <2> QED
    BY <1>11, <2>1, <2>2 DEF Before
<1>15. UnionStep
  BY <1>2 DEF UnionStep, Idle
<1>16. ArrivalStep
  <2> SUFFICES ASSUME NEW r \in left, NEW s \in left, loc'[r] # loc[r],
                      loc'[s] = loc[s], SameCohort(r, s)', SameTable(r, s)
               PROVE  Before(s, r)'
    BY <1>2, <1>3 DEF ArrivalStep, Idle
  <2>1. loc[r] \in P /\ loc'[s] = NULL /\ ListOf[s] = l
    BY <1>3, <1>4, <1>8 DEF SameCohort
  <2>2. s \in U(Item) \cup U(Food) /\ r \in S(Item) \cup S(Food)
    BY <1>3, <1>6, <2>1
  <2>3. SameTable(s, r)
    BY DEF SameTable
  <2> QED
    BY <1>12, <2>2, <2>3 DEF Before
<1>17. WornStep
  <2> SUFFICES ASSUME NEW r \in worn, r \in worn', rank'[r] # rank[r]
               PROVE  loc'[r] # loc[r] \/ (loc[r] = NULL /\ locs' # locs)
    BY DEF WornStep
  <2>1. r \in left /\ r \in Item /\ r \notin Food
    BY <1>2, <1>3
  <2>2. r \in U(Item) \/ r \in S(Item)
    BY <1>6, <1>13, <2>1
  <2>3. CASE r \in S(Item)
    BY <1>4, <1>6, <1>8, <2>1, <2>3
  <2>4. CASE r \in U(Item)
    <3>1. S(Item) # {}
      BY <1>1, <1>5, <1>10, <2>1, <2>4
    <3>2. P # {} /\ P \subseteq locs
      BY <1>9, <3>1 DEF P
    <3> QED
      BY <1>2, <1>6, <2>1, <2>4, <3>2
  <2> QED
    BY <2>2, <2>3, <2>4
<1> QED
  BY <1>14, <1>15, <1>16, <1>17 DEF OrderStep

\* Every step keeps the order, given the invariant.
LEMMA OrdersStep == PackInv /\ PackInv' /\ [Next]_vars => OrderStep
<1> SUFFICES ASSUME PackInv, PackInv', [Next]_vars PROVE OrderStep
  OBVIOUS
<1>1. TypeOK /\ TypeOK'
  BY DEF PackInv
<1>2. ASSUME UNCHANGED <<rows, loc, rank>> PROVE OrderStep
  BY <1>1, <1>2, OthersStay
<1>3. ASSUME NEW i \in Item, AddItem(i) PROVE OrderStep
  BY <1>3, IdFacts, AddRowOrder DEF AddItem
<1>4. ASSUME NEW f \in Food, AddFood(f) PROVE OrderStep
  BY <1>4, IdFacts, AddRowOrder DEF AddFood
<1>5. ASSUME NEW i \in Item, NEW p \in Loc \cup {NULL}, NEW w \in BOOLEAN,
             UpdateItem(i, p, w)
      PROVE  OrderStep
  BY <1>5, IdFacts, AssignOrder DEF UpdateItem
<1>6. ASSUME NEW f \in Food, NEW p \in Loc \cup {NULL}, UpdateFood(f, p)
      PROVE  OrderStep
  BY <1>6, IdFacts, AssignOrder DEF UpdateFood
<1>7. ASSUME NEW f \in Food, DeleteFood(f) PROVE OrderStep
  <2>1. /\ rows' = rows \ {f}
        /\ loc' = [loc EXCEPT ![f] = NULL] /\ rank' = [rank EXCEPT ![f] = 0]
    BY <1>7 DEF DeleteFood
  <2>2. \A r \in rows \cap rows' : rank'[r] = rank[r] /\ loc'[r] = loc[r]
    BY <1>1, <2>1 DEF TypeOK
  <2> QED
    BY <1>1, <2>1, <2>2, OthersStay
<1>8. ASSUME NEW l \in List, RemoveList(l) PROVE OrderStep
  <2>1. /\ rows' = rows \ RowsOf(l)
        /\ loc' = [r \in Row |-> IF r \in RowsOf(l) THEN NULL ELSE loc[r]]
        /\ rank' = [r \in Row |-> IF r \in RowsOf(l) THEN 0 ELSE rank[r]]
    BY <1>8 DEF RemoveList
  <2>2. \A r \in rows \cap rows' : rank'[r] = rank[r] /\ loc'[r] = loc[r]
    BY <1>1, <2>1 DEF TypeOK
  <2> QED
    BY <1>1, <2>1, <2>2, OthersStay
<1>9. ASSUME NEW l \in List, NEW ord \in DenseOrders(l), NEW W, NewList(l, ord, W)
      PROVE  OrderStep
  <2>1. /\ l \notin lists /\ rows' = rows \cup DOMAIN ord
        /\ rank' = [r \in Row |-> IF r \in DOMAIN ord THEN ord[r] ELSE rank[r]]
        /\ loc' = [r \in Row |-> IF r \in DOMAIN ord THEN NULL ELSE loc[r]]
    BY <1>9 DEF NewList
  <2>2. \A r \in DOMAIN ord : ListOf[r] = l
    BY DEF DenseOrders
  <2>3. \A r \in rows : ListOf[r] # l
    BY <2>1 DEF PackInv, ReferencesHold
  <2>4. \A r \in rows : rank'[r] = rank[r] /\ loc'[r] = loc[r]
    BY <1>1, <2>1, <2>2, <2>3 DEF TypeOK
  <2> QED
    BY <1>1, <2>1, <2>2, <2>3, <2>4, OthersStay
<1>10. ASSUME NEW l \in lists, NEW m \in List \ lists, NEW orig \in Copies(l, m),
              Duplicate(l, m, orig)
       PROVE  OrderStep
  <2>1. /\ rows' = rows \cup (DOMAIN orig \cap Row)
        /\ rank' = [r \in Row |-> IF r \in DOMAIN orig THEN rank[orig[r]] ELSE rank[r]]
        /\ loc' = [r \in Row |-> IF r \in DOMAIN orig THEN CopyOf(loc[orig[r]], orig)
                                   ELSE loc[r]]
    BY <1>10 DEF Duplicate
  <2>2. \A r \in DOMAIN orig : ListOf[r] = m
    BY DEF Copies
  <2>3. \A r \in rows : ListOf[r] # m
    BY DEF PackInv, ReferencesHold
  <2>4. \A r \in rows : rank'[r] = rank[r] /\ loc'[r] = loc[r]
    BY <1>1, <2>1, <2>2, <2>3 DEF TypeOK
  <2> QED
    BY <1>1, <2>1, <2>2, <2>3, <2>4, OthersStay
<1>11. ASSUME NEW p \in Loc, NEW c \in Item \cup {NULL}, CreateLocation(p, c)
       PROVE  OrderStep
  BY <1>2, <1>11 DEF CreateLocation
<1>12. ASSUME NEW D, StartDelete(D) PROVE OrderStep
  BY <1>2, <1>12 DEF StartDelete
<1>13. CASE UNCHANGED vars
  BY <1>2, <1>13 DEF vars
<1> QED
  BY <1>3, <1>4, <1>5, <1>6, <1>7, <1>8, <1>9, <1>10, <1>11, <1>12, <1>13,
     NoItemsOrder, CascadeOrder, ReorderOrder, RemoveLocationOrder
  DEF Next, DeleteItem, DeleteGear, CreateList, CreateFromSelection, ImportFromCsv

\* Only a pack reorder changes the order in which two rows of one table are shown
\* while they stay together: locations that go take their rows out in order.
THEOREM TablesInOrder == Spec => TableOrderKept
<1>1. PackInv /\ PackInv' /\ [Next]_vars => TableStep
  BY OrdersStep DEF OrderStep
<1> QED
  BY <1>1, PackInvariant, PTL DEF Spec, TableOrderKept, TableStep

\* No call but a reorder changes the merged order of a bag, and what comes into it
\* comes last.
THEOREM PackInOrder == Spec => PackOrderKept
<1>1. PackInv /\ PackInv' /\ [Next]_vars => UnionStep /\ ArrivalStep
  BY OrdersStep DEF OrderStep
<1> QED
  BY <1>1, PackInvariant, PTL
  DEF Spec, PackOrderKept, UnionOrderKept, ArrivalsLast, UnionStep, ArrivalStep

\* The slot of a worn row is left to it by everything but its own move and a
\* location delete that numbers Unassigned afresh.
THEOREM WornSlotsKept == Spec => WornSlotReserved
<1>1. PackInv /\ PackInv' /\ [Next]_vars => WornStep
  BY OrdersStep DEF OrderStep
<1> QED
  BY <1>1, PackInvariant, PTL DEF Spec, WornSlotReserved, WornStep
=============================================================================
