------------------------- MODULE ReportRulesProofs -------------------------
(***************************************************************************)
(* What sorting, filtering, composing and validating do to any list of     *)
(* tool results, whatever they hold.                                       *)
(***************************************************************************)
EXTENDS ReportRules, FiniteSetTheorems, SequenceTheorems, TLAPS

-----------------------------------------------------------------------------
(* Lists in order *)

\* R is a strict total order of S.
Orders(R, S) ==
  /\ \A x \in S : <<x, x>> \notin R
  /\ \A x, y, z \in S : <<x, y>> \in R /\ <<y, z>> \in R => <<x, z>> \in R
  /\ \A x, y \in S : x # y => <<x, y>> \in R \/ <<y, x>> \in R

\* The list a holds every element of S once, in the order R is of them.
Lists(a, S, R) ==
  /\ a \in [1..Cardinality(S) -> S]
  /\ \A x \in S : \E i \in 1..Cardinality(S) : a[i] = x
  /\ \A i, j \in 1..Cardinality(S) : i < j => <<a[i], a[j]>> \in R

\* Arranging a finite set by a strict total order lists it in that order.
LEMMA ArrangeLists ==
  ASSUME NEW S, NEW R, IsFiniteSet(S), Orders(R, S)
  PROVE  Cardinality(S) \in Nat /\ Lists(Arrange(S, R), S, R)
<1> DEFINE n    == Cardinality(S)
           B(x) == {y \in S : <<y, x>> \in R}
           rank == [x \in S |-> Cardinality(B(x)) + 1]
           a    == Arrange(S, R)
<1>1. n \in Nat
  BY FS_CardinalityType
<1>2. ASSUME NEW x \in S
      PROVE  IsFiniteSet(B(x)) /\ Cardinality(B(x)) \in 0..(n - 1)
  <2>1. IsFiniteSet(S \ {x}) /\ Cardinality(S \ {x}) = n - 1
    BY FS_RemoveElement
  <2>2. B(x) \in SUBSET (S \ {x})
    BY DEF Orders
  <2>3. IsFiniteSet(B(x)) /\ Cardinality(B(x)) <= n - 1
    <3>1. \A U \in SUBSET (S \ {x}) :
            IsFiniteSet(U) /\ Cardinality(U) <= Cardinality(S \ {x})
      BY <2>1, FS_Subset
    <3> QED BY <2>1, <2>2, <3>1
  <2>4. Cardinality(B(x)) \in Nat
    BY <2>3, FS_CardinalityType
  <2> QED BY <2>3, <2>4, <1>1
<1>3. ASSUME NEW x \in S, NEW y \in S, <<x, y>> \in R
      PROVE  Cardinality(B(x)) < Cardinality(B(y))
  <2>1. B(x) \in SUBSET B(y)
    BY <1>3 DEF Orders
  <2>2. x \in B(y) /\ x \notin B(x)
    BY <1>3 DEF Orders
  <2>3. B(x) # B(y)
    BY <2>2
  <2>4. Cardinality(B(x)) <= Cardinality(B(y)) /\ Cardinality(B(x)) # Cardinality(B(y))
    BY <1>2, <2>1, <2>3, FS_Subset
  <2> QED BY <2>4, <1>2
<1> HIDE DEF B
<1>4. rank \in [S -> 1..n]
  BY <1>1, <1>2
<1>5. \A x, y \in S : rank[x] = rank[y] => x = y
  <2> SUFFICES ASSUME NEW x \in S, NEW y \in S, x # y PROVE rank[x] # rank[y]
    OBVIOUS
  <2>1. <<x, y>> \in R \/ <<y, x>> \in R
    BY DEF Orders
  <2>2. Cardinality(B(x)) \in Int /\ Cardinality(B(y)) \in Int
    BY <1>2
  <2> QED BY <2>1, <2>2, <1>3
<1>6. \A i \in 1..n : \E x \in S : rank[x] = i
  <2>1. rank \in Injection(S, 1..n)
    BY <1>4, <1>5 DEF Injection, IsInjective
  <2>2. IsFiniteSet(1..n) /\ Cardinality(1..n) = n
    BY <1>1, FS_Interval
  <2>3. rank \in Surjection(S, 1..n)
    BY <2>1, <2>2, FS_Injection
  <2> QED BY <2>3 DEF Surjection
<1>7. \A i \in 1..n : a[i] \in S /\ rank[a[i]] = i
  <2> SUFFICES ASSUME NEW i \in 1..n PROVE a[i] \in S /\ rank[a[i]] = i
    OBVIOUS
  <2>1. a[i] = CHOOSE x \in S : Cardinality(B(x)) = i - 1
    BY DEF Arrange, B
  <2>2. \E x \in S : Cardinality(B(x)) = i - 1
    <3>1. PICK x \in S : rank[x] = i
      BY <1>6
    <3> QED BY <3>1, <1>1, <1>2
  <2>3. a[i] \in S /\ Cardinality(B(a[i])) = i - 1
    BY <2>1, <2>2
  <2> QED BY <2>3
<1>8. a \in [1..n -> S]
  BY <1>7 DEF Arrange
<1>9. \A x \in S : \E i \in 1..n : a[i] = x
  <2> SUFFICES ASSUME NEW x \in S PROVE a[rank[x]] = x
    BY <1>4
  <2> QED BY <1>4, <1>5, <1>7
<1>10. ASSUME NEW i \in 1..n, NEW j \in 1..n, i < j
      PROVE  <<a[i], a[j]>> \in R
  <2>1. a[i] \in S /\ a[j] \in S /\ rank[a[i]] = i /\ rank[a[j]] = j
    BY <1>7
  <2>2. <<a[i], a[j]>> \in R \/ <<a[j], a[i]>> \in R
    BY <1>10, <2>1 DEF Orders
  <2>3. <<a[j], a[i]>> \notin R
    <3> SUFFICES ASSUME <<a[j], a[i]>> \in R PROVE FALSE
      OBVIOUS
    <3>1. Cardinality(B(a[j])) < Cardinality(B(a[i]))
      BY <1>3, <2>1
    <3>2. Cardinality(B(a[j])) = j - 1 /\ Cardinality(B(a[i])) = i - 1
      BY <1>1, <1>2, <2>1
    <3> QED BY <3>1, <3>2, <1>10, <1>1
  <2> QED BY <2>2, <2>3
<1> QED BY <1>1, <1>8, <1>9, <1>10 DEF Lists

\* What is kept of a list are the items at the positions named, and they stay
\* in their order.
LEMMA KeepList ==
  ASSUME NEW T, NEW s \in Seq(T), NEW I \in SUBSET (DOMAIN s)
  PROVE  /\ Keep(s, I) \in Seq(T)
         /\ ToSet(Keep(s, I)) = {s[i] : i \in I}
         /\ \E from \in [DOMAIN Keep(s, I) -> I] :
              /\ \A m, n \in DOMAIN Keep(s, I) : m < n => from[m] < from[n]
              /\ \A n \in DOMAIN Keep(s, I) : Keep(s, I)[n] = s[from[n]]
<1> DEFINE R    == {ij \in I \X I : ij[1] < ij[2]}
           c    == Cardinality(I)
           from == Arrange(I, R)
           k    == [n \in DOMAIN from |-> s[from[n]]]
<1>1. k = Keep(s, I)
  BY DEF Keep
<1>2. I \subseteq Nat /\ DOMAIN s = 1..Len(s) /\ Len(s) \in Nat
  BY LenProperties
<1>3. IsFiniteSet(I)
  <2>1. IsFiniteSet(1..Len(s))
    BY <1>2, FS_Interval
  <2>2. I \in SUBSET (1..Len(s))
    BY <1>2
  <2> QED BY <2>1, <2>2, FS_Subset
<1>4. Orders(R, I)
  <2> SUFFICES ASSUME NEW x \in I, NEW y \in I, NEW z \in I
               PROVE  /\ <<x, x>> \notin R
                      /\ <<x, y>> \in R /\ <<y, z>> \in R => <<x, z>> \in R
                      /\ x # y => <<x, y>> \in R \/ <<y, x>> \in R
    BY DEF Orders
  <2>1. x \in Nat /\ y \in Nat /\ z \in Nat
    BY <1>2
  <2>2. /\ <<x, y>> \in R <=> x < y
        /\ <<y, z>> \in R <=> y < z
        /\ <<x, z>> \in R <=> x < z
        /\ <<y, x>> \in R <=> y < x
        /\ <<x, x>> \in R <=> x < x
    OBVIOUS
  <2> QED BY <2>1, <2>2
<1>5. c \in Nat /\ Lists(from, I, R)
  BY <1>3, <1>4, ArrangeLists
<1>6. /\ from \in [1..c -> I]
      /\ \A i \in I : \E n \in 1..c : from[n] = i
      /\ \A m, n \in 1..c : m < n => <<from[m], from[n]>> \in R
  BY <1>5 DEF Lists
<1>7. \A m, n \in 1..c : m < n => from[m] < from[n]
  BY <1>6
<1> HIDE DEF from
<1>8. k \in [1..c -> T]
  BY <1>2, <1>6, ElementOfSeq
<1>9. k \in Seq(T) /\ DOMAIN k = 1..c
  BY <1>5, <1>8, SeqDef
<1>10. ToSet(k) = {s[i] : i \in I}
  <2>1. ToSet(k) = {k[n] : n \in 1..c}
    BY <1>9 DEF ToSet
  <2>2. \A n \in 1..c : k[n] = s[from[n]] /\ from[n] \in I
    BY <1>6
  <2>3. \A i \in I : \E n \in 1..c : k[n] = s[i]
    BY <1>6, <2>2
  <2> HIDE DEF k
  <2> QED BY <2>1, <2>2, <2>3
<1>11. /\ from \in [DOMAIN k -> I]
       /\ \A m, n \in DOMAIN k : m < n => from[m] < from[n]
       /\ \A n \in DOMAIN k : k[n] = s[from[n]]
  BY <1>6, <1>7, <1>9
<1> HIDE DEF k
<1> QED BY <1>1, <1>9, <1>10, <1>11
-----------------------------------------------------------------------------
(* The evidence of a report *)

Typed(results) == results \in Seq(ToolResult)

\* There are finitely many slots, and each holds an item of one result.
LEMMA SlotsOfResults ==
  ASSUME NEW results, Typed(results)
  PROVE  /\ IsFiniteSet(Slots(results))
         /\ \A p \in Slots(results) :
              /\ p = <<p[1], p[2]>> /\ p[1] \in Nat /\ p[2] \in Nat
              /\ ItemAt(results, p) \in Evidence
              /\ p[1] \in DOMAIN results
              /\ ItemAt(results, p) \in ToSet(results[p[1]].evidence)
         /\ \A r \in ToSet(results) : \A e \in ToSet(r.evidence) :
              \E p \in Slots(results) : ItemAt(results, p) = e
<1> DEFINE of   == [i \in DOMAIN results |-> {i} \X DOMAIN results[i].evidence]
           Rows == {of[i] : i \in DOMAIN results}
<1>1. /\ DOMAIN results = 1..Len(results) /\ Len(results) \in Nat
      /\ \A i \in DOMAIN results : results[i] \in ToolResult
  BY LenProperties, ElementOfSeq DEF Typed
<1>2. \A i \in DOMAIN results :
        /\ results[i].evidence \in Seq(Evidence)
        /\ DOMAIN results[i].evidence = 1..Len(results[i].evidence)
        /\ Len(results[i].evidence) \in Nat
  <2> SUFFICES ASSUME NEW i \in DOMAIN results
               PROVE  /\ results[i].evidence \in Seq(Evidence)
                      /\ DOMAIN results[i].evidence = 1..Len(results[i].evidence)
                      /\ Len(results[i].evidence) \in Nat
    OBVIOUS
  <2>1. results[i].evidence \in Seq(Evidence)
    BY <1>1 DEF ToolResult
  <2> QED BY <2>1, LenProperties
<1>3. Slots(results) = UNION Rows
  BY DEF Slots
<1>4. \A p \in Slots(results) : \E i \in DOMAIN results :
        \E j \in DOMAIN results[i].evidence : p = <<i, j>>
  BY DEF Slots
<1>5. IsFiniteSet(Rows)
  <2>1. of \in Surjection(DOMAIN results, Rows)
    BY DEF Surjection
  <2>2. IsFiniteSet(DOMAIN results)
    BY <1>1, FS_Interval
  <2> HIDE DEF of, Rows
  <2> QED BY <2>1, <2>2, FS_Surjection
<1>6. \A row \in Rows : IsFiniteSet(row)
  <2> SUFFICES ASSUME NEW i \in DOMAIN results
               PROVE  IsFiniteSet({i} \X DOMAIN results[i].evidence)
    OBVIOUS
  <2>1. IsFiniteSet({i}) /\ IsFiniteSet(DOMAIN results[i].evidence)
    <3>1. IsFiniteSet(1..Len(results[i].evidence))
      BY <1>2, FS_Interval
    <3> QED BY <3>1, <1>2, FS_Singleton
  <2> QED BY <2>1, FS_Product
<1>7. IsFiniteSet(Slots(results))
  BY <1>3, <1>5, <1>6, FS_UNION
<1>8. ASSUME NEW p \in Slots(results)
      PROVE  /\ p = <<p[1], p[2]>> /\ p[1] \in Nat /\ p[2] \in Nat
             /\ ItemAt(results, p) \in Evidence
             /\ p[1] \in DOMAIN results
             /\ ItemAt(results, p) \in ToSet(results[p[1]].evidence)
  <2>1. PICK i \in DOMAIN results : \E j \in DOMAIN results[i].evidence : p = <<i, j>>
    BY <1>4
  <2>2. PICK j \in DOMAIN results[i].evidence : p = <<i, j>>
    BY <2>1
  <2>3. results[i].evidence[j] \in Evidence
    BY <1>2, ElementOfSeq
  <2>4. i \in Nat /\ j \in Nat
    BY <1>1, <1>2
  <2> QED BY <2>2, <2>3, <2>4 DEF ItemAt, ToSet
<1>9. ASSUME NEW r \in ToSet(results), NEW e \in ToSet(r.evidence)
      PROVE  \E p \in Slots(results) : ItemAt(results, p) = e
  <2>1. PICK i \in DOMAIN results : r = results[i]
    BY DEF ToSet
  <2>2. PICK j \in DOMAIN results[i].evidence : e = results[i].evidence[j]
    BY <2>1 DEF ToSet
  <2>3. <<i, j>> \in Slots(results)
    BY DEF Slots
  <2>4. ItemAt(results, <<i, j>>) = e
    BY <2>2 DEF ItemAt
  <2> QED BY <2>3, <2>4
<1> QED BY <1>7, <1>8, <1>9

\* Event time, id and slot order the slots strictly and totally.
LEMMA StableOrderOrders ==
  ASSUME NEW results, Typed(results)
  PROVE  Orders(StableOrder(results), Slots(results))
<1> DEFINE S == Slots(results)
           R == StableOrder(results)
           at(p) == ItemAt(results, p).at
           id(p) == ItemAt(results, p).id
           lt(p, q) == \/ at(p) < at(q)
                       \/ /\ at(p) = at(q)
                          /\ \/ id(p) < id(q)
                             \/ /\ id(p) = id(q)
                                /\ \/ p[1] < q[1]
                                   \/ p[1] = q[1] /\ p[2] < q[2]
<1>1. \A p \in S : /\ p = <<p[1], p[2]>> /\ p[1] \in Nat /\ p[2] \in Nat
                   /\ at(p) \in Nat /\ id(p) \in Nat
  BY SlotsOfResults DEF Evidence
<1>2. \A p, q \in S : <<p, q>> \in R <=> lt(p, q)
  <2> SUFFICES ASSUME NEW p \in S, NEW q \in S PROVE <<p, q>> \in R <=> lt(p, q)
    OBVIOUS
  <2> DEFINE a == ItemAt(results, p)
             b == ItemAt(results, q)
  <2>1. <<p, q>> \in R <=> \/ Before(a, b)
                           \/ /\ ~ Before(b, a)
                              /\ p[1] < q[1] \/ (p[1] = q[1] /\ p[2] < q[2])
    BY DEF StableOrder
  <2>2. a.at \in Nat /\ b.at \in Nat /\ a.id \in Nat /\ b.id \in Nat
    BY <1>1
  <2> QED BY <2>1, <2>2 DEF Before
<1>3. ASSUME NEW x \in S, NEW y \in S, NEW z \in S
      PROVE  /\ ~ lt(x, x)
             /\ lt(x, y) /\ lt(y, z) => lt(x, z)
             /\ x # y => lt(x, y) \/ lt(y, x)
  <2>1. /\ x[1] \in Nat /\ x[2] \in Nat /\ at(x) \in Nat /\ id(x) \in Nat
        /\ y[1] \in Nat /\ y[2] \in Nat /\ at(y) \in Nat /\ id(y) \in Nat
        /\ z[1] \in Nat /\ z[2] \in Nat /\ at(z) \in Nat /\ id(z) \in Nat
    BY <1>1
  <2>2. x[1] = y[1] /\ x[2] = y[2] => x = y
    BY <1>1
  <2> HIDE DEF at, id
  <2> QED BY <2>1, <2>2
<1> HIDE DEF lt
<1> QED BY <1>2, <1>3 DEF Orders

Sorted(items) == \A i, j \in DOMAIN items : i < j => items[i].at <= items[j].at

\* All evidence of the results is listed, nothing else is, there is one entry
\* for each slot, and the entries are in the order of their event times.
LEMMA AllEvidenceListed ==
  ASSUME NEW results, Typed(results)
  PROVE  /\ AllEvidence(results) \in Seq(Evidence)
         /\ ToSet(AllEvidence(results)) = UNION {ToSet(r.evidence) : r \in ToSet(results)}
         /\ Sorted(AllEvidence(results))
<1> DEFINE S     == Slots(results)
           R     == StableOrder(results)
           c     == Cardinality(S)
           order == Arrange(S, R)
           all   == [n \in DOMAIN order |-> ItemAt(results, order[n])]
<1>1. all = AllEvidence(results)
  BY DEF AllEvidence
<1>2. c \in Nat /\ Lists(order, S, R)
  BY SlotsOfResults, StableOrderOrders, ArrangeLists
<1>3. /\ order \in [1..c -> S]
      /\ \A p \in S : \E n \in 1..c : order[n] = p
      /\ \A m, n \in 1..c : m < n => <<order[m], order[n]>> \in R
  BY <1>2 DEF Lists
<1> HIDE DEF order, S, R
<1>4. \A n \in 1..c : all[n] = ItemAt(results, order[n]) /\ order[n] \in S
  BY <1>3
<1>5. all \in [1..c -> Evidence]
  BY <1>3, <1>4, SlotsOfResults DEF S
<1>6. all \in Seq(Evidence) /\ DOMAIN all = 1..c
  BY <1>2, <1>5, SeqDef
<1> HIDE DEF all
<1>7. ToSet(all) = UNION {ToSet(r.evidence) : r \in ToSet(results)}
  <2>1. ASSUME NEW e \in ToSet(all)
        PROVE  \E r \in ToSet(results) : e \in ToSet(r.evidence)
    <3>1. PICK n \in 1..c : e = all[n]
      BY <1>6 DEF ToSet
    <3>2. order[n] \in S /\ e = ItemAt(results, order[n])
      BY <1>4, <3>1
    <3>3. /\ order[n][1] \in DOMAIN results
          /\ e \in ToSet(results[order[n][1]].evidence)
      BY <3>2, SlotsOfResults DEF S
    <3>4. results[order[n][1]] \in ToSet(results)
      BY <3>3 DEF ToSet
    <3> QED BY <3>3, <3>4
  <2>2. ASSUME NEW r \in ToSet(results), NEW e \in ToSet(r.evidence)
        PROVE  e \in ToSet(all)
    <3>1. PICK p \in S : ItemAt(results, p) = e
      BY SlotsOfResults DEF S
    <3>2. PICK n \in 1..c : order[n] = p
      BY <1>3
    <3>3. all[n] = e
      BY <1>4, <3>1, <3>2
    <3> QED BY <1>6, <3>3 DEF ToSet
  <2> QED BY <2>1, <2>2
<1>8. Sorted(all)
  <2> SUFFICES ASSUME NEW i \in 1..c, NEW j \in 1..c, i < j
               PROVE  all[i].at <= all[j].at
    BY <1>6 DEF Sorted
  <2>1. <<order[i], order[j]>> \in StableOrder(results)
    BY <1>3 DEF R
  <2>2. ~ (ItemAt(results, order[j]).at < ItemAt(results, order[i]).at)
    <3>1. /\ ItemAt(results, order[i]).at \in Nat
          /\ ItemAt(results, order[j]).at \in Nat
      BY <1>4, SlotsOfResults DEF S, Evidence
    <3> QED BY <2>1, <3>1 DEF StableOrder, Before
  <2>3. all[i].at \in Nat /\ all[j].at \in Nat
    BY <1>5 DEF Evidence
  <2> QED BY <1>4, <2>2, <2>3
<1> QED BY <1>1, <1>6, <1>7, <1>8

\* The list depends on nothing of a result but its evidence.
LEMMA SameEvidence ==
  ASSUME NEW a, NEW b, Typed(a), DOMAIN b = DOMAIN a,
         \A i \in DOMAIN a : b[i].evidence = a[i].evidence
  PROVE  AllEvidence(b) = AllEvidence(a)
<1> DEFINE order == Arrange(Slots(a), StableOrder(a))
<1>1. Slots(b) = Slots(a)
  BY DEF Slots
<1>2. \A p \in Slots(a) : p[1] \in DOMAIN a
  BY SlotsOfResults
<1>3. \A p \in Slots(a) : ItemAt(b, p) = ItemAt(a, p)
  BY <1>2 DEF ItemAt
<1>4. StableOrder(b) = StableOrder(a)
  BY <1>1, <1>3 DEF StableOrder
<1>5. \A n \in DOMAIN order : order[n] \in Slots(a)
  BY SlotsOfResults, StableOrderOrders, ArrangeLists DEF Lists
<1>6. AllEvidence(a) = [n \in DOMAIN order |-> ItemAt(a, order[n])]
  BY DEF AllEvidence
<1>7. AllEvidence(b) = [n \in DOMAIN order |-> ItemAt(b, order[n])]
  BY <1>1, <1>4 DEF AllEvidence
<1> HIDE DEF order
<1> QED BY <1>3, <1>5, <1>6, <1>7

\* The current evidence is what is listed and is no historical record.
LEMMA CurrentEvidenceListed ==
  ASSUME NEW results, Typed(results)
  PROVE  /\ CurrentEvidence(results) \in Seq(Evidence)
         /\ ToSet(CurrentEvidence(results))
              = {e \in ToSet(AllEvidence(results)) : IsCurrent(e)}
         /\ Sorted(CurrentEvidence(results))
<1> DEFINE all == AllEvidence(results)
           I   == {i \in DOMAIN all : IsCurrent(all[i])}
           cur == Keep(all, I)
<1>1. cur = CurrentEvidence(results)
  BY DEF CurrentEvidence
<1>2. /\ all \in Seq(Evidence)
      /\ DOMAIN all = 1..Len(all) /\ Len(all) \in Nat
      /\ Sorted(all)
  BY AllEvidenceListed, LenProperties
<1>3. I \in SUBSET (DOMAIN all)
  OBVIOUS
<1> HIDE DEF all, I
<1>4. /\ cur \in Seq(Evidence)
      /\ ToSet(cur) = {all[i] : i \in I}
      /\ \E from \in [DOMAIN cur -> I] :
           /\ \A m, n \in DOMAIN cur : m < n => from[m] < from[n]
           /\ \A n \in DOMAIN cur : cur[n] = all[from[n]]
  BY <1>2, <1>3, KeepList
<1> HIDE DEF cur
<1>5. ToSet(cur) = {e \in ToSet(all) : IsCurrent(e)}
  BY <1>4 DEF ToSet, I
<1>6. Sorted(cur)
  <2>1. PICK from \in [DOMAIN cur -> I] :
           /\ \A m, n \in DOMAIN cur : m < n => from[m] < from[n]
           /\ \A n \in DOMAIN cur : cur[n] = all[from[n]]
    BY <1>4
  <2> SUFFICES ASSUME NEW i \in DOMAIN cur, NEW j \in DOMAIN cur, i < j
               PROVE  cur[i].at <= cur[j].at
    BY DEF Sorted
  <2>2. from[i] < from[j] /\ from[i] \in DOMAIN all /\ from[j] \in DOMAIN all
    BY <2>1, <1>3
  <2> QED BY <1>2, <2>1, <2>2 DEF Sorted
<1> QED BY <1>1, <1>4, <1>5, <1>6 DEF all

\* Ids as many as entries: an id names one item.
LEMMA DistinctIds ==
  ASSUME NEW evidence \in Seq(Evidence),
         ~ Cardinality(Ids(evidence)) < Len(evidence)
  PROVE  \A a, b \in ToSet(evidence) : a.id = b.id => a = b
<1> DEFINE n  == Len(evidence)
           id == [i \in 1..n |-> evidence[i].id]
<1>1. n \in Nat /\ DOMAIN evidence = 1..n
  BY LenProperties
<1>2. IsFiniteSet(1..n) /\ Cardinality(1..n) = n
  BY <1>1, FS_Interval
<1>3. id \in Surjection(1..n, Ids(evidence))
  BY <1>1 DEF Surjection, Ids
<1> HIDE DEF id
<1>4. IsFiniteSet(Ids(evidence)) /\ Cardinality(Ids(evidence)) <= n
  BY <1>2, <1>3, FS_Surjection
<1>5. Cardinality(Ids(evidence)) = n
  BY <1>1, <1>4, FS_CardinalityType
<1>6. id \in Injection(1..n, Ids(evidence))
  BY <1>2, <1>3, <1>5, FS_SurjSameCardinalityImpliesInj
<1>7. \A i, j \in 1..n : evidence[i].id = evidence[j].id => i = j
  BY <1>6 DEF Injection, IsInjective, id
<1> QED BY <1>1, <1>7 DEF ToSet

\* The ids of a list are those of its items.
LEMMA IdsOfItems ==
  ASSUME NEW evidence
  PROVE  Ids(evidence) = {e.id : e \in ToSet(evidence)}
BY DEF Ids, ToSet
-----------------------------------------------------------------------------
(* The report that is composed *)

\* Whatever a draft cites in support of a statement is current, and it cites
\* something.
LEMMA CitedIsCurrent ==
  ASSUME NEW in, Typed(in.results),
         NEW c \in Draft(in).correlations \cup Draft(in).recommendations
                    \cup {{f.id} : f \in ToSet(Draft(in).findings)}
                    \cup {h.supporting : h \in Draft(in).hypotheses}
  PROVE  c # {} /\ c \subseteq Ids(CurrentEvidence(in.results))
<1> DEFINE cur == CurrentEvidence(in.results)
<1>1. /\ Draft(in).findings = cur
      /\ Draft(in).correlations = Correlations(cur)
      /\ Draft(in).recommendations = Recommendations(cur)
      /\ Draft(in).hypotheses = Hypotheses(in)
  BY DEF Draft
<1>2. Ids(cur) = {e.id : e \in ToSet(cur)}
  BY IdsOfItems
<1> SUFFICES c # {} /\ c \subseteq Ids(cur)
  OBVIOUS
<1> HIDE DEF cur
<1>3. CASE c \in Correlations(cur)
  <2>1. /\ ~ Cardinality({i \in DOMAIN cur : cur[i].kind \in Process}) < 2
        /\ c = Ids(cur)
    BY <1>3 DEF Correlations
  <2>2. ASSUME Ids(cur) = {} PROVE FALSE
    <3>1. DOMAIN cur = {}
      <4>1. \A i \in DOMAIN cur : cur[i].id \in Ids(cur)
        BY DEF Ids
      <4> QED BY <2>2, <4>1
    <3>2. Cardinality({}) = 0
      BY FS_EmptySet
    <3>3. {i \in DOMAIN cur : cur[i].kind \in Process} = {}
      BY <3>1
    <3>4. ~ Cardinality({}) < 2
      BY <2>1, <3>3
    <3> QED BY <3>2, <3>4
  <2> QED BY <2>1, <2>2
<1>4. CASE c \in Recommendations(cur)
  <2>1. PICK k \in Advised \cap {e.kind : e \in ToSet(cur)} :
          c = {e.id : e \in {x \in ToSet(cur) : x.kind = k}}
    BY <1>4 DEF Recommendations
  <2>2. PICK e \in ToSet(cur) : e.kind = k
    BY <2>1
  <2>3. e.id \in c
    BY <2>1, <2>2
  <2>4. c \subseteq Ids(cur)
    BY <1>2, <2>1
  <2> QED BY <2>3, <2>4
<1>5. CASE c \in {{f.id} : f \in ToSet(cur)}
  <2>1. PICK f \in ToSet(cur) : c = {f.id}
    BY <1>5
  <2>2. f.id \in Ids(cur)
    BY <1>2
  <2> QED BY <2>1, <2>2
<1>6. CASE c \in {h.supporting : h \in Hypotheses(in)}
  BY <1>2, <1>6 DEF Hypotheses, cur
<1> QED BY <1>1, <1>3, <1>4, <1>5, <1>6

\* The similar cases a report names are records the platform sent.
LEMMA SimilarCasesListed ==
  ASSUME NEW results, Typed(results), NEW s \in SimilarCases(results)
  PROVE  s.id \in Ids(AllEvidence(results))
<1> DEFINE all  == AllEvidence(results)
           I(c) == {i \in DOMAIN all : ~ IsCurrent(all[i]) /\ all[i].case = c}
           named == UNION {ToSet(r.data.cases) :
                             r \in {x \in ToSet(results) : x.data.type = "history"}}
<1>1. PICK c : s.id = Last(Keep(all, I(c))).id /\ Keep(all, I(c)) # <<>>
  <2>1. SimilarCases(results)
          = {[case |-> c, id |-> Last(Keep(all, I(c))).id] :
               c \in {x \in named : Keep(all, I(x)) # <<>>}}
    BY DEF SimilarCases
  <2>2. s \in SimilarCases(results)
    OBVIOUS
  <2> HIDE DEF all, I, named
  <2> QED BY <2>1, <2>2
<1>2. all \in Seq(Evidence)
  BY AllEvidenceListed
<1>3. I(c) \in SUBSET (DOMAIN all)
  OBVIOUS
<1> DEFINE J == I(c)
           k == Keep(all, J)
<1> HIDE DEF all, J
<1>4. k \in Seq(Evidence) /\ ToSet(k) = {all[i] : i \in J}
  BY <1>2, <1>3, KeepList DEF J
<1>5. k # <<>> /\ s.id = Last(k).id
  BY <1>1 DEF J
<1> HIDE DEF k
<1>6. Len(k) \in DOMAIN k
  BY <1>4, <1>5, EmptySeq, LenProperties
<1>7. Last(k) \in ToSet(k)
  BY <1>6 DEF Last, ToSet
<1>8. PICK i \in DOMAIN all : Last(k) = all[i]
  BY <1>3, <1>4, <1>7 DEF J
<1> QED BY <1>5, <1>8 DEF Ids, all

\* What an uncertainty is about are items of the report.
LEMMA UncertaintiesListed ==
  ASSUME NEW in, Typed(in.results), NEW u \in Uncertainties(in)
  PROVE  u.about \subseteq Ids(AllEvidence(in.results))
<1> DEFINE all == AllEvidence(in.results)
           cur == CurrentEvidence(in.results)
<1>1. /\ ToSet(all) = UNION {ToSet(r.evidence) : r \in ToSet(in.results)}
      /\ ToSet(cur) \subseteq ToSet(all)
  BY AllEvidenceListed, CurrentEvidenceListed
<1>2. /\ Ids(all) = {e.id : e \in ToSet(all)}
      /\ Ids(cur) = {e.id : e \in ToSet(cur)}
      /\ \A r : Ids(r.evidence) = {e.id : e \in ToSet(r.evidence)}
  BY IdsOfItems
<1> HIDE DEF all, cur
<1>3. ASSUME NEW r \in ToSet(in.results), u \in SourceGaps(r)
      PROVE  u.about \subseteq Ids(all)
  <2>1. Ids(r.evidence) \subseteq Ids(all)
    <3>1. Ids(r.evidence) = {e.id : e \in ToSet(r.evidence)}
      BY <1>2
    <3>2. ToSet(r.evidence) \subseteq ToSet(all)
      BY <1>1
    <3> QED BY <1>2, <3>1, <3>2
  <2>2. \A e \in ToSet(r.evidence) : e.id \in Ids(r.evidence)
    BY <1>2
  <2>3. u.about = Ids(r.evidence) \/ \E e \in ToSet(r.evidence) : u \in ItemGaps(r, e)
    BY <1>3 DEF SourceGaps, Gap
  <2>4. ASSUME NEW e \in ToSet(r.evidence), u \in ItemGaps(r, e)
        PROVE  u.about = {e.id} \/ u.about = Ids(r.evidence)
    BY <2>4 DEF ItemGaps, Gap
  <2> QED BY <2>1, <2>2, <2>3, <2>4
<1>4. CASE u \in {Gap("no model", "any", Ids(cur)) : d \in {in.decision} \cap {NoDecision}}
  BY <1>1, <1>2, <1>4 DEF Gap
<1>5. \/ \E r \in ToSet(in.results) : u \in SourceGaps(r)
      \/ u \in {Gap("no model", "any", Ids(cur)) : d \in {in.decision} \cap {NoDecision}}
  BY DEF Uncertainties, cur
<1> QED BY <1>3, <1>4, <1>5 DEF all

\* compose_report and validate_report agree: what the preflight lets through
\* is composed into a draft that has no fault of the composition's own.
THEOREM DraftsPass ==
  ASSUME NEW in, Typed(in.results), \A x \in PreflightError : ~ FailsPreflight(in, x)
  PROVE  \A x \in DraftError : ~ Violates(Draft(in), in, x)
<1> DEFINE all   == AllEvidence(in.results)
           cur   == CurrentEvidence(in.results)
           draft == Draft(in)
           cited == draft.correlations \cup draft.recommendations
                      \cup {{f.id} : f \in ToSet(draft.findings)}
                      \cup {h.supporting : h \in draft.hypotheses}
<1>1. /\ draft.evidence = all /\ draft.findings = cur
      /\ draft.timeline = [i \in DOMAIN cur |-> cur[i].at]
      /\ draft.hypotheses = Hypotheses(in)
      /\ draft.similarCases = SimilarCases(in.results)
      /\ draft.uncertainties = Uncertainties(in)
  BY DEF Draft
<1>2. \A c \in cited : c # {} /\ c \subseteq Ids(cur)
  BY CitedIsCurrent
<1>3. /\ all \in Seq(Evidence) /\ Sorted(cur)
      /\ ToSet(cur) = {e \in ToSet(all) : IsCurrent(e)}
  BY AllEvidenceListed, CurrentEvidenceListed
<1>4. Ids(cur) = {e.id : e \in ToSet(cur)} /\ Ids(all) = {e.id : e \in ToSet(all)}
  BY IdsOfItems
<1>5. ~ Cardinality(Ids(all)) < Len(all)
  BY DEF FailsPreflight, PreflightError
<1>6. \A a, b \in ToSet(all) : a.id = b.id => a = b
  BY <1>3, <1>5, DistinctIds
<1>7. Ids(cur) \subseteq Ids(all)
  BY <1>3, <1>4
<1>8. \A s \in draft.similarCases : s.id \in Ids(all)
  BY <1>1, SimilarCasesListed
<1>9. \A u \in draft.uncertainties : u.about \subseteq Ids(all)
  BY <1>1, UncertaintiesListed
<1>10. \A h \in draft.hypotheses : /\ h.supporting \cup h.contradicting \subseteq Ids(cur)
                                   /\ h.assessment = in.decision
  BY <1>1, <1>4 DEF Hypotheses
<1> HIDE DEF all, cur, draft, cited
<1>11. ~ Violates(draft, in, "schema: empty references")
  <2>1. {} \notin cited
    BY <1>2
  <2> QED BY <2>1 DEF Violates, cited
<1>12. ~ Violates(draft, in, "duplicate ids")
  BY <1>1, <1>5 DEF Violates
<1>13. ~ Violates(draft, in, "unknown reference")
  <2>1. (UNION draft.correlations) \subseteq Ids(cur) /\ (UNION draft.recommendations) \subseteq Ids(cur)
    BY <1>2 DEF cited
  <2>2. /\ Ids(draft.findings) \subseteq Ids(all)
        /\ (UNION draft.correlations) \subseteq Ids(all)
        /\ (UNION draft.recommendations) \subseteq Ids(all)
    BY <1>1, <1>7, <2>1
  <2> DEFINE judged   == UNION {h.supporting \cup h.contradicting : h \in draft.hypotheses}
             similar  == {s.id : s \in draft.similarCases}
             doubtful == UNION {u.about : u \in draft.uncertainties}
  <2>3. judged \subseteq Ids(all)
    BY <1>7, <1>10
  <2>4. similar \subseteq Ids(all)
    BY <1>8
  <2>5. doubtful \subseteq Ids(all)
    BY <1>9
  <2>6. References(draft) \subseteq Ids(all)
    <3>1. References(draft)
            = Ids(draft.findings) \cup (UNION draft.correlations)
                \cup (UNION draft.recommendations) \cup judged \cup similar \cup doubtful
      BY DEF References
    <3> HIDE DEF judged, similar, doubtful
    <3> QED BY <2>2, <2>3, <2>4, <2>5, <3>1
  <2> QED BY <1>1, <2>6 DEF Violates
<1>14. ~ Violates(draft, in, "timeline order")
  <2>1. DOMAIN draft.timeline = DOMAIN cur
    BY <1>1
  <2>2. ASSUME NEW i \in DOMAIN cur, NEW j \in DOMAIN cur, i < j
        PROVE  ~ draft.timeline[i] > draft.timeline[j]
    <3>1. draft.timeline[i] = cur[i].at /\ draft.timeline[j] = cur[j].at
      BY <1>1
    <3>2. cur[i].at <= cur[j].at
      BY <1>3, <2>2 DEF Sorted
    <3>3. cur[i].at \in Nat /\ cur[j].at \in Nat
      <4>1. cur \in Seq(Evidence)
        BY CurrentEvidenceListed DEF cur
      <4>2. cur[i] \in Evidence /\ cur[j] \in Evidence
        BY <4>1, LenProperties, ElementOfSeq
      <4> QED BY <4>2 DEF Evidence
    <3> QED BY <3>1, <3>2, <3>3
  <2> QED BY <2>1, <2>2 DEF Violates
<1>15. ~ Violates(draft, in, "assessment not preserved")
  BY <1>10 DEF Violates
<1>16. ~ Violates(draft, in, "only historical support")
  <2> DEFINE historical == {e.id : e \in {x \in ToSet(all) : ~ IsCurrent(x)}}
  <2> SUFFICES ASSUME NEW c \in cited, c # {}, c \subseteq historical PROVE FALSE
    BY <1>1 DEF Violates, cited
  <2>1. PICK id \in c : TRUE
    OBVIOUS
  <2>2. PICK e \in ToSet(cur) : e.id = id
    BY <1>2, <1>4, <2>1
  <2>3. PICK x \in ToSet(all) : x.id = id /\ ~ IsCurrent(x)
    BY <2>1
  <2>4. e \in ToSet(all) /\ IsCurrent(e)
    BY <1>3, <2>2
  <2> QED BY <1>6, <2>2, <2>3, <2>4
<1> QED BY <1>11, <1>12, <1>13, <1>14, <1>15, <1>16 DEF DraftError, draft
-----------------------------------------------------------------------------
(* What is published *)

\* o is what compose_report publishes of in, with whatever harmless prose was
\* attached to it since.
IsPublication(o, in) ==
  /\ \A x \in PreflightError : ~ FailsPreflight(in, x)
  /\ ValidationErrors(Draft(in), in) = {}
  /\ o = [status |-> StatusOf(Draft(in)),
          report |-> [Draft(in) EXCEPT !.expression = o.report.expression],
          errors |-> {}]
  /\ o.report.expression # "claim"

\* The parts of a publication are those of the draft.
LEMMA PublicationParts ==
  ASSUME NEW o, NEW in, IsPublication(o, in)
  PROVE  /\ o.report.evidence = AllEvidence(in.results)
         /\ o.report.findings = CurrentEvidence(in.results)
         /\ o.report.hypotheses = Hypotheses(in)
         /\ o.report.uncertainties = Uncertainties(in)
         /\ o.report # NoReport
         /\ o.errors = {} /\ o.status = StatusOf(Draft(in))
<1> DEFINE text == o.report.expression
<1>1. /\ o.report = [Draft(in) EXCEPT !.expression = text]
      /\ o.errors = {} /\ o.status = StatusOf(Draft(in))
  BY DEF IsPublication
<1> HIDE DEF text
<1>2. /\ o.report.evidence = Draft(in).evidence
      /\ o.report.findings = Draft(in).findings
      /\ o.report.hypotheses = Draft(in).hypotheses
      /\ o.report.uncertainties = Draft(in).uncertainties
      /\ DOMAIN o.report = DOMAIN Draft(in)
  BY <1>1 DEF Draft
<1>3. "evidence" \in DOMAIN Draft(in) /\ "evidence" \notin DOMAIN NoReport
  BY DEF Draft, NoReport
<1> QED BY <1>1, <1>2, <1>3 DEF Draft

\* compose_report publishes nothing but the draft, and only one that passed
\* both the preflight and the validation.
LEMMA ComposedReport ==
  ASSUME NEW in, Compose(in).report # NoReport
  PROVE  IsPublication(Compose(in), in)
<1>1. /\ {x \in PreflightError : FailsPreflight(in, x)} = {}
      /\ ValidationErrors(Draft(in), in) = {}
  BY DEF Compose, Failed
<1>2. Compose(in) = [status |-> StatusOf(Draft(in)), report |-> Draft(in),
                     errors |-> {}]
  BY <1>1 DEF Compose
<1>3. Draft(in).expression = "none" /\ Draft(in) = [Draft(in) EXCEPT !.expression = "none"]
  BY DEF Draft
<1> HIDE DEF Draft
<1> QED BY <1>1, <1>2, <1>3 DEF IsPublication

\* attach_expression changes nothing but the prose, and attaches none that
\* claims a cause.
LEMMA AttachedReport ==
  ASSUME NEW o, NEW in, NEW text, IsPublication(o, in)
  PROVE  IsPublication(Attach(o, text), in)
<1>1. CASE o.report = NoReport \/ text = "claim"
  BY <1>1 DEF Attach
<1>2. CASE ~ (o.report = NoReport \/ text = "claim")
  <2> DEFINE d    == Draft(in)
             prose == o.report.expression
             new   == Attach(o, text)
  <2>1. new = [o EXCEPT !.report.expression = text]
    BY <1>2 DEF Attach
  <2>2. o = [status |-> StatusOf(d), report |-> [d EXCEPT !.expression = prose],
             errors |-> {}]
    BY DEF IsPublication
  <2>3. "expression" \in DOMAIN d
    BY DEF Draft
  <2> HIDE DEF d, prose, new
  <2>4. new = [status |-> StatusOf(d), report |-> [d EXCEPT !.expression = text],
               errors |-> {}]
    <3>1. new = [o EXCEPT !.report = [o.report EXCEPT !.expression = text]]
      BY <2>1
    <3>2. o.report = [d EXCEPT !.expression = prose]
      BY <2>2
    <3>3. [o.report EXCEPT !.expression = text] = [d EXCEPT !.expression = text]
      BY <3>2
    <3> QED BY <2>2, <3>1, <3>3
  <2>5. new.report.expression = text
    BY <2>3, <2>4
  <2> QED BY <1>2, <2>4, <2>5 DEF IsPublication, d, new
<1> QED BY <1>1, <1>2

\* Nothing published claims a cause.
LEMMA PublicationIsClean ==
  ASSUME NEW o, NEW in, IsPublication(o, in)
  PROVE  /\ \A f \in ToSet(o.report.findings) : "claim" \notin f.flaws
         /\ \A u \in o.report.uncertainties : u.what # "claim"
         /\ o.report.expression # "claim"
<1>1. {x \in DataError \cup DraftError : Violates(Draft(in), in, x)} = {}
  BY DEF ValidationErrors, IsPublication
<1>2. ~ Violates(Draft(in), in, "causal claim")
  BY <1>1 DEF DataError
<1>3. /\ \A f \in ToSet(Draft(in).findings) : "claim" \notin f.flaws
      /\ \A u \in Draft(in).uncertainties : u.what # "claim"
  BY <1>2 DEF Violates
<1>4. /\ Draft(in).findings = CurrentEvidence(in.results)
      /\ Draft(in).uncertainties = Uncertainties(in)
  BY DEF Draft
<1> QED BY <1>3, <1>4, PublicationParts DEF IsPublication

\* The outcome of composing has one of three statuses, and what it was refused
\* for are faults of the evidence and not of the draft.
THEOREM ComposeOutcome ==
  ASSUME NEW in, Typed(in.results)
  PROVE  /\ Compose(in).status \in {"COMPLETED", "PARTIAL_RESULT", "FAILED"}
         /\ Compose(in).report # NoReport =>
              Compose(in).status \in {"COMPLETED", "PARTIAL_RESULT"}
         /\ Compose(in).errors \cap DraftError = {}
<1> DEFINE preflight == {x \in PreflightError : FailsPreflight(in, x)}
           invalid   == ValidationErrors(Draft(in), in)
<1>1. CASE preflight # {}
  <2>1. Compose(in) = Failed(preflight)
    BY <1>1 DEF Compose
  <2>2. preflight \cap DraftError = {}
    BY DEF PreflightError, DraftError
  <2> QED BY <2>1, <2>2 DEF Failed
<1>2. CASE preflight = {} /\ invalid # {}
  <2>1. Compose(in) = Failed(invalid)
    BY <1>2 DEF Compose
  <2>2. \A x \in DraftError : ~ Violates(Draft(in), in, x)
    BY <1>2, DraftsPass
  <2>3. invalid \subseteq {x \in DataError \cup DraftError : Violates(Draft(in), in, x)}
    BY DEF ValidationErrors
  <2>4. invalid \cap DraftError = {}
    BY <2>2, <2>3
  <2> QED BY <2>1, <2>4 DEF Failed
<1>3. CASE preflight = {} /\ invalid = {}
  <2>1. Compose(in) = [status |-> StatusOf(Draft(in)), report |-> Draft(in),
                       errors |-> {}]
    BY <1>3 DEF Compose
  <2>2. StatusOf(Draft(in)) \in {"COMPLETED", "PARTIAL_RESULT"}
    BY DEF StatusOf
  <2> QED BY <2>1, <2>2
<1> QED BY <1>1, <1>2, <1>3

\* Without uncertainties there is nothing an uncertainty would have been for.
LEMMA NoUncertainty ==
  ASSUME NEW in, Uncertainties(in) = {}
  PROVE  /\ \A r \in ToSet(in.results) :
              /\ r.status \notin {"FAILED", "PARTIAL"} /\ r.notes = {}
              /\ \A e \in ToSet(r.evidence) :
                   e.quality \notin {"PARTIAL", "CONFLICTING"} /\ e.notes = {}
         /\ in.decision # NoDecision
<1>1. /\ \A r \in ToSet(in.results) : SourceGaps(r) = {}
      /\ {in.decision} \cap {NoDecision} = {}
  BY DEF Uncertainties
<1>2. ASSUME NEW r \in ToSet(in.results)
      PROVE  /\ r.status \notin {"FAILED", "PARTIAL"} /\ r.notes = {}
             /\ \A e \in ToSet(r.evidence) : ItemGaps(r, e) = {}
  <2>1. /\ {Gap(s, r.tool, Ids(r.evidence)) : s \in {r.status} \cap {"FAILED", "PARTIAL"}} = {}
        /\ {Gap(n, "any", Ids(r.evidence)) : n \in r.notes} = {}
        /\ (UNION {ItemGaps(r, e) : e \in ToSet(r.evidence)}) = {}
    BY <1>1 DEF SourceGaps
  <2>2. {r.status} \cap {"FAILED", "PARTIAL"} = {}
    BY <2>1
  <2>3. r.notes = {}
    BY <2>1
  <2>4. \A e \in ToSet(r.evidence) : ItemGaps(r, e) = {}
    BY <2>1
  <2> QED BY <2>2, <2>3, <2>4
<1>3. ASSUME NEW r \in ToSet(in.results), NEW e \in ToSet(r.evidence)
      PROVE  e.quality \notin {"PARTIAL", "CONFLICTING"} /\ e.notes = {}
  <2>1. ItemGaps(r, e) = {}
    BY <1>2
  <2> QED BY <2>1 DEF ItemGaps
<1> QED BY <1>1, <1>2, <1>3

\* An item that is not verified leaves a gap that cites it.
LEMMA UnverifiedIsCited ==
  ASSUME NEW in, Typed(in.results), NEW e \in ToSet(AllEvidence(in.results)),
         e.quality # "VERIFIED"
  PROVE  \E u \in Uncertainties(in) : e.id \in u.about
<1>1. PICK r \in ToSet(in.results) : e \in ToSet(r.evidence)
  BY AllEvidenceListed
<1>2. e.quality \in {"PARTIAL", "CONFLICTING"}
  <2>1. e \in Evidence
    BY AllEvidenceListed, LenProperties, ElementOfSeq DEF ToSet
  <2> QED BY <2>1 DEF Evidence, Quality
<1>3. e.id \in Ids(r.evidence)
  BY <1>1, IdsOfItems
<1>4. PICK u \in ItemGaps(r, e) : e.id \in u.about
  <2>1. CASE e.quality = "PARTIAL"
    <3>1. Gap("partial evidence", r.tool, {e.id}) \in ItemGaps(r, e)
      BY <2>1 DEF ItemGaps
    <3> QED BY <3>1 DEF Gap
  <2>2. CASE e.quality = "CONFLICTING"
    <3>1. Gap("conflict", r.tool, Ids(r.evidence)) \in ItemGaps(r, e)
      BY <2>2 DEF ItemGaps
    <3> QED BY <1>3, <3>1 DEF Gap
  <2> QED BY <1>2, <2>1, <2>2
<1>5. u \in SourceGaps(r)
  BY <1>1, <1>4 DEF SourceGaps
<1>6. u \in Uncertainties(in)
  BY <1>1, <1>5 DEF Uncertainties
<1> QED BY <1>4, <1>6

\* A report called complete was made from calls answered in full, from items
\* that are verified and without a warning, and from a judgement of the model.
THEOREM CompletePublication ==
  ASSUME NEW o, NEW in, Typed(in.results), IsPublication(o, in),
         o.status = "COMPLETED"
  PROVE  /\ \A r \in ToSet(in.results) : r.status = "SUCCEEDED" /\ r.notes = {}
         /\ \A e \in ToSet(o.report.evidence) : e.quality = "VERIFIED" /\ e.notes = {}
         /\ in.decision # NoDecision
<1>1. Uncertainties(in) = {}
  <2>1. StatusOf(Draft(in)) = "COMPLETED" /\ Draft(in).uncertainties = Uncertainties(in)
    BY PublicationParts DEF Draft
  <2> QED BY <2>1 DEF StatusOf
<1>2. \A r \in ToSet(in.results) : r.status \in {"SUCCEEDED", "PARTIAL", "FAILED"}
  <2>1. \A r \in ToSet(in.results) : r \in ToolResult
    BY LenProperties, ElementOfSeq DEF Typed, ToSet
  <2> QED BY <2>1 DEF ToolResult
<1>3. \A e \in ToSet(o.report.evidence) : e.quality = "VERIFIED" /\ e.notes = {}
  <2> SUFFICES ASSUME NEW e \in ToSet(AllEvidence(in.results))
               PROVE  e.quality = "VERIFIED" /\ e.notes = {}
    BY PublicationParts
  <2>1. e.quality = "VERIFIED"
    BY <1>1, UnverifiedIsCited
  <2>2. PICK r \in ToSet(in.results) : e \in ToSet(r.evidence)
    BY AllEvidenceListed
  <2> QED BY <1>1, <2>1, <2>2, NoUncertainty
<1> QED BY <1>1, <1>2, <1>3, NoUncertainty

\* A report called partial names a gap, and cites each unverified item in one.
THEOREM PartialPublication ==
  ASSUME NEW o, NEW in, Typed(in.results), IsPublication(o, in),
         o.status = "PARTIAL_RESULT"
  PROVE  /\ o.report.uncertainties # {}
         /\ \A e \in ToSet(o.report.evidence) : e.quality # "VERIFIED" =>
              \E u \in o.report.uncertainties : e.id \in u.about
<1>1. /\ o.report.uncertainties = Uncertainties(in)
      /\ o.report.evidence = AllEvidence(in.results)
      /\ StatusOf(Draft(in)) = "PARTIAL_RESULT"
  BY PublicationParts
<1>2. \/ Uncertainties(in) # {}
      \/ \E f \in ToSet(CurrentEvidence(in.results)) : f.quality # "VERIFIED"
  <2>1. /\ Draft(in).uncertainties = Uncertainties(in)
        /\ Draft(in).findings = CurrentEvidence(in.results)
    BY DEF Draft
  <2> QED BY <1>1, <2>1 DEF StatusOf
<1>3. \A e \in ToSet(AllEvidence(in.results)) : e.quality # "VERIFIED" =>
        \E u \in Uncertainties(in) : e.id \in u.about
  BY UnverifiedIsCited
<1>4. ToSet(CurrentEvidence(in.results)) \subseteq ToSet(AllEvidence(in.results))
  BY CurrentEvidenceListed
<1> QED BY <1>1, <1>2, <1>3, <1>4

\* A hypothesis is supported by undisputed current items about the pressure
\* alone, and names the disputed ones.
THEOREM GroundedPublication ==
  ASSUME NEW o, NEW in, Typed(in.results), IsPublication(o, in),
         NEW h \in o.report.hypotheses
  PROVE  /\ h.supporting # {}
         /\ \A e \in ToSet(o.report.evidence) : e.id \in h.supporting =>
              IsCurrent(e) /\ e.pressure /\ e.quality # "CONFLICTING"
         /\ \A e \in ToSet(o.report.evidence) :
              e.kind \in Process /\ e.pressure /\ e.quality = "CONFLICTING" =>
                e.id \in h.contradicting
         /\ h.assessment = in.decision /\ in.decision.questions = in.questions
<1> DEFINE all      == AllEvidence(in.results)
           cur      == CurrentEvidence(in.results)
           pressure == {e \in ToSet(cur) : e.kind \in Process /\ e.pressure}
           contra   == {e \in pressure : e.quality = "CONFLICTING"}
           support  == pressure \ contra
<1>1. h \in Hypotheses(in) /\ o.report.evidence = all
  BY PublicationParts
<1>2. /\ support # {} /\ in.decision # NoDecision
      /\ h.supporting = {e.id : e \in support}
      /\ h.contradicting = {e.id : e \in contra}
      /\ h.assessment = in.decision
  BY <1>1 DEF Hypotheses
<1>3. in.decision.questions = in.questions
  BY <1>2 DEF IsPublication, FailsPreflight, PreflightError
<1>4. /\ all \in Seq(Evidence) /\ ~ Cardinality(Ids(all)) < Len(all)
      /\ ToSet(cur) = {e \in ToSet(all) : IsCurrent(e)}
  BY AllEvidenceListed, CurrentEvidenceListed DEF IsPublication, FailsPreflight, PreflightError
<1>5. \A a, b \in ToSet(all) : a.id = b.id => a = b
  BY <1>4, DistinctIds
<1> HIDE DEF all, cur
<1>6. ASSUME NEW e \in ToSet(all), e.id \in h.supporting
      PROVE  IsCurrent(e) /\ e.pressure /\ e.quality # "CONFLICTING"
  <2>1. PICK x \in support : x.id = e.id
    BY <1>2, <1>6
  <2>2. x \in ToSet(all) /\ IsCurrent(x)
    BY <1>4, <2>1
  <2>3. x = e
    BY <1>5, <2>1, <2>2
  <2> QED BY <2>1, <2>2, <2>3
<1>7. ASSUME NEW e \in ToSet(all), e.kind \in Process, e.pressure, e.quality = "CONFLICTING"
      PROVE  e.id \in h.contradicting
  <2>1. IsCurrent(e)
    BY <1>7 DEF IsCurrent, Process
  <2>2. e \in contra
    BY <1>4, <1>7, <2>1
  <2> QED BY <1>2, <2>2
<1>8. h.supporting # {}
  BY <1>2
<1> QED BY <1>1, <1>2, <1>3, <1>6, <1>7, <1>8

\* compose_report publishes exactly what passes the preflight and has no fault
\* of the evidence: validation of the draft never decides anything else.
THEOREM PublishedExactly ==
  ASSUME NEW in, Typed(in.results)
  PROVE  Compose(in).report # NoReport
           <=> /\ \A x \in PreflightError : ~ FailsPreflight(in, x)
               /\ \A x \in DataError : ~ Violates(Draft(in), in, x)
<1>1. ASSUME Compose(in).report # NoReport
      PROVE  /\ \A x \in PreflightError : ~ FailsPreflight(in, x)
             /\ \A x \in DataError : ~ Violates(Draft(in), in, x)
  BY <1>1, ComposedReport DEF IsPublication, ValidationErrors
<1>2. ASSUME \A x \in PreflightError : ~ FailsPreflight(in, x),
             \A x \in DataError : ~ Violates(Draft(in), in, x)
      PROVE  Compose(in).report # NoReport
  <2>1. {x \in PreflightError : FailsPreflight(in, x)} = {}
    BY <1>2
  <2>2. \A x \in DraftError : ~ Violates(Draft(in), in, x)
    BY <1>2, DraftsPass
  <2>3. {x \in DataError \cup DraftError : Violates(Draft(in), in, x)} = {}
    BY <1>2, <2>2
  <2>4. ValidationErrors(Draft(in), in) = {}
    BY <2>3 DEF ValidationErrors
  <2>5. Compose(in).report = Draft(in)
    BY <2>1, <2>4 DEF Compose
  <2>6. "evidence" \in DOMAIN Draft(in) /\ "evidence" \notin DOMAIN NoReport
    BY DEF Draft, NoReport
  <2> QED BY <2>5, <2>6
<1> QED BY <1>1, <1>2

\* A publication is called complete exactly if nothing is missing: no call was
\* answered in part, no item or result came with a reservation, and the model
\* was heard.
THEOREM CompletedExactly ==
  ASSUME NEW o, NEW in, Typed(in.results), IsPublication(o, in)
  PROVE  o.status = "COMPLETED"
           <=> /\ \A r \in ToSet(in.results) : r.status = "SUCCEEDED" /\ r.notes = {}
               /\ \A e \in ToSet(o.report.evidence) : e.quality = "VERIFIED" /\ e.notes = {}
               /\ in.decision # NoDecision
<1>1. o.report.evidence = AllEvidence(in.results) /\ o.status = StatusOf(Draft(in))
  BY PublicationParts
<1>2. ASSUME \A r \in ToSet(in.results) : r.status = "SUCCEEDED" /\ r.notes = {},
             \A e \in ToSet(AllEvidence(in.results)) : e.quality = "VERIFIED" /\ e.notes = {},
             in.decision # NoDecision
      PROVE  o.status = "COMPLETED"
  <2>1. ASSUME NEW r \in ToSet(in.results) PROVE SourceGaps(r) = {}
    <3>1. ASSUME NEW e \in ToSet(r.evidence) PROVE ItemGaps(r, e) = {}
      <4>1. e \in ToSet(AllEvidence(in.results))
        BY AllEvidenceListed
      <4>2. e.quality = "VERIFIED" /\ e.notes = {}
        BY <1>2, <4>1
      <4> QED BY <4>2 DEF ItemGaps
    <3>2. (UNION {ItemGaps(r, e) : e \in ToSet(r.evidence)}) = {}
      BY <3>1
    <3>3. {r.status} \cap {"FAILED", "PARTIAL"} = {} /\ r.notes = {}
      BY <1>2
    <3> QED BY <3>2, <3>3 DEF SourceGaps
  <2>2. (UNION {SourceGaps(r) : r \in ToSet(in.results)}) = {}
    BY <2>1
  <2>3. {in.decision} \cap {NoDecision} = {}
    BY <1>2
  <2>4. Uncertainties(in) = {}
    BY <2>2, <2>3 DEF Uncertainties
  <2>5. \A f \in ToSet(CurrentEvidence(in.results)) : f.quality = "VERIFIED"
    BY <1>2, CurrentEvidenceListed
  <2>6. /\ Draft(in).uncertainties = Uncertainties(in)
        /\ Draft(in).findings = CurrentEvidence(in.results)
    BY DEF Draft
  <2>7. StatusOf(Draft(in)) = "COMPLETED"
    BY <2>4, <2>5, <2>6 DEF StatusOf
  <2> QED BY <1>1, <2>7
<1> QED BY <1>1, <1>2, CompletePublication
=============================================================================
