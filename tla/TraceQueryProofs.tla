-------------------------- MODULE TraceQueryProofs --------------------------
(***************************************************************************)
(* Theorems about TraceQuery, for any spans, keys, requests, page sizes,   *)
(* caps and precision of the cursor: a reader that pages through a list    *)
(* misses no trace and is told no trace twice that stayed where it was,    *)
(* and every page lies below the one before it; a listed trace opens; a    *)
(* value a select offers finds a trace; the list, its filters and the      *)
(* capability tables count the same failures, each call once; the          *)
(* waterfall of a trace is a tree of all its spans; and the detail says    *)
(* what the list says, and each of its spans opens as it was drawn.        *)
(***************************************************************************)
EXTENDS TraceQuery, FiniteSetTheorems, NaturalsInduction, SequenceTheorems,
        WellFoundedInduction, TLAPS

-----------------------------------------------------------------------------
(***************************************************************************)
(* Finite sets: the least number of one, two elements and one, and what a  *)
(* sum over a set adds up to.                                              *)
(***************************************************************************)

(* Every non-empty set of naturals has a least element.                    *)
LEMMA LeastExists ==
  ASSUME NEW S \in SUBSET Nat, S # {}
  PROVE  \E m \in S : \A x \in S : m <= x
<1> DEFINE R == {p \in Nat \X Nat : p[1] < p[2]}
<1>1. IsWellFoundedOn(R, Nat)
  BY NatLessThanWellFounded DEF OpToRel
<1>2. \E m \in S : \A y \in S : ~ (<<y, m>> \in R)
  <2> HIDE DEF R
  <2> QED BY <1>1, WFMin
<1>3. PICK m \in S : \A y \in S : <<y, m>> \notin R
  BY <1>2
<1>4. ASSUME NEW y \in S PROVE m <= y
  <2>1. y < m => <<y, m>> \in R
    OBVIOUS
  <2> QED BY <1>3, <2>1
<1> QED BY <1>4

\* Two elements are two, so a set of at most one holds no two.
LEMMA TwoAreTwo == ASSUME NEW a, NEW b, a # b PROVE Cardinality({a, b}) = 2
<1>1. IsFiniteSet({a}) /\ Cardinality({a}) = 1
  BY FS_Singleton
<1>2. Cardinality({a} \cup {b}) = Cardinality({a}) + 1
  BY <1>1, FS_AddElement
<1>3. {a, b} = {a} \cup {b}
  OBVIOUS
<1> QED BY <1>1, <1>2, <1>3

LEMMA OnlyOneIn ==
  ASSUME NEW V, IsFiniteSet(V), Cardinality(V) <= 1, NEW a \in V, NEW b \in V PROVE a = b
<1> SUFFICES ASSUME a # b PROVE FALSE
  OBVIOUS
<1>1. {a, b} \in SUBSET V /\ Cardinality({a, b}) = 2
  BY TwoAreTwo
<1>2. Cardinality({a, b}) <= Cardinality(V) /\ Cardinality(V) \in Nat
  BY <1>1, FS_Subset, FS_CardinalityType
<1> QED BY <1>1, <1>2

-----------------------------------------------------------------------------
(***************************************************************************)
(* Sums.                                                                   *)
(***************************************************************************)

\* A sum over a set, as its definition builds it up from the empty set.
Pick(s) == CHOOSE x \in s : TRUE

IsSum(it, f, S) ==
  it = [s \in SUBSET S |-> IF s = {} THEN 0 ELSE f[Pick(s)] + it[s \ {Pick(s)}]]

\* What the elements of s stand for, when each stands for a set of its own.
PartsOf(P, s) == UNION {P[x] : x \in s}

Partition(P, X) ==
  /\ IsFiniteSet(X)
  /\ \A x \in X : IsFiniteSet(P[x])
  /\ \A x, y \in X : x # y => P[x] \cap P[y] = {}

\* The parts together are finite; one part less counts that many less; none is none.
LEMMA PartsFinite ==
  ASSUME NEW X, NEW P, Partition(P, X), NEW s \in SUBSET X
  PROVE  IsFiniteSet(PartsOf(P, s)) /\ Cardinality(PartsOf(P, s)) \in Nat
<1> DEFINE C == [x \in s |-> P[x]]
           T == {P[x] : x \in s}
<1>1. IsFiniteSet(s)
  BY FS_Subset DEF Partition
<1>2. C \in Surjection(s, T)
  BY DEF Surjection
<1>3. IsFiniteSet(T)
  BY <1>1, <1>2, FS_Surjection
<1>4. \A t \in T : IsFiniteSet(t)
  BY DEF Partition
<1>5. IsFiniteSet(PartsOf(P, s))
  BY <1>3, <1>4, FS_UNION DEF PartsOf
<1> QED BY <1>5, FS_CardinalityType

LEMMA PartsSplit ==
  ASSUME NEW X, NEW P, Partition(P, X), NEW s \in SUBSET X, NEW x \in s
  PROVE  Cardinality(PartsOf(P, s)) = Cardinality(P[x]) + Cardinality(PartsOf(P, s \ {x}))
<1> DEFINE U == PartsOf(P, s \ {x})
<1>1. PartsOf(P, s) = U \cup P[x]
  BY DEF PartsOf
<1>2. U \cap P[x] = {}
  BY DEF PartsOf, Partition
<1>3. IsFiniteSet(U) /\ Cardinality(U) \in Nat
  BY PartsFinite
<1>4. IsFiniteSet(P[x]) /\ Cardinality(P[x]) \in Nat
  BY FS_CardinalityType DEF Partition
<1>5. Cardinality(U \cap P[x]) = 0
  BY <1>2, FS_EmptySet
<1> HIDE DEF U
<1>6. Cardinality(U \cup P[x]) = Cardinality(U) + Cardinality(P[x]) - Cardinality(U \cap P[x])
  BY <1>3, <1>4, FS_Union
<1>7. Cardinality(U \cup P[x]) = Cardinality(P[x]) + Cardinality(U)
  BY <1>3, <1>4, <1>5, <1>6
<1> QED BY <1>1, <1>7 DEF U

LEMMA NoParts == ASSUME NEW P PROVE Cardinality(PartsOf(P, {})) = 0
<1>1. PartsOf(P, {}) = {}
  BY DEF PartsOf
<1> QED BY <1>1, FS_EmptySet

\* Counting what they stand for satisfies that equation, and nothing else does: the
\* smallest set on which another solution differed would be a counterexample.
LEMMA PartsAreSum ==
  ASSUME NEW X, NEW P, Partition(P, X), NEW f, \A x \in X : f[x] = Cardinality(P[x])
  PROVE  \E it : IsSum(it, f, X)
<1> DEFINE W == [s \in SUBSET X |-> Cardinality(PartsOf(P, s))]
<1>1. ASSUME NEW s \in SUBSET X
      PROVE  W[s] = IF s = {} THEN 0 ELSE f[Pick(s)] + W[s \ {Pick(s)}]
  <2>1. CASE s = {}
    BY <2>1, NoParts
  <2>2. CASE s # {}
    <3>1. Pick(s) \in s
      BY <2>2 DEF Pick
    <3>2. s \ {Pick(s)} \in SUBSET X
      OBVIOUS
    <3>3. Cardinality(PartsOf(P, s))
            = Cardinality(P[Pick(s)]) + Cardinality(PartsOf(P, s \ {Pick(s)}))
      BY <3>1, PartsSplit
    <3>4. f[Pick(s)] = Cardinality(P[Pick(s)])
      BY <3>1
    <3> QED BY <2>2, <3>2, <3>3, <3>4
  <2> QED BY <2>1, <2>2
<1>2. W = [s \in SUBSET X |-> W[s]]
  OBVIOUS
<1> HIDE DEF W
<1>3. W = [s \in SUBSET X |-> IF s = {} THEN 0 ELSE f[Pick(s)] + W[s \ {Pick(s)}]]
  BY <1>1, <1>2
<1> QED BY <1>3 DEF IsSum

LEMMA OnlySum ==
  ASSUME NEW X, NEW P, Partition(P, X), NEW f, \A x \in X : f[x] = Cardinality(P[x]),
         NEW it, IsSum(it, f, X)
  PROVE  it[X] = Cardinality(PartsOf(P, X))
<1> DEFINE Differs == {s \in SUBSET X : it[s] # Cardinality(PartsOf(P, s))}
           Sizes == {Cardinality(s) : s \in Differs}
           R == {p \in Nat \X Nat : p[1] < p[2]}
<1>1. \A s \in SUBSET X : IsFiniteSet(s) /\ Cardinality(s) \in Nat
  BY FS_Subset, FS_CardinalityType DEF Partition
<1>2. Sizes \subseteq Nat
  BY <1>1
<1>3. SUFFICES ASSUME Differs # {} PROVE FALSE
  OBVIOUS
<1>4. IsWellFoundedOn(R, Nat)
  BY NatLessThanWellFounded DEF OpToRel
<1>5. \E n \in Sizes : \A k \in Sizes : ~ (<<k, n>> \in R)
  <2>1. Sizes # {}
    BY <1>3
  <2> HIDE DEF Sizes, R
  <2> QED BY <1>2, <1>4, <2>1, WFMin
<1>6. PICK s \in Differs : \A k \in Sizes : ~ (<<k, Cardinality(s)>> \in R)
  BY <1>5
<1>7. \A t \in SUBSET X : it[t] = IF t = {} THEN 0 ELSE f[Pick(t)] + it[t \ {Pick(t)}]
  BY DEF IsSum
<1>8. s # {}
  BY <1>6, <1>7, NoParts
<1> DEFINE x == Pick(s)
           t == s \ {x}
<1>9. x \in s /\ t \in SUBSET X
  BY <1>8 DEF Pick
<1>10. Cardinality(t) = Cardinality(s) - 1
  BY <1>1, <1>9, FS_RemoveElement
<1>11. t \notin Differs
  <2> SUFFICES ASSUME t \in Differs PROVE FALSE
    OBVIOUS
  <2>1. Cardinality(t) \in Sizes
    OBVIOUS
  <2>2. Cardinality(s) \in Nat /\ Cardinality(t) \in Nat
    BY <1>1, <1>9
  <2>3. <<Cardinality(t), Cardinality(s)>> \in R
    <3> HIDE DEF t
    <3> QED BY <1>10, <2>2
  <2> QED BY <1>6, <2>1, <2>3
<1>12. it[t] = Cardinality(PartsOf(P, t))
  BY <1>9, <1>11
<1>13. it[s] = f[x] + it[t]
  BY <1>7, <1>8
<1>14. Cardinality(PartsOf(P, s)) = Cardinality(P[x]) + Cardinality(PartsOf(P, t))
  BY <1>9, PartsSplit
<1>7a. f[x] = Cardinality(P[x])
  BY <1>9
<1> QED BY <1>6, <1>12, <1>13, <1>14, <1>7a

\* So a sum of cardinalities is the cardinality of the union.
LEMMA SumIs ==
  ASSUME NEW f, NEW S
  PROVE  SumFunctionOnSet(f, S) = (CHOOSE it : IsSum(it, f, S))[S]
BY DEF SumFunctionOnSet, FoldFunctionOnSet, MapThenFoldSet, IsSum, Pick

LEMMA SumOfParts ==
  ASSUME NEW X, NEW P, Partition(P, X), NEW f, \A x \in X : f[x] = Cardinality(P[x])
  PROVE  SumFunctionOnSet(f, X) = Cardinality(PartsOf(P, X))
<1> DEFINE it == CHOOSE e : IsSum(e, f, X)
<1>1. IsSum(it, f, X)
  <2>1. \E e : IsSum(e, f, X)
    BY PartsAreSum
  <2> QED BY <2>1
<1>2. SumFunctionOnSet(f, X) = it[X]
  BY SumIs
<1> HIDE DEF it
<1> QED BY <1>1, <1>2, OnlySum

-----------------------------------------------------------------------------
(***************************************************************************)
(* A page is the first rows of a list, in the order of the list.           *)
(***************************************************************************)

\* R orders S strictly: before, behind or the same.
InOrder(S, R) ==
  /\ IsFiniteSet(S)
  /\ \A a \in S : <<a, a>> \notin R
  /\ \A a, b \in S : <<a, b>> \in R \/ <<b, a>> \in R \/ a = b
  /\ \A a, b, c \in S : <<a, b>> \in R /\ <<b, c>> \in R => <<a, c>> \in R

\* Where an element stands: how many are before it.
Above(S, R, r) == {q \in S : <<q, r>> \in R}
Rank(S, R, r) == Cardinality(Above(S, R, r))

\* Ranks count from 0, rise along the order, and tell the elements apart.
LEMMA RankType ==
  ASSUME NEW S, NEW R, InOrder(S, R), NEW r \in S
  PROVE  Rank(S, R, r) \in 0 .. Cardinality(S) - 1
<1>1. Above(S, R, r) \subseteq S /\ r \notin Above(S, R, r)
  BY DEF Above, InOrder
<1>2. IsFiniteSet(S) /\ Above(S, R, r) # S
  BY <1>1 DEF InOrder
<1>3. Cardinality(S) \in Nat /\ Cardinality(Above(S, R, r)) \in Nat
  BY <1>1, <1>2, FS_Subset, FS_CardinalityType
<1>4. Cardinality(Above(S, R, r)) < Cardinality(S)
  BY <1>1, <1>2, <1>3, FS_Subset
<1> QED BY <1>3, <1>4 DEF Rank

LEMMA RankRises ==
  ASSUME NEW S, NEW R, InOrder(S, R), NEW a \in S, NEW b \in S, <<a, b>> \in R
  PROVE  Rank(S, R, a) < Rank(S, R, b)
<1>1. Above(S, R, a) \subseteq Above(S, R, b) /\ a \in Above(S, R, b) /\ a \notin Above(S, R, a)
  BY DEF Above, InOrder
<1>2. IsFiniteSet(Above(S, R, b)) /\ Above(S, R, a) # Above(S, R, b)
  BY <1>1, FS_Subset DEF InOrder, Above
<1>3. Cardinality(Above(S, R, a)) \in Nat /\ Cardinality(Above(S, R, b)) \in Nat
  BY <1>1, <1>2, FS_Subset, FS_CardinalityType
<1> QED BY <1>1, <1>2, <1>3, FS_Subset DEF Rank

LEMMA RankTells ==
  ASSUME NEW S, NEW R, InOrder(S, R), NEW a \in S, NEW b \in S
  PROVE  /\ Rank(S, R, a) = Rank(S, R, b) => a = b
         /\ Rank(S, R, a) < Rank(S, R, b) => <<a, b>> \in R
<1>1. Rank(S, R, a) \in Int /\ Rank(S, R, b) \in Int
  BY RankType, FS_CardinalityType DEF InOrder
<1>2. <<a, b>> \in R \/ <<b, a>> \in R \/ a = b
  BY DEF InOrder
<1>3. /\ <<a, b>> \in R => Rank(S, R, a) < Rank(S, R, b)
      /\ <<b, a>> \in R => Rank(S, R, b) < Rank(S, R, a)
  BY RankRises
<1> QED BY <1>1, <1>2, <1>3

\* Every place is some element's.
LEMMA RanksAre ==
  ASSUME NEW S, NEW R, InOrder(S, R), NEW i \in 0 .. Cardinality(S) - 1
  PROVE  \E r \in S : Rank(S, R, r) = i
<1> DEFINE T == 0 .. Cardinality(S) - 1
           f == [r \in S |-> Rank(S, R, r)]
<1>1. Cardinality(S) \in Nat
  BY FS_CardinalityType DEF InOrder
<1>2. IsFiniteSet(T) /\ Cardinality(T) = Cardinality(S)
  BY <1>1, FS_Interval
<1>3. f \in [S -> T]
  BY RankType
<1>4. \A a, b \in S : f[a] = f[b] => a = b
  BY RankTells
<1>5. f \in Injection(S, T)
  BY <1>3, <1>4 DEF Injection, IsInjective
<1>6. f \in Surjection(S, T)
  BY <1>2, <1>5, FS_Injection DEF InOrder
<1> QED BY <1>6 DEF Surjection

\* A sequence has each element at the place its rank says.
OrderedBy(S, R, o) ==
  /\ o \in Seq(S) /\ Len(o) = Cardinality(S)
  /\ \A i \in 1 .. Cardinality(S) : Rank(S, R, o[i]) = i - 1

\* It is enough that each place has one of the elements of that rank.
LEMMA PlacedByRank ==
  ASSUME NEW S, NEW R, InOrder(S, R), NEW o, o = [i \in 1 .. Cardinality(S) |-> o[i]],
         \A i \in 1 .. Cardinality(S) :
           (\E r \in S : Rank(S, R, r) = i - 1) => o[i] \in S /\ Rank(S, R, o[i]) = i - 1
  PROVE  OrderedBy(S, R, o)
<1> DEFINE n == Cardinality(S)
<1>1. n \in Nat
  BY FS_CardinalityType DEF InOrder
<1>2. ASSUME NEW i \in 1 .. n PROVE o[i] \in S /\ Rank(S, R, o[i]) = i - 1
  <2>1. i - 1 \in 0 .. n - 1
    BY <1>1
  <2>2. \E r \in S : Rank(S, R, r) = i - 1
    BY <2>1, RanksAre
  <2> QED BY <2>2
<1>3. o \in [1 .. n -> S]
  BY <1>2
<1> QED BY <1>1, <1>2, <1>3 DEF OrderedBy

\* What a page has of the rows that are found, and what it leaves for the next ones.
PageIs(S, R, n, items) ==
  /\ items \in Seq(S)
  /\ \A i, j \in DOMAIN items : items[i] = items[j] => i = j
  /\ \A i, j \in DOMAIN items : i < j => <<items[i], items[j]>> \in R
  /\ Cardinality(S) <= n => \A r \in S : \E i \in DOMAIN items : items[i] = r
  /\ Cardinality(S) > n =>
       /\ Len(items) = n
       /\ \A i \in DOMAIN items : i = n \/ <<items[i], items[n]>> \in R
       /\ \A r \in S : (\E i \in DOMAIN items : items[i] = r) \/ <<items[n], r>> \in R

LEMMA PageTakesFirst ==
  ASSUME NEW S, NEW R, InOrder(S, R), NEW o, OrderedBy(S, R, o), NEW n \in Nat \ {0}
  PROVE  PageIs(S, R, n, First(n, o))
<1> DEFINE c == Cardinality(S)
           m == IF c < n THEN c ELSE n
           items == First(n, o)
<1>1. c \in Nat /\ m \in Nat /\ m <= c
  BY FS_CardinalityType DEF InOrder
<1>2. o \in Seq(S) /\ Len(o) = c /\ \A i \in 1 .. c : Rank(S, R, o[i]) = i - 1
  BY DEF OrderedBy
<1> HIDE DEF c
<1>3. items = SubSeq(o, 1, m)
  BY <1>2 DEF First
<1>4. items \in Seq(S) /\ Len(items) = m /\ \A i \in 1 .. m : items[i] = o[i]
  BY <1>1, <1>2, <1>3
<1>5. DOMAIN items = 1 .. m
  BY <1>4
<1>6. \A i \in 1 .. c : o[i] \in S
  BY <1>2
<1>7. ASSUME NEW r \in S
      PROVE  \E i \in 1 .. c : o[i] = r
  <2>1. Rank(S, R, r) \in 0 .. c - 1
    BY RankType DEF c
  <2>2. PICK i \in 1 .. c : i = Rank(S, R, r) + 1
    BY <1>1, <2>1
  <2>3. Rank(S, R, o[i]) = Rank(S, R, r)
    BY <1>1, <1>2, <2>1, <2>2
  <2> QED BY <1>6, <2>2, <2>3, RankTells
<1>8. \A i, j \in 1 .. c : i < j => <<o[i], o[j]>> \in R
  BY <1>1, <1>2, <1>6, RankTells
<1> HIDE DEF items, m
<1>9. \A i, j \in 1 .. c : o[i] = o[j] => i = j
  BY <1>1, <1>2
<1>10. m = c \/ (m = n /\ n < c)
  BY <1>1 DEF m
<1>11. c <= n => m = c
  BY <1>1 DEF m
<1>12. \A i, j \in DOMAIN items : items[i] = items[j] => i = j
  BY <1>1, <1>4, <1>5, <1>9
<1>13. \A i, j \in DOMAIN items : i < j => <<items[i], items[j]>> \in R
  BY <1>1, <1>4, <1>5, <1>8
<1>14. ASSUME c <= n, NEW r \in S PROVE \E i \in DOMAIN items : items[i] = r
  BY <1>4, <1>5, <1>7, <1>11, <1>14
<1>15. ASSUME c > n
       PROVE  /\ Len(items) = n
              /\ \A i \in DOMAIN items : i = n \/ <<items[i], items[n]>> \in R
              /\ \A r \in S : (\E i \in DOMAIN items : items[i] = r) \/ <<items[n], r>> \in R
  <2>1. m = n /\ n \in 1 .. c
    BY <1>1, <1>15 DEF m
  <2>2. \A i \in DOMAIN items : i = n \/ <<items[i], items[n]>> \in R
    BY <1>1, <1>4, <1>5, <1>8, <2>1
  <2>3. ASSUME NEW r \in S PROVE (\E i \in DOMAIN items : items[i] = r) \/ <<items[n], r>> \in R
    <3>1. PICK i \in 1 .. c : o[i] = r
      BY <1>7
    <3>2. CASE i <= n
      BY <1>4, <1>5, <2>1, <3>1, <3>2
    <3>3. CASE i > n
      BY <1>1, <1>4, <1>8, <2>1, <3>1, <3>3
    <3> QED BY <1>1, <3>2, <3>3
  <2> QED BY <1>4, <2>1, <2>2, <2>3
<1> QED BY <1>4, <1>12, <1>13, <1>14, <1>15 DEF PageIs, c, items

-----------------------------------------------------------------------------
(***************************************************************************)
(* The order of the lists.                                                 *)
(***************************************************************************)

\* Rows that can be listed: finitely many, one for each trace.
Listable(F) ==
  /\ IsFiniteSet(F)
  /\ \A a \in F : a.start \in Int /\ a.trace \in TraceIds
  /\ \A a, b \in F : a.trace = b.trace => a = b

ListOrder(F) == {p \in F \X F : ListedBefore(p[1], p[2])}

LEMMA ListedInOrder == ASSUME NEW F, Listable(F) PROVE InOrder(F, ListOrder(F))
<1>1. \A a \in F : a.start \in Int /\ Order[a.trace] \in Int
  BY OrderAssumption DEF Listable
<1>2. \A a, b \in F : Order[a.trace] = Order[b.trace] => a = b
  BY OrderAssumption DEF Listable
<1>3. \A a, b \in F : <<a, b>> \in ListOrder(F) <=> ListedBefore(a, b)
  BY DEF ListOrder
<1>4. \A a \in F : ~ ListedBefore(a, a)
  BY <1>1 DEF ListedBefore
<1>5. \A a, b \in F : ListedBefore(a, b) \/ ListedBefore(b, a) \/ a = b
  BY <1>1, <1>2 DEF ListedBefore
<1>6. \A a, b, c \in F : ListedBefore(a, b) /\ ListedBefore(b, c) => ListedBefore(a, c)
  BY <1>1 DEF ListedBefore
<1> QED BY <1>3, <1>4, <1>5, <1>6 DEF InOrder, Listable

LEMMA ListIsOrdered ==
  ASSUME NEW F, Listable(F)
  PROVE  OrderedBy(F, ListOrder(F), Ordered(F, ListedBefore))
<1> DEFINE o == Ordered(F, ListedBefore)
           n == Cardinality(F)
<1>1. o = [i \in 1 .. n |->
             CHOOSE r \in F : Cardinality({q \in F : ListedBefore(q, r)}) = i - 1]
  BY DEF Ordered
<1>2. \A r \in F : {q \in F : ListedBefore(q, r)} = Above(F, ListOrder(F), r)
  BY DEF Above, ListOrder
<1> HIDE DEF o
<1>3. \A i \in 1 .. n :
        (\E r \in F : Rank(F, ListOrder(F), r) = i - 1) =>
           o[i] \in F /\ Rank(F, ListOrder(F), o[i]) = i - 1
  BY <1>1, <1>2 DEF Rank
<1>4. o = [i \in 1 .. n |-> o[i]]
  <2> DEFINE at(i) == CHOOSE r \in F : Cardinality({q \in F : ListedBefore(q, r)}) = i - 1
  <2>1. o = [i \in 1 .. n |-> at(i)]
    BY <1>1
  <2> HIDE DEF at
  <2> QED BY <2>1
<1>5. OrderedBy(F, ListOrder(F), o)
  BY <1>3, <1>4, ListedInOrder, PlacedByRank
<1> QED BY <1>5 DEF o

-----------------------------------------------------------------------------
(***************************************************************************)
(* The lists that spans_raw gives: one row for each trace, which tells when *)
(* the trace starts, whatever the other columns are.                       *)
(***************************************************************************)

\* A set of times has an earliest one.
LEMMA LeastOf ==
  ASSUME NEW S \in SUBSET Nat, S # {}
  PROVE  Min(S) \in S /\ \A x \in S : Min(S) <= x
<1>1. PICK m \in S : \A x \in S : m <= x
  BY LeastExists
<1> QED BY <1>1 DEF Min

\* What is stored: versions of the given spans, of times that have passed.
VersionOf(row, s) ==
  \/ row = ToRow(s, Current)
  \/ /\ IsMcp(s)
     /\ \E c \in OldCategories :
          row = [ToRow(s, Old) EXCEPT !.category = c, !.error = IsError(c)]

RowsAreVersions ==
  \A r \in rows : \E s \in Spans : <<r.trace, r.span>> = <<s.trace, s.span>> /\ VersionOf(r, s)

DaysAreStored == \A e \in locator : \E r \in Held(e.tenant, e.trace) : Day(r.time) = e.day

TimesHavePassed == now \in 0 .. MaxNow /\ \A r \in rows : r.time \in 0 .. now

\* The locator knows each day a trace has spans of, of some tenant's.
DaysAreLocated ==
  /\ \A r \in rows : \E e \in locator : e.trace = r.trace /\ e.day = Day(r.time)
  /\ \A e \in locator : e.seen \in 0 .. now

\* One version of a span is stored once.
SameVersion(r, q) ==
  r.tenant = q.tenant /\ r.trace = q.trace /\ r.span = q.span /\ r.version = q.version

OneOfEach == \A r, q \in rows : SameVersion(r, q) => r = q

Stored ==
  /\ IsFiniteSet(rows) /\ RowsAreVersions /\ OneOfEach
  /\ DaysAreStored /\ DaysAreLocated /\ TimesHavePassed

\* Of all of which the times and the traces have their types.
LEMMA NowType == Stored => now \in Nat
BY ClockAssumption DEF Stored, TimesHavePassed

LEMMA StoredTraces == ASSUME Stored, NEW r \in rows PROVE r.trace \in TraceIds
BY DEF Stored, RowsAreVersions, TraceIds

\* The spans of one trace that a list is made from, and the traces it has.
SpansOf(tenant, since, t) == {u \in LatestSpans(tenant, since) : u.trace = t}

Listed(tenant, since) == {u.trace : u \in LatestSpans(tenant, since)}

StartOf(tenant, since, t) == Min({u.time : u \in SpansOf(tenant, since, t)})

\* The traces of a list are stored, and start at a time that has passed.
LEMMA ListedAre ==
  ASSUME Stored, NEW tenant, NEW since
  PROVE  /\ LatestSpans(tenant, since) \subseteq rows
         /\ Listed(tenant, since) \subseteq TraceIds
         /\ \A t \in Listed(tenant, since) : StartOf(tenant, since, t) \in 0 .. now
<1>1. LatestSpans(tenant, since) \subseteq rows
  BY DEF LatestSpans, Newest, Scoped
<1>2. Listed(tenant, since) \subseteq TraceIds
  BY <1>1, StoredTraces DEF Listed
<1>3. ASSUME NEW t \in Listed(tenant, since)
      PROVE  StartOf(tenant, since, t) \in 0 .. now
  <2> DEFINE times == {u.time : u \in SpansOf(tenant, since, t)}
  <2>1. times # {}
    BY <1>3 DEF Listed, SpansOf
  <2>2. times \subseteq 0 .. now /\ times \subseteq Nat
    <3>1. now \in Nat /\ SpansOf(tenant, since, t) \subseteq rows
      BY <1>1, NowType DEF SpansOf
    <3> QED BY <3>1 DEF Stored, TimesHavePassed
  <2>3. Min(times) \in times
    BY <2>1, <2>2, LeastOf
  <2> QED BY <2>2, <2>3 DEF StartOf
<1> QED BY <1>1, <1>2, <1>3

\* Every row the query may return tells a trace and when it starts.
LEMMA SummariesTell ==
  ASSUME NEW S, NEW row \in SummariesOf(S)
  PROVE  row.trace = (CHOOSE r \in S : TRUE).trace /\ row.start = Min({r.time : r \in S})
<1>1. PICK picked : row = Summary(S, picked)
  BY DEF SummariesOf
<1> QED BY <1>1 DEF Summary

LEMMA TraceRowsTell ==
  ASSUME NEW tenant, NEW since, NEW row \in TraceRows(tenant, since)
  PROVE  row.trace \in Listed(tenant, since) /\ row.start = StartOf(tenant, since, row.trace)
<1>1. PICK t \in Listed(tenant, since) : row \in SummariesOf(SpansOf(tenant, since, t))
  BY DEF TraceRows, Listed, SpansOf
<1>2. SpansOf(tenant, since, t) # {} /\ \A r \in SpansOf(tenant, since, t) : r.trace = t
  BY DEF Listed, SpansOf
<1>3. row.trace = t
  BY <1>1, <1>2, SummariesTell
<1> QED BY <1>1, <1>3, SummariesTell DEF StartOf

\* A list has one row for each trace the query finds, and no other.
LEMMA ListsTell ==
  ASSUME NEW tenant, NEW since, NEW list \in TraceLists(tenant, since)
  PROVE  /\ list \subseteq TraceRows(tenant, since)
         /\ \A a, b \in list : a.trace = b.trace => a = b
         /\ \A row \in TraceRows(tenant, since) : \E r \in list : r.trace = row.trace
<1>1. list \subseteq TraceRows(tenant, since)
  BY DEF TraceLists
<1>2. \A row \in TraceRows(tenant, since) :
        \E one \in list : {r \in list : r.trace = row.trace} = {one}
  BY DEF TraceLists
<1>3. ASSUME NEW a \in list, NEW b \in list, a.trace = b.trace PROVE a = b
  <2>1. PICK one \in list : {r \in list : r.trace = a.trace} = {one}
    BY <1>1, <1>2
  <2> QED BY <1>3, <2>1
<1>4. ASSUME NEW row \in TraceRows(tenant, since) PROVE \E r \in list : r.trace = row.trace
  <2>1. PICK one \in list : {r \in list : r.trace = row.trace} = {one}
    BY <1>2
  <2> QED BY <2>1
<1> QED BY <1>1, <1>3, <1>4

\* So whatever a page selects from a list can be put in order.
LEMMA ListIsListable ==
  ASSUME Stored, NEW tenant, NEW since, NEW list \in TraceLists(tenant, since),
         NEW F \in SUBSET list
  PROVE  Listable(F)
<1> DEFINE T == {r.trace : r \in rows}
           f == [r \in F |-> r.trace]
           g == [r \in rows |-> r.trace]
<1>1. g \in Surjection(rows, T)
  BY DEF Surjection
<1>2. IsFiniteSet(T)
  BY <1>1, FS_Surjection DEF Stored
<1>3. \A r \in F : r.trace \in Listed(tenant, since) /\ r.start = StartOf(tenant, since, r.trace)
  BY ListsTell, TraceRowsTell
<1>4. Listed(tenant, since) \subseteq T
  BY ListedAre DEF Listed
<1>5. f \in Injection(F, T)
  BY <1>3, <1>4, ListsTell DEF Injection, IsInjective
<1>6. IsFiniteSet(F)
  BY <1>2, <1>5, FS_Injection
<1>7. \A a \in F : a.start \in Int /\ a.trace \in TraceIds
  <2>1. Listed(tenant, since) \subseteq TraceIds
        /\ \A t \in Listed(tenant, since) : StartOf(tenant, since, t) \in 0 .. now
    BY ListedAre
  <2>2. now \in Int
    BY NowType
  <2> QED BY <1>3, <2>1, <2>2
<1> QED BY <1>6, <1>7, ListsTell DEF Listable

-----------------------------------------------------------------------------
(***************************************************************************)
(* A reader between two pages.                                             *)
(***************************************************************************)

\* A reader with a list open has these fields.
Shaped(r) ==
  DOMAIN r = {"phase", "tenant", "request", "filters", "cursor", "seen", "steady", "kept", "starts"}

\* A trace that starts then comes behind the cursor in the list.
Below(cursor, start, t) ==
  start < cursor[1] \/ (start = cursor[1] /\ Order[t] < Order[cursor[2]])

\* What a reader remembers is about traces it knows the start of, no page repeats a
\* trace that stayed where it was, and ...
HistoryOK(r) ==
  /\ r.kept \cup r.steady \subseteq DOMAIN r.starts
  /\ DOMAIN r.starts \subseteq TraceIds /\ \A t \in DOMAIN r.starts : r.starts[t] \in Nat
  /\ \A i, j \in DOMAIN r.seen : r.seen[i] = r.seen[j] /\ i # j => r.seen[i] \notin r.steady

\* ... between two pages the kept traces that were not returned are below the cursor,
\* and the steady ones that were are not.
CursorSplits(r) ==
  /\ r.phase = "reading" /\ r.cursor = <<>> => r.seen = <<>>
  /\ r.phase = "reading" /\ r.cursor # <<>> =>
       /\ \A t \in r.kept : t \in ToSet(r.seen) \/ Below(r.cursor, r.starts[t], t)
       /\ \A t \in r.steady : t \in ToSet(r.seen) => ~ Below(r.cursor, r.starts[t], t)
  /\ r.phase = "done" => r.kept \subseteq ToSet(r.seen)

ReaderInv ==
  reader = Idle \/ (ReaderOK /\ Shaped(reader) /\ HistoryOK(reader) /\ CursorSplits(reader))

\* The starts a reader remembers are those the list shows.
LEMMA StartsTell ==
  ASSUME Stored, NEW r
  PROVE  /\ DOMAIN Starts(r) = Listed(r.tenant, now - r.request.window)
         /\ DOMAIN Starts(r) \subseteq TraceIds
         /\ \A t \in DOMAIN Starts(r) :
              /\ Starts(r)[t] = StartOf(r.tenant, now - r.request.window, t)
              /\ Starts(r)[t] \in 0 .. now
<1> DEFINE since == now - r.request.window
<1>1. Starts(r) = [t \in Listed(r.tenant, since) |-> StartOf(r.tenant, since, t)]
  BY DEF Starts, Listed, StartOf, SpansOf
<1> HIDE DEF since
<1>2. Listed(r.tenant, since) \subseteq TraceIds
      /\ \A t \in Listed(r.tenant, since) : StartOf(r.tenant, since, t) \in 0 .. now
  BY ListedAre
<1> QED BY <1>1, <1>2 DEF since

\* A trace that is sure to match is in whatever list there is, and shown.
LEMMA SureMatchesAreFound ==
  ASSUME Stored, NEW r, NEW t \in SureMatches(r),
         NEW list \in TraceLists(r.tenant, now - r.request.window)
  PROVE  /\ t \in DOMAIN Starts(r)
         /\ \E row \in list :
              /\ row.trace = t /\ row.start = Starts(r)[t]
              /\ Shown(r.filters, row, Scoped(r.tenant, now - r.request.window))
<1> DEFINE since == now - r.request.window
           all == TraceRows(r.tenant, since)
           spans == Scoped(r.tenant, since)
<1>1. t \in {row.trace : row \in all}
      /\ t \notin {row.trace : row \in {a \in all : ~ Shown(r.filters, a, spans)}}
  BY DEF SureMatches
<1>2. PICK one \in all : one.trace = t
  BY <1>1
<1>3. \A a \in all : a.trace = t => Shown(r.filters, a, spans)
  BY <1>1
<1> HIDE DEF since, all, spans
<1>4. PICK row \in list : row.trace = t
  BY <1>2, ListsTell DEF since, all
<1>5. row \in all
  BY ListsTell DEF since, all
<1>6. t \in Listed(r.tenant, since) /\ row.start = StartOf(r.tenant, since, t)
  BY <1>4, <1>5, TraceRowsTell DEF all
<1>7. t \in DOMAIN Starts(r) /\ row.start = Starts(r)[t]
  BY <1>6, StartsTell DEF since
<1> QED BY <1>3, <1>4, <1>5, <1>7 DEF spans, since

\* And every trace it counts on is in the list.
LEMMA SureIsListed ==
  ASSUME Stored, NEW r PROVE SureMatches(r) \subseteq DOMAIN Starts(r)
BY TraceRowsTell, StartsTell DEF SureMatches

\* What reading a page changes in the history before the page is read.
LEMMA RememberTells ==
  ASSUME NEW r, Shaped(r)
  PROVE  LET q == Remember(r)
         IN  /\ Shaped(q)
             /\ q.phase = r.phase /\ q.tenant = r.tenant /\ q.request = r.request
             /\ q.filters = r.filters /\ q.cursor = r.cursor /\ q.seen = r.seen
             /\ q.starts = Starts(r)
             /\ q.steady = {t \in r.steady \cap SureMatches(r) : Starts(r)[t] = r.starts[t]}
             /\ q.kept = {t \in (r.kept \cap SureMatches(r)) \ Hidden(r, Starts(r)) :
                            Starts(r)[t] <= r.starts[t]}
<1> DEFINE starts == Starts(r)
           sure == SureMatches(r)
           hidden == Hidden(r, starts)
<1>1. Remember(r) = [r EXCEPT !.steady = {t \in @ \cap sure : starts[t] = r.starts[t]},
                              !.kept   = {t \in (@ \cap sure) \ hidden : starts[t] <= r.starts[t]},
                              !.starts = starts]
  BY DEF Remember
<1> HIDE DEF starts, sure, hidden
<1> SUFFICES LET q == Remember(r)
             IN  /\ Shaped(q)
                 /\ q.phase = r.phase /\ q.tenant = r.tenant /\ q.request = r.request
                 /\ q.filters = r.filters /\ q.cursor = r.cursor /\ q.seen = r.seen
                 /\ q.starts = starts
                 /\ q.steady = {t \in r.steady \cap sure : starts[t] = r.starts[t]}
                 /\ q.kept = {t \in (r.kept \cap sure) \ hidden : starts[t] <= r.starts[t]}
  BY DEF starts, sure, hidden
<1> QED BY <1>1 DEF Shaped

\* The bound time is the cursor's or an earlier one, so the keyset predicate holds of
\* no trace that is not below the cursor.
LEMMA BelowCursorIsBelow ==
  ASSUME NEW cursor \in Nat \X TraceIds, NEW row, row.start \in Nat, row.trace \in TraceIds,
         BelowCursor(cursor, row)
  PROVE  Below(cursor, row.start, row.trace)
<1>1. /\ cursor[1] \in Nat /\ cursor # <<>>
      /\ Bound(cursor[1]) \in Int /\ Bound(cursor[1]) <= cursor[1]
  <2>1. cursor[1] \in Nat /\ cursor # <<>>
    OBVIOUS
  <2>2. cursor[1] % BindStep \in Nat
    BY <2>1, ClockAssumption
  <2> QED BY <2>1, <2>2 DEF Bound
<1> QED BY <1>1 DEF BelowCursor, Below

\* To be below a cursor is to come behind it in the list.
LEMMA BelowIsListed ==
  ASSUME NEW cursor \in Nat \X TraceIds, NEW start \in Nat, NEW t \in TraceIds
  PROVE  /\ Below(cursor, start, t) <=>
              ListedBefore([start |-> cursor[1], trace |-> cursor[2]],
                           [start |-> start, trace |-> t])
         /\ \A row : row.start = start /\ row.trace = t =>
              (Below(cursor, start, t) <=>
                 ListedBefore([start |-> cursor[1], trace |-> cursor[2]], row))
<1>1. cursor[1] \in Nat /\ Order[cursor[2]] \in Int /\ Order[t] \in Int
  BY OrderAssumption
<1> QED BY <1>1 DEF Below, ListedBefore

\* Where a cursor stands between two others, as the list is ordered.
LEMMA BelowChains ==
  ASSUME NEW upper \in Nat \X TraceIds, NEW lower \in Nat \X TraceIds,
         Below(upper, lower[1], lower[2]), NEW start \in Nat, NEW t \in TraceIds,
         Below(lower, start, t)
  PROVE  Below(upper, start, t)
<1>1. Order[upper[2]] \in Int /\ Order[lower[2]] \in Int /\ Order[t] \in Int
  BY OrderAssumption
<1> QED BY <1>1 DEF Below

\* What a read promises of the page it reads.
GoesDown(r, q) == PageBelow(r, q) /\ (q.phase = "reading" => PageRead(r, q) # <<>>)

\* The sequence page tells of each row of items when it starts, and its trace.
TellsOf(items, page) ==
  /\ DOMAIN page = DOMAIN items /\ Len(page) = Len(items)
  /\ \A i \in DOMAIN items : page[i] = [start |-> items[i].start, trace |-> items[i].trace]

\* What two sequences have together.
LEMMA JoinedTells ==
  ASSUME NEW T, NEW s \in Seq(T), NEW u \in Seq(T)
  PROVE  /\ s \o u \in Seq(T)
         /\ ToSet(s \o u) = ToSet(s) \cup ToSet(u)
         /\ \A i \in DOMAIN (s \o u) :
              \/ i \in DOMAIN s /\ (s \o u)[i] = s[i]
              \/ i - Len(s) \in DOMAIN u /\ (s \o u)[i] = u[i - Len(s)] /\ i \notin DOMAIN s
<1>1. /\ s \o u \in Seq(T) /\ Len(s \o u) = Len(s) + Len(u)
      /\ DOMAIN s = 1 .. Len(s) /\ DOMAIN u = 1 .. Len(u) /\ DOMAIN (s \o u) = 1 .. Len(s) + Len(u)
      /\ \A i \in 1 .. Len(s) + Len(u) :
           (s \o u)[i] = IF i <= Len(s) THEN s[i] ELSE u[i - Len(s)]
      /\ Len(s) \in Nat /\ Len(u) \in Nat
  OBVIOUS
<1>2. \A i \in DOMAIN (s \o u) :
        \/ i \in DOMAIN s /\ (s \o u)[i] = s[i]
        \/ i - Len(s) \in DOMAIN u /\ (s \o u)[i] = u[i - Len(s)] /\ i \notin DOMAIN s
  BY <1>1
<1>3. ASSUME NEW x \in ToSet(s) PROVE x \in ToSet(s \o u)
  <2>1. PICK i \in DOMAIN s : s[i] = x
    BY DEF ToSet
  <2>2. i \in DOMAIN (s \o u) /\ (s \o u)[i] = x
    BY <1>1, <2>1
  <2> QED BY <2>2 DEF ToSet
<1>4. ASSUME NEW x \in ToSet(u) PROVE x \in ToSet(s \o u)
  <2>1. PICK i \in DOMAIN u : u[i] = x
    BY DEF ToSet
  <2>2. i + Len(s) \in DOMAIN (s \o u) /\ (s \o u)[i + Len(s)] = x
    BY <1>1, <2>1
  <2> QED BY <2>2 DEF ToSet
<1>5. ASSUME NEW x \in ToSet(s \o u) PROVE x \in ToSet(s) \cup ToSet(u)
  <2>1. PICK i \in DOMAIN (s \o u) : (s \o u)[i] = x
    BY DEF ToSet
  <2> QED BY <1>2, <2>1 DEF ToSet
<1> QED BY <1>1, <1>2, <1>3, <1>4, <1>5

\* And where the second one is in it.
EndsIn(w, l, u) ==
  Len(w) = l + Len(u) /\ \A i \in 1 .. Len(u) : w[l + i] = u[i]

LEMMA JoinedAt ==
  ASSUME NEW T, NEW s \in Seq(T), NEW u \in Seq(T) PROVE EndsIn(s \o u, Len(s), u)
BY DEF EndsIn

\* A page keeps the history: a kept trace is below the old cursor, so the page finds
\* it, and shows it or leaves it below the new cursor; a steady trace that was shown
\* is not below the old cursor, so it is below no later one.
LEMMA ReadPageKeeps ==
  ASSUME Stored, reader.phase = "reading", ReaderOK, Shaped(reader), HistoryOK(reader),
         CursorSplits(reader), ReadPage
  PROVE  /\ ReaderOK' /\ Shaped(reader') /\ HistoryOK(reader') /\ CursorSplits(reader')
         /\ GoesDown(reader, reader')
<1> DEFINE q == Remember(reader)
           since == now - q.request.window
           spans == Scoped(q.tenant, since)
           starts == Starts(reader)
           n == q.request.limit
           c == reader.cursor
<1>1. /\ Shaped(q)
      /\ q.phase = "reading" /\ q.tenant = reader.tenant /\ q.request = reader.request
      /\ q.filters = reader.filters /\ q.cursor = c /\ q.seen = reader.seen
      /\ q.starts = starts
      /\ q.steady = {t \in reader.steady \cap SureMatches(reader) : starts[t] = reader.starts[t]}
      /\ q.kept = {t \in (reader.kept \cap SureMatches(reader)) \ Hidden(reader, starts) :
                     starts[t] <= reader.starts[t]}
  BY RememberTells
<1>2. PICK list \in TraceLists(q.tenant, since) :
        LET page == PageOf(list, q.filters, spans, q.cursor, n)
        IN  reader' = [q EXCEPT !.seen = @ \o [i \in DOMAIN page.items |-> page.items[i].trace],
                                !.phase = IF page.next = <<>> THEN "done" ELSE "reading",
                                !.cursor = IF page.next = <<>> THEN @ ELSE page.next]
  BY DEF ReadPage
<1> DEFINE F == {row \in list : Shown(q.filters, row, spans) /\ BelowCursor(c, row)}
           found == Ordered(F, ListedBefore)
           items == First(n, found)
           next == IF Len(found) > n THEN <<items[n].start, items[n].trace>> ELSE <<>>
           new == [i \in DOMAIN items |-> items[i].trace]
           page == PageOf(list, q.filters, spans, q.cursor, n)
<1>3. page.items = items /\ page.next = next
  BY <1>1 DEF PageOf
<1>4. reader' = [q EXCEPT !.seen = @ \o new, !.phase = IF next = <<>> THEN "done" ELSE "reading",
                          !.cursor = IF next = <<>> THEN @ ELSE next]
  <2>1. reader' = [q EXCEPT !.seen = @ \o [i \in DOMAIN page.items |-> page.items[i].trace],
                            !.phase = IF page.next = <<>> THEN "done" ELSE "reading",
                            !.cursor = IF page.next = <<>> THEN @ ELSE page.next]
    BY <1>2
  <2> HIDE DEF page, items, next
  <2> QED BY <1>3, <2>1
<1>5. n \in Nat \ {0}
  BY <1>1, ListsAssumption DEF ReaderOK
<1>6. list \in TraceLists(reader.tenant, now - reader.request.window)
      /\ spans = Scoped(reader.tenant, now - reader.request.window)
  BY <1>1
<1>7. /\ Listable(F) /\ PageIs(F, ListOrder(F), n, items)
      /\ Len(found) = Cardinality(F) /\ Cardinality(F) \in Nat
  <2>1. Listable(F)
    BY <1>6, ListIsListable
  <2>2. InOrder(F, ListOrder(F)) /\ OrderedBy(F, ListOrder(F), found)
    BY <2>1, ListedInOrder, ListIsOrdered
  <2> HIDE DEF F, found
  <2>3. PageIs(F, ListOrder(F), n, items)
    BY <1>5, <2>2, PageTakesFirst
  <2> QED BY <2>1, <2>2, <2>3, FS_CardinalityType DEF Listable, OrderedBy
<1>8. \A row \in F : /\ row.trace \in DOMAIN starts /\ row.start = starts[row.trace]
                     /\ BelowCursor(c, row) /\ row \in list
  BY <1>6, ListsTell, TraceRowsTell, StartsTell
<1>9. /\ DOMAIN starts \subseteq TraceIds
      /\ \A t \in DOMAIN starts : starts[t] \in Nat /\ starts[t] \in 0 .. MaxNow
  BY StartsTell, ClockAssumption, NowType DEF Stored, TimesHavePassed
<1>10. \A t \in SureMatches(reader) :
         t \in DOMAIN starts /\ \E row \in list : /\ row.trace = t /\ row.start = starts[t]
                                                  /\ Shown(q.filters, row, spans)
  BY <1>1, <1>6, SureMatchesAreFound
<1>11. \A a, b \in F : a.trace = b.trace => a = b
  BY <1>7 DEF Listable
<1>12. c = <<>> \/ c \in Nat \X TraceIds
  BY ClockAssumption DEF ReaderOK
<1> HIDE DEF q, starts, spans, F, found, items, n, c, next
<1>13. /\ Shaped(reader') /\ reader'.seen = reader.seen \o new
       /\ reader'.phase = (IF next = <<>> THEN "done" ELSE "reading")
       /\ reader'.cursor = (IF next = <<>> THEN c ELSE next)
       /\ reader'.tenant = reader.tenant /\ reader'.request = reader.request
       /\ reader'.filters = reader.filters
       /\ reader'.starts = starts /\ reader'.steady = q.steady /\ reader'.kept = q.kept
  BY <1>1, <1>4 DEF Shaped
<1>14. items \in Seq(F) /\ DOMAIN items = 1 .. Len(items) /\ \A i \in DOMAIN items : items[i] \in F
  BY <1>7 DEF PageIs
<1>15. new \in Seq(TraceIds) /\ DOMAIN new = DOMAIN items /\ Len(new) = Len(items)
  BY <1>8, <1>9, <1>14
<1>16. reader.seen \in Seq(TraceIds)
  BY DEF ReaderOK
<1>17. /\ reader'.seen \in Seq(TraceIds)
       /\ ToSet(reader'.seen) = ToSet(reader.seen) \cup ToSet(new)
       /\ \A i \in DOMAIN reader'.seen :
            \/ i \in DOMAIN reader.seen /\ reader'.seen[i] = reader.seen[i]
            \/ /\ i - Len(reader.seen) \in DOMAIN new
               /\ reader'.seen[i] = new[i - Len(reader.seen)]
               /\ i \notin DOMAIN reader.seen
  <2> HIDE DEF new
  <2> QED BY <1>13, <1>15, <1>16, JoinedTells
<1>18. \A t : t \in ToSet(new) <=> \E i \in DOMAIN items : items[i].trace = t
  BY <1>15 DEF ToSet
<1>19. /\ next = <<>> <=> Cardinality(F) <= n
       /\ next # <<>> => next = <<items[n].start, items[n].trace>>
  BY <1>5, <1>7 DEF next
<1> HIDE DEF new
<1>20. ASSUME next # <<>>
       PROVE  /\ n \in DOMAIN items
              /\ next \in (0 .. MaxNow) \X TraceIds /\ next \in Nat \X TraceIds
              /\ \A i \in DOMAIN items : i = n \/ ListedBefore(items[i], items[n])
              /\ \A r \in F : (\E i \in DOMAIN items : items[i] = r) \/ ListedBefore(items[n], r)
  <2>1. Cardinality(F) > n
    BY <1>5, <1>7, <1>19, <1>20
  <2>2. /\ Len(items) = n
        /\ \A i \in DOMAIN items : i = n \/ ListedBefore(items[i], items[n])
        /\ \A r \in F : (\E i \in DOMAIN items : items[i] = r) \/ ListedBefore(items[n], r)
    BY <1>7, <2>1 DEF PageIs, ListOrder
  <2>3. n \in DOMAIN items
    BY <1>5, <1>14, <2>2
  <2>4. items[n].start \in 0 .. MaxNow /\ items[n].start \in Nat /\ items[n].trace \in TraceIds
    BY <1>8, <1>9, <1>14, <2>3
  <2> QED BY <1>19, <1>20, <2>2, <2>3, <2>4
<1>21. ASSUME NEW t \in q.kept, t \notin ToSet(reader.seen)
       PROVE  \E row \in F : row.trace = t /\ row.start = starts[t]
  <2>1. /\ t \in reader.kept /\ t \in SureMatches(reader) /\ t \notin Hidden(reader, starts)
        /\ starts[t] <= reader.starts[t]
    BY <1>1
  <2>2. PICK row \in list : /\ row.trace = t /\ row.start = starts[t]
                            /\ Shown(q.filters, row, spans)
    BY <1>10, <2>1
  <2>3. t \in TraceIds /\ starts[t] \in Nat /\ reader.starts[t] \in Nat /\ t \in DOMAIN starts
    BY <1>9, <1>10, <2>1 DEF HistoryOK
  <2>4. CASE c = <<>>
    BY <2>2, <2>4 DEF F, BelowCursor
  <2>5. CASE c # <<>>
    <3>1. Below(c, reader.starts[t], t)
      BY <1>21, <2>1, <2>5 DEF CursorSplits, c
    <3>2. c[1] \in Nat /\ Order[t] \in Int /\ Order[c[2]] \in Int
      BY <1>12, <2>3, <2>5, OrderAssumption
    <3>3. Bound(c[1]) \in Int
      BY <3>2, ClockAssumption DEF Bound
    <3>4. Bound(c[1]) = c[1] \/ starts[t] < Bound(c[1])
      BY <2>1, <2>3, <2>5, <3>3 DEF Hidden, c
    <3>5. BelowCursor(c, row)
      BY <2>1, <2>2, <2>3, <3>1, <3>2, <3>4 DEF Below, BelowCursor
    <3> QED BY <2>2, <3>5 DEF F
  <2> QED BY <2>4, <2>5
<1>22. ASSUME NEW t \in q.steady, t \in ToSet(reader.seen)
       PROVE  /\ c # <<>> /\ ~ Below(c, starts[t], t)
              /\ \A row \in F : row.trace # t
  <2>1. t \in reader.steady /\ starts[t] = reader.starts[t]
    BY <1>1
  <2>2. c # <<>>
    BY <1>22 DEF CursorSplits, c, ToSet
  <2>3. ~ Below(c, starts[t], t)
    BY <1>22, <2>1, <2>2 DEF CursorSplits, c
  <2>4. ASSUME NEW row \in F, row.trace = t PROVE FALSE
    <3>1. row.start = starts[t] /\ row.start \in Nat /\ t \in TraceIds /\ BelowCursor(c, row)
      BY <1>8, <1>9, <2>4
    <3>2. Below(c, row.start, row.trace)
      BY <1>12, <2>2, <2>4, <3>1, BelowCursorIsBelow
    <3> QED BY <2>3, <2>4, <3>1, <3>2
  <2> QED BY <2>2, <2>3, <2>4
<1>23. q.kept \cup q.steady \subseteq DOMAIN starts
  BY <1>1, <1>10
<1>24. ASSUME NEW i \in DOMAIN reader'.seen, NEW j \in DOMAIN reader'.seen,
              reader'.seen[i] = reader'.seen[j], i # j
       PROVE  reader'.seen[i] \notin q.steady
  <2> DEFINE old(k) == k \in DOMAIN reader.seen /\ reader'.seen[k] = reader.seen[k]
             late(k) == /\ k - Len(reader.seen) \in DOMAIN new
                        /\ reader'.seen[k] = new[k - Len(reader.seen)]
  <2>1. (old(i) \/ late(i)) /\ (old(j) \/ late(j))
    BY <1>17
  <2>2. q.steady \subseteq reader.steady
    BY <1>1
  <2>3. CASE old(i) /\ old(j)
    BY <1>24, <2>2, <2>3 DEF HistoryOK
  <2>4. \A k : old(k) => reader'.seen[k] \in ToSet(reader.seen)
    BY DEF ToSet
  <2>5. \A k : late(k) => \E row \in F : row.trace = reader'.seen[k]
    BY <1>14, <1>15 DEF new
  <2>6. CASE old(i) /\ late(j)
    BY <1>22, <1>24, <2>4, <2>5, <2>6
  <2>7. CASE late(i) /\ old(j)
    BY <1>22, <1>24, <2>4, <2>5, <2>7
  <2>8. CASE late(i) /\ late(j)
    <3> DEFINE a == i - Len(reader.seen)
               b == j - Len(reader.seen)
    <3>1. a \in DOMAIN items /\ b \in DOMAIN items /\ items[a].trace = items[b].trace
      BY <1>15, <1>24, <2>8 DEF new
    <3>2. items[a] = items[b]
      BY <1>11, <1>14, <3>1
    <3>3. a = b
      BY <1>7, <3>1, <3>2 DEF PageIs
    <3>4. i \in Int /\ j \in Int /\ Len(reader.seen) \in Int
      BY <1>16, <1>17
    <3> QED BY <1>24, <3>3, <3>4
  <2> QED BY <2>1, <2>3, <2>6, <2>7, <2>8
<1>25. HistoryOK(reader')
  BY <1>9, <1>13, <1>23, <1>24 DEF HistoryOK
<1>26. ReaderOK'
  BY <1>9, <1>13, <1>17, <1>20, <1>23 DEF ReaderOK, c
<1>27. ASSUME next = <<>> PROVE CursorSplits(reader')
  <2>1. ASSUME NEW t \in q.kept, t \notin ToSet(reader.seen) PROVE t \in ToSet(new)
    <3>1. PICK row \in F : row.trace = t
      BY <1>21, <2>1
    <3>2. \E i \in DOMAIN items : items[i] = row
      BY <1>7, <1>19, <1>27 DEF PageIs
    <3> QED BY <1>18, <3>1, <3>2
  <2>2. q.kept \subseteq ToSet(reader'.seen)
    BY <1>17, <2>1
  <2> QED BY <1>13, <1>27, <2>2 DEF CursorSplits
<1>28. ASSUME c # <<>>, next # <<>> PROVE Below(c, next[1], next[2])
  <2>1. items[n] \in F /\ next = <<items[n].start, items[n].trace>>
    BY <1>14, <1>19, <1>20, <1>28
  <2>2. items[n].start \in Nat /\ items[n].trace \in TraceIds /\ BelowCursor(c, items[n])
    BY <1>8, <1>9, <2>1
  <2> QED BY <1>12, <1>28, <2>1, <2>2, BelowCursorIsBelow
<1>29. ASSUME next # <<>> PROVE CursorSplits(reader')
  <2>1. next = <<items[n].start, items[n].trace>> /\ items[n] \in F
    BY <1>14, <1>19, <1>20, <1>29
  <2>2. ASSUME NEW t \in q.kept, t \notin ToSet(reader'.seen) PROVE Below(next, starts[t], t)
    <3>1. t \notin ToSet(reader.seen) /\ t \notin ToSet(new)
      BY <1>17, <2>2
    <3>2. PICK row \in F : row.trace = t /\ row.start = starts[t]
      BY <1>21, <3>1
    <3>3. ListedBefore(items[n], row)
      BY <1>18, <1>20, <1>29, <3>1, <3>2
    <3> QED BY <1>8, <1>9, <2>1, <3>2, <3>3 DEF ListedBefore, Below
  <2>3. ASSUME NEW t \in q.steady, t \in ToSet(reader'.seen) PROVE ~ Below(next, starts[t], t)
    <3>1. t \in TraceIds /\ starts[t] \in Nat
      BY <1>9, <1>23
    <3>2. CASE t \in ToSet(reader.seen)
      BY <1>12, <1>20, <1>22, <1>28, <1>29, <3>1, <3>2, BelowChains
    <3>3. CASE t \in ToSet(new)
      <4>1. PICK i \in DOMAIN items : items[i].trace = t
        BY <1>18, <3>3
      <4>2. items[i].start = starts[t] /\ (i = n \/ ListedBefore(items[i], items[n]))
        BY <1>8, <1>14, <1>20, <1>29, <4>1
      <4>3. items[n].start \in Nat /\ Order[items[n].trace] \in Int /\ Order[t] \in Int
        BY <1>8, <1>9, <2>1, <3>1, OrderAssumption
      <4> QED BY <2>1, <3>1, <4>1, <4>2, <4>3 DEF ListedBefore, Below
    <3> QED BY <1>17, <2>3, <3>2, <3>3
  <2> QED BY <1>13, <1>29, <2>2, <2>3 DEF CursorSplits
<1>30. TellsOf(items, PageRead(reader, reader'))
  <2> DEFINE k == Len(items)
             l == Len(reader.seen)
             got == PageRead(reader, reader')
             at(i) == [start |-> starts[reader'.seen[l + i]], trace |-> reader'.seen[l + i]]
  <2>1. k \in Nat /\ l \in Nat /\ DOMAIN items = 1 .. k /\ DOMAIN new = 1 .. k
    BY <1>14, <1>15, <1>16
  <2>2. \A i \in 1 .. k : new[i] = items[i].trace
    BY <2>1 DEF new
  <2>3. Len(reader'.seen) = l + k /\ \A i \in 1 .. k : reader'.seen[l + i] = new[i]
    <3>1. reader'.seen = reader.seen \o new /\ new \in Seq(TraceIds) /\ reader.seen \in Seq(TraceIds)
      BY <1>13, <1>15, <1>16
    <3>2. Len(new) = k
      BY <1>15
    <3> HIDE DEF new, k, got
    <3>3. EndsIn(reader'.seen, l, new)
      BY <3>1, JoinedAt
    <3> QED BY <3>2, <3>3 DEF EndsIn
  <2>4. got = [i \in 1 .. Len(reader'.seen) - l |-> at(i)]
    BY <1>13 DEF PageRead
  <2>5. \A i \in 1 .. k : at(i) = [start |-> items[i].start, trace |-> items[i].trace]
    <3> TAKE i \in 1 .. k
    <3>1. items[i] \in F /\ reader'.seen[l + i] = items[i].trace
      BY <1>14, <2>1, <2>2, <2>3
    <3>2. starts[items[i].trace] = items[i].start
      BY <1>8, <3>1
    <3> HIDE DEF k, l
    <3> QED BY <3>1, <3>2
  <2> HIDE DEF k, l, got, at
  <2>6. Len(reader'.seen) - l = k
    BY <2>1, <2>3
  <2>7. got = [i \in 1 .. k |-> at(i)]
    BY <2>4, <2>6
  <2>8. DOMAIN got = 1 .. k /\ Len(got) = k
    BY <2>1, <2>7
  <2> QED BY <2>1, <2>5, <2>7, <2>8 DEF TellsOf, k, got
<1>31. GoesDown(reader, reader')
  <2> DEFINE got == PageRead(reader, reader')
  <2>1. /\ DOMAIN got = DOMAIN items /\ Len(got) = Len(items)
        /\ \A i \in DOMAIN items : got[i].start = items[i].start /\ got[i].trace = items[i].trace
    BY <1>30 DEF TellsOf
  <2> HIDE DEF got
  <2>2. ASSUME NEW i \in DOMAIN items, c # <<>> PROVE ListedBefore(LastItem(c), got[i])
    <3>1. items[i].start \in Nat /\ items[i].trace \in TraceIds /\ BelowCursor(c, items[i])
      BY <1>8, <1>9, <1>14
    <3>2. Below(c, items[i].start, items[i].trace)
      BY <1>12, <2>2, <3>1, BelowCursorIsBelow
    <3> QED BY <1>12, <2>1, <2>2, <3>1, <3>2, BelowIsListed DEF LastItem
  <2>3. ASSUME NEW i \in DOMAIN items, NEW j \in i + 1 .. Len(items)
        PROVE  ListedBefore(got[i], got[j])
    <3>1. j \in DOMAIN items /\ i < j
      BY <1>14
    <3>2. ListedBefore(items[i], items[j])
      BY <1>7, <3>1 DEF PageIs, ListOrder
    <3> QED BY <2>1, <3>1, <3>2 DEF ListedBefore
  <2>4. ASSUME reader'.phase = "reading"
        PROVE  /\ Len(items) \in DOMAIN items
               /\ got[Len(items)] = LastItem(reader'.cursor)
    <3>1. next # <<>> /\ reader'.cursor = next
      BY <1>13, <2>4
    <3>2. Len(items) = n
      BY <1>5, <1>7, <1>19, <3>1 DEF PageIs
    <3>3. n \in DOMAIN items /\ next = <<items[n].start, items[n].trace>>
      BY <1>19, <1>20, <3>1
    <3>4. got[n] = [start |-> items[n].start, trace |-> items[n].trace]
      BY <1>30, <3>3 DEF TellsOf, got
    <3> QED BY <3>1, <3>2, <3>3, <3>4 DEF LastItem
  <2>5. PageBelow(reader, reader')
    <3>1. \A i \in DOMAIN got :
            /\ c # <<>> => ListedBefore(LastItem(c), got[i])
            /\ \A j \in i + 1 .. Len(got) : ListedBefore(got[i], got[j])
            /\ reader'.phase = "reading" /\ i = Len(got) => got[i] = LastItem(reader'.cursor)
      BY <2>1, <2>2, <2>3, <2>4
    <3> QED BY <3>1 DEF PageBelow, got, c
  <2>6. reader'.phase = "reading" => got # <<>>
    BY <2>1, <2>4
  <2> QED BY <2>5, <2>6 DEF GoesDown, got
<1> QED BY <1>13, <1>25, <1>26, <1>27, <1>29, <1>31 DEF c

-----------------------------------------------------------------------------
(***************************************************************************)
(* What the normalizer, the merges and the clock do keeps what is stored,  *)
(* and nothing of a reader; a reader changes nothing that is stored.       *)
(***************************************************************************)

LEMMA StoredInit == Init => Stored /\ ReaderInv
<1> SUFFICES ASSUME Init PROVE Stored /\ ReaderInv
  OBVIOUS
<1>1. IsFiniteSet(rows)
  BY FS_EmptySet DEF Init
<1>2. RowsAreVersions /\ OneOfEach /\ DaysAreStored /\ DaysAreLocated /\ TimesHavePassed
  BY ClockAssumption
     DEF Init, RowsAreVersions, OneOfEach, DaysAreStored, DaysAreLocated, TimesHavePassed
<1> QED BY <1>1, <1>2 DEF Init, Stored, ReaderInv

\* A row tells whose span it is, and what was called; only its category and whether it
\* is an error depend on the version.
Told(row, s) ==
  LET now_ == ToRow(s, Current)
  IN  /\ row.tenant = now_.tenant /\ row.trace = s.trace /\ row.span = s.span
      /\ row.time = s.start
      /\ row.method = now_.method /\ row.tool = now_.tool
      /\ row.prompt = now_.prompt /\ row.resource = now_.resource
      /\ row.error = IsError(row.category)
      /\ \/ row.version = Current /\ row = ToRow(s, Current)
         \/ row.version = Old /\ IsMcp(s) /\ row.category \in OldCategories

LEMMA VersionTells ==
  ASSUME NEW s \in Spans, NEW row, VersionOf(row, s)
  PROVE  Told(row, s)
<1> DEFINE n == ToRow(s, Current)
           o == ToRow(s, Old)
<1>1. /\ n.trace = s.trace /\ n.span = s.span /\ n.time = s.start /\ n.version = Current
      /\ n.error = IsError(n.category)
  BY DEF ToRow
<1>2. /\ o.tenant = n.tenant /\ o.trace = s.trace /\ o.span = s.span /\ o.time = s.start
      /\ o.method = n.method /\ o.tool = n.tool /\ o.prompt = n.prompt
      /\ o.resource = n.resource /\ o.version = Old
  BY DEF ToRow
<1>3. {"category", "error"} \subseteq DOMAIN o
  BY DEF ToRow
<1> HIDE DEF n, o
<1>4. CASE row = n
  BY <1>1, <1>4 DEF Told, n
<1>5. ASSUME IsMcp(s), NEW c \in OldCategories,
             row = [o EXCEPT !.category = c, !.error = IsError(c)]
      PROVE  Told(row, s)
  <2>1. row.category = c /\ row.error = IsError(c)
    BY <1>3, <1>5
  <2>2. /\ row.tenant = n.tenant /\ row.trace = s.trace /\ row.span = s.span
        /\ row.time = s.start
        /\ row.method = n.method /\ row.tool = n.tool /\ row.prompt = n.prompt
        /\ row.resource = n.resource /\ row.version = Old
    BY <1>2, <1>5
  <2> QED BY <1>5, <2>1, <2>2 DEF Told, n
<1> QED BY <1>4, <1>5 DEF VersionOf, n, o

\* A version that is stored is of a time that has passed, on a day the locator gets.
LEMMA StoreKeeps ==
  ASSUME Stored, NEW s \in Spans, NEW row, VersionOf(row, s),
         s.start + s.duration <= now, Store(row), \A q \in rows : SameVersion(q, row) => q = row
  PROVE  Stored'
<1>1. row.trace = s.trace /\ row.span = s.span /\ row.time = s.start
  BY VersionTells DEF Told
<1>2. rows' = rows \cup {row} /\ now' = now
  BY DEF Store
<1>3. IsFiniteSet(rows')
  BY <1>2, FS_AddElement DEF Stored
<1>4. RowsAreVersions'
  BY <1>1, <1>2 DEF Stored, RowsAreVersions
<1>5. TimesHavePassed'
  <2>1. s.start \in 0 .. now
    BY NowType, SpansAssumption
  <2> QED BY <1>1, <1>2, <2>1 DEF Stored, TimesHavePassed
<1>6. ASSUME NEW e \in locator' PROVE \E r \in Held(e.tenant, e.trace)' : Day(r.time) = e.day
  <2>1. e \in locator \/ e = LocatorRow(row)
    BY <1>6 DEF Store
  <2>2. CASE e \in locator
    BY <1>2, <2>2 DEF Stored, DaysAreStored, Held
  <2>3. CASE e = LocatorRow(row)
    BY <1>2, <2>3 DEF Held, LocatorRow
  <2> QED BY <2>1, <2>2, <2>3
<1>7. DaysAreStored'
  BY <1>6 DEF DaysAreStored
<1>8. OneOfEach'
  BY <1>2 DEF Stored, OneOfEach, SameVersion
<1>9. DaysAreLocated'
  <2> DEFINE entry == LocatorRow(row)
             others == {e \in locator : [e EXCEPT !.seen = now] # entry}
  <2>1. entry.trace = row.trace /\ entry.day = Day(row.time) /\ entry.seen = now
    BY DEF LocatorRow
  <2>2. locator' = others \cup {entry}
    BY DEF Store
  <2>3. ASSUME NEW e \in locator, e \notin others PROVE e.trace = entry.trace /\ e.day = entry.day
    <3>1. [e EXCEPT !.seen = now] = entry
      BY <2>3
    <3>2. {"trace", "day"} \subseteq DOMAIN entry
      BY DEF LocatorRow
    <3>3. DOMAIN e = DOMAIN entry
      BY <3>1
    <3> HIDE DEF entry
    <3> QED BY <3>1, <3>2, <3>3
  <2> HIDE DEF entry, others
  <2>4. \A r \in rows' : \E e \in locator' : e.trace = r.trace /\ e.day = Day(r.time)
    <3> TAKE r \in rows'
    <3>1. CASE r = row
      BY <2>1, <2>2, <3>1
    <3>2. CASE r \in rows
      BY <2>2, <2>3, <3>2 DEF Stored, DaysAreLocated
    <3> QED BY <1>2, <3>1, <3>2
  <2>5. \A e \in locator' : e.seen \in 0 .. now
    <3>1. others \subseteq locator
      BY DEF others
    <3> QED BY <2>1, <2>2, <3>1, NowType DEF Stored, DaysAreLocated
  <2> QED BY <1>2, <2>4, <2>5 DEF DaysAreLocated
<1> QED BY <1>3, <1>4, <1>5, <1>7, <1>8, <1>9 DEF Stored

\* No step but a reader's changes the reader.
LEMMA StoresKeep == Stored /\ Stores => Stored' /\ reader' = reader
<1> SUFFICES ASSUME Stored, Stores PROVE Stored' /\ reader' = reader
  OBVIOUS
<1>1. ASSUME NEW s \in Spans, Insert(s) PROVE Stored' /\ reader' = reader
  <2>1. VersionOf(ToRow(s, Current), s)
    BY DEF VersionOf
  <2>2. ASSUME NEW q \in rows, SameVersion(q, ToRow(s, Current)) PROVE q = ToRow(s, Current)
    <3>1. PICK u \in Spans : VersionOf(q, u)
      BY DEF Stored, RowsAreVersions
    <3>2. Told(q, u) /\ Told(ToRow(s, Current), s)
      BY <2>1, <3>1, VersionTells
    <3>3. q.version = Current
      BY <2>2 DEF SameVersion, ToRow
    <3>4. q = ToRow(u, Current)
      BY <3>2, <3>3 DEF Told, Current, Old
    <3>5. TenantOf(u) = TenantOf(s) /\ u.trace = s.trace /\ u.span = s.span
      BY <2>2, <3>2 DEF Told, SameVersion, TenantOf
    <3>6. u = s
      BY <3>5, SpansAssumption
    <3> QED BY <3>4, <3>6
  <2> QED BY <1>1, <2>1, <2>2, StoreKeeps DEF Insert, Store
<1>2. ASSUME NEW s \in Spans, NEW c \in OldCategories, InsertOld(s, c)
      PROVE  Stored' /\ reader' = reader
  <2> DEFINE row == [ToRow(s, Old) EXCEPT !.category = c, !.error = IsError(c)]
  <2>1. VersionOf(row, s) /\ Store(row) /\ s.start + s.duration <= now
    BY <1>2 DEF VersionOf, InsertOld
  <2> HIDE DEF row
  <2>2. \A q \in rows : SameVersion(q, row) => q = row
    BY <1>2, <2>1, VersionTells DEF InsertOld, SameVersion, Told
  <2> QED BY <2>1, <2>2, StoreKeeps DEF Store
<1>3. ASSUME MergeLocator PROVE Stored' /\ reader' = reader
  <2>1. locator' \subseteq locator /\ rows' = rows /\ now' = now /\ reader' = reader
    BY <1>3 DEF MergeLocator
  <2>2. PICK e, f \in locator : e # f /\ e.trace = f.trace /\ e.day = f.day
                                   /\ locator' = locator \ {f}
    BY <1>3 DEF MergeLocator
  <2>3. DaysAreLocated'
    BY <2>1, <2>2 DEF Stored, DaysAreLocated
  <2> QED BY <2>1, <2>3
          DEF Stored, RowsAreVersions, OneOfEach, DaysAreStored, TimesHavePassed, Held
<1>4. ASSUME Tick PROVE Stored' /\ reader' = reader
  <2>1. now' = now + 1 /\ now < MaxNow /\ rows' = rows /\ locator' = locator /\ reader' = reader
    BY <1>4 DEF Tick
  <2>2. TimesHavePassed'
    BY <2>1, ClockAssumption DEF Stored, TimesHavePassed
  <2>3. DaysAreLocated'
    BY <2>1, NowType DEF Stored, DaysAreLocated
  <2> QED BY <2>1, <2>2, <2>3 DEF Stored, RowsAreVersions, OneOfEach, DaysAreStored, Held
<1> QED BY <1>1, <1>2, <1>3, <1>4 DEF Stores

\* What is parsed of a request has filters and operators the view knows.
LEMMA ParseTells ==
  ASSUME NEW view \in {"traces", "errors"}, NEW query, NEW where
  PROVE  LET filters == Parse(view, query, where)
         IN  /\ filters.view \in DOMAIN Views
             /\ DOMAIN filters.values \subseteq DOMAIN TraceFilters
             /\ \A cond \in filters.conditions : cond.op \in Operators
<1>1. DOMAIN Views[view] \subseteq DOMAIN TraceFilters /\ view \in DOMAIN Views
  <2>1. Views["traces"] = TraceFilters
        /\ Views["errors"] = [k \in DOMAIN TraceFilters \ {"status"} |-> TraceFilters[k]]
        /\ {"traces", "errors"} \subseteq DOMAIN Views
    BY DEF Views
  <2> QED BY <2>1
<1> QED BY <1>1 DEF Parse, ValidCondition

\* A list opens with a history that is empty and counts on what it finds.
LEMMA OpenListKeeps ==
  ASSUME Stored, NEW key \in Keys, NEW request \in Requests, OpenList(key, request)
  PROVE  ReaderInv' /\ reader.phase = "idle"
<1> DEFINE filters == Parse(request.view, request.query, request.where)
           start == [phase |-> "reading", tenant |-> Principals[key].tenant, request |-> request,
                     filters |-> filters, cursor |-> <<>>, seen |-> <<>>,
                     steady |-> {}, kept |-> {}, starts |-> <<>>]
           starts == Starts(start)
           sure == SureMatches(start)
<1>1. /\ reader.phase = "idle" /\ key \in DOMAIN Principals
      /\ reader' = [start EXCEPT !.starts = starts, !.steady = sure, !.kept = sure]
  BY DEF OpenList, Authenticated
<1>2. /\ filters.view \in DOMAIN Views
      /\ DOMAIN filters.values \subseteq DOMAIN TraceFilters
      /\ \A cond \in filters.conditions : cond.op \in Operators
  BY ParseTells, ListsAssumption
<1>3. /\ DOMAIN starts \subseteq TraceIds
      /\ \A t \in DOMAIN starts : starts[t] \in Nat
  BY StartsTell, NowType
<1>4. sure \subseteq DOMAIN starts
  BY SureIsListed
<1> HIDE DEF starts, sure, filters
<1>5. /\ Shaped(reader') /\ reader'.phase = "reading"
      /\ reader'.tenant \in {Principals[k].tenant : k \in DOMAIN Principals}
      /\ reader'.request = request /\ reader'.filters = filters
      /\ reader'.cursor = <<>> /\ reader'.seen = <<>>
      /\ reader'.starts = starts /\ reader'.steady = sure /\ reader'.kept = sure
  BY <1>1 DEF Shaped
<1>6. ReaderOK'
  BY <1>2, <1>3, <1>4, <1>5 DEF ReaderOK
<1>7. HistoryOK(reader')
  BY <1>3, <1>4, <1>5 DEF HistoryOK
<1>8. CursorSplits(reader')
  BY <1>5 DEF CursorSplits
<1> QED BY <1>1, <1>5, <1>6, <1>7, <1>8 DEF ReaderInv

\* So every request keeps both.
LEMMA ReadsKeep == Stored /\ ReaderInv /\ Reads => Stored' /\ ReaderInv'
<1> SUFFICES ASSUME Stored, ReaderInv, Reads PROVE Stored' /\ ReaderInv'
  OBVIOUS
<1>1. UNCHANGED <<rows, locator, now>>
  BY DEF Reads, OpenList, ReadPage, CloseList
<1>2. Stored'
  BY <1>1
     DEF Stored, RowsAreVersions, OneOfEach, DaysAreStored, DaysAreLocated, TimesHavePassed, Held
<1>3. ASSUME NEW key \in Keys, NEW request \in Requests, OpenList(key, request) PROVE ReaderInv'
  BY <1>3, OpenListKeeps
<1>4. ASSUME ReadPage PROVE ReaderInv'
  <2>1. reader.phase = "reading"
    BY <1>4 DEF ReadPage
  <2>2. ReaderOK /\ Shaped(reader) /\ HistoryOK(reader) /\ CursorSplits(reader)
    BY <2>1 DEF ReaderInv, Idle
  <2> QED BY <1>4, <2>1, <2>2, ReadPageKeeps DEF ReaderInv
<1>5. ASSUME CloseList PROVE ReaderInv'
  BY <1>5 DEF CloseList, ReaderInv
<1> QED BY <1>2, <1>3, <1>4, <1>5 DEF Reads

\* The inductive invariant: what is stored, and the history of the reader.
LEMMA PagingInvariant == Spec => [](Stored /\ ReaderInv)
<1>1. ASSUME Stored, ReaderInv, [Next]_vars PROVE Stored' /\ ReaderInv'
  <2>1. CASE Stores
    BY <1>1, <2>1, StoresKeep DEF ReaderInv, ReaderOK
  <2>2. CASE Reads
    BY <1>1, <2>2, ReadsKeep
  <2>3. CASE UNCHANGED vars
    BY <1>1, <2>3 DEF vars, Stored, RowsAreVersions, OneOfEach, DaysAreStored, DaysAreLocated,
       TimesHavePassed, Held, ReaderInv, ReaderOK
  <2> QED BY <1>1, <2>1, <2>2, <2>3 DEF Next
<1> QED BY StoredInit, <1>1, PTL DEF Spec

\* ReadersMissNothing: a trace that matched at every page, did not move up the list and
\* was not in the part of an instant the cursor cannot express is shown by the time the
\* list ends; no trace that stayed where it was is shown twice.
THEOREM ReadersMissNothing == Spec => []PagingIsExact
<1>1. ASSUME Stored, ReaderInv PROVE PagingIsExact
  <2>1. RowsAreVersions /\ DaysAreStored /\ now \in 0 .. MaxNow
    BY <1>1 DEF Stored, TimesHavePassed
  <2>2. TypeOK
    BY <1>1, <2>1 DEF TypeOK, RowsAreVersions, VersionOf, DaysAreStored, ReaderInv
  <2>3. PagingFindsAll /\ PagingRepeatsNone
    BY <1>1 DEF PagingFindsAll, PagingRepeatsNone, ReaderInv, Idle, HistoryOK, CursorSplits
  <2> QED BY <2>2, <2>3 DEF PagingIsExact
<1> QED BY PagingInvariant, <1>1, PTL

\* PagesDescend: every item of a page, the final one included, comes in the list behind
\* all of the page before it and the items of a page behind each other, although late
\* spans and replays change the list between the two; and what is continued is not empty.
THEOREM PagesDescend == Spec => PagesGoDown
<1> DEFINE D == reader.phase = "reading" /\ reader' # reader =>
                  /\ PageBelow(reader, reader')
                  /\ reader'.phase = "reading" => PageRead(reader, reader') # <<>>
<1>1. ASSUME Stored, ReaderInv, [Next]_vars PROVE [D]_vars
  <2> SUFFICES ASSUME reader.phase = "reading", reader' # reader PROVE GoesDown(reader, reader')
    BY DEF GoesDown
  <2>1. ReaderOK /\ Shaped(reader) /\ HistoryOK(reader) /\ CursorSplits(reader)
    BY <1>1 DEF ReaderInv, Idle
  <2>2. ReadPage
    <3>1. Reads
      BY <1>1, StoresKeep DEF Next, vars
    <3> QED BY <3>1 DEF Reads, OpenList, CloseList
  <2> QED BY <1>1, <2>1, <2>2, ReadPageKeeps
<1> QED BY PagingInvariant, <1>1, PTL DEF Spec, PagesGoDown

-----------------------------------------------------------------------------
(***************************************************************************)
(* A trace of the list opens.                                              *)
(***************************************************************************)

\* What is ordered and cut off is not empty, unless there was nothing.
LEMMA FirstShows ==
  ASSUME NEW n \in Nat \ {0}, NEW k \in Nat \ {0}, NEW f, DOMAIN f = 1 .. k,
         f = [i \in 1 .. k |-> f[i]]
  PROVE  First(n, f) # <<>>
<1> DEFINE S == {f[i] : i \in 1 .. k}
           m == IF k < n THEN k ELSE n
<1>1. f \in Seq(S) /\ Len(f) = k
  <2>1. f \in [1 .. k -> S]
    OBVIOUS
  <2> HIDE DEF S
  <2> QED BY <2>1
<1>2. m \in 1 .. k
  OBVIOUS
<1>3. Len(SubSeq(f, 1, m)) = m
  <2> HIDE DEF S, m
  <2> QED BY <1>1, <1>2, SubSeqProperties
<1> QED BY <1>1, <1>2, <1>3 DEF First

\* Of the versions there are, one is the newest.
LEMMA NewestIsThere ==
  ASSUME Stored, NEW M \in SUBSET rows, M # {} PROVE Newest(M) # {}
<1>1. \A r \in M : r.version \in {Old, Current}
  BY VersionTells DEF Stored, RowsAreVersions, Told
<1>2. CASE \E q \in M : q.version = Current
  BY <1>1, <1>2 DEF Newest, Old, Current
<1>3. CASE ~ \E q \in M : q.version = Current
  BY <1>1, <1>3 DEF Newest, Old
<1> QED BY <1>2, <1>3

\* The locator has a day for each trace, unless another tenant has spans of it.
LEMMA TraceIsLocated ==
  ASSUME Stored, NEW r \in rows, \A q \in rows : q.trace = r.trace => q.tenant = r.tenant
  PROVE  Located(r.tenant, r.trace) # {}
<1> DEFINE mine == {e \in locator : e.trace = r.trace /\ e.tenant = r.tenant}
           ages == {now - e.seen : e \in mine}
<1>1. PICK e \in locator : e.trace = r.trace
  BY DEF Stored, DaysAreLocated
<1>2. e \in mine
  BY <1>1 DEF Stored, DaysAreStored, Held
<1>3. \A d \in mine : d.seen \in Nat /\ now - d.seen \in Nat
  BY NowType DEF Stored, DaysAreLocated
<1>4. PICK age \in ages : \A a \in ages : age <= a
  <2>1. ages \in SUBSET Nat /\ ages # {}
    BY <1>2, <1>3
  <2> HIDE DEF ages
  <2> QED BY <2>1, LeastExists
<1>5. PICK d \in mine : age = now - d.seen
  BY <1>4
<1>6. \A o \in mine : o.seen <= d.seen
  <2> TAKE o \in mine
  <2>1. now - d.seen <= now - o.seen
    BY <1>4, <1>5
  <2> QED BY <2>1, <1>3, NowType
<1> QED BY <1>5, <1>6 DEF Located

\* On a day the locator gives there are spans to show.
LEMMA LocatedIsShown ==
  ASSUME Stored, NEW tenant, NEW t, NEW day \in Located(tenant, t)
  PROVE  DetailSpans(tenant, t, day) # <<>>
<1> DEFINE M == {r \in rows : r.tenant = tenant /\ r.trace = t /\ Day(r.time) = day}
           N == Newest(M)
           k == Cardinality(N)
           f == ByTime(N)
<1>1. PICK e \in locator : e.tenant = tenant /\ e.trace = t /\ e.day = day
  BY DEF Located
<1>2. M # {}
  BY <1>1 DEF Stored, DaysAreStored, Held
<1>3. N # {} /\ IsFiniteSet(N)
  <2>1. M \subseteq rows
    OBVIOUS
  <2> HIDE DEF M
  <2>2. N \subseteq rows
    BY <2>1 DEF Newest
  <2> QED BY <1>2, <2>1, <2>2, NewestIsThere, FS_Subset DEF Stored
<1> HIDE DEF N
<1>4. k \in Nat \ {0}
  BY <1>3, FS_CardinalityType, FS_EmptySet
<1>5. DOMAIN f = 1 .. k /\ f = [i \in 1 .. k |-> f[i]]
  <2> DEFINE at(i) == CHOOSE r \in N : Cardinality({q \in N : Earlier(q, r)}) = i - 1
  <2>1. f = [i \in 1 .. k |-> at(i)]
    BY DEF ByTime, Ordered
  <2> HIDE DEF f, at, k
  <2> QED BY <2>1
<1>6. TraceSpanCap \in Nat \ {0}
  BY CapAssumption
<1>7. DetailSpans(tenant, t, day) = First(TraceSpanCap, f)
  BY DEF DetailSpans, N
<1> HIDE DEF f, k
<1> QED BY <1>4, <1>5, <1>6, <1>7, FirstShows

(* ListedOpens: a trace in a tenant's list opens, when no other tenant has spans  *)
(* of the same trace, although the locator keeps one row of a trace and a day,    *)
(* whosever that is.                                                              *)
THEOREM ListedOpens == Spec => []ListedTraceOpens
<1>1. Stored => ListedTraceOpens
  BY TraceIsLocated, LocatedIsShown DEF ListedTraceOpens
<1> QED BY PagingInvariant, <1>1, PTL

-----------------------------------------------------------------------------
(***************************************************************************)
(* What the row of a trace tells of its spans, whichever values are picked *)
(* for it, and what a filter keeps.                                        *)
(***************************************************************************)

\* The worst of a trace is told by its failures first, then by what is not ok.
LEMMA SeverityIs ==
  ASSUME NEW r
  PROVE  /\ r.error => Severity(r) = 3
         /\ ~ r.error /\ r.category \notin {"", "ok"} => Severity(r) = 2
         /\ ~ r.error /\ r.category = "ok" => Severity(r) = 1
         /\ ~ r.error /\ r.category = "" => Severity(r) = 0
<1> DEFINE rules == << <<r.error, 3>>, <<r.category \notin {"", "ok"}, 2>>,
                       <<r.category = "ok", 1>>, <<TRUE, 0>> >>
           Guard(k) == rules[k][1]
           Holds(k) == Guard(k) /\ \A j \in 1 .. k - 1 : ~ Guard(j)
           at == CHOOSE k \in 1 .. 4 : Holds(k)
<1>1. Severity(r) = rules[at][2]
  <2>1. DOMAIN rules = 1 .. 4
    OBVIOUS
  <2> QED BY <2>1 DEF Severity, FirstRule
<1>2. /\ Guard(1) <=> r.error
      /\ Guard(2) <=> r.category \notin {"", "ok"}
      /\ Guard(3) <=> r.category = "ok"
      /\ Guard(4)
  OBVIOUS
<1>3. rules[1][2] = 3 /\ rules[2][2] = 2 /\ rules[3][2] = 1 /\ rules[4][2] = 0
  OBVIOUS
<1> HIDE DEF Guard, rules
<1>4. /\ Holds(1) <=> Guard(1)
      /\ Holds(2) <=> Guard(2) /\ ~ Guard(1)
      /\ Holds(3) <=> Guard(3) /\ ~ Guard(1) /\ ~ Guard(2)
      /\ Holds(4) <=> Guard(4) /\ ~ Guard(1) /\ ~ Guard(2) /\ ~ Guard(3)
  OBVIOUS
<1>5. ASSUME NEW i \in 1 .. 4, Holds(i) PROVE at = i
  <2>1. at \in 1 .. 4 /\ Holds(at)
    <3> HIDE DEF Holds
    <3> QED BY <1>5
  <2>2. ~ (at < i) /\ ~ (i < at)
    <3> HIDE DEF at
    <3> QED BY <1>5, <2>1
  <2> HIDE DEF at
  <2> QED BY <2>1, <2>2
<1> HIDE DEF Holds, at
<1>6. \A i \in {1, 2, 3, 4} : Holds(i) => Severity(r) = rules[i][2]
  BY <1>1, <1>5
<1> QED BY <1>2, <1>3, <1>4, <1>6

\* An error is what its category says, in every version.
LEMMA ErrorIsCategory == ASSUME Stored, NEW r \in rows PROVE r.error = IsError(r.category)
BY VersionTells DEF Stored, RowsAreVersions, Told

\* The spans of a listed trace: some of the stored rows.
LEMMA SpansAre ==
  ASSUME Stored, NEW tenant, NEW since, NEW t \in Listed(tenant, since)
  PROVE  /\ SpansOf(tenant, since, t) \subseteq rows
         /\ SpansOf(tenant, since, t) # {}
         /\ IsFiniteSet(SpansOf(tenant, since, t))
<1>1. SpansOf(tenant, since, t) \subseteq rows
  BY ListedAre DEF SpansOf
<1> QED BY <1>1, FS_Subset DEF Listed, SpansOf, Stored

\* Some span is the worst, and whichever is picked fails if any does.
LEMMA WorstIs ==
  ASSUME Stored, NEW S \in SUBSET rows, S # {}
  PROVE  /\ WorstCategories(S) # {}
         /\ \A c \in WorstCategories(S) : IsError(c) <=> \E r \in S : r.error
         /\ \A r \in S : r.category \notin {"", "ok"}
              /\ (\A q \in S : q.category \in {"", "ok", r.category})
              => r.category \in WorstCategories(S)
<1>1. \A r \in S : Severity(r) \in 0 .. 3 /\ r.error \in BOOLEAN
                      /\ (r.error <=> Severity(r) = 3)
  <2> TAKE r \in S
  <2>1. r.error = IsError(r.category)
    BY ErrorIsCategory
  <2>2. r.error \in BOOLEAN
    BY <2>1 DEF IsError
  <2>3. r.category \in {"", "ok"} \/ r.category \notin {"", "ok"}
    OBVIOUS
  <2>4. Severity(r) \in {0, 1, 2, 3} /\ (r.error <=> Severity(r) = 3)
    <3>1. r.error => Severity(r) = 3
      BY SeverityIs
    <3>2. ~ r.error => Severity(r) \in {0, 1, 2}
      BY SeverityIs
    <3> QED BY <2>2, <3>1, <3>2
  <2> QED BY <2>2, <2>4
<1>2. \E q \in S : \A p \in S : Severity(p) <= Severity(q)
  <2> DEFINE below == {3 - Severity(r) : r \in S}
  <2>1. below \in SUBSET Nat /\ below # {}
    BY <1>1
  <2>2. Min(below) \in below /\ \A x \in below : Min(below) <= x
    BY <2>1, LeastOf
  <2>3. PICK q \in S : Min(below) = 3 - Severity(q)
    BY <2>2
  <2> QED BY <1>1, <2>2, <2>3
<1>3. ASSUME NEW c \in WorstCategories(S) PROVE IsError(c) <=> \E r \in S : r.error
  <2>1. PICK q \in S : c = q.category /\ \A p \in S : Severity(p) <= Severity(q)
    BY DEF WorstCategories
  <2>2. q.error = IsError(c)
    BY <2>1, ErrorIsCategory
  <2>3. (\E r \in S : r.error) => q.error
    BY <1>1, <2>1
  <2> QED BY <2>1, <2>2, <2>3
<1>4. ASSUME NEW r \in S, r.category \notin {"", "ok"},
             \A q \in S : q.category \in {"", "ok", r.category}
      PROVE  r.category \in WorstCategories(S)
  <2>1. \A q \in S : q.error = IsError(q.category)
    BY ErrorIsCategory
  <2>2. \A q \in S : q.error => r.error
    BY <1>4, <2>1 DEF IsError, NotAFailure
  <2>3. ~ r.error => Severity(r) = 2
    BY <1>4, SeverityIs
  <2>4. \A q \in S : Severity(q) <= Severity(r)
    BY <1>1, <2>2, <2>3
  <2> QED BY <2>4 DEF WorstCategories
<1> QED BY <1>2, <1>3, <1>4 DEF WorstCategories

\* Finitely many categories among finitely many spans.
LEMMA CategoriesAreFinite ==
  ASSUME NEW S, IsFiniteSet(S) PROVE IsFiniteSet({q.category : q \in S})
<1> DEFINE f == [q \in S |-> q.category]
<1>1. f \in Surjection(S, {q.category : q \in S})
  BY DEF Surjection
<1> HIDE DEF f
<1> QED BY <1>1, FS_Surjection

\* A row may be picked for each combination of the values its columns may have.
LEMMA AnyOfIs == ASSUME NEW S, NEW column
                 PROVE  /\ AnyOf(S, column) # {}
                        /\ \A r \in S : r[column] # "" => r[column] \in AnyOf(S, column)
BY DEF AnyOf

\* A row with values that its spans have is in the list.
LEMMA PickedIsListed ==
  ASSUME NEW tenant, NEW since, NEW t \in Listed(tenant, since),
         NEW picked \in [server : AnyOf(SpansOf(tenant, since, t), "server"),
                         tool : AnyOf(SpansOf(tenant, since, t), "tool"),
                         method : AnyOf(SpansOf(tenant, since, t), "method"),
                         transport : AnyOf(SpansOf(tenant, since, t), "transport"),
                         category : WorstCategories(SpansOf(tenant, since, t))]
  PROVE  Summary(SpansOf(tenant, since, t), picked) \in TraceRows(tenant, since)
<1> DEFINE L == LatestSpans(tenant, since)
<1>1. SpansOf(tenant, since, t) = {r \in L : r.trace = t} /\ t \in {r.trace : r \in L}
  BY DEF SpansOf, Listed
<1>2. TraceRows(tenant, since) =
        UNION {SummariesOf({r \in L : r.trace = u}) : u \in {r.trace : r \in L}}
  BY DEF TraceRows
<1>3. Summary(SpansOf(tenant, since, t), picked) \in SummariesOf(SpansOf(tenant, since, t))
  BY DEF SummariesOf
<1> QED BY <1>1, <1>2, <1>3

-----------------------------------------------------------------------------
(***************************************************************************)
(* The filters of the lists that stand for a whole query: one of them, or  *)
(* none.                                                                   *)
(***************************************************************************)

Lists == {"traces", "errors"}

\* A request without conditions parses to none.
LEMMA NoConditions == ASSUME NEW view, NEW query PROVE Parse(view, query, <<>>).conditions = {}
<1>1. SubSeq(<<>>, 1, IF Len(<<>>) < MaxConditions THEN Len(<<>>) ELSE MaxConditions) = <<>>
  BY DEF MaxConditions
<1>2. DOMAIN <<>> = {}
  OBVIOUS
<1> QED BY <1>1, <1>2 DEF Parse

\* No filter: the errors view keeps failures, the other everything.
LEMMA UnfilteredShows ==
  ASSUME NEW row, NEW spans
  PROVE  Shown(Unfiltered("errors"), row, spans) <=> row.category \notin NotAFailureSql
<1> DEFINE filters == Unfiltered("errors")
<1>1. filters.view = "errors" /\ DOMAIN filters.values = {} /\ filters.conditions = {}
  BY NoConditions DEF Unfiltered, Parse
<1> HIDE DEF filters
<1>2. FailuresOnly(filters) /\ Keeps(filters, "where", row, spans)
  BY <1>1 DEF FailuresOnly, Keeps
<1>3. Shown(filters, row, spans) <=> row.category \notin NotAFailureSql
  BY <1>2 DEF Shown
<1> QED BY <1>3 DEF filters

\* One filter: what its clause says of the row.
OnlyFilter(filters, view, key, value) ==
  /\ filters.view = view /\ filters.conditions = {}
  /\ DOMAIN filters.values = {key} /\ filters.values[key] = value

\* A request with one parameter, of a view that knows it, filters by it alone.
LEMMA OneFilterIs ==
  ASSUME NEW view \in Lists, NEW key \in DOMAIN Views[view], NEW value, value # "",
         ParsedValue(Views[view][key], value) = value,
         NEW query, DOMAIN query = {key}, query[key] = value
  PROVE  OnlyFilter(Parse(view, query, <<>>), view, key, value)
<1> DEFINE specs == Views[view]
           known == {k \in DOMAIN query \cap DOMAIN specs : ParsedValue(specs[k], query[k]) # ""}
<1>1. known = {key}
  OBVIOUS
<1>2. Parse(view, query, <<>>).values = [k \in known |-> ParsedValue(specs[k], query[k])]
  BY DEF Parse
<1>3. /\ Parse(view, query, <<>>).view = view
      /\ Parse(view, query, <<>>).conditions = {}
  BY NoConditions DEF Parse
<1> HIDE DEF known, specs
<1>4. query[key] = value /\ ParsedValue(specs[key], value) = value
  BY DEF specs
<1> QED BY <1>1, <1>2, <1>3, <1>4 DEF OnlyFilter

LEMMA OneFilterShows ==
  ASSUME NEW view \in Lists, NEW key \in DOMAIN Views[view], NEW value, value # "",
         ParsedValue(Views[view][key], value) = value, Views[view][key].stage = "where",
         view = "traces" \/ key = "failure_category",
         NEW query, DOMAIN query = {key}, query[key] = value, NEW row, NEW spans
  PROVE  Shown(Parse(view, query, <<>>), row, spans) <=> Clause(Views[view][key], value, row)
<1> DEFINE filters == Parse(view, query, <<>>)
<1>1. OnlyFilter(filters, view, key, value)
  BY OneFilterIs
<1> HIDE DEF filters
<1>2. ~ FailuresOnly(filters)
  BY <1>1 DEF FailuresOnly, Lists, OnlyFilter
<1>3. Keeps(filters, "where", row, spans) <=> Clause(Views[view][key], value, row)
  <2> HIDE DEF Views, Clause
  <2> QED BY <1>1 DEF Keeps, OnlyFilter
<1>4. Shown(filters, row, spans) <=> Clause(Views[view][key], value, row)
  BY <1>2, <1>3 DEF Shown
<1> QED BY <1>4 DEF filters

\* The column a select filters.
ColumnOf(key) == IF key = "failure_category" THEN "category" ELSE key

\* The selects of the lists.
LEMMA SelectsAre ==
  ASSUME NEW key \in {"server", "tool", "method", "failure_category"}
  PROVE  /\ key \in DOMAIN TraceFilters /\ key # "status"
         /\ TraceFilters[key] = Advanced(FilterSpec("select", {ColumnOf(key)}, "where"))
<1>1. CASE key = "server"
  BY <1>1 DEF TraceFilters, ColumnOf
<1>2. CASE key = "tool"
  BY <1>2 DEF TraceFilters, ColumnOf
<1>3. CASE key = "method"
  BY <1>3 DEF TraceFilters, ColumnOf
<1>4. CASE key = "failure_category"
  BY <1>4 DEF TraceFilters, ColumnOf
<1> QED BY <1>1, <1>2, <1>3, <1>4

LEMMA ListsFilter ==
  /\ Views["traces"] = TraceFilters
  /\ Views["errors"] = [k \in DOMAIN TraceFilters \ {"status"} |-> TraceFilters[k]]
BY DEF Views

\* A list filtered by a select shows the rows with that value.
LEMMA SelectShows ==
  ASSUME NEW view \in Lists, NEW key \in {"server", "tool", "method", "failure_category"},
         view = "traces" \/ key = "failure_category",
         NEW value, value # "", NEW query, DOMAIN query = {key}, query[key] = value,
         NEW row, NEW spans
  PROVE  Shown(Parse(view, query, <<>>), row, spans) <=> row[ColumnOf(key)] = value
<1> DEFINE spec == Views[view][key]
<1>1. /\ key \in DOMAIN Views[view]
      /\ spec = Advanced(FilterSpec("select", {ColumnOf(key)}, "where"))
  <2>1. /\ key \in DOMAIN TraceFilters /\ key # "status"
        /\ TraceFilters[key] = Advanced(FilterSpec("select", {ColumnOf(key)}, "where"))
    BY SelectsAre
  <2> QED BY <2>1, ListsFilter DEF Lists
<1>2. spec.kind = "select" /\ spec.columns = {ColumnOf(key)} /\ spec.stage = "where"
      /\ spec.choices = {}
  BY <1>1 DEF Advanced, FilterSpec
<1> HIDE DEF spec
<1>3. ParsedValue(spec, value) = value
  BY <1>2 DEF ParsedValue
<1>4. Clause(spec, value, row) <=> row[ColumnOf(key)] = value
  BY <1>2 DEF Clause, IsNumber
<1> QED BY <1>1, <1>2, <1>3, <1>4, OneFilterShows DEF spec

\* The list of traces, filtered by a value that is offered.
LEMMA OfferShows ==
  ASSUME NEW key \in {"server", "tool", "method", "failure_category"},
         NEW value, value # "", NEW row, row[ColumnOf(key)] = value
  PROVE  Shown(Parse("traces", [k \in {key} |-> value], <<>>), row, {})
<1>1. "traces" \in Lists
  BY DEF Lists
<1> DEFINE query == [k \in {key} |-> value]
<1>2. DOMAIN query = {key} /\ query[key] = value
  OBVIOUS
<1> HIDE DEF query
<1>3. Shown(Parse("traces", query, <<>>), row, {})
  BY <1>1, <1>2, SelectShows
<1> QED BY <1>3 DEF query

\* The list of traces, filtered by status.
LEMMA StatusShows ==
  ASSUME NEW value \in {"ok", "error"},
         NEW query, DOMAIN query = {"status"}, query["status"] = value,
         NEW row, NEW spans
  PROVE  Shown(Parse("traces", query, <<>>), row, spans) <=>
           IF value = "error" THEN row.category \notin NotAFailureSql
                              ELSE row.category \in {"", "ok"}
<1> DEFINE spec == Views["traces"]["status"]
<1>1. /\ "traces" \in Lists /\ "status" \in DOMAIN Views["traces"]
      /\ spec = [FilterSpec("predicate", {"category"}, "where")
                   EXCEPT !.choices = {"", "ok", "error"}]
  <2>1. /\ "status" \in DOMAIN TraceFilters
        /\ TraceFilters["status"] = [FilterSpec("predicate", {"category"}, "where")
                                       EXCEPT !.choices = {"", "ok", "error"}]
    BY DEF TraceFilters
  <2> QED BY <2>1, ListsFilter DEF Lists
<1>2. spec.kind = "predicate" /\ spec.stage = "where" /\ spec.choices = {"", "ok", "error"}
  BY <1>1 DEF FilterSpec
<1> HIDE DEF spec
<1>3. ParsedValue(spec, value) = value
  BY <1>2 DEF ParsedValue
<1>4. Clause(spec, value, row) <=> IF value = "error" THEN row.category \notin NotAFailureSql
                                   ELSE row.category \in {"", "ok"}
  <2>1. CASE value = "error"
    BY <1>2, <2>1 DEF Clause, IsNumber
  <2>2. CASE value = "ok"
    BY <1>2, <2>2 DEF Clause, IsNumber
  <2> QED BY <2>1, <2>2
<1>5. value # ""
  OBVIOUS
<1> QED BY <1>1, <1>2, <1>3, <1>4, <1>5, OneFilterShows DEF spec

\* What the panel offers in a column is there, and worth asking for.
Present(tenant, since, column, value) ==
  /\ value # "" /\ (column = "category" => value # "ok")
  /\ \E r \in LatestSpans(tenant, since) : r[column] = value

\* A value that is offered is in some newest span.
LEMMA OptionsAre ==
  ASSUME NEW tenant, NEW since, NEW column \in {"server", "tool", "method", "category"},
         NEW value, value \in FilterOptions(tenant, since)[column]
  PROVE  Present(tenant, since, column, value)
<1>1. CASE column = "server"
  BY <1>1 DEF FilterOptions, Present
<1>2. CASE column = "tool"
  BY <1>2 DEF FilterOptions, Present
<1>3. CASE column = "method"
  BY <1>3 DEF FilterOptions, Present
<1>4. CASE column = "category"
  BY <1>4 DEF FilterOptions, Present
<1> QED BY <1>1, <1>2, <1>3, <1>4

-----------------------------------------------------------------------------
\* OfferedFound: a value that a select of the trace list offers keeps a trace, when no
\* trace has two of them.
THEOREM OfferedFound == Spec => []OfferedValuesFound
<1>1. ASSUME Stored PROVE OfferedValuesFound
  <2> SUFFICES ASSUME NEW tenant \in Tenants,
                      NEW key \in {"server", "tool", "method", "failure_category"},
                      \A t \in TraceIds :
                        Cardinality({r[ColumnOf(key)] :
                                       r \in {q \in LatestSpans(tenant, AllTime) : q.trace = t}}
                                      \ {"", "ok"}) <= 1,
                      NEW value \in Offered("traces", key, FilterOptions(tenant, AllTime))
               PROVE  \E row \in TraceRows(tenant, AllTime) :
                        Shown(Parse("traces", [k \in {key} |-> value], <<>>), row, {})
    BY DEF OfferedValuesFound, ColumnOf
  <2> DEFINE L == LatestSpans(tenant, AllTime)
             column == ColumnOf(key)
  <2>1. value # "" /\ (key = "failure_category" => value # "ok") /\ \E r \in L : r[column] = value
    <3>1. Views["traces"][key] = Advanced(FilterSpec("select", {column}, "where"))
      BY SelectsAre, ListsFilter
    <3>2. /\ Views["traces"][key].choices = {}
          /\ Views["traces"][key].columns = {column}
      BY <3>1 DEF Advanced, FilterSpec
    <3>3. column \in {"server", "tool", "method", "category"}
      BY DEF ColumnOf
    <3>4. value \in FilterOptions(tenant, AllTime)[column]
      BY <3>2 DEF Offered
    <3>5. column = "category" <=> key = "failure_category"
      BY DEF ColumnOf
    <3> HIDE DEF column
    <3>6. Present(tenant, AllTime, column, value)
      BY <3>3, <3>4, OptionsAre
    <3> QED BY <3>5, <3>6 DEF Present
  <2>2. PICK r \in L : r[column] = value
    BY <2>1
  <2> DEFINE t == r.trace
             S == SpansOf(tenant, AllTime, t)
  <2>3. t \in Listed(tenant, AllTime) /\ r \in S
    BY <2>2 DEF Listed, SpansOf
  <2>4. S \subseteq rows /\ S # {} /\ IsFiniteSet(S) /\ t \in TraceIds
    <3>1. t \in TraceIds
      BY <1>1, <2>3, ListedAre
    <3>2. S \subseteq rows /\ S # {} /\ IsFiniteSet(S)
      <4> HIDE DEF t
      <4> QED BY <1>1, <2>3, SpansAre
    <3> QED BY <3>1, <3>2
  <2>5. column = "category" => value \in WorstCategories(S)
    <3> SUFFICES ASSUME key = "failure_category" PROVE value \in WorstCategories(S)
      BY DEF ColumnOf
    <3>1. column = "category" /\ value \notin {"", "ok"} /\ r.category = value
      BY <2>1, <2>2 DEF ColumnOf
    <3> DEFINE V == {q.category : q \in S} \ {"", "ok"}
    <3>2. Cardinality(V) <= 1
      BY <2>4, <3>1 DEF SpansOf
    <3>3. IsFiniteSet(V)
      <4>1. IsFiniteSet({q.category : q \in S})
        BY <2>4, CategoriesAreFinite
      <4> QED BY <4>1, FS_Subset
    <3>4. ASSUME NEW q \in S PROVE q.category \in {"", "ok", r.category}
      <4> SUFFICES ASSUME q.category \notin {"", "ok"}, q.category # value PROVE FALSE
        BY <3>1
      <4>1. q.category \in V /\ value \in V
        BY <2>3, <3>1
      <4> HIDE DEF V
      <4> QED BY <3>2, <3>3, <4>1, OnlyOneIn
    <3> QED BY <1>1, <2>3, <2>4, <3>1, <3>4, WorstIs
  <2> DEFINE known == column \in {"server", "tool", "method"}
             of(c) == IF c = column THEN value ELSE CHOOSE x \in AnyOf(S, c) : TRUE
             worst == IF known THEN CHOOSE x \in WorstCategories(S) : TRUE ELSE value
             picked == [server |-> of("server"), tool |-> of("tool"), method |-> of("method"),
                        transport |-> of("transport"), category |-> worst]
             row == Summary(S, picked)
  <2>6. column \in {"server", "tool", "method", "category"}
    BY DEF ColumnOf
  <2>7. ASSUME NEW c \in {"server", "tool", "method", "transport"} PROVE of(c) \in AnyOf(S, c)
    BY <2>1, <2>2, <2>3, AnyOfIs
  <2>8. worst \in WorstCategories(S)
    BY <1>1, <2>4, <2>5, <2>6, WorstIs
  <2> HIDE DEF of, worst, S
  <2>9. row \in TraceRows(tenant, AllTime)
    BY <2>3, <2>7, <2>8, PickedIsListed DEF S
  <2>10. row[column] = value
    <3>1. /\ row.server = of("server") /\ row.tool = of("tool") /\ row.method = of("method")
          /\ row.category = worst
      BY DEF Summary
    <3> HIDE DEF row, picked
    <3> QED BY <2>6, <3>1 DEF of, worst
  <2>11. Shown(Parse("traces", [k \in {key} |-> value], <<>>), row, {})
    <3> HIDE DEF row
    <3> QED BY <2>1, <2>10, OfferShows
  <2> QED BY <2>9, <2>11
<1> QED BY PagingInvariant, <1>1, PTL

(* NothingLeadsNowhere: under any inserts, replays, late spans and merges, what   *)
(* the list shows can be followed: its traces open, its selects find some.        *)
THEOREM NothingLeadsNowhere == Spec => []NoDeadEnds
<1>1. ListedTraceOpens /\ OfferedValuesFound => NoDeadEnds
  BY DEF NoDeadEnds
<1> QED BY ListedOpens, OfferedFound, <1>1, PTL

-----------------------------------------------------------------------------
(***************************************************************************)
(* One definition of failure: the errors of a row of the list are told by  *)
(* its category.                                                           *)
(***************************************************************************)

\* A row has errors when its category is one.
LEMMA RowFails ==
  ASSUME Stored, NEW tenant, NEW since, NEW row \in TraceRows(tenant, since)
  PROVE  row.errors > 0 <=> row.category \notin NotAFailureSql
<1>1. PICK t \in Listed(tenant, since) : row \in SummariesOf(SpansOf(tenant, since, t))
  BY DEF TraceRows, Listed, SpansOf
<1> DEFINE S == SpansOf(tenant, since, t)
           failed == {r \in S : r.error}
<1>2. S \subseteq rows /\ S # {} /\ IsFiniteSet(S)
  BY SpansAre
<1> HIDE DEF S
<1>3. PICK picked : row = Summary(S, picked) /\ picked.category \in WorstCategories(S)
  BY <1>1 DEF SummariesOf, S
<1>4. row.errors = Cardinality(failed) /\ row.category = picked.category
  BY <1>3 DEF Summary
<1>5. IsError(row.category) <=> failed # {}
  BY <1>2, <1>3, <1>4, WorstIs
<1>6. IsFiniteSet(failed)
  BY <1>2, FS_Subset
<1> HIDE DEF failed
<1>7. row.errors > 0 <=> failed # {}
  BY <1>4, <1>6, FS_EmptySet, FS_CardinalityType
<1>8. IsError(row.category) <=> row.category \notin NotAFailureSql
  BY DEF IsError, NotAFailure, NotAFailureSql
<1> QED BY <1>5, <1>7, <1>8

\* So the filters, the error list and the counts agree.
LEMMA OneFailure == ASSUME Stored PROVE OneDefinitionOfFailure
<1> SUFFICES ASSUME NEW tenant \in Tenants, NEW row \in TraceRows(tenant, AllTime)
             PROVE  LET in(view, query) ==
                          Shown(Parse(view, query, <<>>), row, Scoped(tenant, AllTime))
                    IN  /\ row.errors > 0 <=> Shown(Unfiltered("errors"), row, {})
                        /\ row.errors > 0 <=> in("traces", [status |-> "error"])
                        /\ row.errors > 0 => ~ in("traces", [status |-> "ok"])
                        /\ row.errors > 0 => in("errors", [failure_category |-> row.category])
  BY DEF OneDefinitionOfFailure
<1> DEFINE in(view, query) == Shown(Parse(view, query, <<>>), row, Scoped(tenant, AllTime))
           failed == row.errors > 0
<1>1. failed <=> row.category \notin NotAFailureSql
  BY RowFails
<1>2. failed <=> Shown(Unfiltered("errors"), row, {})
  BY <1>1, UnfilteredShows
<1> HIDE DEF failed
<1>3. failed <=> in("traces", [status |-> "error"])
  <2> DEFINE query == [status |-> "error"]
  <2>1. DOMAIN query = {"status"} /\ query["status"] = "error" /\ "error" \in {"ok", "error"}
    OBVIOUS
  <2> HIDE DEF query
  <2>2. Shown(Parse("traces", query, <<>>), row, Scoped(tenant, AllTime)) <=>
          row.category \notin NotAFailureSql
    BY <2>1, StatusShows
  <2> QED BY <1>1, <2>2 DEF query
<1>4. failed => ~ in("traces", [status |-> "ok"])
  <2> DEFINE query == [status |-> "ok"]
  <2>1. DOMAIN query = {"status"} /\ query["status"] = "ok" /\ "ok" \in {"ok", "error"}
    OBVIOUS
  <2> HIDE DEF query
  <2>2. Shown(Parse("traces", query, <<>>), row, Scoped(tenant, AllTime)) <=>
          row.category \in {"", "ok"}
    BY <2>1, StatusShows
  <2> QED BY <1>1, <2>2 DEF query, NotAFailureSql
<1>5. failed => in("errors", [failure_category |-> row.category])
  <2> DEFINE query == [failure_category |-> row.category]
             key == "failure_category"
  <2> SUFFICES ASSUME failed PROVE in("errors", query)
    OBVIOUS
  <2>1. row.category # ""
    BY <1>1 DEF NotAFailureSql
  <2>2. DOMAIN query = {key} /\ query[key] = row.category /\ row[ColumnOf(key)] = row.category
    BY DEF ColumnOf
  <2>3. /\ key \in {"server", "tool", "method", "failure_category"} /\ key = "failure_category"
        /\ "errors" \in Lists
    BY DEF Lists
  <2> HIDE DEF query, key
  <2>4. Shown(Parse("errors", query, <<>>), row, Scoped(tenant, AllTime)) <=>
          row[ColumnOf(key)] = row.category
    BY <2>1, <2>2, <2>3, SelectShows
  <2> QED BY <2>2, <2>4
<1> QED BY <1>2, <1>3, <1>4, <1>5 DEF failed

-----------------------------------------------------------------------------
(***************************************************************************)
(* The calls a capability table counts.                                    *)
(***************************************************************************)

\* A span of an MCP call has one of the categories the pages know.
LEMMA CallsHaveKinds == ASSUME NEW s \in Spans, IsMcp(s) PROVE Classify(s) \in Categories
<1> DEFINE errorType == Attr(s, "error.type")
           helper == Attr(s, "mcpobs.failure.kind")
           coded == errorType \in NumericCodes
                      \/ Attr(s, "rpc.response.status_code") \in NumericCodes
           rules == << <<~ IsMcp(s), TransportAuth(s)>>,
                       <<ResultType(s) = "input_required", "pending_input">>,
                       <<Attr(s, "mcpobs.cancelled") # "", "cancelled">>,
                       <<helper # "", helper>>,
                       <<errorType = "" /\ ~ (s.status = "ERROR"), "ok">>,
                       <<errorType = "tool_error", "tool_error">>,
                       <<coded, "protocol_error">>,
                       <<errorType # "" \/ s.exception, "server_exception">>,
                       <<TRUE, "unclassified">> >>
           Holds(i) == rules[i][1] /\ \A j \in 1 .. i - 1 : ~ rules[j][1]
           at == CHOOSE i \in DOMAIN rules : Holds(i)
<1>1. Classify(s) = rules[at][2]
  BY DEF Classify, FirstRule
<1>2. DOMAIN rules = 1 .. 9 /\ rules[9][1]
  OBVIOUS
<1>3. rules[1][1] <=> ~ IsMcp(s)
  OBVIOUS
<1>4. \A i \in 2 .. 9 : i # 4 => rules[i][2] \in Categories
  <2>1. /\ rules[2][2] = "pending_input" /\ rules[3][2] = "cancelled" /\ rules[5][2] = "ok"
        /\ rules[6][2] = "tool_error" /\ rules[7][2] = "protocol_error"
        /\ rules[8][2] = "server_exception" /\ rules[9][2] = "unclassified"
    OBVIOUS
  <2> HIDE DEF rules
  <2>2. \A i \in {2, 3, 5, 6, 7, 8, 9} : rules[i][2] \in Categories
    BY <2>1 DEF Categories
  <2> QED BY <2>2
<1>5. rules[4][1] => rules[4][2] \in Categories
  BY KindsAssumption
<1> HIDE DEF rules
<1>6. \E i \in DOMAIN rules : Holds(i)
  <2> DEFINE those == {i \in 1 .. 9 : rules[i][1]}
  <2>1. those \in SUBSET Nat /\ those # {}
    BY <1>2
  <2>2. PICK i \in those : \A j \in those : i <= j
    BY <2>1, LeastExists
  <2> QED BY <1>2, <2>2
<1>7. at \in 1 .. 9 /\ rules[at][1]
  BY <1>2, <1>6
<1> HIDE DEF at
<1> QED BY <1>1, <1>3, <1>4, <1>5, <1>7

\* What a stored row says of the call it is about, in every version.
IsCall(r) ==
  /\ r.method # "" => r.category \in Categories
  /\ r.tool # "" /\ r.category # "" => r.method = "tools/call"

\* The name a call has in the table of its kind.
KindOf(r) ==
  IF r.method = "tools/call" THEN "tool"
  ELSE IF r.method = "prompts/get" THEN "prompt"
  ELSE IF r.method = "resources/read" THEN "resource"
  ELSE "protocol"

NameOf(kind, r) == r[CapabilityKinds[kind].name]

\* Which column of a span that is.
LEMMA NameIs ==
  ASSUME NEW r
  PROVE  /\ NameOf("tool", r) = r.tool /\ NameOf("prompt", r) = r.prompt
         /\ NameOf("resource", r) = r.resource /\ NameOf("protocol", r) = r.method
BY DEF NameOf, CapabilityKinds

\* Every stored row is one, and its name can be sorted.
LEMMA RowsAreCalls ==
  ASSUME Stored, NEW r \in rows
  PROVE  /\ IsCall(r)
         /\ \A kind \in DOMAIN CapabilityKinds : NameOf(kind, r) # "" => NameOf(kind, r) \in Items
<1>1. PICK s \in Spans : VersionOf(r, s)
  BY DEF Stored, RowsAreVersions
<1>2. Told(r, s)
  BY <1>1, VersionTells
<1> DEFINE n == ToRow(s, Current)
<1>3. /\ n.method = Attr(s, "mcp.method.name") /\ n.tool = Attr(s, "gen_ai.tool.name")
      /\ n.category = Classify(s)
  BY DEF ToRow
<1> HIDE DEF n
<1>4. r.method = n.method /\ r.tool = n.tool /\ r.prompt = n.prompt /\ r.resource = n.resource
  BY <1>2 DEF Told, n
<1>5. "" \notin Categories
  BY DEF Categories
<1>6. r.method # "" => r.category \in Categories
  <2>1. r.method # "" => IsMcp(s)
    BY <1>3, <1>4 DEF Attr, IsMcp
  <2>2. IsMcp(s) => n.category \in Categories
    BY <1>3, CallsHaveKinds
  <2> QED BY <1>2, <2>1, <2>2, KindsAssumption DEF Told, n
<1>7. r.tool # "" /\ r.category # "" => r.method = "tools/call"
  <2> SUFFICES ASSUME r.tool # "", r.category # "" PROVE r.method = "tools/call"
    OBVIOUS
  <2>1. Classify(s) # ""
    <3>1. CASE r = n
      BY <1>3, <3>1
    <3>2. CASE IsMcp(s)
      BY <1>5, <3>2, CallsHaveKinds
    <3> QED BY <1>2, <3>1, <3>2 DEF Told, n
  <2> QED BY <1>3, <1>4, <2>1, KindsAssumption
<1>8. ASSUME NEW kind \in DOMAIN CapabilityKinds, NameOf(kind, r) # ""
      PROVE  NameOf(kind, r) \in Items
  <2>1. NameOf(kind, r) = NameOf(kind, n)
    <3>1. kind \in {"tool", "prompt", "resource", "protocol"}
      BY DEF CapabilityKinds
    <3> QED BY <1>4, <3>1, NameIs
  <2>2. NameOf(kind, n) \in Items
    <3>1. ToRow(s, Current)[CapabilityKinds[kind].name] \in Items \cup {""}
      <4> DEFINE x == ToRow(s, Current)[CapabilityKinds[kind].name]
      <4>1. x \in NamesOf(s)
        BY DEF NamesOf
      <4> HIDE DEF x
      <4>2. \A u \in Spans : NamesOf(u) \subseteq Items \cup {""}
        BY DEF Items
      <4>3. x \in Items \cup {""}
        BY <4>1, <4>2
      <4> QED BY <4>3 DEF x
    <3> QED BY <1>8, <2>1, <3>1 DEF NameOf, n
  <2> QED BY <2>1, <2>2
<1> QED BY <1>6, <1>7, <1>8 DEF IsCall

-----------------------------------------------------------------------------
\* The newest version of each span that is stored, and no two.
SameCall(q, r) ==
  /\ q.trace = r.trace /\ q.span = r.span /\ q.method = r.method
  /\ \A kind \in DOMAIN CapabilityKinds : NameOf(kind, q) = NameOf(kind, r)

LEMMA NewestIsOne ==
  ASSUME Stored, NEW tenant
  PROVE  LET L == LatestSpans(tenant, AllTime)
         IN  /\ L \subseteq {r \in rows : r.tenant = tenant} /\ IsFiniteSet(L)
             /\ \A r, q \in L : r.trace = q.trace /\ r.span = q.span => r = q
             /\ \A r \in rows : r.tenant = tenant =>
                  \E q \in L : SameCall(q, r)
<1> DEFINE L == LatestSpans(tenant, AllTime)
           mine == {r \in rows : r.tenant = tenant}
<1>1. Scoped(tenant, AllTime) = mine
  BY NowType DEF Stored, TimesHavePassed, Scoped, AllTime
<1>2. L = {r \in mine : \A q \in mine : q.trace = r.trace /\ q.span = r.span
                                            => q.version <= r.version}
  BY <1>1 DEF LatestSpans, Newest
<1> HIDE DEF L
<1>3. \A r \in rows : r.version \in {Old, Current}
  BY VersionTells DEF Stored, RowsAreVersions, Told
<1>4. \A v, w \in {Old, Current} : v <= w /\ w <= v => v = w
  BY DEF Old, Current
<1>5. ASSUME NEW r \in L, NEW q \in L, r.trace = q.trace, r.span = q.span PROVE r = q
  <2>1. r \in mine /\ q \in mine /\ r.version <= q.version /\ q.version <= r.version
    BY <1>2, <1>5
  <2>2. SameVersion(r, q)
    BY <1>3, <1>4, <1>5, <2>1 DEF SameVersion
  <2> QED BY <2>1, <2>2 DEF Stored, OneOfEach
<1>6. ASSUME NEW r \in mine
      PROVE  \E q \in L : q.trace = r.trace /\ q.span = r.span
  <2>1. CASE \E q \in mine : q.trace = r.trace /\ q.span = r.span /\ q.version = Current
    <3>1. PICK q \in mine : q.trace = r.trace /\ q.span = r.span /\ q.version = Current
      BY <2>1
    <3>2. \A u \in mine : u.version <= q.version
      BY <1>3, <3>1 DEF Old, Current
    <3> QED BY <1>2, <3>1, <3>2
  <2>2. CASE ~ \E q \in mine : q.trace = r.trace /\ q.span = r.span /\ q.version = Current
    <3>1. \A q \in mine : q.trace = r.trace /\ q.span = r.span => q.version = Old
      BY <1>3, <2>2
    <3>2. r \in L
      BY <1>2, <3>1 DEF Old
    <3> QED BY <3>2
  <2> QED BY <2>1, <2>2
<1>7. ASSUME NEW r \in mine, NEW q \in mine, q.trace = r.trace, q.span = r.span
      PROVE  /\ \A kind \in DOMAIN CapabilityKinds : NameOf(kind, q) = NameOf(kind, r)
             /\ q.method = r.method
  <2>1. PICK s \in Spans : Told(r, s)
    BY VersionTells DEF Stored, RowsAreVersions
  <2>2. PICK u \in Spans : Told(q, u)
    BY VersionTells DEF Stored, RowsAreVersions
  <2>3. u = s
    <3>1. TenantOf(u) = TenantOf(s) /\ u.trace = s.trace /\ u.span = s.span
      BY <1>7, <2>1, <2>2 DEF Told, TenantOf
    <3> QED BY <3>1, SpansAssumption
  <2>4. /\ r.method = q.method /\ r.tool = q.tool /\ r.prompt = q.prompt
        /\ r.resource = q.resource
    BY <2>1, <2>2, <2>3 DEF Told
  <2>5. DOMAIN CapabilityKinds = {"tool", "prompt", "resource", "protocol"}
    BY DEF CapabilityKinds
  <2> QED BY <2>4, <2>5, NameIs
<1>8. IsFiniteSet(L) /\ L \subseteq mine
  BY <1>2, FS_Subset DEF Stored
<1>9. ASSUME NEW r \in mine
      PROVE  \E q \in L : SameCall(q, r)
  <2>1. PICK q \in L : q.trace = r.trace /\ q.span = r.span
    BY <1>6
  <2> QED BY <1>7, <1>8, <2>1 DEF SameCall
<1> QED BY <1>5, <1>8, <1>9 DEF L

-----------------------------------------------------------------------------
(***************************************************************************)
(* The tables, when nothing is filtered: which calls, which rows, in which *)
(* order.                                                                  *)
(***************************************************************************)

Nothing == Unfiltered("capabilities")

\* Without a filter nothing is left out.
LEMMA NothingKeeps ==
  /\ DOMAIN Nothing.values = {}
  /\ \A stage, row, spans : Keeps(Nothing, stage, row, spans)
<1>1. DOMAIN Nothing.values = {} /\ Nothing.conditions = {}
  BY NoConditions DEF Nothing, Unfiltered, Parse
<1> QED BY <1>1 DEF Keeps

CallsOf(tenant, kind) ==
  {r \in LatestSpans(tenant, AllTime) : CapabilityWhere(kind, Nothing, r)}

Under(tenant, kind, n) == {r \in CallsOf(tenant, kind) : NameOf(kind, r) = n}

NamesIn(tenant, kind) == {NameOf(kind, r) : r \in CallsOf(tenant, kind)}

TableOf(tenant, kind) ==
  {CapabilityRow(n, Under(tenant, kind, n)) : n \in NamesIn(tenant, kind)}

\* A call is in the table of its kind, under its name.
LEMMA WhereIs ==
  ASSUME NEW kind \in DOMAIN CapabilityKinds, NEW r
  PROVE  CapabilityWhere(kind, Nothing, r) <=>
           r.method # "" /\ KindOf(r) = kind /\ NameOf(kind, r) # ""
<1>1. kind \in {"tool", "prompt", "resource", "protocol"}
  BY DEF CapabilityKinds
<1>2. /\ CapabilityKinds["tool"].method = "tools/call"
      /\ CapabilityKinds["prompt"].method = "prompts/get"
      /\ CapabilityKinds["resource"].method = "resources/read"
      /\ CapabilityKinds["protocol"].method = ""
      /\ DOMAIN CapabilityKinds = {"tool", "prompt", "resource", "protocol"}
  BY DEF CapabilityKinds
<1>3. {CapabilityKinds[o].method : o \in DOMAIN CapabilityKinds} \ {""}
        = {"tools/call", "prompts/get", "resources/read"}
  <2>2. {CapabilityKinds[o].method : o \in DOMAIN CapabilityKinds}
          = {"tools/call", "prompts/get", "resources/read", ""}
    BY <1>2
  <2> QED BY <2>2
<1>4. CapabilityWhere(kind, Nothing, r) <=>
        /\ NameOf(kind, r) # ""
        /\ IF CapabilityKinds[kind].method # "" THEN r.method = CapabilityKinds[kind].method
           ELSE r.method \notin {"tools/call", "prompts/get", "resources/read"}
  BY <1>3, NothingKeeps DEF CapabilityWhere, NameOf
<1>5. CASE kind = "tool"
  BY <1>2, <1>4, <1>5 DEF KindOf
<1>6. CASE kind = "prompt"
  BY <1>2, <1>4, <1>6 DEF KindOf
<1>7. CASE kind = "resource"
  BY <1>2, <1>4, <1>7 DEF KindOf
<1>8. CASE kind = "protocol"
  BY <1>2, <1>4, <1>8, NameIs DEF KindOf
<1> QED BY <1>1, <1>5, <1>6, <1>7, <1>8

\* The calls of a kind: stored rows that are calls, finitely many.
LEMMA CallsAre ==
  ASSUME Stored, NEW tenant, NEW kind \in DOMAIN CapabilityKinds
  PROVE  /\ CallsOf(tenant, kind) \subseteq rows /\ IsFiniteSet(CallsOf(tenant, kind))
         /\ NamesIn(tenant, kind) \subseteq Items /\ IsFiniteSet(NamesIn(tenant, kind))
<1>1. LatestSpans(tenant, AllTime) \subseteq rows /\ IsFiniteSet(LatestSpans(tenant, AllTime))
  BY NewestIsOne
<1>2. CallsOf(tenant, kind) \subseteq rows /\ IsFiniteSet(CallsOf(tenant, kind))
  BY <1>1, FS_Subset DEF CallsOf
<1>3. NamesIn(tenant, kind) \subseteq Items
  BY <1>2, RowsAreCalls, WhereIs DEF NamesIn, CallsOf
<1>4. IsFiniteSet(NamesIn(tenant, kind))
  <2> DEFINE f == [r \in CallsOf(tenant, kind) |-> NameOf(kind, r)]
  <2>1. f \in Surjection(CallsOf(tenant, kind), NamesIn(tenant, kind))
    BY DEF Surjection, NamesIn
  <2> HIDE DEF f
  <2> QED BY <1>2, <2>1, FS_Surjection
<1> QED BY <1>2, <1>3, <1>4

\* A row of a table tells whose row it is, and how many calls that is.
LEMMA TableRowIs ==
  ASSUME Stored, NEW tenant, NEW kind \in DOMAIN CapabilityKinds, NEW c \in TableOf(tenant, kind)
  PROVE  /\ c.name \in NamesIn(tenant, kind)
         /\ c = CapabilityRow(c.name, Under(tenant, kind, c.name))
         /\ c.calls = Cardinality(Under(tenant, kind, c.name)) /\ c.calls \in Nat
         /\ Under(tenant, kind, c.name) \subseteq rows
         /\ IsFiniteSet(Under(tenant, kind, c.name))
<1>1. PICK n \in NamesIn(tenant, kind) : c = CapabilityRow(n, Under(tenant, kind, n))
  BY DEF TableOf
<1>2. c.name = n /\ c.calls = Cardinality(Under(tenant, kind, n))
  BY <1>1 DEF CapabilityRow
<1>3. Under(tenant, kind, n) \subseteq rows /\ IsFiniteSet(Under(tenant, kind, n))
  BY CallsAre, FS_Subset DEF Under
<1> QED BY <1>1, <1>2, <1>3, FS_CardinalityType

CallOrder(T) == {p \in T \X T : SortsBefore(Nothing, p[1], p[2])}

\* The order of a table, when no other is asked for: calls, then names.
LEMMA SortIs ==
  ASSUME NEW a, NEW b, a.calls \in Nat, b.calls \in Nat
  PROVE  SortsBefore(Nothing, a, b) <=>
           a.calls > b.calls \/ (a.calls = b.calls /\ Order[a.name] < Order[b.name])
BY NothingKeeps DEF SortsBefore

\* It orders the rows of a table: a name has one row.
LEMMA TableInOrder ==
  ASSUME Stored, NEW tenant, NEW kind \in DOMAIN CapabilityKinds
  PROVE  InOrder(TableOf(tenant, kind), CallOrder(TableOf(tenant, kind)))
<1> DEFINE T == TableOf(tenant, kind)
<1>1. \A c \in T : c.calls \in Nat /\ Order[c.name] \in Int
  BY TableRowIs, CallsAre, OrderAssumption
<1>2. \A a, b \in T : Order[a.name] = Order[b.name] => a = b
  <2> TAKE a, b \in T
  <2>1. a.name \in Items /\ b.name \in Items
    BY TableRowIs, CallsAre
  <2>2. a.name = b.name => a = b
    BY TableRowIs
  <2> QED BY <2>1, <2>2, OrderAssumption
<1>3. IsFiniteSet(T)
  <2> DEFINE f == [n \in NamesIn(tenant, kind) |-> CapabilityRow(n, Under(tenant, kind, n))]
  <2>1. f \in Surjection(NamesIn(tenant, kind), T)
    BY DEF Surjection, TableOf
  <2> HIDE DEF f
  <2> QED BY <2>1, CallsAre, FS_Surjection
<1>4. \A a, b \in T : <<a, b>> \in CallOrder(T) <=>
        a.calls > b.calls \/ (a.calls = b.calls /\ Order[a.name] < Order[b.name])
  BY <1>1, SortIs DEF CallOrder
<1> HIDE DEF T
<1>5. \A a \in T : <<a, a>> \notin CallOrder(T)
  BY <1>1, <1>4
<1>6. \A a, b \in T : <<a, b>> \in CallOrder(T) \/ <<b, a>> \in CallOrder(T) \/ a = b
  <2> TAKE a, b \in T
  <2>1. /\ a.calls \in Nat /\ b.calls \in Nat
        /\ Order[a.name] \in Int /\ Order[b.name] \in Int
    BY <1>1
  <2>2. \/ a.calls > b.calls \/ b.calls > a.calls
        \/ a.calls = b.calls /\ Order[a.name] < Order[b.name]
        \/ a.calls = b.calls /\ Order[b.name] < Order[a.name]
        \/ Order[a.name] = Order[b.name]
    BY <2>1
  <2> QED BY <1>2, <1>4, <2>2
<1>7. \A a, b, c \in T :
        <<a, b>> \in CallOrder(T) /\ <<b, c>> \in CallOrder(T) => <<a, c>> \in CallOrder(T)
  BY <1>1, <1>4
<1>8. InOrder(T, CallOrder(T))
  BY <1>3, <1>5, <1>6, <1>7 DEF InOrder
<1> QED BY <1>8 DEF T

\* The table of the page, when no filter is set.
LEMMA TableIs ==
  ASSUME NEW tenant, NEW kind
  PROVE  CapabilityTable(tenant, AllTime, kind, Nothing) = TableOf(tenant, kind)
<1> DEFINE S == {r \in LatestSpans(tenant, AllTime) : CapabilityWhere(kind, Nothing, r)}
           name == CapabilityKinds[kind].name
           all == {CapabilityRow(n, {r \in S : r[name] = n}) : n \in {r[name] : r \in S}}
<1>1. CapabilityTable(tenant, AllTime, kind, Nothing)
        = {c \in all : Keeps(Nothing, "having", c, {})}
  BY DEF CapabilityTable
<1>2. {c \in all : Keeps(Nothing, "having", c, {})} = all
  BY NothingKeeps
<1>3. all = TableOf(tenant, kind)
  BY DEF TableOf, NamesIn, Under, CallsOf, NameOf
<1> QED BY <1>1, <1>2, <1>3

\* What the page shows of a table: rows of it, all of them when nothing is cut off, and
\* otherwise those with the most calls.
TableShown(t, T) ==
  /\ ToSet(t.items) \subseteq T
  /\ ~ t.truncated => ToSet(t.items) = T
  /\ t.truncated <=> T \ ToSet(t.items) # {}
  /\ \A c \in ToSet(t.items), left \in T \ ToSet(t.items) : c.calls >= left.calls

LEMMA TablesTell ==
  ASSUME Stored, NEW tenant, NEW kind \in DOMAIN CapabilityKinds,
         NEW t, t = Capabilities(tenant, AllTime, kind, Nothing)
  PROVE  TableShown(t, TableOf(tenant, kind))
<1> DEFINE T == TableOf(tenant, kind)
           R == CallOrder(T)
           cap == CapabilityCap
           at(i) == CHOOSE r \in T : Cardinality({q \in T : SortsBefore(Nothing, q, r)}) = i - 1
           n == Cardinality(T)
           o == [i \in 1 .. n |-> at(i)]
<1>1. t.items = First(cap, o) /\ (t.truncated <=> Len(o) > cap)
  <2>1. CapabilityTable(tenant, AllTime, kind, Nothing) = T
    BY TableIs
  <2> HIDE DEF T
  <2>2. Ordered(T, LAMBDA a, b : SortsBefore(Nothing, a, b)) = o
    BY DEF Ordered
  <2> HIDE DEF o
  <2> QED BY <2>1, <2>2 DEF Capabilities
<1>2. \A c \in T : c.calls \in Nat
  BY TableRowIs
<1>3. InOrder(T, R)
  BY TableInOrder
<1> HIDE DEF T
<1>4. \A r \in T : {q \in T : SortsBefore(Nothing, q, r)} = Above(T, R, r)
  BY DEF Above, CallOrder
<1>5. \A i \in 1 .. n :
        (\E r \in T : Rank(T, R, r) = i - 1) => at(i) \in T /\ Rank(T, R, at(i)) = i - 1
  BY <1>4 DEF Rank
<1>6. o = [i \in 1 .. n |-> o[i]] /\ \A i \in 1 .. n : o[i] = at(i)
  <2> HIDE DEF at
  <2> QED OBVIOUS
<1> HIDE DEF o, at
<1>7. OrderedBy(T, R, o)
  BY <1>3, <1>5, <1>6, PlacedByRank
<1>8. PageIs(T, R, cap, t.items)
  BY <1>1, <1>3, <1>7, CapAssumption, PageTakesFirst
<1>9. Len(o) = n /\ n \in Nat /\ cap \in Nat \ {0}
  BY <1>3, <1>7, CapAssumption, FS_CardinalityType DEF OrderedBy, InOrder
<1>10. t.items \in Seq(T) /\ ToSet(t.items) \subseteq T
  BY <1>8 DEF PageIs, ToSet
<1>11. \A c, left \in T : <<c, left>> \in R => c.calls >= left.calls
  BY <1>2, SortIs DEF CallOrder
<1>12. CASE n <= cap
  <2>1. T \subseteq ToSet(t.items)
    BY <1>8, <1>12 DEF PageIs, ToSet
  <2>2. ~ t.truncated
    BY <1>1, <1>9, <1>12
  <2> QED BY <1>10, <2>1, <2>2 DEF TableShown, T
<1>13. CASE n > cap
  <2>1. /\ Len(t.items) = cap
        /\ \A i \in DOMAIN t.items : i = cap \/ <<t.items[i], t.items[cap]>> \in R
        /\ \A r \in T : (\E i \in DOMAIN t.items : t.items[i] = r) \/ <<t.items[cap], r>> \in R
    BY <1>8, <1>13 DEF PageIs
  <2>2. t.truncated
    BY <1>1, <1>9, <1>13
  <2>3. t.items[cap] \in T
    BY <1>9, <1>10, <2>1
  <2>4. ASSUME NEW c \in ToSet(t.items), NEW left \in T \ ToSet(t.items)
        PROVE  c.calls >= left.calls
    <3>1. PICK i \in DOMAIN t.items : t.items[i] = c
      BY DEF ToSet
    <3>2. <<t.items[cap], left>> \in R
      BY <2>1 DEF ToSet
    <3>3. t.items[cap].calls >= left.calls
      BY <1>11, <2>3, <3>2
    <3>4. c \in T /\ c.calls >= t.items[cap].calls
      <4>1. c \in T
        BY <1>10
      <4>2. CASE i = cap
        BY <1>2, <3>1, <4>1, <4>2
      <4>3. CASE <<t.items[i], t.items[cap]>> \in R
        BY <1>11, <2>3, <3>1, <4>1, <4>3
      <4> QED BY <2>1, <4>1, <4>2, <4>3
    <3> QED BY <1>2, <2>3, <3>3, <3>4
  <2>5. T \ ToSet(t.items) # {}
    <3> SUFFICES ASSUME T \subseteq ToSet(t.items) PROVE FALSE
      OBVIOUS
    <3>1. DOMAIN t.items = 1 .. cap
      BY <1>10, <2>1
    <3> DEFINE f == [i \in 1 .. cap |-> t.items[i]]
    <3>2. f \in Surjection(1 .. cap, T)
      BY <1>10, <3>1 DEF Surjection, ToSet
    <3>3. IsFiniteSet(1 .. cap) /\ Cardinality(1 .. cap) = cap
      BY <1>9, FS_Interval
    <3> HIDE DEF f
    <3>4. n <= cap
      BY <3>2, <3>3, FS_Surjection
    <3> QED BY <1>9, <1>13, <3>4
  <2> QED BY <1>10, <2>2, <2>4, <2>5 DEF TableShown, T
<1> QED BY <1>9, <1>12, <1>13

-----------------------------------------------------------------------------
(***************************************************************************)
(* What the tables add up to.                                              *)
(***************************************************************************)

\* The categories are finitely many.
LEMMA CategoriesFinite == IsFiniteSet(Categories)
<1> DEFINE all == <<"ok", "tool_error", "server_exception", "unknown_tool", "invalid_arguments",
                    "protocol_error", "pending_input", "cancelled", "unauthorized", "forbidden",
                    "unclassified">>
           f == [i \in 1 .. 11 |-> all[i]]
<1>1. f \in Surjection(1 .. 11, Categories)
  <2>1. /\ all[1] = "ok" /\ all[2] = "tool_error" /\ all[3] = "server_exception"
        /\ all[4] = "unknown_tool" /\ all[5] = "invalid_arguments" /\ all[6] = "protocol_error"
        /\ all[7] = "pending_input" /\ all[8] = "cancelled" /\ all[9] = "unauthorized"
        /\ all[10] = "forbidden" /\ all[11] = "unclassified"
    OBVIOUS
  <2> HIDE DEF all
  <2>2. \A i \in 1 .. 11 : f[i] \in Categories
    BY <2>1 DEF Categories
  <2>3. \A k \in Categories : \E i \in 1 .. 11 : f[i] = k
    BY <2>1 DEF Categories
  <2> QED BY <2>2, <2>3 DEF Surjection
<1> HIDE DEF f
<1>2. PICK n \in Int : n = 11
  OBVIOUS
<1>3. IsFiniteSet(1 .. n)
  BY FS_Interval
<1> QED BY <1>1, <1>2, <1>3, FS_Surjection

\* A breakdown counts the rows of any categories.
LEMMA BreakdownTells ==
  ASSUME NEW S, IsFiniteSet(S), NEW X \in SUBSET Categories
  PROVE  SumFunctionOnSet(Breakdown(S), X) = Cardinality({r \in S : r.category \in X})
<1> DEFINE P == [k \in X |-> {r \in S : r.category = k}]
<1>1. IsFiniteSet(X)
  BY CategoriesFinite, FS_Subset
<1>2. \A k \in X : IsFiniteSet(P[k])
  BY FS_Subset
<1>3. Partition(P, X)
  BY <1>1, <1>2 DEF Partition
<1>4. \A k \in X : Breakdown(S)[k] = Cardinality(P[k])
  BY DEF Breakdown
<1>5. PartsOf(P, X) = {r \in S : r.category \in X}
  BY DEF PartsOf
<1> HIDE DEF P
<1>6. SumFunctionOnSet(Breakdown(S), X) = Cardinality(PartsOf(P, X))
  BY <1>3, <1>4, SumOfParts
<1> QED BY <1>5, <1>6

\* Each row of a table adds up.
AddsUp(c) ==
  /\ c.calls = SumFunction(c.breakdown)
  /\ c.errors = Failures(c.breakdown)
  /\ c.latency <= c.calls

\* The categories of the calls partition them.
LEMMA RowAddsUp ==
  ASSUME Stored, NEW tenant, NEW kind \in DOMAIN CapabilityKinds, NEW c \in TableOf(tenant, kind)
  PROVE  AddsUp(c)
<1> DEFINE n == c.name
           U == Under(tenant, kind, n)
           eligible == {r \in U : r.eligible}
<1>1. /\ c = CapabilityRow(n, U) /\ c.calls = Cardinality(U) /\ c.calls \in Nat
      /\ U \subseteq rows /\ IsFiniteSet(U)
  BY TableRowIs
<1>2. \A r \in U : r.method # ""
  BY WhereIs DEF Under, CallsOf
<1> HIDE DEF U, n
<1>3. \A r \in U : r.category \in Categories /\ r.category # ""
  BY <1>1, <1>2, RowsAreCalls DEF IsCall, Categories
<1>4. {r \in U : r.category # ""} = U
  BY <1>3
<1>5. c.breakdown = Breakdown(U)
  BY <1>1, <1>4 DEF CapabilityRow
<1>6. c.calls = SumFunction(c.breakdown)
  <2>1. DOMAIN c.breakdown = Categories
    BY <1>5 DEF Breakdown
  <2>2. SumFunctionOnSet(Breakdown(U), Categories)
          = Cardinality({r \in U : r.category \in Categories})
    BY <1>1, BreakdownTells
  <2>3. {r \in U : r.category \in Categories} = U
    BY <1>3
  <2> QED BY <1>1, <1>5, <2>1, <2>2, <2>3 DEF SumFunction
<1>7. c.errors = Failures(c.breakdown)
  <2> DEFINE X == Categories \ NotAFailureSql
  <2>1. SumFunctionOnSet(Breakdown(U), X) = Cardinality({r \in U : r.category \in X})
    BY <1>1, BreakdownTells
  <2>2. {r \in U : r.category \in X} = {r \in U : r.error}
    <3>1. \A r \in U : r.error <=> r.category \in X
      BY <1>1, <1>3, ErrorIsCategory DEF IsError, NotAFailure, NotAFailureSql
    <3> HIDE DEF X
    <3> QED BY <3>1
  <2>3. c.errors = Cardinality({r \in U : r.error})
    BY <1>1 DEF CapabilityRow
  <2> QED BY <1>5, <2>1, <2>2, <2>3 DEF Failures
<1>8. c.latency <= c.calls
  <2>1. c.latency = Cardinality(eligible)
    BY <1>1 DEF CapabilityRow
  <2>2. eligible \subseteq U
    OBVIOUS
  <2> HIDE DEF eligible
  <2>3. Cardinality(eligible) <= Cardinality(U)
    BY <1>1, <2>2, FS_Subset
  <2> QED BY <1>1, <2>1, <2>3
<1> QED BY <1>6, <1>7, <1>8 DEF AddsUp

\* A table that is not cut off counts the calls of its kind.
LEMMA TableCounts ==
  ASSUME Stored, NEW tenant, NEW kind \in DOMAIN CapabilityKinds
  PROVE  SumFunction([c \in TableOf(tenant, kind) |-> c.calls])
           = Cardinality(CallsOf(tenant, kind))
<1> DEFINE T == TableOf(tenant, kind)
           P == [c \in T |-> Under(tenant, kind, c.name)]
           f == [c \in T |-> c.calls]
<1>1. IsFiniteSet(T)
  BY TableInOrder DEF InOrder
<1>2. \A c \in T : IsFiniteSet(P[c]) /\ f[c] = Cardinality(P[c])
  BY TableRowIs
<1>3. \A c, d \in T : c # d => P[c] \cap P[d] = {}
  <2> TAKE c, d \in T
  <2>1. c # d => c.name # d.name
    BY TableRowIs
  <2> QED BY <2>1 DEF Under
<1>4. PartsOf(P, T) = CallsOf(tenant, kind)
  <2>1. ASSUME NEW r \in CallsOf(tenant, kind) PROVE \E c \in T : r \in P[c]
    <3> DEFINE n == NameOf(kind, r)
               c == CapabilityRow(n, Under(tenant, kind, n))
    <3>1. n \in NamesIn(tenant, kind)
      BY DEF NamesIn
    <3>2. c \in T
      BY <3>1 DEF TableOf
    <3>3. c.name = n
      BY DEF CapabilityRow
    <3>4. r \in Under(tenant, kind, n)
      BY DEF Under
    <3> HIDE DEF c, n, T
    <3> QED BY <3>2, <3>3, <3>4
  <2>2. \A c \in T : P[c] \subseteq CallsOf(tenant, kind)
    BY DEF Under
  <2> HIDE DEF P, T
  <2> QED BY <2>1, <2>2 DEF PartsOf
<1>5. Partition(P, T)
  BY <1>1, <1>2, <1>3 DEF Partition
<1>6. DOMAIN f = T
  OBVIOUS
<1> HIDE DEF P, T, f
<1>7. SumFunctionOnSet(f, T) = Cardinality(PartsOf(P, T))
  BY <1>2, <1>5, SumOfParts
<1>8. SumFunction(f) = Cardinality(CallsOf(tenant, kind))
  BY <1>4, <1>6, <1>7 DEF SumFunction
<1> QED BY <1>8 DEF f, T

\* The spans of a tenant that a table names.
Counted(tenant) ==
  {r \in LatestSpans(tenant, AllTime) : r.method # "" /\ NameOf(KindOf(r), r) # ""}

\* A call has one kind, of finitely many.
LEMMA KindsAre ==
  /\ IsFiniteSet(DOMAIN CapabilityKinds)
  /\ \A r : KindOf(r) \in DOMAIN CapabilityKinds
<1>1. DOMAIN CapabilityKinds = {"tool", "prompt", "resource", "protocol"}
  BY DEF CapabilityKinds
<1>2. IsFiniteSet({"tool"} \cup {"prompt"} \cup {"resource"} \cup {"protocol"})
  BY FS_Singleton, FS_Union
<1>3. {"tool"} \cup {"prompt"} \cup {"resource"} \cup {"protocol"}
        = {"tool", "prompt", "resource", "protocol"}
  OBVIOUS
<1> QED BY <1>1, <1>2, <1>3 DEF KindOf

\* The tables together count each of those spans once.
LEMMA KindsCount ==
  ASSUME Stored, NEW tenant,
         NEW f, DOMAIN f = DOMAIN CapabilityKinds,
         \A kind \in DOMAIN CapabilityKinds : f[kind] = Cardinality(CallsOf(tenant, kind))
  PROVE  SumFunction(f) = Cardinality(Counted(tenant))
<1> DEFINE X == DOMAIN CapabilityKinds
           P == [kind \in X |-> CallsOf(tenant, kind)]
<1>1. Partition(P, X)
  <2>1. \A kind \in X : \A r \in P[kind] : KindOf(r) = kind
    BY WhereIs DEF CallsOf
  <2>2. \A kind \in X : IsFiniteSet(P[kind])
    BY CallsAre
  <2> HIDE DEF P
  <2> QED BY <2>1, <2>2, KindsAre DEF Partition
<1>2. PartsOf(P, X) = Counted(tenant)
  <2>1. \A kind \in X : \A r : r \in P[kind] <=> r \in Counted(tenant) /\ KindOf(r) = kind
    BY WhereIs DEF CallsOf, Counted
  <2> HIDE DEF P
  <2> QED BY <2>1, KindsAre DEF PartsOf
<1>3. \A kind \in X : f[kind] = Cardinality(P[kind])
  OBVIOUS
<1> HIDE DEF P, X
<1>4. SumFunctionOnSet(f, X) = Cardinality(PartsOf(P, X))
  BY <1>1, <1>3, SumOfParts
<1> QED BY <1>2, <1>4 DEF SumFunction, X

\* Each of them is one span, however often it was stored.
Named(tenant) ==
  {<<r.trace, r.span>> : r \in {q \in rows :
     /\ q.tenant = tenant /\ q.method # ""
     /\ \A kind \in DOMAIN CapabilityKinds :
          q.method = CapabilityKinds[kind].method => q[CapabilityKinds[kind].name] # ""}}

\* The newest version stands for every version of a span.
LEMMA NamedOnce ==
  ASSUME Stored, NEW tenant
  PROVE  Cardinality(Named(tenant)) = Cardinality(Counted(tenant))
<1> DEFINE N == Counted(tenant)
           L == LatestSpans(tenant, AllTime)
           is(q) == \A kind \in DOMAIN CapabilityKinds :
                      q.method = CapabilityKinds[kind].method => q[CapabilityKinds[kind].name] # ""
           f == [r \in N |-> <<r.trace, r.span>>]
<1>1. ASSUME NEW q, q.method # "" PROVE is(q) <=> NameOf(KindOf(q), q) # ""
  <2>1. /\ CapabilityKinds["tool"].method = "tools/call"
        /\ CapabilityKinds["prompt"].method = "prompts/get"
        /\ CapabilityKinds["resource"].method = "resources/read"
        /\ CapabilityKinds["protocol"].method = ""
        /\ DOMAIN CapabilityKinds = {"tool", "prompt", "resource", "protocol"}
    BY DEF CapabilityKinds
  <2>2. is(q) <=> \A kind \in {"tool", "prompt", "resource", "protocol"} :
                    q.method = CapabilityKinds[kind].method => NameOf(kind, q) # ""
    BY <2>1 DEF NameOf
  <2> HIDE DEF is
  <2> QED BY <1>1, <2>1, <2>2, NameIs DEF KindOf
<1> HIDE DEF is
<1>2. /\ L \subseteq {r \in rows : r.tenant = tenant} /\ IsFiniteSet(L)
      /\ \A r, q \in L : r.trace = q.trace /\ r.span = q.span => r = q
  BY NewestIsOne
<1>2a. \A r \in rows : r.tenant = tenant =>
         \E q \in L : SameCall(q, r)
  BY NewestIsOne
<1>3. ASSUME NEW r \in rows, r.tenant = tenant, r.method # "", is(r)
      PROVE  \E q \in N : f[q] = <<r.trace, r.span>>
  <2>1. PICK q \in L : SameCall(q, r)
    BY <1>2a, <1>3
  <2>2. NameOf(KindOf(r), r) # ""
    BY <1>1, <1>3
  <2>3. KindOf(q) = KindOf(r)
    BY <2>1 DEF KindOf, SameCall
  <2>4. q \in N
    BY <1>3, <2>1, <2>2, <2>3, KindsAre DEF Counted, SameCall
  <2> QED BY <2>1, <2>4 DEF SameCall
<1>4. ASSUME NEW r \in N PROVE r \in rows /\ r.tenant = tenant /\ r.method # "" /\ is(r) /\ r \in L
  BY <1>1, <1>2 DEF Counted
<1>5. Named(tenant) = {<<r.trace, r.span>> : r \in {q \in rows : q.tenant = tenant
                                                      /\ q.method # "" /\ is(q)}}
  BY DEF Named, is
<1>6. f \in Bijection(N, Named(tenant))
  <2>1. \A r \in N : f[r] \in Named(tenant)
    BY <1>4, <1>5
  <2>2. \A t \in Named(tenant) : \E r \in N : f[r] = t
    <3> TAKE t \in Named(tenant)
    <3>1. PICK r \in rows : r.tenant = tenant /\ r.method # "" /\ is(r) /\ t = <<r.trace, r.span>>
      BY <1>5
    <3> QED BY <1>3, <3>1
  <2>3. \A r, q \in N : f[r] = f[q] => r = q
    BY <1>2, <1>4
  <2> HIDE DEF N
  <2>4. f \in [N -> Named(tenant)]
    BY <2>1
  <2> HIDE DEF f
  <2> QED BY <2>2, <2>3, <2>4 DEF Bijection, Injection, Surjection, IsInjective
<1>7. IsFiniteSet(N)
  BY <1>2, FS_Subset DEF Counted
<1> HIDE DEF f, N
<1>8. Cardinality(N) = Cardinality(Named(tenant))
  BY <1>6, <1>7, FS_Bijection DEF ExistsBijection
<1> QED BY <1>8 DEF N

\* The older tool page agrees with the table of tools.
LEMMA ToolsAgree ==
  ASSUME Stored, NEW tenant, NEW c \in TableOf(tenant, "tool")
  PROVE  ToolRow(tenant, AllTime, "", c.name)
           = [calls |-> c.calls, errors |-> c.errors, breakdown |-> c.breakdown]
<1> DEFINE U == Under(tenant, "tool", c.name)
           L == LatestSpans(tenant, AllTime)
           n == c.name
<1>1. "tool" \in DOMAIN CapabilityKinds
  BY DEF CapabilityKinds
<1>2. /\ n \in NamesIn(tenant, "tool") /\ c = CapabilityRow(n, U)
      /\ c.calls = Cardinality(U)
  BY <1>1, TableRowIs
<1>3. n # ""
  BY <1>1, <1>2, WhereIs DEF NamesIn, CallsOf
<1>4. \A r : r \in CallsOf(tenant, "tool") <=> r \in L /\ r.method = "tools/call" /\ r.tool # ""
  <2> TAKE r
  <2>1. CapabilityWhere("tool", Nothing, r) <=>
          r.method # "" /\ KindOf(r) = "tool" /\ NameOf("tool", r) # ""
    BY <1>1, WhereIs
  <2>2. KindOf(r) = "tool" <=> r.method = "tools/call"
    BY DEF KindOf
  <2> QED BY <2>1, <2>2, NameIs DEF CallsOf
<1>5. U = {r \in L : r.method = "tools/call" /\ r.tool = n /\ "" \in {"", r.server}}
  BY <1>3, <1>4, NameIs DEF Under
<1>6. L \subseteq rows
  BY NewestIsOne
<1> HIDE DEF L, U, n
<1>7. {r \in U : r.category # ""} = {r \in L : r.tool = n /\ r.category # ""}
  BY <1>3, <1>5, <1>6, RowsAreCalls DEF IsCall
<1>8. /\ c.errors = Cardinality({r \in U : r.error})
      /\ c.breakdown = Breakdown({r \in U : r.category # ""})
  BY <1>2 DEF CapabilityRow
<1> QED BY <1>2, <1>5, <1>7, <1>8 DEF ToolRow, L, n

\* What a table leaves out.
CutIs(t, T) ==
  /\ t.truncated <=> T \ ToSet(t.items) # {}
  /\ \A c \in ToSet(t.items), e \in T \ ToSet(t.items) : c.calls >= e.calls

\* Together: what the page shows adds up.
LEMMA TablesAddUp == ASSUME Stored PROVE CapabilitiesAddUp
<1> SUFFICES ASSUME NEW tenant \in Tenants
    PROVE LET table(kind) == Capabilities(tenant, AllTime, kind, Unfiltered("capabilities"))
              rowsOf(kind) == ToSet(table(kind).items)
              left(kind) ==
                CapabilityTable(tenant, AllTime, kind, Unfiltered("capabilities"))
                  \ rowsOf(kind)
          IN  /\ \A kind \in DOMAIN CapabilityKinds : \A c \in rowsOf(kind) :
                   /\ c.calls = SumFunction(c.breakdown)
                   /\ c.errors = Failures(c.breakdown)
                   /\ c.latency <= c.calls
              /\ (\A kind \in DOMAIN CapabilityKinds : ~ table(kind).truncated) =>
                   Cardinality(Named(tenant)) =
                     SumFunction([kind \in DOMAIN CapabilityKinds |->
                                    SumFunction([c \in rowsOf(kind) |-> c.calls])])
              /\ \A c \in rowsOf("tool") :
                   LET old == ToolRow(tenant, AllTime, "", c.name)
                   IN  old = [calls |-> c.calls, errors |-> c.errors, breakdown |-> c.breakdown]
              /\ \A kind \in DOMAIN CapabilityKinds :
                   /\ table(kind).truncated <=> left(kind) # {}
                   /\ \A c \in rowsOf(kind), e \in left(kind) : c.calls >= e.calls
  BY DEF CapabilitiesAddUp, Named
<1> DEFINE table(kind) == Capabilities(tenant, AllTime, kind, Nothing)
           rowsOf(kind) == ToSet(table(kind).items)
           X == DOMAIN CapabilityKinds
           sums == [kind \in X |-> SumFunction([c \in rowsOf(kind) |-> c.calls])]
<1>1. \A kind \in X : rowsOf(kind) \subseteq TableOf(tenant, kind)
  BY TablesTell DEF TableShown
<1>2. \A kind \in X : ~ table(kind).truncated => rowsOf(kind) = TableOf(tenant, kind)
  BY TablesTell DEF TableShown
<1> HIDE DEF table
<1>3. \A kind \in X : \A c \in rowsOf(kind) : AddsUp(c)
  BY <1>1, RowAddsUp
<1>4. (\A kind \in X : ~ table(kind).truncated) => Cardinality(Named(tenant)) = SumFunction(sums)
  <2> SUFFICES ASSUME \A kind \in X : ~ table(kind).truncated
               PROVE  Cardinality(Named(tenant)) = SumFunction(sums)
    OBVIOUS
  <2>1. \A kind \in X : sums[kind] = Cardinality(CallsOf(tenant, kind))
    BY <1>2, TableCounts
  <2>2. DOMAIN sums = X
    OBVIOUS
  <2> HIDE DEF sums, rowsOf
  <2>3. SumFunction(sums) = Cardinality(Counted(tenant))
    BY <2>1, <2>2, KindsCount
  <2> QED BY <2>3, NamedOnce
<1>5. \A c \in rowsOf("tool") :
        ToolRow(tenant, AllTime, "", c.name)
          = [calls |-> c.calls, errors |-> c.errors, breakdown |-> c.breakdown]
  <2>1. "tool" \in X
    BY DEF CapabilityKinds
  <2> QED BY <1>1, <2>1, ToolsAgree
<1>6. \A kind \in X : CutIs(table(kind), CapabilityTable(tenant, AllTime, kind, Nothing))
  BY TablesTell, TableIs DEF TableShown, CutIs, table
<1> QED BY <1>3, <1>4, <1>5, <1>6 DEF AddsUp, CutIs, table, Nothing

(* FailuresCounted: under every replay and whichever row a tie picks, the error   *)
(* list, the filters, the rows of the list and the capability tables count the    *)
(* same failures, and each call once; a table that is cut says so, and leaves out *)
(* no name called more often than one it shows.                                   *)
THEOREM FailuresCounted == Spec => []FailuresAddUp
<1>1. Stored => FailuresAddUp
  BY OneFailure, TablesAddUp DEF FailuresAddUp
<1> QED BY PagingInvariant, <1>1, PTL

-----------------------------------------------------------------------------
(***************************************************************************)
(* Spans in the order of time.                                             *)
(***************************************************************************)

\* One version of each of finitely many spans of a trace.
Timed(S) ==
  /\ IsFiniteSet(S)
  /\ \A r \in S : r.time \in Nat /\ r.duration \in Nat /\ r.span \in SpanIds
  /\ \A r, q \in S : r.span = q.span => r = q

EarlierIn(F) == {p \in F \X F : Earlier(p[1], p[2])}

LEMMA TimedPart == ASSUME NEW S, Timed(S), NEW F \in SUBSET S PROVE Timed(F)
BY FS_Subset DEF Timed

LEMMA TimedInOrder == ASSUME NEW F, Timed(F) PROVE InOrder(F, EarlierIn(F))
<1>1. \A a \in F : a.time \in Int /\ Order[a.span] \in Int
  BY OrderAssumption DEF Timed
<1>2. \A a, b \in F : Order[a.span] = Order[b.span] => a = b
  BY OrderAssumption DEF Timed
<1>3. \A a, b \in F : <<a, b>> \in EarlierIn(F) <=> Earlier(a, b)
  BY DEF EarlierIn
<1>4. \A a \in F : ~ Earlier(a, a)
  BY <1>1 DEF Earlier
<1>5. \A a, b \in F : Earlier(a, b) \/ Earlier(b, a) \/ a = b
  BY <1>1, <1>2 DEF Earlier
<1>6. \A a, b, c \in F : Earlier(a, b) /\ Earlier(b, c) => Earlier(a, c)
  BY <1>1 DEF Earlier
<1> QED BY <1>3, <1>4, <1>5, <1>6 DEF InOrder, Timed

LEMMA TimeIsOrdered ==
  ASSUME NEW F, Timed(F)
  PROVE  OrderedBy(F, EarlierIn(F), ByTime(F))
<1> DEFINE o == ByTime(F)
           n == Cardinality(F)
<1>1. o = [i \in 1 .. n |->
             CHOOSE r \in F : Cardinality({q \in F : Earlier(q, r)}) = i - 1]
  BY DEF ByTime, Ordered
<1>2. \A r \in F : {q \in F : Earlier(q, r)} = Above(F, EarlierIn(F), r)
  BY DEF Above, EarlierIn
<1> HIDE DEF o
<1>3. \A i \in 1 .. n :
        (\E r \in F : Rank(F, EarlierIn(F), r) = i - 1) =>
           o[i] \in F /\ Rank(F, EarlierIn(F), o[i]) = i - 1
  BY <1>1, <1>2 DEF Rank
<1>4. o = [i \in 1 .. n |-> o[i]]
  <2> DEFINE at(i) == CHOOSE r \in F : Cardinality({q \in F : Earlier(q, r)}) = i - 1
  <2>1. o = [i \in 1 .. n |-> at(i)]
    BY <1>1
  <2> HIDE DEF at
  <2> QED BY <2>1
<1>5. OrderedBy(F, EarlierIn(F), o)
  BY <1>3, <1>4, TimedInOrder, PlacedByRank
<1> QED BY <1>5 DEF o

\* A sequence that has each element of a set once, by the order of time.
Once(F, o) ==
  /\ o \in Seq(F) /\ Len(o) = Cardinality(F)
  /\ \A i, j \in DOMAIN o : o[i] = o[j] => i = j
  /\ \A r \in F : \E i \in DOMAIN o : o[i] = r

Rising(o) == \A i, j \in DOMAIN o : i < j => o[i].time <= o[j].time

LEMMA ByTimeIs ==
  ASSUME NEW F, Timed(F) PROVE Once(F, ByTime(F)) /\ Rising(ByTime(F))
<1> DEFINE o == ByTime(F)
           R == EarlierIn(F)
           n == Cardinality(F)
<1>1. InOrder(F, R) /\ OrderedBy(F, R, o)
  BY TimedInOrder, TimeIsOrdered
<1>2. n \in Nat
  BY FS_CardinalityType DEF Timed
<1>3. o \in Seq(F) /\ Len(o) = n /\ \A i \in 1 .. n : Rank(F, R, o[i]) = i - 1
  BY <1>1 DEF OrderedBy
<1>4. DOMAIN o = 1 .. n /\ \A i \in 1 .. n : o[i] \in F
  <2> HIDE DEF o, n
  <2> QED BY <1>2, <1>3
<1>5. ASSUME NEW a \in F, NEW b \in F, <<a, b>> \in R PROVE a.time <= b.time
  BY <1>5 DEF EarlierIn, Earlier, Timed
<1> HIDE DEF o, R, n
<1>6. ASSUME NEW i \in 1 .. n, NEW j \in 1 .. n, o[i] = o[j] PROVE i = j
  <2>1. i - 1 = j - 1
    BY <1>3, <1>6
  <2> QED BY <2>1
<1>7. ASSUME NEW r \in F PROVE \E i \in 1 .. n : o[i] = r
  <2>1. Rank(F, R, r) \in 0 .. n - 1
    BY <1>1, RankType DEF n
  <2>2. PICK m \in 0 .. n - 1 : m = Rank(F, R, r)
    BY <2>1
  <2>3. m + 1 \in 1 .. n /\ m + 1 - 1 = m
    BY <1>2
  <2>4. Rank(F, R, o[m + 1]) = m
    BY <1>3, <2>3
  <2>5. o[m + 1] = r
    BY <1>1, <1>4, <2>2, <2>3, <2>4, RankTells
  <2> QED BY <2>3, <2>5
<1>8. ASSUME NEW i \in 1 .. n, NEW j \in 1 .. n, i < j PROVE o[i].time <= o[j].time
  <2>1. Rank(F, R, o[i]) < Rank(F, R, o[j])
    BY <1>3, <1>8
  <2>2. <<o[i], o[j]>> \in R
    BY <1>1, <1>4, <2>1, RankTells
  <2> QED BY <1>4, <1>5, <2>2
<1> QED BY <1>3, <1>4, <1>6, <1>7, <1>8 DEF Once, Rising, o, n

-----------------------------------------------------------------------------
(***************************************************************************)
(* The loop that draws the waterfall.                                      *)
(***************************************************************************)

Nodes(S) == [row : S, depth : Nat]
Walks(S) == [stack : Seq(Nodes(S)), out : Seq(Nodes(S))]

\* What WalkFrom computes: the drawing of a walk is that of its next turn, and it ends
\* when nothing is left on the stack.
IsDrawing(S, f) ==
  f = [w \in Walks(S) |-> IF w.stack = <<>> THEN w.out ELSE f[Turn(S, w)]]
Drawing(S) == CHOOSE f : IsDrawing(S, f)
Started(root) == [stack |-> <<[row |-> root, depth |-> 0]>>, out |-> <<>>]

LEMMA WalkDraws == ASSUME NEW S, NEW root PROVE WalkFrom(S, root) = Drawing(S)[Started(root)]
BY DEF WalkFrom, Drawing, IsDrawing, Started, Walks, Nodes

\* The spans under one.
Children(S, span) == {r \in S : r.parent = span}
Hung(S, n) ==
  [i \in DOMAIN ByTime(Children(S, n.row.span)) |->
     [row |-> ByTime(Children(S, n.row.span))[i], depth |-> n.depth + 1]]

Drawn(out, span) == \E i \in DOMAIN out : out[i].row.span = span

\* What one turn does, and with what.
Skips(S, w) == [stack |-> Tail(w.stack), out |-> w.out]
Draws(S, w) ==
  [stack |-> Hung(S, Head(w.stack)) \o Tail(w.stack), out |-> Append(w.out, Head(w.stack))]

LEMMA TurnIs ==
  ASSUME NEW S, NEW w \in Walks(S)
  PROVE  Turn(S, w) = IF Drawn(w.out, Head(w.stack).row.span) THEN Skips(S, w) ELSE Draws(S, w)
<1>1. [w EXCEPT !.stack = Tail(@)] = Skips(S, w)
  <2> DEFINE A == Seq(Nodes(S))
  <2>1. w \in [stack : A, out : A]
    BY DEF Walks
  <2> HIDE DEF A
  <2> DEFINE a == w.stack
             b == w.out
             t == Tail(a)
  <2>2. w = [stack |-> a, out |-> b]
    BY <2>1
  <2>3. [w EXCEPT !.stack = Tail(@)] = [w EXCEPT !.stack = t]
    OBVIOUS
  <2> HIDE DEF a, b, t
  <2>4. [w EXCEPT !.stack = t] = [stack |-> t, out |-> b]
    BY <2>2
  <2> QED BY <2>3, <2>4 DEF Skips, a, b, t
<1> QED BY <1>1 DEF Turn, Drawn, Draws, Hung, Children

HungUnder(S, n, h) ==
  /\ h \in Seq(Nodes(S))
  /\ \A i \in DOMAIN h : h[i].depth = n.depth + 1 /\ h[i].row \in Children(S, n.row.span)
  /\ \A i, j \in DOMAIN h : i < j => h[i].row.time <= h[j].row.time
  /\ \A r \in Children(S, n.row.span) : \E i \in DOMAIN h : h[i].row = r

LEMMA HungIs ==
  ASSUME NEW S, Timed(S), NEW n \in Nodes(S) PROVE HungUnder(S, n, Hung(S, n))
<1> DEFINE F == Children(S, n.row.span)
           o == ByTime(F)
           h == Hung(S, n)
<1>1. F \subseteq S
  BY DEF Children
<1>2. Once(F, o) /\ Rising(o)
  BY <1>1, TimedPart, ByTimeIs
<1>3. n.depth \in Nat /\ n.depth + 1 \in Nat
  BY DEF Nodes
<1>4. h = [i \in DOMAIN o |-> [row |-> o[i], depth |-> n.depth + 1]]
  BY DEF Hung
<1> HIDE DEF F, o, h
<1>5. o \in Seq(F) /\ DOMAIN o = 1 .. Len(o) /\ Len(o) \in Nat /\ \A i \in DOMAIN o : o[i] \in F
  BY <1>2 DEF Once
<1>6. DOMAIN h = 1 .. Len(o)
  BY <1>4, <1>5
<1>7. \A i \in 1 .. Len(o) : h[i] = [row |-> o[i], depth |-> n.depth + 1]
  BY <1>4, <1>5
<1>8. ASSUME NEW i \in 1 .. Len(o)
      PROVE  /\ h[i].row = o[i] /\ h[i].depth = n.depth + 1
             /\ h[i] \in Nodes(S)
  <2> DEFINE d == n.depth + 1
  <2>1. h[i] = [row |-> o[i], depth |-> d] /\ o[i] \in S /\ d \in Nat
    BY <1>1, <1>3, <1>5, <1>7
  <2> HIDE DEF d
  <2>2. h[i].row = o[i] /\ h[i].depth = d
    BY <2>1
  <2>3. h[i] \in Nodes(S)
    BY <2>1 DEF Nodes
  <2> QED BY <2>2, <2>3 DEF d
<1>9. h \in Seq(Nodes(S))
  <2>2. h \in [1 .. Len(o) -> Nodes(S)]
    BY <1>4, <1>5, <1>6, <1>8
  <2> QED BY <1>5, <2>2
<1>10. \A i \in DOMAIN h : h[i].depth = n.depth + 1 /\ h[i].row \in F
  BY <1>5, <1>6, <1>8
<1>11. \A i, j \in DOMAIN h : i < j => h[i].row.time <= h[j].row.time
  BY <1>2, <1>5, <1>6, <1>8 DEF Rising
<1>12. \A r \in F : \E i \in DOMAIN h : h[i].row = r
  BY <1>2, <1>5, <1>6, <1>8 DEF Once
<1> QED BY <1>9, <1>10, <1>11, <1>12 DEF F, h, HungUnder

LEMMA TurnWalks ==
  ASSUME NEW S, Timed(S), NEW w \in Walks(S), w.stack # <<>>
  PROVE  /\ Turn(S, w) \in Walks(S)
         /\ Head(w.stack) \in Nodes(S)
<1>1. w.stack \in Seq(Nodes(S)) /\ w.out \in Seq(Nodes(S))
  BY DEF Walks
<1> HIDE DEF Nodes
<1>2. Head(w.stack) \in Nodes(S) /\ Tail(w.stack) \in Seq(Nodes(S))
  BY <1>1
<1>3. Hung(S, Head(w.stack)) \in Seq(Nodes(S))
  BY <1>2, HungIs DEF HungUnder
<1>4. /\ Hung(S, Head(w.stack)) \o Tail(w.stack) \in Seq(Nodes(S))
      /\ Append(w.out, Head(w.stack)) \in Seq(Nodes(S))
  BY <1>1, <1>2, <1>3
<1>5. Skips(S, w) \in Walks(S) /\ Draws(S, w) \in Walks(S)
  BY <1>1, <1>2, <1>4 DEF Skips, Draws, Walks
<1> QED BY <1>2, <1>5, TurnIs

\* The turns of the loop from w on, when it ends.
RunFrom(S, w, t) ==
  /\ t \in Seq(Walks(S)) /\ t # <<>> /\ t[1] = w
  /\ t[Len(t)].stack = <<>>
  /\ \A i \in 1 .. Len(t) - 1 : t[i].stack # <<>> /\ t[i + 1] = Turn(S, t[i])

EndsOf(S, w) == {t[Len(t)].out : t \in {r \in Seq(Walks(S)) : RunFrom(S, w, r)}}

LEMMA EndsNow ==
  ASSUME NEW S, NEW w \in Walks(S), w.stack = <<>> PROVE EndsOf(S, w) = {w.out}
<1> DEFINE W == Walks(S)
<1>1. w \in W
  OBVIOUS
<1> HIDE DEF W
<1>2. RunFrom(S, w, <<w>>)
  <2>1. <<w>> \in Seq(W) /\ Len(<<w>>) = 1 /\ <<w>>[1] = w /\ <<w>> # <<>>
    BY <1>1
  <2> QED BY <2>1 DEF RunFrom, W
<1>3. <<w>> \in Seq(W) /\ <<w>>[Len(<<w>>)].out = w.out
  BY <1>1
<1>4. ASSUME NEW t \in Seq(W), RunFrom(S, w, t) PROVE t[Len(t)].out = w.out
  <2> DEFINE n == Len(t)
  <2>1. n \in Nat \ {0} /\ t[1] = w
    BY <1>4 DEF RunFrom
  <2>2. ~ (1 \in 1 .. n - 1)
    BY <1>4, <2>1 DEF RunFrom
  <2> HIDE DEF n
  <2>3. n = 1
    BY <2>1, <2>2
  <2> QED BY <2>1, <2>3 DEF n
<1>5. w.out \in EndsOf(S, w)
  BY <1>2, <1>3 DEF EndsOf, W
<1> QED BY <1>4, <1>5 DEF EndsOf, W

LEMMA EndsLater ==
  ASSUME NEW S, Timed(S), NEW w \in Walks(S), w.stack # <<>>
  PROVE  EndsOf(S, w) = EndsOf(S, Turn(S, w))
<1> DEFINE W == Walks(S)
           v == Turn(S, w)
<1>1. w \in W /\ v \in W
  BY TurnWalks
<1> HIDE DEF W, v
<1>2. ASSUME NEW t \in Seq(W), RunFrom(S, w, t)
      PROVE  \E u \in Seq(W) : RunFrom(S, v, u) /\ u[Len(u)].out = t[Len(t)].out
  <2> DEFINE n == Len(t)
             u == Tail(t)
  <2>1. n \in Nat \ {0} /\ t[1] = w /\ t[n].stack = <<>>
    BY <1>2 DEF RunFrom
  <2>2. \A i \in 1 .. n - 1 : t[i].stack # <<>> /\ t[i + 1] = Turn(S, t[i])
    BY <1>2 DEF RunFrom
  <2>3. n # 1
    BY <2>1
  <2>4. u \in Seq(W) /\ Len(u) = n - 1 /\ \A i \in 1 .. n - 1 : u[i] = t[i + 1]
    BY <2>1, <2>3
  <2> HIDE DEF n, u
  <2>5. 1 \in 1 .. n - 1 /\ n - 1 \in 1 .. n - 1 /\ n - 1 + 1 = n
    BY <2>1, <2>3
  <2>6. u[1] = v
    <3>1. u[1] = t[2] /\ t[2] = Turn(S, t[1])
      BY <2>2, <2>4, <2>5
    <3> QED BY <2>1, <3>1 DEF v
  <2>7. u[n - 1] = t[n]
    BY <2>4, <2>5
  <2>8. u # <<>>
    BY <2>1, <2>3, <2>4
  <2>9. ASSUME NEW i \in 1 .. n - 1 - 1 PROVE u[i].stack # <<>> /\ u[i + 1] = Turn(S, u[i])
    <3>1. i + 1 \in 1 .. n - 1 /\ i \in 1 .. n - 1
      BY <2>1
    <3> QED BY <2>2, <2>4, <3>1
  <2>10. RunFrom(S, v, u)
    BY <2>1, <2>4, <2>6, <2>7, <2>8, <2>9 DEF RunFrom, W
  <2> QED BY <2>4, <2>7, <2>10 DEF n
<1>3. ASSUME NEW u \in Seq(W), RunFrom(S, v, u)
      PROVE  \E t \in Seq(W) : RunFrom(S, w, t) /\ t[Len(t)].out = u[Len(u)].out
  <2> DEFINE n == Len(u)
             t == <<w>> \o u
  <2>1. n \in Nat \ {0} /\ u[1] = v /\ u[n].stack = <<>>
    BY <1>3 DEF RunFrom
  <2>2. \A i \in 1 .. n - 1 : u[i].stack # <<>> /\ u[i + 1] = Turn(S, u[i])
    BY <1>3 DEF RunFrom
  <2>3. t \in Seq(W) /\ Len(t) = n + 1 /\ t[1] = w /\ \A i \in 1 .. n : t[i + 1] = u[i]
    <3>1. <<w>> \in Seq(W) /\ Len(<<w>>) = 1 /\ <<w>>[1] = w
      BY <1>1
    <3>2. t \in Seq(W) /\ Len(t) = 1 + n
      BY <3>1
    <3>3. \A k \in 1 .. 1 + n : t[k] = IF k <= 1 THEN <<w>>[k] ELSE u[k - 1]
      BY <3>1
    <3>4. t[1] = w
      BY <2>1, <3>1, <3>3
    <3>5. ASSUME NEW i \in 1 .. n PROVE t[i + 1] = u[i]
      <4>1. i + 1 \in 1 .. 1 + n /\ ~ (i + 1 <= 1) /\ i + 1 - 1 = i
        BY <2>1
      <4> HIDE DEF t
      <4> QED BY <3>3, <4>1
    <3> QED BY <2>1, <3>2, <3>4, <3>5
  <2> HIDE DEF n, t
  <2>4. 1 \in 1 .. n /\ n \in 1 .. n /\ n + 1 - 1 = n
    BY <2>1
  <2>5. t # <<>>
    BY <2>1, <2>3
  <2>6. t[n + 1] = u[n]
    BY <2>3, <2>4
  <2>7. ASSUME NEW i \in 1 .. n PROVE t[i].stack # <<>> /\ t[i + 1] = Turn(S, t[i])
    <3>1. CASE i = 1
      BY <2>1, <2>3, <3>1 DEF v
    <3>2. CASE i # 1
      <4>1. i - 1 \in 1 .. n - 1 /\ i - 1 \in 1 .. n /\ i - 1 + 1 = i
        BY <2>1, <3>2
      <4>2. t[i] = u[i - 1] /\ t[i + 1] = u[i]
        BY <2>3, <4>1
      <4>3. u[i - 1].stack # <<>> /\ u[i] = Turn(S, u[i - 1])
        BY <2>2, <4>1
      <4> QED BY <4>2, <4>3
    <3> QED BY <3>1, <3>2
  <2>8. RunFrom(S, w, t)
    BY <2>1, <2>3, <2>4, <2>5, <2>6, <2>7 DEF RunFrom, W
  <2> QED BY <2>3, <2>6, <2>8 DEF n
<1>4. ASSUME NEW o \in EndsOf(S, w) PROVE o \in EndsOf(S, v)
  BY <1>2 DEF EndsOf, W
<1>5. ASSUME NEW o \in EndsOf(S, v) PROVE o \in EndsOf(S, w)
  BY <1>3 DEF EndsOf, W
<1> QED BY <1>4, <1>5 DEF v

\* So there is a function that draws, and Drawing is one.
LEMMA DrawingIs == ASSUME NEW S, Timed(S) PROVE IsDrawing(S, Drawing(S))
<1> DEFINE W == Walks(S)
           g == [w \in W |-> Pick(EndsOf(S, w))]
<1>1. ASSUME NEW w \in W, w.stack = <<>> PROVE g[w] = w.out
  BY <1>1, EndsNow DEF Pick
<1>2. ASSUME NEW w \in W, w.stack # <<>> PROVE g[w] = g[Turn(S, w)]
  <2>1. Turn(S, w) \in W
    BY <1>2, TurnWalks
  <2>2. EndsOf(S, w) = EndsOf(S, Turn(S, w))
    BY <1>2, EndsLater
  <2> QED BY <2>1, <2>2
<1>3. \A w \in W : g[w] = IF w.stack = <<>> THEN w.out ELSE g[Turn(S, w)]
  BY <1>1, <1>2
<1>4. g = [w \in W |-> g[w]]
  OBVIOUS
<1> HIDE DEF g
<1>5. g = [w \in W |-> IF w.stack = <<>> THEN w.out ELSE g[Turn(S, w)]]
  BY <1>3, <1>4
<1>6. IsDrawing(S, g)
  BY <1>5 DEF IsDrawing
<1> HIDE DEF IsDrawing
<1> QED BY <1>6 DEF Drawing

\* Among the first m rows, the last one above a node is its parent, and the rows since
\* are under the parent and no later than the node where they are its siblings.
Hangs(out, m, n) ==
  /\ n.depth > 0
  /\ \E j \in 1 .. m :
       /\ out[j].row.span = n.row.parent
       /\ out[j].depth = n.depth - 1
       /\ \A k \in j + 1 .. m :
            /\ out[k].depth >= n.depth
            /\ out[k].depth = n.depth => out[k].row.time <= n.row.time

LEMMA HangsStill ==
  ASSUME NEW S, NEW out, NEW m \in Nat, NEW n, Hangs(out, m, n),
         NEW o, \A i \in 1 .. m : o[i] = out[i]
  PROVE  Hangs(o, m, n)
<1>1. PICK j \in 1 .. m :
        /\ out[j].row.span = n.row.parent /\ out[j].depth = n.depth - 1
        /\ \A k \in j + 1 .. m :
             /\ out[k].depth >= n.depth
             /\ out[k].depth = n.depth => out[k].row.time <= n.row.time
  BY DEF Hangs
<1>2. \A k \in j + 1 .. m : k \in 1 .. m
  OBVIOUS
<1>3. \A k \in j + 1 .. m :
        /\ o[k].depth >= n.depth
        /\ o[k].depth = n.depth => o[k].row.time <= n.row.time
  BY <1>1, <1>2
<1>4. o[j].row.span = n.row.parent /\ o[j].depth = n.depth - 1
  BY <1>1
<1> QED BY <1>3, <1>4 DEF Hangs

\* One more row, which is under the parent.
LEMMA HangsOn ==
  ASSUME NEW out, NEW m \in Nat, NEW n, Hangs(out, m, n), out[m + 1].depth >= n.depth,
         out[m + 1].depth = n.depth => out[m + 1].row.time <= n.row.time
  PROVE  Hangs(out, m + 1, n)
<1>1. PICK j \in 1 .. m :
        /\ out[j].row.span = n.row.parent /\ out[j].depth = n.depth - 1
        /\ \A k \in j + 1 .. m :
             /\ out[k].depth >= n.depth
             /\ out[k].depth = n.depth => out[k].row.time <= n.row.time
  BY DEF Hangs
<1>2. \A k \in j + 1 .. m + 1 : k \in j + 1 .. m \/ k = m + 1
  OBVIOUS
<1>3. \A k \in j + 1 .. m + 1 :
        /\ out[k].depth >= n.depth
        /\ out[k].depth = n.depth => out[k].row.time <= n.row.time
  BY <1>1, <1>2
<1>4. j \in 1 .. m + 1
  OBVIOUS
<1> QED BY <1>1, <1>3, <1>4 DEF Hangs

\* What is drawn so far, and what is on the stack.
DrawnOnce(out) == \A i, j \in DOMAIN out : out[i].row = out[j].row => i = j
DrawnAsTree(out) == \A i \in DOMAIN out : i = 1 \/ Hangs(out, i - 1, out[i])
FromRoot(root, out) == out # <<>> /\ out[1] = [row |-> root, depth |-> 0]
Stacked(stack) ==
  \A i, j \in DOMAIN stack : i < j =>
    /\ stack[i].depth >= stack[j].depth
    /\ stack[i].depth = stack[j].depth => stack[i].row.time <= stack[j].row.time
StackHangs(w) == \A i \in DOMAIN w.stack : Hangs(w.out, Len(w.out), w.stack[i])
NoneForgotten(S, w) ==
  \A i \in DOMAIN w.out, q \in S : q.parent = w.out[i].row.span =>
    Drawn(w.out, q.span) \/ \E j \in DOMAIN w.stack : w.stack[j].row = q

DrawingInv(S, root, w) ==
  /\ w \in Walks(S)
  /\ DrawnOnce(w.out) /\ DrawnAsTree(w.out) /\ Stacked(w.stack) /\ NoneForgotten(S, w)
  /\ w = Started(root) \/ (FromRoot(root, w.out) /\ StackHangs(w))

LEMMA StartedWalks ==
  ASSUME NEW S, NEW root \in S PROVE DrawingInv(S, root, Started(root))
<1> DEFINE n == [row |-> root, depth |-> 0]
           w == Started(root)
<1>1. n \in Nodes(S)
  BY DEF Nodes
<1>2. w.stack = <<n>> /\ w.out = <<>>
  BY DEF Started
<1>3. w \in Walks(S)
  <2> HIDE DEF n
  <2>1. w = [stack |-> <<n>>, out |-> <<>>]
    BY DEF Started, n
  <2> DEFINE A == Seq(Nodes(S))
  <2>2. <<n>> \in A /\ <<>> \in A
    BY <1>1
  <2> HIDE DEF A, w
  <2>3. w \in [stack : A, out : A]
    BY <2>1, <2>2
  <2> QED BY <2>3 DEF Walks, A
<1> HIDE DEF n, w
<1>4. DrawnOnce(w.out) /\ DrawnAsTree(w.out) /\ NoneForgotten(S, w)
  BY <1>2 DEF DrawnOnce, DrawnAsTree, NoneForgotten
<1>5. Stacked(w.stack)
  <2>1. DOMAIN w.stack = {1}
    BY <1>2
  <2> QED BY <2>1 DEF Stacked
<1> QED BY <1>3, <1>4, <1>5 DEF DrawingInv, w

\* The stack of a walk: its top and the rest.
LEMMA StackIs ==
  ASSUME NEW N, NEW st \in Seq(N), st # <<>>
  PROVE  /\ Len(st) \in Nat \ {0} /\ DOMAIN st = 1 .. Len(st)
         /\ Head(st) = st[1] /\ st[1] \in N
         /\ Tail(st) \in Seq(N) /\ Len(Tail(st)) = Len(st) - 1
         /\ DOMAIN Tail(st) = 1 .. Len(st) - 1
         /\ \A i \in 1 .. Len(st) - 1 : Tail(st)[i] = st[i + 1]
OBVIOUS

LEMMA SkipKeeps ==
  ASSUME NEW S, Timed(S), NEW root, NEW w, DrawingInv(S, root, w), w.stack # <<>>,
         Drawn(w.out, Head(w.stack).row.span)
  PROVE  DrawingInv(S, root, Skips(S, w))
<1> DEFINE v == Skips(S, w)
           N == Nodes(S)
           n == Len(w.stack)
<1>1. v.out = w.out /\ v.stack = Tail(w.stack)
  BY DEF Skips
<1>2. w.stack \in Seq(N) /\ w.out \in Seq(N)
  BY DEF DrawingInv, Walks
<1>3. v \in Walks(S)
  <2>1. Tail(w.stack) \in Seq(N)
    BY <1>2, StackIs
  <2> QED BY <1>2, <2>1 DEF Walks, Skips
<1> HIDE DEF v, N
<1>4. /\ n \in Nat \ {0} /\ DOMAIN w.stack = 1 .. n /\ DOMAIN v.stack = 1 .. n - 1
      /\ Head(w.stack) = w.stack[1]
      /\ \A i \in 1 .. n - 1 : v.stack[i] = w.stack[i + 1]
  BY <1>1, <1>2, StackIs
<1> HIDE DEF n
<1>5. \A i \in 1 .. n - 1 : i + 1 \in 1 .. n
  BY <1>4
<1>6. Stacked(v.stack)
  <2> SUFFICES ASSUME NEW i \in 1 .. n - 1, NEW j \in 1 .. n - 1, i < j
               PROVE  /\ v.stack[i].depth >= v.stack[j].depth
                      /\ v.stack[i].depth = v.stack[j].depth =>
                           v.stack[i].row.time <= v.stack[j].row.time
    BY <1>4 DEF Stacked
  <2>1. i + 1 < j + 1
    BY <1>4
  <2> QED BY <1>4, <1>5, <2>1 DEF DrawingInv, Stacked
<1>7. NoneForgotten(S, v)
  <2> SUFFICES ASSUME NEW i \in DOMAIN v.out, NEW q \in S, q.parent = v.out[i].row.span,
                      ~ Drawn(v.out, q.span)
               PROVE  \E j \in DOMAIN v.stack : v.stack[j].row = q
    BY DEF NoneForgotten
  <2>1. PICK j \in DOMAIN w.stack : w.stack[j].row = q
    BY <1>1 DEF DrawingInv, NoneForgotten
  <2>2. j # 1
    BY <1>1, <1>4, <2>1
  <2>3. j - 1 \in 1 .. n - 1 /\ j - 1 + 1 = j
    BY <1>4, <2>2
  <2> QED BY <1>4, <2>1, <2>3
<1>8. w.out # <<>>
  BY DEF Drawn
<1>9. FromRoot(root, w.out) /\ StackHangs(w)
  BY <1>8 DEF DrawingInv, Started
<1>10. StackHangs(v)
  BY <1>1, <1>4, <1>5, <1>9 DEF StackHangs
<1> QED BY <1>1, <1>3, <1>6, <1>7, <1>9, <1>10 DEF DrawingInv, v

LEMMA JoinIs ==
  ASSUME NEW N, NEW a \in Seq(N), NEW b \in Seq(N)
  PROVE  /\ a \o b \in Seq(N) /\ DOMAIN (a \o b) = 1 .. Len(a) + Len(b)
         /\ \A i \in 1 .. Len(a) : (a \o b)[i] = a[i]
         /\ \A i \in 1 .. Len(b) : (a \o b)[Len(a) + i] = b[i]
         /\ \A i \in 1 .. Len(a) + Len(b) :
              i \in 1 .. Len(a) \/ (i - Len(a) \in 1 .. Len(b) /\ Len(a) + (i - Len(a)) = i)
<1>1. Len(a) \in Nat /\ Len(b) \in Nat
  OBVIOUS
<1>2. a \o b \in Seq(N) /\ DOMAIN (a \o b) = 1 .. Len(a) + Len(b)
  OBVIOUS
<1>3. \A i \in 1 .. Len(a) + Len(b) :
        (a \o b)[i] = IF i <= Len(a) THEN a[i] ELSE b[i - Len(a)]
  OBVIOUS
<1> DEFINE c == a \o b
           m == Len(a)
           n == Len(b)
<1> HIDE DEF c, m, n
<1>4. \A i \in 1 .. m : c[i] = a[i]
  BY <1>1, <1>3 DEF c, m, n
<1>5. ASSUME NEW i \in 1 .. n PROVE c[m + i] = b[i]
  <2>1. m + i \in 1 .. m + n /\ ~ (m + i <= m) /\ m + i - m = i
    BY <1>1 DEF m, n
  <2> QED BY <1>3, <2>1 DEF c, m, n
<1>6. \A i \in 1 .. m + n : i \in 1 .. m \/ (i - m \in 1 .. n /\ m + (i - m) = i)
  BY <1>1 DEF m, n
<1> QED BY <1>2, <1>4, <1>5, <1>6 DEF c, m, n

LEMMA DrawKeeps ==
  ASSUME NEW S, Timed(S), NEW root, NEW w, DrawingInv(S, root, w), w.stack # <<>>,
         ~ Drawn(w.out, Head(w.stack).row.span)
  PROVE  /\ DrawingInv(S, root, Draws(S, w))
         /\ Len(Draws(S, w).out) = Len(w.out) + 1
<1> DEFINE v == Draws(S, w)
           N == Nodes(S)
           top == Head(w.stack)
           rest == Tail(w.stack)
           h == Hung(S, top)
           out == w.out
           n == Len(w.stack)
           l == Len(h)
           m == Len(out)
<1>1. v.out = Append(out, top) /\ v.stack = h \o rest
  BY DEF Draws
<1>2. w.stack \in Seq(N) /\ out \in Seq(N)
  BY DEF DrawingInv, Walks
<1> HIDE DEF N
<1>3. /\ n \in Nat \ {0} /\ DOMAIN w.stack = 1 .. n
      /\ top = w.stack[1] /\ top \in N
      /\ rest \in Seq(N) /\ Len(rest) = n - 1
      /\ \A i \in 1 .. n - 1 : rest[i] = w.stack[i + 1]
  BY <1>2, StackIs
<1>4. /\ h \in Seq(N)
      /\ \A i \in DOMAIN h : h[i].depth = top.depth + 1 /\ h[i].row \in Children(S, top.row.span)
      /\ \A i, j \in DOMAIN h : i < j => h[i].row.time <= h[j].row.time
      /\ \A r \in Children(S, top.row.span) : \E i \in DOMAIN h : h[i].row = r
  <2>1. HungUnder(S, top, h)
    BY <1>3, HungIs DEF N
  <2> HIDE DEF top, h
  <2> QED BY <2>1 DEF HungUnder, N
<1>5. l \in Nat /\ DOMAIN h = 1 .. l
  <2> HIDE DEF h
  <2> QED BY <1>4
<1>6. m \in Nat /\ DOMAIN out = 1 .. m
  <2> HIDE DEF out
  <2> QED BY <1>2
<1> HIDE DEF v, top, rest, h, out, n, l, m
<1>7. /\ v.out \in Seq(N) /\ Len(v.out) = m + 1 /\ DOMAIN v.out = 1 .. m + 1
      /\ v.out[m + 1] = top /\ \A i \in 1 .. m : v.out[i] = out[i]
  BY <1>1, <1>2, <1>3, <1>6 DEF m
<1>8. /\ v.stack \in Seq(N) /\ DOMAIN v.stack = 1 .. l + (n - 1)
      /\ \A i \in 1 .. l : v.stack[i] = h[i]
      /\ \A i \in 1 .. n - 1 : v.stack[l + i] = w.stack[i + 1]
      /\ \A i \in 1 .. l + (n - 1) :
           i \in 1 .. l \/ (i - l \in 1 .. n - 1 /\ l + (i - l) = i)
  BY <1>1, <1>3, <1>4, JoinIs DEF l
<1>9. v \in Walks(S)
  BY <1>1, <1>7, <1>8 DEF Walks, Draws, v, N, top, rest, h, out
<1>10. /\ \A i \in 1 .. n : w.stack[i].depth \in Nat /\ w.stack[i].row \in S
       /\ \A i \in 1 .. m : out[i].depth \in Nat /\ out[i].row \in S
  <2>1. (\A i \in 1 .. n : w.stack[i] \in N) /\ (\A i \in 1 .. m : out[i] \in N)
    BY <1>2, <1>3, <1>6
  <2> QED BY <2>1 DEF N, Nodes
<1>11. /\ top.depth \in Nat /\ top.row \in S
       /\ \A i \in 1 .. n - 1 : i + 1 \in 1 .. n /\ 1 < i + 1
       /\ \A r \in S : r.time \in Nat
  BY <1>3, <1>10 DEF Timed
<1>12. DrawnOnce(v.out)
  <2>1. \A i \in 1 .. m : out[i].row # top.row
    BY <1>6 DEF Drawn, top, out
  <2> SUFFICES ASSUME NEW i \in 1 .. m + 1, NEW j \in 1 .. m + 1, v.out[i].row = v.out[j].row
               PROVE  i = j
    BY <1>7 DEF DrawnOnce
  <2>2. (i \in 1 .. m \/ i = m + 1) /\ (j \in 1 .. m \/ j = m + 1)
    BY <1>6
  <2> QED BY <1>6, <1>7, <2>1, <2>2 DEF DrawingInv, DrawnOnce, out
<1>13. w = Started(root) => m = 0 /\ n = 1 /\ top = [row |-> root, depth |-> 0]
  BY <1>3 DEF Started, m, n, out
<1>14. FromRoot(root, v.out)
  <2>1. CASE w = Started(root)
    <3>1. v.out[1] = top /\ Len(v.out) = 1
      BY <1>7, <1>13, <2>1
    <3> QED BY <1>13, <2>1, <3>1 DEF FromRoot
  <2>2. CASE FromRoot(root, out)
    <3>1. 1 \in 1 .. m
      BY <1>2, <1>6, <2>2 DEF FromRoot, m
    <3>2. v.out # <<>>
      BY <1>6, <1>7
    <3> QED BY <1>7, <2>2, <3>1, <3>2 DEF FromRoot
  <2> QED BY <2>1, <2>2 DEF DrawingInv, out
<1>15. w # Started(root) => \A i \in 1 .. n : Hangs(out, m, w.stack[i])
  BY <1>3 DEF DrawingInv, StackHangs, out, m
<1>16. DrawnAsTree(v.out)
  <2> SUFFICES ASSUME NEW i \in 1 .. m + 1, i # 1 PROVE Hangs(v.out, i - 1, v.out[i])
    BY <1>7 DEF DrawnAsTree
  <2>1. i - 1 \in Nat /\ \A k \in 1 .. i - 1 : k \in 1 .. m
    BY <1>6
  <2>2. CASE i \in 1 .. m
    <3>1. Hangs(out, i - 1, out[i])
      BY <1>6, <2>2 DEF DrawingInv, DrawnAsTree, out
    <3>2. Hangs(v.out, i - 1, out[i])
      BY <1>7, <2>1, <3>1, HangsStill
    <3> QED BY <1>7, <2>2, <3>2
  <2>3. CASE i = m + 1
    <3>1. w # Started(root)
      BY <1>13, <2>3
    <3>2. Hangs(out, m, top)
      BY <1>3, <1>15, <3>1
    <3>3. Hangs(v.out, m, top)
      BY <1>6, <1>7, <3>2, HangsStill
    <3>4. i - 1 = m
      BY <1>6, <2>3
    <3> QED BY <1>7, <2>3, <3>3, <3>4
  <2> QED BY <1>6, <2>2, <2>3
<1>17. Stacked(v.stack)
  <2> SUFFICES ASSUME NEW i \in 1 .. l + (n - 1), NEW j \in 1 .. l + (n - 1), i < j
               PROVE  /\ v.stack[i].depth >= v.stack[j].depth
                      /\ v.stack[i].depth = v.stack[j].depth =>
                           v.stack[i].row.time <= v.stack[j].row.time
    BY <1>8 DEF Stacked
  <2>1. \A a, b \in 1 .. n : a < b =>
          /\ w.stack[a].depth >= w.stack[b].depth
          /\ w.stack[a].depth = w.stack[b].depth => w.stack[a].row.time <= w.stack[b].row.time
    BY <1>3 DEF DrawingInv, Stacked
  <2>2. CASE i \in 1 .. l /\ j \in 1 .. l
    <3>1. /\ v.stack[i].depth = top.depth + 1 /\ v.stack[j].depth = top.depth + 1
          /\ v.stack[i].row.time <= v.stack[j].row.time
      <4>1. v.stack[i] = h[i] /\ v.stack[j] = h[j] /\ i \in DOMAIN h /\ j \in DOMAIN h
        BY <1>5, <1>8, <2>2
      <4> QED BY <1>4, <4>1
    <3> QED BY <1>11, <3>1
  <2>3. CASE i \in 1 .. l /\ j \notin 1 .. l
    <3>1. v.stack[i].depth = top.depth + 1
      BY <1>4, <1>5, <1>8, <2>3
    <3>2. j - l \in 1 .. n - 1 /\ l + (j - l) = j
      BY <1>8, <2>3
    <3>3. v.stack[j] = w.stack[j - l + 1] /\ j - l + 1 \in 1 .. n /\ 1 < j - l + 1
      BY <1>8, <1>11, <3>2
    <3>4. 1 \in 1 .. n
      BY <1>3
    <3>5. top.depth >= v.stack[j].depth /\ v.stack[j].depth \in Nat
      BY <1>3, <1>10, <2>1, <3>3, <3>4
    <3> QED BY <1>11, <3>1, <3>5
  <2>4. CASE i \notin 1 .. l
    <3>1. j \notin 1 .. l
      BY <1>5, <2>4
    <3>2. /\ i - l \in 1 .. n - 1 /\ l + (i - l) = i
          /\ j - l \in 1 .. n - 1 /\ l + (j - l) = j
      BY <1>8, <2>4, <3>1
    <3>3. /\ v.stack[i] = w.stack[i - l + 1] /\ i - l + 1 \in 1 .. n
          /\ v.stack[j] = w.stack[j - l + 1] /\ j - l + 1 \in 1 .. n
      BY <1>8, <1>11, <3>2
    <3>4. i - l + 1 < j - l + 1
      BY <1>5
    <3> QED BY <2>1, <3>3, <3>4
  <2> QED BY <2>2, <2>3, <2>4
<1>18. NoneForgotten(S, v)
  <2> SUFFICES ASSUME NEW i \in 1 .. m + 1, NEW q \in S, q.parent = v.out[i].row.span,
                      ~ Drawn(v.out, q.span)
               PROVE  \E j \in DOMAIN v.stack : v.stack[j].row = q
    BY <1>7 DEF NoneForgotten
  <2>1. ~ Drawn(out, q.span)
    BY <1>6, <1>7 DEF Drawn
  <2>2. top.row # q
    <3>1. m + 1 \in 1 .. m + 1
      BY <1>6
    <3> QED BY <1>7, <3>1 DEF Drawn
  <2>3. CASE i \in 1 .. m
    <3>1. PICK j \in 1 .. n : w.stack[j].row = q
      BY <1>3, <1>6, <1>7, <2>1, <2>3 DEF DrawingInv, NoneForgotten, out
    <3>2. j # 1
      BY <1>3, <2>2, <3>1
    <3>3. j - 1 \in 1 .. n - 1 /\ j - 1 + 1 = j
      BY <1>3, <3>2
    <3>4. v.stack[l + (j - 1)] = w.stack[j]
      BY <1>8, <3>3
    <3>5. l + (j - 1) \in 1 .. l + (n - 1)
      BY <1>3, <1>5, <3>3
    <3> QED BY <1>8, <3>1, <3>4, <3>5
  <2>4. CASE i = m + 1
    <3>1. q \in Children(S, top.row.span)
      BY <1>7, <2>4 DEF Children
    <3>2. PICK j \in 1 .. l : h[j].row = q
      BY <1>4, <1>5, <3>1
    <3>3. j \in 1 .. l + (n - 1)
      BY <1>3, <1>5
    <3> QED BY <1>8, <3>2, <3>3
  <2> QED BY <1>6, <2>3, <2>4
<1>19. StackHangs(v)
  <2> SUFFICES ASSUME NEW i \in 1 .. l + (n - 1) PROVE Hangs(v.out, m + 1, v.stack[i])
    BY <1>7, <1>8 DEF StackHangs
  <2>1. CASE i \in 1 .. l
    <3>1. v.stack[i].depth = top.depth + 1 /\ v.stack[i].row.parent = top.row.span
      BY <1>4, <1>5, <1>8, <2>1 DEF Children
    <3>2. v.stack[i].depth > 0 /\ v.stack[i].depth - 1 = top.depth
      BY <1>11, <3>1
    <3>3. m + 1 \in 1 .. m + 1 /\ \A k \in m + 1 + 1 .. m + 1 : FALSE
      BY <1>6
    <3> QED BY <1>7, <3>1, <3>2, <3>3 DEF Hangs
  <2>2. CASE i \notin 1 .. l
    <3>1. i - l \in 1 .. n - 1 /\ l + (i - l) = i
      BY <1>8, <2>2
    <3>2. v.stack[i] = w.stack[i - l + 1] /\ i - l + 1 \in 1 .. n /\ 1 < i - l + 1
      BY <1>8, <1>11, <3>1
    <3> DEFINE k == i - l + 1
    <3>3. v.stack[i] = w.stack[k] /\ k \in 1 .. n /\ 1 < k /\ 1 \in 1 .. n
      BY <1>3, <3>2
    <3> HIDE DEF k
    <3>4. w # Started(root)
      BY <1>13, <3>3
    <3>5. Hangs(v.out, m, w.stack[k])
      BY <1>6, <1>7, <1>15, <3>3, <3>4, HangsStill
    <3>6. /\ top.depth >= w.stack[k].depth
          /\ top.depth = w.stack[k].depth => top.row.time <= w.stack[k].row.time
      BY <1>3, <3>3 DEF DrawingInv, Stacked
    <3>7. Hangs(v.out, m + 1, w.stack[k])
      BY <1>6, <1>7, <3>5, <3>6, HangsOn
    <3> QED BY <3>3, <3>7
  <2> QED BY <2>1, <2>2
<1> QED BY <1>7, <1>9, <1>12, <1>14, <1>16, <1>17, <1>18, <1>19 DEF DrawingInv, v, m, out

\* What the loop has drawn when nothing is left on its stack.
WalkedIs(S, root, out) ==
  /\ out \in Seq(Nodes(S))
  /\ DrawnOnce(out) /\ DrawnAsTree(out) /\ FromRoot(root, out)
  /\ \A i \in DOMAIN out, q \in S : q.parent = out[i].row.span => Drawn(out, q.span)

\* As many rows as spans at most.
LEMMA DrawnFits ==
  ASSUME NEW S, Timed(S), NEW out \in Seq(Nodes(S)), DrawnOnce(out)
  PROVE  Cardinality(S) - Len(out) \in Nat
<1> DEFINE f == [i \in 1 .. Len(out) |-> out[i].row]
<1>1. Len(out) \in Nat /\ DOMAIN out = 1 .. Len(out)
  <2> DEFINE N == Nodes(S)
  <2>1. out \in Seq(N)
    OBVIOUS
  <2> HIDE DEF N
  <2> QED BY <2>1
<1>2. \A i \in 1 .. Len(out) : out[i].row \in S
  <2> DEFINE N == Nodes(S)
  <2>1. \A i \in 1 .. Len(out) : out[i] \in N
    <3> HIDE DEF N
    <3>1. out \in Seq(N)
      BY DEF N
    <3> QED BY <3>1
  <2> QED BY <2>1 DEF Nodes
<1>3. f \in Injection(1 .. Len(out), S)
  <2>1. f \in [1 .. Len(out) -> S]
    BY <1>2
  <2>2. \A i, j \in 1 .. Len(out) : f[i] = f[j] => i = j
    BY <1>1 DEF DrawnOnce
  <2> QED BY <2>1, <2>2 DEF Injection, IsInjective
<1>4. IsFiniteSet(1 .. Len(out)) /\ Cardinality(1 .. Len(out)) = Len(out)
  BY <1>1, FS_Interval
<1> HIDE DEF f
<1>5. Cardinality(1 .. Len(out)) <= Cardinality(S)
  BY <1>3, FS_Injection DEF Timed
<1>6. Cardinality(S) \in Nat
  BY FS_CardinalityType DEF Timed
<1> QED BY <1>1, <1>4, <1>5, <1>6

\* The loop ends, since each turn draws a row or shortens the stack: so what holds of
\* every turn holds of what it has drawn.
LEMMA WalkTells ==
  ASSUME NEW S, Timed(S), NEW root \in S PROVE WalkedIs(S, root, WalkFrom(S, root))
<1> DEFINE f == Drawing(S)
           Inv(w) == DrawingInv(S, root, w)
           Done(w) == WalkedIs(S, root, f[w])
           Bad == {w \in Walks(S) : Inv(w) /\ ~ Done(w)}
           c == Cardinality(S)
<1>1. \A w \in Walks(S) : f[w] = IF w.stack = <<>> THEN w.out ELSE f[Turn(S, w)]
  BY DrawingIs DEF IsDrawing
<1>2. Inv(Started(root)) /\ Started(root) \in Walks(S)
  BY StartedWalks DEF DrawingInv
<1> SUFFICES Bad = {}
  BY <1>2, WalkDraws
<1> SUFFICES ASSUME Bad # {} PROVE FALSE
  OBVIOUS
<1>3. ASSUME NEW w \in Walks(S)
      PROVE  Len(w.out) \in Nat /\ Len(w.stack) \in Nat
  BY DEF Walks
<1>4. ASSUME NEW w \in Bad PROVE c - Len(w.out) \in Nat
  BY DrawnFits DEF DrawingInv, Walks
<1>5. ASSUME NEW w \in Bad PROVE w.stack # <<>>
  <2> SUFFICES ASSUME w.stack = <<>> PROVE FALSE
    OBVIOUS
  <2>1. f[w] = w.out
    BY <1>1
  <2>2. w # Started(root)
    <3> DEFINE n == [row |-> root, depth |-> 0]
    <3>1. Started(root).stack = <<n>>
      BY DEF Started
    <3> HIDE DEF n
    <3>2. Started(root).stack # <<>>
      BY <3>1
    <3> QED BY <3>2
  <2>3. \A j \in DOMAIN w.stack : FALSE
    OBVIOUS
  <2>4. WalkedIs(S, root, w.out)
    BY <2>2, <2>3 DEF WalkedIs, DrawingInv, Walks, NoneForgotten
  <2> QED BY <2>1, <2>4
<1>6. ASSUME NEW w \in Bad
      PROVE  /\ Turn(S, w) \in Bad
             /\ \/ Len(Turn(S, w).out) = Len(w.out) + 1
                \/ Turn(S, w).out = w.out /\ Len(Turn(S, w).stack) = Len(w.stack) - 1
  <2>1. Turn(S, w) \in Walks(S) /\ f[w] = f[Turn(S, w)]
    BY <1>1, <1>5, TurnWalks
  <2>2. CASE Drawn(w.out, Head(w.stack).row.span)
    <3>1. Turn(S, w) = Skips(S, w)
      BY <2>2, TurnIs
    <3>2. Inv(Skips(S, w))
      BY <1>5, <2>2, SkipKeeps
    <3>3. Len(Tail(w.stack)) = Len(w.stack) - 1
      BY <1>5 DEF Walks
    <3> QED BY <2>1, <3>1, <3>2, <3>3 DEF Skips
  <2>3. CASE ~ Drawn(w.out, Head(w.stack).row.span)
    <3>1. Turn(S, w) = Draws(S, w)
      BY <2>3, TurnIs
    <3>2. Inv(Draws(S, w)) /\ Len(Draws(S, w).out) = Len(w.out) + 1
      BY <1>5, <2>3, DrawKeeps
    <3> QED BY <2>1, <3>1, <3>2
  <2> QED BY <2>2, <2>3
<1> DEFINE left == {c - Len(w.out) : w \in Bad}
<1>7. PICK a \in left : \A x \in left : a <= x
  <2>1. left \in SUBSET Nat /\ left # {}
    BY <1>4
  <2> HIDE DEF left
  <2> QED BY <2>1, LeastExists
<1> DEFINE short == {Len(w.stack) : w \in {u \in Bad : c - Len(u.out) = a}}
<1>8. PICK b \in short : \A x \in short : b <= x
  <2>1. short \in SUBSET Nat
    BY <1>3
  <2>2. short # {}
    BY <1>7
  <2> HIDE DEF short
  <2> QED BY <2>1, <2>2, LeastExists
<1>9. PICK w \in Bad : c - Len(w.out) = a /\ Len(w.stack) = b
  BY <1>8
<1>10. Turn(S, w) \in Bad
  BY <1>6
<1> DEFINE v == Turn(S, w)
<1>11. c - Len(v.out) >= a /\ (c - Len(v.out) = a => Len(v.stack) >= b)
  <2> HIDE DEF v
  <2> QED BY <1>7, <1>8, <1>10 DEF v
<1>12. Len(v.out) = Len(w.out) + 1 \/ (v.out = w.out /\ Len(v.stack) = Len(w.stack) - 1)
  BY <1>6
<1>13. /\ Len(w.out) \in Nat /\ Len(w.stack) \in Nat /\ Len(v.out) \in Nat
       /\ Len(v.stack) \in Nat /\ c \in Nat
  BY <1>3, <1>10, FS_CardinalityType DEF Timed
<1> HIDE DEF v, c, Bad
<1> QED BY <1>9, <1>11, <1>12, <1>13

-----------------------------------------------------------------------------
(***************************************************************************)
(* The waterfall of a trace: what is drawn from the root, then the rest.   *)
(***************************************************************************)

Orphans(S) == {r \in S : r.parent = "" \/ \A q \in S : q.span # r.parent}

\* The earliest orphan, if there is one.
LEMMA RootIs ==
  ASSUME NEW S, Timed(S)
  PROVE  /\ Root(S) = {} <=> Orphans(S) = {}
         /\ Root(S) # {} => \E r \in Orphans(S) : Root(S) = {r}
<1>1. Root(S) = IF Orphans(S) = {} THEN {} ELSE {ByTime(Orphans(S))[1]}
  BY DEF Root, Orphans
<1>2. ASSUME Orphans(S) # {} PROVE ByTime(Orphans(S))[1] \in Orphans(S)
  <2> DEFINE F == Orphans(S)
             o == ByTime(F)
  <2>1. F \in SUBSET S
    BY DEF Orphans
  <2>2. Once(F, o)
    BY <2>1, TimedPart, ByTimeIs
  <2> HIDE DEF F, o
  <2>3. o \in Seq(F) /\ \E i \in DOMAIN o : TRUE
    BY <1>2, <2>2 DEF Once, F
  <2>4. 1 \in DOMAIN o
    BY <2>3
  <2> QED BY <2>3, <2>4 DEF F, o
<1> QED BY <1>1, <1>2

\* Each span once, at its depth; a row above the margin hangs from its parent; and
\* with a root, what hangs from a drawn row is drawn.
Margin(tree, i) == i = 1 \/ tree[i].depth > 0

TreeIs(S, tree) ==
  /\ tree \in Seq(Nodes(S)) /\ Len(tree) = Cardinality(S)
  /\ DrawnOnce(tree)
  /\ \A r \in S : \E i \in DOMAIN tree : tree[i].row = r
  /\ \A i \in DOMAIN tree : tree[i].depth > 0 => Hangs(tree, i - 1, tree[i])
  /\ Root(S) # {} =>
       \A i, j \in DOMAIN tree :
         Margin(tree, j) /\ tree[i].row.parent = tree[j].row.span => Margin(tree, i)

\* What OrderTree joins: the walk and what it did not reach.
WalkedOf(S) == IF Root(S) = {} THEN <<>> ELSE WalkFrom(S, CHOOSE r \in Root(S) : TRUE)
LeftOf(S, out) == {r \in S : \A i \in DOMAIN out : out[i].row # r}
AtMargin(o) == [i \in DOMAIN o |-> [row |-> o[i], depth |-> 0]]

LEMMA OrderTreeIs ==
  ASSUME NEW S PROVE OrderTree(S) = WalkedOf(S) \o AtMargin(ByTime(LeftOf(S, WalkedOf(S))))
BY DEF OrderTree, WalkedOf, LeftOf, AtMargin

LEMMA WalkedTells ==
  ASSUME NEW S, Timed(S)
  PROVE  /\ WalkedOf(S) \in Seq(Nodes(S)) /\ DrawnOnce(WalkedOf(S))
         /\ DrawnAsTree(WalkedOf(S))
         /\ Root(S) = {} => WalkedOf(S) = <<>>
         /\ Root(S) # {} =>
              /\ WalkedOf(S) # <<>> /\ WalkedOf(S)[1].depth = 0
              /\ \A i \in DOMAIN WalkedOf(S), q \in S :
                   q.parent = WalkedOf(S)[i].row.span => Drawn(WalkedOf(S), q.span)
<1> DEFINE out == WalkedOf(S)
<1>1. CASE Root(S) = {}
  <2>1. out = <<>>
    BY <1>1 DEF WalkedOf
  <2>2. \A i \in DOMAIN out : FALSE
    BY <2>1
  <2>3. out \in Seq(Nodes(S))
    BY <2>1
  <2> HIDE DEF out
  <2>4. DrawnOnce(out) /\ DrawnAsTree(out)
    BY <2>2 DEF DrawnOnce, DrawnAsTree
  <2> QED BY <1>1, <2>1, <2>3, <2>4 DEF out
<1>2. CASE Root(S) # {}
  <2>1. PICK r \in Orphans(S) : Root(S) = {r}
    BY <1>2, RootIs
  <2>2. out = WalkFrom(S, r) /\ r \in S
    BY <2>1 DEF WalkedOf, Orphans
  <2>3. WalkedIs(S, r, out)
    BY <2>2, WalkTells
  <2> HIDE DEF out
  <2>4. /\ out \in Seq(Nodes(S)) /\ DrawnOnce(out) /\ DrawnAsTree(out)
        /\ out # <<>> /\ out[1].depth = 0
        /\ \A i \in DOMAIN out, q \in S : q.parent = out[i].row.span => Drawn(out, q.span)
    BY <2>3 DEF WalkedIs, FromRoot
  <2> QED BY <1>2, <2>4 DEF out
<1> QED BY <1>1, <1>2

LEMMA TreeTells == ASSUME NEW S, Timed(S) PROVE TreeIs(S, OrderTree(S))
<1> DEFINE N == Nodes(S)
           out == WalkedOf(S)
           F == LeftOf(S, out)
           o == ByTime(F)
           g == AtMargin(o)
           tree == OrderTree(S)
           m == Len(out)
           k == Len(g)
<1>1. /\ out \in Seq(N) /\ DrawnOnce(out) /\ DrawnAsTree(out)
      /\ Root(S) = {} => out = <<>>
      /\ Root(S) # {} =>
           /\ out # <<>> /\ out[1].depth = 0
           /\ \A i \in DOMAIN out, q \in S : q.parent = out[i].row.span => Drawn(out, q.span)
  BY WalkedTells
<1>2. tree = out \o g
  BY OrderTreeIs
<1>3. F \in SUBSET S /\ \A r \in S : r \in F \/ \E i \in DOMAIN out : out[i].row = r
  BY DEF LeftOf
<1>4. \A r \in F : \A i \in DOMAIN out : out[i].row # r
  BY DEF LeftOf
<1>5. Once(F, o)
  BY <1>3, TimedPart, ByTimeIs
<1>6. g = [i \in DOMAIN o |-> [row |-> o[i], depth |-> 0]]
  BY DEF AtMargin
<1> HIDE DEF N, out, F, o, g, tree, m, k
<1>7. m \in Nat /\ DOMAIN out = 1 .. m /\ \A i \in 1 .. m : out[i] \in N
  BY <1>1 DEF m
<1>8. Len(o) \in Nat /\ DOMAIN o = 1 .. Len(o) /\ \A i \in 1 .. Len(o) : o[i] \in F
  BY <1>5 DEF Once
<1>9. \A i \in 1 .. Len(o) : g[i] = [row |-> o[i], depth |-> 0]
  BY <1>6, <1>8
<1>10. ASSUME NEW i \in 1 .. Len(o)
       PROVE  g[i].row = o[i] /\ g[i].depth = 0 /\ g[i] \in N
  <2>1. g[i] = [row |-> o[i], depth |-> 0] /\ o[i] \in S
    BY <1>3, <1>8, <1>9
  <2> QED BY <2>1 DEF N, Nodes
<1>11. g \in Seq(N) /\ k = Len(o) /\ DOMAIN g = 1 .. k
  <2>1. DOMAIN g = 1 .. Len(o)
    BY <1>6, <1>8
  <2>2. g \in [1 .. Len(o) -> N]
    BY <1>6, <1>8, <1>10, <2>1
  <2> QED BY <1>8, <2>1, <2>2 DEF k
<1>12. /\ tree \in Seq(N) /\ DOMAIN tree = 1 .. m + k
       /\ \A i \in 1 .. m : tree[i] = out[i]
       /\ \A i \in 1 .. k : tree[m + i] = g[i]
       /\ \A i \in 1 .. m + k : i \in 1 .. m \/ (i - m \in 1 .. k /\ m + (i - m) = i)
  <2>1. out \in Seq(N) /\ g \in Seq(N)
    BY <1>1, <1>11
  <2> QED BY <1>2, <2>1, JoinIs DEF m, k
<1>13. Len(tree) = m + k
  BY <1>7, <1>8, <1>11, <1>12
<1>14. \A i \in 1 .. k : m + i \in 1 .. m + k /\ tree[m + i].row = o[i] /\ tree[m + i].depth = 0
                          /\ o[i] \in F
  BY <1>7, <1>8, <1>10, <1>11, <1>12
<1>15. \A i \in 1 .. m : i \in 1 .. m + k
  BY <1>7, <1>8, <1>11
<1>16. ASSUME NEW i \in 1 .. m + k, NEW j \in 1 .. m + k, tree[i].row = tree[j].row PROVE i = j
  <2>1. CASE i \in 1 .. m /\ j \in 1 .. m
    BY <1>1, <1>7, <1>12, <1>16, <2>1 DEF DrawnOnce
  <2>2. CASE i \in 1 .. m /\ j \notin 1 .. m
    <3>1. j - m \in 1 .. k /\ m + (j - m) = j
      BY <1>12, <2>2
    <3>2. tree[j].row = o[j - m] /\ o[j - m] \in F
      BY <1>14, <3>1
    <3> QED BY <1>4, <1>7, <1>12, <1>16, <2>2, <3>2
  <2>3. CASE i \notin 1 .. m /\ j \in 1 .. m
    <3>1. i - m \in 1 .. k /\ m + (i - m) = i
      BY <1>12, <2>3
    <3>2. tree[i].row = o[i - m] /\ o[i - m] \in F
      BY <1>14, <3>1
    <3> QED BY <1>4, <1>7, <1>12, <1>16, <2>3, <3>2
  <2>4. CASE i \notin 1 .. m /\ j \notin 1 .. m
    <3>1. i - m \in 1 .. k /\ m + (i - m) = i /\ j - m \in 1 .. k /\ m + (j - m) = j
      BY <1>12, <2>4
    <3>2. tree[i].row = o[i - m] /\ tree[j].row = o[j - m]
      BY <1>14, <3>1
    <3>3. i - m = j - m
      BY <1>5, <1>8, <1>11, <1>16, <3>1, <3>2 DEF Once
    <3> QED BY <3>1, <3>3
  <2> QED BY <2>1, <2>2, <2>3, <2>4
<1>17. ASSUME NEW r \in S PROVE \E i \in 1 .. m + k : tree[i].row = r
  <2>1. CASE r \in F
    <3>1. PICK i \in 1 .. k : o[i] = r
      BY <1>5, <1>8, <1>11, <2>1 DEF Once
    <3> QED BY <1>14, <3>1
  <2>2. CASE r \notin F
    <3>1. PICK i \in 1 .. m : out[i].row = r
      BY <1>3, <1>7, <2>2
    <3> QED BY <1>12, <1>15, <3>1
  <2> QED BY <2>1, <2>2
<1>18. \A i \in 1 .. m + k : tree[i].row \in S
  <2>1. \A i \in 1 .. m + k : tree[i] \in N
    BY <1>12, <1>13
  <2> QED BY <2>1 DEF N, Nodes
<1>19. m + k = Cardinality(S)
  <2> DEFINE f == [i \in 1 .. m + k |-> tree[i].row]
  <2>1. f \in [1 .. m + k -> S]
    BY <1>18
  <2>2. f \in Injection(1 .. m + k, S)
    BY <1>16, <2>1 DEF Injection, IsInjective
  <2>3. f \in Surjection(1 .. m + k, S)
    BY <1>17, <2>1 DEF Surjection
  <2> HIDE DEF f
  <2>4. ExistsBijection(1 .. m + k, S)
    BY <2>2, <2>3 DEF ExistsBijection, Bijection
  <2>5. m + k \in Nat
    BY <1>7, <1>8, <1>11
  <2> QED BY <2>4, <2>5, FS_CountingElements
<1>20. ASSUME NEW i \in 1 .. m + k, tree[i].depth > 0 PROVE i \in 1 .. m
  <2> SUFFICES ASSUME i \notin 1 .. m PROVE FALSE
    OBVIOUS
  <2>1. i - m \in 1 .. k /\ m + (i - m) = i
    BY <1>12
  <2>2. tree[i].depth = 0
    BY <1>14, <2>1
  <2> QED BY <1>20, <2>2
<1>21. \A i \in 1 .. m : i = 1 \/ Hangs(out, i - 1, out[i])
  BY <1>1, <1>7 DEF DrawnAsTree
<1>22. ASSUME NEW i \in 1 .. m, i # 1
       PROVE  Hangs(tree, i - 1, tree[i]) /\ tree[i].depth > 0
  <2>1. Hangs(out, i - 1, out[i])
    BY <1>21, <1>22
  <2>2. i - 1 \in Nat /\ \A j \in 1 .. i - 1 : j \in 1 .. m
    BY <1>7, <1>22
  <2>3. Hangs(tree, i - 1, out[i])
    BY <1>12, <2>1, <2>2, HangsStill
  <2> QED BY <1>12, <2>3 DEF Hangs
<1>23. ASSUME NEW i \in 1 .. m + k, tree[i].depth > 0 PROVE Hangs(tree, i - 1, tree[i])
  <2>1. i \in 1 .. m
    BY <1>20, <1>23
  <2>2. CASE i # 1
    BY <1>22, <2>1, <2>2
  <2>3. CASE i = 1
    <3>1. out # <<>>
      BY <1>7, <2>1, <2>3
    <3>2. out[1].depth = 0
      BY <1>1, <3>1
    <3> QED BY <1>12, <1>23, <2>1, <2>3, <3>2
  <2> QED BY <2>2, <2>3
<1>24. ASSUME Root(S) # {}, NEW i \in 1 .. m + k, NEW j \in 1 .. m + k,
              Margin(tree, j), tree[i].row.parent = tree[j].row.span
       PROVE  Margin(tree, i)
  <2>1. 1 \in 1 .. m
    BY <1>1, <1>7, <1>24 DEF m
  <2>2. j \in 1 .. m
    BY <1>20, <1>24, <2>1 DEF Margin
  <2>3. PICK l \in 1 .. m : out[l].row.span = tree[i].row.span
    BY <1>1, <1>7, <1>12, <1>18, <1>24, <2>2 DEF Drawn
  <2>4. tree[l].row = tree[i].row
    BY <1>12, <1>15, <1>18, <2>3 DEF Timed
  <2>5. i = l
    BY <1>15, <1>16, <2>4
  <2> QED BY <1>22, <2>5 DEF Margin
<1> QED BY <1>12, <1>13, <1>16, <1>17, <1>19, <1>23, <1>24 DEF TreeIs, DrawnOnce, N, tree

-----------------------------------------------------------------------------
(***************************************************************************)
(* The spans a detail is made from.                                        *)
(***************************************************************************)

Kept(tenant, t, day) == {r \in rows : r.tenant = tenant /\ r.trace = t /\ Day(r.time) = day}

\* A row's numbers, and which of two rows are one.
LEMMA RowNumbers ==
  ASSUME Stored, NEW r \in rows
  PROVE  /\ r.time \in Nat /\ r.duration \in Nat /\ r.span \in SpanIds
         /\ r.version \in Int
<1>1. PICK s \in Spans : <<r.trace, r.span>> = <<s.trace, s.span>> /\ VersionOf(r, s)
  BY DEF Stored, RowsAreVersions
<1>2. Told(r, s)
  BY <1>1, VersionTells
<1>3. r.duration = s.duration
  <2> DEFINE o == ToRow(s, Old)
  <2>1. o.duration = s.duration /\ ToRow(s, Current).duration = s.duration
    BY DEF ToRow
  <2> HIDE DEF o
  <2>2. ASSUME NEW c, NEW e, r = [o EXCEPT !.category = c, !.error = e]
        PROVE  r.duration = o.duration
    BY <2>2
  <2> QED BY <1>1, <2>1, <2>2 DEF VersionOf, o
<1>4. s.start \in Nat /\ s.duration \in Nat
  BY SpansAssumption
<1>5. r.version \in Int
  BY <1>2 DEF Told, Old, Current
<1> QED BY <1>2, <1>3, <1>4, <1>5 DEF Told, SpanIds

LEMMA NewestTimed ==
  ASSUME Stored, NEW M \in SUBSET rows,
         \A r, q \in M : r.tenant = q.tenant /\ r.trace = q.trace
  PROVE  Timed(Newest(M)) /\ Newest(M) \subseteq M
<1>1. Newest(M) \subseteq M
  BY DEF Newest
<1>2. IsFiniteSet(Newest(M))
  <2>1. IsFiniteSet(rows) /\ Newest(M) \subseteq rows
    BY <1>1 DEF Stored
  <2> QED BY <2>1, FS_Subset
<1>3. \A r \in Newest(M) : r.time \in Nat /\ r.duration \in Nat /\ r.span \in SpanIds
  BY <1>1, RowNumbers
<1>4. ASSUME NEW r \in Newest(M), NEW q \in Newest(M), r.span = q.span PROVE r = q
  <2>1. r \in M /\ q \in M /\ r \in rows /\ q \in rows
    BY <1>1
  <2>2. r.tenant = q.tenant /\ r.trace = q.trace
    BY <2>1
  <2>3. q.version <= r.version /\ r.version <= q.version
    BY <1>4, <2>1, <2>2 DEF Newest
  <2>4. r.version = q.version
    BY <2>1, <2>3, RowNumbers
  <2>5. SameVersion(r, q)
    BY <1>4, <2>2, <2>4 DEF SameVersion
  <2> QED BY <2>1, <2>5 DEF Stored, OneOfEach
<1> QED BY <1>1, <1>2, <1>3, <1>4 DEF Timed

LEMMA KeptTimed ==
  ASSUME Stored, NEW tenant, NEW t, NEW day
  PROVE  /\ Timed(Newest(Kept(tenant, t, day)))
         /\ Newest(Kept(tenant, t, day)) \subseteq Kept(tenant, t, day)
<1> DEFINE M == Kept(tenant, t, day)
<1>1. M \in SUBSET rows /\ \A r, q \in M : r.tenant = q.tenant /\ r.trace = q.trace
  BY DEF Kept
<1> HIDE DEF M
<1> QED BY <1>1, NewestTimed DEF M

LEMMA FirstIs ==
  ASSUME NEW F, NEW o \in Seq(F), NEW n \in Nat
  PROVE  /\ First(n, o) \in Seq(F)
         /\ Len(First(n, o)) = IF Len(o) < n THEN Len(o) ELSE n
         /\ \A i \in 1 .. (IF Len(o) < n THEN Len(o) ELSE n) : First(n, o)[i] = o[i]
<1> DEFINE m == IF Len(o) < n THEN Len(o) ELSE n
<1>1. First(n, o) = SubSeq(o, 1, m)
  BY DEF First
<1>2. m \in Nat /\ m <= Len(o)
  OBVIOUS
<1> HIDE DEF m
<1>3. SubSeq(o, 1, m) \in Seq(F) /\ Len(SubSeq(o, 1, m)) = m
  BY <1>2
<1>4. \A i \in 1 .. m : SubSeq(o, 1, m)[i] = o[i]
  BY <1>2
<1> QED BY <1>1, <1>3, <1>4 DEF m

\* The first spans in the order of time, each once, all of them below the cap.
DetailIs(F, spans) ==
  /\ spans \in Seq(F) /\ Timed(ToSet(spans)) /\ ToSet(spans) \subseteq F
  /\ Len(spans) = Cardinality(ToSet(spans))
  /\ Rising(spans)
  /\ F # {} => Len(spans) > 0
  /\ Len(spans) < TraceSpanCap => ToSet(spans) = F

LEMMA DetailTells ==
  ASSUME Stored, NEW tenant, NEW t, NEW day
  PROVE  DetailIs(Newest(Kept(tenant, t, day)), DetailSpans(tenant, t, day))
<1> DEFINE F == Newest(Kept(tenant, t, day))
           o == ByTime(F)
           spans == DetailSpans(tenant, t, day)
           S == ToSet(spans)
           cap == TraceSpanCap
           m == IF Len(o) < cap THEN Len(o) ELSE cap
<1>1. spans = First(cap, o)
  BY DEF DetailSpans, Kept
<1>2. Timed(F) /\ cap \in Nat \ {0}
  BY KeptTimed, CapAssumption
<1> HIDE DEF F, cap
<1>3. Once(F, o) /\ Rising(o)
  BY <1>2, ByTimeIs
<1> HIDE DEF o, spans
<1>4. o \in Seq(F) /\ Len(o) = Cardinality(F)
  BY <1>3 DEF Once
<1>5. Len(o) \in Nat /\ m \in Nat /\ m <= Len(o)
  BY <1>2, <1>4
<1>6. spans \in Seq(F) /\ Len(spans) = m /\ \A i \in 1 .. m : spans[i] = o[i]
  BY <1>1, <1>2, <1>4, FirstIs
<1> HIDE DEF m
<1>7. DOMAIN spans = 1 .. m /\ DOMAIN o = 1 .. Len(o) /\ \A i \in 1 .. m : i \in 1 .. Len(o)
  BY <1>4, <1>5, <1>6
<1>8. S = {spans[i] : i \in 1 .. m}
  BY <1>7 DEF ToSet
<1>9. \A i \in 1 .. m : spans[i] \in F
  BY <1>6, <1>7
<1>10. S \subseteq F
  BY <1>8, <1>9
<1>11. Timed(S)
  BY <1>2, <1>10, TimedPart
<1>12. \A i, j \in 1 .. m : spans[i] = spans[j] => i = j
  BY <1>3, <1>6, <1>7 DEF Once
<1>13. m = Cardinality(S)
  <2> DEFINE f == [i \in 1 .. m |-> spans[i]]
  <2>1. f \in [1 .. m -> S]
    BY <1>8
  <2>2. f \in Injection(1 .. m, S)
    BY <1>12, <2>1 DEF Injection, IsInjective
  <2>3. f \in Surjection(1 .. m, S)
    BY <1>8, <2>1 DEF Surjection
  <2> HIDE DEF f, S
  <2>4. ExistsBijection(1 .. m, S)
    BY <2>2, <2>3 DEF ExistsBijection, Bijection
  <2> QED BY <1>5, <2>4, FS_CountingElements
<1>14. Rising(spans)
  BY <1>3, <1>6, <1>7 DEF Rising
<1>15. F # {} => m > 0
  <2> SUFFICES ASSUME F # {} PROVE m > 0
    OBVIOUS
  <2>1. \E i \in 1 .. Len(o) : TRUE
    BY <1>3, <1>7 DEF Once
  <2> QED BY <1>2, <1>5, <2>1 DEF m
<1>16. m < cap => S = F
  <2> SUFFICES ASSUME m < cap, NEW r \in F PROVE r \in S
    BY <1>10
  <2>1. m = Len(o)
    BY <1>2, <1>5 DEF m
  <2>2. PICK i \in 1 .. m : o[i] = r
    BY <1>3, <1>7, <2>1 DEF Once
  <2> QED BY <1>6, <1>8, <2>2
<1> HIDE DEF S
<1> QED BY <1>6, <1>10, <1>11, <1>13, <1>14, <1>15, <1>16 DEF DetailIs, S, F, spans, cap

\* So what is drawn is a tree.
LEMMA TreesAre == ASSUME Stored PROVE WaterfallIsATree
<1> SUFFICES ASSUME NEW tenant \in Tenants, NEW t \in TraceIds, NEW day \in Located(tenant, t)
             PROVE  LET spans == DetailSpans(tenant, t, day)
                        tree  == OrderTree(ToSet(spans))
                        drawn(i) == i = 1 \/ tree[i].depth > 0
                    IN  /\ {tree[i].row : i \in DOMAIN tree} = ToSet(spans)
                        /\ Len(tree) = Len(spans)
                        /\ \A i \in DOMAIN tree : tree[i].depth > 0 =>
                             \E j \in 1 .. i - 1 :
                               /\ tree[j].row.span = tree[i].row.parent
                               /\ tree[j].depth = tree[i].depth - 1
                               /\ \A k \in j + 1 .. i - 1 :
                                    /\ tree[k].depth >= tree[i].depth
                                    /\ tree[k].depth = tree[i].depth =>
                                         tree[k].row.time <= tree[i].row.time
                        /\ Root(ToSet(spans)) # {} =>
                             \A i, j \in DOMAIN tree :
                               drawn(j) /\ tree[i].row.parent = tree[j].row.span => drawn(i)
  BY DEF WaterfallIsATree
<1> DEFINE spans == DetailSpans(tenant, t, day)
           S == ToSet(spans)
           tree == OrderTree(S)
<1>1. Timed(S) /\ Len(spans) = Cardinality(S)
  BY DetailTells DEF DetailIs
<1>2. TreeIs(S, tree)
  BY <1>1, TreeTells
<1> HIDE DEF spans, S, tree
<1>3. Len(tree) = Len(spans)
  BY <1>1, <1>2 DEF TreeIs
<1>4. {tree[i].row : i \in DOMAIN tree} = S
  <2> DEFINE N == Nodes(S)
  <2>1. tree \in Seq(N)
    BY <1>2 DEF TreeIs
  <2> HIDE DEF N
  <2>2. \A i \in DOMAIN tree : tree[i] \in N
    BY <2>1
  <2>3. \A i \in DOMAIN tree : tree[i].row \in S
    BY <2>2 DEF N, Nodes
  <2> QED BY <1>2, <2>3 DEF TreeIs
<1>5. ASSUME NEW i \in DOMAIN tree, tree[i].depth > 0
      PROVE  \E j \in 1 .. i - 1 :
               /\ tree[j].row.span = tree[i].row.parent
               /\ tree[j].depth = tree[i].depth - 1
               /\ \A k \in j + 1 .. i - 1 :
                    /\ tree[k].depth >= tree[i].depth
                    /\ tree[k].depth = tree[i].depth => tree[k].row.time <= tree[i].row.time
  <2>1. Hangs(tree, i - 1, tree[i])
    BY <1>2, <1>5 DEF TreeIs
  <2> QED BY <2>1 DEF Hangs
<1>6. Root(S) # {} =>
        \A i, j \in DOMAIN tree :
          (j = 1 \/ tree[j].depth > 0) /\ tree[i].row.parent = tree[j].row.span =>
            (i = 1 \/ tree[i].depth > 0)
  BY <1>2 DEF TreeIs, Margin
<1> QED BY <1>3, <1>4, <1>5, <1>6 DEF tree, S, spans

(* WaterfallDrawn: the waterfall shows every span exactly once, also under a cycle  *)
(* of parents; a row hangs from its parent, among its siblings by time; and only    *)
(* what the root does not reach is drawn at the margin.                             *)
THEOREM WaterfallDrawn == Spec => []WaterfallIsATree
BY PagingInvariant, TreesAre, PTL

-----------------------------------------------------------------------------
(***************************************************************************)
(* What the detail of a trace says, and the list says of it.               *)
(***************************************************************************)

\* A finite set of times has a latest one: the one that fewest are later than.
LEMMA GreatestOf ==
  ASSUME NEW T \in SUBSET Nat, IsFiniteSet(T), T # {}
  PROVE  Max(T) \in T /\ \A x \in T : x <= Max(T)
<1> DEFINE later(m) == {x \in T : x > m}
           sizes == {Cardinality(later(m)) : m \in T}
<1>1. \A m \in T : IsFiniteSet(later(m)) /\ Cardinality(later(m)) \in Nat
  BY FS_Subset, FS_CardinalityType
<1>2. PICK n \in sizes : \A k \in sizes : n <= k
  <2>1. sizes \in SUBSET Nat /\ sizes # {}
    BY <1>1
  <2> HIDE DEF sizes
  <2> QED BY <2>1, LeastExists
<1>3. PICK m \in T : n = Cardinality(later(m))
  BY <1>2
<1>4. ASSUME NEW x \in T PROVE x <= m
  <2> SUFFICES ASSUME x > m PROVE FALSE
    OBVIOUS
  <2>1. Cardinality(later(x)) \in sizes
    OBVIOUS
  <2> HIDE DEF sizes
  <2>2. x \in Nat /\ m \in Nat /\ \A y \in T : y \in Nat
    OBVIOUS
  <2>3. \A y \in T : y > x => y > m
    BY <2>2
  <2>4. later(x) \subseteq later(m) /\ x \in later(m) /\ x \notin later(x)
    <3>1. later(x) \subseteq later(m)
      BY <2>3
    <3>2. x \in later(m)
      OBVIOUS
    <3>3. x \notin later(x)
      BY <2>2
    <3> QED BY <3>1, <3>2, <3>3
  <2> HIDE DEF later
  <2>5. Cardinality(later(x)) < Cardinality(later(m))
    BY <1>1, <2>4, FS_Subset
  <2> QED BY <1>1, <1>2, <1>3, <2>1, <2>5
<1>5. \A x \in T : m >= x
  BY <1>4
<1>6. Max(T) \in T /\ \A y \in T : Max(T) >= y
  BY <1>5 DEF Max
<1> QED BY <1>6

\* A number of each of finitely many spans.
LEMMA ImageFinite ==
  ASSUME NEW S, IsFiniteSet(S), S # {}, NEW f, \A r \in S : f[r] \in Nat
  PROVE  /\ IsFiniteSet({f[r] : r \in S}) /\ {f[r] : r \in S} \in SUBSET Nat
         /\ {f[r] : r \in S} # {}
<1> DEFINE g == [r \in S |-> f[r]]
           T == {f[r] : r \in S}
<1>1. g \in Surjection(S, T)
  BY DEF Surjection
<1>2. T \in SUBSET Nat /\ T # {}
  OBVIOUS
<1> HIDE DEF g, T
<1>3. IsFiniteSet(T)
  BY <1>1, FS_Surjection
<1> QED BY <1>2, <1>3 DEF T

\* The instants and the lengths of some spans: the first and the last one, the longest
\* and the last end.
Instants(S) == {r.time : r \in S}
Lengths(S) == {r.duration : r \in S}
Stops(S) == {r.time + r.duration : r \in S}

LEMMA ExtremesAre ==
  ASSUME NEW S, Timed(S), S # {}
  PROVE  /\ Min(Instants(S)) \in Instants(S) /\ \A x \in Instants(S) : Min(Instants(S)) <= x
         /\ Max(Instants(S)) \in Instants(S) /\ \A x \in Instants(S) : x <= Max(Instants(S))
         /\ Max(Lengths(S)) \in Lengths(S) /\ \A x \in Lengths(S) : x <= Max(Lengths(S))
         /\ Max(Stops(S)) \in Stops(S) /\ \A x \in Stops(S) : x <= Max(Stops(S))
         /\ Instants(S) \in SUBSET Nat /\ Lengths(S) \in SUBSET Nat /\ Stops(S) \in SUBSET Nat
<1> DEFINE a == [r \in S |-> r.time]
           b == [r \in S |-> r.duration]
           c == [r \in S |-> r.time + r.duration]
<1>1. \A r \in S : a[r] \in Nat /\ b[r] \in Nat /\ c[r] \in Nat
  BY DEF Timed
<1>2. /\ Instants(S) = {a[r] : r \in S}
      /\ Lengths(S) = {b[r] : r \in S}
      /\ Stops(S) = {c[r] : r \in S}
  BY DEF Instants, Lengths, Stops
<1>3. IsFiniteSet(S)
  BY DEF Timed
<1> HIDE DEF a, b, c
<1>4. IsFiniteSet(Instants(S)) /\ Instants(S) \in SUBSET Nat /\ Instants(S) # {}
  BY <1>1, <1>2, <1>3, ImageFinite
<1>5. IsFiniteSet(Lengths(S)) /\ Lengths(S) \in SUBSET Nat /\ Lengths(S) # {}
  BY <1>1, <1>2, <1>3, ImageFinite
<1>6. IsFiniteSet(Stops(S)) /\ Stops(S) \in SUBSET Nat /\ Stops(S) # {}
  BY <1>1, <1>2, <1>3, ImageFinite
<1> QED BY <1>4, <1>5, <1>6, GreatestOf, LeastOf

\* The spans a list has of a trace are those of its detail, if they are of one day.
LEMMA SameSpans ==
  ASSUME Stored, NEW tenant, NEW t, NEW day, \A r \in Held(tenant, t) : Day(r.time) = day
  PROVE  SpansOf(tenant, AllTime, t) = Newest(Kept(tenant, t, day))
<1> DEFINE A == Scoped(tenant, AllTime)
           M == Kept(tenant, t, day)
<1>1. M = {r \in rows : r.tenant = tenant /\ r.trace = t}
  BY DEF Kept, Held
<1>2. A = {r \in rows : r.tenant = tenant}
  BY RowNumbers DEF Scoped, AllTime
<1>3. \A r : r \in M <=> r \in A /\ r.trace = t
  BY <1>1, <1>2
<1> HIDE DEF A, M
<1>4. SpansOf(tenant, AllTime, t) = {u \in Newest(A) : u.trace = t}
  BY DEF SpansOf, LatestSpans, A
<1>5. ASSUME NEW r \in M PROVE r \in Newest(A) <=> r \in Newest(M)
  BY <1>3 DEF Newest
<1>6. Newest(M) \subseteq M /\ Newest(A) \subseteq A
  BY DEF Newest
<1> QED BY <1>3, <1>4, <1>5, <1>6 DEF M

Notable(r) == r.category \notin {"", "ok"}

Failing(S) == {r \in S : r.error}

\* What the row of a trace says of its spans, whatever was picked for it.
RowTold(row, S) ==
  /\ row.start = Min(Instants(S)) /\ row.newest = Max(Instants(S))
  /\ row.duration = Max(Instants(S)) + Max(Lengths(S)) - Min(Instants(S))
  /\ row.spans = Cardinality(S) /\ row.errors = Cardinality(Failing(S))
  /\ row.root <=> \E r \in S : r.parent = ""
  /\ \E r \in S : r.category = row.category
  /\ (\E r \in S : Notable(r)) => row.category \notin {"", "ok"}

LEMMA WorstIsNotable ==
  ASSUME Stored, NEW S \in SUBSET rows, NEW c \in WorstCategories(S)
  PROVE  /\ \E r \in S : r.category = c
         /\ (\E r \in S : Notable(r)) => c \notin {"", "ok"}
<1>1. PICK q \in S : c = q.category /\ \A p \in S : Severity(p) <= Severity(q)
  BY DEF WorstCategories
<1>2. q.error = IsError(q.category)
  BY ErrorIsCategory
<1>3. q.error => c \notin {"", "ok"}
  BY <1>1, <1>2 DEF IsError, NotAFailure
<1>4. ASSUME NEW r \in S, Notable(r), ~ q.error PROVE c \notin {"", "ok"}
  <2>1. Severity(r) \in {2, 3}
    BY <1>4, SeverityIs DEF Notable
  <2>2. c \in {"", "ok"} => Severity(q) \in {0, 1}
    BY <1>1, <1>4, SeverityIs
  <2>3. Severity(r) <= Severity(q)
    BY <1>1
  <2>4. ~ (Severity(q) \in {0, 1})
    <3> DEFINE a == Severity(r)
               b == Severity(q)
    <3> HIDE DEF a, b
    <3>1. a \in {2, 3} /\ a <= b => b \notin {0, 1}
      OBVIOUS
    <3> QED BY <2>1, <2>3, <3>1 DEF a, b
  <2> QED BY <2>2, <2>4
<1> QED BY <1>1, <1>3, <1>4

LEMMA RowTells ==
  ASSUME Stored, NEW tenant, NEW t, NEW row \in RowsOf(tenant, t)
  PROVE  RowTold(row, SpansOf(tenant, AllTime, t))
<1>1. row \in TraceRows(tenant, AllTime) /\ row.trace = t
  BY DEF RowsOf
<1>2. PICK u \in Listed(tenant, AllTime) : row \in SummariesOf(SpansOf(tenant, AllTime, u))
  BY <1>1 DEF TraceRows, Listed, SpansOf
<1> DEFINE S == SpansOf(tenant, AllTime, u)
<1>3. S \subseteq rows /\ S # {} /\ \A r \in S : r.trace = u
  <2>1. \A r \in S : r.trace = u
    BY DEF SpansOf
  <2> QED BY <2>1, SpansAre
<1>4. row.trace = (CHOOSE r \in S : TRUE).trace
  BY <1>2, SummariesTell
<1>5. u = t
  <2>1. (CHOOSE r \in S : TRUE) \in S
    BY <1>3
  <2> QED BY <1>1, <1>3, <1>4, <2>1
<1> HIDE DEF S
<1>6. PICK picked : row = Summary(S, picked) /\ picked.category \in WorstCategories(S)
  BY <1>2 DEF SummariesOf, S
<1>7. /\ row.start = Min({r.time : r \in S}) /\ row.newest = Max({r.time : r \in S})
      /\ row.duration = Max({r.time : r \in S}) + Max({r.duration : r \in S})
                          - Min({r.time : r \in S})
      /\ row.spans = Cardinality(S) /\ row.category = picked.category
  BY <1>6 DEF Summary
<1>8. row.errors = Cardinality(Failing(S))
  BY <1>6 DEF Summary, Failing
<1>9. row.root <=> \E r \in S : r.parent = ""
  BY <1>6 DEF Summary
<1>10. /\ \E r \in S : r.category = row.category
       /\ (\E r \in S : Notable(r)) => row.category \notin {"", "ok"}
  BY <1>3, <1>6, <1>7, WorstIsNotable
<1>11. RowTold(row, S)
  BY <1>7, <1>8, <1>9, <1>10 DEF RowTold, Instants, Lengths
<1> QED BY <1>5, <1>11 DEF S

\* What the detail says of the spans it has.
DetailTold(d, S) ==
  /\ d.tree = OrderTree(S) /\ d.start = Min(Instants(S))
  /\ d.duration = Max(Stops(S)) - Min(Instants(S))
  /\ d.spans = Cardinality(S)
  /\ d.errors = Cardinality({r \in S : r.category \notin {"", "ok", "pending_input"}})
  /\ d.category = "ok" <=> ~ \E r \in S : Notable(r)
  /\ d.complete => \/ Root(S) = {} \/ \E r \in Root(S) : r.parent = ""
                   \/ now - Max(Instants(S)) >= TraceSettle
  /\ d.detail = DetailMap(OrderTree(S), S, d.start, d.duration)
  /\ d.omitted <=> Len(OrderTree(S)) > TraceDetailCap

\* The first category in the tree that is notable, if any is.
FirstNotable(tree) ==
  FirstOr(tree, LAMBDA n : n.row.category \notin {"", "ok"},
          [row |-> [category |-> "ok"]]).row.category

LEMMA FirstNotableIs ==
  ASSUME NEW N, NEW tree \in Seq(N)
  PROVE  FirstNotable(tree) = "ok" <=> ~ \E i \in DOMAIN tree : Notable(tree[i].row)
<1> DEFINE Test(n) == n.row.category \notin {"", "ok"}
           Firsts == {i \in DOMAIN tree : Test(tree[i])}
           one == CHOOSE i \in DOMAIN tree :
                    Test(tree[i]) /\ \A j \in 1 .. i - 1 : ~ Test(tree[j])
           none == [row |-> [category |-> "ok"]]
<1>1. FirstNotable(tree) =
        (IF \E i \in DOMAIN tree : Test(tree[i]) THEN tree[one] ELSE none).row.category
  BY DEF FirstNotable, FirstOr
<1>2. CASE \E i \in DOMAIN tree : Test(tree[i])
  <2> DEFINE n == Len(tree)
  <2>1. n \in Nat /\ DOMAIN tree = 1 .. n
    OBVIOUS
  <2> HIDE DEF n, Test
  <2>2. Firsts \in SUBSET Nat /\ Firsts # {}
    BY <1>2, <2>1
  <2>3. PICK i \in Firsts : \A j \in Firsts : i <= j
    <3> HIDE DEF Firsts
    <3> QED BY <2>2, LeastExists
  <2>4. \A j \in 1 .. i - 1 : j \in DOMAIN tree /\ ~ (i <= j)
    BY <2>1
  <2>5. \A j \in 1 .. i - 1 : ~ Test(tree[j])
    BY <2>3, <2>4
  <2>6. Test(tree[one])
    BY <2>3, <2>5
  <2> HIDE DEF one
  <2> QED BY <1>1, <1>2, <2>6 DEF Test, Notable
<1>3. CASE ~ \E i \in DOMAIN tree : Test(tree[i])
  BY <1>1, <1>3 DEF Notable
<1> QED BY <1>2, <1>3

\* The rows of the tree are the spans.
LEMMA TreeRows ==
  ASSUME NEW S, Timed(S)
  PROVE  /\ OrderTree(S) \in Seq(Nodes(S))
         /\ \A i \in DOMAIN OrderTree(S) :
              OrderTree(S)[i].row \in S /\ OrderTree(S)[i].depth \in Nat
         /\ \A r \in S : \E i \in DOMAIN OrderTree(S) : OrderTree(S)[i].row = r
         /\ Len(OrderTree(S)) = Cardinality(S)
<1> DEFINE tree == OrderTree(S)
           N == Nodes(S)
<1>1. TreeIs(S, tree)
  BY TreeTells
<1> HIDE DEF tree
<1>2. /\ tree \in Seq(N) /\ Len(tree) = Cardinality(S)
      /\ \A r \in S : \E i \in DOMAIN tree : tree[i].row = r
  BY <1>1 DEF TreeIs
<1> HIDE DEF N
<1>3. \A i \in DOMAIN tree : tree[i] \in N
  BY <1>2
<1>4. \A i \in DOMAIN tree : tree[i].row \in S /\ tree[i].depth \in Nat
  BY <1>3 DEF N, Nodes
<1> QED BY <1>2, <1>4 DEF tree, N

LEMMA DetailSays ==
  ASSUME NEW spans, NEW F, DetailIs(F, spans), spans # <<>>
  PROVE  DetailTold(TraceDetail(spans), ToSet(spans))
<1> DEFINE S == ToSet(spans)
           tree == OrderTree(S)
           start == spans[1].time
           total == Max({r.time + r.duration : r \in S}) - start
           out == Root(S) = {} \/ \E r \in Root(S) : r.parent = ""
           d == TraceDetail(spans)
<1>1. spans \in Seq(F) /\ Timed(S) /\ Rising(spans)
  BY DEF DetailIs
<1>2. Len(spans) \in Nat \ {0} /\ DOMAIN spans = 1 .. Len(spans)
  BY <1>1
<1>3. 1 \in DOMAIN spans /\ \A i \in DOMAIN spans : 1 < i \/ i = 1
  BY <1>2
<1>4. S = {spans[i] : i \in DOMAIN spans}
  BY DEF ToSet
<1>5. spans[1] \in S /\ S # {}
  BY <1>3, <1>4
<1>6. /\ d.start = start /\ d.duration = total /\ d.spans = Len(tree)
      /\ d.errors = Cardinality({r \in S : r.category \notin {"", "ok", "pending_input"}})
      /\ d.tree = tree /\ d.detail = DetailMap(tree, S, start, total)
  BY DEF TraceDetail
<1>7. d.omitted <=> Len(tree) > TraceDetailCap
  BY DEF TraceDetail
<1>8. d.complete <=> out \/ now - Max({r.time : r \in S}) >= TraceSettle
  BY DEF TraceDetail
<1>9. d.category = FirstNotable(tree)
  BY DEF TraceDetail, FirstNotable
<1> HIDE DEF S, d
<1>10. start = Min(Instants(S))
  <2> DEFINE m == Min(Instants(S))
  <2>1. m \in Instants(S) /\ \A x \in Instants(S) : m <= x
    BY <1>1, <1>5, ExtremesAre
  <2>2. Instants(S) \in SUBSET Nat
    BY <1>1, <1>5, ExtremesAre
  <2>3. start \in Instants(S)
    BY <1>5 DEF Instants
  <2>4. \A i \in DOMAIN spans : start <= spans[i].time
    <3> TAKE i \in DOMAIN spans
    <3>1. CASE i = 1
      BY <2>2, <2>3, <3>1
    <3>2. CASE 1 < i
      BY <1>1, <1>3, <3>2 DEF Rising
    <3> QED BY <1>3, <3>1, <3>2
  <2>5. PICK i \in DOMAIN spans : m = spans[i].time
    BY <1>4, <2>1 DEF Instants
  <2>6. start <= m /\ m <= start
    BY <2>1, <2>3, <2>4, <2>5
  <2> HIDE DEF m, start
  <2> QED BY <2>1, <2>2, <2>3, <2>6 DEF m
<1>11. total = Max(Stops(S)) - Min(Instants(S))
  BY <1>10 DEF Stops
<1>12. Len(tree) = Cardinality(S)
  BY <1>1, TreeRows
<1>13. d.category = "ok" <=> ~ \E r \in S : Notable(r)
  <2>1. tree \in Seq(Nodes(S))
    BY <1>1, TreeRows
  <2>2. d.category = "ok" <=> ~ \E i \in DOMAIN tree : Notable(tree[i].row)
    BY <1>9, <2>1, FirstNotableIs
  <2>3. /\ \A i \in DOMAIN tree : tree[i].row \in S
        /\ \A r \in S : \E i \in DOMAIN tree : tree[i].row = r
    BY <1>1, TreeRows
  <2> HIDE DEF tree
  <2> QED BY <2>2, <2>3
<1>14. d.complete => \/ Root(S) = {} \/ \E r \in Root(S) : r.parent = ""
                     \/ now - Max(Instants(S)) >= TraceSettle
  BY <1>8 DEF Instants
<1>15. d.detail = DetailMap(tree, S, d.start, d.duration)
  BY <1>6
<1> HIDE DEF start, total
<1> QED BY <1>6, <1>7, <1>10, <1>11, <1>12, <1>13, <1>14, <1>15 DEF DetailTold, S, d

\* So the list and the detail agree.
LEMMA PagesAgree == ASSUME Stored PROVE ListAndDetailAgree
<1> SUFFICES ASSUME NEW tenant \in Tenants, NEW t \in TraceIds, NEW day \in Located(tenant, t),
                    \A r \in Held(tenant, t) : Day(r.time) = day,
                    Len(DetailSpans(tenant, t, day)) < TraceSpanCap,
                    NEW d \in {TraceDetail(DetailSpans(tenant, t, day))},
                    NEW row \in RowsOf(tenant, t)
             PROVE  /\ row.start = d.start
                    /\ row.spans = d.spans
                    /\ row.duration >= d.duration
                    /\ row.errors <= d.errors
                    /\ row.category \notin NotAFailureSql => d.errors > 0
                    /\ row.category \in {"", "ok"} <=> d.category = "ok"
                    /\ d.complete /\ Root(ToSet(DetailSpans(tenant, t, day))) # {} =>
                         ListComplete(row)
  BY DEF ListAndDetailAgree
<1> DEFINE spans == DetailSpans(tenant, t, day)
           S == ToSet(spans)
           F == Newest(Kept(tenant, t, day))
<1>1. DetailIs(F, spans)
  BY DetailTells
<1>2. spans # <<>>
  BY LocatedIsShown
<1>3. DetailTold(d, S)
  BY <1>1, <1>2, DetailSays
<1>4. S = F /\ Timed(S)
  BY <1>1 DEF DetailIs
<1>5. RowTold(row, S)
  BY <1>4, RowTells, SameSpans
<1>6. F \subseteq rows
  BY DEF Newest, Kept, Held
<1>7. S # {}
  <2> HIDE DEF F, spans
  <2>1. 1 \in DOMAIN spans
    BY <1>1, <1>2 DEF DetailIs
  <2> QED BY <2>1 DEF ToSet
<1> HIDE DEF spans, S, F
<1>8. row.start = d.start /\ row.spans = d.spans
  BY <1>3, <1>5 DEF RowTold, DetailTold
<1>9. row.duration >= d.duration
  <2> DEFINE a == Min(Instants(S))
             b == Max(Instants(S))
             l == Max(Lengths(S))
             e == Max(Stops(S))
  <2>1. /\ a \in Nat /\ b \in Nat /\ l \in Nat /\ e \in Nat
        /\ \A r \in S : r.time \in Nat /\ r.duration \in Nat
    BY <1>4, <1>7, ExtremesAre DEF Timed
  <2>2. PICK r \in S : e = r.time + r.duration
    BY <1>4, <1>7, ExtremesAre DEF Stops
  <2>3. r.time <= b /\ r.duration <= l
    BY <1>4, <1>7, ExtremesAre DEF Instants, Lengths
  <2>4. row.duration = b + l - a /\ d.duration = e - a
    BY <1>3, <1>5 DEF RowTold, DetailTold
  <2> HIDE DEF a, b, l, e
  <2> QED BY <2>1, <2>2, <2>3, <2>4
<1>10. row.errors <= d.errors
  <2> DEFINE failed == Failing(S)
             counted == {r \in S : r.category \notin {"", "ok", "pending_input"}}
  <2>1. failed \subseteq counted
    BY <1>4, <1>6, ErrorIsCategory DEF IsError, NotAFailure, Failing
  <2>2. IsFiniteSet(counted)
    BY <1>4, FS_Subset DEF Timed
  <2> HIDE DEF failed, counted
  <2>3. Cardinality(failed) <= Cardinality(counted)
    BY <2>1, <2>2, FS_Subset
  <2>4. row.errors = Cardinality(failed) /\ d.errors = Cardinality(counted)
    BY <1>3, <1>5 DEF RowTold, DetailTold, failed, counted
  <2> QED BY <2>3, <2>4
<1>11. row.category \notin NotAFailureSql => d.errors > 0
  <2> SUFFICES ASSUME row.category \notin NotAFailureSql PROVE d.errors > 0
    OBVIOUS
  <2> DEFINE failed == {r \in S : r.category \notin {"", "ok", "pending_input"}}
  <2>1. PICK r \in S : r.category = row.category
    BY <1>5 DEF RowTold
  <2>2. r \in failed
    BY <2>1 DEF NotAFailureSql
  <2>3. IsFiniteSet(failed)
    BY <1>4, FS_Subset DEF Timed
  <2> HIDE DEF failed
  <2>4. Cardinality(failed) \in Nat /\ Cardinality(failed) # 0
    BY <2>2, <2>3, FS_CardinalityType, FS_EmptySet
  <2>5. d.errors = Cardinality(failed)
    BY <1>3 DEF DetailTold, failed
  <2> QED BY <2>4, <2>5
<1>12. row.category \in {"", "ok"} <=> d.category = "ok"
  BY <1>3, <1>5 DEF RowTold, DetailTold, Notable
<1>13. d.complete /\ Root(S) # {} => ListComplete(row)
  <2> SUFFICES ASSUME d.complete, Root(S) # {} PROVE ListComplete(row)
    OBVIOUS
  <2>1. PICK r \in Orphans(S) : Root(S) = {r}
    BY <1>4, RootIs
  <2>2. r \in S
    BY DEF Orphans
  <2>3. r.parent = "" \/ now - Max(Instants(S)) >= TraceSettle
    BY <1>3, <2>1 DEF DetailTold
  <2> QED BY <1>5, <2>2, <2>3 DEF RowTold, ListComplete
<1> QED BY <1>8, <1>9, <1>11, <1>12, <1>13, <1>10 DEF S, spans

-----------------------------------------------------------------------------
(***************************************************************************)
(* A span that is drawn opens as it was drawn.                             *)
(***************************************************************************)

\* On the one day of its trace a span is found as it was read for the waterfall.
LEMMA OpensAlone ==
  ASSUME Stored, NEW tenant, NEW t, NEW day, Located(tenant, t) = {day},
         NEW r \in Newest(Kept(tenant, t, day))
  PROVE  OpenSpan(tenant, t, r.span) = {SpanDetail(r, 0, 0, 0)}
<1> DEFINE M == Kept(tenant, t, day)
           A == {q \in rows : q.tenant = tenant /\ q.trace = t /\ q.span = r.span
                                /\ Day(q.time) = day}
<1>1. OpenSpan(tenant, t, r.span) = {SpanDetail(q, 0, 0, 0) : q \in Newest(A)}
  <2>1. UNION {Newest({q \in rows : q.tenant = tenant /\ q.trace = t /\ q.span = r.span
                                      /\ Day(q.time) = d}) : d \in Located(tenant, t)}
          = Newest(A)
    OBVIOUS
  <2> QED BY <2>1 DEF OpenSpan
<1>2. A = {q \in M : q.span = r.span}
  BY DEF Kept
<1>3. Timed(Newest(M)) /\ Newest(M) \subseteq M
  BY KeptTimed
<1> HIDE DEF A, M
<1>4. r \in M /\ r \in A
  BY <1>2, <1>3 DEF M
<1>5. \A q \in M : q.trace = r.trace
  BY <1>4 DEF M, Kept
<1>6. r \in Newest(A)
  BY <1>2, <1>4 DEF Newest, M
<1>7. ASSUME NEW q \in Newest(A) PROVE q = r
  <2>1. q \in A /\ q \in M /\ q.span = r.span
    BY <1>2, <1>7 DEF Newest
  <2>2. r.version <= q.version /\ q.trace = r.trace
    BY <1>4, <1>5, <1>7, <2>1 DEF Newest
  <2>3. \A p \in M : p.trace = r.trace /\ p.span = r.span => p.version <= r.version
    BY DEF Newest, M
  <2>4. \A p \in M : p.trace = q.trace /\ p.span = q.span => p.version <= q.version
    <3>1. M \subseteq rows
      BY DEF M, Kept
    <3>2. \A p \in M : p.version \in Int
      BY <3>1, RowNumbers
    <3> QED BY <1>4, <2>1, <2>2, <2>3, <3>2
  <2>5. q \in Newest(M)
    BY <2>1, <2>4 DEF Newest
  <2> QED BY <1>3, <2>1, <2>5 DEF Timed, M
<1>8. Newest(A) = {r}
  BY <1>6, <1>7
<1> QED BY <1>1, <1>8

\* Whole numbers: a sum of lengths is one, and a share of a whole is at most all of it.
LEMMA SumIsNat ==
  ASSUME NEW X, IsFiniteSet(X), NEW f, DOMAIN f = X, \A x \in X : f[x] \in Nat
  PROVE  SumFunction(f) \in Nat
<1> DEFINE P == [x \in X |-> {x} \X (1 .. f[x])]
<1>1. ASSUME NEW x \in X
      PROVE  IsFiniteSet(P[x]) /\ Cardinality(P[x]) = f[x]
  <2> DEFINE n == f[x]
             I == 1 .. n
             g == [i \in I |-> <<x, i>>]
  <2>1. n \in Nat
    OBVIOUS
  <2>2. P[x] = {x} \X I
    OBVIOUS
  <2> HIDE DEF P, n
  <2>3. g \in [I -> P[x]]
    BY <2>2
  <2>4. g \in Injection(I, P[x]) /\ g \in Surjection(I, P[x])
    BY <2>2, <2>3 DEF Injection, IsInjective, Surjection
  <2> HIDE DEF g
  <2>5. ExistsBijection(I, P[x])
    BY <2>4 DEF ExistsBijection, Bijection
  <2>6. IsFiniteSet(I) /\ Cardinality(I) = n
    BY <2>1, FS_Interval
  <2> HIDE DEF I
  <2> QED BY <2>5, <2>6, FS_Bijection DEF n
<1>2. \A x, y \in X : x # y => P[x] \cap P[y] = {}
  OBVIOUS
<1> HIDE DEF P
<1>3. Partition(P, X)
  BY <1>1, <1>2 DEF Partition
<1>4. SumFunctionOnSet(f, X) = Cardinality(PartsOf(P, X))
  BY <1>1, <1>3, SumOfParts
<1>5. Cardinality(PartsOf(P, X)) \in Nat
  BY <1>3, PartsFinite
<1> QED BY <1>4, <1>5 DEF SumFunction

LEMMA ShareIs ==
  ASSUME NEW a \in Nat, NEW b \in Nat, a <= b, b # 0
  PROVE  (2000 * a + b) \div (2 * b) \in 0 .. 1000
<1> DEFINE x == 2000 * a + b
           y == 2 * b
           q == x \div y
<1>1. x \in Nat /\ y \in Nat \ {0} /\ x < 1001 * y
  OBVIOUS
<1> HIDE DEF x, y
<1>2. q \in Int /\ y * q <= x /\ x < y * q + y
  BY <1>1
<1> HIDE DEF q
<1>3. q >= 1001 => y * q >= y * 1001
  BY <1>1, <1>2
<1>4. q < 0 => y * q + y <= 0
  BY <1>1, <1>2
<1> QED BY <1>1, <1>2, <1>3, <1>4 DEF q, x, y

LEMMA SelfIs ==
  ASSUME NEW S, Timed(S), NEW r \in S
  PROVE  SelfTime(S, r) \in 0 .. r.duration
<1> DEFINE X == {p \in S : p.parent = r.span}
           f == [q \in X |-> q.duration]
           spent == SumFunction(f)
           self == SelfTime(S, r)
           n == r.duration
<1>1. IsFiniteSet(X) /\ DOMAIN f = X /\ \A q \in X : f[q] \in Nat
  BY FS_Subset DEF Timed
<1>2. self = IF n > spent THEN n - spent ELSE 0
  BY DEF SelfTime
<1> HIDE DEF X, f
<1>3. spent \in Nat /\ n \in Nat
  BY <1>1, SumIsNat DEF Timed
<1> HIDE DEF spent, self, n
<1>4. self \in 0 .. n
  BY <1>2, <1>3
<1> QED BY <1>4 DEF self, n

\* What the bulk map has of a row of the tree.
Entry(d, S, i) ==
  [SpanDetail(d.tree[i].row, SelfTime(S, d.tree[i].row), d.tree[i].row.time - d.start, d.duration)
     EXCEPT !.depth = d.tree[i].depth]

EntryTold(d, S, i, e) ==
  /\ e.row = d.tree[i].row /\ e.depth = d.tree[i].depth /\ e.self = SelfTime(S, d.tree[i].row)
  /\ e.offset = d.tree[i].row.time - d.start
  /\ e.share = IF d.duration = 0 THEN 0
               ELSE (2000 * d.tree[i].row.duration + d.duration) \div (2 * d.duration)

LEMMA EntryIs == ASSUME NEW d, NEW S, NEW i PROVE EntryTold(d, S, i, Entry(d, S, i))
<1> DEFINE r == d.tree[i].row
           a == SelfTime(S, r)
           b == r.time - d.start
           c == IF d.duration = 0 THEN 0
                ELSE (2000 * r.duration + d.duration) \div (2 * d.duration)
           z == d.tree[i].depth
           e == Entry(d, S, i)
<1>1. e = [[row |-> r, depth |-> 0, self |-> a, offset |-> b, share |-> c] EXCEPT !.depth = z]
  BY DEF Entry, SpanDetail
<1> HIDE DEF r, a, b, c, z, e
<1>2. e = [row |-> r, depth |-> z, self |-> a, offset |-> b, share |-> c]
  BY <1>1
<1> QED BY <1>2 DEF EntryTold, r, a, b, c, z, e

\* The map has of a span the row that is drawn of it.
LEMMA MapIs ==
  ASSUME NEW S, Timed(S), NEW d, DetailTold(d, S)
  PROVE  /\ DOMAIN d.detail \subseteq SpanIds
         /\ \A i \in DOMAIN d.tree : ~ d.omitted =>
              d.detail[d.tree[i].row.span] = Entry(d, S, i)
         /\ \A id \in DOMAIN d.detail : \E i \in DOMAIN d.tree : d.detail[id] = Entry(d, S, i)
<1> DEFINE tree == OrderTree(S)
           ids == IF Len(tree) > TraceDetailCap THEN {} ELSE {r.span : r \in S}
           At(id) == CHOOSE k \in DOMAIN tree : tree[k].row.span = id
           EntryAt(i) == Entry(d, S, i)
<1>1. /\ d.tree = tree /\ d.detail = DetailMap(tree, S, d.start, d.duration)
      /\ d.omitted <=> Len(tree) > TraceDetailCap
  BY DEF DetailTold
<1>2. /\ \A i \in DOMAIN tree : tree[i].row \in S
      /\ \A r \in S : \E i \in DOMAIN tree : tree[i].row = r
  BY TreeRows
<1>3. DrawnOnce(tree)
  BY TreeTells DEF TreeIs
<1>4. d.detail = [id \in ids |-> EntryAt(At(id))]
  BY <1>1 DEF DetailMap, Entry
<1> HIDE DEF tree, EntryAt
<1>5. ASSUME NEW i \in DOMAIN tree PROVE At(tree[i].row.span) = i
  <2> DEFINE k == At(tree[i].row.span)
  <2>1. k \in DOMAIN tree /\ tree[k].row.span = tree[i].row.span
    OBVIOUS
  <2> HIDE DEF k
  <2>2. tree[k].row = tree[i].row
    BY <1>2, <2>1 DEF Timed
  <2> QED BY <1>3, <2>1, <2>2 DEF DrawnOnce, k
<1> HIDE DEF At
<1>6. ASSUME NEW i \in DOMAIN tree, ~ d.omitted
      PROVE  d.detail[tree[i].row.span] = EntryAt(i)
  BY <1>1, <1>2, <1>4, <1>5, <1>6
<1>7. ASSUME NEW id \in DOMAIN d.detail
      PROVE  id \in SpanIds /\ \E i \in DOMAIN tree : d.detail[id] = EntryAt(i)
  <2>1. PICK r \in S : id = r.span
    BY <1>4, <1>7
  <2>2. PICK i \in DOMAIN tree : tree[i].row = r
    BY <1>2
  <2>3. At(id) = i
    BY <1>5, <2>1, <2>2
  <2> QED BY <1>4, <2>1, <2>3 DEF Timed
<1> QED BY <1>1, <1>6, <1>7 DEF EntryAt

\* The bar of a span lies in the trace.
LEMMA BarsFit ==
  ASSUME NEW S, Timed(S), NEW d, DetailTold(d, S), NEW i \in DOMAIN d.tree
  PROVE  LET e == Entry(d, S, i)
         IN  /\ e.self \in 0 .. e.row.duration
             /\ e.offset >= 0 /\ e.offset + e.row.duration <= d.duration
             /\ e.share \in 0 .. 1000
<1> DEFINE e == Entry(d, S, i)
           r == d.tree[i].row
           a == Min(Instants(S))
           z == Max(Stops(S))
           start == d.start
           total == d.duration
           time == r.time
           n == r.duration
           share == IF total = 0 THEN 0 ELSE (2000 * n + total) \div (2 * total)
<1>1. r \in S
  BY TreeRows DEF DetailTold
<1>2. start = a /\ total = z - a
  BY DEF DetailTold
<1>3. /\ e.row = r /\ e.self = SelfTime(S, r) /\ e.offset = time - start
      /\ e.share = share
  BY EntryIs DEF EntryTold
<1>4. SelfTime(S, r) \in 0 .. r.duration
  BY <1>1, SelfIs
<1>5. time \in Instants(S) /\ time + n \in Stops(S) /\ time \in Nat /\ n \in Nat
  BY <1>1 DEF Instants, Stops, Timed
<1>6. a \in Nat /\ z \in Nat /\ a <= time /\ time + n <= z
  BY <1>1, <1>5, ExtremesAre
<1> HIDE DEF e, r, a, z, start, total, time, n
<1>7. total \in Nat /\ time - start >= 0 /\ time - start + n <= total /\ n <= total
  BY <1>2, <1>5, <1>6
<1>8. share \in 0 .. 1000
  BY <1>5, <1>7, ShareIs
<1> HIDE DEF share
<1>9. e.row.duration = n
  BY <1>3 DEF n
<1> QED BY <1>3, <1>4, <1>7, <1>8, <1>9 DEF e, total

\* So each span that is drawn opens.
DrawnOpen(tenant, t, d) ==
  \A i \in DOMAIN d.tree : \E o \in OpenSpan(tenant, t, d.tree[i].row.span) :
    /\ OpenSpan(tenant, t, d.tree[i].row.span) = {o}
    /\ o.row = d.tree[i].row
    /\ ~ d.omitted => /\ d.detail[o.row.span].row = o.row
                      /\ d.detail[o.row.span].depth = d.tree[i].depth
BarsInTrace(d) ==
  \A id \in DOMAIN d.detail :
    LET e == d.detail[id]
    IN  /\ e.self \in 0 .. e.row.duration
        /\ e.offset >= 0 /\ e.offset + e.row.duration <= d.duration
        /\ e.share \in 0 .. 1000

LEMMA SpansOpen == ASSUME Stored PROVE EverySpanOpens
<1>0. EverySpanOpens <=>
        \A tenant \in Tenants, t \in TraceIds : \A day \in Located(tenant, t) :
          Located(tenant, t) = {day} /\ DetailSpans(tenant, t, day) # <<>> =>
            \A d \in {TraceDetail(DetailSpans(tenant, t, day))} :
              DrawnOpen(tenant, t, d) /\ BarsInTrace(d)
  BY DEF EverySpanOpens, DrawnOpen, BarsInTrace
<1> SUFFICES ASSUME NEW tenant \in Tenants, NEW t \in TraceIds, NEW day \in Located(tenant, t),
                    Located(tenant, t) = {day}, DetailSpans(tenant, t, day) # <<>>,
                    NEW d \in {TraceDetail(DetailSpans(tenant, t, day))}
             PROVE  DrawnOpen(tenant, t, d) /\ BarsInTrace(d)
  BY <1>0
<1> DEFINE spans == DetailSpans(tenant, t, day)
           S == ToSet(spans)
           F == Newest(Kept(tenant, t, day))
<1>1. DetailIs(F, spans)
  BY DetailTells
<1>2. DetailTold(d, S)
  BY <1>1, DetailSays
<1>3. S \subseteq F /\ Timed(S)
  BY <1>1 DEF DetailIs
<1> HIDE DEF spans, S
<1>4. d.tree = OrderTree(S)
  BY <1>2 DEF DetailTold
<1>5. \A i \in DOMAIN d.tree : d.tree[i].row \in S
  BY <1>3, <1>4, TreeRows
<1>6. ASSUME NEW i \in DOMAIN d.tree
      PROVE  \E o \in OpenSpan(tenant, t, d.tree[i].row.span) :
               /\ OpenSpan(tenant, t, d.tree[i].row.span) = {o}
               /\ o.row = d.tree[i].row
               /\ ~ d.omitted => /\ d.detail[o.row.span].row = o.row
                                 /\ d.detail[o.row.span].depth = d.tree[i].depth
  <2> DEFINE r == d.tree[i].row
             o == SpanDetail(r, 0, 0, 0)
             e == Entry(d, S, i)
  <2>1. r \in F
    BY <1>3, <1>5
  <2>2. OpenSpan(tenant, t, r.span) = {o}
    BY <2>1, OpensAlone
  <2>3. o.row = r
    BY DEF SpanDetail
  <2>4. ~ d.omitted => d.detail[r.span] = e
    BY <1>2, <1>3, MapIs
  <2>5. e.row = r /\ e.depth = d.tree[i].depth
    BY EntryIs DEF EntryTold
  <2> HIDE DEF r, o, e
  <2> QED BY <2>2, <2>3, <2>4, <2>5 DEF r
<1>7. ASSUME NEW id \in DOMAIN d.detail
      PROVE  LET e == d.detail[id]
             IN  /\ e.self \in 0 .. e.row.duration
                 /\ e.offset >= 0 /\ e.offset + e.row.duration <= d.duration
                 /\ e.share \in 0 .. 1000
  <2>1. PICK i \in DOMAIN d.tree : d.detail[id] = Entry(d, S, i)
    BY <1>2, <1>3, MapIs
  <2> QED BY <1>2, <1>3, <2>1, BarsFit
<1> QED BY <1>6, <1>7 DEF DrawnOpen, BarsInTrace

(* DetailAgrees: the page of a trace of one day has the start and the number of   *)
(* spans the list has, counts at least what the list counts as failed, finds      *)
(* something notable exactly if the list does, and is not complete before the     *)
(* list; each span that is drawn opens on demand as it is in the bulk map, its    *)
(* bar inside the trace.                                                          *)
THEOREM DetailAgrees == Spec => []DetailMatchesList
<1>1. ASSUME Stored PROVE DetailMatchesList
  BY <1>1, PagesAgree, SpansOpen DEF DetailMatchesList
<1> QED BY <1>1, PagingInvariant, PTL
=============================================================================
