---------------------------- MODULE LevelsProofs ----------------------------
(***************************************************************************)
(* What the calls of the OrderBook trait do to the levels of a side of the *)
(* book, for any orders: Tick::filled takes what is asked or all there is, *)
(* the levels keep their shape, and what the orders of an owner weigh goes *)
(* down by no less than what a fill or a cancellation takes.               *)
(***************************************************************************)
EXTENDS Levels, OperatorProofs

(***************************************************************************)
(* Ids.                                                                    *)
(***************************************************************************)
\* An id is in the book when it is at some level.
LEMMA IdsAtLevels ==
  ASSUME NEW levels, NEW id
  PROVE  id \in IdsOf(levels) <=> \E p \in DOMAIN levels : id \in DOMAIN levels[p]
  BY DEF IdsOf

\* Filling takes ids away, and perhaps the level.
LEMMA FilledIds ==
  ASSUME NEW levels, NEW price, NEW quantity
  PROVE  LET after == FilledAt(levels, price, quantity)
         IN  /\ DOMAIN after \subseteq DOMAIN levels
             /\ \A p \in DOMAIN after : DOMAIN after[p] \subseteq DOMAIN levels[p]
  BY DEF FilledAt, Filled

\* Cancelling takes away at most the id.
LEMMA CanceledIds ==
  ASSUME NEW levels, NEW price \in DOMAIN levels, NEW id, NEW quantity
  PROVE  LET after == CanceledAt(levels, price, id, quantity)
         IN  /\ DOMAIN after = DOMAIN levels
             /\ \A p \in DOMAIN after : DOMAIN after[p] \subseteq DOMAIN levels[p]
<1>1. DOMAIN Canceled(levels[price], id, quantity) \subseteq DOMAIN levels[price]
  BY DEF Canceled
<1> QED
  BY <1>1 DEF CanceledAt

(***************************************************************************)
(* Sums of more kinds than the induction needs: over parts, over lists, of *)
(* renamed elements.                                                       *)
(***************************************************************************)
\* The sum of one value over and over.
LEMMA SumConstant ==
  ASSUME NEW f, NEW S, IsFiniteSet(S), NEW c \in Int, \A x \in S : f[x] = c
  PROVE  SumFunctionOnSet(f, S) = Cardinality(S) * c
<1>1. S \cap S = S
  OBVIOUS
<1> QED
  BY <1>1, SumOfSome

ImageOf(h, S) == {h[x] : x \in S}

\* The same values under other names have the same sum.
LEMMA SumRenamed ==
  ASSUME NEW f, NEW g, NEW S, NEW h, IsFiniteSet(S),
         \A x, y \in S : x # y => h[x] # h[y],
         \A x \in S : f[x] \in Int /\ g[h[x]] = f[x]
  PROVE  /\ IsFiniteSet(ImageOf(h, S))
         /\ SumFunctionOnSet(g, ImageOf(h, S)) = SumFunctionOnSet(f, S)
<1> DEFINE Image(T) == {h[x] : x \in T}
           C == {T \in SUBSET S :
                   /\ IsFiniteSet(Image(T))
                   /\ SumFunctionOnSet(g, Image(T)) = SumFunctionOnSet(f, T)}
<1>1. ASSUME NEW T \in SUBSET S, \A U \in SUBSET T : U # T => U \in C
      PROVE  T \in C
  <2>1. CASE T = {}
    <3>1. Image(T) = {}
      BY <2>1
    <3> QED
      BY <2>1, <3>1, SumOfNothing, FS_EmptySet
  <2>2. CASE T # {}
    <3>1. PICK x \in T : TRUE
      BY <2>2
    <3> DEFINE U == T \ {x}
    <3>2. U \in C
      BY <1>1
    <3>3. Image(T) = Image(U) \cup {h[x]} /\ Image(T) \ {h[x]} = Image(U)
      OBVIOUS
    <3>4. IsFiniteSet(T) /\ IsFiniteSet(Image(T))
      BY <3>2, <3>3, FS_AddElement, FS_Subset
    <3>5. \A z \in Image(T) : g[z] \in Int
      OBVIOUS
    <3>6. h[x] \in Image(T)
      OBVIOUS
    <3>7. SumFunctionOnSet(f, T) = f[x] + SumFunctionOnSet(f, U)
      BY <3>4, SumRemove
    <3>8. SumFunctionOnSet(g, Image(T)) = g[h[x]] + SumFunctionOnSet(g, Image(T) \ {h[x]})
      <4> HIDE DEF Image
      <4> QED
        BY <3>4, <3>5, <3>6, SumRemove
    <3>9. SumFunctionOnSet(g, Image(T)) = SumFunctionOnSet(f, T)
      <4>1. SumFunctionOnSet(g, Image(U)) = SumFunctionOnSet(f, U)
        BY <3>2
      <4> HIDE DEF Image, U
      <4> QED
        BY <3>3, <3>7, <3>8, <4>1, Zenon
    <3> QED
      BY <3>4, <3>9
  <2> QED
    BY <2>1, <2>2
<1>2. S \in C
  <2> HIDE DEF C
  <2> QED
    BY <1>1, SubsetInduction, Zenon
<1> QED
  BY <1>2 DEF ImageOf

\* The sum over two sets without a common element.
LEMMA SumUnion ==
  ASSUME NEW f, NEW S, NEW T, IsFiniteSet(S), IsFiniteSet(T), S \cap T = {},
         \A x \in S \cup T : f[x] \in Int
  PROVE  SumFunctionOnSet(f, S \cup T) = SumFunctionOnSet(f, S) + SumFunctionOnSet(f, T)
<1> DEFINE Sum(U) == SumFunctionOnSet(f, U)
           C == {U \in SUBSET S : Sum(U \cup T) = Sum(U) + Sum(T)}
<1>0. IsFiniteSet(S \cup T) /\ \A U \in SUBSET (S \cup T) : IsFiniteSet(U) /\ Sum(U) \in Int
  BY FS_Union, FS_Subset, SumIsInteger, Zenon
<1>1. ASSUME NEW U \in SUBSET S, \A V \in SUBSET U : V # U => V \in C
      PROVE  U \in C
  <2>1. CASE U = {}
    <3>1. U \cup T = T /\ Sum(U) = 0 /\ Sum(T) \in Int
      BY <1>0, <2>1, SumOfNothing
    <3> HIDE DEF Sum
    <3> QED
      BY <3>1
  <2>2. CASE U # {}
    <3>1. PICK x \in U : TRUE
      BY <2>2
    <3>2. (U \cup T) \ {x} = (U \ {x}) \cup T
      OBVIOUS
    <3>3. Sum((U \ {x}) \cup T) = Sum(U \ {x}) + Sum(T)
      BY <1>1
    <3>4. IsFiniteSet(U \cup T) /\ IsFiniteSet(U)
      BY <1>0
    <3>5. Sum(U) = f[x] + Sum(U \ {x})
      BY <3>4, SumRemove
    <3>6. Sum(U \cup T) = f[x] + Sum((U \cup T) \ {x})
      BY <3>4, SumRemove
    <3>7. f[x] \in Int /\ Sum(U \ {x}) \in Int /\ Sum(T) \in Int
      BY <1>0
    <3>8. Sum(U \cup T) = Sum(U) + Sum(T)
      <4> HIDE DEF Sum
      <4>1. Sum(U \cup T) = f[x] + (Sum(U \ {x}) + Sum(T))
        BY <3>2, <3>3, <3>6
      <4>2. ASSUME NEW a \in Int, NEW b \in Int, NEW c \in Int
            PROVE  a + (b + c) = (a + b) + c
        OBVIOUS
      <4> QED
        BY <3>5, <3>7, <4>1, <4>2
    <3> QED
      BY <3>8
  <2> QED
    BY <2>1, <2>2
<1>2. S \in C
  <2> HIDE DEF C
  <2> QED
    BY <1>0, <1>1, SubsetInduction, Zenon
<1> QED
  BY <1>2

\* Elements without a value do not count.
LEMMA SumSupport ==
  ASSUME NEW f, NEW S, NEW T, IsFiniteSet(S), T \subseteq S,
         \A x \in T : f[x] \in Int, \A x \in S \ T : f[x] = 0
  PROVE  SumFunctionOnSet(f, S) = SumFunctionOnSet(f, T)
<1> DEFINE Rest == S \ T
<1>1. /\ S = T \cup Rest /\ T \cap Rest = {}
      /\ IsFiniteSet(T) /\ IsFiniteSet(Rest)
      /\ \A x \in Rest : f[x] = 0
      /\ \A x \in T \cup Rest : f[x] \in Int
  BY FS_Subset
<1> HIDE DEF Rest
<1>2. Cardinality(Rest) \in Nat
  BY <1>1, FS_CardinalityType
<1>3. SumFunctionOnSet(f, Rest) = Cardinality(Rest) * 0
  BY <1>1, SumConstant
<1>4. SumFunctionOnSet(f, T) \in Int
  BY <1>1, SumIsInteger
<1>5. SumFunctionOnSet(f, T \cup Rest) = SumFunctionOnSet(f, T) + SumFunctionOnSet(f, Rest)
  BY <1>1, SumUnion
<1> QED
  BY <1>1, <1>2, <1>3, <1>4, <1>5

\* A list that goes through a set once.
Lists(list, n, S) ==
  /\ n \in Nat /\ list \in [1..n -> S] /\ ImageOf(list, 1..n) = S
  /\ \A i, j \in 1..n : i # j => list[i] # list[j]

\* The sum along such a list is the sum over the set.
LEMMA SumAlong ==
  ASSUME NEW n, NEW S, NEW list, Lists(list, n, S),
         NEW f, NEW g, \A i \in 1..n : f[i] \in Int /\ g[list[i]] = f[i]
  PROVE  SumFunctionOnSet(f, 1..n) = SumFunctionOnSet(g, S)
<1>1. IsFiniteSet(1..n)
  BY FS_Interval DEF Lists
<1>2. SumFunctionOnSet(g, ImageOf(list, 1..n)) = SumFunctionOnSet(f, 1..n)
  BY <1>1, SumRenamed DEF Lists
<1> QED
  BY <1>2 DEF Lists

\* The values of f after the first m are the n values of g.
ContinuedBy(f, m, g, n) ==
  /\ m \in Nat /\ n \in Nat /\ \A i \in 1..(m + n) : f[i] \in Int
  /\ \A i \in 1..n : g[i] = f[m + i]

\* A sum over a list of two parts is the sum of theirs.
LEMMA SumSplit ==
  ASSUME NEW f, NEW m, NEW g, NEW n, ContinuedBy(f, m, g, n)
  PROVE  SumFunctionOnSet(f, 1..(m + n)) =
           SumFunctionOnSet(f, 1..m) + SumFunctionOnSet(g, 1..n)
<1>0. /\ m \in Nat /\ n \in Nat /\ \A i \in 1..(m + n) : f[i] \in Int
      /\ \A i \in 1..n : g[i] = f[m + i]
  BY DEF ContinuedBy
<1> USE <1>0
<1> DEFINE h == [i \in 1..n |-> m + i]
           First == 1..m
           Rest == (m + 1)..(m + n)
<1>1. ImageOf(h, 1..n) = Rest
  <2>1. \A i \in 1..n : m + i \in Rest
    OBVIOUS
  <2>2. \A j \in Rest : j - m \in 1..n /\ j = m + (j - m)
    OBVIOUS
  <2> QED
    BY <2>1, <2>2 DEF ImageOf
<1>2. /\ \A x, y \in 1..n : x # y => h[x] # h[y]
      /\ \A x \in 1..n : g[x] \in Int /\ f[h[x]] = g[x]
  OBVIOUS
<1>3. IsFiniteSet(1..n) /\ IsFiniteSet(1..m)
  BY FS_Interval
<1>4. /\ 1..(m + n) = First \cup Rest /\ First \cap Rest = {}
      /\ \A x \in First \cup Rest : f[x] \in Int
  OBVIOUS
<1> HIDE DEF h, Rest
<1>5. IsFiniteSet(Rest) /\ SumFunctionOnSet(f, Rest) = SumFunctionOnSet(g, 1..n)
  BY <1>1, <1>2, <1>3, SumRenamed, SMTT(30)
<1>6. IsFiniteSet(First)
  BY <1>3
<1> HIDE DEF First
<1>7. SumFunctionOnSet(f, First \cup Rest) = SumFunctionOnSet(f, First) + SumFunctionOnSet(f, Rest)
  BY <1>4, <1>5, <1>6, SumUnion
<1> QED
  BY <1>4, <1>5, <1>7, Zenon DEF First

\* A sum of one value.
LEMMA SumOfOne == ASSUME NEW f, NEW x, f[x] \in Int PROVE SumFunctionOnSet(f, {x}) = f[x]
<1>1. IsFiniteSet({x}) /\ {x} \ {x} = {} /\ \A y \in {x} : f[y] \in Int
  BY FS_Singleton
<1>2. SumFunctionOnSet(f, {x}) = f[x] + SumFunctionOnSet(f, {x} \ {x})
  BY <1>1, SumRemove
<1> QED
  BY <1>1, <1>2, SumOfNothing

\* A sum with one value more.
LEMMA SumExtend ==
  ASSUME NEW f, NEW g, NEW S, IsFiniteSet(S), NEW x, x \notin S,
         \A y \in S : f[y] = g[y] /\ f[y] \in Int, g[x] \in Int
  PROVE  SumFunctionOnSet(g, S \cup {x}) = SumFunctionOnSet(f, S) + g[x]
<1> DEFINE T == S \cup {x}
<1>1. IsFiniteSet(T) /\ x \in T /\ T \ {x} = S /\ \A y \in T : g[y] \in Int
  BY FS_AddElement
<1> HIDE DEF T
<1>2. SumFunctionOnSet(g, T) = g[x] + SumFunctionOnSet(g, S)
  BY <1>1, SumRemove
<1>3. SumFunctionOnSet(f, S) = SumFunctionOnSet(g, S) /\ SumFunctionOnSet(f, S) \in Int
  BY SumSame, SumIsInteger
<1> QED
  BY <1>2, <1>3 DEF T

(***************************************************************************)
(* Sums along a sequence of the values that a function has there.          *)
(***************************************************************************)
ListSum(w, s) == SumFunction([n \in 1..Len(s) |-> w[s[n]]])

\* A sum along a sequence as one over its indices.
LEMMA ListSumType ==
  ASSUME NEW S, NEW w \in [S -> Nat], NEW s \in Seq(S)
  PROVE  /\ Len(s) \in Nat /\ \A n \in 1..Len(s) : s[n] \in S /\ w[s[n]] \in Nat
         /\ ListSum(w, s) = SumFunctionOnSet([n \in 1..Len(s) |-> w[s[n]]], 1..Len(s))
         /\ ListSum(w, s) \in Nat
<1> DEFINE q == [n \in 1..Len(s) |-> w[s[n]]]
<1>1. Len(s) \in Nat /\ \A n \in 1..Len(s) : s[n] \in S /\ w[s[n]] \in Nat
  OBVIOUS
<1>2. DOMAIN q = 1..Len(s) /\ \A n \in 1..Len(s) : q[n] \in Nat
  BY <1>1
<1>3. IsFiniteSet(1..Len(s))
  BY <1>1, FS_Interval
<1>4. ListSum(w, s) = SumFunctionOnSet(q, 1..Len(s))
  BY <1>2, Zenon DEF ListSum, SumFunction
<1> HIDE DEF q
<1>5. SumFunctionOnSet(q, 1..Len(s)) \in Nat
  BY <1>2, <1>3, SumIsNatural
<1> QED
  BY <1>1, <1>4, <1>5 DEF q

\* The sum along an empty sequence.
LEMMA ListSumNone == ASSUME NEW S, NEW w \in [S -> Nat] PROVE ListSum(w, <<>>) = 0
<1> DEFINE q == [n \in 1..Len(<<>>) |-> w[<<>>[n]]]
<1>1. DOMAIN q = {}
  OBVIOUS
<1>2. ListSum(w, <<>>) = SumFunctionOnSet(q, DOMAIN q)
  BY DEF ListSum, SumFunction
<1> HIDE DEF q
<1> QED
  BY <1>1, <1>2, SumOfNothing

\* The sum along two sequences, one after the other.
LEMMA ListSumJoined ==
  ASSUME NEW S, NEW w \in [S -> Nat], NEW s \in Seq(S), NEW t \in Seq(S)
  PROVE  s \o t \in Seq(S) /\ ListSum(w, s \o t) = ListSum(w, s) + ListSum(w, t)
<1> DEFINE m == Len(s)
           n == Len(t)
           qs == [i \in 1..m |-> w[s[i]]]
           qt == [i \in 1..n |-> w[t[i]]]
           q == [i \in 1..(m + n) |-> w[(s \o t)[i]]]
<1>0. m \in Nat /\ n \in Nat
  OBVIOUS
<1>1. s \o t \in Seq(S) /\ Len(s \o t) = m + n
  OBVIOUS
<1>2. /\ \A i \in 1..m : (s \o t)[i] = s[i]
      /\ \A i \in 1..n : (s \o t)[m + i] = t[i]
  OBVIOUS
<1>3. \A i \in 1..(m + n) : q[i] \in Int
  BY <1>1, ListSumType
<1>4. \A i \in 1..n : qt[i] = q[m + i]
  BY <1>0, <1>2
<1>5. \A i \in 1..m : qs[i] = q[i]
  BY <1>0, <1>2
<1>6. /\ ListSum(w, s \o t) = SumFunctionOnSet(q, 1..(m + n))
      /\ ListSum(w, s) = SumFunctionOnSet(qs, 1..m)
      /\ ListSum(w, t) = SumFunctionOnSet(qt, 1..n)
  BY <1>1, ListSumType, Zenon
<1>7. IsFiniteSet(1..m)
  BY <1>0, FS_Interval
<1> HIDE DEF m, n, qs, qt, q
<1>8. SumFunctionOnSet(q, 1..(m + n)) = SumFunctionOnSet(q, 1..m) + SumFunctionOnSet(qt, 1..n)
  <2>1. ContinuedBy(q, m, qt, n)
    BY <1>0, <1>3, <1>4 DEF ContinuedBy
  <2> QED
    BY <2>1, SumSplit
<1>9. SumFunctionOnSet(qs, 1..m) = SumFunctionOnSet(q, 1..m)
  BY <1>5, <1>7, SumSame, Zenon
<1> QED
  BY <1>1, <1>6, <1>8, <1>9

\* The first value of a sum and the others.
LEMMA ListSumTail ==
  ASSUME NEW S, NEW w \in [S -> Nat], NEW s \in Seq(S), s # <<>>
  PROVE  /\ Head(s) \in S /\ Tail(s) \in Seq(S)
         /\ ListSum(w, s) = w[Head(s)] + ListSum(w, Tail(s))
<1> DEFINE m == 1
           n == Len(Tail(s))
           q == [i \in 1..(m + n) |-> w[s[i]]]
           qt == [i \in 1..n |-> w[Tail(s)[i]]]
<1>0. m \in Nat /\ n \in Nat
  OBVIOUS
<1>1. /\ Head(s) \in S /\ Head(s) = s[1]
      /\ Tail(s) \in Seq(S) /\ Len(s) = m + n
      /\ \A i \in 1..n : Tail(s)[i] = s[m + i]
  OBVIOUS
<1>2. \A i \in 1..(m + n) : q[i] \in Int
  BY <1>1, ListSumType
<1>3. \A i \in 1..n : qt[i] = q[m + i]
  BY <1>0, <1>1
<1>4. q[1] = w[Head(s)] /\ q[1] \in Int /\ 1..m = {1}
  BY <1>1, <1>2
<1> HIDE DEF m
<1>5. /\ ListSum(w, s) = SumFunctionOnSet(q, 1..(m + n))
      /\ ListSum(w, Tail(s)) = SumFunctionOnSet(qt, 1..n)
  BY <1>1, ListSumType, Zenon
<1> HIDE DEF n, q, qt
<1>6. SumFunctionOnSet(q, 1..(m + n)) = SumFunctionOnSet(q, 1..m) + SumFunctionOnSet(qt, 1..n)
  <2>1. ContinuedBy(q, m, qt, n)
    BY <1>0, <1>2, <1>3 DEF ContinuedBy
  <2> QED
    BY <2>1, SumSplit
<1>7. SumFunctionOnSet(q, {1}) = q[1]
  BY <1>4, SumOfOne, Zenon
<1> QED
  BY <1>1, <1>4, <1>5, <1>6, <1>7, Zenon

(***************************************************************************)
(* What a fill takes from the orders of a level.  Ids are served in their  *)
(* order, so the orders ahead of an id are a prefix of the level.          *)
(***************************************************************************)
Increasing(seq, n) == \A i, j \in 1..n : i < j => seq[i] < seq[j]

\* The iteration of a BTreeMap goes through every id once.
LEMMA IdOrder ==
  ASSUME NEW S \in SUBSET Int, IsFiniteSet(S)
  PROVE  LET n == Cardinality(S)
             seq == InIdOrder(S)
         IN  Lists(seq, n, S) /\ Increasing(seq, n)
\* A finite set of ids can be written down in increasing order.
<1>OrderExists. \E seq \in [1..Cardinality(S) -> S] : Increasing(seq, Cardinality(S))
  <2> DEFINE C == {T \in SUBSET S :
                     \E seq \in [1..Cardinality(T) -> T] : Increasing(seq, Cardinality(T))}
  <2>1. ASSUME NEW T \in SUBSET S, \A U \in SUBSET T : U # T => U \in C
        PROVE  T \in C
    <3>1. IsFiniteSet(T)
      BY FS_Subset, Zenon
    <3>2. CASE T = {}
      <4>1. Cardinality(T) = 0
        BY <3>2, FS_EmptySet
      <4>2. 1..0 = {}
        OBVIOUS
      <4> DEFINE none == [i \in 1..0 |-> 0]
      <4>3. none \in [1..0 -> T] /\ Increasing(none, 0)
        BY <4>2 DEF Increasing
      <4> QED
        BY <4>1, <4>3, Zenon
    <3>3. CASE T # {}
      <4>1. PICK m \in T : \A y \in T : y <= m
        BY <3>1, <3>3, LeastAndGreatest
      <4> DEFINE U == T \ {m}
                 n == Cardinality(U)
      <4>2. IsFiniteSet(U) /\ n \in Nat /\ Cardinality(T) = n + 1
        <5>1. IsFiniteSet(U) /\ Cardinality(U) = Cardinality(T) - 1
          BY <3>1, <4>1, FS_RemoveElement
        <5>2. Cardinality(T) \in Nat /\ Cardinality(U) \in Nat
          BY <3>1, <5>1, FS_CardinalityType
        <5> HIDE DEF U
        <5> QED
          BY <5>1, <5>2
      <4>3. PICK seq \in [1..n -> U] : Increasing(seq, n)
        BY <2>1, <4>1, Zenon
      <4> DEFINE longer == [i \in 1..(n + 1) |-> IF i = n + 1 THEN m ELSE seq[i]]
      <4> HIDE DEF n
      <4>4. longer \in [1..(n + 1) -> T]
        BY <4>1, <4>2, <4>3
      <4>5. \A y \in U : y < m
        BY <4>1
      <4>6. Increasing(longer, n + 1)
        <5> SUFFICES ASSUME NEW i \in 1..(n + 1), NEW j \in 1..(n + 1), i < j
                     PROVE  longer[i] < longer[j]
          BY DEF Increasing
        <5>1. i \in 1..n /\ longer[i] = seq[i] /\ seq[i] \in U
          BY <4>2, <4>3
        <5>2. CASE j = n + 1
          BY <4>2, <4>5, <5>1, <5>2, Zenon
        <5>3. CASE j # n + 1
          <6>1. j \in 1..n /\ longer[j] = seq[j]
            BY <4>2, <5>3
          <6> QED
            BY <4>3, <5>1, <6>1 DEF Increasing
        <5> QED
          BY <5>2, <5>3
      <4> HIDE DEF longer
      <4> QED
        BY <4>2, <4>4, <4>6
    <3> QED
      BY <3>2, <3>3
  <2>2. S \in C
    <3> HIDE DEF C
    <3> QED
      BY <2>1, SubsetInduction, Zenon
  <2> QED
    BY <2>2
<1> DEFINE n == Cardinality(S)
           seq == InIdOrder(S)
<1>1. n \in Nat /\ IsFiniteSet(1..n) /\ Cardinality(1..n) = n
  BY FS_CardinalityType, FS_Interval
<1>2. seq \in [1..n -> S] /\ Increasing(seq, n)
  BY <1>OrderExists, Zenon DEF InIdOrder, Increasing
<1>3. \A i, j \in 1..n : i # j => seq[i] # seq[j]
  <2> SUFFICES ASSUME NEW i \in 1..n, NEW j \in 1..n, i # j PROVE seq[i] # seq[j]
    OBVIOUS
  <2>1. i < j \/ j < i
    BY <1>1
  <2>2. seq[i] \in Int /\ seq[j] \in Int
    BY <1>2, Zenon
  <2> HIDE DEF n, seq
  <2> QED
    BY <1>2, <2>1, <2>2 DEF Increasing
<1>4. seq \in Injection(1..n, S)
  <2> HIDE DEF n, seq
  <2> QED
    BY <1>2, <1>3 DEF Injection, IsInjective
<1>5. seq \in Surjection(1..n, S)
  BY <1>1, <1>4, FS_Injection
<1>6. ImageOf(seq, 1..n) = S
  <2> HIDE DEF n, seq
  <2> QED
    BY <1>2, <1>5, Zenon DEF Surjection, ImageOf
<1> QED
  BY <1>1, <1>2, <1>3, <1>6 DEF Lists

\* A level as the book holds it: finitely many orders under natural ids.
IsTick(tick, owners) ==
  /\ DOMAIN tick \in SUBSET Nat /\ IsFiniteSet(DOMAIN tick)
  /\ tick \in [DOMAIN tick -> [owner : owners, quantity : Nat]]

\* What is ahead of an order is a natural number, and so is what it gives.
LEMMA TakenTypes ==
  ASSUME NEW owners, NEW tick, IsTick(tick, owners), NEW quantity \in Nat, NEW id \in DOMAIN tick
  PROVE  /\ Ahead(tick, id) \in Nat
         /\ Taken(tick, id, quantity) \in Nat
         /\ Taken(tick, id, quantity) <= tick[id].quantity
<1> DEFINE S == {i \in DOMAIN tick : i < id}
<1>1. IsFiniteSet(S) /\ \A i \in S : Quantities(tick)[i] \in Nat
  BY FS_Subset DEF IsTick, Quantities
<1>2. Ahead(tick, id) \in Nat
  BY <1>1, SumIsNatural DEF Ahead
<1>3. tick[id].quantity \in Nat
  BY DEF IsTick
<1> QED
  BY <1>2, <1>3 DEF Taken, Reached, Exhausted

Smaller(a, b) == IF a <= b THEN a ELSE b

\* The quantities of a list of fills, and their sum.
QuantitiesOf(pairs) == [n \in 1..Len(pairs) |-> pairs[n].quantity]

\* The pairs that Tick::filled returns: owners of the level, and together what
\* is asked for or all the level has.
LEMMA PairsTogether ==
  ASSUME NEW owners, NEW tick, IsTick(tick, owners), NEW quantity \in Nat
  PROVE  /\ FilledPairs(tick, quantity) \in Seq([owner : owners, quantity : Nat])
         /\ SumFunction(QuantitiesOf(FilledPairs(tick, quantity)))
              = Smaller(quantity, Depth(tick))
\* Together the orders of a level give what is asked for, or all they have.
<1>TakenTogether.
         SumFunctionOnSet([id \in DOMAIN tick |-> Taken(tick, id, quantity)], DOMAIN tick)
           = Smaller(quantity, Depth(tick))
  <2> DEFINE D == DOMAIN tick
             taken == [id \in D |-> Taken(tick, id, quantity)]
             offered == Quantities(tick)
             Given(T) == SumFunctionOnSet(taken, T)
             Offered(T) == SumFunctionOnSet(offered, T)
             Prefix(T) == \A i \in T, j \in D : j < i => j \in T
             C == {T \in SUBSET D : Prefix(T) => Given(T) = Smaller(quantity, Offered(T))}
  <2>0. /\ D \in SUBSET Nat /\ IsFiniteSet(D)
        /\ \A i \in D : offered[i] = tick[i].quantity /\ tick[i].quantity \in Nat
        /\ \A i \in D : taken[i] = Taken(tick, i, quantity) /\ taken[i] \in Nat
    BY TakenTypes, Zenon DEF IsTick, Quantities
  <2>1. ASSUME NEW T \in SUBSET D, \A U \in SUBSET T : U # T => U \in C
        PROVE  T \in C
    <3> SUFFICES ASSUME Prefix(T) PROVE Given(T) = Smaller(quantity, Offered(T))
      OBVIOUS
    <3>1. IsFiniteSet(T) /\ T \in SUBSET Int
      BY <2>0, FS_Subset
    <3>2. CASE T = {}
      <4>1. Given(T) = 0 /\ Offered(T) = 0
        BY <3>2, SumOfNothing
      <4> HIDE DEF Given, Offered
      <4> QED
        BY <4>1 DEF Smaller
    <3>3. CASE T # {}
      <4>1. PICK m \in T : \A y \in T : y <= m
        BY <3>1, <3>3, LeastAndGreatest
      <4> DEFINE U == T \ {m}
      <4>2. U = {i \in D : i < m}
        BY <2>0, <4>1
      <4>3. Prefix(U)
        BY <2>0, <4>2
      <4>4. Given(U) = Smaller(quantity, Offered(U))
        <5> HIDE DEF Given, Offered
        <5> QED
          BY <2>1, <4>3
      <4>5. Ahead(tick, m) = Offered(U) /\ Ahead(tick, m) \in Nat
        BY <4>2, TakenTypes DEF Ahead
      <4>6. Given(T) = taken[m] + Given(U)
        <5>1. \A i \in T : taken[i] \in Int
          BY <2>0
        <5> HIDE DEF taken, offered
        <5> QED
          BY <3>1, <5>1, SumRemove
      <4>7. Offered(T) = offered[m] + Offered(U)
        <5>1. \A i \in T : offered[i] \in Int
          BY <2>0
        <5> HIDE DEF taken, offered
        <5> QED
          BY <3>1, <5>1, SumRemove
      <4>8. taken[m] = IF ~(Ahead(tick, m) < quantity) THEN 0
                       ELSE IF Ahead(tick, m) + offered[m] < quantity THEN offered[m]
                       ELSE quantity - Ahead(tick, m)
        BY <2>0 DEF Taken, Reached, Exhausted
      <4>9. Smaller(quantity, Ahead(tick, m)) + taken[m] = Smaller(quantity, offered[m] + Ahead(tick, m))
        <5> HIDE DEF taken, offered
        <5>1. offered[m] \in Nat /\ Ahead(tick, m) \in Nat
          BY <2>0, <4>5
        <5> QED
          BY <4>8, <5>1 DEF Smaller
      <4>10. taken[m] \in Int /\ Smaller(quantity, Ahead(tick, m)) \in Int
        BY <2>0, <4>5 DEF Smaller
      <4> HIDE DEF Given, Offered, taken, offered, U
      <4> QED
        BY <4>4, <4>5, <4>6, <4>7, <4>9, <4>10
    <3> QED
      BY <3>2, <3>3
  <2>2. D \in C
    <3> HIDE DEF C, D
    <3> QED
      BY <2>0, <2>1, SubsetInduction, Zenon
  <2>3. Prefix(D)
    OBVIOUS
  <2>4. Given(D) = Smaller(quantity, Offered(D))
    BY <2>2, <2>3
  <2>5. DOMAIN offered = D
    BY DEF Quantities
  <2> QED
    BY <2>4, <2>5 DEF Depth, SumFunction
<1> DEFINE D == DOMAIN tick
           R == Reached(tick, quantity)
           ids == InIdOrder(R)
           n == Cardinality(R)
           taken == [id \in D |-> Taken(tick, id, quantity)]
           pairs == FilledPairs(tick, quantity)
<1>0. /\ D \in SUBSET Nat /\ IsFiniteSet(D) /\ \A i \in D : taken[i] \in Nat
      /\ \A i \in D : tick[i].owner \in owners /\ tick[i].quantity \in Nat
  BY TakenTypes, Zenon DEF IsTick
<1>1. R \subseteq D /\ IsFiniteSet(R) /\ R \in SUBSET Int /\ IsFiniteSet(D \ R)
  BY <1>0, FS_Subset DEF Reached
<1>2. Lists(ids, n, R) /\ n \in Nat /\ ids \in [1..n -> R]
  <2> HIDE DEF R
  <2> QED
    BY <1>1, IdOrder DEF Lists
<1>3. ids \in Seq(R) /\ Len(ids) = n
  <2> HIDE DEF R, ids, n
  <2> QED
    BY <1>2
<1>4. Depth(tick) \in Nat
  <2>1. \A i \in D : Quantities(tick)[i] \in Nat
    BY <1>0 DEF Quantities
  <2>2. DOMAIN Quantities(tick) = D
    BY DEF Quantities
  <2> QED
    BY <1>0, <2>1, <2>2, SumIsNatural DEF Depth, SumFunction
<1>5. CASE quantity = 0 \/ Depth(tick) = 0
  <2>1. pairs = <<>>
    BY <1>5 DEF FilledPairs
  <2>2. DOMAIN QuantitiesOf(<<>>) = {}
    BY DEF QuantitiesOf
  <2>3. SumFunction(QuantitiesOf(<<>>)) = 0
    BY <2>2, SumOfNothing DEF SumFunction
  <2>4. Smaller(quantity, Depth(tick)) = 0
    BY <1>4, <1>5 DEF Smaller
  <2> HIDE DEF pairs
  <2> QED
    BY <2>1, <2>3, <2>4 DEF pairs
<1>6. CASE ~(quantity = 0 \/ Depth(tick) = 0)
  <2> DEFINE Rec == [owner : owners, quantity : Nat]
             f == QuantitiesOf(pairs)
  <2>1. pairs = [i \in 1..n |-> [owner |-> tick[ids[i]].owner,
                                 quantity |-> Taken(tick, ids[i], quantity)]]
    BY <1>3, <1>6 DEF FilledPairs
  <2>2. \A i \in 1..n : ids[i] \in D
    <3> HIDE DEF R, ids, n
    <3> QED
      BY <1>1, <1>2
  <2>3. \A i \in 1..n : /\ pairs[i] \in Rec
                         /\ pairs[i].quantity = taken[ids[i]] /\ taken[ids[i]] \in Nat
    <3> SUFFICES ASSUME NEW i \in 1..n
                 PROVE  /\ pairs[i] \in Rec
                        /\ pairs[i].quantity = taken[ids[i]] /\ taken[ids[i]] \in Nat
      OBVIOUS
    <3>1. PICK id \in D : id = ids[i]
      BY <2>2
    <3>2. pairs[i] = [owner |-> tick[id].owner, quantity |-> Taken(tick, id, quantity)]
      <4> HIDE DEF pairs, ids, n
      <4> QED
        BY <2>1, <3>1
    <3>3. taken[id] = Taken(tick, id, quantity)
      OBVIOUS
    <3> HIDE DEF pairs, ids, n, taken
    <3> QED
      BY <1>0, <3>1, <3>2, <3>3
  <2>4. DOMAIN pairs = 1..n /\ pairs \in [1..n -> Rec]
    <3> HIDE DEF pairs, Rec, n
    <3>1. DOMAIN pairs = 1..n /\ pairs = [i \in 1..n |-> pairs[i]]
      BY <2>1
    <3> QED
      BY <2>3, <3>1, Zenon
  <2>5. pairs \in Seq(Rec) /\ Len(pairs) = n
    <3> HIDE DEF pairs, Rec, n
    <3> QED
      BY <1>2, <2>4
  <2>6. DOMAIN f = 1..n /\ \A i \in 1..n : f[i] \in Int /\ taken[ids[i]] = f[i]
    <3> HIDE DEF pairs, taken, ids, n, Rec
    <3> QED
      BY <2>3, <2>5 DEF QuantitiesOf
  <2>7. SumFunctionOnSet(f, 1..n) = SumFunctionOnSet(taken, R)
    <3> HIDE DEF f, taken, ids, n, R
    <3> QED
      BY <1>2, <2>6, SumAlong
  <2>8. SumFunctionOnSet(taken, D) = SumFunctionOnSet(taken, R)
    <3>1. \A i \in D \ R : taken[i] = 0
      BY DEF Taken
    <3>2. \A i \in R : taken[i] \in Int
      <4> HIDE DEF taken, R
      <4> QED
        BY <1>0, <1>1
    <3> HIDE DEF taken, R, D
    <3> QED
      BY <1>0, <1>1, <3>1, <3>2, SumSupport, Zenon
  <2>9. SumFunctionOnSet(taken, D) = Smaller(quantity, Depth(tick))
    BY <1>TakenTogether
  <2>10. SumFunction(f) = Smaller(quantity, Depth(tick))
    <3> HIDE DEF taken, R, D, f, n
    <3> QED
      BY <2>6, <2>7, <2>8, <2>9 DEF SumFunction
  <2> QED
    BY <2>5, <2>10
<1> QED
  BY <1>5, <1>6

(* Levels and ticks keep their shape.                                      *)

\* One side of the book: finitely many levels at natural prices.
IsBook(levels, owners) ==
  /\ DOMAIN levels \in SUBSET Nat /\ IsFiniteSet(DOMAIN levels)
  /\ \A p \in DOMAIN levels : IsTick(levels[p], owners)

\* An empty book.
LEMMA NoLevelsIsBook == ASSUME NEW owners PROVE IsBook(NoLevels, owners)
  BY FS_EmptySet DEF IsBook, NoLevels

\* A level after a fill.
LEMMA FilledIsTick ==
  ASSUME NEW owners, NEW tick, IsTick(tick, owners), NEW quantity \in Nat
  PROVE  IsTick(Filled(tick, quantity), owners)
<1> DEFINE after == Filled(tick, quantity)
<1>1. DOMAIN after = DOMAIN tick \ Exhausted(tick, quantity)
  BY DEF Filled
<1>2. DOMAIN after \in SUBSET Nat /\ IsFiniteSet(DOMAIN after)
  BY <1>1, FS_Subset DEF IsTick
<1>3. ASSUME NEW id \in DOMAIN after
      PROVE  after[id] \in [owner : owners, quantity : Nat]
  <2>1. id \in DOMAIN tick /\ tick[id] \in [owner : owners, quantity : Nat]
    BY <1>1 DEF IsTick
  <2>2. /\ Taken(tick, id, quantity) \in Nat
        /\ Taken(tick, id, quantity) <= tick[id].quantity
    BY <2>1, TakenTypes
  <2>3. after[id] = [tick[id] EXCEPT !.quantity = @ - Taken(tick, id, quantity)]
    BY <1>1 DEF Filled
  <2> HIDE DEF after
  <2> QED
    BY <2>1, <2>2, <2>3
<1>4. after = [id \in DOMAIN after |-> after[id]]
  BY <1>1 DEF Filled
<1> HIDE DEF after
<1> QED
  BY <1>2, <1>3, <1>4 DEF IsTick, after

\* A level after a cancellation.
LEMMA CanceledIsTick ==
  ASSUME NEW owners, NEW tick, IsTick(tick, owners), NEW id \in DOMAIN tick,
         NEW quantity \in Nat, quantity <= tick[id].quantity
  PROVE  IsTick(Canceled(tick, id, quantity), owners)
<1>1. CASE tick[id].quantity = quantity
  <2>1. IsFiniteSet(DOMAIN tick \ {id})
    BY FS_Subset DEF IsTick
  <2> QED
    BY <1>1, <2>1 DEF Canceled, IsTick
<1>2. CASE tick[id].quantity # quantity
  <2>1. tick[id].quantity - quantity \in Nat
    BY DEF IsTick
  <2> QED
    BY <1>2, <2>1 DEF Canceled, IsTick
<1> QED
  BY <1>1, <1>2

\* A book with one more order.
LEMMA PlacedIsBook ==
  ASSUME NEW owners, NEW levels, IsBook(levels, owners), NEW price \in Nat,
         NEW id \in Nat, NEW owner \in owners, NEW quantity \in Nat
  PROVE  IsBook(PlacedAt(levels, price, id, owner, quantity), owners)
\* A level with one more order.
<1>PlacedIsTick.
  ASSUME NEW tick, IsTick(tick, owners)
  PROVE  IsTick(Placed(tick, id, owner, quantity), owners)
  <2> USE <1>PlacedIsTick
  <2> DEFINE after == Placed(tick, id, owner, quantity)
  <2>1. DOMAIN after = DOMAIN tick \cup {id}
    BY DEF Placed
  <2>2. IsFiniteSet(DOMAIN tick \cup {id})
    BY FS_AddElement DEF IsTick
  <2>3. after \in [DOMAIN after -> [owner : owners, quantity : Nat]]
    BY DEF Placed, Order, IsTick
  <2> QED
    BY <2>1, <2>2, <2>3 DEF IsTick
\* The first order of a level.
<1>NewIsTick. IsTick(NewTick(id, owner, quantity), owners)
  <2>1. IsFiniteSet({id})
    BY FS_Singleton, Zenon
  <2> QED
    BY <2>1 DEF IsTick, NewTick, Order
<1> DEFINE after == PlacedAt(levels, price, id, owner, quantity)
<1>1. DOMAIN after = DOMAIN levels \cup {price}
  BY DEF PlacedAt
<1>2. IsFiniteSet(DOMAIN levels \cup {price})
  BY FS_AddElement DEF IsBook
<1>3. \A p \in DOMAIN levels \ {price} : after[p] = levels[p]
  BY DEF PlacedAt
<1>4. IsTick(after[price], owners)
  <2>1. after[price] = IF price \in DOMAIN levels
                       THEN Placed(levels[price], id, owner, quantity)
                       ELSE NewTick(id, owner, quantity)
    BY DEF PlacedAt
  <2> HIDE DEF after
  <2> QED
    BY <2>1, <1>PlacedIsTick, <1>NewIsTick DEF IsBook
<1> HIDE DEF after
<1> QED
  BY <1>1, <1>2, <1>3, <1>4 DEF IsBook, after

\* A book after a fill.
LEMMA FilledIsBook ==
  ASSUME NEW owners, NEW levels, IsBook(levels, owners), NEW price, NEW quantity \in Nat
  PROVE  IsBook(FilledAt(levels, price, quantity), owners)
<1> DEFINE after == FilledAt(levels, price, quantity)
<1>1. CASE price \notin DOMAIN levels
  BY <1>1 DEF FilledAt
<1>2. CASE price \in DOMAIN levels
  <2>1. IsTick(Filled(levels[price], quantity), owners)
    BY <1>2, FilledIsTick DEF IsBook
  <2>2. DOMAIN after \subseteq DOMAIN levels
    BY FilledIds
  <2>3. IsFiniteSet(DOMAIN after)
    BY <2>2, FS_Subset DEF IsBook
  <2>4. \A p \in DOMAIN after : after[p] = levels[p] \/ after[p] = Filled(levels[price], quantity)
    BY <1>2 DEF FilledAt
  <2> HIDE DEF after
  <2> QED
    BY <2>1, <2>2, <2>3, <2>4 DEF IsBook, after
<1> QED
  BY <1>1, <1>2

\* A book after a cancellation.
LEMMA CanceledIsBook ==
  ASSUME NEW owners, NEW levels, IsBook(levels, owners), NEW price, NEW id, NEW owner,
         NEW quantity \in Nat, CanCancelAt(levels, price, owner, id, quantity)
  PROVE  IsBook(CanceledAt(levels, price, id, quantity), owners)
<1> DEFINE after == CanceledAt(levels, price, id, quantity)
<1>1. price \in DOMAIN levels /\ id \in DOMAIN levels[price]
      /\ quantity <= levels[price][id].quantity
  BY DEF CanCancelAt, CanCancel, IsBook, IsTick
<1>2. IsTick(Canceled(levels[price], id, quantity), owners)
  BY <1>1, CanceledIsTick DEF IsBook
<1>3. /\ DOMAIN after = DOMAIN levels
      /\ \A p \in DOMAIN after : after[p] = levels[p] \/ after[p] = Canceled(levels[price], id, quantity)
  BY <1>1 DEF CanceledAt
<1> HIDE DEF after
<1> QED
  BY <1>2, <1>3 DEF IsBook, after

(***************************************************************************)
(* What the orders of a user weigh, an order of quantity q at price p by   *)
(* W[p][q].  The weights of the parts of an order are together at most     *)
(* that of the whole, so a fill in parts takes no more than it frees.      *)
(***************************************************************************)
IsWeight(w) == w \in [Nat -> Nat] /\ w[0] = 0

\* A quantity, and all that is left of it later, can be split.
Splits(w, quantity) ==
  \A a, b, c \in Nat : a + b <= c /\ c <= quantity => w[a] + w[b] <= w[c]

WeightOf(w, u, tick) ==
  [id \in DOMAIN tick |-> IF tick[id].owner = u THEN w[tick[id].quantity] ELSE 0]
Weighed(w, u, tick) == SumFunctionOnSet(WeightOf(w, u, tick), DOMAIN tick)

\* Weights are natural numbers.
LEMMA WeighedNatural ==
  ASSUME NEW owners, NEW tick, IsTick(tick, owners), NEW w, IsWeight(w), NEW u
  PROVE  /\ \A id \in DOMAIN tick : WeightOf(w, u, tick)[id] \in Nat
         /\ Weighed(w, u, tick) \in Nat
<1>1. \A id \in DOMAIN tick : WeightOf(w, u, tick)[id] \in Nat
  BY DEF IsTick, IsWeight, WeightOf
<1> QED
  BY <1>1, SumIsNatural DEF Weighed, IsTick

\* What is left of a level, and what was taken from it, weigh no more than
\* the level did.
LEMMA PartsWeighed ==
  ASSUME NEW owners, NEW tick, IsTick(tick, owners), NEW after, IsTick(after, owners),
         NEW w, IsWeight(w), NEW u, NEW taken \in [DOMAIN tick -> Nat],
         \A id \in DOMAIN tick : /\ Splits(w, tick[id].quantity)
                                 /\ taken[id] <= tick[id].quantity,
         DOMAIN after \subseteq DOMAIN tick,
         \A id \in DOMAIN after : /\ after[id].owner = tick[id].owner
                                  /\ after[id].quantity + taken[id] <= tick[id].quantity
  PROVE  LET part == [id \in DOMAIN tick |-> IF tick[id].owner = u THEN w[taken[id]] ELSE 0]
         IN  /\ \A id \in DOMAIN tick : part[id] \in Nat
             /\ Weighed(w, u, after) + SumFunctionOnSet(part, DOMAIN tick) <= Weighed(w, u, tick)
\* Values that are bounded one by one have bounded sums.
<1>SumBounded.
  ASSUME NEW f, NEW g, NEW h, NEW S, IsFiniteSet(S),
         \A x \in S : /\ f[x] \in Int /\ g[x] \in Int /\ h[x] \in Int
                      /\ f[x] + g[x] <= h[x]
  PROVE  SumFunctionOnSet(f, S) + SumFunctionOnSet(g, S) <= SumFunctionOnSet(h, S)
  <2> USE <1>SumBounded
  <2> DEFINE Sum(k, T) == SumFunctionOnSet(k, T)
             C == {T \in SUBSET S : Sum(f, T) + Sum(g, T) <= Sum(h, T)}
  <2>1. ASSUME NEW T \in SUBSET S, \A U \in SUBSET T : U # T => U \in C
        PROVE  T \in C
    <3>1. IsFiniteSet(T)
      BY FS_Subset
    <3>2. CASE T = {}
      BY <3>2, SumOfNothing
    <3>3. CASE T # {}
      <4>1. PICK x \in T : TRUE
        BY <3>3
      <4> DEFINE U == T \ {x}
      <4>2. U \in C /\ IsFiniteSet(U) /\ U \subseteq S
        BY <2>1, <3>1, FS_Subset
      <4>3. /\ Sum(f, T) = f[x] + Sum(f, U) /\ Sum(g, T) = g[x] + Sum(g, U)
            /\ Sum(h, T) = h[x] + Sum(h, U)
        BY <3>1, SumRemove
      <4> HIDE DEF U
      <4>4. Sum(f, U) \in Int /\ Sum(g, U) \in Int /\ Sum(h, U) \in Int
        BY <4>2, SumIsInteger
      <4>5. Sum(f, U) + Sum(g, U) <= Sum(h, U)
        BY <4>2
      <4>6. f[x] \in Int /\ g[x] \in Int /\ h[x] \in Int /\ f[x] + g[x] <= h[x]
        OBVIOUS
      <4> HIDE DEF Sum
      <4>7. Sum(f, T) + Sum(g, T) <= Sum(h, T)
        BY <4>3, <4>4, <4>5, <4>6
      <4> QED
        BY <4>7 DEF Sum
    <3> QED
      BY <3>2, <3>3
  <2>2. S \in C
    <3> HIDE DEF C
    <3> QED
      BY <2>1, SubsetInduction, Zenon
  <2> QED
    BY <2>2
<1> DEFINE part == [id \in DOMAIN tick |-> IF tick[id].owner = u THEN w[taken[id]] ELSE 0]
           left == [id \in DOMAIN tick |-> IF id \in DOMAIN after
                                           THEN WeightOf(w, u, after)[id] ELSE 0]
           whole == WeightOf(w, u, tick)
<1>1. /\ IsFiniteSet(DOMAIN tick) /\ IsFiniteSet(DOMAIN after)
      /\ \A id \in DOMAIN tick : tick[id].quantity \in Nat
      /\ \A id \in DOMAIN after : after[id].quantity \in Nat
  BY DEF IsTick
<1>2. \A id \in DOMAIN tick : part[id] \in Nat
  BY DEF IsWeight
<1>3. \A id \in DOMAIN after : WeightOf(w, u, after)[id] \in Nat
  BY WeighedNatural
<1>4. \A id \in DOMAIN tick : whole[id] \in Nat
  BY WeighedNatural
<1>5. ASSUME NEW id \in DOMAIN tick
      PROVE  left[id] \in Nat /\ left[id] + part[id] <= whole[id]
  <2>1. left[id] \in Nat
    BY <1>3, Zenon
  <2>2. CASE tick[id].owner # u
    BY <2>2 DEF WeightOf
  <2>3. CASE tick[id].owner = u /\ id \in DOMAIN after
    <3>1. w[after[id].quantity] + w[taken[id]] <= w[tick[id].quantity]
      BY <1>1, <2>3 DEF Splits
    <3> QED
      BY <2>1, <2>3, <3>1 DEF WeightOf
  <2>4. CASE tick[id].owner = u /\ id \notin DOMAIN after
    <3>1. 0 + taken[id] <= tick[id].quantity
      BY <1>1
    <3>2. w[0] + w[taken[id]] <= w[tick[id].quantity]
      BY <1>1, <3>1 DEF Splits
    <3> QED
      BY <2>4, <3>2 DEF WeightOf, IsWeight
  <2> QED
    BY <2>1, <2>2, <2>3, <2>4, Zenon
<1>6. SumFunctionOnSet(left, DOMAIN tick) = SumFunctionOnSet(WeightOf(w, u, after), DOMAIN after)
  <2>1. /\ \A id \in DOMAIN after : left[id] = WeightOf(w, u, after)[id]
        /\ \A id \in DOMAIN tick \ DOMAIN after : left[id] = 0
    OBVIOUS
  <2>2. \A id \in DOMAIN after : left[id] \in Int
    BY <1>5
  <2> HIDE DEF left
  <2>3. SumFunctionOnSet(left, DOMAIN tick) = SumFunctionOnSet(left, DOMAIN after)
    BY <1>1, <2>1, <2>2, SumSupport
  <2>4. SumFunctionOnSet(left, DOMAIN after) = SumFunctionOnSet(WeightOf(w, u, after), DOMAIN after)
    BY <1>1, <2>1, SumSame
  <2> QED
    BY <2>3, <2>4
<1> HIDE DEF part, left, whole
<1>7. SumFunctionOnSet(left, DOMAIN tick) + SumFunctionOnSet(part, DOMAIN tick)
        <= SumFunctionOnSet(whole, DOMAIN tick)
  <2>1. \A id \in DOMAIN tick : /\ left[id] \in Int /\ part[id] \in Int /\ whole[id] \in Int
                                /\ left[id] + part[id] <= whole[id]
    BY <1>2, <1>4, <1>5
  <2> QED
    BY <1>1, <2>1, <1>SumBounded
<1> QED
  BY <1>2, <1>6, <1>7 DEF Weighed, part, whole

\* What the pairs that Tick::filled returns weigh for a user.
PairWeights(w, u, pairs) ==
  [n \in 1..Len(pairs) |-> IF pairs[n].owner = u THEN w[pairs[n].quantity] ELSE 0]
PairsWeighed(w, u, pairs) == SumFunctionOnSet(PairWeights(w, u, pairs), 1..Len(pairs))

(* The same of all the levels of a side.                                   *)

IsWeights(W) == \A p \in Nat : IsWeight(W[p])
SplitsBook(W, levels) ==
  \A p \in DOMAIN levels : \A id \in DOMAIN levels[p] : Splits(W[p], levels[p][id].quantity)

LevelWeights(W, u, levels) == [p \in DOMAIN levels |-> Weighed(W[p], u, levels[p])]
BookWeighed(W, u, levels) == SumFunctionOnSet(LevelWeights(W, u, levels), DOMAIN levels)

\* Weights are natural numbers, and there are none in an empty book.
LEMMA BookWeighedNatural ==
  ASSUME NEW owners, NEW levels, IsBook(levels, owners), NEW W, IsWeights(W), NEW u
  PROVE  /\ \A p \in DOMAIN levels : /\ LevelWeights(W, u, levels)[p] = Weighed(W[p], u, levels[p])
                                     /\ LevelWeights(W, u, levels)[p] \in Nat
         /\ BookWeighed(W, u, levels) \in Nat
         /\ BookWeighed(W, u, NoLevels) = 0
<1>1. ASSUME NEW p \in DOMAIN levels
      PROVE  /\ LevelWeights(W, u, levels)[p] = Weighed(W[p], u, levels[p])
             /\ LevelWeights(W, u, levels)[p] \in Nat
  <2>1. IsWeight(W[p]) /\ IsTick(levels[p], owners)
    BY DEF IsBook, IsWeights
  <2>2. Weighed(W[p], u, levels[p]) \in Nat
    BY <2>1, WeighedNatural
  <2> QED
    BY <2>2 DEF LevelWeights
<1>2. BookWeighed(W, u, levels) \in Nat
  BY <1>1, SumIsNatural DEF BookWeighed, IsBook
<1>3. DOMAIN NoLevels = {}
  BY DEF NoLevels
<1> QED
  BY <1>1, <1>2, <1>3, SumOfNothing DEF BookWeighed

\* The weight of a book in which one level is another.
LEMMA LevelReplaced ==
  ASSUME NEW owners, NEW levels, IsBook(levels, owners), NEW after, IsBook(after, owners),
         NEW W, IsWeights(W), NEW u, NEW price \in DOMAIN levels,
         DOMAIN after = DOMAIN levels, \A p \in DOMAIN levels \ {price} : after[p] = levels[p]
  PROVE  BookWeighed(W, u, after)
           = BookWeighed(W, u, levels) + Weighed(W[price], u, after[price])
               - Weighed(W[price], u, levels[price])
<1> DEFINE f == LevelWeights(W, u, levels)
           g == LevelWeights(W, u, after)
<1>1. /\ \A p \in DOMAIN levels : f[p] = Weighed(W[p], u, levels[p]) /\ f[p] \in Nat
      /\ \A p \in DOMAIN levels : g[p] = Weighed(W[p], u, after[p]) /\ g[p] \in Nat
  BY BookWeighedNatural
<1> HIDE DEF f, g
<1>2. \A p \in DOMAIN levels \ {price} : f[p] = g[p]
  BY <1>1
<1>3. \A p \in DOMAIN levels : f[p] \in Int /\ g[p] \in Int
  BY <1>1
<1>4. SumFunctionOnSet(g, DOMAIN levels) = SumFunctionOnSet(f, DOMAIN levels) + g[price] - f[price]
  BY <1>2, <1>3, SumChange DEF IsBook
<1> QED
  BY <1>1, <1>4 DEF BookWeighed, f, g

\* Every natural number is an integer.
LEMMA NaturalsAreIntegers == \A n \in Nat : n \in Int
  OBVIOUS

\* A part of an amount is no larger than the amount.
LEMMA PartAtMost == \A a, b, c \in Nat : a + b <= c => a <= c
  OBVIOUS

\* A part replaced by a smaller one.
LEMMA SmallerPart == \A a, b, c, p \in Nat : p <= b /\ a + b <= c => a + p <= c
  OBVIOUS

\* A new order adds its weight, and splits when it does by itself.
LEMMA BookPlaced ==
  ASSUME NEW owners, NEW levels, IsBook(levels, owners), NEW W, IsWeights(W), NEW u,
         SplitsBook(W, levels), NEW price \in Nat, NEW id \in Nat, id \notin IdsOf(levels),
         NEW owner \in owners, NEW quantity \in Nat, Splits(W[price], quantity)
  PROVE  LET after == PlacedAt(levels, price, id, owner, quantity)
         IN  /\ BookWeighed(W, u, after)
                  = BookWeighed(W, u, levels) + IF owner = u THEN W[price][quantity] ELSE 0
             /\ SplitsBook(W, after)
\* A level with one more order.
<1>PlacedWeighed.
  ASSUME NEW tick, IsTick(tick, owners), NEW w, IsWeight(w), id \notin DOMAIN tick
  PROVE  Weighed(w, u, Placed(tick, id, owner, quantity))
           = Weighed(w, u, tick) + IF owner = u THEN w[quantity] ELSE 0
  <2> USE <1>PlacedWeighed
  <2> DEFINE after == Placed(tick, id, owner, quantity)
             f == WeightOf(w, u, tick)
             g == WeightOf(w, u, after)
  <2>1. /\ DOMAIN after = DOMAIN tick \cup {id}
        /\ after[id] = Order(owner, quantity)
        /\ \A i \in DOMAIN tick : after[i] = tick[i]
    BY DEF Placed
  <2> HIDE DEF after
  <2>2. /\ \A i \in DOMAIN tick : g[i] = f[i]
        /\ g[id] = IF owner = u THEN w[quantity] ELSE 0
    BY <2>1 DEF WeightOf, Order
  <2>3. /\ g[id] \in Int /\ IsFiniteSet(DOMAIN tick)
        /\ \A i \in DOMAIN tick : f[i] \in Int
    <3>1. \A i \in DOMAIN tick : f[i] \in Nat
      BY WeighedNatural
    <3> HIDE DEF f, g
    <3> QED
      BY <2>2, <3>1 DEF IsWeight, IsTick
  <2> HIDE DEF f, g
  <2>4. SumFunctionOnSet(g, DOMAIN tick \cup {id}) = SumFunctionOnSet(f, DOMAIN tick) + g[id]
    BY <2>2, <2>3, SumExtend
  <2> QED
    BY <2>1, <2>2, <2>4 DEF Weighed, f, g, after
\* The first order of a level.
<1>NewWeighed.
  ASSUME NEW w, IsWeight(w)
  PROVE  Weighed(w, u, NewTick(id, owner, quantity)) = IF owner = u THEN w[quantity] ELSE 0
  <2> USE <1>NewWeighed
  <2> DEFINE tick == NewTick(id, owner, quantity)
  <2>1. /\ DOMAIN tick = {id}
        /\ WeightOf(w, u, tick)[id] = IF owner = u THEN w[quantity] ELSE 0
    BY DEF NewTick, WeightOf, Order
  <2>2. WeightOf(w, u, tick)[id] \in Int
    BY <2>1 DEF IsWeight
  <2> HIDE DEF tick
  <2> QED
    BY <2>1, <2>2, SumOfOne, Zenon DEF Weighed, tick
<1> DEFINE after == PlacedAt(levels, price, id, owner, quantity)
           amount == IF owner = u THEN W[price][quantity] ELSE 0
<1>1. /\ DOMAIN after = DOMAIN levels \cup {price}
      /\ \A p \in DOMAIN levels \ {price} : after[p] = levels[p]
      /\ after[price] = IF price \in DOMAIN levels
                        THEN Placed(levels[price], id, owner, quantity)
                        ELSE NewTick(id, owner, quantity)
  BY DEF PlacedAt
<1>2. IsBook(after, owners) /\ IsWeight(W[price])
  BY PlacedIsBook DEF IsWeights
<1>3. amount \in Nat
  BY <1>2 DEF IsWeight
<1> HIDE DEF after
<1>4. SplitsBook(W, after)
  <2>1. \A i \in DOMAIN after[price] : Splits(W[price], after[price][i].quantity)
    BY <1>1 DEF SplitsBook, Placed, NewTick, Order
  <2> QED
    BY <1>1, <2>1 DEF SplitsBook
<1>5. CASE price \in DOMAIN levels
  <2>1. id \notin DOMAIN levels[price] /\ IsTick(levels[price], owners)
    BY <1>5, IdsAtLevels DEF IsBook
  <2>2. Weighed(W[price], u, after[price]) = Weighed(W[price], u, levels[price]) + amount
    BY <1>1, <1>2, <1>5, <2>1, <1>PlacedWeighed
  <2>3. Weighed(W[price], u, levels[price]) \in Nat /\ BookWeighed(W, u, levels) \in Nat
    BY <1>2, <2>1, WeighedNatural, BookWeighedNatural
  <2>4. DOMAIN after = DOMAIN levels
    BY <1>1, <1>5, Zenon
  <2>5. BookWeighed(W, u, after)
          = BookWeighed(W, u, levels) + Weighed(W[price], u, after[price])
              - Weighed(W[price], u, levels[price])
    BY <1>1, <1>2, <1>5, <2>4, LevelReplaced
  <2> HIDE DEF amount
  <2> QED
    BY <1>3, <1>4, <2>2, <2>3, <2>5 DEF after, amount
<1>6. CASE price \notin DOMAIN levels
  <2> DEFINE f == LevelWeights(W, u, levels)
             g == LevelWeights(W, u, after)
  <2>1. Weighed(W[price], u, after[price]) = amount
    BY <1>1, <1>2, <1>6, <1>NewWeighed, Zenon
  <2>2. \A p \in DOMAIN levels : f[p] = Weighed(W[p], u, levels[p]) /\ f[p] \in Nat
    BY BookWeighedNatural
  <2>3. \A p \in DOMAIN after : g[p] = Weighed(W[p], u, after[p]) /\ g[p] \in Nat
    BY <1>2, BookWeighedNatural
  <2> HIDE DEF f, g, amount
  <2>4. /\ \A p \in DOMAIN levels : f[p] = g[p] /\ f[p] \in Int
        /\ g[price] = amount /\ g[price] \in Int
    <3>1. \A p \in DOMAIN levels : p # price /\ p \in DOMAIN after /\ after[p] = levels[p]
      BY <1>1, <1>6, Zenon
    <3>2. price \in DOMAIN after
      BY <1>1, Zenon
    <3> QED
      BY <2>1, <2>2, <2>3, <3>1, <3>2, NaturalsAreIntegers, Zenon
  <2>5. SumFunctionOnSet(g, DOMAIN levels \cup {price}) = SumFunctionOnSet(f, DOMAIN levels) + g[price]
    BY <1>6, <2>4, SumExtend DEF IsBook
  <2> QED
    BY <1>1, <1>4, <2>4, <2>5, Zenon DEF BookWeighed, f, g, after, amount
<1> QED
  BY <1>5, <1>6

\* A cancellation adds no weight to the book.
LEMMA BookCanceled ==
  ASSUME NEW owners, NEW levels, IsBook(levels, owners), NEW W, IsWeights(W), NEW u,
         SplitsBook(W, levels), NEW price, NEW id, NEW owner,
         NEW quantity \in Nat, CanCancelAt(levels, price, owner, id, quantity)
  PROVE  LET after == CanceledAt(levels, price, id, quantity)
         IN  /\ BookWeighed(W, u, after) <= BookWeighed(W, u, levels)
             /\ SplitsBook(W, after)
\* A cancellation adds no weight.
<1>CanceledWeighed.
  ASSUME NEW tick, IsTick(tick, owners), NEW w, IsWeight(w),
         \A i \in DOMAIN tick : Splits(w, tick[i].quantity),
         id \in DOMAIN tick, quantity <= tick[id].quantity
  PROVE  /\ Weighed(w, u, Canceled(tick, id, quantity)) <= Weighed(w, u, tick)
         /\ \A i \in DOMAIN Canceled(tick, id, quantity) :
              Splits(w, Canceled(tick, id, quantity)[i].quantity)
  <2> USE <1>CanceledWeighed
  <2> DEFINE after == Canceled(tick, id, quantity)
             taken == [i \in DOMAIN tick |-> 0]
             part == [i \in DOMAIN tick |-> IF tick[i].owner = u THEN w[taken[i]] ELSE 0]
  <2>1. IsTick(after, owners)
    BY CanceledIsTick, Zenon
  <2>2. /\ DOMAIN after \subseteq DOMAIN tick
        /\ \A i \in DOMAIN after : /\ after[i].owner = tick[i].owner
                                   /\ after[i].quantity <= tick[i].quantity
    BY DEF Canceled, IsTick
  <2>3. \A i \in DOMAIN tick : tick[i].quantity \in Nat
    BY DEF IsTick
  <2>4. \A i \in DOMAIN after : after[i].quantity \in Nat
    <3> HIDE DEF after
    <3> QED
      BY <2>1 DEF IsTick
  <2> HIDE DEF after
  <2>5. /\ \A i \in DOMAIN tick : part[i] \in Nat
        /\ Weighed(w, u, after) + SumFunctionOnSet(part, DOMAIN tick) <= Weighed(w, u, tick)
    <3>1. /\ taken \in [DOMAIN tick -> Nat]
          /\ \A i \in DOMAIN tick : taken[i] <= tick[i].quantity
          /\ \A i \in DOMAIN after : after[i].quantity + taken[i] <= tick[i].quantity
      BY <2>2, <2>3, <2>4
    <3> HIDE DEF taken
    <3> QED
      BY <2>1, <2>2, <3>1, PartsWeighed, Zenon
  <2> HIDE DEF part
  <2>6. SumFunctionOnSet(part, DOMAIN tick) \in Nat
    BY <2>5, SumIsNatural DEF IsTick
  <2>7. Weighed(w, u, after) \in Nat /\ Weighed(w, u, tick) \in Nat
    BY <2>1, WeighedNatural
  <2>8. \A i \in DOMAIN after : Splits(w, after[i].quantity)
    BY <2>2, <2>3, <2>4 DEF Splits
  <2>9. Weighed(w, u, after) <= Weighed(w, u, tick)
    BY <2>5, <2>6, <2>7, PartAtMost, Zenon
  <2> QED
    BY <2>8, <2>9, Zenon DEF after
<1> DEFINE after == CanceledAt(levels, price, id, quantity)
<1>1. /\ price \in DOMAIN levels /\ id \in DOMAIN levels[price]
      /\ quantity <= levels[price][id].quantity
  BY DEF CanCancelAt, CanCancel, IsBook, IsTick
<1>2. /\ IsTick(levels[price], owners) /\ IsWeight(W[price])
      /\ \A i \in DOMAIN levels[price] : Splits(W[price], levels[price][i].quantity)
  BY <1>1 DEF IsBook, IsWeights, SplitsBook
<1>3. /\ DOMAIN after = DOMAIN levels
      /\ \A p \in DOMAIN levels \ {price} : after[p] = levels[p]
      /\ after[price] = Canceled(levels[price], id, quantity)
  BY <1>1 DEF CanceledAt
<1>4. IsBook(after, owners)
  BY CanceledIsBook
<1> HIDE DEF after
<1>5. /\ Weighed(W[price], u, after[price]) <= Weighed(W[price], u, levels[price])
      /\ \A i \in DOMAIN after[price] : Splits(W[price], after[price][i].quantity)
  BY <1>1, <1>2, <1>3, <1>CanceledWeighed, Zenon
<1>6. BookWeighed(W, u, after)
        = BookWeighed(W, u, levels) + Weighed(W[price], u, after[price])
            - Weighed(W[price], u, levels[price])
  BY <1>1, <1>3, <1>4, LevelReplaced
<1>7. /\ Weighed(W[price], u, levels[price]) \in Nat /\ BookWeighed(W, u, levels) \in Nat
      /\ Weighed(W[price], u, after[price]) \in Nat
  BY <1>1, <1>2, <1>3, <1>4, WeighedNatural, BookWeighedNatural, Zenon DEF IsBook
<1>8. SplitsBook(W, after)
  BY <1>3, <1>5, Zenon DEF SplitsBook
<1>9. BookWeighed(W, u, after) <= BookWeighed(W, u, levels)
  BY <1>5, <1>6, <1>7
<1> QED
  BY <1>8, <1>9 DEF after

\* A fill of a level: what the book loses covers the pairs that are returned.
LEMMA BookFilled ==
  ASSUME NEW owners, NEW levels, IsBook(levels, owners), NEW W, IsWeights(W), NEW u,
         SplitsBook(W, levels), NEW price \in Nat, NEW quantity \in Nat
  PROVE  LET after == FilledAt(levels, price, quantity)
             pairs == FilledPairsAt(levels, price, quantity)
         IN  /\ BookWeighed(W, u, after) + PairsWeighed(W[price], u, pairs)
                  <= BookWeighed(W, u, levels)
             /\ SplitsBook(W, after)
\* A fill: the pairs that are returned and what is left weigh no more than the
\* level did.
<1>FilledWeighed.
  ASSUME NEW tick, IsTick(tick, owners), NEW w, IsWeight(w),
         \A i \in DOMAIN tick : Splits(w, tick[i].quantity)
  PROVE  /\ Weighed(w, u, Filled(tick, quantity))
              + PairsWeighed(w, u, FilledPairs(tick, quantity)) <= Weighed(w, u, tick)
         /\ PairsWeighed(w, u, FilledPairs(tick, quantity)) \in Nat
         /\ \A i \in DOMAIN Filled(tick, quantity) :
              Splits(w, Filled(tick, quantity)[i].quantity)
  <2> USE <1>FilledWeighed
  \* The pairs weigh what is taken from the orders of the user.
  <2>PairsAreTaken.
           LET part == [id \in DOMAIN tick |-> IF tick[id].owner = u
                                               THEN w[Taken(tick, id, quantity)] ELSE 0]
           IN  PairsWeighed(w, u, FilledPairs(tick, quantity)) <= SumFunctionOnSet(part, DOMAIN tick)
    <3> DEFINE D == DOMAIN tick
               R == Reached(tick, quantity)
               ids == InIdOrder(R)
               n == Cardinality(R)
               part == [id \in D |-> IF tick[id].owner = u
                                     THEN w[Taken(tick, id, quantity)] ELSE 0]
               pairs == FilledPairs(tick, quantity)
               f == PairWeights(w, u, pairs)
    <3>0. /\ D \in SUBSET Nat /\ IsFiniteSet(D) /\ \A i \in D : part[i] \in Nat
      BY TakenTypes, Zenon DEF IsTick, IsWeight
    <3>1. R \subseteq D /\ IsFiniteSet(R) /\ R \in SUBSET Int
      BY <3>0, FS_Subset DEF Reached
    <3>2. Lists(ids, n, R) /\ n \in Nat /\ ids \in [1..n -> R]
      <4> HIDE DEF R
      <4> QED
        BY <3>1, IdOrder DEF Lists
    <3>3. Len(ids) = n
      <4> HIDE DEF R, ids, n
      <4> QED
        BY <3>2
    <3>4. SumFunctionOnSet(part, D) \in Nat
      <4> HIDE DEF part, D
      <4> QED
        BY <3>0, SumIsNatural, Zenon
    <3>5. CASE quantity = 0 \/ Depth(tick) = 0
      <4>1. pairs = <<>>
        BY <3>5, Zenon DEF FilledPairs
      <4>2. 1..Len(<<>>) = {}
        OBVIOUS
      <4>3. PairsWeighed(w, u, <<>>) = 0
        BY <4>2, SumOfNothing DEF PairsWeighed
      <4> HIDE DEF pairs, part
      <4> QED
        BY <3>4, <4>1, <4>3 DEF pairs, part
    <3>6. CASE ~(quantity = 0 \/ Depth(tick) = 0)
      <4>1. pairs = [i \in 1..n |-> [owner |-> tick[ids[i]].owner,
                                     quantity |-> Taken(tick, ids[i], quantity)]]
        BY <3>3, <3>6, Zenon DEF FilledPairs
      <4>2. \A i \in 1..n : ids[i] \in D
        <5> HIDE DEF R, ids, n
        <5> QED
          BY <3>1, <3>2
      <4>3. Len(pairs) = n
        <5> HIDE DEF pairs, ids, n
        <5> QED
          BY <3>2, <4>1
      <4>4. \A i \in 1..n : f[i] = part[ids[i]]
        <5> SUFFICES ASSUME NEW i \in 1..n PROVE f[i] = part[ids[i]]
          BY Zenon
        <5>1. PICK id \in D : id = ids[i]
          BY <4>2, Zenon
        <5>2. pairs[i] = [owner |-> tick[id].owner, quantity |-> Taken(tick, id, quantity)]
          <6> HIDE DEF pairs, ids, n
          <6> QED
            BY <4>1, <5>1
        <5>3. part[id] = IF tick[id].owner = u THEN w[Taken(tick, id, quantity)] ELSE 0
          OBVIOUS
        <5> HIDE DEF pairs, ids, n, part
        <5> QED
          BY <4>3, <5>1, <5>2, <5>3 DEF PairWeights
      <4>5. \A i \in 1..n : f[i] \in Int /\ part[ids[i]] = f[i]
        <5> HIDE DEF f, part, ids, n
        <5> QED
          BY <3>0, <4>2, <4>4
      <4>6. SumFunctionOnSet(f, 1..n) = SumFunctionOnSet(part, R)
        <5> HIDE DEF f, part, ids, n, R, D, pairs
        <5> QED
          BY <3>2, <4>5, SumAlong, SMTT(30)
      <4>7. SumFunctionOnSet(part, D) = SumFunctionOnSet(part, R)
        <5>1. \A i \in D \ R : part[i] = 0
          BY DEF Taken, IsWeight
        <5>2. \A i \in R : part[i] \in Int
          <6> HIDE DEF part, R
          <6> QED
            BY <3>0, <3>1
        <5> HIDE DEF part, R, D
        <5> QED
          BY <3>0, <3>1, <5>1, <5>2, SumSupport, Zenon
      <4> HIDE DEF pairs, part, n, R
      <4> QED
        BY <3>4, <4>3, <4>6, <4>7 DEF PairsWeighed, part, pairs
    <3> QED
      BY <3>5, <3>6
  <2> DEFINE after == Filled(tick, quantity)
             taken == [i \in DOMAIN tick |-> Taken(tick, i, quantity)]
             part == [i \in DOMAIN tick |-> IF tick[i].owner = u THEN w[taken[i]] ELSE 0]
             pairs == FilledPairs(tick, quantity)
  <2>1. IsTick(after, owners)
    BY FilledIsTick
  <2>2. /\ taken \in [DOMAIN tick -> Nat]
        /\ \A i \in DOMAIN tick : taken[i] <= tick[i].quantity /\ tick[i].quantity \in Nat
    BY TakenTypes, Zenon DEF IsTick
  <2>3. /\ DOMAIN after \subseteq DOMAIN tick
        /\ \A i \in DOMAIN after : /\ after[i].owner = tick[i].owner
                                   /\ after[i].quantity = tick[i].quantity - taken[i]
    BY DEF Filled, IsTick
  <2>4. /\ \A i \in DOMAIN after : after[i].quantity + taken[i] <= tick[i].quantity
        /\ \A i \in DOMAIN after : after[i].quantity <= tick[i].quantity /\ after[i].quantity \in Nat
    <3> HIDE DEF after, taken
    <3> QED
      BY <2>2, <2>3
  <2>5. PairsWeighed(w, u, pairs) <= SumFunctionOnSet(part, DOMAIN tick)
    <3>1. part = [i \in DOMAIN tick |-> IF tick[i].owner = u
                                        THEN w[Taken(tick, i, quantity)] ELSE 0]
      OBVIOUS
    <3> HIDE DEF part
    <3> QED
      BY <3>1, <2>PairsAreTaken
  <2> HIDE DEF after, taken
  <2>6. /\ \A i \in DOMAIN tick : part[i] \in Nat
        /\ Weighed(w, u, after) + SumFunctionOnSet(part, DOMAIN tick) <= Weighed(w, u, tick)
    BY <2>1, <2>2, <2>3, <2>4, PartsWeighed, Zenon
  <2> HIDE DEF part
  <2>7. SumFunctionOnSet(part, DOMAIN tick) \in Nat
    BY <2>6, SumIsNatural DEF IsTick
  <2>8. Weighed(w, u, after) \in Nat /\ Weighed(w, u, tick) \in Nat
    BY <2>1, WeighedNatural, Zenon
  <2>9. PairsWeighed(w, u, pairs) \in Nat
    <3> DEFINE Rec == [owner : owners, quantity : Nat]
    <3>1. pairs \in Seq(Rec) /\ \A r \in Rec : r.quantity \in Nat
      BY PairsTogether
    <3>2. Len(pairs) \in Nat /\ \A i \in 1..Len(pairs) : pairs[i].quantity \in Nat
      <4> HIDE DEF pairs, Rec
      <4> QED
        BY <3>1
    <3>3. \A i \in 1..Len(pairs) : PairWeights(w, u, pairs)[i] \in Nat
      <4> HIDE DEF pairs
      <4> QED
        BY <3>2 DEF PairWeights, IsWeight
    <3>4. IsFiniteSet(1..Len(pairs))
      BY <3>2, FS_Interval
    <3> HIDE DEF pairs
    <3> QED
      BY <3>3, <3>4, SumIsNatural DEF PairsWeighed
  <2>10. \A i \in DOMAIN after : Splits(w, after[i].quantity)
    BY <2>2, <2>3, <2>4 DEF Splits
  <2> HIDE DEF pairs
  <2>11. Weighed(w, u, after) + PairsWeighed(w, u, pairs) <= Weighed(w, u, tick)
    BY <2>5, <2>6, <2>7, <2>8, <2>9, SmallerPart, Zenon
  <2> QED
    BY <2>9, <2>10, <2>11, Zenon DEF after, pairs
<1> DEFINE after == FilledAt(levels, price, quantity)
           pairs == FilledPairsAt(levels, price, quantity)
           tick == Filled(levels[price], quantity)
           w == W[price]
<1>0. IsBook(after, owners) /\ BookWeighed(W, u, levels) \in Nat /\ IsWeight(w)
  BY FilledIsBook, BookWeighedNatural DEF IsWeights
<1>1. CASE price \notin DOMAIN levels
  <2>1. after = levels /\ pairs = <<>>
    BY <1>1 DEF FilledAt, FilledPairsAt
  <2>2. 1..Len(<<>>) = {}
    OBVIOUS
  <2>3. PairsWeighed(w, u, <<>>) = 0
    BY <2>2, SumOfNothing DEF PairsWeighed
  <2> HIDE DEF after, pairs
  <2> QED
    BY <1>0, <2>1, <2>3 DEF after, pairs
<1>2. CASE price \in DOMAIN levels
  <2>1. /\ IsTick(levels[price], owners)
        /\ \A i \in DOMAIN levels[price] : Splits(w, levels[price][i].quantity)
    BY <1>2 DEF IsBook, SplitsBook
  <2>2. pairs = FilledPairs(levels[price], quantity)
    BY <1>2 DEF FilledPairsAt
  <2>3. /\ Weighed(w, u, tick) + PairsWeighed(w, u, pairs) <= Weighed(w, u, levels[price])
        /\ PairsWeighed(w, u, pairs) \in Nat
        /\ \A i \in DOMAIN tick : Splits(w, tick[i].quantity)
    BY <1>0, <2>1, <2>2, <1>FilledWeighed
  <2>4. Weighed(w, u, levels[price]) \in Nat /\ Weighed(w, u, tick) \in Nat
    BY <1>0, <2>1, WeighedNatural, FilledIsTick, Zenon
  <2>5. CASE DOMAIN tick = {}
    <3> DEFINE f == LevelWeights(W, u, levels)
               g == LevelWeights(W, u, after)
    <3>1. after = [p \in DOMAIN levels \ {price} |-> levels[p]]
      BY <1>2, <2>5 DEF FilledAt
    <3> HIDE DEF after
    <3>2. /\ \A p \in DOMAIN levels : f[p] = Weighed(W[p], u, levels[p]) /\ f[p] \in Nat
          /\ \A p \in DOMAIN after : g[p] = Weighed(W[p], u, after[p])
      BY <1>0, BookWeighedNatural
    <3> HIDE DEF f, g
    <3>3. /\ \A p \in DOMAIN levels \ {price} : g[p] = f[p]
          /\ \A p \in DOMAIN levels : f[p] \in Int
          /\ IsFiniteSet(DOMAIN levels) /\ IsFiniteSet(DOMAIN levels \ {price})
      BY <3>1, <3>2, FS_Subset DEF IsBook
    <3>4. SumFunctionOnSet(f, DOMAIN levels) = f[price] + SumFunctionOnSet(f, DOMAIN levels \ {price})
      BY <1>2, <3>3, SumRemove
    <3>5. SumFunctionOnSet(g, DOMAIN levels \ {price}) = SumFunctionOnSet(f, DOMAIN levels \ {price})
      BY <3>3, SumSame
    <3>6. BookWeighed(W, u, levels) = Weighed(w, u, levels[price]) + BookWeighed(W, u, after)
      BY <1>2, <3>1, <3>2, <3>4, <3>5 DEF BookWeighed, f, g
    <3>7. BookWeighed(W, u, after) \in Nat
      BY <1>0, BookWeighedNatural
    <3>8. SplitsBook(W, after)
      BY <3>1 DEF SplitsBook
    <3> HIDE DEF pairs, tick, w
    <3> QED
      BY <1>0, <2>3, <2>4, <3>6, <3>7, <3>8 DEF after, pairs, w
  <2>6. CASE DOMAIN tick # {}
    <3>1. /\ DOMAIN after = DOMAIN levels
          /\ \A p \in DOMAIN levels \ {price} : after[p] = levels[p]
          /\ after[price] = tick
      BY <1>2, <2>6 DEF FilledAt
    <3> HIDE DEF after, pairs, tick
    <3>2. BookWeighed(W, u, after)
            = BookWeighed(W, u, levels) + Weighed(w, u, after[price])
                - Weighed(w, u, levels[price])
      BY <1>0, <1>2, <3>1, LevelReplaced
    <3>3. SplitsBook(W, after)
      BY <2>3, <3>1, Zenon DEF SplitsBook
    <3> HIDE DEF w
    <3> QED
      BY <1>0, <2>3, <2>4, <3>1, <3>2, <3>3 DEF after, pairs, w
  <2> QED
    BY <2>5, <2>6, Zenon
<1> QED
  BY <1>1, <1>2
=============================================================================
