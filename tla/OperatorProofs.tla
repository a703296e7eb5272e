------------------------- MODULE OperatorProofs ---------------------------
(***************************************************************************)
(* The operators the models are built from.  First induction over finite   *)
(* sets and natural numbers, stated with a set in the place of a predicate,*)
(* and what follows from it about the finite sums by which the models add  *)
(* up balances, LP tokens and quantities.  A sum is a fold, that is a      *)
(* recursive function on the subsets of a set.  Then what get_amount_out   *)
(* and get_amount_in promise the liquidity providers, for all reserves,    *)
(* amounts and fees: the product of the reserves does not shrink, despite  *)
(* the rounding of either division; and what add_liquidity mints and       *)
(* remove_liquidity pays, against the share of the other LP tokens.        *)
(***************************************************************************)
EXTENDS Liquidity, FiniteSets, Functions, FiniteSetTheorems, WellFoundedInduction, TLAPS

\* Induction over the subsets of a finite set.
LEMMA SubsetInduction ==
  ASSUME NEW S, IsFiniteSet(S), NEW C,
         ASSUME NEW T \in SUBSET S, \A U \in SUBSET T : U # T => U \in C
         PROVE  T \in C
  PROVE  \A T \in SUBSET S : T \in C
<1> DEFINE Bad == {T \in SUBSET S : T \notin C}
<1> SUFFICES ASSUME Bad # {} PROVE FALSE
  OBVIOUS
<1>1. Bad \subseteq FiniteSubsetsOf(S)
  BY FS_Subset DEF FiniteSubsetsOf
<1>2. PICK T \in Bad : \A U \in Bad : ~ (<<U, T>> \in StrictSubsetOrdering(S))
  <2> HIDE DEF Bad
  <2> QED
    BY <1>1, WFMin, FS_StrictSubsetOrderingWellFounded
<1>3. \A U \in SUBSET T : U # T => U \in C
  BY <1>2, Zenon DEF StrictSubsetOrdering
<1> QED
  BY <1>3

\* A finite set of integers has a least and a greatest element.
LEMMA LeastAndGreatest ==
  ASSUME NEW S \in SUBSET Int, IsFiniteSet(S), S # {}
  PROVE  /\ \E x \in S : \A y \in S : x <= y
         /\ \E x \in S : \A y \in S : y <= x
<1> DEFINE C == {T \in SUBSET S : T # {} => /\ \E x \in T : \A y \in T : x <= y
                                           /\ \E x \in T : \A y \in T : y <= x}
<1>1. ASSUME NEW T \in SUBSET S, \A U \in SUBSET T : U # T => U \in C
      PROVE  T \in C
  <2> SUFFICES ASSUME NEW z \in T
               PROVE  /\ \E x \in T : \A y \in T : x <= y
                      /\ \E x \in T : \A y \in T : y <= x
    BY Zenon
  <2>1. T \ {z} \in C
    BY <1>1, Zenon
  <2>2. CASE T \ {z} = {}
    <3>1. \A y \in T : y = z
      BY <2>2
    <3> QED
      BY <3>1
  <2>3. CASE T \ {z} # {}
    <3>1. PICK a \in T \ {z} : \A y \in T \ {z} : a <= y
      BY <2>1, <2>3
    <3>2. PICK b \in T \ {z} : \A y \in T \ {z} : y <= b
      BY <2>1, <2>3
    <3>3. \A y \in T : (IF a <= z THEN a ELSE z) <= y
      BY <3>1
    <3>4. \A y \in T : y <= (IF b <= z THEN z ELSE b)
      BY <3>2
    <3> QED
      BY <3>3, <3>4
  <2> QED
    BY <2>2, <2>3
<1>2. S \in C
  <2> HIDE DEF C
  <2> QED
    BY <1>1, SubsetInduction, Zenon
<1> QED
  BY <1>2

\* Induction over the natural numbers.
LEMMA NaturalInduction ==
  ASSUME NEW C, 0 \in C, \A n \in Nat : n \in C => n + 1 \in C
  PROVE  \A n \in Nat : n \in C
<1> SUFFICES ASSUME NEW n \in Nat, n \notin C PROVE FALSE
  OBVIOUS
<1> DEFINE Bad == {m \in 0..n : m \notin C}
<1>1. Bad \in SUBSET Int /\ IsFiniteSet(Bad) /\ Bad # {}
  <2>1. IsFiniteSet(0..n)
    BY FS_Interval
  <2> QED
    BY <2>1, FS_Subset
<1>2. PICK m \in Bad : \A y \in Bad : m <= y
  <2> HIDE DEF Bad
  <2> QED
    BY <1>1, LeastAndGreatest
<1>3. m # 0 /\ m - 1 \in Nat /\ m - 1 \in C
  BY <1>2
<1> QED
  BY <1>2, <1>3

\* The turns of the fold of SumFunctionOnSet.
Chosen(s) == CHOOSE x \in s : TRUE
Follows(g, f, S) ==
  g = [s \in SUBSET S |-> IF s = {} THEN 0 ELSE f[Chosen(s)] + g[s \ {Chosen(s)}]]

\* An element is chosen from every set that has one.
LEMMA ChosenInSet == ASSUME NEW s, s # {} PROVE Chosen(s) \in s
  BY DEF Chosen

\* What a sum is: nothing for no element, else one element and the rest.
LEMMA SumTurn ==
  ASSUME NEW f, NEW S, IsFiniteSet(S)
  PROVE  SumFunctionOnSet(f, S) =
           IF S = {} THEN 0
           ELSE f[Chosen(S)] + SumFunctionOnSet(f, S \ {Chosen(S)})
\* A sum is the result of a function that follows the turns.
<1>SumIsFold.
  ASSUME NEW v, NEW R
  PROVE  SumFunctionOnSet(v, R) = (CHOOSE g : Follows(g, v, R))[R]
  BY <1>SumIsFold DEF SumFunctionOnSet, FoldFunctionOnSet, MapThenFoldSet, Follows, Chosen
\* Two functions that follow the turns agree wherever both are defined.
<1>FollowsAgree.
  ASSUME NEW v, NEW R, NEW T, IsFiniteSet(R), T \subseteq R,
         NEW g, NEW h, Follows(g, v, R), Follows(h, v, T)
  PROVE  g[T] = h[T]
  <2> USE <1>FollowsAgree
  <2> DEFINE C == {U \in SUBSET T : g[U] = h[U]}
  <2>1. IsFiniteSet(T)
    BY FS_Subset
  <2>2. ASSUME NEW U \in SUBSET T, \A V \in SUBSET U : V # U => V \in C
        PROVE  U \in C
    <3>1. CASE U = {}
      BY <3>1 DEF Follows
    <3>2. CASE U # {}
      <4>1. Chosen(U) \in U
        BY <3>2, ChosenInSet
      <4>2. g[U \ {Chosen(U)}] = h[U \ {Chosen(U)}]
        BY <2>2, <4>1
      <4>3. g[U] = v[Chosen(U)] + g[U \ {Chosen(U)}]
        BY <3>2, Zenon DEF Follows
      <4>4. h[U] = v[Chosen(U)] + h[U \ {Chosen(U)}]
        BY <3>2, Zenon DEF Follows
      <4> QED
        BY <4>2, <4>3, <4>4
    <3> QED
      BY <3>1, <3>2
  <2>3. \A U \in SUBSET T : U \in C
    <3> HIDE DEF C
    <3> QED
      BY <2>1, <2>2, SubsetInduction, Zenon
  <2> QED
    BY <2>3
\* Some function follows the turns.
<1>FollowsExists.
  ASSUME NEW v, NEW R, IsFiniteSet(R)
  PROVE  \E g : Follows(g, v, R)
  <2> USE <1>FollowsExists
  <2> DEFINE C == {T \in SUBSET R : \E g : Follows(g, v, T)}
             V(T) == (CHOOSE g : Follows(g, v, T))[T]
  <2>1. ASSUME NEW T \in SUBSET R, \A U \in SUBSET T : U # T => U \in C
        PROVE  T \in C
    <3> DEFINE h == [s \in SUBSET T |->
                       IF s = {} THEN 0 ELSE v[Chosen(s)] + V(s \ {Chosen(s)})]
    <3>1. \A U \in SUBSET T : U # T => Follows(CHOOSE g : Follows(g, v, U), v, U)
      BY <2>1
    <3>2. ASSUME NEW U \in SUBSET T, U # T PROVE V(U) = h[U]
      <4>1. PICK g : g = (CHOOSE k : Follows(k, v, U)) /\ Follows(g, v, U)
        BY <3>1, <3>2
      <4>2. V(U) = g[U]
        BY <4>1
      <4>3. CASE U = {}
        BY <4>1, <4>2, <4>3, Zenon DEF Follows
      <4>4. CASE U # {}
        <5> DEFINE W == U \ {Chosen(U)}
        <5>1. Chosen(U) \in U
          BY <4>4, ChosenInSet
        <5>2. W \in SUBSET T /\ W # T /\ W \subseteq U
          BY <3>2, <5>1
        <5>3. PICK k : k = (CHOOSE j : Follows(j, v, W)) /\ Follows(k, v, W)
          <6> HIDE DEF W
          <6> QED
            BY <3>1, <5>2
        <5>4. g[W] = k[W]
          <6> HIDE DEF W
          <6>1. IsFiniteSet(U)
            BY FS_Subset
          <6> QED
            BY <4>1, <5>2, <5>3, <6>1, <1>FollowsAgree
        <5>5. g[U] = v[Chosen(U)] + g[W]
          BY <4>1, <4>4, Zenon DEF Follows
        <5>6. h[U] = v[Chosen(U)] + V(W)
          BY <4>4
        <5> QED
          BY <4>2, <5>3, <5>4, <5>5, <5>6
      <4> QED
        BY <4>3, <4>4
    <3>3. ASSUME NEW s \in SUBSET T, s # {}
          PROVE  V(s \ {Chosen(s)}) = h[s \ {Chosen(s)}]
      <4>1. Chosen(s) \in s
        BY <3>3, ChosenInSet
      <4>2. s \ {Chosen(s)} \in SUBSET T /\ s \ {Chosen(s)} # T
        BY <4>1
      <4> HIDE DEF h, V
      <4> QED
        BY <3>2, <4>2
    <3>4. h = [s \in SUBSET T |-> IF s = {} THEN 0 ELSE v[Chosen(s)] + h[s \ {Chosen(s)}]]
      <4>1. \A s \in SUBSET T :
              (IF s = {} THEN 0 ELSE v[Chosen(s)] + V(s \ {Chosen(s)}))
                = (IF s = {} THEN 0 ELSE v[Chosen(s)] + h[s \ {Chosen(s)}])
        <5> HIDE DEF h, V
        <5> QED
          BY <3>3
      <4> HIDE DEF V
      <4> DEFINE k == h
      <4>2. h = k
        OBVIOUS
      <4> HIDE DEF k
      <4> QED
        BY <4>1, <4>2, Zenon
    <3>5. Follows(h, v, T)
      <4> HIDE DEF h
      <4> QED
        BY <3>4, Zenon DEF Follows
    <3> QED
      BY <3>5
  <2>2. R \in C
    <3> HIDE DEF C
    <3> QED
      BY <2>1, SubsetInduction, Zenon
  <2> QED
    BY <2>2
<1>1. PICK g : Follows(g, f, S) /\ SumFunctionOnSet(f, S) = g[S]
  BY <1>FollowsExists, <1>SumIsFold
<1>2. CASE S = {}
  BY <1>1, <1>2 DEF Follows
<1>3. CASE S # {}
  <2> DEFINE T == S \ {Chosen(S)}
  <2>1. IsFiniteSet(T) /\ T \subseteq S
    BY FS_Subset
  <2>2. PICK h : Follows(h, f, T) /\ SumFunctionOnSet(f, T) = h[T]
    BY <2>1, <1>FollowsExists, <1>SumIsFold
  <2>3. g[T] = h[T]
    <3> HIDE DEF T
    <3> QED
      BY <1>1, <2>1, <2>2, <1>FollowsAgree
  <2>4. g[S] = f[Chosen(S)] + g[T]
    BY <1>1, <1>3, Zenon DEF Follows
  <2> QED
    BY <1>1, <1>3, <2>2, <2>3, <2>4
<1> QED
  BY <1>2, <1>3

\* The sum of nothing.
LEMMA SumOfNothing == ASSUME NEW f PROVE SumFunctionOnSet(f, {}) = 0
<1>1. IsFiniteSet({})
  BY FS_EmptySet
<1> QED
  BY <1>1, SumTurn

\* A sum of integers is an integer.
LEMMA SumIsInteger ==
  ASSUME NEW f, NEW S, IsFiniteSet(S), \A x \in S : f[x] \in Int
  PROVE  SumFunctionOnSet(f, S) \in Int
<1> DEFINE C == {T \in SUBSET S : SumFunctionOnSet(f, T) \in Int}
<1>1. ASSUME NEW T \in SUBSET S, \A U \in SUBSET T : U # T => U \in C
      PROVE  T \in C
  <2>1. IsFiniteSet(T)
    BY FS_Subset
  <2>2. CASE T = {}
    BY <2>2, SumOfNothing
  <2>3. CASE T # {}
    <3>1. Chosen(T) \in T
      BY <2>3, ChosenInSet
    <3>2. SumFunctionOnSet(f, T \ {Chosen(T)}) \in Int
      BY <1>1, <3>1
    <3> QED
      BY <2>1, <2>3, <3>1, <3>2, SumTurn
  <2> QED
    BY <2>2, <2>3
<1>2. S \in C
  <2> HIDE DEF C
  <2> QED
    BY <1>1, SubsetInduction, Zenon
<1> QED
  BY <1>2

\* Any element may be taken out first.
LEMMA SumRemove ==
  ASSUME NEW f, NEW S, IsFiniteSet(S), \A x \in S : f[x] \in Int, NEW x \in S
  PROVE  SumFunctionOnSet(f, S) = f[x] + SumFunctionOnSet(f, S \ {x})
<1> DEFINE Sum(T) == SumFunctionOnSet(f, T)
           C == {T \in SUBSET S : \A y \in T : Sum(T) = f[y] + Sum(T \ {y})}
<1>0. \A T \in SUBSET S : IsFiniteSet(T) /\ Sum(T) \in Int
  BY FS_Subset, SumIsInteger
<1>1. ASSUME NEW T \in SUBSET S, \A U \in SUBSET T : U # T => U \in C
      PROVE  T \in C
  <2> SUFFICES ASSUME NEW y \in T PROVE Sum(T) = f[y] + Sum(T \ {y})
    OBVIOUS
  <2>1. PICK c \in T : c = Chosen(T) /\ Sum(T) = f[c] + Sum(T \ {c})
    BY <1>0, ChosenInSet, SumTurn
  <2>2. CASE y = c
    BY <2>1, <2>2
  <2>3. CASE y # c
    <3>1. Sum(T \ {c}) = f[y] + Sum((T \ {c}) \ {y})
      <4> HIDE DEF Sum
      <4> QED
        BY <1>1, <2>3
    <3>2. Sum(T \ {y}) = f[c] + Sum((T \ {y}) \ {c})
      <4> HIDE DEF Sum
      <4> QED
        BY <1>1, <2>3
    <3>3. (T \ {c}) \ {y} = (T \ {y}) \ {c}
      OBVIOUS
    <3>4. f[c] \in Int /\ f[y] \in Int /\ Sum((T \ {y}) \ {c}) \in Int
      BY <1>0
    <3>5. ASSUME NEW a \in Int, NEW b \in Int, NEW rest \in Int
          PROVE  a + (b + rest) = b + (a + rest)
      OBVIOUS
    <3> HIDE DEF Sum
    <3>6. f[c] + (f[y] + Sum((T \ {y}) \ {c})) = f[y] + (f[c] + Sum((T \ {y}) \ {c}))
      BY <3>4, <3>5
    <3> QED
      BY <2>1, <3>1, <3>2, <3>3, <3>6, Zenon
  <2> QED
    BY <2>2, <2>3
<1>2. S \in C
  <2> HIDE DEF C
  <2> QED
    BY <1>1, SubsetInduction, Zenon
<1> QED
  BY <1>2

\* A sum depends on the values at the elements it adds up.
LEMMA SumSame ==
  ASSUME NEW f, NEW g, NEW S, IsFiniteSet(S), \A x \in S : f[x] = g[x]
  PROVE  SumFunctionOnSet(f, S) = SumFunctionOnSet(g, S)
<1> DEFINE C == {T \in SUBSET S : SumFunctionOnSet(f, T) = SumFunctionOnSet(g, T)}
<1>1. ASSUME NEW T \in SUBSET S, \A U \in SUBSET T : U # T => U \in C
      PROVE  T \in C
  <2>1. IsFiniteSet(T)
    BY FS_Subset
  <2>2. CASE T = {}
    BY <2>2, SumOfNothing
  <2>3. CASE T # {}
    <3>1. Chosen(T) \in T
      BY <2>3, ChosenInSet
    <3>2. SumFunctionOnSet(f, T \ {Chosen(T)}) = SumFunctionOnSet(g, T \ {Chosen(T)})
      BY <1>1, <3>1
    <3>3. f[Chosen(T)] = g[Chosen(T)]
      BY <3>1
    <3>4. SumFunctionOnSet(f, T) = f[Chosen(T)] + SumFunctionOnSet(f, T \ {Chosen(T)})
      BY <2>1, <2>3, SumTurn
    <3>5. SumFunctionOnSet(g, T) = g[Chosen(T)] + SumFunctionOnSet(g, T \ {Chosen(T)})
      BY <2>1, <2>3, SumTurn
    <3> QED
      BY <3>2, <3>3, <3>4, <3>5
  <2> QED
    BY <2>2, <2>3
<1>2. S \in C
  <2> HIDE DEF C
  <2> QED
    BY <1>1, SubsetInduction, Zenon
<1> QED
  BY <1>2

\* Changing one value changes the sum by as much.
LEMMA SumChange ==
  ASSUME NEW f, NEW g, NEW S, IsFiniteSet(S), NEW x \in S,
         \A y \in S : f[y] \in Int /\ g[y] \in Int,
         \A y \in S \ {x} : f[y] = g[y]
  PROVE  SumFunctionOnSet(g, S) = SumFunctionOnSet(f, S) + g[x] - f[x]
<1>1. IsFiniteSet(S \ {x})
  BY FS_Subset
<1>2. SumFunctionOnSet(g, S \ {x}) = SumFunctionOnSet(f, S \ {x})
  BY <1>1, SumSame
<1>3. SumFunctionOnSet(f, S \ {x}) \in Int
  BY <1>1, SumIsInteger
<1>4. SumFunctionOnSet(f, S) = f[x] + SumFunctionOnSet(f, S \ {x})
  BY SumRemove
<1>5. SumFunctionOnSet(g, S) = g[x] + SumFunctionOnSet(g, S \ {x})
  BY SumRemove
<1> QED
  BY <1>2, <1>3, <1>4, <1>5

\* The sum of one value for the members of U and of nothing for the others.
LEMMA SumOfSome ==
  ASSUME NEW f, NEW S, IsFiniteSet(S), NEW U, NEW c \in Int,
         \A x \in S : f[x] = IF x \in U THEN c ELSE 0
  PROVE  SumFunctionOnSet(f, S) = Cardinality(S \cap U) * c
<1> DEFINE C == {T \in SUBSET S : SumFunctionOnSet(f, T) = Cardinality(T \cap U) * c}
<1>1. ASSUME NEW T \in SUBSET S, \A V \in SUBSET T : V # T => V \in C
      PROVE  T \in C
  <2>1. IsFiniteSet(T) /\ IsFiniteSet(T \cap U)
    BY FS_Subset
  <2>2. CASE T = {}
    <3>1. SumFunctionOnSet(f, {}) = 0 /\ Cardinality({}) = 0 /\ T \cap U = {}
      BY <2>2, SumOfNothing, FS_EmptySet
    <3> QED
      BY <2>2, <3>1
  <2>3. CASE T # {}
    <3> DEFINE x == Chosen(T)
    <3>1. x \in T
      BY <2>3, ChosenInSet
    <3>2. SumFunctionOnSet(f, T \ {x}) = Cardinality((T \ {x}) \cap U) * c
      BY <1>1, <3>1
    <3>3. SumFunctionOnSet(f, T) = f[x] + SumFunctionOnSet(f, T \ {x})
      BY <2>1, <2>3, <3>1, SumTurn
    <3>4. Cardinality(T \cap U) \in Nat
      BY <2>1, FS_CardinalityType
    <3> HIDE DEF x
    <3>5. CASE x \in U
      <4>1. (T \ {x}) \cap U = (T \cap U) \ {x} /\ x \in T \cap U
        BY <3>1, <3>5
      <4>2. Cardinality((T \cap U) \ {x}) = Cardinality(T \cap U) - 1
        BY <2>1, <4>1, FS_RemoveElement, Zenon
      <4>3. ASSUME NEW n \in Nat PROVE c + (n - 1) * c = n * c
        OBVIOUS
      <4>4. SumFunctionOnSet(f, T) = c + (Cardinality(T \cap U) - 1) * c
        BY <3>1, <3>2, <3>3, <3>5, <4>1, <4>2
      <4> QED
        BY <3>4, <4>3, <4>4
    <3>6. CASE x \notin U
      <4>1. (T \ {x}) \cap U = T \cap U /\ f[x] = 0
        BY <3>1, <3>6
      <4>2. ASSUME NEW n \in Nat PROVE 0 + n * c = n * c
        OBVIOUS
      <4> QED
        BY <3>2, <3>3, <3>4, <4>1, <4>2, Zenon
    <3> QED
      BY <3>5, <3>6
  <2> QED
    BY <2>2, <2>3
<1>2. S \in C
  <2> HIDE DEF C
  <2> QED
    BY <1>1, SubsetInduction, Zenon
<1> QED
  BY <1>2

\* A sum of natural numbers is one, and at least every number in it.
LEMMA SumIsNatural ==
  ASSUME NEW f, NEW S, IsFiniteSet(S), \A x \in S : f[x] \in Nat
  PROVE  /\ SumFunctionOnSet(f, S) \in Nat
         /\ \A x \in S : f[x] <= SumFunctionOnSet(f, S)
<1> DEFINE C == {T \in SUBSET S : SumFunctionOnSet(f, T) \in Nat}
<1>1. ASSUME NEW T \in SUBSET S, \A U \in SUBSET T : U # T => U \in C
      PROVE  T \in C
  <2>1. IsFiniteSet(T)
    BY FS_Subset
  <2>2. CASE T = {}
    BY <2>2, SumOfNothing
  <2>3. CASE T # {}
    <3>1. Chosen(T) \in T
      BY <2>3, ChosenInSet
    <3>2. SumFunctionOnSet(f, T \ {Chosen(T)}) \in Nat
      BY <1>1, <3>1
    <3> QED
      BY <2>1, <2>3, <3>1, <3>2, SumTurn
  <2> QED
    BY <2>2, <2>3
<1>2. \A T \in SUBSET S : T \in C
  <2> HIDE DEF C
  <2> QED
    BY <1>1, SubsetInduction, Zenon
<1>3. ASSUME NEW x \in S PROVE f[x] <= SumFunctionOnSet(f, S)
  <2>1. SumFunctionOnSet(f, S) = f[x] + SumFunctionOnSet(f, S \ {x})
    BY SumRemove
  <2>2. SumFunctionOnSet(f, S \ {x}) \in Nat
    BY <1>2
  <2> QED
    BY <2>1, <2>2
<1> QED
  BY <1>2, <1>3

(* Powers of ten, which scale prices and amounts.                          *)

\* The powers of ten up to the n-th.
Powers(g, n) ==
  /\ g \in [0..n -> Nat \ {0}]
  /\ g[0] = 1
  /\ \A i \in 1..n : g[i] = 10 * g[i - 1]

\* A power of ten is a positive natural number.
LEMMA TenToPositive == \A n \in Nat : TenTo[n] \in Nat /\ TenTo[n] > 0
\* There are such powers.
<1>PowersExist. \A n \in Nat : \E g : Powers(g, n)
  <2> DEFINE C == {n \in Nat : \E g : Powers(g, n)}
  <2>1. 0 \in C
    <3>1. Powers([i \in 0..0 |-> 1], 0)
      BY DEF Powers
    <3> QED
      BY <3>1
  <2>2. ASSUME NEW n \in Nat, n \in C PROVE n + 1 \in C
    <3>1. PICK g : Powers(g, n)
      BY <2>2
    <3> DEFINE h == [i \in 0..(n + 1) |-> IF i = n + 1 THEN 10 * g[n] ELSE g[i]]
    <3>2. Powers(h, n + 1)
      BY <3>1 DEF Powers
    <3> QED
      BY <3>2
  <2>3. \A n \in Nat : n \in C
    <3> HIDE DEF C
    <3> QED
      BY <2>1, <2>2, NaturalInduction
  <2> QED
    BY <2>3
\* There is one such sequence of powers, longer or shorter.
<1>PowersAgree.
  ASSUME NEW m \in Nat, NEW n \in Nat, m <= n,
         NEW g, NEW h, Powers(g, m), Powers(h, n)
  PROVE  g[m] = h[m]
  <2> USE <1>PowersAgree
  <2> DEFINE C == {i \in Nat : i <= m => g[i] = h[i]}
  <2>1. 0 \in C
    BY DEF Powers
  <2>2. ASSUME NEW i \in Nat, i \in C PROVE i + 1 \in C
    <3> SUFFICES ASSUME i + 1 <= m PROVE g[i + 1] = h[i + 1]
      OBVIOUS
    <3>1. i + 1 \in 1..m /\ i + 1 \in 1..n /\ (i + 1) - 1 = i /\ g[i] = h[i]
      BY <2>2
    <3> QED
      BY <3>1 DEF Powers
  <2>3. \A i \in Nat : i \in C
    <3> HIDE DEF C
    <3> QED
      BY <2>1, <2>2, NaturalInduction
  <2> QED
    BY <2>3
\* The recursive definition has a solution, so TenTo is one.
<1>TenToDefined. TenTo = [n \in Nat |-> IF n = 0 THEN 1 ELSE 10 * TenTo[n - 1]]
  <2> DEFINE P(n) == CHOOSE g : Powers(g, n)
             T == [n \in Nat |-> P(n)[n]]
  <2>1. \A n \in Nat : Powers(P(n), n)
    BY <1>PowersExist
  <2>2. ASSUME NEW n \in Nat PROVE T[n] = IF n = 0 THEN 1 ELSE 10 * T[n - 1]
    <3>1. CASE n = 0
      BY <2>1, <3>1, Zenon DEF Powers
    <3>2. CASE n # 0
      <4>1. n - 1 \in Nat /\ n - 1 <= n /\ n \in 1..n
        BY <3>2
      <4>2. P(n - 1)[n - 1] = P(n)[n - 1]
        <5> HIDE DEF P
        <5> QED
          BY <2>1, <4>1, <1>PowersAgree
      <4>3. P(n)[n] = 10 * P(n)[n - 1]
        <5> HIDE DEF P
        <5> QED
          BY <2>1, <4>1 DEF Powers
      <4>4. T[n] = P(n)[n] /\ T[n - 1] = P(n - 1)[n - 1]
        <5> HIDE DEF P
        <5> QED
          BY <4>1
      <4> QED
        BY <3>2, <4>2, <4>3, <4>4
    <3> QED
      BY <3>1, <3>2
  <2>3. T = [n \in Nat |-> IF n = 0 THEN 1 ELSE 10 * T[n - 1]]
    <3>1. DOMAIN T = Nat /\ T = [n \in Nat |-> T[n]]
      OBVIOUS
    <3> HIDE DEF T
    <3> QED
      BY <2>2, <3>1, Zenon
  <2> HIDE DEF T
  <2> QED
    BY <2>3 DEF TenTo
<1> DEFINE C == {n \in Nat : TenTo[n] \in Nat /\ TenTo[n] > 0}
<1>0. TenTo[0] = 1 /\ \A n \in Nat : TenTo[n + 1] = 10 * TenTo[n]
  <2>1. \A n \in Nat : TenTo[n] = IF n = 0 THEN 1 ELSE 10 * TenTo[n - 1]
    BY <1>TenToDefined
  <2>2. \A n \in Nat : n + 1 \in Nat /\ n + 1 # 0 /\ (n + 1) - 1 = n
    OBVIOUS
  <2> QED
    BY <2>1, <2>2
<1>1. 0 \in C
  BY <1>0
<1>2. ASSUME NEW n \in Nat, n \in C PROVE n + 1 \in C
  BY <1>0, <1>2
<1>3. \A n \in Nat : n \in C
  <2> HIDE DEF C
  <2> QED
    BY <1>1, <1>2, NaturalInduction
<1> QED
  BY <1>3

(* What the calculations of lib.rs return: a T::Unit, or an error.          *)

Unit == 0..(UnitRange - 1)
UnitOrErr == Unit \cup {Err}

\* Wrapping gives a T::Unit.
LEMMA WrapType == ASSUME NEW x \in Int PROVE Wrap(x) \in Unit
  BY AmmAssumption DEF Wrap, Unit

\* Normalize::normalize gives a T::Unit.
LEMMA NormalizeType == ASSUME NEW x \in Unit, NEW adj \in Nat PROVE Normalize(x, adj) \in Unit
<1>1. TenTo[adj] \in Nat
  BY TenToPositive
<1>2. x * TenTo[adj] \in Int
  BY <1>1 DEF Unit
<1> QED
  BY <1>2, WrapType DEF Normalize

\* The adjustments of Pool::decimal_adjustment.
LEMMA AdjustmentTypes == BAdj \in Nat /\ QAdj \in Nat
  BY AmmAssumption DEF BAdj, QAdj

\* A quotient of naturals is a natural.
LEMMA QuotientType ==
  ASSUME NEW x \in Nat, NEW d \in Nat, d > 0
  PROVE  x \div d \in Nat
  OBVIOUS

\* The step by which the bounds move is a T::Unit.
LEMMA StepType == Step \in Unit
<1>1. 1 \in Unit
  BY AmmAssumption DEF Unit
<1> QED
  BY <1>1, NormalizeType, AmmAssumption DEF Step

(* The two swap formulas.                                                  *)

\* The share of an input that is left after the fee of get_amount_out.
LEMMA FeeFactorRange == FeeFactor \in 1..1000
  BY AmmAssumption DEF FeeFactor

\* The fee factors of get_amount_out, as a set of its own.
Fees == 1..1000

\* The floor division of mul_div: quotient and remainder.
LEMMA Division ==
  ASSUME NEW x \in Nat, NEW d \in Nat, d > 0
  PROVE  /\ x \div d \in Nat
         /\ d * (x \div d) <= x
         /\ x < d * (x \div d) + d
  OBVIOUS

\* A product grows with its factors.
LEMMA ProductMonotonic ==
  ASSUME NEW a \in Nat, NEW b \in Nat, NEW c \in Nat, a <= b
  PROVE  a * c <= b * c /\ c * a <= c * b
  OBVIOUS

\* A positive factor cancels from an inequality.
LEMMA FactorCancels ==
  ASSUME NEW a \in Nat, NEW b \in Nat, NEW c \in Nat, c > 0, a * c <= b * c
  PROVE  a <= b
<1>1. a * c <= b * c <=> (b - a) * c >= 0
  OBVIOUS
<1>2. b - a < 0 => (b - a) * c < 0
  OBVIOUS
<1> QED
  BY <1>1, <1>2

\* When the pool gives no more than its share, its product does not shrink.
LEMMA ShareKeepsProduct ==
  ASSUME NEW rin \in Nat, NEW rout \in Nat, NEW in \in Nat, NEW out \in Nat,
         out <= rout, rin * out <= in * (rout - out)
  PROVE  rin * rout <= (rin + in) * (rout - out)
<1>1. (rin + in) * (rout - out) = rin * rout - rin * out + in * (rout - out)
  OBVIOUS
<1> QED
  BY <1>1

\* An output that the division of get_amount_out rounds down.
RoundedDown(out, in, f, rin, rout) ==
  out * (rin * 1000 + in * f) <= in * f * rout

\* An output that the reserve covers and the input pays for.
PaidFor(out, in, rin, rout) == out <= rout /\ rin * out <= in * (rout - out)

\* An output that is at most the exact share is covered by the reserve and costs
\* no more than the input is worth.
LEMMA AmountOutBound ==
  ASSUME NEW in \in Nat, NEW rin \in Nat, NEW rout \in Nat, NEW f \in Fees,
         NEW out \in Nat, rin > 0, RoundedDown(out, in, f, rin, rout)
  PROVE  PaidFor(out, in, rin, rout)
<1> DEFINE p == in * f
<1> USE DEF RoundedDown, Fees
<1>0. p \in Nat /\ rin * out \in Nat /\ out * p \in Nat /\ p * rout \in Nat
  OBVIOUS
<1>1. out * (rin * 1000 + p) = 1000 * (rin * out) + out * p
  OBVIOUS
<1>2. 1000 * (rin * out) + out * p <= p * rout
  BY <1>1
<1>3. out <= rout
  <2>1. out * (rin * 1000 + p) <= rout * (rin * 1000 + p)
    <3>1. p * rout <= rout * (rin * 1000) + rout * p
      BY <1>0
    <3>2. rout * (rin * 1000 + p) = rout * (rin * 1000) + rout * p
      BY <1>0
    <3> QED
      BY <1>0, <3>1, <3>2
  <2>2. rin * 1000 + p \in Nat /\ rin * 1000 + p > 0
    BY <1>0
  <2> HIDE DEF p
  <2> QED
    BY <2>1, <2>2, FactorCancels
<1>4. rout - out \in Nat /\ in * (rout - out) \in Nat
  BY <1>3
<1>5. 1000 * (rin * out) <= p * (rout - out)
  <2>1. p * (rout - out) = p * rout - out * p
    OBVIOUS
  <2> QED
    BY <1>0, <1>2, <2>1
<1>6. p * (rout - out) <= 1000 * (in * (rout - out))
  <2>1. p * (rout - out) = f * (in * (rout - out))
    OBVIOUS
  <2> QED
    BY <1>4, <2>1, ProductMonotonic
<1>7. 1000 * (rin * out) <= 1000 * (in * (rout - out))
  <2> HIDE DEF p
  <2> QED
    BY <1>0, <1>3, <1>4, <1>5, <1>6
<1>8. rin * out <= in * (rout - out)
  BY <1>0, <1>4, <1>7
<1> QED
  BY <1>3, <1>8 DEF PaidFor

\* get_amount_out: a swap with an exact input leaves the pool with a product
\* of reserves that is at least the old one, and never asks for more than the
\* reserve holds.
THEOREM GetAmountOutKeepsProduct ==
  ASSUME NEW in \in Nat, NEW rin \in Nat, NEW rout \in Nat,
         GetAmountOut(in, rin, rout) # Err
  PROVE  LET out == GetAmountOut(in, rin, rout)
         IN  /\ out \in 0..rout
             /\ rin * rout <= (rin + in) * (rout - out)
<1> DEFINE num == in * FeeFactor * rout
           den == rin * 1000 + in * FeeFactor
           out == GetAmountOut(in, rin, rout)
<1>1. rin > 0 /\ rout > 0 /\ out = num \div den
  BY DEF GetAmountOut, InUnit, Err
<1>2. num \in Nat /\ den \in Nat /\ den > 0
  BY <1>1, FeeFactorRange
<1>3. out \in Nat /\ den * out <= num
  <2> HIDE DEF num, den, out
  <2> QED
    BY <1>1, <1>2, Division
<1>4. RoundedDown(out, in, FeeFactor, rin, rout)
  <2>1. den * out = out * den
    BY <1>2, <1>3
  <2> QED
    BY <1>3, <2>1 DEF RoundedDown
<1> HIDE DEF num, den, out
<1>5. out <= rout /\ rin * out <= in * (rout - out)
  <2>1. rin > 0 /\ out \in Nat /\ FeeFactor \in Fees
    BY <1>1, <1>3, FeeFactorRange DEF Fees
  <2>2. PaidFor(out, in, rin, rout)
    BY <1>4, <2>1, AmountOutBound, Zenon
  <2> QED
    BY <2>2 DEF PaidFor
<1>6. rin * rout <= (rin + in) * (rout - out)
  BY <1>3, <1>5, ShareKeepsProduct
<1> QED
  BY <1>3, <1>5, <1>6 DEF out

\* get_amount_in: the same of a swap with an exact output; the `+ 1` makes up
\* for the division that rounds down.
THEOREM GetAmountInKeepsProduct ==
  ASSUME NEW out \in Nat, NEW rin \in Nat, NEW rout \in Nat,
         GetAmountIn(out, rin, rout) # Err
  PROVE  LET in == GetAmountIn(out, rin, rout)
         IN  /\ in \in Nat /\ in > 0 /\ out < rout
             /\ rin * rout <= (rin + in) * (rout - out)
<1> DEFINE left == rout - out
           num == rin * out * 1000
           den == left * FeeFactor
           in == GetAmountIn(out, rin, rout)
<1>1. out < rout /\ in = num \div den + 1
  BY DEF GetAmountIn, InUnit, Err
<1>2. left \in Nat /\ left > 0 /\ num \in Nat /\ den \in Nat /\ den > 0
  BY <1>1, FeeFactorRange
<1>3. in \in Nat /\ in > 0 /\ num < den * in
  <2>1. num \div den \in Nat /\ num < den * (num \div den) + den
    <3> HIDE DEF num, den
    <3> QED
      BY <1>2, Division
  <2>2. den * (num \div den + 1) = den * (num \div den) + den
    <3> HIDE DEF num, den
    <3> QED
      BY <1>2, <2>1
  <2> HIDE DEF num, den, in
  <2> QED
    BY <1>1, <1>2, <2>1, <2>2
<1> HIDE DEF in
<1>4. rin * out <= in * left
  <2>1. (rin * out) * FeeFactor <= (rin * out) * 1000
    BY FeeFactorRange, ProductMonotonic
  <2>2. den * in = (in * left) * FeeFactor
    BY <1>2, <1>3, FeeFactorRange
  <2>3. (rin * out) * FeeFactor <= (in * left) * FeeFactor
    BY <1>2, <1>3, <2>1, <2>2, FeeFactorRange
  <2> QED
    BY <1>2, <1>3, <2>3, FeeFactorRange, FactorCancels
<1>5. rin * rout <= (rin + in) * (rout - out)
  BY <1>1, <1>3, <1>4, ShareKeepsProduct
<1> QED
  BY <1>1, <1>3, <1>5 DEF in

\* get_amount_in prices only what the pool can pay and still has some of.
LEMMA AmountInPayable ==
  ASSUME NEW m \in Nat, NEW r1 \in Nat, NEW r2 \in Nat, NEW n \in Nat, n = GetAmountIn(m, r1, r2)
  PROVE  r1 > 0 /\ m < r2
<1>1. ASSUME r1 = 0 \/ r2 = 0 \/ m >= r2
      PROVE  GetAmountIn(m, r1, r2) = Err
  BY <1>1 DEF GetAmountIn
<1>2. GetAmountIn(m, r1, r2) # Err
  BY DEF Err
<1>3. ~(r1 = 0 \/ r2 = 0 \/ m >= r2)
  BY <1>1, <1>2, Zenon
<1> QED
  BY <1>3

(***************************************************************************)
(* The amounts of add_liquidity and remove_liquidity.                      *)
(***************************************************************************)

\* mul_div of naturals, of any size.
LEMMA MulDivNatural ==
  ASSUME NEW a \in Nat, NEW b \in Nat, NEW c \in Nat
  PROVE  MulDiv(a, b, c) \in Nat \cup {Err}
<1>1. CASE c = 0
  BY <1>1 DEF MulDiv
<1>2. CASE c # 0
  <2>1. a * b \in Nat
    OBVIOUS
  <2>2. (a * b) \div c \in Nat
    BY <1>2, <2>1, QuotientType
  <2> QED
    BY <1>2, <2>2 DEF MulDiv, InUnit
<1> QED
  BY <1>1, <1>2

\* What add_liquidity takes is natural.
LEMMA ProvidedNatural ==
  ASSUME NEW base \in Nat, NEW quote \in Nat, NEW baseMin, NEW quoteMin,
         NEW br \in Nat, NEW qr \in Nat
  PROVE  LET taken == Provided(base, quote, baseMin, quoteMin, br, qr)
         IN  taken.base \in Nat /\ taken.quote \in Nat
<1> DEFINE q == Quote(base, br, qr)
           b == Quote(quote, qr, br)
<1>1. q \in Nat \cup {Err} /\ b \in Nat \cup {Err}
  BY MulDivNatural DEF Quote
<1> HIDE DEF q, b
<1> QED
  BY <1>1 DEF Provided, q, b

\* What it mints is an integer.
LEMMA MintedInteger ==
  ASSUME NEW base \in Nat, NEW quote \in Nat, NEW supply \in Nat, NEW br \in Nat, NEW qr \in Nat
  PROVE  Minted(base, quote, supply, br, qr) \in Int
\* Every natural has an integer square root.
<1>SquareRootNatural. ASSUME NEW n \in Nat PROVE SquareRoot(n) \in Nat
  <2> USE <1>SquareRootNatural
  <2> DEFINE S == {r \in 0..n : r * r <= n}
  <2>1. S \in SUBSET Int /\ IsFiniteSet(S) /\ 0 \in S
    <3>1. S \in SUBSET Int /\ 0 \in S /\ S \subseteq 0..n
      OBVIOUS
    <3>2. IsFiniteSet(0..n)
      BY FS_Interval
    <3> HIDE DEF S
    <3> QED
      BY <3>1, <3>2, FS_Subset, Zenon
  <2>2. PICK r \in S : \A y \in S : y <= r
    <3> HIDE DEF S
    <3> QED
      BY <2>1, LeastAndGreatest
  <2>3. r \in 0..n /\ r * r <= n
    OBVIOUS
  <2>4. n < (r + 1) * (r + 1)
    <3>1. CASE r = n
      BY <2>3, <3>1
    <3>2. CASE r # n
      <4>1. r + 1 \in 0..n /\ r + 1 \notin S
        BY <2>2, <2>3, <3>2
      <4>2. (r + 1) * (r + 1) \in Int
        BY <2>3
      <4> QED
        BY <4>1, <4>2
    <3> QED
      BY <3>1, <3>2
  <2>5. SquareRoot(n) \in 0..n
    BY <2>3, <2>4, Zenon DEF SquareRoot
  <2> QED
    BY <2>5
<1>1. /\ MulDiv(base, supply, br) \in Nat \cup {Err}
      /\ MulDiv(quote, supply, qr) \in Nat \cup {Err}
  BY MulDivNatural
<1>2. base * quote \in Nat
  OBVIOUS
<1>3. SquareRoot(base * quote) \in Nat
  BY <1>2, <1>SquareRootNatural
<1>4. InUnit(SquareRoot(base * quote) - MintMinLiquidity) \in Int
  BY <1>3, MintAssumption DEF InUnit, Err
<1> QED
  BY <1>1, <1>4 DEF Minted, Err

\* mul_div rounds down.
LEMMA MulDivRoundsDown ==
  ASSUME NEW a \in Int, NEW b \in Nat, NEW c \in Nat, MulDiv(a, b, c) > 0
  PROVE  c > 0 /\ MulDiv(a, b, c) \in Nat /\ MulDiv(a, b, c) * c <= a * b
<1> DEFINE n == a * b
<1>1. n \in Int /\ c > 0 /\ MulDiv(a, b, c) = n \div c
  <2>1. n \in Int /\ (c > 0 => n \div c \in Int)
    OBVIOUS
  <2> QED
    BY <2>1 DEF MulDiv, InUnit, Err
<1> HIDE DEF n
<1>2. (n \div c) * c <= n /\ n \div c \in Int
  BY <1>1
<1> QED
  BY <1>1, <1>2 DEF n

\* Two factors that each grow, with the squares gathered.
LEMMA SharesGrow ==
  ASSUME NEW b \in Nat, NEW q \in Nat, NEW s \in Nat,
         NEW b2 \in Nat, NEW q2 \in Nat, NEW s2 \in Nat,
         b * s2 <= b2 * s, q * s2 <= q2 * s
  PROVE  (b2 * q2) * s * s >= (b * q) * s2 * s2
<1> DEFINE x == b * s2
           y == q * s2
           x2 == b2 * s
           y2 == q2 * s
<1>1. x \in Nat /\ y \in Nat /\ x2 \in Nat /\ y2 \in Nat /\ x <= x2 /\ y <= y2
  OBVIOUS
<1>2. (b2 * q2) * s * s = x2 * y2
  OBVIOUS
<1>3. (b * q) * s2 * s2 = x * y
  OBVIOUS
<1> HIDE DEF x, y, x2, y2
<1>4. x * y <= x2 * y /\ x2 * y <= x2 * y2
  BY <1>1, ProductMonotonic
<1>5. x * y \in Int /\ x2 * y \in Int /\ x2 * y2 \in Int
  BY <1>1
<1>6. x * y <= x2 * y2
  BY <1>4, <1>5
<1> QED
  BY <1>2, <1>3, <1>6

\* The product of the reserves per squared LP token is no lower with reserves b2
\* and q2 and a supply of s2 than with b, q and s.
ShareNoLower(b, q, s, b2, q2, s2) == (b2 * q2) * s * s >= (b * q) * s2 * s2

\* The same reserves and supply have the same share.
LEMMA SameShare ==
  ASSUME NEW b \in Nat, NEW q \in Nat, NEW s \in Nat
  PROVE  ShareNoLower(b, q, s, b, q, s)
<1>1. (b * q) * s * s \in Int
  OBVIOUS
<1> QED
  BY <1>1 DEF ShareNoLower

\* What add_liquidity mints, when there are LP tokens, leaves the share as it was.
LEMMA MintedShare ==
  ASSUME NEW x \in Nat, NEW y \in Nat, NEW s \in Nat, s # 0, NEW b \in Nat, NEW q \in Nat,
         Minted(x, y, s, b, q) > MintMinLiquidity
  PROVE  /\ Minted(x, y, s, b, q) \in Nat
         /\ ShareNoLower(b, q, s, b + x, q + y, s + Minted(x, y, s, b, q))
<1> DEFINE minted == Minted(x, y, s, b, q)
           side1 == MulDiv(x, s, b)
           side2 == MulDiv(y, s, q)
<1>1. side1 \in Nat \cup {Err} /\ side2 \in Nat \cup {Err}
  BY MulDivNatural, Zenon
<1>2. minted = IF side1 <= side2 THEN side1 ELSE side2
  BY DEF Minted
<1>3. minted > MintMinLiquidity
  OBVIOUS
<1> HIDE DEF minted, side1, side2
<1>4. minted \in Nat /\ side1 > 0 /\ side2 > 0 /\ minted <= side1 /\ minted <= side2
  BY <1>1, <1>2, <1>3, MintAssumption DEF Err
<1>5. /\ side1 \in Nat /\ side1 * b <= x * s
      /\ side2 \in Nat /\ side2 * q <= y * s
  BY <1>4, MulDivRoundsDown DEF side1, side2
<1>6. minted * b <= side1 * b /\ minted * q <= side2 * q
  BY <1>4, <1>5, ProductMonotonic
<1>7. b * (s + minted) <= (b + x) * s /\ q * (s + minted) <= (q + y) * s
  BY <1>4, <1>5, <1>6
<1>8. b + x \in Nat /\ q + y \in Nat /\ s + minted \in Nat
  BY <1>4
<1>9. ShareNoLower(b, q, s, b + x, q + y, s + minted)
  BY <1>7, <1>8, SharesGrow DEF ShareNoLower
<1> QED
  BY <1>4, <1>9, Zenon DEF minted

\* What remove_liquidity pays for LP tokens, a part of the burned ones, does so too.
LEMMA RedeemedShare ==
  ASSUME NEW burn \in Nat, NEW r \in Int, r <= burn, NEW s \in Nat, burn <= s,
         NEW b \in Nat, NEW q \in Nat, MulDiv(r, b, s) > 0, MulDiv(r, q, s) > 0,
         MulDiv(r, b, s) <= b, MulDiv(r, q, s) <= q
  PROVE  ShareNoLower(b, q, s, b - MulDiv(r, b, s), q - MulDiv(r, q, s), s - burn)
<1> DEFINE x == MulDiv(r, b, s)
           y == MulDiv(r, q, s)
<1>1. x \in Nat /\ x * s <= r * b /\ y \in Nat /\ y * s <= r * q
  BY MulDivRoundsDown
<1>2. x <= b /\ y <= q
  OBVIOUS
<1> HIDE DEF x, y
<1>3. r * b <= burn * b /\ r * q <= burn * q
  OBVIOUS
<1>4. x * s <= burn * b /\ y * s <= burn * q
  <2>1. /\ x * s \in Int /\ r * b \in Int /\ burn * b \in Int
        /\ y * s \in Int /\ r * q \in Int /\ burn * q \in Int
    BY <1>1
  <2> QED
    BY <1>1, <1>3, <2>1
<1>5. b * (s - burn) <= (b - x) * s /\ q * (s - burn) <= (q - y) * s
  BY <1>1, <1>4
<1>6. b - x \in Nat /\ q - y \in Nat /\ s - burn \in Nat
  BY <1>1, <1>2
<1>7. ShareNoLower(b, q, s, b - x, q - y, s - burn)
  BY <1>5, <1>6, SharesGrow DEF ShareNoLower
<1> QED
  BY <1>7, Zenon DEF x, y
=============================================================================
