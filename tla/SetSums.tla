--------------------------------- MODULE SetSums ---------------------------------
(***************************************************************************)
(* Facts about the sum of a function over a finite set, the operator with  *)
(* which the models add up positions, exposures and results. The library   *)
(* defines it by recursion on an arbitrary element; every fact below is    *)
(* proved by taking a smallest set for which it would fail.                *)
(***************************************************************************)
EXTENDS Integers, Functions, FiniteSets, FiniteSetTheorems, WellFoundedInduction, TLAPS

Total(f, S) == SumFunctionOnSet(f, S)

OneOf(s) == CHOOSE x \in s : TRUE
Recursion(f, S, iter) ==
    iter = [s \in SUBSET S |-> IF s = {} THEN 0 ELSE f[OneOf(s)] + iter[s \ {OneOf(s)}]]
Iter(f, S) == CHOOSE iter : Recursion(f, S, iter)

\* The library's definition, with its local function named.
LEMMA TotalIsIter ==
  ASSUME NEW f, NEW S
  PROVE  Total(f, S) = Iter(f, S)[S]
BY DEF Total, SumFunctionOnSet, FoldFunctionOnSet, MapThenFoldSet, Iter, Recursion, OneOf

\* Among sets of subsets of a finite set there is a smallest one.
LEMMA SmallestSet ==
  ASSUME NEW S, IsFiniteSet(S), NEW B \in SUBSET (SUBSET S), B # {}
  PROVE  \E U \in B : \A V \in B : V \subseteq U => V = U
<1>1. IsWellFoundedOn(StrictSubsetOrdering(S), SUBSET S)
  BY FS_StrictSubsetOrderingWellFounded, FS_FiniteSubsetsOfFinite
<1>2. PICK U \in B : \A V \in B : <<V, U>> \notin StrictSubsetOrdering(S)
  BY <1>1, WFMin
<1>3. ASSUME NEW V \in B, V \subseteq U, V # U PROVE FALSE
  BY <1>2, <1>3 DEF StrictSubsetOrdering
<1> QED BY <1>3

\* If every element of a finite set is given a subset, one of the subsets is smallest.
LEMMA SmallestUp ==
  ASSUME NEW S, IsFiniteSet(S), NEW e \in S, NEW up, \A i \in S : up[i] \in SUBSET S
  PROVE  \E m \in S : \A k \in S : up[k] \subseteq up[m] => up[k] = up[m]
<1> DEFINE B == {up[i] : i \in S}
<1>1. PICK U \in B : \A V \in B : V \subseteq U => V = U
  <2>1. B \in SUBSET (SUBSET S)
    OBVIOUS
  <2>2. B # {}
    OBVIOUS
  <2> HIDE DEF B
  <2> QED BY <2>1, <2>2, SmallestSet
<1> QED BY <1>1

\* A finite set of numbers that is not empty has a greatest one: the fewest numbers are
\* above it.
LEMMA GreatestElement ==
  ASSUME NEW S, IsFiniteSet(S), \A x \in S : x \in Int, S # {}
  PROVE  \E m \in S : \A k \in S : m >= k
<1>1. PICK up : \A i \in S : up[i] = {j \in S : j > i}
  <2> DEFINE up == [i \in S |-> {j \in S : j > i}]
  <2>1. \A i \in S : up[i] = {j \in S : j > i}
    OBVIOUS
  <2> QED BY <2>1
<1>2. PICK m \in S : \A k \in S : up[k] \subseteq up[m] => up[k] = up[m]
  <2>1. PICK e : e \in S
    OBVIOUS
  <2>2. \A i \in S : up[i] \in SUBSET S
    BY <1>1
  <2> QED BY <2>1, <2>2, SmallestUp
<1>3. ASSUME NEW k \in S, ~(m >= k) PROVE FALSE
  <2>1. m \in Int /\ k \in Int /\ m < k
    BY <1>3
  <2>2. ASSUME NEW j \in S, j > k PROVE j > m
    BY <2>1, <2>2
  <2>3. up[k] \subseteq up[m]
    BY <1>1, <2>2
  <2>4. k \in up[m] /\ k \notin up[k]
    BY <1>1, <2>1
  <2> QED BY <1>2, <2>3, <2>4
<1> QED BY <1>3

LEMMA OneOfIsIn == \A s : s # {} => OneOf(s) \in s
BY DEF OneOf

\* What a solution of the recursion is at a set.
LEMMA Unfolded ==
  ASSUME NEW f, NEW S, NEW g, Recursion(f, S, g), NEW U \in SUBSET S
  PROVE  g[U] = IF U = {} THEN 0 ELSE f[OneOf(U)] + g[U \ {OneOf(U)}]
BY DEF Recursion

\* Two solutions agree where both are defined.
LEMMA SolutionsAgree ==
  ASSUME NEW f, NEW S, IsFiniteSet(S), NEW T \in SUBSET S,
         NEW g, Recursion(f, S, g), NEW h, Recursion(f, T, h)
  PROVE  \A U \in SUBSET T : h[U] = g[U]
<1> DEFINE Bad == {U \in SUBSET T : h[U] # g[U]}
<1>1. SUFFICES ASSUME Bad # {} PROVE FALSE
  OBVIOUS
<1>2. IsFiniteSet(T)
  BY FS_Subset
<1>3. PICK U \in Bad : \A V \in Bad : V \subseteq U => V = U
  <2> HIDE DEF Bad
  <2>1. Bad \in SUBSET (SUBSET T)
    BY DEF Bad
  <2> QED BY <1>1, <1>2, <2>1, SmallestSet
<1>4. U \in SUBSET T /\ U \in SUBSET S /\ h[U] # g[U]
  OBVIOUS
<1>5. U # {}
  <2>1. U = {} => h[U] = 0 /\ g[U] = 0
    BY <1>4, Unfolded
  <2> QED BY <1>4, <2>1
<1>6. OneOf(U) \in U
  BY <1>5, OneOfIsIn
<1>7. h[U \ {OneOf(U)}] = g[U \ {OneOf(U)}]
  BY <1>3, <1>4, <1>6
<1>8. h[U] = f[OneOf(U)] + h[U \ {OneOf(U)}]
  BY <1>4, <1>5 DEF Recursion
<1>9. g[U] = f[OneOf(U)] + g[U \ {OneOf(U)}]
  BY <1>4, <1>5, Unfolded
<1> QED BY <1>4, <1>7, <1>8, <1>9

\* The recursion has a solution on every finite set.
LEMMA SolutionExists ==
  ASSUME NEW f, NEW S, IsFiniteSet(S)
  PROVE  \A T \in SUBSET S : Recursion(f, T, Iter(f, T))
<1> DEFINE Bad == {T \in SUBSET S : ~ \E g : Recursion(f, T, g)}
<1>1. Bad = {}
  <2> SUFFICES ASSUME Bad # {} PROVE FALSE
    OBVIOUS
  <2>1. PICK T \in Bad : \A V \in Bad : V \subseteq T => V = T
    <3> HIDE DEF Bad
    <3>1. Bad \in SUBSET (SUBSET S)
      BY DEF Bad
    <3> QED BY <3>1, SmallestSet
  <2>2. \A V \in SUBSET T : V # T => Recursion(f, V, Iter(f, V))
    <3> SUFFICES ASSUME NEW V \in SUBSET T, V # T PROVE Recursion(f, V, Iter(f, V))
      OBVIOUS
    <3>1. \E g : Recursion(f, V, g)
      BY <2>1
    <3> QED BY Zenon, <3>1 DEF Iter
  <2>3. IsFiniteSet(T) /\ \A V \in SUBSET T : IsFiniteSet(V)
    BY FS_Subset
  <2> DEFINE value(U) == Iter(f, U)[U]
             rest(U) == U \ {OneOf(U)}
             h == [U \in SUBSET T |->
                     IF U = {} THEN 0
                     ELSE IF U = T THEN f[OneOf(U)] + value(rest(U)) ELSE value(U)]
  <2>4. ASSUME NEW U \in SUBSET T, U # {} PROVE h[U] = f[OneOf(U)] + h[rest(U)]
    <3>1. OneOf(U) \in U /\ rest(U) \in SUBSET U /\ rest(U) # U /\ rest(U) \in SUBSET T /\ rest(U) # T
      BY <2>4, OneOfIsIn
    <3>2. h[rest(U)] = value(rest(U))
      <4>1. Recursion(f, rest(U), Iter(f, rest(U)))
        BY <2>2, <3>1
      <4>2. rest(U) = {} => value(rest(U)) = 0
        BY <4>1, Unfolded
      <4> QED BY <3>1, <4>2
    <3>3. CASE U = T
      BY <2>4, <3>2, <3>3
    <3>4. CASE U # T
      <4>1. Recursion(f, U, Iter(f, U)) /\ Recursion(f, rest(U), Iter(f, rest(U)))
        BY <2>2, <3>1, <3>4
      <4>2. value(U) = f[OneOf(U)] + Iter(f, U)[rest(U)]
        BY <2>4, <4>1, <3>1, Unfolded
      <4>3. value(rest(U)) = Iter(f, U)[rest(U)]
        BY <2>3, <3>1, <4>1, SolutionsAgree
      <4> QED BY <2>4, <3>2, <3>4, <4>2, <4>3
    <3> QED BY <3>3, <3>4
  <2>5. Recursion(f, T, h)
    <3>1. h = [U \in SUBSET T |-> IF U = {} THEN 0 ELSE f[OneOf(U)] + h[U \ {OneOf(U)}]]
      <4>1. \A U \in SUBSET T : h[U] = IF U = {} THEN 0 ELSE f[OneOf(U)] + h[U \ {OneOf(U)}]
        BY <2>4
      <4> HIDE DEF h
      <4>2. h = [U \in SUBSET T |-> h[U]]
        BY DEF h
      <4> QED BY <4>1, <4>2
    <3> QED BY <3>1 DEF Recursion
  <2> QED BY <2>1, <2>5
<1>2. ASSUME NEW T \in SUBSET S PROVE Recursion(f, T, Iter(f, T))
  <2>1. \E g : Recursion(f, T, g)
    BY <1>1
  <2> QED BY Zenon, <2>1 DEF Iter
<1> QED BY <1>2

--------------------------------------------------------------------------------

\* Nothing sums to 0; a sum is one of its terms and the sum of the others.
LEMMA TotalUnfolds ==
  ASSUME NEW f, NEW S, IsFiniteSet(S)
  PROVE  Total(f, S) = IF S = {} THEN 0 ELSE f[OneOf(S)] + Total(f, S \ {OneOf(S)})
<1>1. Recursion(f, S, Iter(f, S))
  BY SolutionExists
<1>2. CASE S = {}
  BY <1>1, <1>2, TotalIsIter, Unfolded
<1>3. CASE S # {}
  <2>1. PICK T \in SUBSET S : T = S \ {OneOf(S)}
    OBVIOUS
  <2>2. Recursion(f, T, Iter(f, T))
    BY <2>1, SolutionExists
  <2>3. Iter(f, S)[S] = f[OneOf(S)] + Iter(f, S)[T]
    BY <1>1, <1>3, <2>1, Unfolded
  <2>4. \A U \in SUBSET T : Iter(f, T)[U] = Iter(f, S)[U]
    BY <1>1, <2>1, <2>2, SolutionsAgree
  <2>5. Total(f, S) = f[OneOf(S)] + Total(f, T)
    BY <2>3, <2>4, TotalIsIter
  <2> QED BY <1>3, <2>1, <2>5
<1> QED BY <1>2, <1>3

LEMMA TotalEmpty == \A f : Total(f, {}) = 0
BY TotalUnfolds, FS_EmptySet

LEMMA TotalIsInt ==
  ASSUME NEW f, NEW S, IsFiniteSet(S), \A x \in S : f[x] \in Int
  PROVE  Total(f, S) \in Int
<1> DEFINE Bad == {T \in SUBSET S : Total(f, T) \notin Int}
<1> SUFFICES ASSUME Bad # {} PROVE FALSE
  OBVIOUS
<1>1. PICK T \in Bad : \A V \in Bad : V \subseteq T => V = T
  <2> HIDE DEF Bad
  <2>1. Bad \in SUBSET (SUBSET S)
    BY DEF Bad
  <2> QED BY <2>1, SmallestSet
<1>2. IsFiniteSet(T)
  BY FS_Subset
<1>3. T # {}
  BY TotalEmpty
<1>4. OneOf(T) \in T /\ OneOf(T) \in S
  BY <1>3, OneOfIsIn
<1>5. Total(f, T \ {OneOf(T)}) \in Int
  BY <1>1, <1>4
<1>6. Total(f, T) = f[OneOf(T)] + Total(f, T \ {OneOf(T)})
  BY <1>2, <1>3, TotalUnfolds
<1> QED BY <1>4, <1>5, <1>6

LEMMA TotalIsNat ==
  ASSUME NEW f, NEW S, IsFiniteSet(S), \A x \in S : f[x] \in Nat
  PROVE  Total(f, S) \in Nat
<1> DEFINE Bad == {T \in SUBSET S : Total(f, T) \notin Nat}
<1> SUFFICES ASSUME Bad # {} PROVE FALSE
  OBVIOUS
<1>1. PICK T \in Bad : \A V \in Bad : V \subseteq T => V = T
  <2> HIDE DEF Bad
  <2>1. Bad \in SUBSET (SUBSET S)
    BY DEF Bad
  <2> QED BY <2>1, SmallestSet
<1>2. IsFiniteSet(T)
  BY FS_Subset
<1>3. T # {}
  BY TotalEmpty
<1>4. OneOf(T) \in T /\ OneOf(T) \in S
  BY <1>3, OneOfIsIn
<1>5. Total(f, T \ {OneOf(T)}) \in Nat
  BY <1>1, <1>4
<1>6. Total(f, T) = f[OneOf(T)] + Total(f, T \ {OneOf(T)})
  BY <1>2, <1>3, TotalUnfolds
<1> QED BY <1>4, <1>5, <1>6

\* Any element can be taken out.
LEMMA TotalRemove ==
  ASSUME NEW f, NEW S, IsFiniteSet(S), \A x \in S : f[x] \in Int
  PROVE  \A x \in S : Total(f, S) = f[x] + Total(f, S \ {x})
<1> DEFINE Bad == {T \in SUBSET S : \E x \in T : Total(f, T) # f[x] + Total(f, T \ {x})}
<1> SUFFICES ASSUME Bad # {} PROVE FALSE
  OBVIOUS
<1>1. PICK T \in Bad : \A V \in Bad : V \subseteq T => V = T
  <2> HIDE DEF Bad
  <2>1. Bad \in SUBSET (SUBSET S)
    BY DEF Bad
  <2> QED BY <2>1, SmallestSet
<1>2. PICK x \in T : Total(f, T) # f[x] + Total(f, T \ {x})
  OBVIOUS
<1> DEFINE e == OneOf(T)
<1>3. IsFiniteSet(T) /\ IsFiniteSet(T \ {x}) /\ IsFiniteSet(T \ {e}) /\ IsFiniteSet((T \ {x}) \ {e})
  BY FS_Subset
<1>4. e \in T /\ Total(f, T) = f[e] + Total(f, T \ {e})
  BY <1>2, <1>3, TotalUnfolds, OneOfIsIn
<1>5. e # x
  BY <1>2, <1>4
<1>6. Total(f, T \ {e}) = f[x] + Total(f, (T \ {e}) \ {x})
  BY <1>1, <1>2, <1>4, <1>5
<1>7. Total(f, T \ {x}) = f[e] + Total(f, (T \ {x}) \ {e})
  BY <1>1, <1>2, <1>4, <1>5
<1>8. (T \ {e}) \ {x} = (T \ {x}) \ {e}
  OBVIOUS
<1>9. Total(f, (T \ {x}) \ {e}) \in Int /\ f[e] \in Int /\ f[x] \in Int
  <2>1. \A y \in (T \ {x}) \ {e} : f[y] \in Int
    OBVIOUS
  <2> QED BY <1>3, <1>4, <2>1, TotalIsInt
<1> HIDE DEF Bad, e
<1>10. f[e] + (f[x] + Total(f, (T \ {x}) \ {e})) = f[x] + (f[e] + Total(f, (T \ {x}) \ {e}))
  BY <1>9
<1>11. Total(f, T) = f[e] + (f[x] + Total(f, (T \ {x}) \ {e}))
  BY <1>4, <1>6, <1>8
<1> QED BY <1>2, <1>7, <1>10, <1>11

\* Only the terms of the set count, and no term larger makes no sum larger.
LEMMA TotalMonotone ==
  ASSUME NEW f, NEW g, NEW S, IsFiniteSet(S),
         \A x \in S : f[x] \in Int /\ g[x] \in Int /\ f[x] <= g[x]
  PROVE  Total(f, S) <= Total(g, S)
<1> DEFINE Bad == {T \in SUBSET S : ~ Total(f, T) <= Total(g, T)}
<1> SUFFICES ASSUME Bad # {} PROVE FALSE
  OBVIOUS
<1>1. PICK T \in Bad : \A V \in Bad : V \subseteq T => V = T
  <2> HIDE DEF Bad
  <2>1. Bad \in SUBSET (SUBSET S)
    BY DEF Bad
  <2> QED BY <2>1, SmallestSet
<1> DEFINE U == T \ {OneOf(T)}
<1>2. IsFiniteSet(T) /\ IsFiniteSet(U)
  BY FS_Subset
<1>3. T # {}
  BY TotalEmpty
<1>4. OneOf(T) \in T
  BY <1>3, OneOfIsIn
<1>5. Total(f, U) <= Total(g, U)
  BY <1>1, <1>4
<1>6. /\ Total(f, T) = f[OneOf(T)] + Total(f, U)
      /\ Total(g, T) = g[OneOf(T)] + Total(g, U)
  BY <1>2, <1>3, TotalUnfolds
<1>7. Total(f, U) \in Int /\ Total(g, U) \in Int
  BY <1>2, TotalIsInt
<1>8. f[OneOf(T)] \in Int /\ g[OneOf(T)] \in Int /\ f[OneOf(T)] <= g[OneOf(T)] /\ ~ Total(f, T) <= Total(g, T)
  BY <1>4
<1> HIDE DEF U
<1> QED BY <1>5, <1>6, <1>7, <1>8

LEMMA TotalSame ==
  ASSUME NEW f, NEW g, NEW S, IsFiniteSet(S), \A x \in S : f[x] \in Int /\ f[x] = g[x]
  PROVE  Total(f, S) = Total(g, S)
<1>1. Total(f, S) <= Total(g, S) /\ Total(g, S) <= Total(f, S)
  BY TotalMonotone
<1>2. Total(f, S) \in Int /\ Total(g, S) \in Int
  BY TotalIsInt
<1> QED BY <1>1, <1>2

LEMMA TotalAdd ==
  ASSUME NEW f, NEW S, IsFiniteSet(S), NEW e, e \notin S, \A x \in S \cup {e} : f[x] \in Int
  PROVE  Total(f, S \cup {e}) = Total(f, S) + f[e]
<1> DEFINE T == S \cup {e}
<1>1. IsFiniteSet(T)
  BY FS_AddElement
<1>2. e \in T /\ T \ {e} = S
  OBVIOUS
<1>3. Total(f, S) \in Int /\ f[e] \in Int
  BY TotalIsInt
<1>4. Total(f, T) = f[e] + Total(f, T \ {e})
  BY <1>1, <1>2, TotalRemove
<1> HIDE DEF T
<1>5. Total(f, T) = f[e] + Total(f, S)
  BY Zenon, <1>2, <1>4
<1>6. Total(f, T) = Total(f, S) + f[e]
  BY <1>3, <1>5
<1> QED BY <1>6 DEF T

\* A part of a sum of numbers at least 0 is no larger than the sum.
LEMMA TotalSubset ==
  ASSUME NEW f, NEW S, IsFiniteSet(S), \A x \in S : f[x] \in Nat, NEW T \in SUBSET S
  PROVE  Total(f, T) <= Total(f, S)
<1> DEFINE Bad == {V \in SUBSET S : T \subseteq V /\ ~ Total(f, T) <= Total(f, V)}
<1> SUFFICES ASSUME Bad # {} PROVE FALSE
  OBVIOUS
<1>1. PICK V \in Bad : \A W \in Bad : W \subseteq V => W = V
  <2> HIDE DEF Bad
  <2>1. Bad \in SUBSET (SUBSET S)
    BY DEF Bad
  <2> QED BY <2>1, SmallestSet
<1>2. V \in SUBSET S /\ T \subseteq V /\ ~ Total(f, T) <= Total(f, V)
  OBVIOUS
<1>3. IsFiniteSet(T) /\ IsFiniteSet(V)
  BY <1>2, FS_Subset
<1>4. Total(f, T) \in Int /\ Total(f, V) \in Int
  BY <1>2, <1>3, TotalIsInt
<1>5. PICK x \in V : x \notin T
  <2>1. V # T
    BY <1>2, <1>4
  <2> QED BY <1>2, <2>1
<1>6. PICK W : W = V \ {x}
  OBVIOUS
<1>7. W \in SUBSET S /\ T \subseteq W /\ W \subseteq V /\ W # V
  BY <1>2, <1>5, <1>6
<1>8. Total(f, T) <= Total(f, W)
  BY <1>1, <1>7
<1>9. Total(f, V) = f[x] + Total(f, W)
  BY <1>2, <1>3, <1>5, <1>6, TotalRemove
<1>10. f[x] \in Nat /\ Total(f, W) \in Int
  <2>1. IsFiniteSet(W)
    BY <1>7, FS_Subset
  <2> QED BY <2>1, <1>2, <1>5, <1>7, TotalIsInt
<1> HIDE DEF Bad
<1> QED BY <1>2, <1>4, <1>8, <1>9, <1>10

LEMMA ImageFinite ==
  ASSUME NEW m, NEW S, IsFiniteSet(S)
  PROVE  IsFiniteSet({m[x] : x \in S})
<1> DEFINE T == {m[x] : x \in S}
           h == [x \in S |-> m[x]]
<1>1. h \in Surjection(S, T)
  BY DEF Surjection
<1> HIDE DEF h, T
<1>2. IsFiniteSet(T)
  BY <1>1, FS_Surjection
<1> QED BY <1>2 DEF T

\* A sum stays the same when its terms are taken to other places, no two to the same.
LEMMA TotalImage ==
  ASSUME NEW f, NEW g, NEW m, NEW S, IsFiniteSet(S),
         \A x \in S : f[x] \in Int /\ g[m[x]] = f[x],
         \A x, y \in S : m[x] = m[y] => x = y
  PROVE  Total(g, {m[x] : x \in S}) = Total(f, S)
<1> DEFINE Bad == {T \in SUBSET S : Total(g, {m[x] : x \in T}) # Total(f, T)}
<1> SUFFICES ASSUME Bad # {} PROVE FALSE
  OBVIOUS
<1>1. PICK T \in Bad : \A V \in Bad : V \subseteq T => V = T
  <2> HIDE DEF Bad
  <2>1. Bad \in SUBSET (SUBSET S)
    BY DEF Bad
  <2> QED BY <2>1, SmallestSet
<1>2. T \in SUBSET S /\ Total(g, {m[x] : x \in T}) # Total(f, T)
  OBVIOUS
<1>3. PICK e : e \in T
  <2>1. ASSUME T = {} PROVE FALSE
    <3>1. {m[x] : x \in T} = {}
      BY <2>1
    <3> QED BY <1>2, <2>1, <3>1, TotalEmpty
  <2> QED BY <2>1
<1>4. PICK V : V = T \ {e}
  OBVIOUS
<1>5. V \in SUBSET T /\ V # T /\ V \in SUBSET S /\ e \in S
  BY <1>2, <1>3, <1>4
<1>6. Total(g, {m[x] : x \in V}) = Total(f, V)
  BY <1>1, <1>5
<1>7. IsFiniteSet(T) /\ IsFiniteSet(V)
  BY <1>2, <1>5, FS_Subset
<1>8. Total(f, T) = f[e] + Total(f, V)
  BY <1>2, <1>3, <1>4, <1>7, TotalRemove
<1>9. PICK M : M = {m[x] : x \in T}
  OBVIOUS
<1>10. IsFiniteSet(M) /\ \A y \in M : g[y] \in Int
  BY <1>2, <1>7, <1>9, ImageFinite
<1>11. m[e] \in M /\ M \ {m[e]} = {m[x] : x \in V}
  BY <1>2, <1>3, <1>4, <1>9
<1>12. Total(g, M) = g[m[e]] + Total(g, M \ {m[e]})
  BY <1>10, <1>11, TotalRemove
<1>13. g[m[e]] = f[e]
  BY <1>5
<1> HIDE DEF Bad
<1> QED BY <1>2, <1>6, <1>8, <1>9, <1>11, <1>12, <1>13

\* The sum of a linear combination is that of the sums.
LEMMA TotalLinear ==
  ASSUME NEW S, IsFiniteSet(S), NEW f, NEW g, NEW h, NEW a \in Int, NEW b \in Int,
         \A x \in S : f[x] \in Int /\ g[x] \in Int /\ h[x] = a * f[x] + b * g[x]
  PROVE  Total(h, S) = a * Total(f, S) + b * Total(g, S)
<1> DEFINE Bad == {T \in SUBSET S : Total(h, T) # a * Total(f, T) + b * Total(g, T)}
<1> SUFFICES ASSUME Bad # {} PROVE FALSE
  OBVIOUS
<1>1. PICK T \in Bad : \A V \in Bad : V \subseteq T => V = T
  <2> HIDE DEF Bad
  <2>1. Bad \in SUBSET (SUBSET S)
    BY DEF Bad
  <2> QED BY <2>1, SmallestSet
<1>2. T \in SUBSET S /\ Total(h, T) # a * Total(f, T) + b * Total(g, T)
  OBVIOUS
<1>3. IsFiniteSet(T)
  BY <1>2, FS_Subset
<1>4. \A x \in T : f[x] \in Int /\ g[x] \in Int /\ h[x] \in Int /\ h[x] = a * f[x] + b * g[x]
  BY <1>2
<1>5. CASE T = {}
  <2>1. Total(f, T) = 0 /\ Total(g, T) = 0 /\ Total(h, T) = 0
    BY Zenon, <1>5, TotalEmpty
  <2> QED BY <1>2, <2>1
<1>6. CASE T # {}
  <2>1. PICK x \in T : TRUE
    BY <1>6
  <2>2. PICK W : W = T \ {x}
    OBVIOUS
  <2>3. W \in SUBSET S /\ W \subseteq T /\ W # T /\ IsFiniteSet(W)
    BY <1>2, <1>3, <2>1, <2>2, FS_Subset
  <2>4. Total(h, W) = a * Total(f, W) + b * Total(g, W)
    BY <1>1, <2>3
  <2>5. Total(h, T) = h[x] + Total(h, W) /\ Total(f, T) = f[x] + Total(f, W)
        /\ Total(g, T) = g[x] + Total(g, W)
    BY <1>3, <1>4, <2>1, <2>2, TotalRemove
  <2>6. Total(f, W) \in Int /\ Total(g, W) \in Int
    BY <1>4, <2>3, TotalIsInt
  <2>7. f[x] \in Int /\ g[x] \in Int /\ h[x] = a * f[x] + b * g[x]
    BY <1>4, <2>1
  <2> HIDE DEF Bad
  <2>8. a * (f[x] + Total(f, W)) = a * f[x] + a * Total(f, W)
        /\ b * (g[x] + Total(g, W)) = b * g[x] + b * Total(g, W)
    BY <2>6, <2>7
  <2>9. /\ a * f[x] \in Int /\ a * Total(f, W) \in Int
        /\ b * g[x] \in Int /\ b * Total(g, W) \in Int
    BY <2>6, <2>7
  <2> QED BY <1>2, <2>4, <2>5, <2>7, <2>8, <2>9
<1> QED BY <1>5, <1>6

================================================================================
