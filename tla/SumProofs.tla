----------------------------- MODULE SumProofs -----------------------------
(* Lemmas about finite sums.  They are proved by the least counterexample: *)
(* the strict subsets of a finite set are well founded, so that a lemma    *)
(* that fails for a set fails for one all of whose subsets it holds for.   *)
EXTENDS Sums, FiniteSetTheorems, TLAPS

\* A non-empty set of subsets of a finite set has a minimal element.
LEMMA MinimalSubset ==
  ASSUME NEW S, IsFiniteSet(S), NEW Bad \in SUBSET (SUBSET S), Bad # {}
  PROVE  \E T \in Bad : \A U \in Bad : U \subseteq T => U = T
<1>1. IsWellFoundedOn(StrictSubsetOrdering(S), SUBSET S)
  BY FS_StrictSubsetOrderingWellFounded, FS_FiniteSubsetsOfFinite
<1>2. PICK T \in Bad : \A U \in Bad : ~ (<<U, T>> \in StrictSubsetOrdering(S))
  BY <1>1, WFMin
<1>3. ASSUME NEW U \in Bad, U \subseteq T PROVE U = T
  BY <1>2, <1>3 DEF StrictSubsetOrdering
<1> QED BY <1>2, <1>3

-----------------------------------------------------------------------------
(* The definition of a sum is a recursion that has a solution.             *)

First(T) == CHOOSE x \in T : TRUE

Unfolded(f, sum, T) == IF T = {} THEN 0 ELSE f[First(T)] + sum[T \ {First(T)}]

IsSumFunction(f, sum, S) == sum = [T \in SUBSET S |-> Unfolded(f, sum, T)]

\* A sum is the value of a function on the subsets that solves the recursion.
LEMMA SumOfFunction ==
  ASSUME NEW f, NEW S
  PROVE  SumOver(f, S) = (CHOOSE sum : IsSumFunction(f, sum, S))[S]
BY DEF SumOver, MapThenSumSet, MapThenFoldSet, IsSumFunction, Unfolded, First

\* Such a function unfolds at each of the subsets.
LEMMA SumFunctionAt ==
  ASSUME NEW f, NEW S, NEW sum, IsSumFunction(f, sum, S), NEW U \in SUBSET S
  PROVE  sum[U] = Unfolded(f, sum, U)
BY DEF IsSumFunction

\* Two solutions agree wherever both are defined.
LEMMA SumFunctionsAgree ==
  ASSUME NEW f, NEW S, NEW T, NEW g, NEW h, NEW V, IsFiniteSet(V),
         V \subseteq S, V \subseteq T,
         IsSumFunction(f, g, S), IsSumFunction(f, h, T)
  PROVE  g[V] = h[V]
<1> DEFINE Bad == {U \in SUBSET V : g[U] # h[U]}
<1> SUFFICES ASSUME Bad # {} PROVE FALSE
  OBVIOUS
<1>1. PICK U \in Bad : \A W \in Bad : W \subseteq U => W = U
  <2>1. Bad \in SUBSET (SUBSET V)
    OBVIOUS
  <2> HIDE DEF Bad
  <2> QED BY <2>1, MinimalSubset
<1>2. g[U] = Unfolded(f, g, U) /\ h[U] = Unfolded(f, h, U)
  BY SumFunctionAt
<1>3. U # {}
  BY <1>2 DEF Unfolded
<1>4. First(U) \in U
  BY <1>3 DEF First
<1>5. U \ {First(U)} \notin Bad
  BY <1>1, <1>4
<1>6. g[U \ {First(U)}] = h[U \ {First(U)}]
  BY <1>5
<1> QED BY <1>2, <1>6 DEF Unfolded

\* There is a solution on the subsets of any finite set.
LEMMA SumFunctionExists ==
  ASSUME NEW f, NEW S, IsFiniteSet(S)
  PROVE  \E sum : IsSumFunction(f, sum, S)
<1> DEFINE Bad == {T \in SUBSET S : ~ \E sum : IsSumFunction(f, sum, T)}
<1> SUFFICES ASSUME Bad # {} PROVE FALSE
  OBVIOUS
<1>1. PICK T \in Bad : \A U \in Bad : U \subseteq T => U = T
  <2>1. Bad \in SUBSET (SUBSET S)
    OBVIOUS
  <2> HIDE DEF Bad
  <2> QED BY <2>1, MinimalSubset
<1> DEFINE On(U) == CHOOSE sum : IsSumFunction(f, sum, U)
           sum == [U \in SUBSET T |->
                     IF U = {} THEN 0 ELSE f[First(U)] + On(U \ {First(U)})[U \ {First(U)}]]
<1>2. ASSUME NEW U \in SUBSET T, U # T PROVE IsSumFunction(f, On(U), U)
  <2>1. \E g : IsSumFunction(f, g, U)
    BY <1>1, <1>2
  <2> QED BY <2>1
<1>3. ASSUME NEW U \in SUBSET T PROVE IsFiniteSet(U)
  BY FS_Subset
<1>4. ASSUME NEW U \in SUBSET T, U # T PROVE sum[U] = On(U)[U]
  <2>1. On(U)[U] = Unfolded(f, On(U), U)
    <3>1. IsSumFunction(f, On(U), U)
      BY <1>2, <1>4
    <3> HIDE DEF On
    <3> QED BY <3>1, SumFunctionAt
  <2>2. CASE U = {}
    BY <2>1, <2>2 DEF Unfolded
  <2>3. CASE U # {}
    <3> DEFINE W == U \ {First(U)}
    <3>1. First(U) \in U
      BY <2>3 DEF First
    <3>2. W \in SUBSET T /\ W # T /\ W \subseteq U
      BY <3>1
    <3>3. IsSumFunction(f, On(U), U) /\ IsSumFunction(f, On(W), W)
      BY <1>2, <1>4, <3>2
    <3>4. IsFiniteSet(W)
      BY <1>3, <3>2
    <3>5. On(U)[W] = On(W)[W]
      <4> HIDE DEF On, W
      <4> QED BY <3>2, <3>3, <3>4, SumFunctionsAgree
    <3> QED BY <2>1, <2>3, <3>5 DEF Unfolded
  <2> QED BY <2>2, <2>3
<1>5. ASSUME NEW U \in SUBSET T PROVE sum[U] = Unfolded(f, sum, U)
  <2>1. CASE U = {}
    BY <2>1 DEF Unfolded
  <2>2. CASE U # {}
    <3> DEFINE W == U \ {First(U)}
    <3>1. First(U) \in U
      BY <2>2 DEF First
    <3>2. W \in SUBSET T /\ W # T
      BY <3>1
    <3>3. sum[W] = On(W)[W]
      <4> HIDE DEF sum, W
      <4> QED BY <1>4, <3>2
    <3>4. sum[U] = f[First(U)] + On(W)[W]
      BY <2>2
    <3> QED BY <2>2, <3>3, <3>4 DEF Unfolded
  <2> QED BY <2>1, <2>2
<1>6. sum = [U \in SUBSET T |-> Unfolded(f, sum, U)]
  <2>1. sum = [U \in SUBSET T |-> sum[U]]
    OBVIOUS
  <2> HIDE DEF sum
  <2> QED BY <1>5, <2>1
<1>7. IsSumFunction(f, sum, T)
  BY <1>6 DEF IsSumFunction
<1> HIDE DEF sum
<1> QED BY <1>7

\* A sum is empty, or an element and the sum of the rest.
LEMMA SumUnfold ==
  ASSUME NEW f, NEW S, IsFiniteSet(S)
  PROVE  SumOver(f, S) = IF S = {} THEN 0
                         ELSE f[First(S)] + SumOver(f, S \ {First(S)})
<1> DEFINE On(U) == CHOOSE sum : IsSumFunction(f, sum, U)
           W == S \ {First(S)}
<1>1. IsFiniteSet(W)
  BY FS_Subset
<1>2. IsSumFunction(f, On(S), S) /\ IsSumFunction(f, On(W), W)
  <2>1. \E g : IsSumFunction(f, g, S)
    BY SumFunctionExists
  <2>2. \E g : IsSumFunction(f, g, W)
    BY <1>1, SumFunctionExists
  <2> HIDE DEF W
  <2> QED BY <2>1, <2>2
<1>3. On(S)[W] = On(W)[W]
  <2>1. W \subseteq S
    OBVIOUS
  <2> HIDE DEF On, W
  <2> QED BY <1>1, <1>2, <2>1, SumFunctionsAgree
<1>4. On(S)[S] = Unfolded(f, On(S), S)
  <2> HIDE DEF On
  <2> QED BY <1>2, SumFunctionAt
<1>5. SumOver(f, S) = On(S)[S] /\ SumOver(f, W) = On(W)[W]
  BY SumOfFunction
<1> QED BY <1>3, <1>4, <1>5 DEF Unfolded
-----------------------------------------------------------------------------
(* The order of the elements does not matter.                              *)

\* The sum over no element is zero.
LEMMA SumEmpty ==
  ASSUME NEW f
  PROVE  SumOver(f, {}) = 0
BY SumUnfold, FS_EmptySet

\* A sum of elements of a set of integers closed under addition is among them.
LEMMA SumInt ==
  ASSUME NEW S, IsFiniteSet(S), NEW f, \A x \in S : f[x] \in Int
  PROVE  SumOver(f, S) \in Int
<1> DEFINE Bad == {T \in SUBSET S : SumOver(f, T) \notin Int}
<1> SUFFICES ASSUME Bad # {} PROVE FALSE
  OBVIOUS
<1>1. PICK T \in Bad : \A U \in Bad : U \subseteq T => U = T
  <2>1. Bad \in SUBSET (SUBSET S)
    OBVIOUS
  <2> HIDE DEF Bad
  <2> QED BY <2>1, MinimalSubset
<1>2. IsFiniteSet(T)
  BY FS_Subset
<1>3. T # {}
  BY SumEmpty
<1>4. First(T) \in T
  BY <1>3 DEF First
<1>5. SumOver(f, T \ {First(T)}) \in Int
  BY <1>1, <1>4
<1>6. SumOver(f, T) = f[First(T)] + SumOver(f, T \ {First(T)})
  BY <1>2, <1>3, SumUnfold
<1> QED BY <1>4, <1>5, <1>6

\* Any element may be taken out first.
LEMMA SumRemove ==
  ASSUME NEW S, IsFiniteSet(S), NEW f, \A x \in S : f[x] \in Int, NEW e \in S
  PROVE  SumOver(f, S) = f[e] + SumOver(f, S \ {e})
<1> DEFINE Bad == {T \in SUBSET S : \E x \in T : SumOver(f, T) # f[x] + SumOver(f, T \ {x})}
<1> SUFFICES ASSUME Bad # {} PROVE FALSE
  OBVIOUS
<1>1. PICK T \in Bad : \A U \in Bad : U \subseteq T => U = T
  <2>1. Bad \in SUBSET (SUBSET S)
    OBVIOUS
  <2> HIDE DEF Bad
  <2> QED BY <2>1, MinimalSubset
<1>2. PICK x \in T : SumOver(f, T) # f[x] + SumOver(f, T \ {x})
  OBVIOUS
<1>3. PICK c \in T : c = First(T)
  BY <1>2 DEF First
<1>4. IsFiniteSet(T)
  BY FS_Subset
<1>5. SumOver(f, T) = f[c] + SumOver(f, T \ {c})
  BY <1>3, <1>4, SumUnfold
<1>6. c # x
  BY <1>2, <1>5
<1>7. SumOver(f, T \ {c}) = f[x] + SumOver(f, (T \ {c}) \ {x})
  <2>1. T \ {c} \notin Bad
    BY <1>1
  <2> QED BY <1>6, <2>1
<1>8. SumOver(f, T \ {x}) = f[c] + SumOver(f, (T \ {x}) \ {c})
  <2>1. T \ {x} \notin Bad
    BY <1>1
  <2> QED BY <1>6, <2>1
<1>9. (T \ {c}) \ {x} = (T \ {x}) \ {c}
  OBVIOUS
<1>10. SumOver(f, (T \ {x}) \ {c}) \in Int
  <2>1. (T \ {x}) \ {c} \in SUBSET S
    OBVIOUS
  <2>2. IsFiniteSet((T \ {x}) \ {c})
    BY <2>1, FS_Subset
  <2> QED BY <2>1, <2>2, SumInt
<1>11. f[c] \in Int /\ f[x] \in Int
  OBVIOUS
<1>12. PICK n \in Int : n = SumOver(f, (T \ {x}) \ {c})
  BY <1>10
<1>13. SumOver(f, T) = f[c] + (f[x] + n) /\ SumOver(f, T \ {x}) = f[c] + n
  BY <1>5, <1>7, <1>8, <1>9, <1>12
<1> HIDE DEF Bad
<1> QED BY <1>2, <1>11, <1>13

\* A new element adds its value.
LEMMA SumAdd ==
  ASSUME NEW S, IsFiniteSet(S), NEW f, NEW e, e \notin S,
         \A x \in S \cup {e} : f[x] \in Int
  PROVE  SumOver(f, S \cup {e}) = f[e] + SumOver(f, S)
<1>1. IsFiniteSet(S \cup {e})
  BY FS_AddElement
<1>2. (S \cup {e}) \ {e} = S
  OBVIOUS
<1> QED BY <1>1, <1>2, SumRemove

-----------------------------------------------------------------------------
(* Comparing sums.                                                         *)

\* Only the values on the set count.
LEMMA SumSame ==
  ASSUME NEW S, IsFiniteSet(S), NEW f, NEW g, \A x \in S : f[x] = g[x]
  PROVE  SumOver(f, S) = SumOver(g, S)
<1> DEFINE Bad == {T \in SUBSET S : SumOver(f, T) # SumOver(g, T)}
<1> SUFFICES ASSUME Bad # {} PROVE FALSE
  OBVIOUS
<1>1. PICK T \in Bad : \A U \in Bad : U \subseteq T => U = T
  <2>1. Bad \in SUBSET (SUBSET S)
    OBVIOUS
  <2> HIDE DEF Bad
  <2> QED BY <2>1, MinimalSubset
<1>2. IsFiniteSet(T)
  BY FS_Subset
<1>3. T # {}
  BY SumEmpty
<1>4. First(T) \in T
  BY <1>3 DEF First
<1>5. SumOver(f, T \ {First(T)}) = SumOver(g, T \ {First(T)})
  BY <1>1, <1>4
<1> QED BY <1>2, <1>3, <1>4, <1>5, SumUnfold

\* On the finite set S, f and g are the same but for e, of which g has n more.
MovesAt(f, g, S, e, n) ==
  /\ IsFiniteSet(S) /\ e \in S /\ n \in Int
  /\ \A x \in S : f[x] \in Int
  /\ \A x \in S : g[x] = IF x = e THEN f[x] + n ELSE f[x]

\* The sum changes by as much as one value does.
LEMMA SumUpdate ==
  ASSUME NEW f, NEW g, NEW S, NEW e, NEW n, MovesAt(f, g, S, e, n)
  PROVE  SumOver(f, S) \in Int /\ SumOver(g, S) = SumOver(f, S) + n
<1> USE DEF MovesAt
<1>1. IsFiniteSet(S \ {e})
  BY FS_RemoveElement
<1>2. SumOver(g, S \ {e}) = SumOver(f, S \ {e})
  BY <1>1, SumSame
<1>3. SumOver(f, S \ {e}) \in Int
  BY <1>1, SumInt
<1>4. \A x \in S : g[x] \in Int
  OBVIOUS
<1>5. SumOver(f, S) = f[e] + SumOver(f, S \ {e}) /\ SumOver(g, S) = g[e] + SumOver(g, S \ {e})
  BY <1>4, SumRemove
<1>6. f[e] \in Int /\ g[e] = f[e] + n
  OBVIOUS
<1> QED BY <1>2, <1>3, <1>5, <1>6

\* The sum of the sums.
LEMMA SumPlus ==
  ASSUME NEW S, IsFiniteSet(S), NEW f, NEW g, NEW h,
         \A x \in S : f[x] \in Int /\ g[x] \in Int /\ h[x] = f[x] + g[x]
  PROVE  SumOver(h, S) = SumOver(f, S) + SumOver(g, S)
<1> DEFINE Bad == {T \in SUBSET S : SumOver(h, T) # SumOver(f, T) + SumOver(g, T)}
<1> SUFFICES ASSUME Bad # {} PROVE FALSE
  OBVIOUS
<1>1. PICK T \in Bad : \A U \in Bad : U \subseteq T => U = T
  <2>1. Bad \in SUBSET (SUBSET S)
    OBVIOUS
  <2> HIDE DEF Bad
  <2> QED BY <2>1, MinimalSubset
<1>2. IsFiniteSet(T)
  BY FS_Subset
<1>3. T # {}
  <2>1. SumOver(f, {}) = 0 /\ SumOver(g, {}) = 0 /\ SumOver(h, {}) = 0
    BY SumEmpty
  <2>2. SumOver(h, T) # SumOver(f, T) + SumOver(g, T)
    OBVIOUS
  <2>3. SumOver(h, {}) = SumOver(f, {}) + SumOver(g, {})
    BY <2>1
  <2> QED BY <2>2, <2>3
<1>4. PICK e \in T : e = First(T)
  BY <1>3 DEF First
<1> DEFINE R == T \ {e}
<1>5. SumOver(h, R) = SumOver(f, R) + SumOver(g, R)
  BY <1>1, <1>4
<1>6. IsFiniteSet(R)
  BY <1>2, FS_RemoveElement
<1>7. SumOver(f, R) \in Int /\ SumOver(g, R) \in Int
  <2>1. \A x \in R : f[x] \in Int /\ g[x] \in Int
    OBVIOUS
  <2> HIDE DEF R
  <2> QED BY <1>6, <2>1, SumInt
<1>8. /\ SumOver(f, T) = f[e] + SumOver(f, R)
      /\ SumOver(g, T) = g[e] + SumOver(g, R)
      /\ SumOver(h, T) = h[e] + SumOver(h, R)
  BY <1>2, <1>3, <1>4, SumUnfold
<1>9. f[e] \in Int /\ g[e] \in Int /\ h[e] = f[e] + g[e]
  OBVIOUS
<1> HIDE DEF R
<1>10. SumOver(h, T) = SumOver(f, T) + SumOver(g, T)
  BY <1>5, <1>7, <1>8, <1>9
<1> QED BY <1>10

\* A sum of smaller values is smaller.
LEMMA SumLe ==
  ASSUME NEW S, IsFiniteSet(S), NEW f, NEW g,
         \A x \in S : f[x] \in Int /\ g[x] \in Int /\ f[x] <= g[x]
  PROVE  SumOver(f, S) <= SumOver(g, S)
<1> DEFINE Bad == {T \in SUBSET S : ~ (SumOver(f, T) <= SumOver(g, T))}
<1> SUFFICES ASSUME Bad # {} PROVE FALSE
  OBVIOUS
<1>1. PICK T \in Bad : \A U \in Bad : U \subseteq T => U = T
  <2>1. Bad \in SUBSET (SUBSET S)
    OBVIOUS
  <2> HIDE DEF Bad
  <2> QED BY <2>1, MinimalSubset
<1>2. IsFiniteSet(T)
  BY FS_Subset
<1>3. T # {}
  BY SumEmpty
<1>4. PICK e \in T : e = First(T)
  BY <1>3 DEF First
<1> DEFINE R == T \ {e}
<1>5. SumOver(f, R) <= SumOver(g, R)
  BY <1>1, <1>4
<1>6. IsFiniteSet(R)
  BY <1>2, FS_RemoveElement
<1>7. SumOver(f, R) \in Int /\ SumOver(g, R) \in Int
  <2>1. \A x \in R : f[x] \in Int /\ g[x] \in Int
    OBVIOUS
  <2> HIDE DEF R
  <2> QED BY <1>6, <2>1, SumInt
<1>8. /\ SumOver(f, T) = f[e] + SumOver(f, R)
      /\ SumOver(g, T) = g[e] + SumOver(g, R)
  BY <1>2, <1>3, <1>4, SumUnfold
<1>9. f[e] \in Int /\ g[e] \in Int /\ f[e] <= g[e]
  OBVIOUS
<1> HIDE DEF R
<1>10. SumOver(f, T) <= SumOver(g, T)
  BY <1>5, <1>7, <1>8, <1>9
<1> QED BY <1>10

\* The function h adds up f and g on S.
AddsUp(h, f, g, S) ==
  /\ IsFiniteSet(S)
  /\ \A x \in S : f[x] \in Int
  /\ \A x \in S : g[x] \in Int
  /\ \A x \in S : h[x] = f[x] + g[x]

LEMMA SumAddsUp ==
  ASSUME NEW h, NEW f, NEW g, NEW S, AddsUp(h, f, g, S)
  PROVE  /\ SumOver(f, S) \in Int /\ SumOver(g, S) \in Int
         /\ SumOver(h, S) = SumOver(f, S) + SumOver(g, S)
<1> USE DEF AddsUp
<1>1. SumOver(f, S) \in Int /\ SumOver(g, S) \in Int
  BY SumInt
<1>2. \A x \in S : f[x] \in Int /\ g[x] \in Int /\ h[x] = f[x] + g[x]
  OBVIOUS
<1> QED BY <1>1, <1>2, SumPlus

\* A sum of zeros is zero.
LEMMA SumZero ==
  ASSUME NEW S, IsFiniteSet(S), NEW f, \A x \in S : f[x] = 0
  PROVE  SumOver(f, S) = 0
<1>1. SumOver(f, S) = SumOver(f, S) + SumOver(f, S)
  <2>1. \A x \in S : f[x] \in Int /\ f[x] \in Int /\ f[x] = f[x] + f[x]
    OBVIOUS
  <2> QED BY <2>1, SumPlus
<1>2. PICK n \in Int : n = SumOver(f, S)
  BY SumInt
<1>3. n = n + n
  BY <1>1, <1>2
<1>4. n = 0
  BY <1>3
<1> QED BY <1>2, <1>4

\* A sum of natural numbers is one, and at least each of them.
LEMMA SumNat ==
  ASSUME NEW S, IsFiniteSet(S), NEW f, \A x \in S : f[x] \in Nat
  PROVE  SumOver(f, S) \in Nat /\ \A e \in S : f[e] <= SumOver(f, S)
<1> DEFINE zero == [x \in S |-> 0]
<1>1. \A T \in SUBSET S : SumOver(f, T) \in Nat
  <2> TAKE T \in SUBSET S
  <2>1. IsFiniteSet(T)
    BY FS_Subset
  <2>2. SumOver(zero, T) = 0
    BY <2>1, SumZero
  <2>3. SumOver(zero, T) <= SumOver(f, T)
    <3>1. \A x \in T : zero[x] \in Int /\ f[x] \in Int /\ zero[x] <= f[x]
      OBVIOUS
    <3> HIDE DEF zero
    <3> QED BY <2>1, <3>1, SumLe
  <2>4. SumOver(f, T) \in Int
    BY <2>1, SumInt
  <2> QED BY <2>2, <2>3, <2>4
<1>2. ASSUME NEW e \in S PROVE f[e] <= SumOver(f, S)
  <2>1. SumOver(f, S) = f[e] + SumOver(f, S \ {e})
    BY SumRemove
  <2>2. SumOver(f, S \ {e}) \in Nat /\ f[e] \in Nat
    BY <1>1
  <2> QED BY <2>1, <2>2
<1> QED BY <1>1, <1>2

\* Elements without a value may be left out.
LEMMA SumFilter ==
  ASSUME NEW S, IsFiniteSet(S), NEW T, T \subseteq S, NEW f, NEW g,
         \A x \in S : /\ x \in T => f[x] \in Int /\ g[x] = f[x]
                      /\ x \notin T => g[x] = 0
  PROVE  SumOver(f, T) = SumOver(g, S)
<1> DEFINE Bad == {U \in SUBSET S : SumOver(f, T \cap U) # SumOver(g, U)}
<1>1. ASSUME Bad # {} PROVE FALSE
  <2>1. PICK U \in Bad : \A W \in Bad : W \subseteq U => W = U
    <3>1. Bad \in SUBSET (SUBSET S)
      OBVIOUS
    <3> HIDE DEF Bad
    <3> QED BY <1>1, <3>1, MinimalSubset
  <2>2. IsFiniteSet(U) /\ IsFiniteSet(T \cap U)
    BY FS_Subset
  <2>3. U # {}
    <3>1. SumOver(f, {}) = SumOver(g, {})
      BY SumEmpty
    <3> QED BY <3>1
  <2>4. PICK e : e \in U
    BY <2>3
  <2>5. SumOver(f, T \cap (U \ {e})) = SumOver(g, U \ {e})
    BY <2>1, <2>4
  <2>6. \A x \in U : g[x] \in Int
    OBVIOUS
  <2>7. SumOver(g, U) = g[e] + SumOver(g, U \ {e})
    BY <2>2, <2>4, <2>6, SumRemove
  <2>8. CASE e \in T
    <3>1. (T \cap U) \ {e} = T \cap (U \ {e}) /\ e \in T \cap U
      BY <2>4, <2>8
    <3>2. \A x \in T \cap U : f[x] \in Int
      OBVIOUS
    <3>3. SumOver(f, T \cap U) = f[e] + SumOver(f, (T \cap U) \ {e})
      BY <2>2, <3>1, <3>2, SumRemove
    <3>4. g[e] = f[e]
      BY <2>4, <2>8
    <3> QED BY <2>5, <2>7, <3>1, <3>3, <3>4
  <2>9. CASE e \notin T
    <3>1. T \cap U = T \cap (U \ {e}) /\ g[e] = 0
      BY <2>4, <2>9
    <3>2. SumOver(g, U \ {e}) \in Int
      <4>1. IsFiniteSet(U \ {e}) /\ \A x \in U \ {e} : g[x] \in Int
        BY <2>2, <2>6, FS_RemoveElement
      <4> QED BY <4>1, SumInt
    <3>3. SumOver(g, U) = SumOver(g, U \ {e})
      BY <2>7, <3>1, <3>2
    <3>4. SumOver(f, T \cap U) = SumOver(g, U)
      BY <2>5, <3>1, <3>3
    <3> QED BY <2>1, <3>4
  <2> QED BY <2>8, <2>9
<1>2. S \notin Bad /\ T \cap S = T
  BY <1>1
<1> QED BY <1>2

\* Each element of D is in a class of G; h sums f over each of them.
SumsClasses(h, G, f, D, class, part) ==
  /\ IsFiniteSet(D) /\ IsFiniteSet(G)
  /\ \A i \in D : class[i] \in G /\ f[i] \in Int
  /\ \A g \in G : \A i \in D : part[g][i] = IF class[i] = g THEN f[i] ELSE 0
  /\ \A g \in G : h[g] = SumOver(part[g], D)

\* A sum over classes of elements, class by class, is the sum over them all.
LEMMA SumByClass ==
  ASSUME NEW h, NEW G, NEW f, NEW D, NEW c, NEW part, SumsClasses(h, G, f, D, c, part)
  PROVE  SumOver(h, G) = SumOver(f, D)
<1> USE DEF SumsClasses
<1> DEFINE of(U) == [g \in G |-> SumOver(part[g], U)]
           Bad == {U \in SUBSET D : SumOver(of(U), G) # SumOver(f, U)}
<1>1. ASSUME Bad # {} PROVE FALSE
  <2>1. PICK U \in Bad : \A W \in Bad : W \subseteq U => W = U
    <3>1. Bad \in SUBSET (SUBSET D)
      OBVIOUS
    <3> HIDE DEF Bad
    <3> QED BY <1>1, <3>1, MinimalSubset
  <2>2. U \subseteq D /\ IsFiniteSet(U)
    BY FS_Subset
  <2>3. CASE U = {}
    <3>1. \A g \in G : of({})[g] = 0
      BY SumEmpty
    <3>2. SumOver(of({}), G) = 0
      <4> HIDE DEF of
      <4> QED BY <3>1, SumZero
    <3> QED BY <2>3, <3>2, SumEmpty
  <2>4. CASE U # {}
    <3>1. PICK e \in D : e \in U
      BY <2>2, <2>4
    <3>2. PICK W : W = U \ {e}
      OBVIOUS
    <3>3. W \subseteq D /\ IsFiniteSet(W)
      BY <2>2, <3>2, FS_Subset
    <3>4. SumOver(of(W), G) = SumOver(f, W)
      <4>1. W \in SUBSET D /\ W \subseteq U /\ W # U
        BY <3>1, <3>2, <3>3
      <4>2. W \notin Bad
        <5> HIDE DEF Bad
        <5> QED BY <2>1, <4>1
      <4> HIDE DEF of
      <4> QED BY <4>1, <4>2
    <3>5. SumOver(f, U) = f[e] + SumOver(f, W) /\ SumOver(f, W) \in Int
      <4>1. \A i \in U : f[i] \in Int
        BY <2>2
      <4>2. SumOver(f, U) = f[e] + SumOver(f, U \ {e})
        <5>1. IsFiniteSet(U) /\ e \in U
          BY <2>2, <3>1
        <5> HIDE DEF of, Bad, SumsClasses
        <5> QED BY <4>1, <5>1, SumRemove
      <4>3. \A i \in W : f[i] \in Int
        BY <3>2, <4>1
      <4>4. SumOver(f, W) \in Int
        BY <3>3, <4>3, SumInt
      <4> QED BY <3>2, <4>2, <4>4
    <3>6. ASSUME NEW g \in G
          PROVE  /\ SumOver(part[g], U) = part[g][e] + SumOver(part[g], W)
                 /\ SumOver(part[g], W) \in Int
                 /\ part[g][e] = IF g = c[e] THEN f[e] ELSE 0
      <4>1. \A i \in U : part[g][i] \in Int
        BY <2>2
      <4>2. SumOver(part[g], U) = part[g][e] + SumOver(part[g], U \ {e})
        BY <2>2, <3>1, <4>1, SumRemove
      <4>3. \A i \in W : part[g][i] \in Int
        BY <3>2, <4>1
      <4>4. SumOver(part[g], W) \in Int
        BY <3>3, <4>3, SumInt
      <4> QED BY <3>1, <3>2, <4>2, <4>4
    <3>7. MovesAt(of(W), of(U), G, c[e], f[e])
      BY <3>6 DEF MovesAt
    <3>8. SumOver(of(U), G) = SumOver(of(W), G) + f[e]
      <4> HIDE DEF of
      <4> QED BY <3>7, SumUpdate
    <3> QED BY <3>1, <3>4, <3>5, <3>8
  <2> QED BY <2>3, <2>4
<1>2. SumOver(of(D), G) = SumOver(f, D)
  BY <1>1
<1>3. \A g \in G : of(D)[g] = h[g]
  OBVIOUS
<1>4. SumOver(of(D), G) = SumOver(h, G)
  <2> HIDE DEF of
  <2> QED BY <1>3, SumSame
<1> QED BY <1>2, <1>4

\* A factor of all values is one of their sum.
LEMMA SumScale ==
  ASSUME NEW S, IsFiniteSet(S), NEW k \in Int, NEW f, NEW h,
         \A x \in S : f[x] \in Int /\ h[x] = k * f[x]
  PROVE  SumOver(h, S) = k * SumOver(f, S)
<1> DEFINE Bad == {T \in SUBSET S : SumOver(h, T) # k * SumOver(f, T)}
<1> SUFFICES ASSUME Bad # {} PROVE FALSE
  OBVIOUS
<1>1. PICK T \in Bad : \A U \in Bad : U \subseteq T => U = T
  <2>1. Bad \in SUBSET (SUBSET S)
    OBVIOUS
  <2> HIDE DEF Bad
  <2> QED BY <2>1, MinimalSubset
<1>2. T \subseteq S /\ IsFiniteSet(T)
  BY FS_Subset
<1>3. T # {}
  BY SumEmpty
<1>4. PICK e \in S : e \in T
  BY <1>2, <1>3
<1>5. SumOver(h, T \ {e}) = k * SumOver(f, T \ {e})
  BY <1>1, <1>2, <1>4
<1>6. /\ SumOver(f, T) = f[e] + SumOver(f, T \ {e})
      /\ SumOver(h, T) = h[e] + SumOver(h, T \ {e})
  <2>1. \A x \in T : f[x] \in Int /\ h[x] \in Int
    BY <1>2
  <2> QED BY <1>2, <1>4, <2>1, SumRemove
<1>7. SumOver(f, T \ {e}) \in Int /\ f[e] \in Int /\ h[e] = k * f[e]
  <2>1. IsFiniteSet(T \ {e}) /\ \A x \in T \ {e} : f[x] \in Int
    BY <1>2, FS_RemoveElement
  <2> QED BY <1>4, <2>1, SumInt
<1>8. \A a, b \in Int : k * (a + b) = k * a + k * b
  OBVIOUS
<1> QED BY <1>5, <1>6, <1>7, <1>8
=============================================================================
