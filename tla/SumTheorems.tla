---------------------------- MODULE SumTheorems ----------------------------
(***************************************************************************)
(* Sums over finite sets, which the library defines and says nothing of:   *)
(* balances, the values of counters and the amounts of expenses are all    *)
(* SumFunctionOnSet.  The library's induction theorems take an operator;   *)
(* here induction is about a set of good things instead, from the          *)
(* theorems that an ordering is well founded, which take no operator.      *)
(***************************************************************************)
EXTENDS FiniteSetTheorems, Functions, TLAPS

\* A set of subsets of a finite set that has every subset all of whose proper
\* subsets it has, has them all.
LEMMA SubsetInduction ==
  ASSUME NEW S, IsFiniteSet(S), NEW Good,
         \A T \in SUBSET S : (\A U \in SUBSET T : U # T => U \in Good) => T \in Good
  PROVE  SUBSET S \subseteq Good
<1> DEFINE Bad == {T \in SUBSET S : T \notin Good}
<1> SUFFICES ASSUME Bad # {} PROVE FALSE
  OBVIOUS
<1>1. PICK T \in Bad : \A U \in Bad : <<U, T>> \notin StrictSubsetOrdering(S)
  <2>1. IsWellFoundedOn(StrictSubsetOrdering(S), SUBSET S)
    <3>1. FiniteSubsetsOf(S) = SUBSET S
      BY FS_FiniteSubsetsOfFinite
    <3>2. IsWellFoundedOn(StrictSubsetOrdering(S), FiniteSubsetsOf(S))
      BY FS_StrictSubsetOrderingWellFounded
    <3> QED
      BY <3>1, <3>2
  <2>2. Bad \subseteq SUBSET S
    OBVIOUS
  <2> HIDE DEF Bad
  <2> QED
    BY <2>1, <2>2, WFMin
<1>2. ASSUME NEW U \in SUBSET T, U # T PROVE U \in Good
  <2>1. <<U, T>> \in StrictSubsetOrdering(S)
    BY <1>1, <1>2 DEF StrictSubsetOrdering
  <2> QED
    BY <1>1, <1>2, <2>1
<1> QED
  BY <1>1, <1>2

\* Induction on the elements of a finite set: the empty set is good, and a
\* good subset stays good when an element joins it.
LEMMA SetInduction ==
  ASSUME NEW S, IsFiniteSet(S), NEW Good, {} \in Good,
         \A T \in SUBSET S : \A x \in S \ T : T \in Good => T \cup {x} \in Good
  PROVE  S \in Good
<1>1. ASSUME NEW T \in SUBSET S, \A U \in SUBSET T : U # T => U \in Good
      PROVE  T \in Good
  <2>1. CASE T = {}
    BY <2>1
  <2>2. ASSUME NEW x \in T PROVE T \in Good
    <3> DEFINE U == T \ {x}
    <3>1. U \in SUBSET T /\ U # T /\ U \in SUBSET S /\ x \in S \ U
      BY <2>2
    <3>2. U \in Good
      BY <1>1, <3>1
    <3>3. U \cup {x} = T
      BY <2>2
    <3> HIDE DEF U
    <3> QED
      BY <3>1, <3>2, <3>3
  <2> QED
    BY <2>1, <2>2
<1> QED
  BY <1>1, SubsetInduction

\* Induction on the natural numbers, for a set of good ones.
LEMMA NatSetInduction ==
  ASSUME NEW Good, 0 \in Good, \A n \in Nat : n \in Good => n + 1 \in Good
  PROVE  Nat \subseteq Good
<1> DEFINE Bad == {n \in Nat : n \notin Good}
<1> SUFFICES ASSUME Bad # {} PROVE FALSE
  OBVIOUS
<1>1. PICK n \in Bad : \A m \in Bad : <<m, n>> \notin OpToRel(<, Nat)
  <2>1. Bad \subseteq Nat
    OBVIOUS
  <2> QED
    BY <2>1, WFMin, NatLessThanWellFounded
<1>2. n # 0
  BY <1>1
<1>3. n - 1 \in Nat /\ <<n - 1, n>> \in OpToRel(<, Nat)
  BY <1>1, <1>2 DEF OpToRel
<1>4. n - 1 \in Good
  BY <1>1, <1>3
<1>5. n \in Nat /\ n \notin Good
  BY <1>1
<1>6. (n - 1) + 1 = n
  BY <1>5
<1> QED
  BY <1>3, <1>4, <1>5, <1>6

-----------------------------------------------------------------------------
\* How the library takes an element of a set.
Pick(s) == CHOOSE x \in s : TRUE

\* iter adds the values of f, element by element, over each subset of S.
Adds(f, S, iter) ==
  iter = [s \in SUBSET S |-> IF s = {} THEN 0 ELSE f[Pick(s)] + iter[s \ {Pick(s)}]]

\* The sum is what a function that satisfies the recursive equation says of
\* the whole set (SumFunctionOnSet, through the folds of the library).
LEMMA SumUnfold ==
  ASSUME NEW f, NEW S
  PROVE  SumFunctionOnSet(f, S) = (CHOOSE iter : Adds(f, S, iter))[S]
BY DEF SumFunctionOnSet, FoldFunctionOnSet, MapThenFoldSet, Adds, Pick

\* What is picked from a set that is not empty is in it.
LEMMA PickIn == ASSUME NEW s, s # {} PROVE Pick(s) \in s
BY DEF Pick

\* Over a finite set there is a function that satisfies the equation: by
\* induction on the cardinality up to which it does.
LEMMA AddsExists ==
  ASSUME NEW S, IsFiniteSet(S), NEW f, \A x \in S : f[x] \in Int
  PROVE  \E iter : Adds(f, S, iter)
<1> DEFINE AddsUpTo(n, iter) ==
             \A s \in SUBSET S : Cardinality(s) <= n =>
               iter[s] = IF s = {} THEN 0 ELSE f[Pick(s)] + iter[s \ {Pick(s)}]
           Good == {n \in Nat : \E iter \in [SUBSET S -> Int] : AddsUpTo(n, iter)}
<1>1. \A s \in SUBSET S : IsFiniteSet(s) /\ Cardinality(s) \in Nat
                          /\ Cardinality(s) <= Cardinality(S)
  BY FS_Subset, FS_CardinalityType
<1>2. \A s \in SUBSET S : s # {} =>
        /\ Pick(s) \in S
        /\ s \ {Pick(s)} \in SUBSET S
        /\ Cardinality(s \ {Pick(s)}) = Cardinality(s) - 1
  BY <1>1, FS_RemoveElement, PickIn
<1>3. \A s \in SUBSET S : Cardinality(s) = 0 <=> s = {}
  BY <1>1, FS_EmptySet
<1>4. 0 \in Good
  <2>1. [s \in SUBSET S |-> 0] \in [SUBSET S -> Int]
    OBVIOUS
  <2>2. AddsUpTo(0, [s \in SUBSET S |-> 0])
    BY <1>1, <1>3
  <2> QED
    BY <2>1, <2>2
<1>5. ASSUME NEW n \in Nat, n \in Good PROVE n + 1 \in Good
  <2>1. PICK iter \in [SUBSET S -> Int] : AddsUpTo(n, iter)
    BY <1>5
  <2> DEFINE next == [s \in SUBSET S |->
                        IF Cardinality(s) <= n THEN iter[s]
                        ELSE f[Pick(s)] + iter[s \ {Pick(s)}]]
  <2>2. next \in [SUBSET S -> Int]
    <3>1. ASSUME NEW s \in SUBSET S, ~ Cardinality(s) <= n
          PROVE  f[Pick(s)] + iter[s \ {Pick(s)}] \in Int
      BY <1>2, <1>3, <2>1, <3>1
    <3> QED
      BY <2>1, <3>1
  <2>3. ASSUME NEW s \in SUBSET S, Cardinality(s) <= n + 1
        PROVE  next[s] = IF s = {} THEN 0 ELSE f[Pick(s)] + next[s \ {Pick(s)}]
    <3>1. CASE s = {}
      BY <1>3, <2>1, <3>1
    <3>2. CASE s # {}
      <4>1. Cardinality(s \ {Pick(s)}) <= n
        BY <1>1, <1>2, <2>3, <3>2
      <4>2. next[s \ {Pick(s)}] = iter[s \ {Pick(s)}]
        BY <1>2, <3>2, <4>1
      <4>3. next[s] = f[Pick(s)] + iter[s \ {Pick(s)}]
        BY <2>1, <3>2
      <4> QED
        BY <3>2, <4>2, <4>3
    <3> QED
      BY <3>1, <3>2
  <2> HIDE DEF next
  <2>4. AddsUpTo(n + 1, next)
    BY <2>3
  <2> QED
    BY <1>5, <2>2, <2>4
<1>6. Cardinality(S) \in Good
  BY <1>1, <1>4, <1>5, NatSetInduction
<1>7. PICK iter \in [SUBSET S -> Int] : AddsUpTo(Cardinality(S), iter)
  BY <1>6
<1>8. iter = [s \in SUBSET S |-> IF s = {} THEN 0 ELSE f[Pick(s)] + iter[s \ {Pick(s)}]]
  BY <1>1, <1>7
<1> QED
  BY <1>8 DEF Adds

\* Two such functions, of different sets, agree on what the sets share.
LEMMA AddsUnique ==
  ASSUME NEW S, IsFiniteSet(S), NEW f, \A x \in S : f[x] \in Int,
         NEW V \in SUBSET S, NEW W \in SUBSET S,
         NEW i, Adds(f, V, i), NEW j, Adds(f, W, j),
         NEW T \in SUBSET (V \cap W)
  PROVE  i[T] \in Int /\ i[T] = j[T]
<1> DEFINE Good == {s \in SUBSET (V \cap W) : i[s] \in Int /\ i[s] = j[s]}
<1>1. IsFiniteSet(V \cap W)
  BY FS_Subset
<1>2. ASSUME NEW s \in SUBSET (V \cap W), \A u \in SUBSET s : u # s => u \in Good
      PROVE  s \in Good
  <2>1. i[s] = IF s = {} THEN 0 ELSE f[Pick(s)] + i[s \ {Pick(s)}]
    BY DEF Adds
  <2>2. j[s] = IF s = {} THEN 0 ELSE f[Pick(s)] + j[s \ {Pick(s)}]
    BY DEF Adds
  <2>3. s # {} => Pick(s) \in s
    BY PickIn
  <2>4. CASE s = {}
    BY <2>1, <2>2, <2>4
  <2>5. CASE s # {}
    <3>1. s \ {Pick(s)} \in Good
      BY <1>2, <2>3, <2>5
    <3> QED
      BY <2>1, <2>2, <2>3, <2>5, <3>1
  <2> QED
    BY <2>4, <2>5
<1>3. SUBSET (V \cap W) \subseteq Good
  <2> DEFINE both == V \cap W
  <2>1. \A s \in SUBSET both : (\A u \in SUBSET s : u # s => u \in Good) => s \in Good
    BY <1>2
  <2>2. IsFiniteSet(both)
    BY <1>1
  <2> HIDE DEF Good, both
  <2>3. SUBSET both \subseteq Good
    BY <2>1, <2>2, SubsetInduction
  <2> QED
    BY <2>3 DEF both
<1> QED
  BY <1>3 DEF Good

\* So one function for the set gives the sums over all its subsets.
LEMMA SumIs ==
  ASSUME NEW S, IsFiniteSet(S), NEW f, \A x \in S : f[x] \in Int,
         NEW i, Adds(f, S, i), NEW T \in SUBSET S
  PROVE  SumFunctionOnSet(f, T) = i[T] /\ i[T] \in Int
<1>1. IsFiniteSet(T)
  BY FS_Subset
<1>2. PICK j : Adds(f, T, j) /\ SumFunctionOnSet(f, T) = j[T]
  BY <1>1, AddsExists, SumUnfold
<1>3. T \in SUBSET (S \cap T) /\ S \in SUBSET S
  OBVIOUS
<1>4. i[T] \in Int /\ i[T] = j[T]
  BY <1>2, <1>3, AddsUnique
<1> QED
  BY <1>2, <1>4

\* A sum of integers is an integer.
LEMMA SumType ==
  ASSUME NEW S, IsFiniteSet(S), NEW f, \A x \in S : f[x] \in Int
  PROVE  SumFunctionOnSet(f, S) \in Int
<1>1. PICK i : Adds(f, S, i)
  BY AddsExists
<1> QED
  BY <1>1, SumIs

\* The sum over no elements is zero.
LEMMA SumEmpty == ASSUME NEW f PROVE SumFunctionOnSet(f, {}) = 0
<1>1. PICK i : Adds(f, {}, i)
  BY FS_EmptySet, AddsExists
<1>2. i[{}] = 0
  BY <1>1 DEF Adds
<1> QED
  BY <1>1, <1>2, FS_EmptySet, SumIs

\* Any element may be the one that is added last, not only the picked one.
LEMMA SumRemove ==
  ASSUME NEW S, IsFiniteSet(S), NEW f, \A x \in S : f[x] \in Int, NEW x \in S
  PROVE  SumFunctionOnSet(f, S) = f[x] + SumFunctionOnSet(f, S \ {x})
<1> DEFINE Sum(T) == SumFunctionOnSet(f, T)
           Good == {T \in SUBSET S : \A y \in T : Sum(T) = f[y] + Sum(T \ {y})}
<1>1. PICK i : Adds(f, S, i)
  BY AddsExists
<1>2. \A T \in SUBSET S : Sum(T) = i[T] /\ Sum(T) \in Int
  BY <1>1, SumIs
<1>3. \A T \in SUBSET S : T # {} => Pick(T) \in T
  BY PickIn
<1> HIDE DEF Sum
<1>4. \A T \in SUBSET S : T # {} => Sum(T) = f[Pick(T)] + Sum(T \ {Pick(T)})
  BY <1>1, <1>2, <1>3 DEF Adds
<1>5. ASSUME NEW T \in SUBSET S, \A U \in SUBSET T : U # T => U \in Good,
             NEW y \in T
      PROVE  Sum(T) = f[y] + Sum(T \ {y})
  <2> DEFINE c == Pick(T)
  <2>1. c \in T /\ Sum(T) = f[c] + Sum(T \ {c})
    BY <1>3, <1>4
  <2>2. CASE y = c
    BY <2>1, <2>2
  <2>3. CASE y # c
    <3>1. T \ {c} \in Good /\ T \ {y} \in Good
      BY <1>5, <2>1
    <3> HIDE DEF c
    <3>2. Sum(T \ {c}) = f[y] + Sum((T \ {c}) \ {y})
      BY <2>3, <3>1
    <3>3. Sum(T \ {y}) = f[c] + Sum((T \ {y}) \ {c})
      BY <2>1, <2>3, <3>1
    <3>4. (T \ {c}) \ {y} = (T \ {y}) \ {c}
      OBVIOUS
    <3>5. Sum((T \ {c}) \ {y}) \in Int /\ f[c] \in Int /\ f[y] \in Int
      BY <1>2, <2>1
    <3> DEFINE rest == Sum((T \ {c}) \ {y})
    <3>6. Sum(T \ {c}) = f[y] + rest /\ Sum(T \ {y}) = f[c] + rest
      BY <3>2, <3>3, <3>4
    <3>7. rest \in Int
      BY <3>5
    <3> HIDE DEF rest
    <3> QED
      BY <2>1, <3>5, <3>6, <3>7
  <2> QED
    BY <2>2, <2>3
<1>6. ASSUME NEW T \in SUBSET S, \A U \in SUBSET T : U # T => U \in Good
      PROVE  T \in Good
  BY <1>5, <1>6
<1>7. S \in Good
  <2> HIDE DEF Good
  <2> QED BY <1>6, SubsetInduction
<1> QED
  BY <1>7 DEF Sum

\* The sum depends on the values that the function has on the set alone.
LEMMA SumSame ==
  ASSUME NEW S, IsFiniteSet(S),
         NEW f, NEW g, \A x \in S : f[x] \in Int /\ g[x] = f[x]
  PROVE  SumFunctionOnSet(f, S) = SumFunctionOnSet(g, S)
<1> DEFINE Good == {T \in SUBSET S : SumFunctionOnSet(f, T) = SumFunctionOnSet(g, T)}
<1>1. {} \in Good
  BY SumEmpty
<1>2. ASSUME NEW T \in SUBSET S, NEW x \in S \ T, T \in Good
      PROVE  T \cup {x} \in Good
  <2> DEFINE U == T \cup {x}
  <2>1. IsFiniteSet(U) /\ x \in U /\ U \ {x} = T /\ U \in SUBSET S
    BY <1>2, FS_Subset
  <2>2. \A y \in U : f[y] \in Int /\ g[y] = f[y]
    BY <2>1
  <2> HIDE DEF U
  <2>3. SumFunctionOnSet(f, U) = f[x] + SumFunctionOnSet(f, T)
    BY <2>1, <2>2, SumRemove
  <2>4. SumFunctionOnSet(g, U) = g[x] + SumFunctionOnSet(g, T)
    BY <2>1, <2>2, SumRemove
  <2>5. SumFunctionOnSet(f, U) = SumFunctionOnSet(g, U)
    BY <1>2, <2>2, <2>1, <2>3, <2>4
  <2> QED
    BY <2>1, <2>5 DEF U
<1>3. S \in Good
  <2> HIDE DEF Good
  <2> QED BY <1>1, <1>2, SetInduction
<1> QED
  BY <1>3

\* Larger values have a larger sum.
LEMMA SumMonotone ==
  ASSUME NEW S, IsFiniteSet(S),
         NEW f, NEW g, \A x \in S : f[x] \in Int /\ g[x] \in Int /\ f[x] <= g[x]
  PROVE  SumFunctionOnSet(f, S) <= SumFunctionOnSet(g, S)
<1> DEFINE Good == {T \in SUBSET S : SumFunctionOnSet(f, T) <= SumFunctionOnSet(g, T)}
<1>1. {} \in Good
  BY SumEmpty
<1>2. ASSUME NEW T \in SUBSET S, NEW x \in S \ T, T \in Good
      PROVE  T \cup {x} \in Good
  <2> DEFINE U == T \cup {x}
  <2>1. IsFiniteSet(U) /\ x \in U /\ U \ {x} = T /\ U \in SUBSET S /\ IsFiniteSet(T)
    BY <1>2, FS_Subset
  <2>2. \A y \in U : f[y] \in Int /\ g[y] \in Int /\ f[y] <= g[y]
    BY <2>1
  <2> HIDE DEF U
  <2>3. SumFunctionOnSet(f, U) = f[x] + SumFunctionOnSet(f, T)
    BY <2>1, <2>2, SumRemove
  <2>4. SumFunctionOnSet(g, U) = g[x] + SumFunctionOnSet(g, T)
    BY <2>1, <2>2, SumRemove
  <2>5. SumFunctionOnSet(f, T) \in Int /\ SumFunctionOnSet(g, T) \in Int
    BY <1>2, <2>1, SumType
  <2>6. SumFunctionOnSet(f, U) <= SumFunctionOnSet(g, U)
    BY <1>2, <2>1, <2>2, <2>3, <2>4, <2>5
  <2> QED
    BY <2>1, <2>6 DEF U
<1>3. S \in Good
  <2> HIDE DEF Good
  <2> QED BY <1>1, <1>2, SetInduction
<1> QED
  BY <1>3

\* Nothing but zeros adds up to zero.
LEMMA SumZero ==
  ASSUME NEW S, IsFiniteSet(S), NEW f, \A x \in S : f[x] = 0
  PROVE  SumFunctionOnSet(f, S) = 0
<1> DEFINE Good == {T \in SUBSET S : SumFunctionOnSet(f, T) = 0}
<1>1. {} \in Good
  BY SumEmpty
<1>2. ASSUME NEW T \in SUBSET S, NEW x \in S \ T, T \in Good
      PROVE  T \cup {x} \in Good
  <2> DEFINE U == T \cup {x}
  <2>1. IsFiniteSet(U) /\ x \in U /\ U \ {x} = T /\ U \in SUBSET S
    BY <1>2, FS_Subset
  <2>2. \A y \in U : f[y] \in Int
    BY <2>1
  <2> HIDE DEF U
  <2>3. SumFunctionOnSet(f, U) = f[x] + SumFunctionOnSet(f, T)
    BY <2>1, <2>2, SumRemove
  <2>4. SumFunctionOnSet(f, U) = 0
    BY <1>2, <2>3
  <2> QED
    BY <2>1, <2>4 DEF U
<1>3. S \in Good
  <2> HIDE DEF Good
  <2> QED BY <1>1, <1>2, SetInduction
<1> QED
  BY <1>3

\* The sum over two disjoint sets is the sum of the sums.
LEMMA SumDisjoint ==
  ASSUME NEW S, IsFiniteSet(S), NEW A \in SUBSET S, NEW B \in SUBSET (S \ A),
         NEW f, \A x \in S : f[x] \in Int
  PROVE  SumFunctionOnSet(f, A \cup B) = SumFunctionOnSet(f, A) + SumFunctionOnSet(f, B)
<1> DEFINE Sum(T) == SumFunctionOnSet(f, T)
           Good == {T \in SUBSET B : Sum(A \cup T) = Sum(A) + Sum(T)}
<1>1. \A T \in SUBSET S : IsFiniteSet(T) /\ Sum(T) \in Int
  BY FS_Subset, SumType
<1>2. \A T \in SUBSET S : \A x \in T : Sum(T) = f[x] + Sum(T \ {x})
  BY <1>1, SumRemove
<1>3. Sum({}) = 0
  BY SumEmpty
<1> HIDE DEF Sum
<1>4. {} \in Good
  BY <1>1, <1>3
<1>5. ASSUME NEW T \in SUBSET B, NEW x \in B \ T, T \in Good
      PROVE  T \cup {x} \in Good
  <2> DEFINE U == T \cup {x}
  <2>1. Sum(U) = f[x] + Sum(T)
    <3>1. U \in SUBSET S /\ x \in U /\ U \ {x} = T
      BY <1>5
    <3> QED
      BY <1>2, <3>1
  <2>2. Sum(A \cup U) = f[x] + Sum(A \cup T)
    <3>1. A \cup U \in SUBSET S /\ x \in A \cup U /\ (A \cup U) \ {x} = A \cup T
      BY <1>5
    <3> QED
      BY <1>2, <3>1
  <2>3. Sum(A) \in Int /\ Sum(T) \in Int /\ f[x] \in Int
    BY <1>1, <1>5
  <2>4. Sum(A \cup U) = Sum(A) + Sum(U)
    BY <1>5, <2>1, <2>2, <2>3
  <2> QED
    BY <1>5, <2>4
<1>6. B \in Good
  <2>1. IsFiniteSet(B)
    BY <1>1
  <2> HIDE DEF Good
  <2> QED BY <1>4, <1>5, <2>1, SetInduction
<1> QED
  BY <1>6 DEF Sum
=============================================================================
