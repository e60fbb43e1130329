---------------------------- MODULE FiniteSums ----------------------------
(***************************************************************************)
(* Sums over finite sets, for the proofs that add up money.                *)
(*                                                                         *)
(* SumFunctionOnSet folds: it picks the terms one by one.  The recursion   *)
(* behind it has exactly one solution (SumExists, SumUnique), the picks    *)
(* make no difference (SumWithout), and the rest follows: how a sum moves  *)
(* with one term (SumMoves) and when one sum is no more than another       *)
(* (SumFits, SumGrows).                                                    *)
(*                                                                         *)
(* Each induction is an argument about a smallest set that fails, because  *)
(* a theorem with an operator for a parameter cannot be cited.             *)
(***************************************************************************)
EXTENDS Integers, Functions, FiniteSetTheorems, TLAPS

Picked(s) == CHOOSE x \in s : TRUE

(* The recursion behind SumFunctionOnSet: g says of every subset of S what *)
(* the terms w of its members add up to.                                   *)
Adds(w, S, g) ==
  g = [s \in SUBSET S |-> IF s = {} THEN 0 ELSE w[Picked(s)] + g[s \ {Picked(s)}]]

(* What the definition of a sum comes to.                                  *)
LEMMA SumIsChosen ==
  ASSUME NEW w, NEW S
  PROVE SumFunctionOnSet(w, S) = (CHOOSE g : Adds(w, S, g))[S]
BY Zenon DEF SumFunctionOnSet, FoldFunctionOnSet, MapThenFoldSet, Adds, Picked

(* If the recursion has a solution, a sum is one of its values.            *)
LEMMA SumAdds ==
  ASSUME NEW w, NEW S, NEW h, Adds(w, S, h)
  PROVE  \E g : Adds(w, S, g) /\ SumFunctionOnSet(w, S) = g[S]
BY SumIsChosen, Zenon

(* Counting up reaches every number.                                       *)
LEMMA CountsUp ==
  ASSUME NEW N \in SUBSET Nat, 0 \in N, \A n \in N : n + 1 \in N
  PROVE  N = Nat
<1> SUFFICES ASSUME NEW k \in Nat, k \notin N PROVE FALSE
  OBVIOUS
<1> DEFINE Bad == {T \in SUBSET (0..k) : \E j \in 0..k : j \notin N /\ T = 0..j}
<1>1. IsFiniteSet(0..k)
  BY FS_Interval
<1>2. Bad \subseteq FiniteSubsetsOf(0..k) /\ Bad # {}
  <2>1. FiniteSubsetsOf(0..k) = SUBSET (0..k)
    BY <1>1, FS_FiniteSubsetsOfFinite
  <2>2. 0..k \in Bad
    OBVIOUS
  <2> QED BY <2>1, <2>2
<1>3. PICK T \in Bad : \A U \in Bad : ~(<<U, T>> \in StrictSubsetOrdering(0..k))
  <2> HIDE DEF Bad
  <2> QED BY <1>2, FS_StrictSubsetOrderingWellFounded, WFMin, Zenon
<1>4. PICK j \in 0..k : j \notin N /\ T = 0..j
  OBVIOUS
<1>5. j # 0 /\ j - 1 \in 0..k /\ j - 1 \notin N
  BY <1>4
<1>6. 0..(j - 1) \in Bad /\ 0..(j - 1) \subseteq T /\ 0..(j - 1) # T
  <2>1. j \in T /\ j \notin 0..(j - 1)
    BY <1>4
  <2> QED BY <1>4, <1>5, <2>1
<1>7. <<0..(j - 1), T>> \in StrictSubsetOrdering(0..k)
  BY <1>6 DEF StrictSubsetOrdering
<1> QED BY <1>3, <1>6, <1>7

(* The recursion has a solution over the subsets of every finite set: one  *)
(* for the subsets of at most n elements can be carried one further.       *)
LEMMA SumExists ==
  ASSUME NEW S, IsFiniteSet(S), NEW w, \A x \in S : w[x] \in Int
  PROVE  \E g \in [SUBSET S -> Int] : Adds(w, S, g)
<1> DEFINE Step(g, s) == IF s = {} THEN 0 ELSE w[Picked(s)] + g[s \ {Picked(s)}]
           Good(n, g) == \A s \in SUBSET S : Cardinality(s) <= n => g[s] = Step(g, s)
           N == {n \in Nat : \E g \in [SUBSET S -> Int] : Good(n, g)}
<1>1. \A s \in SUBSET S : IsFiniteSet(s) /\ Cardinality(s) \in Nat
  BY FS_Subset, FS_CardinalityType
<1>2. \A s \in SUBSET S : Cardinality(s) = 0 <=> s = {}
  BY <1>1, FS_EmptySet
<1>3. \A s \in SUBSET S : s # {} => Picked(s) \in s
  BY DEF Picked
<1>4. \A s \in SUBSET S : s # {} =>
        /\ s \ {Picked(s)} \in SUBSET S
        /\ Cardinality(s \ {Picked(s)}) = Cardinality(s) - 1
  <2> SUFFICES ASSUME NEW s \in SUBSET S, s # {}
               PROVE  Cardinality(s \ {Picked(s)}) = Cardinality(s) - 1
    OBVIOUS
  <2> QED BY <1>1, <1>3, FS_RemoveElement
<1>5. 0 \in N
  <2> DEFINE g == [s \in SUBSET S |-> 0]
  <2>1. g \in [SUBSET S -> Int]
    OBVIOUS
  <2>2. Good(0, g)
    BY <1>1, <1>2
  <2> QED BY <2>1, <2>2
<1>6. ASSUME NEW n \in N PROVE n + 1 \in N
  <2>1. PICK g \in [SUBSET S -> Int] : Good(n, g)
    OBVIOUS
  <2> DEFINE h == [s \in SUBSET S |-> IF Cardinality(s) <= n THEN g[s] ELSE Step(g, s)]
  <2>2. \A s \in SUBSET S : Step(g, s) \in Int
    BY <1>3, <1>4
  <2>3. h \in [SUBSET S -> Int]
    BY <2>2
  <2>4. ASSUME NEW s \in SUBSET S, Cardinality(s) <= n + 1 PROVE h[s] = Step(h, s)
    <3>1. CASE s = {}
      BY <1>2, <2>1, <3>1
    <3>2. CASE s # {}
      <4>1. h[s \ {Picked(s)}] = g[s \ {Picked(s)}]
        BY <1>1, <1>4, <2>4, <3>2
      <4>2. h[s] = Step(g, s)
        BY <2>1
      <4> QED BY <4>1, <4>2, <3>2
    <3> QED BY <3>1, <3>2
  <2>5. Good(n + 1, h)
    BY <2>4
  <2>6. n + 1 \in Nat
    OBVIOUS
  <2> HIDE DEF h, Good
  <2> QED BY <2>3, <2>5, <2>6
<1>7. Cardinality(S) \in N
  <2> HIDE DEF N
  <2>1. N \in SUBSET Nat
    BY DEF N
  <2> QED BY <1>5, <1>6, <2>1, CountsUp, FS_CardinalityType
<1>8. PICK g \in [SUBSET S -> Int] : Good(Cardinality(S), g)
  BY <1>7
<1>9. \A s \in SUBSET S : g[s] = Step(g, s)
  BY <1>8, FS_Subset
<1> QED BY <1>9 DEF Adds

(* ... and only one, whatever larger set it was meant for.                 *)
LEMMA SumUnique ==
  ASSUME NEW S, IsFiniteSet(S), NEW w, \A x \in S : w[x] \in Int,
         NEW A \in SUBSET S, NEW B \in SUBSET S, NEW T \in SUBSET (A \cap B),
         NEW v, NEW g, NEW h, Adds(w, A, g), Adds(v, B, h),
         \A x \in T : v[x] = w[x]
  PROVE  g[T] = h[T]
<1> SUFFICES ASSUME g[T] # h[T] PROVE FALSE
  OBVIOUS
<1> DEFINE Bad == {U \in SUBSET T : g[U] # h[U]}
<1>1. IsFiniteSet(T)
  BY FS_Subset
<1>2. Bad \subseteq FiniteSubsetsOf(T) /\ Bad # {}
  BY <1>1, FS_FiniteSubsetsOfFinite
<1>3. PICK U \in Bad : \A V \in Bad : ~(<<V, U>> \in StrictSubsetOrdering(T))
  <2> HIDE DEF Bad
  <2> QED BY <1>2, FS_StrictSubsetOrderingWellFounded, WFMin, Zenon
<1>4. U \in SUBSET A /\ U \in SUBSET B /\ U \subseteq T
  OBVIOUS
<1>5. /\ g[U] = IF U = {} THEN 0 ELSE w[Picked(U)] + g[U \ {Picked(U)}]
      /\ h[U] = IF U = {} THEN 0 ELSE v[Picked(U)] + h[U \ {Picked(U)}]
  BY <1>4 DEF Adds
<1>6. U # {} /\ Picked(U) \in U
  BY <1>5 DEF Picked
<1>7. v[Picked(U)] = w[Picked(U)]
  BY <1>4, <1>6
<1>8. U \ {Picked(U)} \in Bad
  BY <1>4, <1>5, <1>6, <1>7
<1>9. <<U \ {Picked(U)}, U>> \in StrictSubsetOrdering(T)
  BY <1>4, <1>6 DEF StrictSubsetOrdering
<1> QED BY <1>3, <1>8, <1>9

(* Every finite sum is a value of a solution, and so an integer.           *)
LEMMA SumSolved ==
  ASSUME NEW S, IsFiniteSet(S), NEW w, \A x \in S : w[x] \in Int
  PROVE  \E g \in [SUBSET S -> Int] : Adds(w, S, g) /\ SumFunctionOnSet(w, S) = g[S]
<1>1. PICK h : Adds(w, S, h)
  BY SumExists
<1>2. PICK g : Adds(w, S, g) /\ SumFunctionOnSet(w, S) = g[S]
  BY <1>1, SumAdds
<1>3. PICK f \in [SUBSET S -> Int] : Adds(w, S, f)
  BY SumExists
<1>4. ASSUME NEW T \in SUBSET S PROVE g[T] = f[T]
  BY <1>2, <1>3, SumUnique
<1>5. g \in [SUBSET S -> Int]
  <2>1. g = [s \in SUBSET S |-> g[s]]
    BY <1>2 DEF Adds
  <2> QED BY <1>3, <1>4, <2>1
<1> QED BY <1>2, <1>5

(* Nothing adds up to nothing.                                             *)
LEMMA SumOfNone == ASSUME NEW w PROVE SumFunctionOnSet(w, {}) = 0
<1>1. IsFiniteSet({})
  BY FS_EmptySet
<1>2. PICK g : Adds(w, {}, g) /\ SumFunctionOnSet(w, {}) = g[{}]
  BY <1>1, SumSolved
<1> QED BY <1>2 DEF Adds

(* Integers add up to an integer.                                          *)
LEMMA SumIsInt ==
  ASSUME NEW S, IsFiniteSet(S), NEW w, \A x \in S : w[x] \in Int
  PROVE  SumFunctionOnSet(w, S) \in Int
<1>1. PICK g \in [SUBSET S -> Int] : SumFunctionOnSet(w, S) = g[S]
  BY SumSolved
<1>2. S \in SUBSET S
  OBVIOUS
<1> QED BY <1>1, <1>2

(* Only the terms matter.                                                  *)
LEMMA SameSum ==
  ASSUME NEW S, IsFiniteSet(S), NEW w, NEW v, \A x \in S : w[x] \in Int /\ v[x] = w[x]
  PROVE  SumFunctionOnSet(v, S) = SumFunctionOnSet(w, S)
<1>1. PICK g : Adds(w, S, g) /\ SumFunctionOnSet(w, S) = g[S]
  BY SumSolved
<1>2. PICK h : Adds(v, S, h) /\ SumFunctionOnSet(v, S) = h[S]
  BY SumSolved
<1>3. g[S] = h[S]
  BY <1>1, <1>2, SumUnique
<1> QED BY <1>1, <1>2, <1>3

(* The solution over a set is the sum over each of its subsets.            *)
LEMMA SumOfPart ==
  ASSUME NEW S, IsFiniteSet(S), NEW w, \A x \in S : w[x] \in Int,
         NEW g, Adds(w, S, g), NEW T \in SUBSET S
  PROVE  SumFunctionOnSet(w, T) = g[T]
<1>1. IsFiniteSet(T) /\ \A x \in T : w[x] \in Int
  BY FS_Subset
<1>2. PICK h : Adds(w, T, h) /\ SumFunctionOnSet(w, T) = h[T]
  BY <1>1, SumSolved
<1>3. g[T] = h[T]
  BY <1>2, SumUnique
<1> QED BY <1>2, <1>3

(* The term that is picked, and the others.                                *)
LEMMA SumPicks ==
  ASSUME NEW S, IsFiniteSet(S), S # {}, NEW w, \A x \in S : w[x] \in Int
  PROVE  SumFunctionOnSet(w, S) = w[Picked(S)] + SumFunctionOnSet(w, S \ {Picked(S)})
<1>1. PICK g : Adds(w, S, g) /\ SumFunctionOnSet(w, S) = g[S]
  BY SumSolved
<1>2. g[S] = w[Picked(S)] + g[S \ {Picked(S)}]
  BY <1>1 DEF Adds
<1>3. SumFunctionOnSet(w, S \ {Picked(S)}) = g[S \ {Picked(S)}]
  BY <1>1, SumOfPart
<1> QED BY <1>1, <1>2, <1>3

(* The order in which the terms are picked makes no difference: in a       *)
(* smallest set where it did, two picks could be swapped.                  *)
LEMMA SumWithout ==
  ASSUME NEW S, IsFiniteSet(S), NEW w, \A x \in S : w[x] \in Int, NEW x \in S
  PROVE  SumFunctionOnSet(w, S) = w[x] + SumFunctionOnSet(w, S \ {x})
<1> DEFINE Sum(T) == SumFunctionOnSet(w, T)
           Fails(T) == \E y \in T : Sum(T) # w[y] + Sum(T \ {y})
           Bad == {T \in SUBSET S : Fails(T)}
<1> SUFFICES ASSUME Bad # {} PROVE FALSE
  OBVIOUS
<1>1. Bad \subseteq FiniteSubsetsOf(S)
  BY FS_FiniteSubsetsOfFinite
<1>2. PICK T \in Bad : \A U \in Bad : ~(<<U, T>> \in StrictSubsetOrdering(S))
  <2> HIDE DEF Bad
  <2> QED BY <1>1, FS_StrictSubsetOrderingWellFounded, WFMin, Zenon
<1>3. \A U \in SUBSET T : U # T => U \notin Bad
  <2> SUFFICES ASSUME NEW U \in SUBSET T, U # T PROVE U \notin Bad
    OBVIOUS
  <2>1. <<U, T>> \in StrictSubsetOrdering(S)
    BY DEF StrictSubsetOrdering
  <2> HIDE DEF Bad
  <2> QED BY <1>2, <2>1
<1>4. PICK y \in T : Sum(T) # w[y] + Sum(T \ {y})
  OBVIOUS
<1> DEFINE z == Picked(T)
<1>5. z \in T /\ T \in SUBSET S /\ y \in T
  BY <1>4 DEF Picked
<1>6. \A U \in SUBSET T : IsFiniteSet(U) /\ Sum(U) \in Int
  <2> SUFFICES ASSUME NEW U \in SUBSET T PROVE IsFiniteSet(U) /\ Sum(U) \in Int
    OBVIOUS
  <2>1. IsFiniteSet(U)
    BY FS_Subset
  <2> HIDE DEF Bad
  <2> QED BY <2>1, <1>5, SumIsInt
<1>7. Sum(T) = w[z] + Sum(T \ {z})
  <2> HIDE DEF Bad
  <2> QED BY <1>5, <1>6, SumPicks
<1>8. z # y
  BY <1>4, <1>7
<1>9. Sum(T \ {z}) = w[y] + Sum((T \ {z}) \ {y})
  BY <1>3, <1>5, <1>8
<1>10. Sum(T \ {y}) = w[z] + Sum((T \ {z}) \ {y})
  <2>1. (T \ {y}) \ {z} = (T \ {z}) \ {y}
    OBVIOUS
  <2>2. Sum(T \ {y}) = w[z] + Sum((T \ {y}) \ {z})
    BY <1>3, <1>5, <1>8
  <2> HIDE DEF z
  <2> QED BY <2>1, <2>2
<1>11. w[y] \in Int /\ w[z] \in Int /\ Sum((T \ {z}) \ {y}) \in Int
  BY <1>5, <1>6
<1>12. \A a, b, c \in Int : a + (b + c) = b + (a + c)
  OBVIOUS
<1> HIDE DEF Sum, z, Bad
<1> QED BY <1>4, <1>7, <1>9, <1>10, <1>11, <1>12

(* Natural numbers add up to a natural number.                             *)
LEMMA SumIsNat ==
  ASSUME NEW S, IsFiniteSet(S), NEW w, \A x \in S : w[x] \in Nat
  PROVE  SumFunctionOnSet(w, S) \in Nat
<1> DEFINE Sum(T) == SumFunctionOnSet(w, T)
           Bad == {T \in SUBSET S : Sum(T) \notin Nat}
<1> SUFFICES ASSUME Bad # {} PROVE FALSE
  OBVIOUS
<1>1. Bad \subseteq FiniteSubsetsOf(S)
  BY FS_FiniteSubsetsOfFinite
<1>2. PICK T \in Bad : \A U \in Bad : ~(<<U, T>> \in StrictSubsetOrdering(S))
  <2> HIDE DEF Bad
  <2> QED BY <1>1, FS_StrictSubsetOrderingWellFounded, WFMin, Zenon
<1>3. T \in SUBSET S /\ Sum(T) \notin Nat /\ IsFiniteSet(T)
  BY FS_Subset
<1>4. T # {}
  BY <1>3, SumOfNone
<1>5. PICK x \in T : TRUE
  BY <1>4
<1>6. T \ {x} \notin Bad
  <2>1. <<T \ {x}, T>> \in StrictSubsetOrdering(S)
    BY <1>3, <1>5 DEF StrictSubsetOrdering
  <2> HIDE DEF Bad
  <2> QED BY <1>2, <2>1
<1>7. Sum(T) = w[x] + Sum(T \ {x})
  BY <1>3, <1>5, SumWithout
<1> QED BY <1>3, <1>5, <1>6, <1>7

(* Terms that each have a term of another sum to themselves, at least as   *)
(* large, add up to no more than it.                                       *)
LEMMA SumFits ==
  ASSUME NEW S, IsFiniteSet(S), NEW w, \A x \in S : w[x] \in Nat,
         NEW A, IsFiniteSet(A), NEW v, \A a \in A : v[a] \in Nat,
         NEW f \in [S -> A],
         \A x, y \in S : f[x] = f[y] => x = y,
         \A x \in S : w[x] <= v[f[x]]
  PROVE  SumFunctionOnSet(w, S) <= SumFunctionOnSet(v, A)
<1> DEFINE Lhs(T) == SumFunctionOnSet(w, T)
           Rhs(B) == SumFunctionOnSet(v, B)
           Within(T, B) == \A x \in T : f[x] \in B
           Bad == {T \in SUBSET S : \E B \in SUBSET A : Within(T, B) /\ ~(Lhs(T) <= Rhs(B))}
<1> SUFFICES ASSUME Bad # {} PROVE FALSE
  <2>1. Within(S, A)
    OBVIOUS
  <2>2. ~(Lhs(S) <= Rhs(A)) => S \in Bad
    BY <2>1
  <2> QED BY <2>2
<1>1. Bad \subseteq FiniteSubsetsOf(S)
  BY FS_FiniteSubsetsOfFinite
<1>2. PICK T \in Bad : \A U \in Bad : ~(<<U, T>> \in StrictSubsetOrdering(S))
  <2> HIDE DEF Bad
  <2> QED BY <1>1, FS_StrictSubsetOrderingWellFounded, WFMin, Zenon
<1>3. PICK B \in SUBSET A : Within(T, B) /\ ~(Lhs(T) <= Rhs(B))
  OBVIOUS
<1>4. T \in SUBSET S /\ IsFiniteSet(T) /\ IsFiniteSet(B)
  BY FS_Subset
<1>5. Rhs(B) \in Nat
  BY <1>4, SumIsNat
<1>6. T # {}
  <2>1. Lhs({}) = 0
    BY SumOfNone
  <2> QED BY <1>3, <1>5, <2>1
<1>7. PICK x \in T : TRUE
  BY <1>6
<1>8. f[x] \in B
  BY <1>3, <1>7
<1>9. Lhs(T) = w[x] + Lhs(T \ {x}) /\ Rhs(B) = v[f[x]] + Rhs(B \ {f[x]})
  BY <1>4, <1>7, <1>8, SumWithout
<1>10. Lhs(T \ {x}) \in Nat /\ Rhs(B \ {f[x]}) \in Nat
  <2>1. IsFiniteSet(T \ {x}) /\ IsFiniteSet(B \ {f[x]})
    BY <1>4, FS_RemoveElement
  <2> QED BY <1>4, <2>1, SumIsNat
<1>11. Within(T \ {x}, B \ {f[x]})
  BY <1>3, <1>4, <1>7
<1>12. T \ {x} \notin Bad
  <2>1. <<T \ {x}, T>> \in StrictSubsetOrdering(S)
    BY <1>4, <1>7 DEF StrictSubsetOrdering
  <2> HIDE DEF Bad
  <2> QED BY <1>2, <2>1
<1>13. Lhs(T \ {x}) <= Rhs(B \ {f[x]})
  <2>1. T \ {x} \in SUBSET S /\ B \ {f[x]} \in SUBSET A
    BY <1>4
  <2> HIDE DEF Lhs, Rhs, Within
  <2> QED BY <1>11, <1>12, <2>1
<1>14. w[x] \in Nat /\ v[f[x]] \in Nat /\ w[x] <= v[f[x]]
  BY <1>4, <1>7, <1>8
<1> HIDE DEF Lhs, Rhs, Within, Bad
<1> QED BY <1>3, <1>9, <1>10, <1>13, <1>14

(* Larger terms have the larger sum.                                       *)
LEMMA SumGrows ==
  ASSUME NEW S, IsFiniteSet(S), NEW w, NEW v,
         \A x \in S : w[x] \in Nat /\ v[x] \in Nat /\ w[x] <= v[x]
  PROVE  SumFunctionOnSet(w, S) <= SumFunctionOnSet(v, S)
<1> DEFINE f == [x \in S |-> x]
<1>1. f \in [S -> S] /\ (\A x, y \in S : f[x] = f[y] => x = y) /\ \A x \in S : w[x] <= v[f[x]]
  OBVIOUS
<1> HIDE DEF f
<1> QED BY <1>1, SumFits

(* Zeros add up to zero.                                                   *)
LEMMA SumOfZeros ==
  ASSUME NEW S, IsFiniteSet(S), NEW w, \A x \in S : w[x] = 0
  PROVE  SumFunctionOnSet(w, S) = 0
<1> DEFINE Bad == {T \in SUBSET S : SumFunctionOnSet(w, T) # 0}
<1> SUFFICES ASSUME Bad # {} PROVE FALSE
  OBVIOUS
<1>1. Bad \subseteq FiniteSubsetsOf(S)
  BY FS_FiniteSubsetsOfFinite
<1>2. PICK T \in Bad : \A U \in Bad : ~(<<U, T>> \in StrictSubsetOrdering(S))
  <2> HIDE DEF Bad
  <2> QED BY <1>1, FS_StrictSubsetOrderingWellFounded, WFMin, Zenon
<1>3. T \in SUBSET S /\ SumFunctionOnSet(w, T) # 0 /\ IsFiniteSet(T)
  BY FS_Subset
<1>4. PICK x \in T : TRUE
  BY <1>3, SumOfNone
<1>5. T \ {x} \notin Bad
  <2>1. <<T \ {x}, T>> \in StrictSubsetOrdering(S)
    BY <1>3, <1>4 DEF StrictSubsetOrdering
  <2> HIDE DEF Bad
  <2> QED BY <1>2, <2>1
<1>6. SumFunctionOnSet(w, T) = w[x] + SumFunctionOnSet(w, T \ {x})
  BY <1>3, <1>4, SumWithout
<1> QED BY <1>3, <1>4, <1>5, <1>6

(* One term changes, and the sum by as much.                               *)
LEMMA SumMoves ==
  ASSUME NEW S, IsFiniteSet(S), NEW w, NEW v, NEW x \in S,
         \A y \in S : w[y] \in Int /\ v[y] \in Int,
         \A y \in S \ {x} : v[y] = w[y]
  PROVE  SumFunctionOnSet(v, S) = SumFunctionOnSet(w, S) - w[x] + v[x]
<1>1. IsFiniteSet(S \ {x})
  BY FS_RemoveElement
<1>2. SumFunctionOnSet(v, S \ {x}) = SumFunctionOnSet(w, S \ {x})
  BY <1>1, SameSum
<1>3. SumFunctionOnSet(w, S \ {x}) \in Int
  BY <1>1, SumIsInt
<1>4. /\ SumFunctionOnSet(v, S) = v[x] + SumFunctionOnSet(v, S \ {x})
      /\ SumFunctionOnSet(w, S) = w[x] + SumFunctionOnSet(w, S \ {x})
  BY SumWithout
<1> QED BY <1>2, <1>3, <1>4
=============================================================================
