----------------------------- MODULE FiniteProofs -----------------------------
(***************************************************************************)
(* What the proofs of the other modules need to know of finite sets: that  *)
(* one of numbers has a largest and a smallest member, and what a sum over *)
(* one is.  A sum is SumFunctionOnSet of the community module Functions, a *)
(* fold, that is, a recursive function on the subsets of the set.          *)
(* Induction on a finite set is done by a smallest counterexample.  And the *)
(* number of entries of a sequence that lie in a set.                      *)
(***************************************************************************)
EXTENDS Integers, Sequences, Functions, FiniteSetsExt, FiniteSetTheorems, TLAPS

\* Every family of subsets of a finite set has a smallest member: what stands
\* in for induction below.
LEMMA SmallestSubset ==
  ASSUME NEW S, IsFiniteSet(S), NEW Bad \in SUBSET (SUBSET S), Bad # {}
  PROVE  \E T \in Bad : \A U \in SUBSET T : U # T => U \notin Bad
<1>1. IsWellFoundedOn(StrictSubsetOrdering(S), SUBSET S)
  BY FS_StrictSubsetOrderingWellFounded, FS_FiniteSubsetsOfFinite
<1>2. PICK T \in Bad : \A U \in Bad : ~(<<U, T>> \in StrictSubsetOrdering(S))
  BY <1>1, WFMin
<1>3. QED
  BY <1>2 DEF StrictSubsetOrdering

-----------------------------------------------------------------------------
(* Extremes                                                                *)

\* A finite set with an integer for each element has one whose integer is the
\* least: the earliest of some events, the smallest of some sizes.
THEOREM LeastElement ==
  ASSUME NEW S, IsFiniteSet(S), S # {}, NEW f, \A x \in S : f[x] \in Int
  PROVE  \E x \in S : \A y \in S : f[x] <= f[y]
<1> DEFINE Least(T) == \E x \in T : \A y \in T : f[x] <= f[y]
           Bad == {T \in SUBSET S : T # {} /\ ~Least(T)}
<1>1. SUFFICES ASSUME Bad # {} PROVE FALSE
  OBVIOUS
<1>2. PICK T \in Bad : \A U \in SUBSET T : U # T => U \notin Bad
  <2>1. Bad \in SUBSET (SUBSET S)
    OBVIOUS
  <2> HIDE DEF Bad
  <2>2. QED
    BY <1>1, <2>1, SmallestSubset
<1>3. PICK z \in T : TRUE
  OBVIOUS
<1>4. CASE T \ {z} = {}
  <2>1. \A y \in T : y = z
    BY <1>4
  <2>2. Least(T)
    BY <1>3, <2>1
  <2>3. QED
    BY <2>2
<1>5. CASE T \ {z} # {}
  <2>1. Least(T \ {z})
    BY <1>2, <1>3, <1>5
  <2>2. PICK x \in T \ {z} : \A y \in T \ {z} : f[x] <= f[y]
    BY <2>1
  <2>3. (\A y \in T : f[x] <= f[y]) \/ (\A y \in T : f[z] <= f[y])
    BY <1>3, <2>2
  <2>4. Least(T)
    BY <1>3, <2>2, <2>3
  <2>5. QED
    BY <2>4
<1>6. QED
  BY <1>4, <1>5

\* Min and Max of a finite set of integers are members, and bound it.
THEOREM Extremes ==
  ASSUME NEW S, IsFiniteSet(S), S # {}, S \subseteq Int
  PROVE  /\ Min(S) \in S /\ \A y \in S : Min(S) <= y
         /\ Max(S) \in S /\ \A y \in S : y <= Max(S)
<1>1. \E x \in S : \A y \in S : x <= y
  <2> DEFINE f == [x \in S |-> x]
  <2>1. \E x \in S : \A y \in S : f[x] <= f[y]
    BY LeastElement
  <2>2. QED
    BY <2>1
<1>2. \E x \in S : \A y \in S : x >= y
  <2> DEFINE f == [x \in S |-> -x]
  <2>1. \A x \in S : f[x] \in Int
    OBVIOUS
  <2> HIDE DEF f
  <2>2. PICK x \in S : \A y \in S : f[x] <= f[y]
    BY <2>1, LeastElement
  <2>3. \A y \in S : -x <= -y
    BY <2>2 DEF f
  <2>4. \A y \in S : x >= y
    BY <2>3
  <2>5. QED
    BY <2>4
<1>3. Min(S) \in S /\ \A y \in S : Min(S) <= y
  BY <1>1 DEF Min
<1>4. Max(S) \in S /\ \A y \in S : Max(S) >= y
  BY <1>2 DEF Max
<1>5. QED
  BY <1>3, <1>4

-----------------------------------------------------------------------------
(* The fold is well defined.                                               *)

\* The element the fold takes next.
Picked(s) == CHOOSE x \in s : TRUE

\* g is the recursive function the fold of f over the subsets of S stands for
Folds(g, f, S) ==
  g = [s \in SUBSET S |-> IF s = {} THEN 0 ELSE f[Picked(s)] + g[s \ {Picked(s)}]]

\* The community module's sum is that recursive function, applied to the set.
LEMMA SumUnfolds ==
  ASSUME NEW f, NEW S
  PROVE  SumFunctionOnSet(f, S) = (CHOOSE g : Folds(g, f, S))[S]
BY DEF SumFunctionOnSet, FoldFunctionOnSet, MapThenFoldSet, Folds, Picked

\* The element taken is one of the set's.
LEMMA PickedIn == ASSUME NEW s, s # {} PROVE Picked(s) \in s
BY DEF Picked

\* Two such functions agree wherever both are defined.
LEMMA FoldsAgree ==
  ASSUME NEW f, NEW S, IsFiniteSet(S), NEW T \in SUBSET S, NEW g, NEW h,
         Folds(g, f, S), Folds(h, f, T)
  PROVE  \A s \in SUBSET T : g[s] = h[s]
<1> DEFINE Bad == {s \in SUBSET T : g[s] # h[s]}
<1>1. SUFFICES ASSUME Bad # {} PROVE FALSE
  OBVIOUS
<1>2. IsFiniteSet(T)
  BY FS_Subset
<1>3. PICK s \in Bad : \A u \in SUBSET s : u # s => u \notin Bad
  <2>1. Bad \in SUBSET (SUBSET T)
    OBVIOUS
  <2> HIDE DEF Bad
  <2>2. QED
    BY <1>1, <1>2, <2>1, SmallestSubset
<1>4. g[s] = IF s = {} THEN 0 ELSE f[Picked(s)] + g[s \ {Picked(s)}]
  BY DEF Folds
<1>5. h[s] = IF s = {} THEN 0 ELSE f[Picked(s)] + h[s \ {Picked(s)}]
  BY DEF Folds
<1>6. s # {} => g[s \ {Picked(s)}] = h[s \ {Picked(s)}]
  BY <1>3, PickedIn
<1>7. QED
  BY <1>4, <1>5, <1>6

\* And there is one, so the sum is what the recursion says.
LEMMA FoldsExist ==
  ASSUME NEW f, NEW S, IsFiniteSet(S)
  PROVE  \E g : Folds(g, f, S)
<1> DEFINE Bad == {T \in SUBSET S : ~\E g : Folds(g, f, T)}
           value(u) == (CHOOSE g : Folds(g, f, u))[u]
<1>1. SUFFICES ASSUME Bad # {} PROVE FALSE
  BY <1>1 
<1>2. PICK T \in Bad : \A U \in SUBSET T : U # T => U \notin Bad
  <2>1. Bad \in SUBSET (SUBSET S)
    OBVIOUS
  <2> HIDE DEF Bad
  <2>2. QED
    BY <1>1, <2>1, SmallestSubset
<1>3. ASSUME NEW u \in SUBSET T, u # T
      PROVE  value(u) = IF u = {} THEN 0 ELSE f[Picked(u)] + value(u \ {Picked(u)})
  <2> DEFINE g == CHOOSE g : Folds(g, f, u)
             w == u \ {Picked(u)}
             h == CHOOSE h : Folds(h, f, w)
  <2>1. Folds(g, f, u)
    BY <1>2, <1>3
  <2>2. Folds(h, f, w)
    BY <1>2, <1>3
  <2>3. IsFiniteSet(u) 
    BY <1>3, FS_Subset
  <2> HIDE DEF g, h
  <2>4. g[w] = h[w]
    BY <2>1, <2>2, <2>3, FoldsAgree
  <2>5. g[u] = IF u = {} THEN 0 ELSE f[Picked(u)] + g[w]
    BY <2>1 DEF Folds
  <2>6. QED
    BY <2>4, <2>5 DEF g, h
<1> DEFINE all == [s \in SUBSET T |-> IF s = {} THEN 0 ELSE f[Picked(s)] + value(s \ {Picked(s)})]
<1> HIDE DEF value
<1>4. \A s \in SUBSET T : s # {} => all[s \ {Picked(s)}] = value(s \ {Picked(s)})
  <2> SUFFICES ASSUME NEW s \in SUBSET T, s # {}
               PROVE  all[s \ {Picked(s)}] = value(s \ {Picked(s)})
    OBVIOUS
  <2>1. s \ {Picked(s)} \in SUBSET T /\ s \ {Picked(s)} # T
    BY PickedIn
  <2>2. QED
    BY <2>1, <1>3
<1>5. Folds(all, f, T)
  BY <1>4 DEF Folds
<1>6. QED
  BY <1>2, <1>5

\* The sum over no elements is nothing, and over more it is one of them and the
\* sum over the rest.
LEMMA SumRecursion ==
  ASSUME NEW f, NEW S, IsFiniteSet(S)
  PROVE  SumFunctionOnSet(f, S) =
           IF S = {} THEN 0 ELSE f[Picked(S)] + SumFunctionOnSet(f, S \ {Picked(S)})
<1> DEFINE g == CHOOSE g : Folds(g, f, S)
           T == S \ {Picked(S)}
           h == CHOOSE h : Folds(h, f, T)
<1>1. IsFiniteSet(T)
  BY FS_Subset
<1>2. Folds(g, f, S) /\ Folds(h, f, T)
  BY <1>1, FoldsExist
<1>3. SumFunctionOnSet(f, S) = g[S] /\ SumFunctionOnSet(f, T) = h[T]
  BY SumUnfolds
<1> HIDE DEF g, h
<1>4. g[T] = h[T]
  BY <1>2, FoldsAgree
<1>5. g[S] = IF S = {} THEN 0 ELSE f[Picked(S)] + g[T]
  BY <1>2 DEF Folds
<1>6. QED
  BY <1>3, <1>4, <1>5

\* The sum over no elements is nothing.
LEMMA SumNothing == ASSUME NEW f PROVE SumFunctionOnSet(f, {}) = 0
BY FS_EmptySet, SumRecursion

-----------------------------------------------------------------------------
(* What a sum is of integers.                                              *)

\* f gives every element of S an integer.
Numbers(f, S) == \A x \in S : f[x] \in Int

\* The sum of integers is one.
LEMMA SumInteger ==
  ASSUME NEW f, NEW S, IsFiniteSet(S), Numbers(f, S)
  PROVE  SumFunctionOnSet(f, S) \in Int
<1> DEFINE Bad == {T \in SUBSET S : SumFunctionOnSet(f, T) \notin Int}
<1>1. SUFFICES ASSUME Bad # {} PROVE FALSE
  OBVIOUS
<1>2. PICK T \in Bad : \A U \in SUBSET T : U # T => U \notin Bad
  <2>1. Bad \in SUBSET (SUBSET S)
    OBVIOUS
  <2> HIDE DEF Bad
  <2>2. QED
    BY <1>1, <2>1, SmallestSubset
<1>3. T \in SUBSET S /\ SumFunctionOnSet(f, T) \notin Int /\ IsFiniteSet(T)
  BY FS_Subset
<1>4. CASE T = {}
  BY <1>3, <1>4, SumRecursion
<1>5. CASE T # {}
  <2>1. Picked(T) \in T
    BY <1>5, PickedIn
  <2>2. SumFunctionOnSet(f, T \ {Picked(T)}) \in Int
    BY <1>2, <2>1
  <2>3. QED
    BY <1>3, <1>5, <2>1, <2>2, SumRecursion DEF Numbers
<1>6. QED
  BY <1>4, <1>5

\* Any element may be taken out first.
LEMMA SumTakeOut ==
  ASSUME NEW f, NEW S, IsFiniteSet(S), Numbers(f, S), NEW y \in S
  PROVE  SumFunctionOnSet(f, S) = f[y] + SumFunctionOnSet(f, S \ {y})
<1> DEFINE Sum(T) == SumFunctionOnSet(f, T)
           Bad == {T \in SUBSET S : \E z \in T : Sum(T) # f[z] + Sum(T \ {z})}
<1>1. SUFFICES ASSUME Bad # {} PROVE FALSE
  OBVIOUS
<1>2. PICK T \in Bad : \A U \in SUBSET T : U # T => U \notin Bad
  <2>1. Bad \in SUBSET (SUBSET S)
    OBVIOUS
  <2> HIDE DEF Bad
  <2>2. QED
    BY <1>1, <2>1, SmallestSubset
<1>3. PICK z \in T : Sum(T) # f[z] + Sum(T \ {z})
  OBVIOUS
<1> DEFINE x == Picked(T)
<1>4. x \in T /\ IsFiniteSet(T)
  BY PickedIn, FS_Subset
<1>5. \A U \in SUBSET T : Sum(U) \in Int /\ IsFiniteSet(U)
  BY FS_Subset, SumInteger DEF Numbers
<1>6. Sum(T) = f[x] + Sum(T \ {x})
  BY <1>3, <1>4, SumRecursion
<1> HIDE DEF x
<1>7. x # z
  BY <1>3, <1>6
<1>8. Sum(T \ {x}) = f[z] + Sum((T \ {x}) \ {z})
  BY <1>2, <1>4, <1>7
<1>9. Sum(T \ {z}) = f[x] + Sum((T \ {z}) \ {x})
  BY <1>2, <1>4, <1>7
<1>10. (T \ {x}) \ {z} = (T \ {z}) \ {x}
  OBVIOUS
<1>11. f[x] \in Int /\ f[z] \in Int /\ Sum((T \ {z}) \ {x}) \in Int
  BY <1>4, <1>5 DEF Numbers
<1> DEFINE rest == Sum((T \ {z}) \ {x})
           one == Sum(T \ {x})
           other == Sum(T \ {z})
<1>12. one = f[z] + rest /\ other = f[x] + rest /\ Sum(T) = f[x] + one
  BY <1>6, <1>8, <1>9, <1>10
<1>13. Sum(T) # f[z] + other /\ rest \in Int
  BY <1>3, <1>11
<1> HIDE DEF Sum, rest, one, other, Bad
<1>14. QED
  BY <1>11, <1>12, <1>13

\* Equal summands make equal sums.
LEMMA SumSame ==
  ASSUME NEW f, NEW g, NEW S, IsFiniteSet(S), \A x \in S : f[x] = g[x]
  PROVE  SumFunctionOnSet(f, S) = SumFunctionOnSet(g, S)
<1> DEFINE Bad == {T \in SUBSET S : SumFunctionOnSet(f, T) # SumFunctionOnSet(g, T)}
<1>1. SUFFICES ASSUME Bad # {} PROVE FALSE
  OBVIOUS
<1>2. PICK T \in Bad : \A U \in SUBSET T : U # T => U \notin Bad
  <2>1. Bad \in SUBSET (SUBSET S)
    OBVIOUS
  <2> HIDE DEF Bad
  <2>2. QED
    BY <1>1, <2>1, SmallestSubset
<1>3. IsFiniteSet(T) /\ (T # {} => Picked(T) \in T)
  BY PickedIn, FS_Subset
<1>4. T # {} => SumFunctionOnSet(f, T \ {Picked(T)}) = SumFunctionOnSet(g, T \ {Picked(T)})
  BY <1>2, <1>3
<1>5. QED
  BY <1>3, <1>4, SumRecursion

\* The sum over what one element is taken out of does not look at it, so a
\* change of one summand changes the sum by as much.
THEOREM SumChange ==
  ASSUME NEW f, NEW g, NEW S, IsFiniteSet(S), Numbers(f, S), NEW y \in S, g[y] \in Int,
         \A x \in S \ {y} : g[x] = f[x]
  PROVE  SumFunctionOnSet(g, S) = SumFunctionOnSet(f, S) - f[y] + g[y]
<1> DEFINE T == S \ {y}
<1>1. IsFiniteSet(T) /\ Numbers(g, S) /\ Numbers(f, T)
  BY FS_Subset DEF Numbers
<1>2. SumFunctionOnSet(g, T) = SumFunctionOnSet(f, T)
  BY <1>1, SumSame
<1>3. SumFunctionOnSet(f, T) \in Int
  BY <1>1, SumInteger
<1>4. SumFunctionOnSet(f, S) = f[y] + SumFunctionOnSet(f, T)
  BY SumTakeOut
<1>5. SumFunctionOnSet(g, S) = g[y] + SumFunctionOnSet(g, T)
  BY <1>1, SumTakeOut
<1>6. f[y] \in Int
  BY DEF Numbers
<1>7. QED
  BY <1>2, <1>3, <1>4, <1>5, <1>6

\* A sum of larger numbers is larger.
THEOREM SumMonotonic ==
  ASSUME NEW f, NEW g, NEW S, IsFiniteSet(S), Numbers(f, S), Numbers(g, S),
         \A x \in S : f[x] <= g[x]
  PROVE  SumFunctionOnSet(f, S) <= SumFunctionOnSet(g, S)
<1> DEFINE Bad == {T \in SUBSET S : ~(SumFunctionOnSet(f, T) <= SumFunctionOnSet(g, T))}
<1>1. SUFFICES ASSUME Bad # {} PROVE FALSE
  OBVIOUS
<1>2. PICK T \in Bad : \A U \in SUBSET T : U # T => U \notin Bad
  <2>1. Bad \in SUBSET (SUBSET S)
    OBVIOUS
  <2> HIDE DEF Bad
  <2>2. QED
    BY <1>1, <2>1, SmallestSubset
<1>3. IsFiniteSet(T) /\ (T # {} => Picked(T) \in T)
  BY PickedIn, FS_Subset
<1> DEFINE x == Picked(T)
           U == T \ {x}
<1>4. CASE T = {}
  <2>1. SumFunctionOnSet(f, {}) = 0 /\ SumFunctionOnSet(g, {}) = 0
    BY SumNothing
  <2>2. QED
    BY <1>4, <2>1
<1>5. CASE T # {}
  <2>1. SumFunctionOnSet(f, U) <= SumFunctionOnSet(g, U)
    BY <1>2, <1>3, <1>5
  <2>2. SumFunctionOnSet(f, U) \in Int /\ SumFunctionOnSet(g, U) \in Int
    BY <1>3, FS_Subset, SumInteger DEF Numbers
  <2>3. /\ SumFunctionOnSet(f, T) = f[x] + SumFunctionOnSet(f, U)
        /\ SumFunctionOnSet(g, T) = g[x] + SumFunctionOnSet(g, U)
    BY <1>3, <1>5, SumRecursion
  <2>4. f[x] \in Int /\ g[x] \in Int /\ f[x] <= g[x]
    BY <1>3, <1>5 DEF Numbers
  <2>5. SumFunctionOnSet(f, T) <= SumFunctionOnSet(g, T)
    BY <2>1, <2>2, <2>3, <2>4
  <2>6. QED
    BY <2>5
<1>6. QED
  BY <1>4, <1>5

\* The sum of nothing but zeros is zero.
THEOREM SumZero ==
  ASSUME NEW f, NEW S, IsFiniteSet(S), \A x \in S : f[x] = 0
  PROVE  SumFunctionOnSet(f, S) = 0
<1> DEFINE Bad == {T \in SUBSET S : SumFunctionOnSet(f, T) # 0}
<1>1. SUFFICES ASSUME Bad # {} PROVE FALSE
  OBVIOUS
<1>2. PICK T \in Bad : \A U \in SUBSET T : U # T => U \notin Bad
  <2>1. Bad \in SUBSET (SUBSET S)
    OBVIOUS
  <2> HIDE DEF Bad
  <2>2. QED
    BY <1>1, <2>1, SmallestSubset
<1>3. IsFiniteSet(T) /\ (T # {} => Picked(T) \in T)
  BY PickedIn, FS_Subset
<1>4. T # {} => SumFunctionOnSet(f, T \ {Picked(T)}) = 0 /\ f[Picked(T)] = 0
  BY <1>2, <1>3
<1>5. SumFunctionOnSet(f, T) = 0
  BY <1>3, <1>4, SumRecursion
<1>6. QED
  BY <1>5

\* Two sums over the same elements add up to the sum of their summands.
THEOREM SumAdds ==
  ASSUME NEW f, NEW g, NEW h, NEW S, IsFiniteSet(S), Numbers(f, S), Numbers(g, S),
         \A x \in S : h[x] = f[x] + g[x]
  PROVE  SumFunctionOnSet(h, S) = SumFunctionOnSet(f, S) + SumFunctionOnSet(g, S)
<1> DEFINE Bad == {T \in SUBSET S : SumFunctionOnSet(h, T) #
                                    SumFunctionOnSet(f, T) + SumFunctionOnSet(g, T)}
<1>1. SUFFICES ASSUME Bad # {} PROVE FALSE
  OBVIOUS
<1>2. PICK T \in Bad : \A U \in SUBSET T : U # T => U \notin Bad
  <2>1. Bad \in SUBSET (SUBSET S)
    OBVIOUS
  <2> HIDE DEF Bad
  <2>2. QED
    BY <1>1, <2>1, SmallestSubset
<1>3. IsFiniteSet(T) /\ (T # {} => Picked(T) \in T)
  BY PickedIn, FS_Subset
<1> DEFINE x == Picked(T)
           U == T \ {x}
<1>4. CASE T = {}
  <2>1. /\ SumFunctionOnSet(f, {}) = 0 /\ SumFunctionOnSet(g, {}) = 0
        /\ SumFunctionOnSet(h, {}) = 0
    BY SumNothing
  <2>2. QED
    BY <1>4, <2>1
<1>5. CASE T # {}
  <2>1. SumFunctionOnSet(h, U) = SumFunctionOnSet(f, U) + SumFunctionOnSet(g, U)
    BY <1>2, <1>3, <1>5
  <2>2. SumFunctionOnSet(f, U) \in Int /\ SumFunctionOnSet(g, U) \in Int
    BY <1>3, FS_Subset, SumInteger DEF Numbers
  <2>3. /\ SumFunctionOnSet(f, T) = f[x] + SumFunctionOnSet(f, U)
        /\ SumFunctionOnSet(g, T) = g[x] + SumFunctionOnSet(g, U)
        /\ SumFunctionOnSet(h, T) = h[x] + SumFunctionOnSet(h, U)
    BY <1>3, <1>5, SumRecursion
  <2>4. f[x] \in Int /\ g[x] \in Int /\ h[x] = f[x] + g[x]
    BY <1>3, <1>5 DEF Numbers
  <2>5. SumFunctionOnSet(h, T) = SumFunctionOnSet(f, T) + SumFunctionOnSet(g, T)
    BY <2>1, <2>2, <2>3, <2>4
  <2>6. QED
    BY <2>5
<1>6. QED
  BY <1>4, <1>5

-----------------------------------------------------------------------------
(* Counting in a sequence.                                                 *)

\* Where the sequence has an entry of the set.
Places(s, V) == {i \in DOMAIN s : s[i] \in V}

\* There are finitely many such places, and none in the empty sequence.
LEMMA CountType ==
  ASSUME NEW E, NEW s \in Seq(E), NEW V
  PROVE  /\ IsFiniteSet(Places(s, V)) /\ Cardinality(Places(s, V)) \in Nat
         /\ s = <<>> => Cardinality(Places(s, V)) = 0
<1>1. DOMAIN s = 1..Len(s) /\ Len(s) \in Nat
  OBVIOUS
<1>2. IsFiniteSet(1..Len(s))
  BY <1>1, FS_Interval
<1>3. IsFiniteSet(Places(s, V))
  BY <1>1, <1>2, FS_Subset DEF Places
<1>4. s = <<>> => Places(s, V) = {}
  BY DEF Places
<1>5. QED
  BY <1>3, <1>4, FS_CardinalityType, FS_EmptySet

\* An entry at the end counts once.
LEMMA CountAppend ==
  ASSUME NEW E, NEW s \in Seq(E), NEW e \in E, NEW V
  PROVE  Cardinality(Places(Append(s, e), V)) =
           Cardinality(Places(s, V)) + (IF e \in V THEN 1 ELSE 0)
<1>1. IsFiniteSet(Places(s, V)) /\ Cardinality(Places(s, V)) \in Nat
  BY CountType
<1>2. Len(s) + 1 \notin Places(s, V)
  BY DEF Places
<1>3. Places(Append(s, e), V) = Places(s, V) \cup (IF e \in V THEN {Len(s) + 1} ELSE {})
  BY DEF Places
<1>4. CASE e \in V
  BY <1>1, <1>2, <1>3, <1>4, FS_AddElement
<1>5. CASE e \notin V
  BY <1>1, <1>3, <1>5
<1>6. QED
  BY <1>4, <1>5

\* So does the entry at the head.
LEMMA CountTail ==
  ASSUME NEW E, NEW s \in Seq(E), s # <<>>, NEW V
  PROVE  Cardinality(Places(s, V)) =
           Cardinality(Places(Tail(s), V)) + (IF Head(s) \in V THEN 1 ELSE 0)
<1> DEFINE P == Places(Tail(s), V)
           Q == Places(s, V) \ {1}
           f == [i \in P |-> i + 1]
<1>1. Tail(s) \in Seq(E) /\ Len(Tail(s)) = Len(s) - 1 /\ Len(s) \in Nat \ {0}
  OBVIOUS
<1>2. \A i \in 1..Len(Tail(s)) : Tail(s)[i] = s[i + 1]
  OBVIOUS
<1>3. \A i : i \in P <=> i \in 1..Len(s) - 1 /\ s[i + 1] \in V
  BY <1>1, <1>2 DEF Places
<1>4. \A i : i \in Q <=> i \in 2..Len(s) /\ s[i] \in V
  BY <1>1 DEF Places
<1>5. IsFiniteSet(P) /\ IsFiniteSet(Places(s, V)) /\ Cardinality(P) \in Nat
        /\ Cardinality(Places(s, V)) \in Nat
  BY <1>1, CountType
<1> HIDE DEF P, Q
<1>6. f \in Bijection(P, Q)
  <2>1. \A i \in P : f[i] \in Q
    BY <1>3, <1>4
  <2>2. \A i, j \in P : f[i] = f[j] => i = j
    BY <1>3
  <2>3. \A j \in Q : j - 1 \in P /\ f[j - 1] = j
    BY <1>1, <1>3, <1>4
  <2>4. f \in [P -> Q]
    BY <2>1
  <2>5. \A j \in Q : \E i \in P : f[i] = j
    BY <2>3
  <2> HIDE DEF f
  <2>6. QED
    BY <2>2, <2>4, <2>5 DEF Bijection, Injection, Surjection, IsInjective
<1>7. Cardinality(Q) = Cardinality(P)
  BY <1>5, <1>6, FS_Bijection DEF ExistsBijection
<1>8. 1 \in Places(s, V) <=> Head(s) \in V
  BY <1>1 DEF Places
<1>9. Cardinality(Q) = IF 1 \in Places(s, V) THEN Cardinality(Places(s, V)) - 1
                                           ELSE Cardinality(Places(s, V))
  BY <1>5, FS_RemoveElement DEF Q
<1>10. QED
  BY <1>5, <1>7, <1>8, <1>9 DEF P

\* A change of one entry that keeps the entry in the set, or out of it, does not change
\* the count.
LEMMA CountReplace ==
  ASSUME NEW E, NEW s \in Seq(E), NEW n, NEW e, NEW V, n \in DOMAIN s => (s[n] \in V <=> e \in V)
  PROVE  Places([s EXCEPT ![n] = e], V) = Places(s, V)
BY DEF Places
=============================================================================
