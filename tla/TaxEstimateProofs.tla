-------------------------- MODULE TaxEstimateProofs --------------------------
(***************************************************************************)
(* Proofs about TaxEstimate, for any accounts, days, rows, rates, items    *)
(* and rules: nothing is lost between the netted income and the taxable    *)
(* amount, facts dated after the year do not matter, an overall allowance  *)
(* is spent once and in order, a complete summary counts every fact, a     *)
(* period is the sum of its parts, and more income is not taxed less.      *)
(***************************************************************************)
EXTENDS TaxEstimate, FiniteSetTheorems, WellFoundedInduction, TLAPS

(***************************************************************************)
(* Finite sets, and folds over them.                                       *)
(***************************************************************************)
LEMMA LeastNatural ==
  ASSUME NEW S \in SUBSET Nat, S # {}
  PROVE  \E x \in S : \A y \in S : x <= y
<1>1. \E x \in S : \A y \in S : ~(<<y, x>> \in OpToRel(<, Nat))
  BY WFMin, NatLessThanWellFounded
<1>2. PICK x \in S : \A y \in S : ~(y < x)
  BY <1>1 DEF OpToRel
<1> QED BY <1>2

\* A subset of S is good when all sets of one element less are.
Hereditary(Good, S) == \A T \in SUBSET S : (\A x \in T : T \ {x} \in Good) => T \in Good

\* Induction over the subsets of a finite set.
LEMMA SubsetInduction ==
  ASSUME NEW S, IsFiniteSet(S), NEW Good, Hereditary(Good, S)
  PROVE  S \in Good
<1> SUFFICES ASSUME S \notin Good
             PROVE  FALSE
  OBVIOUS
<1> DEFINE Bad == {T \in SUBSET S : T \notin Good}
           sizes == {Cardinality(T) : T \in Bad}
<1>1. \A T \in SUBSET S : IsFiniteSet(T) /\ Cardinality(T) \in Nat
  BY FS_Subset, FS_CardinalityType
<1>2. PICK n \in sizes : \A m \in sizes : n <= m
  <2>1. sizes \in SUBSET Nat /\ sizes # {}
    BY <1>1
  <2> HIDE DEF sizes
  <2> QED BY <2>1, LeastNatural
<1>3. PICK T \in Bad : n = Cardinality(T)
  BY <1>2
<1>4. ASSUME NEW x \in T
      PROVE  T \ {x} \in Good
  <2>1. Cardinality(T \ {x}) < Cardinality(T)
    <3>1. IsFiniteSet(T) /\ Cardinality(T) \in Nat
      BY <1>1
    <3>2. Cardinality(T \ {x}) = Cardinality(T) - 1
      BY <3>1, FS_RemoveElement
    <3> QED BY <3>1, <3>2
  <2>2. T \ {x} \in SUBSET S
    OBVIOUS
  <2>3. T \ {x} \in Bad => n <= Cardinality(T \ {x})
    BY <1>2
  <2>4. n \in Nat /\ Cardinality(T \ {x}) \in Nat
    BY <1>1, <1>3, <2>2
  <2> QED BY <1>3, <2>1, <2>2, <2>3, <2>4
<1> QED BY <1>4 DEF Hereditary

\* A set of pairs that orders what it relates, strictly and totally.
Orders(less, S) ==
  /\ \A x \in S : <<x, x>> \notin less
  /\ \A x, y, z \in S : <<x, y>> \in less /\ <<y, z>> \in less => <<x, z>> \in less
  /\ \A x, y \in S : x # y => <<x, y>> \in less \/ <<y, x>> \in less

\* A finite set that is not empty has a last element.
LEMMA LastExists ==
  ASSUME NEW S, IsFiniteSet(S), S # {}, NEW less, Orders(less, S)
  PROVE  \E x \in S : \A y \in S \ {x} : <<y, x>> \in less
<1> DEFINE Good == {T \in SUBSET S : T # {} => \E x \in T : \A y \in T \ {x} : <<y, x>> \in less}
<1>1. ASSUME NEW T \in SUBSET S, \A x \in T : T \ {x} \in Good, T # {}
      PROVE  \E x \in T : \A y \in T \ {x} : <<y, x>> \in less
  <2>1. PICK z \in T : TRUE
    BY <1>1
  <2>2. CASE T \ {z} = {}
    BY <2>1, <2>2
  <2>3. CASE T \ {z} # {}
    <3>1. PICK x \in T \ {z} : \A y \in (T \ {z}) \ {x} : <<y, x>> \in less
      BY <1>1, <2>3
    <3>2. <<x, z>> \in less \/ <<z, x>> \in less
      BY <3>1 DEF Orders
    <3>3. CASE <<z, x>> \in less
      <4>1. \A y \in T \ {x} : <<y, x>> \in less
        BY <3>1, <3>3
      <4> QED BY <4>1
    <3>4. CASE <<x, z>> \in less
      <4>1. ASSUME NEW y \in T \ {z}
            PROVE  <<y, z>> \in less
        <5>1. CASE y = x
          BY <3>4, <5>1
        <5>2. CASE y # x
          <6>1. <<y, x>> \in less /\ y \in S /\ x \in S /\ z \in S
            BY <3>1, <5>2
          <6> QED BY <3>4, <6>1 DEF Orders
        <5> QED BY <5>1, <5>2
      <4> QED BY <2>1, <4>1
    <3> QED BY <3>2, <3>3, <3>4
  <2> QED BY <2>2, <2>3
<1>2. Hereditary(Good, S)
  BY <1>1 DEF Hereditary
<1>3. S \in Good
  <2> HIDE DEF Good
  <2> QED BY <1>2, SubsetInduction
<1> QED BY <1>3

\* pick takes an element of every set, step keeps within V.
Picks(pick, S) == \A T \in SUBSET S : T # {} => pick[T] \in T
Keeps(step, S, V) == \A x \in S, v \in V : step[<<x, v>>] \in V

\* iter[T] is step applied to all elements of T, the one pick[T] last, for the
\* sets T of at most n elements, and for all of them.
Unfolded(iter, step, base, pick, T) ==
  iter[T] = IF T = {} THEN base ELSE step[<<pick[T], iter[T \ {pick[T]}]>>]
FoldsUpTo(iter, step, base, pick, S, n) ==
  \A T \in SUBSET S : Cardinality(T) <= n => Unfolded(iter, step, base, pick, T)
Folds(iter, step, base, pick, S) == \A T \in SUBSET S : Unfolded(iter, step, base, pick, T)

LEMMA FoldOneMore ==
  ASSUME NEW S, IsFiniteSet(S), NEW pick, Picks(pick, S), NEW V, NEW base \in V,
         NEW step, Keeps(step, S, V),
         NEW n \in Int, NEW g \in [SUBSET S -> V], FoldsUpTo(g, step, base, pick, S, n)
  PROVE  \E h \in [SUBSET S -> V] : FoldsUpTo(h, step, base, pick, S, n + 1)
<1> DEFINE value(T) == IF T = {} THEN base ELSE step[<<pick[T], g[T \ {pick[T]}]>>]
           h == [T \in SUBSET S |-> IF Cardinality(T) <= n THEN g[T] ELSE value(T)]
<1>1. \A T \in SUBSET S : IsFiniteSet(T) /\ Cardinality(T) \in Nat
  BY FS_Subset, FS_CardinalityType
<1>2. \A T \in SUBSET S : value(T) \in V
  BY DEF Picks, Keeps
<1>3. h \in [SUBSET S -> V]
  <2> HIDE DEF value
  <2> QED BY <1>2
<1>4. ASSUME NEW T \in SUBSET S, Cardinality(T) <= n + 1
      PROVE  h[T] = IF T = {} THEN base ELSE step[<<pick[T], h[T \ {pick[T]}]>>]
  <2>1. h[T] = value(T)
    <3> HIDE DEF value
    <3>1. Cardinality(T) <= n => g[T] = value(T)
      BY DEF FoldsUpTo, Unfolded, value
    <3> QED BY <3>1
  <2>2. CASE T = {}
    BY <2>1, <2>2
  <2>3. CASE T # {}
    <3>1. pick[T] \in T /\ T \ {pick[T]} \in SUBSET S
      BY <2>3 DEF Picks
    <3>2. Cardinality(T \ {pick[T]}) = Cardinality(T) - 1
      BY <1>1, <3>1, FS_RemoveElement
    <3>3. Cardinality(T) \in Nat /\ Cardinality(T \ {pick[T]}) <= n
      BY <1>1, <1>4, <3>2
    <3>4. h[T \ {pick[T]}] = g[T \ {pick[T]}]
      <4> HIDE DEF value
      <4> QED BY <3>1, <3>3
    <3> HIDE DEF h
    <3> QED BY <2>1, <2>3, <3>4
  <2> QED BY <2>2, <2>3
<1>5. FoldsUpTo(h, step, base, pick, S, n + 1)
  <2> HIDE DEF h
  <2> QED BY <1>4 DEF FoldsUpTo, Unfolded
<1> QED
  <2> HIDE DEF h
  <2> QED BY <1>3, <1>5

\* A step that keeps within V can be applied to all elements of a finite set.
LEMMA FoldExists ==
  ASSUME NEW S, IsFiniteSet(S), NEW pick, Picks(pick, S), NEW V, NEW base \in V,
         NEW step, Keeps(step, S, V)
  PROVE  \E iter \in [SUBSET S -> V] : Folds(iter, step, base, pick, S)
<1> DEFINE Bad == {n \in Nat : ~\E g \in [SUBSET S -> V] : FoldsUpTo(g, step, base, pick, S, n)}
<1>1. \A T \in SUBSET S : IsFiniteSet(T) /\ Cardinality(T) \in Nat
  BY FS_Subset, FS_CardinalityType
<1>2. \E g \in [SUBSET S -> V] : FoldsUpTo(g, step, base, pick, S, 0)
  <2> DEFINE g == [T \in SUBSET S |-> base]
  <2>1. \A T \in SUBSET S : Cardinality(T) <= 0 => T = {}
    BY <1>1, FS_EmptySet
  <2>2. g \in [SUBSET S -> V] /\ \A T \in SUBSET S : g[T] = base
    OBVIOUS
  <2>3. FoldsUpTo(g, step, base, pick, S, 0)
    <3> HIDE DEF g
    <3> QED BY <2>1, <2>2 DEF FoldsUpTo, Unfolded
  <2> HIDE DEF g
  <2> QED BY <2>2, <2>3
<1>3. Bad = {}
  <2> SUFFICES ASSUME Bad # {}
               PROVE  FALSE
    OBVIOUS
  <2>1. PICK n \in Bad : \A m \in Bad : n <= m
    <3>1. Bad \in SUBSET Nat
      OBVIOUS
    <3> HIDE DEF Bad
    <3> QED BY <3>1, LeastNatural
  <2>2. n \in Nat /\ n # 0 /\ n - 1 \in Nat /\ n - 1 \notin Bad
    <3>1. n \in Nat /\ n # 0
      BY <1>2, <2>1
    <3>2. n - 1 \in Nat
      BY <3>1
    <3> HIDE DEF Bad
    <3> QED BY <2>1, <3>1, <3>2
  <2>3. PICK g \in [SUBSET S -> V] : FoldsUpTo(g, step, base, pick, S, n - 1)
    BY <2>2
  <2>4. n - 1 \in Int /\ (n - 1) + 1 = n
    BY <2>2
  <2>5. \E h \in [SUBSET S -> V] : FoldsUpTo(h, step, base, pick, S, (n - 1) + 1)
    BY <2>3, <2>4, FoldOneMore
  <2> QED BY <2>1, <2>4, <2>5
<1>4. PICK g \in [SUBSET S -> V] : FoldsUpTo(g, step, base, pick, S, Cardinality(S))
  BY <1>1, <1>3
<1>5. \A T \in SUBSET S : Cardinality(T) <= Cardinality(S)
  BY FS_Subset
<1> QED BY <1>4, <1>5 DEF FoldsUpTo, Folds

\* Folds over a set and over a part of it agree on the part.
LEMMA FoldsAgree ==
  ASSUME NEW S, NEW T \in SUBSET S, IsFiniteSet(T), NEW pick, Picks(pick, T), NEW base, NEW step,
         NEW g, Folds(g, step, base, pick, S), NEW h, Folds(h, step, base, pick, T)
  PROVE  g[T] = h[T]
<1> DEFINE Good == {R \in SUBSET T : g[R] = h[R]}
<1>1. ASSUME NEW R \in SUBSET T, \A x \in R : R \ {x} \in Good
      PROVE  g[R] = h[R]
  <2>1. R \in SUBSET S
    OBVIOUS
  <2>2. R # {} => g[R \ {pick[R]}] = h[R \ {pick[R]}]
    BY <1>1 DEF Picks
  <2> HIDE DEF Good
  <2> QED BY <2>1, <2>2 DEF Folds, Unfolded
<1>2. Hereditary(Good, T)
  BY <1>1 DEF Hereditary
<1>3. T \in Good
  <2> HIDE DEF Good
  <2> QED BY <1>2, SubsetInduction
<1> QED BY <1>3

-----------------------------------------------------------------------------
(***************************************************************************)
(* Sums.  The library adds the values of a function in the order of Pick;  *)
(* sum[T] adds those of a subset T in any.                                 *)
(***************************************************************************)
Pick(T) == CHOOSE x \in T : TRUE

Sums(sum, f, S) ==
  /\ sum \in [SUBSET S -> Int] /\ sum[{}] = 0
  /\ \A T \in SUBSET S : \A x \in T : sum[T] = f[x] + sum[T \ {x}]

\* Taking the elements in the order of Pick is taking them in any order.
LEMMA PickedIsAny ==
  ASSUME NEW S, IsFiniteSet(S), NEW f \in [S -> Int], NEW g \in [SUBSET S -> Int],
         \A T \in SUBSET S : g[T] = IF T = {} THEN 0 ELSE f[Pick(T)] + g[T \ {Pick(T)}]
  PROVE  Sums(g, f, S)
<1> DEFINE Good == {T \in SUBSET S : \A x \in T : g[T] = f[x] + g[T \ {x}]}
<1>1. ASSUME NEW T \in SUBSET S, \A x \in T : T \ {x} \in Good, NEW x \in T
      PROVE  g[T] = f[x] + g[T \ {x}]
  <2>1. PICK p \in T : p = Pick(T)
    BY DEF Pick
  <2>2. g[T] = f[p] + g[T \ {p}]
    BY <2>1
  <2>3. CASE x = p
    BY <2>2, <2>3
  <2>4. CASE x # p
    <3>1. g[T \ {p}] = f[x] + g[(T \ {p}) \ {x}]
      BY <1>1, <2>4
    <3>2. g[T \ {x}] = f[p] + g[(T \ {x}) \ {p}]
      BY <1>1, <2>4
    <3>3. (T \ {p}) \ {x} = (T \ {x}) \ {p} /\ (T \ {x}) \ {p} \in SUBSET S
      OBVIOUS
    <3>4. PICK k, m, n \in Int : k = f[p] /\ m = f[x] /\ n = g[(T \ {x}) \ {p}]
      BY <3>3
    <3>5. g[T] = k + (m + n) /\ g[T \ {x}] = k + n
      BY <2>2, <3>1, <3>2, <3>3, <3>4
    <3> QED BY <3>4, <3>5
  <2> QED BY <2>3, <2>4
<1>2. S \in Good /\ \A T \in SUBSET S : T \in Good
  <2>1. ASSUME NEW T \in SUBSET S
        PROVE  T \in Good
    <3>1. Hereditary(Good, T)
      BY <1>1 DEF Hereditary
    <3>2. IsFiniteSet(T)
      BY FS_Subset
    <3> HIDE DEF Good
    <3> QED BY <3>1, <3>2, SubsetInduction
  <2> QED BY <2>1
<1> QED BY <1>2 DEF Sums

LEMMA SumsAgree ==
  ASSUME NEW S, NEW f, NEW g, Sums(g, f, S), NEW T \in SUBSET S, IsFiniteSet(T),
         NEW part, NEW h, Sums(h, part, T), \A x \in T : part[x] = f[x]
  PROVE  g[T] = h[T]
<1> DEFINE Good == {R \in SUBSET T : g[R] = h[R]}
<1>1. ASSUME NEW R \in SUBSET T, \A x \in R : R \ {x} \in Good
      PROVE  g[R] = h[R]
  <2>1. CASE R = {}
    BY <2>1 DEF Sums
  <2>2. CASE R # {}
    <3>1. PICK x \in R : TRUE
      BY <2>2
    <3>2. g[R] = f[x] + g[R \ {x}] /\ h[R] = part[x] + h[R \ {x}]
      BY DEF Sums
    <3>3. g[R \ {x}] = h[R \ {x}] /\ part[x] = f[x]
      BY <1>1
    <3> QED BY <3>2, <3>3
  <2> QED BY <2>1, <2>2
<1>2. Hereditary(Good, T)
  BY <1>1 DEF Hereditary
<1>3. T \in Good
  <2> HIDE DEF Good
  <2> QED BY <1>2, SubsetInduction
<1> QED BY <1>3

LEMMA SumUnfolds ==
  ASSUME NEW f
  PROVE  SumFunction(f)
           = (CHOOSE iter : iter = [T \in SUBSET DOMAIN f |->
                IF T = {} THEN 0 ELSE f[Pick(T)] + iter[T \ {Pick(T)}]])[DOMAIN f]
BY DEF SumFunction, SumFunctionOnSet, FoldFunctionOnSet, MapThenFoldSet, Pick

LEMMA SumsExist ==
  ASSUME NEW S, IsFiniteSet(S), NEW f \in [S -> Int]
  PROVE  \E sum : Sums(sum, f, S) /\ sum[S] = SumFunction(f)
<1> DEFINE Recurses(iter) ==
      iter = [T \in SUBSET S |-> IF T = {} THEN 0 ELSE f[Pick(T)] + iter[T \ {Pick(T)}]]
           pick == [T \in SUBSET S |-> Pick(T)]
           step == [p \in S \X Int |-> f[p[1]] + p[2]]
<1>1. \A T \in SUBSET S : T # {} => Pick(T) \in T
  BY DEF Pick
<1>2. \A x \in S, v \in Int : step[<<x, v>>] = f[x] + v /\ step[<<x, v>>] \in Int
  OBVIOUS
<1>3. \A T \in SUBSET S : pick[T] = Pick(T)
  OBVIOUS
<1>4. PICK g \in [SUBSET S -> Int] : Folds(g, step, 0, pick, S)
  <2> HIDE DEF pick, step
  <2>1. Picks(pick, S)
    BY <1>1, <1>3 DEF Picks
  <2>2. Keeps(step, S, Int)
    BY <1>2 DEF Keeps
  <2>3. 0 \in Int
    OBVIOUS
  <2> QED BY <2>1, <2>2, <2>3, FoldExists
<1>5. \A T \in SUBSET S : g[T] = IF T = {} THEN 0 ELSE f[Pick(T)] + g[T \ {Pick(T)}]
  <2> HIDE DEF pick, step
  <2> SUFFICES ASSUME NEW T \in SUBSET S, T # {}
               PROVE  g[T] = f[Pick(T)] + g[T \ {Pick(T)}]
    BY <1>4 DEF Folds, Unfolded
  <2>1. Pick(T) \in S /\ g[T \ {Pick(T)}] \in Int /\ pick[T] = Pick(T)
    BY <1>1, <1>3
  <2>2. g[T] = step[<<Pick(T), g[T \ {Pick(T)}]>>]
    BY <1>4, <2>1 DEF Folds, Unfolded
  <2> QED BY <1>2, <2>1, <2>2
<1>6. Recurses(g)
  <2> HIDE DEF pick, step
  <2> QED BY <1>5
<1>7. ASSUME NEW iter, Recurses(iter)
      PROVE  iter[S] = g[S]
  <2> DEFINE Good == {T \in SUBSET S : iter[T] = g[T]}
  <2>1. \A T \in SUBSET S : (\A x \in T : T \ {x} \in Good) => iter[T] = g[T]
    <3>1. \A T \in SUBSET S : iter[T] = IF T = {} THEN 0 ELSE f[Pick(T)] + iter[T \ {Pick(T)}]
      BY <1>7
    <3> HIDE DEF Recurses, pick, step
    <3> QED BY <1>1, <1>5, <3>1
  <2>2. Hereditary(Good, S)
    BY <2>1 DEF Hereditary
  <2>3. S \in Good
    <3> HIDE DEF Good, Recurses
    <3> QED BY <2>2, SubsetInduction
  <2> QED BY <2>3
<1>8. Recurses(CHOOSE iter : Recurses(iter))
  <2> HIDE DEF Recurses
  <2> QED BY <1>6
<1>9. (CHOOSE iter : Recurses(iter))[S] = g[S]
  <2> HIDE DEF Recurses
  <2> QED BY <1>7, <1>8
<1>10. DOMAIN f = S
  OBVIOUS
<1>11. g[S] = SumFunction(f)
  <2> HIDE DEF pick, step
  <2> QED BY <1>9, <1>10, SumUnfolds
<1>12. Sums(g, f, S)
  <2> HIDE DEF pick, step, Recurses
  <2> QED BY <1>5, PickedIsAny
<1> QED BY <1>11, <1>12

\* The sum over the part T of its domain, of a function on S.
Over(f, T) == SumFunction([x \in T |-> f[x]])

LEMMA SumsOver ==
  ASSUME NEW S, IsFiniteSet(S), NEW f, \A x \in S : f[x] \in Int
  PROVE  Sums([T \in SUBSET S |-> Over(f, T)], f, S)
<1> DEFINE part(T) == [x \in T |-> f[x]]
           sum == [T \in SUBSET S |-> Over(f, T)]
<1>1. \A T \in SUBSET S : IsFiniteSet(T) /\ part(T) \in [T -> Int]
  BY FS_Subset
<1>2. PICK g : Sums(g, part(S), S)
  <2> HIDE DEF part
  <2> QED BY <1>1, SumsExist
<1>3. ASSUME NEW T \in SUBSET S
      PROVE  Over(f, T) = g[T]
  <2>1. PICK h : Sums(h, part(T), T) /\ h[T] = SumFunction(part(T))
    <3> HIDE DEF part
    <3> QED BY <1>1, SumsExist
  <2>2. \A x \in T : part(T)[x] = part(S)[x]
    OBVIOUS
  <2>3. g[T] = h[T]
    <3> HIDE DEF part
    <3> QED BY <1>1, <1>2, <2>1, <2>2, SumsAgree
  <2> QED BY <2>1, <2>3 DEF Over
<1>4. \A x \in S : part(S)[x] = f[x]
  OBVIOUS
<1>5. g \in [SUBSET S -> Int] /\ sum = g
  <2>1. g \in [SUBSET S -> Int]
    BY <1>2 DEF Sums
  <2> QED BY <1>3, <2>1
<1>6. Sums(g, f, S)
  <2> HIDE DEF part, sum
  <2> QED BY <1>2, <1>4 DEF Sums
<1> HIDE DEF sum, part
<1>7. Sums(sum, f, S)
  BY <1>5, <1>6
<1> QED BY <1>7 DEF sum

\* A sum is a number, nothing for no element, and each element adds its value.
LEMMA SumStep ==
  ASSUME NEW S, IsFiniteSet(S), NEW f, \A x \in S : f[x] \in Int
  PROVE  /\ Over(f, S) \in Int
         /\ S = {} => Over(f, S) = 0
         /\ \A x \in S : Over(f, S) = f[x] + Over(f, S \ {x})
<1> DEFINE sum == [T \in SUBSET S |-> Over(f, T)]
<1>1. Sums(sum, f, S)
  BY SumsOver
<1>2. \A T \in SUBSET S : sum[T] = Over(f, T)
  OBVIOUS
<1>3. S \in SUBSET S /\ {} \in SUBSET S /\ \A x \in S : S \ {x} \in SUBSET S
  OBVIOUS
<1> HIDE DEF sum
<1> QED BY <1>1, <1>2, <1>3 DEF Sums

\* A set in two parts.
LEMMA SumParts ==
  ASSUME NEW A, IsFiniteSet(A), NEW B, IsFiniteSet(B), A \cap B = {},
         NEW f, \A x \in A \cup B : f[x] \in Int
  PROVE  Over(f, A \cup B) = Over(f, A) + Over(f, B)
<1> DEFINE Good == {T \in SUBSET B : Over(f, A \cup T) = Over(f, A) + Over(f, T)}
<1>1. \A T \in SUBSET B : IsFiniteSet(T) /\ IsFiniteSet(A \cup T)
  BY FS_Subset, FS_Union
<1>2. ASSUME NEW T \in SUBSET B, \A x \in T : T \ {x} \in Good
      PROVE  Over(f, A \cup T) = Over(f, A) + Over(f, T)
  <2>1. Over(f, A) \in Int
    BY SumStep
  <2>2. CASE T = {}
    <3>1. A \cup T = A
      BY <2>2
    <3>2. Over(f, T) = 0
      BY <1>1, <2>2, SumStep
    <3>3. Over(f, A \cup T) = Over(f, A)
      BY <3>1
    <3> HIDE DEF Good
    <3> QED BY <2>1, <3>2, <3>3
  <2>3. CASE T # {}
    <3>1. PICK x \in T : TRUE
      BY <2>3
    <3>2. (A \cup T) \ {x} = A \cup (T \ {x})
      BY <3>1
    <3>3. Over(f, A \cup T) = f[x] + Over(f, A \cup (T \ {x}))
      <4>1. IsFiniteSet(A \cup T) /\ x \in A \cup T /\ \A y \in A \cup T : f[y] \in Int
        BY <1>1
      <4>2. Over(f, A \cup T) = f[x] + Over(f, (A \cup T) \ {x})
        BY <4>1, SumStep
      <4> QED BY <3>2, <4>2
    <3>4. Over(f, T) = f[x] + Over(f, T \ {x}) /\ Over(f, T \ {x}) \in Int /\ f[x] \in Int
      BY <1>1, SumStep
    <3>5. Over(f, A \cup (T \ {x})) = Over(f, A) + Over(f, T \ {x})
      BY <1>2
    <3> QED BY <2>1, <3>3, <3>4, <3>5
  <2> QED BY <2>2, <2>3
<1>3. Hereditary(Good, B)
  BY <1>2 DEF Hereditary
<1>4. B \in Good
  <2> HIDE DEF Good
  <2> QED BY <1>3, SubsetInduction
<1> QED BY <1>4

\* Numbers that are not negative.
LEMMA SumNatural ==
  ASSUME NEW S, IsFiniteSet(S), NEW f, \A x \in S : f[x] \in Nat
  PROVE  Over(f, S) \in Nat
<1> DEFINE Good == {T \in SUBSET S : Over(f, T) \in Nat}
<1>1. ASSUME NEW T \in SUBSET S, \A x \in T : T \ {x} \in Good
      PROVE  Over(f, T) \in Nat
  <2>1. IsFiniteSet(T)
    BY FS_Subset
  <2>2. CASE T = {}
    BY <2>1, <2>2, SumStep
  <2>3. CASE T # {}
    <3>1. PICK x \in T : TRUE
      BY <2>3
    <3>2. Over(f, T) = f[x] + Over(f, T \ {x})
      BY <2>1, SumStep
    <3>3. Over(f, T \ {x}) \in Nat /\ f[x] \in Nat
      BY <1>1
    <3> QED BY <3>2, <3>3
  <2> QED BY <2>2, <2>3
<1>2. Hereditary(Good, S)
  BY <1>1 DEF Hereditary
<1>3. S \in Good
  <2> HIDE DEF Good
  <2> QED BY <1>2, SubsetInduction
<1> QED BY <1>3

-----------------------------------------------------------------------------
(***************************************************************************)
(* Sums of sums.                                                           *)
(***************************************************************************)
LEMMA SumSame ==
  ASSUME NEW S, NEW f, NEW g, \A x \in S : f[x] = g[x]
  PROVE  Over(f, S) = Over(g, S)
<1>1. [x \in S |-> f[x]] = [x \in S |-> g[x]]
  OBVIOUS
<1> QED BY <1>1 DEF Over

LEMMA SumPlus ==
  ASSUME NEW S, IsFiniteSet(S), NEW f, NEW g, NEW h, \A x \in S : f[x] \in Int /\ g[x] \in Int,
         \A x \in S : h[x] = f[x] + g[x]
  PROVE  Over(h, S) = Over(f, S) + Over(g, S)
<1> DEFINE Good == {T \in SUBSET S : Over(h, T) = Over(f, T) + Over(g, T)}
<1>1. ASSUME NEW T \in SUBSET S, \A x \in T : T \ {x} \in Good
      PROVE  Over(h, T) = Over(f, T) + Over(g, T)
  <2>1. IsFiniteSet(T) /\ \A x \in T : f[x] \in Int /\ g[x] \in Int /\ h[x] \in Int
    BY FS_Subset
  <2>2. CASE T = {}
    <3>1. Over(h, T) = 0 /\ Over(f, T) = 0 /\ Over(g, T) = 0
      BY <2>1, <2>2, SumStep
    <3> QED BY <3>1
  <2>3. CASE T # {}
    <3>1. PICK x \in T : TRUE
      BY <2>3
    <3>2. /\ Over(h, T) = h[x] + Over(h, T \ {x})
          /\ Over(f, T) = f[x] + Over(f, T \ {x})
          /\ Over(g, T) = g[x] + Over(g, T \ {x})
      BY <2>1, SumStep
    <3>3. IsFiniteSet(T \ {x})
      BY <2>1, FS_Subset
    <3>4. Over(f, T \ {x}) \in Int /\ Over(g, T \ {x}) \in Int
      BY <2>1, <3>3, SumStep
    <3>5. PICK k, l, m, n \in Int : /\ k = f[x] /\ l = g[x]
                                    /\ m = Over(f, T \ {x}) /\ n = Over(g, T \ {x})
      BY <2>1, <3>4
    <3>6. h[x] = k + l /\ Over(h, T \ {x}) = m + n
      BY <1>1, <3>5
    <3> HIDE DEF Good
    <3>7. Over(h, T) = (k + l) + (m + n) /\ Over(f, T) = k + m /\ Over(g, T) = l + n
      BY <3>2, <3>5, <3>6
    <3> QED BY <3>7
  <2> QED BY <2>2, <2>3
<1>2. Hereditary(Good, S)
  BY <1>1 DEF Hereditary
<1>3. S \in Good
  <2> HIDE DEF Good
  <2> QED BY <1>2, SubsetInduction
<1> QED BY <1>3

-----------------------------------------------------------------------------
(***************************************************************************)
(* The tables.                                                             *)
(***************************************************************************)
RowsOf ==
  [entries |-> LedgerEntries, dividends |-> DividendRows, trades |-> TradeRows,
   rates |-> Observations, items |-> ItemRows, rules |-> RuleRows]

Stored(b) ==
  /\ b = [table \in Tables |-> b[table]]
  /\ \A table \in Tables : b[table] \in SUBSET RowsOf[table] /\ IsFiniteSet(b[table])

\* One trade has an id; a day, a pair and a source identify an observation.
TradesDistinct(b) == \A t, u \in b.trades : t.id = u.id => t = u

RatesDistinct(b) ==
  \A q, r \in b.rates :
    q.day = r.day /\ q.base = r.base /\ q.quote = r.quote /\ q.source = r.source => q = r

BookOK(b) == Stored(b) /\ TradesDistinct(b) /\ RatesDistinct(b)

LEMMA InvariantInit == Init => BookOK(book)
BY FS_EmptySet DEF Init, BookOK, Stored, TradesDistinct, RatesDistinct, Tables

LEMMA WithStored ==
  ASSUME NEW b, Stored(b), NEW table \in Tables, NEW row \in RowsOf[table]
  PROVE  Stored(With(b, table, row)) /\ With(b, table, row)[table] = b[table] \cup {row}
         /\ \A other \in Tables \ {table} : With(b, table, row)[other] = b[other]
<1>1. IsFiniteSet(b[table] \cup {row})
  BY FS_AddElement DEF Stored
<1> QED BY <1>1 DEF Stored, With

LEMMA WithoutStored ==
  ASSUME NEW b, Stored(b), NEW table \in Tables, NEW row
  PROVE  Stored(Without(b, table, row)) /\ Without(b, table, row)[table] \subseteq b[table]
         /\ \A other \in Tables \ {table} : Without(b, table, row)[other] = b[other]
<1>1. IsFiniteSet(b[table] \ {row})
  BY FS_Subset DEF Stored
<1> QED BY <1>1 DEF Stored, Without

LEMMA InvariantStep ==
  ASSUME BookOK(book), [Next]_book
  PROVE  BookOK(book)'
<1>1. {"entries", "dividends", "trades", "rates", "items", "rules"} = Tables
  BY DEF Tables
<1>2. ASSUME NEW table \in Tables \ {"trades", "rates"}, NEW row \in RowsOf[table],
             book' = With(book, table, row)
      PROVE  BookOK(book)'
  BY <1>1, <1>2, WithStored DEF BookOK, TradesDistinct, RatesDistinct
<1>3. ASSUME NEW table \in Tables, NEW row, book' = Without(book, table, row)
      PROVE  BookOK(book)'
  <2>1. Stored(book') /\ book'["trades"] \subseteq book["trades"] /\ book'["rates"] \subseteq book["rates"]
    BY <1>1, <1>3, WithoutStored DEF BookOK
  <2> QED BY <2>1 DEF BookOK, TradesDistinct, RatesDistinct
<1>4. ASSUME NEW t \in TradeRows, PostTrade(t)
      PROVE  BookOK(book)'
  <2>1. Stored(book') /\ book'["trades"] = book["trades"] \cup {t} /\ book'["rates"] = book["rates"]
    BY <1>1, <1>4, WithStored DEF BookOK, PostTrade, RowsOf
  <2>2. \A u \in book.trades : u.id < t.id /\ u.id \in Int /\ t.id \in Int
    BY <1>1, <1>4, RowsAssumption DEF PostTrade, Postable, BookOK, Stored, RowsOf
  <2> QED BY <2>1, <2>2 DEF BookOK, TradesDistinct, RatesDistinct
<1>5. ASSUME NEW r \in Observations, ObserveRate(r)
      PROVE  BookOK(book)'
  <2>1. Stored(book') /\ book'["rates"] = book["rates"] \cup {r} /\ book'["trades"] = book["trades"]
    BY <1>1, <1>5, WithStored DEF BookOK, ObserveRate, RowsOf
  <2>2. \A q \in book.rates :
          ~(q.day = r.day /\ q.base = r.base /\ q.quote = r.quote /\ q.source = r.source)
    BY <1>5 DEF ObserveRate
  <2> QED BY <2>1, <2>2 DEF BookOK, TradesDistinct, RatesDistinct
<1> QED
  BY <1>1, <1>2, <1>3, <1>4, <1>5
     DEF Next, PostEntry, DeleteEntry, PostDividend, EnterItem, EnterRule, Archive, RowsOf

LEMMA Inductive == Spec => []BookOK(book)
BY InvariantInit, InvariantStep, PTL DEF Spec

-----------------------------------------------------------------------------
(***************************************************************************)
(* Lookups: an observation, a rule, a trade that comes last.               *)
(***************************************************************************)
\* What the columns of a trade hold.
LEMMA TradeTyped ==
  ASSUME NEW b, BookOK(b), NEW t \in b.trades
  PROVE  t \in TradeRows /\ t.day \in Days /\ t.day \in Int /\ t.id \in Nat /\ t.quantity \in Nat
         /\ t.gross \in Nat /\ t.costs \in Nat /\ t.exchange \in Nat
<1>1. t \in TradeRows
  BY DEF BookOK, Stored, Tables, RowsOf
<1> QED BY <1>1, YearAssumption, RowsAssumption

LEMMA ObservationTyped ==
  ASSUME NEW b, BookOK(b), NEW r \in b.rates
  PROVE  r \in Observations /\ r.day \in Int /\ r.source \in Int /\ r.rate \in Nat \ {0}
<1>1. r \in Observations
  BY DEF BookOK, Stored, Tables, RowsOf
<1> QED BY <1>1, YearAssumption, RowsAssumption DEF MissingRate

LEMMA NewestOf ==
  ASSUME NEW S, \E r \in S : \A s \in S \ {r} : s.day < r.day \/ (s.day = r.day /\ r.source < s.source)
  PROVE  Newest(S) \in S
BY DEF Newest

LEMMA NewestExists ==
  ASSUME NEW b, BookOK(b), NEW base, NEW quote, NEW day, Observed(b.rates, base, quote, day) # {}
  PROVE  Newest(Observed(b.rates, base, quote, day)) \in Observed(b.rates, base, quote, day)
<1> DEFINE S == Observed(b.rates, base, quote, day)
           later(s, r) == s.day < r.day \/ (s.day = r.day /\ r.source < s.source)
           less == {p \in S \X S : later(p[1], p[2])}
<1>1. IsFiniteSet(b.rates) /\ b.rates \subseteq Observations
  BY DEF BookOK, Stored, Tables, RowsOf
<1>2. IsFiniteSet(S)
  BY <1>1, FS_Subset DEF Observed
<1>3. \A r \in S : r \in b.rates /\ r.base = base /\ r.quote = quote /\ r.day \in Int /\ r.source \in Int
  BY ObservationTyped DEF Observed
<1>4. \A r, s \in S : <<s, r>> \in less <=> later(s, r)
  OBVIOUS
<1>5. Orders(less, S)
  <2>1. \A r, s \in S : r # s => later(s, r) \/ later(r, s)
    BY <1>3 DEF BookOK, RatesDistinct
  <2>2. \A q, r, s \in S : ~later(q, q) /\ (later(q, r) /\ later(r, s) => later(q, s))
    BY <1>3
  <2> HIDE DEF less, later, S
  <2> QED BY <1>4, <2>1, <2>2 DEF Orders
<1>6. \E r \in S : \A s \in S \ {r} : <<s, r>> \in less
  <2> HIDE DEF less, S
  <2> QED BY <1>2, <1>5, LastExists DEF S
<1> HIDE DEF S, less
<1>7. \E r \in S : \A s \in S \ {r} : s.day < r.day \/ (s.day = r.day /\ r.source < s.source)
  <2>1. PICK r \in S : \A s \in S \ {r} : later(s, r)
    BY <1>4, <1>6
  <2> QED BY <2>1
<1>8. Newest(S) \in S
  BY <1>7, NewestOf
<1> QED BY <1>8 DEF S

\* Of two rules the one of higher priority is later, the newer one on a tie.
LEMMA FirstLastExists ==
  ASSUME NEW S \in SUBSET RuleRows, IsFiniteSet(S), S # {}
  PROVE  FirstLast(S) \in S /\ \A s \in S \ {FirstLast(S)} :
           s.priority < FirstLast(S).priority
             \/ (s.priority = FirstLast(S).priority /\ s.id < FirstLast(S).id)
<1> DEFINE later(s, r) == s.priority < r.priority \/ (s.priority = r.priority /\ s.id < r.id)
           less == {p \in S \X S : later(p[1], p[2])}
<1>1. \A r \in S : r.id \in Int /\ r.priority \in Int
  BY RowsAssumption
<1>2. \A r, s \in S : <<s, r>> \in less <=> later(s, r)
  OBVIOUS
<1>3. Orders(less, S)
  <2>1. \A r, s \in S : r # s => later(s, r) \/ later(r, s)
    BY <1>1, RowsAssumption
  <2>2. \A q, r, s \in S : ~later(q, q) /\ (later(q, r) /\ later(r, s) => later(q, s))
    BY <1>1
  <2> HIDE DEF less, later
  <2> QED BY <1>2, <2>1, <2>2 DEF Orders
<1>4. \E r \in S : \A s \in S \ {r} : <<s, r>> \in less
  <2> HIDE DEF less
  <2> QED BY <1>3, LastExists
<1>5. \E r \in S : \A s \in S \ {r} :
        s.priority < r.priority \/ (s.priority = r.priority /\ s.id < r.id)
  BY <1>2, <1>4
<1> QED BY <1>5 DEF FirstLast

LEMMA LatestExists ==
  ASSUME NEW b, BookOK(b), NEW S \in SUBSET b.trades, S # {}
  PROVE  Latest(S) \in S /\ \A t \in S \ {Latest(S)} : Before(t, Latest(S))
<1> DEFINE less == {p \in S \X S : Before(p[1], p[2])}
<1>1. IsFiniteSet(b.trades) /\ b.trades \subseteq TradeRows
  BY DEF BookOK, Stored, Tables, RowsOf
<1>2. IsFiniteSet(S)
  BY <1>1, FS_Subset
<1>3. \A t \in S : t.id \in Int /\ t.day \in Int
  BY TradeTyped
<1>4. \A t, u \in S : <<u, t>> \in less <=> Before(u, t)
  OBVIOUS
<1>5. Orders(less, S)
  <2>1. \A t, u \in S : t # u => Before(t, u) \/ Before(u, t)
    BY <1>3 DEF BookOK, TradesDistinct, Before
  <2>2. \A t, u, v \in S : ~Before(t, t) /\ (Before(t, u) /\ Before(u, v) => Before(t, v))
    BY <1>3 DEF Before
  <2> HIDE DEF less
  <2> QED BY <1>4, <2>1, <2>2 DEF Orders
<1>6. \E t \in S : \A u \in S \ {t} : <<u, t>> \in less
  <2> HIDE DEF less
  <2> QED BY <1>2, <1>5, LastExists
<1>7. \E t \in S : \A u \in S \ {t} : Before(u, t)
  BY <1>4, <1>6
<1> QED BY <1>7 DEF Latest

\* Rounding (quantize) takes integers to integers, and keeps them from below.
LEMMA RoundDivType ==
  ASSUME NEW m \in Int, NEW n \in Nat \ {0}
  PROVE  RoundDiv(m, n) \in Int /\ (m >= 0 => RoundDiv(m, n) \in Nat)
<1>1. m \div n \in Int
  OBVIOUS
<1>2. m >= 0 => m \div n >= 0
  OBVIOUS
<1> QED BY <1>1, <1>2 DEF RoundDiv

LEMMA RateTyped ==
  ASSUME NEW b, BookOK(b), NEW currency, NEW day
  PROVE  RateOn(b, currency, day) \in Nat
<1>1. ASSUME NEW base, NEW quote, Observed(b.rates, base, quote, day) # {}
      PROVE  Newest(Observed(b.rates, base, quote, day)).rate \in Nat \ {0}
  <2>1. Newest(Observed(b.rates, base, quote, day)) \in Observed(b.rates, base, quote, day)
    BY <1>1, NewestExists
  <2>2. Observed(b.rates, base, quote, day) \subseteq b.rates
    BY DEF Observed
  <2> QED BY <2>1, <2>2, ObservationTyped
<1>2. RateUnit \in Nat /\ RateUnit * RateUnit \in Nat
  BY PrecisionAssumption
<1>3. \A n \in Nat \ {0} : RoundDiv(RateUnit * RateUnit, n) \in Nat
  BY <1>2, RoundDivType
<1> QED BY <1>1, <1>2, <1>3 DEF RateOn, FxRate, MissingRate

-----------------------------------------------------------------------------
(***************************************************************************)
(* The replay of cost_basis.py.                                            *)
(***************************************************************************)
Securities == {t.security : t \in TradeRows}
PositionType == [quantity : Nat, cost : Int, base : Int]

SaleType(last) ==
  [id : Nat, security : Securities, day : {d \in Days : d <= last},
   allocated : Int, gain : Int, allocatedBase : Int, gainBase : Int]

ReplayType(last) ==
  [positions : UNION {[D -> PositionType] : D \in SUBSET Securities},
   events : Seq(SaleType(last)), ok : BOOLEAN]

\* What a replay up to the day last reads.
Replayed(t, last) ==
  /\ t \in TradeRows /\ t.kind \in {"BUY", "SELL"}
  /\ t.day \in {d \in Days : d <= last}
  /\ {t.id, t.quantity, t.gross, t.costs, t.exchange} \subseteq Nat

LEMMA EventTyped ==
  ASSUME NEW last, NEW t, Replayed(t, last), NEW home, NEW pos \in PositionType, pos.quantity # 0
  PROVE  EventOf(t, pos, home) \in SaleType(last)
<1>1. RoundDiv(pos.cost, pos.quantity) \in Int /\ RoundDiv(pos.base, pos.quantity) \in Int
  BY RoundDivType DEF PositionType
<1>2. RateToAccount(t, home) \in Nat /\ Ulp \in Nat
  BY PrecisionAssumption DEF RateToAccount, Replayed
<1>3. NetProceeds(t) \in Int /\ t.quantity \in Int /\ t.id \in Nat
  BY DEF Replayed, NetProceeds
<1> DEFINE allocated == RoundDiv(pos.cost, pos.quantity) * t.quantity
           allocatedBase == RoundDiv(pos.base, pos.quantity) * t.quantity
           net == NetProceeds(t) * Ulp
           netBase == net * RateToAccount(t, home)
<1>4. allocated \in Int /\ allocatedBase \in Int /\ net \in Int /\ netBase \in Int
  BY <1>1, <1>2, <1>3
<1>5. net - allocated \in Int /\ netBase - allocatedBase \in Int
  <2> HIDE DEF allocated, allocatedBase, net, netBase
  <2> QED BY <1>4
<1>6. t.security \in Securities /\ t.day \in {d \in Days : d <= last}
  BY DEF Replayed, Securities
<1>7. EventOf(t, pos, home) =
        [id |-> t.id, security |-> t.security, day |-> t.day,
         allocated |-> allocated, gain |-> net - allocated,
         allocatedBase |-> allocatedBase, gainBase |-> netBase - allocatedBase]
  BY DEF EventOf
<1> HIDE DEF allocated, allocatedBase, net, netBase
<1> QED BY <1>3, <1>4, <1>5, <1>6, <1>7 DEF SaleType

LEMMA PositionsTyped ==
  ASSUME NEW last, NEW r \in ReplayType(last), NEW security \in Securities
  PROVE  PositionIn(r, security) \in PositionType
<1>1. PICK D \in SUBSET Securities : r.positions \in [D -> PositionType]
  BY DEF ReplayType
<1>2. NoPosition \in PositionType
  BY DEF NoPosition, PositionType
<1> QED BY <1>1, <1>2 DEF PositionIn

LEMMA GainStepTyped ==
  ASSUME NEW last, NEW t, Replayed(t, last), NEW home, NEW r \in ReplayType(last)
  PROVE  GainStep(t, r, home) \in ReplayType(last)
<1> DEFINE pos == PositionIn(r, t.security)
           event == EventOf(t, pos, home)
           Holds(newPos) == [s \in DOMAIN r.positions \cup {t.security} |->
                               IF s = t.security THEN newPos ELSE r.positions[s]]
<1>1. t.security \in Securities /\ pos \in PositionType
  BY PositionsTyped DEF Replayed, Securities
<1>2. ASSUME NEW newPos \in PositionType
      PROVE  Holds(newPos) \in UNION {[D -> PositionType] : D \in SUBSET Securities}
  <2>1. PICK D \in SUBSET Securities : r.positions \in [D -> PositionType]
    BY DEF ReplayType
  <2>2. DOMAIN r.positions = D /\ D \cup {t.security} \in SUBSET Securities
    BY <1>1, <2>1
  <2>3. Holds(newPos) \in [D \cup {t.security} -> PositionType]
    BY <2>1, <2>2
  <2> HIDE DEF Holds
  <2> QED BY <2>2, <2>3
<1>3. CASE ~r.ok
  BY <1>3 DEF GainStep
<1>4. CASE r.ok /\ t.kind = "BUY"
  <2>1. RateToAccount(t, home) \in Nat /\ Ulp \in Nat /\ Acquisition(t) \in Nat /\ t.quantity \in Nat
    BY PrecisionAssumption DEF RateToAccount, Acquisition, Replayed
  <2>2. pos.quantity \in Nat /\ pos.cost \in Int /\ pos.base \in Int
    BY <1>1 DEF PositionType
  <2>3. Acquisition(t) * Ulp \in Int /\ Acquisition(t) * Ulp * RateToAccount(t, home) \in Int
    BY <2>1
  <2>4. AfterPurchase(pos, t, home) \in PositionType
    <3> HIDE DEF pos
    <3> QED BY <2>1, <2>2, <2>3 DEF AfterPurchase, PositionType
  <2>5. GainStep(t, r, home) = [r EXCEPT !.positions = Holds(AfterPurchase(pos, t, home))]
    BY <1>4 DEF GainStep
  <2> HIDE DEF Holds, pos
  <2> QED BY <1>2, <2>4, <2>5 DEF ReplayType
<1>5. CASE r.ok /\ t.kind = "SELL" /\ (t.quantity > pos.quantity \/ pos.quantity = 0)
  <2>1. pos.quantity \in Nat /\ t.quantity \in Nat
    BY <1>1 DEF PositionType, Replayed
  <2>2. ~(t.quantity <= pos.quantity /\ pos.quantity # 0)
    <3> HIDE DEF pos
    <3> QED BY <1>5, <2>1
  <2>3. GainStep(t, r, home) = [r EXCEPT !.ok = FALSE]
    BY <1>5, <2>2 DEF GainStep
  <2> QED BY <2>3 DEF ReplayType
<1>6. CASE r.ok /\ t.kind = "SELL" /\ t.quantity <= pos.quantity /\ pos.quantity # 0
  <2>1. event \in SaleType(last)
    BY <1>1, <1>6, EventTyped
  <2>2. AfterSale(pos, t, event) \in PositionType
    <3>1. pos.quantity \in Nat /\ pos.cost \in Int /\ pos.base \in Int /\ t.quantity \in Nat
      BY <1>1 DEF PositionType, Replayed
    <3>2. event.allocated \in Int /\ event.allocatedBase \in Int
      BY <2>1 DEF SaleType
    <3> HIDE DEF pos, event
    <3> QED BY <1>6, <3>1, <3>2 DEF AfterSale, PositionType
  <2>3. Append(r.events, event) \in Seq(SaleType(last))
    <3> HIDE DEF event
    <3> QED BY <2>1 DEF ReplayType
  <2>4. GainStep(t, r, home)
          = [r EXCEPT !.positions = Holds(AfterSale(pos, t, event)), !.events = Append(@, event)]
    BY <1>1, <1>6 DEF GainStep, PositionType, Replayed
  <2> HIDE DEF Holds, pos, event
  <2> QED BY <1>2, <2>2, <2>3, <2>4 DEF ReplayType
<1>7. pos.quantity \in Nat /\ t.quantity \in Nat /\ t.kind \in {"BUY", "SELL"} /\ r.ok \in BOOLEAN
  BY <1>1 DEF PositionType, Replayed, ReplayType
<1> QED
  <2> HIDE DEF pos
  <2> QED BY <1>3, <1>4, <1>5, <1>6, <1>7

NoReport == [positions |-> <<>>, events |-> <<>>, ok |-> TRUE]
Report(S, home) == InOrder(LAMBDA t, r : GainStep(t, r, home), NoReport, S)

\* The rows of an account that a replay up to the day last reads.
Read(b, a, last) ==
  {t \in b.trades : t.account = a /\ t.kind \in {"BUY", "SELL"} /\ t.day <= last}

\* A replay is one step after the replay of the rows before the last one.
LEMMA ReportUnfolds ==
  ASSUME NEW b, BookOK(b), NEW last, NEW S \in SUBSET b.trades, \A t \in S : Replayed(t, last), NEW home
  PROVE  /\ Report(S, home) \in ReplayType(last)
         /\ S = {} => Report(S, home) = NoReport
         /\ S # {} => Report(S, home)
                        = GainStep(Latest(S), Report(S \ {Latest(S)}, home), home)
<1> DEFINE V == ReplayType(last)
           Recurses(T, iter) ==
             iter = [R \in SUBSET T |->
                       IF R = {} THEN NoReport ELSE GainStep(Latest(R), iter[R \ {Latest(R)}], home)]
           fold(T) == CHOOSE iter : Recurses(T, iter)
           pick == [T \in SUBSET S |-> Latest(T)]
           step == [p \in S \X V |-> GainStep(p[1], p[2], home)]
<1>1. \A T \in SUBSET S : IsFiniteSet(T) /\ (T # {} => Latest(T) \in T)
  <2>1. IsFiniteSet(b.trades)
    BY DEF BookOK, Stored, Tables
  <2> QED BY <2>1, FS_Subset, LatestExists
<1>2. \A t \in S, p \in V : step[<<t, p>>] = GainStep(t, p, home) /\ GainStep(t, p, home) \in V
  BY GainStepTyped
<1>3. \A T \in SUBSET S : pick[T] = Latest(T)
  OBVIOUS
<1>4. NoReport \in V
  <2>1. <<>> \in [{} -> PositionType] /\ <<>> \in Seq(SaleType(last))
    OBVIOUS
  <2>2. <<>> \in UNION {[D -> PositionType] : D \in SUBSET Securities}
    BY <2>1
  <2> QED BY <2>1, <2>2 DEF NoReport, ReplayType
<1>5. \A T : Report(T, home) = fold(T)[T]
  BY DEF Report, InOrder, MapThenFoldSet
<1>6. ASSUME NEW T \in SUBSET S
      PROVE  Folds(fold(T), step, NoReport, pick, T) /\ fold(T)[T] \in V /\ Picks(pick, T)
  <2> HIDE DEF V, pick, step
  <2>1. Picks(pick, T)
    BY <1>1, <1>3 DEF Picks
  <2>2. Keeps(step, T, V)
    BY <1>2 DEF Keeps
  <2>3. PICK g \in [SUBSET T -> V] : Folds(g, step, NoReport, pick, T)
    BY <1>1, <1>4, <2>1, <2>2, FoldExists
  <2>4. \A R \in SUBSET T : g[R] = IF R = {} THEN NoReport ELSE GainStep(Latest(R), g[R \ {Latest(R)}], home)
    <3>1. \A R \in SUBSET T : R # {} => Latest(R) \in S /\ pick[R] = Latest(R) /\ R \ {Latest(R)} \in SUBSET T
      BY <1>1, <1>3
    <3> QED BY <1>2, <2>3, <3>1 DEF Folds, Unfolded
  <2>5. Recurses(T, g)
    BY <2>4
  <2>6. Recurses(T, fold(T))
    <3> HIDE DEF Recurses
    <3> QED BY <2>5
  <2> HIDE DEF fold
  <2>7. \A R \in SUBSET T :
          fold(T)[R] = IF R = {} THEN NoReport ELSE GainStep(Latest(R), fold(T)[R \ {Latest(R)}], home)
    BY <2>6
  <2> HIDE DEF Recurses
  <2> DEFINE Good == {R \in SUBSET T : fold(T)[R] = g[R]}
  <2>8. \A R \in SUBSET T : (\A t \in R : R \ {t} \in Good) => fold(T)[R] = g[R]
    BY <1>1, <2>4, <2>7
  <2>9. \A R \in SUBSET T : fold(T)[R] = g[R]
    <3> SUFFICES ASSUME NEW R \in SUBSET T
                 PROVE  R \in Good
      OBVIOUS
    <3>1. Hereditary(Good, R) /\ IsFiniteSet(R)
      BY <1>1, <2>8 DEF Hereditary
    <3> HIDE DEF Good
    <3> QED BY <3>1, SubsetInduction
  <2> HIDE DEF Good
  <2>10. Folds(fold(T), step, NoReport, pick, T)
    <3>1. \A R \in SUBSET T : R \ {pick[R]} \in SUBSET T
      OBVIOUS
    <3> QED BY <2>3, <2>9, <3>1 DEF Folds, Unfolded
  <2> QED BY <2>1, <2>3, <2>9, <2>10
<1> HIDE DEF V, fold, pick, step, Recurses
<1>7. S \in SUBSET S
  OBVIOUS
<1>8. ASSUME S # {}
      PROVE  fold(S)[S] = GainStep(Latest(S), fold(S \ {Latest(S)})[S \ {Latest(S)}], home)
  <2> DEFINE T == S \ {Latest(S)}
  <2>1. T \in SUBSET S /\ Latest(S) \in S /\ pick[S] = Latest(S) /\ IsFiniteSet(T)
    BY <1>1, <1>3, <1>7, <1>8
  <2>2. fold(S)[S] = step[<<Latest(S), fold(S)[T]>>]
    BY <1>6, <1>7, <1>8, <2>1 DEF Folds, Unfolded
  <2>3. fold(S)[T] = fold(T)[T]
    <3> HIDE DEF T
    <3>1. Folds(fold(S), step, NoReport, pick, S) /\ Folds(fold(T), step, NoReport, pick, T) /\ Picks(pick, T)
      BY <1>6, <1>7, <2>1
    <3> QED BY <2>1, <3>1, FoldsAgree
  <2>4. fold(T)[T] \in V
    BY <1>6, <2>1
  <2> QED BY <1>2, <2>1, <2>2, <2>3, <2>4
<1>9. S = {} => fold(S)[S] = NoReport
  BY <1>6, <1>7 DEF Folds, Unfolded
<1> QED BY <1>5, <1>6, <1>7, <1>8, <1>9 DEF V

LEMMA ReplayTyped ==
  ASSUME NEW b, BookOK(b), NEW a, NEW last, NEW home
  PROVE  /\ Read(b, a, last) \in SUBSET b.trades /\ \A t \in Read(b, a, last) : Replayed(t, last)
         /\ RealizedGainEvents(b.trades, a, last, home) = Report(Read(b, a, last), home)
         /\ RealizedGainEvents(b.trades, a, last, home) \in ReplayType(last)
<1>1. Read(b, a, last) \in SUBSET b.trades /\ \A t \in Read(b, a, last) : Replayed(t, last)
  BY TradeTyped DEF Read, Replayed
<1>2. RealizedGainEvents(b.trades, a, last, home) = Report(Read(b, a, last), home)
  BY DEF RealizedGainEvents, Report, NoReport, Read
<1> QED BY <1>1, <1>2, ReportUnfolds

\* The sales of a year are finitely many and dated up to its end.
LEMMA SalesTyped ==
  ASSUME NEW b, BookOK(b), NEW a, NEW y
  PROVE  IsFiniteSet(SalesIn(b, a, y)) /\ SalesIn(b, a, y) \subseteq SaleType(y.end)
<1> DEFINE replay == RealizedGainEvents(b.trades, a, y.end, Home[a])
           these == {j \in DOMAIN replay.events : replay.events[j].day >= y.start}
           sales == {replay.events[i] : i \in these}
<1>1. replay.events \in Seq(SaleType(y.end))
  BY ReplayTyped DEF ReplayType
<1>2. IsFiniteSet(DOMAIN replay.events)
  <2> HIDE DEF replay
  <2>1. Len(replay.events) \in Nat /\ DOMAIN replay.events = 1..Len(replay.events)
    BY <1>1
  <2> QED BY <2>1, FS_Interval
<1>3. IsFiniteSet(these)
  BY <1>2, FS_Subset
<1>4. IsFiniteSet(sales)
  <2> DEFINE f == [i \in these |-> replay.events[i]]
  <2>1. f \in Surjection(these, sales)
    <3> HIDE DEF these, replay
    <3> QED BY DEF Surjection
  <2> HIDE DEF these, replay, sales, f
  <2> QED BY <1>3, <2>1, FS_Surjection
<1>5. sales \subseteq SaleType(y.end)
  <2> HIDE DEF replay
  <2> QED BY <1>1
<1>6. SalesIn(b, a, y) = IF replay.ok THEN sales ELSE {}
  BY DEF SalesIn
<1> HIDE DEF replay, sales
<1> QED BY <1>4, <1>5, <1>6, FS_EmptySet

-----------------------------------------------------------------------------
(***************************************************************************)
(* Books that agree on everything that counts up to the end of the year    *)
(* have the same summary.  Later rates only reach items dated later.       *)
(***************************************************************************)
Known(S) == {x \in S : x.day <= Year.end}
Counted(S) == {e \in S : Counts(e)}

ItemsEnd(b) == \A i \in b.items : ItemDay(i) <= Year.end

Agree(b, c) ==
  /\ Known(Counted(b.entries)) = Known(Counted(c.entries))
  /\ Known(b.dividends) = Known(c.dividends)
  /\ Known(b.trades) = Known(c.trades) /\ Known(b.rates) = Known(c.rates)
  /\ b.rates = c.rates \/ ItemsEnd(b)
  /\ b.items = c.items /\ b.rules = c.rules

LEMMA SameRates ==
  ASSUME NEW b, Stored(b), NEW c, Stored(c), Agree(b, c), NEW day \in Int, day <= Year.end
  PROVE  \A currency : RateOn(b, currency, day) = RateOn(c, currency, day)
<1>1. Year.end \in Int /\ \A r \in b.rates \cup c.rates : r.day \in Int
  <2>1. b.rates \subseteq Observations /\ c.rates \subseteq Observations
    BY DEF Stored, Tables, RowsOf
  <2>2. \A r \in Observations : r.day \in Int
    BY YearAssumption, RowsAssumption
  <2> QED BY <2>1, <2>2, YearAssumption
<1>2. \A base, quote : Observed(b.rates, base, quote, day) = Observed(c.rates, base, quote, day)
  <2>1. \A r : r \in b.rates /\ r.day <= day <=> r \in c.rates /\ r.day <= day
    <3>1. \A r \in b.rates \cup c.rates : r.day <= day => r.day <= Year.end
      BY <1>1
    <3>2. Known(b.rates) = Known(c.rates)
      BY DEF Agree
    <3> QED BY <3>1, <3>2 DEF Known
  <2> QED BY <2>1 DEF Observed
<1> QED BY <1>2 DEF RateOn, FxRate

LEMMA SameEntries ==
  ASSUME NEW b, Stored(b), NEW c, Stored(c), Agree(b, c), NEW type
  PROVE  /\ EntriesIn(b, type, Year) = EntriesIn(c, type, Year)
         /\ \A e \in EntriesIn(b, type, Year) :
              /\ e.day \in Int /\ e.day <= Year.end
              /\ \A currency : RateOn(b, currency, e.day) = RateOn(c, currency, e.day)
         /\ EntryTotal(b, type, Year) = EntryTotal(c, type, Year)
<1> DEFINE S == EntriesIn(b, type, Year)
<1>1. S = EntriesIn(c, type, Year)
  <2>1. \A e : e \in Known(Counted(b.entries)) <=> e \in Known(Counted(c.entries))
    BY DEF Agree
  <2>2. \A x, e : e \in EntriesIn(x, type, Year)
                <=> e \in Known(Counted(x.entries)) /\ e.type = type /\ Year.start <= e.day
    BY DEF EntriesIn, InYear, Known, Counted
  <2>3. \A e : e \in EntriesIn(b, type, Year) <=> e \in EntriesIn(c, type, Year)
    BY <2>1, <2>2
  <2> QED BY <2>3 DEF EntriesIn
<1>2. \A e \in S : e.day \in Int /\ e.day <= Year.end
  <2>1. b.entries \subseteq LedgerEntries
    BY DEF Stored, Tables, RowsOf
  <2>2. \A e \in LedgerEntries : e.day \in Int
    BY YearAssumption, RowsAssumption
  <2> QED BY <2>1, <2>2 DEF EntriesIn, InYear
<1>3. \A e \in S : \A currency : RateOn(b, currency, e.day) = RateOn(c, currency, e.day)
  BY <1>2, SameRates
<1>4. [e \in S |-> Convert(b, Magnitude(e.amount), e.currency, e.day)]
        = [e \in S |-> Convert(c, Magnitude(e.amount), e.currency, e.day)]
  BY <1>3 DEF Convert
<1>5. EntryTotal(b, type, Year) = EntryTotal(c, type, Year)
  BY <1>1, <1>4 DEF EntryTotal
<1> QED BY <1>1, <1>2, <1>3, <1>5

LEMMA SameDividends ==
  ASSUME NEW b, Stored(b), NEW c, Stored(c), Agree(b, c)
  PROVE  /\ DividendsIn(b, Year) = DividendsIn(c, Year)
         /\ \A d \in DividendsIn(b, Year) : RateOfDividend(b, d) = RateOfDividend(c, d)
         /\ GrossDividends(b, Year) = GrossDividends(c, Year)
         /\ TaxedAtSource(b, Year) = TaxedAtSource(c, Year)
<1> DEFINE S == DividendsIn(b, Year)
<1>1. S = DividendsIn(c, Year)
  BY DEF DividendsIn, InYear, Agree, Known
<1>2. \A d \in S : d.day \in Int /\ d.day <= Year.end
  <2>1. b.dividends \subseteq DividendRows
    BY DEF Stored, Tables, RowsOf
  <2>2. \A d \in DividendRows : d.day \in Int
    BY YearAssumption, RowsAssumption
  <2> QED BY <2>1, <2>2 DEF DividendsIn, InYear
<1>3. \A d \in S : RateOfDividend(b, d) = RateOfDividend(c, d)
  BY <1>2, SameRates DEF RateOfDividend
<1>4. [d \in S |-> ConvertDividend(b, d.gross, d)] = [d \in S |-> ConvertDividend(c, d.gross, d)]
  BY <1>3 DEF ConvertDividend
<1>5. [d \in S |-> ConvertDividend(b, d.taxes, d)] = [d \in S |-> ConvertDividend(c, d.taxes, d)]
  BY <1>3 DEF ConvertDividend
<1>6. GrossDividends(b, Year) = GrossDividends(c, Year)
  BY <1>1, <1>4 DEF GrossDividends
<1>7. TaxedAtSource(b, Year) = TaxedAtSource(c, Year)
  BY <1>1, <1>5 DEF TaxedAtSource
<1> QED BY <1>1, <1>3, <1>6, <1>7

LEMMA SameSales ==
  ASSUME NEW b, BookOK(b), NEW c, Stored(c), Agree(b, c), NEW a
  PROVE  /\ RealizedGainEvents(b.trades, a, Year.end, Home[a])
              = RealizedGainEvents(c.trades, a, Year.end, Home[a])
         /\ SalesIn(b, a, Year) = SalesIn(c, a, Year)
         /\ \A s \in SalesIn(b, a, Year) : \A currency :
              RateOn(b, currency, s.day) = RateOn(c, currency, s.day)
         /\ GainsOf(b, a, Year) = GainsOf(c, a, Year)
         /\ LossesOf(b, a, Year) = LossesOf(c, a, Year)
<1> DEFINE S == SalesIn(b, a, Year)
           read(trades) == {t \in trades : t.account = a /\ t.kind \in {"BUY", "SELL"} /\ t.day <= Year.end}
           Replay(trades) == InOrder(LAMBDA t, r : GainStep(t, r, Home[a]),
                                     [positions |-> <<>>, events |-> <<>>, ok |-> TRUE], trades)
<1>1. read(b.trades) = read(c.trades)
  BY DEF Agree, Known
<1>2. RealizedGainEvents(b.trades, a, Year.end, Home[a])
        = RealizedGainEvents(c.trades, a, Year.end, Home[a])
  <2>1. \A trades : RealizedGainEvents(trades, a, Year.end, Home[a]) = Replay(read(trades))
    BY DEF RealizedGainEvents
  <2> HIDE DEF read, Replay
  <2> QED BY <1>1, <2>1
<1>3. S = SalesIn(c, a, Year)
  BY <1>2 DEF SalesIn
<1>4. \A s \in S : s.day \in Int /\ s.day <= Year.end
  <2>1. S \subseteq SaleType(Year.end)
    BY SalesTyped
  <2>2. \A s \in SaleType(Year.end) : s.day \in Int /\ s.day <= Year.end
    BY YearAssumption DEF SaleType
  <2> HIDE DEF S
  <2> QED BY <2>1, <2>2
<1>5. \A s \in S : \A currency : RateOn(b, currency, s.day) = RateOn(c, currency, s.day)
  BY <1>4, SameRates DEF BookOK
<1>6. [s \in S |-> NonNegative(GainOf(b, s, a))] = [s \in S |-> NonNegative(GainOf(c, s, a))]
  BY <1>5 DEF GainOf
<1>7. [s \in S |-> Least(GainOf(b, s, a), 0)] = [s \in S |-> Least(GainOf(c, s, a), 0)]
  BY <1>5 DEF GainOf
<1>8. GainsOf(b, a, Year) = GainsOf(c, a, Year)
  BY <1>3, <1>6 DEF GainsOf
<1>9. LossesOf(b, a, Year) = LossesOf(c, a, Year)
  BY <1>3, <1>7 DEF LossesOf
<1> QED BY <1>2, <1>3, <1>5, <1>8, <1>9

LEMMA SameItems ==
  ASSUME NEW b, Stored(b), NEW c, Stored(c), Agree(b, c)
  PROVE  /\ \A i \in b.items : \A currency :
              RateOn(b, currency, ItemDay(i)) = RateOn(c, currency, ItemDay(i))
         /\ \A S \in SUBSET b.items : SizeOf(b, S) = SizeOf(c, S) /\ ValueOf(b, S) = ValueOf(c, S)
<1>1. \A i \in b.items : ItemDay(i) \in Int
  <2>1. b.items \subseteq ItemRows
    BY DEF Stored, Tables, RowsOf
  <2>2. \A i \in ItemRows : i.table = "ALLOWANCE" \/ i.day \in Int
    BY YearAssumption, RowsAssumption
  <2> QED BY <2>1, <2>2, YearAssumption DEF ItemDay
<1>2. \A i \in b.items : \A currency :
        RateOn(b, currency, ItemDay(i)) = RateOn(c, currency, ItemDay(i))
  <2>1. CASE b.rates = c.rates
    BY <2>1 DEF RateOn
  <2>2. CASE ItemsEnd(b)
    BY <1>1, <2>2, SameRates DEF ItemsEnd
  <2> QED BY <2>1, <2>2 DEF Agree
<1>3. \A i \in b.items : ItemValue(b, i) = ItemValue(c, i)
  BY <1>2 DEF ItemValue, Convert
<1>4. ASSUME NEW S \in SUBSET b.items
      PROVE  SizeOf(b, S) = SizeOf(c, S) /\ ValueOf(b, S) = ValueOf(c, S)
  <2>1. [i \in S |-> Magnitude(ItemValue(b, i))] = [i \in S |-> Magnitude(ItemValue(c, i))]
    BY <1>3
  <2>2. [i \in S |-> ItemValue(b, i)] = [i \in S |-> ItemValue(c, i)]
    BY <1>3
  <2> QED BY <2>1, <2>2 DEF SizeOf, ValueOf
<1> QED BY <1>2, <1>4

LEMMA SameAmounts ==
  ASSUME NEW b, BookOK(b), NEW c, Stored(c), Agree(b, c)
  PROVE  /\ \A category : Gross(b, category) = Gross(c, category)
         /\ \A category : Netted(b, category) = Netted(c, category)
         /\ \A kind, category : Manual(b, kind, category) = Manual(c, kind, category)
         /\ Withheld(b) = Withheld(c) /\ Paid(b) = Paid(c)
<1> Stored(b)
  BY DEF BookOK
<1>1. Gains(b, Year) = Gains(c, Year) /\ Losses(b, Year) = Losses(c, Year)
  <2>1. [a \in Accounts |-> GainsOf(b, a, Year)] = [a \in Accounts |-> GainsOf(c, a, Year)]
    BY SameSales
  <2>2. [a \in Accounts |-> LossesOf(b, a, Year)] = [a \in Accounts |-> LossesOf(c, a, Year)]
    BY SameSales
  <2> QED BY <2>1, <2>2 DEF Gains, Losses
<1>2. \A category : Income(b, category, Year) = Income(c, category, Year)
  BY <1>1, SameEntries, SameDividends DEF Income
<1>3. \A category : Adjustments(b, category) \in SUBSET b.items
                    /\ Adjustments(b, category) = Adjustments(c, category)
  BY DEF Adjustments, Agree
<1>4. \A category : SizeOf(b, Adjustments(b, category)) = SizeOf(c, Adjustments(c, category))
                    /\ ValueOf(b, Adjustments(b, category)) = ValueOf(c, Adjustments(c, category))
  BY <1>3, SameItems
<1>5. ASSUME NEW kind, NEW category
      PROVE  Manual(b, kind, category) = Manual(c, kind, category)
  <2> DEFINE own(x) == {i \in x.items : i.table = kind /\ i.category = category}
                       \cup {i \in Adjustments(x, kind) : Target(i) = category}
  <2>1. own(b) = own(c) /\ own(b) \in SUBSET b.items
    BY <1>3 DEF Agree
  <2>2. Manual(b, kind, category) = SizeOf(b, own(b)) /\ Manual(c, kind, category) = SizeOf(c, own(c))
    BY DEF Manual
  <2> HIDE DEF own
  <2> QED BY <2>1, <2>2, SameItems
<1>6. \A category : Gross(b, category) = Gross(c, category)
  BY <1>2, <1>4 DEF Gross
<1>7. \A category : Netted(b, category) = Netted(c, category)
  BY <1>1, <1>4 DEF Netted
<1>8. Withheld(b) = Withheld(c)
  BY <1>4, SameDividends DEF Withheld
<1>9. Paid(b) = Paid(c)
  BY <1>4, SameEntries DEF Paid
<1> QED BY <1>5, <1>6, <1>7, <1>8, <1>9

LEMMA SameRows ==
  ASSUME NEW b, BookOK(b), NEW c, Stored(c), Agree(b, c)
  PROVE  Rows(b) = Rows(c)
<1>1. b.rules = c.rules
  BY DEF Agree
<1>2. ManualRows(b) = ManualRows(c)
  <2> DEFINE start(x) ==
        [k \in Categories |->
           [taxable |-> NonNegative(Gross(x, k) + Netted(x, k)),
            allowances |-> 0, deductions |-> 0, tax |-> 0]]
             own(x) ==
        [k \in Categories |->
           Relief(Relief(start(x)[k], "ALLOWANCE", Manual(x, "ALLOWANCE", k)),
                  "DEDUCTION", Manual(x, "DEDUCTION", k))]
             overall(rows, m, n) ==
        OverallRelief(OverallRelief(rows, "ALLOWANCE", m), "DEDUCTION", n)
  <2>1. start(b) = start(c)
    BY SameAmounts
  <2>2. own(b) = own(c)
    <3> HIDE DEF start
    <3> QED BY <2>1, SameAmounts
  <2>3. \A x : ManualRows(x) = overall(own(x), Manual(x, "ALLOWANCE", "OVERALL"),
                                       Manual(x, "DEDUCTION", "OVERALL"))
    BY DEF ManualRows
  <2> HIDE DEF start, own, overall
  <2> QED BY <2>2, <2>3, SameAmounts
<1> DEFINE relieved(rows, rules) == ByPriority(ReliefRule, rows, rules)
           taxed(rows, rules) == ByPriority(FlatRule, rows, rules)
<1>3. \A x : RelievedRows(x) = relieved(ManualRows(x), {r \in x.rules : r.type # "FLAT_RATE"})
  BY DEF RelievedRows
<1>4. \A x : Rows(x) = taxed(RelievedRows(x), {r \in x.rules : r.type = "FLAT_RATE"})
  BY DEF Rows
<1> HIDE DEF relieved, taxed
<1> QED BY <1>1, <1>2, <1>3, <1>4

LEMMA SameCompleteness ==
  ASSUME NEW b, BookOK(b), NEW c, Stored(c), Agree(b, c)
  PROVE  Incomplete(b) <=> Incomplete(c)
<1> Stored(b)
  BY DEF BookOK
<1> DEFINE unpriced(x, type) ==
             \E e \in EntriesIn(x, type, Year) : RateOn(x, e.currency, e.day) = MissingRate
           undivided(x) == \E d \in DividendsIn(x, Year) : RateOfDividend(x, d) = MissingRate
           unsold(x, a) ==
             \/ ~RealizedGainEvents(x.trades, a, Year.end, Home[a]).ok
             \/ \E s \in SalesIn(x, a, Year) : RateOn(x, Home[a], s.day) = MissingRate
           unentered(x) == \E i \in x.items : RateOn(x, i.currency, ItemDay(i)) = MissingRate
<1>1. \A type : unpriced(b, type) <=> unpriced(c, type)
  BY SameEntries
<1>2. undivided(b) <=> undivided(c)
  BY SameDividends
<1>3. \A a : unsold(b, a) <=> unsold(c, a)
  BY SameSales
<1>4. unentered(b) <=> unentered(c)
  BY SameItems DEF Agree
<1>5. \A x : Incomplete(x) <=> \/ unpriced(x, "INTEREST") \/ unpriced(x, "TAX") \/ undivided(x)
                               \/ \E a \in Accounts : unsold(x, a)
                               \/ unentered(x)
  BY DEF Incomplete
<1> HIDE DEF unpriced, undivided, unsold, unentered
<1> QED BY <1>1, <1>2, <1>3, <1>4, <1>5

LEMMA SameSummary ==
  ASSUME NEW b, BookOK(b), NEW c, Stored(c), Agree(b, c)
  PROVE  Summary(b) = Summary(c)
<1>1. Rows(b) = Rows(c)
  BY SameRows
<1>2. EstimatedTax(b) = EstimatedTax(c)
  BY <1>1 DEF EstimatedTax
<1>3. Balance(b) = Balance(c)
  BY <1>2, SameAmounts DEF Balance
<1>4. Due(b) = Due(c) /\ Refund(b) = Refund(c)
  BY <1>3 DEF Due, Refund
<1>5. Incomplete(b) = Incomplete(c)
  BY SameCompleteness DEF Incomplete
<1> QED BY <1>1, <1>4, <1>5 DEF Summary

\* A row dated after the year leaves what the book knows of it alone.
LEMMA LaterAgrees ==
  ASSUME NEW b, Stored(b), NEW table \in {"entries", "dividends", "trades", "rates"},
         NEW row \in RowsOf[table], row.day > Year.end, table = "rates" => ItemsEnd(b)
  PROVE  Stored(With(b, table, row)) /\ Agree(b, With(b, table, row))
<1> DEFINE c == With(b, table, row)
<1>1. table \in Tables /\ {"entries", "dividends", "trades", "rates", "items", "rules"} = Tables
  BY DEF Tables
<1>2. Stored(c) /\ c[table] = b[table] \cup {row} /\ \A other \in Tables \ {table} : c[other] = b[other]
  BY <1>1, WithStored
<1>3. ~(row.day <= Year.end)
  <2>1. \A x \in LedgerEntries \cup DividendRows \cup TradeRows \cup Observations : x.day \in Int
    BY YearAssumption, RowsAssumption
  <2>2. row \in LedgerEntries \cup DividendRows \cup TradeRows \cup Observations
    BY DEF RowsOf
  <2>3. row.day \in Int /\ Year.end \in Int
    BY <2>1, <2>2, YearAssumption
  <2> QED BY <2>3
<1>4. \A other \in {"entries", "dividends", "trades", "rates"} : Known(c[other]) = Known(b[other])
  BY <1>1, <1>2, <1>3 DEF Known
<1>5. Known(Counted(c.entries)) = Known(Counted(b.entries))
  <2> HIDE DEF c
  <2>1. \A S : Known(Counted(S)) = Counted(Known(S))
    BY DEF Known, Counted
  <2> QED BY <1>4, <2>1
<1>6. b.rates = c.rates \/ ItemsEnd(b)
  <2> HIDE DEF c
  <2> QED BY <1>1, <1>2
<1>7. Agree(b, c)
  <2> HIDE DEF c
  <2> QED BY <1>1, <1>2, <1>4, <1>5, <1>6 DEF Agree
<1> QED BY <1>2, <1>7

\* README.md:143-144, "never future data": the summary of a year that is over
\* stays what it was, whatever entry, dividend or trade is recorded for a later
\* day, and whatever rate unless an item of the year lies after its end.
THEOREM FutureNeverTaxed == Spec => []LaterFactsDontMatter
<1>1. BookOK(book) => LaterFactsDontMatter
  <2> SUFFICES ASSUME BookOK(book)
               PROVE  LaterFactsDontMatter
    OBVIOUS
  <2>1. ASSUME NEW table \in {"entries", "dividends", "trades", "rates"}, NEW row \in RowsOf[table],
               row.day > Year.end, table = "rates" => ItemsEnd(book)
        PROVE  Summary(With(book, table, row)) = Summary(book)
    <3>1. Stored(With(book, table, row)) /\ Agree(book, With(book, table, row))
      BY <2>1, LaterAgrees DEF BookOK
    <3> QED BY <3>1, SameSummary
  <2>2. \A row \in LedgerEntries : row.day > Year.end => Summary(With(book, "entries", row)) = Summary(book)
    BY <2>1 DEF RowsOf
  <2>3. \A row \in DividendRows : row.day > Year.end => Summary(With(book, "dividends", row)) = Summary(book)
    BY <2>1 DEF RowsOf
  <2>4. \A row \in TradeRows : row.day > Year.end => Summary(With(book, "trades", row)) = Summary(book)
    BY <2>1 DEF RowsOf
  <2>5. \A row \in Observations :
          row.day > Year.end /\ ItemsEnd(book) => Summary(With(book, "rates", row)) = Summary(book)
    BY <2>1 DEF RowsOf
  <2> QED BY <2>2, <2>3, <2>4, <2>5 DEF LaterFactsDontMatter, ItemsEnd
<1> QED BY <1>1, Inductive, PTL

-----------------------------------------------------------------------------
(***************************************************************************)
(* The amounts of a book are whole numbers.                                *)
(***************************************************************************)
LEMMA SumIsInt ==
  ASSUME NEW S, IsFiniteSet(S), NEW f \in [S -> Int]
  PROVE  SumFunction(f) \in Int
<1>1. f = [x \in S |-> f[x]]
  OBVIOUS
<1> QED BY <1>1, SumStep DEF Over

LEMMA SumIsNat ==
  ASSUME NEW S, IsFiniteSet(S), NEW f \in [S -> Nat]
  PROVE  SumFunction(f) \in Nat
<1>1. f = [x \in S |-> f[x]]
  OBVIOUS
<1> QED BY <1>1, SumNatural DEF Over

LEMMA ConvertTyped ==
  ASSUME NEW b, BookOK(b), NEW amount \in Int, NEW currency, NEW day
  PROVE  Convert(b, amount, currency, day) \in Int
<1>1. PICK rate \in Nat : rate = RateOn(b, currency, day)
  BY RateTyped
<1>2. Ulp \in Int /\ RateUnit \in Int
  BY PrecisionAssumption
<1>3. amount * Ulp * RateUnit * rate \in Int
  BY <1>2
<1> QED BY <1>1, <1>3 DEF Convert

LEMMA ConvertNat ==
  ASSUME NEW b, BookOK(b), NEW amount \in Nat, NEW currency, NEW day
  PROVE  Convert(b, amount, currency, day) \in Nat
<1>1. PICK rate \in Nat : rate = RateOn(b, currency, day)
  BY RateTyped
<1>2. Ulp \in Nat /\ RateUnit \in Nat
  BY PrecisionAssumption
<1>3. amount * Ulp * RateUnit * rate \in Nat
  BY <1>2
<1> QED BY <1>1, <1>3 DEF Convert

LEMMA EntryTotalTyped ==
  ASSUME NEW b, BookOK(b), NEW type, NEW y
  PROVE  EntryTotal(b, type, y) \in Int
<1> DEFINE S == EntriesIn(b, type, y)
           f == [e \in S |-> Convert(b, Magnitude(e.amount), e.currency, e.day)]
<1>1. b.entries \subseteq LedgerEntries /\ IsFiniteSet(b.entries)
  BY DEF BookOK, Stored, Tables, RowsOf
<1>2. IsFiniteSet(S) /\ S \subseteq LedgerEntries
  BY <1>1, FS_Subset DEF EntriesIn
<1>3. \A e \in S : Magnitude(e.amount) \in Int
  BY <1>2, RowsAssumption DEF Magnitude
<1>4. f \in [S -> Int]
  <2> HIDE DEF S
  <2> QED BY <1>3, ConvertTyped
<1>5. SumFunction(f) \in Int
  <2> HIDE DEF f, S
  <2> QED BY <1>2, <1>4, SumIsInt
<1> QED BY <1>5 DEF EntryTotal

LEMMA DividendTyped ==
  ASSUME NEW b, BookOK(b), NEW d \in DividendRows
  PROVE  ConvertDividend(b, d.gross, d) \in Nat
<1>1. d.gross \in Nat /\ d.exchange \in Nat
  BY RowsAssumption
<1>2. PICK own \in Nat, rate \in Nat : own = RateOn(b, Home[d.account], d.day)
                                       /\ rate = RateOn(b, d.currency, d.day)
  BY RateTyped
<1>3. Ulp \in Nat /\ RateUnit \in Nat
  BY PrecisionAssumption
<1>4. RateOfDividend(b, d) \in Nat
  BY <1>1, <1>2, <1>3 DEF RateOfDividend
<1> QED BY <1>1, <1>3, <1>4 DEF ConvertDividend

LEMMA GrossDividendsTyped ==
  ASSUME NEW b, BookOK(b), NEW y
  PROVE  GrossDividends(b, y) \in Int
<1> DEFINE S == DividendsIn(b, y)
           f == [d \in S |-> ConvertDividend(b, d.gross, d)]
<1>1. b.dividends \subseteq DividendRows /\ IsFiniteSet(b.dividends)
  BY DEF BookOK, Stored, Tables, RowsOf
<1>2. IsFiniteSet(S) /\ S \subseteq DividendRows
  BY <1>1, FS_Subset DEF DividendsIn
<1>3. \A d \in S : ConvertDividend(b, d.gross, d) \in Int
  BY <1>2, DividendTyped
<1>4. f \in [S -> Int]
  <2> HIDE DEF S
  <2> QED BY <1>3
<1>5. SumFunction(f) \in Int
  <2> HIDE DEF f, S
  <2> QED BY <1>2, <1>4, SumIsInt
<1> QED BY <1>5 DEF GrossDividends

LEMMA GainsOfTyped ==
  ASSUME NEW b, BookOK(b), NEW a, NEW y
  PROVE  GainsOf(b, a, y) \in Int /\ LossesOf(b, a, y) \in Int
<1> DEFINE S == SalesIn(b, a, y)
           f == [s \in S |-> NonNegative(GainOf(b, s, a))]
           g == [s \in S |-> Least(GainOf(b, s, a), 0)]
<1>1. IsFiniteSet(S) /\ S \subseteq SaleType(y.end)
  BY SalesTyped
<1>2. ASSUME NEW s \in S
      PROVE  GainOf(b, s, a) \in Int
  <2>1. s.gainBase \in Int
    BY <1>1 DEF SaleType
  <2>2. PICK rate \in Nat : rate = RateOn(b, Home[a], s.day)
    BY RateTyped
  <2> QED BY <2>1, <2>2 DEF GainOf
<1>3. f \in [S -> Int]
  <2> HIDE DEF S
  <2> QED BY <1>2 DEF NonNegative
<1>4. g \in [S -> Int]
  <2> HIDE DEF S
  <2> QED BY <1>2 DEF Least
<1>5. SumFunction(f) \in Int /\ SumFunction(g) \in Int
  <2> HIDE DEF f, g, S
  <2> QED BY <1>1, <1>3, <1>4, SumIsInt
<1> QED BY <1>5 DEF GainsOf, LossesOf

LEMMA GainsTyped ==
  ASSUME NEW b, BookOK(b), NEW y
  PROVE  Gains(b, y) \in Int /\ Losses(b, y) \in Int
<1> DEFINE f == [a \in Accounts |-> GainsOf(b, a, y)]
           g == [a \in Accounts |-> LossesOf(b, a, y)]
<1>1. f \in [Accounts -> Int] /\ g \in [Accounts -> Int]
  BY GainsOfTyped
<1>2. SumFunction(f) \in Int /\ SumFunction(g) \in Int
  <2> HIDE DEF f, g
  <2> QED BY <1>1, YearAssumption, SumIsInt
<1> QED BY <1>2 DEF Gains, Losses

LEMMA ItemsTyped ==
  ASSUME NEW b, BookOK(b), NEW S \in SUBSET b.items
  PROVE  ValueOf(b, S) \in Int /\ SizeOf(b, S) \in Nat
<1> DEFINE f == [i \in S |-> ItemValue(b, i)]
           g == [i \in S |-> Magnitude(ItemValue(b, i))]
<1>1. b.items \subseteq ItemRows /\ IsFiniteSet(b.items)
  BY DEF BookOK, Stored, Tables, RowsOf
<1>2. IsFiniteSet(S)
  BY <1>1, FS_Subset
<1>3. \A i \in S : ItemValue(b, i) \in Int
  <2>1. \A i \in S : i.amount \in Int
    BY <1>1, RowsAssumption
  <2> QED BY <2>1, ConvertTyped DEF ItemValue
<1>4. f \in [S -> Int]
  BY <1>3
<1>5. g \in [S -> Nat]
  BY <1>3 DEF Magnitude
<1>6. SumFunction(f) \in Int /\ SumFunction(g) \in Nat
  <2> HIDE DEF f, g
  <2> QED BY <1>2, <1>4, <1>5, SumIsInt, SumIsNat
<1> QED BY <1>6 DEF ValueOf, SizeOf

LEMMA IncomeTyped ==
  ASSUME NEW b, BookOK(b), NEW category
  PROVE  /\ Income(b, category, Year) \in Int /\ Netted(b, category) \in Int
         /\ ValueOf(b, Adjustments(b, category)) \in Int
<1>1. \A k : Adjustments(b, k) \in SUBSET b.items
  BY DEF Adjustments
<1>2. Income(b, category, Year) \in Int
  BY EntryTotalTyped, GrossDividendsTyped, GainsTyped DEF Income
<1>3. \A k : ValueOf(b, Adjustments(b, k)) \in Int /\ SizeOf(b, Adjustments(b, k)) \in Nat
  BY <1>1, ItemsTyped
<1>4. Netted(b, category) \in Int
  BY <1>3, GainsTyped DEF Netted
<1> QED BY <1>2, <1>3, <1>4

\* What a category nets, before any relief.
Net(b, category) == NonNegative(Gross(b, category) + Netted(b, category))

LEMMA AmountsTyped ==
  ASSUME NEW b, BookOK(b)
  PROVE  /\ \A category : Net(b, category) \in Nat
         /\ \A kind, category : Manual(b, kind, category) \in Nat
<1>1. ASSUME NEW kind, NEW category
      PROVE  Manual(b, kind, category) \in Nat
  <2>1. {i \in b.items : i.table = kind /\ i.category = category}
          \cup {i \in Adjustments(b, kind) : Target(i) = category} \in SUBSET b.items
    BY DEF Adjustments
  <2> QED BY <2>1, ItemsTyped DEF Manual
<1>2. ASSUME NEW category
      PROVE  Net(b, category) \in Nat
  <2>1. Gross(b, category) \in Int /\ Netted(b, category) \in Int
    BY IncomeTyped DEF Gross
  <2> QED BY <2>1 DEF Net, NonNegative
<1> QED BY <1>1, <1>2

-----------------------------------------------------------------------------
(***************************************************************************)
(* Reliefs and rules move amounts within a category.                       *)
(***************************************************************************)
RowType == [taxable : Nat, allowances : Nat, deductions : Nat, tax : Nat]

RowNetting(n) == {row \in RowType : row.taxable + row.allowances + row.deductions = n}

\* Rows that account for the amounts net[c].
Accounted(net) == {rows \in [Categories -> RowType] : \A k \in Categories : rows[k] \in RowNetting(net[k])}

LEMMA AccountedRows ==
  ASSUME NEW net, NEW rows
  PROVE  rows \in Accounted(net) <=>
           rows = [k \in Categories |-> rows[k]] /\ \A k \in Categories : rows[k] \in RowNetting(net[k])
BY DEF Accounted, RowNetting

LEMMA ReliefKeeps ==
  ASSUME NEW n, NEW row \in RowNetting(n), NEW kind, NEW amount \in Nat
  PROVE  Relief(row, kind, amount) \in RowNetting(n)
<1> DEFINE used == Least(row.taxable, amount)
<1>1. row \in RowType /\ row.taxable + row.allowances + row.deductions = n
  BY DEF RowNetting
<1>2. row.taxable \in Nat /\ row.allowances \in Nat /\ row.deductions \in Nat /\ row.tax \in Nat
  BY <1>1 DEF RowType
<1>3. used \in Nat /\ used <= row.taxable
  BY <1>2 DEF Least
<1>4. row.taxable - used \in Nat /\ row.allowances + used \in Nat /\ row.deductions + used \in Nat
  <2> HIDE DEF used
  <2> QED BY <1>2, <1>3
<1>5. CASE kind = "ALLOWANCE"
  <2>1. Relief(row, kind, amount) =
          [taxable |-> row.taxable - used, allowances |-> row.allowances + used,
           deductions |-> row.deductions, tax |-> row.tax]
    BY <1>1, <1>5 DEF Relief, RowType
  <2>2. (row.taxable - used) + (row.allowances + used) + row.deductions = n
    <3> HIDE DEF used
    <3> QED BY <1>1, <1>2, <1>3
  <2> HIDE DEF used
  <2> QED BY <1>2, <1>4, <2>1, <2>2 DEF RowNetting, RowType
<1>6. CASE kind # "ALLOWANCE"
  <2>1. Relief(row, kind, amount) =
          [taxable |-> row.taxable - used, allowances |-> row.allowances,
           deductions |-> row.deductions + used, tax |-> row.tax]
    BY <1>1, <1>6 DEF Relief, RowType
  <2>2. (row.taxable - used) + row.allowances + (row.deductions + used) = n
    <3> HIDE DEF used
    <3> QED BY <1>1, <1>2, <1>3
  <2> HIDE DEF used
  <2> QED BY <1>2, <1>4, <2>1, <2>2 DEF RowNetting, RowType
<1> QED BY <1>5, <1>6

LEMMA TaxKeeps ==
  ASSUME NEW n, NEW row \in RowNetting(n), NEW rate \in Nat
  PROVE  [row EXCEPT !.tax = @ + row.taxable * rate] \in RowNetting(n)
<1>1. row \in RowType /\ row.taxable + row.allowances + row.deductions = n
  BY DEF RowNetting
<1>2. row.taxable \in Nat /\ row.allowances \in Nat /\ row.deductions \in Nat /\ row.tax \in Nat
  BY <1>1 DEF RowType
<1>3. PICK tax \in Nat : tax = row.tax + row.taxable * rate
  BY <1>2
<1>4. [row EXCEPT !.tax = @ + row.taxable * rate] = [row EXCEPT !.tax = tax]
  BY <1>3
<1> QED BY <1>1, <1>2, <1>4 DEF RowNetting, RowType

LEMMA RulesKeep ==
  ASSUME NEW net, NEW rows \in Accounted(net), NEW rule \in RuleRows
  PROVE  ReliefRule(rule, rows) \in Accounted(net) /\ FlatRule(rule, rows) \in Accounted(net)
<1>1. rule.amount \in Nat /\ rule.rate \in Nat
  BY RowsAssumption
<1>2. Granted(rule) \in Nat
  <2>1. Ulp \in Nat /\ RateUnit \in Nat /\ RateUnit * RateUnit \in Nat
    BY PrecisionAssumption
  <2> QED BY <1>1, <2>1 DEF Granted
<1>3. \A k \in Categories : rows[k] \in RowNetting(net[k])
  BY DEF Accounted
<1>4. ReliefRule(rule, rows) \in Accounted(net)
  <2> DEFINE kind == IF rule.type = "ALLOWANCE" THEN "ALLOWANCE" ELSE "DEDUCTION"
             new == [k \in Categories |->
                       IF k \in Targets(rule) THEN Relief(rows[k], kind, Granted(rule)) ELSE rows[k]]
  <2>1. \A k \in Categories : Relief(rows[k], kind, Granted(rule)) \in RowNetting(net[k])
    BY <1>2, <1>3, ReliefKeeps
  <2>2. new = [k \in Categories |-> new[k]] /\ \A k \in Categories : new[k] \in RowNetting(net[k])
    <3> HIDE DEF kind
    <3> QED BY <1>3, <2>1
  <2>3. ReliefRule(rule, rows) = new
    BY DEF ReliefRule
  <2> HIDE DEF new
  <2> QED BY <2>2, <2>3, AccountedRows
<1>5. FlatRule(rule, rows) \in Accounted(net)
  <2> DEFINE taxed(k) == [rows[k] EXCEPT !.tax = @ + rows[k].taxable * rule.rate]
             new == [k \in Categories |-> IF k \in Targets(rule) THEN taxed(k) ELSE rows[k]]
  <2>1. \A k \in Categories : taxed(k) \in RowNetting(net[k])
    BY <1>1, <1>3, TaxKeeps
  <2>2. new = [k \in Categories |-> new[k]] /\ \A k \in Categories : new[k] \in RowNetting(net[k])
    <3> HIDE DEF taxed
    <3> QED BY <1>3, <2>1
  <2>3. FlatRule(rule, rows) = new
    BY DEF FlatRule
  <2> HIDE DEF new
  <2> QED BY <2>2, <2>3, AccountedRows
<1> QED BY <1>4, <1>5

\* One category's share of an overall relief.
Share(kind, acc, k) ==
  [rows |-> [acc.rows EXCEPT ![k] = Relief(@, kind, acc.left)],
   left |-> acc.left - Least(acc.rows[k].taxable, acc.left)]

LEMMA ShareKeeps ==
  ASSUME NEW net, NEW acc \in [rows : Accounted(net), left : Nat], NEW kind, NEW k \in Categories
  PROVE  Share(kind, acc, k) \in [rows : Accounted(net), left : Nat]
<1>1. acc.rows \in Accounted(net) /\ acc.left \in Nat
  OBVIOUS
<1>2. \A j \in Categories : acc.rows[j] \in RowNetting(net[j])
  BY <1>1 DEF Accounted
<1>3. acc.rows[k].taxable \in Nat
  BY <1>2 DEF RowNetting, RowType
<1>4. acc.left - Least(acc.rows[k].taxable, acc.left) \in Nat
  BY <1>1, <1>3 DEF Least
<1>5. Relief(acc.rows[k], kind, acc.left) \in RowNetting(net[k])
  BY <1>1, <1>2, ReliefKeeps
<1> DEFINE new == [acc.rows EXCEPT ![k] = Relief(@, kind, acc.left)]
<1>6. new \in Accounted(net)
  <2>1. acc.rows = [j \in Categories |-> acc.rows[j]]
    BY <1>1, AccountedRows
  <2>2. new = [j \in Categories |-> new[j]]
    BY <2>1
  <2>3. \A j \in Categories : new[j] = IF j = k THEN Relief(acc.rows[k], kind, acc.left) ELSE acc.rows[j]
    BY <2>1
  <2> HIDE DEF new
  <2> QED BY <1>2, <1>5, <2>2, <2>3, AccountedRows
<1> HIDE DEF new
<1>7. Share(kind, acc, k) = [rows |-> new, left |-> acc.left - Least(acc.rows[k].taxable, acc.left)]
  BY DEF Share, new
<1> QED BY <1>4, <1>6, <1>7

LEMMA FinitelyMany == \A n \in Nat : IsFiniteSet(1..n)
<1> SUFFICES ASSUME NEW n \in Nat
             PROVE  IsFiniteSet(1..n)
  OBVIOUS
<1> QED BY FS_Interval

LEMMA LargestIsLast ==
  ASSUME NEW S \in SUBSET (1..5), S # {}
  PROVE  Max(S) \in S /\ \A i \in S \ {Max(S)} : i < Max(S)
<1> DEFINE less == {p \in S \X S : p[1] < p[2]}
<1>1. IsFiniteSet(S)
  BY FinitelyMany, FS_Subset
<1>2. \A m, n \in S : (<<m, n>> \in less <=> m < n) /\ m \in Int /\ n \in Int
  OBVIOUS
<1>3. Orders(less, S)
  <2> HIDE DEF less
  <2> QED BY <1>2 DEF Orders
<1>4. \E n \in S : \A m \in S \ {n} : <<m, n>> \in less
  <2> HIDE DEF less
  <2> QED BY <1>1, <1>3, LastExists
<1>5. \E n \in S : \A m \in S : n >= m
  <2> HIDE DEF less
  <2> QED BY <1>2, <1>4
<1>6. Max(S) \in S /\ \A m \in S : Max(S) >= m
  BY <1>5 DEF Max
<1>7. \A m, n \in Int : (n >= m /\ m # n) => m < n
  OBVIOUS
<1>8. S \subseteq Int
  OBVIOUS
<1> HIDE DEF less
<1> QED BY <1>6, <1>7, <1>8

LEMMA OrderOfCategories ==
  DOMAIN CategoryOrder = 1..5 /\ \A i \in 1..5 : CategoryOrder[i] \in Categories
<1>1. DOMAIN CategoryOrder = 1..5
  BY DEF CategoryOrder
<1> QED BY <1>1 DEF Categories

\* iter[T] is the rows, and what is left, once the places T have their share.
Shares(kind, start, iter, rows, amount) ==
  /\ iter[{}] = start
  /\ \A T \in SUBSET (1..5) : T # {} =>
       iter[T] = Share(kind, iter[T \ {Max(T)}], CategoryOrder[Max(T)])
  /\ OverallRelief(rows, kind, amount) = iter[1..5].rows

LEMMA OverallUnfolds ==
  ASSUME NEW net, NEW rows \in Accounted(net), NEW kind, NEW amount \in Nat
  PROVE  \E g \in [SUBSET (1..5) -> [rows : Accounted(net), left : Nat]] :
           Shares(kind, [rows |-> rows, left |-> amount], g, rows, amount)
<1> DEFINE S == 1..5
           V == [rows : Accounted(net), left : Nat]
           start == [rows |-> rows, left |-> amount]
           Value(T, iter) == Share(kind, iter[T \ {Max(T)}], CategoryOrder[Max(T)])
           Recurses(iter) == iter = [T \in SUBSET S |-> IF T = {} THEN start ELSE Value(T, iter)]
           pick == [T \in SUBSET S |-> Max(T)]
           step == [p \in S \X V |-> Share(kind, p[2], CategoryOrder[p[1]])]
<1>1. IsFiniteSet(S)
  BY FinitelyMany
<1>2. start \in V
  OBVIOUS
<1>3. \A T \in SUBSET S : T # {} => Max(T) \in T
  BY LargestIsLast
<1>4. \A i \in S, acc \in V : step[<<i, acc>>] = Share(kind, acc, CategoryOrder[i])
                              /\ Share(kind, acc, CategoryOrder[i]) \in V
  BY ShareKeeps, OrderOfCategories
<1>5. \A T \in SUBSET S : pick[T] = Max(T)
  OBVIOUS
<1>6. PICK g \in [SUBSET S -> V] : Folds(g, step, start, pick, S)
  <2> HIDE DEF pick, step, start, S, V
  <2>1. Picks(pick, S)
    BY <1>3, <1>5 DEF Picks
  <2>2. Keeps(step, S, V)
    BY <1>4 DEF Keeps
  <2> QED BY <1>1, <1>2, <2>1, <2>2, FoldExists
<1>7. \A T \in SUBSET S : g[T] = IF T = {} THEN start ELSE Value(T, g)
  <2> SUFFICES ASSUME NEW T \in SUBSET S
               PROVE  g[T] = IF T = {} THEN start ELSE Value(T, g)
    OBVIOUS
  <2> HIDE DEF pick, step, start, V, S
  <2>1. T # {} => Max(T) \in S /\ g[T \ {Max(T)}] \in V
    BY <1>3, <1>6
  <2> QED BY <1>4, <1>5, <1>6, <2>1 DEF Folds, Unfolded
<1>8. Recurses(g)
  <2> HIDE DEF pick, step, start, V, S, Value
  <2> QED BY <1>7
<1>9. ASSUME NEW iter, Recurses(iter)
      PROVE  iter[S] = g[S]
  <2> DEFINE Good == {T \in SUBSET S : iter[T] = g[T]}
  <2>1. ASSUME NEW T \in SUBSET S, \A x \in T : T \ {x} \in Good
        PROVE  T \in Good
    <3>1. iter[T] = IF T = {} THEN start ELSE Value(T, iter)
      BY <1>9
    <3> HIDE DEF start, V, S, step, pick
    <3>2. T # {} => iter[T \ {Max(T)}] = g[T \ {Max(T)}]
      BY <1>3, <2>1
    <3> QED BY <1>7, <3>1, <3>2
  <2>2. Hereditary(Good, S)
    BY <2>1 DEF Hereditary
  <2> HIDE DEF Good, S, V, Recurses
  <2>3. S \in Good
    BY <1>1, <2>2, SubsetInduction
  <2> QED BY <2>3 DEF Good
<1>10. Recurses(CHOOSE iter : Recurses(iter))
  <2> HIDE DEF Recurses
  <2> QED BY <1>8
<1>11. (CHOOSE iter : Recurses(iter))[S] = g[S]
  <2> HIDE DEF Recurses
  <2> QED BY <1>9, <1>10
<1>12. OverallRelief(rows, kind, amount) = (CHOOSE iter : Recurses(iter))[S].rows
  BY OrderOfCategories DEF OverallRelief, FoldLeft, MapThenFoldSet, Share
<1>13. g[{}] = start
  BY <1>7
<1>14. \A T \in SUBSET S : T # {} => g[T] = Value(T, g)
  BY <1>7
<1> HIDE DEF Recurses
<1>15. OverallRelief(rows, kind, amount) = g[S].rows
  BY <1>11, <1>12
<1>16. Shares(kind, start, g, rows, amount)
  <2> HIDE DEF V, step, pick, start
  <2> QED BY <1>13, <1>14, <1>15 DEF Shares
<1> QED BY <1>16

LEMMA OverallReliefKeeps ==
  ASSUME NEW net, NEW rows \in Accounted(net), NEW kind, NEW amount \in Nat
  PROVE  OverallRelief(rows, kind, amount) \in Accounted(net)
<1>1. PICK g \in [SUBSET (1..5) -> [rows : Accounted(net), left : Nat]] :
             Shares(kind, [rows |-> rows, left |-> amount], g, rows, amount)
  BY OverallUnfolds
<1>2. g[1..5] \in [rows : Accounted(net), left : Nat]
  OBVIOUS
<1>3. g[1..5].rows \in Accounted(net)
  BY <1>2
<1> QED BY <1>1, <1>3 DEF Shares

\* The rules of S one after the other, either all flat rates or all reliefs.
Apply(flat, rule, rows) == IF flat THEN FlatRule(rule, rows) ELSE ReliefRule(rule, rows)

ApplyAll(flat, rows, S) ==
  (CHOOSE iter : iter = [T \in SUBSET S |->
     IF T = {} THEN rows ELSE Apply(flat, FirstLast(T), iter[T \ {FirstLast(T)}])])[S]

LEMMA ApplyAllUnfolds ==
  ASSUME NEW net, NEW rows \in Accounted(net), NEW S \in SUBSET RuleRows, IsFiniteSet(S),
         NEW flat \in BOOLEAN
  PROVE  /\ ApplyAll(flat, rows, S) \in Accounted(net)
         /\ S = {} => ApplyAll(flat, rows, S) = rows
         /\ S # {} => ApplyAll(flat, rows, S)
                        = Apply(flat, FirstLast(S), ApplyAll(flat, rows, S \ {FirstLast(S)}))
<1> DEFINE V == Accounted(net)
           Recurses(T, iter) ==
             iter = [R \in SUBSET T |->
                       IF R = {} THEN rows ELSE Apply(flat, FirstLast(R), iter[R \ {FirstLast(R)}])]
           fold(T) == CHOOSE iter : Recurses(T, iter)
           pick == [T \in SUBSET S |-> FirstLast(T)]
           step == [p \in S \X V |-> Apply(flat, p[1], p[2])]
<1>1. \A T \in SUBSET S : IsFiniteSet(T) /\ (T # {} => FirstLast(T) \in T)
  BY FirstLastExists, FS_Subset
<1>2. \A r \in S, v \in V : step[<<r, v>>] = Apply(flat, r, v) /\ Apply(flat, r, v) \in V
  BY RulesKeep DEF Apply
<1>3. \A T \in SUBSET S : pick[T] = FirstLast(T)
  OBVIOUS
<1>4. rows \in V
  OBVIOUS
<1>5. \A T : ApplyAll(flat, rows, T) = fold(T)[T]
  BY DEF ApplyAll
<1>6. ASSUME NEW T \in SUBSET S
      PROVE  Folds(fold(T), step, rows, pick, T) /\ fold(T)[T] \in V /\ Picks(pick, T)
  <2> HIDE DEF V, pick, step
  <2>1. Picks(pick, T)
    BY <1>1, <1>3 DEF Picks
  <2>2. Keeps(step, T, V)
    BY <1>2 DEF Keeps
  <2>3. PICK g \in [SUBSET T -> V] : Folds(g, step, rows, pick, T)
    BY <1>1, <1>4, <2>1, <2>2, FoldExists
  <2>4. \A R \in SUBSET T : g[R] = IF R = {} THEN rows ELSE Apply(flat, FirstLast(R), g[R \ {FirstLast(R)}])
    <3>1. \A R \in SUBSET T :
            R # {} => FirstLast(R) \in S /\ pick[R] = FirstLast(R) /\ R \ {FirstLast(R)} \in SUBSET T
      BY <1>1, <1>3
    <3> QED BY <1>2, <2>3, <3>1 DEF Folds, Unfolded
  <2>5. Recurses(T, g)
    BY <2>4
  <2>6. Recurses(T, fold(T))
    <3> HIDE DEF Recurses
    <3> QED BY <2>5
  <2> HIDE DEF fold
  <2>7. \A R \in SUBSET T :
          fold(T)[R] = IF R = {} THEN rows ELSE Apply(flat, FirstLast(R), fold(T)[R \ {FirstLast(R)}])
    BY <2>6
  <2> HIDE DEF Recurses
  <2> DEFINE Good == {R \in SUBSET T : fold(T)[R] = g[R]}
  <2>8. \A R \in SUBSET T : (\A r \in R : R \ {r} \in Good) => fold(T)[R] = g[R]
    BY <1>1, <2>4, <2>7
  <2>9. \A R \in SUBSET T : fold(T)[R] = g[R]
    <3> SUFFICES ASSUME NEW R \in SUBSET T
                 PROVE  R \in Good
      OBVIOUS
    <3>1. Hereditary(Good, R) /\ IsFiniteSet(R)
      BY <1>1, <2>8 DEF Hereditary
    <3> HIDE DEF Good
    <3> QED BY <3>1, SubsetInduction
  <2> HIDE DEF Good
  <2>10. Folds(fold(T), step, rows, pick, T)
    <3>1. \A R \in SUBSET T : R \ {pick[R]} \in SUBSET T
      OBVIOUS
    <3> QED BY <2>3, <2>9, <3>1 DEF Folds, Unfolded
  <2> QED BY <2>1, <2>3, <2>9, <2>10
<1> HIDE DEF V, fold, pick, step, Recurses
<1>7. S \in SUBSET S
  OBVIOUS
<1>8. ASSUME S # {}
      PROVE  fold(S)[S] = Apply(flat, FirstLast(S), fold(S \ {FirstLast(S)})[S \ {FirstLast(S)}])
  <2> DEFINE T == S \ {FirstLast(S)}
  <2>1. T \in SUBSET S /\ FirstLast(S) \in S /\ pick[S] = FirstLast(S) /\ IsFiniteSet(T)
    BY <1>1, <1>3, <1>7, <1>8
  <2>2. fold(S)[S] = step[<<FirstLast(S), fold(S)[T]>>]
    BY <1>6, <1>7, <1>8, <2>1 DEF Folds, Unfolded
  <2>3. fold(S)[T] = fold(T)[T]
    <3> HIDE DEF T
    <3>1. Folds(fold(S), step, rows, pick, S) /\ Folds(fold(T), step, rows, pick, T) /\ Picks(pick, T)
      BY <1>6, <1>7, <2>1
    <3> QED BY <2>1, <3>1, FoldsAgree
  <2>4. fold(T)[T] \in V
    BY <1>6, <2>1
  <2> QED BY <1>2, <2>1, <2>2, <2>3, <2>4
<1>9. S = {} => fold(S)[S] = rows
  BY <1>6, <1>7 DEF Folds, Unfolded
<1> QED BY <1>5, <1>6, <1>7, <1>8, <1>9 DEF V

LEMMA ApplyAllKeeps ==
  ASSUME NEW net, NEW rows \in Accounted(net), NEW S \in SUBSET RuleRows, IsFiniteSet(S),
         NEW flat \in BOOLEAN
  PROVE  ApplyAll(flat, rows, S) \in Accounted(net)
BY ApplyAllUnfolds

LEMMA RulesAreApplied ==
  ASSUME NEW rows, NEW S
  PROVE  /\ ByPriority(ReliefRule, rows, S) = ApplyAll(FALSE, rows, S)
         /\ ByPriority(FlatRule, rows, S) = ApplyAll(TRUE, rows, S)
<1> DEFINE relief(iter) == [T \in SUBSET S |->
             IF T = {} THEN rows ELSE ReliefRule(FirstLast(T), iter[T \ {FirstLast(T)}])]
           rate(iter) == [T \in SUBSET S |->
             IF T = {} THEN rows ELSE FlatRule(FirstLast(T), iter[T \ {FirstLast(T)}])]
           all(flat, iter) == [T \in SUBSET S |->
             IF T = {} THEN rows ELSE Apply(flat, FirstLast(T), iter[T \ {FirstLast(T)}])]
<1>1. \A iter : relief(iter) = all(FALSE, iter) /\ rate(iter) = all(TRUE, iter)
  BY DEF Apply
<1>2. (CHOOSE iter : iter = relief(iter)) = (CHOOSE iter : iter = all(FALSE, iter))
  <2> HIDE DEF relief, all
  <2> QED BY <1>1, Zenon
<1>3. (CHOOSE iter : iter = rate(iter)) = (CHOOSE iter : iter = all(TRUE, iter))
  <2> HIDE DEF rate, all
  <2> QED BY <1>1, Zenon
<1> QED BY <1>2, <1>3 DEF ByPriority, MapThenFoldSet, ApplyAll

\* The rows once each category has used what it has of its own.
OwnRows(b) ==
  [k \in Categories |->
     Relief(Relief([taxable |-> Net(b, k), allowances |-> 0, deductions |-> 0, tax |-> 0],
                   "ALLOWANCE", Manual(b, "ALLOWANCE", k)),
            "DEDUCTION", Manual(b, "DEDUCTION", k))]

LEMMA ManualUnfolds ==
  ASSUME NEW b, BookOK(b)
  PROVE  /\ OwnRows(b) \in Accounted([k \in Categories |-> Net(b, k)])
         /\ \A k \in Categories : OwnRows(b)[k].allowances = Least(Net(b, k), Manual(b, "ALLOWANCE", k))
         /\ ManualRows(b) = OverallRelief(OverallRelief(OwnRows(b), "ALLOWANCE", Manual(b, "ALLOWANCE", "OVERALL")),
                                          "DEDUCTION", Manual(b, "DEDUCTION", "OVERALL"))
<1> DEFINE net == [k \in Categories |-> Net(b, k)]
           start == [k \in Categories |->
                       [taxable |-> Net(b, k), allowances |-> 0, deductions |-> 0, tax |-> 0]]
           eased == [k \in Categories |-> Relief(start[k], "ALLOWANCE", Manual(b, "ALLOWANCE", k))]
           own == [k \in Categories |-> Relief(eased[k], "DEDUCTION", Manual(b, "DEDUCTION", k))]
<1>1. \A k \in Categories : start[k] \in RowNetting(net[k])
  BY AmountsTyped DEF RowNetting, RowType
<1>2. \A k \in Categories : eased[k] \in RowNetting(net[k])
  <2> HIDE DEF start, net
  <2> QED BY <1>1, AmountsTyped, ReliefKeeps
<1>3. \A k \in Categories : own[k] \in RowNetting(net[k])
  <2> HIDE DEF eased, net
  <2> QED BY <1>2, AmountsTyped, ReliefKeeps
<1>4. own = [k \in Categories |-> own[k]]
  OBVIOUS
<1>5. own = OwnRows(b)
  BY DEF OwnRows
<1>6. ASSUME NEW k \in Categories
      PROVE  own[k].allowances = Least(Net(b, k), Manual(b, "ALLOWANCE", k))
  <2>1. PICK n, m \in Nat : n = Net(b, k) /\ m = Manual(b, "ALLOWANCE", k)
    BY AmountsTyped
  <2>2. PICK used \in Nat : used = Least(n, m)
    BY DEF Least
  <2>3. start[k] = [taxable |-> n, allowances |-> 0, deductions |-> 0, tax |-> 0]
    BY <2>1
  <2>4. eased[k].allowances = used
    <3>1. eased[k] = Relief(start[k], "ALLOWANCE", m)
      BY <2>1
    <3> HIDE DEF eased, start
    <3> QED BY <2>2, <2>3, <3>1 DEF Relief
  <2>5. own[k].allowances = eased[k].allowances
    <3>1. eased[k] \in RowType /\ own[k] = Relief(eased[k], "DEDUCTION", Manual(b, "DEDUCTION", k))
      BY <1>2 DEF RowNetting
    <3> HIDE DEF own, eased
    <3> QED BY <3>1 DEF Relief, RowType
  <2> HIDE DEF own, eased
  <2> QED BY <2>1, <2>2, <2>4, <2>5
<1>7. ManualRows(b) = OverallRelief(OverallRelief(own, "ALLOWANCE", Manual(b, "ALLOWANCE", "OVERALL")),
                                    "DEDUCTION", Manual(b, "DEDUCTION", "OVERALL"))
  BY DEF ManualRows, Net
<1> HIDE DEF own, net, start, eased
<1>8. own \in Accounted(net)
  BY <1>3, <1>4, AccountedRows
<1> QED BY <1>5, <1>6, <1>7, <1>8 DEF net

LEMMA RowsAccounted ==
  ASSUME NEW b, BookOK(b)
  PROVE  Rows(b) \in Accounted([k \in Categories |-> Net(b, k)])
<1> DEFINE net == [k \in Categories |-> Net(b, k)]
<1> HIDE DEF net
<1>1. ManualRows(b) \in Accounted(net)
  BY ManualUnfolds, AmountsTyped, OverallReliefKeeps DEF net
<1>2. \A S \in SUBSET b.rules : S \in SUBSET RuleRows /\ IsFiniteSet(S)
  <2>1. b.rules \in SUBSET RuleRows /\ IsFiniteSet(b.rules)
    BY DEF BookOK, Stored, Tables, RowsOf
  <2> QED BY <2>1, FS_Subset
<1>3. RelievedRows(b) \in Accounted(net)
  <2>1. RelievedRows(b) = ApplyAll(FALSE, ManualRows(b), {r \in b.rules : r.type # "FLAT_RATE"})
    BY RulesAreApplied DEF RelievedRows
  <2>2. {r \in b.rules : r.type # "FLAT_RATE"} \in SUBSET b.rules
    OBVIOUS
  <2> QED BY <1>1, <1>2, <2>1, <2>2, ApplyAllKeeps
<1>4. Rows(b) \in Accounted(net)
  <2>1. Rows(b) = ApplyAll(TRUE, RelievedRows(b), {r \in b.rules : r.type = "FLAT_RATE"})
    BY RulesAreApplied DEF Rows
  <2>2. {r \in b.rules : r.type = "FLAT_RATE"} \in SUBSET b.rules
    OBVIOUS
  <2> QED BY <1>2, <1>3, <2>1, <2>2, ApplyAllKeeps
<1> QED BY <1>4 DEF net

\* The reliefs, whatever they are and in whatever order the rules take effect,
\* take no category below zero and leave nothing of its income unaccounted for.
THEOREM IncomeIsAccountedFor == Spec => []ReductionsAccountedFor
<1>1. BookOK(book) => ReductionsAccountedFor
  <2> SUFFICES ASSUME BookOK(book), NEW k \in Categories
               PROVE  /\ Rows(book)[k].taxable >= 0 /\ Rows(book)[k].tax >= 0
                      /\ Rows(book)[k].taxable + Rows(book)[k].allowances + Rows(book)[k].deductions
                           = NonNegative(Gross(book, k) + Netted(book, k))
    BY DEF ReductionsAccountedFor
  <2>1. Rows(book)[k] \in RowNetting(Net(book, k))
    BY RowsAccounted DEF Accounted
  <2> QED BY <2>1 DEF RowNetting, RowType, Net
<1> QED BY <1>1, Inductive, PTL

-----------------------------------------------------------------------------
(***************************************************************************)
(* An overall relief is spent once, in the order of categories.            *)
(***************************************************************************)
\* What the rows now have used of allowances that they had not before.
Used(before, now) == [k \in Categories |-> now[k].allowances - before[k].allowances]

\* acc is what is left of amount, and the rows, once the categories at the
\* places T have taken their share of an overall allowance.
Taken(before, amount, acc, T) ==
  /\ \A i \in (1..5) \ T : acc.rows[CategoryOrder[i]] = before[CategoryOrder[i]]
  /\ Over(Used(before, acc.rows), Categories) + acc.left = amount
  /\ acc.left > 0 => \A i \in T : acc.rows[CategoryOrder[i]].taxable = 0
  /\ \A i, j \in T : (i < j /\ Used(before, acc.rows)[CategoryOrder[j]] > 0)
                       => acc.rows[CategoryOrder[i]].taxable = 0

LEMMA CategoriesFinite ==
  IsFiniteSet(Categories) /\ \A i, j \in 1..5 : CategoryOrder[i] = CategoryOrder[j] => i = j
<1>1. DOMAIN CategoryOrder = 1..5
  BY DEF CategoryOrder
<1> DEFINE f == [i \in 1..5 |-> CategoryOrder[i]]
<1>2. f \in Surjection(1..5, Categories)
  BY <1>1 DEF Surjection, Categories
<1>3. IsFiniteSet(Categories)
  <2> HIDE DEF f
  <2>1. IsFiniteSet(1..5)
    BY FinitelyMany
  <2> QED BY <1>2, <2>1, FS_Surjection
<1>4. \A i, j \in 1..5 : CategoryOrder[i] = CategoryOrder[j] => i = j
  BY DEF CategoryOrder
<1> QED BY <1>3, <1>4

LEMMA NothingTaken ==
  ASSUME NEW net, NEW rows \in Accounted(net), NEW amount \in Nat
  PROVE  Taken(rows, amount, [rows |-> rows, left |-> amount], {})
<1> DEFINE f == Used(rows, rows)
<1>1. \A k \in Categories : f[k] = 0
  BY DEF Used, Accounted, RowNetting, RowType
<1>2. Over(f, Categories) = 0
  <2> DEFINE Good == {T \in SUBSET Categories : Over(f, T) = 0}
  <2> HIDE DEF f
  <2>1. ASSUME NEW T \in SUBSET Categories, \A x \in T : T \ {x} \in Good
        PROVE  Over(f, T) = 0
    <3>1. IsFiniteSet(T) /\ \A x \in T : f[x] \in Int
      BY <1>1, CategoriesFinite, FS_Subset
    <3>2. CASE T = {}
      BY <3>1, <3>2, SumStep
    <3>3. CASE T # {}
      <4>1. PICK x \in T : TRUE
        BY <3>3
      <4>2. Over(f, T) = f[x] + Over(f, T \ {x})
        BY <3>1, SumStep
      <4>3. Over(f, T \ {x}) = 0 /\ f[x] = 0
        BY <1>1, <2>1
      <4> QED BY <4>2, <4>3
    <3> QED BY <3>2, <3>3
  <2>2. Hereditary(Good, Categories)
    BY <2>1 DEF Hereditary
  <2>3. Categories \in Good
    <3> HIDE DEF Good
    <3> QED BY <2>2, CategoriesFinite, SubsetInduction
  <2> QED BY <2>3
<1> HIDE DEF f
<1> QED BY <1>2 DEF Taken, f

\* The share of one more category, the last of those that have taken theirs.
LEMMA ShareTaken ==
  ASSUME NEW net, NEW before \in Accounted(net), NEW amount \in Nat,
         NEW T \in SUBSET (1..5), NEW n \in 1..5, \A i \in T : i < n,
         NEW acc \in [rows : Accounted(net), left : Nat], Taken(before, amount, acc, T)
  PROVE  Taken(before, amount, Share("ALLOWANCE", acc, CategoryOrder[n]), T \cup {n})
<1> DEFINE k == CategoryOrder[n]
           row == acc.rows[k]
           now == Share("ALLOWANCE", acc, k)
           f == Used(before, acc.rows)
           g == Used(before, now.rows)
<1>1. k \in Categories /\ \A i \in 1..5 : CategoryOrder[i] \in Categories /\ (CategoryOrder[i] = k => i = n)
  BY OrderOfCategories, CategoriesFinite
<1>2. acc.rows \in Accounted(net) /\ now.rows \in Accounted(net) /\ acc.left \in Nat /\ now.left \in Nat
  BY <1>1, ShareKeeps
<1>3. \A j \in Categories : acc.rows[j] \in RowType /\ now.rows[j] \in RowType /\ before[j] \in RowType
  BY <1>2 DEF Accounted, RowNetting
<1>4. PICK left, taxable, allowances \in Nat :
        left = acc.left /\ taxable = row.taxable /\ allowances = row.allowances
  BY <1>1, <1>2, <1>3 DEF RowType
<1>5. PICK used \in Nat : used = Least(taxable, left)
  BY <1>4 DEF Least
<1>6. /\ used <= left /\ used <= taxable /\ (used > 0 => left > 0)
      /\ left - used > 0 => (left > 0 /\ taxable - used = 0)
  BY <1>5 DEF Least
<1>7. now.left = left - used
  BY <1>4, <1>5 DEF Share
<1>8. now.rows = [acc.rows EXCEPT ![k] = Relief(row, "ALLOWANCE", left)]
  BY <1>4 DEF Share
<1>9. \A j \in Categories : now.rows[j] = IF j = k THEN Relief(row, "ALLOWANCE", left) ELSE acc.rows[j]
  <2>1. acc.rows = [j \in Categories |-> acc.rows[j]]
    BY <1>2, AccountedRows
  <2> HIDE DEF now, row
  <2> QED BY <1>8, <2>1
<1>10. Relief(row, "ALLOWANCE", left).taxable = taxable - used
       /\ Relief(row, "ALLOWANCE", left).allowances = allowances + used
  <2>1. row \in RowType
    BY <1>1, <1>3
  <2> HIDE DEF row
  <2>2. Relief(row, "ALLOWANCE", left) = [row EXCEPT !.taxable = @ - used, !.allowances = @ + used]
    BY <1>4, <1>5 DEF Relief
  <2> QED BY <1>4, <2>1, <2>2 DEF RowType
<1>11. row = before[k]
  <2>1. n \notin T
    OBVIOUS
  <2> QED BY <2>1 DEF Taken
<1> HIDE DEF now, row
<1>12. /\ \A j \in Categories : f[j] \in Int /\ g[j] \in Int
       /\ \A j \in Categories \ {k} : g[j] = f[j]
       /\ f[k] = 0 /\ g[k] = used
  <2>1. \A j \in Categories : acc.rows[j].allowances \in Nat /\ now.rows[j].allowances \in Nat
                              /\ before[j].allowances \in Nat
    BY <1>3 DEF RowType
  <2>2. before[k].allowances = allowances /\ acc.rows[k].allowances = allowances
    BY <1>4, <1>11 DEF row
  <2>3. now.rows[k].allowances = allowances + used
    BY <1>1, <1>9, <1>10
  <2> QED BY <1>1, <1>9, <2>1, <2>2, <2>3 DEF Used
<1> HIDE DEF f, g, k
<1>13. Over(g, Categories) + now.left = amount
  <2>1. Over(f, Categories) = f[k] + Over(f, Categories \ {k})
    BY <1>1, <1>12, CategoriesFinite, SumStep
  <2>2. Over(g, Categories) = g[k] + Over(g, Categories \ {k})
    BY <1>1, <1>12, CategoriesFinite, SumStep
  <2>3. Over(g, Categories \ {k}) = Over(f, Categories \ {k})
    BY <1>12, SumSame
  <2>4. PICK rest \in Int : rest = Over(f, Categories \ {k})
    <3>1. IsFiniteSet(Categories \ {k}) /\ \A j \in Categories \ {k} : f[j] \in Int
      BY <1>12, CategoriesFinite, FS_Subset
    <3> QED BY <3>1, SumStep
  <2>5. Over(f, Categories) + left = amount
    BY <1>4 DEF Taken, f
  <2> QED BY <1>4, <1>7, <1>12, <2>1, <2>2, <2>3, <2>4, <2>5
<1>14. \A i \in (1..5) \ (T \cup {n}) : now.rows[CategoryOrder[i]] = before[CategoryOrder[i]]
  <2>1. \A i \in (1..5) \ (T \cup {n}) :
          acc.rows[CategoryOrder[i]] = before[CategoryOrder[i]] /\ CategoryOrder[i] \in Categories \ {k}
    BY <1>1 DEF Taken
  <2> QED BY <1>9, <2>1
<1>15. \A i \in T : CategoryOrder[i] \in Categories \ {k} /\ now.rows[CategoryOrder[i]] = acc.rows[CategoryOrder[i]]
  <2>1. \A i \in T : i \in 1..5 /\ i # n
    OBVIOUS
  <2> QED BY <1>1, <1>9, <2>1
<1>16. left > 0 => \A i \in T : now.rows[CategoryOrder[i]].taxable = 0
  BY <1>4, <1>15 DEF Taken
<1>17. now.left > 0 => \A i \in T \cup {n} : now.rows[CategoryOrder[i]].taxable = 0
  <2>1. now.rows[k].taxable = taxable - used
    BY <1>1, <1>9, <1>10
  <2> QED BY <1>6, <1>7, <1>16, <2>1 DEF k
<1>18. ASSUME NEW i \in T \cup {n}, NEW j \in T \cup {n}, i < j, g[CategoryOrder[j]] > 0
       PROVE  now.rows[CategoryOrder[i]].taxable = 0
  <2>1. i \in T
    BY <1>18
  <2>2. CASE j = n
    BY <1>6, <1>12, <1>16, <1>18, <2>1, <2>2 DEF k
  <2>3. CASE j \in T
    <3>1. f[CategoryOrder[j]] > 0
      BY <1>12, <1>15, <1>18, <2>3
    <3> QED BY <1>15, <1>18, <2>1, <2>3, <3>1 DEF Taken, f
  <2> QED BY <2>2, <2>3
<1> QED BY <1>13, <1>14, <1>17, <1>18 DEF Taken, g, now, k

LEMMA AllowanceTaken ==
  ASSUME NEW net, NEW rows \in Accounted(net), NEW amount \in Nat
  PROVE  \E left \in Nat :
           Taken(rows, amount, [rows |-> OverallRelief(rows, "ALLOWANCE", amount), left |-> left], 1..5)
<1> DEFINE S == 1..5
           V == [rows : Accounted(net), left : Nat]
           start == [rows |-> rows, left |-> amount]
<1>1. PICK g \in [SUBSET S -> V] : Shares("ALLOWANCE", start, g, rows, amount)
  BY OverallUnfolds
<1> DEFINE Good == {T \in SUBSET S : Taken(rows, amount, g[T], T)}
<1>2. ASSUME NEW T \in SUBSET S, \A x \in T : T \ {x} \in Good
      PROVE  Taken(rows, amount, g[T], T)
  <2>1. CASE T = {}
    <3>1. g[T] = start
      BY <1>1, <2>1 DEF Shares
    <3> QED BY <2>1, <3>1, NothingTaken
  <2>2. CASE T # {}
    <3> DEFINE n == Max(T)
               R == T \ {n}
    <3>1. n \in T /\ \A i \in R : i < n
      BY <2>2, LargestIsLast
    <3>2. Taken(rows, amount, g[R], R) /\ g[R] \in V /\ R \in SUBSET S /\ n \in S /\ T = R \cup {n}
      BY <1>2, <3>1
    <3>3. g[T] = Share("ALLOWANCE", g[R], CategoryOrder[n])
      BY <1>1, <2>2 DEF Shares
    <3> HIDE DEF n, R, Good
    <3>4. R \in SUBSET (1..5) /\ n \in 1..5 /\ g[R] \in [rows : Accounted(net), left : Nat]
      BY <3>2
    <3> HIDE DEF S, V, start
    <3>5. Taken(rows, amount, Share("ALLOWANCE", g[R], CategoryOrder[n]), R \cup {n})
      BY <3>1, <3>2, <3>4, ShareTaken
    <3>6. T = R \cup {n}
      BY <3>2
    <3> QED BY <3>3, <3>5, <3>6
  <2> QED BY <2>1, <2>2
<1>3. Hereditary(Good, S)
  BY <1>2 DEF Hereditary
<1>4. S \in Good
  <2> HIDE DEF Good, S
  <2>1. IsFiniteSet(S)
    BY FinitelyMany DEF S
  <2> QED BY <1>3, <2>1, SubsetInduction
<1>5. g[S] \in V /\ Taken(rows, amount, g[S], S) /\ OverallRelief(rows, "ALLOWANCE", amount) = g[S].rows
  BY <1>1, <1>4 DEF Shares
<1>6. g[S] = [rows |-> g[S].rows, left |-> g[S].left] /\ g[S].left \in Nat
  BY <1>5
<1> QED BY <1>5, <1>6

\* A relief by deductions leaves allowances alone and taxes no more.
Eased(before, now) ==
  \A k \in Categories : now[k].allowances = before[k].allowances
                        /\ (before[k].taxable = 0 => now[k].taxable = 0)

LEMMA DeductionEases ==
  ASSUME NEW net, NEW rows \in Accounted(net), NEW amount \in Nat
  PROVE  Eased(rows, OverallRelief(rows, "DEDUCTION", amount))
<1> DEFINE S == 1..5
           V == [rows : Accounted(net), left : Nat]
           start == [rows |-> rows, left |-> amount]
<1>1. PICK g \in [SUBSET S -> V] : Shares("DEDUCTION", start, g, rows, amount)
  BY OverallUnfolds
<1> DEFINE Good == {T \in SUBSET S : Eased(rows, g[T].rows)}
<1>2. ASSUME NEW T \in SUBSET S, \A x \in T : T \ {x} \in Good
      PROVE  Eased(rows, g[T].rows)
  <2>1. CASE T = {}
    BY <1>1, <2>1 DEF Shares, Eased
  <2>2. CASE T # {}
    <3> DEFINE n == Max(T)
               acc == g[T \ {n}]
               k == CategoryOrder[n]
    <3>1. n \in T /\ k \in Categories
      BY <2>2, LargestIsLast, OrderOfCategories
    <3>2. Eased(rows, acc.rows) /\ acc \in V
      BY <1>2, <3>1
    <3>3. g[T] = Share("DEDUCTION", acc, k)
      BY <1>1, <2>2 DEF Shares
    <3> HIDE DEF n, acc, k, Good
    <3>4. acc.rows = [j \in Categories |-> acc.rows[j]] /\ acc.left \in Nat
      BY <3>2, AccountedRows
    <3>5. \A j \in Categories : g[T].rows[j] = IF j = k THEN Relief(acc.rows[k], "DEDUCTION", acc.left) ELSE acc.rows[j]
      BY <3>1, <3>3, <3>4 DEF Share
    <3>6. Relief(acc.rows[k], "DEDUCTION", acc.left).allowances = acc.rows[k].allowances
          /\ (acc.rows[k].taxable = 0 => Relief(acc.rows[k], "DEDUCTION", acc.left).taxable = 0)
      <4>1. acc.rows[k] \in RowType
        BY <3>1, <3>2 DEF Accounted, RowNetting
      <4>2. PICK row \in RowType : row = acc.rows[k]
        BY <4>1
      <4>3. PICK left \in Nat : left = acc.left
        BY <3>4
      <4>4. row.taxable = 0 => Least(row.taxable, left) = 0
        BY <4>3 DEF Least
      <4> QED BY <4>2, <4>3, <4>4 DEF Relief, RowType
    <3> QED BY <3>2, <3>5, <3>6 DEF Eased
  <2> QED BY <2>1, <2>2
<1>3. Hereditary(Good, S)
  BY <1>2 DEF Hereditary
<1>4. S \in Good
  <2> HIDE DEF Good, S
  <2>1. IsFiniteSet(S)
    BY FinitelyMany DEF S
  <2> QED BY <1>3, <2>1, SubsetInduction
<1> QED BY <1>1, <1>4 DEF Shares

\* Whatever is entered, an overall allowance is spent no more than once, and on
\* a category only when nothing before it is left to tax.
THEOREM OverallReliefStaysInOrder == Spec => []OverallReliefInOrder
<1>1. BookOK(book) => OverallReliefInOrder
  <2> SUFFICES ASSUME BookOK(book)
               PROVE  OverallReliefInOrder
    OBVIOUS
  <2> DEFINE net == [k \in Categories |-> Net(book, k)]
             own == OwnRows(book)
             allowance == Manual(book, "ALLOWANCE", "OVERALL")
             first == OverallRelief(own, "ALLOWANCE", allowance)
             rows == ManualRows(book)
             ownUse(k) == Least(NonNegative(Gross(book, k) + Netted(book, k)), Manual(book, "ALLOWANCE", k))
             f == Used(own, first)
  <2>1. allowance \in Nat /\ Manual(book, "DEDUCTION", "OVERALL") \in Nat
    BY AmountsTyped
  <2>2. own \in Accounted(net) /\ first \in Accounted(net)
    BY <2>1, ManualUnfolds, OverallReliefKeeps
  <2>3. PICK left \in Nat : Taken(own, allowance, [rows |-> first, left |-> left], 1..5)
    BY <2>1, <2>2, AllowanceTaken
  <2>4. Eased(first, rows)
    BY <2>1, <2>2, ManualUnfolds, DeductionEases
  <2>5. \A k \in Categories : rows[k].allowances - ownUse(k) = f[k]
    BY <2>4, ManualUnfolds DEF Eased, Used, Net
  <2>6. \A k \in Categories : f[k] \in Int
    BY <2>2 DEF Used, Accounted, RowNetting, RowType
  <2> HIDE DEF own, allowance, first, rows, ownUse, net
  <2>7. SumFunction([k \in Categories |-> rows[k].allowances - ownUse(k)]) <= allowance
    <3>1. [k \in Categories |-> rows[k].allowances - ownUse(k)] = [k \in Categories |-> f[k]]
      BY <2>5
    <3> HIDE DEF f
    <3>2. SumFunction([k \in Categories |-> rows[k].allowances - ownUse(k)]) = Over(f, Categories)
      BY <3>1 DEF Over
    <3>3. PICK total \in Int : total = Over(f, Categories)
      BY <2>6, CategoriesFinite, SumStep
    <3>4. total + left = allowance
      BY <2>3, <3>3 DEF Taken, f
    <3> QED BY <3>2, <3>3, <3>4
  <2>8. ASSUME NEW i \in 1..5, NEW j \in 1..5, i < j,
               rows[CategoryOrder[j]].allowances - ownUse(CategoryOrder[j]) > 0
        PROVE  rows[CategoryOrder[i]].taxable = 0
    <3>1. CategoryOrder[i] \in Categories /\ CategoryOrder[j] \in Categories
      BY OrderOfCategories
    <3>2. f[CategoryOrder[j]] > 0
      BY <2>5, <2>8, <3>1
    <3>3. first[CategoryOrder[i]].taxable = 0
      BY <2>3, <2>8, <3>2 DEF Taken, f
    <3> QED BY <2>4, <3>1, <3>3 DEF Eased
  <2> QED BY <2>7, <2>8, OrderOfCategories DEF OverallReliefInOrder, rows, ownUse, allowance
<1> QED BY <1>1, Inductive, PTL

-----------------------------------------------------------------------------
(***************************************************************************)
(* The sales a replay lists are the sales it reads, and a replay up to an  *)
(* earlier day lists those up to that day.                                 *)
(***************************************************************************)
EventsOf(r) == {r.events[i] : i \in DOMAIN r.events}

\* The last row t leads from the replay r to q: nothing is refused, and a sale
\* adds one event of its id and day.
Follows(q, r, t) ==
  /\ r.ok
  /\ t.kind = "BUY" => EventsOf(q) = EventsOf(r)
  /\ t.kind = "SELL" => \E e : e.id = t.id /\ e.day = t.day /\ EventsOf(q) = EventsOf(r) \cup {e}

LEMMA EventsAppended ==
  ASSUME NEW V, NEW s \in Seq(V), NEW e \in V
  PROVE  {Append(s, e)[i] : i \in DOMAIN Append(s, e)} = {s[i] : i \in DOMAIN s} \cup {e}
<1> DEFINE q == Append(s, e)
<1>1. PICK n \in Nat : n = Len(s) /\ DOMAIN s = 1..n
  OBVIOUS
<1>2. DOMAIN q = 1..(n + 1) /\ q[n + 1] = e /\ \A i \in 1..n : q[i] = s[i]
  BY <1>1
<1>3. \A i : i \in 1..(n + 1) <=> i \in 1..n \/ i = n + 1
  OBVIOUS
<1> HIDE DEF q
<1>4. \A x : x \in {q[i] : i \in DOMAIN q} <=> x \in {s[i] : i \in DOMAIN s} \/ x = e
  BY <1>1, <1>2, <1>3
<1> QED BY <1>4 DEF q

LEMMA StepFollows ==
  ASSUME NEW last, NEW t, Replayed(t, last), NEW r \in ReplayType(last), NEW home,
         GainStep(t, r, home).ok
  PROVE  Follows(GainStep(t, r, home), r, t)
<1> DEFINE pos == PositionIn(r, t.security)
           event == EventOf(t, pos, home)
           q == GainStep(t, r, home)
<1>1. t.security \in Securities /\ pos \in PositionType
  BY PositionsTyped DEF Replayed, Securities
<1>2. pos.quantity \in Nat /\ t.quantity \in Nat /\ t.kind \in {"BUY", "SELL"} /\ r.ok \in BOOLEAN
  BY <1>1 DEF PositionType, Replayed, ReplayType
<1>3. DOMAIN r = {"positions", "events", "ok"} /\ r = [r EXCEPT !.ok = r.ok]
  BY DEF ReplayType
<1>4. r.ok
  <2>1. ~r.ok => q = r
    BY DEF GainStep
  <2> HIDE DEF q
  <2> QED BY <2>1 DEF q
<1>5. CASE t.kind = "BUY"
  <2>1. PICK new : q = [r EXCEPT !.positions = new]
    BY <1>4, <1>5 DEF GainStep
  <2>2. q.events = r.events
    BY <1>3, <2>1
  <2> HIDE DEF q
  <2> QED BY <1>4, <1>5, <2>2 DEF Follows, EventsOf, q
<1>6. CASE t.kind = "SELL" /\ (t.quantity > pos.quantity \/ pos.quantity = 0)
  <2>1. ~(t.quantity <= pos.quantity /\ pos.quantity # 0)
    <3> HIDE DEF pos
    <3> QED BY <1>2, <1>6
  <2>2. q = [r EXCEPT !.ok = FALSE]
    BY <1>4, <1>6, <2>1 DEF GainStep
  <2>3. ~q.ok
    BY <1>3, <2>2
  <2> QED BY <2>3
<1>7. CASE t.kind = "SELL" /\ t.quantity <= pos.quantity /\ pos.quantity # 0
  <2>1. event \in SaleType(last)
    BY <1>1, <1>7, EventTyped
  <2>2. ~(t.quantity > pos.quantity \/ pos.quantity = 0)
    <3> HIDE DEF pos
    <3> QED BY <1>2, <1>7
  <2>3. PICK new : q = [r EXCEPT !.positions = new, !.events = Append(@, event)]
    BY <1>4, <1>7, <2>2 DEF GainStep
  <2>4. event.id = t.id /\ event.day = t.day
    BY DEF EventOf
  <2> HIDE DEF event, q
  <2>5. q.events = Append(r.events, event)
    BY <1>3, <2>3
  <2>6. EventsOf(q) = EventsOf(r) \cup {event}
    <3>1. r.events \in Seq(SaleType(last))
      BY DEF ReplayType
    <3> QED BY <2>1, <2>5, <3>1, EventsAppended DEF EventsOf
  <2> QED BY <1>4, <1>7, <2>4, <2>6 DEF Follows, q
<1> QED
  <2> HIDE DEF pos
  <2> QED BY <1>2, <1>5, <1>6, <1>7

\* One event for each sale, of its id and on its day.
ListsSales(q, S) ==
  \A n, d : (\E e \in EventsOf(q) : e.id = n /\ e.day = d)
              <=> (\E t \in S : t.kind = "SELL" /\ t.id = n /\ t.day = d)

LEMMA SalesListed ==
  ASSUME NEW b, BookOK(b), NEW last, NEW S \in SUBSET b.trades, \A t \in S : Replayed(t, last),
         NEW home, Report(S, home).ok
  PROVE  ListsSales(Report(S, home), S)
<1> DEFINE Good == {T \in SUBSET S : Report(T, home).ok => ListsSales(Report(T, home), T)}
<1>1. ASSUME NEW T \in SUBSET S, \A x \in T : T \ {x} \in Good, Report(T, home).ok
      PROVE  ListsSales(Report(T, home), T)
  <2>1. T \in SUBSET b.trades /\ \A t \in T : Replayed(t, last)
    OBVIOUS
  <2>2. CASE T = {}
    <3>1. Report(T, home) = NoReport
      BY <2>1, <2>2, ReportUnfolds
    <3>2. EventsOf(NoReport) = {}
      BY DEF EventsOf, NoReport
    <3>3. EventsOf(Report(T, home)) = {}
      BY <3>1, <3>2
    <3> HIDE DEF Good
    <3> QED BY <2>2, <3>3 DEF ListsSales
  <2>3. CASE T # {}
    <3> DEFINE t == Latest(T)
               R == T \ {t}
               q == Report(T, home)
               r == Report(R, home)
    <3>1. t \in T /\ Replayed(t, last) /\ R \in SUBSET b.trades /\ \A u \in R : Replayed(u, last)
      BY <2>1, <2>3, LatestExists
    <3>2. q = GainStep(t, r, home)
      BY <2>1, <2>3, ReportUnfolds
    <3>3. r \in ReplayType(last)
      <4> HIDE DEF R, t
      <4> QED BY <3>1, ReportUnfolds
    <3>4. Follows(q, r, t)
      <4> HIDE DEF r, R, t
      <4> QED BY <1>1, <3>1, <3>2, <3>3, StepFollows DEF q
    <3>5. ListsSales(r, R)
      <4>1. R \in Good
        BY <1>1, <3>1
      <4> QED BY <3>4, <4>1 DEF Follows
    <3>6. t.kind \in {"BUY", "SELL"} /\ T = R \cup {t}
      BY <3>1 DEF Replayed
    <3> HIDE DEF q, r, R, t, Good
    <3>7. CASE t.kind = "BUY"
      BY <3>4, <3>5, <3>6, <3>7 DEF ListsSales, Follows, q
    <3>8. CASE t.kind = "SELL"
      <4>1. PICK e : e.id = t.id /\ e.day = t.day /\ EventsOf(q) = EventsOf(r) \cup {e}
        BY <3>4, <3>8 DEF Follows
      <4> SUFFICES ASSUME NEW n, NEW d
                   PROVE  (\E x \in EventsOf(q) : x.id = n /\ x.day = d)
                            <=> (\E x \in T : x.kind = "SELL" /\ x.id = n /\ x.day = d)
        BY DEF ListsSales, q
      <4>2. (\E x \in EventsOf(q) : x.id = n /\ x.day = d)
              <=> (\E x \in EventsOf(r) : x.id = n /\ x.day = d) \/ (t.id = n /\ t.day = d)
        BY <4>1
      <4>3. (\E x \in T : x.kind = "SELL" /\ x.id = n /\ x.day = d)
              <=> (\E x \in R : x.kind = "SELL" /\ x.id = n /\ x.day = d) \/ (t.id = n /\ t.day = d)
        BY <3>6, <3>8
      <4> QED BY <3>5, <4>2, <4>3 DEF ListsSales
    <3> QED BY <3>6, <3>7, <3>8
  <2> QED BY <2>2, <2>3
<1>2. Hereditary(Good, S) /\ IsFiniteSet(S)
  <2>1. IsFiniteSet(b.trades)
    BY DEF BookOK, Stored, Tables
  <2> QED BY <1>1, <2>1, FS_Subset DEF Hereditary
<1>3. S \in Good
  <2> HIDE DEF Good
  <2> QED BY <1>2, SubsetInduction
<1> QED BY <1>3

Through(S, d) == {t \in S : t.day <= d}

\* What was sold by the day d is in the replay of the rows by then.
LEMMA PrefixListed ==
  ASSUME NEW b, BookOK(b), NEW last, NEW S \in SUBSET b.trades, \A t \in S : Replayed(t, last),
         NEW home, Report(S, home).ok, NEW d \in Int
  PROVE  /\ Report(Through(S, d), home).ok
         /\ EventsOf(Report(Through(S, d), home)) = {e \in EventsOf(Report(S, home)) : e.day <= d}
<1> DEFINE Same(T) == /\ Report(Through(T, d), home).ok
                      /\ EventsOf(Report(Through(T, d), home)) = {e \in EventsOf(Report(T, home)) : e.day <= d}
           Good == {T \in SUBSET S : Report(T, home).ok => Same(T)}
<1>1. ASSUME NEW T \in SUBSET S, \A x \in T : T \ {x} \in Good, Report(T, home).ok
      PROVE  Same(T)
  <2>1. T \in SUBSET b.trades /\ (\A t \in T : Replayed(t, last)) /\ \A t \in T : t.day \in Int
    BY TradeTyped
  <2>2. CASE \A t \in T : t.day <= d
    <3>1. Through(T, d) = T
      BY <2>2 DEF Through
    <3>2. Report(T, home) \in ReplayType(d)
      <4>1. \A t \in T : Replayed(t, d)
        BY <2>1, <2>2 DEF Replayed
      <4> QED BY <2>1, <4>1, ReportUnfolds
    <3>3. Report(T, home).events \in Seq(SaleType(d))
      BY <3>2 DEF ReplayType
    <3>4. EventsOf(Report(T, home)) \subseteq SaleType(d)
      BY <3>3 DEF EventsOf
    <3>5. \A e \in EventsOf(Report(T, home)) : e.day <= d
      BY <3>4 DEF SaleType
    <3> HIDE DEF Good
    <3> QED BY <1>1, <3>1, <3>5
  <2>3. CASE \E u \in T : ~(u.day <= d)
    <3> DEFINE t == Latest(T)
               R == T \ {t}
               q == Report(T, home)
               r == Report(R, home)
    <3>1. t \in T /\ Replayed(t, last) /\ R \in SUBSET b.trades /\ (\A u \in R : Replayed(u, last))
          /\ \A u \in R : Before(u, t)
      BY <2>1, <2>3, LatestExists
    <3>2. q = GainStep(t, r, home)
      BY <2>1, <2>3, ReportUnfolds
    <3>3. r \in ReplayType(last)
      <4> HIDE DEF R, t
      <4> QED BY <3>1, ReportUnfolds
    <3>4. Follows(q, r, t)
      <4> HIDE DEF r, R, t
      <4> QED BY <1>1, <3>1, <3>2, <3>3, StepFollows DEF q
    <3>5. Same(R)
      <4>1. R \in Good
        BY <1>1, <3>1
      <4> QED BY <3>4, <4>1 DEF Follows
    <3>6. ~(t.day <= d)
      <4>1. PICK u \in T : ~(u.day <= d)
        BY <2>3
      <4>2. u.day <= t.day /\ u.day \in Int /\ t.day \in Int
        BY <2>1, <3>1, <4>1 DEF Before
      <4> HIDE DEF t
      <4> QED BY <4>1, <4>2
    <3>7. Through(T, d) = Through(R, d)
      BY <3>6 DEF Through
    <3>8. t.kind \in {"BUY", "SELL"}
      BY <3>1 DEF Replayed
    <3>9. {e \in EventsOf(q) : e.day <= d} = {e \in EventsOf(r) : e.day <= d}
      <4> HIDE DEF q, r, R, t, Good, Same
      <4> QED BY <3>4, <3>6, <3>8 DEF Follows
    <3> HIDE DEF R, t, Good
    <3> QED BY <3>5, <3>7, <3>9
  <2> QED BY <2>2, <2>3
<1>2. Hereditary(Good, S) /\ IsFiniteSet(S)
  <2> HIDE DEF Same
  <2>1. IsFiniteSet(b.trades)
    BY DEF BookOK, Stored, Tables
  <2> QED BY <1>1, <2>1, FS_Subset DEF Hereditary
<1>3. S \in Good
  <2> HIDE DEF Good
  <2> QED BY <1>2, SubsetInduction
<1> QED BY <1>3

-----------------------------------------------------------------------------
(***************************************************************************)
(* What a complete summary counts.                                         *)
(***************************************************************************)
LEMMA ProductNotZero ==
  ASSUME NEW m \in Int \ {0}, NEW n \in Int \ {0}
  PROVE  m * n \in Int \ {0}
OBVIOUS

LEMMA ConvertedCounts ==
  ASSUME NEW b, BookOK(b), NEW amount \in Int \ {0}, NEW currency, NEW day,
         RateOn(b, currency, day) # MissingRate
  PROVE  Convert(b, amount, currency, day) # 0
<1>1. PICK rate \in Int \ {0} : rate = RateOn(b, currency, day)
  BY RateTyped DEF MissingRate
<1>2. Ulp \in Int \ {0} /\ RateUnit \in Int \ {0}
  BY PrecisionAssumption
<1>3. amount * Ulp \in Int \ {0}
  BY <1>2, ProductNotZero
<1>4. amount * Ulp * RateUnit \in Int \ {0}
  BY <1>2, <1>3, ProductNotZero
<1>5. amount * Ulp * RateUnit * rate \in Int \ {0}
  BY <1>4, ProductNotZero
<1> QED BY <1>1, <1>5 DEF Convert

LEMMA DividendCounts ==
  ASSUME NEW b, BookOK(b), NEW d \in DividendRows, RateOfDividend(b, d) # MissingRate, d.gross > 0
  PROVE  ConvertDividend(b, d.gross, d) > 0
<1>1. PICK gross, exchange \in Nat : gross = d.gross /\ exchange = d.exchange
  BY RowsAssumption
<1>2. PICK own, rate \in Nat : own = RateOn(b, Home[d.account], d.day)
                               /\ rate = RateOn(b, d.currency, d.day)
  BY RateTyped
<1>3. PICK ulp, unit \in Nat \ {0} : ulp = Ulp /\ unit = RateUnit
  BY PrecisionAssumption
<1>4. exchange * own \in Nat /\ unit * rate \in Nat
  OBVIOUS
<1>5. PICK applied \in Nat : applied = RateOfDividend(b, d)
  BY <1>1, <1>2, <1>3, <1>4 DEF RateOfDividend
<1>6. applied \in Int \ {0} /\ gross \in Int \ {0} /\ ulp \in Int \ {0}
  BY <1>1, <1>5 DEF MissingRate
<1>7. gross * ulp \in Nat /\ gross * ulp \in Int \ {0}
  <2>1. gross * ulp \in Int \ {0}
    BY <1>6, ProductNotZero
  <2> QED BY <2>1
<1>8. gross * ulp * applied \in Nat /\ gross * ulp * applied \in Int \ {0}
  <2>1. gross * ulp * applied \in Int \ {0}
    BY <1>6, <1>7, ProductNotZero
  <2> QED BY <1>7, <2>1
<1>9. ConvertDividend(b, d.gross, d) = gross * ulp * applied
  BY <1>1, <1>3, <1>5 DEF ConvertDividend
<1> QED BY <1>8, <1>9

LEMMA EverySaleIsIn ==
  ASSUME NEW b, BookOK(b), NEW a, RealizedGainEvents(b.trades, a, Year.end, Home[a]).ok
  PROVE  {s.id : s \in SalesIn(b, a, Year)}
           = {t.id : t \in {u \in b.trades : u.account = a /\ u.kind = "SELL" /\ InYear(Year, u.day)}}
<1> DEFINE S == Read(b, a, Year.end)
           q == Report(S, Home[a])
           sold == {u \in b.trades : u.account = a /\ u.kind = "SELL" /\ InYear(Year, u.day)}
<1>1. S \in SUBSET b.trades /\ (\A t \in S : Replayed(t, Year.end))
      /\ RealizedGainEvents(b.trades, a, Year.end, Home[a]) = q
  BY ReplayTyped
<1>2. SalesIn(b, a, Year) = {e \in EventsOf(q) : e.day >= Year.start}
  <2> HIDE DEF q
  <2> QED BY <1>1 DEF SalesIn, EventsOf
<1>3. ListsSales(q, S)
  <2> HIDE DEF S
  <2> QED BY <1>1, SalesListed
<1>4. \A t \in b.trades : t \in S /\ t.kind = "SELL" /\ t.day >= Year.start <=> t \in sold
  <2>1. \A t \in b.trades : t.day \in Int
    BY TradeTyped
  <2> QED BY <2>1, YearAssumption DEF Read, InYear
<1> HIDE DEF S, q, sold
<1>5. \A n : n \in {s.id : s \in SalesIn(b, a, Year)} <=> n \in {t.id : t \in sold}
  <2> SUFFICES ASSUME NEW n
               PROVE  n \in {s.id : s \in SalesIn(b, a, Year)} <=> n \in {t.id : t \in sold}
    OBVIOUS
  <2>1. n \in {s.id : s \in SalesIn(b, a, Year)} <=>
          \E d : d >= Year.start /\ \E e \in EventsOf(q) : e.id = n /\ e.day = d
    BY <1>2
  <2>2. n \in {t.id : t \in sold} <=>
          \E d : d >= Year.start /\ \E t \in S : t.kind = "SELL" /\ t.id = n /\ t.day = d
    <3>1. sold \subseteq b.trades
      BY DEF sold
    <3> QED BY <1>1, <1>4, <3>1
  <2> QED BY <1>3, <2>1, <2>2 DEF ListsSales
<1> QED BY <1>5 DEF sold

\* Interest taken back and tax paid back do not count.
LEMMA TakenBackDoesNotCount ==
  ASSUME NEW b, BookOK(b), NEW e \in b.entries, ~Counts(e)
  PROVE  Summary(Without(b, "entries", e)) = Summary(b)
<1> DEFINE c == Without(b, "entries", e)
<1>1. {"entries", "dividends", "trades", "rates", "items", "rules"} = Tables
  BY DEF Tables
<1>2. Stored(c) /\ \A other \in Tables \ {"entries"} : c[other] = b[other]
  BY <1>1, WithoutStored DEF BookOK
<1>3. c.entries = b.entries \ {e}
  BY <1>1 DEF Without, BookOK, Stored
<1>4. Counted(c.entries) = Counted(b.entries)
  <2> HIDE DEF c
  <2> QED BY <1>3 DEF Counted
<1>5. Agree(b, c)
  <2> HIDE DEF c
  <2> QED BY <1>1, <1>2, <1>4 DEF Agree
<1> HIDE DEF c
<1>6. Summary(b) = Summary(c)
  BY <1>2, <1>5, SameSummary
<1> QED BY <1>6 DEF c

\* A summary that is not marked incomplete counts, at an exchange rate, all
\* interest received, all tax paid, every dividend, every sale and every item,
\* whatever the histories; interest taken back and tax paid back it never does.
THEOREM CompleteAlwaysCountsAll == Spec => []CompleteCountsAll
<1>1. BookOK(book) => CompleteCountsAll
  <2> SUFFICES ASSUME BookOK(book)
               PROVE  CompleteCountsAll
    OBVIOUS
  <2>1. /\ book.entries \subseteq LedgerEntries /\ book.dividends \subseteq DividendRows
        /\ book.items \subseteq ItemRows
    BY DEF BookOK, Stored, Tables, RowsOf
  <2>2. ASSUME ~Incomplete(book), NEW e \in book.entries, InYear(Year, e.day),
               (e.type = "INTEREST" /\ e.amount > 0) \/ (e.type = "TAX" /\ e.amount < 0)
        PROVE  /\ e \in EntriesIn(book, e.type, Year)
               /\ Convert(book, Magnitude(e.amount), e.currency, e.day) > 0
    <3>1. e \in EntriesIn(book, e.type, Year) /\ e.type \in {"INTEREST", "TAX"}
      BY <2>2 DEF EntriesIn, Counts
    <3>2. RateOn(book, e.currency, e.day) # MissingRate
      BY <2>2, <3>1 DEF Incomplete
    <3>3. e \in LedgerEntries
      BY <2>1
    <3>4. Magnitude(e.amount) \in Nat /\ Magnitude(e.amount) \in Int \ {0}
      BY <3>3, RowsAssumption DEF Magnitude
    <3>5. Convert(book, Magnitude(e.amount), e.currency, e.day) # 0
      BY <3>2, <3>4, ConvertedCounts
    <3>6. Convert(book, Magnitude(e.amount), e.currency, e.day) \in Nat
      BY <3>4, ConvertNat
    <3> QED BY <3>1, <3>5, <3>6
  <2>3. ASSUME ~Incomplete(book), NEW d \in DividendsIn(book, Year), d.gross > 0
        PROVE  ConvertDividend(book, d.gross, d) > 0
    <3>1. d \in DividendRows /\ RateOfDividend(book, d) # MissingRate
      BY <2>1, <2>3 DEF Incomplete, DividendsIn
    <3> QED BY <2>3, <3>1, DividendCounts
  <2>4. ASSUME ~Incomplete(book), NEW i \in book.items, i.amount # 0
        PROVE  ItemValue(book, i) # 0
    <3>1. RateOn(book, i.currency, ItemDay(i)) # MissingRate
      BY <2>4 DEF Incomplete
    <3>2. i.amount \in Int \ {0}
      BY <2>1, <2>4, RowsAssumption
    <3> QED BY <3>1, <3>2, ConvertedCounts DEF ItemValue
  <2>5. ASSUME ~Incomplete(book), NEW a \in Accounts
        PROVE  {s.id : s \in SalesIn(book, a, Year)}
                 = {t.id : t \in {u \in book.trades : u.account = a /\ u.kind = "SELL" /\ InYear(Year, u.day)}}
    <3>1. RealizedGainEvents(book.trades, a, Year.end, Home[a]).ok
      BY <2>5 DEF Incomplete
    <3> QED BY <3>1, EverySaleIsIn
  <2>6. ASSUME NEW e \in book.entries,
               (e.type = "INTEREST" /\ e.amount < 0) \/ (e.type = "TAX" /\ e.amount > 0)
        PROVE  Summary(Without(book, "entries", e)) = Summary(book)
    <3>1. e.amount \in Int
      BY <2>1, RowsAssumption
    <3>2. ~Counts(e)
      BY <2>6, <3>1 DEF Counts
    <3> QED BY <3>2, TakenBackDoesNotCount
  <2> QED BY <2>2, <2>3, <2>4, <2>5, <2>6 DEF CompleteCountsAll
<1> QED BY <1>1, Inductive, PTL

-----------------------------------------------------------------------------
(***************************************************************************)
(* A period in two parts.                                                  *)
(***************************************************************************)
Whole == [start |-> Min(Days), end |-> Max(Days)]
UpTo(d) == [start |-> Min(Days), end |-> d]
From(d) == [start |-> d + 1, end |-> Max(Days)]

LEMMA DaysBounded ==
  ASSUME Days # {}
  PROVE  {Min(Days), Max(Days)} \subseteq Days /\ \A d \in Days : Min(Days) <= d /\ d <= Max(Days)
<1> DEFINE later == {p \in Days \X Days : p[1] < p[2]}
           earlier == {p \in Days \X Days : p[2] < p[1]}
<1>1. \A m, n \in Days : (<<m, n>> \in later <=> m < n) /\ (<<m, n>> \in earlier <=> n < m)
                         /\ m \in Int /\ n \in Int
  BY YearAssumption
<1> HIDE DEF later, earlier
<1>2. Orders(later, Days) /\ Orders(earlier, Days)
  BY <1>1 DEF Orders
<1> IsFiniteSet(Days)
  BY YearAssumption
<1>3. PICK n \in Days : \A m \in Days \ {n} : <<m, n>> \in later
  BY <1>2, LastExists
<1>4. PICK k \in Days : \A m \in Days \ {k} : <<m, k>> \in earlier
  BY <1>2, LastExists
<1>5. ASSUME NEW m \in Days
      PROVE  n >= m /\ k <= m
  <2>1. m \in Int /\ n \in Int /\ k \in Int
    BY <1>1
  <2>2. m # n => m < n
    BY <1>1, <1>3
  <2>3. m # k => k < m
    BY <1>1, <1>4
  <2> QED BY <2>1, <2>2, <2>3
<1>6. Max(Days) \in Days /\ \A m \in Days : Max(Days) >= m
  BY <1>5 DEF Max
<1>7. Min(Days) \in Days /\ \A m \in Days : Min(Days) <= m
  BY <1>5 DEF Min
<1>8. \A i, j \in Days : j >= i => i <= j
  BY <1>1
<1> QED BY <1>6, <1>7, <1>8

LEMMA DaySplits ==
  ASSUME NEW d \in Days, NEW day \in Days
  PROVE  /\ InYear(Whole, day) /\ (InYear(UpTo(d), day) <=> day <= d)
         /\ InYear(From(d), day) <=> day >= d + 1
         /\ ~(day <= d /\ day >= d + 1) /\ (day <= d \/ day >= d + 1)
<1>1. Min(Days) <= day /\ day <= Max(Days)
  BY DaysBounded
<1>2. d \in Int /\ day \in Int
  BY YearAssumption
<1> QED BY <1>1, <1>2 DEF InYear, Whole, UpTo, From

\* Rows of any table, summed by year.
LEMMA RowsSplit ==
  ASSUME NEW d \in Days, NEW S, IsFiniteSet(S), \A x \in S : x.day \in Days,
         NEW f, \A x \in S : f[x] \in Int
  PROVE  Over(f, {x \in S : InYear(Whole, x.day)})
           = Over(f, {x \in S : InYear(UpTo(d), x.day)}) + Over(f, {x \in S : InYear(From(d), x.day)})
<1> DEFINE in(y) == {x \in S : InYear(y, x.day)}
           A == in(UpTo(d))
           B == in(From(d))
<1>1. in(Whole) = A \cup B /\ A \cap B = {}
  BY DaySplits
<1>2. IsFiniteSet(A) /\ IsFiniteSet(B) /\ \A x \in A \cup B : f[x] \in Int
  BY FS_Subset
<1> HIDE DEF in, A, B
<1>3. Over(f, A \cup B) = Over(f, A) + Over(f, B)
  BY <1>1, <1>2, SumParts
<1> QED BY <1>1, <1>3 DEF in, A, B

LEMMA EntriesSplit ==
  ASSUME NEW b, BookOK(b), NEW d \in Days, NEW type
  PROVE  EntryTotal(b, type, Whole) = EntryTotal(b, type, UpTo(d)) + EntryTotal(b, type, From(d))
<1> DEFINE S == {e \in b.entries : e.type = type /\ Counts(e)}
           f == [e \in S |-> Convert(b, Magnitude(e.amount), e.currency, e.day)]
           in(y) == {e \in S : InYear(y, e.day)}
<1>1. b.entries \subseteq LedgerEntries /\ IsFiniteSet(b.entries)
  BY DEF BookOK, Stored, Tables, RowsOf
<1>2. IsFiniteSet(S) /\ \A e \in S : e.day \in Days /\ Magnitude(e.amount) \in Int
  BY <1>1, FS_Subset, RowsAssumption DEF Magnitude
<1>3. \A e \in S : f[e] \in Int
  BY <1>2, ConvertTyped
<1>4. \A y : EntryTotal(b, type, y) = Over(f, in(y))
  <2> SUFFICES ASSUME NEW y
               PROVE  EntryTotal(b, type, y) = Over(f, in(y))
    OBVIOUS
  <2>1. EntriesIn(b, type, y) = in(y)
    BY DEF EntriesIn
  <2>2. [e \in in(y) |-> f[e]] = [e \in in(y) |-> Convert(b, Magnitude(e.amount), e.currency, e.day)]
    OBVIOUS
  <2> HIDE DEF in, f
  <2> QED BY <2>1, <2>2 DEF EntryTotal, Over
<1> HIDE DEF S, f
<1>5. Over(f, in(Whole)) = Over(f, in(UpTo(d))) + Over(f, in(From(d)))
  BY <1>2, <1>3, RowsSplit
<1> HIDE DEF in
<1> QED BY <1>4, <1>5

LEMMA DividendsSplit ==
  ASSUME NEW b, BookOK(b), NEW d \in Days
  PROVE  GrossDividends(b, Whole) = GrossDividends(b, UpTo(d)) + GrossDividends(b, From(d))
<1> DEFINE S == b.dividends
           f == [e \in S |-> ConvertDividend(b, e.gross, e)]
           in(y) == {e \in S : InYear(y, e.day)}
<1>1. S \subseteq DividendRows /\ IsFiniteSet(S)
  BY DEF BookOK, Stored, Tables, RowsOf
<1>2. \A e \in S : e.day \in Days
  BY <1>1, RowsAssumption
<1>3. \A e \in S : f[e] \in Int
  BY <1>1, DividendTyped
<1>4. \A y : GrossDividends(b, y) = Over(f, in(y))
  <2> SUFFICES ASSUME NEW y
               PROVE  GrossDividends(b, y) = Over(f, in(y))
    OBVIOUS
  <2>1. DividendsIn(b, y) = in(y)
    BY DEF DividendsIn
  <2>2. [e \in in(y) |-> f[e]] = [e \in in(y) |-> ConvertDividend(b, e.gross, e)]
    OBVIOUS
  <2> HIDE DEF in, f
  <2> QED BY <2>1, <2>2 DEF GrossDividends, Over
<1> HIDE DEF S, f
<1>5. Over(f, in(Whole)) = Over(f, in(UpTo(d))) + Over(f, in(From(d)))
  BY <1>1, <1>2, <1>3, RowsSplit
<1> HIDE DEF in
<1> QED BY <1>4, <1>5

\* The cost of a sale carries over: the replay up to the day d lists it as the
\* replay up to the last day does.
LEMMA SalesSplit ==
  ASSUME NEW b, BookOK(b), NEW d \in Days, NEW a,
         RealizedGainEvents(b.trades, a, Max(Days), Home[a]).ok
  PROVE  \E S : /\ IsFiniteSet(S) /\ S \subseteq SaleType(Max(Days))
                /\ SalesIn(b, a, Whole) = {s \in S : InYear(Whole, s.day)}
                /\ SalesIn(b, a, UpTo(d)) = {s \in S : InYear(UpTo(d), s.day)}
                /\ SalesIn(b, a, From(d)) = {s \in S : InYear(From(d), s.day)}
<1> DEFINE last == Max(Days)
           all == Read(b, a, last)
           part == Read(b, a, d)
           q == Report(all, Home[a])
           r == Report(part, Home[a])
           S == EventsOf(q)
<1>1. /\ all \in SUBSET b.trades /\ (\A t \in all : Replayed(t, last)) /\ q \in ReplayType(last)
      /\ RealizedGainEvents(b.trades, a, last, Home[a]) = q
      /\ RealizedGainEvents(b.trades, a, d, Home[a]) = r
  BY ReplayTyped
<1>2. part = Through(all, d)
  <2>1. \A t \in b.trades : t.day \in Days
    BY TradeTyped
  <2>2. \A t \in b.trades : t.day <= last
    BY <2>1, DaysBounded
  <2> QED BY <2>2 DEF Read, Through
<1>3. d \in Int
  BY YearAssumption
<1> HIDE DEF all, part, last
<1>4. r.ok /\ EventsOf(r) = {e \in S : e.day <= d}
  BY <1>1, <1>2, <1>3, PrefixListed DEF last
<1>5. SalesIn(b, a, Whole) = {s \in S : s.day >= Min(Days)}
  <2> HIDE DEF q
  <2> QED BY <1>1 DEF SalesIn, EventsOf, Whole, last
<1>6. SalesIn(b, a, From(d)) = {s \in S : s.day >= d + 1}
  <2> HIDE DEF q
  <2> QED BY <1>1 DEF SalesIn, EventsOf, From, last
<1>7. SalesIn(b, a, UpTo(d)) = {s \in EventsOf(r) : s.day >= Min(Days)}
  <2> HIDE DEF r
  <2> QED BY <1>1, <1>4 DEF SalesIn, EventsOf, UpTo
<1>8. S \subseteq SaleType(last)
  <2>1. q.events \in Seq(SaleType(last))
    BY <1>1 DEF ReplayType
  <2> HIDE DEF q
  <2> QED BY <2>1 DEF EventsOf
<1> HIDE DEF S, q, r
<1>9. \A s \in S : s.day \in Days /\ s.day >= Min(Days)
  <2>1. \A s \in S : s.day \in Days
    BY <1>8 DEF SaleType
  <2>2. \A day \in Days : day >= Min(Days)
    <3>1. \A day \in Days : Min(Days) <= day /\ day \in Int /\ Min(Days) \in Int
      BY DaysBounded, YearAssumption
    <3> QED BY <3>1
  <2> QED BY <2>1, <2>2
<1>10. SalesIn(b, a, Whole) = S
  BY <1>5, <1>9
<1>11. IsFiniteSet(S)
  BY <1>10, SalesTyped
<1>12. SalesIn(b, a, Whole) = {s \in S : InYear(Whole, s.day)}
  BY <1>9, <1>10, DaySplits
<1>13. SalesIn(b, a, UpTo(d)) = {s \in S : InYear(UpTo(d), s.day)}
  BY <1>4, <1>7, <1>9, DaySplits
<1>14. SalesIn(b, a, From(d)) = {s \in S : InYear(From(d), s.day)}
  BY <1>6, <1>9, DaySplits
<1> QED BY <1>8, <1>11, <1>12, <1>13, <1>14 DEF last

LEMMA GainsOfSplit ==
  ASSUME NEW b, BookOK(b), NEW d \in Days, NEW a,
         RealizedGainEvents(b.trades, a, Max(Days), Home[a]).ok
  PROVE  /\ GainsOf(b, a, Whole) = GainsOf(b, a, UpTo(d)) + GainsOf(b, a, From(d))
         /\ LossesOf(b, a, Whole) = LossesOf(b, a, UpTo(d)) + LossesOf(b, a, From(d))
<1>1. PICK S : /\ IsFiniteSet(S) /\ S \subseteq SaleType(Max(Days))
               /\ SalesIn(b, a, Whole) = {s \in S : InYear(Whole, s.day)}
               /\ SalesIn(b, a, UpTo(d)) = {s \in S : InYear(UpTo(d), s.day)}
               /\ SalesIn(b, a, From(d)) = {s \in S : InYear(From(d), s.day)}
  BY SalesSplit
<1> DEFINE f == [s \in S |-> NonNegative(GainOf(b, s, a))]
           g == [s \in S |-> Least(GainOf(b, s, a), 0)]
           in(y) == {s \in S : InYear(y, s.day)}
<1>2. \A s \in S : s.day \in Days
  BY <1>1 DEF SaleType
<1>3. \A s \in S : f[s] \in Int /\ g[s] \in Int
  <2> SUFFICES ASSUME NEW s \in S
               PROVE  f[s] \in Int /\ g[s] \in Int
    OBVIOUS
  <2>1. s.gainBase \in Int
    BY <1>1 DEF SaleType
  <2>2. PICK rate \in Nat : rate = RateOn(b, Home[a], s.day)
    BY RateTyped
  <2>3. GainOf(b, s, a) \in Int
    BY <2>1, <2>2 DEF GainOf
  <2> QED BY <2>3 DEF NonNegative, Least
<1>4. \A y : SalesIn(b, a, y) = in(y) => GainsOf(b, a, y) = Over(f, in(y)) /\ LossesOf(b, a, y) = Over(g, in(y))
  <2> SUFFICES ASSUME NEW y, SalesIn(b, a, y) = in(y)
               PROVE  GainsOf(b, a, y) = Over(f, in(y)) /\ LossesOf(b, a, y) = Over(g, in(y))
    OBVIOUS
  <2>1. [s \in in(y) |-> f[s]] = [s \in in(y) |-> NonNegative(GainOf(b, s, a))]
    OBVIOUS
  <2>2. [s \in in(y) |-> g[s]] = [s \in in(y) |-> Least(GainOf(b, s, a), 0)]
    OBVIOUS
  <2> HIDE DEF in, f, g
  <2> QED BY <2>1, <2>2 DEF GainsOf, LossesOf, Over
<1> HIDE DEF f, g
<1>5. Over(f, in(Whole)) = Over(f, in(UpTo(d))) + Over(f, in(From(d)))
  BY <1>1, <1>2, <1>3, RowsSplit
<1>6. Over(g, in(Whole)) = Over(g, in(UpTo(d))) + Over(g, in(From(d)))
  BY <1>1, <1>2, <1>3, RowsSplit
<1>7. SalesIn(b, a, Whole) = in(Whole) /\ SalesIn(b, a, UpTo(d)) = in(UpTo(d)) /\ SalesIn(b, a, From(d)) = in(From(d))
  BY <1>1
<1> HIDE DEF in
<1> QED BY <1>4, <1>5, <1>6, <1>7

LEMMA GainsSplit ==
  ASSUME NEW b, BookOK(b), NEW d \in Days,
         \A a \in Accounts : RealizedGainEvents(b.trades, a, Max(Days), Home[a]).ok
  PROVE  /\ Gains(b, Whole) = Gains(b, UpTo(d)) + Gains(b, From(d))
         /\ Losses(b, Whole) = Losses(b, UpTo(d)) + Losses(b, From(d))
<1> DEFINE gains(y) == [a \in Accounts |-> GainsOf(b, a, y)]
           losses(y) == [a \in Accounts |-> LossesOf(b, a, y)]
<1>1. \A a \in Accounts : /\ GainsOf(b, a, Whole) = GainsOf(b, a, UpTo(d)) + GainsOf(b, a, From(d))
                          /\ LossesOf(b, a, Whole) = LossesOf(b, a, UpTo(d)) + LossesOf(b, a, From(d))
  BY GainsOfSplit
<1>2. \A y : \A a \in Accounts : gains(y)[a] \in Int /\ losses(y)[a] \in Int
  BY GainsOfTyped
<1>3. \A a \in Accounts : /\ gains(Whole)[a] = gains(UpTo(d))[a] + gains(From(d))[a]
                          /\ losses(Whole)[a] = losses(UpTo(d))[a] + losses(From(d))[a]
  BY <1>1
<1>4. \A y : Gains(b, y) = Over(gains(y), Accounts) /\ Losses(b, y) = Over(losses(y), Accounts)
  <2> SUFFICES ASSUME NEW y
               PROVE  Gains(b, y) = Over(gains(y), Accounts) /\ Losses(b, y) = Over(losses(y), Accounts)
    OBVIOUS
  <2>1. [a \in Accounts |-> gains(y)[a]] = gains(y) /\ [a \in Accounts |-> losses(y)[a]] = losses(y)
    OBVIOUS
  <2>2. Gains(b, y) = SumFunction(gains(y)) /\ Losses(b, y) = SumFunction(losses(y))
    BY DEF Gains, Losses
  <2> HIDE DEF gains, losses
  <2> QED BY <2>1, <2>2 DEF Over
<1> HIDE DEF gains, losses
<1>5. Over(gains(Whole), Accounts) = Over(gains(UpTo(d)), Accounts) + Over(gains(From(d)), Accounts)
  BY <1>2, <1>3, YearAssumption, SumPlus
<1>6. Over(losses(Whole), Accounts) = Over(losses(UpTo(d)), Accounts) + Over(losses(From(d)), Accounts)
  BY <1>2, <1>3, YearAssumption, SumPlus
<1> QED BY <1>4, <1>5, <1>6

\* Income, losses and payments of a period are those of its two parts, wherever
\* it is cut, whatever was posted and however long ago a sale's shares were bought.
THEOREM YearsAlwaysSplitFacts == Spec => []YearsSplitFacts
<1>1. BookOK(book) => YearsSplitFacts
  <2> SUFFICES ASSUME BookOK(book), NEW d \in Days,
                      \A a \in Accounts : RealizedGainEvents(book.trades, a, Max(Days), Home[a]).ok
               PROVE  /\ \A c \in Categories :
                           Income(book, c, Whole) = Income(book, c, UpTo(d)) + Income(book, c, From(d))
                      /\ Losses(book, Whole) = Losses(book, UpTo(d)) + Losses(book, From(d))
                      /\ EntryTotal(book, "TAX", Whole)
                           = EntryTotal(book, "TAX", UpTo(d)) + EntryTotal(book, "TAX", From(d))
    BY DEF YearsSplitFacts, Whole, UpTo, From
  <2>1. \A type : EntryTotal(book, type, Whole) = EntryTotal(book, type, UpTo(d)) + EntryTotal(book, type, From(d))
    BY EntriesSplit
  <2>2. GrossDividends(book, Whole) = GrossDividends(book, UpTo(d)) + GrossDividends(book, From(d))
    BY DividendsSplit
  <2>3. /\ Gains(book, Whole) = Gains(book, UpTo(d)) + Gains(book, From(d))
        /\ Losses(book, Whole) = Losses(book, UpTo(d)) + Losses(book, From(d))
    BY GainsSplit
  <2>4. \A c \in Categories :
          Income(book, c, Whole) = Income(book, c, UpTo(d)) + Income(book, c, From(d))
    BY <2>1, <2>2, <2>3 DEF Income
  <2> QED BY <2>1, <2>3, <2>4
<1> QED BY <1>1, Inductive, PTL

-----------------------------------------------------------------------------
(***************************************************************************)
(* Estimates compared.  A category that has less to tax before a step has  *)
(* less to tax, and less tax, after it.                                    *)
(***************************************************************************)
NoMore(row, other) == row.taxable <= other.taxable /\ row.tax <= other.tax

Below(rows, others) == \A k \in Categories : NoMore(rows[k], others[k])

LEMMA ReliefLowers ==
  ASSUME NEW row \in RowType, NEW other \in RowType, NoMore(row, other), NEW kind,
         NEW amount \in Nat, NEW less \in Nat, less <= amount
  PROVE  /\ NoMore(Relief(row, kind, amount), Relief(other, kind, less))
         /\ NoMore(Relief(row, kind, amount), other)
<1>1. PICK m, n, tax, otherTax \in Nat :
        m = row.taxable /\ n = other.taxable /\ tax = row.tax /\ otherTax = other.tax
  BY DEF RowType
<1>2. m <= n /\ tax <= otherTax
  BY <1>1 DEF NoMore
<1>3. PICK used, spent \in Nat : used = Least(m, amount) /\ spent = Least(n, less)
  BY DEF Least
<1>4. m - used <= n - spent /\ m - used <= n
  BY <1>2, <1>3 DEF Least
<1>5. Relief(row, kind, amount).taxable = m - used /\ Relief(row, kind, amount).tax = tax
  BY <1>1, <1>3 DEF Relief, RowType
<1>6. Relief(other, kind, less).taxable = n - spent /\ Relief(other, kind, less).tax = otherTax
  BY <1>1, <1>3 DEF Relief, RowType
<1> QED BY <1>1, <1>2, <1>4, <1>5, <1>6 DEF NoMore

LEMMA ProductGrows ==
  ASSUME NEW m \in Nat, NEW n \in Nat, m <= n, NEW k \in Nat
  PROVE  m * k <= n * k
<1>1. PICK d \in Nat : n = m + d
  <2>1. n - m \in Nat /\ n = m + (n - m)
    OBVIOUS
  <2> QED BY <2>1
<1>2. n * k = m * k + d * k /\ m * k \in Nat /\ d * k \in Nat
  BY <1>1
<1> QED BY <1>2

LEMMA RuleLowers ==
  ASSUME NEW net, NEW rows \in Accounted(net), NEW otherNet, NEW others \in Accounted(otherNet),
         Below(rows, others), NEW rule \in RuleRows
  PROVE  /\ Below(ReliefRule(rule, rows), ReliefRule(rule, others))
         /\ Below(ReliefRule(rule, rows), others)
         /\ Below(FlatRule(rule, rows), FlatRule(rule, others))
<1>1. rule.amount \in Nat /\ rule.rate \in Nat
  BY RowsAssumption
<1>2. Granted(rule) \in Nat
  <2>1. Ulp \in Nat /\ RateUnit \in Nat /\ RateUnit * RateUnit \in Nat
    BY PrecisionAssumption
  <2> QED BY <1>1, <2>1 DEF Granted
<1> SUFFICES ASSUME NEW k \in Categories
             PROVE  /\ NoMore(ReliefRule(rule, rows)[k], ReliefRule(rule, others)[k])
                    /\ NoMore(ReliefRule(rule, rows)[k], others[k])
                    /\ NoMore(FlatRule(rule, rows)[k], FlatRule(rule, others)[k])
  BY DEF Below
<1>3. rows[k] \in RowType /\ others[k] \in RowType /\ NoMore(rows[k], others[k])
  BY DEF Accounted, RowNetting, Below
<1> DEFINE kind == IF rule.type = "ALLOWANCE" THEN "ALLOWANCE" ELSE "DEDUCTION"
           Reliefs(rs) == IF k \in Targets(rule) THEN Relief(rs[k], kind, Granted(rule)) ELSE rs[k]
           AtRate(row) == [row EXCEPT !.tax = @ + row.taxable * rule.rate]
           Rates(rs) == IF k \in Targets(rule) THEN AtRate(rs[k]) ELSE rs[k]
<1>4. \A rs : ReliefRule(rule, rs)[k] = Reliefs(rs)
  BY DEF ReliefRule
<1>5. \A rs : FlatRule(rule, rs)[k] = Rates(rs)
  BY DEF FlatRule
<1>6. /\ NoMore(Relief(rows[k], kind, Granted(rule)), Relief(others[k], kind, Granted(rule)))
      /\ NoMore(Relief(rows[k], kind, Granted(rule)), others[k])
  <2> HIDE DEF kind
  <2>1. Granted(rule) <= Granted(rule)
    BY <1>2
  <2> QED BY <1>2, <1>3, <2>1, ReliefLowers
<1>7. NoMore(AtRate(rows[k]), AtRate(others[k]))
  <2>1. PICK m, n, tax, otherTax, rate \in Nat :
          /\ m = rows[k].taxable /\ n = others[k].taxable /\ rate = rule.rate
          /\ tax = rows[k].tax /\ otherTax = others[k].tax
    BY <1>1, <1>3 DEF RowType
  <2>2. m <= n /\ tax <= otherTax
    BY <1>3, <2>1 DEF NoMore
  <2>3. PICK p, q \in Nat : p = m * rate /\ q = n * rate /\ p <= q
    <3>1. m * rate \in Nat /\ n * rate \in Nat
      OBVIOUS
    <3> QED BY <2>2, <3>1, ProductGrows
  <2>4. AtRate(rows[k]).taxable = m /\ AtRate(rows[k]).tax = tax + p
    BY <1>3, <2>1, <2>3 DEF RowType
  <2>5. AtRate(others[k]).taxable = n /\ AtRate(others[k]).tax = otherTax + q
    BY <1>3, <2>1, <2>3 DEF RowType
  <2> HIDE DEF AtRate
  <2> QED BY <2>2, <2>3, <2>4, <2>5 DEF NoMore
<1> HIDE DEF kind, AtRate
<1> QED BY <1>3, <1>4, <1>5, <1>6, <1>7

LEMMA FirstLastOfPart ==
  ASSUME NEW S \in SUBSET RuleRows, IsFiniteSet(S), NEW T \in SUBSET S, FirstLast(S) \in T
  PROVE  FirstLast(T) = FirstLast(S)
<1>1. S # {} /\ T # {} /\ IsFiniteSet(T)
  BY FS_Subset
<1>2. \A s \in S \ {FirstLast(S)} :
        s.priority < FirstLast(S).priority \/ (s.priority = FirstLast(S).priority /\ s.id < FirstLast(S).id)
  BY <1>1, FirstLastExists
<1>3. FirstLast(T) \in T /\ \A s \in T \ {FirstLast(T)} :
        s.priority < FirstLast(T).priority \/ (s.priority = FirstLast(T).priority /\ s.id < FirstLast(T).id)
  BY <1>1, FirstLastExists
<1>4. \A r \in S : r.id \in Int /\ r.priority \in Int
  BY RowsAssumption
<1>5. FirstLast(S) \in S /\ FirstLast(T) \in S
  BY <1>3
<1> QED BY <1>2, <1>3, <1>4, <1>5

\* A part of the rules; more of them only if they are reliefs.
LEMMA RulesLower ==
  ASSUME NEW net, NEW rows \in Accounted(net), NEW otherNet, NEW others \in Accounted(otherNet),
         Below(rows, others), NEW S \in SUBSET RuleRows, IsFiniteSet(S), NEW R \in SUBSET S,
         NEW flat \in BOOLEAN, flat => R = S
  PROVE  Below(ApplyAll(flat, rows, S), ApplyAll(flat, others, R))
<1> DEFINE Good == {T \in SUBSET S : Below(ApplyAll(flat, rows, T), ApplyAll(flat, others, T \cap R))}
<1>1. ASSUME NEW T \in SUBSET S, \A x \in T : T \ {x} \in Good
      PROVE  Below(ApplyAll(flat, rows, T), ApplyAll(flat, others, T \cap R))
  <2>1. T \in SUBSET RuleRows /\ IsFiniteSet(T) /\ T \cap R \in SUBSET RuleRows /\ IsFiniteSet(T \cap R)
    BY FS_Subset
  <2>2. CASE T = {}
    <3>1. T \cap R = {}
      BY <2>2
    <3>2. ApplyAll(flat, rows, T) = rows
      BY <2>1, <2>2, ApplyAllUnfolds
    <3>3. ApplyAll(flat, others, T \cap R) = others
      BY <2>1, <3>1, ApplyAllUnfolds
    <3> QED BY <3>2, <3>3
  <2>3. CASE T # {}
    <3> DEFINE m == FirstLast(T)
               before == ApplyAll(flat, rows, T \ {m})
               after == ApplyAll(flat, others, (T \ {m}) \cap R)
    <3>1. m \in T
      BY <2>1, <2>3, FirstLastExists
    <3>2. Below(before, after)
      BY <1>1, <3>1
    <3>3. /\ T \ {m} \in SUBSET RuleRows /\ IsFiniteSet(T \ {m})
          /\ (T \ {m}) \cap R \in SUBSET RuleRows /\ IsFiniteSet((T \ {m}) \cap R)
      BY <2>1, FS_Subset
    <3>4. before \in Accounted(net)
      BY <3>3, ApplyAllUnfolds
    <3>5. after \in Accounted(otherNet)
      BY <3>3, ApplyAllUnfolds
    <3>6. ApplyAll(flat, rows, T) = Apply(flat, m, before)
      BY <2>1, <2>3, ApplyAllUnfolds
    <3>7. m \in RuleRows
      BY <2>1, <3>1
    <3>8. CASE m \in R
      <4>1. m \in T \cap R /\ T \cap R \in SUBSET T
        BY <3>1, <3>8
      <4>2. FirstLast(T \cap R) = m
        BY <2>1, <4>1, FirstLastOfPart
      <4>3. (T \cap R) \ {m} = (T \ {m}) \cap R /\ T \cap R # {}
        BY <4>1
      <4>4. ApplyAll(flat, others, T \cap R)
              = Apply(flat, FirstLast(T \cap R), ApplyAll(flat, others, (T \cap R) \ {FirstLast(T \cap R)}))
        <5> DEFINE part == T \cap R
        <5>1. part \in SUBSET RuleRows /\ IsFiniteSet(part) /\ part # {}
          BY <2>1, <4>3
        <5> HIDE DEF part
        <5>2. ApplyAll(flat, others, part)
                = Apply(flat, FirstLast(part), ApplyAll(flat, others, part \ {FirstLast(part)}))
          BY <5>1, ApplyAllUnfolds
        <5> QED BY <5>2 DEF part
      <4>5. ApplyAll(flat, others, T \cap R) = Apply(flat, m, after)
        BY <4>2, <4>3, <4>4
      <4> HIDE DEF m, before, after, Good
      <4>6. Below(Apply(flat, m, before), Apply(flat, m, after))
        BY <3>2, <3>4, <3>5, <3>7, RuleLowers DEF Apply
      <4> QED BY <3>6, <4>5, <4>6
    <3>9. CASE m \notin R
      <4>1. ~flat
        BY <3>1, <3>9
      <4>2. T \cap R = (T \ {m}) \cap R
        BY <3>9
      <4>3. ApplyAll(flat, others, T \cap R) = after
        BY <4>2
      <4> HIDE DEF m, before, after, Good
      <4>4. Below(Apply(flat, m, before), after)
        BY <3>2, <3>4, <3>5, <3>7, <4>1, RuleLowers DEF Apply
      <4> QED BY <3>6, <4>3, <4>4
    <3> QED BY <3>8, <3>9
  <2> QED BY <2>2, <2>3
<1>2. Hereditary(Good, S)
  BY <1>1 DEF Hereditary
<1>3. S \in Good
  <2> HIDE DEF Good
  <2> QED BY <1>2, SubsetInduction
<1>4. S \cap R = R
  OBVIOUS
<1> QED BY <1>3, <1>4

\* Less to tax and more to spend on it leave less to tax and more to spend.
LEMMA OverallLowers ==
  ASSUME NEW net, NEW rows \in Accounted(net), NEW otherNet, NEW others \in Accounted(otherNet),
         Below(rows, others), NEW kind, NEW amount \in Nat, NEW less \in Nat, less <= amount
  PROVE  Below(OverallRelief(rows, kind, amount), OverallRelief(others, kind, less))
<1> DEFINE S == 1..5
           V == [rows : Accounted(net), left : Nat]
           W == [rows : Accounted(otherNet), left : Nat]
           start == [rows |-> rows, left |-> amount]
           otherStart == [rows |-> others, left |-> less]
<1>1. PICK g \in [SUBSET S -> V] : Shares(kind, start, g, rows, amount)
  BY OverallUnfolds
<1>2. PICK h \in [SUBSET S -> W] : Shares(kind, otherStart, h, others, less)
  BY OverallUnfolds
<1> DEFINE Good == {T \in SUBSET S : Below(g[T].rows, h[T].rows) /\ h[T].left <= g[T].left}
<1>3. ASSUME NEW T \in SUBSET S, \A x \in T : T \ {x} \in Good
      PROVE  Below(g[T].rows, h[T].rows) /\ h[T].left <= g[T].left
  <2>1. CASE T = {}
    <3>1. g[T] = start /\ h[T] = otherStart
      BY <1>1, <1>2, <2>1 DEF Shares
    <3> QED BY <3>1
  <2>2. CASE T # {}
    <3> DEFINE n == Max(T)
               acc == g[T \ {n}]
               other == h[T \ {n}]
               k == CategoryOrder[n]
    <3>1. n \in T /\ k \in Categories
      BY <2>2, LargestIsLast, OrderOfCategories
    <3>2. Below(acc.rows, other.rows) /\ other.left <= acc.left /\ acc \in V /\ other \in W
      BY <1>3, <3>1
    <3>3. g[T] = Share(kind, acc, k) /\ h[T] = Share(kind, other, k)
      BY <1>1, <1>2, <2>2 DEF Shares
    <3> HIDE DEF n, acc, other, k, Good
    <3>4. PICK left, fewer \in Nat : left = acc.left /\ fewer = other.left
      BY <3>2
    <3>5. acc.rows[k] \in RowType /\ other.rows[k] \in RowType /\ NoMore(acc.rows[k], other.rows[k])
      BY <3>1, <3>2 DEF Accounted, RowNetting, Below
    <3>6. /\ acc.rows = [j \in Categories |-> acc.rows[j]]
          /\ other.rows = [j \in Categories |-> other.rows[j]]
      BY <3>2, AccountedRows
    <3>7. \A j \in Categories :
            /\ g[T].rows[j] = IF j = k THEN Relief(acc.rows[k], kind, left) ELSE acc.rows[j]
            /\ h[T].rows[j] = IF j = k THEN Relief(other.rows[k], kind, fewer) ELSE other.rows[j]
      BY <3>1, <3>3, <3>4, <3>6 DEF Share
    <3>8. NoMore(Relief(acc.rows[k], kind, left), Relief(other.rows[k], kind, fewer))
      <4>1. fewer <= left
        BY <3>2, <3>4
      <4> QED BY <3>5, <4>1, ReliefLowers
    <3>9. Below(g[T].rows, h[T].rows)
      <4>1. \A j \in Categories : NoMore(acc.rows[j], other.rows[j])
        BY <3>2 DEF Below
      <4> QED BY <3>7, <3>8, <4>1 DEF Below
    <3>10. h[T].left <= g[T].left
      <4>1. PICK m, p \in Nat : m = acc.rows[k].taxable /\ p = other.rows[k].taxable
        BY <3>5 DEF RowType
      <4>2. m <= p
        BY <3>5, <4>1 DEF NoMore
      <4>3. g[T].left = left - Least(m, left) /\ h[T].left = fewer - Least(p, fewer)
        BY <3>3, <3>4, <4>1 DEF Share
      <4>4. fewer <= left
        BY <3>2, <3>4
      <4> QED BY <4>2, <4>3, <4>4 DEF Least
    <3> QED BY <3>9, <3>10
  <2> QED BY <2>1, <2>2
<1>4. Hereditary(Good, S)
  BY <1>3 DEF Hereditary
<1>5. S \in Good
  <2> HIDE DEF Good, S
  <2>1. IsFiniteSet(S)
    BY FinitelyMany DEF S
  <2> QED BY <1>4, <2>1, SubsetInduction
<1> QED BY <1>1, <1>2, <1>5 DEF Shares

\* Sums of larger numbers, and of more of them.
LEMMA SumLarger ==
  ASSUME NEW S, IsFiniteSet(S), NEW f, NEW g,
         \A x \in S : f[x] \in Int /\ g[x] \in Int /\ f[x] <= g[x]
  PROVE  Over(f, S) \in Int /\ Over(g, S) \in Int /\ Over(f, S) <= Over(g, S)
<1> DEFINE d == [x \in S |-> g[x] - f[x]]
<1>1. \A x \in S : d[x] \in Nat /\ d[x] \in Int /\ g[x] = f[x] + d[x]
  OBVIOUS
<1> HIDE DEF d
<1>2. Over(f, S) \in Int /\ Over(g, S) \in Int
  BY SumStep
<1>3. Over(d, S) \in Nat
  BY <1>1, SumNatural
<1>4. Over(g, S) = Over(f, S) + Over(d, S)
  BY <1>1, SumPlus
<1> QED BY <1>2, <1>3, <1>4

LEMMA SumGrows ==
  ASSUME NEW T, IsFiniteSet(T), NEW S \in SUBSET T, NEW f, \A x \in T : f[x] \in Int,
         \A x \in T \ S : f[x] \in Nat
  PROVE  Over(f, S) \in Int /\ Over(f, T) \in Int /\ Over(f, S) <= Over(f, T)
<1> DEFINE more == T \ S
<1>1. IsFiniteSet(S) /\ IsFiniteSet(more) /\ S \cap more = {} /\ S \cup more = T
  BY FS_Subset
<1>2. \A x \in more : f[x] \in Nat
  OBVIOUS
<1> HIDE DEF more
<1>3. Over(f, T) = Over(f, S) + Over(f, more)
  <2>1. Over(f, S \cup more) = Over(f, S) + Over(f, more)
    BY <1>1, SumParts
  <2> QED BY <1>1, <2>1
<1>4. Over(f, more) \in Nat
  BY <1>1, <1>2, SumNatural
<1>5. Over(f, S) \in Int
  BY <1>1, SumStep
<1>6. \A m, n, p : m \in Int /\ p \in Nat /\ n = m + p => n \in Int /\ m <= n
  OBVIOUS
<1> QED BY <1>3, <1>4, <1>5, <1>6

Reliefs(b) == {r \in b.rules : r.type # "FLAT_RATE"}
Flats(b) == {r \in b.rules : r.type = "FLAT_RATE"}

\* b has less to tax than c, and more to spend on it.
LessTaxable(b, c) ==
  /\ \A k \in Categories : Net(b, k) <= Net(c, k)
  /\ \A kind, k : Manual(c, kind, k) <= Manual(b, kind, k)
  /\ Reliefs(c) \subseteq Reliefs(b) /\ Flats(b) = Flats(c)

LEMMA OwnRowsLower ==
  ASSUME NEW b, BookOK(b), NEW c, BookOK(c), LessTaxable(b, c)
  PROVE  Below(OwnRows(b), OwnRows(c))
<1> SUFFICES ASSUME NEW k \in Categories
             PROVE  NoMore(OwnRows(b)[k], OwnRows(c)[k])
  BY DEF Below
<1> DEFINE start(x) == [taxable |-> Net(x, k), allowances |-> 0, deductions |-> 0, tax |-> 0]
           eased(x) == Relief(start(x), "ALLOWANCE", Manual(x, "ALLOWANCE", k))
<1>1. \A kind : /\ Manual(b, kind, k) \in Nat /\ Manual(c, kind, k) \in Nat
                /\ Manual(c, kind, k) <= Manual(b, kind, k)
  BY AmountsTyped DEF LessTaxable
<1>2. Net(b, k) \in Nat /\ Net(c, k) \in Nat /\ Net(b, k) <= Net(c, k)
  BY AmountsTyped DEF LessTaxable
<1>3. NoMore(start(b), start(c)) /\ start(b) \in RowNetting(Net(b, k)) /\ start(c) \in RowNetting(Net(c, k))
  BY <1>2 DEF NoMore, RowNetting, RowType
<1>4. /\ OwnRows(b)[k] = Relief(eased(b), "DEDUCTION", Manual(b, "DEDUCTION", k))
      /\ OwnRows(c)[k] = Relief(eased(c), "DEDUCTION", Manual(c, "DEDUCTION", k))
  BY DEF OwnRows
<1> HIDE DEF start
<1>5. eased(b) \in RowNetting(Net(b, k)) /\ eased(c) \in RowNetting(Net(c, k))
  BY <1>1, <1>3, ReliefKeeps
<1>6. NoMore(eased(b), eased(c))
  <2>1. start(b) \in RowType /\ start(c) \in RowType
    BY <1>3 DEF RowNetting
  <2> QED BY <1>1, <1>3, <2>1, ReliefLowers
<1> HIDE DEF eased
<1>7. eased(b) \in RowType /\ eased(c) \in RowType
  BY <1>5 DEF RowNetting
<1> QED BY <1>1, <1>4, <1>6, <1>7, ReliefLowers

LEMMA ManualRowsLower ==
  ASSUME NEW b, BookOK(b), NEW c, BookOK(c), LessTaxable(b, c)
  PROVE  /\ ManualRows(b) \in Accounted([k \in Categories |-> Net(b, k)])
         /\ ManualRows(c) \in Accounted([k \in Categories |-> Net(c, k)])
         /\ Below(ManualRows(b), ManualRows(c))
<1> DEFINE net == [k \in Categories |-> Net(b, k)]
           otherNet == [k \in Categories |-> Net(c, k)]
           eased(x) == OverallRelief(OwnRows(x), "ALLOWANCE", Manual(x, "ALLOWANCE", "OVERALL"))
<1>1. \A kind : /\ Manual(b, kind, "OVERALL") \in Nat /\ Manual(c, kind, "OVERALL") \in Nat
                /\ Manual(c, kind, "OVERALL") <= Manual(b, kind, "OVERALL")
  BY AmountsTyped DEF LessTaxable
<1>2. /\ OwnRows(b) \in Accounted(net)
      /\ ManualRows(b) = OverallRelief(eased(b), "DEDUCTION", Manual(b, "DEDUCTION", "OVERALL"))
  BY ManualUnfolds
<1>3. /\ OwnRows(c) \in Accounted(otherNet)
      /\ ManualRows(c) = OverallRelief(eased(c), "DEDUCTION", Manual(c, "DEDUCTION", "OVERALL"))
  BY ManualUnfolds
<1>4. Below(OwnRows(b), OwnRows(c))
  BY OwnRowsLower
<1> HIDE DEF net, otherNet
<1>5. eased(b) \in Accounted(net) /\ eased(c) \in Accounted(otherNet)
  BY <1>1, <1>2, <1>3, OverallReliefKeeps
<1>6. Below(eased(b), eased(c))
  BY <1>1, <1>2, <1>3, <1>4, OverallLowers
<1> HIDE DEF eased
<1>7. ManualRows(b) \in Accounted(net) /\ ManualRows(c) \in Accounted(otherNet)
  BY <1>1, <1>2, <1>3, <1>5, OverallReliefKeeps
<1>8. Below(ManualRows(b), ManualRows(c))
  BY <1>1, <1>2, <1>3, <1>5, <1>6, OverallLowers
<1> QED BY <1>7, <1>8 DEF net, otherNet

LEMMA RowsLower ==
  ASSUME NEW b, BookOK(b), NEW c, BookOK(c), LessTaxable(b, c)
  PROVE  Below(Rows(b), Rows(c))
<1> DEFINE net == [k \in Categories |-> Net(b, k)]
           otherNet == [k \in Categories |-> Net(c, k)]
<1>1. /\ ManualRows(b) \in Accounted(net) /\ ManualRows(c) \in Accounted(otherNet)
      /\ Below(ManualRows(b), ManualRows(c))
  BY ManualRowsLower
<1> HIDE DEF net, otherNet
<1>2. ASSUME NEW x, BookOK(x)
      PROVE  /\ Reliefs(x) \in SUBSET RuleRows /\ IsFiniteSet(Reliefs(x))
             /\ Flats(x) \in SUBSET RuleRows /\ IsFiniteSet(Flats(x))
             /\ RelievedRows(x) = ApplyAll(FALSE, ManualRows(x), Reliefs(x))
             /\ Rows(x) = ApplyAll(TRUE, RelievedRows(x), Flats(x))
  <2>1. x.rules \in SUBSET RuleRows /\ IsFiniteSet(x.rules)
    BY <1>2 DEF BookOK, Stored, Tables, RowsOf
  <2>2. RelievedRows(x) = ApplyAll(FALSE, ManualRows(x), Reliefs(x))
    BY RulesAreApplied DEF RelievedRows, Reliefs
  <2>3. Rows(x) = ApplyAll(TRUE, RelievedRows(x), Flats(x))
    BY RulesAreApplied DEF Rows, Flats
  <2>4. Reliefs(x) \in SUBSET x.rules /\ Flats(x) \in SUBSET x.rules
    BY DEF Reliefs, Flats
  <2> QED BY <2>1, <2>2, <2>3, <2>4, FS_Subset
<1>3. Reliefs(c) \in SUBSET Reliefs(b) /\ Flats(b) = Flats(c) /\ Flats(b) \in SUBSET Flats(b)
  BY DEF LessTaxable
<1>4. FALSE \in BOOLEAN /\ TRUE \in BOOLEAN
  OBVIOUS
<1>5. /\ Reliefs(b) \in SUBSET RuleRows /\ IsFiniteSet(Reliefs(b))
      /\ Reliefs(c) \in SUBSET RuleRows /\ IsFiniteSet(Reliefs(c))
      /\ Flats(b) \in SUBSET RuleRows /\ IsFiniteSet(Flats(b))
  BY <1>2
<1>6. RelievedRows(b) \in Accounted(net) /\ RelievedRows(c) \in Accounted(otherNet)
  BY <1>1, <1>2, <1>4, <1>5, ApplyAllKeeps
<1>7. Below(RelievedRows(b), RelievedRows(c))
  <2>1. Below(ApplyAll(FALSE, ManualRows(b), Reliefs(b)), ApplyAll(FALSE, ManualRows(c), Reliefs(c)))
    BY <1>1, <1>3, <1>4, <1>5, RulesLower
  <2> QED BY <1>2, <2>1
<1>8. Below(ApplyAll(TRUE, RelievedRows(b), Flats(b)), ApplyAll(TRUE, RelievedRows(c), Flats(b)))
  BY <1>3, <1>4, <1>5, <1>6, <1>7, RulesLower
<1> QED BY <1>2, <1>3, <1>8

LEMMA LessTax ==
  ASSUME NEW b, BookOK(b), NEW c, BookOK(c), LessTaxable(b, c)
  PROVE  EstimatedTax(b) \in Int /\ EstimatedTax(c) \in Int /\ EstimatedTax(b) <= EstimatedTax(c)
<1> DEFINE f == [k \in Categories |-> Rows(b)[k].tax]
           g == [k \in Categories |-> Rows(c)[k].tax]
<1>1. \A k \in Categories : Rows(b)[k] \in RowType /\ Rows(c)[k] \in RowType
  BY RowsAccounted DEF Accounted
<1>2. Below(Rows(b), Rows(c))
  BY RowsLower
<1>3. \A k \in Categories : f[k] \in Int /\ g[k] \in Int /\ f[k] <= g[k]
  BY <1>1, <1>2 DEF Below, NoMore, RowType
<1>4. EstimatedTax(b) = SumFunction(f) /\ EstimatedTax(c) = SumFunction(g)
  BY DEF EstimatedTax
<1>5. f = [k \in Categories |-> f[k]] /\ g = [k \in Categories |-> g[k]]
  OBVIOUS
<1> HIDE DEF f, g
<1>6. EstimatedTax(b) = Over(f, Categories) /\ EstimatedTax(c) = Over(g, Categories)
  BY <1>4, <1>5 DEF Over
<1> QED BY <1>3, <1>6, CategoriesFinite, SumLarger

-----------------------------------------------------------------------------
(***************************************************************************)
(* Books compared: a row more of one table.                                *)
(***************************************************************************)
LEMMA WithOK ==
  ASSUME NEW b, BookOK(b), NEW table \in Tables \ {"trades", "rates"}, NEW row \in RowsOf[table]
  PROVE  /\ BookOK(With(b, table, row)) /\ With(b, table, row)[table] = b[table] \cup {row}
         /\ \A other \in Tables \ {table} : With(b, table, row)[other] = b[other]
<1>1. {"trades", "rates"} \subseteq Tables
  BY DEF Tables
<1> QED BY <1>1, WithStored DEF BookOK, TradesDistinct, RatesDistinct

\* A figure depends on the rates and on one table.
LEMMA SameTables ==
  ASSUME NEW b, NEW c, b.rates = c.rates
  PROVE  /\ \A currency, day : RateOn(b, currency, day) = RateOn(c, currency, day)
         /\ b.entries = c.entries => \A type : EntryTotal(b, type, Year) = EntryTotal(c, type, Year)
         /\ b.dividends = c.dividends => GrossDividends(b, Year) = GrossDividends(c, Year)
         /\ b.trades = c.trades => Gains(b, Year) = Gains(c, Year) /\ Losses(b, Year) = Losses(c, Year)
         /\ \A S : SizeOf(b, S) = SizeOf(c, S) /\ ValueOf(b, S) = ValueOf(c, S)
<1>1. \A currency, day : RateOn(b, currency, day) = RateOn(c, currency, day)
  BY DEF RateOn
<1>2. \A amount, currency, day : Convert(b, amount, currency, day) = Convert(c, amount, currency, day)
  BY <1>1 DEF Convert
<1>3. ASSUME b.entries = c.entries, NEW type
      PROVE  EntryTotal(b, type, Year) = EntryTotal(c, type, Year)
  <2>1. EntriesIn(b, type, Year) = EntriesIn(c, type, Year)
    BY <1>3 DEF EntriesIn
  <2>2. [e \in EntriesIn(b, type, Year) |-> Convert(b, Magnitude(e.amount), e.currency, e.day)]
          = [e \in EntriesIn(c, type, Year) |-> Convert(c, Magnitude(e.amount), e.currency, e.day)]
    BY <1>2, <2>1
  <2> QED BY <2>2 DEF EntryTotal
<1>4. ASSUME b.dividends = c.dividends
      PROVE  GrossDividends(b, Year) = GrossDividends(c, Year)
  <2>1. DividendsIn(b, Year) = DividendsIn(c, Year)
    BY <1>4 DEF DividendsIn
  <2>2. \A d : ConvertDividend(b, d.gross, d) = ConvertDividend(c, d.gross, d)
    <3>1. \A d : RateOfDividend(b, d) = RateOfDividend(c, d)
      BY <1>1 DEF RateOfDividend
    <3> QED BY <3>1 DEF ConvertDividend
  <2>3. [d \in DividendsIn(b, Year) |-> ConvertDividend(b, d.gross, d)]
          = [d \in DividendsIn(c, Year) |-> ConvertDividend(c, d.gross, d)]
    BY <2>1, <2>2
  <2> QED BY <2>3 DEF GrossDividends
<1>5. ASSUME b.trades = c.trades
      PROVE  Gains(b, Year) = Gains(c, Year) /\ Losses(b, Year) = Losses(c, Year)
  <2>1. \A a : SalesIn(b, a, Year) = SalesIn(c, a, Year)
    BY <1>5 DEF SalesIn
  <2>2. \A s, a : GainOf(b, s, a) = GainOf(c, s, a)
    BY <1>1 DEF GainOf
  <2>3. ASSUME NEW a
        PROVE  GainsOf(b, a, Year) = GainsOf(c, a, Year) /\ LossesOf(b, a, Year) = LossesOf(c, a, Year)
    <3>1. [s \in SalesIn(b, a, Year) |-> NonNegative(GainOf(b, s, a))]
            = [s \in SalesIn(c, a, Year) |-> NonNegative(GainOf(c, s, a))]
      BY <2>1, <2>2
    <3>2. [s \in SalesIn(b, a, Year) |-> Least(GainOf(b, s, a), 0)]
            = [s \in SalesIn(c, a, Year) |-> Least(GainOf(c, s, a), 0)]
      BY <2>1, <2>2
    <3> QED BY <3>1, <3>2 DEF GainsOf, LossesOf
  <2>4. /\ [a \in Accounts |-> GainsOf(b, a, Year)] = [a \in Accounts |-> GainsOf(c, a, Year)]
        /\ [a \in Accounts |-> LossesOf(b, a, Year)] = [a \in Accounts |-> LossesOf(c, a, Year)]
    BY <2>3
  <2> QED BY <2>4 DEF Gains, Losses
<1>6. ASSUME NEW S
      PROVE  SizeOf(b, S) = SizeOf(c, S) /\ ValueOf(b, S) = ValueOf(c, S)
  <2>1. \A i : ItemValue(b, i) = ItemValue(c, i)
    BY <1>2 DEF ItemValue
  <2>2. /\ [i \in S |-> Magnitude(ItemValue(b, i))] = [i \in S |-> Magnitude(ItemValue(c, i))]
        /\ [i \in S |-> ItemValue(b, i)] = [i \in S |-> ItemValue(c, i)]
    BY <2>1
  <2> QED BY <2>2 DEF SizeOf, ValueOf
<1> QED BY <1>1, <1>3, <1>4, <1>5, <1>6

\* What the user entered counts the same in two books that have it.
LEMMA SameEntered ==
  ASSUME NEW b, NEW c, b.rates = c.rates, b.items = c.items
  PROVE  /\ \A k : Adjustments(b, k) = Adjustments(c, k)
         /\ \A k : ValueOf(b, Adjustments(b, k)) = ValueOf(c, Adjustments(c, k))
         /\ \A k : SizeOf(b, Adjustments(b, k)) = SizeOf(c, Adjustments(c, k))
         /\ \A kind, k : Manual(b, kind, k) = Manual(c, kind, k)
<1>1. \A k : Adjustments(b, k) = Adjustments(c, k)
  BY DEF Adjustments
<1>2. \A S : SizeOf(b, S) = SizeOf(c, S) /\ ValueOf(b, S) = ValueOf(c, S)
  BY SameTables
<1>3. ASSUME NEW kind, NEW k
      PROVE  Manual(b, kind, k) = Manual(c, kind, k)
  <2> DEFINE own(x) == {i \in x.items : i.table = kind /\ i.category = k}
                       \cup {i \in Adjustments(x, kind) : Target(i) = k}
  <2>1. own(b) = own(c)
    BY <1>1
  <2>2. Manual(b, kind, k) = SizeOf(b, own(b)) /\ Manual(c, kind, k) = SizeOf(c, own(c))
    BY DEF Manual
  <2> HIDE DEF own
  <2> QED BY <1>2, <2>1, <2>2
<1> QED BY <1>1, <1>2, <1>3

LEMMA NetGrows ==
  ASSUME NEW b, BookOK(b), NEW c, BookOK(c), NEW k,
         Income(b, k, Year) <= Income(c, k, Year), Netted(b, k) = Netted(c, k),
         ValueOf(b, Adjustments(b, k)) = ValueOf(c, Adjustments(c, k))
  PROVE  Net(b, k) <= Net(c, k)
<1>1. PICK earned, more, adjusted, netted \in Int :
        /\ earned = Income(b, k, Year) /\ more = Income(c, k, Year)
        /\ adjusted = ValueOf(b, Adjustments(b, k)) /\ netted = Netted(b, k)
  BY IncomeTyped
<1>2. Gross(b, k) = earned + adjusted /\ Gross(c, k) = more + adjusted
  BY <1>1 DEF Gross
<1>3. earned <= more
  BY <1>1
<1>4. Net(b, k) = NonNegative(earned + adjusted + netted)
      /\ Net(c, k) = NonNegative(more + adjusted + netted)
  BY <1>1, <1>2 DEF Net
<1> QED BY <1>3, <1>4 DEF NonNegative

\* More income of one kind, all else equal.
LEMMA MoreIncome ==
  ASSUME NEW b, BookOK(b), NEW c, BookOK(c), b.rates = c.rates, b.trades = c.trades,
         b.items = c.items, b.rules = c.rules,
         EntryTotal(b, "INTEREST", Year) <= EntryTotal(c, "INTEREST", Year),
         GrossDividends(b, Year) <= GrossDividends(c, Year)
  PROVE  LessTaxable(b, c)
<1>1. Gains(b, Year) = Gains(c, Year) /\ Losses(b, Year) = Losses(c, Year) /\ Gains(b, Year) \in Int
  BY SameTables, GainsTyped
<1>2. \A k : Income(b, k, Year) <= Income(c, k, Year)
  <2>1. Gains(b, Year) <= Gains(c, Year)
    BY <1>1
  <2>2. 0 <= 0
    OBVIOUS
  <2> QED BY <2>1, <2>2 DEF Income
<1>3. \A k : ValueOf(b, Adjustments(b, k)) = ValueOf(c, Adjustments(c, k))
             /\ SizeOf(b, Adjustments(b, k)) = SizeOf(c, Adjustments(c, k))
  BY SameEntered
<1>4. \A k : Netted(b, k) = Netted(c, k)
  BY <1>1, <1>3 DEF Netted
<1>5. \A k : Net(b, k) <= Net(c, k)
  BY <1>2, <1>3, <1>4, NetGrows
<1>6. \A kind, k : Manual(c, kind, k) <= Manual(b, kind, k)
  <2>1. \A kind, k : Manual(c, kind, k) = Manual(b, kind, k) /\ Manual(b, kind, k) \in Nat
    BY SameEntered, AmountsTyped
  <2>2. \A n \in Nat : n <= n
    OBVIOUS
  <2> QED BY <2>1, <2>2
<1>7. Reliefs(c) = Reliefs(b) /\ Flats(c) = Flats(b)
  BY DEF Reliefs, Flats
<1> QED BY <1>5, <1>6, <1>7 DEF LessTaxable

LEMMA InterestGrows ==
  ASSUME NEW b, BookOK(b), NEW e \in LedgerEntries, e.type = "INTEREST"
  PROVE  BookOK(With(b, "entries", e)) /\ LessTaxable(b, With(b, "entries", e))
<1> DEFINE c == With(b, "entries", e)
           S == EntriesIn(b, "INTEREST", Year)
           T == EntriesIn(c, "INTEREST", Year)
           f == [x \in T |-> Convert(c, Magnitude(x.amount), x.currency, x.day)]
<1>1. /\ BookOK(c) /\ c.entries = b.entries \cup {e} /\ c.rates = b.rates /\ c.trades = b.trades
      /\ c.items = b.items /\ c.rules = b.rules /\ c.dividends = b.dividends
  <2>1. "entries" \in Tables \ {"trades", "rates"} /\ e \in RowsOf["entries"]
        /\ {"rates", "trades", "items", "rules", "dividends"} \subseteq Tables \ {"entries"}
    BY DEF Tables, RowsOf
  <2> HIDE DEF c
  <2>2. /\ BookOK(With(b, "entries", e)) /\ With(b, "entries", e)["entries"] = b["entries"] \cup {e}
        /\ \A other \in Tables \ {"entries"} : With(b, "entries", e)[other] = b[other]
    BY <2>1, WithOK
  <2> QED BY <2>1, <2>2 DEF c
<1> HIDE DEF c
<1>2. c.entries \subseteq LedgerEntries /\ IsFiniteSet(c.entries)
  BY <1>1 DEF BookOK, Stored, Tables, RowsOf
<1>3. IsFiniteSet(T) /\ T \subseteq LedgerEntries
  BY <1>2, FS_Subset DEF EntriesIn
<1>4. S \in SUBSET T /\ T \ S \subseteq {e}
  BY <1>1 DEF EntriesIn
<1>5. EntryTotal(b, "INTEREST", Year) = Over(f, S)
  <2>1. \A x : Convert(b, Magnitude(x.amount), x.currency, x.day) = Convert(c, Magnitude(x.amount), x.currency, x.day)
    <3>1. \A currency, day : RateOn(b, currency, day) = RateOn(c, currency, day)
      BY <1>1 DEF RateOn
    <3> QED BY <3>1 DEF Convert
  <2>2. [x \in S |-> Convert(b, Magnitude(x.amount), x.currency, x.day)] = [x \in S |-> f[x]]
    <3> HIDE DEF S, T
    <3> QED BY <1>4, <2>1
  <2> QED BY <2>2 DEF EntryTotal, Over
<1>6. EntryTotal(c, "INTEREST", Year) = Over(f, T)
  <2>1. [x \in T |-> Convert(c, Magnitude(x.amount), x.currency, x.day)] = [x \in T |-> f[x]]
    OBVIOUS
  <2> QED BY <2>1 DEF EntryTotal, Over
<1> HIDE DEF S, T
<1>7. \A x \in T : f[x] \in Int
  <2>1. \A x \in T : Magnitude(x.amount) \in Int
    BY <1>3, RowsAssumption DEF Magnitude
  <2> QED BY <1>1, <2>1, ConvertTyped
<1>8. \A x \in T \ S : f[x] \in Nat
  <2>1. Convert(c, Magnitude(e.amount), e.currency, e.day) \in Nat
    <3>1. Magnitude(e.amount) \in Nat
      BY RowsAssumption DEF Magnitude
    <3> QED BY <1>1, <3>1, ConvertNat
  <2> QED BY <1>4, <2>1
<1> HIDE DEF f
<1>9. EntryTotal(b, "INTEREST", Year) <= EntryTotal(c, "INTEREST", Year)
  BY <1>3, <1>4, <1>5, <1>6, <1>7, <1>8, SumGrows
<1>10. GrossDividends(b, Year) <= GrossDividends(c, Year)
  <2>1. GrossDividends(b, Year) = GrossDividends(c, Year) /\ GrossDividends(b, Year) \in Int
    BY <1>1, SameTables, GrossDividendsTyped
  <2> QED BY <2>1
<1>11. LessTaxable(b, c)
  BY <1>1, <1>9, <1>10, MoreIncome
<1> QED BY <1>1, <1>11 DEF c

LEMMA DividendsGrow ==
  ASSUME NEW b, BookOK(b), NEW d \in DividendRows
  PROVE  BookOK(With(b, "dividends", d)) /\ LessTaxable(b, With(b, "dividends", d))
<1> DEFINE c == With(b, "dividends", d)
           S == DividendsIn(b, Year)
           T == DividendsIn(c, Year)
           f == [x \in T |-> ConvertDividend(c, x.gross, x)]
<1>1. /\ BookOK(c) /\ c.dividends = b.dividends \cup {d} /\ c.rates = b.rates /\ c.trades = b.trades
      /\ c.items = b.items /\ c.rules = b.rules /\ c.entries = b.entries
  <2>1. "dividends" \in Tables \ {"trades", "rates"} /\ d \in RowsOf["dividends"]
        /\ {"rates", "trades", "items", "rules", "entries"} \subseteq Tables \ {"dividends"}
    BY DEF Tables, RowsOf
  <2> HIDE DEF c
  <2>2. /\ BookOK(With(b, "dividends", d)) /\ With(b, "dividends", d)["dividends"] = b["dividends"] \cup {d}
        /\ \A other \in Tables \ {"dividends"} : With(b, "dividends", d)[other] = b[other]
    BY <2>1, WithOK
  <2> QED BY <2>1, <2>2 DEF c
<1> HIDE DEF c
<1>2. c.dividends \subseteq DividendRows /\ IsFiniteSet(c.dividends)
  BY <1>1 DEF BookOK, Stored, Tables, RowsOf
<1>3. IsFiniteSet(T) /\ T \subseteq DividendRows
  BY <1>2, FS_Subset DEF DividendsIn
<1>4. S \in SUBSET T
  BY <1>1 DEF DividendsIn
<1>5. GrossDividends(b, Year) = Over(f, S)
  <2>1. \A x : ConvertDividend(b, x.gross, x) = ConvertDividend(c, x.gross, x)
    <3>1. \A currency, day : RateOn(b, currency, day) = RateOn(c, currency, day)
      BY <1>1 DEF RateOn
    <3>2. \A x : RateOfDividend(b, x) = RateOfDividend(c, x)
      BY <3>1 DEF RateOfDividend
    <3> QED BY <3>2 DEF ConvertDividend
  <2>2. [x \in S |-> ConvertDividend(b, x.gross, x)] = [x \in S |-> f[x]]
    <3> HIDE DEF S, T
    <3> QED BY <1>4, <2>1
  <2> QED BY <2>2 DEF GrossDividends, Over
<1>6. GrossDividends(c, Year) = Over(f, T)
  <2>1. [x \in T |-> ConvertDividend(c, x.gross, x)] = [x \in T |-> f[x]]
    OBVIOUS
  <2> QED BY <2>1 DEF GrossDividends, Over
<1> HIDE DEF S, T
<1>7. \A x \in T : f[x] \in Nat
  BY <1>1, <1>3, DividendTyped
<1> HIDE DEF f
<1>8. GrossDividends(b, Year) <= GrossDividends(c, Year)
  <2>1. (\A x \in T : f[x] \in Int) /\ \A x \in T \ S : f[x] \in Nat
    BY <1>7
  <2> QED BY <1>3, <1>4, <1>5, <1>6, <2>1, SumGrows
<1>9. EntryTotal(b, "INTEREST", Year) <= EntryTotal(c, "INTEREST", Year)
  <2>1. EntryTotal(b, "INTEREST", Year) = EntryTotal(c, "INTEREST", Year)
        /\ EntryTotal(b, "INTEREST", Year) \in Int
    BY <1>1, SameTables, EntryTotalTyped
  <2> QED BY <2>1
<1>10. LessTaxable(b, c)
  BY <1>1, <1>8, <1>9, MoreIncome
<1> QED BY <1>1, <1>10 DEF c

\* An item is a relief by its table, or by the category of an adjustment.
Relieving(i) == {i.table, i.category} \cap {"ALLOWANCE", "DEDUCTION"} # {}

LEMMA ReliefsGrow ==
  ASSUME NEW b, BookOK(b), NEW i \in ItemRows, Relieving(i)
  PROVE  BookOK(With(b, "items", i)) /\ LessTaxable(With(b, "items", i), b)
<1> DEFINE c == With(b, "items", i)
<1>1. /\ BookOK(c) /\ c.items = b.items \cup {i} /\ c.rates = b.rates /\ c.trades = b.trades
      /\ c.entries = b.entries /\ c.rules = b.rules /\ c.dividends = b.dividends
  <2>1. "items" \in Tables \ {"trades", "rates"} /\ i \in RowsOf["items"]
        /\ {"rates", "trades", "entries", "rules", "dividends"} \subseteq Tables \ {"items"}
    BY DEF Tables, RowsOf
  <2> HIDE DEF c
  <2>2. /\ BookOK(With(b, "items", i)) /\ With(b, "items", i)["items"] = b["items"] \cup {i}
        /\ \A other \in Tables \ {"items"} : With(b, "items", i)[other] = b[other]
    BY <2>1, WithOK
  <2> QED BY <2>1, <2>2 DEF c
<1> HIDE DEF c
<1>2. \A S : SizeOf(c, S) = SizeOf(b, S) /\ ValueOf(c, S) = ValueOf(b, S)
  BY <1>1, SameTables
<1>3. \A k : k \notin {"ALLOWANCE", "DEDUCTION"} => Adjustments(c, k) = Adjustments(b, k)
  BY <1>1 DEF Adjustments, Relieving
<1>4. \A k \in Categories : k \notin {"ALLOWANCE", "DEDUCTION"}
  BY DEF Categories, CategoryOrder
<1>5. \A k \in Categories : Net(c, k) <= Net(b, k)
  <2> SUFFICES ASSUME NEW k \in Categories
               PROVE  Net(c, k) <= Net(b, k)
    OBVIOUS
  <2>1. /\ Gains(c, Year) = Gains(b, Year) /\ Losses(c, Year) = Losses(b, Year)
        /\ EntryTotal(c, "INTEREST", Year) = EntryTotal(b, "INTEREST", Year)
        /\ GrossDividends(c, Year) = GrossDividends(b, Year)
    BY <1>1, SameTables
  <2>2. Income(c, k, Year) = Income(b, k, Year)
    BY <2>1 DEF Income
  <2>3. Income(c, k, Year) <= Income(b, k, Year)
    BY <1>1, <2>2, IncomeTyped
  <2>4. SizeOf(c, Adjustments(c, "CAPITAL_LOSS")) = SizeOf(b, Adjustments(b, "CAPITAL_LOSS"))
    BY <1>2, <1>3
  <2>5. Netted(c, k) = Netted(b, k)
    BY <2>1, <2>4 DEF Netted
  <2>6. ValueOf(c, Adjustments(c, k)) = ValueOf(b, Adjustments(b, k))
    BY <1>2, <1>3, <1>4
  <2> QED BY <1>1, <2>3, <2>5, <2>6, NetGrows
<1>6. ASSUME NEW kind, NEW k
      PROVE  Manual(b, kind, k) <= Manual(c, kind, k)
  <2> DEFINE own(x) == {j \in x.items : j.table = kind /\ j.category = k}
                       \cup {j \in Adjustments(x, kind) : Target(j) = k}
             S == own(b)
             T == own(c)
             f == [j \in T |-> Magnitude(ItemValue(c, j))]
  <2>1. Manual(b, kind, k) = SizeOf(c, S) /\ Manual(c, kind, k) = SizeOf(c, T)
    <3>1. Manual(b, kind, k) = SizeOf(b, S) /\ Manual(c, kind, k) = SizeOf(c, T)
      BY DEF Manual
    <3> HIDE DEF S, T
    <3> QED BY <1>2, <3>1
  <2>2. S \in SUBSET T /\ T \in SUBSET c.items
    BY <1>1 DEF Adjustments
  <2> HIDE DEF S, T
  <2>3. IsFiniteSet(T) /\ T \subseteq ItemRows
    <3>1. c.items \subseteq ItemRows /\ IsFiniteSet(c.items)
      BY <1>1 DEF BookOK, Stored, Tables, RowsOf
    <3> QED BY <2>2, <3>1, FS_Subset
  <2>4. \A j \in T : f[j] \in Nat
    <3>1. \A j \in T : j.amount \in Int
      BY <2>3, RowsAssumption
    <3>2. \A j \in T : ItemValue(c, j) \in Int
      BY <1>1, <3>1, ConvertTyped DEF ItemValue
    <3> QED BY <3>2 DEF Magnitude
  <2>5. SizeOf(c, S) = Over(f, S) /\ SizeOf(c, T) = Over(f, T)
    <3>1. [j \in S |-> Magnitude(ItemValue(c, j))] = [j \in S |-> f[j]]
      BY <2>2
    <3>2. [j \in T |-> Magnitude(ItemValue(c, j))] = [j \in T |-> f[j]]
      OBVIOUS
    <3> QED BY <3>1, <3>2 DEF SizeOf, Over
  <2> HIDE DEF f
  <2>6. (\A j \in T : f[j] \in Int) /\ \A j \in T \ S : f[j] \in Nat
    BY <2>4
  <2>7. Over(f, S) <= Over(f, T)
    BY <2>2, <2>3, <2>6, SumGrows
  <2> QED BY <2>1, <2>5, <2>7
<1>7. Reliefs(c) = Reliefs(b) /\ Flats(c) = Flats(b)
  BY <1>1 DEF Reliefs, Flats
<1>8. LessTaxable(c, b)
  BY <1>5, <1>6, <1>7 DEF LessTaxable
<1> QED BY <1>1, <1>8 DEF c

LEMMA ReliefRulesGrow ==
  ASSUME NEW b, BookOK(b), NEW r \in RuleRows, r.type # "FLAT_RATE"
  PROVE  BookOK(With(b, "rules", r)) /\ LessTaxable(With(b, "rules", r), b)
<1> DEFINE c == With(b, "rules", r)
<1>1. /\ BookOK(c) /\ c.rules = b.rules \cup {r} /\ c.rates = b.rates /\ c.trades = b.trades
      /\ c.entries = b.entries /\ c.items = b.items /\ c.dividends = b.dividends
  <2>1. "rules" \in Tables \ {"trades", "rates"} /\ r \in RowsOf["rules"]
        /\ {"rates", "trades", "entries", "items", "dividends"} \subseteq Tables \ {"rules"}
    BY DEF Tables, RowsOf
  <2> HIDE DEF c
  <2>2. /\ BookOK(With(b, "rules", r)) /\ With(b, "rules", r)["rules"] = b["rules"] \cup {r}
        /\ \A other \in Tables \ {"rules"} : With(b, "rules", r)[other] = b[other]
    BY <2>1, WithOK
  <2> QED BY <2>1, <2>2 DEF c
<1> HIDE DEF c
<1>2. \A k : Income(c, k, Year) = Income(b, k, Year)
  <2>1. /\ Gains(c, Year) = Gains(b, Year) /\ EntryTotal(c, "INTEREST", Year) = EntryTotal(b, "INTEREST", Year)
        /\ GrossDividends(c, Year) = GrossDividends(b, Year)
    BY <1>1, SameTables
  <2> QED BY <2>1 DEF Income
<1>3. Losses(c, Year) = Losses(b, Year)
  BY <1>1, SameTables
<1>4. /\ \A k : ValueOf(c, Adjustments(c, k)) = ValueOf(b, Adjustments(b, k))
      /\ \A k : SizeOf(c, Adjustments(c, k)) = SizeOf(b, Adjustments(b, k))
      /\ \A kind, k : Manual(c, kind, k) = Manual(b, kind, k)
  BY <1>1, SameEntered
<1>5. ASSUME NEW k
      PROVE  Net(c, k) <= Net(b, k)
  <2>1. Gross(c, k) = Gross(b, k) /\ Netted(c, k) = Netted(b, k)
    BY <1>2, <1>3, <1>4 DEF Gross, Netted
  <2>2. Net(c, k) = Net(b, k) /\ Net(b, k) \in Nat
    BY <2>1, AmountsTyped DEF Net
  <2> QED BY <2>2
<1>6. ASSUME NEW kind, NEW k
      PROVE  Manual(b, kind, k) <= Manual(c, kind, k)
  <2>1. Manual(c, kind, k) = Manual(b, kind, k) /\ Manual(b, kind, k) \in Nat
    BY <1>4, AmountsTyped
  <2> QED BY <2>1
<1>7. Reliefs(b) \subseteq Reliefs(c) /\ Flats(c) = Flats(b)
  BY <1>1 DEF Reliefs, Flats
<1>8. LessTaxable(c, b)
  BY <1>5, <1>6, <1>7 DEF LessTaxable
<1> QED BY <1>1, <1>8 DEF c

\* More income never lowers the tax, and one relief more never raises it: each
\* step of the calculation, in whatever order the rules come, leaves no more to
\* tax where there was no more before it.
THEOREM TaxGrowsWithIncome == Spec => []EstimateMonotone
<1>1. BookOK(book) => EstimateMonotone
  <2> SUFFICES ASSUME BookOK(book)
               PROVE  EstimateMonotone
    OBVIOUS
  <2>1. ASSUME NEW e \in LedgerEntries, e.type = "INTEREST"
        PROVE  EstimatedTax(With(book, "entries", e)) >= EstimatedTax(book)
    BY <2>1, InterestGrows, LessTax
  <2>2. ASSUME NEW d \in DividendRows
        PROVE  EstimatedTax(With(book, "dividends", d)) >= EstimatedTax(book)
    BY DividendsGrow, LessTax
  <2>3. ASSUME NEW i \in ItemRows, Relieving(i)
        PROVE  EstimatedTax(With(book, "items", i)) <= EstimatedTax(book)
    BY <2>3, ReliefsGrow, LessTax
  <2>4. ASSUME NEW r \in RuleRows, r.type # "FLAT_RATE"
        PROVE  EstimatedTax(With(book, "rules", r)) <= EstimatedTax(book)
    BY <2>4, ReliefRulesGrow, LessTax
  <2> QED BY <2>1, <2>2, <2>3, <2>4 DEF EstimateMonotone, Relieving
<1> QED BY <1>1, Inductive, PTL
=============================================================================
