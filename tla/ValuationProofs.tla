-------------------------- MODULE ValuationProofs --------------------------
(***************************************************************************)
(* Proofs about Valuation and the replays it rests on, for any forms,      *)
(* accounts, securities, prices and rates and any number of postings: the  *)
(* two replays agree on every history and lose no cost, and a valuation of *)
(* a past day does not change, in any field, with what is entered for      *)
(* later days.                                                             *)
(***************************************************************************)
EXTENDS Valuation, FiniteSetTheorems, WellFoundedInduction, TLAPS

(***************************************************************************)
(* Finite sets, and folds over them.                                       *)
(***************************************************************************)
LEMMA LeastNatural ==
  ASSUME NEW S \in SUBSET Nat, S # {}
  PROVE  \E x \in S : \A y \in S : x <= y
<1>1. \E x \in S : \A y \in S : ~(<<y, x>> \in OpToRel(<, Nat))
  BY WFMin, NatLessThanWellFounded
<1>2. PICK x \in S : \A y \in S : ~(y < x)
  BY <1>1 DEF OpToRel
<1> QED BY <1>2

\* A subset of S is good when all sets of one element less are.
Hereditary(Good, S) == \A T \in SUBSET S : (\A x \in T : T \ {x} \in Good) => T \in Good

\* Induction over the subsets of a finite set.
LEMMA SubsetInduction ==
  ASSUME NEW S, IsFiniteSet(S), NEW Good, Hereditary(Good, S)
  PROVE  S \in Good
<1> SUFFICES ASSUME S \notin Good
             PROVE  FALSE
  OBVIOUS
<1> DEFINE Bad == {T \in SUBSET S : T \notin Good}
           sizes == {Cardinality(T) : T \in Bad}
<1>1. \A T \in SUBSET S : IsFiniteSet(T) /\ Cardinality(T) \in Nat
  BY FS_Subset, FS_CardinalityType
<1>2. PICK n \in sizes : \A m \in sizes : n <= m
  <2>1. sizes \in SUBSET Nat /\ sizes # {}
    BY <1>1
  <2> HIDE DEF sizes
  <2> QED BY <2>1, LeastNatural
<1>3. PICK T \in Bad : n = Cardinality(T)
  BY <1>2
<1>4. ASSUME NEW x \in T
      PROVE  T \ {x} \in Good
  <2>1. Cardinality(T \ {x}) < Cardinality(T)
    <3>1. IsFiniteSet(T) /\ Cardinality(T) \in Nat
      BY <1>1
    <3>2. Cardinality(T \ {x}) = Cardinality(T) - 1
      BY <3>1, FS_RemoveElement
    <3> QED BY <3>1, <3>2
  <2>2. T \ {x} \in SUBSET S
    OBVIOUS
  <2>3. T \ {x} \in Bad => n <= Cardinality(T \ {x})
    BY <1>2
  <2>4. n \in Nat /\ Cardinality(T \ {x}) \in Nat
    BY <1>1, <1>3, <2>2
  <2> QED BY <1>3, <2>1, <2>2, <2>3, <2>4
<1> QED BY <1>4 DEF Hereditary

\* A set of pairs that orders what it relates, strictly and totally.
Orders(less, S) ==
  /\ \A x \in S : <<x, x>> \notin less
  /\ \A x, y, z \in S : <<x, y>> \in less /\ <<y, z>> \in less => <<x, z>> \in less
  /\ \A x, y \in S : x # y => <<x, y>> \in less \/ <<y, x>> \in less

\* A finite set that is not empty has a last element.
LEMMA LastExists ==
  ASSUME NEW S, IsFiniteSet(S), S # {}, NEW less, Orders(less, S)
  PROVE  \E x \in S : \A y \in S \ {x} : <<y, x>> \in less
<1> DEFINE Good == {T \in SUBSET S : T # {} => \E x \in T : \A y \in T \ {x} : <<y, x>> \in less}
<1>1. ASSUME NEW T \in SUBSET S, \A x \in T : T \ {x} \in Good, T # {}
      PROVE  \E x \in T : \A y \in T \ {x} : <<y, x>> \in less
  <2>1. PICK z \in T : TRUE
    BY <1>1
  <2>2. CASE T \ {z} = {}
    BY <2>1, <2>2
  <2>3. CASE T \ {z} # {}
    <3>1. PICK x \in T \ {z} : \A y \in (T \ {z}) \ {x} : <<y, x>> \in less
      BY <1>1, <2>3
    <3>2. <<x, z>> \in less \/ <<z, x>> \in less
      BY <3>1 DEF Orders
    <3>3. CASE <<z, x>> \in less
      <4>1. \A y \in T \ {x} : <<y, x>> \in less
        BY <3>1, <3>3
      <4> QED BY <4>1
    <3>4. CASE <<x, z>> \in less
      <4>1. ASSUME NEW y \in T \ {z}
            PROVE  <<y, z>> \in less
        <5>1. CASE y = x
          BY <3>4, <5>1
        <5>2. CASE y # x
          <6>1. <<y, x>> \in less /\ y \in S /\ x \in S /\ z \in S
            BY <3>1, <5>2
          <6> QED BY <3>4, <6>1 DEF Orders
        <5> QED BY <5>1, <5>2
      <4> QED BY <2>1, <4>1
    <3> QED BY <3>2, <3>3, <3>4
  <2> QED BY <2>2, <2>3
<1>2. Hereditary(Good, S)
  BY <1>1 DEF Hereditary
<1>3. S \in Good
  <2> HIDE DEF Good
  <2> QED BY <1>2, SubsetInduction
<1> QED BY <1>3

\* pick takes an element of every set, step keeps within V.
Picks(pick, S) == \A T \in SUBSET S : T # {} => pick[T] \in T
Keeps(step, S, V) == \A x \in S, v \in V : step[<<x, v>>] \in V

\* iter[T] is step applied to all elements of T, the one pick[T] last, for the
\* sets T of at most n elements, and for all of them.
Unfolded(iter, step, base, pick, T) ==
  iter[T] = IF T = {} THEN base ELSE step[<<pick[T], iter[T \ {pick[T]}]>>]
FoldsUpTo(iter, step, base, pick, S, n) ==
  \A T \in SUBSET S : Cardinality(T) <= n => Unfolded(iter, step, base, pick, T)
Folds(iter, step, base, pick, S) == \A T \in SUBSET S : Unfolded(iter, step, base, pick, T)

LEMMA FoldOneMore ==
  ASSUME NEW S, IsFiniteSet(S), NEW pick, Picks(pick, S), NEW V, NEW base \in V,
         NEW step, Keeps(step, S, V),
         NEW n \in Int, NEW g \in [SUBSET S -> V], FoldsUpTo(g, step, base, pick, S, n)
  PROVE  \E h \in [SUBSET S -> V] : FoldsUpTo(h, step, base, pick, S, n + 1)
<1> DEFINE value(T) == IF T = {} THEN base ELSE step[<<pick[T], g[T \ {pick[T]}]>>]
           h == [T \in SUBSET S |-> IF Cardinality(T) <= n THEN g[T] ELSE value(T)]
<1>1. \A T \in SUBSET S : IsFiniteSet(T) /\ Cardinality(T) \in Nat
  BY FS_Subset, FS_CardinalityType
<1>2. \A T \in SUBSET S : value(T) \in V
  BY DEF Picks, Keeps
<1>3. h \in [SUBSET S -> V]
  <2> HIDE DEF value
  <2> QED BY <1>2
<1>4. ASSUME NEW T \in SUBSET S, Cardinality(T) <= n + 1
      PROVE  h[T] = IF T = {} THEN base ELSE step[<<pick[T], h[T \ {pick[T]}]>>]
  <2>1. h[T] = value(T)
    <3> HIDE DEF value
    <3>1. Cardinality(T) <= n => g[T] = value(T)
      BY DEF FoldsUpTo, Unfolded, value
    <3> QED BY <3>1
  <2>2. CASE T = {}
    BY <2>1, <2>2
  <2>3. CASE T # {}
    <3>1. pick[T] \in T /\ T \ {pick[T]} \in SUBSET S
      BY <2>3 DEF Picks
    <3>2. Cardinality(T \ {pick[T]}) = Cardinality(T) - 1
      BY <1>1, <3>1, FS_RemoveElement
    <3>3. Cardinality(T) \in Nat /\ Cardinality(T \ {pick[T]}) <= n
      BY <1>1, <1>4, <3>2
    <3>4. h[T \ {pick[T]}] = g[T \ {pick[T]}]
      <4> HIDE DEF value
      <4> QED BY <3>1, <3>3
    <3> HIDE DEF h
    <3> QED BY <2>1, <2>3, <3>4
  <2> QED BY <2>2, <2>3
<1>5. FoldsUpTo(h, step, base, pick, S, n + 1)
  <2> HIDE DEF h
  <2> QED BY <1>4 DEF FoldsUpTo, Unfolded
<1> QED
  <2> HIDE DEF h
  <2> QED BY <1>3, <1>5

\* A step that keeps within V can be applied to all elements of a finite set.
LEMMA FoldExists ==
  ASSUME NEW S, IsFiniteSet(S), NEW pick, Picks(pick, S), NEW V, NEW base \in V,
         NEW step, Keeps(step, S, V)
  PROVE  \E iter \in [SUBSET S -> V] : Folds(iter, step, base, pick, S)
<1> DEFINE Bad == {n \in Nat : ~\E g \in [SUBSET S -> V] : FoldsUpTo(g, step, base, pick, S, n)}
<1>1. \A T \in SUBSET S : IsFiniteSet(T) /\ Cardinality(T) \in Nat
  BY FS_Subset, FS_CardinalityType
<1>2. \E g \in [SUBSET S -> V] : FoldsUpTo(g, step, base, pick, S, 0)
  <2> DEFINE g == [T \in SUBSET S |-> base]
  <2>1. \A T \in SUBSET S : Cardinality(T) <= 0 => T = {}
    BY <1>1, FS_EmptySet
  <2>2. g \in [SUBSET S -> V] /\ \A T \in SUBSET S : g[T] = base
    OBVIOUS
  <2>3. FoldsUpTo(g, step, base, pick, S, 0)
    <3> HIDE DEF g
    <3> QED BY <2>1, <2>2 DEF FoldsUpTo, Unfolded
  <2> HIDE DEF g
  <2> QED BY <2>2, <2>3
<1>3. Bad = {}
  <2> SUFFICES ASSUME Bad # {}
               PROVE  FALSE
    OBVIOUS
  <2>1. PICK n \in Bad : \A m \in Bad : n <= m
    <3>1. Bad \in SUBSET Nat
      OBVIOUS
    <3> HIDE DEF Bad
    <3> QED BY <3>1, LeastNatural
  <2>2. n \in Nat /\ n # 0 /\ n - 1 \in Nat /\ n - 1 \notin Bad
    <3>1. n \in Nat /\ n # 0
      BY <1>2, <2>1
    <3>2. n - 1 \in Nat
      BY <3>1
    <3> HIDE DEF Bad
    <3> QED BY <2>1, <3>1, <3>2
  <2>3. PICK g \in [SUBSET S -> V] : FoldsUpTo(g, step, base, pick, S, n - 1)
    BY <2>2
  <2>4. n - 1 \in Int /\ (n - 1) + 1 = n
    BY <2>2
  <2>5. \E h \in [SUBSET S -> V] : FoldsUpTo(h, step, base, pick, S, (n - 1) + 1)
    BY <2>3, <2>4, FoldOneMore
  <2> QED BY <2>1, <2>4, <2>5
<1>4. PICK g \in [SUBSET S -> V] : FoldsUpTo(g, step, base, pick, S, Cardinality(S))
  BY <1>1, <1>3
<1>5. \A T \in SUBSET S : Cardinality(T) <= Cardinality(S)
  BY FS_Subset
<1> QED BY <1>4, <1>5 DEF FoldsUpTo, Folds

\* Folds over a set and over a part of it agree on the part.
LEMMA FoldsAgree ==
  ASSUME NEW S, NEW T \in SUBSET S, IsFiniteSet(T), NEW pick, Picks(pick, T), NEW base, NEW step,
         NEW g, Folds(g, step, base, pick, S), NEW h, Folds(h, step, base, pick, T)
  PROVE  g[T] = h[T]
<1> DEFINE Good == {R \in SUBSET T : g[R] = h[R]}
<1>1. ASSUME NEW R \in SUBSET T, \A x \in R : R \ {x} \in Good
      PROVE  g[R] = h[R]
  <2>1. R \in SUBSET S
    OBVIOUS
  <2>2. R # {} => g[R \ {pick[R]}] = h[R \ {pick[R]}]
    BY <1>1 DEF Picks
  <2> HIDE DEF Good
  <2> QED BY <2>1, <2>2 DEF Folds, Unfolded
<1>2. Hereditary(Good, T)
  BY <1>1 DEF Hereditary
<1>3. T \in Good
  <2> HIDE DEF Good
  <2> QED BY <1>2, SubsetInduction
<1> QED BY <1>3


-----------------------------------------------------------------------------
(***************************************************************************)
(* Sums.  The library adds the values of a function in the order of Pick;  *)
(* sum[T] adds those of a subset T in any.                                 *)
(***************************************************************************)
Pick(T) == CHOOSE x \in T : TRUE

Sums(sum, f, S) ==
  /\ sum \in [SUBSET S -> Int] /\ sum[{}] = 0
  /\ \A T \in SUBSET S : \A x \in T : sum[T] = f[x] + sum[T \ {x}]

\* Taking the elements in the order of Pick is taking them in any order.
LEMMA PickedIsAny ==
  ASSUME NEW S, IsFiniteSet(S), NEW f \in [S -> Int], NEW g \in [SUBSET S -> Int],
         \A T \in SUBSET S : g[T] = IF T = {} THEN 0 ELSE f[Pick(T)] + g[T \ {Pick(T)}]
  PROVE  Sums(g, f, S)
<1> DEFINE Good == {T \in SUBSET S : \A x \in T : g[T] = f[x] + g[T \ {x}]}
<1>1. ASSUME NEW T \in SUBSET S, \A x \in T : T \ {x} \in Good, NEW x \in T
      PROVE  g[T] = f[x] + g[T \ {x}]
  <2>1. PICK p \in T : p = Pick(T)
    BY DEF Pick
  <2>2. g[T] = f[p] + g[T \ {p}]
    BY <2>1
  <2>3. CASE x = p
    BY <2>2, <2>3
  <2>4. CASE x # p
    <3>1. g[T \ {p}] = f[x] + g[(T \ {p}) \ {x}]
      BY <1>1, <2>4
    <3>2. g[T \ {x}] = f[p] + g[(T \ {x}) \ {p}]
      BY <1>1, <2>4
    <3>3. (T \ {p}) \ {x} = (T \ {x}) \ {p} /\ (T \ {x}) \ {p} \in SUBSET S
      OBVIOUS
    <3>4. PICK k, m, n \in Int : k = f[p] /\ m = f[x] /\ n = g[(T \ {x}) \ {p}]
      BY <3>3
    <3>5. g[T] = k + (m + n) /\ g[T \ {x}] = k + n
      BY <2>2, <3>1, <3>2, <3>3, <3>4
    <3> QED BY <3>4, <3>5
  <2> QED BY <2>3, <2>4
<1>2. S \in Good /\ \A T \in SUBSET S : T \in Good
  <2>1. ASSUME NEW T \in SUBSET S
        PROVE  T \in Good
    <3>1. Hereditary(Good, T)
      BY <1>1 DEF Hereditary
    <3>2. IsFiniteSet(T)
      BY FS_Subset
    <3> HIDE DEF Good
    <3> QED BY <3>1, <3>2, SubsetInduction
  <2> QED BY <2>1
<1> QED BY <1>2 DEF Sums

LEMMA SumsAgree ==
  ASSUME NEW S, NEW f, NEW g, Sums(g, f, S), NEW T \in SUBSET S, IsFiniteSet(T),
         NEW part, NEW h, Sums(h, part, T), \A x \in T : part[x] = f[x]
  PROVE  g[T] = h[T]
<1> DEFINE Good == {R \in SUBSET T : g[R] = h[R]}
<1>1. ASSUME NEW R \in SUBSET T, \A x \in R : R \ {x} \in Good
      PROVE  g[R] = h[R]
  <2>1. CASE R = {}
    BY <2>1 DEF Sums
  <2>2. CASE R # {}
    <3>1. PICK x \in R : TRUE
      BY <2>2
    <3>2. g[R] = f[x] + g[R \ {x}] /\ h[R] = part[x] + h[R \ {x}]
      BY DEF Sums
    <3>3. g[R \ {x}] = h[R \ {x}] /\ part[x] = f[x]
      BY <1>1
    <3> QED BY <3>2, <3>3
  <2> QED BY <2>1, <2>2
<1>2. Hereditary(Good, T)
  BY <1>1 DEF Hereditary
<1>3. T \in Good
  <2> HIDE DEF Good
  <2> QED BY <1>2, SubsetInduction
<1> QED BY <1>3

LEMMA SumUnfolds ==
  ASSUME NEW f
  PROVE  SumFunction(f)
           = (CHOOSE iter : iter = [T \in SUBSET DOMAIN f |->
                IF T = {} THEN 0 ELSE f[Pick(T)] + iter[T \ {Pick(T)}]])[DOMAIN f]
BY DEF SumFunction, SumFunctionOnSet, FoldFunctionOnSet, MapThenFoldSet, Pick

LEMMA SumsExist ==
  ASSUME NEW S, IsFiniteSet(S), NEW f \in [S -> Int]
  PROVE  \E sum : Sums(sum, f, S) /\ sum[S] = SumFunction(f)
<1> DEFINE Recurses(iter) ==
      iter = [T \in SUBSET S |-> IF T = {} THEN 0 ELSE f[Pick(T)] + iter[T \ {Pick(T)}]]
           pick == [T \in SUBSET S |-> Pick(T)]
           step == [p \in S \X Int |-> f[p[1]] + p[2]]
<1>1. \A T \in SUBSET S : T # {} => Pick(T) \in T
  BY DEF Pick
<1>2. \A x \in S, v \in Int : step[<<x, v>>] = f[x] + v /\ step[<<x, v>>] \in Int
  OBVIOUS
<1>3. \A T \in SUBSET S : pick[T] = Pick(T)
  OBVIOUS
<1>4. PICK g \in [SUBSET S -> Int] : Folds(g, step, 0, pick, S)
  <2> HIDE DEF pick, step
  <2>1. Picks(pick, S)
    BY <1>1, <1>3 DEF Picks
  <2>2. Keeps(step, S, Int)
    BY <1>2 DEF Keeps
  <2>3. 0 \in Int
    OBVIOUS
  <2> QED BY <2>1, <2>2, <2>3, FoldExists
<1>5. \A T \in SUBSET S : g[T] = IF T = {} THEN 0 ELSE f[Pick(T)] + g[T \ {Pick(T)}]
  <2> HIDE DEF pick, step
  <2> SUFFICES ASSUME NEW T \in SUBSET S, T # {}
               PROVE  g[T] = f[Pick(T)] + g[T \ {Pick(T)}]
    BY <1>4 DEF Folds, Unfolded
  <2>1. Pick(T) \in S /\ g[T \ {Pick(T)}] \in Int /\ pick[T] = Pick(T)
    BY <1>1, <1>3
  <2>2. g[T] = step[<<Pick(T), g[T \ {Pick(T)}]>>]
    BY <1>4, <2>1 DEF Folds, Unfolded
  <2> QED BY <1>2, <2>1, <2>2
<1>6. Recurses(g)
  <2> HIDE DEF pick, step
  <2> QED BY <1>5
<1>7. ASSUME NEW iter, Recurses(iter)
      PROVE  iter[S] = g[S]
  <2> DEFINE Good == {T \in SUBSET S : iter[T] = g[T]}
  <2>1. \A T \in SUBSET S : (\A x \in T : T \ {x} \in Good) => iter[T] = g[T]
    <3>1. \A T \in SUBSET S : iter[T] = IF T = {} THEN 0 ELSE f[Pick(T)] + iter[T \ {Pick(T)}]
      BY <1>7
    <3> HIDE DEF Recurses, pick, step
    <3> QED BY <1>1, <1>5, <3>1
  <2>2. Hereditary(Good, S)
    BY <2>1 DEF Hereditary
  <2>3. S \in Good
    <3> HIDE DEF Good, Recurses
    <3> QED BY <2>2, SubsetInduction
  <2> QED BY <2>3
<1>8. Recurses(CHOOSE iter : Recurses(iter))
  <2> HIDE DEF Recurses
  <2> QED BY <1>6
<1>9. (CHOOSE iter : Recurses(iter))[S] = g[S]
  <2> HIDE DEF Recurses
  <2> QED BY <1>7, <1>8
<1>10. DOMAIN f = S
  OBVIOUS
<1>11. g[S] = SumFunction(f)
  <2> HIDE DEF pick, step
  <2> QED BY <1>9, <1>10, SumUnfolds
<1>12. Sums(g, f, S)
  <2> HIDE DEF pick, step, Recurses
  <2> QED BY <1>5, PickedIsAny
<1> QED BY <1>11, <1>12

\* The sum over the part T of its domain, of a function on S.
Over(f, T) == SumFunction([x \in T |-> f[x]])

LEMMA SumsOver ==
  ASSUME NEW S, IsFiniteSet(S), NEW f, \A x \in S : f[x] \in Int
  PROVE  Sums([T \in SUBSET S |-> Over(f, T)], f, S)
<1> DEFINE part(T) == [x \in T |-> f[x]]
           sum == [T \in SUBSET S |-> Over(f, T)]
<1>1. \A T \in SUBSET S : IsFiniteSet(T) /\ part(T) \in [T -> Int]
  BY FS_Subset
<1>2. PICK g : Sums(g, part(S), S)
  <2> HIDE DEF part
  <2> QED BY <1>1, SumsExist
<1>3. ASSUME NEW T \in SUBSET S
      PROVE  Over(f, T) = g[T]
  <2>1. PICK h : Sums(h, part(T), T) /\ h[T] = SumFunction(part(T))
    <3> HIDE DEF part
    <3> QED BY <1>1, SumsExist
  <2>2. \A x \in T : part(T)[x] = part(S)[x]
    OBVIOUS
  <2>3. g[T] = h[T]
    <3> HIDE DEF part
    <3> QED BY <1>1, <1>2, <2>1, <2>2, SumsAgree
  <2> QED BY <2>1, <2>3 DEF Over
<1>4. \A x \in S : part(S)[x] = f[x]
  OBVIOUS
<1>5. g \in [SUBSET S -> Int] /\ sum = g
  <2>1. g \in [SUBSET S -> Int]
    BY <1>2 DEF Sums
  <2> QED BY <1>3, <2>1
<1>6. Sums(g, f, S)
  <2> HIDE DEF part, sum
  <2> QED BY <1>2, <1>4 DEF Sums
<1> HIDE DEF sum, part
<1>7. Sums(sum, f, S)
  BY <1>5, <1>6
<1> QED BY <1>7 DEF sum

\* A sum is a number, nothing for no element, and each element adds its value.
LEMMA SumStep ==
  ASSUME NEW S, IsFiniteSet(S), NEW f, \A x \in S : f[x] \in Int
  PROVE  /\ Over(f, S) \in Int
         /\ S = {} => Over(f, S) = 0
         /\ \A x \in S : Over(f, S) = f[x] + Over(f, S \ {x})
<1> DEFINE sum == [T \in SUBSET S |-> Over(f, T)]
<1>1. Sums(sum, f, S)
  BY SumsOver
<1>2. \A T \in SUBSET S : sum[T] = Over(f, T)
  OBVIOUS
<1>3. S \in SUBSET S /\ {} \in SUBSET S /\ \A x \in S : S \ {x} \in SUBSET S
  OBVIOUS
<1> HIDE DEF sum
<1> QED BY <1>1, <1>2, <1>3 DEF Sums

\* A set in two parts.
LEMMA SumParts ==
  ASSUME NEW A, IsFiniteSet(A), NEW B, IsFiniteSet(B), A \cap B = {},
         NEW f, \A x \in A \cup B : f[x] \in Int
  PROVE  Over(f, A \cup B) = Over(f, A) + Over(f, B)
<1> DEFINE Good == {T \in SUBSET B : Over(f, A \cup T) = Over(f, A) + Over(f, T)}
<1>1. \A T \in SUBSET B : IsFiniteSet(T) /\ IsFiniteSet(A \cup T)
  BY FS_Subset, FS_Union
<1>2. ASSUME NEW T \in SUBSET B, \A x \in T : T \ {x} \in Good
      PROVE  Over(f, A \cup T) = Over(f, A) + Over(f, T)
  <2>1. Over(f, A) \in Int
    BY SumStep
  <2>2. CASE T = {}
    <3>1. A \cup T = A
      BY <2>2
    <3>2. Over(f, T) = 0
      BY <1>1, <2>2, SumStep
    <3>3. Over(f, A \cup T) = Over(f, A)
      BY <3>1
    <3> HIDE DEF Good
    <3> QED BY <2>1, <3>2, <3>3
  <2>3. CASE T # {}
    <3>1. PICK x \in T : TRUE
      BY <2>3
    <3>2. (A \cup T) \ {x} = A \cup (T \ {x})
      BY <3>1
    <3>3. Over(f, A \cup T) = f[x] + Over(f, A \cup (T \ {x}))
      <4>1. IsFiniteSet(A \cup T) /\ x \in A \cup T /\ \A y \in A \cup T : f[y] \in Int
        BY <1>1
      <4>2. Over(f, A \cup T) = f[x] + Over(f, (A \cup T) \ {x})
        BY <4>1, SumStep
      <4> QED BY <3>2, <4>2
    <3>4. Over(f, T) = f[x] + Over(f, T \ {x}) /\ Over(f, T \ {x}) \in Int /\ f[x] \in Int
      BY <1>1, SumStep
    <3>5. Over(f, A \cup (T \ {x})) = Over(f, A) + Over(f, T \ {x})
      BY <1>2
    <3> QED BY <2>1, <3>3, <3>4, <3>5
  <2> QED BY <2>2, <2>3
<1>3. Hereditary(Good, B)
  BY <1>2 DEF Hereditary
<1>4. B \in Good
  <2> HIDE DEF Good
  <2> QED BY <1>3, SubsetInduction
<1> QED BY <1>4

\* Numbers that are not negative.
LEMMA SumNatural ==
  ASSUME NEW S, IsFiniteSet(S), NEW f, \A x \in S : f[x] \in Nat
  PROVE  Over(f, S) \in Nat
<1> DEFINE Good == {T \in SUBSET S : Over(f, T) \in Nat}
<1>1. ASSUME NEW T \in SUBSET S, \A x \in T : T \ {x} \in Good
      PROVE  Over(f, T) \in Nat
  <2>1. IsFiniteSet(T)
    BY FS_Subset
  <2>2. CASE T = {}
    BY <2>1, <2>2, SumStep
  <2>3. CASE T # {}
    <3>1. PICK x \in T : TRUE
      BY <2>3
    <3>2. Over(f, T) = f[x] + Over(f, T \ {x})
      BY <2>1, SumStep
    <3>3. Over(f, T \ {x}) \in Nat /\ f[x] \in Nat
      BY <1>1
    <3> QED BY <3>2, <3>3
  <2> QED BY <2>2, <2>3
<1>2. Hereditary(Good, S)
  BY <1>1 DEF Hereditary
<1>3. S \in Good
  <2> HIDE DEF Good
  <2> QED BY <1>2, SubsetInduction
<1> QED BY <1>3

-----------------------------------------------------------------------------
(***************************************************************************)
(* The history.                                                            *)
(***************************************************************************)
\* Rows as the columns and the form leave them, with their primary keys.
Historical(S) ==
  /\ S \subseteq RowType /\ IsFiniteSet(S)
  /\ \A t, u \in S : t.id = u.id => t = u
  /\ \A t \in S : t.quantity > 0 <=> t.kind \in {"BUY", "SELL"}

LEMMA PostKeepsHistory ==
  ASSUME Historical(posted), NEW f \in Forms, NEW id \in Ids, Post(f, id)
  PROVE  Historical(posted') /\ Row(id, f) \in RowType /\ posted' = posted \cup {Row(id, f)}
<1>1. f \in FormType /\ (f.quantity > 0 <=> f.kind \in {"BUY", "SELL"})
  BY FormAssumption
<1>2. Row(id, f) \in RowType /\ Row(id, f).id = id /\ Row(id, f).quantity = f.quantity
      /\ Row(id, f).kind = f.kind
  BY <1>1 DEF Row, RowType, FormType
<1>3. posted' = posted \cup {Row(id, f)} /\ \A t \in posted : t.id # id
  BY DEF Post
<1>4. IsFiniteSet(posted')
  BY <1>3, FS_AddElement DEF Historical
<1> QED BY <1>1, <1>2, <1>3, <1>4 DEF Historical

LEMMA HistoryStays == Spec => []Historical(posted)
<1>1. Init => Historical(posted)
  BY FS_EmptySet DEF Init, Historical
<1>2. Historical(posted) /\ [Next]_posted => Historical(posted)'
  BY PostKeepsHistory DEF Next
<1> QED BY <1>1, <1>2, PTL DEF Spec

LEMMA PartHistorical ==
  ASSUME NEW S, Historical(S), NEW T \in SUBSET S
  PROVE  Historical(T)
BY FS_Subset DEF Historical

\* What the columns of a row hold.
LEMMA RowTyped ==
  ASSUME NEW S, Historical(S), NEW t \in S
  PROVE  /\ t.id \in Nat /\ t.day \in Nat /\ t.quantity \in Nat /\ t.gross \in Nat
         /\ t.costs \in Nat /\ t.exchange \in Nat /\ t.kind \in Kinds
         /\ t.account \in Accounts /\ t.security \in Securities /\ t.currency \in Currencies
         /\ (t.kind \in {"BUY", "SELL"} <=> t.quantity # 0)
<1>1. t \in RowType /\ (t.quantity > 0 <=> t.kind \in {"BUY", "SELL"})
  BY DEF Historical
<1>2. /\ t.id \in Ids /\ t.day \in Nat /\ t.quantity \in Nat /\ t.gross \in Nat
      /\ t.costs \in Nat /\ t.exchange \in Nat /\ t.kind \in Kinds
      /\ t.account \in Accounts /\ t.security \in Securities /\ t.currency \in Currencies
  BY <1>1 DEF RowType
<1>3. t.quantity > 0 <=> t.quantity # 0
  BY <1>2
<1> QED BY <1>1, <1>2, <1>3, IdAssumption

\* Rows are ordered by date and id, so there is a latest one.
LEMMA BeforeOrders ==
  ASSUME NEW S, Historical(S)
  PROVE  /\ \A t, u \in S : t # u => Before(t, u) \/ Before(u, t)
         /\ \A t, u \in S : ~(Before(t, u) /\ Before(u, t))
         /\ \A t, u, v \in S : Before(t, u) /\ Before(u, v) => Before(t, v)
<1>1. \A t \in S : t.id \in Int /\ t.day \in Int
  BY RowTyped
<1>2. \A t, u \in S : t # u => Before(t, u) \/ Before(u, t)
  BY <1>1 DEF Historical, Before
<1>3. \A t, u, v \in S : ~(Before(t, u) /\ Before(u, t)) /\ (Before(t, u) /\ Before(u, v) => Before(t, v))
  BY <1>1 DEF Before
<1> QED BY <1>2, <1>3

LEMMA LatestExists ==
  ASSUME NEW S, Historical(S), S # {}
  PROVE  Latest(S) \in S /\ \A u \in S \ {Latest(S)} : Before(u, Latest(S))
<1> DEFINE less == {p \in S \X S : Before(p[1], p[2])}
<1>1. \A t, u \in S : <<u, t>> \in less <=> Before(u, t)
  OBVIOUS
<1>2. Orders(less, S)
  <2> HIDE DEF less
  <2> QED BY <1>1, BeforeOrders DEF Orders
<1>3. \E t \in S : \A u \in S \ {t} : <<u, t>> \in less
  <2> HIDE DEF less
  <2> QED BY <1>2, LastExists DEF Historical
<1>4. \E t \in S : \A u \in S \ {t} : Before(u, t)
  <2>1. PICK t \in S : \A u \in S \ {t} : <<u, t>> \in less
    BY <1>3
  <2> HIDE DEF less
  <2> QED BY <1>1, <2>1
<1> QED BY <1>4 DEF Latest

\* The latest row of a history is the latest of each part it is in.
LEMMA LatestOfPart ==
  ASSUME NEW S, Historical(S), NEW T \in SUBSET S, Latest(S) \in T
  PROVE  Latest(T) = Latest(S)
<1>1. Historical(T) /\ T # {} /\ S # {}
  BY PartHistorical
<1>2. Latest(T) \in T /\ \A u \in T \ {Latest(T)} : Before(u, Latest(T))
  BY <1>1, LatestExists
<1>3. \A u \in S \ {Latest(S)} : Before(u, Latest(S))
  BY <1>1, LatestExists
<1>4. ~(Before(Latest(S), Latest(T)) /\ Before(Latest(T), Latest(S)))
  BY <1>2, BeforeOrders
<1> QED BY <1>2, <1>3, <1>4

-----------------------------------------------------------------------------
(***************************************************************************)
(* The replay of holdings.py.                                              *)
(***************************************************************************)
HoldingType ==
  [quantity : Nat, cost : Int, base : Int, realized : Int, realizedBase : Int, ok : BOOLEAN]

\* Rounding (quantize) takes integers to integers.
LEMMA RoundDivType ==
  ASSUME NEW m \in Int, NEW n \in Nat \ {0}
  PROVE  RoundDiv(m, n) \in Int
<1>1. m \div n \in Int
  OBVIOUS
<1> QED BY <1>1 DEF RoundDiv

\* What a row is worth is an integer.
LEMMA WorthTyped ==
  ASSUME NEW S, Historical(S), NEW t \in S, NEW home
  PROVE  /\ Acquisition(t) * Ulp \in Int /\ Acquisition(t) * Ulp * RateToAccount(t, home) \in Int
         /\ NetProceeds(t) * Ulp \in Int /\ NetProceeds(t) * Ulp * RateToAccount(t, home) \in Int
<1>1. t.gross \in Nat /\ t.costs \in Nat /\ t.exchange \in Nat
  BY RowTyped
<1>2. PICK acquired, proceeds, ulp, rate \in Int :
         /\ acquired = Acquisition(t) /\ proceeds = NetProceeds(t)
         /\ ulp = Ulp /\ rate = RateToAccount(t, home)
  BY <1>1, PrecisionAssumption DEF Acquisition, NetProceeds, RateToAccount
<1>3. acquired * ulp \in Int /\ proceeds * ulp \in Int
  OBVIOUS
<1>4. (acquired * ulp) * rate \in Int /\ (proceeds * ulp) * rate \in Int
  BY <1>3
<1> QED BY <1>2, <1>3, <1>4

\* What a sale takes out of a position is an integer.
LEMMA AllocatedTyped ==
  ASSUME NEW m \in Int, NEW n \in Nat \ {0}, NEW k \in Nat
  PROVE  RoundDiv(m, n) * k \in Int
<1>1. RoundDiv(m, n) \in Int
  BY RoundDivType
<1> QED BY <1>1

LEMMA BoughtTyped ==
  ASSUME NEW S, Historical(S), NEW t \in S, NEW home, NEW p \in HoldingType
  PROVE  Bought(p, t, home) \in HoldingType
<1>1. Acquisition(t) * Ulp \in Int /\ Acquisition(t) * Ulp * RateToAccount(t, home) \in Int
      /\ t.quantity \in Nat
  BY WorthTyped, RowTyped
<1>2. p.quantity + t.quantity \in Nat /\ p.cost + Acquisition(t) * Ulp \in Int
      /\ p.base + Acquisition(t) * Ulp * RateToAccount(t, home) \in Int
  BY <1>1 DEF HoldingType
<1>3. \A q \in Nat, c, d \in Int :
        [p EXCEPT !.quantity = q, !.cost = c, !.base = d] \in HoldingType
  BY DEF HoldingType
<1> QED BY <1>2, <1>3 DEF Bought

LEMMA SoldTyped ==
  ASSUME NEW S, Historical(S), NEW t \in S, t.kind = "SELL", NEW home,
         NEW p \in HoldingType, t.quantity <= p.quantity
  PROVE  Sold(p, t, home) \in HoldingType /\ p.quantity \in Nat \ {0}
<1>1. /\ NetProceeds(t) * Ulp \in Int /\ NetProceeds(t) * Ulp * RateToAccount(t, home) \in Int
      /\ t.quantity \in Nat /\ t.quantity # 0
  BY WorthTyped, RowTyped
<1>2. p.quantity \in Nat \ {0} /\ p.cost \in Int /\ p.base \in Int
  BY <1>1 DEF HoldingType
<1>3. /\ RoundDiv(p.cost, p.quantity) * t.quantity \in Int
      /\ RoundDiv(p.base, p.quantity) * t.quantity \in Int
  BY <1>1, <1>2, AllocatedTyped
<1>4. p.quantity - t.quantity \in Nat
  BY <1>1, <1>2
<1>5. PICK net, netBase, taken, takenBase \in Int :
        /\ net = NetProceeds(t) * Ulp /\ netBase = NetProceeds(t) * Ulp * RateToAccount(t, home)
        /\ taken = RoundDiv(p.cost, p.quantity) * t.quantity
        /\ takenBase = RoundDiv(p.base, p.quantity) * t.quantity
  BY <1>1, <1>3
<1>6. Sold(p, t, home) =
        [p EXCEPT
          !.realized = p.realized + net - taken,
          !.realizedBase = p.realizedBase + netBase - takenBase,
          !.quantity = p.quantity - t.quantity,
          !.cost = IF p.quantity - t.quantity = 0 THEN 0 ELSE p.cost - taken,
          !.base = IF p.quantity - t.quantity = 0 THEN 0 ELSE p.base - takenBase]
  BY <1>5 DEF Sold, HoldingType
<1>7. p.realized + net - taken \in Int /\ p.realizedBase + netBase - takenBase \in Int
      /\ p.cost - taken \in Int /\ p.base - takenBase \in Int
  BY <1>2 DEF HoldingType
<1>8. PICK q \in Nat, c, d, r, s \in Int :
        /\ q = p.quantity - t.quantity
        /\ c = IF q = 0 THEN 0 ELSE p.cost - taken
        /\ d = IF q = 0 THEN 0 ELSE p.base - takenBase
        /\ r = p.realized + net - taken /\ s = p.realizedBase + netBase - takenBase
  BY <1>4, <1>7
<1>9. Sold(p, t, home) =
        [p EXCEPT !.realized = r, !.realizedBase = s, !.quantity = q, !.cost = c, !.base = d]
  BY <1>6, <1>8
<1>10. Sold(p, t, home) \in HoldingType
  BY <1>9 DEF HoldingType
<1> QED BY <1>2, <1>10

LEMMA HoldingStepTyped ==
  ASSUME NEW S, Historical(S), NEW t \in S, NEW home, NEW p \in HoldingType
  PROVE  HoldingStep(t, p, home) \in HoldingType
<1>1. t.kind = "BUY" => Bought(p, t, home) \in HoldingType
  BY BoughtTyped
<1>2. t.kind = "SELL" /\ t.quantity <= p.quantity => Sold(p, t, home) \in HoldingType
  BY SoldTyped
<1>3. [p EXCEPT !.ok = FALSE] \in HoldingType
  BY DEF HoldingType
<1> QED BY <1>1, <1>2, <1>3 DEF HoldingStep

\* A replay is the step of the latest row after the replay of the others.
LEMMA HoldingUnfolds ==
  ASSUME NEW S, Historical(S), NEW home
  PROVE  /\ Holding(S, home) \in HoldingType
         /\ S = {} => Holding(S, home) = Flat
         /\ S # {} => Holding(S, home)
                        = HoldingStep(Latest(S), Holding(S \ {Latest(S)}, home), home)
<1> DEFINE V == HoldingType
           Recurses(T, iter) ==
             iter = [R \in SUBSET T |->
                       IF R = {} THEN Flat ELSE HoldingStep(Latest(R), iter[R \ {Latest(R)}], home)]
           fold(T) == CHOOSE iter : Recurses(T, iter)
           pick == [T \in SUBSET S |-> Latest(T)]
           step == [p \in S \X V |-> HoldingStep(p[1], p[2], home)]
<1>1. \A T \in SUBSET S : Historical(T) /\ IsFiniteSet(T) /\ (T # {} => Latest(T) \in T)
  BY PartHistorical, LatestExists DEF Historical
<1>2. \A t \in S, p \in V : step[<<t, p>>] = HoldingStep(t, p, home) /\ HoldingStep(t, p, home) \in V
  BY HoldingStepTyped
<1>3. \A T \in SUBSET S : pick[T] = Latest(T)
  OBVIOUS
<1>4. Flat \in V
  BY DEF Flat, HoldingType
<1>5. \A T : Holding(T, home) = fold(T)[T]
  BY DEF Holding, InOrder, MapThenFoldSet
<1>6. ASSUME NEW T \in SUBSET S
      PROVE  Folds(fold(T), step, Flat, pick, T) /\ fold(T)[T] \in V /\ Picks(pick, T)
  <2> HIDE DEF V, pick, step
  <2>1. Picks(pick, T)
    BY <1>1, <1>3 DEF Picks
  <2>2. Keeps(step, T, V)
    BY <1>2 DEF Keeps
  <2>3. PICK g \in [SUBSET T -> V] : Folds(g, step, Flat, pick, T)
    BY <1>1, <1>4, <2>1, <2>2, FoldExists
  <2>4. \A R \in SUBSET T : g[R] = IF R = {} THEN Flat ELSE HoldingStep(Latest(R), g[R \ {Latest(R)}], home)
    <3>1. \A R \in SUBSET T : R # {} => Latest(R) \in S /\ pick[R] = Latest(R) /\ R \ {Latest(R)} \in SUBSET T
      BY <1>1, <1>3
    <3> QED BY <1>2, <2>3, <3>1 DEF Folds, Unfolded
  <2>5. Recurses(T, g)
    BY <2>4
  <2>6. Recurses(T, fold(T))
    <3> HIDE DEF Recurses
    <3> QED BY <2>5
  <2> HIDE DEF fold
  <2>7. \A R \in SUBSET T :
          fold(T)[R] = IF R = {} THEN Flat ELSE HoldingStep(Latest(R), fold(T)[R \ {Latest(R)}], home)
    BY <2>6
  <2> HIDE DEF Recurses
  <2> DEFINE Good == {R \in SUBSET T : fold(T)[R] = g[R]}
  <2>8. \A R \in SUBSET T : (\A t \in R : R \ {t} \in Good) => fold(T)[R] = g[R]
    BY <1>1, <2>4, <2>7
  <2>9. \A R \in SUBSET T : fold(T)[R] = g[R]
    <3> SUFFICES ASSUME NEW R \in SUBSET T
                 PROVE  R \in Good
      OBVIOUS
    <3>1. Hereditary(Good, R) /\ IsFiniteSet(R)
      BY <1>1, <2>8 DEF Hereditary
    <3> HIDE DEF Good
    <3> QED BY <3>1, SubsetInduction
  <2> HIDE DEF Good
  <2>10. Folds(fold(T), step, Flat, pick, T)
    <3>1. \A R \in SUBSET T : R \ {pick[R]} \in SUBSET T
      OBVIOUS
    <3> QED BY <2>3, <2>9, <3>1 DEF Folds, Unfolded
  <2> QED BY <2>1, <2>3, <2>9, <2>10
<1> HIDE DEF V, fold, pick, step, Recurses
<1>7. S \in SUBSET S
  OBVIOUS
<1>8. ASSUME S # {}
      PROVE  fold(S)[S] = HoldingStep(Latest(S), fold(S \ {Latest(S)})[S \ {Latest(S)}], home)
  <2> DEFINE T == S \ {Latest(S)}
  <2>1. T \in SUBSET S /\ Latest(S) \in S /\ pick[S] = Latest(S) /\ IsFiniteSet(T)
    BY <1>1, <1>3, <1>7, <1>8
  <2>2. fold(S)[S] = step[<<Latest(S), fold(S)[T]>>]
    BY <1>6, <1>7, <1>8, <2>1 DEF Folds, Unfolded
  <2>3. fold(S)[T] = fold(T)[T]
    <3> HIDE DEF T
    <3>1. Folds(fold(S), step, Flat, pick, S) /\ Folds(fold(T), step, Flat, pick, T) /\ Picks(pick, T)
      BY <1>6, <1>7, <2>1
    <3> QED BY <2>1, <3>1, FoldsAgree
  <2>4. fold(T)[T] \in V
    BY <1>6, <2>1
  <2> QED BY <1>2, <2>1, <2>2, <2>3, <2>4
<1>9. S = {} => fold(S)[S] = Flat
  BY <1>6, <1>7 DEF Folds, Unfolded
<1> QED BY <1>5, <1>6, <1>7, <1>8, <1>9 DEF V

-----------------------------------------------------------------------------
(***************************************************************************)
(* What a replay refuses, and the quantity it arrives at.                  *)
(***************************************************************************)
LEMMA SignedSum ==
  ASSUME NEW S, Historical(S)
  PROVE  /\ \A t \in S : SignedQuantity(t) \in Int
         /\ Sum(SignedQuantity, S) \in Int
         /\ S = {} => Sum(SignedQuantity, S) = 0
         /\ \A t \in S : Sum(SignedQuantity, S)
                           = SignedQuantity(t) + Sum(SignedQuantity, S \ {t})
<1> DEFINE f == [t \in S |-> SignedQuantity(t)]
<1>1. \A t \in S : SignedQuantity(t) \in Int
  BY RowTyped DEF SignedQuantity, Kinds
<1>2. \A t \in S : f[t] = SignedQuantity(t)
  OBVIOUS
<1>3. ASSUME NEW T \in SUBSET S
      PROVE  Sum(SignedQuantity, T) = Over(f, T)
  <2>1. [t \in T |-> SignedQuantity(t)] = [t \in T |-> f[t]]
    OBVIOUS
  <2> HIDE DEF f
  <2> QED BY <2>1 DEF Sum, Over
<1>4. S \in SUBSET S /\ \A t \in S : S \ {t} \in SUBSET S
  OBVIOUS
<1>5. IsFiniteSet(S)
  BY DEF Historical
<1> HIDE DEF f
<1>6. /\ Over(f, S) \in Int
      /\ S = {} => Over(f, S) = 0
      /\ \A t \in S : Over(f, S) = f[t] + Over(f, S \ {t})
  BY <1>1, <1>2, <1>5, SumStep
<1> QED BY <1>1, <1>2, <1>3, <1>4, <1>6

\* The latest row counts for its own balance only.
LEMMA NetThroughLatest ==
  ASSUME NEW S, Historical(S), NEW t \in S, t = Latest(S)
  PROVE  /\ NetThrough(t, S) = Sum(SignedQuantity, S)
         /\ \A u \in S \ {t} : NetThrough(u, S) = NetThrough(u, S \ {t})
<1>1. \A u \in S \ {t} : Before(u, t) /\ ~Before(t, u)
  BY LatestExists, BeforeOrders
<1>2. {u \in S : u = t \/ Before(u, t)} = S
  BY <1>1
<1>3. \A u \in S \ {t} : {v \in S : v = u \/ Before(v, u)} = {v \in S \ {t} : v = u \/ Before(v, u)}
  BY <1>1
<1> QED BY <1>2, <1>3 DEF NetThrough

Exact(S, home) ==
  /\ Holding(S, home).ok <=> \A t \in S : NetThrough(t, S) >= 0
  /\ Holding(S, home).ok => Holding(S, home).quantity = Sum(SignedQuantity, S)

LEMMA ExactStep ==
  ASSUME NEW S, Historical(S), NEW home, S # {}, Exact(S \ {Latest(S)}, home)
  PROVE  Exact(S, home)
<1> DEFINE t == Latest(S)
           R == S \ {t}
           p == Holding(R, home)
<1>1. t \in S /\ Historical(R)
  BY LatestExists, PartHistorical
<1>2. p \in HoldingType /\ Holding(S, home) = HoldingStep(t, p, home)
  BY <1>1, HoldingUnfolds
<1>3. /\ NetThrough(t, S) = SignedQuantity(t) + Sum(SignedQuantity, R)
      /\ SignedQuantity(t) \in Int /\ Sum(SignedQuantity, S) = NetThrough(t, S)
      /\ Sum(SignedQuantity, R) \in Int
  BY <1>1, NetThroughLatest, SignedSum
<1>4. (\A u \in S : NetThrough(u, S) >= 0)
        <=> NetThrough(t, S) >= 0 /\ \A u \in R : NetThrough(u, R) >= 0
  BY <1>1, NetThroughLatest
<1>5. /\ p.ok <=> \A u \in R : NetThrough(u, R) >= 0
      /\ p.ok => p.quantity = Sum(SignedQuantity, R)
  BY DEF Exact
<1>6. t.quantity \in Nat /\ t.kind \in Kinds
  BY <1>1, RowTyped
<1>7. p.quantity \in Nat /\ p.ok \in BOOLEAN
  BY <1>2 DEF HoldingType
<1> HIDE DEF t, R, p
<1>8. CASE ~p.ok
  BY <1>2, <1>4, <1>5, <1>8 DEF HoldingStep, Exact
<1>9. CASE p.ok /\ t.kind = "BUY"
  <2>1. SignedQuantity(t) = t.quantity
    BY <1>9 DEF SignedQuantity
  <2>2. Holding(S, home).ok /\ Holding(S, home).quantity = p.quantity + t.quantity
    BY <1>2, <1>9 DEF HoldingStep, Bought, HoldingType
  <2> QED BY <1>3, <1>4, <1>5, <1>6, <1>7, <1>9, <2>1, <2>2 DEF Exact
<1>10. CASE p.ok /\ t.kind = "SELL" /\ t.quantity > p.quantity
  <2>1. SignedQuantity(t) = -t.quantity
    BY <1>10 DEF SignedQuantity
  <2>2. ~Holding(S, home).ok
    <3>1. Holding(S, home) = [p EXCEPT !.ok = FALSE]
      BY <1>2, <1>6, <1>7, <1>10 DEF HoldingStep
    <3> QED BY <1>2, <3>1 DEF HoldingType
  <2>3. ~(NetThrough(t, S) >= 0)
    BY <1>3, <1>5, <1>6, <1>7, <1>10, <2>1
  <2> QED BY <1>4, <2>2, <2>3 DEF Exact
<1>11. CASE p.ok /\ t.kind = "SELL" /\ t.quantity <= p.quantity
  <2>1. SignedQuantity(t) = -t.quantity
    BY <1>11 DEF SignedQuantity
  <2>2. Holding(S, home).ok /\ Holding(S, home).quantity = p.quantity - t.quantity
    <3>1. Holding(S, home) = Sold(p, t, home)
      BY <1>2, <1>6, <1>7, <1>11 DEF HoldingStep
    <3> QED BY <1>2, <1>11, <3>1 DEF Sold, HoldingType
  <2> QED BY <1>3, <1>4, <1>5, <1>6, <1>7, <1>11, <2>1, <2>2 DEF Exact
<1>12. CASE p.ok /\ t.kind \notin {"BUY", "SELL"}
  <2>1. SignedQuantity(t) = 0
    BY <1>12 DEF SignedQuantity
  <2>2. Holding(S, home) = p
    BY <1>2, <1>12 DEF HoldingStep
  <2> QED BY <1>3, <1>4, <1>5, <1>7, <1>12, <2>1, <2>2 DEF Exact
<1> QED BY <1>6, <1>7, <1>8, <1>9, <1>10, <1>11, <1>12

\* A replay fails exactly if some sale exceeds what is left of the purchases
\* before it, and otherwise holds purchases less sales.
LEMMA HoldingExact ==
  ASSUME NEW S, Historical(S), NEW home
  PROVE  Exact(S, home)
<1> DEFINE Good == {T \in SUBSET S : Exact(T, home)}
<1>1. ASSUME NEW T \in SUBSET S, \A t \in T : T \ {t} \in Good
      PROVE  Exact(T, home)
  <2>1. Historical(T)
    BY PartHistorical
  <2>2. CASE T = {}
    <3>1. Holding(T, home) = Flat /\ Sum(SignedQuantity, T) = 0
      BY <2>1, <2>2, HoldingUnfolds, SignedSum
    <3> QED BY <2>2, <3>1 DEF Exact, Flat
  <2>3. CASE T # {}
    <3>1. Exact(T \ {Latest(T)}, home)
      BY <1>1, <2>1, <2>3, LatestExists
    <3> QED BY <2>1, <2>3, <3>1, ExactStep
  <2> QED BY <2>2, <2>3
<1>2. Hereditary(Good, S) /\ IsFiniteSet(S)
  BY <1>1 DEF Hereditary, Historical
<1>3. S \in Good
  <2> HIDE DEF Good
  <2> QED BY <1>2, SubsetInduction
<1> QED BY <1>3

-----------------------------------------------------------------------------
(***************************************************************************)
(* The replay of cost_basis.py.                                            *)
(***************************************************************************)
PositionType == [quantity : Nat, cost : Int, base : Int]

EventType ==
  [id : Nat, security : Securities, day : Nat, allocated : Int, gain : Int,
   allocatedBase : Int, gainBase : Int]

ReportType ==
  [positions : UNION {[D -> PositionType] : D \in SUBSET Securities},
   events : Seq(EventType), ok : BOOLEAN]

NoReport == [positions |-> <<>>, events |-> <<>>, ok |-> TRUE]

Report(S, home) == InOrder(LAMBDA t, r : GainStep(t, r, home), NoReport, S)

PositionsWith(r, security, newPos) ==
  [s \in DOMAIN r.positions \cup {security} |-> IF s = security THEN newPos ELSE r.positions[s]]

LEMMA PositionsTyped ==
  ASSUME NEW r \in ReportType, NEW security \in Securities
  PROVE  /\ PositionIn(r, security) \in PositionType
         /\ \A newPos \in PositionType :
              PositionsWith(r, security, newPos) \in UNION {[D -> PositionType] : D \in SUBSET Securities}
<1>1. PICK D \in SUBSET Securities : r.positions \in [D -> PositionType]
  BY DEF ReportType
<1>2. NoPosition \in PositionType
  BY DEF NoPosition, PositionType
<1>3. DOMAIN r.positions = D /\ D \cup {security} \in SUBSET Securities
  BY <1>1
<1>4. \A newPos \in PositionType :
        PositionsWith(r, security, newPos) \in [D \cup {security} -> PositionType]
  BY <1>1, <1>3 DEF PositionsWith
<1> QED BY <1>1, <1>2, <1>3, <1>4 DEF PositionIn

\* The four cases of the step, from the position pos.
Steps(t, r, home, pos) ==
  /\ ~r.ok => GainStep(t, r, home) = r
  /\ r.ok /\ t.kind = "BUY" =>
       GainStep(t, r, home) =
         [r EXCEPT !.positions = PositionsWith(r, t.security, AfterPurchase(pos, t, home))]
  /\ r.ok /\ t.kind = "SELL" /\ t.quantity > pos.quantity =>
       GainStep(t, r, home) = [r EXCEPT !.ok = FALSE]
  /\ r.ok /\ t.kind = "SELL" /\ t.quantity <= pos.quantity =>
       GainStep(t, r, home) =
         [r EXCEPT !.positions = PositionsWith(r, t.security, AfterSale(pos, t, EventOf(t, pos, home))),
                   !.events = Append(@, EventOf(t, pos, home))]

LEMMA GainSteps ==
  ASSUME NEW S, Historical(S), NEW t \in S, NEW home, NEW r \in ReportType
  PROVE  Steps(t, r, home, PositionIn(r, t.security))
<1> DEFINE pos == PositionIn(r, t.security)
<1>1. pos \in PositionType /\ t.quantity \in Nat /\ t.security \in Securities
      /\ (t.kind = "SELL" => t.quantity # 0)
  BY PositionsTyped, RowTyped
<1>2. pos.quantity \in Nat
  BY <1>1 DEF PositionType
<1>3. ~(t.quantity > pos.quantity /\ t.quantity <= pos.quantity)
      /\ (t.quantity <= pos.quantity /\ t.quantity # 0 => pos.quantity # 0)
  BY <1>1, <1>2
<1> HIDE DEF pos
<1>4. ~r.ok => GainStep(t, r, home) = r
  BY DEF GainStep
<1>5. r.ok /\ t.kind = "BUY" =>
        GainStep(t, r, home) = [r EXCEPT !.positions = PositionsWith(r, t.security, AfterPurchase(pos, t, home))]
  BY DEF GainStep, PositionsWith, pos
<1>6. r.ok /\ t.kind = "SELL" /\ t.quantity > pos.quantity =>
        GainStep(t, r, home) = [r EXCEPT !.ok = FALSE]
  BY <1>3 DEF GainStep, pos
<1>7. r.ok /\ t.kind = "SELL" /\ t.quantity <= pos.quantity =>
        GainStep(t, r, home) =
          [r EXCEPT !.positions = PositionsWith(r, t.security, AfterSale(pos, t, EventOf(t, pos, home))),
                    !.events = Append(@, EventOf(t, pos, home))]
  BY <1>1, <1>3 DEF GainStep, PositionsWith, pos
<1>8. Steps(t, r, home, pos)
  BY <1>4, <1>5, <1>6, <1>7 DEF Steps
<1> QED BY <1>8 DEF pos

LEMMA EventTyped ==
  ASSUME NEW S, Historical(S), NEW t \in S, t.kind = "SELL", NEW home,
         NEW pos \in PositionType, t.quantity <= pos.quantity
  PROVE  /\ EventOf(t, pos, home) \in EventType
         /\ AfterSale(pos, t, EventOf(t, pos, home)) \in PositionType
<1>1. /\ NetProceeds(t) * Ulp \in Int /\ NetProceeds(t) * Ulp * RateToAccount(t, home) \in Int
      /\ t.quantity \in Nat /\ t.quantity # 0 /\ t.id \in Nat /\ t.day \in Nat
      /\ t.security \in Securities
  BY WorthTyped, RowTyped
<1>2. pos.quantity \in Nat \ {0} /\ pos.cost \in Int /\ pos.base \in Int
  BY <1>1 DEF PositionType
<1>3. PICK net, netBase, taken, takenBase \in Int :
        /\ net = NetProceeds(t) * Ulp /\ netBase = NetProceeds(t) * Ulp * RateToAccount(t, home)
        /\ taken = RoundDiv(pos.cost, pos.quantity) * t.quantity
        /\ takenBase = RoundDiv(pos.base, pos.quantity) * t.quantity
  BY <1>1, <1>2, AllocatedTyped
<1>4. EventOf(t, pos, home) =
        [id |-> t.id, security |-> t.security, day |-> t.day,
         allocated |-> taken, gain |-> net - taken,
         allocatedBase |-> takenBase, gainBase |-> netBase - takenBase]
  BY <1>3 DEF EventOf
<1>5. EventOf(t, pos, home) \in EventType
  BY <1>1, <1>4 DEF EventType
<1>6. AfterSale(pos, t, EventOf(t, pos, home)) =
        [quantity |-> pos.quantity - t.quantity,
         cost |-> IF pos.quantity - t.quantity = 0 THEN 0 ELSE pos.cost - taken,
         base |-> IF pos.quantity - t.quantity = 0 THEN 0 ELSE pos.base - takenBase]
  BY <1>4 DEF AfterSale
<1>7. PICK q \in Nat, c, d \in Int :
        /\ q = pos.quantity - t.quantity
        /\ c = IF q = 0 THEN 0 ELSE pos.cost - taken
        /\ d = IF q = 0 THEN 0 ELSE pos.base - takenBase
  <2>1. pos.quantity - t.quantity \in Nat /\ pos.cost - taken \in Int /\ pos.base - takenBase \in Int
    BY <1>1, <1>2
  <2> QED BY <2>1
<1>8. AfterSale(pos, t, EventOf(t, pos, home)) \in PositionType
  BY <1>6, <1>7 DEF PositionType
<1> QED BY <1>5, <1>8

LEMMA GainStepTyped ==
  ASSUME NEW S, Historical(S), NEW t \in S, t.kind \in {"BUY", "SELL"}, NEW home,
         NEW r \in ReportType
  PROVE  GainStep(t, r, home) \in ReportType
<1> DEFINE pos == PositionIn(r, t.security)
           event == EventOf(t, pos, home)
<1>1. t.security \in Securities /\ t.quantity \in Nat
  BY RowTyped
<1>2. pos \in PositionType
  BY <1>1, PositionsTyped
<1>3. pos.quantity \in Nat /\ r.ok \in BOOLEAN
  BY <1>2 DEF PositionType, ReportType
<1>4. Steps(t, r, home, pos)
  BY GainSteps
<1>5. CASE ~r.ok
  BY <1>4, <1>5 DEF Steps
<1>6. CASE r.ok /\ t.kind = "BUY"
  <2>1. AfterPurchase(pos, t, home) \in PositionType
    <3>1. Acquisition(t) * Ulp \in Int /\ Acquisition(t) * Ulp * RateToAccount(t, home) \in Int
      BY WorthTyped
    <3>2. PICK q, c, d : q = pos.quantity + t.quantity /\ c = pos.cost + Acquisition(t) * Ulp
                         /\ d = pos.base + Acquisition(t) * Ulp * RateToAccount(t, home)
      OBVIOUS
    <3>3. q \in Nat /\ c \in Int /\ d \in Int
      BY <1>1, <1>2, <3>1, <3>2 DEF PositionType
    <3> HIDE DEF pos
    <3> QED BY <3>2, <3>3 DEF AfterPurchase, PositionType
  <2>2. GainStep(t, r, home) = [r EXCEPT !.positions = PositionsWith(r, t.security, AfterPurchase(pos, t, home))]
    BY <1>4, <1>6 DEF Steps
  <2>3. PositionsWith(r, t.security, AfterPurchase(pos, t, home))
          \in UNION {[D -> PositionType] : D \in SUBSET Securities}
    BY <1>1, <2>1, PositionsTyped
  <2> HIDE DEF pos
  <2> QED BY <2>2, <2>3 DEF ReportType
<1>7. CASE r.ok /\ t.kind = "SELL" /\ t.quantity > pos.quantity
  <2>1. GainStep(t, r, home) = [r EXCEPT !.ok = FALSE]
    BY <1>4, <1>7 DEF Steps
  <2> QED BY <2>1 DEF ReportType
<1>8. CASE r.ok /\ t.kind = "SELL" /\ t.quantity <= pos.quantity
  <2>1. event \in EventType /\ AfterSale(pos, t, event) \in PositionType
    BY <1>2, <1>8, EventTyped
  <2>2. GainStep(t, r, home) =
          [r EXCEPT !.positions = PositionsWith(r, t.security, AfterSale(pos, t, event)),
                    !.events = Append(@, event)]
    BY <1>4, <1>8 DEF Steps
  <2>3. PositionsWith(r, t.security, AfterSale(pos, t, event))
          \in UNION {[D -> PositionType] : D \in SUBSET Securities}
    BY <1>1, <2>1, PositionsTyped
  <2> HIDE DEF pos, event
  <2>4. Append(r.events, event) \in Seq(EventType)
    BY <2>1 DEF ReportType
  <2> QED BY <2>2, <2>3, <2>4 DEF ReportType
<1> QED
  <2> HIDE DEF pos
  <2> QED BY <1>1, <1>3, <1>5, <1>6, <1>7, <1>8

\* So is this one.
LEMMA ReportUnfolds ==
  ASSUME NEW S, Historical(S), \A t \in S : t.kind \in {"BUY", "SELL"}, NEW home
  PROVE  /\ Report(S, home) \in ReportType
         /\ S = {} => Report(S, home) = NoReport
         /\ S # {} => Report(S, home)
                        = GainStep(Latest(S), Report(S \ {Latest(S)}, home), home)
<1> DEFINE V == ReportType
           Recurses(T, iter) ==
             iter = [R \in SUBSET T |->
                       IF R = {} THEN NoReport ELSE GainStep(Latest(R), iter[R \ {Latest(R)}], home)]
           fold(T) == CHOOSE iter : Recurses(T, iter)
           pick == [T \in SUBSET S |-> Latest(T)]
           step == [p \in S \X V |-> GainStep(p[1], p[2], home)]
<1>1. \A T \in SUBSET S : Historical(T) /\ IsFiniteSet(T) /\ (T # {} => Latest(T) \in T)
  BY PartHistorical, LatestExists DEF Historical
<1>2. \A t \in S, p \in V : step[<<t, p>>] = GainStep(t, p, home) /\ GainStep(t, p, home) \in V
  BY GainStepTyped
<1>3. \A T \in SUBSET S : pick[T] = Latest(T)
  OBVIOUS
<1>4. NoReport \in V
  <2>1. <<>> \in [{} -> PositionType] /\ <<>> \in Seq(EventType)
    OBVIOUS
  <2>2. <<>> \in UNION {[D -> PositionType] : D \in SUBSET Securities}
    BY <2>1
  <2> QED BY <2>1, <2>2 DEF NoReport, ReportType
<1>5. \A T : Report(T, home) = fold(T)[T]
  BY DEF Report, InOrder, MapThenFoldSet
<1>6. ASSUME NEW T \in SUBSET S
      PROVE  Folds(fold(T), step, NoReport, pick, T) /\ fold(T)[T] \in V /\ Picks(pick, T)
  <2> HIDE DEF V, pick, step
  <2>1. Picks(pick, T)
    BY <1>1, <1>3 DEF Picks
  <2>2. Keeps(step, T, V)
    BY <1>2 DEF Keeps
  <2>3. PICK g \in [SUBSET T -> V] : Folds(g, step, NoReport, pick, T)
    BY <1>1, <1>4, <2>1, <2>2, FoldExists
  <2>4. \A R \in SUBSET T : g[R] = IF R = {} THEN NoReport ELSE GainStep(Latest(R), g[R \ {Latest(R)}], home)
    <3>1. \A R \in SUBSET T : R # {} => Latest(R) \in S /\ pick[R] = Latest(R) /\ R \ {Latest(R)} \in SUBSET T
      BY <1>1, <1>3
    <3> QED BY <1>2, <2>3, <3>1 DEF Folds, Unfolded
  <2>5. Recurses(T, g)
    BY <2>4
  <2>6. Recurses(T, fold(T))
    <3> HIDE DEF Recurses
    <3> QED BY <2>5
  <2> HIDE DEF fold
  <2>7. \A R \in SUBSET T :
          fold(T)[R] = IF R = {} THEN NoReport ELSE GainStep(Latest(R), fold(T)[R \ {Latest(R)}], home)
    BY <2>6
  <2> HIDE DEF Recurses
  <2> DEFINE Good == {R \in SUBSET T : fold(T)[R] = g[R]}
  <2>8. \A R \in SUBSET T : (\A t \in R : R \ {t} \in Good) => fold(T)[R] = g[R]
    BY <1>1, <2>4, <2>7
  <2>9. \A R \in SUBSET T : fold(T)[R] = g[R]
    <3> SUFFICES ASSUME NEW R \in SUBSET T
                 PROVE  R \in Good
      OBVIOUS
    <3>1. Hereditary(Good, R) /\ IsFiniteSet(R)
      BY <1>1, <2>8 DEF Hereditary
    <3> HIDE DEF Good
    <3> QED BY <3>1, SubsetInduction
  <2> HIDE DEF Good
  <2>10. Folds(fold(T), step, NoReport, pick, T)
    <3>1. \A R \in SUBSET T : R \ {pick[R]} \in SUBSET T
      OBVIOUS
    <3> QED BY <2>3, <2>9, <3>1 DEF Folds, Unfolded
  <2> QED BY <2>1, <2>3, <2>9, <2>10
<1> HIDE DEF V, fold, pick, step, Recurses
<1>7. S \in SUBSET S
  OBVIOUS
<1>8. ASSUME S # {}
      PROVE  fold(S)[S] = GainStep(Latest(S), fold(S \ {Latest(S)})[S \ {Latest(S)}], home)
  <2> DEFINE T == S \ {Latest(S)}
  <2>1. T \in SUBSET S /\ Latest(S) \in S /\ pick[S] = Latest(S) /\ IsFiniteSet(T)
    BY <1>1, <1>3, <1>7, <1>8
  <2>2. fold(S)[S] = step[<<Latest(S), fold(S)[T]>>]
    BY <1>6, <1>7, <1>8, <2>1 DEF Folds, Unfolded
  <2>3. fold(S)[T] = fold(T)[T]
    <3> HIDE DEF T
    <3>1. Folds(fold(S), step, NoReport, pick, S) /\ Folds(fold(T), step, NoReport, pick, T) /\ Picks(pick, T)
      BY <1>6, <1>7, <2>1
    <3> QED BY <2>1, <3>1, FoldsAgree
  <2>4. fold(T)[T] \in V
    BY <1>6, <2>1
  <2> QED BY <1>2, <2>1, <2>2, <2>3, <2>4
<1>9. S = {} => fold(S)[S] = NoReport
  BY <1>6, <1>7 DEF Folds, Unfolded
<1> QED BY <1>5, <1>6, <1>7, <1>8, <1>9 DEF V

-----------------------------------------------------------------------------
(***************************************************************************)
(* The two replays, side by side.                                          *)
(***************************************************************************)
\* Rows that are no purchase and no sale leave a holding alone.
Shares(S) == {t \in S : t.kind \in {"BUY", "SELL"}}

LEMMA HoldingReadsShares ==
  ASSUME NEW S, Historical(S), NEW home
  PROVE  Holding(S, home) = Holding(Shares(S), home)
<1> DEFINE Good == {T \in SUBSET S : Holding(T, home) = Holding(Shares(T), home)}
<1>1. ASSUME NEW T \in SUBSET S, \A t \in T : T \ {t} \in Good
      PROVE  Holding(T, home) = Holding(Shares(T), home)
  <2>1. Historical(T)
    BY PartHistorical
  <2>2. CASE T = {}
    <3>1. Shares(T) = T
      BY <2>2 DEF Shares
    <3> QED BY <3>1
  <2>3. CASE T # {}
    <3> DEFINE t == Latest(T)
               R == T \ {t}
    <3>1. t \in T
      BY <2>1, <2>3, LatestExists
    <3>2. Holding(T, home) = HoldingStep(t, Holding(R, home), home)
      BY <2>1, <2>3, HoldingUnfolds
    <3>3. Holding(R, home) = Holding(Shares(R), home)
      BY <1>1, <3>1
    <3>4. CASE t.kind \in {"BUY", "SELL"}
      <4>1. t \in Shares(T) /\ Shares(T) \in SUBSET T /\ Shares(T) \ {t} = Shares(R)
        BY <3>1, <3>4 DEF Shares
      <4>2. Latest(Shares(T)) = t /\ Historical(Shares(T)) /\ Shares(T) # {}
        BY <2>1, <4>1, LatestOfPart, PartHistorical
      <4>3. Holding(Shares(T), home) = HoldingStep(t, Holding(Shares(R), home), home)
        <5> HIDE DEF t, R
        <5> QED BY <4>1, <4>2, HoldingUnfolds
      <4> QED BY <3>2, <3>3, <4>3
    <3>5. CASE t.kind \notin {"BUY", "SELL"}
      <4>1. Shares(T) = Shares(R)
        BY <3>5 DEF Shares
      <4>2. \A p : HoldingStep(t, p, home) = p
        BY <3>5 DEF HoldingStep
      <4> HIDE DEF t, R
      <4> QED BY <3>2, <3>3, <4>1, <4>2
    <3> QED BY <3>4, <3>5
  <2> QED BY <2>2, <2>3
<1>2. Hereditary(Good, S) /\ IsFiniteSet(S)
  BY <1>1 DEF Hereditary, Historical
<1>3. S \in Good
  <2> HIDE DEF Good
  <2> QED BY <1>2, SubsetInduction
<1> QED BY <1>3

\* The sales a report lists of a security.
SalesOf(r, s) == {r.events[i] : i \in {j \in DOMAIN r.events : r.events[j].security = s}}

LEMMA SalesTyped ==
  ASSUME NEW r \in ReportType, NEW s
  PROVE  IsFiniteSet(SalesOf(r, s)) /\ SalesOf(r, s) \subseteq EventType
<1> DEFINE these == {j \in DOMAIN r.events : r.events[j].security = s}
           f == [i \in these |-> r.events[i]]
<1>1. r.events \in Seq(EventType)
  BY DEF ReportType
<1>2. Len(r.events) \in Nat /\ DOMAIN r.events = 1..Len(r.events)
  BY <1>1
<1>3. IsFiniteSet(DOMAIN r.events)
  BY <1>2, FS_Interval
<1>4. IsFiniteSet(these)
  BY <1>3, FS_Subset
<1>5. f \in Surjection(these, SalesOf(r, s))
  BY DEF Surjection, SalesOf
<1>6. IsFiniteSet(SalesOf(r, s))
  <2> HIDE DEF these, f
  <2> QED BY <1>4, <1>5, FS_Surjection
<1>7. SalesOf(r, s) \subseteq EventType
  BY <1>1 DEF SalesOf
<1> QED BY <1>6, <1>7

Appends(q, r, e) == q.events = Append(r.events, e)
Lists(q, r, e) ==
  \A s : SalesOf(q, s) = IF e.security = s THEN SalesOf(r, s) \cup {e} ELSE SalesOf(r, s)

LEMMA SalesAppended ==
  ASSUME NEW r \in ReportType, NEW q, NEW e \in EventType, Appends(q, r, e)
  PROVE  Lists(q, r, e)
<1>1. PICK n \in Nat : n = Len(r.events) /\ DOMAIN r.events = 1..n
  BY DEF ReportType
<1>2. DOMAIN q.events = 1..(n + 1) /\ q.events[n + 1] = e
      /\ \A i \in 1..n : q.events[i] = r.events[i]
  BY <1>1 DEF ReportType, Appends
<1>3. \A i : i \in 1..(n + 1) <=> i \in 1..n \/ i = n + 1
  OBVIOUS
<1>4. \A x, s : x \in SalesOf(q, s) <=> x \in SalesOf(r, s) \/ (x = e /\ e.security = s)
  BY <1>1, <1>2, <1>3 DEF SalesOf
<1> QED BY <1>4 DEF Lists

\* Sums over sales: of their gains, in both currencies, and of their costs.
LEMMA SaleSums ==
  ASSUME NEW E \in SUBSET EventType, IsFiniteSet(E)
  PROVE  /\ Sum(LAMBDA e : e.gain, E) \in Int /\ Sum(LAMBDA e : e.gainBase, E) \in Int
         /\ Sum(LAMBDA e : e.allocated, E) \in Int
         /\ E = {} => /\ Sum(LAMBDA e : e.gain, E) = 0 /\ Sum(LAMBDA e : e.gainBase, E) = 0
                      /\ Sum(LAMBDA e : e.allocated, E) = 0
         /\ \A x \in EventType \ E :
              /\ Sum(LAMBDA e : e.gain, E \cup {x}) = x.gain + Sum(LAMBDA e : e.gain, E)
              /\ Sum(LAMBDA e : e.gainBase, E \cup {x}) = x.gainBase + Sum(LAMBDA e : e.gainBase, E)
              /\ Sum(LAMBDA e : e.allocated, E \cup {x}) = x.allocated + Sum(LAMBDA e : e.allocated, E)
<1> DEFINE gain == [e \in EventType |-> e.gain]
           gainBase == [e \in EventType |-> e.gainBase]
           allocated == [e \in EventType |-> e.allocated]
<1>1. \A e \in EventType : /\ gain[e] = e.gain /\ gainBase[e] = e.gainBase /\ allocated[e] = e.allocated
                           /\ gain[e] \in Int /\ gainBase[e] \in Int /\ allocated[e] \in Int
  BY DEF EventType
<1> HIDE DEF gain, gainBase, allocated
<1>2. \A T \in SUBSET EventType :
        /\ Sum(LAMBDA e : e.gain, T) = Over(gain, T)
        /\ Sum(LAMBDA e : e.gainBase, T) = Over(gainBase, T)
        /\ Sum(LAMBDA e : e.allocated, T) = Over(allocated, T)
  <2> SUFFICES ASSUME NEW T \in SUBSET EventType
               PROVE  /\ Sum(LAMBDA e : e.gain, T) = Over(gain, T)
                      /\ Sum(LAMBDA e : e.gainBase, T) = Over(gainBase, T)
                      /\ Sum(LAMBDA e : e.allocated, T) = Over(allocated, T)
    OBVIOUS
  <2>1. [e \in T |-> e.gain] = [e \in T |-> gain[e]]
    BY <1>1
  <2>2. [e \in T |-> e.gainBase] = [e \in T |-> gainBase[e]]
    BY <1>1
  <2>3. [e \in T |-> e.allocated] = [e \in T |-> allocated[e]]
    BY <1>1
  <2> QED BY <2>1, <2>2, <2>3 DEF Sum, Over
<1>3. \A f : (\A e \in EventType : f[e] \in Int) =>
        /\ Over(f, E) \in Int /\ (E = {} => Over(f, E) = 0)
        /\ \A x \in EventType \ E : Over(f, E \cup {x}) = f[x] + Over(f, E)
  <2> SUFFICES ASSUME NEW f, \A e \in EventType : f[e] \in Int
               PROVE  /\ Over(f, E) \in Int /\ (E = {} => Over(f, E) = 0)
                      /\ \A x \in EventType \ E : Over(f, E \cup {x}) = f[x] + Over(f, E)
    OBVIOUS
  <2>1. Over(f, E) \in Int /\ (E = {} => Over(f, E) = 0)
    BY SumStep
  <2>2. ASSUME NEW x \in EventType \ E
        PROVE  Over(f, E \cup {x}) = f[x] + Over(f, E)
    <3>1. IsFiniteSet(E \cup {x}) /\ (E \cup {x}) \ {x} = E /\ x \in E \cup {x}
          /\ \A e \in E \cup {x} : f[e] \in Int
      BY FS_AddElement
    <3>2. Over(f, E \cup {x}) = f[x] + Over(f, (E \cup {x}) \ {x})
      BY <3>1, SumStep
    <3> QED BY <3>1, <3>2
  <2> QED BY <2>1, <2>2
<1>4. \A x \in EventType : E \cup {x} \in SUBSET EventType
  OBVIOUS
<1> QED BY <1>1, <1>2, <1>3, <1>4

LEMMA PositionUpdated ==
  ASSUME NEW r, NEW security, NEW newPos, NEW q, q.positions = PositionsWith(r, security, newPos)
  PROVE  \A s : PositionIn(q, s) = IF s = security THEN newPos ELSE PositionIn(r, s)
BY DEF PositionIn, PositionsWith

\* The report r has of a security what its holding p has.
Matches(r, p, s) ==
  /\ PositionIn(r, s) = [quantity |-> p.quantity, cost |-> p.cost, base |-> p.base]
  /\ Sum(LAMBDA e : e.gain, SalesOf(r, s)) = p.realized
  /\ Sum(LAMBDA e : e.gainBase, SalesOf(r, s)) = p.realizedBase

\* q follows r by a row: of no other security anything changes, and a sale may
\* be listed, under the id of the row.
Follows(q, r, t) ==
  /\ \A s : s # t.security => PositionIn(q, s) = PositionIn(r, s) /\ SalesOf(q, s) = SalesOf(r, s)
  /\ \A s : \A e \in SalesOf(q, s) \ SalesOf(r, s) : e.id = t.id

LEMMA PurchaseMatches ==
  ASSUME NEW S, Historical(S), NEW t \in S, t.kind = "BUY", NEW home,
         NEW r \in ReportType, r.ok, NEW p \in HoldingType, p.ok, Matches(r, p, t.security)
  PROVE  /\ GainStep(t, r, home).ok /\ HoldingStep(t, p, home).ok
         /\ Matches(GainStep(t, r, home), HoldingStep(t, p, home), t.security)
         /\ Follows(GainStep(t, r, home), r, t)
<1> DEFINE pos == PositionIn(r, t.security)
           q == GainStep(t, r, home)
<1>1. Steps(t, r, home, pos)
  BY GainSteps
<1>2. q = [r EXCEPT !.positions = PositionsWith(r, t.security, AfterPurchase(pos, t, home))]
  BY <1>1 DEF Steps
<1>3. q.ok /\ q.events = r.events /\ q.positions = PositionsWith(r, t.security, AfterPurchase(pos, t, home))
  BY <1>2 DEF ReportType
<1>4. HoldingStep(t, p, home) = Bought(p, t, home)
  BY DEF HoldingStep
<1>5. pos = [quantity |-> p.quantity, cost |-> p.cost, base |-> p.base]
  BY DEF Matches
<1>6. AfterPurchase(pos, t, home)
        = [quantity |-> p.quantity + t.quantity, cost |-> p.cost + Acquisition(t) * Ulp,
           base |-> p.base + Acquisition(t) * Ulp * RateToAccount(t, home)]
  <2> HIDE DEF pos
  <2> QED BY <1>5 DEF AfterPurchase
<1>7. /\ Bought(p, t, home).quantity = p.quantity + t.quantity
      /\ Bought(p, t, home).cost = p.cost + Acquisition(t) * Ulp
      /\ Bought(p, t, home).base = p.base + Acquisition(t) * Ulp * RateToAccount(t, home)
      /\ Bought(p, t, home).realized = p.realized /\ Bought(p, t, home).realizedBase = p.realizedBase
      /\ Bought(p, t, home).ok
  BY DEF Bought, HoldingType
<1>8. \A s : PositionIn(q, s) = IF s = t.security THEN AfterPurchase(pos, t, home) ELSE PositionIn(r, s)
  <2> HIDE DEF pos, q
  <2> QED BY <1>3, PositionUpdated
<1>9. \A s : SalesOf(q, s) = SalesOf(r, s)
  BY <1>3 DEF SalesOf
<1> HIDE DEF pos, q
<1>10. Matches(q, Bought(p, t, home), t.security)
  BY <1>6, <1>7, <1>8, <1>9 DEF Matches
<1>11. Follows(q, r, t)
  BY <1>8, <1>9 DEF Follows
<1> QED BY <1>3, <1>4, <1>7, <1>10, <1>11 DEF q

LEMMA SaleMatches ==
  ASSUME NEW S, Historical(S), NEW t \in S, t.kind = "SELL", NEW home,
         NEW r \in ReportType, r.ok, NEW p \in HoldingType, p.ok, Matches(r, p, t.security),
         t.quantity <= p.quantity, \A e \in SalesOf(r, t.security) : e.id # t.id
  PROVE  /\ GainStep(t, r, home).ok /\ HoldingStep(t, p, home).ok
         /\ Matches(GainStep(t, r, home), HoldingStep(t, p, home), t.security)
         /\ Follows(GainStep(t, r, home), r, t)
<1> DEFINE pos == PositionIn(r, t.security)
           q == GainStep(t, r, home)
           e == EventOf(t, pos, home)
<1>1. Steps(t, r, home, pos) /\ t.security \in Securities
  BY GainSteps, RowTyped
<1>2. pos = [quantity |-> p.quantity, cost |-> p.cost, base |-> p.base] /\ pos \in PositionType
  BY <1>1, PositionsTyped DEF Matches
<1>3. t.quantity <= pos.quantity
  BY <1>2
<1>4. q = [r EXCEPT !.positions = PositionsWith(r, t.security, AfterSale(pos, t, e)),
                    !.events = Append(@, e)]
  BY <1>1, <1>3 DEF Steps
<1>5. q.ok /\ q.events = Append(r.events, e)
      /\ q.positions = PositionsWith(r, t.security, AfterSale(pos, t, e))
  BY <1>4 DEF ReportType
<1>6. e \in EventType
  BY <1>2, <1>3, EventTyped
<1>7. HoldingStep(t, p, home) = Sold(p, t, home)
  <2>1. t.quantity \in Nat /\ p.quantity \in Nat
    BY RowTyped DEF HoldingType
  <2> QED BY <2>1 DEF HoldingStep
<1>8. PICK taken, takenBase, net, netBase \in Int :
        /\ taken = RoundDiv(p.cost, p.quantity) * t.quantity
        /\ takenBase = RoundDiv(p.base, p.quantity) * t.quantity
        /\ net = NetProceeds(t) * Ulp /\ netBase = NetProceeds(t) * Ulp * RateToAccount(t, home)
  <2>1. p.quantity \in Nat \ {0} /\ p.cost \in Int /\ p.base \in Int /\ t.quantity \in Nat
    BY SoldTyped, RowTyped DEF HoldingType
  <2>2. /\ RoundDiv(p.cost, p.quantity) * t.quantity \in Int
        /\ RoundDiv(p.base, p.quantity) * t.quantity \in Int
    BY <2>1, AllocatedTyped
  <2>3. NetProceeds(t) * Ulp \in Int /\ NetProceeds(t) * Ulp * RateToAccount(t, home) \in Int
    BY WorthTyped
  <2> QED BY <2>2, <2>3
<1>9. e = [id |-> t.id, security |-> t.security, day |-> t.day, allocated |-> taken,
           gain |-> net - taken, allocatedBase |-> takenBase, gainBase |-> netBase - takenBase]
  BY <1>2, <1>8 DEF EventOf
<1>10. AfterSale(pos, t, e) =
         [quantity |-> p.quantity - t.quantity,
          cost |-> IF p.quantity - t.quantity = 0 THEN 0 ELSE p.cost - taken,
          base |-> IF p.quantity - t.quantity = 0 THEN 0 ELSE p.base - takenBase]
  BY <1>2, <1>9 DEF AfterSale
<1>11. /\ Sold(p, t, home).quantity = p.quantity - t.quantity
       /\ Sold(p, t, home).cost = IF p.quantity - t.quantity = 0 THEN 0 ELSE p.cost - taken
       /\ Sold(p, t, home).base = IF p.quantity - t.quantity = 0 THEN 0 ELSE p.base - takenBase
       /\ Sold(p, t, home).realized = p.realized + net - taken
       /\ Sold(p, t, home).realizedBase = p.realizedBase + netBase - takenBase
       /\ Sold(p, t, home).ok
  BY <1>8 DEF Sold, HoldingType
<1> HIDE DEF e
<1>12. \A s : PositionIn(q, s) = IF s = t.security THEN AfterSale(pos, t, e) ELSE PositionIn(r, s)
  <2> HIDE DEF pos, q
  <2> QED BY <1>5, PositionUpdated
<1>13. \A s : SalesOf(q, s) = IF e.security = s THEN SalesOf(r, s) \cup {e} ELSE SalesOf(r, s)
  <2>1. Appends(q, r, e)
    BY <1>5 DEF Appends
  <2> HIDE DEF pos, q
  <2>2. Lists(q, r, e)
    BY <1>6, <2>1, SalesAppended
  <2> QED BY <2>2 DEF Lists
<1> HIDE DEF pos, q
<1>14. e.id = t.id /\ e.security = t.security /\ e.gain = net - taken /\ e.gainBase = netBase - takenBase
  BY <1>9
<1>15. /\ Sum(LAMBDA x : x.gain, SalesOf(q, t.security)) = Sold(p, t, home).realized
       /\ Sum(LAMBDA x : x.gainBase, SalesOf(q, t.security)) = Sold(p, t, home).realizedBase
  <2> DEFINE E == SalesOf(r, t.security)
  <2>1. E \in SUBSET EventType /\ IsFiniteSet(E) /\ e \in EventType \ E
    BY <1>6, <1>14, SalesTyped
  <2>2. SalesOf(q, t.security) = E \cup {e}
    BY <1>13, <1>14
  <2>3. Sum(LAMBDA x : x.gain, E) = p.realized /\ Sum(LAMBDA x : x.gainBase, E) = p.realizedBase
    BY DEF Matches
  <2>4. p.realized \in Int /\ p.realizedBase \in Int
    BY DEF HoldingType
  <2> HIDE DEF E
  <2>5. /\ Sum(LAMBDA x : x.gain, E \cup {e}) = e.gain + Sum(LAMBDA x : x.gain, E)
        /\ Sum(LAMBDA x : x.gainBase, E \cup {e}) = e.gainBase + Sum(LAMBDA x : x.gainBase, E)
    BY <2>1, SaleSums
  <2>6. (net - taken) + p.realized = p.realized + net - taken
        /\ (netBase - takenBase) + p.realizedBase = p.realizedBase + netBase - takenBase
    BY <2>4
  <2> QED BY <1>11, <1>14, <2>2, <2>3, <2>5, <2>6
<1>16. Matches(q, Sold(p, t, home), t.security)
  BY <1>10, <1>11, <1>12, <1>15 DEF Matches
<1>17. Follows(q, r, t)
  BY <1>12, <1>13, <1>14 DEF Follows
<1> QED BY <1>5, <1>7, <1>11, <1>16, <1>17 DEF q

OfSecurity(S, s) == {t \in S : t.security = s}

\* The report over S has what the holdings page has of every security.
Booked(S, home) ==
  /\ Report(S, home).ok <=> \A s \in Securities : Holding(OfSecurity(S, s), home).ok
  /\ Report(S, home).ok => \A s \in Securities :
       Matches(Report(S, home), Holding(OfSecurity(S, s), home), s)
  /\ \A s : \A e \in SalesOf(Report(S, home), s) : \E t \in S : t.id = e.id

LEMMA BookedStep ==
  ASSUME NEW S, Historical(S), \A t \in S : t.kind \in {"BUY", "SELL"}, NEW home,
         S # {}, Booked(S \ {Latest(S)}, home)
  PROVE  Booked(S, home)
<1> DEFINE t == Latest(S)
           R == S \ {t}
           r == Report(R, home)
           q == Report(S, home)
           before(s) == Holding(OfSecurity(R, s), home)
           after(s) == Holding(OfSecurity(S, s), home)
<1>1. t \in S /\ Historical(R) /\ t.kind \in {"BUY", "SELL"} /\ t.security \in Securities
  BY LatestExists, PartHistorical, RowTyped
<1>2. r \in ReportType /\ q = GainStep(t, r, home)
  BY <1>1, ReportUnfolds
<1>3. \A s : s # t.security => after(s) = before(s)
  <2>1. \A s : s # t.security => OfSecurity(S, s) = OfSecurity(R, s)
    BY DEF OfSecurity
  <2> QED BY <2>1
<1>4. before(t.security) \in HoldingType
      /\ after(t.security) = HoldingStep(t, before(t.security), home)
  <2> DEFINE T == OfSecurity(S, t.security)
  <2>1. T \in SUBSET S /\ t \in T /\ T \ {t} = OfSecurity(R, t.security)
    BY <1>1 DEF OfSecurity
  <2>2. Historical(T) /\ Historical(T \ {t}) /\ T # {} /\ Latest(T) = t
    BY <2>1, PartHistorical, LatestOfPart
  <2> HIDE DEF T, t, R
  <2>3. Holding(T, home) = HoldingStep(t, Holding(T \ {t}, home), home)
        /\ Holding(T \ {t}, home) \in HoldingType
    BY <2>2, HoldingUnfolds
  <2> QED BY <2>1, <2>3 DEF T
<1>5. /\ r.ok <=> \A s \in Securities : before(s).ok
      /\ r.ok => \A s \in Securities : Matches(r, before(s), s)
      /\ \A s : \A e \in SalesOf(r, s) : \E u \in R : u.id = e.id
  BY DEF Booked
<1>6. r.ok \in BOOLEAN /\ before(t.security).ok \in BOOLEAN /\ before(t.security).quantity \in Nat
  BY <1>2, <1>4 DEF ReportType, HoldingType
<1>7. \A s : \A e \in SalesOf(r, s) : e.id # t.id
  <2>1. \A u \in R : u \in S /\ u # t
    OBVIOUS
  <2> QED BY <1>1, <1>5, <2>1 DEF Historical
<1>8. PICK p \in HoldingType : p = before(t.security) /\ after(t.security) = HoldingStep(t, p, home)
  BY <1>4
<1>9. R \in SUBSET S
  OBVIOUS
<1>10. Booked(S, home) <=>
         /\ q.ok <=> \A s \in Securities : after(s).ok
         /\ q.ok => \A s \in Securities : Matches(q, after(s), s)
         /\ \A s : \A e \in SalesOf(q, s) : \E u \in S : u.id = e.id
  BY DEF Booked
<1>11. \A u \in R : u \in S
  BY <1>9
<1> HIDE DEF t, R, r, q, before, after
\* A sale or a purchase that both apply.
<1>12. ASSUME r.ok, q.ok, after(t.security).ok, Matches(q, after(t.security), t.security),
              Follows(q, r, t)
       PROVE  Booked(S, home)
  <2>1. \A s \in Securities : after(s).ok
    BY <1>3, <1>5, <1>12
  <2>2. ASSUME NEW s \in Securities
        PROVE  Matches(q, after(s), s)
    <3>1. CASE s = t.security
      BY <1>12, <3>1
    <3>2. CASE s # t.security
      <4>1. after(s) = before(s) /\ PositionIn(q, s) = PositionIn(r, s) /\ SalesOf(q, s) = SalesOf(r, s)
        BY <1>3, <1>12, <3>2 DEF Follows
      <4>2. Matches(r, before(s), s)
        BY <1>5, <1>12
      <4> QED BY <4>1, <4>2 DEF Matches
    <3> QED BY <3>1, <3>2
  <2>3. ASSUME NEW s, NEW e \in SalesOf(q, s)
        PROVE  \E u \in S : u.id = e.id
    <3>1. CASE e \in SalesOf(r, s)
      BY <1>5, <1>11, <3>1
    <3>2. CASE e \notin SalesOf(r, s)
      BY <1>1, <1>12, <3>2 DEF Follows
    <3> QED BY <3>1, <3>2
  <2> QED BY <1>10, <1>12, <2>1, <2>2, <2>3
\* A row after which both refuse.
<1>13. ASSUME ~q.ok, q.events = r.events, \E s \in Securities : ~after(s).ok
       PROVE  Booked(S, home)
  <2>1. \A s : SalesOf(q, s) = SalesOf(r, s)
    BY <1>13 DEF SalesOf
  <2> QED BY <1>5, <1>10, <1>11, <1>13, <2>1
<1>14. Steps(t, r, home, PositionIn(r, t.security))
  BY <1>1, <1>2, GainSteps
<1>15. CASE ~r.ok
  <2>1. q = r
    BY <1>2, <1>14, <1>15 DEF Steps
  <2>2. \E s \in Securities : ~after(s).ok
    <3>1. PICK s \in Securities : ~before(s).ok
      BY <1>5, <1>15
    <3>2. CASE s = t.security
      BY <1>8, <3>1, <3>2 DEF HoldingStep
    <3>3. CASE s # t.security
      BY <1>3, <3>1, <3>3
    <3> QED BY <3>2, <3>3
  <2> QED BY <1>13, <1>15, <2>1, <2>2
<1>16. CASE r.ok
  <2>1. p.ok /\ Matches(r, p, t.security)
    BY <1>1, <1>5, <1>8, <1>16
  <2>2. PositionIn(r, t.security).quantity = p.quantity /\ p.quantity \in Nat /\ t.quantity \in Nat
    BY <1>1, <1>8, <2>1, RowTyped DEF Matches, HoldingType
  <2>3. CASE t.kind = "BUY"
    BY <1>1, <1>2, <1>8, <1>12, <1>16, <2>1, <2>3, PurchaseMatches
  <2>4. CASE t.kind = "SELL" /\ t.quantity <= p.quantity
    BY <1>1, <1>2, <1>7, <1>8, <1>12, <1>16, <2>1, <2>4, SaleMatches
  <2>5. CASE t.kind = "SELL" /\ t.quantity > p.quantity
    <3>1. q = [r EXCEPT !.ok = FALSE]
      BY <1>2, <1>14, <1>16, <2>2, <2>5 DEF Steps
    <3>2. ~q.ok /\ q.events = r.events
      BY <1>2, <3>1 DEF ReportType
    <3>3. after(t.security) = [p EXCEPT !.ok = FALSE]
      BY <1>8, <2>1, <2>2, <2>5 DEF HoldingStep
    <3>4. ~after(t.security).ok
      BY <1>8, <3>3 DEF HoldingType
    <3> QED BY <1>1, <1>13, <3>2, <3>4
  <2> QED BY <1>1, <2>2, <2>3, <2>4, <2>5
<1> QED BY <1>6, <1>15, <1>16

LEMMA ReportBooked ==
  ASSUME NEW S, Historical(S), \A t \in S : t.kind \in {"BUY", "SELL"}, NEW home
  PROVE  Booked(S, home)
<1> DEFINE Good == {T \in SUBSET S : Booked(T, home)}
<1>1. ASSUME NEW T \in SUBSET S, \A t \in T : T \ {t} \in Good
      PROVE  Booked(T, home)
  <2>1. Historical(T)
    BY PartHistorical
  <2>2. CASE T = {}
    <3>1. Report(T, home) = NoReport
      BY <2>1, <2>2, ReportUnfolds
    <3>2. \A s : OfSecurity(T, s) = {} /\ Historical(OfSecurity(T, s))
      BY <2>1, <2>2 DEF OfSecurity
    <3>3. \A s : Holding(OfSecurity(T, s), home) = Flat
      BY <3>2, HoldingUnfolds
    <3>4. \A s : PositionIn(NoReport, s) = NoPosition /\ SalesOf(NoReport, s) = {}
      BY DEF PositionIn, NoReport, SalesOf
    <3>5. {} \in SUBSET EventType /\ IsFiniteSet({})
      BY FS_EmptySet
    <3>6. Sum(LAMBDA e : e.gain, {}) = 0 /\ Sum(LAMBDA e : e.gainBase, {}) = 0
      BY <3>5, SaleSums
    <3>7. \A s : Matches(NoReport, Flat, s)
      BY <3>4, <3>6 DEF Matches, NoPosition, Flat
    <3>8. NoReport.ok /\ Flat.ok
      BY DEF NoReport, Flat
    <3>9. \A s : Matches(Report(T, home), Holding(OfSecurity(T, s), home), s)
                /\ SalesOf(Report(T, home), s) = {} /\ Holding(OfSecurity(T, s), home).ok
      BY <3>1, <3>3, <3>4, <3>7, <3>8
    <3> QED BY <3>1, <3>8, <3>9 DEF Booked
  <2>3. CASE T # {}
    <3>1. Booked(T \ {Latest(T)}, home)
      BY <1>1, <2>1, <2>3, LatestExists
    <3> QED BY <2>1, <2>3, <3>1, BookedStep
  <2> QED BY <2>2, <2>3
<1>2. Hereditary(Good, S) /\ IsFiniteSet(S)
  BY <1>1 DEF Hereditary, Historical
<1>3. S \in Good
  <2> HIDE DEF Good
  <2> QED BY <1>2, SubsetInduction
<1> QED BY <1>3

LEMMA LastDayIsLast ==
  ASSUME Historical(posted)
  PROVE  LastDay \in Int /\ \A t \in posted : t.day <= LastDay
<1> DEFINE days == {0} \cup {t.day : t \in posted}
           less == {p \in days \X days : p[1] < p[2]}
           f == [t \in posted |-> t.day]
<1>1. \A t \in posted : t.day \in Int
  BY RowTyped
<1>2. IsFiniteSet(days)
  <2>1. f \in Surjection(posted, {t.day : t \in posted})
    BY DEF Surjection
  <2>2. IsFiniteSet({t.day : t \in posted}) /\ IsFiniteSet({0})
    <3> HIDE DEF f
    <3> QED BY <2>1, FS_Surjection, FS_Singleton DEF Historical
  <2> QED BY <2>2, FS_Union
<1>3. \A d \in days : d \in Int
  BY <1>1
<1>4. \A d, e \in days : <<d, e>> \in less <=> d < e
  OBVIOUS
<1>5. 0 \in days
  OBVIOUS
<1>6. \A t \in posted : t.day \in days
  OBVIOUS
<1> HIDE DEF days, less
<1>7. Orders(less, days)
  BY <1>3, <1>4 DEF Orders
<1>8. \E d \in days : \A e \in days \ {d} : <<e, d>> \in less
  BY <1>2, <1>5, <1>7, LastExists
<1>9. \E d \in days : \A e \in days : d >= e
  <2>1. PICK d \in days : \A e \in days \ {d} : e < d
    BY <1>4, <1>8
  <2> QED BY <1>3, <2>1
<1>10. Max(days) \in days /\ \A e \in days : Max(days) >= e
  BY <1>9 DEF Max
<1>11. LastDay = Max(days)
  BY DEF LastDay, days
<1> QED BY <1>1, <1>3, <1>6, <1>10, <1>11

LEMMA HistoriesAgree ==
  ASSUME Historical(posted), NEW a \in Accounts
  PROVE  LET report == Events(a)
             page == [s \in Securities |-> Holding(History(a, s), Home[a])]
         IN  /\ \A s \in Securities :
                  page[s].ok <=> \A t \in History(a, s) : NetThrough(t, History(a, s)) >= 0
             /\ report.ok <=> \A s \in Securities : page[s].ok
             /\ report.ok => \A s \in Securities :
                  /\ page[s].quantity = Sum(SignedQuantity, History(a, s))
                  /\ Sum(LAMBDA e : e.gain, EventsOf(a, s)) = page[s].realized
                  /\ Sum(LAMBDA e : e.gainBase, EventsOf(a, s)) = page[s].realizedBase
                  /\ PositionIn(report, s) = [quantity |-> page[s].quantity,
                                              cost |-> page[s].cost, base |-> page[s].base]
<1> DEFINE page == [s \in Securities |-> Holding(History(a, s), Home[a])]
           read == {t \in posted : t.account = a /\ t.kind \in {"BUY", "SELL"} /\ t.day <= LastDay}
<1>1. Events(a) = Report(read, Home[a])
  BY DEF Events, RealizedGainEvents, Report, NoReport
<1>2. \A s : EventsOf(a, s) = SalesOf(Events(a), s)
  BY DEF EventsOf, SalesOf
<1>3. ASSUME NEW s
      PROVE  /\ Historical(History(a, s)) /\ OfSecurity(read, s) = Shares(History(a, s))
             /\ Holding(History(a, s), Home[a]) = Holding(OfSecurity(read, s), Home[a])
  <2>1. History(a, s) \in SUBSET posted
    BY DEF History, AllTrades
  <2>2. Historical(History(a, s))
    BY <2>1, PartHistorical
  <2>3. OfSecurity(read, s) = Shares(History(a, s))
    BY LastDayIsLast DEF OfSecurity, Shares, History, AllTrades
  <2> QED BY <2>2, <2>3, HoldingReadsShares
<1>4. Booked(read, Home[a])
  <2>1. Historical(read) /\ \A t \in read : t.kind \in {"BUY", "SELL"}
    BY PartHistorical
  <2> HIDE DEF read
  <2> QED BY <2>1, ReportBooked
<1>5. \A s \in Securities : Exact(History(a, s), Home[a])
  BY <1>3, HoldingExact
<1>6. \A s \in Securities : page[s] = Holding(OfSecurity(read, s), Home[a])
                            /\ page[s] = Holding(History(a, s), Home[a])
  BY <1>3
<1> HIDE DEF page, read
<1>7. \A s \in Securities :
        /\ page[s].ok <=> \A t \in History(a, s) : NetThrough(t, History(a, s)) >= 0
        /\ page[s].ok => page[s].quantity = Sum(SignedQuantity, History(a, s))
  BY <1>5, <1>6 DEF Exact
<1>8. /\ Events(a).ok <=> \A s \in Securities : page[s].ok
      /\ Events(a).ok => \A s \in Securities : Matches(Events(a), page[s], s)
  BY <1>1, <1>4, <1>6 DEF Booked
<1>9. Events(a).ok => \A s \in Securities :
        /\ page[s].quantity = Sum(SignedQuantity, History(a, s))
        /\ Sum(LAMBDA e : e.gain, EventsOf(a, s)) = page[s].realized
        /\ Sum(LAMBDA e : e.gainBase, EventsOf(a, s)) = page[s].realizedBase
        /\ PositionIn(Events(a), s) = [quantity |-> page[s].quantity,
                                       cost |-> page[s].cost, base |-> page[s].base]
  BY <1>2, <1>7, <1>8 DEF Matches
<1> QED BY <1>7, <1>8, <1>9 DEF page

\* holdings.py and cost_basis.py, written separately, agree on every history.
THEOREM ReplaysAlwaysAgree == Spec => []ReplaysAgree
<1>1. Historical(posted) => ReplaysAgree
  BY HistoriesAgree DEF ReplaysAgree
<1> QED BY <1>1, HistoryStays, PTL

-----------------------------------------------------------------------------
(***************************************************************************)
(* Which postings break a history.                                         *)
(***************************************************************************)
LEMMA SignedParts ==
  ASSUME NEW A, NEW B, Historical(A \cup B), A \cap B = {}
  PROVE  Sum(SignedQuantity, A \cup B) = Sum(SignedQuantity, A) + Sum(SignedQuantity, B)
<1> DEFINE S == A \cup B
           f == [t \in S |-> SignedQuantity(t)]
<1>1. \A t \in S : f[t] = SignedQuantity(t) /\ f[t] \in Int
  BY SignedSum
<1>2. ASSUME NEW T \in SUBSET S
      PROVE  Sum(SignedQuantity, T) = Over(f, T) /\ IsFiniteSet(T)
  <2>1. [t \in T |-> SignedQuantity(t)] = [t \in T |-> f[t]]
    OBVIOUS
  <2>2. IsFiniteSet(T)
    BY FS_Subset DEF Historical
  <2> HIDE DEF f
  <2> QED BY <2>1, <2>2 DEF Sum, Over
<1>3. A \in SUBSET S /\ B \in SUBSET S /\ S \in SUBSET S
  OBVIOUS
<1> HIDE DEF f
<1>4. Over(f, A \cup B) = Over(f, A) + Over(f, B)
  BY <1>1, <1>2, <1>3, SumParts
<1> QED BY <1>2, <1>3, <1>4

LEMMA NoSaleTakes ==
  ASSUME NEW S, Historical(S), \A t \in S : t.kind # "SELL"
  PROVE  Sum(SignedQuantity, S) \in Nat
<1> DEFINE f == [t \in S |-> SignedQuantity(t)]
<1>1. \A t \in S : f[t] \in Nat
  BY RowTyped DEF SignedQuantity
<1>2. [t \in S |-> f[t]] = f
  OBVIOUS
<1>3. IsFiniteSet(S) /\ Sum(SignedQuantity, S) = SumFunction(f)
  BY DEF Historical, Sum
<1> HIDE DEF f
<1>4. Over(f, S) \in Nat
  BY <1>1, <1>3, SumNatural
<1> QED BY <1>2, <1>3, <1>4 DEF Over

\* The rows up to any point of a history that replays leave a balance.
LEMMA PrefixCovered ==
  ASSUME NEW S, Historical(S), \A t \in S : NetThrough(t, S) >= 0,
         NEW P \in SUBSET S, \A t \in P : \A u \in S : Before(u, t) => u \in P
  PROVE  Sum(SignedQuantity, P) >= 0
<1>1. Historical(P)
  BY PartHistorical
<1>2. CASE P = {}
  <2>1. Sum(SignedQuantity, P) = 0
    BY <1>1, <1>2, SignedSum
  <2> QED BY <2>1
<1>3. CASE P # {}
  <2>1. PICK t \in P : \A u \in P \ {t} : Before(u, t)
    BY <1>1, <1>3, LatestExists
  <2>2. {u \in S : u = t \/ Before(u, t)} = P
    BY <2>1
  <2>3. NetThrough(t, S) = Sum(SignedQuantity, P) /\ t \in S
    BY <2>2 DEF NetThrough
  <2> QED BY <2>3
<1> QED BY <1>2, <1>3

\* What a posting adds to a history, at its place in it.
LEMMA PostedNet ==
  ASSUME NEW S, NEW t, Historical(S \cup {t}), t \notin S, NEW v \in S
  PROVE  NetThrough(v, S \cup {t})
           = IF Before(t, v) THEN SignedQuantity(t) + NetThrough(v, S) ELSE NetThrough(v, S)
<1> DEFINE P == {u \in S : u = v \/ Before(u, v)}
<1>1. CASE ~Before(t, v)
  <2>1. {u \in S \cup {t} : u = v \/ Before(u, v)} = P
    BY <1>1
  <2> QED BY <1>1, <2>1 DEF NetThrough
<1>2. CASE Before(t, v)
  <2>1. {u \in S \cup {t} : u = v \/ Before(u, v)} = P \cup {t} /\ (P \cup {t}) \ {t} = P
    BY <1>2
  <2>2. Historical(P \cup {t})
    <3>1. P \cup {t} \in SUBSET (S \cup {t})
      OBVIOUS
    <3> HIDE DEF P
    <3> QED BY <3>1, PartHistorical
  <2> HIDE DEF P
  <2>3. Sum(SignedQuantity, P \cup {t}) = SignedQuantity(t) + Sum(SignedQuantity, (P \cup {t}) \ {t})
    BY <2>2, SignedSum
  <2> QED BY <1>2, <2>1, <2>3 DEF NetThrough, P
<1> QED BY <1>1, <1>2

\* The check the code makes of a sale, whatever else it may demand.
SalesAreChecked ==
  \A rows \in SUBSET RowType, f \in Forms : Permits(rows, f) => PermitsPosting(rows, f)

\* A posting that breaks no sale after it breaks none at all.
LEMMA PostingBreaksLaterSales ==
  ASSUME SalesAreChecked, Historical(posted), NEW f \in Forms, NEW id \in Ids, Post(f, id),
         NEW t, t = Row(id, f),
         Replays(posted, t.account, t.security), ~Replays(posted', t.account, t.security)
  PROVE  /\ t.kind = "SELL"
         /\ \E u \in History(t.account, t.security) : u.kind = "SELL" /\ t.day < u.day
<1> DEFINE S == History(t.account, t.security)
           home == Home[t.account]
<1>1. Historical(posted') /\ posted' = posted \cup {t} /\ t \in posted'
  BY PostKeepsHistory
<1>2. \A u \in posted : u.account = t.account => u.id < t.id
  BY DEF Post, Row
<1>3. S \in SUBSET posted /\ t \notin S /\ AllTrades(posted', t.account, t.security) = S \cup {t}
  <2>1. t \notin posted
    BY <1>1, <1>2, RowTyped
  <2> QED BY <1>1, <2>1 DEF History, AllTrades
<1>4. Historical(S) /\ Historical(S \cup {t})
  <2>1. S \cup {t} \in SUBSET posted'
    BY <1>1, <1>3
  <2> HIDE DEF S
  <2> QED BY <1>1, <1>3, <2>1, PartHistorical
<1>5. (\A u \in S : NetThrough(u, S) >= 0) /\ ~(\A u \in S \cup {t} : NetThrough(u, S \cup {t}) >= 0)
  <2>1. Replays(posted, t.account, t.security) = Holding(S, home).ok
        /\ Replays(posted', t.account, t.security) = Holding(S \cup {t}, home).ok
    BY <1>3 DEF Replays, History
  <2>2. Exact(S, home) /\ Exact(S \cup {t}, home)
    BY <1>4, HoldingExact
  <2> HIDE DEF S, home
  <2> QED BY <2>1, <2>2 DEF Exact
<1>6. \A u \in S : u.account = t.account /\ u.security = t.security /\ u \in posted /\ u.id < t.id
  BY <1>2, <1>3 DEF History, AllTrades
<1>7. \A u \in S \cup {t} : u.id \in Int /\ u.day \in Int /\ u.quantity \in Nat
  BY <1>4, RowTyped
<1>8. \A u \in S : Before(u, t) <=> u.day <= t.day
  BY <1>6, <1>7 DEF Before
<1>9. \A u \in S : Before(t, u) <=> t.day < u.day
  BY <1>6, <1>7 DEF Before
<1> DEFINE P == {u \in S : u.day <= t.day}
<1>10. /\ NetThrough(t, S \cup {t}) = SignedQuantity(t) + Sum(SignedQuantity, P)
       /\ Sum(SignedQuantity, P) \in Int /\ Sum(SignedQuantity, P) >= 0
       /\ SignedQuantity(t) \in Int /\ Historical(P)
  <2>1. {u \in S \cup {t} : u = t \/ Before(u, t)} = P \cup {t} /\ (P \cup {t}) \ {t} = P
    BY <1>3, <1>8
  <2>2. P \cup {t} \in SUBSET (S \cup {t}) /\ P \in SUBSET S /\ t \in P \cup {t}
    OBVIOUS
  <2>3. Historical(P) /\ Historical(P \cup {t})
    <3> HIDE DEF P, S
    <3> QED BY <1>4, <2>2, PartHistorical
  <2>4. \A u \in P : \A v \in S : Before(v, u) => v \in P
    BY <1>7 DEF Before
  <2> HIDE DEF P, S
  <2>5. Sum(SignedQuantity, P) >= 0
    BY <1>4, <1>5, <2>2, <2>4, PrefixCovered
  <2>6. Sum(SignedQuantity, P) \in Int
    BY <2>3, SignedSum
  <2>7. /\ Sum(SignedQuantity, P \cup {t}) = SignedQuantity(t) + Sum(SignedQuantity, (P \cup {t}) \ {t})
        /\ SignedQuantity(t) \in Int
    BY <2>2, <2>3, SignedSum
  <2> QED BY <2>1, <2>3, <2>5, <2>6, <2>7 DEF NetThrough
<1> DEFINE share == SignedQuantity(t)
           before == Sum(SignedQuantity, P)
           after == NetThrough(t, S \cup {t})
<1>a. share \in Int /\ before \in Int /\ before >= 0 /\ after = share + before
  BY <1>10
<1>11. \A v \in S : NetThrough(v, S) \in Int /\ NetThrough(v, S \cup {t})
           = IF t.day < v.day THEN SignedQuantity(t) + NetThrough(v, S) ELSE NetThrough(v, S)
  <2> SUFFICES ASSUME NEW v \in S
               PROVE  NetThrough(v, S) \in Int /\ NetThrough(v, S \cup {t})
           = IF t.day < v.day THEN SignedQuantity(t) + NetThrough(v, S) ELSE NetThrough(v, S)
    OBVIOUS
  <2> HIDE DEF S, P
  <2>1. {u \in S : u = v \/ Before(u, v)} \in SUBSET S
    OBVIOUS
  <2>2. NetThrough(v, S) \in Int
    BY <1>4, <2>1, PartHistorical, SignedSum DEF NetThrough
  <2>3. NetThrough(v, S \cup {t})
          = IF Before(t, v) THEN SignedQuantity(t) + NetThrough(v, S) ELSE NetThrough(v, S)
    BY <1>3, <1>4, PostedNet
  <2> QED BY <1>9, <2>2, <2>3
<1>12. t.kind = "SELL"
  <2> SUFFICES ASSUME t.kind # "SELL"
               PROVE  FALSE
    OBVIOUS
  <2>1. SignedQuantity(t) >= 0
    BY <1>7 DEF SignedQuantity
  <2>2. NetThrough(t, S \cup {t}) >= 0
    <3>1. share >= 0
      BY <2>1
    <3> HIDE DEF share, before, after
    <3>2. after >= 0
      BY <1>a, <3>1
    <3> QED BY <3>2 DEF after
  <2>3. \A v \in S : NetThrough(v, S \cup {t}) >= 0
    <3> SUFFICES ASSUME NEW v \in S
                 PROVE  NetThrough(v, S \cup {t}) >= 0
      OBVIOUS
    <3> DEFINE m == NetThrough(v, S)
               n == NetThrough(v, S \cup {t})
    <3>1. m \in Int /\ m >= 0 /\ n = IF t.day < v.day THEN share + m ELSE m
      BY <1>5, <1>11
    <3>2. share >= 0
      BY <2>1
    <3> HIDE DEF share, m, n
    <3>3. n >= 0
      BY <1>a, <3>1, <3>2
    <3> QED BY <3>3 DEF n
  <2> HIDE DEF S
  <2> QED BY <1>5, <2>2, <2>3
\* The check of the sale read the rows up to its day, which are those before it.
<1>13. NetThrough(t, S \cup {t}) >= 0
  <2>1. posted \in SUBSET RowType
    BY DEF Historical
  <2>2. f.kind = "SELL" /\ f.account = t.account /\ f.security = t.security /\ f.day = t.day
        /\ f.quantity = t.quantity
    BY <1>12 DEF Row
  <2>3. Covered(posted, f)
    BY <2>1, <2>2 DEF SalesAreChecked, Post, PermitsPosting
  <2>4. Trades(posted, f.account, f.security, f.day) = P
    BY <2>2 DEF Trades, History, AllTrades
  <2> HIDE DEF P, S, share, before, after
  <2>5. Holding(P, f.currency).ok /\ t.quantity <= Holding(P, f.currency).quantity
    BY <2>2, <2>3, <2>4 DEF Covered, HoldingAsOf
  <2>6. Holding(P, f.currency).quantity = Sum(SignedQuantity, P)
    BY <1>10, <2>5, HoldingExact DEF Exact
  <2>7. SignedQuantity(t) = -t.quantity
    BY <1>12 DEF SignedQuantity
  <2>8. t.quantity \in Nat
    BY <1>7
  <2> DEFINE k == t.quantity
             held == Holding(P, f.currency).quantity
  <2>9. share = -k /\ k \in Nat /\ k <= held /\ held = before
    BY <2>5, <2>6, <2>7, <2>8 DEF share, before
  <2> HIDE DEF k, held, share, before, after
  <2>10. after >= 0
    BY <1>a, <2>9
  <2> QED BY <2>10 DEF after
<1>14. \E u \in S : u.kind = "SELL" /\ t.day < u.day
  <2> SUFFICES ASSUME \A u \in S : t.day < u.day => u.kind # "SELL"
               PROVE  FALSE
    OBVIOUS
  <2>1. ASSUME NEW v \in S
        PROVE  NetThrough(v, S \cup {t}) >= 0
    <3>1. CASE ~(t.day < v.day)
      <4> HIDE DEF S, P
      <4> QED BY <1>5, <1>11, <3>1
    <3>2. CASE t.day < v.day
      <4> DEFINE M == {u \in S : t.day < u.day /\ (u = v \/ Before(u, v))}
      <4>1. {u \in S : u = v \/ Before(u, v)} = P \cup M /\ P \cap M = {}
        BY <1>7, <3>2 DEF Before
      <4>2. P \cup M \in SUBSET S /\ M \in SUBSET S /\ \A u \in M : u.kind # "SELL"
        OBVIOUS
      <4> HIDE DEF P, M, S
      <4>3. Historical(P \cup M) /\ Historical(M)
        BY <1>4, <4>2, PartHistorical
      <4>4. Sum(SignedQuantity, P \cup M) = Sum(SignedQuantity, P) + Sum(SignedQuantity, M)
        BY <4>1, <4>3, SignedParts
      <4>5. Sum(SignedQuantity, M) \in Nat
        BY <4>2, <4>3, NoSaleTakes
      <4>6. NetThrough(v, S) = Sum(SignedQuantity, P) + Sum(SignedQuantity, M)
        BY <4>1, <4>4 DEF NetThrough
      <4>7. NetThrough(v, S \cup {t}) = SignedQuantity(t) + NetThrough(v, S)
        BY <1>11, <3>2
      <4> DEFINE more == Sum(SignedQuantity, M)
                 n == NetThrough(v, S \cup {t})
      <4>8. after >= 0
        BY <1>13
      <4>9. n = share + (before + more) /\ more \in Nat
        BY <4>5, <4>6, <4>7
      <4> HIDE DEF share, before, after, more, n
      <4>10. n >= 0
        BY <1>a, <4>8, <4>9
      <4> QED BY <4>10 DEF n
    <3> QED BY <3>1, <3>2
  <2> HIDE DEF S, P
  <2> QED BY <1>5, <1>13, <2>1
<1> QED BY <1>12, <1>14

\* investments/services/transactions.py:57-62 checks a sale on its own day:
\* nothing but a sale posted before another one can oversell.
THEOREM HistoryBreaksByBackdating ==
  ASSUME SalesAreChecked
  PROVE  Spec => OnlyBackdatedSaleBreaksHistory
<1>1. ASSUME Historical(posted), [Next]_posted
      PROVE  [\A t \in posted' \ posted :
                Replays(posted, t.account, t.security) /\ ~Replays(posted', t.account, t.security)
                  => /\ t.kind = "SELL"
                     /\ \E u \in History(t.account, t.security) : u.kind = "SELL" /\ t.day < u.day]_posted
  <2> SUFFICES ASSUME NEW f \in Forms, NEW id \in Ids, Post(f, id), NEW t \in posted' \ posted,
                      Replays(posted, t.account, t.security), ~Replays(posted', t.account, t.security)
               PROVE  /\ t.kind = "SELL"
                      /\ \E u \in History(t.account, t.security) : u.kind = "SELL" /\ t.day < u.day
    BY <1>1 DEF Next
  <2>1. t = Row(id, f)
    BY DEF Post
  <2> QED BY <1>1, <2>1, PostingBreaksLaterSales
<1> QED BY <1>1, HistoryStays, PTL DEF Spec, OnlyBackdatedSaleBreaksHistory
HistoryTyped == posted \subseteq RowType

\* The tables as they were, had nothing later than d been entered.
Until(d, b) == [table \in DOMAIN b |-> {x \in b[table] : x.day <= d}]

LEMMA RowsTyped == Spec => []HistoryTyped
<1>1. Init => HistoryTyped
  BY DEF Init, HistoryTyped
<1>2. HistoryTyped /\ [Next]_posted => HistoryTyped'
  <2> SUFFICES ASSUME HistoryTyped, Next PROVE HistoryTyped'
    BY DEF HistoryTyped
  <2>1. PICK f \in Forms, id \in Ids : posted' = posted \cup {Row(id, f)}
    BY DEF Next, Post
  <2>2. f \in FormType
    BY FormAssumption
  <2>3. Row(id, f) \in RowType
    BY <2>2 DEF Row, RowType, FormType
  <2> QED BY <2>1, <2>3 DEF HistoryTyped
<1> QED BY <1>1, <1>2, PTL DEF Spec

\* Rows up to a day are the rows up to any later day among those.
LEMMA UntilIsThrough ==
  ASSUME NEW S, \A x \in S : x.day \in Int, NEW d \in Int, NEW h \in Int, d <= h
  PROVE  {x \in S : x.day <= d} = {x \in {y \in S : y.day <= d} : x.day <= h}
OBVIOUS

\* The fields of the tables up to a day.
LEMMA UntilFields ==
  ASSUME NEW d
  PROVE  /\ Until(d, Book).trades = {t \in posted : t.day <= d}
         /\ Until(d, Book).entries = {e \in OtherEntries : e.day <= d}
         /\ Until(d, Book).prices = {p \in Prices : p.day <= d}
         /\ Until(d, Book).rates = {r \in Rates : r.day <= d}
         /\ Book.trades = posted /\ Book.entries = OtherEntries
         /\ Book.prices = Prices /\ Book.rates = Rates
BY DEF Until, Book

\* The replay of a position reads trades up to the day only.
LEMMA SamePosition ==
  ASSUME HistoryTyped, NEW d \in Days, NEW a, NEW s
  PROVE  Position(Book, a, s, AsOf(d)) = Position(Until(d, Book), a, s, PageOf(d))
<1>1. \A t \in posted : t.day \in Int
  BY DEF HistoryTyped, RowType
<1>2. d \in Int /\ Horizon \in Int /\ d <= Horizon
  BY DatesAssumption DEF Days
<1>3. Trades(posted, a, s, d) = Trades({t \in posted : t.day <= d}, a, s, Horizon)
  BY <1>1, <1>2 DEF Trades
<1> QED BY <1>3, UntilFields DEF Position, HoldingAsOf, AsOf, PageOf

\* So does the balance of the cash, over entries and trades.
LEMMA SameCash ==
  ASSUME HistoryTyped, NEW d \in Days, NEW a
  PROVE  CashBalance(Book, a, AsOf(d)) = CashBalance(Until(d, Book), a, PageOf(d))
<1> DEFINE Cash(entries, trades) ==
             Sum(LAMBDA e : e.amount, entries)
             + Sum(LAMBDA t : CashAmount(t, Home[a]), trades)
           entries1 == {e \in OtherEntries : e.account = a /\ e.day <= d}
           entries2 == {e \in {x \in OtherEntries : x.day <= d} : e.account = a /\ e.day <= Horizon}
           trades1 == {t \in posted : t.account = a /\ t.day <= d}
           trades2 == {t \in {x \in posted : x.day <= d} : t.account = a /\ t.day <= Horizon}
<1>1. CashBalance(Book, a, AsOf(d)) = Cash(entries1, trades1)
  BY UntilFields DEF CashBalance, AsOf
<1>2. CashBalance(Until(d, Book), a, PageOf(d)) = Cash(entries2, trades2)
  BY UntilFields DEF CashBalance, PageOf
<1>3. entries1 = entries2 /\ trades1 = trades2
  <2>1. \A t \in posted : t.day \in Int
    BY DEF HistoryTyped, RowType
  <2>2. \A e \in OtherEntries : e.day \in Int
    BY DatesAssumption
  <2>3. d \in Int /\ Horizon \in Int /\ d <= Horizon
    BY DatesAssumption DEF Days
  <2> QED BY <2>1, <2>2, <2>3
<1> HIDE DEF Cash
<1> QED BY <1>1, <1>2, <1>3

LEMMA SamePrices ==
  ASSUME NEW d, NEW s
  PROVE  PricesKnown(Book, s, AsOf(d)) = PricesKnown(Until(d, Book), s, PageOf(d))
BY UntilFields DEF PricesKnown, AsOf, PageOf

LEMMA SameRates ==
  ASSUME NEW d, NEW from, NEW to
  PROVE  FxRate(Book.rates, from, to, AsOf(d).cutoff)
           = FxRate(Until(d, Book).rates, from, to, PageOf(d).cutoff)
<1>1. \A base, quote : Observed(Rates, base, quote, d)
                         = Observed({r \in Rates : r.day <= d}, base, quote, d)
  BY DEF Observed
<1> QED BY <1>1, UntilFields DEF FxRate, AsOf, PageOf

LEMMA SameRow ==
  ASSUME HistoryTyped, NEW d \in Days, NEW a, NEW s, NEW currency
  PROVE  HoldingValuation(Book, a, s, AsOf(d), currency)
           = HoldingValuation(Until(d, Book), a, s, PageOf(d), currency)
<1>1. LatestPrice(Book, s, AsOf(d)) = LatestPrice(Until(d, Book), s, PageOf(d))
  BY SamePrices DEF LatestPrice
<1>2. Convertible(Book, a, s, AsOf(d), currency) = Convertible(Until(d, Book), a, s, PageOf(d), currency)
  BY <1>1, SamePrices, SameRates DEF Convertible
<1>3. \A price : UnitValue(Book, price, AsOf(d), currency)
                   = UnitValue(Until(d, Book), price, PageOf(d), currency)
  BY SameRates DEF UnitValue
<1>4. Position(Book, a, s, AsOf(d)) = Position(Until(d, Book), a, s, PageOf(d))
  BY SamePosition
<1>5. FxRate(Book.rates, Home[a], currency, AsOf(d).cutoff)
        = FxRate(Until(d, Book).rates, Home[a], currency, PageOf(d).cutoff)
  BY SameRates
<1> QED BY <1>1, <1>2, <1>3, <1>4, <1>5 DEF HoldingValuation

LEMMA SameValuation ==
  ASSUME HistoryTyped, NEW d \in Days, NEW a, NEW currency
  PROVE  Valuation(Book, a, AsOf(d), currency) = Valuation(Until(d, Book), a, PageOf(d), currency)
<1> DEFINE now == Positions(Book, a, AsOf(d))
           then == Positions(Until(d, Book), a, PageOf(d))
           rowsNow == {HoldingValuation(Book, a, s, AsOf(d), currency) : s \in Open(now)}
           rowsThen == {HoldingValuation(Until(d, Book), a, s, PageOf(d), currency) : s \in Open(then)}
<1>1. now = then
  BY SamePosition DEF Positions
<1>2. rowsNow = rowsThen
  BY <1>1, SameRow
<1>3. FxRate(Book.rates, Home[a], currency, AsOf(d).cutoff)
        = FxRate(Until(d, Book).rates, Home[a], currency, PageOf(d).cutoff)
  BY SameRates
<1>4. CashBalance(Book, a, AsOf(d)) = CashBalance(Until(d, Book), a, PageOf(d))
  BY SameCash
<1> QED BY <1>1, <1>2, <1>3, <1>4 DEF Valuation

\* README.md:143-144, "never future data", for every history, price and rate.
THEOREM FutureNeverRead == Spec => []PastStaysPut
<1>1. HistoryTyped => PastStaysPut
  BY SameValuation DEF PastStaysPut, Until
<1> QED BY <1>1, RowsTyped, PTL

-----------------------------------------------------------------------------
(***************************************************************************)
(* Prices and rates.                                                       *)
(***************************************************************************)
\* Observations of days and sources, one of each.
Dated(S) ==
  /\ IsFiniteSet(S) /\ \A r \in S : r.day \in Int /\ r.source \in Int
  /\ \A r, s \in S : r.day = s.day /\ r.source = s.source => r = s

LEMMA NewestExists ==
  ASSUME NEW S, Dated(S), S # {}
  PROVE  Newest(S) \in S
<1> DEFINE less == {p \in S \X S : p[1].day < p[2].day
                                   \/ (p[1].day = p[2].day /\ p[2].source < p[1].source)}
<1>0. \A x, y \in S : <<x, y>> \in less
        <=> (x.day < y.day \/ (x.day = y.day /\ y.source < x.source))
  OBVIOUS
<1>1. Orders(less, S)
  <2> HIDE DEF less
  <2> QED BY <1>0 DEF Orders, Dated
<1>2. \E x \in S : \A y \in S \ {x} : <<y, x>> \in less
  <2> HIDE DEF less
  <2> QED BY <1>1, LastExists DEF Dated
<1>3. \E x \in S : \A y \in S \ {x} : y.day < x.day \/ (y.day = x.day /\ x.source < y.source)
  <2> HIDE DEF less
  <2> QED BY <1>0, <1>2
<1> QED BY <1>3 DEF Newest

LEMMA RoundedQuotient ==
  ASSUME NEW a \in Nat, NEW b \in 1..a
  PROVE  RoundDiv(a, b) \in Nat \ {0}
<1> DEFINE q == a \div b
<1>1. b \in Nat \ {0} /\ b <= a
  OBVIOUS
<1>2. q \in Nat /\ q >= 1
  BY <1>1
<1>3. RoundDiv(a, b) = q \/ RoundDiv(a, b) = q + 1
  BY DEF RoundDiv
<1> HIDE DEF q
<1> QED BY <1>2, <1>3

\* A rate is found exactly if one was observed by then, either way round.
LEMMA RateKnown ==
  ASSUME NEW from, NEW to, NEW d \in Int
  PROVE  /\ FxRate(Rates, from, to, d) \in Nat
         /\ FxRate(Rates, from, to, d) # MissingRate <=> KnownRate(from, to, d)
<1> DEFINE direct == Observed(Rates, from, to, d)
           inverse == Observed(Rates, to, from, d)
           useDirect == direct # {} /\ (inverse = {} \/ Newest(direct).day >= Newest(inverse).day)
<1>1. ASSUME NEW x, NEW y, Observed(Rates, x, y, d) # {}
      PROVE  Newest(Observed(Rates, x, y, d)) \in Rates
  <2> DEFINE S == Observed(Rates, x, y, d)
  <2>1. S \in SUBSET Rates /\ \A r \in S : r.base = x /\ r.quote = y
    BY DEF Observed
  <2>2. IsFiniteSet(S)
    BY <2>1, FS_Subset, RatesAssumption
  <2>3. S # {}
    BY <1>1
  <2> HIDE DEF S
  <2>4. Dated(S)
    BY <2>1, <2>2, RatesAssumption DEF Dated
  <2>5. Newest(S) \in Rates
    BY <2>1, <2>3, <2>4, NewestExists
  <2> QED BY <2>5 DEF S
<1>2. RateUnit \in Nat /\ RateUnit # 0 /\ RateUnit * RateUnit \in Nat
  BY PrecisionAssumption
<1>3. \A r \in Rates : r.rate \in 1..(RateUnit * RateUnit) /\ r.base # r.quote
  BY RatesAssumption
<1>4. \A r \in Rates : /\ r.rate \in Nat /\ r.rate # 0
                       /\ RoundDiv(RateUnit * RateUnit, r.rate) \in Nat \ {0}
  BY <1>2, <1>3, RoundedQuotient
<1>5. FxRate(Rates, from, to, d)
        = CASE from = to -> RateUnit
            [] from # to /\ useDirect -> Newest(direct).rate
            [] from # to /\ ~useDirect /\ inverse # {} ->
                 RoundDiv(RateUnit * RateUnit, Newest(inverse).rate)
            [] OTHER -> MissingRate
  BY DEF FxRate
<1>6. KnownRate(from, to, d) <=> from = to \/ direct # {} \/ inverse # {}
  <2>1. \A r \in Rates : {r.base, r.quote} = {from, to}
          <=> (r.base = from /\ r.quote = to) \/ (r.base = to /\ r.quote = from)
    <3>1. \A r \in Rates : {r.base, r.quote} = {from, to} =>
             /\ r.base \in {from, to} /\ r.quote \in {from, to}
             /\ from \in {r.base, r.quote} /\ to \in {r.base, r.quote}
      OBVIOUS
    <3> QED BY <3>1
  <2> QED BY <2>1 DEF KnownRate, Observed
<1>7. CASE from = to
  <2>1. FxRate(Rates, from, to, d) = RateUnit
    BY <1>5, <1>7
  <2> HIDE DEF direct, inverse, useDirect
  <2> QED BY <1>2, <1>6, <1>7, <2>1 DEF MissingRate
<1>8. CASE from # to /\ useDirect
  <2>1. direct # {}
    BY <1>8
  <2>2. FxRate(Rates, from, to, d) = Newest(direct).rate
    <3> HIDE DEF useDirect, direct, inverse
    <3> QED BY <1>5, <1>8
  <2>3. Newest(direct) \in Rates
    BY <1>1, <2>1
  <2> HIDE DEF direct, inverse, useDirect
  <2> QED BY <1>4, <1>6, <2>1, <2>2, <2>3 DEF MissingRate
<1>9. CASE from # to /\ ~useDirect /\ inverse # {}
  <2>1. FxRate(Rates, from, to, d) = RoundDiv(RateUnit * RateUnit, Newest(inverse).rate)
    <3> HIDE DEF useDirect, direct, inverse
    <3> QED BY <1>5, <1>9
  <2>2. Newest(inverse) \in Rates
    BY <1>1, <1>9
  <2> HIDE DEF direct, inverse, useDirect
  <2> QED BY <1>4, <1>6, <1>9, <2>1, <2>2 DEF MissingRate
<1>10. CASE from # to /\ ~useDirect /\ inverse = {}
  <2>1. direct = {}
    BY <1>10
  <2>2. FxRate(Rates, from, to, d) = MissingRate
    <3> HIDE DEF useDirect, direct, inverse
    <3> QED BY <1>5, <1>10
  <2> HIDE DEF direct, inverse, useDirect
  <2> QED BY <1>6, <1>10, <2>1, <2>2 DEF MissingRate
<1> HIDE DEF direct, inverse, useDirect
<1> QED BY <1>7, <1>8, <1>9, <1>10

-----------------------------------------------------------------------------
(***************************************************************************)
(* What a page knows.                                                      *)
(***************************************************************************)
\* Nothing is dated after the horizon.
WithinHorizon == \A t \in posted : t.day <= Horizon

LEMMA HorizonStays == Spec => []WithinHorizon
<1>1. Init => WithinHorizon
  BY DEF Init, WithinHorizon
<1>2. WithinHorizon /\ [Next]_posted => WithinHorizon'
  <2> SUFFICES ASSUME WithinHorizon, NEW f \in Forms, NEW id \in Ids, Post(f, id)
               PROVE  WithinHorizon'
    BY DEF Next, WithinHorizon
  <2>1. Row(id, f).day = f.day
    BY DEF Row
  <2> QED BY <2>1, DatesAssumption DEF Post, WithinHorizon
<1> QED BY <1>1, <1>2, PTL DEF Spec

\* A page that replays shows the shares bought and not sold.
LEMMA PageCounts ==
  ASSUME Historical(posted), WithinHorizon, NEW d, NEW a \in Accounts, NEW s \in Securities,
         Replayable(Book, a, PageOf(d))
  PROVE  /\ Position(Book, a, s, PageOf(d)).quantity = Sum(SignedQuantity, History(a, s))
         /\ Sum(SignedQuantity, History(a, s)) \in Nat
         /\ Position(Book, a, s, PageOf(d)) = Holding(History(a, s), Home[a])
<1> DEFINE S == History(a, s)
<1>1. S \in SUBSET posted
  BY DEF History, AllTrades
<1>2. Trades(posted, a, s, Horizon) = S
  BY DEF WithinHorizon, Trades, History, AllTrades
<1>3. Position(Book, a, s, PageOf(d)) = Holding(S, Home[a])
  BY <1>2 DEF Position, HoldingAsOf, Book, PageOf
<1>4. Holding(S, Home[a]).ok
  <2> HIDE DEF S
  <2> QED BY <1>3 DEF Replayable
<1> HIDE DEF S
<1>5. Historical(S)
  BY <1>1, PartHistorical
<1>6. Exact(S, Home[a])
  BY <1>5, HoldingExact
<1>7. \A t \in S : NetThrough(t, S) >= 0
  BY <1>4, <1>6 DEF Exact
<1>8. S \in SUBSET S /\ \A t \in S : \A u \in S : Before(u, t) => u \in S
  OBVIOUS
<1>9. Sum(SignedQuantity, S) >= 0
  BY <1>5, <1>7, <1>8, PrefixCovered
<1>10. Sum(SignedQuantity, S) \in Int
  BY <1>5, SignedSum
<1>11. Sum(SignedQuantity, S) \in Nat
  <2>1. PICK n \in Int : n = Sum(SignedQuantity, S)
    BY <1>10
  <2>2. n >= 0
    BY <1>9, <2>1
  <2> QED BY <2>1, <2>2
<1> QED BY <1>3, <1>4, <1>6, <1>11 DEF Exact, S

LEMMA PriceKnown ==
  ASSUME NEW s, NEW d \in Int, NEW currency
  PROVE  (/\ PricesKnown(Book, s, PageOf(d)) # {}
          /\ FxRate(Rates, LatestPrice(Book, s, PageOf(d)).currency, currency, d) # MissingRate)
         <=> \E p \in Prices : p.security = s /\ p.day <= d /\ KnownRate(p.currency, currency, d)
<1> DEFINE S == {p \in Prices : p.security = s /\ p.day <= d}
<1>1. PricesKnown(Book, s, PageOf(d)) = S /\ LatestPrice(Book, s, PageOf(d)) = Newest(S)
  BY DEF PricesKnown, LatestPrice, Book, PageOf
<1>2. ASSUME S # {}
      PROVE  Newest(S) \in S
  <2>1. S \in SUBSET Prices /\ \A p \in S : p.security = s
    OBVIOUS
  <2>2. IsFiniteSet(S)
    BY <2>1, FS_Subset, PricesAssumption
  <2> HIDE DEF S
  <2>3. Dated(S)
    BY <2>1, <2>2, PricesAssumption DEF Dated
  <2> QED BY <1>2, <2>3, NewestExists
<1>3. \A p, q \in S : p.currency = q.currency
  BY PricesAssumption
<1>4. CASE S = {}
  BY <1>1, <1>4
<1>5. CASE S # {}
  <2>1. Newest(S) \in S
    BY <1>2, <1>5
  <2>2. FxRate(Rates, Newest(S).currency, currency, d) # MissingRate
          <=> KnownRate(Newest(S).currency, currency, d)
    BY RateKnown
  <2>3. (\E p \in S : KnownRate(p.currency, currency, d))
          <=> KnownRate(Newest(S).currency, currency, d)
    <3> HIDE DEF S
    <3> QED BY <1>3, <2>1
  <2>4. (\E p \in Prices : p.security = s /\ p.day <= d /\ KnownRate(p.currency, currency, d))
          <=> \E p \in S : KnownRate(p.currency, currency, d)
    OBVIOUS
  <2> HIDE DEF S
  <2> QED BY <1>1, <1>5, <2>2, <2>3, <2>4
<1> QED BY <1>4, <1>5

LEMMA CompleteIfKnown ==
  ASSUME Historical(posted), WithinHorizon, NEW d \in Int, NEW a \in Accounts, NEW c,
         Replayable(Book, a, PageOf(d))
  PROVE  Valuation(Book, a, PageOf(d), c).complete <=> KnownValue(a, c, d)
<1> DEFINE w == PageOf(d)
           open == Open(Positions(Book, a, w))
           row(s) == HoldingValuation(Book, a, s, w, c)
           shares(s) == Sum(SignedQuantity, History(a, s))
<1>1. Valuation(Book, a, w, c).complete
        <=> FxRate(Rates, Home[a], c, d) # MissingRate /\ \A r \in {row(s) : s \in open} : r.known
  BY DEF Valuation, Totals, Book, PageOf
<1>2. \A s : row(s).known <=> Convertible(Book, a, s, w, c)
  BY DEF HoldingValuation, HoldingRow
<1>3. \A s : Convertible(Book, a, s, w, c)
        <=> /\ FxRate(Rates, Home[a], c, d) # MissingRate
            /\ \E p \in Prices : p.security = s /\ p.day <= d /\ KnownRate(p.currency, c, d)
  <2> SUFFICES ASSUME NEW s
               PROVE  Convertible(Book, a, s, w, c)
        <=> /\ FxRate(Rates, Home[a], c, d) # MissingRate
            /\ \E p \in Prices : p.security = s /\ p.day <= d /\ KnownRate(p.currency, c, d)
    OBVIOUS
  <2>1. w.cutoff = d /\ Book.rates = Rates
    BY DEF PageOf, Book
  <2> HIDE DEF w
  <2>2. Convertible(Book, a, s, w, c)
          <=> /\ PricesKnown(Book, s, w) # {}
              /\ FxRate(Rates, LatestPrice(Book, s, w).currency, c, d) # MissingRate
              /\ FxRate(Rates, Home[a], c, d) # MissingRate
    BY <2>1 DEF Convertible
  <2> QED BY <2>2, PriceKnown DEF w
<1>4. FxRate(Rates, Home[a], c, d) # MissingRate <=> KnownRate(Home[a], c, d)
  BY RateKnown
<1>5. \A s \in Securities : s \in open <=> shares(s) > 0
  <2> SUFFICES ASSUME NEW s \in Securities
               PROVE  s \in open <=> shares(s) > 0
    OBVIOUS
  <2>1. Position(Book, a, s, w).quantity = shares(s) /\ shares(s) \in Nat
    BY PageCounts
  <2>2. s \in open <=> Position(Book, a, s, w).quantity # 0
    BY DEF Open, Positions
  <2> HIDE DEF shares, open, w
  <2> QED BY <2>1, <2>2
<1>6. open \in SUBSET Securities
  BY DEF Open
<1>7. (\A r \in {row(s) : s \in open} : r.known) <=> \A s \in open : row(s).known
  OBVIOUS
<1>8. KnownValue(a, c, d)
        <=> /\ KnownRate(Home[a], c, d)
            /\ \A s \in {x \in Securities : shares(x) > 0} :
                 \E p \in Prices : p.security = s /\ p.day <= d /\ KnownRate(p.currency, c, d)
  BY DEF KnownValue
<1>9. {x \in Securities : shares(x) > 0} = open
  <2> HIDE DEF shares, open
  <2> QED BY <1>5, <1>6
<1> HIDE DEF row, open, shares, w
<1>10. (\A s \in open : row(s).known) /\ FxRate(Rates, Home[a], c, d) # MissingRate
         <=> /\ FxRate(Rates, Home[a], c, d) # MissingRate
             /\ \A s \in open :
                  \E p \in Prices : p.security = s /\ p.day <= d /\ KnownRate(p.currency, c, d)
  BY <1>2, <1>3
<1> QED BY <1>1, <1>4, <1>7, <1>8, <1>9, <1>10 DEF w

\* README.md:146-147, of portfolio totals: valuation.py:85-113 and
\* investments/views.py mark a figure incomplete exactly if a rate, or the
\* price of a security held, was not known by the day.
THEOREM IncompleteExactlyIfUnknown == Spec => []IncompleteWhenUnknown
<1>1. Historical(posted) /\ WithinHorizon => IncompleteWhenUnknown
  <2> SUFFICES ASSUME Historical(posted), WithinHorizon, NEW d \in Days,
                      \A a \in Accounts : Replayable(Book, a, PageOf(d))
               PROVE  /\ \A a \in Accounts : \A c \in {Home[a], Reporting} :
                           Valuation(Book, a, PageOf(d), c).complete <=> KnownValue(a, c, d)
                      /\ PortfolioPage(Book, PageOf(d)).complete <=>
                           \A a \in Accounts : Owned[a].active => KnownValue(a, Reporting, d)
    BY DEF IncompleteWhenUnknown
  <2>1. d \in Int
    BY DEF Days
  <2>2. \A a \in Accounts : \A c : Valuation(Book, a, PageOf(d), c).complete <=> KnownValue(a, c, d)
    BY <2>1, CompleteIfKnown
  <2>3. PortfolioPage(Book, PageOf(d)).complete
          <=> \A a \in {x \in Accounts : Owned[x].active} :
                Valuation(Book, a, PageOf(d), Reporting).complete
    BY DEF PortfolioPage, PortfolioTotals
  <2> QED BY <2>2, <2>3
<1> QED BY <1>1, HistoryStays, HorizonStays, PTL

-----------------------------------------------------------------------------
(***************************************************************************)
(* Sums of sums.                                                           *)
(***************************************************************************)
LEMMA SumSame ==
  ASSUME NEW S, NEW f, NEW g, \A x \in S : f[x] = g[x]
  PROVE  Over(f, S) = Over(g, S)
<1>1. [x \in S |-> f[x]] = [x \in S |-> g[x]]
  OBVIOUS
<1> QED BY <1>1 DEF Over

LEMMA SumPlus ==
  ASSUME NEW S, IsFiniteSet(S), NEW f, NEW g, NEW h, \A x \in S : f[x] \in Int /\ g[x] \in Int,
         \A x \in S : h[x] = f[x] + g[x]
  PROVE  Over(h, S) = Over(f, S) + Over(g, S)
<1> DEFINE Good == {T \in SUBSET S : Over(h, T) = Over(f, T) + Over(g, T)}
<1>1. ASSUME NEW T \in SUBSET S, \A x \in T : T \ {x} \in Good
      PROVE  Over(h, T) = Over(f, T) + Over(g, T)
  <2>1. IsFiniteSet(T) /\ \A x \in T : f[x] \in Int /\ g[x] \in Int /\ h[x] \in Int
    BY FS_Subset
  <2>2. CASE T = {}
    <3>1. Over(h, T) = 0 /\ Over(f, T) = 0 /\ Over(g, T) = 0
      BY <2>1, <2>2, SumStep
    <3> QED BY <3>1
  <2>3. CASE T # {}
    <3>1. PICK x \in T : TRUE
      BY <2>3
    <3>2. /\ Over(h, T) = h[x] + Over(h, T \ {x})
          /\ Over(f, T) = f[x] + Over(f, T \ {x})
          /\ Over(g, T) = g[x] + Over(g, T \ {x})
      BY <2>1, SumStep
    <3>3. IsFiniteSet(T \ {x})
      BY <2>1, FS_Subset
    <3>4. Over(f, T \ {x}) \in Int /\ Over(g, T \ {x}) \in Int
      BY <2>1, <3>3, SumStep
    <3>5. PICK k, l, m, n \in Int : /\ k = f[x] /\ l = g[x]
                                    /\ m = Over(f, T \ {x}) /\ n = Over(g, T \ {x})
      BY <2>1, <3>4
    <3>6. h[x] = k + l /\ Over(h, T \ {x}) = m + n
      BY <1>1, <3>5
    <3> HIDE DEF Good
    <3>7. Over(h, T) = (k + l) + (m + n) /\ Over(f, T) = k + m /\ Over(g, T) = l + n
      BY <3>2, <3>5, <3>6
    <3> QED BY <3>7
  <2> QED BY <2>2, <2>3
<1>2. Hereditary(Good, S)
  BY <1>1 DEF Hereditary
<1>3. S \in Good
  <2> HIDE DEF Good
  <2> QED BY <1>2, SubsetInduction
<1> QED BY <1>3

LEMMA Distributes ==
  ASSUME NEW k \in Int, NEW m \in Int, NEW n \in Int
  PROVE  k * (m + n) = k * m + k * n
OBVIOUS

LEMMA SumScaled ==
  ASSUME NEW S, IsFiniteSet(S), NEW k \in Int, NEW f, \A x \in S : f[x] \in Int,
         NEW h, \A x \in S : h[x] = k * f[x]
  PROVE  Over(h, S) = k * Over(f, S)
<1> DEFINE Good == {T \in SUBSET S : Over(h, T) = k * Over(f, T)}
<1>1. ASSUME NEW T \in SUBSET S, \A x \in T : T \ {x} \in Good
      PROVE  Over(h, T) = k * Over(f, T)
  <2>1. IsFiniteSet(T) /\ \A x \in T : f[x] \in Int /\ h[x] \in Int
    BY FS_Subset
  <2>2. CASE T = {}
    <3>1. Over(h, T) = 0 /\ Over(f, T) = 0
      BY <2>1, <2>2, SumStep
    <3> QED BY <3>1
  <2>3. CASE T # {}
    <3>1. PICK x \in T : TRUE
      BY <2>3
    <3>2. Over(h, T) = h[x] + Over(h, T \ {x}) /\ Over(f, T) = f[x] + Over(f, T \ {x})
      BY <2>1, SumStep
    <3>3. IsFiniteSet(T \ {x})
      BY <2>1, FS_Subset
    <3>4. Over(f, T \ {x}) \in Int
      BY <2>1, <3>3, SumStep
    <3>5. PICK m, n \in Int : m = f[x] /\ n = Over(f, T \ {x})
      BY <2>1, <3>4
    <3>6. h[x] = k * m /\ Over(h, T \ {x}) = k * n
      BY <1>1, <3>5
    <3> HIDE DEF Good
    <3> QED BY <3>2, <3>5, <3>6, Distributes
  <2> QED BY <2>2, <2>3
<1>2. Hereditary(Good, S)
  BY <1>1 DEF Hereditary
<1>3. S \in Good
  <2> HIDE DEF Good
  <2> QED BY <1>2, SubsetInduction
<1> QED BY <1>3

\* What adds nothing need not be summed.
LEMMA SumSupport ==
  ASSUME NEW S, IsFiniteSet(S), NEW f, \A x \in S : f[x] \in Int,
         NEW T \in SUBSET S, \A x \in S \ T : f[x] = 0
  PROVE  Over(f, S) = Over(f, T)
<1> DEFINE rest == S \ T
<1>1. IsFiniteSet(T) /\ IsFiniteSet(rest)
  BY FS_Subset
<1>2. T \cup rest = S /\ T \cap rest = {}
  OBVIOUS
<1>3. \A x \in rest : f[x] \in Int /\ f[x] = 0 * f[x]
  OBVIOUS
<1>4. \A x \in T \cup rest : f[x] \in Int
  OBVIOUS
<1> HIDE DEF rest
<1>5. Over(f, S) = Over(f, T) + Over(f, rest)
  BY <1>1, <1>2, <1>4, SumParts
<1>6. Over(f, T) \in Int /\ Over(f, rest) \in Int
  BY <1>1, <1>4, SumStep
<1>7. Over(f, rest) = 0 * Over(f, rest)
  BY <1>1, <1>3, SumScaled
<1> QED BY <1>5, <1>6, <1>7

\* Rows of a table, then columns.
LEMMA SumSwap ==
  ASSUME NEW A, IsFiniteSet(A), NEW B, IsFiniteSet(B),
         NEW m, \A a \in A : \A b \in B : m[a][b] \in Int
  PROVE  Over([a \in A |-> Over(m[a], B)], A)
           = Over([b \in B |-> Over([a \in A |-> m[a][b]], A)], B)
<1> DEFINE rows == [a \in A |-> Over(m[a], B)]
           col(b) == [a \in A |-> m[a][b]]
           cols(T) == [b \in B |-> Over(col(b), T)]
           Good == {T \in SUBSET A : Over(rows, T) = Over(cols(T), B)}
<1>1. \A a \in A : rows[a] = Over(m[a], B) /\ rows[a] \in Int
  <2>1. \A a \in A : Over(m[a], B) \in Int
    BY SumStep
  <2> QED BY <2>1
<1>2. \A b \in B : \A a \in A : col(b)[a] = m[a][b] /\ col(b)[a] \in Int
  OBVIOUS
<1>3. \A T : \A b \in B : cols(T)[b] = Over(col(b), T)
  OBVIOUS
<1>4. ASSUME NEW T \in SUBSET A, \A a \in T : T \ {a} \in Good
      PROVE  Over(rows, T) = Over(cols(T), B)
  <2>1. IsFiniteSet(T) /\ \A a \in T : IsFiniteSet(T \ {a})
    BY FS_Subset
  <2> HIDE DEF rows, col, cols
  <2>2. \A b \in B : /\ Over(col(b), T) \in Int /\ (T = {} => Over(col(b), T) = 0)
                     /\ \A a \in T : Over(col(b), T) = m[a][b] + Over(col(b), T \ {a})
    <3> SUFFICES ASSUME NEW b \in B
                 PROVE  /\ Over(col(b), T) \in Int /\ (T = {} => Over(col(b), T) = 0)
                        /\ \A a \in T : Over(col(b), T) = m[a][b] + Over(col(b), T \ {a})
      OBVIOUS
    <3> DEFINE f == col(b)
    <3>1. \A a \in T : f[a] = m[a][b] /\ f[a] \in Int
      BY <1>2
    <3> HIDE DEF f
    <3>2. /\ Over(f, T) \in Int /\ (T = {} => Over(f, T) = 0)
          /\ \A a \in T : Over(f, T) = f[a] + Over(f, T \ {a})
      BY <2>1, <3>1, SumStep
    <3>3. \A a \in T : Over(f, T) = m[a][b] + Over(f, T \ {a})
      BY <3>1, <3>2
    <3> QED BY <3>2, <3>3 DEF f
  <2>3. CASE T = {}
    <3>1. Over(rows, T) = 0
      BY <1>1, <2>1, <2>3, SumStep
    <3>2. \A b \in B : cols(T)[b] = 0
      <4>1. \A b \in B : cols(T)[b] = Over(col(b), T)
        BY <1>3
      <4>2. \A b \in B : Over(col(b), T) = 0
        BY <2>2, <2>3
      <4> QED BY <4>1, <4>2
    <3> DEFINE c == cols(T)
    <3>3. Over(c, B) = Over(c, {})
      <4>1. \A b \in B : c[b] \in Int /\ c[b] = 0
        BY <3>2
      <4> HIDE DEF c
      <4> QED BY <4>1, SumSupport
    <3>4. IsFiniteSet({})
      BY FS_EmptySet
    <3>5. Over(c, {}) = 0
      <4> HIDE DEF c
      <4> QED BY <3>4, SumStep
    <3> QED BY <3>1, <3>3, <3>5
  <2>4. CASE T # {}
    <3>1. PICK a \in T : TRUE
      BY <2>4
    <3>2. Over(rows, T) = Over(m[a], B) + Over(rows, T \ {a})
      <4>1. Over(rows, T) = rows[a] + Over(rows, T \ {a})
        BY <1>1, <2>1, SumStep
      <4>2. rows[a] = Over(m[a], B)
        BY <1>1
      <4> QED BY <4>1, <4>2
    <3>3. Over(rows, T \ {a}) = Over(cols(T \ {a}), B)
      BY <1>4
    <3> DEFINE c == cols(T)
               d == cols(T \ {a})
               f == m[a]
    <3>4. \A b \in B : f[b] \in Int /\ d[b] \in Int /\ c[b] = f[b] + d[b]
      <4> SUFFICES ASSUME NEW b \in B
                   PROVE  f[b] \in Int /\ d[b] \in Int /\ c[b] = f[b] + d[b]
        OBVIOUS
      <4> DEFINE g == col(b)
      <4>1. \A x \in T \ {a} : g[x] \in Int
        BY <1>2
      <4>2. Over(g, T \ {a}) \in Int
        <5> HIDE DEF g
        <5> QED BY <2>1, <4>1, SumStep
      <4>3. c[b] = Over(g, T) /\ d[b] = Over(g, T \ {a})
        BY <1>3
      <4>4. Over(g, T) = m[a][b] + Over(g, T \ {a})
        BY <2>2
      <4> HIDE DEF c, d, g
      <4> QED BY <4>2, <4>3, <4>4
    <3>5. Over(c, B) = Over(f, B) + Over(d, B)
      <4> HIDE DEF c, d, f
      <4> QED BY <3>4, SumPlus
    <3> QED BY <3>2, <3>3, <3>5
  <2> QED BY <2>3, <2>4
<1>5. Hereditary(Good, A)
  <2> HIDE DEF rows, cols
  <2> QED BY <1>4 DEF Hereditary
<1>6. A \in Good
  <2> HIDE DEF Good
  <2> QED BY <1>5, SubsetInduction
<1> QED BY <1>6

\* The values of one function under the names of another.
LEMMA SumRenamed ==
  ASSUME NEW S, IsFiniteSet(S), NEW g, \A x, y \in S : g[x] = g[y] => x = y,
         NEW f, NEW h, \A x \in S : h[x] \in Int /\ f[g[x]] = h[x]
  PROVE  Over(f, {g[x] : x \in S}) = Over(h, S)
<1> DEFINE image(T) == {g[x] : x \in T}
           Good == {T \in SUBSET S : Over(f, image(T)) = Over(h, T) /\ IsFiniteSet(image(T))}
<1>1. ASSUME NEW T \in SUBSET S, \A x \in T : T \ {x} \in Good
      PROVE  Over(f, image(T)) = Over(h, T) /\ IsFiniteSet(image(T))
  <2>1. IsFiniteSet(T) /\ \A x \in T : h[x] \in Int
    BY FS_Subset
  <2>2. CASE T = {}
    <3>1. image(T) = {}
      BY <2>2
    <3>2. IsFiniteSet({})
      BY FS_EmptySet
    <3>3. Over(f, {}) = 0
      BY <3>2, SumStep
    <3>4. Over(h, T) = 0
      BY <2>1, <2>2, SumStep
    <3> QED BY <3>1, <3>2, <3>3, <3>4
  <2>3. CASE T # {}
    <3>1. PICK x \in T : TRUE
      BY <2>3
    <3> DEFINE y == g[x]
               R == image(T)
               Q == image(T \ {x})
    <3>2. y \in R /\ R \ {y} = Q /\ R = Q \cup {y}
      OBVIOUS
    <3>3. Over(f, Q) = Over(h, T \ {x}) /\ IsFiniteSet(Q)
      BY <1>1
    <3>4. \A z \in R : f[z] \in Int
      OBVIOUS
    <3>5. f[y] = h[x] /\ h[x] \in Int
      OBVIOUS
    <3> HIDE DEF y, R, Q, Good
    <3>6. IsFiniteSet(R)
      BY <3>2, <3>3, FS_AddElement
    <3>7. Over(f, R) = f[y] + Over(f, R \ {y})
      BY <3>2, <3>4, <3>6, SumStep
    <3>8. Over(h, T) = h[x] + Over(h, T \ {x})
      BY <2>1, SumStep
    <3>9. Over(f, R) = Over(h, T)
      BY <3>2, <3>3, <3>5, <3>7, <3>8
    <3> QED BY <3>6, <3>9 DEF R
  <2> QED BY <2>2, <2>3
<1>2. Hereditary(Good, S)
  <2> HIDE DEF image
  <2> QED BY <1>1 DEF Hereditary
<1>3. S \in Good
  <2> HIDE DEF Good
  <2> QED BY <1>2, SubsetInduction
<1> QED BY <1>3

-----------------------------------------------------------------------------
(***************************************************************************)
(* What the pages add up.                                                  *)
(***************************************************************************)
\* The figures of an account, by security: a table whose rows sum to the
\* portfolio page and whose columns sum to the pages of the securities.
Held(a, w) == Open(Positions(Book, a, w))
MarketOf(a, w, c) ==
  [s \in Securities |-> IF s \in Held(a, w) THEN HoldingValuation(Book, a, s, w, c).market ELSE 0]
CostOf(a, w, c) ==
  [s \in Securities |-> IF s \in Held(a, w) THEN HoldingValuation(Book, a, s, w, c).cost ELSE 0]
GainOf(a, w, c) ==
  [s \in Securities |-> IF s \in Held(a, w) THEN HoldingValuation(Book, a, s, w, c).gain ELSE 0]

LEMMA LatestPriceKnown ==
  ASSUME NEW s, NEW w, w.cutoff \in Int, PricesKnown(Book, s, w) # {}
  PROVE  LatestPrice(Book, s, w) \in Prices
<1> DEFINE S == PricesKnown(Book, s, w)
<1>1. S \in SUBSET Prices /\ \A p \in S : p.security = s
  BY DEF PricesKnown, Book
<1>2. IsFiniteSet(S)
  BY <1>1, FS_Subset, PricesAssumption
<1> HIDE DEF S
<1>3. Dated(S)
  BY <1>1, <1>2, PricesAssumption DEF Dated
<1>4. S # {}
  BY DEF S
<1>5. Newest(S) \in Prices
  BY <1>1, <1>3, <1>4, NewestExists
<1> QED BY <1>5 DEF LatestPrice, S

\* A row that is not an error.
LEMMA KnownRow ==
  ASSUME NEW a \in Accounts, NEW s \in Securities, NEW w, w.cutoff \in Int, NEW c,
         Position(Book, a, s, w) \in HoldingType, HoldingValuation(Book, a, s, w, c).known
  PROVE  LET r == HoldingValuation(Book, a, s, w, c)
             rate == FxRate(Rates, Home[a], c, w.cutoff)
         IN  /\ r.security = s /\ r.market \in Int /\ r.cost \in Int /\ r.gain = r.market - r.cost
             /\ rate \in Int /\ r.cost = rate * Position(Book, a, s, w).base
<1> DEFINE p == Position(Book, a, s, w)
           price == LatestPrice(Book, s, w)
           unit == UnitValue(Book, price, w, c)
           rate == FxRate(Rates, Home[a], c, w.cutoff)
           r == HoldingValuation(Book, a, s, w, c)
<1>1. r = HoldingRow(s, p, Convertible(Book, a, s, w, c), unit, rate)
  BY DEF HoldingValuation, Book
<1>2. Convertible(Book, a, s, w, c)
  BY <1>1 DEF HoldingRow
<1>3. p.quantity \in Int /\ p.base \in Int
  BY DEF HoldingType
<1>4. price \in Prices
  BY <1>2, LatestPriceKnown DEF Convertible
<1>5. rate \in Int /\ FxRate(Rates, price.currency, c, w.cutoff) \in Int
  BY RateKnown
<1>6. unit \in Int
  <2>1. PICK k, l, m, n \in Int : /\ k = price.price /\ l = Ulp /\ m = RateUnit
                                  /\ n = FxRate(Rates, price.currency, c, w.cutoff)
    BY <1>4, <1>5, PricesAssumption, PrecisionAssumption
  <2>2. unit = k * l * m * n
    BY <2>1 DEF UnitValue, Book
  <2>3. k * l \in Int
    BY <2>1
  <2>4. (k * l) * m \in Int
    BY <2>3
  <2>5. ((k * l) * m) * n \in Int
    BY <2>4
  <2> QED BY <2>2, <2>5
<1> HIDE DEF p, price, unit, rate
<1>7. /\ r.security = s /\ r.market = p.quantity * unit /\ r.cost = p.base * rate
      /\ r.gain = p.quantity * unit - p.base * rate
  BY <1>1, <1>2 DEF HoldingRow
<1>8. p.quantity * unit \in Int /\ p.base * rate \in Int /\ p.base * rate = rate * p.base
  BY <1>3, <1>5, <1>6
<1> HIDE DEF r
<1>9. r.market \in Int /\ r.cost \in Int /\ r.gain = r.market - r.cost
  BY <1>7, <1>8
<1> QED BY <1>5, <1>7, <1>8, <1>9 DEF r, rate, p

\* Cash is a number.
LEMMA CashTyped ==
  ASSUME Historical(posted), NEW a \in Accounts, NEW w
  PROVE  CashBalance(Book, a, w) \in Int
<1> DEFINE E == {e \in OtherEntries : e.account = a /\ e.day <= w.through}
           T == {t \in posted : t.account = a /\ t.day <= w.through}
           f == [e \in E |-> e.amount]
           g == [t \in T |-> CashAmount(t, Home[a])]
<1>1. IsFiniteSet(E) /\ IsFiniteSet(T) /\ Historical(T)
  <2>1. E \in SUBSET OtherEntries /\ T \in SUBSET posted
    OBVIOUS
  <2> HIDE DEF E, T
  <2> QED BY <2>1, FS_Subset, PartHistorical, EntriesAssumption DEF Historical
<1>2. CashBalance(Book, a, w) = SumFunction(f) + SumFunction(g)
  BY DEF CashBalance, Sum, Book
<1>3. \A e \in E : f[e] \in Int
  BY EntriesAssumption
<1>4. \A t \in T : g[t] \in Int
  <2> HIDE DEF T
  <2> SUFFICES ASSUME NEW t \in T
               PROVE  CashAmount(t, Home[a]) \in Int
    OBVIOUS
  <2>1. t.gross \in Nat /\ t.costs \in Nat /\ t.exchange \in Nat /\ t.kind \in Kinds
    BY <1>1, RowTyped
  <2>2. NetCashImpact(t) \in Int
    BY <2>1 DEF NetCashImpact, Kinds
  <2>3. RateToAccount(t, Home[a]) \in Int
    BY <2>1, PrecisionAssumption DEF RateToAccount
  <2>4. NetCashImpact(t) * RateToAccount(t, Home[a]) \in Int
    BY <2>2, <2>3
  <2> QED BY <2>4, RoundDivType, PrecisionAssumption DEF CashAmount
<1>5. [e \in E |-> f[e]] = f /\ [t \in T |-> g[t]] = g
  OBVIOUS
<1> HIDE DEF f, g, E, T
<1>6. Over(f, E) \in Int /\ Over(g, T) \in Int
  BY <1>1, <1>3, <1>4, SumStep
<1> QED BY <1>2, <1>5, <1>6 DEF Over

\* The figures of an account whose valuation is complete are sums of its rows.
LEMMA CompleteFigures ==
  ASSUME Historical(posted), NEW a \in Accounts, NEW w, w.cutoff \in Int, NEW c,
         \A s \in Securities : Position(Book, a, s, w) \in HoldingType,
         Valuation(Book, a, w, c).complete
  PROVE  LET v == Valuation(Book, a, w, c)
         IN  /\ \A s \in Held(a, w) : HoldingValuation(Book, a, s, w, c).known
             /\ \A s \in Securities :
                  /\ MarketOf(a, w, c)[s] \in Int /\ CostOf(a, w, c)[s] \in Int
                  /\ GainOf(a, w, c)[s] = MarketOf(a, w, c)[s] - CostOf(a, w, c)[s]
             /\ v.market = Over(MarketOf(a, w, c), Securities)
             /\ v.cost = Over(CostOf(a, w, c), Securities)
             /\ v.unrealized = Over(GainOf(a, w, c), Securities)
             /\ v.market \in Int /\ v.cost \in Int /\ v.unrealized = v.market - v.cost
             /\ v.cash \in Int /\ v.total = v.cash + v.market
<1> DEFINE v == Valuation(Book, a, w, c)
           open == Held(a, w)
           row == [s \in open |-> HoldingValuation(Book, a, s, w, c)]
           rows == {HoldingValuation(Book, a, s, w, c) : s \in open}
           rate == FxRate(Rates, Home[a], c, w.cutoff)
           cash == CashBalance(Book, a, w) * Ulp * RateUnit
           base == [s \in open |-> Position(Book, a, s, w).base]
           M == MarketOf(a, w, c)
           C == CostOf(a, w, c)
           G == GainOf(a, w, c)
<1>1. open \in SUBSET Securities /\ IsFiniteSet(open)
  <2>1. open \in SUBSET Securities
    BY DEF Held, Open
  <2> QED BY <2>1, FS_Subset, OwnedAssumption
<1>2. v = Totals(rows, Positions(Book, a, w), rate, cash)
  BY DEF Valuation, Held, Book
<1>3. \A s \in open : HoldingValuation(Book, a, s, w, c).known
  <2>1. v.complete = (rate # MissingRate /\ \A r \in rows : r.known)
    <3> HIDE DEF rows, rate, cash, v
    <3> QED BY <1>2 DEF Totals
  <2> HIDE DEF open, rate, cash
  <2> QED BY <2>1
<1>4. \A s \in open :
        /\ row[s].security = s /\ row[s].market \in Int /\ row[s].cost \in Int
        /\ row[s].gain = row[s].market - row[s].cost
        /\ row[s].cost = rate * base[s] /\ base[s] \in Int
  <2> SUFFICES ASSUME NEW s \in open
               PROVE  /\ row[s].security = s /\ row[s].market \in Int /\ row[s].cost \in Int
                      /\ row[s].gain = row[s].market - row[s].cost
                      /\ row[s].cost = rate * base[s] /\ base[s] \in Int
    OBVIOUS
  <2>1. s \in Securities /\ row[s] = HoldingValuation(Book, a, s, w, c)
        /\ base[s] = Position(Book, a, s, w).base
    BY <1>1
  <2>2. Position(Book, a, s, w) \in HoldingType /\ Position(Book, a, s, w).base \in Int
    BY <2>1 DEF HoldingType
  <2> HIDE DEF row, open, base
  <2> QED BY <1>3, <2>1, <2>2, KnownRow
<1>5. rate \in Int
  BY RateKnown
<1>6. \A s \in Securities : s \notin open => M[s] = 0 /\ C[s] = 0 /\ G[s] = 0
  BY DEF MarketOf, CostOf, GainOf
<1>7. \A s \in open : M[s] = row[s].market /\ C[s] = row[s].cost /\ G[s] = row[s].gain
  BY <1>1 DEF MarketOf, CostOf, GainOf
<1>8. \A s \in Securities : M[s] \in Int /\ C[s] \in Int /\ G[s] = M[s] - C[s]
  <2> HIDE DEF M, C, G, open, row
  <2> QED BY <1>4, <1>6, <1>7
<1>9. v.market = Over(M, Securities)
  <2> DEFINE f == [r \in rows |-> r.market]
             h == [s \in open |-> row[s].market]
  <2>1. v.market = SumFunction(f)
    <3> HIDE DEF rows, rate, cash, v
    <3> QED BY <1>2 DEF Totals, Sum
  <2>2. {row[s] : s \in open} = rows
    OBVIOUS
  <2>3. \A s \in open : row[s] \in rows
    OBVIOUS
  <2> HIDE DEF row, rows, open
  <2>4. \A s \in open : h[s] \in Int /\ f[row[s]] = h[s] /\ M[s] = h[s]
    BY <1>4, <1>7, <2>3
  <2>5. \A x, y \in open : row[x] = row[y] => x = y
    BY <1>4
  <2>6. [r \in rows |-> f[r]] = f
    OBVIOUS
  <2> HIDE DEF f, h, M
  <2>7. Over(f, {row[s] : s \in open}) = Over(h, open)
    BY <1>1, <2>4, <2>5, SumRenamed
  <2>8. Over(h, open) = Over(M, open)
    BY <2>4, SumSame
  <2>9. Over(M, Securities) = Over(M, open)
    BY <1>1, <1>6, <1>8, SumSupport, OwnedAssumption
  <2> QED BY <2>1, <2>2, <2>6, <2>7, <2>8, <2>9 DEF Over
<1>10. rate * Over(base, open) = Over(C, Securities)
  <2>1. \A s \in open : C[s] = rate * base[s] /\ base[s] \in Int
    BY <1>4, <1>7
  <2> HIDE DEF C, base, rate, open
  <2>2. Over(C, open) = rate * Over(base, open)
    <3>1. PICK k \in Int : k = rate
      BY <1>5
    <3>2. IsFiniteSet(open) /\ (\A s \in open : base[s] \in Int) /\ \A s \in open : C[s] = k * base[s]
      BY <1>1, <2>1, <3>1
    <3>3. Over(C, open) = k * Over(base, open)
      BY <3>2, SumScaled
    <3> QED BY <3>1, <3>3
  <2>3. Over(C, Securities) = Over(C, open)
    BY <1>1, <1>6, <1>8, SumSupport, OwnedAssumption
  <2> QED BY <2>2, <2>3
<1>11. v.cost = rate * Over(base, open) /\ v.unrealized = v.market - rate * Over(base, open)
       /\ v.total = rate * cash + v.market /\ v.cash = rate * cash
  <2>1. Open(Positions(Book, a, w)) = open /\ open \in SUBSET Securities
    BY <1>1 DEF Held
  <2>2. [s \in open |-> Positions(Book, a, w)[s].base] = [s \in open |-> base[s]]
    BY <2>1 DEF Positions
  <2>3. Sum(LAMBDA s : Positions(Book, a, w)[s].base, open) = Over(base, open)
    <3> HIDE DEF open, base
    <3> QED BY <2>2 DEF Sum, Over
  <2> HIDE DEF rows, rate, cash, open, base, v
  <2> QED BY <1>2, <2>1, <2>3 DEF Totals
<1>12. cash \in Int
  <2>1. PICK k, l, m \in Int : k = CashBalance(Book, a, w) /\ l = Ulp /\ m = RateUnit
    BY CashTyped, PrecisionAssumption
  <2>2. k * l \in Int
    BY <2>1
  <2>3. (k * l) * m \in Int
    BY <2>2
  <2> QED BY <2>1, <2>3
<1>13. rate * cash \in Int
  <2> HIDE DEF rate, cash
  <2> QED BY <1>5, <1>12
<1>14. Over(M, Securities) \in Int /\ Over(C, Securities) \in Int
  <2> HIDE DEF M, C
  <2> QED BY <1>8, SumStep, OwnedAssumption
<1>15. Over(M, Securities) = Over(C, Securities) + Over(G, Securities)
       /\ Over(G, Securities) \in Int
  <2>1. \A s \in Securities : G[s] \in Int /\ M[s] = C[s] + G[s]
    <3> HIDE DEF M, C, G
    <3> QED BY <1>8
  <2> HIDE DEF M, C, G
  <2> QED BY <1>8, <2>1, SumPlus, SumStep, OwnedAssumption
<1> HIDE DEF M, C, G, rate, cash, v, open, base
<1>16. v.market \in Int /\ v.cost \in Int /\ v.cost = Over(C, Securities)
       /\ v.unrealized = v.market - v.cost
  BY <1>9, <1>10, <1>11, <1>14
<1>17. v.unrealized = Over(G, Securities)
  BY <1>9, <1>14, <1>15, <1>16
<1>18. v.cash \in Int /\ v.total = v.cash + v.market
  BY <1>11, <1>13
<1> QED BY <1>3, <1>8, <1>9, <1>16, <1>17, <1>18 DEF v, open, M, C, G

\* A table of accounts and securities, summed by account and by security.
Column(m, s) == [a \in Accounts |-> m[a][s]]
Summed(m, value, sheet) ==
  /\ \A a \in Accounts : \A s \in Securities : m[a][s] \in Int
  /\ \A a \in Accounts : value[a] = Over(m[a], Securities)
  /\ \A s \in Securities : sheet[s] = Over(Column(m, s), Accounts)

LEMMA TableSums ==
  ASSUME NEW m, NEW value, NEW sheet, Summed(m, value, sheet), NEW T \in SUBSET Accounts
  PROVE  /\ Over(sheet, Securities) = Over(value, T) + Over(value, Accounts \ T)
         /\ Over(value, T) \in Int /\ Over(value, Accounts \ T) \in Int
<1> DEFINE rows == [a \in Accounts |-> Over(m[a], Securities)]
           cols == [s \in Securities |-> Over([a \in Accounts |-> m[a][s]], Accounts)]
           U == Accounts \ T
<1>1. IsFiniteSet(Accounts) /\ IsFiniteSet(Securities) /\ IsFiniteSet(T) /\ IsFiniteSet(U)
  <2>1. Accounts \in SUBSET DOMAIN Owned
    BY OwnedAssumption
  <2>2. IsFiniteSet(Accounts) /\ IsFiniteSet(Securities)
    BY <2>1, FS_Subset, OwnedAssumption
  <2> QED BY <2>2, FS_Subset
<1>2. Over(rows, Accounts) = Over(cols, Securities)
  BY <1>1, SumSwap DEF Summed
<1>3. \A a \in Accounts : value[a] = rows[a] /\ value[a] \in Int
  BY <1>1, SumStep DEF Summed
<1>4. \A s \in Securities : sheet[s] = cols[s]
  BY DEF Summed, Column
<1>5. T \cup U = Accounts
  OBVIOUS
<1>a. T \cap U = {}
  OBVIOUS
<1> HIDE DEF rows, cols, U
<1>6. Over(value, Accounts) = Over(rows, Accounts) /\ Over(sheet, Securities) = Over(cols, Securities)
  BY <1>3, <1>4, SumSame
<1>7. \A a \in T \cup U : value[a] \in Int
  BY <1>3, <1>5
<1>8. Over(value, T \cup U) = Over(value, T) + Over(value, U)
  BY <1>1, <1>a, <1>7, SumParts
<1>9. Over(value, T) \in Int /\ Over(value, U) \in Int
  BY <1>1, <1>7, SumStep
<1> QED BY <1>2, <1>5, <1>6, <1>8, <1>9 DEF U

\* Every valuation on a day's pages is complete.
AllComplete(w) ==
  /\ w.cutoff \in Int
  /\ \A a \in Accounts : /\ Valuation(Book, a, w, Reporting).complete
                         /\ \A s \in Securities : Position(Book, a, s, w) \in HoldingType

\* The tables of a day.
Markets(w) == [a \in Accounts |-> MarketOf(a, w, Reporting)]
Costs(w) == [a \in Accounts |-> CostOf(a, w, Reporting)]
Gains(w) == [a \in Accounts |-> GainOf(a, w, Reporting)]

\* The page of a security sums a column.
LEMMA SheetSums ==
  ASSUME Historical(posted), NEW w, AllComplete(w), NEW s \in Securities
  PROVE  LET sheet == SecurityPage(Book, s, w)
         IN  /\ sheet.complete
             /\ sheet.market = Over(Column(Markets(w), s), Accounts)
             /\ sheet.cost = Over(Column(Costs(w), s), Accounts)
             /\ sheet.unrealized = Over(Column(Gains(w), s), Accounts)
<1> DEFINE H == {x \in Accounts : Position(Book, x, s, w).quantity # 0}
           row(a) == HoldingValuation(Book, a, s, w, Reporting)
           rows == [a \in H |-> row(a)]
           M == Column(Markets(w), s)
           C == Column(Costs(w), s)
           G == Column(Gains(w), s)
           market == [a \in H |-> rows[a].market]
           cost == [a \in H |-> rows[a].cost]
           gain == [a \in H |-> rows[a].gain]
           sheet == SecurityPage(Book, s, w)
<1>1. IsFiniteSet(Accounts)
  <2>1. Accounts \in SUBSET DOMAIN Owned
    BY OwnedAssumption
  <2> QED BY <2>1, FS_Subset, OwnedAssumption
<1>2. H \in SUBSET Accounts /\ \A a \in Accounts : a \in H <=> s \in Held(a, w)
  BY DEF Held, Open, Positions
<1>b. \A a \in Accounts : /\ M[a] = MarketOf(a, w, Reporting)[s] /\ C[a] = CostOf(a, w, Reporting)[s]
                          /\ G[a] = GainOf(a, w, Reporting)[s]
  BY DEF Column, Markets, Costs, Gains
<1>3. \A a \in Accounts :
        /\ s \in Held(a, w) => row(a).known
        /\ MarketOf(a, w, Reporting)[s] \in Int /\ CostOf(a, w, Reporting)[s] \in Int
        /\ GainOf(a, w, Reporting)[s] = MarketOf(a, w, Reporting)[s] - CostOf(a, w, Reporting)[s]
  <2> SUFFICES ASSUME NEW a \in Accounts
               PROVE  /\ s \in Held(a, w) => row(a).known
                      /\ MarketOf(a, w, Reporting)[s] \in Int
                      /\ CostOf(a, w, Reporting)[s] \in Int
                      /\ GainOf(a, w, Reporting)[s]
                           = MarketOf(a, w, Reporting)[s] - CostOf(a, w, Reporting)[s]
    OBVIOUS
  <2>1. /\ w.cutoff \in Int /\ Valuation(Book, a, w, Reporting).complete
        /\ \A x \in Securities : Position(Book, a, x, w) \in HoldingType
    BY DEF AllComplete
  <2>2. /\ \A x \in Held(a, w) : HoldingValuation(Book, a, x, w, Reporting).known
        /\ \A x \in Securities :
             /\ MarketOf(a, w, Reporting)[x] \in Int /\ CostOf(a, w, Reporting)[x] \in Int
             /\ GainOf(a, w, Reporting)[x]
                  = MarketOf(a, w, Reporting)[x] - CostOf(a, w, Reporting)[x]
    BY <2>1, CompleteFigures
  <2>3. s \in Held(a, w) => row(a).known
    BY <2>2
  <2>4. /\ MarketOf(a, w, Reporting)[s] \in Int /\ CostOf(a, w, Reporting)[s] \in Int
        /\ GainOf(a, w, Reporting)[s]
             = MarketOf(a, w, Reporting)[s] - CostOf(a, w, Reporting)[s]
    BY <2>2
  <2> QED BY <2>3, <2>4
<1>4. \A a \in Accounts : M[a] \in Int /\ C[a] \in Int /\ G[a] \in Int
  <2>1. \A a \in Accounts : GainOf(a, w, Reporting)[s] \in Int
    <3> SUFFICES ASSUME NEW a \in Accounts
                 PROVE  GainOf(a, w, Reporting)[s] \in Int
      OBVIOUS
    <3>1. PICK m, n \in Int : m = MarketOf(a, w, Reporting)[s] /\ n = CostOf(a, w, Reporting)[s]
      BY <1>3
    <3>2. GainOf(a, w, Reporting)[s] = m - n
      BY <1>3, <3>1
    <3> QED BY <3>2
  <2> HIDE DEF M, C, G, row
  <2> QED BY <1>3, <1>b, <2>1
<1>5. \A a \in Accounts \ H : M[a] = 0 /\ C[a] = 0 /\ G[a] = 0
  <2> HIDE DEF H, M, C, G
  <2> QED BY <1>2, <1>b DEF MarketOf, CostOf, GainOf
<1>6. \A a \in H : M[a] = market[a] /\ C[a] = cost[a] /\ G[a] = gain[a]
  <2> HIDE DEF H, M, C, G
  <2> QED BY <1>2, <1>b DEF MarketOf, CostOf, GainOf
<1>7. sheet = SecurityTotals(rows) /\ DOMAIN rows = H
  BY DEF SecurityPage
<1>8. /\ sheet.complete = (\A a \in H : rows[a].known)
      /\ sheet.market = SumFunction(market) /\ sheet.cost = SumFunction(cost)
      /\ sheet.unrealized = SumFunction(gain)
  <2> HIDE DEF rows, H, sheet
  <2> QED BY <1>7 DEF SecurityTotals, Sum
<1>9. \A a \in H : rows[a].known
  <2>1. \A a \in H : rows[a] = row(a)
    OBVIOUS
  <2> HIDE DEF rows, H, row
  <2> QED BY <1>2, <1>3, <2>1
<1>10. [a \in H |-> market[a]] = market /\ [a \in H |-> cost[a]] = cost /\ [a \in H |-> gain[a]] = gain
  OBVIOUS
<1> HIDE DEF market, cost, gain, rows, sheet, H, M, C, G
<1>11. Over(M, Accounts) = Over(M, H) /\ Over(C, Accounts) = Over(C, H) /\ Over(G, Accounts) = Over(G, H)
  <2>1. Over(M, Accounts) = Over(M, H)
    BY <1>1, <1>2, <1>4, <1>5, SumSupport
  <2>2. Over(C, Accounts) = Over(C, H)
    BY <1>1, <1>2, <1>4, <1>5, SumSupport
  <2>3. Over(G, Accounts) = Over(G, H)
    BY <1>1, <1>2, <1>4, <1>5, SumSupport
  <2> QED BY <2>1, <2>2, <2>3
<1>12. Over(M, H) = Over(market, H) /\ Over(C, H) = Over(cost, H) /\ Over(G, H) = Over(gain, H)
  <2>1. Over(M, H) = Over(market, H)
    BY <1>6, SumSame
  <2>2. Over(C, H) = Over(cost, H)
    BY <1>6, SumSame
  <2>3. Over(G, H) = Over(gain, H)
    BY <1>6, SumSame
  <2> QED BY <2>1, <2>2, <2>3
<1>13. /\ Over(market, H) = SumFunction(market) /\ Over(cost, H) = SumFunction(cost)
       /\ Over(gain, H) = SumFunction(gain)
  BY <1>10 DEF Over
<1> QED BY <1>8, <1>9, <1>11, <1>12, <1>13 DEF M, C, G, sheet

LEMMA CompletePagesAgree ==
  ASSUME Historical(posted), NEW w, AllComplete(w)
  PROVE  Agree(PortfolioPage(Book, w), [s \in Securities |-> SecurityPage(Book, s, w)],
               [a \in Accounts |-> Valuation(Book, a, w, Reporting)],
               {a \in Accounts : ~Owned[a].active})
<1> DEFINE sheet == [s \in Securities |-> SecurityPage(Book, s, w)]
           v == [a \in Accounts |-> Valuation(Book, a, w, Reporting)]
           T == {x \in Accounts : Owned[x].active}
           page == PortfolioPage(Book, w)
           M == Markets(w)
           C == Costs(w)
           G == Gains(w)
           total == [a \in Accounts |-> v[a].total]
           cash == [a \in Accounts |-> v[a].cash]
           market == [a \in Accounts |-> v[a].market]
           cost == [a \in Accounts |-> v[a].cost]
           gain == [a \in Accounts |-> v[a].unrealized]
           marketOf == [s \in Securities |-> sheet[s].market]
           costOf == [s \in Securities |-> sheet[s].cost]
           gainOf == [s \in Securities |-> sheet[s].unrealized]
<1>1. IsFiniteSet(T) /\ T \in SUBSET Accounts /\ {a \in Accounts : ~Owned[a].active} = Accounts \ T
  <2>1. T \in SUBSET DOMAIN Owned
    BY OwnedAssumption
  <2>2. IsFiniteSet(T)
    BY <2>1, FS_Subset, OwnedAssumption
  <2> QED BY <2>2
<1>2. \A a \in Accounts :
        /\ \A s \in Securities :
             /\ MarketOf(a, w, Reporting)[s] \in Int /\ CostOf(a, w, Reporting)[s] \in Int
             /\ GainOf(a, w, Reporting)[s] = MarketOf(a, w, Reporting)[s] - CostOf(a, w, Reporting)[s]
        /\ v[a].market = Over(MarketOf(a, w, Reporting), Securities)
        /\ v[a].cost = Over(CostOf(a, w, Reporting), Securities)
        /\ v[a].unrealized = Over(GainOf(a, w, Reporting), Securities)
        /\ v[a].market \in Int /\ v[a].cash \in Int /\ v[a].total = v[a].cash + v[a].market
  <2> SUFFICES ASSUME NEW a \in Accounts
               PROVE  /\ \A s \in Securities :
                           /\ MarketOf(a, w, Reporting)[s] \in Int
                           /\ CostOf(a, w, Reporting)[s] \in Int
                           /\ GainOf(a, w, Reporting)[s]
                                = MarketOf(a, w, Reporting)[s] - CostOf(a, w, Reporting)[s]
                      /\ v[a].market = Over(MarketOf(a, w, Reporting), Securities)
                      /\ v[a].cost = Over(CostOf(a, w, Reporting), Securities)
                      /\ v[a].unrealized = Over(GainOf(a, w, Reporting), Securities)
                      /\ v[a].market \in Int /\ v[a].cash \in Int
                      /\ v[a].total = v[a].cash + v[a].market
    OBVIOUS
  <2>1. v[a] = Valuation(Book, a, w, Reporting)
    OBVIOUS
  <2> HIDE DEF v
  <2> QED BY <2>1, CompleteFigures DEF AllComplete
<1>b. \A a \in Accounts : /\ M[a] = MarketOf(a, w, Reporting) /\ C[a] = CostOf(a, w, Reporting)
                          /\ G[a] = GainOf(a, w, Reporting)
  BY DEF Markets, Costs, Gains
<1>3. \A a \in Accounts : \A s \in Securities :
        M[a][s] \in Int /\ C[a][s] \in Int /\ G[a][s] \in Int
  <2> HIDE DEF M, C, G
  <2> QED BY <1>2, <1>b
<1>4. \A a \in Accounts : /\ market[a] = Over(M[a], Securities) /\ cost[a] = Over(C[a], Securities)
                          /\ gain[a] = Over(G[a], Securities)
                          /\ cash[a] \in Int /\ market[a] \in Int /\ total[a] = cash[a] + market[a]
  <2> HIDE DEF M, C, G, v
  <2> QED BY <1>2, <1>b
<1>5. \A s \in Securities :
        /\ sheet[s].complete
        /\ marketOf[s] = Over(Column(M, s), Accounts)
        /\ costOf[s] = Over(Column(C, s), Accounts)
        /\ gainOf[s] = Over(Column(G, s), Accounts)
  <2> SUFFICES ASSUME NEW s \in Securities
               PROVE  /\ sheet[s].complete
                      /\ marketOf[s] = Over(Column(M, s), Accounts)
                      /\ costOf[s] = Over(Column(C, s), Accounts)
                      /\ gainOf[s] = Over(Column(G, s), Accounts)
    OBVIOUS
  <2>1. sheet[s] = SecurityPage(Book, s, w) /\ marketOf[s] = sheet[s].market
        /\ costOf[s] = sheet[s].cost /\ gainOf[s] = sheet[s].unrealized
    OBVIOUS
  <2> HIDE DEF sheet, marketOf, costOf, gainOf
  <2> QED BY <2>1, SheetSums
<1>6. /\ page.total = SumFunction([a \in T |-> total[a]])
      /\ page.cash = SumFunction([a \in T |-> cash[a]])
      /\ page.cost = SumFunction([a \in T |-> cost[a]])
      /\ page.unrealized = SumFunction([a \in T |-> gain[a]])
  <2> DEFINE shown == [a \in T |-> Valuation(Book, a, w, Reporting)]
  <2>1. page = PortfolioTotals(shown) /\ DOMAIN shown = T
    BY DEF PortfolioPage
  <2>2. /\ [a \in T |-> shown[a].total] = [a \in T |-> total[a]]
        /\ [a \in T |-> shown[a].cash] = [a \in T |-> cash[a]]
        /\ [a \in T |-> shown[a].cost] = [a \in T |-> cost[a]]
        /\ [a \in T |-> shown[a].unrealized] = [a \in T |-> gain[a]]
    BY <1>1
  <2> HIDE DEF shown, total, cash, cost, gain, T, page
  <2> QED BY <2>1, <2>2 DEF PortfolioTotals, Sum
<1>7. /\ Sum(LAMBDA s : sheet[s].market, Securities) = Over(marketOf, Securities)
      /\ Sum(LAMBDA s : sheet[s].cost, Securities) = Over(costOf, Securities)
      /\ Sum(LAMBDA s : sheet[s].unrealized, Securities) = Over(gainOf, Securities)
  <2>1. /\ [s \in Securities |-> sheet[s].market] = [s \in Securities |-> marketOf[s]]
        /\ [s \in Securities |-> sheet[s].cost] = [s \in Securities |-> costOf[s]]
        /\ [s \in Securities |-> sheet[s].unrealized] = [s \in Securities |-> gainOf[s]]
    OBVIOUS
  <2> HIDE DEF sheet, marketOf, costOf, gainOf
  <2> QED BY <2>1 DEF Sum, Over
<1>8. /\ Sum(LAMBDA a : v[a].market, Accounts \ T) = Over(market, Accounts \ T)
      /\ Sum(LAMBDA a : v[a].cost, Accounts \ T) = Over(cost, Accounts \ T)
      /\ Sum(LAMBDA a : v[a].unrealized, Accounts \ T) = Over(gain, Accounts \ T)
  <2>1. /\ [a \in Accounts \ T |-> v[a].market] = [a \in Accounts \ T |-> market[a]]
        /\ [a \in Accounts \ T |-> v[a].cost] = [a \in Accounts \ T |-> cost[a]]
        /\ [a \in Accounts \ T |-> v[a].unrealized] = [a \in Accounts \ T |-> gain[a]]
    OBVIOUS
  <2> HIDE DEF v, market, cost, gain, T
  <2> QED BY <2>1 DEF Sum, Over
<1> HIDE DEF sheet, v, T, page, M, C, G, total, cash, market, cost, gain, marketOf, costOf, gainOf
<1>9. page.total = Over(total, T) /\ page.cash = Over(cash, T) /\ page.cost = Over(cost, T)
      /\ page.unrealized = Over(gain, T)
  BY <1>6 DEF Over
<1>10. /\ Over(marketOf, Securities) = Over(market, T) + Over(market, Accounts \ T)
       /\ Over(market, T) \in Int /\ Over(market, Accounts \ T) \in Int
  <2>1. Summed(M, market, marketOf)
    BY <1>3, <1>4, <1>5 DEF Summed
  <2> QED BY <1>1, <2>1, TableSums
<1>11. Over(costOf, Securities) = Over(cost, T) + Over(cost, Accounts \ T)
  <2>1. Summed(C, cost, costOf)
    BY <1>3, <1>4, <1>5 DEF Summed
  <2> QED BY <1>1, <2>1, TableSums
<1>12. Over(gainOf, Securities) = Over(gain, T) + Over(gain, Accounts \ T)
  <2>1. Summed(G, gain, gainOf)
    BY <1>3, <1>4, <1>5 DEF Summed
  <2> QED BY <1>1, <2>1, TableSums
<1>13. Over(total, T) = Over(cash, T) + Over(market, T) /\ Over(cash, T) \in Int
  <2>1. \A a \in T : cash[a] \in Int /\ market[a] \in Int /\ total[a] = cash[a] + market[a]
    BY <1>1, <1>4
  <2> QED BY <1>1, <2>1, SumPlus, SumStep
<1>14. Over(marketOf, Securities) = page.total - page.cash + Over(market, Accounts \ T)
  BY <1>9, <1>10, <1>13
<1>15. Agree(page, sheet, v, Accounts \ T)
  BY <1>5, <1>7, <1>8, <1>9, <1>11, <1>12, <1>14 DEF Agree
<1> QED BY <1>1, <1>15 DEF page, sheet, v

\* investments/views.py:100-190 and valuation.py:52-145: the portfolio page
\* sums the table of positions by account, the pages of the securities sum the
\* same table by security.
THEOREM PagesAlwaysAgree == Spec => []PagesAgree
<1>1. Historical(posted) /\ WithinHorizon => PagesAgree
  <2> SUFFICES ASSUME Historical(posted), WithinHorizon, NEW d \in Days,
                      \A a \in Accounts : Replayable(Book, a, PageOf(d))
               PROVE  Agree(PortfolioPage(Book, PageOf(d)),
                            [s \in Securities |-> SecurityPage(Book, s, PageOf(d))],
                            [a \in Accounts |-> Valuation(Book, a, PageOf(d), Reporting)],
                            {a \in Accounts : ~Owned[a].active})
    BY DEF PagesAgree
  <2> DEFINE w == PageOf(d)
             v == [a \in Accounts |-> Valuation(Book, a, w, Reporting)]
  <2>1. w.cutoff \in Int
    BY DEF Days, PageOf
  <2>2. \A a \in Accounts : \A s \in Securities : Position(Book, a, s, w) \in HoldingType
    <3> SUFFICES ASSUME NEW a \in Accounts, NEW s \in Securities
                 PROVE  Position(Book, a, s, w) \in HoldingType
      OBVIOUS
    <3>1. History(a, s) \in SUBSET posted
      BY DEF History, AllTrades
    <3>2. Historical(History(a, s))
      BY <3>1, PartHistorical
    <3> QED BY <3>2, PageCounts, HoldingUnfolds
  <2>3. CASE \A a \in Accounts : v[a].complete
    <3>1. \A a \in Accounts : Valuation(Book, a, w, Reporting).complete
      BY <2>3
    <3> HIDE DEF w, v
    <3>2. AllComplete(w)
      BY <2>1, <2>2, <3>1 DEF AllComplete
    <3> QED BY <3>2, CompletePagesAgree DEF w, v
  <2>4. CASE ~\A a \in Accounts : v[a].complete
    <3> HIDE DEF v
    <3> QED BY <2>4 DEF Agree, v
  <2> QED BY <2>3, <2>4
<1> QED BY <1>1, HistoryStays, HorizonStays, PTL

-----------------------------------------------------------------------------
(***************************************************************************)
(* The months of the chart.                                                *)
(***************************************************************************)
StartsUntil(d) == {m \in MonthStarts : m <= d}

\* m is the last month that starts by the day d.
IsMonthOf(m, d) == m \in StartsUntil(d) /\ \A n \in StartsUntil(d) : n <= m

LEMMA MonthExists ==
  ASSUME NEW d \in Int, StartsUntil(d) # {}
  PROVE  IsMonthOf(MonthOf(d), d) /\ MonthOf(d) \in Int
<1> DEFINE S == StartsUntil(d)
           less == {p \in S \X S : p[1] < p[2]}
<1>1. S \in SUBSET MonthStarts /\ S \in SUBSET Int /\ S # {}
  BY MonthsAssumption DEF StartsUntil
<1>2. IsFiniteSet(S)
  BY <1>1, FS_Subset, MonthsAssumption
<1>3. \A x, y \in S : <<x, y>> \in less <=> x < y
  OBVIOUS
<1>4. Orders(less, S)
  <2> HIDE DEF less, S
  <2> QED BY <1>1, <1>3 DEF Orders
<1>5. \E x \in S : \A y \in S \ {x} : <<y, x>> \in less
  <2>1. S # {}
    BY <1>1
  <2> HIDE DEF less, S
  <2> QED BY <1>2, <1>4, <2>1, LastExists
<1>6. \E x \in S : \A y \in S : x >= y
  <2>1. PICK x \in S : \A y \in S \ {x} : <<y, x>> \in less
    BY <1>5
  <2>2. \A y \in S : y \in Int
    BY <1>1
  <2> HIDE DEF less, S
  <2>3. \A y \in S \ {x} : y < x
    BY <1>3, <2>1
  <2>4. \A y \in S : x >= y
    BY <2>2, <2>3
  <2> QED BY <2>4
<1>7. Max(S) \in S /\ \A y \in S : Max(S) >= y
  <2> HIDE DEF S
  <2> QED BY <1>6 DEF Max
<1>8. MonthOf(d) = Max(S)
  BY DEF MonthOf, StartsUntil
<1> HIDE DEF S
<1>9. MonthOf(d) \in S /\ MonthOf(d) \in Int /\ \A n \in S : n <= MonthOf(d)
  BY <1>1, <1>7, <1>8
<1> QED BY <1>9 DEF IsMonthOf, S

\* The month before one that there are more than one of, and how many are left.
LEMMA MonthBefore ==
  ASSUME NEW d \in Int, NEW n \in Nat \ {0}, Cardinality(StartsUntil(d)) >= n
  PROVE  /\ IsMonthOf(MonthOf(d), d) /\ MonthOf(d) \in Int
         /\ Cardinality(StartsUntil(MonthOf(d) - 1)) >= n - 1
<1> DEFINE S == StartsUntil(d)
<1>1. S \in SUBSET MonthStarts /\ S \in SUBSET Int
  BY MonthsAssumption DEF StartsUntil
<1>2. IsFiniteSet(S) /\ Cardinality(S) \in Nat
  BY <1>1, FS_Subset, FS_CardinalityType, MonthsAssumption
<1>3. S # {}
  <2> HIDE DEF S
  <2>1. Cardinality({}) = 0
    BY FS_EmptySet
  <2>2. Cardinality(S) # 0
    BY <1>2 DEF S
  <2> QED BY <2>1, <2>2
<1>4. IsMonthOf(MonthOf(d), d) /\ MonthOf(d) \in Int
  BY <1>3, MonthExists
<1>5. StartsUntil(MonthOf(d) - 1) = S \ {MonthOf(d)}
  <2> DEFINE m == MonthOf(d)
  <2>1. m \in MonthStarts /\ m <= d /\ m \in Int /\ \A k \in MonthStarts : k <= d => k <= m
    BY <1>4 DEF IsMonthOf, StartsUntil
  <2> HIDE DEF m
  <2>2. \A k \in MonthStarts : k <= m - 1 <=> k <= d /\ k # m
    BY <2>1, MonthsAssumption
  <2>3. StartsUntil(m - 1) = StartsUntil(d) \ {m}
    BY <2>2 DEF StartsUntil
  <2> QED BY <2>3 DEF m
<1>6. MonthOf(d) \in S
  BY <1>4 DEF IsMonthOf
<1> HIDE DEF S
<1>7. Cardinality(S \ {MonthOf(d)}) = Cardinality(S) - 1
  BY <1>2, <1>6, FS_RemoveElement
<1>8. Cardinality(S) >= n
  BY DEF S
<1> QED BY <1>2, <1>4, <1>5, <1>7, <1>8

\* What the chart shows: six months in order, with no month between two.
Consecutive(months) ==
  /\ \A i \in 1..6 : months[i] \in MonthStarts /\ months[i] \in Int
  /\ \A i \in 1..5 : IsMonthOf(months[i], months[i + 1] - 1)

LEMMA MonthsConsecutive ==
  ASSUME NEW today \in Days
  PROVE  Consecutive(MonthsShown(today)) /\ IsMonthOf(MonthsShown(today)[6], today)
<1> DEFINE b0 == MonthOf(today)
           b1 == MonthOf(b0 - 1)
           b2 == MonthOf(b1 - 1)
           b3 == MonthOf(b2 - 1)
           b4 == MonthOf(b3 - 1)
           b5 == MonthOf(b4 - 1)
           Recurses(back) ==
             back = [n \in 0..5 |-> IF n = 0 THEN b0 ELSE MonthOf(back[n - 1] - 1)]
           f == [n \in 0..5 |-> CASE n = 0 -> b0 [] n = 1 -> b1 [] n = 2 -> b2 [] n = 3 -> b3
                                  [] n = 4 -> b4 [] OTHER -> b5]
           g == CHOOSE back : Recurses(back)
<1>1. f[0] = b0 /\ f[1] = b1 /\ f[2] = b2 /\ f[3] = b3 /\ f[4] = b4 /\ f[5] = b5
  <2> HIDE DEF b0, b1, b2, b3, b4, b5
  <2> QED OBVIOUS
<1>2. Recurses(f)
  <2>1. \A n \in 0..5 : n = 0 \/ n = 1 \/ n = 2 \/ n = 3 \/ n = 4 \/ n = 5
    OBVIOUS
  <2>2. \A n \in 0..5 : f[n] = IF n = 0 THEN b0 ELSE MonthOf(f[n - 1] - 1)
    <3> HIDE DEF f, b0
    <3> QED BY <1>1, <2>1
  <2>3. f = [n \in 0..5 |-> f[n]]
    OBVIOUS
  <2> HIDE DEF f, b0
  <2> QED BY <2>2, <2>3
<1>3. Recurses(g)
  <2> HIDE DEF Recurses, f
  <2> QED BY <1>2
<1>4. g[0] = b0 /\ g[1] = b1 /\ g[2] = b2 /\ g[3] = b3 /\ g[4] = b4 /\ g[5] = b5
  <2>1. \A n \in 0..5 : g[n] = IF n = 0 THEN b0 ELSE MonthOf(g[n - 1] - 1)
    <3> HIDE DEF g, b0
    <3> QED BY <1>3
  <2> HIDE DEF g, b0
  <2>2. g[0] = b0
    BY <2>1
  <2>3. g[1] = b1
    BY <2>1, <2>2
  <2>4. g[2] = b2
    <3> HIDE DEF b1
    <3> QED BY <2>1, <2>3
  <2>5. g[3] = b3
    <3> HIDE DEF b2
    <3> QED BY <2>1, <2>4
  <2>6. g[4] = b4
    <3> HIDE DEF b3
    <3> QED BY <2>1, <2>5
  <2>7. g[5] = b5
    <3> HIDE DEF b4
    <3> QED BY <2>1, <2>6
  <2> QED BY <2>2, <2>3, <2>4, <2>5, <2>6, <2>7
<1>5. MonthsShown(today) = [i \in 1..6 |-> g[6 - i]]
  BY DEF MonthsShown
<1>6. today \in Int /\ Cardinality(StartsUntil(today)) >= 6
  BY MonthsAssumption DEF Days, StartsUntil
<1>7. IsMonthOf(b0, today) /\ b0 \in Int /\ Cardinality(StartsUntil(b0 - 1)) >= 5
  <2>1. 6 \in Nat \ {0} /\ 6 - 1 = 5
    OBVIOUS
  <2> QED BY <1>6, <2>1, MonthBefore
<1> HIDE DEF b0
<1>8. IsMonthOf(b1, b0 - 1) /\ b1 \in Int /\ Cardinality(StartsUntil(b1 - 1)) >= 4
  <2>1. 5 \in Nat \ {0} /\ 5 - 1 = 4 /\ b0 - 1 \in Int
    BY <1>7
  <2> QED BY <1>7, <2>1, MonthBefore
<1> HIDE DEF b1
<1>9. IsMonthOf(b2, b1 - 1) /\ b2 \in Int /\ Cardinality(StartsUntil(b2 - 1)) >= 3
  <2>1. 4 \in Nat \ {0} /\ 4 - 1 = 3 /\ b1 - 1 \in Int
    BY <1>8
  <2> QED BY <1>8, <2>1, MonthBefore
<1> HIDE DEF b2
<1>10. IsMonthOf(b3, b2 - 1) /\ b3 \in Int /\ Cardinality(StartsUntil(b3 - 1)) >= 2
  <2>1. 3 \in Nat \ {0} /\ 3 - 1 = 2 /\ b2 - 1 \in Int
    BY <1>9
  <2> QED BY <1>9, <2>1, MonthBefore
<1> HIDE DEF b3
<1>11. IsMonthOf(b4, b3 - 1) /\ b4 \in Int /\ Cardinality(StartsUntil(b4 - 1)) >= 1
  <2>1. 2 \in Nat \ {0} /\ 2 - 1 = 1 /\ b3 - 1 \in Int
    BY <1>10
  <2> QED BY <1>10, <2>1, MonthBefore
<1> HIDE DEF b4
<1>12. IsMonthOf(b5, b4 - 1) /\ b5 \in Int
  <2>1. 1 \in Nat \ {0} /\ b4 - 1 \in Int
    BY <1>11
  <2> QED BY <1>11, <2>1, MonthBefore
<1> HIDE DEF b5
<1>13. \A n, d : IsMonthOf(n, d) => n \in MonthStarts
  BY DEF IsMonthOf, StartsUntil
<1> DEFINE months == MonthsShown(today)
<1>14. /\ months[1] = b5 /\ months[2] = b4 /\ months[3] = b3
       /\ months[4] = b2 /\ months[5] = b1 /\ months[6] = b0
  <2> HIDE DEF g
  <2> QED BY <1>4, <1>5
<1> HIDE DEF months
<1>15. \A i \in 1..6 : i = 1 \/ i = 2 \/ i = 3 \/ i = 4 \/ i = 5 \/ i = 6
  OBVIOUS
<1>16. \A i \in 1..6 : months[i] \in MonthStarts /\ months[i] \in Int
  BY <1>7, <1>8, <1>9, <1>10, <1>11, <1>12, <1>13, <1>14, <1>15
<1>17. \A i \in 1..5 : IsMonthOf(months[i], months[i + 1] - 1)
  <2>1. \A i \in 1..5 : i = 1 \/ i = 2 \/ i = 3 \/ i = 4 \/ i = 5
    OBVIOUS
  <2> QED BY <1>8, <1>9, <1>10, <1>11, <1>12, <1>14, <2>1
<1>18. Consecutive(months) /\ IsMonthOf(months[6], today)
  BY <1>7, <1>14, <1>16, <1>17 DEF Consecutive
<1> QED BY <1>18 DEF months

\* They are in order.
LEMMA MonthsOrdered ==
  ASSUME NEW months, Consecutive(months)
  PROVE  /\ \A i, j \in 1..6 : months[i] = months[j] => i = j
         /\ \A i \in 1..6 : months[1] <= months[i] /\ months[i] <= months[6]
<1>1. PICK n1, n2, n3, n4, n5, n6 \in Int :
        /\ n1 = months[1] /\ n2 = months[2] /\ n3 = months[3]
        /\ n4 = months[4] /\ n5 = months[5] /\ n6 = months[6]
  <2>1. /\ months[1] \in Int /\ months[2] \in Int /\ months[3] \in Int
        /\ months[4] \in Int /\ months[5] \in Int /\ months[6] \in Int
    BY DEF Consecutive
  <2> QED BY <2>1
<1>2. /\ IsMonthOf(n1, n2 - 1) /\ IsMonthOf(n2, n3 - 1) /\ IsMonthOf(n3, n4 - 1)
      /\ IsMonthOf(n4, n5 - 1) /\ IsMonthOf(n5, n6 - 1)
  <2>1. \A i \in 1..5 : IsMonthOf(months[i], months[i + 1] - 1)
    BY DEF Consecutive
  <2>2. 1 + 1 = 2 /\ 2 + 1 = 3 /\ 3 + 1 = 4 /\ 4 + 1 = 5 /\ 5 + 1 = 6
    OBVIOUS
  <2> QED BY <1>1, <2>1, <2>2
<1>3. \A k, e : IsMonthOf(k, e) => k <= e
  BY DEF IsMonthOf, StartsUntil
<1>4. n1 <= n2 - 1 /\ n2 <= n3 - 1 /\ n3 <= n4 - 1 /\ n4 <= n5 - 1 /\ n5 <= n6 - 1
  BY <1>2, <1>3
<1>5. n1 < n2 /\ n2 < n3 /\ n3 < n4 /\ n4 < n5 /\ n5 < n6
  BY <1>4
<1>6. \A i \in 1..6 : i = 1 \/ i = 2 \/ i = 3 \/ i = 4 \/ i = 5 \/ i = 6
  OBVIOUS
<1>7. \A i, j \in 1..6 : months[i] = months[j] => i = j
  BY <1>1, <1>5, <1>6
<1>8. \A i \in 1..6 : months[1] <= months[i] /\ months[i] <= months[6]
  BY <1>1, <1>5, <1>6
<1> QED BY <1>7, <1>8

\* A month is before those shown, one of them, or after today's.
LEMMA MonthsCover ==
  ASSUME NEW months, Consecutive(months), NEW d \in Int, NEW m \in Int, IsMonthOf(m, d)
  PROVE  /\ d < months[1] => \A i \in 1..6 : m < months[i]
         /\ d >= months[1] => m > months[6] \/ \E i \in 1..6 : m = months[i]
<1>1. PICK n1, n2, n3, n4, n5, n6 \in Int :
        /\ n1 = months[1] /\ n2 = months[2] /\ n3 = months[3]
        /\ n4 = months[4] /\ n5 = months[5] /\ n6 = months[6]
  <2>1. /\ months[1] \in Int /\ months[2] \in Int /\ months[3] \in Int
        /\ months[4] \in Int /\ months[5] \in Int /\ months[6] \in Int
    BY DEF Consecutive
  <2> QED BY <2>1
<1>2. /\ IsMonthOf(n1, n2 - 1) /\ IsMonthOf(n2, n3 - 1) /\ IsMonthOf(n3, n4 - 1)
      /\ IsMonthOf(n4, n5 - 1) /\ IsMonthOf(n5, n6 - 1)
  <2>1. \A i \in 1..5 : IsMonthOf(months[i], months[i + 1] - 1)
    BY DEF Consecutive
  <2>2. 1 + 1 = 2 /\ 2 + 1 = 3 /\ 3 + 1 = 4 /\ 4 + 1 = 5 /\ 5 + 1 = 6
    OBVIOUS
  <2> QED BY <1>1, <2>1, <2>2
<1>3. \A k, e : IsMonthOf(k, e) =>
        k \in MonthStarts /\ k <= e /\ \A n \in MonthStarts : n <= e => n <= k
  BY DEF IsMonthOf, StartsUntil
<1>4. /\ n1 <= n2 - 1 /\ n2 <= n3 - 1 /\ n3 <= n4 - 1 /\ n4 <= n5 - 1 /\ n5 <= n6 - 1
      /\ m \in MonthStarts /\ m <= d /\ n1 \in MonthStarts
  BY <1>2, <1>3
<1>5. /\ m <= n2 - 1 => m <= n1
      /\ m <= n3 - 1 => m <= n2
      /\ m <= n4 - 1 => m <= n3
      /\ m <= n5 - 1 => m <= n4
      /\ m <= n6 - 1 => m <= n5
      /\ n1 <= d => n1 <= m
  BY <1>2, <1>3, <1>4
<1>6. \A i \in 1..6 : i = 1 \/ i = 2 \/ i = 3 \/ i = 4 \/ i = 5 \/ i = 6
  OBVIOUS
<1>7. n1 < n2 /\ n2 < n3 /\ n3 < n4 /\ n4 < n5 /\ n5 < n6
  BY <1>4
<1>8. d < n1 => m < n1
  BY <1>4
<1>9. d >= n1 => m > n6 \/ m = n1 \/ m = n2 \/ m = n3 \/ m = n4 \/ m = n5 \/ m = n6
  BY <1>5
<1> QED
  <2>1. d < months[1] => \A i \in 1..6 : m < months[i]
    BY <1>1, <1>6, <1>7, <1>8
  <2>2. d >= months[1] => m > months[6] \/ \E i \in 1..6 : m = months[i]
    <3>1. 1 \in 1..6 /\ 2 \in 1..6 /\ 3 \in 1..6 /\ 4 \in 1..6 /\ 5 \in 1..6 /\ 6 \in 1..6
      OBVIOUS
    <3> QED BY <1>1, <1>9, <3>1
  <2> QED BY <2>1, <2>2

-----------------------------------------------------------------------------
(***************************************************************************)
(* What the dashboard adds up.                                             *)
(***************************************************************************)
\* Summed class by class.
LEMMA SumClasses ==
  ASSUME NEW S, IsFiniteSet(S), NEW f, \A x \in S : f[x] \in Int,
         NEW I, IsFiniteSet(I), NEW class, \A x \in S : class[x] \in I
  PROVE  Over([i \in I |-> Over(f, {x \in S : class[x] = i})], I) = Over(f, S)
<1> DEFINE of(i) == {x \in S : class[x] = i}
           m == [i \in I |-> [x \in S |-> IF class[x] = i THEN f[x] ELSE 0]]
           rows == [i \in I |-> Over(f, of(i))]
           cols == [x \in S |-> Over([i \in I |-> m[i][x]], I)]
<1>1. \A i \in I : \A x \in S : m[i][x] = (IF class[x] = i THEN f[x] ELSE 0) /\ m[i][x] \in Int
  OBVIOUS
<1>2. Over([i \in I |-> Over(m[i], S)], I) = Over(cols, S)
  <2> HIDE DEF m
  <2> QED BY <1>1, SumSwap
<1>3. ASSUME NEW i \in I
      PROVE  Over(m[i], S) = Over(f, of(i))
  <2> DEFINE g == m[i]
             T == of(i)
  <2>1. T \in SUBSET S /\ (\A x \in S : g[x] \in Int) /\ (\A x \in S \ T : g[x] = 0)
        /\ \A x \in T : g[x] = f[x]
    BY <1>1
  <2> HIDE DEF g, T
  <2>2. Over(g, S) = Over(g, T)
    BY <2>1, SumSupport
  <2>3. Over(g, T) = Over(f, T)
    BY <2>1, SumSame
  <2> QED BY <2>2, <2>3 DEF g, T
<1>4. ASSUME NEW x \in S
      PROVE  cols[x] = f[x]
  <2> DEFINE g == [i \in I |-> m[i][x]]
             c == class[x]
  <2>1. c \in I /\ (\A i \in I : g[i] \in Int) /\ (\A i \in I \ {c} : g[i] = 0) /\ g[c] = f[x]
    BY <1>1
  <2>2. cols[x] = Over(g, I)
    OBVIOUS
  <2> HIDE DEF g, c
  <2>3. {c} \in SUBSET I /\ {c} \ {c} = {} /\ \A i \in {c} : g[i] \in Int
    BY <2>1
  <2>4. IsFiniteSet({c}) /\ IsFiniteSet({})
    BY FS_Singleton, FS_EmptySet
  <2>5. Over(g, I) = Over(g, {c})
    BY <2>1, <2>3, SumSupport
  <2>6. Over(g, {c}) = g[c] + Over(g, {c} \ {c})
    BY <2>3, <2>4, SumStep
  <2>7. Over(g, {}) = 0
    BY <2>4, SumStep
  <2>8. f[x] \in Int
    OBVIOUS
  <2> QED BY <2>1, <2>2, <2>3, <2>5, <2>6, <2>7, <2>8
<1>5. [i \in I |-> Over(m[i], S)] = rows
  <2> HIDE DEF m, of
  <2> QED BY <1>3
<1>6. Over(cols, S) = Over(f, S)
  <2> HIDE DEF cols
  <2> QED BY <1>4, SumSame
<1> QED BY <1>2, <1>5, <1>6

\* The days of the rows are days of forms.
DaysEntered == \A t \in posted : \E f \in Forms : t.day = f.day

LEMMA DaysStayEntered == Spec => []DaysEntered
<1>1. Init => DaysEntered
  BY DEF Init, DaysEntered
<1>2. DaysEntered /\ [Next]_posted => DaysEntered'
  <2> SUFFICES ASSUME DaysEntered, NEW f \in Forms, NEW id \in Ids, Post(f, id)
               PROVE  DaysEntered'
    BY DEF Next, DaysEntered
  <2>1. Row(id, f).day = f.day
    BY DEF Row
  <2> QED BY <2>1 DEF Post, DaysEntered
<1> QED BY <1>1, <1>2, PTL DEF Spec

LEMMA CashAmountTyped ==
  ASSUME NEW S, Historical(S), NEW t \in S, NEW home
  PROVE  CashAmount(t, home) \in Int
<1>1. t.gross \in Nat /\ t.costs \in Nat /\ t.exchange \in Nat /\ t.kind \in Kinds
  BY RowTyped
<1>2. NetCashImpact(t) \in Int
  BY <1>1 DEF NetCashImpact, Kinds
<1>3. RateToAccount(t, home) \in Int
  BY <1>1, PrecisionAssumption DEF RateToAccount
<1>4. NetCashImpact(t) * RateToAccount(t, home) \in Int
  BY <1>2, <1>3
<1> QED BY <1>4, RoundDivType, PrecisionAssumption DEF CashAmount

\* The accounts and the entries the dashboard is about.
Defaults == {x \in DOMAIN Owned : InDefault(x)}
Entered == UNION {EntriesOf(Book, a) : a \in Defaults}
AmountOf == [e \in Entered |-> e.amount]
WorthOf == [a \in Defaults |-> EntrySum(EntriesOf(Book, a))]

LEMMA EnteredTyped ==
  ASSUME Historical(posted), DaysEntered
  PROVE  /\ IsFiniteSet(Entered) /\ IsFiniteSet(Defaults)
         /\ \A e \in Entered : /\ e.day \in Int /\ e.amount \in Int /\ StartsUntil(e.day) # {}
                               /\ e.of.account \in Defaults
         /\ \A a \in Defaults : EntriesOf(Book, a) = {e \in Entered : e.of.account = a}
<1> DEFINE g(e) == [day |-> e.day, amount |-> e.amount, of |-> e]
           h(t) == [day |-> t.day, amount |-> CashAmount(t, Home[t.account]), of |-> t]
           E == {g(e) : e \in OtherEntries}
           T == {h(t) : t \in posted}
<1>1. \A a : EntriesOf(Book, a) = {x \in E \cup T : x.of.account = a}
  <2> SUFFICES ASSUME NEW a
               PROVE  EntriesOf(Book, a) = {x \in E \cup T : x.of.account = a}
    OBVIOUS
  <2>1. EntriesOf(Book, a) = {g(e) : e \in {x \in OtherEntries : x.account = a}}
          \cup {[day |-> t.day, amount |-> CashAmount(t, Home[a]), of |-> t] :
                  t \in {x \in posted : x.account = a}}
    BY DEF EntriesOf, Book
  <2>2. {[day |-> t.day, amount |-> CashAmount(t, Home[a]), of |-> t] :
           t \in {x \in posted : x.account = a}} = {h(t) : t \in {x \in posted : x.account = a}}
    OBVIOUS
  <2>3. \A e : g(e).of = e /\ h(e).of = e
    OBVIOUS
  <2> HIDE DEF g, h
  <2> QED BY <2>1, <2>2, <2>3
<1>2. IsFiniteSet(E) /\ IsFiniteSet(T)
  <2> DEFINE p == [e \in OtherEntries |-> g(e)]
             q == [t \in posted |-> h(t)]
  <2>1. p \in Surjection(OtherEntries, E) /\ q \in Surjection(posted, T)
    <3> HIDE DEF g, h
    <3> QED BY DEF Surjection
  <2> HIDE DEF p, q, E, T
  <2> QED BY <2>1, FS_Surjection, EntriesAssumption DEF Historical
<1>3. \A e \in E \cup T : e.day \in Int /\ e.amount \in Int /\ StartsUntil(e.day) # {}
  <2>1. ASSUME NEW e \in OtherEntries
        PROVE  g(e).day \in Int /\ g(e).amount \in Int /\ StartsUntil(g(e).day) # {}
    <3>1. StartsUntil(e.day) # {}
      BY MonthsAssumption DEF StartsUntil
    <3> QED BY <3>1, EntriesAssumption, DatesAssumption
  <2>2. ASSUME NEW t \in posted
        PROVE  h(t).day \in Int /\ h(t).amount \in Int /\ StartsUntil(h(t).day) # {}
    <3>1. t.day \in Int
      BY RowTyped
    <3>2. PICK f \in Forms : t.day = f.day
      BY DEF DaysEntered
    <3>3. StartsUntil(f.day) # {}
      BY MonthsAssumption DEF StartsUntil
    <3>4. CashAmount(t, Home[t.account]) \in Int
      BY CashAmountTyped
    <3> QED BY <3>1, <3>2, <3>3, <3>4
  <2> HIDE DEF g, h
  <2> QED BY <2>1, <2>2
<1>4. IsFiniteSet(E \cup T)
  <2> HIDE DEF E, T
  <2> QED BY <1>2, FS_Union
<1> HIDE DEF E, T
<1>5. Entered = {e \in E \cup T : e.of.account \in Defaults}
  BY <1>1 DEF Entered
<1>6. IsFiniteSet(Entered) /\ Entered \in SUBSET (E \cup T)
  <2>1. Entered \in SUBSET (E \cup T)
    BY <1>5
  <2> QED BY <1>4, <2>1, FS_Subset
<1>7. IsFiniteSet(Defaults)
  <2>1. Defaults \in SUBSET DOMAIN Owned
    BY DEF Defaults
  <2> QED BY <2>1, FS_Subset, OwnedAssumption
<1>8. \A a \in Defaults : EntriesOf(Book, a) = {e \in Entered : e.of.account = a}
  BY <1>1, <1>5
<1>9. \A e \in Entered : e.of.account \in Defaults /\ e \in E \cup T
  BY <1>5
<1> QED BY <1>3, <1>6, <1>7, <1>8, <1>9

LEMMA EntrySums ==
  ASSUME NEW T \in SUBSET Entered
  PROVE  EntrySum(T) = Over(AmountOf, T)
<1>1. [e \in T |-> e.amount] = [e \in T |-> AmountOf[e]]
  BY DEF AmountOf
<1> QED BY <1>1 DEF EntrySum, Sum, Over

\* By account: net worth and the archived accounts.
LEMMA WorthIsEntered ==
  ASSUME Historical(posted), DaysEntered
  PROVE  Over(AmountOf, Entered)
           = NetWorth(Book) + Sum(LAMBDA a : EntrySum(EntriesOf(Book, a)),
                                  {a \in DOMAIN Owned : InDefault(a) /\ ~Owned[a].active})
<1> DEFINE f == AmountOf
           S == Entered
           class == [e \in S |-> e.of.account]
           rows == [a \in Defaults |-> Over(f, {e \in S : class[e] = a})]
           A == {a \in Reported : Owned[a].type \notin Liabilities}
           L == {a \in Reported : Owned[a].type \in Liabilities}
           X == {a \in DOMAIN Owned : InDefault(a) /\ ~Owned[a].active}
           neg == [a \in L |-> -EntrySum(EntriesOf(Book, a))]
           w == WorthOf
<1>1. /\ IsFiniteSet(S) /\ IsFiniteSet(Defaults)
      /\ \A e \in S : f[e] \in Int /\ class[e] = e.of.account /\ class[e] \in Defaults
  BY EnteredTyped DEF AmountOf
<1>2. \A a \in Defaults : w[a] = rows[a] /\ w[a] = EntrySum(EntriesOf(Book, a)) /\ w[a] \in Int
  <2> SUFFICES ASSUME NEW a \in Defaults
               PROVE  w[a] = rows[a] /\ w[a] = EntrySum(EntriesOf(Book, a)) /\ w[a] \in Int
    OBVIOUS
  <2> DEFINE T == {e \in S : e.of.account = a}
  <2>1. EntriesOf(Book, a) = T /\ T \in SUBSET S
    BY EnteredTyped
  <2>2. {e \in S : class[e] = a} = T
    OBVIOUS
  <2>3. IsFiniteSet(T)
    BY <1>1, <2>1, FS_Subset
  <2>4. w[a] = EntrySum(EntriesOf(Book, a))
    BY DEF WorthOf
  <2>5. rows[a] = Over(f, {e \in S : class[e] = a})
    OBVIOUS
  <2> HIDE DEF T, S, class, rows, f, w
  <2>6. EntrySum(T) = Over(f, T)
    BY <2>1, EntrySums DEF S, f
  <2>7. \A e \in T : f[e] \in Int
    BY <1>1, <2>1
  <2>8. Over(f, T) \in Int
    BY <2>3, <2>7, SumStep
  <2> QED BY <2>1, <2>2, <2>4, <2>5, <2>6, <2>8
<1>3. Over(f, S) = Over(rows, Defaults)
  <2>1. \A e \in S : f[e] \in Int
    BY <1>1
  <2>2. \A e \in S : class[e] \in Defaults
    BY <1>1
  <2> HIDE DEF S, class, f
  <2> QED BY <1>1, <2>1, <2>2, SumClasses
<1>4. Over(rows, Defaults) = Over(w, Defaults)
  <2> HIDE DEF rows, w
  <2> QED BY <1>2, SumSame
<1>5. /\ Defaults = (A \cup L) \cup X /\ A \cap L = {} /\ (A \cup L) \cap X = {}
      /\ \A a \in L : a \in Defaults
  BY DEF Defaults, Reported
<1>6. IsFiniteSet(A) /\ IsFiniteSet(L) /\ IsFiniteSet(X) /\ IsFiniteSet(A \cup L)
  <2>1. A \in SUBSET Defaults /\ L \in SUBSET Defaults /\ X \in SUBSET Defaults
        /\ A \cup L \in SUBSET Defaults
    BY DEF Defaults, Reported
  <2> HIDE DEF A, L, X
  <2> QED BY <1>1, <2>1, FS_Subset
<1>7. /\ Sum(LAMBDA a : EntrySum(EntriesOf(Book, a)), A) = Over(w, A)
      /\ Sum(LAMBDA a : EntrySum(EntriesOf(Book, a)), X) = Over(w, X)
  <2>1. \A a \in A \cup X : w[a] = EntrySum(EntriesOf(Book, a))
    <3> HIDE DEF A, L, X, w
    <3> QED BY <1>2, <1>5
  <2>2. [a \in A |-> EntrySum(EntriesOf(Book, a))] = [a \in A |-> w[a]]
    <3> HIDE DEF A, L, X, w
    <3> QED BY <2>1
  <2>3. [a \in X |-> EntrySum(EntriesOf(Book, a))] = [a \in X |-> w[a]]
    <3> HIDE DEF A, L, X, w
    <3> QED BY <2>1
  <2> HIDE DEF A, L, X, w
  <2> QED BY <2>2, <2>3 DEF Sum, Over
<1>8. Sum(LAMBDA a : -EntrySum(EntriesOf(Book, a)), L) = Over(neg, L)
  <2>1. [a \in L |-> -EntrySum(EntriesOf(Book, a))] = [a \in L |-> neg[a]]
    OBVIOUS
  <2> HIDE DEF L, neg
  <2> QED BY <2>1 DEF Sum, Over
<1>9. \A a \in L : w[a] \in Int /\ neg[a] = (-1) * w[a]
  <2>1. \A a \in L : neg[a] = -EntrySum(EntriesOf(Book, a))
    OBVIOUS
  <2> SUFFICES ASSUME NEW a \in L
               PROVE  w[a] \in Int /\ neg[a] = (-1) * w[a]
    OBVIOUS
  <2>2. a \in Defaults
    BY <1>5
  <2> HIDE DEF L, w, neg
  <2>3. PICK n \in Int : n = w[a] /\ n = EntrySum(EntriesOf(Book, a))
    BY <1>2, <2>2
  <2>4. neg[a] = -n
    BY <2>1, <2>3
  <2> QED BY <2>3, <2>4
<1>10. NetWorth(Book) = Over(w, A) - Over(neg, L)
  BY <1>7, <1>8 DEF NetWorth, TotalAssets, TotalLiabilities
<1> HIDE DEF f, S, class, rows, A, L, X, neg, w
<1>11. Over(neg, L) = (-1) * Over(w, L)
  <2>1. -1 \in Int
    OBVIOUS
  <2> QED BY <1>6, <1>9, <2>1, SumScaled
<1>12. \A a \in (A \cup L) \cup X : w[a] \in Int
  BY <1>2, <1>5
<1>13. Over(w, (A \cup L) \cup X) = Over(w, A \cup L) + Over(w, X)
  BY <1>5, <1>6, <1>12, SumParts
<1>14. Over(w, A \cup L) = Over(w, A) + Over(w, L)
  BY <1>5, <1>6, <1>12, SumParts
<1>15. Over(w, A) \in Int /\ Over(w, L) \in Int /\ Over(w, X) \in Int
  BY <1>6, <1>12, SumStep
<1>16. Over(w, Defaults) = NetWorth(Book) + Over(w, X)
  <2>1. PICK k, l, m \in Int : k = Over(w, A) /\ l = Over(w, L) /\ m = Over(w, X)
    BY <1>15
  <2>2. Over(w, Defaults) = (k + l) + m
    BY <1>5, <1>13, <1>14, <2>1
  <2>3. NetWorth(Book) = k - ((-1) * l)
    BY <1>10, <1>11, <2>1
  <2> QED BY <2>1, <2>2, <2>3
<1> QED BY <1>3, <1>4, <1>7, <1>16 DEF S, f, X

\* By month: what was before the chart, its bars, and what comes later.
LEMMA ChartIsEntered ==
  ASSUME Historical(posted), DaysEntered, NEW today \in Days
  PROVE  EntrySum({e \in Entered : e.day < MonthsShown(today)[1]})
           + Sum(LAMBDA i : CashflowChart(Book, today)[i], 1..6)
           + EntrySum({e \in Entered : MonthOf(e.day) > MonthOf(today)})
         = Over(AmountOf, Entered)
<1> DEFINE f == AmountOf
           S == Entered
           months == MonthsShown(today)
           B == {e \in S : e.day < months[1]}
           M == {e \in S : e.day >= months[1] /\ MonthOf(e.day) <= months[6]}
           N == {e \in S : MonthOf(e.day) > MonthOf(today)}
           bar(i) == {e \in M : MonthOf(e.day) = months[i]}
           chart == CashflowChart(Book, today)
           bars == [i \in 1..6 |-> Over(f, bar(i))]
           class == [e \in M |-> CHOOSE i \in 1..6 : MonthOf(e.day) = months[i]]
<1>1. /\ IsFiniteSet(S)
      /\ \A e \in S : /\ f[e] \in Int /\ e.day \in Int
                      /\ IsMonthOf(MonthOf(e.day), e.day) /\ MonthOf(e.day) \in Int
  BY EnteredTyped, MonthExists DEF AmountOf
<1>2. Consecutive(months) /\ IsMonthOf(months[6], today)
  BY MonthsConsecutive
<1> HIDE DEF months
<1>3. months[6] = MonthOf(today) /\ months[6] \in Int /\ months[1] \in Int /\ months[1] <= months[6]
  <2>1. months[6] \in Int /\ months[1] \in Int /\ today \in Int
    BY <1>2 DEF Consecutive, Days
  <2>2. StartsUntil(today) # {} /\ months[6] \in StartsUntil(today) /\ \A n \in StartsUntil(today) : n <= months[6]
    BY <1>2 DEF IsMonthOf
  <2>3. MonthOf(today) \in Int /\ MonthOf(today) \in StartsUntil(today)
        /\ \A n \in StartsUntil(today) : n <= MonthOf(today)
    BY <2>1, <2>2, MonthExists DEF IsMonthOf
  <2>4. months[6] <= MonthOf(today) /\ MonthOf(today) <= months[6]
    BY <2>2, <2>3
  <2>5. months[6] = MonthOf(today)
    BY <2>1, <2>3, <2>4
  <2>6. months[1] <= months[6]
    <3>1. 1 \in 1..6
      OBVIOUS
    <3> QED BY <1>2, <3>1, MonthsOrdered
  <2> QED BY <2>1, <2>5, <2>6
<1>4. \A e \in S : /\ e.day < months[1] => MonthOf(e.day) < months[1]
                   /\ e.day >= months[1] =>
                        MonthOf(e.day) > months[6] \/ \E i \in 1..6 : MonthOf(e.day) = months[i]
  <2>1. 1 \in 1..6
    OBVIOUS
  <2> QED BY <1>1, <1>2, <2>1, MonthsCover
<1>5. /\ \A i, j \in 1..6 : months[i] = months[j] => i = j
      /\ \A i \in 1..6 : months[i] <= months[6] /\ months[1] <= months[i]
  BY <1>2, MonthsOrdered
<1>6. S = (B \cup M) \cup N /\ B \cap M = {} /\ (B \cup M) \cap N = {}
  BY <1>1, <1>3, <1>4
<1>7. IsFiniteSet(B) /\ IsFiniteSet(M) /\ IsFiniteSet(N) /\ IsFiniteSet(B \cup M)
  <2>1. B \in SUBSET S /\ M \in SUBSET S /\ N \in SUBSET S /\ B \cup M \in SUBSET S
    OBVIOUS
  <2> HIDE DEF B, M, N, S
  <2> QED BY <1>1, <2>1, FS_Subset
<1>8. \A e \in M : class[e] \in 1..6 /\ \A i \in 1..6 : class[e] = i <=> MonthOf(e.day) = months[i]
  <2> SUFFICES ASSUME NEW e \in M
               PROVE  class[e] \in 1..6
                      /\ \A i \in 1..6 : class[e] = i <=> MonthOf(e.day) = months[i]
    OBVIOUS
  <2>1. \E i \in 1..6 : MonthOf(e.day) = months[i]
    BY <1>1, <1>3, <1>4
  <2>2. class[e] = CHOOSE i \in 1..6 : MonthOf(e.day) = months[i]
    OBVIOUS
  <2>3. class[e] \in 1..6 /\ MonthOf(e.day) = months[class[e]]
    BY <2>1, <2>2
  <2> QED BY <1>5, <2>3
<1>9. \A i \in 1..6 : {e \in M : class[e] = i} = bar(i)
  <2> HIDE DEF class, M
  <2> QED BY <1>8
<1>10. Over(bars, 1..6) = Over(f, M)
  <2> DEFINE I == 1..6
             rows == [i \in I |-> Over(f, {e \in M : class[e] = i})]
  <2>1. IsFiniteSet(I)
    <3>1. 1 \in Int /\ 6 \in Int
      OBVIOUS
    <3> HIDE DEF f, M, class, bars, bar
    <3> QED BY <3>1, FS_Interval
  <2>2. (\A e \in M : f[e] \in Int) /\ (\A e \in M : class[e] \in I)
    BY <1>1, <1>8
  <2>3. \A i \in I : rows[i] = bars[i]
    BY <1>9
  <2> HIDE DEF I, class, M, f, S, B, N, chart, bars, bar
  <2>4. Over(rows, I) = Over(f, M)
    BY <1>7, <2>1, <2>2, SumClasses
  <2> HIDE DEF rows
  <2>5. Over(rows, I) = Over(bars, I)
    BY <2>3, SumSame
  <2> QED BY <2>4, <2>5 DEF I
<1>11. \A i \in 1..6 : chart[i] = bars[i]
  <2> SUFFICES ASSUME NEW i \in 1..6
               PROVE  chart[i] = bars[i]
    OBVIOUS
  <2>1. chart[i] = EntrySum({e \in {x \in S : x.day >= months[1]} : MonthOf(e.day) = months[i]})
    BY DEF CashflowChart, Entered, Defaults, months
  <2>2. {e \in {x \in S : x.day >= months[1]} : MonthOf(e.day) = months[i]} = bar(i)
    BY <1>5
  <2>3. bar(i) \in SUBSET S
    OBVIOUS
  <2>4. bars[i] = Over(f, bar(i))
    OBVIOUS
  <2> HIDE DEF bar, bars, chart, S, f
  <2>5. EntrySum(bar(i)) = Over(f, bar(i))
    BY <2>3, EntrySums DEF S, f
  <2> QED BY <2>1, <2>2, <2>4, <2>5
<1>12. Sum(LAMBDA i : chart[i], 1..6) = Over(bars, 1..6)
  <2>1. [i \in 1..6 |-> chart[i]] = [i \in 1..6 |-> bars[i]]
    <3> HIDE DEF chart, bars
    <3> QED BY <1>11
  <2> HIDE DEF chart, bars
  <2> QED BY <2>1 DEF Sum, Over
<1>13. EntrySum(B) = Over(f, B) /\ EntrySum(N) = Over(f, N)
  <2>1. B \in SUBSET S /\ N \in SUBSET S
    OBVIOUS
  <2> HIDE DEF B, N
  <2> QED BY <2>1, EntrySums
<1>14. \A e \in (B \cup M) \cup N : f[e] \in Int
  BY <1>1, <1>6
<1> HIDE DEF f, S, B, M, N, chart, bars
<1>15. Over(f, (B \cup M) \cup N) = Over(f, B \cup M) + Over(f, N)
  BY <1>6, <1>7, <1>14, SumParts
<1>16. Over(f, B \cup M) = Over(f, B) + Over(f, M)
  BY <1>6, <1>7, <1>14, SumParts
<1>17. Over(f, S) = (Over(f, B) + Over(f, M)) + Over(f, N)
  BY <1>6, <1>15, <1>16
<1>18. EntrySum(B) + Sum(LAMBDA i : chart[i], 1..6) + EntrySum(N) = Over(f, S)
  BY <1>10, <1>12, <1>13, <1>17
<1> QED BY <1>18 DEF f, S, B, N, chart, months

\* dashboard/views.py:28-33 and :89-114: both group the same entries, one by
\* account and one by month.
THEOREM CashflowAlwaysExplainsWorth == Spec => []CashflowExplainsWorth
<1>1. Historical(posted) /\ DaysEntered => CashflowExplainsWorth
  BY WorthIsEntered, ChartIsEntered DEF CashflowExplainsWorth, Entered, Defaults
<1> QED BY <1>1, HistoryStays, DaysStayEntered, PTL

-----------------------------------------------------------------------------
(***************************************************************************)
(* Where the money is.                                                     *)
(***************************************************************************)
Near(n, bound) == 2 * n <= bound /\ -bound <= 2 * n

\* Rounding moves by at most half.
LEMMA RoundDivNear ==
  ASSUME NEW m \in Int, NEW n \in Nat \ {0}
  PROVE  Near(RoundDiv(m, n) * n - m, n)
<1>1. PICK q, r \in Int : q = m \div n /\ r = m % n /\ m = n * q + r /\ 0 <= r /\ r < n
  OBVIOUS
<1>2. CASE 2 * r > n \/ (2 * r = n /\ q % 2 = 1)
  <2>1. RoundDiv(m, n) = q + 1
    BY <1>1, <1>2 DEF RoundDiv
  <2>2. (q + 1) * n - m = n - r
    BY <1>1
  <2>3. 2 * r >= n
    BY <1>1, <1>2
  <2> QED BY <1>1, <2>1, <2>2, <2>3 DEF Near
<1>3. CASE ~(2 * r > n \/ (2 * r = n /\ q % 2 = 1))
  <2>1. RoundDiv(m, n) = q
    BY <1>1, <1>3 DEF RoundDiv
  <2>2. q * n - m = -r
    BY <1>1
  <2>3. 2 * r <= n
    BY <1>1, <1>3
  <2> QED BY <1>1, <2>1, <2>2, <2>3 DEF Near
<1> QED BY <1>2, <1>3

LEMMA NearSum ==
  ASSUME NEW S, IsFiniteSet(S), NEW f, NEW bound, \A x \in S : f[x] \in Int /\ bound[x] \in Int,
         \A x \in S : Near(f[x], bound[x])
  PROVE  Near(Over(f, S), Over(bound, S))
<1> DEFINE Good == {T \in SUBSET S : Near(Over(f, T), Over(bound, T))}
<1>1. ASSUME NEW T \in SUBSET S, \A x \in T : T \ {x} \in Good
      PROVE  Near(Over(f, T), Over(bound, T))
  <2>1. IsFiniteSet(T) /\ (\A x \in T : f[x] \in Int) /\ (\A x \in T : bound[x] \in Int)
    BY FS_Subset
  <2>2. CASE T = {}
    <3>1. Over(f, T) = 0 /\ Over(bound, T) = 0
      BY <2>1, <2>2, SumStep
    <3> QED BY <3>1 DEF Near
  <2>3. CASE T # {}
    <3>1. PICK x \in T : TRUE
      BY <2>3
    <3>2. Near(Over(f, T \ {x}), Over(bound, T \ {x})) /\ Near(f[x], bound[x])
      BY <1>1, <3>1
    <3>3. Over(f, T) = f[x] + Over(f, T \ {x}) /\ Over(bound, T) = bound[x] + Over(bound, T \ {x})
      BY <2>1, <3>1, SumStep
    <3>4. IsFiniteSet(T \ {x}) /\ (\A y \in T \ {x} : f[y] \in Int)
          /\ (\A y \in T \ {x} : bound[y] \in Int)
      BY <2>1, FS_Subset
    <3>5. PICK k, l, m, n \in Int : /\ k = f[x] /\ l = bound[x]
                                    /\ m = Over(f, T \ {x}) /\ n = Over(bound, T \ {x})
      BY <2>1, <3>4, SumStep
    <3>6. Near(k, l) /\ Near(m, n)
      BY <3>2, <3>5
    <3>7. Near(k + m, l + n)
      BY <3>6 DEF Near
    <3> QED BY <3>3, <3>5, <3>7
  <2> QED BY <2>2, <2>3
<1>2. Hereditary(Good, S)
  BY <1>1 DEF Hereditary
<1>3. S \in Good
  <2> HIDE DEF Good
  <2> QED BY <1>2, SubsetInduction
<1> QED BY <1>3

LEMMA SumConstant ==
  ASSUME NEW S, IsFiniteSet(S), NEW k \in Int
  PROVE  Over([x \in S |-> k], S) = k * Cardinality(S)
<1> DEFINE f == [x \in S |-> k]
           Good == {T \in SUBSET S : Over(f, T) = k * Cardinality(T)}
<1>1. \A x \in S : f[x] = k
  OBVIOUS
<1> HIDE DEF f
<1>2. ASSUME NEW T \in SUBSET S, \A x \in T : T \ {x} \in Good
      PROVE  Over(f, T) = k * Cardinality(T)
  <2>1. IsFiniteSet(T) /\ (\A x \in T : f[x] \in Int)
    BY <1>1, FS_Subset
  <2>2. CASE T = {}
    <3>1. Over(f, T) = 0 /\ Cardinality(T) = 0
      BY <2>1, <2>2, SumStep, FS_EmptySet
    <3> QED BY <3>1
  <2>3. CASE T # {}
    <3>1. PICK x \in T : TRUE
      BY <2>3
    <3>2. Over(f, T \ {x}) = k * Cardinality(T \ {x})
      BY <1>2, <3>1
    <3>3. Over(f, T) = f[x] + Over(f, T \ {x})
      BY <2>1, <3>1, SumStep
    <3>4. Cardinality(T \ {x}) = Cardinality(T) - 1 /\ Cardinality(T) \in Int
      BY <2>1, <3>1, FS_RemoveElement, FS_CardinalityType
    <3>5. PICK n \in Int : n = Cardinality(T)
      BY <3>4
    <3>6. k + k * (n - 1) = k * n
      OBVIOUS
    <3> QED BY <1>1, <3>2, <3>3, <3>4, <3>5, <3>6
  <2> QED BY <2>2, <2>3
<1>3. Hereditary(Good, S)
  BY <1>2 DEF Hereditary
<1>4. S \in Good
  <2> HIDE DEF Good
  <2> QED BY <1>3, SubsetInduction
<1> QED BY <1>4 DEF f

\* What a purchase or a sale moves, in units of cost, and what a sale sells.
Flow(t, home) ==
  IF t.kind \in {"BUY", "SELL"} THEN Ulp * (NetCashImpact(t) * RateToAccount(t, home)) ELSE 0
SoldBy(t) == IF t.kind = "SELL" THEN t.quantity ELSE 0

LEMMA FlowTyped ==
  ASSUME NEW S, Historical(S), NEW t \in S, NEW home
  PROVE  Flow(t, home) \in Int /\ SoldBy(t) \in Nat
         /\ NetCashImpact(t) * RateToAccount(t, home) \in Int
<1>1. t.gross \in Nat /\ t.costs \in Nat /\ t.exchange \in Nat /\ t.kind \in Kinds
      /\ t.quantity \in Nat
  BY RowTyped
<1>2. NetCashImpact(t) \in Int
  BY <1>1 DEF NetCashImpact, Kinds
<1>3. RateToAccount(t, home) \in Int
  BY <1>1, PrecisionAssumption DEF RateToAccount
<1>4. NetCashImpact(t) * RateToAccount(t, home) \in Int
  BY <1>2, <1>3
<1>5. PICK n \in Int : n = NetCashImpact(t) * RateToAccount(t, home)
  BY <1>4
<1>6. Ulp * n \in Int
  BY PrecisionAssumption
<1> QED BY <1>1, <1>4, <1>5, <1>6 DEF Flow, SoldBy

\* After the rows S: what is in the position and what was realised differ by
\* what the rows moved, up to what sales have rounded away.
Keeping(p, flow, sold) ==
  p.ok => /\ p.quantity = 0 => p.base = 0
          /\ Near((p.base - p.realizedBase) + flow, sold)

FlowSum(S, home) == Over([t \in S |-> Flow(t, home)], S)
SoldSum(S) == Over([t \in S |-> SoldBy(t)], S)

LEMMA FlowSums ==
  ASSUME NEW S, Historical(S), NEW home
  PROVE  /\ FlowSum(S, home) \in Int /\ SoldSum(S) \in Nat
         /\ S = {} => FlowSum(S, home) = 0 /\ SoldSum(S) = 0
         /\ \A t \in S : /\ FlowSum(S, home) = Flow(t, home) + FlowSum(S \ {t}, home)
                         /\ SoldSum(S) = SoldBy(t) + SoldSum(S \ {t})
<1> DEFINE f == [t \in S |-> Flow(t, home)]
           g == [t \in S |-> SoldBy(t)]
<1>1. (\A t \in S : f[t] \in Int) /\ (\A t \in S : g[t] \in Nat) /\ (\A t \in S : g[t] \in Int)
  <2>1. \A t \in S : Flow(t, home) \in Int /\ SoldBy(t) \in Nat /\ SoldBy(t) \in Int
    BY FlowTyped
  <2> QED BY <2>1
<1>2. \A t \in S : f[t] = Flow(t, home) /\ g[t] = SoldBy(t)
  OBVIOUS
<1>3. FlowSum(S, home) = Over(f, S) /\ SoldSum(S) = Over(g, S) /\ IsFiniteSet(S)
  BY DEF FlowSum, SoldSum, Historical
<1>4. ASSUME NEW t \in S
      PROVE  FlowSum(S \ {t}, home) = Over(f, S \ {t}) /\ SoldSum(S \ {t}) = Over(g, S \ {t})
  <2> DEFINE f2 == [u \in S \ {t} |-> Flow(u, home)]
             g2 == [u \in S \ {t} |-> SoldBy(u)]
  <2>1. \A u \in S \ {t} : f2[u] = f[u] /\ g2[u] = g[u]
    OBVIOUS
  <2>2. FlowSum(S \ {t}, home) = Over(f2, S \ {t}) /\ SoldSum(S \ {t}) = Over(g2, S \ {t})
    BY DEF FlowSum, SoldSum
  <2> HIDE DEF f, g, f2, g2
  <2> QED BY <2>1, <2>2, SumSame
<1> HIDE DEF f, g
<1>5. Over(f, S) \in Int /\ Over(g, S) \in Nat
  BY <1>1, <1>3, SumStep, SumNatural
<1>6. (S = {} => Over(f, S) = 0) /\ (S = {} => Over(g, S) = 0)
  BY <1>1, <1>3, SumStep
<1>7. \A t \in S : Over(f, S) = f[t] + Over(f, S \ {t}) /\ Over(g, S) = g[t] + Over(g, S \ {t})
  BY <1>1, <1>3, SumStep
<1> QED BY <1>2, <1>3, <1>4, <1>5, <1>6, <1>7

LEMMA PurchaseKeeps ==
  ASSUME NEW S, Historical(S), NEW t \in S, NEW home, t.kind = "BUY",
         NEW p \in HoldingType, p.ok, NEW flow \in Int, NEW sold \in Int, Keeping(p, flow, sold)
  PROVE  Keeping(Bought(p, t, home), Flow(t, home) + flow, SoldBy(t) + sold)
<1>1. t.gross \in Nat /\ t.costs \in Nat /\ t.exchange \in Nat /\ t.quantity \in Nat
      /\ t.quantity # 0
  BY RowTyped
<1>2. RateToAccount(t, home) \in Int
  BY <1>1, PrecisionAssumption DEF RateToAccount
<1>3. PICK acquired, rate, ulp, base, realized \in Int :
        /\ acquired = t.gross + t.costs /\ rate = RateToAccount(t, home) /\ ulp = Ulp
        /\ base = p.base /\ realized = p.realizedBase
  BY <1>1, <1>2, PrecisionAssumption DEF HoldingType
<1>4. Flow(t, home) = ulp * (-acquired * rate) /\ SoldBy(t) = 0
  BY <1>3 DEF Flow, SoldBy, NetCashImpact
<1>5. PICK moved \in Int : moved = acquired * ulp * rate
  BY <1>3
<1>6. Flow(t, home) = -moved
  BY <1>4, <1>5
<1>7. /\ Bought(p, t, home).quantity = p.quantity + t.quantity
      /\ Bought(p, t, home).base = base + moved
      /\ Bought(p, t, home).realizedBase = realized
  BY <1>3, <1>5 DEF Bought, Acquisition, HoldingType
<1>8. p.quantity + t.quantity # 0
  BY <1>1 DEF HoldingType
<1>9. Near((base - realized) + flow, sold)
  BY <1>3 DEF Keeping
<1>10. Near(((base + moved) - realized) + (-moved + flow), 0 + sold)
  BY <1>9 DEF Near
<1> QED BY <1>4, <1>6, <1>7, <1>8, <1>10 DEF Keeping

LEMMA SaleKeeps ==
  ASSUME NEW S, Historical(S), NEW t \in S, NEW home, t.kind = "SELL",
         NEW p \in HoldingType, p.ok, t.quantity <= p.quantity,
         NEW flow \in Int, NEW sold \in Int, Keeping(p, flow, sold)
  PROVE  Keeping(Sold(p, t, home), Flow(t, home) + flow, SoldBy(t) + sold)
<1>1. t.gross \in Nat /\ t.costs \in Nat /\ t.exchange \in Nat /\ t.quantity \in Nat
      /\ t.quantity # 0
  BY RowTyped
<1>2. RateToAccount(t, home) \in Int /\ p.quantity \in Nat \ {0} /\ p.base \in Int
  BY <1>1, PrecisionAssumption DEF RateToAccount, HoldingType
<1>3. RoundDiv(p.base, p.quantity) * t.quantity \in Int
  BY <1>1, <1>2, AllocatedTyped
<1>4. PICK proceeds, rate, ulp, base, realized, taken \in Int :
        /\ proceeds = t.gross - t.costs /\ rate = RateToAccount(t, home) /\ ulp = Ulp
        /\ base = p.base /\ realized = p.realizedBase
        /\ taken = RoundDiv(p.base, p.quantity) * t.quantity
  <2>1. t.gross - t.costs \in Int /\ Ulp \in Int /\ p.realizedBase \in Int
    BY <1>1, PrecisionAssumption DEF HoldingType
  <2> QED BY <1>2, <1>3, <2>1
<1>5. Flow(t, home) = ulp * (proceeds * rate) /\ SoldBy(t) = t.quantity
  BY <1>4 DEF Flow, SoldBy, NetCashImpact
<1>6. PICK moved \in Int : moved = proceeds * ulp * rate
  BY <1>4
<1>7. Flow(t, home) = moved
  BY <1>4, <1>5, <1>6
<1>8. /\ Sold(p, t, home).quantity = p.quantity - t.quantity
      /\ Sold(p, t, home).base = IF p.quantity - t.quantity = 0 THEN 0 ELSE base - taken
      /\ Sold(p, t, home).realizedBase = realized + moved - taken
  BY <1>4, <1>6 DEF Sold, NetProceeds, HoldingType
<1>9. Near((base - realized) + flow, sold)
  BY <1>4 DEF Keeping
<1>10. CASE p.quantity = t.quantity
  <2>1. Near(taken - base, t.quantity)
    BY <1>2, <1>4, <1>10, RoundDivNear
  <2>2. Near((0 - ((realized + moved) - taken)) + (moved + flow), t.quantity + sold)
    BY <1>1, <1>9, <2>1 DEF Near
  <2> QED BY <1>2, <1>5, <1>7, <1>8, <1>10, <2>2 DEF Keeping
<1>11. CASE p.quantity # t.quantity
  <2>1. p.quantity - t.quantity # 0
    BY <1>1, <1>2, <1>11
  <2>2. Near(((base - taken) - ((realized + moved) - taken)) + (moved + flow), t.quantity + sold)
    BY <1>1, <1>9 DEF Near
  <2> QED BY <1>5, <1>7, <1>8, <2>1, <2>2 DEF Keeping
<1> QED BY <1>10, <1>11

LEMMA HoldingKeeps ==
  ASSUME NEW S, Historical(S), NEW home
  PROVE  Keeping(Holding(S, home), FlowSum(S, home), SoldSum(S))
<1> DEFINE Good == {T \in SUBSET S : Keeping(Holding(T, home), FlowSum(T, home), SoldSum(T))}
<1>1. ASSUME NEW T \in SUBSET S, \A t \in T : T \ {t} \in Good
      PROVE  Keeping(Holding(T, home), FlowSum(T, home), SoldSum(T))
  <2>1. Historical(T)
    BY PartHistorical
  <2>2. CASE T = {}
    <3>1. Holding(T, home) = Flat /\ FlowSum(T, home) = 0 /\ SoldSum(T) = 0
      BY <2>1, <2>2, HoldingUnfolds, FlowSums
    <3> QED BY <3>1 DEF Keeping, Flat, Near
  <2>3. CASE T # {}
    <3> DEFINE t == Latest(T)
               R == T \ {t}
               p == Holding(R, home)
               q == Holding(T, home)
               flow == FlowSum(R, home)
               sold == SoldSum(R)
    <3>1. t \in T /\ Historical(R)
      BY <2>1, <2>3, LatestExists, PartHistorical
    <3>2. Keeping(p, flow, sold)
      BY <1>1, <3>1
    <3>3. p \in HoldingType /\ q = HoldingStep(t, p, home)
      BY <2>1, <2>3, <3>1, HoldingUnfolds
    <3>4. flow \in Int /\ sold \in Int /\ FlowSum(T, home) = Flow(t, home) + flow
          /\ SoldSum(T) = SoldBy(t) + sold
      BY <2>1, <3>1, FlowSums
    <3>5. t.kind \in Kinds /\ t.quantity \in Nat /\ p.quantity \in Nat /\ p.ok \in BOOLEAN
      BY <2>1, <3>1, <3>3, RowTyped DEF HoldingType
    <3> HIDE DEF t, R, p, q, flow, sold
    <3>6. CASE ~p.ok
      BY <3>3, <3>6 DEF HoldingStep, Keeping, q
    <3>7. CASE p.ok /\ t.kind = "BUY"
      <4>1. q = Bought(p, t, home)
        BY <3>3, <3>7 DEF HoldingStep
      <4> QED BY <2>1, <3>1, <3>2, <3>3, <3>4, <3>7, <4>1, PurchaseKeeps DEF q
    <3>8. CASE p.ok /\ t.kind = "SELL" /\ t.quantity > p.quantity
      <4>1. q = [p EXCEPT !.ok = FALSE]
        BY <3>3, <3>5, <3>8 DEF HoldingStep
      <4>2. ~q.ok
        BY <3>3, <4>1 DEF HoldingType
      <4> QED BY <4>2 DEF Keeping, q
    <3>9. CASE p.ok /\ t.kind = "SELL" /\ t.quantity <= p.quantity
      <4>1. q = Sold(p, t, home)
        BY <3>3, <3>5, <3>9 DEF HoldingStep
      <4> QED BY <2>1, <3>1, <3>2, <3>3, <3>4, <3>9, <4>1, SaleKeeps DEF q
    <3>10. CASE p.ok /\ t.kind \notin {"BUY", "SELL"}
      <4>1. q = p
        BY <3>3, <3>10 DEF HoldingStep
      <4>2. Flow(t, home) = 0 /\ SoldBy(t) = 0
        BY <3>10 DEF Flow, SoldBy
      <4> QED BY <3>2, <3>4, <4>1, <4>2 DEF q
    <3> QED BY <3>5, <3>6, <3>7, <3>8, <3>9, <3>10
  <2> QED BY <2>2, <2>3
<1>2. Hereditary(Good, S) /\ IsFiniteSet(S)
  BY <1>1 DEF Hereditary, Historical
<1>3. S \in Good
  <2> HIDE DEF Good
  <2> QED BY <1>2, SubsetInduction
<1> QED BY <1>3

\* The rows of an account through a moment, security by security.
RowsOf(a, w) == {t \in posted : t.account = a /\ t.day <= w.through}

LEMMA RowsOfSecurity ==
  ASSUME Historical(posted), NEW a \in Accounts, NEW w
  PROVE  /\ Historical(RowsOf(a, w))
         /\ \A t \in RowsOf(a, w) : t.security \in Securities
         /\ \A s : LET S == {t \in RowsOf(a, w) : t.security = s}
                   IN  Historical(S) /\ Position(Book, a, s, w) = Holding(S, Home[a])
<1>1. Historical(RowsOf(a, w))
  <2>1. RowsOf(a, w) \in SUBSET posted
    BY DEF RowsOf
  <2> QED BY <2>1, PartHistorical
<1>2. ASSUME NEW s
      PROVE  LET S == {t \in RowsOf(a, w) : t.security = s}
             IN  Historical(S) /\ Position(Book, a, s, w) = Holding(S, Home[a])
  <2> DEFINE S == {t \in RowsOf(a, w) : t.security = s}
  <2>1. S \in SUBSET RowsOf(a, w)
    OBVIOUS
  <2>2. Trades(posted, a, s, w.through) = S
    BY DEF Trades, RowsOf
  <2>3. Position(Book, a, s, w) = Holding(Trades(posted, a, s, w.through), Home[a])
    BY DEF Position, HoldingAsOf, Book
  <2> HIDE DEF S
  <2>4. Historical(S)
    BY <1>1, <2>1, PartHistorical
  <2> QED BY <2>2, <2>3, <2>4 DEF S
<1>3. \A t \in RowsOf(a, w) : t.security \in Securities
  BY <1>1, RowTyped
<1> QED BY <1>1, <1>2, <1>3

BaseOf(a, w) == [s \in Securities |-> Position(Book, a, s, w).base]
RealizedOf(a, w) == [s \in Securities |-> Position(Book, a, s, w).realizedBase]

\* The positions of an account together keep what its rows moved.
LEMMA AccountKeeps ==
  ASSUME Historical(posted), NEW a \in Accounts, NEW w, Replayable(Book, a, w)
  PROVE  LET T == RowsOf(a, w)
             base == Over(BaseOf(a, w), Held(a, w))
             realized == Over(RealizedOf(a, w), Securities)
         IN  /\ base \in Int /\ realized \in Int /\ FlowSum(T, Home[a]) \in Int /\ SoldSum(T) \in Nat
             /\ Near((base - realized) + FlowSum(T, Home[a]), SoldSum(T))
<1> DEFINE T == RowsOf(a, w)
           home == Home[a]
           of(s) == {t \in T : t.security = s}
           base == BaseOf(a, w)
           real == RealizedOf(a, w)
           minus == [s \in Securities |-> (-1) * real[s]]
           net == [s \in Securities |-> base[s] + minus[s]]
           flow == [t \in T |-> Flow(t, home)]
           sold == [t \in T |-> SoldBy(t)]
           class == [t \in T |-> t.security]
           flows == [s \in Securities |-> Over(flow, {t \in T : class[t] = s})]
           solds == [s \in Securities |-> Over(sold, {t \in T : class[t] = s})]
           err == [s \in Securities |-> net[s] + flows[s]]
<1>1. Historical(T) /\ IsFiniteSet(T) /\ IsFiniteSet(Securities)
  BY RowsOfSecurity, OwnedAssumption DEF Historical
<1>2. \A t \in T : flow[t] \in Int /\ sold[t] \in Int /\ class[t] \in Securities
  <2> HIDE DEF T
  <2>1. \A t \in T : Flow(t, home) \in Int /\ SoldBy(t) \in Int
    BY <1>1, FlowTyped
  <2>2. \A t \in T : t.security \in Securities
    BY RowsOfSecurity DEF T
  <2> QED BY <2>1, <2>2
<1>3. FlowSum(T, home) = Over(flow, T) /\ SoldSum(T) = Over(sold, T)
      /\ FlowSum(T, home) \in Int /\ SoldSum(T) \in Nat
  <2>1. FlowSum(T, home) = Over(flow, T) /\ SoldSum(T) = Over(sold, T)
    BY DEF FlowSum, SoldSum
  <2> QED BY <1>1, <2>1, FlowSums
<1>4. ASSUME NEW s \in Securities
      PROVE  /\ base[s] \in Int /\ real[s] \in Int /\ flows[s] \in Int /\ solds[s] \in Int
             /\ (s \notin Held(a, w) => base[s] = 0)
             /\ Near((base[s] - real[s]) + flows[s], solds[s])
  <2> DEFINE S == of(s)
             p == Position(Book, a, s, w)
             part == [t \in S |-> Flow(t, home)]
             share == [t \in S |-> SoldBy(t)]
  <2>1. Historical(S) /\ p = Holding(S, home)
    BY RowsOfSecurity
  <2>2. p \in HoldingType /\ Keeping(p, FlowSum(S, home), SoldSum(S))
        /\ FlowSum(S, home) \in Int /\ SoldSum(S) \in Int
    <3> HIDE DEF S, p, home
    <3>1. Holding(S, home) \in HoldingType
      BY <2>1, HoldingUnfolds
    <3>2. Keeping(Holding(S, home), FlowSum(S, home), SoldSum(S))
      BY <2>1, HoldingKeeps
    <3>3. FlowSum(S, home) \in Int /\ SoldSum(S) \in Nat
      BY <2>1, FlowSums
    <3> QED BY <2>1, <3>1, <3>2, <3>3
  <2>3. p.ok
    BY DEF Replayable
  <2>4. base[s] = p.base /\ real[s] = p.realizedBase /\ (s \notin Held(a, w) => p.quantity = 0)
    BY DEF BaseOf, RealizedOf, Held, Open, Positions
  <2>5. FlowSum(S, home) = Over(part, S) /\ SoldSum(S) = Over(share, S)
    BY DEF FlowSum, SoldSum
  <2>6. flows[s] = Over(flow, S) /\ solds[s] = Over(sold, S)
    <3>1. {t \in T : class[t] = s} = S
      OBVIOUS
    <3>2. flows[s] = Over(flow, {t \in T : class[t] = s})
          /\ solds[s] = Over(sold, {t \in T : class[t] = s})
      OBVIOUS
    <3> HIDE DEF S, flows, solds, class, flow, sold
    <3> QED BY <3>1, <3>2
  <2>7. \A t \in S : part[t] = flow[t] /\ share[t] = sold[t]
    OBVIOUS
  <2> HIDE DEF S, p, part, share, flow, sold, flows, solds, base, real, home
  <2>8. Over(part, S) = Over(flow, S) /\ Over(share, S) = Over(sold, S)
    BY <2>7, SumSame
  <2>9. FlowSum(S, home) = flows[s] /\ SoldSum(S) = solds[s]
    BY <2>5, <2>6, <2>8
  <2>10. (p.quantity = 0 => p.base = 0) /\ Near((p.base - p.realizedBase) + flows[s], solds[s])
    BY <2>2, <2>3, <2>9 DEF Keeping
  <2>11. p.base \in Int /\ p.realizedBase \in Int
    BY <2>2 DEF HoldingType
  <2> QED BY <2>2, <2>4, <2>9, <2>10, <2>11
<1>5. Held(a, w) \in SUBSET Securities
  BY DEF Held, Open
<1>6. Over(flows, Securities) = Over(flow, T) /\ Over(solds, Securities) = Over(sold, T)
  <2> HIDE DEF T, flow, sold, class
  <2>1. (\A t \in T : flow[t] \in Int) /\ (\A t \in T : sold[t] \in Int)
        /\ (\A t \in T : class[t] \in Securities)
    BY <1>2
  <2>2. Over(flows, Securities) = Over(flow, T)
    BY <1>1, <2>1, SumClasses
  <2>3. Over(solds, Securities) = Over(sold, T)
    BY <1>1, <2>1, SumClasses
  <2> QED BY <2>2, <2>3
<1>7. \A s \in Securities : minus[s] = (-1) * real[s] /\ net[s] = base[s] + minus[s]
                            /\ err[s] = net[s] + flows[s]
  OBVIOUS
<1> HIDE DEF T, base, real, minus, net, flow, sold, flows, solds, err
<1>8. \A s \in Securities : minus[s] \in Int /\ net[s] \in Int /\ err[s] \in Int
                            /\ Near(err[s], solds[s])
  <2> SUFFICES ASSUME NEW s \in Securities
               PROVE  minus[s] \in Int /\ net[s] \in Int /\ err[s] \in Int
                      /\ Near(err[s], solds[s])
    OBVIOUS
  <2>1. PICK b, r, f \in Int : b = base[s] /\ r = real[s] /\ f = flows[s]
    BY <1>4
  <2>2. minus[s] = -r /\ net[s] = b + -r /\ err[s] = (b + -r) + f
    BY <1>7, <2>1
  <2>3. (b + -r) + f = (b - r) + f
    OBVIOUS
  <2> QED BY <1>4, <2>1, <2>2, <2>3
<1>9. Near(Over(err, Securities), Over(solds, Securities))
  BY <1>1, <1>4, <1>8, NearSum
<1>10. Over(err, Securities) = Over(net, Securities) + Over(flows, Securities)
  BY <1>1, <1>4, <1>7, <1>8, SumPlus
<1>11. Over(net, Securities) = Over(base, Securities) + Over(minus, Securities)
  BY <1>1, <1>4, <1>7, <1>8, SumPlus
<1>12. Over(minus, Securities) = (-1) * Over(real, Securities)
  <2>1. -1 \in Int
    OBVIOUS
  <2> QED BY <1>1, <1>4, <1>7, <2>1, SumScaled
<1>13. Over(base, Securities) = Over(base, Held(a, w))
  BY <1>1, <1>4, <1>5, SumSupport
<1>14. Over(base, Securities) \in Int /\ Over(real, Securities) \in Int
  BY <1>1, <1>4, SumStep
<1>15. PICK b, r, f, z \in Int : /\ b = Over(base, Held(a, w)) /\ r = Over(real, Securities)
                                 /\ f = FlowSum(T, home) /\ z = SoldSum(T)
  BY <1>3, <1>13, <1>14
<1>16. Over(err, Securities) = (b + (-1) * r) + f /\ Over(solds, Securities) = z
  BY <1>3, <1>6, <1>10, <1>11, <1>12, <1>13, <1>15
<1>17. (b + (-1) * r) + f = (b - r) + f
  OBVIOUS
<1>18. Near((b - r) + f, z)
  BY <1>9, <1>16, <1>17
<1> QED BY <1>3, <1>15, <1>18 DEF T, base, real, home

LEMMA ScaledAtMost ==
  ASSUME NEW k \in Nat, NEW m \in Int, NEW n \in Int, m <= n
  PROVE  k * m <= k * n
OBVIOUS

LEMMA NearScaled ==
  ASSUME NEW k \in Nat, NEW n \in Int, NEW bound \in Int, Near(n, bound)
  PROVE  Near(k * n, k * bound)
<1>1. 2 * n <= bound /\ -bound <= 2 * n /\ 2 * n \in Int /\ -bound \in Int
  BY DEF Near
<1>2. k * (2 * n) <= k * bound /\ k * (-bound) <= k * (2 * n)
  BY <1>1, ScaledAtMost
<1>3. k * (2 * n) = 2 * (k * n) /\ k * (-bound) = -(k * bound)
  OBVIOUS
<1> QED BY <1>2, <1>3 DEF Near

\* The cash of an account is what its rows moved, rounded row by row.
LEMMA CashKeeps ==
  ASSUME Historical(posted), NEW a \in Accounts, NEW w
  PROVE  LET T == RowsOf(a, w)
             cash == Sum(LAMBDA t : CashAmount(t, Home[a]), T)
             income == Income(T, Home[a])
         IN  /\ cash \in Int /\ income \in Int /\ Cardinality(T) \in Nat
             /\ Near((Ulp * RateUnit) * cash - (FlowSum(T, Home[a]) + Ulp * income),
                     (Ulp * RateUnit) * Cardinality(T))
<1> DEFINE T == RowsOf(a, w)
           home == Home[a]
           I == {t \in T : t.kind \notin {"BUY", "SELL"}}
           worth == [t \in T |-> NetCashImpact(t) * RateToAccount(t, home)]
           other == [t \in T |-> IF t \in I THEN Ulp * worth[t] ELSE 0]
           flow == [t \in T |-> Flow(t, home)]
           moved == [t \in T |-> flow[t] + other[t]]
           amount == [t \in T |-> CashAmount(t, home)]
           paid == [t \in T |-> (Ulp * RateUnit) * amount[t]]
           minus == [t \in T |-> (-1) * moved[t]]
           err == [t \in T |-> paid[t] + minus[t]]
           half == [t \in T |-> Ulp * RateUnit]
<1>1. Historical(T) /\ IsFiniteSet(T)
  BY RowsOfSecurity DEF Historical
<1>2. I \in SUBSET T /\ IsFiniteSet(I)
  <2>1. I \in SUBSET T
    OBVIOUS
  <2> HIDE DEF I, T
  <2> QED BY <1>1, <2>1, FS_Subset
<1>3. PICK u, k, uk \in Nat : u = Ulp /\ k = RateUnit /\ uk = Ulp * RateUnit /\ uk = u * k
                           /\ k # 0
  <2>1. PICK u, k \in Nat : u = Ulp /\ k = RateUnit /\ k # 0
    BY PrecisionAssumption
  <2>2. u * k \in Nat
    OBVIOUS
  <2> QED BY <2>1, <2>2
<1>4. ASSUME NEW t \in T
      PROVE  /\ worth[t] \in Int /\ flow[t] \in Int /\ amount[t] \in Int /\ other[t] \in Int
             /\ flow[t] + other[t] = u * worth[t]
             /\ Near(k * amount[t] - worth[t], k)
  <2>1. NetCashImpact(t) * RateToAccount(t, home) \in Int /\ Flow(t, home) \in Int
    BY <1>1, FlowTyped
  <2>2. PICK n \in Int : n = NetCashImpact(t) * RateToAccount(t, home)
    BY <2>1
  <2>3. CashAmount(t, home) = RoundDiv(n, k) /\ RoundDiv(n, k) \in Int
        /\ Near(RoundDiv(n, k) * k - n, k)
    BY <1>3, <2>2, RoundDivType, RoundDivNear DEF CashAmount
  <2>4. PICK m \in Int : m = RoundDiv(n, k)
    BY <2>3
  <2>5. worth[t] = n /\ amount[t] = m
    BY <2>2, <2>3, <2>4
  <2>6. m * k - n = k * m - n
    OBVIOUS
  <2>7. other[t] = IF t \in I THEN u * n ELSE 0
    BY <1>3, <2>5
  <2>8. flow[t] = IF t \in I THEN 0 ELSE u * n
    BY <1>3, <2>2 DEF Flow
  <2>9. u * n \in Int
    OBVIOUS
  <2> HIDE DEF worth, amount, flow, other, I
  <2>10. flow[t] \in Int /\ other[t] \in Int /\ flow[t] + other[t] = u * n
    BY <2>7, <2>8, <2>9
  <2> QED BY <2>3, <2>4, <2>5, <2>6, <2>10
<1>5. \A t \in T : /\ moved[t] = flow[t] + other[t] /\ paid[t] = uk * amount[t]
                   /\ minus[t] = (-1) * moved[t] /\ err[t] = paid[t] + minus[t]
                   /\ half[t] = uk /\ (t \notin I => other[t] = 0)
  BY <1>3
<1>6. FlowSum(T, home) = Over(flow, T) /\ FlowSum(T, home) \in Int
  <2>1. FlowSum(T, home) = Over(flow, T)
    BY DEF FlowSum
  <2> QED BY <1>1, <2>1, FlowSums
<1>7. Sum(LAMBDA t : CashAmount(t, home), T) = Over(amount, T)
  <2>1. [t \in T |-> CashAmount(t, home)] = [t \in T |-> amount[t]]
    OBVIOUS
  <2> HIDE DEF amount, T, home
  <2> QED BY <2>1 DEF Sum, Over
<1>8. Income(T, home) = Over(worth, I)
  <2>1. Income(T, home) = SumFunction([t \in I |-> NetCashImpact(t) * RateToAccount(t, home)])
    BY DEF Income, Sum
  <2>2. [t \in I |-> NetCashImpact(t) * RateToAccount(t, home)] = [t \in I |-> worth[t]]
    OBVIOUS
  <2> HIDE DEF worth, T, I, home
  <2> QED BY <2>1, <2>2 DEF Over
<1>9. Over(half, T) = uk * Cardinality(T) /\ Cardinality(T) \in Nat
  <2>1. half = [t \in T |-> uk]
    BY <1>3
  <2> HIDE DEF half, T
  <2>2. Over([t \in T |-> uk], T) = uk * Cardinality(T)
    <3>1. uk \in Int
      OBVIOUS
    <3> QED BY <1>1, <3>1, SumConstant
  <2>3. Cardinality(T) \in Nat
    BY <1>1, FS_CardinalityType
  <2> QED BY <2>1, <2>2, <2>3
<1>10. \A t \in I : t \in T /\ other[t] = u * worth[t]
  BY <1>3
<1> HIDE DEF T, home, I, worth, other, flow, moved, amount, paid, minus, err, half
<1>11. \A t \in T : moved[t] \in Int /\ paid[t] \in Int /\ minus[t] \in Int /\ err[t] \in Int
                    /\ Near(err[t], half[t]) /\ half[t] \in Int
  <2> SUFFICES ASSUME NEW t \in T
               PROVE  /\ moved[t] \in Int /\ paid[t] \in Int /\ minus[t] \in Int /\ err[t] \in Int
                      /\ Near(err[t], half[t]) /\ half[t] \in Int
    OBVIOUS
  <2>1. PICK n, m \in Int : n = worth[t] /\ m = amount[t]
    BY <1>4
  <2>2. k * m - n \in Int /\ Near(k * m - n, k)
    BY <1>4, <2>1
  <2>3. Near(u * (k * m - n), u * k)
    <3>1. PICK e \in Int : e = k * m - n
      BY <2>2
    <3>2. k \in Int /\ u \in Nat /\ Near(e, k)
      BY <2>2, <3>1
    <3>3. Near(u * e, u * k)
      BY <3>1, <3>2, NearScaled
    <3> QED BY <3>1, <3>3
  <2>4. PICK x, y \in Int : x = u * n /\ y = uk * m
    OBVIOUS
  <2>5. moved[t] = x /\ paid[t] = y /\ minus[t] = -x /\ err[t] = y + -x /\ half[t] = uk
    BY <1>4, <1>5, <2>1, <2>4
  <2>6. y + -x = u * (k * m - n)
    BY <1>3, <2>4
  <2> QED BY <1>3, <2>3, <2>4, <2>5, <2>6
<1>12. Near(Over(err, T), Over(half, T))
  BY <1>1, <1>11, NearSum
<1>13. Over(err, T) = Over(paid, T) + Over(minus, T)
  BY <1>1, <1>5, <1>11, SumPlus
<1>14. Over(minus, T) = (-1) * Over(moved, T)
  <2>1. -1 \in Int
    OBVIOUS
  <2> QED BY <1>1, <1>5, <1>11, <2>1, SumScaled
<1>15. Over(moved, T) = Over(flow, T) + Over(other, T)
  BY <1>1, <1>4, <1>5, SumPlus
<1>16. Over(paid, T) = uk * Over(amount, T)
  BY <1>1, <1>4, <1>5, SumScaled
<1>17. Over(other, T) = Over(other, I)
  <2>1. (\A t \in T : other[t] \in Int) /\ \A t \in T \ I : other[t] = 0
    BY <1>4, <1>5
  <2> QED BY <1>1, <1>2, <2>1, SumSupport
<1>18. Over(other, I) = u * Over(worth, I)
  <2>1. \A t \in I : worth[t] \in Int
    BY <1>4, <1>10
  <2> QED BY <1>2, <1>10, <2>1, SumScaled
<1>19. Over(amount, T) \in Int /\ Over(worth, I) \in Int
  <2>1. (\A t \in T : amount[t] \in Int) /\ \A t \in I : worth[t] \in Int
    BY <1>4, <1>10
  <2> QED BY <1>1, <1>2, <2>1, SumStep
<1>20. PICK c, i, f \in Int : c = Over(amount, T) /\ i = Over(worth, I) /\ f = Over(flow, T)
  BY <1>6, <1>19
<1>21. Over(err, T) = uk * c + (-1) * (f + u * i)
  BY <1>13, <1>14, <1>15, <1>16, <1>17, <1>18, <1>20
<1>22. uk * c + (-1) * (f + u * i) = uk * c - (f + u * i)
  <2>1. PICK x, y \in Int : x = uk * c /\ y = u * i
    OBVIOUS
  <2>2. x + (-1) * (f + y) = x - (f + y)
    OBVIOUS
  <2> QED BY <2>1, <2>2
<1>23. Near(uk * c - (f + u * i), uk * Cardinality(T))
  BY <1>9, <1>12, <1>21, <1>22
<1>24. /\ Sum(LAMBDA t : CashAmount(t, home), T) = c /\ Income(T, home) = i
       /\ FlowSum(T, home) = f
  BY <1>6, <1>7, <1>8, <1>20
<1> HIDE DEF FlowSum, Income
<1> QED BY <1>3, <1>9, <1>20, <1>23, <1>24 DEF T, home

\* What the sales of an account sold.
LEMMA SoldIsSum ==
  ASSUME NEW S, Historical(S)
  PROVE  Sum(LAMBDA t : t.quantity, {t \in S : t.kind = "SELL"}) = SoldSum(S)
<1> DEFINE T == {t \in S : t.kind = "SELL"}
           sold == [t \in S |-> SoldBy(t)]
<1>1. SoldSum(S) = Over(sold, S)
  BY DEF SoldSum
<1>2. \A t \in S : sold[t] \in Int
  <2>1. \A t \in S : SoldBy(t) \in Int
    BY FlowTyped
  <2> QED BY <2>1
<1>3. T \in SUBSET S /\ (\A t \in S \ T : sold[t] = 0) /\ (\A t \in T : sold[t] = t.quantity)
  BY DEF SoldBy
<1>4. [t \in T |-> t.quantity] = [t \in T |-> sold[t]]
  <2> HIDE DEF T, sold
  <2> QED BY <1>3
<1>5. Sum(LAMBDA t : t.quantity, T) = Over(sold, T)
  <2> HIDE DEF T, sold
  <2> QED BY <1>4 DEF Sum, Over
<1>6. IsFiniteSet(S)
  BY DEF Historical
<1> HIDE DEF T, sold
<1>7. Over(sold, S) = Over(sold, T)
  BY <1>2, <1>3, <1>6, SumSupport
<1> QED BY <1>1, <1>5, <1>7 DEF T

\* What is stated of an account, in its own currency.
LEMMA StatedFigures ==
  ASSUME Historical(posted), NEW a \in Accounts, NEW w, w.cutoff \in Int,
         Valuation(Book, a, w, Home[a]).complete
  PROVE  LET v == Valuation(Book, a, w, Home[a])
             k == RateUnit
         IN  /\ v.total = v.cash + v.market /\ v.unrealized = v.market - v.cost
             /\ v.market \in Int /\ v.cash = k * (CashBalance(Book, a, w) * Ulp * RateUnit)
             /\ v.cost = k * Over(BaseOf(a, w), Held(a, w))
             /\ v.realized = k * Over(RealizedOf(a, w), Securities)
<1> DEFINE v == Valuation(Book, a, w, Home[a])
           rows == {HoldingValuation(Book, a, s, w, Home[a]) : s \in Held(a, w)}
           positions == Positions(Book, a, w)
           cash == CashBalance(Book, a, w) * Ulp * RateUnit
<1>1. \A s \in Securities : Position(Book, a, s, w) \in HoldingType
  <2> SUFFICES ASSUME NEW s \in Securities
               PROVE  Position(Book, a, s, w) \in HoldingType
    OBVIOUS
  <2> DEFINE S == {t \in RowsOf(a, w) : t.security = s}
  <2>1. Historical(S) /\ Position(Book, a, s, w) = Holding(S, Home[a])
    BY RowsOfSecurity
  <2> HIDE DEF S
  <2> QED BY <2>1, HoldingUnfolds
<1>2. v.total = v.cash + v.market /\ v.unrealized = v.market - v.cost /\ v.market \in Int
  BY <1>1, CompleteFigures
<1>3. FxRate(Rates, Home[a], Home[a], w.cutoff) = RateUnit
  BY DEF FxRate
<1>4. v = Totals(rows, positions, RateUnit, cash)
  <2>1. v = Totals(rows, positions, FxRate(Rates, Home[a], Home[a], w.cutoff), cash)
    BY DEF Valuation, Held, Book
  <2> QED BY <1>3, <2>1
<1>5. /\ v.cash = RateUnit * cash
      /\ v.cost = RateUnit * Sum(LAMBDA s : positions[s].base, Open(positions))
      /\ v.realized = RateUnit * Sum(LAMBDA s : positions[s].realizedBase, Securities)
  <2> HIDE DEF v, rows, positions, cash
  <2> QED BY <1>4 DEF Totals
<1>6. Sum(LAMBDA s : positions[s].base, Open(positions)) = Over(BaseOf(a, w), Held(a, w))
  <2>1. Open(positions) = Held(a, w) /\ Held(a, w) \in SUBSET Securities
    BY DEF Held, Open
  <2>2. \A s \in Held(a, w) : positions[s].base = BaseOf(a, w)[s]
    BY <2>1 DEF BaseOf, Positions
  <2> HIDE DEF positions
  <2>3. [s \in Held(a, w) |-> positions[s].base] = [s \in Held(a, w) |-> BaseOf(a, w)[s]]
    BY <2>2
  <2>4. Sum(LAMBDA s : positions[s].base, Held(a, w)) = Over(BaseOf(a, w), Held(a, w))
    BY <2>3 DEF Sum, Over
  <2> QED BY <2>1, <2>4
<1>7. Sum(LAMBDA s : positions[s].realizedBase, Securities) = Over(RealizedOf(a, w), Securities)
  <2>1. \A s \in Securities : positions[s].realizedBase = RealizedOf(a, w)[s]
    BY DEF RealizedOf, Positions
  <2> HIDE DEF positions
  <2>2. [s \in Securities |-> positions[s].realizedBase]
          = [s \in Securities |-> RealizedOf(a, w)[s]]
    BY <2>1
  <2> QED BY <2>2 DEF Sum, Over
<1> QED BY <1>2, <1>5, <1>6, <1>7

LEMMA NearTogether ==
  ASSUME NEW k \in Nat, NEW x \in Int, NEW y \in Int, NEW m \in Int, NEW n \in Int,
         Near(x, m), Near(y, n)
  PROVE  2 * Abs(k * (x + y)) <= k * (m + n)
<1>1. PICK e, b \in Int : e = x + y /\ b = m + n
  OBVIOUS
<1>2. Near(e, b)
  BY <1>1 DEF Near
<1>3. Near(k * e, k * b)
  BY <1>2, NearScaled
<1>4. PICK p, q \in Int : p = k * e /\ q = k * b
  OBVIOUS
<1>5. 2 * Abs(p) <= q
  BY <1>3, <1>4 DEF Near, Abs
<1> QED BY <1>1, <1>4, <1>5

LEMMA AccountExplained ==
  ASSUME Historical(posted), NEW a \in Accounts, NEW w, w.cutoff \in Int,
         Replayable(Book, a, w), Valuation(Book, a, w, Home[a]).complete
  PROVE  Explained(Valuation(Book, a, w, Home[a]), a, w, RowsOf(a, w))
<1> DEFINE T == RowsOf(a, w)
           v == Valuation(Book, a, w, Home[a])
           P == PaidIn(a, w)
           C == Sum(LAMBDA t : CashAmount(t, Home[a]), T)
           I == Income(T, Home[a])
           B == Over(BaseOf(a, w), Held(a, w))
           G == Over(RealizedOf(a, w), Securities)
           F == FlowSum(T, Home[a])
           N == Cardinality(T)
           Z == SoldSum(T)
<1>1. CashBalance(Book, a, w) = P + C /\ CashBalance(Book, a, w) \in Int
  BY CashTyped DEF CashBalance, PaidIn, RowsOf, Book
<1>2. P \in Int
  <2> DEFINE E == {e \in OtherEntries : e.account = a /\ e.day <= w.through}
             f == [e \in E |-> e.amount]
  <2>1. E \in SUBSET OtherEntries /\ (\A e \in E : f[e] \in Int)
    BY EntriesAssumption
  <2>2. P = SumFunction(f) /\ f = [e \in E |-> f[e]]
    BY DEF PaidIn, Sum
  <2> HIDE DEF E, f
  <2>3. IsFiniteSet(E)
    BY <2>1, FS_Subset, EntriesAssumption
  <2>4. Over(f, E) \in Int
    BY <2>1, <2>3, SumStep
  <2> QED BY <2>2, <2>4 DEF Over
<1>3. /\ v.total = v.cash + v.market /\ v.unrealized = v.market - v.cost /\ v.market \in Int
      /\ v.cash = RateUnit * (CashBalance(Book, a, w) * Ulp * RateUnit)
      /\ v.cost = RateUnit * B /\ v.realized = RateUnit * G
  BY StatedFigures
<1>4. C \in Int /\ I \in Int /\ N \in Nat
      /\ Near((Ulp * RateUnit) * C - (F + Ulp * I), (Ulp * RateUnit) * N)
  BY CashKeeps
<1>5. B \in Int /\ G \in Int /\ F \in Int /\ Z \in Nat /\ Near((B - G) + F, Z)
  BY AccountKeeps
<1>6. Historical(T)
  BY RowsOfSecurity
<1> HIDE DEF T, v, P, C, I, B, G, F, N, Z
<1>7. PICK u, k \in Nat : u = Ulp /\ k = RateUnit
  BY PrecisionAssumption
<1>8. PICK p, c, i, b, g, f, n, z, m \in Int :
        /\ p = P /\ c = C /\ i = I /\ b = B /\ g = G /\ f = F /\ n = N /\ z = Z /\ m = v.market
  BY <1>2, <1>3, <1>4, <1>5
<1>9. PICK ui, ukc, ukn, x, y \in Int : /\ ui = u * i /\ ukc = (u * k) * c /\ ukn = (u * k) * n
                                       /\ x = ukc - (f + ui) /\ y = (b - g) + f
  OBVIOUS
<1>10. Near(x, ukn) /\ Near(y, z)
  BY <1>4, <1>5, <1>7, <1>8, <1>9
<1>11. 2 * Abs(k * (x + y)) <= k * (ukn + z)
  BY <1>9, <1>10, NearTogether
<1>12. x + y = (ukc + (b - g)) - ui
  BY <1>9
<1>13. v.total - v.realized - v.unrealized = k * ((p + c) * u * k) + k * b - k * g
  <2>1. PICK cash, cost, gains \in Int :
          /\ cash = k * ((p + c) * u * k) /\ cost = k * b /\ gains = k * g
    OBVIOUS
  <2>2. v.cash = cash /\ v.cost = cost /\ v.realized = gains
    BY <1>1, <1>3, <1>7, <1>8, <2>1
  <2>3. ((cash + m) - gains) - (m - cost) = (cash + cost) - gains
    OBVIOUS
  <2> QED BY <1>3, <1>8, <2>1, <2>2, <2>3
<1>14. k * ((p + c) * u * k) + k * b - k * g - u * k * (i + k * p) = k * (x + y)
  <2>1. k * ((p + c) * u * k) = k * (u * k * p) + k * ukc
    BY <1>9
  <2>2. u * k * (i + k * p) = k * ui + k * (u * k * p)
    BY <1>9
  <2>3. PICK q \in Int : q = k * (u * k * p)
    OBVIOUS
  <2>4. k * (x + y) = ((k * ukc) + (k * b - k * g)) - k * ui
    BY <1>12
  <2>5. PICK r, s, t, o \in Int : r = k * ukc /\ s = k * b /\ t = k * g /\ o = k * ui
    OBVIOUS
  <2>6. ((q + r) + s - t) - (o + q) = (r + (s - t)) - o
    OBVIOUS
  <2> QED BY <2>1, <2>2, <2>3, <2>4, <2>5, <2>6
<1>15. v.total - v.realized - v.unrealized - Ulp * RateUnit * (I + RateUnit * P) = k * (x + y)
  BY <1>7, <1>8, <1>13, <1>14
<1>16. Rounding(T) = k * (ukn + z)
  <2>1. Rounding(T) = u * k * k * n + k * z
    <3>1. Sum(LAMBDA t : t.quantity, {t \in T : t.kind = "SELL"}) = z
      BY <1>6, <1>8, SoldIsSum DEF Z
    <3>2. Rounding(T) = Ulp * RateUnit * RateUnit * N
            + RateUnit * Sum(LAMBDA t : t.quantity, {t \in T : t.kind = "SELL"})
      BY DEF Rounding, N
    <3> QED BY <1>7, <1>8, <3>1, <3>2
  <2>2. u * k * k * n = k * ukn
    BY <1>9
  <2>3. k * (ukn + z) = k * ukn + k * z
    OBVIOUS
  <2> QED BY <2>1, <2>2, <2>3
<1>17. 2 * Abs(v.total - v.realized - v.unrealized - Ulp * RateUnit * (I + RateUnit * P))
         <= Rounding(T)
  BY <1>11, <1>15, <1>16
<1> QED BY <1>17 DEF Explained, T, v, P, I

\* valuation.py:127-131: cash is the entries, which round each row once, and
\* a replay moves cost into gains, but for what a closing sale rounds away.
THEOREM ValueAlwaysExplained == Spec => []ValueExplained
<1>1. \A w \in Moments : w.cutoff \in Int
  BY DEF Moments, Days, AsOf, PageOf
<1>2. Historical(posted) => ValueExplained
  BY <1>1, AccountExplained DEF ValueExplained, RowsOf
<1> QED BY <1>2, HistoryStays, PTL

-----------------------------------------------------------------------------
(***************************************************************************)
(* The cost that purchases put into a position and sales take out of it.   *)
(***************************************************************************)
\* What a row adds to the cost of a position, what it brings in, and the
\* shares it adds.
BoughtFor(t) == IF t.kind = "BUY" THEN Acquisition(t) * Ulp ELSE 0
SoldFor(t) == IF t.kind = "SELL" THEN NetProceeds(t) * Ulp ELSE 0
BoughtBy(t) == IF t.kind = "BUY" THEN t.quantity ELSE 0

\* The sales after which nothing is left.
Closing(S) == {t \in S : t.kind = "SELL" /\ NetThrough(t, S) = 0}

BoughtSum(H, T) == Over([t \in H |-> BoughtFor(t)], T)
EarnedSum(H, T) == Over([t \in H |-> SoldFor(t)], T)
SharesSum(H, T) == Over([t \in H |-> BoughtBy(t)], T)
SoldShares(H, T) == Over([t \in H |-> SoldBy(t)], T)
ClosedSum(H, T) == Over([t \in H |-> t.quantity], Closing(T))

LEMMA RowSums ==
  ASSUME NEW H, Historical(H), NEW T \in SUBSET H
  PROVE  /\ BoughtSum(H, T) \in Int /\ EarnedSum(H, T) \in Int
         /\ SharesSum(H, T) \in Nat /\ SoldShares(H, T) \in Nat
         /\ T = {} => /\ BoughtSum(H, T) = 0 /\ EarnedSum(H, T) = 0
                      /\ SharesSum(H, T) = 0 /\ SoldShares(H, T) = 0
         /\ \A t \in T : /\ BoughtSum(H, T) = BoughtFor(t) + BoughtSum(H, T \ {t})
                         /\ EarnedSum(H, T) = SoldFor(t) + EarnedSum(H, T \ {t})
                         /\ SharesSum(H, T) = BoughtBy(t) + SharesSum(H, T \ {t})
                         /\ SoldShares(H, T) = SoldBy(t) + SoldShares(H, T \ {t})
<1> DEFINE f == [t \in H |-> BoughtFor(t)]
           g == [t \in H |-> SoldFor(t)]
           h == [t \in H |-> BoughtBy(t)]
           k == [t \in H |-> SoldBy(t)]
<1>1. \A t \in T : /\ f[t] = BoughtFor(t) /\ g[t] = SoldFor(t) /\ h[t] = BoughtBy(t) /\ k[t] = SoldBy(t)
                   /\ f[t] \in Int /\ g[t] \in Int /\ h[t] \in Nat /\ h[t] \in Int
                   /\ k[t] \in Nat /\ k[t] \in Int
  <2> SUFFICES ASSUME NEW t \in T
               PROVE  /\ BoughtFor(t) \in Int /\ SoldFor(t) \in Int
                      /\ BoughtBy(t) \in Nat /\ SoldBy(t) \in Nat
    OBVIOUS
  <2>1. t \in H
    OBVIOUS
  <2>2. Acquisition(t) * Ulp \in Int /\ NetProceeds(t) * Ulp \in Int
    BY <2>1, WorthTyped
  <2>3. t.quantity \in Nat
    BY <2>1, RowTyped
  <2> QED BY <2>2, <2>3 DEF BoughtFor, SoldFor, BoughtBy, SoldBy
<1>2. IsFiniteSet(T)
  BY FS_Subset DEF Historical
<1>3. /\ BoughtSum(H, T) = Over(f, T) /\ EarnedSum(H, T) = Over(g, T)
      /\ SharesSum(H, T) = Over(h, T) /\ SoldShares(H, T) = Over(k, T)
      /\ \A t \in T : /\ BoughtSum(H, T \ {t}) = Over(f, T \ {t})
                      /\ EarnedSum(H, T \ {t}) = Over(g, T \ {t})
                      /\ SharesSum(H, T \ {t}) = Over(h, T \ {t})
                      /\ SoldShares(H, T \ {t}) = Over(k, T \ {t})
  BY DEF BoughtSum, EarnedSum, SharesSum, SoldShares
<1> HIDE DEF f, g, h, k
<1>4. /\ Over(f, T) \in Int /\ (T = {} => Over(f, T) = 0)
      /\ \A t \in T : Over(f, T) = f[t] + Over(f, T \ {t})
  BY <1>1, <1>2, SumStep
<1>5. /\ Over(g, T) \in Int /\ (T = {} => Over(g, T) = 0)
      /\ \A t \in T : Over(g, T) = g[t] + Over(g, T \ {t})
  BY <1>1, <1>2, SumStep
<1>6. /\ Over(h, T) \in Nat /\ (T = {} => Over(h, T) = 0)
      /\ \A t \in T : Over(h, T) = h[t] + Over(h, T \ {t})
  BY <1>1, <1>2, SumStep, SumNatural
<1>7. /\ Over(k, T) \in Nat /\ (T = {} => Over(k, T) = 0)
      /\ \A t \in T : Over(k, T) = k[t] + Over(k, T \ {t})
  BY <1>1, <1>2, SumStep, SumNatural
<1> QED BY <1>1, <1>3, <1>4, <1>5, <1>6, <1>7

\* The latest row closes the position or not; the others did what they did.
LEMMA ClosedStep ==
  ASSUME NEW H, Historical(H), NEW T \in SUBSET H, T # {}, NEW t, t = Latest(T)
  PROVE  /\ ClosedSum(H, T) \in Int /\ ClosedSum(H, T \ {t}) \in Int
         /\ ClosedSum(H, T) = IF t.kind = "SELL" /\ NetThrough(t, T) = 0
                              THEN t.quantity + ClosedSum(H, T \ {t})
                              ELSE ClosedSum(H, T \ {t})
<1> DEFINE f == [u \in H |-> u.quantity]
<1>1. Historical(T) /\ t \in T
  BY PartHistorical, LatestExists
<1>2. \A u \in T \ {t} : NetThrough(u, T) = NetThrough(u, T \ {t})
  BY <1>1, NetThroughLatest
<1>3. Closing(T \ {t}) = Closing(T) \ {t}
  BY <1>2 DEF Closing
<1>4. IsFiniteSet(Closing(T)) /\ IsFiniteSet(Closing(T \ {t}))
  <2>1. Closing(T) \in SUBSET T /\ Closing(T \ {t}) \in SUBSET T /\ IsFiniteSet(T)
    BY <1>1 DEF Closing, Historical
  <2> QED BY <2>1, FS_Subset
<1>5. \A u \in T : f[u] = u.quantity /\ f[u] \in Int
  BY <1>1, RowTyped
<1>6. ClosedSum(H, T) = Over(f, Closing(T)) /\ ClosedSum(H, T \ {t}) = Over(f, Closing(T \ {t}))
  BY DEF ClosedSum
<1> HIDE DEF f
<1>7. \A u \in Closing(T) : f[u] \in Int
  BY <1>5 DEF Closing
<1>8. \A u \in Closing(T \ {t}) : f[u] \in Int
  BY <1>3, <1>7
<1>9. Over(f, Closing(T)) \in Int /\ \A u \in Closing(T) : Over(f, Closing(T)) = f[u] + Over(f, Closing(T) \ {u})
  BY <1>4, <1>7, SumStep
<1>10. Over(f, Closing(T \ {t})) \in Int
  BY <1>4, <1>8, SumStep
<1>11. t \in Closing(T) <=> t.kind = "SELL" /\ NetThrough(t, T) = 0
  BY <1>1 DEF Closing
<1>12. t \notin Closing(T) => Closing(T \ {t}) = Closing(T)
  BY <1>3
<1> QED BY <1>1, <1>3, <1>5, <1>6, <1>9, <1>10, <1>11, <1>12

LEMMA NothingClosed ==
  ASSUME NEW H, Historical(H)
  PROVE  ClosedSum(H, {}) = 0
<1>1. Closing({}) = {} /\ IsFiniteSet({})
  BY FS_EmptySet DEF Closing
<1>2. Over([t \in H |-> t.quantity], {}) = 0
  BY <1>1, SumStep
<1> QED BY <1>1, <1>2 DEF ClosedSum

-----------------------------------------------------------------------------
\* What was bought is in the position or was taken out (earnings that are not
\* gains), up to what closing sales drop.
CostHeld(p, bought, earned, closed) ==
  p.ok => /\ p.quantity = 0 => p.cost = 0 /\ p.base = 0
          /\ Near(((bought - earned) - p.cost) + p.realized, closed)

\* Each share that was sold has lowered the cost of the rest by at most half a
\* unit: when every purchase costs at least fine half units a share, so do the
\* shares that are left, less that.
CostFloor(p, shares, sold, fine) ==
  p.ok => /\ p.quantity + sold = shares
          /\ 2 * p.cost + sold >= fine * p.quantity

LEMMA PurchaseHoldsCost ==
  ASSUME NEW S, Historical(S), NEW t \in S, NEW home, t.kind = "BUY",
         NEW p \in HoldingType, p.ok,
         NEW bought \in Int, NEW earned \in Int, NEW closed \in Int, CostHeld(p, bought, earned, closed),
         NEW shares \in Int, NEW sold \in Int, NEW fine \in Int, CostFloor(p, shares, sold, fine),
         t.quantity * fine <= 2 * (Acquisition(t) * Ulp)
  PROVE  /\ CostHeld(Bought(p, t, home), BoughtFor(t) + bought, SoldFor(t) + earned, closed)
         /\ CostFloor(Bought(p, t, home), BoughtBy(t) + shares, SoldBy(t) + sold, fine)
<1>1. t.quantity \in Nat /\ t.quantity # 0
  BY RowTyped
<1>2. PICK acquired, cost, realized \in Int :
        acquired = Acquisition(t) * Ulp /\ cost = p.cost /\ realized = p.realized
  BY WorthTyped DEF HoldingType
<1>3. BoughtFor(t) = acquired /\ SoldFor(t) = 0 /\ BoughtBy(t) = t.quantity /\ SoldBy(t) = 0
  BY <1>2 DEF BoughtFor, SoldFor, BoughtBy, SoldBy
<1>4. /\ Bought(p, t, home).quantity = p.quantity + t.quantity
      /\ Bought(p, t, home).cost = cost + acquired
      /\ Bought(p, t, home).realized = realized
  BY <1>2 DEF Bought, HoldingType
<1>5. p.quantity \in Nat /\ p.quantity + t.quantity # 0
  BY <1>1 DEF HoldingType
<1>6. Near((((acquired + bought) - (0 + earned)) - (cost + acquired)) + realized, closed)
  <2>1. Near(((bought - earned) - cost) + realized, closed)
    BY <1>2 DEF CostHeld
  <2> QED BY <2>1 DEF Near
<1>7. 2 * (cost + acquired) + (0 + sold) >= fine * (p.quantity + t.quantity)
  <2>1. 2 * cost + sold >= fine * p.quantity
    BY <1>2 DEF CostFloor
  <2>2. t.quantity * fine <= 2 * acquired
    BY <1>2
  <2>3. PICK m, n \in Int : m = fine * p.quantity /\ n = fine * t.quantity
    BY <1>1, <1>5
  <2>4. fine * (p.quantity + t.quantity) = m + n /\ t.quantity * fine = n
    BY <1>1, <1>5, <2>3
  <2> QED BY <2>1, <2>2, <2>3, <2>4
<1>8. (p.quantity + t.quantity) + (0 + sold) = t.quantity + shares
  BY <1>1, <1>5 DEF CostFloor
<1> QED BY <1>3, <1>4, <1>5, <1>6, <1>7, <1>8 DEF CostHeld, CostFloor

LEMMA SaleHoldsCost ==
  ASSUME NEW S, Historical(S), NEW t \in S, NEW home, t.kind = "SELL",
         NEW p \in HoldingType, p.ok, t.quantity <= p.quantity,
         NEW bought \in Int, NEW earned \in Int, NEW closed \in Int, CostHeld(p, bought, earned, closed),
         NEW shares \in Int, NEW sold \in Nat, NEW fine \in Nat, CostFloor(p, shares, sold, fine)
  PROVE  /\ CostHeld(Sold(p, t, home), BoughtFor(t) + bought, SoldFor(t) + earned,
                     IF t.quantity = p.quantity THEN t.quantity + closed ELSE closed)
         /\ CostFloor(Sold(p, t, home), BoughtBy(t) + shares, SoldBy(t) + sold, fine)
<1>1. t.quantity \in Nat /\ t.quantity # 0
  BY RowTyped
<1>2. p.quantity \in Nat \ {0} /\ p.cost \in Int
  BY <1>1 DEF HoldingType
<1>3. PICK average \in Int : average = RoundDiv(p.cost, p.quantity)
  BY <1>2, RoundDivType
<1>4. PICK net, cost, realized, taken \in Int :
        /\ net = NetProceeds(t) * Ulp /\ cost = p.cost /\ realized = p.realized
        /\ taken = average * t.quantity
  <2>1. NetProceeds(t) * Ulp \in Int /\ p.cost \in Int /\ p.realized \in Int
    BY WorthTyped DEF HoldingType
  <2>2. average * t.quantity \in Int
    BY <1>1
  <2> QED BY <2>1, <2>2
<1>5. BoughtFor(t) = 0 /\ SoldFor(t) = net /\ BoughtBy(t) = 0 /\ SoldBy(t) = t.quantity
  BY <1>4 DEF BoughtFor, SoldFor, BoughtBy, SoldBy
<1>6. /\ Sold(p, t, home).quantity = p.quantity - t.quantity
      /\ Sold(p, t, home).cost = IF p.quantity - t.quantity = 0 THEN 0 ELSE cost - taken
      /\ Sold(p, t, home).base = IF p.quantity - t.quantity = 0 THEN 0
                                 ELSE p.base - RoundDiv(p.base, p.quantity) * t.quantity
      /\ Sold(p, t, home).realized = realized + net - taken
  BY <1>3, <1>4 DEF Sold, HoldingType
<1>7. Near(((bought - earned) - cost) + realized, closed)
  BY <1>4 DEF CostHeld
<1>8. Near(average * p.quantity - cost, p.quantity)
  BY <1>2, <1>3, <1>4, RoundDivNear
<1>9. p.quantity + sold = shares /\ 2 * cost + sold >= fine * p.quantity
  BY <1>4 DEF CostFloor
<1>10. (p.quantity - t.quantity) + (t.quantity + sold) = 0 + shares
  BY <1>1, <1>2, <1>9
<1>11. CASE t.quantity = p.quantity
  <2>1. p.quantity - t.quantity = 0
    BY <1>2, <1>11
  <2>2. Near((((0 + bought) - (net + earned)) - 0) + (realized + net - taken), t.quantity + closed)
    BY <1>1, <1>4, <1>7, <1>8, <1>11 DEF Near
  <2>3. 2 * 0 + (t.quantity + sold) >= fine * 0
    BY <1>1
  <2> QED BY <1>5, <1>6, <1>10, <1>11, <2>1, <2>2, <2>3 DEF CostHeld, CostFloor
<1>12. CASE t.quantity # p.quantity
  <2>1. p.quantity - t.quantity # 0
    BY <1>1, <1>2, <1>12
  <2>2. Near((((0 + bought) - (net + earned)) - (cost - taken)) + (realized + net - taken), closed)
    BY <1>7 DEF Near
  <2>3. 2 * (cost - taken) + (t.quantity + sold) >= fine * (p.quantity - t.quantity)
    <3>1. PICK q \in Nat \ {0}, k \in Nat, left \in Nat :
                 q = p.quantity /\ k = t.quantity /\ left = q - k
      BY <1>1, <1>2
    <3>2. 2 * (average * q) <= 2 * cost + q
      <4>1. PICK m \in Int : m = average * q
        BY <3>1
      <4>2. 2 * (m - cost) <= q
        BY <1>8, <3>1, <4>1 DEF Near
      <4> QED BY <4>1, <4>2
    <3>3. q * (2 * (cost - taken) + (k + sold)) >= q * (fine * left)
      <4>1. PICK m \in Int : m = average * q
        BY <3>1
      <4>2. q * taken = m * k
        BY <1>4, <3>1, <4>1
      <4>3. 2 * (m * k) <= (2 * cost) * k + q * k
        <5>1. 2 * m <= 2 * cost + q
          BY <3>2, <4>1
        <5>2. (2 * m) * k <= (2 * cost + q) * k
          BY <5>1
        <5> QED BY <5>2
      <4>4. (2 * cost) * left >= (fine * q) * left - sold * left
        <5>1. 2 * cost >= fine * q - sold
          BY <1>9, <3>1
        <5>2. PICK d \in Int : d = fine * q - sold
          OBVIOUS
        <5>3. (2 * cost) * left >= d * left
          BY <5>1, <5>2
        <5>4. d * left = (fine * q) * left - sold * left
          BY <5>2
        <5> QED BY <5>3, <5>4
      <4>5. (2 * cost) * q = (2 * cost) * left + (2 * cost) * k
        BY <3>1
      <4>6. sold * left <= sold * q
        <5>1. left <= q
          BY <3>1
        <5> QED BY <5>1
      <4>7. q * (2 * (cost - taken) + (k + sold)) = (2 * cost) * q - 2 * (q * taken) + q * k + sold * q
        OBVIOUS
      <4>8. q * (fine * left) = (fine * q) * left
        OBVIOUS
      <4>9. PICK x1, x2, x3, x4, x5, x6, x7 \in Int :
                   /\ x1 = (2 * cost) * q /\ x2 = q * taken /\ x3 = q * k /\ x4 = sold * q
                   /\ x5 = (2 * cost) * left /\ x6 = (2 * cost) * k /\ x7 = sold * left
        OBVIOUS
      <4>10. PICK x8 \in Int : x8 = (fine * q) * left
        OBVIOUS
      <4>11. x1 - 2 * x2 + x3 + x4 >= x8
        <5>1. 2 * x2 <= x6 + x3
          BY <4>2, <4>3, <4>9
        <5>2. x5 >= x8 - x7
          BY <4>4, <4>9, <4>10
        <5>3. x1 = x5 + x6 /\ x7 <= x4
          BY <4>5, <4>6, <4>9
        <5> QED BY <5>1, <5>2, <5>3
      <4> QED BY <4>7, <4>8, <4>9, <4>10, <4>11
    <3>4. PICK u, v \in Int : u = 2 * (cost - taken) + (k + sold) /\ v = fine * left
      OBVIOUS
    <3>5. u >= v
      <4>1. SUFFICES ASSUME u + 1 <= v PROVE FALSE
        OBVIOUS
      <4>2. q * (u + 1) <= q * v
        BY <4>1
      <4>3. q * (u + 1) = q * u + q /\ q * u \in Int /\ q * v \in Int
        OBVIOUS
      <4> QED BY <3>3, <3>4, <4>2, <4>3
    <3> QED BY <3>1, <3>4, <3>5
  <2> QED BY <1>5, <1>6, <1>10, <1>12, <2>1, <2>2, <2>3 DEF CostHeld, CostFloor
<1> QED BY <1>11, <1>12

-----------------------------------------------------------------------------
\* No purchase costs less a share than fine half units.
Fine(H, fine) == \A t \in H : t.kind = "BUY" => t.quantity * fine <= 2 * (Acquisition(t) * Ulp)

Costed(H, T, home, fine) ==
  /\ CostHeld(Holding(T, home), BoughtSum(H, T), EarnedSum(H, T), ClosedSum(H, T))
  /\ CostFloor(Holding(T, home), SharesSum(H, T), SoldShares(H, T), fine)

LEMMA HoldingCosted ==
  ASSUME NEW H, Historical(H), NEW home, NEW fine \in Nat, Fine(H, fine)
  PROVE  Costed(H, H, home, fine)
<1> DEFINE Good == {T \in SUBSET H : Costed(H, T, home, fine)}
<1>1. ASSUME NEW T \in SUBSET H, \A t \in T : T \ {t} \in Good
      PROVE  Costed(H, T, home, fine)
  <2>1. Historical(T)
    BY PartHistorical
  <2>2. CASE T = {}
    <3>1. Holding(T, home) = Flat
      BY <2>1, <2>2, HoldingUnfolds
    <3>2. /\ BoughtSum(H, T) = 0 /\ EarnedSum(H, T) = 0
          /\ SharesSum(H, T) = 0 /\ SoldShares(H, T) = 0
      BY <2>2, RowSums
    <3>3. ClosedSum(H, T) = 0
      BY <2>2, NothingClosed
    <3>4. fine * 0 = 0
      OBVIOUS
    <3>5. CostHeld(Flat, 0, 0, 0) /\ CostFloor(Flat, 0, 0, fine)
      BY <3>4 DEF CostHeld, CostFloor, Flat, Near
    <3> QED BY <3>1, <3>2, <3>3, <3>5 DEF Costed
  <2>3. CASE T # {}
    <3> DEFINE t == Latest(T)
               R == T \ {t}
               p == Holding(R, home)
               q == Holding(T, home)
    <3>1. t \in T /\ t \in H /\ R \in SUBSET H
      BY <2>1, <2>3, LatestExists
    <3>2. Costed(H, R, home, fine)
      BY <1>1, <3>1
    <3>3. p \in HoldingType /\ q = HoldingStep(t, p, home)
      <4>1. Historical(R)
        BY <2>1, PartHistorical
      <4> QED BY <2>1, <2>3, <4>1, HoldingUnfolds
    <3>4. PICK bought \in Int, earned \in Int, shares \in Nat, sold \in Nat :
            /\ bought = BoughtSum(H, R) /\ earned = EarnedSum(H, R)
            /\ shares = SharesSum(H, R) /\ sold = SoldShares(H, R)
      BY <3>1, RowSums
    <3>5. /\ BoughtSum(H, T) = BoughtFor(t) + bought /\ EarnedSum(H, T) = SoldFor(t) + earned
          /\ SharesSum(H, T) = BoughtBy(t) + shares /\ SoldShares(H, T) = SoldBy(t) + sold
      BY <3>1, <3>4, RowSums
    <3>6. PICK closed \in Int : closed = ClosedSum(H, R)
      BY <2>3, ClosedStep
    <3>7. ClosedSum(H, T) = IF t.kind = "SELL" /\ NetThrough(t, T) = 0
                            THEN t.quantity + closed ELSE closed
      BY <2>3, <3>6, ClosedStep
    <3>8. t.kind \in Kinds /\ t.quantity \in Nat /\ p.quantity \in Nat /\ p.ok \in BOOLEAN
      BY <3>1, <3>3, RowTyped DEF HoldingType
    <3>9. CostHeld(p, bought, earned, closed) /\ CostFloor(p, shares, sold, fine)
      BY <3>2, <3>4, <3>6 DEF Costed
    <3>10. /\ p.ok => p.quantity = Sum(SignedQuantity, R)
           /\ NetThrough(t, T) = SignedQuantity(t) + Sum(SignedQuantity, R)
      <4>1. Historical(R)
        BY <3>1, PartHistorical
      <4>2. p.ok => p.quantity = Sum(SignedQuantity, R)
        BY <4>1, HoldingExact DEF Exact
      <4>3. NetThrough(t, T) = Sum(SignedQuantity, T)
        BY <2>1, <3>1, NetThroughLatest
      <4>4. Sum(SignedQuantity, T) = SignedQuantity(t) + Sum(SignedQuantity, R)
        BY <2>1, <3>1, SignedSum
      <4> QED BY <4>2, <4>3, <4>4
    <3>11. SUFFICES /\ CostHeld(q, BoughtFor(t) + bought, SoldFor(t) + earned, ClosedSum(H, T))
                    /\ CostFloor(q, BoughtBy(t) + shares, SoldBy(t) + sold, fine)
      BY <3>5 DEF Costed
    <3> HIDE DEF t, R, p, q
    <3>12. CASE ~p.ok
      BY <3>3, <3>12 DEF HoldingStep, CostHeld, CostFloor
    <3>13. CASE p.ok /\ t.kind = "BUY"
      <4>1. q = Bought(p, t, home)
        BY <3>3, <3>13 DEF HoldingStep
      <4>2. ClosedSum(H, T) = closed
        BY <3>7, <3>13
      <4>3. t.quantity * fine <= 2 * (Acquisition(t) * Ulp)
        BY <3>1, <3>13 DEF Fine
      <4>4. t \in H /\ p \in HoldingType /\ p.ok /\ t.kind = "BUY"
        BY <3>1, <3>3, <3>13
      <4>5. shares \in Int /\ sold \in Int /\ fine \in Int
        OBVIOUS
      <4>6. /\ CostHeld(Bought(p, t, home), BoughtFor(t) + bought, SoldFor(t) + earned, closed)
            /\ CostFloor(Bought(p, t, home), BoughtBy(t) + shares, SoldBy(t) + sold, fine)
        BY <3>9, <4>3, <4>4, <4>5, PurchaseHoldsCost
      <4> QED BY <4>1, <4>2, <4>6
    <3>14. CASE p.ok /\ t.kind = "SELL" /\ t.quantity > p.quantity
      <4>1. q = [p EXCEPT !.ok = FALSE]
        BY <3>3, <3>8, <3>14 DEF HoldingStep
      <4>2. ~q.ok
        BY <3>3, <4>1 DEF HoldingType
      <4> QED BY <4>2 DEF CostHeld, CostFloor
    <3>15. CASE p.ok /\ t.kind = "SELL" /\ t.quantity <= p.quantity
      <4>1. q = Sold(p, t, home)
        BY <3>3, <3>8, <3>15 DEF HoldingStep
      <4>2. NetThrough(t, T) = 0 <=> t.quantity = p.quantity
        <5>1. SignedQuantity(t) = -t.quantity
          BY <3>15 DEF SignedQuantity
        <5>2. NetThrough(t, T) = -t.quantity + p.quantity
          BY <3>10, <3>15, <5>1
        <5> QED BY <3>8, <5>2
      <4>3. ClosedSum(H, T) = IF t.quantity = p.quantity THEN t.quantity + closed ELSE closed
        BY <3>7, <3>15, <4>2
      <4> QED BY <3>1, <3>3, <3>9, <3>15, <4>1, <4>3, SaleHoldsCost
    <3>16. CASE p.ok /\ t.kind \notin {"BUY", "SELL"}
      <4>1. q = p
        BY <3>3, <3>16 DEF HoldingStep
      <4>2. BoughtFor(t) = 0 /\ SoldFor(t) = 0 /\ BoughtBy(t) = 0 /\ SoldBy(t) = 0
        BY <3>16 DEF BoughtFor, SoldFor, BoughtBy, SoldBy
      <4>3. ClosedSum(H, T) = closed
        BY <3>7, <3>16
      <4> QED BY <3>9, <4>1, <4>2, <4>3
    <3> QED BY <3>8, <3>12, <3>13, <3>14, <3>15, <3>16
  <2> QED BY <2>2, <2>3
<1>2. Hereditary(Good, H) /\ IsFiniteSet(H)
  BY <1>1 DEF Hereditary, Historical
<1>3. H \in Good
  <2> HIDE DEF Good
  <2> QED BY <1>2, SubsetInduction
<1> QED BY <1>3

-----------------------------------------------------------------------------
AllocatedIn(r, s) == Sum(LAMBDA e : e.allocated, SalesOf(r, s))
GainedIn(r, s) == Sum(LAMBDA e : e.gain, SalesOf(r, s))

\* Each event splits what its sale brings in into cost and gain.
Paid(H, T, home) ==
  Report(T, home).ok => \A s : AllocatedIn(Report(T, home), s) + GainedIn(Report(T, home), s)
                                 = EarnedSum(H, OfSecurity(T, s))

LEMMA EventPays ==
  ASSUME NEW S, Historical(S), NEW t \in S, t.kind = "SELL", NEW home,
         NEW pos \in PositionType, t.quantity <= pos.quantity,
         NEW e, e = EventOf(t, pos, home)
  PROVE  /\ e \in EventType /\ e.id = t.id /\ e.security = t.security
         /\ e.allocated \in Int /\ e.gain \in Int /\ e.allocated + e.gain = SoldFor(t)
<1>1. e \in EventType
  BY EventTyped
<1>2. e.id = t.id /\ e.security = t.security
      /\ e.gain = NetProceeds(t) * Ulp - e.allocated
  BY DEF EventOf
<1>3. e.allocated \in Int /\ e.gain \in Int
  BY <1>1 DEF EventType
<1>4. NetProceeds(t) * Ulp \in Int
  BY WorthTyped
<1>5. SoldFor(t) = NetProceeds(t) * Ulp
  BY DEF SoldFor
<1> QED BY <1>1, <1>2, <1>3, <1>4, <1>5

LEMMA SalesIdentified ==
  ASSUME NEW H, Historical(H), NEW T \in SUBSET H, T # {}, \A t \in T : t.kind \in {"BUY", "SELL"},
         NEW home, NEW t, t = Latest(T), NEW s
  PROVE  \A e \in SalesOf(Report(T \ {t}, home), s) : e.id # t.id
<1>1. Historical(T) /\ t \in T
  BY PartHistorical, LatestExists
<1>2. Historical(T \ {t}) /\ \A u \in T \ {t} : u.kind \in {"BUY", "SELL"}
  BY <1>1, PartHistorical
<1>3. Booked(T \ {t}, home)
  BY <1>2, ReportBooked
<1>4. \A u \in T \ {t} : u.id # t.id
  BY <1>1 DEF Historical
<1> QED BY <1>3, <1>4 DEF Booked

LEMMA ReportPaid ==
  ASSUME NEW H, Historical(H), \A t \in H : t.kind \in {"BUY", "SELL"}, NEW home
  PROVE  Paid(H, H, home)
<1> DEFINE Good == {T \in SUBSET H : Paid(H, T, home)}
<1>1. ASSUME NEW T \in SUBSET H, \A t \in T : T \ {t} \in Good
      PROVE  Paid(H, T, home)
  <2>1. Historical(T) /\ \A t \in T : t.kind \in {"BUY", "SELL"}
    BY PartHistorical
  <2>2. CASE T = {}
    <3>1. Report(T, home) = NoReport
      BY <2>1, <2>2, ReportUnfolds
    <3>2. ASSUME NEW s
          PROVE  /\ AllocatedIn(NoReport, s) = 0 /\ GainedIn(NoReport, s) = 0
                 /\ EarnedSum(H, OfSecurity(T, s)) = 0
      <4>1. SalesOf(NoReport, s) = {} /\ OfSecurity(T, s) = {}
        BY <2>2 DEF SalesOf, NoReport, OfSecurity
      <4>2. {} \in SUBSET EventType /\ IsFiniteSet({})
        BY FS_EmptySet
      <4>3. Sum(LAMBDA e : e.allocated, {}) = 0 /\ Sum(LAMBDA e : e.gain, {}) = 0
        BY <4>2, SaleSums
      <4>4. {} \in SUBSET H
        OBVIOUS
      <4>5. EarnedSum(H, {}) = 0
        BY <4>4, RowSums
      <4> QED BY <4>1, <4>3, <4>5 DEF AllocatedIn, GainedIn
    <3> QED BY <3>1, <3>2 DEF Paid
  <2>3. CASE T # {}
    <3> DEFINE t == Latest(T)
               R == T \ {t}
               r == Report(R, home)
               q == Report(T, home)
               pos == PositionIn(r, t.security)
    <3>1. t \in T /\ t \in H /\ R \in SUBSET H /\ t.security \in Securities
      BY <2>1, <2>3, LatestExists, RowTyped
    <3>2. Paid(H, R, home)
      BY <1>1, <3>1
    <3>3. r \in ReportType /\ q = GainStep(t, r, home)
      <4>1. Historical(R) /\ \A u \in R : u.kind \in {"BUY", "SELL"}
        BY <2>1, PartHistorical
      <4> QED BY <2>1, <2>3, <4>1, ReportUnfolds
    <3>4. Steps(t, r, home, pos) /\ pos \in PositionType /\ r.ok \in BOOLEAN
      BY <3>1, <3>3, GainSteps, PositionsTyped DEF ReportType
    <3>5. t.quantity \in Nat /\ pos.quantity \in Nat /\ t.kind \in {"BUY", "SELL"}
      BY <2>1, <3>1, <3>4, RowTyped DEF PositionType
    <3>6. ASSUME NEW s
          PROVE  /\ s # t.security => OfSecurity(T, s) = OfSecurity(R, s)
                 /\ EarnedSum(H, OfSecurity(T, t.security))
                      = SoldFor(t) + EarnedSum(H, OfSecurity(R, t.security))
      <4>1. t \in OfSecurity(T, t.security)
            /\ OfSecurity(T, t.security) \ {t} = OfSecurity(R, t.security)
            /\ OfSecurity(T, t.security) \in SUBSET H
        BY <3>1 DEF OfSecurity
      <4>2. EarnedSum(H, OfSecurity(T, t.security))
              = SoldFor(t) + EarnedSum(H, OfSecurity(T, t.security) \ {t})
        BY <4>1, RowSums
      <4> QED BY <4>1, <4>2 DEF OfSecurity
    <3>7. \A e \in SalesOf(r, t.security) : e.id # t.id
      BY <2>1, <2>3, SalesIdentified
    <3>8. \A s : r.ok => AllocatedIn(r, s) + GainedIn(r, s) = EarnedSum(H, OfSecurity(R, s))
      BY <3>2 DEF Paid
    <3>9. EarnedSum(H, OfSecurity(R, t.security)) \in Int
      <4>1. OfSecurity(R, t.security) \in SUBSET H
        BY <3>1 DEF OfSecurity
      <4> QED BY <4>1, RowSums
    <3>10. SUFFICES ASSUME q.ok, NEW s
                    PROVE  AllocatedIn(q, s) + GainedIn(q, s) = EarnedSum(H, OfSecurity(T, s))
      BY DEF Paid
    <3> HIDE DEF t, R, r, q, pos
    <3>11. r.ok
      BY <3>3, <3>4, <3>10 DEF Steps
    <3>12. CASE t.kind = "BUY"
      <4>1. q = [r EXCEPT !.positions = PositionsWith(r, t.security, AfterPurchase(pos, t, home))]
        BY <3>3, <3>4, <3>11, <3>12 DEF Steps
      <4>2. q.events = r.events
        BY <3>3, <4>1 DEF ReportType
      <4>3. AllocatedIn(q, s) = AllocatedIn(r, s) /\ GainedIn(q, s) = GainedIn(r, s)
        BY <4>2 DEF AllocatedIn, GainedIn, SalesOf
      <4>4. SoldFor(t) = 0
        BY <3>12 DEF SoldFor
      <4>5. EarnedSum(H, OfSecurity(T, s)) = EarnedSum(H, OfSecurity(R, s))
        <5>1. CASE s = t.security
          BY <3>6, <3>9, <4>4, <5>1
        <5>2. CASE s # t.security
          BY <3>6, <5>2
        <5> QED BY <5>1, <5>2
      <4> QED BY <3>8, <3>11, <4>3, <4>5
    <3>13. CASE t.kind = "SELL" /\ t.quantity > pos.quantity
      <4>1. q = [r EXCEPT !.ok = FALSE]
        BY <3>3, <3>4, <3>11, <3>13 DEF Steps
      <4> QED BY <3>3, <3>10, <4>1 DEF ReportType
    <3>14. CASE t.kind = "SELL" /\ t.quantity <= pos.quantity
      <4>1. PICK e : e = EventOf(t, pos, home)
        OBVIOUS
      <4>2. q = [r EXCEPT !.positions = PositionsWith(r, t.security, AfterSale(pos, t, e)),
                          !.events = Append(@, e)]
        BY <3>3, <3>4, <3>11, <3>14, <4>1 DEF Steps
      <4>3. q.events = Append(r.events, e)
        BY <3>3, <4>2 DEF ReportType
      <4>4. /\ e \in EventType /\ e.id = t.id /\ e.security = t.security
            /\ e.allocated \in Int /\ e.gain \in Int /\ e.allocated + e.gain = SoldFor(t)
        BY <3>1, <3>4, <3>14, <4>1, EventPays
      <4>5. \A x : SalesOf(q, x) = IF e.security = x THEN SalesOf(r, x) \cup {e} ELSE SalesOf(r, x)
        <5>1. Appends(q, r, e)
          BY <4>3 DEF Appends
        <5>2. Lists(q, r, e)
          BY <3>3, <4>4, <5>1, SalesAppended
        <5> QED BY <5>2 DEF Lists
      <4>6. CASE s # t.security
        <5>1. AllocatedIn(q, s) = AllocatedIn(r, s) /\ GainedIn(q, s) = GainedIn(r, s)
          BY <4>4, <4>5, <4>6 DEF AllocatedIn, GainedIn
        <5> QED BY <3>6, <3>8, <3>11, <4>6, <5>1
      <4>7. CASE s = t.security
        <5> DEFINE E == SalesOf(r, s)
        <5>1. E \in SUBSET EventType /\ IsFiniteSet(E) /\ e \in EventType \ E
          BY <3>3, <3>7, <4>4, <4>7, SalesTyped
        <5>2. SalesOf(q, s) = E \cup {e}
          BY <4>4, <4>5, <4>7
        <5>3. AllocatedIn(r, s) = Sum(LAMBDA x : x.allocated, E) /\ GainedIn(r, s) = Sum(LAMBDA x : x.gain, E)
          BY DEF AllocatedIn, GainedIn
        <5> HIDE DEF E
        <5>4. /\ Sum(LAMBDA x : x.allocated, E \cup {e}) = e.allocated + Sum(LAMBDA x : x.allocated, E)
              /\ Sum(LAMBDA x : x.gain, E \cup {e}) = e.gain + Sum(LAMBDA x : x.gain, E)
              /\ Sum(LAMBDA x : x.allocated, E) \in Int /\ Sum(LAMBDA x : x.gain, E) \in Int
          BY <5>1, SaleSums
        <5>5. PICK x \in Int, y \in Int : x = AllocatedIn(r, s) /\ y = GainedIn(r, s)
          BY <5>3, <5>4
        <5>6. AllocatedIn(q, s) = e.allocated + x /\ GainedIn(q, s) = e.gain + y
          BY <5>2, <5>3, <5>4, <5>5 DEF AllocatedIn, GainedIn
        <5>7. x + y = EarnedSum(H, OfSecurity(R, s))
          BY <3>8, <3>11, <5>5
        <5>8. PICK a \in Int, b \in Int : a = e.allocated /\ b = e.gain
          BY <4>4
        <5>9. (a + x) + (b + y) = (a + b) + (x + y)
          OBVIOUS
        <5> QED BY <3>6, <4>4, <4>7, <5>6, <5>7, <5>8, <5>9
      <4> QED BY <4>6, <4>7
    <3> QED BY <3>5, <3>12, <3>13, <3>14
  <2> QED BY <2>2, <2>3
<1>2. Hereditary(Good, H) /\ IsFiniteSet(H)
  BY <1>1 DEF Hereditary, Historical
<1>3. H \in Good
  <2> HIDE DEF Good
  <2> QED BY <1>2, SubsetInduction
<1> QED BY <1>3

-----------------------------------------------------------------------------
\* What one unit of a purchase costs is no less than half a unit in the last
\* place for each unit ever bought.  The code divides with 28 significant
\* digits, so that its averages are this fine for positions up to some 10^19
\* shares; the model says of Ulp only that it is positive.
AveragesFine ==
  \A a \in Accounts, s \in Securities :
    Fine(History(a, s), SharesSum(History(a, s), History(a, s)))

\* What the purchases of one account and security cost is in the position or was
\* taken out.
Balances(H, p, taken) ==
  /\ taken \in Int
  /\ Near((BoughtSum(H, H) - p.cost) - taken, ClosedSum(H, H))
  /\ p.quantity = 0 => p.cost = 0 /\ p.base = 0

LEMMA NothingIsFine ==
  ASSUME NEW H, Historical(H)
  PROVE  Fine(H, 0)
<1>1. SUFFICES ASSUME NEW t \in H PROVE t.quantity * 0 <= 2 * (Acquisition(t) * Ulp)
  BY DEF Fine
<1>2. t.quantity \in Nat /\ Acquisition(t) * Ulp \in Nat
  <2>1. t.quantity \in Nat /\ t.gross \in Nat /\ t.costs \in Nat
    BY RowTyped
  <2>2. PICK acquired \in Nat, unit \in Nat : acquired = Acquisition(t) /\ unit = Ulp
    BY <2>1, PrecisionAssumption DEF Acquisition
  <2>3. acquired * unit \in Nat
    OBVIOUS
  <2> QED BY <2>1, <2>2, <2>3
<1>3. PICK k \in Nat, n \in Nat : k = t.quantity /\ n = Acquisition(t) * Ulp
  BY <1>2
<1>4. k * 0 = 0
  OBVIOUS
<1> QED BY <1>3, <1>4

\* The gains report of an account takes out what its page does not hold.
LEMMA SalesTakeCost ==
  ASSUME Historical(posted), NEW a \in Accounts, NEW s \in Securities, Events(a).ok,
         NEW H, H = History(a, s), NEW p, p = Holding(H, Home[a])
  PROVE  /\ Historical(H) /\ p.ok
         /\ Balances(H, p, Sum(LAMBDA e : e.allocated, EventsOf(a, s)))
<1> DEFINE read == {t \in posted : t.account = a /\ t.kind \in {"BUY", "SELL"} /\ t.day <= LastDay}
           f == [t \in H |-> SoldFor(t)]
<1>1. Events(a) = Report(read, Home[a])
  BY DEF Events, RealizedGainEvents, Report, NoReport
<1>2. EventsOf(a, s) = SalesOf(Events(a), s)
  BY DEF EventsOf, SalesOf
<1>3. Historical(H) /\ OfSecurity(read, s) = Shares(H)
  <2>1. H \in SUBSET posted
    BY DEF History, AllTrades
  <2>2. Historical(H)
    BY <2>1, PartHistorical
  <2>3. OfSecurity(read, s) = Shares(H)
    BY LastDayIsLast DEF OfSecurity, Shares, History, AllTrades
  <2> QED BY <2>2, <2>3
<1>4. p.ok /\ Sum(LAMBDA e : e.gain, EventsOf(a, s)) = p.realized
  <2> DEFINE page == [x \in Securities |-> Holding(History(a, x), Home[a])]
  <2>1. /\ Events(a).ok <=> \A x \in Securities : page[x].ok
        /\ Events(a).ok => \A x \in Securities :
             Sum(LAMBDA e : e.gain, EventsOf(a, x)) = page[x].realized
    BY HistoriesAgree
  <2>2. page[s] = p
    OBVIOUS
  <2> HIDE DEF page
  <2> QED BY <2>1, <2>2
<1>5. AllocatedIn(Events(a), s) + GainedIn(Events(a), s) = EarnedSum(read, OfSecurity(read, s))
  <2>1. Historical(read) /\ \A t \in read : t.kind \in {"BUY", "SELL"}
    BY PartHistorical
  <2> HIDE DEF read
  <2>2. Paid(read, read, Home[a])
    BY <2>1, ReportPaid
  <2> QED BY <1>1, <2>2 DEF Paid
<1>6. EarnedSum(read, OfSecurity(read, s)) = EarnedSum(H, H)
  <2>1. Shares(H) \in SUBSET read /\ Shares(H) \in SUBSET H
    BY <1>3 DEF OfSecurity, Shares
  <2>2. EarnedSum(read, Shares(H)) = Over(f, Shares(H))
    <3> DEFINE g == [t \in read |-> SoldFor(t)]
    <3>1. \A t \in Shares(H) : g[t] = f[t]
      BY <2>1
    <3>2. EarnedSum(read, Shares(H)) = Over(g, Shares(H))
      BY DEF EarnedSum
    <3> HIDE DEF f, g
    <3> QED BY <3>1, <3>2, SumSame
  <2>3. Over(f, H) = Over(f, Shares(H))
    <3>1. IsFiniteSet(H)
      BY <1>3 DEF Historical
    <3>2. \A t \in H : f[t] \in Int
      <4>1. SUFFICES ASSUME NEW t \in H PROVE SoldFor(t) \in Int
        OBVIOUS
      <4>2. NetProceeds(t) * Ulp \in Int
        BY <1>3, WorthTyped
      <4> QED BY <4>2 DEF SoldFor
    <3>3. \A t \in H \ Shares(H) : f[t] = 0
      BY DEF Shares, SoldFor
    <3> HIDE DEF f
    <3> QED BY <2>1, <3>1, <3>2, <3>3, SumSupport
  <2>4. EarnedSum(H, H) = Over(f, H)
    BY DEF EarnedSum
  <2> QED BY <1>3, <2>2, <2>3, <2>4
<1>7. /\ AllocatedIn(Events(a), s) = Sum(LAMBDA e : e.allocated, EventsOf(a, s))
      /\ GainedIn(Events(a), s) = Sum(LAMBDA e : e.gain, EventsOf(a, s))
  BY <1>2 DEF AllocatedIn, GainedIn
<1>8. Sum(LAMBDA e : e.allocated, EventsOf(a, s)) \in Int /\ Sum(LAMBDA e : e.gain, EventsOf(a, s)) \in Int
  <2>1. Events(a) \in ReportType
    <3>1. Historical(read) /\ \A t \in read : t.kind \in {"BUY", "SELL"}
      BY PartHistorical
    <3> HIDE DEF read
    <3> QED BY <1>1, <3>1, ReportUnfolds
  <2>2. EventsOf(a, s) \in SUBSET EventType /\ IsFiniteSet(EventsOf(a, s))
    BY <1>2, <2>1, SalesTyped
  <2> QED BY <2>2, SaleSums
<1>9. CostHeld(p, BoughtSum(H, H), EarnedSum(H, H), ClosedSum(H, H))
  <2>1. Costed(H, H, Home[a], 0)
    <3>1. Fine(H, 0) /\ 0 \in Nat
      BY <1>3, NothingIsFine
    <3> QED BY <1>3, <3>1, HoldingCosted
  <2> QED BY <2>1 DEF Costed
<1> HIDE DEF read, f
<1>10. /\ p.quantity = 0 => p.cost = 0 /\ p.base = 0
       /\ Near(((BoughtSum(H, H) - EarnedSum(H, H)) - p.cost) + p.realized, ClosedSum(H, H))
  BY <1>4, <1>9 DEF CostHeld
<1>11. BoughtSum(H, H) \in Int /\ EarnedSum(H, H) \in Int /\ p.cost \in Int /\ p.realized \in Int
  <2>1. p \in HoldingType
    BY <1>3, HoldingUnfolds
  <2> QED BY <1>3, <2>1, RowSums DEF HoldingType
<1>12. PICK taken \in Int, gained \in Int, bought \in Int, earned \in Int, cost \in Int :
         /\ taken = Sum(LAMBDA e : e.allocated, EventsOf(a, s)) /\ gained = p.realized
         /\ bought = BoughtSum(H, H) /\ earned = EarnedSum(H, H) /\ cost = p.cost
  BY <1>8, <1>11
<1>13. taken + gained = earned
  BY <1>4, <1>5, <1>6, <1>7, <1>12
<1>14. (bought - cost) - taken = ((bought - earned) - cost) + gained
  BY <1>13
<1> QED BY <1>3, <1>4, <1>10, <1>12, <1>14 DEF Balances

\* The sums of the property are the sums over the history.
LEMMA SumsOfHistory ==
  ASSUME NEW H, Historical(H)
  PROVE  /\ Sum(LAMBDA t : IF t.kind = "BUY" THEN Acquisition(t) * Ulp ELSE 0, H) = BoughtSum(H, H)
         /\ Sum(LAMBDA t : t.quantity, {t \in H : t.kind = "SELL" /\ NetThrough(t, H) = 0}) = ClosedSum(H, H)
<1>1. [t \in H |-> IF t.kind = "BUY" THEN Acquisition(t) * Ulp ELSE 0] = [t \in H |-> [u \in H |-> BoughtFor(u)][t]]
  BY DEF BoughtFor
<1>2. {t \in H : t.kind = "SELL" /\ NetThrough(t, H) = 0} = Closing(H) /\ Closing(H) \in SUBSET H
  BY DEF Closing
<1>3. [t \in Closing(H) |-> t.quantity] = [t \in Closing(H) |-> [u \in H |-> u.quantity][t]]
  BY <1>2
<1>4. Sum(LAMBDA t : IF t.kind = "BUY" THEN Acquisition(t) * Ulp ELSE 0, H) = BoughtSum(H, H)
  BY <1>1 DEF Sum, Over, BoughtSum
<1>5. Sum(LAMBDA t : t.quantity, Closing(H)) = ClosedSum(H, H)
  BY <1>3 DEF Sum, Over, ClosedSum
<1> QED BY <1>2, <1>4, <1>5

\* No cost of a purchase is lost or counted twice between a page and the report
\* of the gains: what was bought is in the position or was taken out by a sale,
\* up to half a unit in the last place for each share of a closing sale.
THEOREM CostAlwaysBalanced == Spec => []CostBalanced
<1>1. ASSUME Historical(posted), NEW a \in Accounts, NEW s \in Securities, Events(a).ok,
             NEW H, H = History(a, s), NEW p, p = Holding(H, Home[a]),
             NEW bought, bought = BoughtSum(H, H), NEW taken, taken = Sum(LAMBDA e : e.allocated, EventsOf(a, s)),
             NEW closed, closed = ClosedSum(H, H)
      PROVE  /\ 2 * Abs(bought - p.cost - taken) <= closed
             /\ p.quantity = 0 => p.cost = 0 /\ p.base = 0
  <2>1. Historical(H) /\ Balances(H, p, taken)
    BY <1>1, SalesTakeCost
  <2>2. bought \in Int /\ p.cost \in Int /\ taken \in Int
    <3>1. p \in HoldingType
      BY <1>1, <2>1, HoldingUnfolds
    <3>2. bought \in Int
      BY <1>1, <2>1, RowSums
    <3> QED BY <2>1, <3>1, <3>2 DEF Balances, HoldingType
  <2>3. closed \in Int
    <3>1. H # {} => closed \in Int
      BY <1>1, <2>1, ClosedStep
    <3>2. H = {} => closed = 0
      BY <1>1, <2>1, NothingClosed
    <3> QED BY <3>1, <3>2
  <2>4. PICK n \in Int : n = bought - p.cost - taken
    BY <2>2
  <2>5. Near(n, closed)
    BY <1>1, <2>1, <2>4 DEF Balances
  <2>6. 2 * Abs(n) <= closed
    BY <2>3, <2>5 DEF Near, Abs
  <2> QED BY <2>1, <2>4, <2>6 DEF Balances
<1>2. ASSUME Historical(posted), NEW a \in Accounts, NEW s \in Securities
      PROVE  LET trades == History(a, s)
                 p == Holding(trades, Home[a])
                 closing == {t \in trades : t.kind = "SELL" /\ NetThrough(t, trades) = 0}
                 bought == Sum(LAMBDA t : IF t.kind = "BUY" THEN Acquisition(t) * Ulp ELSE 0, trades)
                 taken == Sum(LAMBDA e : e.allocated, EventsOf(a, s))
             IN  Events(a).ok =>
                   /\ 2 * Abs(bought - p.cost - taken) <= Sum(LAMBDA t : t.quantity, closing)
                   /\ p.quantity = 0 => p.cost = 0 /\ p.base = 0
  <2> DEFINE trades == History(a, s)
             p == Holding(trades, Home[a])
             closing == {t \in trades : t.kind = "SELL" /\ NetThrough(t, trades) = 0}
             bought == Sum(LAMBDA t : IF t.kind = "BUY" THEN Acquisition(t) * Ulp ELSE 0, trades)
             taken == Sum(LAMBDA e : e.allocated, EventsOf(a, s))
             closed == Sum(LAMBDA t : t.quantity, closing)
  <2>1. Historical(trades)
    <3>1. trades \in SUBSET posted
      BY DEF History, AllTrades
    <3> QED BY <1>2, <3>1, PartHistorical
  <2>2. bought = BoughtSum(trades, trades) /\ closed = ClosedSum(trades, trades)
    BY <2>1, SumsOfHistory
  <2>3. SUFFICES ASSUME Events(a).ok
                 PROVE  /\ 2 * Abs(bought - p.cost - taken) <= closed
                        /\ p.quantity = 0 => p.cost = 0 /\ p.base = 0
    OBVIOUS
  <2>4. trades = History(a, s) /\ p = Holding(trades, Home[a])
        /\ taken = Sum(LAMBDA e : e.allocated, EventsOf(a, s))
    OBVIOUS
  <2> HIDE DEF trades, p, closing, bought, taken, closed
  <2> QED BY <1>1, <1>2, <2>2, <2>3, <2>4
<1>3. Historical(posted) => CostBalanced
  BY <1>2 DEF CostBalanced
<1> QED BY <1>3, HistoryStays, PTL

\* And with averages that fine no position costs less than nothing.
THEOREM CostAlwaysConserved == Spec => [](AveragesFine => CostConserved)
<1>1. ASSUME Historical(posted), AveragesFine, NEW a \in Accounts, NEW s \in Securities, Events(a).ok
      PROVE  Holding(History(a, s), Home[a]).cost >= 0
  <2>1. PICK H : H = History(a, s)
    OBVIOUS
  <2>2. PICK p : p = Holding(H, Home[a])
    OBVIOUS
  <2>3. Historical(H) /\ p.ok
    BY <1>1, <2>1, <2>2, SalesTakeCost
  <2>4. PICK shares \in Nat, sold \in Nat : shares = SharesSum(H, H) /\ sold = SoldShares(H, H)
    BY <2>3, RowSums
  <2>5. Fine(H, shares)
    BY <1>1, <2>1, <2>4 DEF AveragesFine
  <2>6. Costed(H, H, Home[a], shares)
    BY <2>3, <2>5, HoldingCosted
  <2>7. CostHeld(p, BoughtSum(H, H), EarnedSum(H, H), ClosedSum(H, H)) /\ CostFloor(p, shares, sold, shares)
    BY <2>2, <2>4, <2>6 DEF Costed
  <2>8. p.quantity \in Nat /\ p.cost \in Int
    <3>1. p \in HoldingType
      BY <2>2, <2>3, HoldingUnfolds
    <3> QED BY <3>1 DEF HoldingType
  <2>9. p.quantity + sold = shares /\ 2 * p.cost + sold >= shares * p.quantity
    BY <2>3, <2>7 DEF CostFloor
  <2>10. CASE p.quantity = 0
    <3>1. p.cost = 0
      BY <2>3, <2>7, <2>10 DEF CostHeld
    <3> QED BY <2>1, <2>2, <3>1
  <2>11. CASE p.quantity # 0
    <3>1. PICK q \in Nat, cost \in Int : q = p.quantity /\ cost = p.cost
      BY <2>8
    <3>2. shares * q >= shares
      <4>1. q >= 1
        BY <2>11, <3>1
      <4>2. shares * q >= shares * 1
        BY <4>1
      <4> QED BY <4>2
    <3>3. PICK m \in Int : m = shares * q
      OBVIOUS
    <3>4. sold <= shares /\ 2 * cost + sold >= m /\ m >= shares
      BY <2>9, <3>1, <3>2, <3>3
    <3> QED BY <2>1, <2>2, <3>1, <3>4
  <2> QED BY <2>1, <2>2, <2>10, <2>11
<1>2. Historical(posted) /\ AveragesFine => CostNeverNegative
  BY <1>1 DEF CostNeverNegative
<1>3. Historical(posted) /\ CostBalanced => (AveragesFine => CostConserved)
  BY <1>2 DEF CostConserved
<1> QED BY <1>3, CostAlwaysBalanced, HistoryStays, PTL
=============================================================================
