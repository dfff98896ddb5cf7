----------------------------- MODULE FoldLemmas -----------------------------
(***************************************************************************)
(* Induction over the naturals and over finite sets, stated with sets in   *)
(* place of predicates, and what the folds of the community modules        *)
(* compute: that a fold exists, and that sums of naturals are monotone.    *)
(***************************************************************************)
EXTENDS Integers, FiniteSetTheorems, WellFoundedInduction, Functions, TLAPS

-----------------------------------------------------------------------------
(* Induction                                                               *)

\* A set of naturals has a least element.
LEMMA LeastNat ==
    ASSUME NEW T, T \subseteq Nat, T # {}
    PROVE  \E n \in T : \A m \in T : n <= m
<1>1. PICK n \in T : \A m \in T : <<m, n>> \notin OpToRel(<, Nat)
  BY NatLessThanWellFounded, WFMin
<1>2. \A m \in T : ~(m < n)
  BY <1>1 DEF OpToRel
<1> QED
  BY <1>2

\* A set that has zero and is closed under successor has all naturals.
LEMMA NatSetInduction ==
    ASSUME NEW T, 0 \in T, \A n \in Nat : n \in T => n + 1 \in T
    PROVE  Nat \subseteq T
<1> SUFFICES ASSUME Nat \ T # {} PROVE FALSE
  OBVIOUS
<1>1. PICK n \in Nat \ T : \A m \in Nat \ T : n <= m
  BY LeastNat
<1>2. n # 0 /\ n - 1 \in Nat /\ (n - 1) + 1 = n
  BY <1>1
<1> QED
  BY <1>1, <1>2

\* One element less.
LEMMA OneLess ==
    ASSUME NEW T, IsFiniteSet(T), NEW x \in T
    PROVE  /\ IsFiniteSet(T \ {x})
           /\ Cardinality(T) \in Nat /\ Cardinality(T \ {x}) \in Nat
           /\ Cardinality(T \ {x}) + 1 = Cardinality(T)
<1>1. /\ IsFiniteSet(T \ {x}) /\ Cardinality(T) \in Nat
      /\ Cardinality(T \ {x}) = Cardinality(T) - 1
  BY FS_CardinalityType, FS_RemoveElement
<1>2. Cardinality(T \ {x}) \in Nat
  BY <1>1, FS_CardinalityType
<1> QED
  BY <1>1, <1>2

\* A family of subsets of a finite set that has the empty set, and every set it
\* has with any one more element, has the whole set.
LEMMA FiniteSetInduction ==
    ASSUME NEW S, IsFiniteSet(S), NEW F, {} \in F,
           \A T \in SUBSET S : \A x \in S \ T : T \in F => T \cup {x} \in F
    PROVE  S \in F
<1> DEFINE N == {n \in Nat : \A T \in SUBSET S : Cardinality(T) = n => T \in F}
<1>1. 0 \in N
  <2> SUFFICES ASSUME NEW T \in SUBSET S, Cardinality(T) = 0 PROVE T \in F
    OBVIOUS
  <2>1. T = {}
    BY FS_Subset, FS_EmptySet
  <2> QED
    BY <2>1
<1>2. ASSUME NEW n \in Nat, n \in N PROVE n + 1 \in N
  <2> SUFFICES ASSUME NEW T \in SUBSET S, Cardinality(T) = n + 1 PROVE T \in F
    OBVIOUS
  <2>1. IsFiniteSet(T) /\ T # {}
    BY FS_Subset, FS_EmptySet
  <2>2. PICK x \in T : TRUE
    BY <2>1
  <2>3. Cardinality(T \ {x}) = n
    <3>1. Cardinality(T \ {x}) \in Nat /\ Cardinality(T \ {x}) + 1 = n + 1
      BY <2>1, <2>2, OneLess
    <3> QED
      BY <3>1
  <2>4. T \ {x} \in F
    BY <1>2, <2>3
  <2>5. (T \ {x}) \cup {x} = T /\ T \ {x} \in SUBSET S /\ x \in S \ (T \ {x})
    BY <2>2
  <2> QED
    BY <2>4, <2>5
<1>3. Nat \subseteq N
  <2> HIDE DEF N
  <2> QED
    BY <1>1, <1>2, NatSetInduction
<1>4. Cardinality(S) \in Nat
  BY FS_CardinalityType
<1> QED
  BY <1>3, <1>4

\* A family of subsets of a finite set that has a set when it has all the sets
\* with one element less has every subset.
LEMMA SubsetInduction ==
    ASSUME NEW S, IsFiniteSet(S), NEW F,
           \A T \in SUBSET S : (\A x \in T : T \ {x} \in F) => T \in F
    PROVE  SUBSET S \subseteq F
<1> DEFINE N == {n \in Nat : \A T \in SUBSET S : Cardinality(T) = n => T \in F}
<1>0. \A T \in SUBSET S : IsFiniteSet(T) /\ Cardinality(T) \in Nat
  BY FS_Subset, FS_CardinalityType
<1>1. 0 \in N
  <2> SUFFICES ASSUME NEW T \in SUBSET S, Cardinality(T) = 0 PROVE T \in F
    OBVIOUS
  <2>1. T = {}
    BY <1>0, FS_EmptySet
  <2> QED
    BY <2>1
<1>2. ASSUME NEW n \in Nat, n \in N PROVE n + 1 \in N
  <2> SUFFICES ASSUME NEW T \in SUBSET S, Cardinality(T) = n + 1 PROVE T \in F
    OBVIOUS
  <2>1. ASSUME NEW x \in T PROVE T \ {x} \in F
    <3>1. Cardinality(T \ {x}) \in Nat /\ Cardinality(T \ {x}) + 1 = n + 1
      BY <1>0, OneLess
    <3>2. Cardinality(T \ {x}) = n
      BY <3>1
    <3> QED
      BY <1>2, <3>2
  <2> QED
    BY <2>1
<1>3. Nat \subseteq N
  <2> HIDE DEF N
  <2> QED
    BY <1>1, <1>2, NatSetInduction
<1> QED
  BY <1>0, <1>3

-----------------------------------------------------------------------------
(* Folds                                                                   *)

\* iter is the recursion over the subsets of S that removes the element pick
\* chooses and applies step to it.
IsFold(iter, S, base, pick, step) ==
    /\ iter[{}] = base
    /\ \A s \in SUBSET S : s # {} => iter[s] = step[pick[s]][iter[s \ {pick[s]}]]

FoldArguments(S, A, base, pick, step) ==
    /\ IsFiniteSet(S)
    /\ base \in A
    /\ \A s \in SUBSET S : s # {} => pick[s] \in s
    /\ \A x \in S, a \in A : step[x][a] \in A

\* Over a finite set, such a recursion defines a function.
LEMMA FoldExists ==
    ASSUME NEW S, NEW A, NEW base, NEW pick, NEW step, FoldArguments(S, A, base, pick, step)
    PROVE  \E iter \in [SUBSET S -> A] : IsFold(iter, S, base, pick, step)
<1> USE DEF FoldArguments
<1> DEFINE Small(n) == {s \in SUBSET S : Cardinality(s) <= n}
           Approximates(g, n) ==
               \A s \in Small(n) :
                   g[s] = IF s = {} THEN base ELSE step[pick[s]][g[s \ {pick[s]}]]
           N == {n \in Nat : \E g \in [SUBSET S -> A] : Approximates(g, n)}
<1>0. ASSUME NEW s \in SUBSET S
      PROVE  /\ Cardinality(s) \in Nat
             /\ Cardinality(s) = 0 => s = {}
             /\ s # {} => /\ s \ {pick[s]} \in SUBSET S
                          /\ Cardinality(s \ {pick[s]}) \in Nat
                          /\ Cardinality(s \ {pick[s]}) + 1 = Cardinality(s)
  <2>1. IsFiniteSet(s)
    BY FS_Subset
  <2>2. Cardinality(s) \in Nat /\ (Cardinality(s) = 0 => s = {})
    BY <2>1, FS_CardinalityType, FS_EmptySet
  <2>3. ASSUME s # {}
        PROVE  /\ s \ {pick[s]} \in SUBSET S
               /\ Cardinality(s \ {pick[s]}) \in Nat
               /\ Cardinality(s \ {pick[s]}) + 1 = Cardinality(s)
    <3>1. pick[s] \in s
      BY <2>3
    <3> HIDE <2>3
    <3> QED
      BY <2>1, <3>1, OneLess
  <2> QED
    BY <2>2, <2>3
<1>1. 0 \in N
  <2> DEFINE g == [s \in SUBSET S |-> base]
  <2>1. g \in [SUBSET S -> A]
    OBVIOUS
  <2>2. ASSUME NEW s \in Small(0) PROVE s = {}
    <3>1. s \in SUBSET S /\ Cardinality(s) <= 0
      OBVIOUS
    <3>2. Cardinality(s) \in Nat /\ (Cardinality(s) = 0 => s = {})
      BY <1>0, <3>1
    <3> QED
      BY <3>1, <3>2
  <2>3. Approximates(g, 0)
    BY <2>2
  <2> QED
    BY <2>1, <2>3
<1>2. ASSUME NEW n \in Nat, n \in N PROVE n + 1 \in N
  <2>1. PICK g \in [SUBSET S -> A] : Approximates(g, n)
    BY <1>2
  <2> DEFINE h == [s \in SUBSET S |-> IF s = {} THEN base ELSE step[pick[s]][g[s \ {pick[s]}]]]
  <2>2. h \in [SUBSET S -> A]
    <3> SUFFICES ASSUME NEW s \in SUBSET S, s # {}
                 PROVE  step[pick[s]][g[s \ {pick[s]}]] \in A
      OBVIOUS
    <3>1. pick[s] \in S /\ g[s \ {pick[s]}] \in A
      BY <1>0
    <3> QED
      BY <3>1
  <2>3. \A s \in Small(n) : h[s] = g[s]
    BY <2>1
  <2>4. ASSUME NEW s \in Small(n + 1)
        PROVE  h[s] = IF s = {} THEN base ELSE step[pick[s]][h[s \ {pick[s]}]]
    <3>1. CASE s = {}
      BY <3>1
    <3>2. CASE s # {}
      <4>1. s \ {pick[s]} \in Small(n)
        <5>1. s \in SUBSET S /\ Cardinality(s) <= n + 1
          OBVIOUS
        <5>2. /\ s \ {pick[s]} \in SUBSET S
              /\ Cardinality(s \ {pick[s]}) \in Nat
              /\ Cardinality(s \ {pick[s]}) + 1 = Cardinality(s)
          BY <1>0, <3>2, <5>1
        <5>3. Cardinality(s \ {pick[s]}) <= n
          <6> DEFINE c == Cardinality(s)
                     d == Cardinality(s \ {pick[s]})
          <6>1. d \in Nat /\ d + 1 = c /\ c <= n + 1
            BY <5>1, <5>2
          <6> HIDE DEF c, d
          <6>2. d <= n
            BY <6>1
          <6> QED
            BY <6>2 DEF d
        <5> QED
          BY <5>2, <5>3
      <4>2. h[s \ {pick[s]}] = g[s \ {pick[s]}]
        BY <2>3, <4>1
      <4> QED
        BY <3>2, <4>2
    <3> QED
      BY <3>1, <3>2
  <2> HIDE DEF h
  <2>5. Approximates(h, n + 1)
    BY <2>4
  <2> HIDE DEF Approximates
  <2>6. \E f \in [SUBSET S -> A] : Approximates(f, n + 1)
    BY <2>2, <2>5
  <2>7. n + 1 \in Nat
    OBVIOUS
  <2> QED
    BY <2>6, <2>7
<1>3. Nat \subseteq N
  <2> HIDE DEF N
  <2> QED
    BY <1>1, <1>2, NatSetInduction
<1>4. Cardinality(S) \in Nat /\ \A s \in SUBSET S : s \in Small(Cardinality(S))
  BY FS_Subset, FS_CardinalityType
<1>5. PICK g \in [SUBSET S -> A] : Approximates(g, Cardinality(S))
  BY <1>3, <1>4
<1>6. \A s \in SUBSET S :
        g[s] = IF s = {} THEN base ELSE step[pick[s]][g[s \ {pick[s]}]]
  BY <1>4, <1>5
<1>7. g[{}] = base
  <2>1. {} \in SUBSET S
    OBVIOUS
  <2> QED
    BY <1>6, <2>1
<1>8. \A s \in SUBSET S : s # {} => g[s] = step[pick[s]][g[s \ {pick[s]}]]
  BY <1>6
<1> QED
  BY <1>7, <1>8 DEF IsFold
-----------------------------------------------------------------------------
(* Folds of sequences                                                      *)

\* The element the left fold of a sequence takes first.
Greatest(T) == CHOOSE x \in T : \A y \in T : x >= y

LEMMA GreatestIn ==
    ASSUME NEW n \in Nat, NEW T \in SUBSET (1..n), T # {}
    PROVE  Greatest(T) \in T /\ \A y \in T : Greatest(T) >= y
<1> DEFINE Above == {m \in Nat : \A y \in T : y <= m}
<1>1. n \in Above
  OBVIOUS
<1>2. PICK m \in Above : \A k \in Above : m <= k
  <2> HIDE DEF Above
  <2>1. Above \subseteq Nat /\ Above # {}
    BY <1>1 DEF Above
  <2> QED
    BY <2>1, LeastNat
<1>3. m \in T
  <2> SUFFICES ASSUME m \notin T PROVE FALSE
    OBVIOUS
  <2>1. m \in Nat /\ \A y \in T : y \in Nat /\ y <= m /\ y # m /\ y >= 1
    BY <1>2
  <2>2. m - 1 \in Nat
    <3>1. PICK y : y \in T
      OBVIOUS
    <3> QED
      BY <2>1, <3>1
  <2>3. \A y \in T : y <= m - 1
    BY <2>1
  <2>4. m - 1 \in Above
    BY <2>2, <2>3
  <2> QED
    BY <1>2, <2>1, <2>4
<1>4. \A y \in T : m >= y
  BY <1>2
<1> QED
  BY <1>3, <1>4 DEF Greatest

\* The recursion a left fold over 1..n is, of base, with step[i][a] what
\* element i makes of a.
IsLeftFold(iter, n, base, step) ==
    /\ iter[{}] = base
    /\ \A T \in SUBSET (1..n) :
          T # {} => iter[T] = step[Greatest(T)][iter[T \ {Greatest(T)}]]

LeftFoldArguments(n, A, base, step) ==
    /\ n \in Nat /\ base \in A
    /\ \A i \in 1..n, a \in A : step[i][a] \in A

LEMMA LeftFoldExists ==
    ASSUME NEW n, NEW A, NEW base, NEW step, LeftFoldArguments(n, A, base, step)
    PROVE  \E iter \in [SUBSET (1..n) -> A] : IsLeftFold(iter, n, base, step)
<1> DEFINE pick == [T \in SUBSET (1..n) |-> Greatest(T)]
<1>1. FoldArguments(1..n, A, base, pick, step)
  <2>1. IsFiniteSet(1..n)
    <3>1. 1 \in Int /\ n \in Int
      BY DEF LeftFoldArguments
    <3> QED
      BY <3>1, FS_Interval
  <2>2. \A T \in SUBSET (1..n) : T # {} => pick[T] \in T
    BY GreatestIn DEF LeftFoldArguments
  <2> HIDE DEF pick
  <2> QED
    BY <2>1, <2>2 DEF FoldArguments, LeftFoldArguments
<1>2. PICK iter \in [SUBSET (1..n) -> A] : IsFold(iter, 1..n, base, pick, step)
  <2> HIDE DEF pick
  <2> QED
    BY <1>1, FoldExists
<1>3. IsLeftFold(iter, n, base, step)
  BY <1>2 DEF IsFold, IsLeftFold
<1> QED
  BY <1>3

\* The first i elements are taken after the first i - 1.
LEMMA GreatestOfFirst ==
    ASSUME NEW n \in Nat, NEW i \in 1..n
    PROVE  /\ Greatest(1..i) = i
           /\ (1..i) \ {i} = 1..i - 1
           /\ 1..i \in SUBSET (1..n)
           /\ 1..i # {}
<1>1. i \in Nat /\ 1..i # {} /\ i \in 1..i
  OBVIOUS
<1>2. Greatest(1..i) \in 1..i /\ \A y \in 1..i : Greatest(1..i) >= y
  BY <1>1, GreatestIn
<1>3. Greatest(1..i) = i
  BY <1>1, <1>2
<1>4. (1..i) \ {i} = 1..i - 1
  OBVIOUS
<1> QED
  BY <1>1, <1>3, <1>4

\* A sequence of values that starts in A and stays in A is in A.
LEMMA RunStays ==
    ASSUME NEW n \in Nat, NEW A, NEW run, run = [i \in 0..n |-> run[i]], run[0] \in A,
           \A i \in 1..n : run[i - 1] \in A => run[i] \in A
    PROVE  run \in [0..n -> A]
<1> DEFINE N == {i \in Nat : i <= n => run[i] \in A}
<1>1. 0 \in N
  OBVIOUS
<1>2. ASSUME NEW i \in Nat, i \in N PROVE i + 1 \in N
  <2>1. i + 1 <= n => i + 1 \in 1..n /\ (i + 1) - 1 = i
    OBVIOUS
  <2>2. ASSUME i + 1 <= n PROVE run[i + 1] \in A
    <3>1. i + 1 \in 1..n /\ (i + 1) - 1 = i /\ i <= n
      BY <2>1, <2>2
    <3>2. run[i] \in A
      BY <1>2, <3>1
    <3>3. run[(i + 1) - 1] \in A => run[i + 1] \in A
      BY <3>1
    <3> QED
      BY <3>1, <3>2, <3>3
  <2> QED
    BY <2>2
<1>3. Nat \subseteq N
  <2> HIDE DEF N
  <2> QED
    BY <1>1, <1>2, NatSetInduction
<1>4. \A i \in 0..n : run[i] \in A
  BY <1>3
<1> QED
  BY <1>4

\* The values of a left fold over the first i elements, for every i.
LEMMA RunOf ==
    ASSUME NEW n \in Nat, NEW iter
    PROVE  LET run == [i \in 0..n |-> iter[1..i]] IN
           /\ run[0] = iter[{}] /\ run[n] = iter[1..n]
           /\ \A i \in 1..n : run[i] = iter[1..i] /\ run[i - 1] = iter[1..i - 1]
<1>1. 1..0 = {} /\ 0 \in 0..n /\ n \in 0..n /\ \A i \in 1..n : i \in 0..n /\ i - 1 \in 0..n
  OBVIOUS
<1> QED
  BY <1>1

-----------------------------------------------------------------------------
(* Sums of naturals                                                        *)

\* The element the folds of functions take first.
First(T) == CHOOSE x \in T : TRUE

\* sum is what the fold over S computes for the sum of f over each subset of S.
Sums(sum, f, S) ==
    /\ sum[{}] = 0
    /\ \A T \in SUBSET S : T # {} => sum[T] = f[First(T)] + sum[T \ {First(T)}]

LEMMA FirstIn == \A T : T # {} => First(T) \in T
BY DEF First

\* There is such a sum, and it is the one of the community module.
LEMMA SumUnfolds ==
    ASSUME NEW f, NEW S, IsFiniteSet(S), \A x \in S : f[x] \in Nat
    PROVE  \E sum : Sums(sum, f, S) /\ SumFunctionOnSet(f, S) = sum[S]
<1> DEFINE pick == [T \in SUBSET S |-> First(T)]
           step == [x \in S |-> [a \in Nat |-> f[x] + a]]
           Rec(h) == [T \in SUBSET S |->
               IF T = {} THEN 0 ELSE f[First(T)] + h[T \ {First(T)}]]
<1>1. \A T \in SUBSET S : T # {} => pick[T] \in T
  BY FirstIn
<1>2. \A x \in S, a \in Nat : step[x][a] \in Nat
  OBVIOUS
<1>3. PICK g \in [SUBSET S -> Nat] : IsFold(g, S, 0, pick, step)
  <2>1. FoldArguments(S, Nat, 0, pick, step)
    BY <1>1, <1>2 DEF FoldArguments
  <2> HIDE DEF pick, step
  <2> QED
    BY <2>1, FoldExists
<1>4. g = Rec(g)
  <2>1. ASSUME NEW T \in SUBSET S, T # {}
        PROVE  g[T] = f[First(T)] + g[T \ {First(T)}]
    <3>1. pick[T] \in S /\ g[T \ {pick[T]}] \in Nat /\ pick[T] = First(T)
      BY <1>1, <2>1
    <3> QED
      BY <1>3, <2>1, <3>1 DEF IsFold
  <2> QED
    BY <1>3, <2>1 DEF IsFold
<1> DEFINE sum == CHOOSE h : h = Rec(h)
<1>5. sum = Rec(sum)
  <2> HIDE DEF Rec
  <2> QED
    BY <1>4
<1>6. SumFunctionOnSet(f, S) = sum[S]
  BY DEF SumFunctionOnSet, FoldFunctionOnSet, MapThenFoldSet, First
<1> HIDE DEF sum
<1>7. Sums(sum, f, S)
  BY <1>5 DEF Sums
<1> QED
  BY <1>6, <1>7

\* The sum of f over a subset does not depend on the set it is a subset of.
LEMMA SumsAgree ==
    ASSUME NEW f, NEW S, IsFiniteSet(S), NEW R \in SUBSET S, NEW sum, NEW other,
           Sums(sum, f, S), Sums(other, f, R)
    PROVE  sum[R] = other[R]
<1> DEFINE F == {T \in SUBSET R : sum[T] = other[T]}
<1>1. IsFiniteSet(R)
  BY FS_Subset
<1>2. ASSUME NEW T \in SUBSET R, \A x \in T : T \ {x} \in F PROVE T \in F
  <2>0. T \in SUBSET S
    OBVIOUS
  <2>1. CASE T = {}
    BY <2>0, <2>1 DEF Sums
  <2>2. CASE T # {}
    <3>1. sum[T \ {First(T)}] = other[T \ {First(T)}]
      BY <1>2, <2>2, FirstIn
    <3>2. sum[T] = f[First(T)] + sum[T \ {First(T)}]
      BY <2>0, <2>2 DEF Sums
    <3>3. other[T] = f[First(T)] + other[T \ {First(T)}]
      BY <2>2 DEF Sums
    <3> QED
      BY <3>1, <3>2, <3>3
  <2> QED
    BY <2>1, <2>2
<1>3. SUBSET R \subseteq F
  <2> HIDE DEF F
  <2> QED
    BY <1>1, <1>2, SubsetInduction
<1> QED
  BY <1>3

LEMMA SumsNat ==
    ASSUME NEW f, NEW S, IsFiniteSet(S), \A x \in S : f[x] \in Nat, NEW sum, Sums(sum, f, S)
    PROVE  \A T \in SUBSET S : sum[T] \in Nat
<1> DEFINE F == {T \in SUBSET S : sum[T] \in Nat}
<1>1. ASSUME NEW T \in SUBSET S, \A x \in T : T \ {x} \in F PROVE T \in F
  <2>1. CASE T = {}
    BY <2>1 DEF Sums
  <2>2. CASE T # {}
    <3>1. PICK y : y \in T /\ y = First(T)
      BY <2>2, FirstIn
    <3>2. sum[T] = f[y] + sum[T \ {y}]
      BY <2>2, <3>1 DEF Sums
    <3>3. f[y] \in Nat /\ sum[T \ {y}] \in Nat
      BY <1>1, <3>1
    <3>4. sum[T] \in Nat
      BY <3>2, <3>3
    <3> QED
      BY <3>4
  <2> QED
    BY <2>1, <2>2
<1>2. SUBSET S \subseteq F
  <2> HIDE DEF F
  <2> QED
    BY <1>1, SubsetInduction
<1> QED
  BY <1>2

\* The order in which elements are taken does not matter.
AnyOrder(sum, f, S) == \A T \in SUBSET S : \A x \in T : sum[T] = f[x] + sum[T \ {x}]

LEMMA SumsAnyOrder ==
    ASSUME NEW f, NEW S, IsFiniteSet(S), \A x \in S : f[x] \in Nat, NEW sum, Sums(sum, f, S)
    PROVE  AnyOrder(sum, f, S)
<1> DEFINE F == {T \in SUBSET S : \A x \in T : sum[T] = f[x] + sum[T \ {x}]}
<1>0. \A T \in SUBSET S : sum[T] \in Nat
  BY SumsNat
<1>1. ASSUME NEW T \in SUBSET S, \A x \in T : T \ {x} \in F, NEW x \in T
      PROVE  sum[T] = f[x] + sum[T \ {x}]
  <2>1. PICK y : y = First(T) /\ y \in T /\ sum[T] = f[y] + sum[T \ {y}]
    BY FirstIn DEF Sums
  <2>2. CASE x = y
    BY <2>1, <2>2
  <2>3. CASE x # y
    <3>1. T \ {x} \in F /\ T \ {y} \in F /\ y \in T \ {x} /\ x \in T \ {y}
      BY <1>1, <2>1, <2>3
    <3>2. PICK r : r = sum[(T \ {y}) \ {x}]
      OBVIOUS
    <3>3. sum[T \ {y}] = f[x] + r
      BY <3>1, <3>2
    <3>4. (T \ {x}) \ {y} = (T \ {y}) \ {x}
      OBVIOUS
    <3>5. sum[T \ {x}] = f[y] + r
      BY <3>1, <3>2, <3>4
    <3>6. r \in Nat /\ f[x] \in Nat /\ f[y] \in Nat
      BY <1>0, <2>1, <3>2
    <3> QED
      BY <2>1, <3>3, <3>5, <3>6
  <2> QED
    BY <2>2, <2>3
<1>2. SUBSET S \subseteq F
  <2>1. \A T \in SUBSET S : (\A x \in T : T \ {x} \in F) => T \in F
    BY <1>1
  <2> HIDE DEF F
  <2> QED
    BY <2>1, SubsetInduction
<1> QED
  BY <1>2 DEF AnyOrder

\* The sum of nothing is zero; a sum is any of its terms and the sum of the others.
LEMMA SumEmpty == \A f : SumFunctionOnSet(f, {}) = 0
<1> TAKE f
<1>1. PICK sum : Sums(sum, f, {}) /\ SumFunctionOnSet(f, {}) = sum[{}]
  <2>1. IsFiniteSet({})
    BY FS_EmptySet
  <2> QED
    BY <2>1, SumUnfolds
<1> QED
  BY <1>1 DEF Sums

LEMMA SumTakes ==
    ASSUME NEW f, NEW S, IsFiniteSet(S), \A x \in S : f[x] \in Nat
    PROVE  /\ SumFunctionOnSet(f, S) \in Nat
           /\ \A x \in S : SumFunctionOnSet(f, S) = f[x] + SumFunctionOnSet(f, S \ {x})
<1>1. PICK sum : Sums(sum, f, S) /\ SumFunctionOnSet(f, S) = sum[S]
  BY SumUnfolds
<1>2. sum[S] \in Nat /\ \A x \in S : sum[S] = f[x] + sum[S \ {x}]
  <2>1. S \in SUBSET S
    OBVIOUS
  <2>2. \A T \in SUBSET S : sum[T] \in Nat
    BY <1>1, SumsNat
  <2>3. AnyOrder(sum, f, S)
    BY <1>1, SumsAnyOrder
  <2> QED
    BY <2>1, <2>2, <2>3 DEF AnyOrder
<1>3. ASSUME NEW x \in S PROVE SumFunctionOnSet(f, S \ {x}) = sum[S \ {x}]
  <2> DEFINE R == S \ {x}
  <2>1. R \in SUBSET S /\ IsFiniteSet(R) /\ \A y \in R : f[y] \in Nat
    BY FS_Subset
  <2> HIDE DEF R
  <2>2. PICK other : Sums(other, f, R) /\ SumFunctionOnSet(f, R) = other[R]
    BY <2>1, SumUnfolds
  <2>3. sum[R] = other[R]
    BY <1>1, <2>1, <2>2, SumsAgree
  <2> QED
    BY <2>2, <2>3 DEF R
<1> QED
  BY <1>1, <1>2, <1>3

\* A sum of naturals is at most a sum of more of them that are no smaller.
LEMMA SumMonotone ==
    ASSUME NEW f, NEW g, NEW S, IsFiniteSet(S), NEW R \in SUBSET S,
           \A x \in S : g[x] \in Nat, \A x \in R : f[x] \in Nat /\ f[x] <= g[x]
    PROVE  SumFunctionOnSet(f, R) <= SumFunctionOnSet(g, S)
<1> DEFINE F == {T \in SUBSET S : SumFunctionOnSet(f, T \cap R) <= SumFunctionOnSet(g, T)}
<1>0. \A T \in SUBSET S : IsFiniteSet(T) /\ IsFiniteSet(T \cap R)
  BY FS_Subset
<1>1. {} \in F
  <2>1. {} \cap R = {} /\ {} \in SUBSET S
    OBVIOUS
  <2> QED
    BY <2>1, SumEmpty
<1>2. ASSUME NEW T \in SUBSET S, NEW x \in S \ T, T \in F PROVE T \cup {x} \in F
  <2> DEFINE U == T \cup {x}
  <2>1. U \in SUBSET S /\ IsFiniteSet(U) /\ IsFiniteSet(U \cap R) /\ x \in U /\ U \ {x} = T
    BY <1>0
  <2>2. /\ SumFunctionOnSet(g, U) = g[x] + SumFunctionOnSet(g, T)
        /\ SumFunctionOnSet(g, T) \in Nat
    <3>1. \A y \in U : g[y] \in Nat
      OBVIOUS
    <3>2. \A y \in T : g[y] \in Nat
      OBVIOUS
    <3>3. IsFiniteSet(T)
      BY <1>0
    <3> HIDE DEF U
    <3> QED
      BY <2>1, <3>1, <3>2, <3>3, SumTakes
  <2>3. SumFunctionOnSet(f, T \cap R) \in Nat
    <3>1. IsFiniteSet(T \cap R) /\ \A y \in T \cap R : f[y] \in Nat
      BY <1>0
    <3> QED
      BY <3>1, SumTakes
  <2>4. CASE x \in R
    <3>1. \A y \in U \cap R : f[y] \in Nat
      OBVIOUS
    <3>2. x \in U \cap R /\ (U \cap R) \ {x} = T \cap R
      BY <2>4
    <3>3. SumFunctionOnSet(f, U \cap R) = f[x] + SumFunctionOnSet(f, T \cap R)
      <4> HIDE DEF U
      <4> QED
        BY <2>1, <3>1, <3>2, SumTakes
    <3>4. f[x] \in Nat /\ g[x] \in Nat /\ f[x] <= g[x]
      BY <2>4
    <3>5. SumFunctionOnSet(f, T \cap R) <= SumFunctionOnSet(g, T)
      BY <1>2
    <3> HIDE DEF U
    <3>6. SumFunctionOnSet(f, U \cap R) <= SumFunctionOnSet(g, U)
      <4>1. PICK a, b, c, d \in Nat :
              /\ a = f[x] /\ b = g[x]
              /\ c = SumFunctionOnSet(f, T \cap R) /\ d = SumFunctionOnSet(g, T)
        BY <2>2, <2>3, <3>4
      <4>2. a + c <= b + d
        BY <3>4, <3>5, <4>1
      <4> QED
        BY <2>2, <3>3, <4>1, <4>2
    <3> QED
      BY <2>1, <3>6 DEF U
  <2>5. CASE x \notin R
    <3>1. U \cap R = T \cap R
      BY <2>5
    <3>2. SumFunctionOnSet(f, T \cap R) <= SumFunctionOnSet(g, T)
      BY <1>2
    <3>3. g[x] \in Nat
      OBVIOUS
    <3> HIDE DEF U
    <3>4. SumFunctionOnSet(f, U \cap R) <= SumFunctionOnSet(g, U)
      <4>1. PICK b, c, d \in Nat :
              b = g[x] /\ c = SumFunctionOnSet(f, T \cap R) /\ d = SumFunctionOnSet(g, T)
        BY <2>2, <2>3, <3>3
      <4>2. c <= b + d
        BY <3>2, <4>1
      <4> QED
        BY <2>2, <3>1, <4>1, <4>2
    <3> QED
      BY <2>1, <3>4 DEF U
  <2> QED
    BY <2>4, <2>5
<1>3. S \in F
  <2> HIDE DEF F
  <2> QED
    BY <1>1, <1>2, FiniteSetInduction
<1>4. S \cap R = R
  OBVIOUS
<1> QED
  BY <1>3, <1>4
=============================================================================
