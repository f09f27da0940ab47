----------------------------- MODULE FiniteOrder -----------------------------
(***************************************************************************)
(* What the proofs of several components need of finite sets of numbers,   *)
(* and of induction.  The induction theorems of the library take an        *)
(* operator; here the induction hypothesis is a set, and the argument a    *)
(* smallest counterexample.                                                *)
(***************************************************************************)
EXTENDS Integers, FiniteSetsExt, FiniteSetTheorems, WellFoundedInduction, TLAPS

LEMMA LeastExists ==
    ASSUME NEW T, T \subseteq Nat, T # {} PROVE \E x \in T : \A y \in T : x <= y
<1> DEFINE R == OpToRel(<, Nat)
<1>1. IsWellFoundedOn(R, Nat)
  BY NatLessThanWellFounded
<1>2. \A x, y \in Nat : y < x => <<y, x>> \in R
  BY DEF OpToRel
<1> HIDE DEF R
<1>3. PICK x \in T : \A y \in T : ~ (<<y, x>> \in R)
  BY <1>1, WFMin
<1>4. ASSUME NEW y \in T PROVE x <= y
  <2>1. ~ (y < x)
    BY <1>2, <1>3
  <2> QED BY <2>1
<1> QED BY <1>4

(* Of some bad subsets, one has no bad proper subset.                      *)
LEMMA SmallestSubset ==
    ASSUME NEW S, IsFiniteSet(S), NEW Bad, Bad \subseteq SUBSET S, Bad # {}
    PROVE  \E T \in Bad : \A U \in SUBSET T : U # T => U \notin Bad
<1> DEFINE Sizes == {Cardinality(T) : T \in Bad}
<1>1. \A T \in Bad : IsFiniteSet(T) /\ Cardinality(T) \in Nat
  BY FS_Subset, FS_CardinalityType
<1>2. Sizes \subseteq Nat /\ Sizes # {}
  BY <1>1
<1>3. PICK n \in Sizes : \A m \in Sizes : n <= m
  <2> HIDE DEF Sizes
  <2> QED BY <1>2, LeastExists
<1>4. PICK T \in Bad : Cardinality(T) = n
  BY <1>3
<1>5. ASSUME NEW U \in SUBSET T, U # T, U \in Bad PROVE FALSE
  <2>1. /\ IsFiniteSet(T) /\ Cardinality(T) \in Nat
        /\ Cardinality(U) \in Nat /\ Cardinality(U) \in Sizes
    BY <1>1, <1>4, <1>5
  <2>2. Cardinality(U) < Cardinality(T)
    BY <1>5, <2>1, FS_Subset
  <2>3. n <= Cardinality(U)
    BY <1>3, <2>1
  <2> QED BY <1>2, <1>4, <2>1, <2>2, <2>3
<1> QED BY <1>5

LEMMA SubsetInduction ==
    ASSUME NEW S, IsFiniteSet(S), NEW Good,
           \A T \in SUBSET S : (\A U \in SUBSET T : U # T => U \in Good) => T \in Good
    PROVE  \A T \in SUBSET S : T \in Good
<1> DEFINE Bad == {T \in SUBSET S : T \notin Good}
<1>1. ASSUME Bad # {} PROVE FALSE
  <2>0. Bad \subseteq SUBSET S
    OBVIOUS
  <2>1. PICK T \in Bad : \A U \in SUBSET T : U # T => U \notin Bad
    <3> HIDE DEF Bad
    <3> QED BY <1>1, <2>0, SmallestSubset
  <2>2. \A U \in SUBSET T : U # T => U \in Good
    BY <2>1
  <2> QED BY <2>1, <2>2
<1> QED BY <1>1

(* Induction: a set of numbers with 0 and every successor has them all.    *)
LEMMA SetInduction ==
    ASSUME NEW T, 0 \in T, \A n \in Nat : n \in T => n + 1 \in T
    PROVE  Nat \subseteq T
<1> DEFINE Bad == {n \in Nat : n \notin T}
<1>1. ASSUME Bad # {} PROVE FALSE
  <2>1. PICK n \in Bad : \A m \in Bad : n <= m
    BY <1>1, LeastExists
  <2>2. n # 0 /\ n - 1 \in Nat /\ n - 1 \notin Bad
    BY <2>1
  <2> QED BY <2>1, <2>2
<1> QED BY <1>1

(* A finite set of integers has a least and a greatest element: otherwise  *)
(* take the smallest set without.                                          *)
Bounded(S) ==
    /\ \E x \in S : \A y \in S : x <= y
    /\ \E x \in S : \A y \in S : x >= y

LEMMA FiniteIsBounded ==
    ASSUME NEW S, S \subseteq Int, IsFiniteSet(S), S # {} PROVE Bounded(S)
<1> DEFINE Bad == {n \in Nat : \E T \in SUBSET Int : /\ IsFiniteSet(T) /\ T # {} /\ ~Bounded(T)
                                                     /\ Cardinality(T) = n}
<1>1. ASSUME Bad # {} PROVE FALSE
  <2>1. PICK n \in Bad : \A m \in Bad : n <= m
    BY <1>1, LeastExists
  <2>2. PICK T \in SUBSET Int : IsFiniteSet(T) /\ T # {} /\ ~Bounded(T) /\ Cardinality(T) = n
    BY <2>1
  <2>3. PICK c \in T : TRUE
    BY <2>2
  <2>4. /\ IsFiniteSet(T \ {c}) /\ Cardinality(T \ {c}) = n - 1 /\ T \ {c} \in SUBSET Int
        /\ Cardinality(T \ {c}) \in Nat
    BY <2>2, <2>3, FS_RemoveElement, FS_CardinalityType
  <2>5. CASE T \ {c} = {}
    <3>1. T = {c} /\ c \in Int
      BY <2>3, <2>5
    <3> QED BY <2>2, <3>1 DEF Bounded
  <2>6. CASE T \ {c} # {}
    <3>1. n - 1 \notin Bad /\ n - 1 \in Nat
      <4>1. n \in Nat /\ n - 1 \in Nat /\ ~(n <= n - 1)
        BY <2>1, <2>4
      <4> HIDE DEF Bad
      <4> QED BY <2>1, <4>1
    <3>2. Bounded(T \ {c})
      BY <2>4, <2>6, <3>1
    <3>3. PICK a \in T \ {c} : \A y \in T \ {c} : a <= y
      BY <3>2 DEF Bounded
    <3>4. PICK b \in T \ {c} : \A y \in T \ {c} : b >= y
      BY <3>2 DEF Bounded
    <3>5. a \in Int /\ b \in Int /\ c \in Int /\ \A y \in T : y \in Int /\ (y = c \/ y \in T \ {c})
      BY <2>3
    <3>6. \E x \in T : \A y \in T : x <= y
      <4>1. CASE a <= c
        BY <3>3, <3>5, <4>1
      <4>2. CASE c <= a
        BY <2>3, <3>3, <3>5, <4>2
      <4> QED BY <3>5, <4>1, <4>2
    <3>7. \E x \in T : \A y \in T : x >= y
      <4>1. CASE b >= c
        BY <3>4, <3>5, <4>1
      <4>2. CASE c >= b
        BY <2>3, <3>4, <3>5, <4>2
      <4> QED BY <3>5, <4>1, <4>2
    <3> QED BY <2>2, <3>6, <3>7 DEF Bounded
  <2> QED BY <2>5, <2>6
<1>2. Cardinality(S) \in Nat
  BY FS_CardinalityType
<1> QED BY <1>1, <1>2

(* So its Min and Max are what their names say.                            *)
LEMMA MinMax ==
    ASSUME NEW S, S \subseteq Int, IsFiniteSet(S), S # {}
    PROVE  /\ Min(S) \in S /\ \A y \in S : Min(S) <= y
           /\ Max(S) \in S /\ \A y \in S : Max(S) >= y
<1>1. Bounded(S)
  BY FiniteIsBounded
<1> QED BY <1>1 DEF Bounded, Min, Max

(* What a function takes a finite set to is finite.                        *)
LEMMA ImageIsFinite ==
    ASSUME NEW S, IsFiniteSet(S), NEW f
    PROVE  IsFiniteSet({f[x] : x \in S})
<1> DEFINE T == {f[x] : x \in S}
           g == [x \in S |-> f[x]]
<1>1. g \in Surjection(S, T)
  BY DEF Surjection
<1> QED BY <1>1, FS_Surjection

LEMMA PairExtremes ==
    ASSUME NEW a \in Int, NEW b \in Int
    PROVE  /\ Min({a, b}) \in {a, b} /\ Min({a, b}) <= a /\ Min({a, b}) <= b
           /\ Max({a, b}) \in {a, b} /\ Max({a, b}) >= a /\ Max({a, b}) >= b
<1>1. \E x \in {a, b} : \A y \in {a, b} : x <= y
  OBVIOUS
<1>2. \E x \in {a, b} : \A y \in {a, b} : x >= y
  OBVIOUS
<1> QED BY <1>1, <1>2 DEF Min, Max

(* By three numbers, one after the other, something comes first.           *)
Precedes(a, b, c, x, y) ==
    a[x] < a[y] \/ (a[x] = a[y] /\ (b[x] < b[y] \/ (b[x] = b[y] /\ c[x] <= c[y])))

LEMMA FirstExists ==
    ASSUME NEW S, IsFiniteSet(S), S # {}, NEW a, NEW b, NEW c,
           \A x \in S : a[x] \in Int /\ b[x] \in Int /\ c[x] \in Int
    PROVE  \E x \in S : \A y \in S : Precedes(a, b, c, x, y)
<1>1. ASSUME NEW T, T \subseteq S, T # {}, NEW f, \A x \in S : f[x] \in Int
      PROVE  \E x \in T : \A y \in T : f[x] <= f[y]
  <2> DEFINE V == {f[x] : x \in T}
  <2>1. IsFiniteSet(T)
    BY <1>1, FS_Subset
  <2>2. IsFiniteSet(V)
    BY <2>1, ImageIsFinite
  <2>3. V \subseteq Int /\ V # {}
    BY <1>1
  <2>4. Min(V) \in V /\ \A y \in V : Min(V) <= y
    <3> HIDE DEF V
    <3> QED BY <2>2, <2>3, MinMax
  <2>5. PICK x \in T : Min(V) = f[x]
    BY <2>4
  <2> QED BY <2>4, <2>5
<1> DEFINE A == {x \in S : \A y \in S : a[x] <= a[y]}
           B == {x \in A : \A y \in A : b[x] <= b[y]}
<1>2. A # {}
  BY <1>1
<1>3. A \subseteq S
  OBVIOUS
<1>4. B # {}
  <2> HIDE DEF A
  <2> QED BY <1>1, <1>2, <1>3
<1>5. B \subseteq S
  OBVIOUS
<1>6. PICK x \in B : \A y \in B : c[x] <= c[y]
  <2> HIDE DEF B
  <2> QED BY <1>1, <1>4, <1>5
<1>7. ASSUME NEW y \in S PROVE Precedes(a, b, c, x, y)
  <2>1. a[x] <= a[y] /\ x \in S
    BY <1>6
  <2>2. ASSUME a[x] = a[y] PROVE y \in A /\ b[x] <= b[y]
    <3>1. y \in A
      BY <1>6, <2>2
    <3> QED BY <1>6, <3>1
  <2>3. ASSUME a[x] = a[y], b[x] = b[y] PROVE c[x] <= c[y]
    <3>1. y \in A
      BY <2>2, <2>3
    <3>2. y \in B
      BY <1>6, <2>3, <3>1
    <3> QED BY <1>6, <3>2
  <2>4. \A n \in {a[x], a[y], b[x], b[y], c[x], c[y]} : n \in Int
    BY <2>1
  <2> QED BY <2>1, <2>2, <2>3, <2>4 DEF Precedes
<1> QED BY <1>6, <1>7

(* A fold over a finite set exists: g[x][v] is what x makes of v, and      *)
(* pick[T] is the element of T that is folded in last.                     *)
Folded(iter, pick, base, g, T) ==
    IF T = {} THEN base ELSE g[pick[T]][iter[T \ {pick[T]}]]
IsFold(iter, D, pick, base, g) == iter = [T \in SUBSET D |-> Folded(iter, pick, base, g, T)]

LEMMA FoldExists ==
    ASSUME NEW D, IsFiniteSet(D), NEW V, NEW base, base \in V,
           NEW g, \A x \in D : \A v \in V : g[x][v] \in V,
           NEW pick, \A T \in SUBSET D : T # {} => pick[T] \in T
    PROVE  \E iter : IsFold(iter, D, pick, base, g) /\ \A T \in SUBSET D : iter[T] \in V
<1> DEFINE Upto(n) == {T \in SUBSET D : Cardinality(T) <= n}
           Good(iter, n) == iter = [T \in Upto(n) |-> Folded(iter, pick, base, g, T)]
                            /\ \A T \in Upto(n) : iter[T] \in V
           Bad == {n \in Nat : ~ \E iter : Good(iter, n)}
<1>1. \A T \in SUBSET D : IsFiniteSet(T) /\ Cardinality(T) \in Nat /\ (Cardinality(T) = 0 => T = {})
  BY FS_Subset, FS_CardinalityType, FS_EmptySet
<1>2. \A T \in SUBSET D : T # {} =>
        T \ {pick[T]} \in SUBSET D /\ Cardinality(T \ {pick[T]}) = Cardinality(T) - 1
  BY <1>1, FS_RemoveElement
<1>3. ASSUME Bad # {} PROVE FALSE
  <2>1. PICK n \in Bad : \A m \in Bad : n <= m
    BY <1>3, LeastExists
  <2>2. CASE n = 0
    <3> DEFINE iter == [T \in Upto(0) |-> base]
    <3>1. \A T \in Upto(0) : Folded(iter, pick, base, g, T) = base
      BY <1>1 DEF Folded
    <3>2. Good(iter, 0)
      BY <3>1
    <3> QED BY <2>1, <2>2, <3>2
  <2>3. CASE n # 0
    <3>1. n - 1 \in Nat /\ n - 1 \notin Bad
      <4>1. n \in Nat /\ n - 1 \in Nat /\ ~ (n <= n - 1)
        BY <2>3
      <4> HIDE DEF Bad
      <4> QED BY <2>1, <4>1
    <3>2. PICK iter : Good(iter, n - 1)
      BY <3>1
    <3> DEFINE next == [T \in Upto(n) |-> Folded(iter, pick, base, g, T)]
    <3>3. ASSUME NEW T \in Upto(n)
          PROVE  /\ Folded(next, pick, base, g, T) = Folded(iter, pick, base, g, T)
                 /\ Folded(iter, pick, base, g, T) \in V
      <4>1. CASE T = {}
        BY <4>1 DEF Folded
      <4>2. CASE T # {}
        <5> DEFINE U == T \ {pick[T]}
        <5>1. U \in Upto(n - 1) /\ U \in Upto(n)
          BY <1>1, <1>2, <4>2, <2>1
        <5>2. iter[U] = Folded(iter, pick, base, g, U) /\ iter[U] \in V
          BY <3>2, <5>1
        <5>3. next[U] = Folded(iter, pick, base, g, U)
          BY <5>1
        <5>4. pick[T] \in D
          BY <4>2
        <5> HIDE DEF next, U
        <5>5. next[U] = iter[U] /\ g[pick[T]][iter[U]] \in V
          BY <5>2, <5>3, <5>4
        <5>6. /\ Folded(iter, pick, base, g, T) = g[pick[T]][iter[U]]
              /\ Folded(next, pick, base, g, T) = g[pick[T]][next[U]]
          BY <4>2 DEF Folded, U
        <5> QED BY <5>5, <5>6
      <4> QED BY <4>1, <4>2
    <3>4. Good(next, n)
      BY <3>3
    <3> QED BY <2>1, <3>4
  <2> QED BY <2>2, <2>3
<1>4. Cardinality(D) \in Nat /\ Upto(Cardinality(D)) = SUBSET D
  BY <1>1, FS_CardinalityType, FS_Subset
<1>5. PICK iter : Good(iter, Cardinality(D))
  BY <1>3, <1>4
<1>6. IsFold(iter, D, pick, base, g) /\ \A T \in SUBSET D : iter[T] \in V
  BY <1>4, <1>5 DEF IsFold
<1> QED BY <1>6
=============================================================================
