---------------------------- MODULE TradeDayProofs ----------------------------
(***************************************************************************)
(* TradeFlow implements TradingDay, for every set of symbols and every     *)
(* limit: the running counters of the ledger are what the book adds up to. *)
(*                                                                         *)
(* Sums over a set of symbols are folds of the community modules.  Nothing *)
(* is known of a fold until the function that recurses over the subsets is *)
(* shown to exist; induction on the size of a set does that, by a smallest *)
(* counterexample.                                                         *)
(***************************************************************************)
EXTENDS TradeFlowProofs, FiniteOrder

-----------------------------------------------------------------------------
(* The function behind a fold: its value at a set is that of one of its    *)
(* elements and the rest.                                                  *)

One(T) == CHOOSE x \in T : TRUE
Plus(iter, f, T) == IF T = {} THEN 0 ELSE f[One(T)] + iter[T \ {One(T)}]
Sums(iter, f, S) == iter = [T \in SUBSET S |-> Plus(iter, f, T)]

LEMMA OneIsIn == ASSUME NEW T, T # {} PROVE One(T) \in T
BY DEF One

(* It exists: for sets of at most n elements, from those of less.          *)
LEMMA SumsExist ==
    ASSUME NEW S, IsFiniteSet(S), NEW f, \A x \in S : f[x] \in Int
    PROVE  \E iter : Sums(iter, f, S)
<1> DEFINE Upto(n) == {T \in SUBSET S : Cardinality(T) <= n}
           Good(iter, n) == iter = [T \in Upto(n) |-> Plus(iter, f, T)]
           Bad == {n \in Nat : ~ \E iter : Good(iter, n)}
<1>1. \A T \in SUBSET S : IsFiniteSet(T) /\ Cardinality(T) \in Nat /\ (Cardinality(T) = 0 => T = {})
  BY FS_Subset, FS_CardinalityType, FS_EmptySet
<1>2. \A T \in SUBSET S : T # {} =>
        T \ {One(T)} \in SUBSET S /\ Cardinality(T \ {One(T)}) = Cardinality(T) - 1
  BY <1>1, OneIsIn, FS_RemoveElement
<1>3. ASSUME Bad # {} PROVE FALSE
  <2>1. PICK n \in Bad : \A m \in Bad : n <= m
    BY <1>3, LeastExists
  <2>2. CASE n = 0
    <3> DEFINE iter == [T \in Upto(0) |-> 0]
    <3>1. \A T \in Upto(0) : Plus(iter, f, T) = 0
      BY <1>1 DEF Plus
    <3>2. Good(iter, 0)
      BY <3>1
    <3> QED BY <2>1, <2>2, <3>2
  <2>3. CASE n # 0
    <3>1. n - 1 \in Nat /\ n - 1 \notin Bad
      <4>1. n \in Nat /\ n - 1 \in Nat /\ ~ (n <= n - 1)
        BY <2>3
      <4> HIDE DEF Bad
      <4> QED BY <2>1, <4>1
    <3>2. PICK iter : Good(iter, n - 1)
      BY <3>1
    <3> DEFINE next == [T \in Upto(n) |-> Plus(iter, f, T)]
    <3>3. ASSUME NEW T \in Upto(n) PROVE Plus(next, f, T) = Plus(iter, f, T)
      <4>1. CASE T = {}
        BY <4>1 DEF Plus
      <4>2. CASE T # {}
        <5> DEFINE U == T \ {One(T)}
        <5>1. U \in Upto(n - 1) /\ U \in Upto(n)
          BY <1>1, <1>2, <4>2, <2>1
        <5>2. iter[U] = Plus(iter, f, U)
          BY <3>2, <5>1
        <5>3. next[U] = Plus(iter, f, U)
          BY <5>1
        <5> QED BY <4>2, <5>2, <5>3 DEF Plus
      <4> QED BY <4>1, <4>2
    <3>4. Good(next, n)
      BY <3>3
    <3> QED BY <2>1, <3>4
  <2> QED BY <2>2, <2>3
<1>4. Cardinality(S) \in Nat /\ Upto(Cardinality(S)) = SUBSET S
  BY <1>1, FS_CardinalityType, FS_Subset
<1>5. PICK iter : Good(iter, Cardinality(S))
  BY <1>3, <1>4
<1>6. Sums(iter, f, S)
  BY <1>4, <1>5 DEF Sums
<1> QED BY <1>6

(* The elements may be taken out in any order.                             *)
LEMMA AnyOrder ==
    ASSUME NEW S, IsFiniteSet(S), NEW f, \A x \in S : f[x] \in Int, NEW iter, Sums(iter, f, S)
    PROVE  \A T \in SUBSET S :
             iter[T] \in Int /\ \A x \in T : iter[T] = f[x] + iter[T \ {x}]
<1> DEFINE Fine(T) == iter[T] \in Int /\ \A x \in T : iter[T] = f[x] + iter[T \ {x}]
           Bad == {T \in SUBSET S : ~Fine(T)}
<1>1. \A T \in SUBSET S : iter[T] = Plus(iter, f, T)
  BY DEF Sums
<1>2. ASSUME Bad # {} PROVE FALSE
  <2>0. Bad \subseteq SUBSET S
    OBVIOUS
  <2>1. PICK T \in Bad : \A U \in SUBSET T : U # T => U \notin Bad
    <3> HIDE DEF Bad
    <3> QED BY <1>2, <2>0, SmallestSubset
  <2>2. T \in SUBSET S /\ ~Fine(T) /\ \A U \in SUBSET T : U # T => Fine(U)
    BY <2>1
  <2>3. CASE T = {}
    BY <1>1, <2>2, <2>3 DEF Plus
  <2>4. CASE T # {}
    <3> DEFINE c == One(T)
    <3>1. c \in T /\ iter[T] = f[c] + iter[T \ {c}]
      BY <1>1, <2>2, <2>4, OneIsIn DEF Plus
    <3> HIDE DEF c
    <3>2. ASSUME NEW x \in T PROVE iter[T] = f[x] + iter[T \ {x}]
      <4>1. CASE x = c
        BY <3>1, <4>1
      <4>2. CASE x # c
        <5>1. Fine(T \ {c}) /\ Fine(T \ {x}) /\ x \in T \ {c} /\ c \in T \ {x}
          BY <2>2, <3>1, <4>2
        <5>2. iter[T \ {c}] = f[x] + iter[(T \ {c}) \ {x}]
          BY <5>1
        <5>3. iter[T \ {x}] = f[c] + iter[(T \ {x}) \ {c}]
          BY <5>1
        <5>4. (T \ {c}) \ {x} = (T \ {x}) \ {c}
          OBVIOUS
        <5>5. Fine((T \ {x}) \ {c})
          BY <2>2, <4>2, <3>1
        <5>6. f[x] \in Int /\ f[c] \in Int /\ iter[(T \ {x}) \ {c}] \in Int
          BY <2>2, <3>1, <5>5
        <5>7. iter[T \ {c}] = f[x] + iter[(T \ {x}) \ {c}]
          BY <5>2, <5>4
        <5>8. iter[T] = f[c] + (f[x] + iter[(T \ {x}) \ {c}])
          BY <3>1, <5>7
        <5>9. f[x] + iter[T \ {x}] = f[x] + (f[c] + iter[(T \ {x}) \ {c}])
          BY <5>3
        <5>10. \A p, q, r \in Int : p + (q + r) = q + (p + r)
          OBVIOUS
        <5> QED BY <5>6, <5>8, <5>9, <5>10
      <4> QED BY <4>1, <4>2
    <3>3. iter[T] \in Int
      <4>1. Fine(T \ {c}) /\ f[c] \in Int
        BY <2>2, <3>1
      <4> QED BY <3>1, <4>1
    <3> QED BY <2>2, <3>2, <3>3
  <2> QED BY <2>3, <2>4
<1> QED BY <1>2

(* What agrees on a set sums to the same there.                            *)
LEMMA SameSum ==
    ASSUME NEW S, IsFiniteSet(S), NEW R, NEW f, NEW g, NEW i, NEW j,
           Sums(i, f, S), Sums(j, g, R), NEW W, W \subseteq S, W \subseteq R,
           \A x \in W : f[x] = g[x]
    PROVE  i[W] = j[W]
<1> DEFINE Bad == {T \in SUBSET W : i[T] # j[T]}
<1>0. IsFiniteSet(W)
  BY FS_Subset
<1>1. ASSUME Bad # {} PROVE FALSE
  <2>0. Bad \subseteq SUBSET W
    OBVIOUS
  <2>1. PICK T \in Bad : \A U \in SUBSET T : U # T => U \notin Bad
    <3> HIDE DEF Bad
    <3> QED BY <1>0, <1>1, <2>0, SmallestSubset
  <2>2. T \in SUBSET W /\ i[T] # j[T] /\ \A U \in SUBSET T : U # T => i[U] = j[U]
    BY <2>1
  <2>3. i[T] = Plus(i, f, T) /\ j[T] = Plus(j, g, T)
    BY <2>2 DEF Sums
  <2>4. CASE T = {}
    BY <2>2, <2>3, <2>4 DEF Plus
  <2>5. CASE T # {}
    <3>1. One(T) \in T /\ f[One(T)] = g[One(T)]
      BY <2>2, <2>5, OneIsIn
    <3>2. i[T \ {One(T)}] = j[T \ {One(T)}]
      BY <2>2, <3>1
    <3> QED BY <2>2, <2>3, <2>5, <3>1, <3>2 DEF Plus
  <2> QED BY <2>4, <2>5
<1> QED BY <1>1

(* What is zero outside a set counts only inside.                          *)
LEMMA ZeroOutside ==
    ASSUME NEW S, IsFiniteSet(S), NEW f, \A x \in S : f[x] \in Int, NEW iter, Sums(iter, f, S),
           NEW W, W \subseteq S, \A x \in S \ W : f[x] = 0
    PROVE  iter[S] = iter[W]
<1> DEFINE Bad == {T \in SUBSET S : W \subseteq T /\ iter[T] # iter[W]}
<1>1. ASSUME Bad # {} PROVE FALSE
  <2>0. Bad \subseteq SUBSET S
    OBVIOUS
  <2>1. PICK T \in Bad : \A U \in SUBSET T : U # T => U \notin Bad
    <3> HIDE DEF Bad
    <3> QED BY <1>1, <2>0, SmallestSubset
  <2>2. T # W
    BY <2>1
  <2>3. PICK x \in T : x \notin W
    BY <2>1, <2>2
  <2>4. iter[T] = f[x] + iter[T \ {x}] /\ iter[T \ {x}] \in Int /\ f[x] = 0
    BY <2>1, <2>3, AnyOrder
  <2>5. iter[T \ {x}] = iter[W]
    BY <2>1, <2>3
  <2> QED BY <2>1, <2>4, <2>5
<1> QED BY <1>1

-----------------------------------------------------------------------------
(* Totals.                                                                 *)

Total(f, S) == MapThenSumSet(LAMBDA s : f[s], S)

LEMMA TotalIsSum ==
    ASSUME NEW S, IsFiniteSet(S), NEW f, \A x \in S : f[x] \in Int
    PROVE  \E iter : Sums(iter, f, S) /\ Total(f, S) = iter[S]
<1>1. \E iter : Sums(iter, f, S)
  BY SumsExist
<1> QED BY <1>1 DEF Total, MapThenSumSet, MapThenFoldSet, Sums, Plus, One

LEMMA TotalType ==
    ASSUME NEW S, IsFiniteSet(S), NEW f, \A x \in S : f[x] \in Int PROVE Total(f, S) \in Int
<1>1. PICK iter : Sums(iter, f, S) /\ Total(f, S) = iter[S]
  BY TotalIsSum
<1> QED BY <1>1, AnyOrder

LEMMA TotalZero ==
    ASSUME NEW S, IsFiniteSet(S), NEW f, \A x \in S : f[x] = 0 PROVE Total(f, S) = 0
<1>1. PICK iter : Sums(iter, f, S) /\ Total(f, S) = iter[S]
  BY TotalIsSum
<1>2. iter[S] = iter[{}]
  <2>1. \A x \in S : f[x] \in Int
    OBVIOUS
  <2> QED BY <1>1, <2>1, ZeroOutside
<1>3. iter[{}] = 0
  BY <1>1 DEF Sums, Plus
<1> QED BY <1>1, <1>2, <1>3

(* A total is any one entry and the sum of the others.                     *)
LEMMA TotalSplit ==
    ASSUME NEW S, IsFiniteSet(S), NEW f, \A x \in S : f[x] \in Int, NEW s \in S
    PROVE  \E i : /\ Sums(i, f, S) /\ Total(f, S) = i[S]
                  /\ i[S] = f[s] + i[S \ {s}] /\ i[S \ {s}] \in Int
<1>1. PICK i : Sums(i, f, S) /\ Total(f, S) = i[S]
  BY TotalIsSum
<1>2. \A T \in SUBSET S : i[T] \in Int /\ \A x \in T : i[T] = f[x] + i[T \ {x}]
  <2> SUFFICES ASSUME NEW T \in SUBSET S PROVE i[T] \in Int /\ \A x \in T : i[T] = f[x] + i[T \ {x}]
    OBVIOUS
  <2>1. Sums(i, f, S)
    BY <1>1
  <2> QED BY <2>1, AnyOrder
<1>3. i[S] = f[s] + i[S \ {s}] /\ i[S \ {s}] \in Int
  BY <1>2
<1> QED BY <1>1, <1>3

(* One entry changes, and the total with it.                               *)
LEMMA TotalUpdate ==
    ASSUME NEW S, IsFiniteSet(S), NEW f, NEW g, NEW s \in S,
           \A x \in S : f[x] \in Int, \A x \in S : g[x] \in Int,
           \A x \in S \ {s} : f[x] = g[x]
    PROVE  Total(g, S) = Total(f, S) - f[s] + g[s]
<1>1. PICK i : /\ Sums(i, f, S) /\ Total(f, S) = i[S]
               /\ i[S] = f[s] + i[S \ {s}] /\ i[S \ {s}] \in Int
  BY TotalSplit
<1>2. PICK j : /\ Sums(j, g, S) /\ Total(g, S) = j[S]
               /\ j[S] = g[s] + j[S \ {s}] /\ j[S \ {s}] \in Int
  <2>1. \A x \in S : g[x] \in Int
    OBVIOUS
  <2> QED BY <2>1, TotalSplit
<1>3. i[S \ {s}] = j[S \ {s}]
  BY <1>1, <1>2, SameSum
<1> QED BY <1>1, <1>2, <1>3

(* A part outside which nothing counts has the whole total.                *)
LEMMA TotalOfPart ==
    ASSUME NEW S, IsFiniteSet(S), NEW f, \A x \in S : f[x] \in Int,
           NEW W, W \subseteq S, NEW g, \A x \in W : g[x] = f[x], \A x \in S \ W : f[x] = 0
    PROVE  Total(g, W) = Total(f, S)
<1>0. IsFiniteSet(W) /\ \A x \in W : g[x] \in Int
  BY FS_Subset
<1>1. PICK i : Sums(i, f, S) /\ Total(f, S) = i[S]
  BY TotalIsSum
<1>2. PICK j : Sums(j, g, W) /\ Total(g, W) = j[W]
  BY <1>0, TotalIsSum
<1>3. i[S] = i[W]
  BY <1>1, ZeroOutside
<1>4. i[W] = j[W]
  BY <1>1, <1>2, SameSum
<1> QED BY <1>1, <1>2, <1>3, <1>4

(* The risks of some symbols, where the others have none, are a total.     *)
RiskSum(b, W) == MapThenSumSet(LAMBDA s : b[s].risk, W)

LEMMA RiskTotal ==
    ASSUME NEW W, W \subseteq Symbols, NEW b, NEW f, \A x \in Symbols : f[x] \in Int,
           \A x \in W : b[x].risk = f[x], \A x \in Symbols \ W : f[x] = 0
    PROVE  RiskSum(b, W) = Total(f, Symbols)
<1> DEFINE g == [x \in W |-> f[x]]
           Site(iter) == iter = [T \in SUBSET W |->
                                   IF T = {} THEN 0
                                   ELSE b[CHOOSE x \in T : TRUE].risk
                                          + iter[T \ {CHOOSE x \in T : TRUE}]]
<1>1. IsFiniteSet(Symbols) /\ IsFiniteSet(W)
  BY SymbolsAssumption, FS_Subset
<1>2. (\A x \in W : g[x] \in Int) /\ (\A x \in W : g[x] = f[x]) /\ (\A x \in W : b[x].risk = g[x])
  OBVIOUS
<1>3. Total(g, W) = Total(f, Symbols)
  <2> HIDE DEF g
  <2> QED BY <1>1, <1>2, TotalOfPart
<1> HIDE DEF g
<1>4. PICK j : Sums(j, g, W) /\ Total(g, W) = j[W]
  BY <1>1, <1>2, TotalIsSum
<1>5. \A T \in SUBSET W : T # {} => One(T) \in W
  BY OneIsIn
<1>6. ASSUME NEW iter PROVE Site(iter) <=> Sums(iter, g, W)
  <2>1. \A T \in SUBSET W : Plus(iter, g, T) = IF T = {} THEN 0
                              ELSE b[CHOOSE x \in T : TRUE].risk
                                     + iter[T \ {CHOOSE x \in T : TRUE}]
    BY <1>2, <1>5 DEF Plus, One
  <2> QED BY <2>1 DEF Sums
<1>7. \E iter : Site(iter)
  <2>1. Site(j)
    BY <1>4, <1>6
  <2> HIDE DEF Site
  <2> QED BY <2>1
<1>8. PICK i : Site(i) /\ RiskSum(b, W) = i[W]
  BY <1>7 DEF RiskSum, MapThenSumSet, MapThenFoldSet
<1>9. i[W] = j[W]
  <2>1. Sums(i, g, W)
    BY <1>6, <1>8
  <2> QED BY <1>1, <1>4, <2>1, SameSum
<1> QED BY <1>3, <1>4, <1>8, <1>9

-----------------------------------------------------------------------------
(* The running counters are what they count.                               *)

AddsUp(l) ==
    /\ l.openRisk = Total(l.amts, Symbols)
    /\ l.trades = Total(l.perSymbol, Symbols)

CountersAddUp == AddsUp(ledger)

LEMMA OneEntry ==
    ASSUME NEW f \in [Symbols -> Nat], NEW s \in Symbols, NEW n \in Nat
    PROVE  /\ Total([f EXCEPT ![s] = n], Symbols) = Total(f, Symbols) - f[s] + n
           /\ Total(f, Symbols) \in Int
<1> DEFINE g == [f EXCEPT ![s] = n]
<1>1. /\ \A x \in Symbols : f[x] \in Int
      /\ \A x \in Symbols : g[x] \in Int
      /\ \A x \in Symbols \ {s} : f[x] = g[x]
      /\ g[s] = n
  OBVIOUS
<1> HIDE DEF g
<1>2. Total(g, Symbols) = Total(f, Symbols) - f[s] + g[s]
  BY <1>1, TotalUpdate, SymbolsAssumption
<1>3. Total(f, Symbols) \in Int
  BY <1>1, TotalType, SymbolsAssumption
<1> QED BY <1>1, <1>2, <1>3 DEF g

LEMMA EmptyAddsUp == AddsUp(EmptyLedger)
<1> DEFINE zero == [s \in Symbols |-> 0]
<1>1. \A x \in Symbols : zero[x] = 0
  OBVIOUS
<1>2. /\ EmptyLedger.amts = zero /\ EmptyLedger.perSymbol = zero
      /\ EmptyLedger.openRisk = 0 /\ EmptyLedger.trades = 0
  BY EmptyLedgerFields
<1> HIDE DEF zero
<1>3. Total(zero, Symbols) = 0
  BY <1>1, TotalZero, SymbolsAssumption
<1> QED BY <1>2, <1>3 DEF AddsUp

LEMMA CloseAddsUp ==
    ASSUME NEW l \in Ledgers, NEW s \in Symbols, NEW r \in Int, NEW t \in Nat \X Nat
    PROVE  AddsUp(l) => AddsUp(RecordClose(l, s, r, t))
<1> DEFINE L == RecordClose(l, s, r, t)
<1>1. /\ L \in Ledgers
      /\ L.dirs = [l.dirs EXCEPT ![s] = None]
      /\ L.amts = [l.amts EXCEPT ![s] = 0]
      /\ L.trades = l.trades
      /\ L.perSymbol = l.perSymbol
      /\ L.openRisk = l.openRisk - l.amts[s]
      /\ l.locked => L.locked
  BY CloseFields, Zenon
<1>2. l.amts \in [Symbols -> Nat]
  BY DEF Ledgers
<1> HIDE DEF L
<1> SUFFICES ASSUME AddsUp(l) PROVE AddsUp(L)
  BY DEF L
<1>3. /\ Total([l.amts EXCEPT ![s] = 0], Symbols) = Total(l.amts, Symbols) - l.amts[s] + 0
      /\ Total(l.amts, Symbols) \in Int
  BY <1>2, OneEntry
<1>4. AddsUp(L)
  BY <1>1, <1>2, <1>3 DEF AddsUp
<1> QED BY <1>4 DEF L

LEMMA OpenAddsUp ==
    ASSUME NEW l \in Ledgers, NEW s \in Symbols, NEW amt \in Nat,
           NEW dir \in Directions
    PROVE  AddsUp(l) /\ l.amts[s] = 0 => AddsUp(RecordOpen(l, s, amt, dir))
<1> DEFINE L == RecordOpen(l, s, amt, dir)
<1>1. /\ L \in Ledgers
      /\ L.dirs = [l.dirs EXCEPT ![s] = dir]
      /\ L.amts = [l.amts EXCEPT ![s] = amt]
      /\ L.trades = l.trades + 1
      /\ L.perSymbol = [l.perSymbol EXCEPT ![s] = l.perSymbol[s] + 1]
      /\ L.openRisk = l.openRisk + amt
      /\ L.locked = l.locked
  <2>1. l \in Ledgers /\ amt \in Nat
    OBVIOUS
  <2> QED BY <2>1, OpenFields
<1>2. l.amts \in [Symbols -> Nat] /\ l.perSymbol \in [Symbols -> Nat] /\ l.perSymbol[s] + 1 \in Nat
  BY DEF Ledgers
<1> HIDE DEF L
<1> SUFFICES ASSUME AddsUp(l), l.amts[s] = 0 PROVE AddsUp(L)
  BY DEF L
<1>3. /\ Total([l.amts EXCEPT ![s] = amt], Symbols) = Total(l.amts, Symbols) - l.amts[s] + amt
      /\ Total(l.amts, Symbols) \in Int
  BY <1>2, OneEntry
<1>4. /\ Total([l.perSymbol EXCEPT ![s] = l.perSymbol[s] + 1], Symbols)
           = Total(l.perSymbol, Symbols) - l.perSymbol[s] + (l.perSymbol[s] + 1)
      /\ Total(l.perSymbol, Symbols) \in Int
  BY <1>2, OneEntry
<1>5. L.openRisk = Total(L.amts, Symbols)
  BY <1>1, <1>3 DEF AddsUp
<1>6. L.trades = Total(L.perSymbol, Symbols)
  BY <1>1, <1>2, <1>4 DEF AddsUp
<1> QED BY <1>5, <1>6 DEF AddsUp, L

LEMMA FillAddsUp ==
    ASSUME FInv, CountersAddUp, NEW amt \in RiskAmounts, Fill(amt)
    PROVE  CountersAddUp'
<1> DEFINE dir == pending[sym].plan.dir
<1>1. sym \in Symbols /\ ledger \in Ledgers /\ amt \in Nat /\ dir \in Directions
  <2>1. sym \in Symbols
    BY SymbolInHand DEF Fill, Fills
  <2>2. pending[sym] \in Resting
    BY <2>1 DEF Fill, FInv, TypeOK
  <2> QED BY <2>1, <2>2, AmountsAssumption DEF FInv, TypeOK, Resting, Plans
<1>2. ledger' = RecordOpen(ledger, sym, amt, dir)
  BY DEF Fill
<1>3. ledger.amts[sym] = 0
  <2>1. position[sym] = None
    BY <1>1 DEF Fill, FInv, OneIntent
  <2> QED BY <1>1, <2>1 DEF FInv, LedgerMatchesBook
<1> HIDE DEF dir
<1>4. AddsUp(RecordOpen(ledger, sym, amt, dir))
  BY <1>1, <1>3, OpenAddsUp DEF CountersAddUp
<1> QED BY <1>2, <1>4 DEF CountersAddUp, AddsUp

(* What settling says of a step, whoever settles.                          *)
Settles(s, r) ==
    /\ s \in Symbols /\ r \in Int /\ position[s] # None
    /\ position' = [position EXCEPT ![s] = None]
    /\ \E t \in Nat \X Nat : ledger' = RecordClose(ledger, s, r, t)
    /\ session' = session

(* Every step opens a new date, fills, settles or leaves the book alone.   *)
LEMMA BookCases ==
    ASSUME FInv, Next
    PROVE  \/ \E s \in Symbols, t \in Times : NewDateCandle(s, t)
           \/ \E amt \in RiskAmounts : Fill(amt)
           \/ \E s \in Symbols, r \in Results : Settles(s, r)
           \/ UNCHANGED <<ledger, position, session>>
<1>1. CASE ~BookSteps
  <2>1. session' = session
    BY <1>1 DEF Next, BookSteps, SameDateCandle, FeedEnds, OnM5Close, NoBar, Manage, Revalidate,
                Idle, Hold, Trigger, EntryFlow, ClosesBar, SameSession, NothingFills, PlanDropped,
                NoExit, StoreCandle
  <2> QED BY <1>1, <2>1, OthersLeaveTheBook
<1>2. ASSUME NEW s \in Symbols, NEW r \in Results, ForceClosable(s), session' = session,
             position' = [position EXCEPT ![s] = None],
             ledger' = RecordClose(ledger, s, r, lastTs[s])
      PROVE  Settles(s, r)
  <2>1. lastTs[s] \in Nat \X Nat /\ r \in Int
    BY <1>2, TimesAreNats, AmountsAssumption DEF FInv, TypeOK, ForceClosable
  <2> QED BY <1>2, <2>1 DEF Settles, ForceClosable
<1>3. ASSUME NEW r \in Results, EndSession(r)
      PROVE  (Settles(sym, r) /\ sym \in Symbols) \/ UNCHANGED <<ledger, position, session>>
  <2>1. sym \in Symbols
    BY <1>3, SymbolInHand DEF EndSession, BoundariesDone
  <2> QED BY <1>2, <1>3, <2>1 DEF EndSession
<1>4. ASSUME NEW r \in Results, Exit(r) PROVE Settles(sym, r) /\ sym \in Symbols
  <2>1. sym \in Symbols /\ ts \in Nat \X Nat /\ r \in Int
    BY <1>4, SymbolInHand, TimesAreNats, AmountsAssumption DEF Exit, StoreCandle
  <2> QED BY <1>4, <2>1 DEF Exit, StoreCandle, Settles
<1>5. ASSUME NEW s \in Symbols, NEW r \in Results, Finalize(s, r)
      PROVE  Settles(s, r) \/ UNCHANGED <<ledger, position, session>>
  BY <1>2, <1>5 DEF Finalize
<1> QED BY <1>1, <1>3, <1>4, <1>5 DEF BookSteps

LEMMA CountersInit == Init => CountersAddUp
BY EmptyAddsUp DEF Init, CountersAddUp

LEMMA CountersStep == FInv /\ CountersAddUp /\ [Next]_vars => CountersAddUp'
<1> SUFFICES ASSUME FInv, CountersAddUp, [Next]_vars PROVE CountersAddUp'
  OBVIOUS
<1>1. ASSUME NEW l, AddsUp(l), ledger' = l PROVE CountersAddUp'
  BY <1>1 DEF CountersAddUp, AddsUp
<1>2. CASE ledger' = ledger
  BY <1>1, <1>2 DEF CountersAddUp
<1>3. ASSUME NEW s \in Symbols, NEW t \in Times, NewDateCandle(s, t) PROVE CountersAddUp'
  BY <1>1, <1>3, EmptyAddsUp DEF NewDateCandle
<1>4. ASSUME NEW amt \in RiskAmounts, Fill(amt) PROVE CountersAddUp'
  BY <1>4, FillAddsUp
<1>5. ASSUME NEW s \in Symbols, NEW r \in Results, Settles(s, r) PROVE CountersAddUp'
  <2>1. PICK t \in Nat \X Nat : ledger' = RecordClose(ledger, s, r, t)
    BY <1>5 DEF Settles
  <2>2. r \in Int /\ ledger \in Ledgers
    BY AmountsAssumption DEF FInv, TypeOK
  <2>3. AddsUp(RecordClose(ledger, s, r, t))
    BY <2>2, CloseAddsUp DEF CountersAddUp
  <2> QED BY <1>1, <2>1, <2>3
<1> QED BY <1>2, <1>3, <1>4, <1>5, BookCases DEF vars

-----------------------------------------------------------------------------
(* The book itself.                                                        *)

LEMMA BookRisk ==
    ASSUME FInv, CountersAddUp, NEW W, W = {s \in Symbols : position[s] # None}, NEW b,
           \A s \in W : b[s].risk = position[s].risk
    PROVE  RiskSum(b, W) = ledger.openRisk
<1>1. ledger.amts \in [Symbols -> Nat]
  BY DEF FInv, TypeOK, Ledgers
<1>2. /\ \A x \in Symbols : ledger.amts[x] \in Int
      /\ \A x \in W : b[x].risk = ledger.amts[x]
      /\ \A x \in Symbols \ W : ledger.amts[x] = 0
      /\ W \subseteq Symbols
  BY <1>1 DEF FInv, LedgerMatchesBook
<1>3. RiskSum(b, W) = Total(ledger.amts, Symbols)
  BY <1>2, RiskTotal
<1> QED BY <1>3 DEF CountersAddUp, AddsUp

(* The running heat is the risk of the open positions.                     *)
THEOREM HeatIsOpenRiskThm == Spec => []HeatIsOpenRisk
<1>1. FInv /\ CountersAddUp => HeatIsOpenRisk
  <2> SUFFICES ASSUME FInv, CountersAddUp PROVE HeatIsOpenRisk
    OBVIOUS
  <2> DEFINE W == {s \in Symbols : position[s] # None}
  <2>1. RiskSum(position, W) = ledger.openRisk
    BY BookRisk
  <2> QED BY <2>1 DEF HeatIsOpenRisk, RiskSum
<1>2. Init => CountersAddUp
  BY CountersInit
<1>3. FInv /\ CountersAddUp /\ [Next]_vars => CountersAddUp'
  BY CountersStep
<1> QED BY <1>1, <1>2, <1>3, Invariant, PTL DEF Spec

-----------------------------------------------------------------------------
(* The refinement.                                                         *)

LEMMA BookEntries ==
    ASSUME TypeOK, NEW s \in Symbols
    PROVE  /\ Book[s] = None <=> position[s] = None
           /\ position[s] # None =>
                Book[s].dir = position[s].plan.dir /\ Book[s].risk = position[s].risk
<1>1. CASE position[s] = None
  BY <1>1 DEF Book
<1>2. CASE position[s] # None
  <2>1. position[s] \in Positions
    BY <1>2 DEF TypeOK
  <2>2. position[s].plan.dir \in Directions /\ position[s].risk \in RiskAmounts
    BY <2>1 DEF Positions, Plans
  <2>3. [dir |-> position[s].plan.dir, risk |-> position[s].risk] # None
    BY <2>2, NoneApartAssumption
  <2>4. Book[s] = [dir |-> position[s].plan.dir, risk |-> position[s].risk]
    BY <1>2 DEF Book
  <2> QED BY <1>2, <2>3, <2>4
<1> QED BY <1>1, <1>2

(* A fill opens a position inside the caps, read off the book.             *)
LEMMA FillOpens ==
    ASSUME FInv, CountersAddUp, NEW amt \in RiskAmounts, Fill(amt)
    PROVE  Day!DNext
<1> DEFINE dir == pending[sym].plan.dir
           Held == {s \in Symbols : position[s] # None}
<1>1. /\ sym \in Symbols /\ ledger \in Ledgers /\ amt \in Nat /\ dir \in Directions /\ TypeOK
      /\ pending[sym].plan \in Plans /\ ts \in Times
  <2>1. sym \in Symbols /\ ts \in Times
    BY SymbolInHand DEF Fill, Fills
  <2>2. pending[sym] \in Resting
    BY <2>1 DEF Fill, FInv, TypeOK
  <2> QED BY <2>1, <2>2, AmountsAssumption DEF FInv, TypeOK, Resting, Plans
<1>2. BudgetAllows(ledger, sym, dir, ts) /\ session' = session
  BY DEF Fill
<1>3. position[sym] = None
  BY <1>1 DEF Fill, FInv, OneIntent
<1>4. /\ ledger' = RecordOpen(ledger, sym, amt, dir)
      /\ position' = [position EXCEPT ![sym] =
                        [plan |-> pending[sym].plan, opened |-> ts, risk |-> amt]]
  BY DEF Fill
<1>5. /\ ledger'.perSymbol = [ledger.perSymbol EXCEPT ![sym] = @ + 1]
      /\ ledger'.locked = ledger.locked
  BY <1>1, <1>4 DEF RecordOpen, Ledgers
<1>6. Book' = [Book EXCEPT ![sym] = [dir |-> dir, risk |-> amt]]
  <2> DEFINE new == [plan |-> pending[sym].plan, opened |-> ts, risk |-> amt]
  <2>1. new \in Positions
    BY <1>1 DEF Positions
  <2>2. new # None /\ new.plan.dir = dir /\ new.risk = amt
    BY <2>1, NoneApartAssumption
  <2>3. position' = [s \in Symbols |-> IF s = sym THEN new ELSE position[s]]
    BY <1>1, <1>4 DEF TypeOK
  <2> HIDE DEF new, dir
  <2> QED BY <1>1, <2>2, <2>3 DEF Book
<1>7. Day!Held = Held
  BY <1>1, BookEntries DEF Day!Held
<1>8. Day!Heat = ledger.openRisk
  <2>1. RiskSum(Book, Held) = ledger.openRisk
    <3>1. \A s \in Held : Book[s].risk = position[s].risk
      BY <1>1, BookEntries
    <3> QED BY <3>1, BookRisk
  <2>2. Day!Heat = RiskSum(Book, Day!Held)
    BY DEF Day!Heat, RiskSum, MapThenSumSet, MapThenFoldSet, Day!MapThenSumSet, Day!MapThenFoldSet
  <2> QED BY <1>7, <2>1, <2>2
<1>9. Day!Count = ledger.trades
  <2>1. Day!Count = Total(ledger.perSymbol, Symbols)
    BY DEF Day!Count, Total, MapThenSumSet, MapThenFoldSet, Day!MapThenSumSet, Day!MapThenFoldSet
  <2> QED BY <2>1 DEF CountersAddUp, AddsUp
<1>10. {p \in Day!Held : Book[p].dir = dir} = SameWay(ledger.dirs, dir)
  <2>1. \A p \in Symbols : ledger.dirs[p] = dir <=> position[p] # None /\ position[p].plan.dir = dir
    BY <1>1, NoneAssumption DEF FInv, LedgerMatchesBook
  <2>2. \A p \in Held : Book[p].dir = position[p].plan.dir
    BY <1>1, BookEntries
  <2> QED BY <1>7, <2>1, <2>2 DEF SameWay
<1>11. Day!Cardinality(SameWay(ledger.dirs, dir)) = Cardinality(SameWay(ledger.dirs, dir))
  BY DEF Day!Cardinality, Cardinality
<1>12. /\ ~ledger.locked /\ ledger.trades < MaxTrades /\ ledger.perSymbol[sym] < MaxPerStock
       /\ ledger.openRisk + Budget <= HeatCap
       /\ Cardinality(SameWay(ledger.dirs, dir)) < MaxCorrelated
  BY <1>2 DEF BudgetAllows
<1>13. Book[sym] = None
  BY <1>1, <1>3, BookEntries
<1> HIDE DEF dir
<1>14. Day!Open(sym, dir, amt)
  BY <1>2, <1>5, <1>6, <1>8, <1>9, <1>10, <1>11, <1>12, <1>13 DEF Day!Open
<1> QED BY <1>1, <1>14 DEF Day!DNext, Day!Directions, Directions, dir

LEMMA SettlesADay ==
    ASSUME FInv, NEW s \in Symbols, NEW r \in Results, Settles(s, r)
    PROVE  Day!DNext
<1>1. PICK t \in Nat \X Nat : ledger' = RecordClose(ledger, s, r, t)
  BY DEF Settles
<1>2. r \in Int /\ ledger \in Ledgers /\ TypeOK
  BY AmountsAssumption DEF FInv, TypeOK
<1>3. /\ ledger' \in Ledgers
      /\ ledger'.dirs = [ledger.dirs EXCEPT ![s] = None]
      /\ ledger'.amts = [ledger.amts EXCEPT ![s] = 0]
      /\ ledger'.trades = ledger.trades
      /\ ledger'.perSymbol = ledger.perSymbol
      /\ ledger'.openRisk = ledger.openRisk - ledger.amts[s]
      /\ ledger.locked => ledger'.locked
  <2> DEFINE L == RecordClose(ledger, s, r, t)
  <2>1. /\ L \in Ledgers
        /\ L.dirs = [ledger.dirs EXCEPT ![s] = None]
        /\ L.amts = [ledger.amts EXCEPT ![s] = 0]
        /\ L.trades = ledger.trades
        /\ L.perSymbol = ledger.perSymbol
        /\ L.openRisk = ledger.openRisk - ledger.amts[s]
        /\ ledger.locked => L.locked
    BY <1>2, CloseFields, Zenon
  <2> HIDE DEF L
  <2>2. ledger' = L
    BY <1>1 DEF L
  <2> QED BY <2>1, <2>2, Zenon
<1>4. ledger'.locked \in {ledger.locked, TRUE}
  <2>1. ledger.locked \in BOOLEAN /\ ledger'.locked \in BOOLEAN
    BY <1>2, <1>3 DEF Ledgers
  <2> QED BY <1>3, <2>1
<1>5. Book' = [Book EXCEPT ![s] = None]
  <2>1. position' = [p \in Symbols |-> IF p = s THEN None ELSE position[p]]
    BY <1>2 DEF Settles, TypeOK
  <2> QED BY <2>1 DEF Book
<1>6. Book[s] # None /\ session' = session
  BY <1>2, BookEntries DEF Settles
<1>7. Day!Settle(s)
  BY <1>3, <1>4, <1>5, <1>6 DEF Day!Settle
<1> QED BY <1>7 DEF Day!DNext

LEMMA StartsADay ==
    ASSUME FInv, NEW s \in Symbols, NEW t \in Times, NewDateCandle(s, t)
    PROVE  Day!DNext
<1>1. position' = [p \in Symbols |-> None]
  BY NewDateIsFlat
<1>2. ledger' = EmptyLedger /\ session' # session
  BY DEF NewDateCandle
<1>3. Book' = [p \in Symbols |-> None]
  BY <1>1 DEF Book
<1>4. ledger'.perSymbol = [p \in Symbols |-> 0] /\ ledger'.locked = FALSE
  BY <1>2 DEF EmptyLedger
<1>5. Day!NewDate
  BY <1>2, <1>3, <1>4 DEF Day!NewDate
<1> QED BY <1>5 DEF Day!DNext

(* The running counters keep the promises a book alone would keep: every   *)
(* step of the loop is a step of the trading day or leaves it as it is.    *)
THEOREM ImplementsTradingDayThm == Spec => ImplementsTradingDay
<1>1. Init => CountersAddUp
  BY CountersInit
<1>2. FInv /\ CountersAddUp /\ [Next]_vars => CountersAddUp'
  BY CountersStep
<1>3. Init => Day!DInit
  BY DEF Init, Day!DInit, Book, EmptyLedger
<1>4. FInv /\ CountersAddUp /\ [Next]_vars => [Day!DNext]_(Day!dvars)
  <2> SUFFICES ASSUME FInv, CountersAddUp, [Next]_vars
               PROVE  Day!DNext \/ UNCHANGED Day!dvars
    OBVIOUS
  <2>1. CASE UNCHANGED <<ledger, position, session>>
    BY <2>1 DEF Day!dvars, Book
  <2>2. CASE Next /\ ~ UNCHANGED <<ledger, position, session>>
    BY <2>2, FillOpens, SettlesADay, StartsADay, BookCases
  <2>3. CASE UNCHANGED vars
    BY <2>1, <2>3 DEF vars, trading
  <2> QED BY <2>1, <2>2, <2>3
<1> QED BY <1>1, <1>2, <1>3, <1>4, Invariant, PTL DEF Spec, ImplementsTradingDay, Day!DSpec
=============================================================================
