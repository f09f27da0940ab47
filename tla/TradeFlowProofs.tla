--------------------------- MODULE TradeFlowProofs ---------------------------
(***************************************************************************)
(* Proofs about TradeFlow for every set of symbols, every clock and every  *)
(* limit.                                                                  *)
(***************************************************************************)
EXTENDS TradeFlow, FiniteSetTheorems, TLAPS

-----------------------------------------------------------------------------
(* The ledger's operations, field by field.                                *)

LEMMA EmptyLedgerFields ==
    /\ EmptyLedger \in Ledgers
    /\ EmptyLedger.dirs = [s \in Symbols |-> None] /\ EmptyLedger.amts = [s \in Symbols |-> 0]
    /\ EmptyLedger.trades = 0 /\ EmptyLedger.perSymbol = [s \in Symbols |-> 0]
    /\ EmptyLedger.openRisk = 0
BY DEF EmptyLedger, Ledgers

LEMMA OpenFields ==
    ASSUME NEW l \in Ledgers, NEW s \in Symbols, NEW amt \in Nat, NEW dir \in Directions
    PROVE  /\ RecordOpen(l, s, amt, dir) \in Ledgers
           /\ RecordOpen(l, s, amt, dir).dirs = [l.dirs EXCEPT ![s] = dir]
           /\ RecordOpen(l, s, amt, dir).amts = [l.amts EXCEPT ![s] = amt]
           /\ RecordOpen(l, s, amt, dir).trades = l.trades + 1
           /\ RecordOpen(l, s, amt, dir).perSymbol = [l.perSymbol EXCEPT ![s] = @ + 1]
           /\ RecordOpen(l, s, amt, dir).openRisk = l.openRisk + amt
           /\ RecordOpen(l, s, amt, dir).locked = l.locked
<1>1. RecordOpen(l, s, amt, dir) \in Ledgers
  <2>1. /\ l.trades + 1 \in Nat /\ l.openRisk + amt \in Int
        /\ [l.perSymbol EXCEPT ![s] = @ + 1] \in [Symbols -> Nat]
        /\ [l.dirs EXCEPT ![s] = dir] \in [Symbols -> {None} \cup Directions]
        /\ [l.amts EXCEPT ![s] = amt] \in [Symbols -> Nat]
        /\ l.losses \in Nat /\ l.pnl \in Int /\ l.lastClose \in {None} \cup (Nat \X Nat)
    BY DEF Ledgers
  <2>2. l.locked \in BOOLEAN
    BY DEF Ledgers
  <2> QED BY <2>1, <2>2 DEF RecordOpen, Ledgers
<1>2. /\ RecordOpen(l, s, amt, dir).dirs = [l.dirs EXCEPT ![s] = dir]
      /\ RecordOpen(l, s, amt, dir).amts = [l.amts EXCEPT ![s] = amt]
  BY DEF RecordOpen, Ledgers
<1>3. /\ RecordOpen(l, s, amt, dir).trades = l.trades + 1
      /\ RecordOpen(l, s, amt, dir).perSymbol = [l.perSymbol EXCEPT ![s] = @ + 1]
  BY DEF RecordOpen, Ledgers
<1>4. RecordOpen(l, s, amt, dir).openRisk = l.openRisk + amt
  BY DEF RecordOpen, Ledgers
<1>5. RecordOpen(l, s, amt, dir).locked = l.locked
  BY DEF RecordOpen, Ledgers
<1> QED BY <1>1, <1>2, <1>3, <1>4, <1>5

LEMMA CloseFields ==
    ASSUME NEW l \in Ledgers, NEW s \in Symbols, NEW r \in Int, NEW t \in Nat \X Nat
    PROVE  /\ RecordClose(l, s, r, t) \in Ledgers
           /\ RecordClose(l, s, r, t).dirs = [l.dirs EXCEPT ![s] = None]
           /\ RecordClose(l, s, r, t).amts = [l.amts EXCEPT ![s] = 0]
           /\ RecordClose(l, s, r, t).trades = l.trades
           /\ RecordClose(l, s, r, t).perSymbol = l.perSymbol
           /\ RecordClose(l, s, r, t).openRisk = l.openRisk - l.amts[s]
           /\ l.locked => RecordClose(l, s, r, t).locked
<1> DEFINE losses == IF r < 0 THEN l.losses + 1 ELSE 0
           pnl == l.pnl + r
           locked == \/ l.locked
                     \/ losses >= LossStop
                     \/ pnl * PerTradePct <= -DailyLossPct
                     \/ pnl >= ProfitLock
           l2 == [l EXCEPT !.openRisk = l.openRisk - l.amts[s],
                           !.amts = [l.amts EXCEPT ![s] = 0], !.dirs = [l.dirs EXCEPT ![s] = None],
                           !.lastClose = t, !.pnl = pnl, !.losses = losses, !.locked = locked]
<1>1. losses \in Nat /\ pnl \in Int
  BY DEF Ledgers
<1>2. locked \in BOOLEAN /\ (l.locked => locked)
  OBVIOUS
<1>3. l2 = RecordClose(l, s, r, t)
  BY DEF RecordClose, Ledgers
<1> HIDE DEF losses, pnl, locked
<1>4. l2 \in Ledgers
  <2>1. /\ l.trades \in Nat /\ l.openRisk - l.amts[s] \in Int
        /\ l.perSymbol \in [Symbols -> Nat]
        /\ [l.dirs EXCEPT ![s] = None] \in [Symbols -> {None} \cup Directions]
        /\ [l.amts EXCEPT ![s] = 0] \in [Symbols -> Nat]
    BY DEF Ledgers
  <2> QED BY <1>1, <1>2, <2>1 DEF Ledgers
<1>5. /\ l2.dirs = [l.dirs EXCEPT ![s] = None] /\ l2.amts = [l.amts EXCEPT ![s] = 0]
      /\ l2.trades = l.trades /\ l2.perSymbol = l.perSymbol
      /\ l2.openRisk = l.openRisk - l.amts[s]
  BY DEF Ledgers
<1>6. l2.locked = locked
  BY DEF Ledgers
<1> QED BY <1>2, <1>3, <1>4, <1>5, <1>6

LEMMA TimesAreNats == Times \subseteq Nat \X Nat /\ Times \subseteq Clock
BY ClockAssumption DEF Times, Dates, Minutes, Clock

LEMMA BucketBound == ASSUME NEW m \in Minutes PROVE Bucket(m) \in 0 .. m
BY ClockAssumption, SMTT(20) DEF Bucket, Minutes

-----------------------------------------------------------------------------
(* What the steps have in common.                                          *)

(* The boundary being closed has a time.                                   *)
LEMMA BoundaryIsATime ==
    ASSUME FInv, BoundaryOpen
    PROVE  sym \in Symbols /\ ts \in Times /\ now \in Clock /\ lastTs[sym] \in Times
<1>1. sym \in Symbols /\ ts \in Times
  BY DEF FInv, CandleInHand, BoundaryOpen, sym, ts
<1>2. lastTs[sym] \in Times
  BY <1>1 DEF FInv, TypeOK, BoundaryOpen
<1>3. lastTs[sym][1] \in Dates /\ ts[2] \in Minutes
  BY <1>1, <1>2 DEF Times
<1>4. LastBoundary \in Int /\ LastBoundary <= SessionMinutes
  <2>1. Bucket(ts[2]) \in 0 .. ts[2]
    BY <1>3, BucketBound
  <2> QED BY <1>3, <2>1, ClockAssumption DEF LastBoundary, Minutes
<1>5. boundary \in 0 .. SessionMinutes
  BY <1>4, ClockAssumption DEF FInv, TypeOK, BoundaryOpen
<1> QED BY <1>1, <1>2, <1>3, <1>5 DEF now, Clock

(* Intents are plans.                                                      *)
LEMMA IntentsArePlans ==
    ASSUME FInv, BoundaryOpen PROVE Intents \subseteq Plans
<1>1. sym \in Symbols /\ now \in Clock
  BY BoundaryIsATime
<1> QED BY <1>1 DEF Intents, Plans, FInv, TypeOK

(* A settled symbol leaves a typed ledger.                                 *)
LEMMA SettledLedger ==
    ASSUME TypeOK, NEW s \in Symbols, NEW r \in Results, ForceClosable(s)
    PROVE  RecordClose(ledger, s, r, lastTs[s]) \in Ledgers
<1>1. lastTs[s] \in Nat \X Nat
  BY TimesAreNats DEF TypeOK, ForceClosable
<1> QED BY <1>1, CloseFields, AmountsAssumption DEF TypeOK

-----------------------------------------------------------------------------
(* The variables keep their types.                                         *)

LEMMA CandleType ==
    ASSUME FInv, NEW s \in Symbols, NEW t \in Times, SameDateCandle(s, t) \/ NewDateCandle(s, t)
    PROVE  TypeOK'
<1>1. candle' \in [sym : Symbols, ts : Times] /\ stage' = "close"
  BY DEF SameDateCandle, NewDateCandle, Comes
<1>2. boundary' \in 0 .. SessionMinutes + BarMinutes
  <2>1. CASE lastTs[s] = None
    BY <2>1, ClockAssumption DEF SameDateCandle, NewDateCandle, Comes
  <2>2. CASE lastTs[s] # None
    <3>1. lastTs[s][2] \in Minutes
      BY <2>2 DEF FInv, TypeOK, Times
    <3>2. Bucket(lastTs[s][2]) \in 0 .. lastTs[s][2]
      BY <3>1, BucketBound
    <3>3. boundary' = Bucket(lastTs[s][2]) + BarMinutes
      BY <2>2 DEF SameDateCandle, NewDateCandle, Comes
    <3> QED BY <3>1, <3>2, <3>3, ClockAssumption DEF Minutes
  <2> QED BY <2>1, <2>2
<1>3. session' \in {None} \cup Dates /\ ledger' \in Ledgers
  BY EmptyLedgerFields DEF SameDateCandle, NewDateCandle, FInv, TypeOK, Times
<1>4. position' \in [Symbols -> {None} \cup Positions]
  BY DEF SameDateCandle, NewDateCandle, FInv, TypeOK
<1>5. exits' \in [Symbols -> BOOLEAN]
  <2>1. CASE exits' = exits
    BY <2>1 DEF FInv, TypeOK
  <2>2. CASE exits' = [p \in Symbols |-> Stranded(p)]
    BY <2>2 DEF Stranded
  <2> QED BY <2>1, <2>2 DEF SameDateCandle, NewDateCandle
<1> QED BY <1>1, <1>2, <1>3, <1>4, <1>5
        DEF SameDateCandle, NewDateCandle, Comes, FInv, TypeOK, market

LEMMA BoundaryType ==
    ASSUME FInv, OnM5Close PROVE TypeOK'
<1>1. BoundaryOpen
  BY DEF OnM5Close, NoBar, Manage, Revalidate, Idle, EntryFlow, ClosesBar
<1>2. sym \in Symbols /\ now \in Clock
  BY <1>1, BoundaryIsATime
<1>3. boundary' \in 0 .. SessionMinutes + BarMinutes
  <2>1. boundary' = boundary + BarMinutes /\ boundary <= LastBoundary
    BY <1>1 DEF OnM5Close, NoBar, Manage, Revalidate, Idle, Hold, Trigger, EntryFlow, ClosesBar,
                BoundaryOpen
  <2>2. boundary \in 0 .. SessionMinutes
    BY <1>2, <1>1, BoundaryIsATime DEF now, Clock
  <2> QED BY <2>1, <2>2, ClockAssumption
<1>4. UNCHANGED <<stage, candle, session, ledger, market, position, finalized>>
  BY DEF OnM5Close, NoBar, Manage, Revalidate, Idle, Hold, Trigger, EntryFlow, ClosesBar, trading
<1>5. day' \in [Symbols -> {None} \cup 0 .. LastDate]
  BY <1>2 DEF OnM5Close, NoBar, Manage, Revalidate, Idle, Hold, Trigger, EntryFlow, ClosesBar,
              trading, FInv, TypeOK
<1>6. exits' \in [Symbols -> BOOLEAN]
  BY <1>2 DEF OnM5Close, NoBar, Manage, Revalidate, Idle, Hold, Trigger, EntryFlow, trading,
              FInv, TypeOK
<1>7. fsm' \in [Symbols -> {None} \cup Plans] /\ pending' \in [Symbols -> {None} \cup Resting]
  <2>1. CASE NoBar \/ Manage \/ Revalidate \/ Idle
    BY <1>2, <2>1 DEF NoBar, Manage, Revalidate, Idle, trading, FInv, TypeOK
  <2>2. ASSUME NEW plan \in Intents, Hold(plan) \/ Trigger(plan)
        PROVE  /\ fsm' \in [Symbols -> {None} \cup Plans]
               /\ pending' \in [Symbols -> {None} \cup Resting]
    <3>1. plan \in Plans /\ [plan |-> plan, since |-> now] \in Resting
      BY <1>1, <1>2, IntentsArePlans DEF Resting
    <3> QED BY <1>2, <2>2, <3>1 DEF Hold, Trigger, FInv, TypeOK
  <2> QED BY <2>1, <2>2 DEF OnM5Close
<1> QED BY <1>3, <1>4, <1>5, <1>6, <1>7 DEF FInv, TypeOK, market

(* EndSession, _fill_pending, _run_exits and the store.                    *)
LEMMA ArrivalType ==
    ASSUME FInv,
           \/ SameSession \/ NothingFills \/ PlanDropped \/ NoExit
           \/ \E r \in Results : EndSession(r) \/ Exit(r)
           \/ \E amt \in RiskAmounts : Fill(amt)
    PROVE  TypeOK'
<1>1. sym \in Symbols /\ ts \in Times /\ ts \in Nat \X Nat
  BY TimesAreNats
     DEF FInv, CandleInHand, SameSession, NothingFills, PlanDropped, NoExit, EndSession, Exit, Fill,
         BoundariesDone, Fills, StoreCandle, sym, ts
<1> USE <1>1 DEF FInv
<1>2. CASE SameSession
  BY <1>2 DEF SameSession, TypeOK, market, trading
<1>3. CASE NothingFills
  BY <1>3 DEF NothingFills, Fills, TypeOK, market, trading
<1>4. CASE PlanDropped
  BY <1>4 DEF PlanDropped, Fills, TypeOK, market
<1>5. ASSUME NEW r \in Results, EndSession(r) PROVE TypeOK'
  <2>1. ledger' \in Ledgers
    BY <1>5, SettledLedger DEF EndSession, TypeOK
  <2>2. exits' \in [Symbols -> BOOLEAN]
    <3>1. Stranded(sym) \in BOOLEAN
      BY DEF Stranded
    <3> QED BY <1>5, <3>1 DEF EndSession, TypeOK
  <2>3. position' \in [Symbols -> {None} \cup Positions]
    BY <1>5 DEF EndSession, TypeOK
  <2> QED BY <1>5, <2>1, <2>2, <2>3 DEF EndSession, TypeOK, market
<1>6. ASSUME NEW amt \in RiskAmounts, Fill(amt) PROVE TypeOK'
  <2>1. pending[sym] \in Resting
    BY <1>6 DEF Fill, TypeOK
  <2>2. amt \in Nat /\ pending[sym].plan \in Plans /\ pending[sym].plan.dir \in Directions
    BY <2>1, AmountsAssumption DEF Resting, Plans
  <2>3. ledger' \in Ledgers
    BY <1>6, <2>2, OpenFields DEF Fill, TypeOK
  <2>4. [plan |-> pending[sym].plan, opened |-> ts, risk |-> amt] \in Positions
    BY <2>2 DEF Positions
  <2>5. position' \in [Symbols -> {None} \cup Positions]
    BY <1>6, <2>4 DEF Fill, TypeOK
  <2> QED BY <1>6, <2>3, <2>5 DEF Fill, Fills, TypeOK, market
<1>7. ASSUME StoreCandle
      PROVE  /\ lastTs' \in [Symbols -> {None} \cup Times]
             /\ members' \in [Symbols -> Nat]
             /\ barDate' \in [Symbols -> {None} \cup 0 .. LastDate]
  <2>1. lastTs' \in [Symbols -> {None} \cup Times]
    BY <1>7 DEF StoreCandle, TypeOK
  <2>2. members' \in [Symbols -> Nat]
    BY <1>7 DEF StoreCandle, TypeOK
  <2>3. ts[1] \in 0 .. LastDate
    BY DEF Times, Dates
  <2> QED BY <1>7, <2>1, <2>2, <2>3 DEF StoreCandle, TypeOK
<1>8. CASE NoExit
  <2>1. exits' \in [Symbols -> BOOLEAN]
    <3>1. (exits[sym] /\ OtherDate) \in BOOLEAN
      OBVIOUS
    <3> QED BY <1>8, <3>1 DEF NoExit, TypeOK
  <2> QED BY <1>7, <1>8, <2>1 DEF NoExit, StoreCandle, TypeOK
<1>9. ASSUME NEW r \in Results, Exit(r) PROVE TypeOK'
  <2>1. ledger' \in Ledgers
    BY <1>9, CloseFields, AmountsAssumption DEF Exit, TypeOK
  <2>2. exits' \in [Symbols -> BOOLEAN]
    BY <1>9 DEF Exit, TypeOK
  <2> QED BY <1>7, <1>9, <2>1, <2>2 DEF Exit, StoreCandle, TypeOK
<1> QED BY <1>2, <1>3, <1>4, <1>5, <1>6, <1>8, <1>9

LEMMA FeedEndType ==
    ASSUME FInv, FeedEnds \/ \E s \in Symbols, r \in Results : Finalize(s, r)
    PROVE  TypeOK'
<1>1. CASE FeedEnds
  BY <1>1 DEF FeedEnds, FInv, TypeOK, market, trading
<1>2. ASSUME NEW s \in Symbols, NEW r \in Results, Finalize(s, r) PROVE TypeOK'
  <2>1. ledger' \in Ledgers
    BY <1>2, SettledLedger DEF Finalize, FInv, TypeOK
  <2>2. exits' \in [Symbols -> BOOLEAN]
    <3>1. Stranded(s) \in BOOLEAN
      BY DEF Stranded
    <3> QED BY <1>2, <3>1 DEF Finalize, FInv, TypeOK
  <2>3. position' \in [Symbols -> {None} \cup Positions]
    BY <1>2 DEF Finalize, FInv, TypeOK
  <2> QED BY <1>2, <2>1, <2>2, <2>3 DEF Finalize, FInv, TypeOK, market
<1> QED BY <1>1, <1>2

-----------------------------------------------------------------------------
(* Only five steps touch the ledger and the book, and always both.         *)

BookSteps ==
    \/ \E s \in Symbols, t \in Times : NewDateCandle(s, t)
    \/ \E r \in Results : EndSession(r) \/ Exit(r)
    \/ \E amt \in RiskAmounts : Fill(amt)
    \/ \E s \in Symbols, r \in Results : Finalize(s, r)

LEMMA OthersLeaveTheBook ==
    ASSUME Next, ~BookSteps PROVE UNCHANGED <<ledger, position>>
BY DEF Next, BookSteps, SameDateCandle, FeedEnds, OnM5Close, NoBar, Manage, Revalidate, Idle, Hold,
       Trigger, EntryFlow, ClosesBar, SameSession, NothingFills, PlanDropped, NoExit, trading

HeldWay(d) == {s \in Symbols : position[s] # None /\ position[s].plan.dir = d}

(* Settling one symbol keeps ledger and book in step and inside the caps.  *)
LEMMA SettleKeepsBook ==
    ASSUME TypeOK, LedgerMatchesBook, CapsHold,
           NEW s \in Symbols, NEW r \in Int, NEW t \in Nat \X Nat,
           position' = [position EXCEPT ![s] = None],
           ledger' = RecordClose(ledger, s, r, t)
    PROVE  LedgerMatchesBook' /\ CapsHold'
<1>1. /\ ledger'.dirs = [ledger.dirs EXCEPT ![s] = None]
      /\ ledger'.amts = [ledger.amts EXCEPT ![s] = 0]
      /\ ledger'.trades = ledger.trades /\ ledger'.perSymbol = ledger.perSymbol
      /\ ledger'.openRisk = ledger.openRisk - ledger.amts[s]
  <2> DEFINE L == RecordClose(ledger, s, r, t)
  <2>1. ledger \in Ledgers
    BY DEF TypeOK
  <2>2. /\ L.dirs = [ledger.dirs EXCEPT ![s] = None]
        /\ L.amts = [ledger.amts EXCEPT ![s] = 0]
        /\ L.trades = ledger.trades /\ L.perSymbol = ledger.perSymbol
        /\ L.openRisk = ledger.openRisk - ledger.amts[s]
    BY <2>1, CloseFields
  <2>3. ledger' = L
    OBVIOUS
  <2> HIDE DEF L
  <2> QED BY <2>2, <2>3
<1>2. /\ ledger.dirs \in [Symbols -> {None} \cup Directions] /\ ledger.amts \in [Symbols -> Nat]
      /\ ledger.openRisk \in Int
  BY DEF TypeOK, Ledgers
<1>3. LedgerMatchesBook'
  BY <1>1, <1>2 DEF LedgerMatchesBook, TypeOK
<1>4. ledger'.openRisk <= HeatCap
  BY <1>1, <1>2, LimitsAssumption DEF CapsHold
<1>5. ASSUME NEW d \in Directions PROVE Cardinality(HeldWay(d)') <= MaxCorrelated
  <2>1. HeldWay(d)' \subseteq HeldWay(d) /\ IsFiniteSet(HeldWay(d))
    <3>1. IsFiniteSet(HeldWay(d))
      BY SymbolsAssumption, FS_Subset DEF HeldWay
    <3> QED BY <3>1 DEF HeldWay, TypeOK
  <2>2. Cardinality(HeldWay(d)') <= Cardinality(HeldWay(d)) /\ Cardinality(HeldWay(d)') \in Nat
    BY <2>1, FS_Subset, FS_CardinalityType
  <2>3. Cardinality(HeldWay(d)) <= MaxCorrelated /\ Cardinality(HeldWay(d)) \in Nat
    BY <2>1, FS_CardinalityType DEF CapsHold, HeldWay
  <2> QED BY <2>2, <2>3, LimitsAssumption
<1> QED BY <1>1, <1>3, <1>4, <1>5 DEF CapsHold, HeldWay

(* A new date starts with an empty book: everything open could be priced.  *)
LEMMA NewDateIsFlat ==
    ASSUME FInv, NEW s \in Symbols, NEW t \in Times, NewDateCandle(s, t)
    PROVE  position' = [p \in Symbols |-> None]
<1>1. ASSUME NEW p \in Symbols PROVE position'[p] = None
  <2>1. stage = "feed"
    BY DEF NewDateCandle, Comes
  <2>2. position[p] # None => session # None /\ ForceClosable(p)
    <3> SUFFICES ASSUME position[p] # None PROVE session # None /\ ForceClosable(p)
      OBVIOUS
    <3>1. position[p].opened[1] = session /\ lastTs[p] # None /\ lastTs[p][1] = session
      BY <2>1 DEF FInv, PositionsPriced
    <3>2. position[p].opened \in Times
      BY DEF FInv, TypeOK, Positions
    <3>3. session \in 0 .. LastDate
      BY <3>1, <3>2 DEF Times, Dates
    <3> QED BY <3>1, <3>3, NoneApartAssumption DEF ForceClosable
  <2> QED BY <2>2 DEF NewDateCandle
<1> QED BY <1>1 DEF NewDateCandle

LEMMA OneMore ==
    ASSUME NEW S, IsFiniteSet(S), NEW x
    PROVE  /\ IsFiniteSet(S \cup {x})
           /\ Cardinality(S \cup {x}) <= Cardinality(S) + 1
           /\ Cardinality(S \cup {x}) \in Nat
<1>1. IsFiniteSet(S \cup {x})
  BY FS_AddElement
<1>2. Cardinality(S \cup {x}) = IF x \in S THEN Cardinality(S) ELSE Cardinality(S) + 1
  BY FS_AddElement
<1>3. Cardinality(S) \in Nat /\ Cardinality(S \cup {x}) \in Nat
  BY <1>1, FS_CardinalityType
<1> QED BY <1>1, <1>2, <1>3

LEMMA FillKeepsBook ==
    ASSUME FInv, NEW amt \in RiskAmounts, Fill(amt)
    PROVE  LedgerMatchesBook' /\ CapsHold'
<1> DEFINE dir == pending[sym].plan.dir
<1>1. sym \in Symbols /\ ts \in Times
  BY DEF Fill, Fills, FInv, CandleInHand, sym, ts
<1>2. pending[sym] \in Resting
  BY <1>1 DEF Fill, FInv, TypeOK
<1>3. dir \in Directions /\ pending[sym].plan \in Plans /\ amt \in Nat /\ amt <= Budget
  BY <1>2, AmountsAssumption, LimitsAssumption DEF Resting, Plans
<1>4. [plan |-> pending[sym].plan, opened |-> ts, risk |-> amt] \in Positions
  BY <1>1, <1>3 DEF Positions
<1>5. /\ position' = [position EXCEPT ![sym] =
                        [plan |-> pending[sym].plan, opened |-> ts, risk |-> amt]]
      /\ ledger' = RecordOpen(ledger, sym, amt, dir)
      /\ BudgetAllows(ledger, sym, dir, ts)
  BY DEF Fill
<1>6. position'[sym] # None /\ position'[sym].plan.dir = dir /\ position'[sym].risk = amt
  BY <1>1, <1>4, <1>5, NoneApartAssumption DEF FInv, TypeOK
<1>7. ASSUME NEW s \in Symbols, s # sym PROVE position'[s] = position[s]
  BY <1>5, <1>7 DEF FInv, TypeOK
<1>8. /\ ledger'.dirs = [ledger.dirs EXCEPT ![sym] = dir]
      /\ ledger'.amts = [ledger.amts EXCEPT ![sym] = amt]
      /\ ledger'.trades = ledger.trades + 1
      /\ ledger'.perSymbol = [ledger.perSymbol EXCEPT ![sym] = @ + 1]
      /\ ledger'.openRisk = ledger.openRisk + amt
  <2> DEFINE L == RecordOpen(ledger, sym, amt, dir)
  <2>1. ledger \in Ledgers
    BY DEF FInv, TypeOK
  <2>2. /\ L.dirs = [ledger.dirs EXCEPT ![sym] = dir]
        /\ L.amts = [ledger.amts EXCEPT ![sym] = amt]
        /\ L.trades = ledger.trades + 1
        /\ L.perSymbol = [ledger.perSymbol EXCEPT ![sym] = @ + 1]
        /\ L.openRisk = ledger.openRisk + amt
    BY <1>1, <1>3, <2>1, OpenFields
  <2>3. ledger' = L
    BY <1>5
  <2> HIDE DEF L
  <2> QED BY <2>2, <2>3
<1>9. /\ ledger.dirs \in [Symbols -> {None} \cup Directions] /\ ledger.amts \in [Symbols -> Nat]
      /\ ledger.openRisk \in Int /\ ledger.trades \in Nat /\ ledger.perSymbol \in [Symbols -> Nat]
  BY DEF FInv, TypeOK, Ledgers
<1>10. LedgerMatchesBook'
  <2> SUFFICES ASSUME NEW s \in Symbols
               PROVE  IF position'[s] = None
                      THEN ledger'.dirs[s] = None /\ ledger'.amts[s] = 0
                      ELSE /\ ledger'.dirs[s] = position'[s].plan.dir
                           /\ ledger'.amts[s] = position'[s].risk
    BY DEF LedgerMatchesBook
  <2>1. CASE s = sym
    BY <1>1, <1>6, <1>8, <1>9, <2>1
  <2>2. CASE s # sym
    BY <1>1, <1>7, <1>8, <1>9, <2>2 DEF FInv, LedgerMatchesBook
  <2> QED BY <2>1, <2>2
<1>11. ledger'.trades <= MaxTrades /\ \A s \in Symbols : ledger'.perSymbol[s] <= MaxPerStock
  BY <1>1, <1>5, <1>8, <1>9, LimitsAssumption DEF BudgetAllows, FInv, CapsHold
<1>12. ledger'.openRisk <= HeatCap
  BY <1>3, <1>5, <1>8, <1>9, LimitsAssumption DEF BudgetAllows
<1>13. ASSUME NEW d \in Directions PROVE Cardinality(HeldWay(d)') <= MaxCorrelated
  <2>1. IsFiniteSet(HeldWay(d)) /\ Cardinality(HeldWay(d)) \in Nat
    BY SymbolsAssumption, FS_Subset, FS_CardinalityType DEF HeldWay
  <2>2. Cardinality(HeldWay(d)) <= MaxCorrelated
    BY DEF FInv, CapsHold, HeldWay
  <2>3. CASE d = dir
    <3>1. HeldWay(d) = SameWay(ledger.dirs, dir)
      BY <2>3, <1>3, NoneAssumption DEF HeldWay, SameWay, FInv, LedgerMatchesBook
    <3>2. Cardinality(HeldWay(d)) < MaxCorrelated
      BY <3>1, <1>5 DEF BudgetAllows
    <3>3. HeldWay(d)' \subseteq HeldWay(d) \cup {sym}
      BY <1>7 DEF HeldWay
    <3>4. /\ IsFiniteSet(HeldWay(d) \cup {sym})
          /\ Cardinality(HeldWay(d) \cup {sym}) <= Cardinality(HeldWay(d)) + 1
          /\ Cardinality(HeldWay(d) \cup {sym}) \in Nat
      BY <2>1, OneMore
    <3>5. /\ Cardinality(HeldWay(d)') <= Cardinality(HeldWay(d) \cup {sym})
          /\ Cardinality(HeldWay(d)') \in Nat
      BY <3>3, <3>4, FS_Subset, FS_CardinalityType
    <3> QED BY <2>1, <3>2, <3>4, <3>5, LimitsAssumption
  <2>4. CASE d # dir
    <3>1. HeldWay(d)' \subseteq HeldWay(d)
      BY <2>4, <1>6, <1>7 DEF HeldWay
    <3>2. Cardinality(HeldWay(d)') <= Cardinality(HeldWay(d)) /\ Cardinality(HeldWay(d)') \in Nat
      BY <2>1, <3>1, FS_Subset, FS_CardinalityType
    <3> QED BY <2>1, <2>2, <3>2, LimitsAssumption
  <2> QED BY <2>3, <2>4
<1> QED BY <1>10, <1>11, <1>12, <1>13 DEF CapsHold, HeldWay

(* Ledger and book stay in step and inside the caps.                       *)
LEMMA BookStep ==
    ASSUME FInv, Next PROVE LedgerMatchesBook' /\ CapsHold'
<1>1. CASE ~BookSteps
  BY <1>1, OthersLeaveTheBook DEF FInv, LedgerMatchesBook, CapsHold
<1>2. ASSUME NEW s \in Symbols, NEW t \in Times, NewDateCandle(s, t)
      PROVE  LedgerMatchesBook' /\ CapsHold'
  <2>1. position' = [p \in Symbols |-> None] /\ ledger' = EmptyLedger
    BY <1>2, NewDateIsFlat DEF NewDateCandle
  <2>2. LedgerMatchesBook'
    BY <2>1, EmptyLedgerFields DEF LedgerMatchesBook
  <2>3. ASSUME NEW d \in Directions PROVE Cardinality(HeldWay(d)') <= MaxCorrelated
    <3>1. HeldWay(d)' = {}
      BY <2>1 DEF HeldWay
    <3> QED BY <3>1, FS_EmptySet, LimitsAssumption
  <2> QED BY <2>1, <2>2, <2>3, EmptyLedgerFields, LimitsAssumption DEF CapsHold, HeldWay
<1>3. ASSUME NEW s \in Symbols, NEW r \in Results, ForceClosable(s),
             position' = [position EXCEPT ![s] = None],
             ledger' = RecordClose(ledger, s, r, lastTs[s])
      PROVE  LedgerMatchesBook' /\ CapsHold'
  <2>1. lastTs[s] \in Nat \X Nat /\ r \in Int
    BY <1>3, TimesAreNats, AmountsAssumption DEF FInv, TypeOK, ForceClosable
  <2> QED BY <1>3, <2>1, SettleKeepsBook DEF FInv
<1>4. ASSUME UNCHANGED <<position, ledger>> PROVE LedgerMatchesBook' /\ CapsHold'
  BY <1>4 DEF FInv, LedgerMatchesBook, CapsHold
<1>5. ASSUME NEW r \in Results, EndSession(r) PROVE LedgerMatchesBook' /\ CapsHold'
  <2>1. sym \in Symbols
    BY <1>5 DEF EndSession, BoundariesDone, FInv, CandleInHand, sym
  <2> QED BY <1>3, <1>4, <1>5, <2>1 DEF EndSession
<1>6. ASSUME NEW r \in Results, Exit(r) PROVE LedgerMatchesBook' /\ CapsHold'
  <2>1. sym \in Symbols /\ ts \in Nat \X Nat /\ r \in Int
    BY <1>6, TimesAreNats, AmountsAssumption
       DEF Exit, StoreCandle, FInv, CandleInHand, sym, ts
  <2> QED BY <1>6, <2>1, SettleKeepsBook DEF Exit, FInv
<1>7. ASSUME NEW amt \in RiskAmounts, Fill(amt) PROVE LedgerMatchesBook' /\ CapsHold'
  BY <1>7, FillKeepsBook
<1>8. ASSUME NEW s \in Symbols, NEW r \in Results, Finalize(s, r)
      PROVE  LedgerMatchesBook' /\ CapsHold'
  BY <1>3, <1>4, <1>8 DEF Finalize
<1> QED BY <1>1, <1>2, <1>5, <1>6, <1>7, <1>8 DEF BookSteps

-----------------------------------------------------------------------------
(* Dates: the candle in hand, the positions, the intents, the days.        *)

(* The symbol in hand while a candle is worked on.                         *)
LEMMA SymbolInHand ==
    ASSUME FInv, stage \in {"close", "fill", "store"}
    PROVE  sym \in Symbols /\ ts \in Times
BY DEF FInv, CandleInHand, sym, ts

(* What closing a boundary leaves alone.                                   *)
LEMMA BoundaryEffect ==
    ASSUME FInv, OnM5Close
    PROVE  /\ stage = "close" /\ lastTs[sym] # None
           /\ UNCHANGED <<stage, candle, session, ledger, market, position, finalized>>
BY DEF OnM5Close, NoBar, Manage, Revalidate, Idle, Hold, Trigger, EntryFlow, ClosesBar, trading,
       BoundaryOpen

LEMMA CandleInHandStep ==
    ASSUME FInv, Next PROVE CandleInHand'
<1>1. ASSUME NEW s \in Symbols, NEW t \in Times, SameDateCandle(s, t) \/ NewDateCandle(s, t)
      PROVE  CandleInHand'
  <2>1. candle' = [sym |-> s, ts |-> t] /\ session' = t[1] /\ lastTs' = lastTs
    BY <1>1 DEF SameDateCandle, NewDateCandle, Comes, market
  <2>2. lastTs[s] # None => lastTs[s][1] <= t[1]
    <3>1. lastTs[s] # None => AtOrAfter(t, lastTs[s]) /\ lastTs[s] \in Times
      BY <1>1 DEF SameDateCandle, NewDateCandle, Comes, FInv, TypeOK
    <3> QED BY <3>1 DEF AtOrAfter, Times, Dates
  <2> QED BY <2>1, <2>2 DEF CandleInHand, sym, ts
<1>2. CASE stage' \in {"feed", "final"}
  BY <1>2 DEF CandleInHand
<1>3. CASE /\ stage \in {"close", "fill", "store"}
           /\ UNCHANGED <<candle, session, lastTs>>
  BY <1>3 DEF FInv, CandleInHand, sym, ts
<1>4. CASE OnM5Close
  BY <1>3, <1>4, BoundaryEffect DEF market
<1>5. CASE SameSession \/ NothingFills \/ PlanDropped
  BY <1>3, <1>5 DEF SameSession, NothingFills, PlanDropped, BoundariesDone, Fills, market
<1>6. CASE \/ \E r \in Results : EndSession(r)
           \/ \E amt \in RiskAmounts : Fill(amt)
  BY <1>3, <1>6 DEF EndSession, Fill, BoundariesDone, Fills, market
<1>7. CASE \/ FeedEnds \/ NoExit \/ \E r \in Results : Exit(r)
           \/ \E s \in Symbols, r \in Results : Finalize(s, r)
  BY <1>2, <1>7 DEF FeedEnds, NoExit, Exit, StoreCandle, Finalize
<1> QED BY <1>1, <1>4, <1>5, <1>6, <1>7 DEF Next

LEMMA PositionsPricedStep ==
    ASSUME FInv, Next PROVE PositionsPriced'
<1>1. ASSUME NEW s \in Symbols, NEW t \in Times, NewDateCandle(s, t) PROVE PositionsPriced'
  BY <1>1, NewDateIsFlat DEF PositionsPriced
<1>2. CASE /\ stage # "store" /\ UNCHANGED <<session, lastTs>>
           /\ \A s \in Symbols : position'[s] # None => position'[s] = position[s]
  BY <1>2 DEF FInv, PositionsPriced
<1>3. ASSUME NEW s \in Symbols, NEW t \in Times, SameDateCandle(s, t) PROVE PositionsPriced'
  BY <1>2, <1>3 DEF SameDateCandle, Comes, market
<1>4. CASE OnM5Close
  BY <1>2, <1>4, BoundaryEffect DEF market
<1>5. CASE FeedEnds \/ SameSession \/ NothingFills \/ PlanDropped
  BY <1>2, <1>5 DEF FeedEnds, SameSession, NothingFills, PlanDropped, BoundariesDone, Fills,
                    market, trading
<1>6. ASSUME NEW r \in Results, EndSession(r) PROVE PositionsPriced'
  <2>1. \A s \in Symbols : position'[s] # None => position'[s] = position[s]
    BY <1>6 DEF EndSession, FInv, TypeOK
  <2> QED BY <1>2, <1>6, <2>1 DEF EndSession, BoundariesDone, market
<1>7. ASSUME NEW s \in Symbols, NEW r \in Results, Finalize(s, r) PROVE PositionsPriced'
  <2>1. \A p \in Symbols : position'[p] # None => position'[p] = position[p]
    BY <1>7 DEF Finalize, FInv, TypeOK
  <2> QED BY <1>2, <1>7, <2>1 DEF Finalize, market
<1>8. ASSUME NEW amt \in RiskAmounts, Fill(amt) PROVE PositionsPriced'
  <2>1. /\ sym \in Symbols /\ session = ts[1] /\ stage = "fill" /\ stage' = "store"
        /\ UNCHANGED <<session, lastTs, candle>>
    BY <1>8, SymbolInHand DEF Fill, Fills, FInv, CandleInHand, market
  <2>2. position'[sym].opened = ts
    BY <1>8, <2>1 DEF Fill, FInv, TypeOK
  <2>3. \A s \in Symbols : s # sym => position'[s] = position[s]
    BY <1>8 DEF Fill, FInv, TypeOK
  <2> QED BY <2>1, <2>2, <2>3 DEF FInv, PositionsPriced, sym
<1>9. ASSUME StoreCandle, \A s \in Symbols : position'[s] # None => position'[s] = position[s]
      PROVE  PositionsPriced'
  <2>1. sym \in Symbols /\ session = ts[1] /\ ts \in Times /\ session' = session
    BY <1>9, SymbolInHand DEF StoreCandle, FInv, CandleInHand
  <2>2. lastTs'[sym] = ts /\ \A s \in Symbols : s # sym => lastTs'[s] = lastTs[s]
    BY <1>9, <2>1 DEF StoreCandle, FInv, TypeOK
  <2> QED BY <1>9, <2>1, <2>2, NoneApartAssumption DEF FInv, PositionsPriced
<1>10. ASSUME NEW r \in Results, Exit(r) PROVE PositionsPriced'
  <2>1. \A s \in Symbols : position'[s] # None => position'[s] = position[s]
    BY <1>10 DEF Exit, FInv, TypeOK
  <2> QED BY <1>9, <1>10, <2>1 DEF Exit
<1>11. CASE NoExit
  BY <1>9, <1>11 DEF NoExit
<1> QED BY <1>1, <1>3, <1>4, <1>5, <1>6, <1>7, <1>8, <1>10, <1>11 DEF Next

(* A plan looked at on a boundary is dated by the last candle.             *)
LEMMA IntentIsDated ==
    ASSUME FInv, BoundaryOpen, NEW plan \in Intents
    PROVE  plan.armedAt[1] = lastTs[sym][1]
<1>1. sym \in Symbols
  BY BoundaryIsATime
<1> QED BY <1>1 DEF Intents, now, FInv, IntentsDated

(* The day a boundary rolls to is the date of the last complete bar.       *)
LEMMA RolledDay ==
    ASSUME FInv, ClosesBar
    PROVE  /\ sym \in Symbols /\ BoundaryOpen
           /\ day'[sym] = barDate[sym] /\ day'[sym] # None
           /\ \A s \in Symbols : s # sym => day'[s] = day[s]
           /\ UNCHANGED <<candle, lastTs, barDate>>
<1>1. sym \in Symbols /\ BoundaryOpen
  BY BoundaryIsATime DEF ClosesBar
<1> QED BY <1>1 DEF ClosesBar, FInv, TypeOK, market

LEMMA OneIntentStep ==
    ASSUME FInv, Next PROVE OneIntent'
<1> USE DEF FInv
<1>1. ASSUME NEW s \in Symbols, NEW t \in Times, SameDateCandle(s, t) \/ NewDateCandle(s, t)
      PROVE  OneIntent'
  <2> SUFFICES ASSUME NEW p \in Symbols
               PROVE  /\ fsm'[p] # None => pending'[p] = None /\ position'[p] = None
                      /\ pending'[p] # None => position'[p] = None
                      /\ exits'[p] => position'[p] # None
    BY DEF OneIntent
  <2>1. fsm' = fsm /\ pending' = pending
    BY <1>1 DEF SameDateCandle, NewDateCandle, Comes
  <2>2. position'[p] # None => position[p] # None
    BY <1>1 DEF SameDateCandle, NewDateCandle
  <2>3. exits'[p] => position'[p] # None
    <3>1. CASE exits' = exits /\ position' = position
      BY <3>1 DEF OneIntent
    <3>2. CASE session # None /\ NewDateCandle(s, t)
      BY <3>2 DEF NewDateCandle, Stranded
    <3>3. CASE session = None /\ NewDateCandle(s, t)
      BY <3>3 DEF NewDateCandle, OneIntent
    <3> QED BY <1>1, <3>1, <3>2, <3>3 DEF SameDateCandle
  <2> QED BY <2>1, <2>2, <2>3 DEF OneIntent
<1>2. CASE OnM5Close
  <2>0. BoundaryOpen /\ sym \in Symbols /\ position' = position
    BY <1>2, BoundaryEffect, SymbolInHand
       DEF OnM5Close, NoBar, Manage, Revalidate, Idle, EntryFlow, ClosesBar
  <2>1. CASE NoBar
    BY <2>1 DEF NoBar, trading, OneIntent
  <2>2. CASE Manage
    BY <2>0, <2>2 DEF Manage, TypeOK, OneIntent
  <2>3. CASE Revalidate
    BY <2>0, <2>3 DEF Revalidate, TypeOK, OneIntent
  <2>4. CASE Idle
    BY <2>0, <2>4 DEF Idle, EntryFlow, TypeOK, OneIntent
  <2>5. ASSUME NEW plan \in Intents, Hold(plan) \/ Trigger(plan) PROVE OneIntent'
    BY <2>0, <2>5 DEF Hold, Trigger, EntryFlow, TypeOK, OneIntent
  <2> QED BY <1>2, <2>1, <2>2, <2>3, <2>4, <2>5 DEF OnM5Close
<1>3. CASE FeedEnds \/ SameSession \/ NothingFills
  BY <1>3 DEF FeedEnds, SameSession, NothingFills, trading, OneIntent
<1>4. CASE PlanDropped
  BY <1>4, SymbolInHand DEF PlanDropped, Fills, TypeOK, OneIntent
<1>5. ASSUME NEW r \in Results, EndSession(r) PROVE OneIntent'
  BY <1>5, SymbolInHand DEF EndSession, BoundariesDone, Stranded, TypeOK, OneIntent
<1>6. ASSUME NEW amt \in RiskAmounts, Fill(amt) PROVE OneIntent'
  <2>1. sym \in Symbols /\ fsm[sym] = None
    BY <1>6, SymbolInHand DEF Fill, Fills, OneIntent
  <2>2. pending'[sym] = None /\ position'[sym] # None
    <3>1. pending[sym].plan \in Plans /\ ts \in Times
      BY <1>6, SymbolInHand DEF Fill, Fills, TypeOK, Resting
    <3>2. [plan |-> pending[sym].plan, opened |-> ts, risk |-> amt] \in Positions
      BY <3>1 DEF Positions
    <3> QED BY <1>6, <2>1, <3>2, NoneApartAssumption DEF Fill, TypeOK
  <2>3. \A s \in Symbols : s # sym => pending'[s] = pending[s] /\ position'[s] = position[s]
    BY <1>6 DEF Fill, TypeOK
  <2> QED BY <1>6, <2>1, <2>2, <2>3 DEF Fill, OneIntent
<1>7. CASE NoExit
  BY <1>7, SymbolInHand DEF NoExit, StoreCandle, OtherDate, TypeOK, OneIntent
<1>8. ASSUME NEW r \in Results, Exit(r) PROVE OneIntent'
  BY <1>8, SymbolInHand DEF Exit, StoreCandle, TypeOK, OneIntent
<1>9. ASSUME NEW s \in Symbols, NEW r \in Results, Finalize(s, r) PROVE OneIntent'
  BY <1>9 DEF Finalize, Stranded, TypeOK, OneIntent
<1> QED BY <1>1, <1>2, <1>3, <1>4, <1>5, <1>6, <1>7, <1>8, <1>9 DEF Next

LEMMA IntentsDatedStep ==
    ASSUME FInv, Next PROVE IntentsDated'
<1> USE DEF FInv
<1>1. CASE UNCHANGED <<day, lastTs, fsm, pending>>
  BY <1>1 DEF IntentsDated
<1>2. ASSUME NEW s \in Symbols, NEW t \in Times, SameDateCandle(s, t) \/ NewDateCandle(s, t)
      PROVE  IntentsDated'
  BY <1>1, <1>2 DEF SameDateCandle, NewDateCandle, Comes, market
<1>3. CASE \/ FeedEnds \/ SameSession \/ NothingFills \/ NoBar
           \/ \E s \in Symbols, r \in Results : Finalize(s, r)
  BY <1>1, <1>3 DEF FeedEnds, SameSession, NothingFills, NoBar, Finalize, market, trading
<1>4. CASE PlanDropped
  BY <1>4, SymbolInHand DEF PlanDropped, Fills, market, TypeOK, IntentsDated
<1>5. ASSUME NEW r \in Results, EndSession(r) PROVE IntentsDated'
  BY <1>5, SymbolInHand DEF EndSession, BoundariesDone, market, TypeOK, IntentsDated
<1>6. ASSUME NEW amt \in RiskAmounts, Fill(amt) PROVE IntentsDated'
  BY <1>6, SymbolInHand DEF Fill, Fills, market, TypeOK, IntentsDated
<1>7. ASSUME ClosesBar,
             \A s \in Symbols :
                /\ fsm'[s] # None => \/ fsm'[s] = fsm[s]
                                     \/ s = sym /\ fsm'[s].armedAt[1] = lastTs[sym][1]
                /\ pending'[s] # None => \/ pending'[s] = pending[s]
                                         \/ s = sym /\ pending'[s].plan.armedAt[1] = lastTs[sym][1]
      PROVE  IntentsDated'
  <2>1. lastTs[sym] # None
    BY <1>7 DEF ClosesBar, BoundaryOpen
  <2> QED BY <1>7, <2>1, RolledDay DEF IntentsDated
<1>8. CASE Manage
  BY <1>7, <1>8 DEF Manage
<1>9. CASE Revalidate
  <2>1. sym \in Symbols /\ ClosesBar
    BY <1>9, RolledDay DEF Revalidate
  <2> QED BY <1>7, <1>9, <2>1 DEF Revalidate, TypeOK
<1>10. CASE Idle
  <2>1. sym \in Symbols /\ ClosesBar
    BY <1>10, RolledDay DEF Idle, EntryFlow
  <2> QED BY <1>7, <1>10, <2>1 DEF Idle, TypeOK
<1>11. ASSUME NEW plan \in Intents, Hold(plan) \/ Trigger(plan) PROVE IntentsDated'
  <2>1. sym \in Symbols /\ ClosesBar /\ plan.armedAt[1] = lastTs[sym][1]
    BY <1>11, RolledDay, IntentIsDated DEF Hold, Trigger, EntryFlow
  <2>2. CASE Hold(plan)
    BY <1>7, <2>1, <2>2 DEF Hold, TypeOK
  <2>3. CASE Trigger(plan)
    <3>1. /\ fsm'[sym] = None /\ pending'[sym].plan = plan
          /\ \A s \in Symbols : s # sym => fsm'[s] = fsm[s] /\ pending'[s] = pending[s]
      BY <2>1, <2>3 DEF Trigger, TypeOK
    <3> QED BY <1>7, <2>1, <3>1
  <2> QED BY <1>11, <2>2, <2>3
<1>12. ASSUME StoreCandle PROVE IntentsDated'
  <2>1. sym \in Symbols /\ ts \in Times
    BY <1>12, SymbolInHand DEF StoreCandle
  <2>2. /\ lastTs'[sym] = ts /\ \A s \in Symbols : s # sym => lastTs'[s] = lastTs[s]
        /\ UNCHANGED <<day, fsm, pending>>
    BY <1>12, <2>1 DEF StoreCandle, TypeOK
  <2>3. /\ pending[sym] # None => pending[sym].plan.armedAt[1] = ts[1]
        /\ fsm[sym] # None => fsm[sym].armedAt[1] = ts[1]
    BY <1>12 DEF StoreCandle, NoStaleIntent
  <2> QED BY <2>1, <2>2, <2>3, NoneApartAssumption DEF IntentsDated
<1>13. CASE NoExit \/ \E r \in Results : Exit(r)
  BY <1>12, <1>13 DEF NoExit, Exit
<1>14. CASE OnM5Close
  BY <1>3, <1>8, <1>9, <1>10, <1>11, <1>14 DEF OnM5Close
<1> QED BY <1>2, <1>3, <1>4, <1>5, <1>6, <1>13, <1>14 DEF Next

LEMMA DaysBehindStep ==
    ASSUME FInv, Next PROVE DaysBehind'
<1> USE DEF FInv
<1>1. CASE UNCHANGED <<day, lastTs, barDate>>
  BY <1>1 DEF DaysBehind
<1>2. ASSUME ClosesBar PROVE DaysBehind'
  <2>1. lastTs[sym] # None
    BY <1>2 DEF ClosesBar, BoundaryOpen
  <2> QED BY <1>2, <2>1, RolledDay DEF DaysBehind
<1>3. ASSUME StoreCandle PROVE DaysBehind'
  <2>1. sym \in Symbols /\ ts \in Times /\ (lastTs[sym] # None => lastTs[sym][1] <= ts[1])
    BY <1>3, SymbolInHand DEF StoreCandle, CandleInHand
  <2>2. /\ lastTs'[sym] = ts /\ \A s \in Symbols : s # sym => lastTs'[s] = lastTs[s]
        /\ day' = day
    BY <1>3, <2>1 DEF StoreCandle, TypeOK
  <2>3. /\ barDate'[sym] = barDate[sym] \/ barDate'[sym] = ts[1]
        /\ \A s \in Symbols : s # sym => barDate'[s] = barDate[s]
    BY <1>3, <2>1 DEF StoreCandle, TypeOK
  <2>4. /\ ts[1] \in 1 .. LastDate /\ ts # None
        /\ day[sym] \in {None} \cup Int /\ barDate[sym] \in {None} \cup Int
        /\ lastTs[sym] # None => lastTs[sym][1] \in Int
    BY <2>1, NoneApartAssumption, ClockAssumption DEF Times, Dates, TypeOK
  <2> QED BY <2>1, <2>2, <2>3, <2>4 DEF DaysBehind
<1>4. ASSUME NEW s \in Symbols, NEW t \in Times, SameDateCandle(s, t) \/ NewDateCandle(s, t)
      PROVE  DaysBehind'
  BY <1>1, <1>4 DEF SameDateCandle, NewDateCandle, Comes, market
<1>5. CASE OnM5Close
  BY <1>1, <1>2, <1>5
     DEF OnM5Close, NoBar, Manage, Revalidate, Idle, Hold, Trigger, EntryFlow, market, trading
<1>6. CASE FeedEnds \/ SameSession \/ NothingFills \/ PlanDropped
  BY <1>1, <1>6 DEF FeedEnds, SameSession, NothingFills, PlanDropped, market, trading
<1>7. CASE \/ \E r \in Results : EndSession(r)
           \/ \E amt \in RiskAmounts : Fill(amt)
           \/ \E s \in Symbols, r \in Results : Finalize(s, r)
  BY <1>1, <1>7 DEF EndSession, Fill, Finalize, market
<1>8. CASE NoExit \/ \E r \in Results : Exit(r)
  BY <1>3, <1>8 DEF NoExit, Exit
<1> QED BY <1>4, <1>5, <1>6, <1>7, <1>8 DEF Next

LEMMA NoStaleIntentStep ==
    ASSUME FInv, Next PROVE NoStaleIntent'
<1> USE DEF FInv
<1>1. CASE stage' \notin {"fill", "store"}
  BY <1>1 DEF NoStaleIntent
<1>2. ASSUME NEW s \in Symbols, NEW t \in Times, SameDateCandle(s, t) \/ NewDateCandle(s, t)
      PROVE  NoStaleIntent'
  BY <1>1, <1>2 DEF SameDateCandle, NewDateCandle, Comes
<1>3. CASE OnM5Close
  BY <1>1, <1>3, BoundaryEffect
<1>4. CASE \/ FeedEnds \/ NoExit \/ \E r \in Results : Exit(r)
           \/ \E s \in Symbols, r \in Results : Finalize(s, r)
  BY <1>1, <1>4 DEF FeedEnds, NoExit, Exit, StoreCandle, Finalize
<1>5. CASE NothingFills
  BY <1>5 DEF NothingFills, Fills, trading, NoStaleIntent, sym, ts
<1>6. CASE PlanDropped
  BY <1>6, SymbolInHand DEF PlanDropped, Fills, TypeOK, NoStaleIntent, sym, ts
<1>7. ASSUME NEW amt \in RiskAmounts, Fill(amt) PROVE NoStaleIntent'
  BY <1>7, SymbolInHand DEF Fill, Fills, TypeOK, NoStaleIntent, sym, ts
<1>8. ASSUME NEW r \in Results, EndSession(r) PROVE NoStaleIntent'
  BY <1>8, SymbolInHand DEF EndSession, BoundariesDone, TypeOK, NoStaleIntent, sym, ts
<1>9. CASE SameSession
  <2>1. sym \in Symbols /\ ts \in Times /\ (lastTs[sym] # None => lastTs[sym][1] <= ts[1])
    BY <1>9, SymbolInHand DEF SameSession, BoundariesDone, CandleInHand
  <2>2. day[sym] # None => lastTs[sym][1] = ts[1]
    <3> SUFFICES ASSUME day[sym] # None PROVE lastTs[sym][1] = ts[1]
      OBVIOUS
    <3>1. day[sym] = ts[1] /\ lastTs[sym] # None /\ day[sym] <= lastTs[sym][1]
      BY <1>9, <2>1 DEF SameSession, SessionOver, DaysBehind
    <3>2. ts[1] \in Int /\ lastTs[sym][1] \in Int
      BY <2>1, <3>1 DEF TypeOK, Times, Dates
    <3> QED BY <2>1, <3>1, <3>2
  <2>3. /\ fsm[sym] # None => fsm[sym].armedAt[1] = ts[1] /\ day[sym] = ts[1]
        /\ pending[sym] # None => pending[sym].plan.armedAt[1] = ts[1] /\ day[sym] = ts[1]
    BY <1>9, <2>1, <2>2 DEF SameSession, SessionOver, IntentsDated
  <2> QED BY <1>9, <2>3 DEF SameSession, trading, NoStaleIntent, sym, ts
<1> QED BY <1>2, <1>3, <1>4, <1>5, <1>6, <1>7, <1>8, <1>9 DEF Next

-----------------------------------------------------------------------------
(* The inductive invariant.                                                *)

LEMMA InitInvariant == Init => FInv
<1> SUFFICES ASSUME Init PROVE FInv
  OBVIOUS
<1> USE DEF Init
<1>1. TypeOK
  <2>1. exits \in [Symbols -> BOOLEAN]
    OBVIOUS
  <2> QED BY <2>1, EmptyLedgerFields, ClockAssumption DEF TypeOK
<1>2. LedgerMatchesBook
  BY EmptyLedgerFields DEF LedgerMatchesBook
<1>3. CapsHold
  <2>1. ASSUME NEW d \in Directions PROVE Cardinality(HeldWay(d)) <= MaxCorrelated
    <3>1. HeldWay(d) = {}
      BY DEF HeldWay
    <3> QED BY <3>1, FS_EmptySet, LimitsAssumption
  <2> QED BY <2>1, EmptyLedgerFields, LimitsAssumption DEF CapsHold, HeldWay
<1>4. OneIntent
  BY DEF OneIntent
<1>5. NoStaleIntent /\ CandleInHand /\ PositionsPriced /\ IntentsDated
  BY DEF NoStaleIntent, CandleInHand, PositionsPriced, IntentsDated
<1>6. DaysBehind
  BY DEF DaysBehind
<1> QED BY <1>1, <1>2, <1>3, <1>4, <1>5, <1>6 DEF FInv

LEMMA NextInvariant == FInv /\ Next => FInv'
<1> SUFFICES ASSUME FInv, Next PROVE FInv'
  OBVIOUS
<1>1. TypeOK'
  BY CandleType, BoundaryType, ArrivalType, FeedEndType DEF Next
<1> QED BY <1>1, BookStep, OneIntentStep, NoStaleIntentStep, CandleInHandStep,
           PositionsPricedStep, IntentsDatedStep, DaysBehindStep DEF FInv

LEMMA StutterInvariant == FInv /\ UNCHANGED vars => FInv'
BY DEF FInv, vars, market, trading, TypeOK, LedgerMatchesBook, OneIntent, CapsHold, NoStaleIntent,
       CandleInHand, PositionsPriced, IntentsDated, DaysBehind, sym, ts

(* FInv, the inductive invariant, holds in every state.                    *)
THEOREM Invariant == Spec => []FInv
<1>1. FInv /\ [Next]_vars => FInv'
  BY NextInvariant, StutterInvariant
<1> QED BY <1>1, InitInvariant, PTL DEF Spec

-----------------------------------------------------------------------------
(* What follows from it.                                                   *)

(* Every variable of the loop keeps its type.                              *)
THEOREM TypeCorrect == Spec => []TypeOK
<1>1. FInv => TypeOK
  BY DEF FInv
<1> QED BY <1>1, Invariant, PTL

(* Ledger and book agree on who is open, which way and for how much.       *)
THEOREM LedgerMatchesBookThm == Spec => []LedgerMatchesBook
<1>1. FInv => LedgerMatchesBook
  BY DEF FInv
<1> QED BY <1>1, Invariant, PTL

(* No day's caps are passed, whatever rested while they filled up.         *)
THEOREM CapsHoldThm == Spec => []CapsHold
<1>1. FInv => CapsHold
  BY DEF FInv
<1> QED BY <1>1, Invariant, PTL

(* A symbol is after one thing at a time; an exit never hits the next      *)
(* position.                                                               *)
THEOREM OneIntentThm == Spec => []OneIntent
<1>1. FInv => OneIntent
  BY DEF FInv
<1> QED BY <1>1, Invariant, PTL

(* No position outlives its date.                                          *)
THEOREM NoOvernightThm == Spec => []NoOvernight
<1>1. FInv => NoOvernight
  BY DEF FInv, PositionsPriced, NoOvernight
<1> QED BY <1>1, Invariant, PTL

(* No plan armed on another date reaches the order book.                   *)
THEOREM NoStaleIntentThm == Spec => []NoStaleIntent
<1>1. FInv => NoStaleIntent
  BY DEF FInv
<1> QED BY <1>1, Invariant, PTL

(* A locked day stays locked and opens nothing until the date changes.     *)
THEOREM LockedDayStaysShutThm == Spec => LockedDayStaysShut
<1> DEFINE Shut == /\ ledger'.locked
                   /\ \A s \in Symbols : position'[s] # None => position[s] # None
           Stays == ledger.locked /\ session' = session => Shut
<1>1. FInv /\ [Next]_vars => [Stays]_vars
  <2> SUFFICES ASSUME FInv, Next, ledger.locked, session' = session PROVE Shut
    OBVIOUS
  <2> HIDE DEF Shut
  <2>1. CASE ~BookSteps
    BY <2>1, OthersLeaveTheBook DEF Shut
  <2>2. ASSUME NEW s \in Symbols, NEW t \in Times, NewDateCandle(s, t) PROVE Shut
    BY <2>2 DEF NewDateCandle
  <2>3. ASSUME NEW amt \in RiskAmounts, Fill(amt) PROVE Shut
    BY <2>3 DEF Fill, BudgetAllows
  <2>4. ASSUME NEW s \in Symbols, NEW r \in Results, NEW t \in Nat \X Nat,
               position' = [position EXCEPT ![s] = None],
               ledger' = RecordClose(ledger, s, r, t)
        PROVE  Shut
    <3>1. ledger \in Ledgers /\ r \in Int
      BY AmountsAssumption DEF FInv, TypeOK
    <3>2. ledger'.locked
      BY <2>4, <3>1, CloseFields
    <3>3. \A p \in Symbols : position'[p] # None => position[p] # None
      BY <2>4 DEF FInv, TypeOK
    <3> QED BY <3>2, <3>3 DEF Shut
  <2>5. ASSUME NEW s \in Symbols, ForceClosable(s) PROVE lastTs[s] \in Nat \X Nat
    BY <2>5, TimesAreNats DEF ForceClosable, FInv, TypeOK
  <2>6. CASE UNCHANGED <<position, ledger>>
    BY <2>6 DEF Shut
  <2>7. ASSUME NEW r \in Results, EndSession(r) PROVE Shut
    <3>1. sym \in Symbols
      BY <2>7, SymbolInHand DEF EndSession, BoundariesDone
    <3> QED BY <2>4, <2>5, <2>6, <2>7, <3>1 DEF EndSession
  <2>8. ASSUME NEW r \in Results, Exit(r) PROVE Shut
    <3>1. sym \in Symbols /\ ts \in Nat \X Nat
      BY <2>8, SymbolInHand, TimesAreNats DEF Exit, StoreCandle
    <3> QED BY <2>4, <2>8, <3>1 DEF Exit
  <2>9. ASSUME NEW s \in Symbols, NEW r \in Results, Finalize(s, r) PROVE Shut
    BY <2>4, <2>5, <2>6, <2>9 DEF Finalize
  <2> QED BY <2>1, <2>2, <2>3, <2>7, <2>8, <2>9 DEF BookSteps
<1> QED BY <1>1, Invariant, PTL DEF Spec, LockedDayStaysShut

-----------------------------------------------------------------------------
(* What the clock adds up to, for every bar length and every limit: a      *)
(* trade is fresh when it opens, and no position goes on past the          *)
(* squareoff.  Both rest on boundaries being whole bars.                   *)

(* The inductive invariant, on top of FInv.                                *)

Aligned(m) == \E k \in Int : m = k * BarMinutes

(* The candle in hand is not older than the last one, minute by minute.    *)
CandleFollows ==
    stage \in {"close", "fill", "store"} /\ lastTs[sym] # None => AtOrAfter(ts, lastTs[sym])

(* Boundaries are whole bars, from the end of the last candle's bar on.    *)
BoundaryAligned ==
    stage = "close" =>
        Aligned(boundary) /\ (lastTs[sym] # None => boundary >= Bucket(lastTs[sym][2]) + BarMinutes)

(* Plans are armed on a whole bar inside the window, and rest soon after.  *)
Timed(plan) == Aligned(plan.armedAt[2]) /\ plan.armedAt[2] >= ObserveMin
IntentsTimed ==
    \A s \in Symbols :
        /\ fsm[s] # None => Timed(fsm[s])
        /\ pending[s] # None =>
             /\ Timed(pending[s].plan)
             /\ Elapsed(pending[s].plan.armedAt, pending[s].since) <= ArmTTL * BarMinutes

(* Who is after something has seen a complete bar.                         *)
IntentsNeedBars ==
    \A s \in Symbols : fsm[s] # None \/ pending[s] # None \/ position[s] # None => barDate[s] # None

(* A boundary at or past the squareoff has queued the exit.                *)
ExitIsQueued ==
    /\ stage = "close" /\ position[sym] # None =>
         \/ exits[sym] \/ boundary - BarMinutes < Squareoff
         \/ boundary = Bucket(lastTs[sym][2]) + BarMinutes
    /\ stage \in {"fill", "store"} /\ position[sym] # None =>
         exits[sym] \/ Bucket(ts[2]) < Squareoff

CInv ==
    /\ FInv
    /\ CandleFollows
    /\ BoundaryAligned
    /\ IntentsTimed
    /\ IntentsNeedBars
    /\ ExitIsQueued
    /\ TradesAreFresh
    /\ FlatAfterSquareoff

-----------------------------------------------------------------------------
(* Whole bars.                                                             *)

LEMMA BucketIsAligned ==
    ASSUME NEW m \in Minutes PROVE Bucket(m) \in 0 .. m /\ Aligned(Bucket(m))
<1>1. m \div BarMinutes \in Int
  BY ClockAssumption DEF Minutes
<1> QED BY <1>1, BucketBound DEF Aligned, Bucket

LEMMA NextBar ==
    ASSUME NEW a \in Int, NEW b \in Int, Aligned(a), Aligned(b)
    PROVE  /\ a > b => a >= b + BarMinutes
           /\ Aligned(b + BarMinutes)
           /\ \A n \in Int : a - b < (n + 1) * BarMinutes => a - b <= n * BarMinutes
<1>1. PICK j \in Int : a = j * BarMinutes
  BY DEF Aligned
<1>2. PICK k \in Int : b = k * BarMinutes
  BY DEF Aligned
<1>3. BarMinutes \in Nat /\ BarMinutes > 0
  BY ClockAssumption
<1>4. b + BarMinutes = (k + 1) * BarMinutes /\ k + 1 \in Int
  BY <1>2, <1>3
<1>5. ASSUME NEW n \in Int, a - b < (n + 1) * BarMinutes PROVE a - b <= n * BarMinutes
  <2>1. a - b = (j - k) * BarMinutes
    BY <1>1, <1>2, <1>3
  <2>2. j - k < n + 1
    BY <1>3, <1>5, <2>1
  <2>3. j - k <= n /\ j - k \in Int
    BY <2>2
  <2> QED BY <1>3, <2>1, <2>3
<1>6. a > b => a >= b + BarMinutes
  <2> SUFFICES ASSUME a > b PROVE a >= b + BarMinutes
    OBVIOUS
  <2>1. j > k
    BY <1>1, <1>2, <1>3
  <2>2. j >= k + 1
    BY <2>1
  <2> QED BY <1>1, <1>3, <1>4, <2>2
<1> QED BY <1>4, <1>5, <1>6 DEF Aligned

-----------------------------------------------------------------------------
(* What the steps have in common.                                          *)

(* Only a fill makes a position.                                           *)
LEMMA OldPositions ==
    ASSUME FInv, Next, ~ \E amt \in RiskAmounts : Fill(amt), NEW s \in Symbols, position'[s] # None
    PROVE  position'[s] = position[s]
<1>1. CASE ~BookSteps
  BY <1>1, OthersLeaveTheBook
<1>2. ASSUME NEW p \in Symbols, NEW t \in Times, NewDateCandle(p, t) PROVE position'[s] = position[s]
  BY <1>2 DEF NewDateCandle
<1>3. ASSUME NEW r \in Results, EndSession(r) \/ Exit(r) PROVE position'[s] = position[s]
  BY <1>3 DEF EndSession, Exit, FInv, TypeOK
<1>4. ASSUME NEW p \in Symbols, NEW r \in Results, Finalize(p, r) PROVE position'[s] = position[s]
  BY <1>4 DEF Finalize, FInv, TypeOK
<1> QED BY <1>1, <1>2, <1>3, <1>4 DEF BookSteps

(* What a filling limit and its symbol are.                                *)
LEMMA FillFacts ==
    ASSUME FInv, NEW amt \in RiskAmounts, Fill(amt)
    PROVE  /\ sym \in Symbols /\ ts \in Times /\ ts[2] \in Minutes /\ ts[2] < Cutoff
           /\ pending[sym] # None /\ pending[sym] \in Resting /\ ~Unfilled
           /\ position'[sym].plan = pending[sym].plan /\ position'[sym].opened = ts
           /\ position'[sym] # None
           /\ \A s \in Symbols : s # sym => position'[s] = position[s]
           /\ UNCHANGED <<candle, lastTs, barDate, exits, fsm>>
           /\ lastTs[sym] \in Times /\ lastTs[sym][1] = ts[1]
<1>1. sym \in Symbols /\ ts \in Times /\ stage = "fill"
  BY SymbolInHand DEF Fill, Fills
<1>2. ts[2] \in Minutes /\ ts[2] < Cutoff
  BY <1>1, ClockAssumption DEF Fill, TooLate, Times, Minutes
<1>3. pending[sym] # None /\ pending[sym] \in Resting /\ ~Unfilled
  BY <1>1 DEF Fill, FInv, TypeOK
<1>4. [plan |-> pending[sym].plan, opened |-> ts, risk |-> amt] \in Positions
  BY <1>1, <1>3 DEF Positions, Resting
<1>5. position' = [position EXCEPT ![sym] = [plan |-> pending[sym].plan, opened |-> ts, risk |-> amt]]
  BY DEF Fill
<1>6. position \in [Symbols -> {None} \cup Positions]
  BY DEF FInv, TypeOK
<1>7. position'[sym].plan = pending[sym].plan /\ position'[sym].opened = ts /\ position'[sym] # None
  BY <1>1, <1>4, <1>5, <1>6, NoneApartAssumption
<1>8. \A s \in Symbols : s # sym => position'[s] = position[s]
  BY <1>5, <1>6
<1>9. UNCHANGED <<candle, lastTs, barDate, exits, fsm>>
  BY DEF Fill, market
<1>10. lastTs[sym] # None /\ lastTs[sym][1] = ts[1]
  BY <1>1, <1>3 DEF FInv, NoStaleIntent, IntentsDated
<1>11. lastTs[sym] \in Times
  BY <1>1, <1>10 DEF FInv, TypeOK
<1> QED BY <1>1, <1>2, <1>3, <1>7, <1>8, <1>9, <1>10, <1>11

(* What storing a candle does to the clock of its symbol.                  *)
LEMMA StoreFacts ==
    ASSUME FInv, StoreCandle
    PROVE  /\ sym \in Symbols /\ ts \in Times /\ stage = "store" /\ stage' = "feed"
           /\ lastTs'[sym] = ts /\ \A s \in Symbols : s # sym => lastTs'[s] = lastTs[s]
           /\ \A s \in Symbols : barDate[s] # None => barDate'[s] # None
           /\ UNCHANGED <<candle, boundary, fsm, pending>>
<1>1. sym \in Symbols /\ ts \in Times
  BY SymbolInHand DEF StoreCandle
<1>2. lastTs'[sym] = ts /\ \A s \in Symbols : s # sym => lastTs'[s] = lastTs[s]
  BY <1>1 DEF StoreCandle, FInv, TypeOK
<1>3. ts[1] # None
  BY <1>1, NoneApartAssumption, ClockAssumption DEF Times, Dates
<1>4. \A s \in Symbols : barDate[s] # None => barDate'[s] # None
  BY <1>1, <1>3 DEF StoreCandle, FInv, TypeOK
<1> QED BY <1>1, <1>2, <1>4 DEF StoreCandle

(* The steps that leave boundaries and candles alone and are not "close".  *)
LEMMA LeavesClose ==
    ASSUME Next, stage' = "close",
           ~ \E s \in Symbols, t \in Times : SameDateCandle(s, t) \/ NewDateCandle(s, t)
    PROVE  OnM5Close
<1>1. ASSUME FeedEnds \/ SameSession \/ NothingFills \/ PlanDropped \/ NoExit PROVE FALSE
  BY <1>1 DEF FeedEnds, SameSession, NothingFills, PlanDropped, NoExit, Fills, StoreCandle
<1>2. ASSUME NEW r \in Results, EndSession(r) \/ Exit(r) PROVE FALSE
  BY <1>2 DEF EndSession, Exit, StoreCandle
<1>3. ASSUME NEW amt \in RiskAmounts, Fill(amt) PROVE FALSE
  BY <1>3 DEF Fill, Fills
<1>4. ASSUME NEW s \in Symbols, NEW r \in Results, Finalize(s, r) PROVE FALSE
  BY <1>4 DEF Finalize
<1> QED BY <1>1, <1>2, <1>3, <1>4 DEF Next

(* A candle comes.                                                         *)
LEMMA ComesFacts ==
    ASSUME FInv, NEW s \in Symbols, NEW t \in Times, SameDateCandle(s, t) \/ NewDateCandle(s, t)
    PROVE  /\ stage = "feed" /\ stage' = "close" /\ candle' = [sym |-> s, ts |-> t]
           /\ sym' = s /\ ts' = t
           /\ UNCHANGED <<lastTs, barDate, fsm, pending>>
           /\ lastTs[s] # None => AtOrAfter(t, lastTs[s]) /\ lastTs[s] \in Times
           /\ lastTs[s] = None => boundary' = BarMinutes
           /\ lastTs[s] # None => boundary' = Bucket(lastTs[s][2]) + BarMinutes
<1>1. Comes(s, t)
  BY DEF SameDateCandle, NewDateCandle
<1>2. candle' = [sym |-> s, ts |-> t]
  BY <1>1 DEF Comes
<1>3. sym' = s /\ ts' = t
  BY <1>2 DEF sym, ts
<1>4. lastTs[s] # None => lastTs[s] \in Times
  BY DEF FInv, TypeOK
<1> QED BY <1>1, <1>2, <1>3, <1>4 DEF Comes, market

-----------------------------------------------------------------------------
(* Each part is kept.                                                      *)

LEMMA CandleFollowsStep ==
    ASSUME FInv, CandleFollows, Next PROVE CandleFollows'
<1>1. ASSUME NEW s \in Symbols, NEW t \in Times, SameDateCandle(s, t) \/ NewDateCandle(s, t)
      PROVE  CandleFollows'
  BY <1>1, ComesFacts DEF CandleFollows, AtOrAfter
<1>2. CASE stage' \in {"feed", "final"}
  BY <1>2 DEF CandleFollows
<1>3. CASE stage \in {"close", "fill", "store"} /\ UNCHANGED <<candle, lastTs>>
  BY <1>3 DEF CandleFollows, sym, ts, AtOrAfter
<1>4. CASE OnM5Close
  BY <1>3, <1>4, BoundaryEffect DEF market
<1>5. CASE SameSession \/ NothingFills \/ PlanDropped
  BY <1>3, <1>5 DEF SameSession, NothingFills, PlanDropped, BoundariesDone, Fills, market
<1>6. CASE \/ \E r \in Results : EndSession(r)
           \/ \E amt \in RiskAmounts : Fill(amt)
  BY <1>3, <1>6 DEF EndSession, Fill, BoundariesDone, Fills, market
<1>7. CASE \/ FeedEnds \/ NoExit \/ \E r \in Results : Exit(r)
           \/ \E s \in Symbols, r \in Results : Finalize(s, r)
  BY <1>2, <1>7 DEF FeedEnds, NoExit, Exit, StoreCandle, Finalize
<1> QED BY <1>1, <1>4, <1>5, <1>6, <1>7 DEF Next

LEMMA BoundaryStep ==
    ASSUME FInv, OnM5Close PROVE boundary' = boundary + BarMinutes /\ boundary \in Int
BY DEF OnM5Close, NoBar, Manage, Revalidate, Idle, Hold, Trigger, EntryFlow, ClosesBar, FInv, TypeOK

LEMMA BoundaryAlignedStep ==
    ASSUME FInv, BoundaryAligned, Next PROVE BoundaryAligned'
<1>1. ASSUME NEW s \in Symbols, NEW t \in Times, SameDateCandle(s, t) \/ NewDateCandle(s, t)
      PROVE  BoundaryAligned'
  <2>1. lastTs' = lastTs /\ sym' = s
    BY <1>1, ComesFacts
  <2>2. CASE lastTs[s] = None
    <3>1. boundary' = BarMinutes
      BY <1>1, <2>2, ComesFacts
    <3>2. Aligned(BarMinutes)
      <4>1. BarMinutes = 1 * BarMinutes
        BY ClockAssumption
      <4> QED BY <4>1 DEF Aligned
    <3> QED BY <2>1, <2>2, <3>1, <3>2 DEF BoundaryAligned, Aligned
  <2>3. CASE lastTs[s] # None
    <3>1. boundary' = Bucket(lastTs[s][2]) + BarMinutes /\ lastTs[s][2] \in Minutes
      BY <1>1, <2>3, ComesFacts DEF Times
    <3>2. Bucket(lastTs[s][2]) \in Int /\ Aligned(Bucket(lastTs[s][2]))
      BY <3>1, BucketIsAligned
    <3>3. Aligned(Bucket(lastTs[s][2]) + BarMinutes)
      BY <3>2, NextBar
    <3>4. boundary' >= Bucket(lastTs[s][2]) + BarMinutes
      BY <3>1, <3>2, ClockAssumption
    <3> QED BY <2>1, <3>1, <3>3, <3>4 DEF BoundaryAligned, Aligned, Bucket
  <2> QED BY <2>2, <2>3
<1>2. CASE OnM5Close
  <2>1. boundary' = boundary + BarMinutes /\ boundary \in Int /\ stage = "close"
    BY <1>2, BoundaryStep, BoundaryEffect
  <2>2. UNCHANGED <<candle, lastTs>>
    BY <1>2, BoundaryEffect DEF market
  <2>3. Aligned(boundary) /\ Aligned(boundary + BarMinutes)
    BY <2>1, NextBar DEF BoundaryAligned
  <2>4. lastTs[sym] # None => Bucket(lastTs[sym][2]) \in Int
    <3>1. sym \in Symbols
      BY <2>1, SymbolInHand
    <3>2. lastTs[sym] # None => lastTs[sym][2] \in Minutes
      BY <3>1 DEF FInv, TypeOK, Times
    <3> QED BY <3>2, BucketBound
  <2>5. lastTs[sym] # None => boundary + BarMinutes >= Bucket(lastTs[sym][2]) + BarMinutes
    BY <2>1, <2>4, ClockAssumption DEF BoundaryAligned
  <2> QED BY <2>1, <2>2, <2>3, <2>5 DEF BoundaryAligned, Aligned, sym, Bucket
<1>3. CASE stage' # "close"
  BY <1>3 DEF BoundaryAligned
<1> QED BY <1>1, <1>2, <1>3, LeavesClose

(* A plan looked at on a boundary is timed.                                *)
LEMMA IntentIsTimed ==
    ASSUME FInv, BoundaryAligned, IntentsTimed, BoundaryOpen, NEW plan \in Intents
    PROVE  Timed(plan) /\ plan.armedAt[2] \in Int
<1>1. sym \in Symbols /\ now \in Clock /\ plan \in Plans
  BY BoundaryIsATime, IntentsArePlans
<1>2. plan.armedAt[2] \in Int
  BY <1>1, ClockAssumption DEF Plans, Clock
<1>3. CASE fsm[sym] # None
  BY <1>1, <1>2, <1>3 DEF Intents, IntentsTimed
<1>4. CASE fsm[sym] = None
  <2>1. plan.armedAt = now /\ boundary >= ObserveMin
    BY <1>4 DEF Intents, GatesAllow
  <2>2. plan.armedAt[2] = boundary
    BY <2>1 DEF now
  <2>3. Aligned(boundary)
    BY DEF BoundaryAligned, BoundaryOpen
  <2> QED BY <1>2, <2>1, <2>2, <2>3 DEF Timed
<1> QED BY <1>2, <1>3, <1>4

LEMMA IntentsTimedStep ==
    ASSUME FInv, BoundaryAligned, IntentsTimed, Next PROVE IntentsTimed'
<1> USE DEF FInv
<1>1. CASE UNCHANGED <<fsm, pending>>
  BY <1>1 DEF IntentsTimed, Timed, Elapsed, Aligned
<1>2. ASSUME \A s \in Symbols : /\ fsm'[s] # None => fsm'[s] = fsm[s]
                                /\ pending'[s] # None => pending'[s] = pending[s]
      PROVE  IntentsTimed'
  BY <1>2 DEF IntentsTimed, Timed, Elapsed, Aligned
<1>3. ASSUME NEW s \in Symbols, NEW t \in Times, SameDateCandle(s, t) \/ NewDateCandle(s, t)
      PROVE  IntentsTimed'
  BY <1>1, <1>3, ComesFacts
<1>4. CASE FeedEnds \/ SameSession \/ NothingFills \/ NoBar \/ Manage
  BY <1>1, <1>4 DEF FeedEnds, SameSession, NothingFills, NoBar, Manage, trading
<1>5. CASE Revalidate \/ Idle \/ PlanDropped
  BY <1>2, <1>5 DEF Revalidate, Idle, PlanDropped, TypeOK
<1>6. ASSUME NEW r \in Results, EndSession(r) PROVE IntentsTimed'
  BY <1>2, <1>6 DEF EndSession, TypeOK
<1>7. ASSUME NEW amt \in RiskAmounts, Fill(amt) PROVE IntentsTimed'
  BY <1>2, <1>7 DEF Fill, TypeOK
<1>8. CASE NoExit \/ \E r \in Results : Exit(r)
  BY <1>1, <1>8 DEF NoExit, Exit, StoreCandle
<1>9. ASSUME NEW s \in Symbols, NEW r \in Results, Finalize(s, r) PROVE IntentsTimed'
  BY <1>1, <1>9 DEF Finalize
<1>10. ASSUME BoundaryOpen, NEW plan \in Intents, Hold(plan) PROVE IntentsTimed'
  <2>1. sym \in Symbols /\ Timed(plan)
    BY <1>10, BoundaryIsATime, IntentIsTimed
  <2>2. /\ \A s \in Symbols : s # sym => fsm'[s] = fsm[s]
        /\ fsm'[sym] = plan /\ pending' = pending
    BY <1>10, <2>1 DEF Hold, TypeOK
  <2> QED BY <2>1, <2>2 DEF IntentsTimed, Timed, Elapsed, Aligned
<1>11. ASSUME BoundaryOpen, NEW plan \in Intents, Trigger(plan) PROVE IntentsTimed'
  <2>1. sym \in Symbols /\ Timed(plan) /\ plan.armedAt[2] \in Int /\ now \in Clock
    BY <1>11, BoundaryIsATime, IntentIsTimed
  <2>2. Elapsed(plan.armedAt, now) <= ArmTTL * BarMinutes
    <3>1. plan.armedAt[1] = now[1] /\ now[1] \in Int
      BY <1>11, <2>1, IntentIsDated DEF now, Clock, Dates
    <3>2. now[2] = boundary /\ boundary \in Int /\ Aligned(boundary)
      BY <1>11 DEF now, BoundaryAligned, BoundaryOpen, TypeOK
    <3>3. Elapsed(plan.armedAt, now) = boundary - plan.armedAt[2]
      BY <2>1, <3>1, <3>2 DEF Elapsed, DayMinutes
    <3>4. boundary - plan.armedAt[2] < (ArmTTL + 1) * BarMinutes
      <4>1. ~(boundary - plan.armedAt[2] >= (ArmTTL + 1) * BarMinutes)
        BY <1>11, <3>3 DEF Trigger, Expired
      <4> QED BY <2>1, <3>2, <4>1, ClockAssumption
    <3>5. Aligned(plan.armedAt[2]) /\ ArmTTL \in Int
      BY <2>1, ClockAssumption DEF Timed
    <3>6. boundary - plan.armedAt[2] <= ArmTTL * BarMinutes
      BY <2>1, <3>2, <3>4, <3>5, NextBar
    <3> QED BY <3>3, <3>6
  <2>3. /\ \A s \in Symbols : s # sym => fsm'[s] = fsm[s] /\ pending'[s] = pending[s]
        /\ fsm'[sym] = None /\ pending'[sym].plan = plan /\ pending'[sym].since = now
    BY <1>11, <2>1 DEF Trigger, TypeOK
  <2> HIDE DEF FInv
  <2> QED BY <2>1, <2>2, <2>3 DEF IntentsTimed, Timed, Elapsed, Aligned
<1>12. CASE OnM5Close
  BY <1>4, <1>5, <1>10, <1>11, <1>12 DEF OnM5Close
<1> QED BY <1>3, <1>4, <1>5, <1>6, <1>7, <1>8, <1>9, <1>12 DEF Next

LEMMA IntentsNeedBarsStep ==
    ASSUME FInv, IntentsNeedBars, Next PROVE IntentsNeedBars'
<1> USE DEF FInv
<1>1. ASSUME barDate' = barDate,
             \A s \in Symbols : /\ fsm'[s] # None => fsm[s] # None
                                /\ pending'[s] # None => pending[s] # None
                                /\ position'[s] # None => position[s] # None
      PROVE  IntentsNeedBars'
  BY <1>1 DEF IntentsNeedBars
<1>2. ASSUME NEW s \in Symbols, NEW t \in Times, SameDateCandle(s, t) \/ NewDateCandle(s, t)
      PROVE  IntentsNeedBars'
  <2>1. \A p \in Symbols : position'[p] # None => position[p] # None
    BY <1>2 DEF SameDateCandle, NewDateCandle
  <2> QED BY <1>1, <1>2, <2>1, ComesFacts
<1>3. CASE FeedEnds \/ SameSession \/ NothingFills \/ NoBar
  BY <1>1, <1>3 DEF FeedEnds, SameSession, NothingFills, NoBar, trading, market
<1>4. CASE PlanDropped
  BY <1>1, <1>4 DEF PlanDropped, TypeOK, market
<1>5. ASSUME NEW r \in Results, EndSession(r) PROVE IntentsNeedBars'
  BY <1>1, <1>5 DEF EndSession, TypeOK, market
<1>6. ASSUME NEW s \in Symbols, NEW r \in Results, Finalize(s, r) PROVE IntentsNeedBars'
  BY <1>1, <1>6 DEF Finalize, TypeOK, market
<1>7. ASSUME NEW amt \in RiskAmounts, Fill(amt) PROVE IntentsNeedBars'
  <2>1. \A s \in Symbols : pending'[s] # None => pending[s] # None
    BY <1>7 DEF Fill, TypeOK
  <2> QED BY <1>7, <2>1, FillFacts DEF IntentsNeedBars
<1>8. ASSUME StoreCandle, \A s \in Symbols : position'[s] # None => position[s] # None
      PROVE  IntentsNeedBars'
  BY <1>8, StoreFacts DEF IntentsNeedBars
<1>9. CASE NoExit
  BY <1>8, <1>9 DEF NoExit
<1>10. ASSUME NEW r \in Results, Exit(r) PROVE IntentsNeedBars'
  BY <1>8, <1>10 DEF Exit, TypeOK
<1>11. ASSUME ClosesBar, \A s \in Symbols \ {sym} : fsm'[s] = fsm[s] /\ pending'[s] = pending[s]
       PROVE  IntentsNeedBars'
  BY <1>11 DEF IntentsNeedBars, ClosesBar, market
<1>12. CASE OnM5Close
  <2>1. CASE Manage
    BY <1>11, <2>1 DEF Manage
  <2>2. CASE Revalidate
    BY <1>11, <2>2 DEF Revalidate, TypeOK
  <2>3. CASE Idle
    BY <1>11, <2>3 DEF Idle, EntryFlow, TypeOK
  <2>4. ASSUME NEW plan \in Intents, Hold(plan) \/ Trigger(plan) PROVE IntentsNeedBars'
    BY <1>11, <2>4 DEF Hold, Trigger, EntryFlow, TypeOK
  <2> QED BY <1>3, <1>12, <2>1, <2>2, <2>3, <2>4 DEF OnM5Close
<1> QED BY <1>2, <1>3, <1>4, <1>5, <1>6, <1>7, <1>9, <1>10, <1>12 DEF Next

(* When the boundaries of a held symbol are done, the exit is queued if    *)
(* the candle is past the squareoff.                                       *)
LEMMA BoundariesSawSquareoff ==
    ASSUME FInv, BoundaryAligned, ExitIsQueued, FlatAfterSquareoff, BoundariesDone,
           position[sym] # None
    PROVE  exits[sym] \/ Bucket(ts[2]) < Squareoff
<1> SUFFICES ASSUME Bucket(ts[2]) >= Squareoff PROVE exits[sym]
  <2>1. Bucket(ts[2]) \in Int /\ Squareoff \in Int
    <3>1. ts[2] \in Minutes
      BY SymbolInHand DEF BoundariesDone, Times
    <3> QED BY <3>1, BucketBound, ClockAssumption
  <2> QED BY <2>1
<1>1. sym \in Symbols /\ ts \in Times /\ stage = "close" /\ session = ts[1]
  BY SymbolInHand DEF BoundariesDone, FInv, CandleInHand
<1>2. lastTs[sym] # None /\ lastTs[sym][1] = ts[1] /\ lastTs[sym] \in Times
  BY <1>1 DEF FInv, PositionsPriced, TypeOK
<1>3. LastBoundary = Bucket(ts[2])
  BY <1>2 DEF LastBoundary
<1> DEFINE b == Bucket(ts[2])
           l == Bucket(lastTs[sym][2])
<1>4. /\ b \in Int /\ Aligned(b) /\ l \in Int /\ Aligned(l)
  <2>1. ts[2] \in Minutes /\ lastTs[sym][2] \in Minutes
    BY <1>1, <1>2 DEF Times
  <2> QED BY <2>1, BucketIsAligned
<1>5. boundary \in Int /\ Aligned(boundary) /\ ~(boundary <= b)
  BY <1>1, <1>2, <1>3 DEF BoundaryAligned, FInv, TypeOK, BoundariesDone, BoundaryOpen
<1>6. l < Squareoff /\ b >= Squareoff /\ Squareoff \in Int /\ BarMinutes \in Int
  BY <1>1, <1>2, ClockAssumption DEF FlatAfterSquareoff
<1> HIDE DEF b, l
<1>7. boundary >= b + BarMinutes /\ b >= l + BarMinutes
  <2>1. boundary > b /\ b > l
    BY <1>4, <1>5, <1>6
  <2> QED BY <1>4, <1>5, <2>1, NextBar
<1>8. ~(boundary - BarMinutes < Squareoff) /\ boundary # l + BarMinutes
  BY <1>4, <1>5, <1>6, <1>7, ClockAssumption
<1> QED BY <1>1, <1>8 DEF ExitIsQueued, l

LEMMA ExitIsQueuedStep ==
    ASSUME CInv, Next PROVE ExitIsQueued'
<1> USE DEF CInv
<1>1. ASSUME NEW s \in Symbols, NEW t \in Times, SameDateCandle(s, t) \/ NewDateCandle(s, t)
      PROVE  ExitIsQueued'
  <2>1. stage' = "close" /\ sym' = s /\ lastTs' = lastTs
    BY <1>1, ComesFacts
  <2>2. position'[s] # None => lastTs[s] # None
    <3>1. position'[s] # None => position[s] # None
      BY <1>1 DEF SameDateCandle, NewDateCandle
    <3> QED BY <1>1, <3>1, ComesFacts DEF FInv, PositionsPriced
  <2>3. position'[s] # None => boundary' = Bucket(lastTs[s][2]) + BarMinutes
    BY <1>1, <2>2, ComesFacts
  <2> QED BY <2>1, <2>3 DEF ExitIsQueued, Bucket
<1>2. CASE stage' \in {"feed", "final"}
  BY <1>2 DEF ExitIsQueued
<1>3. CASE OnM5Close
  <2>1. /\ boundary' = boundary + BarMinutes /\ boundary \in Int
        /\ stage' = "close" /\ sym' = sym /\ sym \in Symbols
    BY <1>3, BoundaryStep, BoundaryEffect, SymbolInHand DEF sym
  <2>2. CASE position[sym] = None
    BY <1>3, <2>1, <2>2, BoundaryEffect DEF ExitIsQueued
  <2>3. CASE position[sym] # None
    <3>1. Manage
      BY <1>3, <2>1, <2>3
         DEF OnM5Close, NoBar, IntentsNeedBars, Revalidate, Idle, Hold, Trigger, EntryFlow
    <3>2. boundary >= Squareoff => exits'[sym]
      BY <2>1, <3>1 DEF Manage, FInv, TypeOK
    <3>3. boundary' - BarMinutes = boundary /\ Squareoff \in Int
      BY <2>1, ClockAssumption
    <3>4. exits'[sym] \/ boundary' - BarMinutes < Squareoff
      BY <2>1, <3>2, <3>3
    <3> QED BY <2>1, <3>4 DEF ExitIsQueued
  <2> QED BY <2>2, <2>3
<1>4. CASE SameSession
  <2>1. UNCHANGED <<candle, position, exits>> /\ stage' = "fill" /\ BoundariesDone
    BY <1>4 DEF SameSession, trading
  <2> QED BY <2>1, BoundariesSawSquareoff DEF ExitIsQueued, sym, ts, Bucket
<1>5. ASSUME NEW r \in Results, EndSession(r) PROVE ExitIsQueued'
  <2>1. sym \in Symbols /\ stage' = "fill" /\ sym' = sym
    BY <1>5, SymbolInHand DEF EndSession, BoundariesDone, sym
  <2>2. position[sym] # None => lastTs[sym] # None
    BY <1>5, <2>1 DEF FInv, PositionsPriced, EndSession, BoundariesDone
  <2>3. CASE ForceClosable(sym)
    <3>1. position'[sym] = None
      BY <1>5, <2>1, <2>3 DEF EndSession, FInv, TypeOK
    <3> QED BY <2>1, <3>1 DEF ExitIsQueued
  <2>4. CASE ~ForceClosable(sym)
    <3>1. position' = position /\ exits'[sym] = Stranded(sym)
      BY <1>5, <2>1, <2>4 DEF EndSession, FInv, TypeOK
    <3>2. position[sym] # None => Stranded(sym)
      BY <2>2, <2>4 DEF Stranded
    <3> QED BY <2>1, <3>1, <3>2 DEF ExitIsQueued
  <2> QED BY <2>3, <2>4
<1>6. CASE NothingFills \/ PlanDropped
  <2>1. UNCHANGED <<candle, position, exits>> /\ stage = "fill" /\ stage' = "store"
    BY <1>6 DEF NothingFills, PlanDropped, Fills, trading
  <2> QED BY <2>1 DEF ExitIsQueued, sym, ts, Bucket
<1>7. ASSUME NEW amt \in RiskAmounts, Fill(amt) PROVE ExitIsQueued'
  <2>1. ts[2] \in Minutes /\ ts[2] < Cutoff /\ candle' = candle /\ stage' = "store"
    BY <1>7, FillFacts DEF Fill, Fills
  <2>2. Bucket(ts[2]) \in 0 .. ts[2]
    BY <2>1, BucketBound
  <2>3. Bucket(ts[2]) < Squareoff
    BY <2>1, <2>2, ClockAssumption DEF Minutes
  <2>4. ts' = ts
    BY <2>1 DEF ts
  <2> QED BY <2>1, <2>3, <2>4 DEF ExitIsQueued, Bucket
<1>8. CASE \/ FeedEnds \/ NoExit \/ \E r \in Results : Exit(r)
           \/ \E s \in Symbols, r \in Results : Finalize(s, r)
  BY <1>2, <1>8 DEF FeedEnds, NoExit, Exit, StoreCandle, Finalize
<1> QED BY <1>1, <1>3, <1>4, <1>5, <1>6, <1>7, <1>8 DEF Next

LEMMA TradesAreFreshStep ==
    ASSUME CInv, Next PROVE TradesAreFresh'
<1> USE DEF CInv
<1>1. ASSUME NEW s \in Symbols, position'[s] # None, position'[s] = position[s]
      PROVE  /\ position'[s].plan.armedAt[2] >= ObserveMin /\ position'[s].opened[2] < Cutoff
             /\ Elapsed(position'[s].plan.armedAt, position'[s].opened)
                  < (ArmTTL + FillTTL) * BarMinutes
  BY <1>1 DEF TradesAreFresh
<1>2. ASSUME NEW amt \in RiskAmounts, Fill(amt)
      PROVE  /\ position'[sym].plan.armedAt[2] >= ObserveMin /\ position'[sym].opened[2] < Cutoff
             /\ Elapsed(position'[sym].plan.armedAt, position'[sym].opened)
                  < (ArmTTL + FillTTL) * BarMinutes
  <2> DEFINE p == pending[sym]
             a == p.plan.armedAt
             w == p.since
  <2>1. /\ sym \in Symbols /\ ts[2] < Cutoff /\ p # None /\ p \in Resting /\ ~Unfilled
        /\ position'[sym].plan = p.plan /\ position'[sym].opened = ts /\ ts \in Times
    BY <1>2, FillFacts
  <2>2. Timed(p.plan) /\ Elapsed(a, w) <= ArmTTL * BarMinutes
    BY <2>1 DEF IntentsTimed
  <2>3. /\ a[1] \in Int /\ a[2] \in Int /\ w[1] \in Int /\ w[2] \in Int
        /\ ts[1] \in Int /\ ts[2] \in Int
    BY <2>1, ClockAssumption DEF Resting, Plans, Clock, Times, Dates, Minutes
  <2>4. ~(Elapsed(w, ts) >= FillTTL * BarMinutes)
    BY <2>1 DEF Unfilled
  <2> HIDE DEF a, w
  <2>5. Elapsed(a, ts) = Elapsed(a, w) + Elapsed(w, ts)
    BY <2>3 DEF Elapsed, DayMinutes
  <2>6. Elapsed(a, w) \in Int /\ Elapsed(w, ts) \in Int
    BY <2>3 DEF Elapsed, DayMinutes
  <2>7. ArmTTL * BarMinutes + FillTTL * BarMinutes = (ArmTTL + FillTTL) * BarMinutes
    BY ClockAssumption
  <2>8. ArmTTL * BarMinutes \in Int /\ FillTTL * BarMinutes \in Int
    BY ClockAssumption
  <2>9. Elapsed(a, ts) < (ArmTTL + FillTTL) * BarMinutes
    BY <2>2, <2>4, <2>5, <2>6, <2>7, <2>8
  <2> QED BY <2>1, <2>2, <2>9 DEF a, Timed
<1>3. CASE \E amt \in RiskAmounts : Fill(amt)
  BY <1>1, <1>2, <1>3, FillFacts DEF TradesAreFresh
<1>4. CASE ~ \E amt \in RiskAmounts : Fill(amt)
  BY <1>1, <1>4, OldPositions DEF TradesAreFresh
<1> QED BY <1>3, <1>4

LEMMA FlatAfterSquareoffStep ==
    ASSUME CInv, Next PROVE FlatAfterSquareoff'
<1> USE DEF CInv
<1>1. ASSUME NEW amt \in RiskAmounts, Fill(amt) PROVE FlatAfterSquareoff'
  <2>1. /\ sym \in Symbols /\ ts[2] \in Minutes /\ ts[2] < Cutoff /\ ts[1] \in Int
        /\ lastTs[sym] \in Times /\ lastTs[sym][1] = ts[1] /\ lastTs' = lastTs
        /\ \A s \in Symbols : s # sym => position'[s] = position[s]
    BY <1>1, FillFacts DEF Times, Dates
  <2>2. AtOrAfter(ts, lastTs[sym])
    BY <1>1, <2>1, NoneApartAssumption DEF CandleFollows, Fill, Fills
  <2>3. lastTs[sym][2] \in Minutes /\ lastTs[sym][2] <= ts[2]
    BY <2>1, <2>2 DEF AtOrAfter, Times
  <2>4. Bucket(lastTs[sym][2]) \in 0 .. lastTs[sym][2]
    BY <2>3, BucketBound
  <2>5. Bucket(lastTs[sym][2]) < Squareoff
    BY <2>1, <2>3, <2>4, ClockAssumption DEF Minutes
  <2> QED BY <2>1, <2>5 DEF FlatAfterSquareoff
<1>2. ASSUME lastTs' = lastTs, ~ \E amt \in RiskAmounts : Fill(amt) PROVE FlatAfterSquareoff'
  BY <1>2, OldPositions DEF FlatAfterSquareoff
<1>3. ASSUME StoreCandle, position'[sym] # None => Bucket(ts[2]) < Squareoff,
             ~ \E amt \in RiskAmounts : Fill(amt)
      PROVE  FlatAfterSquareoff'
  BY <1>3, StoreFacts, OldPositions DEF FlatAfterSquareoff
<1>4. CASE NoExit
  <2>1. sym \in Symbols /\ stage = "store" /\ session = ts[1] /\ StoreCandle /\ position' = position
    BY <1>4, StoreFacts DEF NoExit, FInv, CandleInHand
  <2>2. position[sym] # None => ~OtherDate
    BY <2>1 DEF OtherDate, FInv, PositionsPriced
  <2>3. position[sym] # None => ~exits[sym]
    BY <1>4, <2>2 DEF NoExit
  <2>4. position'[sym] # None => Bucket(ts[2]) < Squareoff
    BY <2>1, <2>3 DEF ExitIsQueued
  <2>5. ~ \E amt \in RiskAmounts : Fill(amt)
    BY <2>1 DEF Fill, Fills
  <2> QED BY <1>3, <2>1, <2>4, <2>5
<1>5. ASSUME NEW r \in Results, Exit(r) PROVE FlatAfterSquareoff'
  <2>1. StoreCandle /\ position'[sym] = None /\ stage = "store"
    BY <1>5, StoreFacts DEF Exit, FInv, TypeOK
  <2>2. ~ \E amt \in RiskAmounts : Fill(amt)
    BY <2>1 DEF Fill, Fills
  <2> QED BY <1>3, <2>1, <2>2
<1>6. ASSUME ~StoreCandle PROVE lastTs' = lastTs
  <2>1. CASE \E s \in Symbols, t \in Times : SameDateCandle(s, t) \/ NewDateCandle(s, t)
    BY <2>1, ComesFacts
  <2>2. CASE OnM5Close
    BY <2>2, BoundaryEffect DEF market
  <2>3. CASE FeedEnds \/ SameSession \/ NothingFills \/ PlanDropped
    BY <2>3 DEF FeedEnds, SameSession, NothingFills, PlanDropped, market
  <2>4. CASE \/ \E r \in Results : EndSession(r)
             \/ \E amt \in RiskAmounts : Fill(amt)
             \/ \E s \in Symbols, r \in Results : Finalize(s, r)
    BY <2>4 DEF EndSession, Fill, Finalize, market
  <2> QED BY <1>6, <2>1, <2>2, <2>3, <2>4 DEF Next, NoExit, Exit
<1>7. CASE ~StoreCandle
  BY <1>1, <1>2, <1>6, <1>7
<1>8. CASE StoreCandle
  <2>1. stage = "store"
    BY <1>8, StoreFacts
  <2>2. NoExit \/ \E r \in Results : Exit(r)
    <3>1. ASSUME NEW s \in Symbols, NEW t \in Times, SameDateCandle(s, t) \/ NewDateCandle(s, t)
          PROVE  FALSE
      BY <2>1, <3>1, ComesFacts
    <3>2. ~OnM5Close
      BY <2>1, BoundaryEffect
    <3> QED BY <2>1, <3>1, <3>2 DEF Next, FeedEnds, SameSession, BoundariesDone, NothingFills,
               PlanDropped, Fills, EndSession, Fill, Finalize
  <2> QED BY <1>4, <1>5, <2>2
<1> QED BY <1>7, <1>8

-----------------------------------------------------------------------------
(* The invariant, and what follows.                                        *)

LEMMA InitClock == Init => CInv
<1> SUFFICES ASSUME Init PROVE CInv
  OBVIOUS
<1>1. FInv
  BY InitInvariant
<1> QED BY <1>1 DEF Init, CInv, CandleFollows, BoundaryAligned, IntentsTimed, IntentsNeedBars,
                   ExitIsQueued, TradesAreFresh, FlatAfterSquareoff

LEMMA NextClock == CInv /\ Next => CInv'
<1> SUFFICES ASSUME CInv, Next PROVE CInv'
  OBVIOUS
<1>1. FInv'
  BY NextInvariant DEF CInv
<1>2. CandleFollows' /\ BoundaryAligned' /\ IntentsTimed' /\ IntentsNeedBars'
  BY CandleFollowsStep, BoundaryAlignedStep, IntentsTimedStep, IntentsNeedBarsStep DEF CInv
<1> QED BY <1>1, <1>2, ExitIsQueuedStep, TradesAreFreshStep, FlatAfterSquareoffStep DEF CInv

LEMMA StutterClock == CInv /\ UNCHANGED vars => CInv'
<1> SUFFICES ASSUME CInv, UNCHANGED vars PROVE CInv'
  OBVIOUS
<1>1. FInv'
  BY StutterInvariant DEF CInv
<1>2. sym' = sym /\ ts' = ts
  BY DEF vars, sym, ts
<1> QED BY <1>1, <1>2 DEF CInv, vars, market, trading, CandleFollows, BoundaryAligned, IntentsTimed,
             IntentsNeedBars, ExitIsQueued, TradesAreFresh, FlatAfterSquareoff, Timed, Aligned,
             Bucket, Elapsed, AtOrAfter

(* The clock on top of FInv: boundaries are whole bars, plans are armed in *)
(* the window, and what the squareoff leaves open has its exit queued.     *)
THEOREM ClockInvariant == Spec => []CInv
<1>1. CInv /\ [Next]_vars => CInv'
  BY NextClock, StutterClock
<1> QED BY <1>1, InitClock, PTL DEF Spec

(* A trade opens inside the window, soon after its setup was armed.        *)
THEOREM TradesAreFreshThm == Spec => []TradesAreFresh
<1>1. CInv => TradesAreFresh
  BY DEF CInv
<1> QED BY <1>1, ClockInvariant, PTL

(* No symbol with a candle past its first boundary at or after the         *)
(* squareoff is held, whatever gaps its candles have.                      *)
THEOREM FlatAfterSquareoffThm == Spec => []FlatAfterSquareoff
<1>1. CInv => FlatAfterSquareoff
  BY DEF CInv
<1> QED BY <1>1, ClockInvariant, PTL
=============================================================================
