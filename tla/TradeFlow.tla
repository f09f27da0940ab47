------------------------------ MODULE TradeFlow ------------------------------
(***************************************************************************)
(* Orchestrator.run and the trading half of every SymbolPipeline           *)
(* (src/app/trader/engine/pipeline.py) over one shared risk ledger: a      *)
(* setup is armed, rests as a limit order, fills, is managed, exits.       *)
(*                                                                         *)
(* One thread runs everything, so a step is a stretch of that thread:      *)
(*   "feed"   the feed hands over the next M1 candle (or ends)             *)
(*   "close"  on_m1 closes the M5 boundaries passed since the symbol's     *)
(*            last candle, one step each, then ends a finished session     *)
(*   "fill"   _fill_pending lets the candle trade the resting limit        *)
(*   "store"  queued exits run at the candle's open, the candle is stored  *)
(*   "final"  the feed is exhausted, each pipeline is finalized            *)
(* What zones, candles and gates without state say is any of their answers.*)
(* A PARTIAL exit changes nothing here (it never empties a position), so   *)
(* the exit queue is one flag: a full exit is queued.                      *)
(***************************************************************************)
EXTENDS RiskLedger, FiniteSetsExt

CONSTANTS
    LastDate,           \* dates run from 1 to LastDate; 0 is cached history
    BarMinutes,         \* minutes of an M5 bar
    SessionMinutes,     \* spec.session_minutes
    ObserveMin,         \* TimeWindowGate.observe_min
    Cutoff,             \* time.no_entry_after, minutes from the open
    Squareoff,          \* time.squareoff, likewise
    ArmTTL,             \* entry.arm_ttl_candles
    FillTTL,            \* entry.fill_ttl_candles
    RiskAmounts,        \* what risk_pts * qty can come to
    Results             \* the R multiples a trade can close with

ASSUME ClockAssumption ==
    /\ LastDate \in Nat \ {0} /\ BarMinutes \in Nat \ {0} /\ SessionMinutes \in Nat \ {0}
    /\ ObserveMin \in Nat /\ Cutoff \in Nat /\ Squareoff \in Nat /\ Cutoff < Squareoff
    /\ ArmTTL \in Nat \ {0} /\ FillTTL \in Nat \ {0}
(* EntryFSM.arm sizes qty to budget // risk and the limit fills at its CE. *)
ASSUME AmountsAssumption == RiskAmounts \subseteq 1 .. Budget /\ Results \subseteq Int

VARIABLES
    stage,      \* what the thread does next
    candle,     \* [sym, ts] in hand
    boundary,   \* minute of the next M5 boundary to close, on the old date
    session,    \* Orchestrator._session
    ledger,     \* Orchestrator.risk
    lastTs,     \* per symbol: its last stored candle, None before the first
    members,    \* per symbol: candles stored in that candle's M5 bucket
    barDate,    \* per symbol: date of its last complete M5 bar, None if none
    day,        \* per symbol: day.session_date, None before the first bar
    fsm,        \* per symbol: the armed plan, None when IDLE
    pending,    \* per symbol: the resting plan, None when none
    position,   \* per symbol: the open position, None when flat
    exits,      \* per symbol: is a full exit queued in _pending_exits?
    finalized   \* the symbols finalize has visited

market == <<lastTs, members, barDate>>
trading == <<day, fsm, pending, position, exits>>
vars == <<stage, candle, boundary, session, ledger, market, trading, finalized>>

Dates   == 1 .. LastDate
Minutes == 0 .. SessionMinutes - 1
Times   == Dates \X Minutes
Clock   == Dates \X (0 .. SessionMinutes)                \* ctx.now of a boundary
Plans     == [dir : Directions, armedAt : Clock]
Resting   == [plan : Plans, since : Clock]
Positions == [plan : Plans, opened : Times, risk : RiskAmounts]

ASSUME NoneApartAssumption ==
    /\ None \notin 0 .. LastDate /\ None \notin Times
    /\ None \notin Plans /\ None \notin Resting /\ None \notin Positions
    /\ None \notin [dir : Directions, risk : RiskAmounts]

sym == candle.sym
ts  == candle.ts
now == <<lastTs[sym][1], boundary>>      \* ctx.now while a boundary closes

AtOrAfter(a, b) == b[1] < a[1] \/ (b[1] = a[1] /\ b[2] <= a[2])
Bucket(m) == (m \div BarMinutes) * BarMinutes
Expected(m) ==      \* M1 members a complete bucket holds; the last one may be short
    LET end == Bucket(m) + BarMinutes
    IN  (IF end > SessionMinutes THEN SessionMinutes ELSE end) - Bucket(m)

(* The last boundary on_m1 closes before this candle.                      *)
LastBoundary ==
    IF lastTs[sym] = None THEN 0
    ELSE IF lastTs[sym][1] = ts[1] THEN Bucket(ts[2]) ELSE SessionMinutes

Init ==
    /\ stage = "feed" /\ candle = None /\ boundary = 0
    /\ session = None /\ ledger = EmptyLedger
    /\ lastTs = [s \in Symbols |-> None] /\ members = [s \in Symbols |-> 0]
    /\ barDate \in [Symbols -> {None, 0}]
    /\ day = [s \in Symbols |-> None] /\ fsm = [s \in Symbols |-> None]
    /\ pending = [s \in Symbols |-> None] /\ position = [s \in Symbols |-> None]
    /\ exits = [s \in Symbols |-> FALSE] /\ finalized = {}

-----------------------------------------------------------------------------
(* Orchestrator.run: the next candle.                                      *)

(* _force_close_eod prices the exit off the symbol's last M1 candle, and   *)
(* _run_exits refuses a candle of another date than the entry's.           *)
ForceClosable(s) ==
    position[s] # None /\ lastTs[s] # None /\ lastTs[s][1] = position[s].opened[1]

(* Otherwise the queue keeps the forced exit.                              *)
Stranded(s) == position[s] # None /\ lastTs[s] # None /\ ~ForceClosable(s)

Comes(s, t) ==
    /\ stage = "feed"
    /\ candle # None => AtOrAfter(t, ts)
    /\ lastTs[s] # None => AtOrAfter(t, lastTs[s]) /\ t # lastTs[s]
    /\ candle' = [sym |-> s, ts |-> t]
    /\ stage' = "close"
    /\ boundary' = IF lastTs[s] = None THEN BarMinutes ELSE Bucket(lastTs[s][2]) + BarMinutes
    /\ UNCHANGED <<market, day, fsm, pending, finalized>>

SameDateCandle(s, t) ==
    /\ Comes(s, t)
    /\ session = t[1]
    /\ UNCHANGED <<session, ledger, position, exits>>

(* Mutant of NewDateCandle: the ledger is reset but nothing is settled.    *)
ResetWithoutSettling(s, t) ==
    /\ Comes(s, t)
    /\ session # t[1]
    /\ session' = t[1] /\ ledger' = EmptyLedger
    /\ UNCHANGED <<position, exits>>

(* The first candle of a date: every pipeline is force-closed into the old *)
(* ledger, then the ledger is reset.                                       *)
NewDateCandle(s, t) ==
    /\ Comes(s, t)
    /\ session # t[1]
    /\ position' = [p \in Symbols |->
                      IF session # None /\ ForceClosable(p) THEN None ELSE position[p]]
    /\ exits' = IF session = None THEN exits
                ELSE [p \in Symbols |-> Stranded(p)]
    /\ session' = t[1] /\ ledger' = EmptyLedger

(* The feed is exhausted.                                                  *)
FeedEnds ==
    /\ stage = "feed"
    /\ stage' = "final"
    /\ UNCHANGED <<candle, boundary, session, ledger, market, trading, finalized>>

-----------------------------------------------------------------------------
(* SymbolPipeline._on_m5_close at one boundary.                            *)

BoundaryOpen ==
    stage = "close" /\ lastTs[sym] # None /\ boundary <= LastBoundary

(* No complete M5 bar yet: the boundary does nothing.                      *)
NoBar ==
    /\ BoundaryOpen /\ barDate[sym] = None
    /\ boundary' = boundary + BarMinutes
    /\ UNCHANGED <<stage, candle, session, ledger, market, trading, finalized>>

(* The day rolls to the date of the last complete bar.                     *)
ClosesBar ==
    /\ BoundaryOpen /\ barDate[sym] # None
    /\ boundary' = boundary + BarMinutes
    /\ day' = [day EXCEPT ![sym] = barDate[sym]]
    /\ UNCHANGED <<stage, candle, session, ledger, market, position, finalized>>

(* Mutant of Manage: the squareoff is left to the other exit rules.        *)
ManageWithoutSquareoff ==
    /\ ClosesBar /\ position[sym] # None
    /\ exits' \in {exits, [exits EXCEPT ![sym] = TRUE]}
    /\ UNCHANGED <<fsm, pending>>

(* PositionManager.on_candle: the squareoff always queues an exit; before  *)
(* it stop, target, counter and stall may.                                 *)
Manage ==
    /\ ClosesBar /\ position[sym] # None
    /\ exits' \in IF boundary >= Squareoff THEN {[exits EXCEPT ![sym] = TRUE]}
                  ELSE {exits, [exits EXCEPT ![sym] = TRUE]}
    /\ UNCHANGED <<fsm, pending>>

(* _revalidate_pending: the setup may have gone stale.                     *)
Revalidate ==
    /\ ClosesBar /\ position[sym] = None /\ pending[sym] # None
    /\ pending' \in {pending, [pending EXCEPT ![sym] = None]}
    /\ UNCHANGED <<fsm, exits>>

(* GateChain.check: the clock and the budget decide, the other gates may   *)
(* veto; ladder, grade and EntryFSM.arm may refuse too.                    *)
GatesAllow(dir) ==
    /\ boundary >= ObserveMin /\ boundary < Cutoff
    /\ BudgetAllows(ledger, sym, dir, now)

(* The plans EntryFSM.step may look at in _entry_flow: the armed one, or   *)
(* one armed on this very close.                                           *)
Intents ==
    IF fsm[sym] # None THEN {fsm[sym]}
    ELSE {[dir |-> d, armedAt |-> now] : d \in {d \in Directions : GatesAllow(d)}}

Expired(plan) == Elapsed(plan.armedAt, now) >= (ArmTTL + 1) * BarMinutes

(* Mutant of EntryFlow: a resting plan does not keep the entry flow shut.  *)
EntryFlowIgnoresPending == ClosesBar /\ position[sym] = None /\ UNCHANGED exits

EntryFlow == ClosesBar /\ position[sym] = None /\ pending[sym] = None /\ UNCHANGED exits

(* Nothing armed, or the plan disarmed: chased, expired, zone_broken.      *)
Idle ==
    /\ EntryFlow
    /\ fsm' = [fsm EXCEPT ![sym] = None]
    /\ UNCHANGED pending

Hold(plan) ==
    /\ EntryFlow
    /\ ~Expired(plan)
    /\ fsm' = [fsm EXCEPT ![sym] = plan]
    /\ UNCHANGED pending

(* Mutant of Trigger: the limit rests without the moment it began to.      *)
TriggerUnstamped(plan) ==
    /\ EntryFlow
    /\ ~Expired(plan)
    /\ fsm' = [fsm EXCEPT ![sym] = None]
    /\ pending' = [pending EXCEPT ![sym] = [plan |-> plan, since |-> None]]

(* The trigger: the plan now rests as a limit order.                       *)
Trigger(plan) ==
    /\ EntryFlow
    /\ ~Expired(plan)
    /\ fsm' = [fsm EXCEPT ![sym] = None]
    /\ pending' = [pending EXCEPT ![sym] = [plan |-> plan, since |-> now]]

OnM5Close ==
    \/ NoBar
    \/ Manage
    \/ Revalidate
    \/ Idle
    \/ BoundaryOpen /\ \E plan \in Intents : Hold(plan) \/ Trigger(plan)

-----------------------------------------------------------------------------
(* SymbolPipeline.on_m1, after its boundaries.                             *)

BoundariesDone == stage = "close" /\ ~BoundaryOpen

SessionOver == day[sym] # None /\ day[sym] # ts[1]

SameSession ==
    /\ BoundariesDone /\ ~SessionOver
    /\ stage' = "fill"
    /\ UNCHANGED <<candle, boundary, session, ledger, market, trading, finalized>>

(* Mutant of EndSession: the resting plan survives the gap.                *)
EndSessionKeepsPlan(r) ==
    /\ BoundariesDone /\ SessionOver
    /\ stage' = "fill"
    /\ IF ForceClosable(sym)
       THEN /\ position' = [position EXCEPT ![sym] = None]
            /\ ledger' = RecordClose(ledger, sym, r, lastTs[sym])
       ELSE UNCHANGED <<position, ledger>>
    /\ exits' = [exits EXCEPT ![sym] = Stranded(sym)]
    /\ UNCHANGED <<pending, fsm, candle, boundary, session, market, day, finalized>>

(* _end_session: settle, then drop the resting plan and disarm.            *)
EndSession(r) ==
    /\ BoundariesDone /\ SessionOver
    /\ stage' = "fill"
    /\ IF ForceClosable(sym)
       THEN /\ position' = [position EXCEPT ![sym] = None]
            /\ ledger' = RecordClose(ledger, sym, r, lastTs[sym])
       ELSE UNCHANGED <<position, ledger>>
    /\ exits' = [exits EXCEPT ![sym] = Stranded(sym)]
    /\ pending' = [pending EXCEPT ![sym] = None]
    /\ fsm' = [fsm EXCEPT ![sym] = None]
    /\ UNCHANGED <<candle, boundary, session, market, day, finalized>>

-----------------------------------------------------------------------------
(* _fill_pending on the candle in hand.                                    *)

Fills == stage = "fill" /\ stage' = "store"

TooLate == ts[2] >= Cutoff
(* Mutant of Unfilled: one minute too long.                                *)
UnfilledLate == Elapsed(pending[sym].since, ts) > FillTTL * BarMinutes

Unfilled == Elapsed(pending[sym].since, ts) >= FillTTL * BarMinutes

NothingFills ==
    /\ Fills
    /\ pending[sym] # None => ~TooLate /\ ~Unfilled     \* the limit did not trade
    /\ UNCHANGED <<candle, boundary, session, ledger, market, trading, finalized>>

(* Skipped: too_late, unfilled, or a cap that engaged while it rested.     *)
PlanDropped ==
    /\ Fills /\ pending[sym] # None
    /\ TooLate \/ Unfilled \/ ~BudgetAllows(ledger, sym, pending[sym].plan.dir, ts)
    /\ pending' = [pending EXCEPT ![sym] = None]
    /\ UNCHANGED <<candle, boundary, session, ledger, market, day, fsm, position, exits,
                   finalized>>

(* Mutant of Fill: the caps are not checked again.                         *)
FillUnchecked(amt) ==
    /\ Fills /\ pending[sym] # None
    /\ ~TooLate /\ ~Unfilled
    /\ pending' = [pending EXCEPT ![sym] = None]
    /\ position' = [position EXCEPT ![sym] =
                      [plan |-> pending[sym].plan, opened |-> ts, risk |-> amt]]
    /\ ledger' = RecordOpen(ledger, sym, amt, pending[sym].plan.dir)
    /\ UNCHANGED <<candle, boundary, session, market, day, fsm, exits, finalized>>

Fill(amt) ==
    /\ Fills /\ pending[sym] # None
    /\ ~TooLate /\ ~Unfilled /\ BudgetAllows(ledger, sym, pending[sym].plan.dir, ts)
    /\ pending' = [pending EXCEPT ![sym] = None]
    /\ position' = [position EXCEPT ![sym] =
                      [plan |-> pending[sym].plan, opened |-> ts, risk |-> amt]]
    /\ ledger' = RecordOpen(ledger, sym, amt, pending[sym].plan.dir)
    /\ UNCHANGED <<candle, boundary, session, market, day, fsm, exits, finalized>>

-----------------------------------------------------------------------------
(* _run_exits, then the store takes the candle.                            *)

StoreCandle ==
    LET opensBucket == \/ lastTs[sym] = None
                       \/ <<lastTs[sym][1], Bucket(lastTs[sym][2])>> # <<ts[1], Bucket(ts[2])>>
        count == IF opensBucket THEN 1 ELSE members[sym] + 1
    IN  /\ stage = "store" /\ stage' = "feed"
        /\ lastTs' = [lastTs EXCEPT ![sym] = ts]
        /\ members' = [members EXCEPT ![sym] = count]
        /\ barDate' = IF count = Expected(ts[2]) THEN [barDate EXCEPT ![sym] = ts[1]] ELSE barDate
        /\ UNCHANGED <<candle, boundary, session, day, fsm, pending, finalized>>

(* An exit is never priced off a candle of another date.                   *)
OtherDate == position[sym] # None /\ position[sym].opened[1] # ts[1]

NoExit ==
    /\ StoreCandle
    /\ ~exits[sym] \/ position[sym] = None \/ OtherDate
    /\ exits' = [exits EXCEPT ![sym] = @ /\ OtherDate]
    /\ UNCHANGED <<position, ledger>>

Exit(r) ==
    /\ StoreCandle
    /\ exits[sym] /\ position[sym] # None /\ ~OtherDate
    /\ exits' = [exits EXCEPT ![sym] = FALSE]
    /\ position' = [position EXCEPT ![sym] = None]
    /\ ledger' = RecordClose(ledger, sym, r, ts)

-----------------------------------------------------------------------------
(* Mutant of Finalize: a truncated feed strands the position.              *)
FinalizeStrands(s, r) ==
    /\ stage = "final" /\ s \notin finalized
    /\ finalized' = finalized \cup {s}
    /\ UNCHANGED <<position, ledger, exits, stage, candle, boundary, session, market, day, fsm,
                   pending>>

(* finalize: the position is settled at the last price; a resting plan and *)
(* an armed one stay as they are.                                          *)
Finalize(s, r) ==
    /\ stage = "final" /\ s \notin finalized
    /\ finalized' = finalized \cup {s}
    /\ IF ForceClosable(s)
       THEN /\ position' = [position EXCEPT ![s] = None]
            /\ ledger' = RecordClose(ledger, s, r, lastTs[s])
       ELSE UNCHANGED <<position, ledger>>
    /\ exits' = [exits EXCEPT ![s] = Stranded(s)]
    /\ UNCHANGED <<stage, candle, boundary, session, market, day, fsm, pending>>

Next ==
    \/ \E s \in Symbols, t \in Times : SameDateCandle(s, t) \/ NewDateCandle(s, t)
    \/ FeedEnds
    \/ OnM5Close
    \/ SameSession
    \/ \E r \in Results : EndSession(r)
    \/ NothingFills \/ PlanDropped
    \/ \E amt \in RiskAmounts : Fill(amt)
    \/ NoExit
    \/ \E r \in Results : Exit(r)
    \/ \E s \in Symbols, r \in Results : Finalize(s, r)

(* run is one loop over a finite feed: it goes on until it returns.        *)
Spec == Init /\ [][Next]_vars /\ WF_vars(Next)

-----------------------------------------------------------------------------
(* The types of the variables.                                             *)
TypeOK ==
    /\ stage \in {"feed", "close", "fill", "store", "final"}
    /\ candle \in {None} \cup [sym : Symbols, ts : Times]
    /\ boundary \in 0 .. SessionMinutes + BarMinutes
    /\ session \in {None} \cup Dates
    /\ ledger \in Ledgers
    /\ lastTs \in [Symbols -> {None} \cup Times]
    /\ members \in [Symbols -> Nat]
    /\ barDate \in [Symbols -> {None} \cup 0 .. LastDate]
    /\ day \in [Symbols -> {None} \cup 0 .. LastDate]
    /\ fsm \in [Symbols -> {None} \cup Plans]
    /\ pending \in [Symbols -> {None} \cup Resting]
    /\ position \in [Symbols -> {None} \cup Positions]
    /\ exits \in [Symbols -> BOOLEAN]
    /\ finalized \subseteq Symbols

(* What the ledger holds open is what the pipelines hold open: the same    *)
(* symbols, directions and amounts, through fills, exits, forced closes,   *)
(* the reset of a new date and the end of the feed (record_open and        *)
(* record_close are called from five places).                              *)
LedgerMatchesBook ==
    \A s \in Symbols :
        IF position[s] = None
        THEN ledger.dirs[s] = None /\ ledger.amts[s] = 0
        ELSE ledger.dirs[s] = position[s].plan.dir /\ ledger.amts[s] = position[s].risk

(* The caps hold of the ledger and of the book whatever rested meanwhile:  *)
(* a limit armed before another fill used the room up must not fill.       *)
CapsHold ==
    /\ ledger.trades <= MaxTrades
    /\ \A s \in Symbols : ledger.perSymbol[s] <= MaxPerStock
    /\ ledger.openRisk <= HeatCap
    /\ \A d \in Directions :
         Cardinality({s \in Symbols : position[s] # None /\ position[s].plan.dir = d})
           <= MaxCorrelated

(* open_risk, kept up by additions and subtractions, is the risk of the    *)
(* open positions.                                                         *)
HeatIsOpenRisk ==
    ledger.openRisk = MapThenSumSet(LAMBDA s : position[s].risk, {s \in Symbols : position[s] # None})

(* A symbol is after at most one thing: an armed plan, a resting plan or a *)
(* position, and an exit is queued only for a position that is there: it   *)
(* can never hit the next one.                                             *)
OneIntent ==
    \A s \in Symbols :
        /\ fsm[s] # None => pending[s] = None /\ position[s] = None
        /\ pending[s] # None => position[s] = None
        /\ exits[s] => position[s] # None

(* No position outlives its date: whenever a new date has begun, for every *)
(* symbol, whoever printed the first candle, the book is flat.             *)
NoOvernight == \A s \in Symbols : position[s] # None => position[s].opened[1] = session

(* No stale intent across the gap: when a candle reaches the order book,   *)
(* every plan of its symbol was armed on the candle's own date, also while *)
(* the day has not rolled because the first bars of the date have gaps.    *)
NoStaleIntent ==
    stage \in {"fill", "store"} =>
        /\ pending[sym] # None => pending[sym].plan.armedAt[1] = ts[1] /\ day[sym] = ts[1]
        /\ fsm[sym] # None => fsm[sym].armedAt[1] = ts[1] /\ day[sym] = ts[1]

(* A trade is born inside the entry window, at most ArmTTL + FillTTL bars  *)
(* after its setup was armed, on the same date.                            *)
TradesAreFresh ==
    \A s \in Symbols : position[s] # None =>
        LET armed == position[s].plan.armedAt
            opened == position[s].opened
        IN  /\ armed[2] >= ObserveMin /\ opened[2] < Cutoff
            /\ Elapsed(armed, opened) < (ArmTTL + FillTTL) * BarMinutes

(* Once a symbol has a candle past its first boundary at or after the      *)
(* squareoff, it is flat: the exit queued there ran at that very candle.   *)
FlatAfterSquareoff ==
    \A s \in Symbols : position[s] # None /\ lastTs[s] # None =>
        Bucket(lastTs[s][2]) < Squareoff

(* A locked day stays shut: until the date changes nothing opens, not even *)
(* a limit that was resting when the lock engaged.                         *)
LockedDayStaysShut ==
    [][ledger.locked /\ session' = session =>
         /\ ledger'.locked
         /\ \A s \in Symbols : position'[s] # None => position[s] # None]_vars

(* Every position is settled before run returns, however the feed ends.    *)
PositionsSettle == \A s \in Symbols : position[s] # None ~> position[s] = None

-----------------------------------------------------------------------------
(* The inductive invariant: where the dates of candles, days, plans and    *)
(* positions stand to one another.                                         *)

(* The candle in hand is of the session and not older than the last one.   *)
CandleInHand ==
    stage \in {"close", "fill", "store"} =>
        /\ candle \in [sym : Symbols, ts : Times]
        /\ session = ts[1]
        /\ lastTs[sym] # None => lastTs[sym][1] <= ts[1]

(* A position can be priced: its symbol's last candle is of its own date,  *)
(* save that the candle which filled it may not be stored yet.             *)
PositionsPriced ==
    \A s \in Symbols : position[s] # None =>
        /\ position[s].opened[1] = session
        /\ \/ stage = "store" /\ s = sym
           \/ lastTs[s] # None /\ lastTs[s][1] = session

(* Intents are dated by the last candle before the boundary that made them.*)
IntentsDated ==
    \A s \in Symbols :
        /\ fsm[s] # None =>
             day[s] # None /\ lastTs[s] # None /\ fsm[s].armedAt[1] = lastTs[s][1]
        /\ pending[s] # None =>
             day[s] # None /\ lastTs[s] # None /\ pending[s].plan.armedAt[1] = lastTs[s][1]

(* Complete bars and days never run ahead of the stored candles.           *)
DaysBehind ==
    \A s \in Symbols :
        /\ barDate[s] # None /\ lastTs[s] # None => barDate[s] <= lastTs[s][1]
        /\ barDate[s] # None /\ lastTs[s] = None => barDate[s] = 0
        /\ day[s] # None => lastTs[s] # None /\ day[s] <= lastTs[s][1]

FInv ==
    /\ TypeOK
    /\ LedgerMatchesBook
    /\ OneIntent
    /\ CapsHold
    /\ NoStaleIntent
    /\ CandleInHand
    /\ PositionsPriced
    /\ IntentsDated
    /\ DaysBehind

(* The loop implements a trading day kept by its book alone.               *)
Book ==
    [s \in Symbols |-> IF position[s] = None THEN None
                       ELSE [dir |-> position[s].plan.dir, risk |-> position[s].risk]]

Day == INSTANCE TradingDay WITH
          date <- session, book <- Book, opened <- ledger.perSymbol, locked <- ledger.locked
ImplementsTradingDay == Day!DSpec
=============================================================================
