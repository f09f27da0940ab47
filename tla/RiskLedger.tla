----------------------------- MODULE RiskLedger -----------------------------
(***************************************************************************)
(* RiskState (src/app/trader/engine/gates.py): the one ledger all symbol   *)
(* pipelines share, and the caps that RiskBudgetGate reads when a setup is *)
(* armed and fill_time_caps reads again when its limit order trades.       *)
(*                                                                         *)
(* A time is <<date, minute of the session>>.  Money is counted in units   *)
(* of a small grid; R multiples are whole numbers.                         *)
(***************************************************************************)
EXTENDS Integers, FiniteSets

CONSTANTS
    Symbols,            \* the traded symbols
    None,               \* no direction, no plan, no position, no time
    MaxTrades,          \* risk.max_trades_day
    MaxPerStock,        \* risk.max_per_stock
    MaxCorrelated,      \* risk.max_correlated_positions
    LossStop,           \* risk.consecutive_loss_stop
    PerTradePct,        \* risk.per_trade_pct
    DailyLossPct,       \* risk.daily_loss_pct
    ProfitLock,         \* risk.daily_profit_lock_R
    Budget,             \* capital * per_trade_pct / 100: the most one trade risks
    HeatCap,            \* capital * portfolio_heat_pct / 100
    Cooldown            \* risk.min_minutes_between_trades

ASSUME SymbolsAssumption == IsFiniteSet(Symbols)
ASSUME LimitsAssumption  ==
    /\ MaxTrades \in Nat \ {0} /\ MaxPerStock \in Nat \ {0} /\ MaxCorrelated \in Nat \ {0}
    /\ LossStop \in Nat \ {0} /\ PerTradePct \in Nat \ {0} /\ DailyLossPct \in Nat \ {0}
    /\ ProfitLock \in Nat \ {0} /\ Budget \in Nat \ {0} /\ HeatCap \in Nat \ {0}
    /\ Cooldown \in Nat

Directions == {"LONG", "SHORT"}
DayMinutes == 1440

ASSUME NoneAssumption == None \notin Directions

(* Minutes from time a to time b.                                          *)
Elapsed(a, b) == (b[1] - a[1]) * DayMinutes + (b[2] - a[2])

Ledgers ==
    [trades : Nat, perSymbol : [Symbols -> Nat], losses : Nat, pnl : Int, locked : BOOLEAN,
     openRisk : Int, dirs : [Symbols -> {None} \cup Directions], amts : [Symbols -> Nat],
     lastClose : {None} \cup (Nat \X Nat)]

(* RiskState() and reset_day leave the same empty ledger.                  *)
EmptyLedger ==
    [trades |-> 0, perSymbol |-> [s \in Symbols |-> 0],
     losses |-> 0, pnl |-> 0, locked |-> FALSE,
     openRisk |-> 0, dirs |-> [s \in Symbols |-> None], amts |-> [s \in Symbols |-> 0],
     lastClose |-> None]

RecordOpen(l, s, amt, dir) ==
    [l EXCEPT !.trades = @ + 1, !.perSymbol[s] = @ + 1,
              !.openRisk = @ + amt, !.amts[s] = amt, !.dirs[s] = dir]

(* Mutant of RecordClose: the released amount is forgotten.                *)
RecordCloseKeepsRisk(l, s, r, ts) ==
    LET losses == IF r < 0 THEN l.losses + 1 ELSE 0
        pnl    == l.pnl + r
    IN  [l EXCEPT !.amts[s] = 0, !.dirs[s] = None,
                  !.lastClose = ts, !.pnl = pnl, !.losses = losses,
                  !.locked = \/ @
                             \/ losses >= LossStop
                             \/ pnl * PerTradePct <= -DailyLossPct
                             \/ pnl >= ProfitLock]

(* A loss streak, the daily loss or the daily profit lock the day.         *)
RecordClose(l, s, r, ts) ==
    LET losses == IF r < 0 THEN l.losses + 1 ELSE 0
        pnl    == l.pnl + r
    IN  [l EXCEPT !.openRisk = @ - l.amts[s], !.amts[s] = 0, !.dirs[s] = None,
                  !.lastClose = ts, !.pnl = pnl, !.losses = losses,
                  !.locked = \/ @
                             \/ losses >= LossStop
                             \/ pnl * PerTradePct <= -DailyLossPct
                             \/ pnl >= ProfitLock]

SameWay(dirs, dir) == {s \in Symbols : dirs[s] = dir}

(* Mutants of BudgetAllows: the shared lock, or the correlation cap and    *)
(* the heat, are not looked at again.                                      *)
BudgetIgnoresLock(l, s, dir, now) ==
    /\ l.lastClose # None => Elapsed(l.lastClose, now) >= Cooldown
    /\ l.trades < MaxTrades
    /\ l.perSymbol[s] < MaxPerStock
    /\ l.openRisk + Budget <= HeatCap
    /\ Cardinality(SameWay(l.dirs, dir)) < MaxCorrelated

BudgetIgnoresBook(l, s, dir, now) ==
    /\ ~l.locked
    /\ l.lastClose # None => Elapsed(l.lastClose, now) >= Cooldown
    /\ l.trades < MaxTrades
    /\ l.perSymbol[s] < MaxPerStock

(* RiskBudgetGate.check and fill_time_caps: the same six caps.             *)
BudgetAllows(l, s, dir, now) ==
    /\ ~l.locked
    /\ l.lastClose # None => Elapsed(l.lastClose, now) >= Cooldown
    /\ l.trades < MaxTrades
    /\ l.perSymbol[s] < MaxPerStock
    /\ l.openRisk + Budget <= HeatCap
    /\ Cardinality(SameWay(l.dirs, dir)) < MaxCorrelated
=============================================================================
