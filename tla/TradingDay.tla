----------------------------- MODULE TradingDay -----------------------------
(***************************************************************************)
(* What the trading loop promises of its book, with no ledger, no orders   *)
(* and no clock: a day is a book of open positions that grows only inside  *)
(* the caps, read off the book itself, and a new date starts flat.         *)
(* TradeFlow implements it with running counters that five call sites keep *)
(* up to date and that two gates read at different times.                  *)
(***************************************************************************)
EXTENDS RiskLedger, FiniteSetsExt

CONSTANT RiskAmounts    \* what one trade can put at risk

VARIABLES
    date,       \* the date traded, None before the first candle
    book,       \* per symbol: [dir, risk] of its open position, None when flat
    opened,     \* per symbol: positions opened on this date
    locked      \* no more trades on this date

dvars == <<date, book, opened, locked>>

Held  == {s \in Symbols : book[s] # None}
Heat  == MapThenSumSet(LAMBDA s : book[s].risk, Held)
Count == MapThenSumSet(LAMBDA s : opened[s], Symbols)

DInit ==
    /\ date = None /\ locked = FALSE
    /\ book = [s \in Symbols |-> None] /\ opened = [s \in Symbols |-> 0]

Open(s, dir, amt) ==
    /\ ~locked /\ book[s] = None
    /\ opened' = [opened EXCEPT ![s] = @ + 1]
    /\ book' = [book EXCEPT ![s] = [dir |-> dir, risk |-> amt]]
    /\ opened[s] < MaxPerStock /\ Count < MaxTrades
    /\ Heat + Budget <= HeatCap
    /\ Cardinality({p \in Held : book[p].dir = dir}) < MaxCorrelated
    /\ UNCHANGED <<date, locked>>

(* A settled trade may lock the day; nothing unlocks it.                   *)
Settle(s) ==
    /\ book[s] # None
    /\ book' = [book EXCEPT ![s] = None]
    /\ locked' \in {locked, TRUE}
    /\ UNCHANGED <<date, opened>>

NewDate ==
    /\ date' # date
    /\ book' = [s \in Symbols |-> None] /\ opened' = [s \in Symbols |-> 0]
    /\ locked' = FALSE

DNext ==
    \/ \E s \in Symbols, dir \in Directions, amt \in RiskAmounts : Open(s, dir, amt)
    \/ \E s \in Symbols : Settle(s)
    \/ NewDate

DSpec == DInit /\ [][DNext]_dvars
=============================================================================
