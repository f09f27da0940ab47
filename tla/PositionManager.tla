--------------------------- MODULE PositionManager ---------------------------
(***************************************************************************)
(* The life of one position (src/app/trader/execution/manager.py, and      *)
(* _fill_pending, _manage, _run_exits, _force_close_eod of                 *)
(* engine/pipeline.py): it fills from a resting limit, is looked at on     *)
(* every M5 boundary, and the exits queued there run at the next M1.       *)
(*                                                                         *)
(* Prices are favourable distances from the entry: the limit fills at 0,   *)
(* a LONG counts up, a SHORT down; `low` is the adverse end of a candle.   *)
(* Swings, opposing zones and the candles themselves are any.              *)
(*                                                                         *)
(* _pending_exits is kept as what _run_exits can still see of it: the      *)
(* PARTIALs before the first full exit, and whether there is one.          *)
(***************************************************************************)
EXTENDS Integers, Sequences, FiniteSets

CONSTANTS
    Plans,          \* [qty, risk, targets, goal]: quantity, 1R, T1.., mapped target R
    Prices,         \* what a minute can print
    TriggerBars,    \* the M5 bars a limit can come from
    SwingStops,     \* what the trail can propose
    None,           \* no mapped target R
    BarMinutes, SessionMinutes,
    Squareoff,      \* time.squareoff, minutes after the limit began to rest
    StallBars       \* _STALL_CANDLES

ASSUME PlansAssumption ==
    \A p \in Plans :
        /\ p.qty \in Nat \ {0} /\ p.risk \in Nat \ {0}
        /\ p.targets \in Seq(Nat) /\ p.goal \in {None} \cup Nat
ASSUME PricesAssumption ==
    /\ Prices \subseteq Int /\ SwingStops \subseteq Int
    /\ TriggerBars \subseteq [high : Int, low : Int, close : Int]
ASSUME MinutesAssumption ==
    /\ BarMinutes \in Nat \ {0} /\ SessionMinutes \in Nat
    /\ Squareoff \in Nat /\ StallBars \in Nat

VARIABLES
    stage,      \* "feed": between two M1 candles; "close": one is in hand
    ts,         \* the minute in hand, -1 before the first
    boundary,   \* the next M5 boundary to close
    forming,    \* the newest bucket: [of, high, low, close, members]
    bar,        \* the last complete M5 bar: [high, low, close]
    status,     \* "resting", "open", "closed"
    plan,       \* Position.plan
    opened,     \* minute of the fill
    stop,       \* Position.stop
    partials,   \* Position.partials, the rungs taken
    remaining,  \* Position.remaining_qty
    queue,      \* _pending_exits: [partials, limits, closes]
    orders      \* exit orders sent to the broker

clock    == <<stage, ts, boundary, forming, bar>>
position == <<status, plan, opened, stop, partials, remaining, queue, orders>>
vars     == <<clock, position>>

Minutes   == 0 .. SessionMinutes - 1
Bucket(t) == (t \div BarMinutes) * BarMinutes
Rungs     == {"1R", "2R", "3R"}
NoExits   == [partials |-> 0, limits |-> {}, closes |-> FALSE]
Candles   == {c \in [high : Prices, low : Prices, close : Prices] :
                c.low <= c.close /\ c.close <= c.high}

(* Mutant of PartialQty: half of it.                                       *)
PartialHalf(qty) == (qty * 50) \div 100

(* partial_qty: the 33% share of a rung, 0 below four shares.              *)
PartialQty(qty) == (qty * 33) \div 100
Share == PartialQty(plan.qty)

(* ladder_exits: the exit orders the cost gate reckons with when arming.   *)
LadderExits(p) ==
    IF PartialQty(p.qty) = 0 THEN 1 ELSE IF p.goal # None THEN 2 ELSE 3

(* A limit rests from a boundary on, minute 0: `bar` triggered it.         *)
Init ==
    /\ stage = "feed" /\ ts = -1 /\ boundary = BarMinutes
    /\ bar \in TriggerBars
    /\ forming = [of |-> -BarMinutes, high |-> bar.high, low |-> bar.low, close |-> bar.close, members |-> 0]
    /\ status = "resting" /\ plan \in Plans /\ opened = -1
    /\ stop = -plan.risk /\ partials = {} /\ remaining = plan.qty
    /\ queue = NoExits /\ orders = 0

(* The feed's next candle, any minutes later.                              *)
Comes(t) ==
    /\ stage = "feed" /\ status # "closed" /\ t > ts
    /\ stage' = "close" /\ ts' = t
    /\ UNCHANGED <<boundary, forming, bar, position>>

-----------------------------------------------------------------------------
(* An M5 boundary before that candle.                                      *)

BoundaryDue == stage = "close" /\ boundary <= Bucket(ts)

ClosesBoundary ==
    /\ BoundaryDue
    /\ boundary' = boundary + BarMinutes
    /\ UNCHANGED <<stage, ts, forming, bar>>

NothingToManage ==
    /\ ClosesBoundary /\ status # "open"
    /\ UNCHANGED position

(* Queued behind a full exit, an exit is never reached.                    *)
AddPartials(q, n, prices) ==
    IF q.closes THEN q ELSE [q EXCEPT !.partials = @ + n, !.limits = @ \cup prices]
AddExit(q, prices) ==
    IF q.closes THEN q ELSE [q EXCEPT !.closes = TRUE, !.limits = @ \cup prices]

(* on_candle from here to Ladder.  The squareoff comes first.              *)
SquareoffExit ==
    /\ ClosesBoundary /\ status = "open"
    /\ boundary >= Squareoff
    /\ queue' = AddExit(queue, {})
    /\ UNCHANGED <<status, plan, opened, stop, partials, remaining, orders>>

(* The stealth stop: a close at or beyond it.                              *)
StopExit ==
    /\ ClosesBoundary /\ status = "open"
    /\ boundary < Squareoff /\ bar.close <= stop
    /\ queue' = AddExit(queue, {})
    /\ UNCHANGED <<status, plan, opened, stop, partials, remaining, orders>>

Touched(n) == Len(plan.targets) >= n /\ bar.high >= plan.targets[n]

(* The rungs this bar takes; a plan with a mapped target stops at 1R.      *)
Taken ==
    {r \in Rungs \ partials :
        \/ r = "1R" /\ bar.close >= plan.risk
        \/ r = "2R" /\ plan.goal = None /\ (Touched(2) \/ bar.close >= 2 * plan.risk)
        \/ r = "3R" /\ plan.goal = None /\ bar.close >= 3 * plan.risk}

(* The 2R rung's share goes at T2 when that was touched.                   *)
RungPrices == IF "2R" \in Taken /\ Touched(2) THEN {plan.targets[2]} ELSE {}

(* The rungs that sell a share.                                            *)
Selling(rungs) == (IF "1R" \in rungs THEN 1 ELSE 0) + (IF "2R" \in rungs THEN 1 ELSE 0)

(* Mutant of SharesOff: the 2R rung fires on every bar beyond it.          *)
SharesOffAgain ==
    IF Share = 0 THEN 0
    ELSE Selling(Taken \cap {"1R"}) + (IF bar.close >= 2 * plan.risk THEN 1 ELSE 0)

SharesOff == IF Share = 0 THEN 0 ELSE Selling(Taken)

TakesProfit == IF plan.goal # None THEN bar.close >= plan.goal ELSE Touched(3)

(* Mutants of Breakeven: the stop is pulled back to the entry, or left.    *)
BreakevenPullsBack == IF "1R" \in Taken THEN 0 ELSE stop
BreakevenForgotten == stop

Breakeven == IF "1R" \in Taken /\ stop < 0 THEN 0 ELSE stop

(* The trail ratchets to a swing once 2R or 3R is taken.                   *)
Trail(swing) ==
    IF {"2R", "3R"} \cap (partials \cup Taken) # {} /\ swing > Breakeven
    THEN swing ELSE Breakeven

(* Neither progress nor the stop: a stalled position is given up.          *)
Stalls == 2 * bar.close < plan.risk /\ (boundary - opened) \div BarMinutes >= StallBars

(* Ladder, trail, then the early exits; `counter` is an opposing zone.     *)
Ladder(swing, counter) ==
    /\ ClosesBoundary /\ status = "open"
    /\ boundary < Squareoff /\ bar.close > stop
    /\ partials' = partials \cup Taken
    /\ stop' = Trail(swing)
    /\ LET laddered == AddPartials(queue, SharesOff, IF Share = 0 THEN {} ELSE RungPrices)
           profited == IF ~TakesProfit THEN laddered
                       ELSE AddExit(laddered, IF plan.goal = None THEN {plan.targets[3]} ELSE {})
       IN  queue' = IF counter \/ Stalls THEN AddExit(profited, {}) ELSE profited
    /\ UNCHANGED <<status, plan, opened, remaining, orders>>

-----------------------------------------------------------------------------
(* The M1 candle in hand, once its boundaries are closed.                  *)

(* The store takes candle c; a full bucket is the new last bar.            *)
Store(c) ==
    LET next == IF forming.of = Bucket(ts)
                THEN [of |-> forming.of,
                      high |-> IF c.high > forming.high THEN c.high ELSE forming.high,
                      low  |-> IF c.low < forming.low THEN c.low ELSE forming.low,
                      close |-> c.close, members |-> forming.members + 1]
                ELSE [of |-> Bucket(ts), high |-> c.high, low |-> c.low, close |-> c.close,
                      members |-> 1]
    IN  /\ stage = "close" /\ ~BoundaryDue
        /\ stage' = "feed"
        /\ forming' = next
        /\ bar' = IF next.members = BarMinutes
                  THEN [high |-> next.high, low |-> next.low, close |-> next.close] ELSE bar
        /\ UNCHANGED <<ts, boundary>>

(* The limit trades, at the entry price exactly.                           *)
Fill(c) ==
    /\ Store(c)
    /\ status = "resting" /\ c.low <= 0
    /\ status' = "open" /\ opened' = ts
    /\ UNCHANGED <<plan, stop, partials, remaining, queue, orders>>

StillResting(c) ==
    /\ Store(c)
    /\ status = "resting" /\ c.low > 0
    /\ UNCHANGED position

(* Shares the queued PARTIALs can still sell, and the orders that takes.   *)
Sold     == IF queue.partials * Share < remaining THEN queue.partials * Share ELSE remaining
Partials == {k \in 1 .. queue.partials : (k - 1) * Share < remaining}

(* Mutant of RunExits: the queue is not cleared.                           *)
RunExitsKeepsQueue(c) ==
    /\ Store(c)
    /\ status = "open"
    /\ remaining' = remaining - Sold
    /\ orders' = orders + Cardinality(Partials) + (IF queue.closes /\ remaining' > 0 THEN 1 ELSE 0)
    /\ status' = IF queue.closes /\ remaining' > 0 THEN "closed" ELSE "open"
    /\ UNCHANGED <<plan, opened, stop, partials, queue>>

(* _run_exits: PARTIALs sell a share each, a full exit what is left; an    *)
(* exit that finds nothing left to sell is passed over.                    *)
RunExits(c) ==
    /\ Store(c)
    /\ status = "open"
    /\ remaining' = remaining - Sold
    /\ queue' = NoExits
    /\ orders' = orders + Cardinality(Partials) + (IF queue.closes /\ remaining' > 0 THEN 1 ELSE 0)
    /\ status' = IF queue.closes /\ remaining' > 0 THEN "closed" ELSE "open"
    /\ UNCHANGED <<plan, opened, stop, partials>>

(* _force_close_eod, at a session's end or in finalize: what is queued is  *)
(* dropped for one exit at the last price.                                 *)
ForceClose ==
    /\ stage = "feed" /\ status = "open"
    /\ queue' = NoExits
    /\ orders' = orders + (IF remaining > 0 THEN 1 ELSE 0)
    /\ status' = IF remaining > 0 THEN "closed" ELSE "open"
    /\ UNCHANGED <<clock, plan, opened, stop, partials, remaining>>

OnClose ==
    \/ NothingToManage \/ SquareoffExit \/ StopExit
    \/ \E swing \in SwingStops, counter \in BOOLEAN : Ladder(swing, counter)

OnM1(c) == Fill(c) \/ StillResting(c) \/ RunExits(c)

Next ==
    \/ \E t \in Minutes : Comes(t)
    \/ OnClose
    \/ \E c \in Candles : OnM1(c)
    \/ ForceClose

Spec == Init /\ [][Next]_vars

-----------------------------------------------------------------------------
(* The types of the position's variables.                                  *)
TypeOK ==
    /\ stage \in {"feed", "close"} /\ ts \in {-1} \cup Minutes
    /\ boundary \in Nat
    /\ forming \in [of : Int, high : Int, low : Int, close : Int, members : Nat]
    /\ bar \in [high : Int, low : Int, close : Int]
    /\ status \in {"resting", "open", "closed"} /\ plan \in Plans
    /\ opened \in {-1} \cup Minutes
    /\ stop \in Int /\ partials \subseteq Rungs
    /\ remaining \in 0 .. plan.qty
    /\ queue \in [partials : 0 .. 2, limits : SUBSET Nat, closes : BOOLEAN]
    /\ orders \in 0 .. 3

(* The stop only ever tightens, whichever rung or swing comes first: the   *)
(* guard of _apply_stop, which would raise out of the loop, never fires.   *)
StopOnlyTightens == [][stop' >= stop]_vars

(* From the 1R rung on the trade no longer risks anything: the stop is at  *)
(* the entry or better, also when the trail was there first.               *)
BreakevenAfterOneR == "1R" \in partials => stop >= 0

(* An open position always has shares to sell, whatever is queued: were    *)
(* nothing left, a full exit would be passed over and the position and its *)
(* place in the risk ledger would stay for the day.                        *)
OpenHasShares == status = "open" => remaining - queue.partials * Share > 0

(* A trade never sends more exit orders than ladder_exits told the cost    *)
(* gate (entry.py, "costs_dominate") it would pay brokerage for.           *)
OrdersWithinEstimate == orders <= LadderExits(plan)

(* Every order sent and every share queued is a rung's.                    *)
SharesAccounted ==
    /\ status = "resting" => partials = {} /\ queue = NoExits
    /\ status # "closed" =>
         /\ remaining = plan.qty - Share * orders
         /\ orders + queue.partials <= Selling(partials)
         /\ Share = 0 => orders = 0 /\ queue.partials = 0
    /\ plan.goal # None => "2R" \notin partials

PInv == TypeOK /\ SharesAccounted /\ OrdersWithinEstimate /\ BreakevenAfterOneR
=============================================================================
