------------------------------ MODULE EntryPlan ------------------------------
(***************************************************************************)
(* EntryFSM (engine/entry.py): the draft plan arm makes of a scored zone,  *)
(* the reasons it refuses, and what step says of an armed plan.            *)
(***************************************************************************)
EXTENDS Setting, SequencesExt

CONSTANTS
    ArmProximity, ChaseTolerance, MaxStop, MinStop, AtrBuffer,  \* percent of the ATR
    RoundOffset,        \* ticks past a round level
    ArmTTL,             \* arm_ttl_candles
    RiskBudget,         \* capital x per_trade_pct, in tick money
    Notional,           \* capital x leverage
    TargetR,            \* detector -> the R its trades leave at, in tenths
    Brokerage, SellPct, BuyPct,     \* of one order; of a leg, in 1/10000
    CostPct             \* max_cost_reward_ratio, in percent

ASSUME EntryAssumption ==
    /\ {ArmProximity, MaxStop, MinStop, AtrBuffer, RoundOffset, ArmTTL, RiskBudget, Notional}
         \subseteq Nat \ {0}
    /\ {ChaseTolerance, Brokerage, SellPct, BuyPct, CostPct} \subseteq Nat
    /\ \A d \in DOMAIN TargetR : TargetR[d] \in Nat \ {0}

Tenths == 10

-----------------------------------------------------------------------------
(* _traded_zone: the tightest live level in the cluster, strictly tighter  *)
(* than it; of equally tight ones the nearest to the last close.           *)
TradedZone(x, c) ==
    LET tighter == {i \in DOMAIN x.levels : LET z == x.levels[i] IN
                        z.state \notin Terminal /\ Overlaps(z, c) /\ Span(z) < Span(c)}
        off(i) == LET n == x.levels[i].lo + x.levels[i].hi - 2 * Last(x.closes)
                  IN  IF n < 0 THEN -n ELSE n
        before(i, j) ==
            \/ Span(x.levels[i]) < Span(x.levels[j])
            \/ /\ Span(x.levels[i]) = Span(x.levels[j])
               /\ off(i) < off(j) \/ (off(i) = off(j) /\ i <= j)
        best == x.levels[CHOOSE i \in tighter : \A j \in tighter : before(i, j)]
    IN  IF tighter = {} THEN [lo |-> c.lo, hi |-> c.hi] ELSE [lo |-> best.lo, hi |-> best.hi]

Entry(t) == Quantize(t.lo + t.hi, 2)

(* _signal_evidence: the heaviest live evidence on the traded zone, if it  *)
(* brings a stop, and a stop on the losing side.  At most one.             *)
Signals(x, t, d) ==
    LET w == x.evidence
        on == {i \in Live(x) : w[i].dir = d /\ Overlaps(w[i], t)}
        weight(i) == Weight(w[i].detector) * w[i].strength
        heavier(i, j) ==
            \/ weight(i) > weight(j)
            \/ /\ weight(i) = weight(j)
               /\ w[i].strength > w[j].strength \/ (w[i].strength = w[j].strength /\ i <= j)
    IN  {w[i] : i \in {k \in on : /\ \A j \in on : heavier(k, j)
                                  /\ Has(w[k], "sl")
                                  /\ d * (Entry(t) - w[k].meta.sl) > 0}}

-----------------------------------------------------------------------------
(* The stop, by its path: the signal's, or the zone's with its cost floor. *)

(* snap_stop_off_round: never tighter, one round level after the other.    *)
SnapTightens(x, d, stop) ==     \* mutant: lands short of the round level
    FoldLeft(LAMBDA s, z :
        IF z.kind = "ROUND" /\ \E e \in {z.lo, z.hi} : s - e \in -2 .. 2
        THEN Far(d, z) + d * RoundOffset ELSE s, stop, x.levels)
Snap(x, d, stop) ==
    FoldLeft(LAMBDA s, z :
        IF z.kind = "ROUND" /\ \E e \in {z.lo, z.hi} : s - e \in -2 .. 2
        THEN Worst(d, {s, Far(d, z) - d * RoundOffset}) ELSE s, stop, x.levels)

(* Beyond the zone, every trap that overlaps it, and the buffer.           *)
Unsnapped(x, t, d) ==
    LET traps == {Far(d, z) : z \in {y \in LevelsOf(x) : Overlaps(y, t) /\ WasIn(y, {"SWEPT"})}}
    IN  Quantize(100 * Worst(d, {Far(d, t)} \cup traps) - d * AtrBuffer * x.atr, 100)

Risk(t, d, stop)  == d * (Entry(t) - stop)
TooWide(x, risk)  == 100 * risk > MaxStop * x.atr
TooTight(x, risk) == 100 * risk < MinStop * x.atr

SignalStop(x, t, d, e) ==
    LET meant == d * (Entry(t) - e.meta.sl)
        risk  == IF Has(e, "floor") THEN Max({meant, e.meta.floor}) ELSE meant
    IN  Snap(x, d, Entry(t) - d * risk)

(* Snapped unless the snap alone goes past the budget, then widened.       *)
ZoneStop(x, t, d) ==
    LET raw    == Unsnapped(x, t, d)
        chosen == IF TooWide(x, Risk(t, d, Snap(x, d, raw))) THEN raw ELSE Snap(x, d, raw)
    IN  IF TooTight(x, Risk(t, d, chosen))
        THEN Snap(x, d, Quantize(100 * Entry(t) - d * MinStop * x.atr, 100))
        ELSE chosen

Stop(x, t, d) ==
    IF Signals(x, t, d) = {} THEN ZoneStop(x, t, d)
    ELSE SignalStop(x, t, d, CHOOSE e \in Signals(x, t, d) : TRUE)

-----------------------------------------------------------------------------
(* The targets, as distances from the entry in the trade's favour.         *)

MappedR(sigs) == {TargetR[e.detector] : e \in {s \in sigs : s.detector \in DOMAIN TargetR}}
RoomNeeded(sigs, risk) == Max({15} \cup MappedR(sigs)) * risk      \* in tenths

Away(t, d, n) == d * (Quantize(Tenths * Entry(t) + d * n, Tenths) - Entry(t))
Ahead(t, d, S) == {f \in {d * (Far(d, z) - Entry(t)) : z \in S} : f > 0}

Pools(x, opps) == {z \in LevelsOf(x) : z.state \in {"ACTIVE", "TESTED"}} \cup opps
External(x) == {z \in LevelsOf(x) : z.state \in {"ACTIVE", "TESTED"} /\ z.kind \in {"PDH", "PDL"}}

NearestOr(S, n) == IF S = {} THEN n ELSE Min(S)

(* T1 with room; T2 the next or 2.5R; T3 the next external or 4R, capped   *)
(* by the energy of compressions; what is not beyond the last is dropped.  *)
Roomy(x, t, d, risk, sigs, opps) ==
    {f \in Ahead(t, d, Pools(x, opps)) : Tenths * f >= RoomNeeded(sigs, risk)}
Targets(x, t, c, d, risk, sigs, opps) ==
    LET t1  == Min(Roomy(x, t, d, risk, sigs, opps))
        t2  == NearestOr({f \in Ahead(t, d, Pools(x, opps)) : f > t1}, Away(t, d, 25 * risk))
        far == NearestOr({f \in Ahead(t, d, External(x)) : f > t2}, Away(t, d, 40 * risk))
        t3  == Min({far} \cup {e.meta.energy : e \in {s \in LiveOf(x) :
                                    Has(s, "energy") /\ Overlaps(s, c)}})
    IN  <<t1>> \o (IF t2 > t1 THEN <<t2>> ELSE <<>>)
               \o (IF t3 > Max({t1, t2}) THEN <<t3>> ELSE <<>>)

-----------------------------------------------------------------------------
(* The size, and what the trade costs against what it is expected to earn. *)
Qty(t, risk, maxQty) == Min({maxQty, RiskBudget \div risk, Notional \div Entry(t)})

Exits(sigs, qty) == IF (qty * 33) \div 100 = 0 THEN 1 ELSE IF MappedR(sigs) # {} THEN 2 ELSE 3
TradeCost(t, qty, exits) ==                                        \* in 1/10000
    10000 * (1 + exits) * Brokerage + (SellPct + BuyPct) * Entry(t) * qty
Reward(t1, risk, sigs, qty) == Min({Tenths * t1} \cup {r * risk : r \in MappedR(sigs)}) * qty
CostsDominate(t, t1, risk, sigs, qty) ==
    TradeCost(t, qty, Exits(sigs, qty)) > 10 * CostPct * Reward(t1, risk, sigs, qty)

Gap(x, t) == Max({t.lo - Last(x.closes), Last(x.closes) - t.hi})
TooFar(x, t) == 100 * Gap(x, t) > ArmProximity * x.atr

PlanOf(x, c, maxQty, opps) ==
    LET t    == TradedZone(x, c)
        d    == c.dir
        sigs == Signals(x, t, d)
        risk == Risk(t, d, Stop(x, t, d))
    IN  [zone |-> t, dir |-> d, entry |-> Entry(t), stop |-> Stop(x, t, d), risk |-> risk,
         signal |-> sigs, targets |-> Targets(x, t, c, d, risk, sigs, opps),
         qty |-> Qty(t, risk, maxQty)]

(* arm: why a plan is refused, "" when it is armed, in the code's order.   *)
Arm(x, c, maxQty, opps) ==
    LET t    == TradedZone(x, c)
        d    == c.dir
        sigs == Signals(x, t, d)
        risk == Risk(t, d, Stop(x, t, d))
        qty  == Qty(t, risk, maxQty)
    IN  IF x.atr = Unmeasured THEN "no_atr"
        ELSE IF TooFar(x, t) THEN "too_far"
        ELSE IF sigs = {} /\ TooWide(x, Risk(t, d, Unsnapped(x, t, d))) THEN "stop_too_wide"
        ELSE IF risk <= 0 THEN "no_risk"
        ELSE IF TooWide(x, risk) THEN "stop_too_wide"
        ELSE IF Roomy(x, t, d, risk, sigs, opps) = {} THEN "no_room"
        ELSE IF qty <= 0 THEN "qty_zero"
        ELSE IF CostsDominate(t, Targets(x, t, c, d, risk, sigs, opps)[1], risk, sigs, qty)
        THEN "costs_dominate" ELSE ""

-----------------------------------------------------------------------------
(* step, on the bar b = [o, h, l, c] that closed `held` bars after arming. *)
Wick(b, d)  == IF d = 1 THEN Min({b.o, b.c}) - b.l ELSE b.h - Max({b.o, b.c})
Confirmed(x, b, p) ==
    \/ b.h > b.l /\ 10 * Wick(b, p.dir) >= 6 * (b.h - b.l)
    \/ \E e \in LiveOf(x) : /\ e.at = x.now /\ e.event \in {"CHOCH", "VSA"}
                            /\ e.dir = p.dir /\ Overlaps(e, p.zone)

Step(x, b, p, held) ==
    IF 100 * p.dir * (Far(p.dir, p.zone) - b.c) > ChaseTolerance * Atr(x) THEN "chased"
    ELSE IF held > ArmTTL THEN "expired"
    ELSE IF \E z \in LevelsOf(x) : /\ z.kind \in {"OB_BULL", "OB_BEAR"}
                                   /\ z.state \in {"DEAD", "INVERTED"} /\ Overlaps(z, p.zone)
         THEN "zone_broken"
    ELSE IF b.l <= p.zone.hi /\ b.h >= p.zone.lo /\ Confirmed(x, b, p) THEN "fill"
    ELSE "hold"
=============================================================================
