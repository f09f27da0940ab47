--------------------------- MODULE PlannedPosition ---------------------------
(***************************************************************************)
(* From the evidence to the position: a setting is scored or decided on,   *)
(* its best zone graded and armed, the plan triggered                      *)
(* (SymbolPipeline._entry_flow), and the position that comes of it lives   *)
(* as PositionManager says.  `verdict` is the setting and the plan that    *)
(* has just begun to rest, NoVerdict from the next step on.                *)
(***************************************************************************)
EXTENDS Scoring, Grading, DecisionTree, EntryPlan, PositionManager

CONSTANTS
    Settings,       \* the settings to judge (Setting), with
                    \*   engine: decision.engine; asks: [rung, grade] of settings.ladder
                    \*   sizes: expiry and day-after-trend throttles, in percent
                    \*   big: the bars wider than big_candle_atr; gapped: the session
                    \*   opened more than an ATR away; asked: the earlier bars that
                    \*   got as far as the cooldown gate
                    \*   trigger: [o, h, l, c] of the bar step sees, held: its age
    MaxQty,
    PinSize,        \* risk.range_pin_size_mult, in percent
    Threshold,      \* confluence.threshold, in tenths
    Cooldown,       \* events.cooldown_candles
    NoVerdict,
    Followed        \* bound: the plans whose positions are followed on

ASSUME SettingsAssumption ==
    /\ MaxQty \in Nat /\ PinSize \in Nat \ {0} /\ Threshold \in Nat \ {0}
    /\ \A x \in Settings : IsSetting(x)

VARIABLE verdict

pvars == <<vars, verdict>>

ZonesOf(x) == IF x.engine = "taught" THEN TaughtZones(x) ELSE Score(x)

(* _eff_qty: throttled, yet never throttled to nothing.                    *)
Throttles(x) == IF Template(x) = "RANGE_PIN" THEN Append(x.sizes, PinSize) ELSE x.sizes
EffQty(x) ==
    LET shares == FoldLeft(LAMBDA q, s : q * s, MaxQty, Throttles(x))
        whole  == FoldLeft(LAMBDA q, s : q * 100, 1, Throttles(x))
    IN  IF shares > 0 THEN Max({1, shares \div whole}) ELSE 0

(* The gates between the clock and the risk budget, which TradeFlow has.   *)
(* The cooldown gate remembers the events of the bars it was asked on.     *)
Regime(x, d)  == (x.htf = "MARKDOWN" /\ d = 1) \/ (x.htf = "MARKUP" /\ d = -1)
Events(x)     == ((x.asked \cup {x.now}) \cap x.big) \cup (IF x.gapped THEN {x.today} ELSE {})
CoolingDown(x) == Events(x) # {} /\ x.now - Max(Events(x)) <= Cooldown
Chases(x, d, c) ==
    100 * d * (Last(x.closes) - (IF d = 1 THEN c.hi ELSE c.lo)) > ChaseTolerance * x.atr
GatesPass(x, d, c) ==
    /\ Template(x) # "UNCLASSIFIED" /\ ~Regime(x, d)
    /\ x.atr = Unmeasured \/ ~(CoolingDown(x) \/ Chases(x, d, c))

(* The plan the first zone arms, if it does: the zones against it are      *)
(* liquidity.  At most one.                                                *)
Armed(x) ==
    LET zones == ZonesOf(x)
        top   == Foremost(zones)
        opps  == {z \in zones : z.dir = -top.dir}
        qty   == EffQty(x)
    IN  IF /\ zones # {} /\ top.final >= Threshold /\ GatesPass(x, top.dir, top)
           /\ Rung(x, top.dir, top) >= x.asks.rung
           /\ x.asks.grade = 0 \/ Grade(x, top.dir, top) >= x.asks.grade
           /\ Arm(x, top, qty, opps) = ""
        THEN {PlanOf(x, top, qty, opps)} ELSE {}

(* The manager's view: distances from the entry in the trade's favour.     *)
Handed(p) ==
    [qty |-> p.qty, risk |-> p.risk, targets |-> p.targets,
     goal |-> IF MappedR(p.signal) = {} THEN None
              ELSE (Max(MappedR(p.signal)) * p.risk + Tenths - 1) \div Tenths]
Seen(b, p) ==
    [high  |-> IF p.dir = 1 THEN b.h - p.entry ELSE p.entry - b.l,
     low   |-> IF p.dir = 1 THEN b.l - p.entry ELSE p.entry - b.h,
     close |-> p.dir * (b.c - p.entry)]

Triggered(x) == {p \in Armed(x) : Step(x, x.trigger, p, x.held) = "fill"}

(* What a bar can leave behind: a plan that rests, and why.                *)
Verdicts == UNION {{[of |-> x, draft |-> p] : p \in Triggered(x)} : x \in Settings}

PInit ==
    \E v \in Verdicts :
        /\ verdict = v
        /\ plan = Handed(v.draft) /\ bar = Seen(v.of.trigger, v.draft)
        /\ Init
PNext ==
    /\ plan \in Followed
    /\ Next /\ verdict' = NoVerdict
PSpec == PInit /\ [][PNext]_pvars

-----------------------------------------------------------------------------
(* A plan is sound whichever path set its stop, and however the fallbacks  *)
(* of the targets fell: risk within the budgets and not below the cost     *)
(* floor, a zone's stop behind the zone and every swept trap on it, the    *)
(* targets in order, the first beyond 1.5R and beyond the R the manager    *)
(* leaves at ("1R is always nearer", manager.py:6-14; entry.py:15-48).     *)
PlanIsSound ==
    verdict # NoVerdict =>
    LET x == verdict.of
        p == verdict.draft
        n == Len(p.targets)
    IN  /\ p.risk > 0 /\ p.stop = p.entry - p.dir * p.risk /\ ~TooWide(x, p.risk)
        /\ p.signal = {} =>
             /\ 100 * p.risk + 50 >= MinStop * x.atr
             /\ \A z \in {p.zone} \cup {y \in LevelsOf(x) : Overlaps(y, p.zone)
                                                          /\ WasIn(y, {"SWEPT"})} :
                    p.dir * (Far(p.dir, z) - p.stop) >= 0
        /\ n \in 1 .. 3 /\ \A i \in 1 .. n - 1 : p.targets[i] < p.targets[i + 1]
        /\ 10 * p.targets[1] >= 15 * p.risk
        /\ plan.goal # None => plan.goal <= p.targets[1]
        /\ p.qty \in 1 .. EffQty(x)
        /\ (\A s \in ToSet(Throttles(x)) : s <= 100) => p.qty <= MaxQty
        /\ p.qty * p.risk <= RiskBudget /\ p.qty * p.entry <= Notional

(* What a cluster is, whatever the sweep that finds it: its band is all    *)
(* that is connected to it by gaps up to merge_atr, and it is connected.   *)
Within(x, z) == {e \in LiveOf(x) : z.lo <= e.lo /\ e.hi <= z.hi}
IsComponent(x, z) ==
    /\ z.lo = Min({e.lo : e \in Within(x, z)}) /\ z.hi = Max({e.hi : e \in Within(x, z)})
    /\ \A e \in LiveOf(x) : Close(x, e.lo, z.hi) /\ Close(x, z.lo, e.hi) => e \in Within(x, z)
    /\ \A e \in Within(x, z) :
           e.hi = z.hi \/ \E f \in Within(x, z) : f.hi > e.hi /\ Close(x, f.lo, e.hi)

(* The veto multipliers hold to the end: what the confluence engine arms   *)
(* is one connected group of evidence, backed by enough detectors, never   *)
(* against the D1 regime or the M15 trend, never on an unclassified day.   *)
ArmedWithBacking ==
    verdict # NoVerdict /\ verdict.of.engine = "confluence" =>
    LET x == verdict.of
        z == Foremost(Score(x))
        backers == {e.detector : e \in {f \in Within(x, z) : f.dir = z.dir}}
    IN  /\ IsComponent(x, z)
        /\ z.dir # 0 /\ Cardinality(backers \ NoVote) >= MinDetectors
        /\ x.htf # (IF z.dir = 1 THEN "MARKDOWN" ELSE "MARKUP") /\ x.m15 \in {0, z.dir}
        /\ Template(x) # "UNCLASSIFIED"
=============================================================================
