-------------------------- MODULE MCPlannedPosition --------------------------
(***************************************************************************)
(* PlannedPosition with settings for TLC: one bullish setting around price *)
(* 100, varied along the axes that the judges tell apart, a few axes at a  *)
(* time, and the mirror image of all of them.                              *)
(***************************************************************************)
EXTENDS PlannedPosition

MCWeights == [ob_taught |-> 4, structure |-> 3, sweep |-> 4, bpr |-> 5, wyckoff |-> 1]
MCTargetR == [bpr |-> 20]

(* Levels and evidence.                                                    *)
Level(kind, lo, hi) ==
    [kind |-> kind, lo |-> lo, hi |-> hi, state |-> "ACTIVE", past |-> {}, touches |-> 0, born |-> 3]
Old(z)        == [z EXCEPT !.born = 1]
Went(z, s)    == [z EXCEPT !.state = s, !.past = @ \cup {[at |-> 4, to |-> s]}]
Ev(detector, event, d, lo, hi, meta) ==
    [detector |-> detector, event |-> event, dir |-> d, strength |-> 2, lo |-> lo, hi |-> hi,
     at |-> 5, ttl |-> 2, meta |-> meta]
NoMeta == <<>>

Block    == Old(Level("OB_BULL", 99, 101))
RangeHi  == Level("OPEN_RANGE_H", 110, 110)
RangeLo  == Level("OPEN_RANGE_L", 97, 97)
Pool(p)  == Level("SWING_H", p, p)
Retest(meta) == Ev("ob_taught", "OB_RETEST", 1, 99, 101, meta)
Break        == Ev("structure", "BOS", 1, 98, 100, NoMeta)
Gap3         == Ev("bpr", "BPR", 1, 99, 101, [sl |-> 98])

Pools3 == <<Pool(103), Pool(104), Level("PDH", 106, 106)>>

Base ==
    [now |-> 5, atr |-> 2, closes |-> <<100, 101, 102, 103, 101>>, high |-> 106, low |-> 95,
     levels |-> <<Block, RangeHi, RangeLo>> \o Pools3, today |-> 3,
     evidence |-> <<Break, Retest([sl |-> 98])>>,
     htf |-> "RANGE", m15 |-> 1, index |-> [trend |-> 0, strength |-> 0], gap |-> 0,
     nests |-> {}, sweeps |-> {}, engine |-> "confluence", asks |-> [rung |-> 0, grade |-> 0],
     sizes |-> <<>>, big |-> {}, gapped |-> FALSE, asked |-> {},
     trigger |-> [o |-> 101, h |-> 102, l |-> 97, c |-> 101], held |-> 0]

With(x, more)   == [x EXCEPT !.levels = @ \o more]
Hears(x, more)  == [x EXCEPT !.evidence = @ \o more]

(* The paths of the stop: the signal's, the traps, the round levels.       *)
Retests == {NoMeta} \cup {[sl |-> p] : p \in {95, 97, 98, 99, 101}}
             \cup {[sl |-> 99, floor |-> f] : f \in {2, 5}}
Rounds  == {<<>>} \cup {<<Level("ROUND", p, p)>> : p \in {94, 96, 97, 98}}
             \cup {<<Level("ROUND", 95, 96), Level("ROUND", 94, 94)>>}
Traps   == {<<>>} \cup {<<Went(Level("SWING_L", p, 99), "SWEPT")>> : p \in {94, 97}}
StopSettings ==
    {[With(Base, round \o trap) EXCEPT !.evidence = <<Break, Retest(meta)>>, !.atr = atr,
                                       !.levels[6].lo = IF atr = 4 THEN 107 ELSE 106,
                                       !.levels[6].hi = IF atr = 4 THEN 107 ELSE 106] :
        round \in Rounds, trap \in Traps, meta \in Retests, atr \in {2, 3, 4, Unmeasured}}

(* The fallbacks of the targets, by what lies ahead.                       *)
Opposed == <<Ev("sweep", "SWEEP", -1, 104, 105, NoMeta), Ev("structure", "CHOCH", -1, 104, 106, NoMeta)>>
Coil(e) == <<Ev("compression", "COIL", 0, 99, 100, [energy |-> e, matured |-> TRUE])>>
TargetSettings ==
    {Hears([Base EXCEPT !.levels = <<Block, RangeHi, RangeLo>> \o SetToSeq({Pool(p) : p \in pools})
                                     \o (IF pdh = 0 THEN <<>> ELSE <<Level("PDH", pdh, pdh)>>),
                        !.evidence = <<Break, signal>>],
           other) :
        pools \in SUBSET {102, 103, 104, 105}, pdh \in {0, 106},
        signal \in {Gap3, Retest([sl |-> 98]), Retest(NoMeta)},
        other \in {<<>>, Opposed, Coil(5)}}

(* The day and the other frames, the template by its edges and its breaks. *)
Edges ==
    {<<hi, lo>> : hi \in {RangeHi, Went(RangeHi, "SWEPT"), Went(Went(RangeHi, "SWEPT"), "RECLAIMED")},
                  lo \in {RangeLo, Went(RangeLo, "SWEPT"), Went(Went(RangeLo, "SWEPT"), "RECLAIMED")}}
Breaks == {<<>>, <<Break>>, <<[Break EXCEPT !.event = "CHOCH"]>>}
DaySettings ==
    {[Hears(Base, breaks) EXCEPT !.levels = <<Block>> \o edges \o Pools3, !.m15 = m15, !.gap = gap] :
        edges \in Edges, breaks \in Breaks, m15 \in {0, 1}, gap \in {0, 1}}
    \cup {[Base EXCEPT !.htf = htf, !.m15 = m15, !.index = [trend |-> -1, strength |-> strength]] :
              htf \in {"RANGE", "MARKUP", "MARKDOWN"}, m15 \in {0, 1, -1}, strength \in {0, 1}}

(* Clusters: chains, nested bands, gaps, contested and repeated voices.    *)
Voices ==
    {Ev("sweep", "SWEEP", 1, 96, 102, NoMeta), Ev("sweep", "SWEEP", 1, 102, 103, NoMeta),
     Ev("sweep", "SWEEP", -1, 100, 102, NoMeta), Ev("wyckoff", "VSA", 1, 97, 98, NoMeta),
     Ev("wyckoff", "VSA", -1, 101, 101, NoMeta), Ev("volume", "SPIKE", 0, 100, 100, NoMeta),
     Ev("timestats", "OPEN", 0, 99, 99, NoMeta),
     [Ev("structure", "BOS", -1, 99, 100, NoMeta) EXCEPT !.strength = 1]}
ClusterSettings ==
    {[Hears(Base, SetToSeq(voices)) EXCEPT !.m15 = m15, !.sizes = sizes] :
        voices \in {V \in SUBSET Voices : Cardinality(V) <= 3}, m15 \in {0, 1},
        sizes \in {<<>>, <<70>>, <<20>>}}

(* The ladder, the trigger, and what disarms.                              *)
Blocks   == {Block, Level("OB_BULL", 99, 101), Went(Block, "TESTED"), Went(Block, "DEAD")}
Triggers == {Base.trigger, [o |-> 101, h |-> 103, l |-> 100, c |-> 101],
             [o |-> 99, h |-> 99, l |-> 95, c |-> 97]}
GateSettings ==
    {[Base EXCEPT !.levels[1] = block, !.nests = nests, !.sweeps = sweeps,
                  !.asks = [rung |-> rung, grade |-> grade]] :
        block \in Blocks, nests \in {{}, {[lo |-> 98, hi |-> 99, bull |-> TRUE]}},
        sweeps \in {{}, {[at |-> 1, highs |-> FALSE]}}, rung \in 0 .. 3, grade \in {0, 2, 3}}
    \cup {[Base EXCEPT !.levels[1] = block, !.trigger = trigger, !.held = held] :
              block \in Blocks, trigger \in Triggers, held \in {0, 2, 3}}

(* Events, seen by the gate or not, and a close that has run away.         *)
EventSettings ==
    {[Base EXCEPT !.closes[5] = close, !.big = big, !.asked = asked, !.gapped = gapped] :
        close \in {101, 102, 103}, big \in SUBSET {3, 4, 5}, asked \in SUBSET {3, 4}, gapped \in BOOLEAN}

(* The taught tree, on a window with something old in it.                  *)
Extreme(at, ote) == [Ev("premium_discount", "PD", 1, 95, 100, [permits |-> 1, ote |-> ote]) EXCEPT !.at = at]
Nest == Ev("htf_nest", "NEST", 1, 99, 101, [depth |-> 1, ceTwice |-> 200, sl |-> 98])
TaughtSettings ==
    {[With(Base, <<Level("EXT_H", far, far)>>) EXCEPT
            !.engine = "taught",
            !.evidence = <<Extreme(at, ote), [Retest(meta) EXCEPT !.at = old]>> \o more
                           \o <<Ev("fvg", "FVG", 1, 99, 101, NoMeta)>>] :
        far \in {102, 106}, at \in {1, 5}, ote \in BOOLEAN, old \in {1, 5},
        meta \in {NoMeta, [sl |-> 98]}, more \in {<<>>, <<Break>>, <<Nest>>, <<Break, Nest>>}}

-----------------------------------------------------------------------------
(* The mirror image in the price 100.                                      *)
Swap ==
    [OB_BULL |-> "OB_BEAR", OPEN_RANGE_H |-> "OPEN_RANGE_L", OPEN_RANGE_L |-> "OPEN_RANGE_H",
     PDH |-> "PDL", SWING_H |-> "SWING_L", SWING_L |-> "SWING_H", EXT_H |-> "EXT_L", ROUND |-> "ROUND",
     RANGE |-> "RANGE", MARKUP |-> "MARKDOWN", MARKDOWN |-> "MARKUP"]
Across(z) == [z EXCEPT !.lo = 200 - z.hi, !.hi = 200 - z.lo]
MetaAcross(k, v) ==
    CASE k = "sl" -> 200 - v [] k = "ceTwice" -> 400 - v [] k = "permits" -> -v [] OTHER -> v
Mirror(x) ==
    [x EXCEPT
        !.closes = [i \in DOMAIN @ |-> 200 - @[i]], !.high = 200 - x.low, !.low = 200 - x.high,
        !.levels = [i \in DOMAIN @ |-> [Across(@[i]) EXCEPT !.kind = Swap[@]]],
        !.evidence = [i \in DOMAIN @ |-> [Across(@[i]) EXCEPT !.dir = -@,
                          !.meta = [k \in DOMAIN @ |-> MetaAcross(k, @[k])]]],
        !.htf = Swap[@], !.m15 = -@, !.gap = -@, !.index.trend = -@,
        !.nests = {[Across(h) EXCEPT !.bull = ~h.bull] : h \in @},
        !.sweeps = {[s EXCEPT !.highs = ~s.highs] : s \in @},
        !.trigger = [o |-> 200 - @.o, h |-> 200 - @.l, l |-> 200 - @.h, c |-> 200 - @.c]]

Bullish == StopSettings \cup TargetSettings \cup DaySettings \cup ClusterSettings
             \cup GateSettings \cup EventSettings \cup TaughtSettings
                  \cup {[x EXCEPT !.htf = "MARKDOWN"] : x \in TaughtSettings}
MCSettings == Bullish \cup {Mirror(x) : x \in Bullish}

(* What the plans come to: Verdicts stays within it.                       *)
TargetLists   == UNION {{t \in [1 .. n -> 3 .. 20] : \A i \in 1 .. n - 1 : t[i] < t[i + 1]} : n \in 1 .. 3}
MCPlans       == [qty : 1 .. 10, risk : 1 .. 8, targets : TargetLists, goal : {None, 4}]
MCTriggerBars == [high : -4 .. 8, low : -8 .. 2, close : -8 .. 8]
ASSUME VerdictsAreTried ==
    \A v \in Verdicts : /\ Handed(v.draft) \in MCPlans
                        /\ Seen(v.of.trigger, v.draft) \in MCTriggerBars

Follow(qty, targets, goal) == [qty |-> qty, risk |-> 2, targets |-> targets, goal |-> goal]
MCFollowed ==
    {Follow(10, <<3, 4, 6>>, None), Follow(3, <<3, 4, 6>>, None),
     Follow(5, <<4, 6, 8>>, 4)}
MCPrices      == {-3, 0, 2, 4, 6}
MCSwingStops  == {-3, 1}
=============================================================================
