------------------------------- MODULE Setting -------------------------------
(***************************************************************************)
(* What a SymbolPipeline looks at when it judges a setup, as one record    *)
(* (StockContext and ScoredZone of src/app/trader/engine), and the price   *)
(* arithmetic its judges share.  Prices are whole ticks; a coefficient of  *)
(* the ATR is in percent; dir is 1 for LONG, -1 for SHORT, 0 for NEUTRAL.  *)
(*                                                                         *)
(*   now, atr      number of the M5 bar that closed, its ATR or Unmeasured *)
(*   closes        closes of the bars 1 .. now                             *)
(*   high, low     range of today's bars                                   *)
(*   levels        sequence of [kind, lo, hi, state, past, touches, born]; *)
(*                 past: the transitions, as [at, to]; born: number of a   *)
(*                 bar, `today` the first bar of the session               *)
(*   evidence      sequence of [detector, event, dir, strength, lo, hi,    *)
(*                 at, ttl, meta], oldest first; strength in halves; meta: *)
(*                 a record of the keys the detector gives                 *)
(*   htf, m15, index, gap      readings of other frames (Scoring)          *)
(*   nests, sweeps             what the ladder keeps (Grading)             *)
(***************************************************************************)
EXTENDS Integers, Sequences, FiniteSetsExt

CONSTANT Weights            \* settings.enabled_weights(): detector -> points
ASSUME WeightsAssumption == \A d \in DOMAIN Weights : Weights[d] \in Nat
Weight(d) == IF d \in DOMAIN Weights THEN Weights[d] ELSE 0

Unmeasured == -1                       \* ctx.atr is None
Atr(x) == IF x.atr = Unmeasured THEN 0 ELSE x.atr

(* MarketSpec.quantize of n / d: the nearest tick, a half goes up.         *)
Quantize(n, d) == (2 * n + d) \div (2 * d)

Overlaps(a, b) == a.lo <= b.hi /\ b.lo <= a.hi
Span(z) == z.hi - z.lo

(* The edge a trade in direction d meets last, and the worse of prices.    *)
Far(d, z)   == IF d = 1 THEN z.lo ELSE z.hi
Worst(d, S) == IF d = 1 THEN Min(S) ELSE Max(S)

Terminal    == {"DEAD", "MITIGATED", "INVERTED"}
RangeEdges  == {"OPEN_RANGE_H", "OPEN_RANGE_L"}
LevelsOf(x) == {x.levels[i] : i \in DOMAIN x.levels}
WasIn(z, S) == \E s \in z.past : s.to \in S
Trapped     == {"SWEPT", "RECLAIMED"}

Has(e, key) == key \in DOMAIN e.meta

(* live_evidence: what has not outlived its ttl, by its place in the list. *)
Live(x)   == {i \in DOMAIN x.evidence : x.evidence[i].at + x.evidence[i].ttl >= x.now}
LiveOf(x) == {x.evidence[i] : i \in Live(x)}

-----------------------------------------------------------------------------
(* What the judges take for granted: a band is the right way up, at prices *)
(* above zero, a bar has closed, and a reading of the ATR is not negative. *)
IsBand(z) == z.lo \in Nat \ {0} /\ z.hi \in Nat \ {0} /\ z.lo <= z.hi
IsEvidence(e) ==
    /\ IsBand(e) /\ e.dir \in {1, 0, -1} /\ e.strength \in Nat /\ e.at \in Int
    /\ Has(e, "sl") => e.meta.sl \in Int
    /\ Has(e, "floor") => e.meta.floor \in Int
    /\ Has(e, "energy") => e.meta.energy \in Int
    /\ e.detector = "premium_discount" => e.meta.permits \in {1, 0, -1}
IsSetting(x) ==
    /\ x.atr \in Nat \cup {Unmeasured}
    /\ x.closes \in Seq(Int) /\ x.closes # <<>>
    /\ x.levels \in Seq(LevelsOf(x)) /\ \A z \in LevelsOf(x) : IsBand(z)
    /\ x.evidence \in Seq(Range(x.evidence)) /\ \A e \in Range(x.evidence) : IsEvidence(e)
    /\ x.sizes \in Seq(Nat \ {0})
=============================================================================
