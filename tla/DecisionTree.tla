----------------------------- MODULE DecisionTree -----------------------------
(***************************************************************************)
(* The taught decision (engine/decision.py, decide) and the zones it hands *)
(* to the entry (SymbolPipeline._taught_zones).  It reads a window: the    *)
(* evidence of this bar, then the last 60 of the history, oldest first,    *)
(* and always takes the first that will do.                                *)
(***************************************************************************)
EXTENDS Setting, SequencesExt

CONSTANTS
    WindowSize,     \* 60
    MinGrade,       \* decision.min_grade
    MinRR           \* decision.min_rr, 0 switches the test off

ASSUME DecisionAssumption == WindowSize \in Nat /\ MinGrade \in Nat /\ MinRR \in Nat

ZoneDetectors == {"ob_taught", "fvg", "fvg_n", "fvg_cb", "mitigation", "breaker",
                  "breaker_msb", "propulsion2"}
ZoneEvents == {"OB_RETEST", "BRK_RETEST", "MIT_RETEST", "FVG", "FVG_N_RETEST",
               "FVG_CE_HOLD", "IFVG", "IFVG_RETEST"}
ZoneSignal(e) == e.detector \in ZoneDetectors /\ e.event \in ZoneEvents

(* This bar's evidence is in the history already when decide is called.    *)
Fresh(x)  == FoldLeft(LAMBDA w, e : IF e.at = x.now THEN Append(w, e) ELSE w, <<>>, x.evidence)
Window(x) == Fresh(x) \o SubSeq(x.evidence, Max({1, Len(x.evidence) - WindowSize + 1}), Len(x.evidence))

First(w, S) == w[Min(S)]        \* next(e for e in evidence if ...), S # {}

(* The extreme: the first premium_discount there is.                       *)
Extremes(w) == {i \in DOMAIN w : w[i].detector = "premium_discount"}
Permit(w) == IF Extremes(w) = {} THEN 0 ELSE First(w, Extremes(w)).meta.permits

(* The entry object: the first zone signal of that side.                   *)
Objects(w, d) == {i \in DOMAIN w : ZoneSignal(w[i]) /\ w[i].dir = d}

Nests(w, d) == {i \in DOMAIN w : w[i].detector = "htf_nest" /\ w[i].dir = d}
Deepest(w, d) ==
    First(w, {i \in Nests(w, d) : \A j \in Nests(w, d) : w[j].meta.depth <= w[i].meta.depth})

(* Entry (in half ticks) and stop: of the deepest nest, else of the zone.  *)
EntryTwice(w, d) ==
    LET z == First(w, Objects(w, d))
    IN  IF Nests(w, d) # {} THEN Deepest(w, d).meta.ceTwice ELSE z.lo + z.hi
StopLoss(w, d) ==
    LET z == First(w, Objects(w, d))
    IN  IF Nests(w, d) # {} THEN Deepest(w, d).meta.sl
        ELSE IF Has(z, "sl") THEN z.meta.sl ELSE Far(d, z)

Point(b) == IF b THEN 1 ELSE 0
Some(w, T(_)) == \E i \in DOMAIN w : T(w[i])

Confirmations(w, d) ==
    Point(Some(w, LAMBDA e : /\ e.detector = "structure" /\ e.dir = d
                             /\ e.event \in {"BOS", "CHOCH"}))
    + Point(Some(w, LAMBDA e : e.detector = "sweep"))
    + Point(First(w, Extremes(w)).meta.ote)
    + Point(Some(w, LAMBDA e : e.detector = "wyckoff" /\ e.dir = d))
    + (IF Nests(w, d) = {} THEN 0 ELSE 1 + Deepest(w, d).meta.depth)
    + Point(Some(w, LAMBDA e : e.detector = "compression" /\ Has(e, "matured") /\ e.meta.matured))

(* The nearest opposite extreme beyond the entry is the target.            *)
Draws(x, w, d) ==
    {z.lo + z.hi : z \in {y \in LevelsOf(x) :
        /\ y.kind = (IF d = 1 THEN "EXT_H" ELSE "EXT_L")
        /\ d * (y.lo + y.hi) > d * EntryTwice(w, d)}}
Runway(x, w, d) == IF d = 1 THEN Min(Draws(x, w, d)) ELSE Max(Draws(x, w, d))

PaysEnough(x, w, d) ==
    LET risk == d * (EntryTwice(w, d) - 2 * StopLoss(w, d))
        size == IF risk < 0 THEN -risk ELSE risk
    IN  \/ MinRR = 0 \/ risk = 0
        \/ d * (Runway(x, w, d) - EntryTwice(w, d)) >= MinRR * size

Decides(x, w, d) ==
    /\ d # 0 /\ Objects(w, d) # {} /\ Draws(x, w, d) # {}
    /\ PaysEnough(x, w, d)
    /\ Confirmations(w, d) >= MinGrade

(* A fresh zone asks the tree; what it takes is armed whatever its score.  *)
TaughtZones(x) ==
    LET w == Window(x)
        d == Permit(w)
        z == First(w, Objects(w, d))
    IN  IF (\E i \in DOMAIN Fresh(x) : ZoneSignal(Fresh(x)[i])) /\ Decides(x, w, d)
        THEN {[lo |-> z.lo, hi |-> z.hi, dir |-> d, raw |-> 200 * Confirmations(w, d), final |-> 1000]}
        ELSE {}
=============================================================================
