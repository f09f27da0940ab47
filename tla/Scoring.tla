------------------------------- MODULE Scoring -------------------------------
(***************************************************************************)
(* The confluence score of a setting (engine/confluence.py) and the day    *)
(* template it is multiplied with (engine/template.py, _classify).         *)
(* Weights are points; strengths are halves; a zone's mass is kept in      *)
(* twentieths of a point, its final score in tenths (a tie, which binary   *)
(* floats break either way, goes up).                                      *)
(***************************************************************************)
EXTENDS Setting, SequencesExt

CONSTANTS
    MergePct,       \* merge_atr
    MinDetectors    \* min_zone_detectors

ASSUME ScoringAssumption == MergePct \in Nat /\ MinDetectors \in Nat \ {0}

-----------------------------------------------------------------------------
(* The template.  Evidence counts when it was stamped this session.        *)
Structure(x, event) ==
    {i \in DOMAIN x.evidence : LET e == x.evidence[i] IN
        e.detector = "structure" /\ e.event = event /\ e.at >= x.today}

Edge(x, kind) == {z \in LevelsOf(x) : z.kind = kind}

Template(x) ==
    LET swept     == {k \in RangeEdges : \E z \in Edge(x, k) : WasIn(z, Trapped)}
        reclaimed == {k \in RangeEdges : \E z \in Edge(x, k) : WasIn(z, {"RECLAIMED"})}
        bos(d)    == Cardinality({i \in Structure(x, "BOS") : x.evidence[i].dir = d})
    IN  IF swept = RangeEdges THEN "DOUBLE_TRAP"
        ELSE IF swept # {} /\ swept \subseteq reclaimed /\ Structure(x, "CHOCH") # {}
        THEN "TRAP_REVERSAL"
        ELSE IF reclaimed = {} /\ \E d \in {1, -1} : bos(d) >= 2 THEN "TREND"
        ELSE IF x.gap # 0 /\ bos(x.gap) > 0 THEN "UNCLASSIFIED"
        ELSE IF /\ swept = {} /\ \A k \in RangeEdges : Edge(x, k) # {}
                /\ Cardinality(Structure(x, "BOS")) < 2
        THEN "RANGE_PIN"
        ELSE "UNCLASSIFIED"

-----------------------------------------------------------------------------
(* Clusters: a sweep over the evidence from the lowest price up, so the    *)
(* uppermost of a set comes after all others.                              *)
Close(x, lo, hi) == 100 * (lo - hi) <= MergePct * Atr(x)

Before(x, i, j) ==
    LET e == x.evidence[i]
        f == x.evidence[j]
    IN  e.lo < f.lo \/ (e.lo = f.lo /\ (e.hi < f.hi \/ (e.hi = f.hi /\ i <= j)))
Uppermost(x, S) == CHOOSE i \in S : \A j \in S : Before(x, j, i)

SweepForgets(x, out, i) ==      \* mutant: the top edge is the last zone's
    LET e == x.evidence[i]
    IN  IF out # <<>> /\ Close(x, e.lo, Last(out).hi)
        THEN [out EXCEPT ![Len(out)] =
                [lo |-> @.lo, hi |-> e.hi, members |-> Append(@.members, e)]]
        ELSE Append(out, [lo |-> e.lo, hi |-> e.hi, members |-> <<e>>])
Sweep(x, out, i) ==
    LET e == x.evidence[i]
    IN  IF out # <<>> /\ Close(x, e.lo, Last(out).hi)
        THEN [out EXCEPT ![Len(out)] =
                [lo |-> @.lo, hi |-> Max({@.hi, e.hi}), members |-> Append(@.members, e)]]
        ELSE Append(out, [lo |-> e.lo, hi |-> e.hi, members |-> <<e>>])

Clusters(x) == MapThenFoldSet(LAMBDA i, out : Sweep(x, out, i), <<>>,
                              LAMBDA i : i, LAMBDA S : Uppermost(x, S), Live(x))

(* One voice per detector: its first strongest evidence in the cluster.    *)
Best(members) ==
    {members[i] : i \in {k \in DOMAIN members :
        \A j \in DOMAIN members : members[j].detector = members[k].detector =>
            \/ members[j].strength < members[k].strength
            \/ members[j].strength = members[k].strength /\ k <= j}}

NoVote   == {"volume", "timestats"}
Votes(c) == {e \in Best(c.members) : e.detector \notin NoVote}
Mass(c, d) == MapThenSumSet(LAMBDA e : Weight(e.detector) * e.strength,
                            {e \in Votes(c) : e.dir = d})

Side(c) == IF Mass(c, 1) = Mass(c, -1) THEN 0 ELSE IF Mass(c, 1) > Mass(c, -1) THEN 1 ELSE -1

(* Netted mass: the loser counts 0.8 against, the neutral 0.5 for.         *)
Raw(c) ==
    LET both == {Mass(c, 1), Mass(c, -1)}
        net  == 10 * Max(both) - 8 * Min(both) + 5 * Mass(c, 0)
    IN  Max({0, net}) + (IF \E e \in Best(c.members) : e.detector = "volume" THEN 60 ELSE 0)

Distinct(c) == IF Side(c) = 0 THEN 0 ELSE Cardinality({e \in Votes(c) : e.dir = Side(c)})

-----------------------------------------------------------------------------
(* The multipliers: fifths, halves, halves, twentieths, halves.            *)
Align(x, d) ==
    IF (x.htf = "MARKDOWN" /\ d = 1) \/ (x.htf = "MARKUP" /\ d = -1) THEN 0
    ELSE IF x.m15 = 0 THEN 4 ELSE IF x.m15 = d THEN 5 ELSE 0

(* The latest live timestats reading, the stronger of two; 1/2 without.    *)
Time(x) ==
    LET stats == {e \in LiveOf(x) : e.detector = "timestats"}
        last  == {e \in stats : \A f \in stats : f.at <= e.at}
    IN  IF stats = {} THEN 1 ELSE Max({e.strength : e \in last})

(* The direction the template plays, 0 when it plays none.                 *)
Play(x) ==
    LET trapped == SelectSeq(x.levels, LAMBDA z : z.kind \in RangeEdges /\ WasIn(z, Trapped))
    IN  IF Template(x) = "TREND" THEN x.m15
        ELSE IF Template(x) # "TRAP_REVERSAL" \/ trapped = <<>> THEN 0
        ELSE IF Head(trapped).kind = "OPEN_RANGE_L" THEN 1 ELSE -1

(* Within one ATR of an edge of the range, pointing away from it.          *)
FadesEdge(x, d, c) ==
    LET kind  == IF d = 1 THEN "OPEN_RANGE_L" ELSE "OPEN_RANGE_H"
        today == IF d = 1 THEN x.low ELSE x.high
        edges == {[lo |-> z.lo, hi |-> z.hi] : z \in Edge(x, kind)}
                 \cup {[lo |-> today, hi |-> today]}
    IN  d # 0 /\ \E z \in edges : Max({z.lo - c.hi, c.lo - z.hi, 0}) <= Atr(x)

TemplateMult(x, d, c) ==
    IF Template(x) = "UNCLASSIFIED" THEN 0
    ELSE IF Template(x) = "RANGE_PIN" THEN IF FadesEdge(x, d, c) THEN 2 ELSE 1
    ELSE IF d # 0 /\ Play(x) = d THEN 2 ELSE 1

Obviousness(x, c) ==
    LET obvious == {z \in LevelsOf(x) : Overlaps(z, c) /\ (z.kind = "ROUND" \/ z.touches >= 3)}
    IN  IF \E z \in obvious : WasIn(z, {"RECLAIMED"}) THEN 23
        ELSE IF \E z \in obvious : ~WasIn(z, Trapped) THEN 17 ELSE 20

(* index: [trend, strength], or trend 0 for an absent or neutral reading.  *)
IndexMult(x, d) == IF x.index.trend # 0 /\ d = -x.index.trend /\ x.index.strength >= 1 THEN 1 ELSE 2

Final(x, c) ==
    LET d    == Side(c)
        prod == Raw(c) * Align(x, d) * Time(x) * TemplateMult(x, d, c)
                       * Obviousness(x, c) * IndexMult(x, d)
    IN  IF Distinct(c) < MinDetectors THEN 0 ELSE Min({1000, Quantize(10 * prod, 16000)})

Scored(x, c) == [lo |-> c.lo, hi |-> c.hi, dir |-> Side(c), raw |-> Raw(c), final |-> Final(x, c)]

(* ConfluenceEngine.score, and the zone that its sort puts first.          *)
Score(x) == {Scored(x, c) : c \in ToSet(Clusters(x))}
Foremost(zones) ==
    CHOOSE z \in zones : \A y \in zones :
        \/ z.final > y.final
        \/ z.final = y.final /\ (z.raw > y.raw \/ (z.raw = y.raw /\ z.lo <= y.lo))
=============================================================================
