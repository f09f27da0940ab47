------------------------------- MODULE Grading -------------------------------
(***************************************************************************)
(* What the ladder demands of the zone behind a score: its rung            *)
(* (engine/ladder.py, grade and _rung) and the zone-graph grade            *)
(* (engine/grade.py).  The settings give the ladder's trackers: nests, the *)
(* live H1 zones [lo, hi, bull], and sweeps, the swept pools [at, highs].  *)
(***************************************************************************)
EXTENDS Setting

Bulls == {"OB_BULL", "FVG_BULL"}
Bears == {"OB_BEAR", "FVG_BEAR"}
Zones(d) == IF d = 1 THEN Bulls ELSE Bears

(* The live zones of the trade's side that the cluster touches.            *)
Backing(x, d, c) ==
    {i \in DOMAIN x.levels : LET z == x.levels[i] IN
        z.kind \in Zones(d) /\ z.state \notin Terminal /\ Overlaps(z, c)}

Nested(x, z) ==
    \E h \in x.nests : h.bull = (z.kind \in Bulls) /\ Overlaps(h, z)

(* Born within SWEEP_BARS = 3 bars after a sweep of the opposite pool.     *)
SweepBars == 3
AfterSweep(x, z) ==
    \E s \in x.sweeps : /\ s.highs # (z.kind \in Bulls)
                        /\ s.at <= z.born /\ z.born <= s.at + SweepBars

(* First touch of a zone of an earlier session, then the nest, the sweep.  *)
RungOf(x, z) ==
    IF z.born >= x.today \/ \E s \in z.past : s.at < x.now THEN 0
    ELSE IF ~Nested(x, z) THEN 1
    ELSE IF AfterSweep(x, z) THEN 3 ELSE 2

Rung(x, d, c) == Max({0} \cup {RungOf(x, x.levels[i]) : i \in Backing(x, d, c)})

-----------------------------------------------------------------------------
(* Fragments of one birth count once: of a kind, within two bars.  Levels  *)
(* carry no birth_id and LevelKind has no propulsion kind, so the chain is *)
(* what _nst counts and every parent is in order.                          *)
FragmentOf(x, i, j) ==
    LET y == x.levels[i]
        z == x.levels[j]
    IN  /\ y.kind = z.kind
        /\ y.born < z.born \/ (y.born = z.born /\ i < j)
        /\ z.born - y.born <= 2
Stack(x, d, c) ==
    Cardinality({j \in Backing(x, d, c) : ~\E i \in Backing(x, d, c) : FragmentOf(x, i, j)})

(* Never closed through by half an ATR since its birth.                    *)
DepthAlive(x, d, z) ==
    \/ x.atr = Unmeasured
    \/ \A n \in z.born + 1 .. x.now :
           2 * (IF d = 1 THEN z.lo - x.closes[n] ELSE x.closes[n] - z.hi) < x.atr

Grade(x, d, c) ==
    1 + (IF Stack(x, d, c) >= 4 THEN 1 ELSE 0)
      + (IF \E i \in Backing(x, d, c) : DepthAlive(x, d, x.levels[i]) THEN 1 ELSE 0)
=============================================================================
