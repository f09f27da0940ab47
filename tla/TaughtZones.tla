---------------------------- MODULE TaughtZones -----------------------------
(***************************************************************************)
(* The zones of the detectors fvg_n, ob_taught and propulsion2 and the one *)
(* law they live by (src/app/trader/detectors/taught.py).  A zone is a     *)
(* band lo..hi born from the bars a..b; of names the zone it came from, by *)
(* its bars, so that no two zones are equal records.  The optional floors  *)
(* on the size of a gap and of a break are off, as in the defaults.        *)
(***************************************************************************)
EXTENDS Tape

CONSTANT MMax               \* widest burst of a gap, 6 in the code
ASSUME MMaxAssumption == MMax \in Nat \ {0}

Zone(kind, dir, lo, hi, a, b, of) ==
    [kind |-> kind, dir |-> dir, lo |-> lo, hi |-> hi, a |-> a, b |-> b,
     of |-> of, alive |-> TRUE, armed |-> FALSE, fired |-> FALSE]

FarOut(z, c)    == IF z.dir = 1 THEN z.lo - c ELSE c - z.hi
Left(z, bar)    == IF z.dir = 1 THEN bar.l > z.hi ELSE bar.h < z.lo

(* One closed bar against one zone: the break is checked before the touch. *)
Sees(z, i)      == z.alive /\ i > z.b
Breaks(z, w, i) == Sees(z, i) /\ Deep(w, i, FarOut(z, w[i].c))
Holds(z, w, i)  == Sees(z, i) /\ ~Breaks(z, w, i)
Retests(z, w, i) == Holds(z, w, i) /\ z.armed /\ ~z.fired /\ ~Left(z, w[i])

StepZoneForgets(z, w, i) ==     \* mutant: leaving the box is not latched
    [z EXCEPT !.alive = @ /\ ~Breaks(z, w, i),
              !.armed = Holds(z, w, i) /\ Left(z, w[i]),
              !.fired = @ \/ Retests(z, w, i)]
StepZone(z, w, i) ==
    [z EXCEPT !.alive = @ /\ ~Breaks(z, w, i),
              !.armed = @ \/ (Holds(z, w, i) /\ Left(z, w[i])),
              !.fired = @ \/ Retests(z, w, i)]

(* A zone of this kind that breaks comes back once, facing the other way.  *)
Flipped(zones, kind, into, w, i) ==
    {Zone(into, -z.dir, z.lo, z.hi, i, i, <<z.a, z.b>>) :
        z \in {x \in zones : x.kind = kind /\ Breaks(x, w, i)}}

Alive(zones) == {z \in zones : z.alive}             \* on_session_end

-----------------------------------------------------------------------------
(* fvg_n: a gap between bar i and the bar before a burst of m bars that    *)
(* all close on its far side.                                              *)
Burst(w, i, m) == i - m .. i - 1
UpGapBurst(w, i, m) ==          \* mutant: a burst is enough
    \A j \in Burst(w, i, m) : w[j].c > w[i-m-1].h
UpGap(w, i, m) == /\ \A j \in Burst(w, i, m) : w[j].c > w[i-m-1].h
                  /\ w[i].l > w[i-m-1].h
DownGap(w, i, m) == /\ \A j \in Burst(w, i, m) : w[j].c < w[i-m-1].l
                    /\ w[i].h < w[i-m-1].l
Widths(i) == {m \in 1 .. MMax : m + 1 < i}
GapsAt(w, i) ==
    {Zone("FVG", 1, w[i-m-1].h, w[i].l, i - m - 1, i, <<>>) :
        m \in {n \in Widths(i) : UpGap(w, i, n)}}
    \cup {Zone("FVG", -1, w[i].h, w[i-m-1].l, i - m - 1, i, <<>>) :
        m \in {n \in Widths(i) : DownGap(w, i, n)}}

Overlap(x, y) == /\ x.dir = y.dir /\ x.a <= y.b /\ y.a <= x.b
                 /\ x.lo < y.hi /\ y.lo < x.hi
Masked(gap, zones) == \E z \in Alive(zones) : z.kind = "FVG" /\ Overlap(gap, z)

(* _keep goes through the bursts from short to long.  The gaps of one bar  *)
(* and direction share an edge, so they overlap: once one is kept the      *)
(* longer ones are fragments of it.                                        *)
Kept(gaps, zones) ==
    {g \in gaps : /\ ~Masked(g, zones)
                  /\ \A x \in gaps : x.dir = g.dir /\ x.a > g.a => Masked(x, zones)}

FvgStep(zones, w, i) ==
    LET seen == {StepZone(z, w, i) : z \in zones}
    IN  seen \cup Flipped(zones, "FVG", "IFVG", w, i) \cup Kept(GapsAt(w, i), seen)

-----------------------------------------------------------------------------
(* ob_taught: the bars start..i-1 are a pause until one closes beyond all  *)
(* of their bodies; the block is the pause from its first bar against the  *)
(* break on.  Whether a broken block becomes BRK or MIT is a label only.   *)
Low(a, b)  == IF a < b THEN a ELSE b
High(a, b) == IF a < b THEN b ELSE a
BodyLo(w, S)  == Min({Low(w[j].o, w[j].c) : j \in S})
BodyHi(w, S)  == Max({High(w[j].o, w[j].c) : j \in S})
Against(w, j, d) == IF d = 1 THEN w[j].c < w[j].o ELSE w[j].c > w[j].o

PauseBreaks(w, start, i, d) ==
    /\ start < i
    /\ IF d = 1 THEN w[i].c > BodyHi(w, start .. i - 1)
                ELSE w[i].c < BodyLo(w, start .. i - 1)
StartAfter(w, start, i) ==
    IF \E d \in {1, -1} : PauseBreaks(w, start, i, d) THEN i ELSE start

FirstAgainst(w, start, i, d) ==
    {k \in start .. i - 1 : /\ Against(w, k, d)
                            /\ \A j \in start .. k - 1 : ~Against(w, j, d)}
BlocksAt(w, start, i) ==
    UNION {{Zone("OB", d, BodyLo(w, k .. i - 1), BodyHi(w, k .. i - 1), k, i, <<>>) :
                k \in FirstAgainst(w, start, i, d)} :
           d \in {x \in {1, -1} : PauseBreaks(w, start, i, x)}}

ObStep(zones, start, w, i) ==
    {StepZone(z, w, i) : z \in zones} \cup Flipped(zones, "OB", "FLIP", w, i)
                                      \cup BlocksAt(w, start, i)

-----------------------------------------------------------------------------
(* propulsion2: a first touch of a block that closes away from it leaves a *)
(* kid, the body of the touching bar.  A kid dies with its parent before   *)
(* it can answer the bar.  (The detector's own ObZones see the same bars   *)
(* as ob_taught's: one set of blocks stands for both.)                     *)
Parent(k, p) == p.kind = "OB" /\ k.of = <<p.a, p.b>>
Cascade(kids, blocks) ==
    {[k EXCEPT !.alive = @ /\ \E p \in blocks : Parent(k, p) /\ p.alive] : k \in kids}

ClosesAway(z, bar) == IF z.dir = 1 THEN bar.c > z.hi /\ bar.c > bar.o
                                   ELSE bar.c < z.lo /\ bar.c < bar.o
KidsAt(blocks, w, i) ==
    {Zone("PRP", p.dir, Low(w[i].o, w[i].c), High(w[i].o, w[i].c), i, i, <<p.a, p.b>>) :
        p \in {z \in blocks : z.kind = "OB" /\ Retests(z, w, i) /\ ClosesAway(z, w[i])}}

(* blocks before the bar, seen after it.                                   *)
KidsStepLate(kids, blocks, seen, w, i) ==   \* mutant: parents as before the bar
    {StepZone(k, w, i) : k \in Cascade(kids, blocks)} \cup KidsAt(blocks, w, i)
KidsStep(kids, blocks, seen, w, i) ==
    {StepZone(k, w, i) : k \in Cascade(kids, seen)} \cup KidsAt(blocks, w, i)
=============================================================================
