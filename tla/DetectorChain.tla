---------------------------- MODULE DetectorChain ----------------------------
(***************************************************************************)
(* The incremental detectors of one symbol on one growing tape.  A run     *)
(* starts with fresh instances and the bars the cache holds; each new      *)
(* closed bar makes every detector read the bars it has not seen (cursor   *)
(* _n) and answer with the evidence of the newest.  A session end prunes   *)
(* what can no longer signal; a restart loses the instances and keeps the  *)
(* bars.  One Read is one turn of the detectors' loops over the window:    *)
(* they run in one call of registry.run_all, nothing comes between.        *)
(***************************************************************************)
EXTENDS TaughtZones, MarketStructure

CONSTANTS
    Seeds,      \* the tapes a first run may find in the cache
    Shapes,     \* a next bar, as [o, h, l, c] relative to the last close
    Top,        \* highest price
    MaxBars,    \* bound on the tape
    MaxRestarts
ASSUME BoundsAssumption == MaxBars \in Nat

VARIABLES
    bars,       \* the closed candles of the timeframe
    read,       \* _n of every detector
    detecting,  \* run_all is under way
    restarts,
    gaps,       \* fvg_n: FvgZones.zones
    blocks,     \* ob_taught and propulsion2: ObZones.zones
    start,      \* first bar of ObZones._run
    kids,       \* propulsion2: _kids
    idm,        \* inducement
    brk,        \* breaker_msb
    out,        \* the evidence of this call
    leg, grabs  \* history: bar of the last turn of idm.os, grabs since the start

zones     == <<gaps, blocks, start, kids>>
structure == <<idm, brk, leg, grabs>>
vars      == <<bars, read, detecting, restarts, zones, structure, out>>

Fresh ==
    /\ read' = 0 /\ detecting' = FALSE
    /\ gaps' = {} /\ blocks' = {} /\ start' = 1 /\ kids' = {}
    /\ idm' = IdmFresh /\ brk' = BrkFresh
    /\ leg' = 0 /\ grabs' = {} /\ out' = {}

(* Candle.__post_init__: the body lies within the range.                   *)
Candles == {b \in [o : Int, h : Int, l : Int, c : Int] :
                b.l <= b.o /\ b.l <= b.c /\ b.o <= b.h /\ b.c <= b.h}
ASSUME SeedsAssumption ==
    /\ Seeds \subseteq Seq(Candles) /\ <<>> \notin Seeds /\ Shapes \subseteq Candles
    /\ \A w \in Seeds : Len(w) <= MaxBars /\ \A j \in DOMAIN w : w[j].l > 0

Init ==
    /\ bars \in Seeds
    /\ read = 0 /\ detecting = FALSE /\ restarts = 0
    /\ gaps = {} /\ blocks = {} /\ start = 1 /\ kids = {}
    /\ idm = IdmFresh /\ brk = BrkFresh
    /\ leg = 0 /\ grabs = {} /\ out = {}

Candle(c, s) == [o |-> c + s.o, h |-> c + s.h, l |-> c + s.l, c |-> c + s.c]

(* An M5 boundary closes a bar and asks the detectors.                     *)
Bar(s) ==
    LET b == Candle(bars[Len(bars)].c, s)
    IN  /\ ~detecting /\ Len(bars) < MaxBars
        /\ b.l > 0 /\ b.h <= Top
        /\ bars' = Append(bars, b)
        /\ detecting' = TRUE /\ out' = {}
        /\ UNCHANGED <<read, restarts, zones, structure>>

Evidence(by, ds, i) == {[by |-> by, dir |-> d, at |-> i] : d \in ds}
Touched(zs, w, i)   == {z.dir : z \in {x \in zs : Retests(x, w, i)}}

(* fvg_n, ob_taught and propulsion2 hold back all but the last bar's       *)
(* answers; inducement and breaker_msb give every bar's.                   *)
Answers(w, i, seen) ==
    (IF i < Len(w) THEN {}
     ELSE Evidence("fvg_n", Touched(gaps, w, i), i)
          \cup Evidence("ob_taught", Touched(blocks, w, i), i)
          \cup Evidence("propulsion2", Touched(Cascade(kids, seen), w, i), i))
    \cup Evidence("inducement", Grabs(idm, w, i), i)
    \cup Evidence("breaker_msb",
                  {b.d : b \in {x \in Broken(brk, w, i).boxes : Fires(x, w, i)}}, i)

Read ==
    LET i    == read + 1
        seen == ObStep(blocks, start, bars, i)
    IN  /\ detecting
        /\ read' = i /\ detecting' = (i < Len(bars))
        /\ gaps' = FvgStep(gaps, bars, i)
        /\ blocks' = seen /\ start' = StartAfter(bars, start, i)
        /\ kids' = KidsStep(kids, blocks, seen, bars, i)
        /\ idm' = IdmStep(idm, bars, i) /\ brk' = BrkStep(brk, bars, i)
        /\ leg' = IF idm'.os # idm.os THEN i ELSE leg
        /\ grabs' = grabs \cup {[at |-> i, dir |-> d, leg |-> leg'] :
                                    d \in Grabs(idm, bars, i)}
        /\ out' = out \cup Answers(bars, i, seen)
        /\ UNCHANGED <<bars, restarts>>

SessionEndPrunesFired ==        \* mutant: a zone that has signalled is dropped
    /\ ~detecting
    /\ gaps' = {z \in Alive(gaps) : ~z.fired} /\ blocks' = Alive(blocks)
    /\ kids' = Alive(kids) /\ brk' = Unfired(brk)
    /\ UNCHANGED <<bars, read, detecting, restarts, start, idm, leg, grabs, out>>
SessionEnd ==
    /\ ~detecting
    /\ gaps' = Alive(gaps) /\ blocks' = Alive(blocks) /\ kids' = Alive(kids)
    /\ brk' = Unfired(brk)
    /\ UNCHANGED <<bars, read, detecting, restarts, start, idm, leg, grabs, out>>

Restart ==
    /\ ~detecting /\ restarts < MaxRestarts /\ restarts' = restarts + 1
    /\ Fresh
    /\ UNCHANGED bars

Next == (\E s \in Shapes : Bar(s)) \/ Read \/ SessionEnd \/ Restart
Spec == Init /\ [][Next]_vars

-----------------------------------------------------------------------------
(* Types, and the shape of zones: a band is not upside down, it was born   *)
(* from bars that have been read, and only an armed zone has fired.        *)
ZoneOK(z) ==
    /\ z.lo <= z.hi /\ z.dir \in {1, -1}
    /\ z.a <= z.b /\ z.b <= read
    /\ z.fired => z.armed
TypeOK ==
    /\ Len(bars) <= MaxBars /\ read \in 0 .. Len(bars)
    /\ detecting => read < Len(bars)
    /\ \A z \in gaps \cup blocks \cup kids : ZoneOK(z)
    /\ \A z \in gaps : z.kind \in {"FVG", "IFVG"}
    /\ \A z \in blocks : z.kind \in {"OB", "FLIP"}
    /\ start \in 1 .. read + 1
    /\ \A b \in brk.boxes : b.bot <= b.top /\ b.born <= read

(* What the tape alone says of a zone: whether a bar after its birth broke *)
(* it, whether one left it, and whether a later one came back.             *)
BrokenOn(z, w, n)   == {j \in z.b + 1 .. n : Deep(w, j, FarOut(z, w[j].c))}
LeftOn(z, w, n)     == {j \in z.b + 1 .. n : Left(z, w[j])}
CameBackOn(z, w, n) == {j \in z.b + 1 .. n : /\ ~Left(z, w[j])
                                              /\ \E k \in LeftOn(z, w, n) : k < j}
LivesByTheLaw(z, w, n) ==
    z.alive => /\ BrokenOn(z, w, n) = {}
               /\ z.armed <=> LeftOn(z, w, n) # {}
               /\ z.fired <=> CameBackOn(z, w, n) # {}
DiesByTheLaw(z, w, n) == ~z.alive => BrokenOn(z, w, n) # {}

(* The break-depth law (taught.py:4-11), streamed bar by bar with sessions *)
(* pruned and runs restarted, is the law read off the tape: a gap or block *)
(* dies by a deep close alone, and fires by the first touch alone.         *)
ZonesObeyTheLaw ==
    /\ \A z \in gaps \cup blocks \cup kids : LivesByTheLaw(z, bars, read)
    /\ \A z \in gaps \cup blocks : DiesByTheLaw(z, bars, read)

(* "Parent death kills kids first" (propulsion2.py:61-63): no kid outlives *)
(* the block it came from, also when sessions end and prune either list.   *)
NoOrphans == \A k \in Alive(kids) : \E p \in Alive(blocks) : Parent(k, p)

(* What a run that starts now, with the bars read so far, would know.      *)
Rescan ==
    LET w == bars
        after[n \in 0 .. read] ==
            IF n = 0 THEN [gaps |-> {}, blocks |-> {}, start |-> 1, kids |-> {},
                           idm |-> IdmFresh, brk |-> BrkFresh]
            ELSE LET s == after[n - 1]
                     seen == ObStep(s.blocks, s.start, w, n)
                 IN  [gaps |-> FvgStep(s.gaps, w, n), blocks |-> seen,
                      start |-> StartAfter(w, s.start, n),
                      kids |-> KidsStep(s.kids, s.blocks, seen, w, n),
                      idm |-> IdmStep(s.idm, w, n), brk |-> BrkStep(s.brk, w, n)]
    IN  after[read]

(* What the detectors drop at a session end never mattered: a restart,     *)
(* which re-reads the whole tape, finds the same live structure.           *)
RestartFindsTheSame ==
    read = Len(bars) =>
    LET fresh == Rescan
    IN  /\ Alive(gaps) = Alive(fresh.gaps) /\ Alive(blocks) = Alive(fresh.blocks)
        /\ Alive(kids) = Alive(fresh.kids) /\ start = fresh.start
        /\ idm = fresh.idm /\ Unfired(brk) = Unfired(fresh.brk)

(* A box is in the list as long as no close lay beyond its far edge, since *)
(* its birth; it has fired if a later close lay inside.                    *)
BoxLaw(b, w, n) ==
    /\ \A j \in b.born .. n : ~Dead(b, w[j].c)
    /\ b.fired <=> \E j \in b.born + 1 .. n : Inside(b, w[j].c)
BoxesObeyTheTape == \A b \in brk.boxes : BoxLaw(b, bars, read)

(* One grab per leg extreme (the latch of inducement.py:120-133): between  *)
(* two grabs of one leg a bar closed beyond the whole leg so far.          *)
Extreme(d, j, from) == IF d = 1 THEN bars[j].c > Highest(bars, from .. j - 1)
                                ELSE bars[j].c < Lowest(bars, from .. j - 1)
GrabsAreRearmed ==
    \A g, f \in grabs :
        g.leg = f.leg /\ g.dir = f.dir /\ g.at < f.at =>
            \E j \in g.at .. f.at - 1 : j > g.leg /\ g.leg > 0 /\ Extreme(g.dir, j, g.leg)

(* "Neither duplicate nor re-emit history as current" (pipeline.py:116-118,*)
(* 492-495): the evidence of a call is about the newest bar.               *)
EvidenceIsCurrent == \A e \in out : e.at = Len(bars)
=============================================================================
