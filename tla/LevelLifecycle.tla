--------------------------- MODULE LevelLifecycle ---------------------------
(***************************************************************************)
(* One level id of a symbol (src/app/trader/engine/levels.py) and          *)
(* everything that moves its level: LevelEngine._step on each closed M5    *)
(* bar, the detectors that write level objects themselves (fvg, extremes,  *)
(* liquidity, orderblock), the session boundary, and the level file that a *)
(* restarted process resumes from.                                         *)
(*                                                                         *)
(* LevelEngine.update visits the levels one by one and _step reads and     *)
(* writes only the entries of the id it is given, so one id is the whole   *)
(* story; prevClose is the engine's per-symbol memory of the last close.   *)
(* An id may leave the level list and come back: the engine's memory is    *)
(* keyed by id and outlives the object.  A bar is two steps in a fixed     *)
(* order, as in _on_m5_close: the engine first (phase "engine"), then the  *)
(* detectors (phase "detect").                                             *)
(***************************************************************************)
EXTENDS Integers

CONSTANTS
    Prices,         \* the prices a candle can print
    Zones,          \* the zones <<lo, hi>> a level can occupy
    Tolerances,     \* the values touch_atr * atr takes
    ReclaimCandles, \* levels.reclaim_candles: length of the reclaim window
    RescanBars,     \* orderblock.lookback: the detect passes after the first that
                    \* can read an order block's own candle again
    TouchCap        \* the touch counter saturates here (the code compares it with 2)

ASSUME PricesAssumption     == Prices \subseteq Nat \ {0}
ASSUME ZonesAssumption      == Zones \subseteq {z \in Nat \X Nat : z[1] <= z[2]}
ASSUME TolerancesAssumption == Tolerances \subseteq Nat
ASSUME ReclaimAssumption    == ReclaimCandles \in Nat
ASSUME RescanAssumption     == RescanBars \in Nat
ASSUME TouchAssumption      == TouchCap \in Nat /\ TouchCap >= 2

VARIABLES
    kind,           \* class of the level's LevelKind, fixed for an id
    present,        \* is a level object in the list?
    state,          \* Level.state
    touches,        \* Level.touches
    zone,           \* Level.zone
    rescan,         \* detect passes that will still read the level's own candle
    side,           \* the side price normally sits on; ROUND caches it per session
    pendingBreak,   \* level_id in _pending_break
    sinceSwept,     \* _since_swept[level_id], NoWindow when absent
    pendingInvert,  \* level_id in _pending_invert
    prevClose,      \* _prev_close[symbol, M5], NoClose when absent
    phase,          \* which stage of _on_m5_close runs next
    disk            \* what levels.json holds for this id

memory == <<pendingBreak, sinceSwept, pendingInvert>>
level  == <<present, state, touches, zone, side, rescan>>
vars   == <<kind, level, memory, prevClose, phase, disk>>

(***************************************************************************)
(* LevelKind, by who else writes the level:                                *)
(*   "LINE"  PDH PDL PWH PWL: liquidity creates them and leaves them alone *)
(*   "INTRA" SWING_* OPEN_RANGE_* OI_WALL_*: likewise, but never carried   *)
(*   "EQ"    EQH EQL: liquidity grows touches and moves the zone           *)
(*   "OB"    OB_BULL OB_BEAR: second test consumes; a rival may evict it,  *)
(*           and the block may come back under its id                      *)
(*   "FVG"   FVG_BULL FVG_BEAR: the fvg detectors write DEAD on a full fill*)
(*   "ROUND" side-less kind                                                *)
(*   "EXT"   EXT_H EXT_L: extremes moves the zone and retracts pivots      *)
(***************************************************************************)
Kinds     == {"LINE", "INTRA", "EQ", "OB", "FVG", "ROUND", "EXT"}
Carried   == Kinds \ {"INTRA", "EXT"}   \* _CARRY \cup _ZONES
States    == {"ACTIVE", "TESTED", "SWEPT", "RECLAIMED", "INVERTED", "MITIGATED", "DEAD"}
TERMINAL  == {"DEAD", "MITIGATED", "INVERTED"}
NoClose   == 0
NoWindow  == -1
NoLevel   == [present |-> FALSE]
Cap(n)    == IF n > TouchCap THEN TouchCap ELSE n

Candles == {c \in [open : Prices, high : Prices, low : Prices, close : Prices] :
              /\ c.low <= c.open /\ c.open <= c.high
              /\ c.low <= c.close /\ c.close <= c.high}

-----------------------------------------------------------------------------
(* Geometry of _step, for a level that normally has price on side s.       *)

BeyondFar(s, z, p) == IF s = "below" THEN p > z[2] ELSE p < z[1]
OnOrigin(s, z, p)  == IF s = "below" THEN p < z[1] ELSE p > z[2]
WickBeyond(s, z, c) == IF s = "below" THEN c.high > z[2] ELSE c.low < z[1]
Touched(z, c, tol) == c.low <= z[2] + tol /\ c.high >= z[1] - tol

(* level_side: where a reference price puts a ROUND level; inside the zone *)
(* the nearest half by midpoint decides.                                   *)
LevelSide(z, ref) ==
    IF ref < z[1] THEN "below"
    ELSE IF ref > z[2] THEN "above"
    ELSE IF 2 * ref <= z[1] + z[2] THEN "below" ELSE "above"

(* _side: a ROUND level takes its side from the previous close, or the     *)
(* candle's open when there is none, and keeps it for the session.         *)
SideOf(c) ==
    IF side # "unresolved" THEN side
    ELSE LevelSide(zone, IF prevClose # NoClose THEN prevClose ELSE c.open)

-----------------------------------------------------------------------------
Init ==
    /\ kind \in Kinds
    /\ present = FALSE /\ state = "ACTIVE" /\ touches = 0
    /\ zone \in Zones /\ side = "unresolved" /\ rescan = 0
    /\ pendingBreak = FALSE /\ sinceSwept = NoWindow /\ pendingInvert = FALSE
    /\ prevClose = NoClose /\ phase = "engine"
    /\ disk = NoLevel

(* Phase "engine": the M5 bar c closes and LevelEngine.update runs.        *)
EngineRuns(c) ==
    /\ phase = "engine"
    /\ phase' = "detect"
    /\ prevClose' = c.close
    /\ UNCHANGED <<kind, present, zone, rescan, disk>>

(* update skips a missing level and one in a TERMINAL state.               *)
EngineSkips(c) ==
    /\ EngineRuns(c)
    /\ ~present \/ state \in TERMINAL
    /\ UNCHANGED <<state, touches, side, memory>>

(* The part of every _step: the level is live and its side is resolved.    *)
Steps(c) ==
    /\ EngineRuns(c)
    /\ present /\ state \notin TERMINAL
    /\ side' = SideOf(c)

(* A close beyond the far edge was pending: this close resolves it.        *)
ResolveBreak(c) ==
    /\ Steps(c)
    /\ pendingBreak
    /\ pendingBreak' = FALSE
    /\ \/ /\ BeyondFar(SideOf(c), zone, c.close)
          /\ state' = "DEAD"
          /\ UNCHANGED sinceSwept
       \/ /\ OnOrigin(SideOf(c), zone, c.close)
          /\ state' = "SWEPT" /\ sinceSwept' = 0
       \/ /\ ~BeyondFar(SideOf(c), zone, c.close)
          /\ ~OnOrigin(SideOf(c), zone, c.close)
          /\ UNCHANGED <<state, sinceSwept>>
    /\ UNCHANGED <<touches, pendingInvert>>

Fresh(c) == Steps(c) /\ ~pendingBreak /\ state \in {"ACTIVE", "TESTED"}

(* Mutant of Sweep: the close-back test is dropped.                        *)
SweepOnWickAlone(c) ==
    /\ Fresh(c)
    /\ WickBeyond(SideOf(c), zone, c)
    /\ state' = "SWEPT" /\ sinceSwept' = 0
    /\ UNCHANGED <<touches, pendingBreak, pendingInvert>>

(* The wick trades through and the close comes back: SWEPT beats TESTED.   *)
Sweep(c) ==
    /\ Fresh(c)
    /\ WickBeyond(SideOf(c), zone, c) /\ OnOrigin(SideOf(c), zone, c.close)
    /\ state' = "SWEPT" /\ sinceSwept' = 0
    /\ UNCHANGED <<touches, pendingBreak, pendingInvert>>

ArmBreak(c) ==
    /\ Fresh(c)
    /\ BeyondFar(SideOf(c), zone, c.close)
    /\ pendingBreak' = TRUE
    /\ UNCHANGED <<state, touches, sinceSwept, pendingInvert>>

(* Mutant of Touch: every kind is consumed by its second test.             *)
TouchConsumesAnyKind(c, tol) ==
    /\ Fresh(c)
    /\ ~WickBeyond(SideOf(c), zone, c) /\ OnOrigin(SideOf(c), zone, c.close)
    /\ Touched(zone, c, tol)
    /\ touches' = Cap(touches + 1)
    /\ state' = IF state = "ACTIVE" THEN "TESTED"
                ELSE IF touches + 1 >= 2 THEN "MITIGATED" ELSE state
    /\ UNCHANGED memory

(* A qualifying touch; an order block's second one consumes it.            *)
Touch(c, tol) ==
    /\ Fresh(c)
    /\ ~WickBeyond(SideOf(c), zone, c) /\ OnOrigin(SideOf(c), zone, c.close)
    /\ Touched(zone, c, tol)
    /\ touches' = Cap(touches + 1)
    /\ state' = IF state = "ACTIVE" THEN "TESTED"
                ELSE IF kind = "OB" /\ touches + 1 >= 2 THEN "MITIGATED"
                ELSE state
    /\ UNCHANGED memory

(* Undecided: closed inside the zone, or on the origin side out of reach.  *)
Undecided(c, tol) ==
    /\ Fresh(c)
    /\ ~BeyondFar(SideOf(c), zone, c.close)
    /\ OnOrigin(SideOf(c), zone, c.close) =>
         ~WickBeyond(SideOf(c), zone, c) /\ ~Touched(zone, c, tol)
    /\ UNCHANGED <<state, touches, memory>>

(* SWEPT: a close back on the origin side inside the window reclaims; when *)
(* the window has run out (or was never in memory) SWEPT is final.         *)
Reclaim(c) ==
    /\ Steps(c) /\ ~pendingBreak
    /\ state = "SWEPT" /\ sinceSwept # NoWindow
    /\ sinceSwept + 1 <= ReclaimCandles /\ OnOrigin(SideOf(c), zone, c.close)
    /\ state' = "RECLAIMED" /\ sinceSwept' = NoWindow
    /\ UNCHANGED <<touches, pendingBreak, pendingInvert>>

(* Mutant of AwaitReclaim: the window expires one bar early.               *)
AwaitReclaimExpiresEarly(c) ==
    /\ Steps(c) /\ ~pendingBreak
    /\ state = "SWEPT"
    /\ sinceSwept = NoWindow
         \/ ~(sinceSwept + 1 <= ReclaimCandles /\ OnOrigin(SideOf(c), zone, c.close))
    /\ sinceSwept' = IF sinceSwept = NoWindow \/ sinceSwept + 2 >= ReclaimCandles
                     THEN NoWindow ELSE sinceSwept + 1
    /\ UNCHANGED <<state, touches, pendingBreak, pendingInvert>>

AwaitReclaim(c) ==
    /\ Steps(c) /\ ~pendingBreak
    /\ state = "SWEPT"
    /\ sinceSwept = NoWindow
         \/ ~(sinceSwept + 1 <= ReclaimCandles /\ OnOrigin(SideOf(c), zone, c.close))
    /\ sinceSwept' = IF sinceSwept = NoWindow \/ sinceSwept + 1 >= ReclaimCandles
                     THEN NoWindow ELSE sinceSwept + 1
    /\ UNCHANGED <<state, touches, pendingBreak, pendingInvert>>

(* Mutant of Invert: the first close through inverts, nothing is held.     *)
InvertWithoutHold(c) ==
    /\ Steps(c) /\ ~pendingBreak
    /\ state = "RECLAIMED"
    /\ state' = IF BeyondFar(SideOf(c), zone, c.close) THEN "INVERTED" ELSE state
    /\ UNCHANGED <<touches, memory>>

(* RECLAIMED: a close through the zone must be held by the next close.     *)
Invert(c) ==
    /\ Steps(c) /\ ~pendingBreak
    /\ state = "RECLAIMED"
    /\ LET through == BeyondFar(SideOf(c), zone, c.close)
       IN  /\ state' = IF pendingInvert /\ through THEN "INVERTED" ELSE state
           /\ pendingInvert' = (~pendingInvert /\ through)
    /\ UNCHANGED <<touches, pendingBreak, sinceSwept>>

LevelEngineUpdate ==
    \E c \in Candles :
        \/ EngineSkips(c)
        \/ ResolveBreak(c)
        \/ Sweep(c)
        \/ ArmBreak(c)
        \/ \E tol \in Tolerances : Touch(c, tol) \/ Undecided(c, tol)
        \/ Reclaim(c)
        \/ AwaitReclaim(c)
        \/ Invert(c)

-----------------------------------------------------------------------------
(* Phase "detect": registry.run_all, on the bar the engine just used.      *)

DetectorsRun ==
    /\ phase = "detect"
    /\ phase' = "engine"
    /\ UNCHANGED <<kind, prevClose, disk>>

(* A detector appends a level under an id the engine has never seen.  An   *)
(* order block's id is its candle's: `lookback` passes at most will read   *)
(* that candle again (none, for the blocks of ob_lux, which decides an id  *)
(* once).                                                                  *)
Born ==
    /\ DetectorsRun /\ ~present
    /\ present' = TRUE /\ state' = "ACTIVE"
    /\ zone' \in Zones
    /\ touches' \in IF kind = "EQ" THEN 2 .. TouchCap ELSE {0}
    /\ side' \in IF kind = "ROUND" THEN {"unresolved"} ELSE {"above", "below"}
    /\ rescan' \in IF kind = "OB" THEN 0 .. RescanBars ELSE {0}
    /\ pendingBreak' = FALSE /\ sinceSwept' = NoWindow /\ pendingInvert' = FALSE

(* The window of OrderBlockDetector.detect moves on by one candle.         *)
CandleAges == rescan' = IF rescan = 0 THEN 0 ELSE rescan - 1

(* FvgDetector.detect: a close beyond the far edge fills the gap for good. *)
FvgFill ==
    /\ DetectorsRun /\ present /\ kind = "FVG"
    /\ BeyondFar(side, zone, prevClose) /\ state \notin {"DEAD", "INVERTED"}
    /\ state' = "DEAD"
    /\ UNCHANGED <<present, touches, zone, side, rescan, memory>>

(* ExtremesDetector._sync: the live pivot's band moves, or the pivot was   *)
(* replaced and the level is retracted.                                    *)
ExtremesSync ==
    /\ DetectorsRun /\ present /\ kind = "EXT"
    /\ \/ zone' \in Zones /\ UNCHANGED state
       \/ state \notin TERMINAL /\ state' = "DEAD" /\ UNCHANGED zone
    /\ UNCHANGED <<present, touches, side, rescan, memory>>

(* LiquidityDetector: a larger equal-highs group takes the level over.     *)
EqualGroupGrows ==
    /\ DetectorsRun /\ present /\ kind = "EQ"
    /\ touches' \in touches + 1 .. TouchCap
    /\ zone' \in Zones
    /\ UNCHANGED <<present, state, side, rescan, memory>>

(* OrderblockDetector._upsert: a better overlapping block evicts an ACTIVE *)
(* rival.  The object leaves the list; nobody tells the engine, and what   *)
(* it remembers under the id stays.                                        *)
RivalEvicts ==
    /\ DetectorsRun /\ CandleAges
    /\ present /\ kind = "OB" /\ state = "ACTIVE"
    /\ present' = FALSE
    /\ UNCHANGED <<state, touches, zone, side, memory>>

(* _upsert again: the evicted block's candle is still in the window and    *)
(* its id no longer in the list, so a new object is made under that id     *)
(* (its evictor has been tested or evicted, or its strength has moved with *)
(* the ATR).                                                               *)
Recreated ==
    /\ DetectorsRun /\ CandleAges
    /\ ~present /\ kind = "OB" /\ rescan > 0
    /\ present' = TRUE /\ state' = "ACTIVE" /\ touches' = 0
    /\ UNCHANGED <<zone, side, memory>>

(* No detector writes this level on this bar.                              *)
DetectorsLeave ==
    /\ DetectorsRun /\ CandleAges
    /\ ~(present /\ kind = "FVG" /\ BeyondFar(side, zone, prevClose)
           /\ state \notin {"DEAD", "INVERTED"})
    /\ UNCHANGED <<present, state, touches, zone, side, memory>>

Detect ==
    \/ Born
    \/ FvgFill
    \/ ExtremesSync
    \/ EqualGroupGrows
    \/ RivalEvicts
    \/ Recreated
    \/ DetectorsLeave

-----------------------------------------------------------------------------
(* What levels.json keeps of a level (memory and meta are not encoded; the *)
(* age of an order block's candle follows from `born`),                    *)
(* and the set a session boundary keeps: live levels of carried kinds;     *)
(* `kept` is FALSE when the level aged out or a newer generation replaced  *)
(* it.                                                                     *)
Encoded(kept) ==
    IF kept THEN [present |-> TRUE, state |-> state, touches |-> touches,
                  zone |-> zone, rescan |-> rescan,
                  side |-> IF kind = "ROUND" THEN "unresolved" ELSE side]
    ELSE NoLevel

(* Mutant of MayCarry: terminal levels are written too.                    *)
MayCarryTerminal == present /\ kind \in Carried

DiskImages ==
    {NoLevel} \cup [present : {TRUE}, state : States \ TERMINAL, touches : 0 .. TouchCap,
                    zone : Zones, rescan : 0 .. RescanBars,
                    side : {"above", "below", "unresolved"}]

MayCarry == present /\ state \notin TERMINAL /\ kind \in Carried

(* Mutant of ForgetAll: a pending break survives the session boundary.     *)
ForgetAllButBreaks ==
    /\ sinceSwept' = NoWindow /\ pendingInvert' = FALSE
    /\ prevClose' = NoClose
    /\ UNCHANGED pendingBreak

ForgetAll ==
    /\ pendingBreak' = FALSE /\ sinceSwept' = NoWindow /\ pendingInvert' = FALSE
    /\ prevClose' = NoClose

(* SymbolPipeline._end_session: forget every window, prune, save.  With    *)
(* nothing remembered under it, an id that comes back is as good as new.   *)
EndSession(kept) ==
    /\ phase = "engine"
    /\ kept => MayCarry
    /\ ForgetAll
    /\ present' = kept
    /\ side' = IF kind = "ROUND" \/ ~kept THEN "unresolved" ELSE side
    /\ rescan' = IF kept THEN rescan ELSE 0
    /\ disk' = Encoded(kept)
    /\ UNCHANGED <<kind, state, touches, zone, phase>>

(* SymbolPipeline.finalize: save the same set, leave the list alone.       *)
Finalize(kept) ==
    /\ phase = "engine"
    /\ kept => MayCarry
    /\ disk' = Encoded(kept)
    /\ UNCHANGED <<kind, level, memory, prevClose, phase>>

(* The process goes away, at any point, and a new one loads the file.      *)
Restart ==
    /\ phase' = "engine"
    /\ ForgetAll
    /\ present' = disk.present
    /\ IF disk.present
       THEN /\ state' = disk.state /\ touches' = disk.touches
            /\ zone' = disk.zone /\ side' = disk.side /\ rescan' = disk.rescan
       ELSE UNCHANGED <<state, touches, zone>> /\ side' = "unresolved" /\ rescan' = 0
    /\ UNCHANGED <<kind, disk>>

Next ==
    \/ LevelEngineUpdate
    \/ Detect
    \/ \E kept \in BOOLEAN : EndSession(kept) \/ Finalize(kept)
    \/ Restart

Spec == Init /\ [][Next]_vars

-----------------------------------------------------------------------------
(* The types of the variables.                                             *)
TypeOK ==
    /\ kind \in Kinds
    /\ present \in BOOLEAN /\ state \in States /\ touches \in 0 .. TouchCap
    /\ zone \in Zones /\ side \in {"above", "below", "unresolved"}
    /\ rescan \in 0 .. RescanBars
    /\ pendingBreak \in BOOLEAN /\ pendingInvert \in BOOLEAN
    /\ sinceSwept \in {NoWindow} \cup Nat
    /\ prevClose \in {NoClose} \cup Prices
    /\ phase \in {"engine", "detect"}
    /\ disk \in DiskImages
=============================================================================
