---------------------------- MODULE LevelHistory ----------------------------
(***************************************************************************)
(* LevelLifecycle with history variables, and what the level engine        *)
(* promises of its windows.  The history looks at bars and transitions by  *)
(* itself, so that the properties do not lean on the engine's memory.      *)
(***************************************************************************)
EXTENDS LevelLifecycle

VARIABLES
    sweptAge,   \* bars since the level's last sweep in this session and run
    moves,      \* state changes of this level object on the bar in hand
    closedBeyond, \* was the last close the level was in the list for, in this
                  \* session and run, beyond its far edge?
    missed      \* bars that closed since then while the level was not in the list

hvars == <<vars, sweptAge, moves, closedBeyond, missed>>

TooOld == ReclaimCandles + 1

BarCloses    == phase = "engine" /\ phase' = "detect"
SameBar      == phase = "detect" /\ phase' = "engine" /\ prevClose' = prevClose
SameObject   == present /\ present'
NewId        == ~present /\ present' /\ ~Recreated
Forgotten    == prevClose' = NoClose

SweptAgeNext ==
    IF Forgotten THEN TooOld
    ELSE IF ~BarCloses THEN sweptAge
    ELSE IF state # "SWEPT" /\ state' = "SWEPT" THEN 0
    ELSE IF sweptAge < TooOld THEN sweptAge + 1 ELSE TooOld

MovesNext ==
    LET moved == IF SameObject /\ state # state' THEN 1 ELSE 0
    IN  IF BarCloses THEN moved
        ELSE IF SameBar THEN moves + moved ELSE 0

ClosedBeyondNext ==
    IF Forgotten \/ NewId THEN FALSE
    ELSE IF BarCloses /\ present THEN BeyondFar(side', zone', prevClose')
    ELSE closedBeyond

MissedNext ==
    IF Forgotten \/ NewId THEN 0
    ELSE IF ~BarCloses THEN missed
    ELSE IF present THEN 0
    ELSE IF missed < RescanBars THEN missed + 1 ELSE RescanBars

HInit == Init /\ sweptAge = TooOld /\ moves = 0 /\ closedBeyond = FALSE /\ missed = 0
HNext == /\ Next
         /\ sweptAge' = SweptAgeNext /\ moves' = MovesNext
         /\ closedBeyond' = ClosedBeyondNext /\ missed' = MissedNext
HSpec == HInit /\ [][HNext]_hvars

-----------------------------------------------------------------------------
(* The inductive invariant: what the engine's memory means, in terms of    *)
(* the previous close and of the history.                                  *)

BarInHand == phase = "detect" => prevClose # NoClose

(* Kinds whose zone nobody moves and which only the engine kills.          *)
EngineOwned == {"LINE", "INTRA", "OB", "ROUND"}

(* A pending break: the last close the level was there for was beyond its  *)
(* far edge.  Only an order block can hold one while it is out of the list.*)
PendingBreakMeaning ==
    pendingBreak =>
        /\ side # "unresolved" /\ prevClose # NoClose
        /\ state \in {"ACTIVE", "TESTED", "DEAD"}
        /\ present \/ kind = "OB"
        /\ kind \in EngineOwned => state # "DEAD" /\ closedBeyond

(* Only an order block is away while bars close and comes back with its    *)
(* memory, and only while its candle is still read.                        *)
MissedMeaning ==
    IF present
    THEN missed > 0 => phase = "engine" /\ kind = "OB" /\ missed < RescanBars
    ELSE rescan > 0 =>
           /\ state = "ACTIVE"
           /\ missed + rescan < RescanBars + (IF phase = "detect" THEN 1 ELSE 0)

(* No other window is open on a level that has not been swept.             *)
UnsweptMeaning ==
    state \in {"ACTIVE", "TESTED"} => sinceSwept = NoWindow /\ ~pendingInvert

(* An open reclaim window counts the bars since the sweep; a SWEPT level   *)
(* without one is past its window.                                         *)
WindowMeaning ==
    /\ sinceSwept # NoWindow =>
         /\ present /\ prevClose # NoClose
         /\ sinceSwept <= ReclaimCandles
         /\ state = "SWEPT" => sweptAge = sinceSwept
    /\ present /\ state = "SWEPT" /\ sinceSwept = NoWindow => sweptAge >= ReclaimCandles

(* A gap is neither consumed nor inverted, and its pending inversion lives *)
(* only until the detectors run.                                           *)
FvgInversionMeaning ==
    kind = "FVG" =>
        /\ state \notin {"INVERTED", "MITIGATED"}
        /\ pendingInvert =>
             /\ present
             /\ \/ state = "DEAD"
                \/ phase = "detect" /\ state = "RECLAIMED" /\ BeyondFar(side, zone, prevClose)

(* A bar the engine moved a gap on leaves the fill rule nothing to do.     *)
MovesMeaning ==
    /\ phase = "detect" \/ kind # "EXT" => moves <= 1
    /\ kind = "FVG" /\ phase = "detect" /\ present /\ moves = 1 =>
         state = "DEAD" \/ ~BeyondFar(side, zone, prevClose)

HInv ==
    /\ TypeOK
    /\ sweptAge \in 0 .. TooOld
    /\ moves \in 0 .. 2
    /\ closedBeyond \in BOOLEAN
    /\ missed \in 0 .. RescanBars
    /\ BarInHand
    /\ PendingBreakMeaning
    /\ MissedMeaning
    /\ UnsweptMeaning
    /\ WindowMeaning
    /\ FvgInversionMeaning
    /\ MovesMeaning

-----------------------------------------------------------------------------
(* An engine-owned level dies only on two closes beyond its far edge in    *)
(* one session of one run (levels.py:33-40, "2-candle confirm"), and the   *)
(* two are consecutive: a pending break left over from another session,    *)
(* another run or a bar long gone is never what confirms it.  The one      *)
(* exception is an order block that a rival evicted and whose candle was   *)
(* read again: orderblock.py:88 removes the object and leaves the engine's *)
(* entry (levels.py:191-194), so the break of the old object is confirmed  *)
(* by a close of the new one, with up to RescanBars - 1 bars in between,   *)
(* wherever they closed.  It reaches no further than that.                 *)
DeadNeedsTwoCloses ==
    [][state # "DEAD" /\ state' = "DEAD" /\ present /\ kind \in EngineOwned =>
         /\ closedBeyond
         /\ prevClose' # NoClose /\ BeyondFar(side', zone', prevClose')
         /\ missed > 0 => kind = "OB" /\ missed < RescanBars]_hvars

(* A swept level is reclaimed by exactly the closes on the origin side of  *)
(* the first ReclaimCandles bars after its sweep: never later, never across*)
(* a session end or a restart, and never missed inside the window.         *)
ReclaimedInWindow ==
    [][BarCloses /\ present /\ state = "SWEPT" =>
         (state' = "RECLAIMED" <=>
            /\ sweptAge < ReclaimCandles
            /\ OnOrigin(side', zone', prevClose'))]_hvars

(* A level object changes state at most once per bar, although the engine  *)
(* and a detector both get to write it (levels.py, "AT MOST ONE transition *)
(* per level per candle"); an extremes pivot may be retracted on the bar   *)
(* that moved it.                                                          *)
OneTransitionPerBar == kind # "EXT" => moves <= 1

(* The fill rule of the fvg detectors runs on the same close as the        *)
(* engine's inversion window and always wins: a fair value gap never       *)
(* inverts, so the IFVG branch of fvg.py is never taken.                   *)
FvgNeverInverts == kind = "FVG" => state # "INVERTED"

(* levels.py, RECLAIMED -> INVERTED: a reclaimed level that price closes   *)
(* through twice is INVERTED, the only way out of RECLAIMED.               *)
ReclaimedLeavesOnlyInverted ==
    [][present /\ present' /\ phase # phase' /\ prevClose' # NoClose
         /\ state = "RECLAIMED" /\ state' # "RECLAIMED" /\ kind = "FVG"
         => state' = "INVERTED"]_hvars

(* The level implements the published automaton.                           *)
Automaton == INSTANCE LevelAutomaton WITH
                saved <- IF disk.present THEN {disk.state} ELSE {}
ImplementsAutomaton == Automaton!ASpec
=============================================================================
