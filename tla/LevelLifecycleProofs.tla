------------------------ MODULE LevelLifecycleProofs ------------------------
(***************************************************************************)
(* Proofs about LevelLifecycle and LevelHistory for every set of prices,   *)
(* zones and tolerances, every reclaim window and every touch cap.         *)
(***************************************************************************)
EXTENDS LevelHistory, TLAPS

USE DEF NoClose, NoWindow, TERMINAL, Kinds, States

(* Every candle is made of prices.                                         *)
LEMMA CandlePrices ==
    ASSUME NEW c \in Candles
    PROVE  c.close \in Prices /\ c.close # NoClose /\ c.close \in Nat
BY PricesAssumption DEF Candles

(* A side is resolved by the first bar a level sees.                       *)
LEMMA SideResolves ==
    ASSUME TypeOK, NEW c
    PROVE  /\ SideOf(c) \in {"above", "below"}
           /\ side # "unresolved" => SideOf(c) = side
BY DEF SideOf, LevelSide, TypeOK

LEMMA CapType == ASSUME NEW n \in Nat PROVE Cap(n) \in 0 .. TouchCap
BY TouchAssumption DEF Cap

-----------------------------------------------------------------------------
(* The specification's variables keep their types.                         *)

LEMMA EngineType ==
    ASSUME TypeOK, LevelEngineUpdate PROVE TypeOK'
<1> PICK c \in Candles :
        \/ EngineSkips(c) \/ ResolveBreak(c) \/ Sweep(c) \/ ArmBreak(c)
        \/ \E tol \in Tolerances : Touch(c, tol) \/ Undecided(c, tol)
        \/ Reclaim(c) \/ AwaitReclaim(c) \/ Invert(c)
  BY DEF LevelEngineUpdate
<1> USE CandlePrices, SideResolves DEF TypeOK, EngineRuns, Steps, Fresh, memory
<1>1. CASE EngineSkips(c)  BY <1>1 DEF EngineSkips
<1>2. CASE ResolveBreak(c)
  <2>1. pendingBreak' \in BOOLEAN
    BY <1>2 DEF ResolveBreak
  <2>2. state' \in States /\ sinceSwept' \in {NoWindow} \cup Nat
    BY <1>2 DEF ResolveBreak
  <2> QED BY <1>2, <2>1, <2>2 DEF ResolveBreak
<1>3. CASE Sweep(c)        BY <1>3 DEF Sweep
<1>4. CASE ArmBreak(c)
  <2>1. pendingBreak' \in BOOLEAN /\ UNCHANGED <<state, touches, sinceSwept, pendingInvert>>
    BY <1>4 DEF ArmBreak
  <2> QED BY <1>4, <2>1 DEF ArmBreak
<1>5. ASSUME NEW tol \in Tolerances, Touch(c, tol) PROVE TypeOK'
  <2>1. Cap(touches + 1) \in 0 .. TouchCap
    BY CapType
  <2> QED BY <1>5, <2>1 DEF Touch
<1>6. ASSUME NEW tol \in Tolerances, Undecided(c, tol) PROVE TypeOK'
  BY <1>6 DEF Undecided
<1>7. CASE Reclaim(c)      BY <1>7 DEF Reclaim
<1>8. CASE AwaitReclaim(c)
  <2>1. sinceSwept' \in {NoWindow} \cup Nat
    BY <1>8 DEF AwaitReclaim
  <2> QED BY <1>8, <2>1 DEF AwaitReclaim
<1>9. CASE Invert(c)
  <2>1. pendingInvert' \in BOOLEAN /\ state' \in States
    BY <1>9 DEF Invert
  <2> QED BY <1>9, <2>1 DEF Invert
<1> QED BY <1>1, <1>2, <1>3, <1>4, <1>5, <1>6, <1>7, <1>8, <1>9

(* The window of the order block detector moves on by at most one.         *)
LEMMA AgeType ==
    ASSUME rescan \in 0 .. RescanBars, CandleAges
    PROVE  rescan' \in 0 .. RescanBars /\ (rescan' > 0 => rescan' = rescan - 1)
BY RescanAssumption DEF CandleAges

LEMMA DetectType ==
    ASSUME TypeOK, Detect PROVE TypeOK'
<1> USE DEF TypeOK, DetectorsRun, memory, level
<1>1. CASE Born
  <2>1. touches' \in 0 .. TouchCap /\ side' \in {"above", "below", "unresolved"}
    BY <1>1, TouchAssumption DEF Born
  <2>2. pendingBreak' \in BOOLEAN /\ pendingInvert' \in BOOLEAN /\ present' \in BOOLEAN
    BY <1>1 DEF Born
  <2>3. rescan' \in 0 .. RescanBars
    BY <1>1, RescanAssumption DEF Born
  <2> QED BY <1>1, <2>1, <2>2, <2>3 DEF Born
<1>2. CASE FvgFill         BY <1>2 DEF FvgFill
<1>3. CASE ExtremesSync    BY <1>3 DEF ExtremesSync
<1>4. CASE EqualGroupGrows BY <1>4 DEF EqualGroupGrows
<1>5. CASE RivalEvicts
  BY <1>5, AgeType DEF RivalEvicts
<1>6. CASE Recreated
  BY <1>6, AgeType, TouchAssumption DEF Recreated
<1>7. CASE DetectorsLeave  BY <1>7, AgeType DEF DetectorsLeave
<1> QED BY <1>1, <1>2, <1>3, <1>4, <1>5, <1>6, <1>7 DEF Detect

LEMMA EncodedType ==
    ASSUME TypeOK, NEW kept \in BOOLEAN, kept => MayCarry
    PROVE  Encoded(kept) \in DiskImages
BY DEF TypeOK, Encoded, MayCarry, DiskImages

LEMMA BoundaryType ==
    ASSUME TypeOK, NEW kept \in BOOLEAN, EndSession(kept) \/ Finalize(kept)
    PROVE  TypeOK'
<1>1. CASE EndSession(kept)
  <2>1. kept => MayCarry
    BY <1>1 DEF EndSession
  <2>2. disk' \in DiskImages
    BY <1>1, <2>1, EncodedType DEF EndSession
  <2>3. rescan' \in 0 .. RescanBars
    BY <1>1, RescanAssumption DEF EndSession, TypeOK
  <2>4. pendingBreak' \in BOOLEAN /\ pendingInvert' \in BOOLEAN /\ present' \in BOOLEAN
    BY <1>1 DEF EndSession, ForgetAll
  <2> QED BY <1>1, <2>2, <2>3, <2>4 DEF EndSession, ForgetAll, TypeOK
<1>2. CASE Finalize(kept)
  <2>1. kept => MayCarry
    BY <1>2 DEF Finalize
  <2> QED BY <1>2, <2>1, EncodedType DEF Finalize, TypeOK, level, memory
<1> QED BY <1>1, <1>2

LEMMA RestartType == ASSUME TypeOK, Restart PROVE TypeOK'
<1>1. CASE disk = NoLevel
  <2>1. rescan' \in 0 .. RescanBars
    BY <1>1, RescanAssumption DEF Restart, NoLevel
  <2> QED BY <1>1, <2>1 DEF Restart, ForgetAll, TypeOK, NoLevel
<1>2. CASE disk # NoLevel
  <2>1. /\ disk.present /\ disk.state \in States /\ disk.touches \in 0 .. TouchCap
        /\ disk.zone \in Zones /\ disk.side \in {"above", "below", "unresolved"}
        /\ disk.rescan \in 0 .. RescanBars
    BY <1>2 DEF TypeOK, DiskImages
  <2> QED BY <2>1 DEF Restart, ForgetAll, TypeOK
<1> QED BY <1>1, <1>2

LEMMA NextType == ASSUME TypeOK, [Next]_vars PROVE TypeOK'
<1>1. CASE UNCHANGED vars
  BY <1>1 DEF vars, level, memory, TypeOK
<1> QED BY <1>1, EngineType, DetectType, BoundaryType, RestartType DEF Next

(* Type correctness of a level.                                           *)
THEOREM TypeCorrect == Spec => []TypeOK
<1>1. NoLevel \in DiskImages
  BY DEF DiskImages
<1>2. Init => TypeOK
  <2> SUFFICES ASSUME Init PROVE TypeOK
    OBVIOUS
  <2>1. present \in BOOLEAN /\ pendingBreak \in BOOLEAN /\ pendingInvert \in BOOLEAN
    BY DEF Init
  <2>2. touches \in 0 .. TouchCap /\ rescan \in 0 .. RescanBars
    BY TouchAssumption, RescanAssumption DEF Init
  <2> QED BY <1>1, <2>1, <2>2 DEF Init, TypeOK
<1> QED BY <1>2, NextType, PTL DEF Spec

-----------------------------------------------------------------------------
(* What the history variables do on each class of step.                    *)

HistoryStep ==
    /\ sweptAge' = SweptAgeNext /\ moves' = MovesNext
    /\ closedBeyond' = ClosedBeyondNext /\ missed' = MissedNext

LEMMA EngineHistory ==
    ASSUME HInv, NEW c \in Candles, EngineRuns(c), HistoryStep
    PROVE  /\ sweptAge' = IF state # "SWEPT" /\ state' = "SWEPT" THEN 0
                          ELSE IF sweptAge < TooOld THEN sweptAge + 1 ELSE TooOld
           /\ moves' = 0 \/ moves' = 1
           /\ moves' = 1 => state # state'
           /\ sweptAge' \in 0 .. TooOld
           /\ closedBeyond' = IF present THEN BeyondFar(side', zone', prevClose')
                              ELSE closedBeyond
           /\ missed' = IF present THEN 0
                        ELSE IF missed < RescanBars THEN missed + 1 ELSE RescanBars
           /\ closedBeyond' \in BOOLEAN /\ missed' \in 0 .. RescanBars
<1>1. BarCloses /\ ~Forgotten /\ ~SameBar /\ ~NewId
  BY CandlePrices DEF EngineRuns, BarCloses, Forgotten, SameBar, NewId
<1>2. TooOld \in Nat /\ sweptAge \in 0 .. TooOld /\ missed \in 0 .. RescanBars
      /\ RescanBars \in Nat
  BY ReclaimAssumption, RescanAssumption DEF TooOld, HInv
<1>3. /\ sweptAge' = IF state # "SWEPT" /\ state' = "SWEPT" THEN 0
                     ELSE IF sweptAge < TooOld THEN sweptAge + 1 ELSE TooOld
      /\ moves' = 0 \/ moves' = 1
      /\ moves' = 1 => state # state'
      /\ sweptAge' \in 0 .. TooOld
  BY <1>1, <1>2 DEF HistoryStep, SweptAgeNext, MovesNext
<1>4. /\ missed' = IF present THEN 0
                   ELSE IF missed < RescanBars THEN missed + 1 ELSE RescanBars
      /\ missed' \in 0 .. RescanBars
  BY <1>1, <1>2 DEF HistoryStep, MissedNext
<1>5. closedBeyond' = IF present THEN BeyondFar(side', zone', prevClose') ELSE closedBeyond
  BY <1>1 DEF HistoryStep, ClosedBeyondNext
<1>6. prevClose' \in Nat /\ zone'[1] \in Nat /\ zone'[2] \in Nat
  BY ZonesAssumption, CandlePrices DEF EngineRuns, HInv, TypeOK
<1>7. closedBeyond' \in BOOLEAN
  <2>1. BeyondFar(side', zone', prevClose') \in BOOLEAN
    <3>1. CASE side' = "below"
      <4>1. BeyondFar(side', zone', prevClose') = (prevClose' > zone'[2])
        BY <3>1 DEF BeyondFar
      <4>2. (prevClose' > zone'[2]) \in BOOLEAN
        BY <1>6
      <4> QED BY <4>1, <4>2
    <3>2. CASE side' # "below"
      <4>1. BeyondFar(side', zone', prevClose') = (prevClose' < zone'[1])
        BY <3>2 DEF BeyondFar
      <4>2. (prevClose' < zone'[1]) \in BOOLEAN
        BY <1>6
      <4> QED BY <4>1, <4>2
    <3> QED BY <3>1, <3>2
  <2>2. closedBeyond \in BOOLEAN
    BY DEF HInv
  <2>3. CASE present
    BY <1>5, <2>1, <2>3
  <2>4. CASE ~present
    BY <1>5, <2>2, <2>4
  <2> QED BY <2>3, <2>4
<1> QED BY <1>3, <1>4, <1>5, <1>7

LEMMA DetectHistory ==
    ASSUME HInv, DetectorsRun, HistoryStep
    PROVE  /\ sweptAge' = sweptAge
           /\ moves' = moves + (IF SameObject /\ state # state' THEN 1 ELSE 0)
           /\ prevClose # NoClose
           /\ closedBeyond' = IF NewId THEN FALSE ELSE closedBeyond
           /\ missed' = IF NewId THEN 0 ELSE missed
<1>1. ~BarCloses /\ ~Forgotten /\ SameBar /\ prevClose # NoClose
  BY DEF DetectorsRun, BarCloses, Forgotten, SameBar, HInv, BarInHand
<1> QED BY <1>1 DEF HistoryStep, SweptAgeNext, MovesNext, ClosedBeyondNext, MissedNext

LEMMA BoundaryHistory ==
    ASSUME HInv, HistoryStep, Restart \/ \E kept \in BOOLEAN : EndSession(kept) \/ Finalize(kept)
    PROVE  /\ sweptAge' \in {sweptAge, TooOld}
           /\ prevClose' = NoClose => sweptAge' = TooOld
           /\ prevClose' # NoClose => sweptAge' = sweptAge
           /\ moves' = 0
           /\ prevClose' = NoClose => closedBeyond' = FALSE /\ missed' = 0
           /\ prevClose' # NoClose => closedBeyond' = closedBeyond /\ missed' = missed
<1>1. /\ ~BarCloses /\ ~SameBar
      /\ prevClose' # NoClose => ~NewId
  <2>1. CASE Restart
    <3>1. phase' = "engine" /\ prevClose' = NoClose
      BY <2>1 DEF Restart, ForgetAll
    <3>2. phase = "detect" => prevClose # prevClose'
      BY <3>1 DEF HInv, BarInHand
    <3> QED BY <3>1, <3>2 DEF BarCloses, SameBar
  <2>2. ASSUME NEW kept \in BOOLEAN, EndSession(kept) \/ Finalize(kept)
        PROVE  /\ phase = "engine" /\ phase' = "engine"
               /\ prevClose' # NoClose => ~NewId
    BY <2>2 DEF EndSession, ForgetAll, Finalize, level, NewId
  <2> QED BY <2>1, <2>2 DEF BarCloses, SameBar
<1> QED BY <1>1 DEF HistoryStep, SweptAgeNext, MovesNext, ClosedBeyondNext, MissedNext, Forgotten

-----------------------------------------------------------------------------
(* The inductive invariant, step by step.                                  *)

LEMMA EngineInv ==
    ASSUME HInv, LevelEngineUpdate, HistoryStep PROVE HInv'
<1> PICK c \in Candles :
        \/ EngineSkips(c) \/ ResolveBreak(c) \/ Sweep(c) \/ ArmBreak(c)
        \/ \E tol \in Tolerances : Touch(c, tol) \/ Undecided(c, tol)
        \/ Reclaim(c) \/ AwaitReclaim(c) \/ Invert(c)
  BY DEF LevelEngineUpdate
<1> DEFINE s == SideOf(c)
<1>1. TypeOK' /\ EngineRuns(c)
  BY EngineType DEF HInv, EngineSkips, ResolveBreak, Sweep, ArmBreak, Touch, Undecided,
                    Reclaim, AwaitReclaim, Invert, Fresh, Steps
<1>2. /\ sweptAge' = IF state # "SWEPT" /\ state' = "SWEPT" THEN 0
                     ELSE IF sweptAge < TooOld THEN sweptAge + 1 ELSE TooOld
      /\ moves' = 0 \/ moves' = 1
      /\ moves' = 1 => state # state'
      /\ sweptAge' \in 0 .. TooOld
      /\ closedBeyond' = IF present THEN BeyondFar(side', zone', prevClose') ELSE closedBeyond
      /\ missed' = IF present THEN 0
                   ELSE IF missed < RescanBars THEN missed + 1 ELSE RescanBars
      /\ closedBeyond' \in BOOLEAN /\ missed' \in 0 .. RescanBars
  BY <1>1, EngineHistory
<1>3. /\ phase' = "detect" /\ prevClose' = c.close /\ c.close # NoClose
      /\ UNCHANGED <<kind, present, zone, rescan>>
      /\ s \in {"above", "below"} /\ (side # "unresolved" => s = side)
  BY <1>1, CandlePrices, SideResolves DEF HInv, EngineRuns
<1>4. ReclaimCandles \in Nat /\ TooOld = ReclaimCandles + 1 /\ sweptAge \in 0 .. TooOld
      /\ sinceSwept \in {NoWindow} \cup Nat
  BY ReclaimAssumption DEF TooOld, TypeOK, HInv
<1>13. MissedMeaning'
  <2>1. phase = "engine" /\ missed \in 0 .. RescanBars /\ rescan \in 0 .. RescanBars
        /\ RescanBars \in Nat
    BY <1>1, RescanAssumption DEF EngineRuns, HInv, TypeOK
  <2>2. ~present => state' = state
    BY DEF EngineSkips, ResolveBreak, Sweep, ArmBreak, Touch, Undecided, Reclaim,
           AwaitReclaim, Invert, Fresh, Steps
  <2> QED BY <1>2, <1>3, <2>1, <2>2 DEF HInv, MissedMeaning
<1>14. UnsweptMeaning'
  <2>1. state' \in {"ACTIVE", "TESTED"} =>
          state \in {"ACTIVE", "TESTED"} /\ UNCHANGED <<sinceSwept, pendingInvert>>
    <3>1. pendingBreak => state \in {"ACTIVE", "TESTED", "DEAD"}
      BY DEF HInv, PendingBreakMeaning
    <3> USE DEF Steps, Fresh, memory
    <3>2. CASE EngineSkips(c)
      BY <3>2 DEF EngineSkips
    <3>3. CASE ResolveBreak(c)
      BY <3>1, <3>3 DEF ResolveBreak
    <3>4. CASE Sweep(c) \/ ArmBreak(c)
      BY <3>4 DEF Sweep, ArmBreak
    <3>5. ASSUME NEW tol \in Tolerances, Touch(c, tol) \/ Undecided(c, tol)
          PROVE  state \in {"ACTIVE", "TESTED"} /\ UNCHANGED <<sinceSwept, pendingInvert>>
      BY <3>5 DEF Touch, Undecided
    <3>6. CASE Reclaim(c) \/ AwaitReclaim(c) \/ Invert(c)
      BY <3>6 DEF Reclaim, AwaitReclaim, Invert
    <3> QED BY <3>2, <3>3, <3>4, <3>5, <3>6
  <2> QED BY <2>1 DEF HInv, UnsweptMeaning
<1> SUFFICES /\ PendingBreakMeaning' /\ WindowMeaning'
             /\ FvgInversionMeaning' /\ MovesMeaning'
  <2>1. moves' \in 0 .. 2
    BY <1>2
  <2>2. BarInHand'
    BY <1>3 DEF BarInHand
  <2> QED BY <1>1, <1>2, <1>13, <1>14, <2>1, <2>2 DEF HInv
<1>5. CASE EngineSkips(c)
  <2>1. UNCHANGED <<state, side, pendingBreak, sinceSwept, pendingInvert>>
        /\ (~present \/ state \in TERMINAL) /\ phase = "engine"
    BY <1>5 DEF EngineSkips, memory, EngineRuns
  <2>5. PendingBreakMeaning'
    BY <1>2, <1>3, <2>1 DEF HInv, PendingBreakMeaning
  <2>6. WindowMeaning'
    BY <1>2, <1>3, <1>4, <2>1 DEF HInv, WindowMeaning
  <2>7. FvgInversionMeaning'
    BY <1>3, <2>1 DEF HInv, FvgInversionMeaning
  <2>8. MovesMeaning'
    BY <1>2, <1>3, <2>1 DEF HInv, MovesMeaning
  <2> QED BY <2>5, <2>6, <2>7, <2>8
<1>6. CASE ResolveBreak(c)
  <2>1. /\ pendingBreak /\ present /\ state \in {"ACTIVE", "TESTED"} /\ side' = s
        /\ pendingBreak' = FALSE /\ UNCHANGED pendingInvert /\ phase = "engine"
    BY <1>6 DEF HInv, TypeOK, PendingBreakMeaning, ResolveBreak, Steps, EngineRuns
  <2>2. \/ BeyondFar(s, zone, c.close) /\ state' = "DEAD" /\ sinceSwept' = sinceSwept
        \/ ~BeyondFar(s, zone, c.close) /\ state' = "SWEPT" /\ sinceSwept' = 0
        \/ ~BeyondFar(s, zone, c.close) /\ state' = state /\ sinceSwept' = sinceSwept
    <3>1. OnOrigin(s, zone, c.close) => ~BeyondFar(s, zone, c.close)
      <4>1. zone[1] \in Nat /\ zone[2] \in Nat /\ zone[1] <= zone[2] /\ c.close \in Nat
        BY ZonesAssumption, CandlePrices DEF HInv, TypeOK
      <4> QED BY <4>1 DEF OnOrigin, BeyondFar
    <3> QED BY <1>6, <3>1 DEF ResolveBreak
  <2>5. PendingBreakMeaning'
    BY <1>2, <1>3, <2>1, <2>2 DEF HInv, PendingBreakMeaning
  <2>6. WindowMeaning'
    BY <1>2, <1>3, <1>4, <2>1, <2>2 DEF HInv, WindowMeaning
  <2>7. FvgInversionMeaning'
    BY <1>3, <2>1, <2>2 DEF HInv, FvgInversionMeaning
  <2>8. MovesMeaning'
    BY <1>2, <1>3, <2>1, <2>2 DEF HInv, MovesMeaning
  <2> QED BY <2>5, <2>6, <2>7, <2>8
<1>7. CASE Sweep(c)
  <2>1. /\ present /\ state \in {"ACTIVE", "TESTED"} /\ side' = s /\ phase = "engine"
        /\ state' = "SWEPT" /\ sinceSwept' = 0 /\ ~pendingBreak
        /\ UNCHANGED <<pendingBreak, pendingInvert>>
    BY <1>7 DEF Sweep, Fresh, Steps, EngineRuns
  <2>2. ~BeyondFar(s, zone, c.close)
    <3>1. zone[1] \in Nat /\ zone[2] \in Nat /\ zone[1] <= zone[2] /\ c.close \in Nat
      BY ZonesAssumption, CandlePrices DEF HInv, TypeOK
    <3> QED BY <1>7, <3>1 DEF Sweep, OnOrigin, BeyondFar
  <2>5. PendingBreakMeaning'
    BY <1>2, <1>3, <2>1, <2>2 DEF HInv, PendingBreakMeaning
  <2>6. WindowMeaning'
    BY <1>2, <1>3, <1>4, <2>1, <2>2 DEF HInv, WindowMeaning
  <2>7. FvgInversionMeaning'
    BY <1>3, <2>1, <2>2 DEF HInv, FvgInversionMeaning
  <2>8. MovesMeaning'
    BY <1>2, <1>3, <2>1, <2>2 DEF HInv, MovesMeaning
  <2> QED BY <2>5, <2>6, <2>7, <2>8
<1>8. CASE ArmBreak(c)
  <2>1. /\ present /\ state \in {"ACTIVE", "TESTED"} /\ side' = s /\ phase = "engine"
        /\ state' = state /\ pendingBreak' /\ BeyondFar(s, zone, c.close)
        /\ UNCHANGED <<sinceSwept, pendingInvert>>
    BY <1>8 DEF ArmBreak, Fresh, Steps, EngineRuns
  <2>5. PendingBreakMeaning'
    BY <1>2, <1>3, <2>1 DEF HInv, PendingBreakMeaning
  <2>6. WindowMeaning'
    BY <1>2, <1>3, <1>4, <2>1 DEF HInv, WindowMeaning
  <2>7. FvgInversionMeaning'
    BY <1>3, <2>1 DEF HInv, FvgInversionMeaning
  <2>8. MovesMeaning'
    BY <1>2, <1>3, <2>1 DEF HInv, MovesMeaning
  <2> QED BY <2>5, <2>6, <2>7, <2>8
<1>9. ASSUME NEW tol \in Tolerances, Touch(c, tol) \/ Undecided(c, tol) PROVE /\ PendingBreakMeaning' /\ WindowMeaning'
                                                                              /\ FvgInversionMeaning' /\ MovesMeaning'
  <2>1. /\ present /\ state \in {"ACTIVE", "TESTED"} /\ side' = s /\ phase = "engine"
        /\ state' \in {state, "TESTED", "MITIGATED"} /\ ~pendingBreak
        /\ UNCHANGED <<pendingBreak, sinceSwept, pendingInvert>>
    BY <1>9 DEF Touch, Undecided, Fresh, Steps, EngineRuns, memory
  <2>3. state' = "MITIGATED" => kind = "OB"
    BY <2>1, <1>9 DEF Touch, Undecided
  <2>2. state' # state => ~BeyondFar(s, zone, c.close)
    <3>1. zone[1] \in Nat /\ zone[2] \in Nat /\ zone[1] <= zone[2] /\ c.close \in Nat
      BY ZonesAssumption, CandlePrices DEF HInv, TypeOK
    <3> QED BY <1>9, <3>1 DEF Touch, Undecided, OnOrigin, BeyondFar
  <2>5. PendingBreakMeaning'
    BY <1>2, <1>3, <2>1, <2>2 DEF HInv, PendingBreakMeaning
  <2>6. WindowMeaning'
    BY <1>2, <1>3, <1>4, <2>1, <2>2 DEF HInv, WindowMeaning
  <2>7. FvgInversionMeaning'
    BY <1>3, <2>1, <2>2, <2>3 DEF HInv, FvgInversionMeaning
  <2>8. MovesMeaning'
    BY <1>2, <1>3, <2>1, <2>2 DEF HInv, MovesMeaning
  <2> QED BY <2>5, <2>6, <2>7, <2>8
<1>10. CASE Reclaim(c)
  <2>1. /\ present /\ state = "SWEPT" /\ side' = s /\ phase = "engine"
        /\ state' = "RECLAIMED" /\ sinceSwept' = NoWindow /\ ~pendingBreak
        /\ UNCHANGED <<pendingBreak, pendingInvert>>
    BY <1>10 DEF Reclaim, Steps, EngineRuns
  <2>2. ~BeyondFar(s, zone, c.close)
    <3>1. zone[1] \in Nat /\ zone[2] \in Nat /\ zone[1] <= zone[2] /\ c.close \in Nat
      BY ZonesAssumption, CandlePrices DEF HInv, TypeOK
    <3> QED BY <1>10, <3>1 DEF Reclaim, OnOrigin, BeyondFar
  <2>5. PendingBreakMeaning'
    BY <1>2, <1>3, <2>1, <2>2 DEF HInv, PendingBreakMeaning
  <2>6. WindowMeaning'
    BY <1>2, <1>3, <1>4, <2>1, <2>2 DEF HInv, WindowMeaning
  <2>7. FvgInversionMeaning'
    BY <1>3, <2>1, <2>2 DEF HInv, FvgInversionMeaning
  <2>8. MovesMeaning'
    BY <1>2, <1>3, <2>1, <2>2 DEF HInv, MovesMeaning
  <2> QED BY <2>5, <2>6, <2>7, <2>8
<1>11. CASE AwaitReclaim(c)
  <2>1. /\ present /\ state = "SWEPT" /\ side' = s /\ phase = "engine"
        /\ state' = "SWEPT" /\ ~pendingBreak
        /\ UNCHANGED <<pendingBreak, pendingInvert>>
        /\ sinceSwept' = IF sinceSwept = NoWindow \/ sinceSwept + 1 >= ReclaimCandles
                         THEN NoWindow ELSE sinceSwept + 1
    BY <1>11 DEF AwaitReclaim, Steps, EngineRuns
  <2>5. PendingBreakMeaning'
    BY <1>2, <1>3, <2>1 DEF HInv, PendingBreakMeaning
  <2>6. WindowMeaning'
    BY <1>2, <1>3, <1>4, <2>1 DEF HInv, WindowMeaning
  <2>7. FvgInversionMeaning'
    BY <1>3, <2>1 DEF HInv, FvgInversionMeaning
  <2>8. MovesMeaning'
    BY <1>2, <1>3, <2>1 DEF HInv, MovesMeaning
  <2> QED BY <2>5, <2>6, <2>7, <2>8
<1>12. CASE Invert(c)
  <2>1. /\ present /\ state = "RECLAIMED" /\ side' = s /\ phase = "engine"
        /\ ~pendingBreak /\ UNCHANGED <<pendingBreak, sinceSwept>>
    BY <1>12 DEF Invert, Steps, EngineRuns
  <2>2. /\ state' \in {"RECLAIMED", "INVERTED"}
        /\ state' = "INVERTED" => pendingInvert
        /\ pendingInvert' => BeyondFar(s, zone, c.close)
        /\ state' = "INVERTED" => ~pendingInvert'
    BY <1>12, <2>1 DEF Invert
  <2>5. PendingBreakMeaning'
    BY <1>2, <1>3, <2>1, <2>2 DEF HInv, PendingBreakMeaning
  <2>6. WindowMeaning'
    BY <1>2, <1>3, <1>4, <2>1, <2>2 DEF HInv, WindowMeaning
  <2>7. FvgInversionMeaning'
    BY <1>3, <2>1, <2>2 DEF HInv, FvgInversionMeaning
  <2>8. MovesMeaning'
    BY <1>2, <1>3, <2>1, <2>2 DEF HInv, MovesMeaning, FvgInversionMeaning
  <2> QED BY <2>5, <2>6, <2>7, <2>8
<1> QED BY <1>5, <1>6, <1>7, <1>8, <1>9, <1>10, <1>11, <1>12

LEMMA DetectInv ==
    ASSUME HInv, Detect, HistoryStep PROVE HInv'
<1>1. /\ TypeOK' /\ DetectorsRun /\ phase = "detect" /\ phase' = "engine"
      /\ UNCHANGED <<kind, prevClose>>
  BY DetectType DEF HInv, Detect, Born, FvgFill, ExtremesSync, EqualGroupGrows,
                    RivalEvicts, Recreated, DetectorsLeave, DetectorsRun
<1>2. /\ sweptAge' = sweptAge /\ prevClose # NoClose
      /\ moves' = moves + (IF SameObject /\ state # state' THEN 1 ELSE 0)
      /\ closedBeyond' = IF NewId THEN FALSE ELSE closedBeyond
      /\ missed' = IF NewId THEN 0 ELSE missed
  BY <1>1, DetectHistory
<1>3. moves' \in 0 .. 2 /\ (kind # "EXT" => moves' <= 1)
  <2>1. moves \in 0 .. 2 /\ (kind # "EXT" => moves <= 1)
    BY DEF HInv, MovesMeaning
  <2>2. CASE kind = "EXT"
    <3>1. moves <= 1
      BY <1>1 DEF HInv, MovesMeaning
    <3> QED BY <1>2, <2>1, <2>2, <3>1
  <2>3. CASE kind # "EXT" /\ ~(SameObject /\ state # state')
    BY <1>2, <2>1, <2>3
  <2>4. CASE kind # "EXT" /\ SameObject /\ state # state'
    <3>1. FvgFill
      BY <2>4 DEF Detect, Born, ExtremesSync, EqualGroupGrows, RivalEvicts, Recreated,
                  DetectorsLeave, SameObject
    <3>2. moves # 1
      BY <1>1, <3>1 DEF FvgFill, HInv, MovesMeaning
    <3> QED BY <1>2, <2>1, <2>4, <3>2
  <2> QED BY <2>2, <2>3, <2>4
<1>8. closedBeyond' \in BOOLEAN /\ missed' \in 0 .. RescanBars
  <2>1. closedBeyond \in BOOLEAN /\ missed \in 0 .. RescanBars /\ RescanBars \in Nat
    BY RescanAssumption DEF HInv
  <2>2. CASE NewId
    BY <1>2, <2>1, <2>2
  <2>3. CASE ~NewId
    BY <1>2, <2>1, <2>3
  <2> QED BY <2>2, <2>3
<1>9. MissedMeaning'
  <2>1. /\ missed \in 0 .. RescanBars /\ rescan \in 0 .. RescanBars /\ RescanBars \in Nat
        /\ IF present THEN missed = 0
           ELSE rescan > 0 => state = "ACTIVE" /\ missed + rescan < RescanBars + 1
    BY <1>1, RescanAssumption DEF HInv, TypeOK, MissedMeaning
  <2>2. CASE NewId
    BY <1>1, <1>2, <2>1, <2>2 DEF NewId, MissedMeaning
  <2>3. CASE RivalEvicts
    <3>1. /\ present /\ ~present' /\ state' = "ACTIVE"
          /\ rescan' > 0 => rescan' = rescan - 1
      BY <2>1, <2>3, AgeType DEF RivalEvicts
    <3> QED BY <1>1, <1>2, <2>1, <3>1 DEF NewId, MissedMeaning
  <2>4. CASE Recreated
    <3>1. ~present /\ present' /\ kind = "OB" /\ rescan > 0
      BY <2>4 DEF Recreated
    <3>2. missed' = missed
      BY <1>2, <2>4 DEF NewId
    <3> QED BY <1>1, <2>1, <3>1, <3>2 DEF MissedMeaning
  <2>5. CASE DetectorsLeave
    <3>1. /\ present' = present /\ state' = state
          /\ rescan' > 0 => rescan' = rescan - 1
      BY <2>1, <2>5, AgeType DEF DetectorsLeave
    <3> QED BY <1>1, <1>2, <2>1, <3>1 DEF NewId, MissedMeaning
  <2>6. CASE FvgFill \/ ExtremesSync \/ EqualGroupGrows
    <3>1. present /\ present'
      BY <2>6 DEF FvgFill, ExtremesSync, EqualGroupGrows
    <3> QED BY <1>1, <1>2, <2>1, <3>1 DEF NewId, MissedMeaning
  <2>7. Born => NewId \/ Recreated
    BY DEF Born, NewId
  <2> QED BY <2>2, <2>3, <2>4, <2>5, <2>6, <2>7 DEF Detect
<1> SUFFICES /\ PendingBreakMeaning' /\ WindowMeaning' /\ FvgInversionMeaning'
             /\ UnsweptMeaning'
  BY <1>1, <1>2, <1>3, <1>8, <1>9 DEF HInv, BarInHand, MovesMeaning
<1>4. CASE Born
  <2>1. state' = "ACTIVE" /\ ~pendingBreak' /\ sinceSwept' = NoWindow /\ ~pendingInvert'
    BY <1>4 DEF Born
  <2> QED BY <2>1 DEF PendingBreakMeaning, WindowMeaning, FvgInversionMeaning, UnsweptMeaning
<1>10. CASE RivalEvicts \/ Recreated
  <2>1. /\ kind = "OB" /\ state' = "ACTIVE" /\ ~NewId
        /\ UNCHANGED <<side, zone, pendingBreak, sinceSwept, pendingInvert>>
    BY <1>10 DEF RivalEvicts, Recreated, NewId, memory
  <2>2. state = "ACTIVE"
    BY <1>10 DEF RivalEvicts, Recreated, HInv, MissedMeaning
  <2>3. sinceSwept = NoWindow /\ ~pendingInvert
    BY <2>2 DEF HInv, UnsweptMeaning
  <2> QED BY <1>1, <1>2, <2>1, <2>2, <2>3
          DEF HInv, PendingBreakMeaning, WindowMeaning, FvgInversionMeaning, UnsweptMeaning
<1>5. CASE FvgFill
  <2>1. /\ state' = "DEAD" /\ kind = "FVG"
        /\ UNCHANGED <<present, side, zone, pendingBreak, sinceSwept, pendingInvert>>
    BY <1>5 DEF FvgFill, memory
  <2> QED BY <1>1, <1>2, <2>1
          DEF HInv, PendingBreakMeaning, WindowMeaning, FvgInversionMeaning, UnsweptMeaning,
              NewId, EngineOwned
<1>6. CASE ExtremesSync \/ EqualGroupGrows
  <2>1. /\ kind \in {"EXT", "EQ"} /\ state' \in {state, "DEAD"}
        /\ UNCHANGED <<present, side, pendingBreak, sinceSwept, pendingInvert>>
    BY <1>6 DEF ExtremesSync, EqualGroupGrows, memory
  <2> QED BY <1>1, <1>2, <2>1
          DEF HInv, PendingBreakMeaning, WindowMeaning, FvgInversionMeaning, UnsweptMeaning,
              NewId, EngineOwned
<1>7. CASE DetectorsLeave
  <2>1. /\ UNCHANGED <<present, state, side, zone, pendingBreak, sinceSwept, pendingInvert>>
        /\ kind = "FVG" /\ present /\ BeyondFar(side, zone, prevClose)
             => state \in {"DEAD", "INVERTED"}
    BY <1>7 DEF DetectorsLeave, level, memory
  <2>2. kind = "FVG" /\ pendingInvert => present
    BY DEF HInv, FvgInversionMeaning
  <2>3. PendingBreakMeaning' /\ WindowMeaning' /\ UnsweptMeaning'
    BY <1>1, <1>2, <2>1 DEF HInv, PendingBreakMeaning, WindowMeaning, UnsweptMeaning, NewId
  <2>4. FvgInversionMeaning'
    BY <1>1, <2>1, <2>2 DEF HInv, FvgInversionMeaning
  <2> QED BY <2>3, <2>4
<1> QED BY <1>4, <1>5, <1>6, <1>7, <1>10 DEF Detect

(* What is on disk is a live level.                                        *)
LEMMA DiskLive == ASSUME TypeOK, disk.present PROVE disk.state \in States \ TERMINAL
<1>1. CASE disk = NoLevel
  BY <1>1 DEF NoLevel
<1>2. CASE disk # NoLevel
  BY <1>2 DEF TypeOK, DiskImages
<1> QED BY <1>1, <1>2

LEMMA BoundaryInv ==
    ASSUME HInv, HistoryStep, Restart \/ \E kept \in BOOLEAN : EndSession(kept) \/ Finalize(kept)
    PROVE  HInv'
<1>1. /\ sweptAge' \in {sweptAge, TooOld} /\ moves' = 0
      /\ prevClose' = NoClose => sweptAge' = TooOld
      /\ prevClose' # NoClose => sweptAge' = sweptAge
      /\ prevClose' = NoClose => closedBeyond' = FALSE /\ missed' = 0
      /\ prevClose' # NoClose => closedBeyond' = closedBeyond /\ missed' = missed
  BY BoundaryHistory
<1>2. TooOld \in Nat /\ TooOld >= ReclaimCandles /\ sweptAge \in 0 .. TooOld
  BY ReclaimAssumption DEF HInv, TooOld
<1>3. TypeOK' /\ phase' = "engine"
  BY BoundaryType, RestartType DEF HInv, EndSession, Finalize, Restart
<1> SUFFICES /\ closedBeyond' \in BOOLEAN /\ missed' \in 0 .. RescanBars
             /\ PendingBreakMeaning' /\ WindowMeaning' /\ FvgInversionMeaning'
             /\ MissedMeaning' /\ UnsweptMeaning'
  <2>1. sweptAge' \in 0 .. TooOld /\ moves' \in 0 .. 2
    BY <1>1, <1>2
  <2>2. BarInHand' /\ MovesMeaning'
    BY <1>1, <1>3 DEF BarInHand, MovesMeaning
  <2> QED BY <1>3, <2>1, <2>2 DEF HInv
<1>4. ASSUME NEW kept \in BOOLEAN, Finalize(kept)
      PROVE  /\ closedBeyond' \in BOOLEAN /\ missed' \in 0 .. RescanBars
             /\ PendingBreakMeaning' /\ WindowMeaning' /\ FvgInversionMeaning'
             /\ MissedMeaning' /\ UnsweptMeaning'
  <2>1. UNCHANGED <<kind, present, state, zone, side, pendingBreak, sinceSwept,
                    pendingInvert, prevClose, rescan, phase>> /\ phase = "engine"
    BY <1>4 DEF Finalize, level, memory
  <2>2. /\ prevClose = NoClose => closedBeyond' = FALSE /\ missed' = 0
        /\ prevClose # NoClose => closedBeyond' = closedBeyond /\ missed' = missed
        /\ closedBeyond \in BOOLEAN /\ missed \in 0 .. RescanBars /\ RescanBars \in Nat
    BY <1>1, <2>1, RescanAssumption DEF HInv
  <2>3. closedBeyond' \in BOOLEAN /\ missed' \in 0 .. RescanBars
    <3>1. CASE prevClose = NoClose
      <4>1. closedBeyond' = FALSE /\ missed' = 0
        BY <2>2, <3>1
      <4>2. missed' \in 0 .. RescanBars
        BY <2>2, <4>1
      <4> QED BY <4>1, <4>2
    <3>2. CASE prevClose # NoClose
      BY <2>2, <3>2
    <3> QED BY <3>1, <3>2
  <2>4. MissedMeaning'
    <3>1. rescan \in 0 .. RescanBars
      BY DEF HInv, TypeOK
    <3> QED BY <2>1, <2>2, <3>1 DEF HInv, MissedMeaning
  <2> QED BY <1>1, <1>2, <2>1, <2>2, <2>3, <2>4
          DEF HInv, PendingBreakMeaning, WindowMeaning, FvgInversionMeaning, UnsweptMeaning
<1>5. ASSUME Restart \/ \E kept \in BOOLEAN : EndSession(kept)
      PROVE  /\ closedBeyond' \in BOOLEAN /\ missed' \in 0 .. RescanBars
             /\ PendingBreakMeaning' /\ WindowMeaning' /\ FvgInversionMeaning'
             /\ MissedMeaning' /\ UnsweptMeaning'
  <2>1. /\ ~pendingBreak' /\ sinceSwept' = NoWindow /\ ~pendingInvert'
        /\ prevClose' = NoClose /\ kind' = kind
    BY <1>5 DEF Restart, EndSession, ForgetAll
  <2>2. state' \notin {"INVERTED", "MITIGATED"} \/ state' = state
    <3>1. CASE Restart /\ disk.present
      <4>1. state' \in States \ TERMINAL
        BY <3>1, DiskLive DEF Restart, HInv
      <4> QED BY <4>1 DEF TERMINAL
    <3>2. CASE Restart /\ ~disk.present
      BY <3>2 DEF Restart
    <3>3. CASE \E kept \in BOOLEAN : EndSession(kept)
      BY <3>3 DEF EndSession
    <3> QED BY <1>5, <3>1, <3>2, <3>3
  <2>3. closedBeyond' = FALSE /\ missed' = 0 /\ missed' \in 0 .. RescanBars
    BY <1>1, <2>1, RescanAssumption
  <2>4. ~present' => rescan' = 0
    <3>1. CASE Restart
      BY <3>1, <1>3 DEF Restart, TypeOK
    <3>2. CASE \E kept \in BOOLEAN : EndSession(kept)
      BY <3>2 DEF EndSession
    <3> QED BY <1>5, <3>1, <3>2
  <2>5. MissedMeaning' /\ UnsweptMeaning' /\ PendingBreakMeaning'
    BY <2>1, <2>3, <2>4 DEF MissedMeaning, UnsweptMeaning, PendingBreakMeaning
  <2>6. WindowMeaning' /\ FvgInversionMeaning'
    BY <1>1, <1>2, <2>1, <2>2 DEF HInv, WindowMeaning, FvgInversionMeaning
  <2>7. closedBeyond' \in BOOLEAN
    BY <2>3
  <2> QED BY <2>3, <2>5, <2>6, <2>7
<1> QED BY <1>4, <1>5

LEMMA HNextInv == ASSUME HInv, [HNext]_hvars PROVE HInv'
<1>1. CASE UNCHANGED hvars
  BY <1>1 DEF hvars, vars, level, memory, HInv, TypeOK, BarInHand, PendingBreakMeaning,
              WindowMeaning, FvgInversionMeaning, MovesMeaning, MissedMeaning, UnsweptMeaning
<1>2. CASE HNext
  BY <1>2, EngineInv, DetectInv, BoundaryInv DEF HNext, Next, HistoryStep
<1> QED BY <1>1, <1>2

(* The meaning of the engine's memory is invariant.                        *)
THEOREM MemoryMeaning == HSpec => []HInv
<1>1. Init => TypeOK
  <2> SUFFICES ASSUME Init PROVE TypeOK
    OBVIOUS
  <2>1. present \in BOOLEAN /\ pendingBreak \in BOOLEAN /\ pendingInvert \in BOOLEAN
    BY DEF Init
  <2>2. touches \in 0 .. TouchCap /\ rescan \in 0 .. RescanBars /\ NoLevel \in DiskImages
    BY TouchAssumption, RescanAssumption DEF Init, DiskImages
  <2> QED BY <2>1, <2>2 DEF Init, TypeOK
<1>2. HInit => HInv
  <2> SUFFICES ASSUME HInit PROVE HInv
    OBVIOUS
  <2>1. TypeOK /\ BarInHand /\ PendingBreakMeaning /\ MissedMeaning /\ UnsweptMeaning
    BY <1>1 DEF HInit, Init, BarInHand, PendingBreakMeaning, MissedMeaning, UnsweptMeaning
  <2>2. WindowMeaning /\ FvgInversionMeaning /\ MovesMeaning
    BY DEF HInit, Init, WindowMeaning, FvgInversionMeaning, MovesMeaning
  <2>3. sweptAge \in 0 .. TooOld /\ moves \in 0 .. 2 /\ missed \in 0 .. RescanBars
    BY ReclaimAssumption, RescanAssumption DEF HInit, TooOld
  <2>4. closedBeyond \in BOOLEAN
    BY DEF HInit
  <2> QED BY <2>1, <2>2, <2>3, <2>4 DEF HInv
<1> QED BY <1>2, HNextInv, PTL DEF HSpec

-----------------------------------------------------------------------------
(* The properties the runs check, for every value of the constants.        *)

(* The type invariant under the specification with history.                *)
THEOREM HistoryTypeCorrect == HSpec => []TypeOK
<1>1. HInv => TypeOK
  BY DEF HInv
<1> QED BY <1>1, MemoryMeaning, PTL

(* A fair value gap never inverts: the fill rule always gets there first.  *)
THEOREM FvgNeverInvertsThm == HSpec => []FvgNeverInverts
<1>1. HInv => FvgNeverInverts
  BY DEF HInv, FvgInversionMeaning, FvgNeverInverts
<1> QED BY <1>1, MemoryMeaning, PTL

(* At most one transition per level object and bar.                        *)
THEOREM OneTransitionPerBarThm == HSpec => []OneTransitionPerBar
<1>1. HInv => OneTransitionPerBar
  BY DEF HInv, MovesMeaning, OneTransitionPerBar
<1> QED BY <1>1, MemoryMeaning, PTL

(* An engine-owned level dies only on two closes beyond its far edge, with *)
(* bars between them only for an order block that was evicted and made     *)
(* again while its candle was still read.                                  *)
THEOREM DeadNeedsTwoClosesThm == HSpec => DeadNeedsTwoCloses
<1> DEFINE A == state # "DEAD" /\ state' = "DEAD" /\ present /\ kind \in EngineOwned =>
                  /\ closedBeyond
                  /\ prevClose' # NoClose /\ BeyondFar(side', zone', prevClose')
                  /\ missed > 0 => kind = "OB" /\ missed < RescanBars
<1>1. ASSUME HInv, HNext, state # "DEAD", state' = "DEAD", present, kind \in EngineOwned
      PROVE  \E c \in Candles : ResolveBreak(c)
  <2>1. ~Restart /\ ~(\E kept \in BOOLEAN : EndSession(kept) \/ Finalize(kept))
    <3>1. ASSUME Restart PROVE FALSE
      <4>1. CASE disk.present
        <5>1. state' \in States \ TERMINAL
          BY <3>1, <4>1, <1>1, DiskLive DEF Restart, HInv
        <5> QED BY <5>1, <1>1 DEF TERMINAL
      <4>2. CASE ~disk.present
        BY <3>1, <4>2, <1>1 DEF Restart
      <4> QED BY <4>1, <4>2
    <3>2. ASSUME NEW kept \in BOOLEAN, EndSession(kept) \/ Finalize(kept) PROVE FALSE
      <4>1. state' = state
        BY <3>2 DEF EndSession, Finalize, level
      <4> QED BY <4>1, <1>1
    <3> QED BY <3>1, <3>2
  <2>2. ~Detect
    BY <1>1 DEF Detect, Born, FvgFill, ExtremesSync, EqualGroupGrows, RivalEvicts,
                Recreated, DetectorsLeave, EngineOwned
  <2>3. LevelEngineUpdate
    BY <1>1, <2>1, <2>2 DEF HNext, Next
  <2> QED BY <1>1, <2>3 DEF LevelEngineUpdate, EngineSkips, Sweep, ArmBreak, Touch, Undecided,
                Reclaim, AwaitReclaim, Invert, Fresh, Steps, memory
<1>2. ASSUME HInv, HNext PROVE A
  <2> SUFFICES ASSUME state # "DEAD", state' = "DEAD", present, kind \in EngineOwned
               PROVE  /\ closedBeyond
                      /\ prevClose' # NoClose /\ BeyondFar(side', zone', prevClose')
                      /\ missed > 0 => kind = "OB" /\ missed < RescanBars
    OBVIOUS
  <2>1. PICK c \in Candles : ResolveBreak(c)
    BY <1>1, <1>2
  <2>2. /\ pendingBreak /\ BeyondFar(SideOf(c), zone, c.close) /\ side' = SideOf(c)
        /\ zone' = zone /\ prevClose' = c.close
    BY <2>1 DEF ResolveBreak, Steps, EngineRuns
  <2>3. c.close # NoClose
    BY CandlePrices
  <2> QED BY <1>2, <2>2, <2>3 DEF HInv, PendingBreakMeaning, MissedMeaning
<1>3. HInv /\ [HNext]_hvars => [A]_hvars
  BY <1>2
<1> QED BY <1>3, MemoryMeaning, PTL DEF HSpec, DeadNeedsTwoCloses

(* Reclaimed exactly inside the window, never after a boundary.            *)
THEOREM ReclaimedInWindowThm == HSpec => ReclaimedInWindow
<1> DEFINE A == BarCloses /\ present /\ state = "SWEPT" =>
                  (state' = "RECLAIMED" <=>
                     /\ sweptAge < ReclaimCandles
                     /\ OnOrigin(side', zone', prevClose'))
<1>1. ASSUME HInv, HNext, BarCloses, present, state = "SWEPT"
      PROVE  state' = "RECLAIMED" <=>
                     /\ sweptAge < ReclaimCandles
                     /\ OnOrigin(side', zone', prevClose')
  <2>1. LevelEngineUpdate
    <3>1. ~Detect /\ ~Restart /\ ~(\E kept \in BOOLEAN : EndSession(kept) \/ Finalize(kept))
      BY <1>1 DEF BarCloses, Detect, Born, FvgFill, ExtremesSync, EqualGroupGrows, RivalEvicts,
                  Recreated, DetectorsLeave, DetectorsRun, Restart, EndSession, Finalize
    <3> QED BY <1>1, <3>1 DEF HNext, Next
  <2>2. ~pendingBreak
    BY <1>1 DEF HInv, PendingBreakMeaning
  <2>3. PICK c \in Candles : Reclaim(c) \/ AwaitReclaim(c)
    BY <1>1, <2>1, <2>2 DEF LevelEngineUpdate, EngineSkips, ResolveBreak, Sweep, ArmBreak, Touch,
                Undecided, Invert, Fresh, Steps, EngineRuns
  <2>4. /\ side' = SideOf(c) /\ zone' = zone /\ prevClose' = c.close
        /\ state' = "RECLAIMED" <=>
             /\ sinceSwept # NoWindow /\ sinceSwept + 1 <= ReclaimCandles
             /\ OnOrigin(SideOf(c), zone, c.close)
    BY <1>1, <2>3 DEF Reclaim, AwaitReclaim, Steps, EngineRuns
  <2>5. sinceSwept # NoWindow /\ sinceSwept + 1 <= ReclaimCandles <=> sweptAge < ReclaimCandles
    <3>1. ReclaimCandles \in Nat /\ TooOld \in Nat
      BY ReclaimAssumption DEF TooOld
    <3>2. sweptAge \in 0 .. TooOld /\ sinceSwept \in {NoWindow} \cup Nat /\ WindowMeaning
      BY <1>1 DEF HInv, TypeOK
    <3>3. CASE sinceSwept = NoWindow
      BY <1>1, <3>1, <3>2, <3>3 DEF WindowMeaning
    <3>4. CASE sinceSwept # NoWindow
      <4>1. sweptAge = sinceSwept
        BY <1>1, <3>2, <3>4 DEF WindowMeaning
      <4> QED BY <3>1, <3>2, <3>4, <4>1
    <3> QED BY <3>3, <3>4
  <2> QED BY <2>4, <2>5
<1>2. HInv /\ [HNext]_hvars => [A]_hvars
  BY <1>1
<1> QED BY <1>2, MemoryMeaning, PTL DEF HSpec, ReclaimedInWindow

-----------------------------------------------------------------------------
(* The slot implements the automaton its readers rely on.                  *)

LEMMA EngineRefines ==
    ASSUME HInv, HInv', LevelEngineUpdate
    PROVE  [Automaton!ANext]_(Automaton!avars)
<1> PICK c \in Candles :
        \/ EngineSkips(c) \/ ResolveBreak(c) \/ Sweep(c) \/ ArmBreak(c)
        \/ \E tol \in Tolerances : Touch(c, tol) \/ Undecided(c, tol)
        \/ Reclaim(c) \/ AwaitReclaim(c) \/ Invert(c)
  BY DEF LevelEngineUpdate
<1>1. EngineRuns(c) /\ UNCHANGED <<kind, present, disk>>
  BY DEF EngineSkips, ResolveBreak, Sweep, ArmBreak, Touch, Undecided, Reclaim, AwaitReclaim,
         Invert, Fresh, Steps, EngineRuns
<1>2. CASE state' = state
  BY <1>1, <1>2 DEF Automaton!avars
<1>3. CASE state' # state
  <2>1. present /\ <<state, state'>> \in Automaton!EngineEdges
    <3>1. kind = "FVG" => state' # "INVERTED"
      BY <1>1 DEF HInv, FvgInversionMeaning
    <3>2. pendingBreak => state \in {"ACTIVE", "TESTED", "DEAD"}
      BY DEF HInv, PendingBreakMeaning
    <3> USE <1>3 DEF Automaton!EngineEdges
    <3>3. CASE ResolveBreak(c)
      BY <3>2, <3>3 DEF ResolveBreak, Steps
    <3>4. CASE Sweep(c)
      BY <3>4 DEF Sweep, Fresh, Steps
    <3>5. ASSUME NEW tol \in Tolerances, Touch(c, tol)
          PROVE  present /\ <<state, state'>> \in Automaton!EngineEdges
      BY <3>5 DEF Touch, Fresh, Steps
    <3>6. CASE Reclaim(c)
      BY <3>6 DEF Reclaim, Steps
    <3>7. CASE Invert(c)
      BY <3>1, <3>7 DEF Invert, Steps
    <3> QED BY <3>3, <3>4, <3>5, <3>6, <3>7
            DEF EngineSkips, ArmBreak, Undecided, AwaitReclaim
  <2> QED BY <1>1, <2>1 DEF Automaton!ANext, Automaton!Moves
<1> QED BY <1>2, <1>3

LEMMA DetectRefines ==
    ASSUME HInv, Detect
    PROVE  [Automaton!ANext]_(Automaton!avars)
<1>1. UNCHANGED <<kind, disk>>
  BY DEF Detect, Born, FvgFill, ExtremesSync, EqualGroupGrows, RivalEvicts, Recreated,
         DetectorsLeave, DetectorsRun
<1>2. CASE Born \/ Recreated
  BY <1>1, <1>2 DEF Born, Recreated, HInv, TypeOK, Automaton!ANext, Automaton!Appears
<1>5. CASE RivalEvicts
  BY <1>1, <1>5 DEF RivalEvicts, HInv, TypeOK, Automaton!ANext, Automaton!Evicted
<1>3. CASE (FvgFill \/ ExtremesSync) /\ state' # state
  <2>1. /\ present /\ present' /\ kind \in {"FVG", "EXT"} /\ state' = "DEAD"
        /\ state \notin TERMINAL
    BY <1>3 DEF FvgFill, ExtremesSync, HInv, TypeOK, MovesMeaning, FvgInversionMeaning, level
  <2> QED BY <1>1, <2>1 DEF HInv, TypeOK, Automaton!ANext, Automaton!Moves,
                            Automaton!DetectorEdges, Automaton!LiveStates
<1>4. CASE (FvgFill \/ ExtremesSync \/ EqualGroupGrows \/ DetectorsLeave) /\ state' = state
  BY <1>1, <1>4 DEF FvgFill, ExtremesSync, EqualGroupGrows, DetectorsLeave, Automaton!avars
<1> QED BY <1>2, <1>3, <1>4, <1>5 DEF Detect, EqualGroupGrows, DetectorsLeave

LEMMA BoundaryRefines ==
    ASSUME HInv, Restart \/ \E kept \in BOOLEAN : EndSession(kept) \/ Finalize(kept)
    PROVE  [Automaton!ANext]_(Automaton!avars)
<1>1. ASSUME Restart PROVE Automaton!Reloads
  <2>1. CASE disk.present
    BY <1>1, <2>1 DEF Restart, Automaton!Reloads
  <2>2. CASE ~disk.present
    BY <1>1, <2>2, RestartType DEF Restart, HInv, TypeOK, Automaton!Reloads
  <2> QED BY <2>1, <2>2
<1>2. ASSUME NEW kept \in BOOLEAN, EndSession(kept) \/ Finalize(kept)
      PROVE  Automaton!Saves
  <2>1. UNCHANGED <<kind, state>> /\ present' \in {present, kept} /\ disk' = Encoded(kept)
    BY <1>2 DEF EndSession, Finalize, level
  <2>2. CASE kept
    <3>1. present /\ state \in Automaton!LiveStates
      BY <1>2, <2>2 DEF EndSession, Finalize, MayCarry, HInv, TypeOK, Automaton!LiveStates
    <3>2. disk'.present /\ disk'.state = state
      BY <2>1, <2>2 DEF Encoded
    <3> QED BY <2>1, <2>2, <3>1, <3>2 DEF Automaton!Saves
  <2>3. CASE ~kept
    <3>1. ~disk'.present
      BY <2>1, <2>3 DEF Encoded, NoLevel
    <3> QED BY <2>1, <2>3, <3>1 DEF Automaton!Saves
  <2> QED BY <2>2, <2>3
<1> QED BY <1>1, <1>2 DEF Automaton!ANext

(* The level slot, with every window it keeps, implements LevelAutomaton:  *)
(* the published transition graph, the writes detectors are allowed, and a *)
(* level file that only ever holds live levels.                            *)
THEOREM ImplementsAutomatonThm == HSpec => ImplementsAutomaton
<1>1. HInit => Automaton!AInit
  BY DEF HInit, Init, NoLevel, Automaton!AInit
<1>2. HInv /\ HInv' /\ [HNext]_hvars => [Automaton!ANext]_(Automaton!avars)
  <2>1. CASE UNCHANGED hvars
    BY <2>1 DEF hvars, vars, level, Automaton!avars
  <2> QED BY <2>1, EngineRefines, DetectRefines, BoundaryRefines DEF HNext, Next
<1> QED BY <1>1, <1>2, MemoryMeaning, PTL
        DEF HSpec, ImplementsAutomaton, Automaton!ASpec
=============================================================================
