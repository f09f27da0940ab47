--------------------------- MODULE PositionHistory ---------------------------
(***************************************************************************)
(* PositionManager with one history variable: the best price the market    *)
(* has printed since the position is there.                                *)
(***************************************************************************)
EXTENDS PositionManager

VARIABLE best   \* most favourable price since the fill, its own minute included

hvars == <<vars, best>>

BestNext(c) ==
    IF status # "open" THEN c.high ELSE IF c.high > best THEN c.high ELSE best

HInit == Init /\ best = 0
HNext ==
    \/ (\E t \in Minutes : Comes(t)) /\ UNCHANGED best
    \/ OnClose /\ UNCHANGED best
    \/ \E c \in Candles : OnM1(c) /\ best' = BestNext(c)
    \/ ForceClose /\ UNCHANGED best
HSpec == HInit /\ [][HNext]_hvars

(* "Fills modeled from OHLC touch ... conservative on limits" (SYSTEM.md): *)
(* an exit priced at a target is one the market traded at while there was  *)
(* a position to exit.                                                     *)
TargetsTradedWhileOpen ==
    [][stage = "close" /\ stage' = "feed" /\ status = "open"
         => \A price \in queue.limits : price <= best']_hvars
=============================================================================
