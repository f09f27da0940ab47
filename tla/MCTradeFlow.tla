----------------------------- MODULE MCTradeFlow -----------------------------
(***************************************************************************)
(* TradeFlow with small bounds for TLC.                                    *)
(***************************************************************************)
EXTENDS TradeFlow, TLC

CONSTANTS a, b   \* symbols

MCResults == {-1, 2}
MCSymmetry == Permutations(Symbols)
=============================================================================
