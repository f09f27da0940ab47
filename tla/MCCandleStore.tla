---------------------------- MODULE MCCandleStore ----------------------------
(***************************************************************************)
(* CandleStore with small bounds for TLC: two sessions of three minutes, a *)
(* frame of two minutes, whose last bucket is short, and the day.          *)
(***************************************************************************)
EXTENDS CandleStore

MCQuotes == [t \in Rows |-> IF t = 1 THEN {1, 2} ELSE {1}]
=============================================================================
