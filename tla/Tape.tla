-------------------------------- MODULE Tape --------------------------------
(***************************************************************************)
(* The tape every incremental detector reads: the closed bars of one       *)
(* symbol, oldest first, and the average true range of its last bars       *)
(* (src/app/trader/detectors/taught.py, class Tape; StockContext.atr).     *)
(* w is the tape, i the bar being read, counted from 1.                    *)
(***************************************************************************)
EXTENDS Integers, Sequences, FiniteSetsExt

CONSTANT AtrPeriod          \* 14 in the code
ASSUME AtrAssumption == AtrPeriod \in Nat \ {0}

Highest(w, S) == Max({w[j].h : j \in S})
Lowest(w, S)  == Min({w[j].l : j \in S})

TrueRange(w, i) == Max({w[i].h - w[i].l, w[i].h - w[i-1].c, w[i-1].c - w[i].l})

(* AtrPeriod times the average true range, of the AtrPeriod + 1 bars v:    *)
(* the oldest only lends its close.                                        *)
AtrSum(v) == MapThenSumSet(LAMBDA j : TrueRange(v, j), 2 .. AtrPeriod + 1)

(* A close this far outside a zone is a break: half an average true range. *)
Deep(w, i, far) ==
    i > AtrPeriod /\ 2 * AtrPeriod * far >= AtrSum(SubSeq(w, i - AtrPeriod, i))
=============================================================================
