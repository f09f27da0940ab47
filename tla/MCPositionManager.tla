-------------------------- MODULE MCPositionManager --------------------------
(***************************************************************************)
(* PositionManager with small bounds for TLC: 1R is two ticks of the grid. *)
(***************************************************************************)
EXTENDS PositionManager

MCPrices     == {-3, 0, 2, 4, 6}
MCTriggerBars == {[high |-> 4, low |-> -3, close |-> 0], [high |-> 0, low |-> -3, close |-> 0]}
MCSwingStops == {-3, 1}
MCPlans ==
    {[qty |-> 10, risk |-> 2, targets |-> <<3, 4, 6>>, goal |-> None],
     [qty |-> 3, risk |-> 2, targets |-> <<3, 4>>, goal |-> None],
     [qty |-> 10, risk |-> 2, targets |-> <<3, 4, 6>>, goal |-> 3]}
=============================================================================
