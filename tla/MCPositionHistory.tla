-------------------------- MODULE MCPositionHistory --------------------------
(* PositionHistory with the bounds of MCPositionManager.                   *)
EXTENDS PositionHistory, MCPositionManager
=============================================================================
