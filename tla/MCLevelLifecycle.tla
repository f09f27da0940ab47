-------------------------- MODULE MCLevelLifecycle --------------------------
EXTENDS LevelHistory

MCPrices     == 1 .. 5
MCZones      == {<<3, 4>>, <<2, 3>>}
MCTolerances == {0, 1}
=============================================================================
