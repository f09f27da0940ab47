SPECIFICATION HSpec
CONSTANTS
    Prices <- MCPrices
    Zones <- MCZones
    Tolerances <- MCTolerances
    ReclaimCandles = 2
    RescanBars = 3
    TouchCap = 3
PROPERTY ReclaimedLeavesOnlyInverted
