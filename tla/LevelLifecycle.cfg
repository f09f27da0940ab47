SPECIFICATION HSpec
CONSTANTS
    Prices <- MCPrices
    Zones <- MCZones
    Tolerances <- MCTolerances
    ReclaimCandles = 2
    RescanBars = 3
    TouchCap = 3
INVARIANT TypeOK
INVARIANT OneTransitionPerBar
INVARIANT FvgNeverInverts
PROPERTY DeadNeedsTwoCloses
PROPERTY ReclaimedInWindow
PROPERTY ImplementsAutomaton
