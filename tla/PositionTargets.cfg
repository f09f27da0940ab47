SPECIFICATION HSpec
CONSTANTS
    Plans <- MCPlans
    Prices <- MCPrices
    TriggerBars <- MCTriggerBars
    SwingStops <- MCSwingStops
    None = None
    BarMinutes = 2
    SessionMinutes = 8
    Squareoff = 6
    StallBars = 2
PROPERTIES
    TargetsTradedWhileOpen
CHECK_DEADLOCK FALSE
