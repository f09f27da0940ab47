SPECIFICATION PSpec
CONSTANTS
    Weights <- MCWeights
    MergePct = 25
    MinDetectors = 2
    WindowSize = 4
    MinGrade = 2
    MinRR = 1
    ArmProximity = 100
    ChaseTolerance = 50
    MaxStop = 200
    MinStop = 100
    AtrBuffer = 25
    RoundOffset = 1
    ArmTTL = 2
    RiskBudget = 30
    Notional = 1000
    TargetR <- MCTargetR
    Brokerage = 1
    SellPct = 30
    BuyPct = 5
    CostPct = 50
    Settings <- MCSettings
    MaxQty = 10
    PinSize = 50
    Threshold = 30
    Cooldown = 1
    NoVerdict = NoVerdict
    Followed <- MCFollowed
    Plans <- MCPlans
    Prices <- MCPrices
    TriggerBars <- MCTriggerBars
    SwingStops <- MCSwingStops
    None = None
    BarMinutes = 2
    SessionMinutes = 8
    Squareoff = 6
    StallBars = 2
INVARIANTS
    TypeOK
    BreakevenAfterOneR
    OpenHasShares
    OrdersWithinEstimate
    PlanIsSound
    ArmedWithBacking
PROPERTIES
    StopOnlyTightens
CHECK_DEADLOCK FALSE
