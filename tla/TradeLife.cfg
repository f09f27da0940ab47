SPECIFICATION Spec
CONSTANTS
    a = a
    b = b
    Symbols = {a}
    None = None
    MaxTrades = 2
    MaxPerStock = 2
    MaxCorrelated = 1
    LossStop = 2
    PerTradePct = 1
    DailyLossPct = 2
    ProfitLock = 2
    Budget = 2
    HeatCap = 3
    Cooldown = 1
    LastDate = 2
    BarMinutes = 2
    SessionMinutes = 12
    ObserveMin = 2
    Cutoff = 9
    Squareoff = 10
    ArmTTL = 1
    FillTTL = 2
    RiskAmounts = {1, 2}
    Results <- MCResults
INVARIANTS
    TradesAreFresh
PROPERTIES
    PositionsSettle
CHECK_DEADLOCK FALSE
