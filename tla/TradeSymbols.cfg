SPECIFICATION Spec
CONSTANTS
    a = a
    b = b
    Symbols = {a, b}
    None = None
    MaxTrades = 2
    MaxPerStock = 2
    MaxCorrelated = 1
    LossStop = 2
    PerTradePct = 1
    DailyLossPct = 2
    ProfitLock = 2
    Budget = 2
    HeatCap = 3
    Cooldown = 0
    LastDate = 2
    BarMinutes = 2
    SessionMinutes = 8
    ObserveMin = 2
    Cutoff = 5
    Squareoff = 6
    ArmTTL = 1
    FillTTL = 2
    RiskAmounts = {1, 2}
    Results <- MCResults
SYMMETRY MCSymmetry
INVARIANTS
    TypeOK
    OneIntent
    NoOvernight
    NoStaleIntent
    FlatAfterSquareoff
    LedgerMatchesBook
    CapsHold
    HeatIsOpenRisk
PROPERTIES
    ImplementsTradingDay
    LockedDayStaysShut
CHECK_DEADLOCK FALSE
