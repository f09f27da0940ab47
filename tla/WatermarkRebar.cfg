SPECIFICATION Spec
CONSTANTS
    None = None
    Dates = 2
    SessionMinutes = 6
    BarMinutes = 2
INVARIANTS
    BarsSeenOnce
CHECK_DEADLOCK FALSE
