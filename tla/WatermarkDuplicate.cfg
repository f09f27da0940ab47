SPECIFICATION Spec
CONSTANTS
    None = None
    Dates = 2
    SessionMinutes = 6
    BarMinutes = 2
INVARIANTS
    RestartNeverDuplicates
CHECK_DEADLOCK FALSE
