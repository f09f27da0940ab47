SPECIFICATION Spec
CONSTANTS
    None = None
    Dates = 2
    SessionMinutes = 4
    BarMinutes = 2
INVARIANTS
    TypeOK
    RowsNotLost
    BarsNotLost
    RowsTradedOnce
    BoundariesClosedOnce
CHECK_DEADLOCK FALSE
