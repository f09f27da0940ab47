SPECIFICATION Spec
CONSTANTS
    Dates = 2
    DayMinutes = 8
    SessionMinutes = 3
    Frames = {2, 3}
    Quotes <- MCQuotes
    None = None
INVARIANTS
    TypeOK
    ViewsExact
    SavedFilesAgree
