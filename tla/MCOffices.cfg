SPECIFICATION PartsSpec
CONSTANTS
    Offices = {a, b, c}
    NoOffice = none
    Requests = {r1}
    MaxHandoffs = 3
    Nowhere = nowhere
    PASSED_ON_LIMIT = 2
    DayDocs = {d1, d2, d3}
    Entries = {e1, e2}
    OneDoc = {c0}
    Uploads = {u1}
    Slots = {s1, s2}
    None = None
    MaxId = 3
    LastDay = 3
    KeepDays = 1
    Lengths <- ShortMonths
    Times <- MonthEnds
    Periods = {1, 2}
    Extensions = {1, 2}
    MaxNow = 6
    Day = 3
    DUE_SOON = 3
    RECENT = 2
    Kept = {0, 1, 3}
    WARNING = 1
    MAX_ITEMS = 2
    Nights = 4
    MaxFolder = 1
    NightsKept = 0
    MaxAge = 1
SYMMETRY Symmetry
INVARIANTS OfficesKeepTrack ListsAreKept
PROPERTIES KeepsPromise ListsChangeAsAsked NewsIsShown
