SPECIFICATION FairSpec
CONSTANTS
    MaxGestures = 5
    None = None
    Filters = {f0, f1}
    NoFilters = f0
    LastCursor = 2
    MaxHistory = 3
    MaxRecords = 2
    Grants = {"create", "update", "delete"}
    MaxChanges = 2
    MaxForeign = 1
    New = New
INVARIANTS
    PageMatchesQuery
    ListMirrorsServer
PROPERTIES
    SavesReplaceWhatWasSeen
    ChangesReported
    LoadsSettle
CHECK_DEADLOCK FALSE
