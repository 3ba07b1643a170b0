SPECIFICATION Spec
CONSTANTS
    Quarters = {0, 1, 2, 3, 4, 5}
    FirstMonth = 2
    MonthDays = 4
    YearEnd = 2
    Drift <- DriftOfSix
    Tolerance = 2
    Feeds <- TheFeeds
    Tables <- TheTables
    Indexes <- TheIndexes
    Requests <- TheRequests
    NoFilter = NoFilter
    NoFiling = NoFiling
    NoLabel = NoLabel
    NoMonth = NoMonth
    NotYet = NotYet
    Failed = Failed
    Drifted = Drifted
INVARIANTS
    TypeOK
    TrailingYearsAreWhole
    FilingsAreOfTheirPeriod
    FilteredRecordsAreFiled
    LabelsCountQuarters
CHECK_DEADLOCK FALSE
