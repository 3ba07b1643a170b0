SPECIFICATION AnswersSpec
CONSTANTS
    Catalog <- TenQ
    MonthDays = 8
    PeriodTolerance = 3
    Statements <- TheStatements
    Documents <- TheDocuments
    Reporters <- TheReporters
    Valuations <- TheValuations
    NoAnswer = NoAnswer
INVARIANTS
    StatementsReadInOrder
    SectionsAreOfTheBody
    RecordsAreOfTheirFilings
    ValuationsAreOfTheirPeriod
CHECK_DEADLOCK FALSE
