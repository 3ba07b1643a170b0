SPECIFICATION AnswersSpec
CONSTANTS
    Catalog <- TenQ
    MonthDays = 8
    PeriodTolerance = 3
    Statements <- TheStatements
    Documents <- TheDocuments
    Reporters <- TheReporters
    Valuations <- TheValuations
    NoAnswer = NoAnswer
INVARIANT
    ChangesAreFromThePeriodBefore
CHECK_DEADLOCK FALSE
