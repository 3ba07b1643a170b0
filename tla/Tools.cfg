SPECIFICATION Spec
CONSTANTS
    Tools <- AllTools
    Args <- ToolArgs
    Plan <- Capabilities
    World <- Outcomes
    MaxLapses = 1
    NoTool = NoTool
    PageBanks = {"FED"}
    MaxExhibits = 2
    MaxCandidates = 2
    AnyYear = 0
INVARIANTS
    TypeOK
    OneRunPerKey
    RepeatsAreFree
    AnswersAreWhole
    ErrorsAreEarned
PROPERTIES
    EveryCallReplies
CHECK_DEADLOCK FALSE
