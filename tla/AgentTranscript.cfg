SPECIFICATION FairSpec
CONSTANTS
    Tools = {"Snip", "Brief"}
    Restricted = {}
    DenyRules = {}
    AllowRules = {}
    MaxTurns = 2
    MaxBatch = 2
    MaxRuns = 2
    WindowSize = 2
    MaxMessages = 4
    MaxTokens = 5
    BlockTokens = 4
    SoftTokens = 3
    TextCosts = {1, 3}
    SummaryCosts = {1}
    MarkerCost = 1
    SnipKeeps = {1, 2}
    UserModes = {"Bypass"}
INVARIANTS
    TypeOK
    UsesAnswered
    CancelBounded
PROPERTIES
    KeepsTurnProtocol
    RunsAreBounded
    RunEnds
