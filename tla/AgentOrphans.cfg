SPECIFICATION Spec
CONSTANTS
    Tools = {"read"}
    Restricted = {}
    DenyRules = {}
    AllowRules = {}
    MaxTurns = 3
    MaxBatch = 1
    MaxRuns = 2
    WindowSize = 4
    MaxMessages = 4
    MaxTokens = 5
    BlockTokens = 4
    SoftTokens = 3
    TextCosts = {1, 3}
    SummaryCosts = {1}
    MarkerCost = 1
    SnipKeeps = {1, 2}
    UserModes = {"Bypass"}
INVARIANT ResultsHaveUses
