SPECIFICATION Spec
CONSTANTS
    Tools = {"edit", "shell", "agent", "EnterPlanMode", "ExitPlanMode"}
    Restricted = {}
    DenyRules = {"agent"}
    AllowRules = {"shell"}
    MaxTurns = 1
    MaxBatch = 3
    MaxRuns = 1
    WindowSize = 20
    MaxMessages = 240
    MaxTokens = 100
    BlockTokens = 98
    SoftTokens = 85
    TextCosts = {1}
    SummaryCosts = {1}
    MarkerCost = 1
    SnipKeeps = {1}
    UserModes = {"Default", "AcceptEdits", "Plan", "Bypass"}
INVARIANTS
    ConsentRespected
