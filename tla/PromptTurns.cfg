SPECIFICATION FairSpec
INVARIANTS
    TypeOK
    TerminalRestored
    AckedPromptOwnsTerminal
PROPERTIES
    CancelScoped
    TurnsEnd
    JoinIsBounded
    ShiftTabApplied
