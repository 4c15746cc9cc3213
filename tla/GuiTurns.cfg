CONSTANTS
    Writers = {1, 2}
    Prompts = {1, 2}
    ResumeBusy = FALSE
SPECIFICATION FairSpec
INVARIANTS TypeOK ParkedIsAnswerable TurnShownRunning ListedSessionsLoad
PROPERTIES SavedTurnsKept RunningEnds StopEndsTurn DroppedWorkersLeave
CHECK_DEADLOCK FALSE
