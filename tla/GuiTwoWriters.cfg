CONSTANTS
    Writers = {1, 2}
    Prompts = {1, 2, 3}
    ResumeBusy = TRUE
SPECIFICATION Spec
PROPERTY SavedTurnsKept
CHECK_DEADLOCK FALSE
