SPECIFICATION FairSpec
CONSTANTS
    Tasks = {t1}
    Streams = {stdout}
    Callers = {c1}
    MaxBuffered = 2
    MaxLines = 4
INVARIANTS
    TypeOK
    PagesAreFaithful
    StoppedIsDead
PROPERTIES
    OutputDrains
    ExitIsRecorded
CHECK_DEADLOCK FALSE
