SPECIFICATION FairSpec
CONSTANTS
    Tasks = {t1}
    Streams = {stdout}
    Callers = {c1}
    MaxBuffered = 2
    MaxLines = 1
PROPERTIES
    KillIsDelivered
CHECK_DEADLOCK FALSE
