SPECIFICATION FairSpec
CONSTANTS
    Connections = {c1, c2, c3}
INVARIANTS
    TypeOK
    JobsAreAlive
    NoLostWakeup
PROPERTIES
    DrainsBeforeStop
    ShutdownCompletes
    RequestsAreServed
CHECK_DEADLOCK FALSE
