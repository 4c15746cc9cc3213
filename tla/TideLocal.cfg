\* Two profiles, two runs of five command lines, kills and logins.
CONSTANTS
    r1 = r1
    r2 = r2
    flash = flash
    flashQ4 = flashQ4
    NoRun = NoRun
    NoCommand = NoCommand
    NoConfig = NoConfig
    Runs = {r1, r2}
    Profiles = {flash, flashQ4}
    Commands <- MCCommands
SPECIFICATION FairSpec
INVARIANTS TypeOK WeightsWhole KeysKept LastWord TestedOwnGateway
PROPERTIES OnlyRealRunsWrite RunsEnd
CHECK_DEADLOCK FALSE
