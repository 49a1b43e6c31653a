SPECIFICATION ModesFairSpec
CONSTANTS
    ModeNames = {m1, m2}
    Durations = {0, 1, 11}
    MaxJobs = 1
    MaxTicks = 2
INVARIANTS
    ExpiryCovered
    CallsBeforeDestroyRun
PROPERTIES
    ModesAreLeased
    OverdueModeGoes
CHECK_DEADLOCK FALSE
