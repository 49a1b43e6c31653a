SPECIFICATION Spec
CONSTANTS
    Nets = {1, 2}
    Slots = {1, 2}
    Traces = {"t1", "t2", "t3", "t4"}
    NumRetries = 2
    SeenCap = 2
    Scenarios <- MCScenarios
INVARIANTS CallbackAlive AnsweredBeforeDestroyed ArchivesRemoved ProbeAnsweredOnce
CHECK_DEADLOCK FALSE
