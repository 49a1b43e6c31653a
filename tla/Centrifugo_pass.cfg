SPECIFICATION FairSpec
CONSTANTS
    Pool = {p1}
    Strand = strand
    MaxClients = 5
    MaxRestarts = 2
    MaxDrops = 2
INVARIANTS
    DestroyedUnwound
    CreditsStatusNotMissed
    ShutdownQuiet
PROPERTIES
    RestartReconnects
CHECK_DEADLOCK FALSE
