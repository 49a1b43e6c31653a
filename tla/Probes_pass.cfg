SPECIFICATION ProbesFairSpec
CONSTANTS
    Machine = "m"
    None = none
    BatchSize = 3
    High = 2
    Low = 1
    Titles <- MCTitles
    Provider <- MCProvider
    Serial <- MCSerial
    PayloadSize = 9
    MaxBatches = 2
    MaxReads = 1
    MaxPairings = 1
    MaxFaults = 1
    MaxAsks = 1
INVARIANTS
    NonceOffersOnce
    HeardIsCurrent
PROPERTIES
    ReadTagReplaced
CHECK_DEADLOCK FALSE
