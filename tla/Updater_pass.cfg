SPECIFICATION Spec
CONSTANTS
    Checkers = {c1, c2}
    Versions = {10, 11, 12, 20}
    FirstVersion = 10
    Devices <- MCDevices
    Replies <- MCReplies
    MaxChecks = 2
    MaxRestarts = 1
INVARIANTS
    BinaryRecoverable
    ReportTruthful
    SdkStaysInSeries
CHECK_DEADLOCK FALSE
