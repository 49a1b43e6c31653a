CONSTANTS
    Players = {1, 2, 10}
    Balls = {0, 1, 2}
    Scores = {0, 5}
    ModeNames = {m1}
    MaxGames = 2
    MaxCalls = 6
    MaxAuthChanges = 2
    Threads = 2
    MaxCounter = 2
    NetCalls = 2
SPECIFICATION MCSpec
INVARIANTS CurrentSessionKept SettledOnlyAfterFinish
PROPERTIES ScoreStaysWithTurn OneUploadPerTurn 
CHECK_DEADLOCK FALSE
