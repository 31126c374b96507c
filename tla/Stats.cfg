CONSTANTS
    GridInterval <- TwoGrids
    KeepTime = 1
    MaxBatchTimeInterval = 9
    PointsOnGrid = FALSE
    Units = 12
    MaxTime = 4
    MaxMessages = 2
    MaxCrashes = 2
SPECIFICATION Spec
INVARIANTS LoggedIsCounted CountedOnceOrDoubled CacheIsRecent CacheInHistory
CHECK_DEADLOCK FALSE
