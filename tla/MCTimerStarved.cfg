\* A page that timer rows nobody deletes fill.
SPECIFICATION FairSpec
CONSTANTS
    w1 = w1  w2 = w2
    Workers = {w1}
    BufferSize = 1
    NotifyBufferSize = 1
    PageSize = 1
    LookAhead = 1
    Jitter = 1
    MaxTimers = 2
    FireTimestamps = {0}
    LastInsert = 0
    MaxTime = 1
    MaxCrashes = 0
    MayFail = FALSE
    MayKeepRow = TRUE
    Punctual = FALSE
PROPERTIES
    EveryTimerFires
\* Only the bound on the clock ends a behaviour.
CHECK_DEADLOCK FALSE
