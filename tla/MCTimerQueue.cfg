\* Two timers inside one window or across two, with notifications that are lost,
\* late or out of order.
SPECIFICATION FairSpec
CONSTANTS
    w1 = w1  w2 = w2
    Workers = {w1}
    BufferSize = 1
    NotifyBufferSize = 1
    PageSize = 2
    LookAhead = 1
    Jitter = 1
    MaxTimers = 2
    FireTimestamps = {0, 1}
    LastInsert = 0
    MaxTime = 1
    MaxCrashes = 0
    MayFail = FALSE
    MayKeepRow = FALSE
    Punctual = FALSE
INVARIANTS
    TypeOK
    HeapHasAlarm
    NeverAsleep
    RequestsHaveAlarm
    HeapWasLoaded
PROPERTIES
    EveryTimerFires
\* Only the bound on the clock ends a behaviour.
CHECK_DEADLOCK FALSE
