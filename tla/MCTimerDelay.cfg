\* A server that keeps up, over two windows: failing workers and a crash, and what
\* there is to do takes no time.
SPECIFICATION Spec
CONSTANTS
    w1 = w1  w2 = w2
    Workers = {w1}
    BufferSize = 2
    NotifyBufferSize = 1
    PageSize = 2
    LookAhead = 1
    Jitter = 1
    MaxTimers = 2
    FireTimestamps = {0, 2}
    LastInsert = 1
    MaxTime = 3
    MaxCrashes = 1
    MayFail = TRUE
    MayKeepRow = FALSE
    Punctual = TRUE
INVARIANTS
    DelayIsBounded
\* Only the bound on the clock ends a behaviour.
CHECK_DEADLOCK FALSE
