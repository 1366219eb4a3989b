\* One process, one worker, retry policies with a limit of attempts and of time,
\* stops, replacement and messages at any time, a database error or a crash,
\* and a client that lists the process and an older one page by page.
SPECIFICATION FairSpec
CONSTANTS
    Execs = {5}
    Workers = {1}
    Unset = Unset
    MaxInt = 3
    NoConfig = NoConfig
    Configs <- SmallConfigs
    OldRows <- OlderRows
    PageSize = 1
    MaxTime = 2
    MaxCompleted = 4
    MaxFaults = 1
INVARIANTS
    TypeOK
    AttemptsWithinPolicy
    BackoffWithinPolicy
    RetriesEndInTime
    ShownRunningForAReason
PROPERTIES
    EveryStateEnds
    VisibleNeverReopens
    
CHECK_DEADLOCK FALSE
