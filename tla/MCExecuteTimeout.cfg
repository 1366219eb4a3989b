\* One worker, nothing fails but the API.
SPECIFICATION Spec
CONSTANTS
    Execs = {5}
    Workers = {1}
    Unset = Unset
    MaxInt = 3
    NoConfig = NoConfig
    Configs <- SmallConfigs
    OldRows = {}
    PageSize = 0
    MaxTime = 2
    MaxCompleted = 4
    MaxFaults = 0
INVARIANT ApiErrorsGoToTimer
CHECK_DEADLOCK FALSE
