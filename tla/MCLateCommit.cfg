\* Two transactions that commit in the opposite order of their sequence numbers.
SPECIFICATION FairSpec
CONSTANTS
    w1 = w1  w2 = w2
    Workers = {w1}
    BufferSize = 2
    PageSize = 2
    MaxTasks = 2
    MaxGenerations = 1
    ProcessingMayFail = FALSE
PROPERTIES
    EveryTaskHandled
