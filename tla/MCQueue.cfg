\* A queue, its worker and the writers of the table, whose transactions commit
\* in any order: two pages of one row.  The shard is taken away and given back,
\* and the server may go down.  The channel has room for every row that two
\* queues of the shard may send.
SPECIFICATION FairSpec
CONSTANTS
    w1 = w1  w2 = w2
    Workers = {w1}
    BufferSize = 6
    PageSize = 1
    MaxTasks = 2
    MaxGenerations = 3
    ProcessingMayFail = TRUE
PROPERTIES
    EveryTimelyTaskHandled
