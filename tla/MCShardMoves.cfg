\* The shard is taken away and given back while tasks are in flight with two
\* workers, and the server may go down.
SPECIFICATION Spec
CONSTANTS
    w1 = w1  w2 = w2
    Workers = {w1, w2}
    BufferSize = 4
    PageSize = 2
    MaxTasks = 2
    MaxGenerations = 3
    ProcessingMayFail = TRUE
SYMMETRY WorkerSymmetry
INVARIANTS
    TypeOK
    PageAccounting
    CompletedPagesAreDone
    PendingIsInFlight
    CursorForgetsNothing
