\* Clients and a worker around one process id: every id-reuse policy, stop,
\* RPC, the process timeout, failing APIs with retries and recovery, and a
\* lost acknowledgement.
SPECIFICATION Spec
CONSTANTS
    e1 = e1  e2 = e2  p1 = p1  A = A  B = B  q1 = q1  q2 = q2
    w1 = w1  w2 = w2  c1 = c1
    NoExec = NoExec  NoState = NoState
    ProcessIds = {p1}
    Execs = {e1, e2}
    StateIds = {A, B}
    SkipWaitUntil = {A, B}
    Proceed <- ProceedToB
    Queues = {}
    CommandRequests <- OnlyEmpty
    Decisions <- NextA
    Publications <- NoMessages
    StartPolicies <- AllPolicies
    StartStates = {A, B, NoState}
    StartTimeouts = {TRUE}
    ClientOps = {"Stop", "Rpc"}
    Clients = {c1}
    Workers = {w1}
    MaxSeq = 2
    MaxImmediateTasks = 5
    MaxTimerTasks = 2
    MaxLostAcks = 1
    ApiMayFail = TRUE
SYMMETRY ExecSymmetry
INVARIANTS
    TypeOK
    TasksHaveRows
    OneRunningIsLatest
    SequenceMatchesRows
    PendingIsAlive
    GracefulNeverStuck
    ClosedLeavesNothingPending
PROPERTIES
    ImplementsLifecycle
CHECK_DEADLOCK FALSE
