\* A start that terminates the running execution while one of its state
\* executions is in its WaitUntil API.
SPECIFICATION Spec
CONSTANTS
    e1 = e1  e2 = e2  p1 = p1  A = A  B = B  q1 = q1  q2 = q2
    w1 = w1  w2 = w2  c1 = c1
    NoExec = NoExec  NoState = NoState
    ProcessIds = {p1}
    Execs = {e1, e2}
    StateIds = {A}
    SkipWaitUntil = {}
    Proceed <- FailOnly
    Queues = {}
    CommandRequests <- JustTimer
    Decisions <- JustDone
    Publications <- NoMessages
    StartPolicies = {"TERMINATE_IF_RUNNING"}
    StartStates = {A}
    StartTimeouts = {FALSE}
    ClientOps = {}
    Clients = {}
    Workers = {w1}
    MaxSeq = 1
    MaxImmediateTasks = 8
    MaxTimerTasks = 2
    MaxLostAcks = 0
    ApiMayFail = FALSE
PROPERTIES
    TerminatedStaysTerminated
CHECK_DEADLOCK FALSE
