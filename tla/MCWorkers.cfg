\* Two workers on the state executions of one process, two of which wait for
\* messages of local queues or for a timer: duplicate publications, failing
\* APIs, retries, recovery, crashes, and copies of the same task.
SPECIFICATION Spec
CONSTANTS
    e1 = e1  e2 = e2  p1 = p1  A = A  B = B  q1 = q1  q2 = q2
    w1 = w1  w2 = w2  c1 = c1
    NoExec = NoExec  NoState = NoState
    ProcessIds = {p1}
    Execs = {e1}
    StateIds = {A, B}
    SkipWaitUntil = {B}
    Proceed <- ProceedToB
    Queues = {q1, q2}
    CommandRequests <- AllRequests
    Decisions <- TwiceAOrGraceful
    Publications <- TwoPublications
    StartPolicies = {"DISALLOW_REUSE"}
    StartStates = {B}
    StartTimeouts = {FALSE}
    ClientOps = {"Publish"}
    Clients = {c1}
    Workers = {w1, w2}
    MaxSeq = 2
    MaxImmediateTasks = 6
    MaxTimerTasks = 1
    MaxLostAcks = 0
    ApiMayFail = TRUE
SYMMETRY WorkerSymmetry
INVARIANTS
    NoLostWork
    CommandsBelongToWaiting
    NoSatisfiableCommandWaits
    NothingAwaitedIsLost
PROPERTIES
    MessageInOnePlace
CHECK_DEADLOCK FALSE
