\* Two servers that come and go, one of them wrongly taken for dead or crashed,
\* one shard, a process and two callers that wait for it.
SPECIFICATION Spec
CONSTANTS
    s1 = s1  s2 = s2  h1 = h1  h2 = h2  e1 = e1  e2 = e2  w1 = w1  w2 = w2
    Servers = {s1, s2}
    Shards = {h1}
    Execs = {e1}
    Waiters = {w1, w2}
    ShardOf <- AllOnH1
    Owner <- SmallRing
    NoServer = NoServer
    NoExec = NoExec
    MaxJoins = 2
    MaxFaults = 1
SYMMETRY WaiterSymmetry
INVARIANTS
    TypeOK
    RegistrationsAgree
    PanicOnlyAfterMove
    AnswersAreFinal
    ClosedOnlyAfterSignal
    SignalledWillWake
CHECK_DEADLOCK FALSE
