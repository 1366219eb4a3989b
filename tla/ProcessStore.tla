---------------------------- MODULE ProcessStore ----------------------------
(***************************************************************************)
(* The process store of xCherry: the tables the server keeps in its SQL    *)
(* database and every transaction that changes them                        *)
(* (persistence/process), driven by the two kinds of callers they have:    *)
(*                                                                         *)
(*   - the API service, on behalf of clients (service/api): start, stop,   *)
(*     publish to a local queue, RPC;                                      *)
(*   - the workers of the immediate-task and timer-task processors         *)
(*     (engine): they hold a copy of a task row, read what the task is     *)
(*     about, call the application's worker API and commit the outcome.    *)
(*                                                                         *)
(* One action is one transaction, or one read made outside of it: what a   *)
(* caller read (the latest execution of a process id, the status and       *)
(* version of a state execution) may be stale when it commits.  A worker   *)
(* may load any task row at any time, so the same row may be worked on     *)
(* twice, by a new owner of the shard or after a restart.  A commit whose  *)
(* answer is lost is retried like a failed one.                            *)
(*                                                                         *)
(* Fire times, payloads, the application database and local attributes are *)
(* left out; the visibility rows are inserted here and processed elsewhere.*)
(***************************************************************************)
EXTENDS Naturals, FiniteSets, Sequences, LocalQueues

CONSTANTS
    ProcessIds,        \* process ids (namespace included)
    Execs,             \* process execution ids (UUIDs)
    StateIds,          \* ids of the async states of the application
    SkipWaitUntil,     \* the states configured to start at Execute
    Proceed,           \* state -> state to proceed to on failure, or NoState: fail the process
    Queues,            \* local queue names
    CommandRequests,   \* what a WaitUntil API may answer
    Decisions,         \* what an Execute or RPC API may answer
    Publications,      \* the message sequences a call may publish
    StartPolicies,     \* the id-reuse policies clients use
    StartStates,       \* the start states clients use (NoState: none)
    StartTimeouts,     \* whether clients ask for a process timeout
    ClientOps,         \* the calls clients make: "Stop", "Publish", "Rpc"
    Clients, Workers,
    NoExec, NoState,
    MaxSeq,            \* bound: executions per state id
    MaxImmediateTasks, \* bound: immediate tasks ever inserted
    MaxTimerTasks,     \* bound: timer tasks ever inserted
    MaxLostAcks,       \* bound: commits whose answer is lost
    ApiMayFail         \* whether calls of the worker API may fail

ASSUME FiniteAssumption == IsFiniteSet(StateIds) /\ MaxSeq \in Nat
ASSUME BoundAssumption == MaxImmediateTasks \in Nat /\ MaxTimerTasks \in Nat
ASSUME NoneAssumption == NoExec \notin Execs /\ NoState \notin StateIds
ASSUME ConfigAssumption ==
    /\ SkipWaitUntil \subseteq StateIds
    /\ Proceed \in [StateIds -> StateIds \cup {NoState}]
    /\ StartStates \subseteq StateIds \cup {NoState}
ASSUME CommandAssumption ==
    \A req \in CommandRequests :
        /\ req.timers \in Nat
        /\ req.queues \in Seq([queue : Queues, count : Nat])
ASSUME PublicationAssumption ==
    \A ms \in Publications : ms \in Seq(Range(ms)) /\ \A m \in Range(ms) : m.queue \in Queues
(* decision.ValidateDecision: a decision goes to next states or closes.    *)
(* next counts the next states per id: one id may be started repeatedly.   *)
ASSUME DecisionAssumption ==
    \A d \in Decisions :
        /\ d.next \in [StateIds -> Nat]
        /\ d.close \in {"NONE", "DEAD_END", "GRACEFUL_COMPLETE_PROCESS",
                        "FORCE_COMPLETE_PROCESS", "FORCE_FAIL_PROCESS"}
        /\ d.close # "NONE" => d.next = [id \in StateIds |-> 0]

VARIABLES
    latest,    \* table latest_process_executions: process id -> execution
    prc,       \* table process_executions, without the local queues
    lq,        \* its column state_execution_local_queues
    st,        \* table async_state_executions
    messages,  \* table local_queue_messages: the messages published so far
    imm, tim,  \* tables immediate_tasks and timer_tasks: sets of rows
    immSeq, timSeq,  \* their bigserial counters
    worker,    \* what each processor worker is doing
    client,    \* what each API call in flight is doing
    lostAcks   \* how many commits were not acknowledged

vars == <<latest, prc, lq, st, messages, imm, tim, immSeq, timSeq, worker, client, lostAcks>>
-----------------------------------------------------------------------------
StateExecIds == StateIds \X (1..MaxSeq)

ProcessStatus == {"None", "Running", "Completed", "Failed", "Timeout", "Terminated"}
Closed == ProcessStatus \ {"None", "Running"}

(* The states a batch abort aborts: status < 4 in the SQL. *)
ActiveStates == {"WaitUntilRunning", "WaitUntilWaiting", "ExecuteRunning"}
StateStatus == ActiveStates \cup {"None", "Completed", "Failed", "Aborted"}

EmptyCommand == [waitingType |-> "EMPTY_COMMAND", queues |-> <<>>, timers |-> 0]

NoPrc == [status |-> "None", pid |-> NoExec, graceful |-> FALSE,
          seq |-> [id \in StateIds |-> 0], pending |-> {}]

NoRow == [status |-> "None", version |-> 0, config |-> NoState,
          command |-> EmptyCommand, queueResults |-> <<>>, timerResults |-> {}]

Task(type, e, s, info) == [type |-> type, exec |-> e, sid |-> s, info |-> info]

NoTask == [seq |-> 0, task |-> Task("None", NoExec, NoState, 0)]
Idle == [pc |-> "idle", row |-> NoTask, version |-> 0, target |-> NoExec]
IdleClient == [pc |-> "idle", target |-> NoExec]
-----------------------------------------------------------------------------
(* Rows are inserted with the next numbers of the table's sequence. *)
Numbered(base, tasks) ==
    LET order == SetToSeq(tasks)
    IN  {[seq |-> base + i, task |-> order[i]] : i \in 1..Cardinality(tasks)}

Without(rows, row) == {r \in rows : r.seq # row.seq}

(* Insert new tasks next to the rows that are kept. *)
WriteImmediate(new, kept) ==
    /\ immSeq + Cardinality(new) <= MaxImmediateTasks
    /\ imm' = kept \cup Numbered(immSeq, new)
    /\ immSeq' = immSeq + Cardinality(new)

WriteTimers(new, kept) ==
    /\ timSeq + Cardinality(new) <= MaxTimerTasks
    /\ tim' = kept \cup Numbered(timSeq, new)
    /\ timSeq' = timSeq + Cardinality(new)

VisibilityTask(e, status) == Task("Visibility", e, NoState, status)

(* insertImmediateTask: the first task of a new state execution. *)
FirstTask(e, s) ==
    Task(IF s[1] \in SkipWaitUntil THEN "Execute" ELSE "WaitUntil", e, s, 0)

(* insertAsyncStateExecution; config names the state whose configuration   *)
(* the row carries.                                                        *)
NewStateRow(s, config) ==
    [status       |-> IF s[1] \in SkipWaitUntil THEN "ExecuteRunning" ELSE "WaitUntilRunning",
     version      |-> 1,
     config       |-> config,
     command      |-> EmptyCommand,
     queueResults |-> <<>>,
     timerResults |-> {}]

(* UpdateAsyncStateExecution... : a conditional update bumps the version. *)
WithStatus(row, status) == [row EXCEPT !.status = status, !.version = row.version + 1]

(* BatchUpdateAsyncStateExecutionsToAbortRunning *)
AbortRunning(rows) ==
    [s \in StateExecIds |-> IF rows[s].status \in ActiveStates
                            THEN WithStatus(rows[s], "Aborted") ELSE rows[s]]

(* Faulty variant: the range starts at the last number handed out. *)
StartedFromLast(row, next) ==
    {s \in StateExecIds : /\ next[s[1]] > 0
                          /\ row.seq[s[1]] <= s[2] /\ s[2] <= row.seq[s[1]] + next[s[1]]}

(* StartNewStateExecution, for next[id] executions of every state id. *)
Started(row, next) ==
    {s \in StateExecIds : row.seq[s[1]] < s[2] /\ s[2] <= row.seq[s[1]] + next[s[1]]}

(* Faulty variant: the sequence is not advanced. *)
StartNewStatesSameSeq(row, next) == [row EXCEPT !.pending = row.pending \cup Started(row, next)]

StartNewStates(row, next) ==
    [row EXCEPT !.seq = [id \in StateIds |-> row.seq[id] + next[id]],
                !.pending = row.pending \cup Started(row, next)]

SeqInBound(row, next) == \A id \in StateIds : row.seq[id] + next[id] <= MaxSeq

(* Faulty variant: the completed state stays pending. *)
CompleteStateKept(row, s) == row

(* CompleteNewStateExecution; the caller checks that s is pending. *)
CompleteState(row, s) == [row EXCEPT !.pending = row.pending \ {s}]

Once(id) == [x \in StateIds |-> IF x = id THEN 1 ELSE 0]

(***************************************************************************)
(* handleStateDecision: start the next states, then close the process if   *)
(* the decision, or an earlier request to complete gracefully, says so.    *)
(***************************************************************************)
IsForced(d) == d.close \in {"FORCE_COMPLETE_PROCESS", "FORCE_FAIL_PROCESS"}

(* Faulty variant: an earlier graceful completion is forgotten. *)
GracefulForgotten(row) == FALSE

GracefulDone(row) == row.graceful /\ row.pending = {}

ApplyDecision(row, d) ==
    LET r == StartNewStates(row, d.next)
    IN  CASE GracefulDone(r) ->
                [r EXCEPT !.status = "Completed"]
          [] ~GracefulDone(r) /\ d.close = "GRACEFUL_COMPLETE_PROCESS" ->
                [r EXCEPT !.graceful = TRUE, !.status = IF r.pending = {} THEN "Completed" ELSE r.status]
          [] ~GracefulDone(r) /\ IsForced(d) ->
                [r EXCEPT !.pending = {},
                          !.status = IF d.close = "FORCE_FAIL_PROCESS" THEN "Failed" ELSE "Completed"]
          [] OTHER -> r

(* Faulty variant: the rows of the next states are not inserted. *)
RowsNotInserted(rows, row, d) == rows

(* The state rows after the decision, given the rows before it. *)
RowsAfterDecision(rows, row, d) ==
    LET r       == StartNewStates(row, d.next)
        started == [s \in StateExecIds |-> IF s \in Started(row, d.next)
                                           THEN NewStateRow(s, s[1]) ELSE rows[s]]
    IN  IF ~GracefulDone(r) /\ IsForced(d) /\ r.pending # {}
        THEN AbortRunning(started) ELSE started

DecisionTasks(e, row, d) == {FirstTask(e, s) : s \in Started(row, d.next)}

(* Faulty variant: known messages are published again. *)
AllMessages(e, ms) == ms

(* publishToLocalQueue: a message whose dedup id is known is dropped; the  *)
(* others become rows and one task.                                        *)
FreshMessages(e, ms) ==
    LET fresh[i \in 0..Len(ms)] ==
            IF i = 0 THEN <<>>
            ELSE LET before == fresh[i - 1]
                 IN  IF \E x \in messages[e] \cup Range(before) : x.id = ms[i].id
                     THEN before ELSE Append(before, ms[i])
    IN  fresh[Len(ms)]

PublishTasks(e, ms) ==
    IF FreshMessages(e, ms) = <<>> THEN {}
    ELSE {Task("NewLocalQueueMessages", e, NoState, FreshMessages(e, ms))}

Publish(e, ms) == messages' = [messages EXCEPT ![e] = @ \cup Range(FreshMessages(e, ms))]

(* Faulty variant: the pending map is not reset. *)
StoppedPrcPending(row, status) == [row EXCEPT !.status = status]

StoppedPrc(row, status) == [row EXCEPT !.status = status, !.pending = {}]

(* doStopProcessTx, once the latest execution has been read and locked. *)
StopExecution(e, status) ==
    IF prc[e].status = "Running"
    THEN /\ prc' = [prc EXCEPT ![e] = StoppedPrc(prc[e], status)]
         /\ st' = IF prc[e].pending = {} THEN st ELSE [st EXCEPT ![e] = AbortRunning(st[e])]
         /\ WriteImmediate({VisibilityTask(e, status)}, imm)
    ELSE UNCHANGED <<prc, st, imm, immSeq>>
-----------------------------------------------------------------------------
(***************************************************************************)
(* StartProcess.  Every policy locks the row of the process id in          *)
(* latest_process_executions, so that starts of one id are serialised; of  *)
(* two concurrent first starts one fails on the primary key.               *)
(***************************************************************************)
StartAllowed(policy, old) ==
    old # NoExec =>
        CASE policy = "ALLOW_IF_NO_RUNNING"               -> prc[old].status # "Running"
          [] policy = "ALLOW_IF_PREVIOUS_EXIT_ABNORMALLY" -> prc[old].status \notin {"Running", "Completed"}
          [] policy = "TERMINATE_IF_RUNNING"              -> TRUE
          [] OTHER                                        -> FALSE

NewPrc(p, start) ==
    LET row == [NoPrc EXCEPT !.status = "Running", !.pid = p]
    IN  IF start = NoState THEN row ELSE StartNewStates(row, Once(start))

(* Faulty variant: the old execution goes on. *)
NotTerminatedPrc(row) == row

(* The process row TERMINATE_IF_RUNNING leaves behind: its pending states  *)
(* stay in the row.                                                        *)
TerminatedPrc(row) == IF row.status = "Running" THEN [row EXCEPT !.status = "Terminated"] ELSE row

StartProcess(p, policy, start, hasTimeout) ==
    LET old        == latest[p]
        replaces   == policy = "TERMINATE_IF_RUNNING" /\ old # NoExec
        terminates == replaces /\ prc[old].status = "Running"
        first      == IF start = NoState THEN {} ELSE {<<start, 1>>}
    IN  /\ StartAllowed(policy, old)
        /\ \E e \in Execs :
              /\ prc[e].status = "None"
              /\ latest' = [latest EXCEPT ![p] = e]
              /\ prc' = [x \in Execs |-> IF x = e THEN NewPrc(p, start)
                                         ELSE IF replaces /\ x = old THEN TerminatedPrc(prc[x])
                                         ELSE prc[x]]
              /\ st' = [x \in Execs |->
                          IF x = e THEN [s \in StateExecIds |-> IF s \in first THEN NewStateRow(s, s[1]) ELSE NoRow]
                          ELSE IF replaces /\ x = old THEN AbortRunning(st[x])
                          ELSE st[x]]
              /\ lq' = [lq EXCEPT ![e] = NewLocalQueues(StateExecIds, Queues)]
              /\ WriteImmediate({FirstTask(e, s) : s \in first}
                                 \cup {VisibilityTask(e, "Running")}
                                 \cup (IF terminates THEN {VisibilityTask(old, "Terminated")} ELSE {}), imm)
              /\ WriteTimers(IF hasTimeout THEN {Task("ProcessTimeout", e, NoState, 0)} ELSE {}, tim)
        /\ MaxSeq > 0
        /\ UNCHANGED <<messages, worker, client, lostAcks>>

(***************************************************************************)
(* Stop, publish and RPC first read the latest execution of the process    *)
(* id outside of the transaction, then lock and check THAT execution.      *)
(***************************************************************************)
(* Faulty variant: a process id without an execution is not refused. *)
ReadLatestUnchecked(c, op, p) ==
    /\ client[c].pc = "idle"
    /\ client' = [client EXCEPT ![c] = [pc |-> op, target |-> latest[p]]]
    /\ UNCHANGED <<latest, prc, lq, st, messages, imm, tim, immSeq, timSeq, worker, lostAcks>>

ReadLatest(c, op, p) ==
    /\ client[c].pc = "idle"
    /\ latest[p] # NoExec
    /\ client' = [client EXCEPT ![c] = [pc |-> op, target |-> latest[p]]]
    /\ UNCHANGED <<latest, prc, lq, st, messages, imm, tim, immSeq, timSeq, worker, lostAcks>>

StopProcess(c) ==
    /\ client[c].pc = "Stop"
    /\ \E status \in {"Failed", "Terminated"} : StopExecution(client[c].target, status)
    /\ client' = [client EXCEPT ![c] = IdleClient]
    /\ UNCHANGED <<latest, lq, messages, tim, timSeq, worker, lostAcks>>

PublishToLocalQueue(c) ==
    LET e == client[c].target
    IN  /\ client[c].pc = "Publish"
        /\ \/ /\ prc[e].status # "Running"
              /\ UNCHANGED <<messages, imm, immSeq>>
           \/ /\ prc[e].status = "Running"
              /\ \E ms \in Publications : Publish(e, ms) /\ WriteImmediate(PublishTasks(e, ms), imm)
        /\ client' = [client EXCEPT ![c] = IdleClient]
        /\ UNCHANGED <<latest, prc, lq, st, tim, timSeq, worker, lostAcks>>

(* UpdateProcessExecutionForRpc: unlike the other ways to close a process  *)
(* it inserts no visibility task.                                          *)
UpdateProcessExecutionForRpc(c) ==
    LET e == client[c].target
    IN  /\ client[c].pc = "Rpc"
        /\ \/ /\ prc[e].status # "Running"
              /\ UNCHANGED <<prc, st, messages, imm, immSeq>>
           \/ /\ prc[e].status = "Running"
              /\ \E d \in Decisions, ms \in Publications :
                    /\ SeqInBound(prc[e], d.next)
                    /\ prc' = [prc EXCEPT ![e] = ApplyDecision(prc[e], d)]
                    /\ st' = [st EXCEPT ![e] = RowsAfterDecision(st[e], prc[e], d)]
                    /\ Publish(e, ms)
                    /\ WriteImmediate(DecisionTasks(e, prc[e], d) \cup PublishTasks(e, ms), imm)
        /\ client' = [client EXCEPT ![c] = IdleClient]
        /\ UNCHANGED <<latest, lq, tim, timSeq, worker, lostAcks>>

(* A call fails before it commits anything. *)
ClientFails(c) ==
    /\ client[c].pc # "idle"
    /\ client' = [client EXCEPT ![c] = IdleClient]
    /\ UNCHANGED <<latest, prc, lq, st, messages, imm, tim, immSeq, timSeq, worker, lostAcks>>
-----------------------------------------------------------------------------
(***************************************************************************)
(* The processors' workers.  pc is "immediate" or "timer" when the worker  *)
(* holds a row, "waitUntil" or "execute" once it has prepared the state    *)
(* execution and called the API, "failing", "checked" or "timingOut" on    *)
(* the way to stopping the process.                                        *)
(***************************************************************************)
Holding(w, pc) == [Idle EXCEPT !.pc = pc, !.row = worker[w].row]

Requeued(w) ==
    IF worker[w].pc \in {"timer", "checked", "timingOut"} THEN Holding(w, "timer")
                                                          ELSE Holding(w, "immediate")

(* The transaction committed; if the answer is lost the worker sees an     *)
(* error and puts the task back.                                           *)
Acknowledged(w) ==
    \/ /\ worker' = [worker EXCEPT ![w] = Idle]
       /\ UNCHANGED lostAcks
    \/ /\ lostAcks < MaxLostAcks
       /\ lostAcks' = lostAcks + 1
       /\ worker' = [worker EXCEPT ![w] = Requeued(w)]

LoadImmediateTask(w) ==
    /\ worker[w].pc = "idle"
    /\ \E r \in imm : /\ r.task.type # "Visibility"
                      /\ worker' = [worker EXCEPT ![w] = [Idle EXCEPT !.pc = "immediate", !.row = r]]
    /\ UNCHANGED <<latest, prc, lq, st, messages, imm, tim, immSeq, timSeq, client, lostAcks>>

LoadTimerTask(w) ==
    /\ worker[w].pc = "idle"
    /\ \E r \in tim : worker' = [worker EXCEPT ![w] = [Idle EXCEPT !.pc = "timer", !.row = r]]
    /\ UNCHANGED <<latest, prc, lq, st, messages, imm, tim, immSeq, timSeq, client, lostAcks>>

(* The server dies, the shard moves away, or any error that commits        *)
(* nothing: a failed conditional update, a state that is not pending, an   *)
(* application-database write error, an expired context.                   *)
Crash(w) ==
    /\ worker[w].pc # "idle"
    /\ worker' = [worker EXCEPT ![w] = Idle]
    /\ UNCHANGED <<latest, prc, lq, st, messages, imm, tim, immSeq, timSeq, client, lostAcks>>

Requeue(w) ==
    /\ worker[w].pc \in {"waitUntil", "execute", "failing", "checked", "timingOut"}
    /\ worker' = [worker EXCEPT ![w] = Requeued(w)]
    /\ UNCHANGED <<latest, prc, lq, st, messages, imm, tim, immSeq, timSeq, client, lostAcks>>

(* PrepareStateExecution, and processImmediateTask's dispatch on the       *)
(* status it read.  Any other status is a no-op that leaves the row.       *)
PrepareStateExecution(w) ==
    LET t   == worker[w].row.task
        row == st[t.exec][t.sid]
    IN  /\ worker[w].pc = "immediate"
        /\ t.type \in {"WaitUntil", "Execute"}
        /\ worker' = [worker EXCEPT ![w] =
              CASE row.status = "WaitUntilRunning" -> [Holding(w, "waitUntil") EXCEPT !.version = row.version]
                [] row.status = "ExecuteRunning"   -> [Holding(w, "execute") EXCEPT !.version = row.version]
                [] OTHER -> Idle]
        /\ UNCHANGED <<latest, prc, lq, st, messages, imm, tim, immSeq, timSeq, client, lostAcks>>

HasCompletedWaitUntilWaiting(row) ==
    LET done == Cardinality(DOMAIN row.queueResults) + Cardinality(row.timerResults)
    IN  CASE row.command.waitingType = "ANY_OF_COMPLETION" -> done > 0
          [] row.command.waitingType = "ALL_OF_COMPLETION" -> done = Len(row.command.queues) + row.command.timers
          [] OTHER -> TRUE

(* updateCommandResultsWithNewlyConsumedLocalQueueMessages *)
WithResults(row, got) ==
    [row EXCEPT !.queueResults =
        [i \in DOMAIN got \cup DOMAIN row.queueResults |->
            IF i \in DOMAIN got THEN got[i] ELSE row.queueResults[i]]]

ExecuteTask(e, s) == Task("Execute", e, s, 0)

(* The condition of every conditional update of a state row. *)
NotModified(w) ==
    st[worker[w].row.task.exec][worker[w].row.task.sid].version = worker[w].version

(* completeWaitUntilExecution: the API asked for no command. *)
CompleteWaitUntil(w) ==
    LET t == worker[w].row.task
    IN  /\ worker[w].pc = "waitUntil"
        /\ EmptyCommand \in CommandRequests
        /\ NotModified(w)
        /\ \E ms \in Publications :
              /\ st' = [st EXCEPT ![t.exec][t.sid] = WithStatus(st[t.exec][t.sid], "ExecuteRunning")]
              /\ Publish(t.exec, ms)
              /\ WriteImmediate({ExecuteTask(t.exec, t.sid)} \cup PublishTasks(t.exec, ms),
                                Without(imm, worker[w].row))
        /\ Acknowledged(w)
        /\ UNCHANGED <<latest, prc, lq, tim, timSeq, client>>

(***************************************************************************)
(* updateWaitUntilExecution: register the commands, consume what is there. *)
(* The row is read again under its lock and set to WaitUntilWaiting        *)
(* whatever its status and version have become since it was prepared.      *)
(***************************************************************************)
Registered(e, s, req) ==
    IF req.queues = <<>> THEN {[q |-> lq[e], got |-> <<>>]}
    ELSE TryConsumeForStateExecution(
             AddNewLocalQueueCommands(lq[e], s, req.queues), s, req.waitingType)

UpdateWaitUntil(w) ==
    LET e == worker[w].row.task.exec
        s == worker[w].row.task.sid
    IN  /\ worker[w].pc = "waitUntil"
        /\ \E req \in CommandRequests \ {EmptyCommand}, ms \in Publications :
            \E o \in Registered(e, s, req) :
              LET row  == WithResults([st[e][s] EXCEPT !.command = req], o.got)
                  done == req.queues # <<>> /\ HasCompletedWaitUntilWaiting(row)
              IN  /\ st' = [st EXCEPT ![e][s] =
                              WithStatus(row, IF done THEN "ExecuteRunning" ELSE "WaitUntilWaiting")]
                  /\ lq' = [lq EXCEPT ![e] = IF done THEN CleanupFor(o.q, s) ELSE o.q]
                  /\ WriteTimers({Task("TimerCommand", e, s, i) : i \in 1..req.timers}, tim)
                  /\ Publish(e, ms)
                  /\ WriteImmediate((IF done THEN {ExecuteTask(e, s)} ELSE {}) \cup PublishTasks(e, ms),
                                    Without(imm, worker[w].row))
        /\ Acknowledged(w)
        /\ UNCHANGED <<latest, prc, client>>

(* CompleteExecuteExecution: the status of the process is not checked. *)
CompleteExecuteExecution(w) ==
    LET e   == worker[w].row.task.exec
        s   == worker[w].row.task.sid
        row == CompleteState(prc[e], s)
    IN  /\ worker[w].pc = "execute"
        /\ NotModified(w)
        /\ s \in prc[e].pending
        /\ \E d \in Decisions, ms \in Publications :
              LET new == ApplyDecision(row, d)
              IN  /\ SeqInBound(row, d.next)
                  /\ prc' = [prc EXCEPT ![e] = new]
                  /\ st' = [st EXCEPT ![e] = RowsAfterDecision(
                               [st[e] EXCEPT ![s] = WithStatus(st[e][s], "Completed")], row, d)]
                  /\ Publish(e, ms)
                  /\ WriteImmediate(DecisionTasks(e, row, d) \cup PublishTasks(e, ms)
                           \cup (IF new.status # "Running" THEN {VisibilityTask(e, new.status)} ELSE {}),
                                    Without(imm, worker[w].row))
        /\ Acknowledged(w)
        /\ UNCHANGED <<latest, lq, tim, timSeq, client>>

(***************************************************************************)
(* The worker API failed.  Whether attempts are left (checkRetry) depends  *)
(* on time and counts that are left out: both may be the case.             *)
(***************************************************************************)
ApiFailed(w) == ApiMayFail /\ worker[w].pc \in {"waitUntil", "execute"}

(* The status the worker read before the call, handed on by retryTask. *)
PreparedStatus(w) == IF worker[w].pc = "waitUntil" THEN "WaitUntilRunning" ELSE "ExecuteRunning"

(* Faulty variant: the timer is of another type. *)
BackoffTimerWrongType(t) == Task("TimerCommand", t.exec, t.sid, t.type)

BackoffTimer(t) == Task("WorkerTaskBackoff", t.exec, t.sid, t.type)

BackoffImmediateTask(w) ==
    LET t == worker[w].row.task
    IN  /\ ApiFailed(w)
        /\ NotModified(w)
        /\ st' = [st EXCEPT ![t.exec][t.sid] = WithStatus(st[t.exec][t.sid], PreparedStatus(w))]
        /\ WriteTimers({BackoffTimer(t)}, tim)
        /\ imm' = Without(imm, worker[w].row)
        /\ Acknowledged(w)
        /\ UNCHANGED <<latest, prc, lq, messages, immSeq, client>>

(* FAIL_PROCESS_ON_STATE_FAILURE: StopProcess by process id, which reads   *)
(* the latest execution first.                                             *)
FailProcess(w) ==
    LET t == worker[w].row.task
    IN  /\ ApiFailed(w)
        /\ Proceed[st[t.exec][t.sid].config] = NoState
        /\ worker' = [worker EXCEPT ![w] =
                         [Holding(w, "failing") EXCEPT !.target = latest[prc[t.exec].pid]]]
        /\ UNCHANGED <<latest, prc, lq, st, messages, imm, tim, immSeq, timSeq, client, lostAcks>>

FailProcessCommit(w) ==
    /\ worker[w].pc = "failing"
    /\ StopExecution(worker[w].target, "Failed")
    /\ Acknowledged(w)
    /\ UNCHANGED <<latest, lq, messages, tim, timSeq, client>>

(* PROCEED_TO_CONFIGURED_STATE: the new row carries the configuration of   *)
(* the failed state, and the task row of the failed state is left.         *)
RecoverFromStateExecutionFailure(w) ==
    LET e    == worker[w].row.task.exec
        s    == worker[w].row.task.sid
        dest == Proceed[st[e][s].config]
        row  == CompleteState(prc[e], s)
        new  == Started(row, Once(dest))
    IN  /\ ApiFailed(w)
        /\ dest # NoState
        /\ NotModified(w)
        /\ s \in prc[e].pending
        /\ SeqInBound(row, Once(dest))
        /\ prc' = [prc EXCEPT ![e] = StartNewStates(row, Once(dest))]
        /\ st' = [st EXCEPT ![e] = [x \in StateExecIds |->
                     IF x \in new THEN NewStateRow(x, st[e][s].config)
                     ELSE IF x = s THEN WithStatus(st[e][s], "Failed")
                     ELSE st[e][x]]]
        /\ WriteImmediate({FirstTask(e, x) : x \in new}, imm)
        /\ Acknowledged(w)
        /\ UNCHANGED <<latest, lq, messages, tim, timSeq, client>>

(***************************************************************************)
(* ProcessLocalQueueMessages: hand the messages to the waiting commands.   *)
(* Neither the status of the process nor that of the state is checked;     *)
(* only a state without a row fails the transaction.                       *)
(***************************************************************************)
ProcessLocalQueueMessages(w) ==
    LET e == worker[w].row.task.exec
    IN  /\ worker[w].pc = "immediate"
        /\ worker[w].row.task.type = "NewLocalQueueMessages"
        /\ \E o \in AddMessages(lq[e], worker[w].row.task.info) :
              LET assigned == {x[1] : x \in DOMAIN o.got}
                  got(s)   == [i \in {x[2] : x \in {y \in DOMAIN o.got : y[1] = s}} |-> o.got[<<s, i>>]]
                  row(s)   == WithResults(st[e][s], got(s))
                  done     == {s \in assigned : HasCompletedWaitUntilWaiting(row(s))}
              IN  /\ assigned \subseteq {s \in StateExecIds : st[e][s].status # "None"}
                  /\ st' = [st EXCEPT ![e] = [s \in StateExecIds |->
                              IF s \in done THEN WithStatus(row(s), "ExecuteRunning")
                              ELSE IF s \in assigned THEN WithStatus(row(s), st[e][s].status)
                              ELSE st[e][s]]]
                  /\ lq' = [lq EXCEPT ![e] = [o.q EXCEPT !.cmds =
                              [s \in DOMAIN o.q.cmds |-> IF s \in done THEN NoCommands ELSE o.q.cmds[s]]]]
                  /\ WriteImmediate({ExecuteTask(e, s) : s \in done}, Without(imm, worker[w].row))
        /\ Acknowledged(w)
        /\ UNCHANGED <<latest, prc, messages, tim, timSeq, client>>

(* ConvertTimerTaskToImmediateTask: the backoff is over. *)
ConvertTimerTaskToImmediateTask(w) ==
    LET t == worker[w].row.task
    IN  /\ worker[w].pc = "timer"
        /\ t.type = "WorkerTaskBackoff"
        /\ WriteImmediate({Task(t.info, t.exec, t.sid, 0)}, imm)
        /\ tim' = Without(tim, worker[w].row)
        /\ Acknowledged(w)
        /\ UNCHANGED <<latest, prc, lq, st, messages, timSeq, client>>

(* ProcessTimerTaskForTimerCommand.  A state that is not waiting any more  *)
(* is left alone, and so is the timer row.                                 *)
ProcessTimerTaskForTimerCommand(w) ==
    LET e    == worker[w].row.task.exec
        s    == worker[w].row.task.sid
        row  == [st[e][s] EXCEPT !.timerResults = st[e][s].timerResults \cup {worker[w].row.task.info}]
        done == HasCompletedWaitUntilWaiting(row)
    IN  /\ worker[w].pc = "timer"
        /\ worker[w].row.task.type = "TimerCommand"
        /\ \/ /\ st[e][s].status # "WaitUntilWaiting"
              /\ UNCHANGED <<st, lq, imm, immSeq, tim>>
           \/ /\ st[e][s].status = "WaitUntilWaiting"
              /\ st' = [st EXCEPT ![e][s] =
                           WithStatus(row, IF done THEN "ExecuteRunning" ELSE "WaitUntilWaiting")]
              /\ lq' = [lq EXCEPT ![e] = IF done THEN CleanupFor(lq[e], s) ELSE lq[e]]
              /\ WriteImmediate(IF done THEN {ExecuteTask(e, s)} ELSE {}, imm)
              /\ tim' = Without(tim, worker[w].row)
        /\ Acknowledged(w)
        /\ UNCHANGED <<latest, prc, messages, timSeq, client>>

(***************************************************************************)
(* ProcessTimerTaskForProcessTimeout: look, without a lock, whether the    *)
(* execution of the timer still runs; if so stop the process by its        *)
(* process id, that is, read the latest execution and stop that one.       *)
(***************************************************************************)
CheckProcessTimeout(w) ==
    LET e == worker[w].row.task.exec
    IN  /\ worker[w].pc = "timer"
        /\ worker[w].row.task.type = "ProcessTimeout"
        /\ \/ /\ prc[e].status # "Running"
              /\ tim' = Without(tim, worker[w].row)
              /\ Acknowledged(w)
           \/ /\ prc[e].status = "Running"
              /\ worker' = [worker EXCEPT ![w] = Holding(w, "checked")]
              /\ UNCHANGED <<tim, lostAcks>>
        /\ UNCHANGED <<latest, prc, lq, st, messages, imm, immSeq, timSeq, client>>

ReadLatestForTimeout(w) ==
    /\ worker[w].pc = "checked"
    /\ worker' = [worker EXCEPT ![w] = [Holding(w, "timingOut") EXCEPT
                      !.target = latest[prc[worker[w].row.task.exec].pid]]]
    /\ UNCHANGED <<latest, prc, lq, st, messages, imm, tim, immSeq, timSeq, client, lostAcks>>

ProcessTimeoutCommit(w) ==
    /\ worker[w].pc = "timingOut"
    /\ StopExecution(worker[w].target, "Timeout")
    /\ tim' = Without(tim, worker[w].row)
    /\ Acknowledged(w)
    /\ UNCHANGED <<latest, lq, messages, timSeq, client>>
-----------------------------------------------------------------------------
Init ==
    /\ latest = [p \in ProcessIds |-> NoExec]
    /\ prc = [e \in Execs |-> NoPrc]
    /\ lq = [e \in Execs |-> NewLocalQueues(StateExecIds, Queues)]
    /\ st = [e \in Execs |-> [s \in StateExecIds |-> NoRow]]
    /\ messages = [e \in Execs |-> {}]
    /\ imm = {} /\ tim = {}
    /\ immSeq = 0 /\ timSeq = 0
    /\ worker = [w \in Workers |-> Idle]
    /\ client = [c \in Clients |-> IdleClient]
    /\ lostAcks = 0

ClientStep(c) ==
    \/ \E op \in ClientOps, p \in ProcessIds : ReadLatest(c, op, p)
    \/ StopProcess(c)
    \/ PublishToLocalQueue(c)
    \/ UpdateProcessExecutionForRpc(c)
    \/ ClientFails(c)

ImmediateStep(w) ==
    \/ LoadImmediateTask(w)
    \/ PrepareStateExecution(w)
    \/ CompleteWaitUntil(w)
    \/ UpdateWaitUntil(w)
    \/ CompleteExecuteExecution(w)
    \/ ProcessLocalQueueMessages(w)

FailureStep(w) ==
    \/ BackoffImmediateTask(w)
    \/ FailProcess(w)
    \/ FailProcessCommit(w)
    \/ RecoverFromStateExecutionFailure(w)
    \/ Requeue(w)
    \/ Crash(w)

TimerStep(w) ==
    \/ LoadTimerTask(w)
    \/ ConvertTimerTaskToImmediateTask(w)
    \/ ProcessTimerTaskForTimerCommand(w)
    \/ CheckProcessTimeout(w)
    \/ ReadLatestForTimeout(w)
    \/ ProcessTimeoutCommit(w)

Next ==
    \/ \E p \in ProcessIds, policy \in StartPolicies, start \in StartStates, hasTimeout \in StartTimeouts :
          StartProcess(p, policy, start, hasTimeout)
    \/ \E c \in Clients : ClientStep(c)
    \/ \E w \in Workers : ImmediateStep(w) \/ FailureStep(w) \/ TimerStep(w)

Spec == Init /\ [][Next]_vars
-----------------------------------------------------------------------------
(* Type invariant: the shape of the tables and of the callers' state.      *)
PrcRow == [status : ProcessStatus, pid : ProcessIds \cup {NoExec}, graceful : BOOLEAN,
           seq : [StateIds -> 0..MaxSeq], pending : SUBSET StateExecIds]

TypedState(row) ==
    /\ DOMAIN row = {"status", "version", "config", "command", "queueResults", "timerResults"}
    /\ row.status \in StateStatus
    /\ row.version \in Nat
    /\ row.config \in StateIds \cup {NoState}
    /\ row.status # "None" => row.config \in StateIds

StateTasks == {"WaitUntil", "Execute", "TimerCommand", "WorkerTaskBackoff"}

TypedTask(r, max) ==
    /\ r.seq \in 1..max
    /\ r.task.exec \in Execs
    /\ r.task.type \in StateTasks => r.task.sid \in StateExecIds

TypedWorker(x) ==
    /\ x.pc \in {"idle", "immediate", "waitUntil", "execute", "failing", "timer", "checked", "timingOut"}
    /\ x.pc \in {"immediate", "waitUntil", "execute", "failing"} => TypedTask(x.row, immSeq)
    /\ x.pc \in {"waitUntil", "execute"} => x.row.task.type \in {"WaitUntil", "Execute"}
    /\ x.pc \in {"timer", "checked", "timingOut"} => TypedTask(x.row, timSeq)
    /\ x.pc \in {"failing", "timingOut"} => x.target \in Execs

TypeOK ==
    /\ latest \in [ProcessIds -> Execs \cup {NoExec}]
    /\ prc \in [Execs -> PrcRow]
    /\ st = [e \in Execs |-> [s \in StateExecIds |-> st[e][s]]]
    /\ \A e \in Execs, s \in StateExecIds : TypedState(st[e][s])
    /\ immSeq \in Nat /\ timSeq \in Nat
    /\ \A r \in imm : TypedTask(r, immSeq)
    /\ \A r \in tim : TypedTask(r, timSeq)
    /\ worker = [w \in Workers |-> worker[w]]
    /\ \A w \in Workers : TypedWorker(worker[w])
    /\ client = [c \in Clients |-> client[c]]
    /\ \A c \in Clients : client[c].pc # "idle" => client[c].target \in Execs

(* No caller ever meets a missing row: the tasks in the tables and in the  *)
(* hands of workers are about executions and state executions that exist,  *)
(* and a process id that has an execution has a latest one.                *)
HasRows(t) ==
    /\ prc[t.exec].status # "None"
    /\ t.type \in StateTasks => st[t.exec][t.sid].status # "None"

TasksHaveRows ==
    /\ \A r \in imm \cup tim : HasRows(r.task)
    /\ \A w \in Workers : worker[w].pc # "idle" => HasRows(worker[w].row.task)
    /\ \A e \in Execs : prc[e].status # "None" =>
          prc[e].pid \in ProcessIds /\ latest[prc[e].pid] # NoExec

(* At most one execution of a process id runs, and it is the one that the  *)
(* latest-execution table names, the only one stop, publish and RPC reach: *)
(* no id-reuse policy may leave a running execution behind.                *)
OneRunningIsLatest ==
    \A e \in Execs : prc[e].status = "Running" => latest[prc[e].pid] = e

(* State execution ids are never reused: the rows of an execution are      *)
(* exactly the ids its sequence map has handed out, and only such an id is *)
(* pending, so insertAsyncStateExecution never meets an existing key.      *)
SequenceMatchesRows ==
    \A e \in Execs : \A s \in StateExecIds :
        /\ st[e][s].status # "None" <=> s[2] <= prc[e].seq[s[1]]
        /\ s \in prc[e].pending => s[2] <= prc[e].seq[s[1]]

(* Work survives every crash: a state execution that is due to run its     *)
(* WaitUntil or Execute API has an immediate task, or a backoff timer that *)
(* will become one, in the database, whoever holds or has dropped copies.  *)
NoLostWork ==
    \A e \in Execs : \A s \in StateExecIds :
        st[e][s].status \in {"WaitUntilRunning", "ExecuteRunning"} =>
            \/ \E r \in imm : r.task.type \in {"WaitUntil", "Execute"} /\ r.task.exec = e /\ r.task.sid = s
            \/ \E r \in tim : r.task.type = "WorkerTaskBackoff" /\ r.task.exec = e /\ r.task.sid = s

(* While a process runs, every state execution it counts as pending is     *)
(* alive, so PendingExecutionMap never waits for one that has ended        *)
(* without being taken out of the map.                                     *)
PendingIsAlive ==
    \A e \in Execs : prc[e].status = "Running" =>
        \A s \in prc[e].pending : st[e][s].status \in ActiveStates

(* A process asked to complete gracefully never sits Running with nothing  *)
(* left to run: whichever transaction drains the pending map completes it. *)
GracefulNeverStuck ==
    \A e \in Execs : prc[e].status = "Running" /\ prc[e].graceful => prc[e].pending # {}

(* A process that completed, failed or timed out has no pending state      *)
(* execution, so that no late worker can apply a decision to it.           *)
ClosedLeavesNothingPending ==
    \A e \in Execs : prc[e].status \in Closed \ {"Terminated"} => prc[e].pending = {}

(* A command that waits for messages belongs to a waiting state execution  *)
(* while its process runs: leaving WaitUntilWaiting cleans the commands up.*)
CommandsBelongToWaiting ==
    \A e \in Execs : prc[e].status = "Running" =>
        \A s \in StateExecIds : lq[e].cmds[s] # NoCommands => st[e][s].status = "WaitUntilWaiting"

(* No lost wakeup in the local queues: a command is never left waiting     *)
(* while its queue holds the messages it asks for.                         *)
NoSatisfiableCommandWaits == \A e \in Execs : NothingSatisfiable(lq[e])

(* Whatever a waiting state execution still waits for can arrive: a queue  *)
(* command without a result is registered with the local queues, a timer   *)
(* command without one has its timer row.                                  *)
NothingAwaitedIsLost ==
    \A e \in Execs : prc[e].status = "Running" =>
        \A s \in StateExecIds : st[e][s].status = "WaitUntilWaiting" =>
            /\ DOMAIN st[e][s].command.queues \subseteq
                  DOMAIN st[e][s].queueResults \cup DOMAIN lq[e].cmds[s]
            /\ \A i \in 1..st[e][s].command.timers :
                  \/ i \in st[e][s].timerResults
                  \/ \E r \in tim : r.task = Task("TimerCommand", e, s, i)

(* Two transactions do not check what they are based on: messages whose    *)
(* task was processed before are handed out again, and the answer of a     *)
(* WaitUntil API is applied to a state that changed since it was prepared. *)
(* The latter may register commands next to results of an earlier answer.  *)
Repeats(w) ==
    \/ ProcessLocalQueueMessages(w) /\ worker[w].row \notin imm
    \/ UpdateWaitUntil(w) /\ ~NotModified(w)

AnsweredAgain(e) ==
    \E s \in StateExecIds : DOMAIN lq[e].cmds[s] \cap DOMAIN st[e][s].queueResults # {}

TaskPlaces(e, m) ==
    {r.seq : r \in {x \in imm : /\ x.task.type = "NewLocalQueueMessages" /\ x.task.exec = e
                               /\ m \in Range(x.task.info)}}

QueuePlaces(e, m) == {i \in DOMAIN lq[e].msgs[m.queue] : lq[e].msgs[m.queue][i] = m}

ResultPlaces(e, m) ==
    {x \in UNION {{s} \X DOMAIN st[e][s].queueResults : s \in StateExecIds} :
        m \in Range(st[e][x[1]].queueResults[x[2]])}

InOnePlace(e, m) ==
    Cardinality(TaskPlaces(e, m)) + Cardinality(QueuePlaces(e, m)) + Cardinality(ResultPlaces(e, m)) = 1

(* Every published message is in exactly one place: a task that has not    *)
(* been processed, the unconsumed messages of its queue, or the results of *)
(* one state execution.  No step takes it out of there, or puts a new      *)
(* message elsewhere, but one that repeats a transaction or hands messages *)
(* to a command that has a result; so a message survives every crash of    *)
(* its worker, and no two commands get it.                                 *)
MessageInOnePlace ==
    [][\A e \in Execs :
          \/ \A m \in messages'[e] : InOnePlace(e, m)'
          \/ \E m \in messages[e] : ~InOnePlace(e, m)
          \/ AnsweredAgain(e)
          \/ \E w \in Workers : Repeats(w)]_<<messages, imm, lq, st>>

(* A closed process execution never runs again. *)
ClosedNeverReopens ==
    [][\A e \in Execs : prc[e].status \in Closed => prc'[e].status \in Closed]_vars

(* The decision of a state execution is applied at most once: an id that   *)
(* was handed out and is not pending (any more) never becomes pending, and *)
(* completing or recovering it requires that it is.                        *)
NeverPendingAgain ==
    [][\A e \in Execs : \A s \in StateExecIds :
         s[2] <= prc[e].seq[s[1]] /\ s \notin prc[e].pending => s \notin prc'[e].pending]_vars

(* The store implements ProcessLifecycle.  An execution counts as closed   *)
(* with any status but Running; what a closed one leaves behind, such as   *)
(* the pending map that TERMINATE_IF_RUNNING keeps, is of no concern.      *)
Phase(status) ==
    IF status = "None" THEN "none" ELSE IF status = "Running" THEN "running" ELSE "closed"

Begun(row) == {s \in StateExecIds : s[2] <= row.seq[s[1]]}

ExecPhase == [e \in Execs |-> Phase(prc[e].status)]
ExecOpen  == [e \in Execs |-> IF prc[e].status = "Running" THEN prc[e].pending ELSE {}]
ExecBegun == [e \in Execs |-> IF prc[e].status = "Running" THEN Begun(prc[e]) ELSE {}]

Lifecycle == INSTANCE ProcessLifecycle WITH
                 current <- latest, phase <- ExecPhase, open <- ExecOpen, begun <- ExecBegun

(* Whatever is interleaved, lost, repeated or retried, users see one       *)
(* running execution per process id, decisions that are applied once and   *)
(* one at a time, and executions that stay closed.                         *)
ImplementsLifecycle == Lifecycle!Spec

(* What TERMINATE_IF_RUNNING terminates stays terminated: its pending      *)
(* state executions are aborted, so none of them may go on and close the   *)
(* process in another way.                                                 *)
TerminatedStaysTerminated ==
    [][\A e \in Execs : prc[e].status = "Terminated" => prc'[e].status = "Terminated"]_vars
=============================================================================
