----------------------- MODULE ImmediateTaskProcessor -----------------------
(***************************************************************************)
(* The immediate-task processor of one server (engine/                     *)
(* immediate_task_concurrent_processor.go) with the retry policy and the   *)
(* visibility table: its workers take tasks from one channel, call the     *)
(* WaitUntil or the Execute API, count the attempts in the task, back off  *)
(* with a timer or give up, and record starts and closes of processes for  *)
(* those who list them.  A task that fails for another reason goes back to *)
(* the channel.  The server may die; then its channel and the counts that  *)
(* were not stored are gone, and the rows are read again.                  *)
(*                                                                         *)
(* Every process has one state execution here, whose decision completes    *)
(* it.  The store's transactions are the subject of ProcessStore, of which *)
(* this module keeps what they do to that state execution, its tasks and   *)
(* the status of the process; the order in which a queue reads rows is     *)
(* that of ImmediateTaskQueue.                                             *)
(***************************************************************************)
EXTENDS Integers, Sequences, SequencesExt, Backoff, VisibilityStore

CONSTANTS
    Execs,          \* process executions, named by their ids: numbers from 1 on
    Workers,        \* a set of numbers
    Configs,        \* the state configurations: retry policies, or NoConfig
    NoConfig,
    OldRows,        \* executions in the visibility table that ended before
    PageSize,       \* of a listing; 0 if nobody lists
    MaxTime,        \* bound: the clock stands still then, and every timer is due
    MaxCompleted,   \* bound: attempts that are counted in memory
    MaxFaults       \* bound: database errors and deaths of the server

ASSUME ExecAssumption == Execs \subseteq Nat \ {0} /\ Workers \subseteq Nat
ASSUME BoundAssumption ==
    PageSize \in Nat /\ MaxTime \in Nat /\ MaxCompleted \in Nat \ {0} /\ MaxFaults \in Nat

(* The ids of executions are unique. *)
ASSUME OldRowsAssumption ==
    /\ IsFiniteSet(OldRows)
    /\ OldRows \subseteq [id : Nat \ ({0} \cup Execs), start : Nat, status : {"Completed", "Failed", "Terminated"}]
    /\ \A r, s \in OldRows : r.id = s.id => r = s

(* Any policy that fits into its fields: int32s, and a float32, which is a *)
(* fraction of any size and sign.                                          *)
ASSUME ConfigAssumption ==
    \A c \in Configs \ {NoConfig} :
        c \in [InitialIntervalSeconds : (MinInt..MaxInt) \cup {Unset},
              BackoffCoefficient : Fractions \cup {Unset},
              MaximumIntervalSeconds : (MinInt..MaxInt) \cup {Unset},
              MaximumAttempts : (MinInt..MaxInt) \cup {Unset},
              MaximumAttemptsDurationSeconds : (MinInt..MaxInt) \cup {Unset}]

VARIABLES
    now,        \* the time in seconds
    process,    \* execution -> status
    state,      \* execution -> status of its state execution
    config,     \* execution -> the configuration of its state
    rows,       \* the immediate tasks in the database
    timers,     \* the backoff timers in the database
    pending,    \* the executions whose state is in their PendingExecutionMap
    awaiting,   \* the executions whose local queues have commands of the state
    latest,     \* the executions that are the latest of their process id
    visible,    \* the visibility table
    channel,    \* taskToProcessChan
    loaded,     \* the tasks the queue has read
    worker,
    token,      \* of a client that lists executions page by page
    faults,
    calls,      \* history: execution -> calls of the API it is at, and when the first was
    late,       \* history: executions an Execute call of which timed out
    overtaken,  \* history: executions whose close was recorded before their start
    byRpc,      \* history: executions that an RPC closed
    revived,    \* history: executions whose state was ended and went on
    began,      \* history: the ids that were visible when the listing began
    listed      \* history: the ids it has shown

maps == <<pending, awaiting, latest>>
store == <<process, state, config, rows, timers, maps>>
client == <<token, began, listed>>
history == <<calls, late, overtaken, byRpc, revived>>
vars == <<now, store, visible, channel, loaded, worker, client, faults, history>>
-----------------------------------------------------------------------------
(* WorkerTaskBackoffInfo, nil in a new task *)
NoInfo == [completed |-> 0, first |-> 0]
HasInfo(info) == info.completed # 0

(* what: the API to call, or the status to record; the time of a start is  *)
(* kept where an API task has its first attempt, that of a close left out. *)
Task(type, e, what, info) == [type |-> type, exec |-> e, what |-> what, info |-> info]

ApiTask(e, api, info) == Task("api", e, api, info)
VisibilityTask(e, status, start) == Task("visibility", e, status, [completed |-> 0, first |-> start])

(* The states in which a worker API is called. *)
Apis == {"WaitUntilRunning", "ExecuteRunning"}

NoTask == ApiTask(0, "none", NoInfo)

(* row: the row of the task, as it is stored; task: the copy that goes back *)
(* to the channel if processing fails.                                     *)
Copy(task) == [row |-> task, task |-> task]
Idle == [pc |-> "idle", copy |-> Copy(NoTask), api |-> "none", info |-> NoInfo]

NoCalls == [count |-> 0, first |-> 0]
-----------------------------------------------------------------------------
(***************************************************************************)
(* Clients, timers and the queue.                                          *)
(***************************************************************************)
StartProcess(e) ==
    /\ process[e] = "None"
    /\ process' = [process EXCEPT ![e] = "Running"]
    /\ state' = [state EXCEPT ![e] = "WaitUntilRunning"]
    /\ pending' = pending \cup {e} /\ latest' = latest \cup {e}
    /\ rows' = rows \o <<ApiTask(e, "WaitUntilRunning", NoInfo), VisibilityTask(e, "Running", now)>>
    /\ UNCHANGED <<now, config, timers, awaiting, visible, channel, loaded, worker, client, faults, history>>

(* A close ends the state execution, empties the pending map and adds a    *)
(* task that records it.                                                   *)
Closed(e, status, others) ==
    /\ process' = [process EXCEPT ![e] = status]
    /\ state' = [state EXCEPT ![e] = "Ended"]
    /\ pending' = pending \ {e}
    /\ rows' = Append(others, VisibilityTask(e, status, 0))

StopProcess(e) ==
    /\ e \in latest /\ process[e] = "Running"
    /\ Closed(e, "Terminated", rows)
    /\ UNCHANGED <<now, config, timers, awaiting, latest, visible, channel, loaded, worker, client, faults, history>>

(* A start with TERMINATE_IF_RUNNING: the latest execution is terminated   *)
(* if it runs, and its state execution aborted, but the pending map stays. *)
(* The new execution is another one.                                       *)
TerminateIfRunning(e) ==
    /\ e \in latest
    /\ latest' = latest \ {e}
    /\ state' = [state EXCEPT ![e] = "Ended"]
    /\ \/ /\ process[e] = "Running"
          /\ process' = [process EXCEPT ![e] = "Terminated"]
          /\ rows' = Append(rows, VisibilityTask(e, "Terminated", 0))
       \/ /\ process[e] # "Running"
          /\ UNCHANGED <<process, rows>>
    /\ UNCHANGED <<now, config, timers, pending, awaiting, visible, channel, loaded, worker, client, faults, history>>

(* The decision of an RPC closes the process; nothing records it. *)
CloseByRpc(e) ==
    /\ process[e] = "Running"
    /\ process' = [process EXCEPT ![e] = "Completed"]
    /\ state' = [state EXCEPT ![e] = "Ended"]
    /\ pending' = pending \ {e}
    /\ byRpc' = byRpc \cup {e}
    /\ UNCHANGED <<now, config, rows, timers, awaiting, latest, visible, channel, loaded, worker, client, faults,
                   calls, late, overtaken, revived>>

(* The state execution has what it waits for. *)
Execute(e, others) ==
    /\ state' = [state EXCEPT ![e] = "ExecuteRunning"]
    /\ awaiting' = awaiting \ {e}
    /\ rows' = Append(others, ApiTask(e, "ExecuteRunning", NoInfo))

(* History: who goes on although it was ended. *)
GoesOn(e) == revived' = IF state[e] = "Ended" THEN revived \cup {e} ELSE revived

(* A timer command fires: only a state execution that waits takes notice.  *)
FireTimerCommand(e) ==
    /\ state[e] = "WaitUntilWaiting"
    /\ Execute(e, rows)
    /\ UNCHANGED <<now, process, config, timers, pending, latest, visible, channel, loaded, worker, client, faults,
                   history>>

(* Messages fulfil the commands of a state execution, whatever its status. *)
ProcessLocalQueueMessages(e) ==
    /\ e \in awaiting
    /\ Execute(e, rows)
    /\ GoesOn(e)
    /\ UNCHANGED <<now, process, config, timers, pending, latest, visible, channel, loaded, worker, client, faults,
                   calls, late, overtaken, byRpc>>

ConvertTimerTaskToImmediateTask(t) ==
    /\ t.fire <= now \/ now = MaxTime
    /\ timers' = timers \ {t}
    /\ rows' = Append(rows, ApiTask(t.exec, t.api, t.info))
    /\ UNCHANGED <<now, process, state, config, maps, visible, channel, loaded, worker, client, faults, history>>

(* The queue reads the rows in their order and sends them to the channel. *)
SendTask ==
    \E i \in DOMAIN rows :
        /\ rows[i] \notin loaded
        /\ \A k \in 1..(i - 1) : rows[k] \in loaded
        /\ loaded' = loaded \cup {rows[i]}
        /\ channel' = Append(channel, Copy(rows[i]))
        /\ UNCHANGED <<now, store, visible, worker, client, faults, history>>

(* The rows that are left, in their order. *)
Without(gone) ==
    LET kept[i \in 0..Len(rows)] ==
            IF i = 0 THEN <<>>
            ELSE IF rows[i] \in gone THEN kept[i - 1]
            ELSE Append(kept[i - 1], rows[i])
    IN  kept[Len(rows)]

Tick ==
    /\ now < MaxTime
    /\ now' = now + 1
    /\ UNCHANGED <<store, visible, channel, loaded, worker, client, faults, history>>

(* The server dies and comes back. *)
Restarts ==
    /\ channel' = <<>>
    /\ loaded' = {}
    /\ worker' = [w \in Workers |-> Idle]

Crash ==
    /\ faults < MaxFaults
    /\ faults' = faults + 1
    /\ Restarts
    /\ UNCHANGED <<now, store, visible, client, history>>
-----------------------------------------------------------------------------
(***************************************************************************)
(* A worker.                                                               *)
(***************************************************************************)
Finish(w) == worker' = [worker EXCEPT ![w] = Idle]
TaskOf(w) == worker[w].copy.row

(* The task is sent to the queue that it came from, which counts it; its   *)
(* row may be left in the table.                                           *)
Commit(w) ==
    /\ Finish(w)
    /\ UNCHANGED <<channel, loaded>>

CommitDeleted(w) ==
    /\ Finish(w)
    /\ loaded' = loaded \ {TaskOf(w)}
    /\ UNCHANGED channel

(* Immediate retry of an internal error. *)
PutBack(w) ==
    /\ Finish(w)
    /\ channel' = Append(channel, worker[w].copy)

(* Faulty variant: the time of the first attempt is not kept. *)
AttemptFromNow(info) == [completed |-> info.completed + 1, first |-> now]

(* createWorkerTaskBackoffInfo, and one attempt more.  The count is behind *)
(* a pointer: it is shared with the task that may go back to the channel,  *)
(* unless the pointer is new.                                              *)
Attempt(info) ==
    IF HasInfo(info) THEN [info EXCEPT !.completed = info.completed + 1]
    ELSE [completed |-> 1, first |-> now]

(* The worker reads the state execution: its status, whatever the task     *)
(* says, decides which API is called.                                      *)
Calling(copy) ==
    LET info == Attempt(copy.task.info)
    IN  [pc   |-> "calling",
         copy |-> IF HasInfo(copy.task.info) THEN [copy EXCEPT !.task.info = info] ELSE copy,
         api  |-> state[copy.row.exec],
         info |-> info]

CallsMade(e) ==
    [count |-> IF calls[e].count < MaxCompleted THEN calls[e].count + 1 ELSE MaxCompleted,
     first |-> IF calls[e].count = 0 THEN now ELSE calls[e].first]

(* The workers are alike: let the first idle one take the task. *)
FirstIdle(w) == worker[w].pc = "idle" /\ \A v \in Workers : v < w => worker[v].pc # "idle"

TakeTask(w) ==
    LET copy == Head(channel)
        e    == copy.row.exec
    IN  /\ FirstIdle(w) /\ channel # <<>>
        /\ channel' = Tail(channel)
        /\ \/ /\ copy.row.type = "visibility"
              /\ worker' = [worker EXCEPT ![w] = [Idle EXCEPT !.pc = "recording", !.copy = copy]]
              /\ UNCHANGED calls
           \/ /\ copy.row.type = "api" /\ state[e] \in Apis
              /\ worker' = [worker EXCEPT ![w] = Calling(copy)]
              /\ calls' = [calls EXCEPT ![e] = CallsMade(e)]
           \/ /\ copy.row.type = "api" /\ state[e] \notin Apis
              /\ UNCHANGED <<worker, calls>>
        /\ UNCHANGED <<now, store, visible, loaded, client, faults, late, overtaken, byRpc, revived>>

(* The version that a transaction compares with the one that was read      *)
(* before the call.  An execution has one task at a time and its status    *)
(* never comes back, so that the status tells versions apart.              *)
NotModified(w) == state[TaskOf(w).exec] = worker[w].api

CallReturns(w, api) == worker[w].pc = "calling" /\ worker[w].api = api

(* EMPTY_COMMAND: nothing to wait for. *)
CompleteWaitUntilExecution(w) ==
    LET e == TaskOf(w).exec
    IN  /\ CallReturns(w, "WaitUntilRunning")
        /\ NotModified(w)
        /\ Execute(e, Without({TaskOf(w)}))
        /\ calls' = [calls EXCEPT ![e] = NoCalls]
        /\ CommitDeleted(w)
        /\ UNCHANGED <<now, process, config, timers, pending, latest, visible, client, faults,
                       late, overtaken, byRpc, revived>>

(* Commands to wait for: timers, messages or both, which may have arrived. *)
(* Neither version nor status is looked at: an ended state goes on.        *)
UpdateWaitUntilExecution(w) ==
    LET e    == TaskOf(w).exec
        rest == Without({TaskOf(w)})
    IN  /\ CallReturns(w, "WaitUntilRunning")
        /\ \/ /\ state' = [state EXCEPT ![e] = "WaitUntilWaiting"]
              /\ awaiting' \in {awaiting, awaiting \cup {e}}
              /\ rows' = rest
           \/ Execute(e, rest)
        /\ GoesOn(e)
        /\ calls' = [calls EXCEPT ![e] = NoCalls]
        /\ CommitDeleted(w)
        /\ UNCHANGED <<now, process, config, timers, pending, latest, visible, client, faults,
                       late, overtaken, byRpc>>

(* The decision is carried out if the state execution is pending, whatever *)
(* the status of the process.                                              *)
ExecuteReturns(w) ==
    LET e == TaskOf(w).exec
    IN  /\ CallReturns(w, "ExecuteRunning")
        /\ NotModified(w) /\ e \in pending
        /\ Closed(e, "Completed", Without({TaskOf(w)}))
        /\ CommitDeleted(w)
        /\ UNCHANGED <<now, config, timers, awaiting, latest, visible, client, faults, history>>

(* The transaction after a call fails: the state execution has changed, or *)
(* is not pending any more, which nothing mends.                           *)
Conflict(w) ==
    /\ worker[w].pc = "calling"
    /\ \/ ~NotModified(w)
       \/ TaskOf(w).exec \notin pending /\ worker[w].info.completed < MaxCompleted
    /\ PutBack(w)
    /\ UNCHANGED <<now, store, visible, loaded, client, faults, history>>

(* The state execution could not be read. *)
PrepareFails ==
    /\ channel # <<>> /\ Head(channel).row.type = "api"
    /\ faults < MaxFaults
    /\ faults' = faults + 1
    /\ channel' = Append(Tail(channel), Head(channel))
    /\ UNCHANGED <<now, store, visible, loaded, worker, client, history>>

(* A database error at whatever the worker does next. *)
DatabaseError(w) ==
    /\ worker[w].pc # "idle"
    /\ faults < MaxFaults
    /\ faults' = faults + 1
    /\ PutBack(w)
    /\ UNCHANGED <<now, store, visible, loaded, client, history>>
-----------------------------------------------------------------------------
(***************************************************************************)
(* A call of the worker API fails.                                         *)
(***************************************************************************)
Policy(w) == setDefaultRetryPolicyValue(config[TaskOf(w).exec])

ShouldRetry(w) == MayRetry(worker[w].info.completed, worker[w].info.first, now, Policy(w))

ApiFailed(w) == worker[w].pc = "calling" /\ config[TaskOf(w).exec] # NoConfig

BackoffTimer(w, interval) ==
    [exec |-> TaskOf(w).exec, api |-> TaskOf(w).what, info |-> worker[w].info,
     interval |-> interval, fire |-> now + interval]

(* Faulty variant: the task is deleted and no timer is written. *)
RetryTaskWithoutTimer(w) ==
    /\ ApiFailed(w)
    /\ ShouldRetry(w)
    /\ NotModified(w)
    /\ rows' = Without({TaskOf(w)})
    /\ CommitDeleted(w)
    /\ UNCHANGED <<now, process, state, config, timers, maps, visible, client, faults, history>>

RetryTask(w) ==
    /\ ApiFailed(w)
    /\ ShouldRetry(w)
    /\ NotModified(w)
    /\ \E interval \in Intervals(worker[w].info.completed, Policy(w)) :
          timers' = timers \cup {BackoffTimer(w, interval)}
    /\ rows' = Without({TaskOf(w)})
    /\ CommitDeleted(w)
    /\ UNCHANGED <<now, process, state, config, maps, visible, client, faults, history>>

(* FAIL_PROCESS_ON_STATE_FAILURE stops the latest execution of the process *)
(* id, if it runs: this one, unless it has been replaced.                  *)
FailProcess(w) ==
    LET e == TaskOf(w).exec
    IN  /\ ApiFailed(w)
        /\ ~ShouldRetry(w)
        /\ IF e \in latest /\ process[e] = "Running" THEN Closed(e, "Failed", rows)
           ELSE UNCHANGED <<process, state, pending, rows>>
        /\ Commit(w)
        /\ UNCHANGED <<now, config, timers, awaiting, latest, visible, client, faults, history>>

(* PROCEED_TO_CONFIGURED_STATE: the process goes on elsewhere. *)
RecoverFromFailure(w) ==
    LET e == TaskOf(w).exec
    IN  /\ ApiFailed(w)
        /\ ~ShouldRetry(w)
        /\ NotModified(w) /\ e \in pending
        /\ state' = [state EXCEPT ![e] = "Ended"]
        /\ pending' = pending \ {e}
        /\ Commit(w)
        /\ UNCHANGED <<now, process, config, rows, timers, awaiting, latest, visible, client, faults, history>>

(* The deadline of an Execute call is also that of the transaction that    *)
(* follows: after a timeout the failure cannot be written.                 *)
ExecuteTimesOut(w) ==
    LET e == TaskOf(w).exec
    IN  /\ ApiFailed(w) /\ worker[w].api = "ExecuteRunning"
        /\ worker[w].info.completed < MaxCompleted
        /\ late' = late \cup {e}
        /\ PutBack(w)
        /\ UNCHANGED <<now, store, visible, loaded, client, faults, calls, overtaken, byRpc, revived>>

(* checkRetry follows the pointer to the state configuration, which is nil *)
(* if the client gave none: the server panics.                             *)
CheckRetryPanics(w) ==
    /\ worker[w].pc = "calling"
    /\ config[TaskOf(w).exec] = NoConfig
    /\ faults < MaxFaults
    /\ faults' = faults + 1
    /\ Restarts
    /\ UNCHANGED <<now, store, visible, client, history>>
-----------------------------------------------------------------------------
(***************************************************************************)
(* processVisibilityTask: the status is recorded, then the task deleted.   *)
(***************************************************************************)
Recorded(w) ==
    /\ worker' = [worker EXCEPT ![w].pc = "deleting"]
    /\ UNCHANGED <<now, store, channel, loaded, client, faults, calls, late, byRpc, revived>>

(* Faulty variant: the row is overwritten. *)
RecordStartUpserts(w) ==
    LET e == TaskOf(w).exec
    IN  /\ worker[w].pc = "recording" /\ TaskOf(w).what = "Running"
        /\ visible' = InsertProcessExecutionStartForVisibility({r \in visible : r.id # e}, e, TaskOf(w).info.first)
        /\ UNCHANGED overtaken
        /\ Recorded(w)

RecordStart(w) ==
    LET e == TaskOf(w).exec
    IN  /\ worker[w].pc = "recording" /\ TaskOf(w).what = "Running"
        /\ ~HasRow(visible, e)
        /\ visible' = InsertProcessExecutionStartForVisibility(visible, e, TaskOf(w).info.first)
        /\ UNCHANGED overtaken
        /\ Recorded(w)

(* The key exists already: an error, again and again. *)
RecordStartAgain(w) ==
    /\ worker[w].pc = "recording" /\ TaskOf(w).what = "Running"
    /\ HasRow(visible, TaskOf(w).exec)
    /\ PutBack(w)
    /\ UNCHANGED <<now, store, visible, loaded, client, faults, history>>

RecordClose(w) ==
    LET e == TaskOf(w).exec
    IN  /\ worker[w].pc = "recording" /\ TaskOf(w).what # "Running"
        /\ visible' = UpdateProcessExecutionStatusForVisibility(visible, e, TaskOf(w).what)
        /\ overtaken' = IF HasRow(visible, e) THEN overtaken ELSE overtaken \cup {e}
        /\ Recorded(w)

(* Faulty variant: the range of the deletion ends one row too late. *)
DeleteTaskAndNext(w) ==
    LET i == CHOOSE k \in DOMAIN rows : rows[k] = TaskOf(w)
    IN  /\ worker[w].pc = "deleting"
        /\ rows' = Without({TaskOf(w)} \cup {rows[k] : k \in DOMAIN rows \cap {i + 1}})
        /\ CommitDeleted(w)
        /\ UNCHANGED <<now, process, state, config, timers, maps, visible, client, faults, history>>

DeleteTask(w) ==
    /\ worker[w].pc = "deleting"
    /\ rows' = Without({TaskOf(w)})
    /\ CommitDeleted(w)
    /\ UNCHANGED <<now, process, state, config, timers, maps, visible, client, faults, history>>
-----------------------------------------------------------------------------
(***************************************************************************)
(* ListProcessExecutions, page by page.                                    *)
(***************************************************************************)
NextPage == Page(visible, token, PageSize)

Ids(page) == {r.id : r \in page}

ListProcessExecutions ==
    /\ NextPage # {}
    /\ token' = TokenOf(NextPage)
    /\ began' = IF token = FirstToken THEN Ids(visible) ELSE began
    /\ listed' = listed \cup Ids(NextPage)
    /\ UNCHANGED <<now, store, visible, channel, loaded, worker, faults, history>>

(* The last row of an empty page: a panic, which tells the client that it  *)
(* has seen everything; it begins anew.                                    *)
ListingEnds ==
    /\ NextPage = {}
    /\ token' = FirstToken /\ began' = {} /\ listed' = {}
    /\ UNCHANGED <<now, store, visible, channel, loaded, worker, faults, history>>
-----------------------------------------------------------------------------
Init ==
    /\ now = 0
    /\ process = [e \in Execs |-> "None"]
    /\ state = [e \in Execs |-> "None"]
    /\ config \in [Execs -> Configs]
    /\ rows = <<>> /\ timers = {}
    /\ visible = OldRows
    /\ pending = {} /\ awaiting = {} /\ latest = {}
    /\ channel = <<>> /\ loaded = {}
    /\ worker = [w \in Workers |-> Idle]
    /\ token = FirstToken /\ began = {} /\ listed = {}
    /\ faults = 0
    /\ calls = [e \in Execs |-> NoCalls]
    /\ late = {} /\ overtaken = {} /\ byRpc = {} /\ revived = {}

ApiCallEnds(w) ==
    \/ CompleteWaitUntilExecution(w) \/ UpdateWaitUntilExecution(w) \/ ExecuteReturns(w) \/ Conflict(w)
    \/ RetryTask(w) \/ FailProcess(w) \/ RecoverFromFailure(w)
    \/ ExecuteTimesOut(w) \/ CheckRetryPanics(w)

RecordingStep(w) == RecordStart(w) \/ RecordStartAgain(w) \/ RecordClose(w) \/ DeleteTask(w)

WorkerStep(w) == TakeTask(w) \/ ApiCallEnds(w) \/ RecordingStep(w)

Next ==
    \/ \E e \in Execs : StartProcess(e) \/ StopProcess(e) \/ TerminateIfRunning(e) \/ CloseByRpc(e)
    \/ \E e \in Execs : FireTimerCommand(e) \/ ProcessLocalQueueMessages(e)
    \/ \E t \in timers : ConvertTimerTaskToImmediateTask(t)
    \/ SendTask \/ Tick \/ Crash \/ PrepareFails
    \/ \E w \in Workers : WorkerStep(w) \/ DatabaseError(w)
    \/ ListProcessExecutions \/ ListingEnds

Spec == Init /\ [][Next]_vars

(***************************************************************************)
(* Workers, the queue and the timers go on; every call ends, if only by    *)
(* its deadline.  Nothing makes a call succeed.                            *)
(***************************************************************************)
Fairness ==
    /\ WF_vars(SendTask) /\ WF_vars(Tick)
    /\ WF_vars(\E t \in timers : ConvertTimerTaskToImmediateTask(t))
    /\ \A w \in Workers : WF_vars(WorkerStep(w))

FairSpec == Spec /\ Fairness
-----------------------------------------------------------------------------
(* Type invariant. *)
TypeOK ==
    /\ now \in 0..MaxTime
    /\ process \in [Execs -> {"None", "Running", "Completed", "Failed", "Terminated"}]
    /\ state \in [Execs -> Apis \cup {"None", "WaitUntilWaiting", "Ended"}]
    /\ pending \subseteq Execs /\ awaiting \subseteq Execs /\ latest \subseteq Execs
    /\ \A i \in DOMAIN rows : rows[i].exec \in Execs /\ rows[i].info.first \in 0..MaxTime
    /\ IsInjective(rows)
    /\ loaded \subseteq Range(rows)
    /\ \A r, s \in visible : r.id = s.id => r = s
    /\ \A w \in Workers : worker[w].pc \in {"idle", "calling", "recording", "deleting"}

(* What the policy of the state allows, when nothing is lost on the way.   *)
(* A state that was ended and went on is not pending: its Execute call is  *)
(* repeated for ever, because its decision cannot be written.              *)
Undisturbed(e) == faults = 0 /\ e \notin late \cup revived /\ config[e] # NoConfig

PolicyOf(e) == setDefaultRetryPolicyValue(config[e])

(* The worker API is called no more often than the policy allows, although *)
(* the count travels from a task in memory to a timer row, a new task row  *)
(* and back; a count that is stored is below the limit even when database  *)
(* errors, timeouts and crashes lose some on the way.                      *)
AttemptsWithinPolicy ==
    \A e \in Execs : config[e] # NoConfig /\ PolicyOf(e).MaximumAttempts > 0 =>
        /\ Undisturbed(e) => calls[e].count <= PolicyOf(e).MaximumAttempts
        /\ \A t \in timers : t.exec = e => t.info.completed < PolicyOf(e).MaximumAttempts

(* Retries end with the duration of the policy, counted from the very      *)
(* first call: the last timer is at most one interval beyond it.           *)
RetriesEndInTime ==
    \A t \in timers :
        LET p == PolicyOf(t.exec)
        IN  Undisturbed(t.exec) /\ p.MaximumAttemptsDurationSeconds > 0 =>
                t.fire <= calls[t.exec].first + p.MaximumAttemptsDurationSeconds
                          + p.MaximumIntervalSeconds

(* A retry waits at most the maximum interval.  It waits at least the      *)
(* initial one if the coefficient is not below 1, and at most the initial  *)
(* one if it is; never less than nothing.  The exception is a power that   *)
(* has left the range of an int32: it may be due long ago, and the API is  *)
(* called without any pause.  A negative policy promises nothing.          *)
BackoffWithinPolicy ==
    \A t \in timers :
        LET p     == PolicyOf(t.exec)
            init  == p.InitialIntervalSeconds
            c     == p.BackoffCoefficient
            Least(i) == t.interval >= i \/ t.interval = p.MaximumIntervalSeconds
        IN  /\ t.interval <= p.MaximumIntervalSeconds
            /\ init >= 0 /\ c.num >= c.den =>
                  \/ Least(init)
                  \/ t.interval = MinInt /\ Truncated(Power(init, c, t.info.completed - 1)) > MaxInt
            /\ init >= 0 /\ c.num \in 0..c.den => t.interval <= init /\ Least(0)

(* A state execution that is called leaves that state, waits for commands  *)
(* or is given up: with a limit on the attempts nothing is tried for ever, *)
(* unless Execute calls time out, or the server dies of a missing          *)
(* configuration.                                                          *)
EveryStateEnds ==
    \A e \in Execs :
        process[e] = "Running" ~>
            state[e] \in {"WaitUntilWaiting", "Ended"} \/ e \in late \/ config[e] = NoConfig

(* The source says of an error of a worker API that the task is not put    *)
(* back but sent to a timer, where the policy applies: if nothing fails    *)
(* but the API, it is called no more often than the policy allows.         *)
ApiErrorsGoToTimer ==
    \A e \in Execs : faults = 0 /\ e \notin revived /\ config[e] # NoConfig =>
        calls[e].count <= PolicyOf(e).MaximumAttempts

(* What is listed never goes back: an execution that is shown closed has   *)
(* closed with that status and stays so, also when the record of its start *)
(* is made once more after a crash.  Only one that a start with            *)
(* TERMINATE_IF_RUNNING has replaced, and whose aborted state went on, may *)
(* close a second time and change to that status, or back: its records are *)
(* made in any order.  But it is not shown as running again either.        *)
VisibleNeverReopens ==
    [][\A r \in visible : r.id \in Execs /\ r.status # "Running" =>
          \/ r \in visible' /\ r.status = process[r.id]
          \/ /\ r.id \in revived \ latest
             /\ \E s \in visible' : s.id = r.id /\ s.start = r.start /\ s.status # "Running"]_vars

(* An execution that has closed is shown as running only for a reason: the *)
(* record of its close is still to come, was made before that of its       *)
(* start, or is never made because an RPC closed it.                       *)
ShownRunningForAReason ==
    \A r \in visible :
        r.id \in Execs /\ r.status = "Running" /\ process[r.id] # "Running" =>
            \/ r.id \in overtaken \cup byRpc
            \/ \E i \in DOMAIN rows : rows[i] = VisibilityTask(r.id, process[r.id], 0)

(* A listing that comes to its end leaves out nothing: the client has seen *)
(* every execution that was in the table when it began, whatever row came  *)
(* or changed in between.  (It need not come to its end: an id greater     *)
(* than that of the last row is enough to be on the next page, so that     *)
(* pages may repeat.)                                                      *)
ListingLeavesOutNothing ==
    [][token # FirstToken /\ token' = FirstToken => began \cap Ids(visible) \subseteq listed]_vars
=============================================================================
