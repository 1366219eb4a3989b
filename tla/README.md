# TLA+ specification of the xCherry server

xCherry runs long-lived *processes* made of *async states* that an application
implements behind a worker API (`WaitUntil`, `Execute`). The server keeps every
process in SQL tables and moves it on by *tasks*, rows that are read by queues,
handed to worker goroutines and deleted by the transaction that does the work.
This directory holds TLA+ modules of that machinery, TLC configurations that
check them, and TLAPS proofs. `PROJECT.json` maps each definition to the lines
it models and lists runs, mutants, findings, hazards and theorems.

## 1. Inventory

| Component | State it keeps | Operations | What makes it correct |
|---|---|---|---|
| **Process store, executions** (`persistence/process`: start, stop, rpc, process timeout, decisions) | tables `latest_process_executions`, `process_executions` (status, graceful flag, sequence map, pending map, local queues) | `StartProcess` with four id-reuse policies, `StopProcess`, `UpdateProcessExecutionForRpc`, `ProcessTimerTaskForProcessTimeout`, `handleStateDecision` | at most one running execution per process id, and the latest row names it; closed is final; a graceful completion is carried out; a decision is applied once |
| **Process store, state executions** (prepare, wait_until, complete_execute, backoff, recover, timer command) | table `async_state_executions` (status, version, commands, results), tables `immediate_tasks`, `timer_tasks` | `PrepareStateExecution`, `ProcessWaitUntilExecution`, `CompleteExecuteExecution`, `BackoffImmediateTask`, `ConvertTimerTaskToImmediateTask`, `RecoverFromStateExecutionFailure`, `ProcessTimerTaskForTimerCommand` | work that is due has a row in a task table; no task without its rows; every pending state execution is alive |
| **Local queues** (`state_execution_local_queues_json.go`, publish, process_local_queue) | waiting commands and unconsumed messages, a JSON column; table `local_queue_messages` | add commands, add messages and try to consume, clean up | no lost wakeup; a message in exactly one place; whatever is awaited can arrive |
| **Immediate-task queue and processor** (`engine/immediate_task_*`) | cursor, pages with pending counts, channels, workers | poll, dispatch, receive completed tasks, requeue, commit | every row the cursor has not passed is processed; counts are exact; a shard that comes back forgets nothing |
| **Timer-task queue, processor and gate** (`engine/timer_*`) | preload window, heap, largest loaded number, pending notifications, three gates, channel, workers | preload, fire, triggered poll, drain notifications, requeue | the queue is always woken in time; every timer fires; the delay is bounded |
| **Async service, task notifier, membership** (`service/async`) | the hash ring of each server; eight maps with an entry per owned shard (queues, notifier, processors, waiting channels) | join and leave events, re-balance, notify, forward | a settled server holds in all its maps what its ring gives it; a notification finds its queue |
| **Wait for completion** (`wait_for_process_completion_channel.go`) | channels and waiting requests per execution | add, signal, stop, terminate waiting, clean up | a caller is told the true status; whom a signal misses is woken by the clean-up |
| **API service** (`service/api`) | none | one call after another of the store, then notifications | answers agree with the store |
| **Backoff** (`engine/backoff.go`) | attempts and first attempt, in the task | may retry, next interval | attempts, duration and interval stay within the policy |
| **Visibility store** (`persistence/visibility`) | one row per execution | record start, record close, list by pages | what is shown closed stays closed; a listing that ends has left out nothing |
| **Application database, HTTP, configuration** | user tables; wiring | reads and writes | see section 7 |

How they interact: a client calls the API service, which runs one read outside a
transaction (the latest execution of a process id) and one transaction of the
process store (READ COMMITTED, with row locks and version checks), and then
*may* notify the async service that owns the shard. The queues of the shard read
task rows and send them into the channels of the two processors, which all
queues of a server share. A worker runs a transaction to prepare, calls the
application, and commits the outcome in another transaction. Notifications are
an optimisation: they may be lost, late or out of order, and polling makes up
for them.

What is hard, and hard to test:

* reads made before a lock or an API call and used after it: the state row of a
  `WaitUntil` call, the latest execution of a stop, the timeout's own execution;
* the same task processed twice, after a shard movement, a restart, or the loss
  of a commit's answer;
* sequence numbers drawn at INSERT and rows visible at COMMIT;
* bounded channels whose readers are also writers;
* timers of the Go runtime whose ticks and signals cannot be taken back;
* two kinds of events (timer and messages) completing the same wait;
* maps that the re-balancing goroutine changes one after another while workers
  and waiting calls read them;
* counts of attempts that travel through memory, a timer row and a task row;
* two transactions (a visibility record, the deletion of its task) that a crash
  separates.

The list `hazards` of `PROJECT.json` gives each with its line and the properties
that would catch it.

## 2. Modules

| Module | Models |
|---|---|
| `LocalQueues` | the local-queue column and its operations, as operators on a value; Go's unspecified map order is a set of outcomes |
| `ProcessStore` | all tables of the process store, all transactions on them, the API calls and the workers that issue them |
| `ProcessLifecycle` | what the store promises: start, decide, close, without tables, tasks and workers |
| `MCProcessStore`, `MCLocalQueues` | instances of `ProcessStore`; the second for its local queues |
| `ProcessStoreProofs` | the inductive invariants of the tables of `ProcessStore` and of the work in its task tables, the theorems that follow from them, and the proof that `ProcessStore` implements `ProcessLifecycle` |
| `LocalQueueProofs` | what the operators of `LocalQueues` compute, and the inductive invariant of commands, queues and results in `ProcessStore` |
| `MessageProofs` | where each message of `ProcessStore` is: the steps that move one, and that no other does |
| `ImmediateTaskQueue`, `MCImmediateTaskQueue` | the queue of one shard over several assignments of it, its workers, and the table as the queue sees it |
| `ImmediateTaskQueueProofs` | the inductive invariant of the pipeline of queue, channels and workers, and its theorems |
| `Backoff` | the retry policy, as operators on its values |
| `VisibilityStore` | the visibility table, as operators on a set of rows |
| `ImmediateTaskProcessor`, `MCImmediateTaskProcessor` | the workers of a server: API calls, retries, visibility records, a listing client |
| `ImmediateTaskProcessorProofs` | the inductive invariant of tasks, timers, attempts and records, and its theorems |
| `TimerGate` | a timer gate, as operators on a record |
| `TimerTaskQueue`, `MCTimerTaskQueue` | the timer queue with its three gates, its workers, the clock, restarts |
| `TimerTaskQueueProofs` | the alarms of the timer queue and the bound on its delay, as theorems |
| `WaitForCompletion` | the waiting channels of one shard, as operators on a record |
| `AsyncService`, `MCAsyncService` | a cluster of servers: membership, re-balancing, notifications, waiting callers |
| `AsyncServiceProofs` | the inductive invariant of a cluster and its theorems |
| `FiniteMinMax` | lemmas on `Min`, `Max` and least numbers that the proof modules share |

`ProcessStore` composes `LocalQueues`; `TimerTaskQueue` composes `TimerGate`;
`ImmediateTaskProcessor` composes `Backoff` and `VisibilityStore`;
`AsyncService` composes `WaitForCompletion`.
The store and the queues meet at the task tables. In `ProcessStore` a worker may
load *any* row at *any* time, any number of times, and may drop what it holds:
that covers everything the two queue modules let a queue do, shard movements,
restarts and repeated loads included. In the queue modules, conversely, the
processing of a task is a choice over its outcomes in the store: the row is
deleted or not, the worker gets an error or not. `ImmediateTaskProcessor` looks
inside that choice, with one state execution per process and transactions cut
down to what retries and records depend on, and `AsyncService` looks at what a
worker does after its commit.

### ProcessStore and the code

One action is one transaction, with every insert, update and delete it makes, or
one read outside of a transaction. `latest`, `prc`, `st`, `messages`, `imm` and
`tim` are the tables; `lq` is the local-queue column of a process row. A task
row is its sequence number and a record of type, execution, state execution and
info. `worker[w].pc` says how far a worker has come: it holds an immediate task
or a timer, it has prepared a `WaitUntil` or an `Execute` call and remembers the
version, it is about to fail the process, or it has read what a process timeout
stops. `client[c]` is an API call between its read and its transaction. Every
commit of a worker may lose its answer (`Acknowledged`): the worker then keeps
the task and repeats it. `Requeue` is any failed transaction or read, and a
failed task goes back to memory as it is. `Crash` drops what a worker holds.

Left out: payloads, fire times, namespaces (a process id stands for both), the
application database and the local attributes (they are written in the same
transactions and no control depends on them), and the processing of visibility
tasks, whose rows are inserted here and processed in `ImmediateTaskProcessor`. The SQL conditions that matter are kept: version
checks, the `FOR UPDATE` reads as atomic transactions, `ON CONFLICT` on
deduplication ids, the `ABORT` update restricted to active states.

### ImmediateTaskQueue and the code

A number is drawn (`Reserve`) and its row becomes visible (`CommitInsert`) or
never does (`RollbackInsert`) in any order. `late[g]` is a history variable: the
rows that became visible when the cursor of queue g had passed them.
`queue[g]` is the goroutine of the g-th queue created for the shard: cursor,
pages, pending map, poll timer. `registered` is the queue the processor's map
names. `Poll` and `Dispatch` are the two halves of
`pollAndDispatchAndPrepareNext`, since a send blocks; `TakeTask`,
`ProcessImmediateTask`, `LookUpCommitChan`, `RequeueTask` and `CommitTask` are
the loop of a worker, cut where another goroutine can act. A stopped queue's
goroutine goes on, as in the code. `ServerDies` takes everything in memory away;
`ReceiveUnknownTask` is one way to it: a task that was taken from an earlier
queue of the shard comes back to the current one, which has no page for it and
panics.

### ImmediateTaskProcessor and the code

`rows` and `timers` are the tables, `channel` is `taskToProcessChan`, `loaded`
what the queue has read. `pending` and `awaiting` are, of the pending map and
the local queues of a process row, what concerns its one state execution;
`latest` says which executions are the latest of their process id. A task in the
channel is a `Copy`: the row as it is stored, and the task in memory, whose
count of attempts runs ahead of the row after an internal error, since
`createWorkerTaskBackoffInfo` hands out the pointer it finds there. `TakeTask`
is the worker's receive with the preparing read, whose status, and not the task,
decides which API is called. A call ends by one of the actions of `ApiCallEnds`:
a WaitUntil call has nothing to wait for (`CompleteWaitUntilExecution`, which
checks the version) or something (`UpdateWaitUntilExecution`, which checks
nothing), an Execute call returns a decision (`ExecuteReturns`), the transaction
finds the state changed or not pending (`Conflict`), the call fails and is
retried, fails the process or proceeds (`RetryTask`, `FailProcess`,
`RecoverFromFailure`), it fails by the deadline of the Execute context
(`ExecuteTimesOut`), or it fails for a state without a configuration
(`CheckRetryPanics`). A wait ends by its timer, which looks at the status of the
state (`FireTimerCommand`), or by messages, which do not
(`ProcessLocalQueueMessages`). So a state execution that a stop, an RPC or
TERMINATE_IF_RUNNING has ended may go on. After `TerminateIfRunning`, which
leaves the pending map as it is, its decision closes the process once more and
writes a second visibility task; after the others it is not pending, and its
Execute call is repeated.

Visibility tasks are recorded and deleted in two steps; no other task is deleted
outside of the transaction that does its work. A listing is a client with its
token: `ListProcessExecutions` gets the next page, `ListingEnds` is the empty
page. `calls`, `late`, `overtaken`, `byRpc`, `revived`, `began` and `listed` are
history variables, read by properties only. In `Backoff` a coefficient is a
fraction of any sign and size, as every finite float32 is, and the power is
exact; the rounding of float64 is left out.

### AsyncService and the code

`ring[s]` is the hash ring of the delegate of server s, `held[s]` its eight maps
by shard. A membership event changes the ring and computes what `ReBalance` has
to stop and to create; `work[s]` holds the steps that are left, in the order of
the code (`StopSteps`, `CreateSteps`), and while they last the server, which
holds its lock, handles no other event. Steps on maps that nobody reads between
them are one step. The workers and the waiting calls take no part in that lock.
A worker commits, notifies the immediate or the timer queue unless nothing is
new, looks up the channels of the shard and signals; `Signal` is two steps
because it looks the channel up before it locks. A waiting call goes through the
API service, the HTTP handler, which may pass it on to the owner its own ring
names, `Add`, and the select. A channel has no buffer, so a signal reaches those
who are in their select; `CleansUp` is the goroutine that closes the channel
three seconds later. Each server has one worker, and a process is closed by it
or by others, which signal nobody. A process closes once here. The code has one
exception, which the other two modules have: the state of a process that
TERMINATE_IF_RUNNING replaced may be revived and complete it a second time. A
caller that was told Terminated was then told what was true when it was read,
and `AnswersAreFinal` does not speak of that process.

### TimerTaskQueue and the code

`pc` is `"select"` or inside one of the two handlers that take several steps.
`preload`, `firing` and `trigger` are gates: a Go timer may have expired into
its channel, the gate's goroutine may have turned the tick into a signal, and
`Update` and `Stop` undo neither. A failed read is a case of `Restart`: the code
means to retry, but its closing log line dereferences the missing response and
the panic takes the server down. That something restarts a server that is down
is an assumption on its surroundings. The unsynchronised reads and
writes of `isActive` are taken as atomic: the flag is one word, and each order
of the accesses is a behaviour of the model.

## 3. Runs

| Run | Instance | Shows |
|---|---|---|
| `lifecycle` | 1 process id, 2 executions, 1 client, 1 worker, 2 executions per state, 5 immediate tasks, 2 timers, failing APIs, 1 lost answer; 0.48 million states | tables consistent, one running execution, graceful completions carried out, and the store implements `ProcessLifecycle` |
| `workers` | 2 workers on copies of the same rows, 2 queues, 3 kinds of command requests with and without a timer, repeated publications, failing APIs; 0.48 million states | no state execution loses its task, no lost wakeup, messages in one place, awaited things can arrive |
| `queue` | 1 worker, pages of 1, buffer of 6, 2 rows, 3 generations of the queue, fairness; 0.23 million states | every row that no cursor had passed before it was visible is processed, over rows in any order, failures, shard movements and the death of the server |
| `shard_moves` | 2 workers, 3 generations, 2 rows in any order, buffer of 4; 1.0 million states | exact accounting, complete pages, the new queue's cursor forgets nothing but rows that came late |
| `timer_queue` | 2 timers, page of 2, look-ahead of 1, fairness; 0.31 million states | the queue is woken in time for its heap, its window and its requests; every timer is processed |
| `timer_delay` | 2 timers, look-ahead of 1, failing workers, 1 crash, punctual server; 8.8 million states | no timer is later than the documented bound |
| `processor` | 1 process, 1 worker, two policies with limits of attempts and time, one whose power leaves the integers and one with a coefficient below 1, and no policy at all, stops, replacement and messages at any time, 1 older row in the list, pages of 1, 1 fault, fairness; 1.3 million states | attempts, intervals and duration within the policy, every state of a running process ends or waits, the list is right or wrong only for a named reason, a listing that ends has left out nothing |
| `cluster` | 2 servers, 1 shard, 1 process, 2 callers, 2 joins, 1 fault; 2.0 million states | registrations follow the ring, panics only after a move, true answers, callers woken |

Runs that end in a violation each show a disagreement between the code and a
line of the repository (`findings` quotes it):

| Run | What happens |
|---|---|
| `terminate_during_wait_until` | a late `WaitUntil` answer revives a state execution that TERMINATE_IF_RUNNING aborted; its `Execute` turns the Terminated process into a Completed one |
| `late_commit` | a row that commits after a higher number was polled is never read |
| `timer_starved` | a page full of rows that the timer-command early return leaves hides every later timer |
| `execute_timeout` | an `Execute` call that times out takes the transaction of its backoff with it: the task is retried at once, and the limit of attempts never takes effect |

More of what the models show of the code, recorded with the hazards:

* a task finished after its shard left and came back is unknown to the new
  queue, whose nil page panics; failing workers block on a channel that is full
  and that only they drain;
* messages are handed out twice when their task is repeated, and the answer of a
  repeated `WaitUntil` registers commands that have a result already, which the
  next message for them overwrites: `MessageInOnePlace` says that no other step
  loses or doubles a message (`Repeats` names the repeated transactions,
  `AnsweredAgain` the executions with such a command);
* a power beyond the range of an int32 becomes, on amd64, an interval far in the
  past; a failing API of a state without a configuration ends the server;
* an execution stays listed as running when an RPC closed it, or when the record
  of its close came before that of its start;
* the page condition of a listing (a greater id *or* an earlier start) lets its
  token go backward: pages repeat rows and may cycle without end (rows 5, 3 and 7
  that started at 2, 1 and 0, one to a page, give 5, 3, 5, 3 and never 7), and a
  page without rows panics. What holds is that a listing which ends has shown
  all (`ListingLeavesOutNothing`);
* a state execution that was ended by a stop and goes on is not pending: its
  Execute decision cannot be written and the call is repeated without limit;
  an execution that TERMINATE_IF_RUNNING replaced may be listed Terminated and
  then Completed, or the other way round;
* a notification panics in two windows: after a move of the shard, and before
  the timer queue of a new shard is registered;
* a failed read of timers panics; a triggered poll skips timers which arrive out
  of sequence order; one without a request is logged as "something wrong in the
  logic".

### Bounds, and why they are enough

Two of everything that can conflict: two executions of one process id (a start
and what it replaces), two workers on copies of one row, two
assignments of a shard, two queues and two commands on one queue, two timers
with equal or different times, two servers that claim one shard, two callers on
one channel. `MaxSeq = 2` lets a state follow itself, which is what reusing
an id would need. The bounds on inserted tasks cut long behaviours, never a
particular step: every action of the modules is taken in some passing run. One
lost answer is enough for each transaction to be repeated after it succeeded.
Pages of one and of two with two rows make full, partly full and empty pages. In
`queue` a page holds one row, so that the second row can become visible behind
the cursor, and the third generation lets the shard leave and the server die in
one behaviour; its channel has room for what two queues of a shard may send,
since a channel that is full when every worker has a failed task stops them all.
With a look-ahead of one and times 0 to 3, a timer can be due before, in, at the
end of and after a window. In `processor` the clock goes to 2, past the duration
of the policy; beyond it every timer is due, so that nothing waits for the
bound. The integers of the processor runs go from -4 to 3 (`MaxInt = 3`), so
that the second interval of one policy leaves them, as it would leave the int32
after some thirty attempts. The older
row has the smaller id and a start time in between, so that the token goes
backward, and pages repeat, when the process starts later. One worker is enough
for the orders of records and calls, since a task that fails goes to the end of
the channel; the theorems hold for any number of workers, and of rows and any
size of a page.
One fault (a database error, a crash, a panic) can strike at every step.
In `cluster` one wrongly suspected or crashed server is enough for a shard to
have no owner, two owners, and an owner that has lost and regained it. Deadlock is not checked where a bound (inserted
tasks, sequence numbers, the clock) ends every behaviour; in `queue` and
`shard_moves` notifications keep the system going and it is. Symmetry is used
over execution ids, workers and callers, in runs without liveness; the
refinement of `lifecycle` and the action property of `workers` are safety
properties that treat them alike.

In `timer_delay` the clock waits while the queue or the workers have something
to do (`Punctual`). That is the premise of the documented bound: the
configuration speaks of what notification loss costs, and a server that does
not keep up has no bound. All other timer runs let time pass at any point.

### Fairness

`ImmediateTaskQueue`: weak fairness of each goroutine's steps and of the poll
timer, since Go's scheduler runs what can run; strong fairness of a poll that
finds rows and of a processing that succeeds, since the database and the
application do not fail forever. `TimerTaskQueue`: the same, with weak fairness
of the clock and strong fairness of the preload and firing cases, since `select`
picks among ready cases at random. `StartQueue` is fair too: something restarts
a server that is down. `ImmediateTaskProcessor`: weak fairness of each worker, of
the sending queue, of the clock and of due timers; a call ends, if only by its
deadline, and no call need ever succeed. Nothing is assumed of notifications, of
commits, of shard movements or of crashes. `FairSpec` is only used where a
property is a liveness property.

## 4. Proofs

All theorems hold for every value of the constants that the named assumptions
of a module admit; TLC evaluates these assumptions in each run. A proof module
states an inductive invariant, proves that each action preserves it, one lemma
per action, and takes the theorems from it; the four invariants of the store
build on each other. Each invariant was first checked by
TLC on the instance of a run.

### The tables of the store, and their refinement

`ProcessStoreProofs` proves, for every set of process ids, executions, states,
queues, clients and workers and every bound, the theorems that `PROJECT.json`
lists: the type invariant, `TasksHaveRows`, `OneRunningIsLatest`,
`SequenceMatchesRows`, `PendingIsAlive`, `GracefulNeverStuck`,
`ClosedLeavesNothingPending` and the two action properties `ClosedNeverReopens`
and `NeverPendingAgain`. From the same invariant it proves that the store
implements `ProcessLifecycle`.

Assumptions (named in `ProcessStore`): finitely many state ids and natural bounds, `NoExec` and `NoState` outside of
the sets they mark, a failure configuration that names known states, command
requests with a natural number of timers and of messages per queue command,
publications and commands that name known queues (a queue is whatever name they
use), and decisions as `ValidateDecision` accepts them (next states or a closing
type, not both).

The inductive invariant is `TablesInv`, a conjunction of four parts:

* `ExecsOK`: of each execution, its process row against its state rows. The
  rows are the ids the sequence map handed out, pending ids are among them and
  alive while the process runs, a running process asked to complete gracefully
  has something pending, and a closed one (other than Terminated) has not.
  A process without a row has neither state rows nor sequence numbers.
* `LatestOK`: a running execution is the latest of its process id, the latest
  row names an execution of that id, and each process id that has an execution
  has a latest one.
* `QueuesOK`: a task row has a sequence number its counter has handed out, and
  the rows it refers to.
* `CallersOK`: the same of the copies workers hold, and of what they and the
  clients have read.

None of the properties is inductive alone. `PendingIsAlive` needs the sequence
map to know that a new id has no row yet; `OneRunningIsLatest` needs that the
latest row names an execution of its own process id, since a start terminates or
accepts the one it finds there; `TasksHaveRows` needs the same of the copies in
flight, which become rows again through backoff.

The proof has one lemma for each action. Most actions change one execution by a
decision, a stop, a start or a change of one state row; lemmas about these four
changes show that they keep `ExecInv` (the part of `ExecsOK` about one
execution) and never reopen a closed execution or make an id pending again.
Lemmas about inserting and removing numbered task rows do the same for
`QueuesOK`. `NextPreserves` collects them; the theorems follow from it by
propositional temporal reasoning.

The refinement maps `latest` to `current`, the status of a process row to its
phase (every status but Running is closed), the pending map to what is open, and
the ids below the sequence map to what has begun; of an execution that does not
run the last two are empty, since a closed row may keep a pending map
(TERMINATE_IF_RUNNING leaves it). The proof (`StepSimulation`) shows of each action that it maps to
`Start`, `Decide`, `Close` or a stutter. Four facts carry it: a change of one
running execution by a decision (`DecisionMoves`) is `Decide` or `Close` (new ids are above the
sequence map, hence not begun), a stop is `Close` or a stutter, a start is
`Start`, with or without a replaced execution, and an action that leaves the
process rows alone is a stutter. `TablesInv` is needed in the first, for the
decided id to be open, and in the third, for the replaced execution to be the
one the latest row names.

### The work of the store

`ProcessStoreProofs` also proves `NoLostWork`: a state execution that is due to
run its `WaitUntil` or `Execute` API has its task, or its backoff timer, in a
table. The danger is a deletion. A transaction deletes the row of its task by
the number in the copy its worker holds, and that copy may be of any age: loaded
twice, kept through a lost answer, worked on after the state has moved on. The
invariant `WorkInv`, on top of `TablesInv`, has two parts:

* `CopiesOK`: rows of one number are one task, and the copy a worker holds
  agrees with the row of its number, if there still is one (`Coherent`); a
  backoff timer carries the type of an API task, and only process timeouts are
  checked for theirs. It is inductive because numbers come from a counter that
  is at least the number of every copy, so that a new row never takes the number
  of an old copy (`TableGrows`).
* `WorkOK`, which is `NoLostWork`.

From the first part a deletion takes away only the worker's own task
(`DeletesOtherTask`, `DeletesOtherTimer`), and each transaction that deletes one
leaves the state not due, or inserts its next task or timer in the same step.
That is also what the proof shows to be needed of the code: a transaction that
deletes its row and leaves the state due must insert, whatever it found.

### The local queues of the store

`LocalQueueProofs` first proves what the operators of `LocalQueues` compute, for
values of any size. A batch of messages (`AddMessagesFacts`) and a registration
(`TryConsumeFacts`) keep the types, leave no command that its queue can satisfy,
take commands away only with a result, and keep each message: one that is in a
queue once stays there or goes to one command, one that is not there appears
nowhere, and a message of the batch is then held once. The order in which Go
walks its maps does not matter: the lemmas hold for every outcome.

On top of `TablesInv` and `WorkInv`, the invariant `QueueInv` has five parts:

* `MessagesOK` and `InfosOK`: what is published is for known queues, and each
  message task, in the table or in a worker's hands, carries published messages,
  each once. A batch needs this to keep its messages apart.
* `VersionsOK`: the version a worker prepared with is at most that of the row,
  and while it is that, the row is still due to run its API. This is what a
  conditional update gets from its condition: `CompleteExecuteExecution` and
  the others may then leave the commands alone, since the state has none.
* `HoldingsOK`: types of queues and results, and `NothingSatisfiable`.
* `WaitsOK`: of a running process, a state execution with commands waits, and
  one that waits has each queue command registered or answered and each timer
  command fired or in the table.

From it follow `CommandsBelongToWaiting`, `NoSatisfiableCommandWaits` and
`NothingAwaitedIsLost`. The first is not inductive without the versions: a late
update would otherwise move a state execution on and forget its commands. The
second needs counts that are at least one, which `WithDefaultCount` sees to (a
negative count, which nothing in the code rejects, would panic in the slice
expression of the consumer and is outside of the assumptions). The third needs
`CopiesOK`, for the timer a worker deletes to be the one it fired, and the fact
that one result is enough for a state that waits for any.

`MessageProofs` proves `MessageInOnePlace`, from one more invariant, `PlaceInv`:
nothing is published to an execution that has not started, since a start clears
its queues (`UnpublishedOK`); a state execution whose `WaitUntil` has not been
answered has neither results nor commands (`YoungOK`); and a worker that will
find its version unchanged finds such a one (`AskedOK`), so that the first
answer overwrites nothing. All actions but two are calm steps: results and
queues stay as they are, and only a publication adds a task (`CalmMoves`). The
other two are `ProcessLocalQueueMessages`, which moves the messages of one task
to queues and results, and `UpdateWaitUntil`, which moves messages from queues
to one row; the lemmas on batches and registrations count them (`MovesOnce`).

The proof corrected the property. As first stated it excused a repeated
transaction only in the step that repeats it; but a repeated `WaitUntil` answer
leaves a registered command next to the result of the first answer, and a
message task processed much later, for the first time, overwrites that result.
The instance of the run is too small to reach it. `AnsweredAgain` now names the
state that such an answer leaves.

### The immediate-task queue

`ImmediateTaskQueueProofs` proves the type invariant, `PageAccounting`,
`PendingIsInFlight`, `CursorForgetsNothing` and `CompletedPagesAreDone`, with
rows that become visible in any order. The last two name what is lost: only a
row that became visible when the cursor had passed it (`late`) may be neither
handled nor on its way. That such a row is lost indeed is what `late_commit`
shows. The sizes are positive, the workers finitely many (`SizeAssumption`).

The parts of `PipelineInv` next to the types: `LifeInv` (a queue that is not
alive has no state, and with no queue alive nothing is in flight), `PageInv`
(the pages of a queue are disjoint ranges below its cursor, and a pending task
lies in the page it is counted in), `CountInv`, `HandledInv` (only processed
tasks are sent back), `FlightInv`, `DoneInv` (a row in the range of a page is
handled, late, or in the hands of its queue) and `CursorInv` (the same of all
rows below the cursor of the registered queue). Disjoint pages are what
makes the counts exact: without `PageInv` a received task could be counted
twice. `FlightInv` counts the copies of a task in two channels and in the hands
of the workers; the count moves by one with each send and receive, hence the
finitely many workers.

### The processor, its retries and its records

`ImmediateTaskProcessorProofs` proves the type invariant,
`AttemptsWithinPolicy`, `RetriesEndInTime`, `BackoffWithinPolicy` (for every
policy, its coefficient a fraction of any sign), `ShownRunningForAReason` and the
action properties `VisibleNeverReopens` and `ListingLeavesOutNothing`.

The parts of `ProcessorInv`: `Holders` (no row is in the table twice, and a row
that was read has one holder, the channel or a worker), `RowsInv` (an execution
has at most one API task or one timer, which fits the status of its state, and
its closes to record agree with the status of the process), `WorkerInv` (a
worker calls the API its state is in, unless that has ended), `CountInv` and
`TimerInv` (stored counts are below the limit, a timer is within an interval
of the duration, and its interval is one the policy gives), `CallsInv` (of an
execution that no fault has disturbed, the calls made are not more than the task
or the timer counts) and `VisibleInv` (what is listed agrees with the processes
and with the records to come). The limit of attempts holds of the *calls*, of
which the code keeps no count; that an execution has one task with one holder is
what lets the count in the task stand for them. An execution that is revived and
no longer the latest (`ClosesTwice`) is the one that may have two closes to
record; that it is shown closed for good, with one status or the other, follows
since a start is recorded by an INSERT and a close never says Running.

The interval of a timer needs three facts about a power of a fraction: its
denominator is positive, it does not fall below the initial value if the
coefficient is not below 1, and lies between zero and the initial value if it
is; truncation and conversion keep these bounds except beyond the range.

`ListingLeavesOutNothing` has an invariant of its own, `ListingOK`: every row
that was there when the listing began has been shown, or comes after its token.
A page is the first rows after the token, so that what it leaves comes after the
new token, whether this is before or after the old one; an empty page then has
nothing left to show.

Assumptions: execution ids and workers are numbers, the bounds are natural
numbers, the older rows of the list are closed executions with ids of their own,
and policies fit into their int32 fields.

### The timer-task queue

`TimerTaskQueueProofs` proves the type invariant, `HeapHasAlarm`, `NeverAsleep`,
`RequestsHaveAlarm`, `HeapWasLoaded`, and `DelayIsBounded` for a server that
keeps up (`Punctual`, the premise the documented bound has). `QueueInv` is the
types and `Alarms`: the firing gate will signal for each loaded timer
(`FiringIsSet`), the trigger gate for each request, all of which lie in the
window (`TriggerIsSet`), the preload gate is set while the heap is empty
(`PreloadIsSet`) and never for a time after the window (`PreloadInWindow`), and
`HeapWasLoaded`. The properties speak of the select; the alarms of the gates
that are not being handled have to be known in the other steps too, which is why
`TriggerIsSet` does not mention `pc`. The bound on the delay needs `DelayInv`: a
timer that the queue does not know of was inserted after the last load, or is
not due before the window ends.

### The cluster

`AsyncServiceProofs` proves the type invariant, `RegistrationsAgree`,
`PanicOnlyAfterMove`, `AnswersAreFinal`, `ClosedOnlyAfterSignal` and
`SignalledWillWake`, for any number of servers, shards, executions and callers
and any hash ring that gives a shard to a member of the view (`RingAssumption`).
The parts of `ServiceInv` next to the types: `BalanceInv` (what a server holds is
what its ring gives it, up to the steps its re-balancing has left, by name and
order), `ObjectInv` (channels of different shards are different), `SignalInv`
(numbers of channels are not reused, and a clean-up has a reason), `StopInv` and
`WorkerInv` (who is about to signal has a reason), `WaiterInv` and `AnswerInv`
(of the callers). The last two need the others: a caller's channel is looked up
before its lock is taken, so between the two steps the number of the channel is
all that connects them.

### What the prover takes from the model

Sums, powers and filtered sequences are recursive functions, not folds: the
proofs show that such a function exists, by the least index at which it would
not, and its values from the recursion in the same way. `NatHasLeast` of
`FiniteMinMax` is that principle, taken from the well-founded order of the
natural numbers.

### Only model-checked

* Liveness (`EveryTimelyTaskHandled`, `EveryTimerFires`, `EveryStateEnds`),
  which is out of reach of the prover.
* The findings: that a property does not hold is shown by the counterexample of
  its run.

Every invariant and every action property of a passing run, and the refinement,
is a theorem.

## 5. Mutants

Each property of a passing run has a faulty variant of a definition that breaks
it, written before that definition and marked as such: a guard dropped, a count
off by one, a reset or an update forgotten. They are there to show that the
property depends on the code it is about; nothing else uses them.

## 6. Plan

Done: process store with local queues, immediate-task queue and processor,
backoff and visibility, timer-task queue with gates, async service with waiting
callers; proofs of all safety properties that the runs check, and of the
refinement of `ProcessLifecycle`.

Next, in this order:

1. An abstract specification of the local queues (a bag of messages, a set of
   waits), implemented by the store up to repeated transactions; the parts
   `HoldingsOK` and `WaitsOK` of the invariant are its refinement mapping.
2. The panics that the hazards list as properties of their own, once the code
   says what should happen instead.

## 7. Not modelled

HTTP handlers (but for the forwarding of waiting calls), configuration, bootstrap
and command-line tools (wiring and I/O); the application database and local
attributes (values no control depends on); `mergeImmediateTaskPages` (the queue
does not call it); the composition of error details; `Describe` (one read); the
filters of a listing (they only select the rows a page is made of);
notifications from one server to another, which are the lossy `Notify` of the
queue modules; what a stopped timer queue still does with its heap, and the
timers its workers hold then, which the store sees as repeated timers.
