------------------------- MODULE ImmediateTaskQueue -------------------------
(***************************************************************************)
(* From a row of the immediate_tasks table to a worker and back: the queue *)
(* of one shard (engine/immediate_task_queue.go), its poll timer, and the  *)
(* worker pool all queues of a server share                                *)
(* (engine/immediate_task_concurrent_processor.go).                        *)
(*                                                                         *)
(* The queue is one goroutine: it polls a page of rows above its cursor    *)
(* when the timer fires, sends them into the processor's channel, and      *)
(* counts the completed ones per page.  A worker that fails puts the task  *)
(* back into the channel it reads from.  A shard may be taken away from    *)
(* the server and given back: each time a new queue, a new GENERATION, is  *)
(* created, while the goroutine of the old one goes on.  The server may    *)
(* also die, of a panic of its own or otherwise, and start again.          *)
(*                                                                         *)
(* A task is its sequence number.  What processing a task does to the      *)
(* process is the subject of ProcessStore; here it deletes the row or not  *)
(* and succeeds or not.                                                    *)
(***************************************************************************)
EXTENDS Naturals, FiniteSets, Sequences, FiniteSetsExt

CONSTANTS
    Workers,          \* ProcessorConcurrency goroutines
    BufferSize,       \* ProcessorBufferSize, of both channels
    PageSize,         \* PollPageSize
    MaxTasks,         \* bound: rows ever inserted
    MaxGenerations,   \* bound: how often a queue is created for the shard
    ProcessingMayFail \* whether a worker may end with an error

ASSUME SizeAssumption ==
    /\ BufferSize \in Nat \ {0} /\ PageSize \in Nat \ {0}
    /\ MaxTasks \in Nat /\ MaxGenerations \in Nat \ {0}
    /\ ProcessingMayFail \in BOOLEAN
    /\ IsFiniteSet(Workers)

VARIABLES
    nextSeq,     \* the bigserial of the table
    reserved,    \* numbers of rows whose transaction has not committed
    rows,        \* the committed rows
    queue,       \* generation -> the state of its goroutine and its timer
    generation,  \* how many queues have been created
    registered,  \* the generation in taskToCommitChans, 0 if none
    toProcess,   \* taskToProcessChan
    toCommit,    \* generation -> tasksToCommitChan
    worker,
    handled,     \* history: the tasks processed without an error
    late         \* history: generation -> the rows that became visible behind its cursor

vars == <<nextSeq, reserved, rows, queue, generation, registered, toProcess, toCommit, worker, handled, late>>
-----------------------------------------------------------------------------
Tasks == 1..MaxTasks
Generations == 1..MaxGenerations

(* A page has its bounds; pending maps a task to its page and count a page *)
(* to its pendingCount.  unsent is what pollAndDispatch has yet to send.   *)
NewQueue == [cursor |-> 0, unsent |-> {}, pending |-> <<>>, count |-> <<>>,
             completed |-> {}, armed |-> FALSE, signal |-> FALSE, alive |-> FALSE]

IdleWorker == [pc |-> "idle", task |-> 0, gen |-> 0]

Set(f, x, v) == [y \in DOMAIN f \cup {x} |-> IF y = x THEN v ELSE f[y]]
Drop(f, x) == [y \in DOMAIN f \ {x} |-> f[y]]

(* The goroutine is in its select, not inside pollAndDispatch. *)
Selecting(g) == queue[g].alive /\ queue[g].unsent = {}
-----------------------------------------------------------------------------
(* A transaction inserts a row: the number is drawn before the commit, so  *)
(* that rows become visible in any order, behind a cursor too.             *)
Reserve ==
    /\ nextSeq < MaxTasks
    /\ nextSeq' = nextSeq + 1
    /\ reserved' = reserved \cup {nextSeq + 1}
    /\ UNCHANGED <<rows, queue, generation, registered, toProcess, toCommit, worker, handled, late>>

CommitInsert(n) ==
    /\ n \in reserved
    /\ reserved' = reserved \ {n}
    /\ rows' = rows \cup {n}
    /\ late' = [g \in Generations |-> IF n < queue[g].cursor THEN late[g] \cup {n} ELSE late[g]]
    /\ UNCHANGED <<nextSeq, queue, generation, registered, toProcess, toCommit, worker, handled>>

RollbackInsert(n) ==
    /\ n \in reserved
    /\ reserved' = reserved \ {n}
    /\ UNCHANGED <<nextSeq, rows, queue, generation, registered, toProcess, toCommit, worker, handled, late>>

(* TriggerPollingTasks, by a caller that may have looked the queue up      *)
(* before it was stopped.                                                  *)
Notify(g) ==
    /\ queue[g].alive
    /\ queue' = [queue EXCEPT ![g].armed = TRUE]
    /\ UNCHANGED <<nextSeq, reserved, rows, generation, registered, toProcess, toCommit, worker, handled, late>>

(* The poll timer fires; a signal nobody has consumed yet is not doubled.  *)
FireTimer(g) ==
    /\ queue[g].armed
    /\ queue' = [queue EXCEPT ![g].armed = FALSE, ![g].signal = TRUE]
    /\ UNCHANGED <<nextSeq, reserved, rows, generation, registered, toProcess, toCommit, worker, handled, late>>

(* GetImmediateTasks: the first rows from the cursor on. *)
GetImmediateTasks(cursor) ==
    LET above == {n \in rows : n >= cursor}
    IN  {n \in above : Cardinality({m \in above : m < n}) < PageSize}

(* Faulty variant: a short page counts as a full one. *)
PollFullPages(g) ==
    LET found == GetImmediateTasks(queue[g].cursor)
        page  == [min |-> Min(found), max |-> Max(found)]
    IN  /\ Selecting(g)
        /\ queue[g].signal
        /\ \/ queue' = [queue EXCEPT ![g].signal = FALSE, ![g].armed = TRUE]
           \/ /\ found # {}
              /\ queue' = [queue EXCEPT
                    ![g].signal = FALSE,
                    ![g].cursor = page.max + 1,
                    ![g].unsent = found,
                    ![g].count = Set(queue[g].count, page, PageSize)]
        /\ UNCHANGED <<nextSeq, reserved, rows, generation, registered, toProcess, toCommit, worker, handled, late>>

(* The first half of pollAndDispatchAndPrepareNext: the read fails, or     *)
(* finds nothing, or moves the cursor past the page it found.              *)
Poll(g) ==
    LET found == GetImmediateTasks(queue[g].cursor)
        page  == [min |-> Min(found), max |-> Max(found)]
    IN  /\ Selecting(g)
        /\ queue[g].signal
        /\ \/ queue' = [queue EXCEPT ![g].signal = FALSE, ![g].armed = TRUE]
           \/ /\ found # {}
              /\ queue' = [queue EXCEPT
                    ![g].signal = FALSE,
                    ![g].cursor = page.max + 1,
                    ![g].unsent = found,
                    ![g].count = Set(queue[g].count, page, Cardinality(found))]
        /\ UNCHANGED <<nextSeq, reserved, rows, generation, registered, toProcess, toCommit, worker, handled, late>>

(* The second half, one task at a time: send it, which blocks while the    *)
(* channel is full, then enter it in pendingTaskSequenceToPage.  The map   *)
(* is only read by this goroutine.                                         *)
Dispatch(g) ==
    LET n    == Min(queue[g].unsent)
        page == CHOOSE p \in DOMAIN queue[g].count : p.min <= n /\ n <= p.max
        last == queue[g].unsent = {n}
    IN  /\ queue[g].unsent # {}
        /\ Len(toProcess) < BufferSize
        /\ toProcess' = Append(toProcess, n)
        /\ queue' = [queue EXCEPT ![g].unsent = queue[g].unsent \ {n},
                                  ![g].pending = Set(queue[g].pending, n, page),
                                  ![g].armed = last \/ queue[g].armed]
        /\ UNCHANGED <<nextSeq, reserved, rows, generation, registered, toCommit, worker, handled, late>>

(* Faulty variant: a completed task completes its whole page. *)
ReceiveCompletedPage(g) ==
    LET n    == Head(toCommit[g])
        page == queue[g].pending[n]
    IN  /\ Selecting(g)
        /\ toCommit[g] # <<>>
        /\ n \in DOMAIN queue[g].pending
        /\ toCommit' = [toCommit EXCEPT ![g] = Tail(toCommit[g])]
        /\ queue' = [queue EXCEPT ![g].pending = <<>>,
                                  ![g].count = Drop(queue[g].count, page),
                                  ![g].completed = queue[g].completed \cup {page}]
        /\ UNCHANGED <<nextSeq, reserved, rows, generation, registered, toProcess, worker, handled, late>>

(* receiveCompletedTask, for a task that is in the map. *)
ReceiveCompletedTask(g) ==
    LET n    == Head(toCommit[g])
        page == queue[g].pending[n]
        left == queue[g].count[page] - 1
    IN  /\ Selecting(g)
        /\ toCommit[g] # <<>>
        /\ n \in DOMAIN queue[g].pending
        /\ toCommit' = [toCommit EXCEPT ![g] = Tail(toCommit[g])]
        /\ queue' = [queue EXCEPT
              ![g].pending = Drop(queue[g].pending, n),
              ![g].count = IF left = 0 THEN Drop(queue[g].count, page) ELSE Set(queue[g].count, page, left),
              ![g].completed = IF left = 0 THEN queue[g].completed \cup {page} ELSE queue[g].completed]
        /\ UNCHANGED <<nextSeq, reserved, rows, generation, registered, toProcess, worker, handled, late>>

(* The server goes down: only the table survives. *)
ServerDies ==
    /\ queue' = [g \in Generations |-> NewQueue]
    /\ registered' = 0
    /\ toProcess' = <<>>
    /\ toCommit' = [g \in Generations |-> <<>>]
    /\ worker' = [w \in Workers |-> IdleWorker]
    /\ UNCHANGED <<nextSeq, reserved, rows, generation, handled, late>>

(* A task that is not in the map has a nil page: its dereference panics.   *)
ReceiveUnknownTask(g) ==
    /\ Selecting(g)
    /\ toCommit[g] # <<>>
    /\ Head(toCommit[g]) \notin DOMAIN queue[g].pending
    /\ ServerDies

Crash ==
    /\ generation \in 1..(MaxGenerations - 1)
    /\ ServerDies
-----------------------------------------------------------------------------
(* The loop of a worker.  A task of a shard the server does not own is     *)
(* skipped, before it is processed and after.                              *)
TakeTask(w) ==
    /\ worker[w].pc = "idle"
    /\ toProcess # <<>>
    /\ toProcess' = Tail(toProcess)
    /\ worker' = [worker EXCEPT ![w] =
          IF registered = 0 THEN IdleWorker
          ELSE [IdleWorker EXCEPT !.pc = "processing", !.task = Head(toProcess)]]
    /\ UNCHANGED <<nextSeq, reserved, rows, queue, generation, registered, toCommit, handled, late>>

(* processImmediateTask: it may succeed without deleting the row (a no-op) *)
(* and fail although it has deleted it (a lost acknowledgement).           *)
ProcessImmediateTask(w) ==
    /\ worker[w].pc = "processing"
    /\ \E remaining \in {rows, rows \ {worker[w].task}} : rows' = remaining
    /\ \/ /\ worker' = [worker EXCEPT ![w].pc = "succeeded"]
          /\ handled' = handled \cup {worker[w].task}
       \/ /\ ProcessingMayFail
          /\ worker' = [worker EXCEPT ![w].pc = "failed"]
          /\ UNCHANGED handled
    /\ UNCHANGED <<nextSeq, reserved, queue, generation, registered, toProcess, toCommit, late>>

(* Faulty variant: a failed task is dropped. *)
DropFailedTask(w) ==
    /\ worker[w].pc \in {"succeeded", "failed"}
    /\ worker' = [worker EXCEPT ![w] =
          IF registered = 0 \/ worker[w].pc = "failed" THEN IdleWorker
          ELSE [worker[w] EXCEPT !.gen = registered, !.pc = "commit"]]
    /\ UNCHANGED <<nextSeq, reserved, rows, queue, generation, registered, toProcess, toCommit, handled, late>>

(* Faulty variant: the worker goes on without the channel it looked up. *)
LookUpNothing(w) ==
    /\ worker[w].pc \in {"succeeded", "failed"}
    /\ worker' = [worker EXCEPT ![w].pc = IF worker[w].pc = "failed" THEN "requeue" ELSE "commit"]
    /\ UNCHANGED <<nextSeq, reserved, rows, queue, generation, registered, toProcess, toCommit, handled, late>>

LookUpCommitChan(w) ==
    /\ worker[w].pc \in {"succeeded", "failed"}
    /\ worker' = [worker EXCEPT ![w] =
          IF registered = 0 THEN IdleWorker
          ELSE [worker[w] EXCEPT !.gen = registered,
                                 !.pc = IF worker[w].pc = "failed" THEN "requeue" ELSE "commit"]]
    /\ UNCHANGED <<nextSeq, reserved, rows, queue, generation, registered, toProcess, toCommit, handled, late>>

(* Faulty variant: the send is left out. *)
RequeueForgotten(w) ==
    /\ worker[w].pc = "requeue"
    /\ worker' = [worker EXCEPT ![w] = IdleWorker]
    /\ UNCHANGED <<nextSeq, reserved, rows, queue, generation, registered, toProcess, toCommit, handled, late>>

(* Both sends block while their channel is full. *)
RequeueTask(w) ==
    /\ worker[w].pc = "requeue"
    /\ Len(toProcess) < BufferSize
    /\ toProcess' = Append(toProcess, worker[w].task)
    /\ worker' = [worker EXCEPT ![w] = IdleWorker]
    /\ UNCHANGED <<nextSeq, reserved, rows, queue, generation, registered, toCommit, handled, late>>

CommitTask(w) ==
    LET g == worker[w].gen
    IN  /\ worker[w].pc = "commit"
        /\ Len(toCommit[g]) < BufferSize
        /\ toCommit' = [toCommit EXCEPT ![g] = Append(toCommit[g], worker[w].task)]
        /\ worker' = [worker EXCEPT ![w] = IdleWorker]
        /\ UNCHANGED <<nextSeq, reserved, rows, queue, generation, registered, toProcess, handled, late>>
-----------------------------------------------------------------------------
(* Faulty variant: the new queue goes on from the old one's cursor. *)
StartQueueFromOldCursor ==
    LET g   == generation + 1
        old == IF generation = 0 THEN 0 ELSE queue[generation].cursor
    IN  /\ registered = 0
        /\ g \in Generations
        /\ generation' = g
        /\ registered' = g
        /\ queue' = [queue EXCEPT ![g] = [NewQueue EXCEPT !.armed = TRUE, !.alive = TRUE, !.cursor = old]]
        /\ UNCHANGED <<nextSeq, reserved, rows, toProcess, toCommit, worker, handled, late>>

(* createQueuesAndStart: a new queue, registered with the processor and    *)
(* armed for its first poll; it starts reading from the first row.         *)
StartQueue ==
    LET g == generation + 1
    IN  /\ registered = 0
        /\ g \in Generations
        /\ generation' = g
        /\ registered' = g
        /\ queue' = [queue EXCEPT ![g] = [NewQueue EXCEPT !.armed = TRUE, !.alive = TRUE]]
        /\ UNCHANGED <<nextSeq, reserved, rows, toProcess, toCommit, worker, handled, late>>

(* stopQueuesAndRemove: the timer is stopped and the queue taken out of    *)
(* the processor's map; its goroutine is not ended.  The last generation   *)
(* is kept for the server that comes back from a panic.                    *)
StopQueue ==
    /\ registered # 0
    /\ registered < MaxGenerations - 1
    /\ queue' = [queue EXCEPT ![registered].armed = FALSE]
    /\ registered' = 0
    /\ UNCHANGED <<nextSeq, reserved, rows, generation, toProcess, toCommit, worker, handled, late>>
-----------------------------------------------------------------------------
Init ==
    /\ nextSeq = 0 /\ reserved = {} /\ rows = {}
    /\ queue = [g \in Generations |-> NewQueue]
    /\ generation = 0 /\ registered = 0
    /\ toProcess = <<>>
    /\ toCommit = [g \in Generations |-> <<>>]
    /\ worker = [w \in Workers |-> IdleWorker]
    /\ handled = {}
    /\ late = [g \in Generations |-> {}]

StoreStep == Reserve \/ \E n \in Tasks : CommitInsert(n) \/ RollbackInsert(n)
QueueStep(g) == Notify(g) \/ FireTimer(g) \/ Poll(g) \/ Dispatch(g)
                \/ ReceiveCompletedTask(g) \/ ReceiveUnknownTask(g)
WorkerStep(w) ==
    TakeTask(w) \/ ProcessImmediateTask(w) \/ LookUpCommitChan(w) \/ RequeueTask(w) \/ CommitTask(w)

Next ==
    \/ StoreStep
    \/ \E g \in Generations : QueueStep(g)
    \/ \E w \in Workers : WorkerStep(w)
    \/ StartQueue \/ StopQueue \/ Crash

Spec == Init /\ [][Next]_vars

(***************************************************************************)
(* Goroutines and timers get to run; a read of the database and the        *)
(* processing of a task do not fail forever; an assigned shard is started. *)
(* Nothing makes a notification arrive, a transaction commit or a shard    *)
(* move.                                                                   *)
(***************************************************************************)
Fairness ==
    /\ \A g \in Generations :
          /\ WF_vars(FireTimer(g)) /\ WF_vars(Dispatch(g))
          /\ WF_vars(ReceiveCompletedTask(g) \/ ReceiveUnknownTask(g))
          /\ WF_vars(Poll(g)) /\ SF_vars(Poll(g) /\ queue'[g].unsent # {})
    /\ \A w \in Workers :
          /\ WF_vars(TakeTask(w)) /\ WF_vars(LookUpCommitChan(w))
          /\ WF_vars(RequeueTask(w)) /\ WF_vars(CommitTask(w))
          /\ WF_vars(ProcessImmediateTask(w))
          /\ SF_vars(ProcessImmediateTask(w) /\ worker'[w].pc = "succeeded")
    /\ WF_vars(StartQueue)

FairSpec == Spec /\ Fairness
-----------------------------------------------------------------------------
(* Type invariant. *)
Pages == [min : Tasks, max : Tasks]

TypeOK ==
    /\ nextSeq \in 0..MaxTasks
    /\ reserved \subseteq 1..nextSeq /\ rows \subseteq 1..nextSeq /\ handled \subseteq 1..nextSeq
    /\ generation \in 0..MaxGenerations /\ registered \in 0..generation
    /\ \A g \in Generations :
          /\ queue[g].cursor \in Nat
          /\ queue[g].unsent \subseteq 1..nextSeq
          /\ DOMAIN queue[g].pending \subseteq 1..nextSeq
          /\ DOMAIN queue[g].count \subseteq Pages
          /\ queue[g].completed \subseteq Pages
          /\ queue[g].armed \in BOOLEAN /\ queue[g].signal \in BOOLEAN /\ queue[g].alive \in BOOLEAN
          /\ toCommit[g] \in Seq(1..nextSeq) /\ Len(toCommit[g]) <= BufferSize
          /\ late[g] \subseteq 1..nextSeq
    /\ toProcess \in Seq(1..nextSeq) /\ Len(toProcess) <= BufferSize
    /\ \A w \in Workers :
          /\ worker[w].pc \in {"idle", "processing", "succeeded", "failed", "requeue", "commit"}
          /\ worker[w].pc # "idle" => worker[w].task \in 1..nextSeq
          /\ worker[w].pc \in {"requeue", "commit"} => worker[w].gen \in 1..generation

Copies(n, s) == Cardinality({i \in DOMAIN s : s[i] = n})
HeldBy(n) == Cardinality({w \in Workers : worker[w].task = n})

(* The pending count of a page is the number of its tasks that are still   *)
(* to be sent or to be received back: it neither reaches zero early, which *)
(* would declare a page done that is not, nor sticks above zero.           *)
PageAccounting ==
    \A g \in Generations : \A p \in DOMAIN queue[g].count :
        queue[g].count[p] =
              Cardinality({n \in DOMAIN queue[g].pending : queue[g].pending[n] = p})
            + Cardinality({n \in queue[g].unsent : p.min <= n /\ n <= p.max})

(* The queue has had the shard since the server started. *)
Undisturbed(g) == registered = g /\ \A h \in Generations \ {g} : ~queue[h].alive

(* While the shard stays, a task that was sent and not received back is in *)
(* exactly one place: the channel, one worker, or the commit channel.  No  *)
(* task is lost on the way, none is worked on twice at the same time, and  *)
(* receiveCompletedTask finds a page for all that it receives.  When the   *)
(* shard has been away that is not so: the check of the workers for tasks  *)
(* of a lost shard does not see that it came back, and the queue panics.   *)
PendingIsInFlight ==
    \A g \in Generations : Undisturbed(g) => \A n \in Tasks :
        Copies(n, toProcess) + HeldBy(n) + Copies(n, toCommit[g])
            = IF n \in DOMAIN queue[g].pending THEN 1 ELSE 0

(* What the cursor has passed is not forgotten: a row below the cursor of  *)
(* the registered queue has been processed, or is on its way to a worker,  *)
(* across failures, moves of the shard, panics and crashes.  Only a row    *)
(* that became visible after the cursor had passed its number is exempt:   *)
(* nobody reads it until the next queue starts from the first row.         *)
CursorForgetsNothing ==
    registered # 0 => \A n \in rows \ (handled \cup late[registered]) :
        n < queue[registered].cursor =>
            \/ n \in queue[registered].unsent
            \/ Copies(n, toProcess) + HeldBy(n) > 0

(* A page that receiveCompletedTask has moved to the completed pages holds *)
(* no row that is still to be processed, except one that became visible    *)
(* only after the page was read.                                           *)
CompletedPagesAreDone ==
    \A g \in Generations : \A p \in queue[g].completed :
        \A n \in rows : p.min <= n /\ n <= p.max => n \in handled \cup late[g]

(* Polling misses no task: every committed row is eventually processed, or *)
(* deleted by a transaction whose answer was lost, although the shard      *)
(* moves and the server goes down.                                         *)
EveryTaskHandled == \A n \in Tasks : n \in rows ~> n \in handled \/ n \notin rows

(* The same of every row that did not become visible behind the cursor of  *)
(* the queue that has the shard.  A row that did is processed once another *)
(* queue takes over, if one does.                                          *)
EveryTimelyTaskHandled ==
    \A n \in Tasks : n \in rows ~>
        n \in handled \/ n \notin rows \/ (registered # 0 /\ n \in late[registered])
=============================================================================
