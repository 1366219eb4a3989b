--------------------------- MODULE TimerTaskQueue ---------------------------
(***************************************************************************)
(* From a row of the timer_tasks table to the processing of the timer: the *)
(* timer queue of one shard (engine/timer_task_queue.go) with its three    *)
(* gates, and the workers it hands fired timers to                         *)
(* (engine/timer_task_concurrent_processor.go).                            *)
(*                                                                         *)
(* The queue is one goroutine.  It preloads the timers of a time window    *)
(* into a heap and fires them from there; a timer created inside the       *)
(* window is loaded by a triggered poll if its notification arrives, and   *)
(* by the next preload if not.  The rows are deleted by the workers.       *)
(*                                                                         *)
(* A timer is its task_sequence; fire is its fire_time_unix_seconds and    *)
(* now the clock, in the same unit.  The heap is a set: HeapWasLoaded says *)
(* that the queue never pushes a timer it holds.                           *)
(***************************************************************************)
EXTENDS TimerGate, FiniteSets, Sequences, FiniteSetsExt

CONSTANTS
    Workers,          \* the goroutines of the processor
    BufferSize,       \* ProcessorBufferSize
    NotifyBufferSize, \* TriggerNotificationBufferSize
    PageSize,         \* MaxPreloadPageSize
    LookAhead,        \* MaxTimerPreloadLookAhead
    Jitter,           \* IntervalJitter, exclusive
    MaxTimers,        \* bound: rows ever inserted
    FireTimestamps,   \* bound: when timers are set for
    LastInsert,       \* bound: when the last row is inserted
    MaxTime,          \* bound: where the clock stops
    MaxCrashes,       \* bound: how often the server goes down
    MayFail,          \* whether a worker may end with an error
    MayKeepRow,       \* whether processing may end well and leave the row
    Punctual          \* whether the clock waits for the queue and the workers

ASSUME TimerSizeAssumption ==
    /\ BufferSize \in Nat \ {0} /\ NotifyBufferSize \in Nat \ {0} /\ PageSize \in Nat \ {0}
    /\ LookAhead \in Nat \ {0} /\ Jitter \in Nat \ {0}
    /\ MaxTimers \in Nat /\ FireTimestamps \subseteq Nat /\ LastInsert \in Nat /\ MaxTime \in Nat /\ MaxCrashes \in Nat
    /\ MayFail \in BOOLEAN /\ MayKeepRow \in BOOLEAN /\ Punctual \in BOOLEAN

VARIABLES
    now,
    rows,                    \* the table
    fire, since,             \* timer -> when it is due, when its row was committed
    notices,                 \* timers whose notification is still on its way
    polling,                 \* triggeredPollingChan: the timers notified of
    requests,                \* currentNotifyRequests: the timestamps asked for
    preload, firing, trigger,\* nextPreloadTimer, nextFiringTimer, triggerPollTimer
    heap,                    \* remainingToFireTimersHeap
    maxLoaded,               \* currMaxLoadedTaskSequence
    window,                  \* currWindowTimestamp
    pc,                      \* where the queue's goroutine is
    toProcess,               \* taskToProcessChan
    worker,
    processed,               \* history: the timers processed without an error
    crashes

table == <<rows, fire, since>>
gates == <<preload, firing, trigger>>
loaded == <<heap, maxLoaded, window>>
processor == <<toProcess, worker>>
memory == <<polling, requests, gates, loaded, pc, processor>>
vars == <<now, table, notices, memory, processed, crashes>>
-----------------------------------------------------------------------------
Timers == 1..MaxTimers
Never == MaxTime + 1
IdleWorker == [pc |-> "idle", task |-> 0]

FireTimes(S) == {fire[n] : n \in S}
InProcessor(n) == (\E i \in DOMAIN toProcess : toProcess[i] = n) \/ (\E w \in Workers : worker[w].task = n)

(* A transaction inserts a timer and commits.  Numbers are drawn before    *)
(* the commit, so that rows become visible in any order of them, and a     *)
(* timer may be due already.  Whoever committed then sends a notification. *)
InsertTimer(n, t) ==
    /\ since[n] = Never
    /\ now <= LastInsert
    /\ rows' = rows \cup {n}
    /\ fire' = [fire EXCEPT ![n] = t]
    /\ since' = [since EXCEPT ![n] = now]
    /\ notices' = notices \cup {n}
    /\ UNCHANGED <<now, memory, processed, crashes>>

(* NotifyPollingTimerTask, TriggerPollingTasks: notifications arrive in    *)
(* any order or not at all, and block while the channel is full.           *)
Notify(n) ==
    /\ n \in notices
    /\ Cardinality(polling) < NotifyBufferSize
    /\ notices' = notices \ {n}
    /\ polling' = polling \cup {n}
    /\ UNCHANGED <<now, table, requests, gates, loaded, pc, processor, processed, crashes>>
-----------------------------------------------------------------------------
(* The Go timers and the goroutines of the gates. *)
GateStep ==
    /\ \/ /\ \/ Due(preload, now) /\ preload' = Expire(preload)
             \/ preload.tick /\ preload' = Forward(preload)
          /\ UNCHANGED <<firing, trigger>>
       \/ /\ \/ Due(firing, now) /\ firing' = Expire(firing)
             \/ firing.tick /\ firing' = Forward(firing)
          /\ UNCHANGED <<preload, trigger>>
       \/ /\ \/ Due(trigger, now) /\ trigger' = Expire(trigger)
             \/ trigger.tick /\ trigger' = Forward(trigger)
          /\ UNCHANGED <<preload, firing>>
    /\ UNCHANGED <<now, table, notices, polling, requests, loaded, pc, processor, processed, crashes>>

(* The preload timer has fired and every loaded timer has been sent.       *)
ShouldLoadNextWindowBatch == ~IsActive(preload) /\ heap = {}

(* The preload case of the select. *)
ReceivePreload ==
    /\ pc = "select"
    /\ preload.signal
    /\ preload' = Received(preload)
    /\ pc' = IF ShouldLoadNextWindowBatch THEN "loading" ELSE "select"
    /\ UNCHANGED <<now, table, notices, polling, requests, firing, trigger, loaded, processor, processed, crashes>>

(* GetTimerTasksUpToTimestamp: by fire time and number, a page at most.    *)
Before(m, n) == fire[m] < fire[n] \/ (fire[m] = fire[n] /\ m < n)

GetTimerTasksUpToTimestamp(t) ==
    LET due == {n \in rows : fire[n] <= t}
    IN  {n \in due : Cardinality({m \in due : Before(m, n)}) < PageSize}

GetNextPollTimes(interval) == {now + interval + j : j \in 0..(Jitter - 1)}

(* loadAndDispatchAndPrepareNext, when the read succeeds.  What has been   *)
(* notified so far is dropped: the read finds it.  A full page shortens    *)
(* the window to the last timer of the page.                               *)
LoadAndDispatchAndPrepareNext ==
    /\ pc = "loading"
    /\ \E t \in GetNextPollTimes(LookAhead) :
         LET page == GetTimerTasksUpToTimestamp(t)
             last == IF Cardinality(page) = PageSize THEN Max(FireTimes(page)) ELSE t
         IN  /\ heap' = page
             /\ firing' = IF page = {} THEN firing ELSE Update(firing, Min(FireTimes(page)))
             /\ preload' = Update(preload, last)
             /\ window' = last
             /\ maxLoaded' = Max(page \cup {0})
    /\ polling' = {} /\ requests' = {}
    /\ trigger' = Stop(trigger)
    /\ pc' = "select"
    /\ UNCHANGED <<now, table, notices, processor, processed, crashes>>

(* The firing case of the select, then sendAllFiredTimerTasksToProcessor   *)
(* one timer at a time: a send blocks while the channel is full.           *)
ReceiveFiring ==
    /\ pc = "select"
    /\ firing.signal
    /\ firing' = Received(firing)
    /\ pc' = "sending"
    /\ UNCHANGED <<now, table, notices, polling, requests, preload, trigger, loaded, processor, processed, crashes>>

(* Faulty variant: the send does not wait for room. *)
SendBeyondBuffer ==
    /\ pc = "sending"
    /\ \E n \in heap :
         /\ fire[n] <= now
         /\ \A m \in heap : fire[n] <= fire[m]
         /\ heap' = heap \ {n}
         /\ toProcess' = Append(toProcess, n)
    /\ UNCHANGED <<now, table, notices, polling, requests, gates, maxLoaded, window, pc, worker, processed, crashes>>

SendFiredTimerTask ==
    /\ pc = "sending"
    /\ Len(toProcess) < BufferSize
    /\ \E n \in heap :
         /\ fire[n] <= now
         /\ \A m \in heap : fire[n] <= fire[m]
         /\ heap' = heap \ {n}
         /\ toProcess' = Append(toProcess, n)
    /\ UNCHANGED <<now, table, notices, polling, requests, gates, maxLoaded, window, pc, worker, processed, crashes>>

(* Faulty variants: the next window is left to the preload timer alone;    *)
(* the firing timer is not set again.                                      *)
EndSendingWithoutLoading ==
    /\ pc = "sending"
    /\ \A n \in heap : fire[n] > now
    /\ firing' = IF heap = {} THEN firing ELSE Update(firing, Min(FireTimes(heap)))
    /\ pc' = "select"
    /\ UNCHANGED <<now, table, notices, polling, requests, preload, trigger, loaded, processor, processed, crashes>>

EndSendingWithoutTimer ==
    /\ pc = "sending"
    /\ \A n \in heap : fire[n] > now
    /\ pc' = IF ShouldLoadNextWindowBatch THEN "loading" ELSE "select"
    /\ UNCHANGED <<now, table, notices, polling, requests, gates, loaded, processor, processed, crashes>>

(* No loaded timer is due (any more): set the timer for the next one, and  *)
(* load the next window if this one is done with.                          *)
EndSending ==
    /\ pc = "sending"
    /\ \A n \in heap : fire[n] > now
    /\ firing' = IF heap = {} THEN firing ELSE Update(firing, Min(FireTimes(heap)))
    /\ pc' = IF ShouldLoadNextWindowBatch THEN "loading" ELSE "select"
    /\ UNCHANGED <<now, table, notices, polling, requests, preload, trigger, loaded, processor, processed, crashes>>

(* filterNotifyRequest: what lies beyond the window is left to a preload.  *)
FilterNotifyRequest(times) == {t \in times : t <= window}

(* drainAllNotifyRequests, from the select. *)
DrainAllNotifyRequests ==
    LET times == FilterNotifyRequest(FireTimes(polling))
    IN  /\ pc = "select"
        /\ polling # {}
        /\ polling' = {}
        /\ requests' = requests \cup times
        /\ trigger' = IF times # {} /\ InactiveOrFireAfter(trigger, Min(times))
                      THEN Update(trigger, Min(times)) ELSE trigger
        /\ UNCHANGED <<now, table, notices, preload, firing, loaded, pc, processor, processed, crashes>>

(* GetTimerTasksForTimestamps. *)
GetTimerTasksForTimestamps(times, min) == {n \in rows : fire[n] \in times /\ n >= min}

(* Faulty variant: the largest loaded number is not moved on. *)
TriggeredPollingSameSequence ==
    LET new == GetTimerTasksForTimestamps(requests, maxLoaded + 1)
    IN  /\ pc = "select"
        /\ trigger.signal
        /\ trigger' = Received(trigger)
        /\ requests' = {}
        /\ heap' = heap \cup new
        /\ firing' = IF new # {} /\ InactiveOrFireAfter(firing, Min(FireTimes(new)))
                     THEN Update(firing, Min(FireTimes(new))) ELSE firing
        /\ UNCHANGED <<now, table, notices, polling, preload, maxLoaded, window, pc, processor, processed, crashes>>

(* triggeredPolling, when the read succeeds.  Without a request there is   *)
(* nothing to read, and so nothing new.                                    *)
TriggeredPolling ==
    LET new == GetTimerTasksForTimestamps(requests, maxLoaded + 1)
    IN  /\ pc = "select"
        /\ trigger.signal
        /\ trigger' = Received(trigger)
        /\ requests' = {}
        /\ heap' = heap \cup new
        /\ maxLoaded' = IF new = {} THEN maxLoaded ELSE Max(new)
        /\ firing' = IF new # {} /\ InactiveOrFireAfter(firing, Min(FireTimes(new)))
                     THEN Update(firing, Min(FireTimes(new))) ELSE firing
        /\ UNCHANGED <<now, table, notices, polling, preload, window, pc, processor, processed, crashes>>
-----------------------------------------------------------------------------
(* The workers.  The shard stays with the server, so none of its timers is *)
(* skipped as stale.                                                       *)
TakeTimer(w) ==
    /\ worker[w].pc = "idle"
    /\ toProcess # <<>>
    /\ toProcess' = Tail(toProcess)
    /\ worker' = [worker EXCEPT ![w] = [pc |-> "processing", task |-> Head(toProcess)]]
    /\ UNCHANGED <<now, table, notices, polling, requests, gates, loaded, pc, processed, crashes>>

(* processTimerTask: the row is deleted, unless a timer command finds its  *)
(* state execution not waiting; an error may hide a commit.                *)
ProcessTimerTask(w) ==
    LET n == worker[w].task
    IN  /\ worker[w].pc = "processing"
        /\ \/ /\ rows' \in {rows \ {n}} \cup (IF MayKeepRow THEN {rows} ELSE {})
              /\ worker' = [worker EXCEPT ![w] = IdleWorker]
              /\ processed' = processed \cup {n}
           \/ /\ MayFail
              /\ rows' \in {rows, rows \ {n}}
              /\ worker' = [worker EXCEPT ![w].pc = "requeue"]
              /\ UNCHANGED processed
        /\ UNCHANGED <<now, fire, since, notices, polling, requests, gates, loaded, pc, toProcess, crashes>>

RequeueTimer(w) ==
    /\ worker[w].pc = "requeue"
    /\ Len(toProcess) < BufferSize
    /\ toProcess' = Append(toProcess, worker[w].task)
    /\ worker' = [worker EXCEPT ![w] = IdleWorker]
    /\ UNCHANGED <<now, table, notices, polling, requests, gates, loaded, pc, processed, crashes>>
-----------------------------------------------------------------------------
(* A new server process: what was in memory is gone, and Start sets the    *)
(* preload timer for at once.                                              *)
Fresh ==
    /\ polling' = {} /\ requests' = {}
    /\ preload' = Update(NewGate, now) /\ firing' = NewGate /\ trigger' = NewGate
    /\ heap' = {} /\ maxLoaded' = 0 /\ window' = 0
    /\ pc' = "select"
    /\ toProcess' = <<>> /\ worker' = [w \in Workers |-> IdleWorker]

(* The server crashes at any time.  A failed read of the table, in a       *)
(* preload or in a triggered poll, is one way: the store returns no        *)
(* response with the error, and the closing log line counts its tasks.     *)
Restart ==
    /\ crashes < MaxCrashes
    /\ crashes' = crashes + 1
    /\ Fresh
    /\ UNCHANGED <<now, table, notices, processed>>

(* The clock.  Punctual: what the queue and the workers have to do takes   *)
(* no time.                                                                *)
Quiet ==
    /\ pc = "select" /\ polling = {} /\ toProcess = <<>>
    /\ \A w \in Workers : worker[w].pc = "idle"
    /\ \A g \in {preload, firing, trigger} : ~WillSignalBy(g, now)

Tick ==
    /\ now < MaxTime
    /\ Punctual => Quiet
    /\ now' = now + 1
    /\ UNCHANGED <<table, notices, memory, processed, crashes>>

Init ==
    /\ now = 0
    /\ rows = {} /\ notices = {}
    /\ fire = [n \in Timers |-> 0] /\ since = [n \in Timers |-> Never]
    /\ polling = {} /\ requests = {}
    /\ preload = Update(NewGate, 0) /\ firing = NewGate /\ trigger = NewGate
    /\ heap = {} /\ maxLoaded = 0 /\ window = 0
    /\ pc = "select"
    /\ toProcess = <<>> /\ worker = [w \in Workers |-> IdleWorker]
    /\ processed = {} /\ crashes = 0

TableStep ==
    \E n \in Timers : Notify(n) \/ \E t \in FireTimestamps : InsertTimer(n, t)

QueueStep ==
    \/ ReceivePreload \/ LoadAndDispatchAndPrepareNext
    \/ ReceiveFiring \/ SendFiredTimerTask \/ EndSending
    \/ DrainAllNotifyRequests \/ TriggeredPolling

WorkerStep(w) == TakeTimer(w) \/ ProcessTimerTask(w) \/ RequeueTimer(w)

Next ==
    \/ TableStep \/ GateStep \/ QueueStep
    \/ \E w \in Workers : WorkerStep(w)
    \/ Restart \/ Tick

Spec == Init /\ [][Next]_vars

(***************************************************************************)
(* The clock goes on, Go timers expire, goroutines get to run, and a       *)
(* timer's processing does not fail forever.  A select with several ready  *)
(* cases takes one at random: the preload and the firing case are not      *)
(* passed over for good.  Nothing makes a notification arrive, a           *)
(* transaction commit or a triggered poll happen.                          *)
(***************************************************************************)
Fairness ==
    /\ WF_vars(Tick) /\ WF_vars(GateStep) /\ WF_vars(QueueStep)
    /\ SF_vars(ReceivePreload) /\ SF_vars(ReceiveFiring)
    /\ \A w \in Workers :
          /\ WF_vars(WorkerStep(w))
          /\ SF_vars(ProcessTimerTask(w) /\ worker'[w].pc = "idle")

FairSpec == Spec /\ Fairness
-----------------------------------------------------------------------------
(* Type invariant. *)
TypedGate(gate) ==
    /\ gate.wake \in Nat
    /\ {gate.active, gate.armed, gate.tick, gate.signal} \subseteq BOOLEAN
    /\ gate.active => gate.armed \/ gate.tick

Inserted == {n \in Timers : since[n] # Never}

TypeOK ==
    /\ now \in 0..MaxTime /\ crashes \in 0..MaxCrashes
    /\ rows \subseteq Inserted
    /\ notices \subseteq Inserted /\ polling \subseteq Inserted
    /\ Cardinality(polling) <= NotifyBufferSize
    /\ requests \subseteq FireTimes(Inserted)
    /\ TypedGate(preload) /\ TypedGate(firing) /\ TypedGate(trigger)
    /\ heap \subseteq Inserted /\ maxLoaded \in Inserted \cup {0} /\ window \in Nat
    /\ pc \in {"select", "sending", "loading"}
    /\ toProcess \in Seq(Inserted) /\ Len(toProcess) <= BufferSize
    /\ \A w \in Workers : worker[w].pc # "idle" => worker[w].task \in Inserted
    /\ processed \subseteq Inserted

(* A loaded timer is fired on time: whenever the queue waits with timers   *)
(* in its heap, the firing gate signals no later than the first of them is *)
(* due, however updates, stops, ticks and late signals of it interleave.   *)
HeapHasAlarm == pc = "select" /\ heap # {} => WillSignalBy(firing, Min(FireTimes(heap)))

(* The queue never falls asleep: while it waits, the end of the window or  *)
(* the first loaded timer will wake it, and that of the heap will in turn  *)
(* make it load the next window.                                           *)
NeverAsleep ==
    pc = "select" => \/ WillSignalBy(preload, Max({window, now}))
                     \/ heap # {} /\ WillSignalBy(firing, Max({window, now}))

(* A request for a triggered poll is not left lying: the trigger gate will *)
(* signal by the earliest timestamp requested.                             *)
RequestsHaveAlarm == pc = "select" /\ requests # {} => WillSignalBy(trigger, Min(requests))

(* What the heap holds is not above the largest loaded number, so that a   *)
(* triggered poll, which reads above it, does not load a timer again that  *)
(* waits in the heap, and it lies inside the window.                       *)
HeapWasLoaded == \A n \in heap : n <= maxLoaded /\ fire[n] <= window

(* MaxTimerPreloadLookAhead bounds the delay: when the server keeps up, a  *)
(* timer is handed to the processor when it is due or, its notification    *)
(* lost, one look-ahead (with jitter) after it was created, across full    *)
(* pages and restarts.                                                     *)
DelayIsBounded ==
    \A n \in rows \ processed :
        InProcessor(n) \/ now <= Max({fire[n], since[n] + LookAhead + Jitter - 1})

(* Every timer is eventually processed, with its notification or without.  *)
EveryTimerFires == \A n \in Timers : n \in rows ~> n \in processed
=============================================================================
