---------------------------- MODULE AsyncService ----------------------------
(***************************************************************************)
(* A cluster of async servers (service/async): membership events change    *)
(* the hash ring of a server, which re-balances its shards; a shard it     *)
(* owns has an immediate and a timer queue, known to the task notifier and *)
(* to the processors, and the channels of those who wait for completions.  *)
(* Around them run what reads all these maps without the service's lock:   *)
(*                                                                         *)
(*   - the workers of the processor, which commit an Execute, notify the   *)
(*     queue of the shard and signal the completion;                       *)
(*   - WaitForProcessCompletion calls, from the API service to the server  *)
(*     that owns the shard, which add themselves to a channel, wait in a   *)
(*     select, and end with a result, a closed channel or their deadline.  *)
(*                                                                         *)
(* A server may die at any point, also by a panic of its own, and come     *)
(* back.  Work on the queues is the subject of ImmediateTaskQueue and      *)
(* TimerTaskQueue, the commit of an Execute that of ProcessStore.          *)
(***************************************************************************)
EXTENDS Naturals, FiniteSets, Sequences, WaitForCompletion

CONSTANTS
    Servers,        \* the async servers
    Shards, Execs, Waiters,
    ShardOf,        \* execution -> its shard
    Owner,          \* set of servers -> shard -> the server the hash ring gives it to
    NoServer, NoExec,
    MaxJoins,       \* bound: servers that start
    MaxFaults       \* bound: servers that die, or are taken for dead by another

ASSUME RingAssumption == \A view \in (SUBSET Servers) \ {{}} : Owner[view] \in [Shards -> view]
ASSUME ShardAssumption == ShardOf \in [Execs -> Shards]
ASSUME NoneAssumption == NoServer \notin Servers /\ NoExec \notin Execs

VARIABLES
    up,        \* the servers that are alive
    ring,      \* server -> the servers in the hash ring of its delegate
    held,      \* server -> map -> the shards that have an entry
    work,      \* server -> what is left to do of the ReBalance that holds the lock
    channels,  \* server -> the channels it made for its shards, old ones included
    object,    \* server -> shard -> the index of its channels
    status,    \* execution -> its status in the process store
    worker,    \* server -> what its worker does
    waiter,    \* WaitForProcessCompletion calls
    joins, faults

vars == <<up, ring, held, work, channels, object, status, worker, waiter, joins, faults>>
-----------------------------------------------------------------------------
(* The maps that have an entry for an owned shard: the service's queues and *)
(* channels, the notifier's queues, the processors' shards and channels.   *)
Maps == {"immediateQueue", "immediateNotifier", "immediateProcessor",
         "timerQueue", "timerNotifier", "timerProcessor", "channels", "signals"}

(* The entries of a shard change in this order; those that nobody reads in *)
(* between change in one step.                                             *)
Step(op, maps) == [op |-> op, maps |-> maps]

(* Faulty variant: the queue is started before it is known to the notifier. *)
CreateStartedFirst == <<
    Step("add", {"immediateProcessor"}), Step("add", {"immediateNotifier", "immediateQueue"}),
    Step("add", {"timerNotifier", "timerQueue", "timerProcessor"}),
    Step("add", {"channels"}), Step("add", {"signals"})>>

(* createQueuesAndStart, createWaitingChannelsAndStart *)
CreateSteps == <<
    Step("add", {"immediateNotifier", "immediateQueue"}), Step("add", {"immediateProcessor"}),
    Step("add", {"timerNotifier", "timerQueue", "timerProcessor"}),
    Step("add", {"channels"}), Step("add", {"signals"})>>

(* Faulty variant: the timer queue stays with the notifier. *)
StopStepsWithoutTimer == <<
    Step("remove", {"immediateProcessor"}), Step("remove", {"immediateNotifier", "immediateQueue"}),
    Step("remove", {"timerProcessor", "timerQueue"}),
    Step("remove", {"signals"}), Step("remove", {"channels"})>>

(* stopQueuesAndRemove, stopWaitingChannelsAndRemove *)
StopSteps == <<
    Step("remove", {"immediateProcessor"}), Step("remove", {"immediateNotifier", "immediateQueue"}),
    Step("remove", {"timerProcessor", "timerNotifier", "timerQueue"}),
    Step("remove", {"signals"}), Step("remove", {"channels"})>>

(* A look-up Signal has made: the channel it will send to. *)
NoCall == [exec |-> NoExec, object |-> 0, chan |-> 0]

(* shards: the steps left per shard to stop or to create; procIds and call *)
(* are the executions Stop has yet to signal and the Signal it is in.      *)
NoWork == [shards |-> {}, steps |-> <<>>, shard |-> 0, procIds |-> {}, call |-> NoCall]
Balanced(s) == work[s] = NoWork

IdleWorker == [pc |-> "idle", exec |-> NoExec, closes |-> FALSE, call |-> NoCall, moved |-> FALSE]

NewWaiter == [pc |-> "new", exec |-> NoExec, server |-> NoServer, object |-> 0, chan |-> 0,
              answer |-> "none", expired |-> FALSE, signalled |-> FALSE]

OnServer == {"asking", "found", "added", "waiting"}
-----------------------------------------------------------------------------
(* A caller that has its deadline behind it has its answer.  NoResult is   *)
(* an error, a timeout, a stop by the system or an empty status.           *)
Answered(x, answer) ==
    [NewWaiter EXCEPT !.pc = "done", !.exec = x.exec, !.answer = IF x.expired THEN x.answer ELSE answer]

(* The server dies: what it has in memory is gone, its connections break.  *)
Dies(s) ==
    /\ up' = up \ {s}
    /\ ring' = [ring EXCEPT ![s] = {}]
    /\ held' = [held EXCEPT ![s] = [m \in Maps |-> {}]]
    /\ work' = [work EXCEPT ![s] = NoWork]
    /\ channels' = [channels EXCEPT ![s] = <<>>]
    /\ object' = [object EXCEPT ![s] = [h \in Shards |-> 0]]
    /\ worker' = [worker EXCEPT ![s] = IdleWorker]
    /\ waiter' = [w \in Waiters |-> IF waiter[w].pc \in OnServer /\ waiter[w].server = s
                                    THEN Answered(waiter[w], "NoResult") ELSE waiter[w]]

Crash(s) ==
    /\ s \in up
    /\ faults < MaxFaults
    /\ faults' = faults + 1
    /\ Dies(s)
    /\ UNCHANGED <<status, joins>>

(***************************************************************************)
(* Membership and re-balancing.                                            *)
(***************************************************************************)
Assigned(s, view) == {h \in Shards : Owner[view][h] = s}

(* ReBalance, up to the point where the shards to stop and to create are   *)
(* known; it compares with the keys of immediateTaskQueueMap.              *)
ReBalance(s, view) ==
    LET mine == held[s]["immediateQueue"]
    IN  [NoWork EXCEPT !.shards =
            {[shard |-> h, steps |-> StopSteps] : h \in mine \ Assigned(s, view)}
            \cup {[shard |-> h, steps |-> CreateSteps] : h \in Assigned(s, view) \ mine}]

(* A server starts: its own join event comes first. *)
Join(s) ==
    /\ s \notin up
    /\ joins < MaxJoins
    /\ joins' = joins + 1
    /\ up' = up \cup {s}
    /\ ring' = [ring EXCEPT ![s] = {s}]
    /\ work' = [work EXCEPT ![s] = ReBalance(s, {s})]
    /\ UNCHANGED <<held, channels, object, status, worker, waiter, faults>>

(* The delegate has a new ring, and re-balances. *)
Changed(m, view) ==
    /\ ring' = [ring EXCEPT ![m] = view]
    /\ work' = [work EXCEPT ![m] = ReBalance(m, view)]
    /\ UNCHANGED <<up, held, channels, object, status, worker, waiter, joins>>

(* A server handles one event at a time. *)
Listening(m) == m \in up /\ Balanced(m)

NotifyJoin(m, n) ==
    /\ Listening(m)
    /\ n \in up \ ring[m]
    /\ Changed(m, ring[m] \cup {n})
    /\ UNCHANGED faults

(* The other server is dead, or taken for dead. *)
NotifyLeave(m, n) ==
    /\ Listening(m)
    /\ n \in ring[m] \ {m}
    /\ n \in up => faults < MaxFaults
    /\ faults' = IF n \in up THEN faults + 1 ELSE faults
    /\ Changed(m, ring[m] \ {n})

(* The shard it is at, or the next one: the shards to stop come first,     *)
(* each list in the order of a Go map.                                     *)
AtWork(s) ==
    LET stops == {x \in work[s].shards : x.steps[1].op = "remove"}
    IN  IF work[s].steps # <<>> THEN {work[s]}
        ELSE {[NoWork EXCEPT !.shards = work[s].shards \ {x}, !.steps = x.steps, !.shard = x.shard] :
                 x \in IF stops # {} THEN stops ELSE work[s].shards}

(* Registering a queue twice with the notifier would panic. *)
Registered(s, x) ==
    x.steps[1].op = "add" /\ \E map \in x.steps[1].maps : x.shard \in held[s][map]

ReBalanceStep(s) == \E x \in AtWork(s) :
    LET step  == Head(x.steps)
        h     == x.shard
        rest  == Tail(x.steps)
        calls == IF step = Step("remove", {"signals"})
                 THEN {e \in Execs : channels[s][object[s][h]].chan[e] # 0} ELSE {}
    IN  /\ work[s].procIds = {} /\ work[s].call = NoCall
        /\ work' = [work EXCEPT ![s] =
              IF rest = <<>> THEN [NoWork EXCEPT !.shards = x.shards]
              ELSE [x EXCEPT !.steps = rest, !.procIds = calls]]
        /\ held' = [held EXCEPT ![s] = [map \in Maps |->
              IF map \notin step.maps THEN @[map]
              ELSE IF step.op = "add" THEN @[map] \cup {h} ELSE @[map] \ {h}]]
        /\ IF step = Step("add", {"channels"})
           THEN /\ channels' = [channels EXCEPT ![s] = Append(@, NewChannels(Execs))]
                /\ object' = [object EXCEPT ![s][h] = Len(channels[s]) + 1]
           ELSE UNCHANGED <<channels, object>>
        /\ worker' = [worker EXCEPT ![s].moved =
              @ \/ (/\ step.op = "remove" /\ worker[s].pc \in {"processing", "notifying"}
                    /\ ShardOf[worker[s].exec] = h)]
        /\ UNCHANGED <<up, ring, status, waiter, joins, faults>>

-----------------------------------------------------------------------------
(***************************************************************************)
(* Signal(e, result) on the channels with index o of server s, once it has *)
(* the lock: those it reaches have their answer, the others are left to    *)
(* the clean-up.  A send to a closed channel panics.                       *)
(***************************************************************************)
OnChannel(s, o, e, n) ==
    {w \in Waiters : /\ waiter[w].pc \in {"added", "waiting"}
                     /\ waiter[w].server = s /\ waiter[w].object = o
                     /\ waiter[w].exec = e /\ waiter[w].chan = n}

Send(s, call, result) ==
    LET o   == call.object
        e   == call.exec
        all == OnChannel(s, o, e, call.chan)
    IN  \E reached \in Reached(channels[s][o], e, {w \in all : waiter[w].pc = "waiting"}) :
          /\ channels' = [channels EXCEPT ![s][o] = Signalled(channels[s][o], e)]
          /\ waiter' = [w \in Waiters |-> IF w \in reached THEN Answered(waiter[w], result)
                                          ELSE IF w \in all THEN [waiter[w] EXCEPT !.signalled = TRUE]
                                          ELSE waiter[w]]

Panics(s, call) == SendPanics(channels[s][call.object], call.exec, call.chan)

LookUp(s, o, e) == [exec |-> e, object |-> o, chan |-> channels[s][o].chan[e]]

(* Stop signals every execution that had a channel when it began: the      *)
(* callers are told that the system stopped.                               *)
StopLooksUp(s) ==
    /\ work[s].call = NoCall
    /\ \E e \in work[s].procIds :
          LET call == LookUp(s, object[s][work[s].shard], e)
          IN  work' = [work EXCEPT ![s].procIds = @ \ {e},
                                   ![s].call = IF call.chan = 0 THEN NoCall ELSE call]
    /\ UNCHANGED <<up, ring, held, channels, object, status, worker, waiter, joins, faults>>

StopSignals(s) ==
    /\ work[s].call # NoCall
    /\ \/ /\ Panics(s, work[s].call)
          /\ Dies(s)
       \/ /\ ~Panics(s, work[s].call)
          /\ Send(s, work[s].call, "NoResult")
          /\ work' = [work EXCEPT ![s].call = NoCall]
          /\ UNCHANGED <<up, ring, held, object, worker>>
    /\ UNCHANGED <<status, joins, faults>>

(* The goroutine that Signal started has slept. *)
CleansUp(s, o, e) ==
    /\ o \in DOMAIN channels[s]
    /\ channels[s][o].cleanups[e] > 0
    /\ channels' = [channels EXCEPT ![s][o] = Cleanup(channels[s][o], e)]
    /\ UNCHANGED <<up, ring, held, work, object, status, worker, waiter, joins, faults>>
-----------------------------------------------------------------------------
(***************************************************************************)
(* A worker of the immediate-task processor.                               *)
(***************************************************************************)
TakeTask(s, e) ==
    /\ worker[s].pc = "idle"
    /\ status[e] = "Running"
    /\ ShardOf[e] \in held[s]["immediateProcessor"]
    /\ worker' = [worker EXCEPT ![s] = [IdleWorker EXCEPT !.pc = "processing", !.exec = e]]
    /\ UNCHANGED <<up, ring, held, work, channels, object, status, waiter, joins, faults>>

(* Faulty variant: a commit that found the process stopped counts. *)
CommitsWhateverTheStatus(s) ==
    /\ worker[s].pc = "processing"
    /\ worker' = [worker EXCEPT ![s].pc = "notifying", ![s].closes = TRUE]
    /\ status' = [status EXCEPT ![worker[s].exec] = IF @ = "Running" THEN "Completed" ELSE @]
    /\ UNCHANGED <<up, ring, held, work, channels, object, waiter, joins, faults>>

(* The commit fails, as it does if the process was closed meanwhile, by    *)
(* the version of its state, or has nothing to notify of; or it closes the *)
(* process; or it leaves the process running with new immediate tasks or a *)
(* new timer.  A state that a late WaitUntil answer revives after          *)
(* TERMINATE_IF_RUNNING has its version again and closes the process a     *)
(* second time: ProcessStore models that, and here such an execution stays *)
(* as it was closed first.                                                 *)
Commits(s) ==
    LET e == worker[s].exec
    IN  /\ worker[s].pc = "processing"
        /\ \/ /\ worker' = [worker EXCEPT ![s] = IdleWorker]
              /\ UNCHANGED status
           \/ /\ status[e] = "Running"
              /\ status' = [status EXCEPT ![e] = "Completed"]
              /\ worker' = [worker EXCEPT ![s].pc = "notifying", ![s].closes = TRUE]
           \/ /\ status[e] = "Running"
              /\ worker' = [worker EXCEPT ![s].pc = "notifying"]
              /\ UNCHANGED status
        /\ UNCHANGED <<up, ring, held, work, channels, object, waiter, joins, faults>>

(* The queues a commit may notify: the one that closes the process has a   *)
(* visibility task, the others immediate tasks or a timer.                 *)
Notified(x) == IF x.closes THEN {"immediateNotifier"} ELSE {"immediateNotifier", "timerNotifier"}

(* NotifyNewImmediateTasks, NotifyNewTimerTasks: a panic if the shard has  *)
(* been removed meanwhile.                                                 *)
Notifies(s) == \E map \in Notified(worker[s]) :
    /\ worker[s].pc = "notifying"
    /\ \/ /\ ShardOf[worker[s].exec] \notin held[s][map]
          /\ Dies(s)
       \/ /\ ShardOf[worker[s].exec] \in held[s][map]
          /\ worker' = [worker EXCEPT ![s] = IF worker[s].closes THEN [worker[s] EXCEPT !.pc = "closed", !.moved = FALSE]
                                             ELSE IdleWorker]
          /\ UNCHANGED <<up, ring, held, work, channels, object, waiter>>
    /\ UNCHANGED <<status, joins, faults>>

WorkerLooksUp(s) ==
    LET h    == ShardOf[worker[s].exec]
        call == LookUp(s, object[s][h], worker[s].exec)
    IN  /\ worker[s].pc = "closed"
        /\ worker' = [worker EXCEPT ![s] =
              IF h \in held[s]["signals"] /\ call.chan # 0
              THEN [worker[s] EXCEPT !.pc = "signalling", !.call = call] ELSE IdleWorker]
        /\ UNCHANGED <<up, ring, held, work, channels, object, status, waiter, joins, faults>>

WorkerSignals(s) ==
    /\ worker[s].pc = "signalling"
    /\ \/ /\ Panics(s, worker[s].call)
          /\ Dies(s)
       \/ /\ ~Panics(s, worker[s].call)
          /\ Send(s, worker[s].call, "Completed")
          /\ worker' = [worker EXCEPT ![s] = IdleWorker]
          /\ UNCHANGED <<up, ring, held, work, object>>
    /\ UNCHANGED <<status, joins, faults>>

(* StopProcess, a process timeout or an RPC closes the process and signals *)
(* nobody.                                                                 *)
ClosedByOthers(e) ==
    /\ status[e] = "Running"
    /\ status' = [status EXCEPT ![e] = "Terminated"]
    /\ UNCHANGED <<up, ring, held, work, channels, object, worker, waiter, joins, faults>>
-----------------------------------------------------------------------------
(***************************************************************************)
(* A WaitForProcessCompletion call: the API service reads the status, asks *)
(* the server its ring names, and waits no longer than its deadline.  Its  *)
(* ring lags behind the others in any way, so it may name any server; if   *)
(* it is empty the API server ends itself.                                 *)
(***************************************************************************)
ReadsStatus(w, e) ==
    /\ waiter[w].pc = "new"
    /\ \/ /\ status[e] # "Running"
          /\ waiter' = [waiter EXCEPT ![w] = Answered([NewWaiter EXCEPT !.exec = e], status[e])]
       \/ /\ status[e] = "Running"
          /\ \E s \in Servers :
                waiter' = [waiter EXCEPT ![w] = [NewWaiter EXCEPT !.pc = "asking", !.exec = e, !.server = s]]
    /\ UNCHANGED <<up, ring, held, work, channels, object, status, worker, joins, faults>>

(* Faulty variant: the server does not look whether it has the shard. *)
HandlesUnowned(w) ==
    LET s == waiter[w].server
        h == ShardOf[waiter[w].exec]
    IN  /\ waiter[w].pc = "asking"
        /\ waiter' = [waiter EXCEPT ![w] =
              IF s \notin up THEN Answered(waiter[w], "NoResult")
              ELSE IF Owner[ring[s]][h] # s THEN [waiter[w] EXCEPT !.server = Owner[ring[s]][h]]
              ELSE [waiter[w] EXCEPT !.pc = "found", !.object = object[s][h]]]
        /\ UNCHANGED <<up, ring, held, work, channels, object, status, worker, joins, faults>>

(* The HTTP handler passes the call on to the server that its own ring     *)
(* names; that server looks for the channels of the shard.                 *)
Handles(w) ==
    LET s == waiter[w].server
        h == ShardOf[waiter[w].exec]
    IN  /\ waiter[w].pc = "asking"
        /\ waiter' = [waiter EXCEPT ![w] =
              IF s \notin up THEN Answered(waiter[w], "NoResult")
              ELSE IF Owner[ring[s]][h] # s THEN [waiter[w] EXCEPT !.server = Owner[ring[s]][h]]
              ELSE IF h \notin held[s]["channels"] THEN Answered(waiter[w], "NoResult")
              ELSE [waiter[w] EXCEPT !.pc = "found", !.object = object[s][h]]]
        /\ UNCHANGED <<up, ring, held, work, channels, object, status, worker, joins, faults>>

AddsItself(w) ==
    LET s   == waiter[w].server
        o   == waiter[w].object
        new == Add(channels[s][o], waiter[w].exec, w)
    IN  /\ waiter[w].pc = "found"
        /\ channels' = [channels EXCEPT ![s][o] = new]
        /\ waiter' = [waiter EXCEPT ![w].pc = "added", ![w].chan = new.chan[waiter[w].exec]]
        /\ UNCHANGED <<up, ring, held, work, object, status, worker, joins, faults>>

EntersSelect(w) ==
    /\ waiter[w].pc = "added"
    /\ waiter' = [waiter EXCEPT ![w].pc = "waiting"]
    /\ UNCHANGED <<up, ring, held, work, channels, object, status, worker, joins, faults>>

(* A closed channel yields the empty string, which is no status. *)
ReceivesNothing(w) ==
    /\ waiter[w].pc = "waiting"
    /\ IsClosed(channels[waiter[w].server][waiter[w].object], waiter[w].exec, waiter[w].chan)
    /\ waiter' = [waiter EXCEPT ![w] = Answered(waiter[w], "NoResult")]
    /\ UNCHANGED <<up, ring, held, work, channels, object, status, worker, joins, faults>>

(* The deadline, at the API service: the caller is told, and the call is   *)
(* cancelled.  One that passes on the way to the select is noticed there.  *)
Deadline(w) ==
    /\ waiter[w].pc \in {"asking", "waiting"}
    /\ ~waiter[w].expired
    /\ waiter' = [waiter EXCEPT ![w] =
          IF waiter[w].pc = "asking" THEN Answered(waiter[w], "NoResult")
          ELSE [waiter[w] EXCEPT !.expired = TRUE, !.answer = "NoResult"]]
    /\ UNCHANGED <<up, ring, held, work, channels, object, status, worker, joins, faults>>

(* The select sees the cancellation: the channels of the shard are looked  *)
(* up again, and requests that are too old, which are of calls that are    *)
(* expired or over, are forgotten there.                                   *)
IsCancelled(w) ==
    LET s == waiter[w].server
        e == waiter[w].exec
        h == ShardOf[e]
        o == object[s][h]
    IN  /\ waiter[w].pc = "waiting" /\ waiter[w].expired
        /\ waiter' = [waiter EXCEPT ![w] = Answered(waiter[w], "NoResult")]
        /\ \/ /\ h \notin held[s]["channels"]
              /\ UNCHANGED channels
           \/ /\ h \in held[s]["channels"]
              /\ \E old \in SUBSET {x \in channels[s][o].waiting[e] :
                                        waiter[x].expired \/ waiter[x].pc = "done"} :
                    channels' = [channels EXCEPT ![s][o] = TerminateWaiting(channels[s][o], e, old)]
        /\ UNCHANGED <<up, ring, held, work, object, status, worker, joins, faults>>
-----------------------------------------------------------------------------
Init ==
    /\ up = {}
    /\ ring = [s \in Servers |-> {}]
    /\ held = [s \in Servers |-> [m \in Maps |-> {}]]
    /\ work = [s \in Servers |-> NoWork]
    /\ channels = [s \in Servers |-> <<>>]
    /\ object = [s \in Servers |-> [h \in Shards |-> 0]]
    /\ status = [e \in Execs |-> "Running"]
    /\ worker = [s \in Servers |-> IdleWorker]
    /\ waiter = [w \in Waiters |-> NewWaiter]
    /\ joins = 0 /\ faults = 0

MemberStep ==
    \/ \E s \in Servers : Join(s) \/ Crash(s)
    \/ \E m \in Servers, n \in Servers : NotifyJoin(m, n) \/ NotifyLeave(m, n)

ReBalanceStarted(s) == ReBalanceStep(s) \/ StopLooksUp(s) \/ StopSignals(s)

WorkerStep(s) ==
    \/ \E e \in Execs : TakeTask(s, e)
    \/ Commits(s) \/ Notifies(s) \/ WorkerLooksUp(s) \/ WorkerSignals(s)

WaiterStep(w) ==
    \/ \E e \in Execs : ReadsStatus(w, e)
    \/ Handles(w) \/ AddsItself(w) \/ EntersSelect(w)
    \/ ReceivesNothing(w) \/ Deadline(w) \/ IsCancelled(w)

Next ==
    \/ MemberStep
    \/ \E s \in Servers : ReBalanceStarted(s) \/ WorkerStep(s)
    \/ \E s \in Servers, e \in Execs : \E o \in DOMAIN channels[s] : CleansUp(s, o, e)
    \/ \E e \in Execs : ClosedByOthers(e)
    \/ \E w \in Waiters : WaiterStep(w)

Spec == Init /\ [][Next]_vars

-----------------------------------------------------------------------------
(* Type invariant. *)
TypeOK ==
    /\ up \subseteq Servers
    /\ ring \in [Servers -> SUBSET Servers]
    /\ held \in [Servers -> [Maps -> SUBSET Shards]]
    /\ status \in [Execs -> {"Running", "Completed", "Terminated"}]
    /\ \A s \in Servers :
          /\ s \notin up => Balanced(s) /\ worker[s] = IdleWorker
          /\ worker[s].pc \in {"idle", "processing", "notifying", "closed", "signalling"}
          /\ \A h \in Shards : object[s][h] \in 0..Len(channels[s])
          /\ \A o \in DOMAIN channels[s], e \in Execs :
                /\ channels[s][o].chan[e] \in 0..channels[s][o].made[e]
                /\ channels[s][o].waiting[e] \subseteq Waiters
    /\ \A w \in Waiters :
          /\ waiter[w].pc \in OnServer \cup {"new", "done"}
          /\ waiter[w].pc \in OnServer => waiter[w].server \in Servers
          /\ waiter[w].pc \in {"found", "added", "waiting"} =>
                waiter[w].object \in DOMAIN channels[waiter[w].server]

(* Whatever the order and overlap of membership events, a server that is   *)
(* not re-balancing holds exactly the shards that its ring gives it, in    *)
(* all eight maps of four objects that ReBalance keeps in step, and it     *)
(* never registers a queue that is still registered, which would panic.    *)
RegistrationsAgree ==
    \A s \in up :
        /\ Balanced(s) => \A map \in Maps : held[s][map] = Assigned(s, ring[s])
        /\ \A x \in AtWork(s) : ~Registered(s, x)

(* While a shard stays with its server a notification finds its queue: a   *)
(* worker meets the panic of the notifier only if the shard has been taken *)
(* away since it took the task, or if it is so quick that it comes before  *)
(* the timer queue, which is registered after the immediate queue started. *)
PanicOnlyAfterMove ==
    \A s \in Servers : \A map \in Notified(worker[s]) :
        LET h == ShardOf[worker[s].exec]
        IN  worker[s].pc = "notifying" /\ h \notin held[s][map] =>
                \/ worker[s].moved
                \/ map = "timerNotifier" /\ work[s].shard = h

(* A status that a waiting caller is told is the one with which its        *)
(* execution was closed, however signals, moves and deadlines interleave.  *)
AnswersAreFinal ==
    \A w \in Waiters : waiter[w].answer \in {"Completed", "Terminated"} =>
        status[waiter[w].exec] = waiter[w].answer

(* A caller's channel is closed under it, which yields an empty status,    *)
(* only when the execution has closed or the shard has left the server,    *)
(* never because of the deadline of another caller.                        *)
ClosedOnlyAfterSignal ==
    \A w \in Waiters : waiter[w].pc \in {"added", "waiting"} =>
        LET s == waiter[w].server
            e == waiter[w].exec
            o == waiter[w].object
        IN  IsClosed(channels[s][o], e, waiter[w].chan) =>
                \/ status[e] # "Running"
                \/ ShardOf[e] \notin held[s]["signals"]
                \/ object[s][ShardOf[e]] # o

(* Nobody whom a signal missed waits for the deadline: the channel of a    *)
(* call that was on it when it was signalled is closed, or a goroutine     *)
(* will close it, even if the shard has left the server.                   *)
SignalledWillWake ==
    \A w \in Waiters :
        LET c == channels[waiter[w].server][waiter[w].object]
        IN  waiter[w].signalled =>
                \/ IsClosed(c, waiter[w].exec, waiter[w].chan)
                \/ c.cleanups[waiter[w].exec] > 0
=============================================================================
