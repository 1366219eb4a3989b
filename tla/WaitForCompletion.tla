------------------------- MODULE WaitForCompletion -------------------------
(***************************************************************************)
(* The channels of one shard on which callers wait for the completion of   *)
(* process executions (engine/wait_for_process_completion_channel.go), as  *)
(* operators on a record:                                                  *)
(*                                                                         *)
(*   chan     execution -> the number of its channel in channelMap, 0: none*)
(*   made     execution -> how many channels were made for it              *)
(*   waiting  execution -> the requests in waitingRequestCreatedAt         *)
(*   cleanups execution -> the goroutines that sleep before a cleanup      *)
(*                                                                         *)
(* A channel has no buffer: a send that does not block reaches only those  *)
(* who are in their select at that moment.  A channel leaves the map only  *)
(* when it is closed, so one that is not in the map is closed.             *)
(***************************************************************************)
EXTENDS Naturals, FiniteSets

NewChannels(execs) ==
    [chan     |-> [e \in execs |-> 0],
     made     |-> [e \in execs |-> 0],
     waiting  |-> [e \in execs |-> {}],
     cleanups |-> [e \in execs |-> 0]]

(* The channel is made by the first request of an execution. *)
Add(c, e, request) ==
    IF c.chan[e] # 0 THEN [c EXCEPT !.waiting[e] = c.waiting[e] \cup {request}]
    ELSE [c EXCEPT !.chan[e] = c.made[e] + 1, !.made[e] = c.made[e] + 1,
                   !.waiting[e] = c.waiting[e] \cup {request}]

IsClosed(c, e, n) == c.chan[e] # n

(* Signal sends once per request it knows of, and a send goes to one of    *)
(* those who are receiving.                                                *)
Reached(c, e, receivers) ==
    {r \in SUBSET receivers :
        Cardinality(r) = IF Cardinality(receivers) < Cardinality(c.waiting[e])
                         THEN Cardinality(receivers) ELSE Cardinality(c.waiting[e])}

(* Signal looks the channel up before it takes the lock: it panics if the  *)
(* channel has been closed meanwhile and a new request has come.           *)
SendPanics(c, e, n) == IsClosed(c, e, n) /\ c.waiting[e] # {}

(* Faulty variant: nobody is told to clean up. *)
SignalledForGood(c, e) == [c EXCEPT !.waiting[e] = {}]

Signalled(c, e) == [c EXCEPT !.waiting[e] = {}, !.cleanups[e] = c.cleanups[e] + 1]

(* Faulty variant: a request that is too old takes the channel with it. *)
TerminateWaitingCloses(c, e, old) ==
    [c EXCEPT !.waiting[e] = c.waiting[e] \ old,
              !.chan[e] = IF old = {} THEN c.chan[e] ELSE 0]

(* TerminateWaiting forgets the requests that are too old.  Its test for   *)
(* an execution without requests is made on the whole map, which has an    *)
(* entry for the execution, so the channel always stays.                   *)
TerminateWaiting(c, e, old) == [c EXCEPT !.waiting[e] = c.waiting[e] \ old]

Cleanup(c, e) == [c EXCEPT !.chan[e] = 0, !.waiting[e] = {}, !.cleanups[e] = c.cleanups[e] - 1]
=============================================================================
