---------------------------- MODULE LocalQueues ----------------------------
(***************************************************************************)
(* The local queues of one process execution, as the column               *)
(* state_execution_local_queues of its row keeps them:                     *)
(* persistence/data_models/state_execution_local_queues_json.go.           *)
(*                                                                         *)
(* A local-queue value q has two fields:                                   *)
(*   q.cmds[s]  the commands state execution s still waits for: a function *)
(*              from command index to [queue, count]; empty if there is no *)
(*              entry for s in StateToLocalQueueCommandsMap;               *)
(*   q.msgs[n]  the messages of queue n nobody has consumed, oldest first; *)
(*              empty if UnconsumedLocalQueueMessages has no entry for n.  *)
(* A message is a record with the fields queue and id (its dedup id).      *)
(*                                                                         *)
(* Go iterates over maps in an unspecified order, so what the code does    *)
(* with them is a SET of outcomes here, one for each order that matters.   *)
(***************************************************************************)
EXTENDS Naturals, Sequences, FiniteSets, SequencesExt

NoCommands == <<>>

NewLocalQueues(states, queues) ==
    [cmds |-> [s \in states |-> NoCommands], msgs |-> [n \in queues |-> <<>>]]

(* A command with no count waits for one message. *)
WithDefaultCount(c) == IF c.count = 0 THEN [c EXCEPT !.count = 1] ELSE c

(* Faulty variant: only the first command is registered. *)
AddFirstCommand(q, s, commands) ==
    [q EXCEPT !.cmds[s] = [i \in {1} |-> WithDefaultCount(commands[1])]]

AddNewLocalQueueCommands(q, s, commands) ==
    [q EXCEPT !.cmds[s] =
        [i \in DOMAIN commands \cup DOMAIN q.cmds[s] |->
            IF i \in DOMAIN commands THEN WithDefaultCount(commands[i])
                                     ELSE q.cmds[s][i]]]

(* Faulty variant: the commands are not cleaned up. *)
CleanupForgotten(q, s) == q

CleanupFor(q, s) == [q EXCEPT !.cmds[s] = NoCommands]

(* Faulty variant: one message too many is asked for. *)
SatisfiableByMore(q, c) == c.count < Len(q.msgs[c.queue])

Satisfiable(q, c) == c.count <= Len(q.msgs[c.queue])

(* Take the oldest messages for command i of s: its entry disappears. *)
Consume(q, s, i) ==
    LET c == q.cmds[s][i]
    IN  [cmds |-> [q.cmds EXCEPT ![s] = [j \in DOMAIN q.cmds[s] \ {i} |-> q.cmds[s][j]]],
         msgs |-> [q.msgs EXCEPT ![c.queue] = SubSeq(q.msgs[c.queue], c.count + 1, Len(q.msgs[c.queue]))]]

Consumed(q, s, i) == SubSeq(q.msgs[q.cmds[s][i].queue], 1, q.cmds[s][i].count)

(***************************************************************************)
(* One message arrives; at most one command, any of those it completes,    *)
(* consumes.  got is a function from <<state, index>> to the messages.     *)
(***************************************************************************)
AddMessageAndTryConsume(o, m) ==
    LET q     == [o.q EXCEPT !.msgs[m.queue] = Append(o.q.msgs[m.queue], m)]
        ready == {x \in UNION {{s} \X DOMAIN q.cmds[s] : s \in DOMAIN q.cmds} :
                    /\ q.cmds[x[1]][x[2]].queue = m.queue
                    /\ Satisfiable(q, q.cmds[x[1]][x[2]])}
    IN  IF ready = {}
        THEN {[o EXCEPT !.q = q]}
        ELSE {[q   |-> Consume(q, x[1], x[2]),
               got |-> [y \in DOMAIN o.got \cup {x} |->
                            IF y = x THEN Consumed(q, x[1], x[2]) ELSE o.got[y]]] : x \in ready}

(* A batch of messages, one after the other. *)
AddMessages(q, ms) ==
    LET outcomes[i \in 0..Len(ms)] ==
            IF i = 0 THEN {[q |-> q, got |-> <<>>]}
            ELSE UNION {AddMessageAndTryConsume(o, ms[i]) : o \in outcomes[i - 1]}
    IN  outcomes[Len(ms)]

(***************************************************************************)
(* A state execution that has just registered its commands takes what is   *)
(* already there: one command if any of them is enough, otherwise all it   *)
(* can, in the order the map is walked.                                    *)
(***************************************************************************)
TryConsumeOne(o, s, i, waitingType) ==
    IF \/ waitingType = "ANY_OF_COMPLETION" /\ o.got # <<>>
       \/ ~Satisfiable(o.q, o.q.cmds[s][i])
    THEN o
    ELSE [q   |-> Consume(o.q, s, i),
          got |-> [j \in DOMAIN o.got \cup {i} |-> IF j = i THEN Consumed(o.q, s, i) ELSE o.got[j]]]

(* Try the commands of s in the order w. *)
ConsumeInOrder(q, s, waitingType, w) ==
    LET after[i \in 0..Len(w)] ==
            IF i = 0 THEN [q |-> q, got |-> <<>>]
            ELSE TryConsumeOne(after[i - 1], s, w[i], waitingType)
    IN  after[Len(w)]

(* One command was enough: the others are forgotten. *)
CleanedUp(o, s, waitingType) ==
    IF waitingType = "ANY_OF_COMPLETION" /\ o.got # <<>>
    THEN [o EXCEPT !.q = CleanupFor(o.q, s)] ELSE o

TryConsumeForStateExecution(q, s, waitingType) ==
    {CleanedUp(ConsumeInOrder(q, s, waitingType, w), s, waitingType) : w \in SetToSeqs(DOMAIN q.cmds[s])}

(***************************************************************************)
(* No message is stuck: while a command waits, its queue holds fewer       *)
(* messages than the command asks for.                                     *)
(***************************************************************************)
NothingSatisfiable(q) ==
    \A s \in DOMAIN q.cmds : \A i \in DOMAIN q.cmds[s] :
        Len(q.msgs[q.cmds[s][i].queue]) < q.cmds[s][i].count
=============================================================================
