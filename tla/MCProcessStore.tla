--------------------------- MODULE MCProcessStore ---------------------------
(***************************************************************************)
(* Instances of ProcessStore for TLC.                                      *)
(***************************************************************************)
EXTENDS ProcessStore, TLC

CONSTANTS e1, e2, p1, A, B, q1, q2, w1, w2, c1

ExecSymmetry == Permutations(Execs)
WorkerSymmetry == Permutations(Workers)

NoNext == [id \in StateIds |-> 0]
GoTo(id) == [next |-> [x \in StateIds |-> IF x = id THEN 1 ELSE 0], close |-> "NONE"]
Close(type) == [next |-> NoNext, close |-> type]

FailOnly == [id \in StateIds |-> NoState]
ProceedToB == [id \in StateIds |-> IF id = A THEN B ELSE NoState]

OneTimer == [waitingType |-> "ANY_OF_COMPLETION", queues |-> <<>>, timers |-> 1]
OnlyEmpty == {EmptyCommand}
JustTimer == {OneTimer}

AllPolicies == {"DISALLOW_REUSE", "ALLOW_IF_NO_RUNNING",
                "ALLOW_IF_PREVIOUS_EXIT_ABNORMALLY", "TERMINATE_IF_RUNNING"}

NextA == {GoTo(A), Close("DEAD_END"), Close("GRACEFUL_COMPLETE_PROCESS"), Close("FORCE_FAIL_PROCESS")}
JustDone == {Close("FORCE_COMPLETE_PROCESS")}
NoMessages == {<<>>}

(* The application of the local-queue runs: a state that waits for messages *)
(* of two queues, or for two of one, and messages that some calls repeat.  *)
Message(queue, id) == [queue |-> queue, id |-> id]
Command(queue, count) == [queue |-> queue, count |-> count]
AnyOfTwoQueues == [waitingType |-> "ANY_OF_COMPLETION", timers |-> 0,
                   queues |-> <<Command(q1, 0), Command(q2, 1)>>]
AllOfPair == [waitingType |-> "ALL_OF_COMPLETION", timers |-> 0,
              queues |-> <<Command(q1, 2), Command(q1, 1)>>]
=============================================================================
