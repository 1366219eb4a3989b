--------------------------- MODULE MCLocalQueues ----------------------------
(***************************************************************************)
(* Instances of ProcessStore with local queues for TLC.                    *)
(***************************************************************************)
EXTENDS MCProcessStore

(* What the state of the local-queue runs waits for. *)
AllOfPairAndTimer == [AllOfPair EXCEPT !.timers = 1]
AllRequests == {EmptyCommand, AnyOfTwoQueues, AllOfPairAndTimer}
TwoPublications ==
    {<<>>, <<Message(q1, 1), Message(q2, 3)>>, <<Message(q1, 1), Message(q1, 2), Message(q1, 4)>>}
TwiceAOrGraceful == {[next |-> [NoNext EXCEPT ![A] = 2], close |-> "NONE"], Close("GRACEFUL_COMPLETE_PROCESS")}
=============================================================================
