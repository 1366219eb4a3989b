---------------------- MODULE MCImmediateTaskProcessor ----------------------
(***************************************************************************)
(* Instances of ImmediateTaskProcessor for TLC.                            *)
(***************************************************************************)
EXTENDS ImmediateTaskProcessor

(* Three attempts within a second; the second interval does not fit into  *)
(* the integers of the model any more, and a field is left to its default. *)
ThreeAttempts ==
    [InitialIntervalSeconds |-> 2, BackoffCoefficient |-> Unset, MaximumIntervalSeconds |-> 3,
     MaximumAttempts |-> 3, MaximumAttemptsDurationSeconds |-> 1]

(* Intervals that become shorter: two seconds, then one. *)
Decreasing ==
    [ThreeAttempts EXCEPT !.BackoffCoefficient = [num |-> 2, den |-> 3]]

SmallConfigs == {ThreeAttempts, Decreasing, NoConfig}

(* An execution of earlier with a smaller id, which starts before the other *)
(* one or after it.                                                        *)
OlderRows == {[id |-> 3, start |-> 1, status |-> "Failed"]}
=============================================================================
