------------------------------ MODULE Backoff -------------------------------
(***************************************************************************)
(* The retry policy of a worker API (engine/backoff.go): whether a failed  *)
(* call is tried again, and after how many seconds.  The interval is a     *)
(* product in floating point, converted to int32.  The coefficient is a    *)
(* fraction of integers here, as every finite float32 is, and the product  *)
(* exact: the rounding of a float64 is left out, and so is what becomes of *)
(* zero seconds times a power beyond its range.                            *)
(***************************************************************************)
EXTENDS Integers

CONSTANTS
    Unset,      \* a field of a policy that was not given
    MaxInt      \* the largest int32; a smaller one in a model that is to reach it

ASSUME IntAssumption == MaxInt \in Nat \ {0}

MinInt == -MaxInt - 1

Fractions == [num : Int, den : Nat \ {0}]

(* const.go *)
defaultWorkerTaskBackoffRetryPolicy ==
    [InitialIntervalSeconds |-> 1, BackoffCoefficient |-> [num |-> 2, den |-> 1], MaximumIntervalSeconds |-> 120,
     MaximumAttempts |-> 0, MaximumAttemptsDurationSeconds |-> 0]

setDefaultRetryPolicyValue(policy) ==
    [f \in DOMAIN policy |->
        IF policy[f] = Unset THEN defaultWorkerTaskBackoffRetryPolicy[f] ELSE policy[f]]

(* The initial interval multiplied n times by the coefficient. *)
Power(init, coefficient, n) ==
    LET power[k \in 0..n] ==
            IF k = 0 THEN [num |-> init, den |-> 1]
            ELSE [num |-> power[k - 1].num * coefficient.num, den |-> power[k - 1].den * coefficient.den]
    IN  power[n]

(* Towards zero. *)
Truncated(x) == IF x.num >= 0 THEN x.num \div x.den ELSE -((-x.num) \div x.den)

(* What the conversion of a number out of range yields depends on the      *)
(* processor: the smallest number (amd64) or the nearest one (arm64).      *)
ToInt32(x) ==
    LET i == Truncated(x)
    IN  IF i > MaxInt THEN {MinInt, MaxInt} ELSE IF i < MinInt THEN {MinInt} ELSE {i}

(* Faulty variant: one attempt more than the policy allows. *)
MayRetryOnceMore(completedAttempts, first, now, policy) ==
    /\ policy.MaximumAttempts > 0 => completedAttempts <= policy.MaximumAttempts
    /\ policy.MaximumAttemptsDurationSeconds > 0 => first + policy.MaximumAttemptsDurationSeconds >= now

MayRetry(completedAttempts, first, now, policy) ==
    /\ policy.MaximumAttempts > 0 => completedAttempts < policy.MaximumAttempts
    /\ policy.MaximumAttemptsDurationSeconds > 0 => first + policy.MaximumAttemptsDurationSeconds >= now

(* Faulty variant: the first retry waits for what the second should. *)
IntervalsOneAhead(completedAttempts, policy) ==
    {IF i > policy.MaximumIntervalSeconds THEN policy.MaximumIntervalSeconds ELSE i :
        i \in ToInt32(Power(policy.InitialIntervalSeconds, policy.BackoffCoefficient, completedAttempts))}

(* The intervals the build may compute. *)
Intervals(completedAttempts, policy) ==
    {IF i > policy.MaximumIntervalSeconds THEN policy.MaximumIntervalSeconds ELSE i :
        i \in ToInt32(Power(policy.InitialIntervalSeconds, policy.BackoffCoefficient,
                            completedAttempts - 1))}
=============================================================================
