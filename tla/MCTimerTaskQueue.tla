-------------------------- MODULE MCTimerTaskQueue --------------------------
(***************************************************************************)
(* Instances of TimerTaskQueue for TLC.                                    *)
(***************************************************************************)
EXTENDS TimerTaskQueue, TLC

CONSTANTS w1, w2

WorkerSymmetry == Permutations(Workers)
=============================================================================
