------------------------ MODULE MCImmediateTaskQueue ------------------------
(***************************************************************************)
(* Instances of ImmediateTaskQueue for TLC.                                *)
(***************************************************************************)
EXTENDS ImmediateTaskQueue, TLC

CONSTANTS w1, w2

WorkerSymmetry == Permutations(Workers)
=============================================================================
