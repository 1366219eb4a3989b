--------------------------- MODULE MCAsyncService ---------------------------
(***************************************************************************)
(* Instances of AsyncService for TLC.                                      *)
(***************************************************************************)
EXTENDS AsyncService, TLC

CONSTANTS s1, s2, h1, h2, e1, e2, w1, w2

WaiterSymmetry == Permutations(Waiters)

AllOnH1 == [e \in Execs |-> h1]

(* The ring gives h1 to s2 and h2 to s1 while both are there. *)
SmallRing ==
    [view \in (SUBSET Servers) \ {{}} |-> [h \in Shards |->
        IF h = h1 /\ s2 \in view THEN s2
        ELSE IF s1 \in view THEN s1 ELSE s2]]
=============================================================================
