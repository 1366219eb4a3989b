-------------------------- MODULE ProcessLifecycle --------------------------
(***************************************************************************)
(* What the process store promises its users, without tables, tasks,       *)
(* workers and retries: a process id has at most one running execution,    *)
(* its current one; a running execution advances by one decision at a      *)
(* time, which ends one of its state executions and begins new ones, each  *)
(* of which is begun once; and an execution that is closed stays closed.   *)
(***************************************************************************)
EXTENDS FiniteSets

CONSTANTS ProcessIds, Execs, StateExecIds, NoExec

VARIABLES
    current,  \* process id -> its current execution, or NoExec
    phase,    \* execution -> "none", "running" or "closed"
    open,     \* running execution -> the state executions it waits for
    begun     \* running execution -> the state executions it ever began

vars == <<current, phase, open, begun>>

Init ==
    /\ current = [p \in ProcessIds |-> NoExec]
    /\ phase = [e \in Execs |-> "none"]
    /\ open = [e \in Execs |-> {}]
    /\ begun = [e \in Execs |-> {}]

(* Begin an execution, and close the one it replaces if that still runs. *)
Replaced(p, e) == e = current[p] /\ phase[e] = "running"

Start(p, e, first) ==
    /\ phase[e] = "none"
    /\ current' = [current EXCEPT ![p] = e]
    /\ phase' = [x \in Execs |-> IF x = e THEN "running" ELSE IF Replaced(p, x) THEN "closed" ELSE phase[x]]
    /\ open' = [x \in Execs |-> IF x = e THEN first ELSE IF Replaced(p, x) THEN {} ELSE open[x]]
    /\ begun' = [x \in Execs |-> IF x = e THEN first ELSE IF Replaced(p, x) THEN {} ELSE begun[x]]

(* The decision of the state executions in done: at most one at a time. *)
Decide(e, done, next) ==
    /\ phase[e] = "running"
    /\ done \subseteq open[e] /\ \A s, t \in done : s = t
    /\ next \cap begun[e] = {}
    /\ open' = [open EXCEPT ![e] = (open[e] \ done) \cup next]
    /\ begun' = [begun EXCEPT ![e] = begun[e] \cup next]
    /\ UNCHANGED <<current, phase>>

Close(e) ==
    /\ phase[e] = "running"
    /\ phase' = [phase EXCEPT ![e] = "closed"]
    /\ open' = [open EXCEPT ![e] = {}]
    /\ begun' = [begun EXCEPT ![e] = {}]
    /\ UNCHANGED current

Next ==
    \E e \in Execs :
        \/ \E p \in ProcessIds, first \in SUBSET StateExecIds : Start(p, e, first)
        \/ \E done \in SUBSET open[e], next \in SUBSET StateExecIds : Decide(e, done, next)
        \/ Close(e)

Spec == Init /\ [][Next]_vars
=============================================================================
