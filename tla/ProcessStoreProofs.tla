------------------------- MODULE ProcessStoreProofs -------------------------
(***************************************************************************)
(* Theorems about ProcessStore, for every set of process ids, executions,  *)
(* state ids, clients and workers, and every bound.                        *)
(*                                                                         *)
(* The inductive invariant is TablesInv: the types, that no task is about  *)
(* a missing row, and that the sequence map of an execution numbers its    *)
(* state rows.  The types need the other two: the state a failing worker   *)
(* recovers from must have a row for its configuration to be a state id.   *)
(***************************************************************************)
EXTENDS ProcessStore, TLAPS, FiniteSetTheorems, FiniteMinMax

-----------------------------------------------------------------------------
(* Inserting rows.                                                         *)

(* The state execution ids are finitely many. *)
LEMMA StateExecIdsFinite == IsFiniteSet(StateExecIds)
<1>1. IsFiniteSet(1..MaxSeq)
  BY FS_Interval, FiniteAssumption
<1> QED
  BY <1>1, FS_Product, FiniteAssumption DEF StateExecIds

(* The first tasks of some state executions are finitely many. *)
LEMMA FirstTasksFinite ==
    ASSUME NEW e, NEW S \in SUBSET StateExecIds
    PROVE  IsFiniteSet({FirstTask(e, s) : s \in S})
<1> DEFINE f == [s \in S |-> FirstTask(e, s)]
           T == {FirstTask(e, s) : s \in S}
<1>1. IsFiniteSet(S)
  BY FS_Subset, StateExecIdsFinite
<1>2. f \in Surjection(S, T)
  BY DEF Surjection
<1> QED
  BY <1>1, <1>2, FS_Surjection

(* The timer tasks of n timer commands are finitely many. *)
LEMMA TimerTasksFinite ==
    ASSUME NEW e, NEW s, NEW n \in Nat
    PROVE  IsFiniteSet({Task("TimerCommand", e, s, i) : i \in 1..n})
<1> DEFINE f == [i \in 1..n |-> Task("TimerCommand", e, s, i)]
           T == {Task("TimerCommand", e, s, i) : i \in 1..n}
<1>1. IsFiniteSet(1..n)
  BY FS_Interval
<1>2. f \in Surjection(1..n, T)
  BY DEF Surjection
<1> QED
  BY <1>1, <1>2, FS_Surjection

(* A call publishes into at most one new task. *)
LEMMA PublishTasksFinite ==
    ASSUME NEW e, NEW ms
    PROVE  IsFiniteSet(PublishTasks(e, ms))
BY FS_EmptySet, FS_Singleton DEF PublishTasks

(* New rows carry the new tasks and the next numbers. *)
LEMMA NumberedRows ==
    ASSUME NEW base \in Nat, NEW tasks, IsFiniteSet(tasks)
    PROVE  /\ Cardinality(tasks) \in Nat
           /\ \A r \in Numbered(base, tasks) :
                 r.seq \in (base + 1)..(base + Cardinality(tasks)) /\ r.task \in tasks
<1>1. Cardinality(tasks) \in Nat /\ ExistsBijection(1..Cardinality(tasks), tasks)
  BY FS_CardinalityType
<1>2. \E f \in [1..Cardinality(tasks) -> tasks] : IsInjective(f)
  BY <1>1 DEF ExistsBijection, Bijection, Injection
<1>3. SetToSeq(tasks) \in [1..Cardinality(tasks) -> tasks]
  BY <1>2 DEF SetToSeq
<1> QED
  BY <1>1, <1>3 DEF Numbered

(* Inserting into the table of immediate tasks. *)
LEMMA WriteImmediateEffect ==
    ASSUME NEW new, NEW kept, IsFiniteSet(new), immSeq \in Nat, WriteImmediate(new, kept)
    PROVE  /\ immSeq' \in Nat /\ immSeq <= immSeq'
           /\ \A r \in imm' : r \in kept \/ (r.seq \in 1..immSeq' /\ r.task \in new)
BY NumberedRows DEF WriteImmediate

(* Inserting into the table of timer tasks. *)
LEMMA WriteTimersEffect ==
    ASSUME NEW new, NEW kept, IsFiniteSet(new), timSeq \in Nat, WriteTimers(new, kept)
    PROVE  /\ timSeq' \in Nat /\ timSeq <= timSeq'
           /\ \A r \in tim' : r \in kept \/ (r.seq \in 1..timSeq' /\ r.task \in new)
BY NumberedRows DEF WriteTimers
-----------------------------------------------------------------------------
(* What the operations do to a process row.                                *)

(* Starting next[id] executions of every id numbers them and makes them    *)
(* pending; nothing else changes.                                          *)
LEMMA StartNewStatesEffect ==
    ASSUME NEW row \in PrcRow, NEW next \in [StateIds -> Nat], SeqInBound(row, next)
    PROVE  LET r == StartNewStates(row, next)
           IN  /\ r \in PrcRow
               /\ r.status = row.status /\ r.pid = row.pid /\ r.graceful = row.graceful
               /\ r.pending = row.pending \cup Started(row, next)
               /\ \A s \in StateExecIds :
                     s[2] <= r.seq[s[1]] <=> s[2] <= row.seq[s[1]] \/ s \in Started(row, next)
<1> DEFINE r == StartNewStates(row, next)
<1>0. \A id \in StateIds : row.seq[id] \in Nat /\ next[id] \in Nat /\ row.seq[id] + next[id] \in 0..MaxSeq
  BY FiniteAssumption DEF PrcRow, SeqInBound
<1>1. [id \in StateIds |-> row.seq[id] + next[id]] \in [StateIds -> 0..MaxSeq]
  BY <1>0
<1>2. Started(row, next) \subseteq StateExecIds
  BY DEF Started
<1>3. \A s \in StateExecIds : s[1] \in StateIds /\ s[2] \in Nat
  BY DEF StateExecIds
<1>4. row.pending \cup Started(row, next) \in SUBSET StateExecIds
  BY <1>2 DEF PrcRow
<1>5. /\ r.status = row.status /\ r.pid = row.pid /\ r.graceful = row.graceful
      /\ r.pending = row.pending \cup Started(row, next)
      /\ r.seq = [id \in StateIds |-> row.seq[id] + next[id]]
  BY DEF StartNewStates, PrcRow
<1>6. r \in PrcRow
  BY <1>1, <1>4 DEF PrcRow, StartNewStates
<1>7. \A s \in StateExecIds :
          s[2] <= r.seq[s[1]] <=> s[2] <= row.seq[s[1]] \/ s \in Started(row, next)
  BY <1>0, <1>3, <1>5 DEF Started
<1> QED
  BY <1>5, <1>6, <1>7
-----------------------------------------------------------------------------
(***************************************************************************)
(* The invariant of one execution, as a predicate of its process row and   *)
(* its state rows.  The first part also holds in the middle of a           *)
(* transaction that has completed a state but not yet applied its decision.*)
(***************************************************************************)
StateTable(rows) ==
    /\ rows = [s \in StateExecIds |-> rows[s]]
    /\ \A s \in StateExecIds : TypedState(rows[s])

ExecBase(row, rows) ==
    /\ row \in PrcRow
    /\ row.status # "None" => row.pid \in ProcessIds
    /\ row.status = "None" => \A s \in StateExecIds : ~(s[2] <= row.seq[s[1]])
    /\ StateTable(rows)
    /\ \A s \in StateExecIds : rows[s].status # "None" <=> s[2] <= row.seq[s[1]]
    /\ \A s \in row.pending : s[2] <= row.seq[s[1]]
    /\ row.status = "Running" => \A s \in row.pending : rows[s].status \in ActiveStates

ExecInv(row, rows) ==
    /\ ExecBase(row, rows)
    /\ row.status = "Running" /\ row.graceful => row.pending # {}
    /\ row.status \in Closed \ {"Terminated"} => row.pending = {}

(* What a transaction may do to the process row of a started execution. *)
PrcStep(old, new) ==
    /\ new.pid = old.pid
    /\ new.status = old.status \/ new.status \in Closed
    /\ \A s \in StateExecIds : s[2] <= old.seq[s[1]] => s[2] <= new.seq[s[1]]
    /\ \A s \in StateExecIds : s[2] <= old.seq[s[1]] /\ s \in new.pending => s \in old.pending

(* Setting the status of a typed row. *)
LEMMA WithStatusEffect ==
    ASSUME NEW row, TypedState(row), NEW status \in StateStatus \ {"None"}, row.status # "None"
    PROVE  /\ TypedState(WithStatus(row, status))
           /\ WithStatus(row, status).status = status
           /\ WithStatus(row, status).config = row.config
BY DEF TypedState, WithStatus

(* A new row has the status its first task needs. *)
LEMMA NewStateRowEffect ==
    ASSUME NEW s, NEW config \in StateIds
    PROVE  TypedState(NewStateRow(s, config)) /\ NewStateRow(s, config).status \in ActiveStates
BY DEF TypedState, NewStateRow, ActiveStates, StateStatus

(* Aborting keeps a table of typed rows, and which rows there are. *)
LEMMA AbortRunningEffect ==
    ASSUME NEW rows, StateTable(rows)
    PROVE  /\ StateTable(AbortRunning(rows))
           /\ \A s \in StateExecIds :
                 AbortRunning(rows)[s].status # "None" <=> rows[s].status # "None"
<1>1. ASSUME NEW s \in StateExecIds
      PROVE  /\ TypedState(AbortRunning(rows)[s])
             /\ AbortRunning(rows)[s].status # "None" <=> rows[s].status # "None"
  <2>1. CASE rows[s].status \in ActiveStates
    <3>1. AbortRunning(rows)[s] = WithStatus(rows[s], "Aborted")
      BY <2>1 DEF AbortRunning
    <3>2. TypedState(rows[s]) /\ rows[s].status # "None"
      BY <2>1 DEF StateTable, ActiveStates
    <3> QED
      BY <3>1, <3>2, WithStatusEffect DEF StateStatus
  <2>2. CASE rows[s].status \notin ActiveStates
    <3>1. AbortRunning(rows)[s] = rows[s]
      BY <2>2 DEF AbortRunning
    <3> QED
      BY <3>1 DEF StateTable
  <2> QED
    BY <2>1, <2>2
<1>2. AbortRunning(rows) = [s \in StateExecIds |-> AbortRunning(rows)[s]]
  BY DEF AbortRunning
<1> QED
  BY <1>1, <1>2 DEF StateTable

(***************************************************************************)
(* The operations on one execution.                                        *)
(***************************************************************************)

(* Updates of state rows: rows stay as they are, or become active again.   *)
LEMMA StateUpdate ==
    ASSUME NEW row, NEW rows, NEW new, ExecInv(row, rows), StateTable(new),
           \A s \in StateExecIds :
              \/ new[s].status = rows[s].status
              \/ rows[s].status # "None" /\ new[s].status \in ActiveStates
    PROVE  ExecInv(row, new)
<1>1. row.pending \subseteq StateExecIds
  BY DEF ExecInv, ExecBase, PrcRow
<1>2. \A s \in StateExecIds : new[s].status # "None" <=> rows[s].status # "None"
  BY DEF ActiveStates
<1> QED
  BY <1>1, <1>2 DEF ExecInv, ExecBase

(* doStopProcessTx on a running execution. *)
LEMMA StopOperation ==
    ASSUME NEW row, NEW rows, ExecInv(row, rows), row.status = "Running",
           NEW status \in Closed
    PROVE  /\ ExecInv(StoppedPrc(row, status), IF row.pending = {} THEN rows ELSE AbortRunning(rows))
           /\ PrcStep(row, StoppedPrc(row, status))
<1> DEFINE r == StoppedPrc(row, status)
           t == IF row.pending = {} THEN rows ELSE AbortRunning(rows)
<1>1. /\ r \in PrcRow /\ r.status = status /\ r.pid = row.pid /\ r.seq = row.seq /\ r.pending = {}
  BY DEF ExecInv, ExecBase, StoppedPrc, PrcRow, Closed
<1>2. StateTable(t) /\ \A s \in StateExecIds : t[s].status # "None" <=> rows[s].status # "None"
  BY AbortRunningEffect DEF ExecInv, ExecBase
<1>3. status # "Running" /\ status # "None" /\ row.pid \in ProcessIds
  BY DEF Closed, ExecInv, ExecBase
<1>4. ExecInv(r, t)
  BY <1>1, <1>2, <1>3 DEF ExecInv, ExecBase
<1>5. PrcStep(row, r)
  BY <1>1 DEF PrcStep
<1> QED
  BY <1>4, <1>5

(* TERMINATE_IF_RUNNING on the execution it replaces. *)
LEMMA TerminateOperation ==
    ASSUME NEW row, NEW rows, ExecInv(row, rows)
    PROVE  ExecInv(TerminatedPrc(row), AbortRunning(rows)) /\ PrcStep(row, TerminatedPrc(row))
<1> DEFINE r == TerminatedPrc(row)
           t == AbortRunning(rows)
<1>1. /\ r \in PrcRow /\ r.pid = row.pid /\ r.seq = row.seq /\ r.pending = row.pending
      /\ r.status = IF row.status = "Running" THEN "Terminated" ELSE row.status
  BY DEF ExecInv, ExecBase, TerminatedPrc, PrcRow, ProcessStatus
<1>2. StateTable(t) /\ \A s \in StateExecIds : t[s].status # "None" <=> rows[s].status # "None"
  BY AbortRunningEffect DEF ExecInv, ExecBase
<1>3. ExecInv(r, t)
  BY <1>1, <1>2 DEF ExecInv, ExecBase
<1>4. PrcStep(row, r)
  BY <1>1 DEF PrcStep, Closed, ProcessStatus
<1> QED
  BY <1>3, <1>4

WithRow(rows, s, new) == [x \in StateExecIds |-> IF x = s THEN new ELSE rows[x]]

(* Completing a state, before its decision is applied. *)
LEMMA CompleteOperation ==
    ASSUME NEW row, NEW rows, ExecInv(row, rows), NEW s \in row.pending,
           NEW status \in {"Completed", "Failed"}
    PROVE  /\ ExecBase(CompleteState(row, s), WithRow(rows, s, WithStatus(rows[s], status)))
           /\ CompleteState(row, s).status = row.status
           /\ CompleteState(row, s).pid = row.pid
           /\ CompleteState(row, s).seq = row.seq
           /\ CompleteState(row, s).pending = row.pending \ {s}
           /\ row.status \in {"Running", "Terminated"}
           /\ s \in StateExecIds
           /\ rows[s].config \in StateIds
<1> DEFINE r == CompleteState(row, s)
           t == WithRow(rows, s, WithStatus(rows[s], status))
<1>1. /\ r \in PrcRow /\ r.status = row.status /\ r.pid = row.pid /\ r.seq = row.seq
      /\ r.pending = row.pending \ {s}
  BY DEF ExecInv, ExecBase, CompleteState, PrcRow
<1>2. s \in StateExecIds /\ rows[s].status # "None" /\ TypedState(rows[s])
  BY DEF ExecInv, ExecBase, PrcRow, StateTable
<1>3. TypedState(WithStatus(rows[s], status)) /\ WithStatus(rows[s], status).status = status
  BY <1>2, WithStatusEffect DEF StateStatus
<1>4. StateTable(t)
  BY <1>3 DEF StateTable, ExecInv, ExecBase, WithRow
<1>5. \A x \in StateExecIds : t[x].status # "None" <=> rows[x].status # "None"
  BY <1>2, <1>3 DEF WithRow
<1>6. \A x \in row.pending \ {s} : x \in StateExecIds /\ t[x] = rows[x]
  BY DEF ExecInv, ExecBase, PrcRow, WithRow
<1>7. ExecBase(r, t)
  BY <1>1, <1>4, <1>5, <1>6 DEF ExecInv, ExecBase
<1>8. row.status \in {"Running", "Terminated"}
  BY DEF ExecInv, ExecBase, PrcRow, ProcessStatus, Closed
<1>9. rows[s].config \in StateIds
  BY <1>2 DEF TypedState
<1> QED
  BY <1>1, <1>2, <1>7, <1>8, <1>9

(* Starting new states: the rows of the started ones are inserted. *)
LEMMA StartStatesOperation ==
    ASSUME NEW row, NEW rows, NEW new, ExecBase(row, rows), row.status # "None",
           NEW next \in [StateIds -> Nat], SeqInBound(row, next), StateTable(new),
           \A s \in StateExecIds : IF s \in Started(row, next) THEN new[s].status \in ActiveStates
                                                               ELSE new[s] = rows[s]
    PROVE  /\ ExecBase(StartNewStates(row, next), new)
           /\ PrcStep(row, StartNewStates(row, next))
<1> DEFINE r == StartNewStates(row, next)
<1>1. /\ r \in PrcRow /\ r.status = row.status /\ r.pid = row.pid
      /\ r.pending = row.pending \cup Started(row, next)
      /\ \A s \in StateExecIds :
            s[2] <= r.seq[s[1]] <=> s[2] <= row.seq[s[1]] \/ s \in Started(row, next)
  BY StartNewStatesEffect DEF ExecBase
<1>2. /\ row.pending \subseteq StateExecIds /\ Started(row, next) \subseteq StateExecIds
  BY DEF Started, ExecBase, PrcRow
<1>3. \A s \in StateExecIds : s[2] \in Nat /\ row.seq[s[1]] \in Nat
  BY FiniteAssumption DEF StateExecIds, ExecBase, PrcRow
<1>4. \A s \in Started(row, next) : ~(s[2] <= row.seq[s[1]])
  BY <1>2, <1>3 DEF Started
<1>5. \A s \in StateExecIds : new[s].status # "None" <=> s[2] <= r.seq[s[1]]
  <2> SUFFICES ASSUME NEW s \in StateExecIds PROVE new[s].status # "None" <=> s[2] <= r.seq[s[1]]
    OBVIOUS
  <2>1. CASE s \in Started(row, next)
    BY <1>1, <2>1 DEF ActiveStates
  <2>2. CASE s \notin Started(row, next)
    BY <1>1, <2>2 DEF ExecBase
  <2> QED
    BY <2>1, <2>2
<1>6. \A s \in r.pending : s[2] <= r.seq[s[1]]
  BY <1>1, <1>2 DEF ExecBase
<1>7. r.status = "Running" => \A s \in r.pending : new[s].status \in ActiveStates
  BY <1>1, <1>2 DEF ExecBase
<1>8. ExecBase(r, new)
  BY <1>1, <1>5, <1>6, <1>7 DEF ExecBase
<1>9. PrcStep(row, r)
  BY <1>1, <1>4 DEF PrcStep
<1> QED
  BY <1>8, <1>9

(* Applying a decision to an execution that runs, or is terminated with    *)
(* its states still pending.                                               *)
LEMMA DecisionOperation ==
    ASSUME NEW row, NEW rows, ExecBase(row, rows), row.status \in {"Running", "Terminated"},
           NEW d \in Decisions, SeqInBound(row, d.next)
    PROVE  /\ ExecInv(ApplyDecision(row, d), RowsAfterDecision(rows, row, d))
           /\ PrcStep(row, ApplyDecision(row, d))
<1> DEFINE r == StartNewStates(row, d.next)
           t == [s \in StateExecIds |-> IF s \in Started(row, d.next) THEN NewStateRow(s, s[1]) ELSE rows[s]]
           u == RowsAfterDecision(rows, row, d)
           n == ApplyDecision(row, d)
<1>1. d.next \in [StateIds -> Nat]
  BY DecisionAssumption
<1>2. \A s \in StateExecIds : TypedState(NewStateRow(s, s[1])) /\ NewStateRow(s, s[1]).status \in ActiveStates
  BY NewStateRowEffect DEF StateExecIds
<1>3. StateTable(t)
  BY <1>2 DEF StateTable, ExecBase
<1>4. ExecBase(r, t) /\ PrcStep(row, r)
  <2>1. \A s \in StateExecIds : IF s \in Started(row, d.next) THEN t[s].status \in ActiveStates
                                                              ELSE t[s] = rows[s]
    BY <1>2
  <2> QED
    BY <1>1, <1>3, <2>1, StartStatesOperation
<1>5. r.status \in {"Running", "Terminated"} /\ r.status = row.status
  BY <1>1, StartNewStatesEffect DEF ExecBase
<1>6. /\ StateTable(u)
      /\ \A s \in StateExecIds : u[s].status # "None" <=> t[s].status # "None"
      /\ ~(~GracefulDone(r) /\ IsForced(d)) => u = t
  <2>1. u = t \/ (~GracefulDone(r) /\ IsForced(d) /\ u = AbortRunning(t))
    BY DEF RowsAfterDecision
  <2> QED
    BY <1>3, <2>1, AbortRunningEffect
<1>7. CASE GracefulDone(r)
  <2>1. n = [r EXCEPT !.status = "Completed"]
    BY <1>7 DEF ApplyDecision
  <2>2. n \in PrcRow /\ n.status = "Completed" /\ n.pid = r.pid /\ n.seq = r.seq /\ n.pending = r.pending
    BY <1>4, <2>1 DEF ExecBase, PrcRow, ProcessStatus
  <2>3. n.pending = {} /\ u = t
    BY <1>6, <1>7, <2>2 DEF GracefulDone
  <2> QED
    BY <1>4, <1>5, <2>2, <2>3 DEF ExecInv, ExecBase, PrcStep, Closed, ProcessStatus
<1>8. CASE ~GracefulDone(r) /\ d.close = "GRACEFUL_COMPLETE_PROCESS"
  <2>1. n = [r EXCEPT !.graceful = TRUE, !.status = IF r.pending = {} THEN "Completed" ELSE r.status]
    BY <1>8 DEF ApplyDecision, IsForced
  <2>2. /\ n \in PrcRow /\ n.pid = r.pid /\ n.seq = r.seq /\ n.pending = r.pending
        /\ n.status = IF r.pending = {} THEN "Completed" ELSE r.status
    BY <1>4, <2>1 DEF ExecBase, PrcRow, ProcessStatus
  <2>3. u = t
    BY <1>6, <1>8 DEF IsForced
  <2> QED
    BY <1>4, <1>5, <2>2, <2>3 DEF ExecInv, ExecBase, PrcStep, Closed, ProcessStatus
<1>9. CASE ~GracefulDone(r) /\ IsForced(d)
  <2>1. n = [r EXCEPT !.pending = {},
                      !.status = IF d.close = "FORCE_FAIL_PROCESS" THEN "Failed" ELSE "Completed"]
    BY <1>9 DEF ApplyDecision, IsForced
  <2>2. /\ n \in PrcRow /\ n.pid = r.pid /\ n.seq = r.seq /\ n.pending = {}
        /\ n.status \in {"Failed", "Completed"}
    BY <1>4, <2>1 DEF ExecBase, PrcRow, ProcessStatus
  <2> QED
    BY <1>4, <1>5, <1>6, <2>2 DEF ExecInv, ExecBase, PrcStep, Closed, ProcessStatus
<1>10. CASE ~GracefulDone(r) /\ d.close # "GRACEFUL_COMPLETE_PROCESS" /\ ~IsForced(d)
  <2>1. n = r
    BY <1>10 DEF ApplyDecision
  <2>2. u = t
    BY <1>6, <1>10
  <2> QED
    BY <1>4, <1>5, <1>10, <2>1, <2>2 DEF ExecInv, GracefulDone, Closed
<1> QED
  BY <1>7, <1>8, <1>9, <1>10

(* RecoverFromStateExecutionFailure: the failed state is replaced by the   *)
(* state it is configured to proceed to.                                   *)
LEMMA RecoverOperation ==
    ASSUME NEW row, NEW rows, ExecInv(row, rows), NEW s \in row.pending,
           NEW dest \in StateIds, SeqInBound(CompleteState(row, s), Once(dest))
    PROVE  LET r   == CompleteState(row, s)
               new == Started(r, Once(dest))
               u   == [x \in StateExecIds |->
                         IF x \in new THEN NewStateRow(x, rows[s].config)
                         ELSE IF x = s THEN WithStatus(rows[s], "Failed")
                         ELSE rows[x]]
           IN  ExecInv(StartNewStates(r, Once(dest)), u) /\ PrcStep(row, StartNewStates(r, Once(dest)))
<1> DEFINE r   == CompleteState(row, s)
           t   == WithRow(rows, s, WithStatus(rows[s], "Failed"))
           new == Started(r, Once(dest))
           u   == [x \in StateExecIds |->
                     IF x \in new THEN NewStateRow(x, rows[s].config)
                     ELSE IF x = s THEN WithStatus(rows[s], "Failed")
                     ELSE rows[x]]
           n   == StartNewStates(r, Once(dest))
<1>1. /\ ExecBase(r, t)
      /\ r.status = row.status /\ r.pid = row.pid /\ r.seq = row.seq /\ r.pending = row.pending \ {s}
      /\ row.status \in {"Running", "Terminated"} /\ rows[s].config \in StateIds
  BY CompleteOperation
<1>2. Once(dest) \in [StateIds -> Nat] /\ Once(dest)[dest] = 1
  BY DEF Once
<1>3. \A x \in StateExecIds : /\ TypedState(NewStateRow(x, rows[s].config))
                              /\ NewStateRow(x, rows[s].config).status \in ActiveStates
  BY <1>1, NewStateRowEffect
<1>4. \A x \in StateExecIds : u[x] = IF x \in new THEN NewStateRow(x, rows[s].config) ELSE t[x]
  BY DEF WithRow
<1>5. StateTable(u)
  BY <1>1, <1>3, <1>4 DEF StateTable, ExecBase
<1>6. ExecBase(n, u) /\ PrcStep(r, n)
  BY <1>1, <1>2, <1>3, <1>4, <1>5, StartStatesOperation
<1>7. /\ n.status = r.status /\ n.pending = r.pending \cup new
  BY <1>1, <1>2, StartNewStatesEffect DEF ExecBase
<1>8. n.pending # {}
  <2>1. r.seq[dest] \in Nat /\ r.seq[dest] + 1 <= MaxSeq
    BY <1>1, <1>2, FiniteAssumption DEF SeqInBound, ExecBase, PrcRow
  <2>2. <<dest, r.seq[dest] + 1>> \in StateExecIds
    BY <2>1, FiniteAssumption DEF StateExecIds
  <2>3. <<dest, r.seq[dest] + 1>> \in new
    BY <1>2, <2>1, <2>2 DEF Started
  <2> QED
    BY <1>7, <2>3
<1>9. ExecInv(n, u)
  BY <1>1, <1>6, <1>7, <1>8 DEF ExecInv, Closed
<1>10. PrcStep(row, n)
  BY <1>1, <1>6 DEF PrcStep
<1> QED
  BY <1>9, <1>10

(* StartProcess: a new execution with its start state, if there is one.    *)
LEMMA StartOperation ==
    ASSUME NEW p \in ProcessIds, NEW start \in StateIds \cup {NoState}, MaxSeq > 0
    PROVE  LET first == IF start = NoState THEN {} ELSE {<<start, 1>>}
               rows  == [s \in StateExecIds |-> IF s \in first THEN NewStateRow(s, s[1]) ELSE NoRow]
           IN  /\ ExecInv(NewPrc(p, start), rows)
               /\ NewPrc(p, start).status = "Running"
               /\ NewPrc(p, start).pid = p
               /\ first \subseteq StateExecIds
<1> DEFINE first == IF start = NoState THEN {} ELSE {<<start, 1>>}
           rows  == [s \in StateExecIds |-> IF s \in first THEN NewStateRow(s, s[1]) ELSE NoRow]
           none  == [s \in StateExecIds |-> NoRow]
           zero  == [id \in StateIds |-> 0]
           row   == [NoPrc EXCEPT !.status = "Running", !.pid = p]
<1>0. MaxSeq \in Nat \ {0}
  BY FiniteAssumption
<1>1. /\ row \in PrcRow /\ row.status = "Running" /\ row.pid = p /\ row.graceful = FALSE
      /\ row.seq = zero /\ row.pending = {}
  <2>1. zero \in [StateIds -> 0..MaxSeq]
    BY <1>0
  <2> QED
    BY <2>1 DEF NoPrc, PrcRow, ProcessStatus
<1>2. TypedState(NoRow) /\ NoRow.status = "None"
  BY DEF NoRow, TypedState, StateStatus
<1>3. \A s \in StateExecIds : s[1] \in StateIds /\ s[2] \in Nat /\ s[2] > 0 /\ s = <<s[1], s[2]>>
  BY <1>0 DEF StateExecIds
<1>4. ExecBase(row, none)
  <2>1. \A s \in StateExecIds : ~(s[2] <= row.seq[s[1]])
    BY <1>1, <1>3
  <2>2. StateTable(none)
    BY <1>2 DEF StateTable
  <2> QED
    BY <1>1, <1>2, <2>1, <2>2 DEF ExecBase
<1>5. first \subseteq StateExecIds
  BY <1>0 DEF StateExecIds
<1>6. \A s \in StateExecIds : TypedState(NewStateRow(s, s[1])) /\ NewStateRow(s, s[1]).status \in ActiveStates
  BY <1>3, NewStateRowEffect
<1>7. StateTable(rows)
  BY <1>2, <1>6 DEF StateTable
<1>8. CASE start = NoState
  <2>1. NewPrc(p, start) = row /\ rows = none
    BY <1>8 DEF NewPrc
  <2> QED
    BY <1>1, <1>4, <1>5, <2>1 DEF ExecInv, Closed
<1>9. CASE start # NoState
  <2>1. start \in StateIds /\ NewPrc(p, start) = StartNewStates(row, Once(start))
    BY <1>9 DEF NewPrc
  <2>2. Once(start) \in [StateIds -> Nat] /\ \A id \in StateIds : Once(start)[id] = IF id = start THEN 1 ELSE 0
    BY DEF Once
  <2>3. SeqInBound(row, Once(start))
    BY <1>0, <1>1, <2>2 DEF SeqInBound
  <2>4. \A s \in StateExecIds : s \in Started(row, Once(start)) <=> s \in first
    BY <1>1, <1>3, <1>9, <2>1, <2>2 DEF Started
  <2>5. ExecBase(NewPrc(p, start), rows)
    <3>1. \A s \in StateExecIds : IF s \in Started(row, Once(start)) THEN rows[s].status \in ActiveStates
                                                                     ELSE rows[s] = none[s]
      BY <1>6, <2>4
    <3>2. row.status # "None"
      BY <1>1
    <3> HIDE DEF row, rows, none
    <3> QED
      BY <1>4, <1>7, <2>1, <2>2, <2>3, <3>1, <3>2, StartStatesOperation
  <2>6. /\ NewPrc(p, start).status = "Running" /\ NewPrc(p, start).pid = p
        /\ NewPrc(p, start).graceful = FALSE
    BY <2>1 DEF StartNewStates, NoPrc
  <2> QED
    BY <1>5, <2>5, <2>6 DEF ExecInv, Closed
<1> QED
  BY <1>8, <1>9
-----------------------------------------------------------------------------
(***************************************************************************)
(* The inductive invariant, and what a step does to it.                    *)
(***************************************************************************)
TaskOK(t) ==
    /\ t.exec \in Execs
    /\ t.type \in StateTasks => t.sid \in StateExecIds
    /\ HasRows(t)

WorkerOK(x) ==
    /\ TypedWorker(x)
    /\ x.pc # "idle" => HasRows(x.row.task)

ExecsOK ==
    /\ prc = [e \in Execs |-> prc[e]]
    /\ st = [e \in Execs |-> st[e]]
    /\ \A e \in Execs : ExecInv(prc[e], st[e])

LatestOK ==
    /\ latest \in [ProcessIds -> Execs \cup {NoExec}]
    /\ \A e \in Execs : prc[e].status # "None" => latest[prc[e].pid] # NoExec
    /\ \A p \in ProcessIds : latest[p] # NoExec =>
          prc[latest[p]].status # "None" /\ prc[latest[p]].pid = p
    /\ \A e \in Execs : prc[e].status = "Running" => latest[prc[e].pid] = e

QueuesOK ==
    /\ immSeq \in Nat /\ timSeq \in Nat
    /\ \A r \in imm : r.seq \in 1..immSeq /\ TaskOK(r.task)
    /\ \A r \in tim : r.seq \in 1..timSeq /\ TaskOK(r.task)

CallersOK ==
    /\ worker = [w \in Workers |-> worker[w]]
    /\ \A w \in Workers : WorkerOK(worker[w])
    /\ client = [c \in Clients |-> client[c]]
    /\ \A c \in Clients : client[c].pc # "idle" =>
          client[c].target \in Execs /\ prc[client[c].target].status # "None"

TablesInv == ExecsOK /\ LatestOK /\ QueuesOK /\ CallersOK

(* The step of every execution: it is started, or it moves by PrcStep. *)
ExecsStep ==
    /\ ExecsOK'
    /\ \A e \in Execs :
          /\ prc[e].status # "None" => PrcStep(prc[e], prc'[e])
          /\ prc[e].status = "None" => prc'[e].status \in {"None", "Running"}

(* An execution that is left alone makes a step. *)
LEMMA NoPrcStep == ASSUME NEW row PROVE PrcStep(row, row)
BY DEF PrcStep

(* A transaction on one started execution. *)
LEMMA OneExecStep ==
    ASSUME ExecsOK, NEW e \in Execs, prc[e].status # "None", NEW r, NEW t,
           prc' = [prc EXCEPT ![e] = r], st' = [st EXCEPT ![e] = t],
           ExecInv(r, t), PrcStep(prc[e], r)
    PROVE  ExecsStep
<1>1. prc'[e] = r /\ st'[e] = t /\ \A x \in Execs \ {e} : prc'[x] = prc[x] /\ st'[x] = st[x]
  BY DEF ExecsOK
<1>2. prc' = [x \in Execs |-> prc'[x]] /\ st' = [x \in Execs |-> st'[x]]
  BY DEF ExecsOK
<1>3. \A x \in Execs : ExecInv(prc'[x], st'[x])
  BY <1>1 DEF ExecsOK
<1>4. \A x \in Execs : prc[x].status # "None" => PrcStep(prc[x], prc'[x])
  BY <1>1, NoPrcStep
<1> QED
  BY <1>1, <1>2, <1>3, <1>4 DEF ExecsStep, ExecsOK

(* A transaction that leaves the process row alone. *)
LEMMA OneStateStep ==
    ASSUME ExecsOK, NEW e \in Execs, NEW t,
           prc' = prc, st' = [st EXCEPT ![e] = t], ExecInv(prc[e], t)
    PROVE  ExecsStep
<1>1. st'[e] = t /\ \A x \in Execs \ {e} : st'[x] = st[x]
  BY DEF ExecsOK
<1>2. st' = [x \in Execs |-> st'[x]] /\ prc' = [x \in Execs |-> prc'[x]]
  BY DEF ExecsOK
<1>3. \A x \in Execs : ExecInv(prc'[x], st'[x])
  BY <1>1 DEF ExecsOK
<1> QED
  BY <1>2, <1>3, NoPrcStep DEF ExecsStep, ExecsOK

(* A step that touches neither table. *)
LEMMA NoExecStep ==
    ASSUME ExecsOK, UNCHANGED <<prc, st>>
    PROVE  ExecsStep
BY NoPrcStep DEF ExecsStep, ExecsOK

(* Whatever has a row keeps it. *)
LEMMA RowsStay ==
    ASSUME ExecsOK, ExecsStep
    PROVE  /\ \A e \in Execs : prc[e].status # "None" =>
                 prc'[e].status # "None" /\ prc'[e].pid = prc[e].pid
           /\ \A e \in Execs, s \in StateExecIds : st[e][s].status # "None" => st'[e][s].status # "None"
           /\ \A t : TaskOK(t) => TaskOK(t)'
<1>1. \A e \in Execs : prc[e].status # "None" =>
                 prc'[e].status # "None" /\ prc'[e].pid = prc[e].pid
  BY DEF ExecsStep, PrcStep, Closed
<1>2. ASSUME NEW e \in Execs, NEW s \in StateExecIds, st[e][s].status # "None"
      PROVE  st'[e][s].status # "None"
  <2>1. ExecBase(prc[e], st[e]) /\ ExecBase(prc'[e], st'[e])
    BY DEF ExecsOK, ExecsStep, ExecInv
  <2>2. s[2] <= prc[e].seq[s[1]]
    BY <1>2, <2>1 DEF ExecBase
  <2>3. prc[e].status # "None"
    BY <2>1, <2>2 DEF ExecBase
  <2>4. s[2] <= prc'[e].seq[s[1]]
    BY <2>2, <2>3 DEF ExecsStep, PrcStep
  <2> QED
    BY <2>1, <2>4 DEF ExecBase
<1>3. ASSUME NEW t, TaskOK(t)
      PROVE  TaskOK(t)'
  BY <1>1, <1>2, <1>3 DEF TaskOK, HasRows
<1> QED
  BY <1>1, <1>2, <1>3

(* What a worker that is not idle holds. *)
LEMMA HeldTask ==
    ASSUME TablesInv, NEW w \in Workers, worker[w].pc # "idle"
    PROVE  /\ TaskOK(worker[w].row.task)
           /\ worker[w].row.task.exec \in Execs
           /\ prc[worker[w].row.task.exec].status # "None"
           /\ worker[w].row.task.type \in StateTasks =>
                 /\ worker[w].row.task.sid \in StateExecIds
                 /\ st[worker[w].row.task.exec][worker[w].row.task.sid].status # "None"
           /\ worker[w].pc \in {"waitUntil", "execute"} => worker[w].row.task.type \in StateTasks
           /\ ExecInv(prc[worker[w].row.task.exec], st[worker[w].row.task.exec])
<1>1. WorkerOK(worker[w])
  BY DEF TablesInv, CallersOK
<1>2. TypedTask(worker[w].row, immSeq) \/ TypedTask(worker[w].row, timSeq)
  BY <1>1 DEF WorkerOK, TypedWorker
<1> QED
  BY <1>1, <1>2 DEF WorkerOK, TypedWorker, TypedTask, TaskOK, HasRows, StateTasks, TablesInv, ExecsOK
-----------------------------------------------------------------------------
(* TaskOK and WorkerOK of a value, in the state after a step.              *)
TaskOKAfter(t) ==
    /\ t.exec \in Execs
    /\ t.type \in StateTasks => t.sid \in StateExecIds
    /\ prc'[t.exec].status # "None"
    /\ t.type \in StateTasks => st'[t.exec][t.sid].status # "None"

WorkerOKAfter(x) ==
    /\ x.pc \in {"idle", "immediate", "waitUntil", "execute", "failing", "timer", "checked", "timingOut"}
    /\ x.pc # "idle" => TaskOKAfter(x.row.task)
    /\ x.pc \in {"immediate", "waitUntil", "execute", "failing"} => x.row.seq \in 1..immSeq'
    /\ x.pc \in {"waitUntil", "execute"} => x.row.task.type \in {"WaitUntil", "Execute"}
    /\ x.pc \in {"timer", "checked", "timingOut"} => x.row.seq \in 1..timSeq'
    /\ x.pc \in {"failing", "timingOut"} => x.target \in Execs

(* What the tables of tasks may do in a step. *)
QueuesStep ==
    /\ immSeq' \in Nat /\ immSeq <= immSeq'
    /\ timSeq' \in Nat /\ timSeq <= timSeq'
    /\ \A r \in imm' : r \in imm \/ (r.seq \in 1..immSeq' /\ TaskOKAfter(r.task))
    /\ \A r \in tim' : r \in tim \/ (r.seq \in 1..timSeq' /\ TaskOKAfter(r.task))

WorkersStep ==
    /\ worker' = [w \in Workers |-> worker'[w]]
    /\ \A w \in Workers : worker'[w] = worker[w] \/ WorkerOKAfter(worker'[w])

ClientsStep ==
    /\ client' = [c \in Clients |-> client'[c]]
    /\ \A c \in Clients : \/ client'[c] = client[c]
                          \/ client'[c].pc = "idle"
                          \/ client'[c].target \in Execs /\ prc[client'[c].target].status # "None"

(* A task that was in order stays in order. *)
LEMMA TaskStays ==
    ASSUME ExecsOK, ExecsStep, NEW t, TaskOK(t)
    PROVE  TaskOKAfter(t)
BY RowsStay DEF TaskOK, TaskOKAfter, HasRows

(* A worker that does not move stays in order. *)
LEMMA WorkerStays ==
    ASSUME ExecsOK, ExecsStep, QueuesOK, QueuesStep, NEW x, WorkerOK(x)
    PROVE  WorkerOKAfter(x)
<1>1. \A n : n \in 1..immSeq => n \in 1..immSeq'
  BY DEF QueuesStep, QueuesOK
<1>2. \A n : n \in 1..timSeq => n \in 1..timSeq'
  BY DEF QueuesStep, QueuesOK
<1>3. x.pc # "idle" => TaskOK(x.row.task)
  BY DEF WorkerOK, TypedWorker, TypedTask, TaskOK
<1>4. x.pc # "idle" => TaskOKAfter(x.row.task)
  BY <1>3, TaskStays
<1> QED
  BY <1>1, <1>2, <1>4 DEF WorkerOK, WorkerOKAfter, TypedWorker, TypedTask

(* The four parts of a step together preserve the invariant. *)
LEMMA StepPreserves ==
    ASSUME TablesInv, ExecsStep, LatestOK', QueuesStep, WorkersStep, ClientsStep
    PROVE  TablesInv'
<1>0. ExecsOK /\ QueuesOK /\ CallersOK
  BY DEF TablesInv
<1>1. ExecsOK'
  BY DEF ExecsStep
<1>2. QueuesOK'
  <2>1. ASSUME NEW r \in imm' PROVE r.seq \in 1..immSeq' /\ TaskOKAfter(r.task)
    <3>1. CASE r \in imm
      BY <1>0, <3>1, TaskStays DEF QueuesOK, QueuesStep
    <3>2. CASE r \notin imm
      BY <3>2 DEF QueuesStep
    <3> QED
      BY <3>1, <3>2
  <2>2. ASSUME NEW r \in tim' PROVE r.seq \in 1..timSeq' /\ TaskOKAfter(r.task)
    <3>1. CASE r \in tim
      BY <1>0, <3>1, TaskStays DEF QueuesOK, QueuesStep
    <3>2. CASE r \notin tim
      BY <3>2 DEF QueuesStep
    <3> QED
      BY <3>1, <3>2
  <2> QED
    BY <2>1, <2>2 DEF QueuesOK, QueuesStep, TaskOK, TaskOKAfter, HasRows
<1>3. \A w \in Workers : WorkerOKAfter(worker'[w])
  BY <1>0, WorkerStays DEF WorkersStep, CallersOK
<1>4. \A w \in Workers : WorkerOK(worker[w])'
  BY <1>3 DEF WorkerOKAfter, WorkerOK, TypedWorker, TypedTask, TaskOKAfter, HasRows
<1>5. \A c \in Clients : (client[c].pc # "idle" =>
          client[c].target \in Execs /\ prc[client[c].target].status # "None")'
  BY <1>0, RowsStay DEF ClientsStep, CallersOK
<1>6. CallersOK'
  BY <1>4, <1>5 DEF CallersOK, WorkersStep, ClientsStep
<1> QED
  BY <1>1, <1>2, <1>6 DEF TablesInv

(* Steps that leave a part alone. *)
LEMMA LatestStays ==
    ASSUME ExecsOK, LatestOK, ExecsStep, UNCHANGED latest,
           \A e \in Execs : prc[e].status = "None" => prc'[e].status = "None"
    PROVE  LatestOK'
<1>1. \A e \in Execs : prc'[e].status # "None" => prc[e].status # "None" /\ prc'[e].pid = prc[e].pid
  BY RowsStay
<1>2. \A e \in Execs : prc'[e].status = "Running" => prc[e].status = "Running"
  BY <1>1 DEF ExecsStep, PrcStep, Closed
<1> QED
  BY <1>1, <1>2, RowsStay DEF LatestOK

(* Neither table of tasks changes. *)
LEMMA QueuesStay ==
    ASSUME QueuesOK, UNCHANGED <<imm, tim, immSeq, timSeq>>
    PROVE  QueuesStep
BY DEF QueuesOK, QueuesStep

(* No worker moves. *)
LEMMA WorkersStay ==
    ASSUME CallersOK, UNCHANGED worker
    PROVE  WorkersStep
BY DEF WorkersStep, CallersOK

(* No client moves. *)
LEMMA ClientsStay ==
    ASSUME CallersOK, UNCHANGED client
    PROVE  ClientsStep
BY DEF ClientsStep, CallersOK

(* One worker moves. *)
LEMMA OneWorkerStep ==
    ASSUME CallersOK, NEW w \in Workers, NEW x, worker' = [worker EXCEPT ![w] = x], WorkerOKAfter(x)
    PROVE  WorkersStep
BY DEF CallersOK, WorkersStep

(* A client becomes idle again. *)
LEMMA ClientReturns ==
    ASSUME CallersOK, NEW c \in Clients, client' = [client EXCEPT ![c] = IdleClient]
    PROVE  ClientsStep
BY DEF CallersOK, ClientsStep, IdleClient

(* A worker that becomes idle, or keeps its task under another pc. *)
LEMMA IdleAfter == WorkerOKAfter(Idle)
BY DEF WorkerOKAfter, Idle

(* What a worker holds stays in order, also when it is requeued. *)
LEMMA HoldingAfter ==
    ASSUME TablesInv, ExecsStep, QueuesStep, NEW w \in Workers, worker[w].pc # "idle"
    PROVE  /\ worker[w].pc \in {"timer", "checked", "timingOut"} => worker[w].row.seq \in 1..timSeq'
           /\ worker[w].pc \notin {"timer", "checked", "timingOut"} => worker[w].row.seq \in 1..immSeq'
           /\ TaskOKAfter(worker[w].row.task)
           /\ WorkerOKAfter(Requeued(w))
<1>1. WorkerOKAfter(worker[w])
  BY WorkerStays DEF TablesInv, CallersOK
<1>2. /\ worker[w].pc \in {"timer", "checked", "timingOut"} => worker[w].row.seq \in 1..timSeq'
      /\ worker[w].pc \notin {"timer", "checked", "timingOut"} => worker[w].row.seq \in 1..immSeq'
      /\ TaskOKAfter(worker[w].row.task)
  BY <1>1 DEF WorkerOKAfter
<1>3. WorkerOKAfter(Requeued(w))
  BY <1>2 DEF WorkerOKAfter, Requeued, Holding, Idle
<1> QED
  BY <1>2, <1>3

(* The end of a worker's transaction. *)
LEMMA AcknowledgedStep ==
    ASSUME TablesInv, ExecsStep, QueuesStep, NEW w \in Workers, worker[w].pc # "idle", Acknowledged(w)
    PROVE  WorkersStep
<1>1. CallersOK
  BY DEF TablesInv
<1>2. CASE worker' = [worker EXCEPT ![w] = Idle]
  BY <1>1, <1>2, IdleAfter, OneWorkerStep
<1>3. CASE worker' = [worker EXCEPT ![w] = Requeued(w)]
  BY <1>1, <1>3, HoldingAfter, OneWorkerStep
<1> QED
  BY <1>2, <1>3 DEF Acknowledged
-----------------------------------------------------------------------------
(***************************************************************************)
(* Steps of the tables.                                                    *)
(***************************************************************************)

(* New immediate tasks, while timer rows may at most disappear. *)
LEMMA ImmediateWritten ==
    ASSUME QueuesOK, NEW new, NEW kept, kept \subseteq imm, IsFiniteSet(new), WriteImmediate(new, kept),
           \A t \in new : TaskOKAfter(t), tim' \subseteq tim, timSeq' = timSeq
    PROVE  QueuesStep
BY WriteImmediateEffect DEF QueuesOK, QueuesStep

(* New timer tasks, while immediate rows may at most disappear. *)
LEMMA TimersWritten ==
    ASSUME QueuesOK, NEW new, NEW kept, kept \subseteq tim, IsFiniteSet(new), WriteTimers(new, kept),
           \A t \in new : TaskOKAfter(t), imm' \subseteq imm, immSeq' = immSeq
    PROVE  QueuesStep
BY WriteTimersEffect DEF QueuesOK, QueuesStep

(* Both. *)
LEMMA BothWritten ==
    ASSUME QueuesOK, NEW new, NEW kept, kept \subseteq imm, IsFiniteSet(new), WriteImmediate(new, kept),
           \A t \in new : TaskOKAfter(t),
           NEW timers, IsFiniteSet(timers), WriteTimers(timers, tim), \A t \in timers : TaskOKAfter(t)
    PROVE  QueuesStep
BY WriteImmediateEffect, WriteTimersEffect DEF QueuesOK, QueuesStep

(* Deleting a row leaves the others. *)
LEMMA WithoutSubset == ASSUME NEW rows, NEW row PROVE Without(rows, row) \subseteq rows
BY DEF Without

(* One state row becomes active (again), or keeps its status. *)
LEMMA OneRowStep ==
    ASSUME ExecsOK, NEW e \in Execs, NEW s \in StateExecIds, NEW x, TypedState(x),
           st[e][s].status # "None", x.status \in ActiveStates \/ x.status = st[e][s].status,
           prc' = prc, st' = [st EXCEPT ![e][s] = x]
    PROVE  ExecsStep
<1> DEFINE t == [st[e] EXCEPT ![s] = x]
<1>1. ExecInv(prc[e], st[e]) /\ StateTable(st[e])
  BY DEF ExecsOK, ExecInv, ExecBase
<1>2. \A y \in StateExecIds : t[y] = IF y = s THEN x ELSE st[e][y]
  BY <1>1 DEF StateTable
<1>3. t = [y \in StateExecIds |-> t[y]]
  BY <1>1 DEF StateTable
<1>4. StateTable(t)
  BY <1>1, <1>2, <1>3 DEF StateTable
<1>5. st' = [st EXCEPT ![e] = t]
  OBVIOUS
<1>6. ExecInv(prc[e], t)
  <2> HIDE DEF t
  <2> QED
    BY <1>1, <1>2, <1>4, StateUpdate
<1> QED
  BY <1>5, <1>6, OneStateStep

(* A task about a state execution that has a row. *)
LEMMA StateTaskAfter ==
    ASSUME ExecsOK, ExecsStep, NEW e \in Execs, NEW s \in StateExecIds, st[e][s].status # "None",
           NEW type, NEW info
    PROVE  TaskOKAfter(Task(type, e, s, info))
<1>1. st'[e][s].status # "None"
  BY RowsStay
<1>2. s[2] <= prc[e].seq[s[1]]
  BY DEF ExecsOK, ExecInv, ExecBase
<1>3. prc[e].status # "None"
  BY <1>2 DEF ExecsOK, ExecInv, ExecBase
<1>4. prc'[e].status # "None"
  BY <1>3, RowsStay
<1> QED
  BY <1>1, <1>4 DEF TaskOKAfter, Task

(* A task about an execution only. *)
LEMMA ProcessTaskAfter ==
    ASSUME NEW e \in Execs, prc'[e].status # "None",
           NEW type, type \notin StateTasks, NEW s, NEW info
    PROVE  TaskOKAfter(Task(type, e, s, info))
BY DEF TaskOKAfter, Task

(* The task of a publication is in order. *)
LEMMA PublishTasksAfter ==
    ASSUME NEW e \in Execs, prc'[e].status # "None", NEW ms
    PROVE  /\ IsFiniteSet(PublishTasks(e, ms))
           /\ \A t \in PublishTasks(e, ms) : TaskOKAfter(t)
<1>1. "NewLocalQueueMessages" \notin StateTasks
  BY DEF StateTasks
<1>2. \A t \in PublishTasks(e, ms) : t = Task("NewLocalQueueMessages", e, NoState, FreshMessages(e, ms))
  BY DEF PublishTasks
<1> QED
  BY <1>1, <1>2, ProcessTaskAfter, PublishTasksFinite

(* The stop of an execution, if it runs. *)
LEMMA StopStep ==
    ASSUME TablesInv, NEW e \in Execs, NEW status \in Closed, StopExecution(e, status),
           tim' \subseteq tim, timSeq' = timSeq
    PROVE  ExecsStep /\ QueuesStep /\ \A x \in Execs : prc[x].status = "None" => prc'[x].status = "None"
<1>0. ExecsOK /\ QueuesOK /\ ExecInv(prc[e], st[e])
  BY DEF TablesInv, ExecsOK
<1>1. CASE prc[e].status # "Running"
  <2>1. UNCHANGED <<prc, st, imm, immSeq>>
    BY <1>1 DEF StopExecution
  <2>2. ExecsStep
    BY <1>0, <2>1, NoExecStep
  <2>3. QueuesStep
    BY <1>0, <2>1 DEF QueuesOK, QueuesStep
  <2> QED
    BY <2>1, <2>2, <2>3
<1>2. CASE prc[e].status = "Running"
  <2> DEFINE r == StoppedPrc(prc[e], status)
             t == IF prc[e].pending = {} THEN st[e] ELSE AbortRunning(st[e])
             new == {VisibilityTask(e, status)}
  <2>1. ExecInv(r, t) /\ PrcStep(prc[e], r)
    BY <1>0, <1>2, StopOperation
  <2>2. /\ prc' = [prc EXCEPT ![e] = r]
        /\ st' = IF prc[e].pending = {} THEN st ELSE [st EXCEPT ![e] = AbortRunning(st[e])]
        /\ WriteImmediate(new, imm)
    BY <1>2 DEF StopExecution
  <2>3. st' = [st EXCEPT ![e] = t]
    <3>1. st = [st EXCEPT ![e] = st[e]]
      BY <1>0 DEF ExecsOK
    <3> QED
      BY <2>2, <3>1
  <2>4. ExecsStep
    <3> HIDE DEF r, t
    <3> QED
      BY <1>0, <1>2, <2>1, <2>2, <2>3, OneExecStep
  <2>5. prc'[e].status # "None"
    BY <1>0, <1>2, <2>4, RowsStay
  <2>6. IsFiniteSet(new) /\ \A x \in new : TaskOKAfter(x)
    BY <2>5, FS_Singleton, ProcessTaskAfter DEF VisibilityTask, StateTasks
  <2>7. QueuesStep
    <3> HIDE DEF new
    <3> QED
      BY <1>0, <2>2, <2>6, ImmediateWritten
  <2>8. \A x \in Execs : prc[x].status = "None" => prc'[x].status = "None"
    BY <1>0, <1>2, <2>2 DEF ExecsOK
  <2> QED
    BY <2>4, <2>7, <2>8
<1> QED
  BY <1>1, <1>2
-----------------------------------------------------------------------------
(***************************************************************************)
(* Every action preserves the invariant and moves executions by ExecsStep. *)
(***************************************************************************)
Preserved == TablesInv' /\ ExecsStep

(* A step that starts no execution. *)
LEMMA NoStartStep ==
    ASSUME TablesInv, ExecsStep, UNCHANGED latest, QueuesStep, WorkersStep, ClientsStep,
           \A x \in Execs : prc[x].status = "None" => prc'[x].status = "None"
    PROVE  Preserved
BY LatestStays, StepPreserves DEF TablesInv, Preserved

(* A step of a caller that writes nothing. *)
LEMMA QuietStep ==
    ASSUME TablesInv, UNCHANGED <<latest, prc, st, imm, tim, immSeq, timSeq>>, WorkersStep, ClientsStep
    PROVE  Preserved
<1>1. ExecsStep
  BY NoExecStep DEF TablesInv
<1>2. QueuesStep
  BY QueuesStay DEF TablesInv
<1> QED
  BY <1>1, <1>2, NoStartStep

(* A committed transaction of a worker. *)
LEMMA TransactionStep ==
    ASSUME TablesInv, ExecsStep, QueuesStep, UNCHANGED <<latest, client>>,
           \A x \in Execs : prc[x].status = "None" => prc'[x].status = "None",
           NEW w \in Workers, worker[w].pc # "idle", Acknowledged(w)
    PROVE  Preserved
<1>1. WorkersStep
  BY AcknowledgedStep
<1>2. ClientsStep
  BY ClientsStay DEF TablesInv
<1> QED
  BY <1>1, <1>2, NoStartStep

(* A worker that writes nothing and goes on to x. *)
LEMMA WorkerMoves ==
    ASSUME TablesInv, UNCHANGED <<latest, prc, st, imm, tim, immSeq, timSeq, client>>,
           NEW w \in Workers, NEW x, worker' = [worker EXCEPT ![w] = x], WorkerOKAfter(x)
    PROVE  Preserved
<1>1. WorkersStep
  BY OneWorkerStep DEF TablesInv
<1>2. ClientsStep
  BY ClientsStay DEF TablesInv
<1> QED
  BY <1>1, <1>2, QuietStep

(* What a worker holds is in order after a step that writes nothing. *)
LEMMA HeldAfterQuiet ==
    ASSUME TablesInv, UNCHANGED <<prc, st, imm, tim, immSeq, timSeq>>,
           NEW w \in Workers, worker[w].pc # "idle"
    PROVE  /\ worker[w].pc \in {"timer", "checked", "timingOut"} => worker[w].row.seq \in 1..timSeq'
           /\ worker[w].pc \notin {"timer", "checked", "timingOut"} => worker[w].row.seq \in 1..immSeq'
           /\ TaskOKAfter(worker[w].row.task)
           /\ WorkerOKAfter(Requeued(w))
<1>1. ExecsStep
  BY NoExecStep DEF TablesInv
<1>2. QueuesStep
  BY QueuesStay DEF TablesInv
<1> QED
  BY <1>1, <1>2, HoldingAfter

(* The clients' actions that write nothing. *)
LEMMA QuietClients ==
    ASSUME TablesInv, NEW c \in Clients,
           \/ \E op \in ClientOps, p \in ProcessIds : ReadLatest(c, op, p)
           \/ ClientFails(c)
    PROVE  Preserved
<1>0. CallersOK /\ LatestOK
  BY DEF TablesInv
<1>1. ASSUME NEW op \in ClientOps, NEW p \in ProcessIds, ReadLatest(c, op, p)
      PROVE  Preserved
  <2>1. UNCHANGED <<latest, prc, st, imm, tim, immSeq, timSeq, worker>>
    BY <1>1 DEF ReadLatest
  <2>2. latest[p] \in Execs /\ prc[latest[p]].status # "None"
    BY <1>0, <1>1 DEF ReadLatest, LatestOK
  <2>3. ClientsStep
    BY <1>0, <1>1, <2>2 DEF ReadLatest, ClientsStep, CallersOK
  <2> QED
    BY <1>0, <2>1, <2>3, WorkersStay, QuietStep
<1>2. CASE ClientFails(c)
  <2>1. UNCHANGED <<latest, prc, st, imm, tim, immSeq, timSeq, worker>>
    BY <1>2 DEF ClientFails
  <2>2. ClientsStep
    BY <1>0, <1>2, ClientReturns DEF ClientFails
  <2> QED
    BY <1>0, <2>1, <2>2, WorkersStay, QuietStep
<1> QED
  BY <1>1, <1>2

(* The workers' actions that write nothing. *)
LEMMA QuietWorkers ==
    ASSUME TablesInv, NEW w \in Workers,
           \/ LoadImmediateTask(w) \/ LoadTimerTask(w) \/ PrepareStateExecution(w)
           \/ FailProcess(w) \/ Requeue(w) \/ Crash(w) \/ ReadLatestForTimeout(w)
    PROVE  Preserved
<1> USE DEF Idle, NoTask
<1>0. /\ UNCHANGED <<latest, prc, st, imm, tim, immSeq, timSeq, client>>
      /\ QueuesOK /\ LatestOK /\ ExecsOK
  BY DEF LoadImmediateTask, LoadTimerTask, PrepareStateExecution, FailProcess, ApiFailed, Requeue, Crash,
         ReadLatestForTimeout, TablesInv
<1>1. \A r \in imm : r.seq \in 1..immSeq' /\ TaskOKAfter(r.task)
  BY <1>0 DEF QueuesOK, TaskOK, TaskOKAfter, HasRows
<1>2. \A r \in tim : r.seq \in 1..timSeq' /\ TaskOKAfter(r.task)
  BY <1>0 DEF QueuesOK, TaskOK, TaskOKAfter, HasRows
<1>3. worker[w].pc # "idle" =>
        /\ latest[prc[worker[w].row.task.exec].pid] \in Execs
        /\ worker[w].pc \in {"waitUntil", "execute"} => worker[w].row.task.type \in {"WaitUntil", "Execute"}
  <2>1. WorkerOK(worker[w])
    BY DEF TablesInv, CallersOK
  <2> QED
    BY <1>0, <2>1, HeldTask DEF LatestOK, ExecInv, ExecBase, WorkerOK, TypedWorker
<1>4. CASE LoadImmediateTask(w)
  <2>1. PICK r \in imm : worker' = [worker EXCEPT ![w] = [Idle EXCEPT !.pc = "immediate", !.row = r]]
    BY <1>4 DEF LoadImmediateTask
  <2>2. WorkerOKAfter([Idle EXCEPT !.pc = "immediate", !.row = r])
    BY <1>1 DEF WorkerOKAfter
  <2> QED
    BY <1>0, <2>1, <2>2, WorkerMoves
<1>5. CASE LoadTimerTask(w)
  <2>1. PICK r \in tim : worker' = [worker EXCEPT ![w] = [Idle EXCEPT !.pc = "timer", !.row = r]]
    BY <1>5 DEF LoadTimerTask
  <2>2. WorkerOKAfter([Idle EXCEPT !.pc = "timer", !.row = r])
    BY <1>2 DEF WorkerOKAfter
  <2> QED
    BY <1>0, <2>1, <2>2, WorkerMoves
<1>6. CASE PrepareStateExecution(w)
  <2> DEFINE v == st[worker[w].row.task.exec][worker[w].row.task.sid].version
  <2>1. /\ worker[w].pc = "immediate" /\ worker[w].row.task.type \in {"WaitUntil", "Execute"}
        /\ \/ worker' = [worker EXCEPT ![w] = [Holding(w, "waitUntil") EXCEPT !.version = v]]
           \/ worker' = [worker EXCEPT ![w] = [Holding(w, "execute") EXCEPT !.version = v]]
           \/ worker' = [worker EXCEPT ![w] = Idle]
    BY <1>6 DEF PrepareStateExecution
  <2>2. worker[w].row.seq \in 1..immSeq' /\ TaskOKAfter(worker[w].row.task)
    BY <1>0, <2>1, HeldAfterQuiet
  <2>3. /\ WorkerOKAfter([Holding(w, "waitUntil") EXCEPT !.version = v])
        /\ WorkerOKAfter([Holding(w, "execute") EXCEPT !.version = v])
    BY <2>1, <2>2 DEF WorkerOKAfter, Holding
  <2> QED
    BY <1>0, <2>1, <2>3, IdleAfter, WorkerMoves
<1>7. CASE FailProcess(w)
  <2> DEFINE x == [Holding(w, "failing") EXCEPT !.target = latest[prc[worker[w].row.task.exec].pid]]
  <2>1. worker[w].pc \in {"waitUntil", "execute"} /\ worker' = [worker EXCEPT ![w] = x]
    BY <1>7 DEF FailProcess, ApiFailed
  <2>2. worker[w].row.seq \in 1..immSeq' /\ TaskOKAfter(worker[w].row.task)
    BY <1>0, <2>1, HeldAfterQuiet
  <2>3. WorkerOKAfter(x)
    BY <1>3, <2>1, <2>2 DEF WorkerOKAfter, Holding
  <2> QED
    BY <1>0, <2>1, <2>3, WorkerMoves
<1>8. CASE ReadLatestForTimeout(w)
  <2> DEFINE x == [Holding(w, "timingOut") EXCEPT !.target = latest[prc[worker[w].row.task.exec].pid]]
  <2>1. worker[w].pc = "checked" /\ worker' = [worker EXCEPT ![w] = x]
    BY <1>8 DEF ReadLatestForTimeout
  <2>2. worker[w].row.seq \in 1..timSeq' /\ TaskOKAfter(worker[w].row.task)
    BY <1>0, <2>1, HeldAfterQuiet
  <2>3. WorkerOKAfter(x)
    BY <1>3, <2>1, <2>2 DEF WorkerOKAfter, Holding
  <2> QED
    BY <1>0, <2>1, <2>3, WorkerMoves
<1>9. CASE Requeue(w)
  BY <1>0, <1>9, HeldAfterQuiet, WorkerMoves DEF Requeue
<1>10. CASE Crash(w)
  BY <1>0, <1>10, IdleAfter, WorkerMoves DEF Crash
<1> QED
  BY <1>4, <1>5, <1>6, <1>7, <1>8, <1>9, <1>10

(* StopProcess and PublishToLocalQueue. *)
LEMMA StopAndPublish ==
    ASSUME TablesInv, NEW c \in Clients, StopProcess(c) \/ PublishToLocalQueue(c)
    PROVE  Preserved
<1>0. CallersOK /\ ExecsOK /\ QueuesOK
  BY DEF TablesInv
<1>1. client[c].target \in Execs /\ prc[client[c].target].status # "None"
  BY <1>0 DEF CallersOK, StopProcess, PublishToLocalQueue
<1>2. ClientsStep /\ WorkersStep /\ UNCHANGED latest
  BY <1>0, ClientReturns, WorkersStay DEF StopProcess, PublishToLocalQueue
<1>3. CASE StopProcess(c)
  <2>1. PICK status \in {"Failed", "Terminated"} : StopExecution(client[c].target, status)
    BY <1>3 DEF StopProcess
  <2>2. status \in Closed /\ UNCHANGED <<tim, timSeq>>
    BY <1>3 DEF StopProcess, Closed, ProcessStatus
  <2>3. ExecsStep /\ QueuesStep /\ \A x \in Execs : prc[x].status = "None" => prc'[x].status = "None"
    BY <1>1, <2>1, <2>2, StopStep
  <2> QED
    BY <1>2, <2>3, NoStartStep
<1>4. CASE PublishToLocalQueue(c)
  <2> DEFINE e == client[c].target
  <2>1. UNCHANGED <<prc, st, tim, timSeq>>
    BY <1>4 DEF PublishToLocalQueue
  <2>2. ExecsStep
    BY <1>0, <2>1, NoExecStep
  <2>3. CASE UNCHANGED <<imm, immSeq>>
    BY <1>0, <1>2, <2>1, <2>2, <2>3, QueuesStay, NoStartStep
  <2>4. ASSUME NEW ms \in Publications, WriteImmediate(PublishTasks(e, ms), imm)
        PROVE  Preserved
    <3>1. IsFiniteSet(PublishTasks(e, ms)) /\ \A t \in PublishTasks(e, ms) : TaskOKAfter(t)
      BY <1>1, <2>1, PublishTasksAfter
    <3>2. QueuesStep
      BY <1>0, <2>1, <2>4, <3>1, ImmediateWritten
    <3> QED
      BY <1>2, <2>1, <2>2, <3>2, NoStartStep
  <2> QED
    BY <1>4, <2>3, <2>4 DEF PublishToLocalQueue
<1> QED
  BY <1>3, <1>4

(* The stops by a worker: of a failed process and of one that timed out. *)
LEMMA WorkerStops ==
    ASSUME TablesInv, NEW w \in Workers, FailProcessCommit(w) \/ ProcessTimeoutCommit(w)
    PROVE  Preserved
<1>1. worker[w].target \in Execs /\ worker[w].pc # "idle"
  BY DEF TablesInv, CallersOK, WorkerOK, TypedWorker, FailProcessCommit, ProcessTimeoutCommit
<1>2. PICK status \in Closed : StopExecution(worker[w].target, status)
  <2>1. "Failed" \in Closed /\ "Timeout" \in Closed
    BY DEF Closed, ProcessStatus
  <2> QED
    BY <2>1 DEF FailProcessCommit, ProcessTimeoutCommit
<1>3. tim' \subseteq tim /\ timSeq' = timSeq /\ UNCHANGED <<latest, client>> /\ Acknowledged(w)
  BY WithoutSubset DEF FailProcessCommit, ProcessTimeoutCommit
<1>4. ExecsStep /\ QueuesStep /\ \A x \in Execs : prc[x].status = "None" => prc'[x].status = "None"
  BY <1>1, <1>2, <1>3, StopStep
<1> QED
  BY <1>1, <1>3, <1>4, TransactionStep

(* The first tasks of the state executions that a transaction inserts. *)
LEMMA FirstTasksAfter ==
    ASSUME NEW e \in Execs, prc'[e].status # "None", NEW S \in SUBSET StateExecIds,
           \A s \in S : st'[e][s].status # "None"
    PROVE  /\ IsFiniteSet({FirstTask(e, s) : s \in S})
           /\ \A t \in {FirstTask(e, s) : s \in S} : TaskOKAfter(t)
<1>1. ASSUME NEW s \in S PROVE TaskOKAfter(FirstTask(e, s))
  <2>1. s \in StateExecIds /\ st'[e][s].status # "None"
    OBVIOUS
  <2> QED
    BY <2>1 DEF FirstTask, Task, TaskOKAfter
<1> QED
  BY <1>1, FirstTasksFinite

(* The visibility task of an execution, alone or not there at all. *)
LEMMA VisibilityAfter ==
    ASSUME NEW e \in Execs, prc'[e].status # "None", NEW status, NEW P \in BOOLEAN,
           NEW vis, vis = IF P THEN {VisibilityTask(e, status)} ELSE {}
    PROVE  IsFiniteSet(vis) /\ \A t \in vis : TaskOKAfter(t)
<1>1. TaskOKAfter(VisibilityTask(e, status))
  BY ProcessTaskAfter DEF VisibilityTask, StateTasks
<1>2. IsFiniteSet({}) /\ IsFiniteSet({VisibilityTask(e, status)})
  BY FS_Singleton, FS_EmptySet
<1> QED
  BY <1>1, <1>2

(* The rows of the states a decision starts exist. *)
LEMMA DecisionRows ==
    ASSUME NEW row, NEW rows, NEW d
    PROVE  /\ Started(row, d.next) \subseteq StateExecIds
           /\ \A s \in Started(row, d.next) : RowsAfterDecision(rows, row, d)[s].status # "None"
<1> DEFINE t == [s \in StateExecIds |-> IF s \in Started(row, d.next) THEN NewStateRow(s, s[1]) ELSE rows[s]]
<1>1. Started(row, d.next) \subseteq StateExecIds
  BY DEF Started
<1>2. \A s \in Started(row, d.next) : t[s].status \in ActiveStates
  BY <1>1 DEF NewStateRow, ActiveStates
<1>3. RowsAfterDecision(rows, row, d) \in {t, AbortRunning(t)}
  BY DEF RowsAfterDecision
<1>4. \A s \in Started(row, d.next) : t[s].status # "None" /\ AbortRunning(t)[s].status # "None"
  <2> SUFFICES ASSUME NEW s \in Started(row, d.next)
               PROVE  t[s].status # "None" /\ AbortRunning(t)[s].status # "None"
    OBVIOUS
  <2>1. t[s].status \in ActiveStates /\ t[s] = NewStateRow(s, s[1])
    BY <1>1, <1>2
  <2>2. AbortRunning(t)[s] = WithStatus(NewStateRow(s, s[1]), "Aborted")
    BY <1>1, <2>1 DEF AbortRunning
  <2> QED
    BY <2>1, <2>2 DEF WithStatus, NewStateRow, ActiveStates
<1> QED
  BY <1>1, <1>3, <1>4

(* UpdateProcessExecutionForRpc. *)
LEMMA RpcPreserves ==
    ASSUME TablesInv, NEW c \in Clients, UpdateProcessExecutionForRpc(c)
    PROVE  Preserved
<1> DEFINE e == client[c].target
<1>0. CallersOK /\ ExecsOK /\ QueuesOK
  BY DEF TablesInv
<1>1. e \in Execs /\ prc[e].status # "None" /\ ExecInv(prc[e], st[e])
  BY <1>0 DEF CallersOK, ExecsOK, UpdateProcessExecutionForRpc
<1>2. ClientsStep /\ WorkersStep /\ UNCHANGED <<latest, tim, timSeq>>
  BY <1>0, ClientReturns, WorkersStay DEF UpdateProcessExecutionForRpc
<1>3. CASE UNCHANGED <<prc, st, imm, immSeq>>
  BY <1>0, <1>2, <1>3, NoExecStep, QueuesStay, NoStartStep
<1>4. ASSUME NEW d \in Decisions, NEW ms \in Publications,
             prc[e].status = "Running", SeqInBound(prc[e], d.next),
             prc' = [prc EXCEPT ![e] = ApplyDecision(prc[e], d)],
             st' = [st EXCEPT ![e] = RowsAfterDecision(st[e], prc[e], d)],
             WriteImmediate(DecisionTasks(e, prc[e], d) \cup PublishTasks(e, ms), imm)
      PROVE  Preserved
  <2> HIDE DEF e
  <2>1. /\ ExecInv(ApplyDecision(prc[e], d), RowsAfterDecision(st[e], prc[e], d))
        /\ PrcStep(prc[e], ApplyDecision(prc[e], d))
    BY <1>1, <1>4, DecisionOperation DEF ExecInv
  <2>2. ExecsStep
    BY <1>0, <1>1, <1>4, <2>1, OneExecStep
  <2>3. prc'[e].status # "None"
    BY <1>0, <1>1, <2>2, RowsStay
  <2>4. st'[e] = RowsAfterDecision(st[e], prc[e], d)
    BY <1>0, <1>1, <1>4 DEF ExecsOK
  <2>5. /\ IsFiniteSet(DecisionTasks(e, prc[e], d))
        /\ \A t \in DecisionTasks(e, prc[e], d) : TaskOKAfter(t)
    BY <1>1, <2>3, <2>4, DecisionRows, FirstTasksAfter DEF DecisionTasks
  <2>6. /\ IsFiniteSet(PublishTasks(e, ms))
        /\ \A t \in PublishTasks(e, ms) : TaskOKAfter(t)
    BY <1>1, <2>3, PublishTasksAfter
  <2>7. /\ IsFiniteSet(DecisionTasks(e, prc[e], d) \cup PublishTasks(e, ms))
        /\ \A t \in DecisionTasks(e, prc[e], d) \cup PublishTasks(e, ms) : TaskOKAfter(t)
    BY <2>5, <2>6, FS_Union
  <2>8. QueuesStep
    BY <1>0, <1>2, <1>4, <2>7, ImmediateWritten
  <2>9. \A x \in Execs : prc[x].status = "None" => prc'[x].status = "None"
    BY <1>0, <1>1, <1>4 DEF ExecsOK
  <2> QED
    BY <1>2, <2>2, <2>8, <2>9, NoStartStep
<1> QED
  BY <1>3, <1>4 DEF UpdateProcessExecutionForRpc

(* CompleteExecuteExecution. *)
LEMMA CompleteExecutePreserves ==
    ASSUME TablesInv, NEW w \in Workers, CompleteExecuteExecution(w)
    PROVE  Preserved
<1> DEFINE e == worker[w].row.task.exec
           s == worker[w].row.task.sid
           row == CompleteState(prc[e], s)
           rows == [st[e] EXCEPT ![s] = WithStatus(st[e][s], "Completed")]
<1>0. ExecsOK /\ QueuesOK
  BY DEF TablesInv
<1>1. /\ worker[w].pc # "idle" /\ Acknowledged(w) /\ UNCHANGED <<latest, tim, timSeq, client>>
      /\ s \in prc[e].pending
  BY DEF CompleteExecuteExecution
<1>2. e \in Execs /\ prc[e].status # "None" /\ ExecInv(prc[e], st[e])
  BY <1>1, HeldTask
<1>3. rows = WithRow(st[e], s, WithStatus(st[e][s], "Completed"))
  <2>1. st[e] = [x \in StateExecIds |-> st[e][x]]
    BY <1>2 DEF ExecInv, ExecBase, StateTable
  <2> QED
    BY <2>1 DEF WithRow
<1>4. /\ ExecBase(row, rows) /\ row.status = prc[e].status /\ row.pid = prc[e].pid
      /\ row.seq = prc[e].seq /\ row.pending = prc[e].pending \ {s}
      /\ row.status \in {"Running", "Terminated"}
  <2> HIDE DEF rows, e, s
  <2> QED
    BY <1>1, <1>2, <1>3, CompleteOperation
<1>5. PICK d \in Decisions, ms \in Publications :
        /\ SeqInBound(row, d.next)
        /\ prc' = [prc EXCEPT ![e] = ApplyDecision(row, d)]
        /\ st' = [st EXCEPT ![e] = RowsAfterDecision(rows, row, d)]
        /\ WriteImmediate(DecisionTasks(e, row, d) \cup PublishTasks(e, ms)
               \cup (IF ApplyDecision(row, d).status # "Running"
                     THEN {VisibilityTask(e, ApplyDecision(row, d).status)} ELSE {}),
                          Without(imm, worker[w].row))
  BY DEF CompleteExecuteExecution
<1> HIDE DEF e, s, row, rows
<1>6. ExecInv(ApplyDecision(row, d), RowsAfterDecision(rows, row, d)) /\ PrcStep(row, ApplyDecision(row, d))
  BY <1>4, <1>5, DecisionOperation
<1>7. PrcStep(prc[e], ApplyDecision(row, d))
  BY <1>4, <1>6 DEF PrcStep
<1>8. ExecsStep
  BY <1>0, <1>2, <1>5, <1>6, <1>7, OneExecStep
<1>9. prc'[e].status # "None"
  BY <1>0, <1>2, <1>8, RowsStay
<1>10. st'[e] = RowsAfterDecision(rows, row, d)
  BY <1>0, <1>2, <1>5 DEF ExecsOK
<1> DEFINE v == ApplyDecision(row, d).status
           vis == IF v # "Running" THEN {VisibilityTask(e, v)} ELSE {}
<1>11. IsFiniteSet(DecisionTasks(e, row, d)) /\ \A t \in DecisionTasks(e, row, d) : TaskOKAfter(t)
  BY <1>2, <1>9, <1>10, DecisionRows, FirstTasksAfter DEF DecisionTasks
<1>12. IsFiniteSet(PublishTasks(e, ms)) /\ \A t \in PublishTasks(e, ms) : TaskOKAfter(t)
  BY <1>2, <1>9, PublishTasksAfter
<1>13. IsFiniteSet(vis) /\ \A t \in vis : TaskOKAfter(t)
  BY <1>2, <1>9, VisibilityAfter
<1> DEFINE new == DecisionTasks(e, row, d) \cup PublishTasks(e, ms) \cup vis
<1>14. WriteImmediate(new, Without(imm, worker[w].row))
  BY <1>5
<1> HIDE DEF vis
<1>15. IsFiniteSet(new) /\ \A t \in new : TaskOKAfter(t)
  BY <1>11, <1>12, <1>13, FS_Union
<1>16. QueuesStep
  <2> HIDE DEF new
  <2> QED
    BY <1>0, <1>1, <1>14, <1>15, WithoutSubset, ImmediateWritten
<1>17. \A x \in Execs : prc[x].status = "None" => prc'[x].status = "None"
  BY <1>0, <1>2, <1>5 DEF ExecsOK
<1> QED
  BY <1>1, <1>8, <1>16, <1>17, TransactionStep

(* A task about a state execution, alone or not there at all. *)
LEMMA StateTasksAfter ==
    ASSUME ExecsOK, ExecsStep, NEW e \in Execs, NEW s \in StateExecIds, st[e][s].status # "None",
           NEW type, NEW info, NEW P \in BOOLEAN, NEW new, new = IF P THEN {Task(type, e, s, info)} ELSE {}
    PROVE  IsFiniteSet(new) /\ \A t \in new : TaskOKAfter(t)
<1>1. TaskOKAfter(Task(type, e, s, info))
  BY StateTaskAfter
<1>2. IsFiniteSet({}) /\ IsFiniteSet({Task(type, e, s, info)})
  BY FS_Singleton, FS_EmptySet
<1> QED
  BY <1>1, <1>2

(* What a worker that has prepared a state execution is about to update. *)
LEMMA PreparedState ==
    ASSUME TablesInv, NEW w \in Workers, worker[w].pc \in {"waitUntil", "execute"}
    PROVE  /\ worker[w].row.task.exec \in Execs
           /\ worker[w].row.task.sid \in StateExecIds
           /\ prc[worker[w].row.task.exec].status # "None"
           /\ st[worker[w].row.task.exec][worker[w].row.task.sid].status # "None"
           /\ TypedState(st[worker[w].row.task.exec][worker[w].row.task.sid])
           /\ ExecInv(prc[worker[w].row.task.exec], st[worker[w].row.task.exec])
<1>1. worker[w].pc # "idle"
  OBVIOUS
<1> QED
  BY <1>1, HeldTask DEF ExecInv, ExecBase, StateTable

(* Recording results changes nothing else of a state row. *)
LEMMA WithResultsEffect ==
    ASSUME NEW row, TypedState(row), NEW got
    PROVE  TypedState(WithResults(row, got)) /\ WithResults(row, got).status = row.status
BY DEF TypedState, WithResults

(* completeWaitUntilExecution. *)
LEMMA CompleteWaitUntilPreserves ==
    ASSUME TablesInv, NEW w \in Workers, CompleteWaitUntil(w)
    PROVE  Preserved
<1> DEFINE e == worker[w].row.task.exec
           s == worker[w].row.task.sid
           x == WithStatus(st[e][s], "ExecuteRunning")
<1>0. ExecsOK /\ QueuesOK
  BY DEF TablesInv
<1>1. /\ worker[w].pc = "waitUntil" /\ Acknowledged(w) /\ UNCHANGED <<latest, prc, tim, timSeq, client>>
  BY DEF CompleteWaitUntil
<1>2. /\ e \in Execs /\ s \in StateExecIds /\ prc[e].status # "None" /\ st[e][s].status # "None"
      /\ TypedState(st[e][s])
  BY <1>1, PreparedState
<1>3. PICK ms \in Publications :
        /\ st' = [st EXCEPT ![e][s] = x]
        /\ WriteImmediate({ExecuteTask(e, s)} \cup PublishTasks(e, ms), Without(imm, worker[w].row))
  BY DEF CompleteWaitUntil
<1>4. TypedState(x) /\ x.status \in ActiveStates
  <2>1. PICK old : old = st[e][s] /\ TypedState(old) /\ old.status # "None"
    BY <1>2
  <2>2. "ExecuteRunning" \in StateStatus \ {"None"} /\ "ExecuteRunning" \in ActiveStates
    BY DEF StateStatus, ActiveStates
  <2>3. TypedState(WithStatus(old, "ExecuteRunning")) /\ WithStatus(old, "ExecuteRunning").status = "ExecuteRunning"
    BY <2>1, <2>2, WithStatusEffect
  <2> QED
    BY <2>1, <2>2, <2>3
<1> HIDE DEF e, s, x
<1>5. ExecsStep
  BY <1>0, <1>1, <1>2, <1>3, <1>4, OneRowStep
<1>6. IsFiniteSet(PublishTasks(e, ms)) /\ \A t \in PublishTasks(e, ms) : TaskOKAfter(t)
  BY <1>1, <1>2, PublishTasksAfter
<1>7. IsFiniteSet({ExecuteTask(e, s)}) /\ TaskOKAfter(ExecuteTask(e, s))
  BY <1>0, <1>2, <1>5, StateTaskAfter, FS_Singleton DEF ExecuteTask
<1> DEFINE new == {ExecuteTask(e, s)} \cup PublishTasks(e, ms)
<1>8. IsFiniteSet(new) /\ \A t \in new : TaskOKAfter(t)
  BY <1>6, <1>7, FS_Union
<1>9. QueuesStep
  <2> HIDE DEF new
  <2>1. WriteImmediate(new, Without(imm, worker[w].row))
    BY <1>3 DEF new
  <2> QED
    BY <1>0, <1>1, <1>8, <2>1, WithoutSubset, ImmediateWritten
<1> QED
  BY <1>1, <1>5, <1>9, TransactionStep

(* updateWaitUntilExecution. *)
LEMMA UpdateWaitUntilPreserves ==
    ASSUME TablesInv, NEW w \in Workers, UpdateWaitUntil(w)
    PROVE  Preserved
<1> DEFINE e == worker[w].row.task.exec
           s == worker[w].row.task.sid
<1>0. ExecsOK /\ QueuesOK
  BY DEF TablesInv
<1>1. /\ worker[w].pc = "waitUntil" /\ Acknowledged(w) /\ UNCHANGED <<latest, prc, client>>
  BY DEF UpdateWaitUntil
<1>2. /\ e \in Execs /\ s \in StateExecIds /\ prc[e].status # "None" /\ st[e][s].status # "None"
      /\ TypedState(st[e][s])
  BY <1>1, PreparedState
<1>p. PICK req \in CommandRequests \ {EmptyCommand}, ms \in Publications :
        \E o \in Registered(e, s, req) :
          LET row  == WithResults([st[e][s] EXCEPT !.command = req], o.got)
              done == req.queues # <<>> /\ HasCompletedWaitUntilWaiting(row)
          IN  /\ st' = [st EXCEPT ![e][s] =
                          WithStatus(row, IF done THEN "ExecuteRunning" ELSE "WaitUntilWaiting")]
              /\ WriteTimers({Task("TimerCommand", e, s, i) : i \in 1..req.timers}, tim)
              /\ WriteImmediate((IF done THEN {ExecuteTask(e, s)} ELSE {}) \cup PublishTasks(e, ms),
                                Without(imm, worker[w].row))
  BY DEF UpdateWaitUntil
<1>3. PICK o \in Registered(e, s, req) :
        LET row  == WithResults([st[e][s] EXCEPT !.command = req], o.got)
            done == req.queues # <<>> /\ HasCompletedWaitUntilWaiting(row)
        IN  /\ st' = [st EXCEPT ![e][s] =
                        WithStatus(row, IF done THEN "ExecuteRunning" ELSE "WaitUntilWaiting")]
            /\ WriteTimers({Task("TimerCommand", e, s, i) : i \in 1..req.timers}, tim)
            /\ WriteImmediate((IF done THEN {ExecuteTask(e, s)} ELSE {}) \cup PublishTasks(e, ms),
                              Without(imm, worker[w].row))
  BY <1>p
<1> DEFINE row == WithResults([st[e][s] EXCEPT !.command = req], o.got)
           done == req.queues # <<>> /\ HasCompletedWaitUntilWaiting(row)
           x == WithStatus(row, IF done THEN "ExecuteRunning" ELSE "WaitUntilWaiting")
           timers == {Task("TimerCommand", e, s, i) : i \in 1..req.timers}
           execute == IF done THEN {ExecuteTask(e, s)} ELSE {}
           new == execute \cup PublishTasks(e, ms)
<1>4. done \in BOOLEAN
  OBVIOUS
<1>5. TypedState(row) /\ row.status # "None"
  <2>1. TypedState([st[e][s] EXCEPT !.command = req]) /\ [st[e][s] EXCEPT !.command = req].status # "None"
    BY <1>2 DEF TypedState
  <2> QED
    BY <2>1, WithResultsEffect
<1>6. TypedState(x) /\ x.status \in ActiveStates
  <2> HIDE DEF row, done
  <2> QED
    BY <1>5, WithStatusEffect DEF StateStatus, ActiveStates
<1>7. /\ st' = [st EXCEPT ![e][s] = x] /\ WriteTimers(timers, tim)
      /\ WriteImmediate(new, Without(imm, worker[w].row))
  BY <1>3
<1> HIDE DEF e, s, x, done
<1>8. ExecsStep
  BY <1>0, <1>1, <1>2, <1>6, <1>7, OneRowStep
<1>9. IsFiniteSet(timers) /\ \A t \in timers : TaskOKAfter(t)
  <2>1. req.timers \in Nat
    BY CommandAssumption
  <2>2. \A i : TaskOKAfter(Task("TimerCommand", e, s, i))
    BY <1>0, <1>2, <1>8, StateTaskAfter
  <2> QED
    BY <2>1, <2>2, TimerTasksFinite
<1>10. IsFiniteSet(PublishTasks(e, ms)) /\ \A t \in PublishTasks(e, ms) : TaskOKAfter(t)
  BY <1>1, <1>2, PublishTasksAfter
<1>11. IsFiniteSet(execute) /\ \A t \in execute : TaskOKAfter(t)
  BY <1>0, <1>2, <1>4, <1>8, StateTasksAfter DEF ExecuteTask
<1> HIDE DEF timers, execute
<1>12. IsFiniteSet(new) /\ \A t \in new : TaskOKAfter(t)
  BY <1>10, <1>11, FS_Union
<1> HIDE DEF new
<1>13. QueuesStep
  BY <1>0, <1>7, <1>9, <1>12, WithoutSubset, BothWritten
<1> QED
  BY <1>1, <1>8, <1>13, TransactionStep

(* BackoffImmediateTask. *)
LEMMA BackoffPreserves ==
    ASSUME TablesInv, NEW w \in Workers, BackoffImmediateTask(w)
    PROVE  Preserved
<1> DEFINE e == worker[w].row.task.exec
           s == worker[w].row.task.sid
           x == WithStatus(st[e][s], PreparedStatus(w))
<1>0. ExecsOK /\ QueuesOK
  BY DEF TablesInv
<1>1. /\ worker[w].pc \in {"waitUntil", "execute"} /\ Acknowledged(w)
      /\ UNCHANGED <<latest, prc, immSeq, client>>
      /\ st' = [st EXCEPT ![e][s] = x]
      /\ WriteTimers({BackoffTimer(worker[w].row.task)}, tim)
      /\ imm' = Without(imm, worker[w].row)
  BY DEF BackoffImmediateTask, ApiFailed
<1>2. /\ e \in Execs /\ s \in StateExecIds /\ prc[e].status # "None" /\ st[e][s].status # "None"
      /\ TypedState(st[e][s])
  BY <1>1, PreparedState
<1>3. PreparedStatus(w) \in ActiveStates
  BY DEF PreparedStatus, ActiveStates
<1>4. TypedState(x) /\ x.status \in ActiveStates
  <2>1. PICK old, status : old = st[e][s] /\ status = PreparedStatus(w)
    OBVIOUS
  <2>2. TypedState(old) /\ old.status # "None" /\ status \in StateStatus \ {"None"} /\ status \in ActiveStates
    BY <1>2, <1>3, <2>1 DEF StateStatus, ActiveStates
  <2>3. TypedState(WithStatus(old, status)) /\ WithStatus(old, status).status = status
    BY <2>2, WithStatusEffect
  <2> QED
    BY <2>1, <2>2, <2>3
<1>5. ExecsStep
  <2> HIDE DEF e, s, x
  <2> QED
    BY <1>0, <1>1, <1>2, <1>4, OneRowStep
<1>6. TaskOKAfter(BackoffTimer(worker[w].row.task))
  BY <1>0, <1>2, <1>5, StateTaskAfter DEF BackoffTimer
<1>7. QueuesStep
  <2> DEFINE new == {BackoffTimer(worker[w].row.task)}
  <2>1. IsFiniteSet(new) /\ \A t \in new : TaskOKAfter(t)
    BY <1>6, FS_Singleton
  <2>2. WriteTimers(new, tim) /\ imm' \subseteq imm /\ immSeq' = immSeq
    BY <1>1, WithoutSubset
  <2> HIDE DEF new
  <2> QED
    BY <1>0, <2>1, <2>2, TimersWritten
<1> QED
  BY <1>1, <1>5, <1>7, TransactionStep

(* RecoverFromStateExecutionFailure. *)
LEMMA RecoverPreserves ==
    ASSUME TablesInv, NEW w \in Workers, RecoverFromStateExecutionFailure(w)
    PROVE  Preserved
<1> DEFINE e    == worker[w].row.task.exec
           s    == worker[w].row.task.sid
           dest == Proceed[st[e][s].config]
           row  == CompleteState(prc[e], s)
           new  == Started(row, Once(dest))
           rows == [x \in StateExecIds |->
                      IF x \in new THEN NewStateRow(x, st[e][s].config)
                      ELSE IF x = s THEN WithStatus(st[e][s], "Failed")
                      ELSE st[e][x]]
           r    == StartNewStates(row, Once(dest))
<1>0. ExecsOK /\ QueuesOK
  BY DEF TablesInv
<1>1. /\ worker[w].pc \in {"waitUntil", "execute"} /\ Acknowledged(w)
      /\ UNCHANGED <<latest, tim, timSeq, client>>
      /\ dest # NoState /\ s \in prc[e].pending /\ SeqInBound(row, Once(dest))
      /\ prc' = [prc EXCEPT ![e] = r] /\ st' = [st EXCEPT ![e] = rows]
      /\ WriteImmediate({FirstTask(e, x) : x \in new}, imm)
  BY DEF RecoverFromStateExecutionFailure, ApiFailed
<1>2. /\ e \in Execs /\ s \in StateExecIds /\ prc[e].status # "None" /\ st[e][s].status # "None"
      /\ TypedState(st[e][s]) /\ ExecInv(prc[e], st[e])
  BY <1>1, PreparedState
<1>3. dest \in StateIds
  BY <1>1, <1>2, ConfigAssumption DEF TypedState
<1>4. ExecInv(r, rows) /\ PrcStep(prc[e], r)
  <2> HIDE DEF e, s, dest
  <2> QED
    BY <1>1, <1>2, <1>3, RecoverOperation
<1>5. ExecsStep
  <2> HIDE DEF e, s, r, rows
  <2> QED
    BY <1>0, <1>1, <1>2, <1>4, OneExecStep
<1>6. prc'[e].status # "None"
  BY <1>0, <1>2, <1>5, RowsStay
<1>7. new \subseteq StateExecIds
  BY DEF Started
<1>8. \A x \in new : st'[e][x].status # "None"
  <2>1. st'[e] = rows
    BY <1>0, <1>1, <1>2 DEF ExecsOK
  <2>2. \A x \in new : rows[x] = NewStateRow(x, st[e][s].config)
    BY <1>7
  <2>3. \A x : NewStateRow(x, st[e][s].config).status # "None"
    BY DEF NewStateRow
  <2> HIDE DEF e, s, new, rows
  <2> QED
    BY <2>1, <2>2, <2>3
<1>9. IsFiniteSet({FirstTask(e, x) : x \in new}) /\ \A t \in {FirstTask(e, x) : x \in new} : TaskOKAfter(t)
  <2> HIDE DEF e, new
  <2> QED
    BY <1>2, <1>6, <1>7, <1>8, FirstTasksAfter
<1>10. QueuesStep
  <2> HIDE DEF e, new
  <2> QED
    BY <1>0, <1>1, <1>9, ImmediateWritten
<1>11. \A x \in Execs : prc[x].status = "None" => prc'[x].status = "None"
  BY <1>0, <1>1, <1>2 DEF ExecsOK
<1> QED
  BY <1>1, <1>5, <1>10, <1>11, TransactionStep

(* ProcessLocalQueueMessages. *)
LEMMA LocalQueuePreserves ==
    ASSUME TablesInv, NEW w \in Workers, ProcessLocalQueueMessages(w)
    PROVE  Preserved
<1> DEFINE e == worker[w].row.task.exec
<1>0. ExecsOK /\ QueuesOK
  BY DEF TablesInv
<1>1. worker[w].pc = "immediate" /\ Acknowledged(w) /\ UNCHANGED <<latest, prc, tim, timSeq, client>>
  BY DEF ProcessLocalQueueMessages
<1>2. e \in Execs /\ prc[e].status # "None" /\ ExecInv(prc[e], st[e])
  BY <1>1, HeldTask
<1>3. PICK o \in AddMessages(lq[e], worker[w].row.task.info) :
        LET assigned == {x[1] : x \in DOMAIN o.got}
            got(s)   == [i \in {x[2] : x \in {y \in DOMAIN o.got : y[1] = s}} |-> o.got[<<s, i>>]]
            row(s)   == WithResults(st[e][s], got(s))
            done     == {s \in assigned : HasCompletedWaitUntilWaiting(row(s))}
        IN  /\ assigned \subseteq {s \in StateExecIds : st[e][s].status # "None"}
            /\ st' = [st EXCEPT ![e] = [s \in StateExecIds |->
                        IF s \in done THEN WithStatus(row(s), "ExecuteRunning")
                        ELSE IF s \in assigned THEN WithStatus(row(s), st[e][s].status)
                        ELSE st[e][s]]]
            /\ WriteImmediate({ExecuteTask(e, s) : s \in done}, Without(imm, worker[w].row))
  BY DEF ProcessLocalQueueMessages
<1> DEFINE assigned == {x[1] : x \in DOMAIN o.got}
           got(s)   == [i \in {x[2] : x \in {y \in DOMAIN o.got : y[1] = s}} |-> o.got[<<s, i>>]]
           row(s)   == WithResults(st[e][s], got(s))
           done     == {s \in assigned : HasCompletedWaitUntilWaiting(row(s))}
           rows     == [s \in StateExecIds |->
                          IF s \in done THEN WithStatus(row(s), "ExecuteRunning")
                          ELSE IF s \in assigned THEN WithStatus(row(s), st[e][s].status)
                          ELSE st[e][s]]
           new      == {ExecuteTask(e, s) : s \in done}
<1>4. /\ assigned \subseteq {s \in StateExecIds : st[e][s].status # "None"}
      /\ done \subseteq assigned
      /\ st' = [st EXCEPT ![e] = rows]
      /\ WriteImmediate(new, Without(imm, worker[w].row))
  BY <1>3
<1> HIDE DEF e, assigned, got, done
<1>5. ASSUME NEW s \in StateExecIds
      PROVE  /\ TypedState(rows[s])
             /\ \/ rows[s].status = st[e][s].status
                \/ st[e][s].status # "None" /\ rows[s].status \in ActiveStates
  <2>1. TypedState(st[e][s])
    BY <1>2 DEF ExecInv, ExecBase, StateTable
  <2>2. TypedState(row(s)) /\ row(s).status = st[e][s].status
    BY <2>1, WithResultsEffect
  <2> HIDE DEF row
  <2>3. CASE s \in done
    <3>1. st[e][s].status # "None" /\ rows[s] = WithStatus(row(s), "ExecuteRunning")
      BY <1>4, <2>3
    <3> HIDE DEF rows
    <3> QED
      BY <2>2, <3>1, WithStatusEffect DEF StateStatus, ActiveStates
  <2>4. CASE s \in assigned \ done
    <3>1. st[e][s].status # "None" /\ rows[s] = WithStatus(row(s), st[e][s].status)
      BY <1>4, <2>4
    <3>2. st[e][s].status \in StateStatus \ {"None"}
      BY <2>1, <3>1 DEF TypedState
    <3> HIDE DEF rows
    <3> QED
      BY <2>2, <3>1, <3>2, WithStatusEffect
  <2>5. CASE s \notin assigned
    BY <1>4, <2>1, <2>5
  <2> QED
    BY <2>3, <2>4, <2>5
<1>6. rows = [s \in StateExecIds |-> rows[s]]
  OBVIOUS
<1> HIDE DEF row, rows
<1>7. ExecInv(prc[e], rows)
  <2>1. StateTable(rows)
    BY <1>5, <1>6 DEF StateTable
  <2> QED
    BY <1>2, <1>5, <2>1, StateUpdate
<1>8. ExecsStep
  BY <1>0, <1>1, <1>2, <1>4, <1>7, OneStateStep
<1>9. ASSUME NEW s \in done PROVE TaskOKAfter(ExecuteTask(e, s))
  BY <1>0, <1>2, <1>4, <1>8, StateTaskAfter DEF ExecuteTask
<1>10. IsFiniteSet(new)
  <2> DEFINE f == [s \in done |-> ExecuteTask(e, s)]
  <2>1. IsFiniteSet(done)
    BY <1>4, FS_Subset, StateExecIdsFinite
  <2>2. f \in Surjection(done, new)
    BY DEF Surjection
  <2> QED
    BY <2>1, <2>2, FS_Surjection
<1>11. \A t \in new : TaskOKAfter(t)
  BY <1>9
<1>12. QueuesStep
  <2> HIDE DEF new
  <2> QED
    BY <1>0, <1>1, <1>4, <1>10, <1>11, WithoutSubset, ImmediateWritten
<1> QED
  BY <1>1, <1>8, <1>12, TransactionStep

(* ConvertTimerTaskToImmediateTask and CheckProcessTimeout. *)
LEMMA TimerConversions ==
    ASSUME TablesInv, NEW w \in Workers, ConvertTimerTaskToImmediateTask(w) \/ CheckProcessTimeout(w)
    PROVE  Preserved
<1> DEFINE t == worker[w].row.task
<1>0. ExecsOK /\ QueuesOK /\ CallersOK
  BY DEF TablesInv
<1>1. worker[w].pc = "timer" /\ UNCHANGED <<latest, prc, st, timSeq, client>>
  BY DEF ConvertTimerTaskToImmediateTask, CheckProcessTimeout
<1>2. ExecsStep
  BY <1>0, <1>1, NoExecStep
<1>3. CASE ConvertTimerTaskToImmediateTask(w)
  <2> DEFINE new == {Task(t.info, t.exec, t.sid, 0)}
  <2>1. /\ t.type = "WorkerTaskBackoff" /\ WriteImmediate(new, imm)
        /\ tim' = Without(tim, worker[w].row) /\ Acknowledged(w)
    BY <1>3 DEF ConvertTimerTaskToImmediateTask
  <2>2. t.exec \in Execs /\ t.sid \in StateExecIds /\ st[t.exec][t.sid].status # "None"
    BY <1>1, <2>1, HeldTask DEF StateTasks
  <2>3. IsFiniteSet(new) /\ \A x \in new : TaskOKAfter(x)
    <3>1. TaskOKAfter(Task(t.info, t.exec, t.sid, 0))
      BY <1>0, <1>2, <2>2, StateTaskAfter
    <3> QED
      BY <3>1, FS_Singleton
  <2>4. QueuesStep
    <3> HIDE DEF new
    <3> QED
      BY <1>0, <1>1, <2>1, <2>3, WithoutSubset, ImmediateWritten
  <2> QED
    BY <1>1, <1>2, <2>1, <2>4, TransactionStep
<1>4. CASE CheckProcessTimeout(w) /\ tim' = Without(tim, worker[w].row) /\ Acknowledged(w)
  <2>1. UNCHANGED <<imm, immSeq>> /\ tim' \subseteq tim
    BY <1>4, WithoutSubset DEF CheckProcessTimeout
  <2>2. QueuesStep
    BY <1>0, <1>1, <2>1 DEF QueuesStep, QueuesOK
  <2> QED
    BY <1>1, <1>2, <1>4, <2>2, TransactionStep
<1>5. CASE CheckProcessTimeout(w) /\ worker' = [worker EXCEPT ![w] = Holding(w, "checked")] /\ UNCHANGED tim
  <2>1. UNCHANGED <<imm, immSeq, tim>>
    BY <1>5 DEF CheckProcessTimeout
  <2>2. worker[w].row.seq \in 1..timSeq' /\ TaskOKAfter(worker[w].row.task)
    BY <1>1, <2>1, HeldAfterQuiet
  <2>3. WorkerOKAfter(Holding(w, "checked"))
    BY <2>2 DEF WorkerOKAfter, Holding, Idle
  <2> QED
    BY <1>1, <1>5, <2>1, <2>3, WorkerMoves
<1> QED
  BY <1>3, <1>4, <1>5 DEF CheckProcessTimeout

(* ProcessTimerTaskForTimerCommand. *)
LEMMA TimerCommandPreserves ==
    ASSUME TablesInv, NEW w \in Workers, ProcessTimerTaskForTimerCommand(w)
    PROVE  Preserved
<1> DEFINE e    == worker[w].row.task.exec
           s    == worker[w].row.task.sid
           row  == [st[e][s] EXCEPT !.timerResults = st[e][s].timerResults \cup {worker[w].row.task.info}]
           done == HasCompletedWaitUntilWaiting(row)
           x    == WithStatus(row, IF done THEN "ExecuteRunning" ELSE "WaitUntilWaiting")
           new  == IF done THEN {ExecuteTask(e, s)} ELSE {}
<1>0. ExecsOK /\ QueuesOK
  BY DEF TablesInv
<1>1. /\ worker[w].pc = "timer" /\ worker[w].row.task.type = "TimerCommand" /\ Acknowledged(w)
      /\ UNCHANGED <<latest, prc, timSeq, client>>
  BY DEF ProcessTimerTaskForTimerCommand
<1>2. /\ e \in Execs /\ s \in StateExecIds /\ st[e][s].status # "None"
      /\ ExecInv(prc[e], st[e])
  BY <1>1, HeldTask DEF StateTasks
<1>3. CASE UNCHANGED <<st, imm, immSeq, tim>>
  <2>1. ExecsStep
    BY <1>0, <1>1, <1>3, NoExecStep
  <2>2. QueuesStep
    BY <1>0, <1>1, <1>3, QueuesStay
  <2> QED
    BY <1>1, <2>1, <2>2, TransactionStep
<1>4. CASE /\ st' = [st EXCEPT ![e][s] = x] /\ WriteImmediate(new, imm)
           /\ tim' = Without(tim, worker[w].row)
  <2>1. TypedState(row) /\ row.status # "None"
    BY <1>2 DEF TypedState, ExecInv, ExecBase, StateTable
  <2>2. TypedState(x) /\ x.status \in ActiveStates
    <3> HIDE DEF row, done
    <3> QED
      BY <2>1, WithStatusEffect DEF StateStatus, ActiveStates
  <2>3. ExecsStep
    <3> HIDE DEF e, s, x
    <3> QED
      BY <1>0, <1>1, <1>2, <1>4, <2>2, OneRowStep
  <2>4. IsFiniteSet(new) /\ \A t \in new : TaskOKAfter(t)
    <3>1. IsFiniteSet({}) /\ IsFiniteSet({ExecuteTask(e, s)})
      BY FS_EmptySet, FS_Singleton
    <3>2. TaskOKAfter(ExecuteTask(e, s))
      BY <1>0, <1>2, <2>3, StateTaskAfter DEF ExecuteTask
    <3> HIDE DEF done
    <3> QED
      BY <3>1, <3>2
  <2>5. QueuesStep
    <3> HIDE DEF new
    <3> QED
      BY <1>0, <1>1, <1>4, <2>4, WithoutSubset, ImmediateWritten
  <2> QED
    BY <1>1, <2>3, <2>5, TransactionStep
<1> QED
  BY <1>3, <1>4 DEF ProcessTimerTaskForTimerCommand

(***************************************************************************)
(* StartProcess, the only action that inserts a process row and moves the  *)
(* latest execution of a process id.                                       *)
(***************************************************************************)
LEMMA StartPreserves ==
    ASSUME TablesInv, NEW p \in ProcessIds, NEW policy \in StartPolicies, NEW start \in StartStates,
           NEW hasTimeout \in StartTimeouts, StartProcess(p, policy, start, hasTimeout)
    PROVE  Preserved
<1> DEFINE old        == latest[p]
           replaces   == policy = "TERMINATE_IF_RUNNING" /\ old # NoExec
           terminates == replaces /\ prc[old].status = "Running"
           first      == IF start = NoState THEN {} ELSE {<<start, 1>>}
           rows       == [s \in StateExecIds |-> IF s \in first THEN NewStateRow(s, s[1]) ELSE NoRow]
<1>0. ExecsOK /\ LatestOK /\ QueuesOK /\ CallersOK
  BY DEF TablesInv
<1>1. StartAllowed(policy, old) /\ MaxSeq > 0 /\ UNCHANGED <<worker, client>>
  BY DEF StartProcess
<1>2. PICK e \in Execs :
        /\ prc[e].status = "None"
        /\ latest' = [latest EXCEPT ![p] = e]
        /\ prc' = [x \in Execs |-> IF x = e THEN NewPrc(p, start)
                                   ELSE IF replaces /\ x = old THEN TerminatedPrc(prc[x])
                                   ELSE prc[x]]
        /\ st' = [x \in Execs |-> IF x = e THEN rows
                                  ELSE IF replaces /\ x = old THEN AbortRunning(st[x])
                                  ELSE st[x]]
        /\ WriteImmediate({FirstTask(e, s) : s \in first}
                           \cup {VisibilityTask(e, "Running")}
                           \cup (IF terminates THEN {VisibilityTask(old, "Terminated")} ELSE {}), imm)
        /\ WriteTimers(IF hasTimeout THEN {Task("ProcessTimeout", e, NoState, 0)} ELSE {}, tim)
  BY DEF StartProcess
<1>3. start \in StateIds \cup {NoState}
  BY ConfigAssumption
<1>4. /\ ExecInv(NewPrc(p, start), rows) /\ NewPrc(p, start).status = "Running"
      /\ NewPrc(p, start).pid = p /\ first \subseteq StateExecIds
  BY <1>1, <1>3, StartOperation
<1>5. \A s \in first : rows[s].status # "None"
  <2>1. \A s \in first : rows[s] = NewStateRow(s, s[1])
    BY <1>4
  <2>2. \A s : NewStateRow(s, s[1]).status # "None"
    BY DEF NewStateRow
  <2> HIDE DEF first, rows
  <2> QED
    BY <2>1, <2>2
<1>6. old # NoExec => old \in Execs /\ prc[old].status # "None" /\ prc[old].pid = p
  BY <1>0 DEF LatestOK
<1> HIDE DEF rows, first
<1>7. \A x \in Execs : ExecInv(prc'[x], st'[x])
  <2> SUFFICES ASSUME NEW x \in Execs PROVE ExecInv(prc'[x], st'[x])
    OBVIOUS
  <2>1. ExecInv(prc[x], st[x])
    BY <1>0 DEF ExecsOK
  <2> QED
    BY <1>2, <1>4, <2>1, TerminateOperation
<1>8. \A x \in Execs : prc[x].status # "None" => PrcStep(prc[x], prc'[x])
  <2> SUFFICES ASSUME NEW x \in Execs, prc[x].status # "None" PROVE PrcStep(prc[x], prc'[x])
    OBVIOUS
  <2>1. x # e /\ ExecInv(prc[x], st[x])
    BY <1>0, <1>2 DEF ExecsOK
  <2> QED
    BY <1>2, <2>1, TerminateOperation, NoPrcStep
<1>9. \A x \in Execs : prc[x].status = "None" => prc'[x].status \in {"None", "Running"}
  BY <1>2, <1>4, <1>6
<1>10. ExecsStep
  BY <1>2, <1>7, <1>8, <1>9 DEF ExecsStep, ExecsOK
<1>11. prc'[e].status = "Running" /\ prc'[e].pid = p /\ st'[e] = rows
  BY <1>2, <1>4
<1>12. LatestOK'
  <2>1. latest' \in [ProcessIds -> Execs \cup {NoExec}] /\ latest'[p] = e
        /\ \A q \in ProcessIds \ {p} : latest'[q] = latest[q]
    BY <1>0, <1>2 DEF LatestOK
  <2>2. \A x \in Execs : prc[x].status # "None" => prc'[x].status # "None" /\ prc'[x].pid = prc[x].pid
    BY <1>0, <1>10, RowsStay
  <2>3. \A x \in Execs \ {e} : prc'[x].status # "None" => prc[x].status # "None"
    BY <1>2, <1>6
  <2>4. \A x \in Execs : prc'[x].status # "None" => prc'[x].pid \in ProcessIds
    BY <1>7 DEF ExecInv, ExecBase
  <2>5. e # NoExec
    BY NoneAssumption
  <2>6. ASSUME NEW x \in Execs, prc'[x].status # "None" PROVE latest'[prc'[x].pid] # NoExec
    <3>1. CASE x = e
      BY <1>11, <2>1, <2>5, <3>1
    <3>2. CASE x # e
      BY <1>0, <2>1, <2>2, <2>3, <2>4, <2>5, <2>6, <3>2 DEF LatestOK
    <3> QED
      BY <3>1, <3>2
  <2>7. ASSUME NEW q \in ProcessIds, latest'[q] # NoExec
        PROVE  prc'[latest'[q]].status # "None" /\ prc'[latest'[q]].pid = q
    <3>1. CASE q = p
      BY <1>11, <2>1, <3>1
    <3>2. CASE q # p
      BY <1>0, <2>1, <2>2, <2>7, <3>2 DEF LatestOK
    <3> QED
      BY <3>1, <3>2
  <2>8. ASSUME NEW x \in Execs, prc'[x].status = "Running" PROVE latest'[prc'[x].pid] = x
    <3>1. CASE x = e
      BY <1>11, <2>1, <3>1
    <3>2. CASE x # e
      <4>1. /\ prc[x].status = "Running" /\ prc[x].pid = prc'[x].pid /\ latest[prc[x].pid] = x
            /\ prc[x].pid \in ProcessIds
        BY <1>0, <1>10, <2>2, <2>3, <2>4, <2>8, <3>2 DEF ExecsStep, PrcStep, Closed, LatestOK
      <4>2. prc[x].pid # p
        <5> SUFFICES ASSUME prc[x].pid = p PROVE FALSE
          OBVIOUS
        <5>1. x = old /\ old # NoExec
          BY <4>1, NoneAssumption
        <5>2. policy = "TERMINATE_IF_RUNNING"
          BY <1>1, <4>1, <5>1 DEF StartAllowed
        <5>3. prc'[x] = TerminatedPrc(prc[x])
          BY <1>2, <3>2, <5>1, <5>2
        <5>4. TerminatedPrc(prc[x]).status = "Terminated"
          BY <1>0, <4>1 DEF TerminatedPrc, ExecsOK, ExecInv, ExecBase, PrcRow
        <5> QED
          BY <2>8, <5>3, <5>4
      <4> QED
        BY <2>1, <4>1, <4>2
    <3> QED
      BY <3>1, <3>2
  <2> QED
    BY <2>1, <2>6, <2>7, <2>8 DEF LatestOK
<1>13. QueuesStep
  <2> DEFINE firsts == {FirstTask(e, s) : s \in first}
             starts == {VisibilityTask(e, "Running")}
             ends   == IF terminates THEN {VisibilityTask(old, "Terminated")} ELSE {}
             new    == firsts \cup starts \cup ends
             timers == IF hasTimeout THEN {Task("ProcessTimeout", e, NoState, 0)} ELSE {}
  <2>1. IsFiniteSet(firsts) /\ \A t \in firsts : TaskOKAfter(t)
    BY <1>4, <1>5, <1>11, FirstTasksAfter
  <2>2. IsFiniteSet(starts) /\ \A t \in starts : TaskOKAfter(t)
    <3>1. starts = IF TRUE THEN {VisibilityTask(e, "Running")} ELSE {}
      OBVIOUS
    <3>2. prc'[e].status # "None"
      BY <1>11
    <3> QED
      BY <3>1, <3>2, VisibilityAfter
  <2>3. IsFiniteSet(ends) /\ \A t \in ends : TaskOKAfter(t)
    <3>1. CASE terminates
      <4>1. old \in Execs /\ prc'[old].status # "None"
        BY <1>0, <1>6, <1>10, <3>1, RowsStay
      <4>2. ends = IF TRUE THEN {VisibilityTask(old, "Terminated")} ELSE {}
        BY <3>1
      <4> HIDE DEF old, ends
      <4> QED
        BY <4>1, <4>2, VisibilityAfter
    <3>2. CASE ~terminates
      BY <3>2, FS_EmptySet
    <3> QED
      BY <3>1, <3>2
  <2>4. IsFiniteSet(timers) /\ \A t \in timers : TaskOKAfter(t)
    <3>1. TaskOKAfter(Task("ProcessTimeout", e, NoState, 0))
      <4>1. prc'[e].status # "None" /\ "ProcessTimeout" \notin StateTasks
        BY <1>11 DEF StateTasks
      <4> QED
        BY <4>1, ProcessTaskAfter
    <3>2. IsFiniteSet({}) /\ IsFiniteSet({Task("ProcessTimeout", e, NoState, 0)})
      BY FS_EmptySet, FS_Singleton
    <3> QED
      BY <3>1, <3>2
  <2>5. WriteImmediate(new, imm) /\ WriteTimers(timers, tim)
    BY <1>2
  <2> HIDE DEF firsts, starts, ends, timers
  <2>6. IsFiniteSet(new) /\ \A t \in new : TaskOKAfter(t)
    BY <2>1, <2>2, <2>3, FS_Union
  <2> HIDE DEF new
  <2> QED
    BY <1>0, <2>4, <2>5, <2>6, BothWritten
<1> QED
  BY <1>0, <1>1, <1>10, <1>12, <1>13, WorkersStay, ClientsStay, StepPreserves DEF Preserved
-----------------------------------------------------------------------------
(***************************************************************************)
(* The invariant, and what follows from it.                                *)
(***************************************************************************)

(* The empty tables satisfy the invariant. *)
LEMMA InitEstablishes == Init => TablesInv
<1> SUFFICES ASSUME Init PROVE TablesInv
  OBVIOUS
<1> USE DEF Init
<1>1. NoPrc \in PrcRow /\ NoPrc.status = "None" /\ NoPrc.pending = {} /\ NoPrc.seq = [id \in StateIds |-> 0]
  <2>1. [id \in StateIds |-> 0] \in [StateIds -> 0..MaxSeq]
    BY FiniteAssumption
  <2> QED
    BY <2>1 DEF NoPrc, PrcRow, ProcessStatus
<1>2. TypedState(NoRow) /\ NoRow.status = "None"
  BY DEF NoRow, TypedState, StateStatus
<1>3. \A s \in StateExecIds : s[1] \in StateIds /\ ~(s[2] <= 0)
  BY FiniteAssumption DEF StateExecIds
<1>4. ExecInv(NoPrc, [s \in StateExecIds |-> NoRow])
  BY <1>1, <1>2, <1>3 DEF ExecInv, ExecBase, StateTable, Closed
<1>5. ExecsOK
  BY <1>4 DEF ExecsOK
<1>6. LatestOK
  BY <1>1 DEF LatestOK
<1>7. QueuesOK
  BY DEF QueuesOK
<1>8. CallersOK
  BY DEF CallersOK, WorkerOK, TypedWorker, Idle, IdleClient
<1> QED
  BY <1>5, <1>6, <1>7, <1>8 DEF TablesInv

(* Every step preserves it, and moves executions by ExecsStep. *)
LEMMA NextPreserves == TablesInv /\ [Next]_vars => TablesInv' /\ ExecsStep
<1> SUFFICES ASSUME TablesInv, [Next]_vars PROVE Preserved
  BY DEF Preserved
<1>1. ASSUME NEW p \in ProcessIds, NEW policy \in StartPolicies, NEW start \in StartStates,
             NEW hasTimeout \in StartTimeouts, StartProcess(p, policy, start, hasTimeout)
      PROVE  Preserved
  BY <1>1, StartPreserves
<1>2. ASSUME NEW c \in Clients, ClientStep(c)
      PROVE  Preserved
  BY <1>2, QuietClients, StopAndPublish, RpcPreserves DEF ClientStep
<1>3. ASSUME NEW w \in Workers, ImmediateStep(w)
      PROVE  Preserved
  BY <1>3, QuietWorkers, CompleteWaitUntilPreserves, UpdateWaitUntilPreserves,
     CompleteExecutePreserves, LocalQueuePreserves DEF ImmediateStep
<1>4. ASSUME NEW w \in Workers, FailureStep(w)
      PROVE  Preserved
  BY <1>4, QuietWorkers, BackoffPreserves, WorkerStops, RecoverPreserves DEF FailureStep
<1>5. ASSUME NEW w \in Workers, TimerStep(w)
      PROVE  Preserved
  BY <1>5, QuietWorkers, TimerConversions, TimerCommandPreserves, WorkerStops DEF TimerStep
<1>6. CASE UNCHANGED vars
  <2>1. UNCHANGED <<latest, prc, st, imm, tim, immSeq, timSeq, worker, client>>
    BY <1>6 DEF vars
  <2> QED
    BY <2>1, WorkersStay, ClientsStay, QuietStep DEF TablesInv
<1> QED
  BY <1>1, <1>2, <1>3, <1>4, <1>5, <1>6 DEF Next

(* TablesInv holds in every reachable state of the store. *)
THEOREM TablesInvariant == Spec => []TablesInv
<1>1. TablesInv /\ [Next]_vars => TablesInv'
  BY NextPreserves
<1> QED
  BY <1>1, InitEstablishes, PTL DEF Spec

(* What a task, a row or a caller refers to is well typed: every table and *)
(* every in-flight copy keeps its shape, whatever interleaving produced it.*)
THEOREM TypeCorrect == Spec => []TypeOK
<1>1. TablesInv => TypeOK
  <2> SUFFICES ASSUME TablesInv PROVE TypeOK
    OBVIOUS
  <2>1. latest \in [ProcessIds -> Execs \cup {NoExec}]
    BY DEF TablesInv, LatestOK
  <2>2. prc \in [Execs -> PrcRow]
    BY DEF TablesInv, ExecsOK, ExecInv, ExecBase
  <2>3. /\ st = [e \in Execs |-> [s \in StateExecIds |-> st[e][s]]]
        /\ \A e \in Execs, s \in StateExecIds : TypedState(st[e][s])
    <3>1. st = [e \in Execs |-> st[e]] /\ \A e \in Execs : StateTable(st[e])
      BY DEF TablesInv, ExecsOK, ExecInv, ExecBase
    <3> QED
      BY <3>1 DEF StateTable
  <2>4. /\ immSeq \in Nat /\ timSeq \in Nat
        /\ \A r \in imm : TypedTask(r, immSeq)
        /\ \A r \in tim : TypedTask(r, timSeq)
    BY DEF TablesInv, QueuesOK, TypedTask, TaskOK
  <2>5. /\ worker = [w \in Workers |-> worker[w]]
        /\ \A w \in Workers : TypedWorker(worker[w])
        /\ client = [c \in Clients |-> client[c]]
        /\ \A c \in Clients : client[c].pc # "idle" => client[c].target \in Execs
    BY DEF TablesInv, CallersOK, WorkerOK
  <2> QED
    BY <2>1, <2>2, <2>3, <2>4, <2>5 DEF TypeOK
<1> QED
  BY <1>1, TablesInvariant, PTL

(* No transaction of a worker meets a missing row.                         *)
THEOREM NoMissingRow == Spec => []TasksHaveRows
<1>1. TablesInv => TasksHaveRows
  BY DEF TablesInv, ExecsOK, ExecInv, ExecBase, LatestOK, QueuesOK, CallersOK, WorkerOK, TaskOK, TasksHaveRows
<1> QED
  BY <1>1, TablesInvariant, PTL

(* No id-reuse policy leaves two executions of one process id running, or  *)
(* one that the latest-execution table does not name.                      *)
THEOREM AtMostOneRunning == Spec => []OneRunningIsLatest
<1>1. TablesInv => OneRunningIsLatest
  BY DEF TablesInv, LatestOK, OneRunningIsLatest
<1> QED
  BY <1>1, TablesInvariant, PTL

(* The sequence map of an execution numbers exactly its state rows.        *)
THEOREM SequencesAreRows == Spec => []SequenceMatchesRows
<1>1. TablesInv => SequenceMatchesRows
  BY DEF TablesInv, ExecsOK, ExecInv, ExecBase, SequenceMatchesRows
<1> QED
  BY <1>1, TablesInvariant, PTL

(* A running process only counts live state executions as pending.         *)
THEOREM PendingAlive == Spec => []PendingIsAlive
<1>1. TablesInv => PendingIsAlive
  BY DEF TablesInv, ExecsOK, ExecInv, ExecBase, PendingIsAlive
<1> QED
  BY <1>1, TablesInvariant, PTL

(* A process asked to complete gracefully is never left running idle.      *)
THEOREM GracefulCompletes == Spec => []GracefulNeverStuck
<1>1. TablesInv => GracefulNeverStuck
  BY DEF TablesInv, ExecsOK, ExecInv, GracefulNeverStuck
<1> QED
  BY <1>1, TablesInvariant, PTL

(* A process that completed, failed or timed out has nothing pending.      *)
THEOREM ClosedIsDrained == Spec => []ClosedLeavesNothingPending
<1>1. TablesInv => ClosedLeavesNothingPending
  BY DEF TablesInv, ExecsOK, ExecInv, ClosedLeavesNothingPending
<1> QED
  BY <1>1, TablesInvariant, PTL

(* No step, of whichever caller, reopens a closed process execution.       *)
THEOREM ClosedForGood == Spec => ClosedNeverReopens
<1>1. TablesInv /\ [Next]_vars =>
        [\A e \in Execs : prc[e].status \in Closed => prc'[e].status \in Closed]_vars
  BY NextPreserves DEF ExecsStep, PrcStep, Closed
<1> QED
  BY <1>1, TablesInvariant, PTL DEF Spec, ClosedNeverReopens

(* No step makes a state execution that has left the pending map pending   *)
(* again, so that its decision is applied at most once.                    *)
THEOREM DecidedOnce == Spec => NeverPendingAgain
<1>1. TablesInv /\ [Next]_vars =>
        [\A e \in Execs : \A s \in StateExecIds :
            s[2] <= prc[e].seq[s[1]] /\ s \notin prc[e].pending => s \notin prc'[e].pending]_vars
  <2> SUFFICES ASSUME TablesInv, [Next]_vars, NEW e \in Execs, NEW s \in StateExecIds,
                      s[2] <= prc[e].seq[s[1]], s \notin prc[e].pending
               PROVE  s \notin prc'[e].pending
    OBVIOUS
  <2>1. prc[e].status # "None"
    BY DEF TablesInv, ExecsOK, ExecInv, ExecBase
  <2>2. PrcStep(prc[e], prc'[e])
    BY <2>1, NextPreserves DEF ExecsStep
  <2> QED
    BY <2>2 DEF PrcStep
<1> QED
  BY <1>1, TablesInvariant, PTL DEF Spec, NeverPendingAgain
-----------------------------------------------------------------------------
(***************************************************************************)
(* ProcessStore implements ProcessLifecycle, for every value of the        *)
(* constants: the initial states map to initial states, and every step of  *)
(* the store maps to a step of the lifecycle or to a stutter.              *)
(***************************************************************************)
(* What a transaction does to the row of a started execution, as the       *)
(* lifecycle sees it.                                                      *)
Advances(old, new) ==
    \E done \in SUBSET old.pending, next \in SUBSET StateExecIds :
        /\ \A s, t \in done : s = t
        /\ next \cap Begun(old) = {}
        /\ new.pending = (old.pending \ done) \cup next
        /\ Begun(new) = Begun(old) \cup next

LifeStep(old, new) ==
    \/ old.status \in Closed /\ new.status \in Closed
    \/ old.status = "Running" /\ new.status \in Closed
    \/ old.status = "Running" /\ new.status = "Running" /\ Advances(old, new)

(* The names of the phases. *)
LEMMA Phases ==
    /\ Phase("None") = "none" /\ Phase("Running") = "running"
    /\ \A s \in Closed : Phase(s) = "closed"
BY DEF Phase, Closed

(* A transaction on one started execution is a step of the lifecycle. *)
LEMMA OneExecutionMoves ==
    ASSUME ExecsOK, NEW e \in Execs, NEW new, LifeStep(prc[e], new),
           prc' = [prc EXCEPT ![e] = new], latest' = latest
    PROVE  [Lifecycle!Next]_(Lifecycle!vars)
<1>1. prc'[e] = new /\ \A x \in Execs \ {e} : prc'[x] = prc[x]
  BY DEF ExecsOK
<1>2. \A x \in Execs \ {e} : ExecPhase'[x] = ExecPhase[x] /\ ExecOpen'[x] = ExecOpen[x] /\ ExecBegun'[x] = ExecBegun[x]
  BY <1>1 DEF ExecPhase, ExecOpen, ExecBegun
<1>3. /\ ExecPhase[e] = Phase(prc[e].status) /\ ExecPhase'[e] = Phase(new.status)
      /\ ExecOpen[e] = IF prc[e].status = "Running" THEN prc[e].pending ELSE {}
      /\ ExecOpen'[e] = IF new.status = "Running" THEN new.pending ELSE {}
      /\ ExecBegun[e] = IF prc[e].status = "Running" THEN Begun(prc[e]) ELSE {}
      /\ ExecBegun'[e] = IF new.status = "Running" THEN Begun(new) ELSE {}
  BY <1>1 DEF ExecPhase, ExecOpen, ExecBegun
<1>4. /\ ExecPhase = [x \in Execs |-> ExecPhase[x]] /\ ExecPhase' = [x \in Execs |-> ExecPhase'[x]]
      /\ ExecOpen = [x \in Execs |-> ExecOpen[x]] /\ ExecOpen' = [x \in Execs |-> ExecOpen'[x]]
      /\ ExecBegun = [x \in Execs |-> ExecBegun[x]] /\ ExecBegun' = [x \in Execs |-> ExecBegun'[x]]
  BY DEF ExecPhase, ExecOpen, ExecBegun
<1>5. "Running" \notin Closed
  BY DEF Closed
<1>6. CASE prc[e].status \in Closed /\ new.status \in Closed
  <2>1. ExecPhase' = ExecPhase /\ ExecOpen' = ExecOpen /\ ExecBegun' = ExecBegun
    BY <1>2, <1>3, <1>4, <1>5, <1>6, Phases
  <2> QED
    BY <2>1 DEF Lifecycle!vars
<1>7. CASE prc[e].status = "Running" /\ new.status \in Closed
  <2>1. Lifecycle!Close(e)
    BY <1>2, <1>3, <1>4, <1>5, <1>7, Phases DEF Lifecycle!Close
  <2> QED
    BY <2>1 DEF Lifecycle!Next
<1>8. CASE prc[e].status = "Running" /\ new.status = "Running" /\ Advances(prc[e], new)
  <2>1. PICK done \in SUBSET prc[e].pending, next \in SUBSET StateExecIds :
          /\ \A s, t \in done : s = t
          /\ next \cap Begun(prc[e]) = {}
          /\ new.pending = (prc[e].pending \ done) \cup next
          /\ Begun(new) = Begun(prc[e]) \cup next
    BY <1>8 DEF Advances
  <2>2. Lifecycle!Decide(e, done, next)
    BY <1>2, <1>3, <1>4, <1>8, <2>1, Phases DEF Lifecycle!Decide
  <2>3. done \in SUBSET ExecOpen[e]
    BY <1>3, <1>8
  <2> QED
    BY <2>2, <2>3 DEF Lifecycle!Next
<1> QED
  BY <1>6, <1>7, <1>8 DEF LifeStep

(* So is, as a stutter, a step that leaves the executions alone. *)
LEMMA NothingMoves ==
    ASSUME UNCHANGED <<latest, prc>>
    PROVE  [Lifecycle!Next]_(Lifecycle!vars)
BY DEF Lifecycle!vars, ExecPhase, ExecOpen, ExecBegun

(* The stop of an execution closes it, if it runs. *)
LEMMA StopMoves ==
    ASSUME TablesInv, NEW e \in Execs, NEW status \in Closed, StopExecution(e, status), latest' = latest
    PROVE  [Lifecycle!Next]_(Lifecycle!vars)
<1>0. ExecsOK /\ prc[e] \in PrcRow
  BY DEF TablesInv, ExecsOK, ExecInv, ExecBase
<1>1. CASE prc[e].status # "Running"
  BY <1>1, NothingMoves DEF StopExecution
<1>2. CASE prc[e].status = "Running"
  <2> DEFINE new == StoppedPrc(prc[e], status)
  <2>1. new.status = status /\ prc' = [prc EXCEPT ![e] = new]
    BY <1>0, <1>2 DEF StopExecution, StoppedPrc, PrcRow
  <2>2. LifeStep(prc[e], new)
    BY <1>2, <2>1 DEF LifeStep
  <2> HIDE DEF new
  <2> QED
    BY <1>0, <2>1, <2>2, OneExecutionMoves
<1> QED
  BY <1>1, <1>2

(* New state executions have not begun before. *)
LEMMA StartedIsFresh ==
    ASSUME NEW row \in PrcRow, NEW next \in [StateIds -> Nat], SeqInBound(row, next)
    PROVE  /\ Started(row, next) \subseteq StateExecIds
           /\ Started(row, next) \cap Begun(row) = {}
           /\ Begun(StartNewStates(row, next)) = Begun(row) \cup Started(row, next)
<1>1. \A s \in StateExecIds : s[1] \in StateIds /\ s[2] \in Nat
  BY DEF StateExecIds
<1>2. \A id \in StateIds : row.seq[id] \in Nat
  BY FiniteAssumption DEF PrcRow
<1>3. Started(row, next) \subseteq StateExecIds /\ Started(row, next) \cap Begun(row) = {}
  BY <1>1, <1>2 DEF Started, Begun
<1>4. \A s \in StateExecIds :
        s[2] <= StartNewStates(row, next).seq[s[1]] <=> s[2] <= row.seq[s[1]] \/ s \in Started(row, next)
  BY StartNewStatesEffect
<1> QED
  BY <1>3, <1>4 DEF Begun

(* Starting states after the completion of at most one of the pending ones *)
(* advances the execution.                                                 *)
LEMMA StartAdvances ==
    ASSUME NEW old, NEW row \in PrcRow, NEW done \in SUBSET old.pending, \A s, t \in done : s = t,
           row.seq = old.seq, row.pending = old.pending \ done,
           NEW next \in [StateIds -> Nat], SeqInBound(row, next)
    PROVE  Advances(old, StartNewStates(row, next))
<1>1. Begun(old) = Begun(row)
  BY DEF Begun
<1>2. StartNewStates(row, next).pending = (old.pending \ done) \cup Started(row, next)
  BY StartNewStatesEffect
<1> QED
  BY <1>1, <1>2, StartedIsFresh DEF Advances

(* A decision that leaves the process running only starts states. *)
LEMMA DecisionMoves ==
    ASSUME NEW old, NEW row, NEW rows, ExecBase(row, rows), row.status \in {"Running", "Terminated"},
           row.status = old.status,
           NEW done \in SUBSET old.pending, \A s, t \in done : s = t,
           row.seq = old.seq, row.pending = old.pending \ done,
           NEW d \in Decisions, SeqInBound(row, d.next)
    PROVE  LifeStep(old, ApplyDecision(row, d))
<1> DEFINE r == StartNewStates(row, d.next)
           n == ApplyDecision(row, d)
<1>1. row \in PrcRow /\ d.next \in [StateIds -> Nat]
  BY DecisionAssumption DEF ExecBase
<1>2. Advances(old, r)
  BY <1>1, StartAdvances
<1>3. r \in PrcRow /\ r.status = row.status
  BY <1>1, StartNewStatesEffect
<1>4. n.status \in Closed \/ (n.status = row.status /\ n.pending = r.pending /\ n.seq = r.seq)
  <2>1. CASE GracefulDone(r)
    <3>1. n = [r EXCEPT !.status = "Completed"]
      BY <2>1 DEF ApplyDecision
    <3> QED
      BY <1>3, <3>1 DEF PrcRow, Closed, ProcessStatus
  <2>2. CASE ~GracefulDone(r) /\ d.close = "GRACEFUL_COMPLETE_PROCESS"
    <3>1. n = [r EXCEPT !.graceful = TRUE, !.status = IF r.pending = {} THEN "Completed" ELSE r.status]
      BY <2>2 DEF ApplyDecision, IsForced
    <3> QED
      BY <1>3, <3>1 DEF PrcRow, Closed, ProcessStatus
  <2>3. CASE ~GracefulDone(r) /\ IsForced(d)
    <3>1. n = [r EXCEPT !.pending = {},
                        !.status = IF d.close = "FORCE_FAIL_PROCESS" THEN "Failed" ELSE "Completed"]
      BY <2>3 DEF ApplyDecision, IsForced
    <3> QED
      BY <1>3, <3>1 DEF PrcRow, Closed, ProcessStatus
  <2>4. CASE ~GracefulDone(r) /\ d.close # "GRACEFUL_COMPLETE_PROCESS" /\ ~IsForced(d)
    <3>1. n = r
      BY <2>4 DEF ApplyDecision
    <3> QED
      BY <1>3, <3>1
  <2> QED
    BY <2>1, <2>2, <2>3, <2>4
<1>5. "Terminated" \in Closed
  BY DEF Closed, ProcessStatus
<1>6. ASSUME NEW x, x.status \in Closed
      PROVE  LifeStep(old, x)
  BY <1>5, <1>6 DEF LifeStep
<1>7. ASSUME NEW x, x.status = row.status, x.pending = r.pending, x.seq = r.seq
      PROVE  LifeStep(old, x)
  <2>1. Begun(x) = Begun(r)
    BY <1>7 DEF Begun
  <2>2. Advances(old, x)
    BY <1>2, <1>7, <2>1 DEF Advances
  <2> HIDE DEF r
  <2>3. CASE row.status = "Running"
    BY <1>7, <2>2, <2>3 DEF LifeStep
  <2>4. CASE row.status = "Terminated"
    BY <1>5, <1>7, <2>4 DEF LifeStep
  <2> QED
    BY <2>3, <2>4
<1> HIDE DEF r
<1> QED
  BY <1>4, <1>6, <1>7

(* A client's RPC. *)
LEMMA RpcMoves ==
    ASSUME TablesInv, NEW c \in Clients, UpdateProcessExecutionForRpc(c)
    PROVE  [Lifecycle!Next]_(Lifecycle!vars)
<1> DEFINE e == client[c].target
<1>0. CallersOK /\ ExecsOK /\ latest' = latest
  BY DEF TablesInv, UpdateProcessExecutionForRpc
<1>1. e \in Execs /\ ExecInv(prc[e], st[e])
  BY <1>0 DEF CallersOK, ExecsOK, UpdateProcessExecutionForRpc
<1>2. CASE prc' = prc
  BY <1>0, <1>2, NothingMoves
<1>3. ASSUME NEW d \in Decisions, prc[e].status = "Running", SeqInBound(prc[e], d.next),
             prc' = [prc EXCEPT ![e] = ApplyDecision(prc[e], d)]
      PROVE  [Lifecycle!Next]_(Lifecycle!vars)
  <2> HIDE DEF e
  <2>1. LifeStep(prc[e], ApplyDecision(prc[e], d))
    <3>1. {} \in SUBSET prc[e].pending /\ prc[e].pending = prc[e].pending \ {}
      OBVIOUS
    <3> QED
      BY <1>1, <1>3, <3>1, DecisionMoves DEF ExecInv
  <2> QED
    BY <1>0, <1>1, <1>3, <2>1, OneExecutionMoves
<1> QED
  BY <1>2, <1>3 DEF UpdateProcessExecutionForRpc

(* The decision of an Execute API. *)
LEMMA CompleteExecuteMoves ==
    ASSUME TablesInv, NEW w \in Workers, CompleteExecuteExecution(w)
    PROVE  [Lifecycle!Next]_(Lifecycle!vars)
<1> DEFINE e == worker[w].row.task.exec
           s == worker[w].row.task.sid
           row == CompleteState(prc[e], s)
<1>0. ExecsOK
  BY DEF TablesInv
<1>1. worker[w].pc # "idle" /\ latest' = latest /\ s \in prc[e].pending
  BY DEF CompleteExecuteExecution
<1>2. e \in Execs /\ ExecInv(prc[e], st[e])
  BY <1>1, HeldTask
<1>3. PICK d \in Decisions : SeqInBound(row, d.next) /\ prc' = [prc EXCEPT ![e] = ApplyDecision(row, d)]
  BY DEF CompleteExecuteExecution
<1> HIDE DEF e, s
<1>4. /\ ExecBase(row, WithRow(st[e], s, WithStatus(st[e][s], "Completed")))
      /\ row.status = prc[e].status /\ row.seq = prc[e].seq
      /\ row.pending = prc[e].pending \ {s} /\ row.status \in {"Running", "Terminated"}
  BY <1>1, <1>2, CompleteOperation
<1> HIDE DEF row
<1>5. LifeStep(prc[e], ApplyDecision(row, d))
  <2>1. {s} \in SUBSET prc[e].pending /\ \A x, y \in {s} : x = y
    BY <1>1
  <2> QED
    BY <1>3, <1>4, <2>1, DecisionMoves
<1> QED
  BY <1>0, <1>1, <1>2, <1>3, <1>5, OneExecutionMoves

(* The recovery from a failed state. *)
LEMMA RecoverMoves ==
    ASSUME TablesInv, NEW w \in Workers, RecoverFromStateExecutionFailure(w)
    PROVE  [Lifecycle!Next]_(Lifecycle!vars)
<1> DEFINE e    == worker[w].row.task.exec
           s    == worker[w].row.task.sid
           dest == Proceed[st[e][s].config]
           row  == CompleteState(prc[e], s)
           r    == StartNewStates(row, Once(dest))
<1>0. ExecsOK
  BY DEF TablesInv
<1>1. /\ worker[w].pc \in {"waitUntil", "execute"} /\ latest' = latest
      /\ dest # NoState /\ s \in prc[e].pending /\ SeqInBound(row, Once(dest))
      /\ prc' = [prc EXCEPT ![e] = r]
  BY DEF RecoverFromStateExecutionFailure, ApiFailed
<1>2. e \in Execs /\ TypedState(st[e][s]) /\ ExecInv(prc[e], st[e]) /\ st[e][s].status # "None"
  BY <1>1, PreparedState
<1>3. Once(dest) \in [StateIds -> Nat]
  BY DEF Once
<1> HIDE DEF e, s, dest
<1>4. /\ ExecBase(row, WithRow(st[e], s, WithStatus(st[e][s], "Failed")))
      /\ row.status = prc[e].status /\ row.seq = prc[e].seq
      /\ row.pending = prc[e].pending \ {s} /\ row.status \in {"Running", "Terminated"}
  BY <1>1, <1>2, CompleteOperation
<1>5. row \in PrcRow
  BY <1>4 DEF ExecBase
<1> HIDE DEF row
<1>6. Advances(prc[e], r)
  <2>1. {s} \in SUBSET prc[e].pending /\ \A x, y \in {s} : x = y
    BY <1>1
  <2> QED
    BY <1>1, <1>3, <1>4, <1>5, <2>1, StartAdvances
<1>7. r.status = row.status
  BY <1>1, <1>3, <1>5, StartNewStatesEffect
<1>8. "Terminated" \in Closed
  BY DEF Closed, ProcessStatus
<1> HIDE DEF r
<1>9. LifeStep(prc[e], r)
  BY <1>4, <1>6, <1>7, <1>8 DEF LifeStep
<1> QED
  BY <1>0, <1>1, <1>2, <1>9, OneExecutionMoves

(* The stops: by a client, of a failed process, of one that timed out. *)
LEMMA StopsMove ==
    ASSUME TablesInv,
           \/ \E c \in Clients : StopProcess(c)
           \/ \E w \in Workers : FailProcessCommit(w) \/ ProcessTimeoutCommit(w)
    PROVE  [Lifecycle!Next]_(Lifecycle!vars)
<1>0. {"Failed", "Terminated", "Timeout"} \subseteq Closed
  BY DEF Closed, ProcessStatus
<1>1. ASSUME NEW c \in Clients, StopProcess(c)
      PROVE  [Lifecycle!Next]_(Lifecycle!vars)
  <2>1. client[c].target \in Execs /\ latest' = latest
    BY <1>1 DEF TablesInv, CallersOK, StopProcess
  <2>2. PICK status \in {"Failed", "Terminated"} : StopExecution(client[c].target, status)
    BY <1>1 DEF StopProcess
  <2> QED
    BY <1>0, <2>1, <2>2, StopMoves
<1>2. ASSUME NEW w \in Workers, FailProcessCommit(w) \/ ProcessTimeoutCommit(w)
      PROVE  [Lifecycle!Next]_(Lifecycle!vars)
  <2>1. worker[w].target \in Execs /\ latest' = latest
    BY <1>2 DEF TablesInv, CallersOK, WorkerOK, TypedWorker, FailProcessCommit, ProcessTimeoutCommit
  <2>2. PICK status \in Closed : StopExecution(worker[w].target, status)
    BY <1>0, <1>2 DEF FailProcessCommit, ProcessTimeoutCommit
  <2> QED
    BY <2>1, <2>2, StopMoves
<1> QED
  BY <1>1, <1>2

(* The first execution of the start state is all a new execution has begun *)
(* and waits for.                                                          *)
LEMMA NewExecution ==
    ASSUME NEW p \in ProcessIds, NEW start \in StateIds \cup {NoState}, MaxSeq > 0
    PROVE  LET first == IF start = NoState THEN {} ELSE {<<start, 1>>}
           IN  NewPrc(p, start).pending = first /\ Begun(NewPrc(p, start)) = first
<1> DEFINE row == [NoPrc EXCEPT !.status = "Running", !.pid = p]
           first == IF start = NoState THEN {} ELSE {<<start, 1>>}
<1>0. MaxSeq \in Nat \ {0}
  BY FiniteAssumption
<1>1. /\ row \in PrcRow /\ row.seq = [id \in StateIds |-> 0] /\ row.pending = {}
  <2>1. [id \in StateIds |-> 0] \in [StateIds -> 0..MaxSeq]
    BY <1>0
  <2> QED
    BY <2>1 DEF NoPrc, PrcRow, ProcessStatus
<1>2. \A s \in StateExecIds : s[1] \in StateIds /\ s[2] \in Nat /\ s[2] > 0 /\ s = <<s[1], s[2]>>
  BY <1>0 DEF StateExecIds
<1>3. Begun(row) = {}
  BY <1>1, <1>2 DEF Begun
<1>4. CASE start = NoState
  BY <1>1, <1>3, <1>4 DEF NewPrc
<1>5. CASE start # NoState
  <2>1. start \in StateIds /\ NewPrc(p, start) = StartNewStates(row, Once(start))
    BY <1>5 DEF NewPrc
  <2>2. Once(start) \in [StateIds -> Nat] /\ SeqInBound(row, Once(start))
    BY <1>0, <1>1 DEF Once, SeqInBound
  <2> HIDE DEF row
  <2>3. Started(row, Once(start)) = {<<start, 1>>}
    <3>1. \A s \in StateExecIds : s \in Started(row, Once(start)) <=> s = <<start, 1>>
      BY <1>1, <1>2, <2>1 DEF Started, Once
    <3>2. <<start, 1>> \in StateExecIds
      BY <1>0, <2>1 DEF StateExecIds
    <3>3. Started(row, Once(start)) \subseteq StateExecIds
      BY DEF Started
    <3> QED
      BY <3>1, <3>2, <3>3
  <2> QED
    BY <1>1, <1>3, <1>5, <2>1, <2>2, <2>3, StartedIsFresh, StartNewStatesEffect
<1> QED
  BY <1>4, <1>5

(* A start begins an execution and closes the one it replaces: the id-reuse *)
(* policies let a start pass a running execution only by terminating it.    *)
LEMMA StartMoves ==
    ASSUME TablesInv, NEW p \in ProcessIds, NEW policy \in StartPolicies, NEW start \in StartStates,
           NEW hasTimeout \in StartTimeouts, StartProcess(p, policy, start, hasTimeout)
    PROVE  [Lifecycle!Next]_(Lifecycle!vars)
<1> DEFINE old      == latest[p]
           replaces == policy = "TERMINATE_IF_RUNNING" /\ old # NoExec
           first    == IF start = NoState THEN {} ELSE {<<start, 1>>}
           runs(x)  == x = old /\ prc[x].status = "Running"
<1>0. ExecsOK /\ LatestOK
  BY DEF TablesInv
<1>1. StartAllowed(policy, old) /\ MaxSeq > 0
  BY DEF StartProcess
<1>2. PICK e \in Execs :
        /\ prc[e].status = "None"
        /\ latest' = [latest EXCEPT ![p] = e]
        /\ prc' = [x \in Execs |-> IF x = e THEN NewPrc(p, start)
                                   ELSE IF replaces /\ x = old THEN TerminatedPrc(prc[x])
                                   ELSE prc[x]]
  BY DEF StartProcess
<1>3. start \in StateIds \cup {NoState}
  BY ConfigAssumption
<1>4. /\ NewPrc(p, start).status = "Running" /\ first \subseteq StateExecIds
      /\ NewPrc(p, start).pending = first /\ Begun(NewPrc(p, start)) = first
  BY <1>1, <1>3, StartOperation, NewExecution
<1>5. \A x \in Execs : runs(x) => replaces
  BY <1>1, NoneAssumption DEF StartAllowed
<1>6. \A x \in Execs : TerminatedPrc(prc[x]).status =
                         IF prc[x].status = "Running" THEN "Terminated" ELSE prc[x].status
  BY <1>0 DEF TerminatedPrc, ExecsOK, ExecInv, ExecBase, PrcRow
<1>7. \A x \in Execs : TerminatedPrc(prc[x]) = prc[x] \/ prc[x].status = "Running"
  BY DEF TerminatedPrc
<1> HIDE DEF first
<1>8. /\ prc'[e].status = "Running" /\ prc'[e].pending = first /\ Begun(prc'[e]) = first
      /\ \A x \in Execs \ {e} : IF runs(x) THEN prc'[x].status = "Terminated" ELSE prc'[x] = prc[x]
  BY <1>2, <1>4, <1>5, <1>6, <1>7
<1>9. ~runs(e)
  BY <1>2
<1>10. \A x \in Execs : runs(x) <=> Lifecycle!Replaced(p, x)
  BY DEF Lifecycle!Replaced, ExecPhase, Phase
<1> HIDE DEF runs
<1>11. ExecPhase' = [x \in Execs |-> IF x = e THEN "running" ELSE IF runs(x) THEN "closed" ELSE ExecPhase[x]]
  BY <1>8 DEF ExecPhase, Phase
<1>12. ExecOpen' = [x \in Execs |-> IF x = e THEN first ELSE IF runs(x) THEN {} ELSE ExecOpen[x]]
  BY <1>8 DEF ExecOpen
<1>13. ExecBegun' = [x \in Execs |-> IF x = e THEN first ELSE IF runs(x) THEN {} ELSE ExecBegun[x]]
  BY <1>8 DEF ExecBegun
<1>14. ExecPhase[e] = "none"
  BY <1>2 DEF ExecPhase, Phase
<1>15. Lifecycle!Start(p, e, first)
  BY <1>2, <1>10, <1>11, <1>12, <1>13, <1>14 DEF Lifecycle!Start
<1> QED
  BY <1>4, <1>15 DEF Lifecycle!Next

(* Every step of the store is a step of the lifecycle, or a stutter. *)
LEMMA StepSimulation == TablesInv /\ [Next]_vars => [Lifecycle!Next]_(Lifecycle!vars)
<1> SUFFICES ASSUME TablesInv, [Next]_vars PROVE [Lifecycle!Next]_(Lifecycle!vars)
  OBVIOUS
<1>1. ASSUME NEW p \in ProcessIds, NEW policy \in StartPolicies, NEW start \in StartStates,
             NEW hasTimeout \in StartTimeouts, StartProcess(p, policy, start, hasTimeout)
      PROVE  [Lifecycle!Next]_(Lifecycle!vars)
  BY <1>1, StartMoves
<1>2. ASSUME NEW c \in Clients, ClientStep(c)
      PROVE  [Lifecycle!Next]_(Lifecycle!vars)
  <2>1. CASE StopProcess(c)
    BY <2>1, StopsMove
  <2>2. CASE UpdateProcessExecutionForRpc(c)
    BY <2>2, RpcMoves
  <2>3. CASE (\E op \in ClientOps, p \in ProcessIds : ReadLatest(c, op, p)) \/ PublishToLocalQueue(c) \/ ClientFails(c)
    <3>1. UNCHANGED <<latest, prc>>
      BY <2>3 DEF ReadLatest, PublishToLocalQueue, ClientFails
    <3> QED
      BY <3>1, NothingMoves
  <2> QED
    BY <1>2, <2>1, <2>2, <2>3 DEF ClientStep
<1>3. ASSUME NEW w \in Workers, ImmediateStep(w)
      PROVE  [Lifecycle!Next]_(Lifecycle!vars)
  <2>1. CASE CompleteExecuteExecution(w)
    BY <2>1, CompleteExecuteMoves
  <2>2. CASE \/ LoadImmediateTask(w) \/ PrepareStateExecution(w) \/ CompleteWaitUntil(w)
             \/ UpdateWaitUntil(w) \/ ProcessLocalQueueMessages(w)
    <3>1. UNCHANGED <<latest, prc>>
      BY <2>2 DEF LoadImmediateTask, PrepareStateExecution, CompleteWaitUntil, UpdateWaitUntil,
                  ProcessLocalQueueMessages
    <3> QED
      BY <3>1, NothingMoves
  <2> QED
    BY <1>3, <2>1, <2>2 DEF ImmediateStep
<1>4. ASSUME NEW w \in Workers, FailureStep(w)
      PROVE  [Lifecycle!Next]_(Lifecycle!vars)
  <2>1. CASE FailProcessCommit(w)
    BY <2>1, StopsMove
  <2>2. CASE RecoverFromStateExecutionFailure(w)
    BY <2>2, RecoverMoves
  <2>3. CASE BackoffImmediateTask(w) \/ FailProcess(w) \/ Requeue(w) \/ Crash(w)
    <3>1. UNCHANGED <<latest, prc>>
      BY <2>3 DEF BackoffImmediateTask, FailProcess, Requeue, Crash
    <3> QED
      BY <3>1, NothingMoves
  <2> QED
    BY <1>4, <2>1, <2>2, <2>3 DEF FailureStep
<1>5. ASSUME NEW w \in Workers, TimerStep(w)
      PROVE  [Lifecycle!Next]_(Lifecycle!vars)
  <2>1. CASE ProcessTimeoutCommit(w)
    BY <2>1, StopsMove
  <2>2. CASE \/ LoadTimerTask(w) \/ ConvertTimerTaskToImmediateTask(w) \/ ProcessTimerTaskForTimerCommand(w)
             \/ CheckProcessTimeout(w) \/ ReadLatestForTimeout(w)
    <3>1. UNCHANGED <<latest, prc>>
      BY <2>2 DEF LoadTimerTask, ConvertTimerTaskToImmediateTask, ProcessTimerTaskForTimerCommand,
                  CheckProcessTimeout, ReadLatestForTimeout
    <3> QED
      BY <3>1, NothingMoves
  <2> QED
    BY <1>5, <2>1, <2>2 DEF TimerStep
<1>6. CASE UNCHANGED vars
  <2>1. UNCHANGED <<latest, prc>>
    BY <1>6 DEF vars
  <2> QED
    BY <2>1, NothingMoves
<1> QED
  BY <1>1, <1>2, <1>3, <1>4, <1>5, <1>6 DEF Next

(* The store implements ProcessLifecycle: with any number of clients,      *)
(* workers, crashes, repeated tasks and lost answers, the users of the     *)
(* transactions in persistence/process see one running execution per       *)
(* process id, decisions applied once and one at a time, and executions    *)
(* that stay closed.                                                       *)
THEOREM StoreImplementsLifecycle == Spec => ImplementsLifecycle
<1>1. Init => Lifecycle!Init
  <2> SUFFICES ASSUME Init PROVE Lifecycle!Init
    OBVIOUS
  <2>1. \A e \in Execs : prc[e].status = "None"
    BY DEF Init, NoPrc
  <2> QED
    BY <2>1 DEF Init, Lifecycle!Init, ExecPhase, Phase, ExecOpen, ExecBegun
<1> QED
  BY <1>1, StepSimulation, TablesInvariant, PTL DEF Spec, ImplementsLifecycle, Lifecycle!Spec

-----------------------------------------------------------------------------
(***************************************************************************)
(* The work that the store keeps in its task tables.  A transaction        *)
(* deletes the row of its task by number.  The argument is that the copy a *)
(* worker holds, however old, names no other task: numbers are never used  *)
(* again.  So a deletion only takes away the work that the same            *)
(* transaction has done or replaced.                                       *)
(***************************************************************************)
ApiTasks == {"WaitUntil", "Execute"}
DueStates == {"WaitUntilRunning", "ExecuteRunning"}

ImmediatePcs == {"immediate", "waitUntil", "execute", "failing"}
TimerPcs == {"timer", "checked", "timingOut"}

(* A row, or a copy of one, that agrees with the table. *)
Coherent(table, row) == \A r \in table : r.seq = row.seq => r.task = row.task

(* The task that a backoff timer becomes. *)
BackoffOK(t) == t.type = "WorkerTaskBackoff" => t.info \in ApiTasks

CopyOK(x, immediate, timers) ==
    /\ x.pc \in ImmediatePcs => Coherent(immediate, x.row)
    /\ x.pc \in TimerPcs => Coherent(timers, x.row) /\ BackoffOK(x.row.task)
    /\ x.pc \in {"checked", "timingOut"} => x.row.task.type = "ProcessTimeout"

CopiesOK ==
    /\ \A r \in imm : Coherent(imm, r)
    /\ \A r \in tim : Coherent(tim, r) /\ BackoffOK(r.task)
    /\ \A w \in Workers : CopyOK(worker[w], imm, tim)

(* The tasks that carry the work of state execution s of e. *)
IsApi(t, e, s) == t.type \in ApiTasks /\ t.exec = e /\ t.sid = s
IsRetry(t, e, s) == t.type = "WorkerTaskBackoff" /\ t.exec = e /\ t.sid = s
WorkIn(immediate, timers, e, s) ==
    (\E r \in immediate : IsApi(r.task, e, s)) \/ \E r \in timers : IsRetry(r.task, e, s)

WorkOK == \A e \in Execs : \A s \in StateExecIds : st[e][s].status \in DueStates => WorkIn(imm, tim, e, s)

WorkInv == CopiesOK /\ WorkOK

-----------------------------------------------------------------------------
(* Inserting and deleting numbered rows.                                   *)

(* Each new task gets a row, and each new number one task. *)
LEMMA NumberedAll ==
    ASSUME NEW base \in Nat, NEW tasks, IsFiniteSet(tasks)
    PROVE  /\ \A t \in tasks : \E r \in Numbered(base, tasks) : r.task = t
           /\ \A r, q \in Numbered(base, tasks) : r.seq = q.seq => r.task = q.task
           /\ \A r \in Numbered(base, tasks) : r.seq \in Nat /\ r.seq > base /\ r.task \in tasks
<1> DEFINE n == Cardinality(tasks)
           f == SetToSeq(tasks)
<1>1. n \in Nat /\ ExistsBijection(1..n, tasks)
  BY FS_CardinalityType
<1>2. \E g \in [1..n -> tasks] : IsInjective(g)
  BY <1>1 DEF ExistsBijection, Bijection, Injection
<1>3. f \in [1..n -> tasks] /\ IsInjective(f)
  BY <1>2 DEF SetToSeq
<1>4. Numbered(base, tasks) = {[seq |-> base + i, task |-> f[i]] : i \in 1..n}
  BY DEF Numbered
<1> HIDE DEF n, f
<1>5. f \in Injection(1..n, tasks)
  BY <1>3 DEF Injection, IsInjective
<1>6. IsFiniteSet(1..n) /\ Cardinality(1..n) = Cardinality(tasks)
  <2>1. n = Cardinality(tasks)
    BY DEF n
  <2>2. IsFiniteSet(1..n) /\ Cardinality(1..n) = IF 1 > n THEN 0 ELSE n - 1 + 1
    BY <1>1, FS_Interval
  <2> QED
    BY <1>1, <2>1, <2>2
<1>7. f \in Surjection(1..n, tasks)
  BY <1>5, <1>6, FS_Injection
<1>8. \A t \in tasks : \E i \in 1..n : f[i] = t
  BY <1>7 DEF Surjection
<1>9. \A i \in 1..n : i \in Nat /\ i > 0 /\ f[i] \in tasks
  BY <1>1, <1>3
<1>10. \A t \in tasks : \E r \in Numbered(base, tasks) : r.task = t
  <2> SUFFICES ASSUME NEW t \in tasks PROVE \E r \in Numbered(base, tasks) : r.task = t
    OBVIOUS
  <2>1. PICK i \in 1..n : f[i] = t
    BY <1>8
  <2>2. [seq |-> base + i, task |-> f[i]] \in Numbered(base, tasks)
    BY <1>4
  <2> QED
    BY <2>1, <2>2
<1>11. ASSUME NEW r \in Numbered(base, tasks), NEW q \in Numbered(base, tasks), r.seq = q.seq
       PROVE  r.task = q.task
  <2>1. PICK i \in 1..n : r = [seq |-> base + i, task |-> f[i]]
    BY <1>4
  <2>2. PICK j \in 1..n : q = [seq |-> base + j, task |-> f[j]]
    BY <1>4
  <2>3. base + i = base + j
    BY <1>11, <2>1, <2>2
  <2>4. i = j
    BY <1>9, <2>3
  <2> QED
    BY <2>1, <2>2, <2>4
<1>12. \A r \in Numbered(base, tasks) : r.seq \in Nat /\ r.seq > base /\ r.task \in tasks
  BY <1>4, <1>9
<1> QED
  BY <1>10, <1>11, <1>12

(* A table with new rows next to some of the old ones. *)
Table(old, n) == \A r \in old : r.seq \in 1..n /\ Coherent(old, r)
Inserted(old, n, kept, tasks, new) == new = kept \cup Numbered(n, tasks)
Grown(old, n, kept, tasks, new) ==
    /\ \A r \in new : Coherent(new, r)
    /\ \A x : x.seq \in 1..n /\ Coherent(old, x) => Coherent(new, x)
    /\ kept \subseteq new
    /\ \A r \in new : r \in old \/ r.task \in tasks
    /\ \A t \in tasks : \E r \in new : r.task = t

LEMMA TableGrows ==
    ASSUME NEW old, NEW n \in Nat, Table(old, n), NEW kept, kept \subseteq old, NEW tasks, IsFiniteSet(tasks),
           NEW new, Inserted(old, n, kept, tasks, new)
    PROVE  Grown(old, n, kept, tasks, new)
<1> USE DEF Table, Inserted
<1> DEFINE more == Numbered(n, tasks)
<1>1. /\ \A t \in tasks : \E r \in more : r.task = t
      /\ \A r, q \in more : r.seq = q.seq => r.task = q.task
      /\ \A r \in more : r.seq \in Nat /\ r.seq > n /\ r.task \in tasks
  BY NumberedAll
<1> HIDE DEF more
<1>2. new = kept \cup more
  BY DEF more
<1>3. \A x : x.seq \in 1..n /\ Coherent(old, x) => Coherent(new, x)
  BY <1>1, <1>2 DEF Coherent
<1>4. ASSUME NEW r \in new PROVE Coherent(new, r)
  <2>1. CASE r \in kept
    BY <1>3, <2>1
  <2>2. CASE r \in more
    BY <1>1, <1>2, <2>2 DEF Coherent
  <2> QED
    BY <1>2, <2>1, <2>2
<1> QED
  BY <1>1, <1>2, <1>3, <1>4 DEF Grown

(* What a transaction does to the two tables. *)
ImmStep ==
    /\ \A r \in imm' : Coherent(imm', r)
    /\ \A x : x.seq \in 1..immSeq /\ Coherent(imm, x) => Coherent(imm', x)

TimStep ==
    /\ \A r \in tim' : Coherent(tim', r) /\ BackoffOK(r.task)
    /\ \A x : x.seq \in 1..timSeq /\ Coherent(tim, x) => Coherent(tim', x)

LEMMA ImmInserted ==
    ASSUME QueuesOK, CopiesOK, NEW new, IsFiniteSet(new), NEW kept, kept \subseteq imm, WriteImmediate(new, kept)
    PROVE  /\ ImmStep /\ kept \subseteq imm'
           /\ \A t \in new : \E r \in imm' : r.task = t
<1>1. /\ immSeq \in Nat /\ \A r \in imm : r.seq \in 1..immSeq /\ Coherent(imm, r)
      /\ kept \in SUBSET imm
  BY DEF QueuesOK, CopiesOK
<1>2. Table(imm, immSeq) /\ Inserted(imm, immSeq, kept, new, imm')
  BY <1>1 DEF Table, Inserted, WriteImmediate
<1>3. Grown(imm, immSeq, kept, new, imm')
  BY <1>1, <1>2, TableGrows
<1> QED
  BY <1>3 DEF ImmStep, Grown

LEMMA TimInserted ==
    ASSUME QueuesOK, CopiesOK, NEW new, IsFiniteSet(new), WriteTimers(new, tim), \A t \in new : BackoffOK(t)
    PROVE  /\ TimStep /\ tim \subseteq tim'
           /\ \A t \in new : \E r \in tim' : r.task = t
<1>1. /\ timSeq \in Nat /\ \A r \in tim : r.seq \in 1..timSeq /\ Coherent(tim, r)
      /\ tim \in SUBSET tim
  BY DEF QueuesOK, CopiesOK
<1>2. Table(tim, timSeq) /\ Inserted(tim, timSeq, tim, new, tim')
  BY <1>1 DEF Table, Inserted, WriteTimers
<1>3. Grown(tim, timSeq, tim, new, tim')
  BY <1>1, <1>2, TableGrows
<1>4. \A r \in tim' : BackoffOK(r.task)
  BY <1>3 DEF CopiesOK, Grown
<1> QED
  BY <1>3, <1>4 DEF TimStep, Grown

LEMMA ImmDeleted == ASSUME CopiesOK, imm' \subseteq imm PROVE ImmStep
BY DEF CopiesOK, ImmStep, Coherent

LEMMA TimDeleted == ASSUME CopiesOK, tim' \subseteq tim PROVE TimStep
BY DEF CopiesOK, TimStep, Coherent

(* The tables agree with the copies after a step of the workers. *)
LEMMA CopiesMove ==
    ASSUME TablesInv, CopiesOK, ImmStep, TimStep,
           \A w \in Workers : worker'[w] = worker[w] \/ CopyOK(worker'[w], imm', tim')
    PROVE  CopiesOK'
<1>1. ASSUME NEW w \in Workers PROVE CopyOK(worker[w], imm', tim')
  <2>1. WorkerOK(worker[w]) /\ CopyOK(worker[w], imm, tim)
    BY DEF TablesInv, CallersOK, CopiesOK
  <2>2. worker[w].pc \in ImmediatePcs => worker[w].row.seq \in 1..immSeq
    BY <2>1 DEF WorkerOK, TypedWorker, TypedTask, ImmediatePcs
  <2>3. worker[w].pc \in TimerPcs => worker[w].row.seq \in 1..timSeq
    BY <2>1 DEF WorkerOK, TypedWorker, TypedTask, TimerPcs
  <2> QED
    BY <2>1, <2>2, <2>3 DEF CopyOK, ImmStep, TimStep
<1>2. \A w \in Workers : CopyOK(worker'[w], imm', tim')
  BY <1>1
<1> QED
  BY <1>2 DEF CopiesOK, ImmStep, TimStep

(* A worker that commits is idle or has its task back. *)
LEMMA CopiesCommit ==
    ASSUME TablesInv, CopiesOK, ImmStep, TimStep, NEW w \in Workers, worker[w].pc # "idle", Acknowledged(w)
    PROVE  CopiesOK'
<1>1. CopyOK(Idle, imm', tim')
  BY DEF CopyOK, Idle, ImmediatePcs, TimerPcs
<1>2. WorkerOK(worker[w]) /\ CopyOK(worker[w], imm, tim)
  BY DEF TablesInv, CallersOK, CopiesOK
<1>3. CopyOK(Requeued(w), imm', tim')
  <2>1. CASE worker[w].pc \in TimerPcs
    <3>1. Requeued(w).pc = "timer" /\ Requeued(w).row = worker[w].row
      BY <2>1 DEF Requeued, Holding, Idle, TimerPcs
    <3>2. worker[w].row.seq \in 1..timSeq
      BY <1>2, <2>1 DEF WorkerOK, TypedWorker, TypedTask, TimerPcs
    <3> QED
      BY <1>2, <2>1, <3>1, <3>2 DEF CopyOK, ImmediatePcs, TimStep
  <2>2. CASE worker[w].pc \notin TimerPcs
    <3>1. Requeued(w).pc = "immediate" /\ Requeued(w).row = worker[w].row
      BY <2>2 DEF Requeued, Holding, Idle, TimerPcs
    <3>2. worker[w].pc \in ImmediatePcs /\ worker[w].row.seq \in 1..immSeq
      BY <1>2, <2>2 DEF WorkerOK, TypedWorker, TypedTask, TimerPcs, ImmediatePcs
    <3> QED
      BY <1>2, <3>1, <3>2 DEF CopyOK, TimerPcs, ImmStep
  <2> QED
    BY <2>1, <2>2
<1>4. worker = [x \in Workers |-> worker[x]]
  BY DEF TablesInv, CallersOK
<1>5. \A x \in Workers : worker'[x] = worker[x] \/ worker'[x] \in {Idle, Requeued(w)}
  BY <1>4 DEF Acknowledged
<1> QED
  BY <1>1, <1>3, <1>5, CopiesMove

-----------------------------------------------------------------------------
(* Work that stays.                                                        *)

ImmKept(e, s) == \A r \in imm : IsApi(r.task, e, s) => r \in imm'
TimKept(e, s) == \A r \in tim : IsRetry(r.task, e, s) => r \in tim'

LEMMA WorkStays ==
    ASSUME NEW e, NEW s, WorkIn(imm, tim, e, s), ImmKept(e, s), TimKept(e, s)
    PROVE  WorkIn(imm', tim', e, s)
BY DEF WorkIn, ImmKept, TimKept

LEMMA DeletesOtherTask ==
    ASSUME NEW e, NEW s, NEW row, Coherent(imm, row), ~IsApi(row.task, e, s), Without(imm, row) \subseteq imm'
    PROVE  ImmKept(e, s)
BY DEF ImmKept, Coherent, Without

LEMMA DeletesOtherTimer ==
    ASSUME NEW e, NEW s, NEW row, Coherent(tim, row), ~IsRetry(row.task, e, s), Without(tim, row) \subseteq tim'
    PROVE  TimKept(e, s)
BY DEF TimKept, Coherent, Without

LEMMA AllKept ==
    ASSUME NEW e, NEW s
    PROVE  (imm \subseteq imm' => ImmKept(e, s)) /\ (tim \subseteq tim' => TimKept(e, s))
BY DEF ImmKept, TimKept

LEMMA TaskFacts ==
    ASSUME NEW e, NEW s
    PROVE  /\ IsApi(ExecuteTask(e, s), e, s) /\ IsApi(FirstTask(e, s), e, s)
           /\ \A info : IsRetry(Task("WorkerTaskBackoff", e, s, info), e, s)
           /\ \A type \in ApiTasks : IsApi(Task(type, e, s, 0), e, s)
BY DEF IsApi, IsRetry, ExecuteTask, FirstTask, Task, ApiTasks

-----------------------------------------------------------------------------
(***************************************************************************)
(* Every action preserves WorkInv.                                         *)
(***************************************************************************)

(* Callers that write nothing. *)
LEMMA QuietWork ==
    ASSUME TablesInv, WorkInv, UNCHANGED <<st, imm, tim>>,
           \A w \in Workers : worker'[w] = worker[w] \/ CopyOK(worker'[w], imm, tim)
    PROVE  WorkInv'
<1>1. ImmStep /\ TimStep
  BY ImmDeleted, TimDeleted DEF WorkInv
<1>2. CopiesOK'
  BY <1>1, CopiesMove DEF WorkInv
<1> QED
  BY <1>2 DEF WorkInv, WorkOK

LEMMA WorkerMoved ==
    ASSUME TablesInv, WorkInv, UNCHANGED <<st, imm, tim>>, NEW w \in Workers, NEW x,
           worker' = [worker EXCEPT ![w] = x], CopyOK(x, imm, tim)
    PROVE  WorkInv'
<1>1. worker = [v \in Workers |-> worker[v]]
  BY DEF TablesInv, CallersOK
<1>2. \A v \in Workers : worker'[v] = worker[v] \/ CopyOK(worker'[v], imm, tim)
  BY <1>1
<1> QED
  BY <1>2, QuietWork

LEMMA QuietWorkersWork ==
    ASSUME TablesInv, WorkInv, NEW w \in Workers,
           \/ LoadImmediateTask(w) \/ LoadTimerTask(w) \/ PrepareStateExecution(w)
           \/ FailProcess(w) \/ Requeue(w) \/ Crash(w) \/ ReadLatestForTimeout(w)
    PROVE  WorkInv'
<1> USE DEF Idle
<1>0. /\ UNCHANGED <<st, imm, tim>> /\ WorkerOK(worker[w]) /\ CopyOK(worker[w], imm, tim)
  BY DEF LoadImmediateTask, LoadTimerTask, PrepareStateExecution, FailProcess, Requeue, Crash,
         ReadLatestForTimeout, TablesInv, CallersOK, WorkInv, CopiesOK
<1>1. CopyOK(Idle, imm, tim)
  BY DEF CopyOK, ImmediatePcs, TimerPcs
<1>2. CASE LoadImmediateTask(w)
  <2>1. PICK r \in imm : worker' = [worker EXCEPT ![w] = [Idle EXCEPT !.pc = "immediate", !.row = r]]
    BY <1>2 DEF LoadImmediateTask
  <2> DEFINE x == [Idle EXCEPT !.pc = "immediate", !.row = r]
  <2>2. x.pc = "immediate" /\ x.row = r
    OBVIOUS
  <2> HIDE DEF x
  <2>3. CopyOK(x, imm, tim)
    BY <2>2 DEF CopyOK, WorkInv, CopiesOK, TimerPcs
  <2>4. worker' = [worker EXCEPT ![w] = x]
    BY <2>1 DEF x
  <2> QED
    BY <1>0, <2>3, <2>4, WorkerMoved
<1>3. CASE LoadTimerTask(w)
  <2>1. PICK r \in tim : worker' = [worker EXCEPT ![w] = [Idle EXCEPT !.pc = "timer", !.row = r]]
    BY <1>3 DEF LoadTimerTask
  <2> DEFINE x == [Idle EXCEPT !.pc = "timer", !.row = r]
  <2>2. x.pc = "timer" /\ x.row = r
    OBVIOUS
  <2> HIDE DEF x
  <2>3. CopyOK(x, imm, tim)
    BY <2>2 DEF CopyOK, WorkInv, CopiesOK, ImmediatePcs
  <2>4. worker' = [worker EXCEPT ![w] = x]
    BY <2>1 DEF x
  <2> QED
    BY <1>0, <2>3, <2>4, WorkerMoved
<1>4. CASE PrepareStateExecution(w)
  <2> DEFINE row == st[worker[w].row.task.exec][worker[w].row.task.sid]
             x == CASE row.status = "WaitUntilRunning" -> [Holding(w, "waitUntil") EXCEPT !.version = row.version]
                    [] row.status = "ExecuteRunning"   -> [Holding(w, "execute") EXCEPT !.version = row.version]
                    [] OTHER -> Idle
  <2>1. worker' = [worker EXCEPT ![w] = x] /\ worker[w].pc = "immediate"
    BY <1>4 DEF PrepareStateExecution
  <2>2. x = Idle \/ (x.pc \in {"waitUntil", "execute"} /\ x.row = worker[w].row)
    BY DEF Holding
  <2> HIDE DEF x
  <2>3. CopyOK(x, imm, tim)
    BY <1>0, <1>1, <2>1, <2>2 DEF CopyOK, ImmediatePcs, TimerPcs
  <2> QED
    BY <1>0, <2>1, <2>3, WorkerMoved
<1>5. CASE FailProcess(w)
  <2> DEFINE x == [Holding(w, "failing") EXCEPT !.target = latest[prc[worker[w].row.task.exec].pid]]
  <2>1. worker' = [worker EXCEPT ![w] = x] /\ worker[w].pc \in {"waitUntil", "execute"}
    BY <1>5 DEF FailProcess, ApiFailed
  <2>2. x.pc = "failing" /\ x.row = worker[w].row
    BY DEF Holding
  <2> HIDE DEF x
  <2>3. CopyOK(x, imm, tim)
    BY <1>0, <2>1, <2>2 DEF CopyOK, ImmediatePcs, TimerPcs
  <2> QED
    BY <1>0, <2>1, <2>3, WorkerMoved
<1>6. CASE Requeue(w)
  <2>1. worker' = [worker EXCEPT ![w] = Requeued(w)] /\ worker[w].pc # "idle"
    BY <1>6 DEF Requeue
  <2>2. Requeued(w).row = worker[w].row /\ Requeued(w).pc = IF worker[w].pc \in TimerPcs THEN "timer" ELSE "immediate"
    BY DEF Requeued, Holding, TimerPcs
  <2>3. worker[w].pc \in TimerPcs \cup ImmediatePcs
    BY <1>0, <2>1 DEF WorkerOK, TypedWorker, TimerPcs, ImmediatePcs
  <2>4. CopyOK(Requeued(w), imm, tim)
    BY <1>0, <2>2, <2>3 DEF CopyOK, ImmediatePcs, TimerPcs
  <2> QED
    BY <1>0, <2>1, <2>4, WorkerMoved
<1>7. CASE Crash(w)
  <2>1. worker' = [worker EXCEPT ![w] = Idle]
    BY <1>7 DEF Crash
  <2> QED
    BY <1>0, <1>1, <2>1, WorkerMoved
<1>8. CASE ReadLatestForTimeout(w)
  <2> DEFINE x == [Holding(w, "timingOut") EXCEPT !.target = latest[prc[worker[w].row.task.exec].pid]]
  <2>1. worker' = [worker EXCEPT ![w] = x] /\ worker[w].pc = "checked"
    BY <1>8 DEF ReadLatestForTimeout
  <2>2. x.pc = "timingOut" /\ x.row = worker[w].row
    BY DEF Holding
  <2> HIDE DEF x
  <2>3. CopyOK(x, imm, tim)
    BY <1>0, <2>1, <2>2 DEF CopyOK, ImmediatePcs, TimerPcs
  <2> QED
    BY <1>0, <2>1, <2>3, WorkerMoved
<1> QED
  BY <1>2, <1>3, <1>4, <1>5, <1>6, <1>7, <1>8

(* Aborted states are not due. *)
LEMMA AbortedNotDue ==
    ASSUME NEW rows, StateTable(rows), NEW s \in StateExecIds
    PROVE  AbortRunning(rows)[s].status \notin DueStates
<1>1. CASE rows[s].status \in ActiveStates
  <2>1. AbortRunning(rows)[s] = WithStatus(rows[s], "Aborted") /\ TypedState(rows[s])
    BY <1>1 DEF AbortRunning, StateTable
  <2>2. AbortRunning(rows)[s].status = "Aborted"
    BY <2>1 DEF TypedState, WithStatus
  <2> QED
    BY <2>2 DEF DueStates
<1>2. CASE rows[s].status \notin ActiveStates
  <2>1. AbortRunning(rows)[s] = rows[s]
    BY <1>2 DEF AbortRunning
  <2> QED
    BY <1>2, <2>1 DEF DueStates, ActiveStates
<1> QED
  BY <1>1, <1>2

(* A stop keeps all work that is still due. *)
LEMMA StopWork ==
    ASSUME TablesInv, WorkInv, NEW e \in Execs, NEW status, StopExecution(e, status), TimStep,
           \A x \in Execs : \A s \in StateExecIds : TimKept(x, s)
    PROVE  ImmStep /\ WorkOK'
<1>0. QueuesOK /\ CopiesOK /\ ExecsOK /\ StateTable(st[e])
  BY DEF TablesInv, WorkInv, ExecsOK, ExecInv, ExecBase
<1>1. CASE prc[e].status # "Running"
  <2>1. UNCHANGED <<st, imm>>
    BY <1>1 DEF StopExecution
  <2>2. ImmStep
    BY <1>0, <2>1, ImmDeleted
  <2>3. \A x \in Execs : \A s \in StateExecIds : ImmKept(x, s)
    BY <2>1 DEF ImmKept
  <2> QED
    BY <2>1, <2>2, <2>3, WorkStays DEF WorkInv, WorkOK
<1>2. CASE prc[e].status = "Running"
  <2>1. /\ WriteImmediate({VisibilityTask(e, status)}, imm)
        /\ st' = IF prc[e].pending = {} THEN st ELSE [st EXCEPT ![e] = AbortRunning(st[e])]
    BY <1>2 DEF StopExecution
  <2>2. ImmStep /\ imm \subseteq imm'
    <3>1. PICK new : new = {VisibilityTask(e, status)}
      OBVIOUS
    <3>2. IsFiniteSet(new) /\ WriteImmediate(new, imm) /\ imm \subseteq imm
      BY <2>1, <3>1, FS_Singleton
    <3> QED
      BY <1>0, <3>2, ImmInserted
  <2>3. ASSUME NEW x \in Execs, NEW s \in StateExecIds, st'[x][s].status \in DueStates
        PROVE  WorkIn(imm', tim', x, s)
    <3>1. st'[x][s] = st[x][s]
      <4>1. CASE prc[e].pending = {} \/ x # e
        BY <1>0, <2>1, <4>1 DEF ExecsOK
      <4>2. CASE prc[e].pending # {} /\ x = e
        <5>1. st'[x] = AbortRunning(st[e])
          BY <1>0, <2>1, <4>2 DEF ExecsOK
        <5> QED
          BY <1>0, <2>3, <5>1, AbortedNotDue
      <4> QED
        BY <4>1, <4>2
    <3>2. WorkIn(imm, tim, x, s)
      BY <2>3, <3>1 DEF WorkInv, WorkOK
    <3>3. ImmKept(x, s) /\ TimKept(x, s)
      BY <2>2 DEF ImmKept
    <3> QED
      BY <3>2, <3>3, WorkStays
  <2> QED
    BY <2>2, <2>3 DEF WorkOK
<1> QED
  BY <1>1, <1>2

(* Rows that stay as they are stay with their work. *)
LEMMA RowWork ==
    ASSUME WorkInv, NEW e \in Execs, NEW s \in StateExecIds, st[e][s].status \in DueStates, ImmKept(e, s), TimKept(e, s)
    PROVE  WorkIn(imm', tim', e, s)
BY WorkStays DEF WorkInv, WorkOK

(* A new task is work. *)
LEMMA NewWork ==
    ASSUME NEW e, NEW s, NEW new, NEW t \in new, IsApi(t, e, s), \A x \in new : \E r \in imm' : r.task = x
    PROVE  WorkIn(imm', tim', e, s)
BY DEF WorkIn

LEMMA ClientWork ==
    ASSUME TablesInv, WorkInv, NEW c \in Clients,
           \/ \E op \in ClientOps, p \in ProcessIds : ReadLatest(c, op, p)
           \/ ClientFails(c) \/ StopProcess(c) \/ PublishToLocalQueue(c)
    PROVE  WorkInv'
<1>0. UNCHANGED <<tim, worker>> /\ QueuesOK /\ CopiesOK
  BY DEF ReadLatest, ClientFails, StopProcess, PublishToLocalQueue, TablesInv, WorkInv
<1>1. TimStep /\ \A x \in Execs : \A s \in StateExecIds : TimKept(x, s)
  BY <1>0, TimDeleted DEF TimKept
<1>2. CASE UNCHANGED <<st, imm>>
  BY <1>0, <1>2, QuietWork
<1>3. CASE StopProcess(c)
  <2>1. PICK status \in {"Failed", "Terminated"} : StopExecution(client[c].target, status)
    BY <1>3 DEF StopProcess
  <2>2. client[c].target \in Execs
    BY <1>3 DEF TablesInv, CallersOK, StopProcess
  <2>3. ImmStep /\ WorkOK'
    BY <1>1, <2>1, <2>2, StopWork
  <2>4. CopiesOK'
    BY <1>0, <1>1, <2>3, CopiesMove
  <2> QED
    BY <2>3, <2>4 DEF WorkInv
<1>4. ASSUME NEW ms, WriteImmediate(PublishTasks(client[c].target, ms), imm), UNCHANGED st
      PROVE  WorkInv'
  <2>1. PICK new : new = PublishTasks(client[c].target, ms)
    OBVIOUS
  <2>2. IsFiniteSet(new) /\ WriteImmediate(new, imm) /\ imm \subseteq imm
    BY <1>4, <2>1, PublishTasksFinite
  <2>3. ImmStep /\ imm \subseteq imm'
    BY <1>0, <2>2, ImmInserted
  <2>4. CopiesOK'
    BY <1>0, <1>1, <2>3, CopiesMove
  <2>5. \A x \in Execs : \A s \in StateExecIds : ImmKept(x, s)
    BY <2>3 DEF ImmKept
  <2>6. WorkOK'
    BY <1>1, <1>4, <2>5, RowWork DEF WorkOK
  <2> QED
    BY <2>4, <2>6 DEF WorkInv
<1> QED
  BY <1>2, <1>3, <1>4 DEF ReadLatest, ClientFails, PublishToLocalQueue

LEMMA WorkerStopsWork ==
    ASSUME TablesInv, WorkInv, NEW w \in Workers, FailProcessCommit(w) \/ ProcessTimeoutCommit(w)
    PROVE  WorkInv'
<1>1. worker[w].target \in Execs /\ worker[w].pc # "idle" /\ Acknowledged(w) /\ CopiesOK /\ CopyOK(worker[w], imm, tim)
  BY DEF TablesInv, CallersOK, WorkerOK, TypedWorker, FailProcessCommit, ProcessTimeoutCommit, WorkInv, CopiesOK
<1>2. TimStep /\ \A x \in Execs : \A s \in StateExecIds : TimKept(x, s)
  <2>1. CASE FailProcessCommit(w)
    <3>1. UNCHANGED tim
      BY <2>1 DEF FailProcessCommit
    <3> QED
      BY <1>1, <3>1, TimDeleted DEF TimKept
  <2>2. CASE ProcessTimeoutCommit(w)
    <3>1. tim' = Without(tim, worker[w].row) /\ worker[w].pc = "timingOut"
      BY <2>2 DEF ProcessTimeoutCommit
    <3>2. Coherent(tim, worker[w].row) /\ worker[w].row.task.type = "ProcessTimeout"
      BY <1>1, <3>1 DEF CopyOK, TimerPcs
    <3>3. \A x \in Execs : \A s \in StateExecIds : ~IsRetry(worker[w].row.task, x, s)
      BY <3>2 DEF IsRetry
    <3> QED
      BY <1>1, <3>1, <3>2, <3>3, DeletesOtherTimer, WithoutSubset, TimDeleted
  <2> QED
    BY <2>1, <2>2
<1>3. PICK status : StopExecution(worker[w].target, status)
  BY DEF FailProcessCommit, ProcessTimeoutCommit
<1>4. ImmStep /\ WorkOK'
  BY <1>1, <1>2, <1>3, StopWork
<1>5. CopiesOK'
  BY <1>1, <1>2, <1>4, CopiesCommit
<1> QED
  BY <1>4, <1>5 DEF WorkInv

(* After a decision, a state is due as before or has its first task. *)
LEMMA DecisionDue ==
    ASSUME NEW row, NEW rows, NEW d, StateTable(rows), NEW s \in StateExecIds,
           RowsAfterDecision(rows, row, d)[s].status \in DueStates
    PROVE  s \in Started(row, d.next) \/ RowsAfterDecision(rows, row, d)[s] = rows[s]
<1> DEFINE t == [x \in StateExecIds |-> IF x \in Started(row, d.next) THEN NewStateRow(x, x[1]) ELSE rows[x]]
<1>1. RowsAfterDecision(rows, row, d) \in {t, AbortRunning(t)}
  BY DEF RowsAfterDecision
<1>2. StateTable(t)
  <2>1. \A x \in StateExecIds : TypedState(NewStateRow(x, x[1]))
    BY NewStateRowEffect DEF StateExecIds
  <2> QED
    BY <2>1 DEF StateTable
<1>3. t[s] = IF s \in Started(row, d.next) THEN NewStateRow(s, s[1]) ELSE rows[s]
  OBVIOUS
<1> HIDE DEF t
<1> QED
  BY <1>1, <1>2, <1>3, AbortedNotDue

LEMMA RpcWork ==
    ASSUME TablesInv, WorkInv, NEW c \in Clients, UpdateProcessExecutionForRpc(c)
    PROVE  WorkInv'
<1> DEFINE e == client[c].target
<1>0. UNCHANGED <<tim, worker>> /\ QueuesOK /\ CopiesOK /\ ExecsOK
  BY DEF UpdateProcessExecutionForRpc, TablesInv, WorkInv
<1>1. TimStep /\ \A x \in Execs : \A s \in StateExecIds : TimKept(x, s)
  BY <1>0, TimDeleted DEF TimKept
<1>2. e \in Execs /\ StateTable(st[e])
  BY DEF TablesInv, CallersOK, UpdateProcessExecutionForRpc, ExecsOK, ExecInv, ExecBase
<1>3. CASE UNCHANGED <<st, imm>>
  BY <1>0, <1>3, QuietWork
<1>4. ASSUME NEW d \in Decisions, NEW ms \in Publications,
             st' = [st EXCEPT ![e] = RowsAfterDecision(st[e], prc[e], d)],
             WriteImmediate(DecisionTasks(e, prc[e], d) \cup PublishTasks(e, ms), imm)
      PROVE  WorkInv'
  <2> HIDE DEF e
  <2>1. PICK new : new = DecisionTasks(e, prc[e], d) \cup PublishTasks(e, ms)
    OBVIOUS
  <2>2. IsFiniteSet(DecisionTasks(e, prc[e], d))
    BY FirstTasksFinite DEF DecisionTasks, Started
  <2>3. IsFiniteSet(new) /\ WriteImmediate(new, imm) /\ imm \subseteq imm
    BY <1>4, <2>1, <2>2, PublishTasksFinite, FS_Union
  <2>4. ImmStep /\ imm \subseteq imm' /\ \A t \in new : \E r \in imm' : r.task = t
    BY <1>0, <2>3, ImmInserted
  <2>5. CopiesOK'
    BY <1>0, <1>1, <2>4, CopiesMove
  <2>6. ASSUME NEW x \in Execs, NEW s \in StateExecIds, st'[x][s].status \in DueStates
        PROVE  WorkIn(imm', tim', x, s)
    <3>1. ImmKept(x, s)
      BY <2>4 DEF ImmKept
    <3>2. CASE x = e
      <4>1. st'[e] = RowsAfterDecision(st[e], prc[e], d)
        BY <1>0, <1>2, <1>4 DEF ExecsOK
      <4>2. CASE s \in Started(prc[e], d.next)
        <5>1. FirstTask(e, s) \in new
          BY <2>1, <4>2 DEF DecisionTasks
        <5> QED
          BY <2>4, <3>2, <5>1, TaskFacts, NewWork
      <4>3. CASE s \notin Started(prc[e], d.next)
        <5>1. st'[e][s] = st[e][s]
          BY <1>2, <2>6, <3>2, <4>1, <4>3, DecisionDue
        <5> QED
          BY <1>1, <2>6, <3>1, <3>2, <5>1, RowWork
      <4> QED
        BY <4>2, <4>3
    <3>3. CASE x # e
      <4>1. st'[x][s] = st[x][s]
        BY <1>0, <1>4, <3>3 DEF ExecsOK
      <4> QED
        BY <1>1, <2>6, <3>1, <4>1, RowWork
    <3> QED
      BY <3>2, <3>3
  <2> QED
    BY <2>5, <2>6 DEF WorkInv, WorkOK
<1> QED
  BY <1>3, <1>4 DEF UpdateProcessExecutionForRpc

LEMMA CompleteExecuteWork ==
    ASSUME TablesInv, WorkInv, NEW w \in Workers, CompleteExecuteExecution(w)
    PROVE  WorkInv'
<1> DEFINE e == worker[w].row.task.exec
           s == worker[w].row.task.sid
           row == CompleteState(prc[e], s)
           rows == [st[e] EXCEPT ![s] = WithStatus(st[e][s], "Completed")]
<1>0. ExecsOK /\ QueuesOK /\ CopiesOK
  BY DEF TablesInv, WorkInv
<1>1. /\ worker[w].pc = "execute" /\ Acknowledged(w) /\ UNCHANGED tim
      /\ s \in prc[e].pending
  BY DEF CompleteExecuteExecution
<1>2. e \in Execs /\ ExecInv(prc[e], st[e]) /\ s \in StateExecIds /\ TypedState(st[e][s]) /\ st[e][s].status # "None"
  BY <1>1, PreparedState
<1>3. /\ StateTable(rows) /\ rows[s].status = "Completed"
      /\ \A x \in StateExecIds \ {s} : rows[x] = st[e][x]
  <2>1. TypedState(WithStatus(st[e][s], "Completed")) /\ WithStatus(st[e][s], "Completed").status = "Completed"
    BY <1>2, WithStatusEffect DEF StateStatus
  <2>2. st[e] = [x \in StateExecIds |-> st[e][x]] /\ \A x \in StateExecIds : TypedState(st[e][x])
    BY <1>2 DEF ExecInv, ExecBase, StateTable
  <2> HIDE DEF e, s
  <2> QED
    BY <1>2, <2>1, <2>2 DEF StateTable
<1>4. PICK d \in Decisions, ms \in Publications :
        /\ st' = [st EXCEPT ![e] = RowsAfterDecision(rows, row, d)]
        /\ WriteImmediate(DecisionTasks(e, row, d) \cup PublishTasks(e, ms)
               \cup (IF ApplyDecision(row, d).status # "Running"
                     THEN {VisibilityTask(e, ApplyDecision(row, d).status)} ELSE {}),
                          Without(imm, worker[w].row))
  BY DEF CompleteExecuteExecution
<1> DEFINE v == ApplyDecision(row, d).status
           vis == IF v # "Running" THEN {VisibilityTask(e, v)} ELSE {}
<1>5. PICK new : new = DecisionTasks(e, row, d) \cup PublishTasks(e, ms) \cup vis
  OBVIOUS
<1>6. WriteImmediate(new, Without(imm, worker[w].row))
  BY <1>4, <1>5
<1>t. Coherent(imm, worker[w].row)
  BY <1>0, <1>1 DEF CopiesOK, CopyOK, ImmediatePcs
<1>o. \A x \in Execs : \A z \in StateExecIds : ~(x = e /\ z = s) => ~IsApi(worker[w].row.task, x, z)
  BY DEF IsApi
<1> HIDE DEF e, s, row, rows
<1>7. IsFiniteSet(new)
  <2>1. IsFiniteSet(DecisionTasks(e, row, d))
    BY FirstTasksFinite DEF DecisionTasks, Started
  <2>2. IsFiniteSet(vis)
    BY FS_EmptySet, FS_Singleton
  <2> HIDE DEF vis
  <2> QED
    BY <1>5, <2>1, <2>2, PublishTasksFinite, FS_Union
<1>8. /\ ImmStep /\ Without(imm, worker[w].row) \subseteq imm'
      /\ \A t \in new : \E r \in imm' : r.task = t
  BY <1>0, <1>6, <1>7, WithoutSubset, ImmInserted
<1>9. TimStep /\ \A x \in Execs : \A z \in StateExecIds : TimKept(x, z)
  BY <1>0, <1>1, TimDeleted DEF TimKept
<1>10. CopiesOK'
  BY <1>0, <1>1, <1>8, <1>9, CopiesCommit
<1>11. st'[e] = RowsAfterDecision(rows, row, d) /\ \A x \in Execs \ {e} : st'[x] = st[x]
  BY <1>0, <1>2, <1>4 DEF ExecsOK
<1>12. ASSUME NEW x \in Execs, NEW z \in StateExecIds, st'[x][z].status \in DueStates
       PROVE  WorkIn(imm', tim', x, z)
  <2>1. CASE x = e /\ z \in Started(row, d.next)
    <3>1. FirstTask(e, z) \in new
      BY <1>5, <2>1 DEF DecisionTasks
    <3> QED
      BY <1>8, <2>1, <3>1, TaskFacts, NewWork
  <2>2. CASE ~(x = e /\ z \in Started(row, d.next))
    <3>1. st'[x][z] = st[x][z] /\ ~(x = e /\ z = s)
      <4>1. CASE x = e
        <5>1. RowsAfterDecision(rows, row, d)[z] = rows[z]
          BY <1>3, <1>11, <1>12, <2>2, <4>1, DecisionDue
        <5> QED
          BY <1>3, <1>11, <1>12, <4>1, <5>1 DEF DueStates
      <4> QED
        BY <1>11, <4>1
    <3>2. ImmKept(x, z)
      BY <1>8, <1>o, <1>t, <3>1, DeletesOtherTask
    <3> QED
      BY <1>9, <1>12, <3>1, <3>2, RowWork
  <2> QED
    BY <2>1, <2>2
<1> QED
  BY <1>10, <1>12 DEF WorkInv, WorkOK

(* A transaction on one state row that keeps the work of the others. *)
LEMMA OneRowWork ==
    ASSUME TablesInv, WorkInv, NEW e \in Execs, NEW s \in StateExecIds, NEW new, st' = [st EXCEPT ![e][s] = new],
           \A x \in Execs : \A z \in StateExecIds : ~(x = e /\ z = s) => ImmKept(x, z) /\ TimKept(x, z),
           new.status \in DueStates => WorkIn(imm', tim', e, s)
    PROVE  WorkOK'
<1>1. st = [x \in Execs |-> st[x]] /\ st[e] = [z \in StateExecIds |-> st[e][z]]
  BY DEF TablesInv, ExecsOK, ExecInv, ExecBase, StateTable
<1>2. st'[e][s] = new
  BY <1>1
<1>3. ASSUME NEW x \in Execs, NEW z \in StateExecIds, ~(x = e /\ z = s) PROVE st'[x][z] = st[x][z]
  BY <1>1, <1>3
<1>4. ASSUME NEW x \in Execs, NEW z \in StateExecIds, st'[x][z].status \in DueStates
      PROVE  WorkIn(imm', tim', x, z)
  <2>1. CASE x = e /\ z = s
    BY <1>2, <1>4, <2>1
  <2>2. CASE ~(x = e /\ z = s)
    BY <1>3, <1>4, <2>2, RowWork
  <2> QED
    BY <2>1, <2>2
<1> QED
  BY <1>4 DEF WorkOK

(* The row a prepared worker deletes is the one of its own state. *)
LEMMA OwnTask ==
    ASSUME WorkInv, NEW w \in Workers, worker[w].pc \in ImmediatePcs, Without(imm, worker[w].row) \subseteq imm'
    PROVE  \A x \in Execs : \A z \in StateExecIds :
              ~(x = worker[w].row.task.exec /\ z = worker[w].row.task.sid) => ImmKept(x, z)
<1>1. Coherent(imm, worker[w].row)
  BY DEF WorkInv, CopiesOK, CopyOK
<1> QED
  BY <1>1, DeletesOtherTask DEF IsApi

LEMMA CompleteWaitUntilWork ==
    ASSUME TablesInv, WorkInv, NEW w \in Workers, CompleteWaitUntil(w)
    PROVE  WorkInv'
<1> DEFINE e == worker[w].row.task.exec
           s == worker[w].row.task.sid
           x == WithStatus(st[e][s], "ExecuteRunning")
<1>0. QueuesOK /\ CopiesOK
  BY DEF TablesInv, WorkInv
<1>1. worker[w].pc = "waitUntil" /\ Acknowledged(w) /\ UNCHANGED tim
  BY DEF CompleteWaitUntil
<1>2. e \in Execs /\ s \in StateExecIds
  BY <1>1, PreparedState
<1>3. PICK ms \in Publications :
        /\ st' = [st EXCEPT ![e][s] = x]
        /\ WriteImmediate({ExecuteTask(e, s)} \cup PublishTasks(e, ms), Without(imm, worker[w].row))
  BY DEF CompleteWaitUntil
<1>4. PICK new : new = {ExecuteTask(e, s)} \cup PublishTasks(e, ms)
  OBVIOUS
<1>5. IsFiniteSet(new) /\ WriteImmediate(new, Without(imm, worker[w].row))
  BY <1>3, <1>4, FS_Singleton, PublishTasksFinite, FS_Union
<1>6. /\ ImmStep /\ Without(imm, worker[w].row) \subseteq imm'
      /\ \A t \in new : \E r \in imm' : r.task = t
  BY <1>0, <1>5, WithoutSubset, ImmInserted
<1>7. TimStep /\ \A y \in Execs : \A z \in StateExecIds : TimKept(y, z)
  BY <1>0, <1>1, TimDeleted DEF TimKept
<1>8. CopiesOK'
  BY <1>0, <1>1, <1>6, <1>7, CopiesCommit
<1>9. \A y \in Execs : \A z \in StateExecIds : ~(y = e /\ z = s) => ImmKept(y, z)
  BY <1>1, <1>6, OwnTask DEF ImmediatePcs
<1> HIDE DEF e, s, x
<1>10. WorkIn(imm', tim', e, s)
  <2>1. ExecuteTask(e, s) \in new
    BY <1>4
  <2> QED
    BY <1>6, <2>1, TaskFacts, NewWork
<1>11. \A y \in Execs : \A z \in StateExecIds : ~(y = e /\ z = s) => ImmKept(y, z) /\ TimKept(y, z)
  BY <1>7, <1>9
<1>12. st' = [st EXCEPT ![e][s] = x]
  BY <1>3
<1>13. WorkOK'
  BY <1>2, <1>10, <1>11, <1>12, OneRowWork
<1> QED
  BY <1>8, <1>13 DEF WorkInv

(* No timer of a command is a backoff timer. *)
LEMMA CommandTimers ==
    ASSUME NEW e, NEW s, NEW i PROVE BackoffOK(Task("TimerCommand", e, s, i))
BY DEF BackoffOK, Task

LEMMA UpdateWaitUntilWork ==
    ASSUME TablesInv, WorkInv, NEW w \in Workers, UpdateWaitUntil(w)
    PROVE  WorkInv'
<1> DEFINE e == worker[w].row.task.exec
           s == worker[w].row.task.sid
<1>0. QueuesOK /\ CopiesOK
  BY DEF TablesInv, WorkInv
<1>1. worker[w].pc = "waitUntil" /\ Acknowledged(w)
  BY DEF UpdateWaitUntil
<1>2. e \in Execs /\ s \in StateExecIds /\ TypedState(st[e][s])
  BY <1>1, PreparedState
<1>p. PICK req \in CommandRequests \ {EmptyCommand}, ms \in Publications :
        \E o \in Registered(e, s, req) :
          LET row  == WithResults([st[e][s] EXCEPT !.command = req], o.got)
              done == req.queues # <<>> /\ HasCompletedWaitUntilWaiting(row)
          IN  /\ st' = [st EXCEPT ![e][s] =
                          WithStatus(row, IF done THEN "ExecuteRunning" ELSE "WaitUntilWaiting")]
              /\ WriteTimers({Task("TimerCommand", e, s, i) : i \in 1..req.timers}, tim)
              /\ WriteImmediate((IF done THEN {ExecuteTask(e, s)} ELSE {}) \cup PublishTasks(e, ms),
                                Without(imm, worker[w].row))
  BY DEF UpdateWaitUntil
<1>3. PICK o \in Registered(e, s, req) :
        LET row  == WithResults([st[e][s] EXCEPT !.command = req], o.got)
            done == req.queues # <<>> /\ HasCompletedWaitUntilWaiting(row)
        IN  /\ st' = [st EXCEPT ![e][s] =
                        WithStatus(row, IF done THEN "ExecuteRunning" ELSE "WaitUntilWaiting")]
            /\ WriteTimers({Task("TimerCommand", e, s, i) : i \in 1..req.timers}, tim)
            /\ WriteImmediate((IF done THEN {ExecuteTask(e, s)} ELSE {}) \cup PublishTasks(e, ms),
                              Without(imm, worker[w].row))
  BY <1>p
<1> DEFINE row == WithResults([st[e][s] EXCEPT !.command = req], o.got)
           done == req.queues # <<>> /\ HasCompletedWaitUntilWaiting(row)
           x == WithStatus(row, IF done THEN "ExecuteRunning" ELSE "WaitUntilWaiting")
           timers == {Task("TimerCommand", e, s, i) : i \in 1..req.timers}
           execute == IF done THEN {ExecuteTask(e, s)} ELSE {}
<1>4. x.status = IF done THEN "ExecuteRunning" ELSE "WaitUntilWaiting"
  <2>1. TypedState([st[e][s] EXCEPT !.command = req])
    BY <1>2 DEF TypedState
  <2>2. TypedState(row)
    BY <2>1, WithResultsEffect
  <2> HIDE DEF row, done
  <2> QED
    BY <2>2 DEF WithStatus, TypedState
<1>5. PICK new : new = execute \cup PublishTasks(e, ms)
  OBVIOUS
<1>6. /\ st' = [st EXCEPT ![e][s] = x] /\ WriteTimers(timers, tim)
      /\ WriteImmediate(new, Without(imm, worker[w].row))
  BY <1>3, <1>5
<1> HIDE DEF x, done
<1>7. IsFiniteSet(new)
  <2>1. IsFiniteSet(execute)
    BY FS_EmptySet, FS_Singleton
  <2> HIDE DEF execute
  <2> QED
    BY <1>5, <2>1, PublishTasksFinite, FS_Union
<1>8. /\ ImmStep /\ Without(imm, worker[w].row) \subseteq imm'
      /\ \A t \in new : \E r \in imm' : r.task = t
  BY <1>0, <1>6, <1>7, WithoutSubset, ImmInserted
<1>9. TimStep /\ tim \subseteq tim'
  <2>1. req.timers \in Nat
    BY CommandAssumption
  <2>2. IsFiniteSet(timers) /\ \A t \in timers : BackoffOK(t)
    BY <2>1, TimerTasksFinite, CommandTimers
  <2> HIDE DEF timers
  <2> QED
    BY <1>0, <1>6, <2>2, TimInserted
<1>10. CopiesOK'
  BY <1>0, <1>1, <1>8, <1>9, CopiesCommit
<1>11. \A y \in Execs : \A z \in StateExecIds : ~(y = e /\ z = s) => ImmKept(y, z) /\ TimKept(y, z)
  BY <1>1, <1>8, <1>9, OwnTask DEF ImmediatePcs, TimKept
<1> HIDE DEF e, s
<1>12. x.status \in DueStates => WorkIn(imm', tim', e, s)
  <2> SUFFICES ASSUME x.status \in DueStates PROVE WorkIn(imm', tim', e, s)
    OBVIOUS
  <2>1. done
    BY <1>4 DEF DueStates
  <2>2. ExecuteTask(e, s) \in new
    BY <1>5, <2>1
  <2> QED
    BY <1>8, <2>2, TaskFacts, NewWork
<1>13. WorkOK'
  BY <1>2, <1>6, <1>11, <1>12, OneRowWork
<1> QED
  BY <1>10, <1>13 DEF WorkInv

LEMMA BackoffWork ==
    ASSUME TablesInv, WorkInv, NEW w \in Workers, BackoffImmediateTask(w)
    PROVE  WorkInv'
<1> DEFINE e == worker[w].row.task.exec
           s == worker[w].row.task.sid
           x == WithStatus(st[e][s], PreparedStatus(w))
<1>0. QueuesOK /\ CopiesOK
  BY DEF TablesInv, WorkInv
<1>1. /\ worker[w].pc \in {"waitUntil", "execute"} /\ Acknowledged(w)
      /\ st' = [st EXCEPT ![e][s] = x]
      /\ WriteTimers({BackoffTimer(worker[w].row.task)}, tim)
      /\ imm' = Without(imm, worker[w].row)
  BY DEF BackoffImmediateTask, ApiFailed
<1>2. e \in Execs /\ s \in StateExecIds
  BY <1>1, PreparedState
<1>3. worker[w].row.task.type \in ApiTasks
  BY <1>1 DEF TablesInv, CallersOK, WorkerOK, TypedWorker, ApiTasks
<1>4. BackoffOK(BackoffTimer(worker[w].row.task)) /\ IsRetry(BackoffTimer(worker[w].row.task), e, s)
  BY <1>3 DEF BackoffOK, BackoffTimer, IsRetry, Task
<1>5. PICK new : new = {BackoffTimer(worker[w].row.task)}
  OBVIOUS
<1>6. TimStep /\ tim \subseteq tim' /\ \A t \in new : \E r \in tim' : r.task = t
  <2>1. IsFiniteSet(new) /\ WriteTimers(new, tim) /\ \A t \in new : BackoffOK(t)
    BY <1>1, <1>4, <1>5, FS_Singleton
  <2> QED
    BY <1>0, <2>1, TimInserted
<1>7. ImmStep
  BY <1>0, <1>1, WithoutSubset, ImmDeleted
<1>8. CopiesOK'
  BY <1>0, <1>1, <1>6, <1>7, CopiesCommit
<1>9. \A y \in Execs : \A z \in StateExecIds : ~(y = e /\ z = s) => ImmKept(y, z) /\ TimKept(y, z)
  BY <1>1, <1>6, OwnTask DEF ImmediatePcs, TimKept
<1>10. WorkIn(imm', tim', e, s)
  BY <1>4, <1>5, <1>6 DEF WorkIn
<1> HIDE DEF e, s, x
<1>11. WorkOK'
  BY <1>1, <1>2, <1>9, <1>10, OneRowWork
<1> QED
  BY <1>8, <1>11 DEF WorkInv

LEMMA RecoverWork ==
    ASSUME TablesInv, WorkInv, NEW w \in Workers, RecoverFromStateExecutionFailure(w)
    PROVE  WorkInv'
<1> DEFINE e    == worker[w].row.task.exec
           s    == worker[w].row.task.sid
           dest == Proceed[st[e][s].config]
           row  == CompleteState(prc[e], s)
           new  == Started(row, Once(dest))
           rows == [x \in StateExecIds |->
                      IF x \in new THEN NewStateRow(x, st[e][s].config)
                      ELSE IF x = s THEN WithStatus(st[e][s], "Failed")
                      ELSE st[e][x]]
<1>0. ExecsOK /\ QueuesOK /\ CopiesOK
  BY DEF TablesInv, WorkInv
<1>1. /\ worker[w].pc \in {"waitUntil", "execute"} /\ Acknowledged(w) /\ UNCHANGED tim
      /\ st' = [st EXCEPT ![e] = rows]
      /\ WriteImmediate({FirstTask(e, x) : x \in new}, imm)
  BY DEF RecoverFromStateExecutionFailure, ApiFailed
<1>2. e \in Execs /\ s \in StateExecIds /\ TypedState(st[e][s])
  BY <1>1, PreparedState
<1>3. WithStatus(st[e][s], "Failed").status \notin DueStates
  BY <1>2 DEF TypedState, WithStatus, DueStates
<1>4. new \subseteq StateExecIds
  BY DEF Started
<1>5. \A x \in StateExecIds : x \notin new => rows[x] = IF x = s THEN WithStatus(st[e][s], "Failed") ELSE st[e][x]
  OBVIOUS
<1> HIDE DEF new, e, s, rows
<1>6. PICK tasks : tasks = {FirstTask(e, x) : x \in new}
  OBVIOUS
<1>7. IsFiniteSet(tasks) /\ WriteImmediate(tasks, imm) /\ imm \subseteq imm
  BY <1>1, <1>4, <1>6, FirstTasksFinite
<1>8. ImmStep /\ imm \subseteq imm' /\ \A t \in tasks : \E r \in imm' : r.task = t
  BY <1>0, <1>7, ImmInserted
<1>9. TimStep
  BY <1>0, <1>1, TimDeleted
<1>10. CopiesOK'
  BY <1>0, <1>1, <1>8, <1>9, CopiesCommit
<1>11. st'[e] = rows /\ \A x \in Execs \ {e} : st'[x] = st[x]
  BY <1>0, <1>1, <1>2 DEF ExecsOK
<1>12. ASSUME NEW x \in Execs, NEW z \in StateExecIds, st'[x][z].status \in DueStates
       PROVE  WorkIn(imm', tim', x, z)
  <2>1. CASE x = e /\ z \in new
    <3>1. FirstTask(e, z) \in tasks
      BY <1>6, <2>1
    <3> QED
      BY <1>8, <2>1, <3>1, TaskFacts, NewWork
  <2>2. CASE ~(x = e /\ z \in new)
    <3>1. st'[x][z] = st[x][z]
      BY <1>3, <1>5, <1>11, <1>12, <2>2
    <3>2. ImmKept(x, z) /\ TimKept(x, z)
      BY <1>1, <1>8 DEF ImmKept, TimKept
    <3> QED
      BY <1>12, <3>1, <3>2, RowWork
  <2> QED
    BY <2>1, <2>2
<1> QED
  BY <1>10, <1>12 DEF WorkInv, WorkOK

(* The deleted row carries messages, not the work of a state. *)
LEMMA LocalQueueWork ==
    ASSUME TablesInv, WorkInv, NEW w \in Workers, ProcessLocalQueueMessages(w)
    PROVE  WorkInv'
<1> DEFINE e == worker[w].row.task.exec
<1>0. ExecsOK /\ QueuesOK /\ CopiesOK
  BY DEF TablesInv, WorkInv
<1>1. /\ worker[w].pc = "immediate" /\ Acknowledged(w) /\ UNCHANGED tim
      /\ worker[w].row.task.type = "NewLocalQueueMessages"
  BY DEF ProcessLocalQueueMessages
<1>2. e \in Execs /\ ExecInv(prc[e], st[e])
  BY <1>1, HeldTask
<1>3. PICK o \in AddMessages(lq[e], worker[w].row.task.info) :
        LET assigned == {x[1] : x \in DOMAIN o.got}
            got(s)   == [i \in {x[2] : x \in {y \in DOMAIN o.got : y[1] = s}} |-> o.got[<<s, i>>]]
            row(s)   == WithResults(st[e][s], got(s))
            done     == {s \in assigned : HasCompletedWaitUntilWaiting(row(s))}
        IN  /\ assigned \subseteq {s \in StateExecIds : st[e][s].status # "None"}
            /\ st' = [st EXCEPT ![e] = [s \in StateExecIds |->
                        IF s \in done THEN WithStatus(row(s), "ExecuteRunning")
                        ELSE IF s \in assigned THEN WithStatus(row(s), st[e][s].status)
                        ELSE st[e][s]]]
            /\ WriteImmediate({ExecuteTask(e, s) : s \in done}, Without(imm, worker[w].row))
  BY DEF ProcessLocalQueueMessages
<1> DEFINE assigned == {x[1] : x \in DOMAIN o.got}
           got(s)   == [i \in {x[2] : x \in {y \in DOMAIN o.got : y[1] = s}} |-> o.got[<<s, i>>]]
           row(s)   == WithResults(st[e][s], got(s))
           done     == {s \in assigned : HasCompletedWaitUntilWaiting(row(s))}
           rows     == [s \in StateExecIds |->
                          IF s \in done THEN WithStatus(row(s), "ExecuteRunning")
                          ELSE IF s \in assigned THEN WithStatus(row(s), st[e][s].status)
                          ELSE st[e][s]]
<1>4. /\ done \subseteq StateExecIds
      /\ st' = [st EXCEPT ![e] = rows]
      /\ WriteImmediate({ExecuteTask(e, s) : s \in done}, Without(imm, worker[w].row))
  BY <1>3
<1>t. Coherent(imm, worker[w].row) /\ \A x, z : ~IsApi(worker[w].row.task, x, z)
  BY <1>0, <1>1 DEF CopiesOK, CopyOK, ImmediatePcs, IsApi, ApiTasks
<1> HIDE DEF e, assigned, got, done
<1>5. ASSUME NEW s \in StateExecIds, s \notin done
      PROVE  rows[s].status = st[e][s].status
  <2>1. TypedState(st[e][s])
    BY <1>2 DEF ExecInv, ExecBase, StateTable
  <2>2. TypedState(row(s))
    BY <2>1, WithResultsEffect
  <2> HIDE DEF row
  <2>3. CASE s \in assigned
    <3>1. rows[s] = WithStatus(row(s), st[e][s].status)
      BY <1>5, <2>3
    <3> HIDE DEF rows
    <3> QED
      BY <2>2, <3>1 DEF WithStatus, TypedState
  <2>4. CASE s \notin assigned
    BY <1>5, <2>4
  <2> QED
    BY <2>3, <2>4
<1> HIDE DEF row, rows
<1>6. PICK new : new = {ExecuteTask(e, s) : s \in done}
  OBVIOUS
<1>7. IsFiniteSet(new)
  <2> DEFINE f == [s \in done |-> ExecuteTask(e, s)]
  <2>1. IsFiniteSet(done)
    BY <1>4, FS_Subset, StateExecIdsFinite
  <2>2. f \in Surjection(done, new)
    BY <1>6 DEF Surjection
  <2> QED
    BY <2>1, <2>2, FS_Surjection
<1>8. /\ ImmStep /\ Without(imm, worker[w].row) \subseteq imm'
      /\ \A t \in new : \E r \in imm' : r.task = t
  <2>1. WriteImmediate(new, Without(imm, worker[w].row))
    BY <1>4, <1>6
  <2> QED
    BY <1>0, <1>7, <2>1, WithoutSubset, ImmInserted
<1>9. TimStep /\ \A x \in Execs : \A z \in StateExecIds : TimKept(x, z)
  BY <1>0, <1>1, TimDeleted DEF TimKept
<1>10. CopiesOK'
  BY <1>0, <1>1, <1>8, <1>9, CopiesCommit
<1>11. st'[e] = rows /\ \A x \in Execs \ {e} : st'[x] = st[x]
  BY <1>0, <1>2, <1>4 DEF ExecsOK
<1>12. ASSUME NEW x \in Execs, NEW z \in StateExecIds, st'[x][z].status \in DueStates
       PROVE  WorkIn(imm', tim', x, z)
  <2>1. CASE x = e /\ z \in done
    <3>1. ExecuteTask(e, z) \in new
      BY <1>6, <2>1
    <3> QED
      BY <1>8, <2>1, <3>1, TaskFacts, NewWork
  <2>2. CASE ~(x = e /\ z \in done)
    <3>1. st'[x][z].status = st[x][z].status
      BY <1>5, <1>11, <2>2
    <3>2. ImmKept(x, z)
      BY <1>8, <1>t, DeletesOtherTask
    <3> QED
      BY <1>9, <1>12, <3>1, <3>2, RowWork
  <2> QED
    BY <2>1, <2>2
<1> QED
  BY <1>10, <1>12 DEF WorkInv, WorkOK

(* The end of a backoff and the check of a process timeout. *)
LEMMA TimerConversionsWork ==
    ASSUME TablesInv, WorkInv, NEW w \in Workers, ConvertTimerTaskToImmediateTask(w) \/ CheckProcessTimeout(w)
    PROVE  WorkInv'
<1> DEFINE t == worker[w].row.task
<1>0. /\ QueuesOK /\ CopiesOK /\ CopyOK(worker[w], imm, tim)
  BY DEF TablesInv, WorkInv, CopiesOK
<1>1. worker[w].pc = "timer" /\ UNCHANGED st
  BY DEF ConvertTimerTaskToImmediateTask, CheckProcessTimeout
<1>t. Coherent(tim, worker[w].row) /\ BackoffOK(t)
  BY <1>0, <1>1 DEF CopyOK, TimerPcs
<1>2. CASE ConvertTimerTaskToImmediateTask(w)
  <2>1. /\ t.type = "WorkerTaskBackoff" /\ WriteImmediate({Task(t.info, t.exec, t.sid, 0)}, imm)
        /\ tim' = Without(tim, worker[w].row) /\ Acknowledged(w)
    BY <1>2 DEF ConvertTimerTaskToImmediateTask
  <2>2. PICK new : new = {Task(t.info, t.exec, t.sid, 0)}
    OBVIOUS
  <2>3. IsApi(Task(t.info, t.exec, t.sid, 0), t.exec, t.sid) /\ Task(t.info, t.exec, t.sid, 0) \in new
    BY <1>t, <2>1, <2>2, TaskFacts DEF BackoffOK
  <2>4. ImmStep /\ imm \subseteq imm' /\ \A x \in new : \E r \in imm' : r.task = x
    <3>1. IsFiniteSet(new) /\ WriteImmediate(new, imm) /\ imm \subseteq imm
      BY <2>1, <2>2, FS_Singleton
    <3> QED
      BY <1>0, <3>1, ImmInserted
  <2>5. TimStep
    BY <1>0, <2>1, WithoutSubset, TimDeleted
  <2>6. CopiesOK'
    BY <1>0, <1>1, <2>1, <2>4, <2>5, CopiesCommit
  <2>7. ASSUME NEW x \in Execs, NEW z \in StateExecIds, st'[x][z].status \in DueStates
        PROVE  WorkIn(imm', tim', x, z)
    <3>1. CASE x = t.exec /\ z = t.sid
      BY <2>3, <2>4, <3>1, NewWork
    <3>2. CASE ~(x = t.exec /\ z = t.sid)
      <4>1. ~IsRetry(worker[w].row.task, x, z) /\ Without(tim, worker[w].row) \subseteq tim'
        BY <2>1, <3>2 DEF IsRetry
      <4>2. TimKept(x, z) /\ ImmKept(x, z)
        BY <1>t, <2>4, <4>1, DeletesOtherTimer, AllKept
      <4>3. st[x][z].status \in DueStates
        BY <1>1, <2>7
      <4> QED
        BY <4>2, <4>3, RowWork
    <3> QED
      BY <3>1, <3>2
  <2> QED
    BY <2>6, <2>7 DEF WorkInv, WorkOK
<1>3. CASE CheckProcessTimeout(w) /\ tim' = Without(tim, worker[w].row) /\ Acknowledged(w)
  <2>1. UNCHANGED imm /\ t.type = "ProcessTimeout" /\ tim' \subseteq tim /\ Without(tim, worker[w].row) \subseteq tim'
    BY <1>3, WithoutSubset DEF CheckProcessTimeout
  <2>2. ImmStep /\ TimStep
    BY <1>0, <2>1, ImmDeleted, TimDeleted
  <2>3. CopiesOK'
    BY <1>0, <1>1, <1>3, <2>2, CopiesCommit
  <2>4. ASSUME NEW x \in Execs, NEW z \in StateExecIds, st[x][z].status \in DueStates
        PROVE  WorkIn(imm', tim', x, z)
    <3>1. ~IsRetry(worker[w].row.task, x, z)
      BY <2>1 DEF IsRetry
    <3>2. TimKept(x, z) /\ ImmKept(x, z)
      BY <1>t, <2>1, <3>1, DeletesOtherTimer, AllKept
    <3> QED
      BY <2>4, <3>2, RowWork
  <2> QED
    BY <1>1, <2>3, <2>4 DEF WorkInv, WorkOK
<1>4. CASE CheckProcessTimeout(w) /\ worker' = [worker EXCEPT ![w] = Holding(w, "checked")] /\ UNCHANGED tim
  <2>1. UNCHANGED <<st, imm, tim>> /\ t.type = "ProcessTimeout"
    BY <1>1, <1>4 DEF CheckProcessTimeout
  <2>2. Holding(w, "checked").pc = "checked" /\ Holding(w, "checked").row = worker[w].row
    BY DEF Holding, Idle
  <2>3. CopyOK(Holding(w, "checked"), imm, tim)
    BY <1>t, <2>1, <2>2 DEF CopyOK, ImmediatePcs
  <2> QED
    BY <1>4, <2>1, <2>3, WorkerMoved
<1> QED
  BY <1>2, <1>3, <1>4 DEF CheckProcessTimeout

(* A timer that has fired: the state goes on waiting or gets its task. *)
LEMMA TimerCommandWork ==
    ASSUME TablesInv, WorkInv, NEW w \in Workers, ProcessTimerTaskForTimerCommand(w)
    PROVE  WorkInv'
<1> DEFINE e    == worker[w].row.task.exec
           s    == worker[w].row.task.sid
           row  == [st[e][s] EXCEPT !.timerResults = st[e][s].timerResults \cup {worker[w].row.task.info}]
           done == HasCompletedWaitUntilWaiting(row)
           x    == WithStatus(row, IF done THEN "ExecuteRunning" ELSE "WaitUntilWaiting")
           exe  == IF done THEN {ExecuteTask(e, s)} ELSE {}
<1>0. QueuesOK /\ CopiesOK /\ CopyOK(worker[w], imm, tim)
  BY DEF TablesInv, WorkInv, CopiesOK
<1>1. worker[w].pc = "timer" /\ worker[w].row.task.type = "TimerCommand" /\ Acknowledged(w)
  BY DEF ProcessTimerTaskForTimerCommand
<1>2. e \in Execs /\ s \in StateExecIds /\ TypedState(st[e][s])
  <2>1. e \in Execs /\ s \in StateExecIds /\ ExecInv(prc[e], st[e])
    BY <1>1, HeldTask DEF StateTasks
  <2> QED
    BY <2>1 DEF ExecInv, ExecBase, StateTable
<1>t. Coherent(tim, worker[w].row) /\ \A y, z : ~IsRetry(worker[w].row.task, y, z)
  BY <1>0, <1>1 DEF CopyOK, TimerPcs, IsRetry
<1>3. CASE UNCHANGED <<st, imm, tim>>
  <2>1. ImmStep /\ TimStep
    BY <1>0, <1>3, ImmDeleted, TimDeleted
  <2>2. CopiesOK'
    BY <1>0, <1>1, <2>1, CopiesCommit
  <2> QED
    BY <1>3, <2>2 DEF WorkInv, WorkOK
<1>4. CASE /\ st' = [st EXCEPT ![e][s] = x] /\ WriteImmediate(exe, imm)
           /\ tim' = Without(tim, worker[w].row)
  <2>1. x.status = IF done THEN "ExecuteRunning" ELSE "WaitUntilWaiting"
    <3>1. TypedState(row)
      BY <1>2 DEF TypedState
    <3> HIDE DEF row, done
    <3> QED
      BY <3>1 DEF WithStatus, TypedState
  <2>2. PICK new : new = exe
    OBVIOUS
  <2>3. st' = [st EXCEPT ![e][s] = x] /\ WriteImmediate(new, imm) /\ imm \subseteq imm
    BY <1>4, <2>2
  <2> HIDE DEF x, done
  <2>4. IsFiniteSet(new)
    BY <2>2, FS_EmptySet, FS_Singleton
  <2>5. ImmStep /\ imm \subseteq imm' /\ \A y \in new : \E r \in imm' : r.task = y
    BY <1>0, <2>3, <2>4, ImmInserted
  <2>6. TimStep /\ Without(tim, worker[w].row) \subseteq tim'
    BY <1>0, <1>4, WithoutSubset, TimDeleted
  <2>7. CopiesOK'
    BY <1>0, <1>1, <2>5, <2>6, CopiesCommit
  <2>8. \A y \in Execs : \A z \in StateExecIds : ~(y = e /\ z = s) => ImmKept(y, z) /\ TimKept(y, z)
    BY <1>t, <2>5, <2>6, DeletesOtherTimer, AllKept
  <2> HIDE DEF e, s
  <2>9. x.status \in DueStates => WorkIn(imm', tim', e, s)
    <3> SUFFICES ASSUME x.status \in DueStates PROVE WorkIn(imm', tim', e, s)
      OBVIOUS
    <3>1. done
      BY <2>1 DEF DueStates
    <3>2. ExecuteTask(e, s) \in new
      BY <2>2, <3>1
    <3> QED
      BY <2>5, <3>2, TaskFacts, NewWork
  <2>10. WorkOK'
    BY <1>2, <2>3, <2>8, <2>9, OneRowWork
  <2> QED
    BY <2>7, <2>10 DEF WorkInv
<1> QED
  BY <1>3, <1>4 DEF ProcessTimerTaskForTimerCommand

(* The start state gets its first task; a replaced execution is aborted. *)
LEMMA StartWork ==
    ASSUME TablesInv, WorkInv, NEW p \in ProcessIds, NEW policy \in StartPolicies, NEW start \in StartStates,
           NEW hasTimeout \in StartTimeouts, StartProcess(p, policy, start, hasTimeout)
    PROVE  WorkInv'
<1> DEFINE old        == latest[p]
           replaces   == policy = "TERMINATE_IF_RUNNING" /\ old # NoExec
           terminates == replaces /\ prc[old].status = "Running"
           first      == IF start = NoState THEN {} ELSE {<<start, 1>>}
           rows       == [s \in StateExecIds |-> IF s \in first THEN NewStateRow(s, s[1]) ELSE NoRow]
<1>0. ExecsOK /\ QueuesOK /\ CopiesOK
  BY DEF TablesInv, WorkInv
<1>1. UNCHANGED worker /\ MaxSeq > 0
  BY DEF StartProcess
<1>2. PICK e \in Execs :
        /\ st' = [x \in Execs |-> IF x = e THEN rows
                                  ELSE IF replaces /\ x = old THEN AbortRunning(st[x])
                                  ELSE st[x]]
        /\ WriteImmediate({FirstTask(e, s) : s \in first}
                           \cup {VisibilityTask(e, "Running")}
                           \cup (IF terminates THEN {VisibilityTask(old, "Terminated")} ELSE {}), imm)
        /\ WriteTimers(IF hasTimeout THEN {Task("ProcessTimeout", e, NoState, 0)} ELSE {}, tim)
  BY DEF StartProcess
<1>3. first \subseteq StateExecIds
  BY <1>1, ConfigAssumption, FiniteAssumption DEF StateExecIds
<1> DEFINE firsts == {FirstTask(e, s) : s \in first}
           ends   == IF terminates THEN {VisibilityTask(old, "Terminated")} ELSE {}
<1>4. PICK new : new = firsts \cup {VisibilityTask(e, "Running")} \cup ends
  OBVIOUS
<1>5. PICK timers : timers = IF hasTimeout THEN {Task("ProcessTimeout", e, NoState, 0)} ELSE {}
  OBVIOUS
<1>6. WriteImmediate(new, imm) /\ WriteTimers(timers, tim) /\ imm \subseteq imm
  BY <1>2, <1>4, <1>5
<1>7. \A s \in StateExecIds : s \notin first => rows[s].status \notin DueStates
  BY DEF NoRow, DueStates
<1> HIDE DEF first, rows, old
<1>8. IsFiniteSet(new)
  <2>1. IsFiniteSet(firsts)
    BY <1>3, FirstTasksFinite
  <2>2. IsFiniteSet(ends) /\ IsFiniteSet({VisibilityTask(e, "Running")})
    BY FS_EmptySet, FS_Singleton
  <2> HIDE DEF firsts, ends
  <2> QED
    BY <1>4, <2>1, <2>2, FS_Union
<1>9. IsFiniteSet(timers) /\ \A t \in timers : BackoffOK(t)
  <2>1. IsFiniteSet(timers)
    BY <1>5, FS_EmptySet, FS_Singleton
  <2> QED
    BY <1>5, <2>1 DEF BackoffOK, Task
<1>10. ImmStep /\ imm \subseteq imm' /\ \A t \in new : \E r \in imm' : r.task = t
  BY <1>0, <1>6, <1>8, ImmInserted
<1>11. TimStep /\ tim \subseteq tim'
  BY <1>0, <1>6, <1>9, TimInserted
<1>12. CopiesOK'
  BY <1>0, <1>1, <1>10, <1>11, CopiesMove
<1>13. ASSUME NEW x \in Execs, NEW z \in StateExecIds, st'[x][z].status \in DueStates
       PROVE  WorkIn(imm', tim', x, z)
  <2>1. CASE x = e
    <3>1. st'[x] = rows
      BY <1>2, <2>1
    <3>2. z \in first
      BY <1>7, <1>13, <3>1
    <3>3. FirstTask(e, z) \in new
      BY <1>4, <3>2
    <3> QED
      BY <1>10, <2>1, <3>3, TaskFacts, NewWork
  <2>2. CASE x # e
    <3>1. StateTable(st[x])
      BY <1>0 DEF ExecsOK, ExecInv, ExecBase
    <3>2. st'[x] = st[x] \/ st'[x] = AbortRunning(st[x])
      BY <1>2, <2>2
    <3>3. st'[x] = st[x]
      BY <1>13, <3>1, <3>2, AbortedNotDue
    <3>4. ImmKept(x, z) /\ TimKept(x, z)
      BY <1>10, <1>11, AllKept
    <3> QED
      BY <1>13, <3>3, <3>4, RowWork
  <2> QED
    BY <2>1, <2>2
<1> QED
  BY <1>12, <1>13 DEF WorkInv, WorkOK
-----------------------------------------------------------------------------
LEMMA InitWork == Init => WorkInv
<1> SUFFICES ASSUME Init PROVE WorkInv
  OBVIOUS
<1>1. CopiesOK
  BY DEF Init, CopiesOK, CopyOK, Idle, ImmediatePcs, TimerPcs
<1>2. WorkOK
  BY DEF Init, WorkOK, NoRow, DueStates
<1> QED
  BY <1>1, <1>2 DEF WorkInv

LEMMA NextWork == TablesInv /\ WorkInv /\ [Next]_vars => WorkInv'
<1> SUFFICES ASSUME TablesInv, WorkInv, [Next]_vars PROVE WorkInv'
  OBVIOUS
<1>1. ASSUME NEW p \in ProcessIds, NEW policy \in StartPolicies, NEW start \in StartStates,
             NEW hasTimeout \in StartTimeouts, StartProcess(p, policy, start, hasTimeout)
      PROVE  WorkInv'
  BY <1>1, StartWork
<1>2. ASSUME NEW c \in Clients, ClientStep(c)
      PROVE  WorkInv'
  BY <1>2, ClientWork, RpcWork DEF ClientStep
<1>3. ASSUME NEW w \in Workers, ImmediateStep(w)
      PROVE  WorkInv'
  BY <1>3, QuietWorkersWork, CompleteWaitUntilWork, UpdateWaitUntilWork,
     CompleteExecuteWork, LocalQueueWork DEF ImmediateStep
<1>4. ASSUME NEW w \in Workers, FailureStep(w)
      PROVE  WorkInv'
  BY <1>4, QuietWorkersWork, BackoffWork, WorkerStopsWork, RecoverWork DEF FailureStep
<1>5. ASSUME NEW w \in Workers, TimerStep(w)
      PROVE  WorkInv'
  BY <1>5, QuietWorkersWork, TimerConversionsWork, TimerCommandWork, WorkerStopsWork DEF TimerStep
<1>6. CASE UNCHANGED vars
  <2>1. UNCHANGED <<st, imm, tim, worker>>
    BY <1>6 DEF vars
  <2> QED
    BY <2>1, QuietWork
<1> QED
  BY <1>1, <1>2, <1>3, <1>4, <1>5, <1>6 DEF Next

(* The task tables and the copies the workers hold agree by number, and    *)
(* the work of every state execution that is due is in a table.            *)
THEOREM WorkInvariant == Spec => [](TablesInv /\ WorkInv)
<1>1. TablesInv /\ WorkInv /\ [Next]_vars => (TablesInv /\ WorkInv)'
  BY NextPreserves, NextWork
<1>2. Init => TablesInv /\ WorkInv
  BY InitEstablishes, InitWork
<1> QED
  BY <1>1, <1>2, PTL DEF Spec

(* Work survives every crash, lost answer, retry and late worker: a state  *)
(* execution that is due to run its WaitUntil or Execute API has its task  *)
(* or its backoff timer in the database, however long ago the workers read *)
(* what they commit.                                                       *)
THEOREM WorkSurvives == Spec => []NoLostWork
<1>1. WorkInv => NoLostWork
  BY DEF WorkInv, WorkOK, WorkIn, IsApi, IsRetry, DueStates, ApiTasks, NoLostWork
<1> QED
  BY <1>1, WorkInvariant, PTL
=============================================================================
