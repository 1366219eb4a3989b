--------------------------- MODULE MessageProofs ----------------------------
(***************************************************************************)
(* Where the messages of ProcessStore are: the theorem that no step but a  *)
(* repeated transaction loses a message or doubles it, for every set of    *)
(* process ids, executions, state ids, queues, requests, publications,     *)
(* clients and workers, and every bound.                                   *)
(*                                                                         *)
(* The invariant is PlaceInv: nothing is published to an execution that    *)
(* has not started; a state execution whose WaitUntil API has not been     *)
(* answered has neither results nor commands, and the first answer finds   *)
(* it that way.                                                            *)
(***************************************************************************)
EXTENDS LocalQueueProofs

Young == {"None", "WaitUntilRunning"}

UnpublishedOK == \A e \in Execs : prc[e].status = "None" => messages[e] = {}

YoungOK ==
    \A e \in Execs : \A s \in StateExecIds :
        st[e][s].status \in Young => st[e][s].queueResults = <<>> /\ DOMAIN lq[e].cmds[s] = {}

Asked(x, rows) ==
    LET row == rows[x.row.task.exec][x.row.task.sid]
    IN  x.pc = "waitUntil" /\ x.version = row.version => row.status = "WaitUntilRunning"

AskedOK == \A w \in Workers : Asked(worker[w], st)

PlaceInv == UnpublishedOK /\ YoungOK /\ AskedOK

(* What MessageInOnePlace asks of a step, for one execution. *)
MovesOK(e) ==
    \/ AnsweredAgain(e)
    \/ \E m \in messages[e] : ~InOnePlace(e, m)
    \/ \A m \in messages'[e] : InOnePlace(e, m)'

(* A step that hands out no message: results stay, and so do the messages  *)
(* in the queues and in the tasks, but for the ones that are published.    *)
Calm(old, new) ==
    \/ new = old
    \/ /\ old.status = "None" \/ new.version > old.version
       /\ new.queueResults = old.queueResults
       /\ new.status \in Young => old.status \in Young

RowsCalm == \A e \in Execs : \A s \in StateExecIds : Calm(st[e][s], st'[e][s])

TasksMove ==
    \A e \in Execs :
        /\ messages'[e] # messages[e] => prc[e].status # "None"
        /\ \A m \in messages'[e] :
              \/ m \in messages[e] /\ TaskPlaces(e, m)' = TaskPlaces(e, m)
              \/ m \notin messages[e] /\ Single(TaskPlaces(e, m)')

QueuesCalm ==
    \A e \in Execs :
        /\ messages'[e] = {} \/ lq'[e].msgs = lq[e].msgs
        /\ \A s \in StateExecIds : DOMAIN lq'[e].cmds[s] \subseteq DOMAIN lq[e].cmds[s]

WorkersAsk == \A w \in Workers : worker'[w] = worker[w] \/ Asked(worker'[w], st')

(* A worker that asked before the step finds no other row after it. *)
LEMMA AskedStays ==
    ASSUME TablesInv, TablesInv', QueueInv, AskedOK, VersionsStep, WorkersAsk
    PROVE  AskedOK'
<1> SUFFICES ASSUME NEW w \in Workers, worker'[w].pc = "waitUntil", worker'[w] = worker[w]
             PROVE  Asked(worker[w], st')
  BY DEF AskedOK, Asked, WorkersAsk
<1>1. PICK e, s : e = worker[w].row.task.exec /\ s = worker[w].row.task.sid
  OBVIOUS
<1>2. worker[w].pc \in {"waitUntil", "execute"}
  OBVIOUS
<1>3. e \in Execs /\ s \in StateExecIds /\ st[e][s].status # "None" /\ TypedState(st[e][s])
  BY <1>1, <1>2, PreparedState
<1>4. TypedState(st'[e][s])
  BY <1>3 DEF TablesInv, ExecsOK, ExecInv, ExecBase, StateTable
<1>5. st[e][s].version \in Nat /\ st'[e][s].version \in Nat
  BY <1>3, <1>4 DEF TypedState
<1>6. st'[e][s] = st[e][s] \/ st'[e][s].version > st[e][s].version
  BY <1>3 DEF VersionsStep, Moved
<1>7. worker[w].version \in Nat /\ worker[w].version <= st[e][s].version
  BY <1>1, <1>2 DEF QueueInv, VersionsOK, Prepared
<1>8. worker[w].version = st'[e][s].version => st'[e][s] = st[e][s]
  BY <1>5, <1>6, <1>7
<1>9. Asked(worker[w], st)
  BY DEF AskedOK
<1> QED
  BY <1>1, <1>8, <1>9 DEF Asked

(* An execution that has not started had not started before. *)
LEMMA UnpublishedStays ==
    ASSUME ExecsStep, UnpublishedOK, TasksMove
    PROVE  UnpublishedOK'
<1> SUFFICES ASSUME NEW e \in Execs, prc'[e].status = "None" PROVE messages'[e] = {}
  BY DEF UnpublishedOK
<1>1. prc[e].status = "None"
  BY DEF ExecsStep, PrcStep, Closed, ProcessStatus
<1> QED
  BY <1>1 DEF UnpublishedOK, TasksMove

(* A message nobody knows is in no queue and in no result. *)
LEMMA UnknownNowhere ==
    ASSUME QueueInv, NEW e \in Execs, NEW m, m \notin messages[e], m.queue \in Queues
    PROVE  QueuePlaces(e, m) = {} /\ ResultPlaces(e, m) = {}
<1>1. PICK b : b = lq[e].msgs[m.queue]
  OBVIOUS
<1>2. b \in Seq(messages[e])
  BY <1>1 DEF QueueInv, HoldingsOK, TypedQueues, TypedMessages
<1>3. \A i \in DOMAIN b : b[i] \in messages[e]
  BY <1>2, LenProperties, ElementOfSeq
<1>4. QueuePlaces(e, m) = {}
  BY <1>1, <1>3 DEF QueuePlaces
<1>5. ASSUME NEW s \in StateExecIds, NEW i \in DOMAIN st[e][s].queueResults
      PROVE  m \notin Range(st[e][s].queueResults[i])
  <2>1. PICK c : c = st[e][s].queueResults[i]
    OBVIOUS
  <2>2. c \in Seq(messages[e])
    BY <2>1 DEF QueueInv, HoldingsOK, TypedRow, TypedGot
  <2>3. \A k \in DOMAIN c : c[k] \in messages[e]
    BY <2>2, LenProperties, ElementOfSeq
  <2> QED
    BY <2>1, <2>3 DEF Range
<1>6. ResultPlaces(e, m) = {}
  <2> SUFFICES ASSUME NEW x \in ResultPlaces(e, m) PROVE FALSE
    OBVIOUS
  <2>1. PICK s \in StateExecIds : x \in {s} \X DOMAIN st[e][s].queueResults
    BY DEF ResultPlaces
  <2>2. x[1] = s /\ x[2] \in DOMAIN st[e][s].queueResults
    BY <2>1
  <2> QED
    BY <1>5, <2>2 DEF ResultPlaces
<1> QED
  BY <1>4, <1>6

LEMMA ThreeCount ==
    ASSUME NEW A, NEW B, NEW C,
           \/ Single(A) /\ B = {} /\ C = {}
           \/ A = {} /\ Single(B) /\ C = {}
           \/ A = {} /\ B = {} /\ Single(C)
    PROVE  Cardinality(A) + Cardinality(B) + Cardinality(C) = 1
<1>1. \A S : Single(S) => Cardinality(S) = 1
  BY FS_Singleton DEF Single
<1>2. Cardinality({}) = 0
  BY FS_EmptySet
<1>3. \/ Cardinality(A) = 1 /\ Cardinality(B) = 0 /\ Cardinality(C) = 0
      \/ Cardinality(A) = 0 /\ Cardinality(B) = 1 /\ Cardinality(C) = 0
      \/ Cardinality(A) = 0 /\ Cardinality(B) = 0 /\ Cardinality(C) = 1
  BY <1>1, <1>2
<1> QED
  BY <1>3

(* A step that leaves the queues and the results of an execution alone. *)
LEMMA UntouchedMoves ==
    ASSUME QueueInv, QueueInv', NEW e \in Execs, TasksMove, lq'[e].msgs = lq[e].msgs,
           \A s \in StateExecIds : st'[e][s].queueResults = st[e][s].queueResults
    PROVE  MovesOK(e)
<1> SUFFICES ASSUME \A m \in messages[e] : InOnePlace(e, m), NEW m \in messages'[e]
             PROVE  InOnePlace(e, m)'
  BY DEF MovesOK
<1>1. QueuePlaces(e, m)' = QueuePlaces(e, m)
  BY DEF QueuePlaces
<1>2. ResultPlaces(e, m)' = ResultPlaces(e, m)
  <2>1. UNION {{s} \X DOMAIN st'[e][s].queueResults : s \in StateExecIds}
          = UNION {{s} \X DOMAIN st[e][s].queueResults : s \in StateExecIds}
    OBVIOUS
  <2>2. \A x \in UNION {{s} \X DOMAIN st[e][s].queueResults : s \in StateExecIds} :
           st'[e][x[1]].queueResults = st[e][x[1]].queueResults
    OBVIOUS
  <2> QED
    BY <2>1, <2>2 DEF ResultPlaces
<1>3. CASE m \in messages[e] /\ TaskPlaces(e, m)' = TaskPlaces(e, m)
  <2>1. InOnePlace(e, m)
    BY <1>3
  <2> QED
    BY <1>1, <1>2, <1>3, <2>1 DEF InOnePlace
<1>4. CASE m \notin messages[e] /\ Single(TaskPlaces(e, m)')
  <2>1. m.queue \in Queues
    BY DEF QueueInv, MessagesOK, InQueues
  <2>2. QueuePlaces(e, m) = {} /\ ResultPlaces(e, m) = {}
    BY <1>4, <2>1, UnknownNowhere
  <2>3. PICK A, B, C : A = TaskPlaces(e, m)' /\ B = QueuePlaces(e, m)' /\ C = ResultPlaces(e, m)'
    OBVIOUS
  <2>4. Cardinality(A) + Cardinality(B) + Cardinality(C) = 1
    BY <1>1, <1>2, <1>4, <2>2, <2>3, ThreeCount
  <2> QED
    BY <2>3, <2>4 DEF InOnePlace
<1> QED
  BY <1>3, <1>4 DEF TasksMove

(* A step that hands out nothing keeps every message in its place. *)
LEMMA CalmMoves ==
    ASSUME TablesInv, TablesInv', QueueInv, QueueInv', PlaceInv, ExecsStep, RowsCalm, TasksMove, QueuesCalm,
           WorkersAsk
    PROVE  PlaceInv' /\ \A e \in Execs : MovesOK(e)
<1>1. UnpublishedOK'
  BY UnpublishedStays DEF PlaceInv
<1>2. YoungOK'
  BY DEF PlaceInv, YoungOK, RowsCalm, Calm, QueuesCalm
<1>3. AskedOK'
  <2>1. VersionsStep
    BY DEF RowsCalm, Calm, VersionsStep, Moved
  <2> QED
    BY <2>1, AskedStays DEF PlaceInv
<1>4. ASSUME NEW e \in Execs PROVE MovesOK(e)
  <2>1. \A s \in StateExecIds : st'[e][s].queueResults = st[e][s].queueResults
    BY DEF RowsCalm, Calm
  <2>2. CASE messages'[e] = {}
    BY <2>2 DEF MovesOK
  <2>3. CASE lq'[e].msgs = lq[e].msgs
    BY <2>1, <2>3, UntouchedMoves
  <2> QED
    BY <2>2, <2>3 DEF QueuesCalm
<1> QED
  BY <1>1, <1>2, <1>3, <1>4 DEF PlaceInv

(* The rows of tasks that carry messages. *)
MessageRows(rows) == {r \in rows : r.task.type = "NewLocalQueueMessages"}

LEMMA KeptMessageRows ==
    ASSUME NEW row, Coherent(imm, row), row.task.type # "NewLocalQueueMessages"
    PROVE  MessageRows(Without(imm, row)) = MessageRows(imm)
BY DEF MessageRows, Without, Coherent

LEMMA TasksUnmoved ==
    ASSUME UNCHANGED messages, MessageRows(imm') = MessageRows(imm)
    PROVE  TasksMove
<1>1. ASSUME NEW e, NEW m PROVE TaskPlaces(e, m)' = TaskPlaces(e, m)
  BY DEF MessageRows, TaskPlaces
<1> QED
  BY <1>1 DEF TasksMove

LEMMA TasksWritten ==
    ASSUME QueuesOK, UNCHANGED messages, NEW new, NEW kept, IsFiniteSet(new), WriteImmediate(new, kept),
           MessageRows(kept) = MessageRows(imm), \A t \in new : t.type # "NewLocalQueueMessages"
    PROVE  TasksMove
<1>1. imm' = kept \cup Numbered(immSeq, new)
  BY DEF WriteImmediate
<1>2. \A r \in Numbered(immSeq, new) : r.task \in new
  BY NumberedAll DEF QueuesOK
<1>3. MessageRows(imm') = MessageRows(imm)
  BY <1>1, <1>2 DEF MessageRows
<1> QED
  BY <1>3, TasksUnmoved

(* One row is numbered for each task. *)
LEMMA NumberedOnce ==
    ASSUME NEW base \in Nat, NEW tasks, IsFiniteSet(tasks), NEW t \in tasks
    PROVE  \E r \in Numbered(base, tasks) : /\ r.task = t
                                            /\ \A q \in Numbered(base, tasks) : q.task = t => q = r
<1> DEFINE n == Cardinality(tasks)
           f == SetToSeq(tasks)
<1>1. \E g \in [1..n -> tasks] : IsInjective(g)
  BY FS_CardinalityType DEF ExistsBijection, Bijection, Injection
<1>2. f \in [1..n -> tasks] /\ IsInjective(f)
  BY <1>1 DEF SetToSeq
<1>3. Numbered(base, tasks) = {[seq |-> base + i, task |-> f[i]] : i \in 1..n}
  BY DEF Numbered
<1> HIDE DEF n, f
<1>4. PICK r \in Numbered(base, tasks) : r.task = t
  BY NumberedAll
<1>5. PICK i \in 1..n : r = [seq |-> base + i, task |-> f[i]]
  BY <1>3, <1>4
<1>6. ASSUME NEW q \in Numbered(base, tasks), q.task = t PROVE q = r
  <2>1. PICK j \in 1..n : q = [seq |-> base + j, task |-> f[j]]
    BY <1>3, <1>6
  <2>2. f[i] = f[j]
    BY <1>4, <1>5, <1>6, <2>1
  <2>3. i = j
    BY <1>2, <2>2 DEF IsInjective
  <2> QED
    BY <1>5, <2>1, <2>3
<1> QED
  BY <1>4, <1>6

LEMMA TasksPublished ==
    ASSUME QueuesOK, InfosOK, MessagesOK, NEW e \in Execs, prc[e].status # "None", NEW ms \in Publications,
           Publish(e, ms), NEW new, NEW kept, IsFiniteSet(new), WriteImmediate(new, kept),
           MessageRows(kept) = MessageRows(imm), PublishTasks(e, ms) \subseteq new,
           \A t \in new : t.type = "NewLocalQueueMessages" => t \in PublishTasks(e, ms)
    PROVE  TasksMove
<1>1. PICK b : b = FreshMessages(e, ms)
  OBVIOUS
<1>2. Range(b) \cap messages[e] = {} /\ b \in Seq(Range(ms))
  BY <1>1, FreshFacts DEF NewOnes
<1>3. messages' = [messages EXCEPT ![e] = messages[e] \cup Range(b)]
  BY <1>1 DEF Publish
<1>4. messages'[e] = messages[e] \cup Range(b) /\ \A x \in Execs \ {e} : messages'[x] = messages[x]
  BY <1>3 DEF MessagesOK
<1>5. imm' = kept \cup Numbered(immSeq, new)
  BY DEF WriteImmediate
<1>6. \A r \in Numbered(immSeq, new) : r.task \in new
  BY NumberedAll DEF QueuesOK
<1>7. CASE b = <<>>
  <2>1. PublishTasks(e, ms) = {} /\ Range(b) = {}
    BY <1>1, <1>7 DEF PublishTasks, Range
  <2>2. MessageRows(imm') = MessageRows(imm)
    BY <1>5, <1>6, <2>1 DEF MessageRows
  <2>3. messages' = messages
    BY <1>3, <2>1 DEF MessagesOK
  <2> QED
    BY <2>2, <2>3, TasksUnmoved
<1>8. CASE b # <<>>
  <2>1. PICK t : t = Task("NewLocalQueueMessages", e, NoState, b)
    OBVIOUS
  <2>2. t.type = "NewLocalQueueMessages" /\ t.exec = e /\ t.info = b
    BY <2>1 DEF Task
  <2>3. PublishTasks(e, ms) = {t}
    BY <1>1, <1>8, <2>1 DEF PublishTasks
  <2>4. t \in new
    BY <2>3
  <2>5. PICK r \in Numbered(immSeq, new) : r.task = t /\ \A q \in Numbered(immSeq, new) : q.task = t => q = r
    BY <2>4, NumberedOnce DEF QueuesOK
  <2>6. MessageRows(imm') = MessageRows(imm) \cup {r}
    <3>1. MessageRows(Numbered(immSeq, new)) = {r}
      BY <1>6, <2>2, <2>3, <2>5 DEF MessageRows
    <3>2. MessageRows(imm') = MessageRows(kept) \cup MessageRows(Numbered(immSeq, new))
      BY <1>5 DEF MessageRows
    <3> QED
      BY <3>1, <3>2
  <2>7. ASSUME NEW x \in Execs, NEW m
        PROVE  /\ ~(x = e /\ m \in Range(b)) => TaskPlaces(x, m)' = TaskPlaces(x, m)
               /\ x = e /\ m \in Range(b) => TaskPlaces(x, m)' = TaskPlaces(x, m) \cup {r.seq}
    <3> DEFINE carries(q) == q.task.exec = x /\ m \in Range(q.task.info)
    <3>1. TaskPlaces(x, m) = {q.seq : q \in {y \in MessageRows(imm) : carries(y)}}
      BY DEF TaskPlaces, MessageRows
    <3>2. TaskPlaces(x, m)' = {q.seq : q \in {y \in MessageRows(imm') : carries(y)}}
      BY DEF TaskPlaces, MessageRows
    <3>3. carries(r) <=> x = e /\ m \in Range(b)
      BY <2>2, <2>5
    <3> HIDE DEF carries
    <3> QED
      BY <2>6, <3>1, <3>2, <3>3
  <2>8. ASSUME NEW m, m \notin messages[e] PROVE TaskPlaces(e, m) = {}
    <3> SUFFICES ASSUME NEW q \in imm, q.task.type = "NewLocalQueueMessages", q.task.exec = e,
                        m \in Range(q.task.info)
                 PROVE  FALSE
      BY DEF TaskPlaces
    <3>1. PICK c : c = q.task.info
      OBVIOUS
    <3>2. c \in Seq(messages[e])
      BY <3>1 DEF InfosOK, InfoIn
    <3>3. \A k \in DOMAIN c : c[k] \in messages[e]
      BY <3>2, LenProperties, ElementOfSeq
    <3> QED
      BY <2>8, <3>1, <3>3 DEF Range
  <2>9. ASSUME NEW m \in Range(b) PROVE m \notin messages[e] /\ Single(TaskPlaces(e, m)')
    <3>1. m \notin messages[e]
      BY <1>2
    <3>2. TaskPlaces(e, m)' = {r.seq}
      BY <2>7, <2>8, <3>1
    <3> QED
      BY <3>1, <3>2 DEF Single
  <2>10. ASSUME NEW x \in Execs, NEW m \in messages'[x]
         PROVE  \/ m \in messages[x] /\ TaskPlaces(x, m)' = TaskPlaces(x, m)
                \/ m \notin messages[x] /\ Single(TaskPlaces(x, m)')
    <3>1. CASE x = e /\ m \in Range(b)
      BY <2>9, <3>1
    <3>2. CASE ~(x = e /\ m \in Range(b))
      BY <1>4, <2>7, <2>10, <3>2
    <3> QED
      BY <3>1, <3>2
  <2>11. \A x \in Execs : messages'[x] # messages[x] => prc[x].status # "None"
    BY <1>4
  <2> QED
    BY <2>10, <2>11 DEF TasksMove
<1> QED
  BY <1>7, <1>8

-----------------------------------------------------------------------------
(* Steps that hand out no message.                                         *)
CalmStep == RowsCalm /\ TasksMove /\ QueuesCalm /\ WorkersAsk

LEMMA CalmStatus ==
    ASSUME NEW row, TypedState(row), NEW status, status \in Young => row.status \in Young
    PROVE  Calm(row, WithStatus(row, status))
<1>1. PICK x : x = WithStatus(row, status)
  OBVIOUS
<1>2. x.status = status /\ x.version > row.version /\ x.queueResults = row.queueResults
  BY <1>1, WithStatusKeeps
<1> QED
  BY <1>1, <1>2 DEF Calm

LEMMA CalmNew ==
    ASSUME NEW row, row.status = "None", row.queueResults = <<>>, NEW s, NEW config
    PROVE  Calm(row, NewStateRow(s, config)) /\ Calm(row, NoRow)
BY DEF Calm, NewStateRow, NoRow, Young

LEMMA CalmAbort ==
    ASSUME NEW rows, StateTable(rows), NEW s \in StateExecIds
    PROVE  Calm(rows[s], AbortRunning(rows)[s])
<1>1. CASE rows[s].status \in ActiveStates
  <2>1. AbortRunning(rows)[s] = WithStatus(rows[s], "Aborted") /\ TypedState(rows[s])
    BY <1>1 DEF AbortRunning, StateTable
  <2> QED
    BY <2>1, CalmStatus DEF Young
<1>2. CASE rows[s].status \notin ActiveStates
  BY <1>2 DEF AbortRunning, Calm
<1> QED
  BY <1>1, <1>2

LEMMA CalmDecided ==
    ASSUME NEW live, NEW s, NEW old, TypedState(old), old.status = "None" => old.queueResults = <<>>,
           NEW new, DecidedRow(live, s, old, new)
    PROVE  Calm(old, new)
<1>1. CASE new = old
  BY <1>1 DEF Calm
<1>2. CASE old.status = "None" /\ new = NewStateRow(s, s[1])
  BY <1>2, CalmNew
<1>3. CASE new = WithStatus(old, "Aborted")
  BY <1>3, CalmStatus DEF Young
<1> QED
  BY <1>1, <1>2, <1>3 DEF DecidedRow

LEMMA NewIsEmpty ==
    ASSUME PlaceInv, NEW e \in Execs, NEW s \in StateExecIds
    PROVE  st[e][s].status = "None" => st[e][s].queueResults = <<>>
BY DEF PlaceInv, YoungOK, Young

LEMMA OneTableCalm ==
    ASSUME TablesInv, NEW e \in Execs, NEW rows, st' = [st EXCEPT ![e] = rows],
           \A s \in StateExecIds : Calm(st[e][s], rows[s])
    PROVE  RowsCalm
<1>1. st'[e] = rows /\ \A x \in Execs \ {e} : st'[x] = st[x]
  BY DEF TablesInv, ExecsOK
<1>2. ASSUME NEW x \in Execs, NEW s \in StateExecIds PROVE Calm(st[x][s], st'[x][s])
  <2>1. CASE x = e
    BY <1>1, <2>1
  <2>2. CASE x # e
    BY <1>1, <2>2 DEF Calm
  <2> QED
    BY <2>1, <2>2
<1> QED
  BY <1>2 DEF RowsCalm

LEMMA OneRowCalm ==
    ASSUME NEW e \in Execs, NEW s \in StateExecIds, NEW new, RowSet(e, s, new), Calm(st[e][s], new)
    PROVE  RowsCalm
<1>2. ASSUME NEW x \in Execs, NEW z \in StateExecIds PROVE Calm(st[x][z], st'[x][z])
  <2>1. CASE x = e /\ z = s
    BY <2>1 DEF RowSet
  <2>2. CASE ~(x = e /\ z = s)
    <3>1. st'[x][z] = st[x][z]
      BY <2>2 DEF RowSet
    <3> QED
      BY <3>1 DEF Calm
  <2> QED
    BY <2>1, <2>2
<1> QED
  BY <1>2 DEF RowsCalm

LEMMA SameRowsCalm == ASSUME UNCHANGED st PROVE RowsCalm
BY DEF RowsCalm, Calm

LEMMA SameQueuesCalm == ASSUME UNCHANGED lq PROVE QueuesCalm
BY DEF QueuesCalm

LEMMA SameWorkersAsk == ASSUME UNCHANGED worker PROVE WorkersAsk
BY DEF WorkersAsk

LEMMA OneWorkerAsks ==
    ASSUME TablesInv, NEW w \in Workers, NEW x, worker' = [worker EXCEPT ![w] = x], Asked(x, st')
    PROVE  WorkersAsk
<1>1. worker = [v \in Workers |-> worker[v]]
  BY DEF TablesInv, CallersOK
<1> QED
  BY <1>1 DEF WorkersAsk

LEMMA AckAsks ==
    ASSUME TablesInv, NEW w \in Workers, Acknowledged(w)
    PROVE  WorkersAsk
<1>1. PICK x \in {Idle, Requeued(w)} : worker' = [worker EXCEPT ![w] = x]
  BY DEF Acknowledged
<1>2. x.pc # "waitUntil"
  <2>1. Idle.pc # "waitUntil" /\ Requeued(w).pc # "waitUntil"
    BY DEF Requeued, Holding, Idle
  <2> QED
    BY <1>1, <2>1
<1>3. Asked(x, st')
  BY <1>2 DEF Asked
<1> QED
  BY <1>1, <1>3, OneWorkerAsks

(* No task of another kind carries messages. *)
LEMMA OtherTypes ==
    /\ \A e, s : /\ ExecuteTask(e, s).type # "NewLocalQueueMessages"
                 /\ FirstTask(e, s).type # "NewLocalQueueMessages"
    /\ \A e, status : VisibilityTask(e, status).type # "NewLocalQueueMessages"
BY DEF ExecuteTask, FirstTask, VisibilityTask, Task

LEMMA QuietWorkersCalm ==
    ASSUME TablesInv, NEW w \in Workers,
           \/ LoadImmediateTask(w) \/ LoadTimerTask(w) \/ PrepareStateExecution(w)
           \/ FailProcess(w) \/ Requeue(w) \/ Crash(w) \/ ReadLatestForTimeout(w)
    PROVE  CalmStep
<1>0. UNCHANGED <<lq, st, messages, imm>>
  BY DEF LoadImmediateTask, LoadTimerTask, PrepareStateExecution, FailProcess, Requeue, Crash,
         ReadLatestForTimeout
<1>1. RowsCalm /\ QueuesCalm
  BY <1>0, SameRowsCalm, SameQueuesCalm
<1>2. TasksMove
  BY <1>0, TasksUnmoved
<1>3. CASE ~PrepareStateExecution(w)
  <2>1. \E x : worker' = [worker EXCEPT ![w] = x] /\ x.pc # "waitUntil"
    <3>1. CASE LoadImmediateTask(w)
      <4>1. PICK r \in imm : worker' = [worker EXCEPT ![w] = [Idle EXCEPT !.pc = "immediate", !.row = r]]
        BY <3>1 DEF LoadImmediateTask
      <4>2. [Idle EXCEPT !.pc = "immediate", !.row = r].pc # "waitUntil"
        BY DEF Idle
      <4> QED
        BY <4>1, <4>2
    <3>2. CASE LoadTimerTask(w)
      <4>1. PICK r \in tim : worker' = [worker EXCEPT ![w] = [Idle EXCEPT !.pc = "timer", !.row = r]]
        BY <3>2 DEF LoadTimerTask
      <4>2. [Idle EXCEPT !.pc = "timer", !.row = r].pc # "waitUntil"
        BY DEF Idle
      <4> QED
        BY <4>1, <4>2
    <3>3. CASE FailProcess(w)
      <4> DEFINE x == [Holding(w, "failing") EXCEPT !.target = latest[prc[worker[w].row.task.exec].pid]]
      <4>1. worker' = [worker EXCEPT ![w] = x]
        BY <3>3 DEF FailProcess
      <4>2. x.pc # "waitUntil"
        BY DEF Holding, Idle
      <4> QED
        BY <4>1, <4>2
    <3>4. CASE Requeue(w)
      <4>1. worker' = [worker EXCEPT ![w] = Requeued(w)]
        BY <3>4 DEF Requeue
      <4>2. Requeued(w).pc # "waitUntil"
        BY DEF Requeued, Holding, Idle
      <4> QED
        BY <4>1, <4>2
    <3>5. CASE Crash(w)
      <4>1. worker' = [worker EXCEPT ![w] = Idle] /\ Idle.pc # "waitUntil"
        BY <3>5 DEF Crash, Idle
      <4> QED
        BY <4>1
    <3>6. CASE ReadLatestForTimeout(w)
      <4> DEFINE x == [Holding(w, "timingOut") EXCEPT !.target = latest[prc[worker[w].row.task.exec].pid]]
      <4>1. worker' = [worker EXCEPT ![w] = x]
        BY <3>6 DEF ReadLatestForTimeout
      <4>2. x.pc # "waitUntil"
        BY DEF Holding, Idle
      <4> QED
        BY <4>1, <4>2
    <3> QED
      BY <1>3, <3>1, <3>2, <3>3, <3>4, <3>5, <3>6
  <2>2. PICK x : worker' = [worker EXCEPT ![w] = x] /\ x.pc # "waitUntil"
    BY <2>1
  <2>3. Asked(x, st')
    BY <2>2 DEF Asked
  <2>4. WorkersAsk
    BY <2>2, <2>3, OneWorkerAsks
  <2> QED
    BY <1>1, <1>2, <2>4 DEF CalmStep
<1>4. CASE PrepareStateExecution(w)
  <2>1. PICK row : row = st[worker[w].row.task.exec][worker[w].row.task.sid]
    OBVIOUS
  <2> DEFINE x == CASE row.status = "WaitUntilRunning" -> [Holding(w, "waitUntil") EXCEPT !.version = row.version]
                    [] row.status = "ExecuteRunning"   -> [Holding(w, "execute") EXCEPT !.version = row.version]
                    [] OTHER -> Idle
  <2>2. worker' = [worker EXCEPT ![w] = x]
    BY <1>4, <2>1 DEF PrepareStateExecution
  <2>3. x.pc = "waitUntil" => x.row = worker[w].row /\ row.status = "WaitUntilRunning"
    BY DEF Holding, Idle
  <2> HIDE DEF x
  <2>4. Asked(x, st')
    BY <1>0, <2>1, <2>3 DEF Asked
  <2>5. WorkersAsk
    BY <2>2, <2>4, OneWorkerAsks
  <2> QED
    BY <1>1, <1>2, <2>5 DEF CalmStep
<1> QED
  BY <1>3, <1>4

LEMMA StopCalm ==
    ASSUME TablesInv, NEW e \in Execs, NEW status, StopExecution(e, status), UNCHANGED messages
    PROVE  RowsCalm /\ TasksMove
<1>0. QueuesOK /\ StateTable(st[e])
  BY DEF TablesInv, ExecsOK, ExecInv, ExecBase
<1>1. CASE prc[e].status # "Running"
  <2>1. UNCHANGED <<st, imm>>
    BY <1>1 DEF StopExecution
  <2> QED
    BY <2>1, SameRowsCalm, TasksUnmoved
<1>2. CASE prc[e].status = "Running"
  <2>1. /\ WriteImmediate({VisibilityTask(e, status)}, imm)
        /\ st' = IF prc[e].pending = {} THEN st ELSE [st EXCEPT ![e] = AbortRunning(st[e])]
    BY <1>2 DEF StopExecution
  <2>2. PICK new : new = {VisibilityTask(e, status)}
    OBVIOUS
  <2>3. IsFiniteSet(new) /\ WriteImmediate(new, imm)
    BY <2>1, <2>2, FS_Singleton
  <2>4. \A t \in new : t.type # "NewLocalQueueMessages"
    BY <2>2, OtherTypes
  <2>5. TasksMove
    BY <1>0, <2>3, <2>4, TasksWritten
  <2>6. CASE prc[e].pending = {}
    BY <2>1, <2>5, <2>6, SameRowsCalm
  <2>7. CASE prc[e].pending # {}
    <3>1. st' = [st EXCEPT ![e] = AbortRunning(st[e])]
      BY <2>1, <2>7
    <3>2. \A s \in StateExecIds : Calm(st[e][s], AbortRunning(st[e])[s])
      BY <1>0, CalmAbort
    <3> QED
      BY <2>5, <3>1, <3>2, OneTableCalm
  <2> QED
    BY <2>6, <2>7
<1> QED
  BY <1>1, <1>2

LEMMA ClientCalm ==
    ASSUME TablesInv, QueueInv, NEW c \in Clients,
           \/ \E op \in ClientOps, p \in ProcessIds : ReadLatest(c, op, p)
           \/ ClientFails(c) \/ StopProcess(c) \/ PublishToLocalQueue(c)
    PROVE  CalmStep
<1>0. UNCHANGED <<lq, worker>> /\ QueuesOK /\ MessagesOK /\ InfosOK
  BY DEF ReadLatest, ClientFails, StopProcess, PublishToLocalQueue, TablesInv, QueueInv
<1>1. QueuesCalm /\ WorkersAsk
  BY <1>0, SameQueuesCalm, SameWorkersAsk
<1>2. CASE UNCHANGED <<st, messages, imm>>
  <2>1. RowsCalm /\ TasksMove
    BY <1>2, SameRowsCalm, TasksUnmoved
  <2> QED
    BY <1>1, <2>1 DEF CalmStep
<1>3. CASE StopProcess(c)
  <2>1. PICK status \in {"Failed", "Terminated"} : StopExecution(client[c].target, status)
    BY <1>3 DEF StopProcess
  <2>2. client[c].target \in Execs /\ UNCHANGED messages
    BY <1>3 DEF TablesInv, CallersOK, StopProcess
  <2> QED
    BY <1>1, <2>1, <2>2, StopCalm DEF CalmStep
<1>4. CASE PublishToLocalQueue(c) /\ prc[client[c].target].status = "Running"
  <2>1. PICK e : e = client[c].target
    OBVIOUS
  <2>2. e \in Execs /\ UNCHANGED st /\ prc[e].status # "None"
    BY <1>4, <2>1 DEF TablesInv, CallersOK, PublishToLocalQueue
  <2>3. PICK ms \in Publications : Publish(e, ms) /\ WriteImmediate(PublishTasks(e, ms), imm)
    BY <1>4, <2>1 DEF PublishToLocalQueue
  <2>4. PICK new : new = PublishTasks(e, ms)
    OBVIOUS
  <2>5. IsFiniteSet(new)
    BY <2>4, PublishTasksFinite
  <2>6. TasksMove
    BY <1>0, <2>2, <2>3, <2>4, <2>5, TasksPublished
  <2> QED
    BY <1>1, <2>2, <2>6, SameRowsCalm DEF CalmStep
<1> QED
  BY <1>2, <1>3, <1>4 DEF ReadLatest, ClientFails, PublishToLocalQueue

LEMMA WorkerStopsCalm ==
    ASSUME TablesInv, NEW w \in Workers, FailProcessCommit(w) \/ ProcessTimeoutCommit(w)
    PROVE  CalmStep
<1>1. worker[w].target \in Execs /\ Acknowledged(w) /\ UNCHANGED <<lq, messages>>
  BY DEF TablesInv, CallersOK, WorkerOK, TypedWorker, FailProcessCommit, ProcessTimeoutCommit
<1>2. PICK status : StopExecution(worker[w].target, status)
  BY DEF FailProcessCommit, ProcessTimeoutCommit
<1>3. RowsCalm /\ TasksMove
  BY <1>1, <1>2, StopCalm
<1> QED
  BY <1>1, <1>3, SameQueuesCalm, AckAsks DEF CalmStep

LEMMA RpcCalm ==
    ASSUME TablesInv, QueueInv, PlaceInv, NEW c \in Clients, UpdateProcessExecutionForRpc(c)
    PROVE  CalmStep
<1> DEFINE e == client[c].target
<1>0. UNCHANGED <<lq, worker>> /\ QueuesOK /\ ExecsOK /\ MessagesOK /\ InfosOK
  BY DEF UpdateProcessExecutionForRpc, TablesInv, QueueInv
<1>1. QueuesCalm /\ WorkersAsk
  BY <1>0, SameQueuesCalm, SameWorkersAsk
<1>2. e \in Execs /\ ExecInv(prc[e], st[e]) /\ prc[e].status # "None"
  BY DEF TablesInv, CallersOK, UpdateProcessExecutionForRpc, ExecsOK
<1>3. CASE UNCHANGED <<st, messages, imm>>
  <2>1. RowsCalm /\ TasksMove
    BY <1>3, SameRowsCalm, TasksUnmoved
  <2> QED
    BY <1>1, <2>1 DEF CalmStep
<1>4. ASSUME NEW d \in Decisions, NEW ms \in Publications, SeqInBound(prc[e], d.next), prc[e].status = "Running",
             st' = [st EXCEPT ![e] = RowsAfterDecision(st[e], prc[e], d)],
             Publish(e, ms),
             WriteImmediate(DecisionTasks(e, prc[e], d) \cup PublishTasks(e, ms), imm)
      PROVE  CalmStep
  <2> HIDE DEF e
  <2>1. PICK new : new = DecisionTasks(e, prc[e], d) \cup PublishTasks(e, ms)
    OBVIOUS
  <2>2. IsFiniteSet(DecisionTasks(e, prc[e], d))
    BY FirstTasksFinite DEF DecisionTasks, Started
  <2>3. IsFiniteSet(new) /\ WriteImmediate(new, imm) /\ PublishTasks(e, ms) \subseteq new
    BY <1>4, <2>1, <2>2, PublishTasksFinite, FS_Union
  <2>4. \A t \in new : t.type = "NewLocalQueueMessages" => t \in PublishTasks(e, ms)
    BY <2>1, OtherTypes DEF DecisionTasks
  <2>5. TasksMove
    BY <1>0, <1>2, <1>4, <2>3, <2>4, TasksPublished
  <2>6. ASSUME NEW s \in StateExecIds PROVE Calm(st[e][s], RowsAfterDecision(st[e], prc[e], d)[s])
    <3>1. PICK live, old, new2 : /\ live = (ApplyDecision(prc[e], d).status = "Running") /\ old = st[e][s]
                                 /\ new2 = RowsAfterDecision(st[e], prc[e], d)[s]
      OBVIOUS
    <3>2. DecidedRow(ApplyDecision(prc[e], d).status = "Running", s, st[e][s], RowsAfterDecision(st[e], prc[e], d)[s])
      BY <1>2, <1>4, DecidedRows DEF ExecInv
    <3>3. DecidedRow(live, s, old, new2)
      BY <3>1, <3>2
    <3>4. TypedState(old)
      BY <1>2, <3>1 DEF ExecInv, ExecBase, StateTable
    <3>5. old.status = "None" => old.queueResults = <<>>
      BY <1>2, <3>1, NewIsEmpty
    <3>6. Calm(old, new2)
      BY <3>3, <3>4, <3>5, CalmDecided
    <3> QED
      BY <3>1, <3>6
  <2>7. RowsCalm
    BY <1>2, <1>4, <2>6, OneTableCalm
  <2> QED
    BY <1>1, <2>5, <2>7 DEF CalmStep
<1> QED
  BY <1>3, <1>4 DEF UpdateProcessExecutionForRpc

(* The deletion of the task a worker prepared takes no message away. *)
LEMMA PreparedRowKept ==
    ASSUME TablesInv, WorkInv, NEW w \in Workers, worker[w].pc \in {"waitUntil", "execute"}
    PROVE  MessageRows(Without(imm, worker[w].row)) = MessageRows(imm)
<1>1. PICK row : row = worker[w].row
  OBVIOUS
<1>2. Coherent(imm, row)
  BY <1>1 DEF WorkInv, CopiesOK, CopyOK, ImmediatePcs
<1>3. row.task.type # "NewLocalQueueMessages"
  BY <1>1 DEF TablesInv, CallersOK, WorkerOK, TypedWorker
<1> QED
  BY <1>1, <1>2, <1>3, KeptMessageRows

LEMMA CompleteExecuteCalm ==
    ASSUME TablesInv, WorkInv, QueueInv, PlaceInv, NEW w \in Workers, CompleteExecuteExecution(w)
    PROVE  CalmStep
<1> DEFINE e == worker[w].row.task.exec
           s == worker[w].row.task.sid
           row == CompleteState(prc[e], s)
           rows == [st[e] EXCEPT ![s] = WithStatus(st[e][s], "Completed")]
<1>0. ExecsOK /\ QueuesOK /\ MessagesOK /\ InfosOK
  BY DEF TablesInv, QueueInv
<1>1. worker[w].pc = "execute" /\ Acknowledged(w) /\ UNCHANGED lq /\ s \in prc[e].pending
  BY DEF CompleteExecuteExecution
<1>2. /\ e \in Execs /\ ExecInv(prc[e], st[e]) /\ s \in StateExecIds /\ TypedState(st[e][s])
      /\ prc[e].status # "None" /\ st[e][s].status # "None"
  BY <1>1, PreparedState
<1>3. rows = WithRow(st[e], s, WithStatus(st[e][s], "Completed"))
  <2>1. st[e] = [x \in StateExecIds |-> st[e][x]]
    BY <1>2 DEF ExecInv, ExecBase, StateTable
  <2> QED
    BY <2>1 DEF WithRow
<1>4. ExecBase(row, rows) /\ row.status \in {"Running", "Terminated"}
  <2> HIDE DEF rows, e, s
  <2> QED
    BY <1>1, <1>2, <1>3, CompleteOperation
<1>5. PICK d \in Decisions, ms \in Publications :
        /\ SeqInBound(row, d.next)
        /\ st' = [st EXCEPT ![e] = RowsAfterDecision(rows, row, d)]
        /\ Publish(e, ms)
        /\ WriteImmediate(DecisionTasks(e, row, d) \cup PublishTasks(e, ms)
               \cup (IF ApplyDecision(row, d).status # "Running"
                     THEN {VisibilityTask(e, ApplyDecision(row, d).status)} ELSE {}),
                          Without(imm, worker[w].row))
  BY DEF CompleteExecuteExecution
<1> DEFINE v == ApplyDecision(row, d).status
           vis == IF v # "Running" THEN {VisibilityTask(e, v)} ELSE {}
<1>6. PICK new : new = DecisionTasks(e, row, d) \cup PublishTasks(e, ms) \cup vis
  OBVIOUS
<1>7. PICK kept : kept = Without(imm, worker[w].row)
  OBVIOUS
<1>8. WriteImmediate(new, kept)
  BY <1>5, <1>6, <1>7
<1>9. MessageRows(kept) = MessageRows(imm)
  BY <1>1, <1>7, PreparedRowKept
<1> HIDE DEF e, s, row, rows
<1>10. IsFiniteSet(new)
  <2>1. IsFiniteSet(DecisionTasks(e, row, d))
    BY FirstTasksFinite DEF DecisionTasks, Started
  <2>2. IsFiniteSet(vis)
    BY FS_EmptySet, FS_Singleton
  <2> HIDE DEF vis
  <2> QED
    BY <1>6, <2>1, <2>2, PublishTasksFinite, FS_Union
<1>11. PublishTasks(e, ms) \subseteq new
  BY <1>6
<1>12. \A t \in new : t.type = "NewLocalQueueMessages" => t \in PublishTasks(e, ms)
  BY <1>6, OtherTypes DEF DecisionTasks
<1>13. TasksMove
  BY <1>0, <1>2, <1>5, <1>8, <1>9, <1>10, <1>11, <1>12, TasksPublished
<1>14. ASSUME NEW z \in StateExecIds PROVE Calm(st[e][z], RowsAfterDecision(rows, row, d)[z])
  <2>1. PICK live, old, mid, after : /\ live = (ApplyDecision(row, d).status = "Running") /\ old = st[e][z]
                                     /\ mid = rows[z] /\ after = RowsAfterDecision(rows, row, d)[z]
    OBVIOUS
  <2>2. DecidedRow(ApplyDecision(row, d).status = "Running", z, rows[z], RowsAfterDecision(rows, row, d)[z])
    BY <1>4, <1>5, DecidedRows
  <2>3. DecidedRow(live, z, mid, after)
    BY <2>1, <2>2
  <2>4. TypedState(old)
    BY <1>2, <2>1 DEF ExecInv, ExecBase, StateTable
  <2>5. mid = IF z = s THEN WithStatus(old, "Completed") ELSE old
    BY <1>3, <2>1 DEF WithRow
  <2>6. Calm(old, after)
    <3>1. CASE z # s
      <4>1. old.status = "None" => old.queueResults = <<>>
        BY <1>2, <2>1, NewIsEmpty
      <4>2. mid = old
        BY <2>5, <3>1
      <4> QED
        BY <2>3, <2>4, <4>1, <4>2, CalmDecided
    <3>2. CASE z = s
      <4>1. mid.status = "Completed"
        BY <2>4, <2>5, <3>2, WithStatusKeeps
      <4>2. after = mid
        BY <2>3, <4>1 DEF DecidedRow, ActiveStates
      <4> QED
        BY <2>4, <2>5, <3>2, <4>2, CalmStatus DEF Young
    <3> QED
      BY <3>1, <3>2
  <2> QED
    BY <2>1, <2>6
<1>15. RowsCalm
  BY <1>2, <1>5, <1>14, OneTableCalm
<1> QED
  BY <1>1, <1>13, <1>15, SameQueuesCalm, AckAsks DEF CalmStep

LEMMA CompleteWaitUntilCalm ==
    ASSUME TablesInv, WorkInv, QueueInv, NEW w \in Workers, CompleteWaitUntil(w)
    PROVE  CalmStep
<1> DEFINE e == worker[w].row.task.exec
           s == worker[w].row.task.sid
           x == WithStatus(st[e][s], "ExecuteRunning")
<1>0. QueuesOK /\ MessagesOK /\ InfosOK
  BY DEF TablesInv, QueueInv
<1>1. worker[w].pc = "waitUntil" /\ Acknowledged(w) /\ UNCHANGED lq
  BY DEF CompleteWaitUntil
<1>2. e \in Execs /\ s \in StateExecIds /\ TypedState(st[e][s]) /\ prc[e].status # "None"
  BY <1>1, PreparedState
<1>3. PICK ms \in Publications :
        /\ st' = [st EXCEPT ![e][s] = x]
        /\ Publish(e, ms)
        /\ WriteImmediate({ExecuteTask(e, s)} \cup PublishTasks(e, ms), Without(imm, worker[w].row))
  BY DEF CompleteWaitUntil
<1>4. PICK new, kept : new = {ExecuteTask(e, s)} \cup PublishTasks(e, ms) /\ kept = Without(imm, worker[w].row)
  OBVIOUS
<1>5. MessageRows(kept) = MessageRows(imm)
  BY <1>1, <1>4, PreparedRowKept
<1>6. IsFiniteSet(new) /\ WriteImmediate(new, kept) /\ PublishTasks(e, ms) \subseteq new
  BY <1>3, <1>4, FS_Singleton, PublishTasksFinite, FS_Union
<1> HIDE DEF e, s
<1>7. \A t \in new : t.type = "NewLocalQueueMessages" => t \in PublishTasks(e, ms)
  BY <1>4, OtherTypes
<1>8. TasksMove
  BY <1>0, <1>2, <1>3, <1>5, <1>6, <1>7, TasksPublished
<1>9. Calm(st[e][s], x)
  BY <1>2, CalmStatus DEF Young
<1> HIDE DEF x
<1>10. RowSet(e, s, x)
  BY <1>2, <1>3, OneRow
<1>11. RowsCalm
  BY <1>2, <1>9, <1>10, OneRowCalm
<1> QED
  BY <1>1, <1>8, <1>11, SameQueuesCalm, AckAsks DEF CalmStep

(* The answer that failed is to be asked for again: the row is young if    *)
(* the answer was a WaitUntil API's.                                       *)
LEMMA BackoffCalm ==
    ASSUME TablesInv, WorkInv, PlaceInv, NEW w \in Workers, BackoffImmediateTask(w)
    PROVE  CalmStep
<1> DEFINE e == worker[w].row.task.exec
           s == worker[w].row.task.sid
           x == WithStatus(st[e][s], PreparedStatus(w))
<1>1. /\ worker[w].pc \in {"waitUntil", "execute"} /\ Acknowledged(w) /\ UNCHANGED <<lq, messages>>
      /\ NotModified(w)
      /\ st' = [st EXCEPT ![e][s] = x]
      /\ imm' = Without(imm, worker[w].row)
  BY DEF BackoffImmediateTask, ApiFailed
<1>2. e \in Execs /\ s \in StateExecIds /\ TypedState(st[e][s])
  BY <1>1, PreparedState
<1>3. TasksMove
  BY <1>1, PreparedRowKept, TasksUnmoved
<1>4. PreparedStatus(w) \in Young => st[e][s].status \in Young
  <2>1. Asked(worker[w], st)
    BY DEF PlaceInv, AskedOK
  <2> QED
    BY <1>1, <2>1 DEF PreparedStatus, Young, Asked, NotModified
<1> HIDE DEF e, s
<1>5. Calm(st[e][s], x)
  BY <1>2, <1>4, CalmStatus
<1> HIDE DEF x
<1>6. RowSet(e, s, x)
  BY <1>1, <1>2, OneRow
<1>7. RowsCalm
  BY <1>2, <1>5, <1>6, OneRowCalm
<1> QED
  BY <1>1, <1>3, <1>7, SameQueuesCalm, AckAsks DEF CalmStep

LEMMA RecoverCalm ==
    ASSUME TablesInv, PlaceInv, NEW w \in Workers, RecoverFromStateExecutionFailure(w)
    PROVE  CalmStep
<1> DEFINE e    == worker[w].row.task.exec
           s    == worker[w].row.task.sid
           dest == Proceed[st[e][s].config]
           row  == CompleteState(prc[e], s)
           new  == Started(row, Once(dest))
           rows == [x \in StateExecIds |->
                      IF x \in new THEN NewStateRow(x, st[e][s].config)
                      ELSE IF x = s THEN WithStatus(st[e][s], "Failed")
                      ELSE st[e][x]]
<1>0. QueuesOK
  BY DEF TablesInv
<1>1. /\ worker[w].pc \in {"waitUntil", "execute"} /\ Acknowledged(w) /\ UNCHANGED <<lq, messages>>
      /\ st' = [st EXCEPT ![e] = rows]
      /\ WriteImmediate({FirstTask(e, x) : x \in new}, imm)
  BY DEF RecoverFromStateExecutionFailure, ApiFailed
<1>2. e \in Execs /\ s \in StateExecIds /\ TypedState(st[e][s]) /\ ExecInv(prc[e], st[e])
  BY <1>1, PreparedState
<1>3. PICK tasks : tasks = {FirstTask(e, x) : x \in new}
  OBVIOUS
<1>4. IsFiniteSet(tasks) /\ WriteImmediate(tasks, imm)
  BY <1>1, <1>3, FirstTasksFinite DEF Started
<1>5. \A t \in tasks : t.type # "NewLocalQueueMessages"
  BY <1>3, OtherTypes
<1>6. TasksMove
  BY <1>0, <1>1, <1>4, <1>5, TasksWritten
<1>7. ASSUME NEW x \in new PROVE st[e][x].status = "None"
  <2>1. row.seq = prc[e].seq
    BY <1>2 DEF CompleteState, ExecInv, ExecBase, PrcRow
  <2> HIDE DEF row, e, dest
  <2> QED
    BY <1>2, <2>1, FreshRow DEF ExecInv
<1>8. \A x \in StateExecIds : rows[x] = IF x \in new THEN NewStateRow(x, st[e][s].config)
                                       ELSE IF x = s THEN WithStatus(st[e][s], "Failed") ELSE st[e][x]
  OBVIOUS
<1> HIDE DEF e, s, new, rows
<1>9. ASSUME NEW x \in StateExecIds PROVE Calm(st[e][x], rows[x])
  <2>1. CASE x \in new
    <3>1. st[e][x].status = "None" /\ st[e][x].queueResults = <<>>
      BY <1>2, <1>7, <2>1, NewIsEmpty
    <3> QED
      BY <1>8, <2>1, <3>1, CalmNew
  <2>2. CASE x \notin new /\ x = s
    <3>1. rows[x] = WithStatus(st[e][s], "Failed")
      BY <1>8, <2>2
    <3>2. Calm(st[e][s], WithStatus(st[e][s], "Failed"))
      BY <1>2, CalmStatus DEF Young
    <3> QED
      BY <2>2, <3>1, <3>2
  <2>3. CASE x \notin new /\ x # s
    BY <1>8, <2>3 DEF Calm
  <2> QED
    BY <2>1, <2>2, <2>3
<1>10. RowsCalm
  BY <1>1, <1>2, <1>9, OneTableCalm
<1> QED
  BY <1>1, <1>6, <1>10, SameQueuesCalm, AckAsks DEF CalmStep

LEMMA TimerConversionsCalm ==
    ASSUME TablesInv, WorkInv, NEW w \in Workers,
           ConvertTimerTaskToImmediateTask(w) \/ CheckProcessTimeout(w)
    PROVE  CalmStep
<1> DEFINE t == worker[w].row.task
<1>0. QueuesOK /\ CopyOK(worker[w], imm, tim)
  BY DEF TablesInv, WorkInv, CopiesOK
<1>1. worker[w].pc = "timer" /\ UNCHANGED <<lq, st, messages>>
  BY DEF ConvertTimerTaskToImmediateTask, CheckProcessTimeout
<1>t. BackoffOK(t)
  BY <1>0, <1>1 DEF CopyOK, TimerPcs
<1>r. RowsCalm /\ QueuesCalm
  BY <1>1, SameRowsCalm, SameQueuesCalm
<1>2. CASE ConvertTimerTaskToImmediateTask(w)
  <2>1. t.type = "WorkerTaskBackoff" /\ WriteImmediate({Task(t.info, t.exec, t.sid, 0)}, imm) /\ Acknowledged(w)
    BY <1>2 DEF ConvertTimerTaskToImmediateTask
  <2>2. PICK new : new = {Task(t.info, t.exec, t.sid, 0)}
    OBVIOUS
  <2>3. t.info # "NewLocalQueueMessages"
    BY <1>t, <2>1 DEF BackoffOK, ApiTasks
  <2>4. \A x \in new : x.type # "NewLocalQueueMessages"
    BY <2>2, <2>3 DEF Task
  <2>5. IsFiniteSet(new) /\ WriteImmediate(new, imm)
    BY <2>1, <2>2, FS_Singleton
  <2>6. TasksMove
    BY <1>0, <1>1, <2>4, <2>5, TasksWritten
  <2> QED
    BY <1>r, <2>1, <2>6, AckAsks DEF CalmStep
<1>3. CASE CheckProcessTimeout(w)
  <2>1. UNCHANGED imm
    BY <1>3 DEF CheckProcessTimeout
  <2>2. TasksMove
    BY <1>1, <2>1, TasksUnmoved
  <2>3. CASE Acknowledged(w)
    BY <1>r, <2>2, <2>3, AckAsks DEF CalmStep
  <2>4. CASE worker' = [worker EXCEPT ![w] = Holding(w, "checked")]
    <3>1. Asked(Holding(w, "checked"), st')
      BY DEF Asked, Holding, Idle
    <3>2. WorkersAsk
      BY <2>4, <3>1, OneWorkerAsks
    <3> QED
      BY <1>r, <2>2, <3>2 DEF CalmStep
  <2> QED
    BY <1>3, <2>3, <2>4 DEF CheckProcessTimeout
<1> QED
  BY <1>2, <1>3

LEMMA OneQueueCalm ==
    ASSUME QueueInv, NEW e \in Execs, NEW q, lq' = [lq EXCEPT ![e] = q],
           messages'[e] = {} \/ q.msgs = lq[e].msgs,
           \A s \in StateExecIds : DOMAIN q.cmds[s] \subseteq DOMAIN lq[e].cmds[s]
    PROVE  QueuesCalm
<1>1. lq'[e] = q /\ \A x \in Execs \ {e} : lq'[x] = lq[x]
  BY DEF QueueInv, HoldingsOK
<1> QED
  BY <1>1 DEF QueuesCalm

LEMMA TimerCommandCalm ==
    ASSUME TablesInv, WorkInv, QueueInv, PlaceInv, NEW w \in Workers, ProcessTimerTaskForTimerCommand(w)
    PROVE  CalmStep
<1> DEFINE e    == worker[w].row.task.exec
           s    == worker[w].row.task.sid
           info == worker[w].row.task.info
           row  == [st[e][s] EXCEPT !.timerResults = st[e][s].timerResults \cup {info}]
           done == HasCompletedWaitUntilWaiting(row)
           x    == WithStatus(row, IF done THEN "ExecuteRunning" ELSE "WaitUntilWaiting")
           exe  == IF done THEN {ExecuteTask(e, s)} ELSE {}
           q    == IF done THEN CleanupFor(lq[e], s) ELSE lq[e]
<1>0. QueuesOK /\ HoldingsOK
  BY DEF TablesInv, QueueInv
<1>1. /\ worker[w].pc = "timer" /\ worker[w].row.task.type = "TimerCommand" /\ Acknowledged(w)
      /\ UNCHANGED messages
  BY DEF ProcessTimerTaskForTimerCommand
<1>2. e \in Execs /\ s \in StateExecIds /\ TypedState(st[e][s])
  <2>1. e \in Execs /\ s \in StateExecIds /\ ExecInv(prc[e], st[e])
    BY <1>1, HeldTask DEF StateTasks
  <2> QED
    BY <2>1 DEF ExecInv, ExecBase, StateTable
<1>3. CASE UNCHANGED <<st, lq, imm, immSeq, tim>>
  <2>1. RowsCalm /\ QueuesCalm /\ TasksMove
    BY <1>1, <1>3, SameRowsCalm, SameQueuesCalm, TasksUnmoved
  <2> QED
    BY <1>1, <2>1, AckAsks DEF CalmStep
<1>4. CASE /\ st' = [st EXCEPT ![e][s] = x] /\ WriteImmediate(exe, imm)
           /\ lq' = [lq EXCEPT ![e] = q]
  <2>1. TypedState(row) /\ row.version = st[e][s].version /\ row.queueResults = st[e][s].queueResults
    BY <1>2 DEF TypedState
  <2>2. PICK status : status = IF done THEN "ExecuteRunning" ELSE "WaitUntilWaiting"
    OBVIOUS
  <2>3. x = WithStatus(row, status) /\ status \notin Young
    BY <2>2 DEF Young
  <2> HIDE DEF row, x, q, e, s, info, exe
  <2>4. x.status = status /\ x.version > row.version /\ x.queueResults = row.queueResults
    BY <2>1, <2>3, WithStatusKeeps
  <2>5. Calm(st[e][s], x)
    BY <2>1, <2>3, <2>4 DEF Calm
  <2>6. RowSet(e, s, x)
    BY <1>2, <1>4, OneRow
  <2>7. RowsCalm
    BY <1>2, <2>5, <2>6, OneRowCalm
  <2>8. TasksMove
    <3>1. PICK new : new = exe
      OBVIOUS
    <3>2. IsFiniteSet(new)
      BY <3>1, FS_EmptySet, FS_Singleton DEF exe
    <3>3. \A t \in new : t.type # "NewLocalQueueMessages"
      BY <3>1, OtherTypes DEF exe
    <3> QED
      BY <1>0, <1>1, <1>4, <3>1, <3>2, <3>3, TasksWritten
  <2>9. CleanFacts(lq[e], s, CleanupFor(lq[e], s), messages[e])
    BY <1>0, <1>2, CleanupFacts DEF HoldingsOK
  <2>10. q.msgs = lq[e].msgs /\ \A t \in StateExecIds : DOMAIN q.cmds[t] \subseteq DOMAIN lq[e].cmds[t]
    BY <2>9 DEF q, CleanFacts
  <2>11. QueuesCalm
    BY <1>2, <1>4, <2>10, OneQueueCalm
  <2> QED
    BY <1>1, <2>7, <2>8, <2>11, AckAsks DEF CalmStep
<1> QED
  BY <1>3, <1>4 DEF ProcessTimerTaskForTimerCommand

LEMMA StartCalm ==
    ASSUME TablesInv, QueueInv, PlaceInv, NEW p \in ProcessIds, NEW policy \in StartPolicies,
           NEW start \in StartStates, NEW hasTimeout \in StartTimeouts, StartProcess(p, policy, start, hasTimeout)
    PROVE  CalmStep
<1> DEFINE old        == latest[p]
           replaces   == policy = "TERMINATE_IF_RUNNING" /\ old # NoExec
           terminates == replaces /\ prc[old].status = "Running"
           first      == IF start = NoState THEN {} ELSE {<<start, 1>>}
           rows       == [s \in StateExecIds |-> IF s \in first THEN NewStateRow(s, s[1]) ELSE NoRow]
           fresh      == NewLocalQueues(StateExecIds, Queues)
<1>0. ExecsOK /\ QueuesOK
  BY DEF TablesInv
<1>1. UNCHANGED <<messages, worker>> /\ MaxSeq > 0
  BY DEF StartProcess
<1>2. PICK e \in Execs :
        /\ prc[e].status = "None"
        /\ st' = [x \in Execs |-> IF x = e THEN rows
                                  ELSE IF replaces /\ x = old THEN AbortRunning(st[x])
                                  ELSE st[x]]
        /\ lq' = [lq EXCEPT ![e] = fresh]
        /\ WriteImmediate({FirstTask(e, s) : s \in first}
                           \cup {VisibilityTask(e, "Running")}
                           \cup (IF terminates THEN {VisibilityTask(old, "Terminated")} ELSE {}), imm)
  BY DEF StartProcess
<1>3. first \subseteq StateExecIds
  BY <1>1, ConfigAssumption, FiniteAssumption DEF StateExecIds
<1> DEFINE firsts == {FirstTask(e, s) : s \in first}
           ends   == IF terminates THEN {VisibilityTask(old, "Terminated")} ELSE {}
<1>4. PICK new : new = firsts \cup {VisibilityTask(e, "Running")} \cup ends
  OBVIOUS
<1>5. WriteImmediate(new, imm)
  BY <1>2, <1>4
<1>6. \A s \in StateExecIds : rows[s] = NewStateRow(s, s[1]) \/ rows[s] = NoRow
  OBVIOUS
<1> HIDE DEF first, rows, old, fresh
<1>7. IsFiniteSet(new)
  <2>1. IsFiniteSet(firsts)
    BY <1>3, FirstTasksFinite
  <2>2. IsFiniteSet(ends) /\ IsFiniteSet({VisibilityTask(e, "Running")})
    BY FS_EmptySet, FS_Singleton
  <2> HIDE DEF firsts, ends
  <2> QED
    BY <1>4, <2>1, <2>2, FS_Union
<1>8. \A t \in new : t.type # "NewLocalQueueMessages"
  BY <1>4, OtherTypes
<1>9. TasksMove
  BY <1>0, <1>1, <1>5, <1>7, <1>8, TasksWritten
<1>10. ASSUME NEW x \in Execs, NEW s \in StateExecIds PROVE Calm(st[x][s], st'[x][s])
  <2>1. CASE x = e
    <3>1. st[e][s].status = "None"
      BY <1>0, <1>2 DEF ExecsOK, ExecInv, ExecBase
    <3>2. st[e][s].queueResults = <<>>
      BY <3>1, NewIsEmpty
    <3>3. Calm(st[e][s], NewStateRow(s, s[1])) /\ Calm(st[e][s], NoRow)
      BY <3>1, <3>2, CalmNew
    <3>4. st'[e][s] = NewStateRow(s, s[1]) \/ st'[e][s] = NoRow
      BY <1>2, <1>6
    <3> QED
      BY <2>1, <3>3, <3>4
  <2>2. CASE x # e /\ st'[x] = AbortRunning(st[x])
    <3>1. StateTable(st[x])
      BY <1>0 DEF ExecsOK, ExecInv, ExecBase
    <3> QED
      BY <2>2, <3>1, CalmAbort
  <2>3. CASE x # e /\ st'[x] = st[x]
    BY <2>3 DEF Calm
  <2> QED
    BY <1>2, <2>1, <2>2, <2>3
<1>11. RowsCalm
  BY <1>10 DEF RowsCalm
<1>12. messages'[e] = {}
  BY <1>1, <1>2 DEF PlaceInv, UnpublishedOK
<1>13. \A s \in StateExecIds : DOMAIN fresh.cmds[s] = {}
  BY NewQueuesTyped DEF fresh
<1>14. QueuesCalm
  BY <1>2, <1>12, <1>13, OneQueueCalm
<1> QED
  BY <1>1, <1>9, <1>11, <1>14, SameWorkersAsk DEF CalmStep

-----------------------------------------------------------------------------
(* Steps that hand out messages.                                           *)
LEMMA OneOfThree ==
    ASSUME NEW A, NEW B, NEW C, IsFiniteSet(A), IsFiniteSet(B), IsFiniteSet(C),
           Cardinality(A) + Cardinality(B) + Cardinality(C) = 1
    PROVE  \/ Single(A) /\ B = {} /\ C = {}
           \/ A = {} /\ Single(B) /\ C = {}
           \/ A = {} /\ B = {} /\ Single(C)
<1>1. Cardinality(A) \in Nat /\ Cardinality(B) \in Nat /\ Cardinality(C) \in Nat
  BY FS_CardinalityType
<1>2. \/ Cardinality(A) = 1 /\ Cardinality(B) = 0 /\ Cardinality(C) = 0
      \/ Cardinality(A) = 0 /\ Cardinality(B) = 1 /\ Cardinality(C) = 0
      \/ Cardinality(A) = 0 /\ Cardinality(B) = 0 /\ Cardinality(C) = 1
  BY <1>1
<1>3. ASSUME NEW S, IsFiniteSet(S) PROVE (Cardinality(S) = 0 => S = {}) /\ (Cardinality(S) = 1 => Single(S))
  BY <1>3, FS_EmptySet, FS_Singleton DEF Single
<1> QED
  BY <1>2, <1>3

(* The results that hold m, in one table of rows. *)
PairPlaces(rows, m) ==
    {x \in UNION {{s} \X DOMAIN rows[s].queueResults : s \in StateExecIds} :
        m \in Range(rows[x[1]].queueResults[x[2]])}

IsPlace(rows, m, x) ==
    \E s \in StateExecIds : \E i \in DOMAIN rows[s].queueResults :
        x = <<s, i>> /\ m \in Range(rows[s].queueResults[i])

LEMMA PairPlacesAre ==
    ASSUME NEW rows, NEW m, NEW x
    PROVE  x \in PairPlaces(rows, m) <=> IsPlace(rows, m, x)
<1> DEFINE all == UNION {{s} \X DOMAIN rows[s].queueResults : s \in StateExecIds}
<1>1. ASSUME x \in all PROVE \E s \in StateExecIds : \E i \in DOMAIN rows[s].queueResults : x = <<s, i>>
  <2>1. PICK s \in StateExecIds : x \in {s} \X DOMAIN rows[s].queueResults
    BY <1>1
  <2>2. PICK i \in DOMAIN rows[s].queueResults : x = <<s, i>>
    BY <2>1
  <2> QED
    BY <2>2
<1>2. ASSUME NEW s \in StateExecIds, NEW i \in DOMAIN rows[s].queueResults, x = <<s, i>> PROVE x \in all
  <2>1. x \in {s} \X DOMAIN rows[s].queueResults
    BY <1>2
  <2> QED
    BY <2>1
<1>3. ASSUME NEW s, NEW i, x = <<s, i>> PROVE x[1] = s /\ x[2] = i
  BY <1>3
<1>4. x \in PairPlaces(rows, m) <=> x \in all /\ m \in Range(rows[x[1]].queueResults[x[2]])
  BY DEF PairPlaces
<1> HIDE DEF all
<1> QED
  BY <1>1, <1>2, <1>3, <1>4 DEF IsPlace

LEMMA PlacesFinite ==
    ASSUME TablesInv, QueueInv, NEW e \in Execs, NEW m \in messages[e]
    PROVE  IsFiniteSet(TaskPlaces(e, m)) /\ IsFiniteSet(QueuePlaces(e, m)) /\ IsFiniteSet(ResultPlaces(e, m))
<1>1. IsFiniteSet(TaskPlaces(e, m))
  <2>1. immSeq \in Nat /\ \A r \in imm : r.seq \in 1..immSeq
    BY DEF TablesInv, QueuesOK, TypedTask
  <2>2. TaskPlaces(e, m) \subseteq 1..immSeq
    BY <2>1 DEF TaskPlaces
  <2>3. IsFiniteSet(1..immSeq)
    BY <2>1, FS_Interval
  <2> QED
    BY <2>2, <2>3, FS_Subset
<1>2. IsFiniteSet(QueuePlaces(e, m))
  <2>1. PICK b : b = lq[e].msgs[m.queue]
    OBVIOUS
  <2>2. m.queue \in Queues
    BY DEF QueueInv, MessagesOK, InQueues
  <2>3. b \in Seq(messages[e])
    BY <2>1, <2>2 DEF QueueInv, HoldingsOK, TypedQueues, TypedMessages
  <2>4. DOMAIN b = 1..Len(b) /\ Len(b) \in Nat
    BY <2>3, LenProperties
  <2>5. QueuePlaces(e, m) \subseteq 1..Len(b)
    BY <2>1, <2>4 DEF QueuePlaces
  <2>6. IsFiniteSet(1..Len(b))
    BY <2>4, FS_Interval
  <2> QED
    BY <2>5, <2>6, FS_Subset
<1>3. IsFiniteSet(ResultPlaces(e, m))
  <2> DEFINE P(s) == {s} \X DOMAIN st[e][s].queueResults
             all == {P(s) : s \in StateExecIds}
             f == [s \in StateExecIds |-> P(s)]
  <2>1. ASSUME NEW s \in StateExecIds PROVE IsFiniteSet(P(s))
    <3>1. PICK D : D = DOMAIN st[e][s].queueResults
      OBVIOUS
    <3>2. IsFiniteSet(D) /\ IsFiniteSet({s})
      BY <3>1, FS_Singleton DEF QueueInv, HoldingsOK, TypedRow, TypedGot
    <3>3. IsFiniteSet({s} \X D)
      BY <3>2, FS_Product
    <3> QED
      BY <3>1, <3>3
  <2>2. f \in Surjection(StateExecIds, all)
    BY DEF Surjection
  <2>3. IsFiniteSet(all)
    BY <2>2, StateExecIdsFinite, FS_Surjection
  <2>4. ResultPlaces(e, m) \subseteq UNION all
    BY DEF ResultPlaces
  <2> HIDE DEF P
  <2>5. \A S \in all : IsFiniteSet(S)
    BY <2>1
  <2> HIDE DEF all
  <2>6. IsFiniteSet(UNION all)
    BY <2>3, <2>5, FS_UNION
  <2> QED
    BY <2>4, <2>6, FS_Subset
<1> QED
  BY <1>1, <1>2, <1>3

(* A message moves within one execution: from its task to where a batch    *)
(* puts it, or from its queue to a result.                                 *)
Held(B, H) ==
    \/ Single(B) /\ H = {}
    \/ B = {} /\ Single(H)

Moves(A, B, A2, B2, H) ==
    \/ /\ A2 = A
       /\ B = {} => B2 = {} /\ H = {}
       /\ Single(B) => Held(B2, H)
    \/ /\ A # {} /\ (Single(A) => A2 = {})
       /\ B = {} => Held(B2, H)

LEMMA MovesOnce ==
    ASSUME TablesInv, QueueInv, NEW e \in Execs, NEW m \in messages[e], InOnePlace(e, m), NEW H,
           Moves(TaskPlaces(e, m), QueuePlaces(e, m), TaskPlaces(e, m)', QueuePlaces(e, m)', H),
           ResultPlaces(e, m)' = ResultPlaces(e, m) \cup H
    PROVE  InOnePlace(e, m)'
<1>1. PICK A, B, C : A = TaskPlaces(e, m) /\ B = QueuePlaces(e, m) /\ C = ResultPlaces(e, m)
  OBVIOUS
<1>2. PICK A2, B2, C2 : A2 = TaskPlaces(e, m)' /\ B2 = QueuePlaces(e, m)' /\ C2 = ResultPlaces(e, m)'
  OBVIOUS
<1>3. IsFiniteSet(A) /\ IsFiniteSet(B) /\ IsFiniteSet(C)
  BY <1>1, PlacesFinite
<1>4. Cardinality(A) + Cardinality(B) + Cardinality(C) = 1
  BY <1>1 DEF InOnePlace
<1>5. \/ Single(A) /\ B = {} /\ C = {}
      \/ A = {} /\ Single(B) /\ C = {}
      \/ A = {} /\ B = {} /\ Single(C)
  BY <1>3, <1>4, OneOfThree
<1>6. Moves(A, B, A2, B2, H) /\ C2 = C \cup H
  BY <1>1, <1>2
<1>7. \/ Single(A2) /\ B2 = {} /\ C2 = {}
      \/ A2 = {} /\ Single(B2) /\ C2 = {}
      \/ A2 = {} /\ B2 = {} /\ Single(C2)
  BY <1>5, <1>6 DEF Moves, Held
<1>8. Cardinality(A2) + Cardinality(B2) + Cardinality(C2) = 1
  BY <1>7, ThreeCount
<1> QED
  BY <1>2, <1>8 DEF InOnePlace

(* What ProcessLocalQueueMessages does to the row of a state execution     *)
(* that is handed got, and to the execution e of the task.                 *)
Handed(old, new, got) ==
    \/ new = old /\ DOMAIN got = {}
    \/ /\ DOMAIN got # {} /\ new.version > old.version
       /\ new.status \in {old.status, "ExecuteRunning"}
       /\ new.queueResults = WithResults(old, got).queueResults

HandsOut(e, ms, o) ==
    /\ BatchResult(lq[e], ms, o, Len(ms), messages[e])
    /\ lq'[e].msgs = o.q.msgs
    /\ \A s \in StateExecIds : DOMAIN lq'[e].cmds[s] \subseteq DOMAIN lq[e].cmds[s]
    /\ \A s \in StateExecIds : Handed(st[e][s], st'[e][s], GotOf(o, s))

OthersKept(e) == \A x \in Execs \ {e} : lq'[x] = lq[x] /\ st'[x] = st[x]

LEMMA LocalQueueEffect ==
    ASSUME TablesInv, QueueInv, NEW w \in Workers, ProcessLocalQueueMessages(w)
    PROVE  /\ \E o : HandsOut(worker[w].row.task.exec, worker[w].row.task.info, o)
           /\ OthersKept(worker[w].row.task.exec)
           /\ MessageRows(imm') = MessageRows(Without(imm, worker[w].row))
<1> DEFINE e == worker[w].row.task.exec
           ms == worker[w].row.task.info
<1>0. QueuesOK /\ MessagesOK /\ HoldingsOK /\ InfosOK
  BY DEF QueueInv, TablesInv
<1>1. worker[w].pc = "immediate" /\ worker[w].row.task.type = "NewLocalQueueMessages"
  BY DEF ProcessLocalQueueMessages
<1>2. e \in Execs /\ \A s \in StateExecIds : TypedState(st[e][s])
  <2>1. e \in Execs /\ ExecInv(prc[e], st[e])
    BY <1>1, HeldTask
  <2> QED
    BY <2>1 DEF ExecInv, ExecBase, StateTable
<1>3. PICK o \in AddMessages(lq[e], ms) :
        LET assigned == {x[1] : x \in DOMAIN o.got}
            got(s)   == [i \in {x[2] : x \in {y \in DOMAIN o.got : y[1] = s}} |-> o.got[<<s, i>>]]
            row(s)   == WithResults(st[e][s], got(s))
            done     == {s \in assigned : HasCompletedWaitUntilWaiting(row(s))}
        IN  /\ assigned \subseteq {s \in StateExecIds : st[e][s].status # "None"}
            /\ st' = [st EXCEPT ![e] = [s \in StateExecIds |->
                        IF s \in done THEN WithStatus(row(s), "ExecuteRunning")
                        ELSE IF s \in assigned THEN WithStatus(row(s), st[e][s].status)
                        ELSE st[e][s]]]
            /\ lq' = [lq EXCEPT ![e] = [o.q EXCEPT !.cmds =
                        [s \in DOMAIN o.q.cmds |-> IF s \in done THEN NoCommands ELSE o.q.cmds[s]]]]
            /\ WriteImmediate({ExecuteTask(e, s) : s \in done}, Without(imm, worker[w].row))
  BY DEF ProcessLocalQueueMessages
<1> DEFINE assigned == {x[1] : x \in DOMAIN o.got}
           row(s)   == WithResults(st[e][s], GotOf(o, s))
           done     == {s \in assigned : HasCompletedWaitUntilWaiting(row(s))}
           rows     == [s \in StateExecIds |->
                          IF s \in done THEN WithStatus(row(s), "ExecuteRunning")
                          ELSE IF s \in assigned THEN WithStatus(row(s), st[e][s].status)
                          ELSE st[e][s]]
<1>4. /\ done \subseteq StateExecIds /\ done \subseteq assigned
      /\ st' = [st EXCEPT ![e] = rows]
      /\ lq' = [lq EXCEPT ![e] = Emptied(o.q, done)]
      /\ WriteImmediate({ExecuteTask(e, s) : s \in done}, Without(imm, worker[w].row))
  BY <1>3 DEF GotOf, Emptied
<1>5. MessageRows(imm') = MessageRows(Without(imm, worker[w].row))
  <2> HIDE DEF e, done
  <2>1. PICK new : new = {ExecuteTask(e, s) : s \in done}
    OBVIOUS
  <2>2. IsFiniteSet(new)
    <3> DEFINE f == [s \in done |-> ExecuteTask(e, s)]
    <3>1. IsFiniteSet(done)
      BY <1>4, StateExecIdsFinite, FS_Subset
    <3>2. f \in Surjection(done, new)
      BY <2>1 DEF Surjection
    <3> QED
      BY <3>1, <3>2, FS_Surjection
  <2>3. imm' = Without(imm, worker[w].row) \cup Numbered(immSeq, new)
    BY <1>4, <2>1 DEF WriteImmediate
  <2>4. \A r \in Numbered(immSeq, new) : r.task \in new
    BY <1>0, <2>2, NumberedAll DEF QueuesOK
  <2>5. \A t \in new : t.type # "NewLocalQueueMessages"
    BY <2>1, OtherTypes
  <2> QED
    BY <2>3, <2>4, <2>5 DEF MessageRows
<1>6. BatchResult(lq[e], ms, o, Len(ms), messages[e])
  <2>1. InfoIn(worker[w].row.task, messages)
    BY <1>0, <1>1 DEF InfosOK, ImmediatePcs
  <2>2. ms \in Seq(messages[e]) /\ IsInjective(ms)
    BY <1>1, <2>1 DEF InfoIn
  <2>3. TypedQueues(lq[e], messages[e]) /\ NothingSatisfiable(lq[e]) /\ InQueues(messages[e])
    BY <1>0, <1>2 DEF HoldingsOK, MessagesOK
  <2>4. PICK M, q, b : M = messages[e] /\ q = lq[e] /\ b = ms
    OBVIOUS
  <2>5. /\ InQueues(M) /\ TypedQueues(q, M) /\ NothingSatisfiable(q) /\ b \in Seq(M) /\ IsInjective(b)
        /\ o \in AddMessages(q, b)
    BY <2>2, <2>3, <2>4
  <2>6. BatchResult(q, b, o, Len(b), M)
    BY <2>5, AddMessagesFacts
  <2> QED
    BY <2>4, <2>6
<1>7. BatchOK(lq[e], o, messages[e])
  BY <1>6 DEF BatchResult
<1>8. st'[e] = rows /\ \A x \in Execs \ {e} : st'[x] = st[x]
  BY <1>2, <1>4 DEF TablesInv, ExecsOK
<1>9. lq'[e] = Emptied(o.q, done) /\ \A x \in Execs \ {e} : lq'[x] = lq[x]
  BY <1>0, <1>2, <1>4 DEF HoldingsOK
<1>10. /\ lq'[e].msgs = o.q.msgs
       /\ \A s \in StateExecIds : DOMAIN lq'[e].cmds[s] \subseteq DOMAIN lq[e].cmds[s]
  <2> HIDE DEF done, e
  <2>1. PICK q, p : q = o.q /\ p = Emptied(q, done)
    OBVIOUS
  <2>2. TypedQueues(q, messages[e]) /\ NothingSatisfiable(q)
    BY <1>7, <2>1 DEF BatchOK
  <2>3. EmptiedResult(q, done, p, messages[e])
    BY <2>1, <2>2, EmptiedFacts
  <2>4. p.msgs = q.msgs
    <3>1. q = [cmds |-> q.cmds, msgs |-> q.msgs]
      BY <2>2 DEF TypedQueues
    <3> QED
      BY <2>1, <3>1 DEF Emptied
  <2>5. \A s \in StateExecIds : DOMAIN p.cmds[s] \subseteq DOMAIN q.cmds[s]
    BY <2>3 DEF EmptiedResult
  <2>6. \A s \in StateExecIds : DOMAIN q.cmds[s] \subseteq DOMAIN lq[e].cmds[s]
    BY <1>7, <2>1 DEF BatchOK
  <2> QED
    BY <1>9, <2>1, <2>4, <2>5, <2>6
<1>11. ASSUME NEW s \in StateExecIds PROVE Handed(st[e][s], rows[s], GotOf(o, s))
  <2>1. PICK M, q, g : M = messages[e] /\ q = lq[e] /\ g = GotOf(o, s)
    OBVIOUS
  <2>2. BatchOK(q, o, M)
    BY <1>7, <2>1
  <2>3. /\ TypedGot(g, M) /\ \A i : i \in DOMAIN g <=> i \in DOMAIN q.cmds[s] /\ <<s, i>> \in DOMAIN o.got
        /\ s \notin {x[1] : x \in DOMAIN o.got} => \A i : <<s, i>> \notin DOMAIN o.got
    BY <2>1, <2>2, GotOfFacts
  <2>4. PICK x, y : x = row(s) /\ y = rows[s]
    OBVIOUS
  <2>5. y = IF s \in done THEN WithStatus(x, "ExecuteRunning")
            ELSE IF s \in assigned THEN WithStatus(x, st[e][s].status) ELSE st[e][s]
    BY <2>4
  <2>6. x = WithResults(st[e][s], g)
    BY <2>1, <2>4
  <2>7. TypedGot(st[e][s].queueResults, M) /\ TypedState(st[e][s])
    BY <1>0, <1>2, <2>1 DEF HoldingsOK, TypedRow
  <2>8. s \in assigned => DOMAIN g # {}
    <3> SUFFICES ASSUME s \in assigned PROVE DOMAIN g # {}
      OBVIOUS
    <3>1. PICK z \in DOMAIN o.got : z[1] = s
      OBVIOUS
    <3>2. PICK t \in StateExecIds : \E i \in DOMAIN q.cmds[t] : z = <<t, i>>
      BY <2>2, <3>1 DEF BatchOK
    <3>3. PICK i \in DOMAIN q.cmds[t] : z = <<t, i>>
      BY <3>2
    <3>4. t = s
      BY <3>1, <3>3
    <3> QED
      BY <2>3, <3>1, <3>3, <3>4
  <2>9. s \notin assigned => DOMAIN g = {} /\ s \notin done
    BY <1>4, <2>3
  <2>10. x.version = st[e][s].version /\ TypedState(x)
    <3>1. x.version = st[e][s].version
      <4>1. PICK old : old = st[e][s]
        OBVIOUS
      <4>2. TypedState(old) /\ TypedGot(old.queueResults, M) /\ TypedGot(g, M) /\ x = WithResults(old, g)
        BY <2>3, <2>6, <2>7, <4>1
      <4>3. x.version = old.version
        BY <4>2, WithResultsGot
      <4> QED
        BY <4>1, <4>3
    <3>2. TypedState(x)
      BY <2>6, <2>7, WithResultsEffect
    <3> QED
      BY <3>1, <3>2
  <2> HIDE DEF row, rows, done, assigned, e
  <2>11. Handed(st[e][s], y, g)
    <3>1. CASE s \notin assigned
      <4>1. y = st[e][s] /\ DOMAIN g = {}
        BY <2>5, <2>9, <3>1
      <4> QED
        BY <4>1 DEF Handed
    <3>2. CASE s \in assigned
      <4>1. PICK status \in {st[e][s].status, "ExecuteRunning"} : y = WithStatus(x, status)
        BY <2>5, <3>2
      <4>2. y.status = status /\ y.version > x.version /\ y.queueResults = x.queueResults
        BY <2>10, <4>1, WithStatusKeeps
      <4>3. DOMAIN g # {} /\ y.version > st[e][s].version /\ y.status \in {st[e][s].status, "ExecuteRunning"}
        BY <2>8, <2>10, <3>2, <4>1, <4>2
      <4> QED
        BY <2>6, <4>2, <4>3 DEF Handed
    <3> QED
      BY <3>1, <3>2
  <2> QED
    BY <2>1, <2>4, <2>11
<1>12. HandsOut(e, ms, o) /\ OthersKept(e)
  <2> HIDE DEF rows, done, e, ms
  <2> QED
    BY <1>6, <1>8, <1>9, <1>10, <1>11 DEF HandsOut, OthersKept
<1> QED
  BY <1>5, <1>12

(* Message m is in result i of a row. *)
HasAt(row, m, i) == i \in DOMAIN row.queueResults /\ m \in Range(row.queueResults[i])

LEMMA ResultsAdded ==
    ASSUME NEW row, TypedState(row), NEW g, DOMAIN g \cap DOMAIN row.queueResults = {},
           NEW new, new.queueResults = WithResults(row, g).queueResults, NEW m, NEW i
    PROVE  HasAt(new, m, i) <=> HasAt(row, m, i) \/ i \in Hands(g, m)
<1>1. PICK f : f = [j \in DOMAIN g \cup DOMAIN row.queueResults |->
                      IF j \in DOMAIN g THEN g[j] ELSE row.queueResults[j]]
  OBVIOUS
<1>2. WithResults(row, g) = [row EXCEPT !.queueResults = f]
  BY <1>1 DEF WithResults
<1>3. new.queueResults = f
  BY <1>2 DEF TypedState
<1>4. /\ DOMAIN f = DOMAIN g \cup DOMAIN row.queueResults
      /\ \A j \in DOMAIN g : f[j] = g[j]
      /\ \A j \in DOMAIN row.queueResults : f[j] = row.queueResults[j]
  BY <1>1
<1> QED
  BY <1>3, <1>4 DEF HasAt, Hands

(* The results of a table of rows, with those in H more. *)
HandsAdded(rows, new, m, H) ==
    /\ \A x \in H : \E s \in StateExecIds : \E i : x = <<s, i>>
    /\ \A s \in StateExecIds : \A i : HasAt(new[s], m, i) <=> HasAt(rows[s], m, i) \/ <<s, i>> \in H

LEMMA ResultsWithHands ==
    ASSUME NEW rows, NEW new, NEW m, NEW H, HandsAdded(rows, new, m, H)
    PROVE  PairPlaces(new, m) = PairPlaces(rows, m) \cup H
<1>0. /\ \A x \in H : \E s \in StateExecIds : \E i : x = <<s, i>>
      /\ \A s \in StateExecIds : \A i : HasAt(new[s], m, i) <=> HasAt(rows[s], m, i) \/ <<s, i>> \in H
  BY DEF HandsAdded
<1>1. ASSUME NEW x PROVE IsPlace(new, m, x) <=> IsPlace(rows, m, x) \/ x \in H
  <2>1. ASSUME IsPlace(new, m, x) PROVE IsPlace(rows, m, x) \/ x \in H
    BY <1>0, <2>1 DEF IsPlace, HasAt
  <2>2. ASSUME IsPlace(rows, m, x) PROVE IsPlace(new, m, x)
    BY <1>0, <2>2 DEF IsPlace, HasAt
  <2>3. ASSUME x \in H PROVE IsPlace(new, m, x)
    <3>1. PICK s \in StateExecIds : \E i : x = <<s, i>>
      BY <1>0, <2>3
    <3>2. PICK i : x = <<s, i>>
      BY <3>1
    <3>3. HasAt(new[s], m, i)
      BY <1>0, <2>3, <3>2
    <3> QED
      BY <3>2, <3>3 DEF IsPlace, HasAt
  <2> QED
    BY <2>1, <2>2, <2>3
<1>2. \A x : /\ x \in PairPlaces(new, m) <=> IsPlace(new, m, x)
             /\ x \in PairPlaces(rows, m) <=> IsPlace(rows, m, x)
  BY PairPlacesAre
<1> QED
  BY <1>1, <1>2

LEMMA LocalQueuePlaces ==
    ASSUME TablesInv, TablesInv', QueueInv, PlaceInv, NEW w \in Workers, ProcessLocalQueueMessages(w)
    PROVE  PlaceInv'
<1>1. PICK e, ms : e = worker[w].row.task.exec /\ ms = worker[w].row.task.info
  OBVIOUS
<1>2. /\ worker[w].pc = "immediate" /\ Acknowledged(w) /\ UNCHANGED <<prc, messages>>
  BY DEF ProcessLocalQueueMessages
<1>3. e \in Execs
  BY <1>1, <1>2, HeldTask
<1>4. (\E o : HandsOut(e, ms, o)) /\ OthersKept(e)
  BY <1>1, LocalQueueEffect
<1>5. PICK o : HandsOut(e, ms, o)
  BY <1>4
<1>6. UnpublishedOK'
  BY <1>2 DEF PlaceInv, UnpublishedOK
<1>7. ASSUME NEW s \in StateExecIds, DOMAIN lq[e].cmds[s] = {} PROVE DOMAIN GotOf(o, s) = {}
  <2>1. PICK M, q, g : M = messages[e] /\ q = lq[e] /\ g = GotOf(o, s)
    OBVIOUS
  <2>2. BatchOK(q, o, M)
    BY <1>5, <2>1 DEF HandsOut, BatchResult
  <2>3. \A i : i \in DOMAIN g <=> i \in DOMAIN q.cmds[s] /\ <<s, i>> \in DOMAIN o.got
    BY <2>1, <2>2, GotOfFacts
  <2> QED
    BY <1>7, <2>1, <2>3
<1>8. YoungOK'
  <2> SUFFICES ASSUME NEW x \in Execs, NEW s \in StateExecIds, st'[x][s].status \in Young
               PROVE  st'[x][s].queueResults = <<>> /\ DOMAIN lq'[x].cmds[s] = {}
    BY DEF YoungOK
  <2>1. CASE x # e
    BY <1>4, <2>1 DEF OthersKept, PlaceInv, YoungOK
  <2>2. CASE x = e
    <3>1. Handed(st[e][s], st'[e][s], GotOf(o, s)) /\ DOMAIN lq'[e].cmds[s] \subseteq DOMAIN lq[e].cmds[s]
      BY <1>5 DEF HandsOut
    <3>2. st[e][s].status \in Young
      BY <2>2, <3>1 DEF Handed, Young
    <3>3. st[e][s].queueResults = <<>> /\ DOMAIN lq[e].cmds[s] = {}
      BY <1>3, <3>2 DEF PlaceInv, YoungOK
    <3>4. st'[e][s] = st[e][s]
      BY <1>7, <3>1, <3>3 DEF Handed
    <3> QED
      BY <2>2, <3>1, <3>3, <3>4
  <2> QED
    BY <2>1, <2>2
<1>9. VersionsStep
  <2> SUFFICES ASSUME NEW x \in Execs, NEW s \in StateExecIds PROVE Moved(st[x][s], st'[x][s])
    BY DEF VersionsStep
  <2>1. CASE x # e
    BY <1>4, <2>1 DEF OthersKept, Moved
  <2>2. CASE x = e
    BY <1>5, <2>2 DEF HandsOut, Handed, Moved
  <2> QED
    BY <2>1, <2>2
<1>10. WorkersAsk
  BY <1>2, AckAsks
<1>11. AskedOK'
  BY <1>9, <1>10, AskedStays DEF PlaceInv
<1> QED
  BY <1>6, <1>8, <1>11 DEF PlaceInv

(* A transaction that deletes the task of a batch: the messages of the     *)
(* batch leave their task, and the others stay.                            *)
LEMMA BatchLeaves ==
    ASSUME NEW row \in imm, row.task.type = "NewLocalQueueMessages", Coherent(imm, row),
           MessageRows(imm') = MessageRows(Without(imm, row)), NEW x, NEW m
    PROVE  /\ ~(x = row.task.exec /\ m \in Range(row.task.info)) => TaskPlaces(x, m)' = TaskPlaces(x, m)
           /\ x = row.task.exec /\ m \in Range(row.task.info) =>
                 /\ row.seq \in TaskPlaces(x, m)
                 /\ TaskPlaces(x, m)' = TaskPlaces(x, m) \ {row.seq}
<1> DEFINE carries(q) == q.task.exec = x /\ m \in Range(q.task.info)
<1>1. TaskPlaces(x, m) = {q.seq : q \in {y \in MessageRows(imm) : carries(y)}}
  BY DEF TaskPlaces, MessageRows
<1>2. TaskPlaces(x, m)' = {q.seq : q \in {y \in MessageRows(imm') : carries(y)}}
  BY DEF TaskPlaces, MessageRows
<1>3. carries(row) <=> x = row.task.exec /\ m \in Range(row.task.info)
  OBVIOUS
<1>4. MessageRows(imm') = {r \in MessageRows(imm) : r.seq # row.seq}
  BY DEF MessageRows, Without
<1>5. \A r \in MessageRows(imm) : r.seq = row.seq => (carries(r) <=> carries(row))
  BY DEF MessageRows, Coherent
<1>6. row \in MessageRows(imm)
  BY DEF MessageRows
<1> HIDE DEF carries
<1> QED
  BY <1>1, <1>2, <1>3, <1>4, <1>5, <1>6

LEMMA LocalQueueMoves ==
    ASSUME TablesInv, WorkInv, QueueInv, QueueInv', NEW w \in Workers, ProcessLocalQueueMessages(w),
           worker[w].row \in imm, NEW x \in Execs
    PROVE  MovesOK(x)
<1>1. PICK row, e, ms : row = worker[w].row /\ e = row.task.exec /\ ms = row.task.info
  OBVIOUS
<1>2. /\ worker[w].pc = "immediate" /\ row.task.type = "NewLocalQueueMessages" /\ UNCHANGED messages
  BY <1>1 DEF ProcessLocalQueueMessages
<1>3. /\ (\E o : HandsOut(e, ms, o)) /\ OthersKept(e)
      /\ MessageRows(imm') = MessageRows(Without(imm, row))
  BY <1>1, LocalQueueEffect
<1>4. PICK o : HandsOut(e, ms, o)
  BY <1>3
<1>5. Coherent(imm, row) /\ row \in imm
  BY <1>1, <1>2 DEF WorkInv, CopiesOK, CopyOK, ImmediatePcs
<1>6. ASSUME NEW m
      PROVE  /\ ~(x = e /\ m \in Range(ms)) => TaskPlaces(x, m)' = TaskPlaces(x, m)
             /\ x = e /\ m \in Range(ms) => row.seq \in TaskPlaces(x, m)
             /\ x = e /\ m \in Range(ms) => TaskPlaces(x, m)' = TaskPlaces(x, m) \ {row.seq}
  BY <1>1, <1>2, <1>3, <1>5, BatchLeaves
<1>7. CASE x # e
  <2> SUFFICES ASSUME \A m \in messages[x] : InOnePlace(x, m), NEW m \in messages'[x]
               PROVE  InOnePlace(x, m)'
    BY DEF MovesOK
  <2>1. InOnePlace(x, m)
    BY <1>2
  <2>2. lq'[x] = lq[x] /\ st'[x] = st[x]
    BY <1>3, <1>7 DEF OthersKept
  <2>3. QueuePlaces(x, m)' = QueuePlaces(x, m) /\ ResultPlaces(x, m)' = ResultPlaces(x, m)
    BY <2>2 DEF QueuePlaces, ResultPlaces
  <2>4. TaskPlaces(x, m)' = TaskPlaces(x, m)
    BY <1>6, <1>7
  <2> QED
    BY <2>1, <2>3, <2>4 DEF InOnePlace
<1>8. CASE x = e
  <2> SUFFICES ASSUME ~AnsweredAgain(e), \A m \in messages[e] : InOnePlace(e, m), NEW m \in messages'[e]
               PROVE  InOnePlace(e, m)'
    BY <1>8 DEF MovesOK
  <2>1. m \in messages[e] /\ InOnePlace(e, m) /\ e \in Execs
    BY <1>2, <1>8
  <2>2. PICK H, M, q : H = Hands(o.got, m) /\ M = messages[e] /\ q = lq[e]
    OBVIOUS
  <2>3. BatchResult(q, ms, o, Len(ms), M) /\ BatchOK(q, o, M)
    BY <1>4, <2>2 DEF HandsOut, BatchResult
  <2>4. QueuePlaces(e, m) = Spots(q, m) /\ QueuePlaces(e, m)' = Spots(o.q, m)
    BY <1>4, <2>2 DEF HandsOut, QueuePlaces, Spots
  <2>5. m \in Range(ms) <=> \E i \in 1..Len(ms) : ms[i] = m
    <3>1. InfoIn(row.task, messages)
      BY <1>1, <1>2 DEF QueueInv, InfosOK, ImmediatePcs
    <3>2. ms \in Seq(M)
      BY <1>1, <1>2, <2>2, <3>1 DEF InfoIn
    <3>3. DOMAIN ms = 1..Len(ms)
      BY <3>2, LenProperties
    <3> QED
      BY <3>3 DEF Range
  <2>6. /\ m \notin Range(ms) /\ Spots(q, m) = {} => NotHeld(o, m)
        /\ m \notin Range(ms) /\ Single(Spots(q, m)) => HeldOnce(o, m)
        /\ m \in Range(ms) /\ Spots(q, m) = {} => HeldOnce(o, m)
    BY <2>1, <2>2, <2>3, <2>5 DEF BatchResult
  <2>7. ResultPlaces(e, m)' = ResultPlaces(e, m) \cup H
    <3>1. ASSUME NEW s \in StateExecIds, NEW i
          PROVE  HasAt(st'[e][s], m, i) <=> HasAt(st[e][s], m, i) \/ <<s, i>> \in H
      <4>1. PICK g, old, new : g = GotOf(o, s) /\ old = st[e][s] /\ new = st'[e][s]
        OBVIOUS
      <4>2. \A j : j \in DOMAIN g <=> j \in DOMAIN q.cmds[s] /\ <<s, j>> \in DOMAIN o.got
        BY <2>3, <4>1, GotOfFacts
      <4>3. \A j \in DOMAIN g : g[j] = o.got[<<s, j>>]
        BY <4>1 DEF GotOf
      <4>4. <<s, i>> \in DOMAIN o.got => i \in DOMAIN g
        <5> SUFFICES ASSUME <<s, i>> \in DOMAIN o.got PROVE i \in DOMAIN q.cmds[s]
          BY <4>2
        <5>1. PICK t \in StateExecIds : \E j \in DOMAIN q.cmds[t] : <<s, i>> = <<t, j>>
          BY <2>3 DEF BatchOK
        <5> QED
          BY <5>1
      <4>5. i \in Hands(g, m) <=> <<s, i>> \in H
        BY <2>2, <4>2, <4>3, <4>4 DEF Hands
      <4>6. Handed(old, new, g)
        BY <1>4, <4>1 DEF HandsOut
      <4>7. CASE new = old /\ DOMAIN g = {}
        <5>1. i \notin Hands(g, m)
          BY <4>7 DEF Hands
        <5> QED
          BY <4>1, <4>5, <4>7, <5>1
      <4>8. CASE new.queueResults = WithResults(old, g).queueResults
        <5>1. DOMAIN g \cap DOMAIN old.queueResults = {}
          BY <2>2, <4>1, <4>2 DEF AnsweredAgain
        <5>2. TypedState(old)
          BY <2>1, <4>1 DEF TablesInv, ExecsOK, ExecInv, ExecBase, StateTable
        <5>3. HasAt(new, m, i) <=> HasAt(old, m, i) \/ i \in Hands(g, m)
          BY <4>8, <5>1, <5>2, ResultsAdded
        <5> QED
          BY <4>1, <4>5, <5>3
      <4> QED
        BY <4>6, <4>7, <4>8 DEF Handed
    <3>2. ASSUME NEW y \in H PROVE \E s \in StateExecIds : \E i : y = <<s, i>>
      <4>1. y \in DOMAIN o.got
        BY <2>2 DEF Hands
      <4> QED
        BY <2>3, <4>1 DEF BatchOK
    <3>3. PICK rows, after : rows = st[e] /\ after = st'[e]
      OBVIOUS
    <3>4. PairPlaces(after, m) = PairPlaces(rows, m) \cup H
      <4>1. \A s \in StateExecIds : \A i : HasAt(after[s], m, i) <=> HasAt(rows[s], m, i) \/ <<s, i>> \in H
        BY <3>1, <3>3
      <4>2. HandsAdded(rows, after, m, H)
        BY <3>2, <4>1 DEF HandsAdded
      <4> QED
        BY <4>2, ResultsWithHands
    <3>5. ResultPlaces(e, m) = PairPlaces(rows, m) /\ ResultPlaces(e, m)' = PairPlaces(after, m)
      BY <3>3 DEF ResultPlaces, PairPlaces
    <3> QED
      BY <3>4, <3>5
  <2>8. Moves(TaskPlaces(e, m), QueuePlaces(e, m), TaskPlaces(e, m)', QueuePlaces(e, m)', H)
    <3>1. PICK A, B, A2, B2 : /\ A = TaskPlaces(e, m) /\ B = QueuePlaces(e, m)
                              /\ A2 = TaskPlaces(e, m)' /\ B2 = QueuePlaces(e, m)'
      OBVIOUS
    <3>2. /\ m \notin Range(ms) => A2 = A
          /\ m \in Range(ms) => A2 = A \ {row.seq} /\ row.seq \in A
      BY <1>6, <1>8, <3>1
    <3>3. B = Spots(q, m) /\ B2 = Spots(o.q, m)
      BY <2>4, <3>1
    <3>4. /\ m \notin Range(ms) /\ B = {} => B2 = {} /\ H = {}
          /\ m \notin Range(ms) /\ Single(B) => Held(B2, H)
          /\ m \in Range(ms) /\ B = {} => Held(B2, H)
      BY <2>2, <2>6, <3>3 DEF NotHeld, HeldOnce, Held
    <3>5. m \in Range(ms) => A # {} /\ (Single(A) => A2 = {})
      BY <3>2 DEF Single
    <3>6. Moves(A, B, A2, B2, H)
      BY <3>2, <3>4, <3>5 DEF Moves
    <3> QED
      BY <3>1, <3>6
  <2> QED
    BY <2>1, <2>7, <2>8, MovesOnce
<1> QED
  BY <1>7, <1>8

-----------------------------------------------------------------------------
(* The answer of the WaitUntil API hands o.got to state execution s of e.  *)
KeepsMessages(q, o, M) ==
    /\ TypedQueues(o.q, M) /\ TypedGot(o.got, M)
    /\ \A m \in M : /\ Spots(q, m) = {} => NotHeld(o, m)
                    /\ Single(Spots(q, m)) => HeldOnce(o, m)

LEMMA RegisteredKeeps ==
    ASSUME QueueInv, NEW e \in Execs, NEW s \in StateExecIds, NEW req \in CommandRequests,
           NEW o \in Registered(e, s, req)
    PROVE  KeepsMessages(lq[e], o, messages[e])
<1>1. TypedQueues(lq[e], messages[e]) /\ NothingSatisfiable(lq[e]) /\ InQueues(messages[e])
  BY DEF QueueInv, HoldingsOK, MessagesOK
<1>2. PICK q, M, commands, waitingType :
        q = lq[e] /\ M = messages[e] /\ commands = req.queues /\ waitingType = req.waitingType
  OBVIOUS
<1>3. TypedQueues(q, M) /\ NothingSatisfiable(q) /\ InQueues(M)
  BY <1>1, <1>2
<1>4. CASE req.queues = <<>>
  <2>1. o = [q |-> q, got |-> <<>>]
    BY <1>2, <1>4 DEF Registered
  <2>2. o.q = q /\ o.got = <<>>
    BY <2>1
  <2>3. TypedGot(o.got, M)
    BY <2>2, NothingGot
  <2>4. \A m : Hands(o.got, m) = {}
    BY <2>2 DEF Hands
  <2> QED
    BY <1>2, <1>3, <2>2, <2>3, <2>4 DEF KeepsMessages, NotHeld, HeldOnce
<1>5. CASE req.queues # <<>>
  <2>1. commands \in Seq([queue : Queues, count : Nat])
    BY <1>2, CommandAssumption
  <2>2. o \in TryConsumeForStateExecution(AddNewLocalQueueCommands(q, s, commands), s, waitingType)
    BY <1>2, <1>5 DEF Registered
  <2>3. RegisterResult(q, s, commands, waitingType, o, M)
    BY <1>3, <2>1, <2>2, TryConsumeFacts
  <2> QED
    BY <1>2, <2>3 DEF RegisterResult, KeepsMessages
<1> QED
  BY <1>4, <1>5

Answers(e, s, o) ==
    /\ KeepsMessages(lq[e], o, messages[e])
    /\ lq'[e].msgs = o.q.msgs
    /\ OthersCommands(e, s, lq'[e])
    /\ \A x \in Execs \ {e} : lq'[x] = lq[x]
    /\ RowSet(e, s, st'[e][s])
    /\ st'[e][s].status \notin Young
    /\ st'[e][s].version > st[e][s].version
    /\ st'[e][s].queueResults = WithResults(st[e][s], o.got).queueResults

LEMMA UpdateWaitUntilEffect ==
    ASSUME TablesInv, WorkInv, QueueInv, NEW w \in Workers, UpdateWaitUntil(w)
    PROVE  TasksMove /\ \E o : Answers(worker[w].row.task.exec, worker[w].row.task.sid, o)
<1> DEFINE e == worker[w].row.task.exec
           s == worker[w].row.task.sid
<1>0. QueuesOK /\ InfosOK /\ MessagesOK /\ HoldingsOK
  BY DEF TablesInv, QueueInv
<1>1. worker[w].pc = "waitUntil"
  BY DEF UpdateWaitUntil
<1>2. e \in Execs /\ s \in StateExecIds /\ TypedState(st[e][s]) /\ prc[e].status # "None"
  BY <1>1, PreparedState
<1>p. PICK req \in CommandRequests \ {EmptyCommand}, ms \in Publications :
        \E o \in Registered(e, s, req) :
          LET row  == WithResults([st[e][s] EXCEPT !.command = req], o.got)
              done == req.queues # <<>> /\ HasCompletedWaitUntilWaiting(row)
          IN  /\ st' = [st EXCEPT ![e][s] =
                          WithStatus(row, IF done THEN "ExecuteRunning" ELSE "WaitUntilWaiting")]
              /\ lq' = [lq EXCEPT ![e] = IF done THEN CleanupFor(o.q, s) ELSE o.q]
              /\ WriteTimers({Task("TimerCommand", e, s, i) : i \in 1..req.timers}, tim)
              /\ Publish(e, ms)
              /\ WriteImmediate((IF done THEN {ExecuteTask(e, s)} ELSE {}) \cup PublishTasks(e, ms),
                                Without(imm, worker[w].row))
  BY DEF UpdateWaitUntil
<1>3. PICK o \in Registered(e, s, req) :
        LET row  == WithResults([st[e][s] EXCEPT !.command = req], o.got)
            done == req.queues # <<>> /\ HasCompletedWaitUntilWaiting(row)
        IN  /\ st' = [st EXCEPT ![e][s] =
                        WithStatus(row, IF done THEN "ExecuteRunning" ELSE "WaitUntilWaiting")]
            /\ lq' = [lq EXCEPT ![e] = IF done THEN CleanupFor(o.q, s) ELSE o.q]
            /\ WriteTimers({Task("TimerCommand", e, s, i) : i \in 1..req.timers}, tim)
            /\ Publish(e, ms)
            /\ WriteImmediate((IF done THEN {ExecuteTask(e, s)} ELSE {}) \cup PublishTasks(e, ms),
                              Without(imm, worker[w].row))
  BY <1>p
<1> DEFINE asked == [st[e][s] EXCEPT !.command = req]
           row == WithResults(asked, o.got)
           done == req.queues # <<>> /\ HasCompletedWaitUntilWaiting(row)
           x == WithStatus(row, IF done THEN "ExecuteRunning" ELSE "WaitUntilWaiting")
           q == IF done THEN CleanupFor(o.q, s) ELSE o.q
           execute == IF done THEN {ExecuteTask(e, s)} ELSE {}
<1>4. PICK new : new = execute \cup PublishTasks(e, ms)
  OBVIOUS
<1>5. /\ st' = [st EXCEPT ![e][s] = x] /\ lq' = [lq EXCEPT ![e] = q] /\ Publish(e, ms)
      /\ WriteImmediate(new, Without(imm, worker[w].row))
  BY <1>3, <1>4
<1>6. PICK status \in {"ExecuteRunning", "WaitUntilWaiting"} : x = WithStatus(row, status)
  OBVIOUS
<1>7. /\ TypedState(asked) /\ asked.version = st[e][s].version /\ asked.queueResults = st[e][s].queueResults
  BY <1>2 DEF TypedState
<1>8. row = WithResults(asked, o.got)
  OBVIOUS
<1> HIDE DEF e, s, asked, row, done, x, q, execute
<1>9. TasksMove
  <2>1. IsFiniteSet(execute)
    BY FS_EmptySet, FS_Singleton DEF execute
  <2>2. IsFiniteSet(new)
    BY <1>4, <2>1, PublishTasksFinite, FS_Union
  <2>3. \A t \in execute : t.type # "NewLocalQueueMessages"
    BY OtherTypes DEF execute
  <2>4. /\ PublishTasks(e, ms) \subseteq new
        /\ \A t \in new : t.type = "NewLocalQueueMessages" => t \in PublishTasks(e, ms)
    BY <1>4, <2>3
  <2>5. PICK kept : kept = Without(imm, worker[w].row)
    OBVIOUS
  <2>6. MessageRows(kept) = MessageRows(imm)
    BY <1>1, <2>5, PreparedRowKept
  <2>7. WriteImmediate(new, kept)
    BY <1>5, <2>5
  <2> QED
    BY <1>0, <1>2, <1>5, <2>2, <2>4, <2>6, <2>7, TasksPublished
<1>10. KeepsMessages(lq[e], o, messages[e])
  BY <1>2, RegisteredKeeps
<1>11. q.msgs = o.q.msgs /\ OthersCommands(e, s, q)
  <2>1. PICK r, M : r = o.q /\ M = messages[e]
    OBVIOUS
  <2>2. Registration(e, s, req, o, messages[e])
    BY <1>2, RegisteredFacts
  <2>3. TypedQueues(r, M) /\ OthersCommands(e, s, r)
    BY <2>1, <2>2 DEF Registration
  <2>4. CleanFacts(r, s, CleanupFor(r, s), M)
    BY <1>2, <2>3, CleanupFacts
  <2>5. q = r \/ q = CleanupFor(r, s)
    BY <2>1 DEF q
  <2> QED
    BY <2>1, <2>3, <2>4, <2>5 DEF CleanFacts, OthersCommands
<1>12. lq'[e] = q /\ \A y \in Execs \ {e} : lq'[y] = lq[y]
  BY <1>0, <1>2, <1>5 DEF HoldingsOK
<1>13. RowSet(e, s, x)
  BY <1>2, <1>5, OneRow
<1>14. st'[e][s] = x
  BY <1>13 DEF RowSet
<1>15. /\ TypedState(row) /\ row.version = st[e][s].version
       /\ row.queueResults = WithResults(st[e][s], o.got).queueResults
  <2>1. PICK old, ask, g : old = st[e][s] /\ ask = asked /\ g = o.got
    OBVIOUS
  <2>2. TypedState(old) /\ TypedState(ask) /\ ask.version = old.version /\ ask.queueResults = old.queueResults
    BY <1>2, <1>7, <2>1
  <2>3. PICK f : f = [i \in DOMAIN g \cup DOMAIN old.queueResults |->
                        IF i \in DOMAIN g THEN g[i] ELSE old.queueResults[i]]
    OBVIOUS
  <2>4. WithResults(old, g) = [old EXCEPT !.queueResults = f] /\ WithResults(ask, g) = [ask EXCEPT !.queueResults = f]
    BY <2>2, <2>3 DEF WithResults
  <2>5. TypedState(WithResults(ask, g))
    BY <2>2, WithResultsEffect
  <2>6. /\ WithResults(ask, g).version = old.version
        /\ WithResults(ask, g).queueResults = WithResults(old, g).queueResults
    BY <2>2, <2>4 DEF TypedState
  <2> QED
    BY <1>8, <2>1, <2>5, <2>6
<1>16. x.status = status /\ x.version > row.version /\ x.queueResults = row.queueResults
  BY <1>6, <1>15, WithStatusKeeps
<1>17. x.status \notin Young
  BY <1>6, <1>16 DEF Young
<1>18. Answers(e, s, o)
  <2>1. lq'[e].msgs = o.q.msgs /\ OthersCommands(e, s, lq'[e])
    BY <1>11, <1>12
  <2>2. RowSet(e, s, st'[e][s])
    BY <1>13, <1>14
  <2>3. /\ st'[e][s].status \notin Young /\ st'[e][s].version > st[e][s].version
        /\ st'[e][s].queueResults = WithResults(st[e][s], o.got).queueResults
    BY <1>14, <1>15, <1>16, <1>17
  <2> QED
    BY <1>10, <1>12, <2>1, <2>2, <2>3 DEF Answers
<1> QED
  BY <1>9, <1>18 DEF e, s

LEMMA UpdateWaitUntilPlaces ==
    ASSUME TablesInv, TablesInv', WorkInv, QueueInv, PlaceInv, ExecsStep, NEW w \in Workers, UpdateWaitUntil(w)
    PROVE  PlaceInv'
<1>1. PICK e, s : e = worker[w].row.task.exec /\ s = worker[w].row.task.sid
  OBVIOUS
<1>2. worker[w].pc = "waitUntil" /\ Acknowledged(w)
  BY DEF UpdateWaitUntil
<1>3. e \in Execs /\ s \in StateExecIds
  BY <1>1, <1>2, PreparedState
<1>4. TasksMove /\ \E o : Answers(e, s, o)
  BY <1>1, UpdateWaitUntilEffect
<1>5. PICK o : Answers(e, s, o)
  BY <1>4
<1>6. RowSet(e, s, st'[e][s]) /\ st'[e][s].status \notin Young /\ st'[e][s].version > st[e][s].version
  BY <1>5 DEF Answers
<1>7. UnpublishedOK'
  BY <1>4, UnpublishedStays DEF PlaceInv
<1>8. YoungOK'
  <2> SUFFICES ASSUME NEW x \in Execs, NEW z \in StateExecIds, st'[x][z].status \in Young
               PROVE  st'[x][z].queueResults = <<>> /\ DOMAIN lq'[x].cmds[z] = {}
    BY DEF YoungOK
  <2>1. ~(x = e /\ z = s)
    BY <1>6
  <2>2. st'[x][z] = st[x][z]
    BY <1>6, <2>1 DEF RowSet
  <2>3. lq'[x].cmds[z] = lq[x].cmds[z]
    BY <1>5, <2>1 DEF Answers, OthersCommands
  <2> QED
    BY <2>2, <2>3 DEF PlaceInv, YoungOK
<1>9. VersionsStep
  <2> SUFFICES ASSUME NEW x \in Execs, NEW z \in StateExecIds PROVE Moved(st[x][z], st'[x][z])
    BY DEF VersionsStep
  <2>1. CASE x = e /\ z = s
    BY <1>6, <2>1 DEF Moved
  <2>2. CASE ~(x = e /\ z = s)
    BY <1>6, <2>2 DEF RowSet, Moved
  <2> QED
    BY <2>1, <2>2
<1>10. WorkersAsk
  BY <1>2, AckAsks
<1>11. AskedOK'
  BY <1>9, <1>10, AskedStays DEF PlaceInv
<1> QED
  BY <1>7, <1>8, <1>11 DEF PlaceInv

(* The first answer finds no results, and each message it hands over goes  *)
(* from its queue to one of them.                                          *)
LEMMA UpdateWaitUntilMoves ==
    ASSUME TablesInv, WorkInv, QueueInv, QueueInv', PlaceInv, NEW w \in Workers, UpdateWaitUntil(w),
           NotModified(w), NEW y \in Execs
    PROVE  MovesOK(y)
<1>1. PICK e, s : e = worker[w].row.task.exec /\ s = worker[w].row.task.sid
  OBVIOUS
<1>2. worker[w].pc = "waitUntil"
  BY DEF UpdateWaitUntil
<1>3. e \in Execs /\ s \in StateExecIds /\ TypedState(st[e][s])
  BY <1>1, <1>2, PreparedState
<1>4. TasksMove /\ \E o : Answers(e, s, o)
  BY <1>1, UpdateWaitUntilEffect
<1>5. PICK o : Answers(e, s, o)
  BY <1>4
<1>6. st[e][s].queueResults = <<>>
  <2>1. Asked(worker[w], st)
    BY DEF PlaceInv, AskedOK
  <2>2. st[e][s].status = "WaitUntilRunning"
    BY <1>1, <1>2, <2>1 DEF Asked, NotModified
  <2> QED
    BY <1>3, <2>2 DEF PlaceInv, YoungOK, Young
<1>7. CASE y # e
  <2>1. lq'[y].msgs = lq[y].msgs
    BY <1>5, <1>7 DEF Answers
  <2>2. \A z \in StateExecIds : st'[y][z].queueResults = st[y][z].queueResults
    BY <1>5, <1>7 DEF Answers, RowSet
  <2> QED
    BY <1>4, <2>1, <2>2, UntouchedMoves
<1>8. CASE y = e
  <2> SUFFICES ASSUME \A m \in messages[e] : InOnePlace(e, m), NEW m \in messages'[e]
               PROVE  InOnePlace(e, m)'
    BY <1>8 DEF MovesOK
  <2>1. PICK g, q, M : g = o.got /\ q = o.q /\ M = messages[e]
    OBVIOUS
  <2>2. /\ TypedQueues(q, M) /\ TypedGot(g, M)
        /\ \A n \in M : /\ Spots(lq[e], n) = {} => NotHeld(o, n)
                        /\ Single(Spots(lq[e], n)) => HeldOnce(o, n)
    BY <1>5, <2>1 DEF Answers, KeepsMessages
  <2>3. QueuePlaces(e, m) = Spots(lq[e], m) /\ QueuePlaces(e, m)' = Spots(q, m)
    BY <1>5, <2>1 DEF Answers, QueuePlaces, Spots
  <2>4. PICK H : H = {<<s, i>> : i \in Hands(g, m)}
    OBVIOUS
  <2>5. ResultPlaces(e, m)' = ResultPlaces(e, m) \cup H
    <3>1. PICK rows, after : rows = st[e] /\ after = st'[e]
      OBVIOUS
    <3>2. ASSUME NEW z \in StateExecIds, NEW i
          PROVE  HasAt(after[z], m, i) <=> HasAt(rows[z], m, i) \/ <<z, i>> \in H
      <4>1. CASE z # s
        <5>1. after[z] = rows[z]
          BY <1>3, <1>5, <3>1, <4>1 DEF Answers, RowSet
        <5>2. <<z, i>> \notin H
          BY <2>4, <4>1
        <5> QED
          BY <5>1, <5>2
      <4>2. CASE z = s
        <5>1. PICK old, new : old = st[e][s] /\ new = st'[e][s]
          OBVIOUS
        <5>2. TypedState(old) /\ new.queueResults = WithResults(old, g).queueResults
          BY <1>3, <1>5, <2>1, <5>1 DEF Answers
        <5>3. DOMAIN g \cap DOMAIN old.queueResults = {}
          BY <1>6, <5>1
        <5>4. HasAt(new, m, i) <=> HasAt(old, m, i) \/ i \in Hands(g, m)
          BY <5>2, <5>3, ResultsAdded
        <5>5. <<s, i>> \in H <=> i \in Hands(g, m)
          BY <2>4
        <5> QED
          BY <3>1, <4>2, <5>1, <5>4, <5>5
      <4> QED
        BY <4>1, <4>2
    <3>3. \A x \in H : \E z \in StateExecIds : \E i : x = <<z, i>>
      BY <1>3, <2>4
    <3>4. HandsAdded(rows, after, m, H)
      BY <3>2, <3>3 DEF HandsAdded
    <3>5. PairPlaces(after, m) = PairPlaces(rows, m) \cup H
      BY <3>4, ResultsWithHands
    <3>6. ResultPlaces(e, m) = PairPlaces(rows, m) /\ ResultPlaces(e, m)' = PairPlaces(after, m)
      BY <3>1 DEF ResultPlaces, PairPlaces
    <3> QED
      BY <3>5, <3>6
  <2>6. CASE m \in messages[e] /\ TaskPlaces(e, m)' = TaskPlaces(e, m)
    <3>1. PICK A, B, A2, B2 : /\ A = TaskPlaces(e, m) /\ B = QueuePlaces(e, m)
                              /\ A2 = TaskPlaces(e, m)' /\ B2 = QueuePlaces(e, m)'
      OBVIOUS
    <3>2. A2 = A /\ B = Spots(lq[e], m) /\ B2 = Spots(o.q, m)
      BY <2>1, <2>3, <2>6, <3>1
    <3>3. /\ B = {} => B2 = {} /\ Hands(g, m) = {}
          /\ Single(B) => (Single(B2) /\ Hands(g, m) = {}) \/ (B2 = {} /\ Single(Hands(g, m)))
      BY <2>1, <2>2, <2>6, <3>2 DEF NotHeld, HeldOnce
    <3>4. (Hands(g, m) = {} => H = {}) /\ (Single(Hands(g, m)) => Single(H))
      <4>1. ASSUME NEW i, Hands(g, m) = {i} PROVE H = {<<s, i>>}
        BY <2>4, <4>1
      <4> QED
        BY <2>4, <4>1 DEF Single
    <3>5. Moves(A, B, A2, B2, H)
      BY <3>2, <3>3, <3>4 DEF Moves, Held
    <3>6. Moves(TaskPlaces(e, m), QueuePlaces(e, m), TaskPlaces(e, m)', QueuePlaces(e, m)', H)
      BY <3>1, <3>5
    <3>7. m \in messages[e] /\ InOnePlace(e, m)
      BY <2>6
    <3> QED
      BY <1>3, <2>5, <3>6, <3>7, MovesOnce
  <2>7. CASE m \notin messages[e] /\ Single(TaskPlaces(e, m)')
    <3>1. m.queue \in Queues
      BY <1>3 DEF QueueInv, MessagesOK, InQueues
    <3>2. ResultPlaces(e, m) = {}
      BY <1>3, <2>7, <3>1, UnknownNowhere
    <3>3. H = {}
      <4>1. ASSUME NEW i \in DOMAIN g PROVE m \notin Range(g[i])
        <5>1. PICK c : c = g[i]
          OBVIOUS
        <5>2. c \in Seq(M)
          BY <2>2, <5>1 DEF TypedGot
        <5>3. \A k \in DOMAIN c : c[k] \in M
          BY <5>2, LenProperties, ElementOfSeq
        <5> QED
          BY <2>1, <2>7, <5>1, <5>3 DEF Range
      <4> QED
        BY <2>4, <4>1 DEF Hands
    <3>4. Spots(q, m) = {}
      <4>1. PICK b : b = q.msgs[m.queue]
        OBVIOUS
      <4>2. b \in Seq(M)
        BY <2>2, <3>1, <4>1 DEF TypedQueues, TypedMessages
      <4>3. \A k \in DOMAIN b : b[k] \in M
        BY <4>2, LenProperties, ElementOfSeq
      <4> QED
        BY <2>1, <2>7, <4>1, <4>3 DEF Spots
    <3>5. PICK A, B, C : A = TaskPlaces(e, m)' /\ B = QueuePlaces(e, m)' /\ C = ResultPlaces(e, m)'
      OBVIOUS
    <3>6. Single(A) /\ B = {} /\ C = {}
      BY <2>3, <2>5, <2>7, <3>2, <3>3, <3>4, <3>5
    <3>7. Cardinality(A) + Cardinality(B) + Cardinality(C) = 1
      BY <3>6, ThreeCount
    <3> QED
      BY <3>5, <3>7 DEF InOnePlace
  <2> QED
    BY <1>3, <1>4, <2>6, <2>7 DEF TasksMove
<1> QED
  BY <1>7, <1>8

-----------------------------------------------------------------------------
LEMMA InitPlaces == Init => PlaceInv
<1> SUFFICES ASSUME Init PROVE PlaceInv
  OBVIOUS
<1>1. \A w \in Workers : worker[w].pc = "idle"
  BY DEF Init, Idle
<1>2. UnpublishedOK
  BY DEF Init, UnpublishedOK
<1>3. \A e \in Execs : \A s \in StateExecIds : st[e][s].queueResults = <<>>
  BY DEF Init, NoRow
<1>4. \A e \in Execs : \A s \in StateExecIds : DOMAIN lq[e].cmds[s] = {}
  <2>1. PICK q : q = NewLocalQueues(StateExecIds, Queues)
    OBVIOUS
  <2>2. \A s \in StateExecIds : DOMAIN q.cmds[s] = {}
    BY <2>1, NewQueuesTyped
  <2>3. \A e \in Execs : lq[e] = q
    BY <2>1 DEF Init
  <2> QED
    BY <2>2, <2>3
<1> QED
  BY <1>1, <1>2, <1>3, <1>4 DEF PlaceInv, YoungOK, AskedOK, Asked

(* What a step shows: the invariant, and no message lost or doubled but by *)
(* a transaction that is repeated.                                         *)
Placed == PlaceInv' /\ ((\E w \in Workers : Repeats(w)) \/ \A e \in Execs : MovesOK(e))

LEMMA CalmPlaced ==
    ASSUME TablesInv, TablesInv', QueueInv, QueueInv', PlaceInv, ExecsStep, CalmStep
    PROVE  Placed
<1>1. RowsCalm /\ TasksMove /\ QueuesCalm /\ WorkersAsk
  BY DEF CalmStep
<1> QED
  BY <1>1, CalmMoves DEF Placed

LEMMA NextPlaces == TablesInv /\ WorkInv /\ QueueInv /\ PlaceInv /\ [Next]_vars => Placed
<1> SUFFICES ASSUME TablesInv, WorkInv, QueueInv, PlaceInv, [Next]_vars PROVE Placed
  OBVIOUS
<1>0. TablesInv' /\ ExecsStep /\ QueueInv'
  BY NextPreserves, NextQueue
<1>1. ASSUME NEW p \in ProcessIds, NEW policy \in StartPolicies, NEW start \in StartStates,
             NEW hasTimeout \in StartTimeouts, StartProcess(p, policy, start, hasTimeout)
      PROVE  CalmStep
  BY <1>1, StartCalm
<1>2. ASSUME NEW c \in Clients, ClientStep(c)
      PROVE  CalmStep
  BY <1>2, ClientCalm, RpcCalm DEF ClientStep
<1>3. ASSUME NEW w \in Workers, ImmediateStep(w)
      PROVE  CalmStep \/ UpdateWaitUntil(w) \/ ProcessLocalQueueMessages(w)
  BY <1>3, QuietWorkersCalm, CompleteWaitUntilCalm, CompleteExecuteCalm DEF ImmediateStep
<1>4. ASSUME NEW w \in Workers, FailureStep(w)
      PROVE  CalmStep
  BY <1>4, QuietWorkersCalm, BackoffCalm, WorkerStopsCalm, RecoverCalm DEF FailureStep
<1>5. ASSUME NEW w \in Workers, TimerStep(w)
      PROVE  CalmStep
  BY <1>5, QuietWorkersCalm, TimerConversionsCalm, TimerCommandCalm, WorkerStopsCalm DEF TimerStep
<1>6. CASE UNCHANGED vars
  <2>1. UNCHANGED <<lq, st, messages, imm, worker>>
    BY <1>6 DEF vars
  <2>2. TasksMove
    BY <2>1, TasksUnmoved
  <2> QED
    BY <1>0, <2>1, <2>2, SameRowsCalm, SameQueuesCalm, SameWorkersAsk, CalmPlaced DEF CalmStep
<1>7. ASSUME NEW w \in Workers, UpdateWaitUntil(w)
      PROVE  Placed
  <2>1. PlaceInv'
    BY <1>0, <1>7, UpdateWaitUntilPlaces
  <2>2. Repeats(w) \/ NotModified(w)
    BY <1>7 DEF Repeats
  <2>3. ASSUME NotModified(w) PROVE \A e \in Execs : MovesOK(e)
    BY <1>0, <1>7, <2>3, UpdateWaitUntilMoves
  <2> QED
    BY <2>1, <2>2, <2>3 DEF Placed
<1>8. ASSUME NEW w \in Workers, ProcessLocalQueueMessages(w)
      PROVE  Placed
  <2>1. PlaceInv'
    BY <1>0, <1>8, LocalQueuePlaces
  <2>2. Repeats(w) \/ worker[w].row \in imm
    BY <1>8 DEF Repeats
  <2>3. ASSUME worker[w].row \in imm PROVE \A e \in Execs : MovesOK(e)
    BY <1>0, <1>8, <2>3, LocalQueueMoves
  <2> QED
    BY <2>1, <2>2, <2>3 DEF Placed
<1>9. CalmStep => Placed
  BY <1>0, CalmPlaced
<1> QED
  BY <1>1, <1>2, <1>3, <1>4, <1>5, <1>6, <1>7, <1>8, <1>9 DEF Next

(* In every reachable state a state execution whose WaitUntil API has not  *)
(* been answered has neither results nor commands, a worker whose row is   *)
(* still current asks for such a one, and nothing is published to an       *)
(* execution that has not started.                                         *)
THEOREM PlaceInvariant == Spec => [](TablesInv /\ WorkInv /\ QueueInv /\ PlaceInv)
<1>1. Init => PlaceInv
  BY InitPlaces
<1>2. TablesInv /\ WorkInv /\ QueueInv /\ PlaceInv /\ [Next]_vars => PlaceInv'
  BY NextPlaces DEF Placed
<1> QED
  BY <1>1, <1>2, QueueInvariant, PTL DEF Spec

(* No step but a repeated transaction takes a message out of its one       *)
(* place, or puts a new one elsewhere: a task, the unconsumed messages of  *)
(* its queue or one result of one state execution.                         *)
THEOREM MessagesStayInOnePlace == Spec => MessageInOnePlace
<1>1. TablesInv /\ WorkInv /\ QueueInv /\ PlaceInv /\ [Next]_vars =>
        [\A e \in Execs :
            \/ \A m \in messages'[e] : InOnePlace(e, m)'
            \/ \E m \in messages[e] : ~InOnePlace(e, m)
            \/ AnsweredAgain(e)
            \/ \E w \in Workers : Repeats(w)]_<<messages, imm, lq, st>>
  BY NextPlaces DEF Placed, MovesOK
<1> QED
  BY <1>1, PlaceInvariant, PTL DEF Spec, MessageInOnePlace
=============================================================================
