-------------------------- MODULE LocalQueueProofs --------------------------
(***************************************************************************)
(* Theorems about the local queues of ProcessStore: what LocalQueues       *)
(* computes, and where commands and messages are, for every set of process *)
(* ids, executions, state ids, queues, requests, publications, clients and *)
(* workers, and every bound.                                               *)
(***************************************************************************)
EXTENDS ProcessStoreProofs, SequenceTheorems

-----------------------------------------------------------------------------
(***************************************************************************)
(* The recursive functions of the model exist: they are built up to the    *)
(* first index where they would not.                                       *)
(***************************************************************************)

(* The messages of a publication that are not known yet. *)
FreshStep(known, ms, f, i) ==
    IF i = 0 THEN <<>>
    ELSE IF \E x \in known \cup Range(f[i - 1]) : x.id = ms[i].id
    THEN f[i - 1] ELSE Append(f[i - 1], ms[i])

IsFresh(known, ms, f, n) == f = [i \in 0..n |-> FreshStep(known, ms, f, i)]

LEMMA FreshExists ==
    ASSUME NEW known, NEW ms, NEW last \in Nat
    PROVE  \E f : IsFresh(known, ms, f, last)
<1> DEFINE Bad == {n \in Nat : ~ \E f : IsFresh(known, ms, f, n)}
<1>1. Bad = {}
  <2> SUFFICES ASSUME Bad # {} PROVE FALSE
    OBVIOUS
  <2>1. PICK n \in Bad : \A m \in Bad : n <= m
    BY NatHasLeast
  <2>2. n \in Nat /\ ~ \E f : IsFresh(known, ms, f, n)
    OBVIOUS
  <2>3. n # 0
    <3>1. IsFresh(known, ms, [i \in 0..0 |-> <<>>], 0)
      BY DEF IsFresh, FreshStep
    <3> QED
      BY <3>1, <2>2
  <2>4. n - 1 \in Nat /\ n - 1 \notin Bad
    BY <2>1, <2>2, <2>3
  <2>5. PICK f : IsFresh(known, ms, f, n - 1)
    BY <2>4
  <2> DEFINE g == [i \in 0..n |-> IF i = n THEN FreshStep(known, ms, f, n) ELSE f[i]]
  <2>6. ASSUME NEW i \in 0..n PROVE g[i] = FreshStep(known, ms, g, i)
    <3>1. CASE i = n
      <4>1. g[n - 1] = f[n - 1] /\ g[n] = FreshStep(known, ms, f, n)
        BY <2>2, <2>3
      <4> HIDE DEF g
      <4> QED
        BY <3>1, <4>1, <2>3 DEF FreshStep
    <3>2. CASE i # n
      <4>1. i \in 0..(n - 1) /\ g[i] = f[i]
        BY <3>2, <2>2
      <4>2. f[i] = FreshStep(known, ms, f, i)
        BY <4>1, <2>5 DEF IsFresh
      <4>3. i # 0 => i - 1 \in 0..n /\ i - 1 # n /\ g[i - 1] = f[i - 1]
        BY <2>2
      <4> HIDE DEF g
      <4> QED
        BY <4>1, <4>2, <4>3 DEF FreshStep
    <3> QED
      BY <3>1, <3>2
  <2>7. IsFresh(known, ms, g, n)
    BY <2>6 DEF IsFresh
  <2> QED
    BY <2>7, <2>2
<1> QED
  BY <1>1

(* The outcomes of a batch of messages. *)
BatchStep(q, ms, f, i) ==
    IF i = 0 THEN {[q |-> q, got |-> <<>>]}
    ELSE UNION {AddMessageAndTryConsume(o, ms[i]) : o \in f[i - 1]}

IsBatch(q, ms, f, n) == f = [i \in 0..n |-> BatchStep(q, ms, f, i)]

LEMMA BatchExists ==
    ASSUME NEW q, NEW ms, NEW last \in Nat
    PROVE  \E f : IsBatch(q, ms, f, last)
<1> DEFINE Bad == {n \in Nat : ~ \E f : IsBatch(q, ms, f, n)}
<1>1. Bad = {}
  <2> SUFFICES ASSUME Bad # {} PROVE FALSE
    OBVIOUS
  <2>1. PICK n \in Bad : \A m \in Bad : n <= m
    BY NatHasLeast
  <2>2. n \in Nat /\ ~ \E f : IsBatch(q, ms, f, n)
    OBVIOUS
  <2>3. n # 0
    <3>1. IsBatch(q, ms, [i \in 0..0 |-> {[q |-> q, got |-> <<>>]}], 0)
      BY DEF IsBatch, BatchStep
    <3> QED
      BY <3>1, <2>2
  <2>4. n - 1 \in Nat /\ n - 1 \notin Bad
    BY <2>1, <2>2, <2>3
  <2>5. PICK f : IsBatch(q, ms, f, n - 1)
    BY <2>4
  <2> DEFINE g == [i \in 0..n |-> IF i = n THEN BatchStep(q, ms, f, n) ELSE f[i]]
  <2>6. ASSUME NEW i \in 0..n PROVE g[i] = BatchStep(q, ms, g, i)
    <3>1. CASE i = n
      <4>1. g[n - 1] = f[n - 1] /\ g[n] = BatchStep(q, ms, f, n)
        BY <2>2, <2>3
      <4> HIDE DEF g
      <4> QED
        BY <3>1, <4>1, <2>3 DEF BatchStep
    <3>2. CASE i # n
      <4>1. i \in 0..(n - 1) /\ g[i] = f[i]
        BY <3>2, <2>2
      <4>2. f[i] = BatchStep(q, ms, f, i)
        BY <4>1, <2>5 DEF IsBatch
      <4>3. i # 0 => i - 1 \in 0..n /\ i - 1 # n /\ g[i - 1] = f[i - 1]
        BY <2>2
      <4> HIDE DEF g
      <4> QED
        BY <4>1, <4>2, <4>3 DEF BatchStep
    <3> QED
      BY <3>1, <3>2
  <2>7. IsBatch(q, ms, g, n)
    BY <2>6 DEF IsBatch
  <2> QED
    BY <2>7, <2>2
<1> QED
  BY <1>1

(* A walk over the commands of a state execution. *)
WalkStep(q, s, waitingType, w, f, i) ==
    IF i = 0 THEN [q |-> q, got |-> <<>>]
    ELSE TryConsumeOne(f[i - 1], s, w[i], waitingType)

IsWalk(q, s, waitingType, w, f, n) == f = [i \in 0..n |-> WalkStep(q, s, waitingType, w, f, i)]

LEMMA WalkExists ==
    ASSUME NEW q, NEW s, NEW waitingType, NEW w, NEW last \in Nat
    PROVE  \E f : IsWalk(q, s, waitingType, w, f, last)
<1> DEFINE Bad == {n \in Nat : ~ \E f : IsWalk(q, s, waitingType, w, f, n)}
<1>1. Bad = {}
  <2> SUFFICES ASSUME Bad # {} PROVE FALSE
    OBVIOUS
  <2>1. PICK n \in Bad : \A m \in Bad : n <= m
    BY NatHasLeast
  <2>2. n \in Nat /\ ~ \E f : IsWalk(q, s, waitingType, w, f, n)
    OBVIOUS
  <2>3. n # 0
    <3>1. IsWalk(q, s, waitingType, w, [i \in 0..0 |-> [q |-> q, got |-> <<>>]], 0)
      BY DEF IsWalk, WalkStep
    <3> QED
      BY <3>1, <2>2
  <2>4. n - 1 \in Nat /\ n - 1 \notin Bad
    BY <2>1, <2>2, <2>3
  <2>5. PICK f : IsWalk(q, s, waitingType, w, f, n - 1)
    BY <2>4
  <2> DEFINE g == [i \in 0..n |-> IF i = n THEN WalkStep(q, s, waitingType, w, f, n) ELSE f[i]]
  <2>6. ASSUME NEW i \in 0..n PROVE g[i] = WalkStep(q, s, waitingType, w, g, i)
    <3>1. CASE i = n
      <4>1. g[n - 1] = f[n - 1] /\ g[n] = WalkStep(q, s, waitingType, w, f, n)
        BY <2>2, <2>3
      <4> HIDE DEF g
      <4> QED
        BY <3>1, <4>1, <2>3 DEF WalkStep
    <3>2. CASE i # n
      <4>1. i \in 0..(n - 1) /\ g[i] = f[i]
        BY <3>2, <2>2
      <4>2. f[i] = WalkStep(q, s, waitingType, w, f, i)
        BY <4>1, <2>5 DEF IsWalk
      <4>3. i # 0 => i - 1 \in 0..n /\ i - 1 # n /\ g[i - 1] = f[i - 1]
        BY <2>2
      <4> HIDE DEF g
      <4> QED
        BY <4>1, <4>2, <4>3 DEF WalkStep
    <3> QED
      BY <3>1, <3>2
  <2>7. IsWalk(q, s, waitingType, w, g, n)
    BY <2>6 DEF IsWalk
  <2> QED
    BY <2>7, <2>2
<1> QED
  BY <1>1
-----------------------------------------------------------------------------
(***************************************************************************)
(* The local queues of one execution, when M are the messages published to *)
(* it.  A message knows its queue.                                         *)
(***************************************************************************)
InQueues(M) == \A m \in M : m.queue \in Queues

TypedCommands(c) ==
    /\ c = [i \in DOMAIN c |-> c[i]]
    /\ IsFiniteSet(DOMAIN c)
    /\ \A i \in DOMAIN c : c[i].queue \in Queues /\ c[i].count \in Nat /\ c[i].count > 0

TypedMessages(n, b, M) == b \in Seq(M) /\ \A i \in DOMAIN b : b[i].queue = n

TypedQueues(q, M) ==
    /\ q = [cmds |-> q.cmds, msgs |-> q.msgs]
    /\ q.cmds = [s \in StateExecIds |-> q.cmds[s]]
    /\ \A s \in StateExecIds : TypedCommands(q.cmds[s])
    /\ q.msgs = [n \in Queues |-> q.msgs[n]]
    /\ \A n \in Queues : TypedMessages(n, q.msgs[n], M)

(* What has been handed out: a finite function to sequences of messages. *)
TypedGot(g, M) ==
    /\ g = [i \in DOMAIN g |-> g[i]]
    /\ IsFiniteSet(DOMAIN g)
    /\ \A i \in DOMAIN g : g[i] \in Seq(M)

LEMMA MoreMessages ==
    ASSUME NEW M, NEW N, M \subseteq N
    PROVE  /\ \A q : TypedQueues(q, M) => TypedQueues(q, N)
           /\ \A g : TypedGot(g, M) => TypedGot(g, N)
<1>1. \A b : b \in Seq(M) => b \in Seq(N)
  OBVIOUS
<1> QED
  BY <1>1 DEF TypedQueues, TypedMessages, TypedGot

LEMMA NoCommandsTyped == TypedCommands(NoCommands) /\ DOMAIN NoCommands = {}
<1>1. DOMAIN <<>> = {} /\ <<>> = [i \in {} |-> i]
  OBVIOUS
<1>2. <<>> = [i \in {} |-> <<>>[i]]
  BY <1>1
<1> QED
  BY <1>1, <1>2, FS_EmptySet DEF TypedCommands, NoCommands

LEMMA NothingGot == ASSUME NEW M PROVE TypedGot(<<>>, M)
<1>1. DOMAIN <<>> = {} /\ <<>> = [i \in {} |-> i]
  OBVIOUS
<1>2. <<>> = [i \in {} |-> <<>>[i]]
  BY <1>1
<1> QED
  BY <1>1, <1>2, FS_EmptySet DEF TypedGot

LEMMA EmptyFunction ==
    ASSUME NEW g, g = [i \in DOMAIN g |-> g[i]]
    PROVE  g = <<>> <=> DOMAIN g = {}
<1>1. DOMAIN <<>> = {} /\ <<>> = [i \in {} |-> i]
  OBVIOUS
<1>2. ASSUME DOMAIN g = {} PROVE g = <<>>
  <2>1. g = [i \in {} |-> g[i]]
    BY <1>2
  <2>2. [i \in {} |-> g[i]] = [i \in {} |-> i]
    OBVIOUS
  <2> QED
    BY <1>1, <2>1, <2>2
<1> QED
  BY <1>1, <1>2

LEMMA NewQueuesTyped ==
    ASSUME NEW M
    PROVE  /\ TypedQueues(NewLocalQueues(StateExecIds, Queues), M)
           /\ NothingSatisfiable(NewLocalQueues(StateExecIds, Queues))
           /\ \A s \in StateExecIds : DOMAIN NewLocalQueues(StateExecIds, Queues).cmds[s] = {}
<1>1. PICK q : q = NewLocalQueues(StateExecIds, Queues)
  OBVIOUS
<1>2. /\ q = [cmds |-> q.cmds, msgs |-> q.msgs]
      /\ q.cmds = [s \in StateExecIds |-> NoCommands]
      /\ q.msgs = [n \in Queues |-> <<>>]
  BY <1>1 DEF NewLocalQueues
<1>3. \A n \in Queues : TypedMessages(n, <<>>, M)
  BY DEF TypedMessages
<1>4. \A s \in StateExecIds : q.cmds[s] = NoCommands
  BY <1>2
<1>5. \A n \in Queues : q.msgs[n] = <<>>
  BY <1>2
<1>6. q.cmds = [s \in StateExecIds |-> q.cmds[s]] /\ q.msgs = [n \in Queues |-> q.msgs[n]] /\ DOMAIN q.cmds = StateExecIds
  BY <1>2
<1>7. TypedQueues(q, M)
  BY <1>2, <1>3, <1>4, <1>5, <1>6, NoCommandsTyped DEF TypedQueues
<1>8. NothingSatisfiable(q) /\ \A s \in StateExecIds : DOMAIN q.cmds[s] = {}
  BY <1>4, <1>6, NoCommandsTyped DEF NothingSatisfiable
<1> QED
  BY <1>1, <1>7, <1>8

(* Command i of s takes the oldest messages b from q, and p remains. *)
Takes(q, s, i, p, b, M) ==
    LET c == q.cmds[s][i]
    IN  /\ TypedQueues(p, M)
        /\ DOMAIN p.cmds[s] = DOMAIN q.cmds[s] \ {i}
        /\ \A j \in DOMAIN p.cmds[s] : p.cmds[s][j] = q.cmds[s][j]
        /\ \A t \in StateExecIds \ {s} : p.cmds[t] = q.cmds[t]
        /\ \A n \in Queues \ {c.queue} : p.msgs[n] = q.msgs[n]
        /\ Len(p.msgs[c.queue]) = Len(q.msgs[c.queue]) - c.count
        /\ \A k \in 1..Len(p.msgs[c.queue]) : p.msgs[c.queue][k] = q.msgs[c.queue][k + c.count]
        /\ b \in Seq(M)
        /\ Len(b) = c.count
        /\ \A k \in 1..c.count : b[k] = q.msgs[c.queue][k]

LEMMA ConsumeFacts ==
    ASSUME NEW M, NEW q, TypedQueues(q, M), NEW s \in StateExecIds, NEW i \in DOMAIN q.cmds[s],
           Satisfiable(q, q.cmds[s][i])
    PROVE  Takes(q, s, i, Consume(q, s, i), Consumed(q, s, i), M)
<1>1. PICK c : c = q.cmds[s][i]
  OBVIOUS
<1>2. c.queue \in Queues /\ c.count \in Nat /\ c.count > 0
  BY <1>1 DEF TypedQueues, TypedCommands
<1>3. PICK b : b = q.msgs[c.queue]
  OBVIOUS
<1>4. b \in Seq(M) /\ Len(b) \in Nat /\ DOMAIN b = 1..Len(b) /\ \A k \in 1..Len(b) : b[k] \in M /\ b[k].queue = c.queue
  BY <1>2, <1>3, LenProperties, ElementOfSeq DEF TypedQueues, TypedMessages
<1>5. c.count <= Len(b)
  BY <1>1, <1>3 DEF Satisfiable
<1> DEFINE rest == SubSeq(b, c.count + 1, Len(b))
           taken == SubSeq(b, 1, c.count)
           left == [j \in DOMAIN q.cmds[s] \ {i} |-> q.cmds[s][j]]
<1>6. /\ rest \in Seq(M) /\ Len(rest) = Len(b) - c.count
      /\ \A k \in 1..Len(rest) : rest[k] = b[k + c.count]
  <2>1. /\ c.count + 1 \in Int /\ Len(b) \in Int
        /\ \A k \in (c.count + 1)..Len(b) : b[k] \in M
    BY <1>2, <1>4
  <2>2. /\ rest \in Seq(M)
        /\ Len(rest) = IF c.count + 1 <= Len(b) THEN Len(b) - (c.count + 1) + 1 ELSE 0
        /\ \A k \in 1..(Len(b) - (c.count + 1) + 1) : rest[k] = b[(c.count + 1) + k - 1]
    BY <2>1, SubSeqProperties
  <2> HIDE DEF rest
  <2>3. Len(rest) = Len(b) - c.count
    BY <1>2, <1>4, <1>5, <2>2
  <2>4. ASSUME NEW k \in 1..Len(rest) PROVE rest[k] = b[k + c.count]
    <3>1. k \in 1..(Len(b) - (c.count + 1) + 1) /\ (c.count + 1) + k - 1 = k + c.count
      BY <1>2, <1>4, <2>3
    <3>2. rest[k] = b[(c.count + 1) + k - 1]
      BY <2>2, <3>1
    <3> QED
      BY <3>1, <3>2
  <2> QED
    BY <2>2, <2>3, <2>4
<1>7. /\ taken \in Seq(M) /\ Len(taken) = c.count
      /\ \A k \in 1..c.count : taken[k] = b[k]
  <2>1. /\ 1 \in Int /\ c.count \in Int
        /\ \A k \in 1..c.count : b[k] \in M
    BY <1>2, <1>4, <1>5
  <2>2. /\ taken \in Seq(M)
        /\ Len(taken) = IF 1 <= c.count THEN c.count - 1 + 1 ELSE 0
        /\ \A k \in 1..(c.count - 1 + 1) : taken[k] = b[1 + k - 1]
    BY <2>1, SubSeqProperties
  <2> HIDE DEF taken
  <2> QED
    BY <1>2, <1>4, <1>5, <2>2
<1>8. Consumed(q, s, i) = taken
  BY <1>1, <1>3 DEF Consumed
<1>9. PICK p : p = Consume(q, s, i)
  OBVIOUS
<1>10. p = [cmds |-> [q.cmds EXCEPT ![s] = left], msgs |-> [q.msgs EXCEPT ![c.queue] = rest]]
  BY <1>1, <1>3, <1>9 DEF Consume
<1>11. DOMAIN left = DOMAIN q.cmds[s] \ {i} /\ \A j \in DOMAIN left : left[j] = q.cmds[s][j]
  OBVIOUS
<1>12. TypedCommands(left)
  <2>1. TypedCommands(q.cmds[s])
    BY DEF TypedQueues
  <2>2. IsFiniteSet(DOMAIN left)
    BY <2>1, <1>11, FS_Subset DEF TypedCommands
  <2>3. left = [j \in DOMAIN left |-> left[j]]
    OBVIOUS
  <2> HIDE DEF left
  <2> QED
    BY <2>1, <2>2, <2>3, <1>11 DEF TypedCommands
<1>13. TypedMessages(c.queue, rest, M)
  <2>1. DOMAIN rest = 1..Len(rest)
    BY <1>6, LenProperties
  <2>2. \A k \in 1..Len(rest) : k + c.count \in 1..Len(b)
    BY <1>2, <1>4, <1>5, <1>6
  <2> HIDE DEF rest
  <2> QED
    BY <1>4, <1>6, <2>1, <2>2 DEF TypedMessages
<1> HIDE DEF left, rest, taken
<1>14. /\ p = [cmds |-> p.cmds, msgs |-> p.msgs]
       /\ p.cmds = [q.cmds EXCEPT ![s] = left]
       /\ p.msgs = [q.msgs EXCEPT ![c.queue] = rest]
  BY <1>10
<1>15. /\ q.cmds = [t \in StateExecIds |-> q.cmds[t]]
       /\ q.msgs = [n \in Queues |-> q.msgs[n]]
  BY DEF TypedQueues
<1>16. /\ p.cmds = [t \in StateExecIds |-> p.cmds[t]]
       /\ p.cmds[s] = left /\ \A t \in StateExecIds \ {s} : p.cmds[t] = q.cmds[t]
  BY <1>14, <1>15
<1>17. /\ p.msgs = [n \in Queues |-> p.msgs[n]]
       /\ p.msgs[c.queue] = rest /\ \A n \in Queues \ {c.queue} : p.msgs[n] = q.msgs[n]
  BY <1>2, <1>14, <1>15
<1>18. TypedQueues(p, M)
  <2>1. \A t \in StateExecIds : TypedCommands(p.cmds[t])
    BY <1>12, <1>16 DEF TypedQueues
  <2>2. \A n \in Queues : TypedMessages(n, p.msgs[n], M)
    BY <1>13, <1>17 DEF TypedQueues
  <2> QED
    BY <1>14, <1>16, <1>17, <2>1, <2>2 DEF TypedQueues
<1> QED
  BY <1>1, <1>3, <1>6, <1>7, <1>8, <1>9, <1>11, <1>16, <1>17, <1>18 DEF Takes

(* One more message at the end of its queue. *)
Arrives(q, m, p, M) ==
    /\ TypedQueues(p, M)
    /\ p.cmds = q.cmds
    /\ \A n \in Queues \ {m.queue} : p.msgs[n] = q.msgs[n]
    /\ Len(p.msgs[m.queue]) = Len(q.msgs[m.queue]) + 1
    /\ \A k \in 1..Len(q.msgs[m.queue]) : p.msgs[m.queue][k] = q.msgs[m.queue][k]
    /\ p.msgs[m.queue][Len(q.msgs[m.queue]) + 1] = m

LEMMA ArrivesFacts ==
    ASSUME NEW M, InQueues(M), NEW q, TypedQueues(q, M), NEW m \in M
    PROVE  Arrives(q, m, [q EXCEPT !.msgs[m.queue] = Append(q.msgs[m.queue], m)], M)
<1>1. m.queue \in Queues
  BY DEF InQueues
<1>2. PICK b : b = q.msgs[m.queue]
  OBVIOUS
<1>3. b \in Seq(M) /\ Len(b) \in Nat /\ DOMAIN b = 1..Len(b) /\ \A k \in 1..Len(b) : b[k].queue = m.queue
  BY <1>1, <1>2, LenProperties DEF TypedQueues, TypedMessages
<1>4. PICK a : a = Append(b, m)
  OBVIOUS
<1>5. /\ a \in Seq(M) /\ Len(a) = Len(b) + 1
      /\ \A k \in 1..Len(b) : a[k] = b[k]
      /\ a[Len(b) + 1] = m
  BY <1>3, <1>4, AppendProperties
<1>6. TypedMessages(m.queue, a, M)
  <2>1. DOMAIN a = 1..Len(a)
    BY <1>5, LenProperties
  <2> QED
    BY <1>3, <1>5, <2>1 DEF TypedMessages
<1>7. PICK p : p = [q EXCEPT !.msgs[m.queue] = a]
  OBVIOUS
<1>8. /\ q = [cmds |-> q.cmds, msgs |-> q.msgs]
      /\ q.msgs = [n \in Queues |-> q.msgs[n]]
  BY DEF TypedQueues
<1>9. /\ p = [cmds |-> p.cmds, msgs |-> p.msgs]
      /\ p.cmds = q.cmds
      /\ p.msgs = [q.msgs EXCEPT ![m.queue] = a]
  BY <1>7, <1>8
<1>10. /\ p.msgs = [n \in Queues |-> p.msgs[n]]
       /\ p.msgs[m.queue] = a /\ \A n \in Queues \ {m.queue} : p.msgs[n] = q.msgs[n]
  BY <1>1, <1>8, <1>9
<1>11. \A n \in Queues : TypedMessages(n, p.msgs[n], M)
  BY <1>6, <1>10 DEF TypedQueues
<1>12. TypedQueues(p, M)
  BY <1>9, <1>10, <1>11 DEF TypedQueues
<1>13. Arrives(q, m, p, M)
  BY <1>2, <1>5, <1>9, <1>10, <1>12 DEF Arrives
<1> QED
  BY <1>2, <1>4, <1>7, <1>13

-----------------------------------------------------------------------------
(***************************************************************************)
(* A batch of messages, arriving at q, has led to o: each command of q is  *)
(* still registered or has its messages, and none could be satisfied.      *)
(***************************************************************************)
BatchOK(q, o, M) ==
    /\ o = [q |-> o.q, got |-> o.got]
    /\ TypedQueues(o.q, M)
    /\ TypedGot(o.got, M)
    /\ NothingSatisfiable(o.q)
    /\ \A y \in DOMAIN o.got : \E s \in StateExecIds : \E i \in DOMAIN q.cmds[s] : y = <<s, i>>
    /\ \A s \in StateExecIds : DOMAIN o.q.cmds[s] \subseteq DOMAIN q.cmds[s]
    /\ \A s \in StateExecIds : \A i \in DOMAIN q.cmds[s] :
          i \in DOMAIN o.q.cmds[s] <=> <<s, i>> \notin DOMAIN o.got

(* What has been handed out, with one command more. *)
WithGot(g, x, b) == [y \in DOMAIN g \cup {x} |-> IF y = x THEN b ELSE g[y]]

LEMMA WithGotTyped ==
    ASSUME NEW M, NEW g, TypedGot(g, M), NEW x, NEW b \in Seq(M)
    PROVE  /\ TypedGot(WithGot(g, x, b), M)
           /\ DOMAIN WithGot(g, x, b) = DOMAIN g \cup {x}
           /\ WithGot(g, x, b)[x] = b
           /\ \A y \in DOMAIN g \ {x} : WithGot(g, x, b)[y] = g[y]
<1>1. IsFiniteSet(DOMAIN g \cup {x})
  BY FS_Singleton, FS_Union DEF TypedGot
<1>2. PICK h : h = WithGot(g, x, b)
  OBVIOUS
<1>3. /\ DOMAIN h = DOMAIN g \cup {x} /\ h[x] = b
      /\ \A y \in DOMAIN g \ {x} : h[y] = g[y]
      /\ h = [y \in DOMAIN h |-> h[y]]
  BY <1>2 DEF WithGot
<1>4. TypedGot(h, M)
  BY <1>1, <1>3 DEF TypedGot
<1> QED
  BY <1>2, <1>3, <1>4

(* A message arrives and completes no command, or one of them takes it. *)
Unanswered(q, m) ==
    \A s \in StateExecIds : \A i \in DOMAIN q.cmds[s] :
        q.cmds[s][i].queue = m.queue => ~Satisfiable(q, q.cmds[s][i])

Answered(o, q, m, s, i, p, M) ==
    /\ q.cmds[s][i].queue = m.queue
    /\ Satisfiable(q, q.cmds[s][i])
    /\ Takes(q, s, i, p.q, Consumed(q, s, i), M)
    /\ p = [q |-> p.q, got |-> WithGot(o.got, <<s, i>>, Consumed(q, s, i))]

LEMMA AddMessageCases ==
    ASSUME NEW M, InQueues(M), NEW o, TypedQueues(o.q, M), o = [q |-> o.q, got |-> o.got],
           NEW m \in M, NEW p \in AddMessageAndTryConsume(o, m)
    PROVE  \E q : /\ Arrives(o.q, m, q, M)
                  /\ \/ p = [q |-> q, got |-> o.got] /\ Unanswered(q, m)
                     \/ \E s \in StateExecIds : \E i \in DOMAIN q.cmds[s] : Answered(o, q, m, s, i, p, M)
<1> DEFINE q == [o.q EXCEPT !.msgs[m.queue] = Append(o.q.msgs[m.queue], m)]
<1>2. Arrives(o.q, m, q, M)
  BY ArrivesFacts
<1> DEFINE all == UNION {{s} \X DOMAIN q.cmds[s] : s \in DOMAIN q.cmds}
           ready == {x \in all : /\ q.cmds[x[1]][x[2]].queue = m.queue
                                 /\ Satisfiable(q, q.cmds[x[1]][x[2]])}
<1>4. p \in IF ready = {} THEN {[o EXCEPT !.q = q]}
            ELSE {[q |-> Consume(q, x[1], x[2]),
                   got |-> [y \in DOMAIN o.got \cup {x} |->
                                IF y = x THEN Consumed(q, x[1], x[2]) ELSE o.got[y]]] : x \in ready}
  BY DEF AddMessageAndTryConsume
<1> HIDE DEF q
<1>3. TypedQueues(q, M) /\ DOMAIN q.cmds = StateExecIds
  BY <1>2 DEF Arrives, TypedQueues
<1>5. \A s \in StateExecIds : \A i \in DOMAIN q.cmds[s] : <<s, i>> \in all
  BY <1>3
<1>6. \A x \in all : x[1] \in StateExecIds /\ x[2] \in DOMAIN q.cmds[x[1]] /\ x = <<x[1], x[2]>>
  BY <1>3
<1> HIDE DEF all
<1>7. CASE ready = {}
  <2>1. p = [q |-> q, got |-> o.got]
    BY <1>4, <1>7
  <2>2. ASSUME NEW s \in StateExecIds, NEW i \in DOMAIN q.cmds[s], q.cmds[s][i].queue = m.queue
        PROVE  ~Satisfiable(q, q.cmds[s][i])
    <3>1. <<s, i>> \in all /\ <<s, i>>[1] = s /\ <<s, i>>[2] = i
      BY <1>5
    <3> QED
      BY <1>7, <2>2, <3>1
  <2> QED
    BY <1>2, <2>1, <2>2 DEF Unanswered
<1>8. CASE ready # {}
  <2>1. PICK x \in ready : p = [q |-> Consume(q, x[1], x[2]),
                                got |-> [y \in DOMAIN o.got \cup {x} |->
                                             IF y = x THEN Consumed(q, x[1], x[2]) ELSE o.got[y]]]
    BY <1>4, <1>8
  <2>2. PICK s \in StateExecIds, i \in DOMAIN q.cmds[x[1]] : s = x[1] /\ i = x[2] /\ x = <<s, i>>
    BY <1>6
  <2>3. /\ i \in DOMAIN q.cmds[s] /\ q.cmds[s][i].queue = m.queue
        /\ Satisfiable(q, q.cmds[s][i])
    BY <2>2
  <2> HIDE DEF ready
  <2>4. p = [q |-> Consume(q, s, i), got |-> WithGot(o.got, <<s, i>>, Consumed(q, s, i))]
    BY <2>1, <2>2 DEF WithGot
  <2>5. p.q = Consume(q, s, i) /\ p = [q |-> p.q, got |-> WithGot(o.got, <<s, i>>, Consumed(q, s, i))]
    BY <2>4
  <2>6. Takes(q, s, i, p.q, Consumed(q, s, i), M)
    BY <1>3, <2>3, <2>5, ConsumeFacts
  <2> QED
    BY <1>2, <2>3, <2>5, <2>6 DEF Answered
<1> QED
  BY <1>7, <1>8

LEMMA BatchStepOK ==
    ASSUME NEW M, InQueues(M), NEW q, NEW o, BatchOK(q, o, M),
           NEW m \in M, NEW p \in AddMessageAndTryConsume(o, m)
    PROVE  BatchOK(q, p, M)
<1>1. TypedQueues(o.q, M) /\ o = [q |-> o.q, got |-> o.got] /\ m.queue \in Queues
  BY DEF BatchOK, InQueues
<1>2. PICK a : /\ Arrives(o.q, m, a, M)
               /\ \/ p = [q |-> a, got |-> o.got] /\ Unanswered(a, m)
                  \/ \E s \in StateExecIds : \E i \in DOMAIN a.cmds[s] : Answered(o, a, m, s, i, p, M)
  BY <1>1, AddMessageCases
<1>3. TypedQueues(a, M) /\ a.cmds = o.q.cmds /\ DOMAIN a.cmds = StateExecIds
  BY <1>2 DEF Arrives, TypedQueues
<1>4. \A n \in Queues : Len(a.msgs[n]) \in Nat /\ Len(o.q.msgs[n]) \in Nat
  BY <1>1, <1>3, LenProperties DEF TypedQueues, TypedMessages
<1>5. \A s \in StateExecIds : \A i \in DOMAIN a.cmds[s] :
         /\ a.cmds[s][i].queue \in Queues /\ a.cmds[s][i].count \in Nat /\ a.cmds[s][i].count > 0
         /\ Len(o.q.msgs[a.cmds[s][i].queue]) < a.cmds[s][i].count
  BY <1>1, <1>3 DEF BatchOK, NothingSatisfiable, TypedQueues, TypedCommands
<1>6. \A s \in StateExecIds : \A i \in DOMAIN a.cmds[s] :
         a.cmds[s][i].queue # m.queue => Len(a.msgs[a.cmds[s][i].queue]) < a.cmds[s][i].count
  BY <1>2, <1>5 DEF Arrives
<1>7. CASE p = [q |-> a, got |-> o.got] /\ Unanswered(a, m)
  <2>1. NothingSatisfiable(a)
    BY <1>3, <1>4, <1>5, <1>6, <1>7 DEF NothingSatisfiable, Satisfiable, Unanswered
  <2>2. p = [q |-> p.q, got |-> p.got] /\ p.q = a /\ p.got = o.got
    BY <1>7
  <2> QED
    BY <1>3, <2>1, <2>2 DEF BatchOK
<1>8. ASSUME NEW s \in StateExecIds, NEW i \in DOMAIN a.cmds[s], Answered(o, a, m, s, i, p, M)
      PROVE  BatchOK(q, p, M)
  <2>1. PICK b : b = Consumed(a, s, i)
    OBVIOUS
  <2>2. PICK z : z = p.q
    OBVIOUS
  <2>3. Takes(a, s, i, z, b, M)
    BY <1>8, <2>1, <2>2 DEF Answered
  <2>4. p = [q |-> z, got |-> WithGot(o.got, <<s, i>>, b)]
    BY <1>8, <2>1, <2>2 DEF Answered
  <2>5. p.got = WithGot(o.got, <<s, i>>, b) /\ p = [q |-> p.q, got |-> p.got]
    BY <2>2, <2>4
  <2>6. TypedQueues(z, M) /\ b \in Seq(M)
    BY <2>3 DEF Takes
  <2>7. /\ TypedGot(p.got, M) /\ DOMAIN p.got = DOMAIN o.got \cup {<<s, i>>}
    <3>1. TypedGot(o.got, M)
      BY DEF BatchOK
    <3>2. /\ TypedGot(WithGot(o.got, <<s, i>>, b), M)
          /\ DOMAIN WithGot(o.got, <<s, i>>, b) = DOMAIN o.got \cup {<<s, i>>}
      <4>1. PICK g, x : g = o.got /\ x = <<s, i>>
        OBVIOUS
      <4>2. TypedGot(g, M) /\ b \in Seq(M)
        BY <2>6, <3>1, <4>1
      <4>3. TypedGot(WithGot(g, x, b), M)
        BY <4>2, WithGotTyped
      <4>4. DOMAIN WithGot(g, x, b) = DOMAIN g \cup {x}
        BY DEF WithGot
      <4> QED
        BY <4>1, <4>3, <4>4
    <3> QED
      BY <2>5, <3>2
  <2>8. Len(z.msgs[m.queue]) = 0 /\ \A n \in Queues \ {m.queue} : z.msgs[n] = a.msgs[n]
    <3>1. /\ Len(z.msgs[m.queue]) = Len(a.msgs[m.queue]) - a.cmds[s][i].count
          /\ \A n \in Queues \ {m.queue} : z.msgs[n] = a.msgs[n]
      BY <1>8, <2>3 DEF Takes, Answered
    <3>2. Len(a.msgs[m.queue]) = Len(o.q.msgs[m.queue]) + 1
      BY <1>2 DEF Arrives
    <3>3. a.cmds[s][i].count <= Len(a.msgs[m.queue]) /\ Len(o.q.msgs[m.queue]) < a.cmds[s][i].count
      BY <1>5, <1>8 DEF Satisfiable, Answered
    <3> QED
      BY <1>1, <1>4, <1>5, <3>1, <3>2, <3>3
  <2>9. \A t \in StateExecIds : \A j \in DOMAIN z.cmds[t] :
           j \in DOMAIN a.cmds[t] /\ z.cmds[t][j] = a.cmds[t][j] /\ ~(t = s /\ j = i)
    BY <2>3 DEF Takes
  <2>10. NothingSatisfiable(z)
    <3>1. DOMAIN z.cmds = StateExecIds
      BY <2>6 DEF TypedQueues
    <3>2. ASSUME NEW t \in StateExecIds, NEW j \in DOMAIN z.cmds[t]
          PROVE  Len(z.msgs[z.cmds[t][j].queue]) < z.cmds[t][j].count
      <4>1. PICK c : c = a.cmds[t][j]
        OBVIOUS
      <4>2. z.cmds[t][j] = c /\ j \in DOMAIN a.cmds[t]
        BY <2>9, <4>1
      <4>3. /\ c.queue \in Queues /\ c.count \in Nat /\ c.count > 0
            /\ c.queue # m.queue => Len(a.msgs[c.queue]) < c.count
        BY <1>5, <1>6, <4>1, <4>2
      <4>4. Len(z.msgs[c.queue]) < c.count
        BY <2>8, <4>3
      <4> QED
        BY <4>2, <4>4
    <3> QED
      BY <3>1, <3>2 DEF NothingSatisfiable
  <2>11. /\ \A y \in DOMAIN o.got : \E t \in StateExecIds : \E j \in DOMAIN q.cmds[t] : y = <<t, j>>
         /\ \A t \in StateExecIds : DOMAIN a.cmds[t] \subseteq DOMAIN q.cmds[t]
         /\ \A t \in StateExecIds : \A j \in DOMAIN q.cmds[t] :
               j \in DOMAIN a.cmds[t] <=> <<t, j>> \notin DOMAIN o.got
    BY <1>3 DEF BatchOK
  <2>12. \A y \in DOMAIN p.got : \E t \in StateExecIds : \E j \in DOMAIN q.cmds[t] : y = <<t, j>>
    BY <2>7, <2>11
  <2>13. \A t \in StateExecIds : DOMAIN z.cmds[t] \subseteq DOMAIN q.cmds[t]
    BY <2>9, <2>11
  <2>14. ASSUME NEW t \in StateExecIds, NEW j \in DOMAIN q.cmds[t]
         PROVE  j \in DOMAIN z.cmds[t] <=> <<t, j>> \notin DOMAIN p.got
    <3>1. j \in DOMAIN z.cmds[t] <=> j \in DOMAIN a.cmds[t] /\ ~(t = s /\ j = i)
      BY <2>3 DEF Takes
    <3>2. <<t, j>> = <<s, i>> <=> t = s /\ j = i
      OBVIOUS
    <3> QED
      BY <2>7, <2>11, <3>1, <3>2
  <2> QED
    BY <2>2, <2>5, <2>6, <2>7, <2>10, <2>12, <2>13, <2>14 DEF BatchOK
<1> QED
  BY <1>2, <1>7, <1>8

-----------------------------------------------------------------------------
(***************************************************************************)
(* Where a message x is: its positions in its queue, and the commands it   *)
(* has been handed to.                                                     *)
(***************************************************************************)
Spots(q, x) == {k \in DOMAIN q.msgs[x.queue] : q.msgs[x.queue][k] = x}
Hands(g, x) == {y \in DOMAIN g : x \in Range(g[y])}
Single(A) == \E a : A = {a}
NotHeld(o, x) == Spots(o.q, x) = {} /\ Hands(o.got, x) = {}
HeldOnce(o, x) ==
    \/ Single(Spots(o.q, x)) /\ Hands(o.got, x) = {}
    \/ Spots(o.q, x) = {} /\ Single(Hands(o.got, x))

LEMMA SpotsDomain ==
    ASSUME NEW M, InQueues(M), NEW q, TypedQueues(q, M), NEW x \in M
    PROVE  /\ Spots(q, x) = {k \in 1..Len(q.msgs[x.queue]) : q.msgs[x.queue][k] = x}
           /\ Len(q.msgs[x.queue]) \in Nat
           /\ x.queue \in Queues
BY LenProperties DEF Spots, InQueues, TypedQueues, TypedMessages

LEMMA TakesSpots ==
    ASSUME NEW M, InQueues(M), NEW q, TypedQueues(q, M), NEW s \in StateExecIds, NEW i \in DOMAIN q.cmds[s],
           NEW p, NEW b, Satisfiable(q, q.cmds[s][i]), Takes(q, s, i, p, b, M), NEW x \in M
    PROVE  /\ Spots(q, x) = {} => Spots(p, x) = {} /\ x \notin Range(b)
           /\ Single(Spots(q, x)) => \/ Single(Spots(p, x)) /\ x \notin Range(b)
                                     \/ Spots(p, x) = {} /\ x \in Range(b)
<1>1. PICK c : c = q.cmds[s][i]
  OBVIOUS
<1>2. c.queue \in Queues /\ c.count \in Nat /\ c.count > 0
  BY <1>1 DEF TypedQueues, TypedCommands
<1>3. PICK n, d : n = q.msgs[c.queue] /\ d = p.msgs[c.queue]
  OBVIOUS
<1>4. /\ TypedQueues(p, M) /\ b \in Seq(M) /\ Len(b) = c.count
      /\ Len(d) = Len(n) - c.count /\ \A k \in 1..Len(d) : d[k] = n[k + c.count]
      /\ \A k \in 1..c.count : b[k] = n[k]
      /\ \A y \in Queues \ {c.queue} : p.msgs[y] = q.msgs[y]
  BY <1>1, <1>3 DEF Takes
<1>5. DOMAIN b = 1..c.count
  BY <1>4, LenProperties
<1>6. c.count <= Len(n) /\ Len(n) \in Nat
  BY <1>1, <1>2, <1>3, LenProperties DEF Satisfiable, TypedQueues, TypedMessages
<1>7. x \in Range(b) <=> \E k \in 1..c.count : n[k] = x
  BY <1>4, <1>5 DEF Range
<1>8. \A k \in 1..Len(n) : n[k].queue = c.queue
  BY <1>2, <1>3, LenProperties DEF TypedQueues, TypedMessages
<1>9. CASE x.queue # c.queue
  <2>1. Spots(p, x) = Spots(q, x)
    BY <1>4, <1>9, SpotsDomain DEF Spots
  <2>2. x \notin Range(b)
    BY <1>2, <1>6, <1>7, <1>8, <1>9
  <2> QED
    BY <2>1, <2>2
<1>10. CASE x.queue = c.queue
  <2>1. Spots(q, x) = {k \in 1..Len(n) : n[k] = x}
    BY <1>3, <1>10, SpotsDomain
  <2>2. Spots(p, x) = {k \in 1..Len(d) : d[k] = x}
    BY <1>3, <1>4, <1>10, SpotsDomain
  <2>3. \A k : k \in Spots(p, x) => k + c.count \in Spots(q, x) /\ k \in Nat /\ k > 0
    <3> SUFFICES ASSUME NEW k \in Spots(p, x)
                 PROVE  k + c.count \in Spots(q, x) /\ k \in Nat /\ k > 0
      OBVIOUS
    <3>1. k \in 1..Len(d) /\ d[k] = x /\ d[k] = n[k + c.count]
      BY <1>4, <2>2
    <3>2. k + c.count \in 1..Len(n) /\ k \in Nat /\ k > 0
      BY <1>2, <1>4, <1>6, <3>1
    <3> QED
      BY <2>1, <3>1, <3>2
  <2>4. \A k \in Spots(q, x) : k \in Nat /\ (k > c.count => k - c.count \in Spots(p, x))
    <3> SUFFICES ASSUME NEW k \in Spots(q, x)
                 PROVE  k \in Nat /\ (k > c.count => k - c.count \in Spots(p, x))
      OBVIOUS
    <3>1. k \in 1..Len(n) /\ n[k] = x
      BY <2>1
    <3>2. ASSUME k > c.count PROVE k - c.count \in Spots(p, x)
      <4>1. k - c.count \in 1..Len(d) /\ (k - c.count) + c.count = k
        BY <1>2, <1>4, <1>6, <3>1, <3>2
      <4>2. d[k - c.count] = n[(k - c.count) + c.count]
        BY <1>4, <4>1
      <4> QED
        BY <2>2, <3>1, <4>1, <4>2
    <3> QED
      BY <3>1, <3>2, <1>6
  <2>5. x \in Range(b) <=> \E k \in Spots(q, x) : k <= c.count
    BY <1>2, <1>6, <1>7, <2>1
  <2>6. ASSUME Spots(q, x) = {} PROVE Spots(p, x) = {} /\ x \notin Range(b)
    BY <2>3, <2>5, <2>6
  <2>7. ASSUME NEW k, Spots(q, x) = {k}
        PROVE  \/ Single(Spots(p, x)) /\ x \notin Range(b)
               \/ Spots(p, x) = {} /\ x \in Range(b)
    <3>1. k \in Nat /\ \A j \in Spots(p, x) : j \in Nat /\ j > 0 /\ j + c.count = k
      BY <2>3, <2>4, <2>7
    <3>2. CASE k <= c.count
      <4>1. Spots(p, x) = {}
        BY <1>2, <3>1, <3>2
      <4> QED
        BY <2>5, <2>7, <3>2, <4>1
    <3>3. CASE k > c.count
      <4>1. k - c.count \in Spots(p, x)
        BY <2>4, <2>7, <3>3
      <4>2. \A j \in Spots(p, x) : j = k - c.count
        BY <1>2, <3>1
      <4>3. Spots(p, x) = {k - c.count}
        BY <4>1, <4>2
      <4>4. x \notin Range(b)
        BY <1>2, <2>5, <2>7, <3>1, <3>3
      <4> QED
        BY <4>3, <4>4 DEF Single
    <3> QED
      BY <1>2, <3>1, <3>2, <3>3
  <2> QED
    BY <2>6, <2>7 DEF Single
<1> QED
  BY <1>9, <1>10

LEMMA ArrivesSpots ==
    ASSUME NEW M, InQueues(M), NEW q, TypedQueues(q, M), NEW m \in M, NEW p, Arrives(q, m, p, M), NEW x \in M
    PROVE  /\ x # m => Spots(p, x) = Spots(q, x)
           /\ x = m /\ Spots(q, x) = {} => Single(Spots(p, x))
<1>1. TypedQueues(p, M)
  BY DEF Arrives
<1>2. CASE x.queue # m.queue
  BY <1>2, SpotsDomain DEF Arrives, Spots
<1>3. CASE x.queue = m.queue
  <2>1. PICK n, d : n = q.msgs[m.queue] /\ d = p.msgs[m.queue]
    OBVIOUS
  <2>2. /\ Spots(q, x) = {k \in 1..Len(n) : n[k] = x} /\ Len(n) \in Nat
        /\ Spots(p, x) = {k \in 1..Len(d) : d[k] = x}
    BY <1>1, <1>3, <2>1, SpotsDomain
  <2>3. Len(d) = Len(n) + 1 /\ (\A k \in 1..Len(n) : d[k] = n[k]) /\ d[Len(n) + 1] = m
    BY <2>1 DEF Arrives
  <2>4. ASSUME x # m PROVE Spots(p, x) = Spots(q, x)
    <3>1. \A k : k \in Spots(p, x) <=> k \in Spots(q, x)
      BY <2>2, <2>3, <2>4
    <3> QED
      BY <3>1
  <2>5. ASSUME x = m, Spots(q, x) = {} PROVE Spots(p, x) = {Len(n) + 1}
    <3>1. \A k : k \in Spots(p, x) <=> k = Len(n) + 1
      BY <2>2, <2>3, <2>5
    <3> QED
      BY <3>1
  <2> QED
    BY <2>4, <2>5 DEF Single
<1> QED
  BY <1>2, <1>3

LEMMA HandsWithGot ==
    ASSUME NEW g, NEW y, y \notin DOMAIN g, NEW b, NEW x
    PROVE  /\ x \in Range(b) => Hands(WithGot(g, y, b), x) = Hands(g, x) \cup {y}
           /\ x \notin Range(b) => Hands(WithGot(g, y, b), x) = Hands(g, x)
<1>1. PICK h : h = WithGot(g, y, b)
  OBVIOUS
<1>2. DOMAIN h = DOMAIN g \cup {y} /\ h[y] = b /\ \A z \in DOMAIN g : h[z] = g[z]
  BY <1>1 DEF WithGot
<1> QED
  BY <1>1, <1>2 DEF Hands

(* Handing messages to one more command. *)
LEMMA HeldMoves ==
    ASSUME NEW M, InQueues(M), NEW q, TypedQueues(q, M), NEW s \in StateExecIds, NEW i \in DOMAIN q.cmds[s],
           NEW p, NEW b, Satisfiable(q, q.cmds[s][i]), Takes(q, s, i, p, b, M), NEW x \in M,
           NEW g, NEW y, y \notin DOMAIN g, NEW old, old.q = q, old.got = g,
           NEW new, new.q = p, new.got = WithGot(g, y, b)
    PROVE  (NotHeld(old, x) => NotHeld(new, x)) /\ (HeldOnce(old, x) => HeldOnce(new, x))
<1>1. /\ Spots(q, x) = {} => Spots(p, x) = {} /\ x \notin Range(b)
      /\ Single(Spots(q, x)) => \/ Single(Spots(p, x)) /\ x \notin Range(b)
                                \/ Spots(p, x) = {} /\ x \in Range(b)
  BY TakesSpots
<1>2. /\ x \in Range(b) => Hands(new.got, x) = Hands(g, x) \cup {y}
      /\ x \notin Range(b) => Hands(new.got, x) = Hands(g, x)
  BY HandsWithGot
<1>3. x \in Range(b) /\ Hands(g, x) = {} => Single(Hands(new.got, x))
  BY <1>2 DEF Single
<1> QED
  BY <1>1, <1>2, <1>3 DEF NotHeld, HeldOnce

LEMMA BatchStepHeld ==
    ASSUME NEW M, InQueues(M), NEW q, NEW o, BatchOK(q, o, M),
           NEW m \in M, NEW p \in AddMessageAndTryConsume(o, m), NEW x \in M
    PROVE  /\ x # m /\ NotHeld(o, x) => NotHeld(p, x)
           /\ x # m /\ HeldOnce(o, x) => HeldOnce(p, x)
           /\ x = m /\ NotHeld(o, x) => HeldOnce(p, x)
<1>1. TypedQueues(o.q, M) /\ o = [q |-> o.q, got |-> o.got]
  BY DEF BatchOK
<1>2. PICK a : /\ Arrives(o.q, m, a, M)
               /\ \/ p = [q |-> a, got |-> o.got] /\ Unanswered(a, m)
                  \/ \E s \in StateExecIds : \E i \in DOMAIN a.cmds[s] : Answered(o, a, m, s, i, p, M)
  BY <1>1, AddMessageCases
<1>3. TypedQueues(a, M) /\ a.cmds = o.q.cmds
  BY <1>2 DEF Arrives
<1>4. PICK mid : mid = [q |-> a, got |-> o.got]
  OBVIOUS
<1>5. mid.q = a /\ mid.got = o.got
  BY <1>4
<1>6. /\ x # m => Spots(a, x) = Spots(o.q, x)
      /\ x = m /\ Spots(o.q, x) = {} => Single(Spots(a, x))
  BY <1>1, <1>2, ArrivesSpots
<1>7. /\ x # m /\ NotHeld(o, x) => NotHeld(mid, x)
      /\ x # m /\ HeldOnce(o, x) => HeldOnce(mid, x)
      /\ x = m /\ NotHeld(o, x) => HeldOnce(mid, x)
  BY <1>5, <1>6 DEF NotHeld, HeldOnce
<1>8. CASE p = [q |-> a, got |-> o.got]
  BY <1>4, <1>7, <1>8
<1>9. ASSUME NEW s \in StateExecIds, NEW i \in DOMAIN a.cmds[s], Answered(o, a, m, s, i, p, M)
      PROVE  (NotHeld(mid, x) => NotHeld(p, x)) /\ (HeldOnce(mid, x) => HeldOnce(p, x))
  <2>1. PICK b, z : b = Consumed(a, s, i) /\ z = p.q
    OBVIOUS
  <2>2. Takes(a, s, i, z, b, M) /\ Satisfiable(a, a.cmds[s][i])
    BY <1>9, <2>1 DEF Answered
  <2>3. PICK y, g : y = <<s, i>> /\ g = o.got
    OBVIOUS
  <2>4. p.q = z /\ p.got = WithGot(g, y, b)
    BY <1>9, <2>1, <2>3 DEF Answered
  <2>5. y \notin DOMAIN g
    BY <1>3, <2>3 DEF BatchOK
  <2>6. mid.q = a /\ mid.got = g
    BY <1>5, <2>3
  <2> QED
    BY <1>3, <2>2, <2>4, <2>5, <2>6, HeldMoves
<1> QED
  BY <1>2, <1>7, <1>8, <1>9

(* A batch hands out what it can and keeps every message. *)
BatchResult(q, ms, o, n, M) ==
    /\ BatchOK(q, o, M)
    /\ \A x \in M :
          LET arrived == \E i \in 1..n : ms[i] = x
          IN  /\ ~arrived /\ Spots(q, x) = {} => NotHeld(o, x)
              /\ ~arrived /\ Single(Spots(q, x)) => HeldOnce(o, x)
              /\ arrived /\ Spots(q, x) = {} => HeldOnce(o, x)

LEMMA EmptyBatch ==
    ASSUME NEW M, NEW q, TypedQueues(q, M), NothingSatisfiable(q), NEW ms
    PROVE  BatchResult(q, ms, [q |-> q, got |-> <<>>], 0, M)
<1>1. PICK o : o = [q |-> q, got |-> <<>>]
  OBVIOUS
<1>2. o.q = q /\ o.got = <<>> /\ o = [q |-> o.q, got |-> o.got] /\ DOMAIN o.got = {}
  BY <1>1
<1>3. BatchOK(q, o, M)
  BY <1>2, NothingGot DEF BatchOK
<1>4. \A x : Hands(o.got, x) = {}
  BY <1>2 DEF Hands
<1>5. ~ \E i \in 1..0 : TRUE
  OBVIOUS
<1>6. BatchResult(q, ms, o, 0, M)
  BY <1>2, <1>3, <1>4, <1>5 DEF BatchResult, NotHeld, HeldOnce
<1> QED
  BY <1>1, <1>6

LEMMA LongerBatch ==
    ASSUME NEW M, InQueues(M), NEW q, NEW ms \in Seq(M), IsInjective(ms), NEW n \in 1..Len(ms),
           NEW o, BatchResult(q, ms, o, n - 1, M), NEW p \in AddMessageAndTryConsume(o, ms[n])
    PROVE  BatchResult(q, ms, p, n, M)
<1>1. BatchOK(q, o, M) /\ ms[n] \in M /\ n \in Nat
  BY LenProperties, ElementOfSeq DEF BatchResult
<1>2. BatchOK(q, p, M)
  BY <1>1, BatchStepOK
<1>3. ASSUME NEW x \in M
      PROVE  LET arrived == \E i \in 1..n : ms[i] = x
             IN  /\ ~arrived /\ Spots(q, x) = {} => NotHeld(p, x)
                 /\ ~arrived /\ Single(Spots(q, x)) => HeldOnce(p, x)
                 /\ arrived /\ Spots(q, x) = {} => HeldOnce(p, x)
  <2> DEFINE before == \E i \in 1..(n - 1) : ms[i] = x
             arrived == \E i \in 1..n : ms[i] = x
  <2>1. arrived <=> before \/ ms[n] = x
    <3>1. \A i : i \in 1..n <=> i \in 1..(n - 1) \/ i = n
      BY <1>1
    <3> QED
      BY <3>1
  <2>2. ~(before /\ ms[n] = x)
    <3>1. DOMAIN ms = 1..Len(ms) /\ Len(ms) \in Nat
      BY LenProperties
    <3>2. \A i \in 1..(n - 1) : i \in 1..Len(ms) /\ i # n
      BY <1>1, <3>1
    <3> QED
      BY <3>1, <3>2 DEF IsInjective
  <2>3. /\ ~before /\ Spots(q, x) = {} => NotHeld(o, x)
        /\ ~before /\ Single(Spots(q, x)) => HeldOnce(o, x)
        /\ before /\ Spots(q, x) = {} => HeldOnce(o, x)
    BY DEF BatchResult
  <2>4. /\ x # ms[n] /\ NotHeld(o, x) => NotHeld(p, x)
        /\ x # ms[n] /\ HeldOnce(o, x) => HeldOnce(p, x)
        /\ x = ms[n] /\ NotHeld(o, x) => HeldOnce(p, x)
    BY <1>1, BatchStepHeld
  <2> HIDE DEF before, arrived
  <2>5. /\ ~arrived /\ Spots(q, x) = {} => NotHeld(p, x)
        /\ ~arrived /\ Single(Spots(q, x)) => HeldOnce(p, x)
        /\ arrived /\ Spots(q, x) = {} => HeldOnce(p, x)
    BY <2>1, <2>2, <2>3, <2>4
  <2> QED
    BY <2>5 DEF arrived
<1> QED
  BY <1>2, <1>3 DEF BatchResult

LEMMA BatchFacts ==
    ASSUME NEW M, InQueues(M), NEW q, TypedQueues(q, M), NothingSatisfiable(q),
           NEW ms \in Seq(M), IsInjective(ms), NEW f, IsBatch(q, ms, f, Len(ms)), NEW n \in 0..Len(ms), NEW o \in f[n]
    PROVE  BatchResult(q, ms, o, n, M)
<1>1. Len(ms) \in Nat
  BY LenProperties
<1> DEFINE Bad == {k \in Nat : k <= Len(ms) /\ ~ \A p \in f[k] : BatchResult(q, ms, p, k, M)}
<1>2. Bad = {}
  <2> SUFFICES ASSUME Bad # {} PROVE FALSE
    OBVIOUS
  <2>1. PICK k \in Bad : \A j \in Bad : k <= j
    BY NatHasLeast
  <2>2. k \in 0..Len(ms) /\ f[k] = BatchStep(q, ms, f, k)
    BY <1>1 DEF IsBatch
  <2>3. PICK p \in f[k] : ~BatchResult(q, ms, p, k, M)
    OBVIOUS
  <2>4. CASE k = 0
    <3>1. p = [q |-> q, got |-> <<>>]
      BY <2>2, <2>3, <2>4 DEF BatchStep
    <3> QED
      BY <2>3, <2>4, <3>1, EmptyBatch
  <2>5. CASE k # 0
    <3>1. k - 1 \in Nat /\ k - 1 \notin Bad /\ k \in 1..Len(ms)
      BY <1>1, <2>1, <2>2, <2>5
    <3>2. \A y \in f[k - 1] : BatchResult(q, ms, y, k - 1, M)
      BY <1>1, <2>2, <3>1
    <3>3. PICK y \in f[k - 1] : p \in AddMessageAndTryConsume(y, ms[k])
      BY <2>2, <2>3, <2>5 DEF BatchStep
    <3>4. BatchResult(q, ms, y, k - 1, M)
      BY <3>2
    <3>5. BatchResult(q, ms, p, k, M)
      BY <3>1, <3>3, <3>4, LongerBatch
    <3> QED
      BY <2>3, <3>5
  <2> QED
    BY <2>4, <2>5
<1> QED
  BY <1>1, <1>2

LEMMA AddMessagesFacts ==
    ASSUME NEW M, InQueues(M), NEW q, TypedQueues(q, M), NothingSatisfiable(q),
           NEW ms \in Seq(M), IsInjective(ms), NEW o \in AddMessages(q, ms)
    PROVE  BatchResult(q, ms, o, Len(ms), M)
<1> DEFINE K(f) == f = [i \in 0..Len(ms) |->
                          IF i = 0 THEN {[q |-> q, got |-> <<>>]}
                          ELSE UNION {AddMessageAndTryConsume(y, ms[i]) : y \in f[i - 1]}]
           outcomes == CHOOSE f : K(f)
<1>1. Len(ms) \in Nat
  BY LenProperties
<1>2. \A f : K(f) <=> IsBatch(q, ms, f, Len(ms))
  BY DEF IsBatch, BatchStep
<1>3. K(outcomes)
  <2>1. \E f : K(f)
    BY <1>1, <1>2, BatchExists
  <2> HIDE DEF K
  <2> QED
    BY <2>1
<1>4. AddMessages(q, ms) = outcomes[Len(ms)]
  BY DEF AddMessages
<1> HIDE DEF K, outcomes
<1>5. PICK f : f = outcomes
  OBVIOUS
<1>6. IsBatch(q, ms, f, Len(ms)) /\ o \in f[Len(ms)] /\ Len(ms) \in 0..Len(ms)
  BY <1>1, <1>2, <1>3, <1>4, <1>5
<1> QED
  BY <1>6, BatchFacts

-----------------------------------------------------------------------------
(***************************************************************************)
(* A state execution registers its commands and walks over them.           *)
(***************************************************************************)
Registers(q, s, commands, p, M) ==
    /\ TypedQueues(p, M)
    /\ p.msgs = q.msgs
    /\ \A t \in StateExecIds \ {s} : p.cmds[t] = q.cmds[t]
    /\ DOMAIN p.cmds[s] = DOMAIN commands \cup DOMAIN q.cmds[s]

LEMMA RegisterFacts ==
    ASSUME NEW M, NEW q, TypedQueues(q, M), NEW s \in StateExecIds,
           NEW commands \in Seq([queue : Queues, count : Nat])
    PROVE  Registers(q, s, commands, AddNewLocalQueueCommands(q, s, commands), M)
<1> DEFINE all == [i \in DOMAIN commands \cup DOMAIN q.cmds[s] |->
                      IF i \in DOMAIN commands THEN WithDefaultCount(commands[i]) ELSE q.cmds[s][i]]
<1>1. PICK p : p = AddNewLocalQueueCommands(q, s, commands)
  OBVIOUS
<1>2. p = [q EXCEPT !.cmds[s] = all]
  BY <1>1 DEF AddNewLocalQueueCommands
<1>3. TypedCommands(q.cmds[s])
  BY DEF TypedQueues
<1>4. DOMAIN commands = 1..Len(commands) /\ Len(commands) \in Nat /\ \A i \in DOMAIN commands : commands[i] \in [queue : Queues, count : Nat]
  BY LenProperties, ElementOfSeq
<1>5. \A i \in DOMAIN commands : LET c == WithDefaultCount(commands[i])
                                 IN  c.queue \in Queues /\ c.count \in Nat /\ c.count > 0
  BY <1>4 DEF WithDefaultCount
<1>6. /\ all = [i \in DOMAIN all |-> all[i]] /\ DOMAIN all = DOMAIN commands \cup DOMAIN q.cmds[s]
      /\ \A i \in DOMAIN all : all[i] = IF i \in DOMAIN commands THEN WithDefaultCount(commands[i]) ELSE q.cmds[s][i]
  OBVIOUS
<1> HIDE DEF all
<1>7. TypedCommands(all)
  <2>1. IsFiniteSet(DOMAIN commands) /\ IsFiniteSet(DOMAIN q.cmds[s])
    BY <1>3, <1>4, FS_Interval DEF TypedCommands
  <2>2. IsFiniteSet(DOMAIN all)
    <3>1. IsFiniteSet(DOMAIN commands \cup DOMAIN q.cmds[s])
      BY <2>1, FS_Union
    <3> QED
      BY <1>6, <3>1
  <2>3. ASSUME NEW i \in DOMAIN all PROVE all[i].queue \in Queues /\ all[i].count \in Nat /\ all[i].count > 0
    <3>1. CASE i \in DOMAIN commands
      BY <1>5, <1>6, <3>1
    <3>2. CASE i \notin DOMAIN commands
      BY <1>3, <1>6, <3>2 DEF TypedCommands
    <3> QED
      BY <3>1, <3>2
  <2> QED
    BY <1>6, <2>2, <2>3 DEF TypedCommands
<1>8. q = [cmds |-> q.cmds, msgs |-> q.msgs] /\ q.cmds = [t \in StateExecIds |-> q.cmds[t]]
  BY DEF TypedQueues
<1>9. /\ p = [cmds |-> p.cmds, msgs |-> p.msgs] /\ p.msgs = q.msgs
      /\ p.cmds = [q.cmds EXCEPT ![s] = all]
  BY <1>2, <1>8
<1>10. /\ p.cmds = [t \in StateExecIds |-> p.cmds[t]] /\ p.cmds[s] = all
       /\ \A t \in StateExecIds \ {s} : p.cmds[t] = q.cmds[t]
  BY <1>8, <1>9
<1>11. \A t \in StateExecIds : TypedCommands(p.cmds[t])
  BY <1>7, <1>10 DEF TypedQueues
<1>12. TypedQueues(p, M)
  BY <1>9, <1>10, <1>11 DEF TypedQueues
<1> QED
  BY <1>1, <1>6, <1>9, <1>10, <1>12 DEF Registers

CleanFacts(q, s, p, M) ==
    /\ TypedQueues(p, M)
    /\ p.msgs = q.msgs
    /\ DOMAIN p.cmds[s] = {}
    /\ \A t \in StateExecIds \ {s} : p.cmds[t] = q.cmds[t]

LEMMA CleanupFacts ==
    ASSUME NEW M, NEW q, TypedQueues(q, M), NEW s \in StateExecIds
    PROVE  CleanFacts(q, s, CleanupFor(q, s), M)
<1>1. PICK p : p = CleanupFor(q, s)
  OBVIOUS
<1>2. q = [cmds |-> q.cmds, msgs |-> q.msgs] /\ q.cmds = [t \in StateExecIds |-> q.cmds[t]]
  BY DEF TypedQueues
<1>3. /\ p = [cmds |-> p.cmds, msgs |-> p.msgs] /\ p.msgs = q.msgs
      /\ p.cmds = [q.cmds EXCEPT ![s] = NoCommands]
  BY <1>1, <1>2 DEF CleanupFor
<1>4. /\ p.cmds = [t \in StateExecIds |-> p.cmds[t]] /\ p.cmds[s] = NoCommands
      /\ \A t \in StateExecIds \ {s} : p.cmds[t] = q.cmds[t]
  BY <1>2, <1>3
<1>5. \A t \in StateExecIds : TypedCommands(p.cmds[t])
  BY <1>4, NoCommandsTyped DEF TypedQueues
<1>6. TypedQueues(p, M)
  BY <1>3, <1>4, <1>5 DEF TypedQueues
<1> QED
  BY <1>1, <1>3, <1>4, <1>6, NoCommandsTyped DEF CleanFacts

(* Nothing more is tried once one command is enough. *)
Enough(waitingType, o) == waitingType = "ANY_OF_COMPLETION" /\ o.got # <<>>

(* The walk w over the commands of s in q has led to o after k steps. *)
WalkOK(q, s, waitingType, w, o, k, M) ==
    /\ o = [q |-> o.q, got |-> o.got]
    /\ TypedQueues(o.q, M)
    /\ TypedGot(o.got, M)
    /\ \A t \in StateExecIds \ {s} : o.q.cmds[t] = q.cmds[t]
    /\ \A j \in DOMAIN o.q.cmds[s] : j \in DOMAIN q.cmds[s] /\ o.q.cmds[s][j] = q.cmds[s][j]
    /\ \A j \in DOMAIN q.cmds[s] : j \in DOMAIN o.q.cmds[s] <=> j \notin DOMAIN o.got
    /\ \A y \in DOMAIN o.got : \E j \in 1..k : y = w[j]
    /\ \A n \in Queues : Len(o.q.msgs[n]) <= Len(q.msgs[n])
    /\ \A j \in 1..k : w[j] \in DOMAIN o.q.cmds[s] =>
          Enough(waitingType, o) \/ ~Satisfiable(o.q, o.q.cmds[s][w[j]])
    /\ \A x \in M : /\ Spots(q, x) = {} => NotHeld(o, x)
                    /\ Single(Spots(q, x)) => HeldOnce(o, x)

LEMMA EmptyWalk ==
    ASSUME NEW M, NEW q, TypedQueues(q, M), NEW s \in StateExecIds, NEW waitingType, NEW w
    PROVE  WalkOK(q, s, waitingType, w, [q |-> q, got |-> <<>>], 0, M)
<1>1. PICK o : o = [q |-> q, got |-> <<>>]
  OBVIOUS
<1>2. o.q = q /\ o.got = <<>> /\ o = [q |-> o.q, got |-> o.got] /\ DOMAIN o.got = {}
  BY <1>1
<1>3. \A x : Hands(o.got, x) = {}
  BY <1>2 DEF Hands
<1>4. \A n \in Queues : Len(q.msgs[n]) \in Nat
  BY LenProperties DEF TypedQueues, TypedMessages
<1>5. \A n \in Queues : Len(o.q.msgs[n]) <= Len(q.msgs[n])
  BY <1>2, <1>4
<1>6. \A x \in M : /\ Spots(q, x) = {} => NotHeld(o, x)
                   /\ Single(Spots(q, x)) => HeldOnce(o, x)
  BY <1>2, <1>3 DEF NotHeld, HeldOnce
<1>7. ~ \E j \in 1..0 : TRUE
  OBVIOUS
<1>8. WalkOK(q, s, waitingType, w, o, 0, M)
  BY <1>2, <1>5, <1>6, <1>7, NothingGot DEF WalkOK
<1> QED
  BY <1>1, <1>8

LEMMA LongerWalk ==
    ASSUME NEW M, InQueues(M), NEW q, TypedQueues(q, M), NEW s \in StateExecIds, NEW waitingType,
           NEW last \in Nat, NEW w, \A j \in 1..last : w[j] \in DOMAIN q.cmds[s],
           \A i, j \in 1..last : i # j => w[i] # w[j], NEW k \in 1..last,
           NEW o, WalkOK(q, s, waitingType, w, o, k - 1, M)
    PROVE  WalkOK(q, s, waitingType, w, TryConsumeOne(o, s, w[k], waitingType), k, M)
<1>1. PICK i : i = w[k]
  OBVIOUS
<1>2. k \in Nat /\ \A j : j \in 1..k <=> j \in 1..(k - 1) \/ j = k
  OBVIOUS
<1>3. /\ i \in DOMAIN q.cmds[s] /\ i \notin DOMAIN o.got /\ i \in DOMAIN o.q.cmds[s]
      /\ TypedQueues(o.q, M) /\ TypedGot(o.got, M)
  <2>1. \A j \in 1..(k - 1) : j \in 1..last /\ j # k
    OBVIOUS
  <2> QED
    BY <1>1, <2>1 DEF WalkOK
<1>4. PICK p : p = TryConsumeOne(o, s, i, waitingType)
  OBVIOUS
<1>5. CASE Enough(waitingType, o) \/ ~Satisfiable(o.q, o.q.cmds[s][i])
  <2>1. p = o
    BY <1>4, <1>5 DEF TryConsumeOne, Enough
  <2>2. \A j \in 1..k : w[j] \in DOMAIN o.q.cmds[s] =>
           Enough(waitingType, o) \/ ~Satisfiable(o.q, o.q.cmds[s][w[j]])
    BY <1>1, <1>2, <1>5 DEF WalkOK
  <2>3. \A y \in DOMAIN o.got : \E j \in 1..k : y = w[j]
    BY <1>2 DEF WalkOK
  <2>4. WalkOK(q, s, waitingType, w, o, k, M)
    BY <2>2, <2>3 DEF WalkOK
  <2> QED
    BY <1>1, <1>4, <2>1, <2>4
<1>6. CASE ~Enough(waitingType, o) /\ Satisfiable(o.q, o.q.cmds[s][i])
  <2>1. PICK a, b, g, z : a = o.q /\ b = Consumed(o.q, s, i) /\ g = o.got /\ z = Consume(o.q, s, i)
    OBVIOUS
  <2>2. p = [q |-> z, got |-> WithGot(g, i, b)]
    BY <1>4, <1>6, <2>1 DEF TryConsumeOne, Enough, WithGot
  <2>3. Takes(a, s, i, z, b, M) /\ TypedQueues(a, M) /\ i \in DOMAIN a.cmds[s] /\ Satisfiable(a, a.cmds[s][i])
    BY <1>3, <1>6, <2>1, ConsumeFacts
  <2>4. p.q = z /\ p.got = WithGot(g, i, b) /\ p = [q |-> p.q, got |-> p.got]
    BY <2>2
  <2>5. TypedQueues(z, M) /\ b \in Seq(M)
    BY <2>3 DEF Takes
  <2>6. TypedGot(WithGot(g, i, b), M)
    BY <1>3, <2>1, <2>5, WithGotTyped
  <2>7. DOMAIN p.got = DOMAIN g \cup {i} /\ i \notin DOMAIN g
    BY <1>3, <2>1, <2>4 DEF WithGot
  <2>8. \A t \in StateExecIds \ {s} : z.cmds[t] = q.cmds[t]
    <3>1. \A t \in StateExecIds \ {s} : a.cmds[t] = q.cmds[t]
      BY <2>1 DEF WalkOK
    <3>2. \A t \in StateExecIds \ {s} : z.cmds[t] = a.cmds[t]
      BY <2>3 DEF Takes
    <3> QED
      BY <3>1, <3>2
  <2>9. /\ DOMAIN z.cmds[s] = DOMAIN a.cmds[s] \ {i}
        /\ \A j \in DOMAIN z.cmds[s] : z.cmds[s][j] = a.cmds[s][j]
    BY <2>3 DEF Takes
  <2>10. \A j \in DOMAIN z.cmds[s] : j \in DOMAIN q.cmds[s] /\ z.cmds[s][j] = q.cmds[s][j]
    BY <2>1, <2>9 DEF WalkOK
  <2>11. \A j \in DOMAIN q.cmds[s] : j \in DOMAIN z.cmds[s] <=> j \notin DOMAIN p.got
    BY <2>1, <2>7, <2>9 DEF WalkOK
  <2>12. \A y \in DOMAIN p.got : \E j \in 1..k : y = w[j]
    BY <1>1, <1>2, <2>1, <2>7 DEF WalkOK
  <2>13. \A n \in Queues : Len(z.msgs[n]) \in Nat /\ Len(a.msgs[n]) \in Nat /\ Len(q.msgs[n]) \in Nat
    BY <2>3, <2>5, LenProperties DEF TypedQueues, TypedMessages
  <2>14. \A n \in Queues : Len(z.msgs[n]) <= Len(a.msgs[n])
    <3>1. PICK c : c = a.cmds[s][i]
      OBVIOUS
    <3>2. c.queue \in Queues /\ c.count \in Nat
      BY <2>3, <3>1 DEF TypedQueues, TypedCommands
    <3>3. /\ \A n \in Queues \ {c.queue} : z.msgs[n] = a.msgs[n]
          /\ Len(z.msgs[c.queue]) = Len(a.msgs[c.queue]) - c.count
      BY <2>3, <3>1 DEF Takes
    <3> QED
      BY <2>13, <3>2, <3>3
  <2>15. \A n \in Queues : Len(z.msgs[n]) <= Len(q.msgs[n])
    BY <2>1, <2>13, <2>14 DEF WalkOK
  <2>16. ASSUME NEW j \in 1..k, w[j] \in DOMAIN z.cmds[s] PROVE ~Satisfiable(z, z.cmds[s][w[j]])
    <3>1. j \in 1..(k - 1) /\ w[j] \in DOMAIN a.cmds[s] /\ z.cmds[s][w[j]] = a.cmds[s][w[j]]
      BY <1>1, <1>2, <2>9, <2>16
    <3>2. ~Satisfiable(a, a.cmds[s][w[j]])
      BY <1>6, <2>1, <3>1 DEF WalkOK
    <3>3. PICK c : c = a.cmds[s][w[j]]
      OBVIOUS
    <3>4. c.queue \in Queues /\ c.count \in Nat
      BY <2>3, <3>1, <3>3 DEF TypedQueues, TypedCommands
    <3>5. ~(c.count <= Len(a.msgs[c.queue])) /\ z.cmds[s][w[j]] = c
      BY <3>1, <3>2, <3>3 DEF Satisfiable
    <3>6. ~(c.count <= Len(z.msgs[c.queue]))
      BY <2>13, <2>14, <3>4, <3>5
    <3> QED
      BY <3>5, <3>6 DEF Satisfiable
  <2>17. ASSUME NEW x \in M
         PROVE  (Spots(q, x) = {} => NotHeld(p, x)) /\ (Single(Spots(q, x)) => HeldOnce(p, x))
    <3>1. (Spots(q, x) = {} => NotHeld(o, x)) /\ (Single(Spots(q, x)) => HeldOnce(o, x))
      BY DEF WalkOK
    <3>2. o.q = a /\ o.got = g /\ i \notin DOMAIN g
      BY <2>1, <2>7
    <3>3. (NotHeld(o, x) => NotHeld(p, x)) /\ (HeldOnce(o, x) => HeldOnce(p, x))
      BY <2>3, <2>4, <3>2, HeldMoves
    <3> QED
      BY <3>1, <3>3
  <2>18. WalkOK(q, s, waitingType, w, p, k, M)
    BY <2>4, <2>5, <2>6, <2>8, <2>10, <2>11, <2>12, <2>15, <2>16, <2>17 DEF WalkOK
  <2> QED
    BY <1>1, <1>4, <2>18
<1> QED
  BY <1>5, <1>6

LEMMA WalkFacts ==
    ASSUME NEW M, InQueues(M), NEW q, TypedQueues(q, M), NEW s \in StateExecIds, NEW waitingType,
           NEW last \in Nat, NEW w, \A j \in 1..last : w[j] \in DOMAIN q.cmds[s],
           \A i, j \in 1..last : i # j => w[i] # w[j],
           NEW f, IsWalk(q, s, waitingType, w, f, last)
    PROVE  WalkOK(q, s, waitingType, w, f[last], last, M)
<1> DEFINE Bad == {k \in Nat : k <= last /\ ~WalkOK(q, s, waitingType, w, f[k], k, M)}
<1>1. Bad = {}
  <2> SUFFICES ASSUME Bad # {} PROVE FALSE
    OBVIOUS
  <2>1. PICK k \in Bad : \A j \in Bad : k <= j
    BY NatHasLeast
  <2>2. k \in 0..last /\ f[k] = WalkStep(q, s, waitingType, w, f, k)
    BY DEF IsWalk
  <2>3. CASE k = 0
    <3>1. f[k] = [q |-> q, got |-> <<>>]
      BY <2>2, <2>3 DEF WalkStep
    <3>2. WalkOK(q, s, waitingType, w, f[k], 0, M)
      BY <3>1, EmptyWalk
    <3> QED
      BY <2>3, <3>2
  <2>4. CASE k # 0
    <3>1. k - 1 \in Nat /\ k - 1 \notin Bad /\ k \in 1..last
      BY <2>1, <2>2, <2>4
    <3>2. WalkOK(q, s, waitingType, w, f[k - 1], k - 1, M)
      BY <2>2, <3>1
    <3>3. PICK o : o = f[k - 1]
      OBVIOUS
    <3>4. f[k] = TryConsumeOne(o, s, w[k], waitingType)
      BY <2>2, <2>4, <3>3 DEF WalkStep
    <3>5. WalkOK(q, s, waitingType, w, o, k - 1, M)
      BY <3>2, <3>3
    <3>6. WalkOK(q, s, waitingType, w, TryConsumeOne(o, s, w[k], waitingType), k, M)
      BY <3>1, <3>5, LongerWalk
    <3> QED
      BY <3>4, <3>6
  <2> QED
    BY <2>3, <2>4
<1> QED
  BY <1>1

Visits(w, S) == \A i \in S : \E j \in 1..Len(w) : i = w[j]

LEMMA ConsumeInOrderFacts ==
    ASSUME NEW M, InQueues(M), NEW q, TypedQueues(q, M), NEW s \in StateExecIds, NEW waitingType,
           NEW w \in SetToSeqs(DOMAIN q.cmds[s])
    PROVE  /\ WalkOK(q, s, waitingType, w, ConsumeInOrder(q, s, waitingType, w), Len(w), M)
           /\ Visits(w, DOMAIN q.cmds[s])
<1> DEFINE K(f) == f = [i \in 0..Len(w) |->
                          IF i = 0 THEN [q |-> q, got |-> <<>>]
                          ELSE TryConsumeOne(f[i - 1], s, w[i], waitingType)]
           after == CHOOSE f : K(f)
<1>1. PICK n : n = Cardinality(DOMAIN q.cmds[s])
  OBVIOUS
<1>2. IsFiniteSet(DOMAIN q.cmds[s]) /\ n \in Nat
  BY <1>1, FS_CardinalityType DEF TypedQueues, TypedCommands
<1>3. w \in [1..n -> DOMAIN q.cmds[s]] /\ \A i, j \in 1..n : i # j => w[i] # w[j]
  BY <1>1 DEF SetToSeqs
<1>4. w \in Seq(DOMAIN q.cmds[s]) /\ Len(w) = n
  BY <1>2, <1>3
<1>5. \A f : K(f) <=> IsWalk(q, s, waitingType, w, f, Len(w))
  BY DEF IsWalk, WalkStep
<1>6. K(after)
  <2>1. \E f : K(f)
    BY <1>2, <1>4, <1>5, WalkExists
  <2> HIDE DEF K
  <2> QED
    BY <2>1
<1>7. ConsumeInOrder(q, s, waitingType, w) = after[Len(w)]
  BY DEF ConsumeInOrder
<1> HIDE DEF K, after
<1>8. PICK f : f = after
  OBVIOUS
<1>9. /\ IsWalk(q, s, waitingType, w, f, n) /\ \A j \in 1..n : w[j] \in DOMAIN q.cmds[s]
  BY <1>3, <1>4, <1>5, <1>6, <1>8
<1>10. WalkOK(q, s, waitingType, w, f[n], n, M)
  BY <1>2, <1>3, <1>9, WalkFacts
<1>11. \A i \in DOMAIN q.cmds[s] : \E j \in 1..n : i = w[j]
  <2>1. w \in Injection(1..n, DOMAIN q.cmds[s])
    BY <1>3 DEF Injection, IsInjective
  <2>2. IsFiniteSet(1..n) /\ Cardinality(1..n) = n
    BY <1>2, FS_Interval
  <2>3. w \in Surjection(1..n, DOMAIN q.cmds[s])
    BY <1>1, <1>2, <2>1, <2>2, FS_Injection
  <2> QED
    BY <2>3 DEF Surjection
<1> QED
  BY <1>4, <1>7, <1>8, <1>10, <1>11 DEF Visits

(* State execution s has registered commands in q and taken what is there. *)
RegisterResult(q, s, commands, waitingType, o, M) ==
    /\ TypedQueues(o.q, M)
    /\ TypedGot(o.got, M)
    /\ NothingSatisfiable(o.q)
    /\ \A t \in StateExecIds \ {s} : o.q.cmds[t] = q.cmds[t]
    /\ Enough(waitingType, o) \/ DOMAIN commands \subseteq DOMAIN o.q.cmds[s] \cup DOMAIN o.got
    /\ \A x \in M : /\ Spots(q, x) = {} => NotHeld(o, x)
                    /\ Single(Spots(q, x)) => HeldOnce(o, x)

LEMMA TryConsumeFacts ==
    ASSUME NEW M, InQueues(M), NEW q, TypedQueues(q, M), NothingSatisfiable(q), NEW s \in StateExecIds,
           NEW commands \in Seq([queue : Queues, count : Nat]), NEW waitingType,
           NEW o \in TryConsumeForStateExecution(AddNewLocalQueueCommands(q, s, commands), s, waitingType)
    PROVE  RegisterResult(q, s, commands, waitingType, o, M)
<1>1. PICK r : r = AddNewLocalQueueCommands(q, s, commands)
  OBVIOUS
<1>2. /\ TypedQueues(r, M) /\ r.msgs = q.msgs
      /\ \A t \in StateExecIds \ {s} : r.cmds[t] = q.cmds[t]
      /\ DOMAIN r.cmds[s] = DOMAIN commands \cup DOMAIN q.cmds[s]
  <2>1. Registers(q, s, commands, r, M)
    BY <1>1, RegisterFacts
  <2> QED
    BY <2>1 DEF Registers
<1>3. PICK w \in SetToSeqs(DOMAIN r.cmds[s]) :
        o = CleanedUp(ConsumeInOrder(r, s, waitingType, w), s, waitingType)
  BY <1>1 DEF TryConsumeForStateExecution
<1>4. PICK p : p = ConsumeInOrder(r, s, waitingType, w)
  OBVIOUS
<1>5. WalkOK(r, s, waitingType, w, p, Len(w), M) /\ Visits(w, DOMAIN r.cmds[s])
  BY <1>2, <1>4, ConsumeInOrderFacts
<1>6. /\ p = [q |-> p.q, got |-> p.got] /\ TypedQueues(p.q, M) /\ TypedGot(p.got, M)
      /\ \A t \in StateExecIds \ {s} : p.q.cmds[t] = q.cmds[t]
      /\ \A j \in DOMAIN p.q.cmds[s] : j \in DOMAIN r.cmds[s]
      /\ \A j \in DOMAIN r.cmds[s] : j \in DOMAIN p.q.cmds[s] <=> j \notin DOMAIN p.got
      /\ \A n \in Queues : Len(p.q.msgs[n]) <= Len(q.msgs[n])
      /\ \A j \in DOMAIN p.q.cmds[s] : Enough(waitingType, p) \/ ~Satisfiable(p.q, p.q.cmds[s][j])
      /\ \A x \in M : /\ Spots(r, x) = {} => NotHeld(p, x)
                      /\ Single(Spots(r, x)) => HeldOnce(p, x)
  <2>1. \A j \in DOMAIN p.q.cmds[s] : Enough(waitingType, p) \/ ~Satisfiable(p.q, p.q.cmds[s][j])
    BY <1>5 DEF WalkOK, Visits
  <2>2. \A t \in StateExecIds \ {s} : p.q.cmds[t] = q.cmds[t]
    BY <1>2, <1>5 DEF WalkOK
  <2> QED
    BY <1>2, <1>5, <2>1, <2>2 DEF WalkOK
<1>7. \A x : Spots(r, x) = Spots(q, x)
  BY <1>2 DEF Spots
<1>8. \A n \in Queues : Len(p.q.msgs[n]) \in Nat /\ Len(q.msgs[n]) \in Nat
  BY <1>6, LenProperties DEF TypedQueues, TypedMessages
<1>9. ASSUME NEW t \in StateExecIds \ {s}, NEW j \in DOMAIN p.q.cmds[t]
      PROVE  Len(p.q.msgs[p.q.cmds[t][j].queue]) < p.q.cmds[t][j].count
  <2>1. PICK c : c = p.q.cmds[t][j]
    OBVIOUS
  <2>2. c = q.cmds[t][j] /\ j \in DOMAIN q.cmds[t]
    BY <1>6, <2>1
  <2>3. c.queue \in Queues /\ c.count \in Nat /\ DOMAIN q.cmds = StateExecIds
    BY <2>2 DEF TypedQueues, TypedCommands
  <2>4. Len(q.msgs[c.queue]) < c.count
    BY <2>2, <2>3 DEF NothingSatisfiable
  <2>5. Len(p.q.msgs[c.queue]) < c.count
    BY <1>6, <1>8, <2>3, <2>4
  <2> QED
    BY <2>1, <2>5
<1>10. DOMAIN p.q.cmds = StateExecIds
  BY <1>6 DEF TypedQueues
<1>11. CASE Enough(waitingType, p)
  <2>1. o = [p EXCEPT !.q = CleanupFor(p.q, s)]
    BY <1>3, <1>4, <1>11 DEF CleanedUp, Enough
  <2>2. o.q = CleanupFor(p.q, s) /\ o.got = p.got
    BY <1>6, <2>1
  <2>3. CleanFacts(p.q, s, o.q, M)
    BY <1>6, <2>2, CleanupFacts
  <2>4. /\ TypedQueues(o.q, M) /\ o.q.msgs = p.q.msgs /\ DOMAIN o.q.cmds[s] = {}
        /\ \A t \in StateExecIds \ {s} : o.q.cmds[t] = p.q.cmds[t]
    BY <2>3 DEF CleanFacts
  <2>5. NothingSatisfiable(o.q)
    <3>1. DOMAIN o.q.cmds = StateExecIds
      BY <2>4 DEF TypedQueues
    <3>2. ASSUME NEW t \in StateExecIds, NEW j \in DOMAIN o.q.cmds[t]
          PROVE  Len(o.q.msgs[o.q.cmds[t][j].queue]) < o.q.cmds[t][j].count
      BY <1>9, <2>4
    <3> QED
      BY <3>1, <3>2 DEF NothingSatisfiable
  <2>6. \A x : Spots(o.q, x) = Spots(p.q, x) /\ Hands(o.got, x) = Hands(p.got, x)
    BY <2>2, <2>4 DEF Spots
  <2>7. \A x \in M : /\ Spots(q, x) = {} => NotHeld(o, x)
                     /\ Single(Spots(q, x)) => HeldOnce(o, x)
    BY <1>6, <1>7, <2>6 DEF NotHeld, HeldOnce
  <2>8. Enough(waitingType, o)
    BY <1>11, <2>2 DEF Enough
  <2>9. \A t \in StateExecIds \ {s} : o.q.cmds[t] = q.cmds[t]
    BY <1>6, <2>4
  <2> QED
    BY <1>6, <2>2, <2>4, <2>5, <2>7, <2>8, <2>9 DEF RegisterResult
<1>12. CASE ~Enough(waitingType, p)
  <2>1. o = p
    BY <1>3, <1>4, <1>12 DEF CleanedUp, Enough
  <2>2. ASSUME NEW j \in DOMAIN p.q.cmds[s] PROVE Len(p.q.msgs[p.q.cmds[s][j].queue]) < p.q.cmds[s][j].count
    <3>1. ~Satisfiable(p.q, p.q.cmds[s][j])
      BY <1>6, <1>12
    <3>2. p.q.cmds[s][j].queue \in Queues /\ p.q.cmds[s][j].count \in Nat
      BY <1>6 DEF TypedQueues, TypedCommands
    <3> QED
      BY <1>8, <3>1, <3>2 DEF Satisfiable
  <2>3. NothingSatisfiable(p.q)
    BY <1>9, <1>10, <2>2 DEF NothingSatisfiable
  <2>4. DOMAIN commands \subseteq DOMAIN p.q.cmds[s] \cup DOMAIN p.got
    BY <1>2, <1>6
  <2>5. \A x \in M : /\ Spots(q, x) = {} => NotHeld(p, x)
                     /\ Single(Spots(q, x)) => HeldOnce(p, x)
    BY <1>6, <1>7
  <2> QED
    BY <1>6, <2>1, <2>3, <2>4, <2>5 DEF RegisterResult
<1> QED
  BY <1>11, <1>12

-----------------------------------------------------------------------------
(* The new messages of a publication: each once, and none that is known. *)
NewOnes(known, ms, b) ==
    /\ b \in Seq(Range(ms))
    /\ IsInjective(b)
    /\ Range(b) \cap known = {}

LEMMA NewOnesGrow ==
    ASSUME NEW known, NEW ms, NEW b, NewOnes(known, ms, b), NEW m \in Range(ms), m \notin known \cup Range(b)
    PROVE  NewOnes(known, ms, Append(b, m))
<1>1. b \in Seq(Range(ms)) /\ IsInjective(b) /\ Range(b) \cap known = {} /\ Len(b) \in Nat /\ DOMAIN b = 1..Len(b)
  BY LenProperties DEF NewOnes
<1>2. PICK a : a = Append(b, m)
  OBVIOUS
<1>3. /\ a \in Seq(Range(ms)) /\ Len(a) = Len(b) + 1 /\ (\A k \in 1..Len(b) : a[k] = b[k]) /\ a[Len(b) + 1] = m
  BY <1>1, <1>2, AppendProperties
<1>4. DOMAIN a = 1..(Len(b) + 1)
  BY <1>3, LenProperties
<1>5. \A k \in 1..(Len(b) + 1) : k \in 1..Len(b) \/ k = Len(b) + 1
  BY <1>1
<1>6. \A k \in 1..Len(b) : b[k] # m
  BY <1>1 DEF Range
<1>7. IsInjective(a)
  BY <1>1, <1>3, <1>4, <1>5, <1>6 DEF IsInjective
<1>8. Range(a) \cap known = {}
  BY <1>1, <1>3, <1>4, <1>5 DEF Range
<1> QED
  BY <1>2, <1>3, <1>7, <1>8 DEF NewOnes

LEMMA FreshOK ==
    ASSUME NEW known, NEW ms, ms \in Seq(Range(ms)), NEW f, IsFresh(known, ms, f, Len(ms))
    PROVE  NewOnes(known, ms, f[Len(ms)])
<1>1. Len(ms) \in Nat /\ DOMAIN ms = 1..Len(ms)
  BY LenProperties
<1> DEFINE Bad == {k \in Nat : k <= Len(ms) /\ ~NewOnes(known, ms, f[k])}
<1>2. Bad = {}
  <2> SUFFICES ASSUME Bad # {} PROVE FALSE
    OBVIOUS
  <2>1. PICK k \in Bad : \A j \in Bad : k <= j
    BY NatHasLeast
  <2>2. k \in 0..Len(ms) /\ f[k] = FreshStep(known, ms, f, k)
    BY <1>1 DEF IsFresh
  <2>3. CASE k = 0
    <3>1. f[k] = <<>> /\ <<>> \in Seq(Range(ms)) /\ DOMAIN <<>> = {}
      BY <2>2, <2>3 DEF FreshStep
    <3>2. NewOnes(known, ms, <<>>)
      BY <3>1 DEF NewOnes, IsInjective, Range
    <3> QED
      BY <3>1, <3>2
  <2>4. CASE k # 0
    <3>1. k - 1 \in Nat /\ k - 1 \notin Bad /\ k \in 1..Len(ms)
      BY <1>1, <2>1, <2>2, <2>4
    <3>2. PICK b : b = f[k - 1]
      OBVIOUS
    <3>3. NewOnes(known, ms, b)
      BY <1>1, <2>2, <3>1, <3>2
    <3>4. f[k] = IF \E x \in known \cup Range(b) : x.id = ms[k].id THEN b ELSE Append(b, ms[k])
      BY <2>2, <2>4, <3>2 DEF FreshStep
    <3>5. ms[k] \in Range(ms)
      BY <1>1, <3>1 DEF Range
    <3>6. CASE \E x \in known \cup Range(b) : x.id = ms[k].id
      BY <3>3, <3>4, <3>6
    <3>7. CASE ~ \E x \in known \cup Range(b) : x.id = ms[k].id
      <4>1. ms[k] \notin known \cup Range(b)
        BY <3>7
      <4>2. NewOnes(known, ms, Append(b, ms[k]))
        BY <3>3, <3>5, <4>1, NewOnesGrow
      <4> QED
        BY <3>4, <3>7, <4>2
    <3> QED
      BY <3>6, <3>7
  <2> QED
    BY <2>3, <2>4
<1> QED
  BY <1>1, <1>2

LEMMA FreshFacts ==
    ASSUME NEW e, NEW ms \in Publications
    PROVE  NewOnes(messages[e], ms, FreshMessages(e, ms)) /\ InQueues(Range(ms))
<1>1. PICK known : known = messages[e]
  OBVIOUS
<1>2. ms \in Seq(Range(ms)) /\ Len(ms) \in Nat /\ InQueues(Range(ms))
  BY PublicationAssumption, LenProperties DEF InQueues
<1> DEFINE K(f) == f = [i \in 0..Len(ms) |->
                          IF i = 0 THEN <<>>
                          ELSE LET before == f[i - 1]
                               IN  IF \E x \in messages[e] \cup Range(before) : x.id = ms[i].id
                                   THEN before ELSE Append(before, ms[i])]
           fresh == CHOOSE f : K(f)
<1>3. \A f : K(f) <=> IsFresh(known, ms, f, Len(ms))
  BY <1>1 DEF IsFresh, FreshStep
<1>4. K(fresh)
  <2>1. \E f : K(f)
    BY <1>2, <1>3, FreshExists
  <2> HIDE DEF K
  <2> QED
    BY <2>1
<1>5. FreshMessages(e, ms) = fresh[Len(ms)]
  BY DEF FreshMessages
<1> HIDE DEF K, fresh
<1>6. PICK f : f = fresh
  OBVIOUS
<1>7. IsFresh(known, ms, f, Len(ms))
  BY <1>3, <1>4, <1>6
<1>8. NewOnes(known, ms, f[Len(ms)])
  BY <1>2, <1>7, FreshOK
<1> QED
  BY <1>1, <1>2, <1>5, <1>6, <1>8

-----------------------------------------------------------------------------
(***************************************************************************)
(* The inductive invariant.                                                *)
(***************************************************************************)

(* The messages a task carries have been published, each once. *)
InfoIn(t, M) == t.type = "NewLocalQueueMessages" => t.info \in Seq(M[t.exec]) /\ IsInjective(t.info)

TypedRow(row, M) == TypedGot(row.queueResults, M) /\ IsFiniteSet(row.timerResults)

(* What worker x prepared is a version the row has, or had. *)
Prepared(x, rows) ==
    x.pc \in {"waitUntil", "execute"} =>
        LET row == rows[x.row.task.exec][x.row.task.sid]
        IN  /\ x.version \in Nat /\ x.version <= row.version
            /\ x.version = row.version => row.status \in DueStates

(* While the process runs, a command belongs to a waiting state execution, *)
(* and what such a state execution waits for can arrive.                   *)
TimerOf(timers, e, s, i) == \E r \in timers : r.task = Task("TimerCommand", e, s, i)

WaitsWell(e, s, row, cmds, timers) ==
    /\ DOMAIN cmds # {} => row.status = "WaitUntilWaiting"
    /\ row.status = "WaitUntilWaiting" =>
          /\ DOMAIN row.command.queues \subseteq DOMAIN row.queueResults \cup DOMAIN cmds
          /\ \A i \in 1..row.command.timers : i \in row.timerResults \/ TimerOf(timers, e, s, i)

MessagesOK ==
    /\ messages = [e \in Execs |-> messages[e]]
    /\ \A e \in Execs : InQueues(messages[e])

InfosOK ==
    /\ \A r \in imm : InfoIn(r.task, messages)
    /\ \A w \in Workers : worker[w].pc \in ImmediatePcs => InfoIn(worker[w].row.task, messages)

VersionsOK == \A w \in Workers : Prepared(worker[w], st)

HoldingsOK ==
    /\ lq = [e \in Execs |-> lq[e]]
    /\ \A e \in Execs : TypedQueues(lq[e], messages[e]) /\ NothingSatisfiable(lq[e])
    /\ \A e \in Execs : \A s \in StateExecIds : TypedRow(st[e][s], messages[e])

WaitsOK ==
    \A e \in Execs : prc[e].status = "Running" =>
        \A s \in StateExecIds : WaitsWell(e, s, st[e][s], lq[e].cmds[s], tim)

QueueInv == MessagesOK /\ InfosOK /\ VersionsOK /\ HoldingsOK /\ WaitsOK

-----------------------------------------------------------------------------
(* What a step does to each part of the state.                             *)
MessagesStep ==
    /\ MessagesOK'
    /\ \A e \in Execs : messages[e] \subseteq messages'[e]

InfosStep == \A r \in imm' : r \in imm \/ InfoIn(r.task, messages')

WorkerAfter(x) ==
    /\ x.pc \in ImmediatePcs => InfoIn(x.row.task, messages')
    /\ Prepared(x, st')

Moved(old, new) == new = old \/ old.status = "None" \/ new.version > old.version

VersionsStep == \A e \in Execs : \A s \in StateExecIds : Moved(st[e][s], st'[e][s])

LEMMA InfoGrows ==
    ASSUME MessagesStep, NEW t, t.exec \in Execs, InfoIn(t, messages)
    PROVE  InfoIn(t, messages')
<1>1. PICK M, N : M = messages[t.exec] /\ N = messages'[t.exec]
  OBVIOUS
<1>2. M \subseteq N
  BY <1>1 DEF MessagesStep
<1>3. t.info \in Seq(M) => t.info \in Seq(N)
  BY <1>2
<1> QED
  BY <1>1, <1>3 DEF InfoIn

LEMMA PreparedMoves ==
    ASSUME TablesInv, TablesInv', VersionsStep, NEW w \in Workers, Prepared(worker[w], st)
    PROVE  Prepared(worker[w], st')
<1> SUFFICES ASSUME worker[w].pc \in {"waitUntil", "execute"} PROVE Prepared(worker[w], st')
  BY DEF Prepared
<1>1. PICK e, s : e = worker[w].row.task.exec /\ s = worker[w].row.task.sid
  OBVIOUS
<1>2. e \in Execs /\ s \in StateExecIds /\ st[e][s].status # "None" /\ TypedState(st[e][s])
  BY <1>1, PreparedState
<1>3. TypedState(st'[e][s])
  BY <1>2 DEF TablesInv, ExecsOK, ExecInv, ExecBase, StateTable
<1>4. st[e][s].version \in Nat /\ st'[e][s].version \in Nat
  BY <1>2, <1>3 DEF TypedState
<1>5. st'[e][s] = st[e][s] \/ st'[e][s].version > st[e][s].version
  BY <1>2 DEF VersionsStep, Moved
<1>6. /\ worker[w].version \in Nat /\ worker[w].version <= st[e][s].version
      /\ worker[w].version = st[e][s].version => st[e][s].status \in DueStates
  BY <1>1 DEF Prepared
<1>7. /\ worker[w].version <= st'[e][s].version
      /\ worker[w].version = st'[e][s].version => st'[e][s].status \in DueStates
  BY <1>4, <1>5, <1>6
<1> QED
  BY <1>1, <1>6, <1>7 DEF Prepared

(* Putting a step together. *)
LEMMA QueueStep ==
    ASSUME TablesInv, TablesInv', QueueInv, MessagesStep, InfosStep, VersionsStep,
           \A w \in Workers : worker'[w] = worker[w] \/ WorkerAfter(worker'[w]),
           HoldingsOK', WaitsOK'
    PROVE  QueueInv'
<1>1. InfosOK /\ VersionsOK
  BY DEF QueueInv
<1>2. ASSUME NEW r \in imm' PROVE InfoIn(r.task, messages')
  <2>1. CASE r \in imm
    <3>1. r.task.exec \in Execs
      BY <2>1 DEF TablesInv, QueuesOK, TaskOK
    <3> QED
      BY <1>1, <2>1, <3>1, InfoGrows DEF InfosOK
  <2>2. CASE InfoIn(r.task, messages')
    BY <2>2
  <2> QED
    BY <2>1, <2>2 DEF InfosStep
<1>3. ASSUME NEW w \in Workers PROVE WorkerAfter(worker'[w])
  <2>1. CASE worker'[w] = worker[w]
    <3>1. Prepared(worker[w], st')
      BY <1>1, PreparedMoves DEF VersionsOK
    <3>2. worker[w].pc \in ImmediatePcs => InfoIn(worker[w].row.task, messages')
      <4> SUFFICES ASSUME worker[w].pc \in ImmediatePcs PROVE InfoIn(worker[w].row.task, messages')
        OBVIOUS
      <4>1. worker[w].row.task.exec \in Execs
        BY HeldTask DEF ImmediatePcs
      <4> QED
        BY <1>1, <4>1, InfoGrows DEF InfosOK
    <3> QED
      BY <2>1, <3>1, <3>2 DEF WorkerAfter
  <2> QED
    BY <2>1
<1>4. InfosOK'
  BY <1>2, <1>3 DEF InfosOK, WorkerAfter
<1>5. VersionsOK'
  BY <1>3 DEF VersionsOK, WorkerAfter
<1> QED
  BY <1>4, <1>5 DEF QueueInv, MessagesStep

(* A worker that commits is idle or has its task back. *)
LEMMA CommitWorkers ==
    ASSUME TablesInv, QueueInv, MessagesStep, NEW w \in Workers, worker[w].pc # "idle", Acknowledged(w)
    PROVE  \A x \in Workers : worker'[x] = worker[x] \/ WorkerAfter(worker'[x])
<1>1. WorkerAfter(Idle)
  BY DEF WorkerAfter, Idle, ImmediatePcs, Prepared
<1>2. worker[w].row.task.exec \in Execs /\ WorkerOK(worker[w])
  BY HeldTask DEF TablesInv, CallersOK
<1>3. WorkerAfter(Requeued(w))
  <2>1. CASE worker[w].pc \in TimerPcs
    <3>1. Requeued(w).pc = "timer"
      BY <2>1 DEF Requeued, Holding, Idle, TimerPcs
    <3> QED
      BY <3>1 DEF WorkerAfter, ImmediatePcs, Prepared
  <2>2. CASE worker[w].pc \notin TimerPcs
    <3>1. Requeued(w).pc = "immediate" /\ Requeued(w).row = worker[w].row
      BY <2>2 DEF Requeued, Holding, Idle, TimerPcs
    <3>2. worker[w].pc \in ImmediatePcs
      BY <1>2, <2>2 DEF WorkerOK, TypedWorker, TimerPcs, ImmediatePcs
    <3>3. InfoIn(worker[w].row.task, messages')
      BY <1>2, <3>2, InfoGrows DEF QueueInv, InfosOK
    <3> QED
      BY <3>1, <3>3 DEF WorkerAfter, Prepared
  <2> QED
    BY <2>1, <2>2
<1>4. worker = [x \in Workers |-> worker[x]]
  BY DEF TablesInv, CallersOK
<1>5. \A x \in Workers : worker'[x] = worker[x] \/ worker'[x] \in {Idle, Requeued(w)}
  BY <1>4 DEF Acknowledged
<1> QED
  BY <1>1, <1>3, <1>5

-----------------------------------------------------------------------------
(* Publications and tasks.                                                 *)
LEMMA PublishedMessages ==
    ASSUME MessagesOK, NEW e \in Execs, NEW ms \in Publications, Publish(e, ms)
    PROVE  /\ MessagesStep
           /\ \A t \in PublishTasks(e, ms) : InfoIn(t, messages')
<1>1. PICK b : b = FreshMessages(e, ms)
  OBVIOUS
<1>2. b \in Seq(Range(ms)) /\ IsInjective(b) /\ InQueues(Range(ms))
  BY <1>1, FreshFacts DEF NewOnes
<1>3. Range(b) \subseteq Range(ms) /\ b \in Seq(Range(b))
  <2>1. b \in [1..Len(b) -> Range(ms)] /\ DOMAIN b = 1..Len(b) /\ Len(b) \in Nat
    BY <1>2, LenProperties
  <2>2. \A i \in 1..Len(b) : b[i] \in Range(b)
    BY <2>1 DEF Range
  <2> QED
    BY <2>1, <2>2 DEF Range
<1>4. messages' = [messages EXCEPT ![e] = messages[e] \cup Range(b)]
  BY <1>1 DEF Publish
<1>5. /\ messages' = [x \in Execs |-> messages'[x]]
      /\ messages'[e] = messages[e] \cup Range(b)
      /\ \A x \in Execs \ {e} : messages'[x] = messages[x]
  BY <1>4 DEF MessagesOK
<1>6. \A x \in Execs : InQueues(messages'[x]) /\ messages[x] \subseteq messages'[x]
  BY <1>2, <1>3, <1>5 DEF InQueues, MessagesOK
<1>7. MessagesStep
  BY <1>5, <1>6 DEF MessagesStep, MessagesOK
<1>8. ASSUME NEW t \in PublishTasks(e, ms) PROVE InfoIn(t, messages')
  <2>1. t = Task("NewLocalQueueMessages", e, NoState, b)
    BY <1>1 DEF PublishTasks
  <2>2. t.exec = e /\ t.info = b
    BY <2>1 DEF Task
  <2>3. b \in Seq(messages'[e])
    <3>1. PICK S, N : S = Range(b) /\ N = messages'[e]
      OBVIOUS
    <3>2. S \subseteq N /\ b \in Seq(S)
      BY <1>3, <1>5, <3>1
    <3>3. b \in Seq(N)
      BY <3>2
    <3> QED
      BY <3>1, <3>3
  <2> QED
    BY <1>2, <2>2, <2>3 DEF InfoIn
<1> QED
  BY <1>7, <1>8

LEMMA NothingPublished == ASSUME MessagesOK, UNCHANGED messages PROVE MessagesStep
BY DEF MessagesOK, MessagesStep

LEMMA OtherInfo == ASSUME NEW t, t.type # "NewLocalQueueMessages", NEW M PROVE InfoIn(t, M)
BY DEF InfoIn

LEMMA OtherTasks ==
    ASSUME NEW M
    PROVE  /\ \A e, s : InfoIn(ExecuteTask(e, s), M) /\ InfoIn(FirstTask(e, s), M)
           /\ \A e, status : InfoIn(VisibilityTask(e, status), M)
<1>1. \A e, s : ExecuteTask(e, s).type = "Execute" /\ FirstTask(e, s).type \in {"Execute", "WaitUntil"}
  BY DEF ExecuteTask, FirstTask, Task
<1>2. \A e, status : VisibilityTask(e, status).type = "Visibility"
  BY DEF VisibilityTask, Task
<1> QED
  BY <1>1, <1>2 DEF InfoIn

LEMMA InfosInserted ==
    ASSUME QueuesOK, NEW new, NEW kept, kept \subseteq imm, IsFiniteSet(new), WriteImmediate(new, kept),
           \A t \in new : InfoIn(t, messages')
    PROVE  InfosStep
BY WriteImmediateEffect DEF InfosStep, QueuesOK

LEMMA InfosDeleted == ASSUME imm' \subseteq imm PROVE InfosStep
BY DEF InfosStep

-----------------------------------------------------------------------------
(* Transactions that leave the local queues alone.                         *)
SameResults(old, new) ==
    \/ new.queueResults = old.queueResults /\ new.timerResults = old.timerResults
    \/ new.queueResults = <<>> /\ new.timerResults = {}

RowStep(live, old, new) ==
    \/ new = old
    \/ /\ old.status = "None" \/ new.version > old.version
       /\ SameResults(old, new)
       /\ live => old.status # "WaitUntilWaiting" /\ new.status # "WaitUntilWaiting"

RowsStep == \A e \in Execs : \A s \in StateExecIds : RowStep(prc'[e].status = "Running", st[e][s], st'[e][s])

TimersKept == \A e \in Execs : \A s \in StateExecIds : \A i : TimerOf(tim, e, s, i) => TimerOf(tim', e, s, i)

LEMMA WithStatusKeeps ==
    ASSUME NEW row, TypedState(row), NEW status, NEW x, x = WithStatus(row, status)
    PROVE  /\ x.status = status /\ x.version = row.version + 1 /\ x.version > row.version
           /\ x.command = row.command
           /\ x.queueResults = row.queueResults /\ x.timerResults = row.timerResults
BY DEF WithStatus, TypedState

LEMMA StatusStep ==
    ASSUME NEW row, TypedState(row), NEW status, NEW live \in BOOLEAN,
           live => row.status # "WaitUntilWaiting" /\ status # "WaitUntilWaiting"
    PROVE  RowStep(live, row, WithStatus(row, status))
<1>1. PICK x : x = WithStatus(row, status)
  OBVIOUS
<1>2. /\ x.status = status /\ x.version > row.version
      /\ x.queueResults = row.queueResults /\ x.timerResults = row.timerResults
  BY <1>1, WithStatusKeeps
<1> QED
  BY <1>1, <1>2 DEF RowStep, SameResults

LEMMA NewRowStep ==
    ASSUME NEW row, row.status = "None", NEW s, NEW config, NEW live
    PROVE  RowStep(live, row, NewStateRow(s, config)) /\ RowStep(live, row, NoRow)
BY DEF RowStep, NewStateRow, NoRow, SameResults

LEMMA AbortStep ==
    ASSUME NEW rows, StateTable(rows), NEW s \in StateExecIds
    PROVE  RowStep(FALSE, rows[s], AbortRunning(rows)[s])
<1>1. CASE rows[s].status \in ActiveStates
  <2>1. AbortRunning(rows)[s] = WithStatus(rows[s], "Aborted") /\ TypedState(rows[s])
    BY <1>1 DEF AbortRunning, StateTable
  <2> QED
    BY <2>1, StatusStep
<1>2. CASE rows[s].status \notin ActiveStates
  BY <1>2 DEF AbortRunning, RowStep
<1> QED
  BY <1>1, <1>2

LEMMA RowsTyped ==
    ASSUME QueueInv, MessagesStep, RowsStep, NEW e \in Execs, NEW s \in StateExecIds
    PROVE  TypedRow(st'[e][s], messages'[e])
<1>1. TypedRow(st[e][s], messages'[e])
  BY MoreMessages DEF QueueInv, HoldingsOK, MessagesStep, TypedRow
<1>2. CASE SameResults(st[e][s], st'[e][s])
  BY <1>1, <1>2, NothingGot, FS_EmptySet DEF SameResults, TypedRow
<1>3. CASE st'[e][s] = st[e][s]
  BY <1>1, <1>3
<1> QED
  BY <1>2, <1>3 DEF RowsStep, RowStep

LEMMA QuietHoldings ==
    ASSUME QueueInv, MessagesStep, UNCHANGED lq, RowsStep
    PROVE  HoldingsOK'
<1>1. HoldingsOK
  BY DEF QueueInv
<1>2. \A e \in Execs : TypedQueues(lq[e], messages'[e])
  BY <1>1, MoreMessages DEF HoldingsOK, MessagesStep
<1>3. \A e \in Execs : \A s \in StateExecIds : TypedRow(st'[e][s], messages'[e])
  BY RowsTyped
<1> QED
  BY <1>1, <1>2, <1>3 DEF HoldingsOK

(* A state execution that is none of the transaction's business. *)
LEMMA WaitStays ==
    ASSUME QueueInv, TimersKept, NEW e \in Execs, NEW s \in StateExecIds, prc[e].status = "Running",
           NEW cmds, DOMAIN cmds = DOMAIN lq[e].cmds[s], NEW row, RowStep(TRUE, st[e][s], row)
    PROVE  WaitsWell(e, s, row, cmds, tim')
<1>1. WaitsWell(e, s, st[e][s], lq[e].cmds[s], tim)
  BY DEF QueueInv, WaitsOK
<1>2. CASE row = st[e][s]
  <2>1. WaitsWell(e, s, st[e][s], cmds, tim')
    BY <1>1 DEF WaitsWell, TimersKept
  <2> QED
    BY <1>2, <2>1
<1>3. CASE st[e][s].status # "WaitUntilWaiting" /\ row.status # "WaitUntilWaiting"
  BY <1>1, <1>3 DEF WaitsWell
<1> QED
  BY <1>2, <1>3 DEF RowStep

LEMMA QuietQueues ==
    ASSUME TablesInv, TablesInv', QueueInv, MessagesStep, InfosStep, TimersKept, RowsStep, UNCHANGED lq,
           \A w \in Workers : worker'[w] = worker[w] \/ WorkerAfter(worker'[w]),
           \A e \in Execs : prc'[e].status = "Running" => prc[e].status = "Running"
    PROVE  QueueInv'
<1>1. HoldingsOK'
  BY QuietHoldings
<1>2. VersionsStep
  BY DEF VersionsStep, RowsStep, RowStep, Moved
<1>3. ASSUME NEW e \in Execs, prc'[e].status = "Running", NEW s \in StateExecIds
      PROVE  WaitsWell(e, s, st'[e][s], lq'[e].cmds[s], tim')
  <2>1. prc[e].status = "Running" /\ DOMAIN lq'[e].cmds[s] = DOMAIN lq[e].cmds[s]
    BY <1>3
  <2>2. RowStep(TRUE, st[e][s], st'[e][s])
    <3>1. RowStep(prc'[e].status = "Running", st[e][s], st'[e][s])
      BY DEF RowsStep
    <3> QED
      BY <1>3, <3>1 DEF RowStep
  <2>3. PICK cmds, row : cmds = lq'[e].cmds[s] /\ row = st'[e][s]
    OBVIOUS
  <2>4. WaitsWell(e, s, row, cmds, tim')
    BY <2>1, <2>2, <2>3, WaitStays
  <2> QED
    BY <2>3, <2>4
<1>4. WaitsOK'
  BY <1>3 DEF WaitsOK
<1> QED
  BY <1>1, <1>2, <1>4, QueueStep

-----------------------------------------------------------------------------
(***************************************************************************)
(* Every action preserves QueueInv.                                        *)
(***************************************************************************)
LEMMA TimersStay == ASSUME tim \subseteq tim' PROVE TimersKept
BY DEF TimersKept, TimerOf

(* The deletion of a timer that is no command's. *)
LEMMA OtherTimerDeleted ==
    ASSUME NEW row, Coherent(tim, row), row.task.type # "TimerCommand", Without(tim, row) \subseteq tim'
    PROVE  TimersKept
<1> SUFFICES ASSUME NEW e \in Execs, NEW s \in StateExecIds, NEW i, TimerOf(tim, e, s, i)
             PROVE  TimerOf(tim', e, s, i)
  BY DEF TimersKept
<1>1. PICK r \in tim : r.task = Task("TimerCommand", e, s, i)
  BY DEF TimerOf
<1>2. r.task.type = "TimerCommand"
  BY <1>1 DEF Task
<1>3. r \in tim'
  BY <1>2 DEF Coherent, Without
<1> QED
  BY <1>1, <1>3 DEF TimerOf

LEMMA SameRows == ASSUME UNCHANGED st PROVE RowsStep
BY DEF RowsStep, RowStep

(* A step that changes no row of a state execution. *)
LEMMA UntouchedRows ==
    ASSUME TablesInv, TablesInv', QueueInv, UNCHANGED <<prc, lq, st>>, MessagesStep, InfosStep, TimersKept,
           \A w \in Workers : worker'[w] = worker[w] \/ WorkerAfter(worker'[w])
    PROVE  QueueInv'
<1>1. RowsStep /\ \A e \in Execs : prc'[e].status = "Running" => prc[e].status = "Running"
  BY SameRows
<1> QED
  BY <1>1, QuietQueues

LEMMA OneWorkerMoves ==
    ASSUME TablesInv, TablesInv', QueueInv, UNCHANGED <<prc, lq, st, messages, imm, tim>>,
           NEW w \in Workers, NEW x, worker' = [worker EXCEPT ![w] = x], WorkerAfter(x)
    PROVE  QueueInv'
<1>1. worker = [v \in Workers |-> worker[v]]
  BY DEF TablesInv, CallersOK
<1>2. \A v \in Workers : worker'[v] = worker[v] \/ WorkerAfter(worker'[v])
  BY <1>1
<1>3. MessagesStep /\ InfosStep /\ TimersKept
  BY NothingPublished, InfosDeleted, TimersStay DEF QueueInv
<1> QED
  BY <1>2, <1>3, UntouchedRows

LEMMA QuietWorkersQueue ==
    ASSUME TablesInv, TablesInv', QueueInv, NEW w \in Workers,
           \/ LoadImmediateTask(w) \/ LoadTimerTask(w) \/ PrepareStateExecution(w)
           \/ FailProcess(w) \/ Requeue(w) \/ Crash(w) \/ ReadLatestForTimeout(w)
    PROVE  QueueInv'
<1> USE DEF Idle
<1>0. UNCHANGED <<prc, lq, st, messages, imm, tim>> /\ InfosOK
  BY DEF LoadImmediateTask, LoadTimerTask, PrepareStateExecution, FailProcess, Requeue, Crash,
         ReadLatestForTimeout, QueueInv
<1>1. WorkerAfter(Idle)
  BY DEF WorkerAfter, ImmediatePcs, Prepared
<1>t. ASSUME NEW x, x.pc \in TimerPcs PROVE WorkerAfter(x)
  BY <1>t DEF WorkerAfter, ImmediatePcs, TimerPcs, Prepared
<1>i. ASSUME NEW x, x.pc \in {"immediate", "failing"}, x.row = worker[w].row, worker[w].pc \in ImmediatePcs
      PROVE  WorkerAfter(x)
  <2>1. InfoIn(x.row.task, messages')
    BY <1>0, <1>i DEF InfosOK
  <2> QED
    BY <1>i, <2>1 DEF WorkerAfter, Prepared
<1>2. CASE LoadImmediateTask(w)
  <2>1. PICK r \in imm : worker' = [worker EXCEPT ![w] = [Idle EXCEPT !.pc = "immediate", !.row = r]]
    BY <1>2 DEF LoadImmediateTask
  <2> DEFINE x == [Idle EXCEPT !.pc = "immediate", !.row = r]
  <2>2. x.pc = "immediate" /\ x.row = r
    OBVIOUS
  <2>4. worker' = [worker EXCEPT ![w] = x]
    BY <2>1
  <2> HIDE DEF x
  <2>5. InfoIn(x.row.task, messages')
    BY <1>0, <2>2 DEF InfosOK
  <2>3. WorkerAfter(x)
    BY <2>2, <2>5 DEF WorkerAfter, Prepared
  <2> QED
    BY <1>0, <2>3, <2>4, OneWorkerMoves
<1>3. CASE LoadTimerTask(w)
  <2>1. PICK r \in tim : worker' = [worker EXCEPT ![w] = [Idle EXCEPT !.pc = "timer", !.row = r]]
    BY <1>3 DEF LoadTimerTask
  <2> DEFINE x == [Idle EXCEPT !.pc = "timer", !.row = r]
  <2>2. x.pc \in TimerPcs
    BY DEF TimerPcs
  <2>4. worker' = [worker EXCEPT ![w] = x]
    BY <2>1
  <2> HIDE DEF x
  <2>3. WorkerAfter(x)
    BY <1>t, <2>2
  <2> QED
    BY <1>0, <2>3, <2>4, OneWorkerMoves
<1>4. CASE PrepareStateExecution(w)
  <2>1. PICK e, s : e = worker[w].row.task.exec /\ s = worker[w].row.task.sid
    OBVIOUS
  <2>2. worker[w].pc = "immediate" /\ worker[w].row.task.type \in StateTasks
    BY <1>4 DEF PrepareStateExecution, StateTasks
  <2>3. e \in Execs /\ s \in StateExecIds /\ ExecInv(prc[e], st[e])
    BY <2>1, <2>2, HeldTask
  <2>4. st[e][s].version \in Nat
    BY <2>3 DEF ExecInv, ExecBase, StateTable, TypedState
  <2>5. PICK row : row = st[e][s]
    OBVIOUS
  <2> DEFINE x == CASE row.status = "WaitUntilRunning" -> [Holding(w, "waitUntil") EXCEPT !.version = row.version]
                    [] row.status = "ExecuteRunning"   -> [Holding(w, "execute") EXCEPT !.version = row.version]
                    [] OTHER -> Idle
  <2>6. worker' = [worker EXCEPT ![w] = x]
    BY <1>4, <2>1, <2>5 DEF PrepareStateExecution
  <2>7. \/ x = Idle
        \/ /\ x.pc \in {"waitUntil", "execute"} /\ x.row = worker[w].row /\ x.version = row.version
           /\ row.status \in DueStates
    BY DEF Holding, DueStates
  <2> HIDE DEF x
  <2>8. WorkerAfter(x)
    <3>1. CASE x = Idle
      BY <1>1, <3>1
    <3>2. CASE /\ x.pc \in {"waitUntil", "execute"} /\ x.row = worker[w].row /\ x.version = row.version
               /\ row.status \in DueStates
      <4>1. InfoIn(x.row.task, messages')
        BY <1>0, <2>2, <3>2 DEF InfosOK, ImmediatePcs
      <4>2. st'[e][s] = row /\ x.row.task.exec = e /\ x.row.task.sid = s
        BY <1>0, <2>1, <2>5, <3>2
      <4>3. x.version \in Nat /\ x.version <= row.version
        BY <2>4, <2>5, <3>2
      <4>4. Prepared(x, st')
        BY <3>2, <4>2, <4>3 DEF Prepared
      <4> QED
        BY <4>1, <4>4 DEF WorkerAfter
    <3> QED
      BY <2>7, <3>1, <3>2
  <2> QED
    BY <1>0, <2>6, <2>8, OneWorkerMoves
<1>5. CASE FailProcess(w)
  <2> DEFINE x == [Holding(w, "failing") EXCEPT !.target = latest[prc[worker[w].row.task.exec].pid]]
  <2>1. worker' = [worker EXCEPT ![w] = x] /\ worker[w].pc \in {"waitUntil", "execute"}
    BY <1>5 DEF FailProcess, ApiFailed
  <2>2. x.pc = "failing" /\ x.row = worker[w].row
    BY DEF Holding
  <2> HIDE DEF x
  <2>3. WorkerAfter(x)
    BY <1>i, <2>1, <2>2 DEF ImmediatePcs
  <2> QED
    BY <1>0, <2>1, <2>3, OneWorkerMoves
<1>6. CASE Requeue(w)
  <2>1. worker' = [worker EXCEPT ![w] = Requeued(w)] /\ worker[w].pc \in {"waitUntil", "execute", "failing", "checked", "timingOut"}
    BY <1>6 DEF Requeue
  <2>2. Requeued(w).row = worker[w].row /\ Requeued(w).pc = IF worker[w].pc \in TimerPcs THEN "timer" ELSE "immediate"
    BY DEF Requeued, Holding, TimerPcs
  <2>3. WorkerAfter(Requeued(w))
    BY <1>i, <1>t, <2>1, <2>2 DEF ImmediatePcs, TimerPcs
  <2> QED
    BY <1>0, <2>1, <2>3, OneWorkerMoves
<1>7. CASE Crash(w)
  <2>1. worker' = [worker EXCEPT ![w] = Idle]
    BY <1>7 DEF Crash
  <2> QED
    BY <1>0, <1>1, <2>1, OneWorkerMoves
<1>8. CASE ReadLatestForTimeout(w)
  <2> DEFINE x == [Holding(w, "timingOut") EXCEPT !.target = latest[prc[worker[w].row.task.exec].pid]]
  <2>1. worker' = [worker EXCEPT ![w] = x]
    BY <1>8 DEF ReadLatestForTimeout
  <2>2. x.pc \in TimerPcs
    BY DEF Holding, TimerPcs
  <2> HIDE DEF x
  <2>3. WorkerAfter(x)
    BY <1>t, <2>2
  <2> QED
    BY <1>0, <2>1, <2>3, OneWorkerMoves
<1> QED
  BY <1>2, <1>3, <1>4, <1>5, <1>6, <1>7, <1>8

(* A stop changes the rows of a process that runs no more. *)
LEMMA StopRows ==
    ASSUME TablesInv, TablesInv', QueueInv, NEW e \in Execs, NEW status \in Closed, StopExecution(e, status),
           MessagesStep
    PROVE  /\ RowsStep /\ InfosStep
           /\ \A x \in Execs : prc'[x].status = "Running" => prc[x].status = "Running"
<1>0. QueuesOK /\ ExecsOK /\ StateTable(st[e]) /\ prc[e] \in PrcRow
  BY DEF TablesInv, ExecsOK, ExecInv, ExecBase
<1>1. CASE prc[e].status # "Running"
  <2>1. UNCHANGED <<prc, st, imm>>
    BY <1>1 DEF StopExecution
  <2> QED
    BY <2>1, SameRows, InfosDeleted
<1>2. CASE prc[e].status = "Running"
  <2>1. /\ prc' = [prc EXCEPT ![e] = StoppedPrc(prc[e], status)]
        /\ WriteImmediate({VisibilityTask(e, status)}, imm)
        /\ st' = IF prc[e].pending = {} THEN st ELSE [st EXCEPT ![e] = AbortRunning(st[e])]
    BY <1>2 DEF StopExecution
  <2>2. StoppedPrc(prc[e], status).status = status
    BY <1>0 DEF StoppedPrc, PrcRow
  <2>3. prc'[e].status # "Running" /\ \A x \in Execs \ {e} : prc'[x] = prc[x]
    BY <1>0, <2>1, <2>2 DEF ExecsOK, Closed
  <2>4. InfosStep
    <3>1. PICK new : new = {VisibilityTask(e, status)}
      OBVIOUS
    <3>2. IsFiniteSet(new) /\ WriteImmediate(new, imm) /\ imm \subseteq imm /\ \A t \in new : InfoIn(t, messages')
      BY <2>1, <3>1, FS_Singleton, OtherTasks
    <3> QED
      BY <1>0, <3>2, InfosInserted
  <2>5. ASSUME NEW x \in Execs, NEW s \in StateExecIds
        PROVE  RowStep(prc'[x].status = "Running", st[x][s], st'[x][s])
    <3>1. CASE prc[e].pending = {} \/ x # e
      <4>1. st'[x][s] = st[x][s]
        BY <1>0, <2>1, <3>1 DEF ExecsOK
      <4> QED
        BY <4>1 DEF RowStep
    <3>2. CASE prc[e].pending # {} /\ x = e
      <4>1. st'[x] = AbortRunning(st[e])
        BY <1>0, <2>1, <3>2 DEF ExecsOK
      <4>2. RowStep(FALSE, st[e][s], AbortRunning(st[e])[s])
        BY <1>0, AbortStep
      <4> QED
        BY <2>3, <3>2, <4>1, <4>2 DEF RowStep
    <3> QED
      BY <3>1, <3>2
  <2> QED
    BY <1>2, <2>3, <2>4, <2>5 DEF RowsStep
<1> QED
  BY <1>1, <1>2

LEMMA ClientQueue ==
    ASSUME TablesInv, TablesInv', QueueInv, NEW c \in Clients,
           \/ \E op \in ClientOps, p \in ProcessIds : ReadLatest(c, op, p)
           \/ ClientFails(c) \/ StopProcess(c) \/ PublishToLocalQueue(c)
    PROVE  QueueInv'
<1>0. UNCHANGED <<lq, tim, worker>> /\ QueuesOK /\ MessagesOK
  BY DEF ReadLatest, ClientFails, StopProcess, PublishToLocalQueue, TablesInv, QueueInv
<1>1. TimersKept /\ \A w \in Workers : worker'[w] = worker[w] \/ WorkerAfter(worker'[w])
  BY <1>0, TimersStay
<1>2. CASE UNCHANGED <<prc, st, messages, imm>>
  <2>1. MessagesStep /\ InfosStep
    BY <1>0, <1>2, NothingPublished, InfosDeleted
  <2> QED
    BY <1>0, <1>1, <1>2, <2>1, UntouchedRows
<1>3. CASE StopProcess(c)
  <2>1. PICK status \in {"Failed", "Terminated"} : StopExecution(client[c].target, status)
    BY <1>3 DEF StopProcess
  <2>2. client[c].target \in Execs /\ status \in Closed
    BY <1>3 DEF TablesInv, CallersOK, StopProcess, Closed, ProcessStatus
  <2>3. MessagesStep
    BY <1>0, <1>3, NothingPublished DEF StopProcess
  <2>4. /\ RowsStep /\ InfosStep
        /\ \A x \in Execs : prc'[x].status = "Running" => prc[x].status = "Running"
    BY <2>1, <2>2, <2>3, StopRows
  <2> QED
    BY <1>0, <1>1, <2>3, <2>4, QuietQueues
<1>4. CASE PublishToLocalQueue(c) /\ prc[client[c].target].status = "Running"
  <2>1. PICK e : e = client[c].target
    OBVIOUS
  <2>2. e \in Execs /\ UNCHANGED <<prc, st>>
    BY <1>4, <2>1 DEF TablesInv, CallersOK, PublishToLocalQueue
  <2>3. PICK ms \in Publications : Publish(e, ms) /\ WriteImmediate(PublishTasks(e, ms), imm)
    BY <1>4, <2>1 DEF PublishToLocalQueue
  <2>4. MessagesStep /\ \A t \in PublishTasks(e, ms) : InfoIn(t, messages')
    BY <1>0, <2>2, <2>3, PublishedMessages
  <2>5. IsFiniteSet(PublishTasks(e, ms)) /\ imm \subseteq imm
    BY PublishTasksFinite
  <2>6. InfosStep
    BY <1>0, <2>3, <2>4, <2>5, InfosInserted
  <2> QED
    BY <1>0, <1>1, <2>2, <2>4, <2>6, UntouchedRows
<1> QED
  BY <1>2, <1>3, <1>4 DEF ReadLatest, ClientFails, PublishToLocalQueue

LEMMA WorkerStopsQueue ==
    ASSUME TablesInv, TablesInv', WorkInv, QueueInv, NEW w \in Workers,
           FailProcessCommit(w) \/ ProcessTimeoutCommit(w)
    PROVE  QueueInv'
<1>1. /\ worker[w].target \in Execs /\ worker[w].pc # "idle" /\ Acknowledged(w) /\ CopyOK(worker[w], imm, tim)
      /\ UNCHANGED <<lq, messages>> /\ MessagesOK
  BY DEF TablesInv, CallersOK, WorkerOK, TypedWorker, FailProcessCommit, ProcessTimeoutCommit, WorkInv, CopiesOK, QueueInv
<1>2. TimersKept
  <2>1. CASE FailProcessCommit(w)
    BY <2>1, TimersStay DEF FailProcessCommit
  <2>2. CASE ProcessTimeoutCommit(w)
    <3>1. tim' = Without(tim, worker[w].row) /\ worker[w].pc = "timingOut"
      BY <2>2 DEF ProcessTimeoutCommit
    <3>2. Coherent(tim, worker[w].row) /\ worker[w].row.task.type = "ProcessTimeout"
      BY <1>1, <3>1 DEF CopyOK, TimerPcs
    <3> QED
      BY <3>1, <3>2, OtherTimerDeleted
  <2> QED
    BY <2>1, <2>2
<1>3. PICK status \in Closed : StopExecution(worker[w].target, status)
  BY DEF FailProcessCommit, ProcessTimeoutCommit, Closed, ProcessStatus
<1>4. MessagesStep
  BY <1>1, NothingPublished
<1>5. /\ RowsStep /\ InfosStep
      /\ \A x \in Execs : prc'[x].status = "Running" => prc[x].status = "Running"
  BY <1>1, <1>3, <1>4, StopRows
<1>6. \A x \in Workers : worker'[x] = worker[x] \/ WorkerAfter(worker'[x])
  BY <1>1, <1>4, CommitWorkers
<1> QED
  BY <1>1, <1>2, <1>4, <1>5, <1>6, QuietQueues

(* A transaction on one started execution. *)
LEMMA OneExecRuns ==
    ASSUME TablesInv, ExecsStep, NEW e \in Execs, prc[e].status # "None", NEW r, prc' = [prc EXCEPT ![e] = r]
    PROVE  \A x \in Execs : prc'[x].status = "Running" => prc[x].status = "Running"
<1>1. \A x \in Execs \ {e} : prc'[x] = prc[x]
  BY DEF TablesInv, ExecsOK
<1>2. prc'[e].status = prc[e].status \/ prc'[e].status # "Running"
  BY DEF ExecsStep, PrcStep, Closed
<1> QED
  BY <1>1, <1>2

LEMMA OneTableRows ==
    ASSUME TablesInv, NEW e \in Execs, NEW rows, st' = [st EXCEPT ![e] = rows],
           \A s \in StateExecIds : RowStep(prc'[e].status = "Running", st[e][s], rows[s])
    PROVE  RowsStep
<1>1. st'[e] = rows /\ \A x \in Execs \ {e} : st'[x] = st[x]
  BY DEF TablesInv, ExecsOK
<1>2. ASSUME NEW x \in Execs, NEW s \in StateExecIds
      PROVE  RowStep(prc'[x].status = "Running", st[x][s], st'[x][s])
  <2>1. CASE x = e
    BY <1>1, <2>1
  <2>2. CASE x # e
    BY <1>1, <2>2 DEF RowStep
  <2> QED
    BY <2>1, <2>2
<1> QED
  BY <1>2 DEF RowsStep

(* One row of a state execution is set. *)
RowSet(e, s, new) ==
    /\ st'[e][s] = new
    /\ \A x \in Execs : \A z \in StateExecIds : ~(x = e /\ z = s) => st'[x][z] = st[x][z]

LEMMA OneRow ==
    ASSUME TablesInv, NEW e \in Execs, NEW s \in StateExecIds, NEW new, st' = [st EXCEPT ![e][s] = new]
    PROVE  RowSet(e, s, new)
<1>1. st = [x \in Execs |-> st[x]] /\ st[e] = [z \in StateExecIds |-> st[e][z]]
  BY DEF TablesInv, ExecsOK, ExecInv, ExecBase, StateTable
<1>2. st'[e][s] = new
  BY <1>1
<1>3. \A x \in Execs \ {e} : st'[x] = st[x]
  BY <1>1
<1>4. \A z \in StateExecIds \ {s} : st'[e][z] = st[e][z]
  BY <1>1
<1>5. \A x \in Execs : \A z \in StateExecIds : ~(x = e /\ z = s) => st'[x][z] = st[x][z]
  BY <1>3, <1>4
<1> QED
  BY <1>2, <1>5 DEF RowSet

LEMMA OneRowQuiet ==
    ASSUME TablesInv, NEW e \in Execs, NEW s \in StateExecIds, NEW new, st' = [st EXCEPT ![e][s] = new],
           RowStep(prc'[e].status = "Running", st[e][s], new)
    PROVE  RowsStep
<1>1. RowSet(e, s, new)
  BY OneRow
<1>2. ASSUME NEW x \in Execs, NEW z \in StateExecIds
      PROVE  RowStep(prc'[x].status = "Running", st[x][z], st'[x][z])
  <2>1. CASE x = e /\ z = s
    BY <1>1, <2>1 DEF RowSet
  <2>2. CASE ~(x = e /\ z = s)
    <3>1. st'[x][z] = st[x][z]
      BY <1>1, <2>2 DEF RowSet
    <3> QED
      BY <3>1 DEF RowStep
  <2> QED
    BY <2>1, <2>2
<1> QED
  BY <1>2 DEF RowsStep

(* A conditional update finds the row as it was prepared. *)
LEMMA PreparedDue ==
    ASSUME TablesInv, QueueInv, NEW w \in Workers, worker[w].pc \in {"waitUntil", "execute"}, NotModified(w)
    PROVE  st[worker[w].row.task.exec][worker[w].row.task.sid].status \in DueStates
BY DEF QueueInv, VersionsOK, Prepared, NotModified

(* The id of a new state execution has no row yet. *)
LEMMA FreshRow ==
    ASSUME NEW row, NEW rows, ExecBase(row, rows), NEW r, r.seq = row.seq, NEW next, NEW s \in Started(r, next)
    PROVE  rows[s].status = "None"
<1>1. s \in StateExecIds /\ r.seq[s[1]] < s[2]
  BY DEF Started
<1>2. s[1] \in StateIds /\ s[2] \in Nat
  BY <1>1 DEF StateExecIds
<1>3. row.seq[s[1]] \in Nat
  BY <1>2, FiniteAssumption DEF ExecBase, PrcRow
<1> QED
  BY <1>1, <1>2, <1>3 DEF ExecBase

(* What a decision does to one row. *)
DecidedRow(live, s, old, new) ==
    \/ new = old
    \/ old.status = "None" /\ new = NewStateRow(s, s[1])
    \/ ~live /\ old.status \in ActiveStates /\ new = WithStatus(old, "Aborted")

LEMMA DecidedRows ==
    ASSUME NEW row, NEW rows, ExecBase(row, rows), row.status \in {"Running", "Terminated"},
           NEW d \in Decisions, SeqInBound(row, d.next), NEW s \in StateExecIds
    PROVE  DecidedRow(ApplyDecision(row, d).status = "Running", s, rows[s], RowsAfterDecision(rows, row, d)[s])
<1> DEFINE r == StartNewStates(row, d.next)
           t == [x \in StateExecIds |-> IF x \in Started(row, d.next) THEN NewStateRow(x, x[1]) ELSE rows[x]]
<1>1. \A x \in StateExecIds : x[1] \in StateIds /\ x[2] \in Nat
  BY DEF StateExecIds
<1>2. \A id \in StateIds : row.seq[id] \in Nat
  BY FiniteAssumption DEF ExecBase, PrcRow
<1>3. s \in Started(row, d.next) => rows[s].status = "None"
  BY FreshRow
<1>4. CASE ~(~GracefulDone(r) /\ IsForced(d) /\ r.pending # {})
  <2>1. RowsAfterDecision(rows, row, d) = t
    BY <1>4 DEF RowsAfterDecision
  <2> QED
    BY <1>3, <2>1 DEF DecidedRow
<1>5. CASE ~GracefulDone(r) /\ IsForced(d) /\ r.pending # {}
  <2>1. RowsAfterDecision(rows, row, d) = AbortRunning(t)
    BY <1>5 DEF RowsAfterDecision
  <2>2. d.close # "NONE" /\ d.close # "GRACEFUL_COMPLETE_PROCESS"
    BY <1>5 DEF IsForced
  <2>3. d.next = [id \in StateIds |-> 0]
    BY <2>2, DecisionAssumption
  <2>4. s \notin Started(row, d.next)
    BY <1>1, <1>2, <2>3 DEF Started
  <2>5. t[s] = rows[s]
    BY <2>4
  <2>6. ApplyDecision(row, d).status # "Running"
    <3>1. ApplyDecision(row, d) = [r EXCEPT !.pending = {},
                  !.status = IF d.close = "FORCE_FAIL_PROCESS" THEN "Failed" ELSE "Completed"]
      BY <1>5, <2>2 DEF ApplyDecision
    <3>2. d.next \in [StateIds -> Nat]
      BY DecisionAssumption
    <3>3. r \in PrcRow
      BY <3>2, StartNewStatesEffect DEF ExecBase
    <3> HIDE DEF r
    <3> QED
      BY <3>1, <3>3 DEF PrcRow
  <2> HIDE DEF r, t
  <2>7. AbortRunning(t)[s] = IF rows[s].status \in ActiveStates THEN WithStatus(rows[s], "Aborted") ELSE rows[s]
    BY <2>5 DEF AbortRunning
  <2> QED
    BY <2>1, <2>6, <2>7 DEF DecidedRow
<1> QED
  BY <1>4, <1>5

LEMMA DecidedRowStep ==
    ASSUME NEW live \in BOOLEAN, NEW s, NEW old, TypedState(old), NEW new, DecidedRow(live, s, old, new)
    PROVE  RowStep(live, old, new)
<1>1. CASE new = old
  BY <1>1 DEF RowStep
<1>2. CASE old.status = "None" /\ new = NewStateRow(s, s[1])
  BY <1>2, NewRowStep
<1>3. CASE ~live /\ new = WithStatus(old, "Aborted")
  BY <1>3, StatusStep
<1> QED
  BY <1>1, <1>2, <1>3 DEF DecidedRow

LEMMA RpcQueue ==
    ASSUME TablesInv, QueueInv, NEW c \in Clients, UpdateProcessExecutionForRpc(c)
    PROVE  QueueInv'
<1> DEFINE e == client[c].target
<1>0. UNCHANGED <<lq, tim, worker>> /\ QueuesOK /\ ExecsOK /\ MessagesOK /\ TablesInv' /\ ExecsStep
  BY RpcPreserves DEF UpdateProcessExecutionForRpc, TablesInv, QueueInv, Preserved
<1>1. TimersKept /\ \A w \in Workers : worker'[w] = worker[w] \/ WorkerAfter(worker'[w])
  BY <1>0, TimersStay
<1>2. e \in Execs /\ ExecInv(prc[e], st[e]) /\ prc[e].status # "None"
  BY DEF TablesInv, CallersOK, UpdateProcessExecutionForRpc, ExecsOK
<1>3. CASE UNCHANGED <<prc, st, messages, imm>>
  <2>1. MessagesStep /\ InfosStep
    BY <1>0, <1>3, NothingPublished, InfosDeleted
  <2> QED
    BY <1>0, <1>1, <1>3, <2>1, UntouchedRows
<1>4. ASSUME NEW d \in Decisions, NEW ms \in Publications, SeqInBound(prc[e], d.next), prc[e].status = "Running",
             prc' = [prc EXCEPT ![e] = ApplyDecision(prc[e], d)],
             st' = [st EXCEPT ![e] = RowsAfterDecision(st[e], prc[e], d)],
             Publish(e, ms),
             WriteImmediate(DecisionTasks(e, prc[e], d) \cup PublishTasks(e, ms), imm)
      PROVE  QueueInv'
  <2> HIDE DEF e
  <2>1. PICK new : new = DecisionTasks(e, prc[e], d) \cup PublishTasks(e, ms)
    OBVIOUS
  <2>2. IsFiniteSet(DecisionTasks(e, prc[e], d))
    BY FirstTasksFinite DEF DecisionTasks, Started
  <2>3. IsFiniteSet(new) /\ WriteImmediate(new, imm) /\ imm \subseteq imm
    BY <1>4, <2>1, <2>2, PublishTasksFinite, FS_Union
  <2>4. MessagesStep /\ \A t \in PublishTasks(e, ms) : InfoIn(t, messages')
    BY <1>0, <1>2, <1>4, PublishedMessages
  <2>5. \A t \in new : InfoIn(t, messages')
    BY <2>1, <2>4, OtherTasks DEF DecisionTasks
  <2>6. InfosStep
    BY <1>0, <2>3, <2>5, InfosInserted
  <2>7. prc'[e] = ApplyDecision(prc[e], d)
    BY <1>0, <1>2, <1>4 DEF ExecsOK
  <2>8. ASSUME NEW s \in StateExecIds
        PROVE  RowStep(prc'[e].status = "Running", st[e][s], RowsAfterDecision(st[e], prc[e], d)[s])
    <3>1. PICK live, old, new2 : /\ live = (prc'[e].status = "Running") /\ old = st[e][s]
                                 /\ new2 = RowsAfterDecision(st[e], prc[e], d)[s]
      OBVIOUS
    <3>2. DecidedRow(ApplyDecision(prc[e], d).status = "Running", s, st[e][s], RowsAfterDecision(st[e], prc[e], d)[s])
      BY <1>2, <1>4, DecidedRows DEF ExecInv
    <3>3. DecidedRow(live, s, old, new2) /\ live \in BOOLEAN
      BY <2>7, <3>1, <3>2
    <3>4. TypedState(old)
      BY <1>2, <3>1 DEF ExecInv, ExecBase, StateTable
    <3>5. RowStep(live, old, new2)
      BY <3>3, <3>4, DecidedRowStep
    <3> QED
      BY <3>1, <3>5
  <2>9. RowsStep
    BY <1>2, <1>4, <2>8, OneTableRows
  <2>10. \A x \in Execs : prc'[x].status = "Running" => prc[x].status = "Running"
    BY <1>0, <1>2, <1>4, OneExecRuns
  <2> QED
    BY <1>0, <1>1, <2>4, <2>6, <2>9, <2>10, QuietQueues
<1> QED
  BY <1>3, <1>4 DEF UpdateProcessExecutionForRpc

LEMMA CompleteExecuteQueue ==
    ASSUME TablesInv, QueueInv, NEW w \in Workers, CompleteExecuteExecution(w)
    PROVE  QueueInv'
<1> DEFINE e == worker[w].row.task.exec
           s == worker[w].row.task.sid
           row == CompleteState(prc[e], s)
           rows == [st[e] EXCEPT ![s] = WithStatus(st[e][s], "Completed")]
<1>0. ExecsOK /\ QueuesOK /\ MessagesOK /\ TablesInv' /\ ExecsStep
  BY CompleteExecutePreserves DEF TablesInv, QueueInv, Preserved
<1>1. /\ worker[w].pc = "execute" /\ Acknowledged(w) /\ UNCHANGED <<lq, tim>>
      /\ s \in prc[e].pending /\ NotModified(w)
  BY DEF CompleteExecuteExecution
<1>2. /\ e \in Execs /\ ExecInv(prc[e], st[e]) /\ s \in StateExecIds /\ TypedState(st[e][s])
      /\ prc[e].status # "None" /\ st[e][s].status # "None"
  BY <1>1, PreparedState
<1>3. rows = WithRow(st[e], s, WithStatus(st[e][s], "Completed"))
  <2>1. st[e] = [x \in StateExecIds |-> st[e][x]]
    BY <1>2 DEF ExecInv, ExecBase, StateTable
  <2> QED
    BY <2>1 DEF WithRow
<1>4. ExecBase(row, rows) /\ row.status \in {"Running", "Terminated"} /\ row.status = prc[e].status
  <2> HIDE DEF rows, e, s
  <2> QED
    BY <1>1, <1>2, <1>3, CompleteOperation
<1>5. PICK d \in Decisions, ms \in Publications :
        /\ SeqInBound(row, d.next)
        /\ prc' = [prc EXCEPT ![e] = ApplyDecision(row, d)]
        /\ st' = [st EXCEPT ![e] = RowsAfterDecision(rows, row, d)]
        /\ Publish(e, ms)
        /\ WriteImmediate(DecisionTasks(e, row, d) \cup PublishTasks(e, ms)
               \cup (IF ApplyDecision(row, d).status # "Running"
                     THEN {VisibilityTask(e, ApplyDecision(row, d).status)} ELSE {}),
                          Without(imm, worker[w].row))
  BY DEF CompleteExecuteExecution
<1> DEFINE v == ApplyDecision(row, d).status
           vis == IF v # "Running" THEN {VisibilityTask(e, v)} ELSE {}
<1>6. PICK new : new = DecisionTasks(e, row, d) \cup PublishTasks(e, ms) \cup vis
  OBVIOUS
<1>7. WriteImmediate(new, Without(imm, worker[w].row))
  BY <1>5, <1>6
<1>8. st[e][s].status \in DueStates
  BY <1>1, PreparedDue
<1> HIDE DEF e, s, row, rows
<1>9. MessagesStep /\ \A t \in PublishTasks(e, ms) : InfoIn(t, messages')
  BY <1>0, <1>2, <1>5, PublishedMessages
<1>10. IsFiniteSet(new) /\ \A t \in new : InfoIn(t, messages')
  <2>1. IsFiniteSet(DecisionTasks(e, row, d))
    BY FirstTasksFinite DEF DecisionTasks, Started
  <2>2. IsFiniteSet(vis)
    BY FS_EmptySet, FS_Singleton
  <2>4. \A t \in vis : InfoIn(t, messages')
    BY OtherTasks
  <2>3. \A t \in DecisionTasks(e, row, d) : InfoIn(t, messages')
    BY OtherTasks DEF DecisionTasks
  <2> HIDE DEF vis
  <2> QED
    BY <1>6, <1>9, <2>1, <2>2, <2>3, <2>4, PublishTasksFinite, FS_Union
<1>11. InfosStep
  BY <1>0, <1>7, <1>10, WithoutSubset, InfosInserted
<1>12. prc'[e] = ApplyDecision(row, d)
  BY <1>0, <1>2, <1>5 DEF ExecsOK
<1>13. ASSUME NEW z \in StateExecIds
       PROVE  RowStep(prc'[e].status = "Running", st[e][z], RowsAfterDecision(rows, row, d)[z])
  <2>1. PICK live, old, mid, after : /\ live = (prc'[e].status = "Running") /\ old = st[e][z]
                                     /\ mid = rows[z] /\ after = RowsAfterDecision(rows, row, d)[z]
    OBVIOUS
  <2>2. DecidedRow(ApplyDecision(row, d).status = "Running", z, rows[z], RowsAfterDecision(rows, row, d)[z])
    BY <1>4, <1>5, DecidedRows
  <2>3. DecidedRow(live, z, mid, after) /\ live \in BOOLEAN
    BY <1>12, <2>1, <2>2
  <2>4. TypedState(old)
    BY <1>2, <2>1 DEF ExecInv, ExecBase, StateTable
  <2>5. mid = IF z = s THEN WithStatus(old, "Completed") ELSE old
    BY <1>3, <2>1 DEF WithRow
  <2>6. RowStep(live, old, after)
    <3>1. CASE z # s
      BY <2>3, <2>4, <2>5, <3>1, DecidedRowStep
    <3>2. CASE z = s
      <4>1. mid.status = "Completed"
        BY <2>4, <2>5, <3>2, WithStatusKeeps
      <4>2. after = mid
        BY <2>3, <4>1 DEF DecidedRow, ActiveStates
      <4>3. old.status # "WaitUntilWaiting"
        BY <1>8, <2>1, <3>2 DEF DueStates
      <4> QED
        BY <2>3, <2>4, <2>5, <3>2, <4>2, <4>3, StatusStep
    <3> QED
      BY <3>1, <3>2
  <2> QED
    BY <2>1, <2>6
<1>14. RowsStep
  BY <1>2, <1>5, <1>13, OneTableRows
<1>15. \A x \in Execs : prc'[x].status = "Running" => prc[x].status = "Running"
  BY <1>0, <1>2, <1>5, OneExecRuns
<1>16. TimersKept /\ \A x \in Workers : worker'[x] = worker[x] \/ WorkerAfter(worker'[x])
  BY <1>1, <1>9, TimersStay, CommitWorkers
<1> QED
  BY <1>0, <1>1, <1>9, <1>11, <1>14, <1>15, <1>16, QuietQueues

LEMMA CompleteWaitUntilQueue ==
    ASSUME TablesInv, QueueInv, NEW w \in Workers, CompleteWaitUntil(w)
    PROVE  QueueInv'
<1> DEFINE e == worker[w].row.task.exec
           s == worker[w].row.task.sid
           x == WithStatus(st[e][s], "ExecuteRunning")
<1>0. QueuesOK /\ MessagesOK /\ TablesInv'
  BY CompleteWaitUntilPreserves DEF TablesInv, QueueInv, Preserved
<1>1. worker[w].pc = "waitUntil" /\ Acknowledged(w) /\ UNCHANGED <<prc, lq, tim>> /\ NotModified(w)
  BY DEF CompleteWaitUntil
<1>2. e \in Execs /\ s \in StateExecIds /\ TypedState(st[e][s])
  BY <1>1, PreparedState
<1>3. PICK ms \in Publications :
        /\ st' = [st EXCEPT ![e][s] = x]
        /\ Publish(e, ms)
        /\ WriteImmediate({ExecuteTask(e, s)} \cup PublishTasks(e, ms), Without(imm, worker[w].row))
  BY DEF CompleteWaitUntil
<1>4. PICK new : new = {ExecuteTask(e, s)} \cup PublishTasks(e, ms)
  OBVIOUS
<1>5. MessagesStep /\ \A t \in PublishTasks(e, ms) : InfoIn(t, messages')
  BY <1>0, <1>2, <1>3, PublishedMessages
<1>6. IsFiniteSet(new) /\ WriteImmediate(new, Without(imm, worker[w].row))
  BY <1>3, <1>4, FS_Singleton, PublishTasksFinite, FS_Union
<1>i. \A t \in new : InfoIn(t, messages')
  BY <1>4, <1>5, OtherTasks
<1>7. InfosStep
  BY <1>0, <1>6, <1>i, WithoutSubset, InfosInserted
<1>8. st[e][s].status # "WaitUntilWaiting"
  BY <1>1, PreparedDue DEF DueStates
<1> HIDE DEF e, s
<1>9. RowStep(prc'[e].status = "Running", st[e][s], x)
  BY <1>2, <1>8, StatusStep
<1> HIDE DEF x
<1>10. RowsStep
  BY <1>2, <1>3, <1>9, OneRowQuiet
<1>11. \A y \in Execs : prc'[y].status = "Running" => prc[y].status = "Running"
  BY <1>1
<1>12. TimersKept /\ \A y \in Workers : worker'[y] = worker[y] \/ WorkerAfter(worker'[y])
  BY <1>1, <1>5, TimersStay, CommitWorkers
<1> QED
  BY <1>0, <1>1, <1>5, <1>7, <1>10, <1>11, <1>12, QuietQueues

LEMMA BackoffQueue ==
    ASSUME TablesInv, WorkInv, QueueInv, NEW w \in Workers, BackoffImmediateTask(w)
    PROVE  QueueInv'
<1> DEFINE e == worker[w].row.task.exec
           s == worker[w].row.task.sid
           x == WithStatus(st[e][s], PreparedStatus(w))
<1>0. QueuesOK /\ MessagesOK /\ TablesInv' /\ CopiesOK
  BY BackoffPreserves DEF TablesInv, QueueInv, Preserved, WorkInv
<1>1. /\ worker[w].pc \in {"waitUntil", "execute"} /\ Acknowledged(w) /\ UNCHANGED <<prc, lq, messages>>
      /\ NotModified(w)
      /\ st' = [st EXCEPT ![e][s] = x]
      /\ WriteTimers({BackoffTimer(worker[w].row.task)}, tim)
      /\ imm' = Without(imm, worker[w].row)
  BY DEF BackoffImmediateTask, ApiFailed
<1>2. e \in Execs /\ s \in StateExecIds /\ TypedState(st[e][s])
  BY <1>1, PreparedState
<1>3. MessagesStep /\ InfosStep
  BY <1>0, <1>1, NothingPublished, WithoutSubset, InfosDeleted
<1>4. TimersKept
  <2>1. tim \subseteq tim'
    BY <1>1 DEF WriteTimers
  <2> QED
    BY <2>1, TimersStay
<1>5. st[e][s].status # "WaitUntilWaiting" /\ PreparedStatus(w) # "WaitUntilWaiting"
  BY <1>1, PreparedDue DEF DueStates, PreparedStatus
<1> HIDE DEF e, s
<1>6. RowStep(prc'[e].status = "Running", st[e][s], x)
  BY <1>2, <1>5, StatusStep
<1> HIDE DEF x
<1>7. RowsStep
  BY <1>1, <1>2, <1>6, OneRowQuiet
<1>8. \A y \in Execs : prc'[y].status = "Running" => prc[y].status = "Running"
  BY <1>1
<1>9. \A y \in Workers : worker'[y] = worker[y] \/ WorkerAfter(worker'[y])
  BY <1>1, <1>3, CommitWorkers
<1> QED
  BY <1>0, <1>1, <1>3, <1>4, <1>7, <1>8, <1>9, QuietQueues

LEMMA RecoverQueue ==
    ASSUME TablesInv, QueueInv, NEW w \in Workers, RecoverFromStateExecutionFailure(w)
    PROVE  QueueInv'
<1> DEFINE e    == worker[w].row.task.exec
           s    == worker[w].row.task.sid
           dest == Proceed[st[e][s].config]
           row  == CompleteState(prc[e], s)
           new  == Started(row, Once(dest))
           rows == [x \in StateExecIds |->
                      IF x \in new THEN NewStateRow(x, st[e][s].config)
                      ELSE IF x = s THEN WithStatus(st[e][s], "Failed")
                      ELSE st[e][x]]
<1>0. ExecsOK /\ QueuesOK /\ MessagesOK /\ TablesInv' /\ ExecsStep
  BY RecoverPreserves DEF TablesInv, QueueInv, Preserved
<1>1. /\ worker[w].pc \in {"waitUntil", "execute"} /\ Acknowledged(w) /\ UNCHANGED <<lq, tim, messages>>
      /\ NotModified(w)
      /\ prc' = [prc EXCEPT ![e] = StartNewStates(row, Once(dest))]
      /\ st' = [st EXCEPT ![e] = rows]
      /\ WriteImmediate({FirstTask(e, x) : x \in new}, imm)
  BY DEF RecoverFromStateExecutionFailure, ApiFailed
<1>2. /\ e \in Execs /\ s \in StateExecIds /\ TypedState(st[e][s]) /\ ExecInv(prc[e], st[e])
      /\ prc[e].status # "None"
  BY <1>1, PreparedState
<1>3. MessagesStep
  BY <1>0, <1>1, NothingPublished
<1>4. PICK tasks : tasks = {FirstTask(e, x) : x \in new}
  OBVIOUS
<1>5. /\ IsFiniteSet(tasks) /\ WriteImmediate(tasks, imm) /\ imm \subseteq imm
      /\ \A t \in tasks : InfoIn(t, messages')
  BY <1>1, <1>4, FirstTasksFinite, OtherTasks DEF Started
<1>6. InfosStep
  BY <1>0, <1>5, InfosInserted
<1>7. st[e][s].status # "WaitUntilWaiting"
  BY <1>1, PreparedDue DEF DueStates
<1>8. ASSUME NEW x \in new PROVE st[e][x].status = "None"
  <2>1. row.seq = prc[e].seq
    BY <1>2 DEF CompleteState, ExecInv, ExecBase, PrcRow
  <2> HIDE DEF row, e, dest
  <2> QED
    BY <1>2, <2>1, FreshRow DEF ExecInv
<1>9. \A x \in StateExecIds : rows[x] = IF x \in new THEN NewStateRow(x, st[e][s].config)
                                       ELSE IF x = s THEN WithStatus(st[e][s], "Failed") ELSE st[e][x]
  OBVIOUS
<1> HIDE DEF e, s, new, rows
<1>10. ASSUME NEW x \in StateExecIds PROVE RowStep(prc'[e].status = "Running", st[e][x], rows[x])
  <2>1. CASE x \in new
    BY <1>8, <1>9, <2>1, NewRowStep
  <2>2. CASE x \notin new /\ x = s
    <3>1. rows[x] = WithStatus(st[e][s], "Failed")
      BY <1>9, <2>2
    <3>2. RowStep(prc'[e].status = "Running", st[e][s], WithStatus(st[e][s], "Failed"))
      BY <1>2, <1>7, StatusStep
    <3> QED
      BY <2>2, <3>1, <3>2
  <2>3. CASE x \notin new /\ x # s
    BY <1>9, <2>3 DEF RowStep
  <2> QED
    BY <2>1, <2>2, <2>3
<1>11. RowsStep
  BY <1>1, <1>2, <1>10, OneTableRows
<1>12. \A x \in Execs : prc'[x].status = "Running" => prc[x].status = "Running"
  BY <1>0, <1>1, <1>2, OneExecRuns
<1>13. TimersKept /\ \A y \in Workers : worker'[y] = worker[y] \/ WorkerAfter(worker'[y])
  BY <1>1, <1>3, TimersStay, CommitWorkers
<1> QED
  BY <1>0, <1>1, <1>3, <1>6, <1>11, <1>12, <1>13, QuietQueues

(* The end of a backoff and the check of a process timeout. *)
LEMMA TimerConversionsQueue ==
    ASSUME TablesInv, WorkInv, QueueInv, NEW w \in Workers,
           ConvertTimerTaskToImmediateTask(w) \/ CheckProcessTimeout(w)
    PROVE  QueueInv'
<1> DEFINE t == worker[w].row.task
<1>0. QueuesOK /\ CopyOK(worker[w], imm, tim) /\ MessagesOK /\ TablesInv'
  BY TimerConversions DEF TablesInv, WorkInv, CopiesOK, QueueInv, Preserved
<1>1. worker[w].pc = "timer" /\ UNCHANGED <<prc, lq, st, messages>>
  BY DEF ConvertTimerTaskToImmediateTask, CheckProcessTimeout
<1>t. Coherent(tim, worker[w].row) /\ BackoffOK(t)
  BY <1>0, <1>1 DEF CopyOK, TimerPcs
<1>m. MessagesStep
  BY <1>0, <1>1, NothingPublished
<1>2. CASE ConvertTimerTaskToImmediateTask(w)
  <2>1. /\ t.type = "WorkerTaskBackoff" /\ WriteImmediate({Task(t.info, t.exec, t.sid, 0)}, imm)
        /\ tim' = Without(tim, worker[w].row) /\ Acknowledged(w)
    BY <1>2 DEF ConvertTimerTaskToImmediateTask
  <2>2. PICK new : new = {Task(t.info, t.exec, t.sid, 0)}
    OBVIOUS
  <2>3. t.info # "NewLocalQueueMessages"
    BY <1>t, <2>1 DEF BackoffOK, ApiTasks
  <2>4. \A x \in new : InfoIn(x, messages')
    BY <2>2, <2>3 DEF InfoIn, Task
  <2>5. IsFiniteSet(new) /\ WriteImmediate(new, imm) /\ imm \subseteq imm
    BY <2>1, <2>2, FS_Singleton
  <2>6. InfosStep
    BY <1>0, <2>4, <2>5, InfosInserted
  <2>7. TimersKept
    BY <1>t, <2>1, OtherTimerDeleted
  <2>8. \A y \in Workers : worker'[y] = worker[y] \/ WorkerAfter(worker'[y])
    BY <1>1, <1>m, <2>1, CommitWorkers
  <2> QED
    BY <1>0, <1>1, <1>m, <2>6, <2>7, <2>8, UntouchedRows
<1>3. CASE CheckProcessTimeout(w) /\ tim' = Without(tim, worker[w].row) /\ Acknowledged(w)
  <2>1. UNCHANGED imm /\ t.type = "ProcessTimeout"
    BY <1>3 DEF CheckProcessTimeout
  <2>2. InfosStep
    BY <2>1, InfosDeleted
  <2>3. TimersKept
    BY <1>t, <1>3, <2>1, OtherTimerDeleted
  <2>4. \A y \in Workers : worker'[y] = worker[y] \/ WorkerAfter(worker'[y])
    BY <1>1, <1>m, <1>3, CommitWorkers
  <2> QED
    BY <1>0, <1>1, <1>m, <2>2, <2>3, <2>4, UntouchedRows
<1>4. CASE CheckProcessTimeout(w) /\ worker' = [worker EXCEPT ![w] = Holding(w, "checked")] /\ UNCHANGED tim
  <2>1. UNCHANGED <<prc, lq, st, messages, imm, tim>>
    BY <1>1, <1>4 DEF CheckProcessTimeout
  <2>2. Holding(w, "checked").pc = "checked"
    BY DEF Holding, Idle
  <2>3. WorkerAfter(Holding(w, "checked"))
    BY <2>2 DEF WorkerAfter, ImmediatePcs, Prepared
  <2> QED
    BY <1>0, <1>4, <2>1, <2>3, OneWorkerMoves
<1> QED
  BY <1>2, <1>3, <1>4 DEF CheckProcessTimeout

(* What a fired timer or an answer adds to a row. *)
LEMMA WithResultsGot ==
    ASSUME NEW M, NEW row, TypedState(row), TypedGot(row.queueResults, M), NEW got, TypedGot(got, M),
           NEW x, x = WithResults(row, got)
    PROVE  /\ TypedGot(x.queueResults, M)
           /\ DOMAIN x.queueResults = DOMAIN got \cup DOMAIN row.queueResults
           /\ x.command = row.command /\ x.timerResults = row.timerResults /\ x.version = row.version
<1>1. PICK f : f = [i \in DOMAIN got \cup DOMAIN row.queueResults |->
                      IF i \in DOMAIN got THEN got[i] ELSE row.queueResults[i]]
  OBVIOUS
<1>2. x = [row EXCEPT !.queueResults = f]
  BY <1>1 DEF WithResults
<1>3. /\ x.queueResults = f
      /\ x.command = row.command /\ x.timerResults = row.timerResults /\ x.version = row.version
  BY <1>2 DEF TypedState
<1>4. DOMAIN f = DOMAIN got \cup DOMAIN row.queueResults /\ f = [i \in DOMAIN f |-> f[i]]
  BY <1>1
<1>5. IsFiniteSet(DOMAIN f)
  <2>1. PICK A, B : A = DOMAIN got /\ B = DOMAIN row.queueResults
    OBVIOUS
  <2>2. IsFiniteSet(A) /\ IsFiniteSet(B)
    BY <2>1 DEF TypedGot
  <2>3. IsFiniteSet(A \cup B)
    BY <2>2, FS_Union
  <2> QED
    BY <1>4, <2>1, <2>3
<1>6. \A i \in DOMAIN f : f[i] \in Seq(M)
  BY <1>1 DEF TypedGot
<1> QED
  BY <1>3, <1>4, <1>5, <1>6 DEF TypedGot

(* One result is enough for a state execution that waits for any. *)
LEMMA AnyCompletes ==
    ASSUME NEW M, NEW row, TypedRow(row, M), row.command.waitingType = "ANY_OF_COMPLETION",
           DOMAIN row.queueResults # {}
    PROVE  HasCompletedWaitUntilWaiting(row)
<1>1. IsFiniteSet(DOMAIN row.queueResults) /\ IsFiniteSet(row.timerResults)
  BY DEF TypedRow, TypedGot
<1>2. Cardinality(DOMAIN row.queueResults) \in Nat /\ Cardinality(row.timerResults) \in Nat
  BY <1>1, FS_CardinalityType
<1>3. Cardinality(DOMAIN row.queueResults) # 0
  BY <1>1, FS_EmptySet
<1>4. Cardinality(DOMAIN row.queueResults) + Cardinality(row.timerResults) > 0
  BY <1>2, <1>3
<1> QED
  BY <1>4 DEF HasCompletedWaitUntilWaiting

(* A transaction on the commands and the row of one state execution. *)
OtherTimersKept(e, s) ==
    \A x \in Execs : \A z \in StateExecIds : \A i :
        ~(x = e /\ z = s) /\ TimerOf(tim, x, z, i) => TimerOf(tim', x, z, i)

OthersCommands(e, s, q) == \A t \in StateExecIds \ {s} : q.cmds[t] = lq[e].cmds[t]

LEMMA OneStateQueues ==
    ASSUME TablesInv, TablesInv', QueueInv, MessagesStep, InfosStep, UNCHANGED prc,
           \A w \in Workers : worker'[w] = worker[w] \/ WorkerAfter(worker'[w]),
           NEW e \in Execs, NEW s \in StateExecIds, NEW new, RowSet(e, s, new),
           new.version > st[e][s].version, TypedRow(new, messages'[e]),
           NEW q, lq' = [lq EXCEPT ![e] = q], TypedQueues(q, messages'[e]), NothingSatisfiable(q),
           OthersCommands(e, s, q), OtherTimersKept(e, s),
           prc[e].status = "Running" => WaitsWell(e, s, new, q.cmds[s], tim')
    PROVE  QueueInv'
<1>1. HoldingsOK
  BY DEF QueueInv
<1>2. lq'[e] = q /\ lq' = [x \in Execs |-> lq'[x]] /\ \A x \in Execs \ {e} : lq'[x] = lq[x]
  BY <1>1 DEF HoldingsOK
<1>3. VersionsStep
  <2>1. ASSUME NEW x \in Execs, NEW z \in StateExecIds PROVE Moved(st[x][z], st'[x][z])
    BY DEF RowSet, Moved
  <2> QED
    BY <2>1 DEF VersionsStep
<1>4. ASSUME NEW x \in Execs PROVE TypedQueues(lq'[x], messages'[x]) /\ NothingSatisfiable(lq'[x])
  <2>1. CASE x = e
    BY <1>2, <2>1
  <2>2. CASE x # e
    <3>1. lq'[x] = lq[x] /\ messages[x] \subseteq messages'[x] /\ TypedQueues(lq[x], messages[x]) /\ NothingSatisfiable(lq[x])
      BY <1>1, <1>2, <2>2 DEF HoldingsOK, MessagesStep
    <3> QED
      BY <3>1, MoreMessages
  <2> QED
    BY <2>1, <2>2
<1>5. ASSUME NEW x \in Execs, NEW z \in StateExecIds PROVE TypedRow(st'[x][z], messages'[x])
  <2>1. CASE x = e /\ z = s
    BY <2>1 DEF RowSet
  <2>2. CASE ~(x = e /\ z = s)
    <3>1. st'[x][z] = st[x][z]
      BY <2>2 DEF RowSet
    <3>2. TypedRow(st[x][z], messages'[x])
      BY <1>1, MoreMessages DEF HoldingsOK, MessagesStep, TypedRow
    <3> QED
      BY <3>1, <3>2
  <2> QED
    BY <2>1, <2>2
<1>6. HoldingsOK'
  BY <1>2, <1>4, <1>5 DEF HoldingsOK
<1>7. ASSUME NEW x \in Execs, prc'[x].status = "Running", NEW z \in StateExecIds
      PROVE  WaitsWell(x, z, st'[x][z], lq'[x].cmds[z], tim')
  <2>1. CASE x = e /\ z = s
    BY <1>2, <1>7, <2>1 DEF RowSet
  <2>2. CASE ~(x = e /\ z = s)
    <3>1. st'[x][z] = st[x][z]
      BY <2>2 DEF RowSet
    <3>2. lq'[x].cmds[z] = lq[x].cmds[z]
      BY <1>2, <2>2 DEF OthersCommands
    <3>3. WaitsWell(x, z, st[x][z], lq[x].cmds[z], tim)
      BY <1>7 DEF QueueInv, WaitsOK
    <3>4. \A i : TimerOf(tim, x, z, i) => TimerOf(tim', x, z, i)
      BY <2>2 DEF OtherTimersKept
    <3>5. WaitsWell(x, z, st[x][z], lq[x].cmds[z], tim')
      BY <3>3, <3>4 DEF WaitsWell
    <3> QED
      BY <3>1, <3>2, <3>5
  <2> QED
    BY <2>1, <2>2
<1>8. WaitsOK'
  BY <1>7 DEF WaitsOK
<1> QED
  BY <1>3, <1>6, <1>8, QueueStep

(* A timer has fired: its result is added, or the state has moved on. *)
LEMMA TimerCommandQueue ==
    ASSUME TablesInv, WorkInv, QueueInv, NEW w \in Workers, ProcessTimerTaskForTimerCommand(w)
    PROVE  QueueInv'
<1> DEFINE e    == worker[w].row.task.exec
           s    == worker[w].row.task.sid
           info == worker[w].row.task.info
           row  == [st[e][s] EXCEPT !.timerResults = st[e][s].timerResults \cup {info}]
           done == HasCompletedWaitUntilWaiting(row)
           x    == WithStatus(row, IF done THEN "ExecuteRunning" ELSE "WaitUntilWaiting")
           exe  == IF done THEN {ExecuteTask(e, s)} ELSE {}
           q    == IF done THEN CleanupFor(lq[e], s) ELSE lq[e]
<1>0. QueuesOK /\ CopyOK(worker[w], imm, tim) /\ MessagesOK /\ HoldingsOK /\ TablesInv'
  BY TimerCommandPreserves DEF TablesInv, WorkInv, CopiesOK, QueueInv, Preserved
<1>1. /\ worker[w].pc = "timer" /\ worker[w].row.task.type = "TimerCommand" /\ Acknowledged(w)
      /\ UNCHANGED <<prc, messages>>
  BY DEF ProcessTimerTaskForTimerCommand
<1>2. e \in Execs /\ s \in StateExecIds /\ TypedState(st[e][s])
  <2>1. e \in Execs /\ s \in StateExecIds /\ ExecInv(prc[e], st[e])
    BY <1>1, HeldTask DEF StateTasks
  <2> QED
    BY <2>1 DEF ExecInv, ExecBase, StateTable
<1>t. Coherent(tim, worker[w].row)
  BY <1>0, <1>1 DEF CopyOK, TimerPcs
<1>m. MessagesStep /\ messages'[e] = messages[e]
  BY <1>0, <1>1, NothingPublished
<1>c. \A y \in Workers : worker'[y] = worker[y] \/ WorkerAfter(worker'[y])
  BY <1>1, <1>m, CommitWorkers
<1>3. CASE UNCHANGED <<st, lq, imm, immSeq, tim>>
  <2>1. InfosStep /\ TimersKept
    BY <1>3, InfosDeleted, TimersStay
  <2> QED
    BY <1>0, <1>1, <1>3, <1>c, <1>m, <2>1, UntouchedRows
<1>4. CASE /\ st' = [st EXCEPT ![e][s] = x] /\ WriteImmediate(exe, imm) /\ st[e][s].status = "WaitUntilWaiting"
           /\ lq' = [lq EXCEPT ![e] = q]
           /\ tim' = Without(tim, worker[w].row)
  <2>1. /\ TypedState(row) /\ row.version = st[e][s].version /\ row.command = st[e][s].command
        /\ row.queueResults = st[e][s].queueResults /\ row.timerResults = st[e][s].timerResults \cup {info}
    BY <1>2 DEF TypedState
  <2>2. PICK status : status = IF done THEN "ExecuteRunning" ELSE "WaitUntilWaiting"
    OBVIOUS
  <2>3. x = WithStatus(row, status)
    BY <2>2
  <2>r. worker[w].row.task.exec = e /\ worker[w].row.task.sid = s /\ worker[w].row.task.info = info
    OBVIOUS
  <2> HIDE DEF row, x, q, e, s, info, exe
  <2>4. /\ x.status = status /\ x.version > row.version /\ x.command = row.command
        /\ x.queueResults = row.queueResults /\ x.timerResults = row.timerResults
    BY <2>1, <2>3, WithStatusKeeps
  <2>5. InfosStep
    <3>1. PICK new : new = exe
      OBVIOUS
    <3>2. WriteImmediate(new, imm) /\ imm \subseteq imm
      BY <1>4, <3>1
    <3>3. IsFiniteSet(new)
      BY <3>1, FS_EmptySet, FS_Singleton DEF exe
    <3>4. \A t \in new : InfoIn(t, messages')
      BY <3>1, OtherTasks DEF exe
    <3> QED
      BY <1>0, <3>2, <3>3, <3>4, InfosInserted
  <2>6. TypedQueues(lq[e], messages[e]) /\ NothingSatisfiable(lq[e]) /\ TypedRow(st[e][s], messages[e])
    BY <1>0, <1>2 DEF HoldingsOK
  <2>7. TypedRow(x, messages'[e])
    <3>1. IsFiniteSet(st[e][s].timerResults \cup {info})
      BY <2>6, FS_Union, FS_Singleton DEF TypedRow
    <3> QED
      BY <1>m, <2>1, <2>4, <2>6, <3>1 DEF TypedRow
  <2>8. CleanFacts(lq[e], s, CleanupFor(lq[e], s), messages[e])
    BY <1>2, <2>6, CleanupFacts
  <2>9. TypedQueues(q, messages'[e]) /\ OthersCommands(e, s, q)
    BY <1>m, <2>6, <2>8 DEF q, CleanFacts, OthersCommands
  <2>10. NothingSatisfiable(q)
    <3>1. CASE done
      <4>1. q = CleanupFor(lq[e], s)
        BY <3>1 DEF q
      <4>2. CleanFacts(lq[e], s, q, messages[e])
        BY <2>8, <4>1
      <4>3. DOMAIN q.cmds = StateExecIds /\ DOMAIN lq[e].cmds = StateExecIds
        BY <2>6, <4>2 DEF CleanFacts, TypedQueues
      <4> QED
        BY <2>6, <4>2, <4>3 DEF CleanFacts, NothingSatisfiable
    <3>2. CASE ~done
      BY <2>6, <3>2 DEF q
    <3> QED
      BY <3>1, <3>2
  <2>11. OtherTimersKept(e, s)
    <3> SUFFICES ASSUME NEW y \in Execs, NEW z \in StateExecIds, NEW i, ~(y = e /\ z = s), TimerOf(tim, y, z, i)
                 PROVE  TimerOf(tim', y, z, i)
      BY DEF OtherTimersKept
    <3>1. PICK r \in tim : r.task = Task("TimerCommand", y, z, i)
      BY DEF TimerOf
    <3>2. r.task.exec = y /\ r.task.sid = z
      BY <3>1 DEF Task
    <3>3. r.task # worker[w].row.task
      BY <2>r, <3>2
    <3>4. r \in tim'
      BY <1>4, <1>t, <3>3 DEF Coherent, Without
    <3> QED
      BY <3>1, <3>4 DEF TimerOf
  <2>12. ASSUME prc[e].status = "Running" PROVE WaitsWell(e, s, x, q.cmds[s], tim')
    <3>1. CASE done
      <4>1. x.status = "ExecuteRunning"
        BY <2>2, <2>4, <3>1
      <4>2. DOMAIN q.cmds[s] = {}
        BY <2>8, <3>1 DEF CleanFacts, q
      <4> QED
        BY <4>1, <4>2 DEF WaitsWell
    <3>2. CASE ~done
      <4>1. x.status = "WaitUntilWaiting" /\ q = lq[e]
        BY <2>2, <2>4, <3>2 DEF q
      <4>2. WaitsWell(e, s, st[e][s], lq[e].cmds[s], tim)
        BY <1>2, <2>12 DEF QueueInv, WaitsOK
      <4>3. DOMAIN x.command.queues \subseteq DOMAIN x.queueResults \cup DOMAIN q.cmds[s]
        BY <1>4, <2>1, <2>4, <4>1, <4>2 DEF WaitsWell
      <4>4. ASSUME NEW i \in 1..x.command.timers PROVE i \in x.timerResults \/ TimerOf(tim', e, s, i)
        <5>1. i \in st[e][s].timerResults \/ TimerOf(tim, e, s, i)
          BY <1>4, <2>1, <2>4, <4>2 DEF WaitsWell
        <5>2. CASE i \in st[e][s].timerResults
          BY <2>1, <2>4, <5>2
        <5>3. CASE TimerOf(tim, e, s, i) /\ i # info
          <6>1. PICK r \in tim : r.task = Task("TimerCommand", e, s, i)
            BY <5>3 DEF TimerOf
          <6>2. r.task.info = i
            BY <6>1 DEF Task
          <6>3. r.task # worker[w].row.task
            BY <2>r, <5>3, <6>2
          <6>4. r \in tim'
            BY <1>4, <1>t, <6>3 DEF Coherent, Without
          <6> QED
            BY <6>1, <6>4 DEF TimerOf
        <5>4. CASE i = info
          BY <2>1, <2>4, <5>4
        <5> QED
          BY <5>1, <5>2, <5>3, <5>4
      <4> QED
        BY <4>1, <4>3, <4>4 DEF WaitsWell
    <3> QED
      BY <3>1, <3>2
  <2>13. RowSet(e, s, x)
    BY <1>2, <1>4, OneRow
  <2>14. x.version > st[e][s].version /\ lq' = [lq EXCEPT ![e] = q] /\ UNCHANGED prc
    BY <1>1, <1>4, <2>1, <2>4
  <2> HIDE DEF done
  <2> QED
    BY <1>0, <1>2, <1>c, <1>m, <2>5, <2>7, <2>9, <2>10, <2>11, <2>12, <2>13, <2>14, OneStateQueues
<1> QED
  BY <1>3, <1>4 DEF ProcessTimerTaskForTimerCommand

(* An answer of a WaitUntil API is registered, whatever the state was. *)
Registration(e, s, req, o, M) ==
    /\ TypedQueues(o.q, M) /\ TypedGot(o.got, M) /\ NothingSatisfiable(o.q)
    /\ OthersCommands(e, s, o.q)
    /\ \/ DOMAIN req.queues \subseteq DOMAIN o.q.cmds[s] \cup DOMAIN o.got
       \/ req.queues # <<>> /\ Enough(req.waitingType, o)

LEMMA RegisteredFacts ==
    ASSUME QueueInv, NEW e \in Execs, NEW s \in StateExecIds, NEW req \in CommandRequests,
           NEW o \in Registered(e, s, req)
    PROVE  Registration(e, s, req, o, messages[e])
<1>1. TypedQueues(lq[e], messages[e]) /\ NothingSatisfiable(lq[e]) /\ InQueues(messages[e])
  BY DEF QueueInv, HoldingsOK, MessagesOK
<1>2. CASE req.queues = <<>>
  <2>1. o = [q |-> lq[e], got |-> <<>>]
    BY <1>2 DEF Registered
  <2>2. o.q = lq[e] /\ o.got = <<>>
    BY <2>1
  <2>3. TypedGot(o.got, messages[e])
    BY <2>2, NothingGot
  <2>4. DOMAIN req.queues = {}
    BY <1>2
  <2> QED
    BY <1>1, <2>2, <2>3, <2>4 DEF Registration, OthersCommands
<1>3. CASE req.queues # <<>>
  <2>1. req.queues \in Seq([queue : Queues, count : Nat])
    BY CommandAssumption
  <2>2. o \in TryConsumeForStateExecution(AddNewLocalQueueCommands(lq[e], s, req.queues), s, req.waitingType)
    BY <1>3 DEF Registered
  <2>3. PICK q, M, commands, waitingType :
          q = lq[e] /\ M = messages[e] /\ commands = req.queues /\ waitingType = req.waitingType
    OBVIOUS
  <2>4. /\ TypedQueues(q, M) /\ NothingSatisfiable(q) /\ InQueues(M)
        /\ commands \in Seq([queue : Queues, count : Nat])
        /\ o \in TryConsumeForStateExecution(AddNewLocalQueueCommands(q, s, commands), s, waitingType)
    BY <1>1, <2>1, <2>2, <2>3
  <2>5. RegisterResult(q, s, commands, waitingType, o, M)
    BY <2>4, TryConsumeFacts
  <2> QED
    BY <1>3, <2>3, <2>5 DEF RegisterResult, Registration, OthersCommands
<1> QED
  BY <1>2, <1>3

LEMMA UpdateWaitUntilQueue ==
    ASSUME TablesInv, WorkInv, QueueInv, NEW w \in Workers, UpdateWaitUntil(w)
    PROVE  QueueInv'
<1> DEFINE e == worker[w].row.task.exec
           s == worker[w].row.task.sid
<1>0. QueuesOK /\ CopiesOK /\ MessagesOK /\ HoldingsOK /\ TablesInv'
  BY UpdateWaitUntilPreserves DEF TablesInv, WorkInv, QueueInv, Preserved
<1>1. worker[w].pc = "waitUntil" /\ Acknowledged(w) /\ UNCHANGED prc
  BY DEF UpdateWaitUntil
<1>2. e \in Execs /\ s \in StateExecIds /\ TypedState(st[e][s])
  BY <1>1, PreparedState
<1>p. PICK req \in CommandRequests \ {EmptyCommand}, ms \in Publications :
        \E o \in Registered(e, s, req) :
          LET row  == WithResults([st[e][s] EXCEPT !.command = req], o.got)
              done == req.queues # <<>> /\ HasCompletedWaitUntilWaiting(row)
          IN  /\ st' = [st EXCEPT ![e][s] =
                          WithStatus(row, IF done THEN "ExecuteRunning" ELSE "WaitUntilWaiting")]
              /\ lq' = [lq EXCEPT ![e] = IF done THEN CleanupFor(o.q, s) ELSE o.q]
              /\ WriteTimers({Task("TimerCommand", e, s, i) : i \in 1..req.timers}, tim)
              /\ Publish(e, ms)
              /\ WriteImmediate((IF done THEN {ExecuteTask(e, s)} ELSE {}) \cup PublishTasks(e, ms),
                                Without(imm, worker[w].row))
  BY DEF UpdateWaitUntil
<1>3. PICK o \in Registered(e, s, req) :
        LET row  == WithResults([st[e][s] EXCEPT !.command = req], o.got)
            done == req.queues # <<>> /\ HasCompletedWaitUntilWaiting(row)
        IN  /\ st' = [st EXCEPT ![e][s] =
                        WithStatus(row, IF done THEN "ExecuteRunning" ELSE "WaitUntilWaiting")]
            /\ lq' = [lq EXCEPT ![e] = IF done THEN CleanupFor(o.q, s) ELSE o.q]
            /\ WriteTimers({Task("TimerCommand", e, s, i) : i \in 1..req.timers}, tim)
            /\ Publish(e, ms)
            /\ WriteImmediate((IF done THEN {ExecuteTask(e, s)} ELSE {}) \cup PublishTasks(e, ms),
                              Without(imm, worker[w].row))
  BY <1>p
<1> DEFINE asked == [st[e][s] EXCEPT !.command = req]
           row == WithResults(asked, o.got)
           done == req.queues # <<>> /\ HasCompletedWaitUntilWaiting(row)
           x == WithStatus(row, IF done THEN "ExecuteRunning" ELSE "WaitUntilWaiting")
           q == IF done THEN CleanupFor(o.q, s) ELSE o.q
           timers == {Task("TimerCommand", e, s, i) : i \in 1..req.timers}
           execute == IF done THEN {ExecuteTask(e, s)} ELSE {}
<1>4. PICK new : new = execute \cup PublishTasks(e, ms)
  OBVIOUS
<1>5. /\ st' = [st EXCEPT ![e][s] = x] /\ lq' = [lq EXCEPT ![e] = q] /\ WriteTimers(timers, tim)
      /\ Publish(e, ms)
      /\ WriteImmediate(new, Without(imm, worker[w].row))
  BY <1>3, <1>4
<1>6. PICK status : status = IF done THEN "ExecuteRunning" ELSE "WaitUntilWaiting"
  OBVIOUS
<1>7. x = WithStatus(row, status) /\ row = WithResults(asked, o.got)
  BY <1>6
<1>8. /\ TypedState(asked) /\ asked.version = st[e][s].version /\ asked.command = req
      /\ asked.queueResults = st[e][s].queueResults /\ asked.timerResults = st[e][s].timerResults
  BY <1>2 DEF TypedState
<1> HIDE DEF e, s, asked, row, done, x, q, timers, execute
<1>m. MessagesStep /\ \A t \in PublishTasks(e, ms) : InfoIn(t, messages')
  BY <1>0, <1>2, <1>5, PublishedMessages
<1>c. \A y \in Workers : worker'[y] = worker[y] \/ WorkerAfter(worker'[y])
  BY <1>1, <1>m, CommitWorkers
<1>i. InfosStep
  <2>1. IsFiniteSet(execute)
    BY FS_EmptySet, FS_Singleton DEF execute
  <2>2. \A t \in execute : InfoIn(t, messages')
    BY OtherTasks DEF execute
  <2>3. IsFiniteSet(new)
    BY <1>4, <2>1, PublishTasksFinite, FS_Union
  <2>4. \A t \in new : InfoIn(t, messages')
    BY <1>4, <1>m, <2>2
  <2> QED
    BY <1>0, <1>5, <2>3, <2>4, WithoutSubset, InfosInserted
<1>t. tim \subseteq tim' /\ \A i \in 1..req.timers : TimerOf(tim', e, s, i)
  <2>1. req.timers \in Nat
    BY CommandAssumption
  <2>2. IsFiniteSet(timers) /\ \A t \in timers : BackoffOK(t)
    BY <2>1, TimerTasksFinite, CommandTimers DEF timers
  <2>3. tim \subseteq tim' /\ \A t \in timers : \E r \in tim' : r.task = t
    BY <1>0, <1>5, <2>2, TimInserted
  <2> QED
    BY <2>3 DEF timers, TimerOf
<1>9. PICK M : M = messages'[e]
  OBVIOUS
<1>10. Registration(e, s, req, o, messages[e])
  BY <1>2, RegisteredFacts
<1>11. TypedQueues(o.q, M) /\ TypedGot(o.got, M) /\ TypedGot(asked.queueResults, M)
  <2>1. messages[e] \subseteq M
    BY <1>2, <1>9, <1>m DEF MessagesStep
  <2>2. TypedRow(st[e][s], messages[e])
    BY <1>0, <1>2 DEF HoldingsOK
  <2> QED
    BY <1>8, <1>10, <2>1, <2>2, MoreMessages DEF Registration, TypedRow
<1>12. /\ TypedGot(row.queueResults, M) /\ DOMAIN row.queueResults = DOMAIN o.got \cup DOMAIN asked.queueResults
       /\ row.command = req /\ row.timerResults = st[e][s].timerResults /\ row.version = st[e][s].version
       /\ TypedState(row)
  <2>1. PICK g : g = o.got
    OBVIOUS
  <2>2. TypedGot(g, M) /\ row = WithResults(asked, g)
    BY <1>7, <1>11, <2>1
  <2>3. /\ TypedGot(row.queueResults, M) /\ DOMAIN row.queueResults = DOMAIN g \cup DOMAIN asked.queueResults
        /\ row.command = asked.command /\ row.timerResults = asked.timerResults /\ row.version = asked.version
    BY <1>8, <1>11, <2>2, WithResultsGot
  <2>4. TypedState(row)
    BY <1>8, <2>2, WithResultsEffect
  <2> QED
    BY <1>8, <2>1, <2>3, <2>4
<1>13. /\ x.status = status /\ x.version > row.version /\ x.command = row.command
       /\ x.queueResults = row.queueResults /\ x.timerResults = row.timerResults
  BY <1>7, <1>12, WithStatusKeeps
<1>14. TypedRow(row, M) /\ TypedRow(x, M)
  BY <1>0, <1>2, <1>12, <1>13 DEF HoldingsOK, TypedRow
<1>15. CleanFacts(o.q, s, CleanupFor(o.q, s), M)
  BY <1>2, <1>11, CleanupFacts
<1>16. TypedQueues(q, M) /\ OthersCommands(e, s, q)
  BY <1>10, <1>11, <1>15 DEF q, CleanFacts, OthersCommands, Registration
<1>17. NothingSatisfiable(q)
  <2>1. CASE done
    <3>1. q = CleanupFor(o.q, s)
      BY <2>1 DEF q
    <3>2. CleanFacts(o.q, s, q, M) /\ NothingSatisfiable(o.q)
      BY <1>10, <1>15, <3>1 DEF Registration
    <3>3. DOMAIN q.cmds = StateExecIds /\ DOMAIN o.q.cmds = StateExecIds
      BY <1>11, <3>2 DEF CleanFacts, TypedQueues
    <3> QED
      BY <3>2, <3>3 DEF CleanFacts, NothingSatisfiable
  <2>2. CASE ~done
    BY <1>10, <2>2 DEF q, Registration
  <2> QED
    BY <2>1, <2>2
<1>18. OtherTimersKept(e, s)
  BY <1>t DEF OtherTimersKept, TimerOf
<1>19. WaitsWell(e, s, x, q.cmds[s], tim')
  <2>1. CASE done
    <3>1. x.status = "ExecuteRunning"
      BY <1>6, <1>13, <2>1
    <3>2. DOMAIN q.cmds[s] = {}
      BY <1>15, <2>1 DEF CleanFacts, q
    <3> QED
      BY <3>1, <3>2 DEF WaitsWell
  <2>2. CASE ~done
    <3>1. x.status = "WaitUntilWaiting" /\ q = o.q
      BY <1>6, <1>13, <2>2 DEF q
    <3>2. ~(req.queues # <<>> /\ Enough(req.waitingType, o))
      <4> SUFFICES ASSUME req.queues # <<>>, Enough(req.waitingType, o) PROVE FALSE
        OBVIOUS
      <4>1. o.got # <<>> /\ req.waitingType = "ANY_OF_COMPLETION"
        BY DEF Enough
      <4>2. DOMAIN o.got # {}
        BY <1>11, <4>1, EmptyFunction DEF TypedGot
      <4>3. HasCompletedWaitUntilWaiting(row)
        BY <1>12, <1>14, <4>1, <4>2, AnyCompletes
      <4> QED
        BY <2>2, <4>3 DEF done
    <3>3. DOMAIN req.queues \subseteq DOMAIN o.q.cmds[s] \cup DOMAIN o.got
      BY <1>10, <3>2 DEF Registration
    <3>4. DOMAIN x.command.queues \subseteq DOMAIN x.queueResults \cup DOMAIN q.cmds[s]
      BY <1>12, <1>13, <3>1, <3>3
    <3>5. \A i \in 1..x.command.timers : TimerOf(tim', e, s, i)
      BY <1>t, <1>12, <1>13
    <3> QED
      BY <3>1, <3>4, <3>5 DEF WaitsWell
  <2> QED
    BY <2>1, <2>2
<1>20. RowSet(e, s, x)
  BY <1>2, <1>5, OneRow
<1>21. /\ x.version > st[e][s].version /\ lq' = [lq EXCEPT ![e] = q]
       /\ TypedRow(x, messages'[e]) /\ TypedQueues(q, messages'[e])
  BY <1>5, <1>9, <1>12, <1>13, <1>14, <1>16
<1> QED
  BY <1>0, <1>1, <1>2, <1>c, <1>i, <1>m, <1>16, <1>17, <1>18, <1>19, <1>20, <1>21, OneStateQueues

(* What a batch has handed to state execution s. *)
GotOf(o, s) == [i \in {x[2] : x \in {y \in DOMAIN o.got : y[1] = s}} |-> o.got[<<s, i>>]]

LEMMA GotOfFacts ==
    ASSUME NEW M, NEW q, NEW o, BatchOK(q, o, M), NEW s \in StateExecIds
    PROVE  /\ TypedGot(GotOf(o, s), M)
           /\ \A i : i \in DOMAIN GotOf(o, s) <=> i \in DOMAIN q.cmds[s] /\ <<s, i>> \in DOMAIN o.got
           /\ s \notin {x[1] : x \in DOMAIN o.got} => \A i : <<s, i>> \notin DOMAIN o.got
<1>1. PICK D : D = DOMAIN o.got
  OBVIOUS
<1>2. /\ IsFiniteSet(D) /\ \A y \in D : o.got[y] \in Seq(M)
      /\ \A y \in D : \E t \in StateExecIds : \E i \in DOMAIN q.cmds[t] : y = <<t, i>>
  BY <1>1 DEF BatchOK, TypedGot
<1> DEFINE mine == {y \in D : y[1] = s}
           idx  == {x[2] : x \in mine}
<1>3. ASSUME NEW i PROVE i \in idx <=> i \in DOMAIN q.cmds[s] /\ <<s, i>> \in D
  <2>1. ASSUME i \in idx PROVE i \in DOMAIN q.cmds[s] /\ <<s, i>> \in D
    <3>1. PICK y \in D : y[1] = s /\ i = y[2]
      BY <2>1
    <3>2. PICK t \in StateExecIds : \E j \in DOMAIN q.cmds[t] : y = <<t, j>>
      BY <1>2, <3>1
    <3>3. PICK j \in DOMAIN q.cmds[t] : y = <<t, j>>
      BY <3>2
    <3> QED
      BY <3>1, <3>3
  <2>2. ASSUME <<s, i>> \in D PROVE i \in idx
    <3>1. <<s, i>> \in mine /\ <<s, i>>[2] = i
      BY <2>2
    <3> QED
      BY <3>1
  <2> QED
    BY <2>1, <2>2
<1>4. IsFiniteSet(idx)
  <2> DEFINE f == [x \in mine |-> x[2]]
  <2>1. IsFiniteSet(mine)
    BY <1>2, FS_Subset
  <2>2. f \in Surjection(mine, idx)
    BY DEF Surjection
  <2> QED
    BY <2>1, <2>2, FS_Surjection
<1>5. PICK g : g = GotOf(o, s)
  OBVIOUS
<1>6. g = [i \in idx |-> o.got[<<s, i>>]]
  BY <1>1, <1>5 DEF GotOf
<1> HIDE DEF idx
<1>7. DOMAIN g = idx /\ g = [i \in DOMAIN g |-> g[i]] /\ \A i \in idx : g[i] = o.got[<<s, i>>]
  BY <1>6
<1>8. TypedGot(g, M)
  BY <1>2, <1>3, <1>4, <1>7 DEF TypedGot
<1>9. ASSUME s \notin {x[1] : x \in DOMAIN o.got}, NEW i PROVE <<s, i>> \notin DOMAIN o.got
  <2>1. <<s, i>>[1] = s
    OBVIOUS
  <2> QED
    BY <1>9, <2>1
<1> QED
  BY <1>1, <1>3, <1>5, <1>7, <1>8, <1>9

(* The commands of the state executions in D are removed. *)
Emptied(q, D) == [q EXCEPT !.cmds = [s \in DOMAIN q.cmds |-> IF s \in D THEN NoCommands ELSE q.cmds[s]]]

EmptiedResult(q, D, p, M) ==
    /\ TypedQueues(p, M)
    /\ NothingSatisfiable(p)
    /\ \A s \in StateExecIds : s \in D => DOMAIN p.cmds[s] = {}
    /\ \A s \in StateExecIds : s \notin D => p.cmds[s] = q.cmds[s]

LEMMA EmptiedFacts ==
    ASSUME NEW M, NEW q, TypedQueues(q, M), NothingSatisfiable(q), NEW D
    PROVE  EmptiedResult(q, D, Emptied(q, D), M)
<1>1. /\ q = [cmds |-> q.cmds, msgs |-> q.msgs]
      /\ q.cmds = [s \in StateExecIds |-> q.cmds[s]] /\ DOMAIN q.cmds = StateExecIds
      /\ \A s \in StateExecIds : TypedCommands(q.cmds[s])
      /\ q.msgs = [n \in Queues |-> q.msgs[n]]
      /\ \A n \in Queues : TypedMessages(n, q.msgs[n], M)
  BY DEF TypedQueues
<1>2. PICK p : p = Emptied(q, D)
  OBVIOUS
<1>3. /\ p = [cmds |-> p.cmds, msgs |-> p.msgs] /\ p.msgs = q.msgs
      /\ p.cmds = [s \in DOMAIN q.cmds |-> IF s \in D THEN NoCommands ELSE q.cmds[s]]
  BY <1>1, <1>2 DEF Emptied
<1>4. /\ p.cmds = [s \in StateExecIds |-> p.cmds[s]] /\ DOMAIN p.cmds = StateExecIds
      /\ \A s \in StateExecIds : p.cmds[s] = IF s \in D THEN NoCommands ELSE q.cmds[s]
  BY <1>1, <1>3
<1>5. \A s \in StateExecIds : TypedCommands(p.cmds[s])
  BY <1>1, <1>4, NoCommandsTyped
<1>6. TypedQueues(p, M)
  BY <1>1, <1>3, <1>4, <1>5 DEF TypedQueues
<1>7. /\ \A s \in StateExecIds : s \in D => DOMAIN p.cmds[s] = {}
      /\ \A s \in StateExecIds : s \notin D => p.cmds[s] = q.cmds[s]
  BY <1>4, NoCommandsTyped
<1>8. NothingSatisfiable(p)
  <2> SUFFICES ASSUME NEW s \in StateExecIds, NEW i \in DOMAIN p.cmds[s]
               PROVE  Len(p.msgs[p.cmds[s][i].queue]) < p.cmds[s][i].count
    BY <1>4 DEF NothingSatisfiable
  <2>1. p.cmds[s] = q.cmds[s]
    BY <1>7
  <2> QED
    BY <1>1, <1>3, <2>1 DEF NothingSatisfiable
<1> QED
  BY <1>2, <1>6, <1>7, <1>8 DEF EmptiedResult

(* What the batch does to the row and the commands of one state execution. *)
HandedOver(e, s, x, cmds, M) ==
    /\ Moved(st[e][s], x)
    /\ TypedRow(x, M)
    /\ WaitsWell(e, s, st[e][s], lq[e].cmds[s], tim) => WaitsWell(e, s, x, cmds, tim)

LEMMA LocalQueueQueue ==
    ASSUME TablesInv, QueueInv, NEW w \in Workers, ProcessLocalQueueMessages(w)
    PROVE  QueueInv'
<1> DEFINE e == worker[w].row.task.exec
           ms == worker[w].row.task.info
<1>0. QueuesOK /\ MessagesOK /\ HoldingsOK /\ InfosOK /\ WaitsOK /\ TablesInv'
  <2>1. Preserved
    BY LocalQueuePreserves
  <2> QED
    BY <2>1 DEF QueueInv, TablesInv, Preserved
<1>1. /\ worker[w].pc = "immediate" /\ worker[w].row.task.type = "NewLocalQueueMessages" /\ Acknowledged(w)
      /\ UNCHANGED <<prc, messages, tim>>
  BY DEF ProcessLocalQueueMessages
<1>2. e \in Execs /\ ExecInv(prc[e], st[e]) /\ \A s \in StateExecIds : TypedState(st[e][s])
  <2>1. e \in Execs /\ ExecInv(prc[e], st[e])
    BY <1>1, HeldTask
  <2> QED
    BY <2>1 DEF ExecInv, ExecBase, StateTable
<1>m. MessagesStep /\ messages'[e] = messages[e]
  BY <1>0, <1>1, NothingPublished
<1>c. \A y \in Workers : worker'[y] = worker[y] \/ WorkerAfter(worker'[y])
  BY <1>1, <1>m, CommitWorkers
<1>3. PICK o \in AddMessages(lq[e], ms) :
        LET assigned == {x[1] : x \in DOMAIN o.got}
            got(s)   == [i \in {x[2] : x \in {y \in DOMAIN o.got : y[1] = s}} |-> o.got[<<s, i>>]]
            row(s)   == WithResults(st[e][s], got(s))
            done     == {s \in assigned : HasCompletedWaitUntilWaiting(row(s))}
        IN  /\ assigned \subseteq {s \in StateExecIds : st[e][s].status # "None"}
            /\ st' = [st EXCEPT ![e] = [s \in StateExecIds |->
                        IF s \in done THEN WithStatus(row(s), "ExecuteRunning")
                        ELSE IF s \in assigned THEN WithStatus(row(s), st[e][s].status)
                        ELSE st[e][s]]]
            /\ lq' = [lq EXCEPT ![e] = [o.q EXCEPT !.cmds =
                        [s \in DOMAIN o.q.cmds |-> IF s \in done THEN NoCommands ELSE o.q.cmds[s]]]]
            /\ WriteImmediate({ExecuteTask(e, s) : s \in done}, Without(imm, worker[w].row))
  BY DEF ProcessLocalQueueMessages
<1> DEFINE assigned == {x[1] : x \in DOMAIN o.got}
           row(s)   == WithResults(st[e][s], GotOf(o, s))
           done     == {s \in assigned : HasCompletedWaitUntilWaiting(row(s))}
           rows     == [s \in StateExecIds |->
                          IF s \in done THEN WithStatus(row(s), "ExecuteRunning")
                          ELSE IF s \in assigned THEN WithStatus(row(s), st[e][s].status)
                          ELSE st[e][s]]
<1>4. /\ done \subseteq StateExecIds /\ done \subseteq assigned
      /\ st' = [st EXCEPT ![e] = rows]
      /\ lq' = [lq EXCEPT ![e] = Emptied(o.q, done)]
      /\ WriteImmediate({ExecuteTask(e, s) : s \in done}, Without(imm, worker[w].row))
  BY <1>3 DEF GotOf, Emptied
<1>5. InfosStep
  <2> HIDE DEF e, done
  <2>1. PICK new : new = {ExecuteTask(e, s) : s \in done}
    OBVIOUS
  <2>2. IsFiniteSet(new)
    <3> DEFINE f == [s \in done |-> ExecuteTask(e, s)]
    <3>1. IsFiniteSet(done)
      BY <1>4, FS_Subset, StateExecIdsFinite
    <3>2. f \in Surjection(done, new)
      BY <2>1 DEF Surjection
    <3> QED
      BY <3>1, <3>2, FS_Surjection
  <2>3. \A t \in new : InfoIn(t, messages')
    BY <2>1, OtherTasks
  <2>4. WriteImmediate(new, Without(imm, worker[w].row)) /\ Without(imm, worker[w].row) \subseteq imm
    BY <1>4, <2>1 DEF Without
  <2> QED
    BY <1>0, <2>2, <2>3, <2>4, InfosInserted
<1>6. PICK M : M = messages[e]
  OBVIOUS
<1>7. BatchOK(lq[e], o, M)
  <2>1. ms \in Seq(M) /\ IsInjective(ms)
    BY <1>0, <1>1, <1>6 DEF InfosOK, InfoIn, ImmediatePcs
  <2>2. TypedQueues(lq[e], M) /\ NothingSatisfiable(lq[e]) /\ InQueues(M)
    BY <1>0, <1>2, <1>6 DEF HoldingsOK, MessagesOK
  <2>3. PICK q, b : q = lq[e] /\ b = ms
    OBVIOUS
  <2>4. BatchResult(q, b, o, Len(b), M)
    BY <1>3, <2>1, <2>2, <2>3, AddMessagesFacts
  <2> QED
    BY <2>3, <2>4 DEF BatchResult
<1>8. EmptiedResult(o.q, done, Emptied(o.q, done), M)
  <2>1. TypedQueues(o.q, M) /\ NothingSatisfiable(o.q)
    BY <1>7 DEF BatchOK
  <2> QED
    BY <2>1, EmptiedFacts
<1>9. PICK q : q = Emptied(o.q, done)
  OBVIOUS
<1>10. TypedQueues(q, M) /\ NothingSatisfiable(q)
  BY <1>8, <1>9 DEF EmptiedResult
<1> HIDE DEF e, ms, assigned, done
<1>11. ASSUME NEW s \in StateExecIds PROVE HandedOver(e, s, rows[s], q.cmds[s], M)
  <2>1. /\ TypedGot(GotOf(o, s), M)
        /\ \A i : i \in DOMAIN GotOf(o, s) <=> i \in DOMAIN lq[e].cmds[s] /\ <<s, i>> \in DOMAIN o.got
        /\ s \notin assigned => \A i : <<s, i>> \notin DOMAIN o.got
    BY <1>7, GotOfFacts DEF assigned
  <2>2. TypedState(st[e][s]) /\ TypedRow(st[e][s], M)
    BY <1>0, <1>2, <1>6 DEF HoldingsOK
  <2>3. PICK x : x = row(s)
    OBVIOUS
  <2>4. /\ TypedGot(x.queueResults, M)
        /\ DOMAIN x.queueResults = DOMAIN GotOf(o, s) \cup DOMAIN st[e][s].queueResults
        /\ x.command = st[e][s].command /\ x.timerResults = st[e][s].timerResults
        /\ x.version = st[e][s].version
    <3>1. PICK old, g : old = st[e][s] /\ g = GotOf(o, s)
      OBVIOUS
    <3>2. TypedState(old) /\ TypedGot(old.queueResults, M) /\ TypedGot(g, M) /\ x = WithResults(old, g)
      BY <2>1, <2>2, <2>3, <3>1 DEF TypedRow
    <3>3. /\ TypedGot(x.queueResults, M)
          /\ DOMAIN x.queueResults = DOMAIN g \cup DOMAIN old.queueResults
          /\ x.command = old.command /\ x.timerResults = old.timerResults /\ x.version = old.version
      BY <3>2, WithResultsGot
    <3> QED
      BY <3>1, <3>3
  <2>5. TypedState(x)
    BY <2>2, <2>3, WithResultsEffect
  <2>6. PICK y : y = rows[s]
    OBVIOUS
  <2>7. y = IF s \in done THEN WithStatus(x, "ExecuteRunning")
            ELSE IF s \in assigned THEN WithStatus(x, st[e][s].status) ELSE st[e][s]
    BY <2>3, <2>6
  <2> HIDE DEF row, rows
  <2>8. \A i \in DOMAIN lq[e].cmds[s] : i \in DOMAIN o.q.cmds[s] <=> <<s, i>> \notin DOMAIN o.got
    BY <1>7 DEF BatchOK
  <2>9. DOMAIN o.q.cmds[s] \subseteq DOMAIN lq[e].cmds[s]
    BY <1>7 DEF BatchOK
  <2>10. HandedOver(e, s, y, q.cmds[s], M)
    <3>1. CASE s \in done
      <4>1. y = WithStatus(x, "ExecuteRunning")
        BY <2>7, <3>1
      <4>2. /\ y.status = "ExecuteRunning" /\ y.version > x.version
            /\ y.queueResults = x.queueResults /\ y.timerResults = x.timerResults
        BY <2>5, <4>1, WithStatusKeeps
      <4>3. DOMAIN q.cmds[s] = {}
        BY <1>8, <1>9, <3>1 DEF EmptiedResult
      <4>4. WaitsWell(e, s, y, q.cmds[s], tim)
        BY <4>2, <4>3 DEF WaitsWell
      <4> QED
        BY <2>2, <2>4, <4>2, <4>4 DEF HandedOver, Moved, TypedRow
    <3>2. CASE s \in assigned /\ s \notin done
      <4>1. y = WithStatus(x, st[e][s].status)
        BY <2>7, <3>2
      <4>2. /\ y.status = st[e][s].status /\ y.version > x.version /\ y.command = x.command
            /\ y.queueResults = x.queueResults /\ y.timerResults = x.timerResults
        BY <2>5, <4>1, WithStatusKeeps
      <4>3. q.cmds[s] = o.q.cmds[s]
        BY <1>8, <1>9, <3>2 DEF EmptiedResult
      <4>4. DOMAIN lq[e].cmds[s] \subseteq DOMAIN q.cmds[s] \cup DOMAIN x.queueResults
        BY <2>1, <2>4, <2>8, <4>3
      <4>5. DOMAIN st[e][s].queueResults \subseteq DOMAIN x.queueResults
        BY <2>4
      <4>6. WaitsWell(e, s, st[e][s], lq[e].cmds[s], tim) => WaitsWell(e, s, y, q.cmds[s], tim)
        BY <2>4, <2>9, <4>2, <4>3, <4>4, <4>5 DEF WaitsWell
      <4> QED
        BY <2>2, <2>4, <4>2, <4>6 DEF HandedOver, Moved, TypedRow
    <3>3. CASE s \notin assigned
      <4>1. y = st[e][s] /\ s \notin done
        BY <1>4, <2>7, <3>3
      <4>2. q.cmds[s] = o.q.cmds[s]
        BY <1>8, <1>9, <4>1 DEF EmptiedResult
      <4>3. DOMAIN q.cmds[s] = DOMAIN lq[e].cmds[s]
        BY <2>1, <2>8, <2>9, <3>3, <4>2
      <4>4. WaitsWell(e, s, st[e][s], lq[e].cmds[s], tim) => WaitsWell(e, s, y, q.cmds[s], tim)
        BY <4>1, <4>3 DEF WaitsWell
      <4> QED
        BY <2>2, <4>1, <4>4 DEF HandedOver, Moved
    <3> QED
      BY <3>1, <3>2, <3>3
  <2> QED
    BY <2>6, <2>10
<1> HIDE DEF row, rows
<1>12. st'[e] = rows /\ \A x \in Execs \ {e} : st'[x] = st[x]
  BY <1>2, <1>4 DEF TablesInv, ExecsOK
<1>13. lq'[e] = q /\ lq' = [x \in Execs |-> lq'[x]] /\ \A x \in Execs \ {e} : lq'[x] = lq[x]
  BY <1>0, <1>2, <1>4, <1>9 DEF HoldingsOK
<1>14. VersionsStep
  BY <1>11, <1>12 DEF VersionsStep, HandedOver, Moved
<1>15. HoldingsOK'
  <2>1. ASSUME NEW x \in Execs PROVE TypedQueues(lq'[x], messages'[x]) /\ NothingSatisfiable(lq'[x])
    BY <1>0, <1>1, <1>6, <1>10, <1>13 DEF HoldingsOK
  <2>2. ASSUME NEW x \in Execs, NEW s \in StateExecIds PROVE TypedRow(st'[x][s], messages'[x])
    BY <1>0, <1>1, <1>6, <1>11, <1>12 DEF HoldingsOK, HandedOver
  <2> QED
    BY <1>13, <2>1, <2>2 DEF HoldingsOK
<1>16. WaitsOK'
  <2> SUFFICES ASSUME NEW x \in Execs, prc'[x].status = "Running", NEW s \in StateExecIds
               PROVE  WaitsWell(x, s, st'[x][s], lq'[x].cmds[s], tim')
    BY DEF WaitsOK
  <2>1. WaitsWell(x, s, st[x][s], lq[x].cmds[s], tim) /\ tim' = tim
    BY <1>0, <1>1 DEF WaitsOK
  <2>2. CASE x = e
    <3>1. WaitsWell(e, s, rows[s], q.cmds[s], tim)
      BY <1>11, <2>1, <2>2 DEF HandedOver
    <3> QED
      BY <1>12, <1>13, <2>1, <2>2, <3>1
  <2>3. CASE x # e
    BY <1>12, <1>13, <2>1, <2>3
  <2> QED
    BY <2>2, <2>3
<1> QED
  BY <1>0, <1>5, <1>14, <1>15, <1>16, <1>c, <1>m, QueueStep

(* A new execution has new queues; the one it replaces runs no more. *)
LEMMA StartQueue ==
    ASSUME TablesInv, WorkInv, QueueInv, NEW p \in ProcessIds, NEW policy \in StartPolicies,
           NEW start \in StartStates, NEW hasTimeout \in StartTimeouts, StartProcess(p, policy, start, hasTimeout)
    PROVE  QueueInv'
<1> DEFINE old        == latest[p]
           replaces   == policy = "TERMINATE_IF_RUNNING" /\ old # NoExec
           terminates == replaces /\ prc[old].status = "Running"
           first      == IF start = NoState THEN {} ELSE {<<start, 1>>}
           rows       == [s \in StateExecIds |-> IF s \in first THEN NewStateRow(s, s[1]) ELSE NoRow]
           fresh      == NewLocalQueues(StateExecIds, Queues)
<1>0. ExecsOK /\ QueuesOK /\ MessagesOK /\ HoldingsOK /\ CopiesOK /\ TablesInv'
  <2>1. Preserved
    BY StartPreserves
  <2> QED
    BY <2>1 DEF QueueInv, TablesInv, WorkInv, Preserved
<1>1. UNCHANGED <<messages, worker>> /\ MaxSeq > 0
  BY DEF StartProcess
<1>2. PICK e \in Execs :
        /\ prc[e].status = "None"
        /\ prc' = [x \in Execs |-> IF x = e THEN NewPrc(p, start)
                                   ELSE IF replaces /\ x = old THEN TerminatedPrc(prc[x])
                                   ELSE prc[x]]
        /\ st' = [x \in Execs |-> IF x = e THEN rows
                                  ELSE IF replaces /\ x = old THEN AbortRunning(st[x])
                                  ELSE st[x]]
        /\ lq' = [lq EXCEPT ![e] = fresh]
        /\ WriteImmediate({FirstTask(e, s) : s \in first}
                           \cup {VisibilityTask(e, "Running")}
                           \cup (IF terminates THEN {VisibilityTask(old, "Terminated")} ELSE {}), imm)
        /\ WriteTimers(IF hasTimeout THEN {Task("ProcessTimeout", e, NoState, 0)} ELSE {}, tim)
  BY DEF StartProcess
<1>3. first \subseteq StateExecIds
  BY <1>1, ConfigAssumption, FiniteAssumption DEF StateExecIds
<1> DEFINE firsts == {FirstTask(e, s) : s \in first}
           ends   == IF terminates THEN {VisibilityTask(old, "Terminated")} ELSE {}
<1>4. PICK new : new = firsts \cup {VisibilityTask(e, "Running")} \cup ends
  OBVIOUS
<1>5. PICK timers : timers = IF hasTimeout THEN {Task("ProcessTimeout", e, NoState, 0)} ELSE {}
  OBVIOUS
<1>6. WriteImmediate(new, imm) /\ WriteTimers(timers, tim) /\ imm \subseteq imm
  BY <1>2, <1>4, <1>5
<1>7. \A s \in StateExecIds : rows[s] = NewStateRow(s, s[1]) \/ rows[s] = NoRow
  OBVIOUS
<1> HIDE DEF first, rows, old, fresh
<1>8. IsFiniteSet(new)
  <2>1. IsFiniteSet(firsts)
    BY <1>3, FirstTasksFinite
  <2>2. IsFiniteSet(ends) /\ IsFiniteSet({VisibilityTask(e, "Running")})
    BY FS_EmptySet, FS_Singleton
  <2> HIDE DEF firsts, ends
  <2> QED
    BY <1>4, <2>1, <2>2, FS_Union
<1>9. \A t \in new : InfoIn(t, messages')
  <2>1. \A t \in firsts : InfoIn(t, messages')
    BY OtherTasks
  <2>2. \A t \in ends : InfoIn(t, messages')
    BY OtherTasks
  <2> QED
    BY <1>4, <2>1, <2>2, OtherTasks
<1>10. InfosStep /\ MessagesStep
  BY <1>0, <1>1, <1>6, <1>8, <1>9, InfosInserted, NothingPublished
<1>11. IsFiniteSet(timers) /\ \A t \in timers : BackoffOK(t)
  <2>1. IsFiniteSet(timers)
    BY <1>5, FS_EmptySet, FS_Singleton
  <2> QED
    BY <1>5, <2>1 DEF BackoffOK, Task
<1>12. TimersKept
  <2>1. tim \subseteq tim'
    BY <1>0, <1>6, <1>11, TimInserted
  <2> QED
    BY <2>1, TimersStay
<1>13. \A x \in Execs \ {e} :
          \/ st'[x] = AbortRunning(st[x]) /\ prc'[x].status # "Running"
          \/ st'[x] = st[x] /\ prc'[x] = prc[x]
  <2>1. ASSUME NEW x \in Execs PROVE TerminatedPrc(prc[x]).status # "Running"
    BY <1>0 DEF TerminatedPrc, ExecsOK, ExecInv, ExecBase, PrcRow
  <2> QED
    BY <1>2, <2>1
<1>14. ASSUME NEW x \in Execs, NEW s \in StateExecIds
       PROVE  RowStep(prc'[x].status = "Running", st[x][s], st'[x][s])
  <2>0. PICK live : live = (prc'[x].status = "Running")
    OBVIOUS
  <2>1. CASE x = e
    <3>1. st[e][s].status = "None"
      BY <1>0, <1>2 DEF ExecsOK, ExecInv, ExecBase
    <3>2. RowStep(live, st[e][s], NewStateRow(s, s[1])) /\ RowStep(live, st[e][s], NoRow)
      BY <3>1, NewRowStep
    <3>3. st'[e][s] = NewStateRow(s, s[1]) \/ st'[e][s] = NoRow
      BY <1>2, <1>7
    <3> QED
      BY <2>0, <2>1, <3>2, <3>3
  <2>2. CASE x # e /\ st'[x] = AbortRunning(st[x]) /\ prc'[x].status # "Running"
    <3>1. StateTable(st[x])
      BY <1>0 DEF ExecsOK, ExecInv, ExecBase
    <3>2. RowStep(FALSE, st[x][s], AbortRunning(st[x])[s])
      BY <3>1, AbortStep
    <3> QED
      BY <2>2, <3>2
  <2>3. CASE x # e /\ st'[x] = st[x]
    BY <2>3 DEF RowStep
  <2> QED
    BY <1>13, <2>1, <2>2, <2>3
<1>15. RowsStep /\ VersionsStep
  <2>1. RowsStep
    BY <1>14 DEF RowsStep
  <2> QED
    BY <2>1 DEF VersionsStep, RowsStep, RowStep, Moved
<1>16. lq'[e] = fresh /\ lq' = [x \in Execs |-> lq'[x]] /\ \A x \in Execs \ {e} : lq'[x] = lq[x]
  BY <1>0, <1>2 DEF HoldingsOK
<1>17. HoldingsOK'
  <2>1. ASSUME NEW x \in Execs PROVE TypedQueues(lq'[x], messages'[x]) /\ NothingSatisfiable(lq'[x])
    <3>1. CASE x = e
      BY <1>16, <3>1, NewQueuesTyped DEF fresh
    <3>2. CASE x # e
      BY <1>0, <1>1, <1>16, <3>2 DEF HoldingsOK
    <3> QED
      BY <3>1, <3>2
  <2>2. \A x \in Execs : \A s \in StateExecIds : TypedRow(st'[x][s], messages'[x])
    BY <1>10, <1>15, RowsTyped
  <2> QED
    BY <1>16, <2>1, <2>2 DEF HoldingsOK
<1>18. WaitsOK'
  <2> SUFFICES ASSUME NEW x \in Execs, prc'[x].status = "Running", NEW s \in StateExecIds
               PROVE  WaitsWell(x, s, st'[x][s], lq'[x].cmds[s], tim')
    BY DEF WaitsOK
  <2>1. CASE x = e
    <3>1. DOMAIN lq'[x].cmds[s] = {}
      BY <1>16, <2>1, NewQueuesTyped DEF fresh
    <3>2. st'[x][s].status # "WaitUntilWaiting"
      <4>1. st'[x][s] = NewStateRow(s, s[1]) \/ st'[x][s] = NoRow
        BY <1>2, <1>7, <2>1
      <4> QED
        BY <4>1 DEF NewStateRow, NoRow
    <3> QED
      BY <3>1, <3>2 DEF WaitsWell
  <2>2. CASE x # e
    <3>1. prc[x].status = "Running" /\ st'[x] = st[x] /\ lq'[x] = lq[x]
      BY <1>13, <1>16, <2>2
    <3>2. PICK cmds, row : cmds = lq[x].cmds[s] /\ row = st[x][s]
      OBVIOUS
    <3>3. RowStep(TRUE, st[x][s], row) /\ DOMAIN cmds = DOMAIN lq[x].cmds[s]
      BY <3>2 DEF RowStep
    <3>4. WaitsWell(x, s, row, cmds, tim')
      BY <1>12, <3>1, <3>3, WaitStays
    <3> QED
      BY <3>1, <3>2, <3>4
  <2> QED
    BY <2>1, <2>2
<1>19. \A w \in Workers : worker'[w] = worker[w] \/ WorkerAfter(worker'[w])
  BY <1>1
<1> QED
  BY <1>0, <1>10, <1>15, <1>17, <1>18, <1>19, QueueStep

-----------------------------------------------------------------------------
LEMMA InitQueue == Init => QueueInv
<1> SUFFICES ASSUME Init PROVE QueueInv
  OBVIOUS
<1>1. MessagesOK
  BY DEF Init, MessagesOK, InQueues
<1>2. InfosOK
  BY DEF Init, InfosOK, Idle, ImmediatePcs
<1>3. VersionsOK
  BY DEF Init, VersionsOK, Prepared, Idle
<1>4. \A e \in Execs : lq[e] = NewLocalQueues(StateExecIds, Queues)
  BY DEF Init
<1>5. \A e \in Execs : TypedQueues(lq[e], messages[e]) /\ NothingSatisfiable(lq[e])
  BY <1>4, NewQueuesTyped
<1>6. \A M : TypedRow(NoRow, M)
  BY NothingGot, FS_EmptySet DEF TypedRow, NoRow
<1>7. HoldingsOK
  <2>1. lq = [e \in Execs |-> lq[e]]
    BY DEF Init
  <2>2. \A e \in Execs : \A s \in StateExecIds : st[e][s] = NoRow
    BY DEF Init
  <2> QED
    BY <1>5, <1>6, <2>1, <2>2 DEF HoldingsOK
<1>8. WaitsOK
  BY DEF Init, WaitsOK, NoPrc
<1> QED
  BY <1>1, <1>2, <1>3, <1>7, <1>8 DEF QueueInv

LEMMA NextQueue == TablesInv /\ WorkInv /\ QueueInv /\ [Next]_vars => QueueInv'
<1> SUFFICES ASSUME TablesInv, WorkInv, QueueInv, [Next]_vars PROVE QueueInv'
  OBVIOUS
<1>0. TablesInv'
  BY NextPreserves
<1>1. ASSUME NEW p \in ProcessIds, NEW policy \in StartPolicies, NEW start \in StartStates,
             NEW hasTimeout \in StartTimeouts, StartProcess(p, policy, start, hasTimeout)
      PROVE  QueueInv'
  BY <1>1, StartQueue
<1>2. ASSUME NEW c \in Clients, ClientStep(c)
      PROVE  QueueInv'
  BY <1>0, <1>2, ClientQueue, RpcQueue DEF ClientStep
<1>3. ASSUME NEW w \in Workers, ImmediateStep(w)
      PROVE  QueueInv'
  BY <1>0, <1>3, QuietWorkersQueue, CompleteWaitUntilQueue, UpdateWaitUntilQueue,
     CompleteExecuteQueue, LocalQueueQueue DEF ImmediateStep
<1>4. ASSUME NEW w \in Workers, FailureStep(w)
      PROVE  QueueInv'
  BY <1>0, <1>4, QuietWorkersQueue, BackoffQueue, WorkerStopsQueue, RecoverQueue DEF FailureStep
<1>5. ASSUME NEW w \in Workers, TimerStep(w)
      PROVE  QueueInv'
  BY <1>0, <1>5, QuietWorkersQueue, TimerConversionsQueue, TimerCommandQueue, WorkerStopsQueue DEF TimerStep
<1>6. CASE UNCHANGED vars
  <2>1. UNCHANGED <<prc, lq, st, messages, imm, tim, worker>> /\ MessagesOK
    BY <1>6 DEF vars, QueueInv
  <2>2. MessagesStep /\ InfosStep /\ TimersKept
    BY <2>1, NothingPublished, InfosDeleted, TimersStay
  <2>3. \A w \in Workers : worker'[w] = worker[w] \/ WorkerAfter(worker'[w])
    BY <2>1
  <2> QED
    BY <1>0, <2>1, <2>2, <2>3, UntouchedRows
<1> QED
  BY <1>1, <1>2, <1>3, <1>4, <1>5, <1>6 DEF Next

(* The local queues, the rows they answer and the tasks that carry         *)
(* messages agree in every reachable state.                                *)
THEOREM QueueInvariant == Spec => [](TablesInv /\ WorkInv /\ QueueInv)
<1>1. TablesInv /\ WorkInv /\ QueueInv /\ [Next]_vars => (TablesInv /\ WorkInv /\ QueueInv)'
  BY NextPreserves, NextWork, NextQueue
<1>2. Init => TablesInv /\ WorkInv /\ QueueInv
  BY InitEstablishes, InitWork, InitQueue
<1> QED
  BY <1>1, <1>2, PTL DEF Spec

(* A command registered with the local queues of a running process belongs *)
(* to a state execution in WaitUntilWaiting: whatever transaction takes a  *)
(* state execution out of it cleans its commands up.                       *)
THEOREM CommandsHaveOwners == Spec => []CommandsBelongToWaiting
<1>1. QueueInv => CommandsBelongToWaiting
  <2> SUFFICES ASSUME QueueInv, NEW e \in Execs, prc[e].status = "Running", NEW s \in StateExecIds,
                      lq[e].cmds[s] # NoCommands
               PROVE  st[e][s].status = "WaitUntilWaiting"
    BY DEF CommandsBelongToWaiting
  <2>1. PICK c : c = lq[e].cmds[s]
    OBVIOUS
  <2>2. c = [i \in DOMAIN c |-> c[i]]
    BY <2>1 DEF QueueInv, HoldingsOK, TypedQueues, TypedCommands
  <2>3. DOMAIN c # {}
    BY <2>1, <2>2, EmptyFunction DEF NoCommands
  <2> QED
    BY <2>1, <2>3 DEF QueueInv, WaitsOK, WaitsWell
<1> QED
  BY <1>1, QueueInvariant, PTL

(* No lost wakeup: in whatever order messages arrive, commands are         *)
(* registered and workers crash or repeat a transaction, a command is      *)
(* never left waiting while its queue holds what it asks for.              *)
THEOREM NoLostWakeup == Spec => []NoSatisfiableCommandWaits
<1>1. QueueInv => NoSatisfiableCommandWaits
  BY DEF QueueInv, HoldingsOK, NoSatisfiableCommandWaits
<1> QED
  BY <1>1, QueueInvariant, PTL

(* A state execution that waits in a running process waits for something   *)
(* that can arrive: each queue command has its result or is registered,    *)
(* each timer command has fired or has its row in the timer table.         *)
THEOREM WaitingCanEnd == Spec => []NothingAwaitedIsLost
<1>1. QueueInv => NothingAwaitedIsLost
  BY DEF QueueInv, WaitsOK, WaitsWell, TimerOf, NothingAwaitedIsLost
<1> QED
  BY <1>1, QueueInvariant, PTL
=============================================================================
