---------------------- MODULE ImmediateTaskQueueProofs ----------------------
(***************************************************************************)
(* Theorems about ImmediateTaskQueue, for any number of workers, tasks and *)
(* generations and any sizes of the channels and pages.                    *)
(*                                                                         *)
(* The inductive invariant PipelineInv says, next to the types:            *)
(*   - LifeInv: a queue that is not alive has no state, nobody will answer *)
(*     to it, and with no queue alive nothing is on its way;               *)
(*   - PageInv: the pages of a queue are disjoint ranges below its cursor, *)
(*     and each task of the queue lies in the page it is counted in;       *)
(*   - CountInv: PageAccounting, and the counts are positive;              *)
(*   - HandledInv: only processed tasks are sent back to their queue;      *)
(*   - FlightInv: PendingIsInFlight;                                       *)
(*   - DoneInv, CursorInv: what a page or a cursor has passed is handled,  *)
(*     on its way, or became visible after the cursor had passed it.       *)
(***************************************************************************)
EXTENDS ImmediateTaskQueue, SequenceTheorems, FiniteMinMax

-----------------------------------------------------------------------------
(* The types. *)

Counts == Nat
Maps(S, T) == UNION {[D -> T] : D \in SUBSET S}

QueueStates == [cursor : Nat, unsent : SUBSET Tasks, pending : Maps(Tasks, Pages), count : Maps(Pages, Counts),
                completed : SUBSET Pages, armed : BOOLEAN, signal : BOOLEAN, alive : BOOLEAN]

WorkerStates == [pc : {"idle", "processing", "succeeded", "failed", "requeue", "commit"},
                 task : 0..MaxTasks, gen : 0..MaxGenerations]

Typing ==
    /\ nextSeq \in 0..MaxTasks
    /\ reserved \subseteq 1..nextSeq /\ rows \subseteq 1..nextSeq /\ handled \subseteq 1..nextSeq
    /\ generation \in 0..MaxGenerations /\ registered \in {0, generation}
    /\ queue \in [Generations -> QueueStates]
    /\ toProcess \in Seq(1..nextSeq) /\ Len(toProcess) <= BufferSize
    /\ toCommit \in [Generations -> Seq(Tasks)]
    /\ worker \in [Workers -> WorkerStates]
    /\ late \in [Generations -> SUBSET (1..nextSeq)]

(* Who has what to do with which queue. *)
LifeInv ==
    /\ registered # 0 => queue[registered].alive
    /\ \A g \in Generations :
          /\ queue[g].alive => g <= generation
          /\ ~queue[g].alive => queue[g] = NewQueue /\ toCommit[g] = <<>>
          /\ Len(toCommit[g]) <= BufferSize
    /\ \A w \in Workers :
          /\ worker[w].pc = "idle" <=> worker[w] = IdleWorker
          /\ worker[w].pc # "idle" => worker[w].task \in 1..nextSeq
          /\ worker[w].pc \in {"requeue", "commit"} =>
                worker[w].gen \in Generations /\ queue[worker[w].gen].alive
    /\ (\A g \in Generations : ~queue[g].alive) =>
          toProcess = <<>> /\ \A w \in Workers : worker[w] = IdleWorker

(* The pages of a queue. *)
In(n, p) == p.min <= n /\ n <= p.max
AllPages(q) == DOMAIN q.count \cup q.completed

PagesOf(q) ==
    /\ \A p \in AllPages(q) : p.min <= p.max /\ p.max < q.cursor
    /\ \A p, r \in AllPages(q) : p = r \/ p.max < r.min \/ r.max < p.min
    /\ DOMAIN q.count \cap q.completed = {}
    /\ \A n \in q.unsent : \E p \in DOMAIN q.count : In(n, p)
    /\ \A n \in DOMAIN q.pending : q.pending[n] \in DOMAIN q.count /\ In(n, q.pending[n])
    /\ q.unsent \cap DOMAIN q.pending = {}

PageInv == \A g \in Generations : PagesOf(queue[g]) /\ queue[g].cursor <= nextSeq + 1

PendingOf(q, p) == {n \in DOMAIN q.pending : q.pending[n] = p}
UnsentOf(q, p) == {n \in q.unsent : In(n, p)}
CountsOf(q) ==
    \A p \in DOMAIN q.count :
        q.count[p] # 0 /\ q.count[p] = Cardinality(PendingOf(q, p)) + Cardinality(UnsentOf(q, p))

CountInv == \A g \in Generations : CountsOf(queue[g])

HandledInv ==
    /\ \A w \in Workers : worker[w].pc \in {"succeeded", "commit"} => worker[w].task \in handled
    /\ \A g \in Generations : Range(toCommit[g]) \subseteq handled

(* The workers that hold a task; how often it is somewhere between Dispatch *)
(* and ReceiveCompletedTask.                                                *)
Holders(n, f) == {w \in Workers : f[w].task = n}
Balance(n, s, f, c, pending) ==
    Copies(n, s) + Cardinality(Holders(n, f)) + Copies(n, c) = IF n \in DOMAIN pending THEN 1 ELSE 0

FlightInv ==
    \A g \in Generations : Undisturbed(g) => \A n \in Tasks :
        Balance(n, toProcess, worker, toCommit[g], queue[g].pending)

(* What a page has passed is handled, to be sent or to be received back, *)
(* or came late.                                                         *)
DoneOf(q, after) ==
    \A p \in AllPages(q) : \A n \in rows :
        In(n, p) => n \in handled \cup after \cup q.unsent \cup DOMAIN q.pending

DoneInv == \A g \in Generations : DoneOf(queue[g], late[g])

(* On its way to a worker, or with one. *)
Flying(n) == n \in Range(toProcess) \/ \E w \in Workers : worker[w].task = n

CursorInv ==
    registered # 0 =>
        \A n \in rows \ (handled \cup late[registered]) :
            n < queue[registered].cursor => n \in queue[registered].unsent \/ Flying(n)

PipelineInv ==
    Typing /\ LifeInv /\ PageInv /\ CountInv /\ HandledInv /\ FlightInv /\ DoneInv /\ CursorInv

-----------------------------------------------------------------------------
(***************************************************************************)
(* Facts about the operators of the model.                                 *)
(***************************************************************************)
One(a, b) == IF a = b THEN 1 ELSE 0

LEMMA OneFacts ==
    ASSUME NEW a, NEW b
    PROVE  One(a, b) \in Nat /\ (a = b => One(a, b) = 1) /\ (a # b => One(a, b) = 0)
BY DEF One

LEMMA EmptyMap == ASSUME NEW S, NEW T PROVE <<>> \in Maps(S, T) /\ DOMAIN <<>> = {}
<1>1. <<>> = [x \in {} |-> x]
  OBVIOUS
<1>2. [x \in {} |-> x] \in [{} -> T]
  OBVIOUS
<1>3. {} \in SUBSET S
  OBVIOUS
<1> QED
  BY <1>1, <1>2, <1>3 DEF Maps

LEMMA SetMap ==
    ASSUME NEW S, NEW T, NEW f \in Maps(S, T), NEW x \in S, NEW v \in T
    PROVE  Set(f, x, v) \in Maps(S, T)
<1>1. PICK D \in SUBSET S : f \in [D -> T]
  BY DEF Maps
<1>2. Set(f, x, v) \in [D \cup {x} -> T]
  BY <1>1 DEF Set
<1>3. D \cup {x} \in SUBSET S
  OBVIOUS
<1> QED
  BY <1>2, <1>3 DEF Maps

LEMMA DropMap ==
    ASSUME NEW S, NEW T, NEW f \in Maps(S, T), NEW x
    PROVE  Drop(f, x) \in Maps(S, T)
<1>1. PICK D \in SUBSET S : f \in [D -> T]
  BY DEF Maps
<1>2. Drop(f, x) \in [D \ {x} -> T]
  BY <1>1 DEF Drop
<1>3. D \ {x} \in SUBSET S
  OBVIOUS
<1> QED
  BY <1>2, <1>3 DEF Maps

LEMMA MapFacts ==
    ASSUME NEW S, NEW T, NEW f \in Maps(S, T)
    PROVE  DOMAIN f \subseteq S /\ f \in [DOMAIN f -> T] /\ \A x \in DOMAIN f : f[x] \in T
BY DEF Maps

LEMMA TasksFinite ==
    ASSUME NEW S \in SUBSET Tasks
    PROVE  IsFiniteSet(S) /\ Cardinality(S) \in Nat /\ S \in SUBSET Nat
<1>1. IsFiniteSet(Tasks) /\ Tasks \subseteq Nat
  BY SizeAssumption, FS_Interval DEF Tasks
<1>2. IsFiniteSet(S)
  BY <1>1, FS_Subset
<1> QED
  BY <1>1, <1>2, FS_CardinalityType

LEMMA PageFields ==
    ASSUME NEW p \in Pages
    PROVE  p.min \in Nat \ {0} /\ p.max \in Nat \ {0} /\ p.min \in Tasks /\ p.max \in Tasks
BY SizeAssumption DEF Pages, Tasks

(* Elements of a channel, and how often a task is in it. *)
Places(n, s) == {i \in DOMAIN s : s[i] = n}

LEMMA PlacesFinite ==
    ASSUME NEW S, NEW s \in Seq(S), NEW n
    PROVE  /\ IsFiniteSet(Places(n, s)) /\ Copies(n, s) \in Nat /\ Copies(n, s) = Cardinality(Places(n, s))
           /\ Copies(n, s) > 0 <=> n \in Range(s)
<1>1. DOMAIN s = 1..Len(s) /\ Len(s) \in Nat
  BY LenProperties
<1>2. IsFiniteSet(DOMAIN s)
  BY <1>1, FS_Interval
<1>3. IsFiniteSet(Places(n, s))
  BY <1>2, FS_Subset DEF Places
<1>4. Copies(n, s) = Cardinality(Places(n, s))
  BY DEF Copies, Places
<1>5. Copies(n, s) \in Nat
  BY <1>3, <1>4, FS_CardinalityType
<1>6. Copies(n, s) = 0 <=> Places(n, s) = {}
  BY <1>3, <1>4, FS_EmptySet
<1>7. n \in Range(s) <=> Places(n, s) # {}
  BY DEF Range, Places
<1> QED
  BY <1>3, <1>4, <1>5, <1>6, <1>7

LEMMA SeqOfElements ==
    ASSUME NEW S, NEW T, NEW s \in Seq(S), Range(s) \subseteq T
    PROVE  s \in Seq(T)
<1>1. Len(s) \in Nat /\ DOMAIN s = 1..Len(s) /\ s \in [1..Len(s) -> S]
  BY LenProperties
<1>2. \A i \in 1..Len(s) : s[i] \in T
  BY <1>1 DEF Range
<1>3. s \in [1..Len(s) -> T]
  BY <1>1, <1>2
<1>4. PICK n \in Nat : n = Len(s)
  BY <1>1
<1>5. s \in [1..n -> T]
  BY <1>3, <1>4
<1>6. s \in UNION {[1..k -> T] : k \in Nat}
  BY <1>5
<1> QED
  BY <1>6, SeqDef, Zenon

LEMMA AppendElements ==
    ASSUME NEW S, NEW s \in Seq(S), NEW m \in S
    PROVE  Append(s, m) \in Seq(S) /\ Len(Append(s, m)) = Len(s) + 1 /\ Range(Append(s, m)) = Range(s) \cup {m}
<1>1. /\ Append(s, m) \in Seq(S) /\ Len(Append(s, m)) = Len(s) + 1
      /\ \A i \in 1..Len(s) : Append(s, m)[i] = s[i]
      /\ Append(s, m)[Len(s) + 1] = m
      /\ Len(s) \in Nat
  OBVIOUS
<1>2. DOMAIN Append(s, m) = 1..(Len(s) + 1) /\ DOMAIN s = 1..Len(s)
  BY <1>1, LenProperties
<1>3. 1..(Len(s) + 1) = (1..Len(s)) \cup {Len(s) + 1}
  BY <1>1
<1> QED
  BY <1>1, <1>2, <1>3 DEF Range

LEMMA AppendCopies ==
    ASSUME NEW S, NEW s \in Seq(S), NEW m \in S, NEW n
    PROVE  Copies(n, Append(s, m)) = Copies(n, s) + One(m, n)
<1>1. /\ Append(s, m) \in Seq(S) /\ Len(Append(s, m)) = Len(s) + 1
      /\ \A i \in 1..Len(s) : Append(s, m)[i] = s[i]
      /\ Append(s, m)[Len(s) + 1] = m
      /\ Len(s) \in Nat
  OBVIOUS
<1>2. DOMAIN Append(s, m) = 1..(Len(s) + 1) /\ DOMAIN s = 1..Len(s)
  BY <1>1, LenProperties
<1>3. IsFiniteSet(Places(n, s)) /\ Copies(n, s) = Cardinality(Places(n, s)) /\ Copies(n, s) \in Nat
  BY PlacesFinite
<1>4. Copies(n, Append(s, m)) = Cardinality(Places(n, Append(s, m)))
  BY <1>1, PlacesFinite
<1>5. CASE m = n
  <2>1. Places(n, Append(s, m)) = Places(n, s) \cup {Len(s) + 1}
    BY <1>1, <1>2, <1>5 DEF Places
  <2>2. Len(s) + 1 \notin Places(n, s)
    BY <1>1, <1>2 DEF Places
  <2>3. Cardinality(Places(n, s) \cup {Len(s) + 1}) = Cardinality(Places(n, s)) + 1
    BY <1>3, <2>2, FS_AddElement
  <2>4. One(m, n) = 1
    BY <1>5, OneFacts
  <2> QED
    BY <2>1, <2>3, <2>4, <1>3, <1>4
<1>6. CASE m # n
  <2>1. Places(n, Append(s, m)) = Places(n, s)
    BY <1>1, <1>2, <1>6 DEF Places
  <2> QED
    BY <2>1, <1>3, <1>4, <1>6, OneFacts
<1> QED
  BY <1>5, <1>6

LEMMA TailElements ==
    ASSUME NEW S, NEW s \in Seq(S), s # <<>>
    PROVE  /\ Head(s) \in S /\ Tail(s) \in Seq(S) /\ Len(Tail(s)) <= Len(s)
           /\ Range(s) = Range(Tail(s)) \cup {Head(s)}
<1>1. /\ Head(s) \in S /\ Tail(s) \in Seq(S) /\ Len(Tail(s)) = Len(s) - 1
      /\ \A i \in 1..Len(Tail(s)) : Tail(s)[i] = s[i + 1]
      /\ Len(s) \in Nat \ {0} /\ s[1] = Head(s)
  BY HeadTailProperties, EmptySeq
<1>2. DOMAIN Tail(s) = 1..(Len(s) - 1) /\ DOMAIN s = 1..Len(s)
  BY <1>1, LenProperties
<1>3. Range(s) \subseteq Range(Tail(s)) \cup {Head(s)}
  <2> SUFFICES ASSUME NEW i \in 1..Len(s) PROVE s[i] \in Range(Tail(s)) \cup {Head(s)}
    BY <1>2 DEF Range
  <2>1. CASE i = 1
    BY <1>1, <2>1
  <2>2. CASE i # 1
    <3>1. i - 1 \in 1..(Len(s) - 1) /\ (i - 1) + 1 = i
      BY <1>1, <2>2
    <3>2. Tail(s)[i - 1] = s[i]
      BY <1>1, <3>1
    <3> QED
      BY <3>1, <3>2, <1>2 DEF Range
  <2> QED
    BY <2>1, <2>2
<1>4. Range(Tail(s)) \cup {Head(s)} \subseteq Range(s)
  <2>1. Head(s) \in Range(s)
    BY <1>1, <1>2 DEF Range
  <2>2. ASSUME NEW i \in 1..(Len(s) - 1) PROVE Tail(s)[i] \in Range(s)
    BY <1>1, <1>2 DEF Range
  <2> QED
    BY <2>1, <2>2, <1>2 DEF Range
<1> QED
  BY <1>1, <1>3, <1>4

LEMMA TailCopies ==
    ASSUME NEW S, NEW s \in Seq(S), s # <<>>, NEW n
    PROVE  Copies(n, s) = Copies(n, Tail(s)) + One(Head(s), n)
<1>1. /\ Head(s) \in S /\ Tail(s) \in Seq(S) /\ Len(Tail(s)) = Len(s) - 1
      /\ \A i \in 1..Len(Tail(s)) : Tail(s)[i] = s[i + 1]
      /\ Len(s) \in Nat \ {0} /\ s[1] = Head(s)
  BY HeadTailProperties, EmptySeq
<1>2. DOMAIN Tail(s) = 1..(Len(s) - 1) /\ DOMAIN s = 1..Len(s)
  BY <1>1, LenProperties
<1>3. /\ IsFiniteSet(Places(n, s)) /\ Copies(n, s) = Cardinality(Places(n, s))
      /\ IsFiniteSet(Places(n, Tail(s))) /\ Copies(n, Tail(s)) = Cardinality(Places(n, Tail(s)))
      /\ Copies(n, Tail(s)) \in Nat
  BY <1>1, PlacesFinite
<1> DEFINE Rest == Places(n, s) \ {1}
           f == [i \in Places(n, Tail(s)) |-> i + 1]
<1>4. f \in Bijection(Places(n, Tail(s)), Rest)
  <2>1. \A i \in Places(n, Tail(s)) : i \in Nat /\ i + 1 \in Rest
    BY <1>1, <1>2 DEF Places
  <2>2. f \in Injection(Places(n, Tail(s)), Rest)
    BY <2>1 DEF Injection, IsInjective
  <2>3. ASSUME NEW j \in Rest PROVE \E i \in Places(n, Tail(s)) : f[i] = j
    <3>1. j - 1 \in 1..(Len(s) - 1) /\ (j - 1) + 1 = j /\ s[j] = n
      BY <1>1, <1>2 DEF Places
    <3>2. j - 1 \in Places(n, Tail(s))
      BY <3>1, <1>1, <1>2 DEF Places
    <3> QED
      BY <3>1, <3>2
  <2>4. f \in Surjection(Places(n, Tail(s)), Rest)
    BY <2>1, <2>3 DEF Surjection
  <2> QED
    BY <2>2, <2>4 DEF Bijection
<1> HIDE DEF Rest, f
<1>5. Cardinality(Rest) = Copies(n, Tail(s)) /\ IsFiniteSet(Rest)
  BY <1>3, <1>4, FS_Bijection DEF ExistsBijection
<1>6. CASE Head(s) = n
  <2>1. Places(n, s) = Rest \cup {1} /\ 1 \notin Rest
    BY <1>1, <1>2, <1>6 DEF Places, Rest
  <2>2. Cardinality(Places(n, s)) = Cardinality(Rest) + 1
    BY <2>1, <1>5, FS_AddElement
  <2> QED
    BY <2>2, <1>3, <1>5, <1>6, OneFacts
<1>7. CASE Head(s) # n
  <2>1. Places(n, s) = Rest
    BY <1>1, <1>2, <1>7 DEF Places, Rest
  <2> QED
    BY <2>1, <1>3, <1>5, <1>7, OneFacts
<1> QED
  BY <1>6, <1>7

LEMMA EmptyCopies == ASSUME NEW n PROVE Copies(n, <<>>) = 0 /\ Range(<<>>) = {}
<1>1. Places(n, <<>>) = {} /\ Range(<<>>) = {}
  BY DEF Places, Range
<1> QED
  BY <1>1, FS_EmptySet DEF Copies, Places

LEMMA HoldersFinite ==
    ASSUME NEW n, NEW f
    PROVE  IsFiniteSet(Holders(n, f)) /\ Cardinality(Holders(n, f)) \in Nat
           /\ (Cardinality(Holders(n, f)) > 0 <=> \E w \in Workers : f[w].task = n)
<1>1. IsFiniteSet(Holders(n, f))
  BY SizeAssumption, FS_Subset DEF Holders
<1>2. Cardinality(Holders(n, f)) \in Nat /\ (Cardinality(Holders(n, f)) = 0 <=> Holders(n, f) = {})
  BY <1>1, FS_CardinalityType, FS_EmptySet
<1>3. Holders(n, f) # {} <=> \E w \in Workers : f[w].task = n
  BY DEF Holders
<1> QED
  BY <1>1, <1>2, <1>3

LEMMA HoldersChange ==
    ASSUME NEW f \in [Workers -> WorkerStates], NEW w \in Workers, NEW x \in WorkerStates, NEW n,
           NEW h, h[w] = x, \A v \in Workers \ {w} : h[v] = f[v]
    PROVE  Cardinality(Holders(n, h)) + One(f[w].task, n)
               = Cardinality(Holders(n, f)) + One(x.task, n)
<1> DEFINE A == Holders(n, f) \ {w}
<1>1. IsFiniteSet(A) /\ Cardinality(A) \in Nat
  BY HoldersFinite, FS_RemoveElement, FS_CardinalityType
<1>2. w \notin A
  OBVIOUS
<1>3. Holders(n, f) = IF f[w].task = n THEN A \cup {w} ELSE A
  BY DEF Holders
<1>4. Holders(n, h) = IF x.task = n THEN A \cup {w} ELSE A
  BY DEF Holders
<1> HIDE DEF A
<1>5. Cardinality(A \cup {w}) = Cardinality(A) + 1
  BY <1>1, <1>2, FS_AddElement
<1>6. Cardinality(Holders(n, f)) = Cardinality(A) + One(f[w].task, n)
  BY <1>1, <1>3, <1>5, OneFacts
<1>7. Cardinality(Holders(n, h)) = Cardinality(A) + One(x.task, n)
  BY <1>1, <1>4, <1>5, OneFacts
<1> QED
  BY <1>1, <1>6, <1>7, OneFacts

-----------------------------------------------------------------------------
(***************************************************************************)
(* The pages of a queue when it polls, sends a task and gets one back.     *)
(***************************************************************************)
LEMMA QueueFields ==
    ASSUME NEW q \in QueueStates
    PROVE  /\ q.cursor \in Nat /\ q.unsent \in SUBSET Tasks
           /\ q.pending \in Maps(Tasks, Pages) /\ q.count \in Maps(Pages, Counts)
           /\ DOMAIN q.pending \in SUBSET Tasks /\ DOMAIN q.count \in SUBSET Pages
           /\ \A n \in DOMAIN q.pending : q.pending[n] \in Pages
           /\ \A p \in DOMAIN q.count : q.count[p] \in Nat
           /\ q.completed \in SUBSET Pages /\ AllPages(q) \in SUBSET Pages
           /\ q.armed \in BOOLEAN /\ q.signal \in BOOLEAN /\ q.alive \in BOOLEAN
<1>1. /\ q.cursor \in Nat /\ q.unsent \in SUBSET Tasks
      /\ q.pending \in Maps(Tasks, Pages) /\ q.count \in Maps(Pages, Counts)
      /\ q.completed \in SUBSET Pages
      /\ q.armed \in BOOLEAN /\ q.signal \in BOOLEAN /\ q.alive \in BOOLEAN
  BY DEF QueueStates
<1> QED
  BY <1>1, MapFacts DEF AllPages, Counts

LEMMA NewQueueFacts ==
    /\ NewQueue \in QueueStates /\ PagesOf(NewQueue) /\ CountsOf(NewQueue)
    /\ NewQueue.unsent = {} /\ DOMAIN NewQueue.pending = {} /\ AllPages(NewQueue) = {} /\ NewQueue.cursor = 0
    /\ ~NewQueue.alive /\ ~NewQueue.armed /\ ~NewQueue.signal
<1>1. /\ <<>> \in Maps(Tasks, Pages) /\ <<>> \in Maps(Pages, Counts) /\ DOMAIN <<>> = {}
  BY EmptyMap
<1>2. NewQueue \in QueueStates
  BY <1>1 DEF NewQueue, QueueStates
<1>3. /\ NewQueue.pending = <<>> /\ NewQueue.count = <<>> /\ NewQueue.unsent = {} /\ NewQueue.completed = {}
      /\ NewQueue.cursor = 0 /\ ~NewQueue.alive /\ ~NewQueue.armed /\ ~NewQueue.signal
  BY DEF NewQueue
<1>4. AllPages(NewQueue) = {} /\ DOMAIN NewQueue.count = {} /\ DOMAIN NewQueue.pending = {}
  BY <1>1, <1>3 DEF AllPages
<1> QED
  BY <1>2, <1>3, <1>4 DEF PagesOf, CountsOf

(* The timer and its signal do not matter to the pages. *)
SamePages(q, x) ==
    /\ x.cursor = q.cursor /\ x.unsent = q.unsent /\ x.pending = q.pending
    /\ x.count = q.count /\ x.completed = q.completed

LEMMA SamePagesFacts ==
    ASSUME NEW q, NEW x, SamePages(q, x), PagesOf(q), CountsOf(q)
    PROVE  PagesOf(x) /\ CountsOf(x)
<1>1. AllPages(x) = AllPages(q)
  BY DEF SamePages, AllPages
<1>2. PagesOf(x)
  BY <1>1 DEF SamePages, PagesOf
<1>3. \A p : PendingOf(x, p) = PendingOf(q, p) /\ UnsentOf(x, p) = UnsentOf(q, p)
  BY DEF SamePages, PendingOf, UnsentOf
<1>4. CountsOf(x)
  BY <1>3 DEF SamePages, CountsOf
<1> QED
  BY <1>2, <1>4

PageOver(found) == [min |-> Min(found), max |-> Max(found)]
Polled(q, found) ==
    [q EXCEPT !.signal = FALSE, !.cursor = PageOver(found).max + 1, !.unsent = found,
              !.count = Set(q.count, PageOver(found), Cardinality(found))]

LEMMA PollPages ==
    ASSUME NEW q \in QueueStates, PagesOf(q), CountsOf(q), q.unsent = {},
           NEW found \in SUBSET Tasks, found # {}, \A n \in found : q.cursor <= n
    PROVE  /\ Polled(q, found) \in QueueStates /\ PagesOf(Polled(q, found)) /\ CountsOf(Polled(q, found))
           /\ PageOver(found).min \in found /\ PageOver(found).max \in found
           /\ \A n \in found : n <= PageOver(found).max
           /\ AllPages(Polled(q, found)) = AllPages(q) \cup {PageOver(found)}
<1>a. PICK page : page = PageOver(found)
  OBVIOUS
<1>b. PICK x : x = Polled(q, found)
  OBVIOUS
<1>1. found \in SUBSET Nat /\ IsFiniteSet(found) /\ Cardinality(found) \in Nat /\ Cardinality(found) # 0
  BY TasksFinite, FS_EmptySet
<1>2. Min(found) \in found /\ \A n \in found : Min(found) <= n
  BY <1>1, MinOfNats
<1>3. Max(found) \in found /\ \A n \in found : n <= Max(found)
  <2>1. \A n \in found : n <= MaxTasks
    BY SizeAssumption DEF Tasks
  <2> QED
    BY <2>1, <1>1, SizeAssumption, MaxOfNats
<1>4. page \in Pages /\ page.min = Min(found) /\ page.max = Max(found)
  BY <1>a, <1>2, <1>3 DEF Pages, PageOver
<1>5. page.min <= page.max /\ q.cursor <= page.min /\ page.max \in Nat /\ page.min \in Nat /\ q.cursor \in Nat
  BY <1>1, <1>2, <1>3, <1>4, QueueFields
<1>6. \A p \in AllPages(q) : p.min \in Nat /\ p.max \in Nat /\ p.min <= p.max /\ p.max < page.min /\ p # page
  BY <1>5, QueueFields, PageFields DEF PagesOf
<1>7. PICK c : /\ c = Set(q.count, page, Cardinality(found))
               /\ c \in Maps(Pages, Counts)
               /\ DOMAIN c = DOMAIN q.count \cup {page}
               /\ c[page] = Cardinality(found)
               /\ \A p \in DOMAIN q.count \ {page} : c[p] = q.count[p]
  <2>1. PICK f \in Maps(Pages, Counts) : f = q.count /\ f \in [DOMAIN f -> Counts]
    BY QueueFields, MapFacts
  <2>2. PICK k \in Counts : k = Cardinality(found)
    BY <1>1 DEF Counts
  <2>3. PICK r \in Pages : r = page
    BY <1>4
  <2>4. PICK c : c = Set(f, r, k)
    OBVIOUS
  <2>5. c \in Maps(Pages, Counts)
    BY <2>4, SetMap
  <2>6. /\ DOMAIN c = DOMAIN f \cup {r}
        /\ c[r] = k
        /\ \A y \in DOMAIN f \ {r} : c[y] = f[y]
    BY <2>1, <2>4 DEF Set
  <2> QED
    BY <2>1, <2>2, <2>3, <2>4, <2>5, <2>6
<1>8. page.max + 1 \in Nat
  BY <1>5
<1>9. x = [q EXCEPT !.signal = FALSE, !.cursor = page.max + 1, !.unsent = found, !.count = c]
  BY <1>a, <1>b, <1>7 DEF Polled
<1>10. x \in QueueStates
  <2>1. c \in Maps(Pages, Counts)
    BY <1>7
  <2> QED
    BY <2>1, <1>8, <1>9 DEF QueueStates
<1>11. /\ x.cursor = page.max + 1 /\ x.unsent = found /\ x.pending = q.pending /\ x.count = c
       /\ x.completed = q.completed
  BY <1>9 DEF QueueStates
<1>12. AllPages(x) = AllPages(q) \cup {page}
  BY <1>7, <1>11 DEF AllPages
<1>13. PagesOf(x)
  <2>1. \A p \in AllPages(x) : p.min <= p.max /\ p.max < x.cursor
    BY <1>5, <1>6, <1>11, <1>12
  <2>2. \A p, r \in AllPages(x) : p = r \/ p.max < r.min \/ r.max < p.min
    BY <1>6, <1>12 DEF PagesOf
  <2>3. DOMAIN x.count \cap x.completed = {}
    BY <1>6, <1>7, <1>11 DEF PagesOf, AllPages
  <2>4. \A n \in x.unsent : \E p \in DOMAIN x.count : In(n, p)
    BY <1>2, <1>3, <1>4, <1>7, <1>11 DEF In
  <2>5. \A n \in DOMAIN x.pending : x.pending[n] \in DOMAIN x.count /\ In(n, x.pending[n])
    BY <1>7, <1>11 DEF PagesOf
  <2>6. \A n \in DOMAIN q.pending : n < page.min
    <3> SUFFICES ASSUME NEW n \in DOMAIN q.pending PROVE n < page.min
      OBVIOUS
    <3>1. q.pending[n] \in AllPages(q) /\ In(n, q.pending[n])
      BY DEF PagesOf, AllPages
    <3>2. n \in Nat
      BY QueueFields, TasksFinite
    <3> QED
      BY <3>1, <3>2, <1>5, <1>6 DEF In
  <2>7. x.unsent \cap DOMAIN x.pending = {}
    <3> SUFFICES ASSUME NEW n \in found, n \in DOMAIN q.pending PROVE FALSE
      BY <1>11
    <3>1. n < page.min /\ page.min <= n
      BY <2>6, <1>2, <1>4
    <3> QED
      BY <3>1, <1>1, <1>5
  <2> QED
    BY <2>1, <2>2, <2>3, <2>4, <2>5, <2>7 DEF PagesOf
<1>14. CountsOf(x)
  <2> SUFFICES ASSUME NEW p \in DOMAIN x.count
               PROVE  x.count[p] # 0 /\ x.count[p] = Cardinality(PendingOf(x, p)) + Cardinality(UnsentOf(x, p))
    BY DEF CountsOf
  <2>1. CASE p = page
    <3>1. PendingOf(x, p) = {}
      BY <2>1, <1>6, <1>11 DEF PendingOf, PagesOf, AllPages
    <3>2. UnsentOf(x, p) = found
      BY <2>1, <1>2, <1>3, <1>4, <1>11 DEF UnsentOf, In
    <3>3. x.count[p] = Cardinality(found)
      BY <2>1, <1>7, <1>11
    <3> QED
      BY <3>1, <3>2, <3>3, <1>1, FS_EmptySet
  <2>2. CASE p # page
    <3>1. p \in DOMAIN q.count /\ x.count[p] = q.count[p]
      BY <2>2, <1>7, <1>11
    <3>2. PendingOf(x, p) = PendingOf(q, p)
      BY <1>11 DEF PendingOf
    <3>3. UnsentOf(q, p) = {}
      BY DEF UnsentOf
    <3>4. UnsentOf(x, p) = {}
      <4>1. p.max < page.min /\ p.max \in Nat
        BY <3>1, <1>6 DEF AllPages
      <4>2. \A n \in found : ~In(n, p)
        BY <4>1, <1>1, <1>2, <1>4, <1>5 DEF In
      <4> QED
        BY <4>2, <1>11 DEF UnsentOf
    <3>5. q.count[p] # 0 /\ q.count[p] = Cardinality(PendingOf(q, p)) + Cardinality(UnsentOf(q, p))
      BY <3>1 DEF CountsOf
    <3> QED
      BY <3>1, <3>2, <3>3, <3>4, <3>5
  <2> QED
    BY <2>1, <2>2
<1> QED
  BY <1>a, <1>b, <1>2, <1>3, <1>4, <1>10, <1>12, <1>13, <1>14

(* Dispatch sends an unsent task, and finds its page. *)
LEMMA DispatchChoice ==
    ASSUME NEW q \in QueueStates, PagesOf(q), q.unsent # {}
    PROVE  /\ Min(q.unsent) \in q.unsent
           /\ LET page == CHOOSE p \in DOMAIN q.count : p.min <= Min(q.unsent) /\ Min(q.unsent) <= p.max
              IN  page \in DOMAIN q.count /\ In(Min(q.unsent), page)
<1>1. q.unsent \in SUBSET Nat
  BY QueueFields, TasksFinite
<1>2. PICK n \in q.unsent : n = Min(q.unsent)
  BY <1>1, MinOfNats
<1>3. \E p \in DOMAIN q.count : p.min <= n /\ n <= p.max
  BY DEF PagesOf, In
<1>4. PICK page : page = CHOOSE p \in DOMAIN q.count : p.min <= n /\ n <= p.max
  OBVIOUS
<1>5. page \in DOMAIN q.count /\ In(n, page)
  BY <1>3, <1>4 DEF In
<1> QED
  BY <1>2, <1>4, <1>5

Sent(q, n, page, b) ==
    [q EXCEPT !.unsent = q.unsent \ {n}, !.pending = Set(q.pending, n, page), !.armed = b]

LEMMA DispatchPages ==
    ASSUME NEW q \in QueueStates, PagesOf(q), CountsOf(q),
           NEW n \in q.unsent, NEW page \in DOMAIN q.count, In(n, page), NEW b \in BOOLEAN,
           NEW x, x = Sent(q, n, page, b)
    PROVE  /\ x \in QueueStates /\ PagesOf(x) /\ CountsOf(x)
           /\ n \in Tasks /\ n \notin DOMAIN q.pending
           /\ x.unsent = q.unsent \ {n} /\ DOMAIN x.pending = DOMAIN q.pending \cup {n}
           /\ AllPages(x) = AllPages(q) /\ x.cursor = q.cursor /\ x.alive = q.alive
<1>1. q.unsent \in SUBSET Tasks /\ q.unsent \in SUBSET Nat
  BY QueueFields, TasksFinite
<1>2. n \in q.unsent /\ n \in Tasks /\ n \in Nat
  BY <1>1
<1>3. n \notin DOMAIN q.pending
  BY <1>2 DEF PagesOf
<1>4. page \in DOMAIN q.count /\ In(n, page) /\ page \in Pages
  BY QueueFields
<1>5. \A p \in DOMAIN q.count \ {page} : ~In(n, p)
  <2> SUFFICES ASSUME NEW p \in DOMAIN q.count \ {page} PROVE ~In(n, p)
    OBVIOUS
  <2>1. p.max < page.min \/ page.max < p.min
    BY <1>4 DEF PagesOf, AllPages
  <2>2. p.min \in Nat /\ p.max \in Nat /\ page.min \in Nat /\ page.max \in Nat
    BY <1>4, QueueFields, PageFields
  <2> QED
    BY <2>1, <2>2, <1>2, <1>4 DEF In
<1>6. PICK c : /\ c = Set(q.pending, n, page)
               /\ c \in Maps(Tasks, Pages)
               /\ DOMAIN c = DOMAIN q.pending \cup {n}
               /\ c[n] = page
               /\ \A m \in DOMAIN q.pending : c[m] = q.pending[m]
  <2>1. PICK f \in Maps(Tasks, Pages) : f = q.pending /\ f \in [DOMAIN f -> Pages]
    BY QueueFields, MapFacts
  <2>2. PICK r \in Pages : r = page
    BY <1>4
  <2>3. PICK m \in Tasks : m = n
    BY <1>2
  <2>4. PICK c : c = Set(f, m, r)
    OBVIOUS
  <2>5. c \in Maps(Tasks, Pages)
    BY <2>4, SetMap
  <2>6. /\ DOMAIN c = DOMAIN f \cup {m}
        /\ c[m] = r
        /\ \A y \in DOMAIN f \ {m} : c[y] = f[y]
    BY <2>1, <2>4 DEF Set
  <2> QED
    BY <1>3, <2>1, <2>2, <2>3, <2>4, <2>5, <2>6
<1>7. x = [q EXCEPT !.unsent = q.unsent \ {n}, !.pending = c, !.armed = b]
  BY <1>6 DEF Sent
<1>8. q.unsent \ {n} \in SUBSET Tasks /\ c \in Maps(Tasks, Pages)
  BY <1>1, <1>6
<1>9. x \in QueueStates
  BY <1>7, <1>8 DEF QueueStates
<1>10. /\ x.cursor = q.cursor /\ x.unsent = q.unsent \ {n} /\ x.pending = c /\ x.count = q.count
       /\ x.completed = q.completed /\ x.alive = q.alive
  BY <1>7 DEF QueueStates
<1>11. AllPages(x) = AllPages(q)
  BY <1>10 DEF AllPages
<1>12. PagesOf(x)
  <2>1. \A m \in DOMAIN x.pending : x.pending[m] \in DOMAIN x.count /\ In(m, x.pending[m])
    BY <1>4, <1>6, <1>10 DEF PagesOf
  <2>2. x.unsent \cap DOMAIN x.pending = {}
    BY <1>6, <1>10 DEF PagesOf
  <2> QED
    BY <2>1, <2>2, <1>10, <1>11 DEF PagesOf
<1>13. CountsOf(x)
  <2> SUFFICES ASSUME NEW p \in DOMAIN q.count
               PROVE  q.count[p] # 0 /\ q.count[p] = Cardinality(PendingOf(x, p)) + Cardinality(UnsentOf(x, p))
    BY <1>10 DEF CountsOf
  <2>1. q.count[p] # 0 /\ q.count[p] = Cardinality(PendingOf(q, p)) + Cardinality(UnsentOf(q, p))
    BY DEF CountsOf
  <2>2. CASE p = page
    <3>1. PendingOf(x, p) = PendingOf(q, p) \cup {n} /\ n \notin PendingOf(q, p)
      BY <2>2, <1>3, <1>6, <1>10 DEF PendingOf
    <3>2. UnsentOf(x, p) = UnsentOf(q, p) \ {n} /\ n \in UnsentOf(q, p)
      BY <2>2, <1>2, <1>4, <1>10 DEF UnsentOf
    <3>3. /\ IsFiniteSet(PendingOf(q, p)) /\ Cardinality(PendingOf(q, p)) \in Nat
          /\ IsFiniteSet(UnsentOf(q, p)) /\ Cardinality(UnsentOf(q, p)) \in Nat
      <4>1. PendingOf(q, p) \in SUBSET Tasks /\ UnsentOf(q, p) \in SUBSET Tasks
        BY QueueFields DEF PendingOf, UnsentOf
      <4> QED
        BY <4>1, TasksFinite
    <3>4. Cardinality(PendingOf(q, p) \cup {n}) = Cardinality(PendingOf(q, p)) + 1
      BY <3>1, <3>3, FS_AddElement
    <3>5. Cardinality(UnsentOf(q, p) \ {n}) = Cardinality(UnsentOf(q, p)) - 1
      BY <3>2, <3>3, FS_RemoveElement
    <3>6. Cardinality(PendingOf(x, p)) = Cardinality(PendingOf(q, p)) + 1
      BY <3>1, <3>4
    <3>7. Cardinality(UnsentOf(x, p)) = Cardinality(UnsentOf(q, p)) - 1
      BY <3>2, <3>5
    <3> QED
      BY <2>1, <3>3, <3>6, <3>7
  <2>3. CASE p # page
    <3>1. PendingOf(x, p) = PendingOf(q, p)
      BY <2>3, <1>3, <1>6, <1>10 DEF PendingOf
    <3>2. UnsentOf(x, p) = UnsentOf(q, p)
      BY <2>3, <1>5, <1>10 DEF UnsentOf
    <3> QED
      BY <2>1, <3>1, <3>2
  <2> QED
    BY <2>2, <2>3
<1> QED
  BY <1>2, <1>3, <1>6, <1>9, <1>10, <1>11, <1>12, <1>13

Received(q, n) ==
    LET page == q.pending[n]
        left == q.count[page] - 1
    IN  [q EXCEPT !.pending = Drop(q.pending, n),
                  !.count = IF left = 0 THEN Drop(q.count, page) ELSE Set(q.count, page, left),
                  !.completed = IF left = 0 THEN q.completed \cup {page} ELSE q.completed]

LEMMA ReceivePages ==
    ASSUME NEW q \in QueueStates, PagesOf(q), CountsOf(q), q.unsent = {},
           NEW n \in DOMAIN q.pending,
           NEW x, x = Received(q, n)
    PROVE  /\ x \in QueueStates /\ PagesOf(x) /\ CountsOf(x)
           /\ x.unsent = {} /\ DOMAIN x.pending = DOMAIN q.pending \ {n}
           /\ AllPages(x) = AllPages(q) /\ x.cursor = q.cursor /\ x.alive = q.alive
<1>a. PICK page : page = q.pending[n]
  OBVIOUS
<1>b. PICK left : left = q.count[page] - 1
  OBVIOUS
<1>1. page \in DOMAIN q.count /\ In(n, page) /\ page \in Pages
  <2>1. page \in DOMAIN q.count /\ In(n, page)
    BY <1>a DEF PagesOf
  <2> QED
    BY <2>1, QueueFields
<1>2. q.count[page] \in Nat \ {0} /\ left \in Nat /\ q.count[page] = left + 1
  <2>1. q.count[page] \in Nat /\ q.count[page] # 0
    BY <1>1, QueueFields DEF CountsOf
  <2> QED
    BY <1>b, <2>1
<1>3. PICK d : /\ d = Drop(q.pending, n)
               /\ d \in Maps(Tasks, Pages)
               /\ DOMAIN d = DOMAIN q.pending \ {n}
               /\ \A m \in DOMAIN d : d[m] = q.pending[m]
  <2>1. PICK f \in Maps(Tasks, Pages) : f = q.pending /\ f \in [DOMAIN f -> Pages]
    BY QueueFields, MapFacts
  <2>2. PICK d : d = Drop(f, n)
    OBVIOUS
  <2>3. d \in Maps(Tasks, Pages)
    BY <2>2, DropMap
  <2>4. DOMAIN d = DOMAIN f \ {n} /\ \A y \in DOMAIN f \ {n} : d[y] = f[y]
    BY <2>1, <2>2 DEF Drop
  <2> QED
    BY <2>1, <2>2, <2>3, <2>4
<1>4. PICK c : /\ c = IF left = 0 THEN Drop(q.count, page) ELSE Set(q.count, page, left)
               /\ c \in Maps(Pages, Counts)
               /\ DOMAIN c = IF left = 0 THEN DOMAIN q.count \ {page} ELSE DOMAIN q.count
               /\ left # 0 => c[page] = left
               /\ \A p \in DOMAIN q.count \ {page} : c[p] = q.count[p]
  <2>1. PICK f \in Maps(Pages, Counts) : f = q.count /\ f \in [DOMAIN f -> Counts]
    BY QueueFields, MapFacts
  <2>2. PICK r \in Pages : r = page
    BY <1>1
  <2>3. PICK k \in Counts : k = left
    BY <1>2 DEF Counts
  <2>4. PICK g : g = Drop(f, r)
    OBVIOUS
  <2>5. g \in Maps(Pages, Counts) /\ DOMAIN g = DOMAIN f \ {r} /\ \A p \in DOMAIN f \ {r} : g[p] = f[p]
    <3>1. g \in Maps(Pages, Counts)
      BY <2>4, DropMap
    <3> QED
      BY <2>1, <2>4, <3>1 DEF Drop
  <2>6. PICK e : e = Set(f, r, k)
    OBVIOUS
  <2>7. e \in Maps(Pages, Counts) /\ DOMAIN e = DOMAIN f \cup {r} /\ e[r] = k
        /\ \A p \in DOMAIN f \ {r} : e[p] = f[p]
    <3>1. e \in Maps(Pages, Counts)
      BY <2>6, SetMap
    <3> QED
      BY <2>1, <2>6, <3>1 DEF Set
  <2>8. DOMAIN f \cup {r} = DOMAIN f
    BY <1>1, <2>1, <2>2
  <2>9. CASE left = 0
    BY <2>1, <2>2, <2>4, <2>5, <2>9
  <2>10. CASE left # 0
    BY <2>1, <2>2, <2>3, <2>6, <2>7, <2>8, <2>10
  <2> QED
    BY <2>9, <2>10
<1>5. PICK done : done = IF left = 0 THEN q.completed \cup {page} ELSE q.completed
  OBVIOUS
<1>6. x = [q EXCEPT !.pending = d, !.count = c, !.completed = done]
  BY <1>a, <1>b, <1>3, <1>4, <1>5 DEF Received
<1>7. d \in Maps(Tasks, Pages) /\ c \in Maps(Pages, Counts) /\ done \in SUBSET Pages
  BY <1>1, <1>3, <1>4, <1>5, QueueFields
<1>8. x \in QueueStates
  BY <1>6, <1>7 DEF QueueStates
<1>9. x.cursor = q.cursor /\ x.alive = q.alive /\ x.unsent = {} /\ x.pending = d /\ x.count = c /\ x.completed = done
  BY <1>6 DEF QueueStates
<1>10. AllPages(x) = AllPages(q)
  BY <1>1, <1>4, <1>5, <1>9 DEF AllPages
<1>11. q.count[page] = Cardinality(PendingOf(q, page))
  <2>1. UnsentOf(q, page) = {}
    BY DEF UnsentOf
  <2>2. q.count[page] = Cardinality(PendingOf(q, page)) + Cardinality(UnsentOf(q, page))
    BY <1>1 DEF CountsOf
  <2>3. PendingOf(q, page) \in SUBSET Tasks
    BY QueueFields DEF PendingOf
  <2>4. Cardinality(PendingOf(q, page)) \in Nat
    BY <2>3, TasksFinite
  <2> QED
    BY <2>1, <2>2, <2>4, FS_EmptySet
<1>12. /\ IsFiniteSet(PendingOf(q, page)) /\ n \in PendingOf(q, page)
       /\ Cardinality(PendingOf(q, page) \ {n}) = left
  <2>1. PendingOf(q, page) \in SUBSET Tasks
    BY QueueFields DEF PendingOf
  <2>2. IsFiniteSet(PendingOf(q, page)) /\ n \in PendingOf(q, page)
    BY <1>a, <2>1, TasksFinite DEF PendingOf
  <2>3. Cardinality(PendingOf(q, page) \ {n}) = Cardinality(PendingOf(q, page)) - 1
    BY <2>2, FS_RemoveElement
  <2>4. Cardinality(PendingOf(q, page)) = left + 1
    BY <1>2, <1>11
  <2> QED
    BY <2>2, <2>3, <2>4, <1>2
<1>13. PendingOf(x, page) = PendingOf(q, page) \ {n}
  BY <1>3, <1>9 DEF PendingOf
<1>14. left = 0 => PendingOf(x, page) = {}
  BY <1>12, <1>13, FS_RemoveElement, FS_EmptySet
<1>15. PagesOf(x)
  <2>1. \A p \in AllPages(x) : p.min <= p.max /\ p.max < x.cursor
    BY <1>9, <1>10 DEF PagesOf
  <2>2. \A p, r \in AllPages(x) : p = r \/ p.max < r.min \/ r.max < p.min
    BY <1>10 DEF PagesOf
  <2>3. DOMAIN x.count \cap x.completed = {}
    BY <1>1, <1>4, <1>5, <1>9 DEF PagesOf
  <2>4. \A m \in DOMAIN x.pending : x.pending[m] \in DOMAIN x.count /\ In(m, x.pending[m])
    <3> SUFFICES ASSUME NEW m \in DOMAIN d PROVE d[m] \in DOMAIN c /\ In(m, d[m])
      BY <1>9
    <3>1. d[m] = q.pending[m] /\ q.pending[m] \in DOMAIN q.count /\ In(m, q.pending[m])
      BY <1>3 DEF PagesOf
    <3>2. left = 0 => d[m] # page
      BY <1>9, <1>14 DEF PendingOf
    <3> QED
      BY <3>1, <3>2, <1>4
  <2> QED
    BY <2>1, <2>2, <2>3, <2>4, <1>9 DEF PagesOf
<1>16. CountsOf(x)
  <2> SUFFICES ASSUME NEW p \in DOMAIN c
               PROVE  c[p] # 0 /\ c[p] = Cardinality(PendingOf(x, p)) + Cardinality(UnsentOf(x, p))
    BY <1>9 DEF CountsOf
  <2>1. UnsentOf(x, p) = {} /\ UnsentOf(q, p) = {}
    BY <1>9 DEF UnsentOf
  <2>2. CASE p = page
    <3>1. left # 0 /\ c[p] = left
      BY <2>2, <1>4
    <3>2. Cardinality(PendingOf(x, p)) = left
      BY <2>2, <1>12, <1>13
    <3>3. Cardinality(UnsentOf(x, p)) = 0
      BY <2>1, FS_EmptySet
    <3> QED
      BY <3>1, <3>2, <3>3, <1>2
  <2>3. CASE p # page
    <3>1. p \in DOMAIN q.count /\ c[p] = q.count[p]
      BY <2>3, <1>4
    <3>2. PendingOf(x, p) = PendingOf(q, p)
      BY <2>3, <1>a, <1>3, <1>9 DEF PendingOf
    <3>3. q.count[p] # 0 /\ q.count[p] = Cardinality(PendingOf(q, p)) + Cardinality(UnsentOf(q, p))
      BY <3>1 DEF CountsOf
    <3> QED
      BY <2>1, <3>1, <3>2, <3>3
  <2> QED
    BY <2>2, <2>3
<1> QED
  BY <1>3, <1>8, <1>9, <1>10, <1>15, <1>16

-----------------------------------------------------------------------------
(***************************************************************************)
(* The initial states.                                                     *)
(***************************************************************************)
LEMMA Constants ==
    /\ MaxTasks \in Nat /\ Tasks \subseteq Nat /\ 0 \notin Tasks
    /\ Generations \subseteq Nat /\ 0 \notin Generations
    /\ IdleWorker \in WorkerStates /\ IdleWorker.pc = "idle" /\ IdleWorker.task = 0
BY SizeAssumption DEF Tasks, Generations, WorkerStates, IdleWorker

LEMMA EmptyBalance ==
    ASSUME NEW n \in Tasks, NEW f, \A w \in Workers : f[w] = IdleWorker
    PROVE  Balance(n, <<>>, f, <<>>, NewQueue.pending)
<1>1. Copies(n, <<>>) = 0
  BY EmptyCopies
<1>2. Holders(n, f) = {}
  BY Constants DEF Holders
<1>3. Cardinality(Holders(n, f)) = 0
  BY <1>2, FS_EmptySet
<1>4. n \notin DOMAIN NewQueue.pending
  BY NewQueueFacts
<1> QED
  BY <1>1, <1>3, <1>4 DEF Balance

(* The state of a server that has just come up. *)
Empty ==
    /\ queue = [g \in Generations |-> NewQueue] /\ registered = 0
    /\ toProcess = <<>> /\ toCommit = [g \in Generations |-> <<>>]
    /\ worker = [w \in Workers |-> IdleWorker]

Store ==
    /\ nextSeq \in 0..MaxTasks
    /\ reserved \subseteq 1..nextSeq /\ rows \subseteq 1..nextSeq /\ handled \subseteq 1..nextSeq
    /\ generation \in 0..MaxGenerations
    /\ late \in [Generations -> SUBSET (1..nextSeq)]

LEMMA EmptyInv == Empty /\ Store => PipelineInv
<1> SUFFICES ASSUME Empty, Store PROVE PipelineInv
  OBVIOUS
<1>1. /\ \A g \in Generations : queue[g] = NewQueue /\ toCommit[g] = <<>>
      /\ \A w \in Workers : worker[w] = IdleWorker
      /\ registered = 0 /\ toProcess = <<>>
  BY DEF Empty
<1>2. Typing
  <2>1. queue \in [Generations -> QueueStates] /\ worker \in [Workers -> WorkerStates]
    BY NewQueueFacts, Constants DEF Empty
  <2>2. toCommit \in [Generations -> Seq(Tasks)]
    BY EmptySeq DEF Empty
  <2>3. toProcess \in Seq(1..nextSeq) /\ Len(toProcess) <= BufferSize
    BY <1>1, EmptySeq, SizeAssumption
  <2> QED
    BY <1>1, <2>1, <2>2, <2>3 DEF Store, Typing
<1>3. LifeInv
  <2>1. \A g \in Generations : ~queue[g].alive /\ Len(toCommit[g]) <= BufferSize
    BY <1>1, NewQueueFacts, EmptySeq, SizeAssumption
  <2>2. \A w \in Workers : worker[w].pc = "idle"
    BY <1>1, Constants
  <2> QED
    BY <1>1, <2>1, <2>2 DEF LifeInv
<1>4. PageInv /\ CountInv
  <2>1. 0 <= nextSeq + 1
    BY SizeAssumption DEF Store
  <2> QED
    BY <1>1, <2>1, NewQueueFacts DEF PageInv, CountInv
<1>5. HandledInv
  <2>1. Range(<<>>) = {}
    BY EmptyCopies
  <2> QED
    BY <1>1, <2>1, Constants DEF HandledInv
<1>6. FlightInv
  BY <1>1, Constants DEF FlightInv, Undisturbed
<1>8. DoneInv
  BY <1>1, NewQueueFacts DEF DoneInv, DoneOf
<1>9. CursorInv
  BY <1>1 DEF CursorInv
<1> QED
  BY <1>2, <1>3, <1>4, <1>5, <1>6, <1>8, <1>9 DEF PipelineInv

LEMMA InitInv == Init => PipelineInv
<1> SUFFICES ASSUME Init PROVE PipelineInv
  OBVIOUS
<1>1. Empty
  BY DEF Init, Empty
<1>2. Store
  BY SizeAssumption DEF Init, Store
<1> QED
  BY <1>1, <1>2, EmptyInv

(* A panic or a crash: all but the table starts anew. *)
LEMMA DiesInv ==
    ASSUME PipelineInv, ServerDies
    PROVE  PipelineInv'
<1>1. Empty'
  BY DEF ServerDies, Empty
<1>2. Store'
  <2>1. Store
    BY DEF PipelineInv, Typing, Store
  <2> QED
    BY <2>1 DEF ServerDies, Store
<1>3. (Empty /\ Store => PipelineInv)'
  BY EmptyInv, PTL
<1> QED
  BY <1>1, <1>2, <1>3

-----------------------------------------------------------------------------
(***************************************************************************)
(* The writers of the table.                                               *)
(***************************************************************************)
LEMMA ReserveInv ==
    ASSUME PipelineInv, Reserve
    PROVE  PipelineInv'
<1> USE DEF Reserve
<1>1. /\ nextSeq \in Nat /\ nextSeq' = nextSeq + 1 /\ nextSeq' \in 0..MaxTasks
      /\ reserved' = reserved \cup {nextSeq + 1}
      /\ 1..nextSeq \subseteq 1..nextSeq'
  BY SizeAssumption DEF PipelineInv, Typing
<1>2. Typing'
  <2>1. toProcess \in Seq(1..nextSeq)
    BY DEF PipelineInv, Typing
  <2>2. toProcess \in Seq(1..nextSeq')
    BY <2>1, <1>1, SeqMonotonic
  <2>3. /\ reserved' \subseteq 1..nextSeq' /\ rows' \subseteq 1..nextSeq' /\ handled' \subseteq 1..nextSeq'
    BY <1>1 DEF PipelineInv, Typing
  <2> QED
    BY <1>1, <2>2, <2>3 DEF PipelineInv, Typing
<1>3. LifeInv'
  BY <1>1 DEF PipelineInv, LifeInv
<1>4. PageInv' /\ CountInv'
  <2>1. \A g \in Generations : queue[g].cursor \in Nat
    BY QueueFields DEF PipelineInv, Typing
  <2> QED
    BY <1>1, <2>1 DEF PipelineInv, PageInv, CountInv
<1>5. HandledInv' /\ DoneInv' /\ CursorInv'
  BY DEF PipelineInv, HandledInv, DoneInv, DoneOf, CursorInv, Flying
<1>6. FlightInv'
  BY DEF PipelineInv, FlightInv, Undisturbed
<1> QED
  BY <1>2, <1>3, <1>4, <1>5, <1>6 DEF PipelineInv

LEMMA CommitInsertInv ==
    ASSUME PipelineInv, NEW n \in Tasks, CommitInsert(n)
    PROVE  PipelineInv'
<1> USE DEF CommitInsert
<1>1. /\ n \in reserved /\ reserved' = reserved \ {n} /\ rows' = rows \cup {n} /\ n \in 1..nextSeq
      /\ n \in Nat /\ nextSeq \in Nat
  BY SizeAssumption DEF PipelineInv, Typing
<1>2. Typing'
  BY <1>1 DEF PipelineInv, Typing
<1>3. LifeInv' /\ PageInv' /\ CountInv' /\ HandledInv'
  BY DEF PipelineInv, LifeInv, PageInv, CountInv, HandledInv
<1>4. FlightInv'
  BY DEF PipelineInv, FlightInv, Undisturbed
<1>6. \A g \in Generations : late'[g] = IF n < queue[g].cursor THEN late[g] \cup {n} ELSE late[g]
  OBVIOUS
<1>7. DoneInv'
  <2> SUFFICES ASSUME NEW g \in Generations, NEW p \in AllPages(queue[g]), NEW k \in rows', In(k, p)
               PROVE  k \in handled \cup late'[g] \cup queue[g].unsent \cup DOMAIN queue[g].pending
    BY DEF DoneInv, DoneOf
  <2>1. p.max < queue[g].cursor /\ p.max \in Nat /\ queue[g].cursor \in Nat
    <3>1. queue[g] \in QueueStates /\ PagesOf(queue[g])
      BY DEF PipelineInv, Typing, PageInv
    <3> QED
      BY <3>1, QueueFields, PageFields DEF PagesOf
  <2>2. CASE k = n
    <3>1. n < queue[g].cursor
      BY <1>1, <2>1, <2>2 DEF In
    <3> QED
      BY <1>6, <2>2, <3>1
  <2>3. CASE k # n
    BY <1>1, <1>6, <2>3 DEF PipelineInv, DoneInv, DoneOf
  <2> QED
    BY <2>2, <2>3
<1>8. CursorInv'
  <2> SUFFICES ASSUME registered # 0, NEW k \in rows' \ (handled \cup late'[registered]), k < queue[registered].cursor
               PROVE  k \in queue[registered].unsent \/ Flying(k)
    BY DEF CursorInv, Flying
  <2>1. registered \in Generations
    BY SizeAssumption DEF PipelineInv, Typing, Generations
  <2>2. k # n /\ k \notin late[registered]
    BY <1>6, <2>1
  <2> QED
    BY <1>1, <2>2 DEF PipelineInv, CursorInv
<1> QED
  BY <1>2, <1>3, <1>4, <1>7, <1>8 DEF PipelineInv

LEMMA RollbackInsertInv ==
    ASSUME PipelineInv, NEW n \in Tasks, RollbackInsert(n)
    PROVE  PipelineInv'
<1> USE DEF RollbackInsert
<1>1. Typing'
  BY DEF PipelineInv, Typing
<1>2. LifeInv' /\ PageInv' /\ CountInv' /\ HandledInv'
  BY DEF PipelineInv, LifeInv, PageInv, CountInv, HandledInv
<1>3. FlightInv' /\ DoneInv' /\ CursorInv'
  BY DEF PipelineInv, FlightInv, Undisturbed, DoneInv, DoneOf, CursorInv, Flying
<1> QED
  BY <1>1, <1>2, <1>3 DEF PipelineInv

-----------------------------------------------------------------------------
(***************************************************************************)
(* The queue.                                                              *)
(***************************************************************************)
LEMMA RegisteredFacts ==
    ASSUME Typing
    PROVE  registered # 0 => registered \in Generations
BY SizeAssumption DEF Typing, Generations

LEMMA QueueChanges ==
    ASSUME Typing, NEW g \in Generations, NEW x \in QueueStates, queue' = [queue EXCEPT ![g] = x]
    PROVE  /\ queue' \in [Generations -> QueueStates] /\ queue'[g] = x
           /\ \A h \in Generations \ {g} : queue'[h] = queue[h]
BY DEF Typing

(* The timer of a queue is armed or fires, or the queue is taken away. *)
LEMMA TimerInv ==
    ASSUME PipelineInv, NEW g \in Generations, NEW x \in QueueStates,
           queue[g].alive, x.alive, SamePages(queue[g], x), queue' = [queue EXCEPT ![g] = x],
           registered' \in {registered, 0},
           UNCHANGED <<nextSeq, reserved, rows, generation, toProcess, toCommit, worker, handled, late>>
    PROVE  PipelineInv'
<1>1. /\ queue' \in [Generations -> QueueStates] /\ queue'[g] = x
      /\ \A h \in Generations \ {g} : queue'[h] = queue[h]
  BY QueueChanges DEF PipelineInv
<1>2. \A h \in Generations : SamePages(queue[h], queue'[h]) /\ queue'[h].alive = queue[h].alive
  <2>1. queue'[g].alive = queue[g].alive
    BY <1>1, QueueFields DEF PipelineInv, Typing
  <2> QED
    BY <1>1, <2>1 DEF SamePages
<1>3. \A h \in Generations : AllPages(queue'[h]) = AllPages(queue[h])
  BY <1>2 DEF SamePages, AllPages
<1>4. Typing'
  BY <1>1 DEF PipelineInv, Typing
<1>5. LifeInv'
  <2>1. registered # 0 => registered \in Generations
    BY RegisteredFacts DEF PipelineInv
  <2> QED
    BY <1>1, <1>2, <2>1 DEF PipelineInv, LifeInv
<1>6. PageInv' /\ CountInv'
  BY <1>2, SamePagesFacts DEF PipelineInv, PageInv, CountInv, SamePages
<1>7. HandledInv'
  BY DEF PipelineInv, HandledInv
<1>8. FlightInv'
  <2>1. ASSUME NEW h \in Generations, Undisturbed(h)' PROVE Undisturbed(h)
    BY <1>2, <2>1, Constants DEF Undisturbed
  <2> QED
    BY <1>2, <2>1 DEF PipelineInv, FlightInv, SamePages
<1>10. DoneInv'
  BY <1>2, <1>3 DEF PipelineInv, DoneInv, DoneOf, SamePages
<1>11. CursorInv'
  <2> SUFFICES ASSUME registered' # 0 PROVE CursorInv'
    BY DEF CursorInv
  <2>1. registered' = registered /\ registered \in Generations
    BY RegisteredFacts DEF PipelineInv
  <2> QED
    BY <1>2, <2>1 DEF PipelineInv, CursorInv, SamePages, Flying
<1> QED
  BY <1>4, <1>5, <1>6, <1>7, <1>8, <1>10, <1>11 DEF PipelineInv

LEMMA ArmedIsAlive ==
    ASSUME PipelineInv, NEW g \in Generations, queue[g].armed \/ queue[g].signal \/ queue[g].unsent # {}
    PROVE  queue[g].alive
BY NewQueueFacts DEF PipelineInv, LifeInv

LEMMA NotifyInv ==
    ASSUME PipelineInv, NEW g \in Generations, Notify(g)
    PROVE  PipelineInv'
<1>1. PICK x : x = [queue[g] EXCEPT !.armed = TRUE]
  OBVIOUS
<1>2. queue[g] \in QueueStates
  BY DEF PipelineInv, Typing
<1>3. x \in QueueStates /\ SamePages(queue[g], x) /\ x.alive = queue[g].alive
  BY <1>1, <1>2 DEF QueueStates, SamePages
<1>4. queue' = [queue EXCEPT ![g] = x]
  BY <1>1 DEF Notify
<1> QED
  BY <1>3, <1>4, TimerInv DEF Notify

LEMMA FireTimerInv ==
    ASSUME PipelineInv, NEW g \in Generations, FireTimer(g)
    PROVE  PipelineInv'
<1>1. PICK x : x = [queue[g] EXCEPT !.armed = FALSE, !.signal = TRUE]
  OBVIOUS
<1>2. queue[g] \in QueueStates
  BY DEF PipelineInv, Typing
<1>3. x \in QueueStates /\ SamePages(queue[g], x) /\ x.alive = queue[g].alive
  BY <1>1, <1>2 DEF QueueStates, SamePages
<1>4. queue' = [queue EXCEPT ![g] = x]
  BY <1>1 DEF FireTimer
<1>5. queue[g].alive
  BY ArmedIsAlive DEF FireTimer
<1> QED
  BY <1>3, <1>4, <1>5, TimerInv DEF FireTimer

LEMMA StopQueueInv ==
    ASSUME PipelineInv, StopQueue
    PROVE  PipelineInv'
<1>1. PICK g \in Generations : g = registered
  BY RegisteredFacts DEF StopQueue, PipelineInv
<1>2. PICK x : x = [queue[g] EXCEPT !.armed = FALSE]
  OBVIOUS
<1>3. queue[g] \in QueueStates
  BY DEF PipelineInv, Typing
<1>4. x \in QueueStates /\ SamePages(queue[g], x) /\ x.alive = queue[g].alive
  BY <1>2, <1>3 DEF QueueStates, SamePages
<1>5. queue' = [queue EXCEPT ![g] = x]
  BY <1>1, <1>2 DEF StopQueue
<1>6. queue[g].alive
  BY <1>1 DEF StopQueue, PipelineInv, LifeInv
<1> QED
  BY <1>4, <1>5, <1>6, TimerInv DEF StopQueue

(* A page has no holes: it has every row between the cursor and its last. *)
LEMMA FoundFacts ==
    ASSUME Typing, NEW cursor \in Nat, NEW found, found = GetImmediateTasks(cursor)
    PROVE  /\ found \subseteq rows /\ found \in SUBSET Tasks /\ \A n \in found : cursor <= n
           /\ \A n \in rows : \A m \in found : cursor <= n /\ n <= m => n \in found
<1> DEFINE above == {n \in rows : n >= cursor}
           Below(n) == {m \in above : m < n}
<1>1. found = {n \in above : Cardinality(Below(n)) < PageSize}
  BY DEF GetImmediateTasks
<1>2. rows \in SUBSET Tasks /\ rows \in SUBSET Nat
  BY SizeAssumption DEF Typing, Tasks
<1>3. ASSUME NEW n \in rows, NEW m \in found, cursor <= n, n <= m
      PROVE  n \in found
  <2>1. n \in above /\ m \in above /\ n \in Nat /\ m \in Nat
    BY <1>1, <1>2, <1>3
  <2>2. Below(n) \in SUBSET Below(m) /\ Below(m) \in SUBSET Tasks
    <3>1. \A k \in above : k \in Nat /\ k \in Tasks
      BY <1>2
    <3>2. \A k \in above : k < n => k < m
      BY <1>3, <2>1, <3>1
    <3> QED
      BY <3>1, <3>2
  <2>3. Below(n) \in SUBSET Tasks
    BY <2>2
  <2> HIDE DEF above, Below
  <2>4. /\ IsFiniteSet(Below(m)) /\ Cardinality(Below(m)) \in Nat
        /\ Cardinality(Below(n)) \in Nat
    BY <2>2, <2>3, TasksFinite
  <2>5. Cardinality(Below(n)) <= Cardinality(Below(m))
    BY <2>2, <2>4, FS_Subset
  <2>6. Cardinality(Below(m)) < PageSize
    BY <1>1
  <2>7. Cardinality(Below(n)) < PageSize
    BY <2>4, <2>5, <2>6, SizeAssumption
  <2> QED
    BY <1>1, <2>1, <2>7
<1> QED
  BY <1>1, <1>2, <1>3

LEMMA PageFoundInv ==
    ASSUME PipelineInv, NEW g \in Generations, Selecting(g),
           NEW found, found = GetImmediateTasks(queue[g].cursor), found # {},
           NEW x, x = Polled(queue[g], found),
           queue' = [queue EXCEPT ![g] = x],
           UNCHANGED <<nextSeq, reserved, rows, generation, registered, toProcess, toCommit, worker, handled, late>>
    PROVE  PipelineInv'
<1>1. PICK q \in QueueStates : q = queue[g] /\ PagesOf(q) /\ CountsOf(q) /\ q.unsent = {} /\ q.alive
  BY DEF PipelineInv, Typing, PageInv, CountInv, Selecting
<1>2. q.cursor \in Nat /\ Typing
  BY QueueFields DEF PipelineInv
<1>3. /\ found \subseteq rows /\ found \in SUBSET Tasks /\ \A n \in found : q.cursor <= n
      /\ \A n \in rows : \A m \in found : q.cursor <= n /\ n <= m => n \in found
  BY <1>1, <1>2, FoundFacts
<1>4. PICK page : page = PageOver(found)
  OBVIOUS
<1>5. /\ x \in QueueStates /\ PagesOf(x) /\ CountsOf(x)
      /\ page.min \in found /\ page.max \in found /\ \A n \in found : n <= page.max
      /\ AllPages(x) = AllPages(q) \cup {page}
  <2>1. PagesOf(q) /\ CountsOf(q) /\ q.unsent = {}
    BY <1>1
  <2>2. /\ Polled(q, found) \in QueueStates /\ PagesOf(Polled(q, found)) /\ CountsOf(Polled(q, found))
        /\ PageOver(found).min \in found /\ PageOver(found).max \in found
        /\ \A n \in found : n <= PageOver(found).max
        /\ AllPages(Polled(q, found)) = AllPages(q) \cup {PageOver(found)}
    BY <1>3, <2>1, PollPages
  <2> QED
    BY <2>2, <1>1, <1>4
<1>6. PICK last \in found : last = page.max
  BY <1>5
<1>7. /\ x.alive /\ x.cursor = last + 1 /\ x.unsent = found /\ x.pending = q.pending
  BY <1>1, <1>4, <1>6 DEF QueueStates, Polled
<1>8. last \in rows /\ last \in 1..nextSeq /\ last \in Nat /\ nextSeq \in Nat
  BY <1>3, SizeAssumption DEF PipelineInv, Typing
<1>9. /\ queue' \in [Generations -> QueueStates] /\ queue'[g] = x
      /\ \A h \in Generations \ {g} : queue'[h] = queue[h]
  BY <1>2, <1>5, QueueChanges
<1>10. Typing'
  BY <1>9 DEF PipelineInv, Typing
<1>11. \A h \in Generations : queue'[h].alive <=> queue[h].alive
  BY <1>1, <1>7, <1>9
<1>12. LifeInv'
  <2>1. registered # 0 => registered \in Generations
    BY RegisteredFacts DEF PipelineInv
  <2> QED
    BY <1>7, <1>9, <1>11, <2>1 DEF PipelineInv, LifeInv
<1>13. PageInv' /\ CountInv'
  <2>1. x.cursor <= nextSeq + 1
    BY <1>7, <1>8
  <2> QED
    BY <1>5, <1>9, <2>1 DEF PipelineInv, PageInv, CountInv
<1>14. HandledInv'
  BY DEF PipelineInv, HandledInv
<1>15. FlightInv'
  <2>1. ASSUME NEW h \in Generations, Undisturbed(h)' PROVE Undisturbed(h)
    BY <1>11, <2>1 DEF Undisturbed
  <2>2. \A h \in Generations : queue'[h].pending = queue[h].pending
    BY <1>1, <1>7, <1>9
  <2> QED
    BY <2>1, <2>2 DEF PipelineInv, FlightInv
<1>17. DoneInv'
  <2> SUFFICES ASSUME NEW h \in Generations, NEW p \in AllPages(queue'[h]), NEW n \in rows, In(n, p)
               PROVE  n \in handled \cup late[h] \cup queue'[h].unsent \cup DOMAIN queue'[h].pending
    BY DEF DoneInv, DoneOf
  <2>1. CASE h # g
    BY <2>1, <1>9 DEF PipelineInv, DoneInv, DoneOf
  <2>2. CASE h = g /\ p \in AllPages(q)
    BY <2>2, <1>1, <1>7, <1>9 DEF PipelineInv, DoneInv, DoneOf
  <2>3. CASE h = g /\ p = page
    <3>3. PICK first \in found : first = page.min
      BY <1>5
    <3>4. first <= n /\ n <= last /\ q.cursor <= first
      BY <1>3, <1>6, <2>3, <3>3 DEF In
    <3>5. n \in Nat /\ first \in Nat
      BY <1>3, Constants, SizeAssumption DEF PipelineInv, Typing
    <3>6. q.cursor <= n
      BY <3>4, <3>5, <1>2
    <3>7. n \in found
      BY <3>4, <3>6, <1>3
    <3> QED
      BY <3>7, <2>3, <1>7, <1>9
  <2> QED
    BY <2>1, <2>2, <2>3, <1>5, <1>9
<1>18. CursorInv'
  <2> SUFFICES ASSUME registered # 0, NEW n \in rows \ (handled \cup late[registered]), n < queue'[registered].cursor
               PROVE  n \in queue'[registered].unsent \/ Flying(n)
    BY DEF CursorInv, Flying
  <2>1. registered \in Generations /\ n \in Nat
    BY RegisteredFacts, SizeAssumption DEF PipelineInv, Typing
  <2>2. CASE registered # g
    BY <2>1, <2>2, <1>9 DEF PipelineInv, CursorInv
  <2>3. CASE registered = g /\ n < q.cursor
    <3>1. n \in queue[registered].unsent \/ Flying(n)
      BY <2>3, <1>1 DEF PipelineInv, CursorInv
    <3> QED
      BY <3>1, <2>3, <1>1
  <2>4. CASE registered = g /\ q.cursor <= n
    <3>1. n <= last
      BY <2>1, <2>4, <1>7, <1>8, <1>9
    <3> QED
      BY <3>1, <2>4, <1>3, <1>7, <1>9
  <2> QED
    BY <2>1, <2>2, <2>3, <2>4, <1>2
<1> QED
  BY <1>10, <1>12, <1>13, <1>14, <1>15, <1>17, <1>18 DEF PipelineInv

LEMMA PollInv ==
    ASSUME PipelineInv, NEW g \in Generations, Poll(g)
    PROVE  PipelineInv'
<1>1. queue[g] \in QueueStates /\ queue[g].alive
  BY DEF PipelineInv, Typing, Poll, Selecting
<1>2. CASE queue' = [queue EXCEPT ![g].signal = FALSE, ![g].armed = TRUE]
  <2>1. PICK x : x = [queue[g] EXCEPT !.signal = FALSE, !.armed = TRUE]
    OBVIOUS
  <2>2. x \in QueueStates /\ SamePages(queue[g], x) /\ x.alive = queue[g].alive
    BY <1>1, <2>1 DEF QueueStates, SamePages
  <2>3. queue' = [queue EXCEPT ![g] = x]
    BY <1>2, <2>1
  <2> QED
    BY <1>1, <2>2, <2>3, TimerInv DEF Poll
<1>3. CASE queue' # [queue EXCEPT ![g].signal = FALSE, ![g].armed = TRUE]
  <2>1. PICK found : found = GetImmediateTasks(queue[g].cursor)
    OBVIOUS
  <2>3. PICK x : x = Polled(queue[g], found)
    OBVIOUS
  <2>4. /\ Selecting(g) /\ found # {} /\ queue' = [queue EXCEPT ![g] = x]
        /\ UNCHANGED <<nextSeq, reserved, rows, generation, registered, toProcess, toCommit, worker, handled, late>>
    BY <1>3, <2>1, <2>3 DEF Poll, Polled, PageOver
  <2> QED
    BY <2>1, <2>3, <2>4, PageFoundInv
<1> QED
  BY <1>2, <1>3

LEMMA TasksOfQueue ==
    ASSUME PipelineInv, NEW g \in Generations
    PROVE  \A n \in queue[g].unsent \cup DOMAIN queue[g].pending : n \in 1..nextSeq
<1> SUFFICES ASSUME NEW n \in queue[g].unsent \cup DOMAIN queue[g].pending PROVE n \in 1..nextSeq
  OBVIOUS
<1>1. PICK q \in QueueStates : q = queue[g] /\ PagesOf(q) /\ q.cursor <= nextSeq + 1 /\ q.cursor \in Nat
  BY QueueFields DEF PipelineInv, Typing, PageInv
<1>2. PICK p \in DOMAIN q.count : In(n, p)
  BY <1>1 DEF PagesOf
<1>3. p.max \in Nat /\ p.max < q.cursor
  BY <1>1, QueueFields, PageFields DEF PagesOf, AllPages
<1>4. n \in Tasks /\ n \in Nat \ {0}
  BY <1>1, QueueFields, Constants
<1>5. nextSeq \in Nat
  BY SizeAssumption DEF PipelineInv, Typing
<1> QED
  BY <1>1, <1>2, <1>3, <1>4, <1>5 DEF In

LEMMA CopiesAreNat ==
    ASSUME Typing, NEW g \in Generations, NEW n
    PROVE  Copies(n, toProcess) \in Nat /\ Copies(n, toCommit[g]) \in Nat
           /\ Cardinality(Holders(n, worker)) \in Nat
<1>1. toProcess \in Seq(1..nextSeq) /\ toCommit[g] \in Seq(Tasks)
  BY DEF Typing
<1>2. Copies(n, toProcess) \in Nat
  BY <1>1, PlacesFinite
<1>3. Copies(n, toCommit[g]) \in Nat
  BY <1>1, PlacesFinite
<1> QED
  BY <1>2, <1>3, HoldersFinite

LEMMA SentInv ==
    ASSUME PipelineInv, NEW g \in Generations,
           NEW n \in queue[g].unsent, NEW page \in DOMAIN queue[g].count, In(n, page), NEW b \in BOOLEAN,
           NEW x, x = Sent(queue[g], n, page, b), Len(toProcess) < BufferSize,
           queue' = [queue EXCEPT ![g] = x], toProcess' = Append(toProcess, n),
           UNCHANGED <<nextSeq, reserved, rows, generation, registered, toCommit, worker, handled, late>>
    PROVE  PipelineInv'
<1>1. PICK q \in QueueStates : q = queue[g] /\ PagesOf(q) /\ CountsOf(q) /\ q.alive
  BY ArmedIsAlive DEF PipelineInv, Typing, PageInv, CountInv
<1>2. /\ x \in QueueStates /\ PagesOf(x) /\ CountsOf(x)
      /\ n \in Tasks /\ n \notin DOMAIN q.pending
      /\ x.unsent = q.unsent \ {n} /\ DOMAIN x.pending = DOMAIN q.pending \cup {n}
      /\ AllPages(x) = AllPages(q) /\ x.cursor = q.cursor /\ x.alive = q.alive
  <2>1. PagesOf(q) /\ CountsOf(q) /\ x = Sent(q, n, page, b)
    BY <1>1
  <2>2. n \in q.unsent /\ page \in DOMAIN q.count
    BY <1>1
  <2> QED
    BY <2>1, <2>2, DispatchPages
<1>3. /\ queue' \in [Generations -> QueueStates] /\ queue'[g] = x
      /\ \A h \in Generations \ {g} : queue'[h] = queue[h]
  BY <1>2, QueueChanges DEF PipelineInv
<1>4. n \in 1..nextSeq
  BY TasksOfQueue
<1>5. toProcess \in Seq(1..nextSeq)
  BY DEF PipelineInv, Typing
<1>6. /\ toProcess' \in Seq(1..nextSeq) /\ Len(toProcess') = Len(toProcess) + 1
      /\ Range(toProcess') = Range(toProcess) \cup {n}
  <2>1. PICK S : S = 1..nextSeq
    OBVIOUS
  <2>2. toProcess \in Seq(S) /\ n \in S
    BY <1>4, <1>5, <2>1
  <2>3. /\ Append(toProcess, n) \in Seq(S) /\ Len(Append(toProcess, n)) = Len(toProcess) + 1
        /\ Range(Append(toProcess, n)) = Range(toProcess) \cup {n}
    BY <2>2, AppendElements
  <2> QED
    BY <2>1, <2>3
<1>7. Typing'
  <2>1. Len(toProcess') <= BufferSize
    BY <1>5, <1>6, LenProperties, SizeAssumption
  <2> QED
    BY <1>3, <1>6, <2>1 DEF PipelineInv, Typing
<1>8. \A h \in Generations : queue'[h].alive <=> queue[h].alive
  BY <1>1, <1>2, <1>3
<1>9. LifeInv'
  <2>1. registered # 0 => registered \in Generations
    BY RegisteredFacts DEF PipelineInv
  <2>2. queue'[g].alive
    BY <1>1, <1>2, <1>3
  <2> QED
    BY <1>3, <1>8, <2>1, <2>2 DEF PipelineInv, LifeInv
<1>10. PageInv' /\ CountInv'
  BY <1>1, <1>2, <1>3 DEF PipelineInv, PageInv, CountInv
<1>11. HandledInv'
  BY DEF PipelineInv, HandledInv
<1>12. FlightInv'
  <2> SUFFICES ASSUME NEW h \in Generations, Undisturbed(h)', NEW m \in Tasks
               PROVE  Balance(m, toProcess', worker, toCommit[h], queue'[h].pending)
    BY DEF FlightInv
  <2>1. Undisturbed(h) /\ h = g
    BY <1>1, <1>8 DEF Undisturbed
  <2>2. Balance(m, toProcess, worker, toCommit[h], q.pending)
    BY <1>1, <2>1 DEF PipelineInv, FlightInv
  <2>3. Copies(m, toProcess') = Copies(m, toProcess) + One(n, m)
    BY <1>4, <1>5, AppendCopies
  <2>4. /\ Copies(m, toProcess) \in Nat /\ Copies(m, toCommit[h]) \in Nat
        /\ Cardinality(Holders(m, worker)) \in Nat
    BY CopiesAreNat DEF PipelineInv
  <2>5. m \in DOMAIN x.pending <=> m \in DOMAIN q.pending \/ m = n
    BY <1>2
  <2>6. queue'[h].pending = x.pending
    BY <1>3, <2>1
  <2>7. Copies(m, toProcess) + Cardinality(Holders(m, worker)) + Copies(m, toCommit[h])
            = IF m \in DOMAIN q.pending THEN 1 ELSE 0
    BY <2>2 DEF Balance
  <2>8. Copies(m, toProcess') + Cardinality(Holders(m, worker)) + Copies(m, toCommit[h])
            = IF m \in DOMAIN x.pending THEN 1 ELSE 0
    <3>1. CASE m = n
      <4>1. m \notin DOMAIN q.pending /\ m \in DOMAIN x.pending
        BY <2>5, <3>1, <1>2
      <4> QED
        BY <2>3, <2>4, <2>7, <3>1, <4>1, OneFacts
    <3>2. CASE m # n
      BY <2>3, <2>4, <2>5, <2>7, <3>2, OneFacts
    <3> QED
      BY <3>1, <3>2
  <2> QED
    BY <2>6, <2>8 DEF Balance
<1>14. DoneInv'
  <2> SUFFICES ASSUME NEW h \in Generations, NEW p \in AllPages(queue'[h]), NEW k \in rows, In(k, p)
               PROVE  k \in handled \cup late[h] \cup queue'[h].unsent \cup DOMAIN queue'[h].pending
    BY DEF DoneInv, DoneOf
  <2>1. CASE h # g
    BY <2>1, <1>3 DEF PipelineInv, DoneInv, DoneOf
  <2>2. CASE h = g
    BY <2>2, <1>1, <1>2, <1>3 DEF PipelineInv, DoneInv, DoneOf
  <2> QED
    BY <2>1, <2>2
<1>15. CursorInv'
  <2> SUFFICES ASSUME registered # 0, NEW k \in rows \ (handled \cup late[registered]), k < queue'[registered].cursor
               PROVE  k \in queue'[registered].unsent \/ Flying(k)'
    BY DEF CursorInv
  <2>1. registered \in Generations
    BY RegisteredFacts DEF PipelineInv
  <2>2. k < queue[registered].cursor
    BY <2>1, <1>1, <1>2, <1>3
  <2>3. k \in queue[registered].unsent \/ Flying(k)
    BY <2>2 DEF PipelineInv, CursorInv
  <2>4. Flying(k) => Flying(k)'
    BY <1>6 DEF Flying
  <2>5. k = n => Flying(k)'
    BY <1>6 DEF Flying
  <2> QED
    BY <2>1, <2>3, <2>4, <2>5, <1>1, <1>2, <1>3
<1> QED
  BY <1>7, <1>9, <1>10, <1>11, <1>12, <1>14, <1>15 DEF PipelineInv

LEMMA DispatchInv ==
    ASSUME PipelineInv, NEW g \in Generations, Dispatch(g)
    PROVE  PipelineInv'
<1>1. queue[g] \in QueueStates /\ PagesOf(queue[g]) /\ queue[g].unsent # {}
  BY DEF PipelineInv, Typing, PageInv, Dispatch
<1>2. PICK n \in queue[g].unsent : n = Min(queue[g].unsent)
  BY <1>1, DispatchChoice
<1>3. PICK page \in DOMAIN queue[g].count :
          page = (CHOOSE p \in DOMAIN queue[g].count : p.min <= n /\ n <= p.max) /\ In(n, page)
  BY <1>1, <1>2, DispatchChoice
<1>4. PICK b \in BOOLEAN : b = (queue[g].unsent = {n} \/ queue[g].armed)
  OBVIOUS
<1>a. queue' = [queue EXCEPT ![g].unsent = queue[g].unsent \ {n}, ![g].pending = Set(queue[g].pending, n, page),
                             ![g].armed = b]
  BY <1>2, <1>3, <1>4, Zenon DEF Dispatch
<1>5. PICK x : x = Sent(queue[g], n, page, b)
  OBVIOUS
<1>6. /\ queue' = [queue EXCEPT ![g] = x] /\ toProcess' = Append(toProcess, n) /\ Len(toProcess) < BufferSize
      /\ UNCHANGED <<nextSeq, reserved, rows, generation, registered, toCommit, worker, handled, late>>
  <2>1. queue' = [queue EXCEPT ![g] = x]
    BY <1>5, <1>a DEF Sent
  <2>2. toProcess' = Append(toProcess, n)
    BY <1>2 DEF Dispatch
  <2> QED
    BY <2>1, <2>2 DEF Dispatch
<1> QED
  BY <1>3, <1>5, <1>6, SentInv

LEMMA ReceivedInv ==
    ASSUME PipelineInv, NEW g \in Generations, Selecting(g), toCommit[g] # <<>>,
           NEW n \in DOMAIN queue[g].pending, n = Head(toCommit[g]),
           NEW x, x = Received(queue[g], n),
           queue' = [queue EXCEPT ![g] = x], toCommit' = [toCommit EXCEPT ![g] = Tail(toCommit[g])],
           UNCHANGED <<nextSeq, reserved, rows, generation, registered, toProcess, worker, handled, late>>
    PROVE  PipelineInv'
<1>1. PICK q \in QueueStates : q = queue[g] /\ PagesOf(q) /\ CountsOf(q) /\ q.alive /\ q.unsent = {}
  BY DEF PipelineInv, Typing, PageInv, CountInv, Selecting
<1>2. /\ x \in QueueStates /\ PagesOf(x) /\ CountsOf(x)
      /\ x.unsent = {} /\ DOMAIN x.pending = DOMAIN q.pending \ {n}
      /\ AllPages(x) = AllPages(q) /\ x.cursor = q.cursor /\ x.alive = q.alive
  <2>1. PagesOf(q) /\ CountsOf(q) /\ q.unsent = {} /\ x = Received(q, n)
    BY <1>1
  <2>2. n \in DOMAIN q.pending
    BY <1>1
  <2> QED
    BY <2>1, <2>2, ReceivePages
<1>3. /\ queue' \in [Generations -> QueueStates] /\ queue'[g] = x
      /\ \A h \in Generations \ {g} : queue'[h] = queue[h]
  BY <1>2, QueueChanges DEF PipelineInv
<1>4. PICK c \in Seq(Tasks) : c = toCommit[g] /\ c # <<>>
  BY DEF PipelineInv, Typing
<1>5. PICK t : t = Tail(c)
  OBVIOUS
<1>6. t \in Seq(Tasks) /\ Len(t) <= Len(c) /\ Range(c) = Range(t) \cup {n}
  BY <1>4, <1>5, TailElements
<1>7. toCommit' \in [Generations -> Seq(Tasks)] /\ toCommit'[g] = t
      /\ \A h \in Generations \ {g} : toCommit'[h] = toCommit[h]
  BY <1>4, <1>5, <1>6 DEF PipelineInv, Typing
<1>8. Typing'
  BY <1>3, <1>7 DEF PipelineInv, Typing
<1>9. \A h \in Generations : queue'[h].alive <=> queue[h].alive
  BY <1>1, <1>2, <1>3
<1>10. LifeInv'
  <2>1. registered # 0 => registered \in Generations
    BY RegisteredFacts DEF PipelineInv
  <2>2. queue'[g].alive
    BY <1>1, <1>2, <1>3
  <2>3. Len(t) <= BufferSize
    <3>1. Len(c) <= BufferSize
      BY <1>4 DEF PipelineInv, LifeInv
    <3> QED
      BY <3>1, <1>4, <1>6, LenProperties, SizeAssumption
  <2>4. \A h \in Generations : Len(toCommit'[h]) <= BufferSize
    BY <2>3, <1>7 DEF PipelineInv, LifeInv
  <2>5. \A h \in Generations : /\ queue'[h].alive => h <= generation
                               /\ ~queue'[h].alive => queue'[h] = NewQueue /\ toCommit'[h] = <<>>
    BY <1>3, <1>7, <1>9, <2>2 DEF PipelineInv, LifeInv
  <2>6. registered # 0 => queue'[registered].alive
    BY <1>9, <2>1 DEF PipelineInv, LifeInv
  <2>7. \A w \in Workers :
          /\ worker[w].pc = "idle" <=> worker[w] = IdleWorker
          /\ worker[w].pc # "idle" => worker[w].task \in 1..nextSeq
          /\ worker[w].pc \in {"requeue", "commit"} =>
                worker[w].gen \in Generations /\ queue'[worker[w].gen].alive
    BY <1>9 DEF PipelineInv, LifeInv
  <2> QED
    BY <2>2, <2>4, <2>5, <2>6, <2>7 DEF LifeInv
<1>11. PageInv' /\ CountInv'
  BY <1>1, <1>2, <1>3 DEF PipelineInv, PageInv, CountInv
<1>12. HandledInv'
  BY <1>4, <1>6, <1>7 DEF PipelineInv, HandledInv
<1>13. n \in handled
  BY <1>4, <1>6 DEF PipelineInv, HandledInv
<1>14. FlightInv'
  <2> SUFFICES ASSUME NEW h \in Generations, Undisturbed(h)', NEW m \in Tasks
               PROVE  Balance(m, toProcess, worker, toCommit'[h], queue'[h].pending)
    BY DEF FlightInv
  <2>1. Undisturbed(h) /\ h = g
    BY <1>1, <1>9 DEF Undisturbed
  <2>2. Balance(m, toProcess, worker, c, q.pending)
    BY <1>1, <1>4, <2>1 DEF PipelineInv, FlightInv
  <2>3. Copies(m, c) = Copies(m, t) + One(n, m)
    BY <1>4, <1>5, TailCopies
  <2>4. /\ Copies(m, toProcess) \in Nat /\ Copies(m, t) \in Nat
        /\ Cardinality(Holders(m, worker)) \in Nat
    BY <1>6, CopiesAreNat, PlacesFinite DEF PipelineInv
  <2>5. m \in DOMAIN x.pending <=> m \in DOMAIN q.pending /\ m # n
    BY <1>2
  <2>6. queue'[h].pending = x.pending /\ toCommit'[h] = t
    BY <1>3, <1>7, <2>1
  <2>7. Copies(m, toProcess) + Cardinality(Holders(m, worker)) + Copies(m, c)
            = IF m \in DOMAIN q.pending THEN 1 ELSE 0
    BY <2>2 DEF Balance
  <2>8. Copies(m, toProcess) + Cardinality(Holders(m, worker)) + Copies(m, t)
            = IF m \in DOMAIN x.pending THEN 1 ELSE 0
    <3>1. CASE m = n
      <4>1. m \in DOMAIN q.pending /\ m \notin DOMAIN x.pending
        BY <2>5, <3>1, <1>1
      <4> QED
        BY <2>3, <2>4, <2>7, <3>1, <4>1, OneFacts
    <3>2. CASE m # n
      BY <2>3, <2>4, <2>5, <2>7, <3>2, OneFacts
    <3> QED
      BY <3>1, <3>2
  <2> QED
    BY <2>6, <2>8 DEF Balance
<1>16. DoneInv'
  <2> SUFFICES ASSUME NEW h \in Generations, NEW p \in AllPages(queue'[h]), NEW k \in rows, In(k, p)
               PROVE  k \in handled \cup late[h] \cup queue'[h].unsent \cup DOMAIN queue'[h].pending
    BY DEF DoneInv, DoneOf
  <2>1. CASE h # g
    BY <2>1, <1>3 DEF PipelineInv, DoneInv, DoneOf
  <2>2. CASE h = g
    BY <2>2, <1>1, <1>2, <1>3, <1>13 DEF PipelineInv, DoneInv, DoneOf
  <2> QED
    BY <2>1, <2>2
<1>17. CursorInv'
  <2> SUFFICES ASSUME registered # 0, NEW k \in rows \ (handled \cup late[registered]), k < queue'[registered].cursor
               PROVE  k \in queue'[registered].unsent \/ Flying(k)
    BY DEF CursorInv, Flying
  <2>1. registered \in Generations
    BY RegisteredFacts DEF PipelineInv
  <2>2. k < queue[registered].cursor
    BY <2>1, <1>1, <1>2, <1>3
  <2>3. k \in queue[registered].unsent \/ Flying(k)
    BY <2>2 DEF PipelineInv, CursorInv
  <2> QED
    BY <2>1, <2>3, <1>1, <1>2, <1>3
<1> QED
  BY <1>8, <1>10, <1>11, <1>12, <1>14, <1>16, <1>17 DEF PipelineInv

LEMMA ReceiveCompletedTaskInv ==
    ASSUME PipelineInv, NEW g \in Generations, ReceiveCompletedTask(g)
    PROVE  PipelineInv'
<1>1. PICK n \in DOMAIN queue[g].pending : n = Head(toCommit[g])
  BY DEF ReceiveCompletedTask
<1>2. PICK x : x = Received(queue[g], n)
  OBVIOUS
<1>3. /\ Selecting(g) /\ toCommit[g] # <<>>
      /\ queue' = [queue EXCEPT ![g] = x] /\ toCommit' = [toCommit EXCEPT ![g] = Tail(toCommit[g])]
      /\ UNCHANGED <<nextSeq, reserved, rows, generation, registered, toProcess, worker, handled, late>>
  BY <1>1, <1>2 DEF ReceiveCompletedTask, Received
<1> QED
  BY <1>1, <1>2, <1>3, ReceivedInv

-----------------------------------------------------------------------------
(***************************************************************************)
(* The workers.                                                            *)
(***************************************************************************)
LEMMA WorkerChanges ==
    ASSUME Typing, NEW w \in Workers, NEW x \in WorkerStates, worker' = [worker EXCEPT ![w] = x]
    PROVE  /\ worker' \in [Workers -> WorkerStates] /\ worker'[w] = x
           /\ \A v \in Workers \ {w} : worker'[v] = worker[v]
           /\ \A n : /\ Cardinality(Holders(n, worker')) \in Nat
                     /\ Cardinality(Holders(n, worker')) + One(worker[w].task, n)
                            = Cardinality(Holders(n, worker)) + One(x.task, n)
<1>1. PICK f \in [Workers -> WorkerStates] : f = worker
  BY DEF Typing
<1>2. PICK h : h = [f EXCEPT ![w] = x]
  OBVIOUS
<1>3. h \in [Workers -> WorkerStates] /\ h[w] = x /\ \A v \in Workers \ {w} : h[v] = f[v]
  BY <1>2
<1>4. \A n : Cardinality(Holders(n, h)) + One(f[w].task, n)
                 = Cardinality(Holders(n, f)) + One(x.task, n)
  BY <1>3, HoldersChange
<1>5. \A n : Cardinality(Holders(n, h)) \in Nat
  BY HoldersFinite
<1>6. worker' = h
  BY <1>1, <1>2
<1> QED
  BY <1>1, <1>3, <1>4, <1>5, <1>6

(* What a step of a worker leaves alone. *)
LEMMA WorkerFrame ==
    ASSUME PipelineInv, UNCHANGED <<nextSeq, queue, generation, registered>>
    PROVE  PageInv' /\ CountInv' /\ \A g \in Generations : Undisturbed(g)' <=> Undisturbed(g)
BY DEF PipelineInv, PageInv, CountInv, Undisturbed

LEMMA SomeQueueAlive ==
    ASSUME PipelineInv, toProcess # <<>> \/ \E w \in Workers : worker[w].pc # "idle"
    PROVE  \E g \in Generations : queue[g].alive
<1> SUFFICES ASSUME \A g \in Generations : ~queue[g].alive PROVE FALSE
  OBVIOUS
<1>1. toProcess = <<>> /\ \A w \in Workers : worker[w] = IdleWorker
  BY DEF PipelineInv, LifeInv
<1> QED
  BY <1>1, Constants

LEMMA TakeTaskInv ==
    ASSUME PipelineInv, NEW w \in Workers, TakeTask(w)
    PROVE  PipelineInv'
<1> USE DEF TakeTask
<1>1. toProcess \in Seq(1..nextSeq) /\ toProcess # <<>> /\ Typing
  BY DEF PipelineInv, Typing
<1>2. PICK n \in 1..nextSeq : n = Head(toProcess)
  BY <1>1, TailElements
<1>3. PICK S : S = 1..nextSeq
  OBVIOUS
<1>4. toProcess \in Seq(S) /\ toProcess' = Tail(toProcess)
  BY <1>1, <1>3
<1>5. /\ toProcess' \in Seq(S) /\ Len(toProcess') <= Len(toProcess)
      /\ Range(toProcess) = Range(toProcess') \cup {n}
      /\ \A m : Copies(m, toProcess) = Copies(m, toProcess') + One(n, m)
  <2>1. /\ Tail(toProcess) \in Seq(S) /\ Len(Tail(toProcess)) <= Len(toProcess)
        /\ Range(toProcess) = Range(Tail(toProcess)) \cup {Head(toProcess)}
    BY <1>1, <1>4, TailElements
  <2>2. \A m : Copies(m, toProcess) = Copies(m, Tail(toProcess)) + One(Head(toProcess), m)
    BY <1>1, <1>4, TailCopies
  <2> QED
    BY <1>2, <1>4, <2>1, <2>2
<1>6. n \in 0..MaxTasks /\ n \in Nat \ {0} /\ nextSeq \in Nat
  BY SizeAssumption DEF PipelineInv, Typing
<1>7. PICK x \in WorkerStates :
         /\ x = IF registered = 0 THEN IdleWorker ELSE [IdleWorker EXCEPT !.pc = "processing", !.task = n]
         /\ registered # 0 => x.pc = "processing" /\ x.task = n
         /\ registered = 0 => x = IdleWorker
  <2>1. [IdleWorker EXCEPT !.pc = "processing", !.task = n] \in WorkerStates
    BY <1>6, Constants DEF WorkerStates
  <2>2. [IdleWorker EXCEPT !.pc = "processing", !.task = n].pc = "processing"
        /\ [IdleWorker EXCEPT !.pc = "processing", !.task = n].task = n
    BY DEF IdleWorker
  <2> QED
    BY <2>1, <2>2, Constants
<1>8. worker' = [worker EXCEPT ![w] = x]
  BY <1>2, <1>7
<1>9. /\ worker' \in [Workers -> WorkerStates] /\ worker'[w] = x
      /\ \A v \in Workers \ {w} : worker'[v] = worker[v]
      /\ \A m : /\ Cardinality(Holders(m, worker')) \in Nat
                /\ Cardinality(Holders(m, worker')) + One(worker[w].task, m)
                            = Cardinality(Holders(m, worker)) + One(x.task, m)
  BY <1>1, <1>8, WorkerChanges
<1>10. worker[w] = IdleWorker /\ worker[w].task = 0
  BY Constants DEF PipelineInv, LifeInv
<1>11. Typing'
  <2>1. Len(toProcess') <= BufferSize
    BY <1>1, <1>4, <1>5, LenProperties, SizeAssumption DEF Typing
  <2>2. toProcess' \in Seq(1..nextSeq)
    BY <1>3, <1>5
  <2> QED
    BY <1>9, <2>1, <2>2 DEF PipelineInv, Typing
<1>12. LifeInv'
  <2>1. \E g \in Generations : queue[g].alive
    BY <1>1, SomeQueueAlive
  <2>2. /\ x.pc = "idle" <=> x = IdleWorker
        /\ x.pc # "idle" => x.task \in 1..nextSeq
        /\ x.pc \notin {"requeue", "commit"}
    BY <1>7, Constants
  <2> QED
    BY <2>1, <2>2, <1>9 DEF PipelineInv, LifeInv
<1>13. PageInv' /\ CountInv' /\ \A g \in Generations : Undisturbed(g)' <=> Undisturbed(g)
  BY WorkerFrame
<1>14. HandledInv'
  <2>1. x.pc \notin {"succeeded", "commit"}
    BY <1>7, Constants
  <2> QED
    BY <2>1, <1>9 DEF PipelineInv, HandledInv
<1>15. FlightInv'
  <2> SUFFICES ASSUME NEW g \in Generations, Undisturbed(g), NEW m \in Tasks
               PROVE  Balance(m, toProcess', worker', toCommit[g], queue[g].pending)
    BY <1>13 DEF FlightInv
  <2>1. registered # 0 /\ x.task = n
    BY <1>7, Constants DEF Undisturbed
  <2>2. Balance(m, toProcess, worker, toCommit[g], queue[g].pending)
    BY DEF PipelineInv, FlightInv
  <2>3. /\ Copies(m, toProcess) \in Nat /\ Copies(m, toCommit[g]) \in Nat
        /\ Cardinality(Holders(m, worker)) \in Nat /\ Copies(m, toProcess') \in Nat
    BY <1>1, <1>5, CopiesAreNat, PlacesFinite
  <2>4. Cardinality(Holders(m, worker')) = Cardinality(Holders(m, worker)) + One(n, m)
    <3>1. /\ Cardinality(Holders(m, worker')) \in Nat
          /\ Cardinality(Holders(m, worker')) + One(worker[w].task, m)
                 = Cardinality(Holders(m, worker)) + One(x.task, m)
      BY <1>9
    <3>2. worker[w].task # m
      BY <1>10, Constants
    <3> QED
      BY <2>1, <2>3, <3>1, <3>2, OneFacts
  <2>5. Copies(m, toProcess') + Cardinality(Holders(m, worker'))
            = Copies(m, toProcess) + Cardinality(Holders(m, worker))
    BY <2>3, <2>4, <1>5, OneFacts
  <2> QED
    BY <2>2, <2>5 DEF Balance
<1>16. DoneInv'
  BY DEF PipelineInv, DoneInv, DoneOf
<1>17. CursorInv'
  <2> SUFFICES ASSUME registered # 0, NEW k \in rows \ (handled \cup late[registered]), k < queue[registered].cursor
               PROVE  k \in queue[registered].unsent \/ Flying(k)'
    BY DEF CursorInv
  <2>1. k \in queue[registered].unsent \/ Flying(k)
    BY DEF PipelineInv, CursorInv
  <2>2. k # 0
    BY DEF PipelineInv, Typing
  <2>3. Flying(k) => Flying(k)'
    <3>1. \A v \in Workers : worker[v].task = k => worker'[v].task = k
      BY <1>9, <1>10, <2>2
    <3>2. k = n => worker'[w].task = k
      BY <1>7, <1>9
    <3> QED
      BY <3>1, <3>2, <1>5 DEF Flying
  <2> QED
    BY <2>1, <2>3
<1> QED
  BY <1>11, <1>12, <1>13, <1>14, <1>15, <1>16, <1>17 DEF PipelineInv

(* A step of a worker that keeps its task and touches no channel. *)
LEMMA KeepsTaskInv ==
    ASSUME PipelineInv, NEW w \in Workers, NEW x \in WorkerStates,
           worker' = [worker EXCEPT ![w] = x], worker[w].pc # "idle",
           x.task = worker[w].task, x.pc # "idle",
           x.pc \in {"requeue", "commit"} => x.gen \in Generations /\ queue[x.gen].alive,
           x.pc \in {"succeeded", "commit"} => x.task \in handled',
           rows' \subseteq rows, handled \subseteq handled', handled' \subseteq handled \cup {x.task},
           UNCHANGED <<nextSeq, reserved, queue, generation, registered, toProcess, toCommit, late>>
    PROVE  PipelineInv'
<1>1. /\ worker' \in [Workers -> WorkerStates] /\ worker'[w] = x
      /\ \A v \in Workers \ {w} : worker'[v] = worker[v]
      /\ \A m : /\ Cardinality(Holders(m, worker')) \in Nat
                /\ Cardinality(Holders(m, worker')) + One(worker[w].task, m)
                            = Cardinality(Holders(m, worker)) + One(x.task, m)
  BY WorkerChanges DEF PipelineInv
<1>2. worker[w].task \in 1..nextSeq
  BY DEF PipelineInv, LifeInv
<1>3. \A v \in Workers : worker'[v].task = worker[v].task
  BY <1>1
<1>4. Typing'
  BY <1>1, <1>2 DEF PipelineInv, Typing
<1>5. LifeInv'
  <2>1. \E g \in Generations : queue[g].alive
    BY SomeQueueAlive
  <2>2. x # IdleWorker
    BY Constants
  <2> QED
    BY <2>1, <2>2, <1>1, <1>2 DEF PipelineInv, LifeInv
<1>6. PageInv' /\ CountInv' /\ \A g \in Generations : Undisturbed(g)' <=> Undisturbed(g)
  BY WorkerFrame
<1>7. HandledInv'
  BY <1>1 DEF PipelineInv, HandledInv
<1>8. FlightInv'
  <2>1. \A m : Holders(m, worker') = Holders(m, worker)
    BY <1>3 DEF Holders
  <2> QED
    BY <1>6, <2>1 DEF PipelineInv, FlightInv, Balance
<1>9. DoneInv'
  BY DEF PipelineInv, DoneInv, DoneOf
<1>10. CursorInv'
  <2>1. \A k : Flying(k)' <=> Flying(k)
    BY <1>3 DEF Flying
  <2> QED
    BY <2>1 DEF PipelineInv, CursorInv
<1> QED
  BY <1>4, <1>5, <1>6, <1>7, <1>8, <1>9, <1>10 DEF PipelineInv

LEMMA ProcessImmediateTaskInv ==
    ASSUME PipelineInv, NEW w \in Workers, ProcessImmediateTask(w)
    PROVE  PipelineInv'
<1> USE DEF ProcessImmediateTask
<1>1. worker[w] \in WorkerStates
  BY DEF PipelineInv, Typing
<1>2. rows' \subseteq rows
  OBVIOUS
<1>3. CASE worker' = [worker EXCEPT ![w].pc = "succeeded"] /\ handled' = handled \cup {worker[w].task}
  <2>1. PICK x : x = [worker[w] EXCEPT !.pc = "succeeded"]
    OBVIOUS
  <2>2. x \in WorkerStates /\ x.pc = "succeeded" /\ x.task = worker[w].task
    BY <1>1, <2>1 DEF WorkerStates
  <2>3. worker' = [worker EXCEPT ![w] = x]
    BY <1>3, <2>1
  <2> QED
    BY <1>2, <1>3, <2>2, <2>3, KeepsTaskInv
<1>4. CASE worker' = [worker EXCEPT ![w].pc = "failed"] /\ handled' = handled
  <2>1. PICK x : x = [worker[w] EXCEPT !.pc = "failed"]
    OBVIOUS
  <2>2. x \in WorkerStates /\ x.pc = "failed" /\ x.task = worker[w].task
    BY <1>1, <2>1 DEF WorkerStates
  <2>3. worker' = [worker EXCEPT ![w] = x]
    BY <1>4, <2>1
  <2> QED
    BY <1>2, <1>4, <2>2, <2>3, KeepsTaskInv
<1> QED
  BY <1>3, <1>4

(* A worker that is rid of its task, one way or the other. *)
LEMMA GoesIdleInv ==
    ASSUME PipelineInv, NEW w \in Workers, worker[w].pc # "idle",
           worker' = [worker EXCEPT ![w] = IdleWorker],
           toProcess' \in Seq(1..nextSeq), Len(toProcess') <= BufferSize,
           Range(toProcess) \subseteq Range(toProcess'),
           toCommit' \in [Generations -> Seq(Tasks)],
           \A g \in Generations : /\ Len(toCommit'[g]) <= BufferSize
                                  /\ Range(toCommit'[g]) \subseteq handled
                                  /\ ~queue[g].alive => toCommit'[g] = <<>>,
           registered = 0 \/ worker[w].task \in handled \cup Range(toProcess'),
           \A g \in Generations : Undisturbed(g) => \A n \in Tasks :
               Copies(n, toProcess') + Copies(n, toCommit'[g])
                   = Copies(n, toProcess) + Copies(n, toCommit[g]) + One(worker[w].task, n),
           UNCHANGED <<nextSeq, reserved, rows, queue, generation, registered, handled, late>>
    PROVE  PipelineInv'
<1>1. /\ worker' \in [Workers -> WorkerStates] /\ worker'[w] = IdleWorker
      /\ \A v \in Workers \ {w} : worker'[v] = worker[v]
      /\ \A m : /\ Cardinality(Holders(m, worker')) \in Nat
                /\ Cardinality(Holders(m, worker')) + One(worker[w].task, m)
                            = Cardinality(Holders(m, worker)) + One(IdleWorker.task, m)
  BY WorkerChanges, Constants DEF PipelineInv
<1>2. Typing'
  BY <1>1 DEF PipelineInv, Typing
<1>3. LifeInv'
  <2>1. \E g \in Generations : queue[g].alive
    BY SomeQueueAlive
  <2> QED
    BY <2>1, <1>1, Constants DEF PipelineInv, LifeInv
<1>4. PageInv' /\ CountInv' /\ \A g \in Generations : Undisturbed(g)' <=> Undisturbed(g)
  BY WorkerFrame
<1>5. HandledInv'
  BY <1>1, Constants DEF PipelineInv, HandledInv
<1>6. FlightInv'
  <2> SUFFICES ASSUME NEW g \in Generations, Undisturbed(g), NEW n \in Tasks
               PROVE  Balance(n, toProcess', worker', toCommit'[g], queue[g].pending)
    BY <1>4 DEF FlightInv
  <2>1. Balance(n, toProcess, worker, toCommit[g], queue[g].pending)
    BY DEF PipelineInv, FlightInv
  <2>2. /\ Copies(n, toProcess) \in Nat /\ Copies(n, toCommit[g]) \in Nat
        /\ Cardinality(Holders(n, worker)) \in Nat
    BY CopiesAreNat DEF PipelineInv
  <2>3. Copies(n, toProcess') \in Nat /\ Copies(n, toCommit'[g]) \in Nat
    <3>1. Copies(n, toProcess') \in Nat
      BY PlacesFinite
    <3>2. toCommit'[g] \in Seq(Tasks)
      OBVIOUS
    <3> QED
      BY <3>1, <3>2, PlacesFinite
  <2>4. Cardinality(Holders(n, worker)) = Cardinality(Holders(n, worker')) + One(worker[w].task, n)
    <3>1. /\ Cardinality(Holders(n, worker')) \in Nat
          /\ Cardinality(Holders(n, worker')) + One(worker[w].task, n)
                 = Cardinality(Holders(n, worker)) + One(IdleWorker.task, n)
      BY <1>1
    <3>2. IdleWorker.task # n
      BY Constants
    <3> QED
      BY <2>2, <3>1, <3>2, OneFacts
  <2>5. Copies(n, toProcess') + Copies(n, toCommit'[g])
            = Copies(n, toProcess) + Copies(n, toCommit[g]) + One(worker[w].task, n)
    OBVIOUS
  <2>6. Cardinality(Holders(n, worker')) \in Nat
    BY <1>1
  <2>7. Copies(n, toProcess') + Cardinality(Holders(n, worker')) + Copies(n, toCommit'[g])
            = Copies(n, toProcess) + Cardinality(Holders(n, worker)) + Copies(n, toCommit[g])
    <3>1. PICK one \in Nat : one = One(worker[w].task, n)
      BY OneFacts
    <3>2. Cardinality(Holders(n, worker)) = Cardinality(Holders(n, worker')) + one
      BY <2>4, <3>1
    <3>3. Copies(n, toProcess') + Copies(n, toCommit'[g]) = Copies(n, toProcess) + Copies(n, toCommit[g]) + one
      BY <2>5, <3>1
    <3>4. PICK a \in Nat : a = Copies(n, toProcess)
      BY <2>2
    <3>5. PICK c \in Nat : c = Copies(n, toCommit[g])
      BY <2>2
    <3>6. PICK d \in Nat : d = Copies(n, toProcess')
      BY <2>3
    <3>7. PICK e \in Nat : e = Copies(n, toCommit'[g])
      BY <2>3
    <3>8. PICK k \in Nat : k = Cardinality(Holders(n, worker'))
      BY <2>6
    <3>9. d + e = a + c + one
      BY <3>3, <3>4, <3>5, <3>6, <3>7
    <3>10. d + k + e = a + (k + one) + c
      BY <3>9
    <3> QED
      BY <3>2, <3>4, <3>5, <3>6, <3>7, <3>8, <3>10
  <2> QED
    BY <2>1, <2>7 DEF Balance
<1>7. DoneInv'
  BY DEF PipelineInv, DoneInv, DoneOf
<1>8. CursorInv'
  <2> SUFFICES ASSUME registered # 0, NEW k \in rows \ (handled \cup late[registered]), k < queue[registered].cursor
               PROVE  k \in queue[registered].unsent \/ Flying(k)'
    BY DEF CursorInv
  <2>1. k \in queue[registered].unsent \/ Flying(k)
    BY DEF PipelineInv, CursorInv
  <2>2. Flying(k) => Flying(k)'
    BY <1>1 DEF Flying
  <2> QED
    BY <2>1, <2>2
<1> QED
  BY <1>2, <1>3, <1>4, <1>5, <1>6, <1>7, <1>8 DEF PipelineInv

LEMMA SameChannels ==
    ASSUME PipelineInv
    PROVE  /\ toProcess \in Seq(1..nextSeq) /\ Len(toProcess) <= BufferSize
           /\ toCommit \in [Generations -> Seq(Tasks)]
           /\ \A g \in Generations : /\ Len(toCommit[g]) <= BufferSize
                                     /\ Range(toCommit[g]) \subseteq handled
                                     /\ ~queue[g].alive => toCommit[g] = <<>>
BY DEF PipelineInv, Typing, LifeInv, HandledInv

LEMMA LookUpCommitChanInv ==
    ASSUME PipelineInv, NEW w \in Workers, LookUpCommitChan(w)
    PROVE  PipelineInv'
<1> USE DEF LookUpCommitChan
<1>1. worker[w] \in WorkerStates /\ worker[w].pc # "idle"
  BY DEF PipelineInv, Typing
<1>2. CASE registered = 0
  <2>1. worker' = [worker EXCEPT ![w] = IdleWorker]
    BY <1>2
  <2>2. \A g \in Generations : ~Undisturbed(g)
    BY <1>2, Constants DEF Undisturbed
  <2> QED
    BY <1>1, <1>2, <2>1, <2>2, SameChannels, GoesIdleInv
<1>3. CASE registered # 0
  <2>1. registered \in Generations /\ queue[registered].alive /\ registered \in 0..MaxGenerations
    BY <1>3, RegisteredFacts, SizeAssumption DEF PipelineInv, LifeInv, Generations
  <2>2. PICK x : x = [worker[w] EXCEPT !.gen = registered,
                                       !.pc = IF worker[w].pc = "failed" THEN "requeue" ELSE "commit"]
    OBVIOUS
  <2>3. /\ x \in WorkerStates /\ x.task = worker[w].task /\ x.gen = registered
        /\ x.pc = IF worker[w].pc = "failed" THEN "requeue" ELSE "commit"
    BY <1>1, <2>1, <2>2 DEF WorkerStates
  <2>4. x.pc = "commit" => worker[w].task \in handled
    BY <2>3 DEF PipelineInv, HandledInv
  <2>5. worker' = [worker EXCEPT ![w] = x]
    BY <1>3, <2>2
  <2>6. x.pc \in {"requeue", "commit"}
    BY <2>3
  <2> QED
    BY <1>1, <2>1, <2>3, <2>4, <2>5, <2>6, KeepsTaskInv
<1> QED
  BY <1>2, <1>3

LEMMA RequeueTaskInv ==
    ASSUME PipelineInv, NEW w \in Workers, RequeueTask(w)
    PROVE  PipelineInv'
<1> USE DEF RequeueTask
<1>1. PICK n \in 1..nextSeq : n = worker[w].task
  BY DEF PipelineInv, LifeInv
<1>2. PICK S : S = 1..nextSeq
  OBVIOUS
<1>3. toProcess \in Seq(S) /\ n \in S
  BY <1>2 DEF PipelineInv, Typing
<1>4. toProcess' = Append(toProcess, n)
  BY <1>1
<1>5. /\ toProcess' \in Seq(S) /\ Len(toProcess') = Len(toProcess) + 1
      /\ Range(toProcess') = Range(toProcess) \cup {n}
  <2>1. /\ Append(toProcess, n) \in Seq(S) /\ Len(Append(toProcess, n)) = Len(toProcess) + 1
        /\ Range(Append(toProcess, n)) = Range(toProcess) \cup {n}
    BY <1>3, AppendElements
  <2> QED
    BY <1>4, <2>1
<1>6. \A m : Copies(m, toProcess') = Copies(m, toProcess) + One(n, m)
  <2>1. \A m : Copies(m, Append(toProcess, n)) = Copies(m, toProcess) + One(n, m)
    BY <1>3, AppendCopies
  <2> QED
    BY <1>4, <2>1
<1>7. Len(toProcess') <= BufferSize
  BY <1>3, <1>5, LenProperties, SizeAssumption
<1>8. \A g \in Generations : \A m \in Tasks :
          Copies(m, toProcess') + Copies(m, toCommit'[g])
              = Copies(m, toProcess) + Copies(m, toCommit[g]) + One(worker[w].task, m)
  <2> SUFFICES ASSUME NEW g \in Generations, NEW m \in Tasks
               PROVE  Copies(m, toProcess') + Copies(m, toCommit[g])
                          = Copies(m, toProcess) + Copies(m, toCommit[g]) + One(worker[w].task, m)
    OBVIOUS
  <2>1. Copies(m, toProcess) \in Nat /\ Copies(m, toCommit[g]) \in Nat
    BY CopiesAreNat DEF PipelineInv
  <2> QED
    BY <2>1, <1>1, <1>6, OneFacts
<1>9. worker[w].pc # "idle" /\ worker[w].task \in Range(toProcess') /\ Range(toProcess) \subseteq Range(toProcess')
  BY <1>1, <1>5
<1>10. toProcess' \in Seq(1..nextSeq)
  BY <1>2, <1>5
<1>11. /\ toCommit' \in [Generations -> Seq(Tasks)]
       /\ \A g \in Generations : /\ Len(toCommit'[g]) <= BufferSize
                                 /\ Range(toCommit'[g]) \subseteq handled
                                 /\ ~queue[g].alive => toCommit'[g] = <<>>
  BY SameChannels
<1> QED
  BY <1>7, <1>8, <1>9, <1>10, <1>11, GoesIdleInv

LEMMA CommitTaskInv ==
    ASSUME PipelineInv, NEW w \in Workers, CommitTask(w)
    PROVE  PipelineInv'
<1> USE DEF CommitTask
<1>1. worker[w].pc = "commit" /\ worker[w].task \in handled /\ worker[w].task \in 1..nextSeq
  BY DEF PipelineInv, LifeInv, HandledInv
<1>2. PICK n \in Tasks : n = worker[w].task
  BY <1>1, SizeAssumption DEF PipelineInv, Typing, Tasks
<1>3. PICK g \in Generations : g = worker[w].gen /\ queue[g].alive
  BY <1>1 DEF PipelineInv, LifeInv
<1>4. PICK c \in Seq(Tasks) : c = toCommit[g] /\ Len(c) < BufferSize
  BY <1>3 DEF PipelineInv, Typing
<1>5. PICK d : d = Append(c, n)
  OBVIOUS
<1>6. d \in Seq(Tasks) /\ Len(d) = Len(c) + 1 /\ Range(d) = Range(c) \cup {n}
  BY <1>5, AppendElements
<1>7. \A m : Copies(m, d) = Copies(m, c) + One(n, m)
  BY <1>5, AppendCopies
<1>8. toCommit' = [toCommit EXCEPT ![g] = d]
  BY <1>2, <1>3, <1>4, <1>5
<1>9. /\ toCommit' \in [Generations -> Seq(Tasks)] /\ toCommit'[g] = d
      /\ \A h \in Generations \ {g} : toCommit'[h] = toCommit[h]
  BY <1>6, <1>8 DEF PipelineInv, Typing
<1>10. \A h \in Generations : /\ Len(toCommit'[h]) <= BufferSize
                              /\ Range(toCommit'[h]) \subseteq handled
                              /\ ~queue[h].alive => toCommit'[h] = <<>>
  <2>1. Len(d) <= BufferSize
    BY <1>4, <1>6, LenProperties, SizeAssumption
  <2>2. Range(d) \subseteq handled
    BY <1>1, <1>2, <1>4, <1>6, SameChannels
  <2> QED
    BY <2>1, <2>2, <1>3, <1>9, SameChannels
<1>11. ASSUME NEW h \in Generations, Undisturbed(h), NEW m \in Tasks
       PROVE  Copies(m, toProcess') + Copies(m, toCommit'[h])
                  = Copies(m, toProcess) + Copies(m, toCommit[h]) + One(worker[w].task, m)
  <2>1. h = g
    BY <1>3, <1>11 DEF Undisturbed
  <2>2. Copies(m, toProcess) \in Nat /\ Copies(m, c) \in Nat
    BY <1>4, CopiesAreNat DEF PipelineInv
  <2>3. Copies(m, toProcess) + Copies(m, d) = Copies(m, toProcess) + Copies(m, c) + One(n, m)
    BY <2>2, <1>7, OneFacts
  <2> QED
    BY <2>1, <2>3, <1>2, <1>4, <1>9
<1>12. /\ worker[w].pc # "idle" /\ worker' = [worker EXCEPT ![w] = IdleWorker]
       /\ toProcess' \in Seq(1..nextSeq) /\ Len(toProcess') <= BufferSize
       /\ Range(toProcess) \subseteq Range(toProcess')
       /\ UNCHANGED <<nextSeq, reserved, rows, queue, generation, registered, handled, late>>
  BY SameChannels
<1> QED
  BY <1>1, <1>9, <1>10, <1>11, <1>12, GoesIdleInv

-----------------------------------------------------------------------------
(***************************************************************************)
(* A shard comes.                                                          *)
(***************************************************************************)
LEMMA StartQueueInv ==
    ASSUME PipelineInv, StartQueue
    PROVE  PipelineInv'
<1> USE DEF StartQueue
<1>1. PICK g \in Generations : g = generation + 1
  OBVIOUS
<1>2. PICK x : x = [NewQueue EXCEPT !.armed = TRUE, !.alive = TRUE]
  OBVIOUS
<1>3. x \in QueueStates /\ SamePages(NewQueue, x) /\ x.alive
  BY <1>2, NewQueueFacts DEF QueueStates, SamePages
<1>4. PagesOf(x) /\ CountsOf(x)
  BY <1>3, NewQueueFacts, SamePagesFacts
<1>5. /\ x.cursor = 0 /\ x.unsent = {} /\ DOMAIN x.pending = {} /\ AllPages(x) = {} /\ x.pending = NewQueue.pending
  BY <1>3, NewQueueFacts DEF SamePages, AllPages
<1>6. /\ queue' \in [Generations -> QueueStates] /\ queue'[g] = x
      /\ \A h \in Generations \ {g} : queue'[h] = queue[h]
  BY <1>1, <1>2, <1>3, QueueChanges DEF PipelineInv
<1>7. /\ generation \in Nat /\ g \in Nat /\ generation' = g /\ registered' = g /\ g \in 0..MaxGenerations
      /\ nextSeq \in Nat /\ g # 0
  BY <1>1, SizeAssumption DEF PipelineInv, Typing, Generations
<1>8. Typing'
  BY <1>6, <1>7 DEF PipelineInv, Typing
<1>9. ~queue[g].alive /\ queue[g] = NewQueue /\ toCommit[g] = <<>>
  BY <1>1, <1>7 DEF PipelineInv, LifeInv
<1>10. LifeInv'
  <2>1. \A h \in Generations : queue[h].alive => h <= g
    BY <1>1, <1>7, Constants DEF PipelineInv, LifeInv
  <2>2. \A h \in Generations : queue[h].alive => queue'[h].alive
    BY <1>6, <1>9
  <2>3. \A h \in Generations : /\ queue'[h].alive => h <= g
                               /\ ~queue'[h].alive => queue'[h] = NewQueue /\ toCommit[h] = <<>>
    BY <1>3, <1>6, <1>7, <2>1 DEF PipelineInv, LifeInv
  <2> QED
    BY <1>3, <1>6, <1>7, <2>2, <2>3 DEF PipelineInv, LifeInv
<1>11. PageInv' /\ CountInv'
  <2>1. x.cursor <= nextSeq + 1
    BY <1>5, <1>7
  <2> QED
    BY <1>4, <1>6, <2>1 DEF PipelineInv, PageInv, CountInv
<1>12. HandledInv'
  BY DEF PipelineInv, HandledInv
<1>13. FlightInv'
  <2> SUFFICES ASSUME NEW h \in Generations, Undisturbed(h)', NEW n \in Tasks
               PROVE  Balance(n, toProcess, worker, toCommit[h], queue'[h].pending)
    BY DEF FlightInv
  <2>1. h = g /\ \A k \in Generations : ~queue[k].alive
    BY <1>6, <1>7, <1>9 DEF Undisturbed
  <2>2. toProcess = <<>> /\ \A w \in Workers : worker[w] = IdleWorker
    BY <2>1 DEF PipelineInv, LifeInv
  <2>3. Balance(n, <<>>, worker, <<>>, NewQueue.pending)
    BY <2>2, EmptyBalance
  <2> QED
    BY <2>1, <2>2, <2>3, <1>5, <1>6, <1>9
<1>15. DoneInv'
  <2> SUFFICES ASSUME NEW h \in Generations, NEW p \in AllPages(queue'[h]), NEW k \in rows, In(k, p)
               PROVE  k \in handled \cup late[h] \cup queue'[h].unsent \cup DOMAIN queue'[h].pending
    BY DEF DoneInv, DoneOf
  <2> QED
    BY <1>5, <1>6 DEF PipelineInv, DoneInv, DoneOf
<1>16. CursorInv'
  <2> SUFFICES ASSUME NEW k \in rows, k < queue'[g].cursor PROVE FALSE
    BY <1>7 DEF CursorInv
  <2>1. k \in Nat
    BY <1>7 DEF PipelineInv, Typing
  <2>2. queue'[g].cursor = 0
    BY <1>5, <1>6
  <2> QED
    BY <2>1, <2>2
<1> QED
  BY <1>8, <1>10, <1>11, <1>12, <1>13, <1>15, <1>16 DEF PipelineInv

-----------------------------------------------------------------------------
(***************************************************************************)
(* The theorems.                                                           *)
(***************************************************************************)
LEMMA StepInv == PipelineInv /\ [Next]_vars => PipelineInv'
<1> SUFFICES ASSUME PipelineInv, [Next]_vars PROVE PipelineInv'
  OBVIOUS
<1>1. CASE StoreStep
  BY <1>1, ReserveInv, CommitInsertInv, RollbackInsertInv DEF StoreStep
<1>2. ASSUME NEW g \in Generations, QueueStep(g) PROVE PipelineInv'
  <2>1. CASE Notify(g) \/ FireTimer(g)
    BY <2>1, NotifyInv, FireTimerInv
  <2>2. CASE Poll(g) \/ Dispatch(g)
    BY <2>2, PollInv, DispatchInv
  <2>3. CASE ReceiveCompletedTask(g)
    BY <2>3, ReceiveCompletedTaskInv
  <2>4. CASE ReceiveUnknownTask(g)
    BY <2>4, DiesInv DEF ReceiveUnknownTask
  <2> QED
    BY <1>2, <2>1, <2>2, <2>3, <2>4 DEF QueueStep
<1>3. ASSUME NEW w \in Workers, WorkerStep(w) PROVE PipelineInv'
  BY <1>3, TakeTaskInv, ProcessImmediateTaskInv, LookUpCommitChanInv, RequeueTaskInv, CommitTaskInv
     DEF WorkerStep
<1>4. CASE StartQueue \/ StopQueue
  BY <1>4, StartQueueInv, StopQueueInv
<1>5. CASE Crash
  BY <1>5, DiesInv DEF Crash
<1>6. CASE UNCHANGED vars
  <2>1. Typing' /\ LifeInv' /\ PageInv' /\ CountInv' /\ HandledInv'
    BY <1>6 DEF vars, PipelineInv, Typing, LifeInv, PageInv, CountInv, HandledInv
  <2>2. FlightInv' /\ DoneInv' /\ CursorInv'
    BY <1>6 DEF vars, PipelineInv, FlightInv, Undisturbed, DoneInv, DoneOf, CursorInv, Flying
  <2> QED
    BY <2>1, <2>2 DEF PipelineInv
<1> QED
  BY <1>1, <1>2, <1>3, <1>4, <1>5, <1>6 DEF Next

(* The inductive invariant of the queues, the channels and the workers of  *)
(* immediate_task_queue.go and immediate_task_concurrent_processor.go.     *)
THEOREM PipelineInvariant == Spec => []PipelineInv
<1>1. Init => PipelineInv
  BY InitInv
<1>2. PipelineInv /\ [Next]_vars => PipelineInv'
  BY StepInv
<1> QED
  BY <1>1, <1>2, PTL DEF Spec

(* The types hold: channels stay within their buffers, nothing names a row *)
(* that was never reserved or a queue that was never created.              *)
THEOREM TypeCorrect == Spec => []TypeOK
<1>1. PipelineInv => TypeOK
  <2> SUFFICES ASSUME PipelineInv PROVE TypeOK
    OBVIOUS
  <2>1. ASSUME NEW g \in Generations
        PROVE  /\ queue[g].cursor \in Nat
               /\ queue[g].unsent \subseteq 1..nextSeq
               /\ DOMAIN queue[g].pending \subseteq 1..nextSeq
               /\ DOMAIN queue[g].count \subseteq Pages
               /\ queue[g].completed \subseteq Pages
               /\ queue[g].armed \in BOOLEAN /\ queue[g].signal \in BOOLEAN /\ queue[g].alive \in BOOLEAN
    <3>1. queue[g] \in QueueStates
      BY DEF PipelineInv, Typing
    <3>2. \A n \in queue[g].unsent \cup DOMAIN queue[g].pending : n \in 1..nextSeq
      BY TasksOfQueue
    <3> QED
      BY <3>1, <3>2, QueueFields
  <2>2. ASSUME NEW g \in Generations PROVE toCommit[g] \in Seq(1..nextSeq) /\ Len(toCommit[g]) <= BufferSize
    <3>1. PICK s \in Seq(Tasks) : s = toCommit[g]
      BY DEF PipelineInv, Typing
    <3>2. Range(s) \subseteq 1..nextSeq
      BY <3>1 DEF PipelineInv, HandledInv, Typing
    <3>3. s \in Seq(1..nextSeq)
      BY <3>2, SeqOfElements
    <3> QED
      BY <3>1, <3>3 DEF PipelineInv, LifeInv
  <2>3. ASSUME NEW w \in Workers
        PROVE  /\ worker[w].pc \in {"idle", "processing", "succeeded", "failed", "requeue", "commit"}
               /\ worker[w].pc # "idle" => worker[w].task \in 1..nextSeq
               /\ worker[w].pc \in {"requeue", "commit"} => worker[w].gen \in 1..generation
    <3>1. worker[w] \in WorkerStates
      BY DEF PipelineInv, Typing
    <3>2. \A g \in Generations : queue[g].alive => g \in 1..generation
      BY SizeAssumption DEF PipelineInv, LifeInv, Typing, Generations
    <3> QED
      BY <3>1, <3>2 DEF PipelineInv, LifeInv, WorkerStates
  <2>4. registered \in 0..generation
    BY SizeAssumption DEF PipelineInv, Typing
  <2> QED
    BY <2>1, <2>2, <2>3, <2>4 DEF PipelineInv, Typing, TypeOK
<1> QED
  BY <1>1, PipelineInvariant, PTL

(* The pendingCount of a page is the number of its tasks that are still to *)
(* be sent or received back, whatever the order of the commits, and across *)
(* moves of the shard.                                                     *)
THEOREM PagesCountTheirTasks == Spec => []PageAccounting
<1>1. PipelineInv => PageAccounting
  <2> SUFFICES ASSUME PipelineInv, NEW g \in Generations, NEW p \in DOMAIN queue[g].count
               PROVE  queue[g].count[p] =
                            Cardinality({n \in DOMAIN queue[g].pending : queue[g].pending[n] = p})
                          + Cardinality({n \in queue[g].unsent : p.min <= n /\ n <= p.max})
    BY DEF PageAccounting
  <2>1. queue[g].count[p] = Cardinality(PendingOf(queue[g], p)) + Cardinality(UnsentOf(queue[g], p))
    BY DEF PipelineInv, CountInv, CountsOf
  <2> QED
    BY <2>1 DEF PendingOf, UnsentOf, In
<1> QED
  BY <1>1, PipelineInvariant, PTL

(* While a queue has the shard alone, a task that was sent and not         *)
(* received back is in one place exactly, with however many workers.       *)
THEOREM OnePlaceForEachTask == Spec => []PendingIsInFlight
<1>1. PipelineInv => PendingIsInFlight
  BY DEF PipelineInv, FlightInv, Balance, PendingIsInFlight, HeldBy, Holders
<1> QED
  BY <1>1, PipelineInvariant, PTL

(* Transactions may commit in any order.  A row below the cursor of the    *)
(* registered queue is handled, on its way to a worker, or became visible  *)
(* after the cursor had passed it: nothing is lost any other way.          *)
THEOREM CursorPassesNothingBy == Spec => []CursorForgetsNothing
<1>1. PipelineInv => CursorForgetsNothing
  <2> SUFFICES ASSUME PipelineInv, registered # 0,
                      NEW n \in rows \ (handled \cup late[registered]), n < queue[registered].cursor
               PROVE  n \in queue[registered].unsent \/ Copies(n, toProcess) + HeldBy(n) > 0
    BY DEF CursorForgetsNothing
  <2>1. n \in queue[registered].unsent \/ Flying(n)
    BY DEF PipelineInv, CursorInv
  <2>2. toProcess \in Seq(1..nextSeq)
    BY DEF PipelineInv, Typing
  <2>3. Copies(n, toProcess) \in Nat /\ (Copies(n, toProcess) > 0 <=> n \in Range(toProcess))
    BY <2>2, PlacesFinite
  <2>4. HeldBy(n) = Cardinality(Holders(n, worker))
    BY DEF HeldBy, Holders
  <2>5. HeldBy(n) \in Nat /\ (HeldBy(n) > 0 <=> \E w \in Workers : worker[w].task = n)
    BY <2>4, HoldersFinite
  <2>6. Flying(n) => Copies(n, toProcess) > 0 \/ HeldBy(n) > 0
    BY <2>3, <2>5 DEF Flying
  <2>7. Copies(n, toProcess) > 0 \/ HeldBy(n) > 0 => Copies(n, toProcess) + HeldBy(n) > 0
    BY <2>3, <2>5
  <2> QED
    BY <2>1, <2>6, <2>7
<1> QED
  BY <1>1, PipelineInvariant, PTL

(* In the range of a page that receiveCompletedTask has put among the      *)
(* completed ones, only rows that became visible after the page was read   *)
(* may still be to be processed.                                           *)
THEOREM CompletedPagesHoldNoWork == Spec => []CompletedPagesAreDone
<1>1. PipelineInv => CompletedPagesAreDone
  <2> SUFFICES ASSUME PipelineInv, NEW g \in Generations, NEW p \in queue[g].completed,
                      NEW n \in rows, p.min <= n, n <= p.max
               PROVE  n \in handled \cup late[g]
    BY DEF CompletedPagesAreDone
  <2>1. PICK q \in QueueStates : q = queue[g] /\ PagesOf(q)
    BY DEF PipelineInv, Typing, PageInv
  <2>2. n \in handled \cup late[g] \cup q.unsent \cup DOMAIN q.pending
    BY <2>1 DEF PipelineInv, DoneInv, DoneOf, AllPages, In
  <2>3. ASSUME n \in q.unsent \cup DOMAIN q.pending PROVE FALSE
    <3>1. PICK r \in DOMAIN q.count : In(n, r)
      BY <2>1, <2>3 DEF PagesOf
    <3>2. p \in AllPages(q) /\ r \in AllPages(q) /\ p # r
      BY <2>1 DEF PagesOf, AllPages
    <3>3. p.max < r.min \/ r.max < p.min
      BY <2>1, <3>2 DEF PagesOf
    <3>4. p.min \in Nat /\ p.max \in Nat /\ r.min \in Nat /\ r.max \in Nat /\ n \in Nat
      BY <3>2, QueueFields, PageFields, SizeAssumption DEF PipelineInv, Typing
    <3> QED
      BY <3>1, <3>3, <3>4 DEF In
  <2> QED
    BY <2>2, <2>3
<1> QED
  BY <1>1, PipelineInvariant, PTL
=============================================================================
