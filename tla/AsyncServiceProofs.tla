------------------------- MODULE AsyncServiceProofs -------------------------
(***************************************************************************)
(* Theorems about AsyncService, for every set of servers, shards,          *)
(* executions and waiters, every hash ring and every bound.                *)
(*                                                                         *)
(* The inductive invariant ServiceInv says, next to the types:             *)
(*   - BalanceInv: what a server holds is what its ring gives it, up to    *)
(*     what its ReBalance has yet to do;                                   *)
(*   - ObjectInv: the channels of different shards are different, and      *)
(*     callers wait on those of the shard of their execution;              *)
(*   - StopInv, WorkerInv: who is about to signal has a reason to;         *)
(*   - WaiterInv, SignalInv: a channel that is closed or will be has been  *)
(*     signalled for that reason, and numbers of channels are not reused.  *)
(***************************************************************************)
EXTENDS AsyncService, TLAPS, SequenceTheorems

-----------------------------------------------------------------------------
(* The types.                                                              *)

Steps == [op : {"add", "remove"}, maps : SUBSET Maps]
Calls == [exec : Execs \cup {NoExec}, object : Nat, chan : Nat]
Channels == [chan : [Execs -> Nat], made : [Execs -> Nat],
             waiting : [Execs -> SUBSET Waiters], cleanups : [Execs -> Nat]]
Works == [shards : SUBSET [shard : Shards, steps : Seq(Steps)], steps : Seq(Steps), shard : Shards \cup {0},
          procIds : SUBSET Execs, call : Calls]
WorkerStates == [pc : {"idle", "processing", "notifying", "closed", "signalling"}, exec : Execs \cup {NoExec},
                 closes : BOOLEAN, call : Calls, moved : BOOLEAN]
Answers == {"none", "NoResult", "Completed", "Terminated"}
WaiterStates == [pc : OnServer \cup {"new", "done"}, exec : Execs \cup {NoExec}, server : Servers \cup {NoServer},
                 object : Nat, chan : Nat, answer : Answers, expired : BOOLEAN, signalled : BOOLEAN]

Typing ==
    /\ up \subseteq Servers
    /\ ring \in [Servers -> SUBSET Servers]
    /\ held \in [Servers -> [Maps -> SUBSET Shards]]
    /\ work \in [Servers -> Works]
    /\ channels \in [Servers -> Seq(Channels)]
    /\ object \in [Servers -> [Shards -> Nat]]
    /\ status \in [Execs -> {"Running", "Completed", "Terminated"}]
    /\ worker \in [Servers -> WorkerStates]
    /\ waiter \in [Waiters -> WaiterStates]

-----------------------------------------------------------------------------
(* A ReBalance in progress.                                                *)

(* What is left of the steps of a shard after the first k of them, and the *)
(* maps that these changed.                                                *)
After(all, k) == [i \in 1..(Len(all) - k) |-> all[i + k]]
Changes(all, k, map) == \E i \in 1..k : map \in all[i].maps

Creating(x, maps, k) ==
    x.steps = After(CreateSteps, k) /\ \A map \in Maps : x.shard \in maps[map] <=> Changes(CreateSteps, k, map)
Stopping(x, maps, k) ==
    x.steps = After(StopSteps, k) /\ \A map \in Maps : x.shard \in maps[map] <=> ~Changes(StopSteps, k, map)

(* With what is left to do, the maps will agree with the target. *)
Outstanding(x, maps, target) ==
    /\ x.shards \subseteq [shard : Shards, steps : {CreateSteps, StopSteps}]
    /\ \A y \in x.shards :
          /\ \A z \in x.shards : y.shard = z.shard => y = z
          /\ x.steps # <<>> => y.shard # x.shard
          /\ y.steps = CreateSteps => y.shard \in target /\ \A map \in Maps : y.shard \notin maps[map]
          /\ y.steps = StopSteps => y.shard \notin target /\ \A map \in Maps : y.shard \in maps[map]
    /\ x.steps = <<>> => x = [NoWork EXCEPT !.shards = x.shards]
    /\ x.steps # <<>> =>
          /\ x.shard \in Shards
          /\ \/ x.shard \in target /\ \E k \in 0..4 : Creating(x, maps, k)
             \/ x.shard \notin target /\ \E k \in 0..4 : Stopping(x, maps, k)
    /\ \A h \in Shards : (x.steps # <<>> => h # x.shard) /\ (\A y \in x.shards : h # y.shard)
                            => \A map \in Maps : h \in maps[map] <=> h \in target

BalanceInv ==
    /\ \A s \in up : s \in ring[s] /\ Outstanding(work[s], held[s], Assigned(s, ring[s]))
    /\ \A s \in Servers \ up :
          /\ held[s] = [m \in Maps |-> {}] /\ work[s] = NoWork /\ worker[s] = IdleWorker
          /\ channels[s] = <<>> /\ object[s] = [h \in Shards |-> 0]

-----------------------------------------------------------------------------
(* The channels.                                                           *)

ObjectInv ==
    \A s \in Servers : \A h \in Shards :
        /\ object[s][h] \in 0..Len(channels[s])
        /\ h \in held[s]["channels"] => object[s][h] # 0
        /\ \A g \in Shards : object[s][h] # 0 /\ object[s][g] = object[s][h] => g = h
        /\ \A e \in Execs : object[s][h] # 0 /\ channels[s][object[s][h]].chan[e] # 0 => ShardOf[e] = h

(* The shard has been stopped, and is not about to be signalled again. *)
Stopped(s, h) ==
    /\ h \notin held[s]["signals"]
    /\ ~(/\ h \in held[s]["channels"] /\ work[s].steps # <<>> /\ work[s].shard = h
         /\ work[s].steps[1].op = "add")

(* A reason to close the channel of e in the channels with index o. *)
Ended(s, o, e) ==
    status[e] # "Running" \/ object[s][ShardOf[e]] # o \/ Stopped(s, ShardOf[e])

SignalInv ==
    \A s \in Servers : \A o \in DOMAIN channels[s] : \A e \in Execs :
        /\ channels[s][o].chan[e] <= channels[s][o].made[e]
        /\ channels[s][o].cleanups[e] > 0 => Ended(s, o, e)

StopInv ==
    \A s \in Servers : work[s].procIds # {} \/ work[s].call # NoCall =>
        /\ work[s].steps # <<>> /\ work[s].steps[1].op = "remove"
        /\ work[s].shard \notin held[s]["signals"] /\ work[s].shard \in held[s]["channels"]
        /\ \A e \in work[s].procIds : ShardOf[e] = work[s].shard
        /\ work[s].call # NoCall =>
              /\ work[s].call.exec \in Execs /\ ShardOf[work[s].call.exec] = work[s].shard
              /\ work[s].call.object = object[s][work[s].shard]

(* The state x of the worker of s. *)
WorkerOK(s, x) ==
    /\ x.pc # "idle" => x.exec \in Execs
    /\ x.pc \in {"idle", "processing"} => ~x.closes
    /\ x.pc \in {"processing", "notifying"} => x.moved \/ ShardOf[x.exec] \in held[s]["immediateProcessor"]
    /\ x.pc \in {"closed", "signalling"} \/ x.closes => status[x.exec] = "Completed"
    /\ x.pc = "signalling" => x.call.exec = x.exec /\ x.call.object \in DOMAIN channels[s]

WorkerInv == \A s \in Servers : WorkerOK(s, worker[s])

(* The state r of a call. *)
CallerOK(r) ==
    LET s == r.server
        o == r.object
        e == r.exec
        c == channels[s][o]
    IN  /\ r.pc \in OnServer => s \in Servers /\ e \in Execs
        /\ r.pc \in {"found", "added", "waiting"} =>
              o \in DOMAIN channels[s] /\ \A h \in Shards : object[s][h] = o => h = ShardOf[e]
        /\ r.pc \in {"added", "waiting"} =>
              /\ r.chan \in 1..c.made[e]
              /\ IsClosed(c, e, r.chan) => Ended(s, o, e)
              /\ r.signalled => IsClosed(c, e, r.chan) \/ c.cleanups[e] > 0
        /\ r.signalled => r.pc \in {"added", "waiting"}

AnswerOK(r) ==
    /\ r.pc # "done" => r.answer \in {"none", "NoResult"}
    /\ r.pc = "new" => r = NewWaiter
    /\ r.expired => r.answer = "NoResult"
    /\ r.answer \in {"Completed", "Terminated"} => r.exec \in Execs /\ status[r.exec] = r.answer

WaiterInv == \A w \in Waiters : CallerOK(waiter[w])
AnswerInv == \A w \in Waiters : AnswerOK(waiter[w])

ServiceInv ==
    Typing /\ BalanceInv /\ ObjectInv /\ SignalInv /\ StopInv /\ WorkerInv /\ WaiterInv /\ AnswerInv

-----------------------------------------------------------------------------
(* The steps of a ReBalance.                                               *)

(* What is left after k + 1 steps is the tail of what is left after k. *)
LEMMA AfterFacts ==
    ASSUME NEW all \in Seq(Steps), Len(all) = 5, NEW k \in 0..4
    PROVE  /\ After(all, 0) = all
           /\ After(all, k) # <<>>
           /\ Head(After(all, k)) = all[k + 1] /\ After(all, k)[1] = all[k + 1]
           /\ Tail(After(all, k)) = After(all, k + 1)
           /\ Tail(After(all, k)) = <<>> <=> k = 4
<1>1. After(all, 0) = all
  BY DEF After
<1>2. /\ After(all, k) \in Seq(Steps) /\ Len(After(all, k)) = 5 - k
      /\ After(all, k + 1) \in Seq(Steps) /\ Len(After(all, k + 1)) = 4 - k
  BY DEF After
<1>3. After(all, k) # <<>> /\ (After(all, k + 1) = <<>> <=> k = 4)
  BY <1>2, EmptySeq
<1>4. After(all, k)[1] = all[k + 1] /\ Head(After(all, k)) = all[k + 1]
  BY <1>2 DEF After
<1>5. Tail(After(all, k)) = After(all, k + 1)
  BY <1>2 DEF After
<1> QED
  BY <1>1, <1>3, <1>4, <1>5

(* The five steps of a creation add to every map once, the channels before *)
(* the signals and the immediate queue before the rest.                    *)
LEMMA CreateFacts ==
    /\ CreateSteps \in Seq(Steps) /\ Len(CreateSteps) = 5
    /\ \A i \in 1..5 : CreateSteps[i].op = "add" /\ CreateSteps[i].maps \subseteq Maps
    /\ \A map \in Maps : Changes(CreateSteps, 5, map)
    /\ \A i, j \in 1..5 : \A map \in CreateSteps[i].maps : map \in CreateSteps[j].maps => i = j
    /\ CreateSteps[1].maps = {"immediateNotifier", "immediateQueue"}
    /\ CreateSteps[2].maps = {"immediateProcessor"}
    /\ CreateSteps[3].maps = {"timerNotifier", "timerQueue", "timerProcessor"}
    /\ CreateSteps[4].maps = {"channels"} /\ CreateSteps[5].maps = {"signals"}
<1>1. CreateSteps \in Seq(Steps) /\ Len(CreateSteps) = 5
  BY DEF CreateSteps, Step, Steps, Maps
<1>2. /\ CreateSteps[1].maps = {"immediateNotifier", "immediateQueue"}
      /\ CreateSteps[2].maps = {"immediateProcessor"}
      /\ CreateSteps[3].maps = {"timerNotifier", "timerQueue", "timerProcessor"}
      /\ CreateSteps[4].maps = {"channels"} /\ CreateSteps[5].maps = {"signals"}
  BY DEF CreateSteps, Step
<1>3. \A i \in 1..5 : CreateSteps[i].op = "add" /\ CreateSteps[i].maps \subseteq Maps
  BY DEF CreateSteps, Step, Maps
<1>4. ASSUME NEW map \in Maps PROVE Changes(CreateSteps, 5, map)
  <2>1. \E i \in {1, 2, 3, 4, 5} : map \in CreateSteps[i].maps
    BY <1>2 DEF Maps
  <2> QED
    BY <2>1 DEF Changes
<1>5. ASSUME NEW i \in 1..5, NEW j \in 1..5, NEW map \in CreateSteps[i].maps, map \in CreateSteps[j].maps
      PROVE  i = j
  <2>1. i \in {1, 2, 3, 4, 5} /\ j \in {1, 2, 3, 4, 5}
    OBVIOUS
  <2> QED
    BY <2>1, <1>2, <1>5
<1> QED
  BY <1>1, <1>2, <1>3, <1>4, <1>5

(* The five steps of a stop remove from every map, the processor's first   *)
(* and the signals before the channels.                                    *)
LEMMA StopFacts ==
    /\ StopSteps \in Seq(Steps) /\ Len(StopSteps) = 5
    /\ \A i \in 1..5 : StopSteps[i].op = "remove" /\ StopSteps[i].maps \subseteq Maps
    /\ \A map \in Maps : Changes(StopSteps, 5, map)
    /\ StopSteps[1].maps = {"immediateProcessor"}
    /\ StopSteps[2].maps = {"immediateNotifier", "immediateQueue"}
    /\ StopSteps[3].maps = {"timerProcessor", "timerNotifier", "timerQueue"}
    /\ StopSteps[4] = Step("remove", {"signals"}) /\ StopSteps[5].maps = {"channels"}
<1>1. StopSteps \in Seq(Steps) /\ Len(StopSteps) = 5
  BY DEF StopSteps, Step, Steps, Maps
<1>2. /\ StopSteps[1].maps = {"immediateProcessor"}
      /\ StopSteps[2].maps = {"immediateNotifier", "immediateQueue"}
      /\ StopSteps[3].maps = {"timerProcessor", "timerNotifier", "timerQueue"}
      /\ StopSteps[4] = Step("remove", {"signals"}) /\ StopSteps[4].maps = {"signals"}
      /\ StopSteps[5].maps = {"channels"}
  BY DEF StopSteps, Step
<1>3. \A i \in 1..5 : StopSteps[i].op = "remove" /\ StopSteps[i].maps \subseteq Maps
  BY DEF StopSteps, Step, Maps
<1>4. ASSUME NEW map \in Maps PROVE Changes(StopSteps, 5, map)
  <2>1. \E i \in {1, 2, 3, 4, 5} : map \in StopSteps[i].maps
    BY <1>2 DEF Maps
  <2> QED
    BY <2>1 DEF Changes
<1> QED
  BY <1>1, <1>2, <1>3, <1>4

(* One more step changes the maps that it names. *)
LEMMA NextChange ==
    ASSUME NEW all, NEW k \in 0..4, NEW map
    PROVE  /\ ~Changes(all, 0, map)
           /\ Changes(all, k + 1, map) <=> Changes(all, k, map) \/ map \in all[k + 1].maps
<1>1. 1..(k + 1) = (1..k) \cup {k + 1}
  OBVIOUS
<1> QED
  BY <1>1 DEF Changes

(* The records of AsyncService have their types. *)
LEMMA RecordsTyped ==
    /\ NoCall \in Calls /\ NoWork \in Works /\ IdleWorker \in WorkerStates /\ NewWaiter \in WaiterStates
    /\ NewChannels(Execs) \in Channels
    /\ \A h \in Shards, maps \in SUBSET [shard : Shards, steps : Seq(Steps)], steps \in Seq(Steps) :
          [NoWork EXCEPT !.shards = maps, !.steps = steps, !.shard = h] \in Works
    /\ \A maps \in SUBSET [shard : Shards, steps : Seq(Steps)] : [NoWork EXCEPT !.shards = maps] \in Works
<1>1. NoCall \in Calls
  BY DEF NoCall, Calls
<1>2. NoWork \in Works
  BY <1>1 DEF NoWork, Works
<1>3. IdleWorker \in WorkerStates
  BY <1>1 DEF IdleWorker, WorkerStates
<1>4. NewWaiter \in WaiterStates
  BY DEF NewWaiter, WaiterStates, Answers
<1>5. NewChannels(Execs) \in Channels
  BY DEF NewChannels, Channels
<1> QED
  BY <1>1, <1>2, <1>3, <1>4, <1>5 DEF Works

(* A step of a ReBalance on what is left to do and on the maps. *)
StepMaps(x, maps) ==
    [map \in Maps |-> IF map \notin Head(x.steps).maps THEN maps[map]
                      ELSE IF Head(x.steps).op = "add" THEN maps[map] \cup {x.shard} ELSE maps[map] \ {x.shard}]
StepWork(x, calls) ==
    IF Tail(x.steps) = <<>> THEN [NoWork EXCEPT !.shards = x.shards]
    ELSE [x EXCEPT !.steps = Tail(x.steps), !.procIds = calls]

(* The next step of a shard, with the maps that the earlier ones changed. *)
LEMMA CurrentStep ==
    ASSUME NEW x \in Works, NEW maps \in [Maps -> SUBSET Shards], NEW target,
           Outstanding(x, maps, target), x.steps # <<>>
    PROVE  \E k \in 0..4 :
              \/ /\ x.shard \in target /\ Creating(x, maps, k) /\ Head(x.steps) = CreateSteps[k + 1]
                 /\ x.steps[1] = CreateSteps[k + 1] /\ Tail(x.steps) = After(CreateSteps, k + 1)
                 /\ Tail(x.steps) = <<>> <=> k = 4
              \/ /\ x.shard \notin target /\ Stopping(x, maps, k) /\ Head(x.steps) = StopSteps[k + 1]
                 /\ x.steps[1] = StopSteps[k + 1] /\ Tail(x.steps) = After(StopSteps, k + 1)
                 /\ Tail(x.steps) = <<>> <=> k = 4
<1>1. CASE x.shard \in target /\ \E k \in 0..4 : Creating(x, maps, k)
  <2>1. PICK k \in 0..4 : Creating(x, maps, k)
    BY <1>1
  <2>2. x.steps = After(CreateSteps, k)
    BY <2>1 DEF Creating
  <2>3. /\ Head(x.steps) = CreateSteps[k + 1] /\ x.steps[1] = CreateSteps[k + 1]
        /\ Tail(x.steps) = After(CreateSteps, k + 1)
        /\ Tail(x.steps) = <<>> <=> k = 4
    <3>1. CreateSteps \in Seq(Steps) /\ Len(CreateSteps) = 5
      BY CreateFacts
    <3>2. /\ Head(After(CreateSteps, k)) = CreateSteps[k + 1] /\ After(CreateSteps, k)[1] = CreateSteps[k + 1]
          /\ Tail(After(CreateSteps, k)) = After(CreateSteps, k + 1)
          /\ Tail(After(CreateSteps, k)) = <<>> <=> k = 4
      BY <3>1, AfterFacts
    <3> QED
      BY <3>2, <2>2
  <2> QED
    BY <1>1, <2>1, <2>3
<1>2. CASE x.shard \notin target /\ \E k \in 0..4 : Stopping(x, maps, k)
  <2>1. PICK k \in 0..4 : Stopping(x, maps, k)
    BY <1>2
  <2>2. x.steps = After(StopSteps, k)
    BY <2>1 DEF Stopping
  <2>3. /\ Head(x.steps) = StopSteps[k + 1] /\ x.steps[1] = StopSteps[k + 1]
        /\ Tail(x.steps) = After(StopSteps, k + 1)
        /\ Tail(x.steps) = <<>> <=> k = 4
    <3>1. StopSteps \in Seq(Steps) /\ Len(StopSteps) = 5
      BY StopFacts
    <3>2. /\ Head(After(StopSteps, k)) = StopSteps[k + 1] /\ After(StopSteps, k)[1] = StopSteps[k + 1]
          /\ Tail(After(StopSteps, k)) = After(StopSteps, k + 1)
          /\ Tail(After(StopSteps, k)) = <<>> <=> k = 4
      BY <3>1, AfterFacts
    <3> QED
      BY <3>2, <2>2
  <2> QED
    BY <1>2, <2>1, <2>3
<1> QED
  BY <1>1, <1>2 DEF Outstanding

(* A step does one of the things that are left to do. *)
LEMMA StepOutstanding ==
    ASSUME NEW x \in Works, NEW maps \in [Maps -> SUBSET Shards], NEW target, NEW calls \in SUBSET Execs,
           Outstanding(x, maps, target), x.steps # <<>>
    PROVE  Outstanding(StepWork(x, calls), StepMaps(x, maps), target)
<1> DEFINE y == StepWork(x, calls)
           new == StepMaps(x, maps)
           h == x.shard
<1>1. PICK k \in 0..4 :
              \/ /\ h \in target /\ Creating(x, maps, k) /\ Head(x.steps) = CreateSteps[k + 1]
                 /\ Tail(x.steps) = After(CreateSteps, k + 1)
                 /\ Tail(x.steps) = <<>> <=> k = 4
              \/ /\ h \notin target /\ Stopping(x, maps, k) /\ Head(x.steps) = StopSteps[k + 1]
                 /\ Tail(x.steps) = After(StopSteps, k + 1)
                 /\ Tail(x.steps) = <<>> <=> k = 4
  BY CurrentStep
<1>2. /\ y.shards = x.shards
      /\ y.steps = Tail(x.steps)
      /\ Tail(x.steps) = <<>> => y = [NoWork EXCEPT !.shards = x.shards]
      /\ Tail(x.steps) # <<>> => y.shard = h
  BY DEF StepWork, Works, NoWork
<1>3. \A g \in Shards : g # h => \A map \in Maps : g \in new[map] <=> g \in maps[map]
  BY DEF StepMaps
<1>4. h \in Shards /\ \A z \in x.shards : z.shard # h /\ z.shard \in Shards
  BY DEF Outstanding, Works
<1>5. CASE h \in target /\ Creating(x, maps, k) /\ Head(x.steps) = CreateSteps[k + 1]
  <2>1. \A map \in Maps : h \in new[map] <=> Changes(CreateSteps, k + 1, map)
    BY <1>5, CreateFacts, NextChange DEF Creating, StepMaps
  <2>2. Tail(x.steps) # <<>> => k + 1 \in 0..4 /\ Creating(y, new, k + 1)
    BY <1>1, <1>2, <1>5, <2>1 DEF Creating
  <2>3. Tail(x.steps) = <<>> => \A map \in Maps : h \in new[map]
    BY <1>1, <2>1, CreateFacts
  <2> HIDE DEF y, new
  <2>4. Outstanding(y, new, target)
    BY <1>2, <1>3, <1>4, <1>5, <2>2, <2>3 DEF Outstanding
  <2> QED
    BY <2>4 DEF y, new
<1>6. CASE h \notin target /\ Stopping(x, maps, k) /\ Head(x.steps) = StopSteps[k + 1]
  <2>1. \A map \in Maps : h \in new[map] <=> ~Changes(StopSteps, k + 1, map)
    BY <1>6, StopFacts, NextChange DEF Stopping, StepMaps
  <2>2. Tail(x.steps) # <<>> => k + 1 \in 0..4 /\ Stopping(y, new, k + 1)
    BY <1>1, <1>2, <1>6, <2>1 DEF Stopping
  <2>3. Tail(x.steps) = <<>> => \A map \in Maps : h \notin new[map]
    BY <1>1, <2>1, StopFacts
  <2> HIDE DEF y, new
  <2>4. Outstanding(y, new, target)
    BY <1>2, <1>3, <1>4, <1>6, <2>2, <2>3 DEF Outstanding
  <2> QED
    BY <2>4 DEF y, new
<1> QED
  BY <1>1, <1>5, <1>6

(* What ReBalance finds to do for a server that holds what its old ring    *)
(* gave it.                                                                *)
LEMMA ReBalanceOutstanding ==
    ASSUME Typing, NEW s \in Servers, NEW view, NEW old \in SUBSET Shards,
           \A map \in Maps : held[s][map] = old
    PROVE  /\ ReBalance(s, view) \in Works
           /\ Outstanding(ReBalance(s, view), held[s], Assigned(s, view))
           /\ ReBalance(s, view).steps = <<>> /\ ReBalance(s, view).procIds = {}
           /\ ReBalance(s, view).call = NoCall
<1> DEFINE target == Assigned(s, view)
           shards == {[shard |-> h, steps |-> StopSteps] : h \in old \ target}
                     \cup {[shard |-> h, steps |-> CreateSteps] : h \in target \ old}
<1>1. held[s]["immediateQueue"] = old
  BY DEF Maps
<1>2. ReBalance(s, view) = [NoWork EXCEPT !.shards = shards]
  BY <1>1 DEF ReBalance
<1>3. target \subseteq Shards
  BY DEF Assigned
<1> HIDE DEF target
<1>4. /\ shards \in SUBSET [shard : Shards, steps : {CreateSteps, StopSteps}]
      /\ CreateSteps \in Seq(Steps) /\ StopSteps \in Seq(Steps)
  BY <1>3, CreateFacts, StopFacts
<1>5. StopSteps # CreateSteps
  <2>1. StopSteps[1].op = "remove" /\ CreateSteps[1].op = "add"
    BY CreateFacts, StopFacts
  <2> QED
    BY <2>1
<1>6. \A y \in shards : /\ y.shard \in Shards
                        /\ y.steps = StopSteps <=> y.shard \in old \ target
                        /\ y.steps = CreateSteps <=> y.shard \in target \ old
                        /\ y.shard \in (old \ target) \cup (target \ old)
  BY <1>3, <1>5
<1>7. \A y, z \in shards : y.shard = z.shard => y = z
  BY <1>5
<1>8. ASSUME NEW h \in (old \ target) \cup (target \ old) PROVE \E y \in shards : y.shard = h
  <2>1. CASE h \in old \ target
    <3>1. [shard |-> h, steps |-> StopSteps] \in shards /\ [shard |-> h, steps |-> StopSteps].shard = h
      BY <2>1
    <3> QED
      BY <3>1
  <2>2. CASE h \in target \ old
    <3>1. [shard |-> h, steps |-> CreateSteps] \in shards /\ [shard |-> h, steps |-> CreateSteps].shard = h
      BY <2>2
    <3> QED
      BY <3>1
  <2> QED
    BY <2>1, <2>2
<1> HIDE DEF shards
<1>9. [NoWork EXCEPT !.shards = shards] \in Works
  BY <1>4, RecordsTyped
<1>10. Outstanding([NoWork EXCEPT !.shards = shards], held[s], target)
  BY <1>4, <1>6, <1>7, <1>8 DEF Outstanding, NoWork
<1> QED
  BY <1>2, <1>9, <1>10 DEF NoWork, target

(* The shard that is next is taken from those that are left to do. *)
LEMMA AtWorkOutstanding ==
    ASSUME Typing, BalanceInv, NEW s \in up, NEW x \in AtWork(s)
    PROVE  /\ x \in Works /\ x.steps # <<>>
           /\ Outstanding(x, held[s], Assigned(s, ring[s]))
           /\ work[s].steps # <<>> => x = work[s]
           /\ work[s].steps = <<>> =>
                 /\ x.procIds = {} /\ x.call = NoCall
                 /\ (\A map \in Maps : x.shard \in held[s][map]) \/ (\A map \in Maps : x.shard \notin held[s][map])
<1>1. /\ work[s] \in Works /\ Outstanding(work[s], held[s], Assigned(s, ring[s]))
      /\ held[s] \in [Maps -> SUBSET Shards]
  BY DEF Typing, BalanceInv
<1>2. CASE work[s].steps # <<>>
  BY <1>1, <1>2 DEF AtWork
<1>3. CASE work[s].steps = <<>>
  <2>1. PICK y \in work[s].shards :
           x = [NoWork EXCEPT !.shards = work[s].shards \ {y}, !.steps = y.steps, !.shard = y.shard]
    BY <1>3 DEF AtWork
  <2>2. y \in [shard : Shards, steps : {CreateSteps, StopSteps}]
    BY <1>1 DEF Outstanding
  <2>3. /\ CreateSteps \in Seq(Steps) /\ Len(CreateSteps) = 5
        /\ StopSteps \in Seq(Steps) /\ Len(StopSteps) = 5
    BY CreateFacts, StopFacts
  <2>4. /\ CreateSteps = After(CreateSteps, 0) /\ CreateSteps # <<>>
        /\ StopSteps = After(StopSteps, 0) /\ StopSteps # <<>>
    BY <2>3, AfterFacts
  <2>5. x \in Works
    <3>1. work[s].shards \ {y} \in SUBSET [shard : Shards, steps : Seq(Steps)] /\ y.steps \in Seq(Steps) /\ y.shard \in Shards
      BY <1>1, <2>2, <2>3 DEF Works
    <3> QED
      BY <3>1, <2>1, RecordsTyped
  <2>6. /\ x.shards = work[s].shards \ {y} /\ x.steps = y.steps /\ x.shard = y.shard
        /\ x.procIds = {} /\ x.call = NoCall
    BY <2>1 DEF NoWork
  <2>7. \A all, map : ~Changes(all, 0, map)
    BY DEF Changes
  <2>8. \/ x.shard \in Assigned(s, ring[s]) /\ Creating(x, held[s], 0)
        \/ x.shard \notin Assigned(s, ring[s]) /\ Stopping(x, held[s], 0)
    BY <1>1, <2>2, <2>4, <2>6, <2>7 DEF Outstanding, Creating, Stopping
  <2>9. x.steps # <<>>
    BY <2>2, <2>4, <2>6
  <2>10. Outstanding(x, held[s], Assigned(s, ring[s]))
    BY <1>1, <1>3, <2>2, <2>6, <2>8, <2>9 DEF Outstanding
  <2>11. (\A map \in Maps : x.shard \in held[s][map]) \/ (\A map \in Maps : x.shard \notin held[s][map])
    BY <2>7, <2>8 DEF Creating, Stopping
  <2> QED
    BY <1>3, <2>5, <2>6, <2>9, <2>10, <2>11
<1> QED
  BY <1>2, <1>3

(* The maps of a server in the middle of a ReBalance. *)
LEMMA HeldFacts ==
    ASSUME Typing, BalanceInv, NEW s \in Servers, NEW h \in Shards
    PROVE  /\ h \in held[s]["signals"] => h \in held[s]["channels"] /\ s \in up
           /\ h \in held[s]["immediateProcessor"] =>
                 /\ h \in held[s]["immediateNotifier"]
                 /\ h \in held[s]["timerNotifier"] \/ work[s].shard = h
           /\ \A map \in Maps : h \in held[s][map] => s \in up
<1> USE DEF Maps
<1>1. CASE s \notin up
  BY <1>1 DEF BalanceInv
<1>2. CASE s \in up
  <2> DEFINE W == work[s]
             target == Assigned(s, ring[s])
  <2>1. W \in Works /\ held[s] \in [Maps -> SUBSET Shards] /\ Outstanding(W, held[s], target)
    BY <1>2 DEF Typing, BalanceInv
  <2>2. CASE W.steps # <<>> /\ W.shard = h
    <3>1. PICK k \in 0..4 : Creating(W, held[s], k) \/ Stopping(W, held[s], k)
      BY <2>1, <2>2, CurrentStep
    <3>2. k \in {0, 1, 2, 3, 4}
      OBVIOUS
    <3>3. ASSUME NEW all, NEW map PROVE
             /\ ~Changes(all, 0, map) /\ (Changes(all, 1, map) <=> map \in all[1].maps)
             /\ Changes(all, 2, map) <=> map \in all[1].maps \/ map \in all[2].maps
             /\ Changes(all, 3, map) <=> map \in all[1].maps \/ map \in all[2].maps \/ map \in all[3].maps
             /\ Changes(all, 4, map) <=> map \in all[1].maps \/ map \in all[2].maps \/ map \in all[3].maps
                                         \/ map \in all[4].maps
      BY DEF Changes
    <3>4. CASE Creating(W, held[s], k)
      <4>1. \A map \in Maps : h \in held[s][map] <=> Changes(CreateSteps, k, map)
        BY <2>2, <3>4 DEF Creating
      <4> QED
        BY <1>2, <2>2, <3>2, <3>3, <4>1, CreateFacts
    <3>5. CASE Stopping(W, held[s], k)
      <4>1. \A map \in Maps : h \in held[s][map] <=> ~Changes(StopSteps, k, map)
        BY <2>2, <3>5 DEF Stopping
      <4>2. StopSteps[4].maps = {"signals"}
        BY StopFacts DEF Step
      <4> QED
        BY <1>2, <2>2, <3>2, <3>3, <4>1, <4>2, StopFacts
    <3> QED
      BY <3>1, <3>4, <3>5
  <2>3. CASE \E y \in W.shards : y.shard = h
    <3>1. (\A map \in Maps : h \in held[s][map]) \/ (\A map \in Maps : h \notin held[s][map])
      BY <2>1, <2>3 DEF Outstanding
    <3> QED
      BY <1>2, <3>1
  <2>4. CASE ~(W.steps # <<>> /\ W.shard = h) /\ ~(\E y \in W.shards : y.shard = h)
    <3>1. \A map \in Maps : h \in held[s][map] <=> h \in target
      BY <2>1, <2>4 DEF Outstanding
    <3> QED
      BY <1>2, <3>1
  <2> QED
    BY <2>2, <2>3, <2>4
<1> QED
  BY <1>1, <1>2

-----------------------------------------------------------------------------
(* Steps of a caller that leave the servers alone.                         *)

(* The parts of the invariant that are not about callers. *)
ServerInv == BalanceInv /\ ObjectInv /\ SignalInv /\ StopInv /\ WorkerInv

LEMMA ServerUnchanged ==
    ASSUME ServerInv, UNCHANGED <<up, ring, held, work, channels, object, status, worker>>
    PROVE  ServerInv'
<1>1. BalanceInv'
  BY DEF ServerInv, BalanceInv, Assigned
<1>2. ObjectInv'
  BY DEF ServerInv, ObjectInv
<1>3. SignalInv'
  BY DEF ServerInv, SignalInv, Ended, Stopped
<1>4. StopInv'
  BY DEF ServerInv, StopInv
<1>5. WorkerInv'
  BY DEF ServerInv, WorkerInv, WorkerOK
<1> QED
  BY <1>1, <1>2, <1>3, <1>4, <1>5 DEF ServerInv

(* What a caller may become while nothing else changes. *)
LEMMA CallerChanges ==
    ASSUME ServiceInv, UNCHANGED <<up, ring, held, work, channels, object, status, worker>>,
           NEW w \in Waiters, NEW r \in WaiterStates, waiter' = [waiter EXCEPT ![w] = r],
           CallerOK(r), AnswerOK(r)
    PROVE  ServiceInv'
<1>1. ServerInv'
  BY ServerUnchanged DEF ServiceInv, ServerInv
<1>2. waiter'[w] = r /\ \A v \in Waiters : v # w => waiter'[v] = waiter[v]
  BY DEF ServiceInv, Typing
<1>3. Typing'
  BY DEF ServiceInv, Typing
<1>4. WaiterInv'
  <2>1. CallerOK(r)'
    BY DEF CallerOK, Ended, Stopped, IsClosed
  <2>2. ASSUME NEW v \in Waiters, v # w PROVE CallerOK(waiter[v])'
    <3>1. PICK q \in WaiterStates : q = waiter[v] /\ CallerOK(q)
      BY DEF ServiceInv, Typing, WaiterInv
    <3>2. CallerOK(q)'
      BY <3>1 DEF CallerOK, Ended, Stopped, IsClosed
    <3> QED
      BY <1>2, <2>2, <3>1, <3>2
  <2> QED
    BY <1>2, <2>1, <2>2 DEF WaiterInv
<1>5. AnswerInv'
  BY <1>2 DEF ServiceInv, AnswerInv, AnswerOK
<1> QED
  BY <1>1, <1>3, <1>4, <1>5 DEF ServiceInv, ServerInv

(* An answer is the end of a call. *)
LEMMA AnsweredFacts ==
    ASSUME NEW x \in WaiterStates, NEW answer \in Answers
    PROVE  /\ Answered(x, answer) \in WaiterStates
           /\ Answered(x, answer).pc = "done" /\ Answered(x, answer).exec = x.exec
           /\ ~Answered(x, answer).expired /\ ~Answered(x, answer).signalled
           /\ Answered(x, answer).answer = IF x.expired THEN x.answer ELSE answer
BY DEF Answered, NewWaiter, WaiterStates, Answers

LEMMA ReadsStatusInv ==
    ASSUME ServiceInv, NEW w \in Waiters, NEW e \in Execs, ReadsStatus(w, e)
    PROVE  ServiceInv'
<1>1. CASE status[e] # "Running" /\ waiter' = [waiter EXCEPT ![w] = Answered([NewWaiter EXCEPT !.exec = e], status[e])]
  <2> DEFINE x == [NewWaiter EXCEPT !.exec = e]
             r == Answered(x, status[e])
  <2>1. x \in WaiterStates
    BY RecordsTyped DEF WaiterStates
  <2>2. x.expired = FALSE /\ x.exec = e
    BY DEF NewWaiter
  <2>6. status[e] \in Answers
    BY <1>1 DEF Answers, ServiceInv, Typing
  <2> HIDE DEF x
  <2>3. r \in WaiterStates /\ r.pc = "done" /\ r.exec = e /\ ~r.expired /\ ~r.signalled /\ r.answer = status[e]
    BY <2>1, <2>2, <2>6, AnsweredFacts
  <2>4. waiter' = [waiter EXCEPT ![w] = r]
    BY <1>1 DEF x
  <2> HIDE DEF r
  <2>5. CallerOK(r) /\ AnswerOK(r)
    BY <2>3 DEF CallerOK, AnswerOK, OnServer
  <2> QED
    BY <2>3, <2>4, <2>5, CallerChanges DEF ReadsStatus
<1>2. ASSUME NEW s \in Servers,
             waiter' = [waiter EXCEPT ![w] = [NewWaiter EXCEPT !.pc = "asking", !.exec = e, !.server = s]]
      PROVE  ServiceInv'
  <2> DEFINE r == [NewWaiter EXCEPT !.pc = "asking", !.exec = e, !.server = s]
  <2>1. /\ r \in WaiterStates /\ r.pc = "asking" /\ r.exec = e /\ r.server = s
        /\ r.answer = "none" /\ ~r.expired /\ ~r.signalled
    BY DEF NewWaiter, WaiterStates, OnServer, Answers
  <2>2. waiter' = [waiter EXCEPT ![w] = r]
    BY <1>2
  <2> HIDE DEF r
  <2>3. CallerOK(r) /\ AnswerOK(r)
    BY <2>1 DEF CallerOK, AnswerOK, OnServer
  <2> QED
    BY <2>1, <2>2, <2>3, CallerChanges DEF ReadsStatus
<1> QED
  BY <1>1, <1>2 DEF ReadsStatus

(* A call on a server, or one that got there, is about an execution. *)
LEMMA CallOf ==
    ASSUME ServiceInv, NEW w \in Waiters
    PROVE  /\ waiter[w] \in WaiterStates /\ CallerOK(waiter[w]) /\ AnswerOK(waiter[w])
           /\ waiter[w].pc \in OnServer =>
                 /\ waiter[w].server \in Servers /\ waiter[w].exec \in Execs
                 /\ ShardOf[waiter[w].exec] \in Shards
BY ShardAssumption DEF ServiceInv, Typing, WaiterInv, AnswerInv, CallerOK

(* A call that ends without a status. *)
LEMMA NoResultInv ==
    ASSUME ServiceInv, NEW w \in Waiters
    PROVE  LET r == Answered(waiter[w], "NoResult")
           IN  r \in WaiterStates /\ CallerOK(r) /\ (waiter[w].pc \in OnServer => AnswerOK(r))
<1> DEFINE r == Answered(waiter[w], "NoResult")
<1>1. /\ r \in WaiterStates /\ r.pc = "done" /\ r.exec = waiter[w].exec
      /\ ~r.expired /\ ~r.signalled /\ r.answer = IF waiter[w].expired THEN waiter[w].answer ELSE "NoResult"
  BY CallOf, AnsweredFacts DEF Answers
<1>2. AnswerOK(waiter[w])
  BY CallOf
<1> HIDE DEF r
<1>3. CallerOK(r) /\ AnswerOK(r)
  BY <1>1, <1>2 DEF CallerOK, AnswerOK, OnServer
<1> QED
  BY <1>1, <1>3 DEF r

(* The hash ring of a server that is up names a server. *)
LEMMA OwnerIsServer ==
    ASSUME ServiceInv, NEW s \in up, NEW h \in Shards
    PROVE  Owner[ring[s]][h] \in ring[s] /\ Owner[ring[s]][h] \in Servers
<1>1. ring[s] \in (SUBSET Servers) \ {{}}
  BY DEF ServiceInv, Typing, BalanceInv
<1> QED
  BY <1>1, RingAssumption

LEMMA HandlesInv ==
    ASSUME ServiceInv, NEW w \in Waiters, Handles(w)
    PROVE  ServiceInv'
<1> DEFINE s == waiter[w].server
           h == ShardOf[waiter[w].exec]
           r == Answered(waiter[w], "NoResult")
           passed == [waiter[w] EXCEPT !.server = Owner[ring[s]][h]]
           found == [waiter[w] EXCEPT !.pc = "found", !.object = object[s][h]]
<1>1. /\ waiter[w] \in WaiterStates /\ waiter[w].pc = "asking" /\ waiter[w].pc \in OnServer /\ s \in Servers
      /\ waiter[w].exec \in Execs /\ h \in Shards /\ ~waiter[w].signalled
      /\ AnswerOK(waiter[w])
  BY CallOf DEF Handles, OnServer, CallerOK
<1>2. CASE waiter' = [waiter EXCEPT ![w] = r]
  <2>1. r \in WaiterStates /\ CallerOK(r) /\ AnswerOK(r)
    BY <1>1, NoResultInv
  <2> QED
    BY <1>2, <2>1, CallerChanges DEF Handles
<1>3. CASE s \in up /\ waiter' = [waiter EXCEPT ![w] = passed]
  <2>1. Owner[ring[s]][h] \in Servers
    BY <1>1, <1>3, OwnerIsServer
  <2>2. /\ passed \in WaiterStates /\ passed.pc = "asking" /\ passed.exec = waiter[w].exec
        /\ passed.server \in Servers /\ passed.signalled = waiter[w].signalled
        /\ passed.answer = waiter[w].answer /\ passed.expired = waiter[w].expired
    BY <1>1, <2>1 DEF WaiterStates
  <2> HIDE DEF passed
  <2>3. CallerOK(passed) /\ AnswerOK(passed)
    BY <1>1, <2>2 DEF CallerOK, AnswerOK, OnServer
  <2> QED
    BY <1>3, <2>2, <2>3, CallerChanges DEF Handles
<1>4. CASE s \in up /\ h \in held[s]["channels"] /\ waiter' = [waiter EXCEPT ![w] = found]
  <2>1. object[s][h] \in DOMAIN channels[s] /\ \A g \in Shards : object[s][g] = object[s][h] => g = h
    BY <1>1, <1>4 DEF ServiceInv, ObjectInv, Typing
  <2>2. /\ found \in WaiterStates /\ found.pc = "found" /\ found.exec = waiter[w].exec
        /\ found.server = s /\ found.object = object[s][h] /\ found.signalled = waiter[w].signalled
        /\ found.answer = waiter[w].answer /\ found.expired = waiter[w].expired
    <3>1. object[s][h] \in Nat
      BY <1>1 DEF ServiceInv, Typing
    <3> QED
      BY <1>1, <3>1 DEF WaiterStates, OnServer
  <2> HIDE DEF found
  <2>3. CallerOK(found) /\ AnswerOK(found)
    BY <1>1, <2>1, <2>2 DEF CallerOK, AnswerOK, OnServer
  <2> QED
    BY <1>4, <2>2, <2>3, CallerChanges DEF Handles
<1> QED
  BY <1>2, <1>3, <1>4 DEF Handles

LEMMA EntersSelectInv ==
    ASSUME ServiceInv, NEW w \in Waiters, EntersSelect(w)
    PROVE  ServiceInv'
<1> DEFINE r == [waiter[w] EXCEPT !.pc = "waiting"]
<1>1. waiter[w] \in WaiterStates /\ waiter[w].pc = "added" /\ CallerOK(waiter[w]) /\ AnswerOK(waiter[w])
  BY CallOf DEF EntersSelect
<1>2. /\ r \in WaiterStates /\ r.pc = "waiting" /\ r.exec = waiter[w].exec
      /\ r.server = waiter[w].server /\ r.object = waiter[w].object /\ r.chan = waiter[w].chan
      /\ r.signalled = waiter[w].signalled /\ r.answer = waiter[w].answer /\ r.expired = waiter[w].expired
  BY <1>1 DEF WaiterStates, OnServer
<1>3. waiter' = [waiter EXCEPT ![w] = r]
  BY DEF EntersSelect
<1> HIDE DEF r
<1>4. CallerOK(r) /\ AnswerOK(r)
  BY <1>1, <1>2 DEF CallerOK, AnswerOK, OnServer
<1> QED
  BY <1>2, <1>3, <1>4, CallerChanges DEF EntersSelect

LEMMA ReceivesNothingInv ==
    ASSUME ServiceInv, NEW w \in Waiters, ReceivesNothing(w)
    PROVE  ServiceInv'
<1> DEFINE r == Answered(waiter[w], "NoResult")
<1>1. r \in WaiterStates /\ CallerOK(r) /\ AnswerOK(r)
  BY NoResultInv DEF ReceivesNothing, OnServer
<1>2. waiter' = [waiter EXCEPT ![w] = r]
  BY DEF ReceivesNothing
<1> HIDE DEF r
<1> QED
  BY <1>1, <1>2, CallerChanges DEF ReceivesNothing

LEMMA DeadlineInv ==
    ASSUME ServiceInv, NEW w \in Waiters, Deadline(w)
    PROVE  ServiceInv'
<1>1. CASE waiter[w].pc = "asking"
  <2> DEFINE r == Answered(waiter[w], "NoResult")
  <2>1. r \in WaiterStates /\ CallerOK(r) /\ AnswerOK(r)
    BY <1>1, NoResultInv DEF OnServer
  <2>2. waiter' = [waiter EXCEPT ![w] = r]
    BY <1>1 DEF Deadline
  <2> HIDE DEF r
  <2> QED
    BY <2>1, <2>2, CallerChanges DEF Deadline
<1>2. CASE waiter[w].pc = "waiting"
  <2> DEFINE r == [waiter[w] EXCEPT !.expired = TRUE, !.answer = "NoResult"]
  <2>1. waiter[w] \in WaiterStates /\ CallerOK(waiter[w]) /\ AnswerOK(waiter[w])
    BY CallOf
  <2>2. /\ r \in WaiterStates /\ r.pc = "waiting" /\ r.exec = waiter[w].exec
        /\ r.server = waiter[w].server /\ r.object = waiter[w].object /\ r.chan = waiter[w].chan
        /\ r.signalled = waiter[w].signalled /\ r.answer = "NoResult" /\ r.expired
    BY <1>2, <2>1 DEF WaiterStates, Answers
  <2>3. waiter' = [waiter EXCEPT ![w] = r]
    BY <1>2 DEF Deadline
  <2> HIDE DEF r
  <2>4. CallerOK(r) /\ AnswerOK(r)
    BY <1>2, <2>1, <2>2 DEF CallerOK, AnswerOK, OnServer
  <2> QED
    BY <2>2, <2>3, <2>4, CallerChanges DEF Deadline
<1> QED
  BY <1>1, <1>2 DEF Deadline

-----------------------------------------------------------------------------
(* Steps that change one set of channels.                                  *)

(* The reasons to close a channel, while nothing moves. *)
LEMMA EndedSame ==
    ASSUME UNCHANGED <<held, object, status>>,
           \A t \in Servers : work'[t].steps = work[t].steps /\ work'[t].shard = work[t].shard
    PROVE  \A t \in Servers : \A o, e : Ended(t, o, e)' <=> Ended(t, o, e)
BY DEF Ended, Stopped

(* An element of a sequence is replaced. *)
LEMMA ReplacedChannels ==
    ASSUME Typing, NEW s \in Servers, NEW o \in DOMAIN channels[s], NEW c \in Channels,
           channels' = [channels EXCEPT ![s][o] = c]
    PROVE  /\ channels' \in [Servers -> Seq(Channels)]
           /\ \A t \in Servers : DOMAIN channels'[t] = DOMAIN channels[t] /\ Len(channels'[t]) = Len(channels[t])
           /\ channels'[s][o] = c
           /\ \A t \in Servers : \A p \in Nat : ~(t = s /\ p = o) => channels'[t][p] = channels[t][p]
           /\ \A t \in Servers : t # s => channels'[t] = channels[t]
           /\ o \in Nat \ {0} /\ channels[s] # <<>>
<1>1. channels[s] \in Seq(Channels) /\ DOMAIN channels[s] = 1..Len(channels[s]) /\ Len(channels[s]) \in Nat
  BY DEF Typing
<1>2. channels'[s] = [channels[s] EXCEPT ![o] = c] /\ \A t \in Servers : t # s => channels'[t] = channels[t]
  BY DEF Typing
<1>3. channels'[s] \in Seq(Channels) /\ Len(channels'[s]) = Len(channels[s])
      /\ \A p \in DOMAIN channels[s] : channels'[s][p] = IF p = o THEN c ELSE channels[s][p]
  BY <1>1, <1>2, ExceptSeq
<1>4. DOMAIN channels'[s] = DOMAIN channels[s] /\ o \in Nat \ {0} /\ channels[s] # <<>>
  BY <1>1, <1>3
<1>5. channels' \in [Servers -> Seq(Channels)]
  BY <1>2, <1>3 DEF Typing
<1>6. \A p \in Nat : channels'[s][p] = IF p = o THEN c ELSE channels[s][p]
  BY <1>1, <1>2, <1>3
<1> QED
  BY <1>2, <1>3, <1>4, <1>5, <1>6

(* What channels may become: numbers are not reused, and one is closed or  *)
(* left to a clean-up only for a reason.                                   *)
Follows(c, old, s, o) ==
    /\ \A e \in Execs :
          /\ c.chan[e] <= c.made[e] /\ old.made[e] <= c.made[e]
          /\ c.cleanups[e] > 0 => Ended(s, o, e)
          /\ \A n \in 1..old.made[e] :
                /\ c.chan[e] # n => old.chan[e] # n \/ Ended(s, o, e)
                /\ old.chan[e] # n \/ old.cleanups[e] > 0 => c.chan[e] # n \/ c.cleanups[e] > 0
    /\ \A e \in Execs, h \in Shards : object[s][h] = o /\ c.chan[e] # 0 => ShardOf[e] = h

LEMMA ChannelChanges ==
    ASSUME ServiceInv, UNCHANGED <<held, object, status>>,
           \A t \in Servers : work'[t].steps = work[t].steps /\ work'[t].shard = work[t].shard,
           NEW s \in Servers, NEW o \in DOMAIN channels[s], NEW c \in Channels,
           channels' = [channels EXCEPT ![s][o] = c],
           Follows(c, channels[s][o], s, o)
    PROVE  /\ ObjectInv' /\ SignalInv'
           /\ \A r \in WaiterStates : CallerOK(r) => CallerOK(r)'
<1>1. Typing
  BY DEF ServiceInv
<1>2. /\ \A t \in Servers : DOMAIN channels'[t] = DOMAIN channels[t] /\ Len(channels'[t]) = Len(channels[t])
      /\ \A t \in Servers : \A p \in Nat : ~(t = s /\ p = o) => channels'[t][p] = channels[t][p]
      /\ channels'[s][o] = c /\ o \in Nat \ {0}
  <2>1. \A t \in Servers : \A p \in Nat : ~(t = s /\ p = o) => channels'[t][p] = channels[t][p]
    BY <1>1, ReplacedChannels, Zenon
  <2>4. channels'[s][o] = c
    BY <1>1, ReplacedChannels, Zenon
  <2>2. \A t \in Servers : DOMAIN channels'[t] = DOMAIN channels[t] /\ Len(channels'[t]) = Len(channels[t])
    BY <1>1, ReplacedChannels, Zenon
  <2>3. o \in Nat \ {0}
    BY <1>1, ReplacedChannels, Zenon
  <2> QED
    BY <2>1, <2>2, <2>3, <2>4
<1>3. \A t \in Servers : \A p, e : Ended(t, p, e)' <=> Ended(t, p, e)
  BY EndedSame
<1>4. ObjectInv'
  <2> SUFFICES ASSUME NEW t \in Servers, NEW h \in Shards PROVE ObjectInv!(t)!(h)'
    BY DEF ObjectInv
  <2>1. ObjectInv!(t)!(h) /\ object[t][h] \in Nat
    BY <1>1 DEF ServiceInv, ObjectInv, Typing
  <2> QED
    BY <1>2, <2>1 DEF Follows
<1>5. SignalInv'
  <2> SUFFICES ASSUME NEW t \in Servers, NEW p \in DOMAIN channels[t], NEW e \in Execs
               PROVE  /\ channels'[t][p].chan[e] <= channels'[t][p].made[e]
                      /\ channels'[t][p].cleanups[e] > 0 => Ended(t, p, e)
    BY <1>2, <1>3 DEF SignalInv
  <2>1. /\ channels[t][p].chan[e] <= channels[t][p].made[e]
        /\ channels[t][p].cleanups[e] > 0 => Ended(t, p, e)
    BY DEF ServiceInv, SignalInv
  <2>2. p \in Nat
    BY <1>1 DEF Typing
  <2> QED
    BY <1>2, <2>1, <2>2 DEF Follows
<1>6. ASSUME NEW r \in WaiterStates, CallerOK(r) PROVE CallerOK(r)'
  <2>1. /\ r.pc \in OnServer => r.server \in Servers /\ r.exec \in Execs
        /\ r.object \in Nat /\ r.chan \in Nat
    BY <1>6 DEF CallerOK, WaiterStates
  <2>2. CASE r.pc \in {"found", "added", "waiting"}
    <3>1. r.pc \in OnServer
      BY <2>2 DEF OnServer
    <3>2. CASE r.server = s /\ r.object = o
      <4>1. channels'[s][o] = c /\ o \in DOMAIN channels'[s]
        BY <1>2
      <4>2. channels[s][o] \in Channels
        BY <1>1 DEF Typing
      <4> QED
        BY <1>3, <1>6, <2>1, <3>1, <3>2, <4>1, <4>2 DEF CallerOK, IsClosed, Follows, Channels
    <3>3. CASE ~(r.server = s /\ r.object = o)
      <4>1. channels'[r.server][r.object] = channels[r.server][r.object]
            /\ DOMAIN channels'[r.server] = DOMAIN channels[r.server]
        BY <1>2, <2>1, <3>1, <3>3
      <4> QED
        BY <1>3, <1>6, <2>1, <3>1, <4>1 DEF CallerOK, IsClosed
    <3> QED
      BY <3>2, <3>3
  <2>3. CASE r.pc \notin {"found", "added", "waiting"}
    BY <1>6, <2>3 DEF CallerOK
  <2> QED
    BY <2>2, <2>3
<1> QED
  BY <1>4, <1>5, <1>6

(* What a server holds and has to do, while nothing moves. *)
LEMMA BalanceKept ==
    ASSUME ServiceInv, UNCHANGED <<up, ring, held, object>>,
           \A t \in Servers \ up : work'[t] = work[t] /\ worker'[t] = worker[t] /\ channels'[t] = channels[t],
           \A t \in up : \/ work'[t] = work[t]
                         \/ /\ work[t].steps # <<>> /\ work'[t].steps = work[t].steps
                            /\ work'[t].shard = work[t].shard /\ work'[t].shards = work[t].shards
    PROVE  BalanceInv'
<1>1. ASSUME NEW t \in up PROVE Outstanding(work'[t], held[t], Assigned(t, ring[t]))
  <2>1. Outstanding(work[t], held[t], Assigned(t, ring[t]))
    BY DEF ServiceInv, BalanceInv
  <2>2. CASE /\ work[t].steps # <<>> /\ work'[t].steps = work[t].steps
             /\ work'[t].shard = work[t].shard /\ work'[t].shards = work[t].shards
    BY <2>1, <2>2 DEF Outstanding, Creating, Stopping
  <2> QED
    BY <2>1, <2>2
<1>2. \A t \in up : Assigned(t, ring[t])' = Assigned(t, ring[t])
  BY DEF Assigned
<1> QED
  BY <1>1, <1>2 DEF ServiceInv, BalanceInv

(* Only servers that are up have channels or work to do. *)
LEMMA DownServers ==
    ASSUME ServiceInv, NEW s \in Servers
    PROVE  /\ channels[s] # <<>> => s \in up
           /\ worker[s].pc # "idle" => s \in up
           /\ work[s] # NoWork => s \in up
BY DEF ServiceInv, BalanceInv, IdleWorker

(* The calls that Stop has yet to make or is in, while nothing moves. *)
LEMMA StopKept ==
    ASSUME ServiceInv, UNCHANGED <<held, object, work>>
    PROVE  StopInv'
BY DEF ServiceInv, StopInv

(* The operations on channels, by field. *)
LEMMA ChannelFields ==
    ASSUME NEW c \in Channels
    PROVE  /\ c.chan \in [Execs -> Nat] /\ c.made \in [Execs -> Nat] /\ c.waiting \in [Execs -> SUBSET Waiters]
           /\ c.cleanups \in [Execs -> Nat]
BY DEF Channels

LEMMA CleanupFacts ==
    ASSUME NEW c \in Channels, NEW e \in Execs, c.cleanups[e] > 0
    PROVE  /\ Cleanup(c, e) \in Channels /\ Cleanup(c, e).made = c.made
           /\ Cleanup(c, e).chan = [c.chan EXCEPT ![e] = 0]
           /\ Cleanup(c, e).cleanups = [c.cleanups EXCEPT ![e] = c.cleanups[e] - 1]
<1>1. PICK n \in Nat : n = c.cleanups[e] - 1
  BY ChannelFields
<1>2. PICK f \in [Execs -> Nat], g \in [Execs -> SUBSET Waiters], h \in [Execs -> Nat] :
         /\ f = [c.chan EXCEPT ![e] = 0] /\ g = [c.waiting EXCEPT ![e] = {}]
         /\ h = [c.cleanups EXCEPT ![e] = n]
  BY ChannelFields
<1>3. Cleanup(c, e) = [c EXCEPT !.chan = f, !.waiting = g, !.cleanups = h]
  BY <1>1, <1>2 DEF Cleanup, Channels
<1> QED
  BY <1>1, <1>2, <1>3 DEF Channels

LEMMA SignalledFacts ==
    ASSUME NEW c \in Channels, NEW e \in Execs
    PROVE  /\ Signalled(c, e) \in Channels /\ Signalled(c, e).made = c.made /\ Signalled(c, e).chan = c.chan
           /\ Signalled(c, e).cleanups = [c.cleanups EXCEPT ![e] = c.cleanups[e] + 1]
<1>1. PICK n \in Nat : n = c.cleanups[e] + 1
  BY ChannelFields
<1>2. PICK g \in [Execs -> SUBSET Waiters], h \in [Execs -> Nat] :
         g = [c.waiting EXCEPT ![e] = {}] /\ h = [c.cleanups EXCEPT ![e] = n]
  BY ChannelFields
<1>3. Signalled(c, e) = [c EXCEPT !.waiting = g, !.cleanups = h]
  BY <1>1, <1>2 DEF Signalled, Channels
<1> QED
  BY <1>1, <1>2, <1>3 DEF Channels

LEMMA TerminateFacts ==
    ASSUME NEW c \in Channels, NEW e \in Execs, NEW gone
    PROVE  /\ TerminateWaiting(c, e, gone) \in Channels /\ TerminateWaiting(c, e, gone).made = c.made
           /\ TerminateWaiting(c, e, gone).chan = c.chan /\ TerminateWaiting(c, e, gone).cleanups = c.cleanups
BY DEF TerminateWaiting, Channels

LEMMA AddFacts ==
    ASSUME NEW c \in Channels, NEW e \in Execs, NEW w \in Waiters
    PROVE  /\ Add(c, e, w) \in Channels /\ Add(c, e, w).cleanups = c.cleanups
           /\ c.chan[e] # 0 => Add(c, e, w).chan = c.chan /\ Add(c, e, w).made = c.made
           /\ c.chan[e] = 0 => /\ Add(c, e, w).chan = [c.chan EXCEPT ![e] = c.made[e] + 1]
                               /\ Add(c, e, w).made = [c.made EXCEPT ![e] = c.made[e] + 1]
<1>1. CASE c.chan[e] # 0
  BY <1>1 DEF Add, Channels
<1>2. CASE c.chan[e] = 0
  <2>1. PICK n \in Nat : n = c.made[e] + 1
    BY ChannelFields
  <2>2. PICK f \in [Execs -> Nat], g \in [Execs -> SUBSET Waiters], h \in [Execs -> Nat] :
           /\ f = [c.chan EXCEPT ![e] = n] /\ g = [c.waiting EXCEPT ![e] = c.waiting[e] \cup {w}]
           /\ h = [c.made EXCEPT ![e] = n]
    BY ChannelFields
  <2>3. Add(c, e, w) = [c EXCEPT !.chan = f, !.made = h, !.waiting = g]
    BY <1>2, <2>1, <2>2 DEF Add, Channels
  <2> QED
    BY <1>2, <2>1, <2>2, <2>3 DEF Channels
<1> QED
  BY <1>1, <1>2

(* The channels of a server that is up. *)
LEMMA OldChannels ==
    ASSUME ServiceInv, NEW s \in Servers, NEW o \in DOMAIN channels[s]
    PROVE  /\ channels[s][o] \in Channels /\ o \in Nat \ {0} /\ s \in up
           /\ \A f \in Execs : /\ channels[s][o].chan[f] <= channels[s][o].made[f]
                               /\ channels[s][o].cleanups[f] > 0 => Ended(s, o, f)
           /\ \A f \in Execs, h \in Shards : object[s][h] = o /\ channels[s][o].chan[f] # 0 => ShardOf[f] = h
<1>1. channels[s] \in Seq(Channels)
  BY DEF ServiceInv, Typing
<1>2. o \in 1..Len(channels[s]) /\ channels[s] # <<>>
  BY <1>1
<1>3. channels[s][o] \in Channels /\ o \in Nat \ {0}
  BY <1>1, <1>2
<1>4. s \in up
  BY <1>2, DownServers
<1>5. \A f \in Execs : /\ channels[s][o].chan[f] <= channels[s][o].made[f]
                       /\ channels[s][o].cleanups[f] > 0 => Ended(s, o, f)
  BY DEF ServiceInv, SignalInv
<1>6. \A f \in Execs, h \in Shards : object[s][h] = o /\ channels[s][o].chan[f] # 0 => ShardOf[f] = h
  BY <1>3 DEF ServiceInv, ObjectInv
<1> QED
  BY <1>3, <1>4, <1>5, <1>6

(* A step that changes one set of channels and nothing of the servers.     *)
LEMMA ChannelStep ==
    ASSUME ServiceInv, UNCHANGED <<up, ring, held, work, object, status, worker>>,
           NEW s \in Servers, NEW o \in DOMAIN channels[s], NEW c \in Channels,
           channels' = [channels EXCEPT ![s][o] = c],
           Follows(c, channels[s][o], s, o)
    PROVE  /\ channels' \in [Servers -> Seq(Channels)] /\ ServerInv'
           /\ \A r \in WaiterStates : CallerOK(r) => CallerOK(r)'
<1>1. ObjectInv' /\ SignalInv' /\ \A r \in WaiterStates : CallerOK(r) => CallerOK(r)'
  BY ChannelChanges
<1>2. Typing
  BY DEF ServiceInv
<1>3. channels' \in [Servers -> Seq(Channels)]
  BY <1>2, ReplacedChannels, Zenon
<1>4. \A t \in Servers : t # s => channels'[t] = channels[t]
  BY <1>2, ReplacedChannels, Zenon
<1>5. \A t \in Servers : DOMAIN channels'[t] = DOMAIN channels[t] /\ Len(channels'[t]) = Len(channels[t])
  BY <1>2, ReplacedChannels, Zenon
<1>6. s \in up
  BY OldChannels
<1>7. BalanceInv'
  BY <1>4, <1>6, BalanceKept
<1>8. StopInv'
  BY StopKept
<1>9. WorkerInv'
  BY <1>5 DEF ServiceInv, WorkerInv, WorkerOK
<1> QED
  BY <1>1, <1>3, <1>7, <1>8, <1>9 DEF ServerInv

LEMMA CleansUpInv ==
    ASSUME ServiceInv, NEW s \in Servers, NEW e \in Execs, NEW o \in DOMAIN channels[s], CleansUp(s, o, e)
    PROVE  ServiceInv'
<1> DEFINE old == channels[s][o]
           c == Cleanup(old, e)
<1>1. /\ old \in Channels
      /\ \A f \in Execs : old.chan[f] <= old.made[f] /\ (old.cleanups[f] > 0 => Ended(s, o, f))
      /\ \A f \in Execs, h \in Shards : object[s][h] = o /\ old.chan[f] # 0 => ShardOf[f] = h
  BY OldChannels
<1>2. old.cleanups[e] > 0 /\ channels' = [channels EXCEPT ![s][o] = c]
  BY DEF CleansUp
<1>3. /\ c \in Channels /\ c.chan = [old.chan EXCEPT ![e] = 0] /\ c.made = old.made
      /\ c.cleanups = [old.cleanups EXCEPT ![e] = old.cleanups[e] - 1]
  BY <1>1, <1>2, CleanupFacts
<1> HIDE DEF c
<1>4. Follows(c, old, s, o)
  BY <1>1, <1>2, <1>3 DEF Follows, Channels
<1>5. /\ channels' \in [Servers -> Seq(Channels)] /\ ServerInv'
      /\ \A r \in WaiterStates : CallerOK(r) => CallerOK(r)'
  BY <1>2, <1>3, <1>4, ChannelStep DEF CleansUp
<1>6. Typing'
  BY <1>5 DEF ServiceInv, Typing, CleansUp
<1>7. WaiterInv'
  BY <1>5 DEF ServiceInv, Typing, WaiterInv, CleansUp
<1>8. AnswerInv'
  BY DEF ServiceInv, AnswerInv, AnswerOK, CleansUp
<1> QED
  BY <1>5, <1>6, <1>7, <1>8 DEF ServiceInv, ServerInv

LEMMA AddsItselfInv ==
    ASSUME ServiceInv, NEW w \in Waiters, AddsItself(w)
    PROVE  ServiceInv'
<1>1. PICK x \in WaiterStates, s \in Servers, o \in Nat, e \in Execs :
         /\ x = waiter[w] /\ s = x.server /\ o = x.object /\ e = x.exec
         /\ x.pc = "found" /\ CallerOK(x) /\ AnswerOK(x)
  BY CallOf DEF AddsItself, OnServer, WaiterStates
<1>2. o \in DOMAIN channels[s] /\ ~x.signalled /\ \A h \in Shards : object[s][h] = o => h = ShardOf[e]
  BY <1>1 DEF CallerOK
<1>3. PICK old \in Channels : old = channels[s][o]
  BY <1>2, OldChannels
<1>4. /\ \A f \in Execs : old.chan[f] <= old.made[f] /\ (old.cleanups[f] > 0 => Ended(s, o, f))
      /\ \A f \in Execs, h \in Shards : object[s][h] = o /\ old.chan[f] # 0 => ShardOf[f] = h
      /\ o # 0
  BY <1>2, <1>3, OldChannels
<1>19. PICK c \in Channels : c = Add(old, e, w)
  BY AddFacts
<1>5. /\ c.cleanups = old.cleanups
      /\ old.chan[e] # 0 => c.chan = old.chan /\ c.made = old.made
      /\ old.chan[e] = 0 => /\ c.chan = [old.chan EXCEPT ![e] = old.made[e] + 1]
                            /\ c.made = [old.made EXCEPT ![e] = old.made[e] + 1]
  BY <1>19, AddFacts
<1>6. Follows(c, old, s, o)
  BY <1>2, <1>4, <1>5 DEF Follows, Channels
<1>7. c.chan[e] \in 1..c.made[e] /\ c.chan[e] \in Nat
  BY <1>4, <1>5 DEF Channels
<1>20. PICK r \in WaiterStates : r = [x EXCEPT !.pc = "added", !.chan = c.chan[e]]
  BY <1>7 DEF WaiterStates, OnServer
<1>8. /\ r.pc = "added" /\ r.server = s /\ r.object = o /\ r.exec = e /\ r.chan = c.chan[e]
      /\ r.signalled = x.signalled /\ r.answer = x.answer /\ r.expired = x.expired
  BY <1>1, <1>20 DEF WaiterStates
<1>9. channels' = [channels EXCEPT ![s][o] = c] /\ waiter' = [waiter EXCEPT ![w] = r]
  BY <1>1, <1>3, <1>19, <1>20 DEF AddsItself, ServiceInv, Typing
<1>10. /\ channels' \in [Servers -> Seq(Channels)] /\ ServerInv'
       /\ \A y \in WaiterStates : CallerOK(y) => CallerOK(y)'
  BY <1>2, <1>3, <1>6, <1>9, ChannelStep DEF AddsItself
<1>11. channels'[s][o] = c /\ DOMAIN channels'[s] = DOMAIN channels[s]
  BY <1>2, <1>9, ReplacedChannels DEF ServiceInv
<1>12. object' = object /\ status' = status
  BY DEF AddsItself
<1>13. CallerOK(r)'
  BY <1>2, <1>7, <1>8, <1>11, <1>12 DEF CallerOK, IsClosed
<1>14. AnswerOK(r)'
  BY <1>1, <1>8, <1>12 DEF AnswerOK
<1>15. waiter'[w] = r /\ \A v \in Waiters : v # w => waiter'[v] = waiter[v]
  BY <1>9 DEF ServiceInv, Typing
<1>16. Typing'
  <2>1. waiter' \in [Waiters -> WaiterStates]
    BY <1>9 DEF ServiceInv, Typing
  <2> QED
    BY <2>1, <1>10 DEF ServiceInv, Typing, AddsItself
<1>17. WaiterInv'
  BY <1>10, <1>13, <1>15 DEF ServiceInv, Typing, WaiterInv
<1>18. AnswerInv'
  BY <1>12, <1>14, <1>15 DEF ServiceInv, AnswerInv, AnswerOK
<1> QED
  BY <1>10, <1>16, <1>17, <1>18 DEF ServiceInv, ServerInv

LEMMA IsCancelledInv ==
    ASSUME ServiceInv, NEW w \in Waiters, IsCancelled(w)
    PROVE  ServiceInv'
<1>1. PICK r \in WaiterStates : r = Answered(waiter[w], "NoResult") /\ CallerOK(r) /\ AnswerOK(r)
  BY NoResultInv DEF IsCancelled, OnServer
<1>2. waiter' = [waiter EXCEPT ![w] = r]
  BY <1>1 DEF IsCancelled
<1>3. CASE channels' = channels
  BY <1>1, <1>2, <1>3, CallerChanges DEF IsCancelled
<1>4. PICK s \in Servers, e \in Execs, h \in Shards, o \in Nat :
         s = waiter[w].server /\ e = waiter[w].exec /\ h = ShardOf[e] /\ o = object[s][h]
  <2>1. waiter[w].server \in Servers /\ waiter[w].exec \in Execs /\ ShardOf[waiter[w].exec] \in Shards
    BY CallOf DEF IsCancelled, OnServer
  <2>2. object[waiter[w].server][ShardOf[waiter[w].exec]] \in Nat
    BY <2>1 DEF ServiceInv, Typing
  <2> QED
    BY <2>1, <2>2
<1>5. ASSUME h \in held[s]["channels"], NEW gone,
             channels' = [channels EXCEPT ![s][o] = TerminateWaiting(channels[s][o], e, gone)]
      PROVE  ServiceInv'
  <2>1. o \in DOMAIN channels[s]
    BY <1>4, <1>5 DEF ServiceInv, Typing, ObjectInv
  <2>2. PICK old \in Channels : old = channels[s][o]
    BY <2>1, OldChannels
  <2>3. /\ \A f \in Execs : old.chan[f] <= old.made[f] /\ (old.cleanups[f] > 0 => Ended(s, o, f))
        /\ \A f \in Execs, g \in Shards : object[s][g] = o /\ old.chan[f] # 0 => ShardOf[f] = g
    BY <2>1, <2>2, OldChannels
  <2>12. PICK c \in Channels : c = TerminateWaiting(old, e, gone)
    BY TerminateFacts
  <2>4. c.cleanups = old.cleanups /\ c.chan = old.chan /\ c.made = old.made
    BY <2>12, TerminateFacts
  <2>5. channels' = [channels EXCEPT ![s][o] = c]
    BY <1>5, <2>2, <2>12
  <2>6. Follows(c, old, s, o)
    BY <2>3, <2>4 DEF Follows, Channels
  <2>7. /\ channels' \in [Servers -> Seq(Channels)] /\ ServerInv'
        /\ \A y \in WaiterStates : CallerOK(y) => CallerOK(y)'
    BY <2>1, <2>2, <2>5, <2>6, ChannelStep DEF IsCancelled
  <2>8. waiter'[w] = r /\ \A v \in Waiters : v # w => waiter'[v] = waiter[v]
    BY <1>2 DEF ServiceInv, Typing
  <2>9. Typing'
    <3>1. waiter' \in [Waiters -> WaiterStates]
      BY <1>2 DEF ServiceInv, Typing
    <3> QED
      BY <3>1, <2>7 DEF ServiceInv, Typing, IsCancelled
  <2>10. WaiterInv'
    BY <1>1, <2>7, <2>8 DEF ServiceInv, Typing, WaiterInv
  <2>11. AnswerInv'
    <3>1. status' = status
      BY DEF IsCancelled
    <3>2. AnswerOK(r)'
      BY <1>1, <3>1 DEF AnswerOK
    <3> QED
      BY <2>8, <3>1, <3>2 DEF ServiceInv, AnswerInv, AnswerOK
  <2> QED
    BY <2>7, <2>9, <2>10, <2>11 DEF ServiceInv, ServerInv
<1> QED
  BY <1>3, <1>4, <1>5 DEF IsCancelled

-----------------------------------------------------------------------------
(* A signal, of a Stop or of a worker, that has its reason and its result. *)
LEMMA SendInv ==
    ASSUME ServiceInv, UNCHANGED <<held, object, status>>,
           \A t \in Servers : work'[t].steps = work[t].steps /\ work'[t].shard = work[t].shard,
           NEW s \in Servers, NEW call, call.object \in DOMAIN channels[s], call.exec \in Execs,
           Ended(s, call.object, call.exec),
           NEW result \in Answers, result = "NoResult" \/ result = status[call.exec],
           Send(s, call, result)
    PROVE  /\ ObjectInv' /\ SignalInv' /\ WaiterInv' /\ AnswerInv'
           /\ channels' \in [Servers -> Seq(Channels)] /\ waiter' \in [Waiters -> WaiterStates]
           /\ \A t \in Servers : DOMAIN channels'[t] = DOMAIN channels[t]
           /\ \A t \in Servers \ up : channels'[t] = channels[t]
<1> DEFINE o == call.object
           e == call.exec
           n == call.chan
<1>1. PICK reached :
         /\ reached \in Reached(channels[s][o], e, {w \in OnChannel(s, o, e, n) : waiter[w].pc = "waiting"})
         /\ channels' = [channels EXCEPT ![s][o] = Signalled(channels[s][o], e)]
         /\ waiter' = [w \in Waiters |-> IF w \in reached THEN Answered(waiter[w], result)
                                         ELSE IF w \in OnChannel(s, o, e, n) THEN [waiter[w] EXCEPT !.signalled = TRUE]
                                         ELSE waiter[w]]
  BY DEF Send
<1>15. o \in DOMAIN channels[s] /\ e \in Execs /\ Ended(s, o, e) /\ (result = "NoResult" \/ result = status[e])
  OBVIOUS
<1> HIDE DEF o, e, n
<1>2. PICK old \in Channels : old = channels[s][o]
  BY <1>15, OldChannels
<1>3. /\ \A f \in Execs : old.chan[f] <= old.made[f] /\ (old.cleanups[f] > 0 => Ended(s, o, f))
      /\ \A f \in Execs, h \in Shards : object[s][h] = o /\ old.chan[f] # 0 => ShardOf[f] = h
      /\ s \in up
  BY <1>15, <1>2, OldChannels
<1>4. PICK c \in Channels : c = Signalled(old, e)
  BY <1>15, SignalledFacts
<1>5. c.made = old.made /\ c.chan = old.chan /\ c.cleanups = [old.cleanups EXCEPT ![e] = old.cleanups[e] + 1]
  BY <1>15, <1>4, SignalledFacts
<1>6. channels' = [channels EXCEPT ![s][o] = c]
  BY <1>1, <1>2, <1>4
<1>7. Follows(c, old, s, o)
  BY <1>15, <1>3, <1>5 DEF Follows, Channels
<1>8. ObjectInv' /\ SignalInv' /\ \A r \in WaiterStates : CallerOK(r) => CallerOK(r)'
  BY <1>15, <1>2, <1>6, <1>7, ChannelChanges
<1>9. Typing
  BY DEF ServiceInv
<1>10. channels' \in [Servers -> Seq(Channels)] /\ \A t \in Servers : t # s => channels'[t] = channels[t]
  BY <1>15, <1>6, <1>9, ReplacedChannels, Zenon
<1>11. /\ \A t \in Servers : DOMAIN channels'[t] = DOMAIN channels[t] /\ Len(channels'[t]) = Len(channels[t])
       /\ channels'[s][o] = c
  BY <1>15, <1>6, <1>9, ReplacedChannels, Zenon
<1>12. ASSUME NEW w \in Waiters
       PROVE  waiter'[w] \in WaiterStates /\ CallerOK(waiter[w])' /\ AnswerOK(waiter[w])'
  <2>1. PICK x \in WaiterStates : x = waiter[w] /\ CallerOK(x) /\ AnswerOK(x)
    BY CallOf
  <2>2. CASE w \in reached
    <3>1. x.pc = "waiting" /\ x.exec = e
      BY <1>1, <2>1, <2>2 DEF Reached, OnChannel
    <3>2. PICK r \in WaiterStates : r = Answered(x, result)
      BY AnsweredFacts
    <3>3. /\ r.pc = "done" /\ r.exec = e /\ ~r.expired /\ ~r.signalled
          /\ r.answer = IF x.expired THEN x.answer ELSE result
      BY <3>1, <3>2, AnsweredFacts
    <3>4. CallerOK(r)' /\ AnswerOK(r)'
      BY <1>15, <2>1, <3>1, <3>3 DEF CallerOK, AnswerOK, OnServer
    <3>5. waiter'[w] = r
      BY <1>1, <2>1, <2>2, <3>2
    <3> QED
      BY <3>4, <3>5
  <2>3. CASE w \notin reached /\ w \in OnChannel(s, o, e, n)
    <3>1. x.pc \in {"added", "waiting"} /\ x.server = s /\ x.object = o /\ x.exec = e
      BY <2>1, <2>3 DEF OnChannel
    <3>2. PICK r \in WaiterStates : r = [x EXCEPT !.signalled = TRUE]
      BY DEF WaiterStates
    <3>3. /\ r.pc = x.pc /\ r.server = s /\ r.object = o /\ r.exec = e /\ r.chan = x.chan /\ r.signalled
          /\ r.answer = x.answer /\ r.expired = x.expired
      BY <3>1, <3>2 DEF WaiterStates
    <3>4. c.cleanups[e] > 0
      BY <1>15, <1>5 DEF Channels
    <3>5. CallerOK(x)'
      BY <1>8, <2>1
    <3>6. CallerOK(r)'
      BY <1>15, <1>11, <3>1, <3>3, <3>4, <3>5 DEF CallerOK
    <3>7. AnswerOK(r)'
      BY <2>1, <3>1, <3>3 DEF AnswerOK
    <3>8. waiter'[w] = r
      BY <1>1, <2>1, <2>3, <3>2
    <3> QED
      BY <3>6, <3>7, <3>8
  <2>4. CASE w \notin reached /\ w \notin OnChannel(s, o, e, n)
    <3>1. waiter'[w] = x
      BY <1>1, <2>1, <2>4
    <3>2. CallerOK(x)' /\ AnswerOK(x)'
      BY <1>8, <2>1 DEF AnswerOK
    <3> QED
      BY <3>1, <3>2
  <2> QED
    BY <2>2, <2>3, <2>4
<1>13. waiter' \in [Waiters -> WaiterStates]
  <2> DEFINE F(w) == IF w \in reached THEN Answered(waiter[w], result)
                     ELSE IF w \in OnChannel(s, o, e, n) THEN [waiter[w] EXCEPT !.signalled = TRUE]
                     ELSE waiter[w]
  <2>1. waiter' = [w \in Waiters |-> F(w)]
    BY <1>1
  <2> HIDE DEF F
  <2> QED
    BY <1>12, <2>1
<1>14. WaiterInv' /\ AnswerInv'
  BY <1>12 DEF WaiterInv, AnswerInv
<1> QED
  BY <1>3, <1>8, <1>10, <1>11, <1>13, <1>14

(* The server after a signal that did not panic. *)
LEMMA StopSendsInv ==
    ASSUME ServiceInv, NEW s \in Servers, work[s].call # NoCall,
           Send(s, work[s].call, "NoResult"), work' = [work EXCEPT ![s].call = NoCall],
           UNCHANGED <<up, ring, held, object, worker, status>>
    PROVE  ServiceInv'
<1>1. PICK x \in Works : x = work[s]
  BY DEF ServiceInv, Typing
<1>2. PICK y \in Works : y = [x EXCEPT !.call = NoCall]
  BY RecordsTyped DEF Works
<1>3. /\ y.steps = x.steps /\ y.shard = x.shard /\ y.shards = x.shards /\ y.procIds = x.procIds /\ y.call = NoCall
      /\ work' = [work EXCEPT ![s] = y]
  BY <1>1, <1>2 DEF Works
<1>4. work'[s] = y /\ \A t \in Servers : t # s => work'[t] = work[t]
  BY <1>3 DEF ServiceInv, Typing
<1>5. /\ x.steps # <<>> /\ x.steps[1].op = "remove"
      /\ x.shard \notin held[s]["signals"] /\ x.shard \in held[s]["channels"]
      /\ \A e \in x.procIds : ShardOf[e] = x.shard
      /\ x.call.exec \in Execs /\ ShardOf[x.call.exec] = x.shard /\ x.call.object = object[s][x.shard]
  BY <1>1 DEF ServiceInv, StopInv
<1>6. x.shard \in Shards
  BY <1>5, ShardAssumption
<1>7. PICK call : call = x.call
  OBVIOUS
<1>8. call.object \in DOMAIN channels[s] /\ call.exec \in Execs
  BY <1>5, <1>6, <1>7 DEF ServiceInv, ObjectInv, Typing
<1>9. Ended(s, call.object, call.exec)
  BY <1>1, <1>5, <1>7 DEF Ended, Stopped
<1>10. \A t \in Servers : work'[t].steps = work[t].steps /\ work'[t].shard = work[t].shard
  BY <1>1, <1>3, <1>4
<1>11. /\ ObjectInv' /\ SignalInv' /\ WaiterInv' /\ AnswerInv'
       /\ channels' \in [Servers -> Seq(Channels)] /\ waiter' \in [Waiters -> WaiterStates]
       /\ \A t \in Servers : DOMAIN channels'[t] = DOMAIN channels[t]
       /\ \A t \in Servers \ up : channels'[t] = channels[t]
  BY <1>1, <1>7, <1>8, <1>9, <1>10, SendInv DEF Answers
<1>12. Typing'
  BY <1>3, <1>11 DEF ServiceInv, Typing
<1>13. s \in up
  BY DownServers DEF NoWork
<1>14. BalanceInv'
  BY <1>1, <1>3, <1>4, <1>5, <1>11, <1>13, BalanceKept
<1>15. StopInv'
  BY <1>3, <1>4, <1>5 DEF ServiceInv, StopInv
<1>16. WorkerInv'
  BY <1>11 DEF ServiceInv, WorkerInv, WorkerOK
<1> QED
  BY <1>11, <1>12, <1>14, <1>15, <1>16 DEF ServiceInv

LEMMA WorkerSendsInv ==
    ASSUME ServiceInv, NEW s \in Servers, worker[s].pc = "signalling",
           Send(s, worker[s].call, "Completed"), worker' = [worker EXCEPT ![s] = IdleWorker],
           UNCHANGED <<up, ring, held, object, work, status>>
    PROVE  ServiceInv'
<1>1. PICK x \in WorkerStates : x = worker[s] /\ WorkerOK(s, x)
  BY DEF ServiceInv, Typing, WorkerInv
<1>2. PICK call : call = x.call
  OBVIOUS
<1>3. call.object \in DOMAIN channels[s] /\ call.exec \in Execs
  BY <1>1, <1>2 DEF WorkerOK
<1>4. status[call.exec] = "Completed" /\ Ended(s, call.object, call.exec)
  BY <1>1, <1>2 DEF WorkerOK, Ended
<1>5. /\ ObjectInv' /\ SignalInv' /\ WaiterInv' /\ AnswerInv'
      /\ channels' \in [Servers -> Seq(Channels)] /\ waiter' \in [Waiters -> WaiterStates]
      /\ \A t \in Servers : DOMAIN channels'[t] = DOMAIN channels[t]
      /\ \A t \in Servers \ up : channels'[t] = channels[t]
  BY <1>1, <1>2, <1>3, <1>4, SendInv DEF Answers
<1>6. worker' \in [Servers -> WorkerStates] /\ worker'[s] = IdleWorker
      /\ \A t \in Servers : t # s => worker'[t] = worker[t]
  BY RecordsTyped DEF ServiceInv, Typing
<1>7. Typing'
  BY <1>5, <1>6 DEF ServiceInv, Typing
<1>8. s \in up
  BY DownServers
<1>9. BalanceInv'
  BY <1>5, <1>6, <1>8, BalanceKept
<1>10. StopInv'
  BY StopKept
<1>11. WorkerInv'
  BY <1>5, <1>6 DEF ServiceInv, WorkerInv, WorkerOK, IdleWorker
<1> QED
  BY <1>5, <1>7, <1>9, <1>10, <1>11 DEF ServiceInv

-----------------------------------------------------------------------------
(* A server dies, by a crash or by a panic of its own.                     *)
LEMMA DiesInv ==
    ASSUME ServiceInv, NEW s \in Servers, Dies(s), status' = status
    PROVE  ServiceInv'
<1>1. \A t \in Servers : t # s =>
         /\ ring'[t] = ring[t] /\ held'[t] = held[t] /\ work'[t] = work[t] /\ channels'[t] = channels[t]
         /\ object'[t] = object[t] /\ worker'[t] = worker[t] /\ (t \in up' <=> t \in up)
  BY DEF Dies, ServiceInv, Typing
<1>2. /\ held'[s] = [m \in Maps |-> {}] /\ work'[s] = NoWork /\ channels'[s] = <<>>
      /\ object'[s] = [h \in Shards |-> 0] /\ worker'[s] = IdleWorker /\ s \notin up'
  BY DEF Dies, ServiceInv, Typing
<1>3. \A t \in Servers : t # s => \A o, e : Ended(t, o, e)' <=> Ended(t, o, e)
  BY <1>1 DEF Ended, Stopped
<1>4. ASSUME NEW w \in Waiters
      PROVE  waiter'[w] \in WaiterStates /\ CallerOK(waiter[w])' /\ AnswerOK(waiter[w])'
  <2>1. PICK x \in WaiterStates : x = waiter[w] /\ CallerOK(x) /\ AnswerOK(x)
    BY CallOf
  <2>2. CASE x.pc \in OnServer /\ x.server = s
    <3>1. PICK r \in WaiterStates : r = Answered(x, "NoResult")
      BY AnsweredFacts DEF Answers
    <3>2. /\ r.pc = "done" /\ r.exec = x.exec /\ ~r.expired /\ ~r.signalled
          /\ r.answer = IF x.expired THEN x.answer ELSE "NoResult"
      BY <3>1, AnsweredFacts DEF Answers
    <3>3. CallerOK(r)' /\ AnswerOK(r)'
      BY <2>1, <3>2 DEF CallerOK, AnswerOK, OnServer
    <3>4. waiter'[w] = r
      BY <2>1, <2>2, <3>1 DEF Dies
    <3> QED
      BY <3>3, <3>4
  <2>3. CASE ~(x.pc \in OnServer /\ x.server = s)
    <3>1. waiter'[w] = x
      BY <2>1, <2>3 DEF Dies
    <3>2. CallerOK(x)'
      <4>1. CASE x.pc \in OnServer
        <5>1. x.server \in Servers /\ x.server # s
          BY <2>1, <2>3, <4>1 DEF CallerOK
        <5> QED
          BY <1>1, <1>3, <2>1, <5>1 DEF CallerOK
      <4>2. CASE x.pc \notin OnServer
        BY <2>1, <4>2 DEF CallerOK, OnServer
      <4> QED
        BY <4>1, <4>2
    <3>3. AnswerOK(x)'
      BY <2>1 DEF AnswerOK
    <3> QED
      BY <3>1, <3>2, <3>3
  <2> QED
    BY <2>2, <2>3
<1>5. waiter' \in [Waiters -> WaiterStates]
  <2> DEFINE F(w) == IF waiter[w].pc \in OnServer /\ waiter[w].server = s
                     THEN Answered(waiter[w], "NoResult") ELSE waiter[w]
  <2>1. waiter' = [w \in Waiters |-> F(w)]
    BY DEF Dies
  <2> HIDE DEF F
  <2> QED
    BY <1>4, <2>1
<1>6. Typing'
  <2>1. /\ up' \subseteq Servers /\ ring' \in [Servers -> SUBSET Servers]
        /\ held' \in [Servers -> [Maps -> SUBSET Shards]]
    BY DEF Dies, ServiceInv, Typing
  <2>2. work' \in [Servers -> Works] /\ worker' \in [Servers -> WorkerStates]
    BY RecordsTyped DEF Dies, ServiceInv, Typing
  <2>3. channels' \in [Servers -> Seq(Channels)] /\ object' \in [Servers -> [Shards -> Nat]]
    BY DEF Dies, ServiceInv, Typing
  <2> QED
    BY <1>5, <2>1, <2>2, <2>3 DEF ServiceInv, Typing
<1>7. BalanceInv'
  <2>1. \A t \in Servers : t # s => Assigned(t, ring[t])' = Assigned(t, ring[t])
    BY <1>1 DEF Assigned
  <2>2. \A t \in up' : t # s /\ t \in Servers /\ t \in up
    BY <1>1, <1>2, <1>6 DEF Typing
  <2> QED
    BY <1>1, <1>2, <2>1, <2>2 DEF ServiceInv, BalanceInv
<1>8. ObjectInv'
  <2>1. ASSUME NEW t \in Servers, NEW h \in Shards PROVE ObjectInv!(t)!(h)'
    <3>1. CASE t = s
      BY <1>2, <3>1 DEF Maps
    <3>2. CASE t # s
      BY <1>1, <3>2 DEF ServiceInv, ObjectInv
    <3> QED
      BY <3>1, <3>2
  <2> QED
    BY <2>1 DEF ObjectInv
<1>9. SignalInv'
  BY <1>1, <1>2, <1>3 DEF ServiceInv, SignalInv
<1>10. StopInv'
  BY <1>1, <1>2 DEF ServiceInv, StopInv, NoWork
<1>11. WorkerInv'
  BY <1>1, <1>2 DEF ServiceInv, WorkerInv, WorkerOK, IdleWorker
<1>12. WaiterInv' /\ AnswerInv'
  BY <1>4 DEF WaiterInv, AnswerInv
<1> QED
  BY <1>6, <1>7, <1>8, <1>9, <1>10, <1>11, <1>12 DEF ServiceInv

LEMMA StopSignalsInv ==
    ASSUME ServiceInv, NEW s \in Servers, StopSignals(s)
    PROVE  ServiceInv'
BY DiesInv, StopSendsInv DEF StopSignals

LEMMA WorkerSignalsInv ==
    ASSUME ServiceInv, NEW s \in Servers, WorkerSignals(s)
    PROVE  ServiceInv'
BY DiesInv, WorkerSendsInv DEF WorkerSignals

LEMMA CrashInv ==
    ASSUME ServiceInv, NEW s \in Servers, Crash(s)
    PROVE  ServiceInv'
BY DiesInv DEF Crash

-----------------------------------------------------------------------------
(* Executions are closed, and stay closed; the servers' maps stay.         *)
LEMMA StatusChanges ==
    ASSUME ServiceInv, UNCHANGED <<up, ring, held, work, channels, object, waiter>>,
           worker' \in [Servers -> WorkerStates],
           \A t \in Servers : worker'[t] = worker[t] \/ (t \in up /\ WorkerOK(t, worker[t])'),
           status' \in [Execs -> {"Running", "Completed", "Terminated"}],
           \A e \in Execs : status[e] # "Running" => status'[e] = status[e]
    PROVE  ServiceInv'
<1>1. \A t \in Servers, o \in Nat, e \in Execs : Ended(t, o, e) => Ended(t, o, e)'
  BY DEF Ended, Stopped
<1>2. Typing'
  BY DEF ServiceInv, Typing
<1>3. BalanceInv'
  <2>1. \A t \in Servers \ up : worker'[t] = worker[t]
    OBVIOUS
  <2> QED
    BY <2>1, BalanceKept
<1>4. ObjectInv'
  BY DEF ServiceInv, ObjectInv
<1>5. SignalInv'
  <2> SUFFICES ASSUME NEW t \in Servers, NEW p \in DOMAIN channels[t], NEW e \in Execs
               PROVE  /\ channels[t][p].chan[e] <= channels[t][p].made[e]
                      /\ channels[t][p].cleanups[e] > 0 => Ended(t, p, e)'
    BY DEF SignalInv
  <2>1. p \in Nat
    BY OldChannels
  <2> QED
    BY <1>1, <2>1 DEF ServiceInv, SignalInv
<1>6. StopInv'
  BY StopKept
<1>7. WorkerInv'
  <2>1. ASSUME NEW t \in Servers, worker'[t] = worker[t] PROVE WorkerOK(t, worker[t])'
    <3>1. PICK x \in WorkerStates : x = worker[t] /\ WorkerOK(t, x)
      BY DEF ServiceInv, Typing, WorkerInv
    <3>2. status[x.exec] = "Completed" /\ x.exec \in Execs => status'[x.exec] = "Completed"
      OBVIOUS
    <3>3. x.pc \in {"closed", "signalling"} \/ x.closes => x.exec \in Execs
      BY <3>1 DEF WorkerOK
    <3> QED
      BY <2>1, <3>1, <3>2, <3>3 DEF WorkerOK
  <2> QED
    BY <2>1 DEF WorkerInv
<1>8. ASSUME NEW w \in Waiters PROVE CallerOK(waiter[w])' /\ AnswerOK(waiter[w])'
  <2>1. PICK x \in WaiterStates : x = waiter[w] /\ CallerOK(x) /\ AnswerOK(x)
    BY CallOf
  <2>2. x.object \in Nat
    BY DEF WaiterStates
  <2>3. x.pc \in {"added", "waiting"} => x.server \in Servers /\ x.exec \in Execs
    BY <2>1 DEF CallerOK, OnServer
  <2>4. CallerOK(x)'
    BY <1>1, <2>1, <2>2, <2>3 DEF CallerOK
  <2>5. AnswerOK(x)'
    BY <2>1 DEF AnswerOK
  <2> QED
    BY <2>1, <2>4, <2>5
<1> QED
  BY <1>2, <1>3, <1>4, <1>5, <1>6, <1>7, <1>8 DEF ServiceInv, WaiterInv, AnswerInv

LEMMA ClosedByOthersInv ==
    ASSUME ServiceInv, NEW e \in Execs, ClosedByOthers(e)
    PROVE  ServiceInv'
<1>1. status' = [status EXCEPT ![e] = "Terminated"] /\ status[e] = "Running" /\ worker' = worker
  BY DEF ClosedByOthers
<1>2. /\ status' \in [Execs -> {"Running", "Completed", "Terminated"}]
      /\ \A f \in Execs : status[f] # "Running" => status'[f] = status[f]
  BY <1>1 DEF ServiceInv, Typing
<1>3. worker' \in [Servers -> WorkerStates]
  BY <1>1 DEF ServiceInv, Typing
<1> QED
  BY <1>1, <1>2, <1>3, StatusChanges DEF ClosedByOthers

(* One worker goes on. *)
LEMMA WorkerChanges ==
    ASSUME ServiceInv, UNCHANGED <<up, ring, held, work, channels, object, waiter>>,
           NEW s \in up, NEW x \in WorkerStates, worker' = [worker EXCEPT ![s] = x], WorkerOK(s, x)',
           status' \in [Execs -> {"Running", "Completed", "Terminated"}],
           \A e \in Execs : status[e] # "Running" => status'[e] = status[e]
    PROVE  ServiceInv'
<1>1. s \in Servers
  BY DEF ServiceInv, Typing
<1>2. worker' \in [Servers -> WorkerStates] /\ worker'[s] = x /\ \A t \in Servers : t # s => worker'[t] = worker[t]
  BY <1>1 DEF ServiceInv, Typing
<1>3. \A t \in Servers : worker'[t] = worker[t] \/ (t \in up /\ WorkerOK(t, worker[t])')
  BY <1>1, <1>2
<1> QED
  BY <1>2, <1>3, StatusChanges

LEMMA TakeTaskInv ==
    ASSUME ServiceInv, NEW s \in Servers, NEW e \in Execs, TakeTask(s, e)
    PROVE  ServiceInv'
<1>1. PICK x \in WorkerStates : x = [IdleWorker EXCEPT !.pc = "processing", !.exec = e]
  BY RecordsTyped DEF WorkerStates
<1>2. x.pc = "processing" /\ x.exec = e /\ ~x.closes /\ ~x.moved
  BY <1>1 DEF IdleWorker
<1>3. /\ worker' = [worker EXCEPT ![s] = x] /\ status' = status /\ held' = held /\ channels' = channels
      /\ ShardOf[e] \in held[s]["immediateProcessor"]
  BY <1>1 DEF TakeTask
<1>4. s \in up
  BY <1>3, HeldFacts, ShardAssumption DEF ServiceInv, Maps
<1>5. WorkerOK(s, x)'
  BY <1>2, <1>3 DEF WorkerOK
<1> QED
  BY <1>3, <1>4, <1>5, WorkerChanges DEF TakeTask, ServiceInv, Typing

LEMMA CommitsInv ==
    ASSUME ServiceInv, NEW s \in Servers, Commits(s)
    PROVE  ServiceInv'
<1>1. PICK x \in WorkerStates : x = worker[s] /\ WorkerOK(s, x) /\ x.pc = "processing"
  BY DEF ServiceInv, Typing, WorkerInv, Commits
<1>2. PICK e \in Execs : e = x.exec /\ ~x.closes
  BY <1>1 DEF WorkerOK
<1>3. s \in up
  BY <1>1, DownServers
<1>4. UNCHANGED <<up, ring, held, work, channels, object, waiter>>
  BY DEF Commits
<1>5. status \in [Execs -> {"Running", "Completed", "Terminated"}] /\ IdleWorker \in WorkerStates
  BY RecordsTyped DEF ServiceInv, Typing
<1>6. CASE worker' = [worker EXCEPT ![s] = IdleWorker] /\ status' = status
  <2>1. WorkerOK(s, IdleWorker)'
    BY DEF WorkerOK, IdleWorker
  <2> QED
    BY <1>3, <1>4, <1>5, <1>6, <2>1, WorkerChanges
<1>7. CASE /\ status[e] = "Running" /\ status' = [status EXCEPT ![e] = "Completed"]
           /\ worker' = [worker EXCEPT ![s].pc = "notifying", ![s].closes = TRUE]
  <2>1. PICK y \in WorkerStates : y = [x EXCEPT !.pc = "notifying", !.closes = TRUE]
    BY DEF WorkerStates
  <2>2. y.pc = "notifying" /\ y.closes /\ y.exec = e /\ y.moved = x.moved
    BY <1>2, <2>1 DEF WorkerStates
  <2>3. worker' = [worker EXCEPT ![s] = y]
    BY <1>1, <1>7, <2>1 DEF ServiceInv, Typing
  <2>4. status' \in [Execs -> {"Running", "Completed", "Terminated"}] /\ status'[e] = "Completed"
        /\ \A f \in Execs : status[f] # "Running" => status'[f] = status[f]
    BY <1>5, <1>7
  <2>5. WorkerOK(s, y)'
    BY <1>1, <1>2, <1>4, <2>2, <2>4 DEF WorkerOK
  <2> QED
    BY <1>3, <1>4, <2>3, <2>4, <2>5, WorkerChanges
<1>8. CASE status' = status /\ worker' = [worker EXCEPT ![s].pc = "notifying"]
  <2>1. PICK y \in WorkerStates : y = [x EXCEPT !.pc = "notifying"]
    BY DEF WorkerStates
  <2>2. y.pc = "notifying" /\ y.closes = x.closes /\ y.exec = e /\ y.moved = x.moved
    BY <1>2, <2>1 DEF WorkerStates
  <2>3. worker' = [worker EXCEPT ![s] = y]
    BY <1>1, <1>8, <2>1 DEF ServiceInv, Typing
  <2>4. WorkerOK(s, y)'
    BY <1>1, <1>2, <1>4, <2>2 DEF WorkerOK
  <2> QED
    BY <1>3, <1>4, <1>5, <1>8, <2>3, <2>4, WorkerChanges
<1> QED
  BY <1>1, <1>2, <1>6, <1>7, <1>8 DEF Commits

LEMMA NotifiesInv ==
    ASSUME ServiceInv, NEW s \in Servers, Notifies(s)
    PROVE  ServiceInv'
<1>1. PICK x \in WorkerStates : x = worker[s] /\ WorkerOK(s, x) /\ x.pc = "notifying"
  BY DEF ServiceInv, Typing, WorkerInv, Notifies
<1>2. CASE Dies(s)
  BY <1>2, DiesInv DEF Notifies
<1>3. CASE ~Dies(s)
  <2>1. /\ UNCHANGED <<up, ring, held, work, channels, object, waiter, status>>
        /\ worker' = [worker EXCEPT ![s] = IF x.closes THEN [x EXCEPT !.pc = "closed", !.moved = FALSE] ELSE IdleWorker]
    BY <1>1, <1>3 DEF Notifies
  <2>2. s \in up /\ x.exec \in Execs
    BY <1>1, DownServers DEF WorkerOK
  <2>3. status \in [Execs -> {"Running", "Completed", "Terminated"}] /\ IdleWorker \in WorkerStates
    BY RecordsTyped DEF ServiceInv, Typing
  <2>4. CASE x.closes
    <3>1. PICK y \in WorkerStates : y = [x EXCEPT !.pc = "closed", !.moved = FALSE]
      BY DEF WorkerStates
    <3>2. y.pc = "closed" /\ y.exec = x.exec /\ y.closes = x.closes
      BY <3>1 DEF WorkerStates
    <3>3. WorkerOK(s, y)'
      BY <1>1, <2>1, <2>2, <2>4, <3>2 DEF WorkerOK
    <3> QED
      BY <2>1, <2>2, <2>3, <2>4, <3>1, <3>3, WorkerChanges
  <2>5. CASE ~x.closes
    <3>1. WorkerOK(s, IdleWorker)'
      BY DEF WorkerOK, IdleWorker
    <3> QED
      BY <2>1, <2>2, <2>3, <2>5, <3>1, WorkerChanges
  <2> QED
    BY <2>4, <2>5
<1> QED
  BY <1>2, <1>3

LEMMA WorkerLooksUpInv ==
    ASSUME ServiceInv, NEW s \in Servers, WorkerLooksUp(s)
    PROVE  ServiceInv'
<1>1. PICK x \in WorkerStates : x = worker[s] /\ WorkerOK(s, x) /\ x.pc = "closed"
  BY DEF ServiceInv, Typing, WorkerInv, WorkerLooksUp
<1>2. PICK e \in Execs, h \in Shards, o \in Nat : e = x.exec /\ h = ShardOf[e] /\ o = object[s][h]
  BY <1>1, ShardAssumption DEF WorkerOK, ServiceInv, Typing
<1>3. s \in up
  BY <1>1, DownServers
<1>4. UNCHANGED <<up, ring, held, work, channels, object, waiter, status>>
  BY DEF WorkerLooksUp
<1>5. status \in [Execs -> {"Running", "Completed", "Terminated"}] /\ IdleWorker \in WorkerStates
  BY RecordsTyped DEF ServiceInv, Typing
<1>6. CASE worker' = [worker EXCEPT ![s] = IdleWorker]
  <2>1. WorkerOK(s, IdleWorker)'
    BY DEF WorkerOK, IdleWorker
  <2> QED
    BY <1>3, <1>4, <1>5, <1>6, <2>1, WorkerChanges
<1>7. CASE /\ h \in held[s]["signals"]
           /\ worker' = [worker EXCEPT ![s] = [x EXCEPT !.pc = "signalling", !.call = LookUp(s, o, e)]]
  <2>1. h \in held[s]["channels"]
    BY <1>7, HeldFacts DEF ServiceInv
  <2>2. o \in DOMAIN channels[s]
    BY <1>2, <2>1 DEF ServiceInv, ObjectInv, Typing
  <2>3. PICK n \in Nat : n = channels[s][o].chan[e]
    BY <2>2, OldChannels DEF Channels
  <2>4. PICK call \in Calls : call = [exec |-> e, object |-> o, chan |-> n]
    BY DEF Calls
  <2>5. LookUp(s, o, e) = call
    BY <2>3, <2>4 DEF LookUp
  <2>6. PICK y \in WorkerStates : y = [x EXCEPT !.pc = "signalling", !.call = call]
    BY DEF WorkerStates
  <2>7. y.pc = "signalling" /\ y.exec = e /\ y.call.exec = e /\ y.call.object = o /\ y.closes = x.closes
    BY <1>2, <2>4, <2>6 DEF WorkerStates
  <2>8. WorkerOK(s, y)'
    BY <1>1, <1>2, <1>4, <2>2, <2>7 DEF WorkerOK
  <2>9. worker' = [worker EXCEPT ![s] = y]
    BY <1>7, <2>5, <2>6
  <2> QED
    BY <1>3, <1>4, <1>5, <2>8, <2>9, WorkerChanges
<1> QED
  BY <1>1, <1>2, <1>6, <1>7 DEF WorkerLooksUp

-----------------------------------------------------------------------------
(* A server has a new ring, and knows what it has to do.                   *)
LEMMA RingChanges ==
    ASSUME ServiceInv, UNCHANGED <<held, channels, object, status, worker, waiter>>,
           NEW s \in Servers, NEW view \in SUBSET Servers, s \in view, ring' = [ring EXCEPT ![s] = view],
           up' = up \cup {s}, NEW y \in Works, work' = [work EXCEPT ![s] = y], work[s].steps = <<>>,
           y.steps = <<>>, y.procIds = {}, y.call = NoCall, Outstanding(y, held[s], Assigned(s, view))
    PROVE  ServiceInv'
<1>1. /\ work'[s] = y /\ ring'[s] = view
      /\ \A t \in Servers : t # s => work'[t] = work[t] /\ ring'[t] = ring[t]
  BY DEF ServiceInv, Typing
<1>2. \A t \in Servers : \A o, e : Ended(t, o, e)' <=> Ended(t, o, e)
  <2>1. ASSUME NEW t \in Servers, NEW h PROVE Stopped(t, h)' <=> Stopped(t, h)
    BY <1>1 DEF Stopped
  <2> QED
    BY <2>1 DEF Ended
<1>3. Typing'
  <2>1. work' \in [Servers -> Works] /\ ring' \in [Servers -> SUBSET Servers]
    BY DEF ServiceInv, Typing
  <2> QED
    BY <2>1 DEF ServiceInv, Typing
<1>4. BalanceInv'
  <2>1. Assigned(s, ring[s])' = Assigned(s, view) /\ \A t \in Servers : t # s => Assigned(t, ring[t])' = Assigned(t, ring[t])
    BY <1>1 DEF Assigned
  <2>2. \A t \in up' : t # s => t \in up /\ t \in Servers
    BY <1>3 DEF Typing
  <2> QED
    BY <1>1, <2>1, <2>2 DEF ServiceInv, BalanceInv
<1>5. ObjectInv'
  BY DEF ServiceInv, ObjectInv
<1>6. SignalInv'
  BY <1>2 DEF ServiceInv, SignalInv
<1>7. StopInv'
  BY <1>1 DEF ServiceInv, StopInv
<1>8. WorkerInv'
  BY DEF ServiceInv, WorkerInv, WorkerOK
<1>9. WaiterInv'
  BY <1>2 DEF ServiceInv, WaiterInv, CallerOK, OnServer
<1>10. AnswerInv'
  BY DEF ServiceInv, AnswerInv, AnswerOK
<1> QED
  BY <1>3, <1>4, <1>5, <1>6, <1>7, <1>8, <1>9, <1>10 DEF ServiceInv

LEMMA JoinInv ==
    ASSUME ServiceInv, NEW s \in Servers, Join(s)
    PROVE  ServiceInv'
<1>1. held[s] = [m \in Maps |-> {}] /\ work[s] = NoWork
  BY DEF Join, ServiceInv, BalanceInv
<1>2. \A map \in Maps : held[s][map] = {}
  BY <1>1
<1>3. Typing
  BY DEF ServiceInv
<1>4. PICK view \in SUBSET Servers : view = {s}
  OBVIOUS
<1>5. PICK y \in Works : /\ y = ReBalance(s, view) /\ Outstanding(y, held[s], Assigned(s, view))
                         /\ y.steps = <<>> /\ y.procIds = {} /\ y.call = NoCall
  BY <1>2, <1>3, ReBalanceOutstanding
<1>6. /\ UNCHANGED <<held, channels, object, status, worker, waiter>> /\ ring' = [ring EXCEPT ![s] = view]
      /\ up' = up \cup {s} /\ work' = [work EXCEPT ![s] = y]
  BY <1>4, <1>5 DEF Join
<1>7. work[s].steps = <<>> /\ s \in view
  BY <1>1, <1>4 DEF NoWork
<1> QED
  BY <1>5, <1>6, <1>7, RingChanges

LEMMA ChangedInv ==
    ASSUME ServiceInv, NEW m \in Servers, Listening(m), NEW view \in SUBSET Servers, m \in view, Changed(m, view)
    PROVE  ServiceInv'
<1>1. m \in up /\ work[m] = NoWork /\ Outstanding(NoWork, held[m], Assigned(m, ring[m]))
  BY DEF Listening, Balanced, ServiceInv, BalanceInv
<1>2. PICK old \in SUBSET Shards : \A map \in Maps : held[m][map] = old
  <2>1. \A h \in Shards : \A map \in Maps : h \in held[m][map] <=> h \in Assigned(m, ring[m])
    BY <1>1 DEF Outstanding, NoWork
  <2>2. held[m] \in [Maps -> SUBSET Shards] /\ Assigned(m, ring[m]) \in SUBSET Shards
    BY DEF ServiceInv, Typing, Assigned
  <2> QED
    BY <2>1, <2>2
<1>3. Typing
  BY DEF ServiceInv
<1>4. PICK y \in Works : /\ y = ReBalance(m, view) /\ Outstanding(y, held[m], Assigned(m, view))
                         /\ y.steps = <<>> /\ y.procIds = {} /\ y.call = NoCall
  BY <1>2, <1>3, ReBalanceOutstanding
<1>5. /\ UNCHANGED <<held, channels, object, status, worker, waiter>> /\ ring' = [ring EXCEPT ![m] = view]
      /\ up' = up \cup {m} /\ work' = [work EXCEPT ![m] = y]
  BY <1>1, <1>4 DEF Changed
<1>6. work[m].steps = <<>>
  BY <1>1 DEF NoWork
<1> QED
  BY <1>4, <1>5, <1>6, RingChanges

LEMMA NotifyJoinInv ==
    ASSUME ServiceInv, NEW m \in Servers, NEW n \in Servers, NotifyJoin(m, n)
    PROVE  ServiceInv'
<1>1. PICK view \in SUBSET Servers : view = ring[m] \cup {n}
  BY DEF ServiceInv, Typing
<1>2. m \in view
  BY <1>1 DEF NotifyJoin, Listening, ServiceInv, BalanceInv
<1> QED
  BY <1>1, <1>2, ChangedInv DEF NotifyJoin

LEMMA NotifyLeaveInv ==
    ASSUME ServiceInv, NEW m \in Servers, NEW n \in Servers, NotifyLeave(m, n)
    PROVE  ServiceInv'
<1>1. PICK view \in SUBSET Servers : view = ring[m] \ {n}
  BY DEF ServiceInv, Typing
<1>2. m \in view
  BY <1>1 DEF NotifyLeave, Listening, ServiceInv, BalanceInv
<1> QED
  BY <1>1, <1>2, ChangedInv DEF NotifyLeave

(* Stop looks the channel of an execution up. *)
LEMMA StopLooksUpInv ==
    ASSUME ServiceInv, NEW s \in Servers, StopLooksUp(s)
    PROVE  ServiceInv'
<1>23. PICK x \in Works : x = work[s]
  BY DEF ServiceInv, Typing
<1>1. PICK e \in x.procIds : x = work[s] /\
         work' = [work EXCEPT ![s].procIds = @ \ {e},
                              ![s].call = IF LookUp(s, object[s][x.shard], e).chan = 0 THEN NoCall
                                          ELSE LookUp(s, object[s][x.shard], e)]
  BY <1>23 DEF StopLooksUp
<1>2. /\ x.steps # <<>> /\ x.steps[1].op = "remove"
      /\ x.shard \notin held[s]["signals"] /\ x.shard \in held[s]["channels"]
      /\ \A f \in x.procIds : ShardOf[f] = x.shard
  BY <1>1 DEF ServiceInv, StopInv
<1>3. e \in Execs /\ x.shard \in Shards
  BY <1>2, ShardAssumption DEF Works
<1>4. PICK o \in Nat : o = object[s][x.shard] /\ o \in DOMAIN channels[s]
  BY <1>2, <1>3 DEF ServiceInv, Typing, ObjectInv
<1>5. PICK n \in Nat : n = channels[s][o].chan[e]
  BY <1>3, <1>4, OldChannels DEF Channels
<1>6. PICK found \in Calls : found = [exec |-> e, object |-> o, chan |-> n]
  BY <1>3 DEF Calls
<1>7. LookUp(s, object[s][x.shard], e) = found /\ found.chan = n /\ found.exec = e /\ found.object = o
  BY <1>4, <1>5, <1>6 DEF LookUp
<1>8. PICK call \in Calls : call = IF n = 0 THEN NoCall ELSE found
  BY RecordsTyped
<1>9. PICK y \in Works : y = [x EXCEPT !.procIds = x.procIds \ {e}, !.call = call]
  BY DEF Works
<1>10. /\ y.steps = x.steps /\ y.shard = x.shard /\ y.shards = x.shards
       /\ y.procIds = x.procIds \ {e} /\ y.call = call
  BY <1>9 DEF Works
<1>11. work' = [work EXCEPT ![s] = y]
  BY <1>1, <1>7, <1>8, <1>9 DEF ServiceInv, Typing
<1>12. work'[s] = y /\ \A t \in Servers : t # s => work'[t] = work[t]
  BY <1>11 DEF ServiceInv, Typing
<1>13. UNCHANGED <<up, ring, held, channels, object, status, worker, waiter>>
  BY DEF StopLooksUp
<1>14. \A t \in Servers : \A p, f : Ended(t, p, f)' <=> Ended(t, p, f)
  BY <1>1, <1>10, <1>12, <1>13, EndedSame
<1>15. Typing'
  <2>1. work' \in [Servers -> Works]
    BY <1>11 DEF ServiceInv, Typing
  <2> QED
    BY <1>13, <2>1 DEF ServiceInv, Typing
<1>16. BalanceInv'
  <2>1. s \in up
    BY <1>1, DownServers DEF NoWork
  <2>2. \A t \in Servers \ up : work'[t] = work[t] /\ worker'[t] = worker[t] /\ channels'[t] = channels[t]
    BY <1>12, <1>13, <2>1
  <2>3. up \subseteq Servers
    BY DEF ServiceInv, Typing
  <2>4. \A t \in up : \/ work'[t] = work[t]
                      \/ /\ work[t].steps # <<>> /\ work'[t].steps = work[t].steps
                         /\ work'[t].shard = work[t].shard /\ work'[t].shards = work[t].shards
    BY <1>1, <1>2, <1>10, <1>12, <2>3
  <2> QED
    BY <1>13, <2>2, <2>4, BalanceKept
<1>17. ObjectInv'
  BY <1>13 DEF ServiceInv, ObjectInv
<1>18. SignalInv'
  BY <1>13, <1>14 DEF ServiceInv, SignalInv
<1>19. StopInv'
  <2>1. call # NoCall => call.exec \in Execs /\ ShardOf[call.exec] = x.shard /\ call.object = object[s][x.shard]
    BY <1>2, <1>3, <1>4, <1>7, <1>8
  <2> QED
    BY <1>2, <1>10, <1>12, <1>13, <2>1 DEF ServiceInv, StopInv
<1>20. WorkerInv'
  BY <1>13 DEF ServiceInv, WorkerInv, WorkerOK
<1>21. WaiterInv'
  BY <1>13, <1>14 DEF ServiceInv, WaiterInv, CallerOK, OnServer
<1>22. AnswerInv'
  BY <1>13 DEF ServiceInv, AnswerInv, AnswerOK
<1> QED
  BY <1>15, <1>16, <1>17, <1>18, <1>19, <1>20, <1>21, <1>22 DEF ServiceInv

-----------------------------------------------------------------------------
(* A step of a ReBalance.                                                  *)

(* Where a shard stands when a step of its creation or its stop is next. *)
LEMMA NextStepFacts ==
    ASSUME NEW x \in Works, NEW maps \in [Maps -> SUBSET Shards], NEW target,
           Outstanding(x, maps, target), x.steps # <<>>
    PROVE  /\ Head(x.steps) = x.steps[1] /\ Head(x.steps).maps \subseteq Maps
           /\ x.shard \in target =>
                 /\ x.steps[1].op = "add" /\ x.shard \notin maps["signals"]
                 /\ x.shard \in maps["channels"] <=> "signals" \in x.steps[1].maps
                 /\ "channels" \in x.steps[1].maps <=> x.steps[1] = Step("add", {"channels"})
           /\ x.shard \notin target =>
                 /\ x.steps[1].op = "remove" /\ x.shard \in maps["channels"]
<1>1. PICK k \in 0..4 :
              \/ /\ x.shard \in target /\ Creating(x, maps, k) /\ Head(x.steps) = CreateSteps[k + 1]
                 /\ x.steps[1] = CreateSteps[k + 1]
              \/ /\ x.shard \notin target /\ Stopping(x, maps, k) /\ Head(x.steps) = StopSteps[k + 1]
                 /\ x.steps[1] = StopSteps[k + 1]
  BY CurrentStep
<1>2. k \in {0, 1, 2, 3, 4} /\ k + 1 \in 1..5
  OBVIOUS
<1>3. ASSUME NEW all, NEW map PROVE
         /\ ~Changes(all, 0, map) /\ (Changes(all, 1, map) <=> map \in all[1].maps)
         /\ Changes(all, 2, map) <=> map \in all[1].maps \/ map \in all[2].maps
         /\ Changes(all, 3, map) <=> map \in all[1].maps \/ map \in all[2].maps \/ map \in all[3].maps
         /\ Changes(all, 4, map) <=> map \in all[1].maps \/ map \in all[2].maps \/ map \in all[3].maps
                                     \/ map \in all[4].maps
  BY DEF Changes
<1>4. CASE x.shard \in target
  <2>1. /\ x.steps[1] = CreateSteps[k + 1] /\ Head(x.steps) = CreateSteps[k + 1]
        /\ \A map \in Maps : x.shard \in maps[map] <=> Changes(CreateSteps, k, map)
    BY <1>1, <1>4 DEF Creating
  <2>2. x.steps[1].op = "add" /\ Head(x.steps) = x.steps[1] /\ Head(x.steps).maps \subseteq Maps
    BY <1>2, <2>1, CreateFacts
  <2>3. x.shard \notin maps["signals"] /\ (x.shard \in maps["channels"] <=> k = 4)
    BY <1>2, <1>3, <2>1, CreateFacts DEF Maps
  <2>4. "signals" \in x.steps[1].maps <=> k = 4
    BY <1>2, <2>1, CreateFacts
  <2>5. "channels" \in x.steps[1].maps <=> k = 3
    BY <1>2, <2>1, CreateFacts
  <2>6. CreateSteps[4] = Step("add", {"channels"})
    BY DEF CreateSteps, Step
  <2>7. x.steps[1] = Step("add", {"channels"}) <=> k = 3
    BY <2>1, <2>5, <2>6 DEF Step
  <2> QED
    BY <1>4, <2>2, <2>3, <2>4, <2>5, <2>7
<1>5. CASE x.shard \notin target
  <2>1. /\ x.steps[1] = StopSteps[k + 1] /\ Head(x.steps) = StopSteps[k + 1]
        /\ \A map \in Maps : x.shard \in maps[map] <=> ~Changes(StopSteps, k, map)
    BY <1>1, <1>5 DEF Stopping
  <2>2. x.steps[1].op = "remove" /\ Head(x.steps) = x.steps[1] /\ Head(x.steps).maps \subseteq Maps
    BY <1>2, <2>1, StopFacts
  <2>3. StopSteps[4].maps = {"signals"}
    BY StopFacts DEF Step
  <2>4. x.shard \in maps["channels"]
    BY <1>2, <1>3, <2>1, <2>3, StopFacts DEF Maps
  <2> QED
    BY <1>5, <2>2, <2>4
<1> QED
  BY <1>4, <1>5

(* The step that ReBalanceStep takes, with what it is known to find.       *)
LEMMA StepTaken ==
    ASSUME ServiceInv, NEW s \in Servers, ReBalanceStep(s)
    PROVE  \E x \in Works, y \in Works, calls \in SUBSET Execs :
              /\ s \in up /\ x.steps # <<>> /\ x.shard \in Shards
              /\ Outstanding(x, held[s], Assigned(s, ring[s]))
              /\ work[s].steps # <<>> => x = work[s]
              /\ work[s].steps = <<>> =>
                    \/ \A map \in Maps : x.shard \in held[s][map]
                    \/ \A map \in Maps : x.shard \notin held[s][map]
              /\ y = StepWork(x, calls) /\ y.call = NoCall
              /\ y.procIds # {} => y.steps # <<>> /\ y.procIds = calls
              /\ y.steps # <<>> => y.shard = x.shard
              /\ calls = IF Head(x.steps) = Step("remove", {"signals"})
                         THEN {e \in Execs : channels[s][object[s][x.shard]].chan[e] # 0} ELSE {}
              /\ Outstanding(y, StepMaps(x, held[s]), Assigned(s, ring[s]))
              /\ work' = [work EXCEPT ![s] = y]
              /\ held' = [held EXCEPT ![s] = StepMaps(x, held[s])]
              /\ IF Head(x.steps) = Step("add", {"channels"})
                 THEN /\ channels' = [channels EXCEPT ![s] = Append(channels[s], NewChannels(Execs))]
                      /\ object' = [object EXCEPT ![s][x.shard] = Len(channels[s]) + 1]
                 ELSE UNCHANGED <<channels, object>>
              /\ worker' = [worker EXCEPT ![s].moved =
                    @ \/ (/\ Head(x.steps).op = "remove" /\ worker[s].pc \in {"processing", "notifying"}
                          /\ ShardOf[worker[s].exec] = x.shard)]
              /\ UNCHANGED <<up, ring, status, waiter, joins, faults>>
<1>1. PICK x \in AtWork(s) : ReBalanceStep(s)!(x)
  BY DEF ReBalanceStep
<1>2. s \in up
  <2>1. work[s] = NoWork => AtWork(s) = {}
    BY DEF AtWork, NoWork
  <2> QED
    BY <1>1, <2>1, DownServers
<1>3. Typing /\ BalanceInv
  BY DEF ServiceInv
<1>4. /\ x \in Works /\ x.steps # <<>>
      /\ Outstanding(x, held[s], Assigned(s, ring[s]))
      /\ work[s].steps # <<>> => x = work[s]
      /\ work[s].steps = <<>> =>
            /\ x.procIds = {} /\ x.call = NoCall
            /\ (\A map \in Maps : x.shard \in held[s][map]) \/ (\A map \in Maps : x.shard \notin held[s][map])
  BY <1>2, <1>3, AtWorkOutstanding
<1>5. x.procIds = {} /\ x.call = NoCall /\ x.shard \in Shards
  BY <1>1, <1>4 DEF Outstanding
<1>6. PICK calls \in SUBSET Execs :
         calls = IF Head(x.steps) = Step("remove", {"signals"})
                 THEN {e \in Execs : channels[s][object[s][x.shard]].chan[e] # 0} ELSE {}
  OBVIOUS
<1>7. Tail(x.steps) \in Seq(Steps)
  BY <1>4 DEF Works
<1>8. StepWork(x, calls) \in Works
  <2>1. x.shards \in SUBSET [shard : Shards, steps : Seq(Steps)]
    BY <1>4 DEF Works
  <2>2. [NoWork EXCEPT !.shards = x.shards] \in Works
    BY <2>1, RecordsTyped
  <2>3. [x EXCEPT !.steps = Tail(x.steps), !.procIds = calls] \in Works
    BY <1>4, <1>7 DEF Works
  <2> QED
    BY <2>2, <2>3 DEF StepWork
<1>9. PICK y \in Works : y = StepWork(x, calls)
  BY <1>8
<1>10. /\ y.call = NoCall
       /\ y.procIds # {} => y.steps # <<>> /\ y.procIds = calls
       /\ y.steps # <<>> => y.shard = x.shard
  BY <1>4, <1>5, <1>9 DEF StepWork, Works, NoWork
<1>11. held[s] \in [Maps -> SUBSET Shards]
  BY <1>3 DEF Typing
<1>12. Outstanding(y, StepMaps(x, held[s]), Assigned(s, ring[s]))
  BY <1>4, <1>9, <1>11, StepOutstanding
<1>13. work' = [work EXCEPT ![s] = y]
  BY <1>1, <1>6, <1>9 DEF StepWork
<1>14. held' = [held EXCEPT ![s] = StepMaps(x, held[s])]
  BY <1>1, <1>3 DEF StepMaps, Typing
<1>15. /\ IF Head(x.steps) = Step("add", {"channels"})
          THEN /\ channels' = [channels EXCEPT ![s] = Append(channels[s], NewChannels(Execs))]
               /\ object' = [object EXCEPT ![s][x.shard] = Len(channels[s]) + 1]
          ELSE UNCHANGED <<channels, object>>
       /\ worker' = [worker EXCEPT ![s].moved =
              @ \/ (/\ Head(x.steps).op = "remove" /\ worker[s].pc \in {"processing", "notifying"}
                    /\ ShardOf[worker[s].exec] = x.shard)]
       /\ UNCHANGED <<up, ring, status, waiter, joins, faults>>
  BY <1>1
<1> QED
  BY <1>2, <1>4, <1>5, <1>6, <1>9, <1>10, <1>12, <1>13, <1>14, <1>15

LEMMA ReBalanceStepInv ==
    ASSUME ServiceInv, NEW s \in Servers, ReBalanceStep(s)
    PROVE  ServiceInv'
<1>1. PICK x \in Works, y \in Works, calls \in SUBSET Execs :
              /\ s \in up /\ x.steps # <<>> /\ x.shard \in Shards
              /\ Outstanding(x, held[s], Assigned(s, ring[s]))
              /\ work[s].steps # <<>> => x = work[s]
              /\ work[s].steps = <<>> =>
                    \/ \A map \in Maps : x.shard \in held[s][map]
                    \/ \A map \in Maps : x.shard \notin held[s][map]
              /\ y = StepWork(x, calls) /\ y.call = NoCall
              /\ y.procIds # {} => y.steps # <<>> /\ y.procIds = calls
              /\ y.steps # <<>> => y.shard = x.shard
              /\ calls = IF Head(x.steps) = Step("remove", {"signals"})
                         THEN {e \in Execs : channels[s][object[s][x.shard]].chan[e] # 0} ELSE {}
              /\ Outstanding(y, StepMaps(x, held[s]), Assigned(s, ring[s]))
              /\ work' = [work EXCEPT ![s] = y]
              /\ held' = [held EXCEPT ![s] = StepMaps(x, held[s])]
              /\ IF Head(x.steps) = Step("add", {"channels"})
                 THEN /\ channels' = [channels EXCEPT ![s] = Append(channels[s], NewChannels(Execs))]
                      /\ object' = [object EXCEPT ![s][x.shard] = Len(channels[s]) + 1]
                 ELSE UNCHANGED <<channels, object>>
              /\ worker' = [worker EXCEPT ![s].moved =
                    @ \/ (/\ Head(x.steps).op = "remove" /\ worker[s].pc \in {"processing", "notifying"}
                          /\ ShardOf[worker[s].exec] = x.shard)]
              /\ UNCHANGED <<up, ring, status, waiter, joins, faults>>
  BY StepTaken
<1>h. PICK h \in Shards : h = x.shard
  BY <1>1
<1>2. PICK step : step = Head(x.steps)
  OBVIOUS
<1>m. PICK maps \in [Maps -> SUBSET Shards] : maps = held[s]
  BY DEF ServiceInv, Typing
<1>3. PICK new, target : new = StepMaps(x, maps) /\ target = Assigned(s, ring[s])
  OBVIOUS
<1>4. new \in [Maps -> SUBSET Shards]
  BY <1>2, <1>h, <1>3, <1>m DEF StepMaps
<1>5. Outstanding(x, maps, target) /\ Outstanding(y, new, target) /\ x.steps # <<>>
  BY <1>1, <1>3, <1>m
<1>6. /\ step = x.steps[1] /\ step.maps \subseteq Maps
      /\ h \in target =>
            /\ step.op = "add" /\ h \notin maps["signals"]
            /\ h \in maps["channels"] <=> "signals" \in step.maps
            /\ "channels" \in step.maps <=> step = Step("add", {"channels"})
      /\ h \notin target => step.op = "remove" /\ h \in maps["channels"]
  BY <1>2, <1>h, <1>5, NextStepFacts
<1>7. y.steps # <<>> =>
         /\ h \in target => y.steps[1].op = "add"
         /\ h \notin target => y.steps[1].op = "remove" /\ h \in new["channels"]
  BY <1>1, <1>2, <1>h, <1>4, <1>5, NextStepFacts
<1>8. /\ \A map \in Maps : \A g \in Shards : g # h => (g \in new[map] <=> g \in maps[map])
      /\ \A map \in Maps : h \in new[map] <=> IF map \notin step.maps THEN h \in maps[map] ELSE step.op = "add"
  BY <1>2, <1>h, <1>3, <1>m DEF StepMaps
<1>9. /\ held'[s] = new /\ work'[s] = y
      /\ \A t \in Servers : t # s => held'[t] = held[t] /\ work'[t] = work[t] /\ worker'[t] = worker[t]
  BY <1>1, <1>3, <1>m DEF ServiceInv, Typing
<1>10. UNCHANGED <<up, ring, status, waiter>>
  BY <1>1
<1>11. "signals" \in Maps /\ "channels" \in Maps /\ "immediateProcessor" \in Maps
  BY DEF Maps
<1>12. PICK objects \in [Shards -> Nat], old \in Seq(Channels) : objects = object[s] /\ old = channels[s]
  BY DEF ServiceInv, Typing
<1>13. /\ \A g \in Shards : /\ objects[g] \in 0..Len(old) /\ (g \in maps["channels"] => objects[g] # 0)
                            /\ \A f \in Shards : objects[g] # 0 /\ objects[f] = objects[g] => f = g
                            /\ \A e \in Execs : objects[g] # 0 /\ old[objects[g]].chan[e] # 0 => ShardOf[e] = g
  BY <1>3, <1>m, <1>12 DEF ServiceInv, ObjectInv
<1>14. \A t \in Servers : t # s => channels'[t] = channels[t] /\ object'[t] = object[t]
  BY <1>1 DEF ServiceInv, Typing
<1>15. PICK nobjects, nold : nobjects = object'[s] /\ nold = channels'[s]
  OBVIOUS
<1>16. /\ nobjects \in [Shards -> Nat] /\ nold \in Seq(Channels) /\ Len(old) \in Nat
       /\ Len(nold) = Len(old) \/ Len(nold) = Len(old) + 1
       /\ \A o \in 1..Len(old) : nold[o] = old[o]
       /\ Len(nold) = Len(old) + 1 => nold[Len(old) + 1] = NewChannels(Execs)
       /\ \A g \in Shards : g # h => nobjects[g] = objects[g]
       /\ \/ nobjects[h] = objects[h] /\ step # Step("add", {"channels"})
          \/ nobjects[h] = Len(old) + 1 /\ Len(nold) = Len(old) + 1
  <2>1. Len(old) \in Nat
    BY <1>12
  <2>2. CASE step = Step("add", {"channels"})
    <3>1. nold = Append(old, NewChannels(Execs)) /\ nobjects = [objects EXCEPT ![h] = Len(old) + 1]
      BY <1>1, <1>2, <1>h, <1>12, <1>15, <2>2 DEF ServiceInv, Typing
    <3>2. PICK c \in Channels : c = NewChannels(Execs)
      BY RecordsTyped
    <3>3. nold = Append(old, c)
      BY <3>1, <3>2
    <3>4. /\ nold \in Seq(Channels) /\ Len(nold) = Len(old) + 1 /\ nold[Len(old) + 1] = c
          /\ \A o \in 1..Len(old) : nold[o] = old[o]
      BY <1>12, <3>3, AppendProperties
    <3>5. /\ nobjects \in [Shards -> Nat] /\ nobjects[h] = Len(old) + 1
          /\ \A g \in Shards : g # h => nobjects[g] = objects[g]
      BY <1>12, <2>1, <3>1
    <3> QED
      BY <2>1, <3>2, <3>4, <3>5
  <2>3. CASE step # Step("add", {"channels"})
    <3>1. nold = old /\ nobjects = objects
      BY <1>1, <1>2, <1>h, <1>12, <1>15, <2>3
    <3>2. Len(nold) # Len(old) + 1
      BY <2>1, <3>1
    <3> QED
      BY <1>12, <2>1, <2>3, <3>1, <3>2
  <2> QED
    BY <2>2, <2>3
<1>17. ASSUME NEW o \in 1..Len(old), NEW e \in Execs, Ended(s, o, e) PROVE Ended(s, o, e)'
  <2>1. PICK g \in Shards : g = ShardOf[e]
    BY ShardAssumption
  <2>2. CASE status[e] # "Running"
    BY <1>10, <2>2 DEF Ended
  <2>3. CASE objects[g] # o
    <3>1. nobjects[g] # o
      BY <1>16, <2>3
    <3> QED
      BY <1>15, <2>1, <3>1 DEF Ended
  <2>4. CASE Stopped(s, g)
    <3>1. g \notin maps["signals"]
      BY <1>3, <1>m, <2>4 DEF Stopped
    <3>2. CASE g # h
      <4>1. g \notin new["signals"] /\ (y.steps # <<>> => y.shard # g)
        BY <1>1, <1>2, <1>h, <1>8, <1>11, <3>1, <3>2
      <4>2. Stopped(s, g)'
        BY <1>9, <4>1 DEF Stopped
      <4> QED
        BY <2>1, <4>2 DEF Ended
    <3>3. CASE g = h /\ h \in target
      <4>1. "signals" \notin step.maps
        <5>1. SUFFICES ASSUME "signals" \in step.maps PROVE FALSE
          OBVIOUS
        <5>2. h \in maps["channels"] /\ h \notin maps["signals"]
          BY <1>6, <3>3, <5>1
        <5>3. work[s].steps # <<>>
          BY <1>1, <1>2, <1>h, <1>3, <1>m, <1>11, <5>2
        <5>4. x = work[s] /\ step = work[s].steps[1] /\ step.op = "add" /\ work[s].shard = h
          BY <1>1, <1>2, <1>h, <1>6, <3>3, <5>3
        <5> QED
          BY <1>3, <1>m, <2>4, <3>3, <5>2, <5>3, <5>4 DEF Stopped
      <4>2. h \notin new["signals"]
        BY <1>8, <1>11, <3>1, <3>3, <4>1
      <4>3. CASE "channels" \in step.maps
        <5>1. nobjects[h] # o
          BY <1>6, <1>16, <3>3, <4>3
        <5> QED
          BY <1>15, <2>1, <3>3, <5>1 DEF Ended
      <4>4. CASE "channels" \notin step.maps
        <5>1. h \notin new["channels"]
          BY <1>6, <1>8, <1>11, <3>3, <4>1, <4>4
        <5>2. Stopped(s, g)'
          BY <1>9, <3>3, <4>2, <5>1 DEF Stopped
        <5> QED
          BY <2>1, <5>2 DEF Ended
      <4> QED
        BY <4>3, <4>4
    <3>4. CASE g = h /\ h \notin target
      <4>1. h \notin new["signals"]
        BY <1>6, <1>8, <1>11, <3>1, <3>4
      <4>2. y.steps # <<>> => y.steps[1].op = "remove"
        BY <1>7, <3>4
      <4>3. Stopped(s, g)'
        BY <1>9, <3>4, <4>1, <4>2 DEF Stopped
      <4> QED
        BY <2>1, <4>3 DEF Ended
    <3> QED
      BY <3>2, <3>3, <3>4
  <2> QED
    BY <1>12, <1>17, <2>1, <2>2, <2>3, <2>4 DEF Ended
<1>18. \A t \in Servers : t # s => \A o, e : Ended(t, o, e)' <=> Ended(t, o, e)
  BY <1>9, <1>10, <1>14 DEF Ended, Stopped
<1>19. PICK moved \in BOOLEAN : moved <=> (/\ step.op = "remove" /\ worker[s].pc \in {"processing", "notifying"}
                                          /\ ShardOf[worker[s].exec] = h)
  OBVIOUS
<1>20. PICK z \in WorkerStates : z = worker[s] /\ WorkerOK(s, z)
  BY DEF ServiceInv, Typing, WorkerInv
<1>21. PICK nz \in WorkerStates : nz = [z EXCEPT !.moved = z.moved \/ moved]
  BY DEF WorkerStates
<1>22. worker' = [worker EXCEPT ![s] = nz]
  BY <1>1, <1>2, <1>h, <1>19, <1>20, <1>21 DEF ServiceInv, Typing
<1>23. nz.moved = (z.moved \/ moved)
       /\ nz.pc = z.pc /\ nz.exec = z.exec /\ nz.closes = z.closes /\ nz.call = z.call
  BY <1>21 DEF WorkerStates
<1>24. Typing'
  <2>1. work' \in [Servers -> Works] /\ held' \in [Servers -> [Maps -> SUBSET Shards]]
    BY <1>1, <1>3, <1>m, <1>4 DEF ServiceInv, Typing
  <2>2. worker' \in [Servers -> WorkerStates]
    BY <1>22 DEF ServiceInv, Typing
  <2>3. channels' \in [Servers -> Seq(Channels)]
    <3>1. \A t \in Servers : channels'[t] \in Seq(Channels)
      BY <1>14, <1>15, <1>16 DEF ServiceInv, Typing
    <3>2. channels' = [t \in Servers |-> channels'[t]]
      BY <1>1 DEF ServiceInv, Typing
    <3> QED
      BY <3>1, <3>2
  <2>4. object' \in [Servers -> [Shards -> Nat]]
    <3>1. \A t \in Servers : object'[t] \in [Shards -> Nat]
      BY <1>14, <1>15, <1>16 DEF ServiceInv, Typing
    <3>2. object' = [t \in Servers |-> object'[t]]
      BY <1>1 DEF ServiceInv, Typing
    <3> QED
      BY <3>1, <3>2
  <2> QED
    BY <1>10, <2>1, <2>2, <2>3, <2>4 DEF ServiceInv, Typing
<1>25. BalanceInv'
  <2>1. \A t \in up : Assigned(t, ring[t])' = Assigned(t, ring[t])
    BY <1>10 DEF Assigned
  <2>2. ASSUME NEW t \in up PROVE Outstanding(work'[t], held'[t], Assigned(t, ring[t]))
    BY <1>1, <1>3, <1>m, <1>5, <1>9 DEF ServiceInv, BalanceInv, Typing
  <2>3. \A t \in up' : t \in ring'[t] /\ Outstanding(work'[t], held'[t], Assigned(t, ring[t])')
    BY <1>10, <2>1, <2>2 DEF ServiceInv, BalanceInv
  <2>4. ASSUME NEW t \in Servers \ up'
        PROVE  /\ held'[t] = [m \in Maps |-> {}] /\ work'[t] = NoWork /\ worker'[t] = IdleWorker
               /\ channels'[t] = <<>> /\ object'[t] = [g \in Shards |-> 0]
    <3>1. t \in Servers /\ t \notin up /\ t # s
      BY <1>1, <1>10
    <3> QED
      BY <1>9, <1>14, <3>1 DEF ServiceInv, BalanceInv
  <2> QED
    BY <2>3, <2>4 DEF BalanceInv
<1>26. ObjectInv'
  <2>1. ASSUME NEW g \in Shards PROVE ObjectInv!(s)!(g)'
    <3>1. nobjects[g] \in 0..Len(nold)
      BY <1>13, <1>16
    <3>2. g \in new["channels"] => nobjects[g] # 0
      <4>1. CASE g # h
        BY <1>8, <1>11, <1>13, <1>16, <4>1
      <4>2. CASE g = h /\ nobjects[h] = objects[h] /\ step # Step("add", {"channels"})
        BY <1>6, <1>8, <1>11, <1>13, <4>2
      <4>3. CASE g = h /\ nobjects[h] = Len(old) + 1
        BY <1>16, <4>3
      <4> QED
        BY <1>16, <4>1, <4>2, <4>3
    <3>3. \A f \in Shards : nobjects[g] # 0 /\ nobjects[f] = nobjects[g] => f = g
      BY <1>13, <1>16
    <3>4. \A e \in Execs : nobjects[g] # 0 /\ nold[nobjects[g]].chan[e] # 0 => ShardOf[e] = g
      <4>1. CASE nobjects[g] = objects[g]
        BY <1>13, <1>16, <4>1
      <4>2. CASE nobjects[g] = Len(old) + 1 /\ Len(nold) = Len(old) + 1
        BY <1>16, <4>2 DEF NewChannels
      <4> QED
        BY <1>16, <4>1, <4>2
    <3> QED
      BY <1>9, <1>15, <3>1, <3>2, <3>3, <3>4
  <2>2. ASSUME NEW t \in Servers, t # s, NEW g \in Shards PROVE ObjectInv!(t)!(g)'
    BY <1>9, <1>14, <2>2 DEF ServiceInv, ObjectInv
  <2> QED
    BY <2>1, <2>2 DEF ObjectInv
<1>27. SignalInv'
  <2>1. ASSUME NEW o \in 1..Len(nold), NEW e \in Execs
        PROVE  nold[o].chan[e] <= nold[o].made[e] /\ (nold[o].cleanups[e] > 0 => Ended(s, o, e)')
    <3>1. CASE o \in 1..Len(old)
      <4>1. nold[o] = old[o] /\ o \in DOMAIN channels[s]
        BY <1>12, <1>16, <3>1
      <4> QED
        BY <1>12, <1>17, <3>1, <4>1 DEF ServiceInv, SignalInv
    <3>2. CASE o = Len(old) + 1 /\ Len(nold) = Len(old) + 1
      <4>1. nold[o].chan[e] = 0 /\ nold[o].made[e] = 0 /\ nold[o].cleanups[e] = 0
        BY <1>16, <3>2 DEF NewChannels
      <4> QED
        BY <4>1
    <3> QED
      BY <1>16, <3>1, <3>2
  <2>2. DOMAIN channels'[s] = 1..Len(nold)
    BY <1>15, <1>16
  <2> QED
    BY <1>14, <1>15, <1>18, <2>1, <2>2 DEF ServiceInv, SignalInv
<1>28. StopInv'
  <2>1. ASSUME y.procIds # {}
        PROVE  /\ y.steps # <<>> /\ y.steps[1].op = "remove"
               /\ y.shard \notin new["signals"] /\ y.shard \in new["channels"]
               /\ \A e \in y.procIds : ShardOf[e] = y.shard
    <3>1. /\ y.steps # <<>> /\ y.procIds = calls /\ y.shard = h /\ step = Step("remove", {"signals"})
          /\ calls = {e \in Execs : channels[s][object[s][h]].chan[e] # 0}
      BY <1>1, <1>2, <1>h, <2>1
    <3>2. step.op = "remove" /\ step.maps = {"signals"}
      BY <3>1 DEF Step
    <3>3. h \notin target /\ h \in maps["channels"]
      BY <1>6, <3>2
    <3>4. y.steps[1].op = "remove" /\ h \in new["channels"] /\ h \notin new["signals"]
      BY <1>7, <1>8, <1>11, <3>1, <3>2, <3>3
    <3>5. \A e \in calls : ShardOf[e] = h
      BY <1>12, <1>13, <3>1, <3>3
    <3> QED
      BY <3>1, <3>4, <3>5
  <2>2. ASSUME NEW t \in Servers PROVE StopInv!(t)'
    <3>1. CASE t = s
      BY <1>1, <1>9, <2>1, <3>1
    <3>2. CASE t # s
      BY <1>9, <1>14, <3>2 DEF ServiceInv, StopInv
    <3> QED
      BY <3>1, <3>2
  <2> QED
    BY <2>2 DEF StopInv
<1>29. WorkerInv'
  <2>1. WorkerOK(s, nz)'
    <3>1. z.pc \in {"processing", "notifying"} => nz.moved \/ ShardOf[z.exec] \in new["immediateProcessor"]
      <4>1. SUFFICES ASSUME z.pc \in {"processing", "notifying"}, ~nz.moved
                     PROVE  ShardOf[z.exec] \in new["immediateProcessor"]
        OBVIOUS
      <4>2. ShardOf[z.exec] \in maps["immediateProcessor"] /\ ShardOf[z.exec] \in Shards
        BY <1>3, <1>m, <1>20, <1>23, <4>1, ShardAssumption DEF WorkerOK
      <4>3. ~(step.op = "remove" /\ ShardOf[z.exec] = h)
        BY <1>19, <1>20, <1>23, <4>1
      <4>4. step.op = "add" \/ step.op = "remove"
        BY <1>6
      <4> QED
        BY <1>8, <1>11, <4>2, <4>3, <4>4
    <3>2. DOMAIN channels[s] \subseteq DOMAIN channels'[s]
      BY <1>12, <1>15, <1>16
    <3> QED
      BY <1>9, <1>10, <1>20, <1>23, <3>1, <3>2 DEF WorkerOK
  <2>2. worker'[s] = nz
    BY <1>22 DEF ServiceInv, Typing
  <2>3. ASSUME NEW t \in Servers, t # s PROVE WorkerOK(t, worker[t])'
    BY <1>9, <1>10, <1>14, <2>3 DEF ServiceInv, WorkerInv, WorkerOK
  <2> QED
    BY <2>1, <2>2, <2>3 DEF WorkerInv
<1>30. ASSUME NEW w \in Waiters PROVE CallerOK(waiter[w])' /\ AnswerOK(waiter[w])'
  <2>1. PICK r \in WaiterStates : r = waiter[w] /\ CallerOK(r) /\ AnswerOK(r)
    BY CallOf
  <2>2. CASE r.pc \in {"found", "added", "waiting"} /\ r.server = s
    <3>1. PICK o \in 1..Len(old) : o = r.object
      BY <1>12, <2>1, <2>2 DEF CallerOK
    <3>2. channels'[s][o] = channels[s][o] /\ o \in DOMAIN channels'[s]
      BY <1>12, <1>15, <1>16
    <3>3. \A g \in Shards : nobjects[g] = o => objects[g] = o
      BY <1>16
    <3>4. r.exec \in Execs
      BY <2>1, <2>2 DEF CallerOK, OnServer
    <3> QED
      BY <1>10, <1>12, <1>15, <1>17, <2>1, <2>2, <3>1, <3>2, <3>3, <3>4 DEF CallerOK, AnswerOK
  <2>3. CASE r.pc \in {"found", "added", "waiting"} /\ r.server # s
    <3>1. r.server \in Servers
      BY <2>1, <2>3 DEF CallerOK, OnServer
    <3> QED
      BY <1>10, <1>14, <1>18, <2>1, <2>3, <3>1 DEF CallerOK, AnswerOK
  <2>4. CASE r.pc \notin {"found", "added", "waiting"}
    BY <1>10, <2>1, <2>4 DEF CallerOK, AnswerOK
  <2> QED
    BY <2>2, <2>3, <2>4
<1> QED
  BY <1>24, <1>25, <1>26, <1>27, <1>28, <1>29, <1>30 DEF ServiceInv, WaiterInv, AnswerInv

-----------------------------------------------------------------------------
LEMMA InitInv == Init => ServiceInv
<1> SUFFICES ASSUME Init PROVE ServiceInv
  OBVIOUS
<1> USE DEF Init
<1>1. Typing
  <2>1. work \in [Servers -> Works] /\ worker \in [Servers -> WorkerStates] /\ waiter \in [Waiters -> WaiterStates]
    BY RecordsTyped
  <2> QED
    BY <2>1 DEF Typing
<1>2. BalanceInv
  BY DEF BalanceInv
<1>3. ObjectInv
  BY DEF ObjectInv, Maps
<1>4. SignalInv
  BY DEF SignalInv
<1>5. StopInv
  BY DEF StopInv, NoWork
<1>6. WorkerInv
  BY DEF WorkerInv, WorkerOK, IdleWorker
<1>7. WaiterInv /\ AnswerInv
  BY DEF WaiterInv, AnswerInv, CallerOK, AnswerOK, NewWaiter, OnServer
<1> QED
  BY <1>1, <1>2, <1>3, <1>4, <1>5, <1>6, <1>7 DEF ServiceInv

LEMMA StutterInv ==
    ASSUME ServiceInv, UNCHANGED vars
    PROVE  ServiceInv'
<1>1. ServerInv'
  BY ServerUnchanged DEF ServiceInv, ServerInv, vars
<1>2. Typing'
  BY DEF ServiceInv, Typing, vars
<1>3. WaiterInv'
  BY DEF ServiceInv, WaiterInv, CallerOK, Ended, Stopped, vars
<1>4. AnswerInv'
  BY DEF ServiceInv, AnswerInv, AnswerOK, vars
<1> QED
  BY <1>1, <1>2, <1>3, <1>4 DEF ServiceInv, ServerInv

LEMMA NextInv == ServiceInv /\ [Next]_vars => ServiceInv'
<1> SUFFICES ASSUME ServiceInv, [Next]_vars PROVE ServiceInv'
  OBVIOUS
<1>1. CASE MemberStep
  BY <1>1, JoinInv, CrashInv, NotifyJoinInv, NotifyLeaveInv DEF MemberStep
<1>2. ASSUME NEW s \in Servers, ReBalanceStarted(s) PROVE ServiceInv'
  BY <1>2, ReBalanceStepInv, StopLooksUpInv, StopSignalsInv DEF ReBalanceStarted
<1>3. ASSUME NEW s \in Servers, WorkerStep(s) PROVE ServiceInv'
  BY <1>3, TakeTaskInv, CommitsInv, NotifiesInv, WorkerLooksUpInv, WorkerSignalsInv DEF WorkerStep
<1>4. ASSUME NEW s \in Servers, NEW e \in Execs, NEW o \in DOMAIN channels[s], CleansUp(s, o, e) PROVE ServiceInv'
  BY <1>4, CleansUpInv
<1>5. ASSUME NEW e \in Execs, ClosedByOthers(e) PROVE ServiceInv'
  BY <1>5, ClosedByOthersInv
<1>6. ASSUME NEW w \in Waiters, WaiterStep(w) PROVE ServiceInv'
  BY <1>6, ReadsStatusInv, HandlesInv, AddsItselfInv, EntersSelectInv, ReceivesNothingInv, DeadlineInv,
     IsCancelledInv DEF WaiterStep
<1>7. CASE UNCHANGED vars
  BY <1>7, StutterInv
<1> QED
  BY <1>1, <1>2, <1>3, <1>4, <1>5, <1>6, <1>7 DEF Next

-----------------------------------------------------------------------------
(* What a server holds, has to do and is about to signal agree, whatever   *)
(* the order of membership events, moves, signals, deadlines and crashes.  *)
THEOREM ServiceInvariant == Spec => []ServiceInv
<1>1. Init => ServiceInv
  BY InitInv
<1>2. ServiceInv /\ [Next]_vars => ServiceInv'
  BY NextInv
<1> QED
  BY <1>1, <1>2, PTL DEF Spec

(* Every variable keeps its type, and a server that is down has nothing. *)
THEOREM TypeCorrect == Spec => []TypeOK
<1>1. ServiceInv => TypeOK
  <2> SUFFICES ASSUME ServiceInv PROVE TypeOK
    OBVIOUS
  <2>1. ASSUME NEW s \in Servers
        PROVE  /\ s \notin up => Balanced(s) /\ worker[s] = IdleWorker
               /\ worker[s].pc \in {"idle", "processing", "notifying", "closed", "signalling"}
               /\ \A h \in Shards : object[s][h] \in 0..Len(channels[s])
    BY DEF ServiceInv, Typing, BalanceInv, Balanced, ObjectInv, WorkerStates
  <2>2. ASSUME NEW s \in Servers, NEW o \in DOMAIN channels[s], NEW e \in Execs
        PROVE  channels[s][o].chan[e] \in 0..channels[s][o].made[e] /\ channels[s][o].waiting[e] \subseteq Waiters
    BY <2>2, OldChannels DEF Channels
  <2>3. ASSUME NEW w \in Waiters
        PROVE  /\ waiter[w].pc \in OnServer \cup {"new", "done"}
               /\ waiter[w].pc \in OnServer => waiter[w].server \in Servers
               /\ waiter[w].pc \in {"found", "added", "waiting"} =>
                     waiter[w].object \in DOMAIN channels[waiter[w].server]
    BY CallOf DEF CallerOK, WaiterStates
  <2> QED
    BY <2>1, <2>2, <2>3 DEF TypeOK, ServiceInv, Typing
<1> QED
  BY <1>1, ServiceInvariant, PTL

(* A server that is not re-balancing holds exactly the shards of its ring  *)
(* in all its maps, and ReBalance never registers a queue twice.           *)
THEOREM RegistrationsInStep == Spec => []RegistrationsAgree
<1>1. ServiceInv => RegistrationsAgree
  <2> SUFFICES ASSUME ServiceInv, NEW s \in up
               PROVE  /\ Balanced(s) => \A map \in Maps : held[s][map] = Assigned(s, ring[s])
                      /\ \A x \in AtWork(s) : ~Registered(s, x)
    BY DEF RegistrationsAgree
  <2>1. s \in Servers /\ held[s] \in [Maps -> SUBSET Shards] /\ Outstanding(work[s], held[s], Assigned(s, ring[s]))
    BY DEF ServiceInv, Typing, BalanceInv
  <2>2. ASSUME Balanced(s), NEW map \in Maps PROVE held[s][map] = Assigned(s, ring[s])
    <3>1. \A h \in Shards : h \in held[s][map] <=> h \in Assigned(s, ring[s])
      BY <2>1, <2>2 DEF Balanced, Outstanding, NoWork
    <3> QED
      BY <2>1, <3>1 DEF Assigned
  <2>3. ASSUME NEW x \in AtWork(s) PROVE ~Registered(s, x)
    <3>1. x \in Works /\ x.steps # <<>> /\ Outstanding(x, held[s], Assigned(s, ring[s]))
      BY AtWorkOutstanding DEF ServiceInv
    <3>2. PICK k \in 0..4 :
              \/ /\ x.shard \in Assigned(s, ring[s]) /\ Creating(x, held[s], k)
                 /\ x.steps[1] = CreateSteps[k + 1]
              \/ /\ x.shard \notin Assigned(s, ring[s]) /\ Stopping(x, held[s], k)
                 /\ x.steps[1] = StopSteps[k + 1]
      BY <2>1, <3>1, CurrentStep
    <3>3. CASE Creating(x, held[s], k) /\ x.steps[1] = CreateSteps[k + 1]
      <4>1. ASSUME NEW map \in x.steps[1].maps PROVE x.shard \notin held[s][map]
        <5>1. map \in Maps /\ map \in CreateSteps[k + 1].maps /\ k + 1 \in 1..5
          BY <3>3, CreateFacts
        <5>2. ~Changes(CreateSteps, k, map)
          <6>1. \A i \in 1..k : i \in 1..5 /\ i # k + 1
            OBVIOUS
          <6> QED
            BY <5>1, <6>1, CreateFacts DEF Changes
        <5> QED
          BY <3>3, <5>1, <5>2 DEF Creating
      <4> QED
        BY <4>1 DEF Registered
    <3>4. CASE x.steps[1] = StopSteps[k + 1]
      BY <3>4, StopFacts DEF Registered
    <3> QED
      BY <3>2, <3>3, <3>4
  <2> QED
    BY <2>2, <2>3
<1> QED
  BY <1>1, ServiceInvariant, PTL

(* A worker that comes to notify a queue finds it, unless the shard has    *)
(* left its server since it took the task, or its timer queue is not yet   *)
(* registered.                                                             *)
THEOREM NotificationFindsQueue == Spec => []PanicOnlyAfterMove
<1>1. ServiceInv => PanicOnlyAfterMove
  <2> SUFFICES ASSUME ServiceInv, NEW s \in Servers, NEW map \in Notified(worker[s]),
                      worker[s].pc = "notifying", ShardOf[worker[s].exec] \notin held[s][map], ~worker[s].moved
               PROVE  map = "timerNotifier" /\ work[s].shard = ShardOf[worker[s].exec]
    BY DEF PanicOnlyAfterMove
  <2>1. /\ worker[s].exec \in Execs /\ map \in {"immediateNotifier", "timerNotifier"}
        /\ ShardOf[worker[s].exec] \in held[s]["immediateProcessor"]
    BY DEF ServiceInv, Typing, WorkerInv, WorkerOK, WorkerStates, Notified
  <2>2. ShardOf[worker[s].exec] \in Shards
    BY <2>1, ShardAssumption
  <2> QED
    BY <2>1, <2>2, HeldFacts DEF ServiceInv
<1> QED
  BY <1>1, ServiceInvariant, PTL

(* A status that a caller is told is the one with which its execution was  *)
(* closed.                                                                 *)
THEOREM AnswersStayTrue == Spec => []AnswersAreFinal
<1>1. ServiceInv => AnswersAreFinal
  BY DEF ServiceInv, AnswerInv, AnswerOK, AnswersAreFinal
<1> QED
  BY <1>1, ServiceInvariant, PTL

(* A channel is closed under a caller only if its execution has closed or  *)
(* its shard has left the server, whatever the deadlines of others.        *)
THEOREM NoChannelClosedEarly == Spec => []ClosedOnlyAfterSignal
<1>1. ServiceInv => ClosedOnlyAfterSignal
  BY DEF ServiceInv, WaiterInv, CallerOK, ClosedOnlyAfterSignal, Ended, Stopped
<1> QED
  BY <1>1, ServiceInvariant, PTL

(* A caller whom a signal missed has a closed channel, or a clean-up that  *)
(* will close it.                                                          *)
THEOREM MissedCallersWake == Spec => []SignalledWillWake
<1>1. ServiceInv => SignalledWillWake
  BY DEF ServiceInv, WaiterInv, CallerOK, SignalledWillWake
<1> QED
  BY <1>1, ServiceInvariant, PTL
=============================================================================
