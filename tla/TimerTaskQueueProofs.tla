------------------------ MODULE TimerTaskQueueProofs ------------------------
(***************************************************************************)
(* Theorems about TimerTaskQueue, for every number of workers, timers and  *)
(* crashes, and every size of the buffers, the page and the window.        *)
(*                                                                         *)
(* The inductive invariant is QueueInv.  To the properties themselves it   *)
(* adds that the requests lie inside the window, that the trigger gate has *)
(* its alarm while the queue loads or sends, and that the preload gate is  *)
(* never set for a time after the end of the window.  The bound on the     *)
(* delay rests on DelayInv: a timer that the queue does not know of was    *)
(* inserted after the last load or is not due before the window ends.      *)
(***************************************************************************)
EXTENDS TimerTaskQueue, FiniteMinMax

-----------------------------------------------------------------------------
(* The inductive invariant.                                                *)

GateRecords == [active : BOOLEAN, armed : BOOLEAN, wake : Nat, tick : BOOLEAN, signal : BOOLEAN]

TypedGates ==
    /\ preload \in GateRecords /\ firing \in GateRecords /\ trigger \in GateRecords
    /\ TypedGate(preload) /\ TypedGate(firing) /\ TypedGate(trigger)

TypedTable ==
    /\ now \in 0..MaxTime /\ crashes \in 0..MaxCrashes
    /\ fire \in [Timers -> Nat] /\ since \in [Timers -> 0..Never]
    /\ rows \subseteq Inserted
    /\ notices \subseteq Inserted
    /\ processed \subseteq Inserted

TypedQueue ==
    /\ polling \subseteq Inserted /\ Cardinality(polling) <= NotifyBufferSize
    /\ requests \subseteq FireTimes(Inserted)
    /\ heap \subseteq Inserted /\ maxLoaded \in Inserted \cup {0} /\ window \in Nat
    /\ pc \in {"select", "sending", "loading"}

TypedProcessor ==
    /\ toProcess \in Seq(Inserted) /\ Len(toProcess) <= BufferSize
    /\ worker \in [Workers -> [pc : {"idle", "processing", "requeue"}, task : Nat]]
    /\ \A w \in Workers : worker[w].task \in IF worker[w].pc = "idle" THEN {0} ELSE Inserted

Typing == TypedTable /\ TypedQueue /\ TypedGates /\ TypedProcessor

(* The alarms, timer by timer and for every place of the queue's goroutine. *)
FiringIsSet == pc = "select" => \A n \in heap : WillSignalBy(firing, fire[n])
TriggerIsSet == \A t \in requests : t <= window /\ WillSignalBy(trigger, t)
PreloadIsSet == pc = "select" => heap # {} \/ preload.signal \/ preload.tick \/ preload.armed
PreloadInWindow == preload.armed => preload.wake <= window \/ preload.wake <= now

Alarms == FiringIsSet /\ TriggerIsSet /\ PreloadIsSet /\ PreloadInWindow /\ HeapWasLoaded

QueueInv == Typing /\ Alarms

(* Time t is not late for a timer: it is not due before t, or it was       *)
(* inserted less than one look-ahead before t.                             *)
NotLate(n, t) == t <= fire[n] \/ t <= since[n] + LookAhead + Jitter - 1

(* A timer the queue does not know of was inserted after the last load, or *)
(* is not due before the window ends.                                      *)
DelayInv ==
    /\ window <= now + LookAhead + Jitter - 1
    /\ \A n \in rows \ processed :
          /\ n \in heap \/ InProcessor(n) \/ NotLate(n, window)
          /\ Punctual => NotLate(n, now)

-----------------------------------------------------------------------------
(* The gates.                                                              *)

(* Whatever is done to a gate, it is a gate, and one that is active will   *)
(* tick.                                                                   *)
LEMMA GatesStayTyped ==
    ASSUME NEW g \in GateRecords, TypedGate(g), NEW t \in Nat
    PROVE  /\ Update(g, t) \in GateRecords /\ TypedGate(Update(g, t))
           /\ Stop(g) \in GateRecords /\ TypedGate(Stop(g))
           /\ Expire(g) \in GateRecords /\ TypedGate(Expire(g))
           /\ Forward(g) \in GateRecords /\ TypedGate(Forward(g))
           /\ Received(g) \in GateRecords /\ TypedGate(Received(g))
BY DEF GateRecords, TypedGate, Update, Stop, Expire, Forward, Received

(* A new gate, and one that is set on a new server. *)
LEMMA NewGateTyped ==
    ASSUME NEW t \in Nat
    PROVE  /\ NewGate \in GateRecords /\ TypedGate(NewGate)
           /\ Update(NewGate, t) \in GateRecords /\ TypedGate(Update(NewGate, t))
           /\ Update(NewGate, t).armed /\ Update(NewGate, t).wake = t
BY DEF GateRecords, TypedGate, Update, NewGate

(* An update keeps every alarm there is and adds one for its own time. *)
LEMMA UpdateSetsAlarm ==
    ASSUME NEW g \in GateRecords, NEW t \in Nat, NEW u \in Nat,
           t <= u \/ WillSignalBy(g, u)
    PROVE  WillSignalBy(Update(g, t), u)
BY DEF GateRecords, WillSignalBy, Update

(* An active gate that does not fire after t needs no update for t. *)
LEMMA NoUpdateNeeded ==
    ASSUME NEW g \in GateRecords, TypedGate(g), NEW t \in Nat, ~InactiveOrFireAfter(g, t)
    PROVE  WillSignalBy(g, t)
BY DEF GateRecords, TypedGate, InactiveOrFireAfter, WillSignalBy

(* An alarm holds for every later time. *)
LEMMA LaterAlarm ==
    ASSUME NEW g \in GateRecords, NEW t \in Nat, NEW u \in Nat, t <= u, WillSignalBy(g, t)
    PROVE  WillSignalBy(g, u)
BY DEF GateRecords, WillSignalBy

(* Ticks and signals of a gate keep its alarms. *)
LEMMA GateKeepsAlarm ==
    ASSUME NEW g \in GateRecords, NEW t \in Nat, WillSignalBy(g, t)
    PROVE  WillSignalBy(Expire(g), t) /\ WillSignalBy(Forward(g), t)
BY DEF GateRecords, WillSignalBy, Expire, Forward

-----------------------------------------------------------------------------
(* Facts about the table.                                                  *)

(* Timers are finitely many natural numbers, and so are those inserted. *)
LEMMA TimerFacts ==
    ASSUME Typing
    PROVE  /\ Timers \subseteq Nat \ {0} /\ Inserted \subseteq Timers /\ Never \in Nat /\ now \in Nat
           /\ \A S \in SUBSET Timers : IsFiniteSet(S) /\ FireTimes(S) \in SUBSET Nat
           /\ \A S \in SUBSET Timers : S # {} => FireTimes(S) # {}
<1> USE TimerSizeAssumption DEF Timers, Never, Inserted
<1>1. IsFiniteSet(Timers)
  BY FS_Interval
<1>2. \A S \in SUBSET Timers : IsFiniteSet(S)
  BY <1>1, FS_Subset
<1>3. fire \in [Timers -> Nat] /\ now \in 0..MaxTime
  BY DEF Typing, TypedTable
<1>4. ASSUME NEW S \in SUBSET Timers
      PROVE  FireTimes(S) \in SUBSET Nat /\ (S # {} => FireTimes(S) # {})
  BY <1>3 DEF FireTimes
<1>5. Timers \subseteq Nat \ {0} /\ Inserted \subseteq Timers /\ Never \in Nat /\ now \in Nat
  BY <1>3
<1> QED
  BY <1>2, <1>4, <1>5

(* The earliest of some timers. *)
LEMMA EarliestTimer ==
    ASSUME Typing, NEW S \in SUBSET Timers, S # {}
    PROVE  /\ Min(FireTimes(S)) \in Nat
           /\ \E n \in S : Min(FireTimes(S)) = fire[n]
           /\ \A n \in S : Min(FireTimes(S)) <= fire[n]
<1>1. FireTimes(S) \in SUBSET Nat /\ FireTimes(S) # {}
  BY TimerFacts
<1>2. /\ Min(FireTimes(S)) \in FireTimes(S) /\ Min(FireTimes(S)) \in Nat
      /\ \A t \in FireTimes(S) : Min(FireTimes(S)) <= t
  BY <1>1, MinOfNats
<1> QED
  BY <1>2 DEF FireTimes

-----------------------------------------------------------------------------
(* One lemma per action.                                                   *)

(* A new row changes nothing about the timers there are. *)
LEMMA InsertTimerKeeps ==
    ASSUME QueueInv, NEW n \in Timers, NEW t \in FireTimestamps, InsertTimer(n, t)
    PROVE  QueueInv'
<1> USE TimerSizeAssumption DEF table, gates, loaded, processor, memory
<1>1. /\ Inserted' = Inserted \cup {n} /\ n \notin Inserted
      /\ \A m \in Inserted : fire'[m] = fire[m]
      /\ fire' \in [Timers -> Nat] /\ since' \in [Timers -> 0..Never]
  BY TimerFacts DEF QueueInv, Typing, TypedTable, InsertTimer, Inserted, Never
<1>2. TypedTable'
  BY <1>1 DEF QueueInv, Typing, TypedTable, InsertTimer
<1>3. TypedQueue'
  BY <1>1 DEF QueueInv, Typing, TypedQueue, InsertTimer, FireTimes
<1>4. TypedGates'
  BY DEF QueueInv, Typing, TypedGates, InsertTimer
<1>5. TypedProcessor'
  <2>1. Seq(Inserted) \subseteq Seq(Inserted')
    BY <1>1
  <2> QED
    BY <1>1, <2>1 DEF QueueInv, Typing, TypedProcessor, InsertTimer
<1>6. Alarms'
  BY <1>1 DEF QueueInv, Typing, TypedQueue, Alarms, FiringIsSet, TriggerIsSet, PreloadIsSet, PreloadInWindow,
              HeapWasLoaded, InsertTimer
<1> QED
  BY <1>2, <1>3, <1>4, <1>5, <1>6 DEF QueueInv, Typing

(* A notification reaches the channel. *)
LEMMA NotifyKeeps ==
    ASSUME QueueInv, NEW n \in Timers, Notify(n)
    PROVE  QueueInv'
<1> USE TimerSizeAssumption DEF table, gates, loaded, processor, memory
<1>1. Inserted' = Inserted /\ fire' = fire
  BY DEF Notify, Inserted
<1>2. Cardinality(polling') <= NotifyBufferSize
  <2>1. IsFiniteSet(polling) /\ Cardinality(polling) \in Nat
    BY TimerFacts, FS_CardinalityType DEF QueueInv, Typing, TypedQueue
  <2>2. Cardinality(polling \cup {n}) = IF n \in polling THEN Cardinality(polling) ELSE Cardinality(polling) + 1
    BY <2>1, FS_AddElement, Zenon
  <2>3. Cardinality(polling) + 1 <= NotifyBufferSize /\ polling' = polling \cup {n}
    BY <2>1 DEF Notify
  <2> QED
    BY <2>1, <2>2, <2>3
<1>3. TypedTable'
  BY <1>1 DEF QueueInv, Typing, TypedTable, Notify
<1>4. TypedQueue'
  BY <1>1, <1>2 DEF QueueInv, Typing, TypedTable, TypedQueue, Notify, FireTimes
<1>5. TypedGates' /\ TypedProcessor'
  BY <1>1 DEF QueueInv, Typing, TypedGates, TypedProcessor, Notify
<1>6. Alarms'
  BY <1>1 DEF QueueInv, Alarms, FiringIsSet, TriggerIsSet, PreloadIsSet, PreloadInWindow, HeapWasLoaded, Notify
<1> QED
  BY <1>3, <1>4, <1>5, <1>6 DEF QueueInv, Typing

(* A gate ticks or signals: no alarm is lost. *)
LEMMA GateStepKeeps ==
    ASSUME QueueInv, GateStep
    PROVE  QueueInv'
<1> USE TimerSizeAssumption DEF table, gates, loaded, processor, memory
<1>1. Inserted' = Inserted /\ fire' = fire
  BY DEF GateStep, Inserted
<1>2. TypedTable' /\ TypedQueue' /\ TypedProcessor'
  BY <1>1 DEF QueueInv, Typing, TypedTable, TypedQueue, TypedProcessor, GateStep, FireTimes
<1>3. /\ preload' \in {preload, Expire(preload), Forward(preload)}
      /\ firing' \in {firing, Expire(firing), Forward(firing)}
      /\ trigger' \in {trigger, Expire(trigger), Forward(trigger)}
  BY DEF GateStep
<1>4. TypedGates'
  BY <1>3, GatesStayTyped DEF QueueInv, Typing, TypedGates
<1>5. FiringIsSet'
  <2> SUFFICES ASSUME pc = "select", NEW n \in heap
               PROVE  WillSignalBy(firing', fire[n])
    BY <1>1 DEF FiringIsSet, GateStep
  <2>1. WillSignalBy(firing, fire[n]) /\ fire[n] \in Nat /\ firing \in GateRecords
    BY TimerFacts DEF QueueInv, Alarms, FiringIsSet, Typing, TypedTable, TypedQueue, TypedGates
  <2> QED
    BY <2>1, <1>3, GateKeepsAlarm
<1>6. TriggerIsSet'
  <2> SUFFICES ASSUME NEW t \in requests
               PROVE  t <= window /\ WillSignalBy(trigger', t)
    BY <1>1 DEF TriggerIsSet, GateStep
  <2>1. WillSignalBy(trigger, t) /\ t <= window /\ t \in Nat /\ trigger \in GateRecords
    BY TimerFacts DEF QueueInv, Alarms, TriggerIsSet, Typing, TypedTable, TypedQueue, TypedGates
  <2> QED
    BY <2>1, <1>3, GateKeepsAlarm
<1>7. PreloadIsSet' /\ PreloadInWindow'
  BY <1>3 DEF QueueInv, Alarms, PreloadIsSet, PreloadInWindow, Typing, TypedGates, GateRecords, GateStep, Expire, Forward
<1>8. HeapWasLoaded'
  BY <1>1 DEF QueueInv, Alarms, HeapWasLoaded, GateStep
<1> QED
  BY <1>2, <1>4, <1>5, <1>6, <1>7, <1>8 DEF QueueInv, Typing, Alarms

(* The preload signal is taken only to load, or while another alarm is set. *)
LEMMA ReceivePreloadKeeps ==
    ASSUME QueueInv, ReceivePreload
    PROVE  QueueInv'
<1> USE TimerSizeAssumption DEF table, gates, loaded, processor, memory
<1>1. Inserted' = Inserted /\ fire' = fire
  BY DEF ReceivePreload, Inserted
<1>2. TypedTable' /\ TypedQueue' /\ TypedProcessor'
  BY <1>1 DEF QueueInv, Typing, TypedTable, TypedQueue, TypedProcessor, ReceivePreload, FireTimes
<1>3. TypedGates'
  BY GatesStayTyped DEF QueueInv, Typing, TypedGates, ReceivePreload
<1>4. FiringIsSet' /\ TriggerIsSet' /\ HeapWasLoaded'
  BY <1>1 DEF QueueInv, Alarms, FiringIsSet, TriggerIsSet, HeapWasLoaded, ReceivePreload
<1>5. PreloadIsSet' /\ PreloadInWindow'
  BY DEF QueueInv, Alarms, PreloadIsSet, PreloadInWindow, Typing, TypedGates, TypedGate, GateRecords,
         ReceivePreload, Received, ShouldLoadNextWindowBatch, IsActive
<1> QED
  BY <1>2, <1>3, <1>4, <1>5 DEF QueueInv, Typing, Alarms

(* The firing signal is taken to send. *)
LEMMA ReceiveFiringKeeps ==
    ASSUME QueueInv, ReceiveFiring
    PROVE  QueueInv'
<1> USE TimerSizeAssumption DEF table, gates, loaded, processor, memory
<1>1. Inserted' = Inserted /\ fire' = fire
  BY DEF ReceiveFiring, Inserted
<1>2. TypedTable' /\ TypedQueue' /\ TypedProcessor'
  BY <1>1 DEF QueueInv, Typing, TypedTable, TypedQueue, TypedProcessor, ReceiveFiring, FireTimes
<1>3. TypedGates'
  BY GatesStayTyped DEF QueueInv, Typing, TypedGates, ReceiveFiring
<1>4. Alarms'
  BY <1>1 DEF QueueInv, Alarms, FiringIsSet, TriggerIsSet, PreloadIsSet, PreloadInWindow, HeapWasLoaded, ReceiveFiring
<1> QED
  BY <1>2, <1>3, <1>4 DEF QueueInv, Typing

(* A page of the table, read up to t. *)
LEMMA PageFacts ==
    ASSUME QueueInv, NEW t \in Nat
    PROVE  LET page == GetTimerTasksUpToTimestamp(t)
               last == IF Cardinality(page) = PageSize THEN Max(FireTimes(page)) ELSE t
           IN  /\ page \in SUBSET Inserted
               /\ last \in Nat /\ last <= t
               /\ Max(page \cup {0}) \in page \cup {0}
               /\ \A n \in page : fire[n] <= last /\ n <= Max(page \cup {0})
<1> DEFINE page == GetTimerTasksUpToTimestamp(t)
           last == IF Cardinality(page) = PageSize THEN Max(FireTimes(page)) ELSE t
<1> USE TimerSizeAssumption
<1>1. page \in SUBSET Inserted /\ \A n \in page : fire[n] <= t
  BY DEF GetTimerTasksUpToTimestamp, QueueInv, Typing, TypedTable
<1> HIDE DEF page
<1>2. Inserted \subseteq Timers /\ Timers \subseteq Nat \ {0} /\ Timers = 1..MaxTimers
  BY TimerFacts DEF QueueInv, Timers
<1>3. Max(page \cup {0}) \in page \cup {0} /\ \A n \in page \cup {0} : n <= Max(page \cup {0})
  <2>1. page \cup {0} \in SUBSET Nat /\ \A n \in page \cup {0} : n <= MaxTimers
    BY <1>1, <1>2
  <2> QED
    BY <2>1, MaxOfNats
<1>4. CASE Cardinality(page) = PageSize
  <2>1. page # {}
    BY <1>4, FS_EmptySet
  <2>2. FireTimes(page) \in SUBSET Nat /\ FireTimes(page) # {}
    BY <2>1, <1>1, <1>2, TimerFacts DEF QueueInv
  <2>3. \A u \in FireTimes(page) : u <= t
    BY <1>1 DEF FireTimes
  <2>4. /\ Max(FireTimes(page)) \in FireTimes(page) /\ Max(FireTimes(page)) \in Nat
        /\ \A u \in FireTimes(page) : u <= Max(FireTimes(page))
    BY <2>2, <2>3, MaxOfNats
  <2>5. \A n \in page : fire[n] \in FireTimes(page)
    BY DEF FireTimes
  <2> QED
    BY <1>1, <1>3, <1>4, <2>3, <2>4, <2>5 DEF page
<1>5. CASE Cardinality(page) # PageSize
  BY <1>1, <1>3, <1>5 DEF page
<1> QED
  BY <1>4, <1>5

(* A load sets the firing gate for the first timer of the page and the     *)
(* preload gate for the end of the window.                                 *)
LEMMA LoadKeeps ==
    ASSUME QueueInv, LoadAndDispatchAndPrepareNext
    PROVE  QueueInv'
<1> USE TimerSizeAssumption DEF table, gates, loaded, processor, memory
<1>1. Inserted' = Inserted /\ fire' = fire
  BY DEF LoadAndDispatchAndPrepareNext, Inserted
<1>2. PICK t \in GetNextPollTimes(LookAhead) :
         LET page == GetTimerTasksUpToTimestamp(t)
             last == IF Cardinality(page) = PageSize THEN Max(FireTimes(page)) ELSE t
         IN  /\ heap' = page
             /\ firing' = IF page = {} THEN firing ELSE Update(firing, Min(FireTimes(page)))
             /\ preload' = Update(preload, last)
             /\ window' = last
             /\ maxLoaded' = Max(page \cup {0})
  BY DEF LoadAndDispatchAndPrepareNext
<1>3. t \in Nat
  BY TimerFacts DEF GetNextPollTimes, QueueInv
<1> DEFINE page == GetTimerTasksUpToTimestamp(t)
           last == IF Cardinality(page) = PageSize THEN Max(FireTimes(page)) ELSE t
<1>4. /\ heap' = page /\ window' = last /\ maxLoaded' = Max(page \cup {0})
      /\ preload' = Update(preload, last)
      /\ firing' = IF page = {} THEN firing ELSE Update(firing, Min(FireTimes(page)))
      /\ polling' = {} /\ requests' = {} /\ trigger' = Stop(trigger) /\ pc' = "select"
  BY <1>2 DEF LoadAndDispatchAndPrepareNext
<1>5. /\ page \in SUBSET Inserted /\ last \in Nat
      /\ Max(page \cup {0}) \in page \cup {0}
      /\ \A n \in page : fire[n] <= last /\ n <= Max(page \cup {0})
  BY <1>3, PageFacts
<1> HIDE DEF page, last
<1>6. page # {} => /\ Min(FireTimes(page)) \in Nat
                   /\ \A n \in page : Min(FireTimes(page)) <= fire[n]
  BY <1>5, EarliestTimer, TimerFacts DEF QueueInv
<1>7. TypedTable' /\ TypedProcessor'
  BY <1>1 DEF QueueInv, Typing, TypedTable, TypedProcessor, LoadAndDispatchAndPrepareNext
<1>8. TypedQueue'
  BY <1>1, <1>4, <1>5, FS_EmptySet DEF TypedQueue, FireTimes
<1>9. TypedGates'
  BY <1>4, <1>5, <1>6, GatesStayTyped DEF QueueInv, Typing, TypedGates
<1>10. FiringIsSet'
  <2> SUFFICES ASSUME NEW n \in page PROVE WillSignalBy(firing', fire[n])
    BY <1>1, <1>4 DEF FiringIsSet
  <2>1. fire[n] \in Nat /\ firing \in GateRecords
    BY <1>5, TimerFacts DEF QueueInv, Typing, TypedTable, TypedGates
  <2> QED
    BY <2>1, <1>4, <1>6, UpdateSetsAlarm
<1>11. TriggerIsSet'
  BY <1>4 DEF TriggerIsSet
<1>12. PreloadIsSet' /\ PreloadInWindow'
  BY <1>4, <1>5 DEF QueueInv, Typing, TypedGates, GateRecords, PreloadIsSet, PreloadInWindow, Update
<1>13. HeapWasLoaded'
  BY <1>1, <1>4, <1>5 DEF HeapWasLoaded
<1> QED
  BY <1>7, <1>8, <1>9, <1>10, <1>11, <1>12, <1>13 DEF QueueInv, Typing, Alarms

(* A fired timer goes to the processor. *)
LEMMA SendKeeps ==
    ASSUME QueueInv, SendFiredTimerTask
    PROVE  QueueInv'
<1> USE TimerSizeAssumption DEF table, gates, loaded, processor, memory
<1>1. Inserted' = Inserted /\ fire' = fire
  BY DEF SendFiredTimerTask, Inserted
<1>2. TypedTable' /\ TypedQueue' /\ TypedGates'
  BY <1>1 DEF QueueInv, Typing, TypedTable, TypedQueue, TypedGates, SendFiredTimerTask, FireTimes
<1>3. TypedProcessor'
  BY <1>1 DEF QueueInv, Typing, TypedQueue, TypedProcessor, SendFiredTimerTask
<1>4. Alarms'
  BY <1>1 DEF QueueInv, Alarms, FiringIsSet, TriggerIsSet, PreloadIsSet, PreloadInWindow, HeapWasLoaded,
              SendFiredTimerTask
<1> QED
  BY <1>2, <1>3, <1>4 DEF QueueInv, Typing

(* After the sends the firing gate is set for the first timer that is      *)
(* left; without one the queue loads, unless the preload gate is active.   *)
LEMMA EndSendingKeeps ==
    ASSUME QueueInv, EndSending
    PROVE  QueueInv'
<1> USE TimerSizeAssumption DEF table, gates, loaded, processor, memory
<1>1. Inserted' = Inserted /\ fire' = fire
  BY DEF EndSending, Inserted
<1>2. heap # {} => /\ Min(FireTimes(heap)) \in Nat
                   /\ \A n \in heap : Min(FireTimes(heap)) <= fire[n]
  BY EarliestTimer, TimerFacts DEF QueueInv, Typing, TypedQueue
<1>3. TypedTable' /\ TypedQueue' /\ TypedProcessor'
  BY <1>1 DEF QueueInv, Typing, TypedTable, TypedQueue, TypedProcessor, EndSending, FireTimes
<1>4. firing' = IF heap = {} THEN firing ELSE Update(firing, Min(FireTimes(heap)))
  BY DEF EndSending
<1>5. TypedGates'
  BY <1>2, <1>4, GatesStayTyped DEF QueueInv, Typing, TypedGates, EndSending
<1>6. FiringIsSet'
  <2> SUFFICES ASSUME NEW n \in heap PROVE WillSignalBy(firing', fire[n])
    BY <1>1 DEF FiringIsSet, EndSending
  <2>1. fire[n] \in Nat /\ firing \in GateRecords
    BY TimerFacts DEF QueueInv, Typing, TypedTable, TypedQueue, TypedGates
  <2> QED
    BY <2>1, <1>2, <1>4, UpdateSetsAlarm
<1>7. TriggerIsSet' /\ HeapWasLoaded'
  BY <1>1 DEF QueueInv, Alarms, TriggerIsSet, HeapWasLoaded, EndSending
<1>8. PreloadIsSet' /\ PreloadInWindow'
  BY DEF QueueInv, Alarms, PreloadIsSet, PreloadInWindow, Typing, TypedGates, TypedGate, GateRecords,
         EndSending, ShouldLoadNextWindowBatch, IsActive
<1> QED
  BY <1>3, <1>5, <1>6, <1>7, <1>8 DEF QueueInv, Typing, Alarms

(* The requests that lie inside the window get an alarm. *)
LEMMA DrainKeeps ==
    ASSUME QueueInv, DrainAllNotifyRequests
    PROVE  QueueInv'
<1> USE TimerSizeAssumption DEF table, gates, loaded, processor, memory
<1> DEFINE times == FilterNotifyRequest(FireTimes(polling))
<1>1. Inserted' = Inserted /\ fire' = fire
  BY DEF DrainAllNotifyRequests, Inserted
<1>2. times \in SUBSET Nat /\ times \subseteq FireTimes(Inserted) /\ \A t \in times : t <= window
  BY TimerFacts DEF FilterNotifyRequest, FireTimes, QueueInv, Typing, TypedTable, TypedQueue
<1>3. /\ polling' = {} /\ requests' = requests \cup times
      /\ trigger' = IF times # {} /\ InactiveOrFireAfter(trigger, Min(times))
                    THEN Update(trigger, Min(times)) ELSE trigger
  BY DEF DrainAllNotifyRequests
<1> HIDE DEF times
<1>4. times # {} => Min(times) \in Nat /\ \A t \in times : Min(times) <= t
  BY <1>2, MinOfNats
<1>5. TypedTable' /\ TypedProcessor'
  BY <1>1 DEF QueueInv, Typing, TypedTable, TypedProcessor, DrainAllNotifyRequests
<1>6. TypedQueue'
  <2>1. Cardinality(polling') <= NotifyBufferSize
    BY <1>3, FS_EmptySet
  <2>2. requests' \subseteq FireTimes(Inserted)'
    BY <1>1, <1>2, <1>3 DEF QueueInv, Typing, TypedQueue, FireTimes
  <2> QED
    BY <1>1, <1>3, <2>1, <2>2 DEF QueueInv, Typing, TypedQueue, DrainAllNotifyRequests
<1>7. TypedGates'
  BY <1>3, <1>4, GatesStayTyped DEF QueueInv, Typing, TypedGates, DrainAllNotifyRequests
<1>8. TriggerIsSet'
  <2> SUFFICES ASSUME NEW t \in requests \cup times
               PROVE  t <= window /\ WillSignalBy(trigger', t)
    BY <1>1, <1>3 DEF TriggerIsSet, DrainAllNotifyRequests
  <2>1. t \in Nat /\ trigger \in GateRecords /\ TypedGate(trigger)
    BY <1>2, TimerFacts DEF QueueInv, Typing, TypedQueue, TypedGates
  <2>2. CASE t \in requests
    BY <2>1, <2>2, <1>3, <1>4, UpdateSetsAlarm DEF QueueInv, Alarms, TriggerIsSet
  <2>3. CASE t \in times
    <3>1. CASE InactiveOrFireAfter(trigger, Min(times))
      BY <3>1, <2>1, <2>3, <1>2, <1>3, <1>4, UpdateSetsAlarm
    <3>2. CASE ~InactiveOrFireAfter(trigger, Min(times))
      <4>1. WillSignalBy(trigger, Min(times))
        BY <3>2, <2>1, <2>3, <1>4, NoUpdateNeeded
      <4> QED
        BY <4>1, <3>2, <2>1, <2>3, <1>2, <1>3, <1>4, LaterAlarm
    <3> QED
      BY <3>1, <3>2
  <2> QED
    BY <2>2, <2>3
<1>9. FiringIsSet' /\ PreloadIsSet' /\ PreloadInWindow' /\ HeapWasLoaded'
  BY <1>1 DEF QueueInv, Alarms, FiringIsSet, PreloadIsSet, PreloadInWindow, HeapWasLoaded, DrainAllNotifyRequests
<1> QED
  BY <1>5, <1>6, <1>7, <1>8, <1>9 DEF QueueInv, Typing, Alarms

(* What a triggered poll finds is above the largest loaded number, lies    *)
(* inside the window, and is covered by the firing gate.                   *)
LEMMA TriggeredPollingKeeps ==
    ASSUME QueueInv, TriggeredPolling
    PROVE  QueueInv'
<1> USE TimerSizeAssumption DEF table, gates, loaded, processor, memory
<1> DEFINE new == GetTimerTasksForTimestamps(requests, maxLoaded + 1)
<1>1. Inserted' = Inserted /\ fire' = fire
  BY DEF TriggeredPolling, Inserted
<1>2. /\ Inserted \subseteq Timers /\ Timers \subseteq Nat \ {0} /\ Timers = 1..MaxTimers
      /\ maxLoaded \in Nat
  BY TimerFacts DEF QueueInv, Timers, Typing, TypedQueue
<1>3. new \in SUBSET Inserted /\ \A n \in new : fire[n] <= window /\ maxLoaded < n
  <2>1. rows \subseteq Inserted /\ \A t \in requests : t <= window
    BY DEF QueueInv, Typing, TypedTable, Alarms, TriggerIsSet
  <2>2. \A n \in new : n \in rows /\ fire[n] \in requests /\ n >= maxLoaded + 1
    BY DEF GetTimerTasksForTimestamps
  <2> HIDE DEF new
  <2>3. new \in SUBSET Inserted
    BY <2>1, <2>2
  <2>4. ASSUME NEW n \in new PROVE fire[n] <= window /\ maxLoaded < n
    <3>1. n \in Nat /\ maxLoaded \in Nat
      BY <2>3, <1>2
    <3> QED
      BY <3>1, <2>1, <2>2
  <2> QED
    BY <2>3, <2>4
<1>4. /\ requests' = {} /\ heap' = heap \cup new /\ trigger' = Received(trigger)
      /\ maxLoaded' = IF new = {} THEN maxLoaded ELSE Max(new)
      /\ firing' = IF new # {} /\ InactiveOrFireAfter(firing, Min(FireTimes(new)))
                   THEN Update(firing, Min(FireTimes(new))) ELSE firing
  BY DEF TriggeredPolling
<1> HIDE DEF new
<1>5. new # {} => /\ Min(FireTimes(new)) \in Nat
                  /\ \A n \in new : Min(FireTimes(new)) <= fire[n]
  BY <1>2, <1>3, EarliestTimer DEF QueueInv
<1>6. new # {} => Max(new) \in new /\ \A n \in new : n <= Max(new)
  <2>1. new \in SUBSET Nat /\ \A n \in new : n <= MaxTimers
    BY <1>2, <1>3
  <2> QED
    BY <2>1, MaxOfNats
<1>7. TypedTable' /\ TypedProcessor'
  BY <1>1 DEF QueueInv, Typing, TypedTable, TypedProcessor, TriggeredPolling
<1>8. TypedQueue'
  BY <1>1, <1>3, <1>4, <1>6 DEF QueueInv, Typing, TypedQueue, TriggeredPolling
<1>9. TypedGates'
  BY <1>4, <1>5, GatesStayTyped DEF QueueInv, Typing, TypedGates, TriggeredPolling
<1>10. FiringIsSet'
  <2> SUFFICES ASSUME NEW n \in heap \cup new PROVE WillSignalBy(firing', fire[n])
    BY <1>1, <1>4 DEF FiringIsSet
  <2>1. fire[n] \in Nat /\ firing \in GateRecords /\ TypedGate(firing)
    BY <1>2, <1>3 DEF QueueInv, Typing, TypedTable, TypedQueue, TypedGates
  <2>2. CASE n \in heap
    BY <2>1, <2>2, <1>4, <1>5, UpdateSetsAlarm DEF QueueInv, Alarms, FiringIsSet, TriggeredPolling
  <2>3. CASE n \in new
    <3>1. CASE InactiveOrFireAfter(firing, Min(FireTimes(new)))
      BY <3>1, <2>1, <2>3, <1>4, <1>5, UpdateSetsAlarm
    <3>2. CASE ~InactiveOrFireAfter(firing, Min(FireTimes(new)))
      <4>1. WillSignalBy(firing, Min(FireTimes(new)))
        BY <3>2, <2>1, <2>3, <1>5, NoUpdateNeeded
      <4> QED
        BY <4>1, <3>2, <2>1, <2>3, <1>4, <1>5, LaterAlarm
    <3> QED
      BY <3>1, <3>2
  <2> QED
    BY <2>2, <2>3
<1>11. TriggerIsSet' /\ PreloadIsSet' /\ PreloadInWindow'
  BY <1>4 DEF QueueInv, Alarms, TriggerIsSet, PreloadIsSet, PreloadInWindow, TriggeredPolling
<1>12. HeapWasLoaded'
  BY <1>1, <1>2, <1>3, <1>4, <1>6 DEF QueueInv, Alarms, HeapWasLoaded, TriggeredPolling, Typing, TypedQueue
<1> QED
  BY <1>7, <1>8, <1>9, <1>10, <1>11, <1>12 DEF QueueInv, Typing, Alarms

(* The workers change neither the gates nor the heap. *)
LEMMA WorkerStepKeeps ==
    ASSUME QueueInv, NEW w \in Workers, WorkerStep(w)
    PROVE  QueueInv'
<1> USE TimerSizeAssumption DEF table, gates, loaded, processor, memory
<1>1. /\ Inserted' = Inserted /\ fire' = fire /\ since' = since /\ now' = now
      /\ UNCHANGED <<notices, polling, requests, gates, loaded, pc, crashes>>
  BY DEF WorkerStep, TakeTimer, ProcessTimerTask, RequeueTimer, Inserted
<1>2. Inserted \subseteq Nat
  BY TimerFacts DEF QueueInv
<1>3. TypedQueue' /\ TypedGates'
  BY <1>1 DEF QueueInv, Typing, TypedQueue, TypedGates, FireTimes
<1>4. Alarms'
  BY <1>1 DEF QueueInv, Alarms, FiringIsSet, TriggerIsSet, PreloadIsSet, PreloadInWindow, HeapWasLoaded
<1>5. TypedTable' /\ TypedProcessor'
  <2>1. CASE TakeTimer(w)
    <3>1. Head(toProcess) \in Inserted /\ Tail(toProcess) \in Seq(Inserted) /\ Len(Tail(toProcess)) <= BufferSize
      BY <2>1 DEF TakeTimer, QueueInv, Typing, TypedProcessor
    <3> QED
      BY <2>1, <3>1, <1>1, <1>2 DEF TakeTimer, QueueInv, Typing, TypedTable, TypedProcessor
  <2>2. CASE ProcessTimerTask(w)
    <3>1. worker[w].task \in Inserted /\ rows' \subseteq rows
      BY <2>2 DEF ProcessTimerTask, QueueInv, Typing, TypedProcessor
    <3>2. /\ worker' \in {[worker EXCEPT ![w] = IdleWorker], [worker EXCEPT ![w].pc = "requeue"]}
          /\ toProcess' = toProcess
      BY <2>2 DEF ProcessTimerTask
    <3>4. TypedProcessor'
      <4> USE DEF TypedProcessor
      <4>1. TypedProcessor
        BY DEF QueueInv, Typing
      <4>2. CASE worker' = [worker EXCEPT ![w] = IdleWorker]
        BY <3>2, <4>1, <4>2, <1>1 DEF IdleWorker
      <4>3. CASE worker' = [worker EXCEPT ![w].pc = "requeue"]
        BY <3>1, <3>2, <4>1, <4>3, <1>1
      <4> QED
        BY <3>2, <4>2, <4>3
    <3>3. TypedTable'
      BY <2>2, <3>1, <1>1 DEF ProcessTimerTask, QueueInv, Typing, TypedTable
    <3> QED
      BY <3>3, <3>4
  <2>3. CASE RequeueTimer(w)
    <3>1. worker[w].task \in Inserted
      BY <2>3 DEF RequeueTimer, QueueInv, Typing, TypedProcessor
    <3>2. /\ Append(toProcess, worker[w].task) \in Seq(Inserted)
          /\ Len(Append(toProcess, worker[w].task)) <= BufferSize
      BY <2>3, <3>1 DEF RequeueTimer, QueueInv, Typing, TypedProcessor
    <3> QED
      BY <2>3, <3>2, <1>1, <1>2 DEF RequeueTimer, QueueInv, Typing, TypedTable, TypedProcessor, IdleWorker
  <2> QED
    BY <2>1, <2>2, <2>3 DEF WorkerStep
<1> QED
  BY <1>3, <1>4, <1>5 DEF QueueInv, Typing

(* A new server has its preload gate set for at once. *)
LEMMA RestartKeeps ==
    ASSUME QueueInv, Restart
    PROVE  QueueInv'
<1> USE TimerSizeAssumption DEF table
<1>1. Inserted' = Inserted /\ fire' = fire /\ now' = now /\ now \in Nat
  BY TimerFacts DEF Restart, Inserted, QueueInv
<1>2. TypedTable'
  BY <1>1 DEF QueueInv, Typing, TypedTable, Restart
<1>3. TypedQueue'
  BY <1>1, FS_EmptySet DEF Restart, Fresh, TypedQueue
<1>4. TypedGates'
  BY <1>1, NewGateTyped DEF Restart, Fresh, TypedGates
<1>5. TypedProcessor'
  BY <1>1 DEF Restart, Fresh, TypedProcessor, IdleWorker
<1>6. Alarms'
  BY <1>1, NewGateTyped DEF Restart, Fresh, Alarms, FiringIsSet, TriggerIsSet, PreloadIsSet, PreloadInWindow, HeapWasLoaded
<1> QED
  BY <1>2, <1>3, <1>4, <1>5, <1>6 DEF QueueInv, Typing

(* Time passes. *)
LEMMA TickKeeps ==
    ASSUME QueueInv, Tick
    PROVE  QueueInv'
<1> USE TimerSizeAssumption DEF table, gates, loaded, processor, memory
<1>1. Inserted' = Inserted /\ fire' = fire /\ now' = now + 1 /\ now \in Nat /\ now < MaxTime
  BY TimerFacts DEF Tick, Inserted, QueueInv
<1>2. TypedTable'
  BY <1>1 DEF QueueInv, Typing, TypedTable, Tick
<1>3. TypedQueue' /\ TypedGates' /\ TypedProcessor'
  BY <1>1 DEF QueueInv, Typing, TypedQueue, TypedGates, TypedProcessor, Tick, FireTimes
<1>4. Alarms'
  BY <1>1 DEF QueueInv, Typing, TypedGates, GateRecords, Alarms, FiringIsSet, TriggerIsSet, PreloadIsSet,
              PreloadInWindow, HeapWasLoaded, Tick
<1> QED
  BY <1>2, <1>3, <1>4 DEF QueueInv, Typing

(* The invariant holds at the start. *)
LEMMA QueueInvHolds == Init => QueueInv
<1> SUFFICES ASSUME Init PROVE QueueInv
  OBVIOUS
<1> USE TimerSizeAssumption DEF Init
<1>1. TypedTable
  BY DEF TypedTable, Timers, Never, Inserted
<1>2. TypedQueue /\ TypedProcessor
  BY FS_EmptySet DEF TypedQueue, TypedProcessor, IdleWorker
<1>3. TypedGates
  BY NewGateTyped DEF TypedGates
<1>4. Alarms
  BY NewGateTyped DEF Alarms, FiringIsSet, TriggerIsSet, PreloadIsSet, PreloadInWindow, HeapWasLoaded
<1> QED
  BY <1>1, <1>2, <1>3, <1>4 DEF QueueInv, Typing

(* Every step keeps the invariant. *)
LEMMA QueueInvKept == QueueInv /\ [Next]_vars => QueueInv'
<1> SUFFICES ASSUME QueueInv, [Next]_vars PROVE QueueInv'
  OBVIOUS
<1>1. CASE TableStep
  BY <1>1, NotifyKeeps, InsertTimerKeeps DEF TableStep
<1>2. CASE QueueStep
  BY <1>2, ReceivePreloadKeeps, LoadKeeps, ReceiveFiringKeeps, SendKeeps, EndSendingKeeps, DrainKeeps,
     TriggeredPollingKeeps DEF QueueStep
<1>3. CASE UNCHANGED vars
  BY <1>3 DEF vars, table, gates, loaded, processor, memory, QueueInv, Typing, TypedTable, TypedQueue, TypedGates,
              TypedProcessor, Inserted, FireTimes, Alarms, FiringIsSet, TriggerIsSet, PreloadIsSet, PreloadInWindow,
              HeapWasLoaded
<1> QED
  BY <1>1, <1>2, <1>3, GateStepKeeps, WorkerStepKeeps, RestartKeeps, TickKeeps DEF Next

(* QueueInv is an invariant of the timer queue. *)
THEOREM QueueInvariant == Spec => []QueueInv
BY QueueInvHolds, QueueInvKept, PTL DEF Spec

-----------------------------------------------------------------------------
(* What the invariant implies.                                             *)

(* The tables, channels and gates of the timer queue keep their types, and *)
(* no channel holds more than its capacity.                                *)
THEOREM TypeCorrect == Spec => []TypeOK
<1>1. QueueInv => TypeOK
  BY DEF QueueInv, Typing, TypedTable, TypedQueue, TypedGates, TypedProcessor, TypeOK
<1> QED
  BY <1>1, QueueInvariant, PTL

(* Whenever the queue waits with timers in its heap, the firing gate       *)
(* signals no later than the first of them is due.                         *)
THEOREM LoadedTimersHaveAlarm == Spec => []HeapHasAlarm
<1>1. QueueInv => HeapHasAlarm
  <2> SUFFICES ASSUME QueueInv, pc = "select", heap # {}
               PROVE  WillSignalBy(firing, Min(FireTimes(heap)))
    BY DEF HeapHasAlarm
  <2>1. PICK n \in heap : Min(FireTimes(heap)) = fire[n]
    BY EarliestTimer, TimerFacts DEF QueueInv, Typing, TypedQueue
  <2> QED
    BY <2>1 DEF QueueInv, Alarms, FiringIsSet
<1> QED
  BY <1>1, QueueInvariant, PTL

(* While the queue waits, the end of the window or the first loaded timer  *)
(* will wake it.                                                           *)
THEOREM QueueNeverAsleep == Spec => []NeverAsleep
<1>1. QueueInv => NeverAsleep
  <2> SUFFICES ASSUME QueueInv, pc = "select" PROVE NeverAsleep
    BY DEF NeverAsleep
  <2>1. window \in Nat /\ now \in Nat /\ preload \in GateRecords /\ firing \in GateRecords
    BY TimerFacts DEF QueueInv, Typing, TypedQueue, TypedGates
  <2> DEFINE end == Max({window, now})
  <2>2. end \in Nat /\ window <= end /\ now <= end
    BY <2>1, MaxOfTwo
  <2>3. CASE heap # {}
    <3>1. PICK n \in heap : TRUE
      BY <2>3
    <3>2. WillSignalBy(firing, fire[n]) /\ fire[n] <= window /\ fire[n] \in Nat
      BY TimerFacts DEF QueueInv, Typing, TypedTable, TypedQueue, Alarms, FiringIsSet, HeapWasLoaded
    <3>3. WillSignalBy(firing, end)
      BY <2>1, <2>2, <3>2, LaterAlarm
    <3> QED
      BY <2>3, <3>3 DEF NeverAsleep
  <2>4. CASE heap = {}
    <3>1. WillSignalBy(preload, end)
      BY <2>1, <2>2, <2>4 DEF QueueInv, Alarms, PreloadIsSet, PreloadInWindow, WillSignalBy, GateRecords
    <3> QED
      BY <3>1 DEF NeverAsleep
  <2> QED
    BY <2>3, <2>4
<1> QED
  BY <1>1, QueueInvariant, PTL

(* The trigger gate will signal by the earliest timestamp requested. *)
THEOREM RequestedTimersHaveAlarm == Spec => []RequestsHaveAlarm
<1>1. QueueInv => RequestsHaveAlarm
  <2> SUFFICES ASSUME QueueInv, requests # {}
               PROVE  WillSignalBy(trigger, Min(requests))
    BY DEF RequestsHaveAlarm
  <2>1. requests \in SUBSET Nat
    BY TimerFacts DEF QueueInv, Typing, TypedQueue
  <2> QED
    BY <2>1, MinOfNats DEF QueueInv, Alarms, TriggerIsSet
<1> QED
  BY <1>1, QueueInvariant, PTL

(* The heap holds nothing above the largest loaded number or beyond the    *)
(* window: no triggered poll loads a timer that waits in the heap.         *)
THEOREM NoTimerLoadedTwice == Spec => []HeapWasLoaded
<1>1. QueueInv => HeapWasLoaded
  BY DEF QueueInv, Alarms
<1> QED
  BY <1>1, QueueInvariant, PTL

-----------------------------------------------------------------------------
(* The bound on the delay.                                                 *)

(* A timer has fewer timers before it than one that comes after it. *)
LEMMA RankGrows ==
    ASSUME QueueInv, NEW due \in SUBSET Timers, NEW m \in due, NEW n \in due, Before(m, n)
    PROVE  /\ Cardinality({k \in due : Before(k, m)}) \in Nat
           /\ Cardinality({k \in due : Before(k, n)}) \in Nat
           /\ Cardinality({k \in due : Before(k, m)}) < Cardinality({k \in due : Before(k, n)})
<1> DEFINE before(x) == {k \in due : Before(k, x)}
<1>1. IsFiniteSet(due) /\ \A k \in due : k \in Nat /\ fire[k] \in Nat
  BY TimerFacts DEF QueueInv, Typing, TypedTable
<1>2. before(m) \subseteq before(n) /\ m \in before(n) /\ m \notin before(m)
  <2>1. ASSUME NEW k \in due, Before(k, m) PROVE Before(k, n)
    BY <1>1, <2>1 DEF Before
  <2>2. ~Before(m, m)
    BY <1>1 DEF Before
  <2> QED
    BY <2>1, <2>2
<1>3. IsFiniteSet(before(n)) /\ IsFiniteSet(before(m))
  BY <1>1, FS_Subset
<1> HIDE DEF before
<1>4. /\ Cardinality(before(m)) <= Cardinality(before(n)) /\ before(m) # before(n)
      /\ Cardinality(before(n)) = Cardinality(before(m)) => before(n) = before(m)
  BY <1>2, <1>3, FS_Subset
<1>5. Cardinality(before(m)) \in Nat /\ Cardinality(before(n)) \in Nat
  BY <1>3, FS_CardinalityType
<1>6. Cardinality(before(m)) < Cardinality(before(n))
  BY <1>4, <1>5
<1> QED
  BY <1>5, <1>6 DEF before

(* A timer that is due and not on the page comes after a full page. *)
LEMMA PageIsFull ==
    ASSUME QueueInv, NEW t \in Nat, NEW n \in rows, fire[n] <= t,
           n \notin GetTimerTasksUpToTimestamp(t)
    PROVE  /\ Cardinality(GetTimerTasksUpToTimestamp(t)) = PageSize
           /\ \A m \in GetTimerTasksUpToTimestamp(t) : fire[m] <= fire[n]
<1> DEFINE due == {m \in rows : fire[m] <= t}
           page == GetTimerTasksUpToTimestamp(t)
           rank(x) == Cardinality({k \in due : Before(k, x)})
<1>0. PageSize \in Nat /\ PageSize > 0
  BY TimerSizeAssumption
<1>1. due \in SUBSET Timers /\ IsFiniteSet(due) /\ n \in due
  BY TimerFacts DEF QueueInv, Typing, TypedTable
<1>2. page = {m \in due : rank(m) < PageSize}
  BY DEF GetTimerTasksUpToTimestamp
<1>3. \A x \in due : IsFiniteSet({k \in due : Before(k, x)}) /\ rank(x) \in Nat
  BY <1>1, FS_Subset, FS_CardinalityType
<1>4. ASSUME NEW x \in due, NEW y \in due
      PROVE  /\ Before(x, y) => rank(x) < rank(y)
             /\ x = y \/ Before(x, y) \/ Before(y, x)
  <2>1. Before(x, y) => rank(x) < rank(y)
    BY <1>1, RankGrows
  <2>2. x \in Nat /\ y \in Nat /\ fire[x] \in Nat /\ fire[y] \in Nat
    BY <1>1, TimerFacts DEF QueueInv, Typing, TypedTable
  <2> QED
    BY <2>1, <2>2 DEF Before
<1>5. page \subseteq due /\ n \in due \ page /\ IsFiniteSet(page) /\ Cardinality(page) \in Nat
  <2>1. page \subseteq due /\ n \in due \ page
    BY <1>1, <1>2
  <2> HIDE DEF page, due
  <2> QED
    BY <2>1, <1>1, FS_Subset, FS_CardinalityType
<1>6. \A x \in due \ page : rank(x) >= PageSize
  BY <1>0, <1>2, <1>3
<1>7. \A x \in page : rank(x) < PageSize
  BY <1>2
<1> HIDE DEF page, rank, due
<1>11. \A x \in due : rank(x) \in Nat
  BY <1>3
<1>8. PageSize <= Cardinality(page)
  <2> DEFINE ranks == {rank(x) : x \in due \ page}
  <2>1. ranks \in SUBSET Nat /\ ranks # {}
    BY <1>5, <1>11
  <2>2. PICK k \in ranks : \A l \in ranks : k <= l
    BY <2>1, NatHasLeast
  <2>3. PICK x \in due \ page : rank(x) = k
    BY <2>2
  <2>4. {m \in due : Before(m, x)} \subseteq page
    <3> SUFFICES ASSUME NEW m \in due, Before(m, x), m \notin page PROVE FALSE
      OBVIOUS
    <3>1. rank(m) \in ranks /\ rank(m) < rank(x) /\ rank(m) \in Nat /\ rank(x) \in Nat
      BY <1>4, <1>11, <2>3
    <3> QED
      BY <3>1, <2>2, <2>3
  <2>5. rank(x) <= Cardinality(page)
    BY <2>4, <1>5, FS_Subset DEF rank
  <2> QED
    BY <2>3, <2>5, <1>0, <1>5, <1>6, <1>11
<1>9. Cardinality(page) <= PageSize
  <2> DEFINE ranks == {rank(x) : x \in page}
  <2>1. page # {}
    BY <1>0, <1>5, <1>8, FS_EmptySet
  <2>2. ranks \in SUBSET Nat /\ ranks # {} /\ \A l \in ranks : l <= PageSize
    BY <2>1, <1>0, <1>5, <1>7, <1>11
  <2>3. PICK k \in ranks : \A l \in ranks : l <= k
    <3> HIDE DEF ranks
    <3> QED
      BY <2>2, <1>0, NatHasGreatest
  <2>4. PICK y \in page : rank(y) = k
    BY <2>3
  <2>5. page \ {y} \subseteq {m \in due : Before(m, y)}
    <3> SUFFICES ASSUME NEW m \in page, m # y PROVE m \in due /\ Before(m, y)
      OBVIOUS
    <3>1. rank(m) <= rank(y) /\ rank(m) \in Nat /\ rank(y) \in Nat /\ m \in due /\ y \in due
      BY <1>5, <1>11, <2>3, <2>4
    <3> QED
      BY <3>1, <1>4
  <2>6. Cardinality(page \ {y}) <= rank(y)
    BY <2>5, <1>3, <1>5, FS_Subset DEF rank
  <2>7. Cardinality(page \ {y}) = Cardinality(page) - 1
    BY <1>5, FS_RemoveElement
  <2> QED
    BY <2>4, <2>6, <2>7, <1>0, <1>5, <1>7, <1>11
<1>10. ASSUME NEW m \in page PROVE fire[m] <= fire[n]
  <2>1. ~Before(n, m)
    <3>1. rank(m) < PageSize /\ rank(n) >= PageSize /\ m \in due /\ n \in due
      BY <1>5, <1>6, <1>7
    <3> QED
      BY <3>1, <1>0, <1>4, <1>11
  <2>2. fire[m] \in Nat /\ fire[n] \in Nat
    BY <1>1, <1>5, TimerFacts DEF QueueInv, Typing, TypedTable
  <2> QED
    BY <2>1, <2>2 DEF Before
<1>12. Cardinality(page) = PageSize
  BY <1>0, <1>5, <1>8, <1>9
<1> QED
  BY <1>10, <1>12 DEF page

(* What neither moves a timer nor the window keeps DelayInv. *)
LEMMA DelayInvUntouched ==
    ASSUME DelayInv, UNCHANGED <<now, rows, fire, since, heap, window, toProcess, worker, processed>>
    PROVE  DelayInv'
BY DEF DelayInv, InProcessor, NotLate

(* A load leaves behind only timers that are not due before the window     *)
(* ends.                                                                   *)
LEMMA LoadKeepsDelay ==
    ASSUME QueueInv, DelayInv, LoadAndDispatchAndPrepareNext
    PROVE  DelayInv'
<1> USE TimerSizeAssumption DEF table, gates, loaded, processor, memory
<1>1. PICK t \in GetNextPollTimes(LookAhead) :
         LET page == GetTimerTasksUpToTimestamp(t)
             last == IF Cardinality(page) = PageSize THEN Max(FireTimes(page)) ELSE t
         IN  heap' = page /\ window' = last
  BY DEF LoadAndDispatchAndPrepareNext
<1>2. t \in Nat /\ t <= now + LookAhead + Jitter - 1 /\ now \in Nat
  BY TimerFacts DEF GetNextPollTimes, QueueInv
<1> DEFINE page == GetTimerTasksUpToTimestamp(t)
           last == IF Cardinality(page) = PageSize THEN Max(FireTimes(page)) ELSE t
<1>3. /\ heap' = page /\ window' = last
      /\ UNCHANGED <<now, rows, fire, since, toProcess, worker, processed>>
  BY <1>1 DEF LoadAndDispatchAndPrepareNext
<1>4. last \in Nat /\ last <= t /\ page \in SUBSET Inserted
  BY <1>2, PageFacts
<1>5. ASSUME NEW n \in rows, n \notin page PROVE last <= fire[n]
  <2>1. fire[n] \in Nat
    BY TimerFacts DEF QueueInv, Typing, TypedTable
  <2>2. CASE fire[n] > t
    <3> HIDE DEF last
    <3> QED
      BY <2>1, <2>2, <1>2, <1>4
  <2>3. CASE fire[n] <= t
    <3>1. Cardinality(page) = PageSize /\ \A m \in page : fire[m] <= fire[n]
      BY <2>3, <1>2, <1>5, PageIsFull
    <3>2. last = Max(FireTimes(page)) /\ page # {}
      BY <3>1, FS_EmptySet
    <3>3. FireTimes(page) \in SUBSET Nat /\ FireTimes(page) # {} /\ \A u \in FireTimes(page) : u <= fire[n]
      <4>1. page \in SUBSET Timers
        BY <1>4, TimerFacts DEF QueueInv
      <4> QED
        BY <4>1, <3>1, <3>2, TimerFacts DEF QueueInv, FireTimes
    <3> HIDE DEF page, last
    <3> QED
      BY <2>1, <3>2, <3>3, MaxOfNats
  <2> QED
    BY <2>1, <2>2, <2>3, <1>2
<1> HIDE DEF page, last
<1>6. window' <= now' + LookAhead + Jitter - 1
  BY <1>2, <1>3, <1>4
<1> QED
  BY <1>3, <1>5, <1>6 DEF DelayInv, InProcessor, NotLate

(* The workers let go of a timer only when it is processed. *)
LEMMA WorkerKeepsDelay ==
    ASSUME QueueInv, DelayInv, NEW w \in Workers, WorkerStep(w)
    PROVE  DelayInv'
<1> USE TimerSizeAssumption DEF table, gates, loaded, processor, memory
<1>1. UNCHANGED <<now, fire, since, heap, window>>
  BY DEF WorkerStep, TakeTimer, ProcessTimerTask, RequeueTimer
<1>2. rows' \ processed' \subseteq rows \ processed
  BY DEF WorkerStep, TakeTimer, ProcessTimerTask, RequeueTimer
<1>3. ASSUME NEW n \in rows' \ processed', InProcessor(n) PROVE InProcessor(n)'
  <2>1. /\ toProcess \in Seq(Inserted) /\ Inserted \subseteq Nat \ {0}
        /\ worker \in [Workers -> [pc : {"idle", "processing", "requeue"}, task : Nat]]
        /\ worker[w].pc = "idle" => worker[w].task = 0
        /\ n \in Nat \ {0}
    BY <1>2, TimerFacts DEF QueueInv, Typing, TypedTable, TypedProcessor
  <2>2. CASE TakeTimer(w)
    <3>1. toProcess' = Tail(toProcess) /\ toProcess # <<>> /\ worker'[w].task = Head(toProcess)
      BY <2>1, <2>2 DEF TakeTimer
    <3>2. CASE \E i \in DOMAIN toProcess : toProcess[i] = n
      <4>1. PICK i \in DOMAIN toProcess : toProcess[i] = n
        BY <3>2
      <4>2. CASE i = 1
        BY <4>1, <4>2, <3>1 DEF InProcessor
      <4>3. CASE i # 1
        <5>1. i - 1 \in DOMAIN Tail(toProcess) /\ Tail(toProcess)[i - 1] = n
          BY <2>1, <4>1, <4>3
        <5> QED
          BY <5>1, <3>1 DEF InProcessor
      <4> QED
        BY <4>2, <4>3
    <3>3. CASE \E v \in Workers : worker[v].task = n
      <4>1. PICK v \in Workers : worker[v].task = n
        BY <3>3
      <4>2. v # w
        BY <4>1, <2>1, <2>2 DEF TakeTimer
      <4> QED
        BY <4>1, <4>2, <2>1, <2>2 DEF InProcessor, TakeTimer
    <3> QED
      BY <1>3, <3>2, <3>3 DEF InProcessor
  <2>3. CASE ProcessTimerTask(w)
    <3>1. \A v \in Workers : worker[v].task = n => worker'[v].task = n
      <4>1. CASE worker' = [worker EXCEPT ![w] = IdleWorker] /\ processed' = processed \cup {worker[w].task}
        BY <2>1, <4>1
      <4>2. CASE worker' = [worker EXCEPT ![w].pc = "requeue"]
        BY <2>1, <4>2
      <4> QED
        BY <2>3, <4>1, <4>2 DEF ProcessTimerTask
    <3>2. toProcess' = toProcess
      BY <2>3 DEF ProcessTimerTask
    <3> QED
      BY <1>3, <3>1, <3>2 DEF InProcessor
  <2>4. CASE RequeueTimer(w)
    <3>1. /\ toProcess' = Append(toProcess, worker[w].task)
          /\ worker' = [worker EXCEPT ![w] = IdleWorker]
      BY <2>4 DEF RequeueTimer
    <3>2. /\ Len(toProcess) + 1 \in DOMAIN toProcess' /\ toProcess'[Len(toProcess) + 1] = worker[w].task
          /\ \A i \in DOMAIN toProcess : i \in DOMAIN toProcess' /\ toProcess'[i] = toProcess[i]
      BY <2>1, <3>1
    <3>3. \A v \in Workers : worker[v].task = n => v = w \/ worker'[v].task = n
      BY <2>1, <3>1
    <3> QED
      BY <1>3, <3>2, <3>3 DEF InProcessor
  <2> QED
    BY <2>2, <2>3, <2>4 DEF WorkerStep
<1> QED
  BY <1>1, <1>2, <1>3 DEF DelayInv, NotLate

(* The clock waits until the queue has nothing to do: then the window has  *)
(* not ended, and no loaded timer is due.                                  *)
LEMMA TickKeepsDelay ==
    ASSUME QueueInv, DelayInv, Tick
    PROVE  DelayInv'
<1> USE TimerSizeAssumption DEF table, gates, loaded, processor, memory
<1>1. /\ now \in Nat /\ now' = now + 1 /\ window \in Nat
      /\ UNCHANGED <<rows, fire, since, heap, window, toProcess, worker, processed>>
      /\ Punctual => Quiet
  BY TimerFacts DEF Tick, QueueInv, Typing, TypedQueue
<1>2. \A n \in rows : fire[n] \in Nat /\ since[n] \in Nat
  BY TimerFacts DEF QueueInv, Typing, TypedTable, Never
<1>3. window' <= now' + LookAhead + Jitter - 1
  BY <1>1 DEF DelayInv
<1>4. ASSUME NEW n \in rows' \ processed', Punctual PROVE NotLate(n, now')
  <2>1. /\ pc = "select" /\ toProcess = <<>> /\ \A w \in Workers : worker[w].pc = "idle"
        /\ ~WillSignalBy(preload, now) /\ ~WillSignalBy(firing, now)
    BY <1>1, <1>4 DEF Quiet
  <2>2. firing \in GateRecords /\ n \in rows \ processed /\ n # 0
    BY <1>1, TimerFacts DEF QueueInv, Typing, TypedTable, TypedGates
  <2>3. \A m \in heap : fire[m] \in Nat /\ fire[m] > now
    <3> SUFFICES ASSUME NEW m \in heap, ~(fire[m] > now) PROVE FALSE
      BY TimerFacts DEF QueueInv, Typing, TypedTable, TypedQueue
    <3>1. WillSignalBy(firing, fire[m]) /\ fire[m] \in Nat
      BY <2>1, TimerFacts DEF QueueInv, Typing, TypedTable, TypedQueue, Alarms, FiringIsSet
    <3> QED
      BY <3>1, <2>1, <2>2, <1>1, LaterAlarm
  <2>4. window >= now + 1
    <3>1. CASE heap = {}
      BY <3>1, <2>1, <1>1 DEF QueueInv, Alarms, PreloadIsSet, PreloadInWindow, WillSignalBy, Typing, TypedGates, GateRecords
    <3>2. CASE heap # {}
      <4>1. PICK m \in heap : TRUE
        BY <3>2
      <4> QED
        BY <2>3, <1>1 DEF QueueInv, Alarms, HeapWasLoaded
    <3> QED
      BY <3>1, <3>2
  <2>5. ~InProcessor(n)
    BY <2>1, <2>2 DEF InProcessor, QueueInv, Typing, TypedProcessor
  <2> QED
    BY <1>1, <1>2, <2>2, <2>3, <2>4, <2>5 DEF DelayInv, NotLate
<1> QED
  BY <1>1, <1>3, <1>4 DEF DelayInv, NotLate, InProcessor

(* Every step keeps the bound. *)
LEMMA DelayInvKept == QueueInv /\ DelayInv /\ [Next]_vars => DelayInv'
<1> SUFFICES ASSUME QueueInv, DelayInv, [Next]_vars PROVE DelayInv'
  OBVIOUS
<1> USE TimerSizeAssumption
<1>1. now \in Nat /\ window \in Nat
  BY TimerFacts DEF QueueInv, Typing, TypedQueue
<1>2. ASSUME NEW n \in Timers, NEW t \in FireTimestamps, InsertTimer(n, t) PROVE DelayInv'
  <2>1. /\ UNCHANGED <<now, heap, window, toProcess, worker, processed>>
        /\ rows' = rows \cup {n}
        /\ \A m \in rows : m # n /\ fire'[m] = fire[m] /\ since'[m] = since[m]
        /\ since'[n] = now
    BY <1>2 DEF InsertTimer, memory, loaded, processor, QueueInv, Typing, TypedTable, Inserted
  <2>2. NotLate(n, window)' /\ NotLate(n, now)'
    BY <1>1, <2>1 DEF NotLate, DelayInv
  <2> QED
    BY <2>1, <2>2 DEF DelayInv, InProcessor, NotLate
<1>3. ASSUME SendFiredTimerTask PROVE DelayInv'
  <2>1. PICK n \in heap : heap' = heap \ {n} /\ toProcess' = Append(toProcess, n)
    BY <1>3 DEF SendFiredTimerTask
  <2>2. UNCHANGED <<now, rows, fire, since, window, worker, processed>>
    BY <1>3 DEF SendFiredTimerTask, table
  <2>3. toProcess \in Seq(Inserted)
    BY DEF QueueInv, Typing, TypedProcessor
  <2>4. /\ Len(toProcess) + 1 \in DOMAIN toProcess' /\ toProcess'[Len(toProcess) + 1] = n
        /\ \A i \in DOMAIN toProcess : i \in DOMAIN toProcess' /\ toProcess'[i] = toProcess[i]
    BY <2>1, <2>3
  <2>5. \A m \in heap : m \in heap' \/ InProcessor(m)'
    BY <2>1, <2>4 DEF InProcessor
  <2>6. \A m \in rows : InProcessor(m) => InProcessor(m)'
    BY <2>2, <2>4 DEF InProcessor
  <2> QED
    BY <2>2, <2>5, <2>6 DEF DelayInv, NotLate
<1>4. ASSUME TriggeredPolling PROVE DelayInv'
  <2>1. heap \subseteq heap' /\ UNCHANGED <<now, rows, fire, since, window, toProcess, worker, processed>>
    BY <1>4 DEF TriggeredPolling, table, processor
  <2> QED
    BY <2>1 DEF DelayInv, NotLate, InProcessor
<1>5. ASSUME Restart PROVE DelayInv'
  <2>1. window' = 0 /\ UNCHANGED <<now, rows, fire, since, processed>>
    BY <1>5 DEF Restart, Fresh, table
  <2>2. \A n \in rows : fire[n] \in Nat
    BY TimerFacts DEF QueueInv, Typing, TypedTable
  <2> QED
    BY <1>1, <2>1, <2>2 DEF DelayInv, NotLate
<1>6. ASSUME \/ UNCHANGED vars \/ GateStep \/ ReceivePreload \/ ReceiveFiring \/ EndSending
             \/ DrainAllNotifyRequests \/ \E n \in Timers : Notify(n)
      PROVE  DelayInv'
  <2>1. UNCHANGED <<now, rows, fire, since, heap, window, toProcess, worker, processed>>
    BY <1>6 DEF GateStep, ReceivePreload, ReceiveFiring, EndSending, DrainAllNotifyRequests, Notify, vars, memory,
                table, loaded, processor
  <2> QED
    BY <2>1, DelayInvUntouched
<1> QED
  BY <1>2, <1>3, <1>4, <1>5, <1>6, LoadKeepsDelay, WorkerKeepsDelay, TickKeepsDelay DEF Next, TableStep, QueueStep

(* When the server keeps up, a timer is handed to the processor when it is *)
(* due or, its notification lost, one look-ahead (with jitter) after it    *)
(* was created: across full pages, failing workers and restarts.           *)
THEOREM LookAheadBoundsDelay ==
    ASSUME Punctual
    PROVE  Spec => []DelayIsBounded
<1> USE TimerSizeAssumption
<1>1. Init => DelayInv
  BY DEF Init, DelayInv
<1>2. QueueInv /\ DelayInv => DelayIsBounded
  <2> SUFFICES ASSUME QueueInv, DelayInv, NEW n \in rows \ processed
               PROVE  now <= Max({fire[n], since[n] + LookAhead + Jitter - 1})
    BY DEF DelayIsBounded
  <2>1. /\ now \in Nat /\ fire[n] \in Nat /\ since[n] \in Nat
        /\ since[n] + LookAhead + Jitter - 1 \in Nat
    BY TimerFacts DEF QueueInv, Typing, TypedTable, Never
  <2>2. NotLate(n, now)
    BY DEF DelayInv
  <2> DEFINE late == since[n] + LookAhead + Jitter - 1
  <2>3. now <= fire[n] \/ now <= late
    BY <2>2 DEF NotLate
  <2> HIDE DEF late
  <2>4. late \in Nat
    BY <2>1 DEF late
  <2>5. Max({fire[n], late}) \in Nat /\ fire[n] <= Max({fire[n], late}) /\ late <= Max({fire[n], late})
    BY <2>1, <2>4, MaxOfTwo
  <2>6. now <= Max({fire[n], late})
    BY <2>1, <2>3, <2>4, <2>5
  <2> QED
    BY <2>6 DEF late
<1> QED
  BY <1>1, <1>2, QueueInvariant, DelayInvKept, PTL DEF Spec
=============================================================================
