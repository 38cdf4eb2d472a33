---------------------------- MODULE QueuesProofs ----------------------------
(***************************************************************************)
(* The queues, semaphores and mutexes of Queues.tla are sound in every     *)
(* application whose tasks call nothing but them and vTaskDelay: any       *)
(* number of tasks, queues and priorities, any lengths, any interrupts.    *)
(* No queue stays locked, no wake-up is lost, and the holder of every      *)
(* mutex is known.                                                         *)
(***************************************************************************)
EXTENDS Queues, KernelProofs

-----------------------------------------------------------------------------
(* The applications. *)

QueueCalls == {"xQueueSend", "xQueueOverwrite", "xQueueReceive", "xQueuePeek",
               "xQueueSemaphoreTake", "xQueueTakeMutexRecursive", "xQueueReset", "vTaskDelay"}
QueueISRs == {"xQueueSendFromISR", "xQueueGiveFromISR", "xQueueReceiveFromISR"}

\* The tasks and the interrupts of the application call the functions of
\* queue.c, and its tasks may sleep.  xQueueReset frees all the room of a queue
\* and wakes one sender: with a queue of one item that is enough.  No queue has
\* more tasks than cTxLock can count.
OnlyQueues ==
    /\ QueueLists \subseteq WaitLists /\ QueueOps \subseteq OtherOps
    /\ Queue # {} /\ IsFiniteSet(Queue)
    /\ IsFiniteSet(Task) /\ Cardinality(Task) <= queueINT8_MAX
    /\ \A name \in DOMAIN Applications :
           /\ \A t \in Task : Applications[name].api[t] \subseteq QueueCalls
           /\ Applications[name].isr \subseteq QueueISRs
           /\ (\E t \in Task : "xQueueReset" \in Applications[name].api[t])
                  => \A q \in Applications[name].queues : Kind[q] = "queue" => Length[q] = 1

-----------------------------------------------------------------------------
(* The inductive invariant.  Its parts are stated of a kernel record kk,   *)
(* the work items td, the queues qu and the calls ca.                      *)

\* The order of the work items of a call: "none" is the end.
LoopOps == {"try", "suspend", "lock", "timeOut", "test", "inherit", "place",
            "timedOut", "disinherit"}
CallOps == LoopOps \cup {"unlockTx", "unlockRx", "resumeAll", "yield", "count", "idleYield", "delay"}

NextOps(op) ==
    CASE op = "unlockTx" -> {"unlockRx"}
      [] op \in {"unlockRx", "delay"} -> {"resumeAll"}
      [] op = "resumeAll" -> {"yield", "try", "timedOut"}
      [] op = "yield" -> {"try", "none"}
      [] op \in {"count", "idleYield"} -> {"none"}
      [] OTHER -> {"none", "count"}

OpAt(s, i) == IF i <= Len(s) THEN s[i].op ELSE "none"

InSequence(s) == \A i \in 1 .. Len(s) : s[i].op \in CallOps /\ OpAt(s, i + 1) \in NextOps(s[i].op)

Has(s, op) == \E i \in 1 .. Len(s) : s[i].op = op

\* A task that is asleep in vTaskDelay is about to yield; the idle task calls
\* nothing.
WorkOk(td, live) ==
    /\ \A t \in Task : InSequence(td[t])
    /\ \A t \in Task : t \notin live => td[t] = <<>>
    /\ OpOf(td[Idle]) \in {"none", "idleYield"}
    /\ \A t \in Task : OpOf(td[t]) = "delay" => td[t][1].n \in Tick /\ Has(td[t], "yield")

\* What is done with the queue locked for adding, and for removing; with the
\* scheduler suspended.
TxSteps == {"timeOut", "test", "inherit", "place", "unlockTx"}
RxSteps == TxSteps \cup {"unlockRx"}
SuspSteps == RxSteps \cup {"lock", "resumeAll", "delay"}

\* The scheduler is suspended for the running task only, and for these.
Suspends(kk, td) ==
    /\ \A t \in Task : t # kk.current => OpOf(td[t]) \notin SuspSteps
    /\ kk.cpu = "task" => kk.susp = (IF OpOf(td[kk.current]) \in SuspSteps THEN 1 ELSE 0)
    /\ kk.cpu # "task" => kk.susp = 0
    /\ kk.cpu \notin {"task", "tick"} => OpOf(td[kk.current]) = "resumeAll"
    /\ kk.cpu = "tick" => OpOf(td[kk.current]) \notin SuspSteps
    /\ kk.cpu = "replayTick" => kk.pended > 0

\* The running task is ready, or is about to yield.
Runs(kk, td) == kk.cpu # "tick" => IsReady(kk, kk.current) \/ Has(td[kk.current], "yield")

\* A task in an event list is live and is not ready.  No task is deleted.
KernelOk(kk) ==
    /\ Sound(kk) /\ IsReady(kk, Idle) /\ kk.current \in kk.live
    /\ \A e \in EventLists, t \in Task :
           Occurs(kk.event[e], t) => t \in kk.live /\ ~IsReady(kk, t)
    /\ \A t \in Task : ~IsIn(kk, t, Terminated)
    /\ \A t \in Task : kk.order[t] \in 1 .. MaxPriority + 1

\* A queue is locked exactly while a task is at one of these steps for it.
LocksTx(td, ca, t, q) == OpOf(td[t]) \in TxSteps /\ ca[t].queue = q
LocksRx(td, ca, t, q) == OpOf(td[t]) \in RxSteps /\ ca[t].queue = q

LockInv(td, qu, ca) ==
    \A q \in Queue :
        /\ qu[q].tx # queueUNLOCKED <=> \E t \in Task : LocksTx(td, ca, t, q)
        /\ qu[q].rx # queueUNLOCKED <=> \E t \in Task : LocksRx(td, ca, t, q)

\* The two sides of a queue.
Side == {"send", "receive"}
KindsOf(s) == IF s = "send" THEN {"send"} ELSE {"receive", "peek", "take"}
WaitList(q, s) ==
    IF s = "send" THEN xTasksWaitingToSend(q) ELSE xTasksWaitingToReceive(q)

\* What a side waits for, and how many wake-ups of it are left to prvUnlockQueue.
Stock(qu, q, s) == IF s = "send" THEN Length[q] - qu[q].count ELSE qu[q].count
LockOf(qu, q, s) == IF s = "send" THEN qu[q].rx ELSE qu[q].tx
Owed(lock) == IF lock = queueUNLOCKED THEN 0 ELSE lock

\* t waits for that; it will try; it is about to be put in the event list.
Queued(kk, t, q, s) == Occurs(kk.event[WaitList(q, s)], t)
WillTry(td, ca, t, q, s) == Has(td[t], "try") /\ ca[t].queue = q /\ ca[t].kind \in KindsOf(s)
WillWait(td, ca, t, q, s) ==
    OpOf(td[t]) \in {"inherit", "place"} /\ ca[t].queue = q /\ ca[t].kind \in KindsOf(s)

WaiterInv(kk, td, ca) ==
    \A q \in Queue, s \in Side, t \in Task : Queued(kk, t, q, s) => WillTry(td, ca, t, q, s)

\* Those who will try and wait for nothing.
InQueueList(kk, t) == \E e \in QueueLists : Occurs(kk.event[e], t)
Comers(kk, td, ca, q, s) == {t \in Task : WillTry(td, ca, t, q, s) /\ ~InQueueList(kk, t)}
Expected(kk, td, ca, q, s) ==
    \E t \in Task : Queued(kk, t, q, s) \/ WillWait(td, ca, t, q, s)

\* If a task waits, or is about to, then for each item, or each free place,
\* another task will try, or prvUnlockQueue will wake one.  A lock that has
\* counted as many as there are tasks wakes them all.
WakeOk(kk, td, qu, ca, q, s) ==
    Expected(kk, td, ca, q, s) =>
        \/ LockOf(qu, q, s) >= Cardinality(kk.live)
        \/ Stock(qu, q, s) <= Cardinality(Comers(kk, td, ca, q, s)) + Owed(LockOf(qu, q, s))

WakeInv(kk, td, qu, ca) == \A q \in Queue, s \in Side : WakeOk(kk, td, qu, ca, q, s)

\* What a call is for.  A mutex is given by its holder, at once.
Busy(s) == \E op \in LoopOps : Has(s, op)

CallOk(t, s, cc, qu) ==
    /\ cc.kind = "overwrite" => OpOf(s) = "try" /\ Kind[cc.queue] = "queue"
    /\ Busy(s) /\ cc.kind = "send" /\ IsMutex(cc.queue) =>
           OpOf(s) = "try" /\ qu[cc.queue].holder = t /\ qu[cc.queue].calls = 0
    /\ cc.kind \in {"receive", "peek"} => Kind[cc.queue] = "queue"
    /\ cc.kind = "take" /\ Kind[cc.queue] = "recursive" => Has(s, "count") /\ OpOf(s) # "count"

CallInv(td, qu, ca) == \A t \in Task : CallOk(t, td[t], ca[t], qu)

\* Mutexes: a recursive one that is not counted as taken is about to be.
Uncounted(qu, q, h) == Kind[q] = "recursive" /\ qu[q].calls = 0 /\ qu[q].holder = h
MutexesOf(qu, t) == {q \in Queue : IsMutex(q) /\ qu[q].holder = t}

MutexInv(live, held, td, qu, ca) ==
    /\ \A q \in Queue :
           /\ qu[q].count <= Length[q]
           /\ IsMutex(q) => (qu[q].count = 0 <=> qu[q].holder # NULL)
           /\ ~IsMutex(q) => qu[q].holder = NULL
           /\ qu[q].holder \in live \cup {NULL}
           /\ qu[q].holder = NULL \/ Kind[q] # "recursive" => qu[q].calls = 0
    /\ \A t \in Task : held[t] = Cardinality(MutexesOf(qu, t))
    /\ \A q \in Queue, h \in Task : Uncounted(qu, q, h) =>
           \/ OpOf(td[h]) = "count"
           \/ OpOf(td[h]) = "try" /\ ca[h].kind = "send" /\ ca[h].queue = q
    /\ \A q, r \in Queue, h \in Task : Uncounted(qu, q, h) /\ Uncounted(qu, r, h) => q = r

QInv(kk, td, qu, ca) ==
    /\ KernelOk(kk) /\ WorkOk(td, kk.live) /\ Suspends(kk, td) /\ Runs(kk, td)
    /\ LockInv(td, qu, ca) /\ WaiterInv(kk, td, ca) /\ WakeInv(kk, td, qu, ca)
    /\ CallInv(td, qu, ca) /\ MutexInv(kk.live, kk.held, td, qu, ca)

QueuesInv == QueuesTypeOK /\ QInv(k, todo, queue, call)

-----------------------------------------------------------------------------
(* The kernel's operators keep what is said of the kernel. *)

\* A change of fields that the lists do not depend on.
LEMMA KernelOkSame ==
    ASSUME NEW kk, KernelOk(kk), NEW r \in KernelState, SameLists(kk, r),
           r.prio = kk.prio, r.live = kk.live, r.top = kk.top, r.order = kk.order,
           r.current \in r.live
    PROVE  KernelOk(r) /\ \A t \in Task : IsReady(r, t) <=> IsReady(kk, t)
<1>1. Sound(kk) /\ kk \in KernelState
  BY DEF KernelOk, Sound
<1>2. Sound(r) /\ SamePlaces(kk, r)
  BY <1>1, SoundSame
<1>3. \A t \in Task : IsReady(r, t) <=> IsReady(kk, t)
  BY <1>1, <1>2, FieldTypes, ListNames DEF IsReady, SamePlaces
<1>4. r.event = kk.event
  BY DEF SameLists
<1>5. \A t \in Task : ~IsIn(r, t, Terminated)
  BY <1>2, ListNames DEF KernelOk, SamePlaces
<1> QED  BY <1>2, <1>3, <1>4, <1>5, TasksAssumption DEF KernelOk

\* A change of the event lists.
LEMMA SoundEvents ==
    ASSUME NEW kk, Sound(kk), NEW r \in KernelState, Linked(r),
           SameStates(kk, r), SameRest(kk, r)
    PROVE  /\ Sound(r) /\ SamePlaces(kk, r) /\ r.live = kk.live /\ r.current = kk.current
           /\ r.prio = kk.prio /\ r.order = kk.order
           /\ \A t \in Task : IsReady(r, t) <=> IsReady(kk, t)
<1>1. /\ r.prio = kk.prio /\ r.live = kk.live /\ r.top = kk.top /\ r.list = kk.list
      /\ r.current = kk.current /\ r.order = kk.order
  BY DEF SameRest, SameStates, Keeps, KeepsTasks, KeepsProcessor
<1>2. SamePlaces(kk, r)
  BY <1>1 DEF SamePlaces, IsIn
<1>3. Listed(r) /\ ByPriority(r) /\ Covered(r)
  BY <1>1 DEF Sound, Listed, ByPriority, Covered, IsIn
<1>4. \A t \in Task : IsReady(r, t) <=> IsReady(kk, t)
  BY <1>1 DEF IsReady, IsIn
<1> QED  BY <1>1, <1>2, <1>3, <1>4 DEF Sound

\* If the event lists only hold tasks that are live and not ready, the kernel
\* is as it should be.
LEMMA KernelOkEvents ==
    ASSUME NEW kk, KernelOk(kk), NEW r \in KernelState, Linked(r),
           SameStates(kk, r), SameRest(kk, r),
           \A e \in EventLists, t \in Task : Occurs(r.event[e], t) => t \in kk.live /\ ~IsReady(kk, t)
    PROVE  KernelOk(r) /\ \A t \in Task : IsReady(r, t) <=> IsReady(kk, t)
<1>1. /\ Sound(r) /\ SamePlaces(kk, r) /\ r.live = kk.live /\ r.current = kk.current
      /\ r.prio = kk.prio /\ r.order = kk.order
      /\ \A t \in Task : IsReady(r, t) <=> IsReady(kk, t)
  BY SoundEvents DEF KernelOk
<1>2. \A t \in Task : ~IsIn(r, t, Terminated)
  BY <1>1, ListNames DEF KernelOk, SamePlaces
<1> QED  BY <1>1, <1>2, TasksAssumption DEF KernelOk

\* What a queue sees of a step of the kernel: no task waits that did not, none
\* that was ready is not, and the task that runs is the same or a ready one.
Eases(kk, r) ==
    /\ KernelOk(r) /\ r.live = kk.live
    /\ \A e \in WaitLists, t \in Task : Occurs(r.event[e], t) => Occurs(kk.event[e], t)
    /\ \A t \in Task : IsReady(kk, t) => IsReady(r, t)
    /\ r.current = kk.current \/ IsReady(r, r.current)

SameModes(kk, r) == r.held = kk.held /\ r.susp = kk.susp /\ r.cpu = kk.cpu

\* Two steps that ease the waits ease them together.
LEMMA EasesTwice ==
    ASSUME NEW kk, NEW r1, NEW r2, Eases(kk, r1), Eases(r1, r2)
    PROVE  Eases(kk, r2)
<1>1. r2.current \in Task
  BY FieldTypes DEF Eases, KernelOk, Sound
<1> QED  BY <1>1 DEF Eases

\* vTaskSwitchContext.
LEMMA SwitchEases ==
    ASSUME NEW kk, KernelOk(kk)
    PROVE  /\ Eases(kk, vTaskSwitchContext(kk)) /\ SameModes(kk, vTaskSwitchContext(kk))
           /\ vTaskSwitchContext(kk).event = kk.event
           /\ kk.susp = 0 => IsReady(vTaskSwitchContext(kk), vTaskSwitchContext(kk).current)
           /\ kk.susp # 0 => vTaskSwitchContext(kk).current = kk.current
<1> DEFINE r == vTaskSwitchContext(kk)
<1>1. Sound(kk) /\ kk \in KernelState /\ Idle \in Task
  BY TasksAssumption DEF KernelOk, Sound
<1>2. Switched(kk, r)
  BY <1>1, ContextSwitches DEF KernelOk
<1> HIDE DEF r
<1>3. /\ r.event = kk.event /\ r.live = kk.live /\ r.prio = kk.prio /\ r.order = kk.order
      /\ Sound(r) /\ SamePlaces(kk, r) /\ SameModes(kk, r)
  BY <1>2 DEF Switched, KeepsTasks, SameModes
<1>4. \A t \in Task : IsReady(r, t) <=> IsReady(kk, t)
  BY <1>1, <1>3, FieldTypes, ListNames DEF IsReady, SamePlaces
<1>5. r.current \in Task /\ kk.susp \in Nat
  BY <1>1, <1>3, FieldTypes DEF Sound
<1>6. /\ kk.susp = 0 => IsReady(r, r.current)
      /\ kk.susp # 0 => r.current = kk.current
  BY <1>2 DEF Switched
<1>7. r.current \in r.live
  <2>1. CASE kk.susp = 0
    BY <1>3, <1>5, <1>6, <2>1, ReadyMeansReady, FieldTypes DEF IsReady, Sound
  <2> QED  BY <1>3, <1>6, <2>1 DEF KernelOk
<1>8. \A t \in Task : ~IsIn(r, t, Terminated)
  BY <1>3, ListNames DEF KernelOk, SamePlaces
<1>9. KernelOk(r)
  BY <1>1, <1>3, <1>4, <1>7, <1>8 DEF KernelOk
<1>10. Eases(kk, r)
  BY <1>3, <1>4, <1>6, <1>9 DEF Eases
<1> QED  BY <1>3, <1>6, <1>10 DEF r

\* A live task that waits for nothing is made ready.
LEMMA MakeReadyEases ==
    ASSUME NEW kk, KernelOk(kk), NEW t \in kk.live,
           \A e \in EventLists : ~Occurs(kk.event[e], t)
    PROVE  /\ Eases(kk, MakeReady(kk, t)) /\ SameModes(kk, MakeReady(kk, t))
           /\ MakeReady(kk, t).event = kk.event /\ MakeReady(kk, t).current = kk.current
           /\ MakeReady(kk, t).prio = kk.prio
<1> DEFINE r == MakeReady(kk, t)
<1>1. Sound(kk) /\ kk \in KernelState /\ t \in Task
  BY FieldTypes DEF KernelOk, Sound
<1>2. Readied(kk, r, t) /\ Sound(r) /\ IsReady(r, t)
  BY <1>1, MakeReadySound DEF ReadiedSoundly
<1> HIDE DEF r
<1>3. /\ r.event = kk.event /\ r.live = kk.live /\ r.prio = kk.prio /\ r.order = kk.order
      /\ r.current = kk.current /\ SameModes(kk, r) /\ Goes(kk, r, t, Ready(kk.prio[t]))
  BY <1>2 DEF Readied, Keeps, KeepsTasks, KeepsProcessor, SameModes
<1>4. \A u \in Task : u # t => (IsReady(r, u) <=> IsReady(kk, u))
  BY <1>1, <1>3, FieldTypes, ListNames DEF IsReady, Goes
<1>5. \A u \in Task : IsReady(kk, u) => IsReady(r, u)
  BY <1>2, <1>4
<1>6. \A u \in Task : ~IsIn(r, u, Terminated)
  <2>1. Ready(kk.prio[t]) # Terminated /\ Terminated \in StateLists
    BY <1>1, FieldTypes, ListNames
  <2> QED  BY <1>3, <2>1 DEF KernelOk, Goes
<1>7. \A e \in EventLists, u \in Task : Occurs(r.event[e], u) => u \in r.live /\ ~IsReady(r, u)
  BY <1>3, <1>4 DEF KernelOk
<1>8. KernelOk(r)
  BY <1>2, <1>3, <1>5, <1>6, <1>7, TasksAssumption DEF KernelOk
<1>9. Eases(kk, r)
  BY <1>3, <1>5, <1>8 DEF Eases
<1> QED  BY <1>3, <1>9 DEF r

\* A change of the clock, of the mode of the processor or of a pending yield.
LEMMA FlagEases ==
    ASSUME NEW kk, KernelOk(kk), NEW r \in KernelState, SameLists(kk, r),
           r.prio = kk.prio, r.live = kk.live, r.top = kk.top, r.order = kk.order,
           r.current = kk.current
    PROVE  Eases(kk, r) /\ r.event = kk.event
<1>1. r.current \in r.live
  BY DEF KernelOk
<1>2. KernelOk(r) /\ \A t \in Task : IsReady(r, t) <=> IsReady(kk, t)
  BY <1>1, KernelOkSame
<1> QED  BY <1>2 DEF Eases, SameLists

\* Pending a yield moves no task.
LEMMA PendYieldEases ==
    ASSUME NEW kk, KernelOk(kk), NEW t \in Task
    PROVE  /\ Eases(kk, PendYieldIfHigher(kk, t)) /\ SameModes(kk, PendYieldIfHigher(kk, t))
           /\ PendYieldIfHigher(kk, t).event = kk.event
           /\ PendYieldIfHigher(kk, t).current = kk.current
<1> DEFINE b == kk.yield \/ kk.prio[t] > kk.prio[kk.current]
           r == [kk EXCEPT !.yield = b]
<1>1. kk \in KernelState /\ kk.yield \in BOOLEAN
  BY FieldTypes DEF KernelOk, Sound
<1>2. b \in BOOLEAN
  BY <1>1
<1>3. PendYieldIfHigher(kk, t) = r
  BY DEF PendYieldIfHigher
<1> HIDE DEF b
<1>4. /\ r \in KernelState /\ SameLists(kk, r) /\ r.prio = kk.prio /\ r.live = kk.live
      /\ r.top = kk.top /\ r.order = kk.order /\ r.current = kk.current /\ SameModes(kk, r)
  BY <1>1, <1>2 DEF KernelState, SameLists, SameModes
<1> HIDE DEF r
<1> QED  BY <1>3, <1>4, FlagEases

-----------------------------------------------------------------------------
(* Event lists. *)

\* Of the first task of an event list: it no longer waits for anything a queue
\* has.  With the scheduler suspended it is in xPendingReadyList.
Freed(r, t) == \A e \in WaitLists : ~Occurs(r.event[e], t)

\* xTaskRemoveFromEventList frees the first task of an event list.
LEMMA RemoveFromEventListEases ==
    ASSUME NEW kk, KernelOk(kk), NEW e \in WaitLists, kk.event[e] # <<>>
    PROVE  LET t == Head(kk.event[e])
               r == xTaskRemoveFromEventList(kk, e)
           IN  /\ t \in Task /\ Occurs(kk.event[e], t)
               /\ Eases(kk, r) /\ SameModes(kk, r) /\ r.current = kk.current
               /\ Freed(r, t)
<1> DEFINE t == Head(kk.event[e])
           a == [kk EXCEPT !.event[e] = Tail(@)]
           m == MakeReadyOrPend(a, t)
           r == xTaskRemoveFromEventList(kk, e)
<1>1. /\ kk \in KernelState /\ Linked(kk) /\ e \in EventLists /\ Sound(kk)
      /\ PendingReady \in EventLists /\ PendingReady \notin WaitLists
      /\ WaitLists \subseteq EventLists
  BY ListNames DEF KernelOk, Sound
<1>2. a = [kk EXCEPT !.event[e] = Tail(kk.event[e])]
  BY <1>1
<1>3. t \in Task /\ Occurs(kk.event[e], t) /\ Unlinked(kk, a, t)
  BY <1>1, <1>2, EventHeadUnlinked
<1>4. r = PendYieldIfHigher(m, t)
  BY DEF xTaskRemoveFromEventList
<1>5. t \in kk.live /\ ~IsReady(kk, t)
  BY <1>1, <1>3 DEF KernelOk
<1> HIDE DEF t, a, r
<1>6. /\ a \in KernelState /\ Linked(a) /\ SameStates(kk, a) /\ SameRest(kk, a)
      /\ \A f \in EventLists, u \in Task :
             Occurs(a.event[f], u) <=> u # t /\ Occurs(kk.event[f], u)
  BY <1>3 DEF Unlinked
<1>7. \A f \in EventLists, u \in Task : Occurs(a.event[f], u) => u \in kk.live /\ ~IsReady(kk, u)
  BY <1>6 DEF KernelOk
<1>8. KernelOk(a) /\ \A u \in Task : IsReady(a, u) <=> IsReady(kk, u)
  BY <1>6, <1>7, KernelOkEvents
<1>9. /\ a.live = kk.live /\ a.current = kk.current /\ SameModes(kk, a)
      /\ \A f \in EventLists : ~Occurs(a.event[f], t)
  BY <1>3, <1>6 DEF SameRest, Keeps, KeepsTasks, KeepsProcessor, SameModes
<1>10. Eases(kk, a)
  BY <1>1, <1>6, <1>8, <1>9 DEF Eases
<1>11. Eases(a, m) /\ SameModes(a, m) /\ m.current = a.current /\ Freed(m, t)
  <2>1. CASE a.susp = 0
    <3>1. m = MakeReady(a, t) /\ t \in a.live
      BY <1>5, <1>9, <2>1 DEF MakeReadyOrPend
    <3> HIDE DEF m
    <3>2. Eases(a, m) /\ SameModes(a, m) /\ m.current = a.current /\ m.event = a.event
      BY <1>8, <1>9, <3>1, MakeReadyEases
    <3> QED  BY <1>1, <1>9, <3>2 DEF Freed
  <2>2. CASE a.susp # 0
    <3>1. m = AppendPending(a, t)
      BY <2>2 DEF MakeReadyOrPend
    <3> HIDE DEF m
    <3>2. ~Waits(a, t)
      BY <1>9 DEF Waits
    <3>3. LinkedTo(a, m, t, PendingReady)
      BY <1>3, <1>6, <3>1, <3>2, AppendPendingLinks
    <3>4. /\ m \in KernelState /\ Linked(m) /\ SameStates(a, m) /\ SameRest(a, m)
          /\ \A f \in EventLists, u \in Task :
                 Occurs(m.event[f], u) <=> IF u = t THEN f = PendingReady ELSE Occurs(a.event[f], u)
      BY <3>3 DEF LinkedTo
    <3>5. \A f \in EventLists, u \in Task :
              Occurs(m.event[f], u) => u \in a.live /\ ~IsReady(a, u)
      BY <1>5, <1>8, <1>9, <3>4 DEF KernelOk
    <3>6. KernelOk(m) /\ \A u \in Task : IsReady(m, u) <=> IsReady(a, u)
      BY <1>8, <3>4, <3>5, KernelOkEvents
    <3>7. m.live = a.live /\ m.current = a.current /\ SameModes(a, m)
      BY <3>4 DEF SameRest, Keeps, KeepsTasks, KeepsProcessor, SameModes
    <3>8. Freed(m, t) /\ \A f \in WaitLists, u \in Task : Occurs(m.event[f], u) => Occurs(a.event[f], u)
      BY <1>1, <1>3, <3>4 DEF Freed
    <3> QED  BY <3>6, <3>7, <3>8 DEF Eases
  <2> QED  BY <2>1, <2>2
<1> HIDE DEF m
<1>12. /\ Eases(m, r) /\ SameModes(m, r) /\ r.event = m.event /\ r.current = m.current
  BY <1>3, <1>4, <1>11, PendYieldEases DEF Eases
<1>13. Eases(kk, r)
  BY <1>10, <1>11, <1>12, EasesTwice
<1>14. SameModes(kk, r) /\ r.current = kk.current /\ Freed(r, t)
  BY <1>9, <1>11, <1>12 DEF SameModes, Freed
<1> QED  BY <1>3, <1>13, <1>14 DEF t, r

\* The first waiting task is freed, if there is one.
WakesFirst(kk, r, e) ==
    kk.event[e] = <<>> \/ \E t \in Task : Occurs(kk.event[e], t) /\ Freed(r, t)

\* Waking one waiter frees the first, where there is one.
LEMMA UnblockEases ==
    ASSUME NEW kk, KernelOk(kk), NEW e \in WaitLists
    PROVE  /\ Eases(kk, Unblock(kk, e)) /\ SameModes(kk, Unblock(kk, e))
           /\ Unblock(kk, e).current = kk.current /\ WakesFirst(kk, Unblock(kk, e), e)
<1>1. CASE kk.event[e] = <<>>
  <2>1. Unblock(kk, e) = kk
    BY <1>1 DEF Unblock
  <2> QED  BY <1>1, <2>1 DEF Eases, SameModes, WakesFirst
<1>2. CASE kk.event[e] # <<>>
  <2>1. Unblock(kk, e) = xTaskRemoveFromEventList(kk, e)
    BY <1>2 DEF Unblock
  <2> QED  BY <1>2, <2>1, RemoveFromEventListEases DEF WakesFirst
<1> QED  BY <1>1, <1>2

\* The same, where the waker yields to a waiter of higher priority.
LEMMA UnblockAndYieldEases ==
    ASSUME NEW kk, KernelOk(kk), NEW e \in WaitLists
    PROVE  /\ Eases(kk, UnblockAndYield(kk, e)) /\ SameModes(kk, UnblockAndYield(kk, e))
           /\ WakesFirst(kk, UnblockAndYield(kk, e), e)
<1> DEFINE t == Head(kk.event[e])
           a == xTaskRemoveFromEventList(kk, e)
<1>1. CASE kk.event[e] # <<>> /\ kk.prio[t] > kk.prio[kk.current]
  <2>1. UnblockAndYield(kk, e) = vTaskSwitchContext(a)
    BY <1>1 DEF UnblockAndYield
  <2>2. /\ t \in Task /\ Occurs(kk.event[e], t) /\ Eases(kk, a) /\ SameModes(kk, a) /\ Freed(a, t)
    BY <1>1, RemoveFromEventListEases
  <2> HIDE DEF t, a
  <2>3. /\ Eases(a, vTaskSwitchContext(a)) /\ SameModes(a, vTaskSwitchContext(a))
        /\ vTaskSwitchContext(a).event = a.event
    BY <2>2, SwitchEases DEF Eases
  <2>4. Eases(kk, vTaskSwitchContext(a)) /\ SameModes(kk, vTaskSwitchContext(a))
    BY <2>2, <2>3, EasesTwice DEF SameModes
  <2>5. Freed(vTaskSwitchContext(a), t)
    BY <2>2, <2>3 DEF Freed
  <2> QED  BY <2>1, <2>2, <2>4, <2>5 DEF WakesFirst
<1>2. CASE ~(kk.event[e] # <<>> /\ kk.prio[t] > kk.prio[kk.current])
  <2>1. UnblockAndYield(kk, e) = Unblock(kk, e)
    BY <1>2 DEF UnblockAndYield
  <2> QED  BY <2>1, UnblockEases
<1> QED  BY <1>1, <1>2

\* The running task goes to sleep, in an event list or not.
LEMMA CurrentSleeps ==
    ASSUME NEW kk, Sound(kk), IsReady(kk, Idle), kk.current \in kk.live, kk.current # Idle,
           \A e \in EventLists, t \in Task : Occurs(kk.event[e], t) =>
               t \in kk.live /\ (t # kk.current => ~IsReady(kk, t)),
           \A t \in Task : ~IsIn(kk, t, Terminated),
           \A t \in Task : kk.order[t] \in 1 .. MaxPriority + 1,
           NEW n \in Tick, NEW b \in BOOLEAN
    PROVE  LET r == prvAddCurrentTaskToDelayedList(kk, n, b)
           IN  /\ KernelOk(r) /\ r.event = kk.event /\ r.live = kk.live
               /\ r.current = kk.current /\ SameModes(kk, r)
               /\ \A t \in Task : t # kk.current /\ IsReady(kk, t) => IsReady(r, t)
<1> DEFINE r == prvAddCurrentTaskToDelayedList(kk, n, b)
           t == kk.current
           l == SleepList(kk, n, b)
<1>1. PutToSleep(kk, r, t, n, b) /\ Sound(r) /\ t \in Task
  BY SleepSound, FieldTypes DEF Sound
<1> HIDE DEF r
<1>2. /\ Goes(kk, r, t, l) /\ r.event = kk.event /\ r.live = kk.live /\ r.prio = kk.prio
      /\ r.order = kk.order /\ r.current = kk.current /\ SameModes(kk, r)
  BY <1>1 DEF PutToSleep, Keeps, KeepsTasks, KeepsProcessor, SameModes
<1>3. l \in {Suspended, OverflowDelayed, Delayed}
  BY DEF SleepList
<1> HIDE DEF l
<1>4. kk.prio \in [Task -> Priority]
  BY FieldTypes DEF Sound
<1>5. \A u \in Task : u # t => (IsReady(r, u) <=> IsReady(kk, u))
  BY <1>2, <1>4, ListNames DEF IsReady, Goes
<1>6. ~IsReady(r, t)
  BY <1>1, <1>2, <1>3, <1>4, ListNames DEF IsReady, Goes
<1>7. \A u \in Task : ~IsIn(r, u, Terminated)
  BY <1>2, <1>3, ListNames DEF Goes
<1>8. KernelOk(r)
  BY <1>1, <1>2, <1>5, <1>6, <1>7, TasksAssumption DEF KernelOk
<1> QED  BY <1>2, <1>5, <1>8 DEF r

\* vTaskPlaceOnEventList.
LEMMA PlaceWaits ==
    ASSUME NEW kk, KernelOk(kk), kk.current # Idle, IsReady(kk, kk.current),
           NEW e \in WaitLists, NEW n \in Tick
    PROVE  LET r == vTaskPlaceOnEventList(kk, e, n)
           IN  /\ KernelOk(r) /\ r.live = kk.live /\ r.current = kk.current /\ SameModes(kk, r)
               /\ \A f \in WaitLists, u \in Task :
                      Occurs(r.event[f], u) <=>
                          IF u = kk.current THEN f = e ELSE Occurs(kk.event[f], u)
               /\ \A u \in Task : u # kk.current /\ IsReady(kk, u) => IsReady(r, u)
<1> DEFINE t == kk.current
           s == vListInsert(kk.event[e], kk.order, t)
           a == [kk EXCEPT !.event[e] = s]
           r == vTaskPlaceOnEventList(kk, e, n)
<1>1. /\ kk \in KernelState /\ Linked(kk) /\ e \in EventLists /\ Sound(kk) /\ t \in Task
      /\ WaitLists \subseteq EventLists
  BY FieldTypes, ListNames DEF KernelOk, Sound
<1>2. r = prvAddCurrentTaskToDelayedList(a, n, TRUE)
  BY <1>1 DEF vTaskPlaceOnEventList
<1>3. ~Waits(kk, t)
  BY <1>1 DEF KernelOk, Waits
<1>4. kk.event[e] \in Seq(Task) /\ Distinct(kk.event[e]) /\ kk.order \in [Task -> Nat]
  BY <1>1, FieldTypes DEF Linked
<1>5. ~Occurs(kk.event[e], t)
  BY <1>1, <1>3 DEF Waits
<1>6. s \in Seq(Task) /\ Distinct(s) /\ \A u : Occurs(s, u) <=> u = t \/ Occurs(kk.event[e], u)
  BY <1>1, <1>4, <1>5, InsertOccurs
<1> HIDE DEF s, r
<1>7. LinkedTo(kk, a, t, e)
  BY <1>1, <1>3, <1>6, EventListGrows
<1> HIDE DEF a
<1>8. /\ a \in KernelState /\ Linked(a) /\ SameStates(kk, a) /\ SameRest(kk, a)
      /\ \A f \in EventLists, u \in Task :
             Occurs(a.event[f], u) <=> IF u = t THEN f = e ELSE Occurs(kk.event[f], u)
  BY <1>7 DEF LinkedTo
<1>9. /\ Sound(a) /\ SamePlaces(kk, a) /\ a.live = kk.live /\ a.current = t
      /\ a.order = kk.order /\ \A u \in Task : IsReady(a, u) <=> IsReady(kk, u)
  BY <1>1, <1>8, SoundEvents
<1>10. SameModes(kk, a)
  BY <1>8 DEF SameRest, Keeps, KeepsTasks, KeepsProcessor, SameModes
<1>11. /\ IsReady(a, Idle) /\ a.current \in a.live /\ a.current # Idle
       /\ \A u \in Task : ~IsIn(a, u, Terminated)
       /\ \A u \in Task : a.order[u] \in 1 .. MaxPriority + 1
  BY <1>9, ListNames, TasksAssumption DEF KernelOk, SamePlaces
<1>12. \A f \in EventLists, u \in Task : Occurs(a.event[f], u) =>
           u \in a.live /\ (u # a.current => ~IsReady(a, u))
  BY <1>8, <1>9 DEF KernelOk
<1>13. /\ KernelOk(r) /\ r.event = a.event /\ r.live = a.live /\ r.current = a.current
       /\ SameModes(a, r) /\ \A u \in Task : u # a.current /\ IsReady(a, u) => IsReady(r, u)
  BY <1>2, <1>9, <1>11, <1>12, CurrentSleeps
<1> QED  BY <1>1, <1>8, <1>9, <1>10, <1>13 DEF r, SameModes

-----------------------------------------------------------------------------
(* The tick, the drain of xPendingReadyList and the priorities. *)

\* A step that moves no task but between the delayed lists.
LEMMA AlikeEases ==
    ASSUME NEW kk, KernelOk(kk), NEW r, Sound(r), r.event = kk.event, KeepsTasks(kk, r),
           r.current = kk.current, SamePlacesButDelayed(kk, r)
    PROVE  Eases(kk, r)
<1>1. kk.prio \in [Task -> Priority]
  BY FieldTypes DEF KernelOk, Sound
<1>2. r.prio = kk.prio /\ r.live = kk.live /\ r.order = kk.order
  BY DEF KeepsTasks
<1>3. \A t \in Task : IsReady(r, t) <=> IsReady(kk, t)
  <2> TAKE t \in Task
  <2>1. Ready(kk.prio[t]) \in StateLists \ {Delayed, OverflowDelayed}
    BY <1>1, ListNames
  <2> QED  BY <1>2, <2>1 DEF IsReady, SamePlacesButDelayed
<1>4. Terminated \in StateLists \ {Delayed, OverflowDelayed}
  BY ListNames
<1>5. \A t \in Task : ~IsIn(r, t, Terminated)
  BY <1>4 DEF KernelOk, SamePlacesButDelayed
<1>6. KernelOk(r)
  BY <1>2, <1>3, <1>5, TasksAssumption DEF KernelOk
<1> QED  BY <1>2, <1>3, <1>6 DEF Eases

\* The head and the tail of xTaskIncrementTick, and xNextTaskUnblockTime.
LEMMA TickEases ==
    ASSUME NEW kk, KernelOk(kk)
    PROVE  /\ Eases(kk, IncrementTick(kk)) /\ SameModes(kk, IncrementTick(kk))
           /\ IncrementTick(kk).event = kk.event /\ IncrementTick(kk).current = kk.current
           /\ IncrementTick(kk).pended = kk.pended
<1>1. Sound(kk)
  BY DEF KernelOk
<1>2. Ticked(kk, IncrementTick(kk)) /\ Sound(IncrementTick(kk))
  BY <1>1, TickSound
<1>3. /\ IncrementTick(kk).event = kk.event /\ KeepsTasks(kk, IncrementTick(kk))
      /\ KeepsProcessor(kk, IncrementTick(kk)) /\ SamePlacesButDelayed(kk, IncrementTick(kk))
  BY <1>2 DEF Ticked
<1>4. IncrementTick(kk).current = kk.current /\ SameModes(kk, IncrementTick(kk))
  BY <1>3 DEF KeepsProcessor, KeepsTasks, SameModes
<1>5. IncrementTick(kk).pended = kk.pended
  BY <1>2 DEF Ticked
<1> QED  BY <1>2, <1>3, <1>4, <1>5, AlikeEases

\* The end of the loop over the delayed tasks moves no task.
LEMMA LoopEndEases ==
    ASSUME NEW kk, KernelOk(kk)
    PROVE  /\ Eases(kk, AfterTickLoop(kk)) /\ SameModes(kk, AfterTickLoop(kk))
           /\ AfterTickLoop(kk).event = kk.event /\ AfterTickLoop(kk).current = kk.current
           /\ AfterTickLoop(kk).pended = kk.pended
<1> DEFINE r == AfterTickLoop(kk)
<1>1. Sound(kk)
  BY DEF KernelOk
<1>2. LoopEnded(kk, r) /\ Sound(r) /\ SamePlaces(kk, r)
  BY <1>1, LoopEndSound
<1> HIDE DEF r
<1>3. r.event = kk.event /\ KeepsTasks(kk, r) /\ KeepsProcessor(kk, r) /\ r.pended = kk.pended
  BY <1>2 DEF LoopEnded, SameLists, Keeps, KeepsClock
<1>4. r.current = kk.current /\ SameModes(kk, r)
  BY <1>3 DEF KeepsProcessor, KeepsTasks, SameModes
<1>5. SamePlacesButDelayed(kk, r)
  BY <1>2, ListNames DEF SamePlaces, SamePlacesButDelayed
<1>6. Eases(kk, r)
  BY <1>2, <1>3, <1>4, <1>5, AlikeEases
<1> QED  BY <1>3, <1>4, <1>6 DEF r

\* prvResetNextTaskUnblockTime moves no task.
LEMMA ResetEases ==
    ASSUME NEW kk, KernelOk(kk)
    PROVE  LET r == prvResetNextTaskUnblockTime(kk)
           IN  Eases(kk, r) /\ SameModes(kk, r) /\ r.event = kk.event /\ r.current = kk.current
<1> DEFINE r == prvResetNextTaskUnblockTime(kk)
<1>1. Sound(kk)
  BY DEF KernelOk
<1>2. NextReset(kk, r) /\ Sound(r) /\ SamePlaces(kk, r)
  BY <1>1, ResetSound
<1> HIDE DEF r
<1>3. r.event = kk.event /\ KeepsTasks(kk, r) /\ KeepsProcessor(kk, r)
  BY <1>2 DEF NextReset, SameLists, Keeps
<1>4. r.current = kk.current /\ SameModes(kk, r)
  BY <1>3 DEF KeepsProcessor, KeepsTasks, SameModes
<1>5. SamePlacesButDelayed(kk, r)
  BY <1>2, ListNames DEF SamePlaces, SamePlacesButDelayed
<1>6. Eases(kk, r)
  BY <1>2, <1>3, <1>4, <1>5, AlikeEases
<1> QED  BY <1>3, <1>4, <1>6 DEF r

\* A turn of the loop of xTaskIncrementTick: a sleeper is ready.
LEMMA UnblockHeadEases ==
    ASSUME NEW kk, KernelOk(kk), ~Empty(kk, Delayed)
    PROVE  LET r == UnblockHead(kk)
           IN  Eases(kk, r) /\ SameModes(kk, r) /\ r.current = kk.current /\ r.pended = kk.pended
<1> DEFINE t == Head(kk.list[Delayed])
           r == UnblockHead(kk)
<1>1. Sound(kk) /\ kk \in KernelState /\ kk.prio \in [Task -> Priority] /\ kk.live \subseteq Task
  BY FieldTypes DEF KernelOk, Sound
<1>2. t \in kk.live /\ UnblockedSoundly(kk, r, t)
  BY <1>1, UnblockHeadSound
<1> HIDE DEF t, r
<1>3. /\ Sound(r) /\ IsReady(r, t) /\ Keeps(kk, r) /\ Goes(kk, r, t, Ready(kk.prio[t]))
      /\ \A e \in EventLists, u \in Task :
             Occurs(r.event[e], u) <=> u # t /\ Occurs(kk.event[e], u)
  BY <1>2 DEF UnblockedSoundly, Unblocked
<1>4. /\ r.prio = kk.prio /\ r.live = kk.live /\ r.order = kk.order /\ r.current = kk.current
      /\ SameModes(kk, r) /\ r.pended = kk.pended
  BY <1>3 DEF Keeps, KeepsTasks, KeepsProcessor, KeepsClock, SameModes
<1>5. t \in Task
  BY <1>1, <1>2
<1>6. \A u \in Task : u # t => (IsReady(r, u) <=> IsReady(kk, u))
  BY <1>1, <1>3, <1>4, ListNames DEF IsReady, Goes
<1>7. \A u \in Task : ~IsIn(r, u, Terminated)
  <2>1. Ready(kk.prio[t]) # Terminated /\ Terminated \in StateLists
    BY <1>1, <1>5, ListNames
  <2> QED  BY <1>3, <2>1 DEF KernelOk, Goes
<1>8. \A e \in EventLists, u \in Task : Occurs(r.event[e], u) => u \in r.live /\ ~IsReady(r, u)
  BY <1>3, <1>4, <1>6 DEF KernelOk
<1>9. IsReady(r, Idle) /\ r.current \in r.live
  BY <1>3, <1>4, <1>6, TasksAssumption DEF KernelOk
<1>10. KernelOk(r)
  BY <1>3, <1>4, <1>7, <1>8, <1>9 DEF KernelOk
<1>11. Eases(kk, r)
  BY <1>3, <1>4, <1>6, <1>10, ListNames DEF Eases
<1> QED  BY <1>4, <1>11 DEF r

\* A turn of the loop that drains xPendingReadyList: a parked task is ready.
LEMMA DrainEases ==
    ASSUME NEW kk, KernelOk(kk), kk.event[PendingReady] # <<>>
    PROVE  LET t == Head(kk.event[PendingReady])
               r == PendYieldIfHigher(
                        MakeReady([kk EXCEPT !.event[PendingReady] = Tail(@),
                                             !.cpu = "drainMore"], t), t)
           IN  /\ Eases(kk, r) /\ r.current = kk.current
               /\ r.held = kk.held /\ r.susp = kk.susp /\ r.cpu = "drainMore"
<1> DEFINE t == Head(kk.event[PendingReady])
           a == [kk EXCEPT !.event[PendingReady] = Tail(kk.event[PendingReady])]
           b == [kk EXCEPT !.event[PendingReady] = Tail(@), !.cpu = "drainMore"]
           m == MakeReady(b, t)
           r == PendYieldIfHigher(m, t)
<1>1. kk \in KernelState /\ Linked(kk) /\ Sound(kk) /\ PendingReady \in EventLists
      /\ WaitLists \subseteq EventLists /\ kk.event \in [EventLists -> Seq(Task)]
  BY ListNames, FieldTypes DEF KernelOk, Sound
<1>2. t \in Task /\ Occurs(kk.event[PendingReady], t) /\ Unlinked(kk, a, t)
  BY <1>1, EventHeadUnlinked
<1>3. t \in kk.live
  BY <1>1, <1>2 DEF KernelOk
<1>4. b = [a EXCEPT !.cpu = "drainMore"]
  BY <1>1 DEF KernelState
<1> HIDE DEF t, a
<1>5. /\ a \in KernelState /\ Linked(a) /\ SameStates(kk, a) /\ SameRest(kk, a)
      /\ \A f \in EventLists, u \in Task :
             Occurs(a.event[f], u) <=> u # t /\ Occurs(kk.event[f], u)
  BY <1>2 DEF Unlinked
<1>6. \A f \in EventLists, u \in Task : Occurs(a.event[f], u) => u \in kk.live /\ ~IsReady(kk, u)
  BY <1>5 DEF KernelOk
<1>7. KernelOk(a) /\ \A u \in Task : IsReady(a, u) <=> IsReady(kk, u)
  BY <1>5, <1>6, KernelOkEvents
<1>8. /\ a.live = kk.live /\ a.current = kk.current /\ SameModes(kk, a)
      /\ \A f \in EventLists : ~Occurs(a.event[f], t)
  BY <1>2, <1>5 DEF SameRest, Keeps, KeepsTasks, KeepsProcessor, SameModes
<1>9. Eases(kk, a)
  BY <1>1, <1>5, <1>7, <1>8 DEF Eases
<1>10. /\ b \in KernelState /\ SameLists(a, b) /\ b.prio = a.prio /\ b.live = a.live
       /\ b.top = a.top /\ b.order = a.order /\ b.current = a.current
       /\ b.held = a.held /\ b.susp = a.susp /\ b.cpu = "drainMore"
  <2>1. a \in KernelState /\ "drainMore" \in CpuModes
    BY <1>5 DEF CpuModes
  <2> HIDE DEF b
  <2>2. b \in KernelState
    BY <1>4, <2>1 DEF KernelState
  <2>3. /\ b.list = a.list /\ b.index = a.index /\ b.event = a.event /\ b.wake = a.wake
        /\ b.prio = a.prio /\ b.live = a.live
        /\ b.top = a.top /\ b.order = a.order /\ b.current = a.current
        /\ b.held = a.held /\ b.susp = a.susp /\ b.cpu = "drainMore"
    BY <1>4, <2>1 DEF KernelState
  <2> QED  BY <2>2, <2>3 DEF SameLists
<1> HIDE DEF b
<1>11. Eases(a, b) /\ b.event = a.event
  BY <1>7, <1>10, FlagEases
<1>12. KernelOk(b) /\ t \in b.live /\ \A f \in EventLists : ~Occurs(b.event[f], t)
  BY <1>3, <1>8, <1>10, <1>11 DEF Eases
<1>13. Eases(b, m) /\ SameModes(b, m) /\ m.current = b.current
  BY <1>12, MakeReadyEases
<1> HIDE DEF m
<1>14. Eases(m, r) /\ SameModes(m, r) /\ r.current = m.current
  BY <1>2, <1>13, PendYieldEases DEF Eases
<1> HIDE DEF r
<1>15. Eases(kk, r)
  BY <1>9, <1>11, <1>13, <1>14, EasesTwice
<1>16. r.current = kk.current /\ r.held = kk.held /\ r.susp = kk.susp /\ r.cpu = "drainMore"
  BY <1>8, <1>10, <1>13, <1>14 DEF SameModes
<1> QED  BY <1>15, <1>16 DEF r, m, b, t

\* A task takes another priority and keeps its state.
LEMMA RankEases ==
    ASSUME NEW kk, KernelOk(kk), NEW t \in kk.live, NEW p \in Priority, NEW r, Sound(r),
           r.prio = [kk.prio EXCEPT ![t] = p], r.live = kk.live, r.event = kk.event,
           r.current = kk.current, \A u \in Task : r.order[u] \in 1 .. MaxPriority + 1,
           IsReady(kk, t) => Goes(kk, r, t, Ready(p)), ~IsReady(kk, t) => SamePlaces(kk, r)
    PROVE  Eases(kk, r)
<1>1. Sound(kk) /\ kk \in KernelState /\ kk.prio \in [Task -> Priority] /\ t \in Task
  BY FieldTypes DEF KernelOk, Sound
<1>2. \A q \in Priority : Ready(q) \in StateLists /\ Ready(q) # Terminated /\ Terminated \in StateLists
  BY ListNames
<1>3. r.prio[t] = p /\ \A u \in Task : u # t => r.prio[u] = kk.prio[u] /\ kk.prio[u] \in Priority
  BY <1>1
<1>4. \A u \in Task : u # t => (IsReady(r, u) <=> IsReady(kk, u))
  BY <1>2, <1>3 DEF IsReady, Goes, SamePlaces
<1>5. IsReady(kk, t) => IsReady(r, t)
  BY <1>1, <1>2, <1>3 DEF IsReady, Goes
<1>6. ~IsReady(kk, t) => ~IsReady(r, t)
  <2> SUFFICES ASSUME ~IsReady(kk, t), IsReady(r, t) PROVE FALSE
    OBVIOUS
  <2>1. IsIn(kk, t, Ready(p))
    BY <1>1, <1>2, <1>3 DEF IsReady, SamePlaces
  <2> QED  BY <1>1, <2>1, ReadyMeansReady
<1>7. \A u \in Task : ~IsIn(r, u, Terminated)
  BY <1>1, <1>2 DEF KernelOk, Goes, SamePlaces
<1>8. \A u \in Task : IsReady(r, u) <=> IsReady(kk, u)
  BY <1>4, <1>5, <1>6
<1>9. KernelOk(r)
  BY <1>7, <1>8, TasksAssumption DEF KernelOk
<1> QED  BY <1>8, <1>9 DEF Eases

\* ChangePriority, to a priority and its value.
LEMMA PriorityEases ==
    ASSUME NEW kk, KernelOk(kk), NEW t \in kk.live, NEW p \in Priority
    PROVE  LET r == ChangePriority(kk, t, p, EventValue(p))
           IN  Eases(kk, r) /\ SameModes(kk, r) /\ r.current = kk.current
<1> DEFINE v == EventValue(p)
           a == [kk EXCEPT !.prio[t] = p, !.order[t] = v]
           r == ChangePriority(kk, t, p, v)
<1>1. Sound(kk) /\ kk \in KernelState /\ t \in Task /\ Linked(kk) /\ kk.order \in [Task -> Nat]
  BY FieldTypes DEF KernelOk, Sound
<1>2. v \in Nat /\ v \in 1 .. MaxPriority + 1
  BY KernelAssumption DEF EventValue, Priority
<1>3. ~ValueInUse(kk, t)
  BY <1>1, KernelAssumption DEF KernelOk, ValueInUse
<1>4. r = IF IsReady(kk, t) THEN MakeReady(a, t) ELSE a
  BY <1>3 DEF ChangePriority, IsReady
<1>5. Reprioritised(kk, r, t, p)
  BY <1>1, <1>2, ChangeReprioritises
<1> HIDE DEF v, r
<1>6. a \in KernelState /\ a.order = [kk.order EXCEPT ![t] = v] /\ SameLists(kk, a)
  BY <1>1, <1>2 DEF KernelState, SameLists
<1> HIDE DEF a
<1>7. r.order = a.order
  <2>1. CASE IsReady(kk, t)
    <3>1. Linked(a) /\ SamePlaces(kk, a)
      BY <1>1, <1>6, SameListsLinked
    <3>2. kk.prio[t] \in Priority
      BY <1>1, FieldTypes
    <3>3. Ready(kk.prio[t]) \in StateLists /\ IsIn(a, t, Ready(kk.prio[t]))
      BY <1>1, <2>1, <3>1, <3>2, ListNames DEF SamePlaces, IsReady
    <3>4. Readied(a, MakeReady(a, t), t)
      BY <1>1, <1>6, <3>1, <3>3, MakeReadyReadies
    <3> QED  BY <1>4, <2>1, <3>4 DEF Readied, Keeps, KeepsTasks
  <2> QED  BY <1>4, <2>1
<1>8. \A u \in Task : r.order[u] \in 1 .. MaxPriority + 1
  BY <1>1, <1>2, <1>6, <1>7 DEF KernelOk
<1>9. /\ Sound(r) /\ r.prio = [kk.prio EXCEPT ![t] = p] /\ r.live = kk.live
      /\ r.event = kk.event /\ r.current = kk.current /\ SameModes(kk, r)
      /\ IsReady(kk, t) => Goes(kk, r, t, Ready(p))
      /\ ~IsReady(kk, t) => SamePlaces(kk, r)
  BY <1>5 DEF Reprioritised, KeepsProcessor, SameModes
<1>10. Eases(kk, r)
  BY <1>8, <1>9, RankEases
<1> QED  BY <1>9, <1>10 DEF r, v

\* xTaskPriorityInherit: the holder of a mutex takes the running task's
\* priority if that is higher.
LEMMA InheritEases ==
    ASSUME NEW kk, KernelOk(kk), NEW h \in kk.live
    PROVE  LET r == xTaskPriorityInherit(kk, h)
           IN  Eases(kk, r) /\ SameModes(kk, r) /\ r.current = kk.current
<1>1. kk.prio[kk.current] \in Priority
  BY FieldTypes DEF KernelOk, Sound
<1>2. \/ xTaskPriorityInherit(kk, h) = kk
      \/ xTaskPriorityInherit(kk, h)
             = ChangePriority(kk, h, kk.prio[kk.current], EventValue(kk.prio[kk.current]))
  BY DEF xTaskPriorityInherit
<1>3. Eases(kk, kk) /\ SameModes(kk, kk)
  BY DEF Eases, SameModes
<1> QED  BY <1>1, <1>2, <1>3, PriorityEases

\* vTaskPriorityDisinheritAfterTimeout: it takes that of the highest task that
\* still waits, or its own.
LEMMA AfterTimeoutEases ==
    ASSUME NEW kk, KernelOk(kk), NEW h \in kk.live, NEW w \in Priority
    PROVE  LET r == vTaskPriorityDisinheritAfterTimeout(kk, h, w)
           IN  Eases(kk, r) /\ SameModes(kk, r) /\ r.current = kk.current
<1> DEFINE p == IF kk.base[h] < w THEN w ELSE kk.base[h]
<1>1. kk.base[h] \in Priority
  BY FieldTypes DEF KernelOk, Sound
<1>2. p \in Priority
  BY <1>1
<1>3. \/ vTaskPriorityDisinheritAfterTimeout(kk, h, w) = kk
      \/ vTaskPriorityDisinheritAfterTimeout(kk, h, w) = ChangePriority(kk, h, p, EventValue(p))
  BY DEF vTaskPriorityDisinheritAfterTimeout
<1> HIDE DEF p
<1>4. Eases(kk, kk) /\ SameModes(kk, kk)
  BY DEF Eases, SameModes
<1> QED  BY <1>2, <1>3, <1>4, PriorityEases

\* xTaskPriorityDisinherit by the running task, which is ready.
LEMMA DisinheritEases ==
    ASSUME NEW kk, KernelOk(kk), NEW h \in Task, IsReady(kk, h), kk.held[h] > 0
    PROVE  LET r == xTaskPriorityDisinherit(kk, h)
           IN  /\ Eases(kk, r) /\ r.held = [kk.held EXCEPT ![h] = @ - 1]
               /\ r.susp = kk.susp /\ r.cpu = kk.cpu /\ r.current = kk.current
               /\ r.event = kk.event
<1> DEFINE a == [kk EXCEPT !.held[h] = @ - 1]
           p == kk.base[h]
           b == RemoveState(a, h)
           c == [b EXCEPT !.prio[h] = p, !.order[h] = EventValue(p)]
           d == AddToReady(c, h)
           r == xTaskPriorityDisinherit(kk, h)
<1>1. Sound(kk) /\ kk \in KernelState /\ Linked(kk) /\ kk.held \in [Task -> Nat]
      /\ kk.prio \in [Task -> Priority] /\ kk.base \in [Task -> Priority]
      /\ kk.order \in [Task -> Nat]
  BY FieldTypes DEF KernelOk, Sound
<1>2. kk.held[h] - 1 \in Nat /\ p \in Priority
  BY <1>1
<1>3. /\ a \in KernelState /\ SameLists(kk, a) /\ a.prio = kk.prio /\ a.live = kk.live
      /\ a.top = kk.top /\ a.order = kk.order /\ a.current = kk.current
      /\ a.held = [kk.held EXCEPT ![h] = @ - 1] /\ a.susp = kk.susp /\ a.cpu = kk.cpu
      /\ a.base = kk.base
  BY <1>1, <1>2 DEF KernelState, SameLists
<1>4. r = IF DisinheritOccurs(kk, h) THEN d ELSE a
  BY DEF xTaskPriorityDisinherit
<1> HIDE DEF a, p
<1>5. Eases(kk, a) /\ a.event = kk.event
  BY <1>3, FlagEases
<1>6. CASE ~DisinheritOccurs(kk, h)
  BY <1>3, <1>4, <1>5, <1>6
<1>7. CASE DisinheritOccurs(kk, h)
  <2>1. /\ KernelOk(a) /\ Linked(a) /\ Sound(a) /\ IsReady(a, h) /\ h \in a.live
        /\ Ready(a.prio[h]) \in StateLists
    BY <1>1, <1>3, <1>5, ListNames, ReadyMeansReady DEF Eases, KernelOk, Sound, IsReady
  <2>2. Removed(a, b, h)
    BY <1>3, <2>1, RemoveStateRemoves DEF IsReady
  <2> HIDE DEF b
  <2>3. /\ b \in KernelState /\ Linked(b) /\ Leaves(a, b, h) /\ b.event = kk.event
        /\ b.order = kk.order /\ b.prio = kk.prio /\ b.held = a.held /\ b.live = kk.live
        /\ b.top = kk.top /\ b.susp = kk.susp /\ b.cpu = kk.cpu /\ b.current = kk.current
    BY <1>3, <2>2 DEF Removed, Keeps, KeepsTasks, KeepsProcessor, SameLists
  <2>4. EventValue(p) \in Nat /\ EventValue(p) \in 1 .. MaxPriority + 1
    BY <1>2, KernelAssumption DEF EventValue, Priority
  <2>5. /\ c \in KernelState /\ SameLists(b, c) /\ c.prio = [kk.prio EXCEPT ![h] = p]
        /\ c.order = [kk.order EXCEPT ![h] = EventValue(p)] /\ c.held = a.held
        /\ c.live = kk.live /\ c.top = kk.top /\ c.susp = kk.susp /\ c.cpu = kk.cpu
        /\ c.current = kk.current
    BY <1>2, <2>3, <2>4 DEF KernelState, SameLists
  <2> HIDE DEF c
  <2>6. Linked(c) /\ SamePlaces(b, c) /\ \A m \in StateLists : ~IsIn(c, h, m)
    BY <2>3, <2>5, SameListsLinked DEF SamePlaces, Leaves
  <2>7. Readied(c, d, h)
    BY <2>5, <2>6, AddToReadyReadies
  <2> HIDE DEF d
  <2>8. c.prio[h] = p
    BY <1>1, <2>5
  <2>9. /\ d \in KernelState /\ Linked(d) /\ Goes(c, d, h, Ready(p)) /\ d.prio = c.prio
        /\ d.order = c.order /\ d.held = a.held /\ d.live = kk.live /\ d.event = kk.event
        /\ d.susp = kk.susp /\ d.cpu = kk.cpu /\ d.current = kk.current
        /\ d.top >= kk.top /\ d.top >= p
    BY <2>3, <2>5, <2>7, <2>8 DEF Readied, Keeps, KeepsTasks, KeepsProcessor, SameLists
  <2>10. SamePlaces(kk, a)
    BY <1>3, SameListsLinked
  <2>11. Goes(kk, d, h, Ready(p))
    BY <2>3, <2>6, <2>9, <2>10 DEF Goes, SamePlaces, Leaves
  <2>12. Ready(p) \in StateLists /\ (\A q \in Priority : Ready(q) \in StateLists)
         /\ \A q \in Priority : Ready(q) = Ready(p) => q = p
    BY <1>2, ListNames
  <2>13. Listed(d)
    BY <1>1, <1>3, <2>1, <2>9, <2>11, <2>12 DEF Sound, Listed, Goes
  <2>14. ByPriority(d)
    BY <1>1, <2>5, <2>9, <2>11, <2>12 DEF Sound, ByPriority, Goes
  <2>15. Covered(d)
    <3> SUFFICES ASSUME NEW u \in Task, NEW q \in Priority, IsIn(d, u, Ready(q))
                 PROVE  q <= d.top
      BY DEF Covered
    <3>1. d.top \in Nat /\ kk.top \in Nat /\ q \in Nat
      BY <1>1, <2>9, FieldTypes, TickFacts
    <3>2. CASE u = h
      BY <2>9, <2>11, <2>12, <3>2 DEF Goes
    <3>3. CASE u # h
      <4>1. q <= kk.top
        BY <1>1, <2>11, <2>12, <3>3 DEF Goes, Sound, Covered
      <4> QED  BY <2>9, <3>1, <4>1
    <3> QED  BY <3>2, <3>3
  <2>16. Sound(d)
    BY <2>9, <2>13, <2>14, <2>15 DEF Sound
  <2>17. \A u \in Task : d.order[u] \in 1 .. MaxPriority + 1
    BY <1>1, <2>4, <2>5, <2>9 DEF KernelOk
  <2>18. h \in kk.live /\ d.prio = [kk.prio EXCEPT ![h] = p]
    BY <1>3, <2>1, <2>5, <2>9
  <2>19. Eases(kk, d)
    BY <1>2, <2>9, <2>11, <2>16, <2>17, <2>18, RankEases
  <2> QED  BY <1>3, <1>4, <1>7, <2>9, <2>19
<1> QED  BY <1>6, <1>7

\* The loop of prvUnlockQueue: the function that counts its turns exists.
Turns1(f, e, m) == f = [i \in 0 .. m |-> IF i = 0 THEN k ELSE Unblock(f[i - 1], e)]

\* There are as many turns as one likes.
LEMMA TurnsExist ==
    ASSUME NEW e, NEW n \in Nat
    PROVE  \E f : Turns1(f, e, n)
<1> DEFINE Missing == {m \in 1 .. n : ~\E f : Turns1(f, e, m)}
<1>1. \E f : Turns1(f, e, 0)
  <2>1. Turns1([i \in 0 .. 0 |-> k], e, 0)
    BY DEF Turns1
  <2> QED  BY <2>1
<1>2. ASSUME NEW m \in Nat, NEW f, Turns1(f, e, m)
      PROVE  \E g : Turns1(g, e, m + 1)
  <2> DEFINE g == [i \in 0 .. m + 1 |-> IF i <= m THEN f[i] ELSE Unblock(f[m], e)]
  <2>1. \A i \in 0 .. m : f[i] = IF i = 0 THEN k ELSE Unblock(f[i - 1], e)
    BY <1>2 DEF Turns1
  <2>2. \A i \in 0 .. m + 1 : g[i] = IF i = 0 THEN k ELSE Unblock(g[i - 1], e)
    <3> TAKE i \in 0 .. m + 1
    <3>1. CASE i = 0
      <4>1. g[0] = f[0] /\ f[0] = k
        BY <2>1
      <4> QED  BY <3>1, <4>1
    <3>2. CASE i \in 1 .. m
      <4>1. g[i] = f[i] /\ g[i - 1] = f[i - 1]
        BY <3>2
      <4>2. f[i] = Unblock(f[i - 1], e)
        BY <2>1, <3>2
      <4> QED  BY <3>2, <4>1, <4>2
    <3>3. CASE i = m + 1
      <4>1. g[i] = Unblock(f[m], e) /\ g[i - 1] = f[m]
        BY <3>3
      <4> QED  BY <3>3, <4>1
    <3> QED  BY <3>1, <3>2, <3>3
  <2>3. g = [i \in 0 .. m + 1 |-> g[i]]
    OBVIOUS
  <2> HIDE DEF g
  <2>4. g = [i \in 0 .. m + 1 |-> IF i = 0 THEN k ELSE Unblock(g[i - 1], e)]
    BY <2>2, <2>3
  <2> QED  BY <2>4 DEF Turns1
<1>3. ASSUME Missing # {} PROVE FALSE
  <2>1. Missing \in SUBSET (1 .. n)
    OBVIOUS
  <2>2. PICK m \in Missing : \A j \in Missing : m <= j
    BY <1>3, <2>1, FirstPosition
  <2>3. m \in 1 .. n /\ m - 1 \in Nat /\ (m - 1) + 1 = m /\ m - 1 \notin Missing
    BY <2>2
  <2>4. \E f : Turns1(f, e, m - 1)
    BY <1>1, <2>3
  <2>5. \E f : Turns1(f, e, (m - 1) + 1)
    BY <1>2, <2>3, <2>4
  <2> QED  BY <2>2, <2>3, <2>5
<1>4. n = 0 \/ n \in 1 .. n
  OBVIOUS
<1> QED  BY <1>1, <1>3, <1>4

\* Those of event list e that a step frees: all, or at least n.
Frees(kk, r, e, W) == \A t \in W : Occurs(kk.event[e], t) /\ Freed(r, t)

\* n turns of the loop free n tasks, or all that wait.
LEMMA UnblockUpToEases ==
    ASSUME KernelOk(k), NEW e \in WaitLists, NEW n \in Nat
    PROVE  LET r == UnblockUpTo(e, n)
           IN  /\ Eases(k, r) /\ SameModes(k, r) /\ r.current = k.current
               /\ \/ r.event[e] = <<>>
                  \/ \E W \in SUBSET Task :
                         IsFiniteSet(W) /\ Cardinality(W) = n /\ Frees(k, r, e, W)
<1> DEFINE Fine(r, m) ==
               /\ Eases(k, r) /\ SameModes(k, r) /\ r.current = k.current
               /\ \/ r.event[e] = <<>>
                  \/ \E W \in SUBSET Task :
                         IsFiniteSet(W) /\ Cardinality(W) = m /\ Frees(k, r, e, W)
           g == CHOOSE f : Turns1(f, e, n)
           Wrong == {m \in 1 .. n : ~Fine(g[m], m)}
<1>1. Turns1(g, e, n)
  BY TurnsExist
<1>2. UnblockUpTo(e, n) = g[n]
  BY DEF UnblockUpTo, Turns1
<1> HIDE DEF g
<1>3. \A i \in 0 .. n : g[i] = IF i = 0 THEN k ELSE Unblock(g[i - 1], e)
  BY <1>1 DEF Turns1
<1>4. Fine(g[0], 0)
  <2>1. g[0] = k
    BY <1>3
  <2>2. Eases(k, k) /\ SameModes(k, k)
    BY DEF Eases, SameModes
  <2>3. IsFiniteSet({}) /\ Cardinality({}) = 0 /\ Frees(k, k, e, {})
    BY FS_EmptySet DEF Frees
  <2> QED  BY <2>1, <2>2, <2>3
<1>5. ASSUME NEW r, NEW m \in Nat, Fine(r, m)
      PROVE  Fine(Unblock(r, e), m + 1)
  <2> DEFINE s == Unblock(r, e)
  <2>1. KernelOk(r) /\ Eases(k, r) /\ SameModes(k, r) /\ r.current = k.current
    BY <1>5 DEF Eases
  <2>2. Eases(r, s) /\ SameModes(r, s) /\ s.current = r.current /\ WakesFirst(r, s, e)
    BY <2>1, UnblockEases
  <2>3. Eases(k, s) /\ SameModes(k, s) /\ s.current = k.current
    BY <2>1, <2>2, EasesTwice DEF SameModes
  <2>4. CASE r.event[e] = <<>>
    <3>1. s = r
      BY <2>4 DEF Unblock
    <3> QED  BY <2>3, <2>4, <3>1
  <2>5. CASE r.event[e] # <<>>
    <3>1. PICK W \in SUBSET Task : IsFiniteSet(W) /\ Cardinality(W) = m /\ Frees(k, r, e, W)
      BY <1>5, <2>5
    <3>2. PICK t \in Task : Occurs(r.event[e], t) /\ Freed(s, t)
      BY <2>2, <2>5 DEF WakesFirst
    <3> HIDE DEF s
    <3>3. t \notin W /\ Occurs(k.event[e], t)
      BY <2>1, <3>1, <3>2 DEF Frees, Freed, Eases
    <3>4. IsFiniteSet(W \cup {t}) /\ Cardinality(W \cup {t}) = m + 1
      BY <3>1, <3>3, FS_AddElement
    <3>5. \A u \in W : Freed(s, u)
      BY <2>2, <3>1 DEF Frees, Freed, Eases
    <3>6. Frees(k, s, e, W \cup {t})
      BY <3>1, <3>2, <3>3, <3>5 DEF Frees
    <3>7. W \cup {t} \in SUBSET Task
      OBVIOUS
    <3> QED  BY <2>3, <3>4, <3>6, <3>7 DEF s
  <2> QED  BY <2>4, <2>5
<1> HIDE DEF Fine
<1>6. ASSUME Wrong # {} PROVE FALSE
  <2>1. Wrong \in SUBSET (1 .. n)
    OBVIOUS
  <2>2. PICK m \in Wrong : \A j \in Wrong : m <= j
    BY <1>6, <2>1, FirstPosition
  <2>3. m \in 1 .. n /\ m - 1 \in Nat /\ (m - 1) + 1 = m /\ m - 1 \notin Wrong
    BY <2>2
  <2>4. Fine(g[m - 1], m - 1)
    BY <1>4, <2>3
  <2>5. g[m] = Unblock(g[m - 1], e)
    BY <1>3, <2>3
  <2>6. Fine(Unblock(g[m - 1], e), (m - 1) + 1)
    BY <1>5, <2>3, <2>4
  <2> QED  BY <2>2, <2>3, <2>5, <2>6
<1>7. Fine(g[n], n)
  <2>1. n = 0 \/ n \in 1 .. n
    OBVIOUS
  <2> QED  BY <1>4, <1>6, <2>1
<1> QED  BY <1>2, <1>7 DEF Fine

-----------------------------------------------------------------------------
(* Names, work items and numbers. *)

\* The event lists of the queues, each with its queue and side.
LEMMA WaitListNames ==
    /\ \A q \in Queue, s \in Side : WaitList(q, s) \in QueueLists
    /\ \A q, p \in Queue, s, u \in Side : WaitList(q, s) = WaitList(p, u) => q = p /\ s = u
    /\ \A e \in QueueLists : \E q \in Queue, s \in Side : e = WaitList(q, s)
    /\ \A q \in Queue : WaitList(q, "send") = xTasksWaitingToSend(q)
                        /\ WaitList(q, "receive") = xTasksWaitingToReceive(q)
BY DEF WaitList, Side, QueueLists, xTasksWaitingToSend, xTasksWaitingToReceive

\* The wait lists of the queues are event lists a task may wait in.
LEMMA WaitListsAreLists ==
    ASSUME OnlyQueues
    PROVE  /\ QueueLists \subseteq WaitLists /\ WaitLists \subseteq EventLists
           /\ \A q \in Queue, s \in Side : WaitList(q, s) \in WaitLists
           /\ \A q \in Queue : /\ xTasksWaitingToSend(q) \in WaitLists
                               /\ xTasksWaitingToReceive(q) \in WaitLists
BY WaitListNames, ListNames DEF OnlyQueues, Side

\* The operations of the calls are operations of Tasks.tla.
LEMMA CallOpsAreOps ==
    ASSUME OnlyQueues
    PROVE  CallOps \subseteq Ops
BY DEF OnlyQueues, CallOps, LoopOps, QueueOps, Ops

\* What is left of a call after its first item.
LEMMA OrderlyRest ==
    ASSUME NEW s \in Seq(Work), s # <<>>, InSequence(s)
    PROVE  /\ Tail(s) \in Seq(Work) /\ InSequence(Tail(s)) /\ OpOf(s) \in CallOps
           /\ Head(s) = s[1] /\ OpOf(s) = s[1].op
           /\ OpOf(Tail(s)) \in NextOps(OpOf(s))
           /\ \A op : Has(s, op) <=> OpOf(s) = op \/ Has(Tail(s), op)
<1> DEFINE r == Tail(s)
<1>1. /\ r \in Seq(Work) /\ Len(r) = Len(s) - 1 /\ \A j \in 1 .. Len(s) - 1 : r[j] = s[j + 1]
      /\ Head(s) = s[1] /\ Len(s) \in Nat /\ Len(s) >= 1 /\ (r = <<>> <=> Len(s) = 1)
  BY RestOf
<1> HIDE DEF r
<1>2. OpOf(s) = s[1].op /\ OpOf(s) \in CallOps /\ OpAt(s, 1 + 1) \in NextOps(s[1].op)
  BY <1>1 DEF OpOf, InSequence
<1>3. OpOf(r) = OpAt(s, 1 + 1)
  BY <1>1 DEF OpOf, OpAt
<1>4. ASSUME NEW i \in 1 .. Len(r)
      PROVE  r[i].op \in CallOps /\ OpAt(r, i + 1) \in NextOps(r[i].op)
  <2>1. i \in 1 .. Len(s) - 1 /\ i + 1 \in 1 .. Len(s) /\ r[i] = s[i + 1]
    BY <1>1
  <2>2. OpAt(r, i + 1) = OpAt(s, (i + 1) + 1)
    BY <1>1, <2>1 DEF OpAt
  <2> QED  BY <2>1, <2>2 DEF InSequence
<1>5. InSequence(r)
  BY <1>4 DEF InSequence
<1>6. ASSUME NEW op
      PROVE  Has(s, op) <=> OpOf(s) = op \/ Has(r, op)
  <2>1. ASSUME NEW i \in 1 .. Len(s), s[i].op = op PROVE OpOf(s) = op \/ Has(r, op)
    <3>1. CASE i = 1
      BY <1>2, <2>1, <3>1
    <3>2. CASE i # 1
      <4>1. i - 1 \in 1 .. Len(r) /\ r[i - 1] = s[i]
        BY <1>1, <2>1, <3>2
      <4> QED  BY <2>1, <4>1 DEF Has
    <3> QED  BY <3>1, <3>2
  <2>2. ASSUME NEW i \in 1 .. Len(r), r[i].op = op PROVE Has(s, op)
    <3>1. i + 1 \in 1 .. Len(s) /\ r[i] = s[i + 1]
      BY <1>1, <2>2
    <3> QED  BY <2>2, <3>1 DEF Has
  <2>3. OpOf(s) = op => Has(s, op)
    <3>1. 1 \in 1 .. Len(s)
      BY <1>1
    <3> QED  BY <1>2, <3>1 DEF Has
  <2> QED  BY <2>1, <2>2, <2>3 DEF Has
<1> QED  BY <1>1, <1>2, <1>3, <1>5, <1>6 DEF r

\* An item put before a call.
LEMMA OrderlyCons ==
    ASSUME NEW x \in Work, NEW r \in Seq(Work), InSequence(r), x.op \in CallOps,
           OpOf(r) \in NextOps(x.op)
    PROVE  LET s == <<x>> \o r
           IN  /\ s \in Seq(Work) /\ s # <<>> /\ InSequence(s) /\ OpOf(s) = x.op /\ s[1] = x
               /\ \A op : Has(s, op) <=> x.op = op \/ Has(r, op)
<1> DEFINE s == <<x>> \o r
<1>1. /\ s \in Seq(Work) /\ Len(s) = Len(r) + 1 /\ Len(r) \in Nat /\ s[1] = x
      /\ \A i \in 1 .. Len(r) : s[i + 1] = r[i]
  OBVIOUS
<1>2. r = <<>> <=> Len(r) = 0
  BY EmptySeq
<1> HIDE DEF s
<1>3. s # <<>> /\ OpOf(s) = x.op
  BY <1>1 DEF OpOf
<1>4. OpAt(s, 2) = OpOf(r)
  BY <1>1, <1>2 DEF OpAt, OpOf
<1>5. ASSUME NEW i \in 1 .. Len(s)
      PROVE  s[i].op \in CallOps /\ OpAt(s, i + 1) \in NextOps(s[i].op)
  <2>1. CASE i = 1
    BY <1>1, <1>4, <2>1
  <2>2. CASE i # 1
    <3>1. i - 1 \in 1 .. Len(r) /\ s[i] = r[i - 1] /\ (i - 1) + 1 = i
      BY <1>1, <2>2
    <3>2. OpAt(s, i + 1) = OpAt(r, (i - 1) + 1)
      BY <1>1, <3>1 DEF OpAt
    <3> QED  BY <3>1, <3>2 DEF InSequence
  <2> QED  BY <2>1, <2>2
<1>6. InSequence(s)
  BY <1>5 DEF InSequence
<1>7. ASSUME NEW op
      PROVE  Has(s, op) <=> x.op = op \/ Has(r, op)
  <2>1. ASSUME NEW i \in 1 .. Len(s), s[i].op = op PROVE x.op = op \/ Has(r, op)
    <3>1. CASE i = 1
      BY <1>1, <2>1, <3>1
    <3>2. CASE i # 1
      <4>1. i - 1 \in 1 .. Len(r) /\ s[(i - 1) + 1] = r[i - 1] /\ (i - 1) + 1 = i
        BY <1>1, <3>2
      <4> QED  BY <2>1, <4>1 DEF Has
    <3> QED  BY <3>1, <3>2
  <2>2. ASSUME NEW i \in 1 .. Len(r), r[i].op = op PROVE Has(s, op)
    <3>1. i + 1 \in 1 .. Len(s) /\ r[i] = s[i + 1]
      BY <1>1
    <3> QED  BY <2>2, <3>1 DEF Has
  <2>3. x.op = op => Has(s, op)
    BY <1>1 DEF Has
  <2> QED  BY <2>1, <2>2, <2>3 DEF Has
<1> QED  BY <1>1, <1>3, <1>6, <1>7 DEF s

\* The items a call puts before the rest of it, at once and one by one.
AtOnce(a1, a2, a3, x, r) == <<a1, a2, a3>> \o x \o r
InTurn(a1, a2, a3, x, r) == <<a1>> \o (<<a2>> \o (<<a3>> \o (x \o r)))

\* Items put before a call together, or one by one, give the same call.
LEMMA OneByOne ==
    ASSUME NEW a1 \in Work, NEW a2 \in Work, NEW a3 \in Work, NEW x \in Seq(Work),
           NEW r \in Seq(Work)
    PROVE  AtOnce(a1, a2, a3, x, r) = InTurn(a1, a2, a3, x, r)
<1> DEFINE p == <<a1, a2, a3>>
<1>1. p \in Seq(Work) /\ Len(p) = 3 /\ p[1] = a1 /\ p[2] = a2 /\ p[3] = a3
  OBVIOUS
<1> DEFINE b3 == <<a3>> \o (x \o r)
           b2 == <<a2>> \o b3
           b1 == <<a1>> \o b2
<1>2. /\ x \o r \in Seq(Work) /\ Len(x \o r) = Len(x) + Len(r)
      /\ Len(x) \in Nat /\ Len(r) \in Nat
  OBVIOUS
<1> DEFINE y == x \o r
<1>3. p \o x \o r = p \o y
  BY <1>1, ConcatAssociative
<1>4. y \in Seq(Work) /\ Len(y) \in Nat
  BY <1>2
<1> HIDE DEF y, p
<1>5. b3 \in Seq(Work) /\ Len(b3) = Len(y) + 1 /\ b3[1] = a3 /\ \A i \in 1 .. Len(y) : b3[i + 1] = y[i]
  BY <1>4 DEF y
<1> HIDE DEF b3
<1>6. b2 \in Seq(Work) /\ Len(b2) = Len(y) + 2 /\ b2[1] = a2 /\ b2[2] = a3
      /\ \A i \in 1 .. Len(y) : b2[i + 2] = y[i]
  <2>1. Len(b2) = Len(b3) + 1 /\ b2[1] = a2 /\ \A i \in 1 .. Len(b3) : b2[i + 1] = b3[i]
    BY <1>5
  <2>2. 1 \in 1 .. Len(b3) /\ \A i \in 1 .. Len(y) : i + 1 \in 1 .. Len(b3) /\ (i + 1) + 1 = i + 2
    BY <1>4, <1>5
  <2>3. b2[1 + 1] = b3[1] /\ \A i \in 1 .. Len(y) : b2[(i + 1) + 1] = b3[i + 1]
    BY <2>1, <2>2
  <2> QED  BY <1>4, <1>5, <2>1, <2>2, <2>3
<1> HIDE DEF b2
<1>7. b1 \in Seq(Work) /\ Len(b1) = Len(y) + 3 /\ b1[1] = a1 /\ b1[2] = a2 /\ b1[3] = a3
      /\ \A i \in 1 .. Len(y) : b1[i + 3] = y[i]
  <2>1. Len(b1) = Len(b2) + 1 /\ b1[1] = a1 /\ \A i \in 1 .. Len(b2) : b1[i + 1] = b2[i]
    BY <1>6
  <2>2. /\ 1 \in 1 .. Len(b2) /\ 2 \in 1 .. Len(b2)
        /\ \A i \in 1 .. Len(y) : i + 2 \in 1 .. Len(b2) /\ (i + 2) + 1 = i + 3
    BY <1>4, <1>6
  <2>3. b1[1 + 1] = b2[1] /\ b1[2 + 1] = b2[2] /\ \A i \in 1 .. Len(y) : b1[(i + 2) + 1] = b2[i + 2]
    BY <2>1, <2>2
  <2> QED  BY <1>4, <1>6, <2>1, <2>2, <2>3
<1>8. p \o y \in Seq(Work) /\ Len(p \o y) = Len(y) + 3
      /\ \A i \in 1 .. Len(y) + 3 : (p \o y)[i] = IF i <= 3 THEN p[i] ELSE y[i - 3]
  <2>1. /\ p \o y \in Seq(Work) /\ Len(p \o y) = Len(p) + Len(y)
        /\ \A i \in 1 .. Len(p) + Len(y) :
               (p \o y)[i] = IF i <= Len(p) THEN p[i] ELSE y[i - Len(p)]
    BY <1>1, <1>4, ConcatProperties
  <2>2. Len(p) = 3 /\ Len(p) + Len(y) = Len(y) + 3
    BY <1>1, <1>4
  <2> QED  BY <2>1, <2>2
<1> HIDE DEF b1
<1>9. \A i \in 1 .. Len(y) + 3 : b1[i] = (p \o y)[i]
  <2> TAKE i \in 1 .. Len(y) + 3
  <2>1. CASE i \in {1, 2, 3}
    BY <1>1, <1>7, <1>8, <2>1
  <2>2. CASE i \notin {1, 2, 3}
    <3>1. i - 3 \in 1 .. Len(y) /\ (i - 3) + 3 = i /\ ~(i <= 3)
      BY <1>4, <2>2
    <3>2. b1[(i - 3) + 3] = y[i - 3]
      BY <1>7, <3>1
    <3> QED  BY <1>8, <3>1, <3>2
  <2> QED  BY <2>1, <2>2
<1> DEFINE z == p \o y
<1>10. z \in Seq(Work) /\ Len(z) = Len(b1) /\ \A i \in 1 .. Len(b1) : b1[i] = z[i]
  BY <1>7, <1>8, <1>9
<1> HIDE DEF z
<1>11. b1 = z
  BY <1>7, <1>10, SeqEqual
<1>12. p \o x \o r = b1
  BY <1>3, <1>11 DEF z, y
<1>13. AtOnce(a1, a2, a3, x, r) = p \o x \o r
  BY Zenon DEF AtOnce, p
<1>14. InTurn(a1, a2, a3, x, r) = b1
  BY Zenon DEF InTurn, b1, b2, b3, y
<1> QED  BY <1>12, <1>13, <1>14

\* Nothing but "count" comes after the loop of a blocking call.
LEMMA CallEnds ==
    ASSUME NEW r \in Seq(Work), InSequence(r), OpOf(r) \in {"none", "count"}
    PROVE  (\A op : Has(r, op) => op = "count") /\ (Has(r, "count") <=> OpOf(r) = "count")
<1>1. CASE r = <<>>
  <2>1. Len(r) = 0 /\ OpOf(r) = "none"
    BY <1>1, EmptySeq DEF OpOf
  <2>2. \A op : ~Has(r, op)
    BY <2>1 DEF Has
  <2> QED  BY <2>1, <2>2
<1>2. CASE r # <<>>
  <2>1. /\ Tail(r) \in Seq(Work) /\ InSequence(Tail(r)) /\ OpOf(r) \in CallOps
        /\ OpOf(Tail(r)) \in NextOps(OpOf(r))
        /\ \A op : Has(r, op) <=> OpOf(r) = op \/ Has(Tail(r), op)
    BY <1>2, OrderlyRest
  <2>2. OpOf(r) = "count"
    BY <2>1 DEF CallOps, LoopOps
  <2>3. OpOf(Tail(r)) = "none"
    BY <2>1, <2>2 DEF NextOps
  <2>4. Tail(r) = <<>>
    <3> SUFFICES ASSUME Tail(r) # <<>> PROVE FALSE
      OBVIOUS
    <3>1. OpOf(Tail(r)) \in CallOps
      BY <2>1, OrderlyRest
    <3> QED  BY <2>3, <3>1 DEF CallOps, LoopOps
  <2>5. Len(Tail(r)) = 0
    BY <2>4, EmptySeq
  <2>6. \A op : ~Has(Tail(r), op)
    BY <2>5 DEF Has
  <2> QED  BY <2>1, <2>2, <2>6
<1> QED  BY <1>1, <1>2

\* After an item of the blocking loop, at most the count of a recursive mutex is left.
LEMMA LoopEnds ==
    ASSUME NEW s \in Seq(Work), s # <<>>, InSequence(s), OpOf(s) \in LoopOps
    PROVE  /\ Tail(s) \in Seq(Work) /\ InSequence(Tail(s)) /\ OpOf(Tail(s)) \in {"none", "count"}
           /\ \A op : Has(Tail(s), op) => op = "count"
           /\ \A op : Has(s, op) <=> op = OpOf(s) \/ Has(Tail(s), op)
           /\ Has(Tail(s), "count") <=> OpOf(Tail(s)) = "count"
<1>1. /\ Tail(s) \in Seq(Work) /\ InSequence(Tail(s)) /\ OpOf(Tail(s)) \in NextOps(OpOf(s))
      /\ \A op : Has(s, op) <=> op = OpOf(s) \/ Has(Tail(s), op)
  BY OrderlyRest
<1>2. OpOf(Tail(s)) \in {"none", "count"}
  BY <1>1 DEF NextOps, LoopOps
<1>3. /\ \A op : Has(Tail(s), op) => op = "count"
      /\ Has(Tail(s), "count") <=> OpOf(Tail(s)) = "count"
  BY <1>1, <1>2, CallEnds
<1> QED  BY <1>1, <1>2, <1>3

\* An item of the loop before the end of the call.
LEMMA LoopGoesOn ==
    ASSUME OnlyQueues, NEW r \in Seq(Work), InSequence(r), OpOf(r) \in {"none", "count"},
           NEW op \in LoopOps
    PROVE  LET s == <<Do(op)>> \o r
           IN  /\ s \in Seq(Work) /\ s # <<>> /\ InSequence(s) /\ OpOf(s) = op
               /\ \A o : Has(s, o) <=> op = o \/ Has(r, o)
<1>1. op \in CallOps /\ op \in Ops
  BY CallOpsAreOps DEF CallOps
<1>2. Do(op) \in Work /\ Do(op).op = op
  BY <1>1, ItemFacts
<1>3. OpOf(r) \in NextOps(op)
  BY DEF NextOps, LoopOps
<1> QED  BY <1>1, <1>2, <1>3, OrderlyCons

\* UnlockAnd: the queue is unlocked, the scheduler resumed, and x follows.
LEMMA UnlocksAndGoesOn ==
    ASSUME OnlyQueues, NEW r \in Seq(Work), InSequence(r), OpOf(r) \in {"none", "count"},
           NEW x, x \in {<<Do("timedOut")>>, <<Do("try")>>, <<Do("yield"), Do("try")>>}
    PROVE  LET s == <<Do("unlockTx"), Do("unlockRx"), Do("resumeAll")>> \o x \o r
           IN  /\ s \in Seq(Work) /\ s # <<>> /\ InSequence(s) /\ OpOf(s) = "unlockTx"
               /\ \A o : Has(s, o) <=> \/ o \in {"unlockTx", "unlockRx", "resumeAll"}
                                       \/ Has(x \o r, o)
               /\ x = <<Do("timedOut")>> => \A o : Has(x \o r, o) <=> o = "timedOut" \/ Has(r, o)
               /\ x = <<Do("try")>> => \A o : Has(x \o r, o) <=> o = "try" \/ Has(r, o)
               /\ x = <<Do("yield"), Do("try")>> =>
                      \A o : Has(x \o r, o) <=> o \in {"yield", "try"} \/ Has(r, o)
<1>1. {"unlockTx", "unlockRx", "resumeAll", "yield", "try", "timedOut"} \subseteq CallOps \cap Ops
  BY CallOpsAreOps DEF CallOps, LoopOps
<1>2. \A op \in {"unlockTx", "unlockRx", "resumeAll", "yield", "try", "timedOut"} :
          Do(op) \in Work /\ Do(op).op = op /\ op \in CallOps
  BY <1>1, ItemFacts
<1>3. "try" \in LoopOps /\ "timedOut" \in LoopOps
  BY DEF LoopOps
<1> DEFINE y == x \o r
<1>4. /\ x \in Seq(Work)
      /\ y \in Seq(Work) /\ InSequence(y) /\ OpOf(y) \in {"yield", "try", "timedOut"}
      /\ x = <<Do("timedOut")>> => \A o : Has(y, o) <=> o = "timedOut" \/ Has(r, o)
      /\ x = <<Do("try")>> => \A o : Has(y, o) <=> o = "try" \/ Has(r, o)
      /\ x = <<Do("yield"), Do("try")>> => \A o : Has(y, o) <=> o \in {"yield", "try"} \/ Has(r, o)
  <2>1. ASSUME NEW op \in {"try", "timedOut"}, x = <<Do(op)>>
        PROVE  /\ x \in Seq(Work) /\ y \in Seq(Work) /\ InSequence(y) /\ OpOf(y) = op
               /\ \A o : Has(y, o) <=> o = op \/ Has(r, o)
    BY <1>2, <1>3, <2>1, LoopGoesOn
  <2>2. ASSUME x = <<Do("yield"), Do("try")>>
        PROVE  /\ x \in Seq(Work) /\ y \in Seq(Work) /\ InSequence(y) /\ OpOf(y) = "yield"
               /\ \A o : Has(y, o) <=> o \in {"yield", "try"} \/ Has(r, o)
    <3> DEFINE z == <<Do("try")>> \o r
    <3>1. /\ z \in Seq(Work) /\ InSequence(z) /\ OpOf(z) = "try"
          /\ \A o : Has(z, o) <=> o = "try" \/ Has(r, o)
      BY <1>3, LoopGoesOn
    <3>2. x = <<Do("yield")>> \o <<Do("try")>> /\ x \in Seq(Work)
      BY <1>2, <2>2
    <3>3. <<Do("yield")>> \in Seq(Work) /\ <<Do("try")>> \in Seq(Work)
      BY <1>2
    <3>4. y = <<Do("yield")>> \o z
      BY <3>2, <3>3, ConcatAssociative
    <3> HIDE DEF z, y
    <3>5. OpOf(z) \in NextOps("yield")
      BY <3>1 DEF NextOps
    <3>6. /\ y \in Seq(Work) /\ InSequence(y) /\ OpOf(y) = "yield"
          /\ \A o : Has(y, o) <=> "yield" = o \/ Has(z, o)
      BY <1>2, <3>1, <3>4, <3>5, OrderlyCons
    <3> QED  BY <3>1, <3>2, <3>6
  <2>3. "timedOut" # "try" /\ Do("timedOut") # Do("try")
    BY <1>2
  <2>4. <<Do("timedOut")>> # <<Do("try")>> /\ <<Do("timedOut")>> # <<Do("yield"), Do("try")>>
        /\ <<Do("try")>> # <<Do("yield"), Do("try")>>
    BY <2>3
  <2> QED  BY <2>1, <2>2, <2>4
<1> DEFINE s3 == <<Do("resumeAll")>> \o y
           s2 == <<Do("unlockRx")>> \o s3
           s1 == <<Do("unlockTx")>> \o s2
<1>5. <<Do("unlockTx"), Do("unlockRx"), Do("resumeAll")>> \o x \o r = s1
  <2>1. Do("unlockTx") \in Work /\ Do("unlockRx") \in Work /\ Do("resumeAll") \in Work
    BY <1>2
  <2>2. x \in Seq(Work)
    BY <1>4
  <2>3. AtOnce(Do("unlockTx"), Do("unlockRx"), Do("resumeAll"), x, r)
            = InTurn(Do("unlockTx"), Do("unlockRx"), Do("resumeAll"), x, r)
    BY <2>1, <2>2, OneByOne
  <2>4. AtOnce(Do("unlockTx"), Do("unlockRx"), Do("resumeAll"), x, r)
            = <<Do("unlockTx"), Do("unlockRx"), Do("resumeAll")>> \o x \o r
    BY Zenon DEF AtOnce
  <2>5. InTurn(Do("unlockTx"), Do("unlockRx"), Do("resumeAll"), x, r) = s1
    BY Zenon DEF InTurn
  <2> QED  BY <2>3, <2>4, <2>5, Zenon
<1> HIDE DEF y
<1>6. /\ s3 \in Seq(Work) /\ InSequence(s3) /\ OpOf(s3) = "resumeAll"
      /\ \A o : Has(s3, o) <=> "resumeAll" = o \/ Has(y, o)
  <2>1. OpOf(y) \in NextOps("resumeAll")
    BY <1>4 DEF NextOps
  <2> QED  BY <1>2, <1>4, <2>1, OrderlyCons
<1> HIDE DEF s3
<1>7. /\ s2 \in Seq(Work) /\ InSequence(s2) /\ OpOf(s2) = "unlockRx"
      /\ \A o : Has(s2, o) <=> "unlockRx" = o \/ Has(s3, o)
  <2>1. OpOf(s3) \in NextOps("unlockRx")
    BY <1>6 DEF NextOps
  <2> QED  BY <1>2, <1>6, <2>1, OrderlyCons
<1> HIDE DEF s2
<1>8. /\ s1 \in Seq(Work) /\ s1 # <<>> /\ InSequence(s1) /\ OpOf(s1) = "unlockTx"
      /\ \A o : Has(s1, o) <=> "unlockTx" = o \/ Has(s2, o)
  <2>1. OpOf(s2) \in NextOps("unlockTx")
    BY <1>7 DEF NextOps
  <2> QED  BY <1>2, <1>7, <2>1, OrderlyCons
<1> HIDE DEF s1
<1> QED  BY <1>4, <1>5, <1>6, <1>7, <1>8 DEF y

-----------------------------------------------------------------------------
(* Numbers: those who will try, against what there is to wait for. *)

QueueRecord == [count: Nat, rx: -1 .. queueINT8_MAX, tx: -1 .. queueINT8_MAX,
                holder: Task \cup {NULL}, calls: Nat]
QueueStates == [Queue -> QueueRecord]
CallRecord == [kind: CallKinds, queue: Queue, ticks: Tick, entrySet: BOOLEAN, entered: Tick,
               overflow: 0 .. OverflowCount - 1, inherited: BOOLEAN]
CallStates == [Task -> CallRecord]

\* A set that loses L and gains G.
LEMMA Trade ==
    ASSUME NEW C, NEW D, NEW L, NEW G, IsFiniteSet(C), IsFiniteSet(D), IsFiniteSet(L),
           IsFiniteSet(G), (C \ L) \cup G \subseteq D, C \cap G = {}
    PROVE  /\ Cardinality(C) \in Nat /\ Cardinality(D) \in Nat
           /\ Cardinality(L) \in Nat /\ Cardinality(G) \in Nat
           /\ Cardinality(C) + Cardinality(G) <= Cardinality(D) + Cardinality(L)
<1>1. /\ Cardinality(C) \in Nat /\ Cardinality(D) \in Nat
      /\ Cardinality(L) \in Nat /\ Cardinality(G) \in Nat
  BY FS_CardinalityType
<1> DEFINE K == C \ L
<1>2. /\ IsFiniteSet(K) /\ Cardinality(K) \in Nat
      /\ Cardinality(K) = Cardinality(C) - Cardinality(C \cap L)
  BY FS_Difference, FS_CardinalityType
<1>3. Cardinality(C \cap L) \in Nat /\ Cardinality(C \cap L) <= Cardinality(L)
  BY FS_Intersection, FS_CardinalityType
<1>4. K \cap G = {}
  OBVIOUS
<1>5. K \cup G \in SUBSET D
  OBVIOUS
<1> HIDE DEF K
<1>6. Cardinality(K \cup G) = Cardinality(K) + Cardinality(G) - Cardinality(K \cap G)
  BY <1>2, FS_Union
<1>7. Cardinality(K \cap G) = 0
  BY <1>4, FS_EmptySet
<1>8. Cardinality(K \cup G) <= Cardinality(D)
  BY <1>5, FS_Subset
<1> QED  BY <1>1, <1>2, <1>3, <1>6, <1>7, <1>8

\* The fields of a queue as the sides see them.
LEMMA SideNumbers ==
    ASSUME NEW qu \in QueueStates, NEW q \in Queue, NEW s \in Side
    PROVE  /\ Stock(qu, q, s) \in Int
           /\ LockOf(qu, q, s) \in -1 .. queueINT8_MAX /\ LockOf(qu, q, s) \in Int
           /\ Owed(LockOf(qu, q, s)) \in Nat
           /\ qu[q].count \in Nat /\ Length[q] \in Nat \ {0}
<1>1. qu[q].count \in Nat /\ Length[q] \in Nat \ {0}
  BY QueuesAssumption DEF QueueStates, QueueRecord
<1>2. qu[q].rx \in -1 .. queueINT8_MAX /\ qu[q].tx \in -1 .. queueINT8_MAX
  BY DEF QueueStates, QueueRecord
<1>3. LockOf(qu, q, s) \in -1 .. queueINT8_MAX
  BY <1>2 DEF LockOf
<1>4. LockOf(qu, q, s) \in Int /\ Owed(LockOf(qu, q, s)) \in Nat
  BY <1>3 DEF Owed, queueUNLOCKED, queueINT8_MAX
<1> QED  BY <1>1, <1>3, <1>4 DEF Stock

\* There are finitely many tasks, and the idle task is live.
LEMMA LiveNumbers ==
    ASSUME OnlyQueues, NEW live, live \subseteq Task, Idle \in live
    PROVE  /\ IsFiniteSet(live) /\ Cardinality(live) \in Nat
           /\ Cardinality(live) > 0 /\ Cardinality(live) <= queueINT8_MAX
           /\ \A W \in SUBSET Task : IsFiniteSet(W) /\ Cardinality(W) \in Nat
<1>1. IsFiniteSet(Task) /\ Cardinality(Task) <= queueINT8_MAX /\ Cardinality(Task) \in Nat
  BY FS_CardinalityType DEF OnlyQueues
<1>2. \A W \in SUBSET Task : IsFiniteSet(W) /\ Cardinality(W) \in Nat
                             /\ Cardinality(W) <= Cardinality(Task)
  BY <1>1, FS_Subset, FS_CardinalityType
<1>3. Cardinality(live) # 0
  BY <1>2, FS_EmptySet
<1> QED  BY <1>1, <1>2, <1>3 DEF queueINT8_MAX

\* No wake-up is lost if what there is to wait for grows by no more than those
\* who will try, and those that prvUnlockQueue will wake.
LEMMA WakeTrade ==
    ASSUME OnlyQueues, NEW q \in Queue, NEW s \in Side, NEW kk, NEW td, NEW ca,
           NEW r, NEW te, NEW ce, NEW qu \in QueueStates, NEW qv \in QueueStates,
           kk.live \subseteq Task, Idle \in kk.live, r.live = kk.live,
           WakeOk(kk, td, qu, ca, q, s),
           Expected(r, te, ce, q, s) => Expected(kk, td, ca, q, s),
           NEW L \in SUBSET Task, NEW G \in SUBSET Task,
           (Comers(kk, td, ca, q, s) \ L) \cup G \subseteq Comers(r, te, ce, q, s),
           Comers(kk, td, ca, q, s) \cap G = {},
           LockOf(qu, q, s) >= Cardinality(kk.live) => LockOf(qv, q, s) >= Cardinality(kk.live),
           Stock(qv, q, s) + Cardinality(L) + Owed(LockOf(qu, q, s))
               <= Stock(qu, q, s) + Cardinality(G) + Owed(LockOf(qv, q, s))
    PROVE  WakeOk(r, te, qv, ce, q, s)
<1> DEFINE C == Comers(kk, td, ca, q, s)
           D == Comers(r, te, ce, q, s)
<1>1. C \subseteq Task /\ D \subseteq Task
  BY DEF Comers
<1>2. IsFiniteSet(C) /\ IsFiniteSet(D) /\ IsFiniteSet(L) /\ IsFiniteSet(G)
  BY <1>1, LiveNumbers
<1>3. /\ Stock(qu, q, s) \in Int /\ Stock(qv, q, s) \in Int
      /\ LockOf(qu, q, s) \in Int /\ LockOf(qv, q, s) \in Int
      /\ Owed(LockOf(qu, q, s)) \in Nat /\ Owed(LockOf(qv, q, s)) \in Nat
  BY SideNumbers
<1>4. (C \ L) \cup G \subseteq D /\ C \cap G = {}
  OBVIOUS
<1>5. Expected(kk, td, ca, q, s) =>
          \/ LockOf(qu, q, s) >= Cardinality(kk.live)
          \/ Stock(qu, q, s) <= Cardinality(C) + Owed(LockOf(qu, q, s))
  BY DEF WakeOk
<1> HIDE DEF C, D
<1>6. /\ Cardinality(C) \in Nat /\ Cardinality(D) \in Nat
      /\ Cardinality(L) \in Nat /\ Cardinality(G) \in Nat
      /\ Cardinality(C) + Cardinality(G) <= Cardinality(D) + Cardinality(L)
  BY <1>2, <1>4, Trade
<1>7. Stock(qu, q, s) <= Cardinality(C) + Owed(LockOf(qu, q, s))
          => Stock(qv, q, s) <= Cardinality(D) + Owed(LockOf(qv, q, s))
  BY <1>3, <1>6
<1>8. Expected(r, te, ce, q, s) =>
          \/ LockOf(qv, q, s) >= Cardinality(r.live)
          \/ Stock(qv, q, s) <= Cardinality(D) + Owed(LockOf(qv, q, s))
  BY <1>5, <1>7
<1> QED  BY <1>8 DEF WakeOk, D

\* There is nothing to wait for.
LEMMA NothingToWaitFor ==
    ASSUME OnlyQueues, NEW q \in Queue, NEW s \in Side, NEW r, NEW te, NEW ce,
           NEW qv \in QueueStates, Stock(qv, q, s) <= 0
    PROVE  WakeOk(r, te, qv, ce, q, s)
<1> DEFINE D == Comers(r, te, ce, q, s)
<1>1. D \subseteq Task
  BY DEF Comers
<1>2. Cardinality(D) \in Nat
  BY <1>1, FS_Subset, FS_CardinalityType DEF OnlyQueues
<1>3. Stock(qv, q, s) \in Int /\ Owed(LockOf(qv, q, s)) \in Nat
  BY SideNumbers
<1> HIDE DEF D
<1>4. Stock(qv, q, s) <= Cardinality(D) + Owed(LockOf(qv, q, s))
  BY <1>2, <1>3
<1> QED  BY <1>4 DEF WakeOk, D

-----------------------------------------------------------------------------
(* A step of one task, part by part. *)

\* Nothing changes for a task but t.
OthersSame(f, g, t) == \A u \in Task : u # t => g[u] = f[u]

\* The work s that a task is left with.
WorkFits(t, s) ==
    /\ InSequence(s) /\ (t = Idle => OpOf(s) \in {"none", "idleYield"})
    /\ OpOf(s) = "delay" => s[1].n \in Tick /\ Has(s, "yield")

\* Who changes its own call to one that fits leaves the work of all in order.
LEMMA WorkKept ==
    ASSUME NEW td, NEW te, NEW live, WorkOk(td, live), NEW t \in live, OthersSame(td, te, t),
           WorkFits(t, te[t])
    PROVE  WorkOk(te, live)
<1>1. \A u \in Task : InSequence(te[u])
  BY DEF WorkOk, OthersSame, WorkFits
<1>2. \A u \in Task : u \notin live => te[u] = <<>>
  BY DEF WorkOk, OthersSame
<1>3. OpOf(te[Idle]) \in {"none", "idleYield"}
  <2>1. Idle \in Task
    BY TasksAssumption
  <2> QED  BY <2>1 DEF WorkOk, OthersSame, WorkFits
<1>4. \A u \in Task : OpOf(te[u]) = "delay" => te[u][1].n \in Tick /\ Has(te[u], "yield")
  <2> TAKE u \in Task
  <2>1. CASE u = t
    BY <2>1 DEF WorkFits
  <2>2. CASE u # t
    <3>1. te[u] = td[u]
      BY <2>2 DEF OthersSame
    <3> QED  BY <3>1 DEF WorkOk
  <2> QED  BY <2>1, <2>2
<1> QED  BY <1>1, <1>2, <1>3, <1>4 DEF WorkOk

\* The running task goes on.
LEMMA SuspendsGoesOn ==
    ASSUME NEW kk, NEW td, NEW te, Suspends(kk, td), OthersSame(td, te, kk.current),
           NEW r, r.current = kk.current, r.cpu = "task",
           r.susp = (IF OpOf(te[kk.current]) \in SuspSteps THEN 1 ELSE 0)
    PROVE  Suspends(r, te)
<1>1. \A u \in Task : u # r.current => OpOf(te[u]) \notin SuspSteps
  BY DEF Suspends, OthersSame
<1> QED  BY <1>1 DEF Suspends

\* Another task may run now: the scheduler is not suspended.
LEMMA SuspendsSwitches ==
    ASSUME NEW kk, NEW td, NEW te, Suspends(kk, td), OthersSame(td, te, kk.current),
           OpOf(te[kk.current]) \notin SuspSteps,
           NEW r, r.current \in Task, r.cpu \in {"task", "tick"}, r.susp = 0
    PROVE  Suspends(r, te) /\ \A u \in Task : OpOf(te[u]) \notin SuspSteps
<1>1. \A u \in Task : OpOf(te[u]) \notin SuspSteps
  BY DEF Suspends, OthersSame
<1> QED  BY <1>1 DEF Suspends

\* What the running task does next says which queue is locked, and how.
LEMMA LocksSay ==
    ASSUME NEW kk, NEW td, NEW qu, NEW ca, Suspends(kk, td), LockInv(td, qu, ca),
           kk.current \in Task
    PROVE  \A q \in Queue :
               /\ qu[q].tx # queueUNLOCKED <=> LocksTx(td, ca, kk.current, q)
               /\ qu[q].rx # queueUNLOCKED <=> LocksRx(td, ca, kk.current, q)
<1>1. \A u \in Task : OpOf(td[u]) \in RxSteps => u = kk.current
  BY DEF Suspends, SuspSteps
<1>2. TxSteps \subseteq RxSteps
  BY DEF RxSteps
<1> QED  BY <1>1, <1>2 DEF LockInv, LocksTx, LocksRx

\* The locks are as the invariant has them when those of the running task are:
\* no other task is between locking and unlocking.
LEMMA LocksKept ==
    ASSUME NEW kk, NEW td, NEW te, NEW qv, NEW ce, Suspends(kk, td),
           kk.current \in Task, OthersSame(td, te, kk.current),
           \A q \in Queue : /\ qv[q].tx # queueUNLOCKED <=> LocksTx(te, ce, kk.current, q)
                            /\ qv[q].rx # queueUNLOCKED <=> LocksRx(te, ce, kk.current, q)
    PROVE  LockInv(te, qv, ce)
<1>1. \A u \in Task : OpOf(te[u]) \in RxSteps => u = kk.current
  BY DEF Suspends, SuspSteps, OthersSame
<1>2. TxSteps \subseteq RxSteps
  BY DEF RxSteps
<1>3. \A q \in Queue :
          /\ (\E u \in Task : LocksTx(te, ce, u, q)) <=> LocksTx(te, ce, kk.current, q)
          /\ (\E u \in Task : LocksRx(te, ce, u, q)) <=> LocksRx(te, ce, kk.current, q)
  BY <1>1, <1>2 DEF LocksTx, LocksRx
<1> QED  BY <1>3 DEF LockInv

\* No task waits that did not, and the one that runs still waits for the same.
LEMMA WaitersKept ==
    ASSUME NEW kk, NEW td, NEW te, NEW ca, NEW ce, NEW t \in Task, NEW r,
           WaiterInv(kk, td, ca), OthersSame(td, te, t), OthersSame(ca, ce, t),
           \A q \in Queue, s \in Side, u \in Task : Queued(r, u, q, s) =>
               IF u = t THEN WillTry(te, ce, t, q, s) ELSE Queued(kk, u, q, s)
    PROVE  WaiterInv(r, te, ce)
<1> SUFFICES ASSUME NEW q \in Queue, NEW s \in Side, NEW u \in Task, Queued(r, u, q, s)
             PROVE  WillTry(te, ce, u, q, s)
  BY DEF WaiterInv
<1>1. CASE u = t
  BY <1>1
<1>2. CASE u # t
  <2>1. te[u] = td[u] /\ ce[u] = ca[u]
    BY <1>2 DEF OthersSame
  <2>2. WillTry(td, ca, u, q, s)
    BY <1>2 DEF WaiterInv
  <2> QED  BY <2>1, <2>2 DEF WillTry
<1> QED  BY <1>1, <1>2

\* The others' calls stay as they are, if the mutexes they give are left alone.
LEMMA CallsKept ==
    ASSUME NEW td, NEW te, NEW qu, NEW qv, NEW ca, NEW ce, NEW t \in Task,
           CallInv(td, qu, ca), OthersSame(td, te, t), OthersSame(ca, ce, t),
           \A u \in Task : ca[u].queue \in Queue,
           \A q \in Queue, u \in Task : u # t /\ qu[q].holder = u
               => qv[q].holder = u /\ qv[q].calls = qu[q].calls,
           CallOk(t, te[t], ce[t], qv)
    PROVE  CallInv(te, qv, ce)
<1> SUFFICES ASSUME NEW u \in Task, u # t PROVE CallOk(u, te[u], ce[u], qv)
  BY DEF CallInv
<1>1. te[u] = td[u] /\ ce[u] = ca[u]
  BY DEF OthersSame
<1>2. CallOk(u, td[u], ca[u], qu)
  BY DEF CallInv
<1> QED  BY <1>1, <1>2 DEF CallOk

\* The tasks left to count a recursive mutex.
CountsOrGives(s, c, q) ==
    OpOf(s) = "count" \/ (OpOf(s) = "try" /\ c.kind = "send" /\ c.queue = q)

\* A step that keeps the holders, and counts no mutex up, keeps what is known of them.
LEMMA MutexesKept ==
    ASSUME NEW live, NEW held, NEW td, NEW te, NEW qu, NEW qv, NEW ca, NEW ce, NEW t \in Task,
           MutexInv(live, held, td, qu, ca), OthersSame(td, te, t), OthersSame(ca, ce, t),
           \A q \in Queue : /\ qv[q].count = qu[q].count \/ (~IsMutex(q) /\ qv[q].count <= Length[q])
                            /\ qv[q].holder = qu[q].holder /\ qv[q].calls = qu[q].calls,
           \A q \in Queue : Uncounted(qu, q, t) => CountsOrGives(te[t], ce[t], q)
    PROVE  MutexInv(live, held, te, qv, ce)
<1>1. \A q \in Queue :
           /\ qv[q].count <= Length[q]
           /\ IsMutex(q) => (qv[q].count = 0 <=> qv[q].holder # NULL)
           /\ ~IsMutex(q) => qv[q].holder = NULL
           /\ qv[q].holder \in live \cup {NULL}
           /\ qv[q].holder = NULL \/ Kind[q] # "recursive" => qv[q].calls = 0
  BY DEF MutexInv
<1>2. \A u \in Task : MutexesOf(qv, u) = MutexesOf(qu, u)
  BY DEF MutexesOf
<1>3. \A q \in Queue, u \in Task : Uncounted(qv, q, u) <=> Uncounted(qu, q, u)
  BY DEF Uncounted
<1>4. \A q \in Queue, u \in Task : Uncounted(qv, q, u) => CountsOrGives(te[u], ce[u], q)
  <2> SUFFICES ASSUME NEW q \in Queue, NEW u \in Task, Uncounted(qv, q, u), u # t
               PROVE  CountsOrGives(te[u], ce[u], q)
    BY <1>3
  <2>1. te[u] = td[u] /\ ce[u] = ca[u]
    BY DEF OthersSame
  <2>2. CountsOrGives(td[u], ca[u], q)
    BY <1>3 DEF MutexInv, CountsOrGives
  <2> QED  BY <2>1, <2>2
<1>5. \A u \in Task : held[u] = Cardinality(MutexesOf(qv, u))
  BY <1>2 DEF MutexInv
<1>6. \A q, p \in Queue, h \in Task : Uncounted(qv, q, h) /\ Uncounted(qv, p, h) => q = p
  BY <1>3 DEF MutexInv
<1> QED  BY <1>1, <1>4, <1>5, <1>6 DEF MutexInv, CountsOrGives

\* What a step of the kernel must not do to those who wait.
Lets(kk, r) ==
    /\ KernelOk(r) /\ r.live = kk.live
    /\ \A e \in WaitLists, u \in Task : Occurs(r.event[e], u) => Occurs(kk.event[e], u)

\* A step that eases the waits lets every waiter be.
LEMMA EasesLets ==
    ASSUME NEW kk, NEW r, Eases(kk, r)
    PROVE  Lets(kk, r)
BY DEF Eases, Lets

\* Of the tasks that run to a queue, a step of task t can only stop t.
LEMMA ComersKept ==
    ASSUME OnlyQueues, NEW kk, NEW r, Lets(kk, r), NEW t \in Task,
           NEW td, NEW te, NEW ca, NEW ce, OthersSame(td, te, t), OthersSame(ca, ce, t),
           NEW q \in Queue, NEW s \in Side
    PROVE  /\ Comers(kk, td, ca, q, s) \ {t} \subseteq Comers(r, te, ce, q, s)
           /\ WillTry(te, ce, t, q, s) \/ t \notin Comers(kk, td, ca, q, s)
                  => Comers(kk, td, ca, q, s) \subseteq Comers(r, te, ce, q, s)
<1>1. QueueLists \subseteq WaitLists
  BY WaitListsAreLists
<1>2. \A u \in Task : InQueueList(r, u) => InQueueList(kk, u)
  BY <1>1 DEF InQueueList, Lets
<1>3. \A u \in Task : u # t => (WillTry(te, ce, u, q, s) <=> WillTry(td, ca, u, q, s))
  BY DEF OthersSame, WillTry
<1> QED  BY <1>2, <1>3 DEF Comers

\* Nobody else begins to wait.
LEMMA ExpectedKept ==
    ASSUME OnlyQueues, NEW kk, NEW r, Lets(kk, r), NEW t \in Task,
           NEW td, NEW te, NEW ca, NEW ce, OthersSame(td, te, t), OthersSame(ca, ce, t),
           NEW q \in Queue, NEW s \in Side,
           WillWait(te, ce, t, q, s) => WillWait(td, ca, t, q, s)
    PROVE  Expected(r, te, ce, q, s) => Expected(kk, td, ca, q, s)
<1>1. WaitList(q, s) \in WaitLists
  BY WaitListsAreLists
<1>2. \A u \in Task : Queued(r, u, q, s) => Queued(kk, u, q, s)
  BY <1>1 DEF Queued, Lets
<1>3. \A u \in Task : WillWait(te, ce, u, q, s) => WillWait(td, ca, u, q, s)
  <2>1. \A u \in Task : u # t => (WillWait(te, ce, u, q, s) <=> WillWait(td, ca, u, q, s))
    BY DEF OthersSame, WillWait
  <2> QED  BY <2>1
<1> QED  BY <1>2, <1>3 DEF Expected

\* The queues are as they were.
LEMMA WakeKept ==
    ASSUME OnlyQueues, NEW kk, NEW r, Lets(kk, r), NEW t \in Task,
           NEW td, NEW te, NEW ca, NEW ce, OthersSame(td, te, t), OthersSame(ca, ce, t),
           NEW qu \in QueueStates, NEW qv \in QueueStates, NEW q \in Queue, NEW s \in Side,
           kk.live \subseteq Task, Idle \in kk.live,
           WakeOk(kk, td, qu, ca, q, s), Stock(qv, q, s) <= Stock(qu, q, s),
           LockOf(qv, q, s) = LockOf(qu, q, s),
           \/ Stock(qu, q, s) <= 0
           \/ /\ WillWait(te, ce, t, q, s) => WillWait(td, ca, t, q, s)
              /\ WillTry(te, ce, t, q, s) \/ t \notin Comers(kk, td, ca, q, s)
    PROVE  WakeOk(r, te, qv, ce, q, s)
<1>1. Stock(qu, q, s) \in Int /\ Stock(qv, q, s) \in Int /\ Owed(LockOf(qu, q, s)) \in Nat
  BY SideNumbers
<1>2. CASE Stock(qu, q, s) <= 0
  <2>1. Stock(qv, q, s) <= 0
    BY <1>1, <1>2
  <2> QED  BY <2>1, NothingToWaitFor
<1>3. CASE /\ WillWait(te, ce, t, q, s) => WillWait(td, ca, t, q, s)
           /\ WillTry(te, ce, t, q, s) \/ t \notin Comers(kk, td, ca, q, s)
  <2>1. Comers(kk, td, ca, q, s) \subseteq Comers(r, te, ce, q, s)
    BY <1>3, ComersKept
  <2>2. Expected(r, te, ce, q, s) => Expected(kk, td, ca, q, s)
    BY <1>3, ExpectedKept
  <2> DEFINE none == {}
  <2>3. /\ (Comers(kk, td, ca, q, s) \ none) \cup none \subseteq Comers(r, te, ce, q, s)
        /\ Comers(kk, td, ca, q, s) \cap none = {} /\ none \in SUBSET Task
    BY <2>1
  <2>4. Cardinality(none) = 0
    BY FS_EmptySet
  <2> HIDE DEF none
  <2>5. Stock(qv, q, s) + Cardinality(none) + Owed(LockOf(qu, q, s))
            <= Stock(qu, q, s) + Cardinality(none) + Owed(LockOf(qv, q, s))
    BY <1>1, <2>4
  <2>6. r.live = kk.live
    BY DEF Lets
  <2>7. LockOf(qu, q, s) >= Cardinality(kk.live) => LockOf(qv, q, s) >= Cardinality(kk.live)
    OBVIOUS
  <2> QED  BY <2>2, <2>3, <2>5, <2>6, <2>7, WakeTrade
<1> QED  BY <1>2, <1>3

\* What a kernel that is as it should be says of the tasks.
LEMMA KernelOkLive ==
    ASSUME NEW kk, KernelOk(kk)
    PROVE  kk \in KernelState /\ kk.live \subseteq Task /\ Idle \in kk.live
           /\ kk.current \in Task /\ kk.current \in kk.live /\ Idle \in Task
<1>1. kk \in KernelState
  BY DEF KernelOk, Sound
<1>2. kk.live \subseteq Task /\ kk.current \in Task
  BY <1>1, FieldTypes
<1>3. Idle \in Task
  BY TasksAssumption
<1>4. Idle \in kk.live
  <2>1. kk.prio[Idle] \in Priority /\ IsIn(kk, Idle, Ready(kk.prio[Idle]))
    BY <1>1, <1>3, FieldTypes DEF KernelOk, IsReady
  <2> QED  BY <1>3, <2>1, ReadyMeansReady DEF KernelOk
<1> QED  BY <1>1, <1>2, <1>3, <1>4 DEF KernelOk

\* The running task keeps its lock, and stops for nothing that there is.
StaysQuiet(td, qu, ca, r, te, ce, t) ==
    /\ \A q \in Queue : /\ LocksTx(te, ce, t, q) <=> LocksTx(td, ca, t, q)
                        /\ LocksRx(te, ce, t, q) <=> LocksRx(td, ca, t, q)
    /\ \A q \in Queue, s \in Side :
           \/ Stock(qu, q, s) <= 0
           \/ /\ WillWait(te, ce, t, q, s) => WillWait(td, ca, t, q, s)
              /\ WillTry(td, ca, t, q, s) => WillTry(te, ce, t, q, s)
    /\ \A q \in Queue, s \in Side : Queued(r, t, q, s) => WillTry(te, ce, t, q, s)
    /\ CallOk(t, te[t], ce[t], qu)
    /\ \A q \in Queue : Uncounted(qu, q, t) => CountsOrGives(te[t], ce[t], q)

\* A step that changes no queue keeps the invariant if it is so, and the
\* running task is left with work that fits.
LEMMA QuietStepKeeps ==
    ASSUME OnlyQueues, NEW kk, NEW td, NEW qu \in QueueStates, NEW ca \in CallStates,
           QInv(kk, td, qu, ca), NEW r, Lets(kk, r), r.held = kk.held,
           NEW te, NEW ce, NEW t \in Task, t = kk.current,
           OthersSame(td, te, t), OthersSame(ca, ce, t),
           WorkFits(t, te[t]), Suspends(r, te), Runs(r, te),
           StaysQuiet(td, qu, ca, r, te, ce, t)
    PROVE  QInv(r, te, qu, ce)
<1>1. /\ KernelOk(kk) /\ WorkOk(td, kk.live) /\ Suspends(kk, td) /\ LockInv(td, qu, ca)
      /\ WaiterInv(kk, td, ca) /\ WakeInv(kk, td, qu, ca) /\ CallInv(td, qu, ca)
      /\ MutexInv(kk.live, kk.held, td, qu, ca)
  BY DEF QInv
<1>2. KernelOk(r) /\ r.live = kk.live
  BY DEF Lets
<1>3. kk.live \subseteq Task /\ Idle \in kk.live /\ kk.current \in kk.live /\ kk.current \in Task
  BY <1>1, KernelOkLive
<1>4. WorkOk(te, r.live)
  BY <1>1, <1>2, <1>3, WorkKept
<1>5. LockInv(te, qu, ce)
  <2>1. \A q \in Queue :
            /\ qu[q].tx # queueUNLOCKED <=> LocksTx(te, ce, t, q)
            /\ qu[q].rx # queueUNLOCKED <=> LocksRx(te, ce, t, q)
    BY <1>1, LocksSay DEF StaysQuiet
  <2> QED  BY <1>1, <2>1, LocksKept
<1>6. WaiterInv(r, te, ce)
  <2>1. \A q \in Queue, s \in Side, u \in Task : Queued(r, u, q, s) =>
            IF u = t THEN WillTry(te, ce, t, q, s) ELSE Queued(kk, u, q, s)
    <3>1. \A q \in Queue, s \in Side : WaitList(q, s) \in WaitLists
      BY WaitListsAreLists
    <3> QED  BY <3>1 DEF Lets, Queued, StaysQuiet
  <2> QED  BY <1>1, <2>1, WaitersKept
<1>7. WakeInv(r, te, qu, ce)
  <2> SUFFICES ASSUME NEW q \in Queue, NEW s \in Side
               PROVE  WakeOk(r, te, qu, ce, q, s)
    BY DEF WakeInv
  <2>1. WakeOk(kk, td, qu, ca, q, s)
    BY <1>1 DEF WakeInv
  <2>2. ~WillTry(td, ca, t, q, s) => t \notin Comers(kk, td, ca, q, s)
    BY DEF Comers
  <2>3. Stock(qu, q, s) <= Stock(qu, q, s)
    BY SideNumbers
  <2>4. \/ Stock(qu, q, s) <= 0
        \/ /\ WillWait(te, ce, t, q, s) => WillWait(td, ca, t, q, s)
           /\ WillTry(te, ce, t, q, s) \/ t \notin Comers(kk, td, ca, q, s)
    BY <2>2 DEF StaysQuiet
  <2> QED  BY <1>3, <2>1, <2>3, <2>4, WakeKept
<1>8. CallInv(te, qu, ce)
  <2>1. \A u \in Task : ca[u].queue \in Queue
    BY DEF CallStates, CallRecord
  <2>2. CallOk(t, te[t], ce[t], qu)
    BY DEF StaysQuiet
  <2> QED  BY <1>1, <2>1, <2>2, CallsKept
<1>9. MutexInv(r.live, r.held, te, qu, ce)
  <2>1. \A q \in Queue : Uncounted(qu, q, t) => CountsOrGives(te[t], ce[t], q)
    BY DEF StaysQuiet
  <2> QED  BY <1>1, <1>2, <2>1, MutexesKept
<1> QED  BY <1>2, <1>4, <1>5, <1>6, <1>7, <1>8, <1>9 DEF QInv

\* A step of the kernel: the running task is where it was in its call, or is
\* through with xTaskResumeAll, a yield or a delay.
PassesBy(s, w) ==
    \/ w = s
    \/ /\ OpOf(s) \notin RxSteps \cup {"try", "count"} /\ OpOf(w) \notin RxSteps \cup {"count"}
       /\ \A op \in LoopOps \cup {"count"} : Has(w, op) <=> Has(s, op)

\* A step of the kernel that passes the queues by keeps the invariant.
LEMMA KernelStepKeeps ==
    ASSUME OnlyQueues, NEW kk, NEW td, NEW qu \in QueueStates, NEW ca \in CallStates,
           QInv(kk, td, qu, ca), NEW r, Lets(kk, r), r.held = kk.held,
           NEW te, NEW t \in Task, t = kk.current, OthersSame(td, te, t),
           WorkFits(t, te[t]), Suspends(r, te), Runs(r, te), PassesBy(td[t], te[t])
    PROVE  QInv(r, te, qu, ca)
<1>1. OthersSame(ca, ca, t)
  BY DEF OthersSame
<1>2. TxSteps \subseteq RxSteps /\ {"inherit", "place"} \subseteq RxSteps
      /\ "try" \in LoopOps
  BY DEF TxSteps, RxSteps, LoopOps
<1>3. /\ CallOk(t, td[t], ca[t], qu) /\ WaiterInv(kk, td, ca)
      /\ \A q \in Queue : Uncounted(qu, q, t) => CountsOrGives(td[t], ca[t], q)
  BY DEF QInv, CallInv, MutexInv, CountsOrGives
<1>4. \A q \in Queue : /\ LocksTx(te, ca, t, q) <=> LocksTx(td, ca, t, q)
                       /\ LocksRx(te, ca, t, q) <=> LocksRx(td, ca, t, q)
  BY <1>2 DEF LocksTx, LocksRx, PassesBy
<1>5. \A q \in Queue, s \in Side :
          /\ WillWait(te, ca, t, q, s) => WillWait(td, ca, t, q, s)
          /\ WillTry(td, ca, t, q, s) => WillTry(te, ca, t, q, s)
  BY <1>2 DEF WillWait, WillTry, PassesBy
<1>6. \A q \in Queue, s \in Side : Queued(r, t, q, s) => WillTry(te, ca, t, q, s)
  <2>1. \A q \in Queue, s \in Side : WaitList(q, s) \in WaitLists
    BY WaitListsAreLists
  <2>2. \A q \in Queue, s \in Side : Queued(r, t, q, s) => Queued(kk, t, q, s)
    BY <2>1 DEF Lets, Queued
  <2> QED  BY <1>3, <1>5, <2>2 DEF WaiterInv
<1>7. CallOk(t, te[t], ca[t], qu)
  <2>1. CASE te[t] = td[t]
    BY <1>3, <2>1
  <2>2. CASE te[t] # td[t]
    <3>1. /\ OpOf(td[t]) # "try" /\ (Busy(te[t]) <=> Busy(td[t])) /\ OpOf(te[t]) # "count"
          /\ Has(te[t], "count") <=> Has(td[t], "count")
      BY <2>2 DEF PassesBy, Busy
    <3> QED  BY <1>3, <3>1 DEF CallOk
  <2> QED  BY <2>1, <2>2
<1>8. \A q \in Queue : Uncounted(qu, q, t) => CountsOrGives(te[t], ca[t], q)
  BY <1>3 DEF CountsOrGives, PassesBy
<1>9. StaysQuiet(td, qu, ca, r, te, ca, t)
  BY <1>4, <1>5, <1>6, <1>7, <1>8 DEF StaysQuiet
<1> QED  BY <1>1, <1>9, QuietStepKeeps

-----------------------------------------------------------------------------
(* Steps of the queues, in general. *)

\* What the invariant says of the variables.
LEMMA InvFacts ==
    ASSUME OnlyQueues, QueuesInv
    PROVE  /\ queue \in QueueStates /\ call \in CallStates /\ todo \in [Task -> Seq(Work)]
           /\ QInv(k, todo, queue, call) /\ KernelOk(k) /\ k \in KernelState
           /\ k.live \subseteq Task /\ Idle \in k.live /\ Idle \in Task
           /\ Me \in Task /\ Me \in k.live /\ k.current = Me
           /\ call[Me] \in CallRecord /\ call[Me].queue \in Queue
           /\ todo[Me] \in Seq(Work) /\ InSequence(todo[Me])
           /\ \A t \in Task : call[t].queue \in Queue
           /\ app \in DOMAIN Applications
<1>1. QueuesTypeOK /\ QInv(k, todo, queue, call)
  BY DEF QueuesInv
<1>2. queue \in QueueStates /\ call \in CallStates
  BY <1>1 DEF QueuesTypeOK, QueueStates, QueueRecord, CallStates, CallRecord
<1>3. todo \in [Task -> Seq(Work)] /\ app \in DOMAIN Applications
  BY <1>1 DEF QueuesTypeOK, TypeOK
<1>4. KernelOk(k) /\ WorkOk(todo, k.live)
  BY <1>1 DEF QInv
<1>5. k \in KernelState /\ k.live \subseteq Task /\ Idle \in k.live
      /\ k.current \in Task /\ k.current \in k.live /\ Idle \in Task
  BY <1>4, KernelOkLive
<1>6. \A t \in Task : call[t] \in CallRecord /\ call[t].queue \in Queue
  BY <1>2 DEF CallStates, CallRecord
<1>7. Me = k.current
  BY DEF Me
<1>8. todo[Me] \in Seq(Work) /\ InSequence(todo[Me])
  BY <1>3, <1>4, <1>5, <1>7 DEF WorkOk
<1> QED  BY <1>1, <1>2, <1>3, <1>4, <1>5, <1>6, <1>7, <1>8

\* The types after a step.
LEMMA TypesNext ==
    ASSUME QueuesTypeOK, k' \in KernelState, todo' \in [Task -> Seq(Work)],
           queue' \in QueueStates, call' \in CallStates,
           UNCHANGED <<value, previous, allocated, app>>
    PROVE  QueuesTypeOK'
BY DEF QueuesTypeOK, TypeOK, QueueStates, QueueRecord, CallStates, CallRecord

\* The running task goes on with its work.
LEMMA RunningSays ==
    ASSUME OnlyQueues, QueuesInv, NEW op, Running(op)
    PROVE  /\ todo[Me] # <<>> /\ OpOf(todo[Me]) = op /\ op \in CallOps /\ todo[Me][1] = Item
           /\ Rest \in Seq(Work) /\ InSequence(Rest) /\ OpOf(Rest) \in NextOps(op)
           /\ \A o : Has(todo[Me], o) <=> op = o \/ Has(Rest, o)
           /\ k.cpu = "task" /\ k.susp = (IF op \in SuspSteps THEN 1 ELSE 0)
           /\ Me = Idle => op = "idleYield"
<1>1. todo[Me] \in Seq(Work) /\ InSequence(todo[Me]) /\ k.current = Me
      /\ QInv(k, todo, queue, call)
  BY InvFacts
<1>2. todo[Me] # <<>> /\ Head(todo[Me]).op = op /\ k.cpu = "task"
  BY DEF Running
<1>3. /\ Tail(todo[Me]) \in Seq(Work) /\ InSequence(Tail(todo[Me]))
      /\ OpOf(todo[Me]) \in CallOps /\ Head(todo[Me]) = todo[Me][1]
      /\ OpOf(todo[Me]) = todo[Me][1].op /\ OpOf(Tail(todo[Me])) \in NextOps(OpOf(todo[Me]))
      /\ \A o : Has(todo[Me], o) <=> OpOf(todo[Me]) = o \/ Has(Tail(todo[Me]), o)
  BY <1>1, <1>2, OrderlyRest
<1>4. OpOf(todo[Me]) = op
  BY <1>2, <1>3
<1>5. Suspends(k, todo) /\ WorkOk(todo, k.live)
  BY <1>1 DEF QInv
<1>6. k.susp = (IF op \in SuspSteps THEN 1 ELSE 0)
  BY <1>1, <1>2, <1>4, <1>5 DEF Suspends
<1>7. Me = Idle => op \in {"none", "idleYield"}
  BY <1>4, <1>5 DEF WorkOk
<1>8. op # "none"
  BY <1>3, <1>4 DEF CallOps, LoopOps
<1> QED  BY <1>2, <1>3, <1>4, <1>6, <1>7, <1>8 DEF Rest, Item

\* It is in the loop of a blocking call: it is ready, and waits for nothing.
LEMMA LoopFacts ==
    ASSUME OnlyQueues, QueuesInv, NEW op \in LoopOps, Running(op)
    PROVE  /\ IsReady(k, Me) /\ Me # Idle
           /\ \A e \in EventLists : ~Occurs(k.event[e], Me)
           /\ OpOf(Rest) \in {"none", "count"} /\ \A o : Has(Rest, o) => o = "count"
           /\ Has(Rest, "count") <=> OpOf(Rest) = "count"
<1>1. /\ todo[Me] \in Seq(Work) /\ InSequence(todo[Me]) /\ k.current = Me /\ Me \in Task
      /\ QInv(k, todo, queue, call) /\ KernelOk(k)
  BY InvFacts
<1>2. /\ todo[Me] # <<>> /\ OpOf(todo[Me]) = op /\ k.cpu = "task"
      /\ Me = Idle => op = "idleYield"
  BY RunningSays
<1>3. /\ OpOf(Rest) \in {"none", "count"} /\ \A o : Has(Rest, o) => o = "count"
      /\ Has(Rest, "count") <=> OpOf(Rest) = "count"
      /\ \A o : Has(todo[Me], o) <=> o = op \/ Has(Rest, o)
  BY <1>1, <1>2, LoopEnds DEF Rest
<1>4. op # "idleYield" /\ op # "yield"
  BY DEF LoopOps
<1>5. ~Has(todo[Me], "yield")
  BY <1>3, <1>4
<1>6. IsReady(k, Me)
  BY <1>1, <1>2, <1>5 DEF QInv, Runs
<1>7. \A e \in EventLists : ~Occurs(k.event[e], Me)
  BY <1>1, <1>6 DEF KernelOk
<1> QED  BY <1>2, <1>3, <1>4, <1>6, <1>7

\* A step that changes no queue, of a task that stays or begins to be quiet.
LEMMA QuietNext ==
    ASSUME OnlyQueues, QueuesInv, Lets(k, k'), k'.held = k.held, queue' = queue,
           NEW s \in Seq(Work), todo' = [todo EXCEPT ![Me] = s],
           NEW c \in CallRecord, call' = [call EXCEPT ![Me] = c],
           UNCHANGED <<value, previous, allocated, app>>,
           WorkFits(Me, s), Suspends(k', todo'), Runs(k', todo'),
           StaysQuiet(todo, queue, call, k', todo', call', Me)
    PROVE  QueuesInv'
<1>1. /\ queue \in QueueStates /\ call \in CallStates /\ todo \in [Task -> Seq(Work)]
      /\ QInv(k, todo, queue, call) /\ Me \in Task /\ k.current = Me
  BY InvFacts
<1>2. todo' \in [Task -> Seq(Work)] /\ todo'[Me] = s /\ OthersSame(todo, todo', Me)
  BY <1>1 DEF OthersSame
<1>3. call' \in CallStates /\ call'[Me] = c /\ OthersSame(call, call', Me)
  BY <1>1 DEF CallStates, OthersSame
<1>4. QInv(k', todo', queue, call')
  BY <1>1, <1>2, <1>3, QuietStepKeeps
<1>5. k' \in KernelState
  BY DEF Lets, KernelOk, Sound
<1>6. QueuesTypeOK'
  <2>1. queue' \in QueueStates
    BY <1>1
  <2> QED  BY <1>2, <1>3, <1>5, <2>1, TypesNext DEF QueuesInv
<1>7. QInv(k', todo', queue', call')
  BY <1>4
<1> QED  BY <1>6, <1>7 DEF QueuesInv

\* What the invariant says of the call the running task is in.
LEMMA MyCall ==
    ASSUME OnlyQueues, QueuesInv
    PROVE  /\ CallOk(Me, todo[Me], This, queue) /\ This \in CallRecord /\ Q \in Queue
           /\ \A q \in Queue : Uncounted(queue, q, Me) => CountsOrGives(todo[Me], This, q)
           /\ \A q \in Queue : queue[q].holder = Me => IsMutex(q) /\ queue[q].count = 0
<1>1. /\ QInv(k, todo, queue, call) /\ Me \in Task
      /\ call[Me] \in CallRecord /\ call[Me].queue \in Queue
  BY InvFacts
<1>2. Me # NULL
  BY <1>1, QueuesAssumption
<1> QED  BY <1>1, <1>2 DEF QInv, CallInv, MutexInv, CountsOrGives, This, Q

\* The kinds of calls have a side, but for one that never waits.
SideOf(kind) == IF kind \in {"send", "overwrite"} THEN "send" ELSE "receive"

\* The side of a call is the one its kind stands for.
LEMMA Sides ==
    ASSUME NEW c \in CallRecord
    PROVE  /\ SideOf(c.kind) \in Side
           /\ \A s \in Side : c.kind \in KindsOf(s) => s = SideOf(c.kind)
           /\ c.kind # "overwrite" => c.kind \in KindsOf(SideOf(c.kind))
BY DEF SideOf, Side, KindsOf, CallRecord, CallKinds

\* A step of the loop to another step of it.
LEMMA LoopNext ==
    ASSUME OnlyQueues, QueuesInv, NEW op \in LoopOps, Running(op),
           Eases(k, k'), k'.held = k.held, k'.cpu = "task", k'.current = k.current,
           queue' = queue, NEW s \in Seq(Work), todo' = [todo EXCEPT ![Me] = s],
           NEW c \in CallRecord, call' = [call EXCEPT ![Me] = c],
           UNCHANGED <<value, previous, allocated, app>>,
           InSequence(s), OpOf(s) \in LoopOps \cup {"unlockTx"}, Has(Rest, "count") => Has(s, "count"),
           k'.susp = (IF OpOf(s) \in SuspSteps THEN 1 ELSE 0),
           OpOf(s) \in TxSteps <=> op \in TxSteps, c.kind = This.kind, c.queue = Q,
           op = "try" => This.kind # "overwrite" /\ ~(This.kind = "send" /\ IsMutex(Q)),
           \/ Stock(queue, Q, SideOf(This.kind)) <= 0
           \/ op # "try" /\ (OpOf(s) \in {"inherit", "place"} => op = "inherit")
    PROVE  QueuesInv'
<1>1. /\ call \in CallStates /\ todo \in [Task -> Seq(Work)]
      /\ QInv(k, todo, queue, call) /\ Me \in Task /\ k.current = Me
  BY InvFacts
<1>2. todo'[Me] = s /\ OthersSame(todo, todo', Me)
  BY <1>1 DEF OthersSame
<1>3. call'[Me] = c
  BY <1>1 DEF CallStates, OthersSame
<1>4. OpOf(todo[Me]) = op /\ \A o : Has(todo[Me], o) <=> op = o \/ Has(Rest, o)
  BY RunningSays
<1>5. /\ IsReady(k, Me) /\ Me # Idle /\ \A e \in EventLists : ~Occurs(k.event[e], Me)
      /\ \A o : Has(Rest, o) => o = "count"
  BY LoopFacts
<1>6. /\ CallOk(Me, todo[Me], This, queue) /\ This \in CallRecord
      /\ \A q \in Queue : Uncounted(queue, q, Me) => CountsOrGives(todo[Me], This, q)
  BY MyCall
<1>7. Lets(k, k')
  BY EasesLets
<1>8. WorkFits(Me, s)
  BY <1>5 DEF WorkFits, LoopOps
<1>9. Suspends(k', todo')
  BY <1>1, <1>2, SuspendsGoesOn DEF QInv
<1>10. Runs(k', todo')
  BY <1>1, <1>5 DEF Runs, Eases
<1>11. \A x \in LoopOps \cup {"unlockTx"} : x \in RxSteps <=> x \in TxSteps
  BY DEF LoopOps, TxSteps, RxSteps
<1>12. \A q \in Queue : /\ LocksTx(todo', call', Me, q) <=> LocksTx(todo, call, Me, q)
                        /\ LocksRx(todo', call', Me, q) <=> LocksRx(todo, call, Me, q)
  BY <1>2, <1>3, <1>4, <1>11 DEF LocksTx, LocksRx, This, Q
<1>13. \A q \in Queue, d \in Side :
          \/ Stock(queue, q, d) <= 0
          \/ /\ WillWait(todo', call', Me, q, d) => WillWait(todo, call, Me, q, d)
             /\ WillTry(todo, call, Me, q, d) => WillTry(todo', call', Me, q, d)
  <2> TAKE q \in Queue, d \in Side
  <2>1. CASE q = Q /\ d = SideOf(This.kind) /\ Stock(queue, Q, SideOf(This.kind)) <= 0
    BY <2>1
  <2>2. CASE ~(q = Q /\ d = SideOf(This.kind))
    <3>1. ~(call[Me].queue = q /\ call[Me].kind \in KindsOf(d))
      BY <1>6, <2>2, Sides DEF This, Q
    <3> QED  BY <1>3, <3>1 DEF WillWait, WillTry, This, Q
  <2>3. CASE op # "try" /\ (OpOf(s) \in {"inherit", "place"} => op = "inherit")
    <3>1. ~WillTry(todo, call, Me, q, d)
      BY <1>4, <1>5, <2>3 DEF WillTry
    <3>2. WillWait(todo', call', Me, q, d) => WillWait(todo, call, Me, q, d)
      BY <1>2, <1>3, <1>4, <2>3 DEF WillWait, This, Q
    <3> QED  BY <3>1, <3>2
  <2> QED  BY <2>1, <2>2, <2>3
<1>14. \A q \in Queue, d \in Side : Queued(k', Me, q, d) => WillTry(todo', call', Me, q, d)
  <2>1. \A q \in Queue, d \in Side : WaitList(q, d) \in WaitLists /\ WaitList(q, d) \in EventLists
    BY WaitListsAreLists
  <2> QED  BY <1>1, <1>5, <1>7, <2>1 DEF Queued, Lets
<1>15. Busy(todo[Me]) /\ (op # "try" => This.kind # "overwrite")
       /\ ~(This.kind = "send" /\ IsMutex(Q))
  <2>1. Busy(todo[Me])
    BY <1>4 DEF Busy
  <2> QED  BY <1>4, <1>6, <2>1 DEF CallOk, Q
<1>16. CallOk(Me, s, c, queue)
  <2>1. Has(todo[Me], "count") => Has(s, "count")
    BY <1>4 DEF LoopOps
  <2>2. c.kind # "overwrite"
    BY <1>15
  <2>3. ~(c.kind = "send" /\ IsMutex(c.queue))
    BY <1>15
  <2>4. OpOf(s) # "count"
    BY DEF LoopOps
  <2> QED  BY <1>6, <2>1, <2>2, <2>3, <2>4 DEF CallOk, Q
<1>17. \A q \in Queue : ~Uncounted(queue, q, Me)
  <2> SUFFICES ASSUME NEW q \in Queue, Uncounted(queue, q, Me) PROVE FALSE
    OBVIOUS
  <2>1. IsMutex(q)
    BY DEF Uncounted, IsMutex
  <2>2. OpOf(todo[Me]) # "count"
    BY <1>4 DEF LoopOps
  <2>3. This.kind = "send" /\ Q = q
    BY <1>6, <2>2 DEF CountsOrGives, Q
  <2> QED  BY <1>15, <2>1, <2>3
<1>18. StaysQuiet(todo, queue, call, k', todo', call', Me)
  BY <1>2, <1>3, <1>12, <1>13, <1>14, <1>16, <1>17 DEF StaysQuiet
<1> QED  BY <1>7, <1>8, <1>9, <1>10, <1>18, QuietNext

\* No call, and no work.
LEMMA NothingToDo ==
    ASSUME OnlyQueues
    PROVE  /\ NoCall \in CallRecord /\ NoCall.kind = "send"
           /\ <<>> \in Seq(Work) /\ InSequence(<<>>) /\ OpOf(<<>>) = "none"
           /\ \A op : ~Has(<<>>, op)
<1>1. (CHOOSE q \in Queue : TRUE) \in Queue
  BY DEF OnlyQueues
<1>2. 0 \in Tick /\ 0 \in 0 .. OverflowCount - 1
  BY TickAssumption, TickFacts
<1>3. NoCall \in CallRecord /\ NoCall.kind = "send"
  BY <1>1, <1>2 DEF NoCall, CallRecord, CallKinds
<1>4. <<>> \in Seq(Work) /\ Len(<<>>) = 0
  BY EmptySeq
<1>5. InSequence(<<>>) /\ (\A op : ~Has(<<>>, op)) /\ OpOf(<<>>) = "none"
  BY <1>4 DEF InSequence, Has, OpOf
<1> QED  BY <1>3, <1>4, <1>5

\* Whatever is left after a call, it fits no call: the next one is to come.
LEMMA RestFits ==
    ASSUME OnlyQueues, NEW s \in Seq(Work), InSequence(s), OpOf(s) \in {"none", "count"},
           NEW qu, NEW t
    PROVE  CallOk(t, s, NoCall, qu)
<1>1. NoCall.kind = "send"
  BY NothingToDo
<1>2. \A op : Has(s, op) => op = "count"
  BY CallEnds
<1>3. ~Busy(s)
  BY <1>2 DEF Busy, LoopOps
<1> QED  BY <1>1, <1>3 DEF CallOk

\* A call returns with nothing done.
LEMMA LoopReturns ==
    ASSUME OnlyQueues, QueuesInv, NEW op \in {"try", "timedOut", "disinherit"}, Running(op),
           Eases(k, k'), k'.held = k.held, k'.cpu = "task", k'.current = k.current,
           k'.susp = k.susp, queue' = queue, todo' = [todo EXCEPT ![Me] = <<>>],
           call' = [call EXCEPT ![Me] = NoCall],
           UNCHANGED <<value, previous, allocated, app>>,
           op = "try" => /\ ~(This.kind = "send" /\ IsMutex(Q))
                         /\ Stock(queue, Q, SideOf(This.kind)) <= 0
    PROVE  QueuesInv'
<1>1. /\ call \in CallStates /\ todo \in [Task -> Seq(Work)]
      /\ QInv(k, todo, queue, call) /\ Me \in Task /\ k.current = Me
  BY InvFacts
<1>2. /\ NoCall \in CallRecord /\ <<>> \in Seq(Work) /\ InSequence(<<>>) /\ OpOf(<<>>) = "none"
      /\ \A o : ~Has(<<>>, o)
  BY NothingToDo
<1>3. todo'[Me] = <<>> /\ OthersSame(todo, todo', Me)
  BY <1>1 DEF OthersSame
<1>4. call'[Me] = NoCall
  BY <1>1 DEF CallStates
<1>5. /\ OpOf(todo[Me]) = op /\ k.susp = (IF op \in SuspSteps THEN 1 ELSE 0)
      /\ \A o : Has(todo[Me], o) <=> op = o \/ Has(Rest, o)
  BY RunningSays
<1>6. op \in LoopOps /\ op \notin SuspSteps
  BY DEF LoopOps, SuspSteps, RxSteps, TxSteps
<1>7. /\ IsReady(k, Me) /\ Me # Idle /\ \A e \in EventLists : ~Occurs(k.event[e], Me)
      /\ \A o : Has(Rest, o) => o = "count"
  BY <1>6, LoopFacts
<1>8. /\ This \in CallRecord
      /\ \A q \in Queue : Uncounted(queue, q, Me) => CountsOrGives(todo[Me], This, q)
  BY MyCall
<1>9. Lets(k, k')
  BY EasesLets
<1>10. WorkFits(Me, <<>>)
  BY <1>2 DEF WorkFits
<1>11. OpOf(<<>>) \notin SuspSteps
  BY <1>2 DEF SuspSteps, RxSteps, TxSteps
<1>12. Suspends(k', todo')
  BY <1>1, <1>3, <1>5, <1>6, <1>11, SuspendsGoesOn DEF QInv
<1>13. Runs(k', todo')
  BY <1>1, <1>7 DEF Runs, Eases
<1>14. op \notin RxSteps /\ op \notin TxSteps /\ OpOf(<<>>) \notin RxSteps
       /\ OpOf(<<>>) \notin TxSteps
  BY <1>6, <1>11 DEF SuspSteps, RxSteps
<1>15. \A q \in Queue : /\ LocksTx(todo', call', Me, q) <=> LocksTx(todo, call, Me, q)
                        /\ LocksRx(todo', call', Me, q) <=> LocksRx(todo, call, Me, q)
  BY <1>3, <1>5, <1>14 DEF LocksTx, LocksRx
<1>16. \A q \in Queue, d \in Side :
          \/ Stock(queue, q, d) <= 0
          \/ /\ WillWait(todo', call', Me, q, d) => WillWait(todo, call, Me, q, d)
             /\ WillTry(todo, call, Me, q, d) => WillTry(todo', call', Me, q, d)
  <2> TAKE q \in Queue, d \in Side
  <2>1. ~WillWait(todo', call', Me, q, d)
    BY <1>2, <1>3 DEF WillWait
  <2>2. WillTry(todo, call, Me, q, d) => op = "try" /\ q = Q /\ d = SideOf(This.kind)
    BY <1>5, <1>7, <1>8, Sides DEF WillTry, This, Q
  <2> QED  BY <2>1, <2>2
<1>17. \A q \in Queue, d \in Side : Queued(k', Me, q, d) => WillTry(todo', call', Me, q, d)
  <2>1. \A q \in Queue, d \in Side : WaitList(q, d) \in WaitLists /\ WaitList(q, d) \in EventLists
    BY WaitListsAreLists
  <2> QED  BY <1>1, <1>7, <1>9, <2>1 DEF Queued, Lets
<1>18. CallOk(Me, <<>>, NoCall, queue)
  BY <1>2, RestFits
<1>19. \A q \in Queue : ~Uncounted(queue, q, Me)
  BY <1>5, <1>8 DEF CountsOrGives, Uncounted, IsMutex, Q
<1>20. StaysQuiet(todo, queue, call, k', todo', call', Me)
  BY <1>3, <1>4, <1>15, <1>16, <1>17, <1>18, <1>19 DEF StaysQuiet
<1> QED  BY <1>2, <1>9, <1>10, <1>12, <1>13, <1>20, QuietNext

\* A step that changes nothing eases the waits.
LEMMA EasesSame ==
    ASSUME NEW kk, KernelOk(kk)
    PROVE  Eases(kk, kk)
BY DEF Eases

-----------------------------------------------------------------------------
(* The loop of a blocking call, but for the steps that change a queue. *)

\* What a call finds when it cannot go on.
LEMMA NotNow ==
    ASSUME OnlyQueues, QueuesInv, Running("try"), ~Succeeds
    PROVE  /\ This.kind # "overwrite" /\ ~(This.kind = "send" /\ IsMutex(Q))
           /\ Stock(queue, Q, SideOf(This.kind)) <= 0
<1>1. /\ CallOk(Me, todo[Me], This, queue) /\ This \in CallRecord /\ Q \in Queue
      /\ \A q \in Queue : queue[q].holder = Me => IsMutex(q) /\ queue[q].count = 0
  BY MyCall
<1>2. OpOf(todo[Me]) = "try" /\ Has(todo[Me], "try")
  BY RunningSays
<1>3. Busy(todo[Me])
  BY <1>2 DEF Busy, LoopOps
<1>4. queue \in QueueStates
  BY InvFacts
<1>5. queue[Q].count \in Nat /\ Length[Q] \in Nat \ {0}
  BY <1>1, <1>4, SideNumbers DEF Side
<1>6. This.kind # "overwrite"
  BY DEF Succeeds
<1>7. This.kind = "send" => ~(queue[Q].count < Length[Q])
  BY DEF Succeeds
<1>8. This.kind # "send" => ~(queue[Q].count > 0)
  BY <1>6 DEF Succeeds
<1>9. ~(This.kind = "send" /\ IsMutex(Q))
  <2> SUFFICES ASSUME This.kind = "send", IsMutex(Q) PROVE FALSE
    OBVIOUS
  <2>1. queue[Q].holder = Me
    BY <1>1, <1>3 DEF CallOk, Q
  <2>2. queue[Q].count = 0
    BY <1>1, <2>1
  <2> QED  BY <1>5, <1>7, <2>2
<1>10. Stock(queue, Q, SideOf(This.kind)) <= 0
  <2>1. CASE This.kind = "send"
    BY <1>5, <1>7, <2>1 DEF Stock, SideOf
  <2>2. CASE This.kind # "send"
    <3>1. SideOf(This.kind) = "receive"
      BY <1>6, <2>2 DEF SideOf
    <3>2. Stock(queue, Q, "receive") = queue[Q].count
      BY DEF Stock
    <3> QED  BY <1>5, <1>8, <2>2, <3>1, <3>2
  <2> QED  BY <2>1, <2>2
<1> QED  BY <1>6, <1>9, <1>10

\* The work items that the loop puts before the rest of the call.
LEMMA LoopWork ==
    ASSUME OnlyQueues, QueuesInv, NEW op \in LoopOps, Running(op), NEW o \in LoopOps
    PROVE  LET s == <<Do(o)>> \o Rest
           IN  /\ s \in Seq(Work) /\ InSequence(s) /\ OpOf(s) = o
               /\ Has(Rest, "count") => Has(s, "count")
               /\ \A x : Has(s, x) <=> o = x \/ Has(Rest, x)
<1>1. Rest \in Seq(Work) /\ InSequence(Rest)
  BY RunningSays
<1>2. OpOf(Rest) \in {"none", "count"}
  BY LoopFacts
<1> QED  BY <1>1, <1>2, LoopGoesOn

\* The call of a task that is about to unlock its queue.
LEMMA UnlockWork ==
    ASSUME OnlyQueues, QueuesInv, NEW op \in LoopOps, Running(op),
           NEW x, x \in {<<Do("timedOut")>>, <<Do("try")>>, <<Do("yield"), Do("try")>>}
    PROVE  /\ UnlockAnd(x) \in Seq(Work) /\ InSequence(UnlockAnd(x)) /\ OpOf(UnlockAnd(x)) = "unlockTx"
           /\ Has(Rest, "count") => Has(UnlockAnd(x), "count")
           /\ x = <<Do("yield"), Do("try")>> => Has(UnlockAnd(x), "try") /\ Has(UnlockAnd(x), "yield")
<1>1. Rest \in Seq(Work) /\ InSequence(Rest)
  BY RunningSays
<1>2. OpOf(Rest) \in {"none", "count"}
  BY LoopFacts
<1>3. /\ UnlockAnd(x) \in Seq(Work) /\ UnlockAnd(x) # <<>> /\ InSequence(UnlockAnd(x))
      /\ OpOf(UnlockAnd(x)) = "unlockTx"
      /\ \A o : Has(UnlockAnd(x), o) <=> \/ o \in {"unlockTx", "unlockRx", "resumeAll"}
                                         \/ Has(x \o Rest, o)
      /\ x = <<Do("timedOut")>> => \A o : Has(x \o Rest, o) <=> o = "timedOut" \/ Has(Rest, o)
      /\ x = <<Do("try")>> => \A o : Has(x \o Rest, o) <=> o = "try" \/ Has(Rest, o)
      /\ x = <<Do("yield"), Do("try")>> =>
             \A o : Has(x \o Rest, o) <=> o \in {"yield", "try"} \/ Has(Rest, o)
  BY <1>1, <1>2, UnlocksAndGoesOn DEF UnlockAnd
<1> QED  BY <1>3

\* xTaskCheckForTimeOut and the rest leave the kernel alone.
LEMMA TryLaterKeeps ==
    ASSUME OnlyQueues, QueuesInv, TryLater
    PROVE  QueuesInv'
<1>1. Running("try") /\ ~Succeeds /\ k' = k /\ queue' = queue
      /\ UNCHANGED <<value, previous, allocated, app>>
  BY DEF TryLater
<1>2. /\ This.kind # "overwrite" /\ ~(This.kind = "send" /\ IsMutex(Q))
      /\ Stock(queue, Q, SideOf(This.kind)) <= 0
  BY <1>1, NotNow
<1>3. k.cpu = "task" /\ k.susp = 0
  BY <1>1, RunningSays DEF SuspSteps, RxSteps, TxSteps
<1>4. Eases(k, k')
  BY <1>1, InvFacts, EasesSame
<1>5. CASE todo' = [todo EXCEPT ![Me] = <<>>] /\ call' = [call EXCEPT ![Me] = NoCall]
  BY <1>1, <1>2, <1>3, <1>4, <1>5, LoopReturns
<1>6. CASE /\ call' = IF This.entrySet THEN call
                      ELSE [call EXCEPT ![Me].entrySet = TRUE, ![Me].entered = k.tick,
                                        ![Me].overflow = k.overflows]
           /\ Continue(<<Do("suspend")>> \o Rest)
  <2> DEFINE s == <<Do("suspend")>> \o Rest
             c == IF This.entrySet THEN This
                  ELSE [This EXCEPT !.entrySet = TRUE, !.entered = k.tick, !.overflow = k.overflows]
  <2>1. "try" \in LoopOps /\ "suspend" \in LoopOps
    BY DEF LoopOps
  <2>2. s \in Seq(Work) /\ InSequence(s) /\ OpOf(s) = "suspend" /\ (Has(Rest, "count") => Has(s, "count"))
    BY <1>1, <2>1, LoopWork
  <2>3. k.tick \in Tick /\ k.overflows \in 0 .. OverflowCount - 1 /\ This \in CallRecord
        /\ call \in CallStates
    BY InvFacts, MyCall, FieldTypes
  <2>4. c \in CallRecord /\ c.kind = This.kind /\ c.queue = Q
    BY <2>3 DEF CallRecord, Q
  <2>5. call' = [call EXCEPT ![Me] = c]
    BY <1>6, <2>3 DEF This, CallStates
  <2>6. todo' = [todo EXCEPT ![Me] = s]
    BY <1>6 DEF Continue
  <2> HIDE DEF s, c
  <2>7. OpOf(s) \notin SuspSteps /\ OpOf(s) \notin TxSteps /\ "try" \notin TxSteps
        /\ OpOf(s) \in LoopOps
    BY <2>2 DEF SuspSteps, RxSteps, TxSteps, LoopOps
  <2>8. k'.held = k.held /\ k'.cpu = "task" /\ k'.current = k.current /\ k'.susp = 0
    BY <1>1, <1>3
  <2> QED  BY <1>1, <1>2, <1>4, <2>1, <2>2, <2>4, <2>5, <2>6, <2>7, <2>8, LoopNext
<1> QED  BY <1>5, <1>6 DEF TryLater

\* vTaskSuspendAll.
LEMMA SuspendStepKeeps ==
    ASSUME OnlyQueues, QueuesInv, Suspend
    PROVE  QueuesInv'
<1> DEFINE s == <<Do("lock")>> \o Rest
<1>1. Running("suspend") /\ k' = [k EXCEPT !.susp = @ + 1] /\ queue' = queue /\ call' = call
      /\ UNCHANGED <<value, previous, allocated, app>> /\ todo' = [todo EXCEPT ![Me] = s]
  BY DEF Suspend, Continue
<1>2. k.cpu = "task" /\ k.susp = 0
  BY <1>1, RunningSays DEF SuspSteps, RxSteps, TxSteps
<1>3. KernelOk(k) /\ k \in KernelState /\ call \in CallStates
  BY InvFacts
<1>4. k' \in KernelState /\ SameLists(k, k') /\ k'.prio = k.prio /\ k'.live = k.live
      /\ k'.top = k.top /\ k'.order = k.order /\ k'.current = k.current /\ k'.held = k.held
      /\ k'.cpu = k.cpu /\ k'.susp = 1
  <2>1. k' = [k EXCEPT !.susp = 1]
    BY <1>1, <1>2, <1>3 DEF KernelState
  <2>2. 1 \in Nat
    OBVIOUS
  <2>3. k' \in KernelState
    BY <1>3, <2>1, <2>2 DEF KernelState
  <2> QED  BY <1>3, <2>1, <2>3 DEF KernelState, SameLists
<1>5. Eases(k, k')
  BY <1>3, <1>4, FlagEases
<1>6. "suspend" \in LoopOps /\ "lock" \in LoopOps
  BY DEF LoopOps
<1>7. s \in Seq(Work) /\ InSequence(s) /\ OpOf(s) = "lock" /\ (Has(Rest, "count") => Has(s, "count"))
  BY <1>1, <1>6, LoopWork
<1>8. call' = [call EXCEPT ![Me] = This] /\ This \in CallRecord
  BY <1>1, <1>3, MyCall DEF This, CallStates
<1> HIDE DEF s
<1>9. OpOf(s) \in SuspSteps /\ OpOf(s) \notin TxSteps /\ "suspend" \notin TxSteps
      /\ OpOf(s) \in LoopOps /\ OpOf(s) \notin {"inherit", "place"}
  BY <1>7 DEF SuspSteps, RxSteps, TxSteps, LoopOps
<1> QED  BY <1>1, <1>2, <1>4, <1>5, <1>6, <1>7, <1>8, <1>9, LoopNext DEF Q

\* A step of the loop, the scheduler suspended and the queue locked, that
\* leaves the kernel alone.
LEMMA LockedStep ==
    ASSUME OnlyQueues, QueuesInv, NEW op \in {"timeOut", "test"}, Running(op),
           k' = k, queue' = queue, NEW s \in Seq(Work), todo' = [todo EXCEPT ![Me] = s],
           NEW c \in CallRecord, call' = [call EXCEPT ![Me] = c],
           UNCHANGED <<value, previous, allocated, app>>,
           InSequence(s), OpOf(s) \in {"test", "inherit", "place", "unlockTx"},
           Has(Rest, "count") => Has(s, "count"), c.kind = This.kind, c.queue = Q,
           OpOf(s) \in {"inherit", "place"} => Stock(queue, Q, SideOf(This.kind)) <= 0
    PROVE  QueuesInv'
<1>1. op \in LoopOps /\ op \in TxSteps /\ op \in SuspSteps /\ op # "try"
  BY DEF LoopOps, TxSteps, SuspSteps, RxSteps
<1>2. k.cpu = "task" /\ k.susp = 1
  BY <1>1, RunningSays
<1>3. OpOf(s) \in LoopOps \cup {"unlockTx"} /\ OpOf(s) \in TxSteps /\ OpOf(s) \in SuspSteps
  BY DEF LoopOps, TxSteps, SuspSteps, RxSteps
<1>4. Eases(k, k')
  BY InvFacts, EasesSame
<1>5. k'.held = k.held /\ k'.cpu = "task" /\ k'.current = k.current /\ k'.susp = 1
  BY <1>2
<1> QED  BY <1>1, <1>3, <1>4, <1>5, LoopNext

\* xTaskCheckForTimeOut.
LEMMA CheckForTimeOutKeeps ==
    ASSUME OnlyQueues, QueuesInv, CheckForTimeOut
    PROVE  QueuesInv'
<1>1. Running("timeOut") /\ k' = k /\ queue' = queue
      /\ UNCHANGED <<value, previous, allocated, app>>
  BY DEF CheckForTimeOut
<1>2. "timeOut" \in LoopOps /\ "test" \in LoopOps
  BY DEF LoopOps
<1>3. This \in CallRecord /\ call \in CallStates /\ Me \in Task
      /\ k.tick \in Tick /\ k.overflows \in 0 .. OverflowCount - 1
  BY InvFacts, MyCall, FieldTypes
<1>4. CASE /\ TimedOut(This)
           /\ call' = [call EXCEPT ![Me].ticks = 0]
           /\ Continue(UnlockAnd(<<Do("timedOut")>>))
  <2> DEFINE c == [This EXCEPT !.ticks = 0]
             s == UnlockAnd(<<Do("timedOut")>>)
  <2>1. 0 \in Tick
    BY TickFacts
  <2>2. c \in CallRecord /\ c.kind = This.kind /\ c.queue = Q /\ call' = [call EXCEPT ![Me] = c]
    BY <1>3, <1>4, <2>1 DEF CallRecord, CallStates, This, Q
  <2>3. s \in Seq(Work) /\ InSequence(s) /\ OpOf(s) = "unlockTx" /\ (Has(Rest, "count") => Has(s, "count"))
    BY <1>1, <1>2, UnlockWork
  <2>4. todo' = [todo EXCEPT ![Me] = s]
    BY <1>4 DEF Continue
  <2> HIDE DEF s, c
  <2> QED  BY <1>1, <2>2, <2>3, <2>4, LockedStep
<1>5. CASE /\ ~TimedOut(This)
           /\ call' = IF This.ticks = MaxDelay THEN call
                      ELSE [call EXCEPT ![Me].ticks = @ - Elapsed(This.entered, k.tick),
                                        ![Me].entered = k.tick, ![Me].overflow = k.overflows]
           /\ Continue(<<Do("test")>> \o Rest)
  <2> DEFINE left == This.ticks - Elapsed(This.entered, k.tick)
             c == IF This.ticks = MaxDelay THEN This
                  ELSE [This EXCEPT !.ticks = left, !.entered = k.tick, !.overflow = k.overflows]
             s == <<Do("test")>> \o Rest
  <2>1. This.ticks # MaxDelay => left \in Tick
    <3>1. This.ticks \in Tick /\ This.entered \in Tick
      BY <1>3 DEF CallRecord
    <3>2. This.ticks # MaxDelay => Elapsed(This.entered, k.tick) < This.ticks
      <4>1. Elapsed(This.entered, k.tick) \in Int /\ This.ticks \in Int
        BY <1>3, <3>1, TickAssumption DEF Elapsed, Tick
      <4> QED  BY <1>5, <4>1 DEF TimedOut, IsTimeOut
    <3>3. Elapsed(This.entered, k.tick) \in Nat
      BY <1>3, <3>1, TickAssumption DEF Elapsed, Tick
    <3> QED  BY <3>1, <3>2, <3>3, TickAssumption DEF Tick
  <2> HIDE DEF left
  <2>2. c \in CallRecord /\ c.kind = This.kind /\ c.queue = Q
    BY <1>3, <2>1 DEF CallRecord, Q
  <2>3. call' = [call EXCEPT ![Me] = c]
    BY <1>3, <1>5 DEF CallStates, This, left
  <2>4. s \in Seq(Work) /\ InSequence(s) /\ OpOf(s) = "test" /\ (Has(Rest, "count") => Has(s, "count"))
    BY <1>1, <1>2, LoopWork
  <2>5. todo' = [todo EXCEPT ![Me] = s]
    BY <1>5 DEF Continue
  <2> HIDE DEF s, c
  <2> QED  BY <1>1, <2>2, <2>3, <2>4, <2>5, LockedStep
<1> QED  BY <1>4, <1>5 DEF CheckForTimeOut

\* prvIsQueueFull and prvIsQueueEmpty.
LEMMA FullOrEmpty ==
    ASSUME OnlyQueues, QueuesInv, IF Sends THEN Full(Q) ELSE IsEmpty(Q)
    PROVE  Stock(queue, Q, SideOf(This.kind)) <= 0
<1>1. queue[Q].count \in Nat /\ Length[Q] \in Nat
  BY InvFacts, MyCall, SideNumbers DEF Side
<1>2. CASE Sends
  BY <1>1, <1>2 DEF Sends, SideOf, Stock, Full
<1>3. CASE ~Sends
  <2>1. SideOf(This.kind) = "receive" /\ queue[Q].count = 0
    BY <1>3 DEF Sends, SideOf, IsEmpty
  <2> QED  BY <1>1, <2>1 DEF Stock
<1> QED  BY <1>2, <1>3

\* The tests made while the queue is locked keep the invariant.
LEMMA TestKeeps ==
    ASSUME OnlyQueues, QueuesInv, Test \/ TestAgain
    PROVE  QueuesInv'
<1>1. Running("test") /\ k' = k /\ queue' = queue /\ call' = call
      /\ UNCHANGED <<value, previous, allocated, app>>
  BY DEF Test, TestAgain
<1>2. "test" \in LoopOps /\ "inherit" \in LoopOps /\ "place" \in LoopOps
  BY DEF LoopOps
<1>3. This \in CallRecord /\ call' = [call EXCEPT ![Me] = This]
  BY <1>1, InvFacts, MyCall DEF CallStates, This
<1>4. CASE Test
  <2>1. PICK o \in {"inherit", "place"} : Continue(<<Do(o)>> \o Rest)
    BY <1>4 DEF Test
  <2> DEFINE s == <<Do(o)>> \o Rest
  <2>2. s \in Seq(Work) /\ InSequence(s) /\ OpOf(s) = o /\ (Has(Rest, "count") => Has(s, "count"))
    BY <1>1, <1>2, LoopWork
  <2>3. todo' = [todo EXCEPT ![Me] = s]
    BY <2>1 DEF Continue
  <2>4. Stock(queue, Q, SideOf(This.kind)) <= 0
    BY <1>4, FullOrEmpty DEF Test
  <2> HIDE DEF s
  <2> QED  BY <1>1, <1>3, <2>2, <2>3, <2>4, LockedStep DEF Q
<1>5. CASE TestAgain
  <2> DEFINE s == UnlockAnd(<<Do("try")>>)
  <2>1. s \in Seq(Work) /\ InSequence(s) /\ OpOf(s) = "unlockTx" /\ (Has(Rest, "count") => Has(s, "count"))
    BY <1>1, <1>2, UnlockWork
  <2>2. todo' = [todo EXCEPT ![Me] = s]
    BY <1>5 DEF TestAgain, Continue
  <2> HIDE DEF s
  <2> QED  BY <1>1, <1>3, <2>1, <2>2, LockedStep DEF Q
<1> QED  BY <1>4, <1>5

\* xTaskPriorityInherit: the holder of the mutex, if there is one, may take the
\* priority of the running task.
LEMMA InheritStepKeeps ==
    ASSUME OnlyQueues, QueuesInv, Inherit
    PROVE  QueuesInv'
<1> DEFINE h == queue[Q].holder
           b == IF h = NULL THEN FALSE ELSE InheritanceOccurred(k, h)
           c == [This EXCEPT !.inherited = b]
           s == <<Do("place")>> \o Rest
<1>1. /\ Running("inherit") /\ queue' = queue /\ UNCHANGED <<value, previous, allocated, app>>
      /\ todo' = [todo EXCEPT ![Me] = s]
      /\ k' = IF h = NULL THEN k ELSE xTaskPriorityInherit(k, h)
      /\ call' = [call EXCEPT ![Me].inherited = b]
  BY DEF Inherit, Continue
<1>2. "inherit" \in LoopOps /\ "place" \in LoopOps /\ "inherit" \in SuspSteps
      /\ "place" \in SuspSteps /\ "inherit" \in TxSteps /\ "place" \in TxSteps
  BY DEF LoopOps, SuspSteps, RxSteps, TxSteps
<1>3. k.cpu = "task" /\ k.susp = 1
  BY <1>1, <1>2, RunningSays
<1>4. KernelOk(k) /\ call \in CallStates /\ Me \in Task /\ QInv(k, todo, queue, call)
  BY InvFacts
<1>5. This \in CallRecord /\ Q \in Queue
  BY MyCall
<1>6. h \in k.live \cup {NULL}
  BY <1>4, <1>5 DEF QInv, MutexInv
<1>7. Eases(k, k') /\ SameModes(k, k') /\ k'.current = k.current
  <2>1. CASE h = NULL
    <3>1. k' = k
      BY <1>1, <2>1
    <3> QED  BY <1>4, <3>1, EasesSame DEF SameModes
  <2>2. CASE h # NULL
    <3>1. h \in k.live /\ k' = xTaskPriorityInherit(k, h)
      BY <1>1, <1>6, <2>2
    <3> QED  BY <1>4, <3>1, InheritEases
  <2> QED  BY <2>1, <2>2
<1>8. b \in BOOLEAN
  <2>1. InheritanceOccurred(k, h) = TRUE \/ InheritanceOccurred(k, h) = FALSE
    BY DEF InheritanceOccurred
  <2> QED  BY <2>1, Zenon
<1> HIDE DEF b
<1>9. c \in CallRecord /\ c.kind = This.kind /\ c.queue = Q
  BY <1>5, <1>8 DEF CallRecord, Q
<1>10. call' = [call EXCEPT ![Me] = c]
  BY <1>1, <1>4 DEF CallStates, This
<1>11. s \in Seq(Work) /\ InSequence(s) /\ OpOf(s) = "place" /\ (Has(Rest, "count") => Has(s, "count"))
  BY <1>1, <1>2, LoopWork
<1> HIDE DEF s, c, h
<1>12. k'.held = k.held /\ k'.cpu = "task" /\ k'.susp = (IF OpOf(s) \in SuspSteps THEN 1 ELSE 0)
  BY <1>2, <1>3, <1>7, <1>11 DEF SameModes
<1> QED  BY <1>1, <1>2, <1>7, <1>9, <1>10, <1>11, <1>12, LoopNext

\* The end of the loop after a time-out.
LEMMA AfterTimeOutKeeps ==
    ASSUME OnlyQueues, QueuesInv, AfterTimeOut
    PROVE  QueuesInv'
<1>1. Running("timedOut") /\ k' = k /\ queue' = queue /\ UNCHANGED <<value, previous, allocated, app>>
  BY DEF AfterTimeOut
<1>2. "timedOut" \in LoopOps /\ "timedOut" \notin SuspSteps /\ "timedOut" \notin TxSteps
  BY DEF LoopOps, SuspSteps, RxSteps, TxSteps
<1>3. k.cpu = "task" /\ k.susp = 0
  BY <1>1, <1>2, RunningSays
<1>4. Eases(k, k') /\ call \in CallStates
  BY <1>1, InvFacts, EasesSame
<1>5. This \in CallRecord
  BY MyCall
<1>6. CASE todo' = [todo EXCEPT ![Me] = <<>>] /\ call' = [call EXCEPT ![Me] = NoCall]
  <2>1. k'.held = k.held /\ k'.cpu = "task" /\ k'.current = k.current /\ k'.susp = k.susp
    BY <1>1, <1>3
  <2> QED  BY <1>1, <1>4, <1>6, <2>1, LoopReturns
<1>7. ASSUME NEW o \in {"disinherit", "try"}, Continue(<<Do(o)>> \o Rest), call' = call
      PROVE  QueuesInv'
  <2> DEFINE s == <<Do(o)>> \o Rest
  <2>1. todo' = [todo EXCEPT ![Me] = s]
    BY <1>7 DEF Continue
  <2>2. o \in LoopOps /\ o \notin SuspSteps /\ o \notin TxSteps /\ o \notin {"inherit", "place"}
    BY DEF LoopOps, SuspSteps, RxSteps, TxSteps
  <2>3. s \in Seq(Work) /\ InSequence(s) /\ OpOf(s) = o /\ (Has(Rest, "count") => Has(s, "count"))
    BY <1>1, <1>2, <2>2, LoopWork
  <2>4. call' = [call EXCEPT ![Me] = This] /\ This.queue = Q
    BY <1>4, <1>7 DEF CallStates, This, Q
  <2> HIDE DEF s
  <2>5. k'.held = k.held /\ k'.cpu = "task" /\ k'.current = k.current
        /\ k'.susp = (IF OpOf(s) \in SuspSteps THEN 1 ELSE 0)
    BY <1>1, <1>3, <2>2, <2>3
  <2> QED  BY <1>1, <1>2, <1>4, <1>5, <2>1, <2>2, <2>3, <2>4, <2>5, LoopNext
<1> QED  BY <1>6, <1>7 DEF AfterTimeOut

\* vTaskPriorityDisinheritAfterTimeout, if the mutex has a holder.
LEMMA DisinheritStepKeeps ==
    ASSUME OnlyQueues, QueuesInv, DisinheritAfterTimeout
    PROVE  QueuesInv'
<1> DEFINE h == queue[Q].holder
           w == HighestWaitingPriority(Q)
<1>1. /\ Running("disinherit") /\ queue' = queue /\ UNCHANGED <<value, previous, allocated, app>>
      /\ todo' = [todo EXCEPT ![Me] = <<>>] /\ call' = [call EXCEPT ![Me] = NoCall]
      /\ k' = IF h = NULL THEN k ELSE vTaskPriorityDisinheritAfterTimeout(k, h, w)
  BY DEF DisinheritAfterTimeout
<1>2. KernelOk(k) /\ QInv(k, todo, queue, call) /\ k \in KernelState
  BY InvFacts
<1>3. Q \in Queue
  BY MyCall
<1>4. h \in k.live \cup {NULL}
  BY <1>2, <1>3 DEF QInv, MutexInv
<1>5. w \in Priority
  <2> DEFINE e == xTasksWaitingToReceive(Q)
  <2>1. e \in EventLists
    BY <1>3, WaitListsAreLists
  <2>2. k.event[e] \in Seq(Task)
    BY <1>2, <2>1, FieldTypes
  <2>3. k.event[e] # <<>> => Head(k.event[e]) \in Task
    BY <2>2, HeadTailProperties
  <2>4. 0 \in Priority /\ MaxPriority \in Nat
    BY KernelAssumption DEF Priority
  <2>5. \A t \in Task : MaxPriority + 1 - k.order[t] \in Priority
    BY <1>2, <2>4 DEF KernelOk, Priority
  <2> HIDE DEF e
  <2>6. w = IF k.event[e] = <<>> THEN 0 ELSE MaxPriority + 1 - k.order[Head(k.event[e])]
    BY DEF HighestWaitingPriority, e
  <2> HIDE DEF w
  <2> QED  BY <2>3, <2>4, <2>5, <2>6
<1> HIDE DEF w
<1>6. Eases(k, k') /\ SameModes(k, k') /\ k'.current = k.current
  <2>1. CASE h = NULL
    <3>1. k' = k
      BY <1>1, <2>1
    <3> QED  BY <1>2, <3>1, EasesSame DEF SameModes
  <2>2. CASE h # NULL
    <3>1. h \in k.live /\ k' = vTaskPriorityDisinheritAfterTimeout(k, h, w)
      BY <1>1, <1>4, <2>2
    <3> QED  BY <1>2, <1>5, <3>1, AfterTimeoutEases
  <2> QED  BY <2>1, <2>2
<1> HIDE DEF h
<1>7. k.cpu = "task"
  BY <1>1, RunningSays
<1>8. k'.held = k.held /\ k'.cpu = "task" /\ k'.susp = k.susp
  BY <1>6, <1>7 DEF SameModes
<1> QED  BY <1>1, <1>6, <1>8, LoopReturns

-----------------------------------------------------------------------------
(* Calls begin. *)

\* The scheduler is not suspended: no queue is locked, and no task is about to
\* wait for one.
LEMMA NothingLocked ==
    ASSUME OnlyQueues, QueuesInv, k.cpu = "task", OpOf(todo[Me]) \notin SuspSteps
    PROVE  /\ k.susp = 0 /\ \A u \in Task : OpOf(todo[u]) \notin SuspSteps
           /\ \A q \in Queue : queue[q].tx = queueUNLOCKED /\ queue[q].rx = queueUNLOCKED
           /\ \A q \in Queue, s \in Side, u \in Task : ~WillWait(todo, call, u, q, s)
<1>1. QInv(k, todo, queue, call) /\ Me \in Task /\ k.current = Me
  BY InvFacts
<1>2. k.susp = 0 /\ \A u \in Task : OpOf(todo[u]) \notin SuspSteps
  BY <1>1 DEF QInv, Suspends
<1>3. \A op : op \notin SuspSteps => op \notin TxSteps /\ op \notin RxSteps /\ op \notin {"inherit", "place"}
  BY DEF SuspSteps, RxSteps, TxSteps
<1>4. \A q \in Queue : queue[q].tx = queueUNLOCKED /\ queue[q].rx = queueUNLOCKED
  BY <1>1, <1>2, <1>3 DEF QInv, LockInv, LocksTx, LocksRx
<1>5. \A q \in Queue, s \in Side, u \in Task : ~WillWait(todo, call, u, q, s)
  BY <1>2, <1>3 DEF WillWait
<1> QED  BY <1>2, <1>4, <1>5

\* A task that may call the API is in no call: it is ready and waits for
\* nothing.
LEMMA BetweenCalls ==
    ASSUME OnlyQueues, QueuesInv, NEW f, CallsRunning(f)
    PROVE  /\ f \in QueueCalls /\ f \in App.api[Me] /\ Me # Idle /\ k.cpu = "task" /\ k.susp = 0
           /\ todo[Me] = <<>> /\ OpOf(todo[Me]) = "none" /\ \A op : ~Has(todo[Me], op)
           /\ IsReady(k, Me) /\ \A e \in EventLists : ~Occurs(k.event[e], Me)
           /\ \A q \in Queue : ~Uncounted(queue, q, Me)
           /\ \A q \in Queue : queue[q].tx = queueUNLOCKED /\ queue[q].rx = queueUNLOCKED
           /\ \A q \in Queue, s \in Side, u \in Task : ~WillWait(todo, call, u, q, s)
           /\ OpOf(todo[Me]) \notin SuspSteps
<1>1. f \in App.api[Me] /\ k.cpu = "task" /\ todo[Me] = <<>> /\ k.susp = 0
  BY DEF CallsRunning, Calls
<1>2. QInv(k, todo, queue, call) /\ Me \in Task /\ k.current = Me /\ app \in DOMAIN Applications
      /\ KernelOk(k)
  BY InvFacts
<1>3. f \in QueueCalls
  BY <1>1, <1>2 DEF OnlyQueues, App
<1>4. App.api[Idle] = {}
  BY <1>2, TasksAssumption DEF IsApplication, App
<1>5. Me # Idle
  BY <1>1, <1>4
<1>6. OpOf(todo[Me]) = "none" /\ \A op : ~Has(todo[Me], op)
  BY <1>1, NothingToDo
<1>7. IsReady(k, Me)
  BY <1>1, <1>2, <1>6 DEF QInv, Runs
<1>8. \A e \in EventLists : ~Occurs(k.event[e], Me)
  BY <1>2, <1>7 DEF KernelOk
<1>9. \A q \in Queue : ~Uncounted(queue, q, Me)
  BY <1>6, MyCall DEF CountsOrGives
<1>10. OpOf(todo[Me]) \notin SuspSteps
  BY <1>6 DEF SuspSteps, RxSteps, TxSteps
<1>11. /\ \A q \in Queue : queue[q].tx = queueUNLOCKED /\ queue[q].rx = queueUNLOCKED
       /\ \A q \in Queue, s \in Side, u \in Task : ~WillWait(todo, call, u, q, s)
  BY <1>1, <1>10, NothingLocked
<1> QED  BY <1>1, <1>3, <1>5, <1>6, <1>7, <1>8, <1>9, <1>10, <1>11

\* The work and the parameters of a call that begins.
TryThen(r) == <<Do("try")>> \o r
CallOf(kind, q, n) == [NoCall EXCEPT !.kind = kind, !.queue = q, !.ticks = n]

Begins(f, kind, q, n, r) ==
    /\ kind \in CallKinds /\ q \in Queue /\ n \in Tick /\ r \in {<<>>, <<Do("count")>>}
    /\ Begin(f, kind, q, n, r)

\* What the first step of a call does.
LEMMA BeginFacts ==
    ASSUME OnlyQueues, QueuesInv, NEW f, NEW kind, NEW q, NEW n, NEW r, Begins(f, kind, q, n, r)
    PROVE  LET s == TryThen(r)
               c == CallOf(kind, q, n)
           IN  /\ CallsRunning(f) /\ k' = k /\ UNCHANGED <<value, previous, allocated, app>>
               /\ todo' = [todo EXCEPT ![Me] = s] /\ call' = [call EXCEPT ![Me] = c]
               /\ s \in Seq(Work) /\ InSequence(s) /\ OpOf(s) = "try" /\ Has(s, "try")
               /\ r # <<>> => Has(s, "count")
               /\ c \in CallRecord /\ c.kind = kind /\ c.queue = q
<1>1. /\ CallsRunning(f) /\ k' = k /\ UNCHANGED <<value, previous, allocated, app>>
      /\ todo' = [todo EXCEPT ![Me] = TryThen(r)]
      /\ call' = [call EXCEPT ![Me] = CallOf(kind, q, n)]
  BY DEF Begins, Begin, Continue, TryThen, CallOf
<1>2. <<>> \in Seq(Work) /\ InSequence(<<>>) /\ OpOf(<<>>) = "none"
  BY NothingToDo
<1>3. "count" \in Ops /\ "count" \in CallOps
  BY CallOpsAreOps DEF CallOps
<1>4. Do("count") \in Work /\ Do("count").op = "count"
  BY <1>3, ItemFacts
<1>5. <<Do("count")>> \in Seq(Work) /\ InSequence(<<Do("count")>>) /\ OpOf(<<Do("count")>>) = "count"
      /\ Has(<<Do("count")>>, "count")
  <2>1. "none" \in NextOps("count")
    BY DEF NextOps
  <2> DEFINE x == Do("count")
             z == <<>>
  <2>2. x \in Work /\ x.op = "count" /\ z \in Seq(Work) /\ InSequence(z) /\ OpOf(z) = "none"
    BY <1>2, <1>4
  <2> HIDE DEF x, z
  <2>5. LET s == <<x>> \o z
        IN s \in Seq(Work) /\ InSequence(s) /\ OpOf(s) = "count" /\ Has(s, "count")
    BY <1>3, <2>1, <2>2, OrderlyCons
  <2>3. <<Do("count")>> \in Seq(Work)
    BY <1>4
  <2>4. <<Do("count")>> \o <<>> = <<Do("count")>>
    BY <2>3, ConcatEmptySeq
  <2> QED  BY <2>4, <2>5 DEF x, z
<1>6. r \in Seq(Work) /\ InSequence(r) /\ OpOf(r) \in {"none", "count"}
      /\ (r # <<>> => Has(r, "count"))
  BY <1>2, <1>5 DEF Begins
<1>7. "try" \in LoopOps
  BY DEF LoopOps
<1>8. LET s == TryThen(r)
      IN  /\ s \in Seq(Work) /\ InSequence(s) /\ OpOf(s) = "try" /\ Has(s, "try")
          /\ r # <<>> => Has(s, "count")
  BY <1>6, <1>7, LoopGoesOn DEF TryThen
<1>9. LET c == CallOf(kind, q, n)
      IN  c \in CallRecord /\ c.kind = kind /\ c.queue = q
  BY NothingToDo DEF CallRecord, CallOf, Begins
<1> QED  BY <1>1, <1>8, <1>9

\* A call that changes no queue begins.
LEMMA BeginStepKeeps ==
    ASSUME OnlyQueues, QueuesInv, NEW f, NEW kind, NEW q, NEW n, NEW r, Begins(f, kind, q, n, r),
           queue' = queue,
           kind \in {"overwrite", "receive", "peek"} => Kind[q] = "queue",
           kind = "send" /\ IsMutex(q) => queue[q].holder = Me /\ queue[q].calls = 0,
           kind = "take" /\ Kind[q] = "recursive" => r # <<>>
    PROVE  QueuesInv'
<1> DEFINE s == TryThen(r)
           c == CallOf(kind, q, n)
<1>1. /\ CallsRunning(f) /\ k' = k /\ UNCHANGED <<value, previous, allocated, app>>
      /\ todo' = [todo EXCEPT ![Me] = s] /\ call' = [call EXCEPT ![Me] = c]
      /\ s \in Seq(Work) /\ InSequence(s) /\ OpOf(s) = "try" /\ Has(s, "try")
      /\ r # <<>> => Has(s, "count")
      /\ c \in CallRecord /\ c.kind = kind /\ c.queue = q
  BY BeginFacts
<1> HIDE DEF s, c
<1>2. /\ Me # Idle /\ k.cpu = "task" /\ k.susp = 0
      /\ OpOf(todo[Me]) = "none" /\ \A op : ~Has(todo[Me], op)
      /\ IsReady(k, Me) /\ \A e \in EventLists : ~Occurs(k.event[e], Me)
      /\ \A p \in Queue : ~Uncounted(queue, p, Me)
  BY <1>1, BetweenCalls
<1>3. /\ call \in CallStates /\ todo \in [Task -> Seq(Work)]
      /\ QInv(k, todo, queue, call) /\ Me \in Task /\ k.current = Me /\ KernelOk(k)
  BY InvFacts
<1>4. todo'[Me] = s /\ OthersSame(todo, todo', Me) /\ call'[Me] = c
  BY <1>1, <1>3 DEF OthersSame, CallStates
<1>5. Lets(k, k') /\ k'.held = k.held
  BY <1>1, <1>3, EasesSame, EasesLets
<1>6. WorkFits(Me, s)
  BY <1>1, <1>2 DEF WorkFits
<1>7. "try" \notin SuspSteps /\ "try" \notin RxSteps /\ "try" \notin TxSteps
      /\ "none" \notin RxSteps /\ "none" \notin TxSteps
  BY DEF SuspSteps, RxSteps, TxSteps
<1>8. Suspends(k', todo')
  <2>1. k'.current = k.current /\ k'.cpu = "task"
        /\ k'.susp = (IF OpOf(todo'[k.current]) \in SuspSteps THEN 1 ELSE 0)
    BY <1>1, <1>2, <1>3, <1>4, <1>7
  <2> QED  BY <1>3, <1>4, <2>1, SuspendsGoesOn DEF QInv
<1>9. Runs(k', todo')
  BY <1>1, <1>2, <1>3 DEF Runs
<1>10. StaysQuiet(todo, queue, call, k', todo', call', Me)
  <2>1. \A p \in Queue : /\ LocksTx(todo', call', Me, p) <=> LocksTx(todo, call, Me, p)
                         /\ LocksRx(todo', call', Me, p) <=> LocksRx(todo, call, Me, p)
    BY <1>1, <1>2, <1>4, <1>7 DEF LocksTx, LocksRx
  <2>2. \A p \in Queue, d \in Side : /\ ~WillWait(todo', call', Me, p, d)
                                     /\ ~WillTry(todo, call, Me, p, d)
    BY <1>1, <1>2, <1>4 DEF WillWait, WillTry
  <2>3. \A p \in Queue, d \in Side : ~Queued(k', Me, p, d)
    BY <1>1, <1>2, WaitListsAreLists DEF Queued
  <2>4. CallOk(Me, s, c, queue)
    BY <1>1 DEF CallOk
  <2> QED  BY <1>2, <1>4, <2>1, <2>2, <2>3, <2>4 DEF StaysQuiet
<1> QED  BY <1>1, <1>5, <1>6, <1>8, <1>9, <1>10, QuietNext

\* What an application passes to a call.
LEMMA CallArguments ==
    ASSUME OnlyQueues, QueuesInv
    PROVE  /\ App.queues \subseteq Queue /\ App.ticks[Me] \subseteq Tick /\ 0 \in Tick
           /\ \A q : SendTicks(q) \subseteq Tick
<1>1. app \in DOMAIN Applications /\ Me \in Task
  BY InvFacts
<1>2. App.queues \subseteq Queue
  BY <1>1, QueuesAssumption DEF App
<1>3. App.ticks[Me] \subseteq Tick
  BY <1>1, TasksAssumption DEF IsApplication, App
<1>4. 0 \in Tick
  BY TickFacts
<1> QED  BY <1>2, <1>3, <1>4 DEF SendTicks

\* xQueueGenericSend.
LEMMA SendCallKeeps ==
    ASSUME OnlyQueues, QueuesInv, NEW q \in Queue, NEW n \in Tick, NEW b \in BOOLEAN,
           xQueueGenericSend(q, n, b)
    PROVE  QueuesInv'
<1> DEFINE f == IF b THEN "xQueueOverwrite" ELSE "xQueueSend"
           kind == IF b THEN "overwrite" ELSE "send"
<1>1. /\ Kind[q] # "recursive" /\ (IsMutex(q) => queue[q].holder = Me)
      /\ b => Kind[q] = "queue"
      /\ Begin(f, kind, q, n, <<>>) /\ queue' = queue
  BY DEF xQueueGenericSend
<1>2. kind \in CallKinds /\ (kind = "overwrite" => b) /\ kind \notin {"receive", "peek", "take"}
  BY DEF CallKinds
<1>3. Begins(f, kind, q, n, <<>>)
  BY <1>1, <1>2 DEF Begins
<1>4. kind = "send" /\ IsMutex(q) => queue[q].holder = Me /\ queue[q].calls = 0
  BY <1>1, InvFacts DEF QInv, MutexInv
<1> HIDE DEF f, kind
<1> QED  BY <1>1, <1>2, <1>3, <1>4, BeginStepKeeps

\* xQueueReceive, xQueuePeek, xQueueSemaphoreTake and xQueueTakeMutexRecursive
\* of a mutex that the caller does not hold.
LEMMA ReceiveCallKeeps ==
    ASSUME OnlyQueues, QueuesInv, NEW q \in Queue, NEW n \in Tick,
           \/ xQueueReceive(q, n) \/ xQueuePeek(q, n) \/ xQueueSemaphoreTake(q, n)
           \/ queue[q].holder # Me /\ xQueueTakeMutexRecursive(q, n)
    PROVE  QueuesInv'
<1>1. ASSUME NEW f, NEW kind \in {"receive", "peek", "take"}, NEW r \in {<<>>, <<Do("count")>>},
             Begin(f, kind, q, n, r), queue' = queue, kind # "take" => Kind[q] = "queue",
             kind = "take" /\ Kind[q] = "recursive" => r # <<>>
      PROVE  QueuesInv'
  <2>1. kind \in CallKinds /\ kind \notin {"overwrite", "send"}
    BY DEF CallKinds
  <2>2. Begins(f, kind, q, n, r)
    BY <1>1, <2>1 DEF Begins
  <2> QED  BY <1>1, <2>1, <2>2, BeginStepKeeps
<1>2. CASE xQueueReceive(q, n)
  BY <1>1, <1>2 DEF xQueueReceive
<1>3. CASE xQueuePeek(q, n)
  BY <1>1, <1>3 DEF xQueuePeek
<1>4. CASE xQueueSemaphoreTake(q, n)
  BY <1>1, <1>4 DEF xQueueSemaphoreTake
<1>5. CASE queue[q].holder # Me /\ xQueueTakeMutexRecursive(q, n)
  <2> DEFINE r == <<Do("count")>>
  <2>1. r # <<>> /\ r \in {<<>>, <<Do("count")>>}
    OBVIOUS
  <2>2. Begin("xQueueTakeMutexRecursive", "take", q, n, r) /\ queue' = queue
    BY <1>5 DEF xQueueTakeMutexRecursive
  <2> HIDE DEF r
  <2> QED  BY <1>1, <2>1, <2>2
<1> QED  BY <1>2, <1>3, <1>4, <1>5


-----------------------------------------------------------------------------
(* Steps of the kernel: the tick, xTaskResumeAll, yields and delays. *)

\* What the processor does, and the counts it keeps.
InMode(kk, m) == [kk EXCEPT !.cpu = m]
Pending(kk, p) == [kk EXCEPT !.pended = p]
Holding(kk, n, m) == [kk EXCEPT !.susp = n, !.cpu = m]
Replayed(kk, p, y) == [kk EXCEPT !.cpu = "replay", !.pended = p, !.yield = y]

SameRunner(kk, r) == r.current = kk.current /\ r.held = kk.held /\ r.event = kk.event

\* A change of the processor's mode moves no task.
LEMMA ModeEases ==
    ASSUME NEW kk, KernelOk(kk), NEW m \in CpuModes
    PROVE  LET r == InMode(kk, m)
           IN  /\ Eases(kk, r) /\ SameRunner(kk, r) /\ r.cpu = m /\ r.susp = kk.susp
               /\ r.pended = kk.pended
<1> DEFINE r == InMode(kk, m)
<1>1. kk \in KernelState
  BY KernelOkLive
<1>2. /\ r \in KernelState /\ SameLists(kk, r) /\ r.prio = kk.prio /\ r.live = kk.live
      /\ r.top = kk.top /\ r.order = kk.order /\ SameRunner(kk, r) /\ r.cpu = m
      /\ r.susp = kk.susp /\ r.pended = kk.pended
  BY <1>1 DEF KernelState, SameLists, InMode, SameRunner
<1> QED  BY <1>2, FlagEases DEF SameRunner

\* A tick is pended.
LEMMA PendingEases ==
    ASSUME NEW kk, KernelOk(kk), NEW p \in Nat
    PROVE  LET r == Pending(kk, p)
           IN  /\ Eases(kk, r) /\ SameRunner(kk, r) /\ r.cpu = kk.cpu /\ r.susp = kk.susp
               /\ r.pended = p
<1> DEFINE r == Pending(kk, p)
<1>1. kk \in KernelState
  BY KernelOkLive
<1>2. /\ r \in KernelState /\ SameLists(kk, r) /\ r.prio = kk.prio /\ r.live = kk.live
      /\ r.top = kk.top /\ r.order = kk.order /\ SameRunner(kk, r) /\ r.cpu = kk.cpu
      /\ r.susp = kk.susp /\ r.pended = p
  BY <1>1 DEF KernelState, SameLists, Pending, SameRunner
<1> QED  BY <1>2, FlagEases DEF SameRunner

\* The scheduler is suspended or resumed.
LEMMA HoldingEases ==
    ASSUME NEW kk, KernelOk(kk), NEW n \in Nat, NEW m \in CpuModes
    PROVE  LET r == Holding(kk, n, m)
           IN  /\ Eases(kk, r) /\ SameRunner(kk, r) /\ r.cpu = m /\ r.susp = n
               /\ r.pended = kk.pended
<1> DEFINE r == Holding(kk, n, m)
<1>1. kk \in KernelState
  BY KernelOkLive
<1>2. /\ r \in KernelState /\ SameLists(kk, r) /\ r.prio = kk.prio /\ r.live = kk.live
      /\ r.top = kk.top /\ r.order = kk.order /\ SameRunner(kk, r) /\ r.cpu = m
      /\ r.susp = n /\ r.pended = kk.pended
  BY <1>1 DEF KernelState, SameLists, Holding, SameRunner
<1> QED  BY <1>2, FlagEases DEF SameRunner

\* A pended tick has been made up for.
LEMMA ReplayedEases ==
    ASSUME NEW kk, KernelOk(kk), NEW p \in Nat, NEW y \in BOOLEAN
    PROVE  LET r == Replayed(kk, p, y)
           IN  /\ Eases(kk, r) /\ SameRunner(kk, r) /\ r.cpu = "replay" /\ r.susp = kk.susp
               /\ r.pended = p
<1> DEFINE r == Replayed(kk, p, y)
<1>1. kk \in KernelState /\ "replay" \in CpuModes
  BY KernelOkLive DEF CpuModes
<1>2. /\ r \in KernelState /\ SameLists(kk, r) /\ r.prio = kk.prio /\ r.live = kk.live
      /\ r.top = kk.top /\ r.order = kk.order /\ SameRunner(kk, r) /\ r.cpu = "replay"
      /\ r.susp = kk.susp /\ r.pended = p
  BY <1>1 DEF KernelState, SameLists, Replayed, SameRunner
<1> QED  BY <1>2, FlagEases DEF SameRunner

\* A step of the kernel, in terms of the variables.
LEMMA KernelNext ==
    ASSUME OnlyQueues, QueuesInv, Lets(k, k'), k'.held = k.held,
           NEW s \in Seq(Work), todo' = [todo EXCEPT ![Me] = s],
           UNCHANGED <<queue, call, value, previous, allocated, app>>,
           WorkFits(Me, s), Suspends(k', todo'), Runs(k', todo'), PassesBy(todo[Me], s)
    PROVE  QueuesInv'
<1>1. /\ queue \in QueueStates /\ call \in CallStates /\ todo \in [Task -> Seq(Work)]
      /\ QInv(k, todo, queue, call) /\ Me \in Task /\ k.current = Me
  BY InvFacts
<1>2. todo' \in [Task -> Seq(Work)] /\ todo'[Me] = s /\ OthersSame(todo, todo', Me)
  BY <1>1 DEF OthersSame
<1>3. QInv(k', todo', queue, call)
  BY <1>1, <1>2, KernelStepKeeps
<1>4. k' \in KernelState
  BY DEF Lets, KernelOk, Sound
<1>5. queue' = queue /\ call' = call
  OBVIOUS
<1>6. QueuesTypeOK'
  <2>1. queue' \in QueueStates /\ call' \in CallStates
    BY <1>1, <1>5
  <2> QED  BY <1>2, <1>4, <2>1, TypesNext DEF QueuesInv
<1>7. QInv(k', todo', queue', call')
  BY <1>3, <1>5
<1> QED  BY <1>6, <1>7 DEF QueuesInv

\* One that leaves the work of the tasks alone.
LEMMA KernelOnly ==
    ASSUME OnlyQueues, QueuesInv, Lets(k, k'), k'.held = k.held, todo' = todo,
           UNCHANGED <<queue, call, value, previous, allocated, app>>,
           Suspends(k', todo), Runs(k', todo)
    PROVE  QueuesInv'
<1>1. /\ todo \in [Task -> Seq(Work)] /\ QInv(k, todo, queue, call) /\ Me \in Task
  BY InvFacts
<1>2. todo' = [todo EXCEPT ![Me] = todo[Me]] /\ todo[Me] \in Seq(Work)
  BY <1>1
<1>3. WorkFits(Me, todo[Me])
  BY <1>1 DEF QInv, WorkOk, WorkFits
<1>4. PassesBy(todo[Me], todo[Me])
  BY DEF PassesBy
<1>5. Suspends(k', todo') /\ Runs(k', todo')
  OBVIOUS
<1> QED  BY <1>2, <1>3, <1>4, <1>5, KernelNext

\* One after which the same task runs, in the same mode.
LEMMA KernelStays ==
    ASSUME OnlyQueues, QueuesInv, Eases(k, k'), k'.held = k.held, todo' = todo,
           k'.current = k.current, k'.susp = k.susp,
           k'.cpu = k.cpu \/ (k.cpu \notin {"task", "tick"} /\ k'.cpu \notin {"task", "tick"}),
           k'.cpu = "replayTick" => k'.pended > 0,
           UNCHANGED <<queue, call, value, previous, allocated, app>>
    PROVE  QueuesInv'
<1>1. QInv(k, todo, queue, call) /\ k.current \in Task
  BY InvFacts
<1>2. Lets(k, k')
  BY EasesLets
<1>3. Suspends(k', todo)
  BY <1>1 DEF QInv, Suspends
<1>4. Runs(k', todo)
  BY <1>1 DEF QInv, Runs, Eases
<1> QED  BY <1>2, <1>3, <1>4, KernelOnly

\* One after which another task may run.
LEMMA KernelSwitches ==
    ASSUME OnlyQueues, QueuesInv, Eases(k, k'), k'.held = k.held,
           IsReady(k', k'.current), k'.cpu = "task", k'.susp = 0,
           NEW s \in Seq(Work), todo' = [todo EXCEPT ![Me] = s], OpOf(s) \notin SuspSteps,
           WorkFits(Me, s), PassesBy(todo[Me], s),
           UNCHANGED <<queue, call, value, previous, allocated, app>>
    PROVE  QueuesInv'
<1>1. /\ QInv(k, todo, queue, call) /\ Me \in Task /\ k.current = Me
      /\ todo \in [Task -> Seq(Work)]
  BY InvFacts
<1>2. todo'[Me] = s /\ OthersSame(todo, todo', Me)
  BY <1>1 DEF OthersSame
<1>3. Lets(k, k')
  BY EasesLets
<1>4. k'.current \in Task
  BY KernelOkLive DEF Eases
<1>5. Suspends(k', todo')
  BY <1>1, <1>2, <1>4, SuspendsSwitches DEF QInv
<1>6. Runs(k', todo')
  BY DEF Runs
<1> QED  BY <1>1, <1>3, <1>5, <1>6, KernelNext

\* The tick interrupt.
LEMMA TickArrives ==
    ASSUME OnlyQueues, QueuesInv, TickInterrupt, UNCHANGED <<queue, call>>
    PROVE  QueuesInv'
<1>1. k.cpu = "task" /\ todo' = todo /\ UNCHANGED <<value, previous, allocated, app>>
  BY DEF TickInterrupt, InterruptsOn
<1>2. /\ QInv(k, todo, queue, call) /\ Me \in Task /\ k.current = Me /\ KernelOk(k)
      /\ k \in KernelState /\ k.susp \in Nat /\ k.pended \in Nat
  BY InvFacts, FieldTypes
<1>3. "tick" \in CpuModes /\ FALSE \in BOOLEAN /\ 0 \in Nat
  BY DEF CpuModes
<1>4. CASE k.susp = 0 /\ k' = [IncrementTick(k) EXCEPT !.cpu = "tick"]
  <2> DEFINE r == IncrementTick(k)
  <2>1. Eases(k, r) /\ SameModes(k, r) /\ r.current = k.current
    BY <1>2, TickEases
  <2> HIDE DEF r
  <2>2. k' = InMode(r, "tick")
    BY <1>4 DEF r, InMode
  <2>3. KernelOk(r)
    BY <2>1 DEF Eases
  <2>4. Eases(r, k') /\ SameRunner(r, k') /\ k'.cpu = "tick" /\ k'.susp = r.susp
    BY <1>3, <2>2, <2>3, ModeEases
  <2>5. Lets(k, k') /\ k'.held = k.held
    BY <2>1, <2>4, EasesTwice, EasesLets DEF SameModes, SameRunner
  <2>6. Suspends(k', todo)
    BY <1>1, <1>2, <1>4, <2>1, <2>4 DEF QInv, Suspends, SameModes, SameRunner
  <2>7. Runs(k', todo)
    BY <2>4 DEF Runs
  <2> QED  BY <1>1, <2>5, <2>6, <2>7, KernelOnly
<1>5. CASE k.susp # 0 /\ k' = vTaskSwitchContext([k EXCEPT !.pended = @ + 1])
  <2> DEFINE p == k.pended + 1
             r == Pending(k, p)
  <2>1. p \in Nat
    BY <1>2
  <2>2. k' = vTaskSwitchContext(r)
    BY <1>5 DEF Pending
  <2> HIDE DEF p
  <2>3. Eases(k, r) /\ SameRunner(k, r) /\ r.susp = k.susp /\ r.cpu = k.cpu
    BY <1>2, <2>1, PendingEases
  <2> HIDE DEF r
  <2>4. Eases(k, r) /\ r.current = k.current /\ r.held = k.held /\ r.susp = k.susp /\ r.cpu = k.cpu
    BY <2>3 DEF SameRunner
  <2>5. Eases(r, k') /\ SameModes(r, k') /\ k'.current = r.current
    BY <1>5, <2>2, <2>4, SwitchEases DEF Eases
  <2>6. Eases(k, k') /\ SameModes(k, k') /\ k'.current = k.current
    BY <2>4, <2>5, EasesTwice DEF SameModes
  <2>7. k'.cpu # "replayTick"
    BY <1>1, <2>6 DEF SameModes
  <2> QED  BY <1>1, <2>6, <2>7, KernelStays DEF SameModes
<1> QED  BY <1>4, <1>5 DEF TickInterrupt

\* Its loop.
LEMMA TickLoops ==
    ASSUME OnlyQueues, QueuesInv, TickUnblock \/ TickEnd, UNCHANGED <<queue, call>>
    PROVE  QueuesInv'
<1>1. k.cpu = "tick" /\ todo' = todo /\ UNCHANGED <<value, previous, allocated, app>>
  BY DEF TickUnblock, TickEnd
<1>2. /\ QInv(k, todo, queue, call) /\ Me \in Task /\ k.current = Me /\ KernelOk(k)
      /\ todo \in [Task -> Seq(Work)]
  BY InvFacts
<1>3. CASE TickUnblock
  <2>1. ~Empty(k, Delayed) /\ k' = UnblockHead(k)
    BY <1>3 DEF TickUnblock, TickIsOver
  <2>2. Eases(k, k') /\ SameModes(k, k') /\ k'.current = k.current
    BY <1>2, <2>1, UnblockHeadEases
  <2>3. k'.cpu # "replayTick"
    BY <1>1, <2>2 DEF SameModes
  <2> QED  BY <1>1, <2>2, <2>3, KernelStays DEF SameModes
<1>4. CASE TickEnd
  <2> DEFINE r1 == AfterTickLoop(k)
             r == vTaskSwitchContext(r1)
  <2>1. Eases(k, r1) /\ SameModes(k, r1)
    BY <1>2, LoopEndEases
  <2>2. k.susp = 0 /\ OpOf(todo[Me]) \notin SuspSteps
    BY <1>1, <1>2 DEF QInv, Suspends
  <2>3. k' = InMode(r, "task")
    BY <1>4 DEF TickEnd, InMode
  <2> HIDE DEF r1
  <2>4. Eases(r1, r) /\ SameModes(r1, r) /\ IsReady(r, r.current)
    BY <2>1, <2>2, SwitchEases DEF Eases, SameModes
  <2> HIDE DEF r
  <2>5. "task" \in CpuModes
    BY DEF CpuModes
  <2>6. KernelOk(r)
    BY <2>4 DEF Eases
  <2>7. Eases(r, k') /\ k'.current = r.current /\ k'.held = r.held /\ k'.cpu = "task" /\ k'.susp = r.susp
    BY <2>3, <2>5, <2>6, ModeEases DEF SameRunner
  <2>8. Eases(k, k')
    BY <2>1, <2>4, <2>7, EasesTwice
  <2>9. IsReady(k', k'.current) /\ k'.susp = 0 /\ k'.held = k.held
    <3>1. r.current \in Task
      BY <2>4, KernelOkLive DEF Eases
    <3> QED  BY <2>1, <2>2, <2>4, <2>7, <3>1 DEF SameModes, Eases
  <2>10. todo' = [todo EXCEPT ![Me] = todo[Me]] /\ todo[Me] \in Seq(Work)
    BY <1>1, <1>2
  <2>11. WorkFits(Me, todo[Me]) /\ PassesBy(todo[Me], todo[Me])
    BY <1>2 DEF QInv, WorkOk, WorkFits, PassesBy
  <2> QED  BY <1>1, <2>2, <2>7, <2>8, <2>9, <2>10, <2>11, KernelSwitches
<1> QED  BY <1>3, <1>4

\* xTaskResumeAll, but for its last step.
LEMMA ResumeAllLoops ==
    ASSUME OnlyQueues, QueuesInv, UNCHANGED <<queue, call>>,
           ResumeAll \/ DrainPending \/ DrainEnd \/ ReplayTick \/ ReplayUnblock \/ ReplayTickEnd
    PROVE  QueuesInv'
<1>1. UNCHANGED <<value, previous, allocated, app>>
  BY DEF ResumeAll, DrainPending, DrainEnd, ReplayTick, ReplayUnblock, ReplayTickEnd
<1>2. /\ QInv(k, todo, queue, call) /\ Me \in Task /\ k.current = Me /\ KernelOk(k)
      /\ k \in KernelState /\ k.susp \in Nat /\ k.pended \in Nat /\ k.yield \in BOOLEAN
  BY InvFacts, FieldTypes
<1>3. FALSE \in BOOLEAN /\ 0 \in Nat /\ \A m \in {"drain", "drainMore", "replay", "replayTick"} : m \in CpuModes
  BY DEF CpuModes
<1>4. CASE ResumeAll
  <2>1. Running("resumeAll") /\ "resumeAll" \in SuspSteps
    BY <1>4 DEF ResumeAll, SuspSteps
  <2>2. k.cpu = "task" /\ k.susp = 1 /\ OpOf(todo[Me]) = "resumeAll"
    BY <2>1, RunningSays
  <2>3. k' = Holding(k, 0, "drain") /\ todo' = todo
    BY <1>4, <2>2 DEF ResumeAll, Holding
  <2>4. Eases(k, k') /\ SameRunner(k, k') /\ k'.susp = 0 /\ k'.cpu = "drain"
    BY <1>2, <1>3, <2>3, HoldingEases
  <2>5. Eases(k, k') /\ k'.current = k.current /\ k'.held = k.held /\ k'.susp = 0 /\ k'.cpu = "drain"
    BY <2>4 DEF SameRunner
  <2>6. Lets(k, k')
    BY <2>5, EasesLets
  <2>7. Suspends(k', todo)
    BY <1>2, <2>2, <2>5 DEF QInv, Suspends
  <2>8. Runs(k', todo)
    BY <1>2, <2>2, <2>5 DEF QInv, Runs, Eases
  <2> QED  BY <1>1, <2>3, <2>5, <2>6, <2>7, <2>8, KernelOnly
<1>5. ASSUME Eases(k, k'), k'.held = k.held, k'.current = k.current, k'.susp = k.susp, todo' = todo,
             k.cpu \notin {"task", "tick"}, k'.cpu \notin {"task", "tick"},
             k'.cpu = "replayTick" => k'.pended > 0
      PROVE  QueuesInv'
  BY <1>1, <1>5, KernelStays
<1>6. CASE DrainPending
  <2>1. k.event[PendingReady] # <<>> /\ k.cpu \in {"drain", "drainMore"} /\ todo' = todo
    BY <1>6 DEF DrainPending
  <2>2. Eases(k, k') /\ k'.current = k.current /\ k'.held = k.held /\ k'.susp = k.susp
        /\ k'.cpu = "drainMore"
    BY <1>2, <1>6, <2>1, DrainEases DEF DrainPending
  <2> QED  BY <1>5, <2>1, <2>2
<1>7. CASE DrainEnd
  <2> DEFINE r == IF k.cpu = "drainMore" THEN prvResetNextTaskUnblockTime(k) ELSE k
  <2>1. Eases(k, r) /\ SameModes(k, r) /\ r.current = k.current
    BY <1>2, ResetEases, EasesSame DEF SameModes
  <2>2. k' = InMode(r, "replay") /\ k.cpu \in {"drain", "drainMore"} /\ todo' = todo
    BY <1>7 DEF DrainEnd, InMode
  <2> HIDE DEF r
  <2>3. KernelOk(r)
    BY <2>1 DEF Eases
  <2>4. Eases(r, k') /\ k'.current = r.current /\ k'.held = r.held /\ k'.cpu = "replay" /\ k'.susp = r.susp
    BY <1>3, <2>2, <2>3, ModeEases DEF SameRunner
  <2> QED  BY <1>5, <2>1, <2>2, <2>4, EasesTwice DEF SameModes
<1>8. CASE ReplayTick
  <2> DEFINE r == IncrementTick(k)
  <2>1. Eases(k, r) /\ SameModes(k, r) /\ r.current = k.current /\ r.pended = k.pended
    BY <1>2, TickEases
  <2> HIDE DEF r
  <2>2. k' = InMode(r, "replayTick") /\ k.cpu = "replay" /\ todo' = todo /\ k.pended > 0
    BY <1>8 DEF ReplayTick, r, InMode
  <2>3. KernelOk(r)
    BY <2>1 DEF Eases
  <2>4. /\ Eases(r, k') /\ k'.current = r.current /\ k'.held = r.held /\ k'.cpu = "replayTick"
        /\ k'.susp = r.susp /\ k'.pended = r.pended
    BY <1>3, <2>2, <2>3, ModeEases DEF SameRunner
  <2> QED  BY <1>5, <2>1, <2>2, <2>4, EasesTwice DEF SameModes
<1>9. CASE ReplayUnblock
  <2> DEFINE r == UnblockHead(k)
             t == Head(k.list[Delayed])
  <2>1. ~Empty(k, Delayed) /\ k' = PendYieldIfHigher(r, t) /\ k.cpu = "replayTick" /\ todo' = todo
    BY <1>9 DEF ReplayUnblock, TickIsOver
  <2>2. t \in Task
    <3>1. k.list[Delayed] \in Seq(Task) /\ k.list[Delayed] # <<>>
      BY <1>2, <2>1, FieldTypes DEF Empty, StateLists
    <3> QED  BY <3>1, HeadTailProperties
  <2>3. Eases(k, r) /\ SameModes(k, r) /\ r.current = k.current /\ r.pended = k.pended
    BY <1>2, <2>1, UnblockHeadEases
  <2> HIDE DEF r, t
  <2>4. Eases(r, k') /\ SameModes(r, k') /\ k'.current = r.current
    BY <2>1, <2>2, <2>3, PendYieldEases DEF Eases
  <2>5. k'.pended = r.pended
    <3>1. r \in KernelState
      BY <2>3, KernelOkLive DEF Eases
    <3> QED  BY <2>1, <3>1 DEF PendYieldIfHigher, KernelState
  <2>6. k.pended > 0
    BY <1>2, <2>1 DEF QInv, Suspends
  <2> QED  BY <1>5, <2>1, <2>3, <2>4, <2>5, <2>6, EasesTwice DEF SameModes
<1>10. CASE ReplayTickEnd
  <2> DEFINE r == AfterTickLoop(k)
             p == r.pended - 1
             y == r.yield \/ SliceOver(k)
  <2>1. Eases(k, r) /\ SameModes(k, r) /\ r.current = k.current /\ r.pended = k.pended
    BY <1>2, LoopEndEases
  <2>2. k.cpu = "replayTick" /\ todo' = todo /\ k' = Replayed(r, p, y)
    BY <1>10 DEF ReplayTickEnd, Replayed
  <2> HIDE DEF r
  <2>3. p \in Nat
    BY <1>2, <2>1, <2>2 DEF QInv, Suspends
  <2>4. y \in BOOLEAN
    BY DEF SliceOver
  <2> HIDE DEF p, y
  <2>5. KernelOk(r)
    BY <2>1 DEF Eases
  <2>6. Eases(r, k') /\ k'.current = r.current /\ k'.held = r.held /\ k'.cpu = "replay" /\ k'.susp = r.susp
    BY <2>2, <2>3, <2>4, <2>5, ReplayedEases DEF SameRunner
  <2> QED  BY <1>5, <2>1, <2>2, <2>6, EasesTwice DEF SameModes
<1> QED  BY <1>4, <1>6, <1>7, <1>8, <1>9, <1>10

\* What is left of a call after xTaskResumeAll or a yield: no queue is locked.
LEMMA RestPasses ==
    ASSUME OnlyQueues, QueuesInv, NEW op \in {"resumeAll", "yield"}, OpOf(todo[Me]) = op,
           todo[Me] # <<>>
    PROVE  /\ Rest \in Seq(Work) /\ InSequence(Rest) /\ Me # Idle
           /\ \A o : Has(todo[Me], o) <=> op = o \/ Has(Rest, o)
           /\ OpOf(Rest) \in {"yield", "try", "timedOut", "none"} /\ OpOf(Rest) \notin SuspSteps
           /\ WorkFits(Me, Rest) /\ PassesBy(todo[Me], Rest)
           /\ OpOf(Rest) = "yield" => op = "resumeAll"
<1>1. todo[Me] \in Seq(Work) /\ InSequence(todo[Me]) /\ QInv(k, todo, queue, call) /\ Me \in Task
  BY InvFacts
<1>2. /\ Rest \in Seq(Work) /\ InSequence(Rest) /\ OpOf(Rest) \in NextOps(op)
      /\ \A o : Has(todo[Me], o) <=> op = o \/ Has(Rest, o)
  BY <1>1, OrderlyRest DEF Rest
<1>3. OpOf(Rest) \in {"yield", "try", "timedOut", "none"} /\ (OpOf(Rest) = "yield" => op = "resumeAll")
  BY <1>2 DEF NextOps
<1>4. \A o \in {"yield", "try", "timedOut", "none"} : o \notin SuspSteps /\ o \notin RxSteps
  BY DEF SuspSteps, RxSteps, TxSteps
<1>5. Me # Idle
  BY <1>1 DEF QInv, WorkOk
<1>6. op \notin RxSteps \cup {"try", "count"} /\ op \notin LoopOps \cup {"count"}
  BY DEF RxSteps, TxSteps, LoopOps
<1>7. WorkFits(Me, Rest)
  BY <1>2, <1>3, <1>5 DEF WorkFits
<1>8. PassesBy(todo[Me], Rest)
  BY <1>2, <1>3, <1>4, <1>6 DEF PassesBy
<1> QED  BY <1>2, <1>3, <1>4, <1>5, <1>7, <1>8

\* The end of xTaskResumeAll.
LEMMA ResumeAllReturns ==
    ASSUME OnlyQueues, QueuesInv, ResumeAllEnd, UNCHANGED <<queue, call>>
    PROVE  QueuesInv'
<1>1. k.cpu = "replay" /\ UNCHANGED <<value, previous, allocated, app>>
  BY DEF ResumeAllEnd
<1>2. /\ QInv(k, todo, queue, call) /\ Me \in Task /\ k.current = Me /\ KernelOk(k)
      /\ todo \in [Task -> Seq(Work)] /\ "task" \in CpuModes
  BY InvFacts DEF CpuModes
<1>3. OpOf(todo[Me]) = "resumeAll" /\ k.susp = 0
  BY <1>1, <1>2 DEF QInv, Suspends
<1>4. todo[Me] # <<>>
  BY <1>3 DEF OpOf
<1>5. /\ Rest \in Seq(Work) /\ InSequence(Rest) /\ Me # Idle
      /\ \A o : Has(todo[Me], o) <=> o = "resumeAll" \/ Has(Rest, o)
      /\ OpOf(Rest) \in {"yield", "try", "timedOut", "none"} /\ OpOf(Rest) \notin SuspSteps
      /\ WorkFits(Me, Rest) /\ PassesBy(todo[Me], Rest)
  BY <1>3, <1>4, RestPasses
<1>6. CASE /\ k.yield
           /\ k' = [vTaskSwitchContext(k) EXCEPT !.cpu = "task"]
           /\ Continue(IF YieldIsNext THEN Tail(Rest) ELSE Rest)
  <2> DEFINE r == vTaskSwitchContext(k)
             s == IF YieldIsNext THEN Tail(Rest) ELSE Rest
  <2>1. Eases(k, r) /\ SameModes(k, r) /\ IsReady(r, r.current)
    BY <1>2, <1>3, SwitchEases
  <2>2. k' = InMode(r, "task") /\ todo' = [todo EXCEPT ![Me] = s]
    BY <1>6 DEF InMode, Continue
  <2>3. r.current \in Task /\ KernelOk(r)
    BY <2>1, KernelOkLive DEF Eases
  <2> HIDE DEF r
  <2>4. Eases(r, k') /\ SameRunner(r, k') /\ k'.cpu = "task" /\ k'.susp = r.susp
    BY <1>2, <2>2, <2>3, ModeEases
  <2>5. Eases(k, k') /\ k'.held = k.held /\ k'.susp = 0 /\ IsReady(k', k'.current)
    BY <1>3, <2>1, <2>3, <2>4, EasesTwice DEF SameModes, SameRunner, Eases
  <2>6. s \in Seq(Work) /\ OpOf(s) \notin SuspSteps /\ WorkFits(Me, s) /\ PassesBy(todo[Me], s)
    <3>1. CASE ~YieldIsNext
      BY <1>5, <3>1
    <3>2. CASE YieldIsNext
      <4>1. Rest # <<>> /\ Head(Rest).op = "yield"
        BY <3>2 DEF YieldIsNext
      <4>2. /\ Tail(Rest) \in Seq(Work) /\ InSequence(Tail(Rest))
            /\ OpOf(Tail(Rest)) \in NextOps(OpOf(Rest)) /\ OpOf(Rest) = "yield"
            /\ \A o : Has(Rest, o) <=> OpOf(Rest) = o \/ Has(Tail(Rest), o)
        BY <1>5, <4>1, OrderlyRest
      <4>3. OpOf(Tail(Rest)) \in {"try", "none"}
        BY <4>2 DEF NextOps
      <4>4. OpOf(Tail(Rest)) \notin SuspSteps /\ OpOf(Tail(Rest)) \notin RxSteps
        BY <4>3 DEF SuspSteps, RxSteps, TxSteps
      <4>5. WorkFits(Me, Tail(Rest))
        BY <1>5, <4>2, <4>3 DEF WorkFits
      <4>6. "resumeAll" \notin RxSteps \cup {"try", "count"}
            /\ \A o \in LoopOps \cup {"count"} : o # "resumeAll" /\ o # "yield"
        BY DEF RxSteps, TxSteps, LoopOps
      <4>7. PassesBy(todo[Me], Tail(Rest))
        BY <1>3, <1>5, <4>2, <4>3, <4>4, <4>6 DEF PassesBy
      <4> QED  BY <3>2, <4>2, <4>4, <4>5, <4>7
    <3> QED  BY <3>1, <3>2
  <2> HIDE DEF s
  <2> QED  BY <1>1, <2>2, <2>4, <2>5, <2>6, KernelSwitches
<1>7. CASE ~k.yield /\ k' = [k EXCEPT !.cpu = "task"] /\ Done
  <2>1. k' = InMode(k, "task") /\ todo' = [todo EXCEPT ![Me] = Rest]
    BY <1>7 DEF InMode, Done, Continue
  <2>2. Eases(k, k') /\ SameRunner(k, k') /\ k'.cpu = "task" /\ k'.susp = k.susp
    BY <1>2, <2>1, ModeEases
  <2>3. todo'[Me] = Rest /\ OthersSame(todo, todo', Me)
    BY <1>2, <2>1 DEF OthersSame
  <2>4. Lets(k, k') /\ k'.held = k.held /\ k'.current = k.current
    BY <2>2, EasesLets DEF SameRunner
  <2>5. Suspends(k', todo')
    BY <1>2, <1>3, <1>5, <2>2, <2>3, <2>4, SuspendsGoesOn DEF QInv
  <2>6. Runs(k', todo')
    <3>1. Has(todo[Me], "yield") => Has(Rest, "yield")
      BY <1>5
    <3> QED  BY <1>1, <1>2, <2>2, <2>3, <2>4, <3>1 DEF QInv, Runs, Eases
  <2> QED  BY <1>1, <1>5, <2>1, <2>4, <2>5, <2>6, KernelNext
<1> QED  BY <1>6, <1>7 DEF ResumeAllEnd

\* portYIELD_WITHIN_API.
LEMMA YieldPasses ==
    ASSUME OnlyQueues, QueuesInv, Yield, UNCHANGED <<queue, call>>
    PROVE  QueuesInv'
<1>1. /\ Running("yield") /\ k' = vTaskSwitchContext(k) /\ todo' = [todo EXCEPT ![Me] = Rest]
      /\ UNCHANGED <<value, previous, allocated, app>>
  BY DEF Yield, Done, Continue
<1>2. "yield" \notin SuspSteps
  BY DEF SuspSteps, RxSteps, TxSteps
<1>3. k.cpu = "task" /\ k.susp = 0 /\ OpOf(todo[Me]) = "yield" /\ todo[Me] # <<>>
  BY <1>1, <1>2, RunningSays
<1>4. KernelOk(k)
  BY InvFacts
<1>5. Eases(k, k') /\ SameModes(k, k') /\ IsReady(k', k'.current)
  BY <1>1, <1>3, <1>4, SwitchEases
<1>6. Rest \in Seq(Work) /\ OpOf(Rest) \notin SuspSteps /\ WorkFits(Me, Rest) /\ PassesBy(todo[Me], Rest)
  BY <1>3, RestPasses
<1> QED  BY <1>1, <1>3, <1>5, <1>6, KernelSwitches DEF SameModes

\* The running task goes to sleep in vTaskDelay.
LEMMA DelaySleeps ==
    ASSUME OnlyQueues, QueuesInv, Delay, UNCHANGED <<queue, call>>
    PROVE  QueuesInv'
<1> DEFINE n == Item.n
<1>1. /\ Running("delay") /\ k' = prvAddCurrentTaskToDelayedList(k, n, FALSE)
      /\ todo' = [todo EXCEPT ![Me] = Rest] /\ UNCHANGED <<value, previous, allocated, app>>
  BY DEF Delay, Done, Continue
<1>2. /\ todo[Me] # <<>> /\ OpOf(todo[Me]) = "delay" /\ todo[Me][1] = Item
      /\ Rest \in Seq(Work) /\ InSequence(Rest) /\ OpOf(Rest) \in NextOps("delay")
      /\ \A o : Has(todo[Me], o) <=> "delay" = o \/ Has(Rest, o)
      /\ k.cpu = "task" /\ k.susp = (IF "delay" \in SuspSteps THEN 1 ELSE 0)
      /\ Me = Idle => "delay" = "idleYield"
  BY <1>1, RunningSays
<1>3. /\ QInv(k, todo, queue, call) /\ KernelOk(k) /\ Me \in Task /\ k.current = Me
      /\ todo \in [Task -> Seq(Work)]
  BY InvFacts
<1>4. n \in Tick /\ Has(todo[Me], "yield")
  BY <1>2, <1>3 DEF QInv, WorkOk
<1>5. OpOf(Rest) = "resumeAll" /\ Has(Rest, "yield") /\ Me # Idle
  BY <1>2, <1>4 DEF NextOps
<1>6. "delay" \in SuspSteps /\ "resumeAll" \in SuspSteps /\ "delay" \notin RxSteps \cup {"try", "count"}
      /\ "resumeAll" \notin RxSteps /\ "delay" \notin LoopOps \cup {"count"}
  BY DEF SuspSteps, RxSteps, TxSteps, LoopOps
<1> HIDE DEF n
<1>7. KernelOk(k') /\ k'.event = k.event /\ k'.live = k.live /\ k'.current = k.current /\ SameModes(k, k')
  <2>1. Sound(k) /\ IsReady(k, Idle) /\ k.current \in k.live /\ FALSE \in BOOLEAN
    BY <1>3 DEF KernelOk
  <2>2. \A e \in EventLists, t \in Task : Occurs(k.event[e], t) =>
            t \in k.live /\ (t # k.current => ~IsReady(k, t))
    BY <1>3 DEF KernelOk
  <2>3. /\ \A t \in Task : ~IsIn(k, t, Terminated)
        /\ \A t \in Task : k.order[t] \in 1 .. MaxPriority + 1
    BY <1>3 DEF KernelOk
  <2> QED  BY <1>1, <1>3, <1>4, <1>5, <2>1, <2>2, <2>3, CurrentSleeps
<1>8. Lets(k, k') /\ k'.held = k.held
  BY <1>7 DEF Lets, SameModes
<1>9. WorkFits(Me, Rest) /\ PassesBy(todo[Me], Rest)
  BY <1>2, <1>5, <1>6 DEF WorkFits, PassesBy
<1>10. todo'[Me] = Rest /\ OthersSame(todo, todo', Me)
  BY <1>1, <1>2, <1>3 DEF OthersSame
<1>11. Suspends(k', todo')
  BY <1>2, <1>3, <1>5, <1>6, <1>7, <1>10, SuspendsGoesOn DEF QInv, SameModes
<1>12. Runs(k', todo')
  BY <1>3, <1>5, <1>7, <1>10 DEF Runs
<1> QED  BY <1>1, <1>2, <1>8, <1>9, <1>11, <1>12, KernelNext

\* The idle task.
LEMMA IdleGoesOn ==
    ASSUME OnlyQueues, QueuesInv, IdleLoop \/ IdleYield, UNCHANGED <<queue, call>>
    PROVE  QueuesInv'
<1>1. /\ QInv(k, todo, queue, call) /\ KernelOk(k) /\ Me \in Task /\ k.current = Me
      /\ todo \in [Task -> Seq(Work)]
  BY InvFacts
<1>2. /\ "idleYield" \notin SuspSteps /\ "none" \notin SuspSteps
      /\ \A o \in {"idleYield", "none"} : o \notin RxSteps \cup {"try", "count"}
      /\ "idleYield" \in CallOps /\ "idleYield" \notin LoopOps \cup {"count"}
      /\ "none" \in NextOps("idleYield")
  BY DEF SuspSteps, RxSteps, TxSteps, CallOps, LoopOps, NextOps
<1>3. CASE IdleLoop
  <2>1. /\ k.cpu = "task" /\ Me = Idle /\ todo[Me] = <<>> /\ k' = k
        /\ todo' = [todo EXCEPT ![Me] = <<Do("idleYield")>>]
        /\ UNCHANGED <<value, previous, allocated, app>>
    BY <1>3 DEF IdleLoop, Continue
  <2> DEFINE x == Do("idleYield")
             z == <<>>
             s == <<x>> \o z
  <2>2. x \in Work /\ x.op = "idleYield" /\ z \in Seq(Work) /\ InSequence(z) /\ OpOf(z) = "none"
        /\ \A op : ~Has(z, op)
    BY <1>2, CallOpsAreOps, ItemFacts, NothingToDo
  <2>3. s = <<Do("idleYield")>>
    <3>1. <<x>> \in Seq(Work)
      BY <2>2
    <3> QED  BY <3>1, ConcatEmptySeq
  <2> HIDE DEF x
  <2>4. todo[Me] = z
    BY <2>1
  <2> HIDE DEF z
  <2>5. /\ s \in Seq(Work) /\ InSequence(s) /\ OpOf(s) = "idleYield"
        /\ \A op : Has(s, op) <=> "idleYield" = op \/ Has(z, op)
    BY <1>2, <2>2, OrderlyCons
  <2> HIDE DEF s
  <2>6. todo' = [todo EXCEPT ![Me] = s]
    BY <2>1, <2>3
  <2>7. todo'[Me] = s /\ OthersSame(todo, todo', Me)
    BY <1>1, <2>6 DEF OthersSame
  <2>8. WorkFits(Me, s) /\ PassesBy(todo[Me], s)
    BY <1>2, <2>1, <2>2, <2>4, <2>5 DEF WorkFits, PassesBy
  <2>9. Lets(k, k') /\ k'.held = k.held
    BY <1>1, <2>1, EasesSame, EasesLets
  <2>10. k.susp = 0
    BY <1>1, <1>2, <2>1, <2>2, <2>4 DEF QInv, Suspends
  <2>11. Suspends(k', todo')
    <3>1. k'.current = k.current /\ k'.cpu = "task" /\ k'.susp = 0
      BY <2>1, <2>10
    <3>2. OpOf(todo'[k.current]) \notin SuspSteps /\ OthersSame(todo, todo', k.current)
      BY <1>1, <1>2, <2>5, <2>7
    <3> QED  BY <1>1, <3>1, <3>2, SuspendsGoesOn DEF QInv
  <2>12. Runs(k', todo')
    BY <1>1, <2>1 DEF Runs, KernelOk
  <2> QED  BY <2>1, <2>5, <2>6, <2>8, <2>9, <2>11, <2>12, KernelNext
<1>4. CASE IdleYield
  <2>1. /\ Running("idleYield") /\ todo' = [todo EXCEPT ![Me] = Rest]
        /\ k' \in {k, vTaskSwitchContext(k)} /\ UNCHANGED <<value, previous, allocated, app>>
    BY <1>4 DEF IdleYield, Done, Continue
  <2>2. /\ todo[Me] # <<>> /\ OpOf(todo[Me]) = "idleYield"
        /\ Rest \in Seq(Work) /\ InSequence(Rest) /\ OpOf(Rest) \in NextOps("idleYield")
        /\ \A o : Has(todo[Me], o) <=> "idleYield" = o \/ Has(Rest, o)
        /\ k.cpu = "task" /\ k.susp = 0
    BY <1>2, <2>1, RunningSays
  <2>3. OpOf(Rest) = "none"
    BY <2>2 DEF NextOps
  <2>4. WorkFits(Me, Rest) /\ PassesBy(todo[Me], Rest)
    BY <1>2, <2>2, <2>3 DEF WorkFits, PassesBy
  <2>5. IsReady(k, Me)
    <3>1. ~Has(Rest, "yield")
      BY <2>2, <2>3, CallEnds
    <3>2. ~Has(todo[Me], "yield")
      BY <2>2, <3>1
    <3> QED  BY <1>1, <2>2, <3>2 DEF QInv, Runs
  <2>6. Eases(k, k') /\ SameModes(k, k') /\ IsReady(k', k'.current)
    BY <1>1, <2>1, <2>2, <2>5, SwitchEases, EasesSame DEF SameModes
  <2> QED  BY <1>2, <2>1, <2>2, <2>3, <2>4, <2>6, KernelSwitches DEF SameModes
<1> QED  BY <1>3, <1>4

\* A call of vTaskDelay.
LEMMA DelayCalled ==
    ASSUME OnlyQueues, QueuesInv, NEW n \in Tick, vTaskDelay(n), UNCHANGED <<queue, call>>
    PROVE  QueuesInv'
<1>1. CallsRunning("vTaskDelay") /\ UNCHANGED <<value, previous, allocated, app>>
  BY DEF vTaskDelay
<1>2. /\ Me # Idle /\ k.cpu = "task" /\ k.susp = 0 /\ todo[Me] = <<>> /\ OpOf(todo[Me]) = "none"
      /\ (\A op : ~Has(todo[Me], op)) /\ IsReady(k, Me)
  BY <1>1, BetweenCalls
<1>3. /\ QInv(k, todo, queue, call) /\ KernelOk(k) /\ Me \in Task /\ k.current = Me
      /\ todo \in [Task -> Seq(Work)] /\ k \in KernelState
  BY InvFacts
<1>4. /\ "delay" \in SuspSteps /\ "none" \notin SuspSteps /\ "delay" \notin RxSteps
      /\ "none" \notin RxSteps \cup {"try", "count"}
      /\ \A o \in {"delay", "resumeAll", "yield"} : o \in CallOps /\ o \notin LoopOps \cup {"count"}
      /\ "none" \in NextOps("yield") /\ "yield" \in NextOps("resumeAll")
      /\ "resumeAll" \in NextOps("delay")
  BY DEF SuspSteps, RxSteps, TxSteps, CallOps, LoopOps, NextOps
<1>5. CASE /\ k' = [k EXCEPT !.susp = 1]
           /\ Continue(<<DoFor("delay", n), Do("resumeAll"), Do("yield")>>)
  <2> DEFINE x == DoFor("delay", n)
             y == Do("resumeAll")
             z == Do("yield")
             e == <<>>
             s3 == <<z>> \o e
             s2 == <<y>> \o s3
             s == <<x>> \o s2
  <2>1. /\ x \in Work /\ x.op = "delay" /\ x.n = n /\ y \in Work /\ y.op = "resumeAll"
        /\ z \in Work /\ z.op = "yield"
    BY <1>4, CallOpsAreOps, ItemFacts DEF Tick
  <2>2. e \in Seq(Work) /\ InSequence(e) /\ OpOf(e) = "none" /\ (\A op : ~Has(e, op)) /\ todo[Me] = e
    BY <1>2, NothingToDo
  <2>3. s = <<DoFor("delay", n), Do("resumeAll"), Do("yield")>>
    <3> HIDE DEF x, y, z
    <3>1. <<x, y, z>> \in Seq(Work) /\ <<>> \in Seq(Work)
      BY <2>1
    <3>2. <<x, y, z>> \o <<>> \o <<>> = <<x, y, z>> /\ <<>> \o <<>> = <<>>
      BY <3>1, ConcatEmptySeq
    <3> HIDE DEF e
    <3>3. x \in Work /\ y \in Work /\ z \in Work /\ e \in Seq(Work)
      BY <2>1, <2>2
    <3>4. AtOnce(x, y, z, e, e) = InTurn(x, y, z, e, e)
      BY <3>3, OneByOne
    <3> USE DEF e
    <3>5. s = <<x, y, z>>
      BY <3>2, <3>4 DEF AtOnce, InTurn
    <3> QED  BY <3>5 DEF x, y, z
  <2> HIDE DEF x, y, z, e
  <2>4. /\ s3 \in Seq(Work) /\ InSequence(s3) /\ OpOf(s3) = "yield"
        /\ \A op : Has(s3, op) <=> "yield" = op \/ Has(e, op)
    BY <1>4, <2>1, <2>2, OrderlyCons
  <2> HIDE DEF s3
  <2>5. /\ s2 \in Seq(Work) /\ InSequence(s2) /\ OpOf(s2) = "resumeAll"
        /\ \A op : Has(s2, op) <=> "resumeAll" = op \/ Has(s3, op)
    BY <1>4, <2>1, <2>4, OrderlyCons
  <2> HIDE DEF s2
  <2>6. /\ s \in Seq(Work) /\ InSequence(s) /\ OpOf(s) = "delay" /\ s[1] = x
        /\ \A op : Has(s, op) <=> "delay" = op \/ Has(s2, op)
    BY <1>4, <2>1, <2>5, OrderlyCons
  <2> HIDE DEF s
  <2>7. todo' = [todo EXCEPT ![Me] = s]
    BY <1>5, <2>3 DEF Continue
  <2>8. todo'[Me] = s /\ OthersSame(todo, todo', Me)
    BY <1>3, <2>7 DEF OthersSame
  <2>9. WorkFits(Me, s)
    BY <1>2, <2>1, <2>4, <2>5, <2>6 DEF WorkFits
  <2>10. PassesBy(todo[Me], s)
    <3>1. \A op \in LoopOps \cup {"count"} : ~Has(s, op)
      BY <1>4, <2>2, <2>4, <2>5, <2>6
    <3> QED  BY <1>2, <1>4, <2>6, <3>1 DEF PassesBy
  <2>11. "task" \in CpuModes /\ 1 \in Nat
    BY DEF CpuModes
  <2>12. k' = Holding(k, 1, "task")
    BY <1>2, <1>3, <1>5 DEF Holding, KernelState
  <2>13. Eases(k, k') /\ SameRunner(k, k') /\ k'.susp = 1 /\ k'.cpu = "task"
    BY <1>3, <2>11, <2>12, HoldingEases
  <2>14. Lets(k, k') /\ k'.held = k.held /\ k'.current = k.current
    BY <2>13, EasesLets DEF SameRunner
  <2>15. Suspends(k', todo')
    BY <1>3, <1>4, <2>6, <2>8, <2>13, <2>14, SuspendsGoesOn DEF QInv
  <2>16. Runs(k', todo')
    BY <1>2, <1>3, <2>13, <2>14 DEF Runs, Eases
  <2> QED  BY <1>1, <2>6, <2>7, <2>9, <2>10, <2>14, <2>15, <2>16, KernelNext
<1>6. CASE k' = vTaskSwitchContext(k) /\ todo' = todo
  <2>1. Eases(k, k') /\ SameModes(k, k') /\ IsReady(k', k'.current)
    BY <1>2, <1>3, <1>6, SwitchEases
  <2>2. todo' = [todo EXCEPT ![Me] = todo[Me]] /\ todo[Me] \in Seq(Work)
    BY <1>3, <1>6
  <2>3. WorkFits(Me, todo[Me]) /\ PassesBy(todo[Me], todo[Me])
    BY <1>3 DEF QInv, WorkOk, WorkFits, PassesBy
  <2> QED  BY <1>1, <1>2, <1>4, <2>1, <2>2, <2>3, KernelSwitches DEF SameModes
<1> QED  BY <1>5, <1>6 DEF vTaskDelay

\* The application does nothing else.
LEMMA NoOtherStep ==
    ASSUME OnlyQueues, QueuesInv
    PROVE  /\ \A f : Calls(f) => f \in QueueCalls
           /\ \A f : Interrupts(f) => f \in QueueISRs
           /\ \A op : Running(op) => op \in CallOps
           /\ ~IdleCleanUp
<1>1. Me \in Task /\ app \in DOMAIN Applications /\ KernelOk(k) /\ k \in KernelState
  BY InvFacts
<1>2. \A f : Calls(f) => f \in QueueCalls
  BY <1>1 DEF OnlyQueues, App, Calls
<1>3. \A f : Interrupts(f) => f \in QueueISRs
  BY <1>1 DEF OnlyQueues, App, Interrupts
<1>4. \A op : Running(op) => op \in CallOps
  BY RunningSays
<1>5. ~IdleCleanUp
  <2>1. \A t \in Task : ~IsIn(k, t, Terminated)
    BY <1>1 DEF KernelOk
  <2>2. k.list[Terminated] \in Seq(Task)
    BY <1>1 DEF KernelState, StateLists
  <2>3. k.list[Terminated] = <<>>
    BY <2>1, <2>2, EmptyIffNone DEF IsIn
  <2> QED  BY <2>3 DEF IdleCleanUp, Empty
<1> QED  BY <1>2, <1>3, <1>4, <1>5

\* A step of Tasks.tla.
LEMMA TaskStepKeeps ==
    ASSUME OnlyQueues, QueuesInv, Next, UNCHANGED queueVars
    PROVE  QueuesInv'
<1>1. UNCHANGED <<queue, call>>
  BY DEF queueVars
<1>2. CASE TickInterrupt
  BY <1>1, <1>2, TickArrives
<1>3. CASE Step
  <2>1. \A op \in {"delayUntil", "wait", "unblockTime", "catchUp", "allocTCB", "add", "yieldTo",
                   "free", "freeTCB", "take", "takeEnd", "await", "awaitEnd"} : ~Running(op)
    BY NoOtherStep DEF CallOps, LoopOps
  <2>2. /\ ~DelayUntil /\ ~Wait /\ ~UnblockTime /\ ~CatchUp /\ ~AllocTCB
        /\ ~AddNewTaskToReadyList /\ ~YieldToNewTask /\ ~Free /\ ~FreeTCB
        /\ ~Take /\ ~TakeEnd /\ ~Await /\ ~AwaitEnd /\ ~IdleCleanUp
    BY <2>1, NoOtherStep DEF DelayUntil, Wait, UnblockTime, CatchUp, AllocTCB,
       AddNewTaskToReadyList, YieldToNewTask, Free, FreeTCB, Take, TakeEnd, Await, AwaitEnd
  <2>3. CASE TickLoop
    BY <1>1, <2>3, TickLoops DEF TickLoop
  <2>4. CASE ResumeAllLoop
    BY <1>1, <2>4, ResumeAllLoops, ResumeAllReturns DEF ResumeAllLoop
  <2>5. CASE Continuation
    BY <1>1, <2>2, <2>5, ResumeAllLoops, YieldPasses, DelaySleeps, IdleGoesOn DEF Continuation
  <2> QED  BY <1>3, <2>3, <2>4, <2>5 DEF Step
<1>4. CASE Call
  <2>1. \A f \in {"vTaskSuspendAll", "xTaskDelayUntil", "xTaskCatchUpTicks", "ulTaskNotifyTake",
                  "xTaskNotifyWait", "xTaskCreate", "vTaskSuspend", "vTaskResume", "vTaskDelete",
                  "vTaskPrioritySet", "xTaskNotifyStateClear", "ulTaskNotifyValueClear",
                  "xTaskNotify"} : ~Calls(f) /\ ~CallsRunning(f)
    BY NoOtherStep DEF QueueCalls, CallsRunning
  <2>2. ~vTaskSuspendAll /\ ~xTaskResumeAll /\ ~xTaskGetTickCount
    BY <2>1 DEF vTaskSuspendAll, xTaskResumeAll, xTaskGetTickCount
  <2>3. \A n, b, c : /\ ~xTaskDelayUntil(n) /\ ~xTaskCatchUpTicks(n)
                     /\ ~ulTaskGenericNotifyTake(b, n) /\ ~xTaskGenericNotifyWait(b, c, n)
    BY <2>1 DEF xTaskDelayUntil, xTaskCatchUpTicks, ulTaskGenericNotifyTake, xTaskGenericNotifyWait
  <2>4. \A t, p : /\ ~xTaskCreate(p) /\ ~vTaskSuspend(t) /\ ~vTaskResume(t) /\ ~vTaskDelete(t)
                  /\ ~vTaskPrioritySet(t, p)
    BY <2>1 DEF xTaskCreate, vTaskSuspend, vTaskResume, vTaskDelete, vTaskPrioritySet
  <2>5. \A t, p, v : /\ ~xTaskGenericNotifyStateClear(t) /\ ~ulTaskGenericNotifyValueClear(t)
                     /\ ~xTaskGenericNotify(t, p, v)
    BY <2>1 DEF xTaskGenericNotifyStateClear, ulTaskGenericNotifyValueClear, xTaskGenericNotify
  <2>6. PICK n \in App.ticks[Me] : vTaskDelay(n)
    BY <1>4, <2>2, <2>3, <2>4, <2>5 DEF Call
  <2>7. n \in Tick
    BY <2>6, CallArguments
  <2> QED  BY <1>1, <2>6, <2>7, DelayCalled
<1>5. CASE Interrupt
  <2>1. ~Interrupts("xTaskResumeFromISR") /\ ~Interrupts("xTaskNotifyFromISR")
    BY NoOtherStep DEF QueueISRs
  <2>2. \A t, p, v : ~xTaskResumeFromISR(t) /\ ~xTaskGenericNotifyFromISR(t, p, v)
    BY <2>1 DEF xTaskResumeFromISR, xTaskGenericNotifyFromISR
  <2> QED  BY <1>5, <2>2 DEF Interrupt
<1> QED  BY <1>2, <1>3, <1>4, <1>5 DEF Next

-----------------------------------------------------------------------------
(* Steps that change a queue. *)

\* One more item, or one more place: the first task that waits for it goes to
\* get it, or no task waits.
LEMMA WakeByOne ==
    ASSUME OnlyQueues, NEW kk, NEW td, NEW ca, NEW qu \in QueueStates, NEW r, NEW te, NEW ce,
           NEW qv \in QueueStates, NEW t \in Task, NEW q \in Queue, NEW s \in Side,
           KernelOk(kk), WaiterInv(kk, td, ca), WakeOk(kk, td, qu, ca, q, s), Lets(kk, r),
           OthersSame(td, te, t), OthersSame(ca, ce, t),
           \A u \in Task : ~WillWait(te, ce, u, q, s),
           LockOf(qv, q, s) = LockOf(qu, q, s), WakesFirst(kk, r, WaitList(q, s)),
           \/ /\ WillTry(td, ca, t, q, s) => WillTry(te, ce, t, q, s)
              /\ Stock(qv, q, s) <= Stock(qu, q, s) + 1
           \/ /\ ~InQueueList(kk, t) /\ ~WillTry(td, ca, t, q, s)
              /\ Stock(qv, q, s) <= Stock(qu, q, s) + 1
           \/ ~InQueueList(kk, t) /\ Stock(qv, q, s) <= Stock(qu, q, s)
    PROVE  WakeOk(r, te, qv, ce, q, s)
<1>1. kk.live \subseteq Task /\ Idle \in kk.live /\ r.live = kk.live
  BY KernelOkLive DEF Lets
<1>2. /\ Stock(qu, q, s) \in Int /\ Stock(qv, q, s) \in Int
      /\ Owed(LockOf(qu, q, s)) \in Nat /\ LockOf(qu, q, s) \in Int
  BY SideNumbers
<1>3. WaitList(q, s) \in WaitLists /\ WaitList(q, s) \in QueueLists
  BY WaitListsAreLists, WaitListNames
<1>4. CASE kk.event[WaitList(q, s)] = <<>>
  <2>1. \A u \in Task : ~Queued(r, u, q, s)
    <3>1. \A u \in Task : ~Occurs(kk.event[WaitList(q, s)], u)
      BY <1>4, EmptyHoldsNone
    <3> QED  BY <1>3, <3>1 DEF Queued, Lets
  <2>2. ~Expected(r, te, ce, q, s)
    BY <2>1 DEF Expected
  <2> QED  BY <2>2 DEF WakeOk
<1>5. ASSUME NEW w \in Task, Occurs(kk.event[WaitList(q, s)], w), Freed(r, w)
      PROVE  WakeOk(r, te, qv, ce, q, s)
  <2>1. WillTry(td, ca, w, q, s) /\ InQueueList(kk, w)
    BY <1>3, <1>5 DEF WaiterInv, Queued, InQueueList
  <2>2. WillTry(te, ce, w, q, s)
    BY <2>1 DEF OthersSame, WillTry
  <2>3. ~InQueueList(r, w)
    BY <1>5, WaitListsAreLists DEF Freed, InQueueList
  <2>4. w \in Comers(r, te, ce, q, s) /\ w \notin Comers(kk, td, ca, q, s)
    BY <2>1, <2>2, <2>3 DEF Comers
  <2>5. Expected(r, te, ce, q, s) => Expected(kk, td, ca, q, s)
    BY ExpectedKept
  <2>6. /\ Comers(kk, td, ca, q, s) \ {t} \subseteq Comers(r, te, ce, q, s)
        /\ WillTry(te, ce, t, q, s) \/ t \notin Comers(kk, td, ca, q, s)
               => Comers(kk, td, ca, q, s) \subseteq Comers(r, te, ce, q, s)
    BY ComersKept
  <2>7. Cardinality({}) = 0 /\ Cardinality({t}) = 1 /\ Cardinality({w}) = 1
    BY FS_EmptySet, FS_Singleton
  <2>8. {} \in SUBSET Task /\ {t} \in SUBSET Task /\ {w} \in SUBSET Task
    OBVIOUS
  <2>9. Comers(kk, td, ca, q, s) \cap {w} = {}
    BY <2>4
  <2>10. CASE Stock(qv, q, s) <= Stock(qu, q, s)
    <3>1. (Comers(kk, td, ca, q, s) \ {t}) \cup {w} \subseteq Comers(r, te, ce, q, s)
      BY <2>4, <2>6
    <3>2. Stock(qv, q, s) + Cardinality({t}) + Owed(LockOf(qu, q, s))
              <= Stock(qu, q, s) + Cardinality({w}) + Owed(LockOf(qv, q, s))
      BY <1>2, <2>7, <2>10
    <3> QED  BY <1>1, <2>5, <2>8, <2>9, <3>1, <3>2, WakeTrade
  <2>11. CASE /\ Stock(qv, q, s) <= Stock(qu, q, s) + 1
              /\ WillTry(te, ce, t, q, s) \/ t \notin Comers(kk, td, ca, q, s)
    <3>1. (Comers(kk, td, ca, q, s) \ {}) \cup {w} \subseteq Comers(r, te, ce, q, s)
      BY <2>4, <2>6, <2>11
    <3>2. Stock(qv, q, s) + Cardinality({}) + Owed(LockOf(qu, q, s))
              <= Stock(qu, q, s) + Cardinality({w}) + Owed(LockOf(qv, q, s))
      BY <1>2, <2>7, <2>11
    <3> QED  BY <1>1, <2>5, <2>8, <2>9, <3>1, <3>2, WakeTrade
  <2>12. t \in Comers(kk, td, ca, q, s) => WillTry(td, ca, t, q, s)
    BY DEF Comers
  <2> QED  BY <2>10, <2>11, <2>12
<1> QED  BY <1>4, <1>5 DEF WakesFirst

\* A queue with another count of items and another holder.
Items(qu, qv, q, n, h) ==
    /\ qv \in QueueStates /\ \A p \in Queue : p # q => qv[p] = qu[p]
    /\ qv[q].count = n /\ qv[q].holder = h
    /\ qv[q].rx = qu[q].rx /\ qv[q].tx = qu[q].tx /\ qv[q].calls = qu[q].calls

\* The assignments of the item count and the holder, in either order.
LEMMA ItemsSet ==
    ASSUME NEW qu \in QueueStates, NEW q \in Queue, NEW n \in Nat, NEW h \in Task \cup {NULL}
    PROVE  /\ Items(qu, [qu EXCEPT ![q].holder = h, ![q].count = n], q, n, h)
           /\ Items(qu, [qu EXCEPT ![q].count = n, ![q].holder = h], q, n, h)
<1> DEFINE v == [qu EXCEPT ![q].holder = h, ![q].count = n]
           w == [qu EXCEPT ![q].count = n, ![q].holder = h]
<1>1. qu[q] \in QueueRecord
  BY DEF QueueStates
<1>2. v[q] = [[qu[q] EXCEPT !.holder = h] EXCEPT !.count = n] /\ \A p \in Queue : p # q => v[p] = qu[p]
  BY DEF QueueStates
<1>3. w[q] = [[qu[q] EXCEPT !.count = n] EXCEPT !.holder = h] /\ \A p \in Queue : p # q => w[p] = qu[p]
  BY DEF QueueStates
<1>4. \A x \in QueueRecord :
          /\ [x EXCEPT !.holder = h] \in QueueRecord /\ [x EXCEPT !.count = n] \in QueueRecord
          /\ [x EXCEPT !.holder = h].holder = h /\ [x EXCEPT !.holder = h].count = x.count
          /\ [x EXCEPT !.holder = h].rx = x.rx /\ [x EXCEPT !.holder = h].tx = x.tx
          /\ [x EXCEPT !.holder = h].calls = x.calls
          /\ [x EXCEPT !.count = n].count = n /\ [x EXCEPT !.count = n].holder = x.holder
          /\ [x EXCEPT !.count = n].rx = x.rx /\ [x EXCEPT !.count = n].tx = x.tx
          /\ [x EXCEPT !.count = n].calls = x.calls
  BY DEF QueueRecord
<1> DEFINE y == [qu[q] EXCEPT !.holder = h]
           z == [qu[q] EXCEPT !.count = n]
<1>5. /\ y \in QueueRecord /\ y.holder = h /\ y.rx = qu[q].rx /\ y.tx = qu[q].tx
      /\ y.calls = qu[q].calls
      /\ z \in QueueRecord /\ z.count = n /\ z.rx = qu[q].rx /\ z.tx = qu[q].tx
      /\ z.calls = qu[q].calls
  BY <1>1, <1>4
<1>6. v[q] = [y EXCEPT !.count = n] /\ w[q] = [z EXCEPT !.holder = h]
  BY <1>2, <1>3
<1> HIDE DEF y, z, v, w
<1>7. /\ v[q] \in QueueRecord /\ v[q].count = n /\ v[q].holder = h
      /\ v[q].rx = qu[q].rx /\ v[q].tx = qu[q].tx /\ v[q].calls = qu[q].calls
  <2>1. y \in QueueRecord
    BY <1>5
  <2>2. /\ [y EXCEPT !.count = n] \in QueueRecord /\ [y EXCEPT !.count = n].count = n
        /\ [y EXCEPT !.count = n].holder = y.holder
        /\ [y EXCEPT !.count = n].rx = y.rx /\ [y EXCEPT !.count = n].tx = y.tx
        /\ [y EXCEPT !.count = n].calls = y.calls
    BY <1>4, <2>1, Zenon
  <2> QED  BY <1>5, <1>6, <2>2, Zenon
<1>8. /\ w[q] \in QueueRecord /\ w[q].count = n /\ w[q].holder = h
      /\ w[q].rx = qu[q].rx /\ w[q].tx = qu[q].tx /\ w[q].calls = qu[q].calls
  <2>1. z \in QueueRecord
    BY <1>5
  <2>2. /\ [z EXCEPT !.holder = h] \in QueueRecord /\ [z EXCEPT !.holder = h].holder = h
        /\ [z EXCEPT !.holder = h].count = z.count
        /\ [z EXCEPT !.holder = h].rx = z.rx /\ [z EXCEPT !.holder = h].tx = z.tx
        /\ [z EXCEPT !.holder = h].calls = z.calls
    BY <1>4, <2>1, Zenon
  <2> QED  BY <1>5, <1>6, <2>2, Zenon
<1>9. v \in QueueStates /\ w \in QueueStates
  BY <1>2, <1>3, <1>7, <1>8 DEF QueueStates, v, w
<1> QED  BY <1>2, <1>3, <1>7, <1>8, <1>9 DEF Items, v, w

\* The sides and the locks of the queues after that.
LEMMA ItemsSides ==
    ASSUME NEW qu \in QueueStates, NEW qv, NEW q \in Queue, NEW n \in Nat, NEW h,
           Items(qu, qv, q, n, h)
    PROVE  /\ \A p \in Queue, s \in Side : LockOf(qv, p, s) = LockOf(qu, p, s)
           /\ \A p \in Queue, s \in Side : p # q => Stock(qv, p, s) = Stock(qu, p, s)
           /\ Stock(qv, q, "send") = Length[q] - n /\ Stock(qv, q, "receive") = n
           /\ \A p \in Queue : qv[p].tx = qu[p].tx /\ qv[p].rx = qu[p].rx
  BY DEF Items, LockOf, Stock

\* A mutex is taken by t.
LEMMA MutexTaken ==
    ASSUME OnlyQueues, NEW live, NEW held, NEW td, NEW te, NEW qu, NEW qv, NEW ca, NEW ce,
           NEW t \in Task, t \in live, MutexInv(live, held, td, qu, ca),
           OthersSame(td, te, t), OthersSame(ca, ce, t),
           NEW q \in Queue, IsMutex(q), qu[q].holder = NULL, Items(qu, qv, q, 0, t),
           NEW now, now \in [Task -> Nat], held \in [Task -> Nat],
           now[t] = held[t] + 1, OthersSame(held, now, t),
           \A p \in Queue : ~Uncounted(qu, p, t),
           Kind[q] = "recursive" => OpOf(te[t]) = "count"
    PROVE  MutexInv(live, now, te, qv, ce)
<1>1. NULL \notin Task /\ Length[q] = 1
  BY QueuesAssumption DEF IsMutex
<1>2. \A p \in Queue : p # q => qv[p] = qu[p]
  BY DEF Items
<1>3. qv[q].count = 0 /\ qv[q].holder = t /\ qv[q].calls = 0
  BY DEF Items, MutexInv
<1>4. \A p \in Queue :
           /\ qv[p].count <= Length[p]
           /\ IsMutex(p) => (qv[p].count = 0 <=> qv[p].holder # NULL)
           /\ ~IsMutex(p) => qv[p].holder = NULL
           /\ qv[p].holder \in live \cup {NULL}
           /\ qv[p].holder = NULL \/ Kind[p] # "recursive" => qv[p].calls = 0
  <2> SUFFICES ASSUME NEW p \in Queue
               PROVE  /\ qv[p].count <= Length[p]
                      /\ IsMutex(p) => (qv[p].count = 0 <=> qv[p].holder # NULL)
                      /\ ~IsMutex(p) => qv[p].holder = NULL
                      /\ qv[p].holder \in live \cup {NULL}
                      /\ qv[p].holder = NULL \/ Kind[p] # "recursive" => qv[p].calls = 0
    OBVIOUS
  <2>1. CASE p = q
    BY <1>1, <1>3, <2>1
  <2>2. CASE p # q
    BY <1>2, <2>2 DEF MutexInv
  <2> QED  BY <2>1, <2>2
<1>5. \A u \in Task : now[u] = Cardinality(MutexesOf(qv, u))
  <2> SUFFICES ASSUME NEW u \in Task PROVE now[u] = Cardinality(MutexesOf(qv, u))
    OBVIOUS
  <2>1. held[u] = Cardinality(MutexesOf(qu, u))
    BY DEF MutexInv
  <2>2. CASE u = t
    <3>1. MutexesOf(qv, t) = MutexesOf(qu, t) \cup {q} /\ q \notin MutexesOf(qu, t)
      BY <1>1, <1>2, <1>3 DEF MutexesOf
    <3>2. IsFiniteSet(MutexesOf(qu, t))
      <4>1. MutexesOf(qu, t) \subseteq Queue
        BY DEF MutexesOf
      <4> QED  BY <4>1, FS_Subset DEF OnlyQueues
    <3>3. Cardinality(MutexesOf(qu, t) \cup {q}) = Cardinality(MutexesOf(qu, t)) + 1
      BY <3>1, <3>2, FS_AddElement
    <3> QED  BY <2>1, <2>2, <3>1, <3>3
  <2>3. CASE u # t
    <3>1. MutexesOf(qv, u) = MutexesOf(qu, u)
      BY <1>1, <1>2, <1>3, <2>3 DEF MutexesOf
    <3> QED  BY <2>1, <2>3, <3>1 DEF OthersSame
  <2> QED  BY <2>2, <2>3
<1>6. \A p \in Queue, u \in Task : Uncounted(qv, p, u) =>
          IF p = q THEN u = t /\ Kind[q] = "recursive" ELSE u # t /\ Uncounted(qu, p, u)
  BY <1>2, <1>3 DEF Uncounted
<1>7. \A p \in Queue, u \in Task : Uncounted(qv, p, u) => CountsOrGives(te[u], ce[u], p)
  <2> SUFFICES ASSUME NEW p \in Queue, NEW u \in Task, Uncounted(qv, p, u)
               PROVE  CountsOrGives(te[u], ce[u], p)
    OBVIOUS
  <2>1. CASE p = q
    BY <1>6, <2>1 DEF CountsOrGives
  <2>2. CASE p # q
    <3>1. u # t /\ Uncounted(qu, p, u)
      BY <1>6, <2>2
    <3>2. CountsOrGives(td[u], ca[u], p)
      BY <3>1 DEF MutexInv, CountsOrGives
    <3> QED  BY <3>1, <3>2 DEF OthersSame
  <2> QED  BY <2>1, <2>2
<1>8. \A p, r \in Queue, h \in Task : Uncounted(qv, p, h) /\ Uncounted(qv, r, h) => p = r
  <2>1. \A p, r \in Queue, h \in Task : Uncounted(qu, p, h) /\ Uncounted(qu, r, h) => p = r
    BY DEF MutexInv
  <2> QED  BY <1>6, <2>1
<1> QED  BY <1>4, <1>5, <1>7, <1>8 DEF MutexInv, CountsOrGives

\* A mutex is given by t.
LEMMA MutexGiven ==
    ASSUME OnlyQueues, NEW live, NEW held, NEW td, NEW te, NEW qu, NEW qv, NEW ca, NEW ce,
           NEW t \in Task, MutexInv(live, held, td, qu, ca),
           OthersSame(td, te, t), OthersSame(ca, ce, t),
           NEW q \in Queue, IsMutex(q), qu[q].holder = t, qu[q].calls = 0, Items(qu, qv, q, 1, NULL),
           NEW now, now \in [Task -> Nat], held \in [Task -> Nat],
           now[t] = held[t] - 1, OthersSame(held, now, t),
           \A p \in Queue : Uncounted(qu, p, t) => p = q
    PROVE  MutexInv(live, now, te, qv, ce)
<1>1. NULL \notin Task /\ Length[q] = 1
  BY QueuesAssumption DEF IsMutex
<1>2. \A p \in Queue : p # q => qv[p] = qu[p]
  BY DEF Items
<1>3. qv[q].count = 1 /\ qv[q].holder = NULL /\ qv[q].calls = 0
  BY DEF Items
<1>4. \A p \in Queue :
           /\ qv[p].count <= Length[p]
           /\ IsMutex(p) => (qv[p].count = 0 <=> qv[p].holder # NULL)
           /\ ~IsMutex(p) => qv[p].holder = NULL
           /\ qv[p].holder \in live \cup {NULL}
           /\ qv[p].holder = NULL \/ Kind[p] # "recursive" => qv[p].calls = 0
  <2> SUFFICES ASSUME NEW p \in Queue
               PROVE  /\ qv[p].count <= Length[p]
                      /\ IsMutex(p) => (qv[p].count = 0 <=> qv[p].holder # NULL)
                      /\ ~IsMutex(p) => qv[p].holder = NULL
                      /\ qv[p].holder \in live \cup {NULL}
                      /\ qv[p].holder = NULL \/ Kind[p] # "recursive" => qv[p].calls = 0
    OBVIOUS
  <2>1. CASE p = q
    BY <1>1, <1>3, <2>1
  <2>2. CASE p # q
    BY <1>2, <2>2 DEF MutexInv
  <2> QED  BY <2>1, <2>2
<1>5. \A u \in Task : now[u] = Cardinality(MutexesOf(qv, u))
  <2> SUFFICES ASSUME NEW u \in Task PROVE now[u] = Cardinality(MutexesOf(qv, u))
    OBVIOUS
  <2>1. held[u] = Cardinality(MutexesOf(qu, u))
    BY DEF MutexInv
  <2>2. CASE u = t
    <3>1. MutexesOf(qv, t) = MutexesOf(qu, t) \ {q} /\ q \in MutexesOf(qu, t)
      BY <1>1, <1>2, <1>3 DEF MutexesOf
    <3>2. IsFiniteSet(MutexesOf(qu, t))
      <4>1. MutexesOf(qu, t) \subseteq Queue
        BY DEF MutexesOf
      <4> QED  BY <4>1, FS_Subset DEF OnlyQueues
    <3>3. Cardinality(MutexesOf(qu, t) \ {q}) = Cardinality(MutexesOf(qu, t)) - 1
      BY <3>1, <3>2, FS_RemoveElement
    <3> QED  BY <2>1, <2>2, <3>1, <3>3
  <2>3. CASE u # t
    <3>1. MutexesOf(qv, u) = MutexesOf(qu, u)
      BY <1>1, <1>2, <1>3, <2>3 DEF MutexesOf
    <3> QED  BY <2>1, <2>3, <3>1 DEF OthersSame
  <2> QED  BY <2>2, <2>3
<1>6. \A p \in Queue, u \in Task : Uncounted(qv, p, u) => u # t /\ Uncounted(qu, p, u)
  BY <1>1, <1>2, <1>3 DEF Uncounted
<1>7. \A p \in Queue, u \in Task : Uncounted(qv, p, u) => CountsOrGives(te[u], ce[u], p)
  <2> SUFFICES ASSUME NEW p \in Queue, NEW u \in Task, Uncounted(qv, p, u)
               PROVE  CountsOrGives(te[u], ce[u], p)
    OBVIOUS
  <2>1. u # t /\ Uncounted(qu, p, u)
    BY <1>6
  <2>2. CountsOrGives(td[u], ca[u], p)
    BY <2>1 DEF MutexInv, CountsOrGives
  <2> QED  BY <2>1, <2>2 DEF OthersSame
<1>8. \A p, r \in Queue, h \in Task : Uncounted(qv, p, h) /\ Uncounted(qv, r, h) => p = r
  <2>1. \A p, r \in Queue, h \in Task : Uncounted(qu, p, h) /\ Uncounted(qu, r, h) => p = r
    BY DEF MutexInv
  <2> QED  BY <1>6, <2>1
<1> QED  BY <1>4, <1>5, <1>7, <1>8 DEF MutexInv, CountsOrGives

\* One less, and t will not try for it again.
LEMMA WakeByLess ==
    ASSUME OnlyQueues, NEW kk, NEW td, NEW ca, NEW qu \in QueueStates, NEW r, NEW te, NEW ce,
           NEW qv \in QueueStates, NEW t \in Task, NEW q \in Queue, NEW s \in Side,
           KernelOk(kk), WakeOk(kk, td, qu, ca, q, s), Lets(kk, r),
           OthersSame(td, te, t), OthersSame(ca, ce, t), ~WillWait(te, ce, t, q, s),
           LockOf(qv, q, s) = LockOf(qu, q, s), Stock(qv, q, s) + 1 <= Stock(qu, q, s)
    PROVE  WakeOk(r, te, qv, ce, q, s)
<1>1. kk.live \subseteq Task /\ Idle \in kk.live /\ r.live = kk.live
  BY KernelOkLive DEF Lets
<1>2. /\ Stock(qu, q, s) \in Int /\ Stock(qv, q, s) \in Int
      /\ Owed(LockOf(qu, q, s)) \in Nat /\ LockOf(qu, q, s) \in Int
  BY SideNumbers
<1>3. Expected(r, te, ce, q, s) => Expected(kk, td, ca, q, s)
  BY ExpectedKept
<1>4. (Comers(kk, td, ca, q, s) \ {t}) \cup {} \subseteq Comers(r, te, ce, q, s)
  BY ComersKept
<1>5. Cardinality({}) = 0 /\ Cardinality({t}) = 1
  BY FS_EmptySet, FS_Singleton
<1>6. {} \in SUBSET Task /\ {t} \in SUBSET Task /\ Comers(kk, td, ca, q, s) \cap {} = {}
  OBVIOUS
<1>7. Stock(qv, q, s) + Cardinality({t}) + Owed(LockOf(qu, q, s))
          <= Stock(qu, q, s) + Cardinality({}) + Owed(LockOf(qv, q, s))
  BY <1>2, <1>5
<1> QED  BY <1>1, <1>3, <1>4, <1>6, <1>7, WakeTrade

\* What a step of task t that changes a queue has to see to.
ChangeFits(kk, qu, r, te, qv, ce, t) ==
    /\ \A q \in Queue : /\ qv[q].tx # queueUNLOCKED <=> LocksTx(te, ce, t, q)
                        /\ qv[q].rx # queueUNLOCKED <=> LocksRx(te, ce, t, q)
    /\ \A q \in Queue, d \in Side : Queued(r, t, q, d) => WillTry(te, ce, t, q, d)
    /\ \A q \in Queue, d \in Side : WakeOk(r, te, qv, ce, q, d)
    /\ \A q \in Queue, u \in Task : u # t /\ qu[q].holder = u
           => qv[q].holder = u /\ qv[q].calls = qu[q].calls
    /\ CallOk(t, te[t], ce[t], qv)
    /\ MutexInv(kk.live, r.held, te, qv, ce)

\* Such a step keeps the invariant.
LEMMA ChangeStepKeeps ==
    ASSUME OnlyQueues, NEW kk, NEW td, NEW qu \in QueueStates, NEW ca \in CallStates,
           QInv(kk, td, qu, ca), NEW r, Lets(kk, r),
           NEW te, NEW ce, NEW qv, NEW t \in Task, t = kk.current,
           OthersSame(td, te, t), OthersSame(ca, ce, t),
           WorkFits(t, te[t]), Suspends(r, te), Runs(r, te),
           ChangeFits(kk, qu, r, te, qv, ce, t)
    PROVE  QInv(r, te, qv, ce)
<1>1. /\ KernelOk(kk) /\ WorkOk(td, kk.live) /\ Suspends(kk, td)
      /\ WaiterInv(kk, td, ca) /\ CallInv(td, qu, ca)
  BY DEF QInv
<1>2. KernelOk(r) /\ r.live = kk.live
  BY DEF Lets
<1>3. kk.current \in kk.live
  BY <1>1, KernelOkLive
<1>4. WorkOk(te, r.live)
  BY <1>1, <1>2, <1>3, WorkKept
<1>5. LockInv(te, qv, ce)
  <2>1. \A q \in Queue : /\ qv[q].tx # queueUNLOCKED <=> LocksTx(te, ce, t, q)
                         /\ qv[q].rx # queueUNLOCKED <=> LocksRx(te, ce, t, q)
    BY DEF ChangeFits
  <2> QED  BY <1>1, <2>1, LocksKept
<1>6. WaiterInv(r, te, ce)
  <2>1. \A q \in Queue, s \in Side : WaitList(q, s) \in WaitLists
    BY WaitListsAreLists
  <2>2. \A q \in Queue, s \in Side, u \in Task : Queued(r, u, q, s) =>
            IF u = t THEN WillTry(te, ce, t, q, s) ELSE Queued(kk, u, q, s)
    BY <2>1 DEF Lets, Queued, ChangeFits
  <2> QED  BY <1>1, <2>2, WaitersKept
<1>7. CallInv(te, qv, ce)
  <2>1. \A u \in Task : ca[u].queue \in Queue
    BY DEF CallStates, CallRecord
  <2>2. CallOk(t, te[t], ce[t], qv)
    BY DEF ChangeFits
  <2>3. \A q \in Queue, u \in Task : u # t /\ qu[q].holder = u
            => qv[q].holder = u /\ qv[q].calls = qu[q].calls
    BY DEF ChangeFits
  <2> QED  BY <1>1, <2>1, <2>2, <2>3, CallsKept
<1>8. WakeInv(r, te, qv, ce) /\ MutexInv(r.live, r.held, te, qv, ce)
  BY <1>2 DEF WakeInv, ChangeFits
<1> QED  BY <1>2, <1>4, <1>5, <1>6, <1>7, <1>8 DEF QInv

\* It in terms of the variables.
LEMMA ChangeNext ==
    ASSUME OnlyQueues, QueuesInv, Lets(k, k'), queue' \in QueueStates,
           NEW s \in Seq(Work), todo' = [todo EXCEPT ![Me] = s],
           NEW c \in CallRecord, call' = [call EXCEPT ![Me] = c],
           UNCHANGED <<value, previous, allocated, app>>,
           WorkFits(Me, s), Suspends(k', todo'), Runs(k', todo'),
           ChangeFits(k, queue, k', todo', queue', call', Me)
    PROVE  QueuesInv'
<1>1. /\ queue \in QueueStates /\ call \in CallStates /\ todo \in [Task -> Seq(Work)]
      /\ QInv(k, todo, queue, call) /\ Me \in Task /\ k.current = Me
  BY InvFacts
<1>2. todo' \in [Task -> Seq(Work)] /\ todo'[Me] = s /\ OthersSame(todo, todo', Me)
  BY <1>1 DEF OthersSame
<1>3. call' \in CallStates /\ call'[Me] = c /\ OthersSame(call, call', Me)
  BY <1>1 DEF CallStates, OthersSame
<1>4. QInv(k', todo', queue', call')
  BY <1>1, <1>2, <1>3, ChangeStepKeeps
<1>5. k' \in KernelState
  BY DEF Lets, KernelOk, Sound
<1>6. QueuesTypeOK'
  BY <1>2, <1>3, <1>5, TypesNext DEF QueuesInv
<1> QED  BY <1>4, <1>6 DEF QueuesInv

\* A call that succeeds is at the head of its loop: no queue is locked.
LEMMA TryFacts ==
    ASSUME OnlyQueues, QueuesInv, Running("try"),
           todo' = [todo EXCEPT ![Me] = Rest], call' = [call EXCEPT ![Me] = NoCall]
    PROVE  /\ IsReady(k, Me) /\ Me # Idle /\ ~InQueueList(k, Me)
           /\ k.cpu = "task" /\ k.susp = 0 /\ Has(todo[Me], "try") /\ OpOf(todo[Me]) = "try"
           /\ Rest \in Seq(Work) /\ InSequence(Rest) /\ OpOf(Rest) \in {"none", "count"}
           /\ OpOf(Rest) \notin SuspSteps /\ (Has(todo[Me], "count") => OpOf(Rest) = "count")
           /\ todo'[Me] = Rest /\ OthersSame(todo, todo', Me)
           /\ call'[Me] = NoCall /\ OthersSame(call, call', Me)
           /\ \A q \in Queue : queue[q].tx = queueUNLOCKED /\ queue[q].rx = queueUNLOCKED
           /\ \A q \in Queue : ~LocksTx(todo', call', Me, q) /\ ~LocksRx(todo', call', Me, q)
           /\ \A q \in Queue, d \in Side, u \in Task : ~WillWait(todo', call', u, q, d)
           /\ \A q \in Queue, d \in Side : WillTry(todo, call, Me, q, d) => q = Q /\ This.kind \in KindsOf(d)
           /\ \A q \in Queue : Uncounted(queue, q, Me) => q = Q /\ This.kind = "send"
<1>1. "try" \in LoopOps /\ "try" \notin SuspSteps /\ "try" # "count" /\ "count" \notin SuspSteps
      /\ "none" \notin SuspSteps
  BY DEF LoopOps, SuspSteps, RxSteps, TxSteps
<1>2. /\ OpOf(todo[Me]) = "try" /\ Rest \in Seq(Work) /\ InSequence(Rest)
      /\ \A o : Has(todo[Me], o) <=> "try" = o \/ Has(Rest, o)
      /\ k.cpu = "task"
  BY RunningSays
<1>3. /\ IsReady(k, Me) /\ Me # Idle /\ \A e \in EventLists : ~Occurs(k.event[e], Me)
      /\ OpOf(Rest) \in {"none", "count"} /\ (Has(Rest, "count") <=> OpOf(Rest) = "count")
  BY <1>1, LoopFacts
<1>4. ~InQueueList(k, Me)
  BY <1>3, WaitListsAreLists DEF InQueueList
<1>5. /\ k.susp = 0 /\ \A u \in Task : OpOf(todo[u]) \notin SuspSteps
      /\ \A q \in Queue : queue[q].tx = queueUNLOCKED /\ queue[q].rx = queueUNLOCKED
      /\ \A q \in Queue, s \in Side, u \in Task : ~WillWait(todo, call, u, q, s)
  BY <1>1, <1>2, NothingLocked
<1>6. Me \in Task /\ todo \in [Task -> Seq(Work)] /\ call \in CallStates
  BY InvFacts
<1>7. todo'[Me] = Rest /\ OthersSame(todo, todo', Me)
  BY <1>6 DEF OthersSame
<1>8. call'[Me] = NoCall /\ OthersSame(call, call', Me)
  BY <1>6 DEF OthersSame, CallStates
<1>9. OpOf(Rest) \notin SuspSteps
  BY <1>1, <1>3
<1>10. \A q \in Queue : ~LocksTx(todo', call', Me, q) /\ ~LocksRx(todo', call', Me, q)
  BY <1>7, <1>9 DEF LocksTx, LocksRx, SuspSteps, RxSteps
<1>11. \A q \in Queue, d \in Side, u \in Task : ~WillWait(todo', call', u, q, d)
  <2> TAKE q \in Queue, d \in Side, u \in Task
  <2>1. CASE u = Me
    BY <1>3, <1>7, <2>1 DEF WillWait
  <2>2. CASE u # Me
    BY <1>5, <1>7, <1>8, <2>2 DEF WillWait, OthersSame
  <2> QED  BY <2>1, <2>2
<1>12. \A q \in Queue, d \in Side : WillTry(todo, call, Me, q, d) => q = Q /\ This.kind \in KindsOf(d)
  BY DEF WillTry, This, Q
<1>13. \A q \in Queue : Uncounted(queue, q, Me) => q = Q /\ This.kind = "send"
  <2>1. \A q \in Queue : Uncounted(queue, q, Me) => CountsOrGives(todo[Me], This, q)
    BY MyCall
  <2> QED  BY <1>1, <1>2, <2>1 DEF CountsOrGives, Q
<1> QED  BY <1>1, <1>2, <1>3, <1>4, <1>5, <1>7, <1>8, <1>9, <1>10, <1>11, <1>12, <1>13

\* A call succeeds: n items are in its queue now, and h holds it.
LEMMA TryReturns ==
    ASSUME OnlyQueues, QueuesInv, Running("try"), Eases(k, k'), k'.cpu = "task", k'.susp = 0,
           todo' = [todo EXCEPT ![Me] = Rest], call' = [call EXCEPT ![Me] = NoCall],
           UNCHANGED <<value, previous, allocated, app>>,
           NEW n \in Nat, NEW h, Items(queue, queue', Q, n, h),
           \A d \in Side : WakeOk(k', todo', queue', call', Q, d),
           MutexInv(k.live, k'.held, todo', queue', call'),
           h = queue[Q].holder \/ queue[Q].holder \in {Me, NULL}
    PROVE  QueuesInv'
<1>1. /\ IsReady(k, Me) /\ Me # Idle /\ ~InQueueList(k, Me)
      /\ k.cpu = "task" /\ k.susp = 0
      /\ Rest \in Seq(Work) /\ InSequence(Rest) /\ OpOf(Rest) \in {"none", "count"}
      /\ OpOf(Rest) \notin SuspSteps
      /\ todo'[Me] = Rest /\ OthersSame(todo, todo', Me)
      /\ call'[Me] = NoCall /\ OthersSame(call, call', Me)
      /\ \A q \in Queue : queue[q].tx = queueUNLOCKED /\ queue[q].rx = queueUNLOCKED
      /\ \A q \in Queue : ~LocksTx(todo', call', Me, q) /\ ~LocksRx(todo', call', Me, q)
      /\ \A q \in Queue, d \in Side, u \in Task : ~WillWait(todo', call', u, q, d)
      /\ \A q \in Queue, d \in Side : WillTry(todo, call, Me, q, d) => q = Q /\ This.kind \in KindsOf(d)
  BY TryFacts
<1>2. /\ queue \in QueueStates /\ QInv(k, todo, queue, call) /\ Me \in Task /\ k.current = Me
      /\ KernelOk(k)
  BY InvFacts
<1>3. NoCall \in CallRecord /\ Q \in Queue
  BY NothingToDo, MyCall
<1>4. Lets(k, k') /\ queue' \in QueueStates
  BY EasesLets DEF Items
<1>5. WorkFits(Me, Rest)
  BY <1>1 DEF WorkFits
<1>6. k'.current \in Task
  BY KernelOkLive DEF Eases
<1>7. Suspends(k', todo')
  <2>1. OpOf(todo'[k.current]) \notin SuspSteps /\ OthersSame(todo, todo', k.current)
        /\ k'.cpu \in {"task", "tick"}
    BY <1>1, <1>2
  <2> QED  BY <1>2, <1>6, <2>1, SuspendsSwitches DEF QInv
<1>8. Runs(k', todo')
  BY <1>1, <1>2 DEF Runs, Eases
<1>9. /\ \A p \in Queue, s \in Side : LockOf(queue', p, s) = LockOf(queue, p, s)
      /\ \A p \in Queue, s \in Side : p # Q => Stock(queue', p, s) = Stock(queue, p, s)
      /\ \A p \in Queue : queue'[p].tx = queue[p].tx /\ queue'[p].rx = queue[p].rx
  <2>1. \A p \in Queue : queue'[p].tx = queue[p].tx /\ queue'[p].rx = queue[p].rx
    BY DEF Items
  <2>2. \A p \in Queue : p # Q => queue'[p].count = queue[p].count
    BY DEF Items
  <2> QED  BY <2>1, <2>2 DEF LockOf, Stock
<1>10. \A q \in Queue, d \in Side : WakeOk(k', todo', queue', call', q, d)
  <2> SUFFICES ASSUME NEW q \in Queue, NEW d \in Side, q # Q
               PROVE  WakeOk(k', todo', queue', call', q, d)
    OBVIOUS
  <2>1. WakeOk(k, todo, queue, call, q, d)
    BY <1>2 DEF QInv, WakeInv
  <2>2. Me \notin Comers(k, todo, call, q, d) /\ ~WillWait(todo', call', Me, q, d)
    BY <1>1, <1>2 DEF Comers
  <2>3. Stock(queue', q, d) <= Stock(queue, q, d) /\ LockOf(queue', q, d) = LockOf(queue, q, d)
    BY <1>2, <1>4, <1>9, SideNumbers
  <2>4. k.live \subseteq Task /\ Idle \in k.live
    BY <1>2, KernelOkLive
  <2> QED  BY <1>1, <1>2, <1>4, <2>1, <2>2, <2>3, <2>4, WakeKept
<1>11. \A q \in Queue, d \in Side : ~Queued(k', Me, q, d)
  <2>1. \A q \in Queue, d \in Side : WaitList(q, d) \in WaitLists /\ WaitList(q, d) \in QueueLists
    BY WaitListsAreLists, WaitListNames
  <2> QED  BY <1>1, <1>2, <1>4, <2>1 DEF Queued, Lets, InQueueList
<1>12. CallOk(Me, Rest, NoCall, queue')
  BY <1>1, RestFits
<1>13. \A q \in Queue, u \in Task : u # Me /\ queue[q].holder = u
           => queue'[q].holder = u /\ queue'[q].calls = queue[q].calls
  <2>1. \A u \in Task : u # NULL
    BY QueuesAssumption
  <2> QED  BY <1>3, <2>1 DEF Items
<1>14. ChangeFits(k, queue, k', todo', queue', call', Me)
  BY <1>1, <1>9, <1>10, <1>11, <1>12, <1>13 DEF ChangeFits
<1> QED  BY <1>1, <1>3, <1>4, <1>5, <1>7, <1>8, <1>14, ChangeNext

\* The running task counts one more mutex.
HoldsOneMore(kk, t) == [kk EXCEPT !.held[t] = @ + 1]

\* Counting a mutex moves no task.
LEMMA HeldEases ==
    ASSUME NEW kk, KernelOk(kk), NEW t \in Task
    PROVE  LET r == HoldsOneMore(kk, t)
           IN  /\ Eases(kk, r) /\ r.current = kk.current /\ r.event = kk.event
               /\ r.susp = kk.susp /\ r.cpu = kk.cpu
               /\ r.held[t] = kk.held[t] + 1 /\ OthersSame(kk.held, r.held, t)
<1> DEFINE r == HoldsOneMore(kk, t)
           n == kk.held[t] + 1
<1>1. kk \in KernelState /\ kk.held \in [Task -> Nat]
  BY KernelOkLive, FieldTypes
<1>2. n \in Nat
  BY <1>1
<1>3. r = [kk EXCEPT !.held[t] = n]
  BY DEF HoldsOneMore
<1> HIDE DEF n, r
<1>4. /\ r \in KernelState /\ SameLists(kk, r) /\ r.prio = kk.prio /\ r.live = kk.live
      /\ r.top = kk.top /\ r.order = kk.order /\ r.current = kk.current
      /\ r.susp = kk.susp /\ r.cpu = kk.cpu /\ r.held = [kk.held EXCEPT ![t] = n]
  BY <1>1, <1>2, <1>3 DEF KernelState, SameLists
<1>5. r.held[t] = n /\ OthersSame(kk.held, r.held, t)
  BY <1>1, <1>4 DEF OthersSame
<1>6. Eases(kk, r) /\ r.event = kk.event
  BY <1>4, FlagEases
<1> QED  BY <1>4, <1>5, <1>6 DEF r, n

\* What a call that goes on finds in its queue.
LEMMA TryCounts ==
    ASSUME OnlyQueues, QueuesInv, Running("try"), Succeeds
    PROVE  /\ queue[Q].count \in Nat /\ queue[Q].count <= Length[Q] /\ Length[Q] \in Nat \ {0}
           /\ queue[Q].holder \in Task \cup {NULL}
           /\ This.kind = "send" => queue[Q].count < Length[Q]
           /\ This.kind \in {"receive", "peek", "take"} => queue[Q].count > 0
           /\ This.kind \in {"overwrite", "receive", "peek"} => ~IsMutex(Q)
           /\ IsMutex(Q) => Length[Q] = 1 /\ (queue[Q].count = 0 <=> queue[Q].holder # NULL)
           /\ IsMutex(Q) /\ This.kind = "send" => queue[Q].holder = Me /\ queue[Q].calls = 0
           /\ Kind[Q] = "recursive" /\ This.kind = "take" => Has(todo[Me], "count")
<1>1. /\ queue \in QueueStates /\ QInv(k, todo, queue, call) /\ This \in CallRecord /\ Q \in Queue
      /\ CallOk(Me, todo[Me], This, queue)
  BY InvFacts, MyCall
<1>2. queue[Q].count \in Nat /\ Length[Q] \in Nat \ {0} /\ queue[Q].holder \in Task \cup {NULL}
  <2>1. queue[Q] \in QueueRecord
    BY <1>1 DEF QueueStates
  <2> QED  BY <1>1, <2>1, QueuesAssumption DEF QueueRecord
<1>3. queue[Q].count <= Length[Q] /\ (IsMutex(Q) => (queue[Q].count = 0 <=> queue[Q].holder # NULL))
  BY <1>1 DEF QInv, MutexInv
<1>4. This.kind \in {"overwrite", "receive", "peek"} => ~IsMutex(Q)
  BY <1>1 DEF CallOk, IsMutex, Q
<1>5. IsMutex(Q) => Length[Q] = 1
  BY <1>1, QueuesAssumption DEF IsMutex
<1>6. Has(todo[Me], "try") /\ "try" \in LoopOps
  BY RunningSays DEF LoopOps
<1>7. IsMutex(Q) /\ This.kind = "send" => queue[Q].holder = Me /\ queue[Q].calls = 0
  BY <1>1, <1>6 DEF CallOk, Busy, Q
<1>8. /\ This.kind = "send" => queue[Q].count < Length[Q]
      /\ This.kind \in {"receive", "peek", "take"} => queue[Q].count > 0
  BY DEF Succeeds
<1>9. Kind[Q] = "recursive" /\ This.kind = "take" => Has(todo[Me], "count")
  BY <1>1 DEF CallOk, Q
<1> QED  BY <1>2, <1>3, <1>4, <1>5, <1>7, <1>8, <1>9

\* An item is added: the first task that waits for one is woken.
LEMMA SendNowKeeps ==
    ASSUME OnlyQueues, QueuesInv, TryNow, SendNow
    PROVE  QueuesInv'
<1> DEFINE e == xTasksWaitingToReceive(Q)
           c == queue[Q].count
           n == IF Full(Q) THEN c ELSE c + 1
           k1 == IF IsMutex(Q) THEN xTaskPriorityDisinherit(k, queue[Q].holder) ELSE k
<1>1. /\ Running("try") /\ Succeeds /\ Sends
      /\ todo' = [todo EXCEPT ![Me] = Rest] /\ call' = [call EXCEPT ![Me] = NoCall]
      /\ UNCHANGED <<value, previous, allocated, app>>
  BY DEF TryNow, Return, Done, Continue, SendNow
<1>2. /\ queue' = [queue EXCEPT ![Q].holder = NULL, ![Q].count = n]
      /\ k' = IF k1.event[e] # <<>> THEN UnblockAndYield(k1, e)
              ELSE IF IsMutex(Q) /\ DisinheritOccurs(k, queue[Q].holder)
              THEN vTaskSwitchContext(k1) ELSE k1
  <2>1. queue' = [queue EXCEPT ![Q].holder = NULL,
                               ![Q].count = IF Full(Q) THEN @ ELSE @ + 1]
    BY DEF SendNow
  <2>2. queue \in QueueStates /\ Q \in Queue
    BY InvFacts, MyCall
  <2>3. queue' = [queue EXCEPT ![Q].holder = NULL, ![Q].count = n]
    BY <2>1, <2>2 DEF QueueStates, QueueRecord
  <2> QED  BY <2>3 DEF SendNow
<1>3. /\ queue \in QueueStates /\ Q \in Queue /\ QInv(k, todo, queue, call) /\ Me \in Task
      /\ k.current = Me /\ KernelOk(k) /\ Me \in k.live /\ This.kind \in {"send", "overwrite"}
      /\ k.held \in [Task -> Nat]
  BY <1>1, InvFacts, MyCall, FieldTypes DEF Sends
<1>4. /\ c \in Nat /\ c <= Length[Q] /\ Length[Q] \in Nat \ {0}
      /\ This.kind = "send" => c < Length[Q]
      /\ IsMutex(Q) => This.kind = "send" /\ Length[Q] = 1
      /\ IsMutex(Q) => queue[Q].holder = Me /\ queue[Q].calls = 0
  BY <1>1, <1>3, TryCounts
<1>5. n \in Nat /\ n <= Length[Q] /\ n <= c + 1 /\ (This.kind = "send" => n = c + 1) /\ n >= c
  BY <1>4 DEF Full
<1> HIDE DEF n
<1>6. Items(queue, queue', Q, n, NULL)
  BY <1>2, <1>3, <1>5, ItemsSet
<1>7. /\ IsReady(k, Me) /\ Me # Idle /\ ~InQueueList(k, Me) /\ k.cpu = "task" /\ k.susp = 0
      /\ todo'[Me] = Rest /\ OthersSame(todo, todo', Me)
      /\ call'[Me] = NoCall /\ OthersSame(call, call', Me)
      /\ \A q \in Queue, d \in Side, u \in Task : ~WillWait(todo', call', u, q, d)
      /\ \A q \in Queue, d \in Side : WillTry(todo, call, Me, q, d) => q = Q /\ This.kind \in KindsOf(d)
      /\ \A q \in Queue : Uncounted(queue, q, Me) => q = Q /\ This.kind = "send"
  BY <1>1, TryFacts
<1>8. /\ Eases(k, k1) /\ k1.event = k.event /\ k1.susp = 0 /\ k1.cpu = "task"
      /\ IF IsMutex(Q) THEN k1.held = [k.held EXCEPT ![Me] = @ - 1] /\ k.held[Me] > 0
         ELSE k1.held = k.held
  <2>1. CASE ~IsMutex(Q)
    BY <1>3, <1>7, <2>1, EasesSame
  <2>2. CASE IsMutex(Q)
    <3>1. k.held[Me] = Cardinality(MutexesOf(queue, Me)) /\ Q \in MutexesOf(queue, Me)
          /\ IsFiniteSet(MutexesOf(queue, Me))
      <4>1. MutexesOf(queue, Me) \subseteq Queue /\ Q \in MutexesOf(queue, Me)
        BY <1>3, <1>4, <2>2 DEF MutexesOf
      <4>2. IsFiniteSet(MutexesOf(queue, Me))
        BY <4>1, FS_Subset DEF OnlyQueues
      <4> QED  BY <1>3, <4>1, <4>2 DEF QInv, MutexInv
    <3>2. k.held[Me] # 0
      BY <3>1, FS_EmptySet
    <3>3. k.held[Me] > 0
      BY <1>3, <3>2
    <3>4. k1 = xTaskPriorityDisinherit(k, Me)
      BY <1>4, <2>2
    <3> HIDE DEF k1
    <3>5. /\ Eases(k, k1) /\ k1.held = [k.held EXCEPT ![Me] = @ - 1]
          /\ k1.susp = k.susp /\ k1.cpu = k.cpu /\ k1.event = k.event
      BY <1>3, <1>7, <3>3, <3>4, DisinheritEases
    <3> QED  BY <1>7, <2>2, <3>3, <3>5
  <2> QED  BY <2>1, <2>2
<1> HIDE DEF k1
<1>9. KernelOk(k1) /\ e \in WaitLists
  BY <1>3, <1>8, WaitListsAreLists DEF Eases
<1>10. Eases(k1, k') /\ SameModes(k1, k') /\ WakesFirst(k, k', e)
  <2>1. CASE k1.event[e] # <<>>
    BY <1>2, <1>8, <1>9, <2>1, UnblockAndYieldEases DEF WakesFirst
  <2>2. CASE k1.event[e] = <<>>
    <3>1. k' \in {vTaskSwitchContext(k1), k1}
      BY <1>2, <2>2
    <3>2. Eases(k1, k') /\ SameModes(k1, k')
      BY <1>9, <3>1, SwitchEases, EasesSame DEF SameModes
    <3> QED  BY <1>8, <2>2, <3>2 DEF WakesFirst
  <2> QED  BY <2>1, <2>2
<1>11. Eases(k, k') /\ k'.susp = 0 /\ k'.cpu = "task" /\ k'.held = k1.held /\ Lets(k, k')
       /\ k' \in KernelState
  <2>1. Eases(k, k')
    BY <1>8, <1>10, EasesTwice
  <2> QED  BY <1>8, <1>10, <2>1, EasesLets, KernelOkLive DEF SameModes, Eases
<1>12. /\ \A s \in Side : LockOf(queue', Q, s) = LockOf(queue, Q, s)
       /\ Stock(queue', Q, "send") = Length[Q] - n /\ Stock(queue', Q, "receive") = n
       /\ Stock(queue, Q, "send") = Length[Q] - c /\ Stock(queue, Q, "receive") = c
       /\ queue' \in QueueStates
  BY <1>3, <1>6 DEF Items, LockOf, Stock
<1>13. /\ \A s \in Side : WakeOk(k, todo, queue, call, Q, s)
       /\ WaiterInv(k, todo, call) /\ k.live \subseteq Task /\ Idle \in k.live
  BY <1>3, KernelOkLive DEF QInv, WakeInv
<1>14. "send" \in Side /\ "receive" \in Side /\ e = WaitList(Q, "receive")
  BY DEF Side, WaitList
<1> HIDE DEF c, e
<1>15. WakeOk(k', todo', queue', call', Q, "receive")
  <2>1. Stock(queue', Q, "receive") <= Stock(queue, Q, "receive") + 1
    BY <1>5, <1>12
  <2>2. ~WillTry(todo, call, Me, Q, "receive")
    BY <1>3, <1>7, <1>14 DEF KindsOf
  <2>3. \A u \in Task : ~WillWait(todo', call', u, Q, "receive")
    BY <1>3, <1>7, <1>14
  <2>4. LockOf(queue', Q, "receive") = LockOf(queue, Q, "receive") /\ WakesFirst(k, k', WaitList(Q, "receive"))
    BY <1>10, <1>12, <1>14
  <2> QED  BY <1>3, <1>7, <1>11, <1>12, <1>13, <1>14, <2>1, <2>2, <2>3, <2>4, WakeByOne
<1>16. WakeOk(k', todo', queue', call', Q, "send")
  <2>1. ~WillWait(todo', call', Me, Q, "send") /\ LockOf(queue', Q, "send") = LockOf(queue, Q, "send")
    BY <1>3, <1>7, <1>12, <1>14
  <2>2. CASE This.kind = "send"
    <3>1. Stock(queue', Q, "send") + 1 <= Stock(queue, Q, "send")
      BY <1>4, <1>5, <1>12, <2>2 DEF c
    <3> QED  BY <1>3, <1>7, <1>11, <1>12, <1>13, <1>14, <2>1, <3>1, WakeByLess
  <2>3. CASE This.kind = "overwrite"
    <3>1. Stock(queue', Q, "send") <= Stock(queue, Q, "send")
      BY <1>4, <1>5, <1>12 DEF c
    <3>2. Me \notin Comers(k, todo, call, Q, "send")
      BY <1>3, <1>7, <1>14, <2>3 DEF Comers, KindsOf
    <3> QED  BY <1>3, <1>7, <1>11, <1>12, <1>13, <1>14, <2>1, <3>1, <3>2, WakeKept
  <2> QED  BY <1>3, <2>2, <2>3
<1>17. MutexInv(k.live, k'.held, todo', queue', call')
  <2>1. MutexInv(k.live, k.held, todo, queue, call)
    BY <1>3 DEF QInv
  <2>2. CASE ~IsMutex(Q)
    <3>1. \A q \in Queue : /\ queue'[q].count = queue[q].count \/ (~IsMutex(q) /\ queue'[q].count <= Length[q])
                           /\ queue'[q].holder = queue[q].holder /\ queue'[q].calls = queue[q].calls
      BY <1>3, <1>5, <1>6, <2>1, <2>2 DEF Items, MutexInv
    <3>2. \A q \in Queue : Uncounted(queue, q, Me) => CountsOrGives(todo'[Me], call'[Me], q)
      BY <1>7, <2>2 DEF Uncounted, IsMutex
    <3>3. k'.held = k.held
      BY <1>8, <1>11, <2>2
    <3> QED  BY <1>3, <1>7, <2>1, <3>1, <3>2, <3>3, MutexesKept
  <2>3. CASE IsMutex(Q)
    <3>1. n = 1 /\ queue[Q].holder = Me /\ queue[Q].calls = 0
      BY <1>4, <1>5, <2>3
    <3>2. k'.held \in [Task -> Nat] /\ k'.held[Me] = k.held[Me] - 1 /\ OthersSame(k.held, k'.held, Me)
      BY <1>3, <1>8, <1>11, <2>3, FieldTypes DEF OthersSame
    <3>3. \A q \in Queue : Uncounted(queue, q, Me) => q = Q
      BY <1>7
    <3> QED  BY <1>3, <1>6, <1>7, <2>1, <2>3, <3>1, <3>2, <3>3, MutexGiven
  <2> QED  BY <2>2, <2>3
<1>18. \A d \in Side : WakeOk(k', todo', queue', call', Q, d)
  BY <1>15, <1>16 DEF Side
<1>19. queue[Q].holder \in {Me, NULL}
  BY <1>3, <1>4 DEF QInv, MutexInv
<1> QED  BY <1>1, <1>5, <1>6, <1>11, <1>17, <1>18, <1>19, TryReturns

\* An item is taken: the first task that waits for room is woken.
LEMMA ReceiveNowKeeps ==
    ASSUME OnlyQueues, QueuesInv, TryNow, ReceiveNow
    PROVE  QueuesInv'
<1> DEFINE e == xTasksWaitingToSend(Q)
           c == queue[Q].count
           n == c - 1
           h == IF IsMutex(Q) THEN Me ELSE queue[Q].holder
           k1 == IF IsMutex(Q) THEN HoldsOneMore(k, Me) ELSE k
<1>1. /\ Running("try") /\ Succeeds /\ This.kind \in {"receive", "take"}
      /\ todo' = [todo EXCEPT ![Me] = Rest] /\ call' = [call EXCEPT ![Me] = NoCall]
      /\ UNCHANGED <<value, previous, allocated, app>>
  BY DEF TryNow, Return, Done, Continue, ReceiveNow
<1>2. queue' = [queue EXCEPT ![Q].count = n, ![Q].holder = h] /\ k' = UnblockAndYield(k1, e)
  <2>1. queue' = [queue EXCEPT ![Q].count = @ - 1, ![Q].holder = IF IsMutex(Q) THEN Me ELSE @]
    BY DEF ReceiveNow
  <2>2. queue \in QueueStates /\ Q \in Queue
    BY InvFacts, MyCall
  <2>3. queue' = [queue EXCEPT ![Q].count = n, ![Q].holder = h]
    BY <2>1, <2>2 DEF QueueStates, QueueRecord
  <2> QED  BY <2>3 DEF ReceiveNow, HoldsOneMore
<1>3. /\ queue \in QueueStates /\ Q \in Queue /\ QInv(k, todo, queue, call) /\ Me \in Task
      /\ k.current = Me /\ KernelOk(k) /\ Me \in k.live
      /\ k.held \in [Task -> Nat]
  BY <1>1, InvFacts, MyCall, FieldTypes
<1>4. /\ c \in Nat /\ c <= Length[Q] /\ Length[Q] \in Nat \ {0} /\ c > 0
      /\ queue[Q].holder \in Task \cup {NULL}
      /\ IsMutex(Q) => Length[Q] = 1 /\ (c = 0 <=> queue[Q].holder # NULL)
      /\ Kind[Q] = "recursive" => This.kind = "take" /\ Has(todo[Me], "count")
  BY <1>1, <1>3, TryCounts DEF IsMutex
<1>5. n \in Nat /\ n <= Length[Q] /\ n + 1 = c /\ (IsMutex(Q) => n = 0 /\ queue[Q].holder = NULL)
  BY <1>4
<1>6. h \in Task \cup {NULL}
  BY <1>3, <1>4
<1> HIDE DEF n, h, c
<1>7. Items(queue, queue', Q, n, h)
  BY <1>2, <1>3, <1>5, <1>6, ItemsSet
<1>8. /\ IsReady(k, Me) /\ Me # Idle /\ ~InQueueList(k, Me) /\ k.cpu = "task" /\ k.susp = 0
      /\ (Has(todo[Me], "count") => OpOf(Rest) = "count")
      /\ todo'[Me] = Rest /\ OthersSame(todo, todo', Me)
      /\ call'[Me] = NoCall /\ OthersSame(call, call', Me)
      /\ \A q \in Queue, d \in Side, u \in Task : ~WillWait(todo', call', u, q, d)
      /\ \A q \in Queue, d \in Side : WillTry(todo, call, Me, q, d) => q = Q /\ This.kind \in KindsOf(d)
      /\ \A q \in Queue : ~Uncounted(queue, q, Me)
  BY <1>1, TryFacts
<1>9. /\ Eases(k, k1) /\ k1.event = k.event /\ k1.susp = 0 /\ k1.cpu = "task"
      /\ IF IsMutex(Q) THEN k1.held[Me] = k.held[Me] + 1 /\ OthersSame(k.held, k1.held, Me)
         ELSE k1.held = k.held
  BY <1>3, <1>8, HeldEases, EasesSame
<1> HIDE DEF k1
<1>10. KernelOk(k1) /\ e \in WaitLists
  BY <1>3, <1>9, WaitListsAreLists DEF Eases
<1>11. Eases(k1, k') /\ SameModes(k1, k') /\ WakesFirst(k, k', e)
  BY <1>2, <1>9, <1>10, UnblockAndYieldEases DEF WakesFirst
<1>12. Eases(k, k') /\ k'.susp = 0 /\ k'.cpu = "task" /\ k'.held = k1.held /\ Lets(k, k')
       /\ k' \in KernelState
  <2>1. Eases(k, k')
    BY <1>9, <1>11, EasesTwice
  <2> QED  BY <1>9, <1>11, <2>1, EasesLets, KernelOkLive DEF SameModes, Eases
<1>13. /\ \A s \in Side : LockOf(queue', Q, s) = LockOf(queue, Q, s)
       /\ Stock(queue', Q, "send") = Length[Q] - n /\ Stock(queue', Q, "receive") = n
       /\ Stock(queue, Q, "send") = Length[Q] - c /\ Stock(queue, Q, "receive") = c
       /\ queue' \in QueueStates
  BY <1>3, <1>7 DEF Items, LockOf, Stock, c
<1>14. /\ \A s \in Side : WakeOk(k, todo, queue, call, Q, s)
       /\ WaiterInv(k, todo, call) /\ k.live \subseteq Task /\ Idle \in k.live
  BY <1>3, KernelOkLive DEF QInv, WakeInv
<1>15. "send" \in Side /\ "receive" \in Side /\ e = WaitList(Q, "send")
  BY DEF Side, WaitList
<1> HIDE DEF e
<1>16. WakeOk(k', todo', queue', call', Q, "send")
  <2>1. Stock(queue', Q, "send") <= Stock(queue, Q, "send") + 1
    BY <1>4, <1>5, <1>13
  <2>2. ~WillTry(todo, call, Me, Q, "send")
    BY <1>1, <1>3, <1>8, <1>15 DEF KindsOf
  <2>3. \A u \in Task : ~WillWait(todo', call', u, Q, "send")
    BY <1>3, <1>8, <1>15
  <2>4. LockOf(queue', Q, "send") = LockOf(queue, Q, "send") /\ WakesFirst(k, k', WaitList(Q, "send"))
    BY <1>11, <1>13, <1>15
  <2> QED  BY <1>3, <1>8, <1>12, <1>13, <1>14, <1>15, <2>1, <2>2, <2>3, <2>4, WakeByOne
<1>17. WakeOk(k', todo', queue', call', Q, "receive")
  <2>1. ~WillWait(todo', call', Me, Q, "receive") /\ LockOf(queue', Q, "receive") = LockOf(queue, Q, "receive")
    BY <1>3, <1>8, <1>13, <1>15
  <2>2. Stock(queue', Q, "receive") + 1 <= Stock(queue, Q, "receive")
    BY <1>4, <1>5, <1>13
  <2> QED  BY <1>3, <1>8, <1>12, <1>13, <1>14, <1>15, <2>1, <2>2, WakeByLess
<1>18. MutexInv(k.live, k'.held, todo', queue', call')
  <2>1. MutexInv(k.live, k.held, todo, queue, call)
    BY <1>3 DEF QInv
  <2>2. CASE ~IsMutex(Q)
    <3>1. \A q \in Queue : /\ queue'[q].count = queue[q].count \/ (~IsMutex(q) /\ queue'[q].count <= Length[q])
                           /\ queue'[q].holder = queue[q].holder /\ queue'[q].calls = queue[q].calls
      BY <1>3, <1>5, <1>7, <2>2 DEF Items, h
    <3>2. \A q \in Queue : Uncounted(queue, q, Me) => CountsOrGives(todo'[Me], call'[Me], q)
      BY <1>8
    <3>3. k'.held = k.held
      BY <1>9, <1>12, <2>2
    <3> QED  BY <1>3, <1>8, <2>1, <3>1, <3>2, <3>3, MutexesKept
  <2>3. CASE IsMutex(Q)
    <3>1. n = 0 /\ h = Me /\ queue[Q].holder = NULL
      BY <1>5, <2>3 DEF h
    <3>2. k'.held \in [Task -> Nat] /\ k'.held[Me] = k.held[Me] + 1 /\ OthersSame(k.held, k'.held, Me)
      BY <1>3, <1>9, <1>12, <2>3, FieldTypes DEF OthersSame
    <3>3. Kind[Q] = "recursive" => OpOf(todo'[Me]) = "count"
      BY <1>4, <1>8
    <3>4. Items(queue, queue', Q, 0, Me)
      BY <1>7, <3>1
    <3> QED  BY <1>3, <1>8, <2>1, <2>3, <3>1, <3>2, <3>3, <3>4, MutexTaken
  <2> QED  BY <2>2, <2>3
<1>19. \A d \in Side : WakeOk(k', todo', queue', call', Q, d)
  BY <1>16, <1>17 DEF Side
<1>20. h = queue[Q].holder \/ queue[Q].holder \in {Me, NULL}
  BY <1>5 DEF h
<1> QED  BY <1>1, <1>5, <1>7, <1>12, <1>18, <1>19, <1>20, TryReturns

\* An item is looked at: the first task that waits for one is woken.
LEMMA PeekNowKeeps ==
    ASSUME OnlyQueues, QueuesInv, TryNow, PeekNow
    PROVE  QueuesInv'
<1> DEFINE e == xTasksWaitingToReceive(Q)
           n == queue[Q].count
           h == queue[Q].holder
<1>1. /\ Running("try") /\ Succeeds /\ This.kind = "peek" /\ queue' = queue
      /\ todo' = [todo EXCEPT ![Me] = Rest] /\ call' = [call EXCEPT ![Me] = NoCall]
      /\ UNCHANGED <<value, previous, allocated, app>> /\ k' = UnblockAndYield(k, e)
  BY DEF TryNow, Return, Done, Continue, PeekNow
<1>2. /\ queue \in QueueStates /\ Q \in Queue /\ QInv(k, todo, queue, call) /\ Me \in Task
      /\ k.current = Me /\ KernelOk(k) /\ Me \in k.live
  BY <1>1, InvFacts, MyCall
<1>3. n \in Nat /\ ~IsMutex(Q)
  BY <1>1, TryCounts
<1>4. Items(queue, queue', Q, n, h)
  BY <1>1, <1>2 DEF Items
<1>5. /\ IsReady(k, Me) /\ Me # Idle /\ ~InQueueList(k, Me) /\ k.cpu = "task" /\ k.susp = 0
      /\ todo'[Me] = Rest /\ OthersSame(todo, todo', Me)
      /\ call'[Me] = NoCall /\ OthersSame(call, call', Me)
      /\ \A q \in Queue, d \in Side, u \in Task : ~WillWait(todo', call', u, q, d)
      /\ \A q \in Queue, d \in Side : WillTry(todo, call, Me, q, d) => q = Q /\ This.kind \in KindsOf(d)
      /\ \A q \in Queue : ~Uncounted(queue, q, Me)
  BY <1>1, TryFacts
<1>6. e \in WaitLists
  BY <1>2, WaitListsAreLists
<1>7. Eases(k, k') /\ SameModes(k, k') /\ WakesFirst(k, k', e)
  BY <1>1, <1>2, <1>6, UnblockAndYieldEases
<1>8. k'.susp = 0 /\ k'.cpu = "task" /\ k'.held = k.held /\ Lets(k, k')
  BY <1>5, <1>7, EasesLets DEF SameModes
<1>9. /\ \A s \in Side : WakeOk(k, todo, queue, call, Q, s)
      /\ WaiterInv(k, todo, call) /\ k.live \subseteq Task /\ Idle \in k.live
  BY <1>2, KernelOkLive DEF QInv, WakeInv
<1>10. "send" \in Side /\ "receive" \in Side /\ e = WaitList(Q, "receive")
  BY DEF Side, WaitList
<1>11. \A s \in Side : Stock(queue', Q, s) <= Stock(queue, Q, s) /\ LockOf(queue', Q, s) = LockOf(queue, Q, s)
  BY <1>1, <1>2, SideNumbers
<1>12. queue' \in QueueStates
  BY <1>1, <1>2
<1> HIDE DEF e, n, h
<1>13. WakeOk(k', todo', queue', call', Q, "receive")
  <2>1. \A u \in Task : ~WillWait(todo', call', u, Q, "receive")
    BY <1>2, <1>5, <1>10
  <2>2. /\ LockOf(queue', Q, "receive") = LockOf(queue, Q, "receive")
        /\ WakesFirst(k, k', WaitList(Q, "receive"))
        /\ Stock(queue', Q, "receive") <= Stock(queue, Q, "receive")
    BY <1>7, <1>10, <1>11
  <2> QED  BY <1>2, <1>5, <1>8, <1>9, <1>10, <1>12, <2>1, <2>2, WakeByOne
<1>14. WakeOk(k', todo', queue', call', Q, "send")
  <2>1. ~WillWait(todo', call', Me, Q, "send") /\ LockOf(queue', Q, "send") = LockOf(queue, Q, "send")
        /\ Stock(queue', Q, "send") <= Stock(queue, Q, "send")
    BY <1>2, <1>5, <1>10, <1>11
  <2>2. Me \notin Comers(k, todo, call, Q, "send")
    BY <1>1, <1>2, <1>5, <1>10 DEF Comers, KindsOf
  <2> QED  BY <1>2, <1>5, <1>8, <1>9, <1>10, <1>12, <2>1, <2>2, WakeKept
<1>15. MutexInv(k.live, k'.held, todo', queue', call')
  <2>1. MutexInv(k.live, k.held, todo, queue, call)
    BY <1>2 DEF QInv
  <2>2. \A q \in Queue : /\ queue'[q].count = queue[q].count \/ (~IsMutex(q) /\ queue'[q].count <= Length[q])
                         /\ queue'[q].holder = queue[q].holder /\ queue'[q].calls = queue[q].calls
    BY <1>1
  <2>3. \A q \in Queue : Uncounted(queue, q, Me) => CountsOrGives(todo'[Me], call'[Me], q)
    BY <1>5
  <2> QED  BY <1>2, <1>5, <1>8, <2>1, <2>2, <2>3, MutexesKept
<1>16. \A d \in Side : WakeOk(k', todo', queue', call', Q, d)
  BY <1>13, <1>14 DEF Side
<1>17. h = queue[Q].holder \/ queue[Q].holder \in {Me, NULL}
  BY DEF h
<1> QED  BY <1>1, <1>3, <1>4, <1>7, <1>8, <1>15, <1>16, <1>17, TryReturns DEF n

\* prvLockQueue.
LEMMA LockKeeps ==
    ASSUME OnlyQueues, QueuesInv, Lock
    PROVE  QueuesInv'
<1> DEFINE s == <<Do("timeOut")>> \o Rest
<1>1. /\ Running("lock") /\ todo' = [todo EXCEPT ![Me] = s] /\ k' = k
      /\ queue' = [queue EXCEPT ![Q].rx = IF @ = queueUNLOCKED THEN 0 ELSE @,
                                ![Q].tx = IF @ = queueUNLOCKED THEN 0 ELSE @]
      /\ UNCHANGED <<value, previous, allocated, app, call>>
  BY DEF Lock, Continue
<1>2. /\ "lock" \in LoopOps /\ "timeOut" \in LoopOps /\ "lock" \in SuspSteps /\ "timeOut" \in SuspSteps
      /\ "lock" \notin RxSteps /\ "lock" \notin TxSteps /\ "timeOut" \in TxSteps /\ "timeOut" \in RxSteps
  BY DEF LoopOps, SuspSteps, RxSteps, TxSteps
<1>3. /\ queue \in QueueStates /\ Q \in Queue /\ QInv(k, todo, queue, call) /\ Me \in Task
      /\ k.current = Me /\ KernelOk(k) /\ Me \in k.live /\ This \in CallRecord
      /\ CallOk(Me, todo[Me], This, queue) /\ todo \in [Task -> Seq(Work)] /\ call \in CallStates
      /\ \A q \in Queue : Uncounted(queue, q, Me) => CountsOrGives(todo[Me], This, q)
  BY InvFacts, MyCall
<1>4. /\ OpOf(todo[Me]) = "lock" /\ k.cpu = "task" /\ k.susp = 1
      /\ \A o : Has(todo[Me], o) <=> "lock" = o \/ Has(Rest, o)
  BY <1>1, <1>2, RunningSays
<1>5. /\ IsReady(k, Me) /\ Me # Idle /\ (\A e \in EventLists : ~Occurs(k.event[e], Me))
      /\ \A o : Has(Rest, o) => o = "count"
  BY <1>1, <1>2, LoopFacts
<1>6. /\ s \in Seq(Work) /\ InSequence(s) /\ OpOf(s) = "timeOut"
      /\ Has(Rest, "count") => Has(s, "count")
  BY <1>1, <1>2, LoopWork
<1> HIDE DEF s
<1>7. \A q \in Queue : queue[q].tx = queueUNLOCKED /\ queue[q].rx = queueUNLOCKED
  <2>1. \A q \in Queue : ~LocksTx(todo, call, Me, q) /\ ~LocksRx(todo, call, Me, q)
    BY <1>2, <1>4 DEF LocksTx, LocksRx
  <2> QED  BY <1>3, <2>1, LocksSay DEF QInv
<1>8. /\ queue' = [queue EXCEPT ![Q] = [queue[Q] EXCEPT !.rx = 0, !.tx = 0]]
  BY <1>1, <1>3, <1>7 DEF QueueStates, QueueRecord
<1>9. /\ queue' \in QueueStates /\ queue'[Q].tx = 0 /\ queue'[Q].rx = 0
      /\ \A q \in Queue : q # Q => queue'[q] = queue[q]
      /\ \A q \in Queue : /\ queue'[q].count = queue[q].count /\ queue'[q].holder = queue[q].holder
                          /\ queue'[q].calls = queue[q].calls
  <2>1. queue[Q] \in QueueRecord /\ 0 \in -1 .. queueINT8_MAX
    BY <1>3 DEF QueueStates, queueINT8_MAX
  <2> DEFINE x == [queue[Q] EXCEPT !.rx = 0, !.tx = 0]
  <2>2. /\ x \in QueueRecord /\ x.rx = 0 /\ x.tx = 0 /\ x.count = queue[Q].count
        /\ x.holder = queue[Q].holder /\ x.calls = queue[Q].calls
    BY <2>1 DEF QueueRecord
  <2>3. queue' = [queue EXCEPT ![Q] = x]
    BY <1>8
  <2> HIDE DEF x
  <2>4. queue' \in QueueStates /\ queue'[Q] = x /\ \A q \in Queue : q # Q => queue'[q] = queue[q]
    BY <1>3, <2>2, <2>3 DEF QueueStates
  <2> QED  BY <2>2, <2>4
<1>10. todo'[Me] = s /\ OthersSame(todo, todo', Me) /\ call'[Me] = This /\ OthersSame(call, call', Me)
       /\ call' = [call EXCEPT ![Me] = This]
  BY <1>1, <1>3 DEF OthersSame, CallStates, This
<1>11. Lets(k, k')
  BY <1>1, <1>3, EasesSame, EasesLets
<1>12. WorkFits(Me, s)
  BY <1>5, <1>6 DEF WorkFits
<1>13. Suspends(k', todo')
  <2>1. k'.current = k.current /\ k'.cpu = "task" /\ k'.susp = 1
    BY <1>1, <1>4
  <2>2. OpOf(todo'[k.current]) \in SuspSteps /\ OthersSame(todo, todo', k.current)
    BY <1>2, <1>3, <1>6, <1>10
  <2> QED  BY <1>3, <2>1, <2>2, SuspendsGoesOn DEF QInv
<1>14. Runs(k', todo')
  BY <1>1, <1>3, <1>5 DEF Runs
<1>15. \A q \in Queue : /\ queue'[q].tx # queueUNLOCKED <=> LocksTx(todo', call', Me, q)
                        /\ queue'[q].rx # queueUNLOCKED <=> LocksRx(todo', call', Me, q)
  <2> TAKE q \in Queue
  <2>1. (LocksTx(todo', call', Me, q) <=> q = Q) /\ (LocksRx(todo', call', Me, q) <=> q = Q)
    BY <1>2, <1>6, <1>10 DEF LocksTx, LocksRx, This, Q
  <2>2. 0 # queueUNLOCKED
    BY DEF queueUNLOCKED
  <2> QED  BY <1>7, <1>9, <2>1, <2>2
<1>16. \A q \in Queue, d \in Side : ~Queued(k', Me, q, d)
  <2>1. \A q \in Queue, d \in Side : WaitList(q, d) \in EventLists
    BY WaitListsAreLists
  <2> QED  BY <1>1, <1>5, <2>1 DEF Queued
<1>17. \A q \in Queue, d \in Side : WakeOk(k', todo', queue', call', q, d)
  <2> SUFFICES ASSUME NEW q \in Queue, NEW d \in Side
               PROVE  WakeOk(k', todo', queue', call', q, d)
    OBVIOUS
  <2>1. WakeOk(k, todo, queue, call, q, d) /\ k.live \subseteq Task /\ Idle \in k.live /\ k'.live = k.live
    BY <1>1, <1>3, KernelOkLive DEF QInv, WakeInv
  <2>2. ~WillWait(todo', call', Me, q, d)
    BY <1>6, <1>10 DEF WillWait
  <2>3. Expected(k', todo', call', q, d) => Expected(k, todo, call, q, d)
    BY <1>3, <1>10, <1>11, <2>2, ExpectedKept
  <2>4. Me \notin Comers(k, todo, call, q, d)
    BY <1>4, <1>5 DEF Comers, WillTry
  <2>5. Comers(k, todo, call, q, d) \subseteq Comers(k', todo', call', q, d)
    BY <1>3, <1>10, <1>11, <2>4, ComersKept
  <2>6. LockOf(queue, q, d) = queueUNLOCKED /\ Owed(LockOf(queue, q, d)) = 0
        /\ Owed(LockOf(queue', q, d)) = 0 /\ Stock(queue', q, d) = Stock(queue, q, d)
    BY <1>7, <1>9 DEF LockOf, Owed, Stock, queueUNLOCKED
  <2>7. /\ Cardinality(k.live) \in Nat /\ Cardinality(k.live) > 0
        /\ ~(LockOf(queue, q, d) >= Cardinality(k.live))
    BY <2>1, <2>6, LiveNumbers DEF queueUNLOCKED
  <2>8. Cardinality({}) = 0 /\ {} \in SUBSET Task
    BY FS_EmptySet
  <2>9. Stock(queue', q, d) + Cardinality({}) + Owed(LockOf(queue, q, d))
            <= Stock(queue, q, d) + Cardinality({}) + Owed(LockOf(queue', q, d))
    BY <1>3, <2>6, <2>8, SideNumbers
  <2>10. (Comers(k, todo, call, q, d) \ {}) \cup {} \subseteq Comers(k', todo', call', q, d)
         /\ Comers(k, todo, call, q, d) \cap {} = {}
    BY <2>5
  <2> QED  BY <1>3, <1>9, <2>1, <2>3, <2>7, <2>8, <2>9, <2>10, WakeTrade
<1>18. CallOk(Me, s, This, queue')
  <2>1. Busy(todo[Me])
    BY <1>2, <1>4 DEF Busy
  <2>2. This.kind # "overwrite" /\ ~(This.kind = "send" /\ IsMutex(This.queue))
    BY <1>3, <1>4, <2>1 DEF CallOk
  <2>3. Has(todo[Me], "count") => Has(s, "count")
    BY <1>4, <1>6
  <2> QED  BY <1>3, <1>6, <2>2, <2>3 DEF CallOk
<1>19. MutexInv(k.live, k'.held, todo', queue', call')
  <2>1. \A q \in Queue : ~Uncounted(queue, q, Me)
    BY <1>3, <1>4 DEF CountsOrGives
  <2>2. MutexInv(k.live, k'.held, todo, queue, call)
    BY <1>1, <1>3 DEF QInv
  <2> QED  BY <1>3, <1>9, <1>10, <2>1, <2>2, MutexesKept
<1>20. ChangeFits(k, queue, k', todo', queue', call', Me)
  BY <1>9, <1>10, <1>15, <1>16, <1>17, <1>18, <1>19 DEF ChangeFits
<1> QED  BY <1>1, <1>3, <1>6, <1>9, <1>10, <1>11, <1>12, <1>13, <1>14, <1>20, ChangeNext

\* The running task t is put in event list e, with the scheduler suspended.
GoesToWait(kk, r, t, e) ==
    /\ KernelOk(r) /\ r.live = kk.live /\ r.current = t /\ r.held = kk.held
    /\ r.cpu = "task" /\ r.susp = 1
    /\ \A f \in WaitLists, u \in Task :
           Occurs(r.event[f], u) <=> IF u = t THEN f = e ELSE Occurs(kk.event[f], u)

\* A task that was about to wait does: it will try again when it is woken.
LEMMA WaitStepKeeps ==
    ASSUME OnlyQueues, NEW kk, NEW td, NEW qu \in QueueStates, NEW ca \in CallStates,
           QInv(kk, td, qu, ca), NEW t \in Task, t = kk.current, NEW p \in Queue, NEW d \in Side,
           NEW r, GoesToWait(kk, r, t, WaitList(p, d)), NEW te, OthersSame(td, te, t),
           OpOf(td[t]) = "place", ~Has(td[t], "try"), WillWait(td, ca, t, p, d),
           OpOf(te[t]) = "unlockTx", Has(te[t], "try"), Has(te[t], "yield"),
           WorkFits(t, te[t]), CallOk(t, te[t], ca[t], qu)
    PROVE  QInv(r, te, qu, ca)
<1>1. /\ KernelOk(kk) /\ WorkOk(td, kk.live) /\ Suspends(kk, td) /\ LockInv(td, qu, ca)
      /\ WaiterInv(kk, td, ca) /\ WakeInv(kk, td, qu, ca) /\ CallInv(td, qu, ca)
      /\ MutexInv(kk.live, kk.held, td, qu, ca)
      /\ t \in kk.live /\ kk.live \subseteq Task /\ Idle \in kk.live /\ kk.current \in Task
  BY KernelOkLive DEF QInv
<1>2. /\ KernelOk(r) /\ r.live = kk.live /\ r.current = t /\ r.held = kk.held
      /\ r.cpu = "task" /\ r.susp = 1
  BY DEF GoesToWait
<1>3. /\ "place" \in TxSteps /\ "place" \in RxSteps /\ "unlockTx" \in TxSteps
      /\ "unlockTx" \in RxSteps /\ "unlockTx" \in SuspSteps
  BY DEF TxSteps, RxSteps, SuspSteps
<1>4. OthersSame(ca, ca, t)
  BY DEF OthersSame
<1>5. \A q \in Queue, s \in Side, u \in Task :
          Queued(r, u, q, s) <=> IF u = t THEN q = p /\ s = d ELSE Queued(kk, u, q, s)
  <2>1. \A q \in Queue, s \in Side : WaitList(q, s) \in WaitLists
    BY WaitListsAreLists
  <2>2. \A q \in Queue, s \in Side : WaitList(q, s) = WaitList(p, d) <=> q = p /\ s = d
    BY WaitListNames
  <2> QED  BY <2>1, <2>2 DEF GoesToWait, Queued
<1>6. \A u \in Task : u # t => (InQueueList(r, u) <=> InQueueList(kk, u))
  <2>1. QueueLists \subseteq WaitLists
    BY WaitListsAreLists
  <2> QED  BY <2>1 DEF GoesToWait, InQueueList
<1>7. WorkOk(te, r.live)
  BY <1>1, <1>2, WorkKept
<1>8. Suspends(r, te)
  <2>1. OpOf(te[kk.current]) \in SuspSteps /\ r.current = kk.current /\ OthersSame(td, te, kk.current)
    BY <1>2, <1>3
  <2> QED  BY <1>1, <1>2, <2>1, SuspendsGoesOn
<1>9. Runs(r, te)
  BY <1>2 DEF Runs
<1>10. LockInv(te, qu, ca)
  <2>1. \A q \in Queue : /\ LocksTx(te, ca, t, q) <=> LocksTx(td, ca, t, q)
                         /\ LocksRx(te, ca, t, q) <=> LocksRx(td, ca, t, q)
    BY <1>3 DEF LocksTx, LocksRx
  <2>2. \A q \in Queue : /\ qu[q].tx # queueUNLOCKED <=> LocksTx(te, ca, kk.current, q)
                         /\ qu[q].rx # queueUNLOCKED <=> LocksRx(te, ca, kk.current, q)
    BY <1>1, <2>1, LocksSay
  <2> QED  BY <1>1, <2>2, LocksKept
<1>11. WillTry(te, ca, t, p, d)
  BY DEF WillTry, WillWait
<1>12. WaiterInv(r, te, ca)
  <2>1. \A q \in Queue, s \in Side, u \in Task : Queued(r, u, q, s) =>
            IF u = t THEN WillTry(te, ca, t, q, s) ELSE Queued(kk, u, q, s)
    BY <1>5, <1>11
  <2> QED  BY <1>1, <1>4, <2>1, WaitersKept
<1>13. WakeInv(r, te, qu, ca)
  <2> SUFFICES ASSUME NEW q \in Queue, NEW s \in Side
               PROVE  WakeOk(r, te, qu, ca, q, s)
    BY DEF WakeInv
  <2>1. WakeOk(kk, td, qu, ca, q, s)
    BY <1>1 DEF WakeInv
  <2>2. Expected(r, te, ca, q, s) => Expected(kk, td, ca, q, s)
    <3>1. ASSUME NEW u \in Task, Queued(r, u, q, s) \/ WillWait(te, ca, u, q, s)
          PROVE  Queued(kk, u, q, s) \/ WillWait(td, ca, u, q, s)
      <4>1. CASE u = t
        <5>1. ~WillWait(te, ca, t, q, s)
          BY DEF WillWait
        <5> QED  BY <1>5, <3>1, <4>1, <5>1
      <4>2. CASE u # t
        <5>1. te[u] = td[u]
          BY <4>2 DEF OthersSame
        <5> QED  BY <1>5, <3>1, <4>2, <5>1 DEF WillWait
      <4> QED  BY <4>1, <4>2
    <3> QED  BY <3>1 DEF Expected
  <2>3. Comers(kk, td, ca, q, s) \subseteq Comers(r, te, ca, q, s)
    <3> SUFFICES ASSUME NEW u \in Task, WillTry(td, ca, u, q, s), ~InQueueList(kk, u)
                 PROVE  WillTry(te, ca, u, q, s) /\ ~InQueueList(r, u)
      BY DEF Comers
    <3>1. u # t
      BY DEF WillTry
    <3>2. te[u] = td[u]
      BY <3>1 DEF OthersSame
    <3> QED  BY <1>6, <3>1, <3>2 DEF WillTry
  <2>4. Cardinality({}) = 0 /\ {} \in SUBSET Task
    BY FS_EmptySet
  <2>5. Stock(qu, q, s) + Cardinality({}) + Owed(LockOf(qu, q, s))
            <= Stock(qu, q, s) + Cardinality({}) + Owed(LockOf(qu, q, s))
    BY <2>4, SideNumbers
  <2>6. (Comers(kk, td, ca, q, s) \ {}) \cup {} \subseteq Comers(r, te, ca, q, s)
        /\ Comers(kk, td, ca, q, s) \cap {} = {}
    BY <2>3
  <2> QED  BY <1>1, <1>2, <2>1, <2>2, <2>4, <2>5, <2>6, WakeTrade
<1>14. CallInv(te, qu, ca)
  <2>1. \A u \in Task : ca[u].queue \in Queue
    BY DEF CallStates, CallRecord
  <2> QED  BY <1>1, <1>4, <2>1, CallsKept
<1>15. MutexInv(r.live, r.held, te, qu, ca)
  <2>1. \A q \in Queue : ~Uncounted(qu, q, t)
    BY <1>1 DEF MutexInv
  <2> QED  BY <1>1, <1>2, <1>4, <2>1, MutexesKept
<1> QED  BY <1>2, <1>7, <1>8, <1>9, <1>10, <1>12, <1>13, <1>14, <1>15 DEF QInv

\* vTaskPlaceOnEventList, in a blocking call.
LEMMA PlaceKeeps ==
    ASSUME OnlyQueues, QueuesInv, Place
    PROVE  QueuesInv'
<1> DEFINE x == <<Do("yield"), Do("try")>>
<1> DEFINE d == SideOf(This.kind)
<1> DEFINE r == vTaskPlaceOnEventList(k, WaitList(Q, d), This.ticks)
<1>1. /\ Running("place") /\ todo' = [todo EXCEPT ![Me] = UnlockAnd(x)] /\ queue' = queue
      /\ k' = vTaskPlaceOnEventList(
                k, IF Sends THEN xTasksWaitingToSend(Q) ELSE xTasksWaitingToReceive(Q),
                This.ticks)
      /\ UNCHANGED <<value, previous, allocated, app, call>>
  BY DEF Place, Continue
<1>2. "place" \in LoopOps /\ "place" \in SuspSteps
  BY DEF LoopOps, SuspSteps, RxSteps, TxSteps
<1>3. /\ queue \in QueueStates /\ Q \in Queue /\ QInv(k, todo, queue, call) /\ Me \in Task
      /\ k.current = Me /\ KernelOk(k) /\ Me \in k.live /\ This \in CallRecord
      /\ CallOk(Me, todo[Me], This, queue) /\ todo \in [Task -> Seq(Work)] /\ call \in CallStates
  BY InvFacts, MyCall
<1>4. /\ OpOf(todo[Me]) = "place" /\ k.cpu = "task" /\ k.susp = 1
      /\ \A o : Has(todo[Me], o) <=> "place" = o \/ Has(Rest, o)
  BY <1>1, <1>2, RunningSays
<1>5. /\ IsReady(k, Me) /\ Me # Idle
      /\ \A o : Has(Rest, o) => o = "count"
  BY <1>1, <1>2, LoopFacts
<1>6. /\ UnlockAnd(x) \in Seq(Work) /\ InSequence(UnlockAnd(x)) /\ OpOf(UnlockAnd(x)) = "unlockTx"
      /\ Has(Rest, "count") => Has(UnlockAnd(x), "count")
      /\ Has(UnlockAnd(x), "try") /\ Has(UnlockAnd(x), "yield")
  BY <1>1, <1>2, UnlockWork
<1>7. k' = r
  BY <1>1 DEF Sends, WaitList, SideOf
<1>8. /\ This.kind # "overwrite" /\ ~(This.kind = "send" /\ IsMutex(This.queue))
  <2>1. Busy(todo[Me])
    BY <1>2, <1>4 DEF Busy
  <2> QED  BY <1>3, <1>4, <2>1 DEF CallOk
<1>9. d \in Side /\ WillWait(todo, call, Me, Q, d)
  BY <1>3, <1>4, <1>8, Sides DEF WillWait, This, Q
<1> HIDE DEF d
<1>10. WaitList(Q, d) \in WaitLists /\ This.ticks \in Tick
  BY <1>3, <1>9, WaitListsAreLists DEF CallRecord
<1>11. GoesToWait(k, k', Me, WaitList(Q, d))
  <2>1. /\ KernelOk(r) /\ r.live = k.live /\ r.current = k.current /\ SameModes(k, r)
        /\ \A f \in WaitLists, u \in Task :
               Occurs(r.event[f], u) <=>
                   IF u = k.current THEN f = WaitList(Q, d) ELSE Occurs(k.event[f], u)
    <3>1. KernelOk(k) /\ k.current # Idle /\ IsReady(k, k.current)
      BY <1>3, <1>5
    <3>2. WaitList(Q, d) \in WaitLists /\ This.ticks \in Tick
      BY <1>10
    <3> QED  BY ONLY <3>1, <3>2, PlaceWaits DEF r
  <2> HIDE DEF r
  <2> QED  BY <1>3, <1>4, <1>7, <2>1 DEF GoesToWait, SameModes
<1> HIDE DEF r
<1>12. OthersSame(todo, todo', Me) /\ todo'[Me] = UnlockAnd(x)
  BY <1>1, <1>3 DEF OthersSame
<1>13. WorkFits(Me, todo'[Me])
  BY <1>5, <1>6, <1>12 DEF WorkFits
<1>14. CallOk(Me, todo'[Me], call[Me], queue)
  <2>1. Has(todo[Me], "count") => Has(UnlockAnd(x), "count")
    BY <1>4, <1>6
  <2> QED  BY <1>3, <1>6, <1>8, <1>12, <2>1 DEF CallOk, This
<1>15. ~Has(todo[Me], "try")
  BY <1>4, <1>5
<1>16. /\ OpOf(todo'[Me]) = "unlockTx" /\ Has(todo'[Me], "try") /\ Has(todo'[Me], "yield")
       /\ Me = k.current
  BY <1>3, <1>6, <1>12
<1>17. QInv(k', todo', queue, call)
  BY <1>3, <1>4, <1>9, <1>11, <1>12, <1>13, <1>14, <1>15, <1>16, WaitStepKeeps
<1>18. QueuesTypeOK'
  <2>1. k' \in KernelState
    BY <1>11, KernelOkLive DEF GoesToWait
  <2>2. todo' \in [Task -> Seq(Work)]
    BY <1>1, <1>3, <1>6
  <2>3. QueuesTypeOK /\ queue' \in QueueStates /\ call' \in CallStates
    BY <1>1, <1>3 DEF QueuesInv
  <2>4. UNCHANGED <<value, previous, allocated, app>>
    BY <1>1
  <2> QED  BY <2>1, <2>2, <2>3, <2>4, TypesNext
<1> QED  BY <1>1, <1>17, <1>18 DEF QueuesInv

\* prvUnlockQueue has woken a task for each one counted, or all that waited.
LEMMA WakeByUnlock ==
    ASSUME OnlyQueues, NEW kk, NEW td, NEW ca, NEW qu \in QueueStates, NEW r, NEW te,
           NEW qv \in QueueStates, NEW t \in Task, NEW q \in Queue, NEW s \in Side,
           KernelOk(kk), WaiterInv(kk, td, ca), WakeOk(kk, td, qu, ca, q, s), Lets(kk, r),
           OthersSame(td, te, t), \A u \in Task : ~WillWait(te, ca, u, q, s),
           WillTry(td, ca, t, q, s) => WillTry(te, ca, t, q, s),
           Stock(qv, q, s) = Stock(qu, q, s), LockOf(qv, q, s) = queueUNLOCKED,
           LockOf(qu, q, s) \in Nat,
           \/ LockOf(qu, q, s) = 0
           \/ r.event[WaitList(q, s)] = <<>>
           \/ \E W \in SUBSET Task : /\ IsFiniteSet(W) /\ Cardinality(W) = LockOf(qu, q, s)
                                     /\ Frees(kk, r, WaitList(q, s), W)
    PROVE  WakeOk(r, te, qv, ca, q, s)
<1>1. /\ kk.live \subseteq Task /\ Idle \in kk.live /\ r.live = kk.live /\ IsReady(kk, Idle)
  BY KernelOkLive DEF KernelOk, Lets
<1>2. /\ IsFiniteSet(kk.live) /\ Cardinality(kk.live) \in Nat /\ Cardinality(kk.live) > 0
  BY <1>1, LiveNumbers
<1>3. OthersSame(ca, ca, t)
  BY DEF OthersSame
<1>4. Expected(r, te, ca, q, s) => Expected(kk, td, ca, q, s)
  BY <1>3, ExpectedKept
<1>5. Comers(kk, td, ca, q, s) \subseteq Comers(r, te, ca, q, s)
  BY <1>3, ComersKept DEF Comers
<1>6. Owed(LockOf(qu, q, s)) = LockOf(qu, q, s) /\ Owed(LockOf(qv, q, s)) = 0
      /\ Stock(qu, q, s) \in Int
  BY SideNumbers DEF Owed, queueUNLOCKED
<1>7. Cardinality({}) = 0 /\ {} \in SUBSET Task
  BY FS_EmptySet
<1>8. CASE LockOf(qu, q, s) = 0
  <2>1. Stock(qv, q, s) + Cardinality({}) + Owed(LockOf(qu, q, s))
            <= Stock(qu, q, s) + Cardinality({}) + Owed(LockOf(qv, q, s))
    BY <1>6, <1>7, <1>8
  <2>2. ~(LockOf(qu, q, s) >= Cardinality(kk.live))
    BY <1>2, <1>8
  <2>3. (Comers(kk, td, ca, q, s) \ {}) \cup {} \subseteq Comers(r, te, ca, q, s)
        /\ Comers(kk, td, ca, q, s) \cap {} = {}
    BY <1>5
  <2> QED  BY <1>1, <1>4, <1>7, <2>1, <2>2, <2>3, WakeTrade
<1>9. CASE r.event[WaitList(q, s)] = <<>>
  <2>1. \A u \in Task : ~Queued(r, u, q, s)
    BY <1>9 DEF Queued, Occurs
  <2> QED  BY <2>1 DEF WakeOk, Expected
<1>10. ASSUME NEW W \in SUBSET Task, IsFiniteSet(W), Cardinality(W) = LockOf(qu, q, s),
              Frees(kk, r, WaitList(q, s), W)
       PROVE  WakeOk(r, te, qv, ca, q, s)
  <2>1. WaitList(q, s) \in QueueLists /\ WaitList(q, s) \in EventLists /\ QueueLists \subseteq WaitLists
    BY WaitListNames, WaitListsAreLists
  <2>2. \A w \in W : Queued(kk, w, q, s) /\ InQueueList(kk, w) /\ ~InQueueList(r, w)
                     /\ w \in kk.live /\ ~IsReady(kk, w)
    BY <1>10, <2>1 DEF Frees, Freed, Queued, InQueueList, KernelOk
  <2>3. \A w \in W : WillTry(te, ca, w, q, s)
    <3> SUFFICES ASSUME NEW w \in W  PROVE  WillTry(te, ca, w, q, s)
      OBVIOUS
    <3>1. WillTry(td, ca, w, q, s)
      BY <2>2 DEF WaiterInv
    <3>2. CASE w = t
      BY <3>1, <3>2
    <3>3. CASE w # t
      <4>1. te[w] = td[w]
        BY <3>3 DEF OthersSame
      <4> QED  BY <3>1, <4>1 DEF WillTry
    <3> QED  BY <3>2, <3>3
  <2>4. (Comers(kk, td, ca, q, s) \ {}) \cup W \subseteq Comers(r, te, ca, q, s)
        /\ Comers(kk, td, ca, q, s) \cap W = {}
    BY <1>5, <2>2, <2>3 DEF Comers
  <2>5. Stock(qv, q, s) + Cardinality({}) + Owed(LockOf(qu, q, s))
            <= Stock(qu, q, s) + Cardinality(W) + Owed(LockOf(qv, q, s))
    BY <1>6, <1>7, <1>10
  <2>6. ~(LockOf(qu, q, s) >= Cardinality(kk.live))
    <3>1. W \subseteq kk.live \ {Idle}
      BY <1>1, <2>2
    <3>2. IsFiniteSet(kk.live \ {Idle}) /\ Cardinality(kk.live \ {Idle}) = Cardinality(kk.live) - 1
      BY <1>1, <1>2, FS_RemoveElement
    <3>3. Cardinality(W) <= Cardinality(kk.live \ {Idle})
      BY <3>1, <3>2, FS_Subset
    <3> QED  BY <1>2, <1>10, <3>2, <3>3
  <2> QED  BY <1>1, <1>4, <1>7, <2>4, <2>5, <2>6, WakeTrade
<1> QED  BY <1>8, <1>9, <1>10

\* A queue that is unlocked for the tasks that wait on side d.
Unlocked(qu, qv, q, d) ==
    /\ qv \in QueueStates /\ \A p \in Queue : p # q => qv[p] = qu[p]
    /\ LockOf(qv, q, d) = queueUNLOCKED
    /\ \A s \in Side : s # d => LockOf(qv, q, s) = LockOf(qu, q, s)
    /\ qv[q].count = qu[q].count /\ qv[q].holder = qu[q].holder /\ qv[q].calls = qu[q].calls

UnlockOp(d) == IF d = "send" THEN "unlockRx" ELSE "unlockTx"

\* One half of prvUnlockQueue keeps the invariant: it wakes as many waiters as the
\* lock counted, or all, so that none is left beside an item.
LEMMA UnlockStepKeeps ==
    ASSUME OnlyQueues, QueuesInv, NEW d \in Side, Running(UnlockOp(d)),
           k' = IF LockOf(queue, Q, d) > 0
                THEN UnblockUpTo(WaitList(Q, d), LockOf(queue, Q, d)) ELSE k,
           Unlocked(queue, queue', Q, d), todo' = [todo EXCEPT ![Me] = Rest],
           UNCHANGED <<value, previous, allocated, app, call>>
    PROVE  QueuesInv'
<1> DEFINE op == UnlockOp(d)
<1> DEFINE lock == LockOf(queue, Q, d)
<1>1. /\ op \in {"unlockTx", "unlockRx"} /\ (d = "send" <=> op = "unlockRx")
      /\ op \in RxSteps /\ op \in SuspSteps /\ op \notin {"try", "yield", "count", "idleYield"}
      /\ op \notin LoopOps
  BY DEF UnlockOp, Side, RxSteps, TxSteps, SuspSteps, LoopOps
<1>2. /\ queue \in QueueStates /\ Q \in Queue /\ QInv(k, todo, queue, call) /\ Me \in Task
      /\ k.current = Me /\ KernelOk(k) /\ Me \in k.live /\ This \in CallRecord
      /\ CallOk(Me, todo[Me], This, queue) /\ todo \in [Task -> Seq(Work)] /\ call \in CallStates
      /\ \A q \in Queue : Uncounted(queue, q, Me) => CountsOrGives(todo[Me], This, q)
  BY InvFacts, MyCall
<1>3. /\ OpOf(todo[Me]) = op /\ k.cpu = "task" /\ k.susp = 1 /\ Me # Idle
      /\ Rest \in Seq(Work) /\ InSequence(Rest) /\ OpOf(Rest) \in NextOps(op)
      /\ \A o : Has(todo[Me], o) <=> op = o \/ Has(Rest, o)
  BY <1>1, RunningSays
<1>4. OpOf(Rest) = (IF d = "send" THEN "resumeAll" ELSE "unlockRx")
  BY <1>1, <1>3 DEF NextOps
<1>5. /\ OpOf(Rest) \in SuspSteps /\ OpOf(Rest) \notin TxSteps
      /\ (OpOf(Rest) \in RxSteps <=> d # "send") /\ (op \in TxSteps <=> d # "send")
      /\ OpOf(Rest) \notin {"inherit", "place", "count", "delay"}
  BY <1>1, <1>4 DEF RxSteps, TxSteps, SuspSteps
<1>6. \A q \in Queue : /\ queue[q].tx # queueUNLOCKED <=> (d # "send" /\ q = Q)
                       /\ queue[q].rx # queueUNLOCKED <=> q = Q
  <2>1. \A q \in Queue : /\ LocksTx(todo, call, Me, q) <=> (d # "send" /\ q = Q)
                         /\ LocksRx(todo, call, Me, q) <=> q = Q
    BY <1>1, <1>3, <1>5 DEF LocksTx, LocksRx, Q, This
  <2> QED  BY <1>2, <2>1, LocksSay DEF QInv
<1>7. lock \in Nat
  <2>0. /\ d # "send" => queue[Q].tx # queueUNLOCKED
        /\ queue[Q].rx # queueUNLOCKED
    BY <1>2, <1>6
  <2>1. lock # queueUNLOCKED
    BY <2>0 DEF LockOf
  <2>2. lock \in -1 .. queueINT8_MAX
    <3> HIDE DEF lock
    <3>1. LockOf(queue, Q, d) \in -1 .. queueINT8_MAX
      BY <1>2, SideNumbers
    <3> QED  BY <3>1 DEF lock
  <2> HIDE DEF lock
  <2> QED  BY <2>1, <2>2 DEF queueUNLOCKED, queueINT8_MAX
<1>8. WaitList(Q, d) \in WaitLists
  BY <1>2, WaitListsAreLists
<1>9. /\ Eases(k, k') /\ SameModes(k, k') /\ k'.current = k.current
      /\ \/ lock = 0
         \/ k'.event[WaitList(Q, d)] = <<>>
         \/ \E W \in SUBSET Task :
                IsFiniteSet(W) /\ Cardinality(W) = lock /\ Frees(k, k', WaitList(Q, d), W)
  <2>1. CASE lock = 0
    BY <1>2, <2>1, EasesSame DEF SameModes
  <2>2. CASE lock > 0
    <3>1. k' = UnblockUpTo(WaitList(Q, d), lock)
      BY <2>2
    <3> HIDE DEF lock
    <3> QED  BY <1>2, <1>7, <1>8, <3>1, UnblockUpToEases
  <2> QED  BY <1>7, <2>1, <2>2
<1>10. Lets(k, k')
  BY <1>9, EasesLets
<1>11. /\ todo'[Me] = Rest /\ OthersSame(todo, todo', Me) /\ call'[Me] = This /\ call' = call
       /\ OthersSame(call, call', Me) /\ call' = [call EXCEPT ![Me] = This]
  BY <1>2 DEF OthersSame, CallStates, This
<1>12. WorkFits(Me, Rest)
  BY <1>3, <1>5 DEF WorkFits
<1>13. Suspends(k', todo')
  <2>1. k'.current = k.current /\ k'.cpu = "task" /\ k'.susp = 1
    BY <1>3, <1>9 DEF SameModes
  <2>2. OpOf(todo'[k.current]) \in SuspSteps /\ OthersSame(todo, todo', k.current)
    BY <1>2, <1>5, <1>11
  <2> QED  BY <1>2, <2>1, <2>2, SuspendsGoesOn DEF QInv
<1>14. Runs(k', todo')
  <2>1. IsReady(k, Me) \/ Has(todo[Me], "yield")
    BY <1>2, <1>3 DEF QInv, Runs
  <2>2. IsReady(k', Me) \/ Has(Rest, "yield")
    BY <1>1, <1>2, <1>3, <1>9, <2>1 DEF Eases
  <2> QED  BY <1>2, <1>9, <1>11, <2>2 DEF Runs
<1>15. \A q \in Queue : /\ queue'[q].count = queue[q].count /\ queue'[q].holder = queue[q].holder
                        /\ queue'[q].calls = queue[q].calls
  BY DEF Unlocked
<1>16. \A q \in Queue : /\ queue'[q].tx # queueUNLOCKED <=> LocksTx(todo', call', Me, q)
                        /\ queue'[q].rx # queueUNLOCKED <=> LocksRx(todo', call', Me, q)
  <2> TAKE q \in Queue
  <2>1. ~LocksTx(todo', call', Me, q) /\ (LocksRx(todo', call', Me, q) <=> d # "send" /\ q = Q)
    BY <1>5, <1>11 DEF LocksTx, LocksRx, This, Q
  <2>2. CASE q # Q
    <3>1. queue'[q] = queue[q]
      BY <2>2 DEF Unlocked
    <3> QED  BY <1>6, <2>1, <2>2, <3>1
  <2>3. CASE q = Q
    <3>1. CASE d = "send"
      <4>1. queue'[Q].rx = queueUNLOCKED /\ queue'[Q].tx = queue[Q].tx
        BY <3>1 DEF Unlocked, LockOf, Side
      <4> QED  BY <1>2, <1>6, <2>1, <2>3, <3>1, <4>1
    <3>2. CASE d = "receive"
      <4>1. queue'[Q].tx = queueUNLOCKED /\ queue'[Q].rx = queue[Q].rx
        BY <3>2 DEF Unlocked, LockOf, Side
      <4> QED  BY <1>2, <1>6, <2>1, <2>3, <3>2, <4>1
    <3> QED  BY <3>1, <3>2 DEF Side
  <2> QED  BY <2>2, <2>3
<1>17. \A q \in Queue, s \in Side : WillTry(todo, call, Me, q, s) => WillTry(todo', call', Me, q, s)
  BY <1>1, <1>3, <1>11 DEF WillTry
<1>18. \A q \in Queue, s \in Side : Queued(k', Me, q, s) => WillTry(todo', call', Me, q, s)
  <2> TAKE q \in Queue, s \in Side
  <2>1. WaitList(q, s) \in WaitLists
    BY WaitListsAreLists
  <2>2. Queued(k', Me, q, s) => Queued(k, Me, q, s)
    BY <1>2, <1>10, <2>1 DEF Lets, Queued
  <2>3. Queued(k, Me, q, s) => WillTry(todo, call, Me, q, s)
    BY <1>2 DEF QInv, WaiterInv
  <2> QED  BY <1>17, <2>2, <2>3
<1>19. \A q \in Queue, s \in Side, u \in Task : ~WillWait(todo', call', u, q, s)
  <2> TAKE q \in Queue, s \in Side, u \in Task
  <2>1. CASE u = Me
    BY <1>5, <1>11, <2>1 DEF WillWait
  <2>2. CASE u # Me
    <3>1. OpOf(todo[u]) \notin SuspSteps /\ todo'[u] = todo[u]
      BY <1>2, <1>11, <2>2 DEF QInv, Suspends, OthersSame
    <3> QED  BY <3>1 DEF WillWait, SuspSteps, RxSteps, TxSteps
  <2> QED  BY <2>1, <2>2
<1>20. \A q \in Queue, s \in Side : WakeOk(k', todo', queue', call', q, s)
  <2> SUFFICES ASSUME NEW q \in Queue, NEW s \in Side
               PROVE  WakeOk(k', todo', queue', call', q, s)
    OBVIOUS
  <2>1. /\ WakeOk(k, todo, queue, call, q, s) /\ WaiterInv(k, todo, call)
        /\ k.live \subseteq Task /\ Idle \in k.live /\ queue' \in QueueStates
    BY <1>2, KernelOkLive DEF QInv, WakeInv, Unlocked
  <2>2. Stock(queue', q, s) = Stock(queue, q, s) /\ Stock(queue, q, s) \in Int
    BY <1>2, <1>15, SideNumbers DEF Stock
  <2>3. /\ \A u \in Task : ~WillWait(todo', call, u, q, s)
        /\ WillTry(todo, call, Me, q, s) => WillTry(todo', call, Me, q, s)
    BY <1>11, <1>17, <1>19
  <2>4. CASE q = Q /\ s = d
    <3>1. LockOf(queue', q, s) = queueUNLOCKED /\ LockOf(queue, q, s) \in Nat
      BY <1>7, <2>4 DEF Unlocked
    <3>2. \/ LockOf(queue, q, s) = 0
          \/ k'.event[WaitList(q, s)] = <<>>
          \/ \E W \in SUBSET Task : /\ IsFiniteSet(W) /\ Cardinality(W) = LockOf(queue, q, s)
                                    /\ Frees(k, k', WaitList(q, s), W)
      BY <1>9, <2>4
    <3>3. WakeOk(k', todo', queue', call, q, s)
      BY <1>2, <1>10, <1>11, <2>1, <2>2, <2>3, <3>1, <3>2, WakeByUnlock
    <3> QED  BY <1>11, <3>3
  <2>5. CASE ~(q = Q /\ s = d)
    <3>1. LockOf(queue', q, s) = LockOf(queue, q, s)
      BY <2>5 DEF Unlocked, LockOf
    <3>2. WillTry(todo', call', Me, q, s) \/ Me \notin Comers(k, todo, call, q, s)
      BY <1>17 DEF Comers
    <3>3. Stock(queue', q, s) <= Stock(queue, q, s)
      BY <2>2
    <3>4. WillWait(todo', call', Me, q, s) => WillWait(todo, call, Me, q, s)
      BY <1>2, <1>19
    <3> QED  BY <1>2, <1>10, <1>11, <2>1, <3>1, <3>2, <3>3, <3>4, WakeKept
  <2> QED  BY <2>4, <2>5
<1>21. CallOk(Me, Rest, This, queue')
  <2>1. Busy(Rest) => Busy(todo[Me])
    BY <1>3 DEF Busy
  <2>2. OpOf(todo[Me]) # "try"
    BY <1>1, <1>3
  <2>3. This.kind # "overwrite" /\ ~(Busy(Rest) /\ This.kind = "send" /\ IsMutex(This.queue))
    BY <1>2, <2>1, <2>2 DEF CallOk
  <2>4. Has(todo[Me], "count") => Has(Rest, "count")
    BY <1>1, <1>3
  <2>5. OpOf(Rest) # "count"
    BY <1>5
  <2> QED  BY <1>2, <2>3, <2>4, <2>5 DEF CallOk
<1>22. MutexInv(k.live, k'.held, todo', queue', call')
  <2>1. \A q \in Queue : ~Uncounted(queue, q, Me)
    BY <1>1, <1>2, <1>3 DEF CountsOrGives
  <2>2. MutexInv(k.live, k'.held, todo, queue, call)
    BY <1>2, <1>9 DEF QInv, SameModes
  <2> QED  BY <1>2, <1>11, <1>15, <2>1, <2>2, MutexesKept
<1>23. ChangeFits(k, queue, k', todo', queue', call', Me)
  BY <1>11, <1>15, <1>16, <1>18, <1>20, <1>21, <1>22 DEF ChangeFits
<1>24. queue' \in QueueStates
  BY DEF Unlocked
<1> QED  BY <1>2, <1>3, <1>10, <1>11, <1>12, <1>13, <1>14, <1>23, <1>24, ChangeNext

\* prvUnlockQueue, in two critical sections.
LEMMA UnlockTxKeeps ==
    ASSUME OnlyQueues, QueuesInv, UnlockTx
    PROVE  QueuesInv'
<1>1. queue \in QueueStates /\ Q \in Queue /\ queueUNLOCKED \in -1 .. queueINT8_MAX
  BY InvFacts, MyCall DEF queueUNLOCKED, queueINT8_MAX
<1>2. Unlocked(queue, queue', Q, "receive")
  <2>1. queue' = [queue EXCEPT ![Q].tx = queueUNLOCKED]
    BY DEF UnlockTx
  <2>2. queue[Q] \in QueueRecord
    BY <1>1 DEF QueueStates
  <2> DEFINE x == [queue[Q] EXCEPT !.tx = queueUNLOCKED]
  <2>3. /\ x \in QueueRecord /\ x.tx = queueUNLOCKED /\ x.rx = queue[Q].rx
        /\ x.count = queue[Q].count /\ x.holder = queue[Q].holder /\ x.calls = queue[Q].calls
    BY <1>1, <2>2 DEF QueueRecord
  <2>4. queue' = [queue EXCEPT ![Q] = x]
    BY <1>1, <2>1
  <2> HIDE DEF x
  <2>5. queue' \in QueueStates /\ queue'[Q] = x /\ \A q \in Queue : q # Q => queue'[q] = queue[q]
    BY <1>1, <2>3, <2>4 DEF QueueStates
  <2> QED  BY <2>3, <2>5 DEF Unlocked, LockOf, Side
<1>3. LockOf(queue, Q, "receive") = queue[Q].tx /\ UnlockOp("receive") = "unlockTx"
      /\ WaitList(Q, "receive") = xTasksWaitingToReceive(Q) /\ "receive" \in Side
  BY DEF LockOf, UnlockOp, WaitList, Side
<1>4. /\ Running("unlockTx") /\ todo' = [todo EXCEPT ![Me] = Rest]
      /\ k' = IF queue[Q].tx > 0 THEN UnblockUpTo(xTasksWaitingToReceive(Q), queue[Q].tx) ELSE k
      /\ UNCHANGED <<value, previous, allocated, app, call>>
  BY DEF UnlockTx, Done, Continue
<1> QED  BY <1>2, <1>3, <1>4, UnlockStepKeeps

\* The half of prvUnlockQueue for the senders keeps the invariant.
LEMMA UnlockRxKeeps ==
    ASSUME OnlyQueues, QueuesInv, UnlockRx
    PROVE  QueuesInv'
<1>1. queue \in QueueStates /\ Q \in Queue /\ queueUNLOCKED \in -1 .. queueINT8_MAX
  BY InvFacts, MyCall DEF queueUNLOCKED, queueINT8_MAX
<1>2. Unlocked(queue, queue', Q, "send")
  <2>1. queue' = [queue EXCEPT ![Q].rx = queueUNLOCKED]
    BY DEF UnlockRx
  <2>2. queue[Q] \in QueueRecord
    BY <1>1 DEF QueueStates
  <2> DEFINE x == [queue[Q] EXCEPT !.rx = queueUNLOCKED]
  <2>3. /\ x \in QueueRecord /\ x.rx = queueUNLOCKED /\ x.tx = queue[Q].tx
        /\ x.count = queue[Q].count /\ x.holder = queue[Q].holder /\ x.calls = queue[Q].calls
    BY <1>1, <2>2 DEF QueueRecord
  <2>4. queue' = [queue EXCEPT ![Q] = x]
    BY <1>1, <2>1
  <2> HIDE DEF x
  <2>5. queue' \in QueueStates /\ queue'[Q] = x /\ \A q \in Queue : q # Q => queue'[q] = queue[q]
    BY <1>1, <2>3, <2>4 DEF QueueStates
  <2> QED  BY <2>3, <2>5 DEF Unlocked, LockOf, Side
<1>3. LockOf(queue, Q, "send") = queue[Q].rx /\ UnlockOp("send") = "unlockRx"
      /\ WaitList(Q, "send") = xTasksWaitingToSend(Q) /\ "send" \in Side
  BY DEF LockOf, UnlockOp, WaitList, Side
<1>4. /\ Running("unlockRx") /\ todo' = [todo EXCEPT ![Me] = Rest]
      /\ k' = IF queue[Q].rx > 0 THEN UnblockUpTo(xTasksWaitingToSend(Q), queue[Q].rx) ELSE k
      /\ UNCHANGED <<value, previous, allocated, app, call>>
  BY DEF UnlockRx, Done, Continue
<1> QED  BY <1>2, <1>3, <1>4, UnlockStepKeeps

-----------------------------------------------------------------------------
(* Recursive mutexes, and xQueueReset. *)

\* The holder of mutex q has taken it n times.
CalledTimes(qu, qv, q, n) ==
    /\ qv \in QueueStates /\ \A p \in Queue : p # q => qv[p] = qu[p]
    /\ qv[q].calls = n /\ qv[q].holder = qu[q].holder /\ qv[q].count = qu[q].count
    /\ qv[q].rx = qu[q].rx /\ qv[q].tx = qu[q].tx

\* A field of a queue is set.
LEMMA CallsSet ==
    ASSUME NEW qu \in QueueStates, NEW q \in Queue, NEW n \in Nat
    PROVE  CalledTimes(qu, [qu EXCEPT ![q].calls = n], q, n)
<1> DEFINE x == [qu[q] EXCEPT !.calls = n]
<1> DEFINE qv == [qu EXCEPT ![q].calls = n]
<1>1. qu[q] \in QueueRecord
  BY DEF QueueStates
<1>2. /\ x \in QueueRecord /\ x.calls = n /\ x.rx = qu[q].rx /\ x.tx = qu[q].tx
      /\ x.count = qu[q].count /\ x.holder = qu[q].holder
  BY <1>1 DEF QueueRecord
<1>3. qv = [qu EXCEPT ![q] = x]
  BY DEF QueueStates
<1> HIDE DEF x, qv
<1>4. qv \in QueueStates /\ qv[q] = x /\ \A p \in Queue : p # q => qv[p] = qu[p]
  BY <1>2, <1>3 DEF QueueStates
<1>5. CalledTimes(qu, qv, q, n)
  BY <1>2, <1>4 DEF CalledTimes
<1> QED  BY <1>5 DEF qv

\* The mutexes after that.
LEMMA MutexCounted ==
    ASSUME NEW live, NEW held, NEW td, NEW te, NEW qu, NEW qv, NEW ca, NEW ce, NEW t \in Task,
           MutexInv(live, held, td, qu, ca), OthersSame(td, te, t), OthersSame(ca, ce, t),
           NEW q \in Queue, Kind[q] = "recursive", qu[q].holder = t, NEW n, CalledTimes(qu, qv, q, n),
           \A p \in Queue : Uncounted(qv, p, t) => CountsOrGives(te[t], ce[t], p),
           \A p, r \in Queue : Uncounted(qv, p, t) /\ Uncounted(qv, r, t) => p = r
    PROVE  MutexInv(live, held, te, qv, ce)
<1>1. /\ \A p \in Queue : p # q => qv[p] = qu[p]
      /\ \A p \in Queue : qv[p].holder = qu[p].holder /\ qv[p].count = qu[p].count
  BY DEF CalledTimes
<1>2. t # NULL
  BY QueuesAssumption
<1>3. \A p \in Queue :
          /\ qv[p].count <= Length[p]
          /\ IsMutex(p) => (qv[p].count = 0 <=> qv[p].holder # NULL)
          /\ ~IsMutex(p) => qv[p].holder = NULL
          /\ qv[p].holder \in live \cup {NULL}
          /\ qv[p].holder = NULL \/ Kind[p] # "recursive" => qv[p].calls = 0
  BY <1>1, <1>2 DEF MutexInv
<1>4. \A u \in Task : held[u] = Cardinality(MutexesOf(qv, u))
  <2>1. \A u \in Task : MutexesOf(qv, u) = MutexesOf(qu, u)
    BY <1>1 DEF MutexesOf
  <2> QED  BY <2>1 DEF MutexInv
<1>5. \A p \in Queue, h \in Task : h # t /\ Uncounted(qv, p, h) => Uncounted(qu, p, h)
  BY <1>1 DEF Uncounted
<1>6. \A p \in Queue, h \in Task : Uncounted(qv, p, h) =>
          \/ OpOf(te[h]) = "count"
          \/ OpOf(te[h]) = "try" /\ ce[h].kind = "send" /\ ce[h].queue = p
  <2> SUFFICES ASSUME NEW p \in Queue, NEW h \in Task, Uncounted(qv, p, h)
               PROVE  \/ OpOf(te[h]) = "count"
                      \/ OpOf(te[h]) = "try" /\ ce[h].kind = "send" /\ ce[h].queue = p
    OBVIOUS
  <2>1. CASE h = t
    BY <2>1 DEF CountsOrGives
  <2>2. CASE h # t
    <3>1. te[h] = td[h] /\ ce[h] = ca[h]
      BY <2>2 DEF OthersSame
    <3> QED  BY <1>5, <2>2, <3>1 DEF MutexInv
  <2> QED  BY <2>1, <2>2
<1>7. \A p, r \in Queue, h \in Task : Uncounted(qv, p, h) /\ Uncounted(qv, r, h) => p = r
  BY <1>5 DEF MutexInv
<1> QED  BY <1>3, <1>4, <1>6, <1>7 DEF MutexInv

\* The running task counts: it goes on with s.
LEMMA CountStepKeeps ==
    ASSUME OnlyQueues, QueuesInv, k.cpu = "task", OpOf(todo[Me]) \notin SuspSteps,
           NEW q \in Queue, Kind[q] = "recursive", queue[q].holder = Me,
           NEW n \in Nat, CalledTimes(queue, queue', q, n), k' = k,
           NEW s \in Seq(Work), todo' = [todo EXCEPT ![Me] = s],
           NEW c \in CallRecord, call' = [call EXCEPT ![Me] = c],
           UNCHANGED <<value, previous, allocated, app>>,
           OpOf(s) \notin SuspSteps, WorkFits(Me, s), IsReady(k, Me), ~Has(todo[Me], "try"),
           CallOk(Me, s, c, queue'),
           \A p \in Queue : Uncounted(queue', p, Me) => CountsOrGives(s, c, p),
           \A p, r \in Queue : Uncounted(queue', p, Me) /\ Uncounted(queue', r, Me) => p = r
    PROVE  QueuesInv'
<1>1. /\ queue \in QueueStates /\ QInv(k, todo, queue, call) /\ Me \in Task /\ KernelOk(k)
      /\ k.current = Me /\ todo \in [Task -> Seq(Work)] /\ call \in CallStates
      /\ k.live \subseteq Task /\ Idle \in k.live
  BY InvFacts
<1>2. /\ k.susp = 0 /\ (\A u \in Task : OpOf(todo[u]) \notin SuspSteps)
      /\ \A p \in Queue : queue[p].tx = queueUNLOCKED /\ queue[p].rx = queueUNLOCKED
  BY NothingLocked
<1>3. /\ todo'[Me] = s /\ OthersSame(todo, todo', Me)
      /\ call'[Me] = c /\ OthersSame(call, call', Me)
  BY <1>1 DEF OthersSame, CallStates
<1>4. Lets(k, k')
  BY <1>1, EasesSame, EasesLets
<1>5. Suspends(k', todo')
  <2>1. k'.current = k.current /\ k'.cpu = "task" /\ k'.susp = 0
    BY <1>2
  <2>2. OpOf(todo'[k.current]) \notin SuspSteps /\ OthersSame(todo, todo', k.current)
    BY <1>1, <1>3
  <2> QED  BY <1>1, <2>1, <2>2, SuspendsGoesOn DEF QInv
<1>6. Runs(k', todo')
  BY <1>1 DEF Runs
<1>7. \A p \in Queue : /\ queue'[p].count = queue[p].count /\ queue'[p].rx = queue[p].rx
                       /\ queue'[p].tx = queue[p].tx /\ queue'[p].holder = queue[p].holder
  BY DEF CalledTimes
<1>8. "inherit" \in SuspSteps /\ "place" \in SuspSteps /\ TxSteps \subseteq SuspSteps
      /\ RxSteps \subseteq SuspSteps
  BY DEF SuspSteps, RxSteps, TxSteps
<1>9. \A p \in Queue : /\ queue'[p].tx # queueUNLOCKED <=> LocksTx(todo', call', Me, p)
                       /\ queue'[p].rx # queueUNLOCKED <=> LocksRx(todo', call', Me, p)
  BY <1>2, <1>3, <1>7, <1>8 DEF LocksTx, LocksRx
<1>10. \A p \in Queue, d \in Side : ~Queued(k', Me, p, d)
  <2>1. \A p \in Queue, d \in Side : WaitList(p, d) \in EventLists
    BY WaitListsAreLists
  <2> QED  BY <1>1, <2>1 DEF Queued, KernelOk
<1>11. \A p \in Queue, d \in Side : WakeOk(k', todo', queue', call', p, d)
  <2> SUFFICES ASSUME NEW p \in Queue, NEW d \in Side
               PROVE  WakeOk(k', todo', queue', call', p, d)
    OBVIOUS
  <2>1. WakeOk(k, todo, queue, call, p, d) /\ queue' \in QueueStates
    BY <1>1 DEF QInv, WakeInv, CalledTimes
  <2>2. Stock(queue', p, d) = Stock(queue, p, d) /\ LockOf(queue', p, d) = LockOf(queue, p, d)
        /\ Stock(queue, p, d) \in Int
    BY <1>1, <1>7, SideNumbers DEF Stock, LockOf
  <2>3. Stock(queue', p, d) <= Stock(queue, p, d)
    BY <2>2
  <2>4. ~WillWait(todo', call', Me, p, d)
    BY <1>3, <1>8 DEF WillWait
  <2>5. Me \notin Comers(k, todo, call, p, d)
    BY DEF Comers, WillTry
  <2> QED  BY <1>1, <1>3, <1>4, <2>1, <2>2, <2>3, <2>4, <2>5, WakeKept
<1>12. \A p \in Queue, u \in Task : u # Me /\ queue[p].holder = u
           => queue'[p].holder = u /\ queue'[p].calls = queue[p].calls
  BY DEF CalledTimes
<1>13. MutexInv(k.live, k'.held, todo', queue', call')
  <2>1. MutexInv(k.live, k'.held, todo, queue, call)
    BY <1>1 DEF QInv
  <2>2. /\ \A p \in Queue : Uncounted(queue', p, Me) => CountsOrGives(todo'[Me], call'[Me], p)
        /\ \A p, r \in Queue : Uncounted(queue', p, Me) /\ Uncounted(queue', r, Me) => p = r
    BY <1>3
  <2> QED  BY <1>1, <1>3, <2>1, <2>2, MutexCounted
<1>14. CallOk(Me, todo'[Me], call'[Me], queue')
  BY <1>3
<1>15. ChangeFits(k, queue, k', todo', queue', call', Me)
  BY <1>3, <1>9, <1>10, <1>11, <1>12, <1>13, <1>14 DEF ChangeFits
<1>16. queue' \in QueueStates
  BY DEF CalledTimes
<1> QED  BY <1>1, <1>4, <1>5, <1>6, <1>15, <1>16, ChangeNext

\* xQueueTakeMutexRecursive has the mutex.
LEMMA CountRecursionKeeps ==
    ASSUME OnlyQueues, QueuesInv, CountRecursion
    PROVE  QueuesInv'
<1>1. /\ Running("count") /\ todo' = [todo EXCEPT ![Me] = Rest] /\ k' = k
      /\ UNCHANGED <<value, previous, allocated, app, call>>
  BY DEF CountRecursion, Done, Continue
<1>2. PICK q \in Queue : /\ Kind[q] = "recursive" /\ queue[q].holder = Me /\ queue[q].calls = 0
                         /\ queue' = [queue EXCEPT ![q].calls = 1]
  BY DEF CountRecursion
<1>3. "count" \notin SuspSteps /\ "none" \notin SuspSteps
  BY DEF SuspSteps, RxSteps, TxSteps
<1>4. /\ queue \in QueueStates /\ QInv(k, todo, queue, call) /\ Me \in Task /\ k.current = Me
      /\ call \in CallStates /\ This \in CallRecord /\ CallOk(Me, todo[Me], This, queue)
  BY InvFacts, MyCall
<1>5. /\ OpOf(todo[Me]) = "count" /\ k.cpu = "task" /\ Me # Idle
      /\ Rest \in Seq(Work) /\ InSequence(Rest) /\ OpOf(Rest) \in NextOps("count")
      /\ \A o : Has(todo[Me], o) <=> "count" = o \/ Has(Rest, o)
  BY <1>1, RunningSays
<1>6. OpOf(Rest) = "none"
  BY <1>5 DEF NextOps
<1>7. \A o : Has(Rest, o) => o = "count"
  BY <1>5, <1>6, CallEnds
<1>8. OpOf(todo[Me]) \notin SuspSteps /\ OpOf(Rest) \notin SuspSteps /\ ~Has(todo[Me], "try")
      /\ ~Has(todo[Me], "yield") /\ ~Busy(Rest)
  BY <1>3, <1>5, <1>6, <1>7 DEF Busy, LoopOps
<1>9. IsReady(k, Me)
  BY <1>4, <1>5, <1>8 DEF QInv, Runs
<1>10. CalledTimes(queue, queue', q, 1)
  BY <1>2, <1>4, CallsSet
<1>11. WorkFits(Me, Rest)
  BY <1>5, <1>6 DEF WorkFits
<1>12. CallOk(Me, Rest, This, queue')
  BY <1>4, <1>5, <1>8 DEF CallOk
<1>13. \A p \in Queue : ~Uncounted(queue', p, Me)
  <2>1. \A p, r \in Queue, h \in Task : Uncounted(queue, p, h) /\ Uncounted(queue, r, h) => p = r
    BY <1>4 DEF QInv, MutexInv
  <2>2. Uncounted(queue, q, Me) /\ ~Uncounted(queue', q, Me)
    BY <1>2, <1>10 DEF Uncounted, CalledTimes
  <2>3. \A p \in Queue : p # q /\ Uncounted(queue', p, Me) => Uncounted(queue, p, Me)
    BY <1>10 DEF Uncounted, CalledTimes
  <2> QED  BY <1>4, <2>1, <2>2, <2>3
<1>14. call' = [call EXCEPT ![Me] = This]
  BY <1>1, <1>4 DEF CallStates, This
<1> QED  BY <1>1, <1>2, <1>4, <1>5, <1>8, <1>9, <1>10, <1>11, <1>12, <1>13, <1>14, CountStepKeeps

\* xQueueTakeMutexRecursive and xQueueGiveMutexRecursive, by the holder.
LEMMA MutexCallKeeps ==
    ASSUME OnlyQueues, QueuesInv, NEW q \in Queue, NEW n \in Tick,
           queue[q].holder = Me, xQueueTakeMutexRecursive(q, n) \/ xQueueGiveMutexRecursive(q)
    PROVE  QueuesInv'
<1> DEFINE f == "xQueueTakeMutexRecursive"
<1> DEFINE c == CallOf("send", q, 0)
<1> DEFINE s == TryThen(<<>>)
<1>1. /\ queue \in QueueStates /\ QInv(k, todo, queue, call) /\ Me \in Task
      /\ call \in CallStates /\ This \in CallRecord /\ CallOk(Me, todo[Me], This, queue)
      /\ todo \in [Task -> Seq(Work)]
  BY InvFacts, MyCall
<1>2. Kind[q] = "recursive" /\ queue[q].calls \in Nat
  BY <1>1 DEF xQueueTakeMutexRecursive, xQueueGiveMutexRecursive, QueueStates, QueueRecord
<1>3. CASE CallsRunning(f) /\ UNCHANGED <<k, todo, value, previous, allocated, app, call>>
             /\ \E m \in Nat \ {0} : queue' = [queue EXCEPT ![q].calls = m]
  <2>1. PICK m \in Nat \ {0} : queue' = [queue EXCEPT ![q].calls = m]
    BY <1>3
  <2>2. CalledTimes(queue, queue', q, m)
    BY <1>1, <2>1, CallsSet
  <2>3. /\ Me # Idle /\ k.cpu = "task" /\ OpOf(todo[Me]) = "none" /\ (\A op : ~Has(todo[Me], op))
        /\ IsReady(k, Me) /\ OpOf(todo[Me]) \notin SuspSteps
        /\ \A p \in Queue : ~Uncounted(queue, p, Me)
    BY <1>3, BetweenCalls
  <2>4. \A p \in Queue : ~Uncounted(queue', p, Me)
    BY <2>2, <2>3 DEF CalledTimes, Uncounted
  <2>5. todo[Me] \in Seq(Work) /\ InSequence(todo[Me])
    BY InvFacts
  <2>6. WorkFits(Me, todo[Me])
    BY <2>3, <2>5 DEF WorkFits
  <2>7. CallOk(Me, todo[Me], This, queue')
    BY <1>1, <2>3 DEF CallOk, Busy
  <2>8. todo' = [todo EXCEPT ![Me] = todo[Me]] /\ call' = [call EXCEPT ![Me] = This]
    BY <1>1, <1>3 DEF CallStates, This
  <2>9. k' = k /\ UNCHANGED <<value, previous, allocated, app>>
    BY <1>3
  <2> QED  BY <1>1, <1>2, <2>2, <2>3, <2>4, <2>5, <2>6, <2>7, <2>8, <2>9, CountStepKeeps
<1>4. CASE queue[q].calls = 1 /\ Begin(f, "send", q, 0, <<>>) /\ queue' = [queue EXCEPT ![q].calls = 0]
  <2>1. Begins(f, "send", q, 0, <<>>)
    <3>1. 0 \in Tick /\ "send" \in CallKinds
      BY CallArguments DEF CallKinds
    <3> QED  BY <1>4, <3>1 DEF Begins
  <2>2. /\ CallsRunning(f) /\ k' = k /\ UNCHANGED <<value, previous, allocated, app>>
        /\ todo' = [todo EXCEPT ![Me] = s] /\ call' = [call EXCEPT ![Me] = c]
        /\ s \in Seq(Work) /\ InSequence(s) /\ OpOf(s) = "try" /\ Has(s, "try")
        /\ c \in CallRecord /\ c.kind = "send" /\ c.queue = q
    BY <2>1, BeginFacts
  <2> HIDE DEF s, c
  <2>3. CalledTimes(queue, queue', q, 0)
    BY <1>1, <1>4, CallsSet
  <2>4. /\ Me # Idle /\ k.cpu = "task" /\ (\A op : ~Has(todo[Me], op))
        /\ IsReady(k, Me) /\ OpOf(todo[Me]) \notin SuspSteps
        /\ \A p \in Queue : ~Uncounted(queue, p, Me)
    BY <2>2, BetweenCalls
  <2>5. \A p \in Queue : Uncounted(queue', p, Me) => p = q
    BY <2>3, <2>4 DEF CalledTimes, Uncounted
  <2>6. \A p \in Queue : Uncounted(queue', p, Me) => CountsOrGives(s, c, p)
    BY <2>2, <2>5 DEF CountsOrGives
  <2>7. WorkFits(Me, s)
    BY <2>2, <2>4 DEF WorkFits
  <2>8. CallOk(Me, s, c, queue')
    BY <2>2, <2>3 DEF CallOk, CalledTimes
  <2>9. OpOf(s) \notin SuspSteps
    BY <2>2 DEF SuspSteps, RxSteps, TxSteps
  <2>10. \A p, r \in Queue : Uncounted(queue', p, Me) /\ Uncounted(queue', r, Me) => p = r
    BY <2>5
  <2> QED  BY <1>1, <1>2, <2>2, <2>3, <2>4, <2>6, <2>7, <2>8, <2>9, <2>10, CountStepKeeps
<1>5. CASE xQueueTakeMutexRecursive(q, n)
  <2>1. /\ CallsRunning(f) /\ queue' = [queue EXCEPT ![q].calls = @ + 1]
        /\ UNCHANGED <<k, todo, value, previous, allocated, app, call>>
    BY <1>5 DEF xQueueTakeMutexRecursive
  <2> DEFINE m == queue[q].calls + 1
  <2>2. m \in Nat \ {0}
    BY <1>2
  <2>3. queue' = [queue EXCEPT ![q].calls = m]
    BY <1>1, <2>1 DEF QueueStates
  <2> QED  BY <1>3, <2>1, <2>2, <2>3
<1>6. CASE xQueueGiveMutexRecursive(q)
  <2> DEFINE m == queue[q].calls - 1
  <2>1. queue' = [queue EXCEPT ![q].calls = m]
    BY <1>1, <1>6 DEF xQueueGiveMutexRecursive, QueueStates
  <2>2. CASE queue[q].calls = 1 /\ Begin(f, "send", q, 0, <<>>)
    <3>1. m = 0
      BY <2>2
    <3> QED  BY <1>4, <2>1, <2>2, <3>1
  <2>3. CASE /\ queue[q].calls > 1 /\ CallsRunning(f)
             /\ UNCHANGED <<k, todo, value, previous, allocated, app, call>>
    <3>1. m \in Nat \ {0}
      BY <1>2, <2>3
    <3> QED  BY <1>3, <2>1, <2>3, <3>1
  <2> QED  BY <1>6, <2>2, <2>3 DEF xQueueGiveMutexRecursive
<1> QED  BY <1>5, <1>6

\* The items of queue q change, or its counts of wake-ups; it stays locked or
\* unlocked, and no task goes on with its work.
Restocked(qu, qv, q) ==
    /\ qv \in QueueStates /\ \A p \in Queue : p # q => qv[p] = qu[p]
    /\ qv[q].holder = qu[q].holder /\ qv[q].calls = qu[q].calls /\ qv[q].count <= Length[q]
    /\ qv[q].tx = queueUNLOCKED <=> qu[q].tx = queueUNLOCKED
    /\ qv[q].rx = queueUNLOCKED <=> qu[q].rx = queueUNLOCKED

\* A step that changes the items of a queue from outside the loop keeps the
\* invariant when no wake-up is lost by it.
LEMMA RestockKeeps ==
    ASSUME OnlyQueues, QueuesInv, Eases(k, k'), SameModes(k, k'), k.cpu = "task",
           k'.current = k.current \/ k.susp = 0,
           NEW q \in Queue, ~IsMutex(q), Restocked(queue, queue', q),
           \A d \in Side : WakeOk(k', todo, queue', call, q, d),
           UNCHANGED <<todo, call, value, previous, allocated, app>>
    PROVE  QueuesInv'
<1>1. /\ queue \in QueueStates /\ QInv(k, todo, queue, call) /\ Me \in Task /\ KernelOk(k)
      /\ k.current = Me /\ todo \in [Task -> Seq(Work)] /\ call \in CallStates
      /\ k.live \subseteq Task /\ Idle \in k.live /\ todo[Me] \in Seq(Work)
      /\ This \in CallRecord /\ Q \in Queue /\ CallOk(Me, todo[Me], This, queue)
      /\ \A p \in Queue : Uncounted(queue, p, Me) => CountsOrGives(todo[Me], This, p)
  BY InvFacts, MyCall
<1>2. /\ todo'[Me] = todo[Me] /\ OthersSame(todo, todo', Me) /\ OthersSame(todo, todo, Me)
      /\ call'[Me] = This /\ OthersSame(call, call', Me) /\ OthersSame(call, call, Me)
      /\ todo' = [todo EXCEPT ![Me] = todo[Me]] /\ call' = [call EXCEPT ![Me] = This]
      /\ todo' = todo /\ call' = call
  BY <1>1 DEF OthersSame, CallStates, This
<1>3. Lets(k, k')
  BY EasesLets
<1>4. Suspends(k', todo')
  <2>1. /\ Suspends(k, todo) /\ k'.cpu = "task" /\ k'.susp = k.susp
        /\ k.susp = (IF OpOf(todo[Me]) \in SuspSteps THEN 1 ELSE 0)
    BY <1>1 DEF QInv, Suspends, SameModes
  <2>2. CASE k'.current = k.current
    <3>1. k'.susp = (IF OpOf(todo'[k.current]) \in SuspSteps THEN 1 ELSE 0)
          /\ OthersSame(todo, todo', k.current)
      BY <1>1, <1>2, <2>1
    <3> QED  BY <2>1, <2>2, <3>1, SuspendsGoesOn
  <2>3. CASE k.susp = 0
    <3>1. OpOf(todo'[k.current]) \notin SuspSteps /\ OthersSame(todo, todo', k.current)
      BY <1>1, <1>2, <2>1, <2>3
    <3>2. k'.current \in Task
      BY KernelOkLive DEF Eases
    <3> QED  BY <2>1, <2>3, <3>1, <3>2, SuspendsSwitches
  <2> QED  BY <2>2, <2>3
<1>5. Runs(k', todo')
  <2>1. IsReady(k, Me) \/ Has(todo[Me], "yield")
    BY <1>1 DEF QInv, Runs
  <2>2. IsReady(k', k'.current) \/ (k'.current = Me /\ Has(todo'[Me], "yield"))
    BY <1>1, <1>2, <2>1 DEF Eases
  <2> QED  BY <2>2 DEF Runs
<1>6. WorkFits(Me, todo[Me])
  BY <1>1 DEF QInv, WorkOk, WorkFits
<1>7. \A p \in Queue : /\ queue'[p].tx # queueUNLOCKED <=> LocksTx(todo', call', Me, p)
                       /\ queue'[p].rx # queueUNLOCKED <=> LocksRx(todo', call', Me, p)
  <2>1. \A p \in Queue : /\ queue[p].tx # queueUNLOCKED <=> LocksTx(todo, call, Me, p)
                         /\ queue[p].rx # queueUNLOCKED <=> LocksRx(todo, call, Me, p)
    BY <1>1, LocksSay DEF QInv
  <2>2. \A p \in Queue : /\ queue'[p].tx = queueUNLOCKED <=> queue[p].tx = queueUNLOCKED
                         /\ queue'[p].rx = queueUNLOCKED <=> queue[p].rx = queueUNLOCKED
    BY DEF Restocked
  <2> QED  BY <1>2, <2>1, <2>2
<1>8. \A p \in Queue, d \in Side : Queued(k', Me, p, d) => WillTry(todo', call', Me, p, d)
  <2> TAKE p \in Queue, d \in Side
  <2>1. WaitList(p, d) \in WaitLists
    BY WaitListsAreLists
  <2>2. Queued(k', Me, p, d) => Queued(k, Me, p, d)
    BY <1>1, <1>3, <2>1 DEF Lets, Queued
  <2>3. Queued(k, Me, p, d) => WillTry(todo, call, Me, p, d)
    BY <1>1 DEF QInv, WaiterInv
  <2> QED  BY <1>2, <2>2, <2>3
<1>9. \A p \in Queue, d \in Side : WakeOk(k', todo', queue', call', p, d)
  <2> SUFFICES ASSUME NEW p \in Queue, NEW d \in Side
               PROVE  WakeOk(k', todo, queue', call, p, d)
    BY <1>2
  <2>1. CASE p = q
    BY <2>1
  <2>2. CASE p # q
    <3>1. WakeOk(k, todo, queue, call, p, d) /\ queue' \in QueueStates
      BY <1>1 DEF QInv, WakeInv, Restocked
    <3>2. Stock(queue', p, d) = Stock(queue, p, d) /\ LockOf(queue', p, d) = LockOf(queue, p, d)
          /\ Stock(queue, p, d) \in Int
      BY <1>1, <2>2, SideNumbers DEF Stock, LockOf, Restocked
    <3>3. Stock(queue', p, d) <= Stock(queue, p, d)
      BY <3>2
    <3>4. WillTry(todo, call, Me, p, d) \/ Me \notin Comers(k, todo, call, p, d)
      BY DEF Comers
    <3> QED  BY <1>1, <1>2, <1>3, <3>1, <3>2, <3>3, <3>4, WakeKept
  <2> QED  BY <2>1, <2>2
<1>10. \A p \in Queue : queue'[p].holder = queue[p].holder /\ queue'[p].calls = queue[p].calls
  BY DEF Restocked
<1>11. CallOk(Me, todo'[Me], call'[Me], queue')
  <2>1. This.queue \in Queue
    BY <1>1 DEF Q
  <2>2. CallOk(Me, todo[Me], This, queue')
    BY <1>1, <1>10, <2>1 DEF CallOk
  <2> QED  BY <1>2, <2>2
<1>12. MutexInv(k.live, k'.held, todo', queue', call')
  <2>1. MutexInv(k.live, k'.held, todo, queue, call)
    BY <1>1 DEF QInv, SameModes
  <2>2. \A p \in Queue : Uncounted(queue, p, Me) => CountsOrGives(todo'[Me], call'[Me], p)
    BY <1>1, <1>2
  <2>3. \A p \in Queue :
            /\ queue'[p].count = queue[p].count \/ (~IsMutex(p) /\ queue'[p].count <= Length[p])
            /\ queue'[p].holder = queue[p].holder /\ queue'[p].calls = queue[p].calls
    BY <1>10 DEF Restocked
  <2> QED  BY <1>1, <1>2, <2>1, <2>2, <2>3, MutexesKept
<1>13. \A p \in Queue, u \in Task : u # Me /\ queue[p].holder = u
           => queue'[p].holder = u /\ queue'[p].calls = queue[p].calls
  BY <1>10
<1>14. ChangeFits(k, queue, k', todo', queue', call', Me)
  BY <1>7, <1>8, <1>9, <1>11, <1>12, <1>13 DEF ChangeFits
<1>15. queue' \in QueueStates /\ UNCHANGED <<value, previous, allocated, app>>
  BY DEF Restocked
<1> QED  BY <1>1, <1>2, <1>3, <1>4, <1>5, <1>6, <1>14, <1>15, ChangeNext

\* xQueueReset of a queue of one item: the first task that waits for room is
\* woken.
LEMMA ResetKeeps ==
    ASSUME OnlyQueues, QueuesInv, NEW q \in App.queues, xQueueGenericReset(q)
    PROVE  QueuesInv'
<1>1. /\ CallsRunning("xQueueReset") /\ Kind[q] = "queue"
      /\ queue' = [queue EXCEPT ![q].count = 0, ![q].rx = queueUNLOCKED, ![q].tx = queueUNLOCKED]
      /\ k' = UnblockAndYield(k, xTasksWaitingToSend(q))
      /\ UNCHANGED <<todo, call, value, previous, allocated, app>>
  BY DEF xQueueGenericReset
<1>2. /\ k.cpu = "task" /\ k.susp = 0 /\ "xQueueReset" \in App.api[Me]
      /\ \A p \in Queue : queue[p].tx = queueUNLOCKED /\ queue[p].rx = queueUNLOCKED
      /\ \A p \in Queue, d \in Side, u \in Task : ~WillWait(todo, call, u, p, d)
  BY <1>1, BetweenCalls
<1>3. /\ queue \in QueueStates /\ q \in Queue /\ QInv(k, todo, queue, call) /\ Me \in Task
      /\ KernelOk(k) /\ k.current = Me /\ app \in DOMAIN Applications
  BY InvFacts, CallArguments
<1>4. Length[q] = 1
  BY <1>1, <1>2, <1>3 DEF OnlyQueues, App
<1>5. ~IsMutex(q)
  BY <1>1 DEF IsMutex
<1>6. /\ WaitList(q, "send") = xTasksWaitingToSend(q) /\ WaitList(q, "send") \in WaitLists
      /\ "send" \in Side /\ "receive" \in Side
  BY <1>3, WaitListsAreLists DEF WaitList, Side
<1>7. /\ Eases(k, k') /\ SameModes(k, k') /\ WakesFirst(k, k', WaitList(q, "send"))
  BY <1>1, <1>3, <1>6, UnblockAndYieldEases
<1>8. Lets(k, k')
  BY <1>7, EasesLets
<1>9. /\ queue' \in QueueStates /\ queue'[q].count = 0 /\ queue'[q].rx = queueUNLOCKED
      /\ queue'[q].tx = queueUNLOCKED /\ queue'[q].holder = queue[q].holder
      /\ queue'[q].calls = queue[q].calls /\ \A p \in Queue : p # q => queue'[p] = queue[p]
  <2>1. queue[q] \in QueueRecord /\ queueUNLOCKED \in -1 .. queueINT8_MAX
    BY <1>3 DEF QueueStates, queueUNLOCKED, queueINT8_MAX
  <2> DEFINE x == [queue[q] EXCEPT !.count = 0, !.rx = queueUNLOCKED, !.tx = queueUNLOCKED]
  <2>2. /\ x \in QueueRecord /\ x.count = 0 /\ x.rx = queueUNLOCKED /\ x.tx = queueUNLOCKED
        /\ x.holder = queue[q].holder /\ x.calls = queue[q].calls
    BY <2>1 DEF QueueRecord
  <2>3. queue' = [queue EXCEPT ![q] = x]
    BY <1>1, <1>3
  <2> HIDE DEF x
  <2>4. queue' \in QueueStates /\ queue'[q] = x /\ \A p \in Queue : p # q => queue'[p] = queue[p]
    BY <1>3, <2>2, <2>3 DEF QueueStates
  <2> QED  BY <2>2, <2>4
<1>10. Restocked(queue, queue', q)
  BY <1>2, <1>3, <1>4, <1>9 DEF Restocked
<1>11. WakeOk(k', todo, queue', call, q, "receive")
  <2>1. Stock(queue', q, "receive") <= 0
    BY <1>9 DEF Stock
  <2> QED  BY <1>3, <1>6, <1>9, <2>1, NothingToWaitFor
<1>12. WakeOk(k', todo, queue', call, q, "send")
  <2>1. queue[q].count \in Nat /\ queue[q].count <= Length[q]
    BY <1>3 DEF QInv, MutexInv, QueueStates, QueueRecord
  <2>2. Stock(queue', q, "send") <= Stock(queue, q, "send") + 1
    BY <1>4, <1>9, <2>1 DEF Stock
  <2>3. LockOf(queue', q, "send") = LockOf(queue, q, "send")
    BY <1>2, <1>3, <1>9 DEF LockOf
  <2>4. OthersSame(todo, todo, Me) /\ OthersSame(call, call, Me)
    BY DEF OthersSame
  <2>5. WaiterInv(k, todo, call) /\ WakeOk(k, todo, queue, call, q, "send")
    BY <1>3, <1>6 DEF QInv, WakeInv
  <2>6. \A u \in Task : ~WillWait(todo, call, u, q, "send")
    BY <1>2, <1>3, <1>6
  <2> QED  BY <1>3, <1>6, <1>7, <1>8, <1>9, <2>2, <2>3, <2>4, <2>5, <2>6, WakeByOne
<1>13. \A d \in Side : WakeOk(k', todo, queue', call, q, d)
  BY <1>11, <1>12 DEF Side
<1> QED  BY <1>1, <1>2, <1>3, <1>5, <1>7, <1>10, <1>13, RestockKeeps

-----------------------------------------------------------------------------
(* The interrupts of the application. *)

\* prvIncrementQueueTxLock and prvIncrementQueueRxLock.
LEMMA CountedFits ==
    ASSUME OnlyQueues, KernelOk(k), NEW lock \in 0 .. queueINT8_MAX
    PROVE  /\ Counted(lock) \in 0 .. queueINT8_MAX /\ Counted(lock) >= lock
           /\ Cardinality(k.live) \in Nat
           /\ Counted(lock) >= Cardinality(k.live) \/ Counted(lock) = lock + 1
           /\ lock >= Cardinality(k.live) => Counted(lock) >= Cardinality(k.live)
<1>1. Cardinality(k.live) \in Nat /\ Cardinality(k.live) <= queueINT8_MAX
  BY KernelOkLive, LiveNumbers
<1> QED  BY <1>1 DEF Counted, queueINT8_MAX

\* An interrupt makes room or adds an item: for one more of those who wait on
\* side d.
ServedFromISR(kk, qu, qv, q, d) ==
    /\ Restocked(qu, qv, q)
    /\ Stock(qv, q, d) <= Stock(qu, q, d) + 1
    /\ LockOf(qv, q, d) = IF LockOf(qu, q, d) = queueUNLOCKED THEN queueUNLOCKED
                          ELSE Counted(LockOf(qu, q, d))
    /\ \A s \in Side : s # d => /\ LockOf(qv, q, s) = LockOf(qu, q, s)
                                /\ Stock(qv, q, s) <= Stock(qu, q, s)

\* A queue function called from an interrupt keeps the invariant: it wakes a waiter,
\* or leaves it to the task that has the queue locked.
LEMMA ServedKeeps ==
    ASSUME OnlyQueues, QueuesInv, k.cpu = "task", NEW q \in Queue, ~IsMutex(q), NEW d \in Side,
           k' = IF LockOf(queue, q, d) = queueUNLOCKED THEN Unblock(k, WaitList(q, d)) ELSE k,
           ServedFromISR(k, queue, queue', q, d),
           UNCHANGED <<todo, call, value, previous, allocated, app>>
    PROVE  QueuesInv'
<1>1. /\ queue \in QueueStates /\ QInv(k, todo, queue, call) /\ Me \in Task /\ KernelOk(k)
      /\ k.current = Me /\ k.live \subseteq Task /\ Idle \in k.live
  BY InvFacts
<1>2. /\ Restocked(queue, queue', q) /\ queue' \in QueueStates
      /\ WaitList(q, d) \in WaitLists
  BY WaitListsAreLists DEF ServedFromISR, Restocked
<1>3. /\ Eases(k, k') /\ SameModes(k, k') /\ k'.current = k.current
      /\ LockOf(queue, q, d) = queueUNLOCKED => WakesFirst(k, k', WaitList(q, d))
  <2>1. CASE LockOf(queue, q, d) = queueUNLOCKED
    BY <1>1, <1>2, <2>1, UnblockEases
  <2>2. CASE LockOf(queue, q, d) # queueUNLOCKED
    BY <1>1, <2>2, EasesSame DEF SameModes
  <2> QED  BY <2>1, <2>2
<1>4. Lets(k, k')
  BY <1>3, EasesLets
<1>5. OthersSame(todo, todo, Me) /\ OthersSame(call, call, Me)
  BY DEF OthersSame
<1>6. ASSUME NEW s \in Side, s # d
      PROVE  WakeOk(k', todo, queue', call, q, s)
  <2>1. WakeOk(k, todo, queue, call, q, s)
    BY <1>1 DEF QInv, WakeInv
  <2>2. LockOf(queue', q, s) = LockOf(queue, q, s) /\ Stock(queue', q, s) <= Stock(queue, q, s)
    BY <1>6 DEF ServedFromISR
  <2>3. WillTry(todo, call, Me, q, s) \/ Me \notin Comers(k, todo, call, q, s)
    BY DEF Comers
  <2> QED  BY <1>1, <1>2, <1>4, <1>5, <2>1, <2>2, <2>3, WakeKept
<1>7. WakeOk(k', todo, queue', call, q, d)
  <2>1. WakeOk(k, todo, queue, call, q, d) /\ WaiterInv(k, todo, call)
    BY <1>1 DEF QInv, WakeInv
  <2>2. Stock(queue', q, d) <= Stock(queue, q, d) + 1
    BY DEF ServedFromISR
  <2>3. CASE LockOf(queue, q, d) = queueUNLOCKED
    <3>1. LockOf(queue', q, d) = LockOf(queue, q, d)
      BY <2>3 DEF ServedFromISR
    <3>2. \A u \in Task : ~WillWait(todo, call, u, q, d)
      <4> TAKE u \in Task
      <4>1. CASE u = Me
        <5>1. /\ queue[q].tx # queueUNLOCKED <=> LocksTx(todo, call, Me, q)
              /\ queue[q].rx # queueUNLOCKED <=> LocksRx(todo, call, Me, q)
          BY <1>1, LocksSay DEF QInv
        <5>2. ~LocksTx(todo, call, Me, q)
          <6>1. LocksTx(todo, call, Me, q) => LocksRx(todo, call, Me, q)
            BY DEF LocksTx, LocksRx, RxSteps
          <6> QED  BY <2>3, <5>1, <6>1 DEF LockOf
        <5>3. "inherit" \in TxSteps /\ "place" \in TxSteps
          BY DEF TxSteps
        <5> QED  BY <4>1, <5>2, <5>3 DEF LocksTx, WillWait
      <4>2. CASE u # Me
        <5>1. OpOf(todo[u]) \notin SuspSteps
          BY <1>1, <4>2 DEF QInv, Suspends
        <5> QED  BY <5>1 DEF WillWait, SuspSteps, RxSteps, TxSteps
      <4> QED  BY <4>1, <4>2
    <3> QED  BY <1>1, <1>2, <1>3, <1>4, <1>5, <2>1, <2>2, <2>3, <3>1, <3>2, WakeByOne
  <2>4. CASE LockOf(queue, q, d) # queueUNLOCKED
    <3> DEFINE lock == LockOf(queue, q, d)
    <3> DEFINE more == LockOf(queue', q, d)
    <3>1. lock \in 0 .. queueINT8_MAX
      <4>1. lock \in -1 .. queueINT8_MAX
        BY <1>1, SideNumbers
      <4>2. lock # queueUNLOCKED
        BY <2>4
      <4> HIDE DEF lock
      <4> QED  BY <4>1, <4>2 DEF queueUNLOCKED, queueINT8_MAX
    <3>2. more = Counted(lock) /\ k' = k
      BY <2>4 DEF ServedFromISR
    <3>3. /\ more \in 0 .. queueINT8_MAX /\ Cardinality(k.live) \in Nat
          /\ more >= Cardinality(k.live) \/ more = lock + 1
          /\ lock >= Cardinality(k.live) => more >= Cardinality(k.live)
      <4> HIDE DEF lock, more
      <4> QED  BY <1>1, <3>1, <3>2, CountedFits
    <3>4. CASE more >= Cardinality(k.live)
      BY <3>2, <3>4 DEF WakeOk
    <3>5. CASE more = lock + 1
      <4>1. Owed(lock) = lock /\ Owed(more) = more
        <5> HIDE DEF lock, more
        <5> QED  BY <3>1, <3>3 DEF Owed, queueUNLOCKED, queueINT8_MAX
      <4>2. Cardinality({}) = 0 /\ {} \in SUBSET Task
        BY FS_EmptySet
      <4>3. Stock(queue, q, d) \in Int /\ Stock(queue', q, d) \in Int
        BY <1>1, <1>2, SideNumbers
      <4>4. Stock(queue', q, d) + Cardinality({}) + Owed(lock)
                <= Stock(queue, q, d) + Cardinality({}) + Owed(more)
        <5> HIDE DEF lock, more
        <5> QED  BY <2>2, <3>1, <3>5, <4>1, <4>2, <4>3 DEF queueINT8_MAX
      <4>5. /\ (Comers(k, todo, call, q, d) \ {}) \cup {} \subseteq Comers(k', todo, call, q, d)
            /\ Comers(k, todo, call, q, d) \cap {} = {} /\ k'.live = k.live
            /\ Expected(k', todo, call, q, d) => Expected(k, todo, call, q, d)
        BY <3>2
      <4> QED  BY <1>1, <1>2, <2>1, <3>3, <4>2, <4>4, <4>5, WakeTrade
    <3> QED  BY <3>3, <3>4, <3>5
  <2> QED  BY <2>3, <2>4
<1>8. \A s \in Side : WakeOk(k', todo, queue', call, q, s)
  BY <1>6, <1>7
<1> QED  BY <1>1, <1>2, <1>3, <1>8, RestockKeeps

\* An item is added from an interrupt.
LEMMA AddedKeeps ==
    ASSUME OnlyQueues, QueuesInv, k.cpu = "task", NEW q \in Queue, ~IsMutex(q), AddedFromISR(q)
    PROVE  QueuesInv'
<1> DEFINE n == IF Full(q) THEN queue[q].count ELSE queue[q].count + 1
<1> DEFINE m == IF queue[q].tx = queueUNLOCKED THEN queueUNLOCKED ELSE Counted(queue[q].tx)
<1>1. /\ queue \in QueueStates /\ KernelOk(k) /\ queue[q] \in QueueRecord
      /\ queue[q].count \in Nat /\ queue[q].count <= Length[q] /\ Length[q] \in Nat
      /\ queue[q].tx \in -1 .. queueINT8_MAX
  BY InvFacts, QueuesAssumption DEF QInv, MutexInv, QueueStates, QueueRecord
<1>2. n \in Nat /\ n <= Length[q] /\ queue[q].count <= n /\ n <= queue[q].count + 1
  BY <1>1 DEF Full
<1>3. m \in -1 .. queueINT8_MAX /\ (m = queueUNLOCKED <=> queue[q].tx = queueUNLOCKED)
  <2>1. CASE queue[q].tx = queueUNLOCKED
    BY <1>1, <2>1
  <2>2. CASE queue[q].tx # queueUNLOCKED
    <3>1. queue[q].tx \in 0 .. queueINT8_MAX
      BY <1>1, <2>2 DEF queueUNLOCKED, queueINT8_MAX
    <3>2. Counted(queue[q].tx) \in 0 .. queueINT8_MAX
      BY <1>1, <3>1, CountedFits
    <3>3. m = Counted(queue[q].tx)
      BY <2>2
    <3> HIDE DEF m
    <3> QED  BY <2>2, <3>2, <3>3 DEF queueUNLOCKED, queueINT8_MAX
  <2> QED  BY <2>1, <2>2
<1>4. queue' = [queue EXCEPT ![q].count = n, ![q].tx = m]
  <2>1. queue' = [queue EXCEPT
           ![q].count = IF Full(q) THEN @ ELSE @ + 1,
           ![q].tx = IF @ = queueUNLOCKED THEN @ ELSE Counted(@)]
    BY DEF AddedFromISR
  <2> QED  BY <1>1, <2>1 DEF QueueStates, QueueRecord
<1>5. /\ k' = IF queue[q].tx = queueUNLOCKED THEN Unblock(k, xTasksWaitingToReceive(q)) ELSE k
      /\ UNCHANGED <<todo, call, value, previous, allocated, app>>
  BY DEF AddedFromISR
<1>6. m = IF queue[q].tx = queueUNLOCKED THEN queueUNLOCKED ELSE Counted(queue[q].tx)
  OBVIOUS
<1> HIDE DEF n, m
<1>7. /\ queue' \in QueueStates /\ queue'[q].count = n /\ queue'[q].tx = m
      /\ queue'[q].rx = queue[q].rx /\ queue'[q].holder = queue[q].holder
      /\ queue'[q].calls = queue[q].calls /\ \A p \in Queue : p # q => queue'[p] = queue[p]
  <2> DEFINE x == [queue[q] EXCEPT !.count = n, !.tx = m]
  <2>1. /\ x \in QueueRecord /\ x.count = n /\ x.tx = m /\ x.rx = queue[q].rx
        /\ x.holder = queue[q].holder /\ x.calls = queue[q].calls
    BY <1>1, <1>2, <1>3 DEF QueueRecord
  <2>2. queue' = [queue EXCEPT ![q] = x]
    BY <1>1, <1>4
  <2> HIDE DEF x
  <2>3. queue' \in QueueStates /\ queue'[q] = x /\ \A p \in Queue : p # q => queue'[p] = queue[p]
    BY <1>1, <2>1, <2>2 DEF QueueStates
  <2> QED  BY <2>1, <2>3
<1>8. Restocked(queue, queue', q)
  BY <1>2, <1>3, <1>7 DEF Restocked
<1>9. "receive" \in Side /\ WaitList(q, "receive") = xTasksWaitingToReceive(q)
      /\ LockOf(queue, q, "receive") = queue[q].tx /\ LockOf(queue', q, "receive") = m
  BY <1>7 DEF Side, WaitList, LockOf
<1>10. /\ Stock(queue', q, "receive") <= Stock(queue, q, "receive") + 1
       /\ Stock(queue', q, "send") <= Stock(queue, q, "send")
       /\ LockOf(queue', q, "send") = LockOf(queue, q, "send")
  BY <1>1, <1>2, <1>7 DEF Stock, LockOf
<1>11. ServedFromISR(k, queue, queue', q, "receive")
  BY <1>6, <1>8, <1>9, <1>10 DEF ServedFromISR, Side
<1> QED  BY <1>5, <1>9, <1>11, ServedKeeps

\* xQueueReceiveFromISR.
LEMMA ReceivedKeeps ==
    ASSUME OnlyQueues, QueuesInv, NEW q \in Queue, xQueueReceiveFromISR(q)
    PROVE  QueuesInv'
<1> DEFINE n == queue[q].count - 1
<1> DEFINE m == IF queue[q].rx = queueUNLOCKED THEN queueUNLOCKED ELSE Counted(queue[q].rx)
<1>1. /\ queue \in QueueStates /\ KernelOk(k) /\ queue[q] \in QueueRecord
      /\ queue[q].count \in Nat /\ queue[q].count <= Length[q] /\ Length[q] \in Nat
      /\ queue[q].rx \in -1 .. queueINT8_MAX
  BY InvFacts, QueuesAssumption DEF QInv, MutexInv, QueueStates, QueueRecord
<1>2. n \in Nat /\ n <= Length[q] /\ n <= queue[q].count /\ n + 1 = queue[q].count
  BY <1>1 DEF xQueueReceiveFromISR, IsEmpty
<1>3. m \in -1 .. queueINT8_MAX /\ (m = queueUNLOCKED <=> queue[q].rx = queueUNLOCKED)
  <2>1. CASE queue[q].rx = queueUNLOCKED
    BY <1>1, <2>1
  <2>2. CASE queue[q].rx # queueUNLOCKED
    <3>1. queue[q].rx \in 0 .. queueINT8_MAX
      BY <1>1, <2>2 DEF queueUNLOCKED, queueINT8_MAX
    <3>2. Counted(queue[q].rx) \in 0 .. queueINT8_MAX
      BY <1>1, <3>1, CountedFits
    <3>3. m = Counted(queue[q].rx)
      BY <2>2
    <3> HIDE DEF m
    <3> QED  BY <2>2, <3>2, <3>3 DEF queueUNLOCKED, queueINT8_MAX
  <2> QED  BY <2>1, <2>2
<1>4. queue' = [queue EXCEPT ![q].count = n, ![q].rx = m]
  <2>1. queue' = [queue EXCEPT
           ![q].count = @ - 1,
           ![q].rx = IF @ = queueUNLOCKED THEN @ ELSE Counted(@)]
    BY DEF xQueueReceiveFromISR
  <2> QED  BY <1>1, <2>1 DEF QueueStates, QueueRecord
<1>5. /\ k' = IF queue[q].rx = queueUNLOCKED THEN Unblock(k, xTasksWaitingToSend(q)) ELSE k
      /\ UNCHANGED <<todo, call, value, previous, allocated, app>>
      /\ k.cpu = "task" /\ ~IsMutex(q)
  BY DEF xQueueReceiveFromISR, Interrupts, InterruptsOn, IsMutex
<1>6. m = IF queue[q].rx = queueUNLOCKED THEN queueUNLOCKED ELSE Counted(queue[q].rx)
  OBVIOUS
<1> HIDE DEF n, m
<1>7. /\ queue' \in QueueStates /\ queue'[q].count = n /\ queue'[q].rx = m
      /\ queue'[q].tx = queue[q].tx /\ queue'[q].holder = queue[q].holder
      /\ queue'[q].calls = queue[q].calls /\ \A p \in Queue : p # q => queue'[p] = queue[p]
  <2> DEFINE x == [queue[q] EXCEPT !.count = n, !.rx = m]
  <2>1. /\ x \in QueueRecord /\ x.count = n /\ x.rx = m /\ x.tx = queue[q].tx
        /\ x.holder = queue[q].holder /\ x.calls = queue[q].calls
    BY <1>1, <1>2, <1>3 DEF QueueRecord
  <2>2. queue' = [queue EXCEPT ![q] = x]
    BY <1>1, <1>4
  <2> HIDE DEF x
  <2>3. queue' \in QueueStates /\ queue'[q] = x /\ \A p \in Queue : p # q => queue'[p] = queue[p]
    BY <1>1, <2>1, <2>2 DEF QueueStates
  <2> QED  BY <2>1, <2>3
<1>8. Restocked(queue, queue', q)
  BY <1>2, <1>3, <1>7 DEF Restocked
<1>9. "send" \in Side /\ WaitList(q, "send") = xTasksWaitingToSend(q)
      /\ LockOf(queue, q, "send") = queue[q].rx /\ LockOf(queue', q, "send") = m
  BY <1>7 DEF Side, WaitList, LockOf
<1>10. /\ Stock(queue', q, "send") <= Stock(queue, q, "send") + 1
       /\ Stock(queue', q, "receive") <= Stock(queue, q, "receive")
       /\ LockOf(queue', q, "receive") = LockOf(queue, q, "receive")
  BY <1>1, <1>2, <1>7 DEF Stock, LockOf
<1>11. ServedFromISR(k, queue, queue', q, "send")
  BY <1>6, <1>8, <1>9, <1>10 DEF ServedFromISR, Side
<1> QED  BY <1>5, <1>9, <1>11, ServedKeeps

\* The interrupts keep the invariant.
LEMMA InterruptKeeps ==
    ASSUME OnlyQueues, QueuesInv, QueueInterrupt
    PROVE  QueuesInv'
<1>1. PICK q \in App.queues :
          \/ \E overwrite \in BOOLEAN : xQueueGenericSendFromISR(q, overwrite)
          \/ xQueueGiveFromISR(q)
          \/ xQueueReceiveFromISR(q)
  BY DEF QueueInterrupt
<1>2. q \in Queue
  BY CallArguments
<1>3. CASE \/ \E overwrite \in BOOLEAN : xQueueGenericSendFromISR(q, overwrite)
           \/ xQueueGiveFromISR(q)
  <2>1. k.cpu = "task" /\ ~IsMutex(q) /\ AddedFromISR(q)
    BY <1>3 DEF xQueueGenericSendFromISR, xQueueGiveFromISR, Interrupts, InterruptsOn, IsMutex
  <2> QED  BY <1>2, <2>1, AddedKeeps
<1>4. CASE xQueueReceiveFromISR(q)
  BY <1>2, <1>4, ReceivedKeeps
<1> QED  BY <1>1, <1>3, <1>4

-----------------------------------------------------------------------------
(* Every step keeps the invariant. *)

\* Each further step of a call keeps the invariant.
LEMMA ContinuationKeeps ==
    ASSUME OnlyQueues, QueuesInv, QueueContinuation
    PROVE  QueuesInv'
<1>1. CASE TryNow
  BY <1>1, SendNowKeeps, ReceiveNowKeeps, PeekNowKeeps DEF TryNow
<1>2. CASE TryLater
  BY <1>2, TryLaterKeeps
<1>3. CASE Suspend \/ Lock
  BY <1>3, SuspendStepKeeps, LockKeeps
<1>4. CASE CheckForTimeOut \/ Test \/ TestAgain
  BY <1>4, CheckForTimeOutKeeps, TestKeeps
<1>5. CASE Inherit \/ Place
  BY <1>5, InheritStepKeeps, PlaceKeeps
<1>6. CASE UnlockTx \/ UnlockRx
  BY <1>6, UnlockTxKeeps, UnlockRxKeeps
<1>7. CASE AfterTimeOut \/ DisinheritAfterTimeout
  BY <1>7, AfterTimeOutKeeps, DisinheritStepKeeps
<1>8. CASE CountRecursion
  BY <1>8, CountRecursionKeeps
<1> QED  BY <1>1, <1>2, <1>3, <1>4, <1>5, <1>6, <1>7, <1>8 DEF QueueContinuation

\* Each first step of a call keeps the invariant.
LEMMA QueueCallKeeps ==
    ASSUME OnlyQueues, QueuesInv, QueueCall
    PROVE  QueuesInv'
<1>1. PICK q \in App.queues :
          \/ xQueueGiveMutexRecursive(q)
          \/ xQueueGenericReset(q)
          \/ \E n \in SendTicks(q), overwrite \in BOOLEAN : xQueueGenericSend(q, n, overwrite)
          \/ \E n \in App.ticks[Me] :
                \/ xQueueReceive(q, n) \/ xQueuePeek(q, n)
                \/ xQueueSemaphoreTake(q, n) \/ xQueueTakeMutexRecursive(q, n)
  BY DEF QueueCall
<1>2. q \in Queue /\ App.ticks[Me] \subseteq Tick /\ SendTicks(q) \subseteq Tick /\ 0 \in Tick
  BY CallArguments
<1>3. CASE xQueueGiveMutexRecursive(q)
  <2>1. queue[q].holder = Me
    BY <1>3 DEF xQueueGiveMutexRecursive
  <2> QED  BY <1>2, <1>3, <2>1, MutexCallKeeps
<1>4. CASE xQueueGenericReset(q)
  BY <1>4, ResetKeeps
<1>5. ASSUME NEW n \in SendTicks(q), NEW overwrite \in BOOLEAN, xQueueGenericSend(q, n, overwrite)
      PROVE  QueuesInv'
  BY <1>2, <1>5, SendCallKeeps
<1>6. ASSUME NEW n \in App.ticks[Me],
             \/ xQueueReceive(q, n) \/ xQueuePeek(q, n)
             \/ xQueueSemaphoreTake(q, n) \/ xQueueTakeMutexRecursive(q, n)
      PROVE  QueuesInv'
  <2>1. n \in Tick
    BY <1>2
  <2>2. CASE xQueueReceive(q, n) \/ xQueuePeek(q, n) \/ xQueueSemaphoreTake(q, n)
    BY <1>2, <2>1, <2>2, ReceiveCallKeeps
  <2>3. CASE xQueueTakeMutexRecursive(q, n) /\ queue[q].holder # Me
    BY <1>2, <2>1, <2>3, ReceiveCallKeeps
  <2>4. CASE xQueueTakeMutexRecursive(q, n) /\ queue[q].holder = Me
    BY <1>2, <2>1, <2>4, MutexCallKeeps
  <2> QED  BY <1>6, <2>2, <2>3, <2>4
<1> QED  BY <1>1, <1>3, <1>4, <1>5, <1>6

\* Every step keeps the invariant.
LEMMA QueuesNextKeeps ==
    ASSUME OnlyQueues, QueuesInv, [QueuesNext]_allVars
    PROVE  QueuesInv'
<1>1. CASE Next /\ UNCHANGED queueVars
  BY <1>1, TaskStepKeeps
<1>2. CASE QueueContinuation
  BY <1>2, ContinuationKeeps
<1>3. CASE QueueCall
  BY <1>3, QueueCallKeeps
<1>4. CASE QueueInterrupt
  BY <1>4, InterruptKeeps
<1>5. CASE UNCHANGED allVars
  <2>1. /\ k' = k /\ todo' = todo /\ queue' = queue /\ call' = call
        /\ UNCHANGED <<value, previous, allocated, app>>
    BY <1>5 DEF allVars
  <2>2. QInv(k', todo', queue', call')
    BY <2>1 DEF QueuesInv
  <2>3. QueuesTypeOK'
    <3>1. /\ QueuesTypeOK /\ k' \in KernelState /\ todo' \in [Task -> Seq(Work)]
          /\ queue' \in QueueStates /\ call' \in CallStates
      BY <2>1, InvFacts DEF QueuesInv
    <3>2. UNCHANGED <<value, previous, allocated, app>>
      BY <2>1
    <3> QED  BY <3>1, <3>2, TypesNext
  <2> QED  BY <2>2, <2>3 DEF QueuesInv
<1> QED  BY <1>1, <1>2, <1>3, <1>4, <1>5 DEF QueuesNext

\* It holds when the scheduler starts: no task has called anything.
LEMMA QueuesInitHolds ==
    ASSUME OnlyQueues, QueuesInit
    PROVE  QueuesInv
<1> DEFINE first == Last(App.ready[HighestStart])
<1>1. /\ Init /\ app \in DOMAIN Applications /\ call = [t \in Task |-> NoCall]
      /\ queue = [q \in Queue |-> [count |-> InitialCount[q], rx |-> queueUNLOCKED,
                                   tx |-> queueUNLOCKED, holder |-> NULL, calls |-> 0]]
      /\ todo = [t \in Task |-> <<>>]
  BY DEF QueuesInit, Init
<1>2. TypeOK /\ KernelInv(k, allocated)
  BY <1>1, StartTyped, StartKernel
<1>3. /\ Sound(k) /\ IsReady(k, Idle) /\ k.current \in k.live /\ k \in KernelState
      /\ k.live \subseteq Task /\ k.cpu = "task" /\ k.susp = 0 /\ k.live = Started
      /\ k.order = [t \in Task |-> EventValue(StartPriority(t))] /\ k.held = [t \in Task |-> 0]
      /\ k.current \in Task /\ Idle \in Task
  BY <1>1, <1>2, StartLists, FieldTypes, TasksAssumption DEF KernelInv, Init
<1>4. \A e \in EventLists, t \in Task : ~Occurs(k.event[e], t)
  BY <1>1, StartLists, EmptyHoldsNone
<1>5. \A t \in Task : ~IsIn(k, t, Terminated)
  BY <1>1, StartLists
<1>6. \A t \in Task : k.order[t] \in 1 .. MaxPriority + 1
  <2> TAKE t \in Task
  <2>1. StartPriority(t) \in 0 .. MaxPriority /\ MaxPriority \in Nat
    BY <1>1, StartPriorityFacts, KernelAssumption DEF Priority
  <2> QED  BY <1>3, <2>1 DEF EventValue
<1>7. KernelOk(k)
  BY <1>3, <1>4, <1>5, <1>6 DEF KernelOk
<1>8. IsReady(k, k.current)
  <2>1. first \in Task /\ HighestStart \in Priority /\ ReadyAtStart(HighestStart, first)
    BY <1>1, HighestStartFacts
  <2>2. k.current = first
    BY <1>1, StartLists
  <2> HIDE DEF first
  <2>3. k.prio[first] = HighestStart
    BY <1>1, <2>1, StartLists, StartPriorityFacts
  <2>4. IsReady(k, first)
    BY <1>1, <2>1, <2>3, StartLists DEF IsReady
  <2> QED  BY <2>2, <2>4
<1>9. /\ <<>> \in Seq(Work) /\ InSequence(<<>>) /\ OpOf(<<>>) = "none" /\ (\A op : ~Has(<<>>, op))
      /\ NoCall \in CallRecord /\ NoCall.kind = "send"
  BY NothingToDo
<1>10. \A t \in Task : todo[t] = <<>> /\ OpOf(todo[t]) = "none" /\ call[t] = NoCall
  BY <1>1, <1>9
<1>11. "none" \notin SuspSteps \cup RxSteps \cup TxSteps \cup {"delay", "inherit", "place"}
  BY DEF SuspSteps, RxSteps, TxSteps
<1>12. queueUNLOCKED \in -1 .. queueINT8_MAX /\ NULL \notin Task
       /\ InitialCount \in [Queue -> Nat] /\ Length \in [Queue -> Nat \ {0}]
       /\ Kind \in [Queue -> QueueKinds]
  BY QueuesAssumption DEF queueUNLOCKED, queueINT8_MAX
<1>13. /\ \A q \in Queue : /\ queue[q].count = InitialCount[q] /\ queue[q].holder = NULL
                           /\ queue[q].calls = 0 /\ queue[q].tx = queueUNLOCKED
                           /\ queue[q].rx = queueUNLOCKED
       /\ queue \in QueueStates
  BY <1>1, <1>12 DEF QueueStates, QueueRecord
<1>14. QueuesTypeOK
  BY <1>1, <1>2, <1>9, <1>13 DEF QueuesTypeOK, QueueStates, QueueRecord, CallRecord
<1>15. WorkOk(todo, k.live)
  BY <1>3, <1>9, <1>10 DEF WorkOk
<1>16. Suspends(k, todo) /\ Runs(k, todo)
  BY <1>3, <1>8, <1>10, <1>11 DEF Suspends, Runs
<1>17. LockInv(todo, queue, call)
  BY <1>10, <1>11, <1>13 DEF LockInv, LocksTx, LocksRx
<1>18. \A q \in Queue, s \in Side, t \in Task : ~Queued(k, t, q, s)
  BY <1>4, WaitListsAreLists DEF Queued
<1>19. WaiterInv(k, todo, call)
  BY <1>18 DEF WaiterInv
<1>20. WakeInv(k, todo, queue, call)
  <2>1. \A q \in Queue, s \in Side, t \in Task : ~WillWait(todo, call, t, q, s)
    BY <1>10, <1>11 DEF WillWait
  <2> QED  BY <1>18, <2>1 DEF WakeInv, WakeOk, Expected
<1>21. CallInv(todo, queue, call)
  <2>1. \A t \in Task : ~Busy(todo[t])
    BY <1>9, <1>10 DEF Busy
  <2> QED  BY <1>9, <1>10, <2>1 DEF CallInv, CallOk
<1>22. MutexInv(k.live, k.held, todo, queue, call)
  <2>1. \A q \in Queue :
            /\ queue[q].count <= Length[q]
            /\ IsMutex(q) => (queue[q].count = 0 <=> queue[q].holder # NULL)
            /\ ~IsMutex(q) => queue[q].holder = NULL
            /\ queue[q].holder \in k.live \cup {NULL}
            /\ queue[q].holder = NULL \/ Kind[q] # "recursive" => queue[q].calls = 0
    BY <1>13, QueuesAssumption DEF IsMutex
  <2>2. \A q \in Queue, t \in Task : queue[q].holder # t
    BY <1>12, <1>13
  <2>3. \A t \in Task : k.held[t] = Cardinality(MutexesOf(queue, t))
    <3>1. \A t \in Task : MutexesOf(queue, t) = {}
      BY <2>2 DEF MutexesOf
    <3> QED  BY <1>3, <3>1, FS_EmptySet
  <2>4. \A q \in Queue, h \in Task : ~Uncounted(queue, q, h)
    BY <2>2 DEF Uncounted
  <2> QED  BY <2>1, <2>3, <2>4 DEF MutexInv
<1> QED  BY <1>7, <1>14, <1>15, <1>16, <1>17, <1>19, <1>20, <1>21, <1>22 DEF QueuesInv, QInv

\* The invariant holds in every state of such an application.
THEOREM QueuesInvariantHolds ==
    ASSUME OnlyQueues
    PROVE  QueuesSpec => []QueuesInv
<1>1. QueuesInit => QueuesInv
  BY QueuesInitHolds
<1>2. QueuesInv /\ [QueuesNext]_allVars => QueuesInv'
  BY QueuesNextKeeps
<1> QED  BY <1>1, <1>2, PTL DEF QueuesSpec

-----------------------------------------------------------------------------
(* The safety properties follow. *)

\* A task in the event list of a queue waits for that side of it.
LEMMA WaiterFacts ==
    ASSUME OnlyQueues, QueuesInv, NEW q \in Queue, NEW s \in Side,
           NEW i, i \in DOMAIN k.event[WaitList(q, s)]
    PROVE  LET t == k.event[WaitList(q, s)][i]
           IN  /\ t \in Task /\ Queued(k, t, q, s) /\ WillTry(todo, call, t, q, s)
               /\ ~IsReady(k, t)
<1> DEFINE e == WaitList(q, s)
<1> DEFINE t == k.event[e][i]
<1>1. e \in EventLists /\ KernelOk(k) /\ k \in KernelState /\ WaiterInv(k, todo, call)
  BY WaitListsAreLists, InvFacts DEF QInv
<1>2. k.event[e] \in Seq(Task)
  BY <1>1, FieldTypes
<1>3. Occurs(k.event[e], t)
  BY DEF Occurs
<1>4. t \in Task
  BY <1>2, <1>3, OccursByLength
<1> QED  BY <1>1, <1>3, <1>4 DEF Queued, WaiterInv, KernelOk

\* A task that has work of the kind is in a call.
LEMMA HasWork ==
    ASSUME OnlyQueues, QueuesInv, NEW t \in Task, NEW op, Has(todo[t], op)
    PROVE  todo[t] # <<>> /\ t \in k.live /\ \E i \in DOMAIN todo[t] : todo[t][i].op = op
<1>1. todo[t] \in Seq(Work) /\ WorkOk(todo, k.live)
  BY InvFacts DEF QInv
<1>2. todo[t] # <<>>
  BY NothingToDo
<1>3. DOMAIN todo[t] = 1 .. Len(todo[t])
  BY <1>1, LenProperties
<1> QED  BY <1>1, <1>2, <1>3 DEF Has, WorkOk

\* A queue is locked only with the scheduler suspended, and only tasks that are
\* not ready wait in its event lists.
LEMMA InvariantMeansSound ==
    ASSUME OnlyQueues, QueuesInv
    PROVE  QueuesAreSound
<1>1. /\ QInv(k, todo, queue, call) /\ k.current = Me /\ Me \in Task
  BY InvFacts
<1>2. LockedOnlyWhileSuspended
  <2> SUFFICES ASSUME NEW q \in Queue,
                      queue[q].tx # queueUNLOCKED \/ queue[q].rx # queueUNLOCKED
               PROVE  k.susp > 0 /\ todo[Me] # <<>> /\ call[Me].queue = q
    BY DEF LockedOnlyWhileSuspended
  <2>1. LocksTx(todo, call, Me, q) \/ LocksRx(todo, call, Me, q)
    BY <1>1, LocksSay DEF QInv
  <2>2. OpOf(todo[Me]) \in RxSteps /\ call[Me].queue = q
    BY <2>1 DEF LocksTx, LocksRx, RxSteps
  <2>3. OpOf(todo[Me]) \in SuspSteps /\ OpOf(todo[Me]) \notin {"none", "resumeAll"}
    BY <2>2 DEF SuspSteps, RxSteps, TxSteps
  <2>4. k.susp = 1
    BY <1>1, <2>3 DEF QInv, Suspends
  <2>5. todo[Me] # <<>>
    BY <2>3, NothingToDo
  <2> QED  BY <2>2, <2>4, <2>5
<1>3. ASSUME NEW q \in Queue, NEW s \in Side, NEW i, i \in DOMAIN k.event[WaitList(q, s)]
      PROVE  LET t == k.event[WaitList(q, s)][i]
             IN  /\ todo[t] # <<>> /\ call[t].queue = q
                 /\ call[t].kind \in (IF s = "send" THEN {"send"} ELSE {"receive", "peek", "take"})
                 /\ ~IsIn(k, t, Ready(k.prio[t]))
  <2> DEFINE t == k.event[WaitList(q, s)][i]
  <2>1. t \in Task /\ WillTry(todo, call, t, q, s) /\ ~IsReady(k, t)
    BY <1>3, WaiterFacts
  <2> HIDE DEF t
  <2>2. todo[t] # <<>>
    BY <2>1, HasWork DEF WillTry
  <2>3. /\ todo[t] # <<>> /\ call[t].queue = q
        /\ call[t].kind \in (IF s = "send" THEN {"send"} ELSE {"receive", "peek", "take"})
        /\ ~IsIn(k, t, Ready(k.prio[t]))
    BY <2>1, <2>2 DEF WillTry, KindsOf, IsReady
  <2> QED  BY <2>3 DEF t
<1>4. WaitersAreBlocked
  <2> SUFFICES ASSUME NEW q \in Queue, NEW e \in {xTasksWaitingToSend(q), xTasksWaitingToReceive(q)},
                      NEW i, i \in DOMAIN k.event[e]
               PROVE  LET t == k.event[e][i]
                      IN  /\ todo[t] # <<>> /\ call[t].queue = q
                          /\ call[t].kind \in (IF e = xTasksWaitingToSend(q) THEN {"send"}
                                               ELSE {"receive", "peek", "take"})
                          /\ ~IsIn(k, t, Ready(k.prio[t]))
    BY DEF WaitersAreBlocked
  <2>1. /\ WaitList(q, "send") = xTasksWaitingToSend(q) /\ "send" \in Side
        /\ WaitList(q, "receive") = xTasksWaitingToReceive(q) /\ "receive" \in Side
        /\ xTasksWaitingToReceive(q) # xTasksWaitingToSend(q)
    BY DEF WaitList, Side, xTasksWaitingToSend, xTasksWaitingToReceive
  <2>2. PICK s \in Side : e = WaitList(q, s) /\ (s = "send" <=> e = xTasksWaitingToSend(q))
    BY <2>1
  <2> QED  BY <1>3, <2>2
<1> QED  BY <1>2, <1>4 DEF QueuesAreSound, QueuesInv

\* While there is something that tasks wait for, one is on its way to it.
LEMMA SomebodyComes ==
    ASSUME OnlyQueues, QueuesInv, NEW q \in Queue, NEW s \in Side,
           LockOf(queue, q, s) = queueUNLOCKED, k.event[WaitList(q, s)] # <<>>,
           Stock(queue, q, s) > 0
    PROVE  \E t \in k.live : Retries(t, q, KindsOf(s))
<1>1. /\ QInv(k, todo, queue, call) /\ queue \in QueueStates /\ k \in KernelState
      /\ k.live \subseteq Task /\ Idle \in k.live
  BY InvFacts
<1>2. Expected(k, todo, call, q, s)
  <2>1. k.event[WaitList(q, s)] \in Seq(Task)
    BY <1>1, WaitListsAreLists, FieldTypes
  <2>2. 1 \in DOMAIN k.event[WaitList(q, s)]
    BY <2>1
  <2> QED  BY <2>2, WaiterFacts DEF Expected
<1>3. Cardinality(k.live) \in Nat /\ Cardinality(k.live) > 0
  BY <1>1, LiveNumbers
<1>4. Owed(LockOf(queue, q, s)) = 0 /\ ~(LockOf(queue, q, s) >= Cardinality(k.live))
  BY <1>3 DEF Owed, queueUNLOCKED
<1>5. Comers(k, todo, call, q, s) # {}
  <2>1. Stock(queue, q, s) <= Cardinality(Comers(k, todo, call, q, s)) + 0
    BY <1>1, <1>2, <1>4 DEF QInv, WakeInv, WakeOk
  <2>2. Stock(queue, q, s) \in Int
    BY <1>1, SideNumbers
  <2>3. Cardinality({}) = 0
    BY FS_EmptySet
  <2>4. Cardinality(Comers(k, todo, call, q, s)) # 0
    BY <2>1, <2>2
  <2> QED  BY <2>3, <2>4
<1>6. PICK t \in Task : WillTry(todo, call, t, q, s) /\ ~InQueueList(k, t)
  BY <1>5 DEF Comers
<1>7. /\ todo[t] # <<>> /\ t \in k.live
      /\ \E i \in DOMAIN todo[t] : todo[t][i].op \in {"try", "timeOut", "test"}
  BY <1>6, HasWork DEF WillTry
<1> QED  BY <1>6, <1>7 DEF Retries, WillTry, InQueueList

\* While the invariant holds, nobody waits beside what it waits for.
LEMMA InvariantMeansNoLostWakeup ==
    ASSUME OnlyQueues, QueuesInv
    PROVE  NoLostWakeup
<1> SUFFICES ASSUME NEW q \in Queue
             PROVE  /\ /\ queue[q].count > 0
                       /\ queue[q].tx = queueUNLOCKED
                       /\ k.event[xTasksWaitingToReceive(q)] # <<>>
                       => \E t \in k.live : Retries(t, q, {"receive", "peek", "take"})
                    /\ /\ ~Full(q)
                       /\ queue[q].rx = queueUNLOCKED
                       /\ k.event[xTasksWaitingToSend(q)] # <<>>
                       => \E t \in k.live : Retries(t, q, {"send"})
  BY DEF NoLostWakeup
<1>1. /\ "send" \in Side /\ "receive" \in Side
      /\ WaitList(q, "send") = xTasksWaitingToSend(q)
      /\ WaitList(q, "receive") = xTasksWaitingToReceive(q)
      /\ LockOf(queue, q, "send") = queue[q].rx /\ LockOf(queue, q, "receive") = queue[q].tx
      /\ Stock(queue, q, "send") = Length[q] - queue[q].count
      /\ Stock(queue, q, "receive") = queue[q].count
      /\ KindsOf("send") = {"send"} /\ KindsOf("receive") = {"receive", "peek", "take"}
  BY DEF Side, WaitList, LockOf, Stock, KindsOf
<1>2. queue[q].count \in Nat /\ queue[q].count <= Length[q] /\ Length[q] \in Nat
  BY InvFacts, QueuesAssumption DEF QInv, MutexInv, QueueStates, QueueRecord
<1>3. ~Full(q) => Stock(queue, q, "send") > 0
  BY <1>1, <1>2 DEF Full
<1>4. ASSUME queue[q].count > 0, queue[q].tx = queueUNLOCKED,
             k.event[xTasksWaitingToReceive(q)] # <<>>
      PROVE  \E t \in k.live : Retries(t, q, {"receive", "peek", "take"})
  <2>1. \E t \in k.live : Retries(t, q, KindsOf("receive"))
    BY <1>1, <1>4, SomebodyComes
  <2> QED  BY <1>1, <2>1
<1>5. ASSUME ~Full(q), queue[q].rx = queueUNLOCKED, k.event[xTasksWaitingToSend(q)] # <<>>
      PROVE  \E t \in k.live : Retries(t, q, {"send"})
  <2>1. \E t \in k.live : Retries(t, q, KindsOf("send"))
    BY <1>1, <1>3, <1>5, SomebodyComes
  <2> QED  BY <1>1, <2>1
<1> QED  BY <1>4, <1>5

\* While the invariant holds, the holder of each mutex is known.
LEMMA InvariantMeansHolders ==
    ASSUME OnlyQueues, QueuesInv
    PROVE  MutexHolderKnown
<1>1. /\ MutexInv(k.live, k.held, todo, queue, call) /\ k.live \subseteq Task
      /\ queue \in QueueStates
  BY InvFacts DEF QInv
<1>2. \A q \in Queue : IsMutex(q) => (queue[q].count = 0 <=> queue[q].holder # NULL)
  BY <1>1 DEF MutexInv
<1>3. \A t \in k.live : k.held[t] = Cardinality(MutexesHeld(t))
  <2>1. \A t \in Task : MutexesHeld(t) = MutexesOf(queue, t)
    BY DEF MutexesHeld, MutexesOf
  <2> QED  BY <1>1, <2>1 DEF MutexInv
<1>4. ASSUME NEW q \in Queue,
             Kind[q] = "recursive" /\ queue[q].calls = 0 /\ queue[q].holder # NULL
      PROVE  todo[queue[q].holder] # <<>>
  <2>1. queue[q].holder \in Task
    BY <1>1, <1>4 DEF QueueStates, QueueRecord
  <2>2. Uncounted(queue, q, queue[q].holder)
    BY <1>4 DEF Uncounted
  <2>3. OpOf(todo[queue[q].holder]) # "none"
    BY <1>1, <2>1, <2>2 DEF MutexInv
  <2> QED  BY <2>3, NothingToDo
<1> QED  BY <1>2, <1>3, <1>4 DEF MutexHolderKnown

\* However the calls and the interrupts interleave, a queue is locked only
\* while the scheduler is suspended, for the task whose call locked it, and the
\* tasks in its event lists are blocked in a call that waits for it.
THEOREM QueuesStaySound ==
    ASSUME OnlyQueues
    PROVE  QueuesSpec => []QueuesAreSound
<1>1. QueuesInv => QueuesAreSound
  BY InvariantMeansSound
<1>2. QueuesSpec => []QueuesInv
  BY QueuesInvariantHolds
<1> QED  BY <1>1, <1>2, PTL

\* No wake-up is lost: a task that waits for an item, or for room, is not left
\* waiting while there is one, unless another is on its way to take it; also
\* when the item came from an interrupt while the queue was locked.
THEOREM NoWakeupIsLost ==
    ASSUME OnlyQueues
    PROVE  QueuesSpec => []NoLostWakeup
<1>1. QueuesInv => NoLostWakeup
  BY InvariantMeansNoLostWakeup
<1>2. QueuesSpec => []QueuesInv
  BY QueuesInvariantHolds
<1> QED  BY <1>1, <1>2, PTL

\* The holder of every mutex is known, and has counted it: what
\* xTaskPriorityDisinherit asserts and relies on.
THEOREM HoldersStayKnown ==
    ASSUME OnlyQueues
    PROVE  QueuesSpec => []MutexHolderKnown
<1>1. QueuesInv => MutexHolderKnown
  BY InvariantMeansHolders
<1>2. QueuesSpec => []QueuesInv
  BY QueuesInvariantHolds
<1> QED  BY <1>1, <1>2, PTL
=============================================================================
