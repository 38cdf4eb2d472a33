------------------------------- MODULE Queues -------------------------------
(***************************************************************************)
(* Queues, semaphores and mutexes: freertos/source/queue.c above the       *)
(* scheduler of Tasks.tla.                                                 *)
(*                                                                         *)
(* A blocking call loops: it tries, in a critical section; then, with the  *)
(* scheduler suspended and the queue locked, it sees if its time is up and *)
(* if the queue is still full or empty, and if so puts the caller in the   *)
(* event list of the queue.  Interrupts that find the queue locked leave   *)
(* its event lists alone and count in cTxLock and cRxLock; prvUnlockQueue  *)
(* makes up for them.  What is in the items is modelled in QueueBuffer;    *)
(* here a queue is the number of items it holds.                           *)
(***************************************************************************)
EXTENDS Tasks, FiniteSets

CONSTANTS
    Queue,          \* the queues
    Kind,           \* [Queue -> "queue", "semaphore", "mutex" or "recursive"]
    Length,         \* [Queue -> uxLength]
    InitialCount,   \* [Queue -> the items or the count it starts with]
    MaxRecursion,   \* bound: how deep a recursive mutex is taken
    NULL            \* no task

QueueKinds == {"queue", "semaphore", "mutex", "recursive"}

ASSUME QueuesAssumption ==
    /\ Kind \in [Queue -> QueueKinds]
    /\ Length \in [Queue -> Nat \ {0}]
    /\ InitialCount \in [Queue -> Nat]
    /\ \A q \in Queue : InitialCount[q] <= Length[q]
    /\ \A q \in Queue : Kind[q] \in {"mutex", "recursive"} => Length[q] = 1 /\ InitialCount[q] = 1
    /\ MaxRecursion \in Nat
    /\ NULL \notin Task
    /\ \A name \in DOMAIN Applications : Applications[name].queues \subseteq Queue

xTasksWaitingToSend(q) == <<"xTasksWaitingToSend", q>>
xTasksWaitingToReceive(q) == <<"xTasksWaitingToReceive", q>>

QueueLists ==
    {xTasksWaitingToSend(q) : q \in Queue} \cup {xTasksWaitingToReceive(q) : q \in Queue}

VARIABLES
    queue,  \* [Queue -> its count, locks, mutex holder and recursive count]
    call    \* [Task -> the parameters and locals of the blocking call it is in]

queueVars == <<queue, call>>
allVars == <<k, todo, value, previous, allocated, app, queue, call>>

queueUNLOCKED == -1
queueINT8_MAX == 127

CallKinds == {"send", "overwrite", "receive", "peek", "take"}
QueueOps == {"try", "suspend", "lock", "timeOut", "test", "inherit", "place",
             "unlockTx", "unlockRx", "timedOut", "disinherit", "count"}

NoCall == [kind |-> "send", queue |-> CHOOSE q \in Queue : TRUE, ticks |-> 0,
           entrySet |-> FALSE, entered |-> 0, overflow |-> 0, inherited |-> FALSE]

QueuesTypeOK ==
    /\ TypeOK
    /\ queue \in [Queue -> [count: Nat, rx: -1 .. queueINT8_MAX, tx: -1 .. queueINT8_MAX,
                            holder: Task \cup {NULL}, calls: Nat]]
    /\ call \in [Task -> [kind: CallKinds, queue: Queue, ticks: Tick,
                          entrySet: BOOLEAN, entered: Tick,
                          overflow: 0 .. OverflowCount - 1, inherited: BOOLEAN]]

\* xQueueGenericCreate, xQueueCreateMutex, xQueueCreateCountingSemaphore
QueuesInit ==
    /\ Init
    /\ queue = [q \in Queue |-> [count |-> InitialCount[q], rx |-> queueUNLOCKED,
                                 tx |-> queueUNLOCKED, holder |-> NULL, calls |-> 0]]
    /\ call = [t \in Task |-> NoCall]

IsMutex(q) == Kind[q] \in {"mutex", "recursive"}

-----------------------------------------------------------------------------
(* Event lists.                                                            *)

\* The first task waiting in event list e, if any, is unblocked, and the
\* running task yields to it if its priority is higher.
Unblock(s, e) == IF s.event[e] = <<>> THEN s ELSE xTaskRemoveFromEventList(s, e)

\* Mutant of UnblockAndYield: nobody is woken.
UnblockNobody(s, e) == s

UnblockAndYield(s, e) ==
    LET t == Head(s.event[e])
    IN  IF s.event[e] # <<>> /\ s.prio[t] > s.prio[s.current]
        THEN vTaskSwitchContext(xTaskRemoveFromEventList(s, e))
        ELSE Unblock(s, e)

\* The loop of prvUnlockQueue: a waiting task for each counted item.
UnblockUpTo(e, n) ==
    LET after[i \in 0 .. n] == IF i = 0 THEN k ELSE Unblock(after[i - 1], e)
    IN  after[n]

-----------------------------------------------------------------------------
(* The blocking calls: xQueueGenericSend, xQueueReceive, xQueuePeek and    *)
(* xQueueSemaphoreTake.                                                    *)

This == call[Me]
Q == This.queue
Sends == This.kind \in {"send", "overwrite"}

Full(q) == queue[q].count = Length[q]
IsEmpty(q) == queue[q].count = 0

Succeeds ==
    CASE This.kind = "send" -> queue[Q].count < Length[Q]
      [] This.kind = "overwrite" -> TRUE
      [] OTHER -> queue[Q].count > 0

\* The call returns; whatever called it goes on.
Return ==
    /\ Done
    /\ call' = [call EXCEPT ![Me] = NoCall]

\* prvCopyDataToQueue and what follows it.  Giving a mutex gives back the
\* priority inherited for it, which may call for a yield; that is looked at
\* only if no task waits for the mutex.
SendNow ==
    LET mutex == IsMutex(Q)
        holder == queue[Q].holder
        k1 == IF mutex THEN xTaskPriorityDisinherit(k, holder) ELSE k
    IN  /\ Sends
        /\ queue' = [queue EXCEPT ![Q].holder = NULL,
                                  ![Q].count = IF Full(Q) THEN @ ELSE @ + 1]
        /\ k' = IF k1.event[xTasksWaitingToReceive(Q)] # <<>>
                THEN UnblockAndYield(k1, xTasksWaitingToReceive(Q))
                ELSE IF mutex /\ DisinheritOccurs(k, holder)
                THEN vTaskSwitchContext(k1)
                ELSE k1

\* Taking a mutex makes the caller its holder.
ReceiveNow ==
    /\ This.kind \in {"receive", "take"}
    /\ queue' = [queue EXCEPT ![Q].count = @ - 1,
                              ![Q].holder = IF IsMutex(Q) THEN Me ELSE @]
    /\ k' = UnblockAndYield(IF IsMutex(Q) THEN [k EXCEPT !.held[Me] = @ + 1] ELSE k,
                            xTasksWaitingToSend(Q))

\* The item stays: another task that waits for one is told.
PeekNow ==
    /\ This.kind = "peek"
    /\ k' = UnblockAndYield(k, xTasksWaitingToReceive(Q))
    /\ UNCHANGED queue

\* The critical section at the head of the loop.
TryNow ==
    /\ Running("try")
    /\ Succeeds
    /\ SendNow \/ ReceiveNow \/ PeekNow
    /\ Return
    /\ UNCHANGED <<value, previous, allocated, app>>

TryLater ==
    /\ Running("try")
    /\ ~Succeeds
    /\ \/ /\ This.ticks = 0
          /\ todo' = [todo EXCEPT ![Me] = <<>>]
          /\ call' = [call EXCEPT ![Me] = NoCall]
       \/ /\ This.ticks > 0
          /\ call' = IF This.entrySet THEN call
                     ELSE [call EXCEPT ![Me].entrySet = TRUE,
                                       ![Me].entered = k.tick,
                                       ![Me].overflow = k.overflows]
          /\ Continue(<<Do("suspend")>> \o Rest)
    /\ UNCHANGED <<k, value, previous, allocated, app, queue>>

\* vTaskSuspendAll
Suspend ==
    /\ Running("suspend")
    /\ k' = [k EXCEPT !.susp = @ + 1]
    /\ Continue(<<Do("lock")>> \o Rest)
    /\ UNCHANGED <<value, previous, allocated, app, queue, call>>

\* prvLockQueue
Lock ==
    /\ Running("lock")
    /\ queue' = [queue EXCEPT
           ![Q].rx = IF @ = queueUNLOCKED THEN 0 ELSE @,
           ![Q].tx = IF @ = queueUNLOCKED THEN 0 ELSE @]
    /\ Continue(<<Do("timeOut")>> \o Rest)
    /\ UNCHANGED <<k, value, previous, allocated, app, call>>

\* Mutant of UnlockAnd: the scheduler is resumed first.
ResumeAndUnlock(s) == <<Do("resumeAll"), Do("unlockTx"), Do("unlockRx")>> \o s \o Rest

\* The rest of a turn of the loop: the queue is unlocked, the scheduler
\* resumed, and s follows.
UnlockAnd(s) == <<Do("unlockTx"), Do("unlockRx"), Do("resumeAll")>> \o s \o Rest

\* xTaskCheckForTimeOut
TimedOut(c) ==
    c.ticks # MaxDelay /\ IsTimeOut(c.entered, c.overflow, c.ticks, k.tick, k.overflows)

CheckForTimeOut ==
    /\ Running("timeOut")
    /\ \/ /\ TimedOut(This)
          /\ call' = [call EXCEPT ![Me].ticks = 0]
          /\ Continue(UnlockAnd(<<Do("timedOut")>>))
       \/ /\ ~TimedOut(This)
          /\ call' = IF This.ticks = MaxDelay THEN call
                     ELSE [call EXCEPT ![Me].ticks = @ - Elapsed(This.entered, k.tick),
                                       ![Me].entered = k.tick,
                                       ![Me].overflow = k.overflows]
          /\ Continue(<<Do("test")>> \o Rest)
    /\ UNCHANGED <<k, value, previous, allocated, app, queue>>

\* prvIsQueueFull, prvIsQueueEmpty
Test ==
    /\ Running("test")
    /\ IF Sends THEN Full(Q) ELSE IsEmpty(Q)
    /\ Continue(<<IF This.kind = "take" /\ IsMutex(Q) THEN Do("inherit") ELSE Do("place")>>
                    \o Rest)
    /\ UNCHANGED <<k, value, previous, allocated, app, queue, call>>

TestAgain ==
    /\ Running("test")
    /\ ~IF Sends THEN Full(Q) ELSE IsEmpty(Q)
    /\ Continue(UnlockAnd(<<Do("try")>>))
    /\ UNCHANGED <<k, value, previous, allocated, app, queue, call>>

Inherit ==
    /\ Running("inherit")
    /\ LET holder == queue[Q].holder
       IN  IF holder = NULL
           THEN k' = k /\ call' = [call EXCEPT ![Me].inherited = FALSE]
           ELSE /\ k' = xTaskPriorityInherit(k, holder)
                /\ call' = [call EXCEPT ![Me].inherited = InheritanceOccurred(k, holder)]
    /\ Continue(<<Do("place")>> \o Rest)
    /\ UNCHANGED <<value, previous, allocated, app, queue>>

Place ==
    /\ Running("place")
    /\ k' = vTaskPlaceOnEventList(
                k, IF Sends THEN xTasksWaitingToSend(Q) ELSE xTasksWaitingToReceive(Q),
                This.ticks)
    /\ Continue(UnlockAnd(<<Do("yield"), Do("try")>>))
    /\ UNCHANGED <<value, previous, allocated, app, queue, call>>

\* prvUnlockQueue, in two critical sections.
UnlockTx ==
    /\ Running("unlockTx")
    /\ k' = IF queue[Q].tx > 0 THEN UnblockUpTo(xTasksWaitingToReceive(Q), queue[Q].tx) ELSE k
    /\ queue' = [queue EXCEPT ![Q].tx = queueUNLOCKED]
    /\ Done
    /\ UNCHANGED <<value, previous, allocated, app, call>>

UnlockRx ==
    /\ Running("unlockRx")
    /\ k' = IF queue[Q].rx > 0 THEN UnblockUpTo(xTasksWaitingToSend(Q), queue[Q].rx) ELSE k
    /\ queue' = [queue EXCEPT ![Q].rx = queueUNLOCKED]
    /\ Done
    /\ UNCHANGED <<value, previous, allocated, app, call>>

\* The time is up.  A sender returns; a receiver looks once more.
AfterTimeOut ==
    /\ Running("timedOut")
    /\ \/ /\ Sends \/ (IsEmpty(Q) /\ ~This.inherited)
          /\ todo' = [todo EXCEPT ![Me] = <<>>]
          /\ call' = [call EXCEPT ![Me] = NoCall]
       \/ /\ ~Sends
          /\ IsEmpty(Q)
          /\ This.inherited
          /\ Continue(<<Do("disinherit")>> \o Rest)
          /\ UNCHANGED call
       \/ /\ ~Sends
          /\ ~IsEmpty(Q)
          /\ Continue(<<Do("try")>> \o Rest)
          /\ UNCHANGED call
    /\ UNCHANGED <<k, value, previous, allocated, app, queue>>

\* prvGetDisinheritPriorityAfterTimeout: what the head of the event list says.
HighestWaitingPriority(q) ==
    LET waiting == k.event[xTasksWaitingToReceive(q)]
    IN  IF waiting = <<>> THEN 0 ELSE MaxPriority + 1 - k.order[Head(waiting)]

\* Mutant of DisinheritAfterTimeout: the holder keeps the priority.
KeepAfterTimeout ==
    /\ Running("disinherit")
    /\ todo' = [todo EXCEPT ![Me] = <<>>]
    /\ call' = [call EXCEPT ![Me] = NoCall]
    /\ UNCHANGED <<k, value, previous, allocated, app, queue>>

DisinheritAfterTimeout ==
    /\ Running("disinherit")
    /\ LET holder == queue[Q].holder
       IN  k' = IF holder = NULL THEN k
                ELSE vTaskPriorityDisinheritAfterTimeout(k, holder, HighestWaitingPriority(Q))
    /\ todo' = [todo EXCEPT ![Me] = <<>>]
    /\ call' = [call EXCEPT ![Me] = NoCall]
    /\ UNCHANGED <<value, previous, allocated, app, queue>>

\* xQueueTakeMutexRecursive, once it has the mutex.
CountRecursion ==
    /\ Running("count")
    /\ \E q \in Queue :
          /\ Kind[q] = "recursive"
          /\ queue[q].holder = Me
          /\ queue[q].calls = 0
          /\ queue' = [queue EXCEPT ![q].calls = 1]
    /\ Done
    /\ UNCHANGED <<k, value, previous, allocated, app, call>>

-----------------------------------------------------------------------------
(* API calls.  A semaphore is given without waiting, a mutex by its holder *)
(* only (the assertion of xTaskPriorityDisinherit) and never taken twice.  *)

Begin(f, kind, q, n, rest) ==
    /\ CallsRunning(f)
    /\ Continue(<<Do("try")>> \o rest)
    /\ call' = [call EXCEPT ![Me] = [NoCall EXCEPT !.kind = kind, !.queue = q, !.ticks = n]]
    /\ UNCHANGED <<k, value, previous, allocated, app>>

\* semGIVE_BLOCK_TIME is 0.
SendTicks(q) == IF Kind[q] = "queue" THEN App.ticks[Me] ELSE {0}

\* xQueueSend, xSemaphoreGive and xQueueOverwrite are this.
xQueueGenericSend(q, n, overwrite) ==
    /\ Kind[q] # "recursive"
    /\ IsMutex(q) => queue[q].holder = Me
    /\ overwrite => Kind[q] = "queue" /\ Length[q] = 1
    /\ Begin(IF overwrite THEN "xQueueOverwrite" ELSE "xQueueSend",
             IF overwrite THEN "overwrite" ELSE "send", q, n, <<>>)
    /\ UNCHANGED queue

xQueueReceive(q, n) ==
    /\ Kind[q] = "queue"
    /\ Begin("xQueueReceive", "receive", q, n, <<>>)
    /\ UNCHANGED queue

xQueuePeek(q, n) ==
    /\ Kind[q] = "queue"
    /\ Begin("xQueuePeek", "peek", q, n, <<>>)
    /\ UNCHANGED queue

xQueueSemaphoreTake(q, n) ==
    /\ Kind[q] \in {"semaphore", "mutex"}
    /\ queue[q].holder # Me
    /\ Begin("xQueueSemaphoreTake", "take", q, n, <<>>)
    /\ UNCHANGED queue

xQueueTakeMutexRecursive(q, n) ==
    /\ Kind[q] = "recursive"
    /\ \/ /\ queue[q].holder = Me
          /\ CallsRunning("xQueueTakeMutexRecursive")
          /\ queue[q].calls < MaxRecursion
          /\ queue' = [queue EXCEPT ![q].calls = @ + 1]
          /\ UNCHANGED <<k, todo, value, previous, allocated, app, call>>
       \/ /\ queue[q].holder # Me
          /\ Begin("xQueueTakeMutexRecursive", "take", q, n, <<Do("count")>>)
          /\ UNCHANGED queue

xQueueGiveMutexRecursive(q) ==
    /\ Kind[q] = "recursive"
    /\ queue[q].holder = Me
    /\ queue' = [queue EXCEPT ![q].calls = @ - 1]
    /\ \/ /\ queue[q].calls = 1
          /\ Begin("xQueueTakeMutexRecursive", "send", q, 0, <<>>)
       \/ /\ queue[q].calls > 1
          /\ CallsRunning("xQueueTakeMutexRecursive")
          /\ UNCHANGED <<k, todo, value, previous, allocated, app, call>>

\* xQueueReset: all the room is free, but one waiting sender is told.
xQueueGenericReset(q) ==
    /\ CallsRunning("xQueueReset")
    /\ Kind[q] = "queue"
    /\ queue' = [queue EXCEPT ![q].count = 0, ![q].rx = queueUNLOCKED, ![q].tx = queueUNLOCKED]
    /\ k' = UnblockAndYield(k, xTasksWaitingToSend(q))
    /\ UNCHANGED <<todo, value, previous, allocated, app, call>>

-----------------------------------------------------------------------------
(* Interrupts of the application.                                          *)

\* Mutant of Counted: a locked queue remembers one item only.
CountedOnce(lock) == 1

\* prvIncrementQueueTxLock, prvIncrementQueueRxLock: capped at the number of
\* tasks.
Counted(lock) == IF lock < Cardinality(k.live) THEN lock + 1 ELSE lock

AddedFromISR(q) ==
    /\ k' = IF queue[q].tx = queueUNLOCKED THEN Unblock(k, xTasksWaitingToReceive(q)) ELSE k
    /\ queue' = [queue EXCEPT
           ![q].count = IF Full(q) THEN @ ELSE @ + 1,
           ![q].tx = IF @ = queueUNLOCKED THEN @ ELSE Counted(@)]
    /\ UNCHANGED <<todo, value, previous, allocated, app, call>>

xQueueGenericSendFromISR(q, overwrite) ==
    /\ Interrupts("xQueueSendFromISR")
    /\ Kind[q] = "queue"
    /\ IF overwrite THEN Length[q] = 1 ELSE ~Full(q)
    /\ AddedFromISR(q)

xQueueGiveFromISR(q) ==
    /\ Interrupts("xQueueGiveFromISR")
    /\ Kind[q] = "semaphore"
    /\ ~Full(q)
    /\ AddedFromISR(q)

xQueueReceiveFromISR(q) ==
    /\ Interrupts("xQueueReceiveFromISR")
    /\ Kind[q] \in {"queue", "semaphore"}
    /\ ~IsEmpty(q)
    /\ k' = IF queue[q].rx = queueUNLOCKED THEN Unblock(k, xTasksWaitingToSend(q)) ELSE k
    /\ queue' = [queue EXCEPT
           ![q].count = @ - 1,
           ![q].rx = IF @ = queueUNLOCKED THEN @ ELSE Counted(@)]
    /\ UNCHANGED <<todo, value, previous, allocated, app, call>>

-----------------------------------------------------------------------------

QueueContinuation ==
    \/ TryNow \/ TryLater \/ Suspend \/ Lock \/ CheckForTimeOut \/ Test \/ TestAgain
    \/ Inherit \/ Place \/ UnlockTx \/ UnlockRx \/ AfterTimeOut
    \/ DisinheritAfterTimeout \/ CountRecursion

QueueCall ==
    \E q \in App.queues :
        \/ xQueueGiveMutexRecursive(q)
        \/ xQueueGenericReset(q)
        \/ \E n \in SendTicks(q), overwrite \in BOOLEAN : xQueueGenericSend(q, n, overwrite)
        \/ \E n \in App.ticks[Me] :
              \/ xQueueReceive(q, n) \/ xQueuePeek(q, n)
              \/ xQueueSemaphoreTake(q, n) \/ xQueueTakeMutexRecursive(q, n)

QueueInterrupt ==
    \E q \in App.queues :
        \/ \E overwrite \in BOOLEAN : xQueueGenericSendFromISR(q, overwrite)
        \/ xQueueGiveFromISR(q)
        \/ xQueueReceiveFromISR(q)

QueuesNext ==
    \/ Next /\ UNCHANGED queueVars
    \/ QueueContinuation
    \/ QueueCall
    \/ QueueInterrupt

QueuesSpec == QueuesInit /\ [][QueuesNext]_allVars

\* As for the tasks: the kernel's loops end, ticks come, and a task that runs
\* again and again gets through its call.
QueuesFairness ==
    /\ WF_allVars((TickLoop \/ ResumeAllLoop) /\ UNCHANGED queueVars)
    /\ SF_allVars(TickInterrupt /\ UNCHANGED queueVars)
    /\ \A t \in Task :
          SF_allVars(Me = t /\ (QueueContinuation \/ (Continuation /\ UNCHANGED queueVars)))

QueuesFairSpec == QueuesSpec /\ QueuesFairness

-----------------------------------------------------------------------------
(* Properties.                                                             *)

\* The event lists of a queue are touched with interrupts on only while the
\* queue is locked, and it is locked only while the scheduler is suspended: no
\* queue stays locked behind a task that was switched out, whatever path its
\* call took.
LockedOnlyWhileSuspended ==
    \A q \in Queue :
        queue[q].tx # queueUNLOCKED \/ queue[q].rx # queueUNLOCKED
            => /\ k.susp > 0
               /\ todo[Me] # <<>>
               /\ call[Me].queue = q

\* t is in a call that waits for queue q, but is in no event list: it will
\* look at the queue again.
Retries(t, q, kinds) ==
    /\ todo[t] # <<>>
    /\ call[t].queue = q
    /\ call[t].kind \in kinds
    /\ ~(\E e \in QueueLists : Occurs(k.event[e], t))
    /\ \E i \in DOMAIN todo[t] : todo[t][i].op \in {"try", "timeOut", "test"}

\* No wake-up is lost: while the queue holds an item, or has room, tasks wait
\* for it only if it is locked (prvUnlockQueue will see to them) or another
\* task is on its way to take the item or the room.
NoLostWakeup ==
    \A q \in Queue :
        /\ /\ queue[q].count > 0
           /\ queue[q].tx = queueUNLOCKED
           /\ k.event[xTasksWaitingToReceive(q)] # <<>>
           => \E t \in k.live : Retries(t, q, {"receive", "peek", "take"})
        /\ /\ ~Full(q)
           /\ queue[q].rx = queueUNLOCKED
           /\ k.event[xTasksWaitingToSend(q)] # <<>>
           => \E t \in k.live : Retries(t, q, {"send"})

\* A mutex is either free or held by one task, which has counted it among the
\* mutexes it holds; the recursive count is 0 exactly when the mutex is free
\* or about to change hands.
MutexesHeld(t) == {q \in Queue : IsMutex(q) /\ queue[q].holder = t}

MutexHolderKnown ==
    /\ \A q \in Queue : IsMutex(q) => (queue[q].count = 0 <=> queue[q].holder # NULL)
    /\ \A t \in k.live : k.held[t] = Cardinality(MutexesHeld(t))
    /\ \A q \in Queue :
           Kind[q] = "recursive" /\ queue[q].calls = 0 /\ queue[q].holder # NULL
               => todo[queue[q].holder] # <<>>

\* While a task is blocked on a mutex, its holder runs at that priority at
\* least.
HolderInherits ==
    \A q \in Queue : IsMutex(q) =>
        \A i \in DOMAIN k.event[xTasksWaitingToReceive(q)] :
            LET t == k.event[xTasksWaitingToReceive(q)][i]
            IN  queue[q].holder # NULL => k.prio[queue[q].holder] >= k.prio[t]

\* A task goes back to its own priority: one that holds no mutex has it, and
\* one that holds a single mutex runs above it only while a task of that
\* priority still waits for the mutex or is about to return from the wait.
InheritanceEnds ==
    \A t \in k.live :
        /\ k.held[t] = 0 => k.prio[t] = k.base[t]
        /\ \A q \in Queue :
               MutexesHeld(t) = {q} /\ k.prio[t] # k.base[t]
                   => \E u \in k.live :
                          /\ k.prio[u] >= k.prio[t]
                          /\ todo[u] # <<>> /\ call[u].queue = q /\ call[u].inherited

\* The holder of a mutex is known, and its priority is no lower and no higher
\* than the tasks that wait for the mutex make it.
MutexesAreSound == MutexHolderKnown /\ HolderInherits /\ InheritanceEnds

\* A task is never in an event list of a queue unless it is in a call that
\* waits for that queue, on the right side of it, and blocked: in a delayed
\* list, suspended or in xPendingReadyList after a time-out is settled.
WaitersAreBlocked ==
    \A q \in Queue : \A e \in {xTasksWaitingToSend(q), xTasksWaitingToReceive(q)} :
        \A i \in DOMAIN k.event[e] :
            LET t == k.event[e][i]
            IN  /\ todo[t] # <<>>
                /\ call[t].queue = q
                /\ call[t].kind \in (IF e = xTasksWaitingToSend(q) THEN {"send"}
                                     ELSE {"receive", "peek", "take"})
                /\ ~IsIn(k, t, Ready(k.prio[t]))

\* The lists of the queues are sound between any two steps.
QueuesAreSound == QueuesTypeOK /\ LockedOnlyWhileSuspended /\ WaitersAreBlocked

\* What xTaskRemoveFromEventList says of the list it is given (tasks.c, the
\* comment at its head): the first task in it is known to be the highest
\* priority.
FirstWaiterIsHighest ==
    \A e \in QueueLists : \A i \in DOMAIN k.event[e] :
        k.prio[Head(k.event[e])] >= k.prio[k.event[e][i]]

\* What xTaskPriorityDisinherit says (tasks.c, the comment at its end): a
\* context switch occurs when the last mutex is returned, whether a task is
\* waiting on it or not.  So the task that gave it goes on only if no ready
\* task has a higher priority.
LastMutexGiveSwitches ==
    [][TryNow /\ Sends /\ IsMutex(Q) /\ DisinheritOccurs(k, Me)
           => \A p \in Priority : p > k'.prio[k'.current] => Empty(k', Ready(p))]_allVars

\* The task of the highest priority is served: if the queue is found to hold an
\* item again and again, a receiver that no other task outranks gets one.
Outranks(t) == \A u \in Task \ {t} : k.prio[u] < k.prio[t]

Receiving(t, q) ==
    todo[t] # <<>> /\ call[t].queue = q /\ call[t].kind \in {"receive", "peek", "take"}

FirstReceiverIsServed ==
    \A q \in Queue : []<>~IsEmpty(q) =>
        \A t \in Task : []<>~(Outranks(t) /\ Receiving(t, q))

=============================================================================
