------------------------------- MODULE Kernel -------------------------------
(***************************************************************************)
(* The scheduler core of freertos/source/tasks.c, single core, with        *)
(* configUSE_PREEMPTION and configUSE_TIME_SLICING, as built for the Z180. *)
(*                                                                         *)
(* The file-scope variables of tasks.c and the fields of the task control  *)
(* blocks are one record k, and every internal function of tasks.c is an   *)
(* operator from k to k.  The modules that have actions (Tasks, and those  *)
(* that add queues and timers) are built from these operators, so that one *)
(* critical section of the code, which may call several of them, is one    *)
(* step.  A loop of the code is not an operator: it is a step repeated by  *)
(* the module that owns k, under k.cpu.                                    *)
(*                                                                         *)
(* The fields of k:                                                        *)
(*   list, index   the lists of xStateListItem and their pxIndex           *)
(*   event         the lists of xEventListItem (pxIndex never moves there) *)
(*   wake, order   the values of xStateListItem and xEventListItem         *)
(*   prio, base    uxPriority and uxBasePriority                           *)
(*   held          uxMutexesHeld                                           *)
(*   notify        ucNotifyState[ 0 ]                                      *)
(*   live          the tasks whose TCB is allocated                        *)
(*   current       pxCurrentTCB                                            *)
(*   tick, next    xTickCount and xNextTaskUnblockTime                     *)
(*   overflows     xNumOfOverflows                                         *)
(*   top           uxTopReadyPriority                                      *)
(*   susp, pended  uxSchedulerSuspended and xPendedTicks                   *)
(*   yield         xYieldPendings[ 0 ]                                     *)
(*   cpu           which loop the processor is in with interrupts off, or  *)
(*                 "task" when the current task runs with them on          *)
(***************************************************************************)
EXTENDS Lists, TickCount

CONSTANTS
    Task,           \* the task control blocks
    MaxPriority,    \* configMAX_PRIORITIES - 1
    WaitLists       \* the event lists of the kernel objects above the scheduler

PendingReady == <<"xPendingReadyList", 0>>

ASSUME KernelAssumption ==
    /\ Task # {}
    /\ MaxPriority \in Nat
    /\ PendingReady \notin WaitLists

Priority == 0 .. MaxPriority

Ready(p) == <<"pxReadyTasksLists", p>>
Delayed == <<"pxDelayedTaskList", 0>>
OverflowDelayed == <<"pxOverflowDelayedTaskList", 0>>
Suspended == <<"xSuspendedTaskList", 0>>
Terminated == <<"xTasksWaitingTermination", 0>>

ReadyLists == {Ready(p) : p \in Priority}
StateLists == ReadyLists \cup {Delayed, OverflowDelayed, Suspended, Terminated}
EventLists == WaitLists \cup {PendingReady}

NotifyStates == {"notWaiting", "waiting", "received"}
CpuModes == {"task", "tick", "drain", "drainMore", "replay", "replayTick"}

KernelState ==
    [list: [StateLists -> Seq(Task)], index: [StateLists -> Nat],
     event: [EventLists -> Seq(Task)],
     wake: [Task -> Tick], order: [Task -> Nat],
     prio: [Task -> Priority], base: [Task -> Priority], held: [Task -> Nat],
     notify: [Task -> NotifyStates],
     live: SUBSET Task, current: Task,
     tick: Tick, next: Tick, overflows: 0 .. OverflowCount - 1,
     top: Priority, susp: Nat, pended: Nat, yield: BOOLEAN,
     cpu: CpuModes]

-----------------------------------------------------------------------------
(* The lists a task is in. *)

Empty(k, l) == k.list[l] = <<>>

IsIn(k, t, l) == Occurs(k.list[l], t)

\* pxContainer of xStateListItem.
Container(k, t) == CHOOSE l \in StateLists : IsIn(k, t, l)

\* pxContainer of xEventListItem is not NULL.
Waits(k, t) == \E e \in EventLists : Occurs(k.event[e], t)

EventContainer(k, t) == CHOOSE e \in EventLists : Occurs(k.event[e], t)

\* uxListRemove( &( pxTCB->xStateListItem ) ).  The value of the item is not
\* read until it is set again, and is forgotten here.
RemoveState(k, t) ==
    LET l == Container(k, t)
    IN  [k EXCEPT !.list[l] = uxListRemove(@, t),
                  !.index[l] = IndexAfterRemove(k.list[l], @, t),
                  !.wake[t] = 0]

\* vListInsertEnd / listINSERT_END of an xStateListItem
AppendState(k, l, t) ==
    [k EXCEPT !.list[l] = vListInsertEnd(@, k.index[l], t),
              !.index[l] = IndexAfterInsertEnd(@)]

\* The event list item leaves the list it is in, if any.
RemoveEvent(k, t) ==
    IF Waits(k, t)
    THEN [k EXCEPT !.event[EventContainer(k, t)] = uxListRemove(@, t)]
    ELSE k

\* An interrupt that finds the scheduler suspended parks the task here.
AppendPending(k, t) == [k EXCEPT !.event[PendingReady] = Append(@, t)]

-----------------------------------------------------------------------------
(* The internal functions. *)

\* prvAddTaskToReadyList, with taskRECORD_READY_PRIORITY
AddToReady(k, t) ==
    [AppendState(k, Ready(k.prio[t]), t) EXCEPT
        !.top = IF k.prio[t] > @ THEN k.prio[t] ELSE @]

\* xTaskIncrementTick and prvResetNextTaskUnblockTime read the head of the list.
HeadWake(k) == k.wake[Head(k.list[Delayed])]

\* Mutant of prvResetNextTaskUnblockTime: the delayed list is taken for empty.
ResetToMaxDelay(k) == [k EXCEPT !.next = MaxDelay]

prvResetNextTaskUnblockTime(k) ==
    [k EXCEPT !.next = IF Empty(k, Delayed) THEN MaxDelay ELSE HeadWake(k)]

\* Mutant of SwitchDelayedLists: the lists are not exchanged.
SwitchNothing(k) == prvResetNextTaskUnblockTime([k EXCEPT !.overflows = (@ + 1) % OverflowCount])

\* taskSWITCH_DELAYED_LISTS
SwitchDelayedLists(k) ==
    prvResetNextTaskUnblockTime(
        [k EXCEPT !.list[Delayed] = k.list[OverflowDelayed],
                  !.list[OverflowDelayed] = k.list[Delayed],
                  !.overflows = (@ + 1) % OverflowCount])

\* prvAddCurrentTaskToDelayedList( xTicksToWait, xCanBlockIndefinitely )
prvAddCurrentTaskToDelayedList(k, ticks, indefinitely) ==
    LET t == k.current
        k1 == RemoveState(k, t)
        w == Later(k.tick, ticks)
        k2 == [k1 EXCEPT !.wake[t] = w]
    IN  IF ticks = MaxDelay /\ indefinitely
        THEN AppendState(k1, Suspended, t)
        ELSE IF w < k.tick
        THEN [k2 EXCEPT !.list[OverflowDelayed] = vListInsert(@, k2.wake, t)]
        ELSE [k2 EXCEPT !.list[Delayed] = vListInsert(@, k2.wake, t),
                        !.next = IF w < @ THEN w ELSE @]

\* taskSELECT_HIGHEST_PRIORITY_TASK: the search starts at uxTopReadyPriority
\* and goes down to the first ready list that is not empty.
HighestReady(k) ==
    CHOOSE p \in 0 .. k.top :
        /\ ~Empty(k, Ready(p))
        /\ \A q \in p + 1 .. k.top : Empty(k, Ready(q))

vTaskSwitchContext(k) ==
    IF k.susp # 0
    THEN [k EXCEPT !.yield = TRUE]
    ELSE LET l == Ready(HighestReady(k))
             i == NextIndex(k.list[l], k.index[l])
         IN  [k EXCEPT !.yield = FALSE,
                       !.top = HighestReady(k),
                       !.index[l] = i,
                       !.current = k.list[l][i]]

\* Mutant of YieldIfHigher and PendYieldIfHigher: no yield.
NoYield(k, t) == k

\* taskYIELD_ANY_CORE_IF_USING_PREEMPTION( pxTCB ), from a task: at once.
YieldIfHigher(k, t) ==
    IF k.prio[t] > k.prio[k.current] THEN vTaskSwitchContext(k) ELSE k

\* What an interrupt leaves behind when it readied a task of higher priority.
PendYieldIfHigher(k, t) ==
    [k EXCEPT !.yield = @ \/ k.prio[t] > k.prio[k.current]]

-----------------------------------------------------------------------------
(* xTaskIncrementTick: its head, one turn of its loop, and its tail.  The  *)
(* flag xSwitchRequired is kept in k.yield when pended ticks are replayed; *)
(* timer_isr drops it and switches context on every tick.                  *)

IncrementTick(k) ==
    LET now == Later(k.tick, 1)
        k1 == [k EXCEPT !.tick = now]
    IN  IF now = 0 THEN SwitchDelayedLists(k1) ELSE k1

TickIsOver(k) ==
    \/ k.tick < k.next
    \/ Empty(k, Delayed)
    \/ ~Empty(k, Delayed) /\ k.tick < HeadWake(k)

\* The unblock time as the loop leaves it.
AfterTickLoop(k) ==
    IF k.tick < k.next THEN k ELSE prvResetNextTaskUnblockTime(k)

UnblockHead(k) ==
    LET t == Head(k.list[Delayed])
    IN  AddToReady(RemoveEvent(RemoveState(k, t), t), t)

\* configUSE_TIME_SLICING: another task of the running task's priority waits.
SliceOver(k) == Len(k.list[Ready(k.prio[k.current])]) > 1

-----------------------------------------------------------------------------
(* Event lists: what a queue, an event group or a timer blocks a task on.  *)

\* The value of an event list item that sorts a task of priority p.
EventValue(p) == MaxPriority + 1 - p

\* taskEVENT_LIST_ITEM_VALUE_IN_USE: an event group has its bits in the
\* value.  Any value that is not one of a priority stands for them.
ValueInUse(k, t) == k.order[t] > MaxPriority + 1

vTaskPlaceOnEventList(k, e, ticks) ==
    prvAddCurrentTaskToDelayedList(
        [k EXCEPT !.event[e] = vListInsert(@, k.order, k.current)], ticks, TRUE)

\* A task leaves the state list it is in for the ready list of its priority.
MakeReady(k, t) == AddToReady(RemoveState(k, t), t)

\* Readied at once, or parked until xTaskResumeAll.
MakeReadyOrPend(k, t) ==
    IF k.susp = 0 THEN MakeReady(k, t) ELSE AppendPending(k, t)

xTaskRemoveFromEventList(k, e) ==
    LET t == Head(k.event[e])
    IN  PendYieldIfHigher(
            MakeReadyOrPend([k EXCEPT !.event[e] = Tail(@)], t), t)

\* Event groups and the timer daemon put a task at the end of their list.  An
\* event group writes its bits to the item: the value is in use.
InUse == MaxPriority + 2

vTaskPlaceOnUnorderedEventList(k, e, ticks) ==
    prvAddCurrentTaskToDelayedList(
        [k EXCEPT !.order[k.current] = InUse, !.event[e] = Append(@, k.current)],
        ticks, TRUE)

\* uxTaskResetEventItemValue, by the running task.
uxTaskResetEventItemValue(k) ==
    [k EXCEPT !.order[k.current] = EventValue(k.prio[k.current])]

-----------------------------------------------------------------------------
(* Priorities.  A task changes ready list with its priority only if it is  *)
(* in one; the position it holds in an event list is not revised.          *)

\* The task takes priority p; the value of its event list item follows v
\* unless it is in use.
ChangePriority(k, t, p, v) ==
    LET k1 == [k EXCEPT !.prio[t] = p,
                        !.order[t] = IF ValueInUse(k, t) THEN @ ELSE v]
    IN  IF IsIn(k, t, Ready(k.prio[t])) THEN MakeReady(k1, t) ELSE k1

\* xTaskPriorityInherit, and the value it returns.
xTaskPriorityInherit(k, holder) ==
    LET p == k.prio[k.current]
    IN  IF k.prio[holder] < p
        THEN ChangePriority(k, holder, p, EventValue(p))
        ELSE k

InheritanceOccurred(k, holder) == k.base[holder] < k.prio[k.current]

\* xTaskPriorityDisinherit by the running task, and the value it returns.
DisinheritOccurs(k, t) == k.prio[t] # k.base[t] /\ k.held[t] = 1

xTaskPriorityDisinherit(k, t) ==
    LET k1 == [k EXCEPT !.held[t] = @ - 1]
    IN  IF DisinheritOccurs(k, t)
        THEN AddToReady([RemoveState(k1, t) EXCEPT
                            !.prio[t] = k.base[t],
                            !.order[t] = EventValue(k.base[t])], t)
        ELSE k1

\* A task that waited for the mutex gave up; waiting is the priority of the
\* highest task that still waits.
vTaskPriorityDisinheritAfterTimeout(k, holder, waiting) ==
    LET p == IF k.base[holder] < waiting THEN waiting ELSE k.base[holder]
    IN  IF k.prio[holder] # p /\ k.held[holder] = 1
        THEN ChangePriority(k, holder, p, EventValue(p))
        ELSE k

-----------------------------------------------------------------------------
(* What every module that owns a kernel record keeps true of it.           *)

EachInOneList(k) ==
    /\ \A l \in StateLists : \A i \in DOMAIN k.list[l] : k.list[l][i] \in k.live
    /\ \A t \in k.live : \E l \in StateLists : IsIn(k, t, l)
    /\ \A l, m \in StateLists :
           \A i \in DOMAIN k.list[l], j \in DOMAIN k.list[m] :
               k.list[l][i] = k.list[m][j] => l = m /\ i = j

IndexInList(k) == \A l \in StateLists : k.index[l] <= Len(k.list[l])

ReadyByPriority(k) ==
    \A p \in Priority : \A i \in DOMAIN k.list[Ready(p)] :
        k.prio[k.list[Ready(p)][i]] = p

TopCoversReady(k) == \A p \in Priority : ~Empty(k, Ready(p)) => p <= k.top

DelayedInOrder(k) ==
    \A l \in {Delayed, OverflowDelayed} : \A i, j \in DOMAIN k.list[l] :
        i < j => k.wake[k.list[l][i]] <= k.wake[k.list[l][j]]

UnblockTimeSound(k) ==
    \A i \in DOMAIN k.list[Delayed] : k.next <= k.wake[k.list[Delayed][i]]

SleepersInFuture(k) ==
    /\ \A i \in DOMAIN k.list[Delayed] :
           IF k.cpu \in {"tick", "replayTick"}
           THEN k.wake[k.list[Delayed][i]] >= k.tick
           ELSE k.wake[k.list[Delayed][i]] > k.tick
    /\ \A i \in DOMAIN k.list[OverflowDelayed] :
           k.wake[k.list[OverflowDelayed][i]] < k.tick

=============================================================================
