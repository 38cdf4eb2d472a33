------------------------------- MODULE Tasks -------------------------------
(***************************************************************************)
(* The task API of freertos/source/tasks.c under the tick interrupt of the *)
(* Z180 port: the tasks of an application call the API in any order, and   *)
(* interrupts arrive whenever they are enabled.                            *)
(*                                                                         *)
(* A step is a stretch of code no interrupt can split: a critical section, *)
(* or the code between two of them that only touches what the running task *)
(* owns.  With the scheduler suspended interrupts still run, but they only *)
(* touch xPendingReadyList, xPendedTicks, xYieldPendings and notification  *)
(* states, so code that touches none of these is one step as well.  The    *)
(* rest of the API call a task is in is todo[ task ], a sequence of work   *)
(* items; another task may run between any two of them.                    *)
(***************************************************************************)
EXTENDS Kernel

CONSTANTS
    Idle,           \* the idle task
    Applications,   \* [names -> Application], the programs that may run
    MaxNotified,    \* the largest ulNotifiedValue, a uint32_t
    BitOr(_, _),    \* the operator | of C on two of them
    OtherOps,       \* the work items of the modules that extend this one
    MaxNesting      \* bound: how deep an application nests vTaskSuspendAll

eNotifyAction == {"eNoAction", "eSetBits", "eIncrement",
                  "eSetValueWithOverwrite", "eSetValueWithoutOverwrite"}

NotifyValues == 0 .. MaxNotified

\* What an application is: for each task the API functions it calls and the
\* tick counts it passes as times to wait, the functions its interrupts call,
\* the flags to clear a notified value, the notification actions, the ready lists when
\* the scheduler starts, and a bound: the ticks that arrive while the
\* scheduler is suspended.
IsApplication(a) ==
    /\ a.api \in [Task -> SUBSET STRING]
    /\ a.api[Idle] = {}
    /\ a.isr \subseteq STRING
    /\ a.ticks \in [Task -> SUBSET Tick]
    /\ a.clears \subseteq BOOLEAN
    /\ a.actions \subseteq eNotifyAction
    /\ a.ready \in [Priority -> Seq(Task)]
    /\ \A p, q \in Priority : \A i \in DOMAIN a.ready[p], j \in DOMAIN a.ready[q] :
           a.ready[p][i] = a.ready[q][j] => p = q /\ i = j
    /\ Occurs(a.ready[0], Idle)
    /\ a.maxPended \in Nat

ASSUME TasksAssumption ==
    /\ Idle \in Task
    /\ \A name \in DOMAIN Applications : IsApplication(Applications[name])
    /\ MaxNotified \in Nat \ {0}
    /\ \A v, w \in NotifyValues : BitOr(v, w) \in NotifyValues
    /\ MaxNesting \in Nat

VARIABLES
    k,          \* the kernel's state
    todo,       \* [Task -> the rest of the API call the task is in]
    value,      \* [Task -> ulNotifiedValue[ 0 ]]
    previous,   \* [Task -> the task's pxPreviousWakeTime for xTaskDelayUntil]
    allocated,  \* the task control blocks the heap has handed out
    app         \* the application that runs

vars == <<k, todo, value, previous, allocated, app>>

App == Applications[app]

Ops == {"resumeAll", "yield", "yieldTo", "delay", "delayUntil", "wait",
        "unblockTime", "allocTCB", "add", "free", "freeTCB", "catchUp",
        "take", "takeEnd", "await", "awaitEnd", "idleYield"} \cup OtherOps

\* A work item: what to do, a tick count or priority, a task, a flag.
Work == [op: Ops, n: Nat, task: Task, flag: BOOLEAN]

Do(op) == [op |-> op, n |-> 0, task |-> Idle, flag |-> FALSE]
DoFor(op, n) == [Do(op) EXCEPT !.n = n]
DoWith(op, flag) == [Do(op) EXCEPT !.flag = flag]

TypeOK ==
    /\ k \in KernelState
    /\ todo \in [Task -> Seq(Work)]
    /\ value \in [Task -> NotifyValues]
    /\ previous \in [Task -> Tick]
    /\ allocated \in SUBSET Task
    /\ app \in DOMAIN Applications

\* As vTaskStartScheduler leaves them: the tasks created before it and the
\* idle task are ready, the last created of the highest priority runs.
ReadyAtStart(p, t) == Occurs(App.ready[p], t)

Started == {t \in Task : \E p \in Priority : ReadyAtStart(p, t)}

StartPriority(t) ==
    IF t \in Started THEN CHOOSE p \in Priority : ReadyAtStart(p, t) ELSE 0

HighestStart ==
    CHOOSE p \in Priority :
        /\ App.ready[p] # <<>>
        /\ \A q \in Priority : q > p => App.ready[q] = <<>>

Init ==
    /\ app \in DOMAIN Applications
    /\ k = [list |-> [l \in StateLists |->
                         IF l \in ReadyLists THEN App.ready[l[2]] ELSE <<>>],
            index |-> [l \in StateLists |-> 0],
            event |-> [e \in EventLists |-> <<>>],
            wake |-> [t \in Task |-> 0],
            order |-> [t \in Task |-> EventValue(StartPriority(t))],
            prio |-> [t \in Task |-> StartPriority(t)],
            base |-> [t \in Task |-> StartPriority(t)],
            held |-> [t \in Task |-> 0],
            notify |-> [t \in Task |-> "notWaiting"],
            live |-> Started,
            current |-> Last(App.ready[HighestStart]),
            tick |-> 0, next |-> MaxDelay, overflows |-> 0,
            top |-> HighestStart,
            susp |-> 0, pended |-> 0, yield |-> FALSE, cpu |-> "task"]
    /\ todo = [t \in Task |-> <<>>]
    /\ value = [t \in Task |-> 0]
    /\ previous = [t \in Task |-> 0]
    /\ allocated = Started

-----------------------------------------------------------------------------
(* The tick interrupt, timer_isr of port.c: xTaskIncrementTick, then       *)
(* vTaskSwitchContext whatever it returned.                                *)

InterruptsOn == k.cpu = "task"

TickInterrupt ==
    /\ InterruptsOn
    /\ \/ /\ k.susp = 0
          /\ k' = [IncrementTick(k) EXCEPT !.cpu = "tick"]
       \/ /\ k.susp # 0
          /\ k.pended < App.maxPended
          /\ k' = vTaskSwitchContext([k EXCEPT !.pended = @ + 1])
    /\ UNCHANGED <<todo, value, previous, allocated, app>>

\* A turn of the loop of xTaskIncrementTick: one task is unblocked.
TickUnblock ==
    /\ k.cpu = "tick"
    /\ ~TickIsOver(k)
    /\ k' = UnblockHead(k)
    /\ UNCHANGED <<todo, value, previous, allocated, app>>

TickEnd ==
    /\ k.cpu = "tick"
    /\ TickIsOver(k)
    /\ k' = [vTaskSwitchContext(AfterTickLoop(k)) EXCEPT !.cpu = "task"]
    /\ UNCHANGED <<todo, value, previous, allocated, app>>

-----------------------------------------------------------------------------
(* xTaskResumeAll.  Its critical section drains xPendingReadyList, then    *)
(* counts the ticks that were pended, then yields if a yield is pending.   *)

Me == k.current
Running(op) == k.cpu = "task" /\ todo[Me] # <<>> /\ Head(todo[Me]).op = op
Item == Head(todo[Me])
Rest == Tail(todo[Me])

\* The work items of the running task become s.
Continue(s) == todo' = [todo EXCEPT ![Me] = s]
Done == Continue(Rest)

ResumeAll ==
    /\ Running("resumeAll")
    /\ \/ /\ k.susp = 1
          /\ k' = [k EXCEPT !.susp = 0, !.cpu = "drain"]
          /\ UNCHANGED todo
       \/ /\ k.susp > 1
          /\ k' = [k EXCEPT !.susp = @ - 1]
          /\ Done
    /\ UNCHANGED <<value, previous, allocated, app>>

DrainPending ==
    /\ k.cpu \in {"drain", "drainMore"}
    /\ k.event[PendingReady] # <<>>
    /\ LET t == Head(k.event[PendingReady])
           k1 == [k EXCEPT !.event[PendingReady] = Tail(@),
                           !.cpu = "drainMore"]
       IN  k' = PendYieldIfHigher(MakeReady(k1, t), t)
    /\ UNCHANGED <<todo, value, previous, allocated, app>>

DrainEnd ==
    /\ k.cpu \in {"drain", "drainMore"}
    /\ k.event[PendingReady] = <<>>
    /\ LET k1 == IF k.cpu = "drainMore" THEN prvResetNextTaskUnblockTime(k) ELSE k
       IN  k' = [k1 EXCEPT !.cpu = "replay"]
    /\ UNCHANGED <<todo, value, previous, allocated, app>>

ReplayTick ==
    /\ k.cpu = "replay"
    /\ k.pended > 0
    /\ k' = [IncrementTick(k) EXCEPT !.cpu = "replayTick"]
    /\ UNCHANGED <<todo, value, previous, allocated, app>>

ReplayUnblock ==
    /\ k.cpu = "replayTick"
    /\ ~TickIsOver(k)
    /\ k' = PendYieldIfHigher(UnblockHead(k), Head(k.list[Delayed]))
    /\ UNCHANGED <<todo, value, previous, allocated, app>>

ReplayTickEnd ==
    /\ k.cpu = "replayTick"
    /\ TickIsOver(k)
    /\ k' = [AfterTickLoop(k) EXCEPT !.cpu = "replay",
                                     !.pended = @ - 1,
                                     !.yield = @ \/ SliceOver(k)]
    /\ UNCHANGED <<todo, value, previous, allocated, app>>

\* A caller that tests the result yields only if xTaskResumeAll did not.
YieldIsNext == Rest # <<>> /\ Head(Rest).op = "yield"

ResumeAllEnd ==
    /\ k.cpu = "replay"
    /\ k.pended = 0
    /\ \/ /\ k.yield
          /\ k' = [vTaskSwitchContext(k) EXCEPT !.cpu = "task"]
          /\ Continue(IF YieldIsNext THEN Tail(Rest) ELSE Rest)
       \/ /\ ~k.yield
          /\ k' = [k EXCEPT !.cpu = "task"]
          /\ Done
    /\ UNCHANGED <<value, previous, allocated, app>>

-----------------------------------------------------------------------------
(* What an API call does after its first step.                             *)

\* portYIELD_WITHIN_API
Yield ==
    /\ Running("yield")
    /\ k' = vTaskSwitchContext(k)
    /\ Done
    /\ UNCHANGED <<value, previous, allocated, app>>

\* The scheduler is suspended in these two: vTaskDelay and a wait for a
\* notification put the caller to sleep.
Delay ==
    /\ Running("delay")
    /\ k' = prvAddCurrentTaskToDelayedList(k, Item.n, FALSE)
    /\ Done
    /\ UNCHANGED <<value, previous, allocated, app>>

Wait ==
    /\ Running("wait")
    /\ k' = prvAddCurrentTaskToDelayedList(k, Item.n, TRUE)
    /\ Done
    /\ UNCHANGED <<value, previous, allocated, app>>

\* xTaskDelayUntil, between vTaskSuspendAll and xTaskResumeAll.
DelayUntil ==
    /\ Running("delayUntil")
    /\ LET w == Later(previous[Me], Item.n)
       IN  /\ previous' = [previous EXCEPT ![Me] = w]
           /\ k' = IF ShouldDelay(previous[Me], k.tick, Item.n)
                   THEN prvAddCurrentTaskToDelayedList(k, Elapsed(k.tick, w), FALSE)
                   ELSE k
    /\ Done
    /\ UNCHANGED <<value, allocated, app>>

\* vTaskSuspend, second critical section.
UnblockTime ==
    /\ Running("unblockTime")
    /\ k' = prvResetNextTaskUnblockTime(k)
    /\ Done
    /\ UNCHANGED <<value, previous, allocated, app>>

\* xTaskCatchUpTicks, between vTaskSuspendAll and xTaskResumeAll.
CatchUp ==
    /\ Running("catchUp")
    /\ k' = [k EXCEPT !.pended = @ + Item.n]
    /\ Done
    /\ UNCHANGED <<value, previous, allocated, app>>

\* prvCreateTask: the stack is allocated, now the control block.
AllocTCB ==
    /\ Running("allocTCB")
    /\ k' = [k EXCEPT !.susp = @ + 1]
    /\ \/ \E t \in Task \ allocated :
              /\ allocated' = allocated \cup {t}
              /\ todo' = [todo EXCEPT
                     ![t] = <<>>,
                     ![Me] = <<Do("resumeAll"),
                               [DoFor("add", Item.n) EXCEPT !.task = t]>>]
       \/ /\ allocated' = allocated
          /\ Continue(<<Do("resumeAll"), Do("free"), Do("resumeAll")>>)
    /\ UNCHANGED <<value, previous, app>>

\* prvInitialiseNewTask and the critical section of prvAddNewTaskToReadyList.
InitialTCB(t, p) ==
    [k EXCEPT !.prio[t] = p, !.base[t] = p, !.order[t] = EventValue(p),
              !.held[t] = 0, !.notify[t] = "notWaiting", !.wake[t] = 0,
              !.live = @ \cup {t}]

AddNewTaskToReadyList ==
    /\ Running("add")
    /\ k' = AddToReady(InitialTCB(Item.task, Item.n), Item.task)
    /\ value' = [value EXCEPT ![Item.task] = 0]
    /\ Continue(<<[Do("yieldTo") EXCEPT !.task = Item.task]>>)
    /\ UNCHANGED <<previous, allocated, app>>

\* The test for a yield comes after the critical section: the new task may
\* have run, ended and been freed by then, and what is read is anything.
YieldToNewTask ==
    /\ Running("yieldTo")
    /\ \/ Item.task \in allocated /\ k' = YieldIfHigher(k, Item.task)
       \/ Item.task \notin allocated /\ k' \in {k, vTaskSwitchContext(k)}
    /\ Done
    /\ UNCHANGED <<value, previous, allocated, app>>

\* vPortFree of a stack, then of a control block.
Free ==
    /\ Running("free")
    /\ k' = [k EXCEPT !.susp = @ + 1]
    /\ Done
    /\ UNCHANGED <<value, previous, allocated, app>>

FreeTCB ==
    /\ Running("freeTCB")
    /\ k' = [k EXCEPT !.susp = @ + 1]
    /\ allocated' = allocated \ {Item.task}
    /\ Done
    /\ UNCHANGED <<value, previous, app>>

-----------------------------------------------------------------------------
(* The idle task: clean up after the tasks that deleted themselves, then   *)
(* yield if another task of the idle priority is ready.                    *)

prvDeleteTCB(t) ==
    <<Do("free"), Do("resumeAll"),
      [Do("freeTCB") EXCEPT !.task = t], Do("resumeAll")>>

\* Mutant of IdleCleanUp: the task stays in the termination list.
CleanUpInPlace ==
    /\ k.cpu = "task" /\ Me = Idle /\ todo[Idle] = <<>>
    /\ ~Empty(k, Terminated)
    /\ Continue(prvDeleteTCB(Head(k.list[Terminated])))
    /\ UNCHANGED <<k, value, previous, allocated, app>>

IdleCleanUp ==
    /\ k.cpu = "task" /\ Me = Idle /\ todo[Idle] = <<>>
    /\ ~Empty(k, Terminated)
    /\ LET t == Head(k.list[Terminated])
       IN  /\ k' = [RemoveState(k, t) EXCEPT !.live = @ \ {t}]
           /\ todo' = [todo EXCEPT ![t] = <<>>, ![Idle] = prvDeleteTCB(t)]
    /\ UNCHANGED <<value, previous, allocated, app>>

IdleLoop ==
    /\ k.cpu = "task" /\ Me = Idle /\ todo[Idle] = <<>>
    /\ Empty(k, Terminated)
    /\ Continue(<<Do("idleYield")>>)
    /\ UNCHANGED <<k, value, previous, allocated, app>>

IdleYield ==
    /\ Running("idleYield")
    /\ k' = IF Len(k.list[Ready(0)]) > 1 THEN vTaskSwitchContext(k) ELSE k
    /\ Done
    /\ UNCHANGED <<value, previous, allocated, app>>

-----------------------------------------------------------------------------
(* API calls.  The application calls the API from its own tasks; with the  *)
(* scheduler suspended it may only nest vTaskSuspendAll and xTaskResumeAll *)
(* (the others could switch context).  A handle it passes is one of a task *)
(* it created and that has not been deleted.                               *)

Calls(f) ==
    /\ f \in App.api[Me]
    /\ k.cpu = "task"
    /\ todo[Me] = <<>>

CallsRunning(f) == Calls(f) /\ k.susp = 0

Handles == {t \in k.live \ {Idle} : ~IsIn(k, t, Terminated)}

vTaskSuspendAll ==
    /\ Calls("vTaskSuspendAll")
    /\ k.susp < MaxNesting
    /\ k' = [k EXCEPT !.susp = @ + 1]
    /\ UNCHANGED <<todo, value, previous, allocated, app>>

xTaskResumeAll ==
    /\ Calls("vTaskSuspendAll")
    /\ k.susp > 0
    /\ Continue(<<Do("resumeAll")>>)
    /\ UNCHANGED <<k, value, previous, allocated, app>>

vTaskDelay(n) ==
    /\ CallsRunning("vTaskDelay")
    /\ \/ /\ n > 0
          /\ k' = [k EXCEPT !.susp = 1]
          /\ Continue(<<DoFor("delay", n), Do("resumeAll"), Do("yield")>>)
       \/ /\ n = 0
          /\ k' = vTaskSwitchContext(k)
          /\ UNCHANGED todo
    /\ UNCHANGED <<value, previous, allocated, app>>

\* xTaskDelayUntil( &previous, n ); a task first takes xTaskGetTickCount.
xTaskGetTickCount ==
    /\ CallsRunning("xTaskDelayUntil")
    /\ previous' = [previous EXCEPT ![Me] = k.tick]
    /\ UNCHANGED <<k, todo, value, allocated, app>>

xTaskDelayUntil(n) ==
    /\ CallsRunning("xTaskDelayUntil")
    /\ n > 0
    /\ k' = [k EXCEPT !.susp = 1]
    /\ Continue(<<DoFor("delayUntil", n), Do("resumeAll"), Do("yield")>>)
    /\ UNCHANGED <<value, previous, allocated, app>>

xTaskCatchUpTicks(n) ==
    /\ CallsRunning("xTaskCatchUpTicks")
    /\ k' = [k EXCEPT !.susp = 1]
    /\ Continue(<<DoFor("catchUp", n), Do("resumeAll")>>)
    /\ UNCHANGED <<value, previous, allocated, app>>

\* A base priority below the running task's, or above it, yields.
vTaskPrioritySet(t, p) ==
    LET inherited == k.base[t] # k.prio[t] /\ p <= k.prio[t]
        k1 == ChangePriority(k, t, IF inherited THEN k.prio[t] ELSE p, EventValue(p))
        k2 == [k1 EXCEPT !.base[t] = p]
        yields == IF p > k.base[t] THEN t # Me /\ p > k.prio[Me] ELSE t = Me
    IN  /\ CallsRunning("vTaskPrioritySet")
        /\ t \in Handles
        /\ k.base[t] # p
        /\ k' = IF yields THEN vTaskSwitchContext(k2) ELSE k2
        /\ UNCHANGED <<todo, value, previous, allocated, app>>

\* Mutant of SuspendTask: a wait for a notification is left pending.
SuspendStillWaiting(t) ==
    AppendState(RemoveEvent(RemoveState(k, t), t), Suspended, t)

\* The critical section of vTaskSuspend.
SuspendTask(t) ==
    [AppendState(RemoveEvent(RemoveState(k, t), t), Suspended, t) EXCEPT
        !.notify[t] = IF @ = "waiting" THEN "notWaiting" ELSE @]

vTaskSuspend(t) ==
    /\ CallsRunning("vTaskSuspend")
    /\ t \in Handles
    /\ k' = SuspendTask(t)
    /\ Continue(<<Do("unblockTime")>> \o IF t = Me THEN <<Do("yield")>> ELSE <<>>)
    /\ UNCHANGED <<value, previous, allocated, app>>

prvTaskIsTaskSuspended(t) ==
    /\ IsIn(k, t, Suspended)
    /\ ~Waits(k, t)
    /\ k.notify[t] # "waiting"

vTaskResume(t) ==
    /\ CallsRunning("vTaskResume")
    /\ t \in Handles \ {Me}
    /\ prvTaskIsTaskSuspended(t)
    /\ k' = YieldIfHigher(MakeReady(k, t), t)
    /\ UNCHANGED <<todo, value, previous, allocated, app>>

xTaskCreate(p) ==
    /\ CallsRunning("xTaskCreate")
    /\ k' = [k EXCEPT !.susp = 1]
    /\ \/ Continue(<<Do("resumeAll"), DoFor("allocTCB", p)>>)
       \/ Continue(<<Do("resumeAll")>>)
    /\ UNCHANGED <<value, previous, allocated, app>>

\* A task that deletes itself cannot free the stack it runs on: the idle
\* task will.  Another task is unlinked and freed at once.
vTaskDelete(t) ==
    LET k1 == RemoveEvent(RemoveState(k, t), t)
    IN  /\ CallsRunning("vTaskDelete")
        /\ t \in Handles
        /\ \/ /\ t = Me
              /\ k' = AppendState(k1, Terminated, t)
              /\ Continue(<<Do("yield")>>)
           \/ /\ t # Me
              /\ k' = prvResetNextTaskUnblockTime([k1 EXCEPT !.live = @ \ {t}])
              /\ todo' = [todo EXCEPT ![t] = <<>>, ![Me] = prvDeleteTCB(t)]
        /\ UNCHANGED <<value, previous, allocated, app>>

-----------------------------------------------------------------------------
(* Direct to task notifications, one notification per task.                *)

Updated(t, action, v) ==
    CASE action = "eNoAction" -> value[t]
      [] action = "eSetBits" -> BitOr(value[t], v)
      [] action = "eIncrement" -> (value[t] + 1) % (MaxNotified + 1)
      [] action = "eSetValueWithOverwrite" -> v
      [] action = "eSetValueWithoutOverwrite" ->
            IF k.notify[t] = "received" THEN value[t] ELSE v

\* Bound: the counter has 32 bits, so a count of notifications never wraps.
CountFits(t, action) == action = "eIncrement" => value[t] < MaxNotified

Notify(t, action, v) ==
    /\ CountFits(t, action)
    /\ value' = [value EXCEPT ![t] = Updated(t, action, v)]

Received(t) == [k EXCEPT !.notify[t] = "received"]

xTaskGenericNotify(t, action, v) ==
    /\ CallsRunning("xTaskNotify")
    /\ t \in Handles
    /\ Notify(t, action, v)
    /\ k' = IF k.notify[t] = "waiting"
            THEN YieldIfHigher(MakeReady(Received(t), t), t)
            ELSE Received(t)
    /\ UNCHANGED <<todo, previous, allocated, app>>

\* ulTaskNotifyTake( clear, n ), in three critical sections.
ulTaskGenericNotifyTake(clear, n) ==
    /\ CallsRunning("ulTaskNotifyTake")
    /\ k' = [k EXCEPT !.susp = 1]
    /\ Continue(<<DoFor("take", n), Do("resumeAll"), DoWith("takeEnd", clear)>>)
    /\ UNCHANGED <<value, previous, allocated, app>>

\* Mutant of WaitFor: ucNotifyState is not set before blocking.
WaitUnmarked(n) ==
    /\ k' = k
    /\ IF n > 0
       THEN Continue(<<DoFor("wait", n), Do("resumeAll"), Do("yield")>> \o Tail(Rest))
       ELSE Done

\* The wait for a notification goes on, blocking if n is not 0.
WaitFor(n) ==
    /\ k' = [k EXCEPT !.notify[Me] = "waiting"]
    /\ IF n > 0
       THEN Continue(<<DoFor("wait", n), Do("resumeAll"), Do("yield")>> \o Tail(Rest))
       ELSE Done

Take ==
    /\ Running("take")
    /\ \/ value[Me] = 0 /\ WaitFor(Item.n)
       \/ value[Me] # 0 /\ Done /\ UNCHANGED k
    /\ UNCHANGED <<value, previous, allocated, app>>

TakeEnd ==
    /\ Running("takeEnd")
    /\ value' = [value EXCEPT ![Me] =
                    IF @ = 0 \/ Item.flag THEN 0 ELSE @ - 1]
    /\ k' = [k EXCEPT !.notify[Me] = "notWaiting"]
    /\ Done
    /\ UNCHANGED <<previous, allocated, app>>

\* xTaskNotifyWait: the bits to clear on entry and on exit are all or none.
xTaskGenericNotifyWait(onEntry, onExit, n) ==
    /\ CallsRunning("xTaskNotifyWait")
    /\ k' = [k EXCEPT !.susp = 1]
    /\ Continue(<<[DoFor("await", n) EXCEPT !.flag = onEntry],
                  Do("resumeAll"), DoWith("awaitEnd", onExit)>>)
    /\ UNCHANGED <<value, previous, allocated, app>>

Await ==
    /\ Running("await")
    /\ \/ /\ k.notify[Me] # "received"
          /\ value' = [value EXCEPT ![Me] = IF Item.flag THEN 0 ELSE @]
          /\ WaitFor(Item.n)
       \/ /\ k.notify[Me] = "received"
          /\ Done
          /\ UNCHANGED <<k, value>>
    /\ UNCHANGED <<previous, allocated, app>>

AwaitEnd ==
    /\ Running("awaitEnd")
    /\ value' = [value EXCEPT ![Me] =
                    IF k.notify[Me] = "received" /\ Item.flag THEN 0 ELSE @]
    /\ k' = [k EXCEPT !.notify[Me] = "notWaiting"]
    /\ Done
    /\ UNCHANGED <<previous, allocated, app>>

xTaskGenericNotifyStateClear(t) ==
    /\ CallsRunning("xTaskNotifyStateClear")
    /\ t \in Handles
    /\ k.notify[t] = "received"
    /\ k' = [k EXCEPT !.notify[t] = "notWaiting"]
    /\ UNCHANGED <<todo, value, previous, allocated, app>>

ulTaskGenericNotifyValueClear(t) ==
    /\ CallsRunning("ulTaskNotifyValueClear")
    /\ t \in Handles
    /\ value' = [value EXCEPT ![t] = 0]
    /\ UNCHANGED <<k, todo, previous, allocated, app>>

-----------------------------------------------------------------------------
(* Interrupts of the application.  An interrupt cannot switch context here *)
(* (vPortYieldFromISR is nowhere defined): it leaves xYieldPendings set.   *)

Interrupts(f) == f \in App.isr /\ InterruptsOn

xTaskResumeFromISR(t) ==
    /\ Interrupts("xTaskResumeFromISR")
    /\ t \in Handles
    /\ prvTaskIsTaskSuspended(t)
    /\ k' = IF k.susp = 0
            THEN MakeReady(PendYieldIfHigher(k, t), t)
            ELSE AppendPending(k, t)
    /\ UNCHANGED <<todo, value, previous, allocated, app>>

\* vTaskNotifyGiveFromISR is this with eIncrement.
xTaskGenericNotifyFromISR(t, action, v) ==
    /\ Interrupts("xTaskNotifyFromISR")
    /\ t \in Handles
    /\ Notify(t, action, v)
    /\ k' = IF k.notify[t] = "waiting"
            THEN PendYieldIfHigher(MakeReadyOrPend(Received(t), t), t)
            ELSE Received(t)
    /\ UNCHANGED <<todo, previous, allocated, app>>

-----------------------------------------------------------------------------

TickLoop == TickUnblock \/ TickEnd

ResumeAllLoop ==
    DrainPending \/ DrainEnd \/ ReplayTick \/ ReplayUnblock \/ ReplayTickEnd
    \/ ResumeAllEnd

Continuation ==
    \/ ResumeAll \/ Yield \/ Delay \/ DelayUntil \/ Wait \/ UnblockTime
    \/ CatchUp \/ AllocTCB \/ AddNewTaskToReadyList \/ YieldToNewTask
    \/ Free \/ FreeTCB \/ Take \/ TakeEnd \/ Await \/ AwaitEnd
    \/ IdleCleanUp \/ IdleLoop \/ IdleYield

\* What the processor does of itself: the kernel's loops, the calls under
\* way and the idle task.
Step == TickLoop \/ ResumeAllLoop \/ Continuation

Call ==
    \/ vTaskSuspendAll \/ xTaskResumeAll \/ xTaskGetTickCount
    \/ \E n \in App.ticks[Me] :
          \/ vTaskDelay(n) \/ xTaskDelayUntil(n) \/ xTaskCatchUpTicks(n)
          \/ \E b \in App.clears :
                \/ ulTaskGenericNotifyTake(b, n)
                \/ \E c \in App.clears : xTaskGenericNotifyWait(b, c, n)
    \/ \E p \in Priority : xTaskCreate(p)
    \/ \E t \in Task :
          \/ vTaskSuspend(t) \/ vTaskResume(t) \/ vTaskDelete(t)
          \/ \E p \in Priority : vTaskPrioritySet(t, p)
          \/ xTaskGenericNotifyStateClear(t) \/ ulTaskGenericNotifyValueClear(t)
          \/ \E a \in App.actions, v \in NotifyValues : xTaskGenericNotify(t, a, v)

Interrupt ==
    \E t \in Task :
        \/ xTaskResumeFromISR(t)
        \/ \E a \in App.actions, v \in NotifyValues : xTaskGenericNotifyFromISR(t, a, v)

Next == TickInterrupt \/ Step \/ Call \/ Interrupt

Spec == Init /\ [][Next]_vars

\* The processor runs the kernel's loops to their end, a pending tick
\* interrupt is taken when interrupts are on, and a task that runs again and
\* again gets through the call it is in.
Fairness ==
    /\ WF_vars(TickLoop \/ ResumeAllLoop)
    /\ SF_vars(TickInterrupt)
    /\ \A t \in Task : SF_vars(Me = t /\ Continuation)

FairSpec == Spec /\ Fairness

-----------------------------------------------------------------------------
(* Properties.                                                             *)

\* Every live task is in exactly one state list, once; no other is in any.
OneStateList == EachInOneList(k)

\* The ready lists: a ready task is in the list of its own priority, the
\* search for the next task starts high enough and always ends, for the
\* idle task is always ready (the assertion of line 192 never fires).
ReadyListsSound ==
    /\ ReadyByPriority(k)
    /\ TopCoversReady(k)
    /\ IsIn(k, Idle, Ready(0))

\* xNextTaskUnblockTime never lets xTaskIncrementTick pass over a task that
\* is due, and the delayed lists are ordered by wake time.
UnblockTimeIsEarly == UnblockTimeSound(k) /\ DelayedInOrder(k)

\* No task sleeps past its time, even across the wrap of the tick count: so
\* the delayed list is empty when the lists are switched (the assertion of
\* line 260), and when it wraps every sleeper of the overflow list is due
\* after it.
NoOverdueSleeper == SleepersInFuture(k)

\* So no sleeper is ever passed over.
NobodyOversleeps == UnblockTimeIsEarly /\ NoOverdueSleeper

\* The running task is of the highest priority of the ready ones, unless it
\* is about to yield, has a yield pending or has suspended the scheduler.
AboutToYield == todo[Me] # <<>> /\ Head(todo[Me]).op = "yieldTo"

HighestPriorityRuns ==
    k.cpu = "task" /\ k.susp = 0 /\ ~k.yield /\ ~AboutToYield
        => \A p \in Priority : p > k.prio[Me] => Empty(k, Ready(p))

\* A task that an interrupt readied while the scheduler was suspended is not
\* forgotten: xPendingReadyList is empty once xTaskResumeAll has drained it,
\* and a task in it is either notified or was suspended.
PendingReadyIsDrained ==
    /\ k.susp = 0 /\ k.cpu \notin {"drain", "drainMore"} => k.event[PendingReady] = <<>>
    /\ \A i \in DOMAIN k.event[PendingReady] :
           LET t == k.event[PendingReady][i]
           IN  k.notify[t] = "received" \/ IsIn(k, t, Suspended)

Asleep(t) == IsIn(k, t, Delayed) \/ IsIn(k, t, OverflowDelayed)

ReadyToRun(t) == IsIn(k, t, Ready(k.prio[t]))

\* A task that waits for a notification and has got one is ready, or in
\* xPendingReadyList: the notification that came between the test of its
\* count and the moment it blocks does not leave it asleep.  In an application
\* that suspends tasks it may have been suspended since.
WaitsForNotification(t) ==
    todo[t] # <<>> /\ Last(todo[t]).op \in {"takeEnd", "awaitEnd"}

MaySuspend == \E t \in Task : "vTaskSuspend" \in App.api[t]

NotifiedTaskWakes ==
    \A t \in k.live :
        WaitsForNotification(t) /\ k.notify[t] = "received"
            => \/ ReadyToRun(t) \/ Occurs(k.event[PendingReady], t)
               \/ MaySuspend /\ prvTaskIsTaskSuspended(t)

\* A task whose notification state is taskWAITING_NOTIFICATION is in no event
\* list (the assertions of lines 7917, 8056 and 8174 hold).
WaitingTaskHasNoEvent == \A t \in Task : k.notify[t] = "waiting" => ~Waits(k, t)

NoNotificationIsLost == NotifiedTaskWakes /\ WaitingTaskHasNoEvent

\* No control block is used after it was freed: the one of the running task,
\* of any task in a list or about to be put in one, is allocated.
NoUseAfterFree ==
    /\ k.current \in allocated
    /\ k.live \subseteq allocated
    /\ \A t \in k.live : \A i \in DOMAIN todo[t] :
           todo[t][i].op \in {"add", "freeTCB"} => todo[t][i].task \in allocated \ k.live

\* The lists of the kernel are sound between any two steps: each task is where
\* its state says, once, and none of them holds a freed control block.
ListsAreSound ==
    TypeOK /\ OneStateList /\ ReadyListsSound /\ PendingReadyIsDrained /\ NoUseAfterFree

\* A task leaves the delayed lists for the ready list, other than by a
\* notification, at the very tick it asked for: neither early nor late.
WakesOnTime ==
    [][\A t \in Task :
           Asleep(t) /\ ReadyToRun(t)' /\ k'.notify[t] # "received"
               => k.tick = k.wake[t]]_vars

\* A periodic task keeps its period: xTaskDelayUntil puts it to sleep if and
\* only if fewer ticks than it asked for have passed since it last woke, and
\* then until the very tick it asked for; a task that is late is not delayed.
PeriodIsKept ==
    [][DelayUntil =>
        \A t \in Task : t = Me =>
            /\ Asleep(t)' <=> Elapsed(previous[t], k.tick) < Item.n
            /\ Asleep(t)' => k'.wake[t] = previous'[t]]_vars

\* Delays are exact, those of one call and those of a period.
DelaysAreExact == WakesOnTime /\ PeriodIsKept

\* A task that vTaskSuspend suspended, in whatever call it was, passes the
\* kernel's test for suspended tasks, and goes on to do so whatever ticks pass
\* and notifications come, until it is resumed or deleted.
SuspendedUntilResumed ==
    [][\A t \in Task :
           /\ vTaskSuspend(t) => prvTaskIsTaskSuspended(t)'
           /\ prvTaskIsTaskSuspended(t)
                 => \/ prvTaskIsTaskSuspended(t)'
                    \/ vTaskResume(t) \/ xTaskResumeFromISR(t) \/ vTaskDelete(t)]_vars

\* A delay ends.
DelayEnds == \A t \in Task : []<>~Asleep(t)

\* Time slicing: a task that stays ready at the highest priority that is
\* ready runs again and again.
TopReady(t) == ReadyToRun(t) /\ \A p \in Priority : p > k.prio[t] => Empty(k, Ready(p))

TasksShareTheProcessor == \A t \in Task : []<>(k.current = t \/ ~TopReady(t))

\* A task that deleted itself is freed, if the idle task gets to run.
DeletedTasksAreFreed ==
    []<>(Me = Idle) => \A t \in Task : []<>(t \in allocated => t \in k.live /\ ~IsIn(k, t, Terminated))

\* Nobody waits for ever for the passing of time, and nothing deleted is kept.
NothingIsLeftBehind == DelayEnds /\ DeletedTasksAreFreed

=============================================================================
