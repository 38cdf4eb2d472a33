------------------------------- MODULE Timers -------------------------------
(***************************************************************************)
(* Software timers: freertos/source/timers.c, the timer daemon and the     *)
(* functions that send it commands.                                        *)
(*                                                                         *)
(* The daemon owns the timers and their two lists: one of those that are   *)
(* due before the tick count wraps, one of those due after it.  The lists  *)
(* trade places when the daemon sees that the tick count went down.        *)
(* Between any two steps of the daemon ticks may pass, and tasks and       *)
(* interrupts may send commands; while it has the scheduler suspended only *)
(* interrupts may, and the ticks are pended.                               *)
(*                                                                         *)
(* The queue of commands is a bounded sequence and sleep a number of ticks *)
(* to go; Queues.tla and Tasks.tla have what these two rest on.            *)
(***************************************************************************)
EXTENDS TickCount, Lists, FiniteSets

CONSTANTS
    Timer,          \* the timers
    NULL,           \* no timer
    Off,            \* the history of a timer that does not run
    QueueLength,    \* configTIMER_QUEUE_LENGTH
    FromISR,        \* the commands that interrupts send: set of [op, timer, value]
    FromTask,       \* the commands that tasks send
    FirstPeriod,    \* [Timer -> the period it is created with]
    AutoReload,     \* the timers created with xAutoReload
    ChangesMode,    \* the timers whose reload mode the application changes
    MaxPended,      \* bound: ticks pended in one suspension of the scheduler
    MaxSince,       \* bound: ticks between two looks of the daemon at the clock
    MaxLate         \* bound: those of them in which it was not blocked

CommandOps == {"START", "STOP", "CHANGE_PERIOD", "DELETE"}

Periods == 1 .. MaxDelay

TimersAssumption ==
    /\ NULL \notin Timer
    /\ QueueLength \in Nat \ {0}
    /\ FromISR \cup FromTask \subseteq [op: CommandOps, timer: Timer, value: Tick]
    /\ \A c \in FromISR \cup FromTask : c.op = "CHANGE_PERIOD" => c.value > 0
    /\ FirstPeriod \in [Timer -> Periods]
    /\ AutoReload \subseteq Timer
    /\ ChangesMode \subseteq Timer
    /\ MaxPended \in Nat
    /\ MaxSince \in Nat
    /\ MaxLate \in Nat

VARIABLES
    tick,       \* xTickCount
    pended,     \* xPendedTicks
    suspended,  \* the daemon has suspended the scheduler
    current,    \* *pxCurrentTimerList
    overflow,   \* *pxOverflowTimerList
    timer,      \* [Timer -> its item value, period, two bits of ucStatus, allocated]
    commands,   \* xTimerQueue
    call,       \* a command that a task has stamped but not sent yet, or none
    lastTime,   \* xLastTime of prvSampleTimeNow
    wait,       \* the ticks for which the daemon is blocked, 0 if it is not
    daemon,     \* where the daemon is, and its locals
    since,      \* history: the ticks since the moment xLastTime holds
    late,       \* history: the ticks since the daemon last looked at the clock or woke
    left,       \* history: the ticks until each timer is due, or Off
    mode        \* history: the reload mode the application wants of each timer

clock == <<tick, pended>>
lists == <<current, overflow, timer>>
history == <<since, late, left, mode>>
vars == <<tick, pended, suspended, current, overflow, timer, commands, call,
          lastTime, wait, daemon, since, late, left, mode>>

\* Blocked until a command comes: portMAX_DELAY and xWaitIndefinitely.
Indefinitely == MaxDelay + 1

\* A command in the queue; a start has the ticks since it was stamped as history.
Message == [op: CommandOps, timer: Timer, value: Tick, age: 0 .. MaxDelay]

NoMessage == [op |-> "none", timer |-> NULL, value |-> 0, age |-> 0]

Places == {"loop", "decide", "resume", "expire", "read", "write", "reload",
           "receive", "sample", "switch"}

\* The daemon at the start of a call of one of its functions.
At(place) == [at |-> place, after |-> "loop", next |-> 0, empty |-> FALSE, now |-> 0,
              message |-> NoMessage, timer |-> NULL, expired |-> 0, limit |-> 0,
              switching |-> FALSE, what |-> "none", read |-> FALSE]

TypeOK ==
    /\ tick \in Tick
    /\ pended \in 0 .. MaxPended
    /\ suspended \in BOOLEAN
    /\ current \in Seq(Timer)
    /\ overflow \in Seq(Timer)
    /\ timer \in [Timer -> [value: Tick, period: Periods, active: BOOLEAN,
                            auto: BOOLEAN, allocated: BOOLEAN]]
    /\ commands \in Seq(Message)
    /\ Len(commands) <= QueueLength
    /\ call \in Message \cup {NoMessage}
    /\ lastTime \in Tick
    /\ wait \in 0 .. Indefinitely
    /\ daemon \in [at: Places, after: Places, next: Tick, empty: BOOLEAN, now: Tick,
                   message: Message \cup {NoMessage}, timer: Timer \cup {NULL},
                   expired: Tick, limit: Tick, switching: BOOLEAN,
                   what: CommandOps \cup {"none", "oneShot"}, read: BOOLEAN]
    /\ since \in 0 .. MaxDelay + 1
    /\ late \in 0 .. MaxLate
    /\ left \in [Timer -> Int \cup {Off}]
    /\ mode \in [Timer -> BOOLEAN]

\* When vTaskStartScheduler has started the daemon: timers were created, none
\* runs, and the lists are as prvCheckForValidListAndQueue left them.
Init ==
    /\ tick = 0
    /\ pended = 0
    /\ suspended = FALSE
    /\ current = <<>>
    /\ overflow = <<>>
    /\ timer = [t \in Timer |-> [value |-> 0, period |-> FirstPeriod[t], active |-> FALSE,
                                 auto |-> t \in AutoReload, allocated |-> TRUE]]
    /\ commands = <<>>
    /\ call = NoMessage
    /\ lastTime = 0
    /\ wait = 0
    /\ daemon = At("loop")
    /\ since = 0
    /\ late = 0
    /\ left = [t \in Timer |-> Off]
    /\ mode = [t \in Timer |-> t \in AutoReload]

Listed(t) == Occurs(current, t) \/ Occurs(overflow, t)

-----------------------------------------------------------------------------
(* Time.                                                                   *)

Older(m, n) == IF m.op = "START" THEN [m EXCEPT !.age = @ + n] ELSE m

\* n ticks pass, one after the other; a blocked daemon may wake.
Elapse(n) ==
    /\ tick' = Later(tick, n)
    /\ wait' = IF wait = Indefinitely THEN wait ELSE IF wait > n THEN wait - n ELSE 0
    /\ since' = IF since + n > MaxDelay THEN MaxDelay + 1 ELSE since + n
    /\ late' = IF wait = Indefinitely \/ wait >= n THEN late ELSE late + n - wait
    /\ left' = [t \in Timer |-> IF left[t] = Off THEN Off ELSE left[t] - n]
    /\ commands' = [i \in DOMAIN commands |-> Older(commands[i], n)]
    /\ call' = Older(call, n)

\* What the model assumes of the scheduling: the daemon has the highest
\* priority.  It gets to look at the clock within MaxLate ticks of its last look
\* or of the moment it woke, and while it has timers to look after within MaxSince
\* ticks of its last look; and at each command within a wrap of it.
InTime(n) ==
    /\ late + pended + n <= MaxLate + wait
    /\ since + pended + n <= MaxSince \/ \A t \in Timer : left[t] = Off
    /\ \A m \in {call, daemon.message} \cup {commands[i] : i \in DOMAIN commands} :
           m.age + pended + n <= MaxDelay

TickInterrupt ==
    /\ InTime(1)
    /\ \/ /\ suspended
          /\ pended < MaxPended
          /\ pended' = pended + 1
          /\ UNCHANGED <<tick, wait, since, late, left, commands, call, daemon>>
       \/ /\ ~suspended
          /\ Elapse(1)
          /\ daemon' = [daemon EXCEPT !.message = Older(@, 1)]
          /\ UNCHANGED pended
    /\ UNCHANGED <<suspended, current, overflow, timer, lastTime, mode>>

\* xTaskResumeAll: the pended ticks are counted now.
ResumeAll ==
    /\ daemon.at = "resume"
    /\ Elapse(pended)
    /\ pended' = 0
    /\ suspended' = FALSE
    /\ daemon' = [daemon EXCEPT !.at = daemon.after]
    /\ UNCHANGED <<current, overflow, timer, lastTime, mode>>

-----------------------------------------------------------------------------
(* The lists.                                                              *)

Value(s) == [t \in Timer |-> s[t].value]

Insert(list, s, t) == vListInsert(list, Value(s), t)

\* uxListRemove, unless the timer is in no list.
Without(list, t) == IF Occurs(list, t) THEN uxListRemove(list, t) ELSE list

\* Mutants of MustProcessNow: an expiry time that is not ahead of the tick count
\* has passed; a command that is older than the wrap is not told from others.
MustProcessNowIfPast(next, now, command, period) ==
    \/ next <= now
    \/ next > now /\ now < command /\ next >= command

MustProcessNowUnwrapped(next, now, command, period) ==
    next <= now /\ Elapsed(command, now) >= period

\* prvInsertTimerInActiveList, its result: the timer expired before it was inserted.
MustProcessNow(next, now, command, period) ==
    \/ next <= now /\ Elapsed(command, now) >= period
    \/ next > now /\ now < command /\ next >= command

\* prvInsertTimerInActiveList, its effect on the lists: s has the new timers.
InsertTimer(s, t, next, now) ==
    LET s1 == [s EXCEPT ![t].value = next]
    IN  /\ timer' = s1
        /\ IF next <= now
           THEN overflow' = Insert(overflow, s1, t) /\ current' = current
           ELSE current' = Insert(current, s1, t) /\ overflow' = overflow

\* The timer's callback has returned; the loop that called it goes on.
Returns == IF daemon.switching THEN [daemon EXCEPT !.at = "switch", !.timer = NULL,
                                                    !.what = "none", !.read = FALSE,
                                                    !.expired = 0, !.next = 0]
           ELSE At("receive")

\* prvReloadTimer: a turn of its loop with the callback.  Either the next
\* expiry has passed as well, or the timer is inserted and its callback is
\* called for the last time, by the caller.
ReloadTimer ==
    /\ daemon.at = "reload"
    /\ LET t == daemon.timer
           next == Later(daemon.expired, timer[t].period)
       IN  /\ \/ /\ MustProcessNow(next, daemon.limit, daemon.expired, timer[t].period)
                 /\ daemon' = [daemon EXCEPT !.expired = next]
                 /\ timer' = [timer EXCEPT ![t].value = next]
                 /\ UNCHANGED <<current, overflow>>
              \/ /\ ~MustProcessNow(next, daemon.limit, daemon.expired, timer[t].period)
                 /\ InsertTimer(timer, t, next, daemon.limit)
                 /\ daemon' = Returns
           /\ left' = [left EXCEPT ![t] = @ + timer[t].period]
    /\ UNCHANGED <<clock, suspended, commands, call, lastTime, wait, since, late, mode>>

\* prvProcessExpiredTimer: the head of the current list.
ProcessExpired(next, limit) ==
    LET t == Head(current)
    IN  /\ current' = Tail(current)
        /\ daemon' = [daemon EXCEPT !.timer = t, !.limit = limit,
                                    !.expired = IF timer[t].auto THEN next ELSE 0,
                                    !.what = IF timer[t].auto THEN "none" ELSE "oneShot",
                                    !.at = IF timer[t].auto THEN "reload" ELSE "read"]
        /\ UNCHANGED <<clock, suspended, overflow, timer, commands, call, lastTime, wait, history>>

\* ucStatus is read and written back without a critical section.
ReadStatus ==
    /\ daemon.at = "read"
    /\ daemon' = [daemon EXCEPT !.at = "write", !.read = timer[daemon.timer].auto]
    /\ UNCHANGED <<clock, suspended, lists, commands, call, lastTime, wait, history>>

Written(active) == [timer EXCEPT ![daemon.timer].active = active,
                                 ![daemon.timer].auto = daemon.read]

Writes(what) == daemon.at = "write" /\ daemon.what = what

\* A timer that does not reload itself has expired.
ExpireOnce ==
    /\ Writes("oneShot")
    /\ timer' = Written(FALSE)
    /\ left' = [left EXCEPT ![daemon.timer] = Off]
    /\ daemon' = Returns
    /\ UNCHANGED <<clock, suspended, current, overflow, commands, call, lastTime, wait, since, late, mode>>

-----------------------------------------------------------------------------
(* prvTimerTask.                                                           *)

\* prvGetNextExpireTime
NextExpireTime == IF current = <<>> THEN 0 ELSE timer[Head(current)].value

\* prvSampleTimeNow, up to the switch of the lists if there is to be one.
Sample(d, then) ==
    IF tick < lastTime
    THEN /\ daemon' = [d EXCEPT !.at = "switch", !.switching = TRUE, !.now = tick, !.after = then]
         /\ UNCHANGED <<lastTime, since, late>>
    ELSE /\ daemon' = [d EXCEPT !.at = then, !.now = tick]
         /\ lastTime' = tick
         /\ since' = 0
         /\ late' = 0

\* prvGetNextExpireTime and the start of prvProcessTimerOrBlockTask.
Look ==
    /\ daemon.at = "loop"
    /\ suspended' = TRUE
    /\ Sample([At("decide") EXCEPT !.next = NextExpireTime, !.empty = current = <<>>], "decide")
    /\ UNCHANGED <<clock, lists, commands, call, wait, left, mode>>

\* Mutant of BlockTime: the overflow list is not looked at.
BlockTimeIfEmpty(d) ==
    IF d.empty THEN Indefinitely
    ELSE IF d.next = d.now THEN 1 ELSE Elapsed(d.now, d.next)

\* How long the daemon is to block.  No ticks are a wait for the next one.
BlockTime(d) ==
    IF d.empty /\ overflow = <<>> THEN Indefinitely
    ELSE IF d.next = d.now THEN 1 ELSE Elapsed(d.now, d.next)

\* A timer has expired, or the daemon blocks unless a command has come.
Decide ==
    /\ daemon.at = "decide"
    /\ \/ /\ ~daemon.empty /\ daemon.next <= daemon.now
          /\ daemon' = [daemon EXCEPT !.at = "resume", !.after = "expire"]
          /\ wait' = wait
       \/ /\ daemon.empty \/ daemon.next > daemon.now
          /\ daemon' = [At("resume") EXCEPT !.after = "receive"]
          /\ wait' = IF commands = <<>> THEN BlockTime(daemon) ELSE 0
    /\ UNCHANGED <<clock, suspended, lists, commands, call, lastTime, history>>

Expire ==
    /\ daemon.at = "expire"
    /\ ProcessExpired(daemon.next, daemon.now)

\* prvSwitchTimerLists: the timers that are left have expired.
SwitchExpire ==
    /\ daemon.at = "switch"
    /\ current # <<>>
    /\ ProcessExpired(timer[Head(current)].value, MaxDelay)

SwitchLists ==
    /\ daemon.at = "switch"
    /\ current = <<>>
    /\ current' = overflow
    /\ overflow' = current
    /\ lastTime' = daemon.now
    /\ since' = Elapsed(daemon.now, tick)
    /\ late' = since'
    /\ daemon' = IF daemon.after = "decide" THEN [At("resume") EXCEPT !.after = "receive"]
                 ELSE [daemon EXCEPT !.at = daemon.after, !.switching = FALSE, !.limit = 0,
                                     !.after = "loop", !.timer = daemon.message.timer,
                                     !.what = daemon.message.op]
    /\ UNCHANGED <<clock, suspended, timer, commands, call, wait, left, mode>>

-----------------------------------------------------------------------------
(* prvProcessReceivedCommands.                                             *)

Receive ==
    /\ daemon.at = "receive"
    /\ wait = 0
    /\ \/ /\ commands = <<>>
          /\ daemon' = At("loop")
          /\ UNCHANGED <<commands, current, overflow>>
       \/ /\ commands # <<>>
          /\ LET m == Head(commands)
             IN  /\ daemon' = [At("sample") EXCEPT !.message = m]
                 /\ current' = Without(current, m.timer)
                 /\ overflow' = Without(overflow, m.timer)
          /\ commands' = Tail(commands)
    /\ UNCHANGED <<clock, suspended, timer, call, lastTime, wait, history>>

SampleForCommand ==
    /\ daemon.at = "sample"
    /\ Sample([daemon EXCEPT !.timer = daemon.message.timer, !.what = daemon.message.op], "read")
    /\ UNCHANGED <<clock, suspended, lists, commands, call, wait, left, mode>>

\* tmrCOMMAND_START, tmrCOMMAND_RESET and both from an interrupt.
StartTimer ==
    /\ Writes("START")
    /\ LET t == daemon.timer
           m == daemon.message
           next == Later(m.value, timer[t].period)
       IN  /\ \/ /\ MustProcessNow(next, daemon.now, m.value, timer[t].period)
                 /\ timer' = [Written(TRUE) EXCEPT ![t].value = next]
                 /\ daemon' = IF timer'[t].auto
                              THEN [daemon EXCEPT !.at = "reload", !.expired = next,
                                                  !.limit = daemon.now, !.read = FALSE]
                              ELSE [daemon EXCEPT !.at = "read", !.what = "oneShot", !.read = FALSE]
                 /\ UNCHANGED <<current, overflow>>
              \/ /\ ~MustProcessNow(next, daemon.now, m.value, timer[t].period)
                 /\ InsertTimer(Written(TRUE), t, next, daemon.now)
                 /\ daemon' = At("receive")
           /\ left' = [left EXCEPT ![t] = timer[t].period - m.age]
    /\ UNCHANGED <<clock, suspended, commands, call, lastTime, wait, since, late, mode>>

StopTimer ==
    /\ Writes("STOP")
    /\ timer' = Written(FALSE)
    /\ left' = [left EXCEPT ![daemon.timer] = Off]
    /\ daemon' = At("receive")
    /\ UNCHANGED <<clock, suspended, current, overflow, commands, call, lastTime, wait, since, late, mode>>

ChangePeriod ==
    /\ Writes("CHANGE_PERIOD")
    /\ LET t == daemon.timer
           p == daemon.message.value
       IN  /\ InsertTimer([Written(TRUE) EXCEPT ![t].period = p], t,
                          Later(daemon.now, p), daemon.now)
           /\ left' = [left EXCEPT ![t] = p - Elapsed(daemon.now, tick)]
    /\ daemon' = At("receive")
    /\ UNCHANGED <<clock, suspended, commands, call, lastTime, wait, since, late, mode>>

\* The status is only read.
DeleteTimer ==
    /\ Writes("DELETE")
    /\ timer' = [timer EXCEPT ![daemon.timer].allocated = FALSE]
    /\ left' = [left EXCEPT ![daemon.timer] = Off]
    /\ daemon' = At("receive")
    /\ UNCHANGED <<clock, suspended, current, overflow, commands, call, lastTime, wait, since, late, mode>>

-----------------------------------------------------------------------------
(* The application.  It uses no timer that it has told to be deleted.      *)

CanUse(t) ==
    /\ timer[t].allocated
    /\ \A m \in {call, daemon.message} \cup {commands[i] : i \in DOMAIN commands} :
           ~(m.op = "DELETE" /\ m.timer = t)

CanSend(c) == CanUse(c.timer) /\ (c.op = "DELETE" => call.timer # c.timer)

\* A start is stamped with the tick count.
Stamped(c) == [op |-> c.op, timer |-> c.timer, age |-> 0,
               value |-> IF c.op = "START" THEN tick ELSE c.value]

HasRoom == Len(commands) < QueueLength

\* The command is queued, and the daemon woken.
Queue(m) ==
    /\ commands' = Append(commands, m)
    /\ wait' = 0

\* An interrupt, or a callback: those that are called at the switch of the lists
\* run with the scheduler suspended.  No interrupt deletes a timer.
xTimerGenericCommandFromISR(c) ==
    /\ CanSend(c)
    /\ c.op = "DELETE" => daemon.switching
    /\ HasRoom
    /\ Queue(Stamped(c))
    /\ UNCHANGED <<clock, suspended, lists, call, lastTime, daemon, history>>

\* A task: the argument is evaluated, then the command is queued at once, or
\* when there is room, or never.
xTimerGenericCommandFromTask(c) ==
    /\ ~suspended
    /\ CanSend(c)
    /\ call = NoMessage
    /\ call' = Stamped(c)
    /\ UNCHANGED <<clock, suspended, lists, commands, lastTime, wait, daemon, history>>

xQueueSendToBack ==
    /\ ~suspended
    /\ call # NoMessage
    /\ call' = NoMessage
    /\ \/ HasRoom /\ Queue(call)
       \/ ~HasRoom /\ UNCHANGED <<commands, wait>>
    /\ UNCHANGED <<clock, suspended, lists, lastTime, daemon, history>>

vTimerSetReloadMode(t, auto) ==
    /\ t \in ChangesMode
    /\ ~suspended
    /\ CanUse(t)
    /\ timer' = [timer EXCEPT ![t].auto = auto]
    /\ mode' = [mode EXCEPT ![t] = auto]
    /\ UNCHANGED <<clock, suspended, current, overflow, commands, call, lastTime, wait, daemon,
                   since, late, left>>

xTimerCreate(t) ==
    /\ ~suspended
    /\ ~timer[t].allocated
    /\ timer' = [timer EXCEPT ![t] = [value |-> 0, period |-> FirstPeriod[t], active |-> FALSE,
                                      auto |-> t \in AutoReload, allocated |-> TRUE]]
    /\ mode' = [mode EXCEPT ![t] = t \in AutoReload]
    /\ UNCHANGED <<clock, suspended, current, overflow, commands, call, lastTime, wait, daemon,
                   since, late, left>>

-----------------------------------------------------------------------------

Daemon ==
    \/ Look \/ Decide \/ ResumeAll \/ Expire \/ SwitchExpire \/ SwitchLists
    \/ ReloadTimer \/ ReadStatus \/ ExpireOnce
    \/ Receive \/ SampleForCommand
    \/ StartTimer \/ StopTimer \/ ChangePeriod \/ DeleteTimer

Application ==
    \/ \E c \in FromISR : xTimerGenericCommandFromISR(c)
    \/ \E c \in FromTask : xTimerGenericCommandFromTask(c)
    \/ xQueueSendToBack
    \/ \E t \in Timer : xTimerCreate(t) \/ \E auto \in BOOLEAN : vTimerSetReloadMode(t, auto)

Next == TickInterrupt \/ Daemon \/ Application

Spec == Init /\ [][Next]_vars

\* Time goes on, and the daemon runs when it is not blocked.
FairSpec == Spec /\ WF_vars(TickInterrupt) /\ WF_vars(Daemon)

-----------------------------------------------------------------------------
(* Properties.                                                             *)

\* The lists tell the true time: the item value of a timer in the current list
\* is when it is due in the wrap that the daemon is in, as of its last look at
\* the clock; in the overflow list, in the wrap after.  However late a command was
\* processed, and wherever the tick count wrapped in between.
EpochAgrees ==
    /\ \A i \in DOMAIN current :
           left[current[i]] = timer[current[i]].value - lastTime - since
    /\ \A i \in DOMAIN overflow :
           left[overflow[i]] = timer[overflow[i]].value + MaxDelay + 1 - lastTime - since

\* While the daemon is blocked no timer comes due before it wakes, but for one
\* that is due at the next tick; and it blocks for ever only if none runs.  That
\* it blocks until the tick count wraps is to see the wrap (timers.c:852-857).
DaemonWakesInTime ==
    wait > 0 =>
        \A t \in Timer :
            Listed(t) => wait # Indefinitely /\ (wait <= left[t] \/ wait = 1)

\* What xTimerIsTimerActive answers is so, unless the daemon has the timer in
\* hand: an active timer is in one list, once, and one that is not runs no more.
ActiveIsListed ==
    \A t \in Timer :
        t \notin {daemon.timer, daemon.message.timer} =>
            /\ timer[t].active /\ timer[t].allocated <=> Listed(t)
            /\ Listed(t) <=> left[t] # Off
            /\ Cardinality({i \in DOMAIN (current \o overflow) : (current \o overflow)[i] = t}) <= 1

\* The block that held a timer is not used after it was given back: no command is
\* left for it, it is in no list, and the daemon does not have it in hand.
DeletedTimerIsForgotten ==
    \A t \in Timer :
        ~timer[t].allocated =>
            /\ ~Listed(t)
            /\ t # daemon.timer
            /\ \A i \in DOMAIN commands : commands[i].timer # t

\* The reload mode of a timer is the one that vTimerSetReloadMode gave it last:
\* a timer that was made a one-shot timer expires once (timers.h:1306-1308).
ReloadModeIsKept == \A t \in Timer : timer[t].allocated => timer[t].auto = mode[t]

\* The timers in true time.
Clock == INSTANCE TimerSpec WITH period <- [t \in Timer |-> timer[t].period]

\* What clients see is TimerSpec: no callback comes early, none is missed or
\* called twice, and periods do not drift, across wraps, late looks at the
\* clock and stale stamps.
ImplementsTimerSpec == Clock!Spec

\* A timer that is due gets its callback, and the next one when it is late for
\* that already, whatever other commands are sent, unless it is itself started
\* over and over again.
CalledBack(t) == daemon.timer = t /\ (ReloadTimer \/ ExpireOnce)
Restarted(t) == daemon.timer = t /\ (StartTimer \/ ChangePeriod)

DueTimerExpires ==
    \A t \in Timer :
        \/ []<>(left[t] = Off \/ left[t] > 0)
        \/ []<><<CalledBack(t) \/ Restarted(t)>>_vars

=============================================================================
