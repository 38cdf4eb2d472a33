------------------------------ MODULE MCServices ------------------------------
(* The services above the scheduler that need little of it, for TLC: timers    *)
(* and stream buffers.  They do not use each other: a behaviour picks one of   *)
(* the setups below and runs it, while the other service stays as it starts.   *)
EXTENDS Integers, Sequences

CONSTANTS t1, t2, NULL, Off, Writer, Reader, Torn

VARIABLES
    setup,                                                \* what runs
    tick, pended, suspended, current, overflow, timer, commands, command,
    lastTime, wait, daemon, since, late, left, mode,      \* Timers
    head, tail, storage, trigger, waiting, notify, call, stamp, wild   \* StreamBuffers

timers == <<tick, pended, suspended, current, overflow, timer, commands, command,
            lastTime, wait, daemon, since, late, left, mode>>
stream == <<head, tail, storage, trigger, waiting, notify, call, stamp, wild>>
vars == <<setup, timers, stream>>

Sent(ops, timer_s) == [op: ops, timer: timer_s, value: {0}]
Changes(t) == [op: {"CHANGE_PERIOD"}, timer: {t}, value: {3}]

\* One timer under every command, with the daemon up to a wrap late.
One == INSTANCE Timers
       WITH Timer <- {t1}, MaxDelay <- 3, OverflowCount <- 1, QueueLength <- 1,
            FromISR <- Changes(t1) \cup Sent({"STOP"}, {t1}),
            FromTask <- Sent({"START", "DELETE"}, {t1}),
            FirstPeriod <- [t \in {t1} |-> 1], AutoReload <- {t1}, ChangesMode <- {},
            MaxPended <- 1, MaxSince <- 3, MaxLate <- 2, call <- command

\* Two timers, one that reloads itself and one that does not, started by interrupts.
Both == INSTANCE Timers
        WITH Timer <- {t1, t2}, MaxDelay <- 3, OverflowCount <- 1, QueueLength <- 1,
             FromISR <- Sent({"START"}, {t1, t2}), FromTask <- {},
             FirstPeriod <- [t \in {t1, t2} |-> IF t = t1 THEN 2 ELSE 3],
             AutoReload <- {t1}, ChangesMode <- {t2},
             MaxPended <- 0, MaxSince <- 3, MaxLate <- 1, call <- command

\* A stream buffer between two tasks whose waits may time out, and resets.
Bytes == INSTANCE StreamBuffers
         WITH Kind <- "stream", xLength <- 3, Triggers <- {1, 2}, Base <- 3, Interrupts <- {},
              Waits <- {"ticks"}, MaxSend <- 2, MaxRead <- 1, Prompted <- {}, Resetters <- {Reader}

\* A message buffer between a task and an interrupt that reads.
Messages == INSTANCE StreamBuffers
            WITH Kind <- "message", xLength <- 8, Triggers <- {1}, Base <- 8, Interrupts <- {Reader},
                 Waits <- {"none", "ticks"}, MaxSend <- 2, MaxRead <- 2, Prompted <- {},
                 Resetters <- {}

\* A batching buffer between an interrupt that writes and a task.
Batch == INSTANCE StreamBuffers
         WITH Kind <- "batching", xLength <- 6, Triggers <- {3}, Base <- 6, Interrupts <- {Writer},
              Waits <- {"none", "forever"}, MaxSend <- 3, MaxRead <- 5, Prompted <- {Reader},
              Resetters <- {}

\* Two tasks that wait as long as it takes.
Patient == INSTANCE StreamBuffers
           WITH Kind <- "stream", xLength <- 4, Triggers <- {1}, Base <- 4, Interrupts <- {},
                Waits <- {"forever"}, MaxSend <- 3, MaxRead <- 2, Prompted <- {Writer, Reader},
                Resetters <- {}

ASSUME One!TimersAssumption /\ Both!TimersAssumption
ASSUME Bytes!StreamAssumption /\ Messages!StreamAssumption
ASSUME Batch!StreamAssumption /\ Patient!StreamAssumption

Init ==
    /\ setup \in {"one", "both", "bytes", "messages", "batch", "patient"}
    /\ IF setup = "both" THEN Both!Init ELSE One!Init
    /\ CASE setup = "messages" -> Messages!Init
         [] setup = "batch" -> Batch!Init
         [] setup = "patient" -> Patient!Init
         [] setup = "bytes" -> Bytes!Init
         [] OTHER -> Bytes!Init /\ trigger = 1

TimersNext ==
    /\ \/ setup = "one" /\ One!Next
       \/ setup = "both" /\ Both!Next
    /\ UNCHANGED <<setup, stream>>

StreamNext ==
    /\ \/ setup = "bytes" /\ Bytes!Next
       \/ setup = "messages" /\ Messages!Next
       \/ setup = "batch" /\ Batch!Next
       \/ setup = "patient" /\ Patient!Next
    /\ UNCHANGED <<setup, timers>>

Next == TimersNext \/ StreamNext

\* The fairness of Timers!FairSpec, and of StreamBuffers!FairSpec with the buffers
\* that are read again and again.
Tick == setup = "both" /\ Both!TickInterrupt /\ UNCHANGED <<setup, stream>>
Daemon == setup = "both" /\ Both!Daemon /\ UNCHANGED <<setup, stream>>
Proceed(s) ==
    /\ \/ setup = "batch" /\ Batch!Proceed(s)
       \/ setup = "patient" /\ Patient!Proceed(s)
    /\ UNCHANGED <<setup, timers>>
ReceiveAgain ==
    /\ \/ setup = "batch" /\ \E w \in {"none", "forever"} : Batch!xStreamBufferReceive(5, w)
       \/ setup = "patient" /\ Patient!xStreamBufferReceive(2, "forever")
    /\ UNCHANGED <<setup, timers>>

Spec ==
    /\ Init /\ [][Next]_vars
    /\ WF_vars(Tick \/ Proceed(Writer)) /\ WF_vars(Daemon \/ Proceed(Reader))
    /\ WF_vars(ReceiveAgain)

-----------------------------------------------------------------------------
(* Properties.                                                               *)

\* What clients see of the timers is TimerSpec: no callback comes early, none is
\* missed or called twice, and periods do not drift, across wraps of the tick
\* count, late looks at the clock and stale stamps.
ImplementsTimerSpec ==
    /\ setup = "one" => One!Clock!Init
    /\ [][setup = "one" => One!Clock!Next]_(One!Clock!vars)

\* The lists of the timers tell the true time, an active timer is in one list
\* once, a deleted one is forgotten, and the daemon wakes before a timer is due.
TimersAreSound ==
    /\ setup = "one" => /\ One!TypeOK /\ One!EpochAgrees /\ One!DaemonWakesInTime
                        /\ One!ActiveIsListed /\ One!DeletedTimerIsForgotten
    /\ setup = "both" => Both!EpochAgrees

\* A timer that is due gets its callback whatever other commands are sent, unless
\* it is started over and over again.
DueTimerExpires ==
    \A t \in {t1, t2} :
        \/ []<>(setup = "both" => left[t] = Off \/ left[t] > 0)
        \/ []<><<setup = "both" /\ (Both!CalledBack(t) \/ Both!Restarted(t))>>_vars

\* The reader gets the bytes of a stream buffer, or the messages of a message
\* buffer, as they were sent (StreamSpec): none is lost, doubled, reordered, made
\* up or cut, although neither side excludes the other from the ring.
ImplementsStreamSpec ==
    /\ setup = "bytes" => Bytes!Abstract!Init
    /\ setup = "messages" => Messages!Abstract!Init
    /\ setup = "batch" => Batch!Abstract!Init
    /\ [][setup = "bytes" => Bytes!Abstract!Next]_(Bytes!Abstract!vars)
    /\ [][setup = "messages" => Messages!Abstract!Next]_(Messages!Abstract!vars)
    /\ [][setup = "batch" => Batch!Abstract!Next]_(Batch!Abstract!vars)

\* A blocked side that could go on is about to be notified, and the two sides of
\* a buffer with a trigger level of one byte never wait for each other.
NoLostWakeup ==
    /\ setup = "bytes" => Bytes!TypeOK /\ Bytes!NoLostWakeup
    /\ setup = "batch" => Batch!NoLostWakeup
    /\ setup = "patient" => Patient!NeverBothBlocked /\ Patient!OnlyTasksAreNotified

\* What reaches the trigger level is read, and a writer that waits for space
\* returns.
DataIsReceived ==
    /\ []<>(/\ setup = "batch" => Batch!ReadOrTooLittle
            /\ setup = "patient" => Patient!ReadOrTooLittle)
    /\ []<>(setup = "patient" => Patient!At(Writer, "idle"))
=============================================================================
