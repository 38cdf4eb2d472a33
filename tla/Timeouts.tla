------------------------------ MODULE Timeouts ------------------------------
(***************************************************************************)
(* The time-out protocol of tasks.c: a task notes the time in a TimeOut_t  *)
(* and from then on asks, whenever it happens to run, whether its wait is  *)
(* over.  Each answer that it is not moves the noted time up to now and    *)
(* takes the time passed off the wait.  Two history variables follow the   *)
(* true time, which no register of the program holds.                      *)
(***************************************************************************)
EXTENDS TickCount

CONSTANTS MaxSince      \* bound: the ticks between two questions, and past the end

ASSUME TimeoutsAssumption == MaxSince \in Nat

VARIABLES
    tick, overflows,    \* xTickCount and xNumOfOverflows
    entered, overflow,  \* the TimeOut_t
    ticks,              \* *pxTicksToWait
    answer,             \* of the last question, or "none"
    since,              \* history: the ticks since the TimeOut_t was last set
    left                \* history: the ticks until the wait should be over

timeoutVars == <<tick, overflows, entered, overflow, ticks, answer, since, left>>

TimeoutTypeOK ==
    /\ tick \in Tick
    /\ overflows \in 0 .. OverflowCount - 1
    /\ entered \in Tick
    /\ overflow \in 0 .. OverflowCount - 1
    /\ ticks \in Tick
    /\ answer \in {"none", "wait", "timeout"}
    /\ since \in Nat
    /\ left \in Int

TimeoutInit ==
    /\ tick \in Tick
    /\ overflows = 0
    /\ entered = tick
    /\ overflow = 0
    /\ ticks = 0
    /\ answer = "none"
    /\ since = 0
    /\ left = 0

NextTick == IF tick = MaxDelay THEN 0 ELSE tick + 1
NextOverflows ==
    IF tick # MaxDelay THEN overflows
    ELSE IF overflows = OverflowCount - 1 THEN 0 ELSE overflows + 1

\* xTaskIncrementTick
IncrementTick ==
    /\ since < MaxSince
    /\ left > -MaxSince
    /\ tick' = NextTick
    /\ overflows' = NextOverflows
    /\ since' = since + 1
    /\ left' = left - 1
    /\ UNCHANGED <<entered, overflow, ticks, answer>>

vTaskSetTimeOutState(n) ==
    /\ entered' = tick
    /\ overflow' = overflows
    /\ ticks' = n
    /\ answer' = "none"
    /\ since' = 0
    /\ left' = n
    /\ UNCHANGED <<tick, overflows>>

\* A wait of portMAX_DELAY is indefinite: it never times out.
Expired == ticks # MaxDelay /\ IsTimeOut(entered, overflow, ticks, tick, overflows)

xTaskCheckForTimeOut ==
    /\ \/ /\ Expired
          /\ answer' = "timeout"
          /\ ticks' = 0
          /\ UNCHANGED <<entered, overflow, since>>
       \/ /\ ~Expired
          /\ answer' = "wait"
          /\ \/ /\ ticks = MaxDelay
                /\ UNCHANGED <<ticks, entered, overflow, since>>
             \/ /\ ticks # MaxDelay
                /\ ticks' = ticks - Elapsed(entered, tick)
                /\ entered' = tick
                /\ overflow' = overflows
                /\ since' = 0
    /\ UNCHANGED <<tick, overflows, left>>

TimeoutNext ==
    \/ IncrementTick
    \/ \E n \in Tick : vTaskSetTimeOutState(n)
    \/ xTaskCheckForTimeOut

TimeoutSpec == TimeoutInit /\ [][TimeoutNext]_timeoutVars

-----------------------------------------------------------------------------
(* Properties.                                                             *)

Asked == xTaskCheckForTimeOut /\ ticks # MaxDelay

\* A wait is never cut short: xTaskCheckForTimeOut says that the time is up
\* only when it is, however often it was asked before, and across any number
\* of wraps of the tick count and of the count of its wraps.
NeverEarly == answer = "timeout" => left <= 0

\* Asked less than a wrap of the tick count after it was last asked, it says
\* that the time is up exactly when it is, and what is left is exact too.
ExactWithinAWrap ==
    [][Asked /\ since <= MaxDelay =>
           /\ answer' = "timeout" <=> since >= ticks
           /\ answer' = "wait" => ticks' = ticks - since]_timeoutVars

\* The inductive invariant: as long as a wrap has not passed, the two tick
\* counts tell how much time has, and no wrap is counted that was not made;
\* what is left is the wait less that time.  A wait that is over stays over.
ClockInv ==
    /\ since >= Elapsed(entered, tick)
    /\ since <= MaxDelay =>
           /\ since = Elapsed(entered, tick)
           /\ tick >= entered => overflows = overflow
    /\ ticks # MaxDelay /\ answer # "timeout" => left <= ticks - since
    /\ answer = "timeout" => ticks = 0

=============================================================================
