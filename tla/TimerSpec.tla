------------------------------ MODULE TimerSpec ------------------------------
(***************************************************************************)
(* What software timers promise (freertos/source/timers.c), in true time:  *)
(* no tick count that wraps, no lists, no daemon.  A timer that runs has a *)
(* number of ticks left; when they are over it expires, some time, and one *)
(* that reloads itself is due again exactly a period after it was due.     *)
(***************************************************************************)
EXTENDS Integers

CONSTANTS
    Timer,      \* the timers
    MaxDelay,   \* the largest period
    MaxPended,  \* bound: ticks that come at once when the scheduler resumes
    Off         \* no time is left, nor over: the timer does not run

VARIABLES
    left,       \* [Timer -> ticks until it is due, negative when overdue, or Off]
    period      \* [Timer -> its period]

vars == <<left, period>>

Periods == 1 .. MaxDelay

TypeOK ==
    /\ left \in [Timer -> Int \cup {Off}]
    /\ period \in [Timer -> Periods]

Init ==
    /\ left = [t \in Timer |-> Off]
    /\ period \in [Timer -> Periods]

Elapse(n) ==
    /\ left' = [t \in Timer |-> IF left[t] = Off THEN Off ELSE left[t] - n]
    /\ period' = period

\* A timer is started by a command given so many ticks ago.
Start(t, age) ==
    /\ left' = [left EXCEPT ![t] = period[t] - age]
    /\ period' = period

\* Its new period starts when the daemon looks at the clock.
ChangePeriod(t, p, age) ==
    /\ left' = [left EXCEPT ![t] = p - age]
    /\ period' = [period EXCEPT ![t] = p]

Stop(t) ==
    /\ left' = [left EXCEPT ![t] = Off]
    /\ period' = period

\* The callback is called: never before the timer is due, once for each time it
\* is due.
ExpireOnce(t) ==
    /\ left[t] # Off
    /\ left[t] <= 0
    /\ left' = [left EXCEPT ![t] = Off]
    /\ period' = period

ExpireAndReload(t) ==
    /\ left[t] # Off
    /\ left[t] <= 0
    /\ left' = [left EXCEPT ![t] = @ + period[t]]
    /\ period' = period

\* xTimerCreate
Create(t) ==
    /\ left[t] = Off
    /\ left' = left
    /\ \E p \in Periods : period' = [period EXCEPT ![t] = p]

Next ==
    \/ \E n \in 1 .. MaxPended + 1 : Elapse(n)
    \/ \E t \in Timer :
          \/ Stop(t) \/ ExpireOnce(t) \/ ExpireAndReload(t) \/ Create(t)
          \/ \E age \in 0 .. MaxDelay :
                Start(t, age) \/ \E p \in Periods : ChangePeriod(t, p, age)

Spec == Init /\ [][Next]_vars

=============================================================================
