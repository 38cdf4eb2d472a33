----------------------------- MODULE TickCount -----------------------------
(***************************************************************************)
(* Arithmetic on the tick count of freertos/source/tasks.c, an unsigned    *)
(* TickType_t that wraps (16 bits on the Z180: every 256 seconds), and on  *)
(* the count of its wraps, xNumOfOverflows, a BaseType_t that wraps too.   *)
(***************************************************************************)
EXTENDS Integers

CONSTANTS
    MaxDelay,       \* portMAX_DELAY, the largest TickType_t
    OverflowCount   \* 2^w for the width w of xNumOfOverflows

ASSUME TickAssumption ==
    /\ MaxDelay \in Nat \ {0}
    /\ OverflowCount \in Nat \ {0}

Tick == 0 .. MaxDelay

\* Unsigned tick + n and to - from.
Later(tick, n) == IF tick + n > MaxDelay THEN tick + n - MaxDelay - 1 ELSE tick + n

Elapsed(from, to) == IF to >= from THEN to - from ELSE to + MaxDelay + 1 - from

\* Mutant of ShouldDelay: the wrapped tick counts are simply compared.
ShouldDelayUnwrapped(last, now, n) == Later(last, n) > now

\* xTaskDelayUntil: a task that last woke at last asks at now to wake n ticks
\* after last.
ShouldDelay(last, now, n) ==
    LET w == Later(last, n)
    IN  IF now < last THEN w < last /\ w > now ELSE w < last \/ w > now

\* Mutants of IsTimeOut: any wrap means that the time is up; up a tick late.
IsTimeOutAtWrap(entered, overflow, ticks, now, overflows) ==
    overflows # overflow \/ Elapsed(entered, now) >= ticks

IsTimeOutLate(entered, overflow, ticks, now, overflows) ==
    \/ overflows # overflow /\ now >= entered
    \/ Elapsed(entered, now) > ticks

\* xTaskCheckForTimeOut, once it is known that the wait is not indefinite: a
\* wait of so many ticks began at entered, after overflow wraps.
IsTimeOut(entered, overflow, ticks, now, overflows) ==
    \/ overflows # overflow /\ now >= entered
    \/ Elapsed(entered, now) >= ticks

=============================================================================
