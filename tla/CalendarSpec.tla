----------------------------- MODULE CalendarSpec -----------------------------
(* The Gregorian calendar from January 1, 2000, a Saturday, day by day.      *)
EXTENDS Integers

VARIABLES
    year,  \* 2000 is 2000
    mon,   \* months since January
    mday,  \* day of the month, from 1
    yday,  \* days since January 1
    wday   \* days since Sunday

vars == <<year, mon, mday, yday, wday>>

Leap(y) == y % 4 = 0 /\ (y % 100 # 0 \/ y % 400 = 0)
Length(y, m) == CASE m = 1 -> IF Leap(y) THEN 29 ELSE 28
                  [] m \in {3, 5, 8, 10} -> 30
                  [] OTHER -> 31

Init == year = 2000 /\ mon = 0 /\ mday = 1 /\ yday = 0 /\ wday = 6

NextDay ==
    /\ wday' = (wday + 1) % 7
    /\ \/ /\ mday < Length(year, mon)
          /\ mday' = mday + 1 /\ yday' = yday + 1
          /\ UNCHANGED <<year, mon>>
       \/ /\ mday = Length(year, mon) /\ mon < 11
          /\ mday' = 1 /\ mon' = mon + 1 /\ yday' = yday + 1
          /\ UNCHANGED year
       \/ /\ mday = Length(year, mon) /\ mon = 11
          /\ mday' = 1 /\ mon' = 0 /\ yday' = 0 /\ year' = year + 1

Spec == Init /\ [][NextDay]_vars
=============================================================================
