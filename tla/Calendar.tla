------------------------------- MODULE Calendar -------------------------------
(****************************************************************************)
(* The calendar functions of the time library: gmtime_r and mk_gmtime, the  *)
(* local time, leap years and months, the numbers of weeks, and the stamps  *)
(* of FatFs.  They are pure; the state is a day that goes by.               *)
(*                                                                          *)
(* A time_t counts seconds modulo 2^32 from January 1, 2000.  Here it is    *)
(* the pair [day, sec] of its quotient and remainder by ONE_DAY.            *)
(****************************************************************************)
EXTENDS Integers

CONSTANTS
    Last,       \* the last day: 49710 is the day on which time_t ends
    Seconds,    \* times of the day that are looked at
    Zones,      \* UTC offsets
    MaxMonth    \* the highest month that mk_gmtime is given

ONE_DAY == 86400
ONE_HOUR == 3600
Word == 65536

CalendarAssumption ==
    /\ Last \in 0 .. 49710 /\ Seconds \subseteq 0 .. ONE_DAY - 1
    /\ Zones \subseteq -ONE_DAY .. ONE_DAY /\ MaxMonth \in 0 .. 255

VARIABLES
    day,    \* days since January 1, 2000
    today   \* what gmtime_r says of its midnight

vars == <<day, today>>

\* 2^32 seconds are 49710 days and 23296 seconds.
WrapDay == 49710
WrapSec == 23296

\* The time_t of so many days and seconds, of which the seconds may be negative
\* or more than a day.
time_t(d, s) ==
    LET dd == d + (s \div ONE_DAY)
        ss == s % ONE_DAY
        Carry(x, y) == [day |-> x + (y \div ONE_DAY), sec |-> y % ONE_DAY]
    IN CASE dd < 0 -> Carry(dd + WrapDay, ss + WrapSec)
         [] dd > WrapDay \/ (dd = WrapDay /\ ss >= WrapSec) -> Carry(dd - WrapDay, ss - WrapSec)
         [] OTHER -> [day |-> dd, sec |-> ss]

--------------------------------------------------------------------------

is_leap_year(year) ==
    IF year % 4 = 0 /\ (year % 100 # 0 \/ (year \div 100) % 4 = 0) THEN 1 ELSE 0

month_length(year, month) ==
    IF month = 2 THEN 28 + is_leap_year(year)
    ELSE 30 + ((IF month > 7 THEN month + 1 ELSE month) % 2)

\* Month and day of the month of a day of the year that is past February.
FromMarch(d) == [mon |-> 2 + (d \div 153) * 5 + ((d % 153) \div 61) * 2 + (((d % 153) % 61) \div 31),
                 mday |-> (((d % 153) % 61) % 31) + 1]
UpToFebruary(d) == [mon |-> d \div 31, mday |-> (d % 31) + 1]

\* Mutant of YearOf: the missing leap day of 2100 is forgotten.
YearOfEvery4(days) ==
    LET in4 == (days % 36525) % 1461
        years == (days \div 36525) * 100 + ((days % 36525) \div 1461) * 4
        leap == IF years = 100 THEN 0 ELSE 1
    IN IF in4 > 364 + leap
       THEN [years |-> years + ((in4 - leap) \div 365), yday |-> (in4 - leap) % 365, leap |-> 0]
       ELSE [years |-> years, yday |-> in4, leap |-> leap]

\* The years since 2000, the day of the year, and whether the year is leap, of
\* a number of days: 100 years, then 4, then single ones.  2100 is not leap.
YearOf(days) ==
    LET years == (days \div 36525) * 100 + ((days % 36525) \div 1461) * 4
        in4 == ((days % 36525) % 1461) + (IF years > 100 THEN 1 ELSE 0)
        leap == IF years = 100 THEN 0 ELSE 1
    IN IF in4 > 364 + leap
       THEN [years |-> years + ((in4 - leap) \div 365), yday |-> (in4 - leap) % 365, leap |-> 0]
       ELSE [years |-> years, yday |-> in4, leap |-> leap]

\* The struct tm of a time_t.
gmtime_r(timer) ==
    LET y == YearOf(timer.day)
        m == IF y.yday < 59 + y.leap THEN UpToFebruary(y.yday) ELSE FromMarch(y.yday - 59 - y.leap)
    IN [tm_year |-> 100 + y.years, tm_yday |-> y.yday, tm_mon |-> m.mon, tm_mday |-> m.mday,
        tm_wday |-> (timer.day + 6) % 7, tm_hour |-> timer.sec \div ONE_HOUR,
        tm_min |-> (timer.sec \div 60) % 60, tm_sec |-> timer.sec % 60, tm_isdst |-> 0]

\* Division in C.
CDiv(a, b) == IF a < 0 THEN -((-a) \div b) ELSE a \div b

\* Leap days before a year, counted from 2000.
LeapsBefore(n) == IF n = 0 THEN 0 ELSE CDiv(n - 1, 4) - CDiv(n - 1, 100) + 1

\* The day of the year of a month and a day of the month; only months up to 11
\* are understood.
DayOfYear(tm) ==
    LET n == (tm.tm_mon - 2) % 5
    IN tm.tm_mday - 1 +
       (IF tm.tm_mon < 2 THEN (IF tm.tm_mon = 0 THEN 0 ELSE 31)
        ELSE 59 + is_leap_year(tm.tm_year + 1900) + (IF tm.tm_mon - 2 > 4 THEN 153 ELSE 0)
             + (n \div 2) * 61 + (IF n % 2 = 1 THEN 31 ELSE 0))

mk_gmtime(tm) ==
    LET n == tm.tm_year - 100
    IN time_t(365 * n + LeapsBefore(n) + DayOfYear(tm),
              tm.tm_hour * ONE_HOUR + tm.tm_min * 60 + tm.tm_sec)

--------------------------------------------------------------------------
(* Local time.  A rule for daylight saving says of a time_t and an offset   *)
(* by how many seconds the clock is advanced.                               *)

NoRule == [set |-> FALSE]

\* The functions that set_dst may be given are the application's: here one of
\* them advances the clock by an hour from April to September.
Summer(timer, utc_offset) ==
    IF gmtime_r(time_t(timer.day, timer.sec + utc_offset)).tm_mon \in 3 .. 8 THEN ONE_HOUR ELSE 0
SummerRule == [set |-> TRUE]
dst_ptr(rule, timer, utc_offset) == IF rule.set THEN Summer(timer, utc_offset) ELSE -1

localtime_r(timer, utc_offset, rule) ==
    LET dst == dst_ptr(rule, timer, utc_offset)
        lt == time_t(timer.day, timer.sec + utc_offset + (IF dst > 0 THEN dst ELSE 0))
    IN [gmtime_r(lt) EXCEPT !.tm_isdst = dst]

\* Mutant of mktime: daylight saving is not taken back.
mktimeStandard(tm, utc_offset, rule) ==
    LET gmt == mk_gmtime(tm) IN time_t(gmt.day, gmt.sec - utc_offset)

\* The time_t that mktime returns; it normalises the struct with localtime_r.
mktime(tm, utc_offset, rule) ==
    LET gmt == mk_gmtime(tm)
        isdst == IF tm.tm_isdst < 0 /\ rule.set THEN dst_ptr(rule, gmt, utc_offset) ELSE tm.tm_isdst
    IN time_t(gmt.day, gmt.sec - (IF isdst > 0 THEN isdst ELSE 0) - utc_offset)

--------------------------------------------------------------------------
(* Weeks.                                                                   *)

week_of_year(tm, base) ==
    LET first == (7 + tm.tm_yday - tm.tm_wday + base) % 7
        n == tm.tm_yday - first
    IN IF n < 0 THEN 0 ELSE (n \div 7) + 1

week_of_month(tm, base) ==
    LET first == (7 + tm.tm_mday - 1 - tm.tm_wday + base) % 7
        n == tm.tm_mday - 1 - first
    IN IF n < 0 THEN 0 ELSE (n \div 7) + 1

\* The day of the week of iso_week_date_r, Monday = 1: in 16 bits.
IsoDay(y, yday) ==
    LET years == (y - 2000) % Word
        leaps == IF years = 0 THEN 0
                 ELSE 1 + (years \div 4) - is_leap_year(y) - (IF years > 100 THEN 1 ELSE 0)
        wday == ((((365 * years) % Word) + yday + leaps + 6) % Word) % 7
    IN IF wday = 0 THEN 7 ELSE wday

\* The week before it is known to lie in the year: 53 may belong to the next.
Tentative(y, yday) ==
    LET wday == IsoDay(y, yday)
        week == (yday + 11 - wday) \div 7
    IN IF week = 53 /\ yday - (wday - 1) + 3 > 364 + is_leap_year(y)
       THEN [year |-> y + 1, week |-> 1, day |-> wday]
       ELSE [year |-> y, week |-> week, day |-> wday]

\* The first days of a year may belong to the last week of the year before.
iso_week_date_r(y, yday) ==
    LET iso == Tentative(y, yday)
    IN IF iso.week = 0 THEN [Tentative(y - 1, 364 + is_leap_year(y - 1)) EXCEPT !.day = iso.day]
       ELSE iso

--------------------------------------------------------------------------
(* Stamps of FatFs: fields of 7, 4, 5, 5, 6 and 5 bits.                     *)

system_fatfs(tm) ==
    [year |-> (tm.tm_year - 80) % 128, month |-> tm.tm_mon + 1, day |-> tm.tm_mday,
     hour |-> tm.tm_hour, minute |-> tm.tm_min, twosec |-> tm.tm_sec \div 2]

\* tm_isdst is what the caller's struct holds.
FromFat(fat, isdst) ==
    [tm_year |-> fat.year + 80, tm_mon |-> fat.month - 1, tm_mday |-> fat.day, tm_hour |-> fat.hour,
     tm_min |-> fat.minute, tm_sec |-> 2 * fat.twosec, tm_isdst |-> isdst]

fatfs_system(fat, isdst, utc_offset, rule) == mktime(FromFat(fat, isdst), utc_offset, rule)

--------------------------------------------------------------------------
Midnight(d) == gmtime_r([day |-> d, sec |-> 0])

Init == day = 0 /\ today = Midnight(0)
Next == day < Last /\ day' = day + 1 /\ today' = Midnight(day + 1)
Spec == Init /\ [][Next]_vars

Stamps == {t \in [day : {day}, sec : Seconds] : t.day < WrapDay \/ t.sec < WrapSec}

--------------------------------------------------------------------------
(* Properties.                                                             *)

Spec2000 == INSTANCE CalendarSpec
            WITH year <- today.tm_year + 1900, mon <- today.tm_mon, mday <- today.tm_mday,
                 yday <- today.tm_yday, wday <- today.tm_wday

\* The dates of gmtime_r are those of the calendar, until time_t ends.
ImplementsCalendar == Spec2000!Spec

\* The fields are in the ranges that time.h gives for them.
TypeOK ==
    \A t \in Stamps : LET tm == gmtime_r(t) IN
        /\ tm.tm_sec \in 0 .. 59 /\ tm.tm_min \in 0 .. 59 /\ tm.tm_hour \in 0 .. 23
        /\ tm.tm_mday \in 1 .. 31 /\ tm.tm_mon \in 0 .. 11
        /\ tm.tm_wday \in 0 .. 6 /\ tm.tm_yday \in 0 .. 365

\* mk_gmtime takes back what gmtime_r did.
GmtimeReturns == \A t \in Stamps : mk_gmtime(gmtime_r(t)) = t

\* mktime takes back what localtime_r did, in every zone, with daylight saving
\* and without, across the ends of time_t and of daylight saving.
LocaltimeReturns ==
    \A t \in Stamps, z \in Zones, rule \in {NoRule, SummerRule} :
        mktime(localtime_r(t, z, rule), z, rule) = t

\* A month ends on the day that month_length says.
MonthsEndInTime ==
    [][(today.tm_mon # today'.tm_mon) =
       (today.tm_mday = month_length(today.tm_year + 1900, today.tm_mon + 1))]_vars

\* A year is leap when it has a day 365.
LeapYearsAreLonger ==
    [][today.tm_year # today'.tm_year =>
          today.tm_yday = 364 + is_leap_year(today.tm_year + 1900)]_vars

Bases == 0 .. 6

\* The week of the year is the number of days so far on which a week starts,
\* and so is the week of the month.
WeeksAreCounted ==
    [][\A base \in Bases :
          LET starts == IF today'.tm_wday = base THEN 1 ELSE 0 IN
          /\ week_of_year(today', base) =
                (IF today'.tm_yday = 0 THEN 0 ELSE week_of_year(today, base)) + starts
          /\ week_of_month(today', base) =
                (IF today'.tm_mday = 1 THEN 0 ELSE week_of_month(today, base)) + starts]_vars

\* The ISO week of a day is that of its Thursday, counted in the Thursday's year.
IsoReference ==
    LET wday == IF today.tm_wday = 0 THEN 7 ELSE today.tm_wday
        thursday == day - (wday - 1) + 3
        at == IF thursday < 0 THEN [year |-> 1999, yday |-> 365 + thursday]
              ELSE [year |-> 2000 + YearOf(thursday).years, yday |-> YearOf(thursday).yday]
    IN [year |-> at.year, week |-> (at.yday \div 7) + 1, day |-> wday]

IsoIsRight == iso_week_date_r(today.tm_year + 1900, today.tm_yday) = IsoReference

\* iso_week_date_r gives the week of ISO 8601.
IsoWeekIsRight == IsoIsRight

\* The same of every day but the first two.
IsoWeekIsRightSince == day > 1 => IsoIsRight

\* The same of every day but the first two, and those of the year 2100 and of
\* the start of 2101 that its last week may hold.
IsoWeekIsRightElsewhere == day \in 2 .. 36524 \/ day > 36892 => IsoIsRight

\* A FAT stamp holds the time to two seconds, for the years it can tell.
FatStampReturns ==
    today.tm_year + 1900 < 2108 =>
        \A t \in Stamps : fatfs_system(system_fatfs(gmtime_r(t)), 0, 0, NoRule)
                          = time_t(t.day, t.sec - (t.sec % 2))

\* week_of_year is at most 52.
WeekOfYearInRange == \A base \in Bases : week_of_year(today, base) \in 0 .. 52

\* tm_year counts years since 2000.
YearsSince2000 == today.tm_year = YearOf(day).years

\* mk_gmtime takes months past December for those of the next year.
MonthsCarry ==
    \A m \in 12 .. MaxMonth :
        mk_gmtime([today EXCEPT !.tm_mon = m, !.tm_mday = 1]) =
        mk_gmtime([today EXCEPT !.tm_mon = m % 12, !.tm_mday = 1, !.tm_year = @ + (m \div 12)])
=============================================================================
