------------------------------- MODULE Calendar -------------------------------
(***************************************************************************)
(* Calendar arithmetic of src/hw_rtc.c: the days since 2000-01-01 of a     *)
(* date of the RTC, the ticks since then of its calendar, and the fields   *)
(* of an alarm that is some ticks after a calendar.                        *)
(*                                                                         *)
(* A calendar is what the registers DR, TR and SSR of the RTC show.  The   *)
(* lengths of months and years are the code's; those of a day, an hour, a  *)
(* minute and a second are constants, so that small ones can be checked.   *)
(***************************************************************************)
EXTENDS Integers, Sequences

CONSTANTS
  PREDIV_S,            (* ticks of a second, minus one                       *)
  SECONDS_IN_1MINUTE,
  MINUTES_IN_1HOUR,
  HOURS_IN_1DAY

ASSUME CalendarAssumption ==
  /\ PREDIV_S \in Nat
  /\ SECONDS_IN_1MINUTE \in Nat \ {0, 1}
  /\ {MINUTES_IN_1HOUR, HOURS_IN_1DAY} \subseteq Nat \ {0}

TicksPerSecond == PREDIV_S + 1
SECONDS_IN_1HOUR == SECONDS_IN_1MINUTE * MINUTES_IN_1HOUR
SECONDS_IN_1DAY == SECONDS_IN_1HOUR * HOURS_IN_1DAY
TicksPerDay == SECONDS_IN_1DAY * TicksPerSecond

(* A year of two digits; 2000 is a leap year.                                *)
IsLeap(year) == year % 4 = 0

(* DaysInMonth and DaysInMonthLeapYear.                                      *)
DaysInMonth(year, month) ==
  IF month = 2 /\ IsLeap(year) THEN 29
  ELSE <<31, 28, 31, 30, 31, 30, 31, 31, 30, 31, 30, 31>>[month]

Fields ==
  [Year : 0..99, Month : 1..12, Date : 1..31, Hours : 0..(HOURS_IN_1DAY - 1),
   Minutes : 0..(MINUTES_IN_1HOUR - 1), Seconds : 0..(SECONDS_IN_1MINUTE - 1),
   SubSeconds : 0..PREDIV_S]

Calendars == {c \in Fields : c.Date <= DaysInMonth(c.Year, c.Month)}

(***************************************************************************)
(* The hardware: SubSeconds counts down, every other field up.             *)
(***************************************************************************)

NextDay(c) ==
  IF c.Date < DaysInMonth(c.Year, c.Month) THEN [c EXCEPT !.Date = @ + 1]
  ELSE IF c.Month < 12 THEN [c EXCEPT !.Date = 1, !.Month = @ + 1]
  ELSE [c EXCEPT !.Date = 1, !.Month = 1, !.Year = (@ + 1) % 100]

NextHour(c) ==
  IF c.Hours < HOURS_IN_1DAY - 1 THEN [c EXCEPT !.Hours = @ + 1]
  ELSE NextDay([c EXCEPT !.Hours = 0])

NextMinute(c) ==
  IF c.Minutes < MINUTES_IN_1HOUR - 1 THEN [c EXCEPT !.Minutes = @ + 1]
  ELSE NextHour([c EXCEPT !.Minutes = 0])

NextSecond(c) ==
  IF c.Seconds < SECONDS_IN_1MINUTE - 1 THEN [c EXCEPT !.Seconds = @ + 1]
  ELSE NextMinute([c EXCEPT !.Seconds = 0])

NextTick(c) ==
  IF c.SubSeconds > 0 THEN [c EXCEPT !.SubSeconds = @ - 1]
  ELSE NextSecond([c EXCEPT !.SubSeconds = PREDIV_S])

(***************************************************************************)
(* HW_RTC_GetCalendarValue, once the registers are read                    *)
(***************************************************************************)

DIVC(x, n) == (x + n - 1) \div n

(* Two bits for each month, the first one in the lowest bits: 0x99AAA0 and   *)
(* 0x445550.                                                                 *)
DAYS_IN_MONTH_CORRECTION_NORM == 10070688
DAYS_IN_MONTH_CORRECTION_LEAP == 4478288

MonthCorrection(year, month) ==
  ((IF IsLeap(year) THEN DAYS_IN_MONTH_CORRECTION_LEAP ELSE DAYS_IN_MONTH_CORRECTION_NORM)
    \div 4^(month - 1)) % 4

(* Fault: the quarters of days of the years are rounded down.                *)
DaysRoundedDown(c) ==
  (1461 * c.Year) \div 4
    + (DIVC((c.Month - 1) * 61, 2) - MonthCorrection(c.Year, c.Month))
    + c.Date - 1

(* Days since 2000-01-01: a year has 365.25 of them, rounded up, and a       *)
(* month 30.5, corrected.                                                    *)
Days(c) ==
  DIVC(1461 * c.Year, 4)
    + (DIVC((c.Month - 1) * 61, 2) - MonthCorrection(c.Year, c.Month))
    + c.Date - 1

SecondOfDay(c) ==
  c.Seconds + c.Minutes * SECONDS_IN_1MINUTE + c.Hours * SECONDS_IN_1HOUR

CalendarValue(c) ==
  (Days(c) * SECONDS_IN_1DAY + SecondOfDay(c)) * TicksPerSecond + (PREDIV_S - c.SubSeconds)

(***************************************************************************)
(* HW_RTC_StartWakeUpAlarm: the alarm `timeout' ticks after the calendar c *)
(***************************************************************************)

(* Sub-seconds, seconds, minutes and hours are added field by field, what    *)
(* is too much of each is carried into the next one.                         *)
AlarmTicks(c, timeout) == (PREDIV_S - c.SubSeconds) + (timeout % TicksPerSecond)

AlarmSeconds(c, timeout) ==
  c.Seconds + ((timeout \div TicksPerSecond) % SECONDS_IN_1MINUTE)
    + AlarmTicks(c, timeout) \div TicksPerSecond

AlarmMinutes(c, timeout) ==
  c.Minutes + ((timeout \div TicksPerSecond) % SECONDS_IN_1HOUR) \div SECONDS_IN_1MINUTE
    + AlarmSeconds(c, timeout) \div SECONDS_IN_1MINUTE

AlarmHours(c, timeout) ==
  c.Hours + ((timeout \div TicksPerSecond) % SECONDS_IN_1DAY) \div SECONDS_IN_1HOUR
    + AlarmMinutes(c, timeout) \div MINUTES_IN_1HOUR

AlarmDays(c, timeout) ==
  c.Date + (timeout \div TicksPerSecond) \div SECONDS_IN_1DAY
    + AlarmHours(c, timeout) \div HOURS_IN_1DAY

(* Fault: every February has 28 days.                                        *)
AlarmDateNoLeap(c, timeout) ==
  LET length == DaysInMonth(1, c.Month)
  IN IF AlarmDays(c, timeout) > length THEN AlarmDays(c, timeout) % length
     ELSE AlarmDays(c, timeout)

(* A day past the end of the month is one of the next month.                 *)
AlarmDate(c, timeout) ==
  LET length == DaysInMonth(c.Year, c.Month)
  IN IF AlarmDays(c, timeout) > length THEN AlarmDays(c, timeout) % length
     ELSE AlarmDays(c, timeout)

AlarmAt(c, timeout) ==
  [Date       |-> AlarmDate(c, timeout),
   Hours      |-> AlarmHours(c, timeout) % HOURS_IN_1DAY,
   Minutes    |-> AlarmMinutes(c, timeout) % MINUTES_IN_1HOUR,
   Seconds    |-> AlarmSeconds(c, timeout) % SECONDS_IN_1MINUTE,
   SubSeconds |-> PREDIV_S - (AlarmTicks(c, timeout) % TicksPerSecond)]

(* RTC_ALARMMASK_NONE: the hardware compares every field of the alarm, and   *)
(* neither month nor year.                                                   *)
Matches(alarm, c) == \A field \in DOMAIN alarm : alarm[field] = c[field]
===============================================================================
