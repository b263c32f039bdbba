---------------------------------- MODULE Rtc ----------------------------------
(***************************************************************************)
(* The real-time clock of the node, src/hw_rtc.c.                          *)
(*                                                                         *)
(* The hardware counts on its own: a tick may come between any two reads   *)
(* of its registers, which are read directly and not through the shadow    *)
(* registers that would hold them still (HW_RTC_SetConfig).                *)
(* HW_RTC_GetCalendarValue therefore reads until two readings of the       *)
(* sub-seconds agree; it is modelled one register at a time.  The other    *)
(* operations use a whole reading at once: what that leaves out is by how   *)
(* much a reading may be wrong, ReadUpToCarry.                              *)
(*                                                                         *)
(* ticks, since, left, age, instant and round are history: no guard of the *)
(* code reads them.                                                        *)
(***************************************************************************)
EXTENDS Calendar

CONSTANTS
  TickMod,           (* 2^32: ticks are kept in 32 bits                      *)
  MSEC_NUMBER,       (* milliseconds of a second                             *)
  MIN_ALARM_DELAY,
  Starts,            (* the calendars the behaviours start from: a node runs
                        for years                                            *)
  Timeouts,          (* of alarms, in ticks after the context                *)
  MaxRound,          (* bound: ticks of one round of the reading loop, from
                        the sub-seconds before it to its last register: less
                        than a second, interrupts included                   *)
  Horizon,           (* bound: ticks of a behaviour, which ends before 2100:
                        a year has two digits                                *)
  None               (* no alarm, no stamp, no reading                       *)

ASSUME RtcAssumption ==
  /\ TickMod \in Nat \ {0}
  /\ TickMod % TicksPerSecond = 0
  /\ MSEC_NUMBER \in 1..TicksPerSecond
  /\ MIN_ALARM_DELAY \in Nat \ {0}
  /\ Starts \subseteq Calendars
  /\ Timeouts \subseteq Nat
  /\ MaxRound \in 0..PREDIV_S
  /\ Horizon \in Nat
  /\ \A c \in Starts : CalendarValue(c) + Horizon < 36525 * TicksPerDay

VARIABLES
  cal,        (* the registers DR, TR and SSR                                *)
  pc,         (* the register HW_RTC_GetCalendarValue reads next             *)
  first_read, (* sub-seconds of the round before                             *)
  date,       (* year, month and date as read                                *)
  sub,        (* sub-seconds as read                                         *)
  instant,    (* the calendar when they were                                 *)
  round,      (* ticks since first_read was read                             *)
  context,    (* RtcTimerContext, as a calendar                              *)
  alarm,      (* the fields of alarm A, or None                              *)
  stamp,      (* what TimerGetCurrentTime returned, in milliseconds, or None *)
  ticks,      (* since the start of the behaviour                            *)
  since,      (* since the context was set                                   *)
  left,       (* until the time the alarm was asked for                      *)
  age         (* of stamp                                                    *)

readVars == <<pc, first_read, date, sub, instant, round>>
alarmVars == <<context, alarm, since, left>>
stampVars == <<stamp, age>>
vars == <<cal, ticks, readVars, alarmVars, stampVars>>

(* A tick of the hardware.                                                   *)
Tick ==
  /\ ticks < Horizon
  /\ pc # "idle" => round < MaxRound
  /\ cal' = NextTick(cal)
  /\ ticks' = ticks + 1
  /\ round' = IF pc = "idle" THEN 0 ELSE round + 1
  /\ since' = since + 1
  /\ left' = IF alarm = None THEN 0 ELSE left - 1
  /\ age' = IF stamp = None THEN 0 ELSE age + 1
  /\ UNCHANGED <<pc, first_read, date, sub, instant, context, alarm, stamp>>

(***************************************************************************)
(* HW_RTC_GetCalendarValue                                                 *)
(***************************************************************************)

(* The first HAL_RTC_GetTime: its hours, minutes and seconds are read again. *)
ReadFirst ==
  /\ pc = "idle"
  /\ pc' = "date"
  /\ first_read' = cal.SubSeconds
  /\ round' = 0
  /\ UNCHANGED <<date, sub, instant>>

(* HAL_RTC_GetDate.                                                          *)
ReadDate ==
  /\ pc = "date"
  /\ pc' = "sub"
  /\ date' = [f \in {"Year", "Month", "Date"} |-> cal[f]]
  /\ UNCHANGED <<first_read, sub, instant, round>>

(* HAL_RTC_GetTime reads SSR first...                                        *)
ReadSubSeconds ==
  /\ pc = "sub"
  /\ pc' = "time"
  /\ sub' = cal.SubSeconds
  /\ instant' = cal
  /\ UNCHANGED <<first_read, date, round>>

(* ...and TR then: the round is repeated unless its sub-seconds are those of *)
(* the round before.                                                         *)
ReadTime ==
  /\ pc = "time"
  /\ IF sub = first_read
     THEN pc' = "idle" /\ UNCHANGED <<first_read, round>>
     ELSE /\ pc' = "date"
          /\ first_read' = sub
          /\ round' = CalendarValue(cal) - CalendarValue(instant)
  /\ UNCHANGED <<date, sub, instant>>

(* What a reading that ends with the present TR returns.                     *)
ValueRead ==
  CalendarValue([cal EXCEPT !.Year = date.Year, !.Month = date.Month, !.Date = date.Date,
                            !.SubSeconds = sub])

ReadCalendar ==
  /\ ReadFirst \/ ReadDate \/ ReadSubSeconds \/ ReadTime
  /\ UNCHANGED <<cal, ticks, alarmVars, stampVars>>

(***************************************************************************)
(* The timer context and the alarm                                         *)
(***************************************************************************)

(* HW_RTC_GetTimerValue.                                                     *)
TimerValue == CalendarValue(cal) % TickMod

(* HW_RTC_GetTimerElapsedTime.                                               *)
TimerElapsedTime == (CalendarValue(cal) - CalendarValue(context)) % TickMod

SetTimerContext ==
  /\ context' = cal
  /\ since' = 0
  /\ UNCHANGED <<alarm, left>>

(* HW_RTC_StartWakeUpAlarm, as TimerSetTimeout calls it: MIN_ALARM_DELAY     *)
(* ticks ahead or more.                                                      *)
StartWakeUpAlarm(timeout) ==
  /\ timeout >= TimerElapsedTime + MIN_ALARM_DELAY
  /\ alarm' = AlarmAt(context, timeout)
  /\ left' = timeout - since
  /\ UNCHANGED <<context, since>>

StopAlarm ==
  /\ alarm' = None
  /\ left' = 0
  /\ UNCHANGED <<context, since>>

UseAlarm ==
  /\ SetTimerContext \/ StopAlarm \/ \E timeout \in Timeouts : StartWakeUpAlarm(timeout)
  /\ UNCHANGED <<cal, ticks, readVars, stampVars>>

(***************************************************************************)
(* Milliseconds                                                            *)
(***************************************************************************)

(* HW_RTC_ms2Tick: 128 ticks are 125 ms.                                     *)
Ms2Tick(ms) == ((ms * TicksPerSecond) \div MSEC_NUMBER) % TickMod

(* Fault: the sub-seconds are rounded to the next millisecond.               *)
Tick2msUp(tick) ==
  (tick \div TicksPerSecond) * MSEC_NUMBER
    + ((tick % TicksPerSecond) * MSEC_NUMBER + PREDIV_S) \div TicksPerSecond

(* HW_RTC_Tick2ms.                                                           *)
Tick2ms(tick) ==
  (tick \div TicksPerSecond) * MSEC_NUMBER
    + ((tick % TicksPerSecond) * MSEC_NUMBER) \div TicksPerSecond

(* TimerGetElapsedTime.                                                      *)
GetElapsedTime(past) == Tick2ms((CalendarValue(cal) - Ms2Tick(past)) % TickMod)

(* TimerGetCurrentTime, kept by the caller.                                  *)
GetCurrentTime ==
  /\ stamp' = Tick2ms(TimerValue)
  /\ age' = 0
  /\ UNCHANGED <<cal, ticks, readVars, alarmVars>>

(***************************************************************************)
(* The specification                                                       *)
(***************************************************************************)

Init ==
  /\ cal \in Starts
  /\ pc = "idle"
  /\ first_read = cal.SubSeconds
  /\ date = [f \in {"Year", "Month", "Date"} |-> cal[f]]
  /\ sub = cal.SubSeconds
  /\ instant = cal
  /\ round = 0
  /\ context = cal
  /\ alarm = None
  /\ stamp = None
  /\ ticks = 0
  /\ since = 0
  /\ left = 0
  /\ age = 0

Next == Tick \/ ReadCalendar \/ UseAlarm \/ GetCurrentTime

Spec == Init /\ [][Next]_vars

(***************************************************************************)
(* Properties                                                              *)
(***************************************************************************)

(* "make sure it is correct due to asynchronus nature of RTC"               *)
(* (hw_rtc.c:583): a reading of the calendar is a time that passed in its    *)
(* last round.                                                               *)
ReadIsAccurate ==
  [][pc = "time" /\ pc' = "idle" =>
       ValueRead \in (CalendarValue(cal) - round)..CalendarValue(cal)]_vars

(* By how much it may be wrong: it is the time at which the sub-seconds were *)
(* read that were read twice.  But TR is read after them and never checked:  *)
(* when the second ends in between, the reading is a second ahead, and when  *)
(* the day does, a second ahead and a day behind.                            *)
ReadUpToCarry ==
  [][pc = "time" /\ pc' = "idle" =>
       LET secondEnded == SecondOfDay(cal) # SecondOfDay(instant)
           dayEnded == cal.Date # instant.Date
       IN ValueRead = CalendarValue(instant)
                        + (IF secondEnded THEN TicksPerSecond ELSE 0)
                        - (IF dayEnded THEN TicksPerDay ELSE 0)]_vars

(* HW_RTC_GetTimerElapsedTime counts every tick since the context was set    *)
(* once, over the ends of days, months and leap years, and over the wrap of  *)
(* the 32-bit value.                                                         *)
ElapsedCountsTicks == TimerElapsedTime = since % TickMod

(* The alarm is "in RtcTimerContext.Rtc_Time + timeoutValue"                 *)
(* (hw_rtc.c:459): the fields match the calendar then, not before, and not   *)
(* again for 28 days, whatever field overflows.                              *)
AlarmOnTime ==
  alarm # None /\ left > 0 - (28 * TicksPerDay) => (Matches(alarm, cal) <=> left = 0)

(* TimerGetElapsedTime of a time stamp, over the "intentional wrap around"   *)
(* (timeServer.c:341): up to a second before the ticks have gone round once, *)
(* the true age in whole milliseconds, or up to two more as the stamp was    *)
(* rounded down twice; never less.                                           *)
StampAgeIsTrue ==
  stamp # None /\ age + TicksPerSecond <= TickMod =>
    GetElapsedTime(stamp) - Tick2ms(age) \in 0..2
===============================================================================
