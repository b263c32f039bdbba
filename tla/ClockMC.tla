-------------------------------- MODULE ClockMC --------------------------------
(***************************************************************************)
(* The clock for TLC: small days, and calendars shortly before the ends of *)
(* months that differ.  The users of the clock share nothing but the       *)
(* calendar, which none of them changes, so that each behaviour follows    *)
(* one of them.                                                            *)
(***************************************************************************)
EXTENDS SysTime, DutyCycle

VARIABLE user

At(year, month, day) ==
  [Year |-> year, Month |-> month, Date |-> day, Hours |-> HOURS_IN_1DAY - 1,
   Minutes |-> 0, Seconds |-> 0, SubSeconds |-> PREDIV_S]

(* The start of the calendar; leap years or not, two ends of February, one  *)
(* of a year, one of a month of thirty days.                                 *)
MCStarts ==
  {At(0, 1, 1), At(0, 2, 28), At(1, 2, 28), At(3, 12, 31), At(4, 2, 29), At(5, 4, 29)}

MCInit ==
  /\ SysTimeInit
  /\ DutyInit
  /\ user \in {"reader", "alarm", "stamp", "system", "duty"}

MCNext ==
  /\ \/ Tick /\ SysTimeTick /\ DutyTick
     \/ user = "reader" /\ ReadCalendar /\ UNCHANGED <<sysTimeVars, dutyVars>>
     \/ user = "alarm" /\ UseAlarm /\ UNCHANGED <<sysTimeVars, dutyVars>>
     \/ user = "stamp" /\ GetCurrentTime /\ UNCHANGED <<sysTimeVars, dutyVars>>
     \/ user = "system" /\ UseSysTime /\ UNCHANGED dutyVars
     \/ user = "duty" /\ UseDutyCycle /\ UNCHANGED sysTimeVars
  /\ UNCHANGED user

MCSpec == MCInit /\ [][MCNext]_<<vars, sysTimeVars, dutyVars, user>>
===============================================================================
