-------------------------------- MODULE SysTime --------------------------------
(***************************************************************************)
(* The system time of Lora/Utilities/systime.c over the real-time clock:   *)
(* the calendar time and a difference kept in the backup registers, which  *)
(* the answer to a DeviceTimeReq sets (ProcessMacCommands in LoRaMac.c).   *)
(*                                                                         *)
(* The server stamps the end of the uplink with its own time.  The node    *)
(* notes its system time there (OnRadioTxDone) and adds what has passed    *)
(* since.  serverTime is the server's; isSet and setLate are history.      *)
(***************************************************************************)
EXTENDS Rtc

CONSTANTS
  FRACTIONS,         (* 256: fractions of a second in the server's stamp     *)
  SecondsMod,        (* 2^32: seconds are kept in 32 bits                    *)
  ServerStart        (* server time, in ticks, when a behaviour starts       *)

ASSUME SysTimeAssumption ==
  /\ FRACTIONS \in Nat \ {0}
  /\ SecondsMod \in Nat \ {0}
  /\ SecondsMod % (TickMod \div TicksPerSecond) = 0
  /\ ServerStart \in Nat
  /\ None \notin [Seconds : Nat, SubSeconds : Nat]

VARIABLES
  DeltaTime,      (* the backup registers                                    *)
  LastTxSysTime,
  sysTime,        (* of ProcessMacCommands, until SysTimeSet gets it, or None*)
  serverTime,     (* the server's stamp of the last uplink, until it is
                     used, or None                                           *)
  isSet,          (* an answer has set the system time                       *)
  setLate         (* ticks between the two readings of the clock, then       *)

sysTimeVars == <<DeltaTime, LastTxSysTime, sysTime, serverTime, isSet, setLate>>

SysTimes == [Seconds : 0..(SecondsMod - 1), SubSeconds : 0..(MSEC_NUMBER - 1)]

SysTimeAdd(a, b) ==
  LET ms == a.SubSeconds + b.SubSeconds
  IN [Seconds    |-> (a.Seconds + b.Seconds + (ms \div MSEC_NUMBER)) % SecondsMod,
      SubSeconds |-> ms % MSEC_NUMBER]

(* Fault: no second is borrowed.                                             *)
SysTimeSubNoBorrow(a, b) ==
  LET ms == a.SubSeconds - b.SubSeconds
  IN [Seconds    |-> (a.Seconds - b.Seconds) % SecondsMod,
      SubSeconds |-> ms % MSEC_NUMBER]

(* A negative difference of the milliseconds borrows a second.               *)
SysTimeSub(a, b) ==
  LET ms == a.SubSeconds - b.SubSeconds
  IN [Seconds    |-> (a.Seconds - b.Seconds - (IF ms < 0 THEN 1 ELSE 0)) % SecondsMod,
      SubSeconds |-> ms % MSEC_NUMBER]

(* HW_RTC_GetCalendarTime: the value is cut to 32 bits of ticks before it is *)
(* divided into seconds.                                                     *)
CalendarTime ==
  [Seconds    |-> TimerValue \div TicksPerSecond,
   SubSeconds |-> Tick2ms(TimerValue % TicksPerSecond)]

SysTimeGet == SysTimeAdd(DeltaTime, CalendarTime)

ServerTicks == ServerStart + ticks

(* OnRadioTxDone; the server hears the uplink and stamps it, in whole        *)
(* fractions of a second.                                                    *)
OnRadioTxDone ==
  /\ sysTime = None
  /\ LastTxSysTime' = SysTimeGet
  /\ serverTime' =
       [Seconds    |-> (ServerTicks \div TicksPerSecond) % SecondsMod,
        SubSeconds |-> ((((ServerTicks % TicksPerSecond) * FRACTIONS) \div TicksPerSecond)
                          * MSEC_NUMBER) \div FRACTIONS]
  /\ UNCHANGED <<DeltaTime, sysTime, isSet, setLate>>

(* DeviceTimeAns: one answer to an uplink, in the downlink that follows it.  *)
DeviceTimeAns ==
  /\ serverTime # None
  /\ sysTime' = SysTimeAdd(SysTimeGet, SysTimeSub(serverTime, LastTxSysTime))
  /\ serverTime' = None
  /\ setLate' = 0
  /\ UNCHANGED <<DeltaTime, LastTxSysTime, isSet>>

(* SysTimeSet reads the clock again, a little later if interrupts come.      *)
SysTimeSet ==
  /\ sysTime # None
  /\ DeltaTime' = SysTimeSub(sysTime, CalendarTime)
  /\ sysTime' = None
  /\ isSet' = TRUE
  /\ UNCHANGED <<LastTxSysTime, serverTime, setLate>>

UseSysTime ==
  /\ OnRadioTxDone \/ DeviceTimeAns \/ SysTimeSet
  /\ UNCHANGED vars

(* The clock goes on, but not far between the two readings (MaxRound).       *)
SysTimeTick ==
  /\ sysTime # None => setLate < MaxRound
  /\ setLate' = IF sysTime = None THEN setLate ELSE setLate + 1
  /\ UNCHANGED <<DeltaTime, LastTxSysTime, sysTime, serverTime, isSet>>

SysTimeInit ==
  /\ Init
  /\ DeltaTime = [Seconds |-> 0, SubSeconds |-> 0]
  /\ LastTxSysTime = [Seconds |-> 0, SubSeconds |-> 0]
  /\ sysTime = None
  /\ serverTime = None
  /\ isSet = FALSE
  /\ setLate = 0

SysTimeNext ==
  \/ (Tick /\ SysTimeTick)
  \/ (ReadCalendar \/ UseAlarm \/ GetCurrentTime) /\ UNCHANGED sysTimeVars
  \/ UseSysTime

SysTimeSpec == SysTimeInit /\ [][SysTimeNext]_<<vars, sysTimeVars>>

(***************************************************************************)
(* Properties                                                              *)
(***************************************************************************)

InMs(t) == t.Seconds * MSEC_NUMBER + t.SubSeconds

(* Milliseconds after which the calendar time starts again at zero.          *)
WrapMs == (TickMod \div TicksPerSecond) * MSEC_NUMBER

(* Once an answer has set it, and however long ago, the system time is the   *)
(* server's, but for the fraction of a second in the stamp, the milliseconds *)
(* lost in conversions and the time between the two readings of the clock -  *)
(* and but for a whole number of wraps: HW_RTC_GetCalendarTime cuts the      *)
(* ticks to 32 bits before it divides them (hw_rtc.c:627), so the system     *)
(* time falls back by 2^22 seconds each time they wrap.                      *)
SysTimeIsServerTime ==
  isSet /\ sysTime = None =>
    (Tick2ms(ServerTicks) - InMs(SysTimeGet)) % WrapMs
      \in {e % WrapMs : e \in -1..(DIVC(MSEC_NUMBER, FRACTIONS) + setLate + 1)}
===============================================================================
