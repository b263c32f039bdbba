CONSTANTS
  Timers = {t1, t2, t3}
  Timeouts = {1, 3}
  MinTimeout = 2
  McuWakeUpTimeCal = 1
  MaxBusy = 3
  Horizon = 2
  MaxElapsed = 20
  NoAlarm = NoAlarm
  NoTimer = NoTimer
SPECIFICATION FairSpec
INVARIANTS AlarmServesHead NeverVeryLate IInv
PROPERTIES NeverEarly PromiseKept
