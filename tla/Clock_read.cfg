CONSTANTS
  PREDIV_S = 7
  SECONDS_IN_1MINUTE = 2
  MINUTES_IN_1HOUR = 2
  HOURS_IN_1DAY = 2
  TickMod = 128
  MSEC_NUMBER = 5
  MIN_ALARM_DELAY = 3
  Starts <- MCStarts
  Timeouts = {3, 17, 83}
  MaxRound = 5
  Horizon = 90
  None = None
  FRACTIONS = 2
  SecondsMod = 64
  ServerStart = 1000
  MsMod = 128
  TimesOnAir = {2, 5}
  MaxDCycles = {1, 2}
SPECIFICATION MCSpec
PROPERTY ReadIsAccurate
CHECK_DEADLOCK FALSE
