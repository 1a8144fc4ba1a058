SPECIFICATION FairSpec
CONSTANTS
  a1 = a1  a2 = a2  a3 = a3
  NULL = NULL
  Alarm = {a1, a2, a3}
  DVDAlarm = {a1}
  Ticks = {0, 1, 3}
  Periods = {2, 3}
  MaxDecrement = 2
  MaxTime = 4
INVARIANTS AlarmListExact TimerCoversFirstAlarm
PROPERTIES ImplementsAlarmService AlarmExpires
VIEW AlarmView
CHECK_DEADLOCK FALSE
