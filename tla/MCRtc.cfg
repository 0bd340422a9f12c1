SPECIFICATION Spec
CONSTANTS
  Tasks = {t1, t2}
  SEC_IN_DAY = 2
  StartDays <- MCStartDays
  SweepDays <- MCSweepDays
  Dates <- MCDates
  AlarmDates <- MCAlarmDates
  MaxCalls = 2
  MaxTicks = 2
  LastDate <- MCLastDate
  NONE = NONE
SYMMETRY Symmetry
INVARIANTS
  GetIsRight
  SetIsExact
  AlarmOnTime
