SPECIFICATION Spec

CONSTANTS
  Handlers = {p1}
  Crons = {p1}
  Dates <- MCDay
  NoRecord = NoRecord
  DayLength = 8
  Noon = 4
  Shifts <- OnlyNight
  Tolerance = 1
  Break = 1
  Expected = 2
  AbsenceGrace = 1
  AutoCheckoutGrace = 2
  ShiftDays <- MCDates
  WorkingDays <- MCDates
  LeaveDays <- NoDates
  Corrections <- MCNoCorrection
  Mocks = {FALSE}
  DateShift = 0
  LastTick = 20
  MaxFailures = 0
  p1 = p1

PROPERTIES
  NightArrivalRecorded

CHECK_DEADLOCK FALSE
