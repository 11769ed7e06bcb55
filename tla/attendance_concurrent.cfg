SPECIFICATION FairSpec

CONSTANTS
  Handlers = {h1}
  Crons = {c1}
  Dates <- MCDay
  NoRecord = NoRecord
  DayLength = 8
  Noon = 4
  Shifts <- OnlyDay
  Tolerance = 1
  Break = 1
  Expected = 2
  AbsenceGrace = 1
  AutoCheckoutGrace = 2
  ShiftDays <- MCDates
  WorkingDays <- MCDates
  LeaveDays <- NoDates
  Corrections <- MCCorrections
  Mocks = {TRUE, FALSE}
  DateShift = 0
  LastTick = 16
  MaxFailures = 1
  c1 = c1
  h1 = h1

PROPERTIES
  ClosedByHandStays
  CheckInKept
  OpenDayCloses

CHECK_DEADLOCK FALSE
