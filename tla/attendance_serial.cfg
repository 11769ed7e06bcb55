SPECIFICATION Spec

CONSTANTS
  Handlers = {p1}
  Crons = {p1}
  Dates <- MCDates
  NoRecord = NoRecord
  DayLength = 8
  Noon = 4
  Shifts <- AnyShift
  Tolerance = 1
  Break = 1
  Expected = 2
  AbsenceGrace = 1
  AutoCheckoutGrace = 2
  ShiftDays <- MCDates
  WorkingDays <- MCDay
  LeaveDays <- MCDates
  Corrections <- MCCorrections
  Mocks = {FALSE}
  DateShift = 0
  LastTick = 22
  MaxFailures = 0
  p1 = p1

INVARIANTS
  TypeOK
  RowMatchesMarks

PROPERTIES
  AbsenceJustified
  NotClosedEarly

CHECK_DEADLOCK FALSE
