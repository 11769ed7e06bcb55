SPECIFICATION FairSpec
CONSTANTS
  Handlers = {h1, h2}
  Workers = {w1}
  w1 = w1
  Ids = {r1}
  NoRow = NoRow
  MaxDay = 3
  HireDay <- MCHireDay
  Types = {vacation}
  VacationTypes = {vacation}
  Accrued <- MCAccrued
  EditDays <- AnyDates
  EditTypes = {NoType}
  NoType = NoType
  ResubmitDays <- NoDates
  MaxFailures = 1
CHECK_DEADLOCK FALSE
INVARIANT DaysMatchDates
PROPERTIES SettledStays CreationAnnounced
