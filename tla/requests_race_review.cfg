SPECIFICATION Spec
CONSTANTS
  Handlers = {h1, h2}
  Workers = {w1}
  w1 = w1
  Ids = {r1}
  NoRow = NoRow
  MaxDay = 2
  HireDay <- MCHireDay
  Types = {vacation}
  VacationTypes = {vacation}
  Accrued <- MCAccrued
  EditDays <- NoDates
  EditTypes = {NoType}
  NoType = NoType
  ResubmitDays <- NoDates
  MaxFailures = 0
CHECK_DEADLOCK FALSE
PROPERTY LifecycleSpec
