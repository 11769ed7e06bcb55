SPECIFICATION Spec
CONSTANTS
  Handlers = {h1}
  Workers = {w1}
  w1 = w1
  Ids = {r1, r2}
  NoRow = NoRow
  MaxDay = 3
  HireDay <- MCHireDay
  Types = {vacation, medical}
  VacationTypes = {vacation}
  Accrued <- MCAccrued
  EditDays <- AnyDates
  EditTypes = {NoType, vacation, medical}
  NoType = NoType
  ResubmitDays <- NoDates
  MaxFailures = 1
CHECK_DEADLOCK FALSE
SYMMETRY RowSymmetry
INVARIANTS  WorkerKnowsVerdict
PROPERTIES LifecycleSpec OverdraftFlagged
