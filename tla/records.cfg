SPECIFICATION Spec
CONSTANTS
  Writers = {w1, w2}
  Departments = {d1}
  Areas = {a1}
  Positions = {p1}
  Employees = {e1}
  Names = {1, 2}
  Readers = {r1}
  MaxEdits = 3
  Absent = Absent
  Nowhere = Nowhere
  NotCached = NotCached
  WeekLength = 3
  LastDate = 6
  PlanWeeks = 2
  Created = 1
  ServerLag = 1
  DefaultDays = {1, 2}
  HolidayDates = {2}
  LastDay = 2
  RowForms <- MCRowForms
  LeaveTypes <- MCLeaveTypes
  LeaveSpans <- MCLeaveSpans
  MaxLeaves = 2
  FeastDays = {2}
  NoRecord = NoRecord
  CardDays = {2}
  People = {1, 2}
  Units = {1, 2}
  LastCounted = 2
  DayKinds <- MCDayKinds
  TrendDays = 2
  MaxMoves = 2
  Members = {1, 2}
  Sites = {1}
  MarkForms <- MCMarkForms
  NoMark = NoMark
  PageSize = 1
  MaxUpdates = 4
  Staff = {s1, s2}
  Clerks = {c1, c2}
  Filers = {1, 2}
  FiledTypes = {1, 2}
  FiledStatuses = {"pending", "approved", "cancelled"}
  FiledSpans <- MCFiledSpans
  Faces <- MCFaces
  MonthLength = 1
  MaxFiled = 2
  Criteria <- MCCriteria
  PageSizes = {1, 2}
  Manager = Manager
  Visitor = Visitor
  Every = Every
  DayMinutes = 6
  ShiftForms <- MCShiftForms
  PolicyForms <- MCPolicyForms
  DefaultPolicy <- MCDefaultPolicy
  Editors = {ed1, ed2}
  MaxChanges = 4
  Left = Left
  NoShift = NoShift
  PolicyDays = PolicyDays
CHECK_DEADLOCK FALSE
INVARIANTS TypeOK RestNeverScheduled  DaysToldAlike
PROPERTIES DisabledEventuallyOut ListsSettle SlipsStand ShiftStands
