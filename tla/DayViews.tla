------------------------------- MODULE DayViews -------------------------------
(***************************************************************************)
(* What a worker's days are said to be, by the four readers of the same    *)
(* tables: company analytics (analytics.service.js), the summary of        *)
(* laborSchedule.service.js, the worker's own history and month            *)
(* (attendance.controller.js, attendance-day-status.service.js) and the    *)
(* payroll (payroll.service.js).                                           *)
(*                                                                         *)
(* The tables are written elsewhere: by AttendanceDay, Requests,           *)
(* ShiftAssignments and RestDays.  Here each writer stores any row that    *)
(* those can, and every reader translates the day in its own words.        *)
(***************************************************************************)
EXTENDS Naturals, Sequences, FiniteSets

CONSTANTS
  LastDay,
  RowForms,        \* rows of attendance_records the other modules reach
  LeaveTypes,      \* request_types: the kind, is_active, and whether the SQL lists name its code
  LeaveSpans,      \* first and last day of a request
  MaxLeaves,       \* bound on the approved requests
  FeastDays,       \* days that may be declared holidays
  NoRecord

LeaveKinds == {"vacation", "medical_leave", "unpaid_leave"}

ASSUME DayViewsAssumption ==
  /\ LastDay \in Nat /\ MaxLeaves \in Nat /\ FeastDays \subseteq Nat
  /\ RowForms \subseteq [status : {"present", "late", "absent", "incomplete", "rejected"},
                         in : BOOLEAN, out : BOOLEAN]
  /\ NoRecord \notin RowForms
  /\ LeaveTypes \subseteq [kind : LeaveKinds, active : BOOLEAN, listed : BOOLEAN]
  /\ LeaveSpans \subseteq (1 .. LastDay) \X (1 .. LastDay)

ViewDays == 1 .. LastDay

VARIABLES
  today,
  scheduled,       \* of each day: no shift, a working day, or one of rest
  holiday,         \* days with an active holiday
  leaves,          \* approved employee_requests, in the order of their creation
  records          \* attendance_records

viewVars == <<today, scheduled, holiday, leaves, records>>

DayViewsTypeOK ==
  /\ today \in 0 .. LastDay
  /\ scheduled \in [ViewDays -> {"none", "work", "rest"}]
  /\ holiday \subseteq ViewDays
  /\ leaves \in Seq([span : LeaveSpans, type : LeaveTypes]) /\ Len(leaves) <= MaxLeaves
  /\ records \in [ViewDays -> RowForms \cup {NoRecord}]

-------------------------------------------------------------------------------
(* The writers *)

NextDay ==
  /\ today < LastDay
  /\ today' = today + 1
  /\ UNCHANGED <<scheduled, holiday, leaves, records>>

Reschedule(d, s) ==
  /\ scheduled' = [scheduled EXCEPT ![d] = s]
  /\ UNCHANGED <<today, holiday, leaves, records>>

ChangeHoliday(d) ==
  /\ holiday' = IF d \in holiday THEN holiday \ {d} ELSE holiday \cup {d}
  /\ UNCHANGED <<today, scheduled, leaves, records>>

Approve(span, type) ==
  /\ Len(leaves) < MaxLeaves
  /\ leaves' = Append(leaves, [span |-> span, type |-> type])
  /\ UNCHANGED <<today, scheduled, holiday, records>>

StoreRow(d, row) ==
  /\ d <= today
  /\ records' = [records EXCEPT ![d] = row]
  /\ UNCHANGED <<today, scheduled, holiday, leaves>>

-------------------------------------------------------------------------------
(* Approved requests, as each reader finds them *)

Covers(i, d) == d \in leaves[i].span[1] .. leaves[i].span[2]

LeavesOn(d) == {i \in DOMAIN leaves : Covers(i, d)}

Priority(kind) ==
  CASE kind = "vacation" -> 1 [] kind = "medical_leave" -> 2 [] OTHER -> 3

\* listApprovedAttendanceBlocks, expandApprovedAttendanceBlocks: one block a
\* day, of the types in use, whatever the alias of their code.
DayBlock(d) ==
  LET kinds == {leaves[i].type.kind : i \in {i \in LeavesOn(d) : leaves[i].type.active}}
  IN  IF kinds = {} THEN "none"
      ELSE CHOOSE k \in kinds : \A other \in kinds : Priority(k) <= Priority(other)

\* leave_data: the first request by the priority of its code, then by creation;
\* a code the query does not name comes with the last ones, and says nothing.
AnalyticsLeave(d) ==
  LET found == LeavesOn(d)
      Rank(i) == IF leaves[i].type.listed THEN Priority(leaves[i].type.kind) ELSE 3
      first == CHOOSE i \in found :
                 \A j \in found : Rank(i) < Rank(j) \/ (Rank(i) = Rank(j) /\ i <= j)
  IN  IF found = {} \/ ~leaves[first].type.listed THEN "none"
      ELSE leaves[first].type.kind

\* getAttendanceSummary keeps the last row of each date: the request that
\* began first, any of those that began together.
SummaryLeaves(d) ==
  LET found == {i \in LeavesOn(d) : leaves[i].type.active}
  IN  {leaves[i].type.kind :
         i \in {i \in found : \A j \in found : leaves[i].span[1] <= leaves[j].span[1]}}

\* approved_leave of the month and of the payroll: the codes of a list, in use
\* or not.
PayrollLeave(d) == \E i \in LeavesOn(d) : leaves[i].type.listed

-------------------------------------------------------------------------------
(* Company analytics *)

Recorded(d) == records[d] # NoRecord
CheckedIn(d) == Recorded(d) /\ records[d].in
CheckedOut(d) == Recorded(d) /\ records[d].out
RawStatus(d) == IF Recorded(d) THEN records[d].status ELSE "none"

\* attendance_required
AttendanceRequired(d) ==
  d <= today /\ scheduled[d] = "work" /\ d \notin holiday /\ AnalyticsLeave(d) = "none"

HasAttendance(d) == AttendanceRequired(d) /\ CheckedIn(d)
IsLate(d) == HasAttendance(d) /\ RawStatus(d) = "late"
CompletedShift(d) == HasAttendance(d) /\ CheckedOut(d)

\* final_status
AnalyticsStatus(d) ==
  LET leave == AnalyticsLeave(d)
  IN CASE leave # "none" -> leave
       [] leave = "none" /\ d \in holiday -> "holiday"
       [] leave = "none" /\ d \notin holiday /\ scheduled[d] # "work" ->
            IF scheduled[d] = "none" THEN "no_schedule" ELSE "rest_day"
       [] OTHER ->
            IF CheckedIn(d)
              THEN IF ~CheckedOut(d) THEN "incomplete"
                   ELSE IF RawStatus(d) = "late" THEN "late" ELSE "present"
              ELSE IF RawStatus(d) = "absent" \/ d < today THEN "absent" ELSE "pending"

DaysThat(ds, Test(_)) == Cardinality({d \in ds : Test(d)})

\* What the analytics count of a day
DayKind(d) ==
  [status |-> AnalyticsStatus(d), required |-> AttendanceRequired(d),
   attended |-> HasAttendance(d), late |-> IsLate(d), completed |-> CompletedShift(d)]

-------------------------------------------------------------------------------
(* The summary of the schedules: days with a record or a request *)

SummaryStatuses(d) ==
  LET asked == SummaryLeaves(d)
  IN CASE asked # {} -> asked
    [] asked = {} /\ ~Recorded(d) -> {}
    [] OTHER ->
         {CASE scheduled[d] = "none" -> "not_scheduled"
            [] scheduled[d] # "none" /\ d \in holiday ->
                 IF CheckedIn(d) \/ RawStatus(d) = "present" THEN "holiday_worked"
                                                             ELSE "holiday"
            [] scheduled[d] = "rest" /\ d \notin holiday -> "rest_day"
            [] OTHER ->
                 IF d > today THEN "pending"
                 ELSE IF (CheckedIn(d) /\ ~CheckedOut(d)) \/ RawStatus(d) = "incomplete"
                   THEN "incomplete"
                 ELSE IF RawStatus(d) \in {"late", "absent"} THEN RawStatus(d)
                 ELSE IF CheckedIn(d) \/ RawStatus(d) = "present" THEN "present"
                 ELSE "pending"}

-------------------------------------------------------------------------------
(* The worker's history *)

\* The context of a day without a shift knows no holiday.
HolidayWithShift(d) == scheduled[d] # "none" /\ d \in holiday

\* resolveHistoryRecordStatus; on time or late is told by the marks again.
HistoryRecordStatus(d) ==
  IF HolidayWithShift(d) /\ CheckedIn(d) THEN "holiday_worked"
  ELSE IF RawStatus(d) \in {"absent", "incomplete"} THEN RawStatus(d)
  ELSE IF CheckedIn(d) THEN IF RawStatus(d) = "late" THEN "late" ELSE "present"
  ELSE IF RawStatus(d) = "rejected" THEN "pending" ELSE RawStatus(d)

\* getHistory: a request replaces the record, a record the calendar.
HistoryStatus(d) ==
  LET block == DayBlock(d)
  IN CASE block # "none" -> block
       [] block = "none" /\ Recorded(d) -> HistoryRecordStatus(d)
       [] OTHER -> IF d > today THEN "none"
                   ELSE IF HolidayWithShift(d) THEN "holiday"
                   ELSE IF scheduled[d] = "rest" THEN "rest_day" ELSE "none"

-------------------------------------------------------------------------------
(* The month of the worker and the payroll *)

AbsentWhateverLeave(d) == RawStatus(d) = "absent"           \* faulty variant

\* absence_count, absent_days
CountedAbsence(d) == RawStatus(d) = "absent" /\ ~PayrollLeave(d)

\* getApprovedAttendanceDayCounts
ApprovedDays(ds, kind) == Cardinality({d \in ds : DayBlock(d) = kind})

\* getSummary
Month(ds) ==
  [totalWorkedDays |-> DaysThat(ds, CheckedIn),
   lateCount |-> Cardinality({d \in ds : RawStatus(d) = "late"}),
   absenceCount |-> DaysThat(ds, CountedAbsence),
   vacationDays |-> ApprovedDays(ds, "vacation"),
   medicalLeaveDays |-> ApprovedDays(ds, "medical_leave"),
   unpaidLeaveDays |-> ApprovedDays(ds, "unpaid_leave")]

\* generatePayroll, the days a worker is paid less for: an absence, each day of
\* unpaid leave, and half a day more for one absence, a whole one for several.
Payslip(ds) ==
  LET absent == {d \in ds : CountedAbsence(d)}
  IN [worked |-> DaysThat(ds, CheckedIn),
      absent |-> absent,
      unpaid |-> {d \in ds : DayBlock(d) = "unpaid_leave"},
      vacation |-> ApprovedDays(ds, "vacation"),
      medical |-> ApprovedDays(ds, "medical_leave"),
      extraHalves |-> CASE absent = {} -> 0 [] Cardinality(absent) = 1 -> 1 [] OTHER -> 2,
      holidaysWorked |-> {d \in ds \cap holiday : CheckedIn(d)}]

-------------------------------------------------------------------------------
DayViewsInit ==
  /\ today = 0
  /\ scheduled = [d \in ViewDays |-> "none"]
  /\ holiday = {}
  /\ leaves = <<>>
  /\ records = [d \in ViewDays |-> NoRecord]

DayViewsNext ==
  \/ NextDay
  \/ \E d \in ViewDays :
       \/ \E s \in {"none", "work", "rest"} : Reschedule(d, s)
       \/ d \in FeastDays /\ ChangeHoliday(d)
       \/ \E row \in RowForms : StoreRow(d, row)
  \/ \E span \in LeaveSpans, type \in LeaveTypes : Approve(span, type)

DayViewsSpec == DayViewsInit /\ [][DayViewsNext]_viewVars

-------------------------------------------------------------------------------
(* Properties *)

\* A row as the marks and the job leave it: it is an absence if nobody checked in.
\* (A correction, or the check-out of an absence, may leave another.)
Ordinary(d) == Recorded(d) /\ (RawStatus(d) = "absent" <=> ~CheckedIn(d))

AbsentToAll(d) ==
  /\ AnalyticsStatus(d) = "absent" /\ HistoryStatus(d) = "absent"
  /\ SummaryStatuses(d) = {"absent"} /\ CountedAbsence(d)

AbsentToNone(d) ==
  /\ AnalyticsStatus(d) # "absent" /\ HistoryStatus(d) # "absent"
  /\ "absent" \notin SummaryStatuses(d) /\ ~CountedAbsence(d)

\* Every reader knows the types of the requests on a day, and they are in use.
WellKnown(ds) ==
  \A i \in UNION {LeavesOn(d) : d \in ds} : leaves[i].type.active /\ leaves[i].type.listed

\* The four readers agree on an absence: all see the one on a working day without
\* leave, and none sees one on a day of leave, so that neither the month nor the
\* payroll counts a day twice, although each of them joins requests, schedules
\* and records anew, and chooses among the requests of a day in its own way.
AbsenceSeenAlike ==
  /\ \A d \in ViewDays :
       /\ (LeavesOn(d) = {} /\ Ordinary(d) /\ scheduled[d] = "work" /\ d \notin holiday) =>
            IF RawStatus(d) = "absent" THEN AbsentToAll(d) ELSE AbsentToNone(d)
       /\ (LeavesOn(d) # {} /\ WellKnown({d})) => AbsentToNone(d)
  /\ WellKnown(ViewDays) =>
       LET m == Month(ViewDays)
           p == Payslip(ViewDays)
       IN /\ m.absenceCount + m.vacationDays + m.medicalLeaveDays + m.unpaidLeaveDays <= LastDay
          /\ Cardinality(p.absent) + Cardinality(p.unpaid) + p.vacation + p.medical <= LastDay
===============================================================================
