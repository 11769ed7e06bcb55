------------------------------- MODULE DayTotals -------------------------------
(***************************************************************************)
(* What the days of a worker add up to: the summary of a week the          *)
(* recalculation stores (absence.service.js), the records of the           *)
(* schedules' summary with what each costs (laborSchedule.service.js), the *)
(* attendance and monthly reports (report.service.js) and the payroll.     *)
(*                                                                         *)
(* A day is the unit: minutes, rates and amounts are in proportion to it.  *)
(* What is taken off is counted in half days.                              *)
(***************************************************************************)
EXTENDS DayCards

\* getActiveWorkers, getWorkerSalarySnapshot: from the hiring to the end of the contract
Employment == {span \in ViewDays \X ViewDays : span[1] <= span[2]}

ComputableDays(ds, span) == ds \cap span[1] .. span[2]

\* calculateExpectedWeekMinutes, calculateExpectedMinutes: the days the schedule asks for
ExpectedDays(ds, span) == {d \in ComputableDays(ds, span) : WorkingOn(d)}

\* An absence takes its day off, and one in the time paid half a day more, several a
\* whole one.
HalvesOff(absences) ==
  2 * absences + (IF absences < 2 THEN absences ELSE 2)

\* recalculateWeeklySummary: the row of attendance_weekly_summaries
WeekSummary(ds, span) ==
  [expected |-> Cardinality(ExpectedDays(ds, span)),
   worked   |-> DaysThat(ds, CheckedIn),
   absent   |-> DaysThat(ds, CountedAbsence),
   off      |-> HalvesOff(DaysThat(ds, CountedAbsence))]

\* What generatePayroll takes off for absences
PayrollOff(ds) == 2 * Cardinality(Payslip(ds).absent) + Payslip(ds).extraHalves

\* computable_days: whoever was employed only part of the period is paid those days.
PaidDays(ds, span) == Cardinality(ComputableDays(ds, span))

-------------------------------------------------------------------------------
(* The records of the summary *)

\* What a record of the day earns or costs: a holiday is paid, and one worked twice.
SummaryMoney(d, status) ==
  [holidayPaid   |-> status = "holiday",
   holidayWorked |-> IF status = "holiday_worked" THEN 2 ELSE 0,
   off           |-> SummaryDiscount(d)]

\* getDefaultPerceivesPayForStatus
PaidByDefault(status) ==
  CASE status \in {"unpaid_leave", "absent"} -> "unpaid"
    [] status \in {"present", "late", "vacation", "medical_leave", "holiday",
                   "holiday_worked", "rest_day"} -> "paid"
    [] OTHER -> "unknown"

\* buildAttendanceSummaryRecord, for each status SummaryStatuses may give
SummaryRecord(d, status) ==
  [date       |-> d,
   status     |-> status,
   source     |-> IF SummaryLeaves(d) = {} THEN "ATTENDANCE" ELSE "REQUEST",
   blocked    |-> SummaryLeaves(d) # {},
   hasShift   |-> HasShift(d),
   workingDay |-> WorkingOn(d),
   required   |-> SummaryRequired(d),
   absentDays |-> IF SummaryAbsent(d) THEN 1 ELSE 0,
   expected   |-> IF SummaryRequired(d) THEN 1 ELSE 0,
   in         |-> CheckedIn(d),
   out        |-> CheckedOut(d),
   paid       |-> PaidByDefault(status),
   money      |-> SummaryMoney(d, status)]

\* getAttendanceSummary: the records, and the same by date
SummaryRecords(ds) ==
  UNION {{SummaryRecord(d, status) : status \in SummaryStatuses(d)} : d \in {d \in ds : InSummary(d)}}

RecordsByDate(ds) ==
  LET all == SummaryRecords(ds)
  IN  [d \in {r.date : r \in all} |-> {r \in all : r.date = d}]

-------------------------------------------------------------------------------
(* Reports *)

\* getAttendanceData: the rows since the worker was hired
AttendanceReport(ds, hire) == {d \in ds : Recorded(d) /\ d >= hire}

\* getMonthlySummaryData: by the status stored, whatever leave was approved
MonthlyReport(ds, hire) ==
  LET With(status) == Cardinality({d \in AttendanceReport(ds, hire) : RawStatus(d) = status})
  IN [total |-> Cardinality(AttendanceReport(ds, hire)), present |-> With("present"),
      absent |-> With("absent"), late |-> With("late")]

-------------------------------------------------------------------------------
(* Properties *)

\* What a week takes off for absences is what the payroll takes off for the same days;
\* a payroll of several weeks never takes off more than they do, although each counts
\* its extra anew, and the records of the summary, one by one, never less.
AbsencesCostAlike(ds) ==
  /\ LET week == WeekSummary(ds, <<1, LastDay>>)
     IN  week.off = PayrollOff(ds) /\ week.worked = Payslip(ds).worked
  /\ \A d \in ds :
       LET left == WeekSummary({e \in ds : e <= d}, <<1, LastDay>>)
           right == WeekSummary({e \in ds : e > d}, <<1, LastDay>>)
       IN  PayrollOff(ds) <= left.off + right.off
  /\ WellKnown(ds) =>
       PayrollOff(ds) <= 3 * Cardinality({d \in ds : SummaryDiscount(d) = 3})

\* The days a worker is expected are those the analytics require, whatever is to come
\* and but for leave, and never more than those paid.
ExpectedAlike(ds) ==
  \A span \in Employment :
    /\ {d \in ExpectedDays(ds, span) : d <= today /\ AnalyticsLeave(d) = "none"}
         = {d \in ComputableDays(ds, span) : AttendanceRequired(d)}
    /\ WeekSummary(ds, span).expected <= PaidDays(ds, span)

\* A holiday worked is paid by the summary on the days the payroll pays for it, if there
\* is a shift and a leave does not hide it.
HolidaysPaidAlike(ds) ==
  \A r \in SummaryRecords(ds) :
    (LeavesOn(r.date) = {} /\ r.hasShift /\ Ordinary(r.date)) =>
      (r.money.holidayWorked > 0 <=> r.date \in Payslip(ds).holidaysWorked)

\* The monthly report, made for the payroll, has the absences it takes off, and those
\* leave was later approved for; every row it counts has its record in the summary.
ReportFeedsPayroll(ds) ==
  LET month == MonthlyReport(ds, 1)
  IN /\ month.absent >= Cardinality(Payslip(ds).absent)
     /\ (\A d \in ds : LeavesOn(d) = {}) =>
          month.absent = Cardinality(Payslip(ds).absent)
     /\ month.present + month.absent + month.late <= month.total
     /\ AttendanceReport(ds, 1) \subseteq DOMAIN RecordsByDate(ds)

TotalsAgree ==
  /\ AbsencesCostAlike(ViewDays) /\ ExpectedAlike(ViewDays)
  /\ HolidaysPaidAlike(ViewDays) /\ ReportFeedsPayroll(ViewDays)
===============================================================================
