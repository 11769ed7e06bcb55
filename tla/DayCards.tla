------------------------------- MODULE DayCards -------------------------------
(***************************************************************************)
(* What a worker is offered and asked for on a day: the card of the day    *)
(* (GET /attendance/today), the card of the home screens, the calendar of  *)
(* the history and the rows of the schedules' summary, beside what the     *)
(* server then does: take the check-in or the check-out, or give the       *)
(* absence.                                                                *)
(*                                                                         *)
(* The day is the logical date of AttendanceDay.  To what DayViews keeps   *)
(* of a day comes one more fact: whether the shift has its weekday.  The   *)
(* resolved schedule (rest dates, fixed rest, holidays) is `scheduled' and *)
(* `holiday'; a day may be a working day of the worker and not of the      *)
(* shift, when a fixed rest replaces the days of the shift, or the other   *)
(* way round.                                                              *)
(***************************************************************************)
EXTENDS DayViews

CONSTANT CardDays   \* days whose tables change

ASSUME DayCardsAssumption == CardDays \subseteq ViewDays

VARIABLE shiftDays  \* days whose weekday the shift of the worker has

cardVars == <<viewVars, shiftDays>>

DayCardsTypeOK == shiftDays \subseteq ViewDays

-------------------------------------------------------------------------------
(* The schedule as getWorkerShift hands it over *)

HasShift(d) == scheduled[d] # "none"

\* resolveWorkerSchedule: neither a rest date nor a holiday is a working day.
WorkingOn(d) == scheduled[d] = "work" /\ d \notin holiday

-------------------------------------------------------------------------------
(* Cards *)

\* serializeAttendanceRecord: what the marks of the row say.
Marked(d) == CASE ~CheckedIn(d) -> "none"
               [] CheckedIn(d) /\ CheckedOut(d) -> "checked_out"
               [] OTHER -> "checked_in"

\* The card of the home screens (home-service, getWorkerHomeData) goes by the
\* weekdays of the shift alone.
HomeCard(d) ==
  [status |-> Marked(d),
   in  |-> HasShift(d) /\ d \in shiftDays /\ Marked(d) # "checked_in",
   out |-> Marked(d) = "checked_in"]

\* enrichTodayAvailability: the resolved schedule decides, and on a holiday who
\* comes may mark.
Enriched(d) ==
  [status   |-> Marked(d),
   in       |-> IF HolidayWithShift(d) THEN TRUE ELSE WorkingOn(d) /\ HomeCard(d).in,
   out      |-> Marked(d) = "checked_in",
   required |-> WorkingOn(d)]

\* applyApprovedRequestState
WithRequest(card, block) ==
  IF block = "none" THEN card
  ELSE [status |-> block, in |-> FALSE, out |-> card.status = "checked_in", required |-> FALSE]

\* getTodayRecord
TodayCard(d) == WithRequest(Enriched(d), DayBlock(d))

\* getHistory: of a day without a row there is a card if it is a holiday or a day
\* of rest, and it offers nothing (buildCalendarHistoryRecord).
CalendarDay(d) ==
  ~Recorded(d) /\ d <= today /\ (HolidayWithShift(d) \/ scheduled[d] = "rest")

HistoryCard(d) ==
  IF CalendarDay(d)
    THEN WithRequest([status |-> IF d \in holiday THEN "holiday" ELSE "rest_day",
                      in |-> FALSE, out |-> FALSE, required |-> FALSE], DayBlock(d))
    ELSE TodayCard(d)

-------------------------------------------------------------------------------
(* The rows of the schedules' summary: a row of attendance_records with the      *)
(* request of its day laid over it, or a row made up for a day of request        *)

InSummary(d) == Recorded(d) \/ SummaryLeaves(d) # {}

\* attendanceRequired of buildAttendanceSummaryRecord
SummaryRequired(d) == WorkingOn(d) /\ SummaryLeaves(d) = {}

\* absentDays: the request laid over a row replaces its status.
SummaryAbsent(d) == SummaryLeaves(d) = {} /\ RawStatus(d) = "absent"

\* estimatedDiscounts, in half days: a day absent costs one and a half.
SummaryDiscount(d) == IF SummaryAbsent(d) THEN 3 ELSE 0

\* Counts of getWorkerHomeData since the month began
HomeMonth(ds) ==
  [workedDays |-> DaysThat(ds, CheckedIn),
   absences   |-> Cardinality({d \in ds : RawStatus(d) = "absent"})]

-------------------------------------------------------------------------------
(* What the server does *)

\* checkIn: the shift has the weekday, no row, no approved request.
InAccepted(d) == HasShift(d) /\ d \in shiftDays /\ ~Recorded(d) /\ DayBlock(d) = "none"

\* checkOut asks no request.
OutAccepted(d) == HasShift(d) /\ d \in shiftDays /\ Recorded(d) /\ ~CheckedOut(d)

\* generateDailyAbsences, when the shift of an active worker is over
AbsenceDue(d) == WorkingOn(d) /\ ~Recorded(d) /\ DayBlock(d) = "none"

-------------------------------------------------------------------------------
\* The shift, or the days it has, are changed (ShiftAssignments).
ChangeShiftDays(d) ==
  /\ shiftDays' = IF d \in shiftDays THEN shiftDays \ {d} ELSE shiftDays \cup {d}
  /\ UNCHANGED viewVars

DayCardsInit == shiftDays = {}

DayCardsNext ==
  \/ NextDay /\ UNCHANGED shiftDays
  \/ \E d \in CardDays :
       \/ \E s \in {"none", "work", "rest"} : Reschedule(d, s) /\ UNCHANGED shiftDays
       \/ ChangeHoliday(d) /\ UNCHANGED shiftDays
       \/ ChangeShiftDays(d)
       \/ \E row \in RowForms : StoreRow(d, row) /\ UNCHANGED shiftDays
  \/ \E span \in LeaveSpans, type \in LeaveTypes : Approve(span, type) /\ UNCHANGED shiftDays

-------------------------------------------------------------------------------
(* Properties *)

\* Who is asked to come on a day is the same for the card, the summary and the
\* analytics.
RequiredAlike(d) ==
  WellKnown({d}) =>
    /\ d <= today => (TodayCard(d).required <=> AttendanceRequired(d))
    /\ InSummary(d) => (SummaryRequired(d) <=> TodayCard(d).required)

\* The absence comes only on a day whose card asked the worker to come, and offered
\* the check-in the server was ready to take, if the shift has the weekday.
AbsenceForewarned(d) ==
  AbsenceDue(d) => /\ TodayCard(d).required
                   /\ d \in shiftDays => TodayCard(d).in /\ InAccepted(d)

\* A day of leave offers no entry, takes none and gives no absence; a day left open
\* is offered the exit, which the server takes, leave or not.
LeaveHonoured(d) ==
  /\ DayBlock(d) # "none" =>
       ~TodayCard(d).in /\ ~HistoryCard(d).in /\ ~InAccepted(d) /\ ~AbsenceDue(d)
  /\ Marked(d) = "checked_in" =>
       /\ TodayCard(d).out /\ HomeCard(d).out /\ HistoryCard(d).out
       /\ HasShift(d) /\ d \in shiftDays => OutAccepted(d)

\* What an absence costs in the summary is what the payroll takes off, and the home
\* screen counts it as the month does while nobody has asked for leave.
AbsenceCostsAlike(d) ==
  /\ WellKnown({d}) => (SummaryDiscount(d) = 3 <=> Payslip({d}).absent = {d})
  /\ LeavesOn(d) = {} =>
       /\ HomeMonth({d}).absences = Month({d}).absenceCount
       /\ HomeMonth({d}).workedDays = Month({d}).totalWorkedDays

CardsKeepTheirWord ==
  \A d \in ViewDays :
    RequiredAlike(d) /\ AbsenceForewarned(d) /\ LeaveHonoured(d) /\ AbsenceCostsAlike(d)
===============================================================================
