----------------------------- MODULE AttendanceDay -----------------------------
(***************************************************************************)
(* The attendance records of one worker, a row for each date, as the       *)
(* handlers (check-in, check-out, correction) and the jobs                 *)
(* (automatic check-out, closing, absences, recalculation) write them:     *)
(* services/attendance-service and jobs/index.js.                          *)
(*                                                                         *)
(* A process is an HTTP request or a run of a job, on any instance of the  *)
(* program.  Each step below is the code from one awaited query to the     *)
(* next, so what a process has read may be stale when it writes.           *)
(*                                                                         *)
(* An instant is a number of ticks; a day has DayLength ticks, and date d  *)
(* begins at d * DayLength.  The worker has one shift, whose hours do not  *)
(* change once chosen, and marks the hour of the call.  A shift that ends  *)
(* at an hour not after its start ends on the next day.                    *)
(***************************************************************************)
EXTENDS Integers, FiniteSets, FiniteSetsExt

CONSTANTS
  Handlers,          \* HTTP requests in progress at the same time
  Crons,             \* job runs in progress at the same time
  Dates,             \* dates with a row
  NoRecord,          \* the worker has no row on a date
  DayLength,         \* ticks in a day
  Noon,              \* hour up to which a mark may belong to the night before
  Shifts,            \* hours a shift may have (shifts.start_time and end_time)
  Tolerance,         \* shifts.tolerance_minutes
  Break,             \* shifts.break_minutes, not paid
  Expected,          \* effective minutes of the shift
  AbsenceGrace,      \* wait after the shift before an absence (5 minutes)
  AutoCheckoutGrace, \* AUTO_CHECKOUT_GRACE_MINUTES (30 minutes)
  ShiftDays,         \* dates whose weekday the worker's shift has
  WorkingDays,       \* working dates, once rest days and holidays are resolved
  LeaveDays,         \* dates a request may be approved for
  Corrections,       \* hours and statuses a correction may carry
  Mocks,             \* values of is_mock_location
  DateShift,         \* days lost when a DATE is read in the server's time zone
  LastTick,          \* bound on the clock
  MaxFailures        \* bound on the processes that fail before they finish

NoTime == -1         \* a NULL check_in_time or check_out_time
NoMinutes == -1      \* NULL minutes

Processes == Handlers \cup Crons
Hours     == 0 .. DayLength - 1
Ticks     == 0 .. LastTick
LastDate  == LastTick \div DayLength

Statuses == {"present", "late", "absent", "incomplete", "rejected"}
Instants == Nat \cup {NoTime}
Minutes  == Nat \cup {NoMinutes}

Rows == [status : Statuses, in : Instants, out : Instants, late : Nat,
         worked : Minutes, effective : Minutes,
         auto : BOOLEAN, manual : BOOLEAN]

ASSUME AttendanceAssumption ==
  /\ DayLength \in Nat \ {0}
  /\ LastTick \in Nat /\ LastTick >= DayLength
  /\ Dates \subseteq 1 .. LastDate
  /\ NoRecord \notin Rows
  /\ Noon \in Hours
  /\ Shifts \subseteq [start : Hours, end : Hours]
  /\ {Tolerance, Break, Expected, AbsenceGrace, AutoCheckoutGrace} \subseteq Nat
  /\ ShiftDays \cup WorkingDays \subseteq 1 .. LastDate
  /\ LeaveDays \subseteq Dates
  /\ Mocks \subseteq BOOLEAN
  /\ DateShift \in {0, 1}
  /\ MaxFailures \in Nat
  /\ Corrections \subseteq [in : Hours \cup {NoTime}, out : Hours \cup {NoTime},
                            status : {"present", "absent"}]

VARIABLES
  now,               \* the clock
  shift,             \* the worker's shift
  records,           \* table attendance_records
  leave,             \* dates of approved requests
  op,                \* what each process has read and is about to do
  failures           \* processes that failed so far

vars == <<now, shift, records, leave, op, failures>>

-------------------------------------------------------------------------------
(* Dates, hours and the metrics of a day *)

DateOf(t) == t \div DayLength
HourOf(t) == t % DayLength
At(d, hour) == d * DayLength + hour

Exists(d) == d \in Dates /\ records[d] # NoRecord

NightShift == shift.start > shift.end

ScheduledIn(d) == At(d, shift.start)

ScheduledOutSameDay(d) == At(d, shift.end)               \* faulty variant

\* buildShiftMoments
ScheduledOut(d) ==
  IF shift.end <= shift.start THEN At(d + 1, shift.end) ELSE At(d, shift.end)

ElapsedSameDay(in, out) == out - in                     \* faulty variant

\* Minutes from the entry to the exit; an exit before the entry is taken to be
\* on the next day.
Elapsed(in, out) ==
  LET end == IF out < in THEN out + DayLength ELSE out
  IN  IF end < in THEN 0 ELSE end - in

\* The break is taken off only as far as the work exceeds what is expected.
Effective(worked) ==
  worked - Min({Break, Max({worked - Expected, 0})})

\* Faulty variant: lateness counted from the end of the tolerance.
MetricsFromTolerance(d, in, out, status) ==
  LET limit == ScheduledIn(d) + Tolerance
      late  == in # NoTime /\ in > limit
  IN  [status    |-> IF late THEN "late" ELSE status,
       late      |-> IF late THEN in - limit ELSE 0,
       effective |-> IF in # NoTime /\ out # NoTime
                       THEN Effective(Elapsed(in, out)) ELSE NoMinutes]

\* calculateAttendanceMetrics
Metrics(d, in, out, status) ==
  LET late == in # NoTime /\ in > ScheduledIn(d) + Tolerance
  IN  [status    |-> IF late THEN "late" ELSE status,
       late      |-> IF late THEN in - ScheduledIn(d) ELSE 0,
       effective |-> IF in # NoTime /\ out # NoTime
                       THEN Effective(Elapsed(in, out)) ELSE NoMinutes]

\* The date a mark belongs to, given the row of the day before as it is read:
\* that day while its row has no check-out, or in the morning after a night
\* shift.
LogicalDate(t) ==
  LET today == DateOf(t)
      yesterday == today - 1
  IN  IF \/ Exists(yesterday) /\ records[yesterday].out = NoTime
         \/ NightShift /\ HourOf(t) <= Noon
        THEN yesterday ELSE today

Idle == [pc |-> "idle"]

Continue(p, next) == op' = [op EXCEPT ![p] = next]

Finish(p) == Continue(p, Idle)

Undisturbed == UNCHANGED <<now, shift, leave, failures>>

-------------------------------------------------------------------------------
(* Check-in *)

\* The shift must have the weekday of the logical date; rest days and holidays,
\* which the absences go by, are not asked for.  Only the dates of the model have
\* rows.
Markable(d) == d \in ShiftDays \cap Dates

CheckInStart(h) ==
  /\ op[h] = Idle
  /\ Markable(LogicalDate(now))
  /\ Continue(h, [pc |-> "inCheck", date |-> LogicalDate(now), time |-> now])
  /\ UNCHANGED records
  /\ Undisturbed

CheckInExisting(h) ==
  /\ op[h].pc = "inCheck"
  /\ IF Exists(op[h].date)
       THEN Finish(h)
       ELSE Continue(h, [op[h] EXCEPT !.pc = "inBlock"])
  /\ UNCHANGED records
  /\ Undisturbed

CheckInBlocked(h) ==
  /\ op[h].pc = "inBlock"
  /\ IF op[h].date \in leave
       THEN Finish(h)
       ELSE Continue(h, [op[h] EXCEPT !.pc = "inInsert"])
  /\ UNCHANGED records
  /\ Undisturbed

\* The row takes the hour of the call on the logical date.  A row that another
\* process has inserted since makes the insert fail (unique worker and date).
CheckInInsert(h) ==
  /\ op[h].pc = "inInsert"
  /\ \E mock \in Mocks :
       LET d  == op[h].date
           in == At(d, HourOf(op[h].time))
           m  == Metrics(d, in, NoTime, "present")
       IN  records' = IF Exists(d) THEN records ELSE
             [records EXCEPT ![d] =
               [status |-> IF mock THEN "rejected" ELSE m.status,
                in |-> in, out |-> NoTime,
                late |-> IF mock THEN 0 ELSE m.late,
                worked |-> NoMinutes, effective |-> NoMinutes,
                auto |-> FALSE, manual |-> FALSE]]
  /\ Finish(h)
  /\ Undisturbed

-------------------------------------------------------------------------------
(* Check-out *)

CheckOutStart(h) ==
  /\ op[h] = Idle
  /\ Markable(LogicalDate(now))
  /\ Continue(h, [pc |-> "outCheck", date |-> LogicalDate(now), time |-> now])
  /\ UNCHANGED records
  /\ Undisturbed

CheckOutExisting(h) ==
  /\ op[h].pc = "outCheck"
  /\ IF Exists(op[h].date) /\ records[op[h].date].out = NoTime
       THEN Continue(h, [pc |-> "outWrite", date |-> op[h].date, time |-> op[h].time,
                         in |-> records[op[h].date].in,
                         status |-> records[op[h].date].status])
       ELSE Finish(h)
  /\ UNCHANGED records
  /\ Undisturbed

\* The exit is the hour of the call on the logical date, or the day after when
\* that is before the entry.  An entry that is missing is taken to be now.  The
\* row is updated by id, whatever has become of it.
CheckOutWrite(h) ==
  /\ op[h].pc = "outWrite"
  /\ LET d     == op[h].date
         start == At(d, HourOf(IF op[h].in = NoTime THEN now ELSE op[h].in))
         same  == At(d, HourOf(op[h].time))
         end   == IF same < start THEN same + DayLength ELSE same
         m     == Metrics(d, start, end, op[h].status)
     IN  records' = [records EXCEPT
           ![d].status = m.status, ![d].out = end, ![d].late = m.late,
           ![d].worked = end - start, ![d].effective = m.effective]
  /\ Finish(h)
  /\ Undisturbed

-------------------------------------------------------------------------------
(* Corrections and approved requests *)

\* applyManualCorrection: one upsert, whatever the row holds.
Correct(h) ==
  /\ op[h] = Idle
  /\ \E d \in Dates, c \in Corrections :
       LET in    == IF c.in = NoTime THEN NoTime ELSE At(d, c.in)
           same  == IF c.out = NoTime THEN NoTime ELSE At(d, c.out)
           out   == IF same # NoTime /\ in # NoTime /\ same < in
                      THEN same + DayLength ELSE same
           m     == Metrics(d, in, out, c.status)
       IN  records' = [records EXCEPT ![d] =
             [status |-> m.status, in |-> in, out |-> out, late |-> m.late,
              worked |-> IF in # NoTime /\ out # NoTime THEN out - in ELSE NoMinutes,
              effective |-> m.effective,
              auto |-> IF Exists(d) THEN records[d].auto ELSE FALSE,
              manual |-> TRUE]]
  /\ UNCHANGED op
  /\ Undisturbed

\* A request of the worker is approved (module Requests).
ApproveLeave(h) ==
  /\ op[h] = Idle
  /\ \E d \in LeaveDays \ leave : leave' = leave \cup {d}
  /\ UNCHANGED <<now, shift, records, op, failures>>

-------------------------------------------------------------------------------
(* Automatic check-out, with the recalculation that follows it *)

Open(d) == /\ Exists(d)
           /\ records[d].in # NoTime
           /\ records[d].out = NoTime

\* Faulty variant: only the days that are still "present".
AutoCandidatesPresent ==
  {d \in Dates : Open(d) /\ records[d].status = "present"}

\* The rows processAutoCheckouts selects; overtime_active is never set, since
\* activateOvertime looks for a status no operation stores.
AutoCandidates ==
  {d \in Dates : /\ Open(d)
                 /\ records[d].status \notin {"absent", "rejected", "checked_out"}}

\* record.date comes from the driver as midnight in the server's time zone and
\* is read back in the shift's: one day less when the server runs ahead of it.
DateRead(d) == d - DateShift

Overdue(d) == now >= ScheduledOut(DateRead(d)) + AutoCheckoutGrace

AutoRead(c) ==
  /\ op[c] = Idle
  /\ Continue(c, [pc |-> "autoWrite",
                  todo |-> {[date |-> d, in |-> records[d].in] :
                              d \in {e \in AutoCandidates : Overdue(e)}},
                  affected |-> {}])
  /\ UNCHANGED records
  /\ Undisturbed

\* UPDATE ... WHERE id AND check_out_time IS NULL, one row after the other.
AutoWrite(c) ==
  /\ op[c].pc = "autoWrite"
  /\ \E t \in op[c].todo :
       LET out == ScheduledOut(DateRead(t.date))
       IN  IF records[t.date].out = NoTime
             THEN /\ records' = [records EXCEPT
                       ![t.date].status = IF records[t.date].late > 0 THEN "late" ELSE "present",
                       ![t.date].out = out,
                       ![t.date].worked = Max({out - t.in, 0}),
                       ![t.date].auto = TRUE]
                  /\ Continue(c, [op[c] EXCEPT !.todo = @ \ {t},
                                               !.affected = @ \cup {DateRead(t.date)}])
             ELSE /\ Continue(c, [op[c] EXCEPT !.todo = @ \ {t}])
                  /\ UNCHANGED records
  /\ Undisturbed

AutoFinish(c) ==                                        \* faulty variant
  /\ op[c].pc = "autoWrite"
  /\ op[c].todo = {}
  /\ Finish(c)
  /\ UNCHANGED records
  /\ Undisturbed

AutoDone(c) ==
  /\ op[c].pc = "autoWrite"
  /\ op[c].todo = {}
  /\ Continue(c, [pc |-> "recalcRead", dates |-> op[c].affected])
  /\ UNCHANGED records
  /\ Undisturbed

\* recalculateDailyAttendance, called for each date or on demand.
RecalculateStart(h) ==
  /\ op[h] = Idle
  /\ \E d \in Dates : Continue(h, [pc |-> "recalcRead", dates |-> {d}])
  /\ UNCHANGED records
  /\ Undisturbed

RecalculateRead(p) ==
  /\ op[p].pc = "recalcRead"
  /\ IF op[p].dates = {}
       THEN Finish(p)
       ELSE \E d \in op[p].dates :
              IF Exists(d)
                THEN Continue(p, [pc |-> "recalcWrite", dates |-> op[p].dates \ {d},
                                  date |-> d, row |-> records[d]])
                ELSE Continue(p, [op[p] EXCEPT !.dates = @ \ {d}])
  /\ UNCHANGED records
  /\ Undisturbed

\* The row is updated by id from what was read: its status, lateness and
\* effective minutes, not its hours.
RecalculateWrite(p) ==
  /\ op[p].pc = "recalcWrite"
  /\ LET d   == op[p].date
         row == op[p].row
         m   == Metrics(d, row.in, row.out, row.status)
         status == IF row.status \in {"absent", "rejected"} THEN row.status ELSE m.status
     IN  records' = [records EXCEPT
           ![d].status = status,
           ![d].late = m.late,
           ![d].effective = IF m.effective # NoMinutes THEN m.effective
                            ELSE IF status = "absent" THEN 0 ELSE row.effective]
  /\ Continue(p, [pc |-> "recalcRead", dates |-> op[p].dates])
  /\ Undisturbed

-------------------------------------------------------------------------------
(* closeIncompleteAttendances *)

CloseRead(p) ==
  /\ op[p] = Idle
  /\ \E d \in Dates :
       /\ d <= DateOf(now)
       /\ Open(d)
       /\ records[d].status \notin {"absent", "rejected"}
       /\ Overdue(d)
       /\ Continue(p, [pc |-> "closeWrite", date |-> d])
  /\ UNCHANGED records
  /\ Undisturbed

CloseWriteAny(p) ==                                     \* faulty variant
  /\ op[p].pc = "closeWrite"
  /\ records' = [records EXCEPT ![op[p].date].status = "incomplete",
                                ![op[p].date].auto = TRUE]
  /\ Finish(p)
  /\ Undisturbed

CloseWrite(p) ==
  /\ op[p].pc = "closeWrite"
  /\ records' = IF records[op[p].date].out = NoTime
                  THEN [records EXCEPT ![op[p].date].status = "incomplete",
                                       ![op[p].date].auto = TRUE]
                  ELSE records
  /\ Finish(p)
  /\ Undisturbed

-------------------------------------------------------------------------------
(* generateDailyAbsences *)

\* Working day with a shift, and no row.
AbsenceRead(p) ==
  /\ op[p] = Idle
  /\ \E d \in WorkingDays \cap Dates :
       /\ d <= DateOf(now)
       /\ ~Exists(d)
       /\ Continue(p, [pc |-> "absBlock", date |-> d])
  /\ UNCHANGED records
  /\ Undisturbed

AbsenceBlockIgnored(p) ==                               \* faulty variant
  /\ op[p].pc = "absBlock"
  /\ IF now < ScheduledOut(op[p].date) + AbsenceGrace
       THEN Finish(p)
       ELSE Continue(p, [op[p] EXCEPT !.pc = "absInsert"])
  /\ UNCHANGED records
  /\ Undisturbed

\* No approved request, and the shift is over.
AbsenceBlocked(p) ==
  /\ op[p].pc = "absBlock"
  /\ IF op[p].date \in leave \/ now < ScheduledOut(op[p].date) + AbsenceGrace
       THEN Finish(p)
       ELSE Continue(p, [op[p] EXCEPT !.pc = "absInsert"])
  /\ UNCHANGED records
  /\ Undisturbed

Absence == [status |-> "absent", in |-> NoTime, out |-> NoTime, late |-> 0,
            worked |-> NoMinutes, effective |-> 0, auto |-> TRUE,
            manual |-> FALSE]

AbsenceUpsert(p) ==                                     \* faulty variant
  /\ op[p].pc = "absInsert"
  /\ records' = [records EXCEPT ![op[p].date] = Absence]
  /\ Finish(p)
  /\ Undisturbed

\* INSERT ... ON CONFLICT (worker_id, date) DO NOTHING
AbsenceInsert(p) ==
  /\ op[p].pc = "absInsert"
  /\ records' = IF Exists(op[p].date) THEN records
                ELSE [records EXCEPT ![op[p].date] = Absence]
  /\ Finish(p)
  /\ Undisturbed

-------------------------------------------------------------------------------
\* A query fails or the instance stops: the process goes no further and what it
\* has written stays written.
Fail(p) ==
  /\ op[p] # Idle
  /\ failures < MaxFailures
  /\ failures' = failures + 1
  /\ Finish(p)
  /\ UNCHANGED <<now, shift, records, leave>>

Tick ==
  /\ now < LastTick
  /\ now' = now + 1
  /\ UNCHANGED <<shift, records, leave, op, failures>>

Init ==
  /\ now = DayLength
  /\ shift \in Shifts
  /\ records = [d \in Dates |-> NoRecord]
  /\ leave = {}
  /\ op = [p \in Processes |-> Idle]
  /\ failures = 0

\* A client calls an endpoint; closing, absences and recalculation can be asked
\* for as well as scheduled.
Call(h) ==
  \/ CheckInStart(h) \/ CheckOutStart(h) \/ Correct(h)
  \/ ApproveLeave(h) \/ RecalculateStart(h) \/ CloseRead(h) \/ AbsenceRead(h)

\* The scheduler starts a job.
Schedule(c) == AutoRead(c) \/ CloseRead(c) \/ AbsenceRead(c)

\* The process's next query is served.
Step(p) ==
  \/ CheckInExisting(p) \/ CheckInBlocked(p) \/ CheckInInsert(p)
  \/ CheckOutExisting(p) \/ CheckOutWrite(p)
  \/ AutoWrite(p) \/ AutoDone(p) \/ RecalculateRead(p) \/ RecalculateWrite(p)
  \/ CloseWrite(p) \/ AbsenceBlocked(p) \/ AbsenceInsert(p)

Next ==
  \/ Tick
  \/ \E h \in Handlers : Call(h)
  \/ \E c \in Crons : Schedule(c)
  \/ \E p \in Processes : Step(p) \/ Fail(p)

Spec == Init /\ [][Next]_vars

\* Time passes, queries are answered, and the cron starts the automatic
\* check-out again and again, whatever else it starts in between.
FairSpec ==
  /\ Spec
  /\ WF_vars(Tick)
  /\ \A p \in Processes : WF_vars(Step(p))
  /\ \A c \in Crons : SF_vars(AutoRead(c))

-------------------------------------------------------------------------------
(* Properties *)

InOps      == [pc : {"inCheck", "inBlock", "inInsert"}, date : Dates, time : Nat]
OutOps     == [pc : {"outCheck"}, date : Dates, time : Nat]
OutWrites  == [pc : {"outWrite"}, date : Dates, time : Nat, in : Instants, status : Statuses]
AutoOps    == [pc : {"autoWrite"}, todo : SUBSET [date : Dates, in : Nat],
               affected : SUBSET (0 .. LastDate)]
RecalcReads  == [pc : {"recalcRead"}, dates : SUBSET (0 .. LastDate)]
RecalcWrites == [pc : {"recalcWrite"}, dates : SUBSET (0 .. LastDate), date : Dates, row : Rows]
CloseOps   == [pc : {"closeWrite"}, date : Dates]
AbsenceOps == [pc : {"absBlock", "absInsert"}, date : Dates]

Ops == {Idle} \cup InOps \cup OutOps \cup OutWrites \cup AutoOps \cup RecalcReads
              \cup RecalcWrites \cup CloseOps \cup AbsenceOps

\* The shape of the table and of what a process holds between two queries.
TypeOK ==
  /\ now \in DayLength .. LastTick
  /\ shift \in Shifts
  /\ \A d \in Dates : records[d] \in Rows \cup {NoRecord}
  /\ DOMAIN records = Dates
  /\ leave \subseteq LeaveDays
  /\ DOMAIN op = Processes
  /\ \A p \in Processes : op[p] \in Ops
  /\ failures \in 0 .. MaxFailures

Quiet == failures = 0 /\ \A p \in Processes : op[p] = Idle

\* When the shift of a date is over, counted from its start.
ShiftOver(d) ==
  ScheduledIn(d) + (IF shift.end > shift.start THEN shift.end - shift.start
                    ELSE shift.end - shift.start + DayLength)

\* An absence is given only for a working day, after the shift, to a worker who
\* has no row and no approved request on it.
AbsenceJustified ==
  [][\A d \in Dates :
       (Exists(d)' /\ records'[d] = Absence /\ (Exists(d) => records[d] # Absence))
       => /\ ~Exists(d)
          /\ d \in WorkingDays \ leave
          /\ now >= ShiftOver(d) + AbsenceGrace]_vars

\* The jobs close a day only when its own shift has been over for the grace
\* time, on the next day for a night shift.
NotClosedEarly ==
  [][\A d \in Dates :
       (Open(d) /\ ~records[d].auto /\ Exists(d)' /\ records'[d].auto)
       => now >= ShiftOver(d) + AutoCheckoutGrace]_vars

\* A day that the worker or a correction closed stays as it is for the jobs:
\* none of them marks it as closed automatically, however they interleave.
ClosedByHandStays ==
  [][\A d \in Dates :
       (Exists(d) /\ records[d].out # NoTime /\ ~records[d].auto)
       => Exists(d)' /\ ~records'[d].auto]_vars

\* A check-in is never replaced by an absence: only a correction removes it.
CheckInKept ==
  [][\A d \in Dates :
       (Exists(d) /\ records[d].in # NoTime)
       => Exists(d)' /\ (records'[d].in = records[d].in \/ records'[d].manual)]_vars

\* With nothing in progress, a row says what its marks say: the minutes of a day
\* closed after a check-in within the shift are those between the two, and it
\* counts as late exactly when it has minutes of lateness, those of its check-in;
\* whichever of check-out, correction, recalculation and job wrote it last.
RowMatchesMarks ==
  Quiet => \A d \in Dates : (Exists(d) /\ records[d].in # NoTime) =>
    /\ (records[d].out # NoTime /\ records[d].in <= ScheduledOut(d)) =>
         /\ records[d].worked = records[d].out - records[d].in
         /\ records[d].effective = Effective(records[d].worked)
    /\ records[d].status \in {"present", "late"} =>
         /\ records[d].status = "late" <=> records[d].late > 0
         /\ records[d].late > 0 => records[d].late = records[d].in - ScheduledIn(d)

\* Handler h stores the check-in of a late arrival on date d.
LateArrival(h, d) ==
  /\ op[h].pc = "inInsert" /\ op[h].date = d /\ op'[h] = Idle
  /\ ~Exists(d) /\ records'[d] # NoRecord
  /\ records'[d].status # "rejected"
  /\ op[h].time > ScheduledIn(d) + Tolerance

-------------------------------------------------------------------------------
(* What messages, comments and tests say and the code does not ensure *)

\* "Desde 08:06 se registra status = late": so is one who checks in after
\* midnight, for a night shift that began the day before.
NightArrivalRecorded ==
  [][\A h \in Handlers, d \in Dates :
       LateArrival(h, d) => records'[d].status = "late"]_vars

-------------------------------------------------------------------------------
\* A day with a check-in that was not rejected is closed in the end, by the
\* worker or by the automatic check-out.
OpenDayCloses ==
  \A d \in Dates :
    (Open(d) /\ records[d].status # "rejected" /\ failures = 0)
    ~> (~Open(d) \/ failures > 0)

===============================================================================
