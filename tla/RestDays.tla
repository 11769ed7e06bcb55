------------------------------- MODULE RestDays -------------------------------
(***************************************************************************)
(* The rest days of one worker and the holidays: laborSchedule.service.js  *)
(* (setRestDay, removeRestDay, resolveWorkerSchedule, getWorkerRestDays),  *)
(* holiday.controller.js and the query of analytics.service.js.            *)
(*                                                                         *)
(* A plan is stored twice: as a configuration of the worker and as the     *)
(* dates of its first weeks.  Three queries decide from both whether a     *)
(* date is one of rest.  Dates are numbers, the first one the first day of *)
(* a week.                                                                 *)
(***************************************************************************)
EXTENDS Integers

CONSTANTS
  WeekLength,      \* days of a week
  LastDate,
  PlanWeeks,       \* weeks a plan is stored for (52)
  Created,         \* EXTRACT(EPOCH FROM workers.created_at), in half seconds
  ServerLag,       \* how many days moment(date).tz(...) is behind: 1 on a UTC server
  DefaultDays,     \* the working days of the policy, for a shift that names none
  HolidayDates     \* dates a holiday may be declared on

ASSUME RestDaysAssumption ==
  /\ {WeekLength, LastDate, PlanWeeks} \subseteq Nat \ {0}
  /\ Created \in Nat /\ ServerLag \in {0, 1}
  /\ HolidayDates \subseteq 1 .. LastDate
  /\ DefaultDays \subseteq 1 .. WeekLength

RestDates == 1 .. LastDate
Weekdays == 1 .. WeekLength
PlanTypes == {"fijo", "rotativo"}
NoRest == "none"
NoWeekday == 0                       \* fixed_rest_day_of_week IS NULL

\* What a shift says of the days of the week: working_days, is_rotating.
WeekShifts == [rotating : BOOLEAN, days : SUBSET Weekdays]

VARIABLES
  plan,            \* workers: rest_day_type, fixed_rest_day_of_week
  restRows,        \* worker_rest_days: the type of the row of each date
  holidays         \* holidays: whether the date has a row, and an active one

restVars == <<plan, restRows, holidays>>

RestDaysTypeOK ==
  /\ plan \in [type : PlanTypes \cup {"manual"}, weekday : Weekdays \cup {NoWeekday}]
  /\ restRows \in [RestDates -> PlanTypes \cup {"manual", NoRest}]
  /\ holidays \in [HolidayDates -> {"none", "active", "inactive"}]

-------------------------------------------------------------------------------
Weekday(d) == ((d - 1) % WeekLength) + 1
Week(d) == ((d - 1) \div WeekLength) + 1
WeekStart(d) == d - Weekday(d) + 1

\* The weekday a rotating plan has in a week; the query of analytics rounds the
\* time of creation, the services cut it off.
RotatingDay(seed, week) == ((seed + week) % WeekLength) + 1
Seed == Created \div 2
RoundedSeed == (Created + 1) \div 2

FixedRestDates(start, weekday) ==
  {d \in RestDates : /\ Weekday(d) = weekday
                     /\ d \in start .. start + PlanWeeks * WeekLength - 1}

\* The first week may have none: its day may be before the start.
RotatingRestDates(start) ==
  {d \in RestDates : /\ Weekday(d) = RotatingDay(Seed, Week(d))
                     /\ d \in start .. WeekStart(start) + PlanWeeks * WeekLength - 1}

PlannedDates == {d \in RestDates : restRows[d] \in PlanTypes}

\* A new plan replaces the dates of the old one from its start on, and takes
\* over the ones a date by hand has.
SetPlan(type, weekday, start) ==
  LET dates == IF type = "fijo" THEN FixedRestDates(start, weekday)
                                ELSE RotatingRestDates(start)
  IN /\ plan' = [type |-> type, weekday |-> weekday]
     /\ restRows' = [d \in RestDates |->
          CASE d \in dates -> type
            [] d \notin dates /\ d >= start /\ d \in PlannedDates -> NoRest
            [] OTHER -> restRows[d]]
     /\ UNCHANGED holidays

SetFixedFromZero(weekday, start) ==                         \* faulty variant
  SetPlan("fijo", weekday + 1, start)

SetFixed(weekday, start) == SetPlan("fijo", weekday, start)
SetRotating(start) == SetPlan("rotativo", NoWeekday, start)

SetManual(d) ==
  /\ restRows' = [restRows EXCEPT ![d] = "manual"]
  /\ UNCHANGED <<plan, holidays>>

RemoveRestDay(d) ==
  /\ restRows' = [restRows EXCEPT ![d] = NoRest]
  /\ UNCHANGED <<plan, holidays>>

\* A cancelled holiday keeps its date: only an update brings it back.
CreateHoliday(d, active) ==
  /\ holidays[d] = "none"
  /\ holidays' = [holidays EXCEPT ![d] = IF active THEN "active" ELSE "inactive"]
  /\ UNCHANGED <<plan, restRows>>

UpdateHoliday(d, e, active) ==
  /\ holidays[d] # "none"
  /\ e = d \/ holidays[e] = "none"
  /\ holidays' = [holidays EXCEPT ![d] = "none", ![e] = IF active THEN "active" ELSE "inactive"]
  /\ UNCHANGED <<plan, restRows>>

DeleteHoliday(d) ==
  /\ holidays[d] # "none"
  /\ holidays' = [holidays EXCEPT ![d] = "inactive"]
  /\ UNCHANGED <<plan, restRows>>

-------------------------------------------------------------------------------
(* The dates before the first one stored are answered by the configuration. *)

BeforePlanned(d) == \A e \in PlannedDates : d < e

ByConfiguration(d) ==
  CASE plan.type = "fijo" -> Weekday(d) = plan.weekday
    [] plan.type = "rotativo" -> Weekday(d) = RotatingDay(Seed, Week(d))
    [] OTHER -> FALSE

\* resolveWorkerSchedule: isRestDay
IsRestDay(d) ==
  restRows[d] # NoRest \/ (BeforePlanned(d) /\ ByConfiguration(d - ServerLag))

IsHoliday(d) == d \in HolidayDates /\ holidays[d] = "active"

InWorkingWeek(s, d) ==
  CASE plan.type = "fijo" -> Weekday(d) # plan.weekday
    [] plan.type # "fijo" /\ s.days = {} -> Weekday(d) \in DefaultDays
    [] OTHER -> Weekday(d) \in s.days

RotatesFirst(s, d) ==                                       \* faulty variant
  IF s.rotating /\ plan.type = "manual"
    THEN Weekday(d) # RotatingDay(Seed, Week(d))
    ELSE InWorkingWeek(s, d) /\ ~IsRestDay(d) /\ ~IsHoliday(d)

\* resolveWorkerSchedule: isWorkingDay
IsWorkingDay(s, d) ==
  /\ ~IsRestDay(d)
  /\ ~IsHoliday(d)
  /\ IF s.rotating /\ plan.type = "manual"
       THEN Weekday(d) # RotatingDay(Seed, Week(d))
       ELSE InWorkingWeek(s, d)

\* getWorkerRestDays: what the calendar paints in a range
CalendarRestDays(from, to) ==
  {d \in from .. to : restRows[d] # NoRest} \cup
  {d \in from - ServerLag .. to - ServerLag :
     /\ \A e \in PlannedDates : d < e - ServerLag
     /\ ByConfiguration(d)}

\* buildDatasetQuery: is_rest_day, the configuration on whatever date
AnalyticsRestDay(d) ==
  \/ restRows[d] # NoRest
  \/ plan.type = "fijo" /\ Weekday(d) = plan.weekday
  \/ plan.type = "rotativo" /\ Weekday(d) = RotatingDay(RoundedSeed, Week(d))

\* buildDatasetQuery: scheduled_day, with the working days of the shift
AnalyticsScheduled(s, d) ==
  (s.days = {} \/ Weekday(d) \in s.days) /\ ~AnalyticsRestDay(d)

-------------------------------------------------------------------------------
RestDaysInit ==
  /\ plan = [type |-> "manual", weekday |-> NoWeekday]
  /\ restRows = [d \in RestDates |-> NoRest]
  /\ holidays = [d \in HolidayDates |-> "none"]

RestDaysNext ==
  \/ \E d \in RestDates :
       \/ \E weekday \in Weekdays : SetFixed(weekday, d)
       \/ SetRotating(d) \/ SetManual(d) \/ RemoveRestDay(d)
  \/ \E d \in HolidayDates :
       \/ \E active \in BOOLEAN :
            CreateHoliday(d, active) \/ \E e \in HolidayDates : UpdateHoliday(d, e, active)
       \/ DeleteHoliday(d)

RestDaysSpec == RestDaysInit /\ [][RestDaysNext]_restVars

-------------------------------------------------------------------------------
(* Properties *)

\* A rest day the calendar paints, stored or of a fixed plan, is a working day
\* neither for the marks and the jobs nor for analytics, which would count an
\* absence: each of them decides from the two places in its own way.  (Of a rotating
\* plan this holds for the stored dates: on earlier ones the services and the
\* query may rotate from different seconds, and on a server in UTC from
\* different days.)
RestNeverScheduled ==
  \A d \in CalendarRestDays(1, LastDate) \cap RestDates :
    (restRows[d] # NoRest \/ plan.type = "fijo") =>
      \A s \in WeekShifts : ~IsWorkingDay(s, d) /\ ~AnalyticsScheduled(s, d)
===============================================================================
