------------------------------- MODULE Analytics -------------------------------
(***************************************************************************)
(* Company analytics (analytics.service.js): the rows of a period, one for *)
(* each worker and day, and what the dashboard, its charts, rankings, the  *)
(* table and the detail of a worker, an area, a crew or a place make of    *)
(* the same rows.                                                          *)
(*                                                                         *)
(* DayViews says how the tables give a day its status; here a day is of    *)
(* one of the kinds that come out of it.  Departments and positions go     *)
(* with the worker as areas do, and are modelled by them.                  *)
(***************************************************************************)
EXTENDS Integers, Sequences, FiniteSetsExt, SequencesExt

CONSTANTS
  People,          \* workers, numbered in the order of their names
  Units,           \* areas, crews and places
  LastCounted,     \* days of the calendar
  DayKinds,        \* what DayViews makes of a day
  TrendDays,       \* days of a bar of the weekly trend
  MaxMoves         \* bound on the changes of the tables

\* A day that is not required has no flag and a status that says why, or is to
\* come; on a required one the status follows from the flags.
PossibleKinds ==
  LET Kind(status, required, attended, late, completed) ==
        [status |-> status, required |-> required, attended |-> attended,
         late |-> late, completed |-> completed]
  IN {Kind(status, FALSE, FALSE, FALSE, FALSE) :
        status \in {"vacation", "medical_leave", "unpaid_leave", "holiday", "rest_day",
                    "no_schedule", "pending"}}
     \cup {Kind(status, TRUE, FALSE, FALSE, FALSE) : status \in {"absent", "pending"}}
     \cup {Kind("incomplete", TRUE, TRUE, late, FALSE) : late \in BOOLEAN}
     \cup {Kind("late", TRUE, TRUE, TRUE, TRUE), Kind("present", TRUE, TRUE, FALSE, TRUE)}

ASSUME AnalyticsAssumption ==
  /\ People \subseteq Nat \ {0} /\ Units \subseteq Nat \ {0} /\ IsFiniteSet(People)
  /\ LastCounted \in Nat \ {0} /\ TrendDays \in Nat \ {0} /\ MaxMoves \in Nat
  /\ DayKinds \subseteq PossibleKinds

Nothing == 0       \* the id is null

Calendar == 1 .. LastCounted

VARIABLES
  hired,           \* workers.hire_date
  contractEnd,     \* end of the active contract, or Nothing for one without an end
  area,            \* workers.area_id
  base,            \* workers.work_location_id
  sentTo,          \* of each day: the place of the record or of the assignment
  crewMoves,       \* crew_workers: the crews entered, in order; each row ends as the next begins
  days,            \* what each day was
  moves

analyticsVars == <<hired, contractEnd, area, base, sentTo, crewMoves, days, moves>>

AnalyticsTypeOK ==
  /\ hired \in [People -> Calendar]
  /\ contractEnd \in [People -> Calendar \cup {Nothing}]
  /\ area \in [People -> Units \cup {Nothing}]
  /\ base \in [People -> Units \cup {Nothing}]
  /\ sentTo \in [People -> [Calendar -> Units \cup {Nothing}]]
  /\ crewMoves \in [People -> Seq([crew : Units \cup {Nothing}, from : Calendar])]
  /\ days \in [People -> [Calendar -> DayKinds]]
  /\ moves \in 0 .. MaxMoves

-------------------------------------------------------------------------------
(* The rows: base_workers, worker_dates, resolved *)

\* cw.assigned_at::date <= to AND (cw.unassigned_at IS NULL OR ...::date >= from)
CrewRowMeets(w, i, from, to) ==
  LET rows == crewMoves[w]
  IN  /\ rows[i].crew # Nothing /\ rows[i].from <= to
      /\ i = Len(rows) \/ rows[i + 1].from >= from

\* crew_data: of the rows that cover the day, the last one entered
CrewOn(w, d) ==
  LET rows == {i \in DOMAIN crewMoves[w] : CrewRowMeets(w, i, d, d)}
  IN  IF rows = {} THEN Nothing ELSE crewMoves[w][Max(rows)].crew

\* COALESCE(record, assignment, base)
PlaceOn(w, d) == IF sentTo[w][d] # Nothing THEN sentTo[w][d] ELSE base[w]

NoFilter == [worker |-> Nothing, area |-> Nothing, place |-> Nothing, crew |-> Nothing,
             statuses |-> {}]

\* buildSqlFilters: a crew selects those who were in it on any day of the period.
Selected(w, from, to, filter) ==
  /\ filter.worker \in {Nothing, w}
  /\ filter.area \in {Nothing, area[w]}
  /\ filter.place \in {Nothing, base[w]}
  /\ filter.crew # Nothing =>
       \E i \in DOMAIN crewMoves[w] :
         crewMoves[w][i].crew = filter.crew /\ CrewRowMeets(w, i, from, to)

\* From the hiring to the end of the contract in force at some time in the period;
\* one that ended before it sets no limit.
CountedDays(w, from, to) ==
  {d \in from .. to :
     d >= hired[w] /\ (contractEnd[w] \in from .. LastCounted => d <= contractEnd[w])}

\* getDataset
Dataset(from, to, filter) ==
  {row \in UNION {{[worker |-> w, date |-> d, area |-> area[w], place |-> PlaceOn(w, d),
                    crew |-> CrewOn(w, d), day |-> days[w][d]] :
                     d \in CountedDays(w, from, to)} :
                  w \in {w \in People : Selected(w, from, to, filter)}} :
     filter.statuses = {} \/ row.day.status \in filter.statuses}

-------------------------------------------------------------------------------
(* Counts and rates *)

CountsOf(rows) ==
  LET With(status) == Cardinality({r \in rows : r.day.status = status})
  IN [scheduledWorkDays |-> Cardinality({r \in rows : r.day.required}),
      presentCount |-> Cardinality({r \in rows : r.day.attended}),
      onTimeCount |-> Cardinality({r \in rows : r.day.attended /\ ~r.day.late}),
      lateCount |-> Cardinality({r \in rows : r.day.late}),
      completedShiftCount |-> Cardinality({r \in rows : r.day.completed}),
      absentCount |-> With("absent"), vacationCount |-> With("vacation"),
      medicalLeaveCount |-> With("medical_leave"), unpaidLeaveCount |-> With("unpaid_leave"),
      holidayCount |-> With("holiday"), restDayCount |-> With("rest_day"),
      noScheduleCount |-> With("no_schedule"), incompleteCount |-> With("incomplete"),
      pendingCount |-> With("pending")]

Workers(rows) == {r.worker : r \in rows}                    \* totalWorkers

\* safeRate: hundredths of a per cent, rounded
Rate(n, of) == IF of = 0 THEN 0 ELSE (2 * n * 10000 + of) \div (2 * of)

\* finalizeMetrics: the rates, and a score from 0 to 100 that absences, late
\* arrivals and open days take points from.
Rates(m) ==
  LET attendance == Rate(m.presentCount, m.scheduledWorkDays)
      punctuality == Rate(m.onTimeCount, m.presentCount)
      completed == Rate(m.completedShiftCount, m.presentCount)
      tenths == 5 * attendance + 3 * punctuality + 2 * completed
                  - 5000 * m.absentCount - 2000 * m.lateCount - 1000 * m.incompleteCount
  IN [attendanceRate |-> attendance,
      punctualityRate |-> punctuality,
      completedShiftRate |-> completed,
      absenceRate |-> Rate(m.absentCount, m.scheduledWorkDays),
      lateRate |-> Rate(m.lateCount, m.presentCount),
      score |-> IF tenths < 0 THEN 0 ELSE (tenths + 5) \div 10]

SkipNullGroups(rows, by) == {r[by] : r \in rows} \ {Nothing}  \* faulty variant

\* groupRows: rows without an id are a group of their own ("Sin area").
GroupKeys(rows, by) == {r[by] : r \in rows}
Group(rows, by, key) == {r \in rows : r[by] = key}

Sum(counts, keys) ==                \* counts: a function from keys to counts
  [f \in DOMAIN CountsOf({}) |-> MapThenSumSet(LAMBDA k : counts[k][f], keys)]

\* byArea, byWorkLocation, byCrew
Chart(rows, by) == [key \in GroupKeys(rows, by) |-> CountsOf(Group(rows, by, key))]

\* buildDailyTrend: every day of the period, with rows or not
DailyTrend(rows, from, to) == [d \in from .. to |-> CountsOf({r \in rows : r.date = d})]

\* buildWeeklyTrend
WeeklyTrend(daily, from, to) ==
  LET Week(d) == (d - from) \div TrendDays
  IN [k \in {Week(d) : d \in from .. to} |-> Sum(daily, {d \in from .. to : Week(d) = k})]

-------------------------------------------------------------------------------
(* Rankings *)

Before(a, b) == \E i \in DOMAIN a : a[i] > b[i] /\ \A j \in 1 .. i - 1 : a[j] = b[j]

\* rank: the first of those in order of their keys; none has the key of another.
Rank(keys, limit) ==
  LET all == DOMAIN keys
      Place(k) == Cardinality({l \in all : Before(keys[l], keys[k])}) + 1
      few == IF limit < Cardinality(all) THEN limit ELSE Cardinality(all)
  IN  [n \in 1 .. few |-> CHOOSE k \in all : Place(k) = n]

\* The order in which the rows, by date and name, bring up the workers
FirstRow(rows, w) == Min({r.date * (Max(People) + 1) + w : r \in {r \in rows : r.worker = w}})

\* buildRankings, of workers
Rankings(rows, limit) ==
  LET m == Chart(rows, "worker")
      r == [w \in DOMAIN m |-> Rates(m[w])]
      Those(f) == {w \in DOMAIN m : m[w][f] > 0}
  IN [topAbsent |-> Rank([w \in Those("absentCount") |->
                            <<m[w].absentCount, r[w].absenceRate, -w>>], limit),
      topLate |-> Rank([w \in Those("lateCount") |-> <<m[w].lateCount, -w>>], limit),
      bestAttendance |-> Rank([w \in Those("scheduledWorkDays") |->
                                 <<r[w].score, r[w].attendanceRate, -m[w].absentCount,
                                   -FirstRow(rows, w)>>], limit),
      bestPunctuality |-> Rank([w \in Those("presentCount") |->
                                  <<r[w].punctualityRate, -m[w].lateCount, -w>>], limit)]

\* buildDimensionRankings, of crews and places
DimensionRanking(rows, by, limit) ==
  LET m == Chart(rows, by)
  IN  Rank([k \in {k \in DOMAIN m : m[k].absentCount > 0} |->
              <<m[k].absentCount, Rates(m[k]).absenceRate, -k>>], limit)

\* getAggregateDetail, getWorkerDetail: a dataset of its own, filtered in SQL
Detail(by, id, from, to) ==
  Dataset(from, to, [NoFilter EXCEPT ![by] = id])

-------------------------------------------------------------------------------
(* The tables change *)

Move == moves < MaxMoves /\ moves' = moves + 1

Hire(w, d) ==
  /\ Move /\ hired' = [hired EXCEPT ![w] = d]
  /\ UNCHANGED <<contractEnd, area, base, sentTo, crewMoves, days>>

EndContract(w, d) ==
  /\ Move /\ d >= hired[w] /\ contractEnd' = [contractEnd EXCEPT ![w] = d]
  /\ UNCHANGED <<hired, area, base, sentTo, crewMoves, days>>

Relocate(w, u) ==
  /\ Move
  /\ \/ area' = [area EXCEPT ![w] = u] /\ UNCHANGED base
     \/ base' = [base EXCEPT ![w] = u] /\ UNCHANGED area
  /\ UNCHANGED <<hired, contractEnd, sentTo, crewMoves, days>>

Send(w, d, u) ==
  /\ Move /\ sentTo' = [sentTo EXCEPT ![w][d] = u]
  /\ UNCHANGED <<hired, contractEnd, area, base, crewMoves, days>>

\* A worker enters a crew, or none, no earlier than the crew before.
EnterCrew(w, crew, d) ==
  /\ Move
  /\ crewMoves[w] # <<>> => Last(crewMoves[w]).from <= d
  /\ crewMoves' = [crewMoves EXCEPT ![w] = Append(@, [crew |-> crew, from |-> d])]
  /\ UNCHANGED <<hired, contractEnd, area, base, sentTo, days>>

Pass(w, d, kind) ==
  /\ Move /\ days' = [days EXCEPT ![w][d] = kind]
  /\ UNCHANGED <<hired, contractEnd, area, base, sentTo, crewMoves>>

AnalyticsInit ==
  /\ hired = [w \in People |-> 1]
  /\ contractEnd = [w \in People |-> Nothing]
  /\ area = [w \in People |-> Nothing] /\ base = [w \in People |-> Nothing]
  /\ sentTo = [w \in People |-> [d \in Calendar |-> Nothing]]
  /\ crewMoves = [w \in People |-> <<>>]
  /\ days \in [People -> {[d \in Calendar |-> kind] : kind \in DayKinds}]
  /\ moves = 0

AnalyticsNext ==
  \E w \in People :
    \/ \E d \in Calendar : Hire(w, d) \/ EndContract(w, d)
    \/ \E u \in Units : Relocate(w, u)
    \/ \E d \in Calendar, u \in Units : Send(w, d, u)
    \/ \E d \in Calendar, u \in Units \cup {Nothing} : EnterCrew(w, u, d)
    \/ \E d \in Calendar, kind \in DayKinds : Pass(w, d, kind)

AnalyticsSpec == AnalyticsInit /\ [][AnalyticsNext]_analyticsVars

-------------------------------------------------------------------------------
(* Properties *)

RowsOfPeriod(from, to) == Dataset(from, to, NoFilter)

Hundredths == 0 .. 10000            \* of a per cent

\* The charts, the trends and the totals of a dashboard are cut from the same rows
\* in different ways, and add up: every required day was attended, an absence or is
\* to come; no rate and no score passes a hundred; each chart and each trend sums to
\* the totals, for the whole company and under any filter of status.
ChartsAddUp(rows, from, to) ==
  LET total == CountsOf(rows)
      daily == DailyTrend(rows, from, to)
      weekly == WeeklyTrend(daily, from, to)
      rates == Rates(total)
  IN /\ total.presentCount = total.onTimeCount + total.lateCount
     /\ total.scheduledWorkDays = total.presentCount + total.absentCount
          + Cardinality({r \in rows : r.day.required /\ r.day.status = "pending"})
     /\ \A f \in DOMAIN rates : rates[f] \in Hundredths
     /\ \A by \in {"worker", "area", "place", "crew"} :
          Sum(Chart(rows, by), GroupKeys(rows, by)) = total
     /\ Sum(daily, from .. to) = total
     /\ Sum(weekly, DOMAIN weekly) = total

\* What one opens from the dashboard shows the same rows: the detail of a worker or
\* of an area is its group in the chart; that of a crew has at least the days its
\* members were in it (it has all the days of whoever was).
DetailsMatchCharts(from, to) ==
  LET rows == RowsOfPeriod(from, to)
  IN /\ \A w \in Workers(rows) : Detail("worker", w, from, to) = Group(rows, "worker", w)
     /\ \A u \in Units :
          /\ Detail("area", u, from, to) = Group(rows, "area", u)
          /\ Group(rows, "crew", u) \subseteq Detail("crew", u, from, to)

\* The rankings list whom they should: the first of the absent has the most absences,
\* and everyone with one is in a list that is long enough.
ListsAreComplete(rows) ==
  LET ranked == Rankings(rows, Cardinality(People))
      one == Rankings(rows, 1)
      m == Chart(rows, "worker")
  IN /\ ToSet(ranked.topAbsent) = {w \in DOMAIN m : m[w].absentCount > 0}
     /\ \A f \in DOMAIN one : one[f] # <<>> => one[f][1] = ranked[f][1]
     /\ one.topAbsent # <<>> =>
          \A w \in DOMAIN m : m[w].absentCount <= m[one.topAbsent[1]].absentCount

DashboardAddsUp ==
  \A from \in Calendar : \A to \in from .. LastCounted :
    LET rows == RowsOfPeriod(from, to)
    IN /\ ChartsAddUp(rows, from, to)
       /\ ChartsAddUp(Dataset(from, to, [NoFilter EXCEPT !.statuses = {"absent", "late"}]), from, to)
       /\ DetailsMatchCharts(from, to)
       /\ ListsAreComplete(rows)
===============================================================================
