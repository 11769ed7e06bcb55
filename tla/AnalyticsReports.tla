--------------------------- MODULE AnalyticsReports ---------------------------
(***************************************************************************)
(* What the pages and the files of the analytics show (the class           *)
(* AttendanceAnalyticsService): the figures of a period, the table of      *)
(* workers with its search, order and pages, the page of a worker or of an *)
(* area, a crew or a place, the exported files and the recalculation.      *)
(*                                                                         *)
(* Each asks for a dataset of its own, so what one shows another may not.  *)
(***************************************************************************)
EXTENDS Analytics

\* buildStatusDistribution: whoever came on time is present, left open or not.
Distribution(m) ==
  [present |-> m.onTimeCount, late |-> m.lateCount, absent |-> m.absentCount,
   vacation |-> m.vacationCount, medical_leave |-> m.medicalLeaveCount,
   unpaid_leave |-> m.unpaidLeaveCount, holiday |-> m.holidayCount,
   rest_day |-> m.restDayCount, no_schedule |-> m.noScheduleCount,
   incomplete |-> m.incompleteCount, pending |-> m.pendingCount]

InAll(distribution) ==
  MapThenSumSet(LAMBDA s : distribution[s], DOMAIN distribution)

\* emptyMetrics
NoMetrics == [f \in DOMAIN CountsOf({}) |-> 0]

LastDateOf(rows) == IF rows = {} THEN Nothing ELSE Max({r.date : r \in rows})

EarliestOf(rows) == CHOOSE r \in rows : \A s \in rows : r.date <= s.date

\* workerSummaries: a worker's place and crew are those of the first of the rows.
WorkerItem(rows, w) ==
  LET own == Group(rows, "worker", w)
      first == EarliestOf(own)
  IN [counts |-> CountsOf(own), area |-> first.area, place |-> first.place, crew |-> first.crew,
      lastLateAt |-> LastDateOf({r \in own : r.day.status = "late" \/ r.day.late}),
      lastAbsenceAt |-> LastDateOf({r \in own : r.day.status = "absent"})]

\* summarize
PeriodSummary(rows) ==
  [counts |-> CountsOf(rows), totalWorkers |-> Cardinality(Workers(rows)),
   totalWorkDays |-> Cardinality({r.date : r \in {r \in rows : r.day.required}})]

\* getToday: the summary of a day, in which a required day is a worker.
Today(date) ==
  LET summary == PeriodSummary(Dataset(date, date, NoFilter))
  IN [summary |-> summary, scheduledWorkers |-> summary.counts.scheduledWorkDays,
      distribution |-> Distribution(summary.counts)]

\* getWorkerSummary: zeros for a worker without rows
WorkerSummary(w, from, to) ==
  LET rows == Detail("worker", w, from, to)
  IN  IF rows = {} THEN NoMetrics ELSE WorkerItem(rows, w).counts

\* getTrend, of weeks: a week has the workers of its fullest day.
WeekWorkers(rows, from, to) ==
  LET Week(d) == (d - from) \div TrendDays
  IN [k \in {Week(d) : d \in from .. to} |->
        Max({Cardinality({r \in rows : r.date = d}) : d \in {d \in from .. to : Week(d) = k}})]

-------------------------------------------------------------------------------
(* The table *)

\* filterBySearch: the text is looked for in every name of the row.
Matches(item, text) == text = Nothing \/ text \in {item.area, item.place, item.crew}

\* sortItems: by a field, either way; those that tie by name.
InOrder(rows, workers, field, direction) ==
  LET Value(w) == IF field = "fullName" THEN w ELSE WorkerItem(rows, w).counts[field]
      sign == IF direction = "asc" THEN -1 ELSE 1
  IN  Rank([w \in workers |-> <<sign * Value(w), -w>>], Cardinality(workers))

\* The rows of buildTableResponse before they are cut, and of the exported table
TableRows(rows, text, field, direction) ==
  InOrder(rows, {w \in Workers(rows) : Matches(WorkerItem(rows, w), text)}, field, direction)

\* paginate
TableSlice(items, page, size) ==
  SubSeq(items, (page - 1) * size + 1, Min({page * size, Len(items)}))

-------------------------------------------------------------------------------
(* The pages *)

\* buildWorkerDetailResponse: there is none for a worker without rows; the status
\* shown is that of the last day not after today, whatever statuses are asked for.
WorkerKnown(w, from, to) == Detail("worker", w, from, to) # {}

CurrentStatus(all, today) ==
  LET past == {r \in all : r.date <= today}
  IN  (IF past = {} THEN EarliestOf(all)
       ELSE CHOOSE r \in past : r.date = LastDateOf(past)).day.status

WorkerPage(w, from, to, statuses, today) ==
  LET all == Detail("worker", w, from, to)
      rows == Dataset(from, to, [NoFilter EXCEPT !.worker = w, !.statuses = statuses])
  IN [summary |-> CountsOf(rows),
      calendar |-> Rank([r \in rows |-> <<-r.date>>], Cardinality(rows)),
      currentStatus |-> CurrentStatus(all, today)]

\* buildAggregateDetailResponse
EntityPage(by, id, from, to, limit) ==
  LET rows == Detail(by, id, from, to)
  IN [totalWorkers |-> Cardinality(Workers(rows)), counts |-> CountsOf(rows),
      trend |-> DailyTrend(rows, from, to), distribution |-> Distribution(CountsOf(rows)),
      rankings |-> Rankings(rows, limit)]

\* getDashboard
DashboardOf(rows, from, to, limit) ==
  LET daily == DailyTrend(rows, from, to)
  IN [kpis |-> PeriodSummary(rows), rankings |-> Rankings(rows, limit),
      topAbsentCrews |-> DimensionRanking(rows, "crew", limit),
      topAbsentWorkLocations |-> DimensionRanking(rows, "place", limit),
      distribution |-> Distribution(CountsOf(rows)),
      dailyTrend |-> daily, weeklyTrend |-> WeeklyTrend(daily, from, to),
      byArea |-> Chart(rows, "area"), byWorkLocation |-> Chart(rows, "place"),
      byCrew |-> Chart(rows, "crew")]

\* getKpis: the first of each ranking
Foremost(seq) == IF seq = <<>> THEN Nothing ELSE Head(seq)

LeadingKpis(rows) ==
  LET ranked == Rankings(rows, 1)
  IN [summary |-> PeriodSummary(rows),
      bestAttendanceWorker |-> Foremost(ranked.bestAttendance),
      mostLateWorker |-> Foremost(ranked.topLate),
      mostAbsentWorker |-> Foremost(ranked.topAbsent),
      areaWithMostAbsences |-> Foremost(DimensionRanking(rows, "area", 1))]

-------------------------------------------------------------------------------
(* The files: of a section, what it is about and its value *)

\* flattenStatusDistribution
DistributionRows(distribution) ==
  {<<"statusDistribution", s, distribution[s]>> : s \in DOMAIN distribution}

\* flattenRanking
RankingRows(name, workers, values) ==
  {<<name, workers[i], values[workers[i]]>> : i \in DOMAIN workers}

KpiRows(counts) == {<<"KPIs", f, counts[f]>> : f \in DOMAIN counts}         \* flattenKpis

\* dashboardToExportRows and aggregateDetailToExportRows take the same sections.
FileOf(rows, limit) ==
  LET counts == CountsOf(rows)
      m == Chart(rows, "worker")
      ranked == Rankings(rows, limit)
  IN  KpiRows(counts) \cup DistributionRows(Distribution(counts))
      \cup RankingRows("topAbsentWorkers", ranked.topAbsent, [w \in DOMAIN m |-> m[w].absentCount])
      \cup RankingRows("topLateWorkers", ranked.topLate, [w \in DOMAIN m |-> m[w].lateCount])

\* workerDetailToExportRows
WorkerFile(w, from, to) == WorkerPage(w, from, to, {}, to).calendar

\* exportAnalytics, of a scope
FileRowsOf(scope, id, from, to, limit) ==
  LET rows == Dataset(from, to, NoFilter)
      table == TableRows(rows, Nothing, "fullName", "asc")
  IN CASE scope = "dashboard" -> FileOf(rows, limit)
       [] scope = "table" -> {<<"table", i, table[i]>> : i \in DOMAIN table}
       [] scope = "worker" -> LET file == WorkerFile(id, from, to)
                              IN {<<"worker", file[i].date, file[i].day.status>> : i \in DOMAIN file}
       [] OTHER -> FileOf(Detail(scope, id, from, to), limit)

\* recalculate: the row of attendance_analytics_recalculations; no figure changes.
Recalculation(from, to) ==
  LET dashboard == DashboardOf(Dataset(from, to, NoFilter), from, to, 10)
  IN  [workers |-> dashboard.kpis.totalWorkers, days |-> to - from + 1]

-------------------------------------------------------------------------------
(* Properties *)

\* The figures of a period: a day left open is in the distribution twice, every other
\* once; those of a worker are the same asked for alone, and of one day they count
\* workers; no week counts more workers than the period nor fewer than one of its days.
PeriodFiguresAgree(from, to) ==
  LET rows == Dataset(from, to, NoFilter)
      counts == CountsOf(rows)
      weeks == WeekWorkers(rows, from, to)
  IN /\ InAll(Distribution(counts)) = Cardinality(rows) + counts.incompleteCount
     /\ \A w \in People : WorkerSummary(w, from, to) =
          IF w \in Workers(rows) THEN Chart(rows, "worker")[w] ELSE NoMetrics
     /\ \A k \in DOMAIN weeks : weeks[k] <= Cardinality(Workers(rows))
     /\ from = to => Today(from).scheduledWorkers <= Cardinality(Workers(rows))
     /\ Recalculation(from, to) =
          [workers |-> Cardinality(Workers(rows)), days |-> Cardinality(DOMAIN DailyTrend(rows, from, to))]

\* The pages of the table, one after the other, are the exported table, in any order
\* and for any text; without a text nobody is missing, and a text that names an area
\* finds all of it.  The first by absences has as many as the one the KPIs name.
TableComplete(from, to) ==
  LET rows == Dataset(from, to, NoFilter)
      all == Workers(rows)
      kpis == LeadingKpis(rows)
  IN /\ \A text \in Units \cup {Nothing}, field \in {"fullName", "absentCount"},
          direction \in {"asc", "desc"} :
          LET table == TableRows(rows, text, field, direction)
              pages == [p \in 1 .. Cardinality(People) |-> TableSlice(table, p, 1)]
          IN /\ FlattenSeq(pages) = table
             /\ {w \in all : text \in {Nothing, area[w]}} \subseteq ToSet(table)
     /\ kpis.mostAbsentWorker # Nothing =>
          LET first == Head(TableRows(rows, Nothing, "absentCount", "desc"))
          IN  WorkerItem(rows, first).counts.absentCount
                = WorkerItem(rows, kpis.mostAbsentWorker).counts.absentCount

\* What is opened shows what was clicked: whoever is in the table has a page, whose
\* calendar has each day of the file once, with the absences the table counts and the
\* last of them where the table says; asked for absences alone it shows those, and the
\* same current status.  The area with most absences has a page with as many, whose
\* first absentee has the most of the area.
PagesMatchTable(from, to) ==
  LET rows == Dataset(from, to, NoFilter)
      kpis == LeadingKpis(rows)
      worst == kpis.areaWithMostAbsences
  IN /\ \A w \in People : WorkerKnown(w, from, to) <=> w \in Workers(rows)
     /\ \A w \in Workers(rows) :
          LET item == WorkerItem(rows, w)
              file == WorkerFile(w, from, to)
              absences == {i \in DOMAIN file : file[i].day.status = "absent"}
              few == WorkerPage(w, from, to, {"absent"}, to)
          IN /\ \A i, j \in DOMAIN file : i < j => file[i].date < file[j].date
             /\ Cardinality(absences) = item.counts.absentCount
             /\ item.lastAbsenceAt = IF absences = {} THEN Nothing ELSE file[Max(absences)].date
             /\ Len(few.calendar) = item.counts.absentCount
             /\ Cardinality(FileRowsOf("worker", w, from, to, 1)) = Len(file)
             /\ few.currentStatus = file[Len(file)].day.status
     /\ (kpis.mostAbsentWorker # Nothing /\ worst # Nothing) =>
          LET page == EntityPage("area", worst, from, to, 1)
              head == Head(page.rankings.topAbsent)
          IN /\ page.counts.absentCount = Chart(rows, "area")[worst].absentCount
             /\ page.trend = DailyTrend(Group(rows, "area", worst), from, to)
             /\ <<"topAbsentWorkers", head, WorkerItem(rows, head).counts.absentCount>>
                  \in FileRowsOf("area", worst, from, to, 1)

AnalyticsAddUp ==
  /\ DashboardAddsUp
  /\ \A from \in Calendar : \A to \in from .. LastCounted :
       PeriodFiguresAgree(from, to) /\ TableComplete(from, to) /\ PagesMatchTable(from, to)
===============================================================================
