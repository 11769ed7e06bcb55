----------------------------- MODULE RequestReports -----------------------------
(***************************************************************************)
(* What is read of the filed requests: the lists and the request opened    *)
(* from them (request.service.js, request.controller.js), the report with  *)
(* its pages and exports, its charts and its summary                       *)
(* (requestReport.service.js).                                             *)
(*                                                                         *)
(* Requests says how a request comes to its status; here a status changes  *)
(* as its lifecycle allows.  Columns, their labels, the average of days    *)
(* and searches by a part of a name are left out.                          *)
(***************************************************************************)
EXTENDS Integers, Sequences, FiniteSetsExt, SequencesExt

CONSTANTS
  Filers,          \* workers with a user
  FiledTypes,
  FiledStatuses,   \* the statuses that occur
  FiledSpans,      \* first and last days asked for
  Faces,           \* names and areas a worker may have
  MonthLength,     \* days of a month
  MaxFiled,        \* bound on the requests
  Criteria,        \* the filters that are asked for
  PageSizes,       \* and the lengths of a page or a chart
  Manager,         \* who has the role ADMIN or RRHH
  Visitor,         \* a user without a worker
  Every              \* not filtered by

Viewers == Filers \cup {Manager, Visitor}

\* pending to a decision, observed and back
NextStatuses ==
  [s \in {"pending", "approved", "rejected", "observed", "cancelled"} |->
     IF s = "pending" THEN {"approved", "rejected", "observed", "cancelled"}
     ELSE IF s = "observed" THEN {"pending", "cancelled"} ELSE {}]

ASSUME RequestReportsAssumption ==
  /\ FiledStatuses \subseteq DOMAIN NextStatuses /\ "pending" \in FiledStatuses
  /\ \A span \in FiledSpans : span \in Nat \X Nat /\ span[1] <= span[2]
  /\ MonthLength \in Nat \ {0} /\ MaxFiled \in Nat /\ PageSizes \subseteq Nat \ {0}
  /\ Manager # Visitor /\ {Manager, Visitor, Every} \cap Filers = {}

\* The criteria of a list name a worker, a status, a type, a zone and two dates, no more.
ASSUME CriteriaAssumption ==
  \A f \in Criteria : f = [worker |-> f.worker, status |-> f.status, type |-> f.type,
                          zone |-> f.zone, from |-> f.from, to |-> f.to]

VARIABLES
  filed,           \* employee_requests, in the order of their creation
  face,            \* of each worker, the name and the area
  working         \* the workers that are active

reportsVars == <<filed, face, working>>

ReportsTypeOK ==
  /\ filed \in Seq([by : Filers, type : FiledTypes, status : FiledStatuses, span : FiledSpans])
  /\ Len(filed) <= MaxFiled
  /\ face \in [Filers -> Faces]
  /\ working \subseteq Filers

-------------------------------------------------------------------------------
(* The report *)

\* The conditions of getReportData; a period holds the whole request.
Passes(r, f) ==
  /\ f.worker \in {Every, r.by}
  /\ f.status \in {Every, r.status}
  /\ f.type \in {Every, r.type}
  /\ f.zone \in {Every, face[r.by].zone}
  /\ f.from # Every => r.span[1] >= f.from
  /\ f.to # Every => r.span[2] <= f.to

\* ORDER BY created_at DESC: each has its place after those filed later.
NewestFirst(ids) ==
  [n \in 1 .. Cardinality(ids) |-> CHOOSE i \in ids : Cardinality({j \in ids : j > i}) + 1 = n]

\* Whoever is not a manager has the own rows, whatever was asked for; the worker
\* is looked up by the user alone, active or not.
Enforced(viewer, f) == IF viewer = Manager THEN f ELSE [f EXCEPT !.worker = viewer]

\* getReportData, without its page
ReportRows(viewer, f) ==
  IF viewer = Visitor THEN <<>>
  ELSE NewestFirst({i \in DOMAIN filed : Passes(filed[i], Enforced(viewer, f))})

Page(rows, page, size) ==
  SubSeq(rows, (page - 1) * size + 1, IF page * size < Len(rows) THEN page * size ELSE Len(rows))

Preview(viewer, f, page, size) ==
  [rows |-> Page(ReportRows(viewer, f), page, size), total |-> Len(ReportRows(viewer, f))]

ExportLimit == 100000

\* generateExcel, generatePdf, generateCsv: one long page, the one that was asked for.
Export(viewer, f, page) == Page(ReportRows(viewer, f), page, ExportLimit)

\* getRequestsData of the report service: everyone's, with the filters' dates.
ServiceReport(f) == Export(Manager, f, 1)

-------------------------------------------------------------------------------
(* Charts and summary *)

MonthOf(day) == (day - 1) \div MonthLength

Groupings == {"worker", "type", "status", "month", "area"}

\* Workers are told apart by their names alone.
Label(r, by) ==
  CASE by = "worker" -> face[r.by].name
    [] by = "type" -> r.type
    [] by = "status" -> r.status
    [] by = "month" -> MonthOf(r.span[1])
    [] by = "area" -> face[r.by].zone

Labels(ids, by) == {Label(filed[i], by) : i \in ids}

Bar(ids, by, label) == Cardinality({i \in ids : Label(filed[i], by) = label})

\* getChartsData: the bars shown, the highest or the first months; of bars of the
\* same height any.
BarsShown(ids, by, size) ==
  LET labels == Labels(ids, by)
      few == IF size < Cardinality(labels) THEN size ELSE Cardinality(labels)
      Before(l, m) == IF by = "month" THEN l < m ELSE Bar(ids, by, l) >= Bar(ids, by, m)
  IN  {shown \in kSubset(few, labels) : \A l \in shown, m \in labels \ shown : Before(l, m)}

\* Its summary: the requests of the bars shown, and the highest.
ChartTotal(ids, by, shown) == MapThenSumSet(LAMBDA l : Bar(ids, by, l), shown)
TopValue(ids, by, shown) == Max({0} \cup {Bar(ids, by, l) : l \in shown})

\* getSummaryData: how many have the status, and who or what may come out on top.
Summary(ids) ==
  LET Count(s) == Cardinality({i \in ids : filed[i].status = s})
      Tops(by) == {l \in Labels(ids, by) :
                     \A m \in Labels(ids, by) : Bar(ids, by, l) >= Bar(ids, by, m)}
  IN  [total |-> MapThenSumSet(Count, {filed[i].status : i \in ids}),
       approved |-> Count("approved"), pending |-> Count("pending"),
       rejected |-> Count("rejected"), observed |-> Count("observed"),
       types |-> Tops("type"), workers |-> Tops("worker")]

-------------------------------------------------------------------------------
(* Lists *)

\* getRequests takes several statuses; the other conditions are the report's.
Listed(f, statuses) ==
  NewestFirst({i \in DOMAIN filed : /\ Passes(filed[i], [f EXCEPT !.status = Every])
                                    /\ statuses # {} => filed[i].status \in statuses})

StatusesOf(f) == IF f.status = Every THEN {} ELSE {f.status}

CompanyRequests(f) == Listed(f, StatusesOf(f))
PendingRequests(f) == Listed(f, {"pending"})

\* Only an active worker has a list of the own requests.
MyRequests(w, f) ==
  IF w \in working THEN Listed([f EXCEPT !.worker = w], StatusesOf(f)) ELSE <<>>

\* getRequestById: who may read all, and the worker the request is of.
MayOpen(viewer, i) == viewer = Manager \/ (viewer \in working /\ filed[i].by = viewer)

Opened(viewer, i) == IF MayOpen(viewer, i) THEN {filed[i]} ELSE {}

-------------------------------------------------------------------------------

\* createRequest
FileRequest(w, type, span) ==
  /\ w \in working
  /\ Len(filed) < MaxFiled
  /\ filed' = Append(filed, [by |-> w, type |-> type, status |-> "pending", span |-> span])
  /\ UNCHANGED <<face, working>>

Decided(i, s) ==
  /\ s \in NextStatuses[filed[i].status] \cap FiledStatuses
  /\ filed' = [filed EXCEPT ![i].status = s]
  /\ UNCHANGED <<face, working>>

\* The worker's name, area or position is changed.
ChangeFace(w, f) ==
  /\ face' = [face EXCEPT ![w] = f]
  /\ UNCHANGED <<filed, working>>

LeaveWork(w) ==
  /\ working' = working \ {w}
  /\ UNCHANGED <<filed, face>>

ReportsInit ==
  /\ filed = <<>>
  /\ \E f \in Faces : face = [w \in Filers |-> f]
  /\ working = Filers

ReportsNext ==
  \/ \E w \in Filers :
       \/ \E type \in FiledTypes, span \in FiledSpans : FileRequest(w, type, span)
       \/ \E f \in Faces : ChangeFace(w, f)
       \/ LeaveWork(w)
  \/ \E i \in DOMAIN filed, s \in FiledStatuses : Decided(i, s)

-------------------------------------------------------------------------------
(* Properties *)

\* Page by page the report shows what it exports, and counts; so does the list the
\* same filters give, everyone's and the worker's own, and each row opens as one
\* that meets them.
PagesMakeTheReport ==
  \A viewer \in Viewers, f \in Criteria :
    LET rows == ReportRows(viewer, f) IN
    /\ \A size \in PageSizes :
         FlattenSeq([page \in 1 .. Len(rows) |-> Preview(viewer, f, page, size).rows])
           = Export(viewer, f, 1)
    /\ viewer = Manager => rows = CompanyRequests(f) /\ rows = ServiceReport(f)
    /\ viewer \in working => rows = MyRequests(viewer, f)
    /\ viewer \in working \cup {Manager} =>
         \A i \in Range(rows) : \E r \in Opened(viewer, i) : Passes(r, Enforced(viewer, f))

\* Charts and summary count the rows of the report, whichever way they are
\* grouped, and a chart that leaves bars out never shows more, nor loses the highest
\* but by months.
ChartsCountTheReport ==
  \A viewer \in Viewers, f \in Criteria :
    LET ids == Range(ReportRows(viewer, f))
        sum == Summary(ids)
    IN
    /\ sum.total = Preview(viewer, f, 1, 1).total
    /\ viewer = Manager /\ f.status = Every => sum.pending = Len(PendingRequests(f))
    /\ \A by \in Groupings :
         LET whole == Labels(ids, by) IN
         /\ ChartTotal(ids, by, whole) = sum.total
         /\ \A shown \in UNION {BarsShown(ids, by, n) : n \in PageSizes} :
              /\ ChartTotal(ids, by, shown) <= sum.total
              /\ by # "month" => TopValue(ids, by, shown) = TopValue(ids, by, whole)
              /\ by = "status" /\ "approved" \in shown => Bar(ids, by, "approved") = sum.approved
              /\ by = "worker" /\ shown # {} => shown \cap sum.workers # {}
              /\ by = "type" /\ shown # {} => shown \cap sum.types # {}

RequestReportsAgree == PagesMakeTheReport /\ ChartsCountTheReport
===============================================================================
