-------------------------------- MODULE Boards --------------------------------
(***************************************************************************)
(* The boards of the company dashboard (dashboard.repository.js): the      *)
(* lists of the day, cut into pages, each with a total from a query of its *)
(* own, the alerts and the figures of the day, the projects and the week.  *)
(*                                                                         *)
(* The tables are written by the other components; here a worker's rows    *)
(* change as those write them.  A worker may have no user: the lists that  *)
(* join users leave out the rows the totals count.                         *)
(***************************************************************************)
EXTENDS Integers, FiniteSets

CONSTANTS
  Members,         \* workers, by their names' order
  MarkForms,       \* rows of attendance_records of the day
  Sites,           \* projects; those outside are inactive
  NoMark,          \* a worker has no row on the day
  PageSize,        \* filters.limit
  MaxUpdates       \* bound on the changes

NoSite == 0

ASSUME BoardsAssumption ==
  /\ Members \subseteq Nat /\ IsFiniteSet(Members)
  /\ PageSize \in Nat \ {0} /\ MaxUpdates \in Nat
  /\ Sites \subseteq Nat \ {NoSite} /\ NoMark \notin MarkForms
  /\ MarkForms \subseteq [at : -1 .. 1439, late : Nat, mock : BOOLEAN,
                          status : {"present", "late", "absent"}, site : Sites \cup {NoSite}]

VARIABLES
  hasUser,         \* workers with a row in users
  retired,         \* workers.deleted_at
  marks,           \* the row of the day of each worker
  asking,          \* workers with a pending request
  daysLeft,        \* days to the end of the active contract, or Never
  papers,          \* workers with a document to be reviewed
  updates

boardsVars == <<hasUser, retired, marks, asking, daysLeft, papers, updates>>

Never == -2
DaysAhead == 1       \* daysAhead, 30 by default
Midnight == 1440     \* minutes of a day

BoardsTypeOK ==
  /\ hasUser \subseteq Members /\ retired \subseteq Members
  /\ asking \subseteq Members /\ papers \subseteq Members
  /\ marks \in [Members -> MarkForms \cup {NoMark}]
  /\ daysLeft \in [Members -> {Never, -1, 0, 1, 2}]
  /\ updates \in 0 .. MaxUpdates

-------------------------------------------------------------------------------
(* The lists: what the total counts, what the rows show, and their order *)

HasMark(w) == marks[w] # NoMark
ArrivedLate(w) == HasMark(w) /\ (marks[w].late > 0 \/ marks[w].status = "late")
Expiring(w) == daysLeft[w] \in 0 .. DaysAhead

Lists == {"requests", "contracts", "documents", "late", "daily"}

\* The queries COUNT(*) of getPendingRequests, getContractsExpiring,
\* getDocumentsPending, getLateWorkers and getDailyStatusList
CountedIn(list) ==
  CASE list = "requests"  -> asking
    [] list = "contracts" -> {w \in Members \ retired : Expiring(w)}
    [] list = "documents" -> papers \ retired
    [] list = "late"      -> {w \in Members : ArrivedLate(w)}
    [] list = "daily"     -> {w \in Members : HasMark(w)}

\* JOIN users, of the documents a LEFT JOIN
ListedIn(list) == IF list = "documents" THEN CountedIn(list) ELSE CountedIn(list) \cap hasUser

Total(list) == Cardinality(CountedIn(list))

\* A row without a check-in comes first where check_in_time descends.
Arrival(w) == IF marks[w].at = -1 THEN 0 ELSE Midnight - marks[w].at

\* ORDER BY: what was created or changed first is taken in the order of the names.
Key(list, w) ==
  CASE list \in {"requests", "documents"} -> <<0, w>>
    [] list = "contracts" -> <<daysLeft[w], w>>
    [] list = "late"      -> <<-marks[w].late, Arrival(w)>>
    [] list = "daily"     -> <<Arrival(w), 0>>

Precedes(k, l) == k[1] < l[1] \/ (k[1] = l[1] /\ k[2] < l[2])

\* The places of a row: those that tie with it may come in any order, and in
\* another one when the next page is asked for.
RanksOf(list, w) ==
  LET ahead == {v \in ListedIn(list) : Precedes(Key(list, v), Key(list, w))}
      tied  == {v \in ListedIn(list) : Key(list, v) = Key(list, w)}
  IN  Cardinality(ahead) .. Cardinality(ahead) + Cardinality(tied) - 1

TotalPages(list) == (Total(list) + PageSize - 1) \div PageSize

Offset(page) == (page - 1) * PageSize

RanksOn(page) == Offset(page) .. Offset(page) + PageSize - 1

MayShow(list, page) == {w \in ListedIn(list) : RanksOf(list, w) \cap RanksOn(page) # {}}
Shows(list, page) == {w \in ListedIn(list) : RanksOf(list, w) \subseteq RanksOn(page)}

-------------------------------------------------------------------------------
(* Figures *)

\* getAttendanceToday: by the time of the check-in, on the date of the row
TodayFigures ==
  LET came == {w \in Members : HasMark(w) /\ marks[w].at # -1}
  IN  [records |-> Cardinality(came),
       late    |-> Cardinality({w \in came : ArrivedLate(w)}),
       mock    |-> Cardinality({w \in came : marks[w].mock})]

\* The last day of getWeeklyAttendanceChart
ChartToday ==
  [present |-> Cardinality({w \in Members : HasMark(w)}),
   late    |-> Cardinality({w \in Members : ArrivedLate(w)})]

\* getProjectSummary: only the projects in use have a line.
SiteRow(s) ==
  LET here == {w \in Members : HasMark(w) /\ marks[w].site = s}
  IN  [attendance |-> Cardinality({w \in here : marks[w].at # -1}),
       late       |-> Cardinality({w \in here : ArrivedLate(w)}),
       absent     |-> Cardinality({w \in here : marks[w].status = "absent"})]

\* getAlerts: an alert for each list with something in it, with its total
Alerts ==
  {[type |-> list, total |-> Total(list)] :
     list \in {l \in Lists \ {"daily"} : Total(l) > 0}}
  \cup (IF TodayFigures.mock > 0 THEN {[type |-> "mock", total |-> TodayFigures.mock]} ELSE {})

-------------------------------------------------------------------------------
(* Changes of the tables *)

Touch ==
  /\ updates < MaxUpdates
  /\ updates' = updates + 1

Toggle(w, s) == IF w \in s THEN s \ {w} ELSE s \cup {w}

LinkUser(w) ==
  /\ Touch
  /\ hasUser' = Toggle(w, hasUser)
  /\ UNCHANGED <<retired, marks, asking, daysLeft, papers>>

RemoveWorker(w) ==
  /\ Touch
  /\ retired' = retired \cup {w}
  /\ UNCHANGED <<hasUser, marks, asking, daysLeft, papers>>

\* A check-in, an absence, a correction: one row a day.
MarkDay(w) ==
  /\ Touch
  /\ \E m \in MarkForms : marks' = [marks EXCEPT ![w] = m]
  /\ UNCHANGED <<hasUser, retired, asking, daysLeft, papers>>

AskOrDecide(w) ==
  /\ Touch
  /\ asking' = Toggle(w, asking)
  /\ UNCHANGED <<hasUser, retired, marks, daysLeft, papers>>

SignContract(w) ==
  /\ Touch
  /\ \E d \in {Never, -1, 0, 1, 2} : daysLeft' = [daysLeft EXCEPT ![w] = d]
  /\ UNCHANGED <<hasUser, retired, marks, asking, papers>>

SendPaper(w) ==
  /\ Touch
  /\ papers' = Toggle(w, papers)
  /\ UNCHANGED <<hasUser, retired, marks, asking, daysLeft>>

BoardsInit ==
  /\ hasUser = Members /\ retired = {} /\ asking = {} /\ papers = {}
  /\ marks = [w \in Members |-> NoMark]
  /\ daysLeft = [w \in Members |-> Never]
  /\ updates = 0

BoardsNext ==
  \E w \in Members :
    \/ LinkUser(w) \/ RemoveWorker(w) \/ MarkDay(w)
    \/ AskOrDecide(w) \/ SignContract(w) \/ SendPaper(w)

-------------------------------------------------------------------------------
(* Properties *)

Alone(list, w) == \A v \in ListedIn(list) \ {w} : Key(list, v) # Key(list, w)

\* Turning the pages up to the last that the total announces shows each row of a
\* list that ties with no other, once: though the total is counted apart.
PagesShowAll ==
  \A list \in Lists : \A w \in {v \in ListedIn(list) : Alone(list, v)} :
    \E page \in 1 .. TotalPages(list) :
      /\ w \in Shows(list, page)
      /\ \A other \in (1 .. TotalPages(list)) \ {page} : w \notin MayShow(list, other)

\* Who is late is among those of the day, in the list, the chart and the projects
\* alike; the figures of the day leave out only who did not check in.
FiguresAgree ==
  /\ ListedIn("late") \subseteq ListedIn("daily")
  /\ ChartToday = [present |-> Total("daily"), late |-> Total("late")]
  /\ TodayFigures.records
       + Cardinality({w \in CountedIn("daily") : marks[w].at = -1}) = Total("daily")
  /\ TodayFigures.late <= Total("late")
  /\ \A s \in Sites :
       SiteRow(s).attendance <= TodayFigures.records /\ SiteRow(s).late <= Total("late")

\* The list behind an alert opens on rows to show, unless their workers have no user.
AlertsLead ==
  \A a \in Alerts :
    (a.type \in Lists /\ CountedIn(a.type) \cap hasUser # {}) => MayShow(a.type, 1) # {}

BoardsAgree == PagesShowAll /\ FiguresAgree /\ AlertsLead
===============================================================================
