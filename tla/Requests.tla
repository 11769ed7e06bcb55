------------------------------- MODULE Requests -------------------------------
(***************************************************************************)
(* The life of the employee requests (vacations, leaves) of a company:     *)
(* services/request-service/services/request.service.js with the balance   *)
(* of vacation.service.js.                                                 *)
(*                                                                         *)
(* A handler is one HTTP request served by one instance of the program.    *)
(* It awaits every query, and each query is a transaction of its own, so   *)
(* the steps of two handlers interleave between any two queries: what a    *)
(* handler read may be stale when it writes.  Each step below is the code  *)
(* from one query to the next.  Rows are never deleted.                    *)
(*                                                                         *)
(* Dates are day numbers.  The reads of request_types, of the hire date    *)
(* and of the schema concern tables nobody writes here: they are part of   *)
(* the step that follows them.                                             *)
(***************************************************************************)
EXTENDS Integers, FiniteSets, FiniteSetsExt

CONSTANTS
  Handlers,        \* HTTP requests in progress at the same time
  Workers,         \* workers.id
  Ids,             \* values of employee_requests.id
  NoRow,           \* no row has this id yet
  MaxDay,          \* the last day of the calendar of the model
  HireDay,         \* workers.hire_date, for each worker
  Types,           \* active request types
  VacationTypes,   \* those whose canonical code is VACATION
  Accrued,         \* vacation days generated by each worker's service
  EditDays,        \* dates an edit may carry, NoDate when it carries none
  EditTypes,       \* types an edit may carry, NoType when it carries none
  NoType,
  ResubmitDays,    \* dates a resubmission may carry, NoDate when none
  MaxFailures      \* bound on the handlers that fail before they finish

Days == 1 .. MaxDay
NoDate == 0

Decisions == {"approved", "rejected", "observed"}
Statuses  == Decisions \cup {"pending", "cancelled"}

LiveWithoutObserved == {"pending", "approved"}       \* faulty variant

\* The statuses that block dates and reserve or use vacation days.  The
\* intermediate statuses pending_supervisor and pending_rrhh of the schema are
\* read by the queries and written by no code.
Live == {"pending", "observed", "approved"}

Rows == [worker : Workers, type : Types, start : Days, end : Days,
         days : Days, status : Statuses, override : BOOLEAN]

ASSUME RequestsAssumption ==
  /\ MaxDay \in Nat \ {0}
  /\ HireDay \in [Workers -> Days]
  /\ VacationTypes \subseteq Types
  /\ Accrued \in [Workers -> Int]
  /\ EditDays \subseteq Days \cup {NoDate}
  /\ NoType \notin Types
  /\ EditTypes \subseteq Types \cup {NoType}
  /\ ResubmitDays \subseteq Days \cup {NoDate}
  /\ NoRow \notin Rows
  /\ IsFiniteSet(Ids)
  /\ MaxFailures \in Nat

VARIABLES
  requests,        \* table employee_requests
  op,              \* what each handler has read and is about to do
  workerInbox,     \* last notification about a request sent to its worker
  hrInbox,         \* last notification about a request sent to the staff
  failures         \* handlers that failed so far

vars == <<requests, op, workerInbox, hrInbox, failures>>

-------------------------------------------------------------------------------
(* Helpers *)

Exists(id) == requests[id] # NoRow

COALESCE(given, current, none) == IF given = none THEN current ELSE given

DaysFrom(start, end) == end - start + 1

\* SQL's (a, b) OVERLAPS (c, d) on dates: the bounds of each period are put in
\* order and the periods are half-open, except that a period of one day is an
\* instant, so two periods that share only a boundary day do not overlap.
OVERLAPS(a, b, c, d) ==
  LET lo1 == IF a <= b THEN a ELSE b
      hi1 == IF a <= b THEN b ELSE a
      lo2 == IF c <= d THEN c ELSE d
      hi2 == IF c <= d THEN d ELSE c
  IN  \/ lo1 = lo2
      \/ lo1 < lo2 /\ lo2 < hi1
      \/ lo2 < lo1 /\ lo1 < hi2

Conflicts(worker, start, end, except) ==
  {id \in Ids \ except :
     /\ Exists(id)
     /\ requests[id].worker = worker
     /\ requests[id].status \in Live
     /\ OVERLAPS(requests[id].start, requests[id].end, start, end)}

\* Faulty variant: undecided requests reserve nothing.
VacationRowsUsedOnly(worker) ==
  {id \in Ids : /\ Exists(id)
                /\ requests[id].worker = worker
                /\ requests[id].type \in VacationTypes
                /\ requests[id].status = "approved"}

VacationRows(worker) ==
  {id \in Ids : /\ Exists(id)
                /\ requests[id].worker = worker
                /\ requests[id].type \in VacationTypes
                /\ requests[id].status \in Live}

\* getVacationBalance: generated days less the days used (approved) and
\* reserved (undecided).
AvailableDays(worker) ==
  Accrued[worker] - MapThenSumSet(LAMBDA id : requests[id].days, VacationRows(worker))

Idle == [pc |-> "idle"]

Continue(h, next) == op' = [op EXCEPT ![h] = next]

Finish(h) == Continue(h, Idle)

Silent == UNCHANGED <<workerInbox, hrInbox, failures>>

-------------------------------------------------------------------------------
(* createRequest *)

\* The model has a fixed set of ids: a creation starts while one is left for it.
RoomForRow ==
  Cardinality({g \in Handlers : op[g].pc \in {"assess", "overlap", "insert"}})
    < Cardinality({id \in Ids : ~Exists(id)})

CreateStart(h) ==
  /\ op[h] = Idle
  /\ RoomForRow
  /\ \E w \in Workers, t \in Types, s, e \in Days :
       /\ s >= HireDay[w]
       /\ e >= s
       /\ Continue(h, [pc |-> IF t \in VacationTypes THEN "assess" ELSE "overlap",
                       worker |-> w, type |-> t, start |-> s, end |-> e,
                       override |-> FALSE])
  /\ UNCHANGED requests
  /\ Silent

\* assessVacationRequest: an overdraft does not stop the request, it is
\* recorded in the row for the manager who decides it.
CreateAssess(h) ==
  /\ op[h].pc = "assess"
  /\ Continue(h, [op[h] EXCEPT
       !.pc = "overlap",
       !.override = IF DaysFrom(op[h].start, op[h].end) > AvailableDays(op[h].worker)
                    THEN TRUE ELSE FALSE])
  /\ UNCHANGED requests
  /\ Silent

CreateOverlap(h) ==
  /\ op[h].pc = "overlap"
  /\ IF Conflicts(op[h].worker, op[h].start, op[h].end, {}) = {}
       THEN Continue(h, [op[h] EXCEPT !.pc = "insert"])
       ELSE Finish(h)
  /\ UNCHANGED requests
  /\ Silent

\* Faulty variant: the handler ends with the insert.
CreateInsertSilent(h) ==
  /\ op[h].pc = "insert"
  /\ \E id \in Ids :
       /\ ~Exists(id)
       /\ requests' = [requests EXCEPT ![id] =
            [worker |-> op[h].worker, type |-> op[h].type,
             start |-> op[h].start, end |-> op[h].end,
             days |-> DaysFrom(op[h].start, op[h].end),
             status |-> "pending", override |-> op[h].override]]
  /\ Finish(h)
  /\ Silent

CreateInsert(h) ==
  /\ op[h].pc = "insert"
  /\ \E id \in Ids :
       /\ ~Exists(id)
       /\ requests' = [requests EXCEPT ![id] =
            [worker |-> op[h].worker, type |-> op[h].type,
             start |-> op[h].start, end |-> op[h].end,
             days |-> DaysFrom(op[h].start, op[h].end),
             status |-> "pending", override |-> op[h].override]]
       /\ Continue(h, [pc |-> "notifyStaff", id |-> id, notice |-> "created"])
  /\ Silent

-------------------------------------------------------------------------------
(* updateStatus: approve, reject and observe *)

\* Faulty variant: a decided request may be decided again.
ReviewReadAny(h) ==
  /\ op[h] = Idle
  /\ \E id \in Ids, d \in Decisions :
       /\ Exists(id)
       /\ Continue(h, [pc |-> "review", id |-> id, decision |-> d])
  /\ UNCHANGED requests
  /\ Silent

ReviewRead(h) ==
  /\ op[h] = Idle
  /\ \E id \in Ids, d \in Decisions :
       /\ Exists(id)
       /\ requests[id].status \in {"pending", "observed"}
       /\ Continue(h, [pc |-> "review", id |-> id, decision |-> d])
  /\ UNCHANGED requests
  /\ Silent

ReviewWrite(h) ==
  /\ op[h].pc = "review"
  /\ requests' = [requests EXCEPT ![op[h].id].status = op[h].decision]
  /\ Continue(h, [pc |-> "notifyWorker", id |-> op[h].id, notice |-> op[h].decision])
  /\ Silent

-------------------------------------------------------------------------------
(* cancelRequest *)

\* Faulty variant: an observed request may be cancelled too.
CancelReadOpen(h) ==
  /\ op[h] = Idle
  /\ \E id \in Ids :
       /\ Exists(id)
       /\ requests[id].status \in {"pending", "observed"}
       /\ Continue(h, [pc |-> "cancel", id |-> id])
  /\ UNCHANGED requests
  /\ Silent

CancelRead(h) ==
  /\ op[h] = Idle
  /\ \E id \in Ids :
       /\ Exists(id)
       /\ requests[id].status = "pending"
       /\ Continue(h, [pc |-> "cancel", id |-> id])
  /\ UNCHANGED requests
  /\ Silent

\* Faulty variant: the worker is not told.
CancelWriteSilent(h) ==
  /\ op[h].pc = "cancel"
  /\ requests' = [requests EXCEPT ![op[h].id].status = "cancelled"]
  /\ Finish(h)
  /\ Silent

CancelWrite(h) ==
  /\ op[h].pc = "cancel"
  /\ requests' = [requests EXCEPT ![op[h].id].status = "cancelled"]
  /\ Continue(h, [pc |-> "notifyWorker", id |-> op[h].id, notice |-> "cancelled"])
  /\ Silent

-------------------------------------------------------------------------------
(* resubmitRequest *)

ResubmitRead(h) ==
  /\ op[h] = Idle
  /\ \E id \in Ids, s, e \in ResubmitDays :
       /\ Exists(id)
       /\ requests[id].status = "observed"
       /\ Continue(h, [pc |-> "resubmit", id |-> id, start |-> s, end |-> e])
  /\ UNCHANGED requests
  /\ Silent

\* The dates are taken as they come: no order, overlap or balance check, and
\* days_requested keeps its value.
ResubmitWrite(h) ==
  /\ op[h].pc = "resubmit"
  /\ requests' = [requests EXCEPT
       ![op[h].id].status = "pending",
       ![op[h].id].start  = COALESCE(op[h].start, @, NoDate),
       ![op[h].id].end    = COALESCE(op[h].end, @, NoDate)]
  /\ Continue(h, [pc |-> "notifyStaff", id |-> op[h].id, notice |-> "resubmitted"])
  /\ Silent

-------------------------------------------------------------------------------
(* updateRequest *)

\* An edit with a date is checked for overlap; one without writes back the
\* dates it has read.
UpdateRead(h) ==
  /\ op[h] = Idle
  /\ \E id \in Ids, s, e \in EditDays, t \in EditTypes :
       /\ Exists(id)
       /\ requests[id].status \in {"pending", "observed"}
       /\ LET row == requests[id]
              dated == s # NoDate \/ e # NoDate
              start == COALESCE(s, row.start, NoDate)
              end   == COALESCE(e, row.end, NoDate)
          IN  /\ dated => end >= start
              /\ Continue(h, [pc |-> IF dated THEN "recheck" ELSE "update",
                              id |-> id, worker |-> row.worker, type |-> t,
                              start |-> start, end |-> end,
                              days |-> IF dated THEN DaysFrom(start, end)
                                                ELSE row.days])
  /\ UNCHANGED requests
  /\ Silent

UpdateOverlap(h) ==
  /\ op[h].pc = "recheck"
  /\ IF Conflicts(op[h].worker, op[h].start, op[h].end, {op[h].id}) = {}
       THEN Continue(h, [op[h] EXCEPT !.pc = "update"])
       ELSE Finish(h)
  /\ UNCHANGED requests
  /\ Silent

\* Faulty variant: days_requested is not stored.
UpdateWriteDatesOnly(h) ==
  /\ op[h].pc = "update"
  /\ requests' = [requests EXCEPT
       ![op[h].id].start = op[h].start,
       ![op[h].id].end   = op[h].end,
       ![op[h].id].type  = COALESCE(op[h].type, @, NoType)]
  /\ Finish(h)
  /\ Silent

UpdateWrite(h) ==
  /\ op[h].pc = "update"
  /\ requests' = [requests EXCEPT
       ![op[h].id].start = op[h].start,
       ![op[h].id].end   = op[h].end,
       ![op[h].id].days  = op[h].days,
       ![op[h].id].type  = COALESCE(op[h].type, @, NoType)]
  /\ Finish(h)
  /\ Silent

-------------------------------------------------------------------------------
(* Notifications are inserted after the row is written, by other queries. *)

NotifyStaff(h) ==
  /\ op[h].pc = "notifyStaff"
  /\ hrInbox' = [hrInbox EXCEPT ![op[h].id] = op[h].notice]
  /\ Finish(h)
  /\ UNCHANGED <<requests, workerInbox, failures>>

NotifyWorker(h) ==
  /\ op[h].pc = "notifyWorker"
  /\ workerInbox' = [workerInbox EXCEPT ![op[h].id] = op[h].notice]
  /\ Finish(h)
  /\ UNCHANGED <<requests, hrInbox, failures>>

\* A query fails or the instance stops: the handler goes no further and what
\* it has written stays written.
Fail(h) ==
  /\ op[h] # Idle
  /\ failures < MaxFailures
  /\ failures' = failures + 1
  /\ Finish(h)
  /\ UNCHANGED <<requests, workerInbox, hrInbox>>

-------------------------------------------------------------------------------
Init ==
  /\ requests = [id \in Ids |-> NoRow]
  /\ op = [h \in Handlers |-> Idle]
  /\ workerInbox = [id \in Ids |-> "none"]
  /\ hrInbox = [id \in Ids |-> "none"]
  /\ failures = 0

\* A client calls an endpoint.
Call(h) == CreateStart(h) \/ ReviewRead(h) \/ CancelRead(h) \/ ResubmitRead(h) \/ UpdateRead(h)

\* The handler's next query is served.
Step(h) ==
  \/ CreateAssess(h) \/ CreateOverlap(h) \/ CreateInsert(h)
  \/ ReviewWrite(h) \/ CancelWrite(h) \/ ResubmitWrite(h)
  \/ UpdateOverlap(h) \/ UpdateWrite(h)
  \/ NotifyStaff(h) \/ NotifyWorker(h)

Next == \E h \in Handlers : Call(h) \/ Step(h) \/ Fail(h)

Spec == Init /\ [][Next]_vars

\* Every query is answered, or fails: an awaited promise settles.
FairSpec == Spec /\ \A h \in Handlers : WF_vars(Step(h))

-------------------------------------------------------------------------------
(* Properties *)

Notices == Decisions \cup {"cancelled"}
StaffNotices == {"created", "resubmitted"}

CreateOps   == [pc : {"assess", "overlap", "insert"}, worker : Workers, type : Types,
                start : Days, end : Days, override : BOOLEAN]
ReviewOps   == [pc : {"review"}, id : Ids, decision : Decisions]
CancelOps   == [pc : {"cancel"}, id : Ids]
ResubmitOps == [pc : {"resubmit"}, id : Ids, start : ResubmitDays, end : ResubmitDays]
UpdateOps   == [pc : {"recheck", "update"}, id : Ids, worker : Workers, type : EditTypes,
                start : Days, end : Days, days : Days]
NotifyOps   == [pc : {"notifyStaff"}, id : Ids, notice : StaffNotices]
               \cup [pc : {"notifyWorker"}, id : Ids, notice : Notices]

Ops == {Idle} \cup CreateOps \cup ReviewOps \cup CancelOps \cup ResubmitOps
              \cup UpdateOps \cup NotifyOps

\* The shape of the tables and of what a handler holds between two queries.
TypeOK ==
  /\ requests \in [Ids -> Rows \cup {NoRow}]
  /\ op \in [Handlers -> Ops]
  /\ workerInbox \in [Ids -> Notices \cup {"none"}]
  /\ hrInbox \in [Ids -> StaffNotices \cup {"none"}]
  /\ failures \in 0 .. MaxFailures

\* The status machine the error messages of the service describe, of which
\* every step here is to be a step or a stutter.
Lifecycle == INSTANCE RequestLifecycle WITH
  status <- [id \in Ids |-> IF Exists(id) THEN requests[id].status ELSE "none"]

LifecycleSpec == Lifecycle!Spec

\* Two requests of a worker that block dates do not overlap: "Ya existe una
\* solicitud pendiente o aprobada en estas fechas".
NoDoubleBooking ==
  \A id \in Ids : (Exists(id) /\ requests[id].status \in Live)
     => Conflicts(requests[id].worker, requests[id].start, requests[id].end, {id}) = {}

\* days_requested, which the vacation balance sums, is the length of the period
\* between the two dates the attendance service reads, whatever edits race.
DaysMatchDates ==
  \A id \in Ids : Exists(id)
     => requests[id].days = DaysFrom(requests[id].start, requests[id].end)

\* Days of a worker's vacations that were not refused or withdrawn.
VacationDays(w) ==
  MapThenSumSet(LAMBDA id : requests[id].end - requests[id].start + 1,
    {id \in Ids : /\ Exists(id)
                  /\ requests[id].worker = w
                  /\ requests[id].type \in VacationTypes
                  /\ requests[id].status \notin {"rejected", "cancelled"}})

\* A vacation is stored with the warning for the manager exactly when the worker
\* then has more vacation days, decided or not, than have been generated.
OverdraftFlagged ==
  [][\A id \in Ids :
       (~Exists(id) /\ Exists(id)' /\ requests'[id].type \in VacationTypes)
       => LET w == requests'[id].worker
          IN  requests'[id].override
                = (VacationDays(w) + requests'[id].days > Accrued[w])]_vars

\* With nothing in progress and no failed query, the last notification a worker
\* got about a decided request tells the status the request has.
WorkerKnowsVerdict ==
  (failures = 0 /\ \A h \in Handlers : op[h] = Idle)
     => \A id \in Ids : (Exists(id) /\ requests[id].status # "pending")
           => workerInbox[id] = requests[id].status

\* The states of a handler that has read a row and may still write it.
Writers == {"review", "cancel", "resubmit", "recheck", "update"}

\* A request is settled when its status is final and no handler that has read it
\* is still to write it.
Settled(id) ==
  /\ Exists(id)
  /\ requests[id].status \in Lifecycle!Final
  /\ \A h \in Handlers : op[h].pc \in Writers => op[h].id # id

\* However handlers interleave, a settled request never changes again and no
\* handler starts to change it.
SettledStays ==
  [][\A id \in Ids : Settled(id) => Settled(id)' /\ UNCHANGED requests[id]]_vars

-------------------------------------------------------------------------------
\* The staff hear of every request that was created, unless a query failed.
CreationAnnounced ==
  \A id \in Ids : Exists(id) ~> (hrInbox[id] # "none" \/ failures > 0)

===============================================================================
