--------------------------- MODULE ShiftAssignments ---------------------------
(***************************************************************************)
(* The shifts a company plans and the periods for which one worker is      *)
(* assigned to them: shift catalogue, assignment, edit and resolution of   *)
(* services/schedule-service/services/laborSchedule.service.js.            *)
(*                                                                         *)
(* Every operation is a transaction at READ COMMITTED.  Its queries before *)
(* the overlap check are one step, the check is a step, and its writes are *)
(* one step at the commit: the row locks and the unique index make the     *)
(* writes of a second transaction wait for the first one to end.  A        *)
(* transaction that fails leaves nothing behind.                           *)
(*                                                                         *)
(* An assignment's id is its position in the table, in order of creation.  *)
(* Dates are day numbers.  A field that an edit leaves out keeps its value *)
(* (a new shift without a start begins today): the edits below choose the  *)
(* resulting values.  Moving a row to another worker is left out.          *)
(***************************************************************************)
EXTENDS Integers, Sequences, FiniteSets

CONSTANTS
  Handlers,        \* HTTP requests in progress at the same time
  Shifts,          \* values of shifts.id
  NoShift,
  MaxDay,          \* the last day of the calendar of the model
  Today,           \* CURRENT_DATE while the model runs
  MaxRows          \* bound on the assignments the worker ever has

Days   == 1 .. MaxDay
NoDate == 0
NoId   == 0

Statuses == {"absent", "active", "inactive", "deleted"}

Rows == [shift : Shifts, from : Days, to : Days \cup {NoDate}, active : BOOLEAN]

ASSUME ShiftAssignmentsAssumption ==
  /\ NoShift \notin Shifts
  /\ MaxDay \in Nat \ {0}
  /\ Today \in Days
  /\ MaxRows \in Nat

VARIABLES
  shiftStatus,     \* table shifts
  assignments,     \* the worker's rows of worker_shift_assignments
  shiftOf,         \* workers.shift_id of the worker
  op               \* what each handler has read and is about to do

vars == <<shiftStatus, assignments, shiftOf, op>>

-------------------------------------------------------------------------------
(* Queries *)

\* COALESCE(effective_to, 'infinity').
Last(to) == IF to = NoDate THEN MaxDay ELSE to

Covers(row, day) == row.from <= day /\ day <= Last(row.to)

\* ORDER BY effective_from DESC, created_at DESC LIMIT 1.
Newest(ids) ==
  CHOOSE i \in ids : \A j \in ids :
    \/ assignments[j].from < assignments[i].from
    \/ assignments[j].from = assignments[i].from /\ j <= i

OpenRows(rows) == {i \in DOMAIN rows : rows[i].active /\ rows[i].to = NoDate}

OpenAssignment ==
  IF OpenRows(assignments) = {} THEN NoId ELSE Newest(OpenRows(assignments))

OverlapsInside(from, to, except) ==                  \* faulty variant
  \E i \in DOMAIN assignments \ {except} :
    /\ assignments[i].active
    /\ assignments[i].from < Last(to)
    /\ Last(assignments[i].to) > from

Overlaps(from, to, except) ==
  \E i \in DOMAIN assignments \ {except} :
    /\ assignments[i].active
    /\ assignments[i].from <= Last(to)
    /\ Last(assignments[i].to) >= from

\* The unique index of the open active row and the check on the dates.
Consistent(rows) ==
  /\ Cardinality(OpenRows(rows)) <= 1
  /\ \A i \in DOMAIN rows : rows[i].to # NoDate => rows[i].from <= rows[i].to

\* The assignments the schedule of a day is taken from.  Ended rows count
\* although they are not active any more.
InForce(day) ==
  {i \in DOMAIN assignments :
     /\ Covers(assignments[i], day)
     /\ assignments[i].active \/ assignments[i].to # NoDate
     /\ shiftStatus[assignments[i].shift] = "active"}

\* The shift of the worker on a day.  workers.shift_id stands in only for a
\* worker who never had an assignment.
ShiftOn(day) ==
  IF InForce(day) # {} THEN assignments[Newest(InForce(day))].shift
  ELSE IF assignments = <<>> /\ shiftOf # NoShift /\ shiftStatus[shiftOf] = "active"
       THEN shiftOf
       ELSE NoShift

-------------------------------------------------------------------------------
(* Handlers *)

\* pc is the step the handler takes next; after its last one the handler is
\* idle, or failed when the database refused the transaction.
Ready  == [pc |-> "idle"]
Failed(kind) == [pc |-> "failed", kind |-> kind]

Plans(kind) ==
  [pc : {"check", "write"}, kind : {kind}, id : 0 .. MaxRows,
   new : Rows, seen : Rows \cup {Ready}]

Deletions == [pc : {"write"}, kind : {"delete"}, shift : Shifts]

Ops == {Ready} \cup {Failed(k) : k \in {"assign", "update", "delete"}}
       \cup Plans("assign") \cup Plans("update") \cup Deletions

Free(h) == op[h].pc \in {"idle", "failed"}

Doing(h, kind, pc) == op[h].pc = pc /\ op[h].kind = kind

NewRows ==
  {row \in Rows : /\ shiftStatus[row.shift] = "active"
                  /\ row.to # NoDate => row.from <= row.to}

\* The transaction commits with these rows, unless a constraint refuses them.
Commit(h, rows, shift, statuses) ==
  \/ /\ Consistent(rows)
     /\ assignments' = rows
     /\ shiftOf' = shift
     /\ shiftStatus' = statuses
     /\ op' = [op EXCEPT ![h] = Ready]
  \/ /\ ~Consistent(rows)
     /\ op' = [op EXCEPT ![h] = Failed(op[h].kind)]
     /\ UNCHANGED <<assignments, shiftOf, shiftStatus>>

Init ==
  /\ shiftStatus = [s \in Shifts |-> "absent"]
  /\ assignments = <<>>
  /\ shiftOf = NoShift
  /\ op = [h \in Handlers |-> Ready]

CreateShift(h) ==
  /\ Free(h)
  /\ \E s \in Shifts :
       /\ shiftStatus[s] = "absent"
       /\ shiftStatus' = [shiftStatus EXCEPT ![s] = "active"]
  /\ op' = [op EXCEPT ![h] = Ready]
  /\ UNCHANGED <<assignments, shiftOf>>

\* The stored status is merged under the request's fields and is written last:
\* a request that carries only isActive changes neither.
UpdateShift(h) ==
  /\ Free(h)
  /\ \E s \in Shifts, status \in {"active", "inactive"} :
       /\ shiftStatus[s] \in {"active", "inactive"}
       /\ shiftStatus' = [shiftStatus EXCEPT ![s] = status]
  /\ op' = [op EXCEPT ![h] = Ready]
  /\ UNCHANGED <<assignments, shiftOf>>

DeleteShiftRead(h) ==
  /\ Free(h)
  /\ \E s \in Shifts :
       /\ shiftStatus[s] \in {"active", "inactive"}
       /\ op' = [op EXCEPT ![h] = [pc |-> "write", kind |-> "delete", shift |-> s]]
  /\ UNCHANGED <<shiftStatus, assignments, shiftOf>>

DeleteShiftWriteAlone(h) ==                          \* faulty variant
  /\ Doing(h, "delete", "write")
  /\ Commit(h, assignments, shiftOf, [shiftStatus EXCEPT ![op[h].shift] = "deleted"])

\* Assignments with an end keep it and stay active.
DeleteShiftWrite(h) ==
  /\ Doing(h, "delete", "write")
  /\ LET s == op[h].shift
         closed == [i \in DOMAIN assignments |->
                      IF i \in OpenRows(assignments) /\ assignments[i].shift = s
                      THEN [assignments[i] EXCEPT !.active = FALSE, !.to = Today]
                      ELSE assignments[i]]
     IN  Commit(h, closed, shiftOf, [shiftStatus EXCEPT ![s] = "deleted"])

AssignRead(h) ==
  /\ Free(h)
  /\ Len(assignments) < MaxRows
  /\ \E row \in NewRows :
       /\ row.active
       /\ op' = [op EXCEPT ![h] = [pc |-> "check", kind |-> "assign",
                                   id |-> OpenAssignment, new |-> row, seen |-> Ready]]
  /\ UNCHANGED <<shiftStatus, assignments, shiftOf>>

\* A change of shift of the open assignment keeps the days before it; any other
\* edit overwrites the row.
SplitsHistory(seen, new) ==
  /\ new.shift # seen.shift
  /\ seen.active
  /\ seen.to = NoDate
  /\ new.from > seen.from

UpdateRead(h) ==
  /\ Free(h)
  /\ \E id \in DOMAIN assignments, row \in NewRows :
       /\ SplitsHistory(assignments[id], row) => Len(assignments) < MaxRows
       /\ op' = [op EXCEPT ![h] = [pc |-> "check", kind |-> "update", id |-> id,
                                new |-> row, seen |-> assignments[id]]]
  /\ UNCHANGED <<shiftStatus, assignments, shiftOf>>

CheckOverlapDatedOnly(h) ==                          \* faulty variant
  /\ op[h].pc = "check"
  /\ LET new == op[h].new IN
     op' = [op EXCEPT ![h] =
              IF /\ new.active /\ new.to # NoDate
                 /\ Overlaps(new.from, new.to, op[h].id)
              THEN Ready ELSE [op[h] EXCEPT !.pc = "write"]]
  /\ UNCHANGED <<shiftStatus, assignments, shiftOf>>

\* findOverlappingAssignment: the open row about to be closed, or the row that
\* is edited, is left out; an edit to an inactive row is not checked.
CheckOverlap(h) ==
  /\ op[h].pc = "check"
  /\ LET new == op[h].new IN
     op' = [op EXCEPT ![h] =
              IF new.active /\ Overlaps(new.from, new.to, op[h].id) THEN Ready
              ELSE [op[h] EXCEPT !.pc = "write"]]
  /\ UNCHANGED <<shiftStatus, assignments, shiftOf>>

\* A row that ends the day before a new one starts.
Ended(row, from) == [row EXCEPT !.active = FALSE, !.to = from - 1]

ClosedByNothing(row, from) ==                        \* faulty variant
  [row EXCEPT !.active = FALSE, !.to = NoDate]

\* The open row ends the day before the new one, or loses its effect when the
\* new one starts no later.
ClosedBy(row, from) ==
  IF row.from < from THEN Ended(row, from)
  ELSE [row EXCEPT !.active = FALSE, !.to = NoDate]

AssignWrite(h) ==
  /\ Doing(h, "assign", "write")
  /\ LET id  == op[h].id
         new == op[h].new
         closed == IF id = NoId THEN assignments
                   ELSE [assignments EXCEPT ![id] = ClosedBy(@, new.from)]
     IN  Commit(h, Append(closed, new), new.shift, shiftStatus)

UpdateWrite(h) ==
  /\ Doing(h, "update", "write")
  /\ LET id  == op[h].id
         new == op[h].new
         rows == IF SplitsHistory(op[h].seen, new)
                 THEN Append([assignments EXCEPT ![id] = Ended(@, new.from)], new)
                 ELSE [assignments EXCEPT ![id] = new]
     IN  Commit(h, rows, IF new.active THEN new.shift ELSE shiftOf, shiftStatus)

Step(h) ==
  \/ CreateShift(h) \/ UpdateShift(h)
  \/ DeleteShiftRead(h) \/ DeleteShiftWrite(h)
  \/ AssignRead(h) \/ UpdateRead(h) \/ CheckOverlap(h)
  \/ AssignWrite(h) \/ UpdateWrite(h)

Next == \E h \in Handlers : Step(h)

Spec == Init /\ [][Next]_vars

-------------------------------------------------------------------------------
(* Properties *)

\* Every table and every handler holds a value of its type.
TypeOK ==
  /\ shiftStatus \in [Shifts -> Statuses]
  /\ assignments \in Seq(Rows) /\ Len(assignments) <= MaxRows
  /\ shiftOf \in Shifts \cup {NoShift}
  /\ op \in [Handlers -> Ops]

\* Two active assignments never cover the same day
\* (findOverlappingAssignment, SCHEDULE_ASSIGNMENT_OVERLAP).
NoSharedDay ==
  \A i, j \in DOMAIN assignments :
    i # j /\ assignments[i].active /\ assignments[j].active =>
      \A d \in Days : ~(Covers(assignments[i], d) /\ Covers(assignments[j], d))

\* An assignment from a day on changes the schedule of no earlier day: what
\* assignShift closes still answers for the past (resolveWorkerSchedule).
PastKept ==
  [][\A h \in Handlers : AssignWrite(h) =>
       \A d \in 1 .. op[h].new.from - 1 : ShiftOn(d)' = ShiftOn(d)]_vars

\* The worker's open assignment never names a deleted shift: deleteShift ends
\* the open assignments of the shift and assignShift refuses it afterwards.
OpenRowHasShift ==
  \A i \in OpenRows(assignments) : shiftStatus[assignments[i].shift] # "deleted"

\* The overlap check of assignShift and updateAssignment foresees what the
\* unique index and the date constraint refuse: their transactions never fail
\* on one.  (deleteShift's may: it ends at CURRENT_DATE assignments that have
\* not begun.)
ChecksForesee ==
  \A h \in Handlers : op[h].pc = "failed" => op[h].kind = "delete"

\* A worker who moves to another shift in the middle of an assignment keeps the
\* schedule of the days before the move, which is what SplitsHistory is for
\* (updateAssignment).
ShiftChangeKeepsPast ==
  [][\A h \in Handlers :
       LET seen == op[h].seen
           new  == op[h].new
       IN  /\ UpdateWrite(h)
           /\ seen.active /\ new.active /\ new.shift # seen.shift
           /\ Covers(seen, new.from)
           => \A d \in 1 .. new.from - 1 : ShiftOn(d)' = ShiftOn(d)]_vars
===============================================================================
