------------------------------ MODULE ShiftHours ------------------------------
(***************************************************************************)
(* The hours of a shift and the labor policy they begin from:              *)
(* services/schedule-service/services/laborSchedule.service.js.            *)
(*                                                                         *)
(* A shift that is made takes from the policy what the request leaves out; *)
(* an edit reads the row, lays the request over it and writes all of it    *)
(* back, without a lock.  Tolerance, weekly target and time zone are taken *)
(* over like the break and left out; the deletion and the assignments are  *)
(* those of ShiftAssignments.  Texts that pass their validation.           *)
(***************************************************************************)
EXTENDS Integers

CONSTANTS
  DayMinutes,      \* minutes of a day
  ShiftForms,      \* requests about a shift
  PolicyForms,     \* requests about the policy
  DefaultPolicy,   \* the row ensurePolicy inserts
  Editors,         \* updateShift in progress
  MaxChanges,      \* bound on the changes
  Left,            \* not in the request
  NoShift,         \* no row
  PolicyDays       \* NULL in working_days

Fields == {"start", "end", "break", "paid", "effective", "days", "active"}

ASSUME ShiftHoursAssumption ==
  /\ DayMinutes \in Nat \ {0} /\ MaxChanges \in Nat
  /\ DOMAIN DefaultPolicy = {"break", "paid", "days"}
  /\ \A form \in ShiftForms : DOMAIN form = Fields /\ form.days # PolicyDays

VARIABLES
  policy,          \* company_labor_policies
  shift,           \* a row of shifts; from: where its minutes are from
  editing,         \* what each edit has read
  changes

hoursVars == <<policy, shift, editing, changes>>

NoEdit == [pc |-> "idle"]

HoursTypeOK ==
  /\ DOMAIN policy = {"break", "paid", "days"}
  /\ shift = NoShift \/ DOMAIN shift = Fields \cup {"from"}
  /\ DOMAIN editing = Editors
  /\ \A e \in Editors : editing[e] # NoEdit =>
       /\ DOMAIN editing[e] = {"pc", "form", "row", "rule", "alone"}
       /\ editing[e].form \in ShiftForms
       /\ DOMAIN editing[e].row = Fields \cup {"from"}
  /\ changes \in 0 .. MaxChanges

Change == changes < MaxChanges /\ changes' = changes + 1

Or(said, otherwise) == IF said = Left THEN otherwise ELSE said

-------------------------------------------------------------------------------
(* Minutes *)

\* An end that is not after the start is one of the next day.
PresenceMinutes(start, end) == IF end <= start THEN end + DayMinutes - start ELSE end - start

EffectiveMinutes(row) ==
  LET presence == PresenceMinutes(row.start, row.end) IN
  IF row.paid THEN presence
  ELSE IF presence > row.break THEN presence - row.break ELSE 0

\* What mapShift shows of a row.
ShownShift(row, rule) == [row EXCEPT !.days = IF @ = PolicyDays THEN rule.days ELSE @]

-------------------------------------------------------------------------------
(* buildShiftPayload *)

HoursNamed(form) == \E f \in {"start", "end", "break", "paid"} : form[f] # Left

NewShift(form, rule) ==
  LET row == [start |-> form.start, end |-> form.end,
              from |-> IF form.effective = Left THEN "hours" ELSE "request",
              break |-> Or(form.break, rule.break), paid |-> Or(form.paid, rule.paid),
              days |-> Or(form.days, PolicyDays), active |-> Or(form.active, TRUE),
              effective |-> 0]
  IN  [row EXCEPT !.effective = Or(form.effective, EffectiveMinutes(row))]

LaidOverPolicy(row, form, rule) ==                          \* faulty variant
  [f \in DOMAIN row |-> IF f = "from" THEN row.from
                        ELSE Or(form[f], IF f = "days" THEN rule.days ELSE row[f])]

LaidOver(row, form, rule) ==
  [f \in DOMAIN row |-> IF f = "from" THEN row.from ELSE Or(form[f], ShownShift(row, rule)[f])]

\* The request over the row: minutes that were stored are dropped where hours are named
\* and kept where not, and days that were the policy's become the row's.  (active is what the
\* request says in status: is_active alone says nothing, the row's status comes after it.)
Merged(row, form, rule) ==
  LET new == LaidOver(row, form, rule)
  IN  IF form.effective # Left THEN [new EXCEPT !.from = "request"]
      ELSE IF HoursNamed(form) THEN [new EXCEPT !.effective = EffectiveMinutes(new), !.from = "hours"]
      ELSE new

-------------------------------------------------------------------------------
(* Requests *)

Disturbed == [e \in Editors |->
  IF editing[e] = NoEdit THEN NoEdit ELSE [editing[e] EXCEPT !.alone = FALSE]]

\* updatePolicy writes the columns that are named.
UpdatePolicy(form) ==
  /\ Change
  /\ policy' = [f \in DOMAIN policy |-> Or(form[f], policy[f])]
  /\ editing' = Disturbed
  /\ UNCHANGED shift

CreateShift(form) ==
  /\ Change
  /\ shift = NoShift
  /\ form.start # Left /\ form.end # Left
  /\ shift' = NewShift(form, policy)
  /\ editing' = Disturbed
  /\ UNCHANGED policy

\* updateShift reads the row and the policy (alone: nothing else changes meanwhile).
EditRead(e, form) ==
  /\ Change
  /\ editing[e] = NoEdit
  /\ shift # NoShift
  /\ editing' = [Disturbed EXCEPT ![e] =
       [pc |-> "write", form |-> form, row |-> shift, rule |-> policy,
        alone |-> \A other \in Editors : editing[other] = NoEdit]]
  /\ UNCHANGED <<policy, shift>>

EditWrite(e) ==
  /\ editing[e] # NoEdit
  /\ shift' = Merged(editing[e].row, editing[e].form, editing[e].rule)
  /\ editing' = [Disturbed EXCEPT ![e] = NoEdit]
  /\ UNCHANGED <<policy, changes>>

HoursInit ==
  /\ policy = DefaultPolicy
  /\ shift = NoShift
  /\ editing = [e \in Editors |-> NoEdit]
  /\ changes = 0

HoursNext ==
  \/ \E form \in PolicyForms : UpdatePolicy(form)
  \/ \E form \in ShiftForms : CreateShift(form) \/ \E e \in Editors : EditRead(e, form)
  \/ \E e \in Editors : EditWrite(e)

HoursSpec == HoursInit /\ [][HoursNext]_hoursVars

-------------------------------------------------------------------------------
(* Properties *)

\* The minutes of a shift are those of its hours and its break, unless they were given
\* since: also where two edits overlap and where the policy changed in between.
HoursAddUp == shift # NoShift /\ shift.from = "hours" => shift.effective = EffectiveMinutes(shift)

\* An edit that nothing overlaps changes what the screens show of the fields it names,
\* and of no other but the minutes; a change of the policy shows only in the days of a
\* shift that has none of its own.
EditKeepsRest ==
  /\ \A e \in Editors : EditWrite(e) /\ editing[e].alone =>
       \A f \in Fields \ {"effective"} :
         ShownShift(shift', policy)[f] = Or(editing[e].form[f], ShownShift(shift, policy)[f])
  /\ policy' # policy /\ shift # NoShift =>
       \A f \in Fields : ShownShift(shift', policy')[f] # ShownShift(shift, policy)[f] =>
         f = "days" /\ shift.days = PolicyDays

ShiftStands == []HoursAddUp /\ [][EditKeepsRest]_hoursVars
===============================================================================
