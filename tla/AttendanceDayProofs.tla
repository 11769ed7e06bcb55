-------------------------- MODULE AttendanceDayProofs --------------------------
(* Proofs about AttendanceDay, for every value of its constants: any shifts,   *)
(* dates and waiting times, and any number of requests and jobs at a time.     *)
EXTENDS AttendanceDay, TLAPS

\* A process that is about to write a row by its id has read it, and rows stay.
Updaters == {"outWrite", "recalcWrite", "closeWrite"}

HeldRowsExist ==
  \A p \in Processes :
    /\ op[p].pc \in Updaters => Exists(op[p].date)
    /\ op[p].pc = "autoWrite" => \A t \in op[p].todo : Exists(t.date)

\* TypeOK alone is not inductive: an update of a row that is not there would make
\* no row at all.
TypeInv == TypeOK /\ HeldRowsExist

-------------------------------------------------------------------------------
(* Instants and minutes *)

\* The lengths and waiting times of a day are natural numbers.
LEMMA WaitsAreNat ==
  /\ DayLength \in Nat /\ DayLength > 0
  /\ Tolerance \in Nat /\ Break \in Nat /\ Expected \in Nat
  /\ AbsenceGrace \in Nat /\ AutoCheckoutGrace \in Nat
BY AttendanceAssumption

\* So is the last date of the model,
LEMMA LastDateIsNat == LastDate \in Nat
BY AttendanceAssumption DEF LastDate

\* and every date with a row.
LEMMA DatesAreNat ==
  ASSUME NEW d \in Dates
  PROVE  d \in Nat /\ d >= 1 /\ d <= LastDate
BY AttendanceAssumption, LastDateIsNat

\* The hour of an instant is one of a day's.
LEMMA HourIsHour ==
  ASSUME NEW t \in Nat
  PROVE  HourOf(t) \in Hours
BY AttendanceAssumption DEF HourOf, Hours

\* An hour of a date is an instant.
LEMMA AtIsNat ==
  ASSUME NEW d \in Nat, NEW hour \in Hours
  PROVE  At(d, hour) \in Nat
<1>1. d * DayLength \in Nat
  BY AttendanceAssumption
<1> QED BY <1>1, AttendanceAssumption DEF At, Hours

\* On the same date, the distance of two hours is less than a day.
LEMMA WithinADay ==
  ASSUME NEW d \in Nat, NEW a \in Hours, NEW b \in Hours
  PROVE  At(d, a) + DayLength - At(d, b) \in Nat
<1>1. d * DayLength \in Nat
  BY AttendanceAssumption
<1> QED BY <1>1, AttendanceAssumption DEF At, Hours

\* Max and Min of two numbers are one of them, and bound both.
LEMMA MaxOfTwo ==
  ASSUME NEW a \in Int, NEW b \in Int
  PROVE  Max({a, b}) \in {a, b} /\ Max({a, b}) >= a /\ Max({a, b}) >= b
<1>1. \E x \in {a, b} : \A y \in {a, b} : x >= y
  BY DEF Max
<1> QED BY <1>1 DEF Max

LEMMA MinOfTwo ==
  ASSUME NEW a \in Int, NEW b \in Int
  PROVE  Min({a, b}) \in {a, b} /\ Min({a, b}) <= a /\ Min({a, b}) <= b
<1>1. \E x \in {a, b} : \A y \in {a, b} : x <= y
  OBVIOUS
<1> QED BY <1>1 DEF Min

\* Taking off the break never leaves less than nothing: no more is taken than was worked.
LEMMA EffectiveIsNat ==
  ASSUME NEW worked \in Nat
  PROVE  Effective(worked) \in Nat
<1> DEFINE more == Max({worked - Expected, 0})
<1>0. worked - Expected \in Int /\ 0 \in Int
  BY WaitsAreNat
<1>1. more \in {worked - Expected, 0} /\ more >= 0
  <2> DEFINE a == worked - Expected
  <2>1. a \in Int
    BY <1>0
  <2> HIDE DEF a
  <2>2. Max({a, 0}) \in {a, 0} /\ Max({a, 0}) >= 0
    BY <2>1, MaxOfTwo
  <2> QED BY <2>2 DEF a
<1>2. more \in Nat /\ more <= worked
  BY <1>1, WaitsAreNat
<1> HIDE DEF more
<1>3. Min({Break, more}) \in {Break, more} /\ Min({Break, more}) <= more
  BY <1>2, WaitsAreNat, MinOfTwo
<1>4. Effective(worked) = worked - Min({Break, more})
  BY DEF Effective, more
<1> QED BY <1>2, <1>3, <1>4, WaitsAreNat

\* The start and the end of the shift on a date are instants.
LEMMA ScheduledIsNat ==
  ASSUME NEW d \in Nat, shift \in Shifts
  PROVE  ScheduledIn(d) \in Nat /\ ScheduledOut(d) \in Nat
<1>1. shift.start \in Hours /\ shift.end \in Hours
  BY AttendanceAssumption
<1> QED BY <1>1, AtIsNat DEF ScheduledIn, ScheduledOut

\* calculateAttendanceMetrics gives a status, a lateness and minutes that a row can hold.
LEMMA MetricsFit ==
  ASSUME NEW d \in Nat, NEW in \in Instants, NEW out \in Instants, NEW status \in Statuses,
         shift \in Shifts
  PROVE  /\ Metrics(d, in, out, status).status \in Statuses
         /\ Metrics(d, in, out, status).late \in Nat
         /\ Metrics(d, in, out, status).effective \in Minutes
<1>1. ScheduledIn(d) \in Nat /\ Tolerance \in Nat /\ DayLength \in Nat
  BY ScheduledIsNat, WaitsAreNat
<1>2. in # NoTime /\ out # NoTime => Elapsed(in, out) \in Nat
  BY <1>1 DEF Elapsed, Instants, NoTime
<1>3. in # NoTime /\ out # NoTime => Effective(Elapsed(in, out)) \in Nat
  BY <1>2, EffectiveIsNat
<1> HIDE DEF Effective
<1>4. Metrics(d, in, out, status).effective \in Minutes
  BY <1>3 DEF Metrics, Minutes, NoMinutes
<1>5. in # NoTime => in \in Nat
  BY DEF Instants
<1> QED BY <1>1, <1>4, <1>5 DEF Metrics, Statuses

-------------------------------------------------------------------------------
(* What a process holds, by the query it is about to make *)

\* The query tells the kind of record.
LEMMA OpKinds ==
  ASSUME NEW o \in Ops
  PROVE  /\ o.pc \in {"inCheck", "inBlock", "inInsert"} => o \in InOps
         /\ o.pc = "outCheck" => o \in OutOps
         /\ o.pc = "outWrite" => o \in OutWrites
         /\ o.pc = "autoWrite" => o \in AutoOps
         /\ o.pc = "recalcRead" => o \in RecalcReads
         /\ o.pc = "recalcWrite" => o \in RecalcWrites
         /\ o.pc = "closeWrite" => o \in CloseOps
         /\ o.pc \in {"absBlock", "absInsert"} => o \in AbsenceOps
BY DEF Ops, Idle, InOps, OutOps, OutWrites, AutoOps, RecalcReads, RecalcWrites, CloseOps, AbsenceOps

\* The rows a step leaves are rows, and no row disappears.
RowsKept ==
  /\ DOMAIN records' = Dates
  /\ \A d \in Dates : records'[d] \in Rows \cup {NoRecord}
  /\ \A d \in Dates : records[d] # NoRecord => records'[d] # NoRecord

\* One process moves on to next, and rows change without disappearing.
LEMMA ProcessMoves ==
  ASSUME TypeInv, NEW p \in Processes, NEW next \in Ops, Continue(p, next), Undisturbed, RowsKept,
         next.pc \in Updaters => next.date \in Dates /\ records'[next.date] # NoRecord,
         next.pc = "autoWrite" => \A t \in next.todo : t.date \in Dates /\ records'[t.date] # NoRecord
  PROVE  TypeInv' /\ RowsKept
<1>1. DOMAIN op' = Processes /\ \A q \in Processes : op'[q] = IF q = p THEN next ELSE op[q]
  BY DEF Continue, TypeInv, TypeOK
<1>2. \A q \in Processes : op'[q] \in Ops
  BY <1>1 DEF TypeInv, TypeOK
<1>3. TypeOK'
  BY <1>1, <1>2 DEF TypeInv, TypeOK, Undisturbed, RowsKept
<1>4. ASSUME NEW q \in Processes
      PROVE  /\ op'[q].pc \in Updaters => op'[q].date \in Dates /\ records'[op'[q].date] # NoRecord
             /\ op'[q].pc = "autoWrite" =>
                  \A t \in op'[q].todo : t.date \in Dates /\ records'[t.date] # NoRecord
  <2>1. CASE q = p
    BY <1>1, <2>1
  <2>2. CASE q # p
    BY <1>1, <2>2 DEF TypeInv, HeldRowsExist, RowsKept, Exists
  <2> QED BY <2>1, <2>2
<1>5. HeldRowsExist'
  BY <1>4 DEF HeldRowsExist, Exists
<1> QED BY <1>3, <1>5 DEF TypeInv

\* A step that writes no row keeps them,
LEMMA SameRows == ASSUME TypeOK, UNCHANGED records PROVE RowsKept
BY DEF TypeOK, RowsKept

\* and so does one that replaces a row by a row.
LEMMA RowStored ==
  ASSUME TypeOK, NEW d \in Dates, NEW row \in Rows, records' = [records EXCEPT ![d] = row]
  PROVE  RowsKept /\ records'[d] = row /\ \A e \in Dates \ {d} : records'[e] = records[e]
BY AttendanceAssumption DEF TypeOK, RowsKept

\* A process that ends holds nothing.
LEMMA ProcessEnds ==
  ASSUME TypeInv, NEW p \in Processes, Finish(p), Undisturbed, RowsKept
  PROVE  TypeInv' /\ RowsKept
<1>1. Idle \in Ops /\ Idle.pc \notin Updaters /\ Idle.pc # "autoWrite"
  BY DEF Idle, Ops, Updaters
<1> QED BY <1>1, ProcessMoves DEF Finish

-------------------------------------------------------------------------------
(* Steps of the requests *)

\* The insert of a check-in stores a row, or finds one and stores nothing.
LEMMA CheckInKeepsTypes ==
  ASSUME TypeInv, NEW p \in Processes,
         CheckInStart(p) \/ CheckInExisting(p) \/ CheckInBlocked(p) \/ CheckInInsert(p)
  PROVE  TypeInv' /\ RowsKept
<1> USE DEF TypeInv
<1>1. CASE CheckInStart(p)
  <2> DEFINE next == [pc |-> "inCheck", date |-> LogicalDate(now), time |-> now]
  <2>1. LogicalDate(now) \in Dates /\ now \in Nat /\ Continue(p, next) /\ UNCHANGED records /\ Undisturbed
    BY <1>1, AttendanceAssumption DEF CheckInStart, Markable, TypeOK
  <2>2. next \in Ops /\ next.pc \notin Updaters /\ next.pc # "autoWrite"
    BY <2>1 DEF Ops, InOps, Updaters
  <2> HIDE DEF next
  <2> QED BY <2>1, <2>2, SameRows, ProcessMoves
<1>2. CASE CheckInExisting(p) \/ CheckInBlocked(p)
  <2>1. op[p] \in InOps /\ UNCHANGED records /\ Undisturbed
    BY <1>2, OpKinds DEF CheckInExisting, CheckInBlocked, TypeOK
  <2>2. CASE Finish(p)
    BY <2>1, <2>2, SameRows, ProcessEnds
  <2>3. ASSUME NEW pc \in {"inBlock", "inInsert"}, Continue(p, [op[p] EXCEPT !.pc = pc])
        PROVE  TypeInv' /\ RowsKept
    <3> DEFINE next == [op[p] EXCEPT !.pc = pc]
    <3>1. next \in Ops /\ next.pc \notin Updaters /\ next.pc # "autoWrite"
      BY <2>1 DEF Ops, InOps, Updaters
    <3> HIDE DEF next
    <3>2. Continue(p, next)
      BY <2>3 DEF next
    <3> QED BY <2>1, <3>1, <3>2, SameRows, ProcessMoves
  <2> QED BY <1>2, <2>2, <2>3 DEF CheckInExisting, CheckInBlocked
<1>3. CASE CheckInInsert(p)
  <2>1. op[p] \in InOps /\ Finish(p) /\ Undisturbed
    BY <1>3, OpKinds DEF CheckInInsert, TypeOK
  <2> DEFINE d == op[p].date
             in == At(d, HourOf(op[p].time))
             m == Metrics(d, in, NoTime, "present")
  <2>2. d \in Dates /\ in \in Nat /\ d \in Nat
    BY <2>1, DatesAreNat, HourIsHour, AtIsNat DEF InOps
  <2>3. m.status \in Statuses /\ m.late \in Nat
    BY <2>2, MetricsFit DEF TypeOK, Instants, Statuses
  <2>4. PICK mock \in Mocks :
          records' = IF Exists(d) THEN records ELSE
             [records EXCEPT ![d] =
               [status |-> IF mock THEN "rejected" ELSE m.status,
                in |-> in, out |-> NoTime,
                late |-> IF mock THEN 0 ELSE m.late,
                worked |-> NoMinutes, effective |-> NoMinutes,
                auto |-> FALSE, manual |-> FALSE]]
    BY <1>3 DEF CheckInInsert
  <2> HIDE DEF d, in, m
  <2> DEFINE row == [status |-> IF mock THEN "rejected" ELSE m.status,
                     in |-> in, out |-> NoTime,
                     late |-> IF mock THEN 0 ELSE m.late,
                     worked |-> NoMinutes, effective |-> NoMinutes,
                     auto |-> FALSE, manual |-> FALSE]
  <2>5. row \in Rows
    BY <2>2, <2>3 DEF Rows, Statuses, Instants, Minutes, NoTime, NoMinutes
  <2>6. records' = IF Exists(d) THEN records ELSE [records EXCEPT ![d] = row]
    BY <2>4
  <2> HIDE DEF row
  <2>7. RowsKept
    BY <2>2, <2>5, <2>6, RowStored, SameRows
  <2> QED BY <2>1, <2>7, ProcessEnds
<1> QED BY <1>1, <1>2, <1>3

\* The exit is written on the date of the entry, or the day after.
LEMMA CheckOutKeepsTypes ==
  ASSUME TypeInv, NEW p \in Processes,
         CheckOutStart(p) \/ CheckOutExisting(p) \/ CheckOutWrite(p)
  PROVE  TypeInv' /\ RowsKept
<1> USE DEF TypeInv
<1>1. CASE CheckOutStart(p)
  <2> DEFINE next == [pc |-> "outCheck", date |-> LogicalDate(now), time |-> now]
  <2>1. LogicalDate(now) \in Dates /\ now \in Nat /\ Continue(p, next) /\ UNCHANGED records /\ Undisturbed
    BY <1>1, AttendanceAssumption DEF CheckOutStart, Markable, TypeOK
  <2>2. next \in Ops /\ next.pc \notin Updaters /\ next.pc # "autoWrite"
    BY <2>1 DEF Ops, OutOps, Updaters
  <2> HIDE DEF next
  <2> QED BY <2>1, <2>2, SameRows, ProcessMoves
<1>2. CASE CheckOutExisting(p)
  <2>1. op[p] \in OutOps /\ UNCHANGED records /\ Undisturbed
    BY <1>2, OpKinds DEF CheckOutExisting, TypeOK
  <2>2. CASE Finish(p)
    BY <2>1, <2>2, SameRows, ProcessEnds
  <2> DEFINE d == op[p].date
             next == [pc |-> "outWrite", date |-> d, time |-> op[p].time,
                      in |-> records[d].in, status |-> records[d].status]
  <2>3. ASSUME Exists(d), Continue(p, next)
        PROVE  TypeInv' /\ RowsKept
    <3>1. d \in Dates /\ op[p].time \in Nat /\ records[d] \in Rows
      BY <2>1, <2>3 DEF OutOps, TypeOK, Exists
    <3>2. records[d].in \in Instants /\ records[d].status \in Statuses
      BY <3>1 DEF Rows
    <3>3. next \in Ops /\ next.pc # "autoWrite" /\ next.date = d
      BY <3>1, <3>2 DEF Ops, OutWrites
    <3> HIDE DEF next, d
    <3>4. records'[next.date] # NoRecord
      BY <2>1, <2>3, <3>3 DEF Exists
    <3> QED BY <2>1, <2>3, <3>1, <3>3, <3>4, SameRows, ProcessMoves
  <2> QED BY <1>2, <2>2, <2>3 DEF CheckOutExisting
<1>3. CASE CheckOutWrite(p)
  <2>1. op[p] \in OutWrites /\ Finish(p) /\ Undisturbed /\ Exists(op[p].date)
    BY <1>3, OpKinds DEF CheckOutWrite, TypeOK, HeldRowsExist, Updaters
  <2> DEFINE d     == op[p].date
             start == At(d, HourOf(IF op[p].in = NoTime THEN now ELSE op[p].in))
             same  == At(d, HourOf(op[p].time))
             end   == IF same < start THEN same + DayLength ELSE same
             m     == Metrics(d, start, end, op[p].status)
  <2>2. d \in Dates /\ d \in Nat /\ op[p].status \in Statuses /\ records[d] \in Rows
    BY <2>1, DatesAreNat DEF OutWrites, TypeOK, Exists
  <2>3. start \in Nat /\ end \in Nat /\ end - start \in Nat
    <3> DEFINE t == IF op[p].in = NoTime THEN now ELSE op[p].in
    <3>1. t \in Nat /\ op[p].time \in Nat
      BY <2>1, AttendanceAssumption DEF OutWrites, Instants, TypeOK
    <3>2. HourOf(t) \in Hours /\ HourOf(op[p].time) \in Hours
      BY <3>1, HourIsHour
    <3> HIDE DEF t
    <3> DEFINE a == HourOf(op[p].time)
               b == HourOf(t)
    <3>3. a \in Hours /\ b \in Hours
      BY <3>2
    <3> HIDE DEF a, b
    <3>4. At(d, a) \in Nat /\ At(d, b) \in Nat /\ At(d, a) + DayLength - At(d, b) \in Nat
      BY <2>2, <3>3, AtIsNat, WithinADay
    <3>5. start = At(d, b) /\ same = At(d, a)
      BY DEF a, b, t
    <3> QED BY <3>4, <3>5, WaitsAreNat
  <2>4. m.status \in Statuses /\ m.late \in Nat /\ m.effective \in Minutes
    BY <2>2, <2>3, MetricsFit DEF TypeOK, Instants
  <2>5. records' = [records EXCEPT
           ![d].status = m.status, ![d].out = end, ![d].late = m.late,
           ![d].worked = end - start, ![d].effective = m.effective]
    BY <1>3 DEF CheckOutWrite
  <2> HIDE DEF d, start, same, end, m
  <2> DEFINE row == [records[d] EXCEPT !.status = m.status, !.out = end, !.late = m.late,
                                       !.worked = end - start, !.effective = m.effective]
  <2>6. row \in Rows
    BY <2>2, <2>3, <2>4 DEF Rows, Instants, Minutes
  <2>7. records' = [records EXCEPT ![d] = row]
    BY <2>2, <2>5 DEF TypeOK
  <2> HIDE DEF row
  <2> QED BY <2>1, <2>2, <2>6, <2>7, RowStored, ProcessEnds
<1> QED BY <1>1, <1>2, <1>3

\* A correction stores a row, whatever was there.
LEMMA CorrectKeepsTypes ==
  ASSUME TypeInv, NEW p \in Processes, Correct(p)
  PROVE  TypeInv' /\ RowsKept
<1> USE DEF TypeInv
<1>1. PICK d \in Dates, c \in Corrections :
       LET in    == IF c.in = NoTime THEN NoTime ELSE At(d, c.in)
           same  == IF c.out = NoTime THEN NoTime ELSE At(d, c.out)
           out   == IF same # NoTime /\ in # NoTime /\ same < in
                      THEN same + DayLength ELSE same
           m     == Metrics(d, in, out, c.status)
       IN  records' = [records EXCEPT ![d] =
             [status |-> m.status, in |-> in, out |-> out, late |-> m.late,
              worked |-> IF in # NoTime /\ out # NoTime THEN out - in ELSE NoMinutes,
              effective |-> m.effective,
              auto |-> IF Exists(d) THEN records[d].auto ELSE FALSE,
              manual |-> TRUE]]
  BY DEF Correct
<1> DEFINE in    == IF c.in = NoTime THEN NoTime ELSE At(d, c.in)
           same  == IF c.out = NoTime THEN NoTime ELSE At(d, c.out)
           out   == IF same # NoTime /\ in # NoTime /\ same < in
                      THEN same + DayLength ELSE same
           m     == Metrics(d, in, out, c.status)
           worked == IF in # NoTime /\ out # NoTime THEN out - in ELSE NoMinutes
           auto == IF Exists(d) THEN records[d].auto ELSE FALSE
           row == [status |-> m.status, in |-> in, out |-> out, late |-> m.late,
                   worked |-> worked, effective |-> m.effective, auto |-> auto, manual |-> TRUE]
<1>2. records' = [records EXCEPT ![d] = row]
  BY <1>1
<1>3. d \in Nat /\ c.in \in Hours \cup {NoTime} /\ c.out \in Hours \cup {NoTime}
      /\ c.status \in {"present", "absent"}
  BY AttendanceAssumption, DatesAreNat
<1>4. in \in Instants /\ out \in Instants /\ worked \in Minutes
  <2>1. c.in # NoTime => At(d, c.in) \in Nat
    BY <1>3, AtIsNat
  <2>2. c.out # NoTime => At(d, c.out) \in Nat
    BY <1>3, AtIsNat
  <2>3. c.in # NoTime /\ c.out # NoTime => At(d, c.out) + DayLength - At(d, c.in) \in Nat
    BY <1>3, WithinADay
  <2> QED BY <2>1, <2>2, <2>3, WaitsAreNat DEF Instants, Minutes, NoTime, NoMinutes
<1>5. m.status \in Statuses /\ m.late \in Nat /\ m.effective \in Minutes
  <2> HIDE DEF in, out
  <2> QED BY <1>3, <1>4, MetricsFit DEF TypeOK, Statuses
<1>6. auto \in BOOLEAN
  BY DEF TypeOK, Exists, Rows
<1> HIDE DEF in, same, out, m, worked, auto
<1>7. row \in Rows
  BY <1>4, <1>5, <1>6 DEF Rows
<1> HIDE DEF row
<1>8. RowsKept
  BY <1>2, <1>7, RowStored
<1>9. UNCHANGED op /\ Undisturbed
  BY DEF Correct
<1>10. HeldRowsExist'
  BY <1>8, <1>9 DEF HeldRowsExist, RowsKept, Exists
<1>11. TypeOK'
  BY <1>8, <1>9 DEF RowsKept, Undisturbed, TypeOK
<1> QED BY <1>8, <1>10, <1>11

\* The approval of a request leaves the rows alone.
LEMMA LeaveKeepsTypes ==
  ASSUME TypeInv, NEW p \in Processes, ApproveLeave(p)
  PROVE  TypeInv' /\ RowsKept
BY SameRows DEF TypeInv, TypeOK, HeldRowsExist, Exists, ApproveLeave

-------------------------------------------------------------------------------
(* Steps of the jobs *)

\* The automatic check-out writes only rows it has selected, which have an entry.
LEMMA AutoKeepsTypes ==
  ASSUME TypeInv, NEW p \in Processes, AutoRead(p) \/ AutoWrite(p) \/ AutoDone(p)
  PROVE  TypeInv' /\ RowsKept
<1> USE DEF TypeInv
<1>1. CASE AutoRead(p)
  <2> DEFINE due == {e \in AutoCandidates : Overdue(e)}
             todo == {[date |-> d, in |-> records[d].in] : d \in due}
             next == [pc |-> "autoWrite", todo |-> todo, affected |-> {}]
  <2>1. Continue(p, next) /\ UNCHANGED records /\ Undisturbed
    BY <1>1 DEF AutoRead
  <2>2. \A d \in due : d \in Dates /\ records[d] # NoRecord /\ records[d].in \in Nat
    BY DEF AutoCandidates, Open, Exists, TypeOK, Rows, Instants
  <2> HIDE DEF due
  <2>3. \A t \in todo : t \in [date : Dates, in : Nat] /\ records[t.date] # NoRecord
    BY <2>2
  <2> HIDE DEF todo
  <2>4. next \in Ops /\ next.pc \notin Updaters /\ next.todo = todo
    BY <2>3 DEF Ops, AutoOps, Updaters
  <2> HIDE DEF next
  <2>5. \A t \in next.todo : t.date \in Dates /\ records'[t.date] # NoRecord
    BY <2>1, <2>3, <2>4
  <2> QED BY <2>1, <2>4, <2>5, SameRows, ProcessMoves
<1>2. CASE AutoWrite(p)
  <2>1. op[p] \in AutoOps /\ Undisturbed
    BY <1>2, OpKinds DEF AutoWrite, TypeOK
  <2>2. PICK t \in op[p].todo :
         LET out == ScheduledOut(DateRead(t.date))
         IN  IF records[t.date].out = NoTime
             THEN /\ records' = [records EXCEPT
                       ![t.date].status = IF records[t.date].late > 0 THEN "late" ELSE "present",
                       ![t.date].out = out,
                       ![t.date].worked = Max({out - t.in, 0}),
                       ![t.date].auto = TRUE]
                  /\ Continue(p, [op[p] EXCEPT !.todo = @ \ {t},
                                               !.affected = @ \cup {DateRead(t.date)}])
             ELSE /\ Continue(p, [op[p] EXCEPT !.todo = @ \ {t}])
                  /\ UNCHANGED records
    BY <1>2 DEF AutoWrite
  <2> DEFINE d == t.date
             out == ScheduledOut(DateRead(d))
             worked == Max({out - t.in, 0})
             status == IF records[d].late > 0 THEN "late" ELSE "present"
             written == [op[p] EXCEPT !.todo = @ \ {t}, !.affected = @ \cup {DateRead(d)}]
             passed == [op[p] EXCEPT !.todo = @ \ {t}]
             row == [records[d] EXCEPT !.status = status, !.out = out, !.worked = worked, !.auto = TRUE]
  <2>3. d \in Dates /\ t.in \in Nat /\ records[d] # NoRecord /\ records[d] \in Rows
    BY <2>1, <1>2 DEF AutoOps, AutoWrite, HeldRowsExist, Exists, TypeOK
  <2>4. DateRead(d) \in 0 .. LastDate /\ DateRead(d) \in Nat
    <3>1. d \in Nat /\ d >= 1 /\ d <= LastDate
      BY <2>3, DatesAreNat
    <3>2. DateShift \in {0, 1}
      BY AttendanceAssumption
    <3> HIDE DEF d
    <3> QED BY <3>1, <3>2, LastDateIsNat DEF DateRead
  <2>5. out \in Nat
    BY <2>4, ScheduledIsNat DEF TypeOK
  <2> HIDE DEF out
  <2>6. worked \in Nat
    <3> DEFINE a == out - t.in
    <3>1. a \in Int
      BY <2>3, <2>5
    <3> HIDE DEF a
    <3>2. Max({a, 0}) \in {a, 0} /\ Max({a, 0}) >= 0
      BY <3>1, MaxOfTwo
    <3>3. Max({a, 0}) \in Nat
      BY <3>1, <3>2
    <3> QED BY <3>3 DEF a
  <2> HIDE DEF worked
  <2>7. row \in Rows
    BY <2>3, <2>5, <2>6 DEF Rows, Statuses, Instants, Minutes
  <2>8. /\ written \in Ops /\ written.pc = "autoWrite" /\ written.todo = op[p].todo \ {t}
        /\ passed \in Ops /\ passed.pc = "autoWrite" /\ passed.todo = op[p].todo \ {t}
    BY <2>1, <2>4 DEF Ops, AutoOps
  <2>9. \/ records' = [records EXCEPT ![d] = row] /\ Continue(p, written)
        \/ UNCHANGED records /\ Continue(p, passed)
    BY <2>2, <2>3 DEF TypeOK, worked, out
  <2> HIDE DEF row, written, passed
  <2>10. RowsKept
    BY <2>3, <2>7, <2>9, RowStored, SameRows
  <2>11. \A u \in op[p].todo : u.date \in Dates /\ records'[u.date] # NoRecord
    BY <1>2, <2>1, <2>10 DEF AutoWrite, AutoOps, HeldRowsExist, Exists, RowsKept
  <2>12. "autoWrite" \notin Updaters
    BY DEF Updaters
  <2> QED BY <2>1, <2>8, <2>9, <2>10, <2>11, <2>12, ProcessMoves
<1>3. CASE AutoDone(p)
  <2> DEFINE next == [pc |-> "recalcRead", dates |-> op[p].affected]
  <2>1. op[p] \in AutoOps /\ Continue(p, next) /\ UNCHANGED records /\ Undisturbed
    BY <1>3, OpKinds DEF AutoDone, TypeOK
  <2>2. next \in Ops /\ next.pc \notin Updaters /\ next.pc # "autoWrite"
    BY <2>1 DEF Ops, AutoOps, RecalcReads, Updaters
  <2> HIDE DEF next
  <2> QED BY <2>1, <2>2, SameRows, ProcessMoves
<1> QED BY <1>1, <1>2, <1>3

\* A recalculation writes the row it read by its id.
LEMMA RecalculateKeepsTypes ==
  ASSUME TypeInv, NEW p \in Processes, RecalculateStart(p) \/ RecalculateRead(p) \/ RecalculateWrite(p)
  PROVE  TypeInv' /\ RowsKept
<1> USE DEF TypeInv
<1>1. CASE RecalculateStart(p)
  <2>1. PICK d \in Dates : Continue(p, [pc |-> "recalcRead", dates |-> {d}])
    BY <1>1 DEF RecalculateStart
  <2> DEFINE next == [pc |-> "recalcRead", dates |-> {d}]
  <2>2. d \in 0 .. LastDate
    BY DatesAreNat, LastDateIsNat
  <2>3. next \in Ops /\ next.pc \notin Updaters /\ next.pc # "autoWrite"
    BY <2>2 DEF Ops, RecalcReads, Updaters
  <2>4. Continue(p, next) /\ UNCHANGED records /\ Undisturbed
    BY <1>1, <2>1 DEF RecalculateStart
  <2> HIDE DEF next
  <2> QED BY <2>3, <2>4, SameRows, ProcessMoves
<1>2. CASE RecalculateRead(p)
  <2>1. op[p] \in RecalcReads /\ UNCHANGED records /\ Undisturbed
    BY <1>2, OpKinds DEF RecalculateRead, TypeOK
  <2>2. CASE Finish(p)
    BY <2>1, <2>2, SameRows, ProcessEnds
  <2>3. ASSUME NEW d \in op[p].dates, Exists(d),
               Continue(p, [pc |-> "recalcWrite", dates |-> op[p].dates \ {d},
                            date |-> d, row |-> records[d]])
        PROVE  TypeInv' /\ RowsKept
    <3> DEFINE next == [pc |-> "recalcWrite", dates |-> op[p].dates \ {d}, date |-> d, row |-> records[d]]
    <3>1. d \in Dates /\ records[d] \in Rows /\ records'[d] # NoRecord
      BY <2>1, <2>3 DEF Exists, TypeOK
    <3>2. next \in Ops /\ next.pc # "autoWrite" /\ next.date = d
      BY <2>1, <3>1 DEF Ops, RecalcReads, RecalcWrites
    <3>3. Continue(p, next)
      BY <2>3
    <3> HIDE DEF next
    <3> QED BY <2>1, <3>1, <3>2, <3>3, SameRows, ProcessMoves
  <2>4. ASSUME NEW d \in op[p].dates, Continue(p, [op[p] EXCEPT !.dates = @ \ {d}])
        PROVE  TypeInv' /\ RowsKept
    <3> DEFINE next == [op[p] EXCEPT !.dates = @ \ {d}]
    <3>1. next \in Ops /\ next.pc \notin Updaters /\ next.pc # "autoWrite"
      BY <2>1 DEF Ops, RecalcReads, Updaters
    <3>2. Continue(p, next)
      BY <2>4
    <3> HIDE DEF next
    <3> QED BY <2>1, <3>1, <3>2, SameRows, ProcessMoves
  <2> QED BY <1>2, <2>2, <2>3, <2>4 DEF RecalculateRead
<1>3. CASE RecalculateWrite(p)
  <2> DEFINE d   == op[p].date
             read == op[p].row
             m   == Metrics(d, read.in, read.out, read.status)
             status == IF read.status \in {"absent", "rejected"} THEN read.status ELSE m.status
             effective == IF m.effective # NoMinutes THEN m.effective
                          ELSE IF status = "absent" THEN 0 ELSE read.effective
             row == [records[d] EXCEPT !.status = status, !.late = m.late, !.effective = effective]
             next == [pc |-> "recalcRead", dates |-> op[p].dates]
  <2>1. op[p] \in RecalcWrites /\ Undisturbed /\ Continue(p, next)
    BY <1>3, OpKinds DEF RecalculateWrite, TypeOK
  <2>2. d \in Dates /\ d \in Nat /\ read \in Rows /\ records[d] \in Rows
    BY <1>3, <2>1, DatesAreNat DEF RecalculateWrite, RecalcWrites, HeldRowsExist, Updaters, Exists, TypeOK
  <2>3. read.in \in Instants /\ read.out \in Instants /\ read.status \in Statuses /\ read.effective \in Minutes
    BY <2>2 DEF Rows
  <2>4. m.status \in Statuses /\ m.late \in Nat /\ m.effective \in Minutes
    BY <2>2, <2>3, MetricsFit DEF TypeOK
  <2>5. records' = [records EXCEPT ![d].status = status, ![d].late = m.late, ![d].effective = effective]
    BY <1>3 DEF RecalculateWrite
  <2> HIDE DEF m
  <2>6. status \in Statuses /\ effective \in Minutes
    BY <2>3, <2>4 DEF Minutes
  <2> HIDE DEF status, effective
  <2>7. row \in Rows
    BY <2>2, <2>4, <2>6 DEF Rows
  <2>8. records' = [records EXCEPT ![d] = row]
    BY <2>2, <2>5 DEF TypeOK
  <2>9. next \in Ops /\ next.pc \notin Updaters /\ next.pc # "autoWrite"
    BY <2>1 DEF Ops, RecalcReads, RecalcWrites, Updaters
  <2> HIDE DEF row, next, d
  <2>10. RowsKept
    BY <2>2, <2>7, <2>8, RowStored
  <2> QED BY <2>1, <2>9, <2>10, ProcessMoves
<1> QED BY <1>1, <1>2, <1>3

\* So does the closing of an incomplete day.
LEMMA CloseKeepsTypes ==
  ASSUME TypeInv, NEW p \in Processes, CloseRead(p) \/ CloseWrite(p)
  PROVE  TypeInv' /\ RowsKept
<1> USE DEF TypeInv
<1>1. CASE CloseRead(p)
  <2>1. PICK d \in Dates : Open(d) /\ Continue(p, [pc |-> "closeWrite", date |-> d])
    BY <1>1 DEF CloseRead
  <2> DEFINE next == [pc |-> "closeWrite", date |-> d]
  <2>2. Continue(p, next) /\ UNCHANGED records /\ Undisturbed
    BY <1>1, <2>1 DEF CloseRead
  <2>3. next \in Ops /\ next.pc # "autoWrite" /\ next.date = d
    BY DEF Ops, CloseOps
  <2>4. records'[d] # NoRecord
    BY <2>1, <2>2 DEF Open, Exists
  <2> HIDE DEF next
  <2> QED BY <2>2, <2>3, <2>4, SameRows, ProcessMoves
<1>2. CASE CloseWrite(p)
  <2> DEFINE d == op[p].date
             row == [records[d] EXCEPT !.status = "incomplete", !.auto = TRUE]
  <2>1. op[p] \in CloseOps /\ Undisturbed /\ Finish(p)
    BY <1>2, OpKinds DEF CloseWrite, TypeOK
  <2>2. d \in Dates /\ records[d] \in Rows
    BY <1>2, <2>1 DEF CloseWrite, CloseOps, HeldRowsExist, Updaters, Exists, TypeOK
  <2>3. row \in Rows
    BY <2>2 DEF Rows, Statuses
  <2>4. UNCHANGED records \/ records' = [records EXCEPT ![d] = row]
    BY <1>2, <2>2 DEF CloseWrite, TypeOK
  <2> HIDE DEF row, d
  <2>5. RowsKept
    BY <2>2, <2>3, <2>4, RowStored, SameRows
  <2> QED BY <2>1, <2>5, ProcessEnds
<1> QED BY <1>1, <1>2

\* An absence is stored where there is no row.
LEMMA AbsenceKeepsTypes ==
  ASSUME TypeInv, NEW p \in Processes, AbsenceRead(p) \/ AbsenceBlocked(p) \/ AbsenceInsert(p)
  PROVE  TypeInv' /\ RowsKept
<1> USE DEF TypeInv
<1>1. CASE AbsenceRead(p)
  <2>1. PICK d \in Dates : Continue(p, [pc |-> "absBlock", date |-> d])
    BY <1>1 DEF AbsenceRead
  <2> DEFINE next == [pc |-> "absBlock", date |-> d]
  <2>2. Continue(p, next) /\ UNCHANGED records /\ Undisturbed
    BY <1>1, <2>1 DEF AbsenceRead
  <2>3. next \in Ops /\ next.pc \notin Updaters /\ next.pc # "autoWrite"
    BY DEF Ops, AbsenceOps, Updaters
  <2> HIDE DEF next
  <2> QED BY <2>2, <2>3, SameRows, ProcessMoves
<1>2. CASE AbsenceBlocked(p)
  <2>1. op[p] \in AbsenceOps /\ UNCHANGED records /\ Undisturbed
    BY <1>2, OpKinds DEF AbsenceBlocked, TypeOK
  <2>2. CASE Finish(p)
    BY <2>1, <2>2, SameRows, ProcessEnds
  <2> DEFINE next == [op[p] EXCEPT !.pc = "absInsert"]
  <2>3. next \in Ops /\ next.pc \notin Updaters /\ next.pc # "autoWrite"
    BY <2>1 DEF Ops, AbsenceOps, Updaters
  <2>4. Finish(p) \/ Continue(p, next)
    BY <1>2 DEF AbsenceBlocked
  <2> HIDE DEF next
  <2> QED BY <2>1, <2>2, <2>3, <2>4, SameRows, ProcessMoves
<1>3. CASE AbsenceInsert(p)
  <2>1. op[p] \in AbsenceOps /\ Undisturbed /\ Finish(p)
    BY <1>3, OpKinds DEF AbsenceInsert, TypeOK
  <2>2. op[p].date \in Dates /\ Absence \in Rows
    BY <2>1 DEF AbsenceOps, Absence, Rows, Statuses, Instants, Minutes, NoTime, NoMinutes
  <2>3. RowsKept
    BY <1>3, <2>2, RowStored, SameRows DEF AbsenceInsert
  <2> QED BY <2>1, <2>3, ProcessEnds
<1> QED BY <1>1, <1>2, <1>3

-------------------------------------------------------------------------------
(* All steps *)

\* A process that fails holds nothing, and time changes no row.
LEMMA FailAndTickKeepTypes ==
  ASSUME TypeInv, Tick \/ \E p \in Processes : Fail(p)
  PROVE  TypeInv' /\ RowsKept
<1> USE DEF TypeInv
<1>1. CASE Tick
  <2>1. now' \in DayLength .. LastTick
    <3>1. now \in DayLength .. LastTick /\ now < LastTick /\ now' = now + 1
      BY <1>1 DEF Tick, TypeOK
    <3> QED BY <3>1, WaitsAreNat, AttendanceAssumption
  <2>2. UNCHANGED <<shift, records, leave, op, failures>>
    BY <1>1 DEF Tick
  <2>3. RowsKept
    BY <2>2, SameRows
  <2> QED BY <2>1, <2>2, <2>3 DEF TypeOK, HeldRowsExist, Exists
<1>2. ASSUME NEW p \in Processes, Fail(p)
      PROVE  TypeInv' /\ RowsKept
  <2>1. failures' \in 0 .. MaxFailures
    <3>1. failures \in 0 .. MaxFailures /\ failures < MaxFailures /\ failures' = failures + 1
      BY <1>2 DEF Fail, TypeOK
    <3>2. MaxFailures \in Nat
      BY AttendanceAssumption
    <3> QED BY <3>1, <3>2
  <2>2. op' = [op EXCEPT ![p] = Idle] /\ UNCHANGED <<now, shift, records, leave>>
    BY <1>2 DEF Fail, Finish, Continue
  <2>3. Idle \in Ops /\ Idle.pc \notin Updaters /\ Idle.pc # "autoWrite"
    BY DEF Idle, Ops, Updaters
  <2>4. DOMAIN op' = Processes /\ \A q \in Processes : op'[q] = IF q = p THEN Idle ELSE op[q]
    BY <2>2 DEF TypeOK
  <2>5. TypeOK'
    BY <2>1, <2>2, <2>3, <2>4 DEF TypeOK
  <2>6. HeldRowsExist'
    BY <2>2, <2>3, <2>4 DEF HeldRowsExist, Exists
  <2>7. RowsKept
    BY <2>2, SameRows
  <2> QED BY <2>5, <2>6, <2>7
<1> QED BY <1>1, <1>2

\* TypeInv holds when nothing has happened yet,
LEMMA TypeInit == ASSUME Init PROVE TypeInv
<1>1. now \in DayLength .. LastTick
  <2>1. LastTick \in Nat /\ LastTick >= DayLength
    BY AttendanceAssumption
  <2> QED BY <2>1, WaitsAreNat DEF Init
<1>2. failures \in 0 .. MaxFailures
  <2>1. MaxFailures \in Nat
    BY AttendanceAssumption
  <2> QED BY <2>1 DEF Init
<1>3. Idle \in Ops /\ Idle.pc \notin Updaters /\ Idle.pc # "autoWrite"
  BY DEF Idle, Ops, Updaters
<1>4. TypeOK
  BY <1>1, <1>2, <1>3 DEF Init, TypeOK
<1>5. HeldRowsExist
  BY <1>3 DEF Init, HeldRowsExist
<1> QED BY <1>4, <1>5 DEF TypeInv

\* Which steps there are, by process.
LEMMA StepCases ==
  ASSUME Next
  PROVE  \/ Tick
         \/ \E p \in Processes :
              \/ CheckInStart(p) \/ CheckInExisting(p) \/ CheckInBlocked(p) \/ CheckInInsert(p)
              \/ CheckOutStart(p) \/ CheckOutExisting(p) \/ CheckOutWrite(p)
              \/ Correct(p) \/ ApproveLeave(p)
              \/ AutoRead(p) \/ AutoWrite(p) \/ AutoDone(p)
              \/ RecalculateStart(p) \/ RecalculateRead(p) \/ RecalculateWrite(p)
              \/ CloseRead(p) \/ CloseWrite(p)
              \/ AbsenceRead(p) \/ AbsenceBlocked(p) \/ AbsenceInsert(p)
              \/ Fail(p)
<1>1. \A h \in Handlers : h \in Processes
  BY DEF Processes
<1>2. \A c \in Crons : c \in Processes
  BY DEF Processes
<1>3. CASE \E h \in Handlers : Call(h)
  BY <1>1, <1>3 DEF Call
<1>4. CASE \E c \in Crons : Schedule(c)
  BY <1>2, <1>4 DEF Schedule
<1>5. CASE \E p \in Processes : Step(p) \/ Fail(p)
  BY <1>5 DEF Step
<1> QED BY <1>3, <1>4, <1>5 DEF Next

\* every step preserves it,
LEMMA TypeNext == ASSUME TypeInv, [Next]_vars PROVE TypeInv' /\ RowsKept
<1>1. CASE UNCHANGED vars
  BY <1>1, SameRows DEF vars, TypeInv, TypeOK, HeldRowsExist, Exists
<1>2. CASE Tick \/ \E p \in Processes : Fail(p)
  BY <1>2, FailAndTickKeepTypes
<1>3. ASSUME NEW p \in Processes,
             \/ CheckInStart(p) \/ CheckInExisting(p) \/ CheckInBlocked(p) \/ CheckInInsert(p)
             \/ CheckOutStart(p) \/ CheckOutExisting(p) \/ CheckOutWrite(p)
             \/ Correct(p) \/ ApproveLeave(p)
             \/ AutoRead(p) \/ AutoWrite(p) \/ AutoDone(p)
             \/ RecalculateStart(p) \/ RecalculateRead(p) \/ RecalculateWrite(p)
             \/ CloseRead(p) \/ CloseWrite(p)
             \/ AbsenceRead(p) \/ AbsenceBlocked(p) \/ AbsenceInsert(p)
      PROVE  TypeInv' /\ RowsKept
  BY <1>3, CheckInKeepsTypes, CheckOutKeepsTypes, CorrectKeepsTypes, LeaveKeepsTypes,
     AutoKeepsTypes, RecalculateKeepsTypes, CloseKeepsTypes, AbsenceKeepsTypes
<1> QED BY <1>1, <1>2, <1>3, StepCases

\* and so it holds always.
LEMMA TypeInvariance == Spec => []TypeInv
BY TypeInit, TypeNext, PTL DEF Spec

\* Between two queries the table and what every request and job holds have their
\* shapes: in particular an update by id always finds the row its process read.
THEOREM TypeCorrect == Spec => []TypeOK
<1>1. TypeInv => TypeOK
  BY DEF TypeInv
<1> QED BY <1>1, TypeInvariance, PTL

-------------------------------------------------------------------------------
(* The days a job is about to close *)

\* A job holds only days whose shift was over, with the grace time, when it read
\* them, and so still is: the hours of the shift do not change.
DueHeld ==
  \A p \in Processes :
    /\ op[p].pc = "autoWrite" => \A t \in op[p].todo : Overdue(t.date)
    /\ op[p].pc = "closeWrite" => Overdue(op[p].date)

\* The date of a row as the driver reads it.
LEMMA DateReadIsNat ==
  ASSUME NEW d \in Dates
  PROVE  DateRead(d) \in Nat /\ DateRead(d) <= LastDate
<1>1. d \in Nat /\ d >= 1 /\ d <= LastDate
  BY DatesAreNat
<1>2. DateShift \in {0, 1}
  BY AttendanceAssumption
<1> QED BY <1>1, <1>2, LastDateIsNat DEF DateRead

\* A day that is overdue stays so as time passes.
LEMMA OverdueStays ==
  ASSUME TypeOK, NEW d \in Dates, Overdue(d), now' \in Nat, now' >= now, shift' = shift
  PROVE  Overdue(d)'
<1> DEFINE end == ScheduledOut(DateRead(d))
<1>1. end \in Nat /\ end' = end
  BY DateReadIsNat, ScheduledIsNat DEF TypeOK, ScheduledOut, At, DateRead
<1>2. now >= end + AutoCheckoutGrace
  BY DEF Overdue
<1>3. now \in Nat
  BY WaitsAreNat, AttendanceAssumption DEF TypeOK
<1> HIDE DEF end
<1>4. now' >= end + AutoCheckoutGrace
  BY <1>1, <1>2, <1>3, WaitsAreNat
<1> QED BY <1>1, <1>4 DEF Overdue, end

\* One process moves on to next, which holds only overdue days.
LEMMA DueMoves ==
  ASSUME TypeInv, DueHeld, NEW p \in Processes, NEW next, Continue(p, next), UNCHANGED <<now, shift>>,
         next.pc = "autoWrite" => \A t \in next.todo : Overdue(t.date),
         next.pc = "closeWrite" => Overdue(next.date)
  PROVE  DueHeld'
<1>1. \A q \in Processes : op'[q] = IF q = p THEN next ELSE op[q]
  BY DEF Continue, TypeInv, TypeOK
<1>2. \A q \in Processes :
        /\ op'[q].pc = "autoWrite" => \A t \in op'[q].todo : Overdue(t.date)
        /\ op'[q].pc = "closeWrite" => Overdue(op'[q].date)
  BY <1>1 DEF DueHeld
<1> QED BY <1>2 DEF DueHeld, Overdue, ScheduledOut, At, DateRead

\* Every step preserves DueHeld: only a read of overdue rows adds to what a job holds.
LEMMA DueNext == ASSUME TypeInv, DueHeld, [Next]_vars PROVE DueHeld'
<1> USE DEF TypeInv
<1>1. CASE UNCHANGED vars
  BY <1>1 DEF vars, DueHeld, Overdue, ScheduledOut, At, DateRead
<1>2. CASE Tick
  <2>1. now' \in Nat /\ now' >= now /\ shift' = shift /\ op' = op
    <3>1. now \in Nat
      BY WaitsAreNat, AttendanceAssumption DEF TypeOK
    <3> QED BY <1>2, <3>1 DEF Tick
  <2>2. ASSUME NEW p \in Processes, op[p].pc = "autoWrite", NEW t \in op[p].todo
        PROVE  Overdue(t.date)'
    <3>1. t.date \in Dates /\ Overdue(t.date)
      BY <2>2 DEF HeldRowsExist, Exists, DueHeld
    <3> QED BY <2>1, <3>1, OverdueStays
  <2>3. ASSUME NEW p \in Processes, op[p].pc = "closeWrite"
        PROVE  Overdue(op[p].date)'
    <3>1. op[p].date \in Dates /\ Overdue(op[p].date)
      BY <2>3 DEF HeldRowsExist, Updaters, Exists, DueHeld
    <3> DEFINE d == op[p].date
    <3>2. d \in Dates /\ Overdue(d) /\ d' = d
      BY <2>1, <3>1
    <3> HIDE DEF d
    <3>3. Overdue(d)'
      BY <2>1, <3>2, OverdueStays
    <3> QED BY <3>3 DEF d
  <2> QED BY <2>1, <2>2, <2>3 DEF DueHeld
<1>3. ASSUME NEW p \in Processes,
             \/ CheckInStart(p) \/ CheckInExisting(p) \/ CheckInBlocked(p) \/ CheckInInsert(p)
             \/ CheckOutStart(p) \/ CheckOutExisting(p) \/ CheckOutWrite(p)
             \/ AutoDone(p) \/ RecalculateStart(p) \/ RecalculateRead(p) \/ RecalculateWrite(p)
             \/ CloseWrite(p) \/ AbsenceRead(p) \/ AbsenceBlocked(p) \/ AbsenceInsert(p) \/ Fail(p)
      PROVE  DueHeld'
  <2>1. PICK next : Continue(p, next) /\ next.pc \notin {"autoWrite", "closeWrite"}
    <3>1. op[p] \in Ops
      BY DEF TypeOK
    <3>2. CASE CheckInStart(p) \/ CheckOutStart(p) \/ RecalculateStart(p) \/ AbsenceRead(p)
      <4>1. CASE CheckInStart(p)
        BY <4>1 DEF CheckInStart
      <4>2. CASE CheckOutStart(p)
        BY <4>2 DEF CheckOutStart
      <4>3. CASE RecalculateStart(p)
        BY <4>3 DEF RecalculateStart
      <4>4. CASE AbsenceRead(p)
        BY <4>4 DEF AbsenceRead
      <4> QED BY <3>2, <4>1, <4>2, <4>3, <4>4
    <3>3. CASE Finish(p)
      BY <3>3 DEF Finish, Idle
    <3>4. CASE CheckInExisting(p) \/ CheckInBlocked(p)
      <4>1. op[p] \in InOps
        BY <3>1, <3>4, OpKinds DEF CheckInExisting, CheckInBlocked
      <4> QED BY <3>3, <3>4, <4>1 DEF CheckInExisting, CheckInBlocked, InOps
    <3>5. CASE CheckOutExisting(p)
      BY <3>3, <3>5 DEF CheckOutExisting
    <3>6. CASE AutoDone(p) \/ RecalculateWrite(p)
      <4>1. PICK dates : Continue(p, [pc |-> "recalcRead", dates |-> dates])
        <5>1. CASE AutoDone(p)
          <6>1. Continue(p, [pc |-> "recalcRead", dates |-> op[p].affected])
            BY <5>1 DEF AutoDone
          <6> QED BY <6>1
        <5>2. CASE RecalculateWrite(p)
          <6>1. Continue(p, [pc |-> "recalcRead", dates |-> op[p].dates])
            BY <5>2 DEF RecalculateWrite
          <6> QED BY <6>1
        <5> QED BY <3>6, <5>1, <5>2
      <4> DEFINE next == [pc |-> "recalcRead", dates |-> dates]
      <4>2. Continue(p, next) /\ next.pc = "recalcRead"
        BY <4>1
      <4> HIDE DEF next
      <4> QED BY <4>2
    <3>7. CASE RecalculateRead(p)
      <4>1. op[p] \in RecalcReads
        BY <3>1, <3>7, OpKinds DEF RecalculateRead
      <4>2. ASSUME NEW d \in op[p].dates, Continue(p, [op[p] EXCEPT !.dates = @ \ {d}])
            PROVE  \E next : Continue(p, next) /\ next.pc \notin {"autoWrite", "closeWrite"}
        <5>1. [op[p] EXCEPT !.dates = @ \ {d}].pc = "recalcRead"
          BY <4>1 DEF RecalcReads
        <5> QED BY <4>2, <5>1
      <4>3. ASSUME NEW d \in op[p].dates,
                   Continue(p, [pc |-> "recalcWrite", dates |-> op[p].dates \ {d},
                                date |-> d, row |-> records[d]])
            PROVE  \E next : Continue(p, next) /\ next.pc \notin {"autoWrite", "closeWrite"}
        BY <4>3
      <4> QED BY <3>3, <3>7, <4>2, <4>3 DEF RecalculateRead
    <3>8. CASE AbsenceBlocked(p)
      <4>1. op[p] \in AbsenceOps
        BY <3>1, <3>8, OpKinds DEF AbsenceBlocked
      <4> QED BY <3>3, <3>8, <4>1 DEF AbsenceBlocked, AbsenceOps
    <3>9. CASE CheckInInsert(p) \/ CheckOutWrite(p) \/ CloseWrite(p) \/ AbsenceInsert(p) \/ Fail(p)
      BY <3>3, <3>9 DEF CheckInInsert, CheckOutWrite, CloseWrite, AbsenceInsert, Fail
    <3> QED BY <1>3, <3>2, <3>4, <3>5, <3>6, <3>7, <3>8, <3>9
  <2>2. UNCHANGED <<now, shift>>
    BY <1>3 DEF CheckInStart, CheckInExisting, CheckInBlocked, CheckInInsert, CheckOutStart,
                CheckOutExisting, CheckOutWrite, AutoDone, RecalculateStart, RecalculateRead,
                RecalculateWrite, CloseWrite, AbsenceRead, AbsenceBlocked, AbsenceInsert, Fail, Undisturbed
  <2> QED BY <2>1, <2>2, DueMoves
<1>4. ASSUME NEW p \in Processes, Correct(p) \/ ApproveLeave(p)
      PROVE  DueHeld'
  BY <1>4 DEF Correct, ApproveLeave, Undisturbed, DueHeld, Overdue, ScheduledOut, At, DateRead
<1>5. ASSUME NEW p \in Processes, AutoRead(p)
      PROVE  DueHeld'
  <2> DEFINE due == {e \in AutoCandidates : Overdue(e)}
             todo == {[date |-> d, in |-> records[d].in] : d \in due}
             next == [pc |-> "autoWrite", todo |-> todo, affected |-> {}]
  <2>1. Continue(p, next) /\ UNCHANGED <<now, shift>>
    BY <1>5 DEF AutoRead, Undisturbed
  <2>2. \A d \in due : Overdue(d)
    OBVIOUS
  <2> HIDE DEF due
  <2>3. \A t \in todo : Overdue(t.date)
    BY <2>2
  <2>4. next.pc = "autoWrite" /\ next.todo = todo
    OBVIOUS
  <2> HIDE DEF todo, next
  <2> QED BY <2>1, <2>3, <2>4, DueMoves
<1>6. ASSUME NEW p \in Processes, AutoWrite(p)
      PROVE  DueHeld'
  <2>1. op[p] \in AutoOps /\ UNCHANGED <<now, shift>>
    BY <1>6, OpKinds DEF AutoWrite, TypeOK, Undisturbed
  <2>2. PICK next : Continue(p, next) /\ next.pc = "autoWrite" /\ next.todo \subseteq op[p].todo
    <3>1. PICK t \in op[p].todo :
            \/ Continue(p, [op[p] EXCEPT !.todo = @ \ {t}, !.affected = @ \cup {DateRead(t.date)}])
            \/ Continue(p, [op[p] EXCEPT !.todo = @ \ {t}])
      BY <1>6 DEF AutoWrite
    <3> DEFINE both == [op[p] EXCEPT !.todo = @ \ {t}, !.affected = @ \cup {DateRead(t.date)}]
               one  == [op[p] EXCEPT !.todo = @ \ {t}]
    <3>2. /\ both.pc = "autoWrite" /\ both.todo = op[p].todo \ {t}
          /\ one.pc = "autoWrite" /\ one.todo = op[p].todo \ {t}
      BY <2>1 DEF AutoOps
    <3>3. Continue(p, both) \/ Continue(p, one)
      BY <3>1
    <3> HIDE DEF both, one
    <3> QED BY <3>2, <3>3
  <2>3. \A t \in next.todo : Overdue(t.date)
    BY <1>6, <2>2 DEF AutoWrite, DueHeld
  <2> QED BY <2>1, <2>2, <2>3, DueMoves
<1>7. ASSUME NEW p \in Processes, CloseRead(p)
      PROVE  DueHeld'
  <2>1. PICK d : Overdue(d) /\ Continue(p, [pc |-> "closeWrite", date |-> d])
    BY <1>7 DEF CloseRead
  <2> DEFINE next == [pc |-> "closeWrite", date |-> d]
  <2>2. Continue(p, next) /\ next.pc = "closeWrite" /\ next.date = d
    BY <2>1
  <2> HIDE DEF next
  <2>3. UNCHANGED <<now, shift>>
    BY <1>7 DEF CloseRead, Undisturbed
  <2> QED BY <2>1, <2>2, <2>3, DueMoves
<1> QED BY <1>1, <1>2, <1>3, <1>4, <1>5, <1>6, <1>7, StepCases

\* The two invariants together.
LEMMA DueInvariance == Spec => [](TypeInv /\ DueHeld)
<1>1. Init => DueHeld
  BY DEF Init, Idle, DueHeld
<1> QED BY <1>1, TypeInit, TypeNext, DueNext, PTL DEF Spec

-------------------------------------------------------------------------------
(* What a step does to a row that exists *)

\* A write keeps the check-in, unless it is a correction, and marks the day as
\* closed automatically only while it has no exit and is overdue.
RowChange(d) ==
  Exists(d) =>
    /\ records'[d] # NoRecord
    /\ records'[d].in = records[d].in \/ records'[d].manual
    /\ \/ records'[d].auto = records[d].auto
       \/ records[d].out = NoTime /\ Overdue(d)

\* A step that writes no row changes none.
LEMMA NoRowChange == ASSUME UNCHANGED records PROVE \A e \in Dates : RowChange(e)
BY DEF RowChange, Exists

\* Every step is such a write, or none.
LEMMA RowsChange ==
  ASSUME TypeInv, DueHeld, [Next]_vars
  PROVE  \A e \in Dates : RowChange(e)
<1> USE DEF TypeInv
<1>1. CASE UNCHANGED vars
  BY <1>1, NoRowChange DEF vars
<1>2. ASSUME NEW p \in Processes,
             \/ CheckInStart(p) \/ CheckInExisting(p) \/ CheckInBlocked(p)
             \/ CheckOutStart(p) \/ CheckOutExisting(p) \/ ApproveLeave(p)
             \/ AutoRead(p) \/ AutoDone(p) \/ RecalculateStart(p) \/ RecalculateRead(p)
             \/ CloseRead(p) \/ AbsenceRead(p) \/ AbsenceBlocked(p)
      PROVE  \A e \in Dates : RowChange(e)
  <2>1. UNCHANGED records
    BY <1>2 DEF CheckInStart, CheckInExisting, CheckInBlocked, CheckOutStart, CheckOutExisting,
                ApproveLeave, AutoRead, AutoDone, RecalculateStart, RecalculateRead,
                CloseRead, AbsenceRead, AbsenceBlocked
  <2> QED BY <2>1, NoRowChange
<1>3. ASSUME NEW p \in Processes, CheckInInsert(p)
      PROVE  \A e \in Dates : RowChange(e)
  <2>1. PICK row : records' = IF Exists(op[p].date) THEN records
                              ELSE [records EXCEPT ![op[p].date] = row]
    BY <1>3 DEF CheckInInsert
  <2> QED BY <2>1, NoRowChange DEF RowChange, Exists, TypeOK
<1>4. ASSUME NEW p \in Processes, AbsenceInsert(p)
      PROVE  \A e \in Dates : RowChange(e)
  <2>1. records' = IF Exists(op[p].date) THEN records
                   ELSE [records EXCEPT ![op[p].date] = Absence]
    BY <1>4 DEF AbsenceInsert
  <2> QED BY <2>1, NoRowChange DEF RowChange, Exists, TypeOK
<1>5. ASSUME NEW p \in Processes,
             CheckOutWrite(p) \/ RecalculateWrite(p) \/ AutoWrite(p) \/ CloseWrite(p) \/ Correct(p)
      PROVE  \A e \in Dates : RowChange(e)
  <2>1. RowsKept
    BY <1>5, CheckOutKeepsTypes, RecalculateKeepsTypes, AutoKeepsTypes, CloseKeepsTypes, CorrectKeepsTypes
  <2>2. SUFFICES ASSUME NEW e \in Dates, Exists(e)
                 PROVE  /\ records'[e].in = records[e].in \/ records'[e].manual
                        /\ \/ records'[e].auto = records[e].auto
                           \/ records[e].out = NoTime /\ Overdue(e)
    BY <2>1 DEF RowChange, RowsKept, Exists
  <2>3. records[e] \in Rows /\ DOMAIN records = Dates
    BY <2>2 DEF TypeOK, Exists
  <2>4. CASE CheckOutWrite(p)
    <3> DEFINE d     == op[p].date
               start == At(d, HourOf(IF op[p].in = NoTime THEN now ELSE op[p].in))
               same  == At(d, HourOf(op[p].time))
               end   == IF same < start THEN same + DayLength ELSE same
               m     == Metrics(d, start, end, op[p].status)
    <3>1. records' = [records EXCEPT
            ![d].status = m.status, ![d].out = end, ![d].late = m.late,
            ![d].worked = end - start, ![d].effective = m.effective]
      BY <2>4 DEF CheckOutWrite
    <3> HIDE DEF d, start, end, m
    <3>2. records'[e] = records[e] \/ records'[e] = [records[e] EXCEPT
            !.status = m.status, !.out = end, !.late = m.late,
            !.worked = end - start, !.effective = m.effective]
      BY <2>3, <3>1
    <3> QED BY <2>3, <3>2 DEF Rows
  <2>5. CASE RecalculateWrite(p)
    <3>1. \E status, late, effective :
            records' = [records EXCEPT
              ![op[p].date].status = status, ![op[p].date].late = late,
              ![op[p].date].effective = effective]
      BY <2>5 DEF RecalculateWrite
    <3> QED BY <2>3, <3>1 DEF Rows
  <2>6. CASE AutoWrite(p)
    <3>1. PICK t \in op[p].todo :
            LET out == ScheduledOut(DateRead(t.date))
            IN  IF records[t.date].out = NoTime
                THEN records' = [records EXCEPT
                       ![t.date].status = IF records[t.date].late > 0 THEN "late" ELSE "present",
                       ![t.date].out = out,
                       ![t.date].worked = Max({out - t.in, 0}),
                       ![t.date].auto = TRUE]
                ELSE UNCHANGED records
      BY <2>6 DEF AutoWrite
    <3> DEFINE d == t.date
               status == IF records[d].late > 0 THEN "late" ELSE "present"
               out == ScheduledOut(DateRead(d))
               worked == Max({out - t.in, 0})
    <3>2. \/ UNCHANGED records
          \/ /\ records[d].out = NoTime /\ Overdue(d)
             /\ records' = [records EXCEPT
                  ![d].status = status, ![d].out = out, ![d].worked = worked, ![d].auto = TRUE]
      BY <2>6, <3>1 DEF AutoWrite, DueHeld
    <3> HIDE DEF d, status, out, worked
    <3> QED BY <2>3, <3>2 DEF Rows
  <2>7. CASE CloseWrite(p)
    BY <2>3, <2>7 DEF CloseWrite, DueHeld, Rows
  <2>8. CASE Correct(p)
    <3>1. PICK d \in Dates, c \in Corrections :
           LET in    == IF c.in = NoTime THEN NoTime ELSE At(d, c.in)
               same  == IF c.out = NoTime THEN NoTime ELSE At(d, c.out)
               out   == IF same # NoTime /\ in # NoTime /\ same < in
                          THEN same + DayLength ELSE same
               m     == Metrics(d, in, out, c.status)
           IN  records' = [records EXCEPT ![d] =
                 [status |-> m.status, in |-> in, out |-> out, late |-> m.late,
                  worked |-> IF in # NoTime /\ out # NoTime THEN out - in ELSE NoMinutes,
                  effective |-> m.effective,
                  auto |-> IF Exists(d) THEN records[d].auto ELSE FALSE,
                  manual |-> TRUE]]
      BY <2>8 DEF Correct
    <3> DEFINE in    == IF c.in = NoTime THEN NoTime ELSE At(d, c.in)
               same  == IF c.out = NoTime THEN NoTime ELSE At(d, c.out)
               out   == IF same # NoTime /\ in # NoTime /\ same < in
                          THEN same + DayLength ELSE same
               m     == Metrics(d, in, out, c.status)
               worked == IF in # NoTime /\ out # NoTime THEN out - in ELSE NoMinutes
               auto == IF Exists(d) THEN records[d].auto ELSE FALSE
    <3>2. records' = [records EXCEPT ![d] =
                 [status |-> m.status, in |-> in, out |-> out, late |-> m.late,
                  worked |-> worked, effective |-> m.effective, auto |-> auto, manual |-> TRUE]]
      BY <3>1
    <3>3. Exists(d) => auto = records[d].auto
      OBVIOUS
    <3> HIDE DEF in, same, out, m, worked, auto
    <3>4. CASE e = d
      <4>1. records'[e].manual /\ records'[e].auto = auto
        BY <2>3, <3>2, <3>4
      <4> QED BY <2>2, <3>3, <3>4, <4>1
    <3>5. CASE e # d
      <4>1. records'[e] = records[e]
        BY <2>3, <3>2, <3>5
      <4> QED BY <4>1
    <3> QED BY <3>4, <3>5
  <2> QED BY <1>5, <2>4, <2>5, <2>6, <2>7, <2>8
<1>6. CASE Tick
  BY <1>6, NoRowChange DEF Tick
<1>7. CASE \E p \in Processes : Fail(p)
  BY <1>7, NoRowChange DEF Fail
<1> QED BY <1>1, <1>2, <1>3, <1>4, <1>5, <1>6, <1>7, StepCases

\* A check-in stays in its row whatever other requests and jobs were doing when
\* it was stored: no absence takes its place, and no check-out, closing or
\* recalculation from an earlier reading changes it; only a correction does.
THEOREM CheckInsKept == Spec => CheckInKept
<1>1. ASSUME TypeInv, DueHeld, [Next]_vars
      PROVE  [\A d \in Dates :
                (Exists(d) /\ records[d].in # NoTime)
                => Exists(d)' /\ (records'[d].in = records[d].in \/ records'[d].manual)]_vars
  BY <1>1, RowsChange DEF RowChange, Exists
<1> QED BY <1>1, DueInvariance, PTL DEF Spec, CheckInKept

\* A day with an exit that no job closed is never marked as closed automatically:
\* the jobs test the exit again when they write, so one that selected the row
\* while it was open leaves it alone.
THEOREM ClosedDaysStay == Spec => ClosedByHandStays
<1>1. ASSUME TypeInv, DueHeld, [Next]_vars
      PROVE  [\A d \in Dates :
                (Exists(d) /\ records[d].out # NoTime /\ ~records[d].auto)
                => Exists(d)' /\ ~records'[d].auto]_vars
  BY <1>1, RowsChange DEF RowChange, Exists
<1> QED BY <1>1, DueInvariance, PTL DEF Spec, ClosedByHandStays

\* Counted from its start, a shift is over at its scheduled end, on the next day
\* when it ends at an hour not after that of its start.
LEMMA ShiftOverAtItsEnd ==
  ASSUME NEW d \in Nat, shift \in Shifts
  PROVE  ShiftOver(d) = ScheduledOut(d)
<1>1. shift.start \in Hours /\ shift.end \in Hours
  BY AttendanceAssumption
<1>2. d * DayLength \in Nat /\ (d + 1) * DayLength = d * DayLength + DayLength
  BY WaitsAreNat
<1> QED BY <1>1, <1>2, WaitsAreNat DEF ShiftOver, ScheduledIn, ScheduledOut, At, Hours

\* Where the server and the shift share a time zone, no job closes a day before
\* its shift has been over for the grace time, a night shift's on the next day,
\* however the jobs, the check-outs and the corrections interleave.
THEOREM NeverClosedEarly ==
  ASSUME DateShift = 0
  PROVE  Spec => NotClosedEarly
<1>1. ASSUME TypeInv, DueHeld, [Next]_vars
      PROVE  [\A d \in Dates :
                (Open(d) /\ ~records[d].auto /\ Exists(d)' /\ records'[d].auto)
                => now >= ShiftOver(d) + AutoCheckoutGrace]_vars
  <2>1. SUFFICES ASSUME NEW d \in Dates, Open(d), ~records[d].auto, records'[d].auto
                 PROVE  now >= ShiftOver(d) + AutoCheckoutGrace
    OBVIOUS
  <2>2. Overdue(d)
    BY <1>1, <2>1, RowsChange DEF RowChange, Open
  <2>3. d \in Nat /\ shift \in Shifts
    BY <1>1, DatesAreNat DEF TypeInv, TypeOK
  <2>4. DateRead(d) = d
    BY <2>3 DEF DateRead
  <2> QED BY <2>2, <2>3, <2>4, ShiftOverAtItsEnd DEF Overdue
<1> QED BY <1>1, DueInvariance, PTL DEF Spec, NotClosedEarly

-------------------------------------------------------------------------------
(* One request or job at a time: what the rows say of the marks *)

Alone == \A p, q \in Processes : p = q

\* calculateAttendanceMetrics: the lateness of a check-in.
IsLate(d, in) == in > ScheduledIn(d) + Tolerance
LateOf(d, in) == IF IsLate(d, in) THEN in - ScheduledIn(d) ELSE 0

\* The hours of the row count as minutes: closed after a check-in within the shift.
Countable(d, row) ==
  DateShift = 0 /\ row.in # NoTime /\ row.out # NoTime /\ row.in <= ScheduledOut(d)

\* What every write keeps of a row: the check-in is an hour of its date and tells the
\* lateness, the exit tells the minutes worked, and only an absence has no hours unless
\* it was corrected.
RowSound(d, row) ==
  /\ row.in # NoTime =>
       /\ row.in = At(d, HourOf(row.in))
       /\ row.status # "rejected" => row.late = LateOf(d, row.in)
       /\ row.status = "late" => IsLate(d, row.in)
       /\ row.status = "present" => ~IsLate(d, row.in)
  /\ Countable(d, row) => row.out >= row.in /\ row.worked = row.out - row.in
  /\ row.in = NoTime /\ row.out = NoTime /\ ~row.manual => row = Absence

\* The effective minutes come after the minutes worked where a job closed the day:
\* until the recalculation that follows is done they are still to be written.
EffectiveFits(d, row) == Countable(d, row) => row.effective = Effective(row.worked)

ToRecalculate(o) ==
  CASE o.pc = "autoWrite"   -> o.affected
    [] o.pc = "recalcRead"  -> o.dates
    [] o.pc = "recalcWrite" -> o.dates \cup {o.date}
    [] OTHER                -> {}

\* What a process alone has read is what the table still holds when it writes.
ReadHolds(o, rows, leaves, time) ==
  /\ o.pc = "outWrite" => o.in = rows[o.date].in /\ o.status = rows[o.date].status
  /\ o.pc = "autoWrite" =>
       \A t \in o.todo : /\ rows[t.date].in = t.in /\ rows[t.date].out = NoTime
                         /\ rows[t.date].status \notin {"absent", "rejected"}
  /\ o.pc = "recalcWrite" => o.row = rows[o.date]
  /\ o.pc = "closeWrite" =>
       rows[o.date].in # NoTime /\ rows[o.date].status \notin {"absent", "rejected"}
  /\ o.pc \in {"absBlock", "absInsert"} => o.date \in WorkingDays /\ rows[o.date] = NoRecord
  /\ o.pc = "absInsert" => o.date \notin leaves /\ time >= ScheduledOut(o.date) + AbsenceGrace

SoundRows == \A d \in Dates : Exists(d) => RowSound(d, records[d])

ReadsHold == \A p \in Processes : ReadHolds(op[p], records, leave, now)

Recalculated ==
  failures = 0 =>
    \A d \in Dates : Exists(d) =>
      EffectiveFits(d, records[d]) \/ \E p \in Processes : d \in ToRecalculate(op[p])

AloneInv == SoundRows /\ ReadsHold /\ Recalculated

\* The hour of an hour of a date is that hour.
LEMMA DivisionParts ==
  ASSUME NEW a \in Nat, NEW l \in Nat, l > 0
  PROVE  a = l * (a \div l) + (a % l) /\ (a % l) \in 0 .. l - 1 /\ a \div l \in Nat
OBVIOUS

LEMMA RemainderIs ==
  ASSUME NEW d \in Nat, NEW l \in Nat, l > 0, NEW h \in 0 .. l - 1
  PROVE  (d * l + h) % l = h
<1> DEFINE a == d * l + h
<1>0. d * l \in Nat
  OBVIOUS
<1>1. a \in Nat /\ a - h = d * l
  BY <1>0
<1> HIDE DEF a
<1>2. PICK q \in Nat, r \in 0 .. l - 1 : a = l * q + r /\ r = a % l
  BY <1>1, DivisionParts
<1>3. l * q \in Nat /\ r - h = d * l - l * q
  BY <1>0, <1>1, <1>2
<1>4. CASE q = d
  BY <1>2, <1>3, <1>4 DEF a
<1>5. CASE q < d
  <2>1. d - q - 1 \in Nat
    BY <1>5
  <2>2. PICK k \in Nat : d = q + 1 + k
    BY <2>1
  <2>3. d * l = q * l + l + k * l /\ k * l \in Nat /\ l * q = q * l
    BY <2>2
  <2> QED BY <1>3, <2>3
<1>6. CASE q > d
  <2>1. q - d - 1 \in Nat
    BY <1>6
  <2>2. PICK k \in Nat : q = d + 1 + k
    BY <2>1
  <2>3. l * q = d * l + l + k * l /\ k * l \in Nat
    BY <2>2
  <2> QED BY <1>3, <2>3
<1> QED BY <1>4, <1>5, <1>6

LEMMA HourOfDate ==
  ASSUME NEW d \in Nat, NEW hour \in Hours
  PROVE  At(d, HourOf(At(d, hour))) = At(d, hour)
<1>1. HourOf(At(d, hour)) = hour
  BY RemainderIs, WaitsAreNat DEF HourOf, At, Hours
<1> QED BY <1>1

\* What calculateAttendanceMetrics says of a day with a check-in.
LEMMA MetricsTell ==
  ASSUME NEW d, NEW in \in Nat, NEW out, NEW status
  PROVE  /\ Metrics(d, in, out, status).late = LateOf(d, in)
         /\ Metrics(d, in, out, status).status = IF IsLate(d, in) THEN "late" ELSE status
         /\ Metrics(d, in, out, status).effective =
              IF out # NoTime THEN Effective(Elapsed(in, out)) ELSE NoMinutes
BY DEF Metrics, LateOf, IsLate, NoTime

\* Only who is late has minutes of lateness.
LEMMA LateCounts ==
  ASSUME shift \in Shifts, NEW d \in Dates, NEW in \in Nat
  PROVE  LateOf(d, in) > 0 <=> IsLate(d, in)
<1>1. ScheduledIn(d) \in Nat /\ Tolerance \in Nat
  BY ScheduledIsNat, DatesAreNat, WaitsAreNat
<1> QED BY <1>1 DEF LateOf, IsLate

\* A row that was computed from its marks is sound.
LEMMA MeteredRow ==
  ASSUME NEW d \in Dates, NEW row \in Rows, NEW status \in Statuses,
         row.in # NoTime, row.in = At(d, HourOf(row.in)), status = "late" => IsLate(d, row.in),
         row.status = Metrics(d, row.in, row.out, status).status,
         row.late = Metrics(d, row.in, row.out, status).late,
         row.out # NoTime =>
           /\ row.out >= row.in /\ row.worked = row.out - row.in
           /\ row.effective = Metrics(d, row.in, row.out, status).effective
  PROVE  RowSound(d, row) /\ EffectiveFits(d, row)
<1>1. row.in \in Nat /\ row.out \in Instants
  BY DEF Rows, Instants
<1>2. /\ row.late = LateOf(d, row.in)
      /\ row.status = IF IsLate(d, row.in) THEN "late" ELSE status
      /\ row.out # NoTime => row.effective = Effective(Elapsed(row.in, row.out))
  <2> DEFINE m == Metrics(d, row.in, row.out, status)
  <2>1. /\ m.late = LateOf(d, row.in)
        /\ m.status = IF IsLate(d, row.in) THEN "late" ELSE status
        /\ m.effective = IF row.out # NoTime THEN Effective(Elapsed(row.in, row.out)) ELSE NoMinutes
    BY <1>1, MetricsTell
  <2>2. row.status = m.status /\ row.late = m.late /\ (row.out # NoTime => row.effective = m.effective)
    OBVIOUS
  <2> HIDE DEF m
  <2> QED BY <2>1, <2>2
<1>3. row.out # NoTime => Elapsed(row.in, row.out) = row.worked
  BY <1>1, WaitsAreNat DEF Elapsed, Instants
<1> QED BY <1>2, <1>3 DEF RowSound, EffectiveFits, Countable

\* The process moves on to next; a row that it writes is sound, and fits or waits for a
\* recalculation.
LEMMA AloneMoves ==
  ASSUME Alone, TypeOK, AloneInv, NEW p \in Processes, NEW next, op'[p] = next, Undisturbed,
         ReadHolds(next, records', leave, now),
         \A e \in Dates : records'[e] # NoRecord =>
           /\ records'[e] = records[e] \/ RowSound(e, records'[e])
           /\ \/ records'[e] = records[e] /\ e \notin ToRecalculate(op[p])
              \/ e \in ToRecalculate(next)
              \/ EffectiveFits(e, records'[e])
  PROVE  AloneInv'
<1>1. op'[p] = next /\ \A q \in Processes : q = p
  BY DEF Alone
<1>2. shift' = shift /\ now' = now /\ leave' = leave /\ failures' = failures
  BY DEF Undisturbed
<1>3. SoundRows'
  <2> SUFFICES ASSUME NEW d \in Dates, records'[d] # NoRecord
               PROVE  RowSound(d, records[d])'
    BY DEF SoundRows, Exists
  <2>1. RowSound(d, records'[d])
    BY DEF AloneInv, SoundRows, Exists
  <2> QED BY <1>2, <2>1 DEF RowSound, Countable, IsLate, LateOf, ScheduledIn, ScheduledOut, At, HourOf,
                            Absence
<1>4. ReadsHold'
  BY <1>1, <1>2 DEF ReadsHold, ReadHolds, ScheduledOut, At
<1>5. Recalculated'
  <2> SUFFICES ASSUME failures = 0, NEW d \in Dates, records'[d] # NoRecord
               PROVE  EffectiveFits(d, records[d])' \/ d \in ToRecalculate(next)
    BY <1>1, <1>2 DEF Recalculated, ToRecalculate, Exists
  <2>1. EffectiveFits(d, records'[d]) \/ d \in ToRecalculate(next)
    BY <1>1 DEF AloneInv, Recalculated, Exists
  <2> QED BY <1>2, <2>1 DEF EffectiveFits, Countable, ScheduledOut, At, Effective
<1> QED BY <1>3, <1>4, <1>5 DEF AloneInv

\* A step that writes no row only has to hold what it read.
LEMMA AloneReads ==
  ASSUME Alone, TypeOK, AloneInv, NEW p \in Processes, NEW next, Continue(p, next), Undisturbed,
         UNCHANGED records, ReadHolds(next, records, leave, now),
         \A e \in Dates : Exists(e) /\ e \in ToRecalculate(op[p]) => e \in ToRecalculate(next)
  PROVE  AloneInv'
<1>1. op'[p] = next
  BY DEF Continue, TypeOK
<1> QED BY <1>1, AloneMoves DEF Exists

\* So does one that writes a single row.
LEMMA AloneWrites ==
  ASSUME Alone, TypeOK, AloneInv, NEW p \in Processes, NEW next, op'[p] = next, Undisturbed,
         NEW d \in Dates, NEW row \in Rows, records' = [records EXCEPT ![d] = row],
         ReadHolds(next, records', leave, now), RowSound(d, row),
         EffectiveFits(d, row) \/ d \in ToRecalculate(next),
         ToRecalculate(op[p]) \ {d} \subseteq ToRecalculate(next)
  PROVE  AloneInv'
<1>1. records'[d] = row /\ \A e \in Dates \ {d} : records'[e] = records[e]
  BY DEF TypeOK
<1> QED BY <1>1, AloneMoves

LEMMA IdleHolds ==
  ASSUME NEW rows, NEW leaves, NEW time
  PROVE  ReadHolds(Idle, rows, leaves, time) /\ ToRecalculate(Idle) = {}
BY DEF ReadHolds, ToRecalculate, Idle

\* The steps that only read: what they hold is what they read.
LEMMA AloneCheckReads ==
  ASSUME Alone, TypeOK, AloneInv, NEW p \in Processes,
         \/ CheckInStart(p) \/ CheckInExisting(p) \/ CheckInBlocked(p)
         \/ CheckOutStart(p) \/ CheckOutExisting(p)
  PROVE  AloneInv'
<1>1. UNCHANGED records /\ Undisturbed
  BY DEF CheckInStart, CheckInExisting, CheckInBlocked, CheckOutStart, CheckOutExisting
<1>2. ToRecalculate(op[p]) = {}
  BY DEF CheckInStart, CheckInExisting, CheckInBlocked, CheckOutStart, CheckOutExisting, Idle,
         ToRecalculate
<1>3. CASE Finish(p)
  BY <1>1, <1>2, <1>3, IdleHolds, AloneReads DEF Finish
<1>4. ASSUME NEW next, Continue(p, next), next.pc \in {"inCheck", "inBlock", "inInsert", "outCheck"}
      PROVE  AloneInv'
  <2>1. ReadHolds(next, records, leave, now)
    BY <1>4 DEF ReadHolds
  <2> QED BY <1>1, <1>2, <1>4, <2>1, AloneReads
<1>5. CASE CheckInStart(p) \/ CheckOutStart(p)
  BY <1>4, <1>5 DEF CheckInStart, CheckOutStart
<1>6. CASE CheckInExisting(p) \/ CheckInBlocked(p)
  <2>1. op[p] \in InOps
    BY <1>6, OpKinds DEF CheckInExisting, CheckInBlocked, TypeOK
  <2>2. /\ [op[p] EXCEPT !.pc = "inBlock"].pc = "inBlock"
        /\ [op[p] EXCEPT !.pc = "inInsert"].pc = "inInsert"
    BY <2>1 DEF InOps
  <2> QED BY <1>3, <1>4, <1>6, <2>2 DEF CheckInExisting, CheckInBlocked
<1>7. CASE CheckOutExisting(p)
  <2> DEFINE d == op[p].date
             next == [pc |-> "outWrite", date |-> d, time |-> op[p].time,
                      in |-> records[d].in, status |-> records[d].status]
  <2>1. Finish(p) \/ Continue(p, next)
    BY <1>7 DEF CheckOutExisting
  <2>2. ReadHolds(next, records, leave, now)
    BY DEF ReadHolds
  <2> HIDE DEF next
  <2> QED BY <1>1, <1>2, <1>3, <2>1, <2>2, AloneReads
<1> QED BY <1>5, <1>6, <1>7

\* The first reading of a job.
LEMMA AloneJobStarts ==
  ASSUME Alone, TypeOK, AloneInv, NEW p \in Processes,
         AutoRead(p) \/ RecalculateStart(p) \/ CloseRead(p) \/ AbsenceRead(p)
  PROVE  AloneInv'
<1>1. UNCHANGED records /\ Undisturbed /\ op[p] = Idle
  BY DEF AutoRead, RecalculateStart, CloseRead, AbsenceRead
<1>2. ToRecalculate(op[p]) = {}
  BY <1>1, IdleHolds
<1>3. CASE AutoRead(p)
  <2> DEFINE due == {e \in AutoCandidates : Overdue(e)}
             todo == {[date |-> d, in |-> records[d].in] : d \in due}
             next == [pc |-> "autoWrite", todo |-> todo, affected |-> {}]
  <2>1. Continue(p, next)
    BY <1>3 DEF AutoRead
  <2>2. \A d \in due : records[d].out = NoTime /\ records[d].status \notin {"absent", "rejected"}
    BY DEF AutoCandidates, Open
  <2> HIDE DEF due
  <2>3. \A t \in todo : /\ records[t.date].in = t.in /\ records[t.date].out = NoTime
                        /\ records[t.date].status \notin {"absent", "rejected"}
    BY <2>2
  <2> HIDE DEF todo
  <2>4. ReadHolds(next, records, leave, now)
    BY <2>3 DEF ReadHolds
  <2> HIDE DEF next
  <2> QED BY <1>1, <1>2, <2>1, <2>4, AloneReads
<1>4. CASE RecalculateStart(p)
  <2>1. PICK d \in Dates : Continue(p, [pc |-> "recalcRead", dates |-> {d}])
    BY <1>4 DEF RecalculateStart
  <2>2. ReadHolds([pc |-> "recalcRead", dates |-> {d}], records, leave, now)
    BY DEF ReadHolds
  <2> QED BY <1>1, <1>2, <2>1, <2>2, AloneReads
<1>5. CASE CloseRead(p)
  <2>1. PICK d \in Dates : /\ Open(d) /\ records[d].status \notin {"absent", "rejected"}
                           /\ Continue(p, [pc |-> "closeWrite", date |-> d])
    BY <1>5 DEF CloseRead
  <2>2. ReadHolds([pc |-> "closeWrite", date |-> d], records, leave, now)
    BY <2>1 DEF ReadHolds, Open
  <2> QED BY <1>1, <1>2, <2>1, <2>2, AloneReads
<1>6. CASE AbsenceRead(p)
  <2>1. PICK d \in WorkingDays \cap Dates :
          ~Exists(d) /\ Continue(p, [pc |-> "absBlock", date |-> d])
    BY <1>6 DEF AbsenceRead
  <2>2. ReadHolds([pc |-> "absBlock", date |-> d], records, leave, now)
    BY <2>1 DEF ReadHolds, Exists
  <2> QED BY <1>1, <1>2, <2>1, <2>2, AloneReads
<1> QED BY <1>3, <1>4, <1>5, <1>6

\* Its later readings: the dates to recalculate stay, but for those without a row.
LEMMA AloneJobReads ==
  ASSUME Alone, TypeOK, AloneInv, NEW p \in Processes,
         AutoDone(p) \/ RecalculateRead(p) \/ AbsenceBlocked(p)
  PROVE  AloneInv'
<1>1. UNCHANGED records /\ Undisturbed
  BY DEF AutoDone, RecalculateRead, AbsenceBlocked
<1>2. CASE AutoDone(p)
  <2> DEFINE next == [pc |-> "recalcRead", dates |-> op[p].affected]
  <2>1. Continue(p, next) /\ op[p].pc = "autoWrite"
    BY <1>2 DEF AutoDone
  <2>2. ReadHolds(next, records, leave, now) /\ ToRecalculate(op[p]) = ToRecalculate(next)
    BY <2>1 DEF ReadHolds, ToRecalculate
  <2> HIDE DEF next
  <2> QED BY <1>1, <2>1, <2>2, AloneReads
<1>3. CASE RecalculateRead(p)
  <2>1. op[p] \in RecalcReads /\ ToRecalculate(op[p]) = op[p].dates
    BY <1>3, OpKinds DEF RecalculateRead, TypeOK, ToRecalculate
  <2>2. CASE op[p].dates = {} /\ Finish(p)
    BY <1>1, <2>1, <2>2, IdleHolds, AloneReads DEF Finish
  <2>3. ASSUME NEW d \in op[p].dates,
               Continue(p, [pc |-> "recalcWrite", dates |-> op[p].dates \ {d},
                            date |-> d, row |-> records[d]])
        PROVE  AloneInv'
    <3> DEFINE next == [pc |-> "recalcWrite", dates |-> op[p].dates \ {d},
                        date |-> d, row |-> records[d]]
    <3>1. ReadHolds(next, records, leave, now) /\ ToRecalculate(next) = op[p].dates
      BY DEF ReadHolds, ToRecalculate
    <3>2. Continue(p, next)
      BY <2>3
    <3> HIDE DEF next
    <3> QED BY <1>1, <2>1, <3>1, <3>2, AloneReads
  <2>4. ASSUME NEW d \in op[p].dates, ~Exists(d), Continue(p, [op[p] EXCEPT !.dates = @ \ {d}])
        PROVE  AloneInv'
    <3> DEFINE next == [op[p] EXCEPT !.dates = @ \ {d}]
    <3>1. next.pc = "recalcRead" /\ next.dates = op[p].dates \ {d}
      BY <2>1 DEF RecalcReads
    <3>2. Continue(p, next)
      BY <2>4
    <3> HIDE DEF next
    <3>3. ReadHolds(next, records, leave, now) /\ ToRecalculate(next) = op[p].dates \ {d}
      BY <3>1 DEF ReadHolds, ToRecalculate
    <3> QED BY <1>1, <2>1, <2>4, <3>2, <3>3, AloneReads
  <2> QED BY <1>3, <2>2, <2>3, <2>4 DEF RecalculateRead
<1>4. CASE AbsenceBlocked(p)
  <2>1. op[p] \in AbsenceOps /\ op[p].pc = "absBlock" /\ ToRecalculate(op[p]) = {}
    BY <1>4, OpKinds DEF AbsenceBlocked, TypeOK, ToRecalculate
  <2>2. CASE Finish(p)
    BY <1>1, <2>1, <2>2, IdleHolds, AloneReads DEF Finish
  <2> DEFINE d == op[p].date
             next == [op[p] EXCEPT !.pc = "absInsert"]
  <2>3. CASE ~(d \in leave \/ now < ScheduledOut(d) + AbsenceGrace) /\ Continue(p, next)
    <3>1. next.pc = "absInsert" /\ next.date = d
      BY <2>1 DEF AbsenceOps
    <3>2. d \in Dates /\ d \in WorkingDays /\ records[d] = NoRecord
      BY <2>1 DEF AloneInv, ReadsHold, ReadHolds, AbsenceOps
    <3>3. now \in Nat /\ ScheduledOut(d) + AbsenceGrace \in Nat
      BY <3>2, DatesAreNat, ScheduledIsNat, WaitsAreNat, AttendanceAssumption DEF TypeOK
    <3>4. now >= ScheduledOut(d) + AbsenceGrace
      BY <2>3, <3>3
    <3> HIDE DEF next, d
    <3>5. ReadHolds(next, records, leave, now)
      BY <2>3, <3>1, <3>2, <3>4 DEF ReadHolds
    <3> QED BY <1>1, <2>1, <2>3, <3>5, AloneReads
  <2>4. \/ Finish(p)
        \/ ~(d \in leave \/ now < ScheduledOut(d) + AbsenceGrace) /\ Continue(p, next)
    BY <1>4 DEF AbsenceBlocked
  <2> QED BY <2>2, <2>3, <2>4
<1> QED BY <1>2, <1>3, <1>4

\* A check-in writes a row from its marks; one that is rejected is not late.
LEMMA AloneCheckIn ==
  ASSUME Alone, TypeInv, AloneInv, NEW p \in Processes, CheckInInsert(p)
  PROVE  AloneInv'
<1> USE DEF TypeInv
<1>1. op[p] \in InOps /\ op[p].pc = "inInsert" /\ Finish(p) /\ Undisturbed
  BY OpKinds DEF CheckInInsert, TypeOK
<1>2. ToRecalculate(op[p]) = {}
  BY <1>1 DEF ToRecalculate
<1> DEFINE d == op[p].date
           in == At(d, HourOf(op[p].time))
           m == Metrics(d, in, NoTime, "present")
<1>3. d \in Dates /\ d \in Nat /\ in \in Nat /\ in = At(d, HourOf(in))
  BY <1>1, DatesAreNat, HourIsHour, AtIsNat, HourOfDate DEF InOps
<1>4. m.status \in Statuses /\ m.late \in Nat
  BY <1>3, MetricsFit DEF TypeOK, Instants, Statuses
<1>5. PICK mock \in Mocks :
        records' = IF Exists(d) THEN records ELSE
           [records EXCEPT ![d] =
             [status |-> IF mock THEN "rejected" ELSE m.status,
              in |-> in, out |-> NoTime,
              late |-> IF mock THEN 0 ELSE m.late,
              worked |-> NoMinutes, effective |-> NoMinutes,
              auto |-> FALSE, manual |-> FALSE]]
  BY DEF CheckInInsert
<1>6. m.late = Metrics(d, in, NoTime, "present").late
      /\ m.status = Metrics(d, in, NoTime, "present").status
  OBVIOUS
<1> HIDE DEF d, in, m
<1> DEFINE row == [status |-> IF mock THEN "rejected" ELSE m.status,
                   in |-> in, out |-> NoTime,
                   late |-> IF mock THEN 0 ELSE m.late,
                   worked |-> NoMinutes, effective |-> NoMinutes,
                   auto |-> FALSE, manual |-> FALSE]
<1>7. row \in Rows /\ row.in = in /\ row.out = NoTime
      /\ (mock => row.status = "rejected")
      /\ (~mock => row.status = m.status /\ row.late = m.late)
  BY <1>3, <1>4 DEF Rows, Statuses, Instants, Minutes, NoTime, NoMinutes
<1>8. records' = IF Exists(d) THEN records ELSE [records EXCEPT ![d] = row]
  BY <1>5
<1> HIDE DEF row
<1>9. RowSound(d, row) /\ EffectiveFits(d, row)
  <2>1. CASE mock
    BY <1>3, <1>7, <2>1 DEF RowSound, EffectiveFits, Countable, NoTime
  <2>2. CASE ~mock
    <3>1. "present" \in Statuses /\ row.in # NoTime
      BY <1>3, <1>7 DEF Statuses, NoTime
    <3> QED BY <1>3, <1>6, <1>7, <2>2, <3>1, MeteredRow
  <2> QED BY <2>1, <2>2
<1>10. ReadHolds(Idle, records', leave, now) /\ Continue(p, Idle) /\ op'[p] = Idle
  BY <1>1, IdleHolds DEF Finish, Continue, TypeOK
<1>11. CASE Exists(d)
  BY <1>1, <1>2, <1>8, <1>10, <1>11, AloneReads
<1>12. CASE ~Exists(d)
  BY <1>1, <1>2, <1>3, <1>7, <1>8, <1>9, <1>10, <1>12, AloneWrites
<1> QED BY <1>11, <1>12

\* A check-out writes its row, which is still the one it has read.
LEMMA AloneCheckOut ==
  ASSUME Alone, TypeInv, AloneInv, NEW p \in Processes, CheckOutWrite(p)
  PROVE  AloneInv'
<1> USE DEF TypeInv
<1>1. op[p] \in OutWrites /\ op[p].pc = "outWrite" /\ Finish(p) /\ Undisturbed /\ Exists(op[p].date)
  BY OpKinds DEF CheckOutWrite, TypeOK, HeldRowsExist, Updaters
<1>2. ToRecalculate(op[p]) = {}
  BY <1>1 DEF ToRecalculate
<1> DEFINE d     == op[p].date
           start == At(d, HourOf(IF op[p].in = NoTime THEN now ELSE op[p].in))
           same  == At(d, HourOf(op[p].time))
           end   == IF same < start THEN same + DayLength ELSE same
           m     == Metrics(d, start, end, op[p].status)
<1>3. d \in Dates /\ d \in Nat /\ op[p].status \in Statuses /\ records[d] \in Rows
  BY <1>1, DatesAreNat DEF OutWrites, TypeOK, Exists
<1>4. op[p].in = records[d].in /\ op[p].status = records[d].status
  BY <1>1 DEF AloneInv, ReadsHold, ReadHolds
<1>5. start \in Nat /\ end \in Nat /\ end - start \in Nat
  <2> DEFINE t == IF op[p].in = NoTime THEN now ELSE op[p].in
  <2>1. t \in Nat /\ op[p].time \in Nat
    BY <1>1, AttendanceAssumption DEF OutWrites, Instants, TypeOK
  <2>2. HourOf(t) \in Hours /\ HourOf(op[p].time) \in Hours
    BY <2>1, HourIsHour
  <2> HIDE DEF t
  <2> DEFINE a == HourOf(op[p].time)
             b == HourOf(t)
  <2>3. a \in Hours /\ b \in Hours
    BY <2>2
  <2> HIDE DEF a, b
  <2>4. At(d, a) \in Nat /\ At(d, b) \in Nat /\ At(d, a) + DayLength - At(d, b) \in Nat
    BY <1>3, <2>3, AtIsNat, WithinADay
  <2>5. start = At(d, b) /\ same = At(d, a)
    BY DEF a, b, t
  <2> QED BY <2>4, <2>5, WaitsAreNat
<1>6. m.status \in Statuses /\ m.late \in Nat /\ m.effective \in Minutes
  BY <1>3, <1>5, MetricsFit DEF TypeOK, Instants
<1>7. records' = [records EXCEPT
         ![d].status = m.status, ![d].out = end, ![d].late = m.late,
         ![d].worked = end - start, ![d].effective = m.effective]
  BY DEF CheckOutWrite
<1>8. RowSound(d, records[d])
  BY <1>1 DEF AloneInv, SoundRows, Exists
<1>9. records[d].in # NoTime => start = records[d].in
  BY <1>4, <1>8 DEF RowSound
<1> HIDE DEF start, same, end
<1>10. m = Metrics(d, start, end, op[p].status)
  OBVIOUS
<1> HIDE DEF d, m
<1> DEFINE row == [records[d] EXCEPT !.status = m.status, !.out = end, !.late = m.late,
                                     !.worked = end - start, !.effective = m.effective]
<1>11. /\ row \in Rows /\ row.in = records[d].in /\ row.out = end /\ row.worked = end - start
       /\ row.status = m.status /\ row.late = m.late /\ row.effective = m.effective
  BY <1>3, <1>5, <1>6 DEF Rows, Instants, Minutes
<1>12. records' = [records EXCEPT ![d] = row]
  BY <1>3, <1>7 DEF TypeOK
<1> HIDE DEF row
<1>13. RowSound(d, row) /\ EffectiveFits(d, row)
  <2>1. CASE records[d].in = NoTime
    BY <1>5, <1>11, <2>1 DEF RowSound, EffectiveFits, Countable, NoTime
  <2>2. CASE records[d].in # NoTime
    <3>1. row.in = start /\ row.in # NoTime /\ row.in = At(d, HourOf(row.in))
      BY <1>8, <1>9, <1>11, <2>2 DEF RowSound
    <3>2. op[p].status = "late" => IsLate(d, row.in)
      BY <1>4, <1>8, <1>11, <2>2 DEF RowSound
    <3>3. end >= start
      BY <1>5
    <3> QED BY <1>3, <1>10, <1>11, <3>1, <3>2, <3>3, MeteredRow
  <2> QED BY <2>1, <2>2
<1>14. ReadHolds(Idle, records', leave, now) /\ op'[p] = Idle
  BY <1>1, IdleHolds DEF Finish, Continue, TypeOK
<1> QED BY <1>1, <1>2, <1>3, <1>11, <1>12, <1>13, <1>14, AloneWrites

\* A correction writes the row anew.
LEMMA AloneCorrection ==
  ASSUME Alone, TypeInv, AloneInv, NEW p \in Processes, Correct(p)
  PROVE  AloneInv'
<1> USE DEF TypeInv
<1>1. PICK d \in Dates, c \in Corrections :
       LET in    == IF c.in = NoTime THEN NoTime ELSE At(d, c.in)
           same  == IF c.out = NoTime THEN NoTime ELSE At(d, c.out)
           out   == IF same # NoTime /\ in # NoTime /\ same < in
                      THEN same + DayLength ELSE same
           m     == Metrics(d, in, out, c.status)
       IN  records' = [records EXCEPT ![d] =
             [status |-> m.status, in |-> in, out |-> out, late |-> m.late,
              worked |-> IF in # NoTime /\ out # NoTime THEN out - in ELSE NoMinutes,
              effective |-> m.effective,
              auto |-> IF Exists(d) THEN records[d].auto ELSE FALSE,
              manual |-> TRUE]]
  BY DEF Correct
<1> DEFINE in    == IF c.in = NoTime THEN NoTime ELSE At(d, c.in)
           same  == IF c.out = NoTime THEN NoTime ELSE At(d, c.out)
           out   == IF same # NoTime /\ in # NoTime /\ same < in
                      THEN same + DayLength ELSE same
           m     == Metrics(d, in, out, c.status)
           worked == IF in # NoTime /\ out # NoTime THEN out - in ELSE NoMinutes
           auto == IF Exists(d) THEN records[d].auto ELSE FALSE
           row == [status |-> m.status, in |-> in, out |-> out, late |-> m.late,
                   worked |-> worked, effective |-> m.effective, auto |-> auto, manual |-> TRUE]
<1>2. records' = [records EXCEPT ![d] = row]
  BY <1>1
<1>3. d \in Nat /\ c.in \in Hours \cup {NoTime} /\ c.out \in Hours \cup {NoTime}
      /\ c.status \in {"present", "absent"}
  BY AttendanceAssumption, DatesAreNat
<1>4. /\ in \in Instants /\ out \in Instants /\ worked \in Minutes
      /\ in # NoTime /\ out # NoTime => out >= in /\ worked = out - in
  <2>1. c.in # NoTime => At(d, c.in) \in Nat
    BY <1>3, AtIsNat
  <2>2. c.out # NoTime => At(d, c.out) \in Nat
    BY <1>3, AtIsNat
  <2>3. c.in # NoTime /\ c.out # NoTime => At(d, c.out) + DayLength - At(d, c.in) \in Nat
    BY <1>3, WithinADay
  <2> QED BY <2>1, <2>2, <2>3, WaitsAreNat DEF Instants, Minutes, NoTime, NoMinutes
<1>5. in # NoTime => in = At(d, HourOf(in))
  BY <1>3, HourOfDate
<1>6. m.status \in Statuses /\ m.late \in Nat /\ m.effective \in Minutes
  <2> HIDE DEF in, out
  <2> QED BY <1>3, <1>4, MetricsFit DEF TypeOK, Statuses
<1>7. auto \in BOOLEAN
  BY DEF TypeOK, Exists, Rows
<1> HIDE DEF in, same, out, worked, auto
<1>8. m = Metrics(d, in, out, c.status)
  OBVIOUS
<1> HIDE DEF m
<1>9. /\ row \in Rows /\ row.in = in /\ row.out = out /\ row.worked = worked /\ row.manual
      /\ row.status = m.status /\ row.late = m.late /\ row.effective = m.effective
  BY <1>4, <1>6, <1>7 DEF Rows
<1> HIDE DEF row
<1>10. RowSound(d, row) /\ EffectiveFits(d, row)
  <2>1. CASE in = NoTime
    BY <1>9, <2>1 DEF RowSound, EffectiveFits, Countable
  <2>2. CASE in # NoTime
    <3>1. c.status \in Statuses /\ c.status # "late"
      BY <1>3 DEF Statuses
    <3> QED BY <1>4, <1>5, <1>8, <1>9, <2>2, <3>1, MeteredRow
  <2> QED BY <2>1, <2>2
<1>11. op[p] = Idle /\ UNCHANGED op /\ Undisturbed
  BY DEF Correct
<1>12. op'[p] = Idle /\ ReadHolds(Idle, records', leave, now) /\ ToRecalculate(op[p]) = {}
  BY <1>11, IdleHolds
<1> QED BY <1>2, <1>9, <1>10, <1>11, <1>12, AloneWrites

\* The automatic check-out closes a row that is as it was selected; its effective
\* minutes wait for the recalculation.
LEMMA AloneAutoWrite ==
  ASSUME Alone, TypeInv, AloneInv, NEW p \in Processes, AutoWrite(p)
  PROVE  AloneInv'
<1> USE DEF TypeInv
<1>1. op[p] \in AutoOps /\ op[p].pc = "autoWrite" /\ Undisturbed
  BY OpKinds DEF AutoWrite, TypeOK
<1>2. PICK t \in op[p].todo :
       LET out == ScheduledOut(DateRead(t.date))
       IN  IF records[t.date].out = NoTime
           THEN /\ records' = [records EXCEPT
                     ![t.date].status = IF records[t.date].late > 0 THEN "late" ELSE "present",
                     ![t.date].out = out,
                     ![t.date].worked = Max({out - t.in, 0}),
                     ![t.date].auto = TRUE]
                /\ Continue(p, [op[p] EXCEPT !.todo = @ \ {t},
                                             !.affected = @ \cup {DateRead(t.date)}])
           ELSE /\ Continue(p, [op[p] EXCEPT !.todo = @ \ {t}])
                /\ UNCHANGED records
  BY DEF AutoWrite
<1> DEFINE d == t.date
           out == ScheduledOut(DateRead(d))
           worked == Max({out - t.in, 0})
           status == IF records[d].late > 0 THEN "late" ELSE "present"
           next == [op[p] EXCEPT !.todo = @ \ {t}, !.affected = @ \cup {DateRead(d)}]
           row == [records[d] EXCEPT !.status = status, !.out = out, !.worked = worked, !.auto = TRUE]
<1>3. d \in Dates /\ t.in \in Nat /\ records[d] \in Rows
  BY <1>1 DEF AutoOps, HeldRowsExist, Exists, TypeOK
<1>4. \A u \in op[p].todo :
        /\ u \in [date : Dates, in : Nat]
        /\ records[u.date].in = u.in /\ records[u.date].out = NoTime
        /\ records[u.date].status \notin {"absent", "rejected"}
  BY <1>1 DEF AutoOps, AloneInv, ReadsHold, ReadHolds
<1>5. RowSound(d, records[d])
  BY <1>1, <1>3 DEF AutoOps, AloneInv, SoundRows, Exists, HeldRowsExist
<1>6. out \in Nat
  BY <1>3, DateReadIsNat, ScheduledIsNat DEF TypeOK
<1>7. DateShift = 0 => DateRead(d) = d /\ out = ScheduledOut(d)
  BY <1>3, DatesAreNat DEF DateRead
<1>8. /\ next.pc = "autoWrite" /\ next.todo = op[p].todo \ {t}
      /\ next.affected = op[p].affected \cup {DateRead(d)}
  BY <1>1 DEF AutoOps
<1>9. /\ op'[p] = next
      /\ records' = [records EXCEPT ![d].status = status, ![d].out = out,
                                    ![d].worked = worked, ![d].auto = TRUE]
  BY <1>2, <1>4 DEF Continue, TypeOK
<1>10. records[d].in \in Nat
  BY <1>3, <1>4
<1>11. records[d].late = LateOf(d, records[d].in) /\ (status = "late" <=> IsLate(d, records[d].in))
  BY <1>3, <1>4, <1>5, <1>10, LateCounts DEF RowSound, TypeOK, NoTime
<1>12. worked \in Nat /\ (t.in <= out => worked = out - t.in)
  <2> DEFINE a == out - t.in
  <2>1. a \in Int
    BY <1>3, <1>6
  <2> HIDE DEF a, out
  <2>2. Max({a, 0}) \in {a, 0} /\ Max({a, 0}) >= 0 /\ Max({a, 0}) >= a
    BY <2>1, MaxOfTwo
  <2>3. Max({a, 0}) \in Nat /\ (a >= 0 => Max({a, 0}) = a)
    BY <2>1, <2>2
  <2> QED BY <1>3, <1>6, <2>3 DEF a
<1> HIDE DEF out, worked, next
<1>13. status \in {"late", "present"}
  OBVIOUS
<1> HIDE DEF d, status
<1>14. /\ row \in Rows /\ row.in = records[d].in /\ row.out = out /\ row.worked = worked
       /\ row.status = status /\ row.late = records[d].late
  BY <1>3, <1>6, <1>12, <1>13 DEF Rows, Statuses, Instants, Minutes
<1>15. records' = [records EXCEPT ![d] = row]
  BY <1>3, <1>9 DEF TypeOK
<1> HIDE DEF row
<1>16. RowSound(d, row)
  <2>1. row.in = t.in /\ row.in # NoTime /\ row.out # NoTime
    BY <1>3, <1>4, <1>6, <1>14 DEF d, NoTime
  <2>2. row.in = At(d, HourOf(row.in))
    BY <1>5, <1>14, <2>1 DEF RowSound
  <2>3. Countable(d, row) => row.in <= out
    BY <1>7, <1>14 DEF Countable
  <2>4. Countable(d, row) => row.out >= row.in /\ row.worked = row.out - row.in
    BY <1>3, <1>6, <1>12, <1>14, <2>1, <2>3
  <2> QED BY <1>11, <1>13, <1>14, <2>1, <2>2, <2>4 DEF RowSound
<1>17. \A u \in next.todo : u.date # d
  BY <1>4, <1>8 DEF d
<1>18. \A e \in Dates \ {d} : records'[e] = records[e]
  BY <1>15 DEF TypeOK
<1>19. ReadHolds(next, records', leave, now)
  BY <1>4, <1>8, <1>17, <1>18 DEF ReadHolds
<1>20. EffectiveFits(d, row) \/ d \in ToRecalculate(next)
  BY <1>7, <1>8 DEF EffectiveFits, Countable, ToRecalculate
<1>21. ToRecalculate(op[p]) \subseteq ToRecalculate(next)
  BY <1>1, <1>8 DEF ToRecalculate
<1> QED BY <1>1, <1>3, <1>9, <1>14, <1>15, <1>16, <1>19, <1>20, <1>21, AloneWrites

\* A recalculation makes the row fit its marks.
LEMMA AloneRecalculation ==
  ASSUME Alone, TypeInv, AloneInv, NEW p \in Processes, RecalculateWrite(p)
  PROVE  AloneInv'
<1> USE DEF TypeInv
<1> DEFINE d   == op[p].date
           read == op[p].row
           m   == Metrics(d, read.in, read.out, read.status)
           status == IF read.status \in {"absent", "rejected"} THEN read.status ELSE m.status
           effective == IF m.effective # NoMinutes THEN m.effective
                        ELSE IF status = "absent" THEN 0 ELSE read.effective
           row == [records[d] EXCEPT !.status = status, !.late = m.late, !.effective = effective]
           next == [pc |-> "recalcRead", dates |-> op[p].dates]
<1>1. op[p] \in RecalcWrites /\ op[p].pc = "recalcWrite" /\ Undisturbed /\ op'[p] = next
  BY OpKinds DEF RecalculateWrite, TypeOK, Continue
<1>2. d \in Dates /\ d \in Nat /\ records[d] \in Rows /\ Exists(d)
  BY <1>1, DatesAreNat DEF RecalcWrites, HeldRowsExist, Updaters, Exists, TypeOK
<1>3. read = records[d]
  BY <1>1 DEF AloneInv, ReadsHold, ReadHolds
<1>4. RowSound(d, read)
  BY <1>2, <1>3 DEF AloneInv, SoundRows
<1>5. /\ read.in \in Instants /\ read.out \in Instants /\ read.status \in Statuses
      /\ read.effective \in Minutes /\ read.worked \in Minutes
  BY <1>2, <1>3 DEF Rows
<1>6. m.status \in Statuses /\ m.late \in Nat /\ m.effective \in Minutes
  BY <1>2, <1>5, MetricsFit DEF TypeOK
<1>7. records' = [records EXCEPT ![d].status = status, ![d].late = m.late, ![d].effective = effective]
  BY DEF RecalculateWrite
<1>8. m = Metrics(d, read.in, read.out, read.status)
  OBVIOUS
<1>9. ToRecalculate(op[p]) \ {d} \subseteq ToRecalculate(next) /\ ReadHolds(next, records', leave, now)
  BY <1>1 DEF ToRecalculate, ReadHolds
<1> HIDE DEF next, d, read, m
<1>10. status \in Statuses /\ effective \in Minutes
  BY <1>5, <1>6 DEF Minutes
<1>11. /\ m.effective # NoMinutes => effective = m.effective
       /\ m.effective = NoMinutes /\ status = "absent" => effective = 0
       /\ status = IF read.status \in {"absent", "rejected"} THEN read.status ELSE m.status
  OBVIOUS
<1> HIDE DEF status, effective
<1>12. /\ row \in Rows /\ row.in = read.in /\ row.out = read.out /\ row.worked = read.worked
       /\ row.manual = read.manual /\ row.status = status /\ row.late = m.late
       /\ row.effective = effective
  BY <1>2, <1>3, <1>6, <1>10 DEF Rows
<1>13. records' = [records EXCEPT ![d] = row]
  BY <1>2, <1>7 DEF TypeOK
<1>14. row.auto = read.auto
  BY <1>2, <1>3 DEF Rows
<1> HIDE DEF row
<1>15. CASE read.in # NoTime
  <2>1. read.in \in Nat
    BY <1>5, <1>15 DEF Instants
  <2>2. /\ m.late = LateOf(d, read.in)
        /\ m.status = IF IsLate(d, read.in) THEN "late" ELSE read.status
        /\ m.effective = IF read.out # NoTime THEN Effective(Elapsed(read.in, read.out)) ELSE NoMinutes
    BY <1>8, <2>1, MetricsTell
  <2>3. /\ row.in = At(d, HourOf(row.in)) /\ row.late = LateOf(d, row.in)
        /\ row.status = "late" => IsLate(d, row.in)
        /\ row.status = "present" => ~IsLate(d, row.in)
    BY <1>4, <1>11, <1>12, <1>15, <2>2 DEF RowSound
  <2>4. Countable(d, row) => row.out >= row.in /\ row.worked = row.out - row.in
    BY <1>4, <1>12 DEF RowSound, Countable
  <2>5. EffectiveFits(d, row)
    <3> SUFFICES ASSUME Countable(d, row)
                 PROVE  row.effective = Effective(row.worked)
      BY DEF EffectiveFits
    <3>1. row.out # NoTime /\ row.out \in Nat
      BY <1>5, <1>12 DEF Countable, Instants
    <3>2. Elapsed(row.in, row.out) = row.worked /\ row.worked \in Nat
      BY <1>12, <2>1, <2>4, <3>1, WaitsAreNat DEF Elapsed
    <3>3. m.effective = Effective(row.worked)
      BY <1>12, <2>2, <3>1, <3>2
    <3>4. m.effective # NoMinutes
      BY <3>2, <3>3, EffectiveIsNat DEF NoMinutes
    <3> QED BY <1>11, <1>12, <3>3, <3>4
  <2>6. RowSound(d, row)
    BY <1>12, <1>15, <2>3, <2>4 DEF RowSound
  <2> QED BY <1>1, <1>2, <1>9, <1>12, <1>13, <2>5, <2>6, AloneWrites
<1>16. CASE read.in = NoTime
  <2>1. ASSUME row.out = NoTime, ~row.manual PROVE row = Absence
    <3>1. read = Absence
      BY <1>4, <1>12, <1>16, <2>1 DEF RowSound
    <3>2. m.late = 0 /\ m.effective = NoMinutes /\ status = "absent"
      BY <1>8, <1>11, <3>1 DEF Metrics, Absence
    <3>3. /\ row.in = NoTime /\ row.out = NoTime /\ row.worked = NoMinutes /\ row.manual = FALSE
          /\ row.status = "absent" /\ row.late = 0 /\ row.effective = 0 /\ row.auto = TRUE
      BY <1>11, <1>12, <1>14, <3>1, <3>2 DEF Absence
    <3> QED BY <1>12, <3>3 DEF Rows, Absence
  <2>2. RowSound(d, row) /\ EffectiveFits(d, row)
    BY <1>12, <1>16, <2>1 DEF RowSound, EffectiveFits, Countable
  <2> QED BY <1>1, <1>2, <1>9, <1>12, <1>13, <2>2, AloneWrites
<1> QED BY <1>15, <1>16

\* A day closed as incomplete has no exit to count.
LEMMA AloneClosing ==
  ASSUME Alone, TypeInv, AloneInv, NEW p \in Processes, CloseWrite(p)
  PROVE  AloneInv'
<1> USE DEF TypeInv
<1> DEFINE d == op[p].date
           row == [records[d] EXCEPT !.status = "incomplete", !.auto = TRUE]
<1>1. op[p] \in CloseOps /\ op[p].pc = "closeWrite" /\ Undisturbed /\ Finish(p) /\ op'[p] = Idle
  BY OpKinds DEF CloseWrite, TypeOK, Finish, Continue
<1>2. ToRecalculate(op[p]) = {} /\ ReadHolds(Idle, records', leave, now)
  BY <1>1, IdleHolds DEF ToRecalculate
<1>3. d \in Dates /\ records[d] \in Rows /\ Exists(d)
  BY <1>1 DEF CloseOps, HeldRowsExist, Updaters, Exists, TypeOK
<1>4. /\ RowSound(d, records[d]) /\ records[d].in # NoTime
      /\ records[d].status \notin {"absent", "rejected"}
  BY <1>1, <1>3 DEF AloneInv, SoundRows, ReadsHold, ReadHolds
<1>5. CASE UNCHANGED records
  BY <1>1, <1>2, <1>5, AloneReads DEF Finish
<1>6. CASE records[d].out = NoTime /\ records' = [records EXCEPT ![d] = row]
  <2>1. /\ row \in Rows /\ row.in = records[d].in /\ row.out = NoTime /\ row.late = records[d].late
        /\ row.status = "incomplete"
    BY <1>3, <1>6 DEF Rows, Statuses
  <2> HIDE DEF row
  <2>2. RowSound(d, row) /\ EffectiveFits(d, row)
    BY <1>4, <2>1 DEF RowSound, EffectiveFits, Countable
  <2> QED BY <1>1, <1>2, <1>3, <1>6, <2>1, <2>2, AloneWrites
<1>7. \/ UNCHANGED records
      \/ records[d].out = NoTime /\ records' = [records EXCEPT ![d] = row]
  BY <1>3 DEF CloseWrite, TypeOK
<1> QED BY <1>5, <1>6, <1>7

\* An absence is a sound row.
LEMMA AloneAbsence ==
  ASSUME Alone, TypeInv, AloneInv, NEW p \in Processes, AbsenceInsert(p)
  PROVE  AloneInv'
<1> USE DEF TypeInv
<1>1. op[p] \in AbsenceOps /\ op[p].pc = "absInsert" /\ Undisturbed /\ Finish(p) /\ op'[p] = Idle
  BY OpKinds DEF AbsenceInsert, TypeOK, Finish, Continue
<1>2. ToRecalculate(op[p]) = {} /\ ReadHolds(Idle, records', leave, now)
  BY <1>1, IdleHolds DEF ToRecalculate
<1>3. op[p].date \in Dates /\ Absence \in Rows
  BY <1>1 DEF AbsenceOps, Absence, Rows, Statuses, Instants, Minutes, NoTime, NoMinutes
<1>4. RowSound(op[p].date, Absence) /\ EffectiveFits(op[p].date, Absence)
  BY DEF RowSound, EffectiveFits, Countable, Absence
<1>5. CASE UNCHANGED records
  BY <1>1, <1>2, <1>5, AloneReads DEF Finish
<1>6. CASE records' = [records EXCEPT ![op[p].date] = Absence]
  BY <1>1, <1>2, <1>3, <1>4, <1>6, AloneWrites
<1> QED BY <1>5, <1>6 DEF AbsenceInsert

\* Time passes, a process fails or a request is approved: no row changes.
LEMMA AloneOthers ==
  ASSUME Alone, TypeInv, AloneInv,
         Tick \/ \E p \in Processes : Fail(p) \/ ApproveLeave(p)
  PROVE  AloneInv'
<1> USE DEF TypeInv
<1>1. UNCHANGED <<shift, records>>
  BY DEF Tick, Fail, ApproveLeave
<1>2. \A o, d, row : /\ ToRecalculate(o)' = ToRecalculate(o)
                     /\ EffectiveFits(d, row)' = EffectiveFits(d, row)
  BY <1>1 DEF ToRecalculate, EffectiveFits, Countable, ScheduledOut, At, Effective
<1>3. SoundRows'
  BY <1>1 DEF AloneInv, SoundRows, Exists, RowSound, Countable, ScheduledOut, IsLate, LateOf,
              ScheduledIn, At, HourOf, Absence
<1>4. now \in Nat
  BY WaitsAreNat, AttendanceAssumption DEF TypeOK
<1>5. CASE Tick
  <2>1. now' = now + 1 /\ UNCHANGED <<leave, op, failures>>
    BY <1>5 DEF Tick
  <2>2. ASSUME NEW p \in Processes
        PROVE  ReadHolds(op[p], records, leave, now)'
    <3>1. ReadHolds(op[p], records, leave, now)
      BY DEF AloneInv, ReadsHold
    <3>2. ASSUME op[p].pc = "absInsert"
          PROVE  now' >= ScheduledOut(op[p].date)' + AbsenceGrace
      <4> DEFINE end == ScheduledOut(op[p].date)
      <4>1. op[p].date \in Dates
        BY <3>2, OpKinds DEF TypeOK, AbsenceOps
      <4>2. end \in Nat /\ end' = end
        BY <1>1, <2>1, <4>1, DatesAreNat, ScheduledIsNat DEF TypeOK, ScheduledOut, At
      <4>3. now >= end + AbsenceGrace
        BY <3>1, <3>2 DEF ReadHolds
      <4> HIDE DEF end
      <4>4. now' >= end' + AbsenceGrace
        BY <1>4, <2>1, <4>2, <4>3, WaitsAreNat
      <4> QED BY <4>4 DEF end
    <3> QED BY <1>1, <2>1, <3>1, <3>2 DEF ReadHolds
  <2>3. Recalculated'
    BY <1>1, <1>2, <2>1 DEF AloneInv, Recalculated, Exists, EffectiveFits, Countable,
                            ScheduledOut, At, Effective, ToRecalculate
  <2> QED BY <1>3, <2>2, <2>3 DEF AloneInv, ReadsHold
<1>6. ASSUME NEW p \in Processes, op'[p] = Idle
      PROVE  ReadsHold'
  <2>1. \A q \in Processes : op'[q] = Idle
    BY <1>6 DEF Alone
  <2> QED BY <2>1 DEF ReadsHold, ReadHolds, Idle
<1>7. CASE \E p \in Processes : Fail(p)
  <2>1. PICK p \in Processes : Fail(p)
    BY <1>7
  <2>2. op'[p] = Idle /\ failures' = failures + 1 /\ failures \in Nat
    BY <2>1, AttendanceAssumption DEF Fail, Finish, Continue, TypeOK
  <2>3. Recalculated'
    BY <2>2 DEF Recalculated
  <2> QED BY <1>3, <1>6, <2>2, <2>3 DEF AloneInv
<1>8. CASE \E p \in Processes : ApproveLeave(p)
  <2>1. PICK p \in Processes : ApproveLeave(p)
    BY <1>8
  <2>2. op'[p] = Idle /\ UNCHANGED <<op, failures>>
    BY <2>1 DEF ApproveLeave
  <2>3. Recalculated'
    BY <1>1, <2>2 DEF AloneInv, Recalculated, Exists, EffectiveFits, Countable,
                      ScheduledOut, At, Effective, ToRecalculate
  <2> QED BY <1>3, <1>6, <2>2, <2>3 DEF AloneInv
<1> QED BY <1>5, <1>7, <1>8

\* Every step keeps what holds of one process at a time,
LEMMA AloneNext == ASSUME Alone, TypeInv, AloneInv, [Next]_vars PROVE AloneInv'
<1>1. CASE UNCHANGED vars
  <2>1. UNCHANGED <<now, shift, records, leave, op, failures>>
    BY <1>1 DEF vars
  <2>2. SoundRows'
    BY <2>1 DEF AloneInv, SoundRows, Exists, RowSound, Countable, IsLate, LateOf, ScheduledIn,
                ScheduledOut, At, HourOf, Absence
  <2>3. ReadsHold'
    BY <2>1 DEF AloneInv, ReadsHold, ReadHolds, ScheduledOut, At
  <2>4. Recalculated'
    BY <2>1 DEF AloneInv, Recalculated, Exists, EffectiveFits, Countable, ScheduledOut, At,
                Effective, ToRecalculate
  <2> QED BY <2>2, <2>3, <2>4 DEF AloneInv
<1>2. CASE Tick \/ \E p \in Processes : Fail(p) \/ ApproveLeave(p)
  BY <1>2, AloneOthers
<1>3. ASSUME NEW p \in Processes,
             \/ CheckInStart(p) \/ CheckInExisting(p) \/ CheckInBlocked(p)
             \/ CheckOutStart(p) \/ CheckOutExisting(p)
             \/ AutoRead(p) \/ RecalculateStart(p) \/ CloseRead(p) \/ AbsenceRead(p)
             \/ AutoDone(p) \/ RecalculateRead(p) \/ AbsenceBlocked(p)
      PROVE  AloneInv'
  BY <1>3, AloneCheckReads, AloneJobStarts, AloneJobReads DEF TypeInv
<1>4. ASSUME NEW p \in Processes,
             \/ CheckInInsert(p) \/ CheckOutWrite(p) \/ Correct(p) \/ AutoWrite(p)
             \/ RecalculateWrite(p) \/ CloseWrite(p) \/ AbsenceInsert(p)
      PROVE  AloneInv'
  BY <1>4, AloneCheckIn, AloneCheckOut, AloneCorrection, AloneAutoWrite, AloneRecalculation,
     AloneClosing, AloneAbsence
<1> QED BY <1>1, <1>2, <1>3, <1>4, StepCases

\* and it holds at the start, where there is no row.
LEMMA AloneBegins == ASSUME Init PROVE AloneInv
<1>1. \A p \in Processes : op[p] = Idle
  BY DEF Init
<1>2. \A d \in Dates : records[d] = NoRecord
  BY DEF Init
<1> QED BY <1>1, <1>2, IdleHolds DEF AloneInv, SoundRows, ReadsHold, Recalculated, Exists

LEMMA AloneInvariance ==
  ASSUME Alone
  PROVE  Spec => [](TypeInv /\ AloneInv)
<1>1. Init => TypeInv /\ AloneInv
  BY TypeInit, AloneBegins
<1>2. TypeInv /\ AloneInv /\ [Next]_vars => (TypeInv /\ AloneInv)'
  BY TypeNext, AloneNext
<1> QED BY <1>1, <1>2, PTL DEF Spec

\* Where requests and jobs come one at a time, and the server and the shift share a time
\* zone, what a day says at rest follows from its marks, in whatever order check-ins,
\* check-outs, corrections, closings and recalculations wrote them: the minutes are those
\* between the check-in and the exit, the effective ones those minutes without the break,
\* and a day is late exactly when it has minutes of lateness, counted from the start of
\* the shift.
THEOREM MarksTellTheDay ==
  ASSUME Alone, DateShift = 0
  PROVE  Spec => []RowMatchesMarks
<1>1. ASSUME TypeInv, AloneInv PROVE RowMatchesMarks
  <2> SUFFICES ASSUME Quiet, NEW d \in Dates, Exists(d), records[d].in # NoTime
               PROVE  /\ (records[d].out # NoTime /\ records[d].in <= ScheduledOut(d)) =>
                           /\ records[d].worked = records[d].out - records[d].in
                           /\ records[d].effective = Effective(records[d].worked)
                      /\ records[d].status \in {"present", "late"} =>
                           /\ records[d].status = "late" <=> records[d].late > 0
                           /\ records[d].late > 0 =>
                                records[d].late = records[d].in - ScheduledIn(d)
    BY DEF RowMatchesMarks
  <2>1. RowSound(d, records[d])
    BY <1>1 DEF AloneInv, SoundRows
  <2>2. EffectiveFits(d, records[d])
    BY <1>1, IdleHolds DEF AloneInv, Recalculated, Quiet
  <2>3. records[d].in \in Nat /\ shift \in Shifts
    BY <1>1 DEF TypeInv, TypeOK, Exists, Rows, Instants
  <2>4. ASSUME records[d].out # NoTime, records[d].in <= ScheduledOut(d)
        PROVE  /\ records[d].worked = records[d].out - records[d].in
               /\ records[d].effective = Effective(records[d].worked)
    BY <2>1, <2>2, <2>4 DEF RowSound, EffectiveFits, Countable
  <2>5. ASSUME records[d].status \in {"present", "late"}
        PROVE  /\ records[d].status = "late" <=> records[d].late > 0
               /\ records[d].late > 0 => records[d].late = records[d].in - ScheduledIn(d)
    <3>1. records[d].late = LateOf(d, records[d].in)
      BY <2>1, <2>5 DEF RowSound
    <3>2. records[d].status = "late" <=> IsLate(d, records[d].in)
      BY <2>1, <2>5 DEF RowSound
    <3>3. records[d].late > 0 <=> IsLate(d, records[d].in)
      BY <2>3, <3>1, LateCounts
    <3> QED BY <3>1, <3>2, <3>3 DEF LateOf
  <2> QED BY <2>4, <2>5
<1>2. TypeInv /\ AloneInv => RowMatchesMarks
  BY <1>1
<1> QED BY <1>2, AloneInvariance, PTL

\* A row that becomes an absence is one that the job of the absences inserts: the rows
\* of the others have an hour or were corrected.
LEMMA OnlyTheJobInserts ==
  ASSUME TypeInv, AloneInv, NEW p \in Processes,
         \/ CheckInInsert(p) \/ CheckOutWrite(p) \/ Correct(p) \/ AutoWrite(p)
         \/ RecalculateWrite(p) \/ CloseWrite(p),
         NEW d \in Dates, records'[d] = Absence
  PROVE  records[d] = Absence
<1> USE DEF TypeInv
<1>0. /\ Absence.in = NoTime /\ Absence.out = NoTime /\ Absence.manual = FALSE
      /\ Absence.status = "absent"
  BY DEF Absence
<1>1. CASE CheckInInsert(p)
  <2>1. op[p] \in InOps
    BY <1>1, OpKinds DEF CheckInInsert, TypeOK
  <2> DEFINE e == op[p].date
             in == At(e, HourOf(op[p].time))
  <2>2. e \in Dates /\ in \in Nat
    BY <2>1, DatesAreNat, HourIsHour, AtIsNat DEF InOps
  <2>3. PICK row : row.in = in /\ (records' = records \/ records' = [records EXCEPT ![e] = row])
    <3> HIDE DEF e, in
    <3>1. PICK mock \in Mocks :
            LET m == Metrics(e, in, NoTime, "present")
            IN  records' = IF Exists(e) THEN records ELSE
                  [records EXCEPT ![e] =
                    [status |-> IF mock THEN "rejected" ELSE m.status,
                     in |-> in, out |-> NoTime,
                     late |-> IF mock THEN 0 ELSE m.late,
                     worked |-> NoMinutes, effective |-> NoMinutes,
                     auto |-> FALSE, manual |-> FALSE]]
      BY <1>1 DEF CheckInInsert, e, in
    <3> DEFINE m   == Metrics(e, in, NoTime, "present")
               row == [status |-> IF mock THEN "rejected" ELSE m.status,
                       in |-> in, out |-> NoTime,
                       late |-> IF mock THEN 0 ELSE m.late,
                       worked |-> NoMinutes, effective |-> NoMinutes,
                       auto |-> FALSE, manual |-> FALSE]
    <3>2. row.in = in
      OBVIOUS
    <3>3. records' = records \/ records' = [records EXCEPT ![e] = row]
      BY <3>1
    <3> HIDE DEF row
    <3> QED BY <3>2, <3>3
  <2>4. in # NoTime
    BY <2>2 DEF NoTime
  <2> HIDE DEF e, in
  <2> QED BY <1>0, <2>2, <2>3, <2>4 DEF TypeOK
<1>2. CASE CheckOutWrite(p)
  <2>1. op[p] \in OutWrites /\ Exists(op[p].date)
    BY <1>2, OpKinds DEF CheckOutWrite, TypeOK, HeldRowsExist, Updaters
  <2> DEFINE e == op[p].date
             start == At(e, HourOf(IF op[p].in = NoTime THEN now ELSE op[p].in))
             same  == At(e, HourOf(op[p].time))
             end   == IF same < start THEN same + DayLength ELSE same
             m     == Metrics(e, start, end, op[p].status)
  <2>2. e \in Dates /\ records[e] \in Rows /\ same \in Nat
    BY <2>1, DatesAreNat, HourIsHour, AtIsNat DEF OutWrites, TypeOK, Exists
  <2>3. end \in Nat
    BY <2>2, WaitsAreNat
  <2>4. records' = [records EXCEPT
          ![e].status = m.status, ![e].out = end, ![e].late = m.late,
          ![e].worked = end - start, ![e].effective = m.effective]
    BY <1>2 DEF CheckOutWrite
  <2> HIDE DEF e, start, same, end, m
  <2>5. records'[e].out = end /\ (d # e => records'[d] = records[d])
    BY <2>2, <2>4 DEF TypeOK, Rows
  <2> QED BY <1>0, <2>3, <2>5 DEF NoTime
<1>3. CASE Correct(p)
  <2>1. PICK e \in Dates :
          \E row : row.manual = TRUE /\ records' = [records EXCEPT ![e] = row]
    <3>1. PICK e \in Dates, c \in Corrections :
           LET in    == IF c.in = NoTime THEN NoTime ELSE At(e, c.in)
               same  == IF c.out = NoTime THEN NoTime ELSE At(e, c.out)
               out   == IF same # NoTime /\ in # NoTime /\ same < in
                          THEN same + DayLength ELSE same
               m     == Metrics(e, in, out, c.status)
           IN  records' = [records EXCEPT ![e] =
                 [status |-> m.status, in |-> in, out |-> out, late |-> m.late,
                  worked |-> IF in # NoTime /\ out # NoTime THEN out - in ELSE NoMinutes,
                  effective |-> m.effective,
                  auto |-> IF Exists(e) THEN records[e].auto ELSE FALSE,
                  manual |-> TRUE]]
      BY <1>3 DEF Correct
    <3> DEFINE in    == IF c.in = NoTime THEN NoTime ELSE At(e, c.in)
               same  == IF c.out = NoTime THEN NoTime ELSE At(e, c.out)
               out   == IF same # NoTime /\ in # NoTime /\ same < in
                          THEN same + DayLength ELSE same
               m     == Metrics(e, in, out, c.status)
               row   == [status |-> m.status, in |-> in, out |-> out, late |-> m.late,
                         worked |-> IF in # NoTime /\ out # NoTime THEN out - in ELSE NoMinutes,
                         effective |-> m.effective,
                         auto |-> IF Exists(e) THEN records[e].auto ELSE FALSE,
                         manual |-> TRUE]
    <3>2. row.manual = TRUE
      OBVIOUS
    <3>3. records' = [records EXCEPT ![e] = row]
      BY <3>1
    <3> HIDE DEF row
    <3> QED BY <3>2, <3>3
  <2>2. PICK row : row.manual = TRUE /\ records' = [records EXCEPT ![e] = row]
    BY <2>1
  <2> QED BY <1>0, <2>2 DEF TypeOK
<1>4. CASE AutoWrite(p)
  <2>1. op[p] \in AutoOps
    BY <1>4, OpKinds DEF AutoWrite, TypeOK
  <2>2. PICK t \in op[p].todo :
          LET out == ScheduledOut(DateRead(t.date))
          IN  IF records[t.date].out = NoTime
              THEN records' = [records EXCEPT
                     ![t.date].status = IF records[t.date].late > 0 THEN "late" ELSE "present",
                     ![t.date].out = out,
                     ![t.date].worked = Max({out - t.in, 0}),
                     ![t.date].auto = TRUE]
              ELSE UNCHANGED records
    BY <1>4 DEF AutoWrite
  <2> DEFINE e == t.date
             out == ScheduledOut(DateRead(e))
             status == IF records[e].late > 0 THEN "late" ELSE "present"
             worked == Max({out - t.in, 0})
  <2>3. e \in Dates /\ records[e] \in Rows
    BY <1>4, <2>1 DEF AutoWrite, AutoOps, HeldRowsExist, Exists, TypeOK
  <2>4. out \in Nat
    BY <2>3, DateReadIsNat, ScheduledIsNat DEF TypeOK
  <2>5. \/ UNCHANGED records
        \/ records' = [records EXCEPT ![e].status = status, ![e].out = out,
                                      ![e].worked = worked, ![e].auto = TRUE]
    BY <2>2
  <2> HIDE DEF e, out, status, worked
  <2>6. \/ UNCHANGED records
        \/ records'[e].out = out /\ (d # e => records'[d] = records[d])
    BY <2>3, <2>5 DEF TypeOK, Rows
  <2> QED BY <1>0, <2>4, <2>6 DEF NoTime
<1>5. CASE RecalculateWrite(p)
  <2> DEFINE e == op[p].date
  <2>1. Exists(e) /\ e \in Dates /\ records[e] \in Rows
    BY <1>5 DEF RecalculateWrite, HeldRowsExist, Updaters, Exists, TypeOK
  <2>2. \E status, late, effective :
          records' = [records EXCEPT
            ![e].status = status, ![e].late = late, ![e].effective = effective]
    BY <1>5 DEF RecalculateWrite
  <2> HIDE DEF e
  <2>3. /\ records'[e].in = records[e].in /\ records'[e].out = records[e].out
        /\ records'[e].manual = records[e].manual
        /\ d # e => records'[d] = records[d]
    BY <2>1, <2>2 DEF TypeOK, Rows
  <2>4. RowSound(e, records[e])
    BY <2>1 DEF AloneInv, SoundRows
  <2> QED BY <1>0, <2>3, <2>4 DEF RowSound
<1>6. CASE CloseWrite(p)
  <2> DEFINE e == op[p].date
  <2>1. e \in Dates /\ records[e] \in Rows
    BY <1>6 DEF CloseWrite, HeldRowsExist, Updaters, Exists, TypeOK
  <2>2. \/ UNCHANGED records
        \/ records' = [records EXCEPT ![e].status = "incomplete", ![e].auto = TRUE]
    BY <1>6 DEF CloseWrite
  <2> HIDE DEF e
  <2>3. \/ UNCHANGED records
        \/ records'[e].status = "incomplete" /\ (d # e => records'[d] = records[d])
    BY <2>1, <2>2 DEF TypeOK, Rows
  <2> QED BY <1>0, <2>3
<1> QED BY <1>1, <1>2, <1>3, <1>4, <1>5, <1>6

\* Where requests and jobs come one at a time, the job writes an absence only on a working
\* date without a row and without an approved request, once the shift, a night shift's on
\* the next day, has been over for the grace time; and no other write makes a row look
\* like one.
THEOREM AbsencesAreJustified ==
  ASSUME Alone
  PROVE  Spec => AbsenceJustified
<1>1. ASSUME TypeInv, AloneInv, [Next]_vars
      PROVE  [\A d \in Dates :
                (Exists(d)' /\ records'[d] = Absence /\ (Exists(d) => records[d] # Absence))
                => /\ ~Exists(d)
                   /\ d \in WorkingDays \ leave
                   /\ now >= ShiftOver(d) + AbsenceGrace]_vars
  <2> SUFFICES ASSUME NEW d \in Dates, records'[d] = Absence, records'[d] # NoRecord,
                      Exists(d) => records[d] # Absence
               PROVE  ~Exists(d) /\ d \in WorkingDays \ leave /\ now >= ShiftOver(d) + AbsenceGrace
    BY DEF Exists
  <2>1. records[d] # records'[d]
    BY DEF Exists
  <2>2. PICK p \in Processes : AbsenceInsert(p)
    <3>1. ASSUME NEW p \in Processes,
                 \/ CheckInInsert(p) \/ CheckOutWrite(p) \/ Correct(p) \/ AutoWrite(p)
                 \/ RecalculateWrite(p) \/ CloseWrite(p)
          PROVE  FALSE
      BY <1>1, <2>1, <3>1, OnlyTheJobInserts
    <3>2. ~ UNCHANGED records
      BY <2>1
    <3> QED BY <1>1, <3>1, <3>2, StepCases
            DEF vars, Tick, Fail, ApproveLeave, CheckInStart, CheckInExisting, CheckInBlocked,
                CheckOutStart, CheckOutExisting, AutoRead, AutoDone, RecalculateStart,
                RecalculateRead, CloseRead, AbsenceRead, AbsenceBlocked
  <2>3. op[p].pc = "absInsert" /\ op[p].date = d /\ ~Exists(d)
    BY <1>1, <2>1, <2>2 DEF AbsenceInsert, TypeInv, TypeOK
  <2>4. d \in WorkingDays /\ d \notin leave /\ now >= ScheduledOut(d) + AbsenceGrace
    BY <1>1, <2>3 DEF AloneInv, ReadsHold, ReadHolds
  <2>5. ShiftOver(d) = ScheduledOut(d)
    BY <1>1, DatesAreNat, ShiftOverAtItsEnd DEF TypeInv, TypeOK
  <2> QED BY <2>3, <2>4, <2>5
<1> QED BY <1>1, AloneInvariance, PTL DEF Spec, AbsenceJustified

===============================================================================
