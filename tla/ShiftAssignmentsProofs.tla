------------------------ MODULE ShiftAssignmentsProofs ------------------------
(* Proofs about ShiftAssignments, for any shifts, calendar and number of rows, *)
(* when requests come one at a time.  With two at a time the properties fail:  *)
(* no lock covers the rows between the overlap check and the writes, and the   *)
(* table's constraints know of open rows only.                                 *)
EXTENDS ShiftAssignments, SequenceTheorems, FiniteSetTheorems, WellFoundedInduction,
        TLAPS

OneAtATime == \A g, h \in Handlers : g = h

\* The two rows have no day in common, whatever their dates are.
Disjoint(a, b) == ~(a.from <= Last(b.to) /\ b.from <= Last(a.to))

Apart(rows) ==
  \A i, j \in DOMAIN rows :
    i # j /\ rows[i].active /\ rows[j].active => Disjoint(rows[i], rows[j])

Dated(row) == row.to # NoDate => row.from <= row.to

\* No other active row has a day of the new one.
Clear(rows, new, except) ==
  \A i \in DOMAIN rows \ {except} : rows[i].active => Disjoint(new, rows[i])

PlanKinds == {"assign", "update"}

\* What a request has read and checked still holds when it writes.
PlansHold ==
  \A h \in Handlers : op[h] \in Plans("assign") \cup Plans("update") =>
    /\ Dated(op[h].new)
    /\ shiftStatus[op[h].new.shift] = "active"
    /\ op[h].kind = "assign" =>
         /\ op[h].new.active
         /\ Len(assignments) < MaxRows
         /\ OpenRows(assignments) = IF op[h].id = NoId THEN {} ELSE {op[h].id}
    /\ op[h].kind = "update" =>
         /\ op[h].id \in DOMAIN assignments
         /\ op[h].seen = assignments[op[h].id]
         /\ SplitsHistory(op[h].seen, op[h].new) => Len(assignments) < MaxRows
    /\ op[h].pc = "write" /\ op[h].new.active => Clear(assignments, op[h].new, op[h].id)

\* NoSharedDay is not inductive: what the writes keep apart is what the check
\* has found clear, and the check of an assignment leaves out the row it read as
\* the open one, which must still be the only one.
AssignInv ==
  /\ TypeOK
  /\ Apart(assignments)
  /\ \A i \in DOMAIN assignments : Dated(assignments[i])
  /\ OpenRowHasShift
  /\ PlansHold
  /\ ChecksForesee

-------------------------------------------------------------------------------
(* Rows and sequences of rows *)

LEMMA LastFits ==
  ASSUME NEW row \in Rows
  PROVE  /\ Last(row.to) \in Days
         /\ row.from \in Days
         /\ row.from <= MaxDay
  BY ShiftAssignmentsAssumption DEF Rows, Last, Days, NoDate

\* Rows that are apart leave room for one that has no end.
LEMMA OneOpen ==
  ASSUME NEW rows \in Seq(Rows), Apart(rows)
  PROVE  /\ \A i, j \in OpenRows(rows) : i = j
         /\ Cardinality(OpenRows(rows)) <= 1
<1>1. ASSUME NEW i \in OpenRows(rows), NEW j \in OpenRows(rows)
      PROVE  i = j
  <2>1. i \in DOMAIN rows /\ j \in DOMAIN rows /\ rows[i] \in Rows /\ rows[j] \in Rows
    BY <1>1 DEF OpenRows
  <2>2. Last(rows[i].to) = MaxDay /\ Last(rows[j].to) = MaxDay
    BY <1>1 DEF OpenRows, Last
  <2>3. ~Disjoint(rows[i], rows[j])
    BY <2>1, <2>2, LastFits DEF Disjoint
  <2> QED BY <2>1, <2>3, <1>1 DEF Apart, OpenRows
<1>2. OpenRows(rows) = {} \/ \E x : OpenRows(rows) = {x}
  <2>1. CASE OpenRows(rows) # {}
    <3>1. PICK x : x \in OpenRows(rows)
      BY <2>1
    <3> QED BY <3>1, <1>1
  <2> QED BY <2>1
<1>3. CASE OpenRows(rows) = {}
  BY <1>1, <1>3, FS_EmptySet
<1>4. CASE \E x : OpenRows(rows) = {x}
  <2>1. PICK x : OpenRows(rows) = {x}
    BY <1>4
  <2>2. Cardinality(OpenRows(rows)) = 1
    BY <2>1, FS_Singleton
  <2> QED BY <1>1, <2>2
<1> QED BY <1>2, <1>3, <1>4

LEMMA ApartIsConsistent ==
  ASSUME NEW rows \in Seq(Rows), Apart(rows), \A i \in DOMAIN rows : Dated(rows[i])
  PROVE  Consistent(rows)
  BY OneOpen DEF Consistent, Dated

\* The newest of one row is that row.
LEMMA NewestOfOne ==
  ASSUME NEW i \in Nat
  PROVE  Newest({i}) = i
  BY DEF Newest

\* A row may be put in the place of another, or at the end, if no other active
\* row has a day of it.
LEMMA ReplaceKeepsApart ==
  ASSUME NEW rows \in Seq(Rows), Apart(rows), NEW i \in DOMAIN rows, NEW row \in Rows,
         row.active => Clear(rows, row, i)
  PROVE  /\ [rows EXCEPT ![i] = row] \in Seq(Rows)
         /\ DOMAIN [rows EXCEPT ![i] = row] = DOMAIN rows
         /\ Len([rows EXCEPT ![i] = row]) = Len(rows)
         /\ Apart([rows EXCEPT ![i] = row])
<1>1. /\ [rows EXCEPT ![i] = row] \in Seq(Rows)
      /\ DOMAIN [rows EXCEPT ![i] = row] = DOMAIN rows
      /\ Len([rows EXCEPT ![i] = row]) = Len(rows)
  BY ExceptSeq
<1>2. ASSUME NEW a \in DOMAIN rows, NEW b \in DOMAIN rows, a # b,
             [rows EXCEPT ![i] = row][a].active, [rows EXCEPT ![i] = row][b].active
      PROVE  Disjoint([rows EXCEPT ![i] = row][a], [rows EXCEPT ![i] = row][b])
  <2>1. CASE a = i
    BY <1>2, <2>1 DEF Clear
  <2>2. CASE b = i
    BY <1>2, <2>2 DEF Clear, Disjoint
  <2>3. CASE a # i /\ b # i
    BY <1>2, <2>3 DEF Apart
  <2> QED BY <2>1, <2>2, <2>3
<1> QED BY <1>1, <1>2 DEF Apart

LEMMA AppendKeepsApart ==
  ASSUME NEW rows \in Seq(Rows), Apart(rows), NEW row \in Rows,
         row.active => \A i \in DOMAIN rows : rows[i].active => Disjoint(row, rows[i])
  PROVE  /\ Append(rows, row) \in Seq(Rows)
         /\ DOMAIN Append(rows, row) = DOMAIN rows \cup {Len(rows) + 1}
         /\ Len(Append(rows, row)) = Len(rows) + 1
         /\ \A i \in DOMAIN rows : Append(rows, row)[i] = rows[i]
         /\ Append(rows, row)[Len(rows) + 1] = row
         /\ Apart(Append(rows, row))
<1> DEFINE all == Append(rows, row)
<1>1. /\ all \in Seq(Rows)
      /\ DOMAIN all = DOMAIN rows \cup {Len(rows) + 1}
      /\ Len(all) = Len(rows) + 1
      /\ \A i \in DOMAIN rows : all[i] = rows[i]
      /\ all[Len(rows) + 1] = row
  BY AppendProperties
<1> HIDE DEF all
<1>2. ASSUME NEW a \in DOMAIN all, NEW b \in DOMAIN all, a # b, all[a].active, all[b].active
      PROVE  Disjoint(all[a], all[b])
  <2>1. CASE a \in DOMAIN rows /\ b \in DOMAIN rows
    BY <1>1, <1>2, <2>1 DEF Apart
  <2>2. CASE a \in DOMAIN rows /\ b = Len(rows) + 1
    BY <1>1, <1>2, <2>2 DEF Disjoint
  <2>3. CASE a = Len(rows) + 1 /\ b \in DOMAIN rows
    BY <1>1, <1>2, <2>3
  <2> QED BY <1>1, <1>2, <2>1, <2>2, <2>3
<1>3. Apart(all)
  BY <1>2 DEF Apart
<1> QED BY <1>1, <1>3 DEF all

\* Giving up a row's place or its effect keeps the rows apart.
LEMMA LessActiveKeepsApart ==
  ASSUME NEW rows \in Seq(Rows), Apart(rows),
         NEW less \in Seq(Rows), DOMAIN less = DOMAIN rows,
         \A i \in DOMAIN rows : less[i].active => less[i] = rows[i]
  PROVE  Apart(less)
  BY DEF Apart

-------------------------------------------------------------------------------
(* What a handler holds *)

LEMMA OpKinds ==
  ASSUME NEW o \in Ops
  PROVE  /\ o.pc = "check" => o \in Plans("assign") \cup Plans("update")
         /\ o.pc = "write" /\ o.kind = "assign" => o \in Plans("assign")
         /\ o.pc = "write" /\ o.kind = "update" => o \in Plans("update")
         /\ o.pc = "write" /\ o.kind = "delete" => o \in Deletions
         /\ o \in Plans("assign") \cup Plans("update") => o.pc \in {"check", "write"}
         /\ o \in Deletions => o.pc = "write" /\ o.kind = "delete"
  BY DEF Ops, Ready, Failed, Plans, Deletions

LEMMA KindsAreOps ==
  /\ Ready \in Ops /\ Ready \notin Plans("assign") \cup Plans("update")
  /\ \A k \in {"assign", "update", "delete"} :
       Failed(k) \in Ops /\ Failed(k) \notin Plans("assign") \cup Plans("update")
  /\ Plans("assign") \subseteq Ops /\ Plans("update") \subseteq Ops
  /\ Deletions \subseteq Ops
  /\ \A o \in Deletions : o \notin Plans("assign") \cup Plans("update")
  BY DEF Ops, Ready, Failed, Plans, Deletions

LEMMA OneOp ==
  ASSUME OneAtATime, NEW h \in Handlers, NEW next, op' = [op EXCEPT ![h] = next],
         op \in [Handlers -> Ops]
  PROVE  op' = [g \in Handlers |-> next]
  BY DEF OneAtATime

\* A step after which no request is between its check and its writes.
LEMMA NoPlanLeft ==
  ASSUME OneAtATime, TypeOK, NEW h \in Handlers, NEW next \in Ops,
         next \notin Plans("assign") \cup Plans("update"),
         op' = [op EXCEPT ![h] = next],
         next.pc = "failed" => next.kind = "delete"
  PROVE  /\ op' \in [Handlers -> Ops]
         /\ PlansHold'
         /\ ChecksForesee'
<1>1. op' = [g \in Handlers |-> next]
  BY OneOp DEF TypeOK
<1> QED BY <1>1 DEF PlansHold, ChecksForesee

-------------------------------------------------------------------------------
(* The steps *)

\* A transaction commits: its rows are apart, dated and of shifts that are not
\* deleted, so that no constraint refuses them.
LEMMA CommitKeepsInv ==
  ASSUME OneAtATime, AssignInv, NEW h \in Handlers,
         NEW rows \in Seq(Rows), Len(rows) <= MaxRows, Apart(rows),
         \A i \in DOMAIN rows : Dated(rows[i]),
         NEW shift \in Shifts \cup {NoShift}, NEW statuses \in [Shifts -> Statuses],
         \A i \in OpenRows(rows) : statuses[rows[i].shift] # "deleted",
         Commit(h, rows, shift, statuses)
  PROVE  AssignInv'
<1>1. Consistent(rows)
  BY ApartIsConsistent
<1>2. /\ assignments' = rows
      /\ shiftOf' = shift
      /\ shiftStatus' = statuses
      /\ op' = [op EXCEPT ![h] = Ready]
  BY <1>1 DEF Commit
<1>3. op' \in [Handlers -> Ops] /\ PlansHold' /\ ChecksForesee'
  BY <1>2, NoPlanLeft, KindsAreOps DEF Ready, AssignInv
<1>4. OpenRowHasShift'
  BY <1>2 DEF OpenRowHasShift, OpenRows
<1>5. Apart(assignments)' /\ (\A i \in DOMAIN assignments : Dated(assignments[i]))'
  BY <1>2 DEF Apart, Dated, Disjoint
<1> QED BY <1>2, <1>3, <1>4, <1>5 DEF AssignInv, TypeOK

LEMMA InvInit == Init => AssignInv
<1> SUFFICES ASSUME Init PROVE AssignInv
  OBVIOUS
<1>1. assignments \in Seq(Rows) /\ Len(assignments) = 0 /\ DOMAIN assignments = {}
  BY DEF Init
<1>2. TypeOK
  BY <1>1, ShiftAssignmentsAssumption, KindsAreOps DEF Init, TypeOK, Statuses
<1>3. PlansHold /\ ChecksForesee
  BY KindsAreOps DEF Init, PlansHold, ChecksForesee, Ready
<1> QED BY <1>1, <1>2, <1>3 DEF AssignInv, Apart, OpenRowHasShift, OpenRows

LEMMA CatalogueKeepsInv ==
  ASSUME OneAtATime, AssignInv, NEW h \in Handlers, CreateShift(h) \/ UpdateShift(h)
  PROVE  AssignInv'
<1>1. PICK s \in Shifts, status \in {"active", "inactive"} :
        shiftStatus' = [shiftStatus EXCEPT ![s] = status]
  BY DEF CreateShift, UpdateShift
<1>2. UNCHANGED <<assignments, shiftOf>> /\ op' = [op EXCEPT ![h] = Ready]
  BY DEF CreateShift, UpdateShift
<1>3. op' \in [Handlers -> Ops] /\ PlansHold' /\ ChecksForesee'
  BY <1>2, NoPlanLeft, KindsAreOps DEF Ready, AssignInv
<1>4. shiftStatus' \in [Shifts -> Statuses]
  BY <1>1 DEF AssignInv, TypeOK, Statuses
<1>5. OpenRowHasShift'
  BY <1>1, <1>2 DEF AssignInv, TypeOK, OpenRowHasShift, OpenRows
<1>6. Apart(assignments)' /\ (\A i \in DOMAIN assignments : Dated(assignments[i]))'
  BY <1>2 DEF AssignInv, Apart, Dated, Disjoint
<1> QED BY <1>2, <1>3, <1>4, <1>5, <1>6 DEF AssignInv, TypeOK

\* The rows that answer for nothing any more when shift s is deleted.
DeletedRows(s) ==
  [i \in DOMAIN assignments |->
     IF i \in OpenRows(assignments) /\ assignments[i].shift = s
     THEN [assignments[i] EXCEPT !.active = FALSE, !.to = Today]
     ELSE assignments[i]]

LEMMA DeletedRowsFit ==
  ASSUME TypeOK, NEW s \in Shifts
  PROVE  /\ DeletedRows(s) \in Seq(Rows)
         /\ Len(DeletedRows(s)) = Len(assignments)
         /\ DOMAIN DeletedRows(s) = DOMAIN assignments
         /\ \A i \in DOMAIN assignments : DeletedRows(s)[i].active =>
              /\ DeletedRows(s)[i] = assignments[i]
              /\ assignments[i].to = NoDate => assignments[i].shift # s
<1>1. /\ DOMAIN assignments = 1 .. Len(assignments)
      /\ Len(assignments) \in Nat
      /\ \A i \in DOMAIN assignments : assignments[i] \in Rows
  BY DEF TypeOK
<1>2. \A row \in Rows : /\ [row EXCEPT !.active = FALSE, !.to = Today] \in Rows
                        /\ ~[row EXCEPT !.active = FALSE, !.to = Today].active
  BY ShiftAssignmentsAssumption DEF Rows
<1>3. DeletedRows(s) \in [1 .. Len(assignments) -> Rows]
  BY <1>1, <1>2 DEF DeletedRows
<1>4. \A i \in DOMAIN assignments : DeletedRows(s)[i].active =>
        /\ DeletedRows(s)[i] = assignments[i]
        /\ assignments[i].to = NoDate => assignments[i].shift # s
  BY <1>1, <1>2 DEF DeletedRows, OpenRows
<1> QED BY <1>1, <1>3, <1>4

LEMMA DeleteShiftKeepsInv ==
  ASSUME OneAtATime, AssignInv, NEW h \in Handlers, DeleteShiftRead(h) \/ DeleteShiftWrite(h)
  PROVE  AssignInv'
<1>0. op[h] \in Ops /\ op \in [Handlers -> Ops]
  BY DEF AssignInv, TypeOK
<1>1. CASE DeleteShiftRead(h)
  <2>1. PICK s \in Shifts :
          op' = [op EXCEPT ![h] = [pc |-> "write", kind |-> "delete", shift |-> s]]
    BY <1>1 DEF DeleteShiftRead
  <2>2. [pc |-> "write", kind |-> "delete", shift |-> s] \in Deletions
    BY DEF Deletions
  <2>3. op' \in [Handlers -> Ops] /\ PlansHold' /\ ChecksForesee'
    BY <2>1, <2>2, NoPlanLeft, KindsAreOps DEF AssignInv
  <2>4. UNCHANGED <<shiftStatus, assignments, shiftOf>>
    BY <1>1 DEF DeleteShiftRead
  <2> QED
    BY <2>3, <2>4 DEF AssignInv, TypeOK, OpenRowHasShift, OpenRows, Apart, Dated, Disjoint
<1>2. CASE DeleteShiftWrite(h)
  <2>1. op[h] \in Deletions
    BY <1>0, <1>2, OpKinds DEF DeleteShiftWrite, Doing
  <2> DEFINE s == op[h].shift
             statuses == [shiftStatus EXCEPT ![s] = "deleted"]
  <2>2. s \in Shifts /\ statuses \in [Shifts -> Statuses]
    BY <2>1 DEF Deletions, AssignInv, TypeOK, Statuses
  <2>3. Commit(h, DeletedRows(s), shiftOf, statuses)
    BY <1>2 DEF DeleteShiftWrite, DeletedRows
  <2>4. /\ DeletedRows(s) \in Seq(Rows)
        /\ Len(DeletedRows(s)) <= MaxRows
        /\ DOMAIN DeletedRows(s) = DOMAIN assignments
    BY <2>2, DeletedRowsFit DEF AssignInv, TypeOK
  <2>5. Apart(DeletedRows(s))
    BY <2>2, <2>4, DeletedRowsFit, LessActiveKeepsApart DEF AssignInv, TypeOK
  <2>6. \A i \in OpenRows(DeletedRows(s)) : statuses[DeletedRows(s)[i].shift] # "deleted"
    <3> TAKE i \in OpenRows(DeletedRows(s))
    <3>1. /\ i \in DOMAIN assignments
          /\ assignments[i] \in Rows
          /\ i \in OpenRows(assignments)
          /\ DeletedRows(s)[i] = assignments[i]
          /\ assignments[i].shift # s
      BY <2>2, <2>4, DeletedRowsFit DEF OpenRows, AssignInv, TypeOK
    <3>2. shiftStatus[assignments[i].shift] # "deleted"
      BY <3>1 DEF AssignInv, OpenRowHasShift
    <3> QED BY <2>2, <3>1, <3>2 DEF AssignInv, TypeOK, Rows
  <2>7. CASE \A i \in DOMAIN DeletedRows(s) : Dated(DeletedRows(s)[i])
    BY <2>2, <2>3, <2>4, <2>5, <2>6, <2>7, CommitKeepsInv DEF AssignInv, TypeOK
  <2>8. CASE ~ \A i \in DOMAIN DeletedRows(s) : Dated(DeletedRows(s)[i])
    <3>1. ~Consistent(DeletedRows(s))
      BY <2>8 DEF Consistent, Dated
    <3>2. /\ op' = [op EXCEPT ![h] = Failed("delete")]
          /\ UNCHANGED <<assignments, shiftOf, shiftStatus>>
      BY <2>1, <2>3, <3>1 DEF Commit, Deletions
    <3>3. op' \in [Handlers -> Ops] /\ PlansHold' /\ ChecksForesee'
      BY <3>2, NoPlanLeft, KindsAreOps DEF Failed, AssignInv
    <3> QED
      BY <3>2, <3>3 DEF AssignInv, TypeOK, OpenRowHasShift, OpenRows, Apart, Dated, Disjoint
  <2> QED BY <2>7, <2>8
<1> QED BY <1>1, <1>2

\* A request that read, or read and checked, plans what it says it plans.
LEMMA PlanKeepsInv ==
  ASSUME OneAtATime, AssignInv, NEW h \in Handlers,
         NEW next \in Plans("assign") \cup Plans("update"),
         op' = [op EXCEPT ![h] = next],
         UNCHANGED <<shiftStatus, assignments, shiftOf>>,
         Dated(next.new),
         shiftStatus[next.new.shift] = "active",
         next.kind = "assign" =>
           /\ next.new.active
           /\ Len(assignments) < MaxRows
           /\ OpenRows(assignments) = IF next.id = NoId THEN {} ELSE {next.id},
         next.kind = "update" =>
           /\ next.id \in DOMAIN assignments
           /\ next.seen = assignments[next.id]
           /\ SplitsHistory(next.seen, next.new) => Len(assignments) < MaxRows,
         next.pc = "write" /\ next.new.active => Clear(assignments, next.new, next.id)
  PROVE  AssignInv'
<1>1. op' = [g \in Handlers |-> next] /\ next \in Ops
  BY OneOp, KindsAreOps DEF AssignInv, TypeOK
<1>2. op' \in [Handlers -> Ops]
  BY <1>1
<1>3. ChecksForesee'
  BY <1>1, OpKinds DEF ChecksForesee
<1>4. \A g \in Handlers : op'[g] = next
  BY <1>1
<1>5. PlansHold'
  BY <1>4 DEF PlansHold, Dated, OpenRows, Clear, Disjoint, SplitsHistory, Last
<1> QED
  BY <1>2, <1>3, <1>5 DEF AssignInv, TypeOK, OpenRowHasShift, OpenRows, Apart, Dated, Disjoint

\* What assignShift finds as the open assignment is the only one there is.
LEMMA OpenAssignmentFound ==
  ASSUME AssignInv
  PROVE  /\ OpenAssignment \in 0 .. MaxRows
         /\ OpenRows(assignments) = IF OpenAssignment = NoId THEN {} ELSE {OpenAssignment}
<1>1. /\ assignments \in Seq(Rows)
      /\ Apart(assignments)
      /\ DOMAIN assignments = 1 .. Len(assignments)
      /\ Len(assignments) <= MaxRows
      /\ Len(assignments) \in Nat
  BY DEF AssignInv, TypeOK
<1>2. CASE OpenRows(assignments) = {}
  BY <1>2, ShiftAssignmentsAssumption DEF OpenAssignment, NoId
<1>3. CASE OpenRows(assignments) # {}
  <2>1. PICK i : i \in OpenRows(assignments)
    BY <1>3
  <2>2. OpenRows(assignments) = {i}
    BY <1>1, <2>1, OneOpen
  <2>3. i \in 1 .. Len(assignments) /\ i \in Nat
    BY <1>1, <2>1 DEF OpenRows
  <2>4. OpenAssignment = i
    BY <1>3, <2>2, <2>3, NewestOfOne DEF OpenAssignment
  <2>5. i # NoId /\ i \in 0 .. MaxRows
    BY <1>1, <2>3, ShiftAssignmentsAssumption DEF NoId
  <2> QED BY <2>2, <2>4, <2>5
<1> QED BY <1>2, <1>3

LEMMA ReadKeepsInv ==
  ASSUME OneAtATime, AssignInv, NEW h \in Handlers, AssignRead(h) \/ UpdateRead(h)
  PROVE  AssignInv'
<1>1. CASE AssignRead(h)
  <2>1. PICK row \in NewRows :
          /\ row.active
          /\ op' = [op EXCEPT ![h] = [pc |-> "check", kind |-> "assign",
                                      id |-> OpenAssignment, new |-> row, seen |-> Ready]]
    BY <1>1 DEF AssignRead
  <2> DEFINE next == [pc |-> "check", kind |-> "assign",
                      id |-> OpenAssignment, new |-> row, seen |-> Ready]
  <2>2. next \in Plans("assign")
    BY OpenAssignmentFound DEF Plans, NewRows
  <2>3. /\ Dated(row) /\ shiftStatus[row.shift] = "active"
        /\ Len(assignments) < MaxRows
        /\ UNCHANGED <<shiftStatus, assignments, shiftOf>>
    BY <1>1 DEF AssignRead, NewRows, Dated
  <2>4. /\ next.new = row /\ next.kind = "assign"
        /\ next.id = OpenAssignment /\ next.pc = "check"
    OBVIOUS
  <2>5. op' = [op EXCEPT ![h] = next]
    BY <2>1
  <2> HIDE DEF next
  <2> QED BY <2>1, <2>2, <2>3, <2>4, <2>5, OpenAssignmentFound, PlanKeepsInv
<1>2. CASE UpdateRead(h)
  <2>1. PICK id \in DOMAIN assignments : \E row \in NewRows :
          /\ SplitsHistory(assignments[id], row) => Len(assignments) < MaxRows
          /\ op' = [op EXCEPT ![h] = [pc |-> "check", kind |-> "update", id |-> id,
                                      new |-> row, seen |-> assignments[id]]]
    BY <1>2 DEF UpdateRead
  <2>2. PICK row \in NewRows :
          /\ SplitsHistory(assignments[id], row) => Len(assignments) < MaxRows
          /\ op' = [op EXCEPT ![h] = [pc |-> "check", kind |-> "update", id |-> id,
                                      new |-> row, seen |-> assignments[id]]]
    BY <2>1
  <2> DEFINE next == [pc |-> "check", kind |-> "update", id |-> id,
                      new |-> row, seen |-> assignments[id]]
  <2>3. id \in 0 .. MaxRows /\ assignments[id] \in Rows
    BY ShiftAssignmentsAssumption DEF AssignInv, TypeOK
  <2>4. next \in Plans("update")
    BY <2>3 DEF Plans, NewRows
  <2>5. /\ Dated(row) /\ shiftStatus[row.shift] = "active"
        /\ UNCHANGED <<shiftStatus, assignments, shiftOf>>
    BY <1>2 DEF UpdateRead, NewRows, Dated
  <2>6. /\ next.new = row /\ next.kind = "update" /\ next.id = id
        /\ next.seen = assignments[id] /\ next.pc = "check"
    OBVIOUS
  <2>7. op' = [op EXCEPT ![h] = next]
    BY <2>2
  <2> HIDE DEF next
  <2> QED BY <2>2, <2>4, <2>5, <2>6, <2>7, PlanKeepsInv
<1> QED BY <1>1, <1>2

\* The check clears exactly what the row is written among.
LEMMA NotOverlapping ==
  ASSUME NEW row \in Rows, NEW except, ~Overlaps(row.from, row.to, except),
         assignments \in Seq(Rows)
  PROVE  Clear(assignments, row, except)
<1> SUFFICES ASSUME NEW i \in DOMAIN assignments \ {except}, assignments[i].active
             PROVE  Disjoint(row, assignments[i])
  BY DEF Clear
<1>1. ~(assignments[i].from <= Last(row.to) /\ Last(assignments[i].to) >= row.from)
  BY DEF Overlaps
<1>2. /\ assignments[i] \in Rows
      /\ Last(row.to) \in Int /\ Last(assignments[i].to) \in Int
      /\ row.from \in Int /\ assignments[i].from \in Int
  BY LastFits DEF Days
<1> QED BY <1>1, <1>2 DEF Disjoint

LEMMA CheckKeepsInv ==
  ASSUME OneAtATime, AssignInv, NEW h \in Handlers, CheckOverlap(h)
  PROVE  AssignInv'
<1>0. op[h] \in Ops /\ op \in [Handlers -> Ops] /\ assignments \in Seq(Rows)
  BY DEF AssignInv, TypeOK
<1>1. op[h] \in Plans("assign") \cup Plans("update") /\ op[h].pc = "check"
  BY <1>0, OpKinds DEF CheckOverlap
<1>2. UNCHANGED <<shiftStatus, assignments, shiftOf>>
  BY DEF CheckOverlap
<1> DEFINE new == op[h].new
           next == [op[h] EXCEPT !.pc = "write"]
<1>3. CASE new.active /\ Overlaps(new.from, new.to, op[h].id)
  <2>1. op' = [op EXCEPT ![h] = Ready]
    BY <1>3 DEF CheckOverlap
  <2>2. op' \in [Handlers -> Ops] /\ PlansHold' /\ ChecksForesee'
    BY <2>1, NoPlanLeft, KindsAreOps DEF Ready, AssignInv
  <2> QED
    BY <1>2, <2>2 DEF AssignInv, TypeOK, OpenRowHasShift, OpenRows, Apart, Dated, Disjoint
<1>4. CASE ~(new.active /\ Overlaps(new.from, new.to, op[h].id))
  <2>1. op' = [op EXCEPT ![h] = next]
    BY <1>4 DEF CheckOverlap
  <2>2. /\ next \in Plans("assign") \cup Plans("update")
        /\ next.new = op[h].new /\ next.id = op[h].id /\ next.seen = op[h].seen
        /\ next.kind = op[h].kind
        /\ op[h].new \in Rows
    BY <1>1 DEF Plans
  <2>3. new.active => Clear(assignments, new, op[h].id)
    BY <1>0, <1>4, <2>2, NotOverlapping
  <2>4. /\ Dated(op[h].new)
        /\ shiftStatus[op[h].new.shift] = "active"
        /\ op[h].kind = "assign" =>
             /\ op[h].new.active
             /\ Len(assignments) < MaxRows
             /\ OpenRows(assignments) = IF op[h].id = NoId THEN {} ELSE {op[h].id}
        /\ op[h].kind = "update" =>
             /\ op[h].id \in DOMAIN assignments
             /\ op[h].seen = assignments[op[h].id]
             /\ SplitsHistory(op[h].seen, op[h].new) => Len(assignments) < MaxRows
    BY <1>1 DEF AssignInv, PlansHold
  <2> HIDE DEF next
  <2> QED BY <1>2, <2>1, <2>2, <2>3, <2>4, PlanKeepsInv
<1> QED BY <1>3, <1>4

\* The rows an operation leaves name shifts that exist if those it adds do.
LEMMA OpenRowsFrom ==
  ASSUME AssignInv, NEW rows \in Seq(Rows), NEW added,
         \A i \in DOMAIN rows \ {added} : rows[i].active =>
           i \in DOMAIN assignments /\ rows[i] = assignments[i],
         added \in DOMAIN rows => shiftStatus[rows[added].shift] = "active"
  PROVE  \A i \in OpenRows(rows) : shiftStatus[rows[i].shift] # "deleted"
  BY DEF AssignInv, OpenRowHasShift, OpenRows

\* The rows of assignShift, the open one ended.
ClosedRows(h) ==
  IF op[h].id = NoId THEN assignments
  ELSE [assignments EXCEPT ![op[h].id] = ClosedBy(@, op[h].new.from)]

LEMMA AssignPlan ==
  ASSUME AssignInv, NEW h \in Handlers, Doing(h, "assign", "write")
  PROVE  LET id == op[h].id  new == op[h].new IN
         /\ new \in Rows /\ new.shift \in Shifts /\ new.from \in Days
         /\ Dated(new) /\ new.active
         /\ shiftStatus[new.shift] = "active"
         /\ Len(assignments) < MaxRows
         /\ OpenRows(assignments) = IF id = NoId THEN {} ELSE {id}
         /\ Clear(assignments, new, id)
<1>1. op[h] \in Plans("assign") /\ op[h].pc = "write" /\ op[h].kind = "assign"
  BY OpKinds DEF AssignInv, TypeOK, Doing
<1> QED BY <1>1 DEF AssignInv, PlansHold, Plans, Rows

LEMMA ClosedRowsFit ==
  ASSUME AssignInv, NEW h \in Handlers, Doing(h, "assign", "write")
  PROVE  /\ ClosedRows(h) \in Seq(Rows) /\ Apart(ClosedRows(h))
         /\ DOMAIN ClosedRows(h) = DOMAIN assignments
         /\ Len(ClosedRows(h)) = Len(assignments)
         /\ \A i \in DOMAIN assignments :
              /\ Dated(ClosedRows(h)[i])
              /\ ClosedRows(h)[i].active => ClosedRows(h)[i] = assignments[i] /\ i # op[h].id
              /\ i # op[h].id => ClosedRows(h)[i] = assignments[i]
              /\ i = op[h].id =>
                   ClosedRows(h)[i] = ClosedBy(assignments[i], op[h].new.from)
<1> DEFINE id     == op[h].id
           new    == op[h].new
           closed == ClosedRows(h)
<1>0. /\ assignments \in Seq(Rows) /\ Apart(assignments)
      /\ DOMAIN assignments = 1 .. Len(assignments)
      /\ Len(assignments) \in Nat
      /\ \A i \in DOMAIN assignments : assignments[i] \in Rows /\ Dated(assignments[i])
  BY DEF AssignInv, TypeOK
<1>2. /\ new.from \in Days
      /\ OpenRows(assignments) = IF id = NoId THEN {} ELSE {id}
  BY AssignPlan
<1>3. CASE id = NoId
  <2>1. closed = assignments /\ id \notin DOMAIN assignments
    BY <1>0, <1>3 DEF NoId, ClosedRows
  <2> QED BY <1>0, <2>1
<1>4. CASE id # NoId
  <2> DEFINE c == ClosedBy(assignments[id], new.from)
  <2>1. id \in DOMAIN assignments /\ assignments[id] \in Rows
    BY <1>0, <1>2, <1>4 DEF OpenRows
  <2>2. c \in Rows /\ ~c.active /\ Dated(c)
    <3>1. ASSUME assignments[id].from < new.from
          PROVE  c \in Rows /\ ~c.active /\ Dated(c)
      <4>1. new.from - 1 \in Days /\ assignments[id].from <= new.from - 1
        BY <1>2, <2>1, <3>1, ShiftAssignmentsAssumption DEF Days, Rows
      <4>2. c = [assignments[id] EXCEPT !.active = FALSE, !.to = new.from - 1]
        BY <3>1 DEF ClosedBy, Ended
      <4>3. c = [shift |-> assignments[id].shift, from |-> assignments[id].from,
                 to |-> new.from - 1, active |-> FALSE]
        BY <2>1, <4>2 DEF Rows
      <4> QED BY <2>1, <4>1, <4>3 DEF Rows, Dated
    <3>2. ASSUME ~(assignments[id].from < new.from)
          PROVE  c \in Rows /\ ~c.active /\ Dated(c)
      <4>1. c = [assignments[id] EXCEPT !.active = FALSE, !.to = NoDate]
        BY <3>2 DEF ClosedBy
      <4>2. c = [shift |-> assignments[id].shift, from |-> assignments[id].from,
                 to |-> NoDate, active |-> FALSE]
        BY <2>1, <4>1 DEF Rows
      <4> QED BY <2>1, <4>2 DEF Rows, Dated
    <3> QED BY <3>1, <3>2
  <2> HIDE DEF c
  <2>3. closed = [assignments EXCEPT ![id] = c]
    BY <1>4 DEF c, ClosedRows
  <2> HIDE DEF closed
  <2>4. /\ closed \in Seq(Rows) /\ Apart(closed)
        /\ DOMAIN closed = DOMAIN assignments /\ Len(closed) = Len(assignments)
    BY <1>0, <2>1, <2>2, <2>3, ReplaceKeepsApart
  <2>5. \A i \in DOMAIN assignments : closed[i] = IF i = id THEN c ELSE assignments[i]
    BY <1>0, <2>3
  <2> QED BY <1>0, <2>2, <2>4, <2>5 DEF c, closed
<1> QED BY <1>3, <1>4

\* The rows assignShift leaves.
AssignedRows(h) == Append(ClosedRows(h), op[h].new)

LEMMA AssignedRowsFit ==
  ASSUME AssignInv, NEW h \in Handlers, Doing(h, "assign", "write")
  PROVE  LET last == Len(assignments) + 1 IN
         /\ AssignedRows(h) \in Seq(Rows) /\ Apart(AssignedRows(h))
         /\ DOMAIN AssignedRows(h) = DOMAIN assignments \cup {last}
         /\ Len(AssignedRows(h)) = last
         /\ \A i \in DOMAIN assignments : AssignedRows(h)[i] = ClosedRows(h)[i]
         /\ AssignedRows(h)[last] = op[h].new
<1>1. \A i \in DOMAIN ClosedRows(h) : ClosedRows(h)[i].active => Disjoint(op[h].new, ClosedRows(h)[i])
  BY AssignPlan, ClosedRowsFit DEF Clear
<1> QED BY <1>1, AssignPlan, ClosedRowsFit, AppendKeepsApart DEF AssignedRows

LEMMA AssignWriteKeepsInv ==
  ASSUME OneAtATime, AssignInv, NEW h \in Handlers, AssignWrite(h)
  PROVE  AssignInv'
<1> DEFINE new  == op[h].new
           last == Len(assignments) + 1
           rows == AssignedRows(h)
<1>0. /\ Doing(h, "assign", "write")
      /\ Len(assignments) \in Nat
      /\ shiftStatus \in [Shifts -> Statuses]
  BY DEF AssignWrite, AssignInv, TypeOK
<1>1. /\ new \in Rows /\ new.shift \in Shifts /\ Dated(new)
      /\ shiftStatus[new.shift] = "active"
      /\ Len(assignments) < MaxRows
  BY <1>0, AssignPlan
<1>2. Commit(h, rows, new.shift, shiftStatus)
  BY DEF AssignWrite, AssignedRows, ClosedRows
<1>3. /\ rows \in Seq(Rows) /\ Apart(rows)
      /\ DOMAIN rows = DOMAIN assignments \cup {last}
      /\ Len(rows) = last
      /\ \A i \in DOMAIN assignments : rows[i] = ClosedRows(h)[i]
      /\ rows[last] = new
  BY <1>0, AssignedRowsFit
<1>4. \A i \in DOMAIN rows : Dated(rows[i])
  BY <1>0, <1>1, <1>3, ClosedRowsFit
<1>5. \A i \in OpenRows(rows) : shiftStatus[rows[i].shift] # "deleted"
  <2>1. \A i \in DOMAIN rows \ {last} : rows[i].active =>
          i \in DOMAIN assignments /\ rows[i] = assignments[i]
    BY <1>0, <1>3, ClosedRowsFit
  <2> QED BY <1>1, <1>3, <2>1, OpenRowsFrom
<1>6. Len(rows) <= MaxRows
  BY <1>0, <1>1, <1>3, ShiftAssignmentsAssumption
<1> HIDE DEF rows
<1> QED BY <1>0, <1>1, <1>2, <1>3, <1>4, <1>5, <1>6, CommitKeepsInv

LEMMA EndedRow ==
  ASSUME NEW row \in Rows, NEW from
  PROVE  Ended(row, from) = [shift |-> row.shift, from |-> row.from,
                             to |-> from - 1, active |-> FALSE]
<1>1. Ended(row, from) = [row EXCEPT !.active = FALSE, !.to = from - 1]
  BY DEF Ended
<1> QED BY <1>1 DEF Rows

LEMMA UpdateWriteKeepsInv ==
  ASSUME OneAtATime, AssignInv, NEW h \in Handlers, UpdateWrite(h)
  PROVE  AssignInv'
<1>0. /\ op[h] \in Ops
      /\ assignments \in Seq(Rows) /\ Apart(assignments)
      /\ Len(assignments) <= MaxRows
      /\ Len(assignments) \in Nat
      /\ DOMAIN assignments = 1 .. Len(assignments)
      /\ \A i \in DOMAIN assignments : assignments[i] \in Rows /\ Dated(assignments[i])
      /\ shiftStatus \in [Shifts -> Statuses]
      /\ shiftOf \in Shifts \cup {NoShift}
  BY DEF AssignInv, TypeOK
<1>1. op[h] \in Plans("update") /\ op[h].pc = "write" /\ op[h].kind = "update"
  BY <1>0, OpKinds DEF UpdateWrite, Doing
<1> DEFINE id    == op[h].id
           new   == op[h].new
           seen  == op[h].seen
           split == [assignments EXCEPT ![id] = Ended(@, new.from)]
           rows  == IF SplitsHistory(seen, new) THEN Append(split, new)
                    ELSE [assignments EXCEPT ![id] = new]
           shift == IF new.active THEN new.shift ELSE shiftOf
<1>2. /\ new \in Rows /\ new.shift \in Shifts /\ new.from \in Days
      /\ Dated(new)
      /\ shiftStatus[new.shift] = "active"
      /\ id \in DOMAIN assignments /\ seen = assignments[id] /\ seen \in Rows
      /\ SplitsHistory(seen, new) => Len(assignments) < MaxRows
      /\ new.active => Clear(assignments, new, id)
  BY <1>0, <1>1 DEF AssignInv, PlansHold, Plans, Rows
<1>3. Commit(h, rows, shift, shiftStatus) /\ shift \in Shifts \cup {NoShift}
  BY <1>0, <1>2 DEF UpdateWrite
<1>4. CASE SplitsHistory(seen, new)
  <2> DEFINE c == [shift |-> seen.shift, from |-> seen.from,
                   to |-> new.from - 1, active |-> FALSE]
  <2>1. c = Ended(assignments[id], new.from)
    BY <1>2, EndedRow
  <2>2. c \in Rows /\ ~c.active /\ Dated(c)
    <3>1. new.from - 1 \in Days /\ seen.from <= new.from - 1
      BY <1>2, <1>4, ShiftAssignmentsAssumption DEF SplitsHistory, Days, Rows
    <3> QED BY <1>2, <3>1 DEF Rows, Dated
  <2> HIDE DEF c
  <2>3. split = [assignments EXCEPT ![id] = c] /\ rows = Append(split, new)
    BY <1>4, <2>1
  <2> HIDE DEF split, rows, shift
  <2>4. /\ split \in Seq(Rows) /\ Apart(split)
        /\ DOMAIN split = DOMAIN assignments /\ Len(split) = Len(assignments)
    BY <1>0, <1>2, <2>2, <2>3, ReplaceKeepsApart
  <2>5. \A i \in DOMAIN assignments : split[i] = IF i = id THEN c ELSE assignments[i]
    BY <1>0, <2>3
  <2>6. new.active => \A i \in DOMAIN split : split[i].active => Disjoint(new, split[i])
    BY <1>2, <2>2, <2>4, <2>5 DEF Clear
  <2>7. /\ rows \in Seq(Rows) /\ Apart(rows)
        /\ DOMAIN rows = DOMAIN split \cup {Len(split) + 1}
        /\ Len(rows) = Len(split) + 1
        /\ \A i \in DOMAIN split : rows[i] = split[i]
        /\ rows[Len(split) + 1] = new
    <3>1. new \in Rows
      BY <1>2
    <3>2. /\ Append(split, new) \in Seq(Rows)
          /\ DOMAIN Append(split, new) = DOMAIN split \cup {Len(split) + 1}
          /\ Len(Append(split, new)) = Len(split) + 1
          /\ \A i \in DOMAIN split : Append(split, new)[i] = split[i]
          /\ Append(split, new)[Len(split) + 1] = new
          /\ Apart(Append(split, new))
      BY <2>4, <2>6, <3>1, AppendKeepsApart
    <3> QED BY <2>3, <3>2
  <2>8. Len(rows) <= MaxRows
    BY <1>0, <1>2, <1>4, <2>4, <2>7, ShiftAssignmentsAssumption
  <2>9. \A i \in DOMAIN rows : Dated(rows[i])
    BY <1>0, <1>2, <2>2, <2>4, <2>5, <2>7
  <2>10. \A i \in OpenRows(rows) : shiftStatus[rows[i].shift] # "deleted"
    <3>1. \A i \in DOMAIN rows \ {Len(split) + 1} : rows[i].active =>
            i \in DOMAIN assignments /\ rows[i] = assignments[i]
      BY <2>2, <2>4, <2>5, <2>7
    <3> DEFINE added == Len(split) + 1
    <3>2. shiftStatus[rows[added].shift] = "active"
      BY <1>2, <2>7
    <3>3. \A i \in DOMAIN rows \ {added} : rows[i].active =>
            i \in DOMAIN assignments /\ rows[i] = assignments[i]
      BY <3>1
    <3> HIDE DEF added
    <3> QED BY <2>7, <3>2, <3>3, OpenRowsFrom
  <2> QED BY <1>0, <1>3, <2>7, <2>8, <2>9, <2>10, CommitKeepsInv
<1>5. CASE ~SplitsHistory(seen, new)
  <2>1. rows = [assignments EXCEPT ![id] = new]
    BY <1>5
  <2> HIDE DEF rows, shift
  <2>2. /\ rows \in Seq(Rows) /\ Apart(rows)
        /\ DOMAIN rows = DOMAIN assignments /\ Len(rows) = Len(assignments)
    <3>1. new \in Rows /\ id \in DOMAIN assignments /\ (new.active => Clear(assignments, new, id))
      BY <1>2
    <3>2. assignments \in Seq(Rows) /\ Apart(assignments)
      BY <1>0
    <3> HIDE DEF new, id
    <3>3. /\ [assignments EXCEPT ![id] = new] \in Seq(Rows)
          /\ Apart([assignments EXCEPT ![id] = new])
          /\ DOMAIN [assignments EXCEPT ![id] = new] = DOMAIN assignments
          /\ Len([assignments EXCEPT ![id] = new]) = Len(assignments)
      BY <3>1, <3>2, ReplaceKeepsApart
    <3> QED BY <2>1, <3>3
  <2>3. \A i \in DOMAIN assignments : rows[i] = IF i = id THEN new ELSE assignments[i]
    BY <1>0, <2>1
  <2>4. \A i \in DOMAIN rows : Dated(rows[i])
    BY <1>0, <1>2, <2>2, <2>3
  <2>5. \A i \in OpenRows(rows) : shiftStatus[rows[i].shift] # "deleted"
    <3>1. \A i \in DOMAIN rows \ {id} : rows[i].active =>
            i \in DOMAIN assignments /\ rows[i] = assignments[i]
      BY <2>2, <2>3
    <3>2. shiftStatus[rows[id].shift] = "active"
      BY <1>2, <2>3
    <3> HIDE DEF id
    <3> QED BY <2>2, <3>1, <3>2, OpenRowsFrom
  <2>6. Len(rows) <= MaxRows
    BY <1>0, <2>2
  <2> QED BY <1>0, <1>3, <2>2, <2>4, <2>5, <2>6, CommitKeepsInv
<1> QED BY <1>4, <1>5

-------------------------------------------------------------------------------
(* The theorems *)

LEMMA StepKeepsInv ==
  ASSUME OneAtATime, AssignInv, [Next]_vars
  PROVE  AssignInv'
<1>1. ASSUME NEW h \in Handlers, Step(h)
      PROVE  AssignInv'
  <2>1. CASE CreateShift(h) \/ UpdateShift(h)
    BY <2>1, CatalogueKeepsInv
  <2>2. CASE DeleteShiftRead(h) \/ DeleteShiftWrite(h)
    BY <2>2, DeleteShiftKeepsInv
  <2>3. CASE AssignRead(h) \/ UpdateRead(h)
    BY <2>3, ReadKeepsInv
  <2>4. CASE CheckOverlap(h)
    BY <2>4, CheckKeepsInv
  <2>5. CASE AssignWrite(h)
    BY <2>5, AssignWriteKeepsInv
  <2>6. CASE UpdateWrite(h)
    BY <2>6, UpdateWriteKeepsInv
  <2> QED BY <1>1, <2>1, <2>2, <2>3, <2>4, <2>5, <2>6 DEF Step
<1>2. CASE UNCHANGED vars
  BY <1>2 DEF vars, AssignInv, TypeOK, Apart, Dated, Disjoint, OpenRowHasShift,
              OpenRows, PlansHold, ChecksForesee, Clear, SplitsHistory, Last
<1> QED BY <1>1, <1>2 DEF Next

\* Rows that are apart share no day of the calendar.
LEMMA ApartShareNoDay ==
  ASSUME assignments \in Seq(Rows), Apart(assignments)
  PROVE  NoSharedDay
<1> SUFFICES ASSUME NEW i \in DOMAIN assignments, NEW j \in DOMAIN assignments,
                    i # j, assignments[i].active, assignments[j].active,
                    NEW d \in Days,
                    Covers(assignments[i], d), Covers(assignments[j], d)
             PROVE  FALSE
  BY DEF NoSharedDay
<1>1. Disjoint(assignments[i], assignments[j])
  BY DEF Apart
<1>2. /\ assignments[i].from \in Int /\ Last(assignments[i].to) \in Int
      /\ assignments[j].from \in Int /\ Last(assignments[j].to) \in Int
      /\ d \in Int
  BY LastFits DEF Days
<1> QED BY <1>1, <1>2 DEF Disjoint, Covers

\* The tables and what a request holds keep their types, and so does the bound
\* on the rows, when requests come one at a time.
THEOREM TypeCorrect == ASSUME OneAtATime PROVE Spec => []TypeOK
<1>1. AssignInv /\ [Next]_vars => AssignInv'
  BY StepKeepsInv
<1>2. AssignInv => TypeOK
  BY DEF AssignInv
<1> QED BY <1>1, <1>2, InvInit, PTL DEF Spec

\* Requests that come one at a time never assign a worker to two shifts on one
\* day: the overlap check of assignShift and updateAssignment is enough.
THEOREM DaysAreNotShared == ASSUME OneAtATime PROVE Spec => []NoSharedDay
<1>1. AssignInv /\ [Next]_vars => AssignInv'
  BY StepKeepsInv
<1>2. AssignInv => NoSharedDay
  BY ApartShareNoDay DEF AssignInv, TypeOK
<1> QED BY <1>1, <1>2, InvInit, PTL DEF Spec

\* An open assignment never names a deleted shift.
THEOREM OpenRowsHaveShifts == ASSUME OneAtATime PROVE Spec => []OpenRowHasShift
<1>1. AssignInv /\ [Next]_vars => AssignInv'
  BY StepKeepsInv
<1>2. AssignInv => OpenRowHasShift
  BY DEF AssignInv
<1> QED BY <1>1, <1>2, InvInit, PTL DEF Spec

\* What the overlap check lets through no constraint of the table refuses: only
\* the deletion of a shift can fail on one.
THEOREM ConstraintsForeseen == ASSUME OneAtATime PROVE Spec => []ChecksForesee
<1>1. AssignInv /\ [Next]_vars => AssignInv'
  BY StepKeepsInv
<1>2. AssignInv => ChecksForesee
  BY DEF AssignInv
<1> QED BY <1>1, <1>2, InvInit, PTL DEF Spec

-------------------------------------------------------------------------------
(* The past *)

\* workers.shift_id is only written with a row: the fallback of the resolution
\* is not what an assignment ends.
NoRowsNoShift == assignments = <<>> => shiftOf = NoShift

PastInv == AssignInv /\ NoRowsNoShift

LEMMA NoRowsKept ==
  ASSUME AssignInv, NoRowsNoShift, [Next]_vars
  PROVE  NoRowsNoShift'
<1>0. /\ assignments \in Seq(Rows)
      /\ DOMAIN assignments = 1 .. Len(assignments)
      /\ op \in [Handlers -> Ops]
  BY DEF AssignInv, TypeOK
<1>1. CASE UNCHANGED <<assignments, shiftOf>>
  BY <1>1 DEF NoRowsNoShift
<1>2. ASSUME NEW h \in Handlers, DeleteShiftWrite(h)
      PROVE  NoRowsNoShift'
  <2>1. op[h] \in Deletions
    BY <1>0, <1>2, OpKinds DEF DeleteShiftWrite, Doing
  <2>2. op[h].shift \in Shifts
    BY <2>1 DEF Deletions
  <2>3. /\ assignments' = DeletedRows(op[h].shift) \/ assignments' = assignments
        /\ shiftOf' = shiftOf
    BY <1>2 DEF DeleteShiftWrite, DeletedRows, Commit
  <2>4. assignments' = <<>> => assignments = <<>>
    BY <1>0, <2>2, <2>3, DeletedRowsFit DEF AssignInv
  <2> QED BY <2>3, <2>4 DEF NoRowsNoShift
<1>3. ASSUME NEW h \in Handlers, AssignWrite(h)
      PROVE  NoRowsNoShift'
  <2>1. AssignedRows(h) # <<>>
    BY <1>3, AssignedRowsFit DEF AssignWrite, AssignInv, TypeOK
  <2>2. assignments' = AssignedRows(h) \/ UNCHANGED <<assignments, shiftOf>>
    BY <1>3 DEF AssignWrite, Commit, AssignedRows, ClosedRows
  <2> QED BY <2>1, <2>2 DEF NoRowsNoShift
<1>4. ASSUME NEW h \in Handlers, UpdateWrite(h)
      PROVE  NoRowsNoShift'
  <2>1. op[h].id \in DOMAIN assignments
    BY <1>0, <1>4, OpKinds DEF UpdateWrite, Doing, AssignInv, PlansHold, Plans
  <2>2. \/ UNCHANGED <<assignments, shiftOf>>
        \/ assignments' = Append([assignments EXCEPT ![op[h].id] = Ended(@, op[h].new.from)],
                                 op[h].new)
        \/ assignments' = [assignments EXCEPT ![op[h].id] = op[h].new]
    BY <1>4 DEF UpdateWrite, Commit
  <2>3. assignments' # <<>> \/ UNCHANGED <<assignments, shiftOf>>
    <3>1. assignments # <<>>
      BY <1>0, <2>1
    <3>2. [assignments EXCEPT ![op[h].id] = op[h].new] # <<>>
      BY <1>0, <2>1
    <3>3. Append([assignments EXCEPT ![op[h].id] = Ended(@, op[h].new.from)], op[h].new) # <<>>
      OBVIOUS
    <3> QED BY <2>2, <3>2, <3>3
  <2> QED BY <2>3 DEF NoRowsNoShift
<1> QED BY <1>1, <1>2, <1>3, <1>4 DEF Next, Step, vars, CreateShift, UpdateShift,
       DeleteShiftRead, AssignRead, UpdateRead, CheckOverlap

\* A set of natural numbers that is not empty has a least one.
LEMMA LeastNat ==
  ASSUME NEW T \in SUBSET Nat, T # {}
  PROVE  \E x \in T : \A y \in T : x <= y
<1> DEFINE R == OpToRel(<, Nat)
<1>1. \A x, y \in Nat : x < y => <<x, y>> \in R
  BY DEF OpToRel
<1>2. IsWellFoundedOn(R, Nat)
  BY NatLessThanWellFounded
<1> HIDE DEF R
<1>3. PICK x \in T : \A y \in T : ~ (<<y, x>> \in R)
  BY <1>2, WFMin
<1>4. \A y \in T : ~(y < x)
  BY <1>1, <1>3
<1> QED BY <1>4

\* One that has an upper bound has a greatest.
LEMMA GreatestNat ==
  ASSUME NEW T \in SUBSET Nat, T # {}, NEW n \in Nat, \A x \in T : x <= n
  PROVE  \E x \in T : \A y \in T : y <= x
<1> DEFINE D == {n - x : x \in T}
<1>1. \A x \in T : n - x \in Nat
  OBVIOUS
<1>2. D \in SUBSET Nat /\ D # {}
  BY <1>1
<1>3. PICK d \in D : \A e \in D : d <= e
  BY <1>2, LeastNat
<1>4. PICK x \in T : d = n - x
  BY <1>3
<1>5. \A y \in T : n - x <= n - y
  BY <1>3, <1>4
<1> QED BY <1>5

\* Of the rows that count on a day one is the newest.
LEMMA NewestFound ==
  ASSUME assignments \in Seq(Rows),
         NEW ids \in SUBSET DOMAIN assignments, ids # {}
  PROVE  Newest(ids) \in ids
<1>1. /\ DOMAIN assignments = 1 .. Len(assignments) /\ Len(assignments) \in Nat
      /\ \A i \in ids : i \in Nat /\ i <= Len(assignments)
      /\ \A i \in ids : assignments[i].from \in Nat /\ assignments[i].from <= MaxDay
  BY LastFits DEF Days
<1> DEFINE froms == {assignments[i].from : i \in ids}
<1>2. PICK from \in froms : \A f \in froms : f <= from
  <2>1. froms \in SUBSET Nat /\ froms # {} /\ (\A f \in froms : f <= MaxDay) /\ MaxDay \in Nat
    BY <1>1, ShiftAssignmentsAssumption
  <2> HIDE DEF froms
  <2> QED BY <2>1, GreatestNat
<1> DEFINE last == {i \in ids : assignments[i].from = from}
<1>3. PICK i \in last : \A j \in last : j <= i
  <2>1. last \in SUBSET Nat /\ last # {} /\ \A j \in last : j <= Len(assignments)
    BY <1>1, <1>2
  <2> HIDE DEF last
  <2> QED BY <1>1, <2>1, GreatestNat
<1>4. \A j \in ids : \/ assignments[j].from < assignments[i].from
                     \/ assignments[j].from = assignments[i].from /\ j <= i
  <2> TAKE j \in ids
  <2>1. assignments[j].from \in froms /\ assignments[j].from \in Nat
    BY <1>1
  <2>2. assignments[j].from <= from /\ assignments[i].from = from /\ from \in Nat
    BY <1>1, <1>2, <1>3, <2>1
  <2>3. assignments[j].from = from => j <= i
    BY <1>3
  <2> QED BY <2>1, <2>2, <2>3
<1> QED BY <1>3, <1>4 DEF Newest

\* The schedule of the days before a new assignment is taken from the rows it
\* was taken from before.
LEMMA AssignKeepsPast ==
  ASSUME PastInv, NEW h \in Handlers, AssignWrite(h),
         NEW d \in 1 .. op[h].new.from - 1
  PROVE  ShiftOn(d)' = ShiftOn(d)
<1> DEFINE id   == op[h].id
           new  == op[h].new
           last == Len(assignments) + 1
<1>0. /\ Doing(h, "assign", "write")
      /\ assignments \in Seq(Rows) /\ Len(assignments) \in Nat
      /\ DOMAIN assignments = 1 .. Len(assignments)
      /\ \A i \in DOMAIN assignments : assignments[i] \in Rows
  BY DEF AssignWrite, PastInv, AssignInv, TypeOK
<1>1. /\ new \in Rows /\ new.from \in Days /\ d \in Int /\ d < new.from
      /\ OpenRows(assignments) = IF id = NoId THEN {} ELSE {id}
  BY <1>0, AssignPlan DEF PastInv, Days
<1>2. CASE assignments' = AssignedRows(h) /\ shiftStatus' = shiftStatus
  <2>1. /\ DOMAIN assignments' = DOMAIN assignments \cup {last}
        /\ assignments'[last] = new
        /\ \A i \in DOMAIN assignments :
             /\ i # id => assignments'[i] = assignments[i]
             /\ i = id => assignments'[i] = ClosedBy(assignments[i], new.from)
    <3>1. /\ DOMAIN AssignedRows(h) = DOMAIN assignments \cup {last}
          /\ AssignedRows(h)[last] = new
          /\ \A i \in DOMAIN assignments : AssignedRows(h)[i] = ClosedRows(h)[i]
      BY <1>0, AssignedRowsFit DEF PastInv
    <3>2. \A i \in DOMAIN assignments :
            /\ i # id => ClosedRows(h)[i] = assignments[i]
            /\ i = id => ClosedRows(h)[i] = ClosedBy(assignments[i], new.from)
      BY <1>0, ClosedRowsFit DEF PastInv
    <3> QED BY <1>2, <3>1, <3>2
  <2>2. \A i \in DOMAIN assignments :
          /\ assignments'[i].from = assignments[i].from
          /\ assignments'[i].shift = assignments[i].shift
    <3> TAKE i \in DOMAIN assignments
    <3>1. assignments[i] \in Rows
      BY <1>0
    <3>2. assignments'[i] = assignments[i] \/ assignments'[i] = ClosedBy(assignments[i], new.from)
      BY <2>1
    <3>3. /\ ClosedBy(assignments[i], new.from).from = assignments[i].from
          /\ ClosedBy(assignments[i], new.from).shift = assignments[i].shift
      BY <3>1 DEF ClosedBy, Ended, Rows
    <3> QED BY <3>2, <3>3
  <2> DEFINE force == {i \in DOMAIN assignments' :
                       /\ Covers(assignments'[i], d)
                       /\ assignments'[i].active \/ assignments'[i].to # NoDate
                       /\ shiftStatus'[assignments'[i].shift] = "active"}
  <2>3. InForce(d)' = force
    BY DEF InForce, Covers, Last
  <2>4. ~Covers(new, d)
    BY <1>1 DEF Covers, Days
  <2>5. \A i \in DOMAIN assignments : i \in force <=> i \in InForce(d)
    <3> TAKE i \in DOMAIN assignments
    <3>1. CASE i # id
      BY <1>2, <2>1, <3>1 DEF InForce
    <3>2. CASE i = id
      <4>1. assignments[i].active /\ assignments[i].from \in Days /\ assignments[i] \in Rows
            /\ assignments[i].to = NoDate
        BY <1>0, <1>1, <3>2 DEF OpenRows, Rows, NoId
      <4>2. CASE assignments[i].from < new.from
        <5>1. assignments'[i] = Ended(assignments[i], new.from)
          BY <2>1, <3>2, <4>2 DEF ClosedBy
        <5>2. /\ assignments'[i].from = assignments[i].from
              /\ assignments'[i].shift = assignments[i].shift
              /\ assignments'[i].to = new.from - 1
          BY <4>1, <5>1, EndedRow
        <5>3. Covers(assignments'[i], d) <=> Covers(assignments[i], d)
          BY <1>1, <4>1, <4>2, <5>2, ShiftAssignmentsAssumption DEF Covers, Last, NoDate, Days
        <5>4. assignments'[i].to # NoDate
          BY <1>1, <4>1, <4>2, <5>2 DEF NoDate, Days
        <5> QED BY <1>2, <2>1, <4>1, <5>2, <5>3, <5>4 DEF InForce
      <4>3. CASE ~(assignments[i].from < new.from)
        <5>1. assignments'[i].from = assignments[i].from
          BY <2>2
        <5>2. ~Covers(assignments'[i], d) /\ ~Covers(assignments[i], d)
          BY <1>1, <4>1, <4>3, <5>1 DEF Covers, Days
        <5> QED BY <5>2 DEF InForce
      <4> QED BY <4>2, <4>3
    <3> QED BY <3>1, <3>2
  <2>6. force = InForce(d)
    BY <2>1, <2>4, <2>5 DEF InForce
  <2> HIDE DEF force
  <2>7. \A i \in InForce(d) : /\ assignments'[i].from = assignments[i].from
                              /\ assignments'[i].shift = assignments[i].shift
    BY <2>2 DEF InForce
  <2> DEFINE newest == CHOOSE i \in InForce(d) : \A j \in InForce(d) :
                         \/ assignments'[j].from < assignments'[i].from
                         \/ assignments'[j].from = assignments'[i].from /\ j <= i
  <2>8. newest = Newest(InForce(d))
    BY <2>7 DEF Newest
  <2> HIDE DEF newest
  <2>9. ShiftOn(d)' = IF force # {} THEN assignments'[newest].shift ELSE NoShift
    <3>1. assignments' # <<>>
      BY <1>0, <1>2, AssignedRowsFit DEF PastInv
    <3>2. InForce(d)' # {} => Newest(InForce(d))' = newest
      BY <2>3, <2>6 DEF Newest, newest
    <3> QED BY <2>3, <3>1, <3>2 DEF ShiftOn
  <2>10. InForce(d) # {} => newest \in InForce(d)
    BY <1>0, <2>8, NewestFound DEF InForce
  <2>11. ShiftOn(d) = IF InForce(d) # {} THEN assignments[newest].shift ELSE NoShift
    BY <2>8 DEF ShiftOn, PastInv, NoRowsNoShift
  <2> QED BY <2>6, <2>7, <2>9, <2>10, <2>11
<1>3. CASE UNCHANGED <<assignments, shiftOf, shiftStatus>>
  BY <1>3 DEF ShiftOn, InForce, Newest, Covers, Last
<1> QED BY <1>2, <1>3 DEF AssignWrite, Commit, AssignedRows, ClosedRows

\* A new assignment changes the schedule of no day before its first.
THEOREM AssignmentsKeepPast == ASSUME OneAtATime PROVE Spec => PastKept
<1>1. Init => PastInv
  BY InvInit DEF PastInv, NoRowsNoShift, Init
<1>2. PastInv /\ [Next]_vars => PastInv'
  BY StepKeepsInv, NoRowsKept DEF PastInv
<1>3. PastInv /\ [Next]_vars =>
        [\A h \in Handlers : AssignWrite(h) =>
           \A d \in 1 .. op[h].new.from - 1 : ShiftOn(d)' = ShiftOn(d)]_vars
  BY AssignKeepsPast
<1> QED BY <1>1, <1>2, <1>3, PTL DEF Spec, PastKept
===============================================================================
