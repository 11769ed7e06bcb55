---------------------------- MODULE RequestsProofs ----------------------------
(* Proofs about Requests, for every value of its constants. *)
EXTENDS Requests, FiniteSetTheorems, WellFoundedInduction, TLAPS

\* A handler that is to write a row holds the id of a row that exists.
HeldRowsExist == \A h \in Handlers : op[h].pc \in Writers => Exists(op[h].id)

\* The dates of a request being created have been put in order.
CreationsOrdered ==
  \A h \in Handlers :
    op[h].pc \in {"assess", "overlap", "insert"} => op[h].start <= op[h].end

\* TypeOK alone is not inductive: a write could turn NoRow into no row at all,
\* and days_requested of an inverted period would not be a number of days.
TypeInv == TypeOK /\ HeldRowsExist /\ CreationsOrdered

-------------------------------------------------------------------------------
(* What a handler holds, by the query it is about to make *)

LEMMA OpKinds ==
  ASSUME NEW o \in Ops
  PROVE  /\ o.pc \in {"assess", "overlap", "insert"} => o \in CreateOps
         /\ o.pc = "review" => o \in ReviewOps
         /\ o.pc = "cancel" => o \in CancelOps
         /\ o.pc = "resubmit" => o \in ResubmitOps
         /\ o.pc \in {"recheck", "update"} => o \in UpdateOps
         /\ o.pc \in {"notifyStaff", "notifyWorker"} => o \in NotifyOps
  BY DEF Ops, Idle, CreateOps, ReviewOps, CancelOps, ResubmitOps, UpdateOps, NotifyOps

\* One handler moves on to next, and rows change without disappearing.
LEMMA HandlerMoves ==
  ASSUME TypeInv,
         NEW h \in Handlers, NEW next \in Ops, Continue(h, next),
         requests' \in [Ids -> Rows \cup {NoRow}],
         \A id \in Ids : Exists(id) => Exists(id)',
         next.pc \in Writers => Exists(next.id)',
         next.pc \in {"assess", "overlap", "insert"} => next.start <= next.end
  PROVE  op' \in [Handlers -> Ops] /\ HeldRowsExist' /\ CreationsOrdered'
<1>1. op \in [Handlers -> Ops]
  BY DEF TypeInv, TypeOK
<1>2. op' \in [Handlers -> Ops]
  BY <1>1 DEF Continue
<1>3. \A g \in Handlers : op'[g] = IF g = h THEN next ELSE op[g]
  BY <1>1 DEF Continue
<1>4. ASSUME NEW g \in Handlers, op[g].pc \in Writers
      PROVE  op[g].id \in Ids
  <2>1. op[g] \in Ops /\ op[g].pc \in {"review", "cancel", "resubmit", "recheck", "update"}
    BY <1>1, <1>4 DEF Writers
  <2>2. op[g] \in ReviewOps \cup CancelOps \cup ResubmitOps \cup UpdateOps
    BY <2>1, OpKinds
  <2> QED BY <2>2 DEF ReviewOps, CancelOps, ResubmitOps, UpdateOps
<1>5. HeldRowsExist'
  BY <1>3, <1>4 DEF HeldRowsExist, TypeInv
<1>6. CreationsOrdered'
  BY <1>3 DEF CreationsOrdered, TypeInv
<1> QED BY <1>2, <1>5, <1>6

-------------------------------------------------------------------------------
(* Type correctness *)

LEMMA IdleIsOp == Idle \in Ops /\ Idle.pc \notin Writers \cup {"assess", "overlap", "insert"}
  BY DEF Ops, Idle, Writers

LEMMA TypeInit == Init => TypeInv
  BY RequestsAssumption, IdleIsOp DEF Init, TypeInv, TypeOK, HeldRowsExist, CreationsOrdered

LEMMA TypeNext == TypeInv /\ [Next]_vars => TypeInv'
<1> SUFFICES ASSUME TypeInv, [Next]_vars
             PROVE  TypeInv'
  OBVIOUS
<1> USE RequestsAssumption
<1>1. CASE UNCHANGED vars
  BY <1>1 DEF vars, TypeInv, TypeOK, HeldRowsExist, CreationsOrdered, Exists
<1>2. CASE Next
  <2>1. PICK h \in Handlers : Call(h) \/ Step(h) \/ Fail(h)
    BY <1>2 DEF Next
  <2>2. /\ requests \in [Ids -> Rows \cup {NoRow}]
        /\ op \in [Handlers -> Ops]
        /\ op[h] \in Ops
        /\ workerInbox \in [Ids -> Notices \cup {"none"}]
        /\ hrInbox \in [Ids -> StaffNotices \cup {"none"}]
        /\ failures \in 0 .. MaxFailures
    BY DEF TypeInv, TypeOK
  <2>3. /\ op[h].pc \in Writers => Exists(op[h].id)
        /\ op[h].pc \in {"assess", "overlap", "insert"} => op[h].start <= op[h].end
    BY DEF TypeInv, HeldRowsExist, CreationsOrdered
  \* A step that leaves the rows alone: only what the handler holds matters.
  <2>4. ASSUME NEW next \in Ops, Continue(h, next), UNCHANGED requests, Silent,
               next.pc \in Writers => Exists(next.id),
               next.pc \in {"assess", "overlap", "insert"} => next.start <= next.end
        PROVE  TypeInv'
    <3>1. op' \in [Handlers -> Ops] /\ HeldRowsExist' /\ CreationsOrdered'
      BY <2>2, <2>4, HandlerMoves DEF Exists
    <3> QED BY <2>2, <2>4, <3>1 DEF TypeInv, TypeOK, Silent
  \* A step that writes the row of one id.
  <2>5. ASSUME NEW next \in Ops, Continue(h, next), Silent,
               NEW id \in Ids, NEW row \in Rows, requests' = [requests EXCEPT ![id] = row],
               next.pc \notin Writers \cup {"assess", "overlap", "insert"}
        PROVE  TypeInv'
    <3>1. \A i \in Ids : Exists(i) => Exists(i)'
      BY <2>2, <2>5 DEF Exists
    <3>2. requests' \in [Ids -> Rows \cup {NoRow}]
      BY <2>2, <2>5
    <3>3. op' \in [Handlers -> Ops] /\ HeldRowsExist' /\ CreationsOrdered'
      BY <2>5, <3>1, <3>2, HandlerMoves
    <3> QED BY <2>2, <2>5, <3>2, <3>3 DEF TypeInv, TypeOK, Silent
  <2>6. CASE CreateStart(h)
    <3>1. PICK w \in Workers, t \in Types, s, e \in Days :
            /\ e >= s
            /\ Continue(h, [pc |-> IF t \in VacationTypes THEN "assess" ELSE "overlap",
                            worker |-> w, type |-> t, start |-> s, end |-> e,
                            override |-> FALSE])
      BY <2>6 DEF CreateStart
    <3> DEFINE next == [pc |-> IF t \in VacationTypes THEN "assess" ELSE "overlap",
                        worker |-> w, type |-> t, start |-> s, end |-> e,
                        override |-> FALSE]
    <3>2. next \in Ops /\ next.pc \notin Writers /\ next.start <= next.end
      BY <3>1 DEF Ops, CreateOps, Writers, Days
    <3> QED BY <2>4, <2>6, <3>1, <3>2 DEF CreateStart
  <2>7. CASE CreateAssess(h)
    <3> DEFINE next == [op[h] EXCEPT
          !.pc = "overlap",
          !.override = IF DaysFrom(op[h].start, op[h].end) > AvailableDays(op[h].worker)
                       THEN TRUE ELSE FALSE]
    <3>1. op[h] \in CreateOps
      BY <2>2, <2>7, OpKinds DEF CreateAssess
    <3>2. next \in CreateOps /\ next.start = op[h].start /\ next.end = op[h].end /\ next.pc = "overlap"
      BY <3>1 DEF CreateOps
    <3>3. next \in Ops /\ next.pc \notin Writers
      BY <3>2 DEF Ops, Writers
    <3>4. op[h].start <= op[h].end
      BY <2>3, <2>7 DEF CreateAssess
    <3> QED BY <2>4, <2>7, <3>2, <3>3, <3>4 DEF CreateAssess
  <2>8. CASE CreateOverlap(h)
    <3> DEFINE next == [op[h] EXCEPT !.pc = "insert"]
    <3>1. op[h] \in CreateOps
      BY <2>2, <2>8, OpKinds DEF CreateOverlap
    <3>2. next \in CreateOps /\ next.start = op[h].start /\ next.end = op[h].end /\ next.pc = "insert"
      BY <3>1 DEF CreateOps
    <3>3. next \in Ops /\ next.pc \notin Writers /\ next.start <= next.end
      BY <2>3, <2>8, <3>2 DEF Ops, Writers, CreateOverlap
    <3>4. CASE Continue(h, next)
      BY <2>4, <2>8, <3>3, <3>4 DEF CreateOverlap
    <3>5. CASE Continue(h, Idle)
      BY <2>4, <2>8, <3>5, IdleIsOp DEF CreateOverlap
    <3> QED BY <2>8, <3>4, <3>5 DEF CreateOverlap, Finish
  <2>9. CASE CreateInsert(h)
    <3>1. op[h] \in CreateOps /\ op[h].start <= op[h].end
      BY <2>2, <2>3, <2>9, OpKinds DEF CreateInsert
    <3> DEFINE row == [worker |-> op[h].worker, type |-> op[h].type,
                       start |-> op[h].start, end |-> op[h].end,
                       days |-> DaysFrom(op[h].start, op[h].end),
                       status |-> "pending", override |-> op[h].override]
    <3>2. DaysFrom(op[h].start, op[h].end) \in Days
      BY <3>1 DEF CreateOps, DaysFrom, Days
    <3>3. row \in Rows
      BY <3>1, <3>2 DEF CreateOps, Rows, Statuses
    <3>4. PICK id \in Ids :
            /\ requests' = [requests EXCEPT ![id] = row]
            /\ Continue(h, [pc |-> "notifyStaff", id |-> id, notice |-> "created"])
      BY <2>9 DEF CreateInsert
    <3> DEFINE next == [pc |-> "notifyStaff", id |-> id, notice |-> "created"]
    <3>5. next \in Ops /\ next.pc \notin Writers \cup {"assess", "overlap", "insert"}
      BY DEF Ops, NotifyOps, StaffNotices, Writers
    <3> HIDE DEF row, next
    <3>6. Silent
      BY <2>9 DEF CreateInsert
    <3> QED BY <2>5, <3>3, <3>4, <3>5, <3>6 DEF next
  <2>10. CASE ReviewRead(h)
    <3>1. PICK id \in Ids, d \in Decisions :
            Exists(id) /\ Continue(h, [pc |-> "review", id |-> id, decision |-> d])
      BY <2>10 DEF ReviewRead
    <3> DEFINE next == [pc |-> "review", id |-> id, decision |-> d]
    <3>2. next \in Ops /\ next.pc \notin {"assess", "overlap", "insert"} /\ Exists(next.id)
      BY <3>1 DEF Ops, ReviewOps
    <3> QED BY <2>4, <2>10, <3>1, <3>2 DEF ReviewRead
  <2>11. CASE CancelRead(h)
    <3>1. PICK id \in Ids : Exists(id) /\ Continue(h, [pc |-> "cancel", id |-> id])
      BY <2>11 DEF CancelRead
    <3> DEFINE next == [pc |-> "cancel", id |-> id]
    <3>2. next \in Ops /\ next.pc \notin {"assess", "overlap", "insert"} /\ Exists(next.id)
      BY <3>1 DEF Ops, CancelOps
    <3> QED BY <2>4, <2>11, <3>1, <3>2 DEF CancelRead
  <2>12. CASE ResubmitRead(h)
    <3>1. PICK id \in Ids, s, e \in ResubmitDays :
            Exists(id) /\ Continue(h, [pc |-> "resubmit", id |-> id, start |-> s, end |-> e])
      BY <2>12 DEF ResubmitRead
    <3> DEFINE next == [pc |-> "resubmit", id |-> id, start |-> s, end |-> e]
    <3>2. next \in Ops /\ next.pc \notin {"assess", "overlap", "insert"} /\ Exists(next.id)
      BY <3>1 DEF Ops, ResubmitOps
    <3> QED BY <2>4, <2>12, <3>1, <3>2 DEF ResubmitRead
  <2>13. CASE UpdateRead(h)
    <3>1. PICK id \in Ids, s, e \in EditDays, t \in EditTypes :
            /\ Exists(id)
            /\ LET row == requests[id]
                   dated == s # NoDate \/ e # NoDate
                   start == COALESCE(s, row.start, NoDate)
                   end   == COALESCE(e, row.end, NoDate)
               IN  /\ dated => end >= start
                   /\ Continue(h, [pc |-> IF dated THEN "recheck" ELSE "update",
                                   id |-> id, worker |-> row.worker, type |-> t,
                                   start |-> start, end |-> end,
                                   days |-> IF dated THEN DaysFrom(start, end)
                                                     ELSE row.days])
      BY <2>13 DEF UpdateRead
    <3> DEFINE row == requests[id]
               dated == s # NoDate \/ e # NoDate
               start == COALESCE(s, row.start, NoDate)
               end   == COALESCE(e, row.end, NoDate)
               next  == [pc |-> IF dated THEN "recheck" ELSE "update",
                         id |-> id, worker |-> row.worker, type |-> t,
                         start |-> start, end |-> end,
                         days |-> IF dated THEN DaysFrom(start, end) ELSE row.days]
    <3>2. row \in Rows
      BY <2>2, <3>1 DEF Exists
    <3>3. start \in Days /\ end \in Days
      BY <3>2 DEF COALESCE, Rows
    <3>4. (IF dated THEN DaysFrom(start, end) ELSE row.days) \in Days
      <4>1. CASE dated
        BY <3>1, <3>3, <4>1 DEF DaysFrom, Days
      <4>2. CASE ~dated
        BY <3>2, <4>2 DEF Rows
      <4> QED BY <4>1, <4>2
    <3>5. row.worker \in Workers
      BY <3>2 DEF Rows
    <3>6. next \in UpdateOps
      <4> HIDE DEF row, start, end, dated
      <4> QED BY <3>3, <3>4, <3>5 DEF UpdateOps
    <3>7. /\ next \in Ops
          /\ next.pc \notin {"assess", "overlap", "insert"}
          /\ Exists(next.id)
      BY <3>1, <3>6 DEF Ops
    <3>8. Continue(h, next)
      BY <3>1
    <3> HIDE DEF next
    <3> QED BY <2>4, <2>13, <3>7, <3>8 DEF UpdateRead
  <2>14. CASE UpdateOverlap(h)
    <3> DEFINE next == [op[h] EXCEPT !.pc = "update"]
    <3>1. op[h] \in UpdateOps /\ Exists(op[h].id)
      BY <2>2, <2>3, <2>14, OpKinds DEF UpdateOverlap, Writers
    <3>2. next \in UpdateOps /\ next.id = op[h].id /\ next.pc = "update"
      BY <3>1 DEF UpdateOps
    <3>3. next \in Ops /\ Exists(next.id)
      BY <3>1, <3>2 DEF Ops
    <3>4. CASE Continue(h, next)
      BY <2>4, <2>14, <3>2, <3>3, <3>4 DEF UpdateOverlap
    <3>5. CASE Continue(h, Idle)
      BY <2>4, <2>14, <3>5, IdleIsOp DEF UpdateOverlap
    <3> QED BY <2>14, <3>4, <3>5 DEF UpdateOverlap, Finish
  <2>15. CASE ReviewWrite(h)
    <3>1. op[h] \in ReviewOps /\ Exists(op[h].id)
      BY <2>2, <2>3, <2>15, OpKinds DEF ReviewWrite, Writers
    <3> DEFINE id == op[h].id
               row == [requests[id] EXCEPT !.status = op[h].decision]
               next == [pc |-> "notifyWorker", id |-> id, notice |-> op[h].decision]
    <3>2. id \in Ids /\ op[h].decision \in Decisions /\ requests[id] \in Rows
      BY <2>2, <3>1 DEF ReviewOps, Exists
    <3>3. row \in Rows
      BY <3>2 DEF Rows, Statuses
    <3>4. next \in Ops /\ next.pc \notin Writers \cup {"assess", "overlap", "insert"}
      BY <3>2 DEF Ops, NotifyOps, Notices, Writers
    <3>5. requests' = [requests EXCEPT ![id] = row] /\ Continue(h, next) /\ Silent
      BY <2>15 DEF ReviewWrite
    <3> HIDE DEF id, row, next
    <3> QED BY <2>5, <3>2, <3>3, <3>4, <3>5
  <2>16. CASE CancelWrite(h)
    <3>1. op[h] \in CancelOps /\ Exists(op[h].id)
      BY <2>2, <2>3, <2>16, OpKinds DEF CancelWrite, Writers
    <3> DEFINE id == op[h].id
               row == [requests[id] EXCEPT !.status = "cancelled"]
               next == [pc |-> "notifyWorker", id |-> id, notice |-> "cancelled"]
    <3>2. id \in Ids /\ requests[id] \in Rows
      BY <2>2, <3>1 DEF CancelOps, Exists
    <3>3. row \in Rows
      BY <3>2 DEF Rows, Statuses
    <3>4. next \in Ops /\ next.pc \notin Writers \cup {"assess", "overlap", "insert"}
      BY <3>2 DEF Ops, NotifyOps, Notices, Writers
    <3>5. requests' = [requests EXCEPT ![id] = row] /\ Continue(h, next) /\ Silent
      BY <2>16 DEF CancelWrite
    <3> HIDE DEF id, row, next
    <3> QED BY <2>5, <3>2, <3>3, <3>4, <3>5
  <2>17. CASE ResubmitWrite(h)
    <3>1. op[h] \in ResubmitOps /\ Exists(op[h].id)
      BY <2>2, <2>3, <2>17, OpKinds DEF ResubmitWrite, Writers
    <3> DEFINE id == op[h].id
               row == [requests[id] EXCEPT
                         !.status = "pending",
                         !.start = COALESCE(op[h].start, @, NoDate),
                         !.end = COALESCE(op[h].end, @, NoDate)]
               next == [pc |-> "notifyStaff", id |-> id, notice |-> "resubmitted"]
    <3>2. /\ id \in Ids /\ requests[id] \in Rows
          /\ op[h].start \in Days \cup {NoDate} /\ op[h].end \in Days \cup {NoDate}
      BY <2>2, <3>1 DEF ResubmitOps, Exists
    <3>3. row \in Rows
      BY <3>2 DEF Rows, Statuses, COALESCE
    <3>4. next \in Ops /\ next.pc \notin Writers \cup {"assess", "overlap", "insert"}
      BY <3>2 DEF Ops, NotifyOps, StaffNotices, Writers
    <3>5. requests' = [requests EXCEPT ![id] = row] /\ Continue(h, next) /\ Silent
      BY <2>2, <2>17, <3>2 DEF ResubmitWrite, Rows
    <3> HIDE DEF id, row, next
    <3> QED BY <2>5, <3>2, <3>3, <3>4, <3>5
  <2>18. CASE UpdateWrite(h)
    <3>1. op[h] \in UpdateOps /\ Exists(op[h].id)
      BY <2>2, <2>3, <2>18, OpKinds DEF UpdateWrite, Writers
    <3> DEFINE id == op[h].id
               row == [requests[id] EXCEPT
                         !.start = op[h].start, !.end = op[h].end, !.days = op[h].days,
                         !.type = COALESCE(op[h].type, @, NoType)]
    <3>2. /\ id \in Ids /\ requests[id] \in Rows
          /\ op[h].start \in Days /\ op[h].end \in Days /\ op[h].days \in Days
          /\ op[h].type \in Types \cup {NoType}
      BY <2>2, <3>1 DEF UpdateOps, Exists
    <3>3. row \in Rows
      BY <3>2 DEF Rows, COALESCE
    <3>4. requests' = [requests EXCEPT ![id] = row] /\ Continue(h, Idle) /\ Silent
      BY <2>2, <2>18, <3>2 DEF UpdateWrite, Finish, Rows
    <3> HIDE DEF id, row
    <3> QED BY <2>5, <3>2, <3>3, <3>4, IdleIsOp
  <2>19. ASSUME Finish(h), UNCHANGED requests
         PROVE  op' \in [Handlers -> Ops] /\ HeldRowsExist' /\ CreationsOrdered'
    BY <2>2, <2>19, IdleIsOp, HandlerMoves DEF Finish, Exists
  <2>20. CASE NotifyStaff(h)
    <3>1. op[h] \in NotifyOps /\ op[h].pc = "notifyStaff"
      BY <2>2, <2>20, OpKinds DEF NotifyStaff
    <3>2. op[h].id \in Ids /\ op[h].notice \in StaffNotices
      BY <3>1 DEF NotifyOps
    <3> QED BY <2>2, <2>19, <2>20, <3>2 DEF NotifyStaff, TypeInv, TypeOK
  <2>21. CASE NotifyWorker(h)
    <3>1. op[h] \in NotifyOps /\ op[h].pc = "notifyWorker"
      BY <2>2, <2>21, OpKinds DEF NotifyWorker
    <3>2. op[h].id \in Ids /\ op[h].notice \in Notices
      BY <3>1 DEF NotifyOps
    <3> QED BY <2>2, <2>19, <2>21, <3>2 DEF NotifyWorker, TypeInv, TypeOK
  <2>22. CASE Fail(h)
    BY <2>2, <2>19, <2>22 DEF Fail, TypeInv, TypeOK
  <2> QED BY <2>1, <2>6, <2>7, <2>8, <2>9, <2>10, <2>11, <2>12, <2>13, <2>14, <2>15,
             <2>16, <2>17, <2>18, <2>20, <2>21, <2>22 DEF Call, Step
<1> QED BY <1>1, <1>2

\* Type correctness: whatever handlers interleave and fail, the tables and what
\* each handler holds keep their types.
THEOREM TypeCorrect == Spec => []TypeOK
<1>1. Spec => []TypeInv
  BY TypeInit, TypeNext, PTL DEF Spec
<1>2. TypeInv => TypeOK
  BY DEF TypeInv
<1> QED BY <1>1, <1>2, PTL

-------------------------------------------------------------------------------
(* A settled request stays settled *)

\* What a step does to a row that no handler holds for writing: nothing, unless
\* the row is created.
LEMMA UnheldRowUnchanged ==
  ASSUME TypeInv, [Next]_vars, NEW id \in Ids, Exists(id),
         \A h \in Handlers : op[h].pc \in Writers => op[h].id # id
  PROVE  requests'[id] = requests[id]
<1>1. requests \in [Ids -> Rows \cup {NoRow}]
  BY DEF TypeInv, TypeOK
<1>2. CASE UNCHANGED vars
  BY <1>2 DEF vars
<1>3. CASE Next
  <2>1. PICK h \in Handlers : Call(h) \/ Step(h) \/ Fail(h)
    BY <1>3 DEF Next
  <2>2. CASE UNCHANGED requests
    BY <2>2
  <2>3. CASE CreateInsert(h)
    BY <1>1, <2>3 DEF CreateInsert
  <2>4. CASE ReviewWrite(h)
    BY <1>1, <2>4 DEF ReviewWrite, Writers
  <2>5. CASE CancelWrite(h)
    BY <1>1, <2>5 DEF CancelWrite, Writers
  <2>6. CASE ResubmitWrite(h)
    BY <1>1, <2>6 DEF ResubmitWrite, Writers
  <2>7. CASE UpdateWrite(h)
    BY <1>1, <2>7 DEF UpdateWrite, Writers
  <2> QED BY <2>1, <2>2, <2>3, <2>4, <2>5, <2>6, <2>7
             DEF Call, Step, Fail, CreateStart, ReviewRead, CancelRead, ResubmitRead,
                 UpdateRead, CreateAssess, CreateOverlap, UpdateOverlap,
                 NotifyStaff, NotifyWorker
<1> QED BY <1>2, <1>3

\* No step makes a handler a writer of a request whose status is final.
LEMMA FinalRowNotTaken ==
  ASSUME TypeInv, [Next]_vars, NEW id \in Ids, Settled(id)
  PROVE  \A g \in Handlers : op'[g].pc \in Writers => op'[g].id # id
<1> SUFFICES ASSUME NEW g \in Handlers, op'[g].pc \in Writers, op'[g].id = id
             PROVE  FALSE
  OBVIOUS
<1>1. op \in [Handlers -> Ops]
  BY DEF TypeInv, TypeOK
<1>2. CASE op'[g] = op[g]
  BY <1>2 DEF Settled
<1>3. CASE op'[g] # op[g]
  <2>1. PICK h \in Handlers : Call(h) \/ Step(h) \/ Fail(h)
    BY <1>3 DEF Next, vars
  <2> USE DEF Continue, Finish
  <2>2. \A n : op' = [op EXCEPT ![h] = n] => op'[g] = n
    BY <1>1, <1>3
  <2>3. requests[id].status \notin {"pending", "observed"}
    BY DEF Settled, Lifecycle!Final
  <2>4. op' # [op EXCEPT ![h] = Idle]
    BY <2>2, IdleIsOp
  <2>5. CASE ReviewRead(h)
    <3>1. PICK i \in Ids, d \in Decisions :
            /\ requests[i].status \in {"pending", "observed"}
            /\ op' = [op EXCEPT ![h] = [pc |-> "review", id |-> i, decision |-> d]]
      BY <2>5 DEF ReviewRead
    <3>2. op'[g] = [pc |-> "review", id |-> i, decision |-> d]
      BY <1>1, <1>3, <3>1
    <3> QED BY <2>3, <3>1, <3>2
  <2>6. CASE CancelRead(h)
    <3>1. PICK i \in Ids :
            /\ requests[i].status = "pending"
            /\ op' = [op EXCEPT ![h] = [pc |-> "cancel", id |-> i]]
      BY <2>6 DEF CancelRead
    <3>2. op'[g] = [pc |-> "cancel", id |-> i]
      BY <1>1, <1>3, <3>1
    <3> QED BY <2>3, <3>1, <3>2
  <2>7. CASE ResubmitRead(h)
    <3>1. PICK i \in Ids, s, e \in ResubmitDays :
            /\ requests[i].status = "observed"
            /\ op' = [op EXCEPT ![h] = [pc |-> "resubmit", id |-> i, start |-> s, end |-> e]]
      BY <2>7 DEF ResubmitRead
    <3>2. op'[g] = [pc |-> "resubmit", id |-> i, start |-> s, end |-> e]
      BY <1>1, <1>3, <3>1
    <3> QED BY <2>3, <3>1, <3>2
  <2>8. CASE UpdateRead(h)
    <3>1. PICK i \in Ids, s, e \in EditDays, t \in EditTypes :
            /\ Exists(i)
            /\ requests[i].status \in {"pending", "observed"}
            /\ LET row == requests[i]
                   dated == s # NoDate \/ e # NoDate
                   start == COALESCE(s, row.start, NoDate)
                   end   == COALESCE(e, row.end, NoDate)
               IN  /\ dated => end >= start
                   /\ Continue(h, [pc |-> IF dated THEN "recheck" ELSE "update",
                                   id |-> i, worker |-> row.worker, type |-> t,
                                   start |-> start, end |-> end,
                                   days |-> IF dated THEN DaysFrom(start, end)
                                                     ELSE row.days])
      BY <2>8 DEF UpdateRead
    <3> DEFINE dated == s # NoDate \/ e # NoDate
               start == COALESCE(s, requests[i].start, NoDate)
               end   == COALESCE(e, requests[i].end, NoDate)
               pc    == IF dated THEN "recheck" ELSE "update"
               days  == IF dated THEN DaysFrom(start, end) ELSE requests[i].days
    <3>2. /\ requests[i].status \in {"pending", "observed"}
          /\ op' = [op EXCEPT ![h] =
               [pc |-> pc, id |-> i, worker |-> requests[i].worker, type |-> t,
                start |-> start, end |-> end, days |-> days]]
      BY <3>1 DEF Continue
    <3> HIDE DEF dated, start, end, pc, days
    <3>3. op'[g].id = i
      BY <1>1, <1>3, <3>2
    <3> QED BY <2>3, <3>2, <3>3
  <2>9. CASE UpdateOverlap(h)
    <3>1. op[h] \in UpdateOps /\ op[h].id # id
      BY <1>1, <2>9, OpKinds DEF UpdateOverlap, Settled, Writers
    <3>2. op' = [op EXCEPT ![h] = [op[h] EXCEPT !.pc = "update"]]
      BY <2>4, <2>9 DEF UpdateOverlap
    <3>3. op'[g] = [op[h] EXCEPT !.pc = "update"]
      BY <1>1, <1>3, <3>2
    <3> QED BY <3>1, <3>3 DEF UpdateOps
  <2>10. CASE CreateStart(h)
    <3>1. PICK w \in Workers, t \in Types, s, e \in Days :
            op' = [op EXCEPT ![h] =
              [pc |-> IF t \in VacationTypes THEN "assess" ELSE "overlap",
               worker |-> w, type |-> t, start |-> s, end |-> e, override |-> FALSE]]
      BY <2>10 DEF CreateStart
    <3>2. op'[g].pc \in {"assess", "overlap"}
      BY <1>1, <1>3, <3>1
    <3> QED BY <3>2 DEF Writers
  <2>11. CASE CreateAssess(h)
    <3>1. op[h] \in CreateOps
      BY <1>1, <2>11, OpKinds DEF CreateAssess
    <3> DEFINE flag == IF DaysFrom(op[h].start, op[h].end) > AvailableDays(op[h].worker)
                       THEN TRUE ELSE FALSE
               next == [op[h] EXCEPT !.pc = "overlap", !.override = flag]
    <3>2. next.pc = "overlap"
      BY <3>1 DEF CreateOps
    <3>3. op' = [op EXCEPT ![h] = next]
      BY <2>11 DEF CreateAssess
    <3> HIDE DEF next
    <3>4. op'[g] = next
      BY <1>1, <1>3, <3>3
    <3> QED BY <3>2, <3>4 DEF Writers
  <2>12. CASE CreateOverlap(h)
    <3>1. op[h] \in CreateOps
      BY <1>1, <2>12, OpKinds DEF CreateOverlap
    <3>2. op' = [op EXCEPT ![h] = [op[h] EXCEPT !.pc = "insert"]]
      BY <2>4, <2>12 DEF CreateOverlap
    <3>3. op'[g] = [op[h] EXCEPT !.pc = "insert"]
      BY <1>1, <1>3, <3>2
    <3> QED BY <3>1, <3>3 DEF Writers, CreateOps
  <2>13. CASE CreateInsert(h)
    BY <1>1, <1>3, <2>13 DEF CreateInsert, Writers
  <2>14. CASE ReviewWrite(h)
    BY <1>1, <1>3, <2>14 DEF ReviewWrite, Writers
  <2>15. CASE CancelWrite(h)
    BY <1>1, <1>3, <2>15 DEF CancelWrite, Writers
  <2>16. CASE ResubmitWrite(h)
    BY <1>1, <1>3, <2>16 DEF ResubmitWrite, Writers
  <2> QED BY <2>1, <2>4, <2>5, <2>6, <2>7, <2>8, <2>9, <2>10, <2>11, <2>12, <2>13,
             <2>14, <2>15, <2>16
             DEF Call, Step, Fail, UpdateWrite, NotifyStaff, NotifyWorker
<1> QED BY <1>2, <1>3

\* However many handlers interleave, and whichever fail, a request whose status is
\* final and which no handler is about to write never changes again.
THEOREM SettledForever == Spec => SettledStays
<1>1. TypeInv /\ [Next]_vars
      => [\A id \in Ids : Settled(id) => Settled(id)' /\ UNCHANGED requests[id]]_vars
  <2> SUFFICES ASSUME TypeInv, [Next]_vars, NEW id \in Ids, Settled(id)
               PROVE  Settled(id)' /\ UNCHANGED requests[id]
    OBVIOUS
  <2>1. requests'[id] = requests[id]
    BY UnheldRowUnchanged DEF Settled
  <2>2. \A g \in Handlers : op'[g].pc \in Writers => op'[g].id # id
    BY FinalRowNotTaken
  <2> QED BY <2>1, <2>2 DEF Settled, Exists, Lifecycle!Final
<1> QED BY <1>1, TypeInit, TypeNext, PTL DEF Spec, SettledStays

-------------------------------------------------------------------------------
(* The days of a request are those of its dates *)

Agree(row) == row.days = DaysFrom(row.start, row.end)

\* What an edit is about to store agrees as well: it takes dates and days from one
\* read of the row, or computes the days of the dates it was given.
EditsAgree == \A h \in Handlers : op[h].pc \in {"recheck", "update"} => Agree(op[h])

LEMMA DaysInit == Init => DaysMatchDates /\ EditsAgree
  BY DEF Init, DaysMatchDates, EditsAgree, Exists, Idle

LEMMA DaysNext ==
  ASSUME ResubmitDays \subseteq {NoDate},
         TypeInv, DaysMatchDates, EditsAgree, [Next]_vars
  PROVE  DaysMatchDates' /\ EditsAgree'
<1> USE RequestsAssumption
<1>1. CASE UNCHANGED vars
  BY <1>1 DEF vars, DaysMatchDates, EditsAgree, Exists, Agree
<1>2. CASE Next
  <2>1. PICK h \in Handlers : Call(h) \/ Step(h) \/ Fail(h)
    BY <1>2 DEF Next
  <2>2. /\ requests \in [Ids -> Rows \cup {NoRow}]
        /\ op \in [Handlers -> Ops]
        /\ op[h] \in Ops
        /\ op[h].pc \in Writers => Exists(op[h].id)
    BY DEF TypeInv, TypeOK, HeldRowsExist
  <2>3. \A id \in Ids : Exists(id) => requests[id] \in Rows /\ Agree(requests[id])
    BY <2>2 DEF DaysMatchDates, Exists, Agree
  <2>4. ASSUME UNCHANGED requests
        PROVE  DaysMatchDates'
    BY <2>4 DEF DaysMatchDates, Exists
  <2>5. ASSUME NEW id \in Ids, NEW row, requests' = [requests EXCEPT ![id] = row], Agree(row)
        PROVE  DaysMatchDates'
    BY <2>2, <2>5 DEF DaysMatchDates, Exists, Agree
  <2>6. ASSUME NEW next, Continue(h, next), next.pc \in {"recheck", "update"} => Agree(next)
        PROVE  EditsAgree'
    <3>1. \A g \in Handlers : op'[g] = IF g = h THEN next ELSE op[g]
      BY <2>2, <2>6 DEF Continue
    <3> QED BY <2>6, <3>1 DEF EditsAgree, Agree
  <2>7. ASSUME Finish(h)
        PROVE  EditsAgree'
    BY <2>6, <2>7 DEF Finish, Idle
  <2>8. CASE CreateStart(h)
    <3>1. PICK w \in Workers, t \in Types, s, e \in Days :
            Continue(h, [pc |-> IF t \in VacationTypes THEN "assess" ELSE "overlap",
                         worker |-> w, type |-> t, start |-> s, end |-> e,
                         override |-> FALSE])
      BY <2>8 DEF CreateStart
    <3> QED BY <2>4, <2>6, <2>8, <3>1 DEF CreateStart
  <2>9. CASE CreateAssess(h)
    <3> DEFINE next == [op[h] EXCEPT
          !.pc = "overlap",
          !.override = IF DaysFrom(op[h].start, op[h].end) > AvailableDays(op[h].worker)
                       THEN TRUE ELSE FALSE]
    <3>1. op[h] \in CreateOps
      BY <2>2, <2>9, OpKinds DEF CreateAssess
    <3>2. next.pc = "overlap"
      BY <3>1 DEF CreateOps
    <3>3. Continue(h, next) /\ UNCHANGED requests
      BY <2>9 DEF CreateAssess
    <3> HIDE DEF next
    <3> QED BY <2>4, <2>6, <3>2, <3>3
  <2>10. CASE CreateOverlap(h)
    <3> DEFINE next == [op[h] EXCEPT !.pc = "insert"]
    <3>1. op[h] \in CreateOps
      BY <2>2, <2>10, OpKinds DEF CreateOverlap
    <3>2. next.pc = "insert"
      BY <3>1 DEF CreateOps
    <3>3. (Continue(h, next) \/ Finish(h)) /\ UNCHANGED requests
      BY <2>10 DEF CreateOverlap
    <3> HIDE DEF next
    <3> QED BY <2>4, <2>6, <2>7, <3>2, <3>3
  <2>11. CASE CreateInsert(h)
    <3> DEFINE row == [worker |-> op[h].worker, type |-> op[h].type,
                       start |-> op[h].start, end |-> op[h].end,
                       days |-> DaysFrom(op[h].start, op[h].end),
                       status |-> "pending", override |-> op[h].override]
    <3>1. PICK id \in Ids :
            /\ requests' = [requests EXCEPT ![id] = row]
            /\ Continue(h, [pc |-> "notifyStaff", id |-> id, notice |-> "created"])
      BY <2>11 DEF CreateInsert
    <3>2. Agree(row)
      BY DEF Agree
    <3> HIDE DEF row
    <3> QED BY <2>5, <2>6, <3>1, <3>2
  <2>12. CASE ReviewRead(h)
    <3>1. PICK id \in Ids, d \in Decisions :
            Continue(h, [pc |-> "review", id |-> id, decision |-> d])
      BY <2>12 DEF ReviewRead
    <3> QED BY <2>4, <2>6, <2>12, <3>1 DEF ReviewRead
  <2>13. CASE CancelRead(h)
    <3>1. PICK id \in Ids : Continue(h, [pc |-> "cancel", id |-> id])
      BY <2>13 DEF CancelRead
    <3> QED BY <2>4, <2>6, <2>13, <3>1 DEF CancelRead
  <2>14. CASE ResubmitRead(h)
    <3>1. PICK id \in Ids, s, e \in ResubmitDays :
            Continue(h, [pc |-> "resubmit", id |-> id, start |-> s, end |-> e])
      BY <2>14 DEF ResubmitRead
    <3> QED BY <2>4, <2>6, <2>14, <3>1 DEF ResubmitRead
  \* The edit keeps the period it read with its days, or takes the days of the new one.
  <2>15. CASE UpdateRead(h)
    <3>1. PICK id \in Ids, s, e \in EditDays, t \in EditTypes :
            /\ Exists(id)
            /\ LET row == requests[id]
                   dated == s # NoDate \/ e # NoDate
                   start == COALESCE(s, row.start, NoDate)
                   end   == COALESCE(e, row.end, NoDate)
               IN  Continue(h, [pc |-> IF dated THEN "recheck" ELSE "update",
                                id |-> id, worker |-> row.worker, type |-> t,
                                start |-> start, end |-> end,
                                days |-> IF dated THEN DaysFrom(start, end)
                                                  ELSE row.days])
      BY <2>15 DEF UpdateRead
    <3> DEFINE row == requests[id]
               dated == s # NoDate \/ e # NoDate
               start == COALESCE(s, row.start, NoDate)
               end   == COALESCE(e, row.end, NoDate)
               next  == [pc |-> IF dated THEN "recheck" ELSE "update",
                         id |-> id, worker |-> row.worker, type |-> t,
                         start |-> start, end |-> end,
                         days |-> IF dated THEN DaysFrom(start, end) ELSE row.days]
    <3>2. Agree(row)
      BY <2>3, <3>1
    <3>3. ~dated => start = row.start /\ end = row.end
      BY DEF COALESCE
    <3>4. Agree(next)
      <4> HIDE DEF row, dated, start, end
      <4> QED BY <3>2, <3>3 DEF Agree
    <3>5. Continue(h, next)
      BY <3>1
    <3> HIDE DEF next
    <3> QED BY <2>4, <2>6, <2>15, <3>4, <3>5 DEF UpdateRead
  <2>16. CASE UpdateOverlap(h)
    <3> DEFINE next == [op[h] EXCEPT !.pc = "update"]
    <3>1. op[h] \in UpdateOps /\ Agree(op[h])
      BY <2>2, <2>16, OpKinds DEF UpdateOverlap, EditsAgree
    <3>2. Agree(next)
      BY <3>1 DEF UpdateOps, Agree
    <3>3. (Continue(h, next) \/ Finish(h)) /\ UNCHANGED requests
      BY <2>16 DEF UpdateOverlap
    <3> HIDE DEF next
    <3> QED BY <2>4, <2>6, <2>7, <3>2, <3>3
  <2>17. CASE ReviewWrite(h)
    <3>1. op[h] \in ReviewOps /\ Exists(op[h].id)
      BY <2>2, <2>17, OpKinds DEF ReviewWrite, Writers
    <3> DEFINE id == op[h].id
               row == [requests[id] EXCEPT !.status = op[h].decision]
    <3>2. id \in Ids /\ requests[id] \in Rows /\ Agree(requests[id])
      BY <2>3, <3>1 DEF ReviewOps
    <3>3. Agree(row)
      BY <3>2 DEF Rows, Agree
    <3>4. requests' = [requests EXCEPT ![id] = row]
      BY <2>17 DEF ReviewWrite
    <3>5. Continue(h, [pc |-> "notifyWorker", id |-> op[h].id, notice |-> op[h].decision])
      BY <2>17 DEF ReviewWrite
    <3> HIDE DEF id, row
    <3> QED BY <2>5, <2>6, <3>2, <3>3, <3>4, <3>5
  <2>18. CASE CancelWrite(h)
    <3>1. op[h] \in CancelOps /\ Exists(op[h].id)
      BY <2>2, <2>18, OpKinds DEF CancelWrite, Writers
    <3> DEFINE id == op[h].id
               row == [requests[id] EXCEPT !.status = "cancelled"]
    <3>2. id \in Ids /\ requests[id] \in Rows /\ Agree(requests[id])
      BY <2>3, <3>1 DEF CancelOps
    <3>3. Agree(row)
      BY <3>2 DEF Rows, Agree
    <3>4. requests' = [requests EXCEPT ![id] = row]
      BY <2>18 DEF CancelWrite
    <3>5. Continue(h, [pc |-> "notifyWorker", id |-> op[h].id, notice |-> "cancelled"])
      BY <2>18 DEF CancelWrite
    <3> HIDE DEF id, row
    <3> QED BY <2>5, <2>6, <3>2, <3>3, <3>4, <3>5
  \* A resubmission without dates leaves the period as it is.
  <2>19. CASE ResubmitWrite(h)
    <3>1. op[h] \in ResubmitOps /\ Exists(op[h].id)
      BY <2>2, <2>19, OpKinds DEF ResubmitWrite, Writers
    <3> DEFINE id == op[h].id
               row == [requests[id] EXCEPT
                         !.status = "pending",
                         !.start = COALESCE(op[h].start, @, NoDate),
                         !.end = COALESCE(op[h].end, @, NoDate)]
    <3>2. /\ id \in Ids /\ requests[id] \in Rows /\ Agree(requests[id])
          /\ op[h].start = NoDate /\ op[h].end = NoDate
      BY <2>3, <3>1 DEF ResubmitOps
    <3>3. Agree(row)
      BY <3>2 DEF Rows, Agree, COALESCE
    <3>4. requests' = [requests EXCEPT ![id] = row]
      BY <2>2, <2>19, <3>2 DEF ResubmitWrite, Rows
    <3>5. Continue(h, [pc |-> "notifyStaff", id |-> op[h].id, notice |-> "resubmitted"])
      BY <2>19 DEF ResubmitWrite
    <3> HIDE DEF id, row
    <3> QED BY <2>5, <2>6, <3>2, <3>3, <3>4, <3>5
  <2>20. CASE UpdateWrite(h)
    <3>1. op[h] \in UpdateOps /\ Exists(op[h].id) /\ Agree(op[h])
      BY <2>2, <2>20, OpKinds DEF UpdateWrite, Writers, EditsAgree
    <3> DEFINE id == op[h].id
               row == [requests[id] EXCEPT
                         !.start = op[h].start, !.end = op[h].end, !.days = op[h].days,
                         !.type = COALESCE(op[h].type, @, NoType)]
    <3>2. id \in Ids /\ requests[id] \in Rows
      BY <2>3, <3>1 DEF UpdateOps
    <3>3. Agree(row)
      BY <3>1, <3>2 DEF Rows, Agree
    <3>4. requests' = [requests EXCEPT ![id] = row]
      BY <2>2, <2>20, <3>2 DEF UpdateWrite, Rows
    <3>5. Finish(h)
      BY <2>20 DEF UpdateWrite
    <3> HIDE DEF id, row
    <3> QED BY <2>5, <2>7, <3>2, <3>3, <3>4, <3>5
  <2>21. CASE NotifyStaff(h) \/ NotifyWorker(h) \/ Fail(h)
    BY <2>4, <2>7, <2>21 DEF NotifyStaff, NotifyWorker, Fail
  <2> QED BY <2>1, <2>8, <2>9, <2>10, <2>11, <2>12, <2>13, <2>14, <2>15, <2>16, <2>17,
             <2>18, <2>19, <2>20, <2>21 DEF Call, Step
<1> QED BY <1>1, <1>2

\* As long as resubmissions carry no dates, days_requested is the length of the
\* period, whatever edits, decisions and failures interleave.  (With dates it is
\* not: resubmitRequest stores them alone.)
THEOREM DaysAlwaysMatch ==
  ASSUME ResubmitDays \subseteq {NoDate}
  PROVE  Spec => []DaysMatchDates
<1> DEFINE Inv == TypeInv /\ DaysMatchDates /\ EditsAgree
<1>1. Init => Inv
  BY TypeInit, DaysInit
<1>2. Inv /\ [Next]_vars => Inv'
  BY TypeNext, DaysNext
<1>3. Inv => DaysMatchDates
  OBVIOUS
<1> QED BY <1>1, <1>2, <1>3, PTL DEF Spec

-------------------------------------------------------------------------------
(***************************************************************************)
(* What Requests keeps while one handler is at work at a time.  The checks *)
(* of the service read before they write, in another query: a handler that *)
(* nobody disturbs writes what it checked.                                 *)
(***************************************************************************)

\* One handler at a time.
Alone == \A g, h \in Handlers : g = h

-------------------------------------------------------------------------------
(* What the handler has read *)

\* The status a decision, a cancellation or a resubmission was allowed for is
\* still that of the row, and the notice to the worker still says it.
ReadsHold ==
  \A h \in Handlers :
    /\ op[h].pc = "review" => requests[op[h].id].status \in {"pending", "observed"}
    /\ op[h].pc = "cancel" => requests[op[h].id].status = "pending"
    /\ op[h].pc = "resubmit" => requests[op[h].id].status = "observed"
    /\ op[h].pc = "notifyWorker" => requests[op[h].id].status = op[h].notice

\* A step of the only handler leaves it with what the step gives it.
LEMMA OnlyHandler ==
  ASSUME Alone, TypeInv, NEW h \in Handlers, NEW next, Continue(h, next)
  PROVE  \A g \in Handlers : op'[g] = next /\ op[g] = op[h]
BY DEF Alone, Continue, TypeInv, TypeOK

\* Nothing is read between two calls,
LEMMA ReadsInit == Init => ReadsHold
BY DEF Init, ReadsHold, Idle

\* and each query of the handler either reads anew or writes what the next one says.
LEMMA ReadsNext ==
  ASSUME Alone, TypeInv, ReadsHold, [Next]_vars
  PROVE  ReadsHold'
<1>1. CASE UNCHANGED vars
  BY <1>1 DEF vars, ReadsHold
<1>2. CASE Next
  <2>1. PICK h \in Handlers : Call(h) \/ Step(h) \/ Fail(h)
    BY <1>2 DEF Next
  <2>2. op[h] \in Ops /\ requests \in [Ids -> Rows \cup {NoRow}]
    BY DEF TypeInv, TypeOK
  <2>3. op[h].pc \in Writers => Exists(op[h].id)
    BY DEF TypeInv, HeldRowsExist
  <2>4. ASSUME NEW next, Continue(h, next),
               next.pc = "review" => requests'[next.id].status \in {"pending", "observed"},
               next.pc = "cancel" => requests'[next.id].status = "pending",
               next.pc = "resubmit" => requests'[next.id].status = "observed",
               next.pc = "notifyWorker" => requests'[next.id].status = next.notice
        PROVE  ReadsHold'
    BY <2>4, OnlyHandler DEF ReadsHold
  <2>5. ASSUME Finish(h)
        PROVE  ReadsHold'
    BY <2>4, <2>5 DEF Finish, Idle
  <2>6. CASE CreateStart(h)
    <3>1. PICK w \in Workers, t \in Types, s, e \in Days :
            Continue(h, [pc |-> IF t \in VacationTypes THEN "assess" ELSE "overlap",
                         worker |-> w, type |-> t, start |-> s, end |-> e, override |-> FALSE])
      BY <2>6 DEF CreateStart
    <3> QED BY <2>4, <3>1
  <2>7. CASE CreateAssess(h) \/ CreateOverlap(h)
    <3>1. op[h] \in CreateOps
      BY <2>2, <2>7, OpKinds DEF CreateAssess, CreateOverlap
    <3>2. PICK next : Continue(h, next) /\ next.pc \in {"overlap", "insert", "idle"}
      <4>1. CASE CreateAssess(h)
        <5> DEFINE next == [op[h] EXCEPT
              !.pc = "overlap",
              !.override = IF DaysFrom(op[h].start, op[h].end) > AvailableDays(op[h].worker)
                           THEN TRUE ELSE FALSE]
        <5>1. next.pc = "overlap" /\ Continue(h, next)
          BY <3>1, <4>1 DEF CreateAssess, CreateOps
        <5> HIDE DEF next
        <5> QED BY <5>1
      <4>2. CASE CreateOverlap(h)
        <5> DEFINE next == [op[h] EXCEPT !.pc = "insert"]
        <5>1. next.pc = "insert" /\ (Continue(h, next) \/ Continue(h, Idle))
          BY <3>1, <4>2 DEF CreateOverlap, CreateOps, Finish
        <5> HIDE DEF next
        <5> QED BY <5>1 DEF Idle
      <4> QED BY <2>7, <4>1, <4>2
    <3> QED BY <2>4, <3>2
  <2>8. CASE CreateInsert(h)
    <3>1. PICK id \in Ids : Continue(h, [pc |-> "notifyStaff", id |-> id, notice |-> "created"])
      BY <2>8 DEF CreateInsert
    <3> QED BY <2>4, <3>1
  <2>9. CASE ReviewRead(h)
    <3>1. PICK id \in Ids, d \in Decisions :
            /\ requests[id].status \in {"pending", "observed"}
            /\ Continue(h, [pc |-> "review", id |-> id, decision |-> d])
      BY <2>9 DEF ReviewRead
    <3>2. UNCHANGED requests
      BY <2>9 DEF ReviewRead
    <3> QED BY <2>4, <3>1, <3>2
  <2>10. CASE CancelRead(h)
    <3>1. PICK id \in Ids :
            requests[id].status = "pending" /\ Continue(h, [pc |-> "cancel", id |-> id])
      BY <2>10 DEF CancelRead
    <3>2. UNCHANGED requests
      BY <2>10 DEF CancelRead
    <3> QED BY <2>4, <3>1, <3>2
  <2>11. CASE ResubmitRead(h)
    <3>1. PICK id \in Ids, s, e \in ResubmitDays :
            /\ requests[id].status = "observed"
            /\ Continue(h, [pc |-> "resubmit", id |-> id, start |-> s, end |-> e])
      BY <2>11 DEF ResubmitRead
    <3>2. UNCHANGED requests
      BY <2>11 DEF ResubmitRead
    <3> QED BY <2>4, <3>1, <3>2
  <2>12. CASE UpdateRead(h)
    <3>1. PICK next : Continue(h, next) /\ next.pc \in {"recheck", "update"}
      <4>1. PICK id \in Ids, s, e \in EditDays, t \in EditTypes :
              LET row == requests[id]
                  dated == s # NoDate \/ e # NoDate
                  start == COALESCE(s, row.start, NoDate)
                  end   == COALESCE(e, row.end, NoDate)
              IN  Continue(h, [pc |-> IF dated THEN "recheck" ELSE "update",
                               id |-> id, worker |-> row.worker, type |-> t,
                               start |-> start, end |-> end,
                               days |-> IF dated THEN DaysFrom(start, end) ELSE row.days])
        BY <2>12 DEF UpdateRead
      <4> QED BY <4>1
    <3> QED BY <2>4, <3>1
  <2>13. CASE UpdateOverlap(h)
    <3> DEFINE next == [op[h] EXCEPT !.pc = "update"]
    <3>1. op[h] \in UpdateOps
      BY <2>2, <2>13, OpKinds DEF UpdateOverlap
    <3>2. next.pc = "update" /\ (Continue(h, next) \/ Finish(h))
      BY <2>13, <3>1 DEF UpdateOverlap, UpdateOps
    <3> HIDE DEF next
    <3> QED BY <2>4, <2>5, <3>2
  <2>14. CASE ReviewWrite(h)
    <3>1. op[h] \in ReviewOps /\ requests[op[h].id] \in Rows /\ op[h].id \in Ids
      BY <2>2, <2>3, <2>14, OpKinds DEF ReviewWrite, Writers, Exists, ReviewOps
    <3> DEFINE next == [pc |-> "notifyWorker", id |-> op[h].id, notice |-> op[h].decision]
    <3>2. Continue(h, next) /\ requests'[next.id].status = next.notice
      BY <2>2, <2>14, <3>1 DEF ReviewWrite, Rows
    <3>3. next.pc = "notifyWorker"
      OBVIOUS
    <3> HIDE DEF next
    <3> QED BY <2>4, <3>2, <3>3
  <2>15. CASE CancelWrite(h)
    <3>1. op[h] \in CancelOps /\ requests[op[h].id] \in Rows /\ op[h].id \in Ids
      BY <2>2, <2>3, <2>15, OpKinds DEF CancelWrite, Writers, Exists, CancelOps
    <3> DEFINE next == [pc |-> "notifyWorker", id |-> op[h].id, notice |-> "cancelled"]
    <3>2. Continue(h, next) /\ requests'[next.id].status = next.notice
      BY <2>2, <2>15, <3>1 DEF CancelWrite, Rows
    <3>3. next.pc = "notifyWorker"
      OBVIOUS
    <3> HIDE DEF next
    <3> QED BY <2>4, <3>2, <3>3
  <2>16. CASE ResubmitWrite(h)
    BY <2>4, <2>16 DEF ResubmitWrite
  <2>17. CASE UpdateWrite(h) \/ NotifyStaff(h) \/ NotifyWorker(h) \/ Fail(h)
    BY <2>5, <2>17 DEF UpdateWrite, NotifyStaff, NotifyWorker, Fail
  <2> QED BY <2>1, <2>6, <2>7, <2>8, <2>9, <2>10, <2>11, <2>12, <2>13, <2>14, <2>15,
             <2>16, <2>17 DEF Call, Step
<1> QED BY <1>1, <1>2

\* So every read holds until the handler is done with it.
LEMMA ReadsInvariance == ASSUME Alone PROVE Spec => [](TypeInv /\ ReadsHold)
BY TypeInit, TypeNext, ReadsInit, ReadsNext, PTL DEF Spec

-------------------------------------------------------------------------------
(* The status machine *)

\* The status of each request, as the abstract machine sees it.
StatusOf == [id \in Ids |-> IF Exists(id) THEN requests[id].status ELSE "none"]

\* A row stored under an id changes the status of that id alone.
LEMMA StatusStored ==
  ASSUME TypeInv, NEW id \in Ids, NEW row \in Rows, requests' = [requests EXCEPT ![id] = row]
  PROVE  StatusOf' = [StatusOf EXCEPT ![id] = row.status]
<1>1. requests \in [Ids -> Rows \cup {NoRow}]
  BY DEF TypeInv, TypeOK
<1>2. \A i \in Ids : requests'[i] = IF i = id THEN row ELSE requests[i]
  BY <1>1
<1>3. row # NoRow
  BY RequestsAssumption
<1>4. \A i \in Ids : (IF Exists(i) THEN requests[i].status ELSE "none")'
                       = IF i = id THEN row.status ELSE StatusOf[i]
  BY <1>2, <1>3 DEF StatusOf, Exists
<1>5. StatusOf' = [i \in Ids |-> IF i = id THEN row.status ELSE StatusOf[i]]
  BY <1>4 DEF StatusOf
<1>6. [StatusOf EXCEPT ![id] = row.status] = [i \in Ids |-> IF i = id THEN row.status ELSE StatusOf[i]]
  BY DEF StatusOf
<1> QED BY <1>5, <1>6

LEMMA LifecycleInit == Init => Lifecycle!Init
BY DEF Init, Lifecycle!Init, Exists

\* Every step is one of the machine or leaves it as it is.
LEMMA LifecycleNext ==
  ASSUME TypeInv, ReadsHold, [Next]_vars
  PROVE  Lifecycle!Next \/ UNCHANGED StatusOf
<1>1. CASE UNCHANGED requests
  BY <1>1 DEF StatusOf, Exists
<1>2. CASE UNCHANGED vars
  BY <1>1, <1>2 DEF vars
<1>3. CASE Next
  <2>1. PICK h \in Handlers : Call(h) \/ Step(h) \/ Fail(h)
    BY <1>3 DEF Next
  <2>2. op[h] \in Ops /\ requests \in [Ids -> Rows \cup {NoRow}]
    BY DEF TypeInv, TypeOK
  <2>3. op[h].pc \in Writers => Exists(op[h].id)
    BY DEF TypeInv, HeldRowsExist
  <2>4. ASSUME NEW i \in Ids PROVE StatusOf[i] = IF Exists(i) THEN requests[i].status ELSE "none"
    BY DEF StatusOf
  <2>5. CASE CreateInsert(h)
    <3>1. op[h] \in CreateOps /\ op[h].start <= op[h].end
      BY <2>2, <2>5, OpKinds DEF CreateInsert, TypeInv, CreationsOrdered
    <3> DEFINE row == [worker |-> op[h].worker, type |-> op[h].type,
                       start |-> op[h].start, end |-> op[h].end,
                       days |-> DaysFrom(op[h].start, op[h].end),
                       status |-> "pending", override |-> op[h].override]
    <3>2. DaysFrom(op[h].start, op[h].end) \in Days
      BY <3>1, RequestsAssumption DEF CreateOps, DaysFrom, Days
    <3>3. row \in Rows /\ row.status = "pending"
      BY <3>1, <3>2 DEF CreateOps, Rows, Statuses
    <3>4. PICK id \in Ids : ~Exists(id) /\ requests' = [requests EXCEPT ![id] = row]
      BY <2>5 DEF CreateInsert
    <3> HIDE DEF row
    <3>5. StatusOf[id] = "none" /\ StatusOf' = [StatusOf EXCEPT ![id] = "pending"]
      BY <2>4, <3>3, <3>4, StatusStored
    <3>6. Lifecycle!Submit(id)
      BY <3>5 DEF Lifecycle!Submit, Lifecycle!Becomes, StatusOf
    <3> QED BY <3>6 DEF Lifecycle!Next
  \* The other writes store a status in the row of the handler's id.
  <2>6. ASSUME op[h].pc \in Writers, op[h].id \in Ids, NEW s \in Statuses,
               NEW row \in Rows, row.status = s,
               requests' = [requests EXCEPT ![op[h].id] = row]
        PROVE  /\ StatusOf[op[h].id] = requests[op[h].id].status
               /\ StatusOf' = [StatusOf EXCEPT ![op[h].id] = s]
    BY <2>3, <2>4, <2>6, StatusStored
  <2>7. CASE ReviewWrite(h)
    <3>1. op[h] \in ReviewOps /\ op[h].pc \in Writers
      BY <2>2, <2>7, OpKinds DEF ReviewWrite, Writers
    <3> DEFINE id == op[h].id
               s == op[h].decision
               row == [requests[id] EXCEPT !.status = s]
    <3>2. id \in Ids /\ s \in Decisions /\ requests[id] \in Rows
      BY <2>2, <2>3, <3>1 DEF ReviewOps, Exists
    <3>3. row \in Rows /\ row.status = s /\ s \in Statuses
      BY <3>2 DEF Rows, Statuses
    <3>4. requests' = [requests EXCEPT ![id] = row]
      BY <2>7 DEF ReviewWrite
    <3>5. requests[id].status \in {"pending", "observed"}
      BY <2>7 DEF ReviewWrite, ReadsHold
    <3> HIDE DEF row
    <3>6. StatusOf[id] = requests[id].status /\ StatusOf' = [StatusOf EXCEPT ![id] = s]
      BY <2>6, <3>1, <3>2, <3>3, <3>4
    <3> HIDE DEF id, s
    <3>7. Lifecycle!Decide(id)
      BY <3>2, <3>5, <3>6 DEF Lifecycle!Decide, Lifecycle!Becomes, Lifecycle!Open, Decisions, StatusOf
    <3> QED BY <3>2, <3>7 DEF Lifecycle!Next
  <2>8. CASE CancelWrite(h)
    <3>1. op[h] \in CancelOps /\ op[h].pc \in Writers
      BY <2>2, <2>8, OpKinds DEF CancelWrite, Writers
    <3> DEFINE id == op[h].id
               row == [requests[id] EXCEPT !.status = "cancelled"]
    <3>2. id \in Ids /\ requests[id] \in Rows
      BY <2>2, <2>3, <3>1 DEF CancelOps, Exists
    <3>3. row \in Rows /\ row.status = "cancelled" /\ "cancelled" \in Statuses
      BY <3>2 DEF Rows, Statuses
    <3>4. requests' = [requests EXCEPT ![id] = row]
      BY <2>8 DEF CancelWrite
    <3>5. requests[id].status = "pending"
      BY <2>8 DEF CancelWrite, ReadsHold
    <3> HIDE DEF row
    <3>6. StatusOf[id] = requests[id].status /\ StatusOf' = [StatusOf EXCEPT ![id] = "cancelled"]
      BY <2>6, <3>1, <3>2, <3>3, <3>4
    <3> HIDE DEF id
    <3>7. PICK i \in Ids : i = id
      BY <3>2
    <3>8. Lifecycle!Cancel(i)
      BY <3>5, <3>6, <3>7 DEF Lifecycle!Cancel, Lifecycle!Becomes, StatusOf
    <3> QED BY <3>8 DEF Lifecycle!Next
  <2>9. CASE ResubmitWrite(h)
    <3>1. op[h] \in ResubmitOps /\ op[h].pc \in Writers
      BY <2>2, <2>9, OpKinds DEF ResubmitWrite, Writers
    <3> DEFINE id == op[h].id
               row == [requests[id] EXCEPT
                         !.status = "pending",
                         !.start = COALESCE(op[h].start, @, NoDate),
                         !.end = COALESCE(op[h].end, @, NoDate)]
    <3>2. /\ id \in Ids /\ requests[id] \in Rows
          /\ op[h].start \in Days \cup {NoDate} /\ op[h].end \in Days \cup {NoDate}
      BY <2>2, <2>3, <3>1, RequestsAssumption DEF ResubmitOps, Exists
    <3>3. row \in Rows /\ row.status = "pending" /\ "pending" \in Statuses
      BY <3>2 DEF Rows, Statuses, COALESCE
    <3>4. requests' = [requests EXCEPT ![id] = row]
      BY <2>2, <2>9, <3>2 DEF ResubmitWrite, Rows
    <3>5. requests[id].status = "observed"
      BY <2>9 DEF ResubmitWrite, ReadsHold
    <3> HIDE DEF row
    <3>6. StatusOf[id] = requests[id].status /\ StatusOf' = [StatusOf EXCEPT ![id] = "pending"]
      BY <2>6, <3>1, <3>2, <3>3, <3>4
    <3> HIDE DEF id
    <3>7. PICK i \in Ids : i = id
      BY <3>2
    <3>8. Lifecycle!Resubmit(i)
      BY <3>5, <3>6, <3>7 DEF Lifecycle!Resubmit, Lifecycle!Becomes, StatusOf
    <3> QED BY <3>8 DEF Lifecycle!Next
  <2>10. CASE UpdateWrite(h)
    <3>1. op[h] \in UpdateOps /\ op[h].pc \in Writers
      BY <2>2, <2>10, OpKinds DEF UpdateWrite, Writers
    <3> DEFINE id == op[h].id
               row == [requests[id] EXCEPT
                         !.start = op[h].start, !.end = op[h].end, !.days = op[h].days,
                         !.type = COALESCE(op[h].type, @, NoType)]
    <3>2. /\ id \in Ids /\ requests[id] \in Rows
          /\ op[h].start \in Days /\ op[h].end \in Days /\ op[h].days \in Days
          /\ op[h].type \in Types \cup {NoType}
      BY <2>2, <2>3, <3>1, RequestsAssumption DEF UpdateOps, Exists
    <3>3. row \in Rows /\ row.status = requests[id].status /\ requests[id].status \in Statuses
      BY <3>2 DEF Rows, COALESCE
    <3>4. requests' = [requests EXCEPT ![id] = row]
      BY <2>2, <2>10, <3>2 DEF UpdateWrite, Rows
    <3> HIDE DEF row
    <3>5. StatusOf' = [StatusOf EXCEPT ![id] = StatusOf[id]]
      BY <2>6, <3>1, <3>2, <3>3, <3>4
    <3> QED BY <3>2, <3>5 DEF StatusOf
  <2> QED BY <1>1, <2>1, <2>5, <2>7, <2>8, <2>9, <2>10
             DEF Call, Step, Fail, CreateStart, ReviewRead, CancelRead, ResubmitRead,
                 UpdateRead, CreateAssess, CreateOverlap, UpdateOverlap,
                 NotifyStaff, NotifyWorker
<1> QED BY <1>2, <1>3

\* A handler that nobody disturbs implements the machine that the messages of the
\* service describe: a decided request is not decided again, only a pending one is
\* cancelled and only an observed one resubmitted, although the check and the write
\* are two queries.  With two handlers it does not hold (requests_race_review).
THEOREM LifecycleRefined ==
  ASSUME Alone
  PROVE  Spec => LifecycleSpec
<1>1. Init => Lifecycle!Init
  BY LifecycleInit
<1>2. TypeInv /\ ReadsHold /\ [Next]_vars =>
        [Lifecycle!Next]_([id \in Ids |-> IF Exists(id) THEN requests[id].status ELSE "none"])
  BY LifecycleNext DEF StatusOf
<1>3. Spec => [](TypeInv /\ ReadsHold)
  BY ReadsInvariance
<1> QED BY <1>1, <1>2, <1>3, PTL DEF Spec, LifecycleSpec, Lifecycle!Spec

-------------------------------------------------------------------------------
(* The worker's last notification *)

\* Until a query fails, a decided request has been told to its worker, or the
\* handler that decided it is about to tell it.
ToldOrTelling ==
  failures = 0 =>
    \A id \in Ids : (Exists(id) /\ requests[id].status # "pending") =>
      \/ workerInbox[id] = requests[id].status
      \/ \E h \in Handlers : op[h].pc = "notifyWorker" /\ op[h].id = id

\* A step that decides nothing and tells nobody, of a handler that has nothing
\* to tell.
LEMMA NothingToTell ==
  ASSUME Alone, TypeInv, ToldOrTelling, NEW h \in Handlers, op[h].pc # "notifyWorker",
         UNCHANGED workerInbox, failures' = failures,
         \A id \in Ids : (Exists(id)' /\ requests'[id].status # "pending") =>
            Exists(id) /\ requests[id].status = requests'[id].status
  PROVE  ToldOrTelling'
BY DEF Alone, ToldOrTelling

\* What a write by id leaves: one other row for the id the handler holds.
LEMMA Writes ==
  ASSUME TypeInv, NEW h \in Handlers,
         ReviewWrite(h) \/ CancelWrite(h) \/ ResubmitWrite(h) \/ UpdateWrite(h)
  PROVE  /\ op[h].id \in Ids /\ Exists(op[h].id)
         /\ requests[op[h].id] \in Rows /\ requests'[op[h].id] \in Rows
         /\ \A i \in Ids \ {op[h].id} : requests'[i] = requests[i]
         /\ requests'[op[h].id].worker = requests[op[h].id].worker
         /\ ReviewWrite(h) => /\ op[h].decision \in Decisions
                              /\ requests'[op[h].id].status = op[h].decision
         /\ CancelWrite(h) => requests'[op[h].id].status = "cancelled"
         /\ ReviewWrite(h) \/ CancelWrite(h) =>
              /\ requests'[op[h].id].start = requests[op[h].id].start
              /\ requests'[op[h].id].end = requests[op[h].id].end
         /\ ResubmitWrite(h) =>
              /\ requests'[op[h].id].status = "pending"
              /\ requests'[op[h].id].start = COALESCE(op[h].start, requests[op[h].id].start, NoDate)
              /\ requests'[op[h].id].end = COALESCE(op[h].end, requests[op[h].id].end, NoDate)
         /\ UpdateWrite(h) =>
              /\ requests'[op[h].id].status = requests[op[h].id].status
              /\ requests'[op[h].id].start = op[h].start
              /\ requests'[op[h].id].end = op[h].end
<1>1. op[h] \in Ops /\ requests \in [Ids -> Rows \cup {NoRow}]
  BY DEF TypeInv, TypeOK
<1>2. op[h].pc \in Writers => Exists(op[h].id)
  BY DEF TypeInv, HeldRowsExist
<1>3. CASE ReviewWrite(h)
  <2>1. op[h] \in ReviewOps /\ Exists(op[h].id)
    BY <1>1, <1>2, <1>3, OpKinds DEF ReviewWrite, Writers
  <2>2. op[h].id \in Ids /\ requests[op[h].id] \in Rows /\ op[h].decision \in Decisions
    BY <1>1, <2>1 DEF ReviewOps, Exists
  <2>3. requests' = [requests EXCEPT ![op[h].id].status = op[h].decision] /\ op[h].pc = "review"
    BY <1>3 DEF ReviewWrite
  <2> QED BY <1>1, <2>1, <2>2, <2>3 DEF Rows, Statuses, CancelWrite, ResubmitWrite, UpdateWrite
<1>4. CASE CancelWrite(h)
  <2>1. op[h] \in CancelOps /\ Exists(op[h].id)
    BY <1>1, <1>2, <1>4, OpKinds DEF CancelWrite, Writers
  <2>2. op[h].id \in Ids /\ requests[op[h].id] \in Rows
    BY <1>1, <2>1 DEF CancelOps, Exists
  <2>3. requests' = [requests EXCEPT ![op[h].id].status = "cancelled"] /\ op[h].pc = "cancel"
    BY <1>4 DEF CancelWrite
  <2> QED BY <1>1, <2>1, <2>2, <2>3 DEF Rows, Statuses, ReviewWrite, ResubmitWrite, UpdateWrite
<1>5. CASE ResubmitWrite(h)
  <2>1. op[h] \in ResubmitOps /\ Exists(op[h].id)
    BY <1>1, <1>2, <1>5, OpKinds DEF ResubmitWrite, Writers
  <2>2. /\ op[h].id \in Ids /\ requests[op[h].id] \in Rows
        /\ op[h].start \in Days \cup {NoDate} /\ op[h].end \in Days \cup {NoDate}
    BY <1>1, <2>1, RequestsAssumption DEF ResubmitOps, Exists
  <2>3. /\ requests' = [requests EXCEPT
              ![op[h].id].status = "pending",
              ![op[h].id].start  = COALESCE(op[h].start, @, NoDate),
              ![op[h].id].end    = COALESCE(op[h].end, @, NoDate)]
        /\ op[h].pc = "resubmit"
    BY <1>5 DEF ResubmitWrite
  <2> QED BY <1>1, <2>1, <2>2, <2>3
             DEF COALESCE, Rows, Statuses, ReviewWrite, CancelWrite, UpdateWrite
<1>6. CASE UpdateWrite(h)
  <2>1. op[h] \in UpdateOps /\ Exists(op[h].id)
    BY <1>1, <1>2, <1>6, OpKinds DEF UpdateWrite, Writers
  <2>2. /\ op[h].id \in Ids /\ requests[op[h].id] \in Rows
        /\ op[h].start \in Days /\ op[h].end \in Days /\ op[h].days \in Days
        /\ op[h].type \in Types \cup {NoType}
    BY <1>1, <2>1, RequestsAssumption DEF UpdateOps, Exists
  <2>3. /\ requests' = [requests EXCEPT
              ![op[h].id].start = op[h].start,
              ![op[h].id].end   = op[h].end,
              ![op[h].id].days  = op[h].days,
              ![op[h].id].type  = COALESCE(op[h].type, @, NoType)]
        /\ op[h].pc = "update"
    BY <1>6 DEF UpdateWrite
  <2> QED BY <1>1, <2>1, <2>2, <2>3 DEF COALESCE, Rows, ReviewWrite, CancelWrite, ResubmitWrite
<1> QED BY <1>3, <1>4, <1>5, <1>6

\* A creation leaves the other rows alone and stores a pending one.
LEMMA Creates ==
  ASSUME TypeInv, NEW h \in Handlers, CreateInsert(h)
  PROVE  /\ op[h] \in CreateOps
         /\ \E id \in Ids :
              /\ ~Exists(id)
              /\ \A i \in Ids \ {id} : requests'[i] = requests[i]
              /\ requests'[id].status = "pending"
              /\ requests'[id].worker = op[h].worker
              /\ requests'[id].start = op[h].start /\ requests'[id].end = op[h].end
<1>1. op[h] \in CreateOps /\ requests \in [Ids -> Rows \cup {NoRow}]
  BY OpKinds DEF CreateInsert, TypeInv, TypeOK
<1>2. PICK id \in Ids :
        /\ ~Exists(id)
        /\ requests' = [requests EXCEPT ![id] =
             [worker |-> op[h].worker, type |-> op[h].type,
              start |-> op[h].start, end |-> op[h].end,
              days |-> DaysFrom(op[h].start, op[h].end),
              status |-> "pending", override |-> op[h].override]]
  BY DEF CreateInsert
<1> QED BY <1>1, <1>2

\* Every step keeps it: a decision leaves its handler telling, and a notification
\* that is told says the status the row still has.
LEMMA ToldNext ==
  ASSUME Alone, TypeInv, ReadsHold, ToldOrTelling, [Next]_vars
  PROVE  ToldOrTelling'
<1>1. CASE UNCHANGED vars
  BY <1>1 DEF vars, ToldOrTelling, Exists
<1>2. CASE Next
  <2>1. PICK h \in Handlers : Call(h) \/ Step(h) \/ Fail(h)
    BY <1>2 DEF Next
  <2>2. /\ op[h] \in Ops /\ requests \in [Ids -> Rows \cup {NoRow}]
        /\ workerInbox \in [Ids -> Notices \cup {"none"}] /\ failures \in 0 .. MaxFailures
    BY DEF TypeInv, TypeOK
  <2>3. CASE Fail(h)
    <3>1. failures' # 0
      BY <2>2, <2>3, RequestsAssumption DEF Fail
    <3> QED BY <3>1 DEF ToldOrTelling
  <2>4. CASE CreateStart(h) \/ ReviewRead(h) \/ CancelRead(h) \/ ResubmitRead(h) \/ UpdateRead(h)
             \/ CreateAssess(h) \/ CreateOverlap(h) \/ UpdateOverlap(h) \/ NotifyStaff(h)
    <3>1. UNCHANGED <<requests, workerInbox, failures>> /\ op[h].pc # "notifyWorker"
      BY <2>4 DEF CreateStart, ReviewRead, CancelRead, ResubmitRead, UpdateRead, CreateAssess,
                  CreateOverlap, UpdateOverlap, NotifyStaff, Silent, Idle
    <3> QED BY <3>1, NothingToTell DEF Exists
  <2>5. CASE CreateInsert(h)
    <3>1. /\ UNCHANGED <<workerInbox, failures>> /\ op[h].pc # "notifyWorker"
      BY <2>5 DEF CreateInsert, Silent
    <3>2. \A i \in Ids : (Exists(i)' /\ requests'[i].status # "pending") =>
             Exists(i) /\ requests[i].status = requests'[i].status
      BY <2>5, Creates DEF Exists
    <3> QED BY <3>1, <3>2, NothingToTell
  <2>6. CASE ResubmitWrite(h) \/ UpdateWrite(h)
    <3>1. /\ UNCHANGED <<workerInbox, failures>> /\ op[h].pc # "notifyWorker"
      BY <2>6 DEF ResubmitWrite, UpdateWrite, Silent
    <3>2. \A i \in Ids : (Exists(i)' /\ requests'[i].status # "pending") =>
             Exists(i) /\ requests[i].status = requests'[i].status
      BY <2>6, Writes DEF Exists
    <3> QED BY <3>1, <3>2, NothingToTell
  <2>7. CASE ReviewWrite(h) \/ CancelWrite(h)
    <3>1. /\ UNCHANGED <<workerInbox, failures>> /\ op[h].pc # "notifyWorker"
      BY <2>7 DEF ReviewWrite, CancelWrite, Silent
    <3>2. op'[h].pc = "notifyWorker" /\ op'[h].id = op[h].id
      BY <2>7 DEF ReviewWrite, CancelWrite, Continue, TypeInv, TypeOK
    <3>3. \A g \in Handlers : op[g].pc # "notifyWorker"
      BY <3>1 DEF Alone
    <3>4. \A i \in Ids \ {op[h].id} : requests'[i] = requests[i]
      BY <2>7, Writes
    <3> QED BY <3>1, <3>2, <3>3, <3>4 DEF ToldOrTelling, Exists
  <2>8. CASE NotifyWorker(h)
    <3>1. op[h] \in NotifyOps
      BY <2>2, <2>8, OpKinds DEF NotifyWorker
    <3>2. op[h].id \in Ids /\ UNCHANGED <<requests, failures>>
      BY <2>8, <3>1 DEF NotifyWorker, NotifyOps
    <3>3. workerInbox' = [workerInbox EXCEPT ![op[h].id] = requests[op[h].id].status]
      BY <2>8 DEF NotifyWorker, ReadsHold
    <3>4. \A g \in Handlers : op[g].pc = "notifyWorker" => op[g].id = op[h].id
      BY DEF Alone
    <3>5. \A i \in Ids : workerInbox'[i] = IF i = op[h].id THEN requests[i].status ELSE workerInbox[i]
      BY <2>2, <3>2, <3>3
    <3> QED BY <3>2, <3>4, <3>5 DEF ToldOrTelling, Exists
  <2> QED BY <2>1, <2>3, <2>4, <2>5, <2>6, <2>7, <2>8 DEF Call, Step
<1> QED BY <1>1, <1>2

\* The worker knows: with nothing in progress and no failed query, the last
\* notification about a decided request tells its status, whatever sequence of
\* decisions, resubmissions, edits and cancellations led to it.
THEOREM WorkersKnow ==
  ASSUME Alone
  PROVE  Spec => []WorkerKnowsVerdict
<1>1. Init => ToldOrTelling
  BY DEF Init, ToldOrTelling, Exists
<1>2. TypeInv /\ ReadsHold /\ ToldOrTelling /\ [Next]_vars => ToldOrTelling'
  BY ToldNext
<1>3. ToldOrTelling => WorkerKnowsVerdict
  BY DEF ToldOrTelling, WorkerKnowsVerdict, Idle
<1>4. Spec => [](TypeInv /\ ReadsHold)
  BY ReadsInvariance
<1> QED BY <1>1, <1>2, <1>3, <1>4, PTL DEF Spec

-------------------------------------------------------------------------------
(* Requests of a worker do not overlap *)

\* OVERLAPS does not depend on the order of the periods.
LEMMA OverlapsBothWays ==
  ASSUME NEW a \in Int, NEW b \in Int, NEW c \in Int, NEW d \in Int
  PROVE  OVERLAPS(a, b, c, d) = OVERLAPS(c, d, a, b)
BY DEF OVERLAPS

\* A period of a worker is clear of the live requests with other ids.
Clear(worker, start, end, except) ==
  \A i \in Ids \ except :
    (Exists(i) /\ requests[i].worker = worker /\ requests[i].status \in Live)
      => ~OVERLAPS(requests[i].start, requests[i].end, start, end)

\* What the overlap check found clear is so until it is written; an edit without
\* dates writes those of its row, which is live.
PlansClear ==
  \A h \in Handlers :
    /\ op[h].pc = "insert" => Clear(op[h].worker, op[h].start, op[h].end, {})
    /\ op[h].pc \in {"recheck", "update"} => op[h].worker = requests[op[h].id].worker
    /\ op[h].pc = "update" => Clear(op[h].worker, op[h].start, op[h].end, {op[h].id})

Apart ==
  \A id \in Ids : (Exists(id) /\ requests[id].status \in Live)
    => Clear(requests[id].worker, requests[id].start, requests[id].end, {id})

LEMMA ConflictsClear ==
  ASSUME NEW w, NEW s, NEW e, NEW x
  PROVE  Conflicts(w, s, e, x) = {} <=> Clear(w, s, e, x)
BY DEF Conflicts, Clear

LEMMA PlansNext ==
  ASSUME Alone, TypeInv, ReadsHold, PlansClear, Apart, [Next]_vars
  PROVE  PlansClear'
<1>1. CASE UNCHANGED vars
  BY <1>1 DEF vars, PlansClear, Clear, Exists
<1>2. CASE Next
  <2>1. PICK h \in Handlers : Call(h) \/ Step(h) \/ Fail(h)
    BY <1>2 DEF Next
  <2>2. op[h] \in Ops /\ requests \in [Ids -> Rows \cup {NoRow}]
    BY DEF TypeInv, TypeOK
  <2>3. ASSUME NEW next, Continue(h, next), next.pc \notin {"insert", "recheck", "update"}
        PROVE  PlansClear'
    BY <2>3, OnlyHandler DEF PlansClear
  <2>4. ASSUME NEW next, Continue(h, next), UNCHANGED requests,
               next.pc = "insert" => Clear(next.worker, next.start, next.end, {}),
               next.pc \in {"recheck", "update"} => next.worker = requests[next.id].worker,
               next.pc = "update" => Clear(next.worker, next.start, next.end, {next.id})
        PROVE  PlansClear'
    BY <2>4, OnlyHandler DEF PlansClear, Clear, Exists
  <2>5. ASSUME Finish(h)
        PROVE  PlansClear'
    BY <2>3, <2>5 DEF Finish, Idle
  <2>6. CASE CreateStart(h)
    <3>1. PICK w \in Workers, t \in Types, s, e \in Days :
            Continue(h, [pc |-> IF t \in VacationTypes THEN "assess" ELSE "overlap",
                         worker |-> w, type |-> t, start |-> s, end |-> e, override |-> FALSE])
      BY <2>6 DEF CreateStart
    <3> QED BY <2>3, <3>1
  <2>7. CASE CreateAssess(h)
    <3>1. op[h] \in CreateOps
      BY <2>2, <2>7, OpKinds DEF CreateAssess
    <3> DEFINE next == [op[h] EXCEPT
          !.pc = "overlap",
          !.override = IF DaysFrom(op[h].start, op[h].end) > AvailableDays(op[h].worker)
                       THEN TRUE ELSE FALSE]
    <3>2. next.pc = "overlap" /\ Continue(h, next)
      BY <2>7, <3>1 DEF CreateAssess, CreateOps
    <3> HIDE DEF next
    <3> QED BY <2>3, <3>2
  <2>8. CASE CreateOverlap(h)
    <3>1. op[h] \in CreateOps
      BY <2>2, <2>8, OpKinds DEF CreateOverlap
    <3> DEFINE next == [op[h] EXCEPT !.pc = "insert"]
    <3>2. /\ next.pc = "insert" /\ next.worker = op[h].worker
          /\ next.start = op[h].start /\ next.end = op[h].end
      BY <3>1 DEF CreateOps
    <3>3. \/ Continue(h, next) /\ Clear(op[h].worker, op[h].start, op[h].end, {})
          \/ Finish(h)
      BY <2>8, ConflictsClear DEF CreateOverlap
    <3>4. UNCHANGED requests
      BY <2>8 DEF CreateOverlap
    <3> HIDE DEF next
    <3> QED BY <2>4, <2>5, <3>2, <3>3, <3>4
  <2>9. CASE CreateInsert(h)
    <3>1. PICK id \in Ids : Continue(h, [pc |-> "notifyStaff", id |-> id, notice |-> "created"])
      BY <2>9 DEF CreateInsert
    <3> QED BY <2>3, <3>1
  <2>10. CASE ReviewRead(h) \/ CancelRead(h) \/ ResubmitRead(h)
    <3>1. CASE ReviewRead(h)
      <4>1. PICK id \in Ids, d \in Decisions :
              Continue(h, [pc |-> "review", id |-> id, decision |-> d])
        BY <3>1 DEF ReviewRead
      <4> QED BY <2>3, <4>1
    <3>2. CASE CancelRead(h)
      <4>1. PICK id \in Ids : Continue(h, [pc |-> "cancel", id |-> id])
        BY <3>2 DEF CancelRead
      <4> QED BY <2>3, <4>1
    <3>3. CASE ResubmitRead(h)
      <4>1. PICK id \in Ids, s, e \in ResubmitDays :
              Continue(h, [pc |-> "resubmit", id |-> id, start |-> s, end |-> e])
        BY <3>3 DEF ResubmitRead
      <4> QED BY <2>3, <4>1
    <3> QED BY <2>10, <3>1, <3>2, <3>3
  <2>11. CASE UpdateRead(h)
    <3>1. PICK id \in Ids, s, e \in EditDays, t \in EditTypes :
            /\ Exists(id)
            /\ requests[id].status \in {"pending", "observed"}
            /\ LET row == requests[id]
                   dated == s # NoDate \/ e # NoDate
                   start == COALESCE(s, row.start, NoDate)
                   end   == COALESCE(e, row.end, NoDate)
               IN  Continue(h, [pc |-> IF dated THEN "recheck" ELSE "update",
                                id |-> id, worker |-> row.worker, type |-> t,
                                start |-> start, end |-> end,
                                days |-> IF dated THEN DaysFrom(start, end) ELSE row.days])
      BY <2>11 DEF UpdateRead
    <3> DEFINE row == requests[id]
               dated == s # NoDate \/ e # NoDate
               start == COALESCE(s, row.start, NoDate)
               end   == COALESCE(e, row.end, NoDate)
               days  == IF dated THEN DaysFrom(start, end) ELSE row.days
               next  == [pc |-> IF dated THEN "recheck" ELSE "update",
                         id |-> id, worker |-> row.worker, type |-> t,
                         start |-> start, end |-> end, days |-> days]
    <3>2. Continue(h, next)
      BY <3>1
    <3>3. ~dated => start = row.start /\ end = row.end
      BY DEF COALESCE
    <3>4. Clear(row.worker, row.start, row.end, {id})
      BY <3>1 DEF Apart, Live
    <3>5. UNCHANGED requests
      BY <2>11 DEF UpdateRead
    <3> HIDE DEF dated, start, end, days
    <3>6. /\ next.pc = "update" => Clear(next.worker, next.start, next.end, {next.id})
          /\ next.pc # "insert" /\ next.worker = requests[next.id].worker
      BY <3>3, <3>4
    <3> HIDE DEF next
    <3> QED BY <2>4, <3>2, <3>5, <3>6
  <2>12. CASE UpdateOverlap(h)
    <3>1. op[h] \in UpdateOps
      BY <2>2, <2>12, OpKinds DEF UpdateOverlap
    <3> DEFINE next == [op[h] EXCEPT !.pc = "update"]
    <3>2. /\ next.pc = "update" /\ next.worker = op[h].worker /\ next.id = op[h].id
          /\ next.start = op[h].start /\ next.end = op[h].end
      BY <3>1 DEF UpdateOps
    <3>3. \/ Continue(h, next) /\ Clear(op[h].worker, op[h].start, op[h].end, {op[h].id})
          \/ Finish(h)
      BY <2>12, ConflictsClear DEF UpdateOverlap
    <3>4. UNCHANGED requests /\ op[h].worker = requests[op[h].id].worker
      BY <2>12 DEF UpdateOverlap, PlansClear
    <3> HIDE DEF next
    <3> QED BY <2>4, <2>5, <3>2, <3>3, <3>4
  <2>13. CASE ReviewWrite(h)
    BY <2>3, <2>13 DEF ReviewWrite
  <2>14. CASE CancelWrite(h)
    BY <2>3, <2>14 DEF CancelWrite
  <2>15. CASE ResubmitWrite(h)
    BY <2>3, <2>15 DEF ResubmitWrite
  <2>16. CASE UpdateWrite(h) \/ NotifyStaff(h) \/ NotifyWorker(h) \/ Fail(h)
    BY <2>5, <2>16 DEF UpdateWrite, NotifyStaff, NotifyWorker, Fail
  <2> QED BY <2>1, <2>6, <2>7, <2>8, <2>9, <2>10, <2>11, <2>12, <2>13, <2>14, <2>15, <2>16
             DEF Call, Step
<1> QED BY <1>1, <1>2

\* A row that is clear of the others keeps them apart when it is stored.
LEMMA ClearRowStored ==
  ASSUME TypeInv, TypeInv', Apart, NEW id \in Ids,
         \A i \in Ids \ {id} : requests'[i] = requests[i],
         requests'[id] # NoRow,
         requests'[id].status \in Live =>
           Clear(requests'[id].worker, requests'[id].start, requests'[id].end, {id})
  PROVE  Apart'
<1>1. ASSUME NEW i \in Ids, Exists(i), Exists(i)'
      PROVE  /\ requests[i] \in Rows /\ requests'[i] \in Rows
             /\ requests[i].start \in Int /\ requests[i].end \in Int
             /\ requests'[i].start \in Int /\ requests'[i].end \in Int
  BY <1>1 DEF TypeInv, TypeOK, Exists, Rows, Days
<1>2. ASSUME NEW i \in Ids, NEW j \in Ids \ {i}, Exists(i)', Exists(j)',
             requests'[i].status \in Live, requests'[j].status \in Live,
             requests'[i].worker = requests'[j].worker
      PROVE  ~OVERLAPS(requests'[j].start, requests'[j].end, requests'[i].start, requests'[i].end)
  <2>1. CASE i = id
    BY <1>2, <2>1 DEF Clear, Exists
  <2>2. CASE j = id
    <3>1. requests'[i] = requests[i] /\ Exists(i)
      BY <1>2, <2>2 DEF Exists
    <3>2. ~OVERLAPS(requests'[i].start, requests'[i].end, requests'[j].start, requests'[j].end)
      BY <1>2, <2>2, <3>1 DEF Clear
    <3>3. /\ requests'[i].start \in Int /\ requests'[i].end \in Int
          /\ requests'[j].start \in Int /\ requests'[j].end \in Int
      BY <1>2 DEF TypeInv, TypeOK, Exists, Rows, Days
    <3> QED BY <3>2, <3>3, OverlapsBothWays
  <2>3. CASE i # id /\ j # id
    BY <1>2, <2>3 DEF Apart, Clear, Exists
  <2> QED BY <2>1, <2>2, <2>3
<1> QED BY <1>2 DEF Apart, Clear

LEMMA ApartNext ==
  ASSUME ResubmitDays \subseteq {NoDate},
         Alone, TypeInv, ReadsHold, PlansClear, Apart, [Next]_vars
  PROVE  Apart'
<1>1. CASE UNCHANGED requests
  BY <1>1 DEF Apart, Clear, Exists
<1>2. CASE UNCHANGED vars
  BY <1>1, <1>2 DEF vars
<1>3. CASE Next
  <2>1. PICK h \in Handlers : Call(h) \/ Step(h) \/ Fail(h)
    BY <1>3 DEF Next
  <2>2. TypeInv' /\ op[h] \in Ops
    BY TypeNext DEF TypeInv, TypeOK
  <2>3. CASE CreateInsert(h)
    <3>1. PICK id \in Ids :
            /\ ~Exists(id)
            /\ \A i \in Ids \ {id} : requests'[i] = requests[i]
            /\ requests'[id].worker = op[h].worker
            /\ requests'[id].start = op[h].start /\ requests'[id].end = op[h].end
      BY <2>3, Creates
    <3>2. Clear(op[h].worker, op[h].start, op[h].end, {id})
      BY <2>3 DEF CreateInsert, PlansClear, Clear
    <3>3. requests'[id] # NoRow \/ UNCHANGED requests
      <4>1. CASE requests'[id] = NoRow
        <5>1. requests \in [Ids -> Rows \cup {NoRow}] /\ requests' \in [Ids -> Rows \cup {NoRow}]
          BY <2>2 DEF TypeInv, TypeOK
        <5>2. \A i \in Ids : requests'[i] = requests[i]
          BY <3>1, <4>1 DEF Exists
        <5> QED BY <5>1, <5>2
      <4> QED BY <4>1
    <3> QED BY <1>1, <2>2, <3>1, <3>2, <3>3, ClearRowStored
  \* A write that keeps the dates, and makes no row live that was not.
  <2>4. ASSUME NEW id \in Ids, requests[id] \in Rows, requests'[id] \in Rows, Exists(id),
               \A i \in Ids \ {id} : requests'[i] = requests[i],
               requests'[id].worker = requests[id].worker,
               requests'[id].start = requests[id].start, requests'[id].end = requests[id].end,
               requests[id].status \in Live
        PROVE  Apart'
    <3>1. requests'[id] # NoRow
      BY <2>4, RequestsAssumption
    <3>2. Clear(requests[id].worker, requests[id].start, requests[id].end, {id})
      BY <2>4 DEF Apart
    <3> QED BY <2>2, <2>4, <3>1, <3>2, ClearRowStored
  <2>5. CASE ReviewWrite(h) \/ CancelWrite(h)
    <3> DEFINE id == op[h].id
    <3>1. /\ id \in Ids /\ Exists(id) /\ requests[id] \in Rows /\ requests'[id] \in Rows
          /\ \A i \in Ids \ {id} : requests'[i] = requests[i]
          /\ requests'[id].worker = requests[id].worker
          /\ requests'[id].start = requests[id].start /\ requests'[id].end = requests[id].end
      BY <2>5, Writes
    <3>2. requests[id].status \in Live
      BY <2>5 DEF ReviewWrite, CancelWrite, ReadsHold, Live
    <3> HIDE DEF id
    <3> QED BY <2>4, <3>1, <3>2
  <2>6. CASE ResubmitWrite(h)
    <3> DEFINE id == op[h].id
    <3>1. op[h] \in ResubmitOps
      BY <2>2, <2>6, OpKinds DEF ResubmitWrite
    <3>2. op[h].start = NoDate /\ op[h].end = NoDate
      BY <3>1 DEF ResubmitOps
    <3>3. /\ id \in Ids /\ Exists(id) /\ requests[id] \in Rows /\ requests'[id] \in Rows
          /\ \A i \in Ids \ {id} : requests'[i] = requests[i]
          /\ requests'[id].worker = requests[id].worker
          /\ requests'[id].start = requests[id].start /\ requests'[id].end = requests[id].end
      BY <2>6, <3>2, Writes DEF COALESCE
    <3>4. requests[id].status \in Live
      BY <2>6 DEF ResubmitWrite, ReadsHold, Live
    <3> HIDE DEF id
    <3> QED BY <2>4, <3>3, <3>4
  <2>7. CASE UpdateWrite(h)
    <3> DEFINE id == op[h].id
    <3>1. /\ id \in Ids /\ requests'[id] \in Rows
          /\ \A i \in Ids \ {id} : requests'[i] = requests[i]
          /\ requests'[id].worker = requests[id].worker
          /\ requests'[id].start = op[h].start /\ requests'[id].end = op[h].end
      BY <2>7, Writes
    <3>2. Clear(requests[id].worker, op[h].start, op[h].end, {id})
      BY <2>7 DEF UpdateWrite, PlansClear
    <3>3. requests'[id] # NoRow
      BY <3>1, RequestsAssumption
    <3> HIDE DEF id
    <3> QED BY <2>2, <3>1, <3>2, <3>3, ClearRowStored
  <2> QED BY <1>1, <2>1, <2>3, <2>5, <2>6, <2>7
             DEF Call, Step, Fail, CreateStart, ReviewRead, CancelRead, ResubmitRead,
                 UpdateRead, CreateAssess, CreateOverlap, UpdateOverlap,
                 NotifyStaff, NotifyWorker
<1> QED BY <1>2, <1>3

\* No two live requests of a worker overlap, as SQL understands it, as long as no
\* two handlers interleave and resubmissions carry no dates, which nobody checks.
THEOREM NeverBookedTwice ==
  ASSUME Alone, ResubmitDays \subseteq {NoDate}
  PROVE  Spec => []NoDoubleBooking
<1>1. Init => PlansClear /\ Apart
  BY DEF Init, PlansClear, Apart, Exists, Idle
<1>2. TypeInv /\ ReadsHold /\ PlansClear /\ Apart /\ [Next]_vars => PlansClear' /\ Apart'
  BY PlansNext, ApartNext
<1>3. Apart => NoDoubleBooking
  BY ConflictsClear DEF Apart, NoDoubleBooking
<1>4. Spec => [](TypeInv /\ ReadsHold)
  BY ReadsInvariance
<1> QED BY <1>1, <1>2, <1>3, <1>4, PTL DEF Spec

-------------------------------------------------------------------------------
(***************************************************************************)
(* The balance.  A sum over a set is a fold, defined by recursion on the   *)
(* set: it is shown to be the size of a heap with so many pieces for each  *)
(* element, which grows by those of each element it gets.                  *)
(***************************************************************************)

Heap(g, s) == {p \in s \X Nat : p[2] < g[p[1]]}

Total(g, s) == Cardinality(Heap(g, s))

LEMMA LeastIsThere ==
  ASSUME NEW T \in SUBSET Nat, T # {}
  PROVE  \E x \in T : \A y \in T : x <= y
<1>1. PICK x \in T : \A y \in T : ~(<<y, x>> \in OpToRel(<, Nat))
  BY NatLessThanWellFounded, WFMin
<1>2. ASSUME NEW y \in T PROVE x <= y
  <2>1. x \in Nat /\ y \in Nat
    OBVIOUS
  <2>2. y < x => <<y, x>> \in OpToRel(<, Nat)
    BY <2>1 DEF OpToRel
  <2>3. ~(y < x)
    BY <1>1, <2>2, Zenon
  <2> QED BY <2>1, <2>3
<1> QED BY <1>2

\* The pieces of one element are as many as it has.
LEMMA PiecesOfOne ==
  ASSUME NEW x, NEW n \in Nat
  PROVE  IsFiniteSet({x} \X (0 .. n - 1)) /\ Cardinality({x} \X (0 .. n - 1)) = n
<1> DEFINE one == {x}
           pieces == 0 .. n - 1
<1>1. IsFiniteSet(one) /\ Cardinality(one) = 1
  BY FS_Singleton
<1>2. IsFiniteSet(pieces) /\ Cardinality(pieces) = n
  BY FS_Interval
<1> HIDE DEF one, pieces
<1>3. /\ IsFiniteSet(one \X pieces)
      /\ Cardinality(one \X pieces) = Cardinality(one) * Cardinality(pieces)
  BY <1>1, <1>2, FS_Product
<1>4. Cardinality(one \X pieces) = n
  BY <1>1, <1>2, <1>3
<1> QED BY <1>3, <1>4 DEF one, pieces

LEMMA HeapGrows ==
  ASSUME NEW S, NEW g \in [S -> Nat], NEW s \in SUBSET S, NEW x \in s,
         IsFiniteSet(Heap(g, s \ {x}))
  PROVE  /\ IsFiniteSet(Heap(g, s))
         /\ Total(g, s) = g[x] + Total(g, s \ {x})
<1> DEFINE rest == Heap(g, s \ {x})
           own  == {x} \X (0 .. g[x] - 1)
<1>1. Heap(g, s) = rest \cup own /\ rest \cap own = {}
  BY DEF Heap
<1>2. IsFiniteSet(own) /\ Cardinality(own) = g[x] /\ g[x] \in Nat
  BY PiecesOfOne
<1> HIDE DEF rest, own
<1>3. Cardinality(rest \cap own) = 0
  BY <1>1, FS_EmptySet
<1>4. /\ IsFiniteSet(rest \cup own)
      /\ Cardinality(rest \cup own) = Cardinality(rest) + Cardinality(own) - Cardinality(rest \cap own)
      /\ Cardinality(rest) \in Nat
  BY <1>2, FS_Union, FS_CardinalityType DEF rest
<1> QED BY <1>1, <1>2, <1>3, <1>4 DEF Total, rest

LEMMA HeapIsFinite ==
  ASSUME NEW S, IsFiniteSet(S), NEW g \in [S -> Nat], NEW s \in SUBSET S
  PROVE  IsFiniteSet(Heap(g, s)) /\ Total(g, s) \in Nat
<1> DEFINE Bad == {n \in Nat : \E t \in SUBSET S : Cardinality(t) = n /\ ~IsFiniteSet(Heap(g, t))}
<1>1. Bad = {}
  <2> SUFFICES ASSUME Bad # {} PROVE FALSE
    OBVIOUS
  <2>1. PICK n \in Bad : \A m \in Bad : n <= m
    BY LeastIsThere
  <2>2. PICK t \in SUBSET S : Cardinality(t) = n /\ ~IsFiniteSet(Heap(g, t))
    BY <2>1
  <2>3. t # {}
    <3>1. Heap(g, {}) = {}
      BY DEF Heap
    <3> QED BY <2>2, <3>1, FS_EmptySet
  <2>4. PICK x \in t : TRUE
    BY <2>3
  <2>5. IsFiniteSet(t) /\ Cardinality(t \ {x}) = n - 1 /\ Cardinality(t \ {x}) \in Nat
    BY <2>2, <2>4, FS_Subset, FS_RemoveElement, FS_CardinalityType
  <2>6. n - 1 \notin Bad /\ n - 1 \in Nat
    BY <2>1, <2>5
  <2>7. IsFiniteSet(Heap(g, t \ {x}))
    BY <2>5, <2>6
  <2> QED BY <2>2, <2>4, <2>7, HeapGrows
<1>2. IsFiniteSet(s) /\ Cardinality(s) \in Nat
  BY FS_Subset, FS_CardinalityType
<1>3. IsFiniteSet(Heap(g, s))
  BY <1>1, <1>2
<1> QED BY <1>3, FS_CardinalityType DEF Total

\* The fold of MapThenSumSet, of the numbers g
Folds(g, h, S) ==
  h = [s \in SUBSET S |-> IF s = {} THEN 0
                          ELSE LET x == CHOOSE x \in s : TRUE IN g[x] + h[s \ {x}]]

LEMMA FoldExists ==
  ASSUME NEW S, IsFiniteSet(S), NEW g \in [S -> Nat]
  PROVE  \E h : Folds(g, h, S)
<1> DEFINE h == [s \in SUBSET S |-> Total(g, s)]
<1>1. Total(g, {}) = 0
  <2>1. Heap(g, {}) = {}
    BY DEF Heap
  <2> QED BY <2>1, FS_EmptySet DEF Total
<1>2. ASSUME NEW s \in SUBSET S, s # {}
      PROVE  Total(g, s) = g[CHOOSE x \in s : TRUE] + h[s \ {CHOOSE x \in s : TRUE}]
  <2> DEFINE x == CHOOSE x \in s : TRUE
  <2>1. x \in s
    BY <1>2
  <2> HIDE DEF x
  <2>2. IsFiniteSet(Heap(g, s \ {x}))
    BY HeapIsFinite
  <2>3. Total(g, s) = g[x] + Total(g, s \ {x}) /\ s \ {x} \in SUBSET S
    BY <2>1, <2>2, HeapGrows
  <2> QED BY <2>3 DEF x
<1>3. Folds(g, h, S)
  BY <1>1, <1>2 DEF Folds
<1> QED BY <1>3

LEMMA FoldIsTotal ==
  ASSUME NEW S, IsFiniteSet(S), NEW g \in [S -> Nat], NEW h, Folds(g, h, S)
  PROVE  h[S] = Total(g, S)
<1> DEFINE Bad == {n \in Nat : \E t \in SUBSET S : Cardinality(t) = n /\ h[t] # Total(g, t)}
<1>1. Bad = {}
  <2> SUFFICES ASSUME Bad # {} PROVE FALSE
    OBVIOUS
  <2>1. PICK n \in Bad : \A m \in Bad : n <= m
    BY LeastIsThere
  <2>2. PICK t \in SUBSET S : Cardinality(t) = n /\ h[t] # Total(g, t)
    BY <2>1
  <2>3. t # {}
    <3>1. Heap(g, {}) = {} /\ h[{}] = 0
      BY DEF Heap, Folds
    <3> QED BY <2>2, <3>1, FS_EmptySet DEF Total
  <2> DEFINE x == CHOOSE x \in t : TRUE
  <2>4. x \in t /\ h[t] = g[x] + h[t \ {x}]
    BY <2>3 DEF Folds
  <2> HIDE DEF x
  <2>5. IsFiniteSet(t) /\ Cardinality(t \ {x}) = n - 1 /\ Cardinality(t \ {x}) \in Nat
    BY <2>2, <2>4, FS_Subset, FS_RemoveElement, FS_CardinalityType
  <2>6. n - 1 \notin Bad /\ n - 1 \in Nat
    BY <2>1, <2>5
  <2>7. h[t \ {x}] = Total(g, t \ {x})
    BY <2>5, <2>6
  <2>8. IsFiniteSet(Heap(g, t \ {x}))
    BY HeapIsFinite
  <2> QED BY <2>2, <2>4, <2>7, <2>8, HeapGrows
<1>2. Cardinality(S) \in Nat
  BY FS_CardinalityType
<1> QED BY <1>1, <1>2

\* The sum of days_requested, and that of the lengths of the periods
LEMMA DaysSummed ==
  ASSUME NEW S, IsFiniteSet(S), NEW g \in [S -> Nat],
         \A id \in S : requests[id].days = g[id]
  PROVE  MapThenSumSet(LAMBDA id : requests[id].days, S) = Total(g, S)
<1> DEFINE Body(h) ==
             [s \in SUBSET S |-> IF s = {} THEN 0
                ELSE LET x == CHOOSE x \in s : TRUE
                     IN  requests[x].days + h[s \ {x}]]
           it == CHOOSE h : h = Body(h)
<1>1. MapThenSumSet(LAMBDA id : requests[id].days, S) = it[S]
  BY DEF MapThenSumSet, MapThenFoldSet
<1>2. ASSUME NEW h PROVE h = Body(h) <=> Folds(g, h, S)
  <2>1. ASSUME NEW s \in SUBSET S, s # {}
        PROVE  (CHOOSE x \in s : TRUE) \in S
    BY <2>1
  <2>2. ASSUME NEW s \in SUBSET S, s # {}
        PROVE  requests[CHOOSE x \in s : TRUE].days = g[CHOOSE x \in s : TRUE]
    BY <2>1, <2>2
  <2> QED BY <2>2 DEF Folds
<1> HIDE DEF Body
<1>3. \E h : h = Body(h)
  BY <1>2, FoldExists
<1>4. it = Body(it)
  BY <1>3
<1> HIDE DEF it
<1> QED BY <1>1, <1>2, <1>4, FoldIsTotal

LEMMA PeriodsSummed ==
  ASSUME NEW S, IsFiniteSet(S), NEW g \in [S -> Nat],
         \A id \in S : (requests[id].end - requests[id].start + 1) = g[id]
  PROVE  MapThenSumSet(LAMBDA id : requests[id].end - requests[id].start + 1, S) = Total(g, S)
<1> DEFINE Body(h) ==
             [s \in SUBSET S |-> IF s = {} THEN 0
                ELSE LET x == CHOOSE x \in s : TRUE
                     IN  (requests[x].end - requests[x].start + 1) + h[s \ {x}]]
           it == CHOOSE h : h = Body(h)
<1>1. MapThenSumSet(LAMBDA id : requests[id].end - requests[id].start + 1, S) = it[S]
  BY DEF MapThenSumSet, MapThenFoldSet
<1>2. ASSUME NEW h PROVE h = Body(h) <=> Folds(g, h, S)
  <2>1. ASSUME NEW s \in SUBSET S, s # {}
        PROVE  (CHOOSE x \in s : TRUE) \in S
    BY <2>1
  <2>2. ASSUME NEW s \in SUBSET S, s # {}
        PROVE  requests[CHOOSE x \in s : TRUE].end - requests[CHOOSE x \in s : TRUE].start + 1
                 = g[CHOOSE x \in s : TRUE]
    BY <2>1, <2>2
  <2> QED BY <2>2 DEF Folds
<1> HIDE DEF Body
<1>3. \E h : h = Body(h)
  BY <1>2, FoldExists
<1>4. it = Body(it)
  BY <1>3
<1> HIDE DEF it
<1> QED BY <1>1, <1>2, <1>4, FoldIsTotal

\* Vacation days of a worker's requests that are live
Booked(w) == Total([id \in VacationRows(w) |-> requests[id].days], VacationRows(w))

\* The balance the code reads is what is left of those generated; counted by the
\* dates, the days of the requests not refused or withdrawn are the same.
LEMMA DaysBooked ==
  ASSUME TypeInv, NEW w \in Workers
  PROVE  /\ Booked(w) \in Nat
         /\ AvailableDays(w) = Accrued[w] - Booked(w)
         /\ DaysMatchDates => VacationDays(w) = Booked(w)
<1> DEFINE S == VacationRows(w)
           g == [id \in S |-> requests[id].days]
<1>1. ASSUME NEW id \in S
      PROVE  id \in Ids /\ Exists(id) /\ requests[id] \in Rows /\ requests[id].days \in Nat
  BY <1>1 DEF VacationRows, TypeInv, TypeOK, Exists, Rows, Days
<1>2. IsFiniteSet(S)
  <2>1. S \subseteq Ids
    BY <1>1
  <2> QED BY <2>1, FS_Subset, RequestsAssumption
<1>3. g \in [S -> Nat]
  BY <1>1
<1>4. \A id \in S : requests[id].days = g[id]
  OBVIOUS
<1>5. {id \in Ids : /\ Exists(id)
                    /\ requests[id].worker = w
                    /\ requests[id].type \in VacationTypes
                    /\ requests[id].status \notin {"rejected", "cancelled"}} = S
  <2>1. ASSUME NEW id \in Ids, Exists(id)
        PROVE  requests[id].status \in Live <=> requests[id].status \notin {"rejected", "cancelled"}
    BY <2>1 DEF TypeInv, TypeOK, Exists, Rows, Statuses, Decisions, Live
  <2> QED BY <2>1 DEF VacationRows
<1>6. DaysMatchDates => \A id \in S : (requests[id].end - requests[id].start + 1) = g[id]
  BY <1>1 DEF DaysMatchDates, DaysFrom
<1>7. Booked(w) = Total(g, S)
  BY DEF Booked
<1> HIDE DEF g, S
<1>8. Total(g, S) \in Nat
  BY <1>2, <1>3, HeapIsFinite
<1>9. AvailableDays(w) = Accrued[w] - Total(g, S)
  <2>1. MapThenSumSet(LAMBDA id : requests[id].days, S) = Total(g, S)
    BY <1>2, <1>3, <1>4, DaysSummed
  <2> QED BY <2>1 DEF AvailableDays, S
<1>10. DaysMatchDates => VacationDays(w) = Total(g, S)
  <2>1. DaysMatchDates =>
          MapThenSumSet(LAMBDA id : requests[id].end - requests[id].start + 1, S) = Total(g, S)
    BY <1>2, <1>3, <1>6, PeriodsSummed
  <2> QED BY <1>5, <2>1 DEF VacationDays
<1> QED BY <1>7, <1>8, <1>9, <1>10

\* Until the row is stored, the warning tells whether the balance falls short.
BalanceKept ==
  \A h \in Handlers :
    (op[h].pc \in {"overlap", "insert"} /\ op[h].type \in VacationTypes)
    => op[h].override
         = (DaysFrom(op[h].start, op[h].end) > Accrued[op[h].worker] - Booked(op[h].worker))

LEMMA BalanceNext ==
  ASSUME Alone, TypeInv, BalanceKept, [Next]_vars
  PROVE  BalanceKept'
<1>1. ASSUME UNCHANGED requests
      PROVE  \A w : Booked(w)' = Booked(w)
  BY <1>1 DEF Booked, VacationRows, Exists, Total, Heap
<1>2. CASE UNCHANGED vars
  BY <1>1, <1>2 DEF vars, BalanceKept
<1>3. CASE Next
  <2>1. PICK h \in Handlers : Call(h) \/ Step(h) \/ Fail(h)
    BY <1>3 DEF Next
  <2>2. op[h] \in Ops
    BY DEF TypeInv, TypeOK
  <2>3. ASSUME NEW next, Continue(h, next), next.pc \notin {"overlap", "insert"}
        PROVE  BalanceKept'
    BY <2>3, OnlyHandler DEF BalanceKept
  <2>4. ASSUME NEW next, Continue(h, next), UNCHANGED requests,
               next.type \in VacationTypes =>
                 next.override = (DaysFrom(next.start, next.end)
                                    > Accrued[next.worker] - Booked(next.worker))
        PROVE  BalanceKept'
    BY <1>1, <2>4, OnlyHandler DEF BalanceKept
  <2>5. ASSUME Finish(h)
        PROVE  BalanceKept'
    BY <2>3, <2>5 DEF Finish, Idle
  <2>6. CASE CreateStart(h)
    <3>1. PICK w \in Workers, t \in Types, s, e \in Days :
            Continue(h, [pc |-> IF t \in VacationTypes THEN "assess" ELSE "overlap",
                         worker |-> w, type |-> t, start |-> s, end |-> e, override |-> FALSE])
      BY <2>6 DEF CreateStart
    <3>2. CASE t \in VacationTypes
      BY <2>3, <3>1, <3>2
    <3>3. CASE t \notin VacationTypes
      BY <2>4, <2>6, <3>1, <3>3 DEF CreateStart
    <3> QED BY <3>2, <3>3
  <2>7. CASE CreateAssess(h)
    <3> DEFINE short == DaysFrom(op[h].start, op[h].end) > AvailableDays(op[h].worker)
               next == [op[h] EXCEPT !.pc = "overlap", !.override = IF short THEN TRUE ELSE FALSE]
    <3>1. op[h] \in CreateOps
      BY <2>2, <2>7, OpKinds DEF CreateAssess
    <3>2. Continue(h, next) /\ UNCHANGED requests
      BY <2>7 DEF CreateAssess
    <3>3. /\ op[h].worker \in Workers
          /\ DaysFrom(op[h].start, op[h].end) \in Int
          /\ Accrued[op[h].worker] \in Int /\ Booked(op[h].worker) \in Int
          /\ AvailableDays(op[h].worker) = Accrued[op[h].worker] - Booked(op[h].worker)
      <4>1. op[h].worker \in Workers /\ DaysFrom(op[h].start, op[h].end) \in Int
        BY <3>1 DEF CreateOps, Days, DaysFrom
      <4> QED BY <4>1, DaysBooked, RequestsAssumption
    <3>4. short <=> DaysFrom(op[h].start, op[h].end) > Accrued[op[h].worker] - Booked(op[h].worker)
      BY <3>3
    <3> HIDE DEF short
    <3>5. /\ next.override \in BOOLEAN /\ (next.override <=> short)
          /\ next.start = op[h].start /\ next.end = op[h].end /\ next.worker = op[h].worker
      BY <3>1 DEF CreateOps
    <3> HIDE DEF next
    <3>6. next.override
            = (DaysFrom(next.start, next.end) > Accrued[next.worker] - Booked(next.worker))
      BY <3>3, <3>4, <3>5
    <3> QED BY <2>4, <3>2, <3>6
  <2>8. CASE CreateOverlap(h)
    <3> DEFINE next == [op[h] EXCEPT !.pc = "insert"]
    <3>1. op[h] \in CreateOps
      BY <2>2, <2>8, OpKinds DEF CreateOverlap
    <3>2. /\ next.type = op[h].type /\ next.override = op[h].override
          /\ next.start = op[h].start /\ next.end = op[h].end /\ next.worker = op[h].worker
      BY <3>1 DEF CreateOps
    <3>3. (Continue(h, next) \/ Finish(h)) /\ UNCHANGED requests
      BY <2>8 DEF CreateOverlap
    <3>4. op[h].type \in VacationTypes =>
            op[h].override = (DaysFrom(op[h].start, op[h].end)
                                > Accrued[op[h].worker] - Booked(op[h].worker))
      BY <2>8 DEF CreateOverlap, BalanceKept
    <3> HIDE DEF next
    <3> QED BY <2>4, <2>5, <3>2, <3>3, <3>4
  <2>9. CASE CreateInsert(h)
    <3>1. PICK id \in Ids : Continue(h, [pc |-> "notifyStaff", id |-> id, notice |-> "created"])
      BY <2>9 DEF CreateInsert
    <3> QED BY <2>3, <3>1
  <2>10. CASE ReviewRead(h) \/ CancelRead(h) \/ ResubmitRead(h)
    <3>1. CASE ReviewRead(h)
      <4>1. PICK id \in Ids, d \in Decisions :
              Continue(h, [pc |-> "review", id |-> id, decision |-> d])
        BY <3>1 DEF ReviewRead
      <4> QED BY <2>3, <4>1
    <3>2. CASE CancelRead(h)
      <4>1. PICK id \in Ids : Continue(h, [pc |-> "cancel", id |-> id])
        BY <3>2 DEF CancelRead
      <4> QED BY <2>3, <4>1
    <3>3. CASE ResubmitRead(h)
      <4>1. PICK id \in Ids, s, e \in ResubmitDays :
              Continue(h, [pc |-> "resubmit", id |-> id, start |-> s, end |-> e])
        BY <3>3 DEF ResubmitRead
      <4> QED BY <2>3, <4>1
    <3> QED BY <2>10, <3>1, <3>2, <3>3
  <2>11. CASE UpdateRead(h)
    <3>1. \E next : Continue(h, next) /\ next.pc \notin {"overlap", "insert"}
      BY <2>11 DEF UpdateRead
    <3> QED BY <2>3, <3>1
  <2>12. CASE UpdateOverlap(h)
    <3> DEFINE next == [op[h] EXCEPT !.pc = "update"]
    <3>1. op[h] \in UpdateOps
      BY <2>2, <2>12, OpKinds DEF UpdateOverlap
    <3>2. next.pc = "update" /\ (Continue(h, next) \/ Finish(h))
      BY <2>12, <3>1 DEF UpdateOverlap, UpdateOps
    <3> HIDE DEF next
    <3> QED BY <2>3, <2>5, <3>2
  <2>13. CASE ReviewWrite(h)
    BY <2>3, <2>13 DEF ReviewWrite
  <2>14. CASE CancelWrite(h)
    BY <2>3, <2>14 DEF CancelWrite
  <2>15. CASE ResubmitWrite(h)
    BY <2>3, <2>15 DEF ResubmitWrite
  <2>16. CASE UpdateWrite(h) \/ NotifyStaff(h) \/ NotifyWorker(h) \/ Fail(h)
    BY <2>5, <2>16 DEF UpdateWrite, NotifyStaff, NotifyWorker, Fail
  <2> QED BY <2>1, <2>6, <2>7, <2>8, <2>9, <2>10, <2>11, <2>12, <2>13, <2>14, <2>15, <2>16
             DEF Call, Step
<1> QED BY <1>2, <1>3

\* Only a creation makes a row exist.
LEMMA OnlyCreated ==
  ASSUME TypeInv, [Next]_vars, NEW id \in Ids, ~Exists(id), Exists(id)'
  PROVE  \E h \in Handlers : CreateInsert(h)
<1>1. requests' # requests
  BY DEF Exists
<1>2. PICK h \in Handlers : Call(h) \/ Step(h) \/ Fail(h)
  BY <1>1 DEF Next, vars
<1>3. CASE ReviewWrite(h) \/ CancelWrite(h) \/ ResubmitWrite(h) \/ UpdateWrite(h)
  <2>1. Exists(op[h].id) /\ \A i \in Ids \ {op[h].id} : requests'[i] = requests[i]
    BY <1>3, Writes
  <2> QED BY <2>1 DEF Exists
<1> QED BY <1>1, <1>2, <1>3
           DEF Call, Step, Fail, CreateStart, ReviewRead, CancelRead, ResubmitRead,
               UpdateRead, CreateAssess, CreateOverlap, UpdateOverlap,
               NotifyStaff, NotifyWorker

LEMMA FlaggedNext ==
  ASSUME TypeInv, DaysMatchDates, BalanceKept, [Next]_vars,
         NEW id \in Ids, ~Exists(id), Exists(id)', requests'[id].type \in VacationTypes
  PROVE  requests'[id].override
           = (VacationDays(requests'[id].worker) + requests'[id].days
                > Accrued[requests'[id].worker])
<1>1. PICK h \in Handlers : CreateInsert(h)
  BY OnlyCreated
<1> DEFINE D == DaysFrom(op[h].start, op[h].end)
           w == op[h].worker
<1>2. op[h] \in CreateOps /\ requests \in [Ids -> Rows \cup {NoRow}]
  BY <1>1, OpKinds DEF CreateInsert, TypeInv, TypeOK
<1>3. PICK i \in Ids : requests' = [requests EXCEPT ![i] =
             [worker |-> w, type |-> op[h].type,
              start |-> op[h].start, end |-> op[h].end,
              days |-> D, status |-> "pending", override |-> op[h].override]]
  BY <1>1 DEF CreateInsert
<1>4. i = id
  BY <1>2, <1>3 DEF Exists
<1>5. /\ requests'[id].type = op[h].type /\ requests'[id].worker = w
      /\ requests'[id].days = D /\ requests'[id].override = op[h].override
  BY <1>2, <1>3, <1>4
<1>6. op[h].override = (D > Accrued[w] - Booked(w))
  BY <1>1, <1>5 DEF CreateInsert, BalanceKept
<1>7. D \in Int /\ w \in Workers /\ Accrued[w] \in Int
  BY <1>2, RequestsAssumption DEF CreateOps, Days, DaysFrom
<1>8. VacationDays(w) = Booked(w) /\ Booked(w) \in Nat
  BY <1>7, DaysBooked
<1> HIDE DEF D, w
<1>9. (D > Accrued[w] - Booked(w)) = (VacationDays(w) + D > Accrued[w])
  BY <1>7, <1>8
<1> QED BY <1>5, <1>6, <1>9

\* A vacation is stored with the warning exactly when the worker then has more
\* vacation days, decided or not, than were generated, as long as no two handlers
\* interleave between the balance and the insert and resubmissions carry no dates.
THEOREM OverdraftsFlagged ==
  ASSUME Alone, ResubmitDays \subseteq {NoDate}
  PROVE  Spec => OverdraftFlagged
<1>1. Init => BalanceKept
  BY DEF Init, BalanceKept, Idle
<1>2. TypeInv /\ BalanceKept /\ [Next]_vars => BalanceKept'
  BY BalanceNext
<1>3. TypeInv /\ DaysMatchDates /\ EditsAgree /\ [Next]_vars => DaysMatchDates' /\ EditsAgree'
  BY DaysNext
<1>4. TypeInv /\ DaysMatchDates /\ BalanceKept /\ [Next]_vars =>
        [\A id \in Ids :
           (~Exists(id) /\ Exists(id)' /\ requests'[id].type \in VacationTypes)
           => LET w == requests'[id].worker
              IN  requests'[id].override
                    = (VacationDays(w) + requests'[id].days > Accrued[w])]_vars
  BY FlaggedNext
<1> QED BY <1>1, <1>2, <1>3, <1>4, DaysInit, TypeInit, TypeNext, PTL DEF Spec, OverdraftFlagged

===============================================================================
