------------------------------- MODULE MCRecords -------------------------------
(* Accounts, catalogues, rest days, views of a day, analytics and payroll, side by side: *)
(* each behaviour is one of one component, the others stay as they begin.  Two of   *)
(* them promise what comes in the end, so there is no symmetry here.                *)
EXTENDS Accounts, Catalogues, RestDays, DayTotals, AnalyticsReports, Payroll, Boards, RequestReports, ShiftHours, TLC

VARIABLE part

recordsVars == <<part, accountsVars, cataloguesVars, restVars, viewVars, shiftDays,
                 analyticsVars, payrollVars, boardsVars, reportsVars, hoursVars>>

\* A check-in on time or late, left open or not, cut short or rejected; an absence, the
\* same after a check-out, and a correction without a check-in.
MCRowForms ==
  [status : {"present", "late"}, in : {TRUE}, out : BOOLEAN]
    \cup [status : {"incomplete", "rejected"}, in : {TRUE}, out : {FALSE}]
    \cup [status : {"absent", "present"}, in : {FALSE}, out : {FALSE}]
    \cup [status : {"late"}, in : {FALSE}, out : {TRUE}]

MCLeaveTypes ==
  {[kind |-> "vacation", active |-> TRUE, listed |-> TRUE],
   [kind |-> "unpaid_leave", active |-> TRUE, listed |-> TRUE],
   [kind |-> "medical_leave", active |-> TRUE, listed |-> FALSE]}

MCDayKinds ==
  {k \in PossibleKinds : k.status \in {"present", "absent", "vacation"} \/ (k.status = "incomplete" /\ k.late)}

MCRestDay == CHOOSE k \in MCDayKinds : k.status = "vacation"

\* On time, late at a site, absent, and suspected of a false position.
MCMarkForms ==
  {[at |-> 1, late |-> 0, mock |-> FALSE, status |-> "present", site |-> NoSite],
   [at |-> 2, late |-> 1, mock |-> FALSE, status |-> "late", site |-> 1],
   [at |-> 3, late |-> 1, mock |-> TRUE, status |-> "late", site |-> 1],
   [at |-> -1, late |-> 0, mock |-> FALSE, status |-> "absent", site |-> 1]}

MCLeaveSpans == {<<1, 2>>, <<2, 2>>}

\* Two workers of one name, one of them in another area.
MCFaces ==
  {[name |-> 1, zone |-> 1], [name |-> 1, zone |-> 2], [name |-> 2, zone |-> 2]}

MCFiledSpans == {<<1, 1>>, <<2, 3>>}

\* Nothing, one criterion, or a period.
MCCriteria ==
  LET none == [worker |-> Every, status |-> Every, type |-> Every, zone |-> Every, from |-> Every, to |-> Every]
  IN  {none, [none EXCEPT !.worker = 1], [none EXCEPT !.status = "approved"],
       [none EXCEPT !.type = 1], [none EXCEPT !.zone = 2], [none EXCEPT !.from = 2],
       [none EXCEPT !.from = 1, !.to = 2], [none EXCEPT !.worker = 2, !.status = "pending"]}

\* Everything, the hours alone, the break or its pay, the minutes, the days, the status.
MCShiftForms ==
  LET none == [start |-> Left, end |-> Left, break |-> Left, paid |-> Left,
               effective |-> Left, days |-> Left, active |-> Left]
  IN  {[none EXCEPT !.start = 1, !.end = 4], [none EXCEPT !.start = 4, !.end = 1, !.days = {1}],
       [none EXCEPT !.start = 2, !.end = 3, !.effective = 2], [none EXCEPT !.start = 3],
       [none EXCEPT !.break = 2], [none EXCEPT !.paid = TRUE], [none EXCEPT !.effective = 1],
       [none EXCEPT !.days = {2}], [none EXCEPT !.active = FALSE]}

MCPolicyForms ==
  LET none == [break |-> Left, paid |-> Left, days |-> Left]
  IN  {[none EXCEPT !.break = 0], [none EXCEPT !.paid = TRUE], [none EXCEPT !.days = {1}]}

MCDefaultPolicy == [break |-> 1, paid |-> FALSE, days |-> {1, 2}]

Init ==
  /\ part \in {"accounts", "catalogues", "rests", "views", "cards", "analytics", "payroll", "boards", "reports", "hours"}
  /\ AccountsInit /\ CataloguesInit /\ RestDaysInit /\ DayViewsInit /\ DayCardsInit
  /\ AnalyticsInit /\ PayrollInit /\ BoardsInit /\ ReportsInit /\ HoursInit
  /\ part # "reports" => face \in [Filers -> {[name |-> 1, zone |-> 1]}]
  /\ part # "analytics" => days \in [People -> {[d \in Calendar |-> MCRestDay]}]

Next ==
  \/ part = "accounts" /\ AccountsNext
     /\ UNCHANGED <<part, cataloguesVars, restVars, cardVars, analyticsVars, payrollVars, boardsVars, reportsVars, hoursVars>>
  \/ part = "catalogues" /\ CataloguesNext
     /\ UNCHANGED <<part, accountsVars, restVars, cardVars, analyticsVars, payrollVars, boardsVars, reportsVars, hoursVars>>
  \/ part = "rests" /\ RestDaysNext
     /\ UNCHANGED <<part, accountsVars, cataloguesVars, cardVars, analyticsVars, payrollVars, boardsVars, reportsVars, hoursVars>>
  \/ part = "views" /\ DayViewsNext
     /\ UNCHANGED <<part, shiftDays, accountsVars, cataloguesVars, restVars, analyticsVars, payrollVars, boardsVars, reportsVars, hoursVars>>
  \/ part = "cards" /\ DayCardsNext
     /\ UNCHANGED <<part, accountsVars, cataloguesVars, restVars, analyticsVars, payrollVars, boardsVars, reportsVars, hoursVars>>
  \/ part = "analytics" /\ AnalyticsNext
     /\ UNCHANGED <<part, accountsVars, cataloguesVars, restVars, cardVars, payrollVars, boardsVars, reportsVars, hoursVars>>
  \/ part = "payroll" /\ PayrollNext
     /\ UNCHANGED <<part, accountsVars, cataloguesVars, restVars, cardVars, analyticsVars, boardsVars, reportsVars, hoursVars>>
  \/ part = "boards" /\ BoardsNext
     /\ UNCHANGED <<part, accountsVars, cataloguesVars, restVars, cardVars, analyticsVars,
                    payrollVars, reportsVars, hoursVars>>
  \/ part = "reports" /\ ReportsNext
     /\ UNCHANGED <<part, accountsVars, cataloguesVars, restVars, cardVars, analyticsVars,
                    payrollVars, boardsVars, hoursVars>>
  \/ part = "hours" /\ HoursNext
     /\ UNCHANGED <<part, accountsVars, cataloguesVars, restVars, cardVars, analyticsVars,
                    payrollVars, boardsVars, reportsVars>>

Fairness ==
  /\ part = "accounts" => AccountsFairness
  /\ part = "catalogues" => CataloguesFairness

Spec == Init /\ [][Next]_recordsVars /\ Fairness

\* Each component keeps its types, and what the views make of a day is of the kinds
\* the analytics count.
TypeOK ==
  /\ AccountsTypeOK /\ CataloguesTypeOK /\ RestDaysTypeOK /\ DayViewsTypeOK /\ DayCardsTypeOK
  /\ AnalyticsTypeOK /\ PayrollTypeOK /\ BoardsTypeOK /\ ReportsTypeOK /\ HoursTypeOK
  /\ \A d \in ViewDays : DayKind(d) \in PossibleKinds

\* What the worker is told of a day, and what it costs, whoever tells it: the four
\* readers of the records agree on an absence, and the cards on what may be marked.
DaysToldAlike ==
  /\ part = "views" => AbsenceSeenAlike /\ TotalsAgree
  /\ part = "cards" => CardsKeepTheirWord

\* What is shown of the same rows, cut up in different ways, adds up: the analytics
\* and what one opens from them (buildDatasetQuery, groupRows, the trends and the
\* rankings), the boards with their totals, pages and alerts, and the lists, reports and
\* charts of requests.
CountsAddUp ==
  /\ part = "analytics" => AnalyticsAddUp
  /\ part = "boards" => BoardsAgree
  /\ part = "reports" => RequestReportsAgree
===============================================================================
