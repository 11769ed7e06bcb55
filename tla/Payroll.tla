------------------------------- MODULE Payroll -------------------------------
(***************************************************************************)
(* The payroll of one month: its period, which clerks generate, approve    *)
(* and close, and the slips of the workers; services/payroll-service.      *)
(* What a slip says of the days is Payslip of DayViews.                    *)
(*                                                                         *)
(* A generation reads the period, deletes the slips, finds the workers and *)
(* inserts a slip for one after the other, in queries of their own and in  *)
(* no transaction: it may stop after any of them, and overlap others.      *)
(***************************************************************************)
CONSTANTS
  Staff,           \* workers
  Clerks           \* requests in progress

VARIABLES
  period,          \* payroll_periods.status
  slips,           \* payroll_records: workers with one, of which the table takes no second
  onPayroll,       \* workers the query finds
  generation       \* how far the generation of each clerk is

payrollVars == <<period, slips, onPayroll, generation>>

Settled == {"approved", "closed"}

NoGeneration == [pc |-> "idle", found |-> {}, left |-> {}, alone |-> FALSE]

PayrollTypeOK ==
  /\ period \in {"none", "draft", "generated"} \cup Settled
  /\ slips \subseteq Staff /\ onPayroll \subseteq Staff
  /\ generation \in [Clerks -> [pc : {"idle", "delete", "find", "pay"},
                                found : SUBSET Staff, left : SUBSET Staff, alone : BOOLEAN]]

Running(c) == generation[c].pc # "idle"

Stop(c) == generation' = [generation EXCEPT ![c] = NoGeneration]

-------------------------------------------------------------------------------
\* A second period of the month is refused, by the query or by the table.
CreatePeriod ==
  /\ period = "none"
  /\ period' = "draft"
  /\ UNCHANGED <<slips, onPayroll, generation>>

\* generatePayroll, recalculatePayroll: the status is asked here and not again.
\* (alone: no other generation is under way from here to the end.)
GenerateRead(c) ==
  /\ ~Running(c)
  /\ period \notin {"none"} \cup Settled
  /\ LET alone == \A other \in Clerks : ~Running(other)
     IN  generation' = [other \in Clerks |->
           IF other = c THEN [NoGeneration EXCEPT !.pc = "delete", !.alone = alone]
                        ELSE [generation[other] EXCEPT !.alone = FALSE]]
  /\ UNCHANGED <<period, slips, onPayroll>>

GenerateDeleteFound(c) ==                                   \* faulty variant
  /\ generation[c].pc = "delete"
  /\ slips' = slips \ onPayroll
  /\ generation' = [generation EXCEPT ![c].pc = "find"]
  /\ UNCHANGED <<period, onPayroll>>

GenerateDelete(c) ==
  /\ generation[c].pc = "delete"
  /\ slips' = {}
  /\ generation' = [generation EXCEPT ![c].pc = "find"]
  /\ UNCHANGED <<period, onPayroll>>

\* getPayrollWorkers
GenerateFind(c) ==
  /\ generation[c].pc = "find"
  /\ generation' = [generation EXCEPT ![c] =
       [@ EXCEPT !.pc = "pay", !.found = onPayroll, !.left = onPayroll]]
  /\ UNCHANGED <<period, slips, onPayroll>>

\* The slip of the next worker; one who has a slip already ends the generation.
GeneratePay(c) ==
  /\ generation[c].pc = "pay"
  /\ \E w \in generation[c].left :
       IF w \in slips
         THEN Stop(c) /\ UNCHANGED slips
         ELSE /\ slips' = slips \cup {w}
              /\ generation' = [generation EXCEPT ![c].left = @ \ {w}]
  /\ UNCHANGED <<period, onPayroll>>

\* The period is generated now, whatever it became since.
GenerateEnd(c) ==
  /\ generation[c].pc = "pay" /\ generation[c].left = {}
  /\ period' = "generated"
  /\ Stop(c)
  /\ UNCHANGED <<slips, onPayroll>>

GenerateFails(c) ==
  /\ Running(c)
  /\ Stop(c)
  /\ UNCHANGED <<period, slips, onPayroll>>

\* updatePeriodStatus, of any period that exists.
UpdatePeriodStatus(status) ==
  /\ period # "none"
  /\ period' = status
  /\ UNCHANGED <<slips, onPayroll, generation>>

\* A worker begins, leaves, or is disabled.
StaffChanges(w) ==
  /\ onPayroll' = IF w \in onPayroll THEN onPayroll \ {w} ELSE onPayroll \cup {w}
  /\ UNCHANGED <<period, slips, generation>>

PayrollInit ==
  /\ period = "none"
  /\ slips = {} /\ onPayroll = Staff
  /\ generation = [c \in Clerks |-> NoGeneration]

PayrollNext ==
  \/ CreatePeriod
  \/ \E c \in Clerks :
       \/ GenerateRead(c) \/ GenerateDelete(c) \/ GenerateFind(c)
       \/ GeneratePay(c) \/ GenerateEnd(c) \/ GenerateFails(c)
  \/ \E status \in Settled : UpdatePeriodStatus(status)
  \/ \E w \in Staff : StaffChanges(w)

PayrollSpec == PayrollInit /\ [][PayrollNext]_payrollVars

-------------------------------------------------------------------------------
(* Properties *)

\* A generation that comes to its end alone leaves a slip for each worker it found
\* and for nobody else, whatever generations that failed or overlapped left
\* behind; and a period that is approved or closed while none is under way
\* keeps its slips and stays so.  (A generation under way when the period is
\* approved goes on and sets it back; and only one of a closed period may
\* approve it again.)
SlipsStand ==
  [][/\ \A c \in Clerks :
          (GenerateEnd(c) /\ generation[c].alone) => slips' = generation[c].found
     /\ (period \in Settled /\ \A c \in Clerks : ~Running(c)) =>
          slips' = slips /\ period' \in Settled]_payrollVars
===============================================================================
