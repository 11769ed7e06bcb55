----------------------------- MODULE RecordsProofs -----------------------------
(***************************************************************************)
(* What is kept of shifts, pay and days of rest, and what the readers of a *)
(* day make of it, for any requests, policies, staff, calendar, and number *)
(* of edits or generations that overlap; each component first by itself,   *)
(* then all of them side by side, as the run has them.                     *)
(***************************************************************************)
EXTENDS MCRecords, FiniteSetTheorems, SequenceTheorems, TLAPS

-------------------------------------------------------------------------------
(* The hours of a shift *)

RowFields == Fields \cup {"from"}

Fits(row) == row.from = "hours" => row.effective = EffectiveMinutes(row)

\* What an edit has read is a row whose minutes fit; and if nothing disturbed it, row
\* and policy still are as it read them.
ReadsFit ==
  \A e \in Editors : editing[e] # NoEdit =>
    /\ Fits(editing[e].row)
    /\ editing[e].alone => editing[e].row = shift /\ editing[e].rule = policy

HoursInv == HoursTypeOK /\ HoursAddUp /\ ReadsFit

-------------------------------------------------------------------------------
(* Rows *)

\* The minutes of a row do not depend on what it stores of them.
LEMMA MinutesOfHours ==
  ASSUME NEW row, NEW minutes, NEW from, DOMAIN row = RowFields
  PROVE  EffectiveMinutes([row EXCEPT !.effective = minutes, !.from = from]) = EffectiveMinutes(row)
BY DEF EffectiveMinutes, RowFields, Fields

\* What buildShiftPayload makes of a request for a new shift is a row that fits.
LEMMA NewShiftFits ==
  ASSUME NEW form \in ShiftForms, NEW rule
  PROVE  DOMAIN NewShift(form, rule) = RowFields /\ Fits(NewShift(form, rule))
BY DEF NewShift, Fits, EffectiveMinutes, RowFields, Fields, Or

\* A request laid over a row that fits gives one.
LEMMA MergedFits ==
  ASSUME NEW form \in ShiftForms, NEW rule, NEW row, DOMAIN row = RowFields, Fits(row)
  PROVE  DOMAIN Merged(row, form, rule) = RowFields /\ Fits(Merged(row, form, rule))
<1> DEFINE new == LaidOver(row, form, rule)
<1>1. DOMAIN new = RowFields /\ new.from = row.from
  BY DEF LaidOver, RowFields, Fields
<1>2. CASE form.effective # Left
  BY <1>1, <1>2 DEF Merged, Fits, RowFields, Fields
<1>3. CASE form.effective = Left /\ HoursNamed(form)
  BY <1>1, <1>3 DEF Merged, Fits, EffectiveMinutes, RowFields, Fields
<1>4. CASE form.effective = Left /\ ~HoursNamed(form)
  <2>1. \A f \in {"start", "end", "break", "paid", "effective"} : new[f] = row[f]
    BY <1>4 DEF LaidOver, ShownShift, HoursNamed, Or, RowFields, Fields
  <2>2. new.start = row.start /\ new.end = row.end /\ new.break = row.break
        /\ new.paid = row.paid /\ new.effective = row.effective
    BY <2>1
  <2> QED BY <1>1, <1>4, <2>2 DEF Merged, Fits, EffectiveMinutes
<1> QED BY <1>2, <1>3, <1>4

\* An edit shows in the fields it names, and in the minutes.
LEMMA MergedShows ==
  ASSUME NEW form \in ShiftForms, NEW rule, NEW row, DOMAIN row = RowFields,
         NEW f \in Fields \ {"effective"}
  PROVE  ShownShift(Merged(row, form, rule), rule)[f] = Or(form[f], ShownShift(row, rule)[f])
<1> DEFINE new == LaidOver(row, form, rule)
<1>1. DOMAIN new = RowFields
  BY DEF LaidOver
<1>2. \A g \in Fields : new[g] = Or(form[g], ShownShift(row, rule)[g])
  BY DEF LaidOver, RowFields, Fields
<1>3. DOMAIN Merged(row, form, rule) = RowFields /\ Merged(row, form, rule)[f] = new[f]
  BY <1>1 DEF Merged, RowFields, Fields
<1>4. CASE f # "days"
  BY <1>2, <1>3, <1>4 DEF ShownShift, RowFields, Fields
<1>5. CASE f = "days"
  <2>1. form.days # PolicyDays
    BY ShiftHoursAssumption
  <2>2. ShownShift(row, rule).days = PolicyDays => rule.days = PolicyDays
    BY DEF ShownShift, RowFields, Fields
  <2> QED BY <1>2, <1>3, <1>5, <2>1, <2>2 DEF ShownShift, Or, RowFields, Fields
<1> QED BY <1>4, <1>5
-------------------------------------------------------------------------------
(* Steps *)

\* Before the first shift there is nothing to fit, and no edit.
LEMMA HoursBegin == HoursInit => HoursInv
BY ShiftHoursAssumption DEF HoursInit, HoursInv, HoursTypeOK, HoursAddUp, ReadsFit

\* Disturbed edits go on with what they read, and are alone no more.
LEMMA DisturbedFit ==
  ASSUME HoursInv
  PROVE  /\ DOMAIN Disturbed = Editors
         /\ \A e \in Editors : Disturbed[e] # NoEdit =>
              /\ DOMAIN Disturbed[e] = {"pc", "form", "row", "rule", "alone"}
              /\ Disturbed[e].form \in ShiftForms
              /\ DOMAIN Disturbed[e].row = RowFields
              /\ Fits(Disturbed[e].row)
              /\ ~Disturbed[e].alone
BY DEF HoursInv, HoursTypeOK, ReadsFit, Disturbed, RowFields

\* Every step of the policy's and the shifts' handlers keeps the rows, and what the
\* edits under way read, as buildShiftPayload makes them.
LEMMA HoursKept == HoursInv /\ [HoursNext]_hoursVars => HoursInv'
<1> SUFFICES ASSUME HoursInv, [HoursNext]_hoursVars PROVE HoursInv'
  OBVIOUS
<1> USE DEF HoursInv
<1> DEFINE calm == Disturbed
<1>d. /\ DOMAIN calm = Editors
      /\ \A e \in Editors : calm[e] # NoEdit =>
           /\ DOMAIN calm[e] = {"pc", "form", "row", "rule", "alone"}
           /\ calm[e].form \in ShiftForms
           /\ DOMAIN calm[e].row = RowFields
           /\ Fits(calm[e].row)
           /\ ~calm[e].alone
  BY DisturbedFit
<1> HIDE DEF calm
<1>1. ASSUME NEW form \in PolicyForms, UpdatePolicy(form) PROVE HoursInv'
  BY <1>1, <1>d, ShiftHoursAssumption DEF UpdatePolicy, calm, HoursTypeOK, HoursAddUp, ReadsFit, Change, RowFields
<1>2. ASSUME NEW form \in ShiftForms, CreateShift(form) PROVE HoursInv'
  <2>1. DOMAIN NewShift(form, policy) = RowFields /\ Fits(NewShift(form, policy))
    BY NewShiftFits
  <2> DEFINE new == NewShift(form, policy)
  <2>2. shift' = new /\ editing' = calm /\ policy' = policy /\ changes' \in 0 .. MaxChanges
    BY <1>2, ShiftHoursAssumption DEF CreateShift, calm, Change, HoursTypeOK
  <2> HIDE DEF new
  <2> QED BY <1>d, <2>1, <2>2 DEF new, HoursTypeOK, HoursAddUp, ReadsFit, Fits, RowFields
<1>3. ASSUME NEW form \in ShiftForms, NEW e \in Editors, EditRead(e, form) PROVE HoursInv'
  <2> DEFINE alone == \A other \in Editors : editing[other] = NoEdit
  <2> DEFINE read == [pc |-> "write", form |-> form, row |-> shift, rule |-> policy, alone |-> alone]
  <2>1. shift # NoShift /\ editing' = [calm EXCEPT ![e] = read]
        /\ policy' = policy /\ shift' = shift /\ changes' \in 0 .. MaxChanges
    BY <1>3, ShiftHoursAssumption DEF EditRead, calm, Change, HoursTypeOK
  <2>2. /\ DOMAIN read = {"pc", "form", "row", "rule", "alone"}
        /\ read.form = form /\ read.row = shift /\ read.rule = policy
    OBVIOUS
  <2> HIDE DEF read
  <2>3. Fits(shift) /\ DOMAIN shift = RowFields
    BY <2>1 DEF HoursTypeOK, HoursAddUp, Fits, RowFields
  <2>4. DOMAIN editing' = Editors /\ editing'[e] = read
        /\ \A other \in Editors \ {e} : editing'[other] = calm[other]
    BY <2>1, <1>d
  <2>5. HoursTypeOK'
    BY <2>1, <2>2, <2>3, <2>4, <1>d DEF HoursTypeOK, RowFields
  <2>6. ReadsFit'
    BY <2>1, <2>2, <2>3, <2>4, <1>d DEF ReadsFit, Fits, EffectiveMinutes, PresenceMinutes
  <2> QED BY <2>1, <2>5, <2>6 DEF HoursAddUp
<1>4. ASSUME NEW e \in Editors, EditWrite(e) PROVE HoursInv'
  <2> DEFINE new == Merged(editing[e].row, editing[e].form, editing[e].rule)
  <2>1. DOMAIN new = RowFields /\ Fits(new)
    BY <1>4, MergedFits DEF EditWrite, HoursTypeOK, ReadsFit, RowFields
  <2>2. shift' = new /\ editing' = [calm EXCEPT ![e] = NoEdit]
        /\ policy' = policy /\ changes' = changes
    BY <1>4 DEF EditWrite, calm
  <2> HIDE DEF new
  <2>3. DOMAIN editing' = Editors /\ editing'[e] = NoEdit
        /\ \A other \in Editors \ {e} : editing'[other] = calm[other]
    BY <2>2, <1>d
  <2> QED BY <1>d, <2>1, <2>2, <2>3 DEF HoursTypeOK, HoursAddUp, ReadsFit, Fits, RowFields
<1>5. CASE UNCHANGED hoursVars
  BY <1>5 DEF hoursVars, HoursTypeOK, HoursAddUp, ReadsFit, Fits, EffectiveMinutes, PresenceMinutes
<1> QED BY <1>1, <1>2, <1>3, <1>4, <1>5 DEF HoursNext

\* An edit that was alone, and one of the policy, leaves what it does not name.
LEMMA StepKeepsRest == HoursInv /\ [HoursNext]_hoursVars => [EditKeepsRest]_hoursVars
<1> SUFFICES ASSUME HoursInv, HoursNext PROVE EditKeepsRest
  OBVIOUS
<1>1. ASSUME NEW e \in Editors, EditWrite(e), editing[e].alone, NEW f \in Fields \ {"effective"}
      PROVE  ShownShift(shift', policy)[f] = Or(editing[e].form[f], ShownShift(shift, policy)[f])
  <2>1. /\ editing[e].row = shift /\ editing[e].rule = policy
        /\ editing[e].form \in ShiftForms /\ DOMAIN editing[e].row = RowFields
        /\ shift' = Merged(editing[e].row, editing[e].form, editing[e].rule)
    BY <1>1 DEF EditWrite, HoursInv, HoursTypeOK, ReadsFit, RowFields
  <2> QED BY <2>1, MergedShows
<1>2. ASSUME policy' # policy, shift # NoShift, NEW f \in Fields,
             ShownShift(shift', policy')[f] # ShownShift(shift, policy)[f]
      PROVE  f = "days" /\ shift.days = PolicyDays
  <2>1. shift' = shift
    BY <1>2 DEF HoursNext, UpdatePolicy, CreateShift, EditRead, EditWrite
  <2> QED BY <1>2, <2>1 DEF ShownShift, HoursInv, HoursTypeOK, Fields
<1> QED BY <1>1, <1>2 DEF EditKeepsRest

\* Whatever the requests about shifts and about the policy, and however many edits
\* overlap, the minutes of a shift fit its hours; and what nobody named stays.
THEOREM HoursStand == HoursSpec => ShiftStands
<1>1. HoursInit => HoursInv
  BY HoursBegin
<1>2. HoursInv /\ [HoursNext]_hoursVars => HoursInv'
  BY HoursKept
<1>3. HoursInv => HoursAddUp
  BY DEF HoursInv
<1>4. HoursInv /\ [HoursNext]_hoursVars => [EditKeepsRest]_hoursVars
  BY StepKeepsRest
<1> QED BY <1>1, <1>2, <1>3, <1>4, PTL DEF HoursSpec, ShiftStands

-------------------------------------------------------------------------------
(* The slips of a period *)

\* A generation that is alone knows what the table holds: nothing once it deleted the
\* slips, then the slips of those it has dealt with; and no other is under way.
AloneKnows ==
  \A c \in Clerks : generation[c].alone =>
    /\ \A other \in Clerks \ {c} : generation[other].pc = "idle"
    /\ generation[c].pc = "find" => slips = {}
    /\ generation[c].pc = "pay" =>
         generation[c].left \subseteq generation[c].found
         /\ slips = generation[c].found \ generation[c].left

PayInv == PayrollTypeOK /\ AloneKnows

-------------------------------------------------------------------------------

\* Before the first period there are no slips and no generation.
LEMMA PayBegins == PayrollInit => PayInv
BY DEF PayrollInit, PayInv, PayrollTypeOK, AloneKnows, NoGeneration

Generations == [pc : {"idle", "delete", "find", "pay"}, found : SUBSET Staff, left : SUBSET Staff, alone : BOOLEAN]

\* A step of one generation by itself: the other clerks' stay as they were.
LEMMA AloneStands ==
  ASSUME PayrollTypeOK, NEW c \in Clerks, NEW row \in Generations, generation' = [generation EXCEPT ![c] = row]
  PROVE  /\ generation' \in [Clerks -> Generations]
         /\ generation'[c] = row
         /\ \A other \in Clerks \ {c} : generation'[other] = generation[other]
BY DEF PayrollTypeOK, Generations

\* A generation that ends or fails knows nothing from then on.
LEMMA StopKept ==
  ASSUME PayInv, NEW c \in Clerks, Running(c), Stop(c), slips' \subseteq Staff, UNCHANGED onPayroll,
         period' \in {"none", "draft", "generated"} \cup Settled,
         slips' = slips
  PROVE  PayInv'
<1>1. NoGeneration \in Generations /\ NoGeneration.alone = FALSE /\ NoGeneration.pc = "idle"
  BY DEF NoGeneration, Generations
<1>2. /\ generation' \in [Clerks -> Generations] /\ generation'[c] = NoGeneration
      /\ \A other \in Clerks \ {c} : generation'[other] = generation[other]
  BY <1>1, AloneStands DEF Stop, PayInv
<1>3. PayrollTypeOK'
  BY <1>2 DEF PayInv, PayrollTypeOK, Generations
<1>4. AloneKnows'
  BY <1>1, <1>2 DEF PayInv, AloneKnows
<1> QED BY <1>3, <1>4 DEF PayInv

\* Every query of a generation, and everything that happens meanwhile, keeps what a
\* generation that is alone knows of the slips.
LEMMA PayKept == PayInv /\ [PayrollNext]_payrollVars => PayInv'
<1> SUFFICES ASSUME PayInv, [PayrollNext]_payrollVars PROVE PayInv'
  OBVIOUS
<1> USE DEF PayInv
<1>1. CASE CreatePeriod
  BY <1>1 DEF CreatePeriod, PayrollTypeOK, AloneKnows
<1>2. ASSUME NEW c \in Clerks, GenerateRead(c) PROVE PayInv'
  <2> DEFINE alone == \A other \in Clerks : ~Running(other)
  <2> DEFINE row == [NoGeneration EXCEPT !.pc = "delete", !.alone = alone]
  <2>1. /\ generation' \in [Clerks -> Generations] /\ generation'[c] = row
        /\ \A other \in Clerks \ {c} :
             generation'[other] = [generation[other] EXCEPT !.alone = FALSE]
    <3>1. row \in Generations
      BY DEF NoGeneration, Generations
    <3>2. \A other \in Clerks : generation[other] \in Generations
      BY DEF PayrollTypeOK, Generations
    <3>3. \A other \in Clerks : [generation[other] EXCEPT !.alone = FALSE] \in Generations
      BY <3>2 DEF Generations
    <3>4. generation' = [other \in Clerks |->
            IF other = c THEN row ELSE [generation[other] EXCEPT !.alone = FALSE]]
      BY <1>2 DEF GenerateRead
    <3> HIDE DEF row
    <3> QED BY <3>1, <3>3, <3>4
  <2>2. row.pc = "delete" /\ (row.alone <=> alone)
    BY DEF NoGeneration
  <2>3. \A other \in Clerks \ {c} : ~generation'[other].alone /\ generation'[other].pc = generation[other].pc
    <3>1. \A other \in Clerks : generation[other] \in Generations
      BY DEF PayrollTypeOK, Generations
    <3>2. \A other \in Clerks : LET left == [generation[other] EXCEPT !.alone = FALSE]
                                IN  ~left.alone /\ left.pc = generation[other].pc
      BY <3>1 DEF Generations
    <3> HIDE DEF row
    <3> QED BY <2>1, <3>2
  <2>4. AloneKnows'
    <3>1. SUFFICES ASSUME NEW d \in Clerks, generation'[d].alone
          PROVE  /\ \A other \in Clerks \ {d} : generation'[other].pc = "idle"
                 /\ generation'[d].pc \notin {"find", "pay"}
      BY DEF AloneKnows
    <3>2. d = c /\ alone
      BY <2>1, <2>2, <2>3, <3>1
    <3>3. \A other \in Clerks \ {c} : generation[other].pc = "idle"
      BY <3>2 DEF Running
    <3> QED BY <2>1, <2>2, <2>3, <3>2, <3>3
  <2> QED BY <1>2, <2>1, <2>4 DEF GenerateRead, PayrollTypeOK, Generations
<1>3. ASSUME NEW c \in Clerks, GenerateDelete(c) PROVE PayInv'
  <2> DEFINE row == [generation[c] EXCEPT !.pc = "find"]
  <2>1. generation' = [generation EXCEPT ![c] = row] /\ row \in Generations /\ slips' = {}
        /\ row.pc = "find" /\ row.alone = generation[c].alone
    BY <1>3 DEF GenerateDelete, PayrollTypeOK, Generations
  <2>2. /\ generation' \in [Clerks -> Generations] /\ generation'[c] = row
        /\ \A other \in Clerks \ {c} : generation'[other] = generation[other]
    BY <2>1, AloneStands
  <2>3. generation[c].pc = "delete"
    BY <1>3 DEF GenerateDelete
  <2>4. AloneKnows'
    BY <2>1, <2>2, <2>3 DEF AloneKnows
  <2> QED BY <1>3, <2>2, <2>4 DEF GenerateDelete, PayrollTypeOK, Generations
<1>4. ASSUME NEW c \in Clerks, GenerateFind(c) PROVE PayInv'
  <2> DEFINE row == [generation[c] EXCEPT !.pc = "pay", !.found = onPayroll, !.left = onPayroll]
  <2>1. generation' = [generation EXCEPT ![c] = row] /\ row \in Generations /\ slips' = slips
        /\ row.pc = "pay" /\ row.alone = generation[c].alone
        /\ row.found = onPayroll /\ row.left = onPayroll
    BY <1>4 DEF GenerateFind, PayrollTypeOK, Generations
  <2>2. /\ generation' \in [Clerks -> Generations] /\ generation'[c] = row
        /\ \A other \in Clerks \ {c} : generation'[other] = generation[other]
    BY <2>1, AloneStands
  <2>3. generation[c].pc = "find"
    BY <1>4 DEF GenerateFind
  <2>4. AloneKnows'
    BY <2>1, <2>2, <2>3 DEF AloneKnows
  <2> QED BY <1>4, <2>2, <2>4 DEF GenerateFind, PayrollTypeOK, Generations
<1>5. ASSUME NEW c \in Clerks, GeneratePay(c) PROVE PayInv'
  <2>1. PICK w \in generation[c].left :
          IF w \in slips
            THEN Stop(c) /\ UNCHANGED slips
            ELSE /\ slips' = slips \cup {w}
                 /\ generation' = [generation EXCEPT ![c].left = generation[c].left \ {w}]
    BY <1>5 DEF GeneratePay
  <2>2. generation[c].pc = "pay" /\ period' = period /\ onPayroll' = onPayroll
    BY <1>5 DEF GeneratePay
  <2>3. CASE w \in slips
    BY <2>1, <2>2, <2>3, StopKept DEF Running, PayrollTypeOK
  <2>4. CASE w \notin slips
    <3> DEFINE row == [generation[c] EXCEPT !.left = generation[c].left \ {w}]
    <3>1. generation' = [generation EXCEPT ![c] = row] /\ row \in Generations /\ slips' = slips \cup {w}
          /\ row.pc = "pay" /\ row.alone = generation[c].alone
          /\ row.found = generation[c].found /\ row.left = generation[c].left \ {w}
      BY <2>1, <2>2, <2>4 DEF PayrollTypeOK, Generations
    <3>2. /\ generation' \in [Clerks -> Generations] /\ generation'[c] = row
          /\ \A other \in Clerks \ {c} : generation'[other] = generation[other]
      BY <3>1, AloneStands
    <3> HIDE DEF row
    <3>3. AloneKnows'
      BY <2>2, <2>4, <3>1, <3>2 DEF AloneKnows
    <3>4. w \in Staff
      BY DEF PayrollTypeOK
    <3> QED BY <2>2, <3>1, <3>2, <3>3, <3>4 DEF PayrollTypeOK, Generations
  <2> QED BY <2>3, <2>4
<1>6. ASSUME NEW c \in Clerks, GenerateEnd(c) \/ GenerateFails(c) PROVE PayInv'
  BY <1>6, StopKept DEF GenerateEnd, GenerateFails, Running, PayrollTypeOK
<1>7. ASSUME NEW status \in Settled, UpdatePeriodStatus(status) PROVE PayInv'
  BY <1>7 DEF UpdatePeriodStatus, PayrollTypeOK, AloneKnows
<1>8. ASSUME NEW w \in Staff, StaffChanges(w) PROVE PayInv'
  BY <1>8 DEF StaffChanges, PayrollTypeOK, AloneKnows
<1>9. CASE UNCHANGED payrollVars
  BY <1>9 DEF payrollVars, PayrollTypeOK, AloneKnows
<1> QED BY <1>1, <1>2, <1>3, <1>4, <1>5, <1>6, <1>7, <1>8, <1>9 DEF PayrollNext

\* A step from a state that the invariant describes is as SlipsStand asks.
LEMMA StepStands ==
  PayInv /\ PayrollNext =>
    /\ \A c \in Clerks : (GenerateEnd(c) /\ generation[c].alone) => slips' = generation[c].found
    /\ (period \in Settled /\ \A c \in Clerks : ~Running(c)) =>
         slips' = slips /\ period' \in Settled
<1>1. ASSUME PayInv, NEW c \in Clerks, GenerateEnd(c), generation[c].alone
      PROVE  slips' = generation[c].found
  <2>1. generation[c].pc = "pay" /\ generation[c].left = {} /\ slips' = slips
    BY <1>1 DEF GenerateEnd
  <2>2. slips = generation[c].found \ generation[c].left
    BY <1>1, <2>1 DEF PayInv, AloneKnows
  <2> QED BY <2>1, <2>2
<1>2. ASSUME PayrollNext, period \in Settled, \A c \in Clerks : ~Running(c)
      PROVE  slips' = slips /\ period' \in Settled
  <2>1. \A c \in Clerks : generation[c].pc = "idle" /\ ~GenerateRead(c)
    BY <1>2 DEF Running, GenerateRead
  <2> QED BY <1>2, <2>1 DEF PayrollNext, CreatePeriod, GenerateDelete, GenerateFind, GeneratePay,
     GenerateEnd, GenerateFails, UpdatePeriodStatus, StaffChanges, Running, Settled
<1> QED BY <1>1, <1>2

\* Whatever the staff and however many clerks, what a generation leaves behind when it
\* fails or is overtaken is never in the slips of one that comes to its end alone; and a
\* settled period keeps its slips while none is under way.
THEOREM SlipsAlwaysStand == PayrollSpec => SlipsStand
<1>1. PayrollInit => PayInv
  BY PayBegins
<1>2. PayInv /\ [PayrollNext]_payrollVars => PayInv'
  BY PayKept
<1>3. PayInv /\ PayrollNext =>
    /\ \A c \in Clerks : (GenerateEnd(c) /\ generation[c].alone) => slips' = generation[c].found
    /\ (period \in Settled /\ \A c \in Clerks : ~Running(c)) =>
         slips' = slips /\ period' \in Settled
  BY StepStands
<1> QED BY <1>1, <1>2, <1>3, PTL DEF PayrollSpec, SlipsStand

-------------------------------------------------------------------------------
(* Days of rest *)

\* What the calendar paints, stored, of a fixed plan, or of any plan where the clocks of
\* the services and of the query agree, is work for nobody.
Agreed(d) ==
  restRows[d] # NoRest \/ plan.type = "fijo" \/ (ServerLag = 0 /\ RoundedSeed = Seed)

LEMMA RestIsNotWork ==
  ASSUME NEW d \in CalendarRestDays(1, LastDate) \cap RestDates, Agreed(d), NEW s \in WeekShifts
  PROVE  ~IsWorkingDay(s, d) /\ ~AnalyticsScheduled(s, d)
<1>1. CASE restRows[d] # NoRest
  BY <1>1 DEF IsWorkingDay, IsRestDay, AnalyticsScheduled, AnalyticsRestDay
<1>2. CASE restRows[d] = NoRest
  <2>1. (\A e \in PlannedDates : d < e - ServerLag) /\ ByConfiguration(d)
    BY <1>2 DEF CalendarRestDays
  <2>2. CASE plan.type = "fijo"
    <3>1. Weekday(d) = plan.weekday
      BY <2>1, <2>2 DEF ByConfiguration
    <3> QED BY <2>2, <3>1 DEF IsWorkingDay, InWorkingWeek, AnalyticsScheduled, AnalyticsRestDay
  <2>3. CASE plan.type # "fijo"
    <3>1. ServerLag = 0 /\ RoundedSeed = Seed
      BY <1>2, <2>3 DEF Agreed
    <3>2. plan.type = "rotativo" /\ Weekday(d) = RotatingDay(Seed, Week(d))
      BY <2>1, <2>3 DEF ByConfiguration
    <3>3. BeforePlanned(d) /\ d - ServerLag = d
      BY <2>1, <3>1 DEF BeforePlanned, PlannedDates, RestDates
    <3>4. IsRestDay(d)
      BY <2>1, <3>3 DEF IsRestDay
    <3> QED BY <3>1, <3>2, <3>4 DEF IsWorkingDay, AnalyticsScheduled, AnalyticsRestDay
  <2> QED BY <2>2, <2>3
<1> QED BY <1>1, <1>2

LEMMA RestDaysBegin == RestDaysInit => RestDaysTypeOK
BY DEF RestDaysInit, RestDaysTypeOK

LEMMA PlanIsTyped ==
  ASSUME RestDaysTypeOK, NEW type \in PlanTypes, NEW weekday \in Weekdays \cup {NoWeekday},
         NEW start \in RestDates, SetPlan(type, weekday, start)
  PROVE  RestDaysTypeOK'
<1>1. \A d \in RestDates : restRows'[d] \in {type, NoRest, restRows[d]}
  BY DEF SetPlan
<1>2. restRows' = [d \in RestDates |-> restRows'[d]]
  BY DEF SetPlan
<1>3. restRows' \in [RestDates -> PlanTypes \cup {"manual", NoRest}]
  BY <1>1, <1>2 DEF RestDaysTypeOK
<1> QED BY <1>3 DEF SetPlan, RestDaysTypeOK

LEMMA RestDaysKept == RestDaysTypeOK /\ [RestDaysNext]_restVars => RestDaysTypeOK'
<1> SUFFICES ASSUME RestDaysTypeOK, [RestDaysNext]_restVars PROVE RestDaysTypeOK'
  OBVIOUS
<1>1. CASE UNCHANGED restVars
  BY <1>1 DEF restVars, RestDaysTypeOK
<1>2. ASSUME NEW d \in RestDates, NEW weekday \in Weekdays, SetFixed(weekday, d)
      PROVE  RestDaysTypeOK'
  BY <1>2, PlanIsTyped DEF SetFixed, PlanTypes
<1>3. ASSUME NEW d \in RestDates, SetRotating(d) PROVE RestDaysTypeOK'
  BY <1>3, PlanIsTyped DEF SetRotating, PlanTypes
<1>4. ASSUME NEW d \in RestDates, SetManual(d) \/ RemoveRestDay(d) PROVE RestDaysTypeOK'
  BY <1>4 DEF SetManual, RemoveRestDay, RestDaysTypeOK
<1>5. ASSUME NEW d \in HolidayDates, NEW active \in BOOLEAN,
             CreateHoliday(d, active) \/ \E e \in HolidayDates : UpdateHoliday(d, e, active)
      PROVE  RestDaysTypeOK'
  BY <1>5 DEF CreateHoliday, UpdateHoliday, RestDaysTypeOK
<1>6. ASSUME NEW d \in HolidayDates, DeleteHoliday(d) PROVE RestDaysTypeOK'
  BY <1>6 DEF DeleteHoliday, RestDaysTypeOK
<1> QED BY <1>1, <1>2, <1>3, <1>4, <1>5, <1>6 DEF RestDaysNext

\* The plan, the dates stored and the holidays are what the columns hold.
THEOREM RestDaysTyped == RestDaysSpec => []RestDaysTypeOK
BY RestDaysBegin, RestDaysKept, PTL DEF RestDaysSpec

\* A rest day the calendar paints, stored or of a fixed plan, is a working day neither for
\* the marks and the jobs (resolveWorkerSchedule) nor for analytics (buildDatasetQuery),
\* for any calendar, week, length of a plan, moment of creation and zone of the server.
THEOREM RestIsNeverWork == RestDaysSpec => []RestNeverScheduled
<1>1. RestNeverScheduled
  BY RestIsNotWork DEF RestNeverScheduled, Agreed
<1> QED BY <1>1, PTL

\* And so is one of a rotating plan, if the server's day is the company's and the worker
\* was not created in the second half of a second: nothing else keeps the services and
\* the query of analytics apart.
THEOREM RotatingRestIsNeverWork ==
  ASSUME ServerLag = 0, RoundedSeed = Seed
  PROVE  RestDaysSpec =>
           [](\A d \in CalendarRestDays(1, LastDate) \cap RestDates, s \in WeekShifts :
                ~IsWorkingDay(s, d) /\ ~AnalyticsScheduled(s, d))
<1>1. \A d \in CalendarRestDays(1, LastDate) \cap RestDates, s \in WeekShifts :
        ~IsWorkingDay(s, d) /\ ~AnalyticsScheduled(s, d)
  BY RestIsNotWork DEF Agreed
<1> QED BY <1>1, PTL

-------------------------------------------------------------------------------
(* The types of the other components *)

LEMMA AccountsBegin == AccountsInit => AccountsTypeOK
<1> SUFFICES ASSUME AccountsInit PROVE AccountsTypeOK
  OBVIOUS
<1>1. account \in [active : BOOLEAN, deleted : BOOLEAN, forced : BOOLEAN] /\ tempToken \in BOOLEAN
  BY DEF AccountsInit
<1> QED BY <1>1 DEF AccountsInit, AccountsTypeOK, Answers

LEMMA AccountsKept == AccountsTypeOK /\ [AccountsNext]_accountsVars => AccountsTypeOK'
<1> SUFFICES ASSUME AccountsTypeOK, [AccountsNext]_accountsVars PROVE AccountsTypeOK'
  OBVIOUS
<1> USE DEF AccountsTypeOK, Answers
<1>1. CASE UNCHANGED accountsVars
  BY <1>1 DEF accountsVars
<1>2. ASSUME NEW w \in Writers, LetIn(w) PROVE AccountsTypeOK'
  BY <1>2 DEF LetIn, LoginRead, VerifyCode, RefreshRead, Proceed
<1>3. ASSUME NEW w \in Writers, ChangePasswordRead(w) \/ Confirm2FARead(w) PROVE AccountsTypeOK'
  BY <1>3 DEF ChangePasswordRead, Confirm2FARead, Proceed
<1>4. ASSUME NEW w \in Writers, Finish(w) PROVE AccountsTypeOK'
  BY <1>4 DEF Finish, IssueTempToken, Grant, ChangePasswordWrite, Confirm2FAWrite, Proceed
<1>5. CASE TempTokenExpires \/ EntryExpires \/ Lookup
  BY <1>5 DEF TempTokenExpires, EntryExpires, Lookup
<1>6. CASE LookupRead \/ LookupEnds
  BY <1>6 DEF LookupRead, LookupEnds, Answer
<1>7. CASE ChangeStatus \/ DeleteUser \/ ResetPassword
  BY <1>7 DEF ChangeStatus, DeleteUser, ResetPassword
<1>8. CASE UpdateUser
  BY <1>8 DEF UpdateUser
<1>9. CASE Enable2FA \/ Disable2FA
  BY <1>9 DEF Enable2FA, Disable2FA
<1> QED BY <1>1, <1>2, <1>3, <1>4, <1>5, <1>6, <1>7, <1>8, <1>9 DEF AccountsNext

LEMMA CataloguesBegin == CataloguesInit => CataloguesTypeOK
BY CataloguesAssumption DEF CataloguesInit, CataloguesTypeOK, Places

\* A list names rows of its kind, by their names and those of the rows above.
LEMMA ListIsShown ==
  ASSUME CataloguesTypeOK, NEW k \in Kinds
  PROVE  Current(k) \subseteq Shown
<1>1. OfKind(k) \subseteq Items
  BY DEF OfKind, Items, Kinds
<1>2. ASSUME NEW x \in Items, Open(x)
      PROVE  /\ items[x].name \in Names
             /\ items[x].parent \in Items \cup {Nowhere}
  BY <1>2 DEF Open, Exist, CataloguesTypeOK, ItemRows
<1>3. ASSUME NEW x \in Items, Exist(x) PROVE items[x].name \in Names
  BY <1>3 DEF Exist, CataloguesTypeOK, ItemRows
<1>4. ASSUME NEW x \in OfKind(k), Open(x)
      PROVE  <<x, items[x].name, IF Exist(items[x].parent) THEN items[items[x].parent].name ELSE Nowhere>> \in Shown
  <2>1. CASE Exist(items[x].parent)
    <3>1. items[x].parent \in Items
      BY <1>1, <1>2, <1>4, <2>1 DEF Exist
    <3> QED BY <1>1, <1>2, <1>3, <1>4, <2>1, <3>1 DEF Shown
  <2>2. CASE ~Exist(items[x].parent)
    BY <1>1, <1>2, <1>4, <2>2 DEF Shown
  <2> QED BY <2>1, <2>2
<1> QED BY <1>4 DEF Current

LEMMA WriteIsTyped ==
  ASSUME CataloguesTypeOK, NEW x \in Items, NEW row \in ItemRows \cup {Absent}, Write(x, row)
  PROVE  CataloguesTypeOK'
<1>1. items' \in [Items -> ItemRows \cup {Absent}]
  BY DEF Write, CataloguesTypeOK
<1>2. lists' \in [Kinds -> (SUBSET Shown) \cup {NotCached}]
  BY DEF Write, CataloguesTypeOK
<1>3. edits' \in 0 .. MaxEdits
  BY CataloguesAssumption DEF Write, CataloguesTypeOK
<1> QED BY <1>1, <1>2, <1>3 DEF Write, CataloguesTypeOK

LEMMA CataloguesKept == CataloguesTypeOK /\ [CataloguesNext]_cataloguesVars => CataloguesTypeOK'
<1> SUFFICES ASSUME CataloguesTypeOK, [CataloguesNext]_cataloguesVars PROVE CataloguesTypeOK'
  OBVIOUS
<1>1. CASE UNCHANGED cataloguesVars
  BY <1>1 DEF cataloguesVars, CataloguesTypeOK
<1>2. ASSUME NEW x \in Items, NEW active \in BOOLEAN, NEW name \in Names,
             NEW parent \in Items \cup {Nowhere},
             Create(x, active, name, parent) \/ Update(x, active, name, parent)
      PROVE  CataloguesTypeOK'
  <2> DEFINE row == [active |-> active, name |-> name, parent |-> parent]
  <2>1. row \in ItemRows
    BY DEF ItemRows
  <2>2. Write(x, row)
    BY <1>2 DEF Create, Update
  <2> HIDE DEF row
  <2> QED BY <2>1, <2>2, WriteIsTyped
<1>3. ASSUME NEW x \in Items, NEW active \in BOOLEAN, UpdateStatus(x, active)
      PROVE  CataloguesTypeOK'
  <2>1. items[x] \in ItemRows
    BY <1>3 DEF UpdateStatus, Exist, CataloguesTypeOK
  <2> DEFINE row == [items[x] EXCEPT !.active = active]
  <2>2. row \in ItemRows
    BY <2>1 DEF ItemRows
  <2>3. Write(x, row)
    BY <1>3 DEF UpdateStatus
  <2> HIDE DEF row
  <2> QED BY <2>2, <2>3, WriteIsTyped
<1>4. ASSUME NEW x \in Items, Delete(x) PROVE CataloguesTypeOK'
  BY <1>4, WriteIsTyped DEF Delete
<1>5. ASSUME NEW w \in Employees, NEW place \in Places, PlaceWorker(w, place)
      PROVE  CataloguesTypeOK'
  BY <1>5, CataloguesAssumption DEF PlaceWorker, CataloguesTypeOK
<1>6. ASSUME NEW w \in Employees, WorkerLeaves(w) PROVE CataloguesTypeOK'
  BY <1>6 DEF WorkerLeaves, CataloguesTypeOK
<1>7. ASSUME NEW k \in Kinds, ListExpires(k) PROVE CataloguesTypeOK'
  BY <1>7 DEF ListExpires, CataloguesTypeOK
<1>8. ASSUME NEW k \in Kinds, NEW r \in Readers, ListRead(r, k) PROVE CataloguesTypeOK'
  <2>1. Current(k) \in SUBSET Shown
    BY ListIsShown
  <2> QED BY <1>8, <2>1 DEF ListRead, CataloguesTypeOK
<1>9. ASSUME NEW r \in Readers, ListStored(r) PROVE CataloguesTypeOK'
  <2>1. reading[r] \in [kind : Kinds, rows : SUBSET Shown]
    BY <1>9 DEF ListStored, CataloguesTypeOK
  <2> QED BY <1>9, <2>1 DEF ListStored, CataloguesTypeOK
<1> QED BY <1>1, <1>2, <1>3, <1>4, <1>5, <1>6, <1>7, <1>8, <1>9 DEF CataloguesNext

LEMMA DayViewsBegin == DayViewsInit => DayViewsTypeOK
BY DayViewsAssumption DEF DayViewsInit, DayViewsTypeOK

LEMMA WritersAreTyped ==
  ASSUME DayViewsTypeOK, NEW d \in ViewDays
  PROVE  /\ \A s \in {"none", "work", "rest"} : Reschedule(d, s) => DayViewsTypeOK'
         /\ ChangeHoliday(d) => DayViewsTypeOK'
         /\ \A row \in RowForms : StoreRow(d, row) => DayViewsTypeOK'
<1>1. ASSUME NEW s \in {"none", "work", "rest"}, Reschedule(d, s) PROVE DayViewsTypeOK'
  BY <1>1 DEF Reschedule, DayViewsTypeOK
<1>2. ChangeHoliday(d) => DayViewsTypeOK'
  BY DEF ChangeHoliday, DayViewsTypeOK
<1>3. ASSUME NEW row \in RowForms, StoreRow(d, row) PROVE DayViewsTypeOK'
  BY <1>3 DEF StoreRow, DayViewsTypeOK
<1> QED BY <1>1, <1>2, <1>3

LEMMA ApprovalIsTyped ==
  ASSUME DayViewsTypeOK, NEW span \in LeaveSpans, NEW type \in LeaveTypes, Approve(span, type)
  PROVE  DayViewsTypeOK'
BY DayViewsAssumption DEF Approve, DayViewsTypeOK

LEMMA NextDayIsTyped == DayViewsTypeOK /\ NextDay => DayViewsTypeOK'
BY DayViewsAssumption DEF NextDay, DayViewsTypeOK

LEMMA DayViewsKept == DayViewsTypeOK /\ [DayViewsNext]_viewVars => DayViewsTypeOK'
<1> SUFFICES ASSUME DayViewsTypeOK, [DayViewsNext]_viewVars PROVE DayViewsTypeOK'
  OBVIOUS
<1>1. CASE UNCHANGED viewVars
  BY <1>1 DEF viewVars, DayViewsTypeOK
<1>2. CASE NextDay
  BY <1>2, NextDayIsTyped
<1>3. ASSUME NEW d \in ViewDays,
             \/ \E s \in {"none", "work", "rest"} : Reschedule(d, s)
             \/ ChangeHoliday(d)
             \/ \E row \in RowForms : StoreRow(d, row)
      PROVE  DayViewsTypeOK'
  BY <1>3, WritersAreTyped
<1>4. ASSUME NEW span \in LeaveSpans, NEW type \in LeaveTypes, Approve(span, type)
      PROVE  DayViewsTypeOK'
  BY <1>4, ApprovalIsTyped
<1> QED BY <1>1, <1>2, <1>3, <1>4 DEF DayViewsNext

LEMMA DayCardsKept ==
  DayViewsTypeOK /\ DayCardsTypeOK /\ [DayCardsNext]_cardVars => DayViewsTypeOK' /\ DayCardsTypeOK'
<1> SUFFICES ASSUME DayViewsTypeOK, DayCardsTypeOK, [DayCardsNext]_cardVars
             PROVE  DayViewsTypeOK' /\ DayCardsTypeOK'
  OBVIOUS
<1>1. CASE UNCHANGED cardVars
  BY <1>1 DEF cardVars, viewVars, DayViewsTypeOK, DayCardsTypeOK
<1>2. CASE NextDay /\ UNCHANGED shiftDays
  BY <1>2, NextDayIsTyped DEF DayCardsTypeOK
<1>3. ASSUME NEW d \in CardDays,
             \/ \E s \in {"none", "work", "rest"} : Reschedule(d, s) /\ UNCHANGED shiftDays
             \/ ChangeHoliday(d) /\ UNCHANGED shiftDays
             \/ \E row \in RowForms : StoreRow(d, row) /\ UNCHANGED shiftDays
      PROVE  DayViewsTypeOK' /\ DayCardsTypeOK'
  <2>1. d \in ViewDays
    BY DayCardsAssumption
  <2> QED BY <1>3, <2>1, WritersAreTyped DEF DayCardsTypeOK
<1>4. ASSUME NEW d \in CardDays, ChangeShiftDays(d) PROVE DayViewsTypeOK' /\ DayCardsTypeOK'
  BY <1>4, DayCardsAssumption DEF ChangeShiftDays, viewVars, DayViewsTypeOK, DayCardsTypeOK
<1>5. ASSUME NEW span \in LeaveSpans, NEW type \in LeaveTypes, Approve(span, type), UNCHANGED shiftDays
      PROVE  DayViewsTypeOK' /\ DayCardsTypeOK'
  BY <1>5, ApprovalIsTyped DEF DayCardsTypeOK
<1> QED BY <1>1, <1>2, <1>3, <1>4, <1>5 DEF DayCardsNext

LEMMA AnalyticsBegin == AnalyticsInit => AnalyticsTypeOK
BY AnalyticsAssumption DEF AnalyticsInit, AnalyticsTypeOK, Calendar

LEMMA AnalyticsKept == AnalyticsTypeOK /\ [AnalyticsNext]_analyticsVars => AnalyticsTypeOK'
<1> SUFFICES ASSUME AnalyticsTypeOK, [AnalyticsNext]_analyticsVars PROVE AnalyticsTypeOK'
  OBVIOUS
<1>1. CASE UNCHANGED analyticsVars
  BY <1>1 DEF analyticsVars, AnalyticsTypeOK
<1>2. ASSUME NEW w \in People, Move PROVE moves' \in 0 .. MaxMoves
  BY <1>2, AnalyticsAssumption DEF Move, AnalyticsTypeOK
<1>3. ASSUME NEW w \in People, NEW d \in Calendar, Hire(w, d) \/ EndContract(w, d)
      PROVE  AnalyticsTypeOK'
  BY <1>2, <1>3 DEF Hire, EndContract, AnalyticsTypeOK
<1>4. ASSUME NEW w \in People, NEW u \in Units, Relocate(w, u) PROVE AnalyticsTypeOK'
  BY <1>2, <1>4 DEF Relocate, AnalyticsTypeOK
<1>5. ASSUME NEW w \in People, NEW d \in Calendar, NEW u \in Units, Send(w, d, u)
      PROVE  AnalyticsTypeOK'
  BY <1>2, <1>5 DEF Send, AnalyticsTypeOK
<1>6. ASSUME NEW w \in People, NEW d \in Calendar, NEW u \in Units \cup {Nothing}, EnterCrew(w, u, d)
      PROVE  AnalyticsTypeOK'
  <2> DEFINE Row == [crew : Units \cup {Nothing}, from : Calendar]
  <2>1. [crew |-> u, from |-> d] \in Row /\ crewMoves \in [People -> Seq(Row)]
    BY DEF AnalyticsTypeOK
  <2> HIDE DEF Row
  <2>2. Append(crewMoves[w], [crew |-> u, from |-> d]) \in Seq(Row)
    BY <2>1
  <2>3. crewMoves' \in [People -> Seq(Row)]
    BY <1>6, <2>1, <2>2 DEF EnterCrew
  <2> QED BY <1>2, <1>6, <2>3 DEF EnterCrew, AnalyticsTypeOK, Row
<1>7. ASSUME NEW w \in People, NEW d \in Calendar, NEW kind \in DayKinds, Pass(w, d, kind)
      PROVE  AnalyticsTypeOK'
  BY <1>2, <1>7 DEF Pass, AnalyticsTypeOK
<1> QED BY <1>1, <1>3, <1>4, <1>5, <1>6, <1>7 DEF AnalyticsNext

LEMMA BoardsBegin == BoardsInit => BoardsTypeOK
BY BoardsAssumption DEF BoardsInit, BoardsTypeOK

LEMMA BoardsKept == BoardsTypeOK /\ [BoardsNext]_boardsVars => BoardsTypeOK'
<1> SUFFICES ASSUME BoardsTypeOK, [BoardsNext]_boardsVars PROVE BoardsTypeOK'
  OBVIOUS
<1> USE DEF BoardsTypeOK
<1>1. CASE UNCHANGED boardsVars
  BY <1>1 DEF boardsVars
<1>2. Touch => updates' \in 0 .. MaxUpdates
  BY BoardsAssumption DEF Touch
<1>3. ASSUME NEW w \in Members, NEW s \in SUBSET Members PROVE Toggle(w, s) \subseteq Members
  BY DEF Toggle
<1>4. ASSUME NEW w \in Members, LinkUser(w) \/ RemoveWorker(w) PROVE BoardsTypeOK'
  BY <1>2, <1>3, <1>4 DEF LinkUser, RemoveWorker
<1>5. ASSUME NEW w \in Members, MarkDay(w) \/ SignContract(w) PROVE BoardsTypeOK'
  BY <1>2, <1>5 DEF MarkDay, SignContract
<1>6. ASSUME NEW w \in Members, AskOrDecide(w) \/ SendPaper(w) PROVE BoardsTypeOK'
  BY <1>2, <1>3, <1>6 DEF AskOrDecide, SendPaper
<1> QED BY <1>1, <1>4, <1>5, <1>6 DEF BoardsNext

LEMMA ReportsBegin == ReportsInit => ReportsTypeOK
BY RequestReportsAssumption DEF ReportsInit, ReportsTypeOK

LEMMA ReportsKept == ReportsTypeOK /\ [ReportsNext]_reportsVars => ReportsTypeOK'
<1> SUFFICES ASSUME ReportsTypeOK, [ReportsNext]_reportsVars PROVE ReportsTypeOK'
  OBVIOUS
<1> DEFINE Row == [by : Filers, type : FiledTypes, status : FiledStatuses, span : FiledSpans]
<1>1. CASE UNCHANGED reportsVars
  BY <1>1 DEF reportsVars, ReportsTypeOK
<1>2. ASSUME NEW w \in Filers, NEW type \in FiledTypes, NEW span \in FiledSpans,
             FileRequest(w, type, span)
      PROVE  ReportsTypeOK'
  <2>1. [by |-> w, type |-> type, status |-> "pending", span |-> span] \in Row
    BY RequestReportsAssumption
  <2> HIDE DEF Row
  <2>2. filed \in Seq(Row) /\ Len(filed) < MaxFiled /\ Len(filed) \in Nat /\ MaxFiled \in Nat
    BY <1>2, RequestReportsAssumption DEF FileRequest, ReportsTypeOK, Row
  <2>3. filed' \in Seq(Row) /\ Len(filed') = Len(filed) + 1
    BY <1>2, <2>1, <2>2 DEF FileRequest
  <2>4. Len(filed') <= MaxFiled
    BY <2>2, <2>3
  <2> QED BY <1>2, <2>3, <2>4 DEF FileRequest, ReportsTypeOK, Row
<1>3. ASSUME NEW w \in Filers, NEW f \in Faces, ChangeFace(w, f) PROVE ReportsTypeOK'
  BY <1>3 DEF ChangeFace, ReportsTypeOK
<1>4. ASSUME NEW w \in Filers, LeaveWork(w) PROVE ReportsTypeOK'
  BY <1>4 DEF LeaveWork, ReportsTypeOK
<1>5. ASSUME NEW i \in DOMAIN filed, NEW s \in FiledStatuses, Decided(i, s) PROVE ReportsTypeOK'
  <2>1. filed \in Seq(Row)
    BY DEF ReportsTypeOK
  <2>2. i \in 1 .. Len(filed)
    BY <2>1
  <2>3. filed[i] \in Row
    BY <2>1, <2>2, ElementOfSeq
  <2>4. [filed[i] EXCEPT !.status = s] \in Row
    BY <2>3
  <2>5. filed' = [filed EXCEPT ![i] = [filed[i] EXCEPT !.status = s]]
    BY <1>5 DEF Decided
  <2> HIDE DEF Row
  <2>6. filed' \in Seq(Row) /\ Len(filed') = Len(filed)
    BY <2>1, <2>2, <2>4, <2>5
  <2> QED BY <1>5, <2>6 DEF Decided, ReportsTypeOK, Row
<1> QED BY <1>1, <1>2, <1>3, <1>4, <1>5 DEF ReportsNext

-------------------------------------------------------------------------------
(* What the readers find of the requests of a day *)

\* A row is of a day that has come.
RowsHaveCome == \A d \in ViewDays : Recorded(d) => d <= today

ViewsInv == DayViewsTypeOK /\ RowsHaveCome

LEMMA LeastIsThere ==
  ASSUME NEW T \in SUBSET Nat, T # {}
  PROVE  \E x \in T : \A y \in T : x <= y
<1>1. PICK x \in T : \A y \in T : ~(<<y, x>> \in OpToRel(<, Nat))
  BY NatLessThanWellFounded, WFMin
<1>2. ASSUME NEW y \in T PROVE x <= y
  <2>1. x \in Nat /\ y \in Nat
    OBVIOUS
  <2>2. y < x => <<y, x>> \in OpToRel(<, Nat)
    BY <2>1 DEF OpToRel
  <2>3. ~(y < x)
    BY <1>1, <2>2, Zenon
  <2> QED BY <2>1, <2>3
<1> QED BY <1>2

\* The requests of a day are rows of the table.
LEMMA LeavesAreTyped ==
  ASSUME DayViewsTypeOK, NEW d \in ViewDays, NEW i \in LeavesOn(d)
  PROVE  /\ i \in Nat /\ i \in DOMAIN leaves
         /\ leaves[i].span[1] \in Nat
         /\ leaves[i].type.kind \in LeaveKinds
         /\ leaves[i].type.active \in BOOLEAN /\ leaves[i].type.listed \in BOOLEAN
<1> DEFINE Row == [span : LeaveSpans, type : LeaveTypes]
<1>1. leaves \in Seq(Row) /\ i \in DOMAIN leaves
  BY DEF DayViewsTypeOK, LeavesOn
<1>2. i \in 1 .. Len(leaves)
  BY <1>1
<1>3. leaves[i] \in Row
  BY <1>1, <1>2, ElementOfSeq
<1>4. leaves[i].span \in LeaveSpans /\ leaves[i].type \in LeaveTypes
  BY <1>3
<1>5. leaves[i].span \in (1 .. LastDay) \X (1 .. LastDay)
  BY <1>4, DayViewsAssumption
<1>6. leaves[i].type \in [kind : LeaveKinds, active : BOOLEAN, listed : BOOLEAN]
  BY <1>4, DayViewsAssumption
<1> QED BY <1>1, <1>2, <1>5, <1>6

\* The block of a day is a kind of a request in use.
LEMMA BlockIsAsked ==
  ASSUME DayViewsTypeOK, NEW d \in ViewDays
  PROVE  \/ DayBlock(d) = "none" /\ \A i \in LeavesOn(d) : ~leaves[i].type.active
         \/ \E i \in LeavesOn(d) : leaves[i].type.active /\ DayBlock(d) = leaves[i].type.kind
<1> DEFINE kinds == {leaves[i].type.kind : i \in {i \in LeavesOn(d) : leaves[i].type.active}}
<1>1. kinds \subseteq LeaveKinds
  BY LeavesAreTyped
<1>2. CASE kinds = {}
  BY <1>2 DEF DayBlock
<1>3. CASE kinds # {}
  <2>1. DayBlock(d) = CHOOSE k \in kinds : \A other \in kinds : Priority(k) <= Priority(other)
    BY <1>3 DEF DayBlock
  <2>2. \E k \in kinds : \A other \in kinds : Priority(k) <= Priority(other)
    <3> HIDE DEF kinds
    <3>1. CASE "vacation" \in kinds
      BY <1>1, <3>1 DEF Priority, LeaveKinds
    <3>2. CASE "vacation" \notin kinds /\ "medical_leave" \in kinds
      BY <1>1, <3>2 DEF Priority, LeaveKinds
    <3>3. CASE "vacation" \notin kinds /\ "medical_leave" \notin kinds
      BY <1>1, <1>3, <3>3 DEF Priority, LeaveKinds
    <3> QED BY <3>1, <3>2, <3>3
  <2>3. DayBlock(d) \in kinds
    BY <2>1, <2>2
  <2> QED BY <2>3
<1> QED BY <1>2, <1>3

\* The first request, by any ranking in three, is there.
LEMMA FirstIsThere ==
  ASSUME NEW found \in SUBSET Nat, found # {}, NEW rank \in [found -> {1, 2, 3}]
  PROVE  \E i \in found :
           \A j \in found : rank[i] < rank[j] \/ (rank[i] = rank[j] /\ i <= j)
<1>1. PICK r \in {1, 2, 3} : (\E i \in found : rank[i] = r) /\ \A j \in found : r <= rank[j]
  <2>1. CASE \E i \in found : rank[i] = 1
    BY <2>1
  <2>2. CASE (\A i \in found : rank[i] # 1) /\ \E i \in found : rank[i] = 2
    BY <2>2
  <2>3. CASE \A i \in found : rank[i] \notin {1, 2}
    <3>1. \A i \in found : rank[i] = 3
      BY <2>3
    <3>2. \E i \in found : rank[i] = 3
      BY <3>1
    <3>3. \A j \in found : 3 <= rank[j]
      BY <3>1
    <3> QED BY <3>2, <3>3
  <2> QED BY <2>1, <2>2, <2>3
<1> DEFINE best == {i \in found : rank[i] = r}
<1>2. PICK i \in best : \A j \in best : i <= j
  BY <1>1, LeastIsThere
<1> QED BY <1>1, <1>2

\* The leave of the analytics is the kind of a request the query names, or none.
LEMMA LeaveIsAsked ==
  ASSUME DayViewsTypeOK, NEW d \in ViewDays
  PROVE  \/ AnalyticsLeave(d) = "none" /\ (LeavesOn(d) = {} \/ \E i \in LeavesOn(d) : ~leaves[i].type.listed)
         \/ \E i \in LeavesOn(d) : leaves[i].type.listed /\ AnalyticsLeave(d) = leaves[i].type.kind
<1> DEFINE found == LeavesOn(d)
           Rank1(i) == IF leaves[i].type.listed THEN Priority(leaves[i].type.kind) ELSE 3
           First(i) == \A j \in found :
                         Rank1(i) < Rank1(j) \/ (Rank1(i) = Rank1(j) /\ i <= j)
           first == CHOOSE i \in found : First(i)
<1>1. AnalyticsLeave(d) = IF found = {} \/ ~leaves[first].type.listed THEN "none"
                          ELSE leaves[first].type.kind
  BY DEF AnalyticsLeave
<1>2. CASE found = {}
  BY <1>1, <1>2
<1>3. CASE found # {}
  <2> DEFINE rank == [i \in found |-> Rank1(i)]
  <2>1. found \in SUBSET Nat
    BY LeavesAreTyped
  <2>2. ASSUME NEW i \in found PROVE Rank1(i) \in {1, 2, 3}
    BY DEF Priority
  <2>3. rank \in [found -> {1, 2, 3}] /\ \A i \in found : rank[i] = Rank1(i)
    BY <2>2
  <2> HIDE DEF found, Rank1, rank
  <2>4. \E i \in found : First(i)
    BY <1>3, <2>1, <2>3, FirstIsThere
  <2> HIDE DEF First
  <2>5. first \in found
    BY <2>4
  <2> HIDE DEF first
  <2> QED BY <1>1, <1>3, <2>5 DEF found
<1> QED BY <1>2, <1>3

\* A kind of the summary is that of a request in use, and there is one if there is such
\* a request.
LEMMA SummaryIsAsked ==
  ASSUME DayViewsTypeOK, NEW d \in ViewDays
  PROVE  /\ \A k \in SummaryLeaves(d) :
              \E i \in LeavesOn(d) : leaves[i].type.active /\ k = leaves[i].type.kind
         /\ SummaryLeaves(d) = {} => \A i \in LeavesOn(d) : ~leaves[i].type.active
<1> DEFINE found == {i \in LeavesOn(d) : leaves[i].type.active}
           begins == {leaves[i].span[1] : i \in found}
<1>1. \A k \in SummaryLeaves(d) :
        \E i \in LeavesOn(d) : leaves[i].type.active /\ k = leaves[i].type.kind
  BY DEF SummaryLeaves
<1>2. ASSUME found # {} PROVE SummaryLeaves(d) # {}
  <2>1. begins \in SUBSET Nat /\ begins # {}
    BY <1>2, LeavesAreTyped
  <2>2. PICK x \in begins : \A y \in begins : x <= y
    BY <2>1, LeastIsThere
  <2>3. PICK i \in found : leaves[i].span[1] = x
    BY <2>2
  <2>4. \A j \in found : leaves[i].span[1] <= leaves[j].span[1]
    BY <2>2, <2>3
  <2> QED BY <2>3, <2>4 DEF SummaryLeaves
<1> QED BY <1>1, <1>2

\* On a day without requests nobody finds one.
LEMMA NoLeave ==
  ASSUME DayViewsTypeOK, NEW d \in ViewDays, LeavesOn(d) = {}
  PROVE  /\ DayBlock(d) = "none" /\ AnalyticsLeave(d) = "none"
         /\ SummaryLeaves(d) = {} /\ ~PayrollLeave(d)
<1>1. DayBlock(d) = "none" /\ AnalyticsLeave(d) = "none"
  BY BlockIsAsked, LeaveIsAsked
<1>2. SummaryLeaves(d) = {}
  BY SummaryIsAsked
<1> QED BY <1>1, <1>2 DEF PayrollLeave

\* On a day with requests that all know, all find one.
LEMMA KnownLeave ==
  ASSUME DayViewsTypeOK, NEW d \in ViewDays, LeavesOn(d) # {}, WellKnown({d})
  PROVE  /\ DayBlock(d) \in LeaveKinds /\ AnalyticsLeave(d) \in LeaveKinds
         /\ SummaryLeaves(d) # {} /\ SummaryLeaves(d) \subseteq LeaveKinds
         /\ PayrollLeave(d)
<1>1. \A i \in LeavesOn(d) : leaves[i].type.active /\ leaves[i].type.listed
  BY DEF WellKnown
<1>2. DayBlock(d) \in LeaveKinds
  BY <1>1, BlockIsAsked, LeavesAreTyped
<1>3. AnalyticsLeave(d) \in LeaveKinds
  BY <1>1, LeaveIsAsked, LeavesAreTyped
<1>4. SummaryLeaves(d) # {} /\ SummaryLeaves(d) \subseteq LeaveKinds
  BY <1>1, SummaryIsAsked, LeavesAreTyped
<1> QED BY <1>1, <1>2, <1>3, <1>4 DEF PayrollLeave

-------------------------------------------------------------------------------
(* What the readers make of a day *)

LEMMA RowsAreTyped ==
  ASSUME DayViewsTypeOK, NEW d \in ViewDays
  PROVE  /\ CheckedIn(d) \in BOOLEAN /\ CheckedOut(d) \in BOOLEAN
         /\ RawStatus(d) \in {"none", "present", "late", "absent", "incomplete", "rejected"}
         /\ scheduled[d] \in {"none", "work", "rest"}
<1>1. CASE records[d] = NoRecord
  BY <1>1 DEF DayViewsTypeOK, CheckedIn, CheckedOut, RawStatus, Recorded
<1>2. CASE records[d] # NoRecord
  <2>1. records[d] \in [status : {"present", "late", "absent", "incomplete", "rejected"},
                        in : BOOLEAN, out : BOOLEAN]
    BY <1>2, DayViewsAssumption DEF DayViewsTypeOK
  <2> QED BY <1>2, <2>1 DEF DayViewsTypeOK, CheckedIn, CheckedOut, RawStatus, Recorded
<1> QED BY <1>1, <1>2

LEMMA RowsComeInTime ==
  ASSUME ViewsInv, NEW d \in ViewDays, d > today
  PROVE  ~CheckedIn(d) /\ RawStatus(d) = "none"
BY DEF ViewsInv, RowsHaveCome, DayViewsTypeOK, ViewDays, CheckedIn, RawStatus, Recorded

\* What the views make of a day is of the kinds the analytics count.
LEMMA KindsArePossible ==
  ASSUME ViewsInv, NEW d \in ViewDays
  PROVE  DayKind(d) \in PossibleKinds
<1> DEFINE status == AnalyticsStatus(d)
<1>1. AnalyticsLeave(d) \in LeaveKinds \cup {"none"}
  BY LeaveIsAsked, LeavesAreTyped DEF ViewsInv
<1>2. /\ CheckedIn(d) \in BOOLEAN /\ CheckedOut(d) \in BOOLEAN
      /\ scheduled[d] \in {"none", "work", "rest"}
      /\ d \in Nat /\ today \in Nat
  BY RowsAreTyped DEF ViewsInv, DayViewsTypeOK, ViewDays
<1>3. CASE ~AttendanceRequired(d)
  <2>1. DayKind(d) = [status |-> status, required |-> FALSE, attended |-> FALSE,
                      late |-> FALSE, completed |-> FALSE]
    <3>1. HasAttendance(d) = FALSE /\ IsLate(d) = FALSE /\ CompletedShift(d) = FALSE
      BY <1>3 DEF HasAttendance, IsLate, CompletedShift
    <3>2. AttendanceRequired(d) = FALSE
      BY <1>3 DEF AttendanceRequired
    <3> QED BY <3>1, <3>2 DEF DayKind
  <2>2. status \in {"vacation", "medical_leave", "unpaid_leave", "holiday", "rest_day",
                    "no_schedule", "pending"}
    <3>1. CASE AnalyticsLeave(d) # "none"
      BY <1>1, <3>1 DEF AnalyticsStatus, LeaveKinds
    <3>2. CASE AnalyticsLeave(d) = "none" /\ (d \in holiday \/ scheduled[d] # "work")
      BY <3>2 DEF AnalyticsStatus
    <3>3. CASE AnalyticsLeave(d) = "none" /\ d \notin holiday /\ scheduled[d] = "work"
      <4>1. d > today
        BY <1>2, <1>3, <3>3 DEF AttendanceRequired
      <4>2. ~CheckedIn(d) /\ RawStatus(d) # "absent" /\ ~(d < today)
        BY <1>2, <4>1, RowsComeInTime
      <4> QED BY <3>3, <4>2 DEF AnalyticsStatus
    <3> QED BY <3>1, <3>2, <3>3
  <2> HIDE DEF status
  <2> QED BY <2>1, <2>2 DEF PossibleKinds
<1>4. CASE AttendanceRequired(d)
  <2>1. AnalyticsLeave(d) = "none" /\ d \notin holiday /\ scheduled[d] = "work"
    BY <1>4 DEF AttendanceRequired
  <2>2. CASE ~CheckedIn(d)
    <3>1. DayKind(d) = [status |-> status, required |-> TRUE, attended |-> FALSE,
                        late |-> FALSE, completed |-> FALSE]
      BY <1>4, <2>2, Zenon DEF DayKind, HasAttendance, IsLate, CompletedShift
    <3>2. status \in {"absent", "pending"}
      BY <2>1, <2>2 DEF AnalyticsStatus
    <3> HIDE DEF status
    <3> QED BY <3>1, <3>2 DEF PossibleKinds
  <2>3. CASE CheckedIn(d) /\ ~CheckedOut(d)
    <3>1. PICK late \in BOOLEAN : late = IsLate(d)
      BY DEF IsLate, HasAttendance
    <3>2. DayKind(d) = [status |-> status, required |-> TRUE, attended |-> TRUE,
                        late |-> late, completed |-> FALSE]
      BY <1>4, <2>3, <3>1, Zenon DEF DayKind, HasAttendance, CompletedShift
    <3>3. status = "incomplete"
      BY <2>1, <2>3 DEF AnalyticsStatus
    <3> HIDE DEF status
    <3> QED BY <3>2, <3>3 DEF PossibleKinds
  <2>4. CASE CheckedIn(d) /\ CheckedOut(d) /\ RawStatus(d) = "late"
    <3>1. DayKind(d) = [status |-> status, required |-> TRUE, attended |-> TRUE,
                        late |-> TRUE, completed |-> TRUE]
      BY <1>4, <2>4, Zenon DEF DayKind, HasAttendance, IsLate, CompletedShift
    <3>2. status = "late"
      BY <2>1, <2>4 DEF AnalyticsStatus
    <3> HIDE DEF status
    <3> QED BY <3>1, <3>2 DEF PossibleKinds
  <2>5. CASE CheckedIn(d) /\ CheckedOut(d) /\ RawStatus(d) # "late"
    <3>1. DayKind(d) = [status |-> status, required |-> TRUE, attended |-> TRUE,
                        late |-> FALSE, completed |-> TRUE]
      BY <1>4, <2>5, Zenon DEF DayKind, HasAttendance, IsLate, CompletedShift
    <3>2. status = "present"
      BY <2>1, <2>5 DEF AnalyticsStatus
    <3> HIDE DEF status
    <3> QED BY <3>1, <3>2 DEF PossibleKinds
  <2> QED BY <2>2, <2>3, <2>4, <2>5
<1> QED BY <1>3, <1>4

\* On a working day without leave, a row that is an absence is one to all.
LEMMA AbsenceIsSeen ==
  ASSUME ViewsInv, NEW d \in ViewDays, LeavesOn(d) = {}, Ordinary(d),
         scheduled[d] = "work", d \notin holiday
  PROVE  IF RawStatus(d) = "absent" THEN AbsentToAll(d) ELSE AbsentToNone(d)
<1>1. /\ DayBlock(d) = "none" /\ AnalyticsLeave(d) = "none"
      /\ SummaryLeaves(d) = {} /\ ~PayrollLeave(d)
  BY NoLeave DEF ViewsInv
<1>2. Recorded(d) /\ ~(d > today) /\ ~HolidayWithShift(d)
  BY DEF ViewsInv, RowsHaveCome, Ordinary, DayViewsTypeOK, ViewDays, HolidayWithShift
<1>3. RawStatus(d) \in {"none", "present", "late", "absent", "incomplete", "rejected"}
  BY RowsAreTyped DEF ViewsInv
<1>4. CASE RawStatus(d) = "absent"
  <2>1. ~CheckedIn(d)
    BY <1>4 DEF Ordinary
  <2>2. AnalyticsStatus(d) = "absent"
    BY <1>1, <1>4, <2>1 DEF AnalyticsStatus
  <2>3. HistoryStatus(d) = "absent"
    BY <1>1, <1>2, <1>4, <2>1 DEF HistoryStatus, HistoryRecordStatus
  <2>4. SummaryStatuses(d) = {"absent"}
    BY <1>1, <1>2, <1>4, <2>1 DEF SummaryStatuses
  <2> QED BY <1>1, <1>4, <2>2, <2>3, <2>4 DEF AbsentToAll, CountedAbsence
<1>5. CASE RawStatus(d) # "absent"
  <2>1. CheckedIn(d)
    BY <1>5 DEF Ordinary
  <2>2. AnalyticsStatus(d) # "absent"
    BY <1>1, <2>1 DEF AnalyticsStatus
  <2>3. HistoryStatus(d) # "absent"
    BY <1>1, <1>2, <1>5, <2>1 DEF HistoryStatus, HistoryRecordStatus
  <2>4. "absent" \notin SummaryStatuses(d)
    BY <1>1, <1>2, <1>5, <2>1 DEF SummaryStatuses
  <2> QED BY <1>5, <2>2, <2>3, <2>4 DEF AbsentToNone, CountedAbsence
<1> QED BY <1>4, <1>5

\* On a day of leave nobody sees an absence.
LEMMA LeaveIsSeen ==
  ASSUME ViewsInv, NEW d \in ViewDays, LeavesOn(d) # {}, WellKnown({d})
  PROVE  AbsentToNone(d)
<1>1. /\ DayBlock(d) \in LeaveKinds /\ AnalyticsLeave(d) \in LeaveKinds
      /\ SummaryLeaves(d) # {} /\ SummaryLeaves(d) \subseteq LeaveKinds
      /\ PayrollLeave(d)
  BY KnownLeave DEF ViewsInv
<1>2. AnalyticsStatus(d) # "absent"
  BY <1>1 DEF AnalyticsStatus, LeaveKinds
<1>3. HistoryStatus(d) # "absent"
  BY <1>1 DEF HistoryStatus, LeaveKinds
<1>4. "absent" \notin SummaryStatuses(d)
  BY <1>1 DEF SummaryStatuses, LeaveKinds
<1> QED BY <1>1, <1>2, <1>3, <1>4 DEF AbsentToNone, CountedAbsence

\* Where all know the requests, an absence that counts is on a day without one.
LEMMA AbsenceOrLeave ==
  ASSUME DayViewsTypeOK, NEW d \in ViewDays, WellKnown({d}), CountedAbsence(d)
  PROVE  DayBlock(d) = "none" /\ SummaryLeaves(d) = {}
<1>1. LeavesOn(d) = {}
  BY KnownLeave DEF CountedAbsence
<1> QED BY <1>1, NoLeave

-------------------------------------------------------------------------------
(* Days counted *)

LEMMA DaysAreFinite ==
  /\ IsFiniteSet(ViewDays) /\ Cardinality(ViewDays) = LastDay
  /\ \A S \in SUBSET ViewDays : IsFiniteSet(S) /\ Cardinality(S) \in Nat
<1>1. LastDay \in Nat
  BY DayViewsAssumption
<1>2. IsFiniteSet(ViewDays) /\ Cardinality(ViewDays) = LastDay
  BY <1>1, FS_Interval DEF ViewDays
<1>3. ASSUME NEW S \in SUBSET ViewDays PROVE IsFiniteSet(S) /\ Cardinality(S) \in Nat
  BY <1>2, FS_Subset, FS_CardinalityType
<1> QED BY <1>2, <1>3

LEMMA ApartAddUp ==
  ASSUME NEW S, NEW T, IsFiniteSet(S), IsFiniteSet(T), S \cap T = {}
  PROVE  /\ IsFiniteSet(S \cup T)
         /\ Cardinality(S \cup T) = Cardinality(S) + Cardinality(T)
         /\ Cardinality(S) \in Nat /\ Cardinality(T) \in Nat
<1>1. Cardinality(S \cap T) = 0
  BY FS_EmptySet
<1>2. Cardinality(S) \in Nat /\ Cardinality(T) \in Nat
  BY FS_CardinalityType
<1>3. IsFiniteSet(S \cup T) /\ Cardinality(S \cup T) = Cardinality(S) + Cardinality(T) - Cardinality(S \cap T)
  BY FS_Union
<1> QED BY <1>1, <1>2, <1>3

\* Four sets of days with none in common have no more days than there are.
LEMMA FourAddUp ==
  ASSUME NEW A \in SUBSET ViewDays, NEW B \in SUBSET ViewDays,
         NEW C \in SUBSET ViewDays, NEW D \in SUBSET ViewDays,
         A \cap B = {}, (A \cup B) \cap C = {}, (A \cup B \cup C) \cap D = {}
  PROVE  Cardinality(A) + Cardinality(B) + Cardinality(C) + Cardinality(D) <= LastDay
<1>1. IsFiniteSet(A) /\ IsFiniteSet(B) /\ IsFiniteSet(C) /\ IsFiniteSet(D)
  BY DaysAreFinite
<1>2. /\ IsFiniteSet(A \cup B)
      /\ Cardinality(A \cup B) = Cardinality(A) + Cardinality(B)
      /\ Cardinality(A) \in Nat /\ Cardinality(B) \in Nat
  BY <1>1, ApartAddUp
<1>3. /\ IsFiniteSet(A \cup B \cup C)
      /\ Cardinality(A \cup B \cup C) = Cardinality(A \cup B) + Cardinality(C)
      /\ Cardinality(C) \in Nat
  BY <1>1, <1>2, ApartAddUp
<1>4. /\ Cardinality(A \cup B \cup C \cup D) = Cardinality(A \cup B \cup C) + Cardinality(D)
      /\ Cardinality(D) \in Nat
  BY <1>1, <1>3, ApartAddUp
<1>5. Cardinality(A \cup B \cup C \cup D) <= LastDay
  <2>1. A \cup B \cup C \cup D \in SUBSET ViewDays
    OBVIOUS
  <2> QED BY <2>1, DaysAreFinite, FS_Subset
<1> QED BY <1>2, <1>3, <1>4, <1>5

LEMMA ViewsAgree == ViewsInv => AbsenceSeenAlike
<1> SUFFICES ASSUME ViewsInv PROVE AbsenceSeenAlike
  OBVIOUS
<1> DEFINE absent == {d \in ViewDays : CountedAbsence(d)}
           Of(kind) == {d \in ViewDays : DayBlock(d) = kind}
<1>1. ASSUME WellKnown(ViewDays)
      PROVE  Cardinality(absent) + Cardinality(Of("vacation")) + Cardinality(Of("medical_leave"))
               + Cardinality(Of("unpaid_leave")) <= LastDay
  <2>1. \A d \in absent : DayBlock(d) = "none"
    BY <1>1, AbsenceOrLeave DEF WellKnown, ViewsInv
  <2>2. /\ absent \cap Of("vacation") = {}
        /\ (absent \cup Of("vacation")) \cap Of("medical_leave") = {}
        /\ (absent \cup Of("vacation") \cup Of("medical_leave")) \cap Of("unpaid_leave") = {}
    BY <2>1
  <2>3. /\ absent \in SUBSET ViewDays /\ Of("vacation") \in SUBSET ViewDays
        /\ Of("medical_leave") \in SUBSET ViewDays /\ Of("unpaid_leave") \in SUBSET ViewDays
    OBVIOUS
  <2> HIDE DEF absent, Of
  <2> QED BY <2>2, <2>3, FourAddUp
<1>2. /\ Month(ViewDays).absenceCount = Cardinality(absent)
      /\ Month(ViewDays).vacationDays = Cardinality(Of("vacation"))
      /\ Month(ViewDays).medicalLeaveDays = Cardinality(Of("medical_leave"))
      /\ Month(ViewDays).unpaidLeaveDays = Cardinality(Of("unpaid_leave"))
  BY DEF Month, DaysThat, ApprovedDays
<1>3. /\ Payslip(ViewDays).absent = absent /\ Payslip(ViewDays).unpaid = Of("unpaid_leave")
      /\ Payslip(ViewDays).vacation = Cardinality(Of("vacation"))
      /\ Payslip(ViewDays).medical = Cardinality(Of("medical_leave"))
  BY DEF Payslip, ApprovedDays
<1>4. /\ Cardinality(absent) \in Nat
      /\ \A kind \in LeaveKinds : Cardinality(Of(kind)) \in Nat
  BY DaysAreFinite
<1> HIDE DEF absent, Of
<1>5. WellKnown(ViewDays) =>
        LET m == Month(ViewDays)
            p == Payslip(ViewDays)
        IN /\ m.absenceCount + m.vacationDays + m.medicalLeaveDays + m.unpaidLeaveDays <= LastDay
           /\ Cardinality(p.absent) + Cardinality(p.unpaid) + p.vacation + p.medical <= LastDay
  <2>1. LastDay \in Nat
    BY DayViewsAssumption
  <2> QED BY <1>1, <1>2, <1>3, <1>4, <2>1 DEF LeaveKinds
<1> QED BY <1>5, AbsenceIsSeen, LeaveIsSeen DEF AbsenceSeenAlike

-------------------------------------------------------------------------------
(* Cards *)

LEMMA CardOfDay ==
  ASSUME NEW d \in ViewDays
  PROVE  /\ TodayCard(d).required <=> DayBlock(d) = "none" /\ WorkingOn(d)
         /\ TodayCard(d).in <=>
              /\ DayBlock(d) = "none"
              /\ HolidayWithShift(d) \/ (WorkingOn(d) /\ HomeCard(d).in)
         /\ TodayCard(d).out <=> Marked(d) = "checked_in"
<1>1. CASE DayBlock(d) = "none"
  BY <1>1 DEF TodayCard, WithRequest, Enriched
<1>2. CASE DayBlock(d) # "none"
  <2>1. PICK open \in BOOLEAN : open <=> Marked(d) = "checked_in"
    OBVIOUS
  <2>2. TodayCard(d) = [status |-> DayBlock(d), in |-> FALSE, out |-> open, required |-> FALSE]
    <3>1. open = (Enriched(d).status = "checked_in")
      BY <2>1 DEF Enriched
    <3> QED BY <1>2, <3>1 DEF TodayCard, WithRequest
  <2>3. ~TodayCard(d).required /\ ~TodayCard(d).in /\ TodayCard(d).out = open
    BY <2>2
  <2> QED BY <1>2, <2>1, <2>3
<1> QED BY <1>1, <1>2

LEMMA AskedAlike ==
  ASSUME DayViewsTypeOK, NEW d \in ViewDays
  PROVE  RequiredAlike(d)
<1> SUFFICES ASSUME WellKnown({d})
             PROVE  /\ d <= today => (TodayCard(d).required <=> AttendanceRequired(d))
                    /\ InSummary(d) => (SummaryRequired(d) <=> TodayCard(d).required)
  BY DEF RequiredAlike
<1>1. DayBlock(d) = "none" <=> AnalyticsLeave(d) = "none"
  BY NoLeave, KnownLeave DEF LeaveKinds
<1>2. DayBlock(d) = "none" <=> SummaryLeaves(d) = {}
  BY NoLeave, KnownLeave DEF LeaveKinds
<1> QED BY <1>1, <1>2, CardOfDay DEF AttendanceRequired, WorkingOn, SummaryRequired

LEMMA AbsenceIsForewarned ==
  ASSUME NEW d \in ViewDays
  PROVE  AbsenceForewarned(d)
<1> SUFFICES ASSUME AbsenceDue(d)
             PROVE  /\ TodayCard(d).required
                    /\ d \in shiftDays => TodayCard(d).in /\ InAccepted(d)
  BY DEF AbsenceForewarned
<1>1. WorkingOn(d) /\ ~Recorded(d) /\ DayBlock(d) = "none"
  BY DEF AbsenceDue
<1>2. HasShift(d) /\ Marked(d) = "none"
  BY <1>1 DEF WorkingOn, HasShift, Marked, CheckedIn
<1>3. d \in shiftDays => HomeCard(d).in
  BY <1>2 DEF HomeCard
<1> QED BY <1>1, <1>2, <1>3, CardOfDay DEF InAccepted

LEMMA LeaveIsHonoured ==
  ASSUME NEW d \in ViewDays
  PROVE  LeaveHonoured(d)
<1>1. ASSUME DayBlock(d) # "none"
      PROVE  ~TodayCard(d).in /\ ~HistoryCard(d).in /\ ~InAccepted(d) /\ ~AbsenceDue(d)
  <2>1. ~TodayCard(d).in
    BY <1>1, CardOfDay
  <2>2. ~HistoryCard(d).in
    BY <1>1, <2>1 DEF HistoryCard, WithRequest
  <2> QED BY <1>1, <2>1, <2>2 DEF InAccepted, AbsenceDue
<1>2. ASSUME Marked(d) = "checked_in"
      PROVE  /\ TodayCard(d).out /\ HomeCard(d).out /\ HistoryCard(d).out
             /\ HasShift(d) /\ d \in shiftDays => OutAccepted(d)
  <2>1. CheckedIn(d) /\ ~CheckedOut(d)
    BY <1>2 DEF Marked
  <2>2. Recorded(d) /\ ~CalendarDay(d)
    BY <2>1 DEF CheckedIn, CalendarDay
  <2>3. TodayCard(d).out /\ HistoryCard(d).out
    BY <1>2, <2>2, CardOfDay DEF HistoryCard
  <2> QED BY <1>2, <2>1, <2>2, <2>3 DEF HomeCard, OutAccepted
<1> QED BY <1>1, <1>2 DEF LeaveHonoured

\* Where all know the requests, the summary counts the absences the payroll takes off.
LEMMA AbsentAlike ==
  ASSUME DayViewsTypeOK, NEW d \in ViewDays, WellKnown({d})
  PROVE  SummaryDiscount(d) = 3 <=> CountedAbsence(d)
<1>1. SummaryLeaves(d) = {} <=> ~PayrollLeave(d)
  BY NoLeave, KnownLeave
<1> QED BY <1>1 DEF SummaryDiscount, SummaryAbsent, CountedAbsence

LEMMA AbsenceIsPaidAlike ==
  ASSUME DayViewsTypeOK, NEW d \in ViewDays
  PROVE  AbsenceCostsAlike(d)
<1>1. ASSUME WellKnown({d}) PROVE SummaryDiscount(d) = 3 <=> Payslip({d}).absent = {d}
  <2>1. Payslip({d}).absent = {e \in {d} : CountedAbsence(e)}
    BY DEF Payslip
  <2> QED BY <1>1, <2>1, AbsentAlike
<1>2. ASSUME LeavesOn(d) = {}
      PROVE  /\ HomeMonth({d}).absences = Month({d}).absenceCount
             /\ HomeMonth({d}).workedDays = Month({d}).totalWorkedDays
  <2>1. {e \in {d} : RawStatus(e) = "absent"} = {e \in {d} : CountedAbsence(e)}
    BY <1>2, NoLeave DEF CountedAbsence
  <2>2. HomeMonth({d}).absences = Cardinality({e \in {d} : RawStatus(e) = "absent"})
    BY DEF HomeMonth
  <2>3. Month({d}).absenceCount = Cardinality({e \in {d} : CountedAbsence(e)})
    BY DEF Month, DaysThat
  <2> QED BY <2>1, <2>2, <2>3 DEF HomeMonth, Month
<1> QED BY <1>1, <1>2 DEF AbsenceCostsAlike

LEMMA CardsAgree == DayViewsTypeOK => CardsKeepTheirWord
BY AskedAlike, AbsenceIsForewarned, LeaveIsHonoured, AbsenceIsPaidAlike DEF CardsKeepTheirWord

-------------------------------------------------------------------------------
(* Totals *)

\* The extra of a payroll is that of so many absences.
LEMMA PayrollTakesOff ==
  ASSUME NEW ds \in SUBSET ViewDays
  PROVE  /\ Payslip(ds).absent = {d \in ds : CountedAbsence(d)}
         /\ PayrollOff(ds) = HalvesOff(DaysThat(ds, CountedAbsence))
<1> DEFINE absent == {d \in ds : CountedAbsence(d)}
           n == Cardinality(absent)
<1>1. IsFiniteSet(absent) /\ n \in Nat
  BY DaysAreFinite
<1>2. /\ Payslip(ds).absent = absent
      /\ Payslip(ds).extraHalves = CASE absent = {} -> 0 [] n = 1 -> 1 [] OTHER -> 2
      /\ DaysThat(ds, CountedAbsence) = n
  BY DEF Payslip, DaysThat
<1>3. absent = {} <=> n = 0
  BY <1>1, FS_EmptySet
<1> HIDE DEF absent, n
<1>4. Payslip(ds).extraHalves = IF n < 2 THEN n ELSE 2
  BY <1>1, <1>2, <1>3
<1>5. PayrollOff(ds) = 2 * n + Payslip(ds).extraHalves
  BY <1>2 DEF PayrollOff, n
<1> QED BY <1>1, <1>2, <1>4, <1>5 DEF HalvesOff, absent

LEMMA AbsencesAddUp ==
  ASSUME DayViewsTypeOK
  PROVE  AbsencesCostAlike(ViewDays)
<1> DEFINE absent == {d \in ViewDays : CountedAbsence(d)}
           n == Cardinality(absent)
           span == <<1, LastDay>>
<1>1. IsFiniteSet(absent) /\ n \in Nat /\ DaysThat(ViewDays, CountedAbsence) = n
  BY DaysAreFinite DEF DaysThat
<1>2. PayrollOff(ViewDays) = HalvesOff(n)
  BY <1>1, PayrollTakesOff
<1>3. WeekSummary(ViewDays, span).off = PayrollOff(ViewDays)
      /\ WeekSummary(ViewDays, span).worked = Payslip(ViewDays).worked
  BY <1>1, <1>2 DEF WeekSummary, Payslip
<1>4. ASSUME NEW d \in ViewDays
      PROVE  PayrollOff(ViewDays) <= WeekSummary({e \in ViewDays : e <= d}, span).off
                                       + WeekSummary({e \in ViewDays : e > d}, span).off
  <2> DEFINE left == {e \in {e \in ViewDays : e <= d} : CountedAbsence(e)}
             right == {e \in {e \in ViewDays : e > d} : CountedAbsence(e)}
             l == Cardinality(left)
             r == Cardinality(right)
  <2>1. /\ WeekSummary({e \in ViewDays : e <= d}, span).off = HalvesOff(l)
        /\ WeekSummary({e \in ViewDays : e > d}, span).off = HalvesOff(r)
    BY DEF WeekSummary, DaysThat
  <2>2. left \cap right = {} /\ absent = left \cup right
    BY DEF ViewDays
  <2>3. IsFiniteSet(left) /\ IsFiniteSet(right)
    BY DaysAreFinite
  <2> HIDE DEF absent, left, right
  <2>4. n = l + r /\ l \in Nat /\ r \in Nat
    BY <2>2, <2>3, ApartAddUp
  <2> HIDE DEF n, l, r
  <2> QED BY <1>2, <2>1, <2>4 DEF HalvesOff
<1>5. ASSUME WellKnown(ViewDays)
      PROVE  PayrollOff(ViewDays) <= 3 * Cardinality({d \in ViewDays : SummaryDiscount(d) = 3})
  <2>1. {d \in ViewDays : SummaryDiscount(d) = 3} = absent
    BY <1>5, AbsentAlike DEF WellKnown
  <2> HIDE DEF absent
  <2>2. Cardinality({d \in ViewDays : SummaryDiscount(d) = 3}) = n
    BY <2>1
  <2> HIDE DEF n
  <2> QED BY <1>1, <1>2, <2>2 DEF HalvesOff
<1> QED BY <1>3, <1>4, <1>5 DEF AbsencesCostAlike

LEMMA ExpectedAddUp ==
  ASSUME DayViewsTypeOK
  PROVE  ExpectedAlike(ViewDays)
<1> SUFFICES ASSUME NEW span \in Employment
             PROVE  /\ {d \in ExpectedDays(ViewDays, span) : d <= today /\ AnalyticsLeave(d) = "none"}
                         = {d \in ComputableDays(ViewDays, span) : AttendanceRequired(d)}
                    /\ WeekSummary(ViewDays, span).expected <= PaidDays(ViewDays, span)
  BY DEF ExpectedAlike
<1>1. {d \in ExpectedDays(ViewDays, span) : d <= today /\ AnalyticsLeave(d) = "none"}
        = {d \in ComputableDays(ViewDays, span) : AttendanceRequired(d)}
  BY DEF ExpectedDays, AttendanceRequired, WorkingOn
<1>2. /\ ComputableDays(ViewDays, span) \in SUBSET ViewDays
      /\ ExpectedDays(ViewDays, span) \in SUBSET ComputableDays(ViewDays, span)
  BY DEF ComputableDays, ExpectedDays
<1>3. Cardinality(ExpectedDays(ViewDays, span)) <= Cardinality(ComputableDays(ViewDays, span))
  BY <1>2, DaysAreFinite, FS_Subset
<1> QED BY <1>1, <1>3 DEF WeekSummary, PaidDays

LEMMA HolidaysAddUp ==
  ASSUME ViewsInv
  PROVE  HolidaysPaidAlike(ViewDays)
<1> SUFFICES ASSUME NEW d \in ViewDays, NEW status \in SummaryStatuses(d), InSummary(d),
                    LeavesOn(d) = {}, SummaryRecord(d, status).hasShift, Ordinary(d)
             PROVE  SummaryRecord(d, status).money.holidayWorked > 0 <=>
                      d \in Payslip(ViewDays).holidaysWorked
  <2>1. \A r \in SummaryRecords(ViewDays) :
          \E d \in ViewDays : \E status \in SummaryStatuses(d) :
            InSummary(d) /\ r = SummaryRecord(d, status)
    BY DEF SummaryRecords
  <2>2. \A d, status : SummaryRecord(d, status).date = d
    BY DEF SummaryRecord
  <2> QED BY <2>1, <2>2 DEF HolidaysPaidAlike
<1>1. SummaryLeaves(d) = {}
  BY NoLeave DEF ViewsInv
<1>2. Recorded(d) /\ (RawStatus(d) = "present" => CheckedIn(d)) /\ ~(d > today)
  BY DEF Ordinary, ViewsInv, RowsHaveCome, DayViewsTypeOK, ViewDays
<1>3. scheduled[d] # "none"
  BY DEF SummaryRecord, HasShift
<1>4. status = "holiday_worked" <=> d \in holiday /\ CheckedIn(d)
  <2>1. CASE d \in holiday
    BY <1>1, <1>2, <1>3, <2>1 DEF SummaryStatuses
  <2>2. CASE d \notin holiday /\ scheduled[d] = "rest"
    BY <1>1, <1>2, <1>3, <2>2 DEF SummaryStatuses
  <2>3. CASE d \notin holiday /\ scheduled[d] # "rest"
    <3>1. status \in {"pending", "incomplete", "late", "absent", "present"}
      BY <1>1, <1>2, <1>3, <2>3 DEF SummaryStatuses
    <3> QED BY <2>3, <3>1
  <2> QED BY <2>1, <2>2, <2>3
<1>5. SummaryRecord(d, status).money.holidayWorked = IF status = "holiday_worked" THEN 2 ELSE 0
  BY DEF SummaryRecord, SummaryMoney
<1>6. Payslip(ViewDays).holidaysWorked = {e \in ViewDays \cap holiday : CheckedIn(e)}
  BY DEF Payslip
<1> QED BY <1>4, <1>5, <1>6

LEMMA ReportsAddUp ==
  ASSUME DayViewsTypeOK
  PROVE  ReportFeedsPayroll(ViewDays)
<1> DEFINE rows == AttendanceReport(ViewDays, 1)
           With(status) == {d \in rows : RawStatus(d) = status}
           absent == {d \in ViewDays : CountedAbsence(d)}
<1>1. rows \in SUBSET ViewDays /\ \A d \in ViewDays : d \in rows <=> Recorded(d)
  BY DEF AttendanceReport, ViewDays
<1>2. absent \in SUBSET With("absent")
  BY <1>1 DEF CountedAbsence, RawStatus
<1>3. (\A d \in ViewDays : LeavesOn(d) = {}) => absent = With("absent")
  BY <1>1, NoLeave DEF CountedAbsence, RawStatus
<1>4. /\ MonthlyReport(ViewDays, 1).total = Cardinality(rows)
      /\ MonthlyReport(ViewDays, 1).present = Cardinality(With("present"))
      /\ MonthlyReport(ViewDays, 1).absent = Cardinality(With("absent"))
      /\ MonthlyReport(ViewDays, 1).late = Cardinality(With("late"))
  BY DEF MonthlyReport
<1>5. Payslip(ViewDays).absent = absent
  BY DEF Payslip
<1>6. /\ With("present") \cap With("absent") = {}
      /\ (With("present") \cup With("absent")) \cap With("late") = {}
      /\ With("present") \cup With("absent") \cup With("late") \in SUBSET rows
  OBVIOUS
<1>7. /\ With("present") \in SUBSET ViewDays /\ With("absent") \in SUBSET ViewDays
      /\ With("late") \in SUBSET ViewDays
  BY <1>1
<1>8. rows \subseteq DOMAIN RecordsByDate(ViewDays)
  <2>1. ASSUME NEW d \in rows PROVE \E r \in SummaryRecords(ViewDays) : r.date = d
    <3>1. d \in ViewDays /\ Recorded(d)
      BY <1>1, <2>1
    <3>2. PICK status : status \in SummaryStatuses(d)
      <4>1. CASE SummaryLeaves(d) # {}
        BY <4>1 DEF SummaryStatuses
      <4>2. CASE SummaryLeaves(d) = {}
        BY <3>1, <4>2 DEF SummaryStatuses
      <4> QED BY <4>1, <4>2
    <3>3. SummaryRecord(d, status) \in SummaryRecords(ViewDays)
      BY <3>1, <3>2 DEF SummaryRecords, InSummary
    <3>4. SummaryRecord(d, status).date = d
      BY DEF SummaryRecord
    <3> QED BY <3>3, <3>4
  <2>2. DOMAIN RecordsByDate(ViewDays) = {r.date : r \in SummaryRecords(ViewDays)}
    BY DEF RecordsByDate
  <2> HIDE DEF rows
  <2> QED BY <2>1, <2>2
<1> HIDE DEF rows, With, absent
<1>9. Cardinality(absent) <= Cardinality(With("absent"))
  BY <1>2, <1>7, DaysAreFinite, FS_Subset
<1>10. /\ Cardinality(With("present")) + Cardinality(With("absent")) + Cardinality(With("late"))
            <= Cardinality(rows)
       /\ Cardinality(With("absent")) \in Nat /\ Cardinality(absent) \in Nat
  <2>1. /\ IsFiniteSet(With("present")) /\ IsFiniteSet(With("absent"))
        /\ IsFiniteSet(With("late")) /\ IsFiniteSet(rows)
    BY <1>1, <1>7, DaysAreFinite
  <2>2. /\ IsFiniteSet(With("present") \cup With("absent"))
        /\ Cardinality(With("present") \cup With("absent"))
             = Cardinality(With("present")) + Cardinality(With("absent"))
        /\ Cardinality(With("present")) \in Nat /\ Cardinality(With("absent")) \in Nat
    BY <1>6, <2>1, ApartAddUp
  <2>3. /\ Cardinality(With("present") \cup With("absent") \cup With("late"))
             = Cardinality(With("present") \cup With("absent")) + Cardinality(With("late"))
        /\ Cardinality(With("late")) \in Nat
    BY <1>6, <2>1, <2>2, ApartAddUp
  <2>4. Cardinality(With("present") \cup With("absent") \cup With("late")) <= Cardinality(rows)
    BY <1>6, <2>1, FS_Subset
  <2>5. Cardinality(absent) \in Nat
    BY <1>2, <2>1, FS_Subset, FS_CardinalityType
  <2> QED BY <2>2, <2>3, <2>4, <2>5
<1>11. (\A d \in ViewDays : LeavesOn(d) = {}) => Cardinality(absent) = Cardinality(With("absent"))
  BY <1>3
<1> QED BY <1>4, <1>5, <1>8, <1>9, <1>10, <1>11 DEF ReportFeedsPayroll, rows

LEMMA TotalsAddUp == ViewsInv => TotalsAgree
BY AbsencesAddUp, ExpectedAddUp, HolidaysAddUp, ReportsAddUp DEF TotalsAgree, ViewsInv

-------------------------------------------------------------------------------
(* Boards *)

LEMMA QuotientFits ==
  ASSUME NEW n \in Nat, NEW size \in Nat \ {0}
  PROVE  /\ n \div size \in Nat
         /\ (n \div size) * size <= n
         /\ n < (n \div size) * size + size
OBVIOUS

\* As many times more pieces are no fewer.
LEMMA TimesMore ==
  ASSUME NEW a \in Int, NEW b \in Int, NEW size \in Nat \ {0}
  PROVE  (a + 1 <= b) => a * size + size <= b * size
OBVIOUS

LEMMA BoardSizes == IsFiniteSet(Members) /\ Members \subseteq Nat /\ PageSize \in Nat \ {0}
BY BoardsAssumption

LEMMA MarksAreTyped == \A m \in MarkForms : m.at \in Int /\ m.late \in Nat
<1>1. \A m \in MarkForms : m \in [at : -1 .. 1439, late : Nat, mock : BOOLEAN,
                                  status : {"present", "late", "absent"},
                                  site : Sites \cup {NoSite}]
  BY BoardsAssumption
<1> QED BY <1>1

LEMMA ListsAreFinite ==
  ASSUME BoardsTypeOK, NEW list \in Lists
  PROVE  /\ CountedIn(list) \subseteq Members /\ ListedIn(list) \subseteq CountedIn(list)
         /\ \A S \in SUBSET Members : IsFiniteSet(S) /\ Cardinality(S) \in Nat
         /\ Total(list) \in Nat
         /\ Cardinality(ListedIn(list)) <= Total(list)
<1>1. CountedIn(list) \subseteq Members
  BY DEF BoardsTypeOK, Lists, CountedIn
<1>2. ListedIn(list) \subseteq CountedIn(list)
  BY DEF ListedIn
<1>3. ASSUME NEW S \in SUBSET Members PROVE IsFiniteSet(S) /\ Cardinality(S) \in Nat
  <2>1. IsFiniteSet(S)
    BY BoardSizes, FS_Subset
  <2> QED BY <2>1, FS_CardinalityType
<1>4. Cardinality(ListedIn(list)) <= Cardinality(CountedIn(list))
  BY <1>1, <1>2, <1>3, FS_Subset
<1> QED BY <1>1, <1>2, <1>3, <1>4 DEF Total

LEMMA KeysAreTyped ==
  ASSUME BoardsTypeOK, NEW list \in Lists, NEW w \in ListedIn(list)
  PROVE  Key(list, w)[1] \in Int /\ Key(list, w)[2] \in Int
<1>1. w \in Members /\ w \in Nat /\ w \in CountedIn(list)
  BY ListsAreFinite, BoardSizes
<1>2. CASE list \in {"requests", "documents"}
  BY <1>1, <1>2 DEF Key
<1>3. CASE list = "contracts"
  BY <1>1, <1>3 DEF Key, BoardsTypeOK, Never
<1>4. CASE list \in {"late", "daily"}
  <2>1. marks[w] \in MarkForms
    BY <1>1, <1>4 DEF CountedIn, ArrivedLate, HasMark, BoardsTypeOK
  <2>2. marks[w].at \in Int /\ marks[w].late \in Nat
    BY <2>1, MarksAreTyped
  <2>3. Arrival(w) \in Int
    BY <2>2 DEF Arrival, Midnight
  <2> QED BY <1>4, <2>2, <2>3 DEF Key
<1> QED BY <1>2, <1>3, <1>4 DEF Lists

Ahead(list, w) == {v \in ListedIn(list) : Precedes(Key(list, v), Key(list, w))}
Tied(list, w)  == {v \in ListedIn(list) : Key(list, v) = Key(list, w)}

\* A row has as many places as rows tie with it, all of them on the list.
LEMMA PlacesFit ==
  ASSUME BoardsTypeOK, NEW list \in Lists, NEW w \in ListedIn(list)
  PROVE  /\ Cardinality(Ahead(list, w)) \in Nat /\ Cardinality(Tied(list, w)) \in Nat \ {0}
         /\ Cardinality(Ahead(list, w)) + Cardinality(Tied(list, w)) <= Total(list)
         /\ RanksOf(list, w) = Cardinality(Ahead(list, w)) ..
                                 Cardinality(Ahead(list, w)) + Cardinality(Tied(list, w)) - 1
         /\ Alone(list, w) => Cardinality(Tied(list, w)) = 1
<1> DEFINE ahead == Ahead(list, w)
           tied == Tied(list, w)
<1>1. IsFiniteSet(ListedIn(list)) /\ ahead \subseteq ListedIn(list) /\ tied \subseteq ListedIn(list)
  BY ListsAreFinite DEF Ahead, Tied
<1>2. IsFiniteSet(ahead) /\ IsFiniteSet(tied)
  BY <1>1, FS_Subset
<1>3. ahead \cap tied = {}
  BY KeysAreTyped DEF Ahead, Tied, Precedes
<1>4. w \in tied
  BY DEF Tied
<1>5. Alone(list, w) => tied = {w}
  BY <1>4 DEF Tied, Alone
<1>6. RanksOf(list, w) = Cardinality(ahead) .. Cardinality(ahead) + Cardinality(tied) - 1
  BY DEF RanksOf, Ahead, Tied
<1>7. Total(list) \in Nat /\ Cardinality(ListedIn(list)) <= Total(list)
  BY ListsAreFinite
<1> HIDE DEF ahead, tied
<1>8. /\ Cardinality(ahead \cup tied) = Cardinality(ahead) + Cardinality(tied)
      /\ Cardinality(ahead) \in Nat /\ Cardinality(tied) \in Nat
  BY <1>2, <1>3, ApartAddUp
<1>9. Cardinality(ahead \cup tied) <= Cardinality(ListedIn(list)) /\ Cardinality(ListedIn(list)) \in Nat
  BY <1>1, FS_Subset, FS_CardinalityType
<1>10. Cardinality(tied) # 0
  BY <1>2, <1>4, FS_EmptySet
<1>11. Cardinality({w}) = 1
  BY FS_Singleton
<1>12. /\ Cardinality(tied) \in Nat \ {0}
       /\ Cardinality(ahead) + Cardinality(tied) <= Total(list)
  BY <1>7, <1>8, <1>9, <1>10
<1>13. Alone(list, w) => Cardinality(tied) = 1
  BY <1>5, <1>11
<1> QED BY <1>6, <1>8, <1>12, <1>13 DEF ahead, tied

\* The row in place n is on page n \div PageSize + 1, which the total announces, and on
\* no other.
LEMMA PageOfPlace ==
  ASSUME NEW n \in Nat, NEW total \in Nat, n < total
  PROVE  LET page == n \div PageSize + 1
         IN  /\ page \in 1 .. (total + PageSize - 1) \div PageSize
             /\ n \in RanksOn(page)
             /\ \A other \in Nat : n \in RanksOn(other) => other = page
<1> DEFINE k == n \div PageSize
           last == (total + PageSize - 1) \div PageSize
<1>1. PageSize \in Nat \ {0}
  BY BoardSizes
<1>2. k \in Nat /\ k * PageSize <= n /\ n < k * PageSize + PageSize
  BY <1>1, QuotientFits
<1>3. total + PageSize - 1 \in Nat
  BY <1>1
<1>4. last \in Nat /\ total + PageSize - 1 < last * PageSize + PageSize
  BY <1>1, <1>3, QuotientFits
<1> HIDE DEF k, last
<1>5. k + 1 <= last
  <2> SUFFICES ASSUME last <= k PROVE FALSE
    BY <1>2, <1>4
  <2>1. last + 1 <= k + 1
    BY <1>2, <1>4
  <2>2. last * PageSize + PageSize <= (k + 1) * PageSize
    BY <1>1, <1>2, <1>4, <2>1, TimesMore
  <2>3. (k + 1) * PageSize = k * PageSize + PageSize
    BY <1>1, <1>2
  <2>4. k * PageSize \in Int /\ last * PageSize \in Int
    BY <1>1, <1>2, <1>4
  <2> QED BY <1>1, <1>2, <1>4, <2>2, <2>3, <2>4
<1>6. Offset(k + 1) = k * PageSize /\ k * PageSize \in Nat
  BY <1>1, <1>2 DEF Offset
<1>7. n \in RanksOn(k + 1)
  BY <1>1, <1>2, <1>6 DEF RanksOn
<1>8. ASSUME NEW other \in Nat, n \in RanksOn(other)
      PROVE  other = k + 1
  <2>1. /\ (other - 1) * PageSize \in Int
        /\ (other - 1) * PageSize <= n /\ n < (other - 1) * PageSize + PageSize
    BY <1>1, <1>8 DEF RanksOn, Offset
  <2>2. CASE other - 1 < k
    <3>1. (other - 1) * PageSize + PageSize <= k * PageSize
      BY <1>1, <1>2, <2>2, TimesMore
    <3> QED BY <1>1, <1>2, <1>6, <2>1, <3>1
  <2>3. CASE k < other - 1
    <3>1. k * PageSize + PageSize <= (other - 1) * PageSize
      BY <1>1, <1>2, <2>3, TimesMore
    <3> QED BY <1>1, <1>2, <1>6, <2>1, <3>1
  <2> QED BY <1>2, <2>2, <2>3
<1> QED BY <1>2, <1>4, <1>5, <1>7, <1>8 DEF k, last

LEMMA PagesShow == BoardsTypeOK => PagesShowAll
<1> SUFFICES ASSUME BoardsTypeOK, NEW list \in Lists, NEW w \in ListedIn(list), Alone(list, w)
             PROVE  \E page \in 1 .. TotalPages(list) :
                      /\ w \in Shows(list, page)
                      /\ \A other \in (1 .. TotalPages(list)) \ {page} : w \notin MayShow(list, other)
  BY DEF PagesShowAll
<1> DEFINE n == Cardinality(Ahead(list, w))
           page == n \div PageSize + 1
<1>1. n \in Nat /\ n < Total(list) /\ Total(list) \in Nat
  BY PlacesFit, ListsAreFinite
<1>2. RanksOf(list, w) = {n}
  <2>1. RanksOf(list, w) = n .. n
    BY PlacesFit
  <2> QED BY <1>1, <2>1
<1> HIDE DEF n
<1>3. /\ page \in 1 .. TotalPages(list)
      /\ n \in RanksOn(page)
      /\ \A other \in Nat : n \in RanksOn(other) => other = page
  BY <1>1, PageOfPlace DEF TotalPages
<1> HIDE DEF page
<1>4. w \in Shows(list, page)
  BY <1>2, <1>3 DEF Shows
<1>5. \A other \in (1 .. TotalPages(list)) \ {page} : w \notin MayShow(list, other)
  BY <1>2, <1>3 DEF MayShow
<1> QED BY <1>3, <1>4, <1>5

LEMMA FiguresStand == BoardsTypeOK => FiguresAgree
<1> SUFFICES ASSUME BoardsTypeOK PROVE FiguresAgree
  OBVIOUS
<1> DEFINE marked == {w \in Members : HasMark(w)}
           late == {w \in Members : ArrivedLate(w)}
           came == {w \in Members : HasMark(w) /\ marks[w].at # -1}
           without == {w \in CountedIn("daily") : marks[w].at = -1}
<1>1. \A S \in SUBSET Members : /\ IsFiniteSet(S) /\ Cardinality(S) \in Nat
                                /\ \A T \in SUBSET S : Cardinality(T) <= Cardinality(S)
  BY ListsAreFinite, FS_Subset DEF Lists
<1>2. CountedIn("daily") = marked /\ CountedIn("late") = late
  BY DEF CountedIn
<1>3. ListedIn("late") \subseteq ListedIn("daily")
  BY <1>2 DEF ListedIn, ArrivedLate
<1>4. ChartToday = [present |-> Total("daily"), late |-> Total("late")]
  BY <1>2 DEF ChartToday, Total
<1>5. TodayFigures.records = Cardinality(came)
  BY DEF TodayFigures
<1>6. Cardinality(came) + Cardinality(without) = Cardinality(marked)
  <2>1. came \cup without = marked /\ came \cap without = {}
    BY <1>2
  <2>2. IsFiniteSet(came) /\ IsFiniteSet(without)
    BY <1>1, <1>2
  <2> HIDE DEF came, without, marked
  <2> QED BY <2>1, <2>2, ApartAddUp
<1>7. TodayFigures.late <= Total("late")
  <2> DEFINE both == {w \in came : ArrivedLate(w)}
  <2>1. both \subseteq late /\ late \subseteq Members
    OBVIOUS
  <2>2. TodayFigures.late = Cardinality(both) /\ Total("late") = Cardinality(late)
    BY <1>2 DEF TodayFigures, Total
  <2> HIDE DEF both, late
  <2> QED BY <1>1, <2>1, <2>2
<1>8. ASSUME NEW s \in Sites
      PROVE  SiteRow(s).attendance <= TodayFigures.records /\ SiteRow(s).late <= Total("late")
  <2> DEFINE here == {w \in Members : HasMark(w) /\ marks[w].site = s}
             there == {w \in here : marks[w].at # -1}
             tardy == {w \in here : ArrivedLate(w)}
  <2>1. /\ there \subseteq came /\ came \subseteq Members
        /\ tardy \subseteq late /\ late \subseteq Members
    OBVIOUS
  <2>2. /\ SiteRow(s).attendance = Cardinality(there) /\ SiteRow(s).late = Cardinality(tardy)
        /\ Total("late") = Cardinality(late)
    BY <1>2 DEF SiteRow, Total
  <2> HIDE DEF there, tardy, came, late
  <2> QED BY <1>1, <1>5, <2>1, <2>2
<1> QED BY <1>2, <1>3, <1>4, <1>5, <1>6, <1>7, <1>8 DEF FiguresAgree, Total

\* Some row of a list that has any is the first.
LEMMA SomeoneIsFirst ==
  ASSUME BoardsTypeOK, NEW list \in Lists, ListedIn(list) # {}
  PROVE  \E w \in ListedIn(list) : Cardinality(Ahead(list, w)) = 0
<1> DEFINE places == {n \in Nat : \E v \in ListedIn(list) : Cardinality(Ahead(list, v)) = n}
<1>1. places # {}
  BY PlacesFit
<1>2. PICK n \in places : \A m \in places : n <= m
  BY <1>1, LeastIsThere
<1>3. PICK w \in ListedIn(list) : Cardinality(Ahead(list, w)) = n
  BY <1>2
<1>4. Ahead(list, w) = {}
  <2> SUFFICES ASSUME NEW v \in Ahead(list, w) PROVE FALSE
    OBVIOUS
  <2>1. v \in ListedIn(list)
    BY DEF Ahead
  <2>2. Ahead(list, v) \subseteq Ahead(list, w) \ {v}
    BY <2>1, KeysAreTyped DEF Ahead, Precedes
  <2>3. IsFiniteSet(Ahead(list, w))
    <3>1. Ahead(list, w) \in SUBSET Members
      BY ListsAreFinite DEF Ahead
    <3> QED BY <3>1, ListsAreFinite
  <2>4. Cardinality(Ahead(list, v)) <= Cardinality(Ahead(list, w) \ {v})
    BY <2>2, <2>3, FS_Subset
  <2>5. Cardinality(Ahead(list, w) \ {v}) = n - 1
    BY <1>3, <2>3, FS_RemoveElement
  <2>6. Cardinality(Ahead(list, v)) \in places
    BY <2>1, PlacesFit
  <2> QED BY <1>2, <2>4, <2>5, <2>6
<1> QED BY <1>3, <1>4, FS_EmptySet

LEMMA AlertsShow == BoardsTypeOK => AlertsLead
<1> SUFFICES ASSUME BoardsTypeOK, NEW list \in Lists, CountedIn(list) \cap hasUser # {}
             PROVE  MayShow(list, 1) # {}
  BY DEF AlertsLead
<1>1. ListedIn(list) # {}
  BY DEF ListedIn
<1>2. PICK w \in ListedIn(list) : Cardinality(Ahead(list, w)) = 0
  BY <1>1, SomeoneIsFirst
<1>3. 0 \in RanksOf(list, w)
  BY <1>2, PlacesFit
<1>4. 0 \in RanksOn(1)
  BY BoardSizes DEF RanksOn, Offset
<1> QED BY <1>3, <1>4 DEF MayShow

-------------------------------------------------------------------------------
(* Groups *)

\* The fold of MapThenSumSet, of the numbers g
Folds(g, h, S) ==
  h = [s \in SUBSET S |-> IF s = {} THEN 0
                          ELSE LET x == CHOOSE x \in s : TRUE IN g[x] + h[s \ {x}]]

\* The rows R with a key among those of s
Under(R, key, s) == {r \in R : key[r] \in s}

\* What is counted group by group is so of any of the groups together.
Grouped(g, R, key, K) == \A k \in K : g[k] = Cardinality(Under(R, key, {k}))

LEMMA GroupJoins ==
  ASSUME NEW R, IsFiniteSet(R), NEW key, NEW s, NEW x \in s
  PROVE  Cardinality(Under(R, key, s))
           = Cardinality(Under(R, key, {x})) + Cardinality(Under(R, key, s \ {x}))
<1> DEFINE one == Under(R, key, {x})
           rest == Under(R, key, s \ {x})
<1>1. Under(R, key, s) = one \cup rest /\ one \cap rest = {} /\ one \subseteq R /\ rest \subseteq R
  BY DEF Under
<1> HIDE DEF one, rest
<1>2. IsFiniteSet(one) /\ IsFiniteSet(rest)
  BY <1>1, FS_Subset
<1>3. Cardinality(one \cup rest) = Cardinality(one) + Cardinality(rest)
  BY <1>1, <1>2, ApartAddUp
<1> QED BY <1>1, <1>3 DEF one, rest

LEMMA NoneUnderNone ==
  ASSUME NEW R, NEW key PROVE Cardinality(Under(R, key, {})) = 0
<1>1. Under(R, key, {}) = {}
  BY DEF Under
<1> QED BY <1>1, FS_EmptySet

LEMMA GroupsFold ==
  ASSUME NEW K, NEW R, IsFiniteSet(R), NEW key \in [R -> K], NEW g, Grouped(g, R, key, K)
  PROVE  \E h : Folds(g, h, K)
<1> DEFINE h == [s \in SUBSET K |-> Cardinality(Under(R, key, s))]
<1>1. ASSUME NEW s \in SUBSET K, s # {}
      PROVE  Cardinality(Under(R, key, s))
               = g[CHOOSE x \in s : TRUE] + h[s \ {CHOOSE x \in s : TRUE}]
  <2> DEFINE x == CHOOSE x \in s : TRUE
  <2>1. x \in s
    BY <1>1
  <2> HIDE DEF x
  <2>2. Cardinality(Under(R, key, s))
          = Cardinality(Under(R, key, {x})) + Cardinality(Under(R, key, s \ {x}))
    BY <2>1, GroupJoins
  <2>3. h[s \ {x}] = Cardinality(Under(R, key, s \ {x}))
    OBVIOUS
  <2>4. g[x] = Cardinality(Under(R, key, {x}))
    BY <2>1 DEF Grouped
  <2> QED BY <2>2, <2>3, <2>4 DEF x
<1>2. Cardinality(Under(R, key, {})) = 0
  BY NoneUnderNone
<1>3. Folds(g, h, K)
  BY <1>1, <1>2 DEF Folds
<1> QED BY <1>3

LEMMA FoldCounts ==
  ASSUME NEW K, IsFiniteSet(K), NEW R, IsFiniteSet(R), NEW key \in [R -> K],
         NEW g, Grouped(g, R, key, K), NEW h, Folds(g, h, K)
  PROVE  h[K] = Cardinality(R)
<1> DEFINE Bad == {n \in Nat : \E t \in SUBSET K :
                     Cardinality(t) = n /\ h[t] # Cardinality(Under(R, key, t))}
<1>1. Bad = {}
  <2> SUFFICES ASSUME Bad # {} PROVE FALSE
    OBVIOUS
  <2>1. PICK n \in Bad : \A m \in Bad : n <= m
    BY LeastIsThere
  <2>2. PICK t \in SUBSET K : Cardinality(t) = n /\ h[t] # Cardinality(Under(R, key, t))
    BY <2>1
  <2>3. t # {}
    <3>1. h[{}] = 0
      BY DEF Folds
    <3> QED BY <2>2, <3>1, NoneUnderNone
  <2> DEFINE x == CHOOSE x \in t : TRUE
  <2>4. x \in t /\ h[t] = g[x] + h[t \ {x}]
    BY <2>3 DEF Folds
  <2> HIDE DEF x
  <2>5. IsFiniteSet(t) /\ Cardinality(t \ {x}) = n - 1 /\ Cardinality(t \ {x}) \in Nat
    BY <2>2, <2>4, FS_Subset, FS_RemoveElement, FS_CardinalityType
  <2>6. n - 1 \notin Bad /\ n - 1 \in Nat
    BY <2>1, <2>5
  <2>7. h[t \ {x}] = Cardinality(Under(R, key, t \ {x}))
    BY <2>5, <2>6
  <2>8. g[x] = Cardinality(Under(R, key, {x}))
    BY <2>4 DEF Grouped
  <2>9. Cardinality(Under(R, key, t))
          = Cardinality(Under(R, key, {x})) + Cardinality(Under(R, key, t \ {x}))
    BY <2>4, GroupJoins
  <2> QED BY <2>2, <2>4, <2>7, <2>8, <2>9
<1>2. Cardinality(K) \in Nat
  BY FS_CardinalityType
<1>3. Under(R, key, K) = R
  BY DEF Under
<1> QED BY <1>1, <1>2, <1>3

-------------------------------------------------------------------------------
(* Orders *)

\* R orders the members of K, each before or after any other.
Orders(R, K) ==
  /\ \A k \in K : <<k, k>> \notin R
  /\ \A k, l \in K : k # l => (<<k, l>> \in R \/ <<l, k>> \in R)
  /\ \A k, l, m \in K : (<<k, l>> \in R /\ <<l, m>> \in R) => <<k, m>> \in R

PlaceIn(R, K, k) == Cardinality({l \in K : <<l, k>> \in R}) + 1

\* Whoever comes later has a later place.
LEMMA LaterPlaces ==
  ASSUME NEW K, IsFiniteSet(K), NEW R, Orders(R, K)
  PROVE  /\ \A k \in K : PlaceIn(R, K, k) \in 1 .. Cardinality(K)
         /\ \A k, l \in K : <<k, l>> \in R => PlaceIn(R, K, k) < PlaceIn(R, K, l)
<1> DEFINE Ahd(k) == {l \in K : <<l, k>> \in R}
<1>1. ASSUME NEW k \in K PROVE IsFiniteSet(Ahd(k)) /\ Cardinality(Ahd(k)) \in Nat /\ k \notin Ahd(k)
  BY FS_Subset, FS_CardinalityType DEF Orders
<1>2. ASSUME NEW k \in K PROVE Cardinality(Ahd(k)) + 1 <= Cardinality(K)
  <2>1. IsFiniteSet(Ahd(k) \cup {k}) /\ Cardinality(Ahd(k) \cup {k}) = Cardinality(Ahd(k)) + 1
    BY <1>1, FS_AddElement
  <2>2. Ahd(k) \cup {k} \subseteq K
    OBVIOUS
  <2> HIDE DEF Ahd
  <2>3. Cardinality(Ahd(k) \cup {k}) <= Cardinality(K)
    BY <2>2, FS_Subset
  <2> QED BY <2>1, <2>3
<1>3. ASSUME NEW k \in K, NEW l \in K, <<k, l>> \in R
      PROVE  Cardinality(Ahd(k)) < Cardinality(Ahd(l))
  <2>1. Ahd(k) \cup {k} \subseteq Ahd(l)
    BY <1>3 DEF Orders
  <2>2. Cardinality(Ahd(k) \cup {k}) = Cardinality(Ahd(k)) + 1
    BY <1>1, FS_AddElement
  <2>3. IsFiniteSet(Ahd(l)) /\ Cardinality(Ahd(k)) \in Nat /\ Cardinality(Ahd(l)) \in Nat
    BY <1>1
  <2> HIDE DEF Ahd
  <2>4. Cardinality(Ahd(k) \cup {k}) <= Cardinality(Ahd(l))
    BY <2>1, <2>3, FS_Subset
  <2> QED BY <2>2, <2>3, <2>4
<1>4. \A k \in K : PlaceIn(R, K, k) = Cardinality(Ahd(k)) + 1
  BY DEF PlaceIn
<1>5. Cardinality(K) \in Nat
  BY FS_CardinalityType
<1> HIDE DEF Ahd
<1> QED BY <1>1, <1>2, <1>3, <1>4, <1>5

\* Each place is of one member, and each member has one.
LEMMA PlacesAreAll ==
  ASSUME NEW K, IsFiniteSet(K), NEW R, Orders(R, K)
  PROVE  /\ \A n \in 1 .. Cardinality(K) : \E k \in K : PlaceIn(R, K, k) = n
         /\ \A k, l \in K : PlaceIn(R, K, k) = PlaceIn(R, K, l) => k = l
<1> DEFINE Slots == 1 .. Cardinality(K)
           place == [k \in K |-> PlaceIn(R, K, k)]
<1>1. \A k, l \in K : PlaceIn(R, K, k) = PlaceIn(R, K, l) => k = l
  <2>1. /\ \A k \in K : PlaceIn(R, K, k) \in Int
        /\ \A k, l \in K : <<k, l>> \in R => PlaceIn(R, K, k) < PlaceIn(R, K, l)
    <3>1. \A k \in K : PlaceIn(R, K, k) \in Slots
      BY LaterPlaces
    <3>2. \A k, l \in K : <<k, l>> \in R => PlaceIn(R, K, k) < PlaceIn(R, K, l)
      BY LaterPlaces
    <3> QED BY <3>1, <3>2
  <2>2. \A k, l \in K : k # l => (<<k, l>> \in R \/ <<l, k>> \in R)
    BY DEF Orders
  <2>3. ASSUME NEW k \in K, NEW l \in K, <<k, l>> \in R PROVE PlaceIn(R, K, k) # PlaceIn(R, K, l)
    <3>1. /\ PlaceIn(R, K, k) \in Int /\ PlaceIn(R, K, l) \in Int
          /\ PlaceIn(R, K, k) < PlaceIn(R, K, l)
      BY <2>1, <2>3
    <3> QED BY <3>1
  <2> QED BY <2>2, <2>3, Zenon
<1>2. place \in [K -> Slots]
  BY LaterPlaces
<1>3. place \in Injection(K, Slots)
  BY <1>1, <1>2 DEF Injection, IsInjective
<1>4. IsFiniteSet(Slots) /\ Cardinality(Slots) = Cardinality(K)
  BY FS_CardinalityType, FS_Interval
<1>5. place \in Surjection(K, Slots)
  <2> HIDE DEF place, Slots
  <2> QED BY <1>3, <1>4, FS_Injection
<1>6. \A n \in Slots : \E k \in K : place[k] = n
  <2> HIDE DEF place, Slots
  <2> QED BY <1>5 DEF Surjection
<1> QED BY <1>1, <1>6

-------------------------------------------------------------------------------
(* Charts and trends *)

StatusFields ==
  [absentCount |-> "absent", vacationCount |-> "vacation", medicalLeaveCount |-> "medical_leave",
   unpaidLeaveCount |-> "unpaid_leave", holidayCount |-> "holiday", restDayCount |-> "rest_day",
   noScheduleCount |-> "no_schedule", incompleteCount |-> "incomplete", pendingCount |-> "pending"]

CountFields ==
  {"scheduledWorkDays", "presentCount", "onTimeCount", "lateCount", "completedShiftCount",
   "absentCount", "vacationCount", "medicalLeaveCount", "unpaidLeaveCount", "holidayCount",
   "restDayCount", "noScheduleCount", "incompleteCount", "pendingCount"}

\* The rows a count counts
Has(f, r) ==
  CASE f = "scheduledWorkDays" -> r.day.required
    [] f = "presentCount" -> r.day.attended
    [] f = "onTimeCount" -> r.day.attended /\ ~r.day.late
    [] f = "lateCount" -> r.day.late
    [] f = "completedShiftCount" -> r.day.completed
    [] OTHER -> r.day.status = StatusFields[f]

LEMMA CountsAreOfRows ==
  ASSUME NEW rows
  PROVE  /\ CountsOf(rows) = [f \in CountFields |-> CountsOf(rows)[f]]
         /\ \A f \in CountFields : CountsOf(rows)[f] = Cardinality({r \in rows : Has(f, r)})
<1>1. CountsOf(rows) = [f \in CountFields |-> CountsOf(rows)[f]]
  BY DEF CountsOf, CountFields
<1>2. ASSUME NEW f \in CountFields
      PROVE  CountsOf(rows)[f] = Cardinality({r \in rows : Has(f, r)})
  <2>1. CASE f \in DOMAIN StatusFields
    <3>1. Cardinality({r \in rows : Has(f, r)})
            = Cardinality({r \in rows : r.day.status = StatusFields[f]})
      BY <2>1 DEF Has, StatusFields
    <3>2. CASE f = "absentCount"
      <4>1. StatusFields[f] = "absent"
        BY <3>2 DEF StatusFields
      <4> QED BY <3>1, <3>2, <4>1 DEF CountsOf
    <3>3. CASE f = "vacationCount"
      <4>1. StatusFields[f] = "vacation"
        BY <3>3 DEF StatusFields
      <4> QED BY <3>1, <3>3, <4>1 DEF CountsOf
    <3>4. CASE f = "medicalLeaveCount"
      <4>1. StatusFields[f] = "medical_leave"
        BY <3>4 DEF StatusFields
      <4> QED BY <3>1, <3>4, <4>1 DEF CountsOf
    <3>5. CASE f = "unpaidLeaveCount"
      <4>1. StatusFields[f] = "unpaid_leave"
        BY <3>5 DEF StatusFields
      <4> QED BY <3>1, <3>5, <4>1 DEF CountsOf
    <3>6. CASE f = "holidayCount"
      <4>1. StatusFields[f] = "holiday"
        BY <3>6 DEF StatusFields
      <4> QED BY <3>1, <3>6, <4>1 DEF CountsOf
    <3>7. CASE f = "restDayCount"
      <4>1. StatusFields[f] = "rest_day"
        BY <3>7 DEF StatusFields
      <4> QED BY <3>1, <3>7, <4>1 DEF CountsOf
    <3>8. CASE f = "noScheduleCount"
      <4>1. StatusFields[f] = "no_schedule"
        BY <3>8 DEF StatusFields
      <4> QED BY <3>1, <3>8, <4>1 DEF CountsOf
    <3>9. CASE f = "incompleteCount"
      <4>1. StatusFields[f] = "incomplete"
        BY <3>9 DEF StatusFields
      <4> QED BY <3>1, <3>9, <4>1 DEF CountsOf
    <3>10. CASE f = "pendingCount"
      <4>1. StatusFields[f] = "pending"
        BY <3>10 DEF StatusFields
      <4> QED BY <3>1, <3>10, <4>1 DEF CountsOf
    <3> QED BY <2>1, <3>2, <3>3, <3>4, <3>5, <3>6, <3>7, <3>8, <3>9, <3>10 DEF StatusFields
  <2>2. CASE f = "scheduledWorkDays"
    BY <2>2 DEF CountsOf, Has
  <2>3. CASE f = "presentCount"
    BY <2>3 DEF CountsOf, Has
  <2>4. CASE f = "onTimeCount"
    BY <2>4 DEF CountsOf, Has
  <2>5. CASE f = "lateCount"
    BY <2>5 DEF CountsOf, Has
  <2>6. CASE f = "completedShiftCount"
    BY <2>6 DEF CountsOf, Has
  <2> QED BY <2>1, <2>2, <2>3, <2>4, <2>5, <2>6 DEF CountFields, StatusFields
<1> QED BY <1>1, <1>2

\* The counts of the groups sum to those of all, whatever the rows are grouped by.
LEMMA SumOfGroups ==
  ASSUME NEW rows, IsFiniteSet(rows), NEW K, IsFiniteSet(K), NEW key \in [rows -> K],
         NEW counts, \A k \in K : counts[k] = CountsOf({r \in rows : key[r] = k})
  PROVE  Sum(counts, K) = CountsOf(rows)
<1>1. ASSUME NEW f \in CountFields
      PROVE  MapThenSumSet(LAMBDA k : counts[k][f], K) = CountsOf(rows)[f]
  <2> DEFINE R == {r \in rows : Has(f, r)}
             own == [r \in R |-> key[r]]
  <2>1. IsFiniteSet(R)
    BY FS_Subset
  <2>2. own \in [R -> K]
    OBVIOUS
  <2>3. ASSUME NEW k \in K PROVE counts[k][f] = Cardinality(Under(R, own, {k}))
    <3>1. {r \in {r \in rows : key[r] = k} : Has(f, r)} = Under(R, own, {k})
      BY DEF Under
    <3>2. counts[k][f] = Cardinality({r \in {r \in rows : key[r] = k} : Has(f, r)})
      BY CountsAreOfRows
    <3> QED BY <3>1, <3>2
  <2>4. CountsOf(rows)[f] = Cardinality(R)
    BY CountsAreOfRows
  <2> DEFINE g == [k \in K |-> counts[k][f]]
             Body(h) ==
               [s \in SUBSET K |-> IF s = {} THEN 0
                  ELSE LET x == CHOOSE x \in s : TRUE
                       IN  counts[x][f] + h[s \ {x}]]
             it == CHOOSE h : h = Body(h)
  <2>5. MapThenSumSet(LAMBDA k : counts[k][f], K) = it[K]
    BY DEF MapThenSumSet, MapThenFoldSet
  <2>6. Grouped(g, R, own, K)
    BY <2>3 DEF Grouped
  <2>7. ASSUME NEW h PROVE h = Body(h) <=> Folds(g, h, K)
    <3>1. ASSUME NEW s \in SUBSET K, s # {} PROVE (CHOOSE x \in s : TRUE) \in K
      BY <3>1
    <3>2. ASSUME NEW s \in SUBSET K, s # {}
          PROVE  counts[CHOOSE x \in s : TRUE][f] = g[CHOOSE x \in s : TRUE]
      BY <3>1, <3>2
    <3> DEFINE Mine(s) == IF s = {} THEN 0
                          ELSE LET x == CHOOSE x \in s : TRUE IN counts[x][f] + h[s \ {x}]
               Its(s) == IF s = {} THEN 0
                         ELSE LET x == CHOOSE x \in s : TRUE IN g[x] + h[s \ {x}]
    <3>3. \A s \in SUBSET K : Mine(s) = Its(s)
      BY <3>2
    <3>4. Body(h) = [s \in SUBSET K |-> Mine(s)]
      OBVIOUS
    <3>5. Folds(g, h, K) <=> h = [s \in SUBSET K |-> Its(s)]
      BY DEF Folds
    <3> HIDE DEF Mine, Its, Body
    <3> QED BY <3>3, <3>4, <3>5
  <2> HIDE DEF R, own, Body, g
  <2>8. \E h : h = Body(h)
    BY <2>1, <2>2, <2>6, <2>7, GroupsFold
  <2>9. it = Body(it)
    BY <2>8
  <2> HIDE DEF it
  <2> QED BY <2>1, <2>2, <2>4, <2>5, <2>6, <2>7, <2>9, FoldCounts
<1>2. DOMAIN CountsOf({}) = CountFields
  BY CountsAreOfRows
<1>3. Sum(counts, K) = [f \in CountFields |-> MapThenSumSet(LAMBDA k : counts[k][f], K)]
  BY <1>2 DEF Sum
<1>4. Sum(counts, K) = [f \in CountFields |-> CountsOf(rows)[f]]
  BY <1>1, <1>3
<1> QED BY <1>4, CountsAreOfRows

\* The flags of a day and its status say the same.
LEMMA KindsMakeSense ==
  ASSUME NEW k \in PossibleKinds
  PROVE  /\ k.required \in BOOLEAN /\ k.attended \in BOOLEAN
         /\ k.late \in BOOLEAN /\ k.completed \in BOOLEAN
         /\ k.late => k.attended
         /\ k.completed => k.attended
         /\ k.attended => k.required /\ k.status \notin {"absent", "pending"}
         /\ k.required => k.attended \/ k.status \in {"absent", "pending"}
         /\ k.status = "absent" => k.required
<1> DEFINE Kind(status, required, attended, late, completed) ==
             [status |-> status, required |-> required, attended |-> attended,
              late |-> late, completed |-> completed]
<1>1. \/ \E status \in {"vacation", "medical_leave", "unpaid_leave", "holiday", "rest_day",
                       "no_schedule", "pending"} :
           k = Kind(status, FALSE, FALSE, FALSE, FALSE)
      \/ \E status \in {"absent", "pending"} : k = Kind(status, TRUE, FALSE, FALSE, FALSE)
      \/ \E late \in BOOLEAN : k = Kind("incomplete", TRUE, TRUE, late, FALSE)
      \/ k = Kind("late", TRUE, TRUE, TRUE, TRUE)
      \/ k = Kind("present", TRUE, TRUE, FALSE, TRUE)
  BY DEF PossibleKinds
<1>2. ASSUME NEW status \in {"vacation", "medical_leave", "unpaid_leave", "holiday", "rest_day",
                            "no_schedule", "pending"},
             k = Kind(status, FALSE, FALSE, FALSE, FALSE)
      PROVE  /\ k.required = FALSE /\ k.attended = FALSE /\ k.late = FALSE /\ k.completed = FALSE
             /\ k.status # "absent"
  BY <1>2
<1>3. ASSUME NEW status \in {"absent", "pending"}, k = Kind(status, TRUE, FALSE, FALSE, FALSE)
      PROVE  /\ k.required = TRUE /\ k.attended = FALSE /\ k.late = FALSE /\ k.completed = FALSE
             /\ k.status \in {"absent", "pending"}
  BY <1>3
<1>4. ASSUME NEW late \in BOOLEAN, k = Kind("incomplete", TRUE, TRUE, late, FALSE)
      PROVE  /\ k.required = TRUE /\ k.attended = TRUE /\ k.late = late /\ k.completed = FALSE
             /\ k.status = "incomplete"
  BY <1>4
<1>5. ASSUME k = Kind("late", TRUE, TRUE, TRUE, TRUE)
      PROVE  /\ k.required = TRUE /\ k.attended = TRUE /\ k.late = TRUE /\ k.completed = TRUE
             /\ k.status = "late"
  BY <1>5
<1>6. ASSUME k = Kind("present", TRUE, TRUE, FALSE, TRUE)
      PROVE  /\ k.required = TRUE /\ k.attended = TRUE /\ k.late = FALSE /\ k.completed = TRUE
             /\ k.status = "present"
  BY <1>6
<1> HIDE DEF Kind
<1>7. /\ k.late \in BOOLEAN
      /\ \/ /\ k.required = FALSE /\ k.attended = FALSE /\ k.late = FALSE /\ k.completed = FALSE
            /\ k.status # "absent"
         \/ /\ k.required = TRUE /\ k.attended = FALSE /\ k.late = FALSE /\ k.completed = FALSE
            /\ k.status \in {"absent", "pending"}
         \/ /\ k.required = TRUE /\ k.attended = TRUE /\ k.completed = FALSE
            /\ k.status = "incomplete"
         \/ /\ k.required = TRUE /\ k.attended = TRUE /\ k.completed = TRUE
            /\ k.status \in {"late", "present"}
  BY <1>1, <1>2, <1>3, <1>4, <1>5, <1>6
<1> QED BY <1>7

LEMMA HundredthsAre ==
  /\ \A x \in Hundredths : x \in Int /\ 0 <= x /\ x <= 10000
  /\ \A x \in Int : (0 <= x /\ x <= 10000) => x \in Hundredths
BY DEF Hundredths

LEMMA RateFits ==
  ASSUME NEW n \in Nat, NEW of \in Nat, n <= of
  PROVE  Rate(n, of) \in Hundredths
<1>1. CASE of = 0
  BY <1>1 DEF Rate, Hundredths
<1>2. CASE of # 0
  <2> DEFINE m == 2 * n * 10000 + of
             size == 2 * of
             q == m \div size
  <2>1. m \in Nat /\ size \in Nat \ {0}
    BY <1>2
  <2>2. m <= 10000 * size + of /\ of < size
    BY <1>2
  <2>3. Rate(n, of) = q
    BY <1>2 DEF Rate
  <2> HIDE DEF m, size
  <2>4. q \in Nat /\ q * size <= m
    BY <2>1, QuotientFits
  <2> HIDE DEF q
  <2>5. CASE q > 10000
    <3>1. 10000 * size + size <= q * size
      BY <2>1, <2>4, <2>5, TimesMore
    <3>2. q * size \in Int /\ 10000 * size \in Int
      BY <2>1, <2>4
    <3> QED BY <2>1, <2>2, <2>4, <3>1, <3>2
  <2> QED BY <2>3, <2>4, <2>5 DEF Hundredths
<1> QED BY <1>1, <1>2

\* Images of finite sets are finite.
LEMMA GroupsAreFinite ==
  ASSUME NEW S, IsFiniteSet(S), NEW T, NEW key \in [S -> T], \A t \in T : \E x \in S : key[x] = t
  PROVE  IsFiniteSet(T)
<1>1. key \in Surjection(S, T)
  BY DEF Surjection
<1> QED BY <1>1, FS_Surjection

\* Rows of a period, whatever they were filtered by
RowsFrom(rows, from, to) ==
  /\ IsFiniteSet(rows)
  /\ \A r \in rows : r.date \in from .. to /\ r.day \in PossibleKinds

LEMMA FewerRows ==
  ASSUME NEW rows, IsFiniteSet(rows)
  PROVE  \A S \in SUBSET rows : /\ IsFiniteSet(S) /\ Cardinality(S) \in Nat
                                /\ \A T \in SUBSET S : Cardinality(T) <= Cardinality(S)
<1>1. ASSUME NEW S \in SUBSET rows PROVE IsFiniteSet(S) /\ Cardinality(S) \in Nat
  BY FS_Subset, FS_CardinalityType
<1>2. ASSUME NEW S \in SUBSET rows, NEW T \in SUBSET S PROVE Cardinality(T) <= Cardinality(S)
  BY <1>1, FS_Subset
<1> QED BY <1>1, <1>2

\* Every required day was attended, an absence or is to come.
LEMMA FlagsAddUp ==
  ASSUME NEW rows, NEW from, NEW to, RowsFrom(rows, from, to)
  PROVE  LET total == CountsOf(rows)
         IN  /\ \A f \in CountFields : total[f] \in Nat
             /\ total.presentCount = total.onTimeCount + total.lateCount
             /\ total.scheduledWorkDays = total.presentCount + total.absentCount
                  + Cardinality({r \in rows : r.day.required /\ r.day.status = "pending"})
             /\ total.onTimeCount <= total.presentCount
             /\ total.lateCount <= total.presentCount
             /\ total.completedShiftCount <= total.presentCount
             /\ total.presentCount <= total.scheduledWorkDays
             /\ total.absentCount <= total.scheduledWorkDays
<1> DEFINE total == CountsOf(rows)
           required == {r \in rows : r.day.required}
           attended == {r \in rows : r.day.attended}
           onTime == {r \in rows : r.day.attended /\ ~r.day.late}
           late == {r \in rows : r.day.late}
           completed == {r \in rows : r.day.completed}
           absent == {r \in rows : r.day.status = "absent"}
           toCome == {r \in rows : r.day.required /\ r.day.status = "pending"}
<1>1. /\ total.scheduledWorkDays = Cardinality(required)
      /\ total.presentCount = Cardinality(attended)
      /\ total.onTimeCount = Cardinality(onTime)
      /\ total.lateCount = Cardinality(late)
      /\ total.completedShiftCount = Cardinality(completed)
      /\ total.absentCount = Cardinality(absent)
  BY DEF CountsOf
<1>2. /\ \A r \in rows : r.day \in PossibleKinds
      /\ \A S \in SUBSET rows : /\ IsFiniteSet(S) /\ Cardinality(S) \in Nat
                                /\ \A T \in SUBSET S : Cardinality(T) <= Cardinality(S)
  BY FewerRows DEF RowsFrom
<1>3. /\ required \subseteq rows /\ attended \subseteq rows /\ onTime \subseteq rows
      /\ late \subseteq rows /\ completed \subseteq rows /\ absent \subseteq rows /\ toCome \subseteq rows
  OBVIOUS
<1>4. onTime \cup late = attended /\ onTime \cap late = {}
  BY <1>2, KindsMakeSense
<1>5. completed \subseteq attended
  BY <1>2, KindsMakeSense
<1>6. /\ (attended \cup absent) \cup toCome = required
      /\ attended \cap absent = {} /\ (attended \cup absent) \cap toCome = {}
  BY <1>2, KindsMakeSense
<1>7. \A f \in CountFields : total[f] \in Nat
  <2>1. ASSUME NEW f \in CountFields PROVE total[f] \in Nat
    <3>1. {r \in rows : Has(f, r)} \in SUBSET rows
      OBVIOUS
    <3>2. total[f] = Cardinality({r \in rows : Has(f, r)})
      BY CountsAreOfRows
    <3> QED BY <1>2, <3>1, <3>2
  <2> QED BY <2>1
<1> HIDE DEF total, required, attended, onTime, late, completed, absent, toCome
<1>8. Cardinality(attended) = Cardinality(onTime) + Cardinality(late)
  BY <1>2, <1>3, <1>4, ApartAddUp
<1>9. Cardinality(attended \cup absent) = Cardinality(attended) + Cardinality(absent)
  BY <1>2, <1>3, <1>6, ApartAddUp
<1>10. Cardinality(required) = Cardinality(attended \cup absent) + Cardinality(toCome)
  <2>1. attended \cup absent \in SUBSET rows
    BY <1>3
  <2> QED BY <1>2, <1>3, <1>6, <2>1, ApartAddUp
<1>11. Cardinality(completed) <= Cardinality(attended)
  BY <1>2, <1>3, <1>5
<1>12. /\ Cardinality(attended) \in Nat /\ Cardinality(absent) \in Nat /\ Cardinality(toCome) \in Nat
       /\ Cardinality(onTime) \in Nat /\ Cardinality(late) \in Nat
  BY <1>2, <1>3
<1> QED BY <1>1, <1>7, <1>8, <1>9, <1>10, <1>11, <1>12 DEF total, toCome

\* Counts of days that were attended among the required ones
Balanced(m) ==
  /\ m.presentCount \in Nat /\ m.scheduledWorkDays \in Nat /\ m.onTimeCount \in Nat
  /\ m.completedShiftCount \in Nat /\ m.absentCount \in Nat /\ m.lateCount \in Nat
  /\ m.incompleteCount \in Nat
  /\ m.onTimeCount <= m.presentCount /\ m.lateCount <= m.presentCount
  /\ m.completedShiftCount <= m.presentCount
  /\ m.presentCount <= m.scheduledWorkDays /\ m.absentCount <= m.scheduledWorkDays

\* Their rates are of at most a hundred.
LEMMA RatesOfCounts ==
  ASSUME NEW m, Balanced(m)
  PROVE  \A f \in DOMAIN Rates(m) : Rates(m)[f] \in Hundredths
<1> DEFINE attendance == Rate(m.presentCount, m.scheduledWorkDays)
           punctuality == Rate(m.onTimeCount, m.presentCount)
           completed == Rate(m.completedShiftCount, m.presentCount)
           absence == Rate(m.absentCount, m.scheduledWorkDays)
           late == Rate(m.lateCount, m.presentCount)
           tenths == 5 * attendance + 3 * punctuality + 2 * completed
                       - 5000 * m.absentCount - 2000 * m.lateCount - 1000 * m.incompleteCount
           score == IF tenths < 0 THEN 0 ELSE (tenths + 5) \div 10
<1>2. Rates(m) = [attendanceRate |-> attendance, punctualityRate |-> punctuality,
                  completedShiftRate |-> completed, absenceRate |-> absence,
                  lateRate |-> late, score |-> score]
  BY DEF Rates
<1>3. /\ attendance \in Hundredths /\ punctuality \in Hundredths /\ completed \in Hundredths
      /\ absence \in Hundredths /\ late \in Hundredths
  <2>1. attendance \in Hundredths
    BY RateFits DEF Balanced
  <2>2. punctuality \in Hundredths
    BY RateFits DEF Balanced
  <2>3. completed \in Hundredths
    BY RateFits DEF Balanced
  <2>4. absence \in Hundredths
    BY RateFits DEF Balanced
  <2>5. late \in Hundredths
    BY RateFits DEF Balanced
  <2> HIDE DEF attendance, punctuality, completed, absence, late
  <2> QED BY <2>1, <2>2, <2>3, <2>4, <2>5
<1> HIDE DEF attendance, punctuality, completed, absence, late
<1>4. tenths \in Int /\ tenths <= 100000
  <2>1. /\ attendance \in Int /\ attendance <= 10000 /\ punctuality \in Int /\ punctuality <= 10000
        /\ completed \in Int /\ completed <= 10000
    BY <1>3, HundredthsAre
  <2>2. m.absentCount \in Nat /\ m.lateCount \in Nat /\ m.incompleteCount \in Nat
    BY DEF Balanced
  <2> QED BY <2>1, <2>2
<1> HIDE DEF tenths
<1>5. score \in Hundredths
  <2>1. score \in Int /\ 0 <= score /\ score <= 10000
    BY <1>4
  <2> QED BY <2>1, HundredthsAre
<1> HIDE DEF score
<1>6. /\ DOMAIN Rates(m) = {"attendanceRate", "punctualityRate", "completedShiftRate",
                           "absenceRate", "lateRate", "score"}
      /\ Rates(m).attendanceRate = attendance /\ Rates(m).punctualityRate = punctuality
      /\ Rates(m).completedShiftRate = completed
      /\ Rates(m).absenceRate = absence
      /\ Rates(m).lateRate = late /\ Rates(m).score = score
  BY <1>2
<1> TAKE f \in DOMAIN Rates(m)
<1>11. CASE f = "attendanceRate"
  BY <1>3, <1>6, <1>11
<1>12. CASE f = "punctualityRate"
  BY <1>3, <1>6, <1>12
<1>13. CASE f = "completedShiftRate"
  BY <1>3, <1>6, <1>13
<1>14. CASE f = "absenceRate"
  BY <1>3, <1>6, <1>14
<1>15. CASE f = "lateRate"
  BY <1>3, <1>6, <1>15
<1>16. CASE f = "score"
  BY <1>5, <1>6, <1>16
<1> QED BY <1>6, <1>11, <1>12, <1>13, <1>14, <1>15, <1>16

LEMMA RatesFit ==
  ASSUME NEW rows, NEW from, NEW to, RowsFrom(rows, from, to)
  PROVE  LET rates == Rates(CountsOf(rows))
         IN  \A f \in DOMAIN rates : rates[f] \in Hundredths
<1> DEFINE m == CountsOf(rows)
<1>1. \A f \in CountFields : m[f] \in Nat
  BY FlagsAddUp
<1>2. /\ m.onTimeCount <= m.presentCount /\ m.lateCount <= m.presentCount
      /\ m.completedShiftCount <= m.presentCount
      /\ m.presentCount <= m.scheduledWorkDays /\ m.absentCount <= m.scheduledWorkDays
  BY FlagsAddUp
<1> HIDE DEF m
<1>3. /\ m.presentCount \in Nat /\ m.scheduledWorkDays \in Nat /\ m.onTimeCount \in Nat
      /\ m.completedShiftCount \in Nat /\ m.absentCount \in Nat /\ m.lateCount \in Nat
      /\ m.incompleteCount \in Nat
  BY <1>1 DEF CountFields
<1>4. Balanced(m)
  BY <1>2, <1>3 DEF Balanced
<1>5. \A f \in DOMAIN Rates(m) : Rates(m)[f] \in Hundredths
  BY <1>4, RatesOfCounts
<1> QED BY <1>5 DEF m

LEMMA ChartsSum ==
  ASSUME NEW rows, IsFiniteSet(rows), NEW by
  PROVE  Sum(Chart(rows, by), GroupKeys(rows, by)) = CountsOf(rows)
<1> DEFINE K == GroupKeys(rows, by)
           key == [r \in rows |-> r[by]]
           counts == Chart(rows, by)
<1>1. key \in [rows -> K] /\ \A k \in K : \E r \in rows : key[r] = k
  BY DEF GroupKeys
<1>2. ASSUME NEW k \in K PROVE counts[k] = CountsOf({r \in rows : key[r] = k})
  <2>1. {r \in rows : key[r] = k} = Group(rows, by, k)
    BY DEF Group
  <2> QED BY <2>1 DEF Chart
<1> HIDE DEF K, key, counts
<1>3. IsFiniteSet(K)
  BY <1>1, GroupsAreFinite
<1>4. Sum(counts, K) = CountsOf(rows)
  BY <1>1, <1>2, <1>3, SumOfGroups
<1> QED BY <1>4 DEF K, counts

LEMMA DailyTrendSums ==
  ASSUME NEW from \in Int, NEW to \in Int, NEW rows, RowsFrom(rows, from, to),
         NEW some \in SUBSET (from .. to)
  PROVE  /\ IsFiniteSet({r \in rows : r.date \in some})
         /\ Sum(DailyTrend(rows, from, to), some) = CountsOf({r \in rows : r.date \in some})
<1> DEFINE R == {r \in rows : r.date \in some}
           key == [r \in R |-> r.date]
           counts == DailyTrend(rows, from, to)
<1>1. key \in [R -> some]
  OBVIOUS
<1>2. ASSUME NEW k \in some PROVE counts[k] = CountsOf({r \in R : key[r] = k})
  <2>1. {r \in R : key[r] = k} = {r \in rows : r.date = k}
    OBVIOUS
  <2>2. k \in from .. to
    OBVIOUS
  <2> QED BY <2>1, <2>2 DEF DailyTrend
<1>3. IsFiniteSet(R)
  BY FS_Subset DEF RowsFrom
<1>4. IsFiniteSet(some)
  BY FS_Interval, FS_Subset
<1> HIDE DEF R, key, counts
<1>5. Sum(counts, some) = CountsOf(R)
  BY <1>1, <1>2, <1>3, <1>4, SumOfGroups
<1> QED BY <1>3, <1>5 DEF R, counts

LEMMA WeeklyTrendSums ==
  ASSUME NEW from \in Int, NEW to \in Int, NEW rows, RowsFrom(rows, from, to)
  PROVE  LET weekly == WeeklyTrend(DailyTrend(rows, from, to), from, to)
         IN  Sum(weekly, DOMAIN weekly) = CountsOf(rows)
<1> DEFINE Days == from .. to
           week == [d \in Days |-> (d - from) \div TrendDays]
           daily == DailyTrend(rows, from, to)
           weekly == WeeklyTrend(daily, from, to)
           K == {week[d] : d \in Days}
           key == [r \in rows |-> week[r.date]]
<1>1. IsFiniteSet(rows) /\ \A r \in rows : r.date \in Days
  BY DEF RowsFrom
<1>2. weekly = [k \in K |-> Sum(daily, {d \in Days : week[d] = k})]
  <2>1. \A d \in Days : (d - from) \div TrendDays = week[d]
    OBVIOUS
  <2>2. K = {(d - from) \div TrendDays : d \in Days}
    BY <2>1
  <2>3. \A k : {d \in Days : week[d] = k} = {d \in Days : (d - from) \div TrendDays = k}
    BY <2>1
  <2> HIDE DEF week
  <2> QED BY <2>2, <2>3 DEF WeeklyTrend
<1>3. \A S \in SUBSET Days : Sum(daily, S) = CountsOf({r \in rows : r.date \in S})
  BY DailyTrendSums
<1>4. week \in [Days -> K] /\ \A k \in K : \E d \in Days : week[d] = k
  OBVIOUS
<1>5. IsFiniteSet(Days)
  BY FS_Interval
<1> HIDE DEF week, daily, weekly, Days
<1>6. IsFiniteSet(K)
  <2> HIDE DEF K
  <2> QED BY <1>4, <1>5, GroupsAreFinite
<1>7. key \in [rows -> K]
  BY <1>1
<1>8. ASSUME NEW k \in K PROVE weekly[k] = CountsOf({r \in rows : key[r] = k})
  <2> DEFINE S == {d \in Days : week[d] = k}
  <2>1. {r \in rows : key[r] = k} = {r \in rows : r.date \in S}
    BY <1>1
  <2>2. S \in SUBSET Days
    OBVIOUS
  <2>3. weekly[k] = Sum(daily, S)
    BY <1>2
  <2> HIDE DEF S
  <2> QED BY <1>3, <2>1, <2>2, <2>3
<1>9. DOMAIN weekly = K
  BY <1>2
<1> HIDE DEF K, key
<1>10. Sum(weekly, K) = CountsOf(rows)
  BY <1>1, <1>6, <1>7, <1>8, SumOfGroups
<1> QED BY <1>9, <1>10 DEF weekly, daily

\* The charts of any rows of a period add up.
LEMMA ChartsDoAddUp ==
  ASSUME NEW from \in Int, NEW to \in Int, NEW rows, RowsFrom(rows, from, to)
  PROVE  ChartsAddUp(rows, from, to)
<1>1. /\ CountsOf(rows).presentCount = CountsOf(rows).onTimeCount + CountsOf(rows).lateCount
      /\ CountsOf(rows).scheduledWorkDays = CountsOf(rows).presentCount + CountsOf(rows).absentCount
           + Cardinality({r \in rows : r.day.required /\ r.day.status = "pending"})
  BY FlagsAddUp
<1>2. \A f \in DOMAIN Rates(CountsOf(rows)) : Rates(CountsOf(rows))[f] \in Hundredths
  BY RatesFit
<1>3. \A by \in {"worker", "area", "place", "crew"} :
        Sum(Chart(rows, by), GroupKeys(rows, by)) = CountsOf(rows)
  BY ChartsSum DEF RowsFrom
<1>4. Sum(DailyTrend(rows, from, to), from .. to) = CountsOf(rows)
  <2>1. {r \in rows : r.date \in from .. to} = rows
    BY DEF RowsFrom
  <2> DEFINE Days == from .. to
  <2>2. \A some \in SUBSET Days :
          Sum(DailyTrend(rows, from, to), some) = CountsOf({r \in rows : r.date \in some})
    BY DailyTrendSums
  <2>3. Days \in SUBSET Days
    OBVIOUS
  <2> HIDE DEF Days
  <2>4. Sum(DailyTrend(rows, from, to), Days) = CountsOf({r \in rows : r.date \in Days})
    BY <2>2, <2>3
  <2> QED BY <2>1, <2>4 DEF Days
<1>5. Sum(WeeklyTrend(DailyTrend(rows, from, to), from, to),
          DOMAIN WeeklyTrend(DailyTrend(rows, from, to), from, to)) = CountsOf(rows)
  BY WeeklyTrendSums
<1> QED BY <1>1, <1>2, <1>3, <1>4, <1>5 DEF ChartsAddUp

\* The rows of a period are finitely many, and of its days.
LEMMA DatasetIsFinite ==
  ASSUME AnalyticsTypeOK, NEW from \in Calendar, NEW to \in from .. LastCounted, NEW filter
  PROVE  RowsFrom(Dataset(from, to, filter), from, to)
<1> DEFINE Row(w, d) == [worker |-> w, date |-> d, area |-> area[w], place |-> PlaceOn(w, d),
                         crew |-> CrewOn(w, d), day |-> days[w][d]]
           Pairs == People \X (from .. to)
           row == [p \in Pairs |-> Row(p[1], p[2])]
           All == {row[p] : p \in Pairs}
<1>1. IsFiniteSet(Pairs)
  <2>1. IsFiniteSet(People)
    BY AnalyticsAssumption
  <2>2. IsFiniteSet(from .. to)
    BY AnalyticsAssumption, FS_Interval DEF Calendar
  <2> QED BY <2>1, <2>2, FS_Product
<1>2. row \in [Pairs -> All] /\ \A r \in All : \E p \in Pairs : row[p] = r
  OBVIOUS
<1>3. \A r \in Dataset(from, to, filter) : \E w \in People, d \in from .. to : r = Row(w, d)
  BY DEF Dataset, CountedDays
<1>4. Dataset(from, to, filter) \subseteq All
  <2>1. ASSUME NEW w \in People, NEW d \in from .. to PROVE Row(w, d) \in All
    <3>1. <<w, d>> \in Pairs /\ row[<<w, d>>] = Row(w, d)
      OBVIOUS
    <3> HIDE DEF row, Pairs
    <3> QED BY <3>1
  <2> HIDE DEF Row, All
  <2> QED BY <1>3, <2>1
<1>5. ASSUME NEW w \in People, NEW d \in from .. to
      PROVE  Row(w, d).date = d /\ Row(w, d).day \in PossibleKinds
  <2>1. d \in Calendar
    BY AnalyticsAssumption DEF Calendar
  <2>2. DayKinds \subseteq PossibleKinds
    BY AnalyticsAssumption
  <2>3. days[w][d] \in DayKinds
    BY <2>1 DEF AnalyticsTypeOK
  <2> QED BY <2>2, <2>3
<1> HIDE DEF Row, Pairs, row, All
<1>6. IsFiniteSet(All)
  BY <1>1, <1>2, GroupsAreFinite
<1>7. IsFiniteSet(Dataset(from, to, filter))
  BY <1>4, <1>6, FS_Subset
<1>8. \A r \in Dataset(from, to, filter) : r.date \in from .. to /\ r.day \in PossibleKinds
  BY <1>3, <1>5
<1> QED BY <1>7, <1>8 DEF RowsFrom

RowOf(w, d) == [worker |-> w, date |-> d, area |-> area[w], place |-> PlaceOn(w, d),
                crew |-> CrewOn(w, d), day |-> days[w][d]]

LEMMA DatasetRows ==
  ASSUME NEW from, NEW to, NEW filter, filter.statuses = {}
  PROVE  /\ \A r \in Dataset(from, to, filter) : \E w \in People : \E d \in CountedDays(w, from, to) :
              Selected(w, from, to, filter) /\ r = RowOf(w, d)
         /\ \A w \in People : \A d \in CountedDays(w, from, to) :
              Selected(w, from, to, filter) => RowOf(w, d) \in Dataset(from, to, filter)
BY DEF Dataset, RowOf

\* Each detail's filter sets one condition.
LEMMA DetailFilters ==
  ASSUME NEW id \in Nat \ {0}, NEW w, NEW from, NEW to
  PROVE  /\ NoFilter.statuses = {} /\ Selected(w, from, to, NoFilter)
         /\ [NoFilter EXCEPT !["worker"] = id].statuses = {}
         /\ Selected(w, from, to, [NoFilter EXCEPT !["worker"] = id]) <=> w = id
         /\ [NoFilter EXCEPT !["area"] = id].statuses = {}
         /\ Selected(w, from, to, [NoFilter EXCEPT !["area"] = id]) <=> area[w] = id
         /\ [NoFilter EXCEPT !["crew"] = id].statuses = {}
         /\ Selected(w, from, to, [NoFilter EXCEPT !["crew"] = id])
              <=> \E i \in DOMAIN crewMoves[w] :
                    crewMoves[w][i].crew = id /\ CrewRowMeets(w, i, from, to)
<1>1. NoFilter.statuses = {} /\ Selected(w, from, to, NoFilter)
  BY DEF NoFilter, Selected, Nothing
<1>2. /\ [NoFilter EXCEPT !["worker"] = id].statuses = {}
      /\ Selected(w, from, to, [NoFilter EXCEPT !["worker"] = id]) <=> w = id
  BY DEF NoFilter, Selected, Nothing
<1>3. /\ [NoFilter EXCEPT !["area"] = id].statuses = {}
      /\ Selected(w, from, to, [NoFilter EXCEPT !["area"] = id]) <=> area[w] = id
  BY DEF NoFilter, Selected, Nothing
<1>4. /\ [NoFilter EXCEPT !["crew"] = id].statuses = {}
      /\ Selected(w, from, to, [NoFilter EXCEPT !["crew"] = id])
           <=> \E i \in DOMAIN crewMoves[w] :
                 crewMoves[w][i].crew = id /\ CrewRowMeets(w, i, from, to)
  BY DEF NoFilter, Selected, Nothing
<1> QED BY <1>1, <1>2, <1>3, <1>4

LEMMA GreatestIsThere ==
  ASSUME NEW n \in Nat, NEW S \in SUBSET (1 .. n), S # {}
  PROVE  Max(S) \in S /\ \A x \in S : x <= Max(S)
<1> DEFINE down == {m \in Nat : n - m \in S}
<1>1. down # {}
  <2>1. PICK x \in S : TRUE
    OBVIOUS
  <2>2. n - x \in Nat /\ n - (n - x) = x
    BY <2>1
  <2> QED BY <2>1, <2>2
<1>2. PICK m \in down : \A k \in down : m <= k
  BY <1>1, LeastIsThere
<1>3. ASSUME NEW x \in S PROVE x <= n - m
  <2>1. x \in 1 .. n /\ n - x \in Nat /\ n - (n - x) = x
    OBVIOUS
  <2>2. n - x \in down
    BY <2>1
  <2> QED BY <1>2, <2>1, <2>2
<1>4. n - m \in S
  BY <1>2
<1> HIDE DEF down
<1>5. \E x \in S : \A y \in S : x >= y
  BY <1>3, <1>4
<1> QED BY <1>5 DEF Max

LEMMA CrewRows ==
  ASSUME AnalyticsTypeOK, NEW w \in People, NEW from \in Calendar, NEW to \in from .. LastCounted,
         NEW d \in from .. to, CrewOn(w, d) # Nothing
  PROVE  \E i \in DOMAIN crewMoves[w] :
           crewMoves[w][i].crew = CrewOn(w, d) /\ CrewRowMeets(w, i, from, to)
<1> DEFINE rows == crewMoves[w]
           on == {i \in DOMAIN rows : CrewRowMeets(w, i, d, d)}
           Rows == [crew : Units \cup {Nothing}, from : Calendar]
<1>1. /\ rows \in Seq(Rows) /\ \A row \in Rows : row.from \in Calendar
      /\ Calendar \subseteq Int /\ d \in Int /\ from <= d /\ d <= to /\ from \in Int /\ to \in Int
  <2>1. crewMoves \in [People -> Seq(Rows)]
    BY DEF AnalyticsTypeOK
  <2>2. Calendar \subseteq Int /\ from \in Int /\ LastCounted \in Int
    BY AnalyticsAssumption DEF Calendar
  <2>3. to \in Int /\ d \in Int /\ from <= d /\ d <= to
    BY <2>2
  <2>4. \A row \in Rows : row.from \in Calendar
    OBVIOUS
  <2> HIDE DEF Rows
  <2> QED BY <2>1, <2>2, <2>3, <2>4
<1> HIDE DEF Rows
<1>2. on # {} /\ CrewOn(w, d) = rows[Max(on)].crew
  BY DEF CrewOn
<1>3. Len(rows) \in Nat /\ on \in SUBSET (1 .. Len(rows)) /\ DOMAIN rows = 1 .. Len(rows)
  BY <1>1
<1>4. Max(on) \in on
  <2> HIDE DEF on
  <2> QED BY <1>2, <1>3, GreatestIsThere
<1>5. PICK i \in DOMAIN rows : i = Max(on) /\ CrewRowMeets(w, i, d, d)
  BY <1>4
<1>6. \A j \in DOMAIN rows : rows[j].from \in Int
  <2> HIDE DEF rows, on
  <2>1. \A j \in DOMAIN rows : rows[j] \in Rows
    BY <1>1
  <2> QED BY <1>1, <2>1
<1> HIDE DEF on
<1>7. CrewRowMeets(w, i, from, to)
  <2>1. rows[i].crew # Nothing /\ rows[i].from <= to
    BY <1>1, <1>5, <1>6 DEF CrewRowMeets
  <2>2. CASE i = Len(rows)
    BY <2>1, <2>2 DEF CrewRowMeets
  <2>3. CASE i # Len(rows)
    <3>1. i + 1 \in DOMAIN rows /\ rows[i + 1].from >= d
      BY <1>3, <1>5, <2>3 DEF CrewRowMeets
    <3>2. rows[i + 1].from >= from
      BY <1>1, <1>6, <3>1
    <3> QED BY <2>1, <3>2 DEF CrewRowMeets
  <2> QED BY <2>2, <2>3
<1> QED BY <1>2, <1>5, <1>7

LEMMA DetailsMatch ==
  ASSUME AnalyticsTypeOK, NEW from \in Calendar, NEW to \in from .. LastCounted
  PROVE  DetailsMatchCharts(from, to)
<1> DEFINE rows == RowsOfPeriod(from, to)
<1>1. People \subseteq Nat \ {0} /\ Units \subseteq Nat \ {0}
  BY AnalyticsAssumption
<1>2. \A w, d : /\ RowOf(w, d).worker = w /\ RowOf(w, d).area = area[w]
               /\ RowOf(w, d).crew = CrewOn(w, d)
               /\ RowOf(w, d)["worker"] = w /\ RowOf(w, d)["area"] = area[w]
               /\ RowOf(w, d)["crew"] = CrewOn(w, d)
  BY DEF RowOf
<1>3. /\ \A r \in rows : \E w \in People : \E d \in CountedDays(w, from, to) : r = RowOf(w, d)
      /\ \A w \in People : \A d \in CountedDays(w, from, to) : RowOf(w, d) \in rows
  <2>1. NoFilter.statuses = {} /\ \A w : Selected(w, from, to, NoFilter)
    <3>1. 1 \in Nat \ {0}
      OBVIOUS
    <3> QED BY <3>1, DetailFilters
  <2> QED BY <2>1, DatasetRows DEF RowsOfPeriod
<1> HIDE DEF rows
<1>4. ASSUME NEW w \in Workers(rows)
      PROVE  Detail("worker", w, from, to) = Group(rows, "worker", w)
  <2>1. w \in People /\ w \in Nat \ {0}
    <3>1. PICK r \in rows : w = r.worker
      BY DEF Workers
    <3>2. PICK v \in People : \E d \in CountedDays(v, from, to) : r = RowOf(v, d)
      BY <1>3
    <3>3. w = v
      BY <1>2, <3>1, <3>2
    <3> QED BY <1>1, <3>3
  <2> DEFINE its == Detail("worker", w, from, to)
             F == [NoFilter EXCEPT !["worker"] = w]
  <2>2. /\ \A r \in its : \E v \in People : \E d \in CountedDays(v, from, to) : v = w /\ r = RowOf(v, d)
        /\ \A v \in People : \A d \in CountedDays(v, from, to) : v = w => RowOf(v, d) \in its
    <3>1. F.statuses = {} /\ \A v : Selected(v, from, to, F) <=> v = w
      BY <2>1, DetailFilters
    <3>2. its = Dataset(from, to, F)
      BY DEF Detail
    <3> HIDE DEF its, F
    <3> QED BY <3>1, <3>2, DatasetRows
  <2> HIDE DEF its
  <2>3. its = {r \in rows : r["worker"] = w}
    BY <1>2, <1>3, <2>2
  <2> QED BY <2>3 DEF its, Group
<1>5. ASSUME NEW u \in Units
      PROVE  Detail("area", u, from, to) = Group(rows, "area", u)
  <2>1. u \in Nat \ {0}
    BY <1>1
  <2> DEFINE its == Detail("area", u, from, to)
             F == [NoFilter EXCEPT !["area"] = u]
  <2>2. /\ \A r \in its : \E v \in People : \E d \in CountedDays(v, from, to) : area[v] = u /\ r = RowOf(v, d)
        /\ \A v \in People : \A d \in CountedDays(v, from, to) : area[v] = u => RowOf(v, d) \in its
    <3>1. F.statuses = {} /\ \A v : Selected(v, from, to, F) <=> area[v] = u
      BY <2>1, DetailFilters
    <3>2. its = Dataset(from, to, F)
      BY DEF Detail
    <3> HIDE DEF its, F
    <3> QED BY <3>1, <3>2, DatasetRows
  <2> HIDE DEF its
  <2>3. its = {r \in rows : r["area"] = u}
    BY <1>2, <1>3, <2>2
  <2> QED BY <2>3 DEF its, Group
<1>6. ASSUME NEW u \in Units
      PROVE  Group(rows, "crew", u) \subseteq Detail("crew", u, from, to)
  <2>1. u \in Nat \ {0} /\ u # Nothing
    BY <1>1 DEF Nothing
  <2>2. ASSUME NEW r \in Group(rows, "crew", u) PROVE r \in Detail("crew", u, from, to)
    <3>1. PICK w \in People : \E d \in CountedDays(w, from, to) : r = RowOf(w, d)
      BY <1>3 DEF Group
    <3>9. PICK d \in CountedDays(w, from, to) : r = RowOf(w, d)
      BY <3>1
    <3>2. CrewOn(w, d) = u /\ d \in from .. to
      BY <1>2, <3>9 DEF Group, CountedDays
    <3>3. \E i \in DOMAIN crewMoves[w] :
            crewMoves[w][i].crew = u /\ CrewRowMeets(w, i, from, to)
      BY <2>1, <3>2, CrewRows
    <3> DEFINE F == [NoFilter EXCEPT !["crew"] = u]
    <3>4. Selected(w, from, to, F)
      BY <2>1, <3>3, DetailFilters
    <3>5. F.statuses = {}
      BY <2>1, DetailFilters
    <3>6. Detail("crew", u, from, to) = Dataset(from, to, F)
      BY DEF Detail
    <3> HIDE DEF F
    <3> QED BY <3>4, <3>5, <3>6, <3>9, DatasetRows
  <2> QED BY <2>2
<1> QED BY <1>4, <1>5, <1>6 DEF DetailsMatchCharts, rows

-------------------------------------------------------------------------------
(* Rankings *)

KeyOrder(keys) ==
  {p \in (DOMAIN keys) \X (DOMAIN keys) : Before(keys[p[1]], keys[p[2]])}

LEMMA InKeyOrder ==
  ASSUME NEW keys, NEW k \in DOMAIN keys, NEW l \in DOMAIN keys
  PROVE  <<l, k>> \in KeyOrder(keys) <=> Before(keys[l], keys[k])
<1> DEFINE p == <<l, k>>
<1>1. p \in (DOMAIN keys) \X (DOMAIN keys) /\ p[1] = l /\ p[2] = k
  OBVIOUS
<1> HIDE DEF p
<1>2. p \in KeyOrder(keys) <=> Before(keys[l], keys[k])
  BY <1>1 DEF KeyOrder
<1> QED BY <1>2 DEF p

LEMMA RankPlaces ==
  ASSUME NEW keys, IsFiniteSet(DOMAIN keys), NEW limit \in Nat
  PROVE  LET K == DOMAIN keys
             few == IF limit < Cardinality(K) THEN limit ELSE Cardinality(K)
         IN  /\ few \in Nat /\ few <= Cardinality(K) /\ Cardinality(K) \in Nat
             /\ Rank(keys, limit) = [n \in 1 .. few |-> CHOOSE k \in K : PlaceIn(KeyOrder(keys), K, k) = n]
<1> DEFINE K == DOMAIN keys
           few == IF limit < Cardinality(K) THEN limit ELSE Cardinality(K)
<1>1. Cardinality(K) \in Nat
  BY FS_CardinalityType
<1>2. \A k \in K : {l \in K : <<l, k>> \in KeyOrder(keys)} = {l \in K : Before(keys[l], keys[k])}
  BY InKeyOrder
<1>3. \A k \in K : PlaceIn(KeyOrder(keys), K, k) = Cardinality({l \in K : Before(keys[l], keys[k])}) + 1
  BY <1>2 DEF PlaceIn
<1> DEFINE Chosen(n) == CHOOSE k \in K : PlaceIn(KeyOrder(keys), K, k) = n
           Found(n) == CHOOSE k \in K : Cardinality({l \in K : Before(keys[l], keys[k])}) + 1 = n
<1>4. \A n : Chosen(n) = Found(n)
  BY <1>3
<1>5. Rank(keys, limit) = [n \in 1 .. few |-> Found(n)]
  BY DEF Rank
<1>6. few \in Nat /\ few <= Cardinality(K)
  BY <1>1
<1> HIDE DEF few, Chosen, Found
<1>7. Rank(keys, limit) = [n \in 1 .. few |-> Chosen(n)]
  BY <1>4, <1>5
<1> QED BY <1>1, <1>6, <1>7 DEF few, Chosen

\* A ranking lists each of those with a key, or the first of them, in order.
LEMMA RankLists ==
  ASSUME NEW keys, IsFiniteSet(DOMAIN keys), Orders(KeyOrder(keys), DOMAIN keys), NEW limit \in Nat
  PROVE  LET K == DOMAIN keys
             few == IF limit < Cardinality(K) THEN limit ELSE Cardinality(K)
             seq == Rank(keys, limit)
         IN  /\ DOMAIN seq = 1 .. few
             /\ \A n \in 1 .. few : seq[n] \in K /\ PlaceIn(KeyOrder(keys), K, seq[n]) = n
             /\ Cardinality(K) <= limit => ToSet(seq) = K
             /\ \A n \in 1 .. few : \A l \in K :
                  Before(keys[l], keys[seq[n]]) => PlaceIn(KeyOrder(keys), K, l) < n
<1> DEFINE K == DOMAIN keys
           R == KeyOrder(keys)
           few == IF limit < Cardinality(K) THEN limit ELSE Cardinality(K)
           seq == Rank(keys, limit)
<1>1. /\ few \in Nat /\ few <= Cardinality(K) /\ Cardinality(K) \in Nat
      /\ seq = [n \in 1 .. few |-> CHOOSE k \in K : PlaceIn(R, K, k) = n]
      /\ Cardinality(K) <= limit => few = Cardinality(K)
  BY RankPlaces
<1>2. \A k, l \in K : Before(keys[l], keys[k]) => <<l, k>> \in R
  BY InKeyOrder
<1>3. /\ \A k \in K : PlaceIn(R, K, k) \in 1 .. Cardinality(K)
      /\ \A k, l \in K : <<k, l>> \in R => PlaceIn(R, K, k) < PlaceIn(R, K, l)
      /\ \A n \in 1 .. Cardinality(K) : \E k \in K : PlaceIn(R, K, k) = n
      /\ \A k, l \in K : PlaceIn(R, K, k) = PlaceIn(R, K, l) => k = l
  BY LaterPlaces, PlacesAreAll
<1> HIDE DEF K, R, few, seq
<1>4. ASSUME NEW n \in 1 .. few PROVE seq[n] \in K /\ PlaceIn(R, K, seq[n]) = n
  <2>1. n \in 1 .. Cardinality(K)
    BY <1>1
  <2>2. PICK k \in K : PlaceIn(R, K, k) = n
    BY <1>3, <2>1
  <2>3. seq[n] = CHOOSE i \in K : PlaceIn(R, K, i) = n
    BY <1>1
  <2> QED BY <2>2, <2>3
<1>5. DOMAIN seq = 1 .. few
  BY <1>1
<1>6. ASSUME Cardinality(K) <= limit PROVE ToSet(seq) = K
  <2>1. ASSUME NEW k \in K PROVE \E n \in 1 .. few : seq[n] = k
    <3> DEFINE n == PlaceIn(R, K, k)
    <3>1. n \in 1 .. few
      BY <1>1, <1>3, <1>6
    <3> HIDE DEF n
    <3>2. seq[n] \in K /\ PlaceIn(R, K, seq[n]) = n
      BY <1>4, <3>1
    <3> QED BY <1>3, <3>1, <3>2 DEF n
  <2> QED BY <1>4, <1>5, <2>1 DEF ToSet
<1>7. ASSUME NEW n \in 1 .. few, NEW l \in K, Before(keys[l], keys[seq[n]])
      PROVE  PlaceIn(R, K, l) < n
  <2>1. <<l, seq[n]>> \in R
    BY <1>2, <1>4, <1>7
  <2>2. PlaceIn(R, K, l) < PlaceIn(R, K, seq[n])
    BY <1>3, <1>4, <2>1
  <2> QED BY <1>4, <2>2
<1> QED BY <1>4, <1>5, <1>6, <1>7 DEF K, R, few, seq

\* Whatever is ranked, the first of one is the first of more.
LEMMA RankStarts ==
  ASSUME NEW keys, IsFiniteSet(DOMAIN keys), NEW more \in Nat,
         Cardinality(DOMAIN keys) <= more, Rank(keys, 1) # <<>>
  PROVE  Rank(keys, 1)[1] = Rank(keys, more)[1]
<1> DEFINE size == Cardinality(DOMAIN keys)
           Chosen(n) == CHOOSE k \in DOMAIN keys : PlaceIn(KeyOrder(keys), DOMAIN keys, k) = n
<1>1. size \in Nat /\ size <= more
  BY FS_CardinalityType
<1>2. Rank(keys, 1) = [n \in 1 .. (IF 1 < size THEN 1 ELSE size) |-> Chosen(n)]
  BY RankPlaces
<1>3. Rank(keys, more) = [n \in 1 .. (IF more < size THEN more ELSE size) |-> Chosen(n)]
  BY RankPlaces
<1> HIDE DEF size, Chosen
<1>4. size # 0
  <2> SUFFICES ASSUME size = 0 PROVE FALSE
    OBVIOUS
  <2>1. Rank(keys, 1) = [n \in 1 .. 0 |-> Chosen(n)]
    BY <1>2
  <2> QED BY <2>1
<1>5. 1 \in 1 .. (IF 1 < size THEN 1 ELSE size) /\ 1 \in 1 .. (IF more < size THEN more ELSE size)
  BY <1>1, <1>4
<1>6. Rank(keys, 1)[1] = Chosen(1)
  BY <1>2, <1>5
<1>7. Rank(keys, more)[1] = Chosen(1)
  BY <1>3, <1>5
<1> QED BY <1>6, <1>7

LEMMA TriplesBefore ==
  ASSUME NEW a1 \in Int, NEW a2 \in Int, NEW a3 \in Int, NEW b1 \in Int, NEW b2 \in Int, NEW b3 \in Int
  PROVE  Before(<<a1, a2, a3>>, <<b1, b2, b3>>)
           <=> a1 > b1 \/ (a1 = b1 /\ a2 > b2) \/ (a1 = b1 /\ a2 = b2 /\ a3 > b3)
<1> DEFINE a == <<a1, a2, a3>>
           b == <<b1, b2, b3>>
<1>1. DOMAIN a = {1, 2, 3} /\ a[1] = a1 /\ a[2] = a2 /\ a[3] = a3 /\ b[1] = b1 /\ b[2] = b2 /\ b[3] = b3
  OBVIOUS
<1>2. 1 .. 1 - 1 = {} /\ 1 .. 2 - 1 = {1} /\ 1 .. 3 - 1 = {1, 2}
  OBVIOUS
<1> HIDE DEF a, b
<1>3. Before(a, b) <=> \/ a[1] > b[1]
                      \/ (a[2] > b[2] /\ a[1] = b[1])
                      \/ (a[3] > b[3] /\ a[1] = b[1] /\ a[2] = b[2])
  BY <1>1, <1>2 DEF Before
<1> QED BY <1>1, <1>3 DEF a, b

LEMMA RankFirst ==
  ASSUME NEW keys, IsFiniteSet(DOMAIN keys), Orders(KeyOrder(keys), DOMAIN keys),
         Rank(keys, 1) # <<>>
  PROVE  /\ Rank(keys, 1)[1] \in DOMAIN keys
         /\ \A l \in DOMAIN keys : ~Before(keys[l], keys[Rank(keys, 1)[1]])
<1> DEFINE K == DOMAIN keys
           few == IF 1 < Cardinality(K) THEN 1 ELSE Cardinality(K)
           seq == Rank(keys, 1)
<1>1. /\ DOMAIN seq = 1 .. few
      /\ \A n \in 1 .. few : seq[n] \in K
      /\ \A n \in 1 .. few : \A l \in K : Before(keys[l], keys[seq[n]]) => PlaceIn(KeyOrder(keys), K, l) < n
  BY RankLists
<1>2. Cardinality(K) \in Nat /\ seq = [n \in 1 .. few |-> CHOOSE k \in K : PlaceIn(KeyOrder(keys), K, k) = n]
  BY RankPlaces
<1>3. \A l \in K : PlaceIn(KeyOrder(keys), K, l) \in 1 .. Cardinality(K)
  BY LaterPlaces
<1> HIDE DEF seq, K
<1>4. Cardinality(K) # 0
  <2> SUFFICES ASSUME Cardinality(K) = 0 PROVE FALSE
    OBVIOUS
  <2>1. seq = [n \in 1 .. 0 |-> CHOOSE k \in K : PlaceIn(KeyOrder(keys), K, k) = n]
    BY <1>2
  <2> QED BY <2>1 DEF seq
<1>5. 1 \in 1 .. few
  BY <1>2, <1>4
<1> HIDE DEF few
<1>6. \A l \in K : PlaceIn(KeyOrder(keys), K, l) \in Int /\ ~(PlaceIn(KeyOrder(keys), K, l) < 1)
  BY <1>2, <1>3
<1>7. seq[1] \in K /\ \A l \in K : ~Before(keys[l], keys[seq[1]])
  BY <1>1, <1>5, <1>6
<1> QED BY <1>7 DEF seq, K

LEMMA WorkersChart ==
  ASSUME NEW rows, NEW from, NEW to, RowsFrom(rows, from, to), \A r \in rows : r.worker \in People
  PROVE  LET m == Chart(rows, "worker")
         IN  /\ DOMAIN m \subseteq People /\ IsFiniteSet(DOMAIN m)
             /\ \A w \in DOMAIN m : /\ m[w].absentCount \in Nat
                                   /\ Rates(m[w]).absenceRate \in Int
<1> DEFINE m == Chart(rows, "worker")
<1>1. DOMAIN m = {r["worker"] : r \in rows} /\ \A w \in DOMAIN m : m[w] = CountsOf(Group(rows, "worker", w))
  BY DEF Chart, GroupKeys
<1>2. DOMAIN m \subseteq People
  BY <1>1
<1>3. IsFiniteSet(DOMAIN m)
  BY <1>2, AnalyticsAssumption, FS_Subset
<1> HIDE DEF m
<1>4. ASSUME NEW w \in DOMAIN m PROVE m[w].absentCount \in Nat /\ Rates(m[w]).absenceRate \in Int
  <2> DEFINE own == Group(rows, "worker", w)
  <2>1. own \subseteq rows
    BY DEF Group
  <2> HIDE DEF own
  <2>2. RowsFrom(own, from, to)
    BY <2>1, FS_Subset DEF RowsFrom
  <2>3. \A f \in CountFields : CountsOf(own)[f] \in Nat
    BY <2>2, FlagsAddUp
  <2>4. CountsOf(own).absentCount \in Nat
    BY <2>3 DEF CountFields
  <2>5. \A f \in DOMAIN Rates(CountsOf(own)) : Rates(CountsOf(own))[f] \in Hundredths
    BY <2>2, RatesFit
  <2>6. "absenceRate" \in DOMAIN Rates(CountsOf(own))
    BY DEF Rates
  <2>7. Rates(CountsOf(own)).absenceRate \in Hundredths
    BY <2>5, <2>6
  <2>8. Rates(CountsOf(own)).absenceRate \in Int
    BY <2>7, HundredthsAre
  <2>9. m[w] = CountsOf(own)
    BY <1>1 DEF own
  <2> QED BY <2>4, <2>8, <2>9
<1> QED BY <1>2, <1>3, <1>4 DEF m

\* The rankings list whom they should.
LEMMA ListsComplete ==
  ASSUME NEW rows, NEW from, NEW to, RowsFrom(rows, from, to), \A r \in rows : r.worker \in People
  PROVE  ListsAreComplete(rows)
<1> DEFINE m == Chart(rows, "worker")
           r == [w \in DOMAIN m |-> Rates(m[w])]
           Those(f) == {w \in DOMAIN m : m[w][f] > 0}
           absent == [w \in Those("absentCount") |-> <<m[w].absentCount, r[w].absenceRate, -w>>]
           late == [w \in Those("lateCount") |-> <<m[w].lateCount, -w>>]
           best == [w \in Those("scheduledWorkDays") |->
                      <<r[w].score, r[w].attendanceRate, -m[w].absentCount, -FirstRow(rows, w)>>]
           prompt == [w \in Those("presentCount") |-> <<r[w].punctualityRate, -m[w].lateCount, -w>>]
           size == Cardinality(People)
<1>1. \A n : Rankings(rows, n) = [topAbsent |-> Rank(absent, n), topLate |-> Rank(late, n),
                                 bestAttendance |-> Rank(best, n), bestPunctuality |-> Rank(prompt, n)]
  BY DEF Rankings
<1>2. /\ DOMAIN absent \subseteq DOMAIN m /\ DOMAIN late \subseteq DOMAIN m
      /\ DOMAIN best \subseteq DOMAIN m /\ DOMAIN prompt \subseteq DOMAIN m
  OBVIOUS
<1>3. /\ DOMAIN m \subseteq People /\ IsFiniteSet(DOMAIN m)
      /\ \A w \in DOMAIN m : m[w].absentCount \in Nat /\ Rates(m[w]).absenceRate \in Int
  BY WorkersChart
<1>4. /\ DOMAIN absent = {w \in DOMAIN m : m[w].absentCount > 0}
      /\ \A w \in DOMAIN absent : absent[w] = <<m[w].absentCount, Rates(m[w]).absenceRate, -w>>
  OBVIOUS
<1>5. size \in Nat /\ IsFiniteSet(People) /\ People \subseteq Int
  BY AnalyticsAssumption, FS_CardinalityType
<1> HIDE DEF m, r, Those, absent, late, best, prompt, size
<1>6. \A S \in SUBSET DOMAIN m : IsFiniteSet(S) /\ Cardinality(S) \in Nat /\ Cardinality(S) <= size
  <2> TAKE S \in SUBSET DOMAIN m
  <2>1. S \subseteq People
    BY <1>3
  <2> QED BY <1>5, <2>1, FS_Subset, FS_CardinalityType DEF size
<1> DEFINE count == [w \in DOMAIN m |-> m[w].absentCount]
           rate == [w \in DOMAIN m |-> Rates(m[w]).absenceRate]
<1>13. /\ \A w \in DOMAIN m : /\ w \in Int /\ -w \in Int /\ count[w] \in Nat /\ rate[w] \in Int
                             /\ m[w].absentCount = count[w]
       /\ \A w \in DOMAIN absent : absent[w] = <<count[w], rate[w], -w>>
       /\ \A w \in DOMAIN m : w \notin DOMAIN absent => count[w] = 0
  <2>1. ASSUME NEW w \in DOMAIN m PROVE w \in Int /\ -w \in Int
    <3>1. w \in Int
      BY <1>3, <1>5
    <3> QED BY <3>1
  <2> QED BY <1>2, <1>3, <1>4, <2>1
<1> HIDE DEF count, rate
<1>14. ASSUME NEW k \in DOMAIN absent, NEW l \in DOMAIN absent
       PROVE  Before(absent[l], absent[k])
                <=> \/ count[l] > count[k]
                    \/ (count[l] = count[k] /\ rate[l] > rate[k])
                    \/ (count[l] = count[k] /\ rate[l] = rate[k] /\ -l > -k)
  <2>1. /\ -k \in Int /\ -l \in Int /\ count[k] \in Int /\ count[l] \in Int
        /\ rate[k] \in Int /\ rate[l] \in Int
    BY <1>2, <1>13
  <2>2. absent[k] = <<count[k], rate[k], -k>> /\ absent[l] = <<count[l], rate[l], -l>>
    BY <1>13
  <2> DEFINE minusK == -k
             minusL == -l
  <2> HIDE DEF minusK, minusL
  <2>3. Before(<<count[l], rate[l], minusL>>, <<count[k], rate[k], minusK>>)
          <=> \/ count[l] > count[k]
              \/ (count[l] = count[k] /\ rate[l] > rate[k])
              \/ (count[l] = count[k] /\ rate[l] = rate[k] /\ minusL > minusK)
    BY <2>1, TriplesBefore DEF minusK, minusL
  <2> QED BY <2>2, <2>3 DEF minusK, minusL
<1>7. Orders(KeyOrder(absent), DOMAIN absent)
  <2>1. \A k, l \in DOMAIN absent :
          <<l, k>> \in KeyOrder(absent)
            <=> \/ count[l] > count[k]
                \/ (count[l] = count[k] /\ rate[l] > rate[k])
                \/ (count[l] = count[k] /\ rate[l] = rate[k] /\ -l > -k)
    BY <1>14, InKeyOrder
  <2>2. \A k \in DOMAIN absent : k \in Int /\ count[k] \in Int /\ rate[k] \in Int
    BY <1>2, <1>13
  <2> QED BY <2>1, <2>2 DEF Orders
<1>8. ASSUME Rank(absent, 1) # <<>>
      PROVE  \A w \in DOMAIN m : m[w].absentCount <= m[Rank(absent, 1)[1]].absentCount
  <2> DEFINE first == Rank(absent, 1)[1]
  <2>1. first \in DOMAIN absent /\ \A w \in DOMAIN absent : ~Before(absent[w], absent[first])
    BY <1>2, <1>6, <1>7, <1>8, RankFirst
  <2> HIDE DEF first
  <2> SUFFICES ASSUME NEW w \in DOMAIN m PROVE m[w].absentCount <= m[first].absentCount
    BY DEF first
  <2>2. /\ first \in DOMAIN m /\ count[w] \in Nat /\ count[first] \in Nat
        /\ m[w].absentCount = count[w] /\ m[first].absentCount = count[first]
    BY <1>2, <1>13, <2>1
  <2>3. CASE w \in DOMAIN absent
    <3>1. ~(count[w] > count[first])
      BY <1>14, <2>1, <2>3
    <3> QED BY <2>2, <3>1
  <2>4. CASE w \notin DOMAIN absent
    BY <1>13, <2>2, <2>4
  <2> QED BY <2>3, <2>4
<1>9. ToSet(Rank(absent, size)) = {w \in DOMAIN m : m[w].absentCount > 0}
  BY <1>2, <1>4, <1>5, <1>6, <1>7, RankLists
<1>10. ASSUME NEW keys \in {absent, late, best, prompt}, Rank(keys, 1) # <<>>
       PROVE  Rank(keys, 1)[1] = Rank(keys, size)[1]
  <2>1. IsFiniteSet(DOMAIN keys) /\ Cardinality(DOMAIN keys) <= size
    BY <1>2, <1>6
  <2> QED BY <1>5, <1>10, <2>1, RankStarts
<1>11. \A f \in DOMAIN Rankings(rows, 1) :
         Rankings(rows, 1)[f] # <<>> => Rankings(rows, 1)[f][1] = Rankings(rows, size)[f][1]
  <2> DEFINE one == Rankings(rows, 1)
             all == Rankings(rows, size)
  <2>1. /\ DOMAIN one = {"topAbsent", "topLate", "bestAttendance", "bestPunctuality"}
        /\ one["topAbsent"] = Rank(absent, 1) /\ all["topAbsent"] = Rank(absent, size)
        /\ one["topLate"] = Rank(late, 1) /\ all["topLate"] = Rank(late, size)
        /\ one["bestAttendance"] = Rank(best, 1) /\ all["bestAttendance"] = Rank(best, size)
        /\ one["bestPunctuality"] = Rank(prompt, 1) /\ all["bestPunctuality"] = Rank(prompt, size)
    BY <1>1
  <2> HIDE DEF one, all
  <2>2. \A f \in DOMAIN one : one[f] # <<>> => one[f][1] = all[f][1]
    BY <1>10, <2>1
  <2> QED BY <2>2 DEF one, all
<1>12. Rankings(rows, size).topAbsent = Rank(absent, size) /\ Rankings(rows, 1).topAbsent = Rank(absent, 1)
  BY <1>1
<1> QED BY <1>8, <1>9, <1>11, <1>12 DEF ListsAreComplete, m, size

LEMMA DashboardsAdd == AnalyticsTypeOK => DashboardAddsUp
<1> SUFFICES ASSUME AnalyticsTypeOK, NEW from \in Calendar, NEW to \in from .. LastCounted
             PROVE  /\ ChartsAddUp(RowsOfPeriod(from, to), from, to)
                    /\ ChartsAddUp(Dataset(from, to, [NoFilter EXCEPT !.statuses = {"absent", "late"}]),
                                   from, to)
                    /\ DetailsMatchCharts(from, to)
                    /\ ListsAreComplete(RowsOfPeriod(from, to))
  BY DEF DashboardAddsUp
<1>1. from \in Int /\ to \in Int
  BY AnalyticsAssumption DEF Calendar
<1>2. \A filter : RowsFrom(Dataset(from, to, filter), from, to)
  BY DatasetIsFinite
<1>3. \A filter : ChartsAddUp(Dataset(from, to, filter), from, to)
  BY <1>1, <1>2, ChartsDoAddUp
<1>4. \A r \in RowsOfPeriod(from, to) : r.worker \in People
  BY DEF RowsOfPeriod, Dataset
<1>5. RowsFrom(RowsOfPeriod(from, to), from, to)
  BY <1>2 DEF RowsOfPeriod
<1>6. ListsAreComplete(RowsOfPeriod(from, to))
  BY <1>4, <1>5, ListsComplete
<1>7. DetailsMatchCharts(from, to)
  BY DetailsMatch
<1> QED BY <1>3, <1>6, <1>7 DEF RowsOfPeriod

-------------------------------------------------------------------------------
(* Sequences cut into pages *)

\* Up to cut[p], the first p of the pages hold the sequence.
CutsOf(cut, seq, n) ==
  /\ cut \in [0 .. n -> 0 .. Len(seq)] /\ cut[0] = 0 /\ cut[n] = Len(seq)
  /\ \A p \in 1 .. n : cut[p - 1] <= cut[p]

Pages(cut, seq, n) == [p \in 1 .. n |-> SubSeq(seq, cut[p - 1] + 1, cut[p])]

\* Put one after the other, the pages are the sequence.
LEMMA PagesMakeTheWhole ==
  ASSUME NEW S, NEW seq \in Seq(S), NEW n \in Nat, NEW cut, CutsOf(cut, seq, n)
  PROVE  FlattenSeq(Pages(cut, seq, n)) = seq
<1> DEFINE pages == Pages(cut, seq, n)
           Upto(p) == SubSeq(seq, 1, cut[p])
           Body(h) == [i \in 1 .. n |-> IF i = 1 THEN pages[i] ELSE h[i - 1] \o pages[i]]
           made == [i \in 1 .. n |-> Upto(i)]
           flat == CHOOSE h : h = Body(h)
<1>1. /\ \A p \in 0 .. n : cut[p] \in Int /\ 0 <= cut[p] /\ cut[p] <= Len(seq)
      /\ Len(seq) \in Nat /\ cut[0] = 0 /\ cut[n] = Len(seq)
      /\ \A p \in 1 .. n : cut[p - 1] <= cut[p]
  BY DEF CutsOf
<1>2. /\ Len(pages) = n
      /\ \A p \in 1 .. n : pages[p] = SubSeq(seq, cut[p - 1] + 1, cut[p])
  <2> DEFINE E(p) == SubSeq(seq, cut[p - 1] + 1, cut[p])
  <2>1. pages = [p \in 1 .. n |-> E(p)]
    BY DEF Pages
  <2> HIDE DEF pages, E
  <2>2. Len(pages) = n /\ \A p \in 1 .. n : pages[p] = E(p)
    BY <2>1
  <2> QED BY <2>2 DEF E
<1>3. CASE n = 0
  <2>1. pages = <<>> /\ seq = <<>>
    BY <1>1, <1>3, EmptySeq DEF Pages
  <2> HIDE DEF pages
  <2>2. FlattenSeq(pages) = pages
    BY <1>2, <1>3 DEF FlattenSeq
  <2> QED BY <2>1, <2>2 DEF pages
<1>4. CASE n # 0
  <2>1. FlattenSeq(pages) = flat[n]
    <3> HIDE DEF pages
    <3> QED BY <1>2, <1>4 DEF FlattenSeq
  <2>2. ASSUME NEW p \in 1 .. n, p # 1 PROVE Upto(p) = Upto(p - 1) \o pages[p]
    <3>1. p - 1 \in 0 .. n /\ p \in 0 .. n
      OBVIOUS
    <3>2. /\ 1 \in 1 .. Len(seq) + 1
          /\ cut[p - 1] \in 1 - 1 .. Len(seq)
          /\ cut[p] \in cut[p - 1] .. Len(seq)
      BY <1>1, <3>1
    <3>3. SubSeq(seq, 1, cut[p - 1]) \o SubSeq(seq, cut[p - 1] + 1, cut[p]) = SubSeq(seq, 1, cut[p])
      BY <3>2, ConcatAdjacentSubSeq
    <3> QED BY <1>2, <3>3
  <2>3. Upto(1) = pages[1]
    <3>1. 1 \in 1 .. n /\ cut[1 - 1] = 0
      BY <1>1, <1>4
    <3> QED BY <1>2, <3>1
  <2>4. Upto(n) = seq
    BY <1>1, SubSeqFull
  <2> HIDE DEF pages, Upto
  <2>5. made = Body(made)
    <3>1. ASSUME NEW i \in 1 .. n
          PROVE  made[i] = IF i = 1 THEN pages[i] ELSE made[i - 1] \o pages[i]
      <4>1. CASE i = 1
        BY <2>3, <4>1
      <4>2. CASE i # 1
        <5>1. i - 1 \in 1 .. n
          BY <4>2
        <5> QED BY <2>2, <4>2, <5>1
      <4> QED BY <4>1, <4>2
    <3> HIDE DEF made
    <3>2. made = [i \in 1 .. n |-> made[i]]
      BY DEF made
    <3> QED BY <3>1, <3>2
  <2>6. flat = Body(flat)
    BY <2>5
  <2> HIDE DEF flat, made
  <2>7. /\ 1 \in 1 .. n /\ flat[1] = pages[1]
        /\ \A i \in 1 .. n : i # 1 => flat[i] = flat[i - 1] \o pages[i]
    <3> DEFINE Val(i) == IF i = 1 THEN pages[i] ELSE flat[i - 1] \o pages[i]
    <3>1. flat = [i \in 1 .. n |-> Val(i)]
      BY <2>6
    <3>2. \A i : Val(i) = IF i = 1 THEN pages[i] ELSE flat[i - 1] \o pages[i]
      OBVIOUS
    <3> HIDE DEF Val
    <3>3. 1 \in 1 .. n /\ \A i \in 1 .. n : flat[i] = Val(i)
      BY <1>4, <3>1
    <3> QED BY <3>2, <3>3
  <2> HIDE DEF Body
  <2> DEFINE Bad == {i \in Nat : i \in 1 .. n /\ flat[i] # Upto(i)}
  <2>8. Bad = {}
    <3> SUFFICES ASSUME Bad # {} PROVE FALSE
      OBVIOUS
    <3>1. PICK i \in Bad : \A j \in Bad : i <= j
      BY LeastIsThere
    <3>2. i # 1
      BY <2>3, <2>7, <3>1
    <3>3. i \in 1 .. n /\ i - 1 \in 1 .. n /\ i - 1 \in Nat /\ i - 1 \notin Bad
      BY <3>1, <3>2
    <3>4. flat[i - 1] = Upto(i - 1)
      BY <3>3
    <3> QED BY <2>2, <2>7, <3>1, <3>2, <3>3, <3>4
  <2>9. flat[n] = Upto(n)
    BY <1>4, <2>8
  <2> QED BY <2>1, <2>4, <2>9 DEF pages
<1> QED BY <1>3, <1>4

\* One page after the other, of any size, a list is shown whole.
LEMMA PageIsCut ==
  ASSUME NEW S, NEW seq \in Seq(S), NEW size \in Nat \ {0}, NEW n \in Nat, Len(seq) <= n
  PROVE  FlattenSeq([p \in 1 .. n |-> Page(seq, p, size)]) = seq
<1> DEFINE top == [p \in 0 .. n |-> p * size]
           cut == [p \in 0 .. n |-> IF top[p] < Len(seq) THEN top[p] ELSE Len(seq)]
<1>1. Len(seq) \in Nat
  OBVIOUS
<1>2. ASSUME NEW p \in 0 .. n PROVE top[p] \in Nat /\ top[p] = p * size
  OBVIOUS
<1>3. /\ \A p \in 0 .. n : top[p] \in Nat
      /\ top[0] = 0 /\ n <= top[n]
      /\ \A p \in 1 .. n : top[p - 1] <= top[p]
  <2>1. 0 \in 0 .. n /\ n \in 0 .. n /\ 0 * size = 0 /\ n <= n * size
    OBVIOUS
  <2>2. ASSUME NEW p \in 1 .. n PROVE top[p - 1] <= top[p]
    <3>1. p - 1 \in 0 .. n /\ p \in 0 .. n
      OBVIOUS
    <3>2. (p - 1) * size + size <= p * size
      BY TimesMore
    <3> QED BY <1>2, <3>1, <3>2
  <2> QED BY <1>2, <2>1, <2>2
<1> HIDE DEF top
<1>4. /\ \A p \in 0 .. n : cut[p] = IF top[p] < Len(seq) THEN top[p] ELSE Len(seq)
      /\ cut = [p \in 0 .. n |-> cut[p]]
  OBVIOUS
<1> HIDE DEF cut
<1>5. CutsOf(cut, seq, n)
  <2>1. \A p \in 0 .. n : cut[p] \in 0 .. Len(seq)
    BY <1>1, <1>3, <1>4
  <2>2. cut \in [0 .. n -> 0 .. Len(seq)]
    BY <1>4, <2>1
  <2>3. cut[0] = 0 /\ cut[n] = Len(seq)
    <3>1. 0 \in 0 .. n /\ n \in 0 .. n /\ top[n] \in Nat
      BY <1>3
    <3>2. cut[0] = IF top[0] < Len(seq) THEN top[0] ELSE Len(seq)
      BY <1>4, <3>1
    <3>3. cut[n] = IF top[n] < Len(seq) THEN top[n] ELSE Len(seq)
      BY <1>4, <3>1
    <3> QED BY <1>1, <1>3, <3>1, <3>2, <3>3
  <2>4. ASSUME NEW p \in 1 .. n PROVE cut[p - 1] <= cut[p]
    <3>1. p - 1 \in 0 .. n /\ p \in 0 .. n /\ top[p - 1] \in Nat /\ top[p] \in Nat
      BY <1>3
    <3>2. /\ cut[p - 1] = IF top[p - 1] < Len(seq) THEN top[p - 1] ELSE Len(seq)
          /\ cut[p] = IF top[p] < Len(seq) THEN top[p] ELSE Len(seq)
      BY <1>4, <3>1
    <3>3. top[p - 1] <= top[p]
      BY <1>3
    <3> QED BY <1>1, <3>1, <3>2, <3>3
  <2> QED BY <2>2, <2>3, <2>4 DEF CutsOf
<1>6. ASSUME NEW p \in 1 .. n PROVE Page(seq, p, size) = SubSeq(seq, cut[p - 1] + 1, cut[p])
  <2>1. p - 1 \in 0 .. n /\ p \in 0 .. n /\ top[p - 1] \in Nat /\ top[p] \in Nat
    BY <1>3
  <2>2. /\ cut[p - 1] = IF top[p - 1] < Len(seq) THEN top[p - 1] ELSE Len(seq)
        /\ cut[p] = IF top[p] < Len(seq) THEN top[p] ELSE Len(seq)
    BY <1>4, <2>1
  <2>3. Page(seq, p, size) = SubSeq(seq, top[p - 1] + 1, cut[p])
    <3>1. top[p - 1] = (p - 1) * size /\ top[p] = p * size
      BY <1>2, <2>1
    <3> QED BY <2>2, <3>1 DEF Page
  <2>4. CASE top[p - 1] < Len(seq)
    BY <2>2, <2>3, <2>4
  <2>5. CASE ~(top[p - 1] < Len(seq))
    <3>1. cut[p] \in Int /\ cut[p] <= Len(seq) /\ cut[p - 1] = Len(seq)
      BY <1>1, <2>1, <2>2, <2>5
    <3>2. SubSeq(seq, top[p - 1] + 1, cut[p]) = <<>>
      BY <1>1, <2>1, <2>5, <3>1, SubSeqEmpty
    <3>3. SubSeq(seq, cut[p - 1] + 1, cut[p]) = <<>>
      BY <1>1, <3>1, SubSeqEmpty
    <3> QED BY <2>3, <3>2, <3>3
  <2> QED BY <2>4, <2>5
<1>7. [p \in 1 .. n |-> Page(seq, p, size)] = Pages(cut, seq, n)
  BY <1>6 DEF Pages
<1> QED BY <1>5, <1>7, PagesMakeTheWhole

-------------------------------------------------------------------------------
(* The requests reported *)

Newer(ids) == {p \in ids \X ids : p[1] > p[2]}

LEMMA InNewer ==
  ASSUME NEW ids, NEW i \in ids, NEW j \in ids
  PROVE  <<j, i>> \in Newer(ids) <=> j > i
<1> DEFINE p == <<j, i>>
<1>1. p \in ids \X ids /\ p[1] = j /\ p[2] = i
  OBVIOUS
<1> HIDE DEF p
<1>2. p \in Newer(ids) <=> j > i
  BY <1>1 DEF Newer
<1> QED BY <1>2 DEF p

\* A list has each of its requests once.
LEMMA NewestListsAll ==
  ASSUME NEW ids \in SUBSET Int, IsFiniteSet(ids)
  PROVE  /\ NewestFirst(ids) \in Seq(ids)
         /\ Len(NewestFirst(ids)) = Cardinality(ids)
         /\ Range(NewestFirst(ids)) = ids
<1> DEFINE R == Newer(ids)
           size == Cardinality(ids)
           Found(n) == CHOOSE i \in ids : PlaceIn(R, ids, i) = n
           Listed1(n) == CHOOSE i \in ids : Cardinality({j \in ids : j > i}) + 1 = n
<1>1. Orders(R, ids)
  BY InNewer DEF Orders
<1>2. /\ \A i \in ids : PlaceIn(R, ids, i) \in 1 .. size
      /\ \A n \in 1 .. size : \E i \in ids : PlaceIn(R, ids, i) = n
      /\ \A i, j \in ids : PlaceIn(R, ids, i) = PlaceIn(R, ids, j) => i = j
  <2> HIDE DEF R
  <2>1. \A i \in ids : PlaceIn(R, ids, i) \in 1 .. size
    BY <1>1, LaterPlaces
  <2>2. /\ \A n \in 1 .. size : \E k \in ids : PlaceIn(R, ids, k) = n
        /\ \A k, l \in ids : PlaceIn(R, ids, k) = PlaceIn(R, ids, l) => k = l
    BY <1>1, PlacesAreAll, Zenon
  <2> HIDE DEF size
  <2> QED BY <2>1, <2>2
<1>3. \A i \in ids : {l \in ids : <<l, i>> \in R} = {j \in ids : j > i}
  BY InNewer
<1>4. \A i \in ids : PlaceIn(R, ids, i) = Cardinality({j \in ids : j > i}) + 1
  BY <1>3 DEF PlaceIn
<1>5. \A n : Found(n) = Listed1(n)
  BY <1>4
<1>6. NewestFirst(ids) = [n \in 1 .. size |-> Listed1(n)]
  BY DEF NewestFirst
<1>7. size \in Nat
  BY FS_CardinalityType
<1>8. \A n \in 1 .. size : Found(n) \in ids /\ PlaceIn(R, ids, Found(n)) = n
  BY <1>2
<1> HIDE DEF R, size, Found, Listed1
<1>9. NewestFirst(ids) = [n \in 1 .. size |-> Found(n)]
  BY <1>5, <1>6
<1>10. NewestFirst(ids) \in Seq(ids) /\ Len(NewestFirst(ids)) = size
  BY <1>7, <1>8, <1>9
<1>11. Range(NewestFirst(ids)) = ids
  <2>1. ASSUME NEW i \in ids PROVE \E n \in 1 .. size : Found(n) = i
    BY <1>2, <1>8
  <2>2. Range(NewestFirst(ids)) = {Found(n) : n \in 1 .. size}
    BY <1>9 DEF Range
  <2> QED BY <1>8, <2>1, <2>2
<1> QED BY <1>10, <1>11 DEF size


\* The requests a viewer's report is of
ReportIds(viewer, f) ==
  IF viewer = Visitor THEN {}
  ELSE {i \in DOMAIN filed : Passes(filed[i], Enforced(viewer, f))}

LEMMA SomeOfFiled ==
  ASSUME ReportsTypeOK, NEW ids \in SUBSET DOMAIN filed
  PROVE  /\ ids \subseteq Int /\ IsFiniteSet(ids)
         /\ Cardinality(ids) \in Nat /\ Cardinality(ids) <= MaxFiled
<1> DEFINE Row == [by : Filers, type : FiledTypes, status : FiledStatuses, span : FiledSpans]
<1>1. Len(filed) \in Nat /\ DOMAIN filed = 1 .. Len(filed) /\ Len(filed) <= MaxFiled
  <2>1. filed \in Seq(Row) /\ Len(filed) <= MaxFiled
    BY DEF ReportsTypeOK
  <2> HIDE DEF Row
  <2> QED BY <2>1
<1>2. IsFiniteSet(1 .. Len(filed)) /\ Cardinality(1 .. Len(filed)) = Len(filed)
  BY <1>1, FS_Interval
<1>3. ids \in SUBSET (1 .. Len(filed))
  BY <1>1
<1>4. IsFiniteSet(ids) /\ Cardinality(ids) <= Len(filed)
  BY <1>2, <1>3, FS_Subset
<1>5. Cardinality(ids) \in Nat
  BY <1>4, FS_CardinalityType
<1>6. MaxFiled \in Nat
  BY RequestReportsAssumption
<1> QED BY <1>1, <1>3, <1>4, <1>5, <1>6

LEMMA ReportHasEach ==
  ASSUME ReportsTypeOK, NEW viewer, NEW f
  PROVE  LET rows == ReportRows(viewer, f)
             ids == ReportIds(viewer, f)
         IN  /\ rows = NewestFirst(ids)
             /\ ids \in SUBSET DOMAIN filed
             /\ rows \in Seq(ids) /\ Range(rows) = ids
             /\ Len(rows) = Cardinality(ids) /\ Len(rows) \in Nat /\ Len(rows) <= MaxFiled
<1> DEFINE ids == ReportIds(viewer, f)
<1>1. ids \in SUBSET DOMAIN filed
  BY DEF ReportIds
<1>2. ReportRows(viewer, f) = NewestFirst(ids)
  <2>1. CASE viewer = Visitor
    <3>1. ids = {} /\ Cardinality({}) = 0 /\ ReportRows(viewer, f) = <<>>
      BY <2>1, FS_EmptySet DEF ReportIds, ReportRows
    <3>2. NewestFirst({}) = <<>>
      BY <3>1 DEF NewestFirst
    <3> QED BY <3>1, <3>2
  <2>2. CASE viewer # Visitor
    BY <2>2 DEF ReportIds, ReportRows
  <2> QED BY <2>1, <2>2
<1> HIDE DEF ids
<1>3. /\ ids \subseteq Int /\ IsFiniteSet(ids)
      /\ Cardinality(ids) \in Nat /\ Cardinality(ids) <= MaxFiled
  BY <1>1, SomeOfFiled
<1>4. /\ NewestFirst(ids) \in Seq(ids) /\ Len(NewestFirst(ids)) = Cardinality(ids)
      /\ Range(NewestFirst(ids)) = ids
  BY <1>3, NewestListsAll
<1> QED BY <1>1, <1>2, <1>3, <1>4 DEF ids

\* The lists pass what the report does.
LEMMA SamePass ==
  ASSUME NEW r, NEW v, NEW f, f = [worker |-> f.worker, status |-> f.status, type |-> f.type,
                                  zone |-> f.zone, from |-> f.from, to |-> f.to]
  PROVE  /\ Passes(r, f) <=> /\ Passes(r, [f EXCEPT !.status = Every])
                             /\ StatusesOf(f) # {} => r.status \in StatusesOf(f)
         /\ Passes(r, [f EXCEPT !.worker = v])
              <=> /\ Passes(r, [[f EXCEPT !.worker = v] EXCEPT !.status = Every])
                  /\ StatusesOf(f) # {} => r.status \in StatusesOf(f)
         /\ Passes(r, [f EXCEPT !.worker = v]) => r.by = v \/ v = Every
<1> DEFINE g == [f EXCEPT !.worker = v]
           a == [f EXCEPT !.status = Every]
           b == [g EXCEPT !.status = Every]
<1>1. /\ g.worker = v /\ g.status = f.status /\ g.type = f.type /\ g.zone = f.zone
      /\ g.from = f.from /\ g.to = f.to
  OBVIOUS
<1>2. /\ a.worker = f.worker /\ a.status = Every /\ a.type = f.type /\ a.zone = f.zone
      /\ a.from = f.from /\ a.to = f.to
  OBVIOUS
<1>3. /\ b.worker = v /\ b.status = Every /\ b.type = f.type /\ b.zone = f.zone
      /\ b.from = f.from /\ b.to = f.to
  OBVIOUS
<1>4. /\ StatusesOf(f) # {} <=> f.status # Every
      /\ \A s : StatusesOf(f) # {} => (s \in StatusesOf(f) <=> s = f.status)
  BY DEF StatusesOf
<1> HIDE DEF g, a, b
<1>5. Passes(r, f) <=> (Passes(r, a) /\ (StatusesOf(f) # {} => r.status \in StatusesOf(f)))
  BY <1>2, <1>4 DEF Passes
<1>6. Passes(r, g) <=> (Passes(r, b) /\ (StatusesOf(f) # {} => r.status \in StatusesOf(f)))
  BY <1>1, <1>3, <1>4 DEF Passes
<1>7. Passes(r, g) => r.by = v \/ v = Every
  BY <1>1 DEF Passes
<1> QED BY <1>5, <1>6, <1>7 DEF g, a, b

\* The report is what its pages show, what it exports, and what the lists give.
LEMMA PagesMakeReports ==
  ASSUME ReportsTypeOK, MaxFiled <= ExportLimit PROVE PagesMakeTheReport
<1> SUFFICES ASSUME NEW viewer \in Viewers, NEW f \in Criteria
             PROVE  LET rows == ReportRows(viewer, f) IN
                    /\ \A size \in PageSizes :
                         FlattenSeq([page \in 1 .. Len(rows) |-> Preview(viewer, f, page, size).rows])
                           = Export(viewer, f, 1)
                    /\ viewer = Manager => rows = CompanyRequests(f) /\ rows = ServiceReport(f)
                    /\ viewer \in working => rows = MyRequests(viewer, f)
                    /\ viewer \in working \cup {Manager} =>
                         \A i \in Range(rows) : \E r \in Opened(viewer, i) : Passes(r, Enforced(viewer, f))
  BY DEF PagesMakeTheReport
<1> DEFINE rows == ReportRows(viewer, f)
           ids == ReportIds(viewer, f)
           n == Len(rows)
<1>1. /\ rows = NewestFirst(ids) /\ ids \in SUBSET DOMAIN filed /\ rows \in Seq(ids)
      /\ Range(rows) = ids /\ n \in Nat /\ n <= MaxFiled
  BY ReportHasEach
<1>2. f = [worker |-> f.worker, status |-> f.status, type |-> f.type,
           zone |-> f.zone, from |-> f.from, to |-> f.to]
  BY CriteriaAssumption
<1>3. /\ Manager # Visitor /\ Manager \notin Filers /\ Visitor \notin Filers /\ Every \notin Filers
      /\ PageSizes \subseteq Nat \ {0} /\ MaxFiled \in Nat
  BY RequestReportsAssumption
<1>4. working \subseteq Filers
  BY DEF ReportsTypeOK
<1>5. \A v : Export(v, f, 1) = ReportRows(v, f)
  <2>1. ASSUME NEW v PROVE Export(v, f, 1) = ReportRows(v, f)
    <3> DEFINE its == ReportRows(v, f)
               S == ReportIds(v, f)
    <3>1. its \in Seq(S) /\ Len(its) \in Nat /\ Len(its) <= MaxFiled
      BY ReportHasEach
    <3> HIDE DEF its, S
    <3>2. ~(1 * ExportLimit < Len(its)) /\ (1 - 1) * ExportLimit + 1 = 1
      BY <1>3, <3>1 DEF ExportLimit
    <3>3. Page(its, 1, ExportLimit) = SubSeq(its, 1, Len(its))
      BY <3>2 DEF Page
    <3>4. Page(its, 1, ExportLimit) = its
      BY <3>1, <3>3, SubSeqFull
    <3> QED BY <3>4 DEF Export, its
  <2> QED BY <2>1
<1> HIDE DEF rows, ids, n
<1>6. ASSUME NEW size \in PageSizes
      PROVE  FlattenSeq([page \in 1 .. n |-> Preview(viewer, f, page, size).rows])
               = Export(viewer, f, 1)
  <2>1. \A page : Preview(viewer, f, page, size).rows = Page(rows, page, size)
    BY DEF Preview, rows
  <2>2. size \in Nat \ {0} /\ Len(rows) <= n
    BY <1>1, <1>3 DEF n
  <2>3. FlattenSeq([page \in 1 .. n |-> Page(rows, page, size)]) = rows
    BY <1>1, <2>2, PageIsCut
  <2>4. [page \in 1 .. n |-> Preview(viewer, f, page, size).rows] = [page \in 1 .. n |-> Page(rows, page, size)]
    BY <2>1
  <2> QED BY <1>5, <2>3, <2>4 DEF rows
<1>7. ASSUME viewer = Manager PROVE rows = CompanyRequests(f) /\ rows = ServiceReport(f)
  <2>1. ids = {i \in DOMAIN filed : Passes(filed[i], f)}
    BY <1>3, <1>7 DEF ids, ReportIds, Enforced
  <2>2. ids = {i \in DOMAIN filed : /\ Passes(filed[i], [f EXCEPT !.status = Every])
                                    /\ StatusesOf(f) # {} => filed[i].status \in StatusesOf(f)}
    BY <1>2, <2>1, SamePass
  <2>3. rows = CompanyRequests(f)
    BY <1>1, <2>2 DEF CompanyRequests, Listed
  <2>4. rows = ServiceReport(f)
    BY <1>5, <1>7 DEF ServiceReport, rows
  <2> QED BY <2>3, <2>4
<1>8. ASSUME viewer \in working PROVE rows = MyRequests(viewer, f)
  <2> DEFINE g == [f EXCEPT !.worker = viewer]
  <2>1. ids = {i \in DOMAIN filed : Passes(filed[i], g)}
    BY <1>3, <1>4, <1>8 DEF ids, ReportIds, Enforced
  <2>2. ASSUME NEW r
        PROVE  Passes(r, g) <=> (/\ Passes(r, [g EXCEPT !.status = Every])
                                 /\ StatusesOf(f) # {} => r.status \in StatusesOf(f))
    BY <1>2, SamePass
  <2> HIDE DEF g
  <2>3. ids = {i \in DOMAIN filed : /\ Passes(filed[i], [g EXCEPT !.status = Every])
                                    /\ StatusesOf(f) # {} => filed[i].status \in StatusesOf(f)}
    BY <2>1, <2>2
  <2> QED BY <1>1, <1>8, <2>3 DEF MyRequests, Listed, g
<1>9. ASSUME viewer \in working \cup {Manager}, NEW i \in Range(rows)
      PROVE  \E r \in Opened(viewer, i) : Passes(r, Enforced(viewer, f))
  <2>1. Passes(filed[i], Enforced(viewer, f))
    BY <1>1, <1>9 DEF ids, ReportIds
  <2>2. viewer \in working => filed[i].by = viewer
    <3> DEFINE g == [f EXCEPT !.worker = viewer]
    <3>1. ASSUME viewer \in working PROVE Passes(filed[i], g) /\ viewer # Every
      BY <1>3, <1>4, <2>1, <3>1 DEF Enforced
    <3>2. \A r : Passes(r, g) => r.by = viewer \/ viewer = Every
      BY <1>2, SamePass
    <3> HIDE DEF g
    <3> QED BY <3>1, <3>2
  <2>3. Opened(viewer, i) = {filed[i]}
    BY <1>9, <2>2 DEF Opened, MayOpen
  <2> QED BY <2>1, <2>3
<1> QED BY <1>6, <1>7, <1>8, <1>9 DEF rows, n


\* Of numbers up to one of them there is a greatest.
LEMMA HighestIsThere ==
  ASSUME NEW n \in Int, NEW S \in SUBSET Int, S # {}, \A x \in S : x <= n
  PROVE  Max(S) \in S /\ \A x \in S : x <= Max(S)
<1> DEFINE down == {m \in Nat : n - m \in S}
<1>1. ASSUME NEW x \in S PROVE n - x \in Nat /\ n - (n - x) = x
  <2>1. x \in Int /\ x <= n
    OBVIOUS
  <2> QED BY <2>1
<1>2. \A x \in S : n - x \in down
  BY <1>1
<1>3. down # {} /\ down \in SUBSET Nat
  BY <1>2
<1>4. PICK m \in down : \A k \in down : m <= k
  <2> HIDE DEF down
  <2> QED BY <1>3, LeastIsThere
<1>5. ASSUME NEW x \in S PROVE x <= n - m
  <2>1. m \in Nat /\ x \in Int
    OBVIOUS
  <2> HIDE DEF down
  <2>2. m <= n - x
    BY <1>2, <1>4
  <2> QED BY <2>1, <2>2
<1>6. n - m \in S
  BY <1>4
<1> HIDE DEF down
<1>7. \E x \in S : \A y \in S : x >= y
  BY <1>5, <1>6
<1> QED BY <1>7 DEF Max

\* The requests of the bars shown, whatever they are grouped by.
LEMMA ChartCounts ==
  ASSUME ReportsTypeOK, NEW ids \in SUBSET DOMAIN filed, NEW by, NEW shown \in SUBSET Labels(ids, by)
  PROVE  ChartTotal(ids, by, shown) = Cardinality({i \in ids : Label(filed[i], by) \in shown})
<1> DEFINE K == shown
           label == [i \in ids |-> Label(filed[i], by)]
           R == {i \in ids : label[i] \in K}
           own == [i \in R |-> label[i]]
           g == [k \in K |-> Bar(ids, by, k)]
           Body(h) ==
             [s \in SUBSET K |-> IF s = {} THEN 0
                ELSE LET x == CHOOSE x \in s : TRUE IN Bar(ids, by, x) + h[s \ {x}]]
           it == CHOOSE h : h = Body(h)
<1>1. IsFiniteSet(R)
  <2>1. IsFiniteSet(ids)
    BY SomeOfFiled
  <2> QED BY <2>1, FS_Subset
<1>2. own \in [R -> K] /\ \A k \in K : \E i \in R : own[i] = k
  <2>1. ASSUME NEW k \in K PROVE \E i \in ids : label[i] = k
    BY DEF Labels
  <2> QED BY <2>1
<1>3. ASSUME NEW k \in K PROVE g[k] = Cardinality(Under(R, own, {k}))
  <2>1. {i \in ids : Label(filed[i], by) = k} = Under(R, own, {k})
    BY DEF Under
  <2> QED BY <2>1 DEF Bar
<1>4. R = {i \in ids : Label(filed[i], by) \in shown}
  OBVIOUS
<1>5. ChartTotal(ids, by, shown) = it[K]
  BY DEF ChartTotal, MapThenSumSet, MapThenFoldSet
<1>6. Grouped(g, R, own, K)
  BY <1>3 DEF Grouped
<1>7. ASSUME NEW h PROVE h = Body(h) <=> Folds(g, h, K)
  <2>1. ASSUME NEW s \in SUBSET K, s # {}
        PROVE  Bar(ids, by, CHOOSE x \in s : TRUE) = g[CHOOSE x \in s : TRUE]
    <3>1. (CHOOSE x \in s : TRUE) \in K
      BY <2>1
    <3> QED BY <3>1
  <2> DEFINE Mine(s) == IF s = {} THEN 0
                        ELSE LET x == CHOOSE x \in s : TRUE IN Bar(ids, by, x) + h[s \ {x}]
             Its(s) == IF s = {} THEN 0
                       ELSE LET x == CHOOSE x \in s : TRUE IN g[x] + h[s \ {x}]
  <2>2. \A s \in SUBSET K : Mine(s) = Its(s)
    BY <2>1
  <2>3. Body(h) = [s \in SUBSET K |-> Mine(s)]
    OBVIOUS
  <2>4. Folds(g, h, K) <=> h = [s \in SUBSET K |-> Its(s)]
    BY DEF Folds
  <2> HIDE DEF Mine, Its, Body
  <2> QED BY <2>2, <2>3, <2>4
<1> HIDE DEF label, R, own, Body, g, K
<1>8. IsFiniteSet(K)
  BY <1>1, <1>2, GroupsAreFinite
<1>9. \E h : h = Body(h)
  BY <1>1, <1>2, <1>6, <1>7, GroupsFold
<1>10. it = Body(it)
  BY <1>9
<1> HIDE DEF it
<1>11. it[K] = Cardinality(R)
  BY <1>1, <1>2, <1>6, <1>7, <1>8, <1>10, FoldCounts
<1> QED BY <1>4, <1>5, <1>11

\* The total of the summary
LEMMA SummaryCounts ==
  ASSUME ReportsTypeOK, NEW ids \in SUBSET DOMAIN filed
  PROVE  Summary(ids).total = Cardinality(ids)
<1> DEFINE K == {filed[i].status : i \in ids}
           own == [i \in ids |-> filed[i].status]
           Count(s) == Cardinality({i \in ids : filed[i].status = s})
           g == [k \in K |-> Count(k)]
           Body(h) ==
             [s \in SUBSET K |-> IF s = {} THEN 0
                ELSE LET x == CHOOSE x \in s : TRUE IN Count(x) + h[s \ {x}]]
           it == CHOOSE h : h = Body(h)
<1>1. IsFiniteSet(ids)
  BY SomeOfFiled
<1>2. own \in [ids -> K] /\ \A k \in K : \E i \in ids : own[i] = k
  OBVIOUS
<1>3. ASSUME NEW k \in K PROVE g[k] = Cardinality(Under(ids, own, {k}))
  <2>1. {i \in ids : filed[i].status = k} = Under(ids, own, {k})
    BY DEF Under
  <2> QED BY <2>1
<1>4. Summary(ids).total = it[K]
  BY DEF Summary, MapThenSumSet, MapThenFoldSet
<1>5. Grouped(g, ids, own, K)
  BY <1>3 DEF Grouped
<1>6. ASSUME NEW h PROVE h = Body(h) <=> Folds(g, h, K)
  <2>1. ASSUME NEW s \in SUBSET K, s # {}
        PROVE  Count(CHOOSE x \in s : TRUE) = g[CHOOSE x \in s : TRUE]
    <3>1. (CHOOSE x \in s : TRUE) \in K
      BY <2>1
    <3> HIDE DEF Count, K
    <3> QED BY <3>1
  <2> HIDE DEF Count
  <2> DEFINE Mine(s) == IF s = {} THEN 0
                        ELSE LET x == CHOOSE x \in s : TRUE IN Count(x) + h[s \ {x}]
             Its(s) == IF s = {} THEN 0
                       ELSE LET x == CHOOSE x \in s : TRUE IN g[x] + h[s \ {x}]
  <2>2. \A s \in SUBSET K : Mine(s) = Its(s)
    <3> HIDE DEF g
    <3> QED BY <2>1
  <2>3. Body(h) = [s \in SUBSET K |-> Mine(s)]
    OBVIOUS
  <2>4. Folds(g, h, K) <=> h = [s \in SUBSET K |-> Its(s)]
    BY DEF Folds
  <2> HIDE DEF Mine, Its, Body
  <2> QED BY <2>2, <2>3, <2>4
<1> HIDE DEF own, Body, g, K
<1>7. IsFiniteSet(K)
  BY <1>1, <1>2, GroupsAreFinite
<1>8. \E h : h = Body(h)
  BY <1>1, <1>2, <1>5, <1>6, GroupsFold
<1>9. it = Body(it)
  BY <1>8
<1> HIDE DEF it
<1>10. it[K] = Cardinality(ids)
  BY <1>1, <1>2, <1>5, <1>6, <1>7, <1>9, FoldCounts
<1> QED BY <1>4, <1>10

\* A chart cut short keeps a bar that no other passes.
LEMMA HighestIsShown ==
  ASSUME ReportsTypeOK, NEW ids \in SUBSET DOMAIN filed, NEW by, by # "month",
         NEW size \in Nat \ {0}, NEW shown \in BarsShown(ids, by, size)
  PROVE  /\ shown \subseteq Labels(ids, by)
         /\ TopValue(ids, by, shown) = TopValue(ids, by, Labels(ids, by))
         /\ shown # {} => \E l \in shown : \A m \in Labels(ids, by) : Bar(ids, by, l) >= Bar(ids, by, m)
<1> DEFINE labels == Labels(ids, by)
           bar == [l \in labels |-> Bar(ids, by, l)]
           label == [i \in ids |-> Label(filed[i], by)]
           few == IF size < Cardinality(labels) THEN size ELSE Cardinality(labels)
           some == {0} \cup {bar[l] : l \in shown}
           all == {0} \cup {bar[l] : l \in labels}
           n == Cardinality(ids)
<1>1. /\ shown \in SUBSET labels /\ Cardinality(shown) = few
      /\ \A l \in shown, m \in labels \ shown : bar[l] >= bar[m]
  BY DEF BarsShown, kSubset
<1>2. IsFiniteSet(ids) /\ n \in Nat
  BY SomeOfFiled
<1>3. IsFiniteSet(labels)
  <2>1. label \in [ids -> labels] /\ \A l \in labels : \E i \in ids : label[i] = l
    BY DEF Labels
  <2> HIDE DEF label, labels
  <2> QED BY <1>2, <2>1, GroupsAreFinite
<1>4. \A l \in labels : bar[l] \in Nat /\ bar[l] <= n
  <2> TAKE l \in labels
  <2>1. {i \in ids : Label(filed[i], by) = l} \in SUBSET ids
    OBVIOUS
  <2>2. bar[l] = Cardinality({i \in ids : Label(filed[i], by) = l})
    BY DEF Bar
  <2> QED BY <1>2, <2>1, <2>2, FewerRows
<1>5. labels # {} => shown # {}
  <2>1. SUFFICES ASSUME shown = {}, labels # {} PROVE FALSE
    OBVIOUS
  <2>2. Cardinality(labels) \in Nat /\ Cardinality(labels) # 0 /\ Cardinality({}) = 0
    BY <1>3, <2>1, FS_EmptySet, FS_CardinalityType
  <2> QED BY <1>1, <2>1, <2>2
<1>6. /\ TopValue(ids, by, shown) = Max(some) /\ TopValue(ids, by, labels) = Max(all)
      /\ \A l \in labels : Bar(ids, by, l) = bar[l]
  <2>1. \A l \in labels : Bar(ids, by, l) = bar[l]
    OBVIOUS
  <2>2. /\ {Bar(ids, by, l) : l \in shown} = {bar[l] : l \in shown}
        /\ {Bar(ids, by, l) : l \in labels} = {bar[l] : l \in labels}
    BY <1>1, <2>1
  <2> HIDE DEF bar
  <2> QED BY <2>1, <2>2 DEF TopValue
<1> HIDE DEF labels, bar, label, few, n
<1>7. /\ some \subseteq all /\ all \in SUBSET Int /\ some \in SUBSET Int
      /\ 0 \in some /\ \A x \in all : x <= n
  BY <1>1, <1>2, <1>4
<1>8. /\ Max(some) \in some /\ \A x \in some : x <= Max(some)
      /\ Max(all) \in all /\ \A x \in all : x <= Max(all)
  <2> HIDE DEF some, all
  <2>1. n \in Int /\ some # {} /\ all # {} /\ \A x \in some : x <= n
    BY <1>2, <1>7
  <2> QED BY <1>7, <2>1, HighestIsThere
<1>9. \A m \in labels : bar[m] <= Max(some)
  <2> TAKE m \in labels
  <2>1. CASE m \in shown
    BY <1>8, <2>1
  <2>2. CASE m \notin shown
    <3>1. PICK l \in shown : TRUE
      BY <1>5
    <3>2. bar[l] >= bar[m] /\ bar[l] <= Max(some) /\ bar[l] \in Int /\ bar[m] \in Int
      BY <1>1, <1>4, <1>8, <2>2, <3>1
    <3>3. Max(some) \in Int
      BY <1>7, <1>8
    <3> HIDE DEF some
    <3> QED BY <3>2, <3>3
  <2> QED BY <2>1, <2>2
<1>10. Max(some) = Max(all)
  <2>1. /\ Max(some) \in Int /\ Max(all) \in Int /\ Max(some) <= Max(all)
        /\ 0 <= Max(some)
    BY <1>7, <1>8
  <2>2. Max(all) <= Max(some)
    BY <1>8, <1>9, <2>1
  <2> HIDE DEF some, all
  <2> QED BY <2>1, <2>2
<1>11. shown # {} => \E l \in shown : \A m \in labels : bar[l] >= bar[m]
  <2> SUFFICES ASSUME shown # {} PROVE \E l \in shown : \A m \in labels : bar[l] >= bar[m]
    OBVIOUS
  <2>1. PICK l0 \in shown : TRUE
    OBVIOUS
  <2>2. PICK l \in shown : bar[l] = Max(some) \/ (Max(some) = 0 /\ l = l0)
    BY <1>8, <2>1
  <2>3. bar[l] \in Nat /\ bar[l] <= Max(some) /\ Max(some) \in Int
    BY <1>1, <1>4, <1>7, <1>8
  <2>4. bar[l] = Max(some)
    <3> HIDE DEF some
    <3> QED BY <2>2, <2>3
  <2> HIDE DEF some
  <2> QED BY <1>4, <1>9, <2>3, <2>4
<1> QED BY <1>1, <1>6, <1>10, <1>11 DEF labels

\* Charts and summary count the rows of the report.
LEMMA ChartsCountReports ==
  ASSUME ReportsTypeOK PROVE ChartsCountTheReport
<1> SUFFICES ASSUME NEW viewer \in Viewers, NEW f \in Criteria
             PROVE  LET ids == Range(ReportRows(viewer, f))
                        sum == Summary(ids)
                    IN /\ sum.total = Preview(viewer, f, 1, 1).total
                       /\ viewer = Manager /\ f.status = Every => sum.pending = Len(PendingRequests(f))
                       /\ \A by \in Groupings :
                            LET whole == Labels(ids, by) IN
                            /\ ChartTotal(ids, by, whole) = sum.total
                            /\ \A shown \in UNION {BarsShown(ids, by, n) : n \in PageSizes} :
                                 /\ ChartTotal(ids, by, shown) <= sum.total
                                 /\ by # "month" => TopValue(ids, by, shown) = TopValue(ids, by, whole)
                                 /\ by = "status" /\ "approved" \in shown =>
                                      Bar(ids, by, "approved") = sum.approved
                                 /\ by = "worker" /\ shown # {} => shown \cap sum.workers # {}
                                 /\ by = "type" /\ shown # {} => shown \cap sum.types # {}
  BY DEF ChartsCountTheReport
<1> DEFINE ids == ReportIds(viewer, f)
           rows == ReportRows(viewer, f)
           sum == Summary(ids)
<1>1. /\ Range(rows) = ids /\ ids \in SUBSET DOMAIN filed /\ Len(rows) = Cardinality(ids)
  BY ReportHasEach
<1>2. sum.total = Cardinality(ids)
  <2> HIDE DEF ids
  <2> QED BY <1>1, SummaryCounts
<1>3. sum.total = Preview(viewer, f, 1, 1).total
  BY <1>1, <1>2 DEF Preview
<1>4. IsFiniteSet(ids) /\ ids \subseteq Int
  <2> HIDE DEF ids
  <2> QED BY <1>1, SomeOfFiled
<1>5. ASSUME viewer = Manager, f.status = Every PROVE sum.pending = Len(PendingRequests(f))
  <2> DEFINE pending == {i \in ids : filed[i].status = "pending"}
  <2>1. f = [worker |-> f.worker, status |-> f.status, type |-> f.type,
             zone |-> f.zone, from |-> f.from, to |-> f.to]
    BY CriteriaAssumption
  <2>2. [f EXCEPT !.status = Every] = f
    BY <1>5, <2>1
  <2>3. ids = {i \in DOMAIN filed : Passes(filed[i], f)}
    BY <1>5, RequestReportsAssumption DEF ReportIds, Enforced
  <2>4. pending = {i \in DOMAIN filed : /\ Passes(filed[i], [f EXCEPT !.status = Every])
                                        /\ {"pending"} # {} => filed[i].status \in {"pending"}}
    BY <2>2, <2>3
  <2>5. PendingRequests(f) = NewestFirst(pending)
    BY <2>4 DEF PendingRequests, Listed
  <2>6. sum.pending = Cardinality(pending)
    BY DEF Summary
  <2>7. pending \in SUBSET ids
    OBVIOUS
  <2> HIDE DEF pending, ids, sum
  <2>8. pending \in SUBSET Int /\ IsFiniteSet(pending)
    BY <1>4, <2>7, FS_Subset
  <2>9. Len(NewestFirst(pending)) = Cardinality(pending)
    BY <2>8, NewestListsAll
  <2> QED BY <2>5, <2>6, <2>9
<1>6. /\ sum.approved = Cardinality({i \in ids : filed[i].status = "approved"})
      /\ sum.types = {l \in Labels(ids, "type") :
                        \A m \in Labels(ids, "type") : Bar(ids, "type", l) >= Bar(ids, "type", m)}
      /\ sum.workers = {l \in Labels(ids, "worker") :
                          \A m \in Labels(ids, "worker") : Bar(ids, "worker", l) >= Bar(ids, "worker", m)}
  BY DEF Summary
<1> HIDE DEF ids, rows, sum
<1>7. ASSUME NEW by \in Groupings
      PROVE  ChartTotal(ids, by, Labels(ids, by)) = sum.total
  <2>1. {i \in ids : Label(filed[i], by) \in Labels(ids, by)} = ids
    BY DEF Labels
  <2>2. Labels(ids, by) \in SUBSET Labels(ids, by)
    OBVIOUS
  <2>3. ChartTotal(ids, by, Labels(ids, by)) = Cardinality({i \in ids : Label(filed[i], by) \in Labels(ids, by)})
    BY <1>1, <2>2, ChartCounts
  <2> QED BY <1>2, <2>1, <2>3
<1>8. ASSUME NEW by \in Groupings, NEW size \in PageSizes, NEW shown \in BarsShown(ids, by, size)
      PROVE  /\ ChartTotal(ids, by, shown) <= sum.total
             /\ by # "month" => TopValue(ids, by, shown) = TopValue(ids, by, Labels(ids, by))
             /\ by = "status" /\ "approved" \in shown => Bar(ids, by, "approved") = sum.approved
             /\ by = "worker" /\ shown # {} => shown \cap sum.workers # {}
             /\ by = "type" /\ shown # {} => shown \cap sum.types # {}
  <2>1. ChartTotal(ids, by, shown) <= sum.total
    <3> DEFINE R == {i \in ids : Label(filed[i], by) \in shown}
    <3>1. shown \in SUBSET Labels(ids, by)
      BY DEF BarsShown, kSubset
    <3>2. ChartTotal(ids, by, shown) = Cardinality(R)
      BY <1>1, <3>1, ChartCounts
    <3>3. R \in SUBSET ids
      OBVIOUS
    <3> HIDE DEF R
    <3>4. Cardinality(R) <= Cardinality(ids)
      BY <1>4, <3>3, FS_Subset
    <3> QED BY <1>2, <3>2, <3>4
  <2>2. size \in Nat \ {0}
    BY RequestReportsAssumption
  <2>3. ASSUME by # "month"
        PROVE  /\ shown \subseteq Labels(ids, by)
               /\ TopValue(ids, by, shown) = TopValue(ids, by, Labels(ids, by))
               /\ shown # {} =>
                    \E l \in shown : \A m \in Labels(ids, by) : Bar(ids, by, l) >= Bar(ids, by, m)
    BY <1>1, <2>2, <2>3, HighestIsShown
  <2>4. ASSUME by = "status" PROVE Bar(ids, by, "approved") = sum.approved
    <3>1. \A i : Label(filed[i], by) = filed[i].status
      BY <2>4 DEF Label
    <3> QED BY <1>6, <3>1 DEF Bar
  <2>5. ASSUME by = "worker", shown # {} PROVE shown \cap sum.workers # {}
    BY <1>6, <2>3, <2>5
  <2>6. ASSUME by = "type", shown # {} PROVE shown \cap sum.types # {}
    BY <1>6, <2>3, <2>6
  <2> QED BY <2>1, <2>3, <2>4, <2>5, <2>6
<1>9. \A by \in Groupings : \A shown \in UNION {BarsShown(ids, by, n) : n \in PageSizes} :
        /\ ChartTotal(ids, by, shown) <= sum.total
        /\ by # "month" => TopValue(ids, by, shown) = TopValue(ids, by, Labels(ids, by))
        /\ by = "status" /\ "approved" \in shown => Bar(ids, by, "approved") = sum.approved
        /\ by = "worker" /\ shown # {} => shown \cap sum.workers # {}
        /\ by = "type" /\ shown # {} => shown \cap sum.types # {}
  BY <1>8
<1> QED BY <1>1, <1>3, <1>5, <1>7, <1>9 DEF rows, sum


-------------------------------------------------------------------------------
(* What is opened from the analytics *)

\* A ranking without a limit lists each member once, in the order of the keys.
LEMMA RankSorts ==
  ASSUME NEW keys, IsFiniteSet(DOMAIN keys), Orders(KeyOrder(keys), DOMAIN keys),
         NEW limit \in Nat, Cardinality(DOMAIN keys) <= limit
  PROVE  LET K == DOMAIN keys
             seq == Rank(keys, limit)
         IN  /\ seq \in Seq(K) /\ Len(seq) = Cardinality(K) /\ ToSet(seq) = K
             /\ Cardinality(K) \in Nat
             /\ \A i, j \in 1 .. Cardinality(K) : i < j => Before(keys[seq[i]], keys[seq[j]])
<1> DEFINE K == DOMAIN keys
           R == KeyOrder(keys)
           size == Cardinality(K)
           few == IF limit < size THEN limit ELSE size
           Chosen(n) == CHOOSE k \in K : PlaceIn(R, K, k) = n
           seq == Rank(keys, limit)
<1>1. few = size /\ size \in Nat
  BY FS_CardinalityType
<1>2. seq = [n \in 1 .. few |-> Chosen(n)]
  BY RankPlaces
<1>3. /\ \A n \in 1 .. few : seq[n] \in K /\ PlaceIn(R, K, seq[n]) = n
      /\ ToSet(seq) = K
  BY RankLists
<1>4. \A k, l \in K : <<l, k>> \in R => Before(keys[l], keys[k])
  BY InKeyOrder
<1>5. /\ \A k, l \in K : <<k, l>> \in R => PlaceIn(R, K, k) < PlaceIn(R, K, l)
      /\ \A k, l \in K : k # l => (<<k, l>> \in R \/ <<l, k>> \in R)
  BY LaterPlaces DEF Orders
<1> HIDE DEF K, R, size, few, Chosen, seq
<1>6. seq \in Seq(K) /\ Len(seq) = size
  BY <1>1, <1>2, <1>3
<1>7. ASSUME NEW i \in 1 .. size, NEW j \in 1 .. size, i < j
      PROVE  Before(keys[seq[i]], keys[seq[j]])
  <2>1. /\ seq[i] \in K /\ seq[j] \in K
        /\ PlaceIn(R, K, seq[i]) = i /\ PlaceIn(R, K, seq[j]) = j
    BY <1>1, <1>3
  <2>2. seq[i] # seq[j]
    BY <1>7, <2>1
  <2>3. <<seq[j], seq[i]>> \notin R
    <3>1. SUFFICES ASSUME <<seq[j], seq[i]>> \in R PROVE FALSE
      OBVIOUS
    <3>2. j < i
      BY <1>5, <2>1, <3>1
    <3> QED BY <1>1, <1>7, <3>2
  <2> QED BY <1>4, <1>5, <2>1, <2>2, <2>3
<1> QED BY <1>1, <1>3, <1>6, <1>7 DEF K, size, seq

LEMMA SinglesBefore ==
  ASSUME NEW a \in Int, NEW b \in Int
  PROVE  Before(<<a>>, <<b>>) <=> a > b
<1> DEFINE x == <<a>>
           y == <<b>>
<1>1. DOMAIN x = {1} /\ x[1] = a /\ y[1] = b /\ 1 .. 1 - 1 = {}
  OBVIOUS
<1> HIDE DEF x, y
<1>2. Before(x, y) <=> x[1] > y[1]
  BY <1>1 DEF Before
<1> QED BY <1>1, <1>2 DEF x, y

LEMMA PairsBefore ==
  ASSUME NEW a1 \in Int, NEW a2 \in Int, NEW b1 \in Int, NEW b2 \in Int
  PROVE  Before(<<a1, a2>>, <<b1, b2>>) <=> a1 > b1 \/ (a1 = b1 /\ a2 > b2)
<1> DEFINE a == <<a1, a2>>
           b == <<b1, b2>>
<1>1. DOMAIN a = {1, 2} /\ a[1] = a1 /\ a[2] = a2 /\ b[1] = b1 /\ b[2] = b2
  OBVIOUS
<1>2. 1 .. 1 - 1 = {} /\ 1 .. 2 - 1 = {1}
  OBVIOUS
<1> HIDE DEF a, b
<1>3. Before(a, b) <=> a[1] > b[1] \/ (a[2] > b[2] /\ a[1] = b[1])
  BY <1>1, <1>2 DEF Before
<1> QED BY <1>1, <1>3 DEF a, b

\* Rows by a number no other has, from the lowest
LEMMA LowestFirst ==
  ASSUME NEW D, NEW value \in [D -> Int], \A k, l \in D : value[k] = value[l] => k = l
  PROVE  LET keys == [k \in D |-> <<-value[k]>>]
         IN  /\ Orders(KeyOrder(keys), D)
             /\ \A k, l \in D : Before(keys[k], keys[l]) <=> value[k] < value[l]
<1> DEFINE keys == [k \in D |-> <<-value[k]>>]
<1>1. ASSUME NEW k \in D, NEW l \in D PROVE Before(keys[k], keys[l]) <=> value[k] < value[l]
  <2> DEFINE a == -value[k]
             b == -value[l]
  <2>1. a \in Int /\ b \in Int /\ (a > b <=> value[k] < value[l])
    OBVIOUS
  <2>2. keys[k] = <<a>> /\ keys[l] = <<b>>
    OBVIOUS
  <2> HIDE DEF a, b, keys
  <2> QED BY <2>1, <2>2, SinglesBefore
<1>2. DOMAIN keys = D
  OBVIOUS
<1> HIDE DEF keys
<1>3. \A k, l \in D : <<k, l>> \in KeyOrder(keys) <=> value[k] < value[l]
  BY <1>1, <1>2, InKeyOrder
<1>4. \A k \in D : value[k] \in Int
  OBVIOUS
<1>5. Orders(KeyOrder(keys), D)
  BY <1>3, <1>4 DEF Orders
<1> QED BY <1>1, <1>5 DEF keys

\* Numbers by a value, from the highest, then from the first
LEMMA HighestFirst ==
  ASSUME NEW D \in SUBSET Int, NEW value \in [D -> Int]
  PROVE  LET keys == [k \in D |-> <<value[k], -k>>]
         IN  /\ Orders(KeyOrder(keys), D)
             /\ \A k, l \in D : Before(keys[k], keys[l])
                                  <=> value[k] > value[l] \/ (value[k] = value[l] /\ k < l)
<1> DEFINE keys == [k \in D |-> <<value[k], -k>>]
<1>1. ASSUME NEW k \in D, NEW l \in D
      PROVE  Before(keys[k], keys[l]) <=> value[k] > value[l] \/ (value[k] = value[l] /\ k < l)
  <2> DEFINE a == -k
             b == -l
  <2>1. a \in Int /\ b \in Int /\ (a > b <=> k < l) /\ value[k] \in Int /\ value[l] \in Int
    OBVIOUS
  <2>2. keys[k] = <<value[k], a>> /\ keys[l] = <<value[l], b>>
    OBVIOUS
  <2> HIDE DEF a, b, keys
  <2> QED BY <2>1, <2>2, PairsBefore
<1>2. DOMAIN keys = D
  OBVIOUS
<1> HIDE DEF keys
<1>3. \A k, l \in D : <<k, l>> \in KeyOrder(keys) <=> value[k] > value[l] \/ (value[k] = value[l] /\ k < l)
  BY <1>1, <1>2, InKeyOrder
<1>4. \A k \in D : value[k] \in Int /\ k \in Int
  OBVIOUS
<1>5. Orders(KeyOrder(keys), D)
  BY <1>3, <1>4 DEF Orders
<1> QED BY <1>1, <1>5 DEF keys

\* The same with a second value between
LEMMA HighestOfTwoFirst ==
  ASSUME NEW D \in SUBSET Int, NEW value \in [D -> Int], NEW next \in [D -> Int]
  PROVE  LET keys == [k \in D |-> <<value[k], next[k], -k>>]
         IN  /\ Orders(KeyOrder(keys), D)
             /\ \A k, l \in D : value[k] > value[l] => Before(keys[k], keys[l])
<1> DEFINE keys == [k \in D |-> <<value[k], next[k], -k>>]
<1>1. ASSUME NEW k \in D, NEW l \in D
      PROVE  Before(keys[k], keys[l]) <=> \/ value[k] > value[l]
                                          \/ (value[k] = value[l] /\ next[k] > next[l])
                                          \/ (value[k] = value[l] /\ next[k] = next[l] /\ k < l)
  <2> DEFINE a == -k
             b == -l
  <2>1. /\ a \in Int /\ b \in Int /\ (a > b <=> k < l) /\ value[k] \in Int /\ value[l] \in Int
        /\ next[k] \in Int /\ next[l] \in Int
    OBVIOUS
  <2>2. keys[k] = <<value[k], next[k], a>> /\ keys[l] = <<value[l], next[l], b>>
    OBVIOUS
  <2> HIDE DEF a, b, keys
  <2> QED BY <2>1, <2>2, TriplesBefore
<1>2. DOMAIN keys = D
  OBVIOUS
<1> HIDE DEF keys
<1>3. \A k, l \in D : <<k, l>> \in KeyOrder(keys) <=> \/ value[k] > value[l]
                                                     \/ (value[k] = value[l] /\ next[k] > next[l])
                                                     \/ (value[k] = value[l] /\ next[k] = next[l] /\ k < l)
  BY <1>1, <1>2, InKeyOrder
<1>4. \A k \in D : value[k] \in Int /\ next[k] \in Int /\ k \in Int
  OBVIOUS
<1>5. Orders(KeyOrder(keys), D)
  BY <1>3, <1>4 DEF Orders
<1> QED BY <1>1, <1>5 DEF keys

\* The calendar of rows of different days
LEMMA CalendarSorts ==
  ASSUME NEW rows, IsFiniteSet(rows), \A r \in rows : r.date \in Int,
         \A r, s \in rows : r.date = s.date => r = s
  PROVE  LET file == Rank([r \in rows |-> <<-r.date>>], Cardinality(rows))
         IN  /\ file \in Seq(rows) /\ Len(file) = Cardinality(rows) /\ Len(file) \in Nat
             /\ ToSet(file) = rows
             /\ \A i, j \in 1 .. Len(file) : i < j => file[i].date < file[j].date
<1> DEFINE value == [r \in rows |-> r.date]
           keys == [r \in rows |-> <<-value[r]>>]
           size == Cardinality(rows)
           file == Rank(keys, size)
<1>1. /\ value \in [rows -> Int] /\ \A r, s \in rows : value[r] = value[s] => r = s
      /\ \A r \in rows : value[r] = r.date
      /\ keys = [r \in rows |-> <<-r.date>>]
  OBVIOUS
<1> HIDE DEF value
<1>2. /\ Orders(KeyOrder(keys), rows)
      /\ \A k, l \in rows : Before(keys[k], keys[l]) => value[k] < value[l]
  BY <1>1, LowestFirst
<1>3. DOMAIN keys = rows
  OBVIOUS
<1>4. size \in Nat
  BY FS_CardinalityType
<1> HIDE DEF keys, size
<1>5. /\ file \in Seq(rows) /\ Len(file) = size /\ ToSet(file) = rows
      /\ \A i, j \in 1 .. size : i < j => Before(keys[file[i]], keys[file[j]])
  BY <1>2, <1>3, <1>4, RankSorts DEF size
<1> HIDE DEF file
<1>6. ASSUME NEW i \in 1 .. size, NEW j \in 1 .. size, i < j PROVE file[i].date < file[j].date
  <2>1. file[i] \in rows /\ file[j] \in rows
    BY <1>5
  <2>2. value[file[i]] < value[file[j]]
    BY <1>2, <1>5, <1>6, <2>1
  <2> QED BY <1>1, <2>1, <2>2
<1>7. Rank([r \in rows |-> <<-r.date>>], Cardinality(rows)) = file
  BY <1>1 DEF file, size
<1> QED BY <1>4, <1>5, <1>6, <1>7 DEF size

\* The rows of a period: one of each worker and day, with the area of the worker.
LEMMA PeriodRows ==
  ASSUME AnalyticsTypeOK, NEW from \in Calendar, NEW to \in from .. LastCounted
  PROVE  LET rows == Dataset(from, to, NoFilter)
         IN  /\ RowsFrom(rows, from, to)
             /\ \A r \in rows : /\ r.worker \in People /\ r.area = area[r.worker]
                                /\ r.area \in Units \cup {Nothing}
             /\ \A r, s \in rows : (r.worker = s.worker /\ r.date = s.date) => r = s
<1> DEFINE rows == Dataset(from, to, NoFilter)
<1>1. RowsFrom(rows, from, to)
  BY DatasetIsFinite
<1>2. \A w, d : RowOf(w, d).worker = w /\ RowOf(w, d).area = area[w] /\ RowOf(w, d).date = d
  BY DEF RowOf
<1>3. \A r \in rows : \E w \in People : \E d \in CountedDays(w, from, to) : r = RowOf(w, d)
  <2>1. NoFilter.statuses = {}
    BY DEF NoFilter
  <2> QED BY <2>1, DatasetRows
<1>4. \A w \in People : area[w] \in Units \cup {Nothing}
  BY DEF AnalyticsTypeOK
<1> HIDE DEF rows
<1>5. ASSUME NEW r \in rows
      PROVE  r.worker \in People /\ r.area = area[r.worker] /\ r = RowOf(r.worker, r.date)
  <2>1. PICK w \in People : \E d \in CountedDays(w, from, to) : r = RowOf(w, d)
    BY <1>3
  <2>2. PICK d \in CountedDays(w, from, to) : r = RowOf(w, d)
    BY <2>1
  <2>3. r.worker = w /\ r.area = area[w] /\ r.date = d
    BY <1>2, <2>2
  <2> QED BY <2>2, <2>3
<1>6. ASSUME NEW r \in rows, NEW s \in rows, r.worker = s.worker, r.date = s.date
      PROVE  r = s
  <2>1. r = RowOf(r.worker, r.date) /\ s = RowOf(s.worker, s.date)
    BY <1>5
  <2> QED BY <1>6, <2>1
<1> QED BY <1>1, <1>4, <1>5, <1>6 DEF rows

\* Of those a filter selects, the rows with one of its statuses
LEMMA DatasetFiltered ==
  ASSUME NEW from, NEW to, NEW F, NEW G, G.statuses = {},
         \A w \in People : Selected(w, from, to, F) <=> Selected(w, from, to, G)
  PROVE  \A r : r \in Dataset(from, to, F)
                <=> r \in Dataset(from, to, G) /\ (F.statuses = {} \/ r.day.status \in F.statuses)
<1> DEFINE Its(w) == {[worker |-> w, date |-> d, area |-> area[w], place |-> PlaceOn(w, d),
                       crew |-> CrewOn(w, d), day |-> days[w][d]] : d \in CountedDays(w, from, to)}
           All(H) == UNION {Its(w) : w \in {w \in People : Selected(w, from, to, H)}}
<1>1. \A H : Dataset(from, to, H) = {r \in All(H) : H.statuses = {} \/ r.day.status \in H.statuses}
  BY DEF Dataset
<1>2. {w \in People : Selected(w, from, to, F)} = {w \in People : Selected(w, from, to, G)}
  OBVIOUS
<1>3. All(F) = All(G)
  BY <1>2
<1> HIDE DEF All
<1>4. Dataset(from, to, G) = All(G)
  BY <1>1
<1> QED BY <1>1, <1>3, <1>4

\* What is opened of a worker or of an area is its group in the chart.
LEMMA DetailsAre ==
  ASSUME AnalyticsTypeOK, NEW from \in Calendar, NEW to \in from .. LastCounted
  PROVE  LET rows == Dataset(from, to, NoFilter)
         IN  /\ \A w \in People : Detail("worker", w, from, to) = Group(rows, "worker", w)
             /\ \A u \in Units : Detail("area", u, from, to) = Group(rows, "area", u)
<1> DEFINE rows == Dataset(from, to, NoFilter)
<1>1. People \subseteq Nat \ {0}
  BY AnalyticsAssumption
<1>2. \A w, d : RowOf(w, d).worker = w /\ RowOf(w, d)["worker"] = w
  BY DEF RowOf
<1>3. /\ \A r \in rows : \E w \in People : \E d \in CountedDays(w, from, to) : r = RowOf(w, d)
      /\ \A w \in People : \A d \in CountedDays(w, from, to) : RowOf(w, d) \in rows
  <2>1. NoFilter.statuses = {} /\ \A w : Selected(w, from, to, NoFilter)
    <3>1. 1 \in Nat \ {0}
      OBVIOUS
    <3> QED BY <3>1, DetailFilters
  <2> QED BY <2>1, DatasetRows
<1> HIDE DEF rows
<1>4. ASSUME NEW w \in People
      PROVE  Detail("worker", w, from, to) = Group(rows, "worker", w)
  <2> DEFINE its == Detail("worker", w, from, to)
             F == [NoFilter EXCEPT !["worker"] = w]
  <2>1. w \in Nat \ {0}
    BY <1>1
  <2>2. /\ \A r \in its : \E v \in People : \E d \in CountedDays(v, from, to) : v = w /\ r = RowOf(v, d)
        /\ \A v \in People : \A d \in CountedDays(v, from, to) : v = w => RowOf(v, d) \in its
    <3>1. F.statuses = {} /\ \A v : Selected(v, from, to, F) <=> v = w
      BY <2>1, DetailFilters
    <3>2. its = Dataset(from, to, F)
      BY DEF Detail
    <3> HIDE DEF its, F
    <3> QED BY <3>1, <3>2, DatasetRows
  <2> HIDE DEF its
  <2>3. its = {r \in rows : r["worker"] = w}
    BY <1>2, <1>3, <2>2
  <2> QED BY <2>3 DEF its, Group
<1>5. \A u \in Units : Detail("area", u, from, to) = Group(rows, "area", u)
  BY DetailsMatch DEF DetailsMatchCharts, RowsOfPeriod, rows
<1> QED BY <1>4, <1>5 DEF rows

\* Of those, the days of the statuses asked for
LEMMA WorkerFiltered ==
  ASSUME AnalyticsTypeOK, NEW from \in Calendar, NEW to \in from .. LastCounted, NEW w \in People, NEW S
  PROVE  \A r : r \in Dataset(from, to, [NoFilter EXCEPT !.worker = w, !.statuses = S])
                <=> /\ r \in Group(Dataset(from, to, NoFilter), "worker", w)
                    /\ S = {} \/ r.day.status \in S
<1> DEFINE F == [NoFilter EXCEPT !.worker = w, !.statuses = S]
           G == [NoFilter EXCEPT !["worker"] = w]
           own == Group(Dataset(from, to, NoFilter), "worker", w)
<1>1. F.statuses = S /\ G.statuses = {}
  BY DEF NoFilter
<1>2. F.worker = G.worker /\ F.area = G.area /\ F.place = G.place /\ F.crew = G.crew
  BY DEF NoFilter
<1>3. Dataset(from, to, G) = own
  <2>1. Detail("worker", w, from, to) = own
    BY DetailsAre
  <2> QED BY <2>1 DEF Detail
<1> HIDE DEF F, G, own
<1>4. \A v \in People : Selected(v, from, to, F) <=> Selected(v, from, to, G)
  BY <1>2 DEF Selected
<1>5. \A r : r \in Dataset(from, to, F)
             <=> r \in Dataset(from, to, G) /\ (F.statuses = {} \/ r.day.status \in F.statuses)
  BY <1>1, <1>4, DatasetFiltered
<1> QED BY <1>1, <1>3, <1>5 DEF F, own

\* Rows of a period are each of a worker and a day.
RowsOfPeople(rows, from, to) ==
  /\ RowsFrom(rows, from, to) /\ from \in Int /\ to \in Int
  /\ \A r \in rows : r.worker \in People
  /\ \A r, s \in rows : (r.worker = s.worker /\ r.date = s.date) => r = s

LEMMA PeriodIsOfPeople ==
  ASSUME AnalyticsTypeOK, NEW from \in Calendar, NEW to \in from .. LastCounted
  PROVE  RowsOfPeople(Dataset(from, to, NoFilter), from, to)
<1>1. from \in Int /\ to \in Int
  BY AnalyticsAssumption DEF Calendar
<1> DEFINE rows == Dataset(from, to, NoFilter)
<1>2. /\ RowsFrom(rows, from, to)
      /\ \A r \in rows : r.worker \in People
      /\ \A r, s \in rows : (r.worker = s.worker /\ r.date = s.date) => r = s
  BY PeriodRows
<1> HIDE DEF rows
<1> QED BY <1>1, <1>2 DEF RowsOfPeople, rows

\* Counts that are of the groups of some rows sum to the rows.
LEMMA DistributionSums ==
  ASSUME NEW D, NEW K, K = DOMAIN D, IsFiniteSet(K), NEW R, IsFiniteSet(R), NEW key \in [R -> K],
         Grouped(D, R, key, K)
  PROVE  InAll(D) = Cardinality(R)
<1> DEFINE Body(h) ==
             [s \in SUBSET K |-> IF s = {} THEN 0
                ELSE LET x == CHOOSE x \in s : TRUE IN D[x] + h[s \ {x}]]
           it == CHOOSE h : h = Body(h)
<1>1. InAll(D) = it[K]
  BY DEF InAll, MapThenSumSet, MapThenFoldSet
<1>2. \A h : h = Body(h) <=> Folds(D, h, K)
  BY DEF Folds
<1> HIDE DEF Body
<1>3. \E h : h = Body(h)
  BY <1>2, GroupsFold
<1>4. it = Body(it)
  BY <1>3
<1> HIDE DEF it
<1>5. it[K] = Cardinality(R)
  BY <1>2, <1>4, FoldCounts
<1> QED BY <1>1, <1>5

\* Rows with a mark are as many.
LEMMA MarkedRows ==
  ASSUME NEW S, IsFiniteSet(S), NEW c
  PROVE  IsFiniteSet(S \X {c}) /\ Cardinality(S \X {c}) = Cardinality(S)
<1>1. IsFiniteSet({c}) /\ Cardinality({c}) = 1
  BY FS_Singleton
<1>2. IsFiniteSet(S \X {c}) /\ Cardinality(S \X {c}) = Cardinality(S) * Cardinality({c})
  BY <1>1, FS_Product
<1>3. Cardinality(S) \in Nat
  BY FS_CardinalityType
<1> QED BY <1>1, <1>2, <1>3

\* Whoever did not come has a status of its own; whoever came is late, present or open.
LEMMA KindsFall ==
  ASSUME NEW k \in PossibleKinds
  PROVE  /\ ~k.attended => k.status \in {"vacation", "medical_leave", "unpaid_leave", "holiday",
                                        "rest_day", "no_schedule", "pending", "absent"}
         /\ k.attended => k.status \in {"incomplete", "late", "present"}
<1> DEFINE Kind(status, required, attended, late, completed) ==
             [status |-> status, required |-> required, attended |-> attended,
              late |-> late, completed |-> completed]
<1>1. \/ \E status \in {"vacation", "medical_leave", "unpaid_leave", "holiday", "rest_day",
                       "no_schedule", "pending"} :
           k = Kind(status, FALSE, FALSE, FALSE, FALSE)
      \/ \E status \in {"absent", "pending"} : k = Kind(status, TRUE, FALSE, FALSE, FALSE)
      \/ \E late \in BOOLEAN : k = Kind("incomplete", TRUE, TRUE, late, FALSE)
      \/ k = Kind("late", TRUE, TRUE, TRUE, TRUE)
      \/ k = Kind("present", TRUE, TRUE, FALSE, TRUE)
  BY DEF PossibleKinds
<1>2. ASSUME NEW status \in {"vacation", "medical_leave", "unpaid_leave", "holiday", "rest_day",
                            "no_schedule", "pending"},
             k = Kind(status, FALSE, FALSE, FALSE, FALSE)
      PROVE  k.attended = FALSE /\ k.status = status
  BY <1>2
<1>3. ASSUME NEW status \in {"absent", "pending"}, k = Kind(status, TRUE, FALSE, FALSE, FALSE)
      PROVE  k.attended = FALSE /\ k.status = status
  BY <1>3
<1>4. ASSUME NEW late \in BOOLEAN, k = Kind("incomplete", TRUE, TRUE, late, FALSE)
      PROVE  k.attended = TRUE /\ k.status = "incomplete"
  BY <1>4
<1>5. ASSUME k = Kind("late", TRUE, TRUE, TRUE, TRUE)
      PROVE  k.attended = TRUE /\ k.status = "late"
  BY <1>5
<1>6. ASSUME k = Kind("present", TRUE, TRUE, FALSE, TRUE)
      PROVE  k.attended = TRUE /\ k.status = "present"
  BY <1>6
<1> HIDE DEF Kind
<1> QED BY <1>1, <1>2, <1>3, <1>4, <1>5, <1>6

Others == {"absent", "vacation", "medical_leave", "unpaid_leave", "holiday", "rest_day",
           "no_schedule", "pending"}

\* What each part of the distribution counts
LEMMA DistributionCounts ==
  ASSUME NEW rows
  PROVE  LET D == Distribution(CountsOf(rows))
         IN  /\ DOMAIN D = Others \cup {"present", "late", "incomplete"}
             /\ D["present"] = Cardinality({r \in rows : r.day.attended /\ ~r.day.late})
             /\ D["late"] = Cardinality({r \in rows : r.day.late})
             /\ \A s \in Others \cup {"incomplete"} :
                  D[s] = Cardinality({r \in rows : r.day.status = s})
             /\ CountsOf(rows).incompleteCount = D["incomplete"]
<1> DEFINE c == CountsOf(rows)
           D == Distribution(c)
<1>1. /\ c.onTimeCount = Cardinality({r \in rows : r.day.attended /\ ~r.day.late})
      /\ c.lateCount = Cardinality({r \in rows : r.day.late})
  BY DEF CountsOf
<1>2. /\ c.absentCount = Cardinality({r \in rows : r.day.status = "absent"})
      /\ c.vacationCount = Cardinality({r \in rows : r.day.status = "vacation"})
      /\ c.medicalLeaveCount = Cardinality({r \in rows : r.day.status = "medical_leave"})
      /\ c.unpaidLeaveCount = Cardinality({r \in rows : r.day.status = "unpaid_leave"})
  BY DEF CountsOf
<1>3. /\ c.holidayCount = Cardinality({r \in rows : r.day.status = "holiday"})
      /\ c.restDayCount = Cardinality({r \in rows : r.day.status = "rest_day"})
      /\ c.noScheduleCount = Cardinality({r \in rows : r.day.status = "no_schedule"})
      /\ c.incompleteCount = Cardinality({r \in rows : r.day.status = "incomplete"})
      /\ c.pendingCount = Cardinality({r \in rows : r.day.status = "pending"})
  BY DEF CountsOf
<1> HIDE DEF c
<1>4. /\ D["present"] = c.onTimeCount /\ D["late"] = c.lateCount
      /\ D["absent"] = c.absentCount /\ D["vacation"] = c.vacationCount
      /\ D["medical_leave"] = c.medicalLeaveCount /\ D["unpaid_leave"] = c.unpaidLeaveCount
      /\ D["holiday"] = c.holidayCount /\ D["rest_day"] = c.restDayCount
      /\ D["no_schedule"] = c.noScheduleCount /\ D["incomplete"] = c.incompleteCount
      /\ D["pending"] = c.pendingCount
  BY DEF Distribution
<1>5. DOMAIN D = Others \cup {"present", "late", "incomplete"}
  BY DEF Distribution, Others
<1> HIDE DEF D
<1> DEFINE With(s) == Cardinality({r \in rows : r.day.status = s})
<1>6. /\ D["absent"] = With("absent") /\ D["vacation"] = With("vacation")
      /\ D["medical_leave"] = With("medical_leave") /\ D["unpaid_leave"] = With("unpaid_leave")
      /\ D["holiday"] = With("holiday") /\ D["rest_day"] = With("rest_day")
      /\ D["no_schedule"] = With("no_schedule") /\ D["incomplete"] = With("incomplete")
      /\ D["pending"] = With("pending")
  BY <1>2, <1>3, <1>4
<1> HIDE DEF With
<1>7. \A s \in Others \cup {"incomplete"} : D[s] = With(s)
  BY <1>6 DEF Others
<1>8. \A s \in Others \cup {"incomplete"} : D[s] = Cardinality({r \in rows : r.day.status = s})
  BY <1>7 DEF With
<1> QED BY <1>1, <1>4, <1>5, <1>8 DEF D, c

\* A day left open is counted twice, every other once.
LEMMA OpenDaysTwice ==
  ASSUME NEW rows, NEW from, NEW to, RowsFrom(rows, from, to)
  PROVE  InAll(Distribution(CountsOf(rows)))
           = Cardinality(rows) + CountsOf(rows).incompleteCount
<1> DEFINE D == Distribution(CountsOf(rows))
           K == DOMAIN D
           open == {r \in rows : r.day.status = "incomplete"}
           once == rows \X {0}
           again == open \X {1}
           R == once \cup again
           Part(r) == IF r.day.attended THEN IF r.day.late THEN "late" ELSE "present"
                      ELSE r.day.status
           key == [t \in R |-> IF t[2] = 1 THEN "incomplete" ELSE Part(t[1])]
<1>1. /\ K = Others \cup {"present", "late", "incomplete"}
      /\ D["present"] = Cardinality({r \in rows : r.day.attended /\ ~r.day.late})
      /\ D["late"] = Cardinality({r \in rows : r.day.late})
      /\ \A s \in Others \cup {"incomplete"} : D[s] = Cardinality({r \in rows : r.day.status = s})
      /\ CountsOf(rows).incompleteCount = D["incomplete"]
  BY DistributionCounts
<1> HIDE DEF D, K
<1>2. /\ IsFiniteSet(rows) /\ \A r \in rows : r.day \in PossibleKinds
      /\ \A S \in SUBSET rows : IsFiniteSet(S)
  BY FS_Subset DEF RowsFrom
<1>3. ASSUME NEW r \in rows
      PROVE  /\ r.day.attended \in BOOLEAN /\ r.day.late \in BOOLEAN
             /\ r.day.late => r.day.attended
             /\ ~r.day.attended => r.day.status \in Others
             /\ r.day.attended => r.day.status \notin Others
             /\ r.day.status = "incomplete" => r.day.attended
  <2>1. /\ r.day.attended \in BOOLEAN /\ r.day.late \in BOOLEAN
        /\ r.day.late => r.day.attended
    BY <1>2, KindsMakeSense
  <2>2. /\ ~r.day.attended => r.day.status \in Others
        /\ r.day.attended => r.day.status \notin Others
        /\ r.day.status = "incomplete" => r.day.attended
    BY <1>2, KindsFall DEF Others
  <2> QED BY <2>1, <2>2
<1>4. IsFiniteSet(once) /\ Cardinality(once) = Cardinality(rows)
  BY <1>2, MarkedRows
<1>5. IsFiniteSet(again) /\ Cardinality(again) = Cardinality(open)
  <2>1. IsFiniteSet(open)
    BY <1>2
  <2> HIDE DEF open
  <2> QED BY <2>1, MarkedRows
<1>6. IsFiniteSet(R) /\ Cardinality(R) = Cardinality(once) + Cardinality(again)
  <2>1. once \cap again = {}
    OBVIOUS
  <2> HIDE DEF once, again
  <2> QED BY <1>4, <1>5, <2>1, ApartAddUp
<1>7. IsFiniteSet(K)
  <2>1. IsFiniteSet({"absent"} \cup {"vacation"} \cup {"medical_leave"} \cup {"unpaid_leave"}
                      \cup {"holiday"} \cup {"rest_day"} \cup {"no_schedule"} \cup {"pending"}
                      \cup {"present"} \cup {"late"} \cup {"incomplete"})
    BY FS_Singleton, FS_Union
  <2>2. K = {"absent"} \cup {"vacation"} \cup {"medical_leave"} \cup {"unpaid_leave"}
              \cup {"holiday"} \cup {"rest_day"} \cup {"no_schedule"} \cup {"pending"}
              \cup {"present"} \cup {"late"} \cup {"incomplete"}
    BY <1>1 DEF Others
  <2> QED BY <2>1, <2>2
<1>8. /\ \A r \in rows : <<r, 0>> \in R /\ key[<<r, 0>>] = Part(r)
      /\ \A r \in open : <<r, 1>> \in R /\ key[<<r, 1>>] = "incomplete"
      /\ \A t \in R : \/ t = <<t[1], 0>> /\ t[1] \in rows
                      \/ t = <<t[1], 1>> /\ t[1] \in open
  OBVIOUS
<1>9. key \in [R -> K]
  <2>1. \A r \in rows : Part(r) \in K
    BY <1>1, <1>3
  <2>2. "incomplete" \in K
    BY <1>1
  <2> HIDE DEF Part
  <2> QED BY <2>1, <2>2
<1>10. \A r \in rows : /\ Part(r) = "present" <=> r.day.attended /\ ~r.day.late
                       /\ Part(r) = "late" <=> r.day.late
                       /\ Part(r) # "incomplete"
                       /\ \A s \in Others : Part(r) = s <=> r.day.status = s
  BY <1>3 DEF Others
<1> HIDE DEF Part, key, R
<1>11. ASSUME NEW k \in K, k # "incomplete"
       PROVE  Under(R, key, {k}) = {r \in rows : Part(r) = k} \X {0}
  BY <1>8, <1>11 DEF Under
<1>12. Under(R, key, {"incomplete"}) = again
  BY <1>8, <1>10 DEF Under
<1>13. ASSUME NEW k \in K, k # "incomplete"
       PROVE  Cardinality(Under(R, key, {k})) = Cardinality({r \in rows : Part(r) = k})
  <2>1. IsFiniteSet({r \in rows : Part(r) = k})
    BY <1>2
  <2> QED BY <1>11, <1>13, <2>1, MarkedRows
<1>14. ASSUME NEW k \in K PROVE D[k] = Cardinality(Under(R, key, {k}))
  <2>1. CASE k = "incomplete"
    BY <1>1, <1>5, <1>12, <2>1
  <2>2. CASE k = "present"
    <3>1. {r \in rows : Part(r) = k} = {r \in rows : r.day.attended /\ ~r.day.late}
      BY <1>10, <2>2
    <3> QED BY <1>1, <1>13, <2>2, <3>1
  <2>3. CASE k = "late"
    <3>1. {r \in rows : Part(r) = k} = {r \in rows : r.day.late}
      BY <1>10, <2>3
    <3> QED BY <1>1, <1>13, <2>3, <3>1
  <2>4. CASE k \in Others
    <3>1. {r \in rows : Part(r) = k} = {r \in rows : r.day.status = k}
      BY <1>10, <2>4
    <3>2. k # "incomplete"
      BY <2>4 DEF Others
    <3> QED BY <1>1, <1>13, <2>4, <3>1, <3>2
  <2> QED BY <1>1, <2>1, <2>2, <2>3, <2>4
<1>15. Grouped(D, R, key, K)
  BY <1>14 DEF Grouped
<1>16. InAll(D) = Cardinality(R)
  <2>1. K = DOMAIN D
    BY DEF K
  <2> HIDE DEF once, again
  <2> QED BY <1>6, <1>7, <1>9, <1>15, <2>1, DistributionSums
<1>17. CountsOf(rows).incompleteCount = Cardinality(open)
  BY <1>1
<1> QED BY <1>4, <1>5, <1>6, <1>16, <1>17 DEF D

\* The rows of one day are of different workers.
LEMMA OneDayWorkers ==
  ASSUME NEW rows, NEW from, NEW to, RowsOfPeople(rows, from, to)
  PROVE  /\ IsFiniteSet(Workers(rows)) /\ Cardinality(Workers(rows)) \in Nat
         /\ \A S \in SUBSET rows : \A d :
              (\A r \in S : r.date = d) =>
                 Cardinality(S) \in Nat /\ Cardinality(S) <= Cardinality(Workers(rows))
<1> DEFINE all == Workers(rows)
<1>1. IsFiniteSet(all) /\ Cardinality(all) \in Nat
  <2>1. all \subseteq People
    BY DEF Workers, RowsOfPeople
  <2> HIDE DEF all
  <2> QED BY <2>1, AnalyticsAssumption, FS_Subset, FS_CardinalityType
<1>2. /\ IsFiniteSet(rows) /\ \A r \in rows : r.worker \in all
      /\ \A r, s \in rows : (r.worker = s.worker /\ r.date = s.date) => r = s
  BY DEF Workers, RowsOfPeople, RowsFrom
<1> HIDE DEF all
<1>3. ASSUME NEW S \in SUBSET rows, NEW d, \A r \in S : r.date = d
      PROVE  Cardinality(S) \in Nat /\ Cardinality(S) <= Cardinality(all)
  <2> DEFINE who == [r \in S |-> r.worker]
  <2>1. who \in [S -> all] /\ \A r, s \in S : who[r] = who[s] => r = s
    BY <1>2, <1>3
  <2>2. who \in Injection(S, all)
    <3> HIDE DEF who
    <3> QED BY <2>1 DEF Injection, IsInjective
  <2>3. Cardinality(S) <= Cardinality(all)
    <3> HIDE DEF who
    <3> QED BY <1>1, <2>2, FS_Injection
  <2>4. Cardinality(S) \in Nat
    BY <1>2, FS_Subset, FS_CardinalityType
  <2> QED BY <2>3, <2>4
<1> QED BY <1>1, <1>3 DEF all

\* No week has more workers on its fullest day than the period.
LEMMA WeeksFit ==
  ASSUME NEW rows, NEW from, NEW to, RowsOfPeople(rows, from, to)
  PROVE  LET weeks == WeekWorkers(rows, from, to)
         IN  \A k \in DOMAIN weeks : weeks[k] <= Cardinality(Workers(rows))
<1> DEFINE weeks == WeekWorkers(rows, from, to)
           Days == from .. to
           week == [d \in Days |-> (d - from) \div TrendDays]
           size == [d \in Days |-> Cardinality({r \in rows : r.date = d})]
           all == Cardinality(Workers(rows))
           Sizes(k) == {size[d] : d \in {d \in Days : week[d] = k}}
<1>1. all \in Nat /\ \A d \in Days : size[d] \in Nat /\ size[d] <= all
  <2>1. ASSUME NEW d \in Days
        PROVE  Cardinality({r \in rows : r.date = d}) \in Nat /\ Cardinality({r \in rows : r.date = d}) <= all
    <3> DEFINE S == {r \in rows : r.date = d}
    <3>1. S \in SUBSET rows /\ \A r \in S : r.date = d
      OBVIOUS
    <3> HIDE DEF S
    <3> QED BY <3>1, OneDayWorkers DEF S
  <2>2. all \in Nat
    BY OneDayWorkers
  <2> QED BY <2>1, <2>2
<1>2. weeks = [k \in {week[d] : d \in Days} |-> Max(Sizes(k))]
  <2>1. \A d \in Days : (d - from) \div TrendDays = week[d]
    OBVIOUS
  <2>2. \A d \in Days : Cardinality({r \in rows : r.date = d}) = size[d]
    OBVIOUS
  <2> DEFINE Theirs(k) == {Cardinality({r \in rows : r.date = d}) :
                             d \in {d \in Days : (d - from) \div TrendDays = k}}
  <2>3. \A k : Theirs(k) = Sizes(k)
    <3> HIDE DEF week, size
    <3> QED BY <2>1, <2>2
  <2>4. {(d - from) \div TrendDays : d \in Days} = {week[d] : d \in Days}
    BY <2>1
  <2>5. weeks = [k \in {(d - from) \div TrendDays : d \in Days} |-> Max(Theirs(k))]
    BY DEF WeekWorkers
  <2> HIDE DEF week, size, Theirs, Sizes, weeks
  <2> QED BY <2>3, <2>4, <2>5
<1> HIDE DEF week, size, all, weeks, Days
<1>3. ASSUME NEW k \in {week[d] : d \in Days} PROVE Max(Sizes(k)) <= all
  <2>1. PICK d \in Days : week[d] = k
    OBVIOUS
  <2>2. /\ Sizes(k) # {} /\ Sizes(k) \in SUBSET Int
        /\ \A x \in Sizes(k) : x <= all
    BY <1>1, <2>1
  <2> DEFINE its == Sizes(k)
  <2>3. its # {} /\ its \in SUBSET Int /\ all \in Int /\ \A x \in its : x <= all
    BY <1>1, <2>2
  <2> HIDE DEF its, Sizes
  <2>4. Max(its) \in its
    BY <2>3, HighestIsThere
  <2> QED BY <2>3, <2>4 DEF its
<1>4. \A k \in DOMAIN weeks : weeks[k] <= all
  <2> HIDE DEF Sizes
  <2> QED BY <1>2, <1>3
<1> QED BY <1>4 DEF weeks, all

\* A worker's figures asked for alone are those of the chart.
LEMMA SummariesMatch ==
  ASSUME AnalyticsTypeOK, NEW from \in Calendar, NEW to \in from .. LastCounted, NEW w \in People
  PROVE  LET rows == Dataset(from, to, NoFilter)
         IN  WorkerSummary(w, from, to)
               = IF w \in Workers(rows) THEN Chart(rows, "worker")[w] ELSE NoMetrics
<1> DEFINE rows == Dataset(from, to, NoFilter)
           own == Group(rows, "worker", w)
<1>1. Detail("worker", w, from, to) = own
  BY DetailsAre
<1> HIDE DEF rows
<1>2. Group(own, "worker", w) = own
  BY DEF Group
<1>3. WorkerSummary(w, from, to) = IF own = {} THEN NoMetrics ELSE CountsOf(own)
  BY <1>1, <1>2 DEF WorkerSummary, WorkerItem
<1>4. w \in Workers(rows) <=> own # {}
  BY DEF Workers, Group
<1>5. w \in Workers(rows) => Chart(rows, "worker")[w] = CountsOf(own)
  BY DEF Workers, Chart, GroupKeys
<1> HIDE DEF own
<1> QED BY <1>3, <1>4, <1>5 DEF rows

\* The figures of a period
LEMMA FiguresOfPeriods ==
  ASSUME AnalyticsTypeOK, NEW from \in Calendar, NEW to \in from .. LastCounted
  PROVE  PeriodFiguresAgree(from, to)
<1> DEFINE rows == Dataset(from, to, NoFilter)
           weeks == WeekWorkers(rows, from, to)
<1>1. RowsOfPeople(rows, from, to)
  BY PeriodIsOfPeople
<1>2. RowsFrom(rows, from, to) /\ from \in Int /\ to \in Int
  BY <1>1 DEF RowsOfPeople
<1>3. \A w \in People : WorkerSummary(w, from, to) =
        IF w \in Workers(rows) THEN Chart(rows, "worker")[w] ELSE NoMetrics
  BY SummariesMatch
<1> HIDE DEF rows
<1>4. InAll(Distribution(CountsOf(rows))) = Cardinality(rows) + CountsOf(rows).incompleteCount
  BY <1>2, OpenDaysTwice
<1>5. \A k \in DOMAIN weeks : weeks[k] <= Cardinality(Workers(rows))
  BY <1>1, WeeksFit
<1>6. ASSUME from = to PROVE Today(from).scheduledWorkers <= Cardinality(Workers(rows))
  <2> DEFINE S == {r \in rows : r.day.required}
  <2>1. Today(from).scheduledWorkers = Cardinality(S)
    BY <1>6 DEF Today, PeriodSummary, CountsOf, rows
  <2>2. S \in SUBSET rows
    OBVIOUS
  <2>3. ASSUME NEW r \in S PROVE r.date = from
    <3>1. r.date \in from .. to
      BY <1>2 DEF RowsFrom
    <3> QED BY <1>2, <1>6, <3>1
  <2> HIDE DEF S
  <2> QED BY <1>1, <2>1, <2>2, <2>3, OneDayWorkers
<1>7. Recalculation(from, to) =
        [workers |-> Cardinality(Workers(rows)), days |-> Cardinality(DOMAIN DailyTrend(rows, from, to))]
  <2>1. DOMAIN DailyTrend(rows, from, to) = from .. to
    BY DEF DailyTrend
  <2>2. Cardinality(from .. to) = to - from + 1
    <3>1. from <= to
      BY <1>2
    <3> QED BY <1>2, <3>1, FS_Interval
  <2>3. Recalculation(from, to) = [workers |-> Cardinality(Workers(rows)), days |-> to - from + 1]
    BY DEF Recalculation, DashboardOf, PeriodSummary, rows
  <2> QED BY <2>1, <2>2, <2>3
<1> QED BY <1>3, <1>4, <1>5, <1>6, <1>7 DEF PeriodFiguresAgree, rows

\* The first of a ranking by a count has the highest; without one, there is no count.
LEMMA FirstOfCounts ==
  ASSUME NEW D \in SUBSET Int, IsFiniteSet(D), NEW count \in [D -> Nat], NEW next \in [D -> Int]
  PROVE  LET some == {k \in D : count[k] > 0}
             seq == Rank([k \in some |-> <<count[k], next[k], -k>>], 1)
         IN  /\ seq \in Seq(D)
             /\ seq = <<>> => \A k \in D : count[k] = 0
             /\ seq # <<>> => /\ Head(seq) \in D /\ count[Head(seq)] > 0
                              /\ \A k \in D : count[k] <= count[Head(seq)]
<1> DEFINE some == {k \in D : count[k] > 0}
           value == [k \in some |-> count[k]]
           other == [k \in some |-> next[k]]
           keys == [k \in some |-> <<value[k], other[k], -k>>]
           seq == Rank(keys, 1)
           size == Cardinality(some)
           few == IF 1 < size THEN 1 ELSE size
<1>1. /\ some \in SUBSET Int /\ value \in [some -> Int] /\ other \in [some -> Int]
      /\ \A k \in some : value[k] = count[k] /\ other[k] = next[k]
      /\ \A k \in some : k \in D /\ count[k] > 0
      /\ \A k \in D : k \notin some => count[k] = 0
      /\ keys = [k \in some |-> <<count[k], next[k], -k>>]
  <2>1. some \subseteq D /\ \A k \in D : (k \in some <=> count[k] > 0) /\ count[k] \in Nat
    OBVIOUS
  <2> HIDE DEF some
  <2>2. \A k \in some : value[k] = count[k] /\ other[k] = next[k]
    OBVIOUS
  <2>3. value \in [some -> Int] /\ other \in [some -> Int]
    BY <2>1
  <2>4. some \in SUBSET Int /\ \A k \in D : k \notin some => count[k] = 0
    BY <2>1
  <2> HIDE DEF value, other
  <2>5. keys = [k \in some |-> <<count[k], next[k], -k>>]
    BY <2>2
  <2> QED BY <2>1, <2>2, <2>3, <2>4, <2>5
<1>2. IsFiniteSet(some) /\ size \in Nat
  <2>1. some \subseteq D
    OBVIOUS
  <2> HIDE DEF some
  <2> QED BY <2>1, FS_Subset, FS_CardinalityType
<1> HIDE DEF some, value, other
<1>3. /\ Orders(KeyOrder(keys), some)
      /\ \A k, l \in some : value[k] > value[l] => Before(keys[k], keys[l])
  BY <1>1, HighestOfTwoFirst
<1>4. DOMAIN keys = some
  OBVIOUS
<1> HIDE DEF keys, size
<1>5. /\ DOMAIN seq = 1 .. few
      /\ \A n \in 1 .. few : seq[n] \in some
  BY <1>2, <1>3, <1>4, RankLists DEF size
<1>6. seq = [n \in 1 .. few |-> CHOOSE k \in some : PlaceIn(KeyOrder(keys), some, k) = n]
  BY <1>2, <1>4, RankPlaces DEF size
<1>7. seq # <<>> => seq[1] \in some /\ \A l \in some : ~Before(keys[l], keys[seq[1]])
  BY <1>2, <1>3, <1>4, RankFirst
<1> HIDE DEF seq
<1>8. few \in Nat /\ (few = 0 => size = 0)
  BY <1>2
<1> HIDE DEF few
<1>9. seq \in Seq(D)
  <2> DEFINE It(n) == CHOOSE k \in some : PlaceIn(KeyOrder(keys), some, k) = n
  <2>1. seq = [n \in 1 .. few |-> It(n)]
    BY <1>6
  <2> HIDE DEF It
  <2>2. \A n \in 1 .. few : It(n) \in D
    BY <1>1, <1>5, <2>1
  <2> QED BY <1>8, <2>1, <2>2
<1>10. ASSUME seq = <<>> PROVE \A k \in D : count[k] = 0
  <2>1. 1 .. few = {}
    BY <1>5, <1>10
  <2>2. few = 0
    BY <1>8, <2>1
  <2>3. some = {}
    BY <1>2, <1>8, <2>2, FS_EmptySet DEF size
  <2> QED BY <1>1, <2>3
<1>11. ASSUME seq # <<>>
       PROVE  /\ Head(seq) \in D /\ count[Head(seq)] > 0
              /\ \A k \in D : count[k] <= count[Head(seq)]
  <2>1. Head(seq) = seq[1]
    BY <1>9, <1>11
  <2>2. seq[1] \in some /\ \A l \in some : ~Before(keys[l], keys[seq[1]])
    BY <1>7, <1>11
  <2> DEFINE first == seq[1]
  <2> HIDE DEF first
  <2>3. first \in some /\ first \in D /\ count[first] > 0 /\ \A l \in some : ~(value[l] > value[first])
    BY <1>1, <1>3, <2>2 DEF first
  <2>4. \A k \in D : count[k] \in Nat
    OBVIOUS
  <2>5. ASSUME NEW k \in D PROVE count[k] <= count[first]
    <3>1. CASE k \in some
      BY <1>1, <2>3, <2>4, <3>1
    <3>2. CASE k \notin some
      BY <1>1, <2>3, <2>4, <3>2
    <3> QED BY <3>1, <3>2
  <2> QED BY <2>1, <2>3, <2>5 DEF first
<1> QED BY <1>1, <1>9, <1>10, <1>11 DEF seq, some

\* The counts of a chart are numbers, and so are its rates.
LEMMA ChartIsCounted ==
  ASSUME NEW rows, NEW from, NEW to, RowsFrom(rows, from, to), NEW by, \A r \in rows : r[by] \in Int
  PROVE  LET m == Chart(rows, by)
         IN  /\ DOMAIN m = {r[by] : r \in rows}
             /\ DOMAIN m \in SUBSET Int /\ IsFiniteSet(DOMAIN m)
             /\ \A k \in DOMAIN m : /\ m[k] = CountsOf(Group(rows, by, k))
                                   /\ m[k].absentCount \in Nat
                                   /\ Rates(m[k]).absenceRate \in Int
<1> DEFINE m == Chart(rows, by)
           key == [r \in rows |-> r[by]]
<1>1. DOMAIN m = {r[by] : r \in rows} /\ \A k \in DOMAIN m : m[k] = CountsOf(Group(rows, by, k))
  BY DEF Chart, GroupKeys
<1>2. DOMAIN m \in SUBSET Int
  BY <1>1
<1>3. key \in [rows -> DOMAIN m] /\ \A k \in DOMAIN m : \E r \in rows : key[r] = k
  BY <1>1
<1> HIDE DEF m, key
<1>4. IsFiniteSet(DOMAIN m)
  BY <1>3, GroupsAreFinite DEF RowsFrom
<1>5. ASSUME NEW k \in DOMAIN m PROVE m[k].absentCount \in Nat /\ Rates(m[k]).absenceRate \in Int
  <2> DEFINE own == Group(rows, by, k)
  <2>1. own \subseteq rows
    BY DEF Group
  <2> HIDE DEF own
  <2>2. RowsFrom(own, from, to)
    BY <2>1, FS_Subset DEF RowsFrom
  <2>3. \A f \in CountFields : CountsOf(own)[f] \in Nat
    BY <2>2, FlagsAddUp
  <2>4. CountsOf(own).absentCount \in Nat
    BY <2>3 DEF CountFields
  <2>5. \A f \in DOMAIN Rates(CountsOf(own)) : Rates(CountsOf(own))[f] \in Hundredths
    BY <2>2, RatesFit
  <2>6. "absenceRate" \in DOMAIN Rates(CountsOf(own))
    BY DEF Rates
  <2>7. Rates(CountsOf(own)).absenceRate \in Hundredths
    BY <2>5, <2>6
  <2>8. Rates(CountsOf(own)).absenceRate \in Int
    BY <2>7, HundredthsAre
  <2>9. m[k] = CountsOf(own)
    BY <1>1 DEF own
  <2> QED BY <2>4, <2>8, <2>9
<1> QED BY <1>1, <1>2, <1>4, <1>5 DEF m

\* The first by absences, of workers or of areas
LEMMA FirstInChart ==
  ASSUME NEW rows, NEW from, NEW to, RowsFrom(rows, from, to), NEW by, \A r \in rows : r[by] \in Int
  PROVE  LET m == Chart(rows, by)
             seq == DimensionRanking(rows, by, 1)
         IN  /\ seq \in Seq(DOMAIN m)
             /\ seq = <<>> => \A k \in DOMAIN m : m[k].absentCount = 0
             /\ seq # <<>> => /\ Head(seq) \in DOMAIN m /\ m[Head(seq)].absentCount > 0
                              /\ \A k \in DOMAIN m : m[k].absentCount <= m[Head(seq)].absentCount
<1> DEFINE m == Chart(rows, by)
           D == DOMAIN m
           count == [k \in D |-> m[k].absentCount]
           next == [k \in D |-> Rates(m[k]).absenceRate]
           some == {k \in D : count[k] > 0}
           seq == DimensionRanking(rows, by, 1)
           keys == [k \in some |-> <<count[k], next[k], -k>>]
<1>1. /\ D \in SUBSET Int /\ IsFiniteSet(D)
      /\ \A k \in D : m[k].absentCount \in Nat /\ Rates(m[k]).absenceRate \in Int
  BY ChartIsCounted
<1>2. seq = Rank([k \in {k \in D : m[k].absentCount > 0} |->
                    <<m[k].absentCount, Rates(m[k]).absenceRate, -k>>], 1)
  BY DEF DimensionRanking
<1> HIDE DEF m, D, seq
<1>3. /\ count \in [D -> Nat] /\ next \in [D -> Int]
      /\ \A k \in D : count[k] = m[k].absentCount /\ next[k] = Rates(m[k]).absenceRate
  BY <1>1
<1> HIDE DEF count, next
<1>4. some = {k \in D : m[k].absentCount > 0} /\ \A k \in some : k \in D
  BY <1>3
<1> HIDE DEF some
<1>5. keys = [k \in {k \in D : m[k].absentCount > 0} |->
                <<m[k].absentCount, Rates(m[k]).absenceRate, -k>>]
  BY <1>3, <1>4
<1>6. seq = Rank(keys, 1)
  BY <1>2, <1>5
<1>7. /\ seq \in Seq(D)
      /\ seq = <<>> => \A k \in D : count[k] = 0
      /\ seq # <<>> => /\ Head(seq) \in D /\ count[Head(seq)] > 0
                       /\ \A k \in D : count[k] <= count[Head(seq)]
  BY ZenonT(40), <1>1, <1>3, <1>6, FirstOfCounts DEF some
<1> QED BY <1>3, <1>7 DEF m, D, seq

\* The absent of the rankings are those of the chart.
LEMMA TopAbsentIs ==
  ASSUME NEW rows
  PROVE  Rankings(rows, 1).topAbsent = DimensionRanking(rows, "worker", 1)
<1> DEFINE m == Chart(rows, "worker")
           r == [w \in DOMAIN m |-> Rates(m[w])]
<1>1. Rankings(rows, 1).topAbsent
        = Rank([w \in {w \in DOMAIN m : m[w].absentCount > 0} |->
                  <<m[w].absentCount, r[w].absenceRate, -w>>], 1)
  BY DEF Rankings
<1>2. DimensionRanking(rows, "worker", 1)
        = Rank([k \in {k \in DOMAIN m : m[k].absentCount > 0} |->
                  <<m[k].absentCount, Rates(m[k]).absenceRate, -k>>], 1)
  BY DEF DimensionRanking
<1> HIDE DEF m
<1>3. [w \in {w \in DOMAIN m : m[w].absentCount > 0} |-> <<m[w].absentCount, r[w].absenceRate, -w>>]
        = [k \in {k \in DOMAIN m : m[k].absentCount > 0} |->
             <<m[k].absentCount, Rates(m[k]).absenceRate, -k>>]
  OBVIOUS
<1> QED BY <1>1, <1>2, <1>3

\* The pages of a table make the table.
LEMMA TablePages ==
  ASSUME NEW S, NEW table \in Seq(S), NEW n \in Nat, Len(table) <= n
  PROVE  FlattenSeq([p \in 1 .. n |-> TableSlice(table, p, 1)]) = table
<1>1. ASSUME NEW a \in Int, NEW b \in Int PROVE Min({a, b}) = IF a < b THEN a ELSE b
  <2>1. \E x \in {a, b} : \A y \in {a, b} : x <= y
    OBVIOUS
  <2>2. Min({a, b}) \in {a, b} /\ \A y \in {a, b} : Min({a, b}) <= y
    BY <2>1 DEF Min
  <2> QED BY <2>2
<1>2. ASSUME NEW p \in 1 .. n PROVE TableSlice(table, p, 1) = Page(table, p, 1)
  <2>1. p * 1 \in Int /\ Len(table) \in Int
    OBVIOUS
  <2>2. Min({p * 1, Len(table)}) = IF p * 1 < Len(table) THEN p * 1 ELSE Len(table)
    BY <1>1, <2>1
  <2> QED BY <2>2 DEF TableSlice, Page
<1>3. [p \in 1 .. n |-> TableSlice(table, p, 1)] = [p \in 1 .. n |-> Page(table, p, 1)]
  BY <1>2
<1>4. 1 \in Nat \ {0}
  OBVIOUS
<1>5. FlattenSeq([p \in 1 .. n |-> Page(table, p, 1)]) = table
  BY <1>4, PageIsCut
<1> QED BY <1>3, <1>5

LEMMA EarliestIsThere ==
  ASSUME NEW rows, rows # {}, \A r \in rows : r.date \in Nat
  PROVE  EarliestOf(rows) \in rows
<1> DEFINE dates == {r.date : r \in rows}
<1>1. dates \in SUBSET Nat /\ dates # {}
  OBVIOUS
<1>2. PICK d \in dates : \A e \in dates : d <= e
  <2> HIDE DEF dates
  <2> QED BY <1>1, LeastIsThere
<1>3. PICK r \in rows : r.date = d
  BY <1>2
<1>4. \A s \in rows : r.date <= s.date
  BY <1>2, <1>3
<1> QED BY <1>4 DEF EarliestOf

\* The item of a worker in the table
LEMMA ItemIs ==
  ASSUME NEW rows, NEW from \in Nat, NEW to, RowsOfPeople(rows, from, to),
         \A r \in rows : r.area = area[r.worker], NEW w \in Workers(rows)
  PROVE  /\ WorkerItem(rows, w).counts = CountsOf(Group(rows, "worker", w))
         /\ WorkerItem(rows, w).counts = Chart(rows, "worker")[w]
         /\ WorkerItem(rows, w).counts.absentCount \in Nat
         /\ WorkerItem(rows, w).area = area[w]
         /\ w \in DOMAIN Chart(rows, "worker") /\ w \in People /\ w \in Nat
<1> DEFINE own == Group(rows, "worker", w)
           m == Chart(rows, "worker")
           first == EarliestOf(own)
<1>1. own # {} /\ own \subseteq rows /\ \A r \in own : r.worker = w
  BY DEF Workers, Group
<1>2. /\ WorkerItem(rows, w).counts = CountsOf(own)
      /\ WorkerItem(rows, w).area = EarliestOf(own).area
  BY DEF WorkerItem
<1>3. w \in People /\ w \in Nat
  BY AnalyticsAssumption DEF Workers, RowsOfPeople
<1> HIDE DEF own, m, first
<1>4. \A r \in rows : r.date \in Nat
  BY DEF RowsOfPeople, RowsFrom
<1>5. first \in own
  BY <1>1, <1>4, EarliestIsThere DEF first
<1>6. first.area = area[w]
  BY <1>1, <1>5
<1>7. /\ DOMAIN m = {r["worker"] : r \in rows}
      /\ \A k \in DOMAIN m : m[k] = CountsOf(Group(rows, "worker", k)) /\ m[k].absentCount \in Nat
  <2> DEFINE by == "worker"
  <2>1. People \subseteq Int /\ \A r \in rows : r[by] \in People
    BY AnalyticsAssumption DEF RowsOfPeople
  <2>2. RowsFrom(rows, from, to)
    BY DEF RowsOfPeople
  <2> HIDE DEF by
  <2>3. \A r \in rows : r[by] \in Int
    BY <2>1
  <2>4. \A k \in DOMAIN Chart(rows, by) : Chart(rows, by)[k].absentCount \in Nat
    BY <2>2, <2>3, ChartIsCounted
  <2>5. /\ DOMAIN m = {r["worker"] : r \in rows}
        /\ \A k \in DOMAIN m : m[k] = CountsOf(Group(rows, "worker", k))
    BY DEF m, Chart, GroupKeys
  <2> QED BY <2>4, <2>5 DEF m, by
<1>8. w \in DOMAIN m
  BY <1>7 DEF Workers
<1>9. CountsOf(own) = m[w] /\ m[w].absentCount \in Nat
  BY <1>7, <1>8 DEF own
<1>10. /\ WorkerItem(rows, w).counts = m[w]
       /\ WorkerItem(rows, w).counts.absentCount \in Nat
  BY <1>2, <1>9
<1>11. WorkerItem(rows, w).area = area[w]
  BY <1>2, <1>6 DEF first
<1>12. WorkerItem(rows, w).counts = CountsOf(Group(rows, "worker", w))
  BY <1>2 DEF own
<1> QED BY <1>3, <1>8, <1>10, <1>11, <1>12 DEF m

\* The table lists its workers once each, by absences from the most if so asked.
LEMMA TableLists ==
  ASSUME NEW rows, NEW from \in Nat, NEW to, RowsOfPeople(rows, from, to),
         \A r \in rows : r.area = area[r.worker], NEW workers \in SUBSET Workers(rows),
         NEW field \in {"fullName", "absentCount"}, NEW direction \in {"asc", "desc"}
  PROVE  LET table == InOrder(rows, workers, field, direction)
         IN  /\ table \in Seq(workers) /\ ToSet(table) = workers
             /\ Len(table) <= Cardinality(People) /\ Cardinality(People) \in Nat
             /\ (field = "absentCount" /\ direction = "desc" /\ workers # {}) =>
                   /\ Head(table) \in workers
                   /\ \A w \in workers : WorkerItem(rows, w).counts.absentCount
                                           <= WorkerItem(rows, Head(table)).counts.absentCount
<1> DEFINE table == InOrder(rows, workers, field, direction)
           absences == [w \in workers |-> WorkerItem(rows, w).counts.absentCount]
           sign == IF direction = "asc" THEN -1 ELSE 1
           value == [w \in workers |-> sign * (IF field = "fullName" THEN w ELSE absences[w])]
           keys == [w \in workers |-> <<value[w], -w>>]
           size == Cardinality(workers)
<1>1. ASSUME NEW w \in workers
      PROVE  w \in People /\ w \in Int /\ WorkerItem(rows, w).counts.absentCount \in Nat
  <2>1. w \in Workers(rows)
    OBVIOUS
  <2>2. w \in People /\ w \in Nat /\ WorkerItem(rows, w).counts.absentCount \in Nat
    BY <2>1, ItemIs
  <2> QED BY <2>2
<1>2. absences \in [workers -> Nat]
      /\ \A w \in workers : absences[w] = WorkerItem(rows, w).counts.absentCount
  BY <1>1
<1>3. table = Rank(keys, size)
  <2> DEFINE Value(w) == IF field = "fullName" THEN w ELSE WorkerItem(rows, w).counts[field]
  <2>1. table = Rank([w \in workers |-> <<sign * Value(w), -w>>], size)
    BY DEF InOrder
  <2>2. \A w \in workers : Value(w) = IF field = "fullName" THEN w ELSE absences[w]
    BY <1>2
  <2>3. \A w \in workers : value[w] = sign * Value(w)
    <3> HIDE DEF Value, absences, sign
    <3> QED BY <2>2
  <2> HIDE DEF Value, value, sign, table, size
  <2>4. keys = [w \in workers |-> <<sign * Value(w), -w>>]
    BY <2>3
  <2> QED BY <2>1, <2>4
<1>4. value \in [workers -> Int]
  <2>1. ASSUME NEW w \in workers PROVE value[w] \in Int
    <3> DEFINE its == IF field = "fullName" THEN w ELSE absences[w]
    <3>1. its \in Int
      <4>1. absences[w] \in Nat
        BY <1>2
      <4> HIDE DEF absences
      <4> QED BY <1>1, <4>1
    <3>2. value[w] = sign * its
      OBVIOUS
    <3> HIDE DEF its, value, absences
    <3>3. sign = -1 \/ sign = 1
      OBVIOUS
    <3> QED BY <3>1, <3>2, <3>3
  <2> HIDE DEF sign, absences
  <2> QED BY <2>1
<1>5. (field = "absentCount" /\ direction = "desc") => \A w \in workers : value[w] = absences[w]
  <2>1. SUFFICES ASSUME field = "absentCount", direction = "desc", NEW w \in workers
                 PROVE  value[w] = absences[w]
    OBVIOUS
  <2>2. absences[w] \in Int /\ sign = 1
    BY <1>2, <2>1
  <2>3. value[w] = sign * absences[w]
    BY <2>1
  <2> HIDE DEF value, absences, sign
  <2> QED BY <2>2, <2>3
<1>6. /\ IsFiniteSet(workers) /\ size \in Nat /\ size <= Cardinality(People)
      /\ Cardinality(People) \in Nat
  <2>1. workers \subseteq People
    BY <1>1
  <2> QED BY <2>1, AnalyticsAssumption, FS_Subset, FS_CardinalityType
<1>7. workers \in SUBSET Int
  BY <1>1
<1> HIDE DEF value, absences, sign, table
<1>8. /\ Orders(KeyOrder(keys), workers)
      /\ \A k, l \in workers : Before(keys[k], keys[l])
                                <=> value[k] > value[l] \/ (value[k] = value[l] /\ k < l)
  BY <1>4, <1>7, HighestFirst
<1>9. DOMAIN keys = workers
  OBVIOUS
<1> HIDE DEF keys, size
<1>10. /\ table \in Seq(workers) /\ Len(table) = size /\ ToSet(table) = workers
       /\ \A i, j \in 1 .. size : i < j => Before(keys[table[i]], keys[table[j]])
  BY <1>3, <1>6, <1>8, <1>9, RankSorts DEF size
<1>11. ASSUME field = "absentCount", direction = "desc", workers # {}
       PROVE  /\ Head(table) \in workers
              /\ \A w \in workers : absences[w] <= absences[Head(table)]
  <2>1. \A w \in workers : \E j \in 1 .. size : table[j] = w
    BY <1>6, <1>10 DEF ToSet
  <2>2. PICK j \in 1 .. size : table[j] \in workers
    BY <1>11, <2>1
  <2>3. 1 \in 1 .. size /\ table # <<>> /\ Head(table) = table[1] /\ table[1] \in workers
    BY <1>6, <1>10, <2>2
  <2> DEFINE first == table[1]
  <2> HIDE DEF first
  <2>4. ASSUME NEW w \in workers PROVE absences[w] <= absences[first]
    <3>1. PICK i \in 1 .. size : table[i] = w
      BY <2>1
    <3>2. absences[w] \in Int /\ absences[first] \in Int /\ first \in workers
      BY <1>2, <2>3 DEF first
    <3>3. CASE i = 1
      BY <3>1, <3>2, <3>3 DEF first
    <3>4. CASE i # 1
      <4>1. 1 < i
        BY <1>6, <3>4
      <4>2. Before(keys[first], keys[w])
        BY <1>10, <2>3, <3>1, <4>1 DEF first
      <4>3. value[first] > value[w] \/ value[first] = value[w]
        BY <1>8, <3>2, <4>2
      <4>4. value[w] = absences[w] /\ value[first] = absences[first]
        BY <1>5, <1>11, <3>2
      <4> QED BY <3>2, <4>3, <4>4
    <3> QED BY <3>3, <3>4
  <2> QED BY <2>3, <2>4 DEF first
<1>12. (field = "absentCount" /\ direction = "desc" /\ workers # {}) =>
          /\ Head(table) \in workers
          /\ \A w \in workers : WorkerItem(rows, w).counts.absentCount
                                  <= WorkerItem(rows, Head(table)).counts.absentCount
  BY <1>2, <1>11
<1> QED BY <1>6, <1>10, <1>12 DEF table

\* The worker named as the most absent has the most absences.
LEMMA MostAbsent ==
  ASSUME NEW rows, NEW from \in Nat, NEW to, RowsOfPeople(rows, from, to),
         \A r \in rows : r.area = area[r.worker]
  PROVE  LET seq == Rankings(rows, 1).topAbsent
             Count(w) == WorkerItem(rows, w).counts.absentCount
         IN  /\ seq \in Seq(Workers(rows))
             /\ seq = <<>> => \A w \in Workers(rows) : Count(w) = 0
             /\ seq # <<>> => /\ Head(seq) \in Workers(rows)
                              /\ \A w \in Workers(rows) : Count(w) <= Count(Head(seq))
<1> DEFINE by == "worker"
           m == Chart(rows, by)
           seq == DimensionRanking(rows, by, 1)
           Count(w) == WorkerItem(rows, w).counts.absentCount
<1>1. RowsFrom(rows, from, to) /\ \A r \in rows : r[by] \in Int
  <2>1. People \subseteq Int /\ \A r \in rows : r[by] \in People
    BY AnalyticsAssumption DEF RowsOfPeople
  <2>2. RowsFrom(rows, from, to)
    BY DEF RowsOfPeople
  <2> HIDE DEF by
  <2> QED BY <2>1, <2>2
<1>2. Rankings(rows, 1).topAbsent = seq
  BY TopAbsentIs
<1>3. DOMAIN m = Workers(rows)
  BY DEF Chart, GroupKeys, Workers
<1>4. \A w \in Workers(rows) : Count(w) = m[w].absentCount
  BY ItemIs
<1> HIDE DEF by
<1>5. /\ seq \in Seq(DOMAIN m)
      /\ seq = <<>> => \A k \in DOMAIN m : m[k].absentCount = 0
      /\ seq # <<>> => /\ Head(seq) \in DOMAIN m /\ m[Head(seq)].absentCount > 0
                       /\ \A k \in DOMAIN m : m[k].absentCount <= m[Head(seq)].absentCount
  BY <1>1, FirstInChart
<1> HIDE DEF m, seq, Count
<1>6. /\ seq \in Seq(Workers(rows))
      /\ seq = <<>> => \A w \in Workers(rows) : Count(w) = 0
      /\ seq # <<>> => /\ Head(seq) \in Workers(rows)
                       /\ \A w \in Workers(rows) : Count(w) <= Count(Head(seq))
  BY <1>3, <1>4, <1>5
<1> QED BY <1>2, <1>6 DEF Count

\* The table and its pages
LEMMA TablesComplete ==
  ASSUME AnalyticsTypeOK, NEW from \in Calendar, NEW to \in from .. LastCounted
  PROVE  TableComplete(from, to)
<1> DEFINE rows == Dataset(from, to, NoFilter)
           all == Workers(rows)
           kpis == LeadingKpis(rows)
           Count(w) == WorkerItem(rows, w).counts.absentCount
<1>1. RowsOfPeople(rows, from, to) /\ from \in Nat
  <2>1. from \in Nat
    BY DEF Calendar
  <2> QED BY <2>1, PeriodIsOfPeople
<1>2. \A r \in rows : r.area = area[r.worker]
  BY PeriodRows
<1> HIDE DEF rows
<1>3. ASSUME NEW text \in Units \cup {Nothing}, NEW field \in {"fullName", "absentCount"},
             NEW direction \in {"asc", "desc"}
      PROVE  LET table == TableRows(rows, text, field, direction)
                 pages == [p \in 1 .. Cardinality(People) |-> TableSlice(table, p, 1)]
             IN /\ FlattenSeq(pages) = table
                /\ {w \in all : text \in {Nothing, area[w]}} \subseteq ToSet(table)
  <2> DEFINE table == TableRows(rows, text, field, direction)
             workers == {w \in all : Matches(WorkerItem(rows, w), text)}
  <2>1. workers \in SUBSET Workers(rows)
    OBVIOUS
  <2>2. table = InOrder(rows, workers, field, direction)
    BY DEF TableRows
  <2>3. ASSUME NEW w \in all, text \in {Nothing, area[w]} PROVE w \in workers
    <3>1. WorkerItem(rows, w).area = area[w]
      BY <1>1, <1>2, ItemIs
    <3> QED BY <2>3, <3>1 DEF Matches
  <2> HIDE DEF table, workers, all
  <2>4. /\ table \in Seq(workers) /\ ToSet(table) = workers
        /\ Len(table) <= Cardinality(People) /\ Cardinality(People) \in Nat
    BY ZenonT(40), <1>1, <1>2, <2>1, <2>2, TableLists
  <2>5. FlattenSeq([p \in 1 .. Cardinality(People) |-> TableSlice(table, p, 1)]) = table
    BY <2>4, TablePages
  <2>6. {w \in all : text \in {Nothing, area[w]}} \subseteq ToSet(table)
    BY <2>3, <2>4
  <2> QED BY <2>5, <2>6 DEF table
<1>4. ASSUME kpis.mostAbsentWorker # Nothing
      PROVE  LET first == Head(TableRows(rows, Nothing, "absentCount", "desc"))
             IN  Count(first) = Count(kpis.mostAbsentWorker)
  <2> DEFINE seq == Rankings(rows, 1).topAbsent
             field == "absentCount"
             direction == "desc"
             table == TableRows(rows, Nothing, field, direction)
             most == kpis.mostAbsentWorker
             first == Head(table)
  <2>1. most = Foremost(seq)
    BY DEF LeadingKpis
  <2>2. seq # <<>> /\ most = Head(seq)
    BY <1>4, <2>1 DEF Foremost
  <2>3. {w \in all : Matches(WorkerItem(rows, w), Nothing)} = all
    BY DEF Matches
  <2>4. table = InOrder(rows, all, field, direction)
    BY <2>3 DEF TableRows
  <2>5. field \in {"fullName", "absentCount"} /\ direction \in {"asc", "desc"}
        /\ field = "absentCount" /\ direction = "desc"
    OBVIOUS
  <2>6. \A w \in all : Count(w) \in Nat
    BY <1>1, <1>2, ItemIs
  <2> HIDE DEF seq, field, direction, table, Count, most
  <2>7. most \in all /\ \A w \in all : Count(w) <= Count(most)
    BY <1>1, <1>2, <2>2, MostAbsent DEF seq, Count
  <2>8. first \in all /\ \A w \in all : Count(w) <= Count(first)
    <3>1. all \in SUBSET Workers(rows) /\ all # {}
      BY <2>7
    <3> HIDE DEF all
    <3> QED BY <1>1, <1>2, <2>4, <2>5, <3>1, TableLists DEF Count
  <2> HIDE DEF all, first
  <2>9. Count(first) = Count(most)
    BY <2>6, <2>7, <2>8
  <2> QED BY <2>9 DEF first, table, field, direction, most
<1> QED BY <1>3, <1>4 DEF TableComplete, rows

\* A file of rows of different days, in their order
IsCalendar(file, rows) ==
  /\ IsFiniteSet(rows) /\ \A r \in rows : r.date \in Int
  /\ \A r, s \in rows : r.date = s.date => r = s
  /\ file \in Seq(rows) /\ Len(file) \in Nat /\ ToSet(file) = rows
  /\ \A i, j \in 1 .. Len(file) : i < j => file[i].date < file[j].date

\* Where in the file, and of what days, are the rows S
PlacedAt(places, dates, file, S) ==
  /\ \A i : i \in places <=> i \in 1 .. Len(file) /\ file[i] \in S
  /\ \A r \in S : r.date \in dates
  /\ \A d \in dates : \E r \in S : r.date = d

\* Some of the rows of a calendar: their places, and the last of them
LEMMA CalendarPlaces ==
  ASSUME NEW rows, NEW file, IsCalendar(file, rows), NEW S \in SUBSET rows,
         NEW places, NEW dates, PlacedAt(places, dates, file, S)
  PROVE  /\ Cardinality(places) = Cardinality(S)
         /\ places = {} <=> S = {}
         /\ S # {} => /\ Max(places) \in places /\ \A i \in places : i <= Max(places)
                      /\ Max(dates) = file[Max(places)].date
<1> DEFINE at == [i \in places |-> file[i]]
<1>1. /\ Len(file) \in Nat /\ DOMAIN file = 1 .. Len(file)
      /\ ToSet(file) = rows /\ \A r \in rows : r.date \in Int
      /\ \A i, j \in 1 .. Len(file) : i < j => file[i].date < file[j].date
      /\ \A i \in 1 .. Len(file) : file[i] \in rows
  BY DEF IsCalendar
<1>10. /\ \A i : i \in places <=> i \in 1 .. Len(file) /\ file[i] \in S
       /\ \A r \in S : r.date \in dates
       /\ \A d \in dates : \E r \in S : r.date = d
  BY DEF PlacedAt
<1>2. \A r \in S : \E i \in places : file[i] = r
  <2>1. \A r \in rows : \E i \in 1 .. Len(file) : file[i] = r
    BY <1>1 DEF ToSet
  <2> QED BY <1>10, <2>1
<1>3. \A i \in 1 .. Len(file) : i \in Int /\ file[i] \in rows /\ file[i].date \in Int
  BY <1>1
<1>4. ASSUME NEW i \in 1 .. Len(file), NEW j \in 1 .. Len(file), file[i] = file[j] PROVE i = j
  <2>1. i < j \/ j < i \/ i = j
    BY <1>3
  <2>2. ASSUME i < j PROVE FALSE
    BY <1>1, <1>3, <1>4, <2>2
  <2>3. ASSUME j < i PROVE FALSE
    BY <1>1, <1>3, <1>4, <2>3
  <2> QED BY <2>1, <2>2, <2>3
<1>5. places \subseteq 1 .. Len(file) /\ \A i \in places : file[i] \in S
  BY <1>10
<1>6. IsFiniteSet(places)
  <2>1. IsFiniteSet(1 .. Len(file))
    BY <1>1, FS_Interval
  <2> QED BY <1>5, <2>1, FS_Subset
<1>7. Cardinality(places) = Cardinality(S)
  <2>1. at \in [places -> S] /\ \A i, j \in places : at[i] = at[j] => i = j
    BY <1>4, <1>5
  <2>2. \A r \in S : \E i \in places : at[i] = r
    BY <1>2
  <2> HIDE DEF at
  <2>3. at \in Injection(places, S) /\ at \in Surjection(places, S)
    BY <2>1, <2>2 DEF Injection, IsInjective, Surjection
  <2> QED BY <1>6, <2>3, FS_Surjection
<1>8. places = {} <=> S = {}
  BY <1>2, <1>5
<1>9. ASSUME S # {}
      PROVE  /\ Max(places) \in places /\ \A i \in places : i <= Max(places)
             /\ Max(dates) = file[Max(places)].date
  <2> DEFINE top == Max(places)
             last == file[top].date
  <2>1. top \in places /\ \A i \in places : i <= top
    BY <1>1, <1>5, <1>8, <1>9, GreatestIsThere
  <2> HIDE DEF top
  <2>2. file[top] \in S /\ last \in Int /\ last \in dates
    BY <1>3, <1>5, <1>10, <2>1
  <2>3. ASSUME NEW r \in S PROVE r.date <= last
    <3>1. PICK i \in places : file[i] = r
      BY <1>2
    <3>2. i = top \/ i < top
      BY <1>3, <1>5, <2>1
    <3>3. i < top => file[i].date < file[top].date
      BY <1>1, <1>5, <2>1
    <3>4. file[i].date \in Int /\ file[top].date \in Int
      BY <1>3, <1>5, <2>1
    <3> QED BY <3>1, <3>2, <3>3, <3>4
  <2> HIDE DEF last
  <2>4. \A d \in dates : d \in Int /\ d <= last
    BY <1>1, <1>10, <2>3
  <2>5. Max(dates) = last
    <3>1. \E x \in dates : \A y \in dates : x >= y
      BY <2>2, <2>4
    <3> DEFINE most == Max(dates)
    <3>2. most \in dates /\ \A y \in dates : most >= y
      BY <3>1 DEF Max
    <3> HIDE DEF most
    <3>3. most \in Int /\ most <= last /\ most >= last
      BY <2>2, <2>4, <3>2
    <3>4. most = last
      BY <2>2, <3>3
    <3> QED BY <3>4 DEF most
  <2> QED BY <2>1, <2>5 DEF top, last
<1> QED BY <1>7, <1>8, <1>9 

\* The page of a worker: each day of the file once, the absences of the table, the last
\* of them and the status of the last day

LEMMA WorkerPages ==
  ASSUME AnalyticsTypeOK, NEW from \in Calendar, NEW to \in from .. LastCounted,
         NEW w \in Workers(Dataset(from, to, NoFilter))
  PROVE  LET item == WorkerItem(Dataset(from, to, NoFilter), w)
             file == WorkerFile(w, from, to)
             absences == {i \in DOMAIN file : file[i].day.status = "absent"}
             few == WorkerPage(w, from, to, {"absent"}, to)
         IN /\ \A i, j \in DOMAIN file : i < j => file[i].date < file[j].date
            /\ Cardinality(absences) = item.counts.absentCount
            /\ item.lastAbsenceAt = IF absences = {} THEN Nothing ELSE file[Max(absences)].date
            /\ Len(few.calendar) = item.counts.absentCount
            /\ Cardinality(FileRowsOf("worker", w, from, to, 1)) = Len(file)
            /\ few.currentStatus = file[Len(file)].day.status
<1> DEFINE rows == Dataset(from, to, NoFilter)
           own == Group(rows, "worker", w)
           out == {r \in own : r.day.status = "absent"}
           item == WorkerItem(rows, w)
           file == WorkerFile(w, from, to)
           absences == {i \in DOMAIN file : file[i].day.status = "absent"}
           few == WorkerPage(w, from, to, {"absent"}, to)
<1>1. RowsOfPeople(rows, from, to)
  BY PeriodIsOfPeople
<1>2. /\ IsFiniteSet(rows) /\ from \in Int /\ to \in Int
      /\ \A r \in rows : r.date \in from .. to
      /\ \A r, s \in rows : (r.worker = s.worker /\ r.date = s.date) => r = s
  BY <1>1 DEF RowsOfPeople, RowsFrom
<1>3. w \in People
  BY PeriodRows DEF Workers
<1>4. Detail("worker", w, from, to) = own
  BY <1>3, DetailsAre
<1>21. ASSUME NEW S
       PROVE  Dataset(from, to, [NoFilter EXCEPT !.worker = w, !.statuses = S])
                = {r \in own : S = {} \/ r.day.status \in S}
  <2> DEFINE its == Dataset(from, to, [NoFilter EXCEPT !.worker = w, !.statuses = S])
  <2>1. \A r : r \in its <=> r \in own /\ (S = {} \/ r.day.status \in S)
    BY <1>3, WorkerFiltered
  <2> HIDE DEF its, own
  <2>2. its = {r \in own : S = {} \/ r.day.status \in S}
    BY <2>1
  <2> QED BY <2>2 DEF its
<1>5. /\ item.counts.absentCount = Cardinality(out)
      /\ item.lastAbsenceAt = IF out = {} THEN Nothing ELSE Max({r.date : r \in out})
  BY DEF WorkerItem, CountsOf, LastDateOf
<1>6. own \subseteq rows /\ own # {} /\ \A r \in own : r.worker = w
  BY DEF Group, Workers
<1> HIDE DEF rows, own
<1>7. /\ IsFiniteSet(own) /\ IsFiniteSet(out) /\ out \in SUBSET own
      /\ \A r \in own : r.date \in Int /\ r.date <= to
      /\ \A r, s \in own : r.date = s.date => r = s
  <2>1. IsFiniteSet(own)
    BY <1>2, <1>6, FS_Subset
  <2>2. out \in SUBSET own
    OBVIOUS
  <2>3. IsFiniteSet(out)
    BY <2>1, <2>2, FS_Subset
  <2>4. ASSUME NEW r \in own PROVE r.date \in Int /\ r.date <= to
    <3>1. r.date \in from .. to
      BY <1>2, <1>6
    <3> QED BY <1>2, <3>1
  <2>5. \A r, s \in own : r.date = s.date => r = s
    BY <1>2, <1>6
  <2> HIDE DEF out
  <2> QED BY <2>1, <2>2, <2>3, <2>4, <2>5
<1>8. file = Rank([r \in own |-> <<-r.date>>], Cardinality(own))
  <2>1. Dataset(from, to, [NoFilter EXCEPT !.worker = w, !.statuses = {}]) = own
    <3>1. {r \in own : {} = {} \/ r.day.status \in {}} = own
      OBVIOUS
    <3> QED BY <1>21, <3>1
  <2> QED BY <2>1 DEF WorkerFile, WorkerPage
<1>9. few.calendar = Rank([r \in out |-> <<-r.date>>], Cardinality(out))
  <2>1. Dataset(from, to, [NoFilter EXCEPT !.worker = w, !.statuses = {"absent"}]) = out
    <3>1. {r \in own : {"absent"} = {} \/ r.day.status \in {"absent"}} = out
      OBVIOUS
    <3> QED BY <1>21, <3>1
  <2> HIDE DEF out
  <2> QED BY <2>1 DEF WorkerPage
<1>10. few.currentStatus = CurrentStatus(own, to)
  BY <1>4 DEF WorkerPage
<1>11. FileRowsOf("worker", w, from, to, 1)
         = {<<"worker", file[i].date, file[i].day.status>> : i \in DOMAIN file}
  BY DEF FileRowsOf
<1> HIDE DEF file, few, item
<1>12. /\ file \in Seq(own) /\ Len(file) = Cardinality(own) /\ Len(file) \in Nat
       /\ ToSet(file) = own
       /\ \A i, j \in 1 .. Len(file) : i < j => file[i].date < file[j].date
  BY <1>7, <1>8, CalendarSorts
<1>13. DOMAIN file = 1 .. Len(file)
  BY <1>12
<1>22. IsCalendar(file, own)
  BY <1>7, <1>12 DEF IsCalendar
<1>14. /\ Cardinality(absences) = Cardinality(out)
       /\ absences = {} <=> out = {}
       /\ out # {} => Max({r.date : r \in out}) = file[Max(absences)].date
  <2> DEFINE places == {i \in 1 .. Len(file) : file[i] \in out}
  <2>1. absences = places
    BY <1>12, <1>13
  <2> DEFINE dates == {r.date : r \in out}
  <2>3. /\ \A i : i \in places <=> i \in 1 .. Len(file) /\ file[i] \in out
        /\ \A r \in out : r.date \in dates
        /\ \A d \in dates : \E r \in out : r.date = d
    OBVIOUS
  <2>4. PlacedAt(places, dates, file, out)
    BY <2>3 DEF PlacedAt
  <2> HIDE DEF absences, out, places, dates
  <2>2. /\ Cardinality(places) = Cardinality(out)
        /\ places = {} <=> out = {}
        /\ out # {} => Max(dates) = file[Max(places)].date
    BY <1>7, <1>22, <2>4, CalendarPlaces
  <2> QED BY <2>1, <2>2 DEF dates
<1>15. Len(few.calendar) = Cardinality(out)
  <2>1. /\ \A r \in out : r.date \in Int
        /\ \A r, s \in out : r.date = s.date => r = s
    BY <1>7
  <2> HIDE DEF out
  <2> QED BY <1>7, <1>9, <2>1, CalendarSorts
<1>16. Cardinality(FileRowsOf("worker", w, from, to, 1)) = Len(file)
  <2> DEFINE Slots == 1 .. Len(file)
             line == [i \in Slots |-> <<"worker", file[i].date, file[i].day.status>>]
             lines == {line[i] : i \in Slots}
  <2>1. FileRowsOf("worker", w, from, to, 1) = lines
    BY <1>11, <1>13
  <2>2. ASSUME NEW i \in Slots, NEW j \in Slots, line[i] = line[j] PROVE i = j
    <3>1. file[i].date = file[j].date
      BY <2>2
    <3>2. i \in Int /\ j \in Int /\ file[i].date \in Int /\ file[j].date \in Int
      BY <1>7, <1>12
    <3>3. /\ i < j => file[i].date < file[j].date
          /\ j < i => file[j].date < file[i].date
      BY <1>12
    <3> HIDE DEF line, Slots
    <3> QED BY <3>1, <3>2, <3>3
  <2>3. line \in [Slots -> lines] /\ \A x \in lines : \E i \in Slots : line[i] = x
    OBVIOUS
  <2>4. IsFiniteSet(Slots) /\ Cardinality(Slots) = Len(file)
    BY <1>12, FS_Interval
  <2> HIDE DEF line, lines, Slots
  <2>5. line \in Injection(Slots, lines) /\ line \in Surjection(Slots, lines)
    BY <2>2, <2>3 DEF Injection, IsInjective, Surjection
  <2>6. Cardinality(lines) = Cardinality(Slots)
    BY <2>4, <2>5, FS_Surjection
  <2> QED BY <2>1, <2>4, <2>6
<1>17. few.currentStatus = file[Len(file)].day.status
  <2> DEFINE last == file[Len(file)]
             places == {i \in 1 .. Len(file) : file[i] \in own}
             top == Max(places)
             dates == {r.date : r \in own}
  <2>1. places = 1 .. Len(file) /\ own \in SUBSET own
    BY <1>12
  <2>9. /\ \A i : i \in places <=> i \in 1 .. Len(file) /\ file[i] \in own
        /\ \A r \in own : r.date \in dates
        /\ \A d \in dates : \E r \in own : r.date = d
    OBVIOUS
  <2>10. PlacedAt(places, dates, file, own)
    BY <2>9 DEF PlacedAt
  <2> HIDE DEF places, out, dates
  <2>2. /\ top \in places /\ \A i \in places : i <= top
        /\ Max(dates) = file[top].date
    <3>1. own \in SUBSET own /\ own # {}
      BY <1>6
    <3> HIDE DEF file
    <3>2. /\ Max(places) \in places /\ \A i \in places : i <= Max(places)
          /\ Max(dates) = file[Max(places)].date
      BY <1>22, <2>10, <3>1, CalendarPlaces
    <3> QED BY <3>2
  <2> HIDE DEF top
  <2>3. Len(file) \in places
    <3>1. Cardinality(own) # 0
      BY <1>6, <1>7, FS_EmptySet
    <3> QED BY <1>12, <2>1, <3>1
  <2>4. top = Len(file)
    BY <1>12, <2>1, <2>2, <2>3
  <2>5. {r \in own : r.date <= to} = own
    BY <1>7
  <2>6. last \in own /\ last.date = LastDateOf(own)
    BY <1>6, <1>12, <2>1, <2>2, <2>3, <2>4 DEF LastDateOf, dates
  <2> HIDE DEF last
  <2>7. (CHOOSE r \in own : r.date = LastDateOf(own)) = last
    BY <1>7, <2>6
  <2>8. CurrentStatus(own, to) = (CHOOSE r \in own : r.date = LastDateOf(own)).day.status
    BY <1>6, <2>5 DEF CurrentStatus
  <2> QED BY <1>10, <2>7, <2>8 DEF last
<1>18. item.lastAbsenceAt = IF absences = {} THEN Nothing ELSE file[Max(absences)].date
  BY <1>5, <1>14
<1>19. \A i, j \in DOMAIN file : i < j => file[i].date < file[j].date
  BY <1>12, <1>13
<1>20. Cardinality(absences) = item.counts.absentCount /\ Len(few.calendar) = item.counts.absentCount
  BY <1>5, <1>14, <1>15
<1> QED BY <1>16, <1>17, <1>18, <1>19, <1>20 DEF rows, item, file, few

\* The rows of an area are all those of its workers.
LEMMA AreaRows ==
  ASSUME NEW rows, NEW from, NEW to, RowsOfPeople(rows, from, to),
         \A r \in rows : r.area = area[r.worker], NEW u
  PROVE  LET inArea == Group(rows, "area", u)
         IN  /\ RowsOfPeople(inArea, from, to) /\ \A r \in inArea : r.area = area[r.worker]
             /\ \A w \in Workers(inArea) :
                  /\ w \in Workers(rows)
                  /\ Group(inArea, "worker", w) = Group(rows, "worker", w)
<1> DEFINE inArea == Group(rows, "area", u)
<1>1. inArea \subseteq rows /\ \A r \in rows : r \in inArea <=> r.area = u
  BY DEF Group
<1> HIDE DEF inArea
<1>2. RowsOfPeople(inArea, from, to)
  <2>1. RowsFrom(inArea, from, to)
    BY <1>1, FS_Subset DEF RowsFrom, RowsOfPeople
  <2> QED BY <1>1, <2>1 DEF RowsOfPeople
<1>3. ASSUME NEW w \in Workers(inArea)
      PROVE  w \in Workers(rows) /\ Group(inArea, "worker", w) = Group(rows, "worker", w)
  <2>1. PICK r \in inArea : r.worker = w
    BY DEF Workers
  <2>2. area[w] = u
    BY <1>1, <2>1
  <2>3. \A s \in rows : s.worker = w => s \in inArea
    BY <1>1, <2>2
  <2>4. Group(inArea, "worker", w) = Group(rows, "worker", w)
    BY <1>1, <2>3 DEF Group
  <2>5. w \in Workers(rows)
    BY <1>1, <2>1 DEF Workers
  <2> QED BY <2>4, <2>5
<1> QED BY <1>1, <1>2, <1>3 DEF inArea

\* Where the absences of some rows are counted, one of their workers has some.
LEMMA SomeoneAbsent ==
  ASSUME NEW rows, NEW from \in Nat, NEW to, RowsOfPeople(rows, from, to),
         \A r \in rows : r.area = area[r.worker], CountsOf(rows).absentCount # 0
  PROVE  \E w \in Workers(rows) : WorkerItem(rows, w).counts.absentCount # 0
<1> DEFINE out == {r \in rows : r.day.status = "absent"}
<1>1. CountsOf(rows).absentCount = Cardinality(out)
  BY DEF CountsOf
<1>2. out # {}
  BY <1>1, FS_EmptySet
<1>3. PICK r \in rows : r.day.status = "absent"
  BY <1>2
<1> DEFINE w == r.worker
           own == Group(rows, "worker", w)
           mine == {s \in own : s.day.status = "absent"}
<1>4. w \in Workers(rows)
  BY DEF Workers
<1>5. r \in mine /\ mine \subseteq rows
  BY <1>3 DEF Group
<1>6. WorkerItem(rows, w).counts.absentCount = Cardinality(mine)
  BY DEF WorkerItem, CountsOf
<1> HIDE DEF w, mine
<1>7. IsFiniteSet(mine)
  BY <1>5, FS_Subset DEF RowsOfPeople, RowsFrom
<1>8. Cardinality(mine) # 0
  BY <1>5, <1>7, FS_EmptySet
<1> QED BY <1>4, <1>6, <1>8

\* The page of the area with most absences
LEMMA AreaPages ==
  ASSUME AnalyticsTypeOK, NEW from \in Calendar, NEW to \in from .. LastCounted,
         NEW worst, worst = LeadingKpis(Dataset(from, to, NoFilter)).areaWithMostAbsences,
         worst # Nothing
  PROVE  LET rows == Dataset(from, to, NoFilter)
             page == EntityPage("area", worst, from, to, 1)
             head == Head(page.rankings.topAbsent)
         IN /\ page.counts.absentCount = Chart(rows, "area")[worst].absentCount
            /\ page.trend = DailyTrend(Group(rows, "area", worst), from, to)
            /\ <<"topAbsentWorkers", head, WorkerItem(rows, head).counts.absentCount>>
                 \in FileRowsOf("area", worst, from, to, 1)
<1> DEFINE rows == Dataset(from, to, NoFilter)
           by == "area"
           areas == Chart(rows, by)
           ranked == DimensionRanking(rows, by, 1)
           inArea == Group(rows, "area", worst)
           page == EntityPage("area", worst, from, to, 1)
           seq == Rankings(inArea, 1).topAbsent
           m == Chart(inArea, "worker")
           head == Head(seq)
<1>1. RowsOfPeople(rows, from, to) /\ RowsFrom(rows, from, to) /\ from \in Nat
  <2>1. from \in Nat
    BY DEF Calendar
  <2> QED BY <2>1, PeriodIsOfPeople DEF RowsOfPeople
<1>2. \A r \in rows : r.area = area[r.worker] /\ r.area \in Units \cup {Nothing}
  BY PeriodRows
<1>3. worst = Foremost(ranked)
  BY DEF LeadingKpis
<1>4. DOMAIN areas = {r.area : r \in rows} /\ \A k \in DOMAIN areas : areas[k] = CountsOf(Group(rows, by, k))
  BY DEF Chart, GroupKeys
<1> HIDE DEF rows
<1>5. ranked # <<>> /\ worst = Head(ranked)
  BY <1>3 DEF Foremost
<1>6. worst \in DOMAIN areas /\ areas[worst].absentCount > 0
  <2>1. \A r \in rows : r[by] \in Int
    <3>1. Units \cup {Nothing} \subseteq Int
      BY AnalyticsAssumption DEF Nothing
    <3>2. \A r \in rows : r[by] \in Units \cup {Nothing}
      BY <1>2
    <3> HIDE DEF by
    <3> QED BY <3>1, <3>2
  <2> HIDE DEF by
  <2>2. ranked # <<>> => Head(ranked) \in DOMAIN areas /\ areas[Head(ranked)].absentCount > 0
    BY <1>1, <2>1, FirstInChart
  <2> QED BY <1>5, <2>2
<1>7. worst \in Units
  BY <1>2, <1>4, <1>6
<1>8. Detail("area", worst, from, to) = inArea
  BY <1>7, DetailsAre DEF rows
<1>9. areas[worst] = CountsOf(inArea)
  BY <1>4, <1>6
<1>10. /\ page.counts = CountsOf(inArea)
       /\ page.trend = DailyTrend(inArea, from, to)
       /\ page.rankings.topAbsent = seq
  BY <1>8 DEF EntityPage
<1>11. FileRowsOf("area", worst, from, to, 1) = FileOf(inArea, 1)
  BY <1>8 DEF FileRowsOf
<1>12. RankingRows("topAbsentWorkers", seq, [w \in DOMAIN m |-> m[w].absentCount]) \subseteq FileOf(inArea, 1)
  BY DEF FileOf
<1>13. /\ RowsOfPeople(inArea, from, to) /\ \A r \in inArea : r.area = area[r.worker]
       /\ \A w \in Workers(inArea) :
            /\ w \in Workers(rows)
            /\ Group(inArea, "worker", w) = Group(rows, "worker", w)
  BY <1>1, <1>2, AreaRows
<1> HIDE DEF inArea, page, seq, m, areas, ranked
<1>14. seq # <<>> /\ seq \in Seq(Workers(inArea)) /\ Head(seq) \in Workers(inArea)
  <2>1. CountsOf(inArea).absentCount # 0
    <3>1. CountsOf(inArea).absentCount > 0
      BY <1>6, <1>9
    <3> QED BY <3>1
  <2>2. PICK w \in Workers(inArea) : WorkerItem(inArea, w).counts.absentCount # 0
    BY <1>1, <1>13, <2>1, SomeoneAbsent
  <2>3. /\ seq \in Seq(Workers(inArea))
        /\ seq = <<>> => \A v \in Workers(inArea) : WorkerItem(inArea, v).counts.absentCount = 0
        /\ seq # <<>> => Head(seq) \in Workers(inArea)
    BY <1>1, <1>13, MostAbsent DEF seq
  <2> QED BY <2>2, <2>3
<1>15. 1 \in DOMAIN seq /\ head = seq[1]
  BY <1>14
<1>16. /\ head \in DOMAIN m
       /\ m[head].absentCount = WorkerItem(rows, head).counts.absentCount
  <2>1. /\ head \in DOMAIN m
        /\ m[head] = CountsOf(Group(inArea, "worker", head))
    BY <1>14 DEF m, Chart, GroupKeys, Workers
  <2>2. WorkerItem(rows, head).counts = CountsOf(Group(rows, "worker", head))
    BY DEF WorkerItem
  <2> QED BY <1>13, <1>14, <2>1, <2>2
<1>17. <<"topAbsentWorkers", head, m[head].absentCount>>
         \in RankingRows("topAbsentWorkers", seq, [w \in DOMAIN m |-> m[w].absentCount])
  <2> DEFINE values == [w \in DOMAIN m |-> m[w].absentCount]
  <2>1. values[head] = m[head].absentCount
    BY <1>16
  <2> HIDE DEF values, head
  <2>2. <<"topAbsentWorkers", seq[1], values[seq[1]]>> \in RankingRows("topAbsentWorkers", seq, values)
    BY <1>15 DEF RankingRows
  <2> QED BY <1>15, <2>1, <2>2 DEF values
<1>18. <<"topAbsentWorkers", head, WorkerItem(rows, head).counts.absentCount>>
         \in FileRowsOf("area", worst, from, to, 1)
  BY <1>11, <1>12, <1>16, <1>17
<1>19. page.counts.absentCount = areas[worst].absentCount
  BY <1>9, <1>10
<1> QED BY <1>10, <1>18, <1>19 DEF rows, page, areas, inArea

\* What is opened shows what was clicked.
LEMMA PagesMatch ==
  ASSUME AnalyticsTypeOK, NEW from \in Calendar, NEW to \in from .. LastCounted
  PROVE  PagesMatchTable(from, to)
<1> DEFINE rows == Dataset(from, to, NoFilter)
           worst == LeadingKpis(rows).areaWithMostAbsences
<1>1. \A w \in People : WorkerKnown(w, from, to) <=> w \in Workers(rows)
  <2>1. ASSUME NEW w \in People PROVE WorkerKnown(w, from, to) <=> w \in Workers(rows)
    <3>1. Detail("worker", w, from, to) = Group(rows, "worker", w)
      BY DetailsAre
    <3> HIDE DEF rows
    <3>2. w \in Workers(rows) <=> Group(rows, "worker", w) # {}
      BY DEF Workers, Group
    <3> QED BY <3>1, <3>2 DEF WorkerKnown
  <2> QED BY <2>1
<1>2. ASSUME NEW w \in Workers(rows)
      PROVE  LET item == WorkerItem(rows, w)
                 file == WorkerFile(w, from, to)
                 absences == {i \in DOMAIN file : file[i].day.status = "absent"}
                 few == WorkerPage(w, from, to, {"absent"}, to)
             IN /\ \A i, j \in DOMAIN file : i < j => file[i].date < file[j].date
                /\ Cardinality(absences) = item.counts.absentCount
                /\ item.lastAbsenceAt = IF absences = {} THEN Nothing ELSE file[Max(absences)].date
                /\ Len(few.calendar) = item.counts.absentCount
                /\ Cardinality(FileRowsOf("worker", w, from, to, 1)) = Len(file)
                /\ few.currentStatus = file[Len(file)].day.status
  BY WorkerPages
<1>3. ASSUME worst # Nothing
      PROVE  LET page == EntityPage("area", worst, from, to, 1)
                 head == Head(page.rankings.topAbsent)
             IN /\ page.counts.absentCount = Chart(rows, "area")[worst].absentCount
                /\ page.trend = DailyTrend(Group(rows, "area", worst), from, to)
                /\ <<"topAbsentWorkers", head, WorkerItem(rows, head).counts.absentCount>>
                     \in FileRowsOf("area", worst, from, to, 1)
  BY <1>3, AreaPages
<1> QED BY <1>1, <1>2, <1>3 DEF PagesMatchTable

LEMMA AnalyticsCount == AnalyticsTypeOK => AnalyticsAddUp
BY DashboardsAdd, FiguresOfPeriods, TablesComplete, PagesMatch DEF AnalyticsAddUp

-------------------------------------------------------------------------------
(* All of them, side by side *)

RecordsInv ==
  /\ AccountsTypeOK /\ CataloguesTypeOK /\ RestDaysTypeOK
  /\ ViewsInv /\ DayCardsTypeOK
  /\ AnalyticsTypeOK /\ PayInv /\ BoardsTypeOK /\ ReportsTypeOK /\ HoursInv

LEMMA RecordsBegin == Init => RecordsInv
<1> SUFFICES ASSUME Init PROVE RecordsInv
  OBVIOUS
<1>1. ViewsInv
  <2>1. DayViewsTypeOK
    BY DayViewsBegin DEF Init
  <2>2. RowsHaveCome
    BY DEF Init, DayViewsInit, RowsHaveCome, Recorded
  <2> QED BY <2>1, <2>2 DEF ViewsInv
<1>2. DayCardsTypeOK
  BY DEF Init, DayCardsInit, DayCardsTypeOK
<1> QED BY <1>1, <1>2, AccountsBegin, CataloguesBegin, RestDaysBegin, AnalyticsBegin, PayBegins,
           BoardsBegin, ReportsBegin, HoursBegin DEF Init, RecordsInv

\* A row that is stored is of a day that has come, and no day goes back.
LEMMA RowsStayPast ==
  ASSUME ViewsInv, [DayViewsNext]_viewVars \/ [DayCardsNext]_cardVars
  PROVE  RowsHaveCome'
<1> USE DEF ViewsInv, RowsHaveCome, Recorded
<1>1. CASE UNCHANGED viewVars
  BY <1>1 DEF viewVars
<1>2. CASE NextDay
  BY <1>2 DEF NextDay, DayViewsTypeOK, ViewDays
<1>3. ASSUME NEW d \in ViewDays, NEW row \in RowForms, StoreRow(d, row) PROVE RowsHaveCome'
  BY <1>3 DEF StoreRow, DayViewsTypeOK
<1>4. ASSUME today' = today /\ records' = records PROVE RowsHaveCome'
  BY <1>4
<1>5. CASE DayViewsNext
  BY <1>2, <1>3, <1>4, <1>5 DEF DayViewsNext, Reschedule, ChangeHoliday, Approve
<1>6. CASE DayCardsNext
  BY <1>1, <1>2, <1>3, <1>4, <1>6, DayCardsAssumption
     DEF DayCardsNext, Reschedule, ChangeHoliday, Approve, ChangeShiftDays
<1> QED BY <1>1, <1>5, <1>6 DEF cardVars

\* A step of one component leaves the others as they are.
LEMMA EachSteps ==
  ASSUME [Next]_recordsVars
  PROVE  /\ [AccountsNext]_accountsVars /\ [CataloguesNext]_cataloguesVars
         /\ [RestDaysNext]_restVars /\ [AnalyticsNext]_analyticsVars
         /\ [PayrollNext]_payrollVars /\ [BoardsNext]_boardsVars
         /\ [ReportsNext]_reportsVars /\ [HoursNext]_hoursVars
         /\ [DayCardsNext]_cardVars \/ ([DayViewsNext]_viewVars /\ UNCHANGED shiftDays)
BY DEF Next, recordsVars, cardVars

LEMMA RecordsKept == RecordsInv /\ [Next]_recordsVars => RecordsInv'
<1> SUFFICES ASSUME RecordsInv, [Next]_recordsVars PROVE RecordsInv'
  OBVIOUS
<1> USE DEF RecordsInv
<1>1. AccountsTypeOK' /\ CataloguesTypeOK' /\ RestDaysTypeOK'
  BY EachSteps, AccountsKept, CataloguesKept, RestDaysKept
<1>2. AnalyticsTypeOK' /\ PayInv' /\ BoardsTypeOK'
  BY EachSteps, AnalyticsKept, PayKept, BoardsKept
<1>3. ReportsTypeOK' /\ HoursInv'
  BY EachSteps, ReportsKept, HoursKept
<1>4. ViewsInv' /\ DayCardsTypeOK'
  <2>1. RowsHaveCome'
    BY EachSteps, RowsStayPast
  <2>2. CASE [DayCardsNext]_cardVars
    BY <2>1, <2>2, DayCardsKept DEF ViewsInv
  <2>3. CASE [DayViewsNext]_viewVars /\ UNCHANGED shiftDays
    BY <2>1, <2>3, DayViewsKept DEF ViewsInv, DayCardsTypeOK
  <2> QED BY <2>2, <2>3, EachSteps
<1> QED BY <1>1, <1>2, <1>3, <1>4

LEMMA RecordsStand == Spec => []RecordsInv
<1>1. Init => RecordsInv
  BY RecordsBegin
<1>2. RecordsInv /\ [Next]_recordsVars => RecordsInv'
  BY RecordsKept
<1> QED BY <1>1, <1>2, PTL DEF Spec

\* Every table and list keeps its type, and what the readers make of a day, whatever
\* requests, schedules and rows it has, is one of the kinds the analytics count
\* (buildDatasetQuery): none falls outside the counts of a dashboard.
THEOREM RecordsTyped == Spec => []TypeOK
<1>1. RecordsInv => TypeOK
  BY KindsArePossible DEF RecordsInv, TypeOK, ViewsInv, PayInv, HoursInv
<1> QED BY <1>1, RecordsStand, PTL

\* The analytics, the schedules' summary, the worker's history and the payroll agree on an
\* absence; a week, a payroll, a report and a summary of the same days cost and count the
\* same; and a card asks, offers and forewarns what the server then does: for any length of
\* the period, rows, kinds of leave and number of requests that overlap.
THEOREM ReadersAgree == Spec => []DaysToldAlike
<1>1. RecordsInv => DaysToldAlike
  BY ViewsAgree, TotalsAddUp, CardsAgree DEF RecordsInv, ViewsInv, DaysToldAlike
<1> QED BY <1>1, RecordsStand, PTL

\* What was shown of the components by themselves holds of them side by side: the slips
\* of a period, the hours of a shift and the days of rest, under the specification the
\* run checks.
THEOREM RecordsKeepTheirWord == Spec => SlipsStand /\ ShiftStands /\ []RestNeverScheduled
<1>1. RecordsInv /\ [Next]_recordsVars =>
        [/\ \A c \in Clerks : (GenerateEnd(c) /\ generation[c].alone) => slips' = generation[c].found
         /\ (period \in Settled /\ \A c \in Clerks : ~Running(c)) =>
              slips' = slips /\ period' \in Settled]_payrollVars
  BY EachSteps, StepStands DEF RecordsInv
<1>2. RecordsInv /\ [Next]_recordsVars => [EditKeepsRest]_hoursVars
  BY EachSteps, StepKeepsRest DEF RecordsInv
<1>3. RecordsInv => HoursAddUp
  BY DEF RecordsInv, HoursInv
<1>4. RestNeverScheduled
  BY RestIsNotWork DEF RestNeverScheduled, Agreed
<1> QED BY <1>1, <1>2, <1>3, <1>4, RecordsStand, PTL DEF Spec, SlipsStand, ShiftStands

\* Whatever the rows of a period, for any number of workers and days: a dashboard's charts
\* and trends sum to its totals, no rate passes a hundred, what one opens shows the rows
\* that were counted, and the rankings list whom they should (buildDatasetQuery, groupRows,
\* finalizeMetrics, buildRankings).
THEOREM DashboardsStand == Spec => []DashboardAddsUp
<1>1. RecordsInv => DashboardAddsUp
  BY DashboardsAdd DEF RecordsInv
<1> QED BY <1>1, RecordsStand, PTL

\* For any staff and any size of page: a board's pages show each row that ties with no
\* other once, its figures agree with its lists, and an alert opens on rows to show.
THEOREM BoardsStand == Spec => []BoardsAgree
<1>1. RecordsInv => BoardsAgree
  BY PagesShow, FiguresStand, AlertsShow DEF RecordsInv, BoardsAgree
<1> QED BY <1>1, RecordsStand, PTL

\* Whatever the rows of a period, for any number of workers and days: the distribution
\* counts each row once, and twice one left open; no week, nor today, has more workers
\* than the period; a worker's figures asked for alone are those of the chart; the pages of
\* the table make the exported table, for any text and order; and the page and the file of
\* a worker, or of the area with most absences, show what the table counts
\* (buildStatusDistribution, getTrend, filterBySearch, sortItems, paginate,
\* buildWorkerDetailResponse, buildAggregateDetailResponse, exportAnalytics).
THEOREM AnalyticsStand == Spec => []AnalyticsAddUp
<1>1. RecordsInv => AnalyticsAddUp
  BY AnalyticsCount DEF RecordsInv
<1> QED BY <1>1, RecordsStand, PTL

\* For any requests, criteria and viewer: the charts of a report count each of its rows
\* once and agree with its summary, whatever they are grouped by; and the pages of a
\* preview make the export, which lists what the lists of the service do, as long as there
\* are no more requests than one file may hold (the limit of an export).
THEOREM ReportsStand ==
  /\ Spec => []ChartsCountTheReport
  /\ MaxFiled <= ExportLimit => (Spec => []PagesMakeTheReport)
<1>1. RecordsInv => ChartsCountTheReport
  BY ChartsCountReports DEF RecordsInv
<1>2. ASSUME MaxFiled <= ExportLimit PROVE RecordsInv => PagesMakeTheReport
  BY <1>2, PagesMakeReports DEF RecordsInv
<1>3. Spec => []ChartsCountTheReport
  BY <1>1, RecordsStand, PTL
<1>4. ASSUME MaxFiled <= ExportLimit PROVE Spec => []PagesMakeTheReport
  <2>1. RecordsInv => PagesMakeTheReport
    BY <1>2, <1>4
  <2> QED BY <2>1, RecordsStand, PTL
<1> QED BY <1>3, <1>4

\* The analytics, the boards and the reports of requests add up together, under the
\* specification the run checks.
THEOREM CountsStand == MaxFiled <= ExportLimit => (Spec => []CountsAddUp)
<1> SUFFICES ASSUME MaxFiled <= ExportLimit PROVE Spec => []CountsAddUp
  OBVIOUS
<1>1. RecordsInv => AnalyticsAddUp /\ BoardsAgree
  BY AnalyticsCount, PagesShow, FiguresStand, AlertsShow DEF RecordsInv, BoardsAgree
<1>2. RecordsInv => RequestReportsAgree
  BY ChartsCountReports, PagesMakeReports DEF RecordsInv, RequestReportsAgree
<1>3. RecordsInv => CountsAddUp
  BY <1>1, <1>2 DEF CountsAddUp
<1> QED BY <1>3, RecordsStand, PTL

===============================================================================
