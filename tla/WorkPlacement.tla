---------------------------- MODULE WorkPlacement -----------------------------
(***************************************************************************)
(* Where workers work: crews with a supervisor and a place, assignments    *)
(* of a worker to a place, and the place attendance is marked at.          *)
(* modules/workCrews, shared/services/worker-location-assignment.service   *)
(* and worker-assignment-guard.service, modules/workLocations; the         *)
(* onboarding and the worker handlers set the crew and the place too.      *)
(*                                                                         *)
(* A transaction is a step; what is read before it is read in a step of    *)
(* its own.  Workers are active, of one company and without a supervisor   *)
(* of their own; supervisors hold a role that may supervise, and           *)
(* exceed_action is 'block'.  Of the history of moves, what it told last   *)
(* of the crew is kept; projects, which nothing in src/ assigns, are left  *)
(* out.                                                                    *)
(***************************************************************************)
EXTENDS Naturals, FiniteSets

CONSTANTS
  Workers, Crews, Places,
  Supervisors,
  HR,              \* an actor with the role ADMIN or RRHH
  MaxCrews,        \* max_crews_per_supervisor
  LastDay,         \* bound on the calendar
  Spans,           \* the first and last days temporary assignments are asked for
  Nil              \* no crew, no place, no assignment

Days   == 0 .. LastDay
Actors == Supervisors \cup {HR}
Stays  == [place : Places, from : Days, to : Days]
CrewRows == [place : Places, supervisor : Supervisors, active : BOOLEAN]

ASSUME PlacementAssumption ==
  /\ {MaxCrews, LastDay} \subseteq Nat
  /\ HR \notin Supervisors
  /\ \A days \in Spans : days \in Days \X Days /\ days[1] <= days[2]
  /\ Nil \notin Crews \cup Places \cup CrewRows
  /\ IsFiniteSet(Workers)

VARIABLES
  today,
  open,            \* the places that are active
  crews,           \* work_crews
  memberOf,        \* crew_workers: the crew of the active row
  direct,          \* workers.work_location_id
  permanent,       \* worker_location_assignments: the active permanent one
  temporary,       \* and the active temporary ones
  told,            \* worker_assignment_history: the crew its latest row with one names
  move             \* the move in progress, with what it has read

placementVars ==
  <<today, open, crews, memberOf, direct, permanent, temporary, told, move>>

NoMove == [pc |-> "idle"]

Moves == {NoMove}
  \cup [pc : {"add"}, actor : Actors, worker : Workers, crew : Crews, place : Places]
  \cup [pc : {"reassign"}, actor : Actors, worker : Workers, crew : Crews \cup {Nil},
        place : Places]
  \cup [pc : {"onboard"}, worker : Workers, crew : Crews \cup {Nil},
        place : Places \cup {Nil}]
  \cup [pc : {"set"}, worker : Workers, place : Places]
  \cup [pc : {"permanent"}, worker : Workers, place : Places]
  \cup [pc : {"temporary"}, worker : Workers, stay : Stays]

PlacementTypeOK ==
  /\ today \in Days
  /\ open \subseteq Places
  /\ crews \in [Crews -> CrewRows \cup {Nil}]
  /\ memberOf \in [Workers -> Crews \cup {Nil}]
  /\ direct \in [Workers -> Places \cup {Nil}]
  /\ permanent \in [Workers -> [place : Places, from : Days] \cup {Nil}]
  /\ temporary \in [Workers -> SUBSET Stays]
  /\ told \in [Workers -> Crews \cup {Nil}]
  /\ move \in Moves

-------------------------------------------------------------------------------
(* Queries *)

ActiveCrew(c) == c # Nil /\ crews[c] # Nil /\ crews[c].active

CrewsOf(s) == {c \in Crews : ActiveCrew(c) /\ crews[c].supervisor = s}

StaysNow(w) == {s \in temporary[w] : s.from <= today /\ today <= s.to}

First(S) == IF S = {} THEN Nil ELSE CHOOSE x \in S : TRUE

DirectOnly(w) ==                                            \* faulty variant
  LET stays == {s.place : s \in StaysNow(w)} \cap open IN
  IF stays # {} THEN First(stays)
  ELSE IF permanent[w] # Nil /\ permanent[w].place \in open THEN permanent[w].place
  ELSE IF direct[w] # Nil THEN First({direct[w]} \cap open)
  ELSE Nil

\* getActiveWorkLocationForWorker: the first open place of the temporary
\* assignment, the permanent one (begun or not), the worker's own and the crew's.
WorkplaceOf(w) ==
  LET stays == {s.place : s \in StaysNow(w)} \cap open IN
  IF stays # {} THEN First(stays)
  ELSE IF permanent[w] # Nil /\ permanent[w].place \in open THEN permanent[w].place
  ELSE IF direct[w] \in open THEN direct[w]
  ELSE IF ActiveCrew(memberOf[w]) THEN First({crews[memberOf[w]].place} \cap open)
  ELSE Nil

CrewNow(w) == IF ActiveCrew(memberOf[w]) THEN memberOf[w] ELSE Nil

\* getWorkerAssignmentSnapshot: the assignment of the day, the crew's place, the
\* worker's own.
PlaceNow(w) ==
  IF StaysNow(w) # {} THEN First({s.place : s \in StaysNow(w)})
  ELSE IF permanent[w] # Nil /\ permanent[w].from <= today THEN permanent[w].place
  ELSE IF CrewNow(w) # Nil THEN crews[CrewNow(w)].place
  ELSE direct[w]

\* canReassignWorker
MayReassign(actor, w) ==
  \/ actor = HR
  \/ CrewNow(w) # Nil /\ crews[CrewNow(w)].supervisor = actor

PlaceOnlyConflicts(w, crew, place) ==                       \* faulty variant
  PlaceNow(w) # Nil /\ place # PlaceNow(w)

\* targetConflictsWithSnapshot
Conflicts(w, crew, place) ==
  \/ crew # Nil /\ CrewNow(w) # Nil /\ crew # CrewNow(w)
  \/ PlaceNow(w) # Nil /\ place # PlaceNow(w)

\* assertWorkerCanAssignToTarget, without the check of the target crew.
MayAssign(actor, w, crew, place) ==
  /\ ~(crew # Nil /\ crew = CrewNow(w))
  /\ Conflicts(w, crew, place) => MayReassign(actor, w)

\* resolveTarget: the crew is asked again, and so is its place.
TargetHolds(crew, place) ==
  crew # Nil => ActiveCrew(crew) /\ crews[crew].place = place

\* logAssignmentHistory
ToldOf(w, crew) == [told EXCEPT ![w] = IF crew # Nil THEN crew ELSE @]

\* assertCrewAccess.  Changes to the crew itself are asked for by HR, which it
\* always lets pass: who asks leaves no trace in them.
CrewAccess(actor, c) == actor = HR \/ crews[c].supervisor = actor

-------------------------------------------------------------------------------
(* Crews *)

\* validateSupervisorCrewLimit
UnderLimit(s, except) == Cardinality(CrewsOf(s) \ {except}) < MaxCrews

CreateCrew(c, s, p, active) ==
  /\ crews[c] = Nil
  /\ UnderLimit(s, c)
  /\ p \in open
  /\ crews' = [crews EXCEPT ![c] = [place |-> p, supervisor |-> s, active |-> active]]
  /\ UNCHANGED <<today, open, memberOf, direct, permanent, temporary, told, move>>

\* syncCrewWorkersLocation
Synced(c, p) == [w \in Workers |-> IF memberOf[w] = c THEN p ELSE direct[w]]

\* The limit is asked where the request names a supervisor, the place where it
\* changes; members are moved in a query that may not come to run.
UpdateCrew(c, s, p, active) ==
  LET now == crews[c] IN
  /\ now # Nil
  /\ s # Nil => UnderLimit(s, c)
  /\ p # now.place => p \in open
  /\ crews' = [crews EXCEPT ![c] =
       [place |-> p, supervisor |-> IF s = Nil THEN now.supervisor ELSE s, active |-> active]]
  /\ direct' \in {IF p # now.place THEN Synced(c, p) ELSE direct, direct}
  /\ UNCHANGED <<today, open, memberOf, permanent, temporary, told, move>>

\* Deactivation ends the memberships; the limit is not asked.
UpdateCrewStatus(c, active) ==
  /\ crews[c] # Nil
  /\ crews' = [crews EXCEPT ![c].active = active]
  /\ memberOf' \in
       {IF active THEN memberOf
        ELSE [w \in Workers |-> IF memberOf[w] = c THEN Nil ELSE memberOf[w]], memberOf}
  /\ UNCHANGED <<today, open, direct, permanent, temporary, told, move>>

UpdateCrewWorkLocation(c, p) ==
  /\ crews[c] # Nil
  /\ p \in open
  /\ crews' = [crews EXCEPT ![c].place = p]
  /\ direct' = Synced(c, p)
  /\ told' = [w \in Workers |-> IF memberOf[w] = c THEN c ELSE told[w]]
  /\ UNCHANGED <<today, open, memberOf, permanent, temporary, move>>

RemoveWorkerFromCrew(c, w) ==
  /\ crews[c] # Nil
  /\ memberOf[w] = c
  /\ memberOf' = [memberOf EXCEPT ![w] = Nil]
  /\ UNCHANGED <<today, open, crews, direct, permanent, temporary, told, move>>

-------------------------------------------------------------------------------
(* Moves *)

\* addWorkersToCrew, moveWorkerToCrew: the crew is read with its place.
AddWorkersRead(actor, w, c) ==
  /\ move = NoMove
  /\ ActiveCrew(c)
  /\ CrewAccess(actor, c)
  /\ move' = [pc |-> "add", actor |-> actor, worker |-> w, crew |-> c,
              place |-> crews[c].place]
  /\ UNCHANGED <<today, open, crews, memberOf, direct, permanent, temporary, told>>

\* The worker's assignments to places are left as they are.
AddWorkersCommit ==
  LET m == move IN
  /\ m.pc = "add"
  /\ move' = NoMove
  /\ IF TargetHolds(m.crew, m.place) /\ MayAssign(m.actor, m.worker, m.crew, m.place)
       THEN /\ memberOf' = [memberOf EXCEPT ![m.worker] = m.crew]
            /\ direct' = [direct EXCEPT ![m.worker] = m.place]
            /\ told' = ToldOf(m.worker, m.crew)
       ELSE UNCHANGED <<memberOf, direct, told>>
  /\ UNCHANGED <<today, open, crews, permanent, temporary>>

\* reassignWorker: the target crew, if any, and the place are asked.
ReassignRead(actor, w, c, p) ==
  /\ move = NoMove
  /\ TargetHolds(c, p)
  /\ p \in open
  /\ move' = [pc |-> "reassign", actor |-> actor, worker |-> w, crew |-> c, place |-> p]
  /\ UNCHANGED <<today, open, crews, memberOf, direct, permanent, temporary, told>>

Reassigned(m) ==
  TargetHolds(m.crew, m.place) /\ MayAssign(m.actor, m.worker, m.crew, m.place)

ReassignCommitBeside ==                                     \* faulty variant
  LET m == move IN
  /\ m.pc = "reassign"
  /\ move' = NoMove
  /\ IF Reassigned(m)
       THEN /\ memberOf' = [memberOf EXCEPT ![m.worker] = m.crew]
            /\ direct' = [direct EXCEPT ![m.worker] = m.place]
            /\ told' = ToldOf(m.worker, m.crew)
       ELSE UNCHANGED <<memberOf, direct, told>>
  /\ UNCHANGED <<today, open, crews, permanent, temporary>>

\* Assignments and membership are closed; without a crew, a permanent assignment
\* is made, whatever its date.
ReassignCommit ==
  LET m == move IN
  /\ m.pc = "reassign"
  /\ move' = NoMove
  /\ IF Reassigned(m)
       THEN \E from \in Days :
              /\ memberOf' = [memberOf EXCEPT ![m.worker] = m.crew]
              /\ direct' = [direct EXCEPT ![m.worker] = m.place]
              /\ told' = ToldOf(m.worker, m.crew)
              /\ temporary' = [temporary EXCEPT ![m.worker] = {}]
              /\ permanent' = [permanent EXCEPT ![m.worker] =
                   IF m.crew = Nil THEN [place |-> m.place, from |-> from] ELSE Nil]
       ELSE UNCHANGED <<memberOf, direct, permanent, temporary, told>>
  /\ UNCHANGED <<today, open, crews>>

\* createWorkerLocationAssignment asks everything before its transaction.
AssignRead(w, p) ==
  /\ move = NoMove
  /\ p \in open
  /\ \E actor \in Actors : Conflicts(w, Nil, p) => MayReassign(actor, w)
  /\ \/ move' = [pc |-> "permanent", worker |-> w, place |-> p]
     \/ \E days \in Spans :
          move' = [pc |-> "temporary", worker |-> w,
                   stay |-> [place |-> p, from |-> days[1], to |-> days[2]]]
  /\ UNCHANGED <<today, open, crews, memberOf, direct, permanent, temporary, told>>

\* A permanent assignment closes the others; the membership stays.
AssignPermanent ==
  LET m == move IN
  /\ m.pc = "permanent"
  /\ move' = NoMove
  /\ temporary' = [temporary EXCEPT ![m.worker] = {}]
  /\ permanent' = [permanent EXCEPT ![m.worker] = [place |-> m.place, from |-> today]]
  /\ direct' = [direct EXCEPT ![m.worker] = m.place]
  /\ UNCHANGED <<today, open, crews, memberOf, told>>

\* The constraint refuses one that shares a day with another.
AssignTemporary ==
  LET m == move IN
  /\ m.pc = "temporary"
  /\ move' = NoMove
  /\ temporary' = IF \E s \in temporary[m.worker] :
                         s.from <= m.stay.to /\ m.stay.from <= s.to
                    THEN temporary
                    ELSE [temporary EXCEPT ![m.worker] = @ \cup {m.stay}]
  /\ UNCHANGED <<today, open, crews, memberOf, direct, permanent, told>>

\* The place the worker has of a permanent assignment stays.
CancelAssignment(w) ==
  /\ \/ /\ permanent[w] # Nil
        /\ permanent' = [permanent EXCEPT ![w] = Nil]
        /\ UNCHANGED temporary
     \/ /\ \E s \in temporary[w] : temporary' = [temporary EXCEPT ![w] = @ \ {s}]
        /\ UNCHANGED permanent
  /\ UNCHANGED <<today, open, crews, memberOf, direct, told, move>>

-------------------------------------------------------------------------------
(* Onboarding and the worker handlers *)

\* onboardWorker for an existing worker: verifyRelations asks the place before the
\* transaction.
OnboardRead(w, c, p) ==
  /\ move = NoMove
  /\ p \in open \cup {Nil}
  /\ move' = [pc |-> "onboard", worker |-> w, crew |-> c, place |-> p]
  /\ UNCHANGED <<today, open, crews, memberOf, direct, permanent, temporary, told>>

\* findAutoAssignableCrew: the only active crew of the place (no column marks a
\* crew as the main one).
AutoCrew(p) ==
  LET there == {c \in Crews : ActiveCrew(c) /\ crews[c].place = p} IN
  IF Cardinality(there) = 1 THEN First(there) ELSE Nil

\* resolveCrewAssignment; Nil where the membership is left as it is.
CrewGiven(w, c, p) ==
  IF c # Nil THEN c
  ELSE IF CrewNow(w) # Nil THEN Nil
  ELSE AutoCrew(IF p # Nil THEN p ELSE direct[w])

\* The guard, the worker's row, the crew and its place, in one transaction, which
\* an error undoes.  The roles ADMIN and RRHH alone are let in.
OnboardCommit ==
  LET m == move
      crew == CrewGiven(m.worker, m.crew, m.place)
  IN
  /\ m.pc = "onboard"
  /\ move' = NoMove
  /\ IF /\ m.crew # Nil => ActiveCrew(m.crew) /\ m.place \in {Nil, crews[m.crew].place}
        /\ ~(m.crew # Nil /\ m.crew = CrewNow(m.worker))
       THEN /\ memberOf' = [memberOf EXCEPT ![m.worker] = IF crew # Nil THEN crew ELSE @]
            /\ direct' = [direct EXCEPT ![m.worker] =
                 IF crew # Nil THEN crews[crew].place ELSE IF m.place # Nil THEN m.place ELSE @]
            /\ told' = ToldOf(m.worker, IF crew = memberOf[m.worker] THEN Nil ELSE crew)
       ELSE UNCHANGED <<memberOf, direct, told>>
  /\ UNCHANGED <<today, open, crews, permanent, temporary>>

\* updateWorkLocationAssignment, updateWorkerLaborAssignment: everything is asked,
\* then the row is written.
SetPlaceRead(w, p) ==
  /\ move = NoMove
  /\ p \in open
  /\ \E actor \in Actors : MayAssign(actor, w, Nil, p)
  /\ move' = [pc |-> "set", worker |-> w, place |-> p]
  /\ UNCHANGED <<today, open, crews, memberOf, direct, permanent, temporary, told>>

SetPlaceWrite ==
  /\ move.pc = "set"
  /\ move' = NoMove
  /\ direct' = [direct EXCEPT ![move.worker] = move.place]
  /\ UNCHANGED <<today, open, crews, memberOf, permanent, temporary, told>>

-------------------------------------------------------------------------------
(* Places, and the calendar *)

\* updateWorkLocationStatus, deleteWorkLocation: no worker has the place as its
\* own.  Crews and assignments are not asked.
ClosePlace(p) ==
  /\ p \in open
  /\ \A w \in Workers : direct[w] # p
  /\ open' = open \ {p}
  /\ UNCHANGED <<today, crews, memberOf, direct, permanent, temporary, told, move>>

\* updateWorkLocation, which asks for no workers, and changes is_active either way;
\* so does updateWorkLocationStatus to open a place again.
UpdatePlace(p) ==
  /\ open' = IF p \in open THEN open \ {p} ELSE open \cup {p}
  /\ UNCHANGED <<today, crews, memberOf, direct, permanent, temporary, told, move>>

NextDay ==
  /\ today < LastDay
  /\ today' = today + 1
  /\ UNCHANGED <<open, crews, memberOf, direct, permanent, temporary, told, move>>

PlacementInit ==
  /\ today = 0
  /\ open = Places
  /\ crews = [c \in Crews |-> Nil]
  /\ memberOf = [w \in Workers |-> Nil]
  /\ direct = [w \in Workers |-> Nil]
  /\ permanent = [w \in Workers |-> Nil]
  /\ temporary = [w \in Workers |-> {}]
  /\ told = [w \in Workers |-> Nil]
  /\ move = NoMove

CrewStep(c) ==
  \/ \E s \in Supervisors \cup {Nil}, p \in Places, active \in BOOLEAN :
       UpdateCrew(c, s, p, active)
  \/ \E active \in BOOLEAN : UpdateCrewStatus(c, active)
  \/ \E p \in Places : UpdateCrewWorkLocation(c, p)
  \/ \E w \in Workers :
       \/ RemoveWorkerFromCrew(c, w)
       \/ \E actor \in Actors : AddWorkersRead(actor, w, c)

PlacementNext ==
  \/ \E c \in Crews, s \in Supervisors, p \in Places, active \in BOOLEAN :
       CreateCrew(c, s, p, active)
  \/ \E c \in Crews : CrewStep(c)
  \/ \E actor \in Actors, w \in Workers, p \in Places :
       \E c \in Crews \cup {Nil} : ReassignRead(actor, w, c, p)
  \/ \E w \in Workers, p \in Places : AssignRead(w, p) \/ SetPlaceRead(w, p)
  \/ \E w \in Workers, c \in Crews \cup {Nil}, p \in Places \cup {Nil} : OnboardRead(w, c, p)
  \/ \E w \in Workers : CancelAssignment(w)
  \/ AddWorkersCommit \/ ReassignCommit \/ AssignPermanent \/ AssignTemporary
  \/ OnboardCommit \/ SetPlaceWrite
  \/ \E p \in Places : ClosePlace(p) \/ UpdatePlace(p)
  \/ NextDay

-------------------------------------------------------------------------------
(* Properties *)

\* A reassignment that is not refused is what attendance is marked by from then
\* on, whatever assignments and crew the worker had, and whatever its date.
ReassignedWorksThere ==
  [][ReassignCommit /\ Reassigned(move) /\ move.place \in open
       => \A w \in {move.worker} : WorkplaceOf(w)' = move.place]_placementVars

\* A worker leaves an active crew for another only by HR, who also onboards, or by
\* the supervisor of the crew that is left, also where a temporary assignment has put
\* the worker at the place of the other crew, and with crews that change between the
\* check and the transaction.
MovedByAuthority ==
  [][\A w \in Workers :
       CrewNow(w) # Nil /\ memberOf'[w] \notin {CrewNow(w), Nil}
         => \/ move.pc = "onboard"
            \/ move.actor = HR
            \/ crews[CrewNow(w)].supervisor = move.actor]_placementVars

\* A member of an active crew at an open place can mark attendance, whichever
\* places of assignments were closed.
MembersCanMark ==
  \A w \in Workers :
    CrewNow(w) # Nil /\ crews[CrewNow(w)].place \in open => WorkplaceOf(w) # Nil
===============================================================================
