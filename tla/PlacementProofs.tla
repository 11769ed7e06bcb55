---------------------------- MODULE PlacementProofs ----------------------------
(***************************************************************************)
(* Who moves a worker, where a reassigned worker is marked, and what the   *)
(* screens and the history tell of members of crews, for any company.      *)
(***************************************************************************)
EXTENDS Transfers, FiniteSetTheorems, FunctionTheorems, TLAPS

\* The history names the crew a worker is in.
ToldCrew == \A w \in Workers : memberOf[w] # Nil => told[w] = memberOf[w]

\* Two temporary assignments of a worker share no day.
StaysApart ==
  \A w \in Workers : \A s, t \in temporary[w] : s # t => s.to < t.from \/ t.to < s.from

PlacementInv == PlacementTypeOK /\ ToldCrew /\ StaysApart

Adds      == [pc : {"add"}, actor : Actors, worker : Workers, crew : Crews, place : Places]
Reassigns == [pc : {"reassign"}, actor : Actors, worker : Workers, crew : Crews \cup {Nil},
              place : Places]
Onboards  == [pc : {"onboard"}, worker : Workers, crew : Crews \cup {Nil},
              place : Places \cup {Nil}]
Sets      == [pc : {"set"}, worker : Workers, place : Places]
Permanents == [pc : {"permanent"}, worker : Workers, place : Places]
Temporaries == [pc : {"temporary"}, worker : Workers, stay : Stays]

-------------------------------------------------------------------------------
(* Lemmas *)

\* What a move holds follows from its kind.
LEMMA MoveKinds ==
  ASSUME NEW m \in Moves
  PROVE  /\ m.pc = "add" => m \in Adds
         /\ m.pc = "reassign" => m \in Reassigns
         /\ m.pc = "onboard" => m \in Onboards
         /\ m.pc = "set" => m \in Sets
         /\ m.pc = "permanent" => m \in Permanents
         /\ m.pc = "temporary" => m \in Temporaries
BY DEF Moves, NoMove, Adds, Reassigns, Onboards, Sets, Permanents, Temporaries

LEMMA MovesOfKinds ==
  /\ NoMove \in Moves /\ Adds \subseteq Moves /\ Reassigns \subseteq Moves
  /\ Onboards \subseteq Moves /\ Sets \subseteq Moves /\ Permanents \subseteq Moves
  /\ Temporaries \subseteq Moves
BY DEF Moves, Adds, Reassigns, Onboards, Sets, Permanents, Temporaries

LEMMA NilIsNothing == Nil \notin Crews /\ Nil \notin Places /\ Nil \notin CrewRows
BY PlacementAssumption

\* Day arithmetic.
LEMMA DaysAreNat == \A d \in Days : d \in Nat
BY PlacementAssumption DEF Days

LEMMA FirstOfSome == ASSUME NEW S, S # {} PROVE First(S) \in S
BY DEF First

\* The crew a membership stands for is a crew with a row, or none.
LEMMA CrewNowIs ==
  ASSUME PlacementTypeOK, NEW w \in Workers
  PROVE  /\ CrewNow(w) \in {Nil, memberOf[w]}
         /\ CrewNow(w) # Nil => /\ CrewNow(w) \in Crews /\ CrewNow(w) = memberOf[w]
                                /\ crews[CrewNow(w)] \in CrewRows
                                /\ ActiveCrew(memberOf[w])
<1>1. CASE ActiveCrew(memberOf[w])
  BY <1>1 DEF CrewNow, ActiveCrew, PlacementTypeOK
<1>2. CASE ~ActiveCrew(memberOf[w])
  BY <1>2 DEF CrewNow
<1> QED BY <1>1, <1>2

\* An active crew has a row.
LEMMA ActiveCrewRow ==
  ASSUME PlacementTypeOK, NEW c \in Crews \cup {Nil}, ActiveCrew(c)
  PROVE  c \in Crews /\ crews[c] \in CrewRows
BY DEF ActiveCrew, PlacementTypeOK

\* The crew an onboarding gives.
LEMMA CrewGivenIs ==
  ASSUME PlacementTypeOK, NEW w \in Workers, NEW c \in Crews \cup {Nil}, NEW p
  PROVE  /\ CrewGiven(w, c, p) \in Crews \cup {Nil}
         /\ c = Nil /\ CrewGiven(w, c, p) # Nil => ActiveCrew(CrewGiven(w, c, p))
<1>1. \A q : AutoCrew(q) \in Crews \cup {Nil} /\ (AutoCrew(q) # Nil => ActiveCrew(AutoCrew(q)))
  <2> TAKE q
  <2> DEFINE there == {d \in Crews : ActiveCrew(d) /\ crews[d].place = q}
  <2>1. CASE there = {}
    BY <2>1 DEF AutoCrew, First
  <2>2. CASE there # {}
    <3>1. First(there) \in there
      BY <2>2, FirstOfSome
    <3> QED BY <3>1 DEF AutoCrew
  <2> QED BY <2>1, <2>2
<1> QED BY <1>1, NilIsNothing DEF CrewGiven

-------------------------------------------------------------------------------
(* The inductive invariant *)

LEMMA PlacementBegins == PlacementInit => PlacementInv
BY PlacementAssumption DEF PlacementInit, PlacementInv, PlacementTypeOK, ToldCrew, StaysApart, Days, Moves

\* A read changes the move alone.
LEMMA ReadKeeps ==
  ASSUME PlacementInv, move' \in Moves,
         UNCHANGED <<today, open, crews, memberOf, direct, permanent, temporary, told>>
  PROVE  PlacementInv'
BY DEF PlacementInv, PlacementTypeOK, ToldCrew, StaysApart

LEMMA ReadsKeep ==
  ASSUME PlacementInv,
         \/ \E actor \in Actors, w \in Workers, c \in Crews : AddWorkersRead(actor, w, c)
         \/ \E actor \in Actors, w \in Workers, p \in Places, c \in Crews \cup {Nil} :
              ReassignRead(actor, w, c, p)
         \/ \E w \in Workers, p \in Places : AssignRead(w, p) \/ SetPlaceRead(w, p)
         \/ \E w \in Workers, c \in Crews \cup {Nil}, p \in Places \cup {Nil} : OnboardRead(w, c, p)
  PROVE  PlacementInv'
<1>1. ASSUME NEW actor \in Actors, NEW w \in Workers, NEW c \in Crews, AddWorkersRead(actor, w, c)
      PROVE  PlacementInv'
  <2>1. crews[c].place \in Places
    BY <1>1, ActiveCrewRow DEF AddWorkersRead, PlacementInv, CrewRows
  <2>2. move' \in Adds
    BY <1>1, <2>1 DEF AddWorkersRead, Adds
  <2> QED BY <1>1, <2>2, MovesOfKinds, ReadKeeps DEF AddWorkersRead
<1>2. ASSUME NEW actor \in Actors, NEW w \in Workers, NEW p \in Places, NEW c \in Crews \cup {Nil},
             ReassignRead(actor, w, c, p)
      PROVE  PlacementInv'
  <2>1. move' \in Reassigns
    BY <1>2 DEF ReassignRead, Reassigns
  <2> QED BY <1>2, <2>1, MovesOfKinds, ReadKeeps DEF ReassignRead
<1>3. ASSUME NEW w \in Workers, NEW p \in Places, AssignRead(w, p)
      PROVE  PlacementInv'
  <2>1. \A days \in Spans : [place |-> p, from |-> days[1], to |-> days[2]] \in Stays
    BY PlacementAssumption DEF Stays
  <2>2. move' \in Permanents \cup Temporaries
    BY <1>3, <2>1 DEF AssignRead, Permanents, Temporaries
  <2> QED BY <1>3, <2>2, MovesOfKinds, ReadKeeps DEF AssignRead
<1>4. ASSUME NEW w \in Workers, NEW p \in Places, SetPlaceRead(w, p)
      PROVE  PlacementInv'
  <2>1. move' \in Sets
    BY <1>4 DEF SetPlaceRead, Sets
  <2> QED BY <1>4, <2>1, MovesOfKinds, ReadKeeps DEF SetPlaceRead
<1>5. ASSUME NEW w \in Workers, NEW c \in Crews \cup {Nil}, NEW p \in Places \cup {Nil},
             OnboardRead(w, c, p)
      PROVE  PlacementInv'
  <2>1. move' \in Onboards
    BY <1>5 DEF OnboardRead, Onboards
  <2> QED BY <1>5, <2>1, MovesOfKinds, ReadKeeps DEF OnboardRead
<1> QED BY <1>1, <1>2, <1>3, <1>4, <1>5

\* A membership that changes together with what the history tells.
LEMMA MembershipKeeps ==
  ASSUME PlacementInv, NEW w \in Workers, NEW c \in Crews \cup {Nil}, NEW p \in Places \cup {Nil},
         memberOf' = [memberOf EXCEPT ![w] = c], direct' = [direct EXCEPT ![w] = p],
         told' \in {ToldOf(w, c), told}, c # Nil => told'[w] = c,
         permanent' \in [Workers -> [place : Places, from : Days] \cup {Nil}],
         temporary' \in {temporary, [temporary EXCEPT ![w] = {}]},
         move' \in Moves, UNCHANGED <<today, open, crews>>
  PROVE  PlacementInv'
<1> USE DEF PlacementInv
<1>1. told' \in [Workers -> Crews \cup {Nil}] /\ \A v \in Workers \ {w} : told'[v] = told[v]
  BY DEF ToldOf, PlacementTypeOK
<1>2. temporary' \in [Workers -> SUBSET Stays] /\ \A v \in Workers : temporary'[v] \in {temporary[v], {}}
  BY DEF PlacementTypeOK
<1>3. PlacementTypeOK'
  BY <1>1, <1>2 DEF PlacementTypeOK
<1>4. ToldCrew'
  BY <1>1 DEF ToldCrew, PlacementTypeOK
<1>5. StaysApart'
  BY <1>2 DEF StaysApart
<1> QED BY <1>3, <1>4, <1>5

\* A membership that stays.
LEMMA PlacesKeep ==
  ASSUME PlacementInv, direct' \in [Workers -> Places \cup {Nil}],
         permanent' \in [Workers -> [place : Places, from : Days] \cup {Nil}],
         \A w \in Workers : temporary'[w] \subseteq temporary[w],
         temporary' \in [Workers -> SUBSET Stays],
         crews' \in [Crews -> CrewRows \cup {Nil}], open' \subseteq Places, today' \in Days,
         move' \in Moves, UNCHANGED <<memberOf, told>>
  PROVE  PlacementInv'
<1>1. PlacementTypeOK' /\ ToldCrew'
  BY DEF PlacementInv, PlacementTypeOK, ToldCrew
<1>2. StaysApart'
  BY DEF PlacementInv, StaysApart
<1> QED BY <1>1, <1>2 DEF PlacementInv

LEMMA CommitsKeep ==
  ASSUME PlacementInv, AddWorkersCommit \/ ReassignCommit \/ OnboardCommit
  PROVE  PlacementInv'
<1> USE DEF PlacementInv
<1>0. /\ memberOf \in [Workers -> Crews \cup {Nil}] /\ direct \in [Workers -> Places \cup {Nil}]
      /\ told \in [Workers -> Crews \cup {Nil}]
  BY DEF PlacementTypeOK
<1>1. CASE AddWorkersCommit
  <2>1. move \in Adds
    BY <1>1, MoveKinds DEF AddWorkersCommit, PlacementTypeOK
  <2> DEFINE w == move.worker
             c == move.crew
             p == move.place
  <2>2. w \in Workers /\ c \in Crews /\ p \in Places
    BY <2>1 DEF Adds
  <2>3. /\ move' = NoMove /\ UNCHANGED <<today, open, crews, permanent, temporary>>
        /\ \/ UNCHANGED <<memberOf, direct, told>>
           \/ /\ memberOf' = [memberOf EXCEPT ![w] = c]
              /\ direct' = [direct EXCEPT ![w] = p]
              /\ told' = ToldOf(w, c)
    BY <1>1 DEF AddWorkersCommit
  <2> HIDE DEF w, c, p
  <2>4. CASE UNCHANGED <<memberOf, direct, told>>
    BY <2>3, <2>4, MovesOfKinds, PlacesKeep DEF PlacementTypeOK
  <2>5. CASE /\ memberOf' = [memberOf EXCEPT ![w] = c]
             /\ direct' = [direct EXCEPT ![w] = p]
             /\ told' = ToldOf(w, c)
    <3>1. told'[w] = c
      BY <1>0, <2>2, <2>5, NilIsNothing DEF ToldOf
    <3> QED BY <2>2, <2>3, <2>5, <3>1, MovesOfKinds, MembershipKeeps DEF PlacementTypeOK
  <2> QED BY <2>3, <2>4, <2>5
<1>2. CASE ReassignCommit
  <2>1. move \in Reassigns
    BY <1>2, MoveKinds DEF ReassignCommit, PlacementTypeOK
  <2> DEFINE w == move.worker
             c == move.crew
             p == move.place
  <2>2. w \in Workers /\ c \in Crews \cup {Nil} /\ p \in Places
    BY <2>1 DEF Reassigns
  <2>3. /\ move' = NoMove /\ UNCHANGED <<today, open, crews>>
        /\ \/ UNCHANGED <<memberOf, direct, permanent, temporary, told>>
           \/ \E from \in Days :
                /\ memberOf' = [memberOf EXCEPT ![w] = c]
                /\ direct' = [direct EXCEPT ![w] = p]
                /\ told' = ToldOf(w, c)
                /\ temporary' = [temporary EXCEPT ![w] = {}]
                /\ permanent' = [permanent EXCEPT ![w] =
                     IF c = Nil THEN [place |-> p, from |-> from] ELSE Nil]
    BY <1>2 DEF ReassignCommit
  <2> HIDE DEF w, c, p
  <2>4. CASE UNCHANGED <<memberOf, direct, permanent, temporary, told>>
    BY <2>3, <2>4, MovesOfKinds, PlacesKeep DEF PlacementTypeOK
  <2>5. ASSUME NEW from \in Days,
               memberOf' = [memberOf EXCEPT ![w] = c], direct' = [direct EXCEPT ![w] = p],
               told' = ToldOf(w, c), temporary' = [temporary EXCEPT ![w] = {}],
               permanent' = [permanent EXCEPT ![w] =
                 IF c = Nil THEN [place |-> p, from |-> from] ELSE Nil]
        PROVE  PlacementInv'
    <3>1. c # Nil => told'[w] = c
      BY <1>0, <2>2, <2>5 DEF ToldOf
    <3>2. permanent' \in [Workers -> [place : Places, from : Days] \cup {Nil}]
      BY <2>2, <2>5 DEF PlacementTypeOK
    <3> QED BY <2>2, <2>3, <2>5, <3>1, <3>2, MovesOfKinds, MembershipKeeps
  <2> QED BY <2>3, <2>4, <2>5
<1>3. CASE OnboardCommit
  <2>1. move \in Onboards
    BY <1>3, MoveKinds DEF OnboardCommit, PlacementTypeOK
  <2> DEFINE w == move.worker
             crew == CrewGiven(w, move.crew, move.place)
             c == IF crew # Nil THEN crew ELSE memberOf[w]
             p == IF crew # Nil THEN crews[crew].place
                  ELSE IF move.place # Nil THEN move.place ELSE direct[w]
             new == IF crew = memberOf[w] THEN Nil ELSE crew
  <2>2. w \in Workers /\ move.crew \in Crews \cup {Nil} /\ move.place \in Places \cup {Nil}
    BY <2>1 DEF Onboards
  <2>3. /\ move' = NoMove /\ UNCHANGED <<today, open, crews, permanent, temporary>>
        /\ \/ UNCHANGED <<memberOf, direct, told>>
           \/ /\ move.crew # Nil => ActiveCrew(move.crew)
              /\ memberOf' = [memberOf EXCEPT ![w] = c]
              /\ direct' = [direct EXCEPT ![w] = p]
              /\ told' = ToldOf(w, new)
    BY <1>3 DEF OnboardCommit
  <2>4. crew \in Crews \cup {Nil} /\ (move.crew = Nil /\ crew # Nil => ActiveCrew(crew))
    BY <2>2, CrewGivenIs
  <2>5. move.crew # Nil => crew = move.crew
    BY DEF CrewGiven
  <2>6. c \in Crews \cup {Nil}
    BY <1>0, <2>2, <2>4
  <2>7. CASE UNCHANGED <<memberOf, direct, told>>
    BY <2>3, <2>7, MovesOfKinds, PlacesKeep DEF PlacementTypeOK
  <2>8. CASE /\ move.crew # Nil => ActiveCrew(move.crew)
             /\ memberOf' = [memberOf EXCEPT ![w] = c]
             /\ direct' = [direct EXCEPT ![w] = p]
             /\ told' = ToldOf(w, new)
    <3>1. p \in Places \cup {Nil}
      <4>1. crew # Nil => crews[crew] \in CrewRows
        BY <2>4, <2>5, <2>8, ActiveCrewRow
      <4> QED BY <1>0, <2>2, <4>1 DEF CrewRows
    <3>2. told' \in {ToldOf(w, c), told}
      <4>1. CASE new = Nil
        BY <1>0, <2>8, <4>1 DEF ToldOf
      <4>2. CASE new # Nil
        BY <2>8, <4>2
      <4> QED BY <4>1, <4>2
    <3>3. c # Nil => told'[w] = c
      <4>1. memberOf[w] # Nil => told[w] = memberOf[w]
        BY <2>2 DEF ToldCrew
      <4>2. told'[w] = IF new # Nil THEN new ELSE told[w]
        BY <1>0, <2>2, <2>8 DEF ToldOf
      <4> QED BY <4>1, <4>2
    <3> HIDE DEF w, c, p, crew, new
    <3> QED BY <2>2, <2>3, <2>6, <2>8, <3>1, <3>2, <3>3, MovesOfKinds, MembershipKeeps DEF PlacementTypeOK
  <2> QED BY <2>3, <2>7, <2>8
<1> QED BY <1>1, <1>2, <1>3
\* Crews that change, and members that leave them.
LEMMA CrewsKeep ==
  ASSUME PlacementInv, NEW c \in Crews, CrewStep(c), \A actor \in Actors, w \in Workers : ~AddWorkersRead(actor, w, c)
  PROVE  PlacementInv'
<1> USE DEF PlacementInv
<1>1. ASSUME NEW p \in Places
      PROVE  Synced(c, p) \in [Workers -> Places \cup {Nil}]
  BY DEF Synced, PlacementTypeOK
<1>2. ASSUME memberOf' \in [Workers -> Crews \cup {Nil}],
             \A w \in Workers : memberOf'[w] \in {memberOf[w], Nil},
             crews' \in [Crews -> CrewRows \cup {Nil}], direct' \in [Workers -> Places \cup {Nil}],
             UNCHANGED <<today, open, permanent, temporary, told, move>>
      PROVE  PlacementInv'
  <2>1. PlacementTypeOK'
    BY <1>2 DEF PlacementTypeOK
  <2>2. ToldCrew'
    BY <1>2 DEF ToldCrew
  <2>3. StaysApart'
    BY <1>2 DEF StaysApart
  <2> QED BY <2>1, <2>2, <2>3
<1>3. ASSUME NEW s \in Supervisors \cup {Nil}, NEW p \in Places, NEW active \in BOOLEAN,
             UpdateCrew(c, s, p, active)
      PROVE  PlacementInv'
  <2> DEFINE row == [place |-> p, supervisor |-> IF s = Nil THEN crews[c].supervisor ELSE s,
                     active |-> active]
  <2>1. row \in CrewRows
    BY <1>3 DEF UpdateCrew, CrewRows, PlacementTypeOK
  <2>2. crews' = [crews EXCEPT ![c] = row]
        /\ UNCHANGED <<today, open, memberOf, permanent, temporary, told, move>>
        /\ direct' \in {Synced(c, p), direct}
    BY <1>3 DEF UpdateCrew
  <2> HIDE DEF row
  <2> QED BY <1>1, <1>2, <2>1, <2>2 DEF PlacementTypeOK
<1>4. ASSUME NEW active \in BOOLEAN, UpdateCrewStatus(c, active)
      PROVE  PlacementInv'
  <2> DEFINE row == [crews[c] EXCEPT !.active = active]
  <2>1. row \in CrewRows /\ crews' = [crews EXCEPT ![c] = row]
    BY <1>4 DEF UpdateCrewStatus, CrewRows, PlacementTypeOK
  <2>2. /\ UNCHANGED <<today, open, direct, permanent, temporary, told, move>>
        /\ memberOf' \in {memberOf, [w \in Workers |-> IF memberOf[w] = c THEN Nil ELSE memberOf[w]]}
    BY <1>4 DEF UpdateCrewStatus
  <2> HIDE DEF row
  <2>3. crews' \in [Crews -> CrewRows \cup {Nil}]
    BY <2>1 DEF PlacementTypeOK
  <2>4. memberOf' \in [Workers -> Crews \cup {Nil}]
        /\ \A w \in Workers : memberOf'[w] \in {memberOf[w], Nil}
    BY <2>2 DEF PlacementTypeOK
  <2> QED BY <1>2, <2>2, <2>3, <2>4 DEF PlacementTypeOK
<1>5. ASSUME NEW p \in Places, UpdateCrewWorkLocation(c, p)
      PROVE  PlacementInv'
  <2> DEFINE row == [crews[c] EXCEPT !.place = p]
  <2>1. row \in CrewRows /\ crews' = [crews EXCEPT ![c] = row]
    BY <1>5 DEF UpdateCrewWorkLocation, CrewRows, PlacementTypeOK
  <2>2. /\ UNCHANGED <<today, open, memberOf, permanent, temporary, move>>
        /\ direct' = Synced(c, p)
        /\ told' = [w \in Workers |-> IF memberOf[w] = c THEN c ELSE told[w]]
    BY <1>5 DEF UpdateCrewWorkLocation
  <2> HIDE DEF row
  <2>3. PlacementTypeOK'
    BY <1>1, <2>1, <2>2 DEF PlacementTypeOK
  <2>4. ToldCrew'
    BY <2>2 DEF ToldCrew
  <2>5. StaysApart'
    BY <2>2 DEF StaysApart
  <2> QED BY <2>3, <2>4, <2>5
<1>6. ASSUME NEW w \in Workers, RemoveWorkerFromCrew(c, w)
      PROVE  PlacementInv'
  <2>1. memberOf' = [memberOf EXCEPT ![w] = Nil]
        /\ UNCHANGED <<today, open, crews, direct, permanent, temporary, told, move>>
    BY <1>6 DEF RemoveWorkerFromCrew
  <2> QED BY <1>2, <2>1 DEF PlacementTypeOK
<1> QED BY <1>3, <1>4, <1>5, <1>6 DEF CrewStep

\* Assignments to places, the rows of workers, places and days.
LEMMA AssignmentsKeep ==
  ASSUME PlacementInv,
         \/ AssignPermanent \/ AssignTemporary \/ SetPlaceWrite \/ NextDay
         \/ \E w \in Workers : CancelAssignment(w)
         \/ \E p \in Places : ClosePlace(p) \/ UpdatePlace(p)
         \/ \E c \in Crews, s \in Supervisors, p \in Places, active \in BOOLEAN : CreateCrew(c, s, p, active)
  PROVE  PlacementInv'
<1> USE DEF PlacementInv
<1>1. CASE AssignPermanent
  <2>1. move \in Permanents
    BY <1>1, MoveKinds DEF AssignPermanent, PlacementTypeOK
  <2>2. [place |-> move.place, from |-> today] \in [place : Places, from : Days]
    BY <2>1 DEF Permanents, PlacementTypeOK
  <2>3. permanent' \in [Workers -> [place : Places, from : Days] \cup {Nil}]
    BY <1>1, <2>2 DEF AssignPermanent, PlacementTypeOK
  <2>4. direct' \in [Workers -> Places \cup {Nil}]
    BY <1>1, <2>1 DEF AssignPermanent, PlacementTypeOK, Permanents
  <2>5. /\ temporary' \in [Workers -> SUBSET Stays]
        /\ \A w \in Workers : temporary'[w] \subseteq temporary[w]
    BY <1>1 DEF AssignPermanent, PlacementTypeOK
  <2> QED BY <1>1, <2>3, <2>4, <2>5, MovesOfKinds, PlacesKeep DEF AssignPermanent, PlacementTypeOK
<1>2. CASE AssignTemporary
  <2>1. move \in Temporaries
    BY <1>2, MoveKinds DEF AssignTemporary, PlacementTypeOK
  <2> DEFINE v == move.worker
             n == move.stay
  <2>2. v \in Workers /\ n \in Stays
    BY <2>1 DEF Temporaries
  <2>3. /\ move' = NoMove
        /\ UNCHANGED <<today, open, crews, memberOf, direct, permanent, told>>
        /\ \/ temporary' = temporary
           \/ /\ temporary' = [temporary EXCEPT ![v] = @ \cup {n}]
              /\ ~ \E s \in temporary[v] : s.from <= n.to /\ n.from <= s.to
    BY <1>2 DEF AssignTemporary
  <2> HIDE DEF v, n
  <2>4. CASE temporary' = temporary
    BY <2>3, <2>4, MovesOfKinds, PlacesKeep DEF PlacementTypeOK
  <2>5. CASE /\ temporary' = [temporary EXCEPT ![v] = @ \cup {n}]
             /\ ~ \E s \in temporary[v] : s.from <= n.to /\ n.from <= s.to
    <3>1. temporary' \in [Workers -> SUBSET Stays]
      BY <2>2, <2>5 DEF PlacementTypeOK
    <3>2. PlacementTypeOK'
      BY <2>3, <3>1, MovesOfKinds DEF PlacementTypeOK
    <3>3. ToldCrew'
      BY <2>3 DEF ToldCrew
    <3>4. \A s \in temporary[v] : s.to < n.from \/ n.to < s.from
      <4> TAKE s \in temporary[v]
      <4>1. s \in Stays
        BY <2>2 DEF PlacementTypeOK
      <4>2. s.from \in Nat /\ s.to \in Nat /\ n.from \in Nat /\ n.to \in Nat
        BY <2>2, <4>1, DaysAreNat DEF Stays
      <4> QED BY <2>5, <4>2
    <3>5. StaysApart'
      BY <2>2, <2>5, <3>4 DEF StaysApart, PlacementTypeOK
    <3> QED BY <3>2, <3>3, <3>5
  <2> QED BY <2>3, <2>4, <2>5
<1>3. CASE SetPlaceWrite
  <2>1. move \in Sets
    BY <1>3, MoveKinds DEF SetPlaceWrite, PlacementTypeOK
  <2>2. direct' \in [Workers -> Places \cup {Nil}]
    BY <1>3, <2>1 DEF SetPlaceWrite, PlacementTypeOK, Sets
  <2> QED BY <1>3, <2>2, MovesOfKinds, PlacesKeep DEF SetPlaceWrite, PlacementTypeOK
<1>4. CASE NextDay
  <2>1. today' \in Days
    BY <1>4, PlacementAssumption DEF NextDay, PlacementTypeOK, Days
  <2> QED BY <1>4, <2>1, PlacesKeep DEF NextDay, PlacementTypeOK
<1>5. ASSUME NEW w \in Workers, CancelAssignment(w) PROVE PlacementInv'
  <2>1. permanent' \in [Workers -> [place : Places, from : Days] \cup {Nil}]
    BY <1>5 DEF CancelAssignment, PlacementTypeOK
  <2>2. /\ temporary' \in [Workers -> SUBSET Stays]
        /\ \A v \in Workers : temporary'[v] \subseteq temporary[v]
    BY <1>5 DEF CancelAssignment, PlacementTypeOK
  <2> QED BY <1>5, <2>1, <2>2, PlacesKeep DEF CancelAssignment, PlacementTypeOK
<1>6. ASSUME NEW p \in Places, ClosePlace(p) \/ UpdatePlace(p) PROVE PlacementInv'
  <2>1. open' \subseteq Places
    BY <1>6 DEF ClosePlace, UpdatePlace, PlacementTypeOK
  <2> QED BY <1>6, <2>1, PlacesKeep DEF ClosePlace, UpdatePlace, PlacementTypeOK
<1>7. ASSUME NEW c \in Crews, NEW s \in Supervisors, NEW p \in Places, NEW active \in BOOLEAN,
             CreateCrew(c, s, p, active)
      PROVE  PlacementInv'
  <2>1. crews' \in [Crews -> CrewRows \cup {Nil}]
    BY <1>7 DEF CreateCrew, PlacementTypeOK, CrewRows
  <2> QED BY <1>7, <2>1, PlacesKeep DEF CreateCrew, PlacementTypeOK
<1> QED BY <1>1, <1>2, <1>3, <1>4, <1>5, <1>6, <1>7

LEMMA PlacementKept == PlacementInv /\ [PlacementNext]_placementVars => PlacementInv'
<1> SUFFICES ASSUME PlacementInv, [PlacementNext]_placementVars PROVE PlacementInv'
  OBVIOUS
<1>1. CASE UNCHANGED placementVars
  BY <1>1 DEF placementVars, PlacementInv, PlacementTypeOK, ToldCrew, StaysApart
<1>2. ASSUME NEW c \in Crews, CrewStep(c) PROVE PlacementInv'
  BY <1>2, CrewsKeep, ReadsKeep
<1> QED BY <1>1, <1>2, ReadsKeep, CommitsKeep, AssignmentsKeep DEF PlacementNext

\* Crews, memberships, assignments and the history keep their types.
THEOREM PlacementTyped ==
  PlacementInit /\ [][PlacementNext]_placementVars => []PlacementTypeOK
<1>1. PlacementInv => PlacementTypeOK
  BY DEF PlacementInv
<1> QED BY <1>1, PlacementBegins, PlacementKept, PTL

-------------------------------------------------------------------------------
(* Who moves workers *)

\* A worker leaves an active crew for another by HR, at an onboarding, or by the
\* supervisor of the crew that is left (assertWorkerCanAssignToTarget), for any
\* number of supervisors and crews and whatever changes between check and write.
THEOREM MovedOnlyByAuthority ==
  PlacementInit /\ [][PlacementNext]_placementVars => MovedByAuthority
<1>1. ASSUME PlacementInv, [PlacementNext]_placementVars, NEW w \in Workers,
             CrewNow(w) # Nil, memberOf'[w] \notin {CrewNow(w), Nil}
      PROVE  \/ move.pc = "onboard"
             \/ move.actor = HR
             \/ crews[CrewNow(w)].supervisor = move.actor
  <2>1. CrewNow(w) = memberOf[w] /\ memberOf \in [Workers -> Crews \cup {Nil}]
    BY <1>1, CrewNowIs DEF PlacementInv, PlacementTypeOK
  <2>2. memberOf'[w] \notin {memberOf[w], Nil}
    BY <1>1, <2>1
  <2>3. AddWorkersCommit \/ ReassignCommit \/ OnboardCommit
    <3>1. \A c \in Crews : ~CrewStep(c)
      BY <2>1, <2>2 DEF CrewStep, UpdateCrew, UpdateCrewStatus, UpdateCrewWorkLocation,
                        RemoveWorkerFromCrew, AddWorkersRead
    <3> QED BY <1>1, <2>2, <3>1 DEF PlacementNext, placementVars, CreateCrew, ReassignRead, AssignRead,
              SetPlaceRead, OnboardRead, CancelAssignment, AssignPermanent, AssignTemporary,
              SetPlaceWrite, ClosePlace, UpdatePlace, NextDay
  <2>4. CASE AddWorkersCommit \/ ReassignCommit
    <3>1. /\ memberOf' = [memberOf EXCEPT ![move.worker] = move.crew]
          /\ MayAssign(move.actor, move.worker, move.crew, move.place)
      BY <2>2, <2>4 DEF AddWorkersCommit, ReassignCommit, Reassigned
    <3>2. w = move.worker /\ move.crew # memberOf[w] /\ move.crew # Nil
      BY <2>1, <2>2, <3>1
    <3>3. Conflicts(w, move.crew, move.place)
      BY <1>1, <2>1, <3>2 DEF Conflicts
    <3> QED BY <3>1, <3>2, <3>3 DEF MayAssign, MayReassign
  <2>5. CASE OnboardCommit
    BY <2>5 DEF OnboardCommit
  <2> QED BY <2>3, <2>4, <2>5
<1>2. PlacementInv /\ [PlacementNext]_placementVars =>
        [\A w \in Workers :
           CrewNow(w) # Nil /\ memberOf'[w] \notin {CrewNow(w), Nil}
             => \/ move.pc = "onboard"
                \/ move.actor = HR
                \/ crews[CrewNow(w)].supervisor = move.actor]_placementVars
  BY <1>1
<1> QED BY <1>2, PlacementBegins, PlacementKept, PTL DEF MovedByAuthority

\* A reassignment that was not refused decides where the worker is marked at once,
\* whatever crew, permanent or temporary assignment the worker had.
THEOREM ReassignedAreThere ==
  PlacementInit /\ [][PlacementNext]_placementVars => ReassignedWorksThere
<1>1. ASSUME PlacementInv, ReassignCommit, Reassigned(move), move.place \in open,
             NEW w \in {move.worker}
      PROVE  WorkplaceOf(w)' = move.place
  <2>1. move \in Reassigns /\ PlacementTypeOK
    BY <1>1, MoveKinds DEF ReassignCommit, PlacementInv, PlacementTypeOK
  <2> DEFINE c == move.crew
             p == move.place
  <2>2. w \in Workers /\ w = move.worker /\ c \in Crews \cup {Nil} /\ p \in Places
    BY <1>1, <2>1 DEF Reassigns
  <2>3. PICK from \in Days :
          /\ direct' = [direct EXCEPT ![w] = p]
          /\ temporary' = [temporary EXCEPT ![w] = {}]
          /\ permanent' = [permanent EXCEPT ![w] =
               IF c = Nil THEN [place |-> p, from |-> from] ELSE Nil]
          /\ open' = open
    BY <1>1, <2>2 DEF ReassignCommit
  <2>4. /\ direct'[w] = p /\ temporary'[w] = {}
        /\ permanent'[w] = IF c = Nil THEN [place |-> p, from |-> from] ELSE Nil
    BY <2>1, <2>2, <2>3 DEF PlacementTypeOK
  <2>5. StaysNow(w)' = {}
    BY <2>4 DEF StaysNow
  <2>6. {s.place : s \in StaysNow(w)'} \cap open' = {}
    BY <2>5
  <2>7. p \in open'
    BY <1>1, <2>3
  <2> QED BY <2>4, <2>6, <2>7 DEF WorkplaceOf
<1>2. PlacementInv =>
        [ReassignCommit /\ Reassigned(move) /\ move.place \in open
           => \A w \in {move.worker} : WorkplaceOf(w)' = move.place]_placementVars
  BY <1>1
<1> QED BY <1>2, PlacementBegins, PlacementKept, PTL DEF ReassignedWorksThere

-------------------------------------------------------------------------------
(* What the screens show *)

\* Rows that stand one by one for the members of a finite set are as many.
LEMMA OneRowEach ==
  ASSUME NEW R, NEW V, IsFiniteSet(V), NEW key \in [R -> V],
         \A r, s \in R : key[r] = key[s] => r = s,
         \A v \in V : \E r \in R : key[r] = v
  PROVE  Cardinality(R) = Cardinality(V) /\ IsFiniteSet(R)
<1>1. key \in Bijection(R, V)
  BY DEF Bijection, Injection, Surjection, IsInjective
<1>2. ExistsBijection(R, V)
  BY <1>1 DEF ExistsBijection
<1>3. ExistsBijection(V, R)
  BY <1>2, Fun_ExistsBijSymmetric
<1> QED BY <1>3, FS_Bijection

\* A worker is at one place of a temporary assignment at a time.
LEMMA OnePlaceAtATime ==
  ASSUME PlacementInv, NEW w \in Workers
  PROVE  /\ PlacesOfStays(w) \subseteq Places
         /\ \A p, q \in PlacesOfStays(w) : p = q
<1>1. \A s \in StaysNow(w) : s \in Stays /\ s \in temporary[w] /\ s.from <= today /\ today <= s.to
  BY DEF StaysNow, PlacementInv, PlacementTypeOK
<1>2. ASSUME NEW s \in StaysNow(w), NEW t \in StaysNow(w), s # t
      PROVE  FALSE
  <2>1. s.to < t.from \/ t.to < s.from
    BY <1>1, <1>2 DEF PlacementInv, StaysApart
  <2>2. s.from \in Nat /\ s.to \in Nat /\ t.from \in Nat /\ t.to \in Nat /\ today \in Nat
    BY <1>1, DaysAreNat DEF Stays, PlacementInv, PlacementTypeOK
  <2> QED BY <1>1, <2>1, <2>2
<1> QED BY <1>1, <1>2 DEF PlacesOfStays, Stays

\* Members of active crews can mark, and the screens show where.
LEMMA ShownPlaces == PlacementInv => MembersCanMark /\ ShownWhereTheyMark
<1> SUFFICES ASSUME PlacementInv PROVE MembersCanMark /\ ShownWhereTheyMark
  OBVIOUS
<1>1. ASSUME NEW w \in Workers, CrewNow(w) # Nil, crews[CrewNow(w)].place \in open
      PROVE  WorkplaceOf(w) # Nil
  <2> DEFINE stays == PlacesOfStays(w) \cap open
  <2>1. open \subseteq Places /\ Nil \notin open
    BY NilIsNothing DEF PlacementInv, PlacementTypeOK
  <2>2. CrewNow(w) = memberOf[w] /\ ActiveCrew(memberOf[w])
    BY <1>1, CrewNowIs DEF PlacementInv
  <2>3. stays # {} => First(stays) \in open
    BY FirstOfSome
  <2>4. First({crews[memberOf[w]].place} \cap open) \in open
    BY <1>1, <2>2, FirstOfSome
  <2>5. WorkplaceOf(w) \in open
    BY <2>2, <2>3, <2>4 DEF WorkplaceOf, PlacesOfStays
  <2> QED BY <2>1, <2>5
<1>2. ASSUME NEW r \in RowsOfKind(TRUE) PROVE r.place = WorkplaceOf(r.worker)
  <2>1. PICK w \in Workers :
          r = [worker |-> w, crew |-> memberOf[w],
               transferred |-> PlacesOfStays(w) \cap open # {},
               place |-> IF PlacesOfStays(w) \cap open # {} THEN First(PlacesOfStays(w) \cap open)
                         ELSE crews[memberOf[w]].place]
    BY <1>2 DEF RowsOfKind, MovementRows
  <2>2. PlacesOfStays(w) \cap open # {}
    BY <1>2, <2>1 DEF RowsOfKind
  <2>3. r.place = First(PlacesOfStays(w) \cap open) /\ r.worker = w
    BY <2>1, <2>2
  <2> QED BY <2>2, <2>3 DEF WorkplaceOf, PlacesOfStays
<1>3. ASSUME NEW w \in Workers, CrewNow(w) # Nil, crews[CrewNow(w)].place \in open,
             direct[w] \in open \cup {Nil}
      PROVE  PlaceOnCrewScreen(w, CrewNow(w)) = WorkplaceOf(w)
  <2>1. CrewNow(w) = memberOf[w] /\ ActiveCrew(memberOf[w]) /\ Nil \notin open
    BY <1>3, CrewNowIs, NilIsNothing DEF PlacementInv, PlacementTypeOK
  <2>2. \A p \in open : {p} \cap open = {p} /\ First({p}) = p
    BY DEF First
  <2>3. First({crews[memberOf[w]].place} \cap open) = crews[memberOf[w]].place
    BY <1>3, <2>1, <2>2
  <2>4. direct[w] # Nil <=> direct[w] \in open
    BY <1>3, <2>1
  <2> QED BY <2>1, <2>3, <2>4 DEF WorkplaceOf, PlaceOnCrewScreen, PlacesOfStays
<1> QED BY <1>1, <1>2, <1>3 DEF MembersCanMark, ShownWhereTheyMark

\* The members of active crews, with their crew and the place of it.
LEMMA ActiveMember ==
  ASSUME PlacementInv, NEW w \in Workers, CrewNow(w) # Nil
  PROVE  /\ CrewNow(w) = memberOf[w] /\ memberOf[w] \in Crews /\ ActiveCrew(memberOf[w])
         /\ crews[memberOf[w]] # Nil /\ crews[memberOf[w]].active
         /\ crews[memberOf[w]].place \in Places
BY CrewNowIs, NilIsNothing DEF PlacementInv, ActiveCrew, CrewRows

\* Where a member of an active crew is counted.
LEMMA CountedOnce ==
  ASSUME PlacementInv, NEW w \in Workers, CrewNow(w) # Nil
  PROVE  LET home == crews[memberOf[w]].place
             away == \E q \in PlacesOfStays(w) : q # home
         IN  /\ \A p \in Places : w \in BaseWorkers(p) <=> p = home
             /\ \A p \in Places : w \in Sent(p) <=> p = home /\ away
             /\ \A p \in Places : w \in Received(p) <=> p \in PlacesOfStays(w) /\ p # home
             /\ away => \E q \in Places : /\ q # home
                                         /\ \A p \in Places : w \in Received(p) <=> p = q
             /\ ~away => \A p \in Places : w \notin Received(p)
<1> DEFINE home == crews[memberOf[w]].place
           away == \E q \in PlacesOfStays(w) : q # home
<1>1. CrewNow(w) = memberOf[w] /\ memberOf[w] # Nil /\ home \in Places
  BY ActiveMember
<1>2. \A p \in Places : w \in BaseWorkers(p) <=> p = home
  BY <1>1 DEF BaseWorkers
<1>3. \A p \in Places : w \in Sent(p) <=> p = home /\ away
  BY <1>2 DEF Sent
<1>4. \A p \in Places : w \in Received(p) <=> p \in PlacesOfStays(w) /\ p # home
  BY <1>1 DEF Received
<1>5. ASSUME away PROVE \E q \in Places : q # home /\ \A p \in Places : w \in Received(p) <=> p = q
  <2>1. PICK q \in PlacesOfStays(w) : q # home
    BY <1>5
  <2> QED BY <1>4, <2>1, OnePlaceAtATime
<1> QED BY <1>2, <1>3, <1>4, <1>5

\* Whoever is sent is received somewhere, and is counted once in all.
LEMMA EachSomewhere ==
  ASSUME PlacementInv, NEW w \in Workers, CrewNow(w) # Nil
  PROVE  /\ w \in UNION {Sent(p) : p \in Places} => Cardinality({p \in Places : w \in Received(p)}) = 1
         /\ Cardinality({p \in Places : w \in (BaseWorkers(p) \ Sent(p)) \cup Received(p)}) = 1
<1> DEFINE home == crews[memberOf[w]].place
           away == \E q \in PlacesOfStays(w) : q # home
<1>1. home \in Places
  BY ActiveMember
<1>2. CASE away
  <2>1. PICK q \in Places : q # home /\ \A p \in Places : w \in Received(p) <=> p = q
    BY <1>2, CountedOnce
  <2>2. \A p \in Places : w \notin BaseWorkers(p) \ Sent(p)
    BY <1>2, CountedOnce
  <2>3. {p \in Places : w \in Received(p)} = {q}
        /\ {p \in Places : w \in (BaseWorkers(p) \ Sent(p)) \cup Received(p)} = {q}
    BY <2>1, <2>2
  <2> QED BY <2>3, FS_Singleton
<1>3. CASE ~away
  <2>1. \A p \in Places : w \notin Received(p) /\ w \notin Sent(p)
    BY <1>3, CountedOnce
  <2>2. \A p \in Places : w \in BaseWorkers(p) <=> p = home
    BY CountedOnce
  <2>3. {p \in Places : w \in (BaseWorkers(p) \ Sent(p)) \cup Received(p)} = {home}
    BY <1>1, <2>1, <2>2
  <2>4. w \notin UNION {Sent(p) : p \in Places}
    BY <2>1
  <2>5. Cardinality({home}) = 1
    BY FS_Singleton
  <2> QED BY <2>3, <2>4, <2>5
<1> QED BY <1>2, <1>3

\* The sets the figures are sizes of.
LEMMA SentTogether ==
  PlacementInv => CountAll(Places, Sent) = CountAll({c \in Crews : ActiveCrew(c)}, TemporarilyMoved)
<1> SUFFICES ASSUME PlacementInv
             PROVE  CountAll(Places, Sent) = CountAll({c \in Crews : ActiveCrew(c)}, TemporarilyMoved)
  OBVIOUS
<1> DEFINE active == {c \in Crews : ActiveCrew(c)}
           V == {w \in Workers : /\ CrewNow(w) # Nil
                                 /\ \E q \in PlacesOfStays(w) : q # crews[memberOf[w]].place}
           R == UNION {{p} \X Sent(p) : p \in Places}
           T == UNION {{c} \X TemporarilyMoved(c) : c \in active}
<1>1. IsFiniteSet(V)
  BY PlacementAssumption, FS_Subset
<1>2. \A p \in Places : \A w : w \in Sent(p) <=> w \in V /\ p = crews[memberOf[w]].place
  <2> TAKE p \in Places
  <2> TAKE w
  <2>1. w \in Sent(p) => w \in Workers /\ CrewNow(w) # Nil
    BY DEF Sent, BaseWorkers
  <2>2. ASSUME w \in Workers, CrewNow(w) # Nil
        PROVE  w \in Sent(p) <=> w \in V /\ p = crews[memberOf[w]].place
    BY <2>2, CountedOnce
  <2> QED BY <2>1, <2>2
<1>3. \A c \in active : \A w : w \in TemporarilyMoved(c) <=> w \in V /\ c = memberOf[w]
  <2> TAKE c \in active
  <2> TAKE w
  <2>1. w \in TemporarilyMoved(c) =>
          /\ w \in Workers /\ memberOf[w] = c
          /\ \E q \in PlacesOfStays(w) : q # crews[c].place
    BY DEF TemporarilyMoved, Members
  <2>2. ASSUME w \in Workers, memberOf[w] = c PROVE CrewNow(w) # Nil
    BY <2>2, NilIsNothing DEF CrewNow
  <2>3. w \in Workers /\ memberOf[w] = c /\ (\E q \in PlacesOfStays(w) : q # crews[c].place)
          => w \in TemporarilyMoved(c)
    BY DEF TemporarilyMoved, Members
  <2> QED BY <2>1, <2>2, <2>3
<1>4. \A w \in V : crews[memberOf[w]].place \in Places /\ memberOf[w] \in active
  BY ActiveMember
<1> HIDE DEF V, active
<1>5. Cardinality(R) = Cardinality(V)
  <2> DEFINE key == [r \in R |-> r[2]]
  <2>1. \A r \in R : r[2] \in V /\ r[1] = crews[memberOf[r[2]]].place /\ r = <<r[1], r[2]>>
    BY <1>2
  <2>2. key \in [R -> V]
    BY <2>1
  <2>3. \A r, s \in R : key[r] = key[s] => r = s
    BY <2>1
  <2>4. ASSUME NEW w \in V PROVE \E r \in R : key[r] = w
    <3> DEFINE r == <<crews[memberOf[w]].place, w>>
    <3>1. r \in R /\ r[2] = w
      BY <1>2, <1>4
    <3> QED BY <3>1
  <2> HIDE DEF key, R
  <2> QED BY <1>1, <2>2, <2>3, <2>4, OneRowEach
<1>6. Cardinality(T) = Cardinality(V)
  <2> DEFINE key == [r \in T |-> r[2]]
  <2>1. \A r \in T : r[2] \in V /\ r[1] = memberOf[r[2]] /\ r = <<r[1], r[2]>>
    BY <1>3
  <2>2. key \in [T -> V]
    BY <2>1
  <2>3. \A r, s \in T : key[r] = key[s] => r = s
    BY <2>1
  <2>4. ASSUME NEW w \in V PROVE \E r \in T : key[r] = w
    <3> DEFINE r == <<memberOf[w], w>>
    <3>1. r \in T /\ r[2] = w
      BY <1>3, <1>4
    <3> QED BY <3>1
  <2> HIDE DEF key, T
  <2> QED BY <1>1, <2>2, <2>3, <2>4, OneRowEach
<1> QED BY <1>5, <1>6 DEF CountAll, active

\* total_active counts every member of an active crew and everyone received.
LEMMA ActiveTogether ==
  PlacementInv => CountAll(Places, ActiveAt)
                    = Cardinality({w \in Workers : CrewNow(w) # Nil})
                        + Cardinality(UNION {Received(p) : p \in Places})
<1> SUFFICES ASSUME PlacementInv
             PROVE  CountAll(Places, ActiveAt)
                      = Cardinality({w \in Workers : CrewNow(w) # Nil})
                          + Cardinality(UNION {Received(p) : p \in Places})
  OBVIOUS
<1> DEFINE V == {w \in Workers : CrewNow(w) # Nil}
           U == UNION {Received(p) : p \in Places}
           A == UNION {{p} \X ({"base"} \X BaseWorkers(p)) : p \in Places}
           B == UNION {{p} \X ({"received"} \X Received(p)) : p \in Places}
           R == UNION {{p} \X ActiveAt(p) : p \in Places}
<1>1. IsFiniteSet(V) /\ IsFiniteSet(U)
  <2>1. V \subseteq Workers /\ U \subseteq Workers
    BY DEF Received
  <2> QED BY <2>1, PlacementAssumption, FS_Subset
<1>2. \A p \in Places : \A w : w \in BaseWorkers(p) <=> w \in V /\ p = crews[memberOf[w]].place
  <2> TAKE p \in Places
  <2> TAKE w
  <2>1. w \in BaseWorkers(p) => w \in Workers /\ CrewNow(w) # Nil
    BY DEF BaseWorkers
  <2>2. ASSUME w \in Workers, CrewNow(w) # Nil
        PROVE  w \in BaseWorkers(p) <=> p = crews[memberOf[w]].place
    BY <2>2, CountedOnce
  <2> QED BY <2>1, <2>2
<1>3. \A p, q \in Places : \A w : w \in Received(p) /\ w \in Received(q) => p = q
  <2> TAKE p, q \in Places
  <2> TAKE w
  <2>1. w \in Received(p) /\ w \in Received(q) =>
          w \in Workers /\ p \in PlacesOfStays(w) /\ q \in PlacesOfStays(w)
    BY DEF Received
  <2> QED BY <2>1, OnePlaceAtATime
<1>4. \A w \in V : crews[memberOf[w]].place \in Places
  BY ActiveMember
<1>5. R = A \cup B /\ A \cap B = {}
  <2>1. \A r \in A : r[2][1] = "base"
    OBVIOUS
  <2>2. \A r \in B : r[2][1] = "received"
    OBVIOUS
  <2>3. A \cap B = {}
    BY <2>1, <2>2
  <2>4. \A p \in Places : {p} \X ActiveAt(p) =
          ({p} \X ({"base"} \X BaseWorkers(p))) \cup ({p} \X ({"received"} \X Received(p)))
    BY DEF ActiveAt
  <2>5. R = A \cup B
    BY <2>4
  <2> QED BY <2>3, <2>5
<1>6. Cardinality(A) = Cardinality(V) /\ IsFiniteSet(A)
  <2> HIDE DEF V
  <2> DEFINE key == [r \in A |-> r[2][2]]
  <2>1. \A r \in A : /\ r[2][2] \in V /\ r[1] = crews[memberOf[r[2][2]]].place
                     /\ r = <<r[1], <<"base", r[2][2]>> >>
    BY <1>2
  <2>2. key \in [A -> V]
    BY <2>1
  <2>3. \A r, s \in A : key[r] = key[s] => r = s
    BY <2>1
  <2>4. ASSUME NEW w \in V PROVE \E r \in A : key[r] = w
    <3> DEFINE r == <<crews[memberOf[w]].place, <<"base", w>> >>
    <3>1. r \in A /\ r[2][2] = w
      BY <1>2, <1>4
    <3> QED BY <3>1
  <2> HIDE DEF key, A
  <2> QED BY <1>1, <2>2, <2>3, <2>4, OneRowEach
<1>7. Cardinality(B) = Cardinality(U) /\ IsFiniteSet(B)
  <2> DEFINE key == [r \in B |-> r[2][2]]
  <2>1. \A r \in B : /\ r[1] \in Places /\ r[2][2] \in Received(r[1]) /\ r[2][2] \in U
                     /\ r = <<r[1], <<"received", r[2][2]>> >>
    OBVIOUS
  <2>2. key \in [B -> U]
    BY <2>1
  <2>3. \A r, s \in B : key[r] = key[s] => r = s
    BY <1>3, <2>1
  <2>4. ASSUME NEW w \in U PROVE \E r \in B : key[r] = w
    <3>1. PICK p \in Places : w \in Received(p)
      OBVIOUS
    <3> DEFINE r == <<p, <<"received", w>> >>
    <3>2. r \in B /\ r[2][2] = w
      BY <3>1
    <3> QED BY <3>2
  <2> HIDE DEF key, B, U
  <2> QED BY <1>1, <2>2, <2>3, <2>4, OneRowEach
<1> HIDE DEF A, B, R, U, V
<1>8. Cardinality(R) = Cardinality(A) + Cardinality(B)
  <2>1. Cardinality(R) = Cardinality(A) + Cardinality(B) - Cardinality({})
    BY <1>5, <1>6, <1>7, FS_Union
  <2>2. Cardinality({}) = 0 /\ Cardinality(A) \in Nat /\ Cardinality(B) \in Nat
    BY <1>6, <1>7, FS_EmptySet, FS_CardinalityType
  <2> QED BY <2>1, <2>2
<1> QED BY <1>6, <1>7, <1>8 DEF CountAll, R, U, V

\* The report of movements has one row for each member of an active crew.
LEMMA RowsTogether == PlacementInv => MovementsOfMembers
<1> SUFFICES ASSUME PlacementInv PROVE MovementsOfMembers
  OBVIOUS
<1> DEFINE V == {w \in Workers : CrewNow(w) # Nil}
           row(w) == [worker |-> w, crew |-> memberOf[w],
                      transferred |-> PlacesOfStays(w) \cap open # {},
                      place |-> IF PlacesOfStays(w) \cap open # {}
                                THEN First(PlacesOfStays(w) \cap open)
                                ELSE crews[memberOf[w]].place]
           M == UNION {{p} \X MembersListed(p) : p \in Places}
           T == UNION {{p} \X RowsAt(p) : p \in Places}
<1>1. IsFiniteSet(V)
  BY PlacementAssumption, FS_Subset
<1>2. MovementRows = {row(w) : w \in V}
  BY DEF MovementRows
<1>3. \A w \in V : row(w).worker = w /\ row(w).place \in Places
  <2> TAKE w \in V
  <2>1. crews[memberOf[w]].place \in Places
    BY ActiveMember
  <2>2. PlacesOfStays(w) \cap open # {} => First(PlacesOfStays(w) \cap open) \in Places
    BY FirstOfSome DEF PlacementInv, PlacementTypeOK
  <2> QED BY <2>1, <2>2
<1>4. \A c \in Crews, w \in Workers, p \in Places :
        <<c, w>> \in MembersListed(p) <=> w \in V /\ c = memberOf[w] /\ p = crews[c].place
  <2> TAKE c \in Crews, w \in Workers, p \in Places
  <2>1. <<c, w>> \in MembersListed(p) <=>
          crews[c] # Nil /\ crews[c].place = p /\ crews[c].active /\ memberOf[w] = c
    BY DEF MembersListed, CrewsListed, Members
  <2>2. crews[c] # Nil /\ crews[c].active /\ memberOf[w] = c => CrewNow(w) # Nil
    BY NilIsNothing DEF CrewNow, ActiveCrew
  <2>3. w \in V /\ c = memberOf[w] => crews[c] # Nil /\ crews[c].active
    BY ActiveMember
  <2> QED BY <2>1, <2>2, <2>3
<1>5. \A w \in V : memberOf[w] \in Crews /\ w \in Workers /\ crews[memberOf[w]].place \in Places
  BY ActiveMember
<1> HIDE DEF row, V
<1>6. Cardinality(MovementRows) = Cardinality(V)
  <2> DEFINE key == [r \in MovementRows |-> r.worker]
  <2>1. key \in [MovementRows -> V]
    BY <1>2, <1>3
  <2>2. \A r, s \in MovementRows : key[r] = key[s] => r = s
    BY <1>2, <1>3
  <2>3. \A w \in V : \E r \in MovementRows : key[r] = w
    BY <1>2, <1>3
  <2> HIDE DEF key
  <2> QED BY <1>1, <2>1, <2>2, <2>3, OneRowEach
<1>7. Cardinality(T) = Cardinality(V)
  <2> DEFINE key == [r \in T |-> r[2].worker]
  <2>1. \A r \in T : r[2] \in MovementRows /\ r[1] = r[2].place /\ r = <<r[1], r[2]>>
    BY DEF RowsAt
  <2>2. \A r \in T : \E w \in V : r[2] = row(w) /\ r[2].worker = w
    BY <1>2, <1>3, <2>1
  <2>3. key \in [T -> V]
    BY <2>2
  <2>4. \A r, s \in T : key[r] = key[s] => r = s
    BY <2>1, <2>2
  <2>5. ASSUME NEW w \in V PROVE \E r \in T : key[r] = w
    <3> DEFINE r == <<row(w).place, row(w)>>
    <3>1. row(w) \in RowsAt(row(w).place) /\ row(w).place \in Places /\ row(w).worker = w
      BY <1>2, <1>3 DEF RowsAt
    <3>2. r \in T /\ r[2].worker = w
      BY <3>1
    <3> QED BY <3>2
  <2> HIDE DEF key, T
  <2> QED BY <1>1, <2>3, <2>4, <2>5, OneRowEach
<1>8. Cardinality(M) = Cardinality(V)
  <2> DEFINE key == [r \in M |-> r[2][2]]
  <2>1. \A r \in M : /\ r[1] \in Places /\ r[2] \in MembersListed(r[1]) /\ r = <<r[1], r[2]>>
                     /\ r[2][1] \in Crews /\ r[2][2] \in Workers /\ r[2] = <<r[2][1], r[2][2]>>
    <3>1. \A r \in M : r[1] \in Places /\ r[2] \in MembersListed(r[1]) /\ r = <<r[1], r[2]>>
      OBVIOUS
    <3>2. \A p \in Places : \A x \in MembersListed(p) :
            x[1] \in Crews /\ x[2] \in Workers /\ x = <<x[1], x[2]>>
      BY DEF MembersListed
    <3> HIDE DEF M
    <3> QED BY <3>1, <3>2
  <2>2. \A r \in M : r[2][2] \in V /\ r[2][1] = memberOf[r[2][2]] /\ r[1] = crews[r[2][1]].place
    <3> TAKE r \in M
    <3> DEFINE c == r[2][1]
               w == r[2][2]
    <3>1. c \in Crews /\ w \in Workers /\ r[1] \in Places /\ <<c, w>> \in MembersListed(r[1])
      BY <2>1
    <3> HIDE DEF c, w
    <3>2. w \in V /\ c = memberOf[w] /\ r[1] = crews[c].place
      BY <1>4, <3>1
    <3> QED BY <3>2 DEF c, w
  <2>3. key \in [M -> V]
    BY <2>2
  <2>4. \A r, s \in M : key[r] = key[s] => r = s
    <3> TAKE r, s \in M
    <3> HAVE key[r] = key[s]
    <3>1. r[2][2] = s[2][2]
      OBVIOUS
    <3>2. r[2][1] = s[2][1] /\ r[1] = s[1]
      BY <2>2, <3>1
    <3>3. r[2] = s[2]
      BY <2>1, <3>1, <3>2
    <3> QED BY <2>1, <3>2, <3>3
  <2>5. ASSUME NEW w \in V PROVE \E r \in M : key[r] = w
    <3> DEFINE r == <<crews[memberOf[w]].place, <<memberOf[w], w>> >>
    <3>1. <<memberOf[w], w>> \in MembersListed(crews[memberOf[w]].place)
          /\ crews[memberOf[w]].place \in Places
      BY <1>4, <1>5
    <3>2. r \in M /\ r[2][2] = w
      BY <3>1
    <3> QED BY <3>2
  <2> HIDE DEF key, M
  <2> QED BY <1>1, <2>3, <2>4, <2>5, OneRowEach
<1> QED BY <1>6, <1>7, <1>8 DEF MovementsOfMembers, CountAll

\* Members of active crews can mark where the screens show them, the figures of
\* places, crews and movements are of the same workers, and the history names the
\* crew (getActiveWorkLocationForWorker beside the queries of the screens), for any
\* number of workers, crews and places.
THEOREM MembersArePlaced ==
  PlacementInit /\ [][PlacementNext]_placementVars => []MembersPlaced
<1>1. ASSUME PlacementInv PROVE MembersPlaced
  <2>1. TransfersAddUp
    <3>1. \A w \in UNION {Sent(p) : p \in Places} :
            w \in Workers /\ CrewNow(w) # Nil
      BY DEF Sent, BaseWorkers
    <3> QED BY <1>1, <3>1, EachSomewhere, SentTogether, ActiveTogether DEF TransfersAddUp
  <2>2. HistoryNamesCrew
    <3>1. ASSUME NEW w \in Workers PROVE CrewNow(w) \in {Nil, told[w]}
      BY <1>1, CrewNowIs DEF PlacementInv, ToldCrew
    <3> QED BY <1>1, <3>1 DEF HistoryNamesCrew, HistoryHeader, PlacementInv, ToldCrew
  <2> QED BY <1>1, <2>1, <2>2, ShownPlaces, RowsTogether DEF MembersPlaced
<1> QED BY <1>1, PlacementBegins, PlacementKept, PTL

===============================================================================
