------------------------------- MODULE Transfers -------------------------------
(***************************************************************************)
(* What screens and reports show of where workers are: the crew's workers, *)
(* the list of crews, the figures of each place, the report of movements   *)
(* and the history.  modules/workCrews, modules/workLocations,             *)
(* report-service/services/report.service and                              *)
(* workerLocationHistoryReport.service.                                    *)
(*                                                                         *)
(* Each looks the assignments up in its own way; attendance in another     *)
(* (WorkplaceOf).  Search, the dates and the columns asked for, and the    *)
(* wording of the history's rows, are left out.                            *)
(***************************************************************************)
EXTENDS WorkPlacement

Members(c) == {w \in Workers : memberOf[w] = c}

PlacesOfStays(w) == {s.place : s \in StaysNow(w)}

\* getCrewWorkers: the assignment shown with a member of the crew.  Whether the
\* worker's own place is open is not asked.
PlaceOnCrewScreen(w, c) ==
  LET stays == PlacesOfStays(w) \cap open IN
  IF stays # {} THEN First(stays)
  ELSE IF permanent[w] # Nil /\ permanent[w].place \in open THEN permanent[w].place
  ELSE IF direct[w] # Nil THEN direct[w]
  ELSE crews[c].place

\* CREW_SELECT: those of a crew who are temporarily elsewhere; closed places count.
TemporarilyMoved(c) == {w \in Members(c) : \E p \in PlacesOfStays(w) : p # crews[c].place}

\* getWorkCrews, getWorkCrewsData: the crews of a place, all of them or the active
\* ones, each with the members its number of workers counts.
CrewsListed(p, all) ==
  {c \in Crews : crews[c] # Nil /\ crews[c].place = p /\ (all \/ crews[c].active)}

MembersListed(p) ==
  {r \in Crews \X Workers : r[1] \in CrewsListed(p, FALSE) /\ r[2] \in Members(r[1])}

\* getWorkCrewMovementReportData: the workers of active crews, each transferred to
\* an open place or at the crew's.
MovementRows ==
  {[worker |-> w, crew |-> memberOf[w],
    transferred |-> PlacesOfStays(w) \cap open # {},
    place |-> IF PlacesOfStays(w) \cap open # {} THEN First(PlacesOfStays(w) \cap open)
              ELSE crews[memberOf[w]].place]
     : w \in {v \in Workers : CrewNow(v) # Nil}}

RowsOfKind(transferred) == {r \in MovementRows : r.transferred = transferred}
RowsAt(p) == {r \in MovementRows : r.place = p}

\* WORK_LOCATION_CATALOG_SELECT: who belongs to the place by an active crew, who of
\* them is elsewhere, and who has come; here a crew that is not active counts.
BaseWorkers(p) == {w \in Workers : CrewNow(w) # Nil /\ crews[CrewNow(w)].place = p}
Sent(p) == {w \in BaseWorkers(p) : \E q \in PlacesOfStays(w) : q # p}
Received(p) ==
  {w \in Workers : p \in PlacesOfStays(w) /\ (memberOf[w] # Nil => crews[memberOf[w]].place # p)}

\* What total_active counts.
ActiveAt(p) == ({"base"} \X BaseWorkers(p)) \cup ({"received"} \X Received(p))

\* The figures of all of S together, each the size of a set.
CountAll(S, set(_)) == Cardinality(UNION {{x} \X set(x) : x \in S})

\* findWorkerForLocationHistoryReport: the crew and the place read with the worker.
HistoryHeader(w) == [crew |-> CrewNow(w), place |-> direct[w]]

-------------------------------------------------------------------------------
(* Properties *)

\* A transfer the report of movements shows is where the worker's attendance is
\* marked; so is the place on the crew's screen, where the crew's place and the
\* worker's own are open.
ShownWhereTheyMark ==
  /\ \A r \in RowsOfKind(TRUE) : r.place = WorkplaceOf(r.worker)
  /\ \A w \in Workers :
       /\ CrewNow(w) # Nil
       /\ crews[CrewNow(w)].place \in open
       /\ direct[w] \in open \cup {Nil}
       => PlaceOnCrewScreen(w, CrewNow(w)) = WorkplaceOf(w)

\* Whoever is sent is received at one other place, and the crews' list counts the
\* same workers away as the places do; without those sent the places hold every
\* member of an active crew once, which total_active, with them, does not.
TransfersAddUp ==
  LET active == {c \in Crews : ActiveCrew(c)}
      sent == UNION {Sent(p) : p \in Places}
  IN
  /\ \A w \in sent : Cardinality({p \in Places : w \in Received(p)}) = 1
  /\ CountAll(Places, Sent) = CountAll(active, TemporarilyMoved)
  /\ \A w \in Workers : CrewNow(w) # Nil =>
       Cardinality({p \in Places : w \in (BaseWorkers(p) \ Sent(p)) \cup Received(p)}) = 1
  /\ CountAll(Places, ActiveAt)
       = Cardinality({w \in Workers : CrewNow(w) # Nil})
           + Cardinality(UNION {Received(p) : p \in Places})

\* The report of movements has a row of each member the list of active crews
\* counts, under whichever place.
MovementsOfMembers ==
  /\ Cardinality(MovementRows) = CountAll(Places, MembersListed)
  /\ Cardinality(MovementRows) = CountAll(Places, RowsAt)

\* The history names the crew the worker is in, by whichever way it got there,
\* and the crew read with the worker is no other.
HistoryNamesCrew ==
  \A w \in Workers :
    /\ memberOf[w] # Nil => told[w] = memberOf[w]
    /\ HistoryHeader(w).crew \in {Nil, told[w]}

\* Members of active crews can mark attendance, where the screens show them, and
\* the figures and the history tell of them.
MembersPlaced ==
  /\ MembersCanMark
  /\ ShownWhereTheyMark
  /\ TransfersAddUp
  /\ MovementsOfMembers
  /\ HistoryNamesCrew
===============================================================================
