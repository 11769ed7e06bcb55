------------------------------ MODULE Catalogues ------------------------------
(***************************************************************************)
(* The catalogues of the organisation, departments, areas in them and job  *)
(* positions in those, the workers placed in them, and the lists each      *)
(* service keeps for a minute: modules/departments, areas and jobPositions *)
(* with shared/utils/catalog-cache.js, and                                 *)
(* shared/services/labor-assignment.service.js.                            *)
(*                                                                         *)
(* One company, one process, one list for each service: the active rows.   *)
(* Of the columns, the name stands for what a list shows.                  *)
(***************************************************************************)
EXTENDS Naturals

CONSTANTS
  Departments, Areas, Positions,   \* ids of rows
  Employees,                       \* workers
  Names,
  Readers,                         \* requests for a list
  MaxEdits,                        \* bound on the changes made
  Absent,                          \* no row, or one with deleted_at
  Nowhere,                         \* NULL
  NotCached

Items == Departments \cup Areas \cup Positions
Kinds == {"departments", "areas", "positions"}

OfKind(k) ==
  CASE k = "departments" -> Departments [] k = "areas" -> Areas [] k = "positions" -> Positions

Parents(x) ==
  CASE x \in Departments -> {Nowhere}
    [] x \in Areas -> Departments \cup {Nowhere}
    [] x \in Positions -> Areas

ItemRows == [active : BOOLEAN, name : Names, parent : Items \cup {Nowhere}]

Places == [department : Departments \cup {Nowhere}, area : Areas \cup {Nowhere},
           position : Positions \cup {Nowhere}]

ASSUME CataloguesAssumption == MaxEdits \in Nat /\ Absent \notin ItemRows /\ Nowhere \notin Items

VARIABLES
  items,           \* departments, areas, job_positions
  placed,          \* workers: where each one is
  employed,        \* workers that are active
  lists,           \* catalogCache of each service
  reading,         \* what each request for a list has read
  edits            \* history: the changes made

cataloguesVars == <<items, placed, employed, lists, reading, edits>>

Shown == Items \X Names \X (Names \cup {Nowhere})

CataloguesTypeOK ==
  /\ items \in [Items -> ItemRows \cup {Absent}]
  /\ placed \in [Employees -> Places]
  /\ employed \subseteq Employees
  /\ lists \in [Kinds -> (SUBSET Shown) \cup {NotCached}]
  /\ reading \in [Readers -> [kind : Kinds, rows : SUBSET Shown] \cup {NotCached}]
  /\ edits \in 0 .. MaxEdits

-------------------------------------------------------------------------------
Exist(x) == x # Nowhere /\ items[x] # Absent

Open(x) == Exist(x) /\ items[x].active

HasActiveWorkers(x) ==
  \E w \in employed : x \in {placed[w].department, placed[w].area, placed[w].position}

\* The list of a service: its active rows, joined with the name of the row above.
Current(k) ==
  {<<x, items[x].name, IF Exist(items[x].parent) THEN items[items[x].parent].name ELSE Nowhere>> :
     x \in {x \in OfKind(k) : Open(x)}}

\* validateDepartment of an area; the area of a position only has to exist.
ValidParent(x, parent) ==
  /\ parent \in Parents(x)
  /\ x \in Areas => parent = Nowhere \/ Open(parent)
  /\ x \in Positions => Exist(parent)

KindOf(x) == CHOOSE k \in Kinds : x \in OfKind(k)

\* Every write clears the lists of its own service, and of no other.
Write(x, row) ==
  /\ edits < MaxEdits /\ edits' = edits + 1
  /\ items' = [items EXCEPT ![x] = row]
  /\ lists' = [lists EXCEPT ![KindOf(x)] = NotCached]
  /\ UNCHANGED <<placed, employed, reading>>

\* createDepartment, createArea, createJobPosition
Create(x, active, name, parent) ==
  /\ items[x] = Absent
  /\ ValidParent(x, parent)
  /\ Write(x, [active |-> active, name |-> name, parent |-> parent])

\* updateDepartment, updateArea, updateJobPosition: a row above that is not changed is
\* not checked, and is_active in the payload is written without asking for workers.
Update(x, active, name, parent) ==
  /\ Exist(x)
  /\ parent = items[x].parent \/ ValidParent(x, parent)
  /\ Write(x, [active |-> active, name |-> name, parent |-> parent])

\* updateDepartmentStatus, updateAreaStatus, updateJobPositionStatus
UpdateStatus(x, active) ==
  /\ Exist(x)
  /\ ~active => ~HasActiveWorkers(x)
  /\ Write(x, [items[x] EXCEPT !.active = active])

\* An area is asked for active positions, the others for active workers.
Delete(x) ==
  /\ Exist(x)
  /\ IF x \in Areas THEN \A p \in Positions : Open(p) => items[p].parent # x
                    ELSE ~HasActiveWorkers(x)
  /\ Write(x, Absent)

\* validateLaborAssignment
ValidPlace(place) ==
  /\ place.department # Nowhere => Open(place.department)
  /\ place.area # Nowhere =>
       /\ Open(place.area)
       /\ place.department # Nowhere => items[place.area].parent = place.department
  /\ place.position # Nowhere =>
       /\ Open(place.position)
       /\ place.area # Nowhere => items[place.position].parent = place.area

PlaceWorker(w, place) ==
  /\ edits < MaxEdits /\ edits' = edits + 1
  /\ ValidPlace(place)
  /\ placed' = [placed EXCEPT ![w] = place]
  /\ employed' = employed \cup {w}
  /\ UNCHANGED <<items, lists, reading>>

\* The worker becomes inactive, or is deleted.
WorkerLeaves(w) ==
  /\ employed' = employed \ {w}
  /\ w \in employed
  /\ UNCHANGED <<items, placed, lists, reading, edits>>

-------------------------------------------------------------------------------
\* getDepartments, getAreas, getJobPositions without an entry: the query, ...
ListRead(r, k) ==
  /\ reading[r] = NotCached
  /\ lists[k] = NotCached
  /\ reading' = [reading EXCEPT ![r] = [kind |-> k, rows |-> Current(k)]]
  /\ UNCHANGED <<items, placed, employed, lists, edits>>

\* ... and its rows, which are stored whatever was cleared since.
ListStored(r) ==
  /\ reading[r] # NotCached
  /\ lists' = [lists EXCEPT ![reading[r].kind] = reading[r].rows]
  /\ reading' = [reading EXCEPT ![r] = NotCached]
  /\ UNCHANGED <<items, placed, employed, edits>>

ListRenewed(k) ==                                           \* faulty variant
  k = "none" /\ UNCHANGED cataloguesVars

\* The minute of an entry counts from when it was stored.
ListExpires(k) ==
  /\ lists[k] # NotCached
  /\ lists' = [lists EXCEPT ![k] = NotCached]
  /\ UNCHANGED <<items, placed, employed, reading, edits>>

CataloguesInit ==
  /\ items = [x \in Items |-> Absent]
  /\ placed = [w \in Employees |->
       [department |-> Nowhere, area |-> Nowhere, position |-> Nowhere]]
  /\ employed = {}
  /\ lists = [k \in Kinds |-> NotCached]
  /\ reading = [r \in Readers |-> NotCached]
  /\ edits = 0

CataloguesNext ==
  \/ \E x \in Items :
       \/ \E active \in BOOLEAN, name \in Names, parent \in Items \cup {Nowhere} :
            Create(x, active, name, parent) \/ Update(x, active, name, parent)
       \/ \E active \in BOOLEAN : UpdateStatus(x, active)
       \/ Delete(x)
  \/ \E w \in Employees :
       (\E place \in Places : PlaceWorker(w, place)) \/ WorkerLeaves(w)
  \/ \E k \in Kinds : ListExpires(k) \/ \E r \in Readers : ListRead(r, k)
  \/ \E r \in Readers : ListStored(r)

\* A query is answered, and a minute ends.
CataloguesFairness ==
  /\ \A r \in Readers : WF_cataloguesVars(ListStored(r))
  /\ \A k \in Kinds : WF_cataloguesVars(ListExpires(k))

CataloguesSpec == CataloguesInit /\ [][CataloguesNext]_cataloguesVars /\ CataloguesFairness

-------------------------------------------------------------------------------
\* When the changes end, every list that is served is what the tables hold, although a
\* list shows columns of tables whose service does not clear it, and a query that began
\* before a change may be stored after it.
ListsSettle ==
  <>[](\A k \in Kinds : lists[k] \in {NotCached, Current(k)})
===============================================================================
