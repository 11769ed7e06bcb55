------------------------------- MODULE Devices --------------------------------
(***************************************************************************)
(* The mobile devices of users: registration, change under a monthly       *)
(* limit, blocking.  services/device-service/controllers.js.               *)
(*                                                                         *)
(* A step is a query.  What a device says of itself is left out, and so is *)
(* is_trusted, which every registration sets; all users are of one company *)
(* and have a worker.  user_id and device_id are unique in user_devices.   *)
(***************************************************************************)
EXTENDS Naturals, FiniteSets

CONSTANTS
  DeviceHandlers,  \* requests of users in progress
  Users,
  Identifiers,     \* device_id = device_identifier
  DeviceIds,       \* ids of user_devices
  NoDevice,        \* no row
  ChangeLimit,     \* MONTHLY_DEVICE_CHANGE_LIMIT
  MaxDrops         \* bound on the requests that stop half-way

Registered == [user : Users, ident : Identifiers, blocked : BOOLEAN, active : BOOLEAN]

ASSUME DevicesAssumption ==
  /\ {ChangeLimit, MaxDrops} \subseteq Nat
  /\ NoDevice \notin Registered
  /\ IsFiniteSet(DeviceHandlers) /\ DeviceHandlers # {}

VARIABLES
  userDevices,     \* user_devices
  changes,         \* the month's rows of device_change_logs, counted by user
  request,         \* what each handler has read and is about to do
  switched,        \* history: changes and revocations of the month, by user
  drops            \* history: requests that stopped half-way

devicesVars == <<userDevices, changes, request, switched, drops>>

NoRequest == [pc |-> "idle"]

DeviceRequests ==
  {NoRequest}
  \cup [pc : {"current", "insert"}, user : Users, ident : Identifiers]
  \cup [pc : {"count", "update"}, user : Users, ident : Identifiers, id : DeviceIds,
        revoke : BOOLEAN, counted : BOOLEAN]
  \cup [pc : {"log"}, user : Users]

DevicesTypeOK ==
  /\ userDevices \in [DeviceIds -> Registered \cup {NoDevice}]
  /\ changes \in [Users -> Nat]
  /\ request \in [DeviceHandlers -> DeviceRequests]
  /\ switched \in [Users -> Nat]
  /\ drops \in 0 .. MaxDrops

DeviceRows == {r \in DeviceIds : userDevices[r] # NoDevice}

RowsOf(u) == {r \in DeviceRows : userDevices[r].user = u}

RowsWith(i) == {r \in DeviceRows : userDevices[r].ident = i}

Await(h, next) == request' = [request EXCEPT ![h] = next]

-------------------------------------------------------------------------------
(* registerDevice *)

\* The identifier is looked up, a row of the user first.  A row of another
\* user, or a blocked one, refuses; one of the user is updated.
RegisterRead(h, u, i) ==
  LET own == RowsWith(i) \cap RowsOf(u) IN
  /\ request[h] = NoRequest
  /\ \/ RowsWith(i) = {} /\ Await(h, [pc |-> "current", user |-> u, ident |-> i])
     \/ \E r \in own :
          /\ ~userDevices[r].blocked
          /\ Await(h, [pc |-> "update", user |-> u, ident |-> i, id |-> r,
                       revoke |-> FALSE, counted |-> FALSE])
  /\ UNCHANGED <<userDevices, changes, switched, drops>>

\* A user who has a row, blocked or not, changes its device; else one is added.
CurrentRead(h) ==
  LET q == request[h] IN
  /\ q.pc = "current"
  /\ \/ \E r \in RowsOf(q.user) :
          Await(h, [pc |-> "count", user |-> q.user, ident |-> q.ident, id |-> r,
                    revoke |-> FALSE, counted |-> TRUE])
     \/ RowsOf(q.user) = {} /\ Await(h, [q EXCEPT !.pc = "insert"])
  /\ UNCHANGED <<userDevices, changes, switched, drops>>

\* An id is a UUID: no request in progress names one that is given out.
FreshDevice ==
  DeviceIds \ (DeviceRows
    \cup {request[h].id : h \in {g \in DeviceHandlers : "id" \in DOMAIN request[g]}})

\* A row that breaks a constraint is refused.
InsertDevice(h) ==
  LET q == request[h] IN
  /\ q.pc = "insert"
  /\ \E r \in FreshDevice :
       userDevices' = IF RowsOf(q.user) \cup RowsWith(q.ident) # {} THEN userDevices
         ELSE [userDevices EXCEPT ![r] =
                 [user |-> q.user, ident |-> q.ident, blocked |-> FALSE, active |-> TRUE]]
  /\ Await(h, NoRequest)
  /\ UNCHANGED <<changes, switched, drops>>

-------------------------------------------------------------------------------
(* revokeCurrentDevice *)

RevokeRead(h, u, i) ==
  /\ request[h] = NoRequest
  /\ \E r \in RowsWith(i) \cap RowsOf(u) :
       /\ ~userDevices[r].blocked /\ userDevices[r].active
       /\ Await(h, [pc |-> "count", user |-> u, ident |-> i, id |-> r,
                    revoke |-> TRUE, counted |-> TRUE])
  /\ UNCHANGED <<userDevices, changes, switched, drops>>

CountOneMore(h) ==                                       \* faulty variant
  LET q == request[h] IN
  /\ q.pc = "count"
  /\ Await(h, IF changes[q.user] <= ChangeLimit THEN [q EXCEPT !.pc = "update"] ELSE NoRequest)
  /\ UNCHANGED <<userDevices, changes, switched, drops>>

\* countDeviceChangesThisMonth: a user at the limit is refused.
CountChanges(h) ==
  LET q == request[h] IN
  /\ q.pc = "count"
  /\ Await(h, IF changes[q.user] < ChangeLimit THEN [q EXCEPT !.pc = "update"] ELSE NoRequest)
  /\ UNCHANGED <<userDevices, changes, switched, drops>>

\* The row is written by its id, whether it was blocked in between or not; the
\* change of one that was deleted is logged too.
UpdateDevice(h) ==
  LET q == request[h]
      refused == ~q.revoke /\ ~RowsWith(q.ident) \subseteq {q.id}
      write   == userDevices[q.id] # NoDevice /\ ~refused
  IN
  /\ q.pc = "update"
  /\ userDevices' = [userDevices EXCEPT ![q.id] =
       IF ~write THEN @
       ELSE IF q.revoke THEN [@ EXCEPT !.active = FALSE]
       ELSE [@ EXCEPT !.ident = q.ident, !.blocked = FALSE, !.active = TRUE]]
  /\ switched' = [switched EXCEPT ![q.user] = IF write /\ q.counted THEN @ + 1 ELSE @]
  /\ Await(h, IF q.counted /\ ~refused THEN [pc |-> "log", user |-> q.user] ELSE NoRequest)
  /\ UNCHANGED <<changes, drops>>

LogLost(h) ==                                               \* faulty variant
  /\ request[h].pc = "log"
  /\ Await(h, NoRequest)
  /\ UNCHANGED <<userDevices, changes, switched, drops>>

LogChange(h) ==
  /\ request[h].pc = "log"
  /\ changes' = [changes EXCEPT ![request[h].user] = @ + 1]
  /\ Await(h, NoRequest)
  /\ UNCHANGED <<userDevices, switched, drops>>

\* A query failed, or the process stopped.
DropRequest(h) ==
  /\ request[h] # NoRequest
  /\ drops < MaxDrops
  /\ drops' = drops + 1
  /\ Await(h, NoRequest)
  /\ UNCHANGED <<userDevices, changes, switched>>

-------------------------------------------------------------------------------
(* The administrator, and the calendar *)

SetDevice(r, blocked, active) ==
  /\ userDevices[r] # NoDevice
  /\ userDevices' = [userDevices EXCEPT ![r].blocked = blocked, ![r].active = active]
  /\ UNCHANGED <<changes, request, switched, drops>>

BlockDevice(r) == SetDevice(r, TRUE, FALSE)

UnblockDevice(r) == SetDevice(r, FALSE, TRUE)

DeleteDevice(r) ==
  /\ userDevices[r] # NoDevice
  /\ userDevices' = [userDevices EXCEPT ![r] = NoDevice]
  /\ UNCHANGED <<changes, request, switched, drops>>

\* changeStatus blocks the devices of an account that it disables.
BlockDevicesOf(u) ==
  /\ RowsOf(u) # {}
  /\ userDevices' = [r \in DeviceIds |->
       IF r \in RowsOf(u) THEN [userDevices[r] EXCEPT !.blocked = TRUE]
       ELSE userDevices[r]]
  /\ UNCHANGED <<changes, request, switched, drops>>

\* month_key of the rows counted.
NextMonth ==
  /\ changes' = [u \in Users |-> 0]
  /\ switched' = [u \in Users |-> 0]
  /\ UNCHANGED <<userDevices, request, drops>>

DevicesInit ==
  /\ userDevices = [r \in DeviceIds |-> NoDevice]
  /\ changes = [u \in Users |-> 0]
  /\ switched = [u \in Users |-> 0]
  /\ drops = 0
  /\ request = [h \in DeviceHandlers |-> NoRequest]

DevicesNext ==
  \/ \E h \in DeviceHandlers :
       \/ \E u \in Users, i \in Identifiers : RegisterRead(h, u, i) \/ RevokeRead(h, u, i)
       \/ CurrentRead(h) \/ InsertDevice(h) \/ CountChanges(h) \/ UpdateDevice(h)
       \/ LogChange(h) \/ DropRequest(h)
  \/ \E r \in DeviceIds : BlockDevice(r) \/ UnblockDevice(r) \/ DeleteDevice(r)
  \/ \E u \in Users : BlockDevicesOf(u)
  \/ NextMonth

-------------------------------------------------------------------------------
(* Properties *)

\* How far the monthly limit gives way: it is read before the change and written
\* after it, so that every other request in progress, and every one that stopped
\* between the two, lets one more change through, and no more.
MonthlyLimit ==
  \A u \in Users :
    switched[u] <= ChangeLimit + (Cardinality(DeviceHandlers) - 1) + drops
===============================================================================
