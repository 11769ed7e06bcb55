------------------------------ MODULE StaffProofs ------------------------------
(***************************************************************************)
(* Registered devices, contracts and stored documents, for any number of   *)
(* handlers, rows and files, and the types of all the staff's components.  *)
(***************************************************************************)
EXTENDS MCWorkforce, PlacementProofs, WorkforceProofs

-------------------------------------------------------------------------------
(* Devices *)

IsLog(q, u) == q.pc = "log" /\ q.user = u
IsCounted(q, u) == q.pc = "update" /\ q.user = u /\ q.counted

\* The requests of a user that changed its device and have not logged it, and those
\* that were counted and are about to change it.
Unlogged(u) == {h \in DeviceHandlers : IsLog(request[h], u)}
Counted(u)  == {h \in DeviceHandlers : IsCounted(request[h], u)}

\* A change is in the month's log, or a request in progress has it still to log, or
\* one that stopped never will.
ChangesTold ==
  \A u \in Users : switched[u] <= changes[u] + Cardinality(Unlogged(u)) + drops

\* The changes that are still to be made are within the bound too; without a limit to
\* speak of, nobody is let through.
RoomLeft ==
  \A u \in Users :
    /\ switched[u] + Cardinality(Counted(u))
         <= ChangeLimit + (Cardinality(DeviceHandlers) - 1) + drops
    /\ Counted(u) # {} => ChangeLimit >= 1

DevicesInv == DevicesTypeOK /\ ChangesTold /\ RoomLeft

Currents == [pc : {"current", "insert"}, user : Users, ident : Identifiers]
Switches == [pc : {"count", "update"}, user : Users, ident : Identifiers, id : DeviceIds,
             revoke : BOOLEAN, counted : BOOLEAN]
Loggings == [pc : {"log"}, user : Users]

\* What a handler holds follows from how far its request has come.
LEMMA RequestKinds ==
  ASSUME NEW q \in DeviceRequests
  PROVE  /\ q.pc \in {"current", "insert"} => q \in Currents
         /\ q.pc \in {"count", "update"} => q \in Switches
         /\ q.pc = "log" => q \in Loggings
BY DEF DeviceRequests, NoRequest, Currents, Switches, Loggings

LEMMA RequestsOfKinds ==
  /\ NoRequest \in DeviceRequests /\ Currents \subseteq DeviceRequests
  /\ Switches \subseteq DeviceRequests /\ Loggings \subseteq DeviceRequests
BY DEF DeviceRequests, Currents, Switches, Loggings

\* Handlers are finitely many, and so are those of a user at any point.
LEMMA HandlersCount ==
  ASSUME NEW S \in SUBSET DeviceHandlers
  PROVE  /\ IsFiniteSet(S) /\ Cardinality(S) \in Nat
         /\ Cardinality(S) <= Cardinality(DeviceHandlers)
         /\ Cardinality(DeviceHandlers) \in Nat \ {0}
<1>1. IsFiniteSet(DeviceHandlers) /\ DeviceHandlers # {}
  BY DevicesAssumption
<1>2. IsFiniteSet(S) /\ Cardinality(S) <= Cardinality(DeviceHandlers)
  BY <1>1, FS_Subset
<1>3. Cardinality(S) \in Nat /\ Cardinality(DeviceHandlers) \in Nat
  BY <1>1, <1>2, FS_CardinalityType
<1>4. Cardinality(DeviceHandlers) # 0
  BY <1>1, FS_EmptySet
<1> QED BY <1>2, <1>3, <1>4

\* Adding a handler to a set of handlers, or taking one out of it.
LEMMA OneMoreOrLess ==
  ASSUME NEW S \in SUBSET DeviceHandlers, NEW h \in DeviceHandlers
  PROVE  /\ Cardinality(S \cup {h}) = IF h \in S THEN Cardinality(S) ELSE Cardinality(S) + 1
         /\ Cardinality(S \ {h}) = IF h \in S THEN Cardinality(S) - 1 ELSE Cardinality(S)
<1>1. IsFiniteSet(S)
  BY HandlersCount
<1> QED BY <1>1, FS_AddElement, FS_RemoveElement

\* Two sets of handlers apart from each other are no more than there are.
LEMMA TwoSets ==
  ASSUME NEW S \in SUBSET DeviceHandlers, NEW T \in SUBSET DeviceHandlers, S \cap T = {}
  PROVE  /\ Cardinality(S) + Cardinality(T) <= Cardinality(DeviceHandlers)
         /\ Cardinality(S) \in Nat /\ Cardinality(T) \in Nat
<1>1. IsFiniteSet(S) /\ IsFiniteSet(T) /\ Cardinality(S) \in Nat /\ Cardinality(T) \in Nat
  BY HandlersCount
<1>2. Cardinality(S \cup T) = Cardinality(S) + Cardinality(T) - Cardinality(S \cap T)
  BY <1>1, FS_Union
<1>3. Cardinality(S \cap T) = 0
  BY FS_EmptySet
<1>4. Cardinality(S \cup T) <= Cardinality(DeviceHandlers)
  BY HandlersCount
<1> QED BY <1>1, <1>2, <1>3, <1>4

\* How one handler's step moves the two counts of a user.
LEMMA CountsMove ==
  ASSUME DevicesTypeOK, NEW h \in DeviceHandlers, NEW next \in DeviceRequests, Await(h, next),
         NEW u \in Users
  PROVE  /\ request' \in [DeviceHandlers -> DeviceRequests]
         /\ Unlogged(u)' = IF IsLog(next, u) THEN Unlogged(u) \cup {h} ELSE Unlogged(u) \ {h}
         /\ Counted(u)' = IF IsCounted(next, u) THEN Counted(u) \cup {h} ELSE Counted(u) \ {h}
<1>1. /\ request' \in [DeviceHandlers -> DeviceRequests]
      /\ \A g \in DeviceHandlers : request'[g] = IF g = h THEN next ELSE request[g]
  BY DEF DevicesTypeOK, Await
<1>2. \A g \in DeviceHandlers :
        /\ IsLog(request[g], u)' <=> IF g = h THEN IsLog(next, u) ELSE IsLog(request[g], u)
        /\ IsCounted(request[g], u)' <=> IF g = h THEN IsCounted(next, u) ELSE IsCounted(request[g], u)
  BY <1>1 DEF IsLog, IsCounted
<1>3. /\ Unlogged(u)' = {g \in DeviceHandlers : IsLog(request[g], u)'}
      /\ Counted(u)' = {g \in DeviceHandlers : IsCounted(request[g], u)'}
  BY DEF Unlogged, Counted
<1>4. Unlogged(u)' = IF IsLog(next, u) THEN Unlogged(u) \cup {h} ELSE Unlogged(u) \ {h}
  BY <1>2, <1>3 DEF Unlogged
<1>5. Counted(u)' = IF IsCounted(next, u) THEN Counted(u) \cup {h} ELSE Counted(u) \ {h}
  BY <1>2, <1>3 DEF Counted
<1> QED BY <1>1, <1>4, <1>5

\* The types of the numbers in the bounds.
LEMMA DeviceNumbers ==
  ASSUME DevicesTypeOK, NEW u \in Users
  PROVE  /\ switched[u] \in Nat /\ changes[u] \in Nat /\ drops \in Nat
         /\ ChangeLimit \in Nat /\ MaxDrops \in Nat
         /\ Cardinality(Unlogged(u)) \in Nat /\ Cardinality(Counted(u)) \in Nat
         /\ Cardinality(DeviceHandlers) \in Nat \ {0}
         /\ Unlogged(u) \in SUBSET DeviceHandlers /\ Counted(u) \in SUBSET DeviceHandlers
<1>1. Unlogged(u) \in SUBSET DeviceHandlers /\ Counted(u) \in SUBSET DeviceHandlers
  BY DEF Unlogged, Counted
<1>2. ChangeLimit \in Nat /\ MaxDrops \in Nat
  BY DevicesAssumption
<1> QED BY <1>1, <1>2, HandlersCount DEF DevicesTypeOK

\* A step of a request that neither changes a device nor logs, nor lets a counted
\* change through.
LEMMA QuietMove ==
  ASSUME DevicesInv, NEW h \in DeviceHandlers, NEW next \in DeviceRequests, Await(h, next),
         request[h].pc # "log", UNCHANGED <<changes, switched>>,
         drops' \in Nat, drops' >= drops,
         \A u \in Users : ~IsLog(next, u) /\ ~IsCounted(next, u)
  PROVE  ChangesTold' /\ RoomLeft'
<1> USE DEF DevicesInv
<1> SUFFICES ASSUME NEW u \in Users
             PROVE  /\ switched'[u] <= changes'[u] + Cardinality(Unlogged(u)') + drops'
                    /\ switched'[u] + Cardinality(Counted(u)')
                         <= ChangeLimit + (Cardinality(DeviceHandlers) - 1) + drops'
                    /\ Counted(u)' # {} => ChangeLimit >= 1
  BY DEF ChangesTold, RoomLeft
<1>1. Unlogged(u)' = Unlogged(u) \ {h} /\ Counted(u)' = Counted(u) \ {h}
  BY CountsMove
<1>2. h \notin Unlogged(u)
  BY DEF Unlogged, IsLog
<1>3. /\ Cardinality(Unlogged(u)') = Cardinality(Unlogged(u))
      /\ Cardinality(Counted(u)') <= Cardinality(Counted(u))
  <2>1. Unlogged(u) \in SUBSET DeviceHandlers /\ Counted(u) \in SUBSET DeviceHandlers
    BY DeviceNumbers
  <2> DEFINE L == Unlogged(u)
             C == Counted(u)
  <2>2. L' = L \ {h} /\ C' = C \ {h} /\ h \notin L
    BY <1>1, <1>2
  <2>3. Cardinality(C) \in Nat
    BY DeviceNumbers
  <2> HIDE DEF L, C
  <2>4. L' = L
    BY <2>2
  <2>5. Cardinality(C \ {h}) = IF h \in C THEN Cardinality(C) - 1 ELSE Cardinality(C)
    BY <2>1, OneMoreOrLess DEF C
  <2>6. Cardinality(C \ {h}) <= Cardinality(C)
    BY <2>3, <2>5
  <2> QED BY <2>2, <2>4, <2>6 DEF L, C
<1>4. Cardinality(Counted(u)') \in Nat
  BY <1>1, DeviceNumbers, HandlersCount
<1>5. /\ switched[u] <= changes[u] + Cardinality(Unlogged(u)) + drops
      /\ switched[u] + Cardinality(Counted(u)) <= ChangeLimit + (Cardinality(DeviceHandlers) - 1) + drops
      /\ Counted(u) # {} => ChangeLimit >= 1
  BY DEF ChangesTold, RoomLeft
<1> QED BY <1>1, <1>3, <1>4, <1>5, DeviceNumbers

\* The monthly limit: it holds room for the change in each of the other handlers.
LEMMA CountKeepsInv ==
  ASSUME DevicesInv, NEW h \in DeviceHandlers, CountChanges(h)
  PROVE  DevicesInv'
<1> USE DEF DevicesInv
<1> DEFINE next == IF changes[request[h].user] < ChangeLimit
                   THEN [request[h] EXCEPT !.pc = "update"] ELSE NoRequest
<1>1. request[h] \in Switches /\ request[h].pc = "count"
  BY RequestKinds DEF CountChanges, DevicesTypeOK
<1>2. /\ next \in DeviceRequests /\ Await(h, next)
      /\ UNCHANGED <<userDevices, changes, switched, drops>>
  BY <1>1, RequestsOfKinds DEF CountChanges, Switches
<1>3. \A u \in Users :
        /\ ~IsLog(next, u)
        /\ IsCounted(next, u) => changes[u] < ChangeLimit
  BY <1>1 DEF IsLog, IsCounted, NoRequest, Switches
<1> HIDE DEF next
<1>4. DevicesTypeOK'
  BY <1>2, CountsMove DEF DevicesTypeOK, Await
<1> SUFFICES ASSUME NEW u \in Users
             PROVE  /\ switched'[u] <= changes'[u] + Cardinality(Unlogged(u)') + drops'
                    /\ switched'[u] + Cardinality(Counted(u)')
                         <= ChangeLimit + (Cardinality(DeviceHandlers) - 1) + drops'
                    /\ Counted(u)' # {} => ChangeLimit >= 1
  BY <1>4 DEF ChangesTold, RoomLeft
<1>5. /\ Unlogged(u)' = Unlogged(u) \ {h}
      /\ Counted(u)' = IF IsCounted(next, u) THEN Counted(u) \cup {h} ELSE Counted(u) \ {h}
  BY <1>2, <1>3, CountsMove
<1>6. h \notin Unlogged(u) /\ h \notin Counted(u)
  BY <1>1 DEF Unlogged, IsLog, Counted, IsCounted
<1>7. Unlogged(u)' = Unlogged(u)
  BY <1>5, <1>6
<1>8. /\ switched[u] <= changes[u] + Cardinality(Unlogged(u)) + drops
      /\ switched[u] + Cardinality(Counted(u)) <= ChangeLimit + (Cardinality(DeviceHandlers) - 1) + drops
      /\ Counted(u) # {} => ChangeLimit >= 1
  BY DEF ChangesTold, RoomLeft
<1>9. CASE ~IsCounted(next, u)
  <2>1. Counted(u)' = Counted(u)
    BY <1>5, <1>6, <1>9
  <2> QED BY <1>2, <1>7, <1>8, <2>1
<1>10. CASE IsCounted(next, u)
  <2>1. changes[u] < ChangeLimit
    BY <1>3, <1>10
  <2>2. Counted(u)' \in SUBSET DeviceHandlers /\ Counted(u)' \cap Unlogged(u) = {}
    <3>1. Counted(u) \cap Unlogged(u) = {}
      BY DEF Unlogged, IsLog, Counted, IsCounted
    <3> QED BY <1>5, <1>6, <3>1, DeviceNumbers
  <2> DEFINE C == Counted(u)'
             L == Unlogged(u)
  <2>3. C \in SUBSET DeviceHandlers /\ L \in SUBSET DeviceHandlers /\ C \cap L = {}
    BY <2>2, DeviceNumbers
  <2> HIDE DEF C, L
  <2>4. Cardinality(C) + Cardinality(L) <= Cardinality(DeviceHandlers) /\ Cardinality(C) \in Nat
    BY <2>3, TwoSets
  <2>5. /\ switched[u] <= changes[u] + Cardinality(L) + drops
        /\ Cardinality(L) \in Nat
    BY <1>8, DeviceNumbers DEF L
  <2>6. switched[u] + Cardinality(C) <= ChangeLimit + (Cardinality(DeviceHandlers) - 1) + drops
    BY <2>1, <2>4, <2>5, DeviceNumbers
  <2>7. ChangeLimit >= 1
    BY <2>1, DeviceNumbers
  <2> QED BY <1>2, <1>7, <1>8, <2>6, <2>7 DEF C
<1> QED BY <1>9, <1>10
\* A change of device is counted the moment it is made, and is then to be logged.
LEMMA UpdateKeepsInv ==
  ASSUME DevicesInv, NEW h \in DeviceHandlers, UpdateDevice(h)
  PROVE  DevicesInv'
<1> USE DEF DevicesInv
<1> DEFINE q       == request[h]
           refused == ~q.revoke /\ ~RowsWith(q.ident) \subseteq {q.id}
           write   == userDevices[q.id] # NoDevice /\ ~refused
           next    == IF q.counted /\ ~refused THEN [pc |-> "log", user |-> q.user] ELSE NoRequest
           row     == IF ~write THEN userDevices[q.id]
                      ELSE IF q.revoke THEN [userDevices[q.id] EXCEPT !.active = FALSE]
                      ELSE [userDevices[q.id] EXCEPT !.ident = q.ident, !.blocked = FALSE, !.active = TRUE]
<1>1. q \in Switches /\ q.pc = "update"
  BY RequestKinds DEF UpdateDevice, DevicesTypeOK
<1>2. q.user \in Users /\ q.ident \in Identifiers /\ q.id \in DeviceIds
      /\ q.revoke \in BOOLEAN /\ q.counted \in BOOLEAN
  BY <1>1 DEF Switches
<1>3. /\ userDevices' = [userDevices EXCEPT ![q.id] = row]
      /\ switched' = [switched EXCEPT ![q.user] = IF write /\ q.counted THEN @ + 1 ELSE @]
      /\ Await(h, next) /\ UNCHANGED <<changes, drops>>
  BY DEF UpdateDevice
<1>4. next \in DeviceRequests
  <2>1. [pc |-> "log", user |-> q.user] \in Loggings
    BY <1>2 DEF Loggings
  <2> QED BY <2>1, RequestsOfKinds
<1>5. row \in Registered \cup {NoDevice}
  BY <1>2 DEF DevicesTypeOK, Registered
<1>6. \A u \in Users :
        /\ ~IsCounted(next, u)
        /\ switched'[u] = IF u = q.user /\ write /\ q.counted THEN switched[u] + 1 ELSE switched[u]
        /\ write /\ q.counted /\ u = q.user => IsLog(next, u)
        /\ IsCounted(q, u) <=> u = q.user /\ q.counted
  BY <1>1, <1>2, <1>3 DEF IsCounted, IsLog, NoRequest, DevicesTypeOK
<1> HIDE DEF row, next, write, refused
<1>7. DevicesTypeOK'
  <2>1. switched' \in [Users -> Nat]
    BY <1>2, <1>3 DEF DevicesTypeOK
  <2> QED BY <1>2, <1>3, <1>4, <1>5, <2>1 DEF DevicesTypeOK, Await
<1> SUFFICES ASSUME NEW u \in Users
             PROVE  /\ switched'[u] <= changes'[u] + Cardinality(Unlogged(u)') + drops'
                    /\ switched'[u] + Cardinality(Counted(u)')
                         <= ChangeLimit + (Cardinality(DeviceHandlers) - 1) + drops'
                    /\ Counted(u)' # {} => ChangeLimit >= 1
  BY <1>7 DEF ChangesTold, RoomLeft
<1> DEFINE L == Unlogged(u)
           C == Counted(u)
<1>8. /\ switched[u] <= changes[u] + Cardinality(L) + drops
      /\ switched[u] + Cardinality(C) <= ChangeLimit + (Cardinality(DeviceHandlers) - 1) + drops
      /\ C # {} => ChangeLimit >= 1
  BY DEF ChangesTold, RoomLeft
<1>9. /\ L' = IF IsLog(next, u) THEN L \cup {h} ELSE L \ {h}
      /\ C' = C \ {h}
  BY <1>3, <1>4, <1>6, CountsMove
<1>10. /\ h \notin L
       /\ h \in C <=> u = q.user /\ q.counted
  BY <1>1, <1>6 DEF Unlogged, IsLog, Counted
<1>11. L \in SUBSET DeviceHandlers /\ C \in SUBSET DeviceHandlers
       /\ Cardinality(L) \in Nat /\ Cardinality(C) \in Nat
  BY DeviceNumbers
<1> HIDE DEF L, C, q
<1>12. /\ Cardinality(L') = IF IsLog(next, u) THEN Cardinality(L) + 1 ELSE Cardinality(L)
       /\ Cardinality(C') = IF h \in C THEN Cardinality(C) - 1 ELSE Cardinality(C)
  <2>1. Cardinality(L \cup {h}) = Cardinality(L) + 1
    BY <1>10, <1>11, OneMoreOrLess
  <2>2. L \ {h} = L
    BY <1>10
  <2>3. Cardinality(C \ {h}) = IF h \in C THEN Cardinality(C) - 1 ELSE Cardinality(C)
    BY <1>11, OneMoreOrLess
  <2> QED BY <1>9, <2>1, <2>2, <2>3
<1>13. \/ switched'[u] = switched[u]
       \/ switched'[u] = switched[u] + 1 /\ IsLog(next, u) /\ h \in C
  BY <1>6, <1>10
<1>14. switched'[u] <= changes'[u] + Cardinality(L') + drops'
  BY <1>3, <1>8, <1>11, <1>12, <1>13, DeviceNumbers
<1>15. switched'[u] + Cardinality(C') <= ChangeLimit + (Cardinality(DeviceHandlers) - 1) + drops'
  BY <1>3, <1>8, <1>11, <1>12, <1>13, DeviceNumbers
<1>16. C' # {} => ChangeLimit >= 1
  BY <1>8, <1>9
<1> QED BY <1>14, <1>15, <1>16 DEF L, C

\* A logged change is counted from then on.
LEMMA LogKeepsInv ==
  ASSUME DevicesInv, NEW h \in DeviceHandlers, LogChange(h)
  PROVE  DevicesInv'
<1> USE DEF DevicesInv
<1> DEFINE owner == request[h].user
<1>1. request[h] \in Loggings /\ request[h].pc = "log" /\ owner \in Users
  BY RequestKinds DEF LogChange, DevicesTypeOK, Loggings
<1>2. /\ changes' = [changes EXCEPT ![owner] = @ + 1]
      /\ Await(h, NoRequest) /\ UNCHANGED <<userDevices, switched, drops>>
  BY DEF LogChange
<1>3. DevicesTypeOK'
  BY <1>1, <1>2, RequestsOfKinds DEF DevicesTypeOK, Await
<1> SUFFICES ASSUME NEW u \in Users
             PROVE  /\ switched'[u] <= changes'[u] + Cardinality(Unlogged(u)') + drops'
                    /\ switched'[u] + Cardinality(Counted(u)')
                         <= ChangeLimit + (Cardinality(DeviceHandlers) - 1) + drops'
                    /\ Counted(u)' # {} => ChangeLimit >= 1
  BY <1>3 DEF ChangesTold, RoomLeft
<1> DEFINE L == Unlogged(u)
           C == Counted(u)
<1>4. L' = L \ {h} /\ C' = C \ {h}
  BY <1>2, RequestsOfKinds, CountsMove DEF IsLog, IsCounted, NoRequest
<1>5. h \in L <=> u = owner
  BY <1>1 DEF Unlogged, IsLog
<1>6. h \notin C
  BY <1>1 DEF Counted, IsCounted
<1>7. changes'[u] = IF u = owner THEN changes[u] + 1 ELSE changes[u]
  BY <1>1, <1>2 DEF DevicesTypeOK
<1>8. /\ switched[u] <= changes[u] + Cardinality(L) + drops
      /\ switched[u] + Cardinality(C) <= ChangeLimit + (Cardinality(DeviceHandlers) - 1) + drops
      /\ C # {} => ChangeLimit >= 1
  BY DEF ChangesTold, RoomLeft
<1>9. L \in SUBSET DeviceHandlers /\ Cardinality(L) \in Nat
  BY DeviceNumbers
<1> HIDE DEF L, C, owner
<1>10. Cardinality(L') = IF u = owner THEN Cardinality(L) - 1 ELSE Cardinality(L)
  BY <1>4, <1>5, <1>9, OneMoreOrLess
<1>11. C' = C
  BY <1>4, <1>6
<1>12. switched'[u] <= changes'[u] + Cardinality(L') + drops'
  BY <1>2, <1>7, <1>8, <1>9, <1>10, DeviceNumbers
<1> QED BY <1>2, <1>8, <1>11, <1>12 DEF L, C

\* A request that stops may leave one change untold, and no more.
LEMMA DropKeepsInv ==
  ASSUME DevicesInv, NEW h \in DeviceHandlers, DropRequest(h)
  PROVE  DevicesInv'
<1> USE DEF DevicesInv
<1>1. Await(h, NoRequest) /\ drops' = drops + 1 /\ UNCHANGED <<userDevices, changes, switched>>
  BY DEF DropRequest
<1>2. drops' \in 0 .. MaxDrops
  BY DevicesAssumption DEF DropRequest, DevicesTypeOK
<1>3. DevicesTypeOK'
  BY <1>1, <1>2, RequestsOfKinds DEF DevicesTypeOK, Await
<1> SUFFICES ASSUME NEW u \in Users
             PROVE  /\ switched'[u] <= changes'[u] + Cardinality(Unlogged(u)') + drops'
                    /\ switched'[u] + Cardinality(Counted(u)')
                         <= ChangeLimit + (Cardinality(DeviceHandlers) - 1) + drops'
                    /\ Counted(u)' # {} => ChangeLimit >= 1
  BY <1>3 DEF ChangesTold, RoomLeft
<1> DEFINE L == Unlogged(u)
           C == Counted(u)
<1>4. L' = L \ {h} /\ C' = C \ {h}
  BY <1>1, RequestsOfKinds, CountsMove DEF IsLog, IsCounted, NoRequest
<1>5. /\ switched[u] <= changes[u] + Cardinality(L) + drops
      /\ switched[u] + Cardinality(C) <= ChangeLimit + (Cardinality(DeviceHandlers) - 1) + drops
      /\ C # {} => ChangeLimit >= 1
  BY DEF ChangesTold, RoomLeft
<1>6. L \in SUBSET DeviceHandlers /\ C \in SUBSET DeviceHandlers
      /\ Cardinality(L) \in Nat /\ Cardinality(C) \in Nat
  BY DeviceNumbers
<1> HIDE DEF L, C
<1>7. /\ Cardinality(L') \in {Cardinality(L), Cardinality(L) - 1}
      /\ Cardinality(C') \in {Cardinality(C), Cardinality(C) - 1}
  <2>1. /\ Cardinality(L \ {h}) \in {Cardinality(L), Cardinality(L) - 1}
        /\ Cardinality(C \ {h}) \in {Cardinality(C), Cardinality(C) - 1}
    BY <1>6, OneMoreOrLess
  <2> QED BY <1>4, <2>1
<1>8. switched'[u] <= changes'[u] + Cardinality(L') + drops'
  BY <1>1, <1>5, <1>6, <1>7, DeviceNumbers
<1>9. switched'[u] + Cardinality(C') <= ChangeLimit + (Cardinality(DeviceHandlers) - 1) + drops'
  BY <1>1, <1>5, <1>6, <1>7, DeviceNumbers
<1>10. C' # {} => ChangeLimit >= 1
  BY <1>4, <1>5
<1> QED BY <1>8, <1>9, <1>10 DEF L, C

\* A step that leaves the requests alone and does not count a change.
LEMMA ElsewhereKeepsInv ==
  ASSUME DevicesInv, userDevices' \in [DeviceIds -> Registered \cup {NoDevice}],
         UNCHANGED <<changes, request, switched, drops>>
  PROVE  DevicesInv'
BY DEF DevicesInv, DevicesTypeOK, ChangesTold, RoomLeft, Unlogged, Counted, IsLog, IsCounted

\* A new month counts from nothing.
LEMMA MonthKeepsInv ==
  ASSUME DevicesInv, NextMonth
  PROVE  DevicesInv'
<1> USE DEF DevicesInv
<1>1. DevicesTypeOK'
  BY DEF NextMonth, DevicesTypeOK
<1> SUFFICES ASSUME NEW u \in Users
             PROVE  /\ switched'[u] <= changes'[u] + Cardinality(Unlogged(u)') + drops'
                    /\ switched'[u] + Cardinality(Counted(u)')
                         <= ChangeLimit + (Cardinality(DeviceHandlers) - 1) + drops'
                    /\ Counted(u)' # {} => ChangeLimit >= 1
  BY <1>1 DEF ChangesTold, RoomLeft
<1> DEFINE L == Unlogged(u)
           C == Counted(u)
<1>2. L' = L /\ C' = C /\ drops' = drops /\ switched'[u] = 0 /\ changes'[u] = 0
  BY DEF NextMonth, Unlogged, Counted, IsLog, IsCounted
<1>3. C # {} => ChangeLimit >= 1
  BY DEF RoomLeft
<1>4. /\ Cardinality(C) <= Cardinality(DeviceHandlers)
      /\ C = {} => Cardinality(C) = 0
  BY DeviceNumbers, HandlersCount, FS_EmptySet
<1>5. Cardinality(L) \in Nat /\ Cardinality(C) \in Nat
  BY DeviceNumbers
<1> HIDE DEF L, C
<1>6. switched'[u] <= changes'[u] + Cardinality(L') + drops'
  BY <1>2, <1>5, DeviceNumbers
<1>7. switched'[u] + Cardinality(C') <= ChangeLimit + (Cardinality(DeviceHandlers) - 1) + drops'
  BY <1>2, <1>3, <1>4, <1>5, DeviceNumbers
<1> QED BY <1>2, <1>3, <1>6, <1>7 DEF L, C

\* The reads of a request, and the row it adds.
LEMMA ReadsKeepInv ==
  ASSUME DevicesInv, NEW h \in DeviceHandlers,
         \/ \E u \in Users, i \in Identifiers : RegisterRead(h, u, i) \/ RevokeRead(h, u, i)
         \/ CurrentRead(h) \/ InsertDevice(h)
  PROVE  DevicesInv'
<1> USE DEF DevicesInv
<1>1. ASSUME NEW next \in DeviceRequests, Await(h, next), request[h].pc # "log",
             UNCHANGED <<changes, switched, drops>>,
             userDevices' \in [DeviceIds -> Registered \cup {NoDevice}],
             \A u \in Users : ~IsLog(next, u) /\ ~IsCounted(next, u)
      PROVE  DevicesInv'
  <2>1. drops \in Nat
    BY DevicesAssumption DEF DevicesTypeOK
  <2>2. ChangesTold' /\ RoomLeft'
    BY <1>1, <2>1, QuietMove
  <2> QED BY <1>1, <2>2 DEF DevicesTypeOK, Await
<1>2. ASSUME NEW u \in Users, NEW i \in Identifiers, RegisterRead(h, u, i)
      PROVE  DevicesInv'
  <2>1. request[h].pc # "log" /\ UNCHANGED <<userDevices, changes, switched, drops>>
    BY <1>2 DEF RegisterRead, NoRequest
  <2> DEFINE new == [pc |-> "current", user |-> u, ident |-> i]
  <2>2. new \in DeviceRequests /\ new.pc = "current"
    BY RequestsOfKinds DEF Currents
  <2>3. ASSUME NEW r \in DeviceIds
        PROVE  LET next == [pc |-> "update", user |-> u, ident |-> i, id |-> r,
                            revoke |-> FALSE, counted |-> FALSE]
               IN  next \in DeviceRequests /\ ~next.counted /\ next.pc = "update"
    BY RequestsOfKinds DEF Switches
  <2>4. \/ Await(h, new)
        \/ \E r \in DeviceIds : Await(h, [pc |-> "update", user |-> u, ident |-> i, id |-> r,
                                          revoke |-> FALSE, counted |-> FALSE])
    BY <1>2 DEF RegisterRead, RowsWith, DeviceRows
  <2>5. CASE Await(h, new)
    <3>1. \A v \in Users : ~IsLog(new, v) /\ ~IsCounted(new, v)
      BY <2>2 DEF IsLog, IsCounted
    <3> HIDE DEF new
    <3> QED BY <1>1, <2>1, <2>2, <2>5, <3>1 DEF DevicesTypeOK
  <2>6. ASSUME NEW r \in DeviceIds,
               Await(h, [pc |-> "update", user |-> u, ident |-> i, id |-> r,
                         revoke |-> FALSE, counted |-> FALSE])
        PROVE  DevicesInv'
    <3> DEFINE next == [pc |-> "update", user |-> u, ident |-> i, id |-> r,
                        revoke |-> FALSE, counted |-> FALSE]
    <3>1. next \in DeviceRequests /\ Await(h, next)
      BY <2>3, <2>6
    <3>2. \A v \in Users : ~IsLog(next, v) /\ ~IsCounted(next, v)
      BY <2>3 DEF IsLog, IsCounted
    <3> HIDE DEF next
    <3> QED BY <1>1, <2>1, <3>1, <3>2 DEF DevicesTypeOK
  <2> QED BY <2>4, <2>5, <2>6
<1>3. ASSUME NEW u \in Users, NEW i \in Identifiers, RevokeRead(h, u, i)
      PROVE  DevicesInv'
  <2>1. request[h].pc # "log" /\ UNCHANGED <<userDevices, changes, switched, drops>>
    BY <1>3 DEF RevokeRead, NoRequest
  <2>2. PICK r \in DeviceIds : Await(h, [pc |-> "count", user |-> u, ident |-> i, id |-> r,
                                        revoke |-> TRUE, counted |-> TRUE])
    BY <1>3 DEF RevokeRead, RowsWith, DeviceRows
  <2> DEFINE next == [pc |-> "count", user |-> u, ident |-> i, id |-> r,
                      revoke |-> TRUE, counted |-> TRUE]
  <2>3. next \in DeviceRequests /\ next.pc = "count" /\ Await(h, next)
    BY <2>2, RequestsOfKinds DEF Switches
  <2>4. \A v \in Users : ~IsLog(next, v) /\ ~IsCounted(next, v)
    BY <2>3 DEF IsLog, IsCounted
  <2> HIDE DEF next
  <2> QED BY <1>1, <2>1, <2>3, <2>4 DEF DevicesTypeOK
<1>4. CASE CurrentRead(h)
  <2>1. request[h] \in Currents /\ request[h].pc = "current"
        /\ UNCHANGED <<userDevices, changes, switched, drops>>
    BY <1>4, RequestKinds DEF CurrentRead, DevicesTypeOK
  <2>2. \/ Await(h, [request[h] EXCEPT !.pc = "insert"])
        \/ \E r \in DeviceIds :
             Await(h, [pc |-> "count", user |-> request[h].user, ident |-> request[h].ident,
                       id |-> r, revoke |-> FALSE, counted |-> TRUE])
    BY <1>4 DEF CurrentRead, RowsOf, DeviceRows
  <2>3. CASE Await(h, [request[h] EXCEPT !.pc = "insert"])
    <3> DEFINE next == [request[h] EXCEPT !.pc = "insert"]
    <3>1. next \in DeviceRequests /\ next.pc = "insert" /\ Await(h, next)
      BY <2>1, <2>3, RequestsOfKinds DEF Currents
    <3>2. \A v \in Users : ~IsLog(next, v) /\ ~IsCounted(next, v)
      BY <3>1 DEF IsLog, IsCounted
    <3> HIDE DEF next
    <3> QED BY <1>1, <2>1, <3>1, <3>2 DEF DevicesTypeOK
  <2>4. ASSUME NEW r \in DeviceIds,
               Await(h, [pc |-> "count", user |-> request[h].user, ident |-> request[h].ident,
                         id |-> r, revoke |-> FALSE, counted |-> TRUE])
        PROVE  DevicesInv'
    <3> DEFINE next == [pc |-> "count", user |-> request[h].user, ident |-> request[h].ident,
                        id |-> r, revoke |-> FALSE, counted |-> TRUE]
    <3>1. next \in DeviceRequests /\ next.pc = "count" /\ Await(h, next)
      BY <2>1, <2>4, RequestsOfKinds DEF Currents, Switches
    <3>2. \A v \in Users : ~IsLog(next, v) /\ ~IsCounted(next, v)
      BY <3>1 DEF IsLog, IsCounted
    <3> HIDE DEF next
    <3> QED BY <1>1, <2>1, <3>1, <3>2 DEF DevicesTypeOK
  <2> QED BY <2>2, <2>3, <2>4
<1>5. CASE InsertDevice(h)
  <2>1. request[h] \in Currents /\ request[h].pc = "insert"
        /\ Await(h, NoRequest) /\ UNCHANGED <<changes, switched, drops>>
    BY <1>5, RequestKinds DEF InsertDevice, DevicesTypeOK
  <2>2. userDevices' \in [DeviceIds -> Registered \cup {NoDevice}]
    <3> DEFINE row == [user |-> request[h].user, ident |-> request[h].ident,
                       blocked |-> FALSE, active |-> TRUE]
    <3>1. row \in Registered
      BY <2>1 DEF Currents, Registered
    <3>2. \E r \in DeviceIds : userDevices' \in {userDevices, [userDevices EXCEPT ![r] = row]}
      BY <1>5 DEF InsertDevice, FreshDevice
    <3> HIDE DEF row
    <3> QED BY <3>1, <3>2 DEF DevicesTypeOK
  <2> QED BY <1>1, <2>1, <2>2, RequestsOfKinds DEF IsLog, IsCounted, NoRequest
<1> QED BY <1>2, <1>3, <1>4, <1>5

LEMMA DevicesBegin == DevicesInit => DevicesInv
<1> SUFFICES ASSUME DevicesInit PROVE DevicesInv
  OBVIOUS
<1>1. DevicesTypeOK
  BY DevicesAssumption DEF DevicesInit, DevicesTypeOK, DeviceRequests
<1>2. \A u \in Users : Unlogged(u) = {} /\ Counted(u) = {}
  BY DEF DevicesInit, Unlogged, Counted, IsLog, IsCounted, NoRequest
<1>3. Cardinality({}) = 0
  BY FS_EmptySet
<1>4. \A u \in Users : switched[u] = 0 /\ changes[u] = 0 /\ drops = 0
  BY DEF DevicesInit
<1>5. ChangeLimit \in Nat /\ Cardinality(DeviceHandlers) \in Nat \ {0}
  BY DevicesAssumption, HandlersCount
<1>6. ChangesTold
  BY <1>2, <1>3, <1>4 DEF ChangesTold
<1>7. \A u \in Users : Cardinality(Counted(u)) = 0
  BY <1>2, <1>3
<1>8. RoomLeft
  BY <1>2, <1>4, <1>5, <1>7 DEF RoomLeft
<1> QED BY <1>1, <1>6, <1>8 DEF DevicesInv

LEMMA DevicesKept == DevicesInv /\ [DevicesNext]_devicesVars => DevicesInv'
<1> SUFFICES ASSUME DevicesInv, [DevicesNext]_devicesVars PROVE DevicesInv'
  OBVIOUS
<1>1. CASE UNCHANGED devicesVars
  BY <1>1, ElsewhereKeepsInv DEF devicesVars, DevicesInv, DevicesTypeOK
<1>2. ASSUME NEW h \in DeviceHandlers,
             \/ \E u \in Users, i \in Identifiers : RegisterRead(h, u, i) \/ RevokeRead(h, u, i)
             \/ CurrentRead(h) \/ InsertDevice(h) \/ CountChanges(h) \/ UpdateDevice(h)
             \/ LogChange(h) \/ DropRequest(h)
      PROVE  DevicesInv'
  BY <1>2, ReadsKeepInv, CountKeepsInv, UpdateKeepsInv, LogKeepsInv, DropKeepsInv
<1>3. ASSUME NEW r \in DeviceIds, BlockDevice(r) \/ UnblockDevice(r) \/ DeleteDevice(r)
      PROVE  DevicesInv'
  <2>1. UNCHANGED <<changes, request, switched, drops>>
    BY <1>3 DEF BlockDevice, UnblockDevice, SetDevice, DeleteDevice
  <2>2. userDevices' \in [DeviceIds -> Registered \cup {NoDevice}]
    <3>1. CASE DeleteDevice(r)
      BY <3>1 DEF DeleteDevice, DevicesInv, DevicesTypeOK
    <3>2. ASSUME NEW blocked \in BOOLEAN, NEW active \in BOOLEAN, SetDevice(r, blocked, active)
          PROVE  userDevices' \in [DeviceIds -> Registered \cup {NoDevice}]
      <4> DEFINE row == [userDevices[r] EXCEPT !.blocked = blocked, !.active = active]
      <4>1. userDevices[r] \in Registered
        BY <3>2 DEF SetDevice, DevicesInv, DevicesTypeOK
      <4>2. row \in Registered /\ userDevices' = [userDevices EXCEPT ![r] = row]
        BY <3>2, <4>1 DEF SetDevice, Registered
      <4> HIDE DEF row
      <4> QED BY <4>2 DEF DevicesInv, DevicesTypeOK
    <3> QED BY <1>3, <3>1, <3>2 DEF BlockDevice, UnblockDevice
  <2> QED BY <2>1, <2>2, ElsewhereKeepsInv
<1>4. ASSUME NEW u \in Users, BlockDevicesOf(u) PROVE DevicesInv'
  <2>1. \A r \in RowsOf(u) : r \in DeviceIds /\ userDevices[r] \in Registered
    BY DEF RowsOf, DeviceRows, DevicesInv, DevicesTypeOK
  <2>2. \A r \in RowsOf(u) : [userDevices[r] EXCEPT !.blocked = TRUE] \in Registered
    BY <2>1 DEF Registered
  <2>3. userDevices' \in [DeviceIds -> Registered \cup {NoDevice}]
    BY <1>4, <2>2 DEF BlockDevicesOf, DevicesInv, DevicesTypeOK
  <2> QED BY <1>4, <2>3, ElsewhereKeepsInv DEF BlockDevicesOf
<1> QED BY <1>1, <1>2, <1>3, <1>4, MonthKeepsInv DEF DevicesNext

\* However the requests of a user overlap and wherever they stop, the changes of a
\* month exceed the limit by one for each other handler and each request that stopped
\* between the change and its log (changeDevice, revokeCurrentDevice).
THEOREM DevicesKeepLimit == DevicesInit /\ [][DevicesNext]_devicesVars => []MonthlyLimit
<1>1. DevicesInv => MonthlyLimit
  <2> SUFFICES ASSUME DevicesInv, NEW u \in Users
               PROVE  switched[u] <= ChangeLimit + (Cardinality(DeviceHandlers) - 1) + drops
    BY DEF MonthlyLimit
  <2> QED BY DeviceNumbers DEF DevicesInv, RoomLeft
<1> QED BY <1>1, DevicesBegin, DevicesKept, PTL

-------------------------------------------------------------------------------
(***************************************************************************)
(* Contracts and their tracking codes.                                     *)
(***************************************************************************)

\* The code a contract will have once the transaction that wrote its row commits.
CodeOf(c) == IF lockedBy[c] = Free THEN contracts[c].code ELSE making[lockedBy[c]].code

\* The handler that has locked a contract is making its PDF with the code it has or,
\* where it has none, with one drawn for it.
LockHeld ==
  \A c \in Contracts : lockedBy[c] # Free =>
    LET m == making[lockedBy[c]] IN
    /\ m.pc \in {"coded", "stored"}
    /\ m.contract = c
    /\ m.code # 0
    /\ contracts[c].code \in {0, m.code}

\* A code that was read, or is being printed without the lock, is the contract's.
CodeRead ==
  \A h \in ContractHandlers : making[h].pc \in {"read", "coded", "stored"} =>
    LET m == making[h] IN
    /\ m.code # 0 /\ lockedBy[m.contract] # h => contracts[m.contract].code = m.code
    /\ m.code = 0 => m.pc = "read"

\* No code is beyond the sequence, and no two contracts have, or will have, the same.
CodesApart ==
  /\ \A c \in Contracts : CodeOf(c) <= sequence
  /\ \A c, d \in Contracts : c # d /\ CodeOf(c) # 0 => CodeOf(c) # CodeOf(d)

\* Files are there before the rows that name them.
FilesFirst ==
  /\ documents \subseteq files
  /\ \A h \in ContractHandlers :
       /\ making[h].pc = "stored" =>
            making[h].what = "generate" /\ Made(making[h], "generated") \in files
       /\ making[h].pc = "signed" => SignedFile(making[h].contract) \in files

\* The code printed in a document on file is the contract's for good.
Printed ==
  \A d \in documents :
    d.kind = "generated" => d.code # 0 /\ d.code = contracts[d.contract].code

ContractsInv ==
  ContractsTypeOK /\ LockHeld /\ CodeRead /\ CodesApart /\ FilesFirst /\ Printed

LEMMA ContractsBegin == ContractsInit => ContractsInv
<1> SUFFICES ASSUME ContractsInit PROVE ContractsInv
  OBVIOUS
<1>1. ContractsTypeOK
  BY ContractsAssumption DEF ContractsInit, ContractsTypeOK, TrackingCodes, Idle, NoFile
<1>2. LockHeld /\ CodeRead /\ CodesApart /\ FilesFirst /\ Printed
  BY DEF ContractsInit, LockHeld, CodeRead, CodesApart, CodeOf, FilesFirst, Printed, Idle, NoFile
<1> QED BY <1>1, <1>2 DEF ContractsInv

\* What the steps keep of the type invariant.
LEMMA ContractsTyped == ContractsInv /\ [ContractsNext]_contractsVars => ContractsTypeOK'
<1> SUFFICES ASSUME ContractsInv, [ContractsNext]_contractsVars PROVE ContractsTypeOK'
  OBVIOUS
<1> USE DEF ContractsInv
<1>a. MaxCode \in Nat
  BY ContractsAssumption
<1>1. ASSUME NEW h \in ContractHandlers, NEW c \in Contracts,
             NEW what \in {"generate", "download"}, ReadContract(h, c, what)
      PROVE  ContractsTypeOK'
  BY <1>1 DEF ReadContract, ContractsTypeOK
<1>2. ASSUME NEW h \in ContractHandlers, NEW c \in Contracts, StoreSigned(h, c)
      PROVE  ContractsTypeOK'
  BY <1>2, <1>a DEF StoreSigned, SignedFile, Files, TrackingCodes, ContractsTypeOK
<1>3. ASSUME NEW h \in ContractHandlers, EnsureCode(h) PROVE ContractsTypeOK'
  <2>1. making[h].pc = "read"
    BY <1>3 DEF EnsureCode
  <2>2. making[h] \in [pc : {"read", "coded", "stored"}, what : {"generate", "download"},
                       contract : Contracts, code : TrackingCodes]
    BY <2>1 DEF ContractsTypeOK, Idle
  <2>3. CASE making[h].code # 0
    BY <1>3, <2>2, <2>3 DEF EnsureCode, ContractsTypeOK
  <2>4. CASE making[h].code = 0
    <3> DEFINE current == contracts[making[h].contract].code
               number == IF current = 0 THEN sequence + 1 ELSE sequence
               code == IF current = 0 THEN number ELSE current
    <3>1. /\ number <= MaxCode /\ sequence' = number
          /\ lockedBy' = [lockedBy EXCEPT ![making[h].contract] = h]
          /\ making' = [making EXCEPT ![h].pc = "coded", ![h].code = code]
          /\ UNCHANGED <<contracts, files, documents>>
      BY <1>3, <2>4 DEF EnsureCode
    <3>2. number \in TrackingCodes /\ code \in TrackingCodes
      BY <1>a, <2>2, <3>1 DEF ContractsTypeOK, TrackingCodes
    <3> HIDE DEF number, code
    <3>3. making' \in [ContractHandlers -> {Idle} \cup
            [pc : {"read", "coded", "stored"}, what : {"generate", "download"},
             contract : Contracts, code : TrackingCodes] \cup
            [pc : {"signed"}, contract : Contracts]]
      <4>1. [making[h] EXCEPT !.pc = "coded", !.code = code] \in
              [pc : {"read", "coded", "stored"}, what : {"generate", "download"},
               contract : Contracts, code : TrackingCodes]
        BY <2>2, <3>2
      <4>2. making' = [making EXCEPT ![h] = [making[h] EXCEPT !.pc = "coded", !.code = code]]
        BY <3>1
      <4> QED BY <4>1, <4>2 DEF ContractsTypeOK
    <3>4. lockedBy' \in [Contracts -> ContractHandlers \cup {Free}]
      BY <2>2, <3>1 DEF ContractsTypeOK
    <3> QED BY <3>1, <3>2, <3>3, <3>4 DEF ContractsTypeOK
  <2> QED BY <2>3, <2>4
<1>4. ASSUME NEW h \in ContractHandlers, StorePdf(h) PROVE ContractsTypeOK'
  <2>1. making[h] \in [pc : {"read", "coded", "stored"}, what : {"generate", "download"},
                       contract : Contracts, code : TrackingCodes]
    BY <1>4 DEF StorePdf, ContractsTypeOK, Idle
  <2> QED BY <1>4, <2>1 DEF StorePdf, Made, Files, ContractsTypeOK
<1>5. ASSUME NEW h \in ContractHandlers, CommitPdf(h) \/ CommitDownload(h)
      PROVE  ContractsTypeOK'
  <2> DEFINE Row == [code : TrackingCodes, pdf : Files \cup {NoFile},
                     signed : Files \cup {NoFile}]
  <2>1. making[h] \in [pc : {"read", "coded", "stored"}, what : {"generate", "download"},
                       contract : Contracts, code : TrackingCodes]
    BY <1>5 DEF CommitPdf, CommitDownload, ContractsTypeOK, Idle
  <2>2. Made(making[h], "generated") \in Files
    BY <2>1 DEF Made, Files
  <2>3. contracts \in [Contracts -> Row]
    BY DEF ContractsTypeOK
  <2>4. contracts' \in [Contracts -> Row]
    <3> DEFINE c == making[h].contract
               k == IF lockedBy[c] = h THEN making[h].code ELSE contracts[c].code
               f == Made(making[h], "generated")
    <3>1. c \in Contracts /\ k \in TrackingCodes /\ f \in Files
      BY <2>1, <2>2, <2>3
    <3>2. \/ contracts' = [contracts EXCEPT ![c] = [contracts[c] EXCEPT !.code = k, !.pdf = f]]
          \/ contracts' = [contracts EXCEPT ![c] = [contracts[c] EXCEPT !.code = k]]
      BY <1>5 DEF CommitPdf, CommitDownload
    <3> HIDE DEF c, k, f
    <3>3. [contracts[c] EXCEPT !.code = k, !.pdf = f] \in Row
          /\ [contracts[c] EXCEPT !.code = k] \in Row
      BY <2>3, <3>1
    <3> HIDE DEF Row
    <3> QED BY <2>3, <3>1, <3>2, <3>3
  <2>5. /\ lockedBy' = Unlocked(h)
        /\ making' = [making EXCEPT ![h] = Idle]
        /\ documents' \in {documents, documents \cup {Made(making[h], "generated")}}
        /\ UNCHANGED <<sequence, files>>
    BY <1>5 DEF CommitPdf, CommitDownload
  <2> QED BY <2>2, <2>4, <2>5 DEF Unlocked, ContractsTypeOK
<1>6. ASSUME NEW h \in ContractHandlers, CommitSigned(h) PROVE ContractsTypeOK'
  <2>1. making[h].contract \in Contracts
    BY <1>6 DEF CommitSigned, ContractsTypeOK, Idle
  <2>2. SignedFile(making[h].contract) \in Files
    BY <1>a, <2>1 DEF SignedFile, Files, TrackingCodes
  <2> DEFINE c   == making[h].contract
             f   == SignedFile(c)
             Row == [code : TrackingCodes, pdf : Files \cup {NoFile}, signed : Files \cup {NoFile}]
  <2>3. /\ contracts' = [contracts EXCEPT ![c] = [contracts[c] EXCEPT !.signed = f]]
        /\ documents' = documents \cup {f}
        /\ making' = [making EXCEPT ![h] = Idle]
        /\ UNCHANGED <<sequence, lockedBy, files>>
    BY <1>6 DEF CommitSigned
  <2>4. c \in Contracts /\ f \in Files
    BY <2>1, <2>2
  <2> HIDE DEF c, f
  <2>5. [contracts[c] EXCEPT !.signed = f] \in Row
    BY <1>a, <2>4 DEF ContractsTypeOK
  <2>6. contracts \in [Contracts -> Row]
    BY <1>a DEF ContractsTypeOK
  <2> HIDE DEF Row
  <2>7. contracts' \in [Contracts -> Row]
    BY <2>3, <2>4, <2>5, <2>6
  <2> USE DEF Row
  <2> QED BY <1>a, <2>3, <2>4, <2>7 DEF ContractsTypeOK
<1>7. ASSUME NEW h \in ContractHandlers, Fail(h) PROVE ContractsTypeOK'
  BY <1>7 DEF Fail, Unlocked, ContractsTypeOK
<1>8. CASE UNCHANGED contractsVars
  BY <1>8 DEF contractsVars, ContractsTypeOK
<1> QED BY <1>1, <1>2, <1>3, <1>4, <1>5, <1>6, <1>7, <1>8 DEF ContractsNext


\* Codes stay apart when they stay what they were, or are no longer to be.
LEMMA CodesStayApart ==
  ASSUME ContractsInv, UNCHANGED sequence,
         \A c \in Contracts : CodeOf(c)' \in {0, CodeOf(c)}
  PROVE  CodesApart'
<1>1. sequence \in Nat
  BY ContractsAssumption DEF ContractsInv, ContractsTypeOK, TrackingCodes
<1> QED BY <1>1 DEF ContractsInv, CodesApart

\* A handler that is not printing a PDF has locked nothing.
LEMMA NothingLocked ==
  ASSUME ContractsInv, NEW h \in ContractHandlers,
         making[h].pc \notin {"coded", "stored"}
  PROVE  \A c \in Contracts : lockedBy[c] # h
<1>1. h # Free
  BY ContractsAssumption
<1> QED BY <1>1 DEF ContractsInv, LockHeld

\* A handler has locked the contract it is making, if any.
LEMMA LocksItsOwn ==
  ASSUME ContractsInv, NEW h \in ContractHandlers, NEW c \in Contracts, lockedBy[c] = h
  PROVE  /\ making[h].pc \in {"coded", "stored"}
         /\ making[h].contract = c
         /\ making[h].code # 0
         /\ contracts[c].code \in {0, making[h].code}
<1>1. h # Free
  BY ContractsAssumption
<1> QED BY <1>1 DEF ContractsInv, LockHeld

LEMMA CodesTyped == ContractsInv => \A c \in Contracts : CodeOf(c) \in Nat
<1> SUFFICES ASSUME ContractsInv, NEW c \in Contracts PROVE CodeOf(c) \in Nat
  OBVIOUS
<1>1. contracts[c].code \in Nat
  BY ContractsAssumption DEF ContractsInv, ContractsTypeOK, TrackingCodes
<1>2. CASE lockedBy[c] = Free
  BY <1>1, <1>2 DEF CodeOf
<1>3. CASE lockedBy[c] # Free
  <2> DEFINE h == lockedBy[c]
  <2>1. h \in ContractHandlers
    BY <1>3 DEF ContractsInv, ContractsTypeOK
  <2>2. making[h].pc \in {"coded", "stored"}
    BY <2>1, LocksItsOwn
  <2>3. making[h].code \in TrackingCodes
    BY <2>1, <2>2 DEF ContractsInv, ContractsTypeOK, Idle
  <2> QED BY <1>3, <2>3, ContractsAssumption DEF CodeOf, TrackingCodes
<1> QED BY <1>2, <1>3

LEMMA MakingReadKeeps ==
  ASSUME ContractsInv, NEW h \in ContractHandlers, NEW c \in Contracts,
         \/ \E what \in {"generate", "download"} : ReadContract(h, c, what)
         \/ StoreSigned(h, c)
  PROVE  (LockHeld /\ CodeRead /\ CodesApart /\ FilesFirst /\ Printed)'
<1>1. making[h].pc = "idle"
  BY DEF ReadContract, StoreSigned, Idle
<1>2. \A d \in Contracts : lockedBy[d] # h
  BY <1>1, NothingLocked
<1>3. PICK m : /\ making' = [making EXCEPT ![h] = m]
               /\ \/ m.pc = "read" /\ m.contract = c /\ m.code = contracts[c].code
                  \/ /\ m.pc = "signed" /\ m.contract = c
                     /\ SignedFile(c) \in files'
  <2>1. CASE \E what \in {"generate", "download"} : ReadContract(h, c, what)
    <3>1. PICK what \in {"generate", "download"} : ReadContract(h, c, what)
      BY <2>1
    <3> DEFINE m == [pc |-> "read", what |-> what, contract |-> c, code |-> contracts[c].code]
    <3>2. making' = [making EXCEPT ![h] = m]
      BY <3>1 DEF ReadContract
    <3>3. m.pc = "read" /\ m.contract = c /\ m.code = contracts[c].code
      OBVIOUS
    <3> QED BY <3>2, <3>3
  <2>2. CASE StoreSigned(h, c)
    <3> DEFINE m == [pc |-> "signed", contract |-> c]
    <3>1. making' = [making EXCEPT ![h] = m] /\ SignedFile(c) \in files'
      BY <2>2 DEF StoreSigned
    <3>2. m.pc = "signed" /\ m.contract = c
      OBVIOUS
    <3> QED BY <3>1, <3>2
  <2> QED BY <2>1, <2>2
<1>4. files \subseteq files' /\ UNCHANGED <<contracts, sequence, lockedBy, documents>>
  BY DEF ReadContract, StoreSigned
<1>5. /\ making'[h] = m
      /\ \A g \in ContractHandlers : g # h => making'[g] = making[g]
  BY <1>3 DEF ContractsInv, ContractsTypeOK
<1>6. \A d \in Contracts : CodeOf(d)' = CodeOf(d)
  BY <1>2, <1>4, <1>5 DEF CodeOf, ContractsInv, ContractsTypeOK
<1>7. LockHeld'
  BY <1>2, <1>4, <1>5 DEF ContractsInv, LockHeld, ContractsTypeOK
<1>8. CodeRead'
  BY <1>3, <1>4, <1>5 DEF ContractsInv, CodeRead
<1>9. FilesFirst'
  BY <1>3, <1>4, <1>5 DEF ContractsInv, FilesFirst
<1>10. Printed'
  BY <1>4 DEF ContractsInv, Printed
<1> QED BY <1>4, <1>6, <1>7, <1>8, <1>9, <1>10, CodesStayApart

LEMMA EnsureKeeps ==
  ASSUME ContractsInv, NEW h \in ContractHandlers, EnsureCode(h)
  PROVE  (LockHeld /\ CodeRead /\ CodesApart /\ FilesFirst /\ Printed)'
<1> DEFINE c == making[h].contract
<1>1. making[h].pc = "read" /\ UNCHANGED <<contracts, files, documents>>
  BY DEF EnsureCode
<1>2. c \in Contracts /\ making[h].code \in Nat /\ sequence \in Nat /\ contracts[c].code \in Nat
      /\ making[h] \in [pc : {"read", "coded", "stored"}, what : {"generate", "download"},
                        contract : Contracts, code : TrackingCodes]
  <2>1. making[h] \in [pc : {"read", "coded", "stored"}, what : {"generate", "download"},
                       contract : Contracts, code : TrackingCodes]
    BY <1>1 DEF ContractsInv, ContractsTypeOK, Idle
  <2> QED BY <2>1, ContractsAssumption DEF ContractsInv, ContractsTypeOK, TrackingCodes
<1>3. \A d \in Contracts : lockedBy[d] # h
  BY <1>1, NothingLocked
<1>4. making \in [ContractHandlers -> {making[g] : g \in ContractHandlers}]
  BY DEF ContractsInv, ContractsTypeOK
<1>5. CASE making[h].code # 0
  <2>1. /\ making' = [making EXCEPT ![h].pc = "coded"]
        /\ UNCHANGED <<sequence, lockedBy>>
    BY <1>5 DEF EnsureCode
  <2>2. /\ making'[h].pc = "coded" /\ making'[h].code = making[h].code
        /\ making'[h].contract = c
        /\ \A g \in ContractHandlers : g # h => making'[g] = making[g]
    BY <1>2, <1>4, <2>1
  <2> HIDE DEF c
  <2>3. \A d \in Contracts : CodeOf(d)' = CodeOf(d)
    BY <1>1, <1>3, <2>1, <2>2 DEF CodeOf, ContractsInv, ContractsTypeOK
  <2>4. LockHeld'
    BY <1>1, <1>3, <2>1, <2>2 DEF ContractsInv, LockHeld, ContractsTypeOK
  <2>5. CodeRead'
    BY <1>1, <1>5, <2>1, <2>2 DEF ContractsInv, CodeRead, c
  <2>6. FilesFirst'
    BY <1>1, <2>2 DEF ContractsInv, FilesFirst
  <2>7. Printed'
    BY <1>1 DEF ContractsInv, Printed
  <2> QED BY <2>1, <2>3, <2>4, <2>5, <2>6, <2>7, CodesStayApart
<1>6. CASE making[h].code = 0
  <2> DEFINE code == IF contracts[c].code = 0 THEN sequence + 1 ELSE contracts[c].code
  <2>1. /\ lockedBy[c] = Free
        /\ sequence' = IF contracts[c].code = 0 THEN sequence + 1 ELSE sequence
        /\ lockedBy' = [lockedBy EXCEPT ![c] = h]
        /\ making' = [making EXCEPT ![h].pc = "coded", ![h].code = code]
    BY <1>6 DEF EnsureCode
  <2>2. /\ making'[h].pc = "coded" /\ making'[h].code = code
        /\ making'[h].contract = c
        /\ \A g \in ContractHandlers : g # h => making'[g] = making[g]
    BY <1>2, <1>4, <2>1
  <2>3. lockedBy'[c] = h /\ \A d \in Contracts : d # c => lockedBy'[d] = lockedBy[d]
    BY <1>2, <2>1 DEF ContractsInv, ContractsTypeOK
  <2>4. code # 0 /\ contracts[c].code \in {0, code}
    BY <1>2
  <2>5. h # Free
    BY ContractsAssumption
  <2>6. sequence <= sequence' /\ sequence' \in Nat
    BY <1>2, <2>1
  <2>7. \A d \in Contracts : d = c => CodeOf(d)' = code
    BY <2>1, <2>2, <2>3, <2>5 DEF CodeOf
  <2>8. code <= sequence' /\ (code = CodeOf(c) \/ code = sequence + 1)
    BY <1>2, <2>1 DEF CodeOf, ContractsInv, CodesApart
  <2> HIDE DEF c, code
  <2>9. \A d \in Contracts : d # c => CodeOf(d)' = CodeOf(d)
    BY <1>1, <1>3, <2>2, <2>3 DEF CodeOf, ContractsInv, ContractsTypeOK
  <2>10. LockHeld'
    BY <1>1, <1>3, <2>2, <2>3, <2>4 DEF ContractsInv, LockHeld, ContractsTypeOK
  <2>11. CodeRead'
    <3>1. ASSUME NEW g \in ContractHandlers, g # h, making'[g].pc \in {"read", "coded", "stored"}
          PROVE  LET m == making'[g] IN
                 /\ m.code # 0 /\ lockedBy'[m.contract] # g => contracts[m.contract].code = m.code
                 /\ m.code = 0 => m.pc = "read"
      <4>1. making'[g] = making[g]
        BY <2>2, <3>1
      <4>2. lockedBy'[making[g].contract] # g => lockedBy[making[g].contract] # g
        BY <2>1, <2>3, <2>5, ContractsAssumption
      <4> QED BY <3>1, <4>1, <4>2 DEF ContractsInv, CodeRead
    <3>2. making'[h].code # 0 /\ lockedBy'[making'[h].contract] = h
      BY <2>2, <2>3, <2>4
    <3> QED BY <1>1, <3>1, <3>2 DEF CodeRead
  <2>12. CodesApart'
    <3>1. \A d \in Contracts : CodeOf(d) \in Nat /\ CodeOf(d) <= sequence
      BY CodesTyped DEF ContractsInv, CodesApart
    <3>2. \A d, e \in Contracts : d # e /\ CodeOf(d) # 0 => CodeOf(d) # CodeOf(e)
      BY DEF ContractsInv, CodesApart
    <3>3. \A d \in Contracts : CodeOf(d)' <= sequence'
      BY <1>2, <2>6, <2>7, <2>8, <2>9, <3>1
    <3>4. \A d \in Contracts : d # c => CodeOf(d)' # code
      <4> SUFFICES ASSUME NEW d \in Contracts, d # c PROVE CodeOf(d) # code
        BY <2>9
      <4>1. CASE code = sequence + 1
        BY <1>2, <3>1, <4>1
      <4>2. CASE code = CodeOf(c)
        BY <1>2, <2>4, <3>2, <4>2
      <4> QED BY <2>8, <4>1, <4>2
    <3>5. c \in Contracts
      BY <1>2
    <3>6. \A d, e \in Contracts : d # e /\ CodeOf(d)' # 0 => CodeOf(d)' # CodeOf(e)'
      BY <2>7, <2>9, <3>2, <3>4, <3>5
    <3> QED BY <3>3, <3>6 DEF CodesApart
  <2>13. FilesFirst'
    BY <1>1, <2>2 DEF ContractsInv, FilesFirst
  <2>14. Printed'
    BY <1>1 DEF ContractsInv, Printed
  <2> QED BY <2>10, <2>11, <2>12, <2>13, <2>14
<1> QED BY <1>5, <1>6


LEMMA StoreKeeps ==
  ASSUME ContractsInv, NEW h \in ContractHandlers, StorePdf(h)
  PROVE  (LockHeld /\ CodeRead /\ CodesApart /\ FilesFirst /\ Printed)'
<1>1. /\ making[h].pc = "coded" /\ making[h].what = "generate"
      /\ files' = files \cup {Made(making[h], "generated")}
      /\ making' = [making EXCEPT ![h].pc = "stored"]
      /\ UNCHANGED <<contracts, sequence, lockedBy, documents>>
  BY DEF StorePdf
<1>2. making[h] \in [pc : {"read", "coded", "stored"}, what : {"generate", "download"},
                     contract : Contracts, code : TrackingCodes]
  BY <1>1 DEF ContractsInv, ContractsTypeOK, Idle
<1>3. making \in [ContractHandlers -> {making[g] : g \in ContractHandlers}]
  BY DEF ContractsInv, ContractsTypeOK
<1>4. /\ making'[h].pc = "stored" /\ making'[h].code = making[h].code
      /\ making'[h].contract = making[h].contract /\ making'[h].what = "generate"
      /\ Made(making'[h], "generated") \in files'
      /\ \A g \in ContractHandlers : g # h => making'[g] = making[g]
  BY <1>1, <1>2, <1>3 DEF Made
<1>5. \A d \in Contracts : CodeOf(d)' = CodeOf(d)
  BY <1>1, <1>4 DEF CodeOf, ContractsInv, ContractsTypeOK
<1>6. LockHeld'
  BY <1>1, <1>4 DEF ContractsInv, LockHeld, ContractsTypeOK
<1>7. CodeRead'
  <2>1. \A g \in ContractHandlers :
          /\ making'[g].code = making[g].code /\ making'[g].contract = making[g].contract
          /\ making'[g].pc = making[g].pc \/ making[g].pc = "coded"
    BY <1>1, <1>4
  <2> QED BY <1>1, <1>4, <2>1 DEF ContractsInv, CodeRead
<1>8. FilesFirst'
  BY <1>1, <1>4 DEF ContractsInv, FilesFirst
<1>9. Printed'
  BY <1>1 DEF ContractsInv, Printed
<1> QED BY <1>1, <1>5, <1>6, <1>7, <1>8, <1>9, CodesStayApart

\* The end of a transaction: its locks go, and its handler rests.
LEMMA EndKeeps ==
  ASSUME ContractsInv, NEW h \in ContractHandlers,
         lockedBy' = Unlocked(h),
         making' = [making EXCEPT ![h] = Idle],
         UNCHANGED sequence,
         \A c \in Contracts :
           /\ lockedBy[c] # h => contracts'[c].code = contracts[c].code
           /\ lockedBy[c] = h => contracts'[c].code \in {contracts[c].code, making[h].code}
  PROVE  (LockHeld /\ CodeRead /\ CodesApart)'
<1>1. /\ making'[h] = Idle
      /\ \A g \in ContractHandlers : g # h => making'[g] = making[g]
  BY DEF ContractsInv, ContractsTypeOK
<1>2. \A c \in Contracts :
        /\ lockedBy[c] = h => lockedBy'[c] = Free
        /\ lockedBy[c] # h => lockedBy'[c] = lockedBy[c]
  BY DEF Unlocked
<1>3. h # Free
  BY ContractsAssumption
<1>4. \A c \in Contracts : CodeOf(c)' \in {0, CodeOf(c)}
  <2> TAKE c \in Contracts
  <2>1. CASE lockedBy[c] = h
    <3>1. CodeOf(c) = making[h].code /\ CodeOf(c)' = contracts'[c].code
      BY <1>2, <1>3, <2>1 DEF CodeOf
    <3>2. contracts[c].code \in {0, making[h].code}
      BY <2>1, LocksItsOwn
    <3> QED BY <2>1, <3>1, <3>2
  <2>2. CASE lockedBy[c] # h
    <3>1. lockedBy[c] # Free => making'[lockedBy[c]] = making[lockedBy[c]]
      BY <1>1, <2>2 DEF ContractsInv, ContractsTypeOK
    <3> QED BY <1>2, <2>2, <3>1 DEF CodeOf
  <2> QED BY <2>1, <2>2
<1>5. LockHeld'
  <2> SUFFICES ASSUME NEW c \in Contracts, lockedBy'[c] # Free
               PROVE  LET m == making'[lockedBy'[c]] IN
                      /\ m.pc \in {"coded", "stored"}
                      /\ m.contract = c
                      /\ m.code # 0
                      /\ contracts'[c].code \in {0, m.code}
    BY DEF LockHeld
  <2>1. lockedBy[c] # h /\ lockedBy'[c] = lockedBy[c]
    BY <1>2
  <2>2. making'[lockedBy[c]] = making[lockedBy[c]]
    BY <1>1, <2>1 DEF ContractsInv, ContractsTypeOK
  <2> QED BY <2>1, <2>2 DEF ContractsInv, LockHeld
<1>6. CodeRead'
  <2> SUFFICES ASSUME NEW g \in ContractHandlers, making'[g].pc \in {"read", "coded", "stored"}
               PROVE  LET m == making'[g] IN
                      /\ m.code # 0 /\ lockedBy'[m.contract] # g => contracts'[m.contract].code = m.code
                      /\ m.code = 0 => m.pc = "read"
    BY DEF CodeRead
  <2>1. g # h /\ making'[g] = making[g]
    BY <1>1 DEF Idle
  <2> DEFINE m == making[g]
  <2>2. m.contract \in Contracts
    BY <2>1 DEF ContractsInv, ContractsTypeOK, Idle
  <2>3. (lockedBy'[m.contract] # g <=> lockedBy[m.contract] # g)
    BY <1>2, <2>1, <2>2, ContractsAssumption
  <2>4. m.code # 0 /\ lockedBy[m.contract] # g => contracts[m.contract].code = m.code
    BY <2>1 DEF ContractsInv, CodeRead
  <2>5. m.code # 0 /\ lockedBy[m.contract] # g => contracts'[m.contract].code = m.code
    BY <2>2, <2>4, LocksItsOwn
  <2>6. m.code = 0 => m.pc = "read"
    BY <2>1 DEF ContractsInv, CodeRead
  <2> HIDE DEF m
  <2> QED BY <2>1, <2>3, <2>5, <2>6 DEF m
<1> QED BY <1>4, <1>5, <1>6, CodesStayApart

\* The two commits of a PDF leave each contract the code it has or is to have.
LEMMA CommitWrites ==
  ASSUME ContractsInv, NEW h \in ContractHandlers, CommitPdf(h) \/ CommitDownload(h)
  PROVE  /\ making[h].contract \in Contracts
         /\ making[h].code # 0
         /\ contracts'[making[h].contract].code = making[h].code
              \/ CommitDownload(h)
         /\ \A c \in Contracts :
              /\ lockedBy[c] # h => contracts'[c].code = contracts[c].code
              /\ lockedBy[c] = h => contracts'[c].code = making[h].code
<1> DEFINE m == making[h]
<1>1. m.pc \in {"coded", "stored"}
  BY DEF CommitPdf, CommitDownload
<1>2. m.contract \in Contracts
  BY <1>1 DEF ContractsInv, ContractsTypeOK, Idle
<1>3. m.code # 0 /\ (lockedBy[m.contract] # h => contracts[m.contract].code = m.code)
  BY <1>1 DEF ContractsInv, CodeRead
<1>4. \A c \in Contracts : lockedBy[c] = h => c = m.contract
  BY LocksItsOwn
<1>5. \A c \in Contracts :
        contracts'[c].code = IF c = m.contract /\ lockedBy[c] = h THEN m.code
                             ELSE contracts[c].code
  <2>1. /\ contracts \in [Contracts -> {contracts[c] : c \in Contracts}]
        /\ \A c \in Contracts : contracts[c] \in [code : TrackingCodes,
              pdf : Files \cup {NoFile}, signed : Files \cup {NoFile}]
    BY DEF ContractsInv, ContractsTypeOK
  <2>2. CASE CommitPdf(h)
    BY <1>2, <2>1, <2>2 DEF CommitPdf
  <2>3. CASE CommitDownload(h)
    BY <1>2, <2>1, <2>3 DEF CommitDownload
  <2> QED BY <2>2, <2>3
<1> HIDE DEF m
<1> QED BY <1>2, <1>3, <1>4, <1>5 DEF m

LEMMA CommitKeeps ==
  ASSUME ContractsInv, NEW h \in ContractHandlers, CommitPdf(h) \/ CommitDownload(h)
  PROVE  (LockHeld /\ CodeRead /\ CodesApart /\ FilesFirst /\ Printed)'
<1>1. /\ lockedBy' = Unlocked(h)
      /\ making' = [making EXCEPT ![h] = Idle]
      /\ UNCHANGED <<sequence, files>>
      /\ \/ documents' = documents
         \/ /\ CommitPdf(h) /\ making[h].pc = "stored"
            /\ documents' = documents \cup {Made(making[h], "generated")}
  BY DEF CommitPdf, CommitDownload
<1>2. /\ making'[h] = Idle
      /\ \A g \in ContractHandlers : g # h => making'[g] = making[g]
  BY <1>1 DEF ContractsInv, ContractsTypeOK
<1>3. FilesFirst'
  BY <1>1, <1>2 DEF ContractsInv, FilesFirst, Idle
<1>4. Printed'
  <2> SUFFICES ASSUME NEW d \in documents', d.kind = "generated"
               PROVE  d.code # 0 /\ d.code = contracts'[d.contract].code
    BY DEF Printed
  <2>1. CASE d \in documents
    <3>1. d.code # 0 /\ d.code = contracts[d.contract].code /\ d.contract \in Contracts
      BY <2>1 DEF ContractsInv, Printed, ContractsTypeOK, Files
    <3>2. lockedBy[d.contract] = h => contracts[d.contract].code \in {0, making[h].code}
      BY <3>1, LocksItsOwn
    <3> QED BY <3>1, <3>2, CommitWrites
  <2>2. CASE d \notin documents
    <3>1. /\ CommitPdf(h) /\ d.contract = making[h].contract /\ d.code = making[h].code
          /\ ~CommitDownload(h)
      BY <1>1, <2>2 DEF Made, CommitDownload
    <3> QED BY <3>1, CommitWrites
  <2> QED BY <2>1, <2>2
<1>5. (LockHeld /\ CodeRead /\ CodesApart)'
  <2>1. \A c \in Contracts :
           /\ lockedBy[c] # h => contracts'[c].code = contracts[c].code
           /\ lockedBy[c] = h => contracts'[c].code \in {contracts[c].code, making[h].code}
    BY CommitWrites
  <2> QED BY <1>1, <2>1, EndKeeps
<1> QED BY <1>3, <1>4, <1>5

LEMMA FailKeeps ==
  ASSUME ContractsInv, NEW h \in ContractHandlers, Fail(h)
  PROVE  (LockHeld /\ CodeRead /\ CodesApart /\ FilesFirst /\ Printed)'
<1>1. /\ lockedBy' = Unlocked(h)
      /\ making' = [making EXCEPT ![h] = Idle]
      /\ UNCHANGED <<contracts, sequence, files, documents>>
  BY DEF Fail
<1>2. /\ making'[h] = Idle
      /\ \A g \in ContractHandlers : g # h => making'[g] = making[g]
  BY <1>1 DEF ContractsInv, ContractsTypeOK
<1>3. FilesFirst' /\ Printed'
  BY <1>1, <1>2 DEF ContractsInv, FilesFirst, Printed, Idle
<1>4. (LockHeld /\ CodeRead /\ CodesApart)'
  BY <1>1, EndKeeps
<1> QED BY <1>3, <1>4

LEMMA SignedKeeps ==
  ASSUME ContractsInv, NEW h \in ContractHandlers, CommitSigned(h)
  PROVE  (LockHeld /\ CodeRead /\ CodesApart /\ FilesFirst /\ Printed)'
<1> DEFINE c == making[h].contract
<1>1. /\ making[h].pc = "signed"
      /\ contracts' = [contracts EXCEPT ![c].signed = SignedFile(c)]
      /\ documents' = documents \cup {SignedFile(c)}
      /\ making' = [making EXCEPT ![h] = Idle]
      /\ UNCHANGED <<sequence, lockedBy, files>>
  BY DEF CommitSigned
<1>2. c \in Contracts
  BY <1>1 DEF ContractsInv, ContractsTypeOK, Idle
<1>3. /\ making'[h] = Idle
      /\ \A g \in ContractHandlers : g # h => making'[g] = making[g]
  BY <1>1 DEF ContractsInv, ContractsTypeOK
<1>4. \A d \in Contracts : contracts'[d].code = contracts[d].code
  BY <1>1, <1>2 DEF ContractsInv, ContractsTypeOK
<1>5. \A d \in Contracts : lockedBy[d] # h
  BY <1>1, NothingLocked
<1>6. lockedBy' = Unlocked(h)
  BY <1>1, <1>5 DEF Unlocked, ContractsInv, ContractsTypeOK
<1>7. FilesFirst'
  BY <1>1, <1>3 DEF ContractsInv, FilesFirst, Idle
<1>8. Printed'
  <2>1. \A d \in documents : d.contract \in Contracts
    BY DEF ContractsInv, ContractsTypeOK, Files
  <2>2. SignedFile(c).kind # "generated"
    BY DEF SignedFile
  <2> HIDE DEF c
  <2> QED BY <1>1, <1>4, <2>1, <2>2 DEF ContractsInv, Printed
<1>9. (LockHeld /\ CodeRead /\ CodesApart)'
  BY <1>1, <1>4, <1>6, EndKeeps
<1> QED BY <1>7, <1>8, <1>9

LEMMA ContractsKept == ContractsInv /\ [ContractsNext]_contractsVars => ContractsInv'
<1> SUFFICES ASSUME ContractsInv, [ContractsNext]_contractsVars PROVE ContractsInv'
  OBVIOUS
<1>1. CASE ContractsNext
  BY <1>1, ContractsTyped, MakingReadKeeps, EnsureKeeps, StoreKeeps, CommitKeeps, SignedKeeps,
     FailKeeps
     DEF ContractsNext, ContractsInv
<1>2. CASE UNCHANGED contractsVars
  <2>1. LockHeld' /\ CodeRead' /\ CodesApart'
    BY <1>2 DEF contractsVars, ContractsInv, LockHeld, CodeRead, CodesApart, CodeOf
  <2>2. FilesFirst' /\ Printed'
    BY <1>2 DEF contractsVars, ContractsInv, FilesFirst, Printed
  <2> QED BY <2>1, <2>2, ContractsTyped DEF ContractsInv
<1> QED BY <1>1, <1>2

\* Every PDF on file shows its contract's tracking code, no two contracts have the
\* same one, and no document is without its file (ensureContractTrackingCode and
\* generateContractPdf), however many contracts and handlers there are, and
\* whichever fail.
THEOREM PdfsShowTheirCode ==
  ContractsInit /\ [][ContractsNext]_contractsVars => []PdfShowsCode
<1>1. ASSUME ContractsInv PROVE PdfShowsCode
  <2>1. \A d \in documents :
          /\ d \in files
          /\ d.kind = "generated" => d.code # 0 /\ d.code = contracts[d.contract].code
    BY <1>1 DEF ContractsInv, FilesFirst, Printed
  <2>2. \A c \in Contracts : contracts[c].code # 0 => CodeOf(c) = contracts[c].code
    BY <1>1 DEF ContractsInv, LockHeld, CodeOf
  <2>3. \A c, d \in Contracts :
          c # d /\ contracts[c].code # 0 => contracts[c].code # contracts[d].code
    BY <1>1, <2>2 DEF ContractsInv, CodesApart
  <2> QED BY <2>1, <2>3 DEF PdfShowsCode
<1> QED BY <1>1, ContractsBegin, ContractsKept, PTL

-------------------------------------------------------------------------------
(***************************************************************************)
(* Documents and their files.                                              *)
(***************************************************************************)

Uploads   == DocumentIds \X Contents
Uploading == {"store", "write", "undo"}
OnPaths   == {"store", "write", "undo", "cleanup", "delete", "unlink"}

InFlight(p) == \E h \in FileHandlers : doing[h].pc \in Uploading /\ doing[h].path = p

\* The upload of a path has ended.
Spent(p) == p \in Uploads => p \in sent /\ ~InFlight(p)

Own(d, p) == p \in Uploads => p[1] = d

\* A content is on its way to a document once; its file is stored before its row.
UploadsOnce ==
  /\ \A h \in FileHandlers : doing[h].pc \in Uploading =>
       /\ doing[h].path \in Uploads /\ doing[h].path[1] = doing[h].doc
       /\ doing[h].path \in sent
       /\ doing[h].pc = "write" => doing[h].path \in storage
  /\ \A h, g \in FileHandlers :
       h # g /\ doing[h].pc \in Uploading /\ doing[g].pc \in Uploading
         => doing[h].path # doing[g].path

\* A row has a path its own upload has ended with, and the file is there.
RowsStored ==
  \A d \in Live :
    LET p == workerDocuments[d].path IN
    Spent(p) /\ Own(d, p) /\ (p \in Uploads => p \in storage)

\* So has the path a handler has read from a row.
ReadSpent ==
  \A h \in FileHandlers :
    /\ doing[h].pc \in Uploading \cup {"cleanup"} =>
         Spent(doing[h].old) /\ Own(doing[h].doc, doing[h].old)
    /\ doing[h].pc \in {"delete", "unlink"} =>
         Spent(doing[h].path) /\ Own(doing[h].doc, doing[h].path)

\* A file about to be removed is of no row.
GoingUnused ==
  \A h \in FileHandlers, d \in Live :
    /\ doing[h].pc = "cleanup" /\ doing[h].old \in Uploads
         => workerDocuments[d].path # doing[h].old
    /\ doing[h].pc = "unlink" /\ doing[h].path \in Uploads
         => workerDocuments[d].path # doing[h].path

\* Files of templates are elsewhere.
TemplatesApart ==
  /\ \A t \in Templates : templates[t] \notin Uploads
  /\ \A h \in FileHandlers : doing[h].pc = "template" => doing[h].path \notin Uploads

\* An attachment of the worker's own is not mirrored.
MirrorsFinal == \A h \in FileHandlers : doing[h].pc = "mirror" => doing[h].status # "attached"

PathsInv ==
  UploadsOnce /\ RowsStored /\ ReadSpent /\ GoingUnused /\ TemplatesApart /\ MirrorsFinal

FilesInv == StoredFilesTypeOK /\ PathsInv

-------------------------------------------------------------------------------
UploadWork == [pc : {"store", "write", "undo", "cleanup"}, doc : DocumentIds, path : Paths,
               old : Paths \cup {NoPath}, new : BOOLEAN]
DeletionWork == [pc : {"delete", "unlink"}, doc : DocumentIds, path : Paths \cup {NoPath}]
AttachWork == [pc : {"attach", "enter", "mirror", "detach", "erase"}, doc : RequestDocuments,
               status : {"generated", "signed", "attached"}]
TemplateWork == [pc : {"template"}, template : Templates, path : Paths \cup {NoPath}]

LEMMA WorkIs ==
  ASSUME StoredFilesTypeOK, NEW h \in FileHandlers
  PROVE  /\ doing[h] \in FileWork
         /\ doing[h].pc \in Uploading \cup {"cleanup"} => doing[h] \in UploadWork
         /\ doing[h].pc \in {"delete", "unlink"} => doing[h] \in DeletionWork
         /\ doing[h].pc \in {"attach", "enter", "mirror", "detach", "erase"} =>
              doing[h] \in AttachWork
         /\ doing[h].pc = "template" => doing[h] \in TemplateWork
<1>1. doing[h] \in FileWork
  BY DEF StoredFilesTypeOK
<1> QED BY <1>1 DEF FileWork, Uploading, UploadWork, DeletionWork, AttachWork, TemplateWork, Resting

LEMMA WorkTyped ==
  /\ Resting \in FileWork
  /\ UploadWork \subseteq FileWork /\ DeletionWork \subseteq FileWork
  /\ AttachWork \subseteq FileWork /\ TemplateWork \subseteq FileWork
BY DEF FileWork, UploadWork, DeletionWork, AttachWork, TemplateWork

LEMMA PathsApart ==
  /\ Uploads \subseteq Paths /\ NoPath \notin Uploads
  /\ \A q \in RequestDocuments : <<q, "pdf">> \in Paths /\ <<q, "pdf">> \notin Uploads
  /\ \A t \in Templates, c \in Contents : <<t, c>> \in Paths /\ <<t, c>> \notin Uploads
<1>1. Uploads \subseteq Paths
  BY DEF Uploads, Paths
<1> QED BY <1>1, StoredFilesAssumption DEF Uploads, Paths

LEMMA RowsTyped ==
  ASSUME StoredFilesTypeOK, NEW d \in Live
  PROVE  workerDocuments[d] \in DocumentRows /\ workerDocuments[d].path \in Paths \cup {NoPath}
BY DEF StoredFilesTypeOK, Live, DocumentRows

-------------------------------------------------------------------------------
\* The type invariant, one step at a time.
LEMMA FilesTyped ==
  ASSUME StoredFilesTypeOK, MirrorsFinal, StoredFilesNext PROVE StoredFilesTypeOK'
<1> DEFINE Rows == DocumentRows \cup {NoDocument}
<1>0. /\ workerDocuments \in [DocumentIds -> Rows]
      /\ used \subseteq DocumentIds
      /\ requestDocs \subseteq RequestDocuments /\ drawn \subseteq RequestDocuments
      /\ templates \in [Templates -> Paths \cup {NoPath}]
      /\ storage \subseteq Paths
      /\ sent \subseteq DocumentIds \X Contents
      /\ doing \in [FileHandlers -> FileWork]
  BY DEF StoredFilesTypeOK
<1>a. ASSUME NEW h \in FileHandlers, NEW next \in FileWork, Then(h, next)
      PROVE  doing' \in [FileHandlers -> FileWork]
  BY <1>0, <1>a DEF Then
<1>b. \A s \in Final \cup Replaceable, p \in Paths \cup {NoPath} : [status |-> s, path |-> p] \in DocumentRows
  BY DEF DocumentRows
<1>1. ASSUME NEW d \in DocumentIds, RequireDocument(d) PROVE StoredFilesTypeOK'
  <2>1. [status |-> "missing", path |-> NoPath] \in Rows
    BY <1>b DEF Replaceable
  <2> QED BY <1>0, <1>1, <2>1 DEF RequireDocument, StoredFilesTypeOK
<1>2. ASSUME NEW d \in DocumentIds, NEW s \in Reviewed, ReviewDocument(d, s)
      PROVE  StoredFilesTypeOK'
  <2>1. [workerDocuments[d] EXCEPT !.status = s] \in Rows
    BY <1>2, RowsTyped DEF ReviewDocument, DocumentRows, Reviewed, Final, Replaceable
  <2> HIDE DEF Rows
  <2>2. workerDocuments' \in [DocumentIds -> Rows]
    BY <1>0, <1>2, <2>1 DEF ReviewDocument
  <2> QED BY <1>0, <1>2, <2>2 DEF ReviewDocument, StoredFilesTypeOK, Rows
<1>3. ASSUME NEW h \in FileHandlers, NEW d \in DocumentIds, NEW c \in Contents,
             NEW named \in BOOLEAN, UploadRead(h, d, c, named)
      PROVE  StoredFilesTypeOK'
  <2> DEFINE w == [pc |-> "store", doc |-> d, path |-> <<d, c>>, new |-> d \notin Live,
                   old |-> IF d \in Live THEN workerDocuments[d].path ELSE NoPath]
  <2>1. <<d, c>> \in Uploads /\ <<d, c>> \in Paths
    BY PathsApart DEF Uploads
  <2>2. w \in UploadWork
    BY <2>1, RowsTyped DEF UploadWork
  <2>3. Then(h, w) /\ UNCHANGED <<workerDocuments, requestDocs, drawn, templates, storage>>
        /\ used' = used \cup {d} /\ sent' = sent \cup {<<d, c>>}
    BY <1>3 DEF UploadRead
  <2> HIDE DEF w
  <2>4. doing' \in [FileHandlers -> FileWork]
    BY <1>a, <2>2, <2>3, WorkTyped
  <2> QED BY <1>0, <2>1, <2>3, <2>4 DEF StoredFilesTypeOK, Uploads
<1>4. ASSUME NEW h \in FileHandlers, StoreUpload(h) PROVE StoredFilesTypeOK'
  <2>1. doing[h] \in UploadWork
    BY <1>4, WorkIs DEF StoreUpload, Uploading
  <2>2. [doing[h] EXCEPT !.pc = "write"] \in UploadWork /\ doing[h].path \in Paths
    BY <2>1 DEF UploadWork
  <2>3. doing' \in [FileHandlers -> FileWork]
    BY <1>4, <1>a, <2>2, WorkTyped DEF StoreUpload
  <2> QED BY <1>0, <1>4, <2>2, <2>3 DEF StoreUpload, StoredFilesTypeOK
<1>5. ASSUME NEW h \in FileHandlers, WriteUpload(h) PROVE StoredFilesTypeOK'
  <2> DEFINE w == doing[h]
  <2>1. w \in UploadWork
    BY <1>5, WorkIs DEF WriteUpload, Uploading
  <2>2. [w EXCEPT !.pc = "undo"] \in UploadWork /\ [w EXCEPT !.pc = "cleanup"] \in UploadWork
        /\ w.path \in Paths /\ w.doc \in DocumentIds
    BY <2>1 DEF UploadWork
  <2>3. \E next \in FileWork : Then(h, next)
    BY <1>5, <2>2, WorkTyped DEF WriteUpload
  <2>4. doing' \in [FileHandlers -> FileWork]
    BY <1>a, <2>3
  <2>5. [status |-> "pending", path |-> w.path] \in DocumentRows
    BY <1>b, <2>2 DEF Replaceable
  <2>6. workerDocuments' \in [DocumentIds -> Rows]
    BY <1>0, <1>5, <2>2, <2>5 DEF WriteUpload
  <2> QED BY <1>0, <1>5, <2>4, <2>6 DEF WriteUpload, StoredFilesTypeOK
<1>6. ASSUME NEW h \in FileHandlers, RemoveFile(h) PROVE StoredFilesTypeOK'
  <2>1. doing' \in [FileHandlers -> FileWork]
    BY <1>6, <1>a, WorkTyped DEF RemoveFile
  <2> QED BY <1>0, <1>6, <2>1 DEF RemoveFile, StoredFilesTypeOK
<1>7. ASSUME NEW h \in FileHandlers, NEW d \in DocumentIds, DeleteDocumentRead(h, d)
      PROVE  StoredFilesTypeOK'
  <2>1. [pc |-> "delete", doc |-> d, path |-> workerDocuments[d].path] \in DeletionWork
    BY <1>7, RowsTyped DEF DeleteDocumentRead, DeletionWork
  <2>2. doing' \in [FileHandlers -> FileWork]
    BY <1>7, <1>a, <2>1, WorkTyped DEF DeleteDocumentRead
  <2> QED BY <1>0, <1>7, <2>2 DEF DeleteDocumentRead, StoredFilesTypeOK
<1>8. ASSUME NEW h \in FileHandlers, DeleteDocumentWrite(h) PROVE StoredFilesTypeOK'
  <2>1. doing[h] \in DeletionWork
    BY <1>8, WorkIs DEF DeleteDocumentWrite
  <2>2. [doing[h] EXCEPT !.pc = "unlink"] \in DeletionWork /\ doing[h].doc \in DocumentIds
    BY <2>1 DEF DeletionWork
  <2>3. \E next \in FileWork : Then(h, next)
    BY <1>8, <2>2, WorkTyped DEF DeleteDocumentWrite
  <2>4. doing' \in [FileHandlers -> FileWork]
    BY <1>a, <2>3
  <2>5. workerDocuments' \in [DocumentIds -> Rows]
    BY <1>0, <1>8, <2>2 DEF DeleteDocumentWrite
  <2> QED BY <1>0, <1>8, <2>4, <2>5 DEF DeleteDocumentWrite, StoredFilesTypeOK
<1>9. ASSUME NEW h \in FileHandlers, DeleteDocumentFile(h) PROVE StoredFilesTypeOK'
  <2>1. doing' \in [FileHandlers -> FileWork]
    BY <1>9, <1>a, WorkTyped DEF DeleteDocumentFile
  <2> QED BY <1>0, <1>9, <2>1 DEF DeleteDocumentFile, StoredFilesTypeOK
<1>10. ASSUME NEW h \in FileHandlers, NEW q \in RequestDocuments,
              NEW s \in {"generated", "signed", "attached"}, BeginRequestDocument(h, q, s)
       PROVE  StoredFilesTypeOK'
  <2>1. [pc |-> "attach", doc |-> q, status |-> s] \in AttachWork
    BY DEF AttachWork
  <2>2. doing' \in [FileHandlers -> FileWork]
    BY <1>10, <1>a, <2>1, WorkTyped DEF BeginRequestDocument
  <2> QED BY <1>0, <1>10, <2>2 DEF BeginRequestDocument, StoredFilesTypeOK
<1>11. ASSUME NEW h \in FileHandlers, StoreRequestDocument(h) PROVE StoredFilesTypeOK'
  <2>1. doing[h] \in AttachWork
    BY <1>11, WorkIs DEF StoreRequestDocument
  <2>2. [doing[h] EXCEPT !.pc = "enter"] \in AttachWork /\ <<doing[h].doc, "pdf">> \in Paths
    BY <2>1, PathsApart DEF AttachWork
  <2>3. doing' \in [FileHandlers -> FileWork]
    BY <1>11, <1>a, <2>2, WorkTyped DEF StoreRequestDocument
  <2> QED BY <1>0, <1>11, <2>2, <2>3 DEF StoreRequestDocument, StoredFilesTypeOK
<1>12. ASSUME NEW h \in FileHandlers, EnterRequestDocument(h) PROVE StoredFilesTypeOK'
  <2>1. doing[h] \in AttachWork
    BY <1>12, WorkIs DEF EnterRequestDocument
  <2>2. [doing[h] EXCEPT !.pc = "mirror"] \in AttachWork /\ doing[h].doc \in RequestDocuments
    BY <2>1 DEF AttachWork
  <2>3. \E next \in FileWork : Then(h, next)
    BY <1>12, <2>2, WorkTyped DEF EnterRequestDocument
  <2>4. doing' \in [FileHandlers -> FileWork]
    BY <1>a, <2>3
  <2> QED BY <1>0, <1>12, <2>2, <2>4 DEF EnterRequestDocument, StoredFilesTypeOK
<1>13. ASSUME NEW h \in FileHandlers, NEW d \in DocumentIds, MirrorRequestDocument(h, d)
       PROVE  StoredFilesTypeOK'
  <2>1. doing[h] \in AttachWork
    BY <1>13, WorkIs DEF MirrorRequestDocument
  <2>2. doing[h].status \in Final
    BY <1>13, <2>1 DEF MirrorRequestDocument, MirrorsFinal, AttachWork, Final
  <2>3. [status |-> doing[h].status, path |-> <<doing[h].doc, "pdf">>] \in Rows
    BY <1>b, <2>1, <2>2, PathsApart DEF AttachWork
  <2>4. doing' \in [FileHandlers -> FileWork]
    BY <1>13, <1>a, WorkTyped DEF MirrorRequestDocument
  <2>5. workerDocuments' \in [DocumentIds -> Rows]
    BY <1>0, <1>13, <2>3 DEF MirrorRequestDocument
  <2> QED BY <1>0, <1>13, <2>4, <2>5 DEF MirrorRequestDocument, StoredFilesTypeOK
<1>14. ASSUME NEW h \in FileHandlers, NEW q \in RequestDocuments, RequestDocumentDeletion(h, q)
       PROVE  StoredFilesTypeOK'
  <2>1. \A p \in {"detach", "erase"} :
          [pc |-> p, doc |-> q, status |-> "attached"] \in AttachWork
    BY DEF AttachWork
  <2>2. doing[h].pc = "detach" => [doing[h] EXCEPT !.pc = "erase"] \in AttachWork
    BY WorkIs DEF AttachWork
  <2>3. \E next \in FileWork : Then(h, next)
    BY <1>14, <2>1, <2>2, WorkTyped DEF RequestDocumentDeletion, DeleteRequestDocument
  <2>4. doing' \in [FileHandlers -> FileWork]
    BY <1>a, <2>3
  <2>5. storage' \subseteq Paths /\ requestDocs' \subseteq RequestDocuments
    BY <1>0, <1>14 DEF RequestDocumentDeletion, DeleteRequestDocument
  <2> QED BY <1>0, <1>14, <2>4, <2>5 DEF RequestDocumentDeletion, StoredFilesTypeOK
<1>15. ASSUME NEW h \in FileHandlers, NEW t \in Templates, NEW c \in Contents,
              StoreTemplate(h, t, c)
       PROVE  StoredFilesTypeOK'
  <2>1. <<t, c>> \in Paths
    BY PathsApart
  <2>2. [pc |-> "template", template |-> t, path |-> <<t, c>>] \in TemplateWork
    BY <2>1 DEF TemplateWork
  <2>3. doing' \in [FileHandlers -> FileWork]
    BY <1>15, <1>a, <2>2, WorkTyped DEF StoreTemplate
  <2> QED BY <1>0, <1>15, <2>1, <2>3 DEF StoreTemplate, StoredFilesTypeOK
<1>16. ASSUME NEW h \in FileHandlers, NEW t \in Templates, StoreTemplateFails(h, t)
       PROVE  StoredFilesTypeOK'
  BY <1>0, <1>16 DEF StoreTemplateFails, StoredFilesTypeOK
<1>17. ASSUME NEW h \in FileHandlers, WriteTemplate(h) PROVE StoredFilesTypeOK'
  <2>1. doing[h] \in TemplateWork
    BY <1>17, WorkIs DEF WriteTemplate
  <2>2. templates' \in [Templates -> Paths \cup {NoPath}]
    BY <1>0, <1>17, <2>1 DEF WriteTemplate, TemplateWork
  <2>3. doing' \in [FileHandlers -> FileWork]
    BY <1>17, <1>a, WorkTyped DEF WriteTemplate
  <2> QED BY <1>0, <1>17, <2>2, <2>3 DEF WriteTemplate, StoredFilesTypeOK
<1>18. ASSUME NEW h \in FileHandlers, Interrupted(h) PROVE StoredFilesTypeOK'
  <2>1. doing' \in [FileHandlers -> FileWork]
    BY <1>18, <1>a, WorkTyped DEF Interrupted
  <2> QED BY <1>0, <1>18, <2>1 DEF Interrupted, StoredFilesTypeOK
<1> QED BY <1>1, <1>2, <1>3, <1>4, <1>5, <1>6, <1>7, <1>8, <1>9, <1>10, <1>11, <1>12,
           <1>13, <1>14, <1>15, <1>16, <1>17, <1>18
        DEF StoredFilesNext, DocumentsNext, TemplatesNext

-------------------------------------------------------------------------------
\* The handler that goes on is the only one that changes.
LEMMA OneGoesOn ==
  ASSUME StoredFilesTypeOK, NEW h \in FileHandlers, NEW next, Then(h, next)
  PROVE  doing'[h] = next /\ \A g \in FileHandlers : g # h => doing'[g] = doing[g]
BY DEF StoredFilesTypeOK, Then

LEMMA ApartKept ==
  ASSUME StoredFilesTypeOK, TemplatesApart, MirrorsFinal, StoredFilesNext
  PROVE  TemplatesApart' /\ MirrorsFinal'
<1>a. ASSUME NEW h \in FileHandlers, NEW next, Then(h, next), templates' = templates,
             next.pc \notin {"template", "mirror"}
      PROVE  TemplatesApart' /\ MirrorsFinal'
  BY <1>a, OneGoesOn DEF TemplatesApart, MirrorsFinal
<1>b. ASSUME doing' = doing, templates' = templates PROVE TemplatesApart' /\ MirrorsFinal'
  BY <1>b DEF TemplatesApart, MirrorsFinal
<1>c. Resting.pc = "idle"
  BY DEF Resting
<1>1. ASSUME NEW d \in DocumentIds, RequireDocument(d) \/ \E s \in Reviewed : ReviewDocument(d, s)
      PROVE  TemplatesApart' /\ MirrorsFinal'
  BY <1>1, <1>b DEF RequireDocument, ReviewDocument
<1>2. ASSUME NEW h \in FileHandlers, NEW d \in DocumentIds, NEW c \in Contents,
             NEW named \in BOOLEAN, UploadRead(h, d, c, named)
      PROVE  TemplatesApart' /\ MirrorsFinal'
  BY <1>2, <1>a DEF UploadRead
<1>3. ASSUME NEW h \in FileHandlers, NEW d \in DocumentIds,
             DeleteDocumentRead(h, d) \/ MirrorRequestDocument(h, d)
      PROVE  TemplatesApart' /\ MirrorsFinal'
  BY <1>3, <1>a, <1>c DEF DeleteDocumentRead, MirrorRequestDocument
<1>4. ASSUME NEW h \in FileHandlers, StoreUpload(h) \/ WriteUpload(h)
      PROVE  TemplatesApart' /\ MirrorsFinal'
  <2>1. doing[h] \in UploadWork
    BY <1>4, WorkIs DEF StoreUpload, WriteUpload, Uploading
  <2>2. \A p \in {"write", "undo", "cleanup"} : [doing[h] EXCEPT !.pc = p].pc = p
    BY <2>1 DEF UploadWork
  <2>3. \E next : Then(h, next) /\ next.pc \notin {"template", "mirror"}
    BY <1>4, <1>c, <2>2 DEF StoreUpload, WriteUpload
  <2> QED BY <1>4, <1>a, <2>3 DEF StoreUpload, WriteUpload
<1>5. ASSUME NEW h \in FileHandlers,
             RemoveFile(h) \/ DeleteDocumentFile(h) \/ Interrupted(h)
      PROVE  TemplatesApart' /\ MirrorsFinal'
  BY <1>5, <1>a, <1>c DEF RemoveFile, DeleteDocumentFile, Interrupted
<1>6. ASSUME NEW h \in FileHandlers, DeleteDocumentWrite(h)
      PROVE  TemplatesApart' /\ MirrorsFinal'
  <2>1. doing[h] \in DeletionWork
    BY <1>6, WorkIs DEF DeleteDocumentWrite
  <2>2. [doing[h] EXCEPT !.pc = "unlink"].pc = "unlink"
    BY <2>1 DEF DeletionWork
  <2>3. \E next : Then(h, next) /\ next.pc \notin {"template", "mirror"}
    BY <1>6, <1>c, <2>2 DEF DeleteDocumentWrite
  <2> QED BY <1>6, <1>a, <2>3 DEF DeleteDocumentWrite
<1>7. ASSUME NEW h \in FileHandlers, NEW q \in RequestDocuments,
             NEW s \in {"generated", "signed", "attached"}, BeginRequestDocument(h, q, s)
      PROVE  TemplatesApart' /\ MirrorsFinal'
  BY <1>7, <1>a DEF BeginRequestDocument
<1>8. ASSUME NEW h \in FileHandlers, NEW q \in RequestDocuments, RequestDocumentDeletion(h, q)
      PROVE  TemplatesApart' /\ MirrorsFinal'
  <2>1. doing[h].pc = "detach" => [doing[h] EXCEPT !.pc = "erase"].pc = "erase"
    BY WorkIs DEF AttachWork
  <2>2. \E next : Then(h, next) /\ next.pc \notin {"template", "mirror"}
    <3>1. CASE /\ doing[h].pc = "detach" /\ doing[h].doc = q
               /\ storage' \in {storage, storage \ {<<q, "pdf">>}}
               /\ Then(h, [doing[h] EXCEPT !.pc = "erase"])
      BY <2>1, <3>1
    <3>2. CASE Then(h, Resting)
      BY <1>c, <3>2
    <3>3. CASE Then(h, [pc |-> "detach", doc |-> q, status |-> "attached"])
      BY <3>3
    <3> QED BY <1>8, <3>1, <3>2, <3>3 DEF RequestDocumentDeletion, DeleteRequestDocument
  <2> QED BY <1>8, <1>a, <2>2 DEF RequestDocumentDeletion
<1>9. ASSUME NEW h \in FileHandlers, StoreRequestDocument(h)
      PROVE  TemplatesApart' /\ MirrorsFinal'
  <2>1. [doing[h] EXCEPT !.pc = "enter"].pc = "enter"
    BY <1>9, WorkIs DEF StoreRequestDocument, AttachWork
  <2> QED BY <1>9, <1>a, <2>1 DEF StoreRequestDocument
<1>10. ASSUME NEW h \in FileHandlers, EnterRequestDocument(h)
       PROVE  TemplatesApart' /\ MirrorsFinal'
  <2>1. doing[h] \in AttachWork
    BY <1>10, WorkIs DEF EnterRequestDocument
  <2>2. CASE doing[h].status = "attached"
    BY <1>10, <1>a, <1>c, <2>2 DEF EnterRequestDocument
  <2>3. CASE doing[h].status # "attached"
    <3> DEFINE next == [doing[h] EXCEPT !.pc = "mirror"]
    <3>1. next.pc = "mirror" /\ next.status # "attached"
      BY <2>1, <2>3 DEF AttachWork
    <3>2. Then(h, next) /\ templates' = templates
      BY <1>10, <2>3 DEF EnterRequestDocument
    <3> HIDE DEF next
    <3>3. doing'[h] = next /\ \A g \in FileHandlers : g # h => doing'[g] = doing[g]
      BY <3>2, OneGoesOn
    <3> QED BY <3>1, <3>2, <3>3 DEF TemplatesApart, MirrorsFinal
  <2> QED BY <2>2, <2>3
<1>11. ASSUME NEW h \in FileHandlers, NEW t \in Templates, NEW c \in Contents,
              StoreTemplate(h, t, c)
       PROVE  TemplatesApart' /\ MirrorsFinal'
  <2> DEFINE w == [pc |-> "template", template |-> t, path |-> <<t, c>>]
  <2>1. w.pc = "template" /\ w.path \notin Uploads
    BY PathsApart
  <2>2. Then(h, w) /\ templates' = templates
    BY <1>11 DEF StoreTemplate
  <2> HIDE DEF w
  <2> QED BY <2>1, <2>2, OneGoesOn DEF TemplatesApart, MirrorsFinal
<1>12. ASSUME NEW h \in FileHandlers, NEW t \in Templates, StoreTemplateFails(h, t)
       PROVE  TemplatesApart' /\ MirrorsFinal'
  BY <1>12, <1>b DEF StoreTemplateFails
<1>13. ASSUME NEW h \in FileHandlers, WriteTemplate(h) PROVE TemplatesApart' /\ MirrorsFinal'
  <2>1. doing'[h] = Resting /\ \A g \in FileHandlers : g # h => doing'[g] = doing[g]
    BY <1>13, OneGoesOn DEF WriteTemplate
  <2>2. doing[h].path \notin Uploads
    BY <1>13 DEF WriteTemplate, TemplatesApart
  <2>3. \A t \in Templates : templates'[t] \in {templates[t], doing[h].path}
    BY <1>13 DEF WriteTemplate, StoredFilesTypeOK
  <2> QED BY <1>c, <2>1, <2>2, <2>3 DEF TemplatesApart, MirrorsFinal
<1> QED BY <1>1, <1>2, <1>3, <1>4, <1>5, <1>6, <1>7, <1>8, <1>9, <1>10, <1>11, <1>12, <1>13
        DEF StoredFilesNext, DocumentsNext, TemplatesNext

-------------------------------------------------------------------------------
\* Steps that begin no work on a path: handlers end theirs or go on as they were,
\* rows keep their path, and no file goes that a row or a write relies on.
LEMMA PathsStay ==
  ASSUME FilesInv, UNCHANGED sent,
         \A g \in FileHandlers : doing'[g] = doing[g] \/ doing'[g].pc \notin OnPaths,
         \A d \in Live' :
           \/ workerDocuments'[d].path \notin Uploads
           \/ d \in Live /\ workerDocuments'[d].path = workerDocuments[d].path,
         \A p \in Uploads \cap storage :
           \/ p \in storage'
           \/ /\ \A d \in Live : workerDocuments[d].path # p
              /\ \A g \in FileHandlers : doing'[g].pc = "write" => doing'[g].path # p
  PROVE  (UploadsOnce /\ RowsStored /\ ReadSpent /\ GoingUnused)'
<1> USE DEF FilesInv, PathsInv, OnPaths, Uploading
<1>1. \A p : Spent(p) => Spent(p)'
  BY DEF Spent, InFlight
<1>2. UploadsOnce'
  BY DEF UploadsOnce
<1>3. RowsStored'
  <2> SUFFICES ASSUME NEW d \in Live'
               PROVE  (/\ Spent(workerDocuments[d].path) /\ Own(d, workerDocuments[d].path)
                       /\ workerDocuments[d].path \in Uploads
                            => workerDocuments[d].path \in storage)'
    BY DEF RowsStored
  <2>1. CASE workerDocuments'[d].path \notin Uploads
    BY <2>1 DEF Spent, Own
  <2>2. CASE /\ d \in Live /\ workerDocuments'[d].path = workerDocuments[d].path
             /\ workerDocuments[d].path \in Uploads
    <3>1. Spent(workerDocuments[d].path)'
      BY <1>1, <2>2 DEF RowsStored, Spent, InFlight
    <3>2. workerDocuments[d].path \in storage /\ Own(d, workerDocuments[d].path)
      BY <2>2 DEF RowsStored
    <3> QED BY <2>2, <3>1, <3>2 DEF Own
  <2> QED BY <2>1, <2>2
<1>4. ReadSpent'
  BY <1>1 DEF ReadSpent, Own
<1>5. GoingUnused'
  BY DEF GoingUnused
<1> QED BY <1>2, <1>3, <1>4, <1>5

LEMMA UploadReadKeeps ==
  ASSUME FilesInv, ~Resend, NEW h \in FileHandlers, NEW d \in DocumentIds, NEW c \in Contents,
         NEW named \in BOOLEAN, UploadRead(h, d, c, named)
  PROVE  (UploadsOnce /\ RowsStored /\ ReadSpent /\ GoingUnused)'
<1> USE DEF FilesInv, PathsInv, Uploading
<1> DEFINE p == <<d, c>>
           old == IF d \in Live THEN workerDocuments[d].path ELSE NoPath
           w == [pc |-> "store", doc |-> d, path |-> p, new |-> d \notin Live, old |-> old]
<1>1. /\ Then(h, w) /\ p \notin sent /\ sent' = sent \cup {p}
      /\ UNCHANGED <<workerDocuments, storage>> /\ doing[h] = Resting
  BY DEF UploadRead
<1>2. p \in Uploads /\ p[1] = d
  BY DEF Uploads
<1>3. Spent(old) /\ Own(d, old)
  BY PathsApart DEF RowsStored, Spent, Own
<1>4. w.pc = "store" /\ w.doc = d /\ w.path = p /\ w.old = old
  OBVIOUS
<1> HIDE DEF p, old, w
<1>5. doing'[h] = w /\ \A g \in FileHandlers : g # h => doing'[g] = doing[g]
  BY <1>1, OneGoesOn
<1>6. \A q : Spent(q) => Spent(q)'
  BY <1>1, <1>4, <1>5 DEF Spent, InFlight
<1>7. UploadsOnce'
  BY <1>1, <1>2, <1>4, <1>5 DEF UploadsOnce
<1>8. RowsStored'
  <2>1. ASSUME NEW e \in Live
        PROVE  Spent(workerDocuments[e].path)' /\ Own(e, workerDocuments[e].path)
               /\ (workerDocuments[e].path \in Uploads => workerDocuments[e].path \in storage)
    BY <1>1, <1>6 DEF RowsStored, Spent, InFlight
  <2> QED BY <1>1, <2>1 DEF RowsStored, Live, Own
<1>9. ReadSpent'
  <2>1. ASSUME NEW g \in FileHandlers, g # h
        PROVE  (/\ doing[g].pc \in Uploading \cup {"cleanup"} =>
                     Spent(doing[g].old) /\ Own(doing[g].doc, doing[g].old)
                /\ doing[g].pc \in {"delete", "unlink"} =>
                     Spent(doing[g].path) /\ Own(doing[g].doc, doing[g].path))'
    BY <1>5, <1>6, <2>1 DEF ReadSpent, Own, Spent, InFlight
  <2>2. (/\ doing[h].pc \in Uploading \cup {"cleanup"} =>
              Spent(doing[h].old) /\ Own(doing[h].doc, doing[h].old)
         /\ doing[h].pc \in {"delete", "unlink"} =>
              Spent(doing[h].path) /\ Own(doing[h].doc, doing[h].path))'
    BY <1>3, <1>4, <1>5, <1>6 DEF Own, Spent, InFlight
  <2> QED BY <2>1, <2>2 DEF ReadSpent
<1>10. GoingUnused'
  BY <1>1, <1>4, <1>5 DEF GoingUnused, Live
<1> QED BY <1>7, <1>8, <1>9, <1>10

\* Later steps of an upload, and of a deletion: the handler keeps its path, or rests,
\* and only the row it is about changes.
LEMMA StoreUploadKeeps ==
  ASSUME FilesInv, NEW h \in FileHandlers, StoreUpload(h)
  PROVE  (UploadsOnce /\ RowsStored /\ ReadSpent /\ GoingUnused)'
<1> USE DEF FilesInv, PathsInv, Uploading
<1> DEFINE w == [doing[h] EXCEPT !.pc = "write"]
<1>1. /\ Then(h, w) /\ doing[h].pc = "store" /\ storage' = storage \cup {doing[h].path}
      /\ UNCHANGED <<workerDocuments, sent>>
  BY DEF StoreUpload
<1>2. /\ w.pc = "write" /\ w.doc = doing[h].doc /\ w.path = doing[h].path
      /\ w.old = doing[h].old
  BY <1>1, WorkIs DEF UploadWork
<1> HIDE DEF w
<1>3. doing'[h] = w /\ \A g \in FileHandlers : g # h => doing'[g] = doing[g]
  BY <1>1, OneGoesOn
<1>4. \A q : Spent(q) => Spent(q)'
  BY <1>1, <1>2, <1>3 DEF Spent, InFlight
<1>5. UploadsOnce'
  BY <1>1, <1>2, <1>3 DEF UploadsOnce
<1>6. RowsStored'
  <2>1. ASSUME NEW e \in Live
        PROVE  Spent(workerDocuments[e].path)' /\ Own(e, workerDocuments[e].path)
               /\ (workerDocuments[e].path \in Uploads => workerDocuments[e].path \in storage)
    BY <1>1, <1>4 DEF RowsStored, Spent, InFlight
  <2> QED BY <1>1, <2>1 DEF RowsStored, Live, Own
<1>7. ReadSpent'
  BY <1>1, <1>2, <1>3, <1>4 DEF ReadSpent, Own, Spent, InFlight
<1>8. GoingUnused'
  BY <1>1, <1>2, <1>3 DEF GoingUnused, Live
<1> QED BY <1>5, <1>6, <1>7, <1>8

LEMMA WriteUploadKeeps ==
  ASSUME FilesInv, NEW h \in FileHandlers, WriteUpload(h)
  PROVE  (UploadsOnce /\ RowsStored /\ ReadSpent /\ GoingUnused)'
<1> USE DEF FilesInv, PathsInv, Uploading
<1> DEFINE w == doing[h]
           row == [status |-> "pending", path |-> w.path]
<1>1. w.pc = "write" /\ UNCHANGED <<storage, sent>>
  BY DEF WriteUpload
<1>2. w \in UploadWork /\ w.doc \in DocumentIds
  BY <1>1, WorkIs DEF UploadWork
<1>3. \A pc \in {"undo", "cleanup"} :
        LET next == [w EXCEPT !.pc = pc] IN
        next.pc = pc /\ next.doc = w.doc /\ next.path = w.path /\ next.old = w.old
  BY <1>2 DEF UploadWork
<1>4. w.path \in Uploads /\ w.path[1] = w.doc /\ w.path \in sent /\ w.path \in storage
  BY <1>1 DEF UploadsOnce
<1>5. Spent(w.old) /\ Own(w.doc, w.old)
  BY <1>1 DEF ReadSpent
<1>p. PICK p : p = w.path
  OBVIOUS
<1>6. PICK next :
        /\ Then(h, next)
        /\ \/ /\ \/ next = Resting
                 \/ next = [w EXCEPT !.pc = "cleanup"] /\ w.old # p
              /\ workerDocuments' = [workerDocuments EXCEPT
                   ![w.doc] = IF w.new \/ w.doc \in Live THEN row ELSE @]
           \/ next = [w EXCEPT !.pc = "undo"] /\ UNCHANGED workerDocuments
  <2>1. CASE /\ workerDocuments' = [workerDocuments EXCEPT
                   ![w.doc] = IF w.new \/ w.doc \in Live THEN row ELSE @]
             /\ Then(h, IF w.old \in {NoPath, w.path} THEN Resting ELSE [w EXCEPT !.pc = "cleanup"])
    <3>1. CASE w.old \in {NoPath, w.path}
      BY <2>1, <3>1
    <3>2. CASE w.old \notin {NoPath, w.path}
      BY <1>p, <2>1, <3>2
    <3> QED BY <3>1, <3>2
  <2>2. CASE Then(h, [w EXCEPT !.pc = "undo"]) /\ UNCHANGED workerDocuments
    BY <2>2
  <2> QED BY <2>1, <2>2 DEF WriteUpload
<1>7. \/ next.pc = "idle"
      \/ /\ next.pc \in {"undo", "cleanup"} /\ next.doc = w.doc /\ next.path = p
         /\ next.old = w.old
  <2>1. CASE next = Resting
    BY <2>1 DEF Resting
  <2>2. CASE next \in {[w EXCEPT !.pc = "undo"], [w EXCEPT !.pc = "cleanup"]}
    BY <1>3, <1>p, <2>2
  <2> QED BY <1>6, <2>1, <2>2
<1>8. doing'[h] = next /\ \A g \in FileHandlers : g # h => doing'[g] = doing[g]
  BY <1>6, OneGoesOn
<1>9. \A q : Spent(q) => Spent(q)'
  BY <1>1, <1>p, <1>7, <1>8 DEF Spent, InFlight
<1>10. next.pc # "undo" => ~InFlight(p)'
  <2> SUFFICES ASSUME next.pc # "undo", NEW g \in FileHandlers, doing'[g].pc \in Uploading
               PROVE  doing'[g].path # p
    BY DEF InFlight
  <2>1. g # h /\ doing'[g] = doing[g]
    BY <1>7, <1>8
  <2> QED BY <1>1, <1>p, <2>1 DEF UploadsOnce
<1>11. \A e \in Live' :
         \/ /\ e \in Live /\ workerDocuments'[e] = workerDocuments[e]
            /\ e = w.doc => next.pc = "undo"
         \/ e = w.doc /\ workerDocuments'[e].path = p /\ next.pc # "undo"
  <2>1. CASE UNCHANGED workerDocuments /\ next = [w EXCEPT !.pc = "undo"]
    BY <1>3, <2>1 DEF Live
  <2>2. CASE /\ \/ next = Resting
                \/ next = [w EXCEPT !.pc = "cleanup"] /\ w.old # p
             /\ workerDocuments' = [workerDocuments EXCEPT
                     ![w.doc] = IF w.new \/ w.doc \in Live THEN row ELSE @]
    <3>1. next.pc # "undo"
      <4>1. [w EXCEPT !.pc = "cleanup"].pc = "cleanup"
        BY <1>3
      <4>2. Resting.pc = "idle"
        BY DEF Resting
      <4> QED BY <2>2, <4>1, <4>2
    <3>2. row.path = p
      BY <1>p
    <3> HIDE DEF w, row
    <3>3. \A e \in DocumentIds : e # w.doc => workerDocuments'[e] = workerDocuments[e]
      BY <2>2 DEF StoredFilesTypeOK
    <3>4. workerDocuments'[w.doc] = IF w.new \/ w.doc \in Live THEN row ELSE workerDocuments[w.doc]
      BY <1>2, <2>2 DEF StoredFilesTypeOK
    <3> QED BY <3>1, <3>2, <3>3, <3>4 DEF Live
  <2> QED BY <1>6, <2>1, <2>2
<1>12. next.pc = "cleanup" => w.old # p
  <2>1. [w EXCEPT !.pc = "undo"].pc = "undo"
    BY <1>3
  <2>2. Resting.pc = "idle"
    BY DEF Resting
  <2> QED BY <1>6, <2>1, <2>2
<1> HIDE DEF row
<1>13. UploadsOnce'
  BY <1>1, <1>4, <1>p, <1>7, <1>8 DEF UploadsOnce
<1>14. RowsStored'
  <2>1. ASSUME NEW e \in Live'
        PROVE  (Spent(workerDocuments[e].path) /\ Own(e, workerDocuments[e].path)
                /\ (workerDocuments[e].path \in Uploads => workerDocuments[e].path \in storage))'
    <3>1. CASE e \in Live /\ workerDocuments'[e] = workerDocuments[e]
      <4>1. Spent(workerDocuments[e].path) /\ Own(e, workerDocuments[e].path)
                /\ (workerDocuments[e].path \in Uploads => workerDocuments[e].path \in storage)
        BY <3>1 DEF RowsStored
      <4>2. Spent(workerDocuments[e].path)'
        BY <1>9, <3>1, <4>1 DEF Spent, InFlight
      <4> QED BY <1>1, <3>1, <4>1, <4>2 DEF Own
    <3>2. CASE e = w.doc /\ workerDocuments'[e].path = p /\ next.pc # "undo"
      <4>1. Spent(workerDocuments[e].path)'
        BY <1>1, <1>4, <1>p, <1>10, <3>2 DEF Spent, InFlight
      <4> QED BY <1>1, <1>4, <1>p, <3>2, <4>1 DEF Own
    <3> QED BY <1>11, <3>1, <3>2
  <2> QED BY <2>1 DEF RowsStored
<1>15. ReadSpent'
  BY <1>5, <1>7, <1>8, <1>9 DEF ReadSpent, Own, Spent, InFlight
<1>16. GoingUnused'
  <2> SUFFICES ASSUME NEW g \in FileHandlers, NEW e \in Live'
               PROVE  (/\ doing[g].pc = "cleanup" /\ doing[g].old \in Uploads
                            => workerDocuments[e].path # doing[g].old
                       /\ doing[g].pc = "unlink" /\ doing[g].path \in Uploads
                            => workerDocuments[e].path # doing[g].path)'
    BY DEF GoingUnused
  <2>1. CASE g = h
    <3>1. CASE e = w.doc /\ workerDocuments'[e].path = p /\ next.pc # "undo"
      BY <1>7, <1>8, <1>12, <2>1, <3>1
    <3>2. CASE e \in Live /\ workerDocuments'[e] = workerDocuments[e] /\ e # w.doc
      <4>1. Own(e, workerDocuments[e].path)
        BY <3>2 DEF RowsStored
      <4> QED BY <1>5, <1>7, <1>8, <2>1, <3>2, <4>1 DEF Own
    <3>3. CASE next.pc = "undo"
      BY <1>8, <2>1, <3>3
    <3> QED BY <1>11, <3>1, <3>2, <3>3
  <2>2. CASE g # h
    <3>1. doing'[g] = doing[g]
      BY <1>8, <2>2
    <3>2. CASE e \in Live /\ workerDocuments'[e] = workerDocuments[e]
      BY <3>1, <3>2 DEF GoingUnused
    <3>3. CASE workerDocuments'[e].path = p
      <4>1. \A q \in Uploads : Spent(q) => q # p
        BY <1>1, <1>p DEF Spent, InFlight
      <4> QED BY <3>1, <3>3, <4>1 DEF ReadSpent
    <3> QED BY <1>11, <3>2, <3>3
  <2> QED BY <2>1, <2>2
<1> QED BY <1>13, <1>14, <1>15, <1>16


LEMMA DeletionKeeps ==
  ASSUME FilesInv, NEW h \in FileHandlers,
         DeleteDocumentWrite(h) \/ \E d \in DocumentIds : DeleteDocumentRead(h, d)
  PROVE  (UploadsOnce /\ RowsStored /\ ReadSpent /\ GoingUnused)'
<1> USE DEF FilesInv, PathsInv, Uploading
<1>1. CASE \E d \in DocumentIds : DeleteDocumentRead(h, d)
  <2>1. PICK d \in DocumentIds : DeleteDocumentRead(h, d)
    BY <1>1
  <2> DEFINE w == [pc |-> "delete", doc |-> d, path |-> workerDocuments[d].path]
  <2>2. Then(h, w) /\ d \in Live /\ doing[h] = Resting
        /\ UNCHANGED <<workerDocuments, storage, sent>>
    BY <2>1 DEF DeleteDocumentRead
  <2>3. w.pc = "delete" /\ w.doc = d /\ Spent(w.path) /\ Own(d, w.path)
    BY <2>2 DEF RowsStored
  <2> HIDE DEF w
  <2>4. doing'[h] = w /\ \A g \in FileHandlers : g # h => doing'[g] = doing[g]
    BY <2>2, OneGoesOn
  <2>5. \A q : Spent(q) => Spent(q)'
    BY <2>2, <2>3, <2>4 DEF Spent, InFlight
  <2>6. UploadsOnce'
    BY <2>2, <2>3, <2>4 DEF UploadsOnce
  <2>7. RowsStored'
    <3>1. ASSUME NEW e \in Live
          PROVE  Spent(workerDocuments[e].path)' /\ Own(e, workerDocuments[e].path)
                 /\ (workerDocuments[e].path \in Uploads => workerDocuments[e].path \in storage)
      BY <2>2, <2>5 DEF RowsStored, Spent, InFlight
    <3> QED BY <2>2, <3>1 DEF RowsStored, Live, Own
  <2>8. ReadSpent'
    BY <2>2, <2>3, <2>4, <2>5 DEF ReadSpent, Own, Spent, InFlight
  <2>9. GoingUnused'
    BY <2>2, <2>3, <2>4 DEF GoingUnused, Live
  <2> QED BY <2>6, <2>7, <2>8, <2>9
<1>2. CASE DeleteDocumentWrite(h)
  <2> DEFINE w == doing[h]
  <2>1. w.pc = "delete" /\ UNCHANGED <<storage, sent>>
        /\ workerDocuments' = [workerDocuments EXCEPT ![w.doc] = NoDocument]
    BY <1>2 DEF DeleteDocumentWrite
  <2>2. [w EXCEPT !.pc = "unlink"].pc = "unlink" /\ [w EXCEPT !.pc = "unlink"].doc = w.doc
        /\ [w EXCEPT !.pc = "unlink"].path = w.path
    BY <2>1, WorkIs DEF DeletionWork
  <2>3. w.doc \in DocumentIds
    BY <2>1, WorkIs DEF DeletionWork
  <2>4. PICK next : /\ Then(h, next)
                    /\ next = Resting \/ next = [w EXCEPT !.pc = "unlink"]
    BY <1>2 DEF DeleteDocumentWrite
  <2>5. \/ next.pc = "idle"
        \/ next.pc = "unlink" /\ next.doc = w.doc /\ next.path = w.path
    <3>1. Resting.pc = "idle"
      BY DEF Resting
    <3> QED BY <2>2, <2>4, <3>1
  <2>6. Spent(w.path) /\ Own(w.doc, w.path)
    BY <2>1 DEF ReadSpent
  <2>7. doing'[h] = next /\ \A g \in FileHandlers : g # h => doing'[g] = doing[g]
    BY <2>4, OneGoesOn
  <2>8. \A e \in Live' : e \in Live /\ e # w.doc /\ workerDocuments'[e] = workerDocuments[e]
    BY <2>1, <2>3 DEF Live, StoredFilesTypeOK
  <2>9. \A q : Spent(q) => Spent(q)'
    BY <2>1, <2>5, <2>7 DEF Spent, InFlight
  <2>10. UploadsOnce'
    BY <2>1, <2>5, <2>7 DEF UploadsOnce
  <2>11. RowsStored'
    <3>1. ASSUME NEW e \in Live'
          PROVE  (Spent(workerDocuments[e].path) /\ Own(e, workerDocuments[e].path)
                  /\ (workerDocuments[e].path \in Uploads => workerDocuments[e].path \in storage))'
      <4>1. Spent(workerDocuments[e].path) /\ Own(e, workerDocuments[e].path)
                /\ (workerDocuments[e].path \in Uploads => workerDocuments[e].path \in storage)
        BY <2>8 DEF RowsStored
      <4>2. Spent(workerDocuments[e].path)'
        BY <2>8, <2>9, <4>1 DEF Spent, InFlight
      <4> QED BY <2>1, <2>8, <4>1, <4>2 DEF Own
    <3> QED BY <3>1 DEF RowsStored
  <2>12. ReadSpent'
    BY <2>5, <2>6, <2>7, <2>9 DEF ReadSpent, Own, Spent, InFlight
  <2>13. GoingUnused'
    <3>1. \A e \in Live' : w.path \in Uploads => workerDocuments[e].path # w.path
      BY <2>6, <2>8 DEF RowsStored, Own
    <3> QED BY <2>5, <2>7, <2>8, <3>1 DEF GoingUnused
  <2> QED BY <2>10, <2>11, <2>12, <2>13
<1> QED BY <1>1, <1>2

\* A file is removed when it is of no row and of no write under way.
LEMMA RemovalKeeps ==
  ASSUME FilesInv, NEW h \in FileHandlers, RemoveFile(h) \/ DeleteDocumentFile(h)
  PROVE  (UploadsOnce /\ RowsStored /\ ReadSpent /\ GoingUnused)'
<1> USE DEF FilesInv, PathsInv, Uploading
<1>1. UNCHANGED <<workerDocuments, sent>> /\ Then(h, Resting)
  BY DEF RemoveFile, DeleteDocumentFile
<1>2. doing'[h] = Resting /\ \A g \in FileHandlers : g # h => doing'[g] = doing[g]
  BY <1>1, OneGoesOn
<1>3. PICK gone : /\ storage' = storage \ {gone}
                  /\ \/ doing[h].pc = "undo" /\ gone = doing[h].path
                     \/ doing[h].pc = "cleanup" /\ gone = doing[h].old
                     \/ doing[h].pc = "unlink" /\ gone = doing[h].path
  BY DEF RemoveFile, DeleteDocumentFile
<1>4. gone \in Uploads => \A d \in Live : workerDocuments[d].path # gone
  <2>1. CASE doing[h].pc = "undo" /\ gone = doing[h].path
    BY <2>1 DEF RowsStored, Spent, InFlight
  <2>2. CASE doing[h].pc = "cleanup" /\ gone = doing[h].old
    BY <2>2 DEF GoingUnused
  <2>3. CASE doing[h].pc = "unlink" /\ gone = doing[h].path
    BY <2>3 DEF GoingUnused
  <2> QED BY <1>3, <2>1, <2>2, <2>3
<1>5. gone \in Uploads =>
        \A g \in FileHandlers : doing'[g].pc = "write" => doing'[g].path # gone
  <2> SUFFICES ASSUME gone \in Uploads, NEW g \in FileHandlers, doing'[g].pc = "write"
               PROVE  doing'[g].path # gone
    OBVIOUS
  <2>1. g # h /\ doing'[g] = doing[g]
    BY <1>2 DEF Resting
  <2>2. CASE doing[h].pc = "undo" /\ gone = doing[h].path
    BY <2>1, <2>2 DEF UploadsOnce
  <2>3. CASE doing[h].pc = "cleanup" /\ gone = doing[h].old
    BY <2>1, <2>3 DEF ReadSpent, Spent, InFlight
  <2>4. CASE doing[h].pc = "unlink" /\ gone = doing[h].path
    BY <2>1, <2>4 DEF ReadSpent, Spent, InFlight
  <2> QED BY <1>3, <2>2, <2>3, <2>4
<1>6. \A g \in FileHandlers : doing'[g] = doing[g] \/ doing'[g].pc \notin OnPaths
  BY <1>2 DEF OnPaths, Resting
<1>7. \A d \in Live' : d \in Live /\ workerDocuments'[d].path = workerDocuments[d].path
  BY <1>1 DEF Live
<1>8. \A p \in Uploads \cap storage :
        \/ p \in storage'
        \/ /\ \A d \in Live : workerDocuments[d].path # p
           /\ \A g \in FileHandlers : doing'[g].pc = "write" => doing'[g].path # p
  BY <1>3, <1>4, <1>5
<1> QED BY <1>1, <1>6, <1>7, <1>8, PathsStay

LEMMA PathsKept ==
  ASSUME FilesInv, ~Resend, StoredFilesNext
  PROVE  (UploadsOnce /\ RowsStored /\ ReadSpent /\ GoingUnused)'
<1> USE DEF FilesInv, PathsInv
<1>a. ASSUME UNCHANGED sent,
             \/ UNCHANGED doing
             \/ \E h \in FileHandlers : \E next : Then(h, next) /\ next.pc \notin OnPaths,
             \A d \in Live' :
               \/ workerDocuments'[d].path \notin Uploads
               \/ d \in Live /\ workerDocuments'[d].path = workerDocuments[d].path,
             \A p \in Uploads \cap storage : p \in storage'
      PROVE  (UploadsOnce /\ RowsStored /\ ReadSpent /\ GoingUnused)'
  <2>1. \A g \in FileHandlers : doing'[g] = doing[g] \/ doing'[g].pc \notin OnPaths
    BY <1>a, OneGoesOn
  <2> QED BY <1>a, <2>1, PathsStay
<1>b. UNCHANGED workerDocuments =>
        \A d \in Live' : d \in Live /\ workerDocuments'[d].path = workerDocuments[d].path
  BY DEF Live
<1>c. Resting.pc \notin OnPaths
  BY DEF Resting, OnPaths
<1>1. ASSUME NEW d \in DocumentIds, RequireDocument(d)
      PROVE  (UploadsOnce /\ RowsStored /\ ReadSpent /\ GoingUnused)'
  <2>1. \A e \in Live' :
          \/ workerDocuments'[e].path \notin Uploads
          \/ e \in Live /\ workerDocuments'[e].path = workerDocuments[e].path
    BY <1>1, PathsApart DEF RequireDocument, Live, StoredFilesTypeOK
  <2> QED BY <1>1, <1>a, <2>1 DEF RequireDocument
<1>2. ASSUME NEW d \in DocumentIds, NEW s \in Reviewed, ReviewDocument(d, s)
      PROVE  (UploadsOnce /\ RowsStored /\ ReadSpent /\ GoingUnused)'
  <2>1. [workerDocuments[d] EXCEPT !.status = s].path = workerDocuments[d].path
    BY <1>2, RowsTyped DEF ReviewDocument, DocumentRows
  <2>2. \A e \in Live' : e \in Live /\ workerDocuments'[e].path = workerDocuments[e].path
    BY <1>2, <2>1 DEF ReviewDocument, Live, StoredFilesTypeOK
  <2> QED BY <1>2, <1>a, <2>2 DEF ReviewDocument
<1>3. ASSUME NEW h \in FileHandlers, NEW d \in DocumentIds, MirrorRequestDocument(h, d)
      PROVE  (UploadsOnce /\ RowsStored /\ ReadSpent /\ GoingUnused)'
  <2>1. <<doing[h].doc, "pdf">> \notin Uploads
    BY <1>3, WorkIs, PathsApart DEF MirrorRequestDocument, AttachWork
  <2>2. \A e \in Live' :
          \/ workerDocuments'[e].path \notin Uploads
          \/ e \in Live /\ workerDocuments'[e].path = workerDocuments[e].path
    BY <1>3, <2>1 DEF MirrorRequestDocument, Live, StoredFilesTypeOK
  <2> QED BY <1>3, <1>a, <1>c, <2>2 DEF MirrorRequestDocument
<1>4. ASSUME NEW h \in FileHandlers, NEW q \in RequestDocuments,
             NEW s \in {"generated", "signed", "attached"}, BeginRequestDocument(h, q, s)
      PROVE  (UploadsOnce /\ RowsStored /\ ReadSpent /\ GoingUnused)'
  <2>1. [pc |-> "attach", doc |-> q, status |-> s].pc \notin OnPaths
    BY DEF OnPaths
  <2> QED BY <1>4, <1>a, <1>b, <2>1 DEF BeginRequestDocument
<1>5. ASSUME NEW h \in FileHandlers, StoreRequestDocument(h) \/ EnterRequestDocument(h)
      PROVE  (UploadsOnce /\ RowsStored /\ ReadSpent /\ GoingUnused)'
  <2>1. doing[h] \in AttachWork
    BY <1>5, WorkIs DEF StoreRequestDocument, EnterRequestDocument
  <2>2. [doing[h] EXCEPT !.pc = "enter"].pc \notin OnPaths
        /\ [doing[h] EXCEPT !.pc = "mirror"].pc \notin OnPaths
    BY <2>1 DEF AttachWork, OnPaths
  <2>3. \E next : Then(h, next) /\ next.pc \notin OnPaths
    <3>1. CASE doing[h].status = "attached"
      BY <1>5, <1>c, <2>2, <3>1 DEF StoreRequestDocument, EnterRequestDocument
    <3>2. CASE doing[h].status # "attached"
      BY <1>5, <2>2, <3>2 DEF StoreRequestDocument, EnterRequestDocument
    <3> QED BY <3>1, <3>2
  <2>4. UNCHANGED <<workerDocuments, sent>> /\ storage \subseteq storage'
    BY <1>5 DEF StoreRequestDocument, EnterRequestDocument
  <2> QED BY <1>a, <1>b, <2>3, <2>4
<1>6. ASSUME NEW h \in FileHandlers, NEW q \in RequestDocuments, RequestDocumentDeletion(h, q)
      PROVE  (UploadsOnce /\ RowsStored /\ ReadSpent /\ GoingUnused)'
  <2>1. doing[h].pc = "detach" => [doing[h] EXCEPT !.pc = "erase"].pc \notin OnPaths
    BY WorkIs DEF AttachWork, OnPaths
  <2>2. \E next : Then(h, next) /\ next.pc \notin OnPaths
    <3>1. CASE doing[h].pc = "detach" /\ Then(h, [doing[h] EXCEPT !.pc = "erase"])
      BY <2>1, <3>1
    <3>2. CASE Then(h, Resting)
      BY <1>c, <3>2
    <3>3. CASE Then(h, [pc |-> "detach", doc |-> q, status |-> "attached"])
      BY <3>3 DEF OnPaths
    <3> QED BY <1>6, <3>1, <3>2, <3>3 DEF RequestDocumentDeletion, DeleteRequestDocument
  <2>3. storage' \in {storage, storage \ {<<q, "pdf">>}}
    BY <1>6 DEF RequestDocumentDeletion, DeleteRequestDocument
  <2>4. \A p \in Uploads \cap storage : p \in storage'
    BY <2>3, PathsApart
  <2>5. UNCHANGED <<workerDocuments, sent>>
    BY <1>6 DEF RequestDocumentDeletion
  <2> QED BY <1>a, <1>b, <2>2, <2>4, <2>5
<1>7. ASSUME NEW h \in FileHandlers, NEW t \in Templates, NEW c \in Contents,
             StoreTemplate(h, t, c)
      PROVE  (UploadsOnce /\ RowsStored /\ ReadSpent /\ GoingUnused)'
  <2>1. [pc |-> "template", template |-> t, path |-> <<t, c>>].pc \notin OnPaths
    BY DEF OnPaths
  <2>2. \A p \in Uploads \cap storage : p \in storage'
    BY <1>7 DEF StoreTemplate, TemplatesApart
  <2> QED BY <1>7, <1>a, <1>b, <2>1, <2>2 DEF StoreTemplate
<1>8. ASSUME NEW h \in FileHandlers, NEW t \in Templates, StoreTemplateFails(h, t)
      PROVE  (UploadsOnce /\ RowsStored /\ ReadSpent /\ GoingUnused)'
  <2>1. \A p \in Uploads \cap storage : p \in storage'
    BY <1>8 DEF StoreTemplateFails, TemplatesApart
  <2> QED BY <1>8, <1>a, <1>b, <2>1 DEF StoreTemplateFails
<1>9. ASSUME NEW h \in FileHandlers, WriteTemplate(h) \/ Interrupted(h)
      PROVE  (UploadsOnce /\ RowsStored /\ ReadSpent /\ GoingUnused)'
  <2>1. Then(h, Resting) /\ UNCHANGED <<workerDocuments, sent, storage>>
    BY <1>9 DEF WriteTemplate, Interrupted
  <2> QED BY <1>a, <1>b, <1>c, <2>1
<1> QED BY <1>1, <1>2, <1>3, <1>4, <1>5, <1>6, <1>7, <1>8, <1>9, UploadReadKeeps,
           StoreUploadKeeps, WriteUploadKeeps, DeletionKeeps, RemovalKeeps
        DEF StoredFilesNext, DocumentsNext, TemplatesNext

LEMMA FilesBegin == StoredFilesInit => FilesInv
<1> SUFFICES ASSUME StoredFilesInit PROVE FilesInv
  OBVIOUS
<1>1. StoredFilesTypeOK
  BY DEF StoredFilesInit, StoredFilesTypeOK, FileWork
<1>2. Live = {} /\ \A h \in FileHandlers : doing[h].pc = "idle"
  BY DEF StoredFilesInit, Live, Resting
<1>3. UploadsOnce /\ RowsStored /\ ReadSpent /\ GoingUnused /\ MirrorsFinal
  BY <1>2 DEF UploadsOnce, RowsStored, ReadSpent, GoingUnused, MirrorsFinal, Uploading
<1>4. TemplatesApart
  BY <1>2, PathsApart DEF StoredFilesInit, TemplatesApart
<1> QED BY <1>1, <1>3, <1>4 DEF FilesInv, PathsInv

LEMMA FilesKept == ~Resend /\ FilesInv /\ [StoredFilesNext]_filesVars => FilesInv'
<1> SUFFICES ASSUME ~Resend, FilesInv, [StoredFilesNext]_filesVars PROVE FilesInv'
  OBVIOUS
<1>1. CASE StoredFilesNext
  BY <1>1, FilesTyped, PathsKept, ApartKept DEF FilesInv, PathsInv
<1>2. CASE UNCHANGED filesVars
  <2>1. StoredFilesTypeOK'
    BY <1>2 DEF filesVars, FilesInv, StoredFilesTypeOK
  <2>2. (UploadsOnce /\ RowsStored /\ ReadSpent)'
    BY <1>2 DEF filesVars, FilesInv, PathsInv, UploadsOnce, RowsStored, ReadSpent, Spent, InFlight,
       Own, Live
  <2>3. (GoingUnused /\ TemplatesApart /\ MirrorsFinal)'
    BY <1>2 DEF filesVars, FilesInv, PathsInv, GoingUnused, TemplatesApart, MirrorsFinal, Live
  <2> QED BY <2>1, <2>2, <2>3 DEF FilesInv, PathsInv
<1> QED BY <1>1, <1>2

\* Every document that was uploaded and not deleted has its file, whichever uploads,
\* replacements and deletions run beside one another and whichever step fails
\* (uploadDocument, deleteDocument), as long as no content is sent again.
THEOREM FilesBehindDocuments ==
  ASSUME ~Resend
  PROVE  StoredFilesInit /\ [][StoredFilesNext]_filesVars => []FileBehindDocument
<1>1. FilesInv => FileBehindDocument
  BY DEF FilesInv, PathsInv, RowsStored, FileBehindDocument, Uploads
<1>2. FilesInv /\ [StoredFilesNext]_filesVars => FilesInv'
  BY FilesKept
<1> QED BY <1>1, <1>2, FilesBegin, PTL

-------------------------------------------------------------------------------
(***************************************************************************)
(* The components side by side, as MCWorkforce composes them.              *)
(***************************************************************************)

\* What the types of stored files need, with contents sent again or not.
FileTypesInv == StoredFilesTypeOK /\ TemplatesApart /\ MirrorsFinal

LEMMA FileTypesKept == FileTypesInv /\ [StoredFilesNext]_filesVars => FileTypesInv'
<1> SUFFICES ASSUME FileTypesInv, [StoredFilesNext]_filesVars PROVE FileTypesInv'
  OBVIOUS
<1>1. CASE StoredFilesNext
  BY <1>1, FilesTyped, ApartKept DEF FileTypesInv
<1>2. CASE UNCHANGED filesVars
  BY <1>2 DEF filesVars, FileTypesInv, StoredFilesTypeOK, TemplatesApart, MirrorsFinal
<1> QED BY <1>1, <1>2

\* Outside the part of the profiles nothing is asked, so what was asked is shown.
Unasked == part # "profiles" => asked = [u \in UserIds |-> NothingAsked]

LEMMA UnaskedInColumns ==
  ASSUME asked' = [u \in UserIds |-> NothingAsked]
  PROVE  AskedInColumns'
BY DEF AskedInColumns, InColumns, NothingAsked

\* A step of the whole is one of one component, and the others stay.
LEMMA OneComponentMoves ==
  ASSUME [Next]_allVars
  PROVE  /\ [DevicesNext]_devicesVars /\ [PlacementNext]_placementVars
         /\ [ContractsNext]_contractsVars /\ [StoredFilesNext]_filesVars /\ [RolesNext]_rolesVars
BY DEF Next, allVars, StoredFilesNext

LEMMA PeopleMove ==
  ASSUME [Next]_allVars
  PROVE  /\ part' = part
         /\ \/ part = "profiles" /\ [ProfilesNext]_profilesVars
            \/ /\ part # "profiles"
               /\ [WorkforceNext]_workforceVars /\ UNCHANGED <<ofUser, ofWorker, asked, edits>>
BY DEF Next, allVars, profilesVars

LEMMA PeopleBegin == Init => ProfilesInv /\ Unasked
BY ProfilesBegin DEF Init, Unasked, ProfilesInit

LEMMA PeopleKept == ProfilesInv /\ Unasked /\ [Next]_allVars => ProfilesInv' /\ Unasked'
<1> SUFFICES ASSUME ProfilesInv, Unasked, [Next]_allVars PROVE ProfilesInv' /\ Unasked'
  OBVIOUS
<1>1. CASE part = "profiles" /\ [ProfilesNext]_profilesVars
  BY <1>1, ProfilesKept, PeopleMove DEF Unasked
<1>2. CASE /\ part # "profiles"
           /\ [WorkforceNext]_workforceVars /\ UNCHANGED <<ofUser, ofWorker, asked, edits>>
  <2>1. asked' = [u \in UserIds |-> NothingAsked]
    BY <1>2 DEF Unasked
  <2>2. WorkforceInv' /\ ProfilesTypeOK'
    BY <1>2, WorkforceKept DEF ProfilesInv, ProfilesTypeOK
  <2> QED BY <2>1, <2>2, UnaskedInColumns DEF ProfilesInv, Unasked
<1> QED BY <1>1, <1>2, PeopleMove

\* Roles begin with the one of the seed, or not at all.
LEMMA NoRolesHeld == NoRoles => RolesInv
BY RolesAssumption DEF NoRoles, RolesInv, RolesTypeOK, HeldByLevel, Exists

LEMMA ComponentsBegin ==
  Init => /\ DevicesInv /\ PlacementInv /\ ContractsInv /\ FileTypesInv /\ FilesInv /\ RolesInv
BY DevicesBegin, PlacementBegins, ContractsBegin, FilesBegin, RolesBegin, NoRolesHeld
   DEF Init, FilesInv, PathsInv, FileTypesInv

\* Each component of the staff keeps its types, side by side with the others.
THEOREM StaffTyped == Spec => []TypeOK
<1> DEFINE Inv == /\ DevicesInv /\ PlacementInv /\ ContractsInv /\ FileTypesInv /\ RolesInv
                  /\ ProfilesInv /\ Unasked
<1>1. Init => Inv
  BY ComponentsBegin, PeopleBegin
<1>2. Inv /\ [Next]_allVars => Inv'
  BY OneComponentMoves, DevicesKept, PlacementKept, ContractsKept, FileTypesKept, RolesKept,
     PeopleKept
<1>3. Inv => TypeOK
  BY DEF TypeOK, DevicesInv, PlacementInv, ContractsInv, FileTypesInv, RolesInv, ProfilesInv,
     WorkforceInv
<1> QED BY <1>1, <1>2, <1>3, PTL DEF Spec

\* Whichever component moves, the others' promises stand: the limit of devices, the
\* crews and places, the codes of the PDFs, the screens, the files and the grants, all
\* under the specification the run checks.
THEOREM StaffStands ==
  ASSUME ~Resend
  PROVE  Spec => /\ [](MonthlyLimit /\ MembersPlaced /\ PdfShowsCode)
                 /\ [](ScreensAgree /\ FileBehindDocument /\ ScreenKeepsGrants)
                 /\ ReassignedWorksThere /\ MovedByAuthority
<1>1. Init => /\ DevicesInit /\ PlacementInit /\ ContractsInit /\ StoredFilesInit
              /\ RolesInv /\ ProfilesInv /\ Unasked
  BY ComponentsBegin, PeopleBegin DEF Init
<1>2. [Next]_allVars => /\ [DevicesNext]_devicesVars /\ [PlacementNext]_placementVars
                        /\ [ContractsNext]_contractsVars /\ [StoredFilesNext]_filesVars
                        /\ [RolesNext]_rolesVars
  BY OneComponentMoves
<1>3. Spec => /\ DevicesInit /\ [][DevicesNext]_devicesVars
              /\ PlacementInit /\ [][PlacementNext]_placementVars
              /\ ContractsInit /\ [][ContractsNext]_contractsVars
              /\ StoredFilesInit /\ [][StoredFilesNext]_filesVars
  BY <1>1, <1>2, PTL DEF Spec
<1>4. Spec => []ScreensAgree
  BY <1>1, PeopleKept, ScreensTell, PTL DEF Spec
<1>5. Spec => []ScreenKeepsGrants
  BY <1>1, <1>2, RolesKept, LevelsRestored, PTL DEF Spec
<1> QED BY <1>3, <1>4, <1>5, DevicesKeepLimit, MembersArePlaced, PdfsShowTheirCode,
           FilesBehindDocuments, ReassignedAreThere, MovedOnlyByAuthority, PTL

===============================================================================
