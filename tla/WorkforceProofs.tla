---------------------------- MODULE WorkforceProofs ----------------------------
(***************************************************************************)
(* What the screens show of workers, users and roles, for any number of    *)
(* rows, texts, modules and permissions.                                   *)
(***************************************************************************)
EXTENDS OnboardingForms, Roles, TLAPS

(***************************************************************************)
(* Workers and users, and what the screens show of them.                   *)
(***************************************************************************)

\* No two workers, deleted or not, name the same user.
UsersApart ==
  \A w, v \in WorkerIds :
    w # v /\ workers[w] # NoRow /\ workers[v] # NoRow /\ workers[w].user # NoRow
      => workers[w].user # workers[v].user

\* A user that a worker names was made.
NamedUserMade ==
  \A w \in WorkerIds :
    workers[w] # NoRow /\ workers[w].user # NoRow => users[workers[w].user] # NoRow

\* A worker that a user names, deleted or not, names the user.
NamesBack ==
  \A u \in UserIds : HasUser(u) /\ users[u].worker # NoRow =>
    workers[users[u].worker] # NoRow /\ workers[users[u].worker].user = u

WorkforceInv == WorkforceTypeOK /\ UsersApart /\ NamedUserMade /\ NamesBack

LEMMA NobodyIsNoRow == \A w \in WorkerIds \cup UserIds : w # NoRow
BY WorkforceAssumption

LEMMA RowOf ==
  ASSUME WorkforceTypeOK
  PROVE  /\ \A w \in WorkerIds : workers[w] # NoRow => workers[w] \in WorkerRows
         /\ \A u \in UserIds : users[u] # NoRow => users[u] \in UserRows
BY DEF WorkforceTypeOK

\* What a step does to the rows, whichever it is.
LEMMA WorkersSet ==
  ASSUME WorkforceTypeOK, NEW w \in WorkerIds, NEW row \in WorkerRows,
         workers' = [workers EXCEPT ![w] = row]
  PROVE  /\ workers' \in [WorkerIds -> {NoRow} \cup WorkerRows]
         /\ workers'[w] = row
         /\ \A v \in WorkerIds : v # w => workers'[v] = workers[v]
BY DEF WorkforceTypeOK

LEMMA UsersSet ==
  ASSUME WorkforceTypeOK, NEW u \in UserIds, NEW row \in UserRows,
         users' = [users EXCEPT ![u] = row]
  PROVE  /\ users' \in [UserIds -> {NoRow} \cup UserRows]
         /\ users'[u] = row
         /\ \A v \in UserIds : v # u => users'[v] = users[v]
BY DEF WorkforceTypeOK

LEMMA NewRows ==
  /\ \A u \in UserIds \cup {NoRow}, d \in Documents, n \in {0, 1} :
       /\ NewWorker(u, d, n) \in WorkerRows /\ NewWorker(u, d, n).user = u
       /\ ~NewWorker(u, d, n).deleted
  /\ \A w \in WorkerIds \cup {NoRow} :
       /\ NewUser(w) \in UserRows /\ NewUser(w).worker = w /\ ~NewUser(w).deleted
<1>1. {0, 1} \subseteq 0 .. MaxContracts
  BY WorkforceAssumption
<1> QED BY <1>1 DEF NewWorker, WorkerRows, NewUser, UserRows

\* No row of a worker is a row of nobody.
LEMMA RowIsARow ==
  ASSUME WorkforceTypeOK
  PROVE  /\ \A w \in WorkerIds : HasWorker(w) => workers[w] \in WorkerRows
         /\ \A u \in UserIds : HasUser(u) => users[u] \in UserRows
BY RowOf DEF HasWorker, HasUser

LEMMA RowsAreRows ==
  /\ \A row \in WorkerRows : row # NoRow /\ row.user \in UserIds \cup {NoRow}
  /\ \A row \in UserRows : row # NoRow /\ row.worker \in WorkerIds \cup {NoRow}
BY WorkforceAssumption DEF WorkerRows, UserRows

LEMMA WorkforceBegins == WorkforceInit => WorkforceInv
BY DEF WorkforceInit, WorkforceInv, WorkforceTypeOK, UsersApart, NamedUserMade, NamesBack, HasUser

-------------------------------------------------------------------------------
\* No other worker names the user that the row names.
NamedByNone(w, row) ==
  \A v \in WorkerIds \ {w} :
    workers[v] # NoRow /\ row.user # NoRow => workers[v].user # row.user

\* In the next state the user that the row names is there, and a user that names the
\* worker is that one.
UsersFollow(w, row) ==
  /\ users' \in [UserIds -> {NoRow} \cup UserRows]
  /\ \A x \in UserIds : users[x] # NoRow => users'[x] # NoRow
  /\ row.user # NoRow => users'[row.user] # NoRow
  /\ \A x \in UserIds : HasUser(x)' =>
       \/ /\ HasUser(x) /\ users'[x].worker = users[x].worker
          /\ users[x].worker = w => row.user = x
       \/ users'[x].worker = w /\ row.user = x
       \/ users'[x].worker = NoRow

\* A row of a worker is written: nobody else names its user, which is there, and the
\* users that name the worker are that one.
LEMMA RowWritten ==
  ASSUME WorkforceInv, NEW w \in WorkerIds, NEW row \in WorkerRows,
         workers' = [workers EXCEPT ![w] = row],
         NamedByNone(w, row), UsersFollow(w, row)
  PROVE  WorkforceInv'
<1> USE DEF WorkforceInv, NamedByNone, UsersFollow
<1>1. /\ workers' \in [WorkerIds -> {NoRow} \cup WorkerRows]
      /\ workers'[w] = row /\ row # NoRow
      /\ \A v \in WorkerIds : v # w => workers'[v] = workers[v]
  BY RowsAreRows, WorkersSet
<1>2. UsersApart'
  BY <1>1 DEF UsersApart
<1>3. NamedUserMade'
  <2> SUFFICES ASSUME NEW v \in WorkerIds, workers'[v] # NoRow, workers'[v].user # NoRow
               PROVE  users'[workers'[v].user] # NoRow
    BY DEF NamedUserMade
  <2>1. CASE v = w
    BY <1>1, <2>1
  <2>2. CASE v # w
    <3>1. workers[v].user \in UserIds /\ users[workers[v].user] # NoRow
      BY <1>1, <2>2, RowOf, RowsAreRows DEF NamedUserMade
    <3> QED BY <1>1, <2>2, <3>1
  <2> QED BY <2>1, <2>2
<1>4. NamesBack'
  <2> SUFFICES ASSUME NEW x \in UserIds, HasUser(x)', users'[x].worker # NoRow
               PROVE  workers'[users'[x].worker] # NoRow
                      /\ workers'[users'[x].worker].user = x
    BY DEF NamesBack
  <2>1. CASE /\ HasUser(x) /\ users'[x].worker = users[x].worker
             /\ users[x].worker = w => row.user = x
    <3>1. workers[users[x].worker] # NoRow /\ workers[users[x].worker].user = x
      BY <2>1 DEF NamesBack
    <3>2. users[x].worker \in WorkerIds
      BY <2>1, RowIsARow, RowsAreRows
    <3> QED BY <1>1, <2>1, <3>1, <3>2
  <2>2. CASE users'[x].worker = w /\ row.user = x
    BY <1>1, <2>2
  <2> QED BY <2>1, <2>2
<1> QED BY <1>1, <1>2, <1>3, <1>4 DEF WorkforceTypeOK

\* Whom a worker is found by.
LEMMA LinkedUserIs ==
  ASSUME NEW w \in WorkerIds, NEW u \in UserIds, HasUser(u),
         IF workers[w].user # NoRow THEN u = workers[w].user ELSE users[u].worker = w
  PROVE  /\ LinkedUser(w) \in UserIds /\ HasUser(LinkedUser(w))
         /\ workers[w].user # NoRow => LinkedUser(w) = u
<1> DEFINE named == {v \in UserIds : HasUser(v) /\
              IF workers[w].user # NoRow THEN v = workers[w].user ELSE users[v].worker = w}
<1>1. u \in named
  OBVIOUS
<1>2. LinkedUser(w) = CHOOSE v \in named : TRUE
  BY <1>1 DEF LinkedUser
<1>3. LinkedUser(w) \in named
  BY <1>1, <1>2
<1> QED BY <1>3

LEMMA OneLinked ==
  ASSUME NEW w \in WorkerIds
  PROVE  /\ LinkedUser(w) # NoRow =>
              /\ LinkedUser(w) \in UserIds /\ HasUser(LinkedUser(w))
              /\ IF workers[w].user # NoRow THEN LinkedUser(w) = workers[w].user
                 ELSE users[LinkedUser(w)].worker = w
<1> DEFINE named == {v \in UserIds : HasUser(v) /\
              IF workers[w].user # NoRow THEN v = workers[w].user ELSE users[v].worker = w}
<1>1. LinkedUser(w) = IF named = {} THEN NoRow ELSE CHOOSE v \in named : TRUE
  BY DEF LinkedUser
<1>2. named # {} => (CHOOSE v \in named : TRUE) \in named
  OBVIOUS
<1>3. LinkedUser(w) # NoRow => LinkedUser(w) \in named
  BY <1>1, <1>2
<1> QED BY <1>3

\* A new row of a worker, which names nobody else's user, and that user.
LEMMA NewWorkerKeeps ==
  ASSUME WorkforceInv, NEW w \in WorkerIds, NEW u \in UserIds \cup {NoRow}, NEW d \in Documents,
         NEW n \in {0, 1}, NEW named \in {NoRow, w},
         workers[w] = NoRow, workers' = [workers EXCEPT ![w] = NewWorker(u, d, n)],
         \/ u = NoRow /\ users' = users
         \/ /\ u \in UserIds /\ users[u] = NoRow
            /\ users' = [users EXCEPT ![u] = NewUser(named)]
         \/ /\ u \in UserIds /\ users' = users /\ HasUser(u) /\ UserFree(u, NoRow)
            /\ ~ \E v \in WorkerIds : HasWorker(v) /\ workers[v].user = u
  PROVE  WorkforceInv'
<1> USE DEF WorkforceInv
<1> DEFINE row == NewWorker(u, d, n)
<1>1. row \in WorkerRows /\ row.user = u
  BY NewRows
<1> HIDE DEF row
<1>2. \A x \in UserIds : HasUser(x) => users[x].worker # w
  BY NobodyIsNoRow DEF NamesBack
<1>3. /\ users' \in [UserIds -> {NoRow} \cup UserRows]
      /\ row.user # NoRow => users'[row.user] # NoRow
      /\ \A x \in UserIds : users[x] # NoRow => users'[x] # NoRow
      /\ \A x \in UserIds :
           \/ users'[x] = users[x]
           \/ x = u /\ users'[x].worker \in {NoRow, w}
  <2>1. CASE users' = users /\ (u = NoRow \/ HasUser(u))
    BY <1>1, <2>1 DEF WorkforceTypeOK, HasUser
  <2>2. CASE /\ u \in UserIds /\ users[u] = NoRow
             /\ users' = [users EXCEPT ![u] = NewUser(named)]
    <3>1. NewUser(named) \in UserRows /\ NewUser(named).worker = named /\ NewUser(named) # NoRow
      BY NewRows, RowsAreRows
    <3> QED BY <1>1, <2>2, <3>1, UsersSet
  <2> QED BY <2>1, <2>2
<1>4. \A v \in WorkerIds \ {w} : workers[v] # NoRow /\ row.user # NoRow => workers[v].user # row.user
  <2>1. CASE u \in UserIds /\ users[u] = NoRow
    BY <1>1, <2>1 DEF NamedUserMade
  <2>2. CASE UserFree(u, NoRow)
    BY <1>1, <2>2, NobodyIsNoRow DEF UserFree
  <2>3. CASE u = NoRow
    BY <1>1, <2>3
  <2> QED BY <2>1, <2>2, <2>3
<1>5. \A x \in UserIds : HasUser(x)' =>
        \/ /\ HasUser(x) /\ users'[x].worker = users[x].worker
           /\ users[x].worker = w => row.user = x
        \/ users'[x].worker = w /\ row.user = x
        \/ users'[x].worker = NoRow
  BY <1>1, <1>2, <1>3 DEF HasUser
<1>6. workers' = [workers EXCEPT ![w] = row]
  BY DEF row
<1>7. NamedByNone(w, row)
  BY <1>4 DEF NamedByNone
<1>8. UsersFollow(w, row)
  BY <1>3, <1>5 DEF UsersFollow
<1> HIDE DEF WorkforceInv
<1> QED BY <1>1, <1>6, <1>7, <1>8, RowWritten

\* The row of a worker there is, which comes to name the user u.
LEMMA UserGiven ==
  ASSUME WorkforceInv, NEW w \in WorkerIds, NEW u \in UserIds, NEW n \in {0, 1},
         OnboardWithUser(w, u, n, TRUE) \/ OnboardWithUser(w, u, n, FALSE)
           \/ OnboardWithoutUser(w, u, n)
  PROVE  WorkforceInv'
<1> USE DEF WorkforceInv
<1> DEFINE row == [workers[w] EXCEPT !.contracts = @ + n, !.user = u]
<1>0. u # NoRow
  BY NobodyIsNoRow
<1>1. HasWorker(w) /\ NoActiveContract(w, n) /\ workers' = [workers EXCEPT ![w] = row]
  <2>1. [WithContract(w, n) EXCEPT ![w].user = u] = [workers EXCEPT ![w] = row]
    BY DEF WithContract, WorkforceTypeOK
  <2> QED BY <1>0, <2>1 DEF OnboardWithUser, OnboardWithoutUser
<1>2. workers[w] \in WorkerRows
  BY <1>1, RowIsARow
<1>3. workers[w].contracts + n \in 0 .. MaxContracts
  BY <1>1, <1>2, WorkforceAssumption DEF NoActiveContract, WorkerRows
<1>4. row \in WorkerRows /\ row.user = u
  BY <1>2, <1>3 DEF WorkerRows
<1> HIDE DEF row
<1>5. CASE OnboardWithUser(w, u, n, TRUE) \/ OnboardWithUser(w, u, n, FALSE)
  <2>1. /\ Matches(w, u) /\ UserFree(u, w)
        /\ users' = users \/ users' = Linked(u, w)
    BY <1>5 DEF OnboardWithUser
  <2>2. HasUser(u) /\ users[u] \in UserRows
    BY <2>1, RowIsARow DEF Matches
  <2>3. [users[u] EXCEPT !.worker = w] \in UserRows /\ [users[u] EXCEPT !.worker = w].worker = w
        /\ [users[u] EXCEPT !.worker = w].deleted = users[u].deleted
    BY <2>2 DEF UserRows
  <2>4. /\ users' \in [UserIds -> {NoRow} \cup UserRows]
        /\ \A x \in UserIds : users[x] # NoRow => users'[x] # NoRow
        /\ \A x \in UserIds :
             \/ users'[x] = users[x]
             \/ x = u /\ users'[x].worker = w
    <3>1. CASE users' = users
      BY <3>1 DEF WorkforceTypeOK
    <3>2. CASE users' = Linked(u, w)
      <4>1. users' = [users EXCEPT ![u] = [users[u] EXCEPT !.worker = w]]
        BY <3>2 DEF Linked
      <4> QED BY <2>3, <4>1, UsersSet, RowsAreRows
    <3> QED BY <2>1, <3>1, <3>2
  <2>5. \A x \in UserIds : HasUser(x) /\ users[x].worker = w => x = u
    <3> SUFFICES ASSUME NEW x \in UserIds, HasUser(x), users[x].worker = w PROVE x = u
      OBVIOUS
    <3>1. workers[w].user = x /\ x # NoRow
      BY NobodyIsNoRow DEF NamesBack
    <3> QED BY <2>1, <3>1 DEF Matches
  <2>6. \A x \in UserIds : HasUser(x)' =>
          \/ /\ HasUser(x) /\ users'[x].worker = users[x].worker
             /\ users[x].worker = w => row.user = x
          \/ users'[x].worker = w /\ row.user = x
          \/ users'[x].worker = NoRow
    BY <1>4, <2>4, <2>5 DEF HasUser
  <2>7. \A v \in WorkerIds \ {w} :
          workers[v] # NoRow /\ row.user # NoRow => workers[v].user # row.user
    BY <1>4, <2>1 DEF UserFree
  <2>8. row.user # NoRow => users'[row.user] # NoRow
    BY <1>4, <2>2, <2>4 DEF HasUser
  <2>9. NamedByNone(w, row)
    BY <2>7 DEF NamedByNone
  <2>10. UsersFollow(w, row)
    BY <2>4, <2>6, <2>8 DEF UsersFollow
  <2> HIDE DEF WorkforceInv
  <2> QED BY <1>1, <1>4, <2>9, <2>10, RowWritten
<1>6. CASE OnboardWithoutUser(w, u, n)
  <2>1. /\ LinkedUser(w) = NoRow /\ users[u] = NoRow
        /\ users' = [users EXCEPT ![u] = NewUser(w)]
    BY <1>0, <1>6 DEF OnboardWithoutUser
  <2>2. NewUser(w) \in UserRows /\ NewUser(w).worker = w /\ NewUser(w) # NoRow
    BY NewRows, RowsAreRows
  <2>3. /\ users' \in [UserIds -> {NoRow} \cup UserRows]
        /\ users'[u] # NoRow /\ users'[u].worker = w
        /\ \A x \in UserIds : x # u => users'[x] = users[x]
    BY <2>1, <2>2, UsersSet
  <2>4. \A x \in UserIds : HasUser(x) => users[x].worker # w
    <3> SUFFICES ASSUME NEW x \in UserIds, HasUser(x), users[x].worker = w PROVE FALSE
      OBVIOUS
    <3>1. workers[w].user = x /\ x # NoRow
      BY NobodyIsNoRow DEF NamesBack
    <3>2. LinkedUser(w) \in UserIds
      BY <3>1, LinkedUserIs
    <3> QED BY <2>1, <3>2, NobodyIsNoRow
  <2>5. \A x \in UserIds : HasUser(x)' =>
          \/ /\ HasUser(x) /\ users'[x].worker = users[x].worker
             /\ users[x].worker = w => row.user = x
          \/ users'[x].worker = w /\ row.user = x
          \/ users'[x].worker = NoRow
    BY <1>4, <2>3, <2>4 DEF HasUser
  <2>6. \A v \in WorkerIds \ {w} :
          workers[v] # NoRow /\ row.user # NoRow => workers[v].user # row.user
    BY <1>0, <1>4, <2>1 DEF NamedUserMade
  <2>7. /\ row.user # NoRow => users'[row.user] # NoRow
        /\ \A x \in UserIds : users[x] # NoRow => users'[x] # NoRow
    BY <1>4, <2>1, <2>3
  <2>8. NamedByNone(w, row)
    BY <2>6 DEF NamedByNone
  <2>9. UsersFollow(w, row)
    BY <2>3, <2>5, <2>7 DEF UsersFollow
  <2> HIDE DEF WorkforceInv
  <2> QED BY <1>1, <1>4, <2>8, <2>9, RowWritten
<1> QED BY <1>5, <1>6

\* Rows of workers change, and whom they name does not.
LEMMA WorkerChanged ==
  ASSUME WorkforceInv, NEW w \in WorkerIds, NEW row \in WorkerRows, workers[w] # NoRow,
         row.user = workers[w].user, workers' = [workers EXCEPT ![w] = row], users' = users
  PROVE  WorkforceInv'
<1> USE DEF WorkforceInv
<1>1. \A v \in WorkerIds \ {w} :
        workers[v] # NoRow /\ row.user # NoRow => workers[v].user # row.user
  BY DEF UsersApart
<1>2. row.user # NoRow => users'[row.user] # NoRow
  BY DEF NamedUserMade
<1>3. \A x \in UserIds : HasUser(x)' =>
         \/ /\ HasUser(x) /\ users'[x].worker = users[x].worker
            /\ users[x].worker = w => row.user = x
         \/ users'[x].worker = w /\ row.user = x
         \/ users'[x].worker = NoRow
  <2>1. \A x \in UserIds : HasUser(x) /\ users[x].worker = w => workers[w].user = x
    BY NobodyIsNoRow DEF NamesBack
  <2> QED BY <2>1 DEF HasUser
<1>4. users' \in [UserIds -> {NoRow} \cup UserRows]
  BY DEF WorkforceTypeOK
<1>5. NamedByNone(w, row)
  BY <1>1 DEF NamedByNone
<1>6. UsersFollow(w, row)
  BY <1>2, <1>3, <1>4 DEF UsersFollow
<1> HIDE DEF WorkforceInv
<1> QED BY <1>5, <1>6, RowWritten

\* Users change, and the worker they name does not, or they come to name none.
LEMMA UserChanged ==
  ASSUME WorkforceInv, NEW u \in UserIds, NEW row \in UserRows, workers' = workers,
         users' = [users EXCEPT ![u] = row],
         row.worker = NoRow \/ row.deleted
  PROVE  WorkforceInv'
<1> USE DEF WorkforceInv
<1>1. /\ users' \in [UserIds -> {NoRow} \cup UserRows]
      /\ users'[u] = row /\ row # NoRow
      /\ \A x \in UserIds : x # u => users'[x] = users[x]
  BY UsersSet, RowsAreRows
<1>2. UsersApart'
  BY DEF UsersApart
<1>3. NamedUserMade'
  <2>1. \A v \in WorkerIds : workers[v] # NoRow /\ workers[v].user # NoRow =>
          workers[v].user \in UserIds /\ users[workers[v].user] # NoRow
    BY RowOf, RowsAreRows DEF NamedUserMade
  <2> QED BY <1>1, <2>1 DEF NamedUserMade
<1>4. NamesBack'
  BY <1>1 DEF NamesBack, HasUser
<1> QED BY <1>1, <1>2, <1>3, <1>4 DEF WorkforceTypeOK

LEMMA LinkKeeps ==
  ASSUME WorkforceInv, NEW u \in UserIds, NEW w \in WorkerIds, LinkWorker(u, w)
  PROVE  WorkforceInv'
<1> USE DEF WorkforceInv
<1>0. u # NoRow /\ w # NoRow
  BY NobodyIsNoRow
<1>1. users[u] \in UserRows /\ workers[w] \in WorkerRows
  BY RowOf DEF LinkWorker
<1>2. \A x \in UserIds :
        /\ x = u => users'[x] \in UserRows /\ users'[x].worker = w
        /\ x # u => \/ /\ users'[x] = users[x]
                       /\ users[x] # NoRow => users[x].worker # w
                    \/ users'[x] \in UserRows /\ users'[x].worker = NoRow /\ users[x] # NoRow
  <2> TAKE x \in UserIds
  <2>1. users[x] # NoRow => users[x] \in UserRows
    BY RowOf
  <2>2. users[x] # NoRow => \A v \in WorkerIds \cup {NoRow} :
          [users[x] EXCEPT !.worker = v] \in UserRows /\ [users[x] EXCEPT !.worker = v].worker = v
    BY <2>1 DEF UserRows
  <2> QED BY <2>2 DEF LinkWorker
<1>3. \A v \in WorkerIds :
        /\ v = w => workers'[v] \in WorkerRows /\ workers'[v].user = u
        /\ v # w => \/ /\ workers'[v] = workers[v]
                       /\ workers[v] # NoRow => workers[v].user # u
                    \/ workers'[v] \in WorkerRows /\ workers'[v].user = NoRow /\ workers[v] # NoRow
                       /\ workers[v].user = u
  <2> TAKE v \in WorkerIds
  <2>1. workers[v] # NoRow => workers[v] \in WorkerRows
    BY RowOf
  <2>2. workers[v] # NoRow => \A x \in UserIds \cup {NoRow} :
          [workers[v] EXCEPT !.user = x] \in WorkerRows /\ [workers[v] EXCEPT !.user = x].user = x
    BY <2>1 DEF WorkerRows
  <2> QED BY <2>2 DEF LinkWorker
<1>4. WorkforceTypeOK'
  <2>1. \A x \in UserIds : users'[x] \in {NoRow} \cup UserRows
    BY <1>2 DEF WorkforceTypeOK
  <2>2. \A v \in WorkerIds : workers'[v] \in {NoRow} \cup WorkerRows
    BY <1>3 DEF WorkforceTypeOK
  <2>3. users' = [x \in UserIds |-> users'[x]] /\ workers' = [v \in WorkerIds |-> workers'[v]]
    BY DEF LinkWorker
  <2> QED BY <2>1, <2>2, <2>3 DEF WorkforceTypeOK
<1>5. UsersApart'
  BY <1>3 DEF UsersApart
<1>6. NamedUserMade'
  <2> SUFFICES ASSUME NEW v \in WorkerIds, workers'[v] # NoRow, workers'[v].user # NoRow
               PROVE  users'[workers'[v].user] # NoRow
    BY DEF NamedUserMade
  <2>1. \A x \in UserIds : users[x] # NoRow => users'[x] # NoRow
    BY <1>2, RowsAreRows
  <2>2. CASE v = w
    BY <1>2, <1>3, <2>2, RowsAreRows
  <2>3. CASE workers'[v] = workers[v]
    BY <2>1, <2>3, RowOf, RowsAreRows DEF NamedUserMade
  <2> QED BY <1>3, <2>2, <2>3
<1>7. NamesBack'
  <2> SUFFICES ASSUME NEW x \in UserIds, HasUser(x)', users'[x].worker # NoRow
               PROVE  workers'[users'[x].worker] # NoRow
                      /\ workers'[users'[x].worker].user = x
    BY DEF NamesBack
  <2>1. CASE x = u
    BY <1>2, <1>3, <2>1, RowsAreRows
  <2>2. CASE x # u
    <3>1. users'[x] = users[x] /\ users[x].worker # w /\ HasUser(x)
      BY <1>2, <2>2 DEF HasUser
    <3>2. workers[users[x].worker] # NoRow /\ workers[users[x].worker].user = x
      BY <3>1 DEF NamesBack
    <3>3. users[x].worker \in WorkerIds
      BY <3>1, RowIsARow, RowsAreRows
    <3> QED BY <1>3, <2>2, <3>1, <3>2, <3>3
  <2> QED BY <2>1, <2>2
<1> QED BY <1>4, <1>5, <1>6, <1>7

LEMMA WorkforceKept == WorkforceInv /\ [WorkforceNext]_workforceVars => WorkforceInv'
<1> SUFFICES ASSUME WorkforceInv, [WorkforceNext]_workforceVars PROVE WorkforceInv'
  OBVIOUS
<1>a. ASSUME NEW w \in WorkerIds, NEW n \in Nat, HasWorker(w), workers[w].contracts + n <= MaxContracts,
             workers' = WithContract(w, n), users' = users
      PROVE  WorkforceInv'
  <2> DEFINE row == [workers[w] EXCEPT !.contracts = @ + n]
  <2>1. workers[w] \in WorkerRows /\ workers[w] # NoRow
    BY <1>a, RowIsARow DEF WorkforceInv, HasWorker
  <2>2. workers[w].contracts + n \in 0 .. MaxContracts
    BY <1>a, <2>1, WorkforceAssumption DEF WorkerRows
  <2>3. row \in WorkerRows /\ row.user = workers[w].user
    BY <2>1, <2>2 DEF WorkerRows
  <2>4. workers' = [workers EXCEPT ![w] = row]
    BY <1>a DEF WithContract
  <2> HIDE DEF row
  <2> QED BY <1>a, <2>1, <2>3, <2>4, WorkerChanged
<1>1. ASSUME NEW w \in WorkerIds, NEW u \in UserIds, NEW d \in Documents, NEW n \in {0, 1},
             \/ OnboardNew(w, u, d, n) \/ OnboardNew(w, NoRow, d, n)
             \/ CompleteProfileOfNew(w, u, d, n)
             \/ CreateWorkerWithUser(w, u, d, n)
      PROVE  WorkforceInv'
  <2>0. u # NoRow /\ NoRow \in {NoRow, w} /\ w \in {NoRow, w}
    BY NobodyIsNoRow
  <2>1. CASE OnboardNew(w, u, d, n)
    BY <2>0, <2>1, NewWorkerKeeps DEF OnboardNew
  <2>2. CASE OnboardNew(w, NoRow, d, n)
    BY <2>0, <2>2, NewWorkerKeeps DEF OnboardNew
  <2>3. CASE CompleteProfileOfNew(w, u, d, n)
    BY <2>0, <2>3, NewWorkerKeeps DEF CompleteProfileOfNew
  <2>4. CASE CreateWorkerWithUser(w, u, d, n)
    BY <2>0, <2>4, NewWorkerKeeps DEF CreateWorkerWithUser
  <2> QED BY <1>1, <2>1, <2>2, <2>3, <2>4
<1>2. ASSUME NEW w \in WorkerIds, NEW u \in UserIds, NEW n \in {0, 1},
             \/ \E access \in BOOLEAN : OnboardWithUser(w, u, n, access)
             \/ OnboardWithoutUser(w, u, n)
      PROVE  WorkforceInv'
  BY <1>2, UserGiven
<1>3. ASSUME NEW w \in WorkerIds, NEW n \in {0, 1}, OnboardWithoutUser(w, NoRow, n)
      PROVE  WorkforceInv'
  <2>1. workers[w] \in WorkerRows
    BY <1>3, RowIsARow DEF OnboardWithoutUser, WorkforceInv
  <2>2. workers[w].contracts + n <= MaxContracts
    BY <1>3, <2>1, WorkforceAssumption DEF OnboardWithoutUser, NoActiveContract, WorkerRows
  <2> QED BY <1>3, <1>a, <2>2 DEF OnboardWithoutUser
<1>4. ASSUME NEW w \in WorkerIds, NEW u \in UserIds, NEW n \in {0, 1}, CompleteProfile(w, u, n)
      PROVE  WorkforceInv'
  BY <1>4, <1>a DEF CompleteProfile
<1>5. ASSUME NEW u \in UserIds, CreateUser(u) PROVE WorkforceInv'
  BY <1>5, NewRows, UserChanged DEF CreateUser
<1>6. ASSUME NEW u \in UserIds, DeleteUserRow(u) PROVE WorkforceInv'
  <2> DEFINE row == [users[u] EXCEPT !.deleted = TRUE]
  <2>1. users[u] \in UserRows
    BY <1>6, RowIsARow DEF DeleteUserRow, WorkforceInv
  <2>2. row \in UserRows /\ row.deleted
    BY <2>1 DEF UserRows
  <2>3. users' = [users EXCEPT ![u] = row] /\ workers' = workers
    BY <1>6 DEF DeleteUserRow
  <2> HIDE DEF row
  <2> QED BY <2>2, <2>3, UserChanged
<1>7. ASSUME NEW w \in WorkerIds, DeleteWorker(w) PROVE WorkforceInv'
  <2> DEFINE row == [workers[w] EXCEPT !.deleted = TRUE]
  <2>1. workers[w] \in WorkerRows /\ workers[w] # NoRow
    BY <1>7, RowIsARow DEF DeleteWorker, WorkforceInv, HasWorker
  <2>2. row \in WorkerRows /\ row.user = workers[w].user
    BY <2>1 DEF WorkerRows
  <2>3. workers' = [workers EXCEPT ![w] = row] /\ users' = users
    BY <1>7 DEF DeleteWorker
  <2> HIDE DEF row
  <2> QED BY <2>1, <2>2, <2>3, WorkerChanged
<1>8. CASE UNCHANGED workforceVars
  BY <1>8 DEF workforceVars, WorkforceInv, WorkforceTypeOK, UsersApart, NamedUserMade, NamesBack,
     HasUser
<1> QED BY <1>1, <1>2, <1>3, <1>4, <1>5, <1>6, <1>7, <1>8, LinkKeeps DEF WorkforceNext

LEMMA RowsAgree == WorkforceInv => LinksAgree
<1> SUFFICES ASSUME WorkforceInv, NEW w \in WorkerIds, NEW u \in UserIds, HasWorker(w), HasUser(u)
             PROVE  /\ users[u].worker = w => workers[w].user = u
                    /\ workers[w].user = u => users[u].worker \in {NoRow, w}
  BY DEF LinksAgree
<1>1. users[u].worker \in WorkerIds \cup {NoRow} /\ w # NoRow /\ u # NoRow
  BY RowIsARow, RowsAreRows, NobodyIsNoRow DEF WorkforceInv
<1>2. users[u].worker # NoRow =>
        workers[users[u].worker] # NoRow /\ workers[users[u].worker].user = u
  BY DEF WorkforceInv, NamesBack
<1> QED BY <1>1, <1>2 DEF WorkforceInv, UsersApart, HasWorker

\* The columns by which workers name users and users name workers agree, however the
\* rows were made, linked, deleted and linked again (resolveExistingOnboardingContext,
\* linkWorker), for any number of rows.
THEOREM LinksKeepAgreeing ==
  WorkforceInit /\ [][WorkforceNext]_workforceVars => []LinksAgree
BY WorkforceBegins, WorkforceKept, RowsAgree, PTL

-------------------------------------------------------------------------------
(* Screens *)

\* A user has the one worker that names it, as long as that is not deleted.
LEMMA WorkerOfIs ==
  ASSUME WorkforceInv, NEW u \in UserIds
  PROVE  /\ \A w \in WorkerIds : WorkerOf(u) = w <=> HasWorker(w) /\ workers[w].user = u
         /\ WorkerOf(u) \in WorkerIds \cup {NoRow}
<1> USE DEF WorkforceInv
<1> DEFINE own == {w \in OwnRow(u) : HasWorker(w)}
<1>0. u # NoRow /\ \A w \in WorkerIds : w # NoRow
  BY NobodyIsNoRow
<1>1. \A w : w \in own <=> w \in WorkerIds /\ HasWorker(w) /\ workers[w].user = u
  BY DEF OwnRow, HasWorker
<1>2. \A w, v \in own : w = v
  BY <1>0, <1>1 DEF UsersApart, HasWorker
<1>3. WorkerOf(u) = IF own = {} THEN NoRow ELSE CHOOSE w \in own : TRUE
  BY DEF WorkerOf
<1> HIDE DEF own
<1>4. own # {} => (CHOOSE w \in own : TRUE) \in own
  OBVIOUS
<1> QED BY <1>0, <1>1, <1>2, <1>3, <1>4

\* A user that is not deleted has the worker it names.
LEMMA SameWorkerHeld ==
  ASSUME WorkforceInv, NEW u \in UserIds, HasUser(u)
  PROVE  ProfileWorker(u) = WorkerOf(u)
<1>1. CASE HasWorker(users[u].worker)
  <2>1. users[u].worker \in WorkerIds /\ users[u].worker # NoRow
    BY <1>1, RowIsARow, RowsAreRows DEF WorkforceInv, HasWorker
  <2>2. workers[users[u].worker].user = u
    BY <2>1 DEF WorkforceInv, NamesBack
  <2> QED BY <1>1, <2>1, <2>2, WorkerOfIs DEF ProfileWorker
<1>2. CASE ~HasWorker(users[u].worker)
  BY <1>2 DEF ProfileWorker
<1> QED BY <1>1, <1>2

\* The row a user's page shows is that of its worker.
LEMMA OwnRowIs ==
  ASSUME WorkforceInv, NEW u \in UserIds, WorkerOf(u) # NoRow
  PROVE  OwnRow(u) = {WorkerOf(u)}
<1>1. WorkerOf(u) \in WorkerIds /\ HasWorker(WorkerOf(u)) /\ workers[WorkerOf(u)].user = u
  BY WorkerOfIs
<1>2. \A w \in OwnRow(u) : w = WorkerOf(u)
  BY <1>1, NobodyIsNoRow DEF WorkforceInv, UsersApart, OwnRow, HasWorker
<1> QED BY <1>1, <1>2 DEF OwnRow, HasWorker

\* What was asked is in the columns: the name in both of the user, the rest in those of
\* its worker, if it has one.  Nobody has asked anything of a user that was not made.
InColumns(a, own, w) ==
  /\ a.name # Unsaid => a.name # Blank /\ own.full = a.name /\ own.parts = a.name
  /\ a.photo # Unsaid => own.photo = a.photo
  /\ a.photo # Unsaid /\ w # NoRow => ofWorker[w].photo = a.photo
  /\ a.phone # Unsaid => w # NoRow /\ ofWorker[w].phone = a.phone
  /\ a.listed # Unsaid => w # NoRow /\ a.listed # Blank /\ ofWorker[w].name = a.listed

AskedInColumns ==
  \A u \in UserIds :
    /\ users[u] = NoRow => asked[u] = NothingAsked
    /\ HasUser(u) => InColumns(asked[u], ofUser[u], WorkerOf(u))

ProfilesInv == WorkforceInv /\ ProfilesTypeOK /\ AskedInColumns

\* So every screen shows it.
LEMMA AskedShown == ProfilesInv => AskedIsShown
<1> SUFFICES ASSUME ProfilesInv, NEW u \in UserIds, HasUser(u)
             PROVE  LET w == ProfileWorker(u)
                        Told(field, on) == asked[u][field] \in {Unsaid, on}
                    IN  /\ Told("name", Profile(u).name) /\ Told("name", UserPage(u).name)
                        /\ Told("photo", Profile(u).photo)
                        /\ Told("phone", Profile(u).phone)
                        /\ w # NoRow => /\ Told("phone", UserPage(u).phone)
                                        /\ Told("phone", WorkerPage(w).phone)
                                        /\ Told("photo", WorkerPage(w).photo)
                                        /\ Told("listed", WorkerPage(w).name)
  BY DEF AskedIsShown
<1> DEFINE a == asked[u]
           w == WorkerOf(u)
<1>1. ProfileWorker(u) = w
  BY SameWorkerHeld DEF ProfilesInv
<1>2. /\ a.name # Unsaid =>
           a.name # Blank /\ ofUser[u].full = a.name /\ ofUser[u].parts = a.name
      /\ a.photo # Unsaid => ofUser[u].photo = a.photo
      /\ a.photo # Unsaid /\ w # NoRow => ofWorker[w].photo = a.photo
      /\ a.phone # Unsaid => w # NoRow /\ ofWorker[w].phone = a.phone
      /\ a.listed # Unsaid => w # NoRow /\ a.listed # Blank /\ ofWorker[w].name = a.listed
  BY DEF ProfilesInv, AskedInColumns, InColumns
<1>3. w # NoRow => UserPage(u).phone = ofWorker[w].phone
  <2> SUFFICES ASSUME w # NoRow PROVE UserPage(u).phone = ofWorker[w].phone
    OBVIOUS
  <2>1. OwnRow(u) = {w}
    BY OwnRowIs DEF ProfilesInv
  <2>2. (CHOOSE v \in OwnRow(u) : TRUE) = w
    BY <2>1
  <2> QED BY <2>1, <2>2 DEF UserPage
<1>4. UserPage(u).name = ofUser[u].parts
  BY DEF UserPage
<1>5. Profile(u) = [name  |-> FirstOf(ofUser[u].full, ofUser[u].parts),
                    phone |-> IF w = NoRow THEN Blank ELSE ofWorker[w].phone,
                    photo |-> IF w = NoRow THEN ofUser[u].photo
                              ELSE FirstOf(ofWorker[w].photo, ofUser[u].photo)]
  BY <1>1 DEF Profile
<1>6. /\ WorkerPage(w).phone = ofWorker[w].phone /\ WorkerPage(w).photo = ofWorker[w].photo
      /\ ofWorker[w].name # Blank => WorkerPage(w).name = ofWorker[w].name
  BY DEF WorkerPage
<1> HIDE DEF a, w
<1>7. /\ a.name \in {Unsaid, Profile(u).name} /\ a.photo \in {Unsaid, Profile(u).photo}
      /\ a.phone \in {Unsaid, Profile(u).phone}
  BY <1>2, <1>5 DEF FirstOf
<1> QED BY <1>1, <1>2, <1>3, <1>4, <1>6, <1>7 DEF a

-------------------------------------------------------------------------------
(* Steps *)

\* The worker of a user, in this state and in the next.
WorkersOfUsers ==
  \A u \in UserIds :
    /\ \A w \in WorkerIds : WorkerOf(u) = w <=> HasWorker(w) /\ workers[w].user = u
    /\ WorkerOf(u) \in WorkerIds \cup {NoRow}
    /\ HasUser(u) => ProfileWorker(u) = WorkerOf(u)

LEMMA WorkersFound == WorkforceInv => WorkersOfUsers
BY WorkerOfIs, SameWorkerHeld DEF WorkersOfUsers

LEMMA WorkersFoundNext == WorkforceInv' => WorkersOfUsers'
BY WorkersFound, PTL

\* Columns and requests, where the links change and the columns do not: what was asked
\* of a user that gets another worker is forgotten.
LEMMA RelinkedAsked ==
  ASSUME ProfilesInv, WorkforceInv', asked' = AskedOfSame, UNCHANGED <<ofUser, ofWorker>>,
         \A u \in UserIds : users[u] # NoRow => users'[u] # NoRow
  PROVE  AskedInColumns'
<1> SUFFICES ASSUME NEW u \in UserIds
             PROVE  (/\ users[u] = NoRow => asked[u] = NothingAsked
                     /\ HasUser(u) => InColumns(asked[u], ofUser[u], WorkerOf(u)))'
  BY DEF AskedInColumns
<1>1. asked'[u] = IF HasUser(u) /\ HasUser(u)' /\ ProfileWorker(u)' = ProfileWorker(u)
                  THEN asked[u] ELSE NothingAsked
  BY DEF AskedOfSame
<1>2. CASE HasUser(u) /\ HasUser(u)' /\ ProfileWorker(u)' = ProfileWorker(u)
  <2>1. WorkerOf(u)' = WorkerOf(u)
    BY <1>2, WorkersFound, WorkersFoundNext DEF ProfilesInv, WorkersOfUsers
  <2>2. InColumns(asked[u], ofUser[u], WorkerOf(u))
    BY <1>2 DEF ProfilesInv, AskedInColumns
  <2>3. asked'[u] = asked[u] /\ users'[u] # NoRow
    BY <1>1, <1>2 DEF HasUser
  <2> QED BY <2>1, <2>2, <2>3 DEF InColumns
<1>3. CASE asked'[u] = NothingAsked
  BY <1>3 DEF InColumns, NothingAsked
<1> QED BY <1>1, <1>2, <1>3

\* Columns and requests, where the links stay.
LEMMA SameLinksAsked ==
  ASSUME ProfilesInv, UNCHANGED workforceVars,
         \A u \in UserIds :
           /\ users[u] = NoRow => asked'[u] = asked[u]
           /\ HasUser(u) => InColumns(asked[u], ofUser[u], WorkerOf(u))'
  PROVE  AskedInColumns'
<1>1. \A u \in UserIds : HasUser(u)' <=> HasUser(u)
  BY DEF HasUser, workforceVars
<1>2. \A u \in UserIds : users'[u] = NoRow => asked'[u] = NothingAsked
  BY DEF ProfilesInv, AskedInColumns, workforceVars
<1> QED BY <1>1, <1>2 DEF AskedInColumns

LEMMA SameWorkers ==
  ASSUME WorkforceInv, UNCHANGED workforceVars
  PROVE  \A u \in UserIds : WorkerOf(u)' = WorkerOf(u)
<1>1. WorkforceInv'
  BY WorkforceKept
<1>2. \A u \in UserIds : /\ WorkerOf(u)' \in WorkerIds \cup {NoRow}
                         /\ WorkerOf(u) \in WorkerIds \cup {NoRow}
  BY <1>1, WorkersFound, WorkersFoundNext DEF WorkersOfUsers
<1>3. \A u \in UserIds, w \in WorkerIds : WorkerOf(u)' = w <=> WorkerOf(u) = w
  <2>1. \A u \in UserIds, w \in WorkerIds : WorkerOf(u) = w <=> HasWorker(w) /\ workers[w].user = u
    BY WorkersFound DEF WorkersOfUsers
  <2>2. \A u \in UserIds, w \in WorkerIds :
          WorkerOf(u)' = w <=> HasWorker(w)' /\ workers'[w].user = u
    BY <1>1, WorkersFoundNext DEF WorkersOfUsers
  <2>3. \A w \in WorkerIds : (HasWorker(w)' <=> HasWorker(w)) /\ workers' = workers
    BY DEF HasWorker, workforceVars
  <2> QED BY <2>1, <2>2, <2>3
<1> QED BY <1>2, <1>3

\* The columns of a user and of the rows that name it are written, and the requests of
\* nobody else.
LEMMA OneUserEdited ==
  ASSUME ProfilesInv, UNCHANGED workforceVars, NEW u \in UserIds, HasUser(u),
         \A x \in UserIds : x # u => asked'[x] = asked[x] /\ ofUser'[x] = ofUser[x],
         \A w \in WorkerIds : workers[w] # NoRow /\ workers[w].user # u => ofWorker'[w] = ofWorker[w],
         LET a == asked'[u]
             w == WorkerOf(u)
         IN  /\ a.name # Unsaid =>
                  a.name # Blank /\ ofUser'[u].full = a.name /\ ofUser'[u].parts = a.name
             /\ a.photo # Unsaid => ofUser'[u].photo = a.photo
             /\ a.photo # Unsaid /\ w # NoRow => ofWorker'[w].photo = a.photo
             /\ a.phone # Unsaid => w # NoRow /\ ofWorker'[w].phone = a.phone
             /\ a.listed # Unsaid => w # NoRow /\ a.listed # Blank /\ ofWorker'[w].name = a.listed
  PROVE  AskedInColumns'
<1>1. \A x \in UserIds : WorkerOf(x)' = WorkerOf(x)
  BY SameWorkers DEF ProfilesInv
<1>2. HasUser(u) => InColumns(asked[u], ofUser[u], WorkerOf(u))'
  BY <1>1 DEF InColumns
<1>3. ASSUME NEW x \in UserIds, x # u, HasUser(x)
      PROVE  InColumns(asked[x], ofUser[x], WorkerOf(x))'
  <2>1. InColumns(asked[x], ofUser[x], WorkerOf(x))
    BY <1>3 DEF ProfilesInv, AskedInColumns
  <2>2. WorkerOf(x) # NoRow => ofWorker'[WorkerOf(x)] = ofWorker[WorkerOf(x)]
    <3> SUFFICES ASSUME WorkerOf(x) # NoRow PROVE ofWorker'[WorkerOf(x)] = ofWorker[WorkerOf(x)]
      OBVIOUS
    <3>1. WorkerOf(x) \in WorkerIds
      BY WorkersFound DEF ProfilesInv, WorkersOfUsers
    <3>2. HasWorker(WorkerOf(x)) /\ workers[WorkerOf(x)].user = x
      BY <3>1, WorkersFound DEF ProfilesInv, WorkersOfUsers
    <3> QED BY <1>3, <3>1, <3>2 DEF HasWorker
  <2>3. WorkerOf(x)' = WorkerOf(x) /\ asked'[x] = asked[x] /\ ofUser'[x] = ofUser[x]
    BY <1>1, <1>3
  <2> QED BY <2>1, <2>2, <2>3 DEF InColumns
<1>4. \A x \in UserIds : /\ users[x] = NoRow => asked'[x] = asked[x]
                         /\ HasUser(x) => InColumns(asked[x], ofUser[x], WorkerOf(x))'
  BY <1>2, <1>3 DEF HasUser
<1> QED BY <1>4, SameLinksAsked

\* A user that is made, with a worker or without: nothing was asked of it, and the
\* others keep their worker.
LEMMA UserMade ==
  ASSUME ProfilesInv, WorkforceInv', NEW u \in UserIds, users[u] = NoRow, UNCHANGED asked,
         \A x \in UserIds : x # u => users'[x] = users[x] /\ ofUser'[x] = ofUser[x],
         users'[u] # NoRow,
         \A w \in WorkerIds :
           \/ workers'[w] = workers[w] /\ ofWorker'[w] = ofWorker[w]
           \/ workers[w] = NoRow /\ workers'[w].user = u
  PROVE  AskedInColumns'
<1> SUFFICES ASSUME NEW x \in UserIds
             PROVE  (/\ users[x] = NoRow => asked[x] = NothingAsked
                     /\ HasUser(x) => InColumns(asked[x], ofUser[x], WorkerOf(x)))'
  BY DEF AskedInColumns
<1>1. CASE x = u
  <2>1. asked'[x] = NothingAsked
    BY <1>1 DEF ProfilesInv, AskedInColumns
  <2> QED BY <2>1 DEF InColumns, NothingAsked
<1>2. CASE x # u
  <2>1. users'[x] = users[x] /\ asked'[x] = asked[x] /\ ofUser'[x] = ofUser[x]
    BY <1>2
  <2>2. /\ \A w \in WorkerIds : WorkerOf(x) = w <=> HasWorker(w) /\ workers[w].user = x
        /\ WorkerOf(x) \in WorkerIds \cup {NoRow}
    BY WorkersFound DEF ProfilesInv, WorkersOfUsers
  <2>3. /\ \A w \in WorkerIds : WorkerOf(x)' = w <=> HasWorker(w)' /\ workers'[w].user = x
        /\ WorkerOf(x)' \in WorkerIds \cup {NoRow}
    BY WorkersFoundNext DEF WorkersOfUsers
  <2>4. \A w \in WorkerIds :
          HasWorker(w)' /\ workers'[w].user = x <=> HasWorker(w) /\ workers[w].user = x
    BY <1>2 DEF HasWorker
  <2>5. WorkerOf(x)' = WorkerOf(x)
    BY <2>2, <2>3, <2>4
  <2>6. WorkerOf(x) # NoRow => ofWorker'[WorkerOf(x)] = ofWorker[WorkerOf(x)]
    BY <1>2, <2>2 DEF HasWorker
  <2>7. /\ users[x] = NoRow => asked[x] = NothingAsked
        /\ HasUser(x) => InColumns(asked[x], ofUser[x], WorkerOf(x))
    BY DEF ProfilesInv, AskedInColumns
  <2>8. HasUser(x)' <=> HasUser(x)
    BY <2>1 DEF HasUser
  <2>9. HasUser(x) => InColumns(asked[x], ofUser[x], WorkerOf(x))'
    BY <2>1, <2>5, <2>6, <2>7 DEF InColumns
  <2> QED BY <2>1, <2>7, <2>8, <2>9
<1> QED BY <1>1, <1>2

\* The rows of the columns.
OfUserRows == [full : Columns, parts : Columns, photo : Columns]
OfWorkerRows == [name : Columns, phone : Columns, photo : Columns]
Asks == [name : Columns \cup {Unsaid}, listed : Columns \cup {Unsaid},
         phone : Columns \cup {Unsaid}, photo : Columns \cup {Unsaid}]

LEMMA ColumnRows ==
  ASSUME ProfilesTypeOK
  PROVE  /\ \A u \in UserIds : ofUser[u] \in OfUserRows /\ asked[u] \in Asks
         /\ \A w \in WorkerIds : ofWorker[w] \in OfWorkerRows
BY DEF ProfilesTypeOK, OfUserRows, OfWorkerRows, Asks

LEMMA NothingIsAsked == NothingAsked \in Asks
BY DEF NothingAsked, Asks

LEMMA TextsSay == \A name \in Texts : name # Blank /\ name # Unsaid /\ name \in Columns
BY ProfilesAssumption DEF Columns

LEMMA ProfilesTyped ==
  ASSUME ofUser' \in [UserIds -> OfUserRows], ofWorker' \in [WorkerIds -> OfWorkerRows],
         asked' \in [UserIds -> Asks], edits' \in 0 .. MaxEdits
  PROVE  ProfilesTypeOK'
BY DEF ProfilesTypeOK, OfUserRows, OfWorkerRows, Asks

LEMMA EditCounts == ASSUME ProfilesTypeOK, Edit PROVE edits' \in 0 .. MaxEdits
BY ProfilesAssumption DEF ProfilesTypeOK, Edit

LEMMA ProfilesBegin == WorkforceInit /\ ProfilesInit => ProfilesInv
<1> SUFFICES ASSUME WorkforceInit, ProfilesInit PROVE ProfilesInv
  OBVIOUS
<1>1. WorkforceInv
  BY WorkforceBegins
<1>2. ProfilesTypeOK
  BY ProfilesAssumption DEF ProfilesInit, ProfilesTypeOK, Columns, NothingAsked
<1>3. AskedInColumns
  BY DEF WorkforceInit, ProfilesInit, AskedInColumns, HasUser
<1> QED BY <1>1, <1>2, <1>3 DEF ProfilesInv

LEMMA HireKeeps ==
  ASSUME ProfilesInv, NEW w \in WorkerIds, NEW u \in UserIds, NEW d \in Documents,
         NEW name \in Texts, Hire(w, u, d, name)
  PROVE  ProfilesInv'
<1>1. WorkforceInv' /\ users[u] = NoRow /\ workers[w] = NoRow
  <2>1. CreateWorkerWithUser(w, u, d, 0)
    BY DEF Hire
  <2> QED BY <2>1, WorkforceKept DEF ProfilesInv, WorkforceNext, CreateWorkerWithUser
<1>2. NewUser(NoRow) \in UserRows /\ NewUser(NoRow) # NoRow
      /\ NewWorker(u, d, 0) \in WorkerRows /\ NewWorker(u, d, 0).user = u
  BY NewRows, RowsAreRows
<1>3. /\ users'[u] = NewUser(NoRow) /\ \A x \in UserIds : x # u => users'[x] = users[x]
      /\ workers'[w] = NewWorker(u, d, 0) /\ \A v \in WorkerIds : v # w => workers'[v] = workers[v]
  BY <1>2, UsersSet, WorkersSet DEF Hire, CreateWorkerWithUser, ProfilesInv, WorkforceInv
<1>4. /\ \A x \in UserIds : x # u => ofUser'[x] = ofUser[x]
      /\ \A v \in WorkerIds : v # w => ofWorker'[v] = ofWorker[v]
  BY DEF Hire, ProfilesInv, ProfilesTypeOK
<1>5. AskedInColumns'
  BY <1>1, <1>2, <1>3, <1>4, UserMade DEF Hire
<1>6. ProfilesTypeOK'
  <2>1. [full |-> name, parts |-> name, photo |-> Blank] \in OfUserRows
        /\ [name |-> name, phone |-> Blank, photo |-> Blank] \in OfWorkerRows
    BY DEF OfUserRows, OfWorkerRows, Columns
  <2>2. /\ ofUser' \in [UserIds -> OfUserRows] /\ ofWorker' \in [WorkerIds -> OfWorkerRows]
        /\ asked' \in [UserIds -> Asks]
    BY <2>1 DEF Hire, ProfilesInv, ProfilesTypeOK, OfUserRows, OfWorkerRows, Asks
  <2>3. edits' \in 0 .. MaxEdits
    BY EditCounts DEF Hire, ProfilesInv
  <2> QED BY <2>2, <2>3, ProfilesTyped
<1> QED BY <1>1, <1>5, <1>6 DEF ProfilesInv

LEMMA OpenAccountKeeps ==
  ASSUME ProfilesInv, NEW u \in UserIds, NEW name \in Texts, OpenAccount(u, name)
  PROVE  ProfilesInv'
<1>1. WorkforceInv' /\ users[u] = NoRow
  <2>1. CreateUser(u)
    BY DEF OpenAccount
  <2> QED BY <2>1, WorkforceKept DEF ProfilesInv, WorkforceNext, CreateUser
<1>2. NewUser(NoRow) \in UserRows /\ NewUser(NoRow) # NoRow
  BY NewRows, RowsAreRows
<1>3. users'[u] = NewUser(NoRow) /\ (\A x \in UserIds : x # u => users'[x] = users[x])
      /\ workers' = workers
  BY <1>2, UsersSet DEF OpenAccount, CreateUser, ProfilesInv, WorkforceInv
<1>4. \A x \in UserIds : x # u => ofUser'[x] = ofUser[x]
  BY DEF OpenAccount, ProfilesInv, ProfilesTypeOK
<1>5. AskedInColumns'
  BY <1>1, <1>2, <1>3, <1>4, UserMade DEF OpenAccount
<1>6. ProfilesTypeOK'
  <2>1. [full |-> Blank, parts |-> name, photo |-> Blank] \in OfUserRows
    BY DEF OfUserRows, Columns
  <2>2. /\ ofUser' \in [UserIds -> OfUserRows] /\ ofWorker' \in [WorkerIds -> OfWorkerRows]
        /\ asked' \in [UserIds -> Asks]
    BY <2>1 DEF OpenAccount, ProfilesInv, ProfilesTypeOK, OfUserRows, OfWorkerRows, Asks
  <2>3. edits' \in 0 .. MaxEdits
    BY EditCounts DEF OpenAccount, ProfilesInv
  <2> QED BY <2>2, <2>3, ProfilesTyped
<1> QED BY <1>1, <1>5, <1>6 DEF ProfilesInv

LEMMA RelinkKeeps == ASSUME ProfilesInv, Relink PROVE ProfilesInv'
<1>1. \/ \E u \in UserIds, w \in WorkerIds : LinkWorker(u, w)
      \/ \E u \in UserIds : DeleteUserRow(u)
      \/ \E w \in WorkerIds : DeleteWorker(w)
  BY DEF Relink
<1>2. WorkforceInv'
  BY <1>1, WorkforceKept DEF ProfilesInv, WorkforceNext
<1>3. \A x \in UserIds : users[x] # NoRow => users'[x] # NoRow
  <2> SUFFICES ASSUME NEW x \in UserIds, users[x] # NoRow PROVE users'[x] # NoRow
    OBVIOUS
  <2>1. users[x] \in UserRows
    BY RowOf DEF ProfilesInv, WorkforceInv
  <2>2. /\ [users[x] EXCEPT !.deleted = TRUE] \in UserRows
        /\ \A w \in WorkerIds \cup {NoRow} : [users[x] EXCEPT !.worker = w] \in UserRows
    BY <2>1 DEF UserRows
  <2>3. CASE \E u \in UserIds, w \in WorkerIds : LinkWorker(u, w)
    <3>1. PICK u \in UserIds, w \in WorkerIds : LinkWorker(u, w)
      BY <2>3
    <3>2. \/ users'[x] = [users[x] EXCEPT !.worker = w]
          \/ users'[x] = [users[x] EXCEPT !.worker = NoRow]
          \/ users'[x] = users[x]
      BY <3>1 DEF LinkWorker
    <3> QED BY <2>2, <3>2, RowsAreRows
  <2>4. CASE \E u \in UserIds : DeleteUserRow(u)
    <3>1. PICK u \in UserIds : DeleteUserRow(u)
      BY <2>4
    <3>2. users'[x] = [users[x] EXCEPT !.deleted = TRUE] \/ users'[x] = users[x]
      BY <3>1 DEF DeleteUserRow, ProfilesInv, WorkforceInv, WorkforceTypeOK
    <3> QED BY <2>2, <3>2, RowsAreRows
  <2>5. CASE \E w \in WorkerIds : DeleteWorker(w)
    BY <2>5 DEF DeleteWorker
  <2> QED BY <1>1, <2>3, <2>4, <2>5
<1>4. AskedInColumns'
  BY <1>2, <1>3, RelinkedAsked DEF Relink
<1>5. ProfilesTypeOK'
  <2>1. asked' \in [UserIds -> Asks]
    <3>1. \A u \in UserIds : AskedOfSame[u] \in Asks
      BY ColumnRows, NothingIsAsked DEF AskedOfSame, ProfilesInv
    <3>2. AskedOfSame = [u \in UserIds |-> AskedOfSame[u]]
      BY DEF AskedOfSame
    <3> QED BY <3>1, <3>2 DEF Relink
  <2>2. ofUser' \in [UserIds -> OfUserRows] /\ ofWorker' \in [WorkerIds -> OfWorkerRows]
    BY DEF Relink, ProfilesInv, ProfilesTypeOK, OfUserRows, OfWorkerRows
  <2>3. edits' \in 0 .. MaxEdits
    BY EditCounts DEF Relink, ProfilesInv
  <2> QED BY <2>1, <2>2, <2>3, ProfilesTyped
<1> QED BY <1>2, <1>4, <1>5 DEF ProfilesInv

\* What the columns of a row are after a request said something, or not.
LEMMA RowsSaid ==
  /\ \A old \in Columns, new \in Columns \cup {Unsaid} : Said(old, new) \in Columns
  /\ \A old, new \in Columns \cup {Unsaid} : Said(old, new) \in Columns \cup {Unsaid}
BY DEF Said

\* The requests keep the links.
LEMMA EditKeeps ==
  ASSUME ProfilesInv, Edit, UNCHANGED workforceVars, AskedInColumns',
         ofUser' \in [UserIds -> OfUserRows], ofWorker' \in [WorkerIds -> OfWorkerRows],
         asked' \in [UserIds -> Asks]
  PROVE  ProfilesInv'
<1>1. WorkforceInv'
  BY WorkforceKept DEF ProfilesInv
<1>2. ProfilesTypeOK'
  BY EditCounts, ProfilesTyped DEF ProfilesInv
<1> QED BY <1>1, <1>2 DEF ProfilesInv

LEMMA UpdateProfileKeeps ==
  ASSUME ProfilesInv, NEW u \in UserIds, NEW name \in Texts \cup {Unsaid},
         NEW phone \in Columns \cup {Unsaid}, UpdateProfile(u, name, phone)
  PROVE  ProfilesInv'
<1> DEFINE w == WorkerOf(u)
<1>1. /\ Edit /\ HasUser(u) /\ UNCHANGED workforceVars
      /\ phone # Unsaid => w # NoRow
  BY SameWorkerHeld DEF UpdateProfile, ProfilesInv
<1>3. /\ ofUser[u] \in OfUserRows /\ asked[u] \in Asks
      /\ \A v \in WorkerIds : ofWorker[v] \in OfWorkerRows
  BY ColumnRows DEF ProfilesInv
<1>4. name \in Columns \cup {Unsaid} /\ (name # Unsaid => name # Blank)
  BY TextsSay
<1>5. /\ ofUser' = [ofUser EXCEPT ![u] = [ofUser[u] EXCEPT !.full = Said(@, name), !.parts = Said(@, name)]]
      /\ asked' = [asked EXCEPT ![u] = [asked[u] EXCEPT !.name = Said(@, name), !.phone = Said(@, phone)]]
  BY DEF UpdateProfile, NameAndPhone, ProfilesInv, ProfilesTypeOK
<1>6. [ofUser[u] EXCEPT !.full = Said(@, name), !.parts = Said(@, name)] \in OfUserRows
      /\ [asked[u] EXCEPT !.name = Said(@, name), !.phone = Said(@, phone)] \in Asks
  BY <1>3, <1>4, RowsSaid DEF OfUserRows, Asks
<1>7. /\ ofUser' \in [UserIds -> OfUserRows] /\ asked' \in [UserIds -> Asks]
      /\ ofUser'[u] = [ofUser[u] EXCEPT !.full = Said(@, name), !.parts = Said(@, name)]
      /\ asked'[u] = [asked[u] EXCEPT !.name = Said(@, name), !.phone = Said(@, phone)]
      /\ \A x \in UserIds : x # u => asked'[x] = asked[x] /\ ofUser'[x] = ofUser[x]
  BY <1>5, <1>6 DEF ProfilesInv, ProfilesTypeOK, OfUserRows, Asks
<1>8. \A v \in WorkerIds :
        /\ ofWorker'[v] = IF HasWorker(v) /\ (workers[v].user = u \/ users[u].worker = v)
                          THEN [ofWorker[v] EXCEPT !.phone = Said(@, phone)] ELSE ofWorker[v]
        /\ ofWorker'[v] \in OfWorkerRows
        /\ v = w => ofWorker'[v] = [ofWorker[v] EXCEPT !.phone = Said(@, phone)]
        /\ workers[v] # NoRow /\ workers[v].user # u => ofWorker'[v] = ofWorker[v]
  <2> TAKE v \in WorkerIds
  <2>1. ofWorker'[v] = IF HasWorker(v) /\ (workers[v].user = u \/ users[u].worker = v)
                       THEN [ofWorker[v] EXCEPT !.phone = Said(@, phone)] ELSE ofWorker[v]
    BY DEF UpdateProfile, NameAndPhone
  <2>2. [ofWorker[v] EXCEPT !.phone = Said(@, phone)] \in OfWorkerRows
    BY <1>3, RowsSaid DEF OfWorkerRows
  <2>3. v = w => HasWorker(v) /\ workers[v].user = u
    BY WorkersFound DEF ProfilesInv, WorkersOfUsers
  <2>4. HasWorker(v) /\ users[u].worker = v => workers[v].user = u
    BY <1>1, NobodyIsNoRow DEF ProfilesInv, WorkforceInv, NamesBack
  <2> QED BY <1>3, <2>1, <2>2, <2>3, <2>4
<1>9. ofWorker' \in [WorkerIds -> OfWorkerRows]
  BY <1>8 DEF UpdateProfile, NameAndPhone
<1>10. w \in WorkerIds \cup {NoRow} /\ InColumns(asked[u], ofUser[u], w)
  BY <1>1, WorkersFound DEF ProfilesInv, AskedInColumns, WorkersOfUsers
<1> HIDE DEF w
<1>11. LET a == asked'[u]
       IN  /\ a.name # Unsaid =>
                a.name # Blank /\ ofUser'[u].full = a.name /\ ofUser'[u].parts = a.name
           /\ a.photo # Unsaid => ofUser'[u].photo = a.photo
  BY <1>3, <1>4, <1>7, <1>10 DEF InColumns, OfUserRows, Asks, Said
<1>12. /\ w # NoRow => /\ ofWorker'[w].photo = ofWorker[w].photo
                       /\ ofWorker'[w].name = ofWorker[w].name
                       /\ ofWorker'[w].phone = Said(ofWorker[w].phone, phone)
       /\ asked'[u].photo = asked[u].photo /\ asked'[u].listed = asked[u].listed
       /\ asked'[u].phone = Said(asked[u].phone, phone)
  <2>1. ASSUME w # NoRow
        PROVE  /\ ofWorker'[w].photo = ofWorker[w].photo
               /\ ofWorker'[w].name = ofWorker[w].name
               /\ ofWorker'[w].phone = Said(ofWorker[w].phone, phone)
    <3>1. w \in WorkerIds /\ ofWorker[w] \in OfWorkerRows
      BY <1>3, <1>10, <2>1
    <3>2. ofWorker'[w] = [ofWorker[w] EXCEPT !.phone = Said(@, phone)]
      BY <1>8, <3>1
    <3> QED BY <3>1, <3>2 DEF OfWorkerRows
  <2>2. /\ asked'[u].photo = asked[u].photo /\ asked'[u].listed = asked[u].listed
        /\ asked'[u].phone = Said(asked[u].phone, phone)
    BY <1>3, <1>7 DEF Asks
  <2> QED BY <2>1, <2>2
<1>13. LET a == asked'[u]
       IN  /\ a.photo # Unsaid /\ w # NoRow => ofWorker'[w].photo = a.photo
           /\ a.phone # Unsaid => w # NoRow /\ ofWorker'[w].phone = a.phone
           /\ a.listed # Unsaid => w # NoRow /\ a.listed # Blank /\ ofWorker'[w].name = a.listed
  BY <1>1, <1>10, <1>12 DEF InColumns, Said
<1>14. AskedInColumns'
  BY <1>1, <1>7, <1>8, <1>11, <1>13, OneUserEdited DEF w
<1> QED BY <1>1, <1>7, <1>9, <1>14, EditKeeps

LEMMA UpdateMeKeeps ==
  ASSUME ProfilesInv, NEW u \in UserIds, NEW phone \in Texts, UpdateMe(u, phone)
  PROVE  ProfilesInv'
<1> DEFINE w == WorkerOf(u)
<1>1. Edit /\ HasUser(u) /\ UNCHANGED workforceVars /\ ofUser' = ofUser
  BY DEF UpdateMe
<1>2. /\ asked[u] \in Asks
      /\ \A v \in WorkerIds : ofWorker[v] \in OfWorkerRows
  BY ColumnRows DEF ProfilesInv
<1>3. phone \in Columns
  BY TextsSay
<1>4. asked' = IF w = NoRow THEN asked ELSE [asked EXCEPT ![u] = [asked[u] EXCEPT !.phone = phone]]
  BY DEF UpdateMe, ProfilesInv, ProfilesTypeOK
<1>5. [asked[u] EXCEPT !.phone = phone] \in Asks
  BY <1>2, <1>3 DEF Asks
<1>6. \A v \in WorkerIds :
        /\ ofWorker'[v] \in OfWorkerRows
        /\ v = w => ofWorker'[v] = [ofWorker[v] EXCEPT !.phone = phone]
        /\ workers[v] # NoRow /\ workers[v].user # u => ofWorker'[v] = ofWorker[v]
  <2> TAKE v \in WorkerIds
  <2>1. ofWorker'[v] = IF v \in OwnRow(u) THEN [ofWorker[v] EXCEPT !.phone = phone] ELSE ofWorker[v]
    BY DEF UpdateMe
  <2>2. [ofWorker[v] EXCEPT !.phone = phone] \in OfWorkerRows
    BY <1>2, <1>3 DEF OfWorkerRows
  <2>3. v = w => HasWorker(v) /\ workers[v].user = u
    BY WorkersFound DEF ProfilesInv, WorkersOfUsers
  <2>4. v \in OwnRow(u) <=> workers[v] # NoRow /\ workers[v].user = u
    BY DEF OwnRow
  <2> QED BY <1>2, <2>1, <2>2, <2>3, <2>4 DEF HasWorker
<1>7. ofWorker' \in [WorkerIds -> OfWorkerRows]
  BY <1>6 DEF UpdateMe
<1>8. w \in WorkerIds \cup {NoRow} /\ InColumns(asked[u], ofUser[u], w)
  BY <1>1, WorkersFound DEF ProfilesInv, AskedInColumns, WorkersOfUsers
<1> HIDE DEF w
<1>9. /\ asked' \in [UserIds -> Asks] /\ ofUser' \in [UserIds -> OfUserRows]
      /\ \A x \in UserIds : x # u => asked'[x] = asked[x] /\ ofUser'[x] = ofUser[x]
      /\ w # NoRow => asked'[u] = [asked[u] EXCEPT !.phone = phone]
      /\ w = NoRow => asked'[u] = asked[u]
  BY <1>1, <1>4, <1>5 DEF ProfilesInv, ProfilesTypeOK, OfUserRows, Asks
<1>10. LET a == asked'[u]
       IN  /\ a.name # Unsaid =>
                a.name # Blank /\ ofUser'[u].full = a.name /\ ofUser'[u].parts = a.name
           /\ a.photo # Unsaid => ofUser'[u].photo = a.photo
           /\ a.photo # Unsaid /\ w # NoRow => ofWorker'[w].photo = a.photo
           /\ a.phone # Unsaid => w # NoRow /\ ofWorker'[w].phone = a.phone
           /\ a.listed # Unsaid => w # NoRow /\ a.listed # Blank /\ ofWorker'[w].name = a.listed
  <2>1. CASE w = NoRow
    BY <1>1, <1>8, <1>9, <2>1 DEF InColumns
  <2>2. CASE w # NoRow
    <3>1. w \in WorkerIds /\ ofWorker[w] \in OfWorkerRows
      BY <1>2, <1>8, <2>2
    <3>2. ofWorker'[w] = [ofWorker[w] EXCEPT !.phone = phone]
      BY <1>6, <3>1
    <3>3. /\ ofWorker'[w].photo = ofWorker[w].photo
          /\ ofWorker'[w].name = ofWorker[w].name
          /\ ofWorker'[w].phone = phone
      BY <3>1, <3>2 DEF OfWorkerRows
    <3>4. /\ asked'[u].name = asked[u].name /\ asked'[u].photo = asked[u].photo
          /\ asked'[u].listed = asked[u].listed /\ asked'[u].phone = phone
      BY <1>2, <1>9, <2>2 DEF Asks
    <3> QED BY <1>1, <1>8, <2>2, <3>3, <3>4 DEF InColumns
  <2> QED BY <2>1, <2>2
<1>11. AskedInColumns'
  BY <1>1, <1>6, <1>9, <1>10, OneUserEdited DEF w
<1> QED BY <1>1, <1>7, <1>9, <1>11, EditKeeps

LEMMA ChangePhotoKeeps ==
  ASSUME ProfilesInv, NEW u \in UserIds, NEW photo \in Columns, ChangePhoto(u, photo)
  PROVE  ProfilesInv'
<1> DEFINE w == WorkerOf(u)
<1>1. Edit /\ HasUser(u) /\ UNCHANGED workforceVars
  BY DEF ChangePhoto
<1>2. /\ ofUser[u] \in OfUserRows /\ asked[u] \in Asks
      /\ \A v \in WorkerIds : ofWorker[v] \in OfWorkerRows
  BY ColumnRows DEF ProfilesInv
<1>3. w \in WorkerIds \cup {NoRow} /\ InColumns(asked[u], ofUser[u], w)
      /\ \A v \in WorkerIds : v = w => HasWorker(v) /\ workers[v].user = u
  BY <1>1, WorkersFound DEF ProfilesInv, AskedInColumns, WorkersOfUsers
<1>4. ofUser' = [ofUser EXCEPT ![u] = [ofUser[u] EXCEPT !.photo = photo]]
  BY DEF ChangePhoto, ProfilesInv, ProfilesTypeOK
<1>5. PICK said \in {photo, Unsaid} :
        /\ asked' = [asked EXCEPT ![u] = [asked[u] EXCEPT !.photo = said]]
        /\ said # Unsaid => ofWorker' = [v \in WorkerIds |->
             IF v = w THEN [ofWorker[v] EXCEPT !.photo = photo] ELSE ofWorker[v]]
        /\ \/ ofWorker' = [v \in WorkerIds |->
                IF v = w THEN [ofWorker[v] EXCEPT !.photo = photo] ELSE ofWorker[v]]
           \/ ofWorker' = ofWorker
  BY DEF ChangePhoto, PhotoOfWorker, ProfilesInv, ProfilesTypeOK
<1> HIDE DEF w
<1>6. /\ [ofUser[u] EXCEPT !.photo = photo] \in OfUserRows
      /\ [asked[u] EXCEPT !.photo = said] \in Asks
  BY <1>2 DEF OfUserRows, Asks
<1>7. /\ ofUser' \in [UserIds -> OfUserRows] /\ asked' \in [UserIds -> Asks]
      /\ ofUser'[u] = [ofUser[u] EXCEPT !.photo = photo]
      /\ asked'[u] = [asked[u] EXCEPT !.photo = said]
      /\ \A x \in UserIds : x # u => asked'[x] = asked[x] /\ ofUser'[x] = ofUser[x]
  BY <1>4, <1>5, <1>6 DEF ProfilesInv, ProfilesTypeOK, OfUserRows, Asks
<1>8. \A v \in WorkerIds :
        /\ \/ v = w /\ ofWorker'[v] = [ofWorker[v] EXCEPT !.photo = photo]
           \/ ofWorker'[v] = ofWorker[v] /\ (v = w => said = Unsaid)
        /\ ofWorker'[v] \in OfWorkerRows
        /\ workers[v] # NoRow /\ workers[v].user # u => ofWorker'[v] = ofWorker[v]
  <2> TAKE v \in WorkerIds
  <2>1. [ofWorker[v] EXCEPT !.photo = photo] \in OfWorkerRows
    BY <1>2 DEF OfWorkerRows
  <2>2. \/ v = w /\ ofWorker'[v] = [ofWorker[v] EXCEPT !.photo = photo]
        \/ ofWorker'[v] = ofWorker[v] /\ (v = w => said = Unsaid)
    BY <1>5
  <2> QED BY <1>2, <1>3, <2>1, <2>2
<1>9. ofWorker' \in [WorkerIds -> OfWorkerRows]
  <2>1. ofWorker' = [v \in WorkerIds |-> ofWorker'[v]]
    BY <1>5 DEF ProfilesInv, ProfilesTypeOK
  <2> QED BY <1>8, <2>1
<1>10. LET a == asked'[u]
       IN  /\ a.name # Unsaid =>
                a.name # Blank /\ ofUser'[u].full = a.name /\ ofUser'[u].parts = a.name
           /\ a.photo # Unsaid => ofUser'[u].photo = a.photo
           /\ a.photo # Unsaid /\ w # NoRow => ofWorker'[w].photo = a.photo
           /\ a.phone # Unsaid => w # NoRow /\ ofWorker'[w].phone = a.phone
           /\ a.listed # Unsaid => w # NoRow /\ a.listed # Blank /\ ofWorker'[w].name = a.listed
  <2>1. /\ asked'[u].name = asked[u].name /\ asked'[u].phone = asked[u].phone
        /\ asked'[u].listed = asked[u].listed /\ asked'[u].photo = said
    BY <1>2, <1>7 DEF Asks
  <2>2. /\ ofUser'[u].full = ofUser[u].full /\ ofUser'[u].parts = ofUser[u].parts
        /\ ofUser'[u].photo = photo
    BY <1>2, <1>7 DEF OfUserRows
  <2>3. ASSUME w # NoRow
        PROVE  /\ ofWorker'[w].name = ofWorker[w].name /\ ofWorker'[w].phone = ofWorker[w].phone
               /\ said # Unsaid => ofWorker'[w].photo = photo
    <3>1. w \in WorkerIds /\ ofWorker[w] \in OfWorkerRows
      BY <1>2, <1>3, <2>3
    <3>2. \/ ofWorker'[w] = [ofWorker[w] EXCEPT !.photo = photo]
          \/ ofWorker'[w] = ofWorker[w] /\ said = Unsaid
      BY <1>8, <3>1
    <3> QED BY <3>1, <3>2 DEF OfWorkerRows
  <2>4. said = photo \/ said = Unsaid
    OBVIOUS
  <2> QED BY <1>3, <2>1, <2>2, <2>3, <2>4 DEF InColumns
<1>11. AskedInColumns'
  BY <1>1, <1>7, <1>8, <1>10, OneUserEdited DEF w
<1> QED BY <1>1, <1>7, <1>9, <1>11, EditKeeps

LEMMA UpdateUserPageKeeps ==
  ASSUME ProfilesInv, NEW u \in UserIds, NEW name \in Texts \cup {Unsaid},
         NEW phone \in Columns \cup {Unsaid}, UpdateUserPage(u, name, phone)
  PROVE  ProfilesInv'
<1> DEFINE w == WorkerOf(u)
           asks == [asked[u] EXCEPT
                     !.name = Said(@, name),
                     !.listed = IF w = NoRow THEN @ ELSE Said(@, name),
                     !.phone = IF w = NoRow THEN @ ELSE Said(@, phone)]
<1>1. Edit /\ HasUser(u) /\ UNCHANGED workforceVars
  BY DEF UpdateUserPage
<1>2. /\ ofUser[u] \in OfUserRows /\ asked[u] \in Asks
      /\ \A v \in WorkerIds : ofWorker[v] \in OfWorkerRows
  BY ColumnRows DEF ProfilesInv
<1>3. w \in WorkerIds \cup {NoRow} /\ InColumns(asked[u], ofUser[u], w)
      /\ \A v \in WorkerIds : v = w => HasWorker(v) /\ workers[v].user = u
  BY <1>1, WorkersFound DEF ProfilesInv, AskedInColumns, WorkersOfUsers
<1>4. name \in Columns \cup {Unsaid} /\ (name # Unsaid => name # Blank)
  BY TextsSay
<1>5. /\ ofUser' = [ofUser EXCEPT ![u] = [ofUser[u] EXCEPT !.full = Said(@, name), !.parts = Said(@, name)]]
      /\ asked' = [asked EXCEPT ![u] = asks]
      /\ ofWorker' = [v \in WorkerIds |->
           IF v = w
             THEN [ofWorker[v] EXCEPT !.name = Said(@, name), !.phone = Said(@, phone)]
             ELSE ofWorker[v]]
  BY DEF UpdateUserPage, ProfilesInv, ProfilesTypeOK
<1>6. /\ asks \in Asks /\ asks.photo = asked[u].photo /\ asks.name = Said(asked[u].name, name)
      /\ w = NoRow => asks.listed = asked[u].listed /\ asks.phone = asked[u].phone
      /\ w # NoRow => /\ asks.listed = Said(asked[u].listed, name)
                      /\ asks.phone = Said(asked[u].phone, phone)
  BY <1>2, <1>4, RowsSaid DEF Asks
<1> HIDE DEF w, asks
<1>7. [ofUser[u] EXCEPT !.full = Said(@, name), !.parts = Said(@, name)] \in OfUserRows
  BY <1>2, <1>4, RowsSaid DEF OfUserRows
<1>8. /\ ofUser' \in [UserIds -> OfUserRows] /\ asked' \in [UserIds -> Asks]
      /\ ofUser'[u] = [ofUser[u] EXCEPT !.full = Said(@, name), !.parts = Said(@, name)]
      /\ asked'[u] = asks
      /\ \A x \in UserIds : x # u => asked'[x] = asked[x] /\ ofUser'[x] = ofUser[x]
  BY <1>5, <1>6, <1>7 DEF ProfilesInv, ProfilesTypeOK, OfUserRows, Asks
<1>9. \A v \in WorkerIds :
        /\ v = w => ofWorker'[v] = [ofWorker[v] EXCEPT !.name = Said(@, name), !.phone = Said(@, phone)]
        /\ ofWorker'[v] \in OfWorkerRows
        /\ workers[v] # NoRow /\ workers[v].user # u => ofWorker'[v] = ofWorker[v]
  <2> TAKE v \in WorkerIds
  <2>1. [ofWorker[v] EXCEPT !.name = Said(@, name), !.phone = Said(@, phone)] \in OfWorkerRows
    BY <1>2, <1>4, RowsSaid DEF OfWorkerRows
  <2> QED BY <1>2, <1>3, <1>5, <2>1
<1>10. ofWorker' \in [WorkerIds -> OfWorkerRows]
  BY <1>5, <1>9
<1>11. LET a == asked'[u]
       IN  /\ a.name # Unsaid =>
                a.name # Blank /\ ofUser'[u].full = a.name /\ ofUser'[u].parts = a.name
           /\ a.photo # Unsaid => ofUser'[u].photo = a.photo
           /\ a.photo # Unsaid /\ w # NoRow => ofWorker'[w].photo = a.photo
           /\ a.phone # Unsaid => w # NoRow /\ ofWorker'[w].phone = a.phone
           /\ a.listed # Unsaid => w # NoRow /\ a.listed # Blank /\ ofWorker'[w].name = a.listed
  <2>1. /\ ofUser'[u].full = Said(ofUser[u].full, name)
        /\ ofUser'[u].parts = Said(ofUser[u].parts, name)
        /\ ofUser'[u].photo = ofUser[u].photo
    BY <1>2, <1>8 DEF OfUserRows
  <2>2. ASSUME w # NoRow
        PROVE  /\ ofWorker'[w].name = Said(ofWorker[w].name, name)
               /\ ofWorker'[w].phone = Said(ofWorker[w].phone, phone)
               /\ ofWorker'[w].photo = ofWorker[w].photo
    <3>1. w \in WorkerIds /\ ofWorker[w] \in OfWorkerRows
      BY <1>2, <1>3, <2>2
    <3>2. ofWorker'[w] = [ofWorker[w] EXCEPT !.name = Said(@, name), !.phone = Said(@, phone)]
      BY <1>9, <3>1
    <3> QED BY <3>1, <3>2 DEF OfWorkerRows
  <2> QED BY <1>3, <1>4, <1>6, <1>8, <2>1, <2>2 DEF InColumns, Said
<1>12. AskedInColumns'
  BY <1>1, <1>8, <1>9, <1>11, OneUserEdited DEF w
<1> QED BY <1>1, <1>8, <1>10, <1>12, EditKeeps

LEMMA ProfilesKept == ProfilesInv /\ [ProfilesNext]_profilesVars => ProfilesInv'
<1> SUFFICES ASSUME ProfilesInv, [ProfilesNext]_profilesVars PROVE ProfilesInv'
  OBVIOUS
<1>1. CASE UNCHANGED profilesVars
  <2>1. UNCHANGED workforceVars /\ UNCHANGED <<ofUser, ofWorker, asked, edits>>
    BY <1>1 DEF profilesVars
  <2>2. WorkforceInv' /\ ProfilesTypeOK'
    BY <2>1, WorkforceKept DEF ProfilesInv, ProfilesTypeOK
  <2>3. \A u \in UserIds : WorkerOf(u)' = WorkerOf(u) /\ (HasUser(u)' <=> HasUser(u))
    BY <2>1, SameWorkers DEF ProfilesInv, HasUser, workforceVars
  <2>4. \A u \in UserIds : HasUser(u)' => InColumns(asked[u], ofUser[u], WorkerOf(u))'
    BY <2>1, <2>3 DEF ProfilesInv, AskedInColumns, InColumns
  <2>5. AskedInColumns'
    BY <2>1, <2>4 DEF ProfilesInv, AskedInColumns, workforceVars
  <2> QED BY <2>2, <2>5 DEF ProfilesInv
<1>2. CASE Relink
  BY <1>2, RelinkKeeps
<1>3. CASE \E u \in UserIds, name \in Texts :
             \/ OpenAccount(u, name)
             \/ \E w \in WorkerIds, d \in Documents : Hire(w, u, d, name)
  BY <1>3, OpenAccountKeeps, HireKeeps
<1>4. CASE \E u \in UserIds, name \in Texts \cup {Unsaid}, phone \in Columns \cup {Unsaid} :
             UpdateProfile(u, name, phone) \/ UpdateUserPage(u, name, phone)
  BY <1>4, UpdateProfileKeeps, UpdateUserPageKeeps
<1>5. CASE \E u \in UserIds : \/ \E phone \in Texts : UpdateMe(u, phone)
                              \/ \E photo \in Columns : ChangePhoto(u, photo)
  BY <1>5, UpdateMeKeeps, ChangePhotoKeeps
<1> QED BY <1>1, <1>2, <1>3, <1>4, <1>5 DEF ProfilesNext

-------------------------------------------------------------------------------
(* Forms *)

LEMMA FormsSame == WorkforceInv => SameForm
<1> SUFFICES ASSUME WorkforceInv, NEW w \in WorkerIds, NEW u \in UserIds, HasWorker(w), HasUser(u),
                    u \in {workers[w].user, LinkedUser(w)}
             PROVE  /\ FormOfWorker(w) = FormOfUser(u)
                    /\ ProfileForm(u).identity = [worker |-> w, user |-> u]
                    /\ ProfileForm(u).document = FormOfWorker(w).document
  BY DEF SameForm
<1>1. u # NoRow /\ w # NoRow
  BY NobodyIsNoRow
<1>2. workers[w].user = u
  <2>1. CASE u = LinkedUser(w)
    <3>1. IF workers[w].user # NoRow THEN u = workers[w].user ELSE users[u].worker = w
      BY <1>1, <2>1, OneLinked
    <3>2. users[u].worker = w => workers[w].user = u
      BY <1>1 DEF WorkforceInv, NamesBack
    <3> QED BY <3>1, <3>2
  <2> QED BY <2>1
<1>3. WorkerOf(u) = w
  BY <1>2, WorkerOfIs
<1> QED BY <1>1, <1>2, <1>3 DEF FormOfWorker, FormOfUser, Form, ProfileForm, Identity

LEMMA FormsTaken == WorkforceInv => FormIsTaken
<1> SUFFICES ASSUME WorkforceInv, NEW w \in WorkerIds, HasWorker(w)
             PROVE  LET u == FormOfWorker(w).user IN
                    /\ HasUser(u) => Matches(w, u) /\ UserFree(u, w)
                    /\ "user_creation" \in PendingSteps(w) => LinkedUser(w) = NoRow
  BY DEF FormIsTaken
<1> DEFINE u == workers[w].user
<1>1. FormOfWorker(w).user = u
  BY DEF FormOfWorker, Form
<1>2. u \in UserIds \cup {NoRow} /\ workers[w] # NoRow
  BY RowIsARow, RowsAreRows DEF WorkforceInv
<1>3. ASSUME HasUser(u) PROVE Matches(w, u) /\ UserFree(u, w)
  <2>1. u \in UserIds /\ u # NoRow
    BY <1>2, <1>3 DEF HasUser
  <2>2. users[u].worker \in {NoRow, w}
    BY <1>3, <2>1, RowsAgree DEF LinksAgree
  <2>3. LinkedUser(w) \in {NoRow, u}
    BY <2>1, OneLinked
  <2>4. UserFree(u, w)
    BY <1>2, <2>1 DEF UserFree, WorkforceInv, UsersApart
  <2> QED BY <1>3, <2>2, <2>3, <2>4 DEF Matches
<1>4. ASSUME u = NoRow PROVE LinkedUser(w) = NoRow
  <2> SUFFICES ASSUME LinkedUser(w) # NoRow PROVE FALSE
    OBVIOUS
  <2>1. LinkedUser(w) \in UserIds /\ HasUser(LinkedUser(w)) /\ users[LinkedUser(w)].worker = w
    BY <1>4, OneLinked
  <2>2. workers[w].user = LinkedUser(w)
    BY <2>1, NobodyIsNoRow DEF WorkforceInv, NamesBack
  <2> QED BY <1>4, <2>2
<1>5. "user_creation" \in PendingSteps(w) => u = NoRow
  BY DEF PendingSteps
<1> QED BY <1>1, <1>3, <1>4, <1>5

LEMMA FormsShow == ProfilesInv => FormShowsAsked
<1> SUFFICES ASSUME ProfilesInv, NEW u \in UserIds, HasUser(u)
             PROVE  LET w == WorkerOf(u) IN
                    /\ asked[u].name \in {Unsaid, ProfileForm(u).name}
                    /\ asked[u].phone \in {Unsaid, ProfileForm(u).phone}
                    /\ w # NoRow => asked[u].listed \in {Unsaid, FormOfWorker(w).name}
  BY DEF FormShowsAsked
<1> DEFINE a == asked[u]
           w == WorkerOf(u)
<1>1. /\ a.name # Unsaid => a.name # Blank /\ ofUser[u].full = a.name
      /\ a.phone # Unsaid => w # NoRow /\ ofWorker[w].phone = a.phone
      /\ a.listed # Unsaid => w # NoRow /\ a.listed # Blank /\ ofWorker[w].name = a.listed
  BY DEF ProfilesInv, AskedInColumns, InColumns
<1>2. /\ ProfileForm(u).name = FirstOf(ofUser[u].full, FirstOf(ofUser[u].parts, NameOf(w)))
      /\ ProfileForm(u).phone = PhoneOf(w)
  BY DEF ProfileForm
<1>3. FormOfWorker(w).name = FirstOf(NameOf(w), NameOfUser(workers[w].user))
  BY DEF FormOfWorker, Form
<1> HIDE DEF a, w
<1>4. /\ a.name \in {Unsaid, ProfileForm(u).name} /\ a.phone \in {Unsaid, ProfileForm(u).phone}
      /\ w # NoRow => a.listed \in {Unsaid, FormOfWorker(w).name}
  BY <1>1, <1>2, <1>3 DEF FirstOf, NameOf, PhoneOf
<1> QED BY <1>4 DEF a, w

LEMMA ScreensTell == ProfilesInv => ScreensAgree
<1> SUFFICES ASSUME ProfilesInv PROVE ScreensAgree
  OBVIOUS
<1>1. LinksAgree /\ SameForm /\ FormIsTaken
  BY RowsAgree, FormsSame, FormsTaken DEF ProfilesInv
<1>2. SameWorker
  BY SameWorkerHeld DEF ProfilesInv, SameWorker
<1> QED BY <1>1, <1>2, AskedShown, FormsShow DEF ScreensAgree, PeopleAgree

\* The profile, the pages and the onboarding forms show, of any number of people, the same
\* worker for a user and what was last asked of it, whichever handlers were called and
\* whichever of the columns they wrote (getProfileRow, WORKER_PROFILE_SELECT,
\* getCompleteProfileData).
THEOREM ScreensKeepAgreeing ==
  WorkforceInit /\ ProfilesInit /\ [][ProfilesNext]_profilesVars => []ScreensAgree
BY ProfilesBegin, ProfilesKept, ScreensTell, PTL

-------------------------------------------------------------------------------
(***************************************************************************)
(* Roles and their grants.                                                 *)
(***************************************************************************)

\* What a role holds of a module is what an access level stands for.
HeldByLevel ==
  \A r \in RoleIds : Exists(r) =>
    \A m \in Modules : \E access \in AccessLevels : Held(r, m) = PermissionsFor(m, access)

RolesInv == RolesTypeOK /\ HeldByLevel

\* No level grants what the module does not have.
LEMMA LevelsInTable ==
  \A m \in Modules, access \in AccessLevels : PermissionsFor(m, access) \subseteq PermissionsOf[m]
BY DEF PermissionsFor, AccessLevels

\* The level shown for what a level grants, when it grants something, grants the same.
LEMMA LevelShown ==
  ASSUME NEW m \in Modules, NEW access \in AccessLevels, PermissionsFor(m, access) # {}
  PROVE  /\ InferModuleAccess(m, PermissionsFor(m, access)) \in AccessLevels
         /\ PermissionsFor(m, InferModuleAccess(m, PermissionsFor(m, access)))
              = PermissionsFor(m, access)
<1> DEFINE held == PermissionsFor(m, access)
<1>1. CASE held = PermissionsOf[m]
  <2>1. InferModuleAccess(m, held) = "admin"
    BY <1>1 DEF InferModuleAccess
  <2>2. PermissionsFor(m, "admin") = PermissionsOf[m]
    BY DEF PermissionsFor
  <2> QED BY <1>1, <2>1, <2>2 DEF AccessLevels
<1>2. CASE held # PermissionsOf[m] /\ held \subseteq ReadActions
  <2>1. InferModuleAccess(m, held) = "read"
    BY <1>2 DEF InferModuleAccess
  <2>2. PermissionsFor(m, "read") = PermissionsOf[m] \cap ReadActions
    BY DEF PermissionsFor
  <2>3. held = PermissionsOf[m] \cap ReadActions
    <3>1. access = "read" \/ access = "write"
      BY <1>2 DEF AccessLevels, PermissionsFor
    <3>2. CASE access = "read"
      BY <3>2 DEF PermissionsFor
    <3>3. CASE access = "write"
      <4>1. held = (PermissionsOf[m] \cap ReadActions) \cup (PermissionsOf[m] \cap WriteActions)
        BY <3>3 DEF PermissionsFor
      <4> HIDE DEF held
      <4> QED BY <1>2, <4>1
    <3> QED BY <3>1, <3>2, <3>3
  <2> QED BY <2>1, <2>2, <2>3 DEF AccessLevels
<1>3. CASE held # PermissionsOf[m] /\ ~(held \subseteq ReadActions)
  <2>1. InferModuleAccess(m, held) = "write"
    BY <1>3 DEF InferModuleAccess
  <2>2. access = "write"
    BY <1>3 DEF AccessLevels, PermissionsFor
  <2> QED BY <2>1, <2>2 DEF AccessLevels
<1> QED BY <1>1, <1>2, <1>3

\* What GrantedFor grants of a module.
LEMMA GrantedOf ==
  ASSUME NEW wanted \in Requested
  PROVE  /\ DOMAIN wanted \subseteq Modules
         /\ GrantedFor(wanted) \subseteq Grants
         /\ \A m \in DOMAIN wanted : wanted[m] \in AccessLevels
         /\ \A m \in Modules : \A a :
              <<m, a>> \in GrantedFor(wanted) <=>
                m \in DOMAIN wanted /\ a \in PermissionsFor(m, wanted[m])
<1>1. PICK M \in SUBSET Modules : wanted \in [M -> AccessLevels]
  BY DEF Requested
<1>2. DOMAIN wanted = M /\ \A m \in M : wanted[m] \in AccessLevels
  BY <1>1
<1>3. \A g : g \in GrantedFor(wanted) <=>
               \E m \in M : \E a \in PermissionsFor(m, wanted[m]) : g = <<m, a>>
  BY <1>2 DEF GrantedFor
<1>4. \A g : g \in Grants <=> \E m \in Modules : \E a \in PermissionsOf[m] : g = <<m, a>>
  BY DEF Grants
<1>5. GrantedFor(wanted) \subseteq Grants
  BY <1>2, <1>3, <1>4, LevelsInTable
<1>6. \A m \in Modules : \A a :
        <<m, a>> \in GrantedFor(wanted) <=> m \in M /\ a \in PermissionsFor(m, wanted[m])
  BY <1>3
<1> QED BY <1>2, <1>5, <1>6

LEMMA RolesBegin == RolesInit => RolesInv
<1> SUFFICES ASSUME RolesInit PROVE RolesInv
  OBVIOUS
<1>1. PICK code \in ProtectedCodes :
        /\ roles = [r \in RoleIds |->
                  IF r = Seeded THEN [code |-> code, active |-> TRUE] ELSE NoRole]
        /\ grants = [r \in RoleIds |-> IF r = Seeded THEN Grants ELSE {}]
  BY DEF RolesInit
<1>2. RolesTypeOK
  BY <1>1, RolesAssumption DEF RolesTypeOK, RoleRows
<1>3. HeldByLevel
  <2> SUFFICES ASSUME NEW r \in RoleIds, Exists(r), NEW m \in Modules
               PROVE  \E access \in AccessLevels : Held(r, m) = PermissionsFor(m, access)
    BY DEF HeldByLevel
  <2>1. r = Seeded
    BY <1>1 DEF Exists
  <2>2. \A a \in PermissionsOf[m] : <<m, a>> \in Grants
    BY DEF Grants
  <2>3. Held(r, m) = PermissionsOf[m]
    BY <1>1, <2>1, <2>2 DEF Held
  <2>4. PermissionsFor(m, "admin") = PermissionsOf[m] /\ "admin" \in AccessLevels
    BY DEF PermissionsFor, AccessLevels
  <2> QED BY <2>3, <2>4
<1> QED BY <1>2, <1>3 DEF RolesInv

LEMMA RolesKept == RolesInv /\ [RolesNext]_rolesVars => RolesInv'
<1> SUFFICES ASSUME RolesInv, [RolesNext]_rolesVars PROVE RolesInv'
  OBVIOUS
<1>0. "none" \in AccessLevels /\ \A m \in Modules : PermissionsFor(m, "none") = {}
  BY DEF AccessLevels, PermissionsFor
<1>1. ASSUME NEW r \in RoleIds, NEW code \in Codes, NEW active \in BOOLEAN,
             NEW wanted \in Requested,
             \/ CreateRole(r, code, active, wanted)
             \/ UpdateRole(r, code, active, wanted)
      PROVE  RolesInv'
  <2>1. /\ roles' = [roles EXCEPT ![r] = [code |-> code, active |-> active]]
        /\ \/ grants' = [grants EXCEPT ![r] = GrantedFor(wanted)]
           \/ /\ grants' = [grants EXCEPT
                   ![r] = (@ \ OfModules(DOMAIN wanted)) \cup GrantedFor(wanted)]
              /\ Exists(r)
    BY <1>1 DEF CreateRole, UpdateRole, SyncRoleModules
  <2>2. [code |-> code, active |-> active] \in RoleRows
    BY DEF RoleRows
  <2>3. GrantedFor(wanted) \subseteq Grants
    BY GrantedOf
  <2>4. RolesTypeOK'
    BY <2>1, <2>2, <2>3 DEF RolesInv, RolesTypeOK
  <2>5. ASSUME NEW s \in RoleIds, s # r
        PROVE  roles'[s] = roles[s] /\ grants'[s] = grants[s]
    BY <2>1, <2>5 DEF RolesInv, RolesTypeOK
  <2>6. ASSUME NEW m \in Modules
        PROVE  \E access \in AccessLevels : Held(r, m)' = PermissionsFor(m, access)
    <3>1. CASE m \in DOMAIN wanted
      <4>1. \A a \in PermissionsOf[m] :
              <<m, a>> \in grants'[r] <=> <<m, a>> \in GrantedFor(wanted)
        <5>1. \A a \in PermissionsOf[m] : <<m, a>> \in Grants
          BY DEF Grants
        <5>2. \A a \in PermissionsOf[m] : <<m, a>> \in OfModules(DOMAIN wanted)
          BY <3>1, <5>1 DEF OfModules
        <5> QED BY <2>1, <5>2 DEF RolesInv, RolesTypeOK
      <4>2. Held(r, m)' = PermissionsFor(m, wanted[m]) /\ wanted[m] \in AccessLevels
        BY <3>1, <4>1, GrantedOf, LevelsInTable DEF Held
      <4> QED BY <4>2
    <3>2. CASE m \notin DOMAIN wanted
      <4>1. \A a : <<m, a>> \notin GrantedFor(wanted) /\ <<m, a>> \notin OfModules(DOMAIN wanted)
        BY <3>2, GrantedOf DEF OfModules
      <4>2. CASE grants' = [grants EXCEPT ![r] = GrantedFor(wanted)]
        <5>1. Held(r, m)' = {}
          BY <4>1, <4>2 DEF Held, RolesInv, RolesTypeOK
        <5> QED BY <1>0, <5>1
      <4>3. CASE /\ grants' = [grants EXCEPT
                      ![r] = (@ \ OfModules(DOMAIN wanted)) \cup GrantedFor(wanted)]
                 /\ Exists(r)
        <5>1. Held(r, m)' = Held(r, m)
          BY <4>1, <4>3 DEF Held, RolesInv, RolesTypeOK
        <5> QED BY <4>3, <5>1 DEF RolesInv, HeldByLevel
      <4> QED BY <2>1, <4>2, <4>3
    <3> QED BY <3>1, <3>2
  <2>7. HeldByLevel'
    <3> SUFFICES ASSUME NEW s \in RoleIds, Exists(s)', NEW m \in Modules
                 PROVE  \E access \in AccessLevels : Held(s, m)' = PermissionsFor(m, access)
      BY DEF HeldByLevel
    <3>1. CASE s = r
      BY <2>6, <3>1
    <3>2. CASE s # r
      <4>1. Exists(s) /\ Held(s, m)' = Held(s, m)
        BY <2>5, <3>2 DEF Exists, Held
      <4> QED BY <4>1 DEF RolesInv, HeldByLevel
    <3> QED BY <3>1, <3>2
  <2> QED BY <2>4, <2>7 DEF RolesInv
<1>2. ASSUME NEW r \in RoleIds, DeleteRole(r) PROVE RolesInv'
  <2>1. roles' = [roles EXCEPT ![r] = Deleted] /\ grants' = grants
    BY <1>2 DEF DeleteRole
  <2>2. RolesTypeOK'
    BY <2>1 DEF RolesInv, RolesTypeOK
  <2>3. \A s \in RoleIds : Exists(s)' => Exists(s)
    BY <2>1 DEF Exists, RolesInv, RolesTypeOK
  <2>4. HeldByLevel'
    BY <2>1, <2>3 DEF RolesInv, HeldByLevel, Held
  <2> QED BY <2>2, <2>4 DEF RolesInv
<1>3. CASE UNCHANGED rolesVars
  BY <1>3 DEF rolesVars, RolesInv, RolesTypeOK, HeldByLevel, Held, Exists
<1> QED BY <1>1, <1>2, <1>3 DEF RolesNext

\* What the screen shows of each module is the level that grants what is held.
LEMMA LevelsRestored == RolesInv => ScreenKeepsGrants
<1> SUFFICES ASSUME RolesInv PROVE ScreenKeepsGrants
  OBVIOUS
<1> SUFFICES ASSUME NEW r \in RoleIds, Exists(r) PROVE GrantedFor(Shown(r)) = grants[r]
  BY DEF ScreenKeepsGrants
<1> DEFINE M == {m \in Modules : Held(r, m) # {}}
<1>1. \A m \in Modules : \E access \in AccessLevels : Held(r, m) = PermissionsFor(m, access)
  BY DEF RolesInv, HeldByLevel
<1>2. \A m \in M : /\ InferModuleAccess(m, Held(r, m)) \in AccessLevels
                   /\ PermissionsFor(m, InferModuleAccess(m, Held(r, m))) = Held(r, m)
  BY <1>1, LevelShown
<1>3. Shown(r) = [m \in M |-> InferModuleAccess(m, Held(r, m))]
  BY DEF Shown
<1>4. \A g : g \in GrantedFor(Shown(r)) <=>
               \E m \in M : \E a \in PermissionsFor(m, InferModuleAccess(m, Held(r, m))) :
                 g = <<m, a>>
  <2> HIDE DEF M
  <2> QED BY <1>3 DEF GrantedFor
<1>5. \A g : g \in GrantedFor(Shown(r)) <=>
               \E m \in Modules : \E a \in Held(r, m) : g = <<m, a>>
  BY <1>2, <1>4
<1>6. \A g : g \in grants[r] <=> \E m \in Modules : \E a \in Held(r, m) : g = <<m, a>>
  <2>1. \A g \in grants[r] : \E m \in Modules : \E a \in PermissionsOf[m] : g = <<m, a>>
    BY DEF RolesInv, RolesTypeOK, Grants
  <2> QED BY <2>1 DEF Held
<1> QED BY <1>5, <1>6

\* Saving a role as the screen shows it changes none of its grants (syncRoleModules
\* with what inferModuleAccess shows), for any table of permissions.
THEOREM ScreensKeepGrants ==
  RolesInit /\ [][RolesNext]_rolesVars => []ScreenKeepsGrants
BY LevelsRestored, RolesBegin, RolesKept, PTL

===============================================================================
