------------------------------ MODULE Workforce ------------------------------
(***************************************************************************)
(* The rows of workers and users, which name each other, and the contracts *)
(* they are hired with: onboarding-service/services.js, createWorker.      *)
(* service.js, and the handlers that create and delete users and workers.  *)
(*                                                                         *)
(* Requests that pass their validation, one transaction a step; crews and  *)
(* places are in WorkPlacement.  A row that was deleted keeps its columns, *)
(* and the constraints of workers count it.                                *)
(***************************************************************************)
EXTENDS Naturals

CONSTANTS
  WorkerIds, UserIds, Documents,
  MaxContracts,    \* bound on the contracts of a worker
  NoRow            \* no row, no worker, no user

WorkerRows == [user : UserIds \cup {NoRow}, document : Documents, deleted : BOOLEAN,
               contracts : 0 .. MaxContracts]
UserRows   == [worker : WorkerIds \cup {NoRow}, deleted : BOOLEAN]

ASSUME WorkforceAssumption ==
  /\ MaxContracts \in Nat \ {0}
  /\ NoRow \notin WorkerIds \cup UserIds \cup WorkerRows \cup UserRows

VARIABLES
  workers,         \* user_id, document_number, deleted_at and the active contracts
  users            \* worker_id and deleted_at

workforceVars == <<workers, users>>

WorkforceTypeOK ==
  /\ workers \in [WorkerIds -> {NoRow} \cup WorkerRows]
  /\ users \in [UserIds -> {NoRow} \cup UserRows]

-------------------------------------------------------------------------------
HasWorker(w) == w # NoRow /\ workers[w] # NoRow /\ ~workers[w].deleted
HasUser(u)   == u # NoRow /\ users[u] # NoRow /\ ~users[u].deleted

\* UNIQUE on workers.document_number and on workers.user_id.
DocumentFree(d) == \A w \in WorkerIds : workers[w] # NoRow => workers[w].document # d
UserFree(u, except) ==
  \A w \in WorkerIds \ {except} : workers[w] # NoRow => workers[w].user # u

\* createWorkerRecord, createAccessUser
NewWorker(u, d, n) == [user |-> u, document |-> d, deleted |-> FALSE, contracts |-> n]
NewUser(w) == [worker |-> w, deleted |-> FALSE]

\* findUserById where the worker names a user, findUserByWorkerId otherwise.
LinkedUser(w) ==
  LET named == {u \in UserIds : HasUser(u) /\
        IF workers[w].user # NoRow THEN u = workers[w].user ELSE users[u].worker = w}
  IN IF named = {} THEN NoRow ELSE CHOOSE u \in named : TRUE

\* resolveExistingOnboardingContext: the user the request names is the worker's.
Matches(w, u) ==
  /\ HasUser(u)
  /\ workers[w].user \in {NoRow, u}
  /\ users[u].worker \in {NoRow, w}
  /\ LinkedUser(w) \in {NoRow, u}

\* createContractRecord
WithContract(w, n) == [workers EXCEPT ![w].contracts = @ + n]

\* assertNoActiveContractForExistingWorker
NoActiveContract(w, n) == n = 1 => workers[w].contracts = 0

\* updateAccessUser: the user comes to name the worker.
Linked(u, w) == [users EXCEPT ![u].worker = w]

-------------------------------------------------------------------------------
\* onboardWorker without a worker: the worker, a contract unless it is not wanted,
\* and a user where access is wanted.
OnboardNew(w, u, d, n) ==
  /\ workers[w] = NoRow
  /\ DocumentFree(d)
  /\ workers' = [workers EXCEPT ![w] = NewWorker(u, d, n)]
  /\ IF u = NoRow THEN UNCHANGED users
     ELSE users[u] = NoRow /\ users' = [users EXCEPT ![u] = NewUser(w)]

\* onboardWorker for a worker there is, with the user it has or the request names:
\* updateWorkerRecord, a contract where none is active, updateAccessUser where
\* access is wanted.
OnboardWithUser(w, u, n, access) ==
  /\ HasWorker(w)
  /\ Matches(w, u)
  /\ UserFree(u, w)
  /\ NoActiveContract(w, n)
  /\ workers' = [WithContract(w, n) EXCEPT ![w].user = u]
  /\ users' = IF access THEN Linked(u, w) ELSE users

\* The same where no user is found; createAccessUser makes one where access is wanted.
OnboardWithoutUser(w, u, n) ==
  /\ HasWorker(w)
  /\ LinkedUser(w) = NoRow
  /\ NoActiveContract(w, n)
  /\ IF u = NoRow
       THEN workers' = WithContract(w, n) /\ UNCHANGED users
       ELSE /\ users[u] = NoRow
            /\ workers' = [WithContract(w, n) EXCEPT ![w].user = u]
            /\ users' = [users EXCEPT ![u] = NewUser(w)]

\* processCompleteProfile with the worker that names the user: the contracts there
\* are are not asked for.
CompleteProfile(w, u, n) ==
  /\ HasUser(u)
  /\ HasWorker(w)
  /\ workers[w].user = u
  /\ workers[w].contracts + n <= MaxContracts
  /\ workers' = WithContract(w, n)
  /\ UNCHANGED users

\* And with none: a new worker names the user, which names no worker.
CompleteProfileOfNew(w, u, d, n) ==
  /\ HasUser(u)
  /\ ~ \E v \in WorkerIds : HasWorker(v) /\ workers[v].user = u
  /\ workers[w] = NoRow
  /\ DocumentFree(d)
  /\ UserFree(u, NoRow)
  /\ workers' = [workers EXCEPT ![w] = NewWorker(u, d, n)]
  /\ UNCHANGED users

\* createWorkerTransaction: the user does not name the worker.
CreateWorkerWithUser(w, u, d, n) ==
  /\ workers[w] = NoRow
  /\ users[u] = NoRow
  /\ DocumentFree(d)
  /\ users' = [users EXCEPT ![u] = NewUser(NoRow)]
  /\ workers' = [workers EXCEPT ![w] = NewWorker(u, d, n)]

CreateUser(u) ==
  /\ users[u] = NoRow
  /\ users' = [users EXCEPT ![u] = NewUser(NoRow)]
  /\ UNCHANGED workers

LinkKeepingOthers(u, w) ==                                  \* faulty variant
  /\ users[u] # NoRow /\ workers[w] # NoRow
  /\ users' = [users EXCEPT ![u].worker = w]
  /\ workers' = [workers EXCEPT ![w].user = u]

\* linkWorker: whoever named one of the two is unlinked first; none of the rows is
\* asked whether it was deleted.
LinkWorker(u, w) ==
  /\ users[u] # NoRow /\ workers[w] # NoRow
  /\ users' = [v \in UserIds |->
       IF v = u THEN [users[v] EXCEPT !.worker = w]
       ELSE IF users[v] # NoRow /\ users[v].worker = w THEN [users[v] EXCEPT !.worker = NoRow]
       ELSE users[v]]
  /\ workers' = [v \in WorkerIds |->
       IF v = w THEN [workers[v] EXCEPT !.user = u]
       ELSE IF workers[v] # NoRow /\ workers[v].user = u THEN [workers[v] EXCEPT !.user = NoRow]
       ELSE workers[v]]

\* Neither unlinks the other row.
DeleteUserRow(u) ==
  /\ HasUser(u)
  /\ users' = [users EXCEPT ![u].deleted = TRUE]
  /\ UNCHANGED workers

DeleteWorker(w) ==
  /\ HasWorker(w)
  /\ workers' = [workers EXCEPT ![w].deleted = TRUE]
  /\ UNCHANGED users

WorkforceInit ==
  /\ workers = [w \in WorkerIds |-> NoRow]
  /\ users = [u \in UserIds |-> NoRow]

WorkforceNext ==
  \/ \E w \in WorkerIds, u \in UserIds, d \in Documents, n \in {0, 1} :
       \/ OnboardNew(w, u, d, n) \/ OnboardNew(w, NoRow, d, n)
       \/ CompleteProfileOfNew(w, u, d, n)
       \/ CreateWorkerWithUser(w, u, d, n)
  \/ \E w \in WorkerIds, u \in UserIds, n \in {0, 1} :
       \/ \E access \in BOOLEAN : OnboardWithUser(w, u, n, access)
       \/ OnboardWithoutUser(w, u, n) \/ OnboardWithoutUser(w, NoRow, n)
       \/ CompleteProfile(w, u, n)
  \/ \E w \in WorkerIds, u \in UserIds : LinkWorker(u, w)
  \/ \E u \in UserIds : CreateUser(u) \/ DeleteUserRow(u)
  \/ \E w \in WorkerIds : DeleteWorker(w)

-------------------------------------------------------------------------------
\* A user that names a worker is the one the worker names, and a worker's user
\* names no other, however the two rows were made, linked, deleted and linked again:
\* the queries of the one column and of the other find the same person.
LinksAgree ==
  \A w \in WorkerIds, u \in UserIds :
    HasWorker(w) /\ HasUser(u) =>
      /\ users[u].worker = w => workers[w].user = u
      /\ workers[w].user = u => users[u].worker \in {NoRow, w}
===============================================================================
