------------------------------- MODULE Profiles -------------------------------
(***************************************************************************)
(* What the screens say of a person.  A name, a photo and a phone are kept *)
(* in columns of the row of the user, of that of the worker, or of both,   *)
(* and each handler writes some of them: the profile                       *)
(* (profile-service/service.js), the user's page and the worker's page     *)
(* (user-service, worker-service).                                         *)
(*                                                                         *)
(* The two rows are those of Workforce, linked and deleted there.  Texts   *)
(* that pass their validation; a phone stands for the columns that only    *)
(* the worker's row has.                                                   *)
(***************************************************************************)
EXTENDS Workforce

CONSTANTS
  Texts,           \* names, photos, phones
  MaxEdits,        \* bound on the changes
  Blank,           \* NULL
  Unsaid           \* not in the request

ASSUME ProfilesAssumption == MaxEdits \in Nat /\ {Blank, Unsaid} \cap Texts = {} /\ Blank # Unsaid

VARIABLES
  ofUser,          \* full_name, first_name with last_name, profile_photo_url
  ofWorker,        \* first_name with paternal_last_name, phone_number, profile_photo_url
  asked,           \* what the last requests about a user said, since it has this worker
  edits

profilesVars == <<workforceVars, ofUser, ofWorker, asked, edits>>

Columns == Texts \cup {Blank}
NothingAsked == [name |-> Unsaid, listed |-> Unsaid, phone |-> Unsaid, photo |-> Unsaid]

ProfilesTypeOK ==
  /\ ofUser \in [UserIds -> [full : Columns, parts : Columns, photo : Columns]]
  /\ ofWorker \in [WorkerIds -> [name : Columns, phone : Columns, photo : Columns]]
  /\ asked \in [UserIds -> [name : Columns \cup {Unsaid}, listed : Columns \cup {Unsaid},
                            phone : Columns \cup {Unsaid}, photo : Columns \cup {Unsaid}]]
  /\ edits \in 0 .. MaxEdits

-------------------------------------------------------------------------------
(* Who is whose *)

OwnRow(u) == {w \in WorkerIds : workers[w] # NoRow /\ workers[w].user = u}

\* resolveAuthenticatedWorker, and the handlers that join workers by user_id
WorkerOf(u) ==
  LET own == {w \in OwnRow(u) : HasWorker(w)} IN
  IF own = {} THEN NoRow ELSE CHOOSE w \in own : TRUE

\* getProfileRow: the worker the user names comes before the one that names the user.
ProfileWorker(u) == IF HasWorker(users[u].worker) THEN users[u].worker ELSE WorkerOf(u)

-------------------------------------------------------------------------------
(* Screens *)

FirstOf(a, b) == IF a # Blank THEN a ELSE b

\* serializeProfile, serializeWorker
Profile(u) ==
  LET w == ProfileWorker(u) IN
  [name  |-> FirstOf(ofUser[u].full, ofUser[u].parts),
   phone |-> IF w = NoRow THEN Blank ELSE ofWorker[w].phone,
   photo |-> IF w = NoRow THEN ofUser[u].photo ELSE FirstOf(ofWorker[w].photo, ofUser[u].photo)]

\* getUserById: the phone may be that of a worker that was deleted.
UserPage(u) ==
  [name  |-> ofUser[u].parts,
   phone |-> IF OwnRow(u) = {} THEN Blank ELSE ofWorker[CHOOSE w \in OwnRow(u) : TRUE].phone]

\* WORKER_PROFILE_SELECT with mapWorkerListItem
WorkerPage(w) ==
  LET u == workers[w].user IN
  [name  |-> IF ofWorker[w].name # Blank THEN ofWorker[w].name
             ELSE IF HasUser(u) THEN Profile(u).name ELSE Blank,
   phone |-> ofWorker[w].phone,
   photo |-> ofWorker[w].photo]

-------------------------------------------------------------------------------
(* Requests *)

Edit ==
  /\ edits < MaxEdits
  /\ edits' = edits + 1

Said(old, new) == IF new = Unsaid THEN old ELSE new

\* What was asked stands while the user has the same worker.
AskedOfSame == [u \in UserIds |->
  IF HasUser(u) /\ HasUser(u)' /\ ProfileWorker(u)' = ProfileWorker(u) THEN asked[u] ELSE NothingAsked]

\* createWorkerTransaction
Hire(w, u, d, name) ==
  /\ Edit
  /\ CreateWorkerWithUser(w, u, d, 0)
  /\ ofUser' = [ofUser EXCEPT ![u] = [full |-> name, parts |-> name, photo |-> Blank]]
  /\ ofWorker' = [ofWorker EXCEPT ![w] = [name |-> name, phone |-> Blank, photo |-> Blank]]
  /\ UNCHANGED asked

\* createUser leaves full_name empty.
OpenAccount(u, name) ==
  /\ Edit
  /\ CreateUser(u)
  /\ ofUser' = [ofUser EXCEPT ![u] = [full |-> Blank, parts |-> name, photo |-> Blank]]
  /\ UNCHANGED <<ofWorker, asked>>

Relink ==
  /\ Edit
  /\ \/ \E u \in UserIds, w \in WorkerIds : LinkWorker(u, w)
     \/ \E u \in UserIds : DeleteUserRow(u)
     \/ \E w \in WorkerIds : DeleteWorker(w)
  /\ asked' = AskedOfSame
  /\ UNCHANGED <<ofUser, ofWorker>>

NameAndPhone(u, name, phone) ==
  /\ ofUser' = [ofUser EXCEPT ![u].full = Said(@, name), ![u].parts = Said(@, name)]
  /\ ofWorker' = [w \in WorkerIds |->
       IF HasWorker(w) /\ (workers[w].user = u \/ users[u].worker = w)
         THEN [ofWorker[w] EXCEPT !.phone = Said(@, phone)] ELSE ofWorker[w]]

\* updateProfile, in a transaction: what only a worker's row has is refused to a user
\* without a worker, and the name with it.  The name of the worker's row stays.
UpdateProfile(u, name, phone) ==
  /\ Edit
  /\ HasUser(u)
  /\ phone # Unsaid => ProfileWorker(u) # NoRow
  /\ NameAndPhone(u, name, phone)
  /\ asked' = [asked EXCEPT ![u].name = Said(@, name), ![u].phone = Said(@, phone)]
  /\ UNCHANGED workforceVars

\* updateMe of the workers
UpdateMe(u, phone) ==
  /\ Edit
  /\ HasUser(u)
  /\ ofWorker' = [w \in WorkerIds |->
       IF w \in OwnRow(u) THEN [ofWorker[w] EXCEPT !.phone = phone] ELSE ofWorker[w]]
  /\ asked' = IF WorkerOf(u) = NoRow THEN asked ELSE [asked EXCEPT ![u].phone = phone]
  /\ UNCHANGED <<workforceVars, ofUser>>

PhotoOfWorker(u, photo) ==
  ofWorker' = [w \in WorkerIds |->
    IF w = WorkerOf(u) THEN [ofWorker[w] EXCEPT !.photo = photo] ELSE ofWorker[w]]

\* updatePhoto and deletePhoto: the user's row, then the worker's, in two queries,
\* the second of which may fail.
ChangePhoto(u, photo) ==
  /\ Edit
  /\ HasUser(u)
  /\ ofUser' = [ofUser EXCEPT ![u].photo = photo]
  /\ \/ /\ PhotoOfWorker(u, photo)
        /\ asked' = [asked EXCEPT ![u].photo = photo]
     \/ /\ UNCHANGED ofWorker
        /\ asked' = [asked EXCEPT ![u].photo = Unsaid]
  /\ UNCHANGED workforceVars

\* updateUser: the name in the three places, the phone in the worker's.
UpdateUserPage(u, name, phone) ==
  /\ Edit
  /\ HasUser(u)
  /\ ofUser' = [ofUser EXCEPT ![u].full = Said(@, name), ![u].parts = Said(@, name)]
  /\ ofWorker' = [w \in WorkerIds |->
       IF w = WorkerOf(u)
         THEN [ofWorker[w] EXCEPT !.name = Said(@, name), !.phone = Said(@, phone)]
         ELSE ofWorker[w]]
  /\ asked' = [asked EXCEPT
       ![u].name = Said(@, name),
       ![u].listed = IF WorkerOf(u) = NoRow THEN @ ELSE Said(@, name),
       ![u].phone = IF WorkerOf(u) = NoRow THEN @ ELSE Said(@, phone)]
  /\ UNCHANGED workforceVars

ProfilesInit ==
  /\ ofUser = [u \in UserIds |-> [full |-> Blank, parts |-> Blank, photo |-> Blank]]
  /\ ofWorker = [w \in WorkerIds |-> [name |-> Blank, phone |-> Blank, photo |-> Blank]]
  /\ asked = [u \in UserIds |-> NothingAsked]
  /\ edits = 0

ProfilesNext ==
  \/ Relink
  \/ \E u \in UserIds, name \in Texts :
       \/ OpenAccount(u, name)
       \/ \E w \in WorkerIds, d \in Documents : Hire(w, u, d, name)
  \/ \E u \in UserIds, name \in Texts \cup {Unsaid}, phone \in Columns \cup {Unsaid} :
       UpdateProfile(u, name, phone) \/ UpdateUserPage(u, name, phone)
  \/ \E u \in UserIds : \/ \E phone \in Texts : UpdateMe(u, phone)
                        \/ \E photo \in Columns : ChangePhoto(u, photo)

-------------------------------------------------------------------------------
(* Properties *)

\* The profile and the attendance, which look for the worker of a user in different
\* columns, find the same one.
SameWorker == \A u \in UserIds : HasUser(u) => ProfileWorker(u) = WorkerOf(u)

\* A screen that shows a field shows what was last asked, whichever handler was asked
\* and whichever columns it wrote, unless the user was given another worker since.
AskedIsShown ==
  \A u \in {v \in UserIds : HasUser(v)} :
    LET w == ProfileWorker(u)
        Shown(field, on) == asked[u][field] \in {Unsaid, on}
    IN  /\ Shown("name", Profile(u).name) /\ Shown("name", UserPage(u).name)
        /\ Shown("photo", Profile(u).photo)
        /\ Shown("phone", Profile(u).phone)
        /\ w # NoRow => /\ Shown("phone", UserPage(u).phone) /\ Shown("phone", WorkerPage(w).phone)
                        /\ Shown("photo", WorkerPage(w).photo)
                        /\ Shown("listed", WorkerPage(w).name)

PeopleAgree == LinksAgree /\ SameWorker /\ AskedIsShown
===============================================================================
