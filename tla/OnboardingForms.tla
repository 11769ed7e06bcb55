--------------------------- MODULE OnboardingForms ---------------------------
(***************************************************************************)
(* What the onboarding screens show of a worker and a user: the steps that *)
(* are missing, the form that is opened for a worker or for a user, and    *)
(* the one that completes a profile.  onboarding-service/services.js and   *)
(* mappers/worker.mapper.js, which only read; labor data and the lists to  *)
(* choose from are left out.                                               *)
(***************************************************************************)
EXTENDS Profiles

\* getOnboardingStatus: a user that was deleted counts as made.
PendingSteps(w) ==
  (IF workers[w].user = NoRow THEN {"user_creation"} ELSE {})
  \cup (IF workers[w].contracts = 0 THEN {"contract_creation"} ELSE {})

DocumentOf(w) == IF w = NoRow THEN NoRow ELSE workers[w].document
NameOf(w)     == IF w = NoRow THEN Blank ELSE ofWorker[w].name
PhoneOf(w)    == IF w = NoRow THEN Blank ELSE ofWorker[w].phone
NameOfUser(u) == IF HasUser(u) THEN ofUser[u].parts ELSE Blank

\* The personal data of getOnboardingPrefill, with the ids that the form sends back.
Form(w, u) ==
  [worker |-> w, user |-> u, document |-> DocumentOf(w),
   name |-> FirstOf(NameOf(w), NameOfUser(u)), phone |-> PhoneOf(w)]

\* Opened for a worker alone, also where the user it names was deleted.
FormOfWorker(w) == Form(w, workers[w].user)

\* Opened for a user: the worker that names it.
FormOfUser(u) == Form(WorkerOf(u), u)

\* mapWorkerIdentity
Identity(w, u) ==
  [worker |-> w, user |-> IF w # NoRow /\ workers[w].user # NoRow THEN workers[w].user ELSE u]

\* getCompleteProfileData, mapCompleteProfileGetResponse
ProfileForm(u) ==
  LET w == WorkerOf(u) IN
  [identity |-> Identity(w, u), document |-> DocumentOf(w), phone |-> PhoneOf(w),
   name |-> FirstOf(ofUser[u].full, FirstOf(ofUser[u].parts, NameOf(w)))]

-------------------------------------------------------------------------------
\* The form of a worker is that of its user, and so is the one that completes the
\* profile: the screens look for the pair from either end, in different columns.
SameForm ==
  \A w \in WorkerIds, u \in UserIds :
    HasWorker(w) /\ HasUser(u) /\ u \in {workers[w].user, LinkedUser(w)} =>
      /\ FormOfWorker(w) = FormOfUser(u)
      /\ ProfileForm(u).identity = [worker |-> w, user |-> u]
      /\ ProfileForm(u).document = FormOfWorker(w).document

\* The two ids a form shows are accepted when it is sent, unless one of the rows was
\* deleted; where the status says that the user is missing, no user is in the way.
FormIsTaken ==
  \A w \in {v \in WorkerIds : HasWorker(v)} :
    LET u == FormOfWorker(w).user IN
    /\ HasUser(u) => Matches(w, u) /\ UserFree(u, w)
    /\ "user_creation" \in PendingSteps(w) => LinkedUser(w) = NoRow

\* The forms show what was last asked, as the other screens do.
FormShowsAsked ==
  \A u \in {v \in UserIds : HasUser(v)} :
    LET w == WorkerOf(u) IN
    /\ asked[u].name \in {Unsaid, ProfileForm(u).name}
    /\ asked[u].phone \in {Unsaid, ProfileForm(u).phone}
    /\ w # NoRow => asked[u].listed \in {Unsaid, FormOfWorker(w).name}

ScreensAgree == PeopleAgree /\ SameForm /\ FormIsTaken /\ FormShowsAsked
===============================================================================
