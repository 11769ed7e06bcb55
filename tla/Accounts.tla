------------------------------- MODULE Accounts -------------------------------
(***************************************************************************)
(* Who is let in: one account, what the server remembers of it, the temp   *)
(* token of a second factor, and the writers of the account.               *)
(* shared/middlewares/auth.middleware.js, services/auth-service and        *)
(* services/user-service.                                                  *)
(*                                                                         *)
(* A request with a live session is answered from an entry of the cache,   *)
(* or from a look-up that reads the row, then the roles, then stores what  *)
(* it read: what a writer changes in between, or does not clear, is        *)
(* answered until the entry expires.  The sessions themselves are in       *)
(* Sessions: here a grant is the end of a request that lets the user in.   *)
(***************************************************************************)
CONSTANT
  Writers          \* requests in progress that read before they write

\* What an entry of the cache says of the password: it has to be changed, or not.
Answers == {"change", "free"}

VARIABLES
  account,         \* the row of users
  second,          \* two_factor_auth: no row, or whether is_enabled
  tempToken,       \* a temp token was issued and has not expired
  cached,          \* authenticatedUserCache: forcePasswordChange of its entry, if any
  lookup,          \* pendingAuthenticatedUserLookups: begun, or what it read
  writer           \* what each writer is about to do upon what it read

accountsVars == <<account, second, tempToken, cached, lookup, writer>>

AccountsTypeOK ==
  /\ account \in [active : BOOLEAN, deleted : BOOLEAN, forced : BOOLEAN]
  /\ second \in {"none", "shown", "enabled"}
  /\ tempToken \in BOOLEAN
  /\ cached \in Answers \cup {"none"}
  /\ lookup \in Answers \cup {"none", "begun", "refused"}
  /\ writer \in [Writers -> {"idle", "grant", "issue", "change", "confirm"}]

InGoodStanding == account.active /\ ~account.deleted

Answer == IF account.forced THEN "change" ELSE "free"

Proceed(w, next) == writer' = [writer EXCEPT ![w] = next]

-------------------------------------------------------------------------------
(* Requests that let the user in *)

\* The password is right.  With the second factor on, a temp token is issued.
LoginRead(w) ==
  /\ writer[w] = "idle"
  /\ InGoodStanding
  /\ Proceed(w, IF second = "enabled" THEN "issue" ELSE "grant")
  /\ UNCHANGED <<account, second, tempToken, cached, lookup>>

IssueTempToken(w) ==
  /\ writer[w] = "issue"
  /\ tempToken' = TRUE
  /\ Proceed(w, "idle")
  /\ UNCHANGED <<account, second, cached, lookup>>

\* The code is right.  The standing of the account is not asked again.
VerifyCode(w) ==
  /\ writer[w] = "idle"
  /\ tempToken
  /\ second = "enabled"
  /\ Proceed(w, "grant")
  /\ UNCHANGED <<account, second, tempToken, cached, lookup>>

RefreshRead(w) ==
  /\ writer[w] = "idle"
  /\ InGoodStanding
  /\ Proceed(w, "grant")
  /\ UNCHANGED <<account, second, tempToken, cached, lookup>>

\* persistSession, or the rotation of the refresh token.
Grant(w) ==
  /\ writer[w] = "grant"
  /\ Proceed(w, "idle")
  /\ UNCHANGED <<account, second, tempToken, cached, lookup>>

TempTokenExpires ==
  /\ tempToken
  /\ tempToken' = FALSE
  /\ UNCHANGED <<account, second, cached, lookup, writer>>

-------------------------------------------------------------------------------
(* authenticateToken *)

\* A request that finds no entry begins a look-up, if none is under way.
Lookup ==
  /\ cached = "none"
  /\ lookup = "none"
  /\ lookup' = "begun"
  /\ UNCHANGED <<account, second, tempToken, cached, writer>>

\* The row, then the roles: the look-up stands for both, at the time of the first.
LookupRead ==
  /\ lookup = "begun"
  /\ \/ lookup' = IF InGoodStanding THEN Answer ELSE "refused"
     \/ lookup' = "refused"                              \* a query failed
  /\ UNCHANGED <<account, second, tempToken, cached, writer>>

\* The entry is stored, whatever was cleared since the row was read; served or
\* refused, the look-up is forgotten (finally).
LookupEnds ==
  /\ lookup \in Answers \cup {"refused"}
  /\ cached' = IF lookup \in Answers THEN lookup ELSE cached
  /\ lookup' = "none"
  /\ UNCHANGED <<account, second, tempToken, writer>>

EntryIsRenewed ==                                           \* faulty variant
  UNCHANGED accountsVars

\* The lifetime of an entry counts from when it was stored, not from its last use.
EntryExpires ==
  /\ cached # "none"
  /\ cached' = "none"
  /\ UNCHANGED <<account, second, tempToken, lookup, writer>>

-------------------------------------------------------------------------------
(* Writers of the account *)

\* disableUser, blockUser, suspendUser, enableUser: the cache is left alone.
ChangeStatus ==
  /\ ~account.deleted
  /\ account' = [account EXCEPT !.active = ~@]
  /\ UNCHANGED <<second, tempToken, cached, lookup, writer>>

DeleteUser ==
  /\ ~account.deleted
  /\ account' = [account EXCEPT !.deleted = TRUE, !.active = FALSE]
  /\ UNCHANGED <<second, tempToken, cached, lookup, writer>>

\* The entry is cleared only where requiresPasswordChange is in the request.
UpdateUser ==
  /\ ~account.deleted
  /\ \/ \E forced \in BOOLEAN, active \in BOOLEAN :
          /\ account' = [account EXCEPT !.forced = forced, !.active = active]
          /\ cached' = "none"
     \/ \E active \in BOOLEAN :
          /\ account' = [account EXCEPT !.active = active]
          /\ UNCHANGED cached
  /\ UNCHANGED <<second, tempToken, lookup, writer>>

ResetPassword ==
  /\ ~account.deleted
  /\ account' = [account EXCEPT !.forced = TRUE]
  /\ cached' = "none"
  /\ UNCHANGED <<second, tempToken, lookup, writer>>

\* The current password is right; it is compared before the new one is written.
ChangePasswordRead(w) ==
  /\ writer[w] = "idle"
  /\ InGoodStanding
  /\ Proceed(w, "change")
  /\ UNCHANGED <<account, second, tempToken, cached, lookup>>

ChangePasswordWrite(w) ==
  /\ writer[w] = "change"
  /\ account' = [account EXCEPT !.forced = FALSE]
  /\ cached' = "none"
  /\ Proceed(w, "idle")
  /\ UNCHANGED <<second, tempToken, lookup>>

-------------------------------------------------------------------------------
(* Second factor *)

\* A new secret is shown, and not enabled, whatever the old one was.
Enable2FA ==
  /\ second' = "shown"
  /\ UNCHANGED <<account, tempToken, cached, lookup, writer>>

Confirm2FARead(w) ==
  /\ writer[w] = "idle"
  /\ second # "none"
  /\ Proceed(w, "confirm")
  /\ UNCHANGED <<account, second, tempToken, cached, lookup>>

\* UPDATE ... SET is_enabled = true of the row, if it is still there.
Confirm2FAWrite(w) ==
  /\ writer[w] = "confirm"
  /\ second' = IF second = "none" THEN "none" ELSE "enabled"
  /\ Proceed(w, "idle")
  /\ UNCHANGED <<account, tempToken, cached, lookup>>

Disable2FA ==
  /\ second # "none"
  /\ second' = "none"
  /\ UNCHANGED <<account, tempToken, cached, lookup, writer>>

-------------------------------------------------------------------------------

AccountsInit ==
  /\ account = [active |-> TRUE, deleted |-> FALSE, forced |-> TRUE]
  /\ second = "none"
  /\ tempToken = FALSE
  /\ cached = "none"
  /\ lookup = "none"
  /\ writer = [w \in Writers |-> "idle"]

LetIn(w) == LoginRead(w) \/ VerifyCode(w) \/ RefreshRead(w)

Finish(w) ==
  IssueTempToken(w) \/ Grant(w) \/ ChangePasswordWrite(w) \/ Confirm2FAWrite(w)

AccountsNext ==
  \/ \E w \in Writers :
       LetIn(w) \/ ChangePasswordRead(w) \/ Confirm2FARead(w) \/ Finish(w)
  \/ TempTokenExpires
  \/ Lookup \/ LookupRead \/ LookupEnds \/ EntryExpires
  \/ ChangeStatus \/ DeleteUser \/ UpdateUser \/ ResetPassword
  \/ Enable2FA \/ Disable2FA

\* A query that was sent is answered, and lifetimes end.
AccountsFairness ==
  /\ \A w \in Writers : WF_accountsVars(Finish(w))
  /\ WF_accountsVars(LookupRead) /\ WF_accountsVars(LookupEnds)
  /\ WF_accountsVars(EntryExpires) /\ WF_accountsVars(TempTokenExpires)

AccountsSpec == AccountsInit /\ [][AccountsNext]_accountsVars /\ AccountsFairness

-------------------------------------------------------------------------------
(* Properties *)

\* An account that is disabled or deleted for good is out in the end: nothing is
\* served from memory, no look-up is about to store it, and no sign-in, code or
\* rotation that began before is left, although none of the writers that
\* disable it clears the cache and a second factor does not ask its standing.
DisabledEventuallyOut ==
  <>[](~InGoodStanding) =>
    <>[](cached = "none" /\ lookup \notin Answers /\ ~tempToken
           /\ \A w \in Writers : writer[w] # "grant")
===============================================================================
