------------------------------- MODULE Sessions -------------------------------
(***************************************************************************)
(* The sessions of one account that stays active: sign-in, rotation       *)
(* of refresh tokens, logout, the closing and the trusting of sessions.    *)
(* services/auth-service/controllers.js and                                *)
(* services/profile-service/session.service.js.                            *)
(*                                                                         *)
(* A step is a query, or a transaction that locks what it changes.  Time   *)
(* is counted in instants within which no lifetime ends; SessionLife,      *)
(* TrustWait, TrustedLife and Grace stand for 7, 7, 30 and 15 days.  A     *)
(* refresh token is a JWT signed over session and second: the tokens of    *)
(* one session signed in one instant are the same string.  A fingerprint   *)
(* stands for its device.  What a session says of browser, place and       *)
(* address is left out, and so is expires_at of refresh_tokens: a token's  *)
(* own expiry comes no later.                                              *)
(***************************************************************************)
EXTENDS Integers, FiniteSets

CONSTANTS
  Handlers,        \* HTTP requests in progress at the same time
  Devices,         \* values of device_fingerprint
  MaxSessions,     \* bound on the rows of user_sessions
  MaxTime,         \* bound on the clock
  SessionLife,     \* life of a refresh token and of the session it belongs to
  TrustWait,       \* TRUST_WAIT_DAYS
  TrustedLife,     \* TRUSTED_SESSION_DAYS
  Grace,           \* how long an expired session may be taken up again
  None             \* no row

SessionIds == 1 .. MaxSessions
Times      == 0 .. MaxTime
Expiries   == 0 .. MaxTime + SessionLife + TrustWait + TrustedLife

Tokens == [sid : SessionIds, at : Times]

SessionRows == [device : Devices, token : Tokens, expires : Expiries,
                revoked : BOOLEAN, trusted : BOOLEAN, trustAt : Expiries]

DeviceRows == [first : Times, trusted : BOOLEAN, until : Expiries]

ASSUME SessionsAssumption ==
  /\ MaxSessions \in Nat \ {0}
  /\ {MaxTime, SessionLife, TrustWait, TrustedLife, Grace} \subseteq Nat
  /\ None \notin SessionRows \cup DeviceRows

VARIABLES
  now,
  sessions,        \* user_sessions of the account
  tokens,          \* refresh_tokens: no row, usable, or revoked
  devices,         \* trusted_devices
  op               \* what each handler has read and is about to do

vars == <<now, sessions, tokens, devices, op>>

Idle == [pc |-> "idle"]

Ops == {Idle}
  \cup [pc : {"persist", "device"}, device : Devices, new : Tokens]
  \cup [pc : {"session"}, device : Devices, new : Tokens, trusted : BOOLEAN]
  \cup [pc : {"rotate"}, old : Tokens, new : Tokens]
  \cup [pc : {"rename"}, new : Tokens]
  \cup [pc : {"sessions"}, sid : SessionIds, old : Tokens]
  \cup [pc : {"close"}, sid : SessionIds]

TypeOK ==
  /\ now \in Times
  /\ sessions \in [SessionIds -> SessionRows \cup {None}]
  /\ tokens \in [Tokens -> {"none", "usable", "revoked"}]
  /\ devices \in [Devices -> DeviceRows \cup {None}]
  /\ op \in [Handlers -> Ops]

-------------------------------------------------------------------------------
(* Queries *)

Rows == {s \in SessionIds : sessions[s] # None}

\* validateActiveSession, asked by every authenticated request.
Active(s) == /\ s \in Rows
             /\ ~sessions[s].revoked
             /\ sessions[s].expires > now

\* jwt.verify of a refresh token.
Unexpired(token) == token.at + SessionLife > now

\* isDeviceTrustActive.
DeviceTrusted(row) == row # None /\ row.trusted /\ row.until > now

ReusableAnyway(d) ==                                        \* faulty variant
  {s \in Rows : sessions[s].device = d /\ sessions[s].expires > now - Grace}

\* The candidates of findReusableSessionId.
Reusable(d) ==
  {s \in Rows : /\ sessions[s].device = d
                /\ ~sessions[s].revoked
                /\ sessions[s].expires > now - Grace}

\* ORDER BY is_trusted DESC, trust_available_at ASC.
BestReusable(d) ==
  {s \in Reusable(d) : \A r \in Reusable(d) :
     \/ sessions[s].trusted /\ ~sessions[r].trusted
     \/ /\ sessions[s].trusted = sessions[r].trusted
        /\ sessions[s].trustAt <= sessions[r].trustAt}

\* crypto.randomUUID(): an id that no row and no request has.
Taken ==
  Rows \cup {op[h].new.sid : h \in {g \in Handlers : "new" \in DOMAIN op[g]}}

Fresh == {s \in SessionIds \ Taken : \A r \in SessionIds \ Taken : s <= r}

Goto(h, next) == op' = [op EXCEPT ![h] = next]

-------------------------------------------------------------------------------
(* Sign-in *)

BeginSessionUnlessActive(h, d) ==                           \* faulty variant
  \E s \in IF \E r \in Reusable(d) : Active(r) THEN BestReusable(d) ELSE Fresh :
    Goto(h, [pc |-> "persist", device |-> d, new |-> [sid |-> s, at |-> now]])

\* The session a sign-in on device d continues or begins, and its new token.
BeginSession(h, d) ==
  \E s \in IF Reusable(d) = {} THEN Fresh ELSE BestReusable(d) :
    Goto(h, [pc |-> "persist", device |-> d, new |-> [sid |-> s, at |-> now]])

\* The password is right, and so is the code where a second factor is enabled:
\* verify2FALogin begins a session in the same way.
Login(h, d) ==
  /\ op[h] = Idle
  /\ BeginSession(h, d)
  /\ UNCHANGED <<now, sessions, tokens, devices>>

\* INSERT ... ON CONFLICT (token) DO UPDATE SET revoked = FALSE.
PersistSession(h) ==
  /\ op[h].pc = "persist"
  /\ tokens' = [tokens EXCEPT ![op[h].new] = "usable"]
  /\ Goto(h, [op[h] EXCEPT !.pc = "device"])
  /\ UNCHANGED <<now, sessions, devices>>

UpsertTrustedDevice(h) ==
  /\ op[h].pc = "device"
  /\ LET d == op[h].device IN
     /\ devices' = [devices EXCEPT ![d] =
          IF @ = None THEN [first |-> now, trusted |-> FALSE, until |-> 0] ELSE @]
     /\ Goto(h, [pc |-> "session", device |-> d, new |-> op[h].new,
                 trusted |-> DeviceTrusted(devices[d])])
  /\ UNCHANGED <<now, sessions, tokens>>

TrustNow(h) ==                                              \* faulty variant
  now + (IF op[h].trusted THEN 0 ELSE TrustWait - 1)

\* trust_available_at of the row: at once on a trusted device, else the date
\* the row has, else after the waiting time.
TrustAvailable(h) ==
  LET old == sessions[op[h].new.sid] IN
  IF op[h].trusted THEN now
  ELSE IF old # None THEN old.trustAt
  ELSE now + TrustWait

\* INSERT INTO user_sessions ... ON CONFLICT (id) DO UPDATE, which opens again
\* a row that was revoked.  Its expiry is the token's.
CreateSession(h) ==
  /\ op[h].pc = "session"
  /\ sessions' = [sessions EXCEPT ![op[h].new.sid] =
       [device |-> op[h].device, token |-> op[h].new,
        expires |-> now + SessionLife, revoked |-> FALSE,
        trusted |-> op[h].trusted, trustAt |-> TrustAvailable(h)]]
  /\ Goto(h, Idle)
  /\ UNCHANGED <<now, tokens, devices>>

-------------------------------------------------------------------------------
(* Rotation of refresh tokens *)

\* The handler verifies the token and signs the next one.
RefreshToken(h, token) ==
  /\ op[h] = Idle
  /\ tokens[token] # "none"
  /\ Unexpired(token)
  /\ Goto(h, [pc |-> "rotate", old |-> token, new |-> [sid |-> token.sid, at |-> now]])
  /\ UNCHANGED <<now, sessions, tokens, devices>>

\* SELECT ... FOR UPDATE, revoke, insert.  A token that is spent is refused; a
\* new token that is a row already breaks the unique key and rolls all back.
Rotate(h) ==
  /\ op[h].pc = "rotate"
  /\ IF tokens[op[h].old] = "usable" /\ tokens[op[h].new] = "none"
       THEN /\ tokens' = [tokens EXCEPT ![op[h].old] = "revoked", ![op[h].new] = "usable"]
            /\ Goto(h, [pc |-> "rename", new |-> op[h].new])
       ELSE UNCHANGED tokens /\ Goto(h, Idle)
  /\ UNCHANGED <<now, sessions, devices>>

\* rotateSession: the row takes the new token and its expiry, if it is open.
RotateSession(h) ==
  /\ op[h].pc = "rename"
  /\ LET s == op[h].new.sid IN
     sessions' = IF Active(s)
                   THEN [sessions EXCEPT ![s].token = op[h].new,
                                         ![s].expires = now + SessionLife]
                   ELSE sessions
  /\ Goto(h, Idle)
  /\ UNCHANGED <<now, tokens, devices>>

-------------------------------------------------------------------------------
(* Closing and trusting *)

SpendAll(spent) ==
  tokens' = [t \in Tokens |->
    IF t \in spent /\ tokens[t] = "usable" THEN "revoked" ELSE tokens[t]]

Close(closed) ==
  sessions' = [s \in SessionIds |->
    IF s \in closed THEN [sessions[s] EXCEPT !.revoked = TRUE] ELSE sessions[s]]

\* logout of session s with one of its refresh tokens, which is spent first, or
\* without one that the table knows.
Logout(h, s) ==
  /\ op[h] = Idle
  /\ Active(s)
  /\ \/ \E t \in Tokens :
          /\ t.sid = s /\ tokens[t] # "none"
          /\ SpendAll({t})
          /\ Goto(h, [pc |-> "sessions", sid |-> s, old |-> t])
     \/ UNCHANGED tokens /\ Goto(h, [pc |-> "close", sid |-> s])
  /\ UNCHANGED <<now, sessions, devices>>

\* The open sessions that name the token of the logout, or are its own.
Named(h) ==
  {s \in Rows : /\ ~sessions[s].revoked
                /\ sessions[s].token = op[h].old \/ s = op[h].sid}

LogoutSessionsOfToken(h) ==                                 \* faulty variant
  /\ op[h].pc = "sessions"
  /\ Close({s \in Named(h) : sessions[s].token = op[h].old})
  /\ Goto(h, Idle)
  /\ UNCHANGED <<now, tokens, devices>>

\* revokeByRefreshToken; a logout that closed nothing goes on to revokeSession.
LogoutSessions(h) ==
  /\ op[h].pc = "sessions"
  /\ Close(Named(h))
  /\ Goto(h, IF Named(h) = {} THEN [pc |-> "close", sid |-> op[h].sid] ELSE Idle)
  /\ UNCHANGED <<now, tokens, devices>>

\* revokeSession: an open, unexpired row is closed and the token it names spent.
RevokeSession(s) ==
  IF Active(s)
    THEN Close({s}) /\ SpendAll({sessions[s].token})
    ELSE UNCHANGED <<sessions, tokens>>

LogoutClose(h) ==
  /\ op[h].pc = "close"
  /\ RevokeSession(op[h].sid)
  /\ Goto(h, Idle)
  /\ UNCHANGED <<now, devices>>

\* The user closes session s from session current.
CloseSession(h, current, s) ==
  /\ op[h] = Idle
  /\ Active(current)
  /\ RevokeSession(s)
  /\ UNCHANGED <<now, devices, op>>

NamedByOthers(current) ==                                   \* faulty variant
  {sessions[s].token : s \in {r \in Rows \ {current} : Active(r)}}

\* Tokens of other sessions, those included that no row names any more.
OtherTokens(current) == {t \in Tokens : t.sid # current /\ Unexpired(t)}

\* The user closes every session but the current one.
RevokeOtherSessions(h, current) ==
  /\ op[h] = Idle
  /\ Active(current)
  /\ sessions' = [s \in SessionIds |->
       IF s # current /\ Active(s)
         THEN [sessions[s] EXCEPT !.revoked = TRUE, !.expires = now]
         ELSE sessions[s]]
  /\ SpendAll(OtherTokens(current))
  /\ UNCHANGED <<now, devices, op>>

\* The user trusts session s, and with it its device.
TrustSession(h, current, s) ==
  /\ op[h] = Idle
  /\ Active(current)
  /\ Active(s)
  /\ ~sessions[s].trusted
  /\ sessions[s].trustAt <= now
  /\ sessions' = [sessions EXCEPT ![s].trusted = TRUE,
                                  ![s].expires = now + TrustedLife]
  /\ devices' = [devices EXCEPT ![sessions[s].device].trusted = TRUE,
                                ![sessions[s].device].until = now + TrustedLife]
  /\ UNCHANGED <<now, tokens, op>>

-------------------------------------------------------------------------------

Tick ==
  /\ now < MaxTime
  /\ now' = now + 1
  /\ UNCHANGED <<sessions, tokens, devices, op>>

\* A handler stops: a query failed, or the process did.
Fail(h) ==
  /\ op[h] # Idle
  /\ Goto(h, Idle)
  /\ UNCHANGED <<now, sessions, tokens, devices>>

Init ==
  /\ now = 0
  /\ sessions = [s \in SessionIds |-> None]
  /\ tokens = [t \in Tokens |-> "none"]
  /\ devices = [d \in Devices |-> None]
  /\ op = [h \in Handlers |-> Idle]

SignIn(h) ==
  \/ \E d \in Devices : Login(h, d)
  \/ PersistSession(h) \/ UpsertTrustedDevice(h) \/ CreateSession(h)

Refresh(h) == (\E t \in Tokens : RefreshToken(h, t)) \/ Rotate(h) \/ RotateSession(h)

SignOut(h) == (\E s \in SessionIds : Logout(h, s)) \/ LogoutSessions(h) \/ LogoutClose(h)

Profile(h) ==
  \E current \in SessionIds :
    \/ RevokeOtherSessions(h, current)
    \/ \E s \in SessionIds : CloseSession(h, current, s) \/ TrustSession(h, current, s)

Next ==
  \/ \E h \in Handlers : SignIn(h) \/ Refresh(h) \/ SignOut(h) \/ Profile(h) \/ Fail(h)
  \/ Tick

Spec == Init /\ [][Next]_vars

-------------------------------------------------------------------------------
(* Properties *)

\* A session that was closed stays closed: no sign-in, rotation or trust opens
\* it again.  (createSession clears revoked_at of the row it is given: only the
\* query that looks for a session to take up keeps closed ones away.)
ClosedStaysClosed ==
  [][\A s \in Rows : sessions[s].revoked => sessions'[s].revoked]_vars

\* A device has one session that a sign-in could take up, however often its
\* user signs in, lets it expire, closes it or trusts it.
OneSessionPerDevice == \A d \in Devices : Cardinality(Reusable(d)) <= 1

\* A session is trusted only on a device first seen TrustWait ago, whatever was
\* reused, inherited from the device or extended on the way.
TrustEarned ==
  \A s \in Rows : sessions[s].trusted =>
    /\ devices[sessions[s].device] # None
    /\ devices[sessions[s].device].first + TrustWait <= now

\* A logout that ends without a failure leaves the session it came from closed.
LogoutCloses ==
  [][\A h \in Handlers :
       /\ LogoutSessions(h) \/ LogoutClose(h)
       /\ op'[h] = Idle
       => LET s == op[h].sid IN
          s \in Rows => sessions'[s].revoked \/ sessions'[s].expires <= now]_vars

\* After the user closed the other sessions, no token of theirs that could be
\* exchanged is left, also of a sign-in that a later one on the same device
\* replaced in the row.
OthersCannotRefresh ==
  [][\A h \in Handlers, current \in SessionIds : RevokeOtherSessions(h, current) =>
       \A t \in Tokens : t.sid # current /\ Unexpired(t) => tokens'[t] # "usable"]_vars
===============================================================================
