---------------------------- MODULE SessionsProofs ----------------------------
(* Proofs about Sessions and SessionScreens, for every value of the constants: *)
(* any number of handlers, devices and sessions, and any waiting times.        *)
EXTENDS SessionScreens, FiniteSetTheorems, TLAPS

\* The device has been known for the waiting time.
Earned(d) == devices[d] # None /\ devices[d].first + TrustWait <= now

\* The same after a step, of a device named before it.
EarnedThen(d) == devices'[d] # None /\ devices'[d].first + TrustWait <= now'

DevicesEarned ==
  \A d \in Devices : devices[d] # None =>
    devices[d].first <= now /\ (devices[d].trusted => Earned(d))

\* The date from which a session may be trusted comes no earlier than its device
\* allows, unless the device has been known for long enough already.
DatesEarned ==
  \A s \in Rows : LET d == sessions[s].device IN
    /\ devices[d] # None
    /\ devices[d].first + TrustWait <= sessions[s].trustAt \/ Earned(d)
    /\ sessions[s].trusted => Earned(d)

\* Sign-ins on their way to one session come from one device, the one the
\* session has, and what they read of its trust has been earned.
SigningInSteps == {"persist", "device", "session"}

SignInsAgree ==
  \A h \in Handlers : op[h].pc \in SigningInSteps =>
    /\ op[h].new.sid \in Rows => sessions[op[h].new.sid].device = op[h].device
    /\ \A g \in Handlers :
         op[g].pc \in SigningInSteps /\ op[g].new.sid = op[h].new.sid => op[g].device = op[h].device
    /\ op[h].pc = "session" =>
         devices[op[h].device] # None /\ (op[h].trusted => Earned(op[h].device))

\* TrustEarned alone is not inductive: it is lost if a session that may be
\* trusted is one of a device first seen today, and that is what a sign-in that
\* takes over a date of another device would make of it.
TrustInv == TypeOK /\ DevicesEarned /\ DatesEarned /\ SignInsAgree

-------------------------------------------------------------------------------
(* What a handler holds, by the query it is about to make *)

SignInOps  == [pc : {"persist", "device"}, device : Devices, new : Tokens]
SessionOps == [pc : {"session"}, device : Devices, new : Tokens, trusted : BOOLEAN]
RotateOps  == [pc : {"rotate"}, old : Tokens, new : Tokens]
RenameOps  == [pc : {"rename"}, new : Tokens]
LogoutOps  == [pc : {"sessions"}, sid : SessionIds, old : Tokens]
CloseOps   == [pc : {"close"}, sid : SessionIds]

LEMMA OpKinds ==
  ASSUME NEW o \in Ops
  PROVE  /\ o.pc \in {"persist", "device"} => o \in SignInOps
         /\ o.pc = "session" => o \in SessionOps
         /\ o.pc = "rotate" => o \in RotateOps
         /\ o.pc = "rename" => o \in RenameOps
         /\ o.pc = "sessions" => o \in LogoutOps
         /\ o.pc = "close" => o \in CloseOps
  BY DEF Ops, Idle, SignInOps, SessionOps, RotateOps, RenameOps, LogoutOps, CloseOps

LEMMA KindsAreOps ==
  /\ Idle \in Ops
  /\ SignInOps \subseteq Ops /\ SessionOps \subseteq Ops /\ RotateOps \subseteq Ops
  /\ RenameOps \subseteq Ops /\ LogoutOps \subseteq Ops /\ CloseOps \subseteq Ops
  BY DEF Ops, SignInOps, SessionOps, RotateOps, RenameOps, LogoutOps, CloseOps

\* A date that lies a lifetime or a waiting time after now can be stored.
LEMMA DatesFit ==
  ASSUME now \in Times
  PROVE  /\ now \in Expiries
         /\ now + SessionLife \in Expiries
         /\ now + TrustWait \in Expiries
         /\ now + TrustedLife \in Expiries
  BY SessionsAssumption DEF Times, Expiries

LEMMA RowsAreRows ==
  ASSUME TypeOK, NEW s \in Rows
  PROVE  s \in SessionIds /\ sessions[s] \in SessionRows
  BY DEF TypeOK, Rows

-------------------------------------------------------------------------------
(* Type correctness *)

\* Every handler moves to a step it knows.
LEMMA GotoKeepsType ==
  ASSUME op \in [Handlers -> Ops], NEW h \in Handlers, NEW next \in Ops, Goto(h, next)
  PROVE  op' \in [Handlers -> Ops]
  BY DEF Goto

LEMMA CloseKeepsType ==
  ASSUME TypeOK, NEW closed, closed \subseteq Rows, Close(closed)
  PROVE  sessions' \in [SessionIds -> SessionRows \cup {None}]
<1>1. \A s \in closed : [sessions[s] EXCEPT !.revoked = TRUE] \in SessionRows
  <2> TAKE s \in closed
  <2>1. sessions[s] \in SessionRows
    BY RowsAreRows
  <2> QED BY <2>1 DEF SessionRows
<1> QED BY <1>1 DEF Close, TypeOK

LEMMA SpendKeepsType ==
  ASSUME TypeOK, NEW spent, SpendAll(spent)
  PROVE  tokens' \in [Tokens -> {"none", "usable", "revoked"}]
  BY DEF SpendAll, TypeOK

LEMMA RevokeKeepsType ==
  ASSUME TypeOK, NEW s \in SessionIds, RevokeSession(s)
  PROVE  /\ sessions' \in [SessionIds -> SessionRows \cup {None}]
         /\ tokens' \in [Tokens -> {"none", "usable", "revoked"}]
<1>1. CASE Active(s)
  <2>1. {s} \subseteq Rows
    BY <1>1 DEF Active
  <2> QED BY <1>1, <2>1, CloseKeepsType, SpendKeepsType DEF RevokeSession
<1>2. CASE ~Active(s)
  BY <1>2 DEF RevokeSession, TypeOK
<1> QED BY <1>1, <1>2

LEMMA TypeInit == Init => TypeOK
  BY SessionsAssumption, KindsAreOps DEF Init, TypeOK, Times

LEMMA TypeSignIn ==
  ASSUME TypeOK, NEW h \in Handlers, SignIn(h)
  PROVE  TypeOK'
<1>0. /\ op \in [Handlers -> Ops] /\ op[h] \in Ops
      /\ now \in Times
      /\ sessions \in [SessionIds -> SessionRows \cup {None}]
      /\ devices \in [Devices -> DeviceRows \cup {None}]
  BY DEF TypeOK
<1>1. ASSUME NEW d \in Devices, Login(h, d)
      PROVE  TypeOK'
  <2>1. PICK s \in SessionIds :
          Goto(h, [pc |-> "persist", device |-> d, new |-> [sid |-> s, at |-> now]])
    BY <1>1 DEF Login, BeginSession, BestReusable, Reusable, Rows, Fresh
  <2>2. [pc |-> "persist", device |-> d, new |-> [sid |-> s, at |-> now]] \in SignInOps
    BY <1>0 DEF SignInOps, Tokens
  <2>3. op' \in [Handlers -> Ops]
    BY <1>0, <2>1, <2>2, GotoKeepsType, KindsAreOps
  <2> QED BY <1>1, <2>3 DEF Login, TypeOK
<1>2. CASE PersistSession(h)
  <2>1. op[h] \in SignInOps
    BY <1>0, <1>2, OpKinds DEF PersistSession
  <2>2. [op[h] EXCEPT !.pc = "device"] \in SignInOps
    BY <2>1 DEF SignInOps
  <2>3. op' \in [Handlers -> Ops]
    BY <1>0, <1>2, <2>2, GotoKeepsType, KindsAreOps DEF PersistSession
  <2> QED BY <1>2, <2>3 DEF PersistSession, TypeOK
<1>3. CASE UpsertTrustedDevice(h)
  <2>1. op[h] \in SignInOps
    BY <1>0, <1>3, OpKinds DEF UpsertTrustedDevice
  <2> DEFINE d == op[h].device
             next == [pc |-> "session", device |-> d, new |-> op[h].new,
                      trusted |-> DeviceTrusted(devices[d])]
  <2>2. d \in Devices /\ op[h].new \in Tokens
    BY <2>1 DEF SignInOps
  <2>3. DeviceTrusted(devices[d]) \in BOOLEAN
    <3>1. CASE devices[d] = None
      BY <3>1 DEF DeviceTrusted
    <3>2. CASE devices[d] \in DeviceRows
      BY <3>2, SessionsAssumption DEF DeviceTrusted, DeviceRows
    <3> QED BY <1>0, <2>2, <3>1, <3>2
  <2>4. next \in SessionOps
    BY <2>2, <2>3 DEF SessionOps
  <2>5. op' \in [Handlers -> Ops]
    BY <1>0, <1>3, <2>4, GotoKeepsType, KindsAreOps DEF UpsertTrustedDevice
  <2>6. [first |-> now, trusted |-> FALSE, until |-> 0] \in DeviceRows
    BY <1>0, SessionsAssumption DEF DeviceRows, Expiries, Times
  <2>7. devices' \in [Devices -> DeviceRows \cup {None}]
    BY <1>0, <1>3, <2>6 DEF UpsertTrustedDevice
  <2> QED BY <1>3, <2>5, <2>7 DEF UpsertTrustedDevice, TypeOK
<1>4. CASE CreateSession(h)
  <2>1. op[h] \in SessionOps
    BY <1>0, <1>4, OpKinds DEF CreateSession
  <2>2. /\ op[h].device \in Devices /\ op[h].new \in Tokens
        /\ op[h].new.sid \in SessionIds /\ op[h].trusted \in BOOLEAN
    BY <2>1 DEF SessionOps, Tokens
  <2>3. TrustAvailable(h) \in Expiries
    <3>1. sessions[op[h].new.sid] # None => sessions[op[h].new.sid].trustAt \in Expiries
      BY <1>0, <2>2 DEF SessionRows
    <3> QED BY <1>0, <3>1, DatesFit DEF TrustAvailable
  <2> DEFINE row == [device |-> op[h].device, token |-> op[h].new,
                     expires |-> now + SessionLife, revoked |-> FALSE,
                     trusted |-> op[h].trusted, trustAt |-> TrustAvailable(h)]
  <2>4. row \in SessionRows
    BY <1>0, <2>2, <2>3, DatesFit DEF SessionRows
  <2> HIDE DEF row
  <2>5. sessions' = [sessions EXCEPT ![op[h].new.sid] = row]
    BY <1>4 DEF CreateSession, row
  <2>6. sessions' \in [SessionIds -> SessionRows \cup {None}]
    BY <1>0, <2>4, <2>5
  <2>7. op' \in [Handlers -> Ops]
    BY <1>0, <1>4, GotoKeepsType, KindsAreOps DEF CreateSession
  <2> QED BY <1>4, <2>6, <2>7 DEF CreateSession, TypeOK
<1> QED BY <1>1, <1>2, <1>3, <1>4 DEF SignIn

LEMMA TypeRefresh ==
  ASSUME TypeOK, NEW h \in Handlers, Refresh(h)
  PROVE  TypeOK'
<1>0. /\ op \in [Handlers -> Ops] /\ op[h] \in Ops
      /\ now \in Times
      /\ sessions \in [SessionIds -> SessionRows \cup {None}]
  BY DEF TypeOK
<1>1. ASSUME NEW t \in Tokens, RefreshToken(h, t)
      PROVE  TypeOK'
  <2>1. [pc |-> "rotate", old |-> t, new |-> [sid |-> t.sid, at |-> now]] \in RotateOps
    BY <1>0 DEF RotateOps, Tokens
  <2>2. op' \in [Handlers -> Ops]
    BY <1>0, <1>1, <2>1, GotoKeepsType, KindsAreOps DEF RefreshToken
  <2> QED BY <1>1, <2>2 DEF RefreshToken, TypeOK
<1>2. CASE Rotate(h)
  <2>1. op[h] \in RotateOps
    BY <1>0, <1>2, OpKinds DEF Rotate
  <2>2. [pc |-> "rename", new |-> op[h].new] \in RenameOps
    BY <2>1 DEF RotateOps, RenameOps
  <2>3. op' \in [Handlers -> Ops]
    BY <1>0, <1>2, <2>2, GotoKeepsType, KindsAreOps DEF Rotate
  <2>4. tokens' \in [Tokens -> {"none", "usable", "revoked"}]
    BY <1>2 DEF Rotate, TypeOK
  <2> QED BY <1>2, <2>3, <2>4 DEF Rotate, TypeOK
<1>3. CASE RotateSession(h)
  <2>1. op[h] \in RenameOps
    BY <1>0, <1>3, OpKinds DEF RotateSession
  <2>2. op[h].new \in Tokens /\ op[h].new.sid \in SessionIds
    BY <2>1 DEF RenameOps, Tokens
  <2>3. sessions' \in [SessionIds -> SessionRows \cup {None}]
    <3>1. CASE Active(op[h].new.sid)
      <4>1. sessions[op[h].new.sid] \in SessionRows
        BY <3>1, RowsAreRows DEF Active
      <4>2. sessions' = [sessions EXCEPT ![op[h].new.sid] =
              [@ EXCEPT !.token = op[h].new, !.expires = now + SessionLife]]
        BY <1>0, <1>3, <2>2, <3>1 DEF RotateSession
      <4>3. [sessions[op[h].new.sid] EXCEPT !.token = op[h].new, !.expires = now + SessionLife]
              \in SessionRows
        BY <1>0, <2>2, <4>1, DatesFit DEF SessionRows
      <4> QED BY <1>0, <2>2, <4>2, <4>3
    <3>2. CASE ~Active(op[h].new.sid)
      BY <1>0, <1>3, <3>2 DEF RotateSession
    <3> QED BY <3>1, <3>2
  <2>4. op' \in [Handlers -> Ops]
    BY <1>0, <1>3, GotoKeepsType, KindsAreOps DEF RotateSession
  <2> QED BY <1>3, <2>3, <2>4 DEF RotateSession, TypeOK
<1> QED BY <1>1, <1>2, <1>3 DEF Refresh

LEMMA TypeSignOut ==
  ASSUME TypeOK, NEW h \in Handlers, SignOut(h)
  PROVE  TypeOK'
<1>0. op \in [Handlers -> Ops] /\ op[h] \in Ops
  BY DEF TypeOK
<1>1. ASSUME NEW s \in SessionIds, Logout(h, s)
      PROVE  TypeOK'
  <2>1. CASE \E t \in Tokens : SpendAll({t}) /\ Goto(h, [pc |-> "sessions", sid |-> s, old |-> t])
    <3>1. PICK t \in Tokens : SpendAll({t}) /\ Goto(h, [pc |-> "sessions", sid |-> s, old |-> t])
      BY <2>1
    <3>2. [pc |-> "sessions", sid |-> s, old |-> t] \in LogoutOps
      BY DEF LogoutOps
    <3>3. op' \in [Handlers -> Ops]
      BY <1>0, <3>1, <3>2, GotoKeepsType, KindsAreOps
    <3> QED BY <1>1, <3>1, <3>3, SpendKeepsType DEF Logout, TypeOK
  <2>2. CASE UNCHANGED tokens /\ Goto(h, [pc |-> "close", sid |-> s])
    <3>1. [pc |-> "close", sid |-> s] \in CloseOps
      BY DEF CloseOps
    <3>2. op' \in [Handlers -> Ops]
      BY <1>0, <2>2, <3>1, GotoKeepsType, KindsAreOps
    <3> QED BY <1>1, <2>2, <3>2 DEF Logout, TypeOK
  <2> QED BY <1>1, <2>1, <2>2 DEF Logout
<1>2. CASE LogoutSessions(h)
  <2>1. op[h] \in LogoutOps
    BY <1>0, <1>2, OpKinds DEF LogoutSessions
  <2>2. [pc |-> "close", sid |-> op[h].sid] \in CloseOps
    BY <2>1 DEF LogoutOps, CloseOps
  <2>3. op' \in [Handlers -> Ops]
    BY <1>0, <1>2, <2>2, GotoKeepsType, KindsAreOps DEF LogoutSessions
  <2>4. Named(h) \subseteq Rows
    BY DEF Named
  <2> QED BY <1>2, <2>3, <2>4, CloseKeepsType DEF LogoutSessions, TypeOK
<1>3. CASE LogoutClose(h)
  <2>1. op[h] \in CloseOps
    BY <1>0, <1>3, OpKinds DEF LogoutClose
  <2>2. op[h].sid \in SessionIds
    BY <2>1 DEF CloseOps
  <2>3. op' \in [Handlers -> Ops]
    BY <1>0, <1>3, GotoKeepsType, KindsAreOps DEF LogoutClose
  <2> QED BY <1>3, <2>2, <2>3, RevokeKeepsType DEF LogoutClose, TypeOK
<1> QED BY <1>1, <1>2, <1>3 DEF SignOut

LEMMA TypeProfile ==
  ASSUME TypeOK, DatesEarned, NEW h \in Handlers, Profile(h)
  PROVE  TypeOK'
<1>0. /\ now \in Times
      /\ sessions \in [SessionIds -> SessionRows \cup {None}]
      /\ devices \in [Devices -> DeviceRows \cup {None}]
  BY DEF TypeOK
<1>1. ASSUME NEW current \in SessionIds, RevokeOtherSessions(h, current)
      PROVE  TypeOK'
  <2>1. ASSUME NEW s \in SessionIds, Active(s)
        PROVE  [sessions[s] EXCEPT !.revoked = TRUE, !.expires = now] \in SessionRows
    <3>1. sessions[s] \in SessionRows
      BY <2>1, RowsAreRows DEF Active
    <3> QED BY <1>0, <3>1, DatesFit DEF SessionRows
  <2>2. sessions' \in [SessionIds -> SessionRows \cup {None}]
    BY <1>0, <1>1, <2>1 DEF RevokeOtherSessions
  <2> QED BY <1>1, <2>2, SpendKeepsType DEF RevokeOtherSessions, TypeOK
<1>2. ASSUME NEW current \in SessionIds, NEW s \in SessionIds, CloseSession(h, current, s)
      PROVE  TypeOK'
  BY <1>2, RevokeKeepsType DEF CloseSession, TypeOK
<1>3. ASSUME NEW current \in SessionIds, NEW s \in SessionIds, TrustSession(h, current, s)
      PROVE  TypeOK'
  <2>1. sessions[s] \in SessionRows
    BY <1>3, RowsAreRows DEF TrustSession, Active
  <2> DEFINE d == sessions[s].device
  <2>2. d \in Devices /\ devices[d] \in DeviceRows
    BY <1>0, <1>3, <2>1 DEF SessionRows, DatesEarned, TrustSession, Active
  <2>3. [sessions[s] EXCEPT !.trusted = TRUE, !.expires = now + TrustedLife] \in SessionRows
    BY <1>0, <2>1, DatesFit DEF SessionRows
  <2>4. [devices[d] EXCEPT !.trusted = TRUE, !.until = now + TrustedLife] \in DeviceRows
    BY <1>0, <2>2, DatesFit DEF DeviceRows
  <2>5. sessions' \in [SessionIds -> SessionRows \cup {None}]
    BY <1>0, <1>3, <2>3 DEF TrustSession
  <2>6. devices' \in [Devices -> DeviceRows \cup {None}]
    BY <1>0, <1>3, <2>2, <2>4 DEF TrustSession
  <2> QED BY <1>3, <2>5, <2>6 DEF TrustSession, TypeOK
<1> QED BY <1>1, <1>2, <1>3 DEF Profile

-------------------------------------------------------------------------------
(* Trust is earned *)

\* What was earned stays so: devices keep the day they were first seen.
LEMMA EarnedStays ==
  ASSUME TypeOK, NEW d \in Devices, Earned(d),
         now' \in Times, now <= now',
         devices'[d] # None, devices'[d].first = devices[d].first
  PROVE  Earned(d)'
<1>1. devices[d] \in DeviceRows /\ devices[d].first \in Times
  BY DEF TypeOK, Earned, DeviceRows
<1> QED BY <1>1, SessionsAssumption DEF TypeOK, Earned, Times

\* A step that leaves devices alone, changes of a session no more than token,
\* expiry and closing, and of a sign-in no more than the step it is at.
LEMMA QuietStep ==
  ASSUME TrustInv,
         TypeOK',
         now <= now',
         UNCHANGED devices,
         Rows' \subseteq Rows,
         \A s \in Rows : /\ sessions'[s].device = sessions[s].device
                         /\ sessions'[s].trustAt = sessions[s].trustAt
                         /\ sessions'[s].trusted = sessions[s].trusted,
         \A h \in Handlers : op'[h].pc \in SigningInSteps =>
           /\ op[h].pc \in SigningInSteps /\ op'[h].new = op[h].new /\ op'[h].device = op[h].device
           /\ op'[h].pc = "session" => op[h].pc = "session" /\ op'[h].trusted = op[h].trusted
  PROVE  TrustInv'
<1>1. /\ TypeOK /\ DevicesEarned /\ DatesEarned /\ SignInsAgree
      /\ now \in Times /\ now' \in Times
      /\ op \in [Handlers -> Ops]
  BY DEF TrustInv, TypeOK
<1>2. \A d \in Devices : Earned(d) => Earned(d)'
  BY <1>1, EarnedStays DEF Earned
<1>3. DevicesEarned'
  <2> SUFFICES ASSUME NEW d \in Devices, devices[d] # None
               PROVE  devices[d].first <= now' /\ (devices[d].trusted => Earned(d)')
    BY DEF DevicesEarned
  <2>1. devices[d] \in DeviceRows /\ devices[d].first \in Times
    BY <1>1 DEF TypeOK, DeviceRows
  <2> QED BY <1>1, <1>2, <2>1, SessionsAssumption DEF DevicesEarned, Times
<1>4. DatesEarned'
  <2> SUFFICES ASSUME NEW s \in Rows'
               PROVE  LET d == sessions[s].device IN
                      /\ devices[d] # None
                      /\ devices[d].first + TrustWait <= sessions[s].trustAt \/ Earned(d)'
                      /\ sessions[s].trusted => Earned(d)'
    BY DEF DatesEarned
  <2>1. s \in Rows /\ sessions[s].device \in Devices
    BY <1>1, RowsAreRows DEF SessionRows
  <2> QED BY <1>1, <1>2, <2>1 DEF DatesEarned
<1>5. SignInsAgree'
  <2> SUFFICES ASSUME NEW h \in Handlers, op'[h].pc \in SigningInSteps
               PROVE  /\ op'[h].new.sid \in Rows' => sessions'[op'[h].new.sid].device = op'[h].device
                      /\ \A g \in Handlers :
                           op'[g].pc \in SigningInSteps /\ op'[g].new.sid = op'[h].new.sid => op'[g].device = op'[h].device
                      /\ op'[h].pc = "session" =>
                           devices'[op'[h].device] # None /\ (op'[h].trusted => Earned(op[h].device)')
    BY DEF SignInsAgree, Earned
  <2>1. op[h].pc \in SigningInSteps /\ op'[h].new = op[h].new /\ op'[h].device = op[h].device
    OBVIOUS
  <2>2. op[h].device \in Devices
    <3>1. op[h] \in SignInOps \cup SessionOps
      BY <1>1, <2>1, OpKinds DEF SigningInSteps
    <3> QED BY <3>1 DEF SignInOps, SessionOps
  <2>3. op'[h].new.sid \in Rows' => sessions'[op'[h].new.sid].device = op'[h].device
    BY <1>1, <2>1 DEF SignInsAgree
  <2>4. ASSUME NEW g \in Handlers, op'[g].pc \in SigningInSteps, op'[g].new.sid = op'[h].new.sid
        PROVE  op'[g].device = op'[h].device
    BY <1>1, <2>1, <2>4 DEF SignInsAgree
  <2>5. op'[h].pc = "session" =>
          devices'[op'[h].device] # None /\ (op'[h].trusted => Earned(op[h].device)')
    <3> SUFFICES ASSUME op'[h].pc = "session"
                 PROVE  devices[op[h].device] # None /\ (op[h].trusted => Earned(op[h].device)')
      BY <2>1 DEF Earned
    <3> QED BY <1>1, <1>2, <2>1, <2>2 DEF SignInsAgree
  <2> QED BY <2>3, <2>4, <2>5
<1> QED BY <1>3, <1>4, <1>5 DEF TrustInv

LEMMA TrustInit == Init => TrustInv
<1> SUFFICES ASSUME Init PROVE TrustInv
  OBVIOUS
<1>1. Rows = {}
  BY DEF Init, Rows
<1>2. DevicesEarned
  BY DEF Init, DevicesEarned
<1>3. SignInsAgree
  BY DEF Init, SignInsAgree, Idle, SigningInSteps
<1> QED BY <1>1, <1>2, <1>3, TypeInit DEF TrustInv, DatesEarned

\* A sign-in finds its session among those of its device, or takes an id that
\* neither a row nor another sign-in has.
LEMMA TrustLogin ==
  ASSUME TrustInv, TypeOK', NEW h \in Handlers, NEW d \in Devices, Login(h, d)
  PROVE  TrustInv'
<1>0. TypeOK /\ SignInsAgree /\ op \in [Handlers -> Ops]
  BY DEF TrustInv, TypeOK
<1>1. PICK s \in IF Reusable(d) = {} THEN Fresh ELSE BestReusable(d) :
        Goto(h, [pc |-> "persist", device |-> d, new |-> [sid |-> s, at |-> now]])
  BY DEF Login, BeginSession
<1> DEFINE next == [pc |-> "persist", device |-> d, new |-> [sid |-> s, at |-> now]]
<1>2. op' = [op EXCEPT ![h] = next]
  BY <1>1 DEF Goto
<1> /\ next.pc = "persist" /\ next.device = d /\ next.new.sid = s
  OBVIOUS
<1> HIDE DEF next
<1>3. s \in Rows => sessions[s].device = d
  BY <1>1 DEF BestReusable, Reusable, Fresh, Taken
<1>4. ASSUME NEW g \in Handlers, op[g].pc \in SigningInSteps, op[g].new.sid = s
      PROVE  op[g].device = d
  <2>1. op[g] \in SignInOps \cup SessionOps
    BY <1>0, <1>4, OpKinds DEF SigningInSteps
  <2>2. "new" \in DOMAIN op[g]
    BY <2>1 DEF SignInOps, SessionOps
  <2>3. s \in Taken
    BY <1>4, <2>2 DEF Taken
  <2>4. s \in Rows
    BY <1>1, <2>3 DEF Fresh, BestReusable, Reusable
  <2> QED BY <1>0, <1>3, <1>4, <2>4 DEF SignInsAgree
<1>5. UNCHANGED <<now, sessions, devices>>
  BY DEF Login
<1>6. SignInsAgree'
  <2> SUFFICES ASSUME NEW f \in Handlers, op'[f].pc \in SigningInSteps
               PROVE  /\ op'[f].new.sid \in Rows => sessions[op'[f].new.sid].device = op'[f].device
                      /\ \A g \in Handlers :
                           op'[g].pc \in SigningInSteps /\ op'[g].new.sid = op'[f].new.sid
                             => op'[g].device = op'[f].device
                      /\ op'[f].pc = "session" =>
                           devices[op'[f].device] # None
                             /\ (op'[f].trusted => devices[op'[f].device] # None /\ devices[op'[f].device].first + TrustWait <= now)
    BY <1>5 DEF SignInsAgree, Earned, Rows
  <2>1. CASE f = h
    BY <1>0, <1>2, <1>3, <1>4, <2>1
  <2>2. CASE f # h
    <3>1. op'[f] = op[f]
      BY <1>0, <1>2, <2>2
    <3>2. ASSUME NEW g \in Handlers, op'[g].pc \in SigningInSteps, op'[g].new.sid = op[f].new.sid
          PROVE  op'[g].device = op[f].device
      BY <1>0, <1>2, <1>4, <3>1, <3>2 DEF SignInsAgree
    <3> QED BY <1>0, <3>1, <3>2 DEF SignInsAgree, Earned
  <2> QED BY <2>1, <2>2
<1> QED BY <1>5, <1>6 DEF TrustInv, DevicesEarned, DatesEarned, Earned, Rows

LEMMA TrustUpsert ==
  ASSUME TrustInv, TypeOK', NEW h \in Handlers, UpsertTrustedDevice(h)
  PROVE  TrustInv'
<1>0. /\ TypeOK /\ DevicesEarned /\ DatesEarned /\ SignInsAgree
      /\ op \in [Handlers -> Ops] /\ devices \in [Devices -> DeviceRows \cup {None}]
      /\ now \in Times
  BY DEF TrustInv, TypeOK
<1>1. op[h] \in SignInOps /\ op[h].pc \in SigningInSteps
  BY <1>0, OpKinds DEF UpsertTrustedDevice, SigningInSteps
<1> DEFINE d == op[h].device
           next == [pc |-> "session", device |-> d, new |-> op[h].new,
                    trusted |-> DeviceTrusted(devices[d])]
<1>2. d \in Devices
  BY <1>1 DEF SignInOps
<1>3. op' = [op EXCEPT ![h] = next]
  BY DEF UpsertTrustedDevice, Goto
<1>4. /\ next.pc = "session" /\ next.device = d /\ next.new = op[h].new
      /\ next.trusted = DeviceTrusted(devices[d])
  OBVIOUS
<1> HIDE DEF next
<1>5. UNCHANGED <<now, sessions>>
  BY DEF UpsertTrustedDevice
<1>6. devices' = [devices EXCEPT ![d] =
        IF @ = None THEN [first |-> now, trusted |-> FALSE, until |-> 0] ELSE @]
  BY DEF UpsertTrustedDevice
<1>7. \A e \in Devices : devices[e] # None => devices'[e] = devices[e]
  BY <1>0, <1>2, <1>6
<1>8. \A e \in Devices : Earned(e) => EarnedThen(e)
  BY <1>5, <1>7 DEF Earned, EarnedThen
<1>9. [first |-> now, trusted |-> FALSE, until |-> 0] \in DeviceRows
  BY <1>0, SessionsAssumption DEF DeviceRows, Expiries, Times
<1>10. devices'[d] # None /\ now <= now
  <2>1. now <= now
    BY <1>0 DEF Times
  <2>2. None \notin DeviceRows
    BY SessionsAssumption
  <2>3. CASE devices[d] = None
    BY <1>0, <1>2, <1>6, <1>9, <2>1, <2>2, <2>3
  <2>4. CASE devices[d] # None
    BY <1>7, <1>2, <2>1, <2>4
  <2> QED BY <2>3, <2>4
<1>11. DevicesEarned'
  <2> SUFFICES ASSUME NEW e \in Devices, devices'[e] # None
               PROVE  devices'[e].first <= now /\ (devices'[e].trusted => EarnedThen(e))
    BY <1>5 DEF DevicesEarned, Earned, EarnedThen
  <2>1. CASE devices[e] # None
    BY <1>0, <1>7, <1>8, <2>1 DEF DevicesEarned
  <2>2. CASE devices[e] = None
    <3>1. e = d /\ devices'[e] = [first |-> now, trusted |-> FALSE, until |-> 0]
      BY <1>0, <1>2, <1>6, <2>2
    <3> QED BY <1>10, <3>1
  <2> QED BY <2>1, <2>2
<1>12. DatesEarned'
  <2> SUFFICES ASSUME NEW s \in Rows
               PROVE  LET e == sessions[s].device IN
                      /\ devices'[e] # None
                      /\ devices'[e].first + TrustWait <= sessions[s].trustAt \/ EarnedThen(e)
                      /\ sessions[s].trusted => EarnedThen(e)
    BY <1>5 DEF DatesEarned, Rows, Earned, EarnedThen
  <2>1. sessions[s].device \in Devices
    BY <1>0, RowsAreRows DEF SessionRows
  <2> QED BY <1>0, <1>7, <1>8, <2>1 DEF DatesEarned
<1>13. DeviceTrusted(devices[d]) => EarnedThen(d)
  BY <1>0, <1>2, <1>8 DEF DeviceTrusted, DevicesEarned
<1>14. \A g \in Handlers : op'[g].pc \in SigningInSteps =>
         /\ op[g].pc \in SigningInSteps
         /\ op'[g].new = op[g].new /\ op'[g].device = op[g].device
  BY <1>0, <1>1, <1>3, <1>4
<1>15. SignInsAgree'
  <2> SUFFICES ASSUME NEW f \in Handlers, op'[f].pc \in SigningInSteps
               PROVE  /\ op[f].new.sid \in Rows => sessions[op[f].new.sid].device = op[f].device
                      /\ \A g \in Handlers :
                           op'[g].pc \in SigningInSteps /\ op[g].new.sid = op[f].new.sid
                             => op[g].device = op[f].device
                      /\ op'[f].pc = "session" =>
                           devices'[op[f].device] # None /\ (op'[f].trusted => EarnedThen(op[f].device))
    BY <1>5, <1>14 DEF SignInsAgree, Rows, Earned, EarnedThen
  <2>1. op'[f].pc = "session" =>
          devices'[op[f].device] # None /\ (op'[f].trusted => EarnedThen(op[f].device))
    <3>1. CASE f = h
      BY <1>0, <1>3, <1>4, <1>10, <1>13, <3>1
    <3>2. CASE f # h
      <4>1. op'[f] = op[f]
        BY <1>0, <1>3, <3>2
      <4>2. op[f].device \in Devices
        <5>1. op[f] \in SignInOps \cup SessionOps
          BY <1>0, <1>14, OpKinds DEF SigningInSteps
        <5> QED BY <5>1 DEF SignInOps, SessionOps
      <4> QED BY <1>0, <1>7, <1>8, <1>14, <4>1, <4>2 DEF SignInsAgree
    <3> QED BY <3>1, <3>2
  <2> QED BY <1>0, <1>14, <2>1 DEF SignInsAgree
<1> QED BY <1>11, <1>12, <1>15 DEF TrustInv

LEMMA TrustCreate ==
  ASSUME TrustInv, TypeOK', NEW h \in Handlers, CreateSession(h)
  PROVE  TrustInv'
<1>0. /\ TypeOK /\ DevicesEarned /\ DatesEarned /\ SignInsAgree
      /\ op \in [Handlers -> Ops] /\ devices \in [Devices -> DeviceRows \cup {None}]
      /\ now \in Times /\ sessions \in [SessionIds -> SessionRows \cup {None}]
  BY DEF TrustInv, TypeOK
<1>1. op[h] \in SessionOps /\ op[h].pc \in SigningInSteps /\ op[h].pc = "session"
  BY <1>0, OpKinds DEF CreateSession, SigningInSteps
<1> DEFINE d == op[h].device
           sid == op[h].new.sid
           row == [device |-> d, token |-> op[h].new,
                   expires |-> now + SessionLife, revoked |-> FALSE,
                   trusted |-> op[h].trusted, trustAt |-> TrustAvailable(h)]
<1>2. d \in Devices /\ sid \in SessionIds
  BY <1>1 DEF SessionOps, Tokens
<1>3. sessions' = [sessions EXCEPT ![sid] = row]
  BY DEF CreateSession
<1>4. row.device = d /\ row.trusted = op[h].trusted /\ row.trustAt = TrustAvailable(h)
  OBVIOUS
<1> HIDE DEF row
<1>5. UNCHANGED <<now, devices>> /\ op' = [op EXCEPT ![h] = Idle]
  BY DEF CreateSession, Goto
<1>6. devices[d] # None /\ (op[h].trusted => Earned(d))
  BY <1>0, <1>1 DEF SignInsAgree
<1>7. devices[d] \in DeviceRows /\ devices[d].first \in Times /\ devices[d].first <= now
  BY <1>0, <1>2, <1>6 DEF DeviceRows, DevicesEarned
<1>8. devices[d].first + TrustWait <= TrustAvailable(h) \/ Earned(d)
  <2>1. CASE op[h].trusted
    BY <1>6, <2>1
  <2>2. CASE ~op[h].trusted /\ sessions[sid] # None
    <3>1. sid \in Rows /\ sessions[sid].device = d
      BY <1>0, <1>1, <1>2, <2>2 DEF SignInsAgree, Rows
    <3> QED BY <1>0, <2>2, <3>1 DEF DatesEarned, TrustAvailable
  <2>3. CASE ~op[h].trusted /\ sessions[sid] = None
    BY <1>0, <1>7, <2>3, SessionsAssumption DEF TrustAvailable, Times
  <2> QED BY <2>1, <2>2, <2>3
<1>9. \A s \in Rows' : s # sid => s \in Rows /\ sessions'[s] = sessions[s]
  BY <1>0, <1>3 DEF Rows
<1>10. sessions'[sid] = row
  BY <1>0, <1>2, <1>3
<1>11. DatesEarned'
  <2> SUFFICES ASSUME NEW s \in Rows'
               PROVE  LET e == sessions'[s].device IN
                      /\ devices[e] # None
                      /\ devices[e].first + TrustWait <= sessions'[s].trustAt \/ Earned(e)
                      /\ sessions'[s].trusted => Earned(e)
    BY <1>5 DEF DatesEarned, Earned, EarnedThen
  <2>1. CASE s = sid
    BY <1>4, <1>6, <1>8, <1>10, <2>1
  <2>2. CASE s # sid
    BY <1>0, <1>9, <2>2 DEF DatesEarned
  <2> QED BY <2>1, <2>2
<1>12. \A g \in Handlers : op'[g].pc \in SigningInSteps => op'[g] = op[g]
  BY <1>0, <1>5 DEF Idle, SigningInSteps
<1>13. SignInsAgree'
  <2> SUFFICES ASSUME NEW f \in Handlers, op'[f].pc \in SigningInSteps, op'[f] = op[f]
               PROVE  /\ op[f].new.sid \in Rows' => sessions'[op[f].new.sid].device = op[f].device
                      /\ \A g \in Handlers :
                           op'[g].pc \in SigningInSteps /\ op'[g].new.sid = op[f].new.sid
                             => op'[g].device = op[f].device
                      /\ op[f].pc = "session" =>
                           devices[op[f].device] # None /\ (op[f].trusted => Earned(op[f].device))
    BY <1>5, <1>12 DEF SignInsAgree, Earned, EarnedThen
  <2>1. CASE op[f].new.sid = sid
    <3>1. op[f].device = d
      BY <1>0, <1>1, <2>1 DEF SignInsAgree
    <3> QED BY <1>0, <1>4, <1>10, <1>12, <2>1, <3>1 DEF SignInsAgree
  <2>2. CASE op[f].new.sid # sid
    BY <1>0, <1>9, <1>12, <2>2 DEF SignInsAgree
  <2> QED BY <2>1, <2>2
<1> QED BY <1>0, <1>5, <1>11, <1>13 DEF TrustInv, DevicesEarned, Earned, EarnedThen

LEMMA TrustTrust ==
  ASSUME TrustInv, TypeOK', NEW h \in Handlers, NEW current \in SessionIds,
         NEW t \in SessionIds, TrustSession(h, current, t)
  PROVE  TrustInv'
<1>0. /\ TypeOK /\ DevicesEarned /\ DatesEarned /\ SignInsAgree
      /\ devices \in [Devices -> DeviceRows \cup {None}]
      /\ now \in Times /\ sessions \in [SessionIds -> SessionRows \cup {None}]
  BY DEF TrustInv, TypeOK
<1> DEFINE d == sessions[t].device
<1>1. t \in Rows /\ sessions[t] \in SessionRows /\ d \in Devices
  BY <1>0, RowsAreRows DEF TrustSession, Active, SessionRows
<1>2. devices[d] \in DeviceRows /\ devices[d].first \in Times /\ devices[d] # None
  BY <1>0, <1>1 DEF DatesEarned, DeviceRows
<1>3. Earned(d)
  <2>1. sessions[t].trustAt <= now /\ sessions[t].trustAt \in Int
    BY <1>1 DEF TrustSession, SessionRows, Expiries
  <2>2. devices[d].first + TrustWait <= sessions[t].trustAt \/ Earned(d)
    BY <1>0, <1>1 DEF DatesEarned
  <2> QED BY <1>0, <1>2, <2>1, <2>2, SessionsAssumption DEF Earned, EarnedThen, Times
<1>4. UNCHANGED <<now, op>>
  BY DEF TrustSession
<1>5. \A e \in Devices :
        /\ devices'[e] # None <=> devices[e] # None
        /\ devices'[e].first = devices[e].first
        /\ e # d => devices'[e] = devices[e]
  <2>1. devices' = [devices EXCEPT ![d] =
          [devices[d] EXCEPT !.trusted = TRUE, !.until = now + TrustedLife]]
    BY <1>0, <1>1 DEF TrustSession
  <2>2. [devices[d] EXCEPT !.trusted = TRUE, !.until = now + TrustedLife] \in DeviceRows
    BY <1>0, <1>2, DatesFit DEF DeviceRows
  <2>3. [devices[d] EXCEPT !.trusted = TRUE, !.until = now + TrustedLife].first = devices[d].first
    BY <1>2 DEF DeviceRows
  <2> QED BY <1>0, <1>1, <1>2, <2>1, <2>2, <2>3, SessionsAssumption
<1>6. \A e \in Devices : EarnedThen(e) <=> Earned(e)
  BY <1>4, <1>5 DEF Earned, EarnedThen
<1>7. \A s \in SessionIds :
        /\ s \in Rows' <=> s \in Rows
        /\ s \in Rows => /\ sessions'[s].device = sessions[s].device
                         /\ sessions'[s].trustAt = sessions[s].trustAt
                         /\ s # t => sessions'[s] = sessions[s]
  <2>1. sessions' = [sessions EXCEPT ![t] =
          [sessions[t] EXCEPT !.trusted = TRUE, !.expires = now + TrustedLife]]
    BY <1>0, <1>1 DEF TrustSession
  <2>2. [sessions[t] EXCEPT !.trusted = TRUE, !.expires = now + TrustedLife] \in SessionRows
    BY <1>0, <1>1, DatesFit DEF SessionRows
  <2>3. /\ [sessions[t] EXCEPT !.trusted = TRUE, !.expires = now + TrustedLife].device = d
        /\ [sessions[t] EXCEPT !.trusted = TRUE, !.expires = now + TrustedLife].trustAt = sessions[t].trustAt
    BY <1>1 DEF SessionRows
  <2> QED BY <1>0, <1>1, <2>1, <2>2, <2>3, SessionsAssumption DEF Rows
<1>8. DevicesEarned'
  <2> SUFFICES ASSUME NEW e \in Devices, devices'[e] # None
               PROVE  devices'[e].first <= now /\ (devices'[e].trusted => Earned(e))
    BY <1>4, <1>6 DEF DevicesEarned, Earned, EarnedThen
  <2> QED BY <1>0, <1>3, <1>5 DEF DevicesEarned
<1>9. DatesEarned'
  <2> SUFFICES ASSUME NEW s \in Rows'
               PROVE  LET e == sessions'[s].device IN
                      /\ devices'[e] # None
                      /\ devices'[e].first + TrustWait <= sessions'[s].trustAt \/ EarnedThen(e)
                      /\ sessions'[s].trusted => EarnedThen(e)
    BY DEF DatesEarned, Earned, EarnedThen
  <2>1. s \in Rows /\ sessions[s].device \in Devices
    BY <1>0, <1>7, RowsAreRows DEF SessionRows, Rows
  <2>2. sessions'[s].device = sessions[s].device /\ sessions'[s].trustAt = sessions[s].trustAt
    BY <1>7, <2>1 DEF Rows
  <2>3. devices'[sessions[s].device] # None
    BY <1>0, <1>5, <2>1 DEF DatesEarned
  <2>4. devices'[sessions[s].device].first + TrustWait <= sessions[s].trustAt
          \/ EarnedThen(sessions[s].device)
    BY <1>0, <1>5, <1>6, <2>1 DEF DatesEarned
  <2>5. sessions'[s].trusted => EarnedThen(sessions[s].device)
    <3>1. CASE s = t
      BY <1>3, <1>6, <2>1, <3>1
    <3>2. CASE s # t
      BY <1>0, <1>6, <1>7, <2>1, <3>2 DEF DatesEarned, Rows
    <3> QED BY <3>1, <3>2
  <2> QED BY <2>2, <2>3, <2>4, <2>5 DEF Earned, EarnedThen
<1>10. SignInsAgree'
  <2> SUFFICES ASSUME NEW f \in Handlers, op[f].pc \in SigningInSteps
               PROVE  /\ op[f].new.sid \in Rows' => sessions'[op[f].new.sid].device = op[f].device
                      /\ \A g \in Handlers :
                           op[g].pc \in SigningInSteps /\ op[g].new.sid = op[f].new.sid
                             => op[g].device = op[f].device
                      /\ op[f].pc = "session" =>
                           devices'[op[f].device] # None /\ (op[f].trusted => EarnedThen(op[f].device))
    BY <1>4 DEF SignInsAgree, Earned, EarnedThen
  <2>1. op[f].device \in Devices /\ op[f].new.sid \in SessionIds
    <3>1. op[f] \in SignInOps \cup SessionOps
      BY <1>0, OpKinds DEF SigningInSteps, TypeOK
    <3> QED BY <3>1 DEF SignInOps, SessionOps, Tokens
  <2>2. op[f].new.sid \in Rows' => sessions'[op[f].new.sid].device = op[f].device
    BY <1>0, <1>7, <2>1 DEF SignInsAgree
  <2>3. op[f].pc = "session" =>
          devices'[op[f].device] # None /\ (op[f].trusted => EarnedThen(op[f].device))
    BY <1>0, <1>5, <1>6, <2>1 DEF SignInsAgree
  <2> QED BY <1>0, <2>2, <2>3 DEF SignInsAgree
<1> QED BY <1>8, <1>9, <1>10 DEF TrustInv

\* The steps that change nothing of what the invariant is about.
LEMMA TrustQuiet ==
  ASSUME TrustInv, TypeOK', NEW h \in Handlers,
         \/ PersistSession(h) \/ Refresh(h) \/ SignOut(h) \/ Fail(h)
         \/ \E current \in SessionIds :
              RevokeOtherSessions(h, current) \/ \E s \in SessionIds : CloseSession(h, current, s)
  PROVE  TrustInv'
<1>0. /\ TypeOK /\ now \in Times /\ op \in [Handlers -> Ops]
      /\ sessions \in [SessionIds -> SessionRows \cup {None}]
  BY DEF TrustInv, TypeOK
<1> DEFINE Closes == \E current \in SessionIds :
      RevokeOtherSessions(h, current) \/ \E s \in SessionIds : CloseSession(h, current, s)
<1>5. \/ PersistSession(h) \/ Fail(h)
      \/ \E t \in Tokens : RefreshToken(h, t)
      \/ Rotate(h) \/ RotateSession(h)
      \/ \E s \in SessionIds : Logout(h, s)
      \/ LogoutSessions(h) \/ LogoutClose(h) \/ Closes
  BY DEF Refresh, SignOut
<1> HIDE DEF Closes
<1>1. UNCHANGED <<now, devices>>
  BY DEF PersistSession, Refresh, RefreshToken, Rotate, RotateSession, SignOut, Logout,
         LogoutSessions, LogoutClose, Fail, RevokeOtherSessions, CloseSession
<1>2. /\ Rows' \subseteq Rows
      /\ \A s \in Rows : /\ sessions'[s].device = sessions[s].device
                         /\ sessions'[s].trustAt = sessions[s].trustAt
                         /\ sessions'[s].trusted = sessions[s].trusted
  <2> DEFINE Kept == /\ Rows' \subseteq Rows
                     /\ \A s \in Rows : /\ sessions'[s].device = sessions[s].device
                                        /\ sessions'[s].trustAt = sessions[s].trustAt
                                        /\ sessions'[s].trusted = sessions[s].trusted
  <2>1. ASSUME UNCHANGED sessions PROVE Kept
    BY <2>1 DEF Rows
  <2>2. ASSUME NEW closed, closed \subseteq Rows, Close(closed) PROVE Kept
    <3>1. \A s \in Rows : sessions[s] \in SessionRows
      BY <1>0, RowsAreRows
    <3>2. \A s \in closed : /\ [sessions[s] EXCEPT !.revoked = TRUE].device = sessions[s].device
                            /\ [sessions[s] EXCEPT !.revoked = TRUE].trustAt = sessions[s].trustAt
                            /\ [sessions[s] EXCEPT !.revoked = TRUE].trusted = sessions[s].trusted
      BY <2>2, <3>1 DEF SessionRows
    <3> QED BY <2>2, <3>2 DEF Close, Rows
  <2>3. ASSUME NEW s, RevokeSession(s) PROVE Kept
    <3>1. CASE Active(s)
      <4>1. {s} \subseteq Rows
        BY <3>1 DEF Active
      <4> QED BY <2>2, <2>3, <3>1, <4>1 DEF RevokeSession
    <3>2. CASE ~Active(s)
      BY <2>1, <2>3, <3>2 DEF RevokeSession
    <3> QED BY <3>1, <3>2
  <2>5. CASE RotateSession(h)
    <3>1. CASE Active(op[h].new.sid)
      <4> DEFINE sid == op[h].new.sid
                 row == [sessions[sid] EXCEPT !.token = op[h].new, !.expires = now + SessionLife]
      <4>1. sid \in Rows /\ sessions[sid] \in SessionRows
        BY <1>0, <3>1, RowsAreRows DEF Active
      <4>2. /\ row.device = sessions[sid].device /\ row.trustAt = sessions[sid].trustAt
            /\ row.trusted = sessions[sid].trusted
        BY <4>1 DEF SessionRows
      <4>3. sessions' = [sessions EXCEPT ![sid] = row]
        BY <1>0, <2>5, <3>1, <4>1 DEF RotateSession, Rows
      <4> HIDE DEF row
      <4> QED BY <1>0, <4>1, <4>2, <4>3 DEF Rows
    <3>2. CASE ~Active(op[h].new.sid)
      BY <2>1, <2>5, <3>2 DEF RotateSession
    <3> QED BY <3>1, <3>2
  <2>6. ASSUME NEW current, RevokeOtherSessions(h, current) PROVE Kept
    <3> DEFINE f(s) == [sessions[s] EXCEPT !.revoked = TRUE, !.expires = now]
    <3>1. \A s \in Rows : /\ f(s).device = sessions[s].device
                         /\ f(s).trustAt = sessions[s].trustAt /\ f(s).trusted = sessions[s].trusted
      <4> TAKE s \in Rows
      <4>1. sessions[s] \in SessionRows
        BY <1>0, RowsAreRows
      <4> QED BY <4>1 DEF SessionRows
    <3>2. sessions' = [s \in SessionIds |-> IF s # current /\ Active(s) THEN f(s) ELSE sessions[s]]
      BY <2>6 DEF RevokeOtherSessions
    <3>3. \A s \in SessionIds : Active(s) => s \in Rows
      BY DEF Active
    <3> HIDE DEF f
    <3> QED BY <3>1, <3>2, <3>3 DEF Rows
  <2>7. CASE \E t \in Tokens : RefreshToken(h, t)
    BY <2>1, <2>7 DEF RefreshToken
  <2>8. CASE \E s \in SessionIds : Logout(h, s)
    BY <2>1, <2>8 DEF Logout
  <2>9. CASE LogoutSessions(h)
    <3>1. Named(h) \subseteq Rows
      BY DEF Named
    <3> QED BY <2>2, <2>9, <3>1 DEF LogoutSessions
  <2>10. CASE LogoutClose(h)
    BY <2>3, <2>10 DEF LogoutClose
  <2>11. CASE Closes
    <3>1. PICK current \in SessionIds :
            RevokeOtherSessions(h, current) \/ \E s \in SessionIds : CloseSession(h, current, s)
      BY <2>11 DEF Closes
    <3>2. CASE RevokeOtherSessions(h, current)
      BY <2>6, <3>2
    <3>3. CASE \E s \in SessionIds : CloseSession(h, current, s)
      BY <2>3, <3>3 DEF CloseSession
    <3> QED BY <3>1, <3>2, <3>3
  <2>12. CASE PersistSession(h) \/ Rotate(h) \/ Fail(h)
    BY <2>1, <2>12 DEF PersistSession, Rotate, Fail
  <2> QED BY <1>5, <2>5, <2>7, <2>8, <2>9, <2>10, <2>11, <2>12
<1>3. ASSUME NEW g \in Handlers, op'[g].pc \in SigningInSteps
      PROVE  /\ op[g].pc \in SigningInSteps
             /\ op'[g].new = op[g].new /\ op'[g].device = op[g].device
             /\ op'[g].pc = "session" => op[g].pc = "session" /\ op'[g].trusted = op[g].trusted
  <2>1. CASE PersistSession(h)
    <3>1. op[h] \in SignInOps
      BY <1>0, <2>1, OpKinds DEF PersistSession
    <3>2. op' = [op EXCEPT ![h] = [op[h] EXCEPT !.pc = "device"]]
      BY <1>0, <2>1 DEF PersistSession, Goto
    <3>3. /\ [op[h] EXCEPT !.pc = "device"].pc = "device"
          /\ [op[h] EXCEPT !.pc = "device"].new = op[h].new
          /\ [op[h] EXCEPT !.pc = "device"].device = op[h].device
      BY <3>1 DEF SignInOps
    <3>4. op[h].pc \in SigningInSteps
      BY <2>1 DEF PersistSession, SigningInSteps
    <3> QED BY <1>0, <1>3, <3>2, <3>3, <3>4
  <2>2. ASSUME \E next : Goto(h, next) /\ next.pc \notin SigningInSteps
        PROVE  op'[g] = op[g]
    BY <1>0, <1>3, <2>2 DEF Goto
  <2>3. Idle.pc \notin SigningInSteps
    BY DEF Idle, SigningInSteps
  <2>4. CASE \E t \in Tokens : RefreshToken(h, t)
    <3>1. PICK t \in Tokens : Goto(h, [pc |-> "rotate", old |-> t, new |-> [sid |-> t.sid, at |-> now]])
      BY <2>4 DEF RefreshToken
    <3> QED BY <1>3, <2>2, <3>1 DEF SigningInSteps
  <2>5. CASE Rotate(h)
    <3>1. Goto(h, [pc |-> "rename", new |-> op[h].new]) \/ Goto(h, Idle)
      BY <2>5 DEF Rotate
    <3> QED BY <1>3, <2>2, <2>3, <3>1 DEF SigningInSteps
  <2>6. CASE RotateSession(h) \/ LogoutClose(h) \/ Fail(h)
    BY <1>3, <2>2, <2>3, <2>6 DEF RotateSession, LogoutClose, Fail
  <2>7. CASE \E s \in SessionIds : Logout(h, s)
    <3>1. PICK s \in SessionIds : Logout(h, s)
      BY <2>7
    <3>2. CASE \E t \in Tokens : Goto(h, [pc |-> "sessions", sid |-> s, old |-> t])
      <4>1. PICK t \in Tokens : Goto(h, [pc |-> "sessions", sid |-> s, old |-> t])
        BY <3>2
      <4> QED BY <1>3, <2>2, <4>1 DEF SigningInSteps
    <3>3. CASE Goto(h, [pc |-> "close", sid |-> s])
      BY <1>3, <2>2, <3>3 DEF SigningInSteps
    <3> QED BY <3>1, <3>2, <3>3 DEF Logout
  <2>8. CASE LogoutSessions(h)
    <3>1. Goto(h, [pc |-> "close", sid |-> op[h].sid]) \/ Goto(h, Idle)
      BY <2>8 DEF LogoutSessions
    <3> QED BY <1>3, <2>2, <2>3, <3>1 DEF SigningInSteps
  <2>9. CASE Closes
    <3>1. UNCHANGED op
      BY <2>9 DEF Closes, RevokeOtherSessions, CloseSession
    <3> QED BY <1>3, <3>1
  <2> QED BY <1>5, <2>1, <2>4, <2>5, <2>6, <2>7, <2>8, <2>9
<1>4. now <= now'
  BY <1>0, <1>1 DEF Times
<1> QED BY <1>1, <1>2, <1>3, <1>4, QuietStep

LEMMA TrustNext == TrustInv /\ [Next]_vars => TrustInv'
<1> SUFFICES ASSUME TrustInv, [Next]_vars
             PROVE  TrustInv'
  OBVIOUS
<1>0. TypeOK /\ DatesEarned /\ now \in Times /\ op \in [Handlers -> Ops]
  BY DEF TrustInv, TypeOK
<1>1. CASE UNCHANGED vars
  BY <1>1 DEF vars, TrustInv, TypeOK, DevicesEarned, DatesEarned, SignInsAgree, Earned, Rows
<1>2. CASE Tick
  <2>1. now' \in Times /\ now <= now'
    BY <1>0, <1>2, SessionsAssumption DEF Tick, Times
  <2>2. TypeOK'
    BY <1>0, <1>2, <2>1 DEF Tick, TypeOK
  <2> QED BY <1>2, <2>1, <2>2, QuietStep DEF Tick, Rows
<1>3. ASSUME NEW h \in Handlers, SignIn(h)
      PROVE  TrustInv'
  <2>1. TypeOK'
    BY <1>0, <1>3, TypeSignIn
  <2> QED BY <1>3, <2>1, TrustLogin, TrustQuiet, TrustUpsert, TrustCreate DEF SignIn
<1>4. ASSUME NEW h \in Handlers, Refresh(h)
      PROVE  TrustInv'
  BY <1>0, <1>4, TypeRefresh, TrustQuiet
<1>5. ASSUME NEW h \in Handlers, SignOut(h)
      PROVE  TrustInv'
  BY <1>0, <1>5, TypeSignOut, TrustQuiet
<1>6. ASSUME NEW h \in Handlers, Profile(h)
      PROVE  TrustInv'
  <2>1. TypeOK'
    BY <1>0, <1>6, TypeProfile
  <2> QED BY <1>6, <2>1, TrustQuiet, TrustTrust DEF Profile
<1>7. ASSUME NEW h \in Handlers, Fail(h)
      PROVE  TrustInv'
  <2>1. op' \in [Handlers -> Ops]
    BY <1>0, <1>7, GotoKeepsType, KindsAreOps DEF Fail
  <2>2. TypeOK'
    BY <1>0, <1>7, <2>1 DEF Fail, TypeOK
  <2> QED BY <1>7, <2>2, TrustQuiet
<1> QED BY <1>1, <1>2, <1>3, <1>4, <1>5, <1>6, <1>7 DEF Next

\* In every reachable state the clock, the rows, the tokens and the requests
\* under way have their types, whatever requests interleave or fail.
THEOREM TypeCorrect == Spec => []TypeOK
<1>1. TrustInv => TypeOK
  BY DEF TrustInv
<1> QED BY <1>1, TrustInit, TrustNext, PTL DEF Spec

\* No session is trusted before its device has been known for the waiting time,
\* for any number of requests at once: neither taking up an old session nor
\* inheriting the trust of a device shortens it.
THEOREM TrustIsEarned == Spec => []TrustEarned
<1>1. TrustInv => TrustEarned
  BY DEF TrustInv, DatesEarned, TrustEarned, Earned
<1> QED BY <1>1, TrustInit, TrustNext, PTL DEF Spec

\* Closing the other sessions leaves none of their unexpired tokens usable, for any
\* number of requests at once.
THEOREM OthersLockedOut == Spec => OthersCannotRefresh
<1>1. TypeOK /\ [Next]_vars =>
        [\A h \in Handlers, current \in SessionIds : RevokeOtherSessions(h, current) =>
           \A t \in Tokens : t.sid # current /\ Unexpired(t) => tokens'[t] # "usable"]_vars
  BY DEF TypeOK, RevokeOtherSessions, SpendAll, OtherTokens
<1> QED BY <1>1, TypeCorrect, PTL DEF Spec, OthersCannotRefresh

-------------------------------------------------------------------------------
(* What a step does to a session *)

\* But for the last step of a sign-in, a session stays as it is, is closed, or, while
\* it is active, has its token, its end or its trust changed.
RowKept(s) ==
  \/ sessions'[s] = sessions[s]
  \/ /\ s \in Rows /\ sessions'[s] # None
     /\ sessions'[s].device = sessions[s].device
     /\ sessions'[s].trustAt = sessions[s].trustAt
     /\ sessions'[s].revoked \/ (Active(s) /\ ~sessions'[s].revoked)

LEMMA ClosingKeeps ==
  ASSUME TypeOK, NEW closed, closed \subseteq Rows, Close(closed)
  PROVE  \A s \in SessionIds : RowKept(s) /\ (s \in closed => sessions'[s].revoked)
<1> TAKE s \in SessionIds
<1>1. CASE s \in closed
  <2> DEFINE row == [sessions[s] EXCEPT !.revoked = TRUE]
  <2>1. sessions[s] \in SessionRows /\ sessions'[s] = row
    BY <1>1, RowsAreRows DEF Close
  <2>2. /\ row \in SessionRows /\ row.device = sessions[s].device
        /\ row.trustAt = sessions[s].trustAt /\ row.revoked
    BY <2>1 DEF SessionRows
  <2> HIDE DEF row
  <2> QED BY <1>1, <2>1, <2>2, SessionsAssumption DEF RowKept
<1>2. CASE s \notin closed
  BY <1>2 DEF Close, RowKept
<1> QED BY <1>1, <1>2

LEMMA RevokingKeeps ==
  ASSUME TypeOK, NEW r, RevokeSession(r)
  PROVE  /\ \A s \in SessionIds : RowKept(s)
         /\ Active(r) => sessions'[r].revoked
<1>1. CASE Active(r)
  <2>1. {r} \subseteq Rows /\ Close({r}) /\ r \in SessionIds
    BY <1>1 DEF Active, RevokeSession, Rows
  <2> QED BY <2>1, ClosingKeeps
<1>2. CASE ~Active(r)
  BY <1>2 DEF RevokeSession, RowKept
<1> QED BY <1>1, <1>2

LEMMA RenewingKeeps ==
  ASSUME TypeOK, NEW r, Active(r), NEW row \in SessionRows,
         row.device = sessions[r].device, row.trustAt = sessions[r].trustAt,
         row.revoked = sessions[r].revoked, sessions' = [sessions EXCEPT ![r] = row]
  PROVE  \A s \in SessionIds : RowKept(s)
<1>1. r \in Rows /\ r \in SessionIds /\ ~row.revoked /\ row # None
  BY SessionsAssumption DEF Active, Rows
<1> QED BY <1>1 DEF TypeOK, RowKept

LEMMA StepsKeepRows ==
  ASSUME TypeOK, NEW h \in Handlers, Refresh(h) \/ SignOut(h) \/ Profile(h)
  PROVE  \A s \in SessionIds : RowKept(s)
<1>0. sessions \in [SessionIds -> SessionRows \cup {None}] /\ now \in Times
  BY DEF TypeOK
<1>1. ASSUME UNCHANGED sessions PROVE \A s \in SessionIds : RowKept(s)
  BY <1>1 DEF RowKept
<1>2. CASE Refresh(h)
  <2> DEFINE sid == op[h].new.sid
             row == [sessions[sid] EXCEPT !.token = op[h].new, !.expires = now + SessionLife]
  <2>1. ASSUME RotateSession(h), Active(sid)
        PROVE  \A s \in SessionIds : RowKept(s)
    <3>1. sid \in Rows /\ sessions[sid] \in SessionRows
      BY <2>1, RowsAreRows DEF Active
    <3>2. op[h].new \in Tokens
      BY <2>1, OpKinds DEF RotateSession, TypeOK, RenameOps
    <3>3. /\ row \in SessionRows /\ row.device = sessions[sid].device
          /\ row.trustAt = sessions[sid].trustAt /\ row.revoked = sessions[sid].revoked
      BY <1>0, <3>1, <3>2, DatesFit DEF SessionRows
    <3>4. sessions' = [sessions EXCEPT ![sid] = row]
      BY <1>0, <2>1, <3>1 DEF RotateSession, Rows
    <3> HIDE DEF row
    <3> QED BY <2>1, <3>3, <3>4, RenewingKeeps
  <2>2. CASE UNCHANGED sessions
    BY <1>1, <2>2
  <2> QED BY <1>2, <2>1, <2>2 DEF Refresh, RefreshToken, Rotate, RotateSession
<1>3. CASE SignOut(h)
  <2>1. CASE LogoutSessions(h)
    <3>1. Named(h) \subseteq Rows /\ Close(Named(h))
      BY <2>1 DEF Named, LogoutSessions
    <3> QED BY <3>1, ClosingKeeps
  <2>2. CASE LogoutClose(h)
    BY <2>2, RevokingKeeps DEF LogoutClose
  <2>3. CASE \E s \in SessionIds : Logout(h, s)
    BY <1>1, <2>3 DEF Logout
  <2> QED BY <1>3, <2>1, <2>2, <2>3 DEF SignOut
<1>4. ASSUME NEW current \in SessionIds, RevokeOtherSessions(h, current)
      PROVE  \A s \in SessionIds : RowKept(s)
  <2> TAKE s \in SessionIds
  <2> DEFINE row == [sessions[s] EXCEPT !.revoked = TRUE, !.expires = now]
  <2>1. CASE s # current /\ Active(s)
    <3>1. s \in Rows /\ sessions[s] \in SessionRows /\ sessions'[s] = row
      BY <1>4, <2>1, RowsAreRows DEF Active, RevokeOtherSessions
    <3>2. /\ row \in SessionRows /\ row.device = sessions[s].device
          /\ row.trustAt = sessions[s].trustAt /\ row.revoked
      BY <1>0, <3>1, DatesFit DEF SessionRows
    <3> HIDE DEF row
    <3> QED BY <3>1, <3>2, SessionsAssumption DEF RowKept
  <2>2. CASE ~(s # current /\ Active(s))
    BY <1>4, <2>2 DEF RevokeOtherSessions, RowKept
  <2> QED BY <2>1, <2>2
<1>5. ASSUME NEW current \in SessionIds, NEW r \in SessionIds, TrustSession(h, current, r)
      PROVE  \A s \in SessionIds : RowKept(s)
  <2> DEFINE row == [sessions[r] EXCEPT !.trusted = TRUE, !.expires = now + TrustedLife]
  <2>1. Active(r) /\ sessions[r] \in SessionRows
    BY <1>5, RowsAreRows DEF TrustSession, Active
  <2>2. /\ row \in SessionRows /\ row.device = sessions[r].device
        /\ row.trustAt = sessions[r].trustAt /\ row.revoked = sessions[r].revoked
    BY <1>0, <2>1, DatesFit DEF SessionRows
  <2>3. sessions' = [sessions EXCEPT ![r] = row]
    BY <1>0, <1>5 DEF TrustSession
  <2> HIDE DEF row
  <2> QED BY <2>1, <2>2, <2>3, RenewingKeeps
<1>6. CASE Profile(h)
  BY <1>4, <1>5, <1>6, RevokingKeeps DEF Profile, CloseSession
<1> QED BY <1>2, <1>3, <1>6

\* A logout leaves its session closed or at its end, for any number of requests at once:
\* where another request put a new token in the row between the two updates of the
\* logout, the session is closed by its id.
THEOREM LogoutsClose == Spec => LogoutCloses
<1>1. TypeOK /\ [Next]_vars =>
        [\A h \in Handlers :
           /\ LogoutSessions(h) \/ LogoutClose(h)
           /\ op'[h] = Idle
           => LET s == op[h].sid IN
              s \in Rows => sessions'[s].revoked \/ sessions'[s].expires <= now]_vars
  <2> SUFFICES ASSUME TypeOK, NEW h \in Handlers, LogoutSessions(h) \/ LogoutClose(h),
                      op'[h] = Idle, op[h].sid \in Rows
               PROVE  sessions'[op[h].sid].revoked \/ sessions'[op[h].sid].expires <= now
    OBVIOUS
  <2> DEFINE s == op[h].sid
  <2>1. s \in Rows /\ s \in SessionIds /\ sessions[s] \in SessionRows
    BY RowsAreRows
  <2>2. CASE LogoutSessions(h)
    <3>1. Named(h) # {}
      <4>1. SUFFICES ASSUME Named(h) = {} PROVE FALSE
        OBVIOUS
      <4>2. op'[h] = [pc |-> "close", sid |-> s]
        BY <2>2, <4>1 DEF LogoutSessions, Goto, TypeOK
      <4>3. op'[h].pc = "close"
        BY <4>2
      <4> QED BY <4>3 DEF Idle
    <3>2. Named(h) \subseteq Rows /\ Close(Named(h))
      BY <2>2 DEF Named, LogoutSessions
    <3>3. s \in Named(h) => sessions'[s].revoked
      BY <3>2, ClosingKeeps, <2>1
    <3>4. s \in Named(h) \/ sessions[s].revoked
      BY <2>1 DEF Named
    <3>5. s \notin Named(h) => sessions'[s] = sessions[s]
      BY <2>1, <3>2 DEF Close
    <3> QED BY <3>3, <3>4, <3>5
  <2>3. CASE LogoutClose(h)
    <3>1. RevokeSession(s)
      BY <2>3 DEF LogoutClose
    <3>2. CASE Active(s)
      BY <3>1, <3>2, RevokingKeeps
    <3>3. CASE ~Active(s)
      <4>1. sessions'[s] = sessions[s]
        BY <3>1, <3>3 DEF RevokeSession
      <4>2. sessions[s].expires \in Int /\ now \in Int
        BY <2>1, SessionsAssumption DEF TypeOK, SessionRows, Expiries, Times
      <4> QED BY <2>1, <3>3, <4>1, <4>2 DEF Active
    <3> QED BY <3>2, <3>3
  <2> QED BY <2>2, <2>3
<1> QED BY <1>1, TypeCorrect, PTL DEF Spec, LogoutCloses

-------------------------------------------------------------------------------
(* One request at a time: one session for a device *)

Alone == \A g, h \in Handlers : g = h

OneEach == \A d \in Devices : \A r, s \in Reusable(d) : r = s

\* The session a sign-in is on its way to is the only one its device could take up,
\* and is not closed.
SignInHolds ==
  \A h \in Handlers : op[h].pc \in SigningInSteps =>
    /\ \A s \in Reusable(op[h].device) : s = op[h].new.sid
    /\ op[h].new.sid \in Rows => ~sessions[op[h].new.sid].revoked

NoLongerWait == \A s \in Rows : sessions[s].trustAt <= now + TrustWait

\* OneSessionPerDevice alone is not inductive: a sign-in chooses its session some
\* queries before it stores it.
AloneInv == OneEach /\ SignInHolds /\ NoLongerWait

\* Steps that keep the rows in this sense do not make a session one to take up.
LEMMA FewerReusable ==
  ASSUME TypeOK, now' \in Times, now <= now', \A s \in SessionIds : RowKept(s), NEW d
  PROVE  Reusable(d)' \subseteq Reusable(d)
<1> SUFFICES ASSUME NEW s \in SessionIds, sessions'[s] # None, sessions'[s].device = d,
                    ~sessions'[s].revoked, sessions'[s].expires > now' - Grace
             PROVE  s \in Reusable(d)
  BY DEF Reusable, Rows
<1>1. now \in Int /\ now' \in Int /\ Grace \in Int /\ Grace >= 0
  BY SessionsAssumption DEF TypeOK, Times
<1>2. s \in Rows /\ sessions[s].device = d /\ ~sessions[s].revoked
      /\ (sessions'[s] = sessions[s] \/ sessions[s].expires > now)
  BY DEF RowKept, Rows, Active
<1>3. sessions[s].expires \in Int
  BY <1>2, RowsAreRows, SessionsAssumption DEF SessionRows, Expiries
<1> QED BY <1>1, <1>2, <1>3 DEF Reusable

\* Such a step keeps what holds of one request at a time, if the sign-in in progress
\* goes on.
LEMMA AloneKeeps ==
  ASSUME TypeOK, AloneInv, now' \in Times, now <= now', \A s \in SessionIds : RowKept(s),
         \A h \in Handlers : op'[h].pc \in SigningInSteps =>
           /\ UNCHANGED sessions /\ op[h].pc \in SigningInSteps
           /\ op'[h].device = op[h].device /\ op'[h].new = op[h].new
  PROVE  AloneInv'
<1>1. \A d : Reusable(d)' \subseteq Reusable(d)
  BY FewerReusable
<1>2. OneEach'
  BY <1>1 DEF AloneInv, OneEach
<1>3. SignInHolds'
  <2> SUFFICES ASSUME NEW h \in Handlers, op'[h].pc \in SigningInSteps
               PROVE  /\ \A s \in Reusable(op[h].device)' : s = op'[h].new.sid
                      /\ op'[h].new.sid \in Rows' => ~sessions'[op'[h].new.sid].revoked
    BY DEF SignInHolds
  <2>1. /\ UNCHANGED sessions /\ op[h].pc \in SigningInSteps
        /\ op'[h].device = op[h].device /\ op'[h].new = op[h].new
    OBVIOUS
  <2>2. Reusable(op[h].device)' \subseteq Reusable(op[h].device)
    <3> DEFINE d == op[h].device
    <3>1. op'[h].device = d
      BY <2>1
    <3> HIDE DEF d
    <3>2. \A s \in SessionIds : s \in Reusable(op[h].device)' => s \in Reusable(d)
      BY <1>1, <3>1 DEF Reusable
    <3> QED BY <3>2 DEF Reusable, Rows, d
  <2> QED BY <2>1, <2>2 DEF AloneInv, SignInHolds, Rows
<1>4. NoLongerWait'
  <2> SUFFICES ASSUME NEW s \in Rows' PROVE sessions'[s].trustAt <= now' + TrustWait
    BY DEF NoLongerWait
  <2>1. s \in Rows /\ sessions'[s].trustAt = sessions[s].trustAt
    BY DEF Rows, RowKept
  <2>2. sessions[s].trustAt \in Int /\ now \in Int /\ now' \in Int /\ TrustWait \in Int
    BY <2>1, RowsAreRows, SessionsAssumption DEF SessionRows, Expiries, TypeOK, Times
  <2>3. sessions[s].trustAt <= now + TrustWait
    BY <2>1 DEF AloneInv, NoLongerWait
  <2> QED BY <2>1, <2>2, <2>3
<1> QED BY <1>2, <1>3, <1>4 DEF AloneInv

LEMMA AloneLogin ==
  ASSUME Alone, TypeOK, AloneInv, NEW h \in Handlers, NEW d \in Devices, Login(h, d)
  PROVE  AloneInv'
<1>1. PICK s \in IF Reusable(d) = {} THEN Fresh ELSE BestReusable(d) :
        Goto(h, [pc |-> "persist", device |-> d, new |-> [sid |-> s, at |-> now]])
  BY DEF Login, BeginSession
<1> DEFINE next == [pc |-> "persist", device |-> d, new |-> [sid |-> s, at |-> now]]
<1>2. op'[h] = next /\ UNCHANGED <<now, sessions>>
  BY <1>1 DEF Goto, TypeOK, Login
<1>3. next.device = d /\ next.new.sid = s
  OBVIOUS
<1> HIDE DEF next
<1>4. /\ \A r \in Reusable(d) : r = s
      /\ s \in Rows => ~sessions[s].revoked
  <2>1. CASE Reusable(d) = {}
    <3>1. s \notin Rows
      BY <1>1, <2>1 DEF Fresh, Taken
    <3> QED BY <2>1, <3>1
  <2>2. CASE Reusable(d) # {}
    <3>1. s \in Reusable(d)
      BY <1>1, <2>2 DEF BestReusable
    <3> QED BY <3>1 DEF AloneInv, OneEach, Reusable
  <2> QED BY <2>1, <2>2
<1>5. SignInHolds'
  <2> SUFFICES ASSUME NEW g \in Handlers
               PROVE  /\ \A r \in Reusable(op[g].device)' : r = op'[g].new.sid
                      /\ op'[g].new.sid \in Rows' => ~sessions'[op'[g].new.sid].revoked
    BY DEF SignInHolds
  <2>1. op'[g].device = d /\ op'[g].new.sid = s
    BY <1>2, <1>3 DEF Alone
  <2>2. \A r : r \in Reusable(op[g].device)' => r \in Reusable(d)
    BY <1>2, <2>1 DEF Reusable, Rows
  <2> QED BY <1>2, <1>4, <2>1, <2>2 DEF Rows
<1> QED BY <1>2, <1>5 DEF AloneInv, OneEach, NoLongerWait, Reusable, Rows

LEMMA AloneCreate ==
  ASSUME Alone, TypeOK, AloneInv, NEW h \in Handlers, CreateSession(h)
  PROVE  AloneInv'
<1> DEFINE d == op[h].device
           sid == op[h].new.sid
           row == [device |-> d, token |-> op[h].new,
                   expires |-> now + SessionLife, revoked |-> FALSE,
                   trusted |-> op[h].trusted, trustAt |-> TrustAvailable(h)]
<1>1. sessions' = [sessions EXCEPT ![sid] = row] /\ op'[h] = Idle /\ now' = now
  BY DEF CreateSession, Goto, TypeOK
<1>2. row.device = d /\ row.trustAt = TrustAvailable(h)
  OBVIOUS
<1> HIDE DEF row
<1>3. op[h].pc \in SigningInSteps /\ sid \in SessionIds
  BY OpKinds DEF CreateSession, SigningInSteps, TypeOK, SessionOps, Tokens
<1>4. \A s \in Reusable(d) : s = sid
  BY <1>3 DEF AloneInv, SignInHolds
<1>5. sessions'[sid] = row /\ \A s \in SessionIds \ {sid} : sessions'[s] = sessions[s]
  BY <1>1, <1>3 DEF TypeOK
<1>6. OneEach'
  <2> SUFFICES ASSUME NEW e \in Devices, NEW r \in Reusable(e)', NEW s \in Reusable(e)'
               PROVE  r = s
    BY DEF OneEach
  <2>1. ASSUME NEW q \in Reusable(e)', q # sid PROVE q \in Reusable(e)
    <3>1. q \in SessionIds /\ sessions'[q] = sessions[q]
      BY <1>5, <2>1 DEF Reusable, Rows
    <3> QED BY <1>1, <2>1, <3>1 DEF Reusable, Rows
  <2>2. sid \in Reusable(e)' => e = d
    BY <1>2, <1>5 DEF Reusable
  <2> QED BY <1>4, <2>1, <2>2 DEF AloneInv, OneEach
<1>7. SignInHolds'
  <2>1. \A g \in Handlers : op'[g] = Idle
    BY <1>1 DEF Alone
  <2> QED BY <2>1 DEF SignInHolds, Idle, SigningInSteps
<1>8. NoLongerWait'
  <2> SUFFICES ASSUME NEW s \in Rows' PROVE sessions'[s].trustAt <= now + TrustWait
    BY <1>1 DEF NoLongerWait
  <2>1. CASE s # sid
    <3>1. s \in Rows /\ sessions'[s] = sessions[s]
      BY <1>5, <2>1 DEF Rows
    <3> QED BY <3>1 DEF AloneInv, NoLongerWait
  <2>2. TrustAvailable(h) <= now + TrustWait
    <3>1. now \in Nat /\ TrustWait \in Nat
      BY SessionsAssumption DEF TypeOK, Times
    <3>2. sessions[sid] # None => sessions[sid].trustAt <= now + TrustWait
      BY <1>3 DEF AloneInv, NoLongerWait, Rows
    <3> QED BY <3>1, <3>2 DEF TrustAvailable
  <2> QED BY <1>2, <1>5, <2>1, <2>2
<1> QED BY <1>6, <1>7, <1>8 DEF AloneInv

\* The other steps keep the rows, end in no sign-in or go on with one.
LEMMA AloneMoves ==
  ASSUME Alone, TypeOK, AloneInv, NEW h \in Handlers,
         \/ PersistSession(h) \/ UpsertTrustedDevice(h)
         \/ Refresh(h) \/ SignOut(h) \/ Profile(h) \/ Fail(h)
  PROVE  AloneInv'
<1>0. now \in Times /\ now \in Int /\ op \in [Handlers -> Ops]
  BY SessionsAssumption DEF TypeOK, Times
<1>1. now' = now
  BY DEF PersistSession, UpsertTrustedDevice, Refresh, RefreshToken, Rotate, RotateSession,
         SignOut, Logout, LogoutSessions, LogoutClose, Profile, RevokeOtherSessions,
         CloseSession, TrustSession, Fail
<1>2. \A s \in SessionIds : RowKept(s)
  BY StepsKeepRows DEF PersistSession, UpsertTrustedDevice, Fail, RowKept
<1>3. ASSUME op'[h].pc \notin SigningInSteps PROVE AloneInv'
  <2>1. \A g \in Handlers : op'[g].pc \notin SigningInSteps
    BY <1>3 DEF Alone
  <2> QED BY <1>0, <1>1, <1>2, <2>1, AloneKeeps
<1>4. CASE PersistSession(h) \/ UpsertTrustedDevice(h)
  <2>1. op[h] \in SignInOps /\ op[h].pc \in SigningInSteps /\ UNCHANGED sessions
    BY <1>0, <1>4, OpKinds DEF PersistSession, UpsertTrustedDevice, SigningInSteps
  <2>2. op'[h].device = op[h].device /\ op'[h].new = op[h].new
    BY <1>0, <1>4, <2>1 DEF PersistSession, UpsertTrustedDevice, Goto, SignInOps
  <2>3. \A g \in Handlers : /\ op[g].pc \in SigningInSteps
                            /\ op'[g].device = op[g].device /\ op'[g].new = op[g].new
    BY <2>1, <2>2 DEF Alone
  <2> QED BY <1>0, <1>1, <1>2, <2>1, <2>3, AloneKeeps
<1>5. Idle.pc \notin SigningInSteps
  BY DEF Idle, SigningInSteps
<1>6. ASSUME NEW next, Goto(h, next), next.pc \notin SigningInSteps
      PROVE  op'[h].pc \notin SigningInSteps
  BY <1>0, <1>6 DEF Goto
<1>7. CASE Refresh(h)
  <2>1. CASE \E t \in Tokens : RefreshToken(h, t)
    <3>1. PICK t \in Tokens : Goto(h, [pc |-> "rotate", old |-> t, new |-> [sid |-> t.sid, at |-> now]])
      BY <2>1 DEF RefreshToken
    <3> QED BY <1>3, <1>6, <3>1 DEF SigningInSteps
  <2>2. CASE Rotate(h)
    <3>1. Goto(h, [pc |-> "rename", new |-> op[h].new]) \/ Goto(h, Idle)
      BY <2>2 DEF Rotate
    <3> QED BY <1>3, <1>5, <1>6, <3>1 DEF SigningInSteps
  <2>3. CASE RotateSession(h)
    BY <1>3, <1>5, <1>6, <2>3 DEF RotateSession
  <2> QED BY <1>7, <2>1, <2>2, <2>3 DEF Refresh
<1>8. CASE SignOut(h)
  <2>1. CASE \E s \in SessionIds : Logout(h, s)
    <3>1. PICK s \in SessionIds : Logout(h, s)
      BY <2>1
    <3>2. \/ \E t \in Tokens : Goto(h, [pc |-> "sessions", sid |-> s, old |-> t])
          \/ Goto(h, [pc |-> "close", sid |-> s])
      BY <3>1 DEF Logout
    <3> QED BY <1>3, <1>6, <3>2 DEF SigningInSteps
  <2>2. CASE LogoutSessions(h)
    <3>1. Goto(h, [pc |-> "close", sid |-> op[h].sid]) \/ Goto(h, Idle)
      BY <2>2 DEF LogoutSessions
    <3> QED BY <1>3, <1>5, <1>6, <3>1 DEF SigningInSteps
  <2>3. CASE LogoutClose(h)
    BY <1>3, <1>5, <1>6, <2>3 DEF LogoutClose
  <2> QED BY <1>8, <2>1, <2>2, <2>3 DEF SignOut
<1>9. CASE Profile(h)
  <2>1. op'[h] = Idle
    BY <1>9 DEF Profile, RevokeOtherSessions, CloseSession, TrustSession
  <2> QED BY <1>3, <1>5, <2>1
<1>10. CASE Fail(h)
  BY <1>3, <1>5, <1>6, <1>10 DEF Fail
<1> QED BY <1>4, <1>7, <1>8, <1>9, <1>10

LEMMA AloneNext == ASSUME Alone, TypeOK, AloneInv, [Next]_vars PROVE AloneInv'
<1>1. CASE UNCHANGED vars
  BY <1>1 DEF vars, AloneInv, OneEach, SignInHolds, NoLongerWait, Reusable, Rows
<1>2. CASE Tick
  <2>1. now' \in Times /\ now <= now' /\ UNCHANGED <<sessions, op>>
    BY <1>2, SessionsAssumption DEF Tick, Times, TypeOK
  <2> QED BY <2>1, AloneKeeps DEF RowKept
<1>3. ASSUME NEW h \in Handlers, SignIn(h) \/ Refresh(h) \/ SignOut(h) \/ Profile(h) \/ Fail(h)
      PROVE  AloneInv'
  BY <1>3, AloneLogin, AloneCreate, AloneMoves DEF SignIn
<1> QED BY <1>1, <1>2, <1>3 DEF Next

LEMMA AloneInvariance ==
  ASSUME Alone
  PROVE  Spec => [](TrustInv /\ AloneInv)
<1>1. Init => AloneInv
  BY DEF Init, AloneInv, OneEach, SignInHolds, NoLongerWait, Reusable, Rows, Idle, SigningInSteps
<1>2. TrustInv /\ AloneInv /\ [Next]_vars => AloneInv'
  BY AloneNext DEF TrustInv
<1> QED BY <1>1, <1>2, TrustInit, TrustNext, PTL DEF Spec

\* Where requests come one at a time, the list the user closes and trusts sessions from
\* shows each device once, by the session the next sign-in takes up, and shows or offers
\* trust only where the device has been known for the waiting time.
THEOREM ListIsTrue ==
  ASSUME Alone
  PROVE  Spec => []ListTellsTrue
<1>1. ASSUME TrustInv, AloneInv PROVE ListTellsTrue
  <2>0. TypeOK /\ DevicesEarned /\ DatesEarned /\ OneEach /\ NoLongerWait
    BY <1>1 DEF TrustInv, AloneInv
  <2>1. OneSessionPerDevice
    <3> SUFFICES ASSUME NEW d \in Devices PROVE Cardinality(Reusable(d)) <= 1
      BY DEF OneSessionPerDevice
    <3>1. CASE Reusable(d) = {}
      BY <3>1, FS_EmptySet
    <3>2. CASE Reusable(d) # {}
      <4>1. PICK s : s \in Reusable(d)
        BY <3>2
      <4>2. Reusable(d) = {s}
        BY <2>0, <4>1 DEF OneEach
      <4> QED BY <4>2, FS_Singleton
    <3> QED BY <3>1, <3>2
  <2>2. ASSUME NEW s \in Listed
        PROVE  /\ s \in SessionIds /\ s \in Rows /\ sessions[s] \in SessionRows
               /\ sessions[s].trustAt \in Int /\ sessions[s].expires \in Int
               /\ sessions[s].expires > now /\ now \in Int /\ ~sessions[s].revoked
               /\ sessions[s].device \in Devices
    BY <2>0, <2>2, RowsAreRows, SessionsAssumption
       DEF Listed, Active, SessionRows, Expiries, TypeOK, Times
  <2>3. DeviceListedOnce
    <3> SUFFICES ASSUME NEW s \in Listed PROVE BestReusable(sessions[s].device) = {s}
      BY DEF DeviceListedOnce, Shown
    <3> DEFINE d == sessions[s].device
    <3>1. now - Grace <= now
      BY <2>2, SessionsAssumption
    <3>2. s \in Reusable(d) /\ d \in Devices
      BY <2>2, <3>1, SessionsAssumption DEF Reusable
    <3>3. Reusable(d) = {s}
      BY <2>0, <3>2 DEF OneEach
    <3> HIDE DEF d
    <3> QED BY <2>2, <3>3 DEF BestReusable, d
  <2>4. ListShowsTrust
    <3> SUFFICES ASSUME NEW s \in Listed
                 PROVE  /\ ShownTrusted(s) \/ sessions[s].trustAt <= now =>
                             /\ devices[sessions[s].device] # None
                             /\ devices[sessions[s].device].first + TrustWait <= now
                        /\ sessions[s].trustAt <= now + TrustWait
      BY DEF ListShowsTrust, Shown
    <3> DEFINE d == sessions[s].device
    <3>1. s \in Rows /\ d \in Devices
      BY <2>2
    <3>2. devices[d] # None /\ (sessions[s].trusted => Earned(d))
          /\ (devices[d].first + TrustWait <= sessions[s].trustAt \/ Earned(d))
      BY <2>0, <3>1 DEF DatesEarned
    <3>3. DeviceTrusted(devices[d]) => Earned(d)
      BY <2>0, <3>1, <3>2 DEF DevicesEarned, DeviceTrusted
    <3>4. devices[d].first \in Int /\ TrustWait \in Int
      BY <2>0, <3>1, <3>2, SessionsAssumption DEF TypeOK, DeviceRows, Times
    <3>5. sessions[s].trustAt <= now => Earned(d)
      BY <2>2, <3>2, <3>4 DEF Earned
    <3>6. sessions[s].trustAt <= now + TrustWait
      BY <2>0, <3>1 DEF NoLongerWait
    <3> QED BY <3>2, <3>3, <3>5, <3>6 DEF ShownTrusted, Earned
  <2> QED BY <2>1, <2>3, <2>4 DEF ListTellsTrue
<1>2. TrustInv /\ AloneInv => ListTellsTrue
  BY <1>1
<1> QED BY <1>2, AloneInvariance, PTL

\* Where requests come one at a time, no request opens a closed session again: a sign-in
\* takes up a session that is not closed, and a refresh or a trust one that is active.
THEOREM ClosedForGood ==
  ASSUME Alone
  PROVE  Spec => ClosedStaysClosed
<1>1. ASSUME TrustInv, AloneInv, [Next]_vars
      PROVE  [\A s \in Rows : sessions[s].revoked => sessions'[s].revoked]_vars
  <2> SUFFICES ASSUME NEW s \in Rows, sessions[s].revoked PROVE sessions'[s].revoked
    OBVIOUS
  <2>0. TypeOK /\ s \in SessionIds
    BY <1>1 DEF TrustInv, Rows
  <2>1. CASE UNCHANGED sessions
    BY <2>1
  <2>2. ASSUME NEW h \in Handlers, CreateSession(h) PROVE sessions'[s].revoked
    <3>1. op[h].new.sid # s
      BY <1>1, <2>2 DEF AloneInv, SignInHolds, CreateSession, SigningInSteps
    <3>2. sessions'[s] = sessions[s]
      BY <2>0, <2>2, <3>1 DEF CreateSession, TypeOK
    <3> QED BY <3>2
  <2>3. ASSUME NEW h \in Handlers, Refresh(h) \/ SignOut(h) \/ Profile(h)
        PROVE  sessions'[s].revoked
    <3>1. RowKept(s)
      BY <2>0, <2>3, StepsKeepRows
    <3> QED BY <3>1 DEF RowKept, Active
  <2>4. \/ UNCHANGED sessions
        \/ \E h \in Handlers : CreateSession(h) \/ Refresh(h) \/ SignOut(h) \/ Profile(h)
    BY <1>1 DEF Next, vars, Tick, SignIn, Login, PersistSession, UpsertTrustedDevice, Fail
  <2> QED BY <2>1, <2>2, <2>3, <2>4
<1> QED BY <1>1, AloneInvariance, PTL DEF Spec, ClosedStaysClosed

===============================================================================
