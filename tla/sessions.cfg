SPECIFICATION Spec
CONSTANTS
  Handlers = {h1}
  Devices = {d1, d2}
  MaxSessions = 2
  MaxTime = 2
  SessionLife = 2
  TrustWait = 1
  TrustedLife = 4
  Grace = 1
  None = None
CHECK_DEADLOCK FALSE
SYMMETRY DeviceSymmetry
INVARIANTS ListTellsTrue TrustEarned
PROPERTIES ClosedStaysClosed LogoutCloses 
