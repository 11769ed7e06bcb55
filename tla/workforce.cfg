SPECIFICATION Spec
CONSTANTS
  k1 = k1 k2 = k2 m1 = m1 m2 = m2 n1 = n1 n2 = n2
  Users = {k1, k2}
  Identifiers = {m1, m2}
  DeviceIds = {n1, n2}
  DeviceHandlers = {h1, h2}
  NoDevice = NoDevice
  ChangeLimit = 1
  MaxDrops = 1
  Workers = {w1}
  Crews = {k1, k2}
  Places = {m1, m2}
  Supervisors = {n1, n2}
  HR = HR
  MaxCrews = 1
  LastDay = 1
  Spans <- MCSpans
  Nil = Nil
  Contracts = {k1, k2}
  ContractHandlers = {n1, n2}
  MaxCode = 3
  Free = Free
  WorkerIds = {k1, k2}
  UserIds = {m1, m2}
  Documents = {n1, n2}
  MaxContracts = 2
  NoRow = NoRow
  Texts = {n1, n2}
  MaxEdits = 5
  Blank = Blank
  Unsaid = Unsaid
  DocumentIds = {k1, k2}
  Contents = {m1, m2}
  RequestDocuments = {q1}
  Templates = {t1}
  FileHandlers = {n1, n2}
  Resend = FALSE
  NoPath = NoPath
  NoDocument = NoDocument
  RoleIds = {r1, r2, r3}
  Seeded = r1
  Codes = {"ADMIN", "SUPERVISOR", "JEFE"}
  ProtectedCodes = {"ADMIN"}
  Modules = {"requests", "areas"}
  Actions = {"read", "read_own", "approve", "update", "delete"}
  PermissionsOf <- MCPermissionsOf
  NoRole = NoRole
  Deleted = Deleted
SYMMETRY Interchangeable
CHECK_DEADLOCK FALSE
INVARIANTS TypeOK MonthlyLimit MembersPlaced PdfShowsCode  FileBehindDocument ScreenKeepsGrants
PROPERTIES ReassignedWorksThere 
