-------------------------------- MODULE Roles ---------------------------------
(***************************************************************************)
(* The roles of a company and their grants: modules/roles/roles.service.js *)
(* and the resolution of what a user may do, shared/utils/authz.js.        *)
(*                                                                         *)
(* The screen shows and sends an access level for a module; the table      *)
(* holds one row for each permission.  An action is a transaction, one at  *)
(* a time.                                                                 *)
(***************************************************************************)
EXTENDS FiniteSets

CONSTANTS
  RoleIds,
  Seeded,          \* the id of the protected role that comes with the company
  Codes,           \* normalized codes of roles
  ProtectedCodes,  \* PROTECTED_ROLE_CODES
  Modules,
  Actions,         \* last part of the name of a permission
  PermissionsOf,   \* module -> its actions in the table permissions
  NoRole,          \* an id that was never drawn
  Deleted          \* a row with deleted_at

AccessLevels == {"none", "read", "write", "admin"}

ReadActions == {"read", "read_own", "read_company", "read_project"}

WriteActions ==
  {"approve", "check_in", "check_out", "correct", "create", "export", "generate", "manage",
   "reject", "request", "review", "update", "upload_signed", "write"}

RoleRows == [code : Codes, active : BOOLEAN]

ASSUME RolesAssumption ==
  /\ Seeded \in RoleIds
  /\ ProtectedCodes \subseteq Codes
  /\ PermissionsOf \in [Modules -> SUBSET Actions]
  /\ {NoRole, Deleted} \cap RoleRows = {} /\ NoRole # Deleted

VARIABLES
  roles,           \* roles
  grants           \* role_permissions

rolesVars == <<roles, grants>>

Grants == UNION {{m} \X PermissionsOf[m] : m \in Modules}

\* The access levels a request sends, for some of the modules.
Requested == UNION {[M -> AccessLevels] : M \in SUBSET Modules}

RolesTypeOK ==
  /\ roles \in [RoleIds -> RoleRows \cup {NoRole, Deleted}]
  /\ grants \in [RoleIds -> SUBSET Grants]

-------------------------------------------------------------------------------
PermissionsForAny(m, access) ==                             \* faulty variant
  CASE access = "none"  -> {}
    [] access \in {"read", "write"} -> PermissionsOf[m] \cap (ReadActions \cup WriteActions)
    [] access = "admin" -> Actions

\* getPermissionsForModule
PermissionsFor(m, access) ==
  LET readable == PermissionsOf[m] \cap ReadActions IN
  CASE access = "none"  -> {}
    [] access = "read"  -> readable
    [] access = "write" -> readable \cup (PermissionsOf[m] \cap WriteActions)
    [] access = "admin" -> PermissionsOf[m]

GrantedFor(wanted) == UNION {{m} \X PermissionsFor(m, wanted[m]) : m \in DOMAIN wanted}

OfModules(M) == {g \in Grants : g[1] \in M}

InferByActions(m, held) ==                                  \* faulty variant
  CASE held = {} -> "none"
    [] held # {} /\ held \subseteq ReadActions -> "read"
    [] OTHER -> "write"

\* inferModuleAccess: the level the screen shows for the permissions held of a module.
InferModuleAccess(m, held) ==
  CASE held = {} -> "none"
    [] held # {} /\ held = PermissionsOf[m] -> "admin"
    [] held # {} /\ held # PermissionsOf[m] /\ held \subseteq ReadActions -> "read"
    [] OTHER -> "write"

Held(r, m) == {a \in PermissionsOf[m] : <<m, a>> \in grants[r]}

\* mapRole: the modules of which the role holds something.
Shown(r) == [m \in {m \in Modules : Held(r, m) # {}} |-> InferModuleAccess(m, Held(r, m))]

Exists(r) == roles[r] \notin {NoRole, Deleted}

IsProtected(r) == roles[r].code \in ProtectedCodes

\* ensureUniqueRole, and the unique indexes over the rows that are not deleted.
Unique(code, r) == \A other \in RoleIds \ {r} : Exists(other) => roles[other].code # code

-------------------------------------------------------------------------------
\* createRole: nobody else sees the new role before the commit.
CreateRole(r, code, active, wanted) ==
  /\ roles[r] = NoRole
  /\ Unique(code, r)
  /\ roles' = [roles EXCEPT ![r] = [code |-> code, active |-> active]]
  /\ grants' = [grants EXCEPT ![r] = GrantedFor(wanted)]

\* syncRoleModules: the rows of the modules sent are replaced.
SyncRoleModules(r, wanted) ==
  grants' = [grants EXCEPT ![r] = (@ \ OfModules(DOMAIN wanted)) \cup GrantedFor(wanted)]

\* updateRole, and updateRoleStatus when there are no modules.
UpdateRole(r, code, active, wanted) ==
  /\ Exists(r) /\ ~IsProtected(r)
  /\ code # roles[r].code => Unique(code, r)
  /\ roles' = [roles EXCEPT ![r] = [code |-> code, active |-> active]]
  /\ SyncRoleModules(r, wanted)

\* deleteRole leaves the rows of role_permissions and user_roles.
DeleteRole(r) ==
  /\ Exists(r) /\ ~IsProtected(r)
  /\ roles' = [roles EXCEPT ![r] = Deleted]
  /\ UNCHANGED grants

\* The protected role holds everything.
RolesInit ==
  \E code \in ProtectedCodes :
    /\ roles = [r \in RoleIds |->
                  IF r = Seeded THEN [code |-> code, active |-> TRUE] ELSE NoRole]
    /\ grants = [r \in RoleIds |-> IF r = Seeded THEN Grants ELSE {}]

RolesNext ==
  \E r \in RoleIds :
    \/ \E code \in Codes, active \in BOOLEAN, wanted \in Requested :
         CreateRole(r, code, active, wanted) \/ UpdateRole(r, code, active, wanted)
    \/ DeleteRole(r)

-------------------------------------------------------------------------------
\* Saving a role as the screen shows it changes none of its grants: what a role holds
\* of a module is always what an access level stands for, and the level that
\* inferModuleAccess shows stands for the same permissions.
ScreenKeepsGrants ==
  \A r \in RoleIds : Exists(r) => GrantedFor(Shown(r)) = grants[r]
===============================================================================
