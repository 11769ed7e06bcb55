------------------------------ MODULE MCWorkforce ------------------------------
(* The components of the company's staff, side by side, for TLC: each behaviour is *)
(* one of one component, the others stay as they begin.                            *)
EXTENDS Devices, Transfers, Contracts, OnboardingForms, StoredFiles, Roles, TLC

CONSTANTS k1, k2, m1, m2, n1, n2    \* members of all the sets

VARIABLE part

MCSpans == {<<0, 0>>}

MCPermissionsOf ==
  [m \in Modules |->
     IF m = "requests" THEN {"read_own", "approve"} ELSE {"read", "update", "delete"}]

Interchangeable ==
  Permutations({k1, k2}) \cup Permutations({m1, m2}) \cup Permutations({n1, n2})

\* A company without roles: states of the other components stay small.
NoRoles == roles = [r \in RoleIds |-> NoRole] /\ grants = [r \in RoleIds |-> {}]

Init ==
  /\ part \in {"devices", "placement", "contracts", "workforce", "profiles", "uploads", "mirrors", "templates", "roles"}
  /\ DevicesInit /\ PlacementInit /\ ContractsInit /\ ProfilesInit /\ WorkforceInit /\ StoredFilesInit
  /\ IF part = "roles" THEN RolesInit ELSE NoRoles

Next ==
  \/ /\ part = "devices" /\ DevicesNext /\ part' = part
     /\ UNCHANGED <<placementVars, contractsVars, profilesVars, filesVars, rolesVars>>
  \/ /\ part = "placement" /\ PlacementNext /\ part' = part
     /\ UNCHANGED <<devicesVars, contractsVars, profilesVars, filesVars, rolesVars>>
  \/ /\ part = "contracts" /\ ContractsNext /\ part' = part
     /\ UNCHANGED <<devicesVars, placementVars, profilesVars, filesVars, rolesVars>>
  \/ /\ part = "workforce" /\ WorkforceNext /\ part' = part
     /\ UNCHANGED <<devicesVars, placementVars, contractsVars, filesVars, rolesVars>>
     /\ UNCHANGED <<ofUser, ofWorker, asked, edits>>
  \/ /\ part = "profiles" /\ ProfilesNext /\ part' = part
     /\ UNCHANGED <<devicesVars, placementVars, contractsVars, filesVars, rolesVars>>
  \/ /\ part = "uploads" /\ DocumentsNext /\ drawn' = {} /\ part' = part
     /\ UNCHANGED <<devicesVars, placementVars, contractsVars, profilesVars, rolesVars>>
  \/ /\ part = "mirrors" /\ DocumentsNext /\ part' = part
     /\ Cardinality({h \in FileHandlers : doing'[h] # Resting}) <= 1
     /\ UNCHANGED <<devicesVars, placementVars, contractsVars, profilesVars, rolesVars>>
  \/ /\ part = "templates" /\ TemplatesNext /\ part' = part
     /\ UNCHANGED <<devicesVars, placementVars, contractsVars, profilesVars, rolesVars>>
  \/ /\ part = "roles" /\ RolesNext /\ part' = part
     /\ UNCHANGED <<devicesVars, placementVars, contractsVars, profilesVars, filesVars>>

allVars ==
  <<part, devicesVars, placementVars, contractsVars, profilesVars, filesVars, rolesVars>>

Spec == Init /\ [][Next]_allVars

TypeOK ==
  /\ DevicesTypeOK /\ PlacementTypeOK /\ ContractsTypeOK /\ WorkforceTypeOK /\ ProfilesTypeOK
  /\ StoredFilesTypeOK /\ RolesTypeOK
===============================================================================
