----------------------------- MODULE RoleCatalog ---------------------------
(***************************************************************************)
(* The roles (api/settings/users_roles.py): those that customers make, and *)
(* the built-in ones, which every listing makes or puts right first        *)
(* (_ensure_builtin_roles), from a catalogue in the code that says which   *)
(* of them may be edited.  Requests are at the same roles at a time.       *)
(*                                                                         *)
(* Names are unique in the database.  The session writes the columns that  *)
(* it changed, all at once as the request ends.                            *)
(***************************************************************************)
CONSTANTS
  RoleAdmin,    \* requests that are under way at a time
  LockedRole,   \* built-in roles that cannot be edited
  OpenRole,     \* built-in roles that can
  CustomRole,   \* other names
  Permits,      \* permissions, of which a role has one set
  Shipped,      \* the permissions that the catalogue has for a built-in role
  NoPermits,    \* the empty set of permissions
  NoRole        \* there is no role of that name

ASSUME CatalogAssumption ==
  /\ {Shipped, NoPermits} \subseteq Permits
  /\ LockedRole \cap OpenRole = {}
  /\ CustomRole \cap (LockedRole \cup OpenRole) = {}
  /\ NoRole \notin [built_in : BOOLEAN, permits : Permits]

VARIABLES
  roles,     \* [name -> its row, or NoRole]
  roleAdmin, \* [RoleAdmin -> what it is at]
  chosen,    \* [name -> the permissions that somebody last gave the role]
  raced      \* names of roles that somebody changed while a request was at
             \* them that ended since

catalog_vars == <<roles, roleAdmin, chosen, raced>>

BuiltIn  == LockedRole \cup OpenRole
RoleName == BuiltIn \cup CustomRole
NoRoleTask == [at |-> "idle"]
AtRoles(a) == roleAdmin[a] # NoRoleTask

CatalogInit ==
  /\ roles = [n \in RoleName |-> NoRole]
  /\ roleAdmin = [a \in RoleAdmin |-> NoRoleTask]
  /\ chosen = [n \in RoleName |-> NoPermits]
  /\ raced = {}

BeginsRole(a, task) ==
  /\ ~AtRoles(a)
  /\ roleAdmin' = [roleAdmin EXCEPT ![a] = task]
  /\ UNCHANGED <<roles, chosen, raced>>

-----------------------------------------------------------------------------
(* list_roles reads the built-in roles by name.                            *)
ListRoles(a) ==
  BeginsRole(a, [at |-> "lists", base |-> [n \in BuiltIn |-> roles[n]],
             others |-> {}, gone |-> {}])

\* Mutant of Preserved: editable roles are put right too.
PreservedNone(n, row) == FALSE

\* "Preserve customized permissions for editable built-ins"
Preserved(n, row) == n \in OpenRole /\ row.permits # NoPermits

\* A column that was read as base is set to value.
Set(stored, base, value) == IF value = base THEN stored ELSE value

\* The row of a built-in role as the listing leaves it.
Ensured(n, base, stored) ==
  IF base = NoRole THEN [built_in |-> TRUE, permits |-> Shipped]
  ELSE [built_in |-> Set(stored.built_in, base.built_in, TRUE),
        permits  |-> IF Preserved(n, base) THEN stored.permits
                     ELSE Set(stored.permits, base.permits, Shipped)]

\* Roles that changed, and those of them that were deleted, are known to
\* have to the requests that go on; a ends.
Tells(a, changed, deleted) ==
  roleAdmin' = [b \in RoleAdmin |->
    IF b = a \/ ~AtRoles(b) THEN NoRoleTask
    ELSE [roleAdmin[b] EXCEPT !.others = @ \cup changed, !.gone = @ \cup deleted]]

(* The listing is committed, unless a role that it is to insert is there   *)
(* by now, or one that it is to change is not.                             *)
CommitList(a) ==
  /\ AtRoles(a) /\ roleAdmin[a].at = "lists"
  /\ LET base == roleAdmin[a].base
         lost == {n \in roleAdmin[a].gone \cap BuiltIn : base[n] # NoRole}
         left == [n \in BuiltIn |-> IF n \in lost THEN roles[n]
                                   ELSE Ensured(n, base[n], roles[n])]
     IN  /\ \A n \in BuiltIn : base[n] = NoRole => roles[n] = NoRole
         /\ \A n \in lost : Ensured(n, base[n], base[n]) = base[n]
         /\ roles' = [n \in RoleName |-> IF n \in BuiltIn THEN left[n] ELSE roles[n]]
         /\ chosen' = [n \in RoleName |->
              IF n \in BuiltIn /\ base[n] = NoRole THEN Shipped ELSE chosen[n]]
         /\ Tells(a, {n \in BuiltIn : left[n] # roles[n]}, {})
  /\ raced' = (raced \ LockedRole) \cup (roleAdmin[a].others \cap BuiltIn)

-----------------------------------------------------------------------------
\* create_role, as far as the query for the name.
CreateRole(a, n, p) ==
  /\ roles[n] = NoRole
  /\ BeginsRole(a, [at |-> "creates", name |-> n, permits |-> p,
                others |-> {}, gone |-> {}])

CommitCreate(a) ==
  /\ AtRoles(a) /\ roleAdmin[a].at = "creates"
  /\ LET n == roleAdmin[a].name
     IN  /\ roles[n] = NoRole
         /\ roles' = [roles EXCEPT ![n] =
              [built_in |-> FALSE, permits |-> roleAdmin[a].permits]]
         /\ chosen' = [chosen EXCEPT ![n] = roleAdmin[a].permits]
         /\ raced' = raced \ {n}
         /\ Tells(a, {n}, {})

\* BUILT_IN_ROLES.get(role.name).get("editable"), of a built-in role
Editable(n, row) == row.built_in => n \notin LockedRole

(* update_role of one that may be edited.                                  *)
ChangeRole(a, n, p) ==
  /\ roles[n] # NoRole /\ Editable(n, roles[n])
  /\ BeginsRole(a, [at |-> "updates", name |-> n, permits |-> p, base |-> roles[n],
                others |-> {}, gone |-> {}])

CommitRole(a) ==
  /\ AtRoles(a) /\ roleAdmin[a].at = "updates"
  /\ LET n    == roleAdmin[a].name
         left == Set(roles[n].permits, roleAdmin[a].base.permits,
                     roleAdmin[a].permits)
     IN  /\ n \notin roleAdmin[a].gone
         /\ roles' = [roles EXCEPT ![n].permits = left]
         /\ chosen' = [chosen EXCEPT ![n] = roleAdmin[a].permits]
         /\ raced' = IF n \in roleAdmin[a].others THEN raced \cup {n}
                                                 ELSE raced \ {n}
         /\ Tells(a, {n}, {})

\* delete_role, which is in one with its commit but for what is said of
\* built_in: a listing may make the role a built-in one meanwhile.
DropRole(a, n) ==
  /\ roles[n] # NoRole /\ ~roles[n].built_in
  /\ BeginsRole(a, [at |-> "deletes", name |-> n, others |-> {}, gone |-> {}])

CommitDelete(a) ==
  /\ AtRoles(a) /\ roleAdmin[a].at = "deletes"
  /\ LET n == roleAdmin[a].name
     IN  IF n \in roleAdmin[a].gone
         THEN Tells(a, {}, {}) /\ UNCHANGED roles
         ELSE Tells(a, {n}, {n}) /\ roles' = [roles EXCEPT ![n] = NoRole]
  /\ UNCHANGED <<chosen, raced>>

TaskFails(a) ==
  /\ AtRoles(a)
  /\ roleAdmin' = [roleAdmin EXCEPT ![a] = NoRoleTask]
  /\ UNCHANGED <<roles, chosen, raced>>

CatalogNext ==
  \E a \in RoleAdmin :
     \/ ListRoles(a) \/ CommitList(a)
     \/ \E n \in RoleName, p \in Permits : CreateRole(a, n, p) \/ ChangeRole(a, n, p)
     \/ \E n \in RoleName : DropRole(a, n)
     \/ CommitCreate(a) \/ CommitRole(a) \/ CommitDelete(a) \/ TaskFails(a)

CatalogSpec == CatalogInit /\ [][CatalogNext]_catalog_vars

-----------------------------------------------------------------------------
(* However often roles are listed, a role has the permissions that it was  *)
(* last given, an editable built-in one too; but for a locked one, which   *)
(* has those it was shipped with as soon as it is built in, an editable    *)
(* one that was given none, which may get them back, and a role that       *)
(* others changed under a request.                                         *)
RolesStand ==
  \A n \in RoleName \ raced : roles[n] # NoRole =>
    IF roles[n].built_in /\ n \in LockedRole THEN roles[n].permits = Shipped
    ELSE \/ roles[n].permits = chosen[n]
         \/ roles[n] = [built_in |-> TRUE, permits |-> Shipped]
              /\ chosen[n] = NoPermits

=============================================================================
