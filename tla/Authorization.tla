---------------------------- MODULE Authorization ----------------------------
(***************************************************************************)
(* Roles, permissions and the cache of what a role may do: AuthGuard's      *)
(* _checkUserPermission, RoleService and PermissionService with their       *)
(* repositories.  Every handler reads, writes and clears the cache in       *)
(* separate steps, and the guard fills the cache from two SELECTs.          *)
(*                                                                          *)
(* A route stands for a pair of method and path.  A role that some user has *)
(* cannot be deleted (foreign key); users are not modelled, the refusal is  *)
(* one of the reasons of Abort.                                             *)
(***************************************************************************)
EXTENDS Naturals

CONSTANTS
    Roles,          \* role ids
    Permissions,    \* permission ids
    Routes,
    Names,          \* names of roles
    Requests,
    Arrivals,       \* the sets of requests that may come in together
    OpOf,           \* the handler a request is for
    RoleOf,         \* the role in the token of a guarded request or in the path
    PermissionOf,   \* the permission in the path
    RouteOf,        \* the route asked for, or the one in the body
    BodyOf,         \* the body of createRole and updateRole
    InitialRoles,
    InitialName,
    InitialLinks,
    InitialRoute,
    Admin,          \* the role the initial script names ADMIN
    None

Ops == {"guard", "createRole", "updateRole", "deleteRole", "createPermission",
        "updatePermission", "deletePermission"}

RoleBody == [name : Names, isActive : BOOLEAN, permissionIds : SUBSET Permissions]

ASSUME AuthorizationAssumption ==
    /\ None \notin Routes
    /\ OpOf \in [Requests -> Ops]
    /\ RoleOf \in [Requests -> Roles]
    /\ PermissionOf \in [Requests -> Permissions]
    /\ RouteOf \in [Requests -> Routes]
    /\ BodyOf \in [Requests -> RoleBody]
    /\ Arrivals \subseteq SUBSET Requests
    /\ InitialRoles \subseteq Roles
    /\ InitialName \in [Roles -> Names]
    /\ InitialLinks \in [Roles -> SUBSET Permissions]
    /\ InitialRoute \in [Permissions -> Routes \cup {None}]
    /\ \A r \in Roles : \A p \in InitialLinks[r] :
            r \in InitialRoles /\ InitialRoute[p] # None

\* The initial script creates the role ADMIN, and role_name_unique keeps names
\* apart.
ASSUME AdminAssumption ==
    /\ Admin \in InitialRoles
    /\ InitialName[Admin] = "ADMIN"
    /\ \A r \in InitialRoles : InitialName[r] = "ADMIN" => r = Admin

VARIABLES
    roles,      \* the ids in the Role table
    roleName,   \* their names
    active,     \* those with isActive
    links,      \* role -> its rows in _PermissionToRole
    route,      \* permission -> its route, None: no such row
    cache,      \* role -> the routes in its permissionsMap, None: no entry
    pc,         \* request -> where its handler is
    seen,       \* guarded request -> the routes it read
    owed,       \* request -> the roles whose entries it is to delete
    before,     \* history: request -> the roles its permission had when it began
    overtaken,  \* history: requests whose read a write has overtaken
    excused     \* history: roles whose entry no request will delete

tableVars == <<roles, roleName, active, links, route>>

authVars == <<tableVars, cache, pc, seen, owed, before, overtaken, excused>>

Labels == {"unsent", "start", "missed", "found", "read", "allowed", "forbidden",
           "verified", "validated", "listed", "written", "answered", "failed"}

\* The tables, the cache and what requests remember are of their types.
TypeOK ==
    /\ roles \in SUBSET Roles
    /\ roleName \in [Roles -> Names]
    /\ active \in SUBSET Roles
    /\ links \in [Roles -> SUBSET Permissions]
    /\ route \in [Permissions -> Routes \cup {None}]
    /\ cache \in [Roles -> (SUBSET Routes) \cup {None}]
    /\ pc \in [Requests -> Labels]
    /\ seen \in [Requests -> SUBSET Routes]
    /\ owed \in [Requests -> SUBSET Roles]
    /\ before \in [Requests -> SUBSET Roles]
    /\ overtaken \in SUBSET Requests
    /\ excused \in SUBSET Roles

Init ==
    /\ roles = InitialRoles
    /\ roleName = InitialName
    /\ active = InitialRoles
    /\ links = InitialLinks
    /\ route = InitialRoute
    /\ cache = [r \in Roles |-> None]
    /\ \E sent \in Arrivals :
            pc = [q \in Requests |-> IF q \in sent THEN "start" ELSE "unsent"]
    /\ seen = [q \in Requests |-> {}]
    /\ owed = [q \in Requests |-> {}]
    /\ before = [q \in Requests |-> {}]
    /\ overtaken = {}
    /\ excused = {}

At(q, ops, label) == OpOf[q] \in ops /\ pc[q] = label

Goto(q, label) == pc' = [pc EXCEPT ![q] = label]

\* The routes of a role's permissions.
RoutesOf(r) == {route[p] : p \in links[r]}

\* What a role may do: a role that is gone or inactive, nothing.
Granted(r) == IF r \in active THEN RoutesOf(r) ELSE {}

LinkedTo(p) == {r \in Roles : p \in links[r]}

-----------------------------------------------------------------------------
(***************************************************************************)
(* _checkUserPermission                                                     *)
(***************************************************************************)
Verdict(q, granted) == IF RouteOf[q] \in granted THEN "allowed" ELSE "forbidden"

CacheHit(q) ==
    /\ At(q, {"guard"}, "start")
    /\ cache[RoleOf[q]] # None
    /\ Goto(q, Verdict(q, cache[RoleOf[q]]))
    /\ UNCHANGED <<tableVars, cache, seen, owed, overtaken, excused, before>>

CacheMiss(q) ==
    /\ At(q, {"guard"}, "start")
    /\ cache[RoleOf[q]] = None
    /\ Goto(q, "missed")
    /\ UNCHANGED <<tableVars, cache, seen, owed, overtaken, excused, before>>

\* The first SELECT of findUnique: the row of an active role.
FindRole(q) ==
    /\ At(q, {"guard"}, "missed")
    /\ Goto(q, IF RoleOf[q] \in active THEN "found" ELSE "forbidden")
    /\ UNCHANGED <<tableVars, cache, seen, owed, overtaken, excused, before>>

\* The second: its permissions.
FindPermissions(q) ==
    /\ At(q, {"guard"}, "found")
    /\ seen' = [seen EXCEPT ![q] = RoutesOf(RoleOf[q])]
    /\ Goto(q, "read")
    /\ UNCHANGED <<tableVars, cache, owed, overtaken, excused, before>>

\* cacheManager.set, then the check.
FillCache(q) ==
    /\ At(q, {"guard"}, "read")
    /\ cache' = [cache EXCEPT ![RoleOf[q]] = seen[q]]
    /\ excused' = IF q \in overtaken THEN excused \cup {RoleOf[q]}
                                     ELSE excused \ {RoleOf[q]}
    /\ Goto(q, Verdict(q, seen[q]))
    /\ UNCHANGED <<tableVars, seen, owed, overtaken, before>>

\* Mutant of HasTtl: cacheManager.set without a ttl keeps the entry.
NoTtl(r) == FALSE

\* The entry of a role was set with a ttl of an hour.
HasTtl(r) == cache[r] # None

\* Redis drops the entry when its hour is over.
CacheExpires(r) ==
    /\ HasTtl(r)
    /\ cache' = [cache EXCEPT ![r] = None]
    /\ excused' = excused \ {r}
    /\ UNCHANGED <<tableVars, pc, seen, owed, overtaken, before>>

-----------------------------------------------------------------------------
(***************************************************************************)
(* RoleService                                                              *)
(***************************************************************************)
BaseRoles == {"ADMIN", "SELLER", "USER"}

\* role_name_unique
NameFree(q) == \A r \in roles \ {RoleOf[q]} : roleName[r] # BodyOf[q].name

\* A write that changes what the roles may do overtakes the guards that have
\* begun to read them.
Overtake(changed) ==
    overtaken' = overtaken \cup
        {q \in Requests : pc[q] \in {"found", "read"} /\ RoleOf[q] \in changed}

\* The row of a role as a body has it.
PutRole(q, permissionIds) ==
    /\ roles' = roles \cup {RoleOf[q]}
    /\ roleName' = [roleName EXCEPT ![RoleOf[q]] = BodyOf[q].name]
    /\ active' = IF BodyOf[q].isActive THEN active \cup {RoleOf[q]}
                                       ELSE active \ {RoleOf[q]}
    /\ links' = [links EXCEPT ![RoleOf[q]] = permissionIds]

CreateRole(q) ==
    /\ At(q, {"createRole"}, "start")
    /\ RoleOf[q] \notin roles
    /\ NameFree(q)
    /\ PutRole(q, {})
    /\ Goto(q, "answered")
    /\ UNCHANGED <<route, cache, seen, owed, overtaken, excused, before>>

\* Mutant of Protected: only deletion is refused.
ProtectedFromDeletion(q) ==
    OpOf[q] = "deleteRole" /\ roleName[RoleOf[q]] \in BaseRoles

\* _verifyRoleCannotBeUpdatedOrDeleted
Protected(q) ==
    \/ OpOf[q] = "updateRole" /\ roleName[RoleOf[q]] = "ADMIN"
    \/ OpOf[q] = "deleteRole" /\ roleName[RoleOf[q]] \in BaseRoles

VerifyRole(q) ==
    /\ At(q, {"updateRole", "deleteRole"}, "start")
    /\ RoleOf[q] \in roles
    /\ ~Protected(q)
    /\ Goto(q, "verified")
    /\ UNCHANGED <<tableVars, cache, seen, owed, overtaken, excused, before>>

AllThere(ids) == \A p \in ids : route[p] # None

\* update first looks the permissionIds of the body up ...
FindPermissionIds(q) ==
    /\ At(q, {"updateRole"}, "verified")
    /\ AllThere(BodyOf[q].permissionIds)
    /\ Goto(q, "validated")
    /\ UNCHANGED <<tableVars, cache, seen, owed, overtaken, excused, before>>

\* ... then writes the row and its links; a permission that is gone by then
\* cannot be connected.
UpdateRole(q) ==
    /\ At(q, {"updateRole"}, "validated")
    /\ RoleOf[q] \in roles
    /\ NameFree(q)
    /\ AllThere(BodyOf[q].permissionIds)
    /\ PutRole(q, BodyOf[q].permissionIds)
    /\ Overtake({RoleOf[q]})
    /\ owed' = [owed EXCEPT ![q] = {RoleOf[q]}]
    /\ Goto(q, "written")
    /\ UNCHANGED <<route, cache, seen, excused, before>>

\* A hard delete.
DeleteRole(q) ==
    /\ At(q, {"deleteRole"}, "verified")
    /\ RoleOf[q] \in roles
    /\ roles' = roles \ {RoleOf[q]}
    /\ active' = active \ {RoleOf[q]}
    /\ links' = [links EXCEPT ![RoleOf[q]] = {}]
    /\ Overtake({RoleOf[q]})
    /\ owed' = [owed EXCEPT ![q] = {RoleOf[q]}]
    /\ Goto(q, "written")
    /\ UNCHANGED <<roleName, route, cache, seen, excused, before>>

-----------------------------------------------------------------------------
(***************************************************************************)
(* PermissionService                                                        *)
(***************************************************************************)
\* permission_path_method_unique
RouteFree(q) ==
    \A p \in Permissions \ {PermissionOf[q]} : route[p] # RouteOf[q]

CreatePermission(q) ==
    /\ At(q, {"createPermission"}, "start")
    /\ route[PermissionOf[q]] = None
    /\ RouteFree(q)
    /\ route' = [route EXCEPT ![PermissionOf[q]] = RouteOf[q]]
    /\ Goto(q, "answered")
    /\ UNCHANGED <<roles, roleName, active, links, cache, seen, owed, overtaken, excused, before>>

\* Mutant of RolesToClear: roles whose names the code relies on are left out.
RolesToClearButBase(p) == {r \in LinkedTo(p) : roleName[r] \notin BaseRoles}

\* include: { roles: { select: { id: true } } }
RolesToClear(p) == LinkedTo(p)

\* update and delete of a permission are transactions that read its roles
\* before their write is visible to others.
FindRolesOf(q) ==
    /\ At(q, {"updatePermission", "deletePermission"}, "start")
    /\ route[PermissionOf[q]] # None
    /\ owed' = [owed EXCEPT ![q] = RolesToClear(PermissionOf[q])]
    /\ before' = [before EXCEPT ![q] = LinkedTo(PermissionOf[q])]
    /\ Goto(q, "listed")
    /\ UNCHANGED <<tableVars, cache, seen, overtaken, excused>>

\* The write of a permission.  A role linked to it since its roles were read is
\* not among those to clear.
WritePermission(q, newRoute) ==
    /\ route[PermissionOf[q]] # None
    /\ route' = [route EXCEPT ![PermissionOf[q]] = newRoute]
    /\ Overtake(LinkedTo(PermissionOf[q]))
    /\ excused' = excused \cup (LinkedTo(PermissionOf[q]) \ before[q])
    /\ Goto(q, "written")
    /\ UNCHANGED <<roles, roleName, active, cache, seen, owed, before>>

UpdatePermission(q) ==
    /\ At(q, {"updatePermission"}, "listed")
    /\ RouteFree(q)
    /\ WritePermission(q, RouteOf[q])
    /\ UNCHANGED links

\* A hard delete: the links go with the row.
DeletePermission(q) ==
    /\ At(q, {"deletePermission"}, "listed")
    /\ WritePermission(q, None)
    /\ links' = [r \in Roles |-> links[r] \ {PermissionOf[q]}]

-----------------------------------------------------------------------------
\* _clearCache of both services.  PermissionService does not await its dels:
\* each takes effect in its own time, the answer does not wait for them.
ClearCache(q) ==
    /\ pc[q] = "written"
    /\ \E r \in owed[q] :
            /\ cache' = [cache EXCEPT ![r] = None]
            /\ owed' = [owed EXCEPT ![q] = @ \ {r}]
            /\ excused' = excused \ {r}
    /\ UNCHANGED <<tableVars, pc, seen, overtaken, before>>

\* A request is refused, the database or Redis fails it, or the process dies:
\* the entries it was still to delete stay.
Abort(q) ==
    /\ Goto(q, "failed")
    /\ excused' = IF pc[q] = "written" THEN excused \cup owed[q] ELSE excused
    /\ owed' = [owed EXCEPT ![q] = {}]
    /\ UNCHANGED <<tableVars, cache, seen, overtaken, before>>

GuardStep(q) ==
    CacheHit(q) \/ CacheMiss(q) \/ FindRole(q) \/ FindPermissions(q) \/ FillCache(q)

RoleStep(q) ==
    \/ CreateRole(q)
    \/ VerifyRole(q) \/ FindPermissionIds(q) \/ UpdateRole(q)
    \/ DeleteRole(q)

PermissionStep(q) ==
    CreatePermission(q) \/ FindRolesOf(q) \/ UpdatePermission(q) \/ DeletePermission(q)

\* The requests under way.
Open == {q \in Requests : \/ pc[q] \in {"start", "missed", "found", "read",
                                        "verified", "validated", "listed"}
                          \/ pc[q] = "written" /\ owed[q] # {}}

Next ==
    \/ \E q \in Open :
            GuardStep(q) \/ RoleStep(q) \/ PermissionStep(q) \/ ClearCache(q) \/ Abort(q)
    \/ \E r \in Roles : CacheExpires(r)

Spec == Init /\ [][Next]_authVars

\* Redis removes expired keys.
FairSpec == Spec /\ \A r \in Roles : WF_authVars(CacheExpires(r))

-----------------------------------------------------------------------------
\* The entry of a role that does not say what the role may do now.
Stale(r) == cache[r] # None /\ cache[r] # Granted(r)

\* A cached role that is out of date is about to be cleared, unless one of the
\* three things happened for which the code has no remedy but the ttl: a guard
\* filled the cache with what it read before the write, the clearing was lost
\* with its request, or the role was linked to the permission after the
\* permission's roles were listed.
StaleOnlyIfExcused ==
    \A r \in Roles : Stale(r) =>
        \/ r \in excused
        \/ \E q \in Requests : pc[q] = "written" /\ r \in owed[q]

\* Even then what a role lost or gained takes effect: no entry stays out of
\* date for longer than its ttl.
StaleEntriesVanish == (\E r \in Roles : Stale(r)) ~> (\A r \in Roles : ~Stale(r))

\* Nobody changes the role ADMIN: it keeps its name and stays active, and loses
\* permissions only when they are deleted, although updateRole looks at the name
\* before it writes.
AdminRoleKept ==
    [][/\ Admin \in roles'
       /\ roleName'[Admin] = "ADMIN"
       /\ Admin \in active'
       /\ \A p \in links[Admin] : p \in links'[Admin] \/ route'[p] = None
       /\ links'[Admin] \subseteq links[Admin]]_authVars

-----------------------------------------------------------------------------
(***************************************************************************)
(* What makes the safety properties inductive.                              *)
(***************************************************************************)
\* Foreign keys: links and activity are of rows that are there.
RowsThere ==
    /\ active \subseteq roles
    /\ \A r \in Roles : \A p \in links[r] : r \in roles /\ route[p] # None

\* A guard that no write has overtaken knows what its role may do.
ReadsFresh ==
    \A q \in Requests : (OpOf[q] = "guard" /\ q \notin overtaken) =>
        /\ pc[q] = "found" => RoleOf[q] \in active
        /\ pc[q] = "read" => seen[q] = Granted(RoleOf[q])

\* The roles listed to be cleared are those the permission had.
ListComplete == \A q \in Requests : pc[q] = "listed" => owed[q] = before[q]

CacheInv == RowsThere /\ ReadsFresh /\ ListComplete /\ StaleOnlyIfExcused

\* The name ADMIN belongs to one role, and no request that got past the check
\* is about that role.
AdminInv ==
    /\ Admin \in roles
    /\ Admin \in active
    /\ roleName[Admin] = "ADMIN"
    /\ \A q \in Requests :
            (pc[q] \in {"verified", "validated"}) => RoleOf[q] # Admin

=============================================================================
