------------------------- MODULE AuthorizationProofs -------------------------
(***************************************************************************)
(* Proofs about Authorization for any number of roles, permissions and      *)
(* requests.                                                                *)
(***************************************************************************)
EXTENDS Authorization, TLAPS

\* Every step is an action of a request, or an entry running out.
LEMMA NextSplit ==
    ASSUME Next
    PROVE  \/ \E q \in Requests :
                \/ CacheHit(q) \/ CacheMiss(q) \/ FindRole(q) \/ FindPermissions(q)
                \/ FillCache(q)
                \/ CreateRole(q) \/ VerifyRole(q) \/ FindPermissionIds(q)
                \/ UpdateRole(q) \/ DeleteRole(q)
                \/ CreatePermission(q) \/ FindRolesOf(q) \/ UpdatePermission(q)
                \/ DeletePermission(q) \/ ClearCache(q) \/ Abort(q)
           \/ \E r \in Roles : CacheExpires(r)
  BY Zenon DEF Next, Open, GuardStep, RoleStep, PermissionStep

\* The steps that only move a request forward.
QuietStep(q) ==
    CacheHit(q) \/ CacheMiss(q) \/ FindRole(q) \/ VerifyRole(q) \/ FindPermissionIds(q)

\* What a quiet step does: nothing but to move to another label.
LEMMA QuietSteps ==
    ASSUME NEW q \in Requests, TypeOK, QuietStep(q)
    PROVE  /\ UNCHANGED <<tableVars, cache, seen, owed, before, overtaken, excused>>
           /\ \E l \in Labels \ {"read", "listed", "written", "start", "unsent"} :
                /\ pc' = [pc EXCEPT ![q] = l]
                /\ l = "found" => RoleOf[q] \in active
                /\ l \in {"verified", "validated"} =>
                        \/ pc[q] = "verified"
                        \/ RoleOf[q] \in roles /\ roleName[RoleOf[q]] # "ADMIN"
  BY DEF QuietStep, CacheHit, CacheMiss, FindRole, VerifyRole, FindPermissionIds, At,
         Goto, Verdict, Labels, Protected, BaseRoles

-----------------------------------------------------------------------------
(***************************************************************************)
(* Types.                                                                   *)
(***************************************************************************)
LEMMA InitType == Init => TypeOK
  <1> SUFFICES ASSUME Init
               PROVE  TypeOK
    OBVIOUS
  <1>1. PICK sent \in Arrivals :
            pc = [q \in Requests |-> IF q \in sent THEN "start" ELSE "unsent"]
    BY DEF Init
  <1>2. pc \in [Requests -> Labels]
    BY <1>1 DEF Labels
  <1> QED
    BY <1>2, AuthorizationAssumption, AdminAssumption DEF Init, TypeOK

LEMMA RoutesAreRoutes ==
    ASSUME TypeOK, RowsThere, NEW r \in Roles
    PROVE  RoutesOf(r) \subseteq Routes
  BY DEF TypeOK, RowsThere, RoutesOf

LEMMA TypeStep ==
    ASSUME TypeOK, RowsThere, [Next]_authVars
    PROVE  TypeOK'
  <1> USE AuthorizationAssumption
  <1>1. ASSUME NEW q \in Requests, QuietStep(q)
        PROVE  TypeOK'
    <2>1. PICK l \in Labels : pc' = [pc EXCEPT ![q] = l]
      BY <1>1, QuietSteps
    <2>2. pc' \in [Requests -> Labels]
      BY <2>1 DEF TypeOK
    <2>3. UNCHANGED <<tableVars, cache, seen, owed, before, overtaken, excused>>
      BY <1>1, QuietSteps
    <2> QED
      BY <2>2, <2>3 DEF TypeOK, tableVars
  <1>2. ASSUME NEW q \in Requests, FindPermissions(q)
        PROVE  TypeOK'
    BY <1>2, RoutesAreRoutes DEF FindPermissions, At, Goto, TypeOK, tableVars, Labels
  <1>3. ASSUME NEW q \in Requests, FillCache(q)
        PROVE  TypeOK'
    BY <1>3 DEF FillCache, At, Goto, Verdict, TypeOK, tableVars, Labels
  <1>4. ASSUME NEW q \in Requests, CreateRole(q)
        PROVE  TypeOK'
    BY <1>4 DEF CreateRole, PutRole, RoleBody, At, Goto, TypeOK, Labels
  <1>5. ASSUME NEW q \in Requests, UpdateRole(q)
        PROVE  TypeOK'
    BY <1>5 DEF UpdateRole, PutRole, Overtake, RoleBody, At, Goto, TypeOK, Labels
  <1>6. ASSUME NEW q \in Requests, DeleteRole(q)
        PROVE  TypeOK'
    BY <1>6 DEF DeleteRole, Overtake, At, Goto, TypeOK, Labels
  <1>7. ASSUME NEW q \in Requests, CreatePermission(q)
        PROVE  TypeOK'
    BY <1>7 DEF CreatePermission, At, Goto, TypeOK, Labels
  <1>8. ASSUME NEW q \in Requests, FindRolesOf(q)
        PROVE  TypeOK'
    BY <1>8 DEF FindRolesOf, RolesToClear, LinkedTo, At, Goto, TypeOK, tableVars, Labels
  <1>9. ASSUME NEW q \in Requests, UpdatePermission(q)
        PROVE  TypeOK'
    BY <1>9 DEF UpdatePermission, WritePermission, Overtake, LinkedTo, At, Goto, TypeOK,
                Labels
  <1>10. ASSUME NEW q \in Requests, DeletePermission(q)
         PROVE  TypeOK'
    BY <1>10 DEF DeletePermission, WritePermission, Overtake, LinkedTo, At, Goto, TypeOK,
                 Labels
  <1>11. ASSUME NEW q \in Requests, ClearCache(q)
         PROVE  TypeOK'
    BY <1>11 DEF ClearCache, TypeOK, tableVars
  <1>12. ASSUME NEW q \in Requests, Abort(q)
         PROVE  TypeOK'
    BY <1>12 DEF Abort, Goto, TypeOK, tableVars, Labels
  <1>13. ASSUME NEW r \in Roles, CacheExpires(r)
         PROVE  TypeOK'
    BY <1>13 DEF CacheExpires, TypeOK, tableVars
  <1>14. CASE UNCHANGED authVars
    BY <1>14 DEF authVars, tableVars, TypeOK
  <1>15. CASE Next
    BY <1>1, <1>2, <1>3, <1>4, <1>5, <1>6, <1>7, <1>8, <1>9, <1>10, <1>11, <1>12, <1>13,
       <1>15, NextSplit, Zenon DEF QuietStep
  <1> QED
    BY <1>14, <1>15

-----------------------------------------------------------------------------
(***************************************************************************)
(* The rows that links are between.                                         *)
(***************************************************************************)
LEMMA RowsStep ==
    ASSUME TypeOK, RowsThere, [Next]_authVars
    PROVE  RowsThere'
  <1> USE AuthorizationAssumption
  <1>1. ASSUME UNCHANGED tableVars
        PROVE  RowsThere'
    BY <1>1 DEF tableVars, RowsThere
  <1>2. ASSUME NEW q \in Requests, CreateRole(q)
        PROVE  RowsThere'
    BY <1>2 DEF CreateRole, PutRole, RowsThere, TypeOK
  <1>3. ASSUME NEW q \in Requests, UpdateRole(q)
        PROVE  RowsThere'
    BY <1>3 DEF UpdateRole, PutRole, AllThere, RowsThere, TypeOK
  <1>4. ASSUME NEW q \in Requests, DeleteRole(q)
        PROVE  RowsThere'
    BY <1>4 DEF DeleteRole, RowsThere, TypeOK
  <1>5. ASSUME NEW q \in Requests, CreatePermission(q)
        PROVE  RowsThere'
    BY <1>5 DEF CreatePermission, RowsThere, TypeOK
  <1>6. ASSUME NEW q \in Requests, UpdatePermission(q)
        PROVE  RowsThere'
    BY <1>6 DEF UpdatePermission, WritePermission, RowsThere, TypeOK
  <1>7. ASSUME NEW q \in Requests, DeletePermission(q)
        PROVE  RowsThere'
    BY <1>7 DEF DeletePermission, WritePermission, RowsThere, TypeOK
  <1>8. CASE UNCHANGED authVars
    BY <1>1, <1>8 DEF authVars
  <1>9. CASE Next
    BY <1>1, <1>2, <1>3, <1>4, <1>5, <1>6, <1>7, <1>9, NextSplit, Zenon
       DEF CacheHit, CacheMiss, FindRole, FindPermissions, FillCache, VerifyRole,
           FindPermissionIds, FindRolesOf, ClearCache, Abort, CacheExpires
  <1> QED
    BY <1>8, <1>9

-----------------------------------------------------------------------------
(***************************************************************************)
(* What the writes change: the roles they are about, which they overtake    *)
(* the readers of and either owe a clearing or excuse.                      *)
(***************************************************************************)
WriteStep(q) == UpdateRole(q) \/ DeleteRole(q) \/ UpdatePermission(q) \/ DeletePermission(q)

\* The roles a write may change.
Affected(q) ==
    IF OpOf[q] \in {"updateRole", "deleteRole"} THEN {RoleOf[q]}
    ELSE LinkedTo(PermissionOf[q])

\* Functions that agree on a set have one image of it.
LEMMA SameImage ==
    ASSUME NEW S, NEW f, NEW g, \A x \in S : f[x] = g[x]
    PROVE  {f[x] : x \in S} = {g[x] : x \in S}
  <1>1. ASSUME NEW y \in {f[x] : x \in S}
        PROVE  y \in {g[x] : x \in S}
    BY <1>1
  <1>2. ASSUME NEW y \in {g[x] : x \in S}
        PROVE  y \in {f[x] : x \in S}
    BY <1>2
  <1> QED
    BY <1>1, <1>2

\* What a role may do is left alone by writes about others.
LEMMA WriteLeavesOthers ==
    ASSUME TypeOK, RowsThere, NEW q \in Requests, WriteStep(q),
           NEW r \in Roles, r \notin Affected(q)
    PROVE  /\ r \in active' <=> r \in active
           /\ Granted(r)' = Granted(r)
  <1> USE AuthorizationAssumption
  <1>1. CASE UpdateRole(q)
    BY <1>1 DEF UpdateRole, PutRole, At, Affected, Granted, RoutesOf, TypeOK
  <1>2. CASE DeleteRole(q)
    BY <1>2 DEF DeleteRole, At, Affected, Granted, RoutesOf, TypeOK
  <1>3. ASSUME UpdatePermission(q) \/ DeletePermission(q)
        PROVE  /\ r \in active' <=> r \in active
               /\ Granted(r)' = Granted(r)
    <2>1. /\ active' = active
          /\ PermissionOf[q] \notin links[r]
      BY <1>3 DEF UpdatePermission, DeletePermission, WritePermission, At, Affected,
                  LinkedTo, TypeOK
    <2>2. links'[r] = links[r]
      <3>1. CASE UpdatePermission(q)
        BY <3>1 DEF UpdatePermission
      <3>2. CASE DeletePermission(q)
        <4>1. links'[r] = links[r] \ {PermissionOf[q]}
          BY <3>2 DEF DeletePermission
        <4> QED
          BY <2>1, <4>1
      <3> QED
        BY <1>3, <3>1, <3>2
    <2>3. \A p \in links[r] : route'[p] = route[p]
      BY <1>3, <2>1 DEF UpdatePermission, DeletePermission, WritePermission, TypeOK
    <2>4. RoutesOf(r)' = RoutesOf(r)
      BY <2>2, <2>3, SameImage DEF RoutesOf
    <2> QED
      BY <2>1, <2>4 DEF Granted
  <1> QED
    BY <1>1, <1>2, <1>3 DEF WriteStep

LEMMA WriteSteps ==
    ASSUME TypeOK, ListComplete, NEW q \in Requests, WriteStep(q)
    PROVE  /\ UNCHANGED <<cache, seen, before>>
           /\ pc' = [pc EXCEPT ![q] = "written"]
           /\ pc[q] \in {"verified", "validated", "listed"}
           /\ overtaken' = overtaken \cup
                {k \in Requests : pc[k] \in {"found", "read"} /\ RoleOf[k] \in Affected(q)}
           /\ excused \subseteq excused'
           /\ \A k \in Requests : k # q => owed'[k] = owed[k]
           /\ \A r \in Affected(q) : r \in excused' \/ r \in owed'[q]
  <1> USE AuthorizationAssumption
  <1>1. CASE UpdateRole(q)
    BY <1>1 DEF UpdateRole, Overtake, Goto, At, Affected, TypeOK
  <1>2. CASE DeleteRole(q)
    BY <1>2 DEF DeleteRole, Overtake, Goto, At, Affected, TypeOK
  <1>3. CASE UpdatePermission(q) \/ DeletePermission(q)
    BY <1>3 DEF UpdatePermission, DeletePermission, WritePermission, Overtake, Goto, At,
                Affected, ListComplete, TypeOK
  <1> QED
    BY <1>1, <1>2, <1>3 DEF WriteStep

\* A new role may do nothing, a new permission belongs to no role.
LEMMA CreateStep ==
    ASSUME TypeOK, RowsThere, NEW q \in Requests, CreateRole(q) \/ CreatePermission(q)
    PROVE  /\ UNCHANGED <<cache, seen, owed, before, overtaken, excused>>
           /\ pc' = [pc EXCEPT ![q] = "answered"]
           /\ pc[q] = "start"
           /\ active \subseteq active'
           /\ \A r \in Roles : Granted(r)' = Granted(r)
  <1> USE AuthorizationAssumption
  <1>1. CASE CreateRole(q)
    <2>1. /\ links[RoleOf[q]] = {}
          /\ RoleOf[q] \notin active
      BY <1>1 DEF CreateRole, RowsThere, TypeOK
    <2>2. ASSUME NEW r \in Roles
          PROVE  Granted(r)' = Granted(r)
      <3>1. CASE r = RoleOf[q]
        BY <1>1, <2>1, <3>1 DEF CreateRole, PutRole, Granted, RoutesOf, TypeOK
      <3>2. CASE r # RoleOf[q]
        BY <1>1, <2>1, <3>2 DEF CreateRole, PutRole, Granted, RoutesOf, TypeOK
      <3> QED
        BY <3>1, <3>2
    <2> QED
      BY <1>1, <2>1, <2>2 DEF CreateRole, PutRole, At, Goto
  <1>2. CASE CreatePermission(q)
    <2>1. ASSUME NEW r \in Roles
          PROVE  Granted(r)' = Granted(r)
      <3>1. \A p \in links[r] : route'[p] = route[p]
        BY <1>2 DEF CreatePermission, RowsThere, TypeOK
      <3>2. RoutesOf(r)' = RoutesOf(r)
        BY <1>2, <3>1, SameImage DEF CreatePermission, RoutesOf
      <3> QED
        BY <1>2, <3>2 DEF CreatePermission, Granted
    <2> QED
      BY <1>2, <2>1 DEF CreatePermission, At, Goto
  <1> QED
    BY <1>1, <1>2

\* Steps that leave the tables alone leave alone what roles may do.
LEMMA TablesSame ==
    ASSUME UNCHANGED tableVars, NEW r
    PROVE  Granted(r)' = Granted(r)
  BY DEF tableVars, Granted, RoutesOf

-----------------------------------------------------------------------------
(***************************************************************************)
(* The cache.                                                               *)
(***************************************************************************)
LEMMA InitCache == Init => CacheInv
  <1> SUFFICES ASSUME Init
               PROVE  CacheInv
    OBVIOUS
  <1>1. PICK sent \in Arrivals :
            pc = [q \in Requests |-> IF q \in sent THEN "start" ELSE "unsent"]
    BY DEF Init
  <1>2. RowsThere
    BY AuthorizationAssumption DEF Init, RowsThere
  <1>3. ReadsFresh /\ ListComplete
    BY <1>1 DEF ReadsFresh, ListComplete
  <1>4. StaleOnlyIfExcused
    BY DEF Init, StaleOnlyIfExcused, Stale
  <1> QED
    BY <1>2, <1>3, <1>4 DEF CacheInv

\* The list is made with the roles the permission has.
LEMMA ListStep ==
    ASSUME TypeOK, RowsThere, ListComplete, [Next]_authVars
    PROVE  ListComplete'
  <1>0. pc \in [Requests -> Labels]
    BY DEF TypeOK
  <1>1. ASSUME NEW q \in Requests, QuietStep(q)
        PROVE  ListComplete'
    <2>1. /\ UNCHANGED <<owed, before>>
          /\ \E l \in Labels \ {"listed"} : pc' = [pc EXCEPT ![q] = l]
      BY <1>1, QuietSteps
    <2> QED
      BY <1>0, <2>1 DEF ListComplete
  <1> USE AuthorizationAssumption DEF ListComplete
  <1>2. ASSUME NEW q \in Requests, FindPermissions(q) \/ FillCache(q)
        PROVE  ListComplete'
    BY <1>2 DEF FindPermissions, FillCache, Verdict, Goto, TypeOK
  <1>3. ASSUME NEW q \in Requests, WriteStep(q)
        PROVE  ListComplete'
    <2>1. /\ UNCHANGED before
          /\ pc' = [pc EXCEPT ![q] = "written"]
          /\ \A k \in Requests : k # q => owed'[k] = owed[k]
      BY <1>3, WriteSteps
    <2> QED
      BY <1>0, <2>1
  <1>4. ASSUME NEW q \in Requests, CreateRole(q) \/ CreatePermission(q)
        PROVE  ListComplete'
    BY <1>4, CreateStep DEF TypeOK
  <1>5. ASSUME NEW q \in Requests, FindRolesOf(q)
        PROVE  ListComplete'
    BY <1>5 DEF FindRolesOf, RolesToClear, Goto, TypeOK
  <1>6. ASSUME NEW q \in Requests, ClearCache(q)
        PROVE  ListComplete'
    BY <1>6 DEF ClearCache, TypeOK
  <1>7. ASSUME NEW q \in Requests, Abort(q)
        PROVE  ListComplete'
    BY <1>7 DEF Abort, Goto, TypeOK
  <1>8. ASSUME NEW r \in Roles, CacheExpires(r)
        PROVE  ListComplete'
    BY <1>8 DEF CacheExpires
  <1>9. CASE UNCHANGED authVars
    BY <1>9 DEF authVars
  <1>10. CASE Next
    BY <1>1, <1>2, <1>3, <1>4, <1>5, <1>6, <1>7, <1>8, <1>10, NextSplit, Zenon
       DEF QuietStep, WriteStep
  <1> QED
    BY <1>9, <1>10

\* A guard that nothing overtook has read what holds now.
LEMMA ReadsStep ==
    ASSUME TypeOK, RowsThere, ReadsFresh, ListComplete, [Next]_authVars
    PROVE  ReadsFresh'
  <1> USE AuthorizationAssumption
  <1>1. ASSUME NEW q \in Requests, QuietStep(q)
        PROVE  ReadsFresh'
    <2>1. \A r : Granted(r)' = Granted(r)
      BY <1>1, QuietSteps, TablesSame
    <2>2. PICK l \in Labels \ {"read", "listed", "written", "start", "unsent"} :
            /\ pc' = [pc EXCEPT ![q] = l]
            /\ l = "found" => RoleOf[q] \in active
      BY <1>1, QuietSteps
    <2>3. UNCHANGED <<active, seen, overtaken>>
      BY <1>1, QuietSteps DEF tableVars
    <2> QED
      BY <2>1, <2>2, <2>3 DEF ReadsFresh, TypeOK
  <1>2. ASSUME NEW q \in Requests, FindPermissions(q)
        PROVE  ReadsFresh'
    <2>1. \A r : Granted(r)' = Granted(r)
      BY <1>2, TablesSame DEF FindPermissions
    <2>2. q \notin overtaken => seen'[q] = Granted(RoleOf[q])
      BY <1>2 DEF FindPermissions, At, ReadsFresh, Granted, TypeOK
    <2> QED
      BY <1>2, <2>1, <2>2 DEF FindPermissions, At, Goto, ReadsFresh, TypeOK, tableVars
  <1>3. ASSUME NEW q \in Requests, FillCache(q) \/ FindRolesOf(q) \/ Abort(q)
        PROVE  ReadsFresh'
    <2>1. \A r : Granted(r)' = Granted(r)
      BY <1>3, TablesSame DEF FillCache, FindRolesOf, Abort
    <2> QED
      BY <1>3, <2>1 DEF FillCache, FindRolesOf, Abort, Verdict, Goto, ReadsFresh, TypeOK,
                        tableVars
  <1>4. ASSUME NEW q \in Requests, WriteStep(q)
        PROVE  ReadsFresh'
    <2> SUFFICES ASSUME NEW k \in Requests, OpOf[k] = "guard", k \notin overtaken',
                        pc'[k] \in {"found", "read"}
                 PROVE  /\ pc'[k] = "found" => RoleOf[k] \in active'
                        /\ pc'[k] = "read" => seen'[k] = Granted(RoleOf[k])'
      BY DEF ReadsFresh
    <2>1. /\ k # q
          /\ pc'[k] = pc[k]
          /\ seen'[k] = seen[k]
          /\ k \notin overtaken
          /\ RoleOf[k] \notin Affected(q)
      BY <1>4, WriteSteps DEF TypeOK
    <2>2. /\ RoleOf[k] \in active' <=> RoleOf[k] \in active
          /\ Granted(RoleOf[k])' = Granted(RoleOf[k])
      BY <1>4, <2>1, WriteLeavesOthers
    <2> QED
      BY <2>1, <2>2 DEF ReadsFresh
  <1>5. ASSUME NEW q \in Requests, CreateRole(q) \/ CreatePermission(q)
        PROVE  ReadsFresh'
    <2>1. /\ UNCHANGED <<seen, overtaken>>
          /\ pc' = [pc EXCEPT ![q] = "answered"]
          /\ active \subseteq active'
          /\ \A k \in Requests : Granted(RoleOf[k])' = Granted(RoleOf[k])
      BY <1>5, CreateStep
    <2> QED
      BY <2>1 DEF ReadsFresh, TypeOK
  <1>6. ASSUME UNCHANGED <<tableVars, pc, seen, overtaken>>
        PROVE  ReadsFresh'
    <2>1. \A r : Granted(r)' = Granted(r)
      BY <1>6, TablesSame
    <2> QED
      BY <1>6, <2>1 DEF ReadsFresh, tableVars
  <1>7. CASE UNCHANGED authVars
    BY <1>6, <1>7 DEF authVars
  <1>8. CASE Next
    BY <1>1, <1>2, <1>3, <1>4, <1>5, <1>6, <1>8, NextSplit, Zenon
       DEF QuietStep, WriteStep, ClearCache, CacheExpires
  <1> QED
    BY <1>7, <1>8

\* Every write owes a clearing to the roles it changes, or has excused them.
LEMMA StaleStep ==
    ASSUME TypeOK, CacheInv, [Next]_authVars
    PROVE  StaleOnlyIfExcused'
  <1> USE AuthorizationAssumption DEF CacheInv
  <1> SUFFICES ASSUME NEW r \in Roles, Stale(r)'
               PROVE  \/ r \in excused'
                      \/ \E q \in Requests : pc'[q] = "written" /\ r \in owed'[q]
    BY DEF StaleOnlyIfExcused
  <1> DEFINE Explained == \/ r \in excused
                          \/ \E q \in Requests : pc[q] = "written" /\ r \in owed[q]
  <1>1. Stale(r) => Explained
    BY DEF StaleOnlyIfExcused
  <1>2. ASSUME NEW q \in Requests, QuietStep(q)
        PROVE  Explained'
    <2>1. Stale(r)
      BY <1>2, QuietSteps, TablesSame DEF Stale
    <2>2. \A k \in Requests : pc[k] = "written" => pc'[k] = "written"
      BY <1>2 DEF QuietStep, CacheHit, CacheMiss, FindRole, VerifyRole,
                  FindPermissionIds, At, Goto, TypeOK
    <2> QED
      BY <1>1, <1>2, <2>1, <2>2, QuietSteps
  <1>3. ASSUME NEW q \in Requests, FindPermissions(q)
        PROVE  Explained'
    <2>1. Stale(r)
      BY <1>3, TablesSame DEF FindPermissions, Stale
    <2> QED
      BY <1>1, <1>3, <2>1 DEF FindPermissions, At, Goto, TypeOK
  <1>4. ASSUME NEW q \in Requests, FillCache(q)
        PROVE  Explained'
    <2>1. Granted(r)' = Granted(r)
      BY <1>4, TablesSame DEF FillCache
    <2>2. CASE r = RoleOf[q]
      <3>1. q \in overtaken
        BY <1>4, <2>1, <2>2 DEF FillCache, At, ReadsFresh, Stale, TypeOK
      <3> QED
        BY <1>4, <2>2, <3>1 DEF FillCache
    <2>3. CASE r # RoleOf[q]
      <3>1. Stale(r)
        BY <1>4, <2>1, <2>3 DEF FillCache, Stale, TypeOK
      <3> QED
        BY <1>1, <1>4, <2>3, <3>1 DEF FillCache, At, Goto, TypeOK
    <2> QED
      BY <2>2, <2>3
  <1>5. ASSUME NEW q \in Requests, WriteStep(q)
        PROVE  Explained'
    <2>1. CASE r \in Affected(q)
      BY <1>5, <2>1, WriteSteps DEF TypeOK
    <2>2. CASE r \notin Affected(q)
      <3>1. Stale(r)
        BY <1>5, <2>2, WriteSteps, WriteLeavesOthers DEF Stale
      <3>2. /\ excused \subseteq excused'
            /\ \A k \in Requests : pc[k] = "written" =>
                    pc'[k] = "written" /\ owed'[k] = owed[k]
        <4>1. pc \in [Requests -> Labels]
          BY DEF TypeOK
        <4>2. /\ excused \subseteq excused'
              /\ pc' = [pc EXCEPT ![q] = "written"]
              /\ pc[q] # "written"
              /\ \A k \in Requests : k # q => owed'[k] = owed[k]
          BY <1>5, WriteSteps
        <4> QED
          BY <4>1, <4>2
      <3> QED
        BY <1>1, <3>1, <3>2
    <2> QED
      BY <2>1, <2>2
  <1>6. ASSUME NEW q \in Requests, CreateRole(q) \/ CreatePermission(q)
        PROVE  Explained'
    <2>1. Stale(r)
      BY <1>6, CreateStep DEF Stale
    <2>2. /\ UNCHANGED <<owed, excused>>
          /\ \A k \in Requests : pc[k] = "written" => pc'[k] = "written"
      BY <1>6, CreateStep DEF TypeOK
    <2> QED
      BY <1>1, <2>1, <2>2
  <1>7. ASSUME NEW q \in Requests, FindRolesOf(q)
        PROVE  Explained'
    <2>1. Stale(r)
      BY <1>7, TablesSame DEF FindRolesOf, Stale
    <2> QED
      BY <1>1, <1>7, <2>1 DEF FindRolesOf, At, Goto, TypeOK
  <1>8. ASSUME NEW q \in Requests, ClearCache(q)
        PROVE  Explained'
    <2>1. PICK c \in owed[q] :
            /\ cache' = [cache EXCEPT ![c] = None]
            /\ owed' = [owed EXCEPT ![q] = @ \ {c}]
            /\ excused' = excused \ {c}
      BY <1>8 DEF ClearCache
    <2>2. r # c
      BY <2>1 DEF Stale, TypeOK
    <2>3. Stale(r)
      BY <1>8, <2>1, <2>2, TablesSame DEF ClearCache, Stale, TypeOK
    <2> QED
      BY <1>1, <1>8, <2>1, <2>2, <2>3 DEF ClearCache, TypeOK
  <1>9. ASSUME NEW q \in Requests, Abort(q)
        PROVE  Explained'
    <2>1. Stale(r)
      BY <1>9, TablesSame DEF Abort, Stale
    <2> QED
      BY <1>1, <1>9, <2>1 DEF Abort, Goto, TypeOK
  <1>10. ASSUME NEW c \in Roles, CacheExpires(c)
         PROVE  Explained'
    <2>1. r # c
      BY <1>10 DEF CacheExpires, Stale, TypeOK
    <2>2. Stale(r)
      BY <1>10, <2>1, TablesSame DEF CacheExpires, Stale, TypeOK
    <2> QED
      BY <1>1, <1>10, <2>1, <2>2 DEF CacheExpires
  <1>11. CASE UNCHANGED authVars
    <2>1. Stale(r)
      BY <1>11, TablesSame DEF authVars, Stale
    <2> QED
      BY <1>1, <1>11, <2>1 DEF authVars
  <1>12. CASE Next
    BY <1>2, <1>3, <1>4, <1>5, <1>6, <1>7, <1>8, <1>9, <1>10, <1>12, NextSplit, Zenon
       DEF QuietStep, WriteStep
  <1> QED
    BY <1>11, <1>12

-----------------------------------------------------------------------------
(***************************************************************************)
(* The role ADMIN.                                                          *)
(***************************************************************************)
LEMMA InitAdmin == Init => AdminInv
  <1> SUFFICES ASSUME Init
               PROVE  AdminInv
    OBVIOUS
  <1>1. PICK sent \in Arrivals :
            pc = [q \in Requests |-> IF q \in sent THEN "start" ELSE "unsent"]
    BY DEF Init
  <1> QED
    BY <1>1, AdminAssumption DEF Init, AdminInv

\* What a step may do to the role ADMIN.
AdminStep ==
    /\ Admin \in roles'
    /\ roleName'[Admin] = "ADMIN"
    /\ Admin \in active'
    /\ \A p \in links[Admin] : p \in links'[Admin] \/ route'[p] = None
    /\ links'[Admin] \subseteq links[Admin]

LEMMA AdminPreserved ==
    ASSUME TypeOK, RowsThere, AdminInv, [Next]_authVars
    PROVE  AdminInv' /\ AdminStep
  <1> USE AuthorizationAssumption, AdminAssumption DEF AdminInv, AdminStep
  <1>1. ASSUME NEW q \in Requests, QuietStep(q)
        PROVE  AdminInv' /\ AdminStep
    <2>1. PICK l \in Labels :
            /\ pc' = [pc EXCEPT ![q] = l]
            /\ l \in {"verified", "validated"} =>
                    \/ pc[q] = "verified"
                    \/ RoleOf[q] \in roles /\ roleName[RoleOf[q]] # "ADMIN"
      BY <1>1, QuietSteps
    <2>2. UNCHANGED tableVars
      BY <1>1, QuietSteps
    <2> QED
      BY <2>1, <2>2 DEF TypeOK, tableVars
  <1>2. ASSUME NEW q \in Requests, CreateRole(q) \/ UpdateRole(q) \/ DeleteRole(q)
        PROVE  AdminInv' /\ AdminStep
    <2>1. RoleOf[q] # Admin
      BY <1>2 DEF CreateRole, UpdateRole, DeleteRole, At
    <2> QED
      BY <1>2, <2>1 DEF CreateRole, UpdateRole, DeleteRole, PutRole, Goto, TypeOK
  <1>3. ASSUME NEW q \in Requests, CreatePermission(q) \/ UpdatePermission(q)
        PROVE  AdminInv' /\ AdminStep
    BY <1>3 DEF CreatePermission, UpdatePermission, WritePermission, Goto, TypeOK
  <1>4. ASSUME NEW q \in Requests, DeletePermission(q)
        PROVE  AdminInv' /\ AdminStep
    BY <1>4 DEF DeletePermission, WritePermission, Goto, TypeOK
  <1>5. ASSUME NEW q \in Requests,
               FindPermissions(q) \/ FillCache(q) \/ FindRolesOf(q) \/ Abort(q)
        PROVE  AdminInv' /\ AdminStep
    BY <1>5 DEF FindPermissions, FillCache, FindRolesOf, Abort, Verdict, Goto, TypeOK,
                tableVars
  <1>6. ASSUME UNCHANGED <<tableVars, pc>>
        PROVE  AdminInv' /\ AdminStep
    BY <1>6 DEF tableVars
  <1>7. CASE UNCHANGED authVars
    BY <1>6, <1>7 DEF authVars
  <1>8. CASE Next
    BY <1>1, <1>2, <1>3, <1>4, <1>5, <1>6, <1>8, NextSplit, Zenon
       DEF QuietStep, ClearCache, CacheExpires
  <1> QED
    BY <1>7, <1>8

-----------------------------------------------------------------------------
AuthorizationInv == TypeOK /\ CacheInv /\ AdminInv

LEMMA Inductive == Spec => []AuthorizationInv
  <1>1. Init => AuthorizationInv
    BY InitType, InitCache, InitAdmin DEF AuthorizationInv
  <1>2. AuthorizationInv /\ [Next]_authVars => AuthorizationInv'
    <2> SUFFICES ASSUME AuthorizationInv, [Next]_authVars
                 PROVE  AuthorizationInv'
      OBVIOUS
    <2> USE DEF AuthorizationInv
    <2>1. TypeOK'
      BY TypeStep DEF CacheInv
    <2>2. RowsThere' /\ ListComplete'
      BY RowsStep, ListStep DEF CacheInv
    <2>3. ReadsFresh'
      BY ReadsStep DEF CacheInv
    <2>4. StaleOnlyIfExcused'
      BY StaleStep
    <2>5. AdminInv'
      BY AdminPreserved DEF CacheInv
    <2> QED
      BY <2>1, <2>2, <2>3, <2>4, <2>5 DEF CacheInv
  <1> QED
    BY <1>1, <1>2, PTL DEF Spec

\* Tables, cache entries and what requests remember keep their types whatever
\* guards, edits and failures overlap; a cached entry only ever holds routes.
THEOREM TypeCorrect == Spec => []TypeOK
  BY Inductive, PTL DEF AuthorizationInv

\* A cached role is out of date only while a clearing is under way, or after one
\* of the three events the code leaves to the ttl: the guard of AuthGuard that
\* was overtaken, the clearing that was lost, the link made too late.
THEOREM CacheExplained == Spec => []StaleOnlyIfExcused
  BY Inductive, PTL DEF AuthorizationInv, CacheInv

\* No interleaving of updateRole, deleteRole and the handlers of permissions
\* changes the role ADMIN.
THEOREM AdminUntouched == Spec => AdminRoleKept
  <1>1. AuthorizationInv /\ [Next]_authVars => [AdminStep]_authVars
    BY AdminPreserved DEF AuthorizationInv, CacheInv
  <1>2. AdminRoleKept <=> [][AdminStep]_authVars
    BY PTL DEF AdminRoleKept, AdminStep
  <1> QED
    BY <1>1, <1>2, Inductive, PTL DEF Spec

=============================================================================
