--------------------------- MODULE MCAuthorization ---------------------------
(***************************************************************************)
(* A bounded instance of Authorization.  p1 opens route x to SELLER and     *)
(* ADMIN, p2 opens y to ADMIN.  g* are guarded requests.                    *)
(***************************************************************************)
EXTENDS Authorization

\* Two guards race updates of their role; a permission is moved or deleted while
\* a role is given it; roles and permissions come and go.
MCArrivals ==
    {{"g1", "g2", "grant", "move"}, {"g1", "g2", "revoke", "drop"},
     {"g1", "grant", "drop", "add"}, {"g3", "retire", "create", "editAdmin", "closeStaff"},
     {"g1", "rename", "revoke", "close"}}

MCOpOf == [q \in Requests |->
    CASE q \in {"g1", "g2", "g3"} -> "guard"
      [] q \in {"grant", "revoke", "retire", "rename", "editAdmin"} -> "updateRole"
      [] q \in {"close", "closeStaff"} -> "deleteRole"
      [] q = "create" -> "createRole"
      [] q = "move" -> "updatePermission"
      [] q = "drop" -> "deletePermission"
      [] q = "add" -> "createPermission"]

MCRoleOf == [q \in Requests |->
    CASE q \in {"g3", "retire", "closeStaff"} -> "staff"
      [] q = "create" -> "extra"
      [] q = "editAdmin" -> "admin"
      [] OTHER -> "seller"]

MCPermissionOf == [q \in Requests |-> CASE q = "add" -> "p3" [] q = "move" -> "p1" [] OTHER -> "p2"]

MCRouteOf == [q \in Requests |-> CASE q \in {"g2", "add"} -> "y" [] q = "move" -> "z" [] OTHER -> "x"]

MCBodyOf == [q \in Requests |->
    CASE q = "grant" -> [name |-> "SELLER", isActive |-> TRUE, permissionIds |-> {"p1", "p2"}]
      [] q = "revoke" -> [name |-> "SELLER", isActive |-> TRUE, permissionIds |-> {}]
      [] q = "rename" -> [name |-> "shop", isActive |-> TRUE, permissionIds |-> {"p1"}]
      [] q = "retire" -> [name |-> "staff", isActive |-> FALSE, permissionIds |-> {"p1"}]
      [] q = "editAdmin" -> [name |-> "staff", isActive |-> FALSE, permissionIds |-> {}]
      [] OTHER -> [name |-> "shop", isActive |-> TRUE, permissionIds |-> {}]]

MCInitialName == [r \in Roles |->
    CASE r = "admin" -> "ADMIN" [] r = "seller" -> "SELLER" [] OTHER -> "staff"]

MCInitialLinks == [r \in Roles |->
    CASE r = "admin" -> {"p1", "p2"} [] r = "seller" -> {"p1"} [] r = "staff" -> {"p1"}
      [] OTHER -> {}]

MCInitialRoute == [p \in Permissions |->
    CASE p = "p1" -> "x" [] p = "p2" -> "y" [] OTHER -> None]

=============================================================================
