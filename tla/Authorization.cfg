\* Guards fill the cache while roles and permissions are changed, deleted and created under
\* them and entries run out; any request may be refused or die.
SPECIFICATION FairSpec
CHECK_DEADLOCK FALSE

CONSTANTS
    Roles = {"admin", "seller", "staff", "extra"}
    Permissions = {"p1", "p2", "p3"}
    Routes = {"x", "y", "z"}
    Names = {"ADMIN", "SELLER", "staff", "shop"}
    Requests = {"g1", "g2", "g3", "grant", "revoke", "retire", "rename", "editAdmin", "close", "closeStaff", "create", "move", "drop", "add"}
    InitialRoles = {"admin", "seller", "staff"}
    Admin = "admin"
    None = None
    Arrivals <- MCArrivals
    OpOf <- MCOpOf
    RoleOf <- MCRoleOf
    PermissionOf <- MCPermissionOf
    RouteOf <- MCRouteOf
    BodyOf <- MCBodyOf
    InitialName <- MCInitialName
    InitialLinks <- MCInitialLinks
    InitialRoute <- MCInitialRoute

INVARIANTS
    StaleOnlyIfExcused
PROPERTIES
    StaleEntriesVanish
    AdminRoleKept
