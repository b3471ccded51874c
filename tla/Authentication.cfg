\* Codes presented twice, a token refreshed twice and logged out of at once, users registered,
\* reset and deleted under way; any request may be refused or die.
SPECIFICATION FairSpec
CHECK_DEADLOCK FALSE

CONSTANTS
    Emails = {"e", "f"}
    Totp = Totp
    None = None
    Registered = {"e"}
    Enrolled = {"e"}
    Requests = {"send1", "send2", "login1", "login2", "login3", "refresh1", "refresh2", "logout1", "delete1", "send3", "register1", "register2", "google1", "create1", "send4", "forgot1", "forgot2", "setup1", "disable1", "delete2"}
    Arrivals <- MCArrivals
    OpOf <- MCOpOf
    EmailOf <- MCEmailOf
    TypeOf <- MCTypeOf
    CodeOf <- MCCodeOf

INVARIANTS
    CodeServesOneRequest
    OneSessionPerDevice
    LogoutEndsSession
PROPERTIES
    SpentCodeRefused
    ImplementsDeviceSession
    StaleTokensRemoved
