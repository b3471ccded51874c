-------------------------- MODULE MCAuthentication --------------------------
(***************************************************************************)
(* Bounded instances of Authentication for TLC.  Email e has a user with a  *)
(* second factor, email f has none.                                         *)
(***************************************************************************)
EXTENDS Authentication, TLC

\* Two codes are sent for one login, presented twice.
CodeArrivals == {"send1", "send2", "login1", "login2"}

\* A session, refreshed twice at once, logged out of, its user deleted.
SessionArrivals == {"login3", "refresh1", "refresh2", "logout1", "delete1"}

\* An email is registered twice with a code, with Google and by an admin.
RegisterArrivals == {"send3", "register1", "register2", "google1", "create1"}

\* A password is reset twice with one code, while the user is deleted.
ResetArrivals == {"send4", "forgot1", "forgot2", "delete1"}

\* A forgotten password and the second factor, while the user is deleted.
SecondFactorArrivals == {"send4", "forgot1", "setup1", "disable1", "delete1"}

\* An email is registered twice with one code, its user deleted in between.
AgainArrivals == {"send3", "register1", "register2", "delete2"}

MCArrivals ==
    {CodeArrivals, SessionArrivals, RegisterArrivals, ResetArrivals,
     SecondFactorArrivals, AgainArrivals}

MCOpOf ==
    [r \in Requests |->
        CASE r \in {"send1", "send2", "send3", "send4"} -> "sendOtp"
          [] r \in {"login1", "login2", "login3"} -> "login"
          [] r \in {"refresh1", "refresh2"} -> "refresh"
          [] r \in {"register1", "register2"} -> "register"
          [] r \in {"forgot1", "forgot2"} -> "forgotPassword"
          [] r = "logout1" -> "logout"
          [] r \in {"delete1", "delete2"} -> "deleteUser"
          [] r = "google1" -> "google"
          [] r = "create1" -> "createUser"
          [] r = "setup1" -> "setup2fa"
          [] r = "disable1" -> "disable2fa"]

MCEmailOf == [r \in Requests |-> IF r \in RegisterArrivals \cup AgainArrivals THEN "f" ELSE "e"]

MCTypeOf ==
    [r \in Requests |-> IF r = "send3" THEN "REGISTER"
                        ELSE IF r = "send4" THEN "FORGOT_PASSWORD" ELSE "LOGIN"]

MCCodeOf ==
    [r \in Requests |-> IF r \in {"register1", "register2"} THEN "send3"
                        ELSE IF r \in {"forgot1", "forgot2"} THEN "send4"
                        ELSE IF r \in {"login1", "login2"} THEN "send1" ELSE Totp]

=============================================================================
