------------------------------ MODULE Account ------------------------------
(***************************************************************************)
(* Users, as the authentication handlers see them: the User table with its  *)
(* partial unique index on email, the secret of the second factor, and the  *)
(* requests that are under way (AuthService, UserService).                  *)
(*                                                                          *)
(* A user id is never used again: the user an email has at the start is     *)
(* named after the email, any other after the request that inserted it.     *)
(***************************************************************************)
EXTENDS Naturals

CONSTANTS
    Emails,
    Requests,    \* requests clients may send
    Arrivals,    \* the sets of requests that come in one behaviour
    OpOf,        \* request -> its handler
    EmailOf,     \* request -> the email in its body
    TypeOf,      \* request -> the type of OTP code it asks for or presents
    CodeOf,      \* request -> the code it presents: the request that made it
    Totp,        \* in place of a code: the client presents a TOTP code
    None,
    Registered,  \* emails that have a user at the start
    Enrolled     \* ... with a TOTP secret

Ops == {"sendOtp", "register", "login", "google", "forgotPassword", "setup2fa",
        "disable2fa", "refresh", "logout", "createUser", "deleteUser"}

OtpTypes == {"REGISTER", "LOGIN", "FORGOT_PASSWORD", "DISABLE_2FA"}

ASSUME AccountAssumption ==
    /\ Arrivals \subseteq SUBSET Requests
    /\ OpOf \in [Requests -> Ops]
    /\ EmailOf \in [Requests -> Emails]
    /\ TypeOf \in [Requests -> OtpTypes]
    /\ CodeOf \in [Requests -> Requests \cup {Totp}]
    /\ Totp \notin Requests
    /\ Emails \cap Requests = {}
    /\ None \notin Emails \cup Requests
    /\ Registered \subseteq Emails
    /\ Enrolled \subseteq Registered

UserIds == Emails \cup Requests

VARIABLES
    account,  \* email -> the user with that email and deletedAt null, or None
    totp,     \* users with a totpSecret
    userId,   \* the user a request has found, or inserted
    pc        \* where a request is

accountVars == <<account, totp>>

Labels == {"unsent", "start", "generated", "stored", "mailRefused", "needsCode",
           "validated", "expired", "unknown", "consuming", "writing", "admitted",
           "inserting", "signing", "rotating", "rejecting", "loggingOut", "answered",
           "failed"}

AccountTypeOK ==
    /\ account \in [Emails -> UserIds \cup {None}]
    /\ totp \in SUBSET UserIds
    /\ userId \in [Requests -> UserIds \cup {None}]
    /\ pc \in [Requests -> Labels]

AccountInit ==
    /\ account = [e \in Emails |-> IF e \in Registered THEN e ELSE None]
    /\ totp = Enrolled
    /\ userId = [r \in Requests |-> None]
    /\ \E sent \in Arrivals :
            pc = [r \in Requests |-> IF r \in sent THEN "start" ELSE "unsent"]

-----------------------------------------------------------------------------
Goto(r, label) == pc' = [pc EXCEPT ![r] = label]

UserOf(r) == account[EmailOf[r]]

Exists(r) == UserOf(r) # None

\* update where { id, deletedAt: null } finds the user the request has read.
Found(r) == userId[r] # None /\ UserOf(r) = userId[r]

Note(r) == userId' = [userId EXCEPT ![r] = UserOf(r)]

\* INSERT of a user: the unique index refuses a second one.
InsertUser(r) ==
    /\ ~Exists(r)
    /\ account' = [account EXCEPT ![EmailOf[r]] = r]
    /\ userId' = [userId EXCEPT ![r] = r]
    /\ UNCHANGED totp

\* createUser of an admin.
CreateUser(r) ==
    /\ OpOf[r] = "createUser"
    /\ pc[r] = "start"
    /\ InsertUser(r)
    /\ Goto(r, "answered")

\* setup2fa reads the user, and stores a secret if it saw none.
ReadForSetup(r) ==
    /\ OpOf[r] = "setup2fa"
    /\ pc[r] = "start"
    /\ Exists(r)
    /\ UserOf(r) \notin totp
    /\ Note(r)
    /\ Goto(r, "writing")
    /\ UNCHANGED accountVars

StoreSecret(r) ==
    /\ OpOf[r] = "setup2fa"
    /\ pc[r] = "writing"
    /\ Found(r)
    /\ totp' = totp \cup {userId[r]}
    /\ Goto(r, "answered")
    /\ UNCHANGED <<account, userId>>

\* disable2fa reads the user and asks for a code; once that has been accepted
\* it removes the secret.
ReadForDisable(r) ==
    /\ OpOf[r] = "disable2fa"
    /\ pc[r] = "start"
    /\ Exists(r)
    /\ UserOf(r) \in totp
    /\ Note(r)
    /\ Goto(r, "needsCode")
    /\ UNCHANGED accountVars

RemoveSecret(r) ==
    /\ OpOf[r] = "disable2fa"
    /\ pc[r] = "admitted"
    /\ Found(r)
    /\ totp' = totp \ {userId[r]}
    /\ Goto(r, "answered")
    /\ UNCHANGED <<account, userId>>

\* login reads the user; without a second factor the password is enough.
ReadForLogin(r) ==
    /\ OpOf[r] = "login"
    /\ pc[r] = "start"
    /\ Exists(r)
    /\ Note(r)
    /\ Goto(r, IF UserOf(r) \in totp THEN "needsCode" ELSE "admitted")
    /\ UNCHANGED accountVars

\* authCallback finds the user of the verified email, or inserts one.
ReadForGoogle(r) ==
    /\ OpOf[r] = "google"
    /\ pc[r] = "start"
    /\ Note(r)
    /\ Goto(r, IF Exists(r) THEN "admitted" ELSE "inserting")
    /\ UNCHANGED accountVars

InsertGoogleUser(r) ==
    /\ OpOf[r] = "google"
    /\ pc[r] = "inserting"
    /\ InsertUser(r)
    /\ Goto(r, "admitted")

AccountStep(r) ==
    \/ CreateUser(r)
    \/ ReadForSetup(r) \/ StoreSecret(r)
    \/ ReadForDisable(r) \/ RemoveSecret(r)
    \/ ReadForLogin(r)
    \/ ReadForGoogle(r) \/ InsertGoogleUser(r)

=============================================================================
