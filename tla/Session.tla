------------------------------ MODULE Session ------------------------------
(***************************************************************************)
(* Sessions: the devices a user logs in on and the refresh tokens that keep *)
(* them logged in (AuthService.login, refreshToken, logout,                 *)
(* createAuthTokens; RemoveRefreshTokenCronjob; UserService.deleteUser).    *)
(*                                                                          *)
(* A refresh token carries a uuid, so no two are equal: a token is named    *)
(* after the request that created it, a device after the login.             *)
(***************************************************************************)
EXTENDS Account

VARIABLES
    devices,    \* the Device table
    inactive,   \* devices with isActive false
    tokens,     \* the RefreshToken table
    stale,      \* tokens whose expiresAt has passed
    deviceOf,   \* the device of a request, and of the token it creates
    presented,  \* the token in the body of a refresh or logout
    created,    \* what came of a refresh's INSERT of its new token
    dropped     \* ... of the deletion of the token presented

sessionVars == <<devices, inactive, tokens, stale, deviceOf, presented, created,
                 dropped>>

\* What is in the tables, and what a request knows.
tableVars == <<devices, inactive, tokens, stale>>

localVars == <<deviceOf, presented, created, dropped>>

SessionTypeOK ==
    /\ devices \in SUBSET Requests
    /\ inactive \in SUBSET Requests
    /\ tokens \in SUBSET Requests
    /\ stale \in SUBSET Requests
    /\ deviceOf \in [Requests -> Requests \cup {None}]
    /\ presented \in [Requests -> Requests \cup {None}]
    /\ created \in [Requests -> {"open", "done", "lost"}]
    /\ dropped \in [Requests -> {"open", "done", "lost"}]

SessionInit ==
    /\ devices = {}
    /\ inactive = {}
    /\ tokens = {}
    /\ stale = {}
    /\ deviceOf = [r \in Requests |-> None]
    /\ presented = [r \in Requests |-> None]
    /\ created = [r \in Requests |-> "open"]
    /\ dropped = [r \in Requests |-> "open"]

LogsIn(r) == OpOf[r] \in {"login", "google"}

\* The tokens clients hold: those of requests that were answered.
Given == {r \in Requests : pc[r] = "answered" /\ (LogsIn(r) \/ OpOf[r] = "refresh")}

-----------------------------------------------------------------------------
\* createDevice; the user must still be there.
CreateDevice(r) ==
    /\ LogsIn(r)
    /\ pc[r] = "admitted"
    /\ Found(r)
    /\ devices' = devices \cup {r}
    /\ deviceOf' = [deviceOf EXCEPT ![r] = r]
    /\ Goto(r, "signing")
    /\ UNCHANGED <<accountVars, userId, inactive, tokens, stale, presented, created,
                   dropped>>

\* createAuthTokens of a login; the device must still be there.
CreateRefreshToken(r) ==
    /\ LogsIn(r)
    /\ pc[r] = "signing"
    /\ deviceOf[r] \in devices
    /\ tokens' = tokens \cup {r}
    /\ Goto(r, "answered")
    /\ UNCHANGED <<accountVars, userId, devices, inactive, stale, localVars>>

-----------------------------------------------------------------------------
\* refreshToken and logout read the row of a token some client was given.
ReadToken(r, op, t, label) ==
    /\ OpOf[r] = op
    /\ pc[r] = "start"
    /\ t \in tokens
    /\ presented' = [presented EXCEPT ![r] = t]
    /\ deviceOf' = [deviceOf EXCEPT ![r] = deviceOf[t]]
    /\ userId' = [userId EXCEPT ![r] = userId[t]]
    /\ Goto(r, label)
    /\ UNCHANGED <<accountVars, tableVars, created, dropped>>

\* A token that is past its time fails verifyRefreshToken: the request will be
\* answered with an error, after the other three have been started.
FindRefreshToken(r) ==
    \E t \in Given :
        ReadToken(r, "refresh", t, IF t \in stale THEN "rejecting" ELSE "rotating")

FindTokenToLogOut(r) == \E t \in Given : ReadToken(r, "logout", t, "loggingOut")

\* Without a row there is nothing to log out of.
LogOutWithoutToken(r) ==
    /\ OpOf[r] = "logout"
    /\ pc[r] = "start"
    /\ \E t \in Given : t \notin tokens
    /\ Goto(r, "answered")
    /\ UNCHANGED <<accountVars, userId, sessionVars>>

Rotates(r) == pc[r] \in {"rotating", "rejecting"}

\* createAuthTokens of a refresh.
InsertNextToken(r) ==
    /\ Rotates(r)
    /\ created[r] = "open"
    /\ IF deviceOf[r] \in devices
       THEN /\ tokens' = tokens \cup {r}
            /\ created' = [created EXCEPT ![r] = "done"]
       ELSE /\ created' = [created EXCEPT ![r] = "lost"]
            /\ UNCHANGED tokens
    /\ UNCHANGED <<accountVars, userId, pc, devices, inactive, stale, deviceOf,
                   presented, dropped>>

\* Mutant of Removed: a deletion that finds no row is taken for a success.
RemovedIfThere(r) == TRUE

\* delete throws P2025 when the row is gone.
Removed(r) == presented[r] \in tokens

\* deleteRefreshToken of a refresh or a logout.
DeleteRefreshToken(r) ==
    /\ Rotates(r) \/ pc[r] = "loggingOut"
    /\ dropped[r] = "open"
    /\ tokens' = tokens \ {presented[r]}
    /\ dropped' = [dropped EXCEPT ![r] = IF Removed(r) THEN "done" ELSE "lost"]
    /\ UNCHANGED <<accountVars, userId, pc, devices, inactive, stale, deviceOf,
                   presented, created>>

\* Mutant of AnswerRefresh: the deletion is not waited for.
AnswerRefreshEarly(r) ==
    /\ pc[r] = "rotating"
    /\ created[r] = "done"
    /\ Goto(r, "answered")
    /\ UNCHANGED <<accountVars, userId, sessionVars>>

\* Promise.all resolves with the new tokens.
AnswerRefresh(r) ==
    /\ pc[r] = "rotating"
    /\ created[r] = "done"
    /\ dropped[r] = "done"
    /\ Goto(r, "answered")
    /\ UNCHANGED <<accountVars, userId, sessionVars>>

\* updateDevice of a logout runs whether or not the token could be deleted.
DeactivateDevice(r) ==
    /\ pc[r] = "loggingOut"
    /\ deviceOf[r] \in devices
    /\ deviceOf[r] \notin inactive
    /\ inactive' = inactive \cup {deviceOf[r]}
    /\ UNCHANGED <<accountVars, userId, pc, devices, tokens, stale, localVars>>

AnswerLogout(r) ==
    /\ pc[r] = "loggingOut"
    /\ dropped[r] = "done"
    /\ deviceOf[r] \in inactive
    /\ Goto(r, "answered")
    /\ UNCHANGED <<accountVars, userId, sessionVars>>

\* deleteUser of an admin is a hard delete: devices and tokens go with it.
DeleteUser(r) ==
    /\ OpOf[r] = "deleteUser"
    /\ pc[r] = "start"
    /\ Exists(r)
    /\ account' = [account EXCEPT ![EmailOf[r]] = None]
    /\ devices' = {d \in devices : userId[d] # UserOf(r)}
    /\ tokens' = {t \in tokens : userId[t] # UserOf(r)}
    /\ Goto(r, "answered")
    /\ UNCHANGED <<totp, userId, inactive, stale, localVars>>

SessionStep(r) ==
    \/ CreateDevice(r) \/ CreateRefreshToken(r)
    \/ FindRefreshToken(r) \/ InsertNextToken(r) \/ DeleteRefreshToken(r)
    \/ AnswerRefresh(r)
    \/ FindTokenToLogOut(r) \/ LogOutWithoutToken(r) \/ DeactivateDevice(r)
    \/ AnswerLogout(r)
    \/ DeleteUser(r)

-----------------------------------------------------------------------------
TokenExpires ==
    \E t \in tokens \ stale :
        /\ stale' = stale \cup {t}
        /\ UNCHANGED <<accountVars, userId, pc, devices, inactive, tokens, localVars>>

\* Mutant of Outdated: the comparison the other way round.
NotOutdated == tokens \ stale

\* expiresAt: { lt: now }
Outdated == tokens \cap stale

\* RemoveRefreshTokenCronjob, every midnight.
RemoveRefreshTokens ==
    /\ Outdated # {}
    /\ tokens' = tokens \ Outdated
    /\ UNCHANGED <<accountVars, userId, pc, devices, inactive, stale, localVars>>

=============================================================================
