--------------------------- MODULE Authentication ---------------------------
(***************************************************************************)
(* Accounts, one-time codes and sessions together: a login with a second    *)
(* factor spends a code and opens a session, registration and password      *)
(* resets spend codes and write users, an admin deletes users under them.   *)
(***************************************************************************)
EXTENDS Otp, Session

authVars == <<account, totp, userId, pc, otpCodes, otpId, spent, written, devices,
              inactive, tokens, stale, deviceOf, presented, created, dropped>>

\* Every table holds rows of its type, every request is at a step of its
\* handler.
TypeOK == AccountTypeOK /\ OtpTypeOK /\ SessionTypeOK

Init == AccountInit /\ OtpInit /\ SessionInit

\* A request is refused, meets a database error or dies with the process: what
\* it has written stays.
Abort(r) ==
    /\ Goto(r, "failed")
    /\ UNCHANGED <<accountVars, userId, otpVars, sessionVars>>

RequestStep(r) ==
    \/ AccountStep(r) /\ UNCHANGED <<otpVars, sessionVars>>
    \/ OtpStep(r) /\ UNCHANGED sessionVars
    \/ SessionStep(r) /\ UNCHANGED otpVars
    \/ Abort(r)

ClockStep ==
    \/ OtpExpires /\ UNCHANGED sessionVars
    \/ TokenExpires /\ UNCHANGED otpVars

CronStep == RemoveRefreshTokens /\ UNCHANGED otpVars

\* The requests under way.
Open == {r \in Requests : pc[r] \notin {"unsent", "answered", "failed"}}

Next ==
    \/ \E r \in Open : RequestStep(r)
    \/ ClockStep
    \/ CronStep

Spec == Init /\ [][Next]_authVars

\* The cron job runs every midnight, and again the next one if it failed.
FairSpec == Spec /\ WF_authVars(CronStep)

-----------------------------------------------------------------------------
\* The request has done what its code lets it do: the user is written, or the
\* code is deleted, which is when login and disable2fa go on.
TookEffect(r) ==
    IF OpOf[r] \in {"register", "forgotPassword"}
    THEN written[r] = "done"
    ELSE spent[r] = "done"

\* An admin has deleted a user with this email.
UserDeleted(email) ==
    \E d \in Requests :
        OpOf[d] = "deleteUser" /\ EmailOf[d] = email /\ pc[d] = "answered"

\* A one-time code serves one request, however many present it at once and
\* although a new code may take over its row, with two exceptions.  Several
\* forgotPassword that have found the code write their passwords, since the
\* write does not wait for the deletion of the code: but one at most is told
\* so.  And a register may insert a user again after an admin deleted it.
CodeServesOneRequest ==
    \A q, r \in Requests :
        (q # r /\ CodeOf[q] = CodeOf[r] /\ TookEffect(q) /\ TookEffect(r)) =>
            \/ /\ OpOf[q] = "forgotPassword" /\ OpOf[r] = "forgotPassword"
               /\ ~(pc[q] = "answered" /\ pc[r] = "answered")
            \/ /\ OpOf[q] = "register" /\ OpOf[r] = "register"
               /\ UserDeleted(EmailOf[r])

\* A code that a request has deleted is refused from then on, also where the
\* next code was stored in the same row: no request finds it any more.
SpentCodeRefused ==
    [][\A q, r \in Requests :
        (spent[q] = "done" /\ CodeOf[q] = CodeOf[r] /\ AsksForCode(r))
            => pc'[r] \in {pc[r], "failed"}]_authVars

\* The tokens that keep a client logged in: given to it, and in the table.
LiveTokens == {t \in tokens : t \in Given}

\* A device has one session at most: of the refresh tokens given to clients for
\* it one is in the table, although a token may be presented by several refreshes
\* at once and each of them inserts a new one.
OneSessionPerDevice ==
    \A t1, t2 \in LiveTokens : deviceOf[t1] = deviceOf[t2] => t1 = t2

\* A logout that has deleted the token ends the session of its device for good,
\* whatever refreshes overlap it.
LogoutEndsSession ==
    \A r \in Requests :
        (OpOf[r] = "logout" /\ dropped[r] = "done")
            => \A t \in LiveTokens : deviceOf[t] # deviceOf[r]

\* The right to a device's session: a login has it until it is answered, then
\* its token in the table, then the refresh that deletes that token until it is
\* answered.
Claim(r) ==
    \/ r \in LiveTokens
    \/ pc[r] = "signing"
    \/ pc[r] = "rotating" /\ dropped[r] = "done"

\* The requests that create a token; devices and tokens are named after them.
TokenMakers == {r \in Requests : LogsIn(r) \/ OpOf[r] = "refresh"}

\* The devices logins have made, each with those who claim its session.
Claimants ==
    LET claims == {r \in TokenMakers : Claim(r)}
    IN  [d \in TokenMakers |-> {r \in claims : deviceOf[r] = d}]

\* The logins that have made their device and the refreshes that have deleted
\* the token presented to them.
Claimed ==
    {r \in TokenMakers :
        deviceOf[r] = r \/ (OpOf[r] = "refresh" /\ dropped[r] = "done")}

Device == INSTANCE DeviceSession
    WITH Holders <- TokenMakers, holding <- Claimants, used <- Claimed

\* Seen through who has the right to a session, the handlers with their steps
\* run side by side, failures, expiries and removals only ever open a session
\* once, pass it on to a fresh holder or end it: no client can go on with a
\* token after another was issued for it, and no session comes back.
ImplementsDeviceSession == Device!DeviceSessionSpec

\* A token given to nobody, left behind by a refresh that failed half-way, does
\* not stay either: every token past its time is removed.
StaleTokensRemoved ==
    (\E t \in tokens : t \in stale) ~> (\A t \in tokens : t \notin stale)

-----------------------------------------------------------------------------
(***************************************************************************)
(* What makes the safety properties inductive.  First the codes.            *)
(***************************************************************************)
\* A sendOtp that may have stored its code; it will not store it again.
Stored(r) == OpOf[r] = "sendOtp" /\ pc[r] \notin {"unsent", "start", "generated"}

\* The request has found the code it presents, and not lost its row yet.
HoldsCode(r) ==
    \/ pc[r] \in {"validated", "consuming"}
    \/ Resets(r)
    \/ spent[r] # "open"
    \/ written[r] # "open"

\* Who holds a code; only login and disable2fa ask for it later than at their
\* start, and only register and forgotPassword write a user beside its deletion.
CodeLabels ==
    \A r \in Requests :
        /\ pc[r] \in {"needsCode", "consuming"} => OpOf[r] \in {"login", "disable2fa"}
        /\ pc[r] = "validated" => OpOf[r] = "forgotPassword"
        /\ spent[r] # "open" =>
                OpOf[r] \in {"register", "forgotPassword", "login", "disable2fa"}
        /\ written[r] # "open" => OpOf[r] \in {"register", "forgotPassword"}

\* A row was inserted by one request and written last by the one that made its
\* code, which knows the id, for the same email and type.
RowsKnown ==
    \A row \in otpCodes :
        /\ Stored(row.id)
        /\ Stored(row.code)
        /\ otpId[row.code] = row.id
        /\ row.email = EmailOf[row.code]
        /\ row.type = TypeFor(row.code)

\* The request has the id of the row its code was stored in.
KnowsRow(r) ==
    /\ CodeOf[r] \in Requests
    /\ Stored(CodeOf[r])
    /\ EmailOf[r] = EmailOf[CodeOf[r]]
    /\ TypeFor(r) = TypeFor(CodeOf[r])
    /\ otpId[r] = otpId[CodeOf[r]]
    /\ otpId[r] \in Requests
    /\ Stored(otpId[r])

\* Requests that hold one code hold one id.
HeldKnown == \A r \in Requests : HoldsCode(r) => KnowsRow(r)

\* The id of a row that a code was spent on never comes back.
SpentGone ==
    \A r \in Requests : spent[r] = "done" =>
        \A row \in otpCodes : row.id # otpId[r]

\* One request deletes the row while it holds the code.
OneSpender ==
    \A r1, r2 \in Requests :
        (spent[r1] = "done" /\ spent[r2] = "done" /\ CodeOf[r1] = CodeOf[r2])
            => r1 = r2

CodeInv == CodeLabels /\ RowsKnown /\ HeldKnown /\ SpentGone /\ OneSpender

\* Who is told of its success has deleted its code; a registered user is there
\* until it is deleted.
EffectInv ==
    \A r \in Requests :
        /\ (OpOf[r] \in {"register", "forgotPassword"} /\ pc[r] = "answered")
                => spent[r] = "done"
        /\ (OpOf[r] = "register" /\ written[r] = "done")
                => UserOf(r) = r \/ UserDeleted(EmailOf[r])

(***************************************************************************)
(* Then the sessions: one claim to a device at a time, and none to a device *)
(* that was logged out of.                                                  *)
(***************************************************************************)
OneClaimPerDevice ==
    \A r1, r2 \in Requests :
        (Claim(r1) /\ Claim(r2) /\ deviceOf[r1] = deviceOf[r2]) => r1 = r2

LoggedOutUnclaimed ==
    \A r, c \in Requests :
        (OpOf[r] = "logout" /\ dropped[r] = "done" /\ Claim(c))
            => deviceOf[c] # deviceOf[r]

SessionLabels ==
    \A r \in Requests :
        /\ pc[r] \in {"rotating", "rejecting"} => OpOf[r] = "refresh"
        /\ pc[r] = "loggingOut" => OpOf[r] = "logout"
        /\ pc[r] = "signing" => LogsIn(r)
        /\ dropped[r] # "open" =>
                pc[r] \in {"rotating", "rejecting", "loggingOut", "answered", "failed"}

\* A device is named after the login that made it, which has made it by then.
DevicesKnown ==
    \A r \in Requests :
        /\ deviceOf[r] # None =>
                /\ deviceOf[r] \in Requests
                /\ LogsIn(deviceOf[r])
                /\ deviceOf[deviceOf[r]] = deviceOf[r]
        /\ (LogsIn(r) /\ deviceOf[r] # None) =>
                pc[r] \in {"signing", "answered", "failed"}
        /\ pc[r] = "signing" => deviceOf[r] # None
        /\ r \in Given => deviceOf[r] # None

\* A request that reads a token works on the token's device.
PresentedKnown ==
    \A r \in Requests :
        (pc[r] \in {"rotating", "rejecting", "loggingOut"} \/ dropped[r] = "done") =>
            /\ presented[r] \in Given
            /\ deviceOf[r] = deviceOf[presented[r]]

SessionInv ==
    /\ SessionLabels
    /\ DevicesKnown
    /\ PresentedKnown
    /\ OneClaimPerDevice
    /\ LoggedOutUnclaimed

AuthInv == TypeOK /\ CodeInv /\ SessionInv /\ EffectInv

=============================================================================
